------------------------------ MODULE StlBook ------------------------------
(***************************************************************************)
(* lob::StlBook, the control group of book_bench: tree maps from price to  *)
(* level, a deque of ids per level, a hash map from id to order, and ids   *)
(* that are never reused.  One thread calls limit and cancel; as in Book,  *)
(* a call to limit takes one step per maker.  What Book has as well bears  *)
(* the name it has there with Stl before it (TwoBooks extends both).       *)
(***************************************************************************)
EXTENDS Lob

CONSTANTS
  StlQtyMod,     \* uint32_t quantities are modulo StlQtyMod
  Submits        \* calls of limit that get an id (bounds the model)

ASSUME StlAssumption ==
  StlQtyMod \in Nat /\ MaxQty < StlQtyMod /\ Submits \in Nat

StlIds == 1 .. Submits

VARIABLES
  maps,         \* bids_ and asks_: from the prices that have a level
  recs,         \* orders_: from the ids of the resting orders
  next_id_,     \* next_id_
  live_,        \* live_
  stlPc,        \* where limit is: idle, match, take
  taker,        \* the order limit is matching
  stlRemaining, \* what match has left of it
  stlTrade      \* the last Exec of the call

stlVars == <<maps, recs, next_id_, live_, stlPc, taker, stlRemaining, stlTrade>>

Rec == [px : Px, qty : 1 .. MaxQty, side : Side]
StlLevel == [fifo : Seq(StlIds), qty : 0 .. StlQtyMod - 1]

NoTaker == [id |-> kInvalidId, px |-> MinPx, side |-> "Buy"]

Without(f, x) == [y \in DOMAIN f \ {x} |-> f[y]]
With(f, x, v) == [y \in DOMAIN f \cup {x} |-> IF y = x THEN v ELSE f[y]]

(* begin() of a map: bids_ is sorted by std::greater.                      *)
Begin(side) ==
  CHOOSE p \in DOMAIN maps[side] :
    \A q \in DOMAIN maps[side] : IF side = "Buy" THEN q <= p ELSE q >= p

StlInit ==
  /\ maps = [s \in Side |-> << >>]
  /\ recs = << >>
  /\ next_id_ = 1 /\ live_ = 0
  /\ stlPc = "idle" /\ taker = NoTaker /\ stlRemaining = 0
  /\ stlTrade = NoTrade
-----------------------------------------------------------------------------
(* limit, up to match.  Otherwise it returns kInvalidId.                   *)
StlLimit(side, px, qty) ==
  /\ stlPc = "idle" /\ live_ < MaxOrders /\ next_id_ <= Submits
  /\ taker' = [id |-> next_id_, px |-> px, side |-> side]
  /\ next_id_' = next_id_ + 1
  /\ live_' = live_ + 1
  /\ stlRemaining' = qty
  /\ stlPc' = "match"
  /\ UNCHANGED <<maps, recs, stlTrade>>

(* The condition of match's loop. *)
StlCrossing ==
  LET other == Opposite(taker.side)
  IN /\ stlRemaining # 0 /\ DOMAIN maps[other] # {}
     /\ IF taker.side = "Buy" THEN Begin(other) <= taker.px ELSE Begin(other) >= taker.px

StlEnterLevel ==
  /\ stlPc = "match" /\ StlCrossing
  /\ stlPc' = "take"
  /\ UNCHANGED <<maps, recs, next_id_, live_, taker, stlRemaining, stlTrade>>

(* take_front: one maker, the front of the deque.                          *)
TakeFront ==
  LET side == Opposite(taker.side)
      px == Begin(side)
      lv == maps[side][px]
      maker_id == Head(lv.fifo)
      maker == recs[maker_id]
      take == IF maker.qty <= stlRemaining THEN maker.qty ELSE stlRemaining
      left == [lv EXCEPT !.qty = (@ - take) % StlQtyMod]
  IN /\ stlPc = "take" /\ stlRemaining # 0 /\ lv.fifo # << >>
     /\ stlTrade' = [maker |-> maker_id, taker |-> taker.id, px |-> px, qty |-> take]
     /\ stlRemaining' = stlRemaining - take
     /\ IF maker.qty = take
        THEN /\ maps' = [maps EXCEPT ![side][px] = [left EXCEPT !.fifo = Tail(@)]]
             /\ recs' = Without(recs, maker_id)
             /\ live_' = live_ - 1
        ELSE /\ maps' = [maps EXCEPT ![side][px] = left]
             /\ recs' = [recs EXCEPT ![maker_id].qty = @ - take]
             /\ UNCHANGED live_
     /\ UNCHANGED <<next_id_, stlPc, taker>>

(* Mutant: the empty level stays in the map.                               *)
StlLeaveLevelKeep ==
  /\ stlPc = "take"
  /\ stlRemaining = 0 \/ maps[Opposite(taker.side)][Begin(Opposite(taker.side))].fifo = << >>
  /\ stlPc' = "match"
  /\ UNCHANGED <<maps, recs, next_id_, live_, taker, stlRemaining, stlTrade>>

(* take_front returns; a level with no orders left is erased.              *)
StlLeaveLevel ==
  LET side == Opposite(taker.side)
      px == Begin(side)
      lv == maps[side][px]
  IN /\ stlPc = "take" /\ (stlRemaining = 0 \/ lv.fifo = << >>)
     /\ maps' = IF lv.fifo = << >>
                THEN [maps EXCEPT ![side] = Without(@, px)]
                ELSE maps
     /\ stlPc' = "match"
     /\ UNCHANGED <<recs, next_id_, live_, taker, stlRemaining, stlTrade>>

(* rest: bids_[px] and asks_[px] create the level if there is none.        *)
StlRest ==
  LET lvs == maps[taker.side]
      old == IF taker.px \in DOMAIN lvs THEN lvs[taker.px]
             ELSE [fifo |-> << >>, qty |-> 0]
      new == [fifo |-> Append(old.fifo, taker.id),
              qty |-> (old.qty + stlRemaining) % StlQtyMod]
  IN /\ recs' = With(recs, taker.id,
                     [px |-> taker.px, qty |-> stlRemaining, side |-> taker.side])
     /\ maps' = [maps EXCEPT ![taker.side] = With(@, taker.px, new)]

StlEndLimit ==
  /\ stlPc = "match" /\ ~ StlCrossing
  /\ IF stlRemaining = 0
     THEN live_' = live_ - 1 /\ UNCHANGED <<maps, recs>>
     ELSE StlRest /\ UNCHANGED live_
  /\ stlPc' = "idle" /\ taker' = NoTaker /\ stlRemaining' = 0 /\ stlTrade' = NoTrade
  /\ UNCHANGED next_id_

(* The deque without the first entry for the id, if it has one.            *)
EraseFirst(fifo, id) ==
  LET found == {k \in DOMAIN fifo : fifo[k] = id}
      first == CHOOSE k \in found : \A j \in found : k <= j
  IN IF found = {} THEN fifo
     ELSE SubSeq(fifo, 1, first - 1) \o SubSeq(fifo, first + 1, Len(fifo))

(* Mutant: a level is erased when its quantity is zero, as in Book.        *)
EraseFromLevelByQty(lvs, px, id, qty) ==
  IF px \notin DOMAIN lvs THEN lvs
  ELSE LET lv == lvs[px]
           fifo == EraseFirst(lv.fifo, id)
           left == IF fifo = lv.fifo THEN lv
                   ELSE [fifo |-> fifo, qty |-> (lv.qty - qty) % StlQtyMod]
       IN IF left.qty = 0 THEN Without(lvs, px) ELSE With(lvs, px, left)

(* erase_from_level: the order leaves its level, and an empty level goes.  *)
EraseFromLevel(lvs, px, id, qty) ==
  IF px \notin DOMAIN lvs THEN lvs
  ELSE LET lv == lvs[px]
           fifo == EraseFirst(lv.fifo, id)
           left == IF fifo = lv.fifo THEN lv
                   ELSE [fifo |-> fifo, qty |-> (lv.qty - qty) % StlQtyMod]
       IN IF fifo = << >> THEN Without(lvs, px) ELSE With(lvs, px, left)

(* cancel(id).  An id that is not in orders_ makes it return false.        *)
StlCancel(id) ==
  /\ stlPc = "idle" /\ id \in DOMAIN recs
  /\ LET o == recs[id]
     IN maps' = [maps EXCEPT ![o.side] = EraseFromLevel(@, o.px, id, o.qty)]
  /\ recs' = Without(recs, id)
  /\ live_' = live_ - 1
  /\ UNCHANGED <<next_id_, stlPc, taker, stlRemaining, stlTrade>>

StlNext ==
  \/ \E side \in Side, px \in Px, qty \in 1 .. MaxQty : StlLimit(side, px, qty)
  \/ StlEnterLevel \/ TakeFront \/ StlLeaveLevel \/ StlEndLimit
  \/ \E id \in StlIds : StlCancel(id)

StlSpec == StlInit /\ [][StlNext]_stlVars
-----------------------------------------------------------------------------
(* The three copies of an order agree: the hash map holds exactly the ids  *)
(* queued at their price, and live_ counts them and the taker.  A level    *)
(* stays in its map only as long as it has orders.                         *)
CopiesAgree ==
  /\ \A id \in DOMAIN recs :
       LET o == recs[id]
       IN /\ o.px \in DOMAIN maps[o.side]
          /\ \E k \in DOMAIN maps[o.side][o.px].fifo : maps[o.side][o.px].fifo[k] = id
  /\ \A s \in Side : \A p \in DOMAIN maps[s] :
       \A k \in DOMAIN maps[s][p].fifo :
         LET id == maps[s][p].fifo[k]
         IN id \in DOMAIN recs /\ recs[id].px = p /\ recs[id].side = s
  /\ live_ = Cardinality(DOMAIN recs) + (IF stlPc = "idle" THEN 0 ELSE 1)
  /\ stlPc = "idle" => \A s \in Side : \A p \in DOMAIN maps[s] : maps[s][p].fifo # << >>

(* The tree book trades by price-time priority, however large the          *)
(* quantities: it never takes a level's quantity for its orders.           *)
StlQueues ==
  [s \in Side |-> [p \in Px |-> IF p \in DOMAIN maps[s] THEN maps[s][p].fifo ELSE << >>]]

StlOrders == [s \in Side |-> [p \in Px |-> Resting(StlQueues[s][p], recs)]]

StlTaking ==
  IF stlPc = "idle" THEN << >>
  ELSE << [id |-> taker.id, side |-> taker.side, px |-> taker.px, qty |-> stlRemaining] >>

StlRules == INSTANCE PriceTimeBook WITH
  Ids <- StlIds, queue <- StlOrders, taker <- StlTaking, trade <- stlTrade

StlImplementsRules == StlRules!Spec
-----------------------------------------------------------------------------
(* The inductive invariant: the types; ...                                 *)
StlTypeOK ==
  /\ DOMAIN maps = Side
  /\ \A s \in Side : /\ DOMAIN maps[s] \subseteq Px
                     /\ \A p \in DOMAIN maps[s] : maps[s][p] \in StlLevel
  /\ DOMAIN recs \subseteq StlIds
  /\ \A id \in DOMAIN recs : recs[id] \in Rec
  /\ next_id_ \in 1 .. Submits + 1
  /\ live_ \in 0 .. MaxOrders
  /\ stlPc \in {"idle", "match", "take"}
  /\ taker \in [id : StlIds \cup {kInvalidId}, px : Px, side : Side]
  /\ stlRemaining \in 0 .. MaxQty
  /\ stlTrade \in [maker : StlIds, taker : StlIds, px : Px, qty : 1 .. MaxQty] \cup {NoTrade}

(* ... where limit is, and the ids that it has given; ...                  *)
StlControl ==
  /\ stlPc = "idle" <=> taker.id = kInvalidId
  /\ taker.id < next_id_ /\ taker.id \notin DOMAIN recs
  /\ \A id \in DOMAIN recs : id < next_id_
  /\ stlPc = "take" =>
       LET other == Opposite(taker.side)
       IN /\ DOMAIN maps[other] # {}
          /\ IF taker.side = "Buy" THEN Begin(other) <= taker.px ELSE Begin(other) >= taker.px

(* ... the levels: only the one that is being taken from may be empty, no  *)
(* order is queued twice, and the quantity is the total but for the wrap.  *)
StlLevels ==
  \A s \in Side : \A p \in DOMAIN maps[s] :
    LET lv == maps[s][p]
    IN /\ lv.fifo = << >> => /\ stlPc = "take" /\ s = Opposite(taker.side)
                             /\ p = Begin(s)
       /\ OneToOne(lv.fifo)
       /\ lv.qty = Total(lv.fifo, recs) % StlQtyMod

StlInv == StlTypeOK /\ StlControl /\ StlLevels /\ CopiesAgree
=============================================================================
