-------------------------------- MODULE Book --------------------------------
(***************************************************************************)
(* lob::Book: the price ladder.  An array of levels per side, each an      *)
(* intrusive FIFO of pool slots with a running quantity; an order id is    *)
(* the slot, taken from a free stack; the best prices are cached and, when *)
(* their level empties, moved by a scan of the ladder.                     *)
(*                                                                         *)
(* One thread calls limit and cancel.  A call to limit takes one step per  *)
(* maker, so that each trade can be compared with PriceTimeBook's.         *)
(***************************************************************************)
EXTENDS Lob

CONSTANT QtyMod  \* uint32_t quantities are modulo QtyMod

ASSUME LadderAssumption == QtyMod \in Nat /\ MaxQty < QtyMod

Ids == 1 .. MaxOrders

VARIABLES
  levels,     \* bids_ and asks_
  best,       \* best_bid_ and best_ask_, 0 when there is none
  orders_,    \* orders_, by id
  free_,      \* free_[0 .. free_top_ - 1], the top last
  pc,         \* where limit is: idle, match, take
  taker_id,   \* the order limit is matching
  remaining,  \* what match has left of it
  trade       \* the last Exec of the call

vars == <<levels, best, orders_, free_, pc, taker_id, remaining, trade>>

Order == [prev : 0 .. MaxOrders, next : 0 .. MaxOrders, qty : 0 .. MaxQty,
          px : Px \cup {0}, side : Side]
Level == [head : 0 .. MaxOrders, tail : 0 .. MaxOrders, qty : 0 .. QtyMod - 1]

NoOrder == [prev |-> 0, next |-> 0, qty |-> 0, px |-> 0, side |-> "Buy"]
NoLevel == [head |-> 0, tail |-> 0, qty |-> 0]

Init ==
  /\ levels = [s \in Side |-> [p \in Px |-> NoLevel]]
  /\ best = [s \in Side |-> 0]
  /\ orders_ = [i \in Ids |-> NoOrder]
  /\ free_ = [i \in Ids |-> MaxOrders - i + 1]
  /\ pc = "idle" /\ taker_id = kInvalidId /\ remaining = 0
  /\ trade = NoTrade
-----------------------------------------------------------------------------
(* Mutant: the scan for an ask runs past the end of the band.              *)
TightenPastBand(side, lvs, from) ==
  LET scan == {p \in Px : lvs[side][p].qty # 0
                            /\ IF side = "Buy" THEN p <= from ELSE p >= from}
  IN IF scan = {} THEN IF side = "Buy" THEN 0 ELSE MaxPx + 1
     ELSE CHOOSE p \in scan :
            \A q \in scan : IF side = "Buy" THEN q <= p ELSE q >= p

(* tighten_bid, tighten_ask: the next level with a quantity, or none.      *)
Tighten(side, lvs, from) ==
  LET scan == {p \in Px : lvs[side][p].qty # 0
                            /\ IF side = "Buy" THEN p <= from ELSE p >= from}
  IN IF scan = {} THEN 0
     ELSE CHOOSE p \in scan :
            \A q \in scan : IF side = "Buy" THEN q <= p ELSE q >= p

(* unlink: the neighbours, or the ends of the level, skip the order.       *)
UnlinkOrder(os, id) ==
  [i \in Ids |->
     [os[i] EXCEPT
        !.next = IF i = id THEN 0 ELSE IF i = os[id].prev THEN os[id].next ELSE @,
        !.prev = IF i = id THEN 0 ELSE IF i = os[id].next THEN os[id].prev ELSE @]]

(* Mutant: the tail keeps pointing to the unlinked order.                  *)
UnlinkLevelKeepTail(lv, o) == [lv EXCEPT !.head = IF o.prev = 0 THEN o.next ELSE @]

UnlinkLevel(lv, o) ==
  [lv EXCEPT !.head = IF o.prev = 0 THEN o.next ELSE @,
             !.tail = IF o.next = 0 THEN o.prev ELSE @]

(* release: the slot is cleared and becomes the top of the free stack.     *)
Release(os, id) ==
  /\ orders_' = [os EXCEPT ![id] = NoOrder]
  /\ free_' = Append(free_, id)

(* limit, up to match.  A zero quantity, a price out of the band or an     *)
(* empty pool makes it return kInvalidId, and nothing changes.             *)
Limit(side, px, qty) ==
  /\ pc = "idle" /\ free_ # << >>
  /\ LET id == free_[Len(free_)]
     IN /\ orders_' = [orders_ EXCEPT ![id] =
                         [prev |-> 0, next |-> 0, qty |-> qty, px |-> px, side |-> side]]
        /\ taker_id' = id
  /\ free_' = SubSeq(free_, 1, Len(free_) - 1)
  /\ remaining' = qty
  /\ pc' = "match"
  /\ UNCHANGED <<levels, best, trade>>

(* The condition of match's loop. *)
Crossing ==
  LET t == orders_[taker_id]
      p == best[Opposite(t.side)]
  IN /\ remaining # 0 /\ p # 0
     /\ IF t.side = "Buy" THEN p <= t.px ELSE p >= t.px

EnterLevel ==
  /\ pc = "match" /\ Crossing
  /\ pc' = "take"
  /\ UNCHANGED <<levels, best, orders_, free_, taker_id, remaining, trade>>

(* Mutant: trades print at the limit of the taker.                         *)
TakeHeadAtLimit ==
  LET side == Opposite(orders_[taker_id].side)
      px == best[side]
      lv == levels[side][px]
      maker == orders_[lv.head]
      take == IF maker.qty <= remaining THEN maker.qty ELSE remaining
      left == [lv EXCEPT !.qty = (@ - take) % QtyMod]
  IN /\ pc = "take" /\ remaining # 0 /\ lv.head # 0
     /\ trade' = [maker |-> lv.head, taker |-> taker_id,
                  px |-> orders_[taker_id].px, qty |-> take]
     /\ remaining' = remaining - take
     /\ IF maker.qty = take
        THEN /\ Release(UnlinkOrder(orders_, lv.head), lv.head)
             /\ levels' = [levels EXCEPT ![side][px] = UnlinkLevel(left, maker)]
        ELSE /\ orders_' = [orders_ EXCEPT ![lv.head].qty = @ - take]
             /\ levels' = [levels EXCEPT ![side][px] = left]
             /\ UNCHANGED free_
     /\ UNCHANGED <<best, pc, taker_id>>

(* take_level: one maker, the head of the best opposite level.             *)
TakeHead ==
  LET side == Opposite(orders_[taker_id].side)
      px == best[side]
      lv == levels[side][px]
      maker == orders_[lv.head]
      take == IF maker.qty <= remaining THEN maker.qty ELSE remaining
      left == [lv EXCEPT !.qty = (@ - take) % QtyMod]
  IN /\ pc = "take" /\ remaining # 0 /\ lv.head # 0
     /\ trade' = [maker |-> lv.head, taker |-> taker_id, px |-> maker.px, qty |-> take]
     /\ remaining' = remaining - take
     /\ IF maker.qty = take
        THEN /\ Release(UnlinkOrder(orders_, lv.head), lv.head)
             /\ levels' = [levels EXCEPT ![side][px] = UnlinkLevel(left, maker)]
        ELSE /\ orders_' = [orders_ EXCEPT ![lv.head].qty = @ - take]
             /\ levels' = [levels EXCEPT ![side][px] = left]
             /\ UNCHANGED free_
     /\ UNCHANGED <<best, pc, taker_id>>

(* Mutant: match forgets to tighten the best price.                        *)
LeaveLevelUntightened ==
  LET lv == levels[Opposite(orders_[taker_id].side)][best[Opposite(orders_[taker_id].side)]]
  IN /\ pc = "take" /\ (remaining = 0 \/ lv.head = 0)
     /\ pc' = "match"
     /\ UNCHANGED <<levels, best, orders_, free_, taker_id, remaining, trade>>

(* take_level returns, and match tightens the best price if need be.       *)
LeaveLevel ==
  LET side == Opposite(orders_[taker_id].side)
      lv == levels[side][best[side]]
  IN /\ pc = "take" /\ (remaining = 0 \/ lv.head = 0)
     /\ best' = IF lv.qty = 0
                THEN [best EXCEPT ![side] = Tighten(side, levels, @)]
                ELSE best
     /\ pc' = "match"
     /\ UNCHANGED <<levels, orders_, free_, taker_id, remaining, trade>>

(* limit after match: the slot is released, or the rest of the order rests *)
(* at the tail of its level.                                               *)
Rest(id) ==
  LET o == [orders_[id] EXCEPT !.qty = remaining]
      lv == levels[o.side][o.px]
  IN /\ orders_' = [i \in Ids |->
                      IF i = id THEN [o EXCEPT !.prev = lv.tail, !.next = 0]
                      ELSE IF i = lv.tail THEN [orders_[i] EXCEPT !.next = id]
                      ELSE orders_[i]]
     /\ levels' = [levels EXCEPT ![o.side][o.px] =
                     [head |-> IF lv.tail = 0 THEN id ELSE lv.head,
                      tail |-> id,
                      qty  |-> (lv.qty + o.qty) % QtyMod]]
     /\ best' = [best EXCEPT ![o.side] =
                   IF \/ @ = 0
                      \/ o.side = "Buy" /\ o.px > @
                      \/ o.side = "Sell" /\ o.px < @
                   THEN o.px ELSE @]
     /\ UNCHANGED free_

(* Mutant: the slot of a taker that was filled is not released.            *)
EndLimitLeak ==
  /\ pc = "match" /\ ~ Crossing
  /\ IF remaining = 0
     THEN UNCHANGED <<levels, best, orders_, free_>>
     ELSE Rest(taker_id)
  /\ pc' = "idle" /\ taker_id' = kInvalidId /\ remaining' = 0
  /\ trade' = NoTrade

EndLimit ==
  /\ pc = "match" /\ ~ Crossing
  /\ IF remaining = 0
     THEN Release(orders_, taker_id) /\ UNCHANGED <<levels, best>>
     ELSE Rest(taker_id)
  /\ pc' = "idle" /\ taker_id' = kInvalidId /\ remaining' = 0
  /\ trade' = NoTrade

(* Mutant: cancel forgets on_level_empty.                                  *)
CancelKeepBest(id) ==
  LET o == orders_[id]
      lv == [levels[o.side][o.px] EXCEPT !.qty = (@ - o.qty) % QtyMod]
  IN /\ pc = "idle" /\ o.qty # 0
     /\ levels' = [levels EXCEPT ![o.side][o.px] = UnlinkLevel(lv, o)]
     /\ Release(UnlinkOrder(orders_, id), id)
     /\ UNCHANGED <<best, pc, taker_id, remaining, trade>>

(* cancel(id).  A slot of quantity zero is free: the call returns false.   *)
Cancel(id) ==
  LET o == orders_[id]
      lv == [levels[o.side][o.px] EXCEPT !.qty = (@ - o.qty) % QtyMod]
      lvs == [levels EXCEPT ![o.side][o.px] = UnlinkLevel(lv, o)]
  IN /\ pc = "idle" /\ o.qty # 0
     /\ levels' = lvs
     /\ Release(UnlinkOrder(orders_, id), id)
     /\ best' = IF lv.qty = 0 /\ o.px = best[o.side]
                THEN [best EXCEPT ![o.side] = Tighten(o.side, lvs, @)]
                ELSE best
     /\ UNCHANGED <<pc, taker_id, remaining, trade>>

Next ==
  \/ \E side \in Side, px \in Px, qty \in 1 .. MaxQty : Limit(side, px, qty)
  \/ EnterLevel \/ TakeHead \/ LeaveLevel \/ EndLimit
  \/ \E id \in Ids : Cancel(id)

(* A call returns: the loops of limit end. *)
Spec == Init /\ [][Next]_vars
FairSpec == Spec /\ WF_vars(EnterLevel \/ TakeHead \/ LeaveLevel \/ EndLimit)
-----------------------------------------------------------------------------
TypeOK ==
  /\ levels \in [Side -> [Px -> Level]]
  /\ best \in [Side -> Px \cup {0}]
  /\ orders_ \in [Ids -> Order]
  /\ free_ \in Seq(Ids) /\ Len(free_) <= MaxOrders
  /\ pc \in {"idle", "match", "take"}
  /\ taker_id \in Ids \cup {kInvalidId}
  /\ remaining \in 0 .. MaxQty
  /\ trade \in [maker : Ids, taker : Ids, px : Px, qty : 1 .. MaxQty] \cup {NoTrade}

(* The orders from a head along next, 0 from the end on. *)
Walk(head, os) ==
  LET walk[k \in Ids] ==
        IF k = 1 THEN head
        ELSE IF walk[k - 1] = 0 THEN 0 ELSE os[walk[k - 1]].next
  IN walk

(* They are a level, oldest first.                                         *)
Queue(head, os) ==
  LET walk == Walk(head, os)
      len == Cardinality({k \in Ids : walk[k] # 0})
  IN [k \in 1 .. len |-> walk[k]]

Fifo(side, px) == Queue(levels[side][px].head, orders_)

(* f is the level lv: a doubly linked list from head to tail of resting    *)
(* orders of its own side and price.                                       *)
Linked(f, lv, os, side, px) ==
  LET n == Len(f)
  IN /\ lv.head = IF n = 0 THEN 0 ELSE f[1]
     /\ lv.tail = IF n = 0 THEN 0 ELSE f[n]
     /\ \A k \in 1 .. n :
          /\ os[f[k]].prev = IF k = 1 THEN 0 ELSE f[k - 1]
          /\ os[f[k]].next = IF k = n THEN 0 ELSE f[k + 1]
          /\ os[f[k]].side = side /\ os[f[k]].px = px
          /\ os[f[k]].qty # 0

(* Every level is such a list. *)
ListsLinked ==
  \A s \in Side, p \in Px : Linked(Fifo(s, p), levels[s][p], orders_, s, p)

(* A slot is in exactly one place: the free stack, one level, the taker.   *)
SlotsPartitioned ==
  \A id \in Ids :
    Cardinality({k \in DOMAIN free_ : free_[k] = id})
    + Cardinality({x \in Side \X Px \X Ids :
                     x[3] \in DOMAIN Fifo(x[1], x[2]) /\ Fifo(x[1], x[2])[x[3]] = id})
    + (IF taker_id = id THEN 1 ELSE 0) = 1

(* The prices at which orders rest, and the best of them, or 0.            *)
Occupied(side) == {p \in Px : levels[side][p].head # 0}
NoBetter(side, p, q) == IF side = "Buy" THEN p <= q ELSE p >= q
IsBest(side, b) ==
  IF Occupied(side) = {} THEN b = 0
  ELSE b \in Occupied(side) /\ \A p \in Occupied(side) : NoBetter(side, p, b)

(* Between calls the cached best prices are those of the best orders that  *)
(* rest, although they are only updated when a level empties or an order   *)
(* improves on them, and the two sides do not cross.                       *)
BestIsBest ==
  pc = "idle" =>
    /\ \A s \in Side : IsBest(s, best[s])
    /\ best["Buy"] # 0 /\ best["Sell"] # 0 => best["Buy"] < best["Sell"]

(* The ladder trades by price-time priority.                               *)
RestingOrders == [s \in Side |-> [p \in Px |-> Resting(Fifo(s, p), orders_)]]

Taking ==
  IF taker_id = kInvalidId THEN << >>
  ELSE << [id |-> taker_id, side |-> orders_[taker_id].side,
           px |-> orders_[taker_id].px, qty |-> remaining] >>

Rules == INSTANCE PriceTimeBook WITH queue <- RestingOrders, taker <- Taking

ImplementsRules == Rules!Spec

(* Every call of limit returns: the matching loops terminate.              *)
LimitReturns == (pc = "match") ~> (pc = "idle")
-----------------------------------------------------------------------------
(* The inductive invariant: the types; where limit is; the slots by place, *)
(* whose queues q are the Fifos; and the lists.                            *)
Control ==
  /\ pc = "idle" <=> taker_id = kInvalidId
  /\ taker_id # kInvalidId => orders_[taker_id].px \in Px /\ orders_[taker_id].qty # 0
  /\ pc = "take" => best[Opposite(orders_[taker_id].side)] \in Px

Queues == [s \in Side |-> [p \in Px |-> Fifo(s, p)]]

(* The free stack fr, the queues q and the taker hold every slot once.     *)
Placed(q, os, fr, tk) ==
  /\ q \in [Side -> [Px -> Seq(Ids)]]
  /\ OneToOne(fr)
  /\ \A k \in 1 .. Len(fr) : os[fr[k]].qty = 0
  /\ tk # 0 => os[tk].qty # 0
  /\ \A s \in Side, p \in Px :
       OneToOne(q[s][p]) /\ \A k \in 1 .. Len(q[s][p]) : q[s][p][k] # tk
  /\ \A id \in Ids :
       \/ \E k \in 1 .. Len(fr) : fr[k] = id
       \/ tk = id
       \/ \E s \in Side, p \in Px : \E k \in 1 .. Len(q[s][p]) : q[s][p][k] = id

IInv == TypeOK /\ Control /\ ListsLinked /\ Placed(Queues, orders_, free_, taker_id)

(* While the quantities at a price stay below QtyMod: every level counts   *)
(* what rests there; ...                                                   *)
LevelQtys ==
  \A s \in Side, p \in Px : levels[s][p].qty = Total(Queues[s][p], orders_)

(* ... the best prices are the best, of which the one that is being taken  *)
(* from may have emptied, and the sides do not cross.                      *)
Prices ==
  /\ \A s \in Side :
       IF pc = "take" /\ s = Opposite(orders_[taker_id].side)
       THEN \A p \in Occupied(s) : NoBetter(s, p, best[s])
       ELSE IsBest(s, best[s])
  /\ pc = "take" =>
       LET t == orders_[taker_id]
       IN NoBetter(t.side, best[Opposite(t.side)], t.px)
  /\ \A b \in Occupied("Buy"), a \in Occupied("Sell") : b < a

QInv == IInv /\ LevelQtys /\ Prices
=============================================================================
