---------------------------- MODULE PriceTimeBook ----------------------------
(***************************************************************************)
(* The matching rules the order book promises: price-time priority.  At    *)
(* each price a FIFO of resting orders; an incoming limit order trades     *)
(* with the oldest order at the best opposite price, at that order's       *)
(* price, as long as the prices cross; the remainder rests.                *)
(*                                                                         *)
(* Book (price ladder) and StlBook (tree maps) are shown to implement it.  *)
(***************************************************************************)
EXTENDS Integers, Sequences, FiniteSets

CONSTANTS
  MinPx, MaxPx,   \* the price band, in ticks
  MaxOrders,      \* orders that may rest or be matched at a time
  MaxQty,         \* largest quantity of an order
  Ids             \* order ids

Side == {"Buy", "Sell"}
Px == MinPx .. MaxPx
Opposite(side) == IF side = "Buy" THEN "Sell" ELSE "Buy"

VARIABLES
  queue,   \* the resting orders of each side and price, oldest first
  taker,   \* the order being matched, at most one, as a sequence
  trade    \* the last trade of the taker

vars == <<queue, taker, trade>>

NoTrade == [maker |-> 0, taker |-> 0, px |-> 0, qty |-> 0]

LiveIds ==
  {taker[i].id : i \in DOMAIN taker}
    \cup UNION {{queue[s][p][i].id : i \in DOMAIN queue[s][p]} : s \in Side, p \in Px}

(* Prices of the side that hold orders, and the one that trades first.     *)
Occupied(side) == {p \in Px : queue[side][p] # << >>}

Best(side, p) ==
  /\ p \in Occupied(side)
  /\ \A q \in Occupied(side) : IF side = "Buy" THEN q <= p ELSE q >= p

(* A taker of this side and limit accepts the opposite price p. *)
Crosses(side, px, p) == IF side = "Buy" THEN p <= px ELSE p >= px

Init ==
  /\ queue = [s \in Side |-> [p \in Px |-> << >>]]
  /\ taker = << >>
  /\ trade = NoTrade

Submit(id, side, px, qty) ==
  /\ taker = << >> /\ Cardinality(LiveIds) < MaxOrders /\ id \notin LiveIds
  /\ taker' = << [id |-> id, side |-> side, px |-> px, qty |-> qty] >>
  /\ UNCHANGED <<queue, trade>>

Without(q, qty) ==
  IF Head(q).qty = qty THEN Tail(q) ELSE [q EXCEPT ![1].qty = @ - qty]

Fill(p) ==
  /\ taker # << >> /\ taker[1].qty > 0
  /\ LET t == taker[1]
         other == Opposite(t.side)
     IN /\ Best(other, p) /\ Crosses(t.side, t.px, p)
        /\ LET maker == Head(queue[other][p])
               qty == IF maker.qty <= t.qty THEN maker.qty ELSE t.qty
           IN /\ trade' = [maker |-> maker.id, taker |-> t.id, px |-> p, qty |-> qty]
              /\ queue' = [queue EXCEPT ![other][p] = Without(@, qty)]
              /\ taker' = [taker EXCEPT ![1].qty = @ - qty]

Finish ==
  /\ taker # << >>
  /\ LET t == taker[1]
     IN IF t.qty = 0
        THEN UNCHANGED queue
        ELSE /\ \A p \in Occupied(Opposite(t.side)) : ~ Crosses(t.side, t.px, p)
             /\ queue' = [queue EXCEPT ![t.side][t.px] =
                            Append(@, [id |-> t.id, qty |-> t.qty])]
  /\ taker' = << >>
  /\ trade' = NoTrade

Cancel(side, px, i) ==
  /\ taker = << >> /\ i \in DOMAIN queue[side][px]
  /\ queue' = [queue EXCEPT ![side][px] =
                 SubSeq(@, 1, i - 1) \o SubSeq(@, i + 1, Len(@))]
  /\ UNCHANGED <<taker, trade>>

Next ==
  \/ \E id \in Ids, side \in Side, px \in Px, qty \in 1 .. MaxQty :
       Submit(id, side, px, qty)
  \/ \E p \in Px : Fill(p)
  \/ Finish
  \/ \E side \in Side, px \in Px : \E i \in DOMAIN queue[side][px] : Cancel(side, px, i)

Spec == Init /\ [][Next]_vars
=============================================================================
