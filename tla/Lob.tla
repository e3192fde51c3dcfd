-------------------------------- MODULE Lob --------------------------------
(***************************************************************************)
(* lob/types.hpp and the constructor parameters: what the two order books, *)
(* Book and StlBook, have in common.                                       *)
(***************************************************************************)
EXTENDS Integers, Sequences, FiniteSets

CONSTANTS
  MinPx, MaxPx,  \* min_px_, max_px_
  MaxOrders,     \* max_orders_
  MaxQty         \* quantities are 1 .. MaxQty (bounds the model)

ASSUME LobAssumption ==
  /\ MinPx \in Nat \ {0} /\ MaxPx \in Nat /\ MinPx <= MaxPx
  /\ MaxOrders \in Nat \ {0} /\ MaxQty \in Nat \ {0}

Side == {"Buy", "Sell"}
Px == MinPx .. MaxPx
kInvalidId == 0
Opposite(side) == IF side = "Buy" THEN "Sell" ELSE "Buy"
NoTrade == [maker |-> 0, taker |-> 0, px |-> 0, qty |-> 0]
-----------------------------------------------------------------------------
(* What the properties of both books speak of: no id twice in a queue f,   *)
(* its orders os as PriceTimeBook has them, and their total quantity.      *)
OneToOne(f) == \A j, k \in 1 .. Len(f) : f[j] = f[k] => j = k

Resting(f, os) == [k \in DOMAIN f |-> [id |-> f[k], qty |-> os[f[k]].qty]]

Sums(f, os) ==
  LET sum[k \in 0 .. Len(f)] == IF k = 0 THEN 0 ELSE sum[k - 1] + os[f[k]].qty
  IN sum

Total(f, os) == Sums(f, os)[Len(f)]
=============================================================================
