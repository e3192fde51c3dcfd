---------------------------- MODULE Book_proofs ----------------------------
(***************************************************************************)
(* Theorems about Book, in three layers.                                   *)
(*                                                                         *)
(* Slots and lists (BookInvariant, []IInv).  The argument is made about    *)
(* queues q that the ladder holds (Holds): every level is the doubly       *)
(* linked list of its queue, and the free stack, the queues and the taker  *)
(* hold each slot once.  Each call has a lemma that says which queues the  *)
(* book holds after it; that the walk of the links (Fifo) finds those      *)
(* queues follows by the least index at which it would not (Least), since  *)
(* a list without repetition is no longer than the pool (ShortLists).      *)
(*                                                                         *)
(* Quantities and prices (PricesInvariant, []QInv).  A level's count is    *)
(* the total of its orders modulo QtyMod, and the total itself under       *)
(* NoWrap, the hypothesis that MaxOrders orders of MaxQty fit the counter. *)
(* Only then does an empty count mean an empty level, as take_level takes  *)
(* it to, and only then are the cached best prices the best.               *)
(*                                                                         *)
(* Rules (PriceTimePriority).  Under NoWrap every step of the ladder is a  *)
(* step of PriceTimeBook, or leaves its book alone.                        *)
(***************************************************************************)
EXTENDS Book, SequenceTheorems, FiniteSetTheorems, WellFoundedInduction, TLAPS

(* A nonempty set of numbers has a least one.                              *)
LEMMA Least ==
  ASSUME NEW T, T \subseteq Nat, T # {}
  PROVE  \E x \in T : \A y \in T : x <= y
<1>1. IsWellFoundedOn(OpToRel(<, Nat), Nat)
  BY NatLessThanWellFounded
<1>2. PICK x \in T : \A y \in T : ~ (<<y, x>> \in OpToRel(<, Nat))
  BY <1>1, WFMin
<1>3. ASSUME NEW y \in T
      PROVE  ~ (y < x)
  <2>1. x \in Nat /\ y \in Nat
    OBVIOUS
  <2>2. y < x => <<y, x>> \in OpToRel(<, Nat)
    BY <2>1, Zenon DEF OpToRel
  <2>3. QED
    BY <1>2, <2>2
<1>4. QED
  BY <1>3

(* g is the walk from head: the equation that defines Walk.                *)
Follows(g, head, os) ==
  g = [k \in Ids |-> IF k = 1 THEN head
                     ELSE IF g[k - 1] = 0 THEN 0 ELSE os[g[k - 1]].next]

(* Walk meets its equation, if anything does.                              *)
LEMMA WalkDef ==
  ASSUME NEW head, NEW os, NEW g, Follows(g, head, os)
  PROVE  Follows(Walk(head, os), head, os)
<1>1. Walk(head, os) = CHOOSE w : Follows(w, head, os)
  BY DEF Walk, Follows
<1>2. QED
  BY <1>1

(* Whatever meets the equation of Walk is Walk.                            *)
LEMMA WalkIs ==
  ASSUME NEW head, NEW os, NEW g, Follows(g, head, os)
  PROVE  Walk(head, os) = g
<1> DEFINE w == Walk(head, os)
           bad == {k \in Ids : w[k] # g[k]}
<1>1. w = [k \in Ids |-> IF k = 1 THEN head
                         ELSE IF w[k - 1] = 0 THEN 0 ELSE os[w[k - 1]].next]
  BY WalkDef DEF Follows
<1>2. g = [k \in Ids |-> IF k = 1 THEN head
                         ELSE IF g[k - 1] = 0 THEN 0 ELSE os[g[k - 1]].next]
  BY DEF Follows
<1> HIDE DEF w
<1>3. bad = {}
  <2>1. SUFFICES ASSUME bad # {}
        PROVE  FALSE
    OBVIOUS
  <2>2. bad \subseteq Nat
    BY LobAssumption, LadderAssumption DEF Ids
  <2>3. PICK k \in bad : \A j \in bad : k <= j
    BY <2>1, <2>2, Least
  <2>4. k \in Ids /\ w[k] # g[k]
    OBVIOUS
  <2>5. CASE k = 1
    BY <1>1, <1>2, <2>4, <2>5
  <2>6. CASE k # 1
    <3>1. k - 1 \in Ids /\ k - 1 \notin bad
      BY <2>2, <2>3, <2>4, <2>6, LobAssumption, LadderAssumption DEF Ids
    <3>2. w[k - 1] = g[k - 1]
      BY <3>1
    <3>3. QED
      BY <1>1, <1>2, <2>4, <2>6, <3>2
  <2>7. QED
    BY <2>5, <2>6
<1>4. QED
  BY <1>1, <1>2, <1>3 DEF w

(* An interval from 1 is counted by its end.                               *)
LEMMA Counting ==
  ASSUME NEW n \in Nat
  PROVE  IsFiniteSet(1 .. n) /\ Cardinality(1 .. n) = n
<1>1. 1 \in Int /\ n \in Int
  OBVIOUS
<1>2. /\ IsFiniteSet(1 .. n)
      /\ Cardinality(1 .. n) = IF 1 > n THEN 0 ELSE n - 1 + 1
  BY <1>1, FS_Interval
<1>3. QED
  BY <1>2

(* A list without repetition is not longer than the pool.                  *)
LEMMA ShortLists ==
  ASSUME NEW f \in Seq(Ids), OneToOne(f)
  PROVE  Len(f) \in Nat /\ Len(f) <= MaxOrders
<1>1. Len(f) \in Nat /\ DOMAIN f = 1 .. Len(f) /\ \A k \in 1 .. Len(f) : f[k] \in Ids
  OBVIOUS
<1>2. f \in Injection(1 .. Len(f), Ids)
  BY <1>1 DEF OneToOne, Injection, IsInjective
<1>3. IsFiniteSet(Ids) /\ Cardinality(Ids) = MaxOrders
  BY Counting, LobAssumption, LadderAssumption DEF Ids
<1>4. IsFiniteSet(1 .. Len(f)) /\ Cardinality(1 .. Len(f)) = Len(f)
  BY <1>1, Counting
<1>5. QED
  BY <1>1, <1>2, <1>3, <1>4, FS_Injection

(* The walk along a linked list is the list.                               *)
LEMMA QueueIs ==
  ASSUME NEW f \in Seq(Ids), OneToOne(f), NEW os \in [Ids -> Order],
         NEW lv \in Level, NEW s, NEW p, Linked(f, lv, os, s, p)
  PROVE  Queue(lv.head, os) = f
<1> DEFINE n == Len(f)
           g == [k \in Ids |-> IF k <= n THEN f[k] ELSE 0]
<1>1. n \in Nat /\ n <= MaxOrders /\ DOMAIN f = 1 .. n /\ \A k \in 1 .. n : f[k] \in Ids
  BY ShortLists
<1>2. \A k \in 1 .. n : f[k] # 0
  BY <1>1, LobAssumption, LadderAssumption DEF Ids
<1>3. lv.head = IF n = 0 THEN 0 ELSE f[1]
  BY DEF Linked
<1>4. \A k \in 1 .. n : os[f[k]].next = IF k = n THEN 0 ELSE f[k + 1]
  BY DEF Linked
<1> HIDE DEF n
<1>5. ASSUME NEW k \in Ids
      PROVE  g[k] = IF k = 1 THEN lv.head
                    ELSE IF g[k - 1] = 0 THEN 0 ELSE os[g[k - 1]].next
  <2>1. k \in Nat /\ 1 <= k /\ (k # 1 => k - 1 \in Ids)
    BY LobAssumption, LadderAssumption DEF Ids
  <2>2. CASE k = 1
    BY <1>1, <1>3, <2>1, <2>2
  <2>3. CASE k # 1 /\ k - 1 <= n
    <3>1. g[k - 1] = f[k - 1] /\ k - 1 \in 1 .. n
      BY <1>1, <2>1, <2>3
    <3>2. g[k - 1] # 0 /\ os[g[k - 1]].next = IF k - 1 = n THEN 0 ELSE f[k]
      BY <1>2, <1>4, <2>1, <3>1
    <3>3. QED
      BY <1>1, <2>1, <2>3, <3>2
  <2>4. CASE k # 1 /\ ~ (k - 1 <= n)
    BY <1>1, <2>1, <2>4
  <2>5. QED
    BY <2>2, <2>3, <2>4
<1>6. Walk(lv.head, os) = g
  <2>1. Follows(g, lv.head, os)
    BY <1>5, Zenon DEF Follows
  <2> HIDE DEF g
  <2>2. QED
    BY <2>1, WalkIs
<1>7. {k \in Ids : g[k] # 0} = 1 .. n
  BY <1>1, <1>2, LobAssumption, LadderAssumption DEF Ids
<1>8. Cardinality({k \in Ids : g[k] # 0}) = n
  BY <1>1, <1>7, Counting
<1>9. Queue(lv.head, os) = [k \in 1 .. n |-> g[k]]
  BY <1>6, <1>8 DEF Queue
<1>10. \A k \in 1 .. n : g[k] = f[k]
  BY <1>1, LobAssumption, LadderAssumption DEF Ids
<1>11. QED
  BY <1>1, <1>9, <1>10
-----------------------------------------------------------------------------
(* The ladder lvs, the orders os, the free stack and the taker hold the    *)
(* queues q.                                                               *)
Holds(lvs, os, fr, tk, q) ==
  /\ Placed(q, os, fr, tk)
  /\ \A s \in Side, p \in Px : Linked(q[s][p], lvs[s][p], os, s, p)

(* The queues that a ladder holds are those that walks find in it.         *)
LEMMA QueuesAre ==
  ASSUME NEW lvs \in [Side -> [Px -> Level]], NEW os \in [Ids -> Order],
         NEW fr, NEW tk, NEW q, Holds(lvs, os, fr, tk, q)
  PROVE  \A s \in Side, p \in Px : Queue(lvs[s][p].head, os) = q[s][p]
<1>1. SUFFICES ASSUME NEW s \in Side, NEW p \in Px
      PROVE  Queue(lvs[s][p].head, os) = q[s][p]
  OBVIOUS
<1>2. q[s][p] \in Seq(Ids) /\ OneToOne(q[s][p])
  BY DEF Holds, Placed
<1>3. Linked(q[s][p], lvs[s][p], os, s, p)
  BY DEF Holds
<1>4. lvs[s][p] \in Level
  OBVIOUS
<1>5. QED
  BY <1>2, <1>3, <1>4, QueueIs

(* A list stays one when its orders keep their place and some quantity.    *)
LEMMA ListKept ==
  ASSUME NEW f, NEW lv, NEW lv2, NEW os, NEW os2, NEW s, NEW p,
         Linked(f, lv, os, s, p),
         lv2.head = lv.head, lv2.tail = lv.tail,
         \A k \in 1 .. Len(f) :
           /\ os2[f[k]].prev = os[f[k]].prev /\ os2[f[k]].next = os[f[k]].next
           /\ os2[f[k]].side = os[f[k]].side /\ os2[f[k]].px = os[f[k]].px
           /\ os2[f[k]].qty # 0
  PROVE  Linked(f, lv2, os2, s, p)
<1>1. /\ lv2.head = IF Len(f) = 0 THEN 0 ELSE f[1]
      /\ lv2.tail = IF Len(f) = 0 THEN 0 ELSE f[Len(f)]
  BY DEF Linked
<1>2. ASSUME NEW k \in 1 .. Len(f)
      PROVE  /\ os2[f[k]].prev = IF k = 1 THEN 0 ELSE f[k - 1]
             /\ os2[f[k]].next = IF k = Len(f) THEN 0 ELSE f[k + 1]
             /\ os2[f[k]].side = s /\ os2[f[k]].px = p
             /\ os2[f[k]].qty # 0
  <2>1. /\ os[f[k]].prev = IF k = 1 THEN 0 ELSE f[k - 1]
        /\ os[f[k]].next = IF k = Len(f) THEN 0 ELSE f[k + 1]
        /\ os[f[k]].side = s /\ os[f[k]].px = p
    BY DEF Linked
  <2>2. QED
    BY <2>1
<1>3. QED
  BY <1>1, <1>2 DEF Linked

(* What the places say of an order in a queue.                             *)
LEMMA Queued ==
  ASSUME NEW lvs, NEW os, NEW fr, NEW tk, NEW q, Holds(lvs, os, fr, tk, q),
         NEW s \in Side, NEW p \in Px, NEW k \in 1 .. Len(q[s][p])
  PROVE  /\ q[s][p][k] \in Ids /\ q[s][p][k] # tk
         /\ os[q[s][p][k]].side = s /\ os[q[s][p][k]].px = p
         /\ os[q[s][p][k]].qty # 0
         /\ \A j \in 1 .. Len(fr) : fr[j] # q[s][p][k]
<1>1. q[s][p] \in Seq(Ids) /\ Linked(q[s][p], lvs[s][p], os, s, p)
  BY DEF Holds, Placed
<1>2. /\ q[s][p][k] \in Ids
      /\ os[q[s][p][k]].side = s /\ os[q[s][p][k]].px = p
      /\ os[q[s][p][k]].qty # 0
  BY <1>1 DEF Linked
<1>3. /\ q[s][p][k] # tk
      /\ \A j \in 1 .. Len(fr) : os[fr[j]].qty = 0
  BY DEF Holds, Placed
<1>4. QED
  BY <1>2, <1>3

(* The free stack without its top.                                         *)
LEMMA FrontIs ==
  ASSUME NEW fr \in Seq(Ids), fr # << >>
  PROVE  LET fr2 == SubSeq(fr, 1, Len(fr) - 1)
         IN /\ Len(fr) \in Nat /\ Len(fr) # 0 /\ Len(fr2) = Len(fr) - 1
            /\ \A k \in 1 .. Len(fr) - 1 : fr2[k] = fr[k]
            /\ \A k \in 1 .. Len(fr) : fr[k] \in Ids
<1> DEFINE n == Len(fr)
           fr2 == SubSeq(fr, 1, n - 1)
<1>1. n \in Nat /\ n # 0 /\ \A k \in 1 .. n : fr[k] \in Ids
  BY EmptySeq, LenProperties, ElementOfSeq
<1> HIDE DEF n
<1>2. 1 \in Int /\ n - 1 \in Int /\ \A k \in 1 .. n - 1 : fr[k] \in Ids
  BY <1>1
<1>3. /\ Len(fr2) = IF 1 <= n - 1 THEN n - 1 - 1 + 1 ELSE 0
      /\ \A k \in 1 .. n - 1 - 1 + 1 : fr2[k] = fr[1 + k - 1]
  BY <1>2, SubSeqProperties
<1> HIDE DEF fr2
<1>4. Len(fr2) = n - 1
  BY <1>1, <1>3
<1>5. ASSUME NEW k \in 1 .. n - 1
      PROVE  fr2[k] = fr[k]
  <2>1. k \in 1 .. n - 1 - 1 + 1 /\ 1 + k - 1 = k
    BY <1>1
  <2>2. fr2[k] = fr[1 + k - 1]
    BY <1>3, <2>1
  <2>3. QED
    BY <2>1, <2>2
<1>6. QED
  BY <1>1, <1>4, <1>5 DEF n, fr2

(* limit takes the top of the free stack for its order.                    *)
LEMMA Acquired ==
  ASSUME NEW lvs, NEW os, NEW os2, NEW fr \in Seq(Ids), NEW fr2, NEW id, NEW q,
         Holds(lvs, os, fr, 0, q),
         fr # << >>, id = fr[Len(fr)], fr2 = SubSeq(fr, 1, Len(fr) - 1),
         os2[id].qty # 0,
         \A i \in Ids : i # id => os2[i] = os[i]
  PROVE  Holds(lvs, os2, fr2, id, q)
<1>1. /\ Len(fr) \in Nat /\ Len(fr) # 0 /\ Len(fr2) = Len(fr) - 1
      /\ \A k \in 1 .. Len(fr) - 1 : fr2[k] = fr[k]
      /\ \A k \in 1 .. Len(fr) : fr[k] \in Ids
  BY FrontIs
<1>2. Len(fr) \in 1 .. Len(fr) /\ id \in Ids
  BY <1>1
<1>3. ASSUME NEW s \in Side, NEW p \in Px, NEW k \in 1 .. Len(q[s][p])
      PROVE  /\ q[s][p][k] \in Ids /\ q[s][p][k] # id
             /\ os2[q[s][p][k]] = os[q[s][p][k]]
             /\ os2[q[s][p][k]].qty # 0
  BY <1>2, Queued
<1>4. \A s \in Side, p \in Px : Linked(q[s][p], lvs[s][p], os2, s, p)
  <2>1. TAKE s \in Side, p \in Px
  <2>2. Linked(q[s][p], lvs[s][p], os, s, p)
    BY DEF Holds
  <2>3. QED
    BY <1>3, <2>2, ListKept
<1>5. Placed(q, os2, fr2, id)
  <2>1. /\ OneToOne(fr) /\ \A k \in 1 .. Len(fr) : os[fr[k]].qty = 0
        /\ q \in [Side -> [Px -> Seq(Ids)]]
        /\ \A s \in Side, p \in Px : OneToOne(q[s][p])
    BY DEF Holds, Placed
  <2>2. OneToOne(fr2)
    BY <1>1, <2>1 DEF OneToOne
  <2>3. ASSUME NEW k \in 1 .. Len(fr2)
        PROVE  fr2[k] # id /\ os2[fr2[k]].qty = 0
    <3>1. k \in 1 .. Len(fr) /\ k # Len(fr) /\ fr2[k] = fr[k] /\ fr[k] \in Ids
      BY <1>1
    <3>2. fr[k] # id
      BY <1>2, <2>1, <3>1 DEF OneToOne
    <3>3. QED
      BY <2>1, <3>1, <3>2
  <2>4. ASSUME NEW i \in Ids, i # id
        PROVE  \/ \E k \in 1 .. Len(fr2) : fr2[k] = i
               \/ \E s \in Side, p \in Px : \E k \in 1 .. Len(q[s][p]) : q[s][p][k] = i
    <3>1. \/ \E k \in 1 .. Len(fr) : fr[k] = i
          \/ \E s \in Side, p \in Px : \E k \in 1 .. Len(q[s][p]) : q[s][p][k] = i
      <4>1. i # 0
        BY LobAssumption, LadderAssumption DEF Ids
      <4>2. QED
        BY <4>1, Zenon DEF Holds, Placed
    <3>2. CASE \E k \in 1 .. Len(fr) : fr[k] = i
      <4>1. PICK k \in 1 .. Len(fr) : fr[k] = i
        BY <3>2
      <4>2. k \in 1 .. Len(fr2) /\ fr2[k] = i
        BY <1>1, <2>4, <4>1
      <4>3. QED
        BY <4>2
    <3>3. QED
      BY <3>1, <3>2
  <2>5. QED
    BY <1>3, <2>1, <2>2, <2>3, <2>4 DEF Placed
<1>6. QED
  BY <1>4, <1>5 DEF Holds

(* limit releases the slot of an order that was filled at once.            *)
LEMMA Returned ==
  ASSUME NEW lvs, NEW os, NEW os2, NEW fr \in Seq(Ids), NEW tk \in Ids, NEW q,
         Holds(lvs, os, fr, tk, q),
         os2[tk].qty = 0,
         \A i \in Ids : i # tk => os2[i] = os[i]
  PROVE  Holds(lvs, os2, Append(fr, tk), 0, q)
<1> DEFINE fr2 == Append(fr, tk)
<1>1. /\ Len(fr) \in Nat /\ Len(fr2) = Len(fr) + 1
      /\ \A k \in 1 .. Len(fr) : fr2[k] = fr[k] /\ fr[k] \in Ids
      /\ fr2[Len(fr) + 1] = tk
  <2>1. \A k \in 1 .. Len(fr) : fr[k] \in Ids
    OBVIOUS
  <2>2. /\ Len(fr) \in Nat /\ Len(fr2) = Len(fr) + 1
        /\ \A k \in 1 .. Len(fr) : fr2[k] = fr[k]
        /\ fr2[Len(fr) + 1] = tk
    BY AppendProperties, LenProperties
  <2>3. QED
    BY <2>1, <2>2
<1> HIDE DEF fr2
<1>2. ASSUME NEW s \in Side, NEW p \in Px, NEW k \in 1 .. Len(q[s][p])
      PROVE  /\ q[s][p][k] \in Ids /\ q[s][p][k] # tk /\ q[s][p][k] # 0
             /\ os2[q[s][p][k]] = os[q[s][p][k]]
             /\ os2[q[s][p][k]].qty # 0
  <2>1. q[s][p][k] \in Ids /\ q[s][p][k] # tk /\ os[q[s][p][k]].qty # 0
    BY Queued
  <2>2. q[s][p][k] # 0
    BY <2>1, LobAssumption, LadderAssumption DEF Ids
  <2>3. QED
    BY <2>1, <2>2
<1>3. \A s \in Side, p \in Px : Linked(q[s][p], lvs[s][p], os2, s, p)
  <2>1. TAKE s \in Side, p \in Px
  <2>2. Linked(q[s][p], lvs[s][p], os, s, p)
    BY DEF Holds
  <2>3. QED
    BY <1>2, <2>2, ListKept
<1>4. Placed(q, os2, fr2, 0)
  <2>1. /\ OneToOne(fr) /\ \A k \in 1 .. Len(fr) : os[fr[k]].qty = 0
        /\ q \in [Side -> [Px -> Seq(Ids)]]
        /\ \A s \in Side, p \in Px : OneToOne(q[s][p])
        /\ os[tk].qty # 0
    BY LobAssumption, LadderAssumption DEF Holds, Placed, Ids
  <2>2. \A k \in 1 .. Len(fr) : fr[k] # tk
    BY <2>1
  <2>3. OneToOne(fr2)
    BY <1>1, <2>1, <2>2 DEF OneToOne
  <2>4. \A k \in 1 .. Len(fr2) : os2[fr2[k]].qty = 0
    BY <1>1, <2>1, <2>2
  <2>5. ASSUME NEW i \in Ids
        PROVE  \/ \E k \in 1 .. Len(fr2) : fr2[k] = i
               \/ \E s \in Side, p \in Px : \E k \in 1 .. Len(q[s][p]) : q[s][p][k] = i
    <3>1. \/ \E k \in 1 .. Len(fr) : fr[k] = i
          \/ i = tk
          \/ \E s \in Side, p \in Px : \E k \in 1 .. Len(q[s][p]) : q[s][p][k] = i
      BY DEF Holds, Placed
    <3>2. CASE \E k \in 1 .. Len(fr) : fr[k] = i
      BY <1>1, <3>2
    <3>3. CASE i = tk
      BY <1>1, <3>3
    <3>4. QED
      BY <3>1, <3>2, <3>3
  <2>6. QED
    BY <1>2, <2>1, <2>3, <2>4, <2>5 DEF Placed
<1>5. QED
  BY <1>3, <1>4 DEF Holds, fr2

(* In os2 an order of os has another quantity.                             *)
Shrinks(os, os2, id) ==
  /\ os2[id].prev = os[id].prev /\ os2[id].next = os[id].next
  /\ os2[id].side = os[id].side /\ os2[id].px = os[id].px /\ os2[id].qty # 0
  /\ \A i \in Ids : i # id => os2[i] = os[i]

SameEnds(lvs, lvs2) ==
  \A s \in Side, p \in Px : /\ lvs2[s][p].head = lvs[s][p].head
                            /\ lvs2[s][p].tail = lvs[s][p].tail

(* A fill of part of an order leaves it where it is.                       *)
LEMMA Reduced ==
  ASSUME NEW lvs, NEW lvs2, NEW os, NEW os2, NEW fr \in Seq(Ids), NEW tk \in Ids,
         NEW q, Holds(lvs, os, fr, tk, q),
         NEW id \in Ids, os[id].qty # 0, id # tk,
         Shrinks(os, os2, id), SameEnds(lvs, lvs2)
  PROVE  Holds(lvs2, os2, fr, tk, q)
<1>1. ASSUME NEW s \in Side, NEW p \in Px, NEW k \in 1 .. Len(q[s][p])
      PROVE  /\ os2[q[s][p][k]].prev = os[q[s][p][k]].prev
             /\ os2[q[s][p][k]].next = os[q[s][p][k]].next
             /\ os2[q[s][p][k]].side = os[q[s][p][k]].side
             /\ os2[q[s][p][k]].px = os[q[s][p][k]].px
             /\ os2[q[s][p][k]].qty # 0
  <2>1. q[s][p][k] \in Ids /\ os[q[s][p][k]].qty # 0
    BY Queued
  <2>2. CASE q[s][p][k] = id
    BY <2>2 DEF Shrinks
  <2>3. CASE q[s][p][k] # id
    BY <2>1, <2>3 DEF Shrinks
  <2>4. QED
    BY <2>2, <2>3
<1>2. \A s \in Side, p \in Px : Linked(q[s][p], lvs2[s][p], os2, s, p)
  <2>1. TAKE s \in Side, p \in Px
  <2>2. Linked(q[s][p], lvs[s][p], os, s, p)
    BY DEF Holds
  <2>3. QED
    BY <1>1, <2>2, ListKept DEF SameEnds
<1>3. Placed(q, os2, fr, tk)
  <2>1. \A k \in 1 .. Len(fr) : os[fr[k]].qty = 0 /\ fr[k] \in Ids
    BY DEF Holds, Placed
  <2>2. \A k \in 1 .. Len(fr) : os2[fr[k]].qty = 0
    BY <2>1 DEF Shrinks
  <2>3. os2[tk].qty # 0
    <3>1. os[tk].qty # 0
      BY LobAssumption, LadderAssumption DEF Holds, Placed, Ids
    <3>2. QED
      BY <3>1 DEF Shrinks
  <2>4. QED
    BY <2>2, <2>3 DEF Holds, Placed
<1>4. QED
  BY <1>2, <1>3 DEF Holds

(* The list f without its k-th order.                                      *)
Drop(f, k) == [j \in 1 .. Len(f) - 1 |-> IF j < k THEN f[j] ELSE f[j + 1]]

LEMMA AnyDrop ==
  ASSUME NEW I, NEW f \in Seq(I), NEW k \in 1 .. Len(f)
  PROVE  /\ Drop(f, k) \in Seq(I) /\ Len(Drop(f, k)) = Len(f) - 1
         /\ \A j \in 1 .. Len(f) - 1 : Drop(f, k)[j] = IF j < k THEN f[j] ELSE f[j + 1]
<1> DEFINE n == Len(f)
<1>1. n \in Nat /\ k \in 1 .. n /\ \A j \in 1 .. n : f[j] \in I
  OBVIOUS
<1> HIDE DEF n
<1>2. \A j \in 1 .. n - 1 : (IF j < k THEN f[j] ELSE f[j + 1]) \in I
  BY <1>1
<1>3. n - 1 \in Nat
  BY <1>1
<1>4. Drop(f, k) = [j \in 1 .. n - 1 |-> IF j < k THEN f[j] ELSE f[j + 1]]
  BY DEF Drop, n
<1>5. Drop(f, k) \in Seq(I) /\ Len(Drop(f, k)) = n - 1
  BY <1>2, <1>3, <1>4, IsASeq, LenProperties
<1>6. QED
  BY <1>4, <1>5 DEF n

LEMMA DropIs ==
  ASSUME NEW f \in Seq(Ids), NEW k \in 1 .. Len(f)
  PROVE  /\ Drop(f, k) \in Seq(Ids) /\ Len(Drop(f, k)) = Len(f) - 1
         /\ \A j \in 1 .. Len(f) - 1 : Drop(f, k)[j] = IF j < k THEN f[j] ELSE f[j + 1]
BY AnyDrop

(* It holds the other orders, once.                                        *)
LEMMA AnyDropOthers ==
  ASSUME NEW I, NEW f \in Seq(I), OneToOne(f), NEW k \in 1 .. Len(f)
  PROVE  /\ OneToOne(Drop(f, k))
         /\ \A j \in 1 .. Len(Drop(f, k)) :
              \E h \in 1 .. Len(f) : h # k /\ Drop(f, k)[j] = f[h]
         /\ \A h \in 1 .. Len(f) :
              h # k => \E j \in 1 .. Len(Drop(f, k)) : Drop(f, k)[j] = f[h]
<1> DEFINE n == Len(f)
           g == Drop(f, k)
           Old(j) == IF j < k THEN j ELSE j + 1
<1>1. n \in Nat /\ k \in 1 .. n /\ \A i, j \in 1 .. n : f[i] = f[j] => i = j
  BY DEF OneToOne
<1>2. Len(g) = n - 1 /\ \A j \in 1 .. n - 1 : g[j] = IF j < k THEN f[j] ELSE f[j + 1]
  BY AnyDrop
<1> HIDE DEF n, g
<1>3. ASSUME NEW j \in 1 .. n - 1
      PROVE  Old(j) \in 1 .. n /\ Old(j) # k /\ g[j] = f[Old(j)]
  BY <1>1, <1>2
<1>4. \A i, j \in 1 .. n - 1 : Old(i) = Old(j) => i = j
  BY <1>1
<1>5. ASSUME NEW h \in 1 .. n, h # k
      PROVE  \E j \in 1 .. n - 1 : Old(j) = h
  <2>1. CASE h < k
    <3>1. h \in 1 .. n - 1 /\ Old(h) = h
      BY <1>1, <2>1
    <3>2. QED
      BY <3>1
  <2>2. CASE ~ (h < k)
    <3>1. h - 1 \in 1 .. n - 1 /\ Old(h - 1) = h
      BY <1>1, <1>5, <2>2
    <3>2. QED
      BY <3>1
  <2>3. QED
    BY <2>1, <2>2
<1> HIDE DEF Old
<1>6. \A i, j \in 1 .. n - 1 : g[i] = g[j] => i = j
  BY <1>1, <1>3, <1>4
<1>7. ASSUME NEW h \in 1 .. n, h # k
      PROVE  \E j \in 1 .. n - 1 : g[j] = f[h]
  BY <1>3, <1>5, <1>7
<1>8. QED
  BY <1>2, <1>3, <1>6, <1>7 DEF OneToOne, g, n

LEMMA DropOthers ==
  ASSUME NEW f \in Seq(Ids), OneToOne(f), NEW k \in 1 .. Len(f)
  PROVE  /\ OneToOne(Drop(f, k))
         /\ \A j \in 1 .. Len(Drop(f, k)) :
              \E h \in 1 .. Len(f) : h # k /\ Drop(f, k)[j] = f[h]
         /\ \A h \in 1 .. Len(f) :
              h # k => \E j \in 1 .. Len(Drop(f, k)) : Drop(f, k)[j] = f[h]
BY AnyDropOthers

(* A released slot on top of the free stack.                               *)
LEMMA Freed ==
  ASSUME NEW fr \in Seq(Ids), NEW id \in Ids, OneToOne(fr),
         \A k \in 1 .. Len(fr) : fr[k] # id
  PROVE  /\ OneToOne(Append(fr, id))
         /\ \A k \in 1 .. Len(Append(fr, id)) :
              \/ Append(fr, id)[k] = id
              \/ \E j \in 1 .. Len(fr) : Append(fr, id)[k] = fr[j]
         /\ \E k \in 1 .. Len(Append(fr, id)) : Append(fr, id)[k] = id
         /\ \A j \in 1 .. Len(fr) :
              \E k \in 1 .. Len(Append(fr, id)) : Append(fr, id)[k] = fr[j]
<1> DEFINE n == Len(fr)
           g == Append(fr, id)
<1>1. /\ n \in Nat /\ Len(g) = n + 1 /\ g[n + 1] = id
      /\ \A k \in 1 .. n : g[k] = fr[k]
  OBVIOUS
<1>2. \A j, k \in 1 .. n : fr[j] = fr[k] => j = k
  BY DEF OneToOne
<1>3. \A k \in 1 .. n : fr[k] # id
  OBVIOUS
<1> HIDE DEF n, g
<1>4. \A k \in 1 .. n + 1 : k \in 1 .. n \/ k = n + 1
  BY <1>1
<1>5. 1 .. n \subseteq 1 .. n + 1 /\ n + 1 \in 1 .. n + 1
  BY <1>1
<1>6. OneToOne(g)
  BY <1>1, <1>2, <1>3, <1>4 DEF OneToOne
<1>7. QED
  BY <1>1, <1>4, <1>5, <1>6 DEF g, n

(* unlink takes an order out of its list.                                  *)
LEMMA UnlinkedList ==
  ASSUME NEW f \in Seq(Ids), OneToOne(f), NEW k \in 1 .. Len(f),
         NEW lv, NEW lv2, NEW os, NEW os2, NEW s, NEW p,
         Linked(f, lv, os, s, p),
         lv2.head = IF os[f[k]].prev = 0 THEN os[f[k]].next ELSE lv.head,
         lv2.tail = IF os[f[k]].next = 0 THEN os[f[k]].prev ELSE lv.tail,
         \A i \in Ids : i # f[k] =>
           /\ os2[i].prev = IF i = os[f[k]].next THEN os[f[k]].prev ELSE os[i].prev
           /\ os2[i].next = IF i = os[f[k]].prev THEN os[f[k]].next ELSE os[i].next
           /\ os2[i].side = os[i].side /\ os2[i].px = os[i].px
           /\ os2[i].qty = os[i].qty
  PROVE  Linked(Drop(f, k), lv2, os2, s, p)
<1> DEFINE n == Len(f)
           g == Drop(f, k)
           m == n - 1
<1>1. /\ n \in Nat /\ k \in 1 .. n /\ m \in Nat
      /\ \A j \in 1 .. n : f[j] \in Ids /\ f[j] # 0
  BY LobAssumption, LadderAssumption DEF Ids
<1>2. \A i, j \in 1 .. n : f[i] = f[j] => i = j
  BY DEF OneToOne
<1>3. /\ lv.head = IF n = 0 THEN 0 ELSE f[1]
      /\ lv.tail = IF n = 0 THEN 0 ELSE f[n]
      /\ \A j \in 1 .. n :
           /\ os[f[j]].prev = IF j = 1 THEN 0 ELSE f[j - 1]
           /\ os[f[j]].next = IF j = n THEN 0 ELSE f[j + 1]
           /\ os[f[j]].side = s /\ os[f[j]].px = p /\ os[f[j]].qty # 0
  BY DEF Linked
<1>4. Len(g) = m /\ \A j \in 1 .. m : g[j] = IF j < k THEN f[j] ELSE f[j + 1]
  BY DropIs
<1> HIDE DEF n, g
<1>5. /\ os[f[k]].prev = IF k = 1 THEN 0 ELSE f[k - 1]
      /\ os[f[k]].next = IF k = n THEN 0 ELSE f[k + 1]
      /\ k # 1 => f[k - 1] # 0 /\ n # 1
      /\ k # n => f[k + 1] # 0 /\ n # 1
      /\ lv.head = f[1] /\ lv.tail = f[n]
  BY <1>1, <1>3
<1>6. /\ lv2.head = IF k = 1 THEN (IF n = 1 THEN 0 ELSE f[2]) ELSE f[1]
      /\ lv2.tail = IF k = n THEN (IF n = 1 THEN 0 ELSE f[n - 1]) ELSE f[n]
  <2>1. CASE k = 1
    BY <1>5, <2>1
  <2>2. CASE k # 1
    BY <1>5, <2>2
  <2>3. QED
    BY <2>1, <2>2
<1>7. lv2.head = IF m = 0 THEN 0 ELSE g[1]
  BY <1>1, <1>4, <1>6
<1>8. lv2.tail = IF m = 0 THEN 0 ELSE g[m]
  BY <1>1, <1>4, <1>6
<1>9. ASSUME NEW h \in 1 .. n, h # k
      PROVE  /\ os2[f[h]].prev = IF h = 1 THEN 0
                                 ELSE IF h # k + 1 THEN f[h - 1]
                                 ELSE IF k = 1 THEN 0 ELSE f[k - 1]
             /\ os2[f[h]].next = IF h = n THEN 0
                                 ELSE IF h # k - 1 THEN f[h + 1]
                                 ELSE IF k = n THEN 0 ELSE f[k + 1]
             /\ os2[f[h]].side = s /\ os2[f[h]].px = p /\ os2[f[h]].qty # 0
  <2>1. f[h] # f[k] /\ f[h] \in Ids
    BY <1>1, <1>2, <1>9
  <2>2. /\ os2[f[h]].prev = IF f[h] = os[f[k]].next THEN os[f[k]].prev ELSE os[f[h]].prev
        /\ os2[f[h]].next = IF f[h] = os[f[k]].prev THEN os[f[k]].next ELSE os[f[h]].next
        /\ os2[f[h]].side = s /\ os2[f[h]].px = p /\ os2[f[h]].qty # 0
    <3>1. os[f[h]].side = s /\ os[f[h]].px = p /\ os[f[h]].qty # 0
      BY <1>3
    <3>2. /\ os2[f[h]].prev = IF f[h] = os[f[k]].next THEN os[f[k]].prev ELSE os[f[h]].prev
          /\ os2[f[h]].next = IF f[h] = os[f[k]].prev THEN os[f[k]].next ELSE os[f[h]].next
          /\ os2[f[h]].side = os[f[h]].side /\ os2[f[h]].px = os[f[h]].px
          /\ os2[f[h]].qty = os[f[h]].qty
      BY <2>1
    <3>3. QED
      BY <3>1, <3>2
  <2>3. f[h] = os[f[k]].next <=> h = k + 1
    <3>1. os[f[k]].next = IF k = n THEN 0 ELSE f[k + 1]
      BY <1>5
    <3>2. (k # n => k + 1 \in 1 .. n) /\ (k = n => h # k + 1)
      BY <1>1
    <3>3. k # n => (f[h] = f[k + 1] <=> h = k + 1)
      BY <1>2, <3>2
    <3>4. f[h] # 0
      BY <1>1
    <3>5. QED
      BY <3>1, <3>2, <3>3, <3>4
  <2>4. f[h] = os[f[k]].prev <=> h = k - 1
    <3>1. os[f[k]].prev = IF k = 1 THEN 0 ELSE f[k - 1]
      BY <1>5
    <3>2. (k # 1 => k - 1 \in 1 .. n) /\ (k = 1 => h # k - 1)
      BY <1>1
    <3>3. k # 1 => (f[h] = f[k - 1] <=> h = k - 1)
      BY <1>2, <3>2
    <3>4. f[h] # 0
      BY <1>1
    <3>5. QED
      BY <3>1, <3>2, <3>3, <3>4
  <2>5. /\ os[f[h]].prev = IF h = 1 THEN 0 ELSE f[h - 1]
        /\ os[f[h]].next = IF h = n THEN 0 ELSE f[h + 1]
        /\ os[f[k]].prev = IF k = 1 THEN 0 ELSE f[k - 1]
        /\ os[f[k]].next = IF k = n THEN 0 ELSE f[k + 1]
    BY <1>1, <1>3
  <2>6. (h = k + 1 => h # 1) /\ (h = k - 1 => h # n)
    BY <1>1
  <2>7. QED
    BY <2>2, <2>3, <2>4, <2>5, <2>6
<1>10. ASSUME NEW j \in 1 .. m
      PROVE  /\ os2[g[j]].prev = IF j = 1 THEN 0 ELSE g[j - 1]
             /\ os2[g[j]].next = IF j = m THEN 0 ELSE g[j + 1]
             /\ os2[g[j]].side = s /\ os2[g[j]].px = p /\ os2[g[j]].qty # 0
  <2>1. CASE j < k
    <3>1. /\ j \in 1 .. n /\ j # k /\ g[j] = f[j] /\ (j # 1 => g[j - 1] = f[j - 1])
          /\ j # m => g[j + 1] = IF j + 1 = k THEN f[k + 1] ELSE f[j + 1]
          /\ j = m => j + 1 = k /\ k = n
      BY <1>1, <1>4, <2>1
    <3>2. j # k + 1
      BY <1>1, <2>1
    <3>3. QED
      BY <1>1, <1>9, <2>1, <3>1, <3>2
  <2>2. CASE ~ (j < k)
    <3>1. /\ j + 1 \in 1 .. n /\ j + 1 # k /\ g[j] = f[j + 1]
          /\ j # m => g[j + 1] = f[(j + 1) + 1]
          /\ j # 1 => g[j - 1] = IF j = k THEN f[k - 1] ELSE f[(j + 1) - 1]
          /\ (j + 1) # 1 /\ (j = 1 => k = 1)
          /\ (j + 1 = k + 1 <=> j = k) /\ j + 1 # k - 1
      <4>1. /\ j + 1 \in 1 .. n /\ j + 1 # k /\ (j + 1) # 1 /\ (j = 1 => k = 1)
            /\ (j + 1 = k + 1 <=> j = k) /\ j + 1 # k - 1
        BY <1>1, <2>2
      <4>2. g[j] = f[j + 1]
        BY <1>4, <2>2
      <4>3. j # m => j + 1 \in 1 .. m /\ ~ (j + 1 < k)
        BY <1>1, <2>2
      <4>4. j # m => g[j + 1] = f[(j + 1) + 1]
        BY <1>4, <4>3
      <4>5. j # 1 => /\ j - 1 \in 1 .. m /\ (j - 1 < k <=> j = k)
                     /\ (j = k => j - 1 = k - 1) /\ (j - 1) + 1 = (j + 1) - 1
        BY <1>1, <2>2
      <4>6. j # 1 => g[j - 1] = IF j = k THEN f[k - 1] ELSE f[(j + 1) - 1]
        BY <1>4, <4>5
      <4>7. QED
        BY <4>1, <4>2, <4>4, <4>6
    <3>2. j = m <=> j + 1 = n
      BY <1>1
    <3>3. QED
      BY <1>1, <1>9, <2>2, <3>1, <3>2
  <2>3. QED
    BY <2>1, <2>2
<1>11. QED
  BY <1>4, <1>7, <1>8, <1>10 DEF Linked, g

(* In os2 an order of os is unlinked and cleared, and in lvs2 its level    *)
(* has the new ends.                                                       *)
Skips(os, os2, id) ==
  /\ os2[id].qty = 0
  /\ \A i \in Ids : i # id =>
       /\ os2[i].prev = IF i = os[id].next THEN os[id].prev ELSE os[i].prev
       /\ os2[i].next = IF i = os[id].prev THEN os[id].next ELSE os[i].next
       /\ os2[i].side = os[i].side /\ os2[i].px = os[i].px
       /\ os2[i].qty = os[i].qty

NewEnds(lvs, lvs2, o, s0, p0) ==
  /\ \A s \in Side, p \in Px : (s # s0 \/ p # p0) =>
       lvs2[s][p].head = lvs[s][p].head /\ lvs2[s][p].tail = lvs[s][p].tail
  /\ lvs2[s0][p0].head = IF o.prev = 0 THEN o.next ELSE lvs[s0][p0].head
  /\ lvs2[s0][p0].tail = IF o.next = 0 THEN o.prev ELSE lvs[s0][p0].tail

(* Then it leaves its queue, and the others stay.                          *)
LEMMA Unlinked ==
  ASSUME NEW lvs, NEW lvs2, NEW os, NEW os2, NEW fr \in Seq(Ids),
         NEW tk \in Ids \cup {0}, NEW q, Holds(lvs, os, fr, tk, q),
         NEW s0 \in Side, NEW p0 \in Px, NEW k0 \in 1 .. Len(q[s0][p0]),
         Skips(os, os2, q[s0][p0][k0]),
         NewEnds(lvs, lvs2, os[q[s0][p0][k0]], s0, p0)
  PROVE  Holds(lvs2, os2, Append(fr, q[s0][p0][k0]), tk,
               [q EXCEPT ![s0][p0] = Drop(q[s0][p0], k0)])
<1> DEFINE f == q[s0][p0]
           n == Len(f)
           id == f[k0]
           q2 == [q EXCEPT ![s0][p0] = Drop(f, k0)]
<1>1. /\ q \in [Side -> [Px -> Seq(Ids)]]
      /\ \A s \in Side, p \in Px : OneToOne(q[s][p])
      /\ \A s \in Side, p \in Px : \A k \in 1 .. Len(q[s][p]) : q[s][p][k] # tk
      /\ OneToOne(fr) /\ (tk # 0 => os[tk].qty # 0)
      /\ \A k \in 1 .. Len(fr) : os[fr[k]].qty = 0
  BY Zenon DEF Holds, Placed
<1>2. /\ f \in Seq(Ids) /\ n \in Nat /\ k0 \in 1 .. n /\ id = f[k0] /\ id \in Ids
      /\ \A j \in 1 .. n : f[j] \in Ids
  BY <1>1
<1>3. /\ Drop(f, k0) \in Seq(Ids) /\ Len(Drop(f, k0)) = n - 1
      /\ \A j \in 1 .. n - 1 : Drop(f, k0)[j] = IF j < k0 THEN f[j] ELSE f[j + 1]
  BY <1>2, DropIs
<1>4. /\ q2 \in [Side -> [Px -> Seq(Ids)]] /\ q2[s0][p0] = Drop(f, k0)
      /\ \A s \in Side, p \in Px : (s # s0 \/ p # p0) => q2[s][p] = q[s][p]
  BY <1>1, <1>3
<1>5. \A s \in Side, p \in Px : Linked(q[s][p], lvs[s][p], os, s, p)
  BY DEF Holds
<1>6. /\ os[id].prev = IF k0 = 1 THEN 0 ELSE f[k0 - 1]
      /\ os[id].next = IF k0 = n THEN 0 ELSE f[k0 + 1]
      /\ os[id].qty # 0 /\ os[id].side = s0 /\ os[id].px = p0
  BY <1>2, <1>5 DEF Linked
<1> HIDE DEF id, q2, n, f
<1>0. k0 \in 1 .. n /\ Skips(os, os2, id) /\ NewEnds(lvs, lvs2, os[id], s0, p0)
  BY DEF id, f, n
<1>7. ASSUME NEW i \in Ids, os[i].side # s0 \/ os[i].px # p0
      PROVE  i # id /\ i # os[id].prev /\ i # os[id].next
  <2>1. \A j \in 1 .. n : os[f[j]].side = s0 /\ os[f[j]].px = p0
    BY <1>5 DEF Linked, f, n
  <2>2. i # 0 /\ \A j \in 1 .. n : i # f[j]
    BY <1>7, <2>1, LobAssumption, LadderAssumption DEF Ids
  <2>3. (k0 # 1 => k0 - 1 \in 1 .. n) /\ (k0 # n => k0 + 1 \in 1 .. n)
    BY <1>2
  <2>4. QED
    BY <1>2, <1>6, <2>2, <2>3
<1>8. \A s \in Side, p \in Px : Linked(q2[s][p], lvs2[s][p], os2, s, p)
  <2>1. TAKE s \in Side, p \in Px
  <2>2. CASE s = s0 /\ p = p0
    <3>1. Linked(f, lvs[s0][p0], os, s0, p0) /\ OneToOne(f)
      BY <1>1, <1>5 DEF f
    <3>2. Linked(Drop(f, k0), lvs2[s0][p0], os2, s0, p0)
      <4>1. /\ f \in Seq(Ids) /\ k0 \in 1 .. Len(f) /\ id = f[k0]
            /\ \A i \in Ids : i # id =>
                 /\ os2[i].prev = IF i = os[id].next THEN os[id].prev ELSE os[i].prev
                 /\ os2[i].next = IF i = os[id].prev THEN os[id].next ELSE os[i].next
                 /\ os2[i].side = os[i].side /\ os2[i].px = os[i].px
                 /\ os2[i].qty = os[i].qty
        BY <1>0, <1>2 DEF n, Skips
      <4>2. /\ lvs2[s0][p0].head = IF os[id].prev = 0 THEN os[id].next ELSE lvs[s0][p0].head
            /\ lvs2[s0][p0].tail = IF os[id].next = 0 THEN os[id].prev ELSE lvs[s0][p0].tail
        BY <1>0 DEF NewEnds
      <4>3. QED
        BY <3>1, <4>1, <4>2, UnlinkedList
    <3>3. QED
      BY <1>4, <2>2, <3>2
  <2>3. CASE s # s0 \/ p # p0
    <3>1. Linked(q[s][p], lvs[s][p], os, s, p) /\ q2[s][p] = q[s][p]
      BY <1>4, <1>5, <2>3
    <3>2. ASSUME NEW k \in 1 .. Len(q[s][p])
          PROVE  /\ os2[q[s][p][k]].prev = os[q[s][p][k]].prev
                 /\ os2[q[s][p][k]].next = os[q[s][p][k]].next
                 /\ os2[q[s][p][k]].side = os[q[s][p][k]].side
                 /\ os2[q[s][p][k]].px = os[q[s][p][k]].px
                 /\ os2[q[s][p][k]].qty # 0
      <4>1. /\ q[s][p][k] \in Ids /\ os[q[s][p][k]].qty # 0
            /\ os[q[s][p][k]].side = s /\ os[q[s][p][k]].px = p
        BY Queued
      <4>2. /\ q[s][p][k] # id /\ q[s][p][k] # os[id].prev
            /\ q[s][p][k] # os[id].next
        BY <1>7, <2>3, <4>1
      <4>3. QED
        BY <1>0, <4>1, <4>2 DEF Skips
    <3>3. lvs2[s][p].head = lvs[s][p].head /\ lvs2[s][p].tail = lvs[s][p].tail
      <4>1. NewEnds(lvs, lvs2, os[id], s0, p0)
        BY <1>0
      <4>2. QED
        BY <2>3, <4>1 DEF NewEnds
    <3>4. QED
      BY <3>1, <3>2, <3>3, ListKept
  <2>4. QED
    BY <2>2, <2>3
<1>9. Placed(q2, os2, Append(fr, id), tk)
  <2> DEFINE fr2 == Append(fr, id)
  <2>1. \A k \in 1 .. Len(fr) : fr[k] # id /\ fr[k] \in Ids
    <3>1. \A k \in 1 .. Len(fr) : fr[k] \in Ids
      OBVIOUS
    <3>2. \A k \in 1 .. Len(fr) : os[fr[k]].qty = 0
      BY <1>1
    <3>3. os[id].qty # 0
      BY <1>6
    <3>4. QED
      BY <3>1, <3>2, <3>3
  <2>2. /\ OneToOne(fr2)
        /\ \A k \in 1 .. Len(fr2) :
             fr2[k] = id \/ \E j \in 1 .. Len(fr) : fr2[k] = fr[j]
        /\ \E k \in 1 .. Len(fr2) : fr2[k] = id
        /\ \A j \in 1 .. Len(fr) : \E k \in 1 .. Len(fr2) : fr2[k] = fr[j]
    <3>1. OneToOne(fr) /\ id \in Ids /\ \A k \in 1 .. Len(fr) : fr[k] # id
      BY <1>1, <1>2, <2>1
    <3>2. QED
      BY <3>1, Freed
  <2> HIDE DEF fr2
  <2>3. \A k \in 1 .. Len(fr) : os2[fr[k]].qty = 0
    <3>1. TAKE k \in 1 .. Len(fr)
    <3>2. fr[k] \in Ids /\ fr[k] # id /\ os[fr[k]].qty = 0
      BY <1>1, <2>1
    <3>3. os2[fr[k]].qty = os[fr[k]].qty
      BY <1>0, <3>2 DEF Skips
    <3>4. QED
      BY <3>2, <3>3
  <2>4. \A k \in 1 .. Len(fr2) : os2[fr2[k]].qty = 0
    <3>1. os2[id].qty = 0
      BY <1>0 DEF Skips
    <3>2. ASSUME NEW k \in 1 .. Len(fr2)
          PROVE  os2[fr2[k]].qty = 0
      <4>1. CASE fr2[k] = id
        BY <3>1, <4>1
      <4>2. CASE \E j \in 1 .. Len(fr) : fr2[k] = fr[j]
        BY <2>3, <4>2
      <4>3. QED
        BY <2>2, <4>1, <4>2
    <3>3. QED
      BY <3>2
  <2>5. tk # id
    BY <1>0, <1>1 DEF f, n, id
  <2>6. tk # 0 => os2[tk].qty # 0
    BY <1>0, <1>1, <2>5 DEF Skips
  <2>7. /\ OneToOne(Drop(f, k0))
        /\ \A j \in 1 .. Len(Drop(f, k0)) :
             \E h \in 1 .. n : h # k0 /\ Drop(f, k0)[j] = f[h]
        /\ \A h \in 1 .. n :
             h # k0 => \E j \in 1 .. Len(Drop(f, k0)) : Drop(f, k0)[j] = f[h]
    <3>1. OneToOne(f) /\ f \in Seq(Ids) /\ k0 \in 1 .. Len(f)
      BY <1>1, <1>2 DEF f, n
    <3>2. QED
      BY <3>1, DropOthers DEF n
  <2>8. ASSUME NEW s \in Side, NEW p \in Px
        PROVE  OneToOne(q2[s][p]) /\ \A k \in 1 .. Len(q2[s][p]) : q2[s][p][k] # tk
    <3>1. CASE s = s0 /\ p = p0
      <4>1. \A k \in 1 .. n : f[k] # tk
        BY <1>1 DEF f, n
      <4>2. \A k \in 1 .. Len(Drop(f, k0)) : Drop(f, k0)[k] # tk
        BY <2>7, <4>1
      <4>3. QED
        BY <1>4, <2>7, <3>1, <4>2
    <3>2. CASE s # s0 \/ p # p0
      BY <1>1, <1>4, <3>2
    <3>3. QED
      BY <3>1, <3>2
  <2>9. ASSUME NEW i \in Ids
        PROVE  \/ \E k \in 1 .. Len(fr2) : fr2[k] = i
               \/ tk = i
               \/ \E s \in Side, p \in Px :
                    \E k \in 1 .. Len(q2[s][p]) : q2[s][p][k] = i
    <3>1. CASE i = id
      BY <2>2, <3>1
    <3>2. CASE \E k \in 1 .. Len(fr) : fr[k] = i
      BY <2>2, <3>2
    <3>3. ASSUME NEW s \in Side, NEW p \in Px, NEW k \in 1 .. Len(q[s][p]),
                 q[s][p][k] = i, i # id
          PROVE  \E j \in 1 .. Len(q2[s][p]) : q2[s][p][j] = i
      <4>1. CASE s = s0 /\ p = p0
        <5>1. k \in 1 .. n /\ f[k] = i /\ k # k0
          BY <1>2, <3>3, <4>1 DEF f, n, id
        <5>2. \E j \in 1 .. Len(Drop(f, k0)) : Drop(f, k0)[j] = i
          BY <2>7, <5>1
        <5>3. QED
          BY <1>4, <4>1, <5>2
      <4>2. CASE s # s0 \/ p # p0
        BY <1>4, <3>3, <4>2
      <4>3. QED
        BY <4>1, <4>2
    <3>4. \/ \E k \in 1 .. Len(fr) : fr[k] = i
          \/ tk = i
          \/ \E s \in Side, p \in Px : \E k \in 1 .. Len(q[s][p]) : q[s][p][k] = i
      BY Zenon DEF Holds, Placed
    <3>5. QED
      BY <3>1, <3>2, <3>3, <3>4
  <2>10. QED
    BY <1>4, <2>2, <2>4, <2>6, <2>8, <2>9, Zenon DEF Placed, fr2
<1>10. QED
  BY <1>8, <1>9 DEF Holds, q2, id, f

(* In os2 the taker joins the end of a level, whose tail was tail, and in  *)
(* lvs2 the level ends with it.                                            *)
Joins(os, os2, tk, tail, s0, p0) ==
  /\ os2[tk].prev = tail /\ os2[tk].next = 0
  /\ os2[tk].side = s0 /\ os2[tk].px = p0 /\ os2[tk].qty # 0
  /\ \A i \in Ids : i # tk =>
       /\ os2[i].next = IF i = tail THEN tk ELSE os[i].next
       /\ os2[i].prev = os[i].prev
       /\ os2[i].side = os[i].side /\ os2[i].px = os[i].px
       /\ os2[i].qty = os[i].qty

NewTail(lvs, lvs2, tk, s0, p0) ==
  /\ \A s \in Side, p \in Px : (s # s0 \/ p # p0) =>
       lvs2[s][p].head = lvs[s][p].head /\ lvs2[s][p].tail = lvs[s][p].tail
  /\ lvs2[s0][p0].head = IF lvs[s0][p0].tail = 0 THEN tk ELSE lvs[s0][p0].head
  /\ lvs2[s0][p0].tail = tk

(* The list of that level grows by the taker.                              *)
LEMMA JoinedList ==
  ASSUME NEW f \in Seq(Ids), OneToOne(f), NEW tk \in Ids,
         \A k \in 1 .. Len(f) : f[k] # tk,
         NEW lv, NEW lv2, NEW os, NEW os2, NEW s, NEW p,
         Linked(f, lv, os, s, p),
         Joins(os, os2, tk, lv.tail, s, p),
         lv2.head = IF lv.tail = 0 THEN tk ELSE lv.head, lv2.tail = tk
  PROVE  Linked(Append(f, tk), lv2, os2, s, p)
<1> DEFINE n == Len(f)
           g == Append(f, tk)
<1>1. /\ n \in Nat /\ \A j \in 1 .. n : f[j] \in Ids /\ f[j] # 0 /\ f[j] # tk
      /\ Len(g) = n + 1 /\ g[n + 1] = tk /\ \A j \in 1 .. n : g[j] = f[j]
  BY LobAssumption, LadderAssumption DEF Ids
<1>2. \A i, j \in 1 .. n : f[i] = f[j] => i = j
  BY DEF OneToOne
<1>3. /\ lv.head = IF n = 0 THEN 0 ELSE f[1]
      /\ lv.tail = IF n = 0 THEN 0 ELSE f[n]
      /\ \A j \in 1 .. n :
           /\ os[f[j]].prev = IF j = 1 THEN 0 ELSE f[j - 1]
           /\ os[f[j]].next = IF j = n THEN 0 ELSE f[j + 1]
           /\ os[f[j]].side = s /\ os[f[j]].px = p /\ os[f[j]].qty # 0
  BY DEF Linked
<1> HIDE DEF n, g
<1>4. lv2.head = g[1]
  <2>1. CASE n = 0
    BY <1>1, <1>3, <2>1
  <2>2. CASE n # 0
    <3>1. n \in 1 .. n /\ 1 \in 1 .. n
      BY <1>1, <2>2
    <3>2. lv.tail # 0 /\ lv.head = f[1] /\ g[1] = f[1]
      BY <1>1, <1>3, <2>2, <3>1
    <3>3. QED
      BY <3>2
  <2>3. QED
    BY <2>1, <2>2
<1>5. lv2.tail = g[n + 1]
  BY <1>1
<1>6. ASSUME NEW j \in 1 .. n
      PROVE  /\ os2[f[j]].prev = IF j = 1 THEN 0 ELSE f[j - 1]
             /\ os2[f[j]].next = IF j = n THEN tk ELSE f[j + 1]
             /\ os2[f[j]].side = s /\ os2[f[j]].px = p /\ os2[f[j]].qty # 0
  <2>1. /\ os2[f[j]].next = IF f[j] = lv.tail THEN tk ELSE os[f[j]].next
        /\ os2[f[j]].prev = os[f[j]].prev
        /\ os2[f[j]].side = s /\ os2[f[j]].px = p /\ os2[f[j]].qty # 0
    <3>1. f[j] \in Ids /\ f[j] # tk
      BY <1>1
    <3>2. os[f[j]].side = s /\ os[f[j]].px = p /\ os[f[j]].qty # 0
      BY <1>3
    <3>3. QED
      BY <3>1, <3>2 DEF Joins
  <2>2. f[j] = lv.tail <=> j = n
    <3>1. n # 0 /\ n \in 1 .. n
      BY <1>1
    <3>2. lv.tail = f[n]
      BY <1>3, <3>1
    <3>3. QED
      BY <1>2, <3>1, <3>2
  <2>3. QED
    BY <1>3, <2>1, <2>2
<1>7. /\ os2[tk].prev = IF n + 1 = 1 THEN 0 ELSE g[n]
      /\ os2[tk].next = 0 /\ os2[tk].side = s /\ os2[tk].px = p /\ os2[tk].qty # 0
  <2>1. /\ os2[tk].prev = lv.tail
        /\ os2[tk].next = 0 /\ os2[tk].side = s /\ os2[tk].px = p /\ os2[tk].qty # 0
    BY DEF Joins
  <2>2. lv.tail = IF n + 1 = 1 THEN 0 ELSE g[n]
    BY <1>1, <1>3
  <2>3. QED
    BY <2>1, <2>2
<1>8. ASSUME NEW j \in 1 .. n + 1
      PROVE  /\ os2[g[j]].prev = IF j = 1 THEN 0 ELSE g[j - 1]
             /\ os2[g[j]].next = IF j = n + 1 THEN 0 ELSE g[j + 1]
             /\ os2[g[j]].side = s /\ os2[g[j]].px = p /\ os2[g[j]].qty # 0
  <2>1. CASE j = n + 1
    <3>1. g[j] = tk /\ j - 1 = n
      BY <1>1, <2>1
    <3>2. QED
      BY <1>7, <2>1, <3>1
  <2>2. CASE j # n + 1
    <3>1. /\ j \in 1 .. n /\ g[j] = f[j] /\ (j # 1 => g[j - 1] = f[j - 1])
          /\ g[j + 1] = IF j = n THEN tk ELSE f[j + 1]
      BY <1>1, <2>2
    <3>2. QED
      BY <1>6, <2>2, <3>1
  <2>3. QED
    BY <2>1, <2>2
<1>9. /\ Len(g) = n + 1 /\ n + 1 # 0
  BY <1>1
<1>10. QED
  BY <1>4, <1>5, <1>8, <1>9 DEF Linked, g

(* What is left of the taker rests behind the other orders at its price.   *)
LEMMA Rested ==
  ASSUME NEW lvs, NEW lvs2, NEW os, NEW os2, NEW fr \in Seq(Ids),
         NEW tk \in Ids, NEW q, Holds(lvs, os, fr, tk, q),
         NEW s0 \in Side, NEW p0 \in Px,
         Joins(os, os2, tk, lvs[s0][p0].tail, s0, p0), NewTail(lvs, lvs2, tk, s0, p0)
  PROVE  Holds(lvs2, os2, fr, 0, [q EXCEPT ![s0][p0] = Append(q[s0][p0], tk)])
<1> DEFINE f == q[s0][p0]
           n == Len(f)
           g == Append(f, tk)
           q2 == [q EXCEPT ![s0][p0] = g]
<1>1. /\ q \in [Side -> [Px -> Seq(Ids)]]
      /\ \A s \in Side, p \in Px : OneToOne(q[s][p])
      /\ \A s \in Side, p \in Px : \A k \in 1 .. Len(q[s][p]) : q[s][p][k] # tk
      /\ OneToOne(fr)
      /\ \A k \in 1 .. Len(fr) : os[fr[k]].qty = 0
  BY Zenon DEF Holds, Placed
<1>2. f \in Seq(Ids) /\ n \in Nat /\ \A j \in 1 .. n : f[j] \in Ids /\ f[j] # tk
  <2>1. f \in Seq(Ids) /\ \A j \in 1 .. n : f[j] # tk
    BY <1>1
  <2> HIDE DEF f
  <2>2. n \in Nat /\ \A j \in 1 .. n : f[j] \in Ids
    BY <2>1, LenProperties, ElementOfSeq
  <2>3. QED
    BY <2>1, <2>2
<1>3. /\ g \in Seq(Ids) /\ OneToOne(g)
      /\ \A k \in 1 .. Len(g) : g[k] = tk \/ \E j \in 1 .. n : g[k] = f[j]
      /\ \E k \in 1 .. Len(g) : g[k] = tk
      /\ \A j \in 1 .. n : \E k \in 1 .. Len(g) : g[k] = f[j]
  <2>1. f \in Seq(Ids) /\ OneToOne(f) /\ \A k \in 1 .. Len(f) : f[k] # tk
    BY <1>1, <1>2
  <2> HIDE DEF f
  <2>2. QED
    BY <2>1, Freed, AppendProperties
<1> HIDE DEF g
<1>4. /\ q2 \in [Side -> [Px -> Seq(Ids)]] /\ q2[s0][p0] = g
      /\ \A s \in Side, p \in Px : (s # s0 \/ p # p0) => q2[s][p] = q[s][p]
  BY <1>1, <1>3
<1>5. \A s \in Side, p \in Px : Linked(q[s][p], lvs[s][p], os, s, p)
  BY DEF Holds
<1>6. os[tk].qty # 0 /\ tk # 0
  BY LobAssumption, LadderAssumption DEF Ids, Holds, Placed
<1>7. lvs[s0][p0].tail # 0 =>
        os[lvs[s0][p0].tail].side = s0 /\ os[lvs[s0][p0].tail].px = p0
  <2>1. Linked(f, lvs[s0][p0], os, s0, p0)
    BY <1>5
  <2> HIDE DEF f
  <2>2. lvs[s0][p0].tail = IF n = 0 THEN 0 ELSE f[n]
    BY <2>1 DEF Linked
  <2>3. \A k \in 1 .. n : os[f[k]].side = s0 /\ os[f[k]].px = p0
    BY <2>1 DEF Linked
  <2>4. n # 0 => n \in 1 .. n
    BY <1>2
  <2>5. QED
    BY <2>2, <2>3, <2>4
<1> HIDE DEF q2, n, f
<1>8. \A s \in Side, p \in Px : Linked(q2[s][p], lvs2[s][p], os2, s, p)
  <2>1. TAKE s \in Side, p \in Px
  <2>2. CASE s = s0 /\ p = p0
    <3>1. /\ Linked(f, lvs[s0][p0], os, s0, p0) /\ OneToOne(f)
          /\ \A k \in 1 .. Len(f) : f[k] # tk
      BY <1>1, <1>5 DEF f
    <3>2. Linked(Append(f, tk), lvs2[s0][p0], os2, s0, p0)
      BY <1>2, <3>1, JoinedList DEF NewTail
    <3>3. QED
      BY <1>4, <2>2, <3>2 DEF g
  <2>3. CASE s # s0 \/ p # p0
    <3>1. Linked(q[s][p], lvs[s][p], os, s, p) /\ q2[s][p] = q[s][p]
      BY <1>4, <1>5, <2>3
    <3>2. ASSUME NEW k \in 1 .. Len(q[s][p])
          PROVE  /\ os2[q[s][p][k]].prev = os[q[s][p][k]].prev
                 /\ os2[q[s][p][k]].next = os[q[s][p][k]].next
                 /\ os2[q[s][p][k]].side = os[q[s][p][k]].side
                 /\ os2[q[s][p][k]].px = os[q[s][p][k]].px
                 /\ os2[q[s][p][k]].qty # 0
      <4>1. /\ q[s][p][k] \in Ids /\ os[q[s][p][k]].qty # 0
            /\ os[q[s][p][k]].side = s /\ os[q[s][p][k]].px = p
            /\ q[s][p][k] # tk
        BY Queued
      <4>2. q[s][p][k] # lvs[s0][p0].tail
        BY <1>7, <2>3, <4>1, LobAssumption, LadderAssumption DEF Ids
      <4>3. QED
        BY <4>1, <4>2 DEF Joins
    <3>3. lvs2[s][p].head = lvs[s][p].head /\ lvs2[s][p].tail = lvs[s][p].tail
      BY <2>3 DEF NewTail
    <3>4. QED
      BY <3>1, <3>2, <3>3, ListKept
  <2>4. QED
    BY <2>2, <2>3
<1>9. Placed(q2, os2, fr, 0)
  <2>1. \A k \in 1 .. Len(fr) : fr[k] # tk /\ fr[k] \in Ids
    BY <1>1, <1>6
  <2>2. \A k \in 1 .. Len(fr) : os2[fr[k]].qty = 0
    BY <1>1, <2>1 DEF Joins
  <2>3. ASSUME NEW s \in Side, NEW p \in Px
        PROVE  OneToOne(q2[s][p]) /\ \A k \in 1 .. Len(q2[s][p]) : q2[s][p][k] # 0
    <3>1. OneToOne(q2[s][p]) /\ q2[s][p] \in Seq(Ids)
      <4>1. CASE s = s0 /\ p = p0
        BY <1>3, <1>4, <4>1
      <4>2. CASE s # s0 \/ p # p0
        BY <1>1, <1>4, <4>2
      <4>3. QED
        BY <4>1, <4>2
    <3>2. QED
      BY <3>1, LobAssumption, LadderAssumption DEF Ids
  <2>4. ASSUME NEW i \in Ids
        PROVE  \/ \E k \in 1 .. Len(fr) : fr[k] = i
               \/ \E s \in Side, p \in Px :
                    \E k \in 1 .. Len(q2[s][p]) : q2[s][p][k] = i
    <3>1. CASE i = tk
      BY <1>3, <1>4, <3>1
    <3>2. ASSUME NEW s \in Side, NEW p \in Px, NEW k \in 1 .. Len(q[s][p]),
                 q[s][p][k] = i
          PROVE  \E j \in 1 .. Len(q2[s][p]) : q2[s][p][j] = i
      <4>1. CASE s = s0 /\ p = p0
        <5>1. k \in 1 .. n /\ f[k] = i
          BY <3>2, <4>1 DEF f, n
        <5>2. \E j \in 1 .. Len(g) : g[j] = i
          BY <1>3, <5>1
        <5>3. QED
          BY <1>4, <4>1, <5>2
      <4>2. CASE s # s0 \/ p # p0
        BY <1>4, <3>2, <4>2
      <4>3. QED
        BY <4>1, <4>2
    <3>3. \/ \E k \in 1 .. Len(fr) : fr[k] = i
          \/ tk = i
          \/ \E s \in Side, p \in Px : \E k \in 1 .. Len(q[s][p]) : q[s][p][k] = i
      BY Zenon DEF Holds, Placed
    <3>4. QED
      BY <3>1, <3>2, <3>3
  <2>5. QED
    BY <1>1, <1>4, <2>2, <2>3, <2>4, Zenon DEF Placed
<1>10. QED
  BY <1>8, <1>9 DEF Holds, q2, g, f
-----------------------------------------------------------------------------
(* The invariant says that the book holds its queues.                      *)
LEMMA HoldsQueues ==
  ASSUME IInv
  PROVE  Holds(levels, orders_, free_, taker_id, Queues)
<1>1. \A s \in Side, p \in Px : Queues[s][p] = Fifo(s, p)
  BY DEF Queues
<1>2. \A s \in Side, p \in Px : Linked(Queues[s][p], levels[s][p], orders_, s, p)
  BY <1>1 DEF IInv, ListsLinked
<1>3. QED
  BY <1>2 DEF IInv, Holds

(* It holds after a step that leaves some queues in the book.              *)
LEMMA NewQueues ==
  ASSUME NEW q, Holds(levels', orders_', free_', taker_id', q), Control',
         levels' \in [Side -> [Px -> Level]], orders_' \in [Ids -> Order],
         free_' \in Seq(Ids),
         Len(free_') <= MaxOrders => TypeOK'
  PROVE  IInv' /\ Queues' = q
<1>1. TypeOK'
  <2>1. OneToOne(free_')
    BY DEF Holds, Placed
  <2>2. Len(free_') <= MaxOrders
    BY <2>1, ShortLists
  <2>3. QED
    BY <2>2
<1>2. \A s \in Side, p \in Px : Fifo(s, p)' = q[s][p]
  BY QueuesAre DEF Fifo
<1>3. Queues' = [s \in Side |-> [p \in Px |-> q[s][p]]]
  BY <1>2 DEF Queues
<1>4. q \in [Side -> [Px -> Seq(Ids)]]
  BY DEF Holds, Placed
<1>5. Queues' = q
  BY <1>3, <1>4
<1>6. ListsLinked'
  BY <1>2 DEF ListsLinked, Holds
<1>7. Placed(Queues, orders_, free_, taker_id)'
  BY <1>5 DEF Holds, Placed
<1>8. QED
  BY <1>1, <1>5, <1>6, <1>7 DEF IInv

(* limit takes a slot, and the book does not change.                       *)
LEMMA LimitKeeps ==
  ASSUME IInv, NEW side \in Side, NEW px \in Px, NEW qty \in 1 .. MaxQty,
         Limit(side, px, qty)
  PROVE  /\ IInv' /\ Queues' = Queues
         /\ taker_id' \in Ids /\ orders_'[taker_id'].side = side
         /\ orders_'[taker_id'].px = px /\ orders_'[taker_id'].qty = qty
         /\ \A i \in Ids : i # taker_id' => orders_'[i] = orders_[i]
<1> DEFINE id == free_[Len(free_)]
           o == [prev |-> 0, next |-> 0, qty |-> qty, px |-> px, side |-> side]
<1>1. /\ TypeOK /\ Control /\ pc = "idle" /\ free_ # << >>
      /\ orders_' = [orders_ EXCEPT ![id] = o] /\ taker_id' = id
      /\ free_' = SubSeq(free_, 1, Len(free_) - 1)
      /\ remaining' = qty /\ pc' = "match"
      /\ levels' = levels /\ best' = best /\ trade' = trade
  BY DEF IInv, Limit
<1>2. /\ Len(free_) \in Nat /\ Len(free_) # 0 /\ Len(free_') = Len(free_) - 1
      /\ \A k \in 1 .. Len(free_) - 1 : free_'[k] = free_[k]
      /\ \A k \in 1 .. Len(free_) : free_[k] \in Ids
  BY <1>1, FrontIs DEF TypeOK
<1>3. free_' \in Seq(Ids)
  BY <1>1, <1>2, SubSeqProperties
<1>4. id \in Ids /\ id # 0 /\ id \in 1 .. MaxOrders
  BY <1>2, LobAssumption, LadderAssumption DEF Ids
<1>5. o \in Order /\ o.qty # 0 /\ o.side = side /\ o.px = px /\ o.qty = qty
  BY LobAssumption, LadderAssumption DEF Order
<1> HIDE DEF id, o
<1>6. /\ orders_' \in [Ids -> Order] /\ orders_'[id] = o
      /\ \A i \in Ids : i # id => orders_'[i] = orders_[i]
  BY <1>1, <1>4, <1>5 DEF TypeOK
<1>7. taker_id = 0
  BY <1>1 DEF Control, kInvalidId
<1>8. Holds(levels, orders_, free_, 0, Queues)
  BY <1>7, HoldsQueues
<1>9. Holds(levels, orders_', free_', id, Queues)
  <2>1. free_ \in Seq(Ids) /\ id = free_[Len(free_)] /\ orders_'[id].qty # 0
    BY <1>1, <1>5, <1>6 DEF TypeOK, id
  <2>2. QED
    BY <1>1, <1>6, <1>8, <2>1, Acquired
<1>10. Control'
  BY <1>1, <1>4, <1>5, <1>6, LobAssumption, LadderAssumption DEF Control, kInvalidId
<1>11. Len(free_') <= MaxOrders => TypeOK'
  BY <1>1, <1>3, <1>4, <1>6, LobAssumption, LadderAssumption DEF TypeOK
<1>12. IInv' /\ Queues' = Queues
  BY <1>1, <1>3, <1>6, <1>9, <1>10, <1>11, NewQueues DEF TypeOK
<1>13. QED
  BY <1>1, <1>4, <1>5, <1>6, <1>12

(* A price that the taker crosses is a level, and nothing changes yet.     *)
LEMMA EnterKeeps ==
  ASSUME IInv, EnterLevel
  PROVE  IInv' /\ Queues' = Queues
<1>1. /\ TypeOK /\ Control /\ pc = "match" /\ pc' = "take" /\ Crossing
      /\ UNCHANGED <<levels, best, orders_, free_, taker_id, remaining, trade>>
  BY DEF IInv, EnterLevel
<1>2. taker_id # 0 /\ taker_id \in Ids
  BY <1>1 DEF Control, TypeOK, kInvalidId
<1>3. best[Opposite(orders_[taker_id].side)] \in Px
  <2>1. orders_[taker_id].side \in Side
    BY <1>1, <1>2 DEF TypeOK, Order
  <2>2. Opposite(orders_[taker_id].side) \in Side
    BY <2>1 DEF Opposite, Side
  <2>3. QED
    BY <1>1, <2>2 DEF Crossing, TypeOK
<1>4. TypeOK' /\ Control'
  BY <1>1, <1>3 DEF TypeOK, Control
<1>5. Holds(levels', orders_', free_', taker_id', Queues)
  BY <1>1, HoldsQueues
<1>6. QED
  BY <1>1, <1>4, <1>5, NewQueues DEF TypeOK

(* unlink and release of an order, on the array and on its level.          *)
LEMMA UnlinkOrderIs ==
  ASSUME NEW os \in [Ids -> Order], NEW id \in Ids
  PROVE  LET os2 == [UnlinkOrder(os, id) EXCEPT ![id] = NoOrder]
         IN /\ os2 \in [Ids -> Order] /\ Skips(os, os2, id) /\ os2[id] = NoOrder
<1> DEFINE u == UnlinkOrder(os, id)
           os2 == [u EXCEPT ![id] = NoOrder]
<1>1. NoOrder \in Order /\ NoOrder.qty = 0
  BY LobAssumption, LadderAssumption DEF NoOrder, Order, Side
<1>2. \A i \in Ids : os[i] \in Order
  OBVIOUS
<1>3. os[id].prev \in 0 .. MaxOrders /\ os[id].next \in 0 .. MaxOrders
  BY <1>2 DEF Order
<1>4. ASSUME NEW i \in Ids
      PROVE  /\ u[i] \in Order
             /\ i # id =>
                  /\ u[i].prev = IF i = os[id].next THEN os[id].prev ELSE os[i].prev
                  /\ u[i].next = IF i = os[id].prev THEN os[id].next ELSE os[i].next
                  /\ u[i].side = os[i].side /\ u[i].px = os[i].px
                  /\ u[i].qty = os[i].qty
  <2> DEFINE nx == IF i = id THEN 0 ELSE IF i = os[id].prev THEN os[id].next ELSE os[i].next
             pv == IF i = id THEN 0 ELSE IF i = os[id].next THEN os[id].prev ELSE os[i].prev
  <2>1. u[i] = [os[i] EXCEPT !.next = nx, !.prev = pv]
    BY DEF UnlinkOrder
  <2>2. nx \in 0 .. MaxOrders /\ pv \in 0 .. MaxOrders
    BY <1>2, <1>3, LobAssumption, LadderAssumption DEF Order
  <2>3. os[i] \in Order
    BY <1>2
  <2>4. i # id =>
          /\ nx = IF i = os[id].prev THEN os[id].next ELSE os[i].next
          /\ pv = IF i = os[id].next THEN os[id].prev ELSE os[i].prev
    OBVIOUS
  <2> HIDE DEF nx, pv, u
  <2>5. /\ u[i] \in Order /\ u[i].next = nx /\ u[i].prev = pv
        /\ u[i].side = os[i].side /\ u[i].px = os[i].px /\ u[i].qty = os[i].qty
    BY <2>1, <2>2, <2>3 DEF Order
  <2>6. QED
    BY <2>4, <2>5
<1>5. u = [i \in Ids |-> u[i]]
  BY DEF UnlinkOrder
<1> HIDE DEF u
<1>6. u \in [Ids -> Order]
  BY <1>4, <1>5
<1>7. /\ os2 \in [Ids -> Order] /\ os2[id] = NoOrder
      /\ \A i \in Ids : i # id => os2[i] = u[i]
  BY <1>1, <1>6
<1> HIDE DEF os2
<1>8. Skips(os, os2, id)
  BY <1>1, <1>4, <1>7 DEF Skips
<1>9. QED
  BY <1>7, <1>8 DEF os2, u

(* From lvs to lvs2 one level changed, which now counts qty.               *)
OneLevel(lvs, lvs2, s0, p0, qty) ==
  /\ lvs2[s0][p0].qty = qty
  /\ \A s \in Side, p \in Px : (s # s0 \/ p # p0) => lvs2[s][p] = lvs[s][p]

(* The level of an order that is unlinked.                                 *)
LEMMA UnlinkLevelIs ==
  ASSUME NEW lvs \in [Side -> [Px -> Level]], NEW s \in Side, NEW p \in Px,
         NEW o \in Order, NEW lv \in Level,
         lv.head = lvs[s][p].head, lv.tail = lvs[s][p].tail
  PROVE  LET lvs2 == [lvs EXCEPT ![s][p] = UnlinkLevel(lv, o)]
         IN /\ lvs2 \in [Side -> [Px -> Level]] /\ NewEnds(lvs, lvs2, o, s, p)
            /\ OneLevel(lvs, lvs2, s, p, lv.qty)
<1> DEFINE l == UnlinkLevel(lv, o)
           lvs2 == [lvs EXCEPT ![s][p] = l]
<1>1. /\ l \in Level /\ l.qty = lv.qty
      /\ l.head = IF o.prev = 0 THEN o.next ELSE lv.head
      /\ l.tail = IF o.next = 0 THEN o.prev ELSE lv.tail
  BY DEF UnlinkLevel, Level, Order
<1> HIDE DEF l
<1>2. /\ lvs2 \in [Side -> [Px -> Level]] /\ lvs2[s][p] = l
      /\ \A r \in Side, x \in Px : (r # s \/ x # p) => lvs2[r][x] = lvs[r][x]
  BY <1>1
<1> HIDE DEF lvs2
<1>3. NewEnds(lvs, lvs2, o, s, p)
  BY <1>1, <1>2 DEF NewEnds
<1>4. OneLevel(lvs, lvs2, s, p, lv.qty)
  BY <1>1, <1>2 DEF OneLevel
<1>5. QED
  BY <1>2, <1>3, <1>4 DEF lvs2, l

(* The sides are two.                                                      *)
LEMMA Sides ==
  ASSUME NEW s \in Side
  PROVE  Opposite(s) \in Side /\ Opposite(s) # s /\ Opposite(Opposite(s)) = s
BY DEF Opposite, Side

(* A level that is not empty has its oldest order at the head.             *)
LEMMA HeadIs ==
  ASSUME IInv, NEW s \in Side, NEW p \in Px
  PROVE  LET f == Queues[s][p]
         IN /\ f \in Seq(Ids) /\ Len(f) \in Nat
            /\ levels[s][p].head = 0 <=> f = << >>
            /\ f # << >> => /\ 1 \in 1 .. Len(f) /\ f[1] = levels[s][p].head
                            /\ f[1] \in Ids /\ f[1] # taker_id
                            /\ orders_[f[1]].side = s /\ orders_[f[1]].px = p
                            /\ orders_[f[1]].qty # 0
<1> DEFINE f == Queues[s][p]
<1>1. Holds(levels, orders_, free_, taker_id, Queues)
  BY HoldsQueues
<1>2. f \in Seq(Ids) /\ Linked(f, levels[s][p], orders_, s, p)
  BY <1>1 DEF Holds, Placed
<1>3. ASSUME f # << >>
      PROVE  /\ 1 \in 1 .. Len(f) /\ f[1] \in Ids /\ f[1] # taker_id
             /\ orders_[f[1]].side = s /\ orders_[f[1]].px = p
             /\ orders_[f[1]].qty # 0
  <2>1. 1 \in 1 .. Len(f)
    BY <1>2, <1>3, EmptySeq
  <2>2. QED
    BY <1>1, <2>1, Queued
<1> HIDE DEF f
<1>4. levels[s][p].head = IF Len(f) = 0 THEN 0 ELSE f[1]
  BY <1>2 DEF Linked
<1>5. Len(f) \in Nat /\ (f = << >> <=> Len(f) = 0)
  BY <1>2, EmptySeq
<1>6. f # << >> => f[1] # 0
  BY <1>3, LobAssumption, LadderAssumption DEF Ids
<1>7. QED
  BY <1>2, <1>3, <1>4, <1>5, <1>6 DEF f

(* What take_level works on: its side and price, the head, the quantity.   *)
TakenSide == Opposite(orders_[taker_id].side)
TakenPx == best[TakenSide]
Maker == levels[TakenSide][TakenPx].head
Take == IF orders_[Maker].qty <= remaining THEN orders_[Maker].qty ELSE remaining
Left == [levels[TakenSide][TakenPx] EXCEPT !.qty = (@ - Take) % QtyMod]

LEMMA TakeHeadIs ==
  ASSUME TakeHead
  PROVE  /\ pc = "take" /\ remaining # 0 /\ Maker # 0
         /\ trade' = [maker |-> Maker, taker |-> taker_id,
                      px |-> orders_[Maker].px, qty |-> Take]
         /\ remaining' = remaining - Take
         /\ IF orders_[Maker].qty = Take
            THEN /\ Release(UnlinkOrder(orders_, Maker), Maker)
                 /\ levels' = [levels EXCEPT ![TakenSide][TakenPx] =
                                 UnlinkLevel(Left, orders_[Maker])]
            ELSE /\ orders_' = [orders_ EXCEPT ![Maker].qty = @ - Take]
                 /\ levels' = [levels EXCEPT ![TakenSide][TakenPx] = Left]
                 /\ free_' = free_
         /\ best' = best /\ pc' = pc /\ taker_id' = taker_id
BY DEF TakeHead, TakenSide, TakenPx, Maker, Take, Left

(* A count is taken modulo QtyMod.                                         *)
LEMMA Modulo == \A x, y \in Int : (x - y) % QtyMod \in 0 .. QtyMod - 1
BY LobAssumption, LadderAssumption

(* In the loop of take_level the maker is the oldest order at a price.     *)
LEMMA MakerIs ==
  ASSUME IInv, pc = "take"
  PROVE  /\ taker_id \in Ids /\ orders_[taker_id] \in Order
         /\ TakenSide \in Side /\ TakenPx \in Px /\ levels[TakenSide][TakenPx] \in Level
         /\ Queues[TakenSide][TakenPx] \in Seq(Ids)
         /\ Maker = 0 <=> Queues[TakenSide][TakenPx] = << >>
         /\ Maker # 0 =>
              /\ 1 \in 1 .. Len(Queues[TakenSide][TakenPx])
              /\ Maker = Queues[TakenSide][TakenPx][1]
              /\ Maker \in Ids /\ Maker # taker_id /\ orders_[Maker] \in Order
              /\ orders_[Maker].side = TakenSide /\ orders_[Maker].px = TakenPx
              /\ orders_[Maker].qty \in 1 .. MaxQty
              /\ remaining # 0 => /\ Take \in 1 .. MaxQty /\ Take <= remaining
                                  /\ Take <= orders_[Maker].qty
                                  /\ remaining - Take \in 0 .. MaxQty
                                  /\ Left \in Level
<1>1. TypeOK /\ Control
  BY DEF IInv
<1>2. taker_id \in Ids /\ orders_[taker_id] \in Order
  BY <1>1 DEF Control, TypeOK, kInvalidId
<1>3. TakenSide \in Side /\ TakenPx \in Px
  <2>1. orders_[taker_id].side \in Side
    BY <1>2 DEF Order
  <2>2. TakenSide \in Side
    BY <2>1, Sides DEF TakenSide
  <2>3. QED
    BY <1>1, <2>2 DEF Control, TakenPx, TakenSide
<1>4. levels[TakenSide][TakenPx] \in Level /\ remaining \in 0 .. MaxQty
  BY <1>1, <1>3 DEF TypeOK
<1> DEFINE f == Queues[TakenSide][TakenPx]
<1>5. /\ f \in Seq(Ids)
      /\ Maker = 0 <=> f = << >>
      /\ f # << >> => /\ 1 \in 1 .. Len(f) /\ f[1] = Maker
                      /\ f[1] \in Ids /\ f[1] # taker_id
                      /\ orders_[f[1]].side = TakenSide /\ orders_[f[1]].px = TakenPx
                      /\ orders_[f[1]].qty # 0
  BY <1>3, HeadIs DEF Maker
<1> HIDE DEF f
<1>6. ASSUME Maker # 0
      PROVE  orders_[Maker] \in Order /\ orders_[Maker].qty \in 1 .. MaxQty
  <2>1. orders_[Maker] \in Order /\ orders_[Maker].qty # 0
    BY <1>1, <1>5, <1>6 DEF TypeOK
  <2>2. orders_[Maker].qty \in 0 .. MaxQty
    BY <2>1 DEF Order
  <2>3. QED
    BY <2>1, <2>2
<1>7. ASSUME Maker # 0, remaining # 0
      PROVE  /\ Take \in 1 .. MaxQty /\ Take <= remaining /\ Take <= orders_[Maker].qty
             /\ remaining - Take \in 0 .. MaxQty
  BY <1>4, <1>6, <1>7, LobAssumption, LadderAssumption DEF Take
<1>8. ASSUME Maker # 0, remaining # 0
      PROVE  Left \in Level
  <2>1. Take \in Int /\ levels[TakenSide][TakenPx].qty \in Int
    BY <1>4, <1>7, <1>8, LobAssumption, LadderAssumption DEF Level
  <2>2. (levels[TakenSide][TakenPx].qty - Take) % QtyMod \in 0 .. QtyMod - 1
    BY <2>1, Modulo
  <2>3. QED
    BY <1>4, <2>2 DEF Left, Level
<1>9. QED
  BY <1>2, <1>3, <1>4, <1>5, <1>6, <1>7, <1>8 DEF f

(* The maker is filled and leaves its queue, or a part of it is left.      *)
LEMMA TakeKeeps ==
  ASSUME IInv, TakeHead
  PROVE  /\ IInv'
         /\ Queues' = IF orders_[Maker].qty = Take
                      THEN [Queues EXCEPT ![TakenSide][TakenPx] =
                              Drop(Queues[TakenSide][TakenPx], 1)]
                      ELSE Queues
<1>1. /\ pc = "take" /\ remaining # 0 /\ Maker # 0
      /\ trade' = [maker |-> Maker, taker |-> taker_id,
                   px |-> orders_[Maker].px, qty |-> Take]
      /\ remaining' = remaining - Take
      /\ IF orders_[Maker].qty = Take
         THEN /\ Release(UnlinkOrder(orders_, Maker), Maker)
              /\ levels' = [levels EXCEPT ![TakenSide][TakenPx] =
                              UnlinkLevel(Left, orders_[Maker])]
         ELSE /\ orders_' = [orders_ EXCEPT ![Maker].qty = @ - Take]
              /\ levels' = [levels EXCEPT ![TakenSide][TakenPx] = Left]
              /\ free_' = free_
      /\ best' = best /\ pc' = pc /\ taker_id' = taker_id
  BY TakeHeadIs
<1>2. /\ taker_id \in Ids /\ orders_[taker_id] \in Order
      /\ TakenSide \in Side /\ TakenPx \in Px /\ levels[TakenSide][TakenPx] \in Level
      /\ Queues[TakenSide][TakenPx] \in Seq(Ids)
      /\ 1 \in 1 .. Len(Queues[TakenSide][TakenPx])
      /\ Maker = Queues[TakenSide][TakenPx][1]
      /\ Maker \in Ids /\ Maker # taker_id /\ orders_[Maker] \in Order
      /\ orders_[Maker].side = TakenSide /\ orders_[Maker].px = TakenPx
      /\ orders_[Maker].qty \in 1 .. MaxQty
      /\ Take \in 1 .. MaxQty /\ Take <= orders_[Maker].qty
      /\ remaining - Take \in 0 .. MaxQty /\ Left \in Level
  BY <1>1, MakerIs
<1>3. TypeOK /\ Control /\ Holds(levels, orders_, free_, taker_id, Queues)
  BY HoldsQueues DEF IInv
<1>4. /\ levels \in [Side -> [Px -> Level]] /\ orders_ \in [Ids -> Order]
      /\ free_ \in Seq(Ids) /\ taker_id \in Ids \cup {0}
  BY <1>3 DEF TypeOK, kInvalidId
<1>5. Left.head = levels[TakenSide][TakenPx].head
      /\ Left.tail = levels[TakenSide][TakenPx].tail
  BY <1>2 DEF Left, Level
<1>6. trade' \in [maker : Ids, taker : Ids, px : Px, qty : 1 .. MaxQty]
  BY <1>1, <1>2
<1> DEFINE Next2 == /\ levels' \in [Side -> [Px -> Level]]
                    /\ orders_' \in [Ids -> Order] /\ free_' \in Seq(Ids)
                    /\ orders_'[taker_id].px = orders_[taker_id].px
                    /\ orders_'[taker_id].side = orders_[taker_id].side
                    /\ orders_'[taker_id].qty = orders_[taker_id].qty
<1>7. ASSUME Next2
      PROVE  Control' /\ (Len(free_') <= MaxOrders => TypeOK')
  BY <1>1, <1>2, <1>3, <1>6, <1>7 DEF Control, TypeOK
<1>8. CASE orders_[Maker].qty = Take
  <2> DEFINE q2 == [Queues EXCEPT ![TakenSide][TakenPx] =
                      Drop(Queues[TakenSide][TakenPx], 1)]
  <2>1. /\ orders_' = [UnlinkOrder(orders_, Maker) EXCEPT ![Maker] = NoOrder]
        /\ free_' = Append(free_, Maker)
        /\ levels' = [levels EXCEPT ![TakenSide][TakenPx] =
                        UnlinkLevel(Left, orders_[Maker])]
    BY <1>1, <1>8 DEF Release
  <2>2. orders_' \in [Ids -> Order] /\ Skips(orders_, orders_', Maker)
    BY <1>2, <1>4, <2>1, UnlinkOrderIs
  <2>3. levels' \in [Side -> [Px -> Level]]
        /\ NewEnds(levels, levels', orders_[Maker], TakenSide, TakenPx)
    BY <1>2, <1>4, <1>5, <2>1, UnlinkLevelIs
  <2>4. free_' \in Seq(Ids)
    BY <1>2, <1>4, <2>1, AppendProperties
  <2>5. Next2
    BY <1>2, <2>2, <2>3, <2>4 DEF Skips
  <2>6. Holds(levels', orders_', free_', taker_id, q2)
    BY <1>2, <1>3, <1>4, <2>1, <2>2, <2>3, Unlinked
  <2> HIDE DEF q2
  <2>7. Holds(levels', orders_', free_', taker_id', q2)
    BY <1>1, <2>6
  <2>8. IInv' /\ Queues' = q2
    BY <1>7, <2>5, <2>7, NewQueues
  <2>9. QED
    BY <1>8, <2>8 DEF q2
<1>9. CASE orders_[Maker].qty # Take
  <2>1. /\ orders_' = [orders_ EXCEPT ![Maker].qty = @ - Take]
        /\ free_' = free_
        /\ levels' = [levels EXCEPT ![TakenSide][TakenPx] = Left]
    BY <1>1, <1>9
  <2>2. orders_[Maker].qty - Take \in 0 .. MaxQty /\ orders_[Maker].qty - Take # 0
    <3>1. \A q, x \in 1 .. MaxQty : x <= q /\ q # x => q - x \in 0 .. MaxQty /\ q - x # 0
      BY LobAssumption, LadderAssumption
    <3>2. /\ orders_[Maker].qty \in 1 .. MaxQty /\ Take \in 1 .. MaxQty
          /\ Take <= orders_[Maker].qty /\ orders_[Maker].qty # Take
      BY <1>2, <1>9
    <3>3. QED
      BY <3>1, <3>2
  <2>3. /\ orders_' \in [Ids -> Order]
        /\ orders_'[Maker].qty = orders_[Maker].qty - Take
        /\ orders_'[Maker].prev = orders_[Maker].prev
        /\ orders_'[Maker].next = orders_[Maker].next
        /\ orders_'[Maker].side = orders_[Maker].side
        /\ orders_'[Maker].px = orders_[Maker].px
        /\ \A i \in Ids : i # Maker => orders_'[i] = orders_[i]
    <3>1. [orders_[Maker] EXCEPT !.qty = @ - Take] \in Order
      BY <1>2, <2>2 DEF Order
    <3>2. /\ orders_' \in [Ids -> Order]
          /\ orders_'[Maker] = [orders_[Maker] EXCEPT !.qty = @ - Take]
          /\ \A i \in Ids : i # Maker => orders_'[i] = orders_[i]
      BY <1>2, <1>4, <2>1, <3>1
    <3>3. QED
      BY <1>2, <3>2 DEF Order
  <2>4. /\ levels' \in [Side -> [Px -> Level]]
        /\ \A s \in Side, p \in Px : /\ levels'[s][p].head = levels[s][p].head
                                     /\ levels'[s][p].tail = levels[s][p].tail
    BY <1>2, <1>4, <1>5, <2>1
  <2>5. Next2
    BY <1>2, <1>4, <2>1, <2>3, <2>4
  <2>6. Holds(levels', orders_', free_, taker_id, Queues)
    <3>1. Shrinks(orders_, orders_', Maker)
      BY <2>2, <2>3 DEF Shrinks
    <3>2. SameEnds(levels, levels')
      BY <2>4 DEF SameEnds
    <3>3. Maker \in Ids /\ orders_[Maker].qty # 0 /\ Maker # taker_id /\ taker_id \in Ids
      BY <1>2
    <3>4. Holds(levels, orders_, free_, taker_id, Queues) /\ free_ \in Seq(Ids)
      BY <1>3, <1>4
    <3>5. QED
      BY <3>1, <3>2, <3>3, <3>4, Reduced
  <2>7. Holds(levels', orders_', free_', taker_id', Queues)
    BY <1>1, <2>1, <2>6
  <2>8. IInv' /\ Queues' = Queues
    BY <1>7, <2>5, <2>7, NewQueues
  <2>9. QED
    BY <1>9, <2>8
<1>10. QED
  BY <1>8, <1>9

(* Some price is the best of those that are there.                         *)
LEMMA Extreme ==
  ASSUME NEW side, NEW O, O \subseteq Px, O # {}
  PROVE  \E p \in O : \A q \in O : IF side = "Buy" THEN q <= p ELSE q >= p
<1>1. O \subseteq Nat
  BY LobAssumption, LadderAssumption DEF Px
<1>2. CASE side # "Buy"
  <2>1. PICK p \in O : \A q \in O : p <= q
    BY <1>1, Least
  <2>2. \A q \in O : q >= p
    BY <1>1, <2>1
  <2>3. QED
    BY <1>2, <2>2
<1>3. CASE side = "Buy"
  <2> DEFINE T == {MaxPx - q : q \in O}
  <2>1. T \subseteq Nat /\ T # {}
    <3>1. \A q \in O : MaxPx - q \in Nat
      BY LobAssumption, LadderAssumption DEF Px
    <3>2. PICK q \in O : TRUE
      OBVIOUS
    <3>3. MaxPx - q \in T
      BY <3>2
    <3>4. QED
      BY <3>1, <3>3
  <2>2. PICK x \in T : \A y \in T : x <= y
    BY <2>1, Least
  <2>3. PICK p \in O : x = MaxPx - p
    BY <2>2
  <2>4. ASSUME NEW q \in O
        PROVE  q <= p
    <3>1. MaxPx - q \in T
      OBVIOUS
    <3>2. x <= MaxPx - q
      BY <2>2, <3>1
    <3>3. p \in Nat /\ q \in Nat
      BY <1>1
    <3>4. QED
      BY <2>3, <3>2, <3>3, LobAssumption, LadderAssumption
  <2>5. QED
    BY <1>3, <2>4
<1>4. QED
  BY <1>2, <1>3

(* tighten finds a level of the band, or none.                             *)
LEMMA TightenTyped ==
  ASSUME NEW side \in Side, NEW lvs, NEW from
  PROVE  Tighten(side, lvs, from) \in Px \cup {0}
<1> DEFINE scan == {p \in Px : lvs[side][p].qty # 0
                                 /\ IF side = "Buy" THEN p <= from ELSE p >= from}
           Nearest(p) == \A q \in scan : IF side = "Buy" THEN q <= p ELSE q >= p
<1>1. scan \subseteq Px
  OBVIOUS
<1>2. Tighten(side, lvs, from) = IF scan = {} THEN 0 ELSE CHOOSE p \in scan : Nearest(p)
  BY DEF Tighten
<1> HIDE DEF scan
<1>3. scan # {} => \E p \in scan : Nearest(p)
  BY <1>1, Extreme
<1> HIDE DEF Nearest
<1>4. scan # {} => (CHOOSE p \in scan : Nearest(p)) \in scan
  BY <1>3
<1>5. QED
  BY <1>1, <1>2, <1>4

(* Resting writes the order, its predecessor, its level and its best       *)
(* price.                                                                  *)
LEMMA RestDef ==
  ASSUME NEW id, Rest(id), orders_[id] \in Order
  PROVE  LET s == orders_[id].side
             p == orders_[id].px
             lv == levels[s][p]
             o == [orders_[id] EXCEPT !.qty = remaining]
         IN /\ orders_' = [i \in Ids |->
                             IF i = id THEN [o EXCEPT !.prev = lv.tail, !.next = 0]
                             ELSE IF i = lv.tail THEN [orders_[i] EXCEPT !.next = id]
                             ELSE orders_[i]]
            /\ levels' = [levels EXCEPT ![s][p] =
                            [head |-> IF lv.tail = 0 THEN id ELSE lv.head,
                             tail |-> id,
                             qty  |-> (lv.qty + remaining) % QtyMod]]
            /\ best' = [best EXCEPT ![s] =
                          IF \/ @ = 0
                             \/ s = "Buy" /\ p > @
                             \/ s = "Sell" /\ p < @
                          THEN p ELSE @]
            /\ free_' = free_
<1> DEFINE o == [orders_[id] EXCEPT !.qty = remaining]
<1>1. o.side = orders_[id].side /\ o.px = orders_[id].px /\ o.qty = remaining
  BY DEF Order
<1>2. /\ orders_' = [i \in Ids |->
                       IF i = id THEN [o EXCEPT !.prev = levels[o.side][o.px].tail, !.next = 0]
                       ELSE IF i = levels[o.side][o.px].tail
                       THEN [orders_[i] EXCEPT !.next = id]
                       ELSE orders_[i]]
      /\ levels' = [levels EXCEPT ![o.side][o.px] =
                      [head |-> IF levels[o.side][o.px].tail = 0 THEN id
                                ELSE levels[o.side][o.px].head,
                       tail |-> id,
                       qty  |-> (levels[o.side][o.px].qty + o.qty) % QtyMod]]
      /\ best' = [best EXCEPT ![o.side] =
                    IF \/ @ = 0
                       \/ o.side = "Buy" /\ o.px > @
                       \/ o.side = "Sell" /\ o.px < @
                    THEN o.px ELSE @]
      /\ free_' = free_
  BY DEF Rest
<1> DEFINE s == orders_[id].side
           p == orders_[id].px
           lv == levels[s][p]
<1>3. levels[o.side][o.px] = lv
  BY <1>1
<1> HIDE DEF o, s, p, lv
<1>4. o.side = s /\ o.px = p
  BY <1>1 DEF s, p
<1>5. orders_' = [i \in Ids |-> IF i = id THEN [o EXCEPT !.prev = lv.tail, !.next = 0]
                               ELSE IF i = lv.tail THEN [orders_[i] EXCEPT !.next = id]
                               ELSE orders_[i]]
  BY <1>2, <1>3
<1>6. levels' = [levels EXCEPT ![s][p] = [head |-> IF lv.tail = 0 THEN id ELSE lv.head,
                                          tail |-> id,
                                          qty  |-> (lv.qty + remaining) % QtyMod]]
  BY <1>1, <1>2, <1>3, <1>4
<1>7. best' = [best EXCEPT ![s] = IF \/ @ = 0
                                     \/ s = "Buy" /\ p > @
                                     \/ s = "Sell" /\ p < @
                                  THEN p ELSE @]
  BY <1>2, <1>4
<1>8. QED
  BY <1>2, <1>5, <1>6, <1>7, Zenon DEF o, s, p, lv

(* match moves the best price, and nothing else.                           *)
LEMMA LeaveKeeps ==
  ASSUME IInv, LeaveLevel
  PROVE  IInv' /\ Queues' = Queues
<1>1. /\ TypeOK /\ Control /\ pc = "take" /\ pc' = "match"
      /\ best' = IF levels[TakenSide][TakenPx].qty = 0
                 THEN [best EXCEPT ![TakenSide] = Tighten(TakenSide, levels, @)]
                 ELSE best
      /\ UNCHANGED <<levels, orders_, free_, taker_id, remaining, trade>>
  BY DEF IInv, LeaveLevel, TakenSide, TakenPx
<1>2. TakenSide \in Side
  BY <1>1, MakerIs
<1>3. best' \in [Side -> Px \cup {0}]
  BY <1>1, <1>2, TightenTyped DEF TypeOK
<1>4. TypeOK' /\ Control'
  BY <1>1, <1>3 DEF TypeOK, Control, kInvalidId
<1>5. Holds(levels', orders_', free_', taker_id', Queues)
  BY <1>1, HoldsQueues
<1>6. QED
  BY <1>1, <1>4, <1>5, NewQueues DEF TypeOK

(* limit returns, and a taker with a rest is the last of its queue.        *)
LEMMA EndKeeps ==
  ASSUME IInv, EndLimit
  PROVE  /\ IInv'
         /\ taker_id \in Ids /\ orders_[taker_id].side \in Side
         /\ orders_[taker_id].px \in Px
         /\ Queues' = IF remaining = 0 THEN Queues
                      ELSE [Queues EXCEPT
                              ![orders_[taker_id].side][orders_[taker_id].px] =
                              Append(Queues[orders_[taker_id].side][orders_[taker_id].px],
                                     taker_id)]
<1>1. /\ TypeOK /\ Control /\ pc = "match"
      /\ IF remaining = 0
         THEN Release(orders_, taker_id) /\ UNCHANGED <<levels, best>>
         ELSE Rest(taker_id)
      /\ pc' = "idle" /\ taker_id' = 0 /\ remaining' = 0 /\ trade' = NoTrade
  BY DEF IInv, EndLimit, kInvalidId
<1>2. taker_id \in Ids /\ orders_[taker_id] \in Order /\ orders_[taker_id].px \in Px
  BY <1>1 DEF TypeOK, Control, kInvalidId
<1>3. orders_[taker_id].side \in Side /\ orders_[taker_id].qty \in 0 .. MaxQty
  BY <1>2 DEF Order
<1>4. /\ levels \in [Side -> [Px -> Level]] /\ orders_ \in [Ids -> Order]
      /\ best \in [Side -> Px \cup {0}]
      /\ free_ \in Seq(Ids) /\ remaining \in 0 .. MaxQty
      /\ Holds(levels, orders_, free_, taker_id, Queues)
  BY <1>1, HoldsQueues DEF TypeOK
<1>5. Control'
  BY <1>1 DEF Control, kInvalidId
<1>6. ASSUME levels' \in [Side -> [Px -> Level]], orders_' \in [Ids -> Order],
             free_' \in Seq(Ids), best' \in [Side -> Px \cup {0}],
             Len(free_') <= MaxOrders
      PROVE  TypeOK'
  BY <1>1, <1>6, LobAssumption, LadderAssumption DEF TypeOK, kInvalidId
<1>7. CASE remaining = 0
  <2>1. /\ orders_' = [orders_ EXCEPT ![taker_id] = NoOrder]
        /\ free_' = Append(free_, taker_id) /\ levels' = levels /\ best' = best
    BY <1>1, <1>7 DEF Release
  <2>2. NoOrder \in Order /\ NoOrder.qty = 0
    BY LobAssumption, LadderAssumption DEF NoOrder, Order, Side
  <2>3. /\ orders_' \in [Ids -> Order] /\ orders_'[taker_id].qty = 0
        /\ \A i \in Ids : i # taker_id => orders_'[i] = orders_[i]
    BY <1>2, <1>4, <2>1, <2>2
  <2>4. free_' \in Seq(Ids)
    BY <1>2, <1>4, <2>1, AppendProperties
  <2>5. Holds(levels', orders_', free_', 0, Queues)
    BY <1>2, <1>4, <2>1, <2>3, Returned
  <2>6. IInv' /\ Queues' = Queues
    BY <1>1, <1>4, <1>5, <1>6, <2>1, <2>3, <2>4, <2>5, NewQueues
  <2>7. QED
    BY <1>2, <1>3, <1>7, <2>6
<1>8. CASE remaining # 0
  <2> DEFINE s == orders_[taker_id].side
             p == orders_[taker_id].px
             lv == levels[s][p]
             o == [orders_[taker_id] EXCEPT !.qty = remaining]
             q2 == [Queues EXCEPT ![s][p] = Append(Queues[s][p], taker_id)]
  <2>1. /\ orders_' = [i \in Ids |->
                         IF i = taker_id THEN [o EXCEPT !.prev = lv.tail, !.next = 0]
                         ELSE IF i = lv.tail THEN [orders_[i] EXCEPT !.next = taker_id]
                         ELSE orders_[i]]
        /\ levels' = [levels EXCEPT ![s][p] =
                        [head |-> IF lv.tail = 0 THEN taker_id ELSE lv.head,
                         tail |-> taker_id,
                         qty  |-> (lv.qty + remaining) % QtyMod]]
        /\ best' = [best EXCEPT ![s] =
                      IF \/ @ = 0
                         \/ s = "Buy" /\ p > @
                         \/ s = "Sell" /\ p < @
                      THEN p ELSE @]
        /\ free_' = free_
    <3>1. Rest(taker_id)
      BY <1>1, <1>8
    <3>2. QED
      BY <1>2, <3>1, RestDef
  <2>2. s \in Side /\ p \in Px /\ lv \in Level
    BY <1>2, <1>3, <1>4
  <2>3. o \in Order /\ o.side = s /\ o.px = p /\ o.qty = remaining
    BY <1>2, <1>4 DEF Order
  <2> HIDE DEF s, p, lv, o
  <2>4. lv.head \in 0 .. MaxOrders /\ lv.tail \in 0 .. MaxOrders /\ lv.qty \in Int
        /\ taker_id \in 0 .. MaxOrders
    BY <1>2, <2>2, LobAssumption, LadderAssumption DEF Level, Ids
  <2>5. [o EXCEPT !.prev = lv.tail, !.next = 0] \in Order
    <3>1. 0 \in 0 .. MaxOrders /\ lv.tail \in 0 .. MaxOrders
      BY <2>4, LobAssumption, LadderAssumption
    <3>2. QED
      BY <2>3, <3>1 DEF Order
  <2>6. \A i \in Ids : [orders_[i] EXCEPT !.next = taker_id] \in Order
    BY <1>4, <2>4 DEF Order
  <2>7. orders_' \in [Ids -> Order]
    BY <1>4, <2>1, <2>5, <2>6
  <2>8. orders_'[taker_id] = [o EXCEPT !.prev = lv.tail, !.next = 0]
    BY <1>2, <2>1
  <2>9. ASSUME NEW i \in Ids, i # taker_id
        PROVE  /\ orders_'[i].next = IF i = lv.tail THEN taker_id ELSE orders_[i].next
               /\ orders_'[i].prev = orders_[i].prev
               /\ orders_'[i].side = orders_[i].side /\ orders_'[i].px = orders_[i].px
               /\ orders_'[i].qty = orders_[i].qty
    <3>1. orders_[i] \in Order
      BY <1>4
    <3>2. orders_'[i] = IF i = lv.tail THEN [orders_[i] EXCEPT !.next = taker_id]
                        ELSE orders_[i]
      BY <2>1, <2>9
    <3>3. QED
      BY <3>1, <3>2 DEF Order
  <2>10. Joins(orders_, orders_', taker_id, lv.tail, s, p)
    <3>1. /\ orders_'[taker_id].prev = lv.tail /\ orders_'[taker_id].next = 0
          /\ orders_'[taker_id].side = s /\ orders_'[taker_id].px = p
          /\ orders_'[taker_id].qty # 0
      BY <1>8, <2>3, <2>8 DEF Order
    <3>2. QED
      BY <2>9, <3>1 DEF Joins
  <2>11. (lv.qty + remaining) % QtyMod \in 0 .. QtyMod - 1
    <3>1. lv.qty + remaining \in Int
      BY <1>4, <2>4
    <3>2. QED
      BY <3>1, LobAssumption, LadderAssumption
  <2>12. levels' \in [Side -> [Px -> Level]] /\ NewTail(levels, levels', taker_id, s, p)
    <3> DEFINE l == [head |-> IF lv.tail = 0 THEN taker_id ELSE lv.head,
                     tail |-> taker_id, qty  |-> (lv.qty + remaining) % QtyMod]
    <3>1. /\ l \in Level /\ l.tail = taker_id
          /\ l.head = IF lv.tail = 0 THEN taker_id ELSE lv.head
      BY <2>4, <2>11 DEF Level
    <3>2. levels' = [levels EXCEPT ![s][p] = l]
      BY <2>1
    <3> HIDE DEF l
    <3>3. /\ levels' \in [Side -> [Px -> Level]] /\ levels'[s][p] = l
          /\ \A r \in Side, x \in Px : (r # s \/ x # p) => levels'[r][x] = levels[r][x]
      BY <1>4, <2>2, <3>1, <3>2
    <3>4. QED
      BY <3>1, <3>3 DEF NewTail, lv
  <2>13. best' \in [Side -> Px \cup {0}]
    BY <1>4, <2>1, <2>2
  <2>14. Holds(levels', orders_', free_', 0, q2)
    <3>1. Joins(orders_, orders_', taker_id, levels[s][p].tail, s, p)
      BY <2>10 DEF lv
    <3>2. free_' = free_
      BY <2>1
    <3>3. QED
      BY <1>2, <1>4, <2>2, <2>12, <3>1, <3>2, Rested
  <2> HIDE DEF q2
  <2>15. free_' \in Seq(Ids)
    BY <1>4, <2>1
  <2>16. IInv' /\ Queues' = q2
    BY <1>1, <1>5, <1>6, <2>7, <2>12, <2>13, <2>14, <2>15, NewQueues
  <2>17. QED
    BY <1>2, <1>3, <1>8, <2>16 DEF q2, s, p
<1>9. QED
  BY <1>7, <1>8

(* cancel unlinks an order that rests.                                     *)
LEMMA CancelKeeps ==
  ASSUME IInv, NEW id \in Ids, Cancel(id)
  PROVE  /\ IInv'
         /\ orders_[id].side \in Side /\ orders_[id].px \in Px
         /\ \E k \in 1 .. Len(Queues[orders_[id].side][orders_[id].px]) :
              /\ Queues[orders_[id].side][orders_[id].px][k] = id
              /\ Queues' = [Queues EXCEPT ![orders_[id].side][orders_[id].px] =
                              Drop(Queues[orders_[id].side][orders_[id].px], k)]
<1> DEFINE s == orders_[id].side
           p == orders_[id].px
           lv == [levels[s][p] EXCEPT !.qty = (@ - orders_[id].qty) % QtyMod]
<1>1. /\ TypeOK /\ Control /\ pc = "idle" /\ orders_[id].qty # 0
      /\ levels' = [levels EXCEPT ![s][p] = UnlinkLevel(lv, orders_[id])]
      /\ orders_' = [UnlinkOrder(orders_, id) EXCEPT ![id] = NoOrder]
      /\ free_' = Append(free_, id)
      /\ best' = IF lv.qty = 0 /\ p = best[s]
                 THEN [best EXCEPT ![s] = Tighten(s, levels', @)]
                 ELSE best
      /\ UNCHANGED <<pc, taker_id, remaining, trade>>
  BY DEF IInv, Cancel, Release
<1>2. /\ levels \in [Side -> [Px -> Level]] /\ orders_ \in [Ids -> Order]
      /\ free_ \in Seq(Ids) /\ taker_id = 0 /\ orders_[id] \in Order
      /\ Holds(levels, orders_, free_, taker_id, Queues)
  BY <1>1, HoldsQueues DEF TypeOK, Control, kInvalidId
<1>3. PICK r \in Side, x \in Px : \E k \in 1 .. Len(Queues[r][x]) : Queues[r][x][k] = id
  <2>1. \A k \in 1 .. Len(free_) : free_[k] # id
    BY <1>1, <1>2 DEF Holds, Placed
  <2>2. id # 0
    BY LobAssumption, LadderAssumption DEF Ids
  <2>3. QED
    BY <1>2, <2>1, <2>2, Zenon DEF Holds, Placed
<1>4. PICK k \in 1 .. Len(Queues[r][x]) : Queues[r][x][k] = id
  BY <1>3
<1>5. s = r /\ p = x
  BY <1>2, <1>4, Queued
<1>6. s \in Side /\ p \in Px /\ k \in 1 .. Len(Queues[s][p]) /\ Queues[s][p][k] = id
  BY <1>4, <1>5
<1>7. lv \in Level /\ lv.head = levels[s][p].head /\ lv.tail = levels[s][p].tail
  <2>1. levels[s][p] \in Level
    BY <1>2, <1>6
  <2>2. levels[s][p].qty \in Int /\ orders_[id].qty \in Int
    BY <1>2, <2>1 DEF Level, Order
  <2>3. (levels[s][p].qty - orders_[id].qty) % QtyMod \in 0 .. QtyMod - 1
    BY <2>2, Modulo
  <2>4. QED
    BY <2>1, <2>3 DEF Level
<1> HIDE DEF s, p, lv
<1>8. /\ orders_' \in [Ids -> Order] /\ Skips(orders_, orders_', id)
  BY <1>1, <1>2, UnlinkOrderIs
<1>9. levels' \in [Side -> [Px -> Level]] /\ NewEnds(levels, levels', orders_[id], s, p)
  BY <1>1, <1>2, <1>6, <1>7, UnlinkLevelIs
<1>10. free_' \in Seq(Ids)
  BY <1>1, <1>2, AppendProperties
<1>11. best' \in [Side -> Px \cup {0}]
  <2>1. best \in [Side -> Px \cup {0}]
    BY <1>1 DEF TypeOK
  <2>2. Tighten(s, levels', best[s]) \in Px \cup {0}
    BY <1>6, TightenTyped
  <2>3. QED
    BY <1>1, <1>6, <2>1, <2>2
<1>12. Control' /\ (Len(free_') <= MaxOrders => TypeOK')
  BY <1>1, <1>2, <1>8, <1>9, <1>10, <1>11 DEF Control, TypeOK, kInvalidId
<1> DEFINE q2 == [Queues EXCEPT ![s][p] = Drop(Queues[s][p], k)]
<1>13. Holds(levels', orders_', free_', taker_id', q2)
  <2>1. Holds(levels', orders_', Append(free_, id), taker_id, q2)
    <3>1. taker_id \in Ids \cup {0} /\ free_ \in Seq(Ids)
      BY <1>2
    <3>2. /\ Skips(orders_, orders_', Queues[s][p][k])
          /\ NewEnds(levels, levels', orders_[Queues[s][p][k]], s, p)
          /\ Append(free_, id) = Append(free_, Queues[s][p][k])
      BY <1>6, <1>8, <1>9
    <3>3. QED
      BY <1>2, <1>6, <3>1, <3>2, Unlinked
  <2> HIDE DEF q2
  <2>2. QED
    BY <1>1, <2>1
<1> HIDE DEF q2
<1>14. IInv' /\ Queues' = q2
  BY <1>8, <1>9, <1>10, <1>12, <1>13, NewQueues
<1>15. QED
  BY <1>6, <1>14 DEF q2, s, p

(* A new book is empty, with every slot free.                              *)
LEMMA InitHolds ==
  ASSUME Init
  PROVE  IInv
<1> DEFINE q == [s \in Side |-> [p \in Px |-> << >>]]
<1>1. /\ levels \in [Side -> [Px -> Level]]
      /\ \A s \in Side, p \in Px : levels[s][p] = NoLevel
      /\ orders_ \in [Ids -> Order] /\ \A i \in Ids : orders_[i] = NoOrder
      /\ best \in [Side -> Px \cup {0}]
  BY LobAssumption, LadderAssumption DEF Init, NoLevel, NoOrder, Level, Order, Side
<1>2. free_ = [i \in 1 .. MaxOrders |-> MaxOrders - i + 1]
      /\ pc = "idle" /\ taker_id = 0 /\ remaining = 0 /\ trade = NoTrade
  BY DEF Init, Ids, kInvalidId
<1>3. free_ \in Seq(Ids) /\ Len(free_) = MaxOrders
  <2>1. \A i \in 1 .. MaxOrders : MaxOrders - i + 1 \in Ids
    BY LobAssumption, LadderAssumption DEF Ids
  <2>2. MaxOrders \in Nat
    BY LobAssumption, LadderAssumption
  <2>3. QED
    BY <1>2, <2>1, <2>2, IsASeq, LenProperties
<1>4. TypeOK /\ Control
  BY <1>1, <1>2, <1>3, LobAssumption, LadderAssumption DEF TypeOK, Control, kInvalidId
<1>5. /\ q \in [Side -> [Px -> Seq(Ids)]]
      /\ \A s \in Side, p \in Px : q[s][p] = << >>
  <2>1. << >> \in Seq(Ids)
    BY EmptySeq
  <2>2. QED
    BY <2>1
<1> HIDE DEF q
<1>6. \A s \in Side, p \in Px : Linked(q[s][p], levels[s][p], orders_, s, p)
  <2>1. TAKE s \in Side, p \in Px
  <2>2. /\ q[s][p] = << >> /\ levels[s][p] = NoLevel
        /\ NoLevel.head = 0 /\ NoLevel.tail = 0
    BY <1>1, <1>5 DEF NoLevel
  <2>3. QED
    BY <2>2 DEF Linked
<1>7. Placed(q, orders_, free_, taker_id)
  <2>1. OneToOne(free_)
    BY <1>2, <1>3, LobAssumption, LadderAssumption DEF OneToOne
  <2>2. \A k \in 1 .. Len(free_) : orders_[free_[k]].qty = 0
    <3>1. TAKE k \in 1 .. Len(free_)
    <3>2. free_[k] \in Ids /\ NoOrder.qty = 0
      BY <1>3 DEF NoOrder
    <3>3. QED
      BY <1>1, <3>2
  <2>3. \A s \in Side, p \in Px :
          OneToOne(q[s][p]) /\ \A k \in 1 .. Len(q[s][p]) : q[s][p][k] # taker_id
    BY <1>5 DEF OneToOne
  <2>4. \A i \in Ids : \E k \in 1 .. Len(free_) : free_[k] = i
    <3>1. TAKE i \in Ids
    <3>2. MaxOrders - i + 1 \in 1 .. MaxOrders
          /\ MaxOrders - (MaxOrders - i + 1) + 1 = i
      BY LobAssumption, LadderAssumption DEF Ids
    <3>3. free_[MaxOrders - i + 1] = i
      BY <1>2, <3>2
    <3>4. QED
      BY <1>3, <3>2, <3>3
  <2>5. QED
    BY <1>2, <1>5, <2>1, <2>2, <2>3, <2>4 DEF Placed
<1>8. Holds(levels, orders_, free_, taker_id, q)
  BY <1>6, <1>7 DEF Holds
<1>9. \A s \in Side, p \in Px : Fifo(s, p) = q[s][p]
  BY <1>1, <1>8, QueuesAre DEF Fifo
<1>10. Queues = q
  <2>1. Queues = [s \in Side |-> [p \in Px |-> q[s][p]]]
    BY <1>9 DEF Queues
  <2>2. QED
    BY <1>5, <2>1
<1>11. QED
  BY <1>4, <1>6, <1>7, <1>9, <1>10 DEF IInv, ListsLinked

(* Every call keeps the invariant: the book holds queues, and each of its  *)
(* slots is on the free stack, in one queue, or matched.                   *)
LEMMA BookKeeps == IInv /\ [Next]_vars => IInv'
<1>1. SUFFICES ASSUME IInv, [Next]_vars
      PROVE  IInv'
  OBVIOUS
<1>2. CASE \E side \in Side, px \in Px, qty \in 1 .. MaxQty : Limit(side, px, qty)
  BY <1>1, <1>2, LimitKeeps
<1>3. CASE EnterLevel
  BY <1>1, <1>3, EnterKeeps
<1>4. CASE TakeHead
  BY <1>1, <1>4, TakeKeeps
<1>5. CASE LeaveLevel
  BY <1>1, <1>5, LeaveKeeps
<1>6. CASE EndLimit
  BY <1>1, <1>6, EndKeeps
<1>7. CASE \E id \in Ids : Cancel(id)
  BY <1>1, <1>7, CancelKeeps
<1>8. CASE UNCHANGED vars
  BY <1>1, <1>8 DEF vars, IInv, TypeOK, Control, ListsLinked, Queues, Fifo
<1>9. QED
  BY <1>1, <1>2, <1>3, <1>4, <1>5, <1>6, <1>7, <1>8 DEF Next

(* So it always holds.                                                    *)
THEOREM BookInvariant == Spec => []IInv
BY InitHolds, BookKeeps, PTL DEF Spec

(* The types of the book's state.                                          *)
THEOREM BookTypeOK == Spec => []TypeOK
<1>1. IInv => TypeOK
  BY DEF IInv
<1>2. QED
  BY <1>1, BookInvariant, PTL

(* Every level is a doubly linked list from head to tail.                  *)
THEOREM LevelsAreLists == Spec => []ListsLinked
<1>1. IInv => ListsLinked
  BY DEF IInv
<1>2. QED
  BY <1>1, BookInvariant, PTL

(* No slot is leaked, and none is in two places: a free slot is not in a   *)
(* queue, an order is in one queue and once, and is not the taker.         *)
THEOREM SlotsInOnePlace == Spec => []SlotsPartitioned
<1>1. ASSUME IInv
      PROVE  SlotsPartitioned
  <2>1. SUFFICES ASSUME NEW id \in Ids
        PROVE  Cardinality({k \in DOMAIN free_ : free_[k] = id})
               + Cardinality({x \in Side \X Px \X Ids :
                                x[3] \in DOMAIN Fifo(x[1], x[2])
                                /\ Fifo(x[1], x[2])[x[3]] = id})
               + (IF taker_id = id THEN 1 ELSE 0) = 1
    BY DEF SlotsPartitioned
  <2> DEFINE F == {k \in DOMAIN free_ : free_[k] = id}
             R == {x \in Side \X Px \X Ids :
                     x[3] \in DOMAIN Fifo(x[1], x[2]) /\ Fifo(x[1], x[2])[x[3]] = id}
  <2>2. Holds(levels, orders_, free_, taker_id, Queues)
    BY <1>1, HoldsQueues
  <2>3. \A s \in Side, p \in Px :
          /\ Fifo(s, p) = Queues[s][p] /\ Queues[s][p] \in Seq(Ids)
          /\ OneToOne(Queues[s][p])
          /\ \A k \in 1 .. Len(Queues[s][p]) : Queues[s][p][k] # taker_id
    BY <2>2 DEF Queues, Holds, Placed
  <2>4. \A s \in Side, p \in Px :
          /\ DOMAIN Fifo(s, p) = 1 .. Len(Queues[s][p])
          /\ 1 .. Len(Queues[s][p]) \subseteq Ids
    <3>1. TAKE s \in Side, p \in Px
    <3>2. Len(Queues[s][p]) \in Nat /\ Len(Queues[s][p]) <= MaxOrders
          /\ DOMAIN Queues[s][p] = 1 .. Len(Queues[s][p])
      BY <2>3, ShortLists, LenProperties
    <3>3. QED
      BY <2>3, <3>2, LobAssumption, LadderAssumption DEF Ids
  <2>5. /\ free_ \in Seq(Ids) /\ OneToOne(free_) /\ DOMAIN free_ = 1 .. Len(free_)
        /\ \A k \in 1 .. Len(free_) : orders_[free_[k]].qty = 0
        /\ taker_id # 0 => orders_[taker_id].qty # 0
    BY <1>1, <2>2, LenProperties DEF IInv, TypeOK, Holds, Placed
  <2>6. id # 0
    BY LobAssumption, LadderAssumption DEF Ids
  <2>7. \A x \in R : /\ x[1] \in Side /\ x[2] \in Px /\ x = <<x[1], x[2], x[3]>>
                     /\ x[3] \in 1 .. Len(Queues[x[1]][x[2]])
                     /\ Queues[x[1]][x[2]][x[3]] = id
                     /\ orders_[id].side = x[1] /\ orders_[id].px = x[2]
                     /\ orders_[id].qty # 0 /\ id # taker_id
                     /\ \A j \in 1 .. Len(free_) : free_[j] # id
    <3>1. TAKE x \in R
    <3>2. /\ x[1] \in Side /\ x[2] \in Px /\ x = <<x[1], x[2], x[3]>>
          /\ x[3] \in DOMAIN Fifo(x[1], x[2]) /\ Fifo(x[1], x[2])[x[3]] = id
      OBVIOUS
    <3>3. x[3] \in 1 .. Len(Queues[x[1]][x[2]]) /\ Queues[x[1]][x[2]][x[3]] = id
      BY <2>3, <2>4, <3>2
    <3>4. QED
      BY <2>2, <3>2, <3>3, Queued
  <2>8. \A s \in Side, p \in Px : \A k \in 1 .. Len(Queues[s][p]) :
          Queues[s][p][k] = id => <<s, p, k>> \in R
    <3>1. TAKE s \in Side, p \in Px
    <3>2. TAKE k \in 1 .. Len(Queues[s][p])
    <3>3. HAVE Queues[s][p][k] = id
    <3>4. k \in DOMAIN Fifo(s, p) /\ k \in Ids /\ Fifo(s, p)[k] = id
      BY <2>3, <2>4, <3>3
    <3>5. QED
      BY <3>4
  <2>9. \A k \in F : k \in 1 .. Len(free_) /\ free_[k] = id
    BY <2>5
  <2>10. \A k \in 1 .. Len(free_) : free_[k] = id => k \in F
    BY <2>5
  <2> HIDE DEF F, R
  <2>11. Cardinality({}) = 0 /\ \A y : Cardinality({y}) = 1
    BY FS_EmptySet, FS_Singleton
  <2>12. CASE taker_id = id
    <3>1. F = {} /\ R = {}
      BY <2>5, <2>6, <2>7, <2>9, <2>12
    <3>2. Cardinality(F) = 0 /\ Cardinality(R) = 0
      BY <2>11, <3>1
    <3>3. QED
      BY <2>12, <3>2 DEF F, R
  <2>13. ASSUME NEW k \in 1 .. Len(free_), free_[k] = id
         PROVE  Cardinality(F) + Cardinality(R) + (IF taker_id = id THEN 1 ELSE 0) = 1
    <3>1. taker_id # id
      BY <2>5, <2>6, <2>13
    <3>2. R = {}
      BY <2>7, <2>13
    <3>3. F = {k}
      BY <2>5, <2>9, <2>10, <2>13 DEF OneToOne
    <3>4. Cardinality(F) = 1 /\ Cardinality(R) = 0
      BY <2>11, <3>2, <3>3
    <3>5. QED
      BY <3>1, <3>4
  <2>14. ASSUME NEW s \in Side, NEW p \in Px, NEW k \in 1 .. Len(Queues[s][p]),
                Queues[s][p][k] = id
         PROVE  Cardinality(F) + Cardinality(R) + (IF taker_id = id THEN 1 ELSE 0) = 1
    <3>1. <<s, p, k>> \in R
      BY <2>8, <2>14
    <3>2. orders_[id].side = s /\ orders_[id].px = p /\ id # taker_id
          /\ \A j \in 1 .. Len(free_) : free_[j] # id
      BY <2>2, <2>14, Queued
    <3>3. \A x \in R : x = <<s, p, k>>
      <4>1. TAKE x \in R
      <4>2. x[1] = s /\ x[2] = p
        BY <2>7, <3>2
      <4>3. x[3] \in 1 .. Len(Queues[s][p]) /\ Queues[s][p][x[3]] = id
        BY <2>7, <4>2
      <4>4. x[3] = k
        BY <2>3, <2>14, <4>3 DEF OneToOne
      <4>5. x = <<x[1], x[2], x[3]>>
        BY <2>7
      <4>6. QED
        BY <4>2, <4>4, <4>5
    <3>4. R = {<<s, p, k>>} /\ F = {}
      BY <2>9, <3>1, <3>2, <3>3
    <3>5. Cardinality(F) = 0 /\ Cardinality(R) = 1
      BY <2>11, <3>4
    <3>6. QED
      BY <3>2, <3>5
  <2>15. \/ \E k \in 1 .. Len(free_) : free_[k] = id
         \/ taker_id = id
         \/ \E s \in Side, p \in Px :
              \E k \in 1 .. Len(Queues[s][p]) : Queues[s][p][k] = id
    BY <2>2, Zenon DEF Holds, Placed
  <2>16. QED
    BY <2>12, <2>13, <2>14, <2>15 DEF F, R
<1>2. QED
  BY <1>1, BookInvariant, PTL
-----------------------------------------------------------------------------
(* What is said of orders os below is said of any that have quantities,    *)
(* the ladder's and the tree's.                                            *)
Counted(os, I) == \A i \in I : os[i].qty \in 0 .. MaxQty

LEMMA OrdersCounted ==
  ASSUME NEW os \in [Ids -> Order]
  PROVE  Counted(os, Ids)
BY DEF Counted, Order

(* S sums up the quantities of f, from none to all.                        *)
Sum(S, f, os) ==
  S = [k \in 0 .. Len(f) |-> IF k = 0 THEN 0 ELSE S[k - 1] + os[f[k]].qty]

(* There are such sums, and they are natural numbers.                      *)
LEMMA AnySumExists ==
  ASSUME NEW I, NEW f \in Seq(I), NEW os, Counted(os, I)
  PROVE  \E S \in [0 .. Len(f) -> Nat] : Sum(S, f, os)
<1> DEFINE n == Len(f)
           Up(m) == \E S \in [0 .. m -> Nat] :
                      S[0] = 0 /\ \A k \in 1 .. m : S[k] = S[k - 1] + os[f[k]].qty
           bad == {m \in 0 .. n : ~ Up(m)}
<1>1. n \in Nat /\ \A k \in 1 .. n : os[f[k]].qty \in Nat
  <2>1. n \in Nat /\ \A k \in 1 .. n : f[k] \in I
    BY LenProperties, ElementOfSeq
  <2>2. \A i \in I : os[i].qty \in Nat
    BY LobAssumption DEF Counted
  <2>3. QED
    BY <2>1, <2>2
<1> HIDE DEF n
<1>2. Up(0)
  <2> DEFINE S == [k \in 0 .. 0 |-> 0]
  <2>1. S \in [0 .. 0 -> Nat] /\ S[0] = 0 /\ \A k \in 1 .. 0 : S[k] = S[k - 1] + os[f[k]].qty
    OBVIOUS
  <2> HIDE DEF S
  <2>2. QED
    BY <2>1
<1>3. ASSUME NEW m \in 1 .. n, Up(m - 1)
      PROVE  Up(m)
  <2>1. PICK S \in [0 .. m - 1 -> Nat] :
          S[0] = 0 /\ \A k \in 1 .. m - 1 : S[k] = S[k - 1] + os[f[k]].qty
    BY <1>3
  <2>2. m \in Nat /\ m >= 1 /\ m - 1 \in 0 .. m - 1 /\ os[f[m]].qty \in Nat
    BY <1>1
  <2> DEFINE S2 == [k \in 0 .. m |-> IF k = m THEN S[m - 1] + os[f[m]].qty ELSE S[k]]
  <2>3. S[m - 1] + os[f[m]].qty \in Nat
    BY <2>1, <2>2
  <2>4. \A k \in 0 .. m : k # m => k \in 0 .. m - 1
    BY <2>2
  <2>5. S2 \in [0 .. m -> Nat]
    BY <2>1, <2>3, <2>4
  <2>6. /\ S2[m] = S[m - 1] + os[f[m]].qty
        /\ \A k \in 0 .. m - 1 : S2[k] = S[k]
    BY <2>2
  <2> HIDE DEF S2
  <2>7. S2[0] = 0
    BY <2>1, <2>2, <2>6
  <2>8. ASSUME NEW k \in 1 .. m
        PROVE  S2[k] = S2[k - 1] + os[f[k]].qty
    <3>1. k - 1 \in 0 .. m - 1
      BY <2>2
    <3>2. CASE k = m
      BY <2>6, <3>1, <3>2
    <3>3. CASE k # m
      <4>1. k \in 1 .. m - 1 /\ k \in 0 .. m - 1
        BY <2>2, <3>3
      <4>2. QED
        BY <2>1, <2>6, <3>1, <4>1
    <3>4. QED
      BY <3>2, <3>3
  <2>9. QED
    BY <2>5, <2>7, <2>8
<1> HIDE DEF Up
<1>4. bad = {}
  <2>1. SUFFICES ASSUME bad # {}
        PROVE  FALSE
    OBVIOUS
  <2>2. bad \subseteq Nat
    BY <1>1
  <2>3. PICK m \in bad : \A j \in bad : m <= j
    BY <2>1, <2>2, Least
  <2>4. m \in 0 .. n /\ ~ Up(m) /\ m # 0
    BY <1>2
  <2>5. m \in 1 .. n /\ m - 1 \in 0 .. n /\ m - 1 \notin bad
    BY <1>1, <2>2, <2>3, <2>4
  <2>6. QED
    BY <1>3, <2>4, <2>5
<1>5. Up(n)
  BY <1>1, <1>4
<1>6. PICK S \in [0 .. n -> Nat] :
        S[0] = 0 /\ \A k \in 1 .. n : S[k] = S[k - 1] + os[f[k]].qty
  BY <1>5 DEF Up
<1>7. ASSUME NEW k \in 0 .. n
      PROVE  S[k] = IF k = 0 THEN 0 ELSE S[k - 1] + os[f[k]].qty
  <2>1. k # 0 => k \in 1 .. n
    BY <1>1
  <2>2. QED
    BY <1>6, <2>1
<1>8. S = [k \in 0 .. n |-> IF k = 0 THEN 0 ELSE S[k - 1] + os[f[k]].qty]
  BY <1>6, <1>7
<1>9. QED
  BY <1>6, <1>8, Zenon DEF Sum, n

(* Sums sums up.                                                           *)
LEMMA AnySums ==
  ASSUME NEW I, NEW f \in Seq(I), NEW os, Counted(os, I)
  PROVE  /\ Len(f) \in Nat
         /\ Sums(f, os)[0] = 0
         /\ \A k \in 1 .. Len(f) :
              /\ Sums(f, os)[k] = Sums(f, os)[k - 1] + os[f[k]].qty
              /\ os[f[k]].qty \in 0 .. MaxQty
         /\ \A k \in 0 .. Len(f) : Sums(f, os)[k] \in Nat
<1>1. Sums(f, os) = CHOOSE S : Sum(S, f, os)
  BY DEF Sums, Sum
<1>2. Sum(Sums(f, os), f, os)
  BY <1>1, AnySumExists
<1> DEFINE n == Len(f)
           S == Sums(f, os)
<1>3. n \in Nat /\ \A k \in 1 .. n : f[k] \in I
  BY LenProperties, ElementOfSeq
<1>4. \A i \in I : os[i].qty \in 0 .. MaxQty
  BY DEF Counted
<1>5. \A k \in 1 .. n : os[f[k]].qty \in 0 .. MaxQty
  BY <1>3, <1>4
<1>6. S = [k \in 0 .. n |-> IF k = 0 THEN 0 ELSE S[k - 1] + os[f[k]].qty]
  BY <1>2, Zenon DEF Sum
<1> HIDE DEF n, S
<1>7. S[0] = 0
  BY <1>3, <1>6
<1>8. ASSUME NEW k \in 1 .. n
      PROVE  S[k] = S[k - 1] + os[f[k]].qty
  <2>1. k \in 0 .. n /\ k # 0
    BY <1>3
  <2>2. QED
    BY <1>6, <2>1
<1> DEFINE bad == {k \in 0 .. n : S[k] \notin Nat}
<1>9. bad = {}
  <2>1. SUFFICES ASSUME bad # {}
        PROVE  FALSE
    OBVIOUS
  <2>2. bad \subseteq Nat
    BY <1>3
  <2>3. PICK k \in bad : \A j \in bad : k <= j
    BY <2>1, <2>2, Least
  <2>4. k \in 0 .. n /\ S[k] \notin Nat /\ k # 0
    BY <1>7
  <2>5. k \in 1 .. n /\ k - 1 \in 0 .. n /\ k - 1 \notin bad
    BY <1>3, <2>2, <2>3, <2>4
  <2>6. S[k - 1] \in Nat /\ os[f[k]].qty \in Nat
    BY <1>5, <2>5, LobAssumption, LadderAssumption
  <2>7. QED
    BY <1>8, <2>4, <2>5, <2>6
<1>10. QED
  BY <1>3, <1>5, <1>7, <1>8, <1>9 DEF n, S

LEMMA SumsAre ==
  ASSUME NEW f \in Seq(Ids), NEW os \in [Ids -> Order]
  PROVE  /\ Len(f) \in Nat
         /\ Sums(f, os)[0] = 0
         /\ \A k \in 1 .. Len(f) :
              /\ Sums(f, os)[k] = Sums(f, os)[k - 1] + os[f[k]].qty
              /\ os[f[k]].qty \in 0 .. MaxQty
         /\ \A k \in 0 .. Len(f) : Sums(f, os)[k] \in Nat
BY OrdersCounted, AnySums

(* Whatever sums up ends in the total.                                     *)
LEMMA AnyTotalIs ==
  ASSUME NEW I, NEW f \in Seq(I), NEW os, Counted(os, I), NEW S,
         S[0] = 0, \A k \in 1 .. Len(f) : S[k] = S[k - 1] + os[f[k]].qty
  PROVE  Total(f, os) = S[Len(f)]
<1> DEFINE n == Len(f)
           W == Sums(f, os)
           bad == {k \in 0 .. n : W[k] # S[k]}
<1>1. n \in Nat /\ W[0] = 0 /\ \A k \in 1 .. n : W[k] = W[k - 1] + os[f[k]].qty
  BY AnySums
<1>2. \A k \in 1 .. n : S[k] = S[k - 1] + os[f[k]].qty
  OBVIOUS
<1> HIDE DEF n, W
<1>3. bad = {}
  <2>1. SUFFICES ASSUME bad # {}
        PROVE  FALSE
    OBVIOUS
  <2>2. bad \subseteq Nat
    BY <1>1
  <2>3. PICK k \in bad : \A j \in bad : k <= j
    BY <2>1, <2>2, Least
  <2>4. k \in 0 .. n /\ W[k] # S[k] /\ k # 0
    BY <1>1
  <2>5. k \in 1 .. n /\ k - 1 \in 0 .. n /\ k - 1 \notin bad
    BY <1>1, <2>2, <2>3, <2>4
  <2>6. W[k - 1] = S[k - 1]
    BY <2>5
  <2>7. QED
    BY <1>1, <1>2, <2>4, <2>5, <2>6
<1>4. n \in 0 .. n
  BY <1>1
<1>5. QED
  BY <1>3, <1>4 DEF Total, n, W

LEMMA TotalIs ==
  ASSUME NEW f \in Seq(Ids), NEW os \in [Ids -> Order], NEW S,
         S[0] = 0, \A k \in 1 .. Len(f) : S[k] = S[k - 1] + os[f[k]].qty
  PROVE  Total(f, os) = S[Len(f)]
BY OrdersCounted, AnyTotalIs

(* Orders of a quantity between 1 and MaxQty add up to no less than their  *)
(* number, and no more than MaxQty for each.                               *)
LEMMA TotalBounds ==
  ASSUME NEW f \in Seq(Ids), NEW os \in [Ids -> Order],
         \A k \in 1 .. Len(f) : os[f[k]].qty # 0
  PROVE  Total(f, os) \in Nat /\ Len(f) <= Total(f, os) /\ Total(f, os) <= Len(f) * MaxQty
<1> DEFINE n == Len(f)
           S == Sums(f, os)
           bad == {k \in 0 .. n : ~ (k <= S[k] /\ S[k] <= k * MaxQty)}
<1>1. /\ n \in Nat /\ S[0] = 0 /\ \A k \in 1 .. n : S[k] = S[k - 1] + os[f[k]].qty
      /\ \A k \in 0 .. n : S[k] \in Nat
      /\ \A k \in 1 .. n : os[f[k]].qty \in 1 .. MaxQty
  <2>1. /\ n \in Nat /\ S[0] = 0 /\ \A k \in 1 .. n : S[k] = S[k - 1] + os[f[k]].qty
        /\ \A k \in 0 .. n : S[k] \in Nat
        /\ \A k \in 1 .. n : os[f[k]].qty \in 0 .. MaxQty
    BY SumsAre
  <2>2. \A k \in 1 .. n : os[f[k]].qty # 0
    OBVIOUS
  <2>3. QED
    BY <2>1, <2>2
<1> HIDE DEF n, S
<1>2. bad = {}
  <2>1. SUFFICES ASSUME bad # {}
        PROVE  FALSE
    OBVIOUS
  <2>2. bad \subseteq Nat
    BY <1>1
  <2>3. PICK k \in bad : \A j \in bad : k <= j
    BY <2>1, <2>2, Least
  <2>4. k \in 0 .. n /\ ~ (k <= S[k] /\ S[k] <= k * MaxQty)
    OBVIOUS
  <2>5. k # 0
    BY <1>1, <2>4, LobAssumption, LadderAssumption
  <2>6. k \in 1 .. n /\ k - 1 \in 0 .. n /\ k - 1 \notin bad
    BY <1>1, <2>2, <2>3, <2>4, <2>5
  <2>7. k - 1 <= S[k - 1] /\ S[k - 1] <= (k - 1) * MaxQty
    BY <2>6
  <2>8. /\ S[k] = S[k - 1] + os[f[k]].qty /\ S[k - 1] \in Nat /\ S[k] \in Nat
        /\ os[f[k]].qty \in 1 .. MaxQty
    BY <1>1, <2>6
  <2>9. k <= S[k]
    BY <2>6, <2>7, <2>8
  <2>10. S[k] <= (k - 1) * MaxQty + MaxQty
    <3>1. (k - 1) * MaxQty \in Int /\ MaxQty \in Int
      BY <2>6, LobAssumption, LadderAssumption
    <3>2. QED
      BY <2>7, <2>8, <3>1
  <2>11. (k - 1) * MaxQty + MaxQty = k * MaxQty
    BY <2>6, LobAssumption, LadderAssumption
  <2>12. QED
    BY <2>4, <2>9, <2>10, <2>11
<1>3. n \in 0 .. n
  BY <1>1
<1>4. n <= S[n] /\ S[n] <= n * MaxQty /\ S[n] \in Nat
  BY <1>1, <1>2, <1>3
<1>5. QED
  BY <1>4 DEF Total, n, S

(* Orders of the same quantities have the same total.                      *)
LEMMA AnyTotalSame ==
  ASSUME NEW I, NEW f \in Seq(I), NEW os, Counted(os, I), NEW os2, Counted(os2, I),
         \A k \in 1 .. Len(f) : os2[f[k]].qty = os[f[k]].qty
  PROVE  Total(f, os2) = Total(f, os)
<1> DEFINE n == Len(f)
           S == Sums(f, os)
<1>1. n \in Nat /\ S[0] = 0 /\ \A k \in 1 .. n : S[k] = S[k - 1] + os[f[k]].qty
  BY AnySums
<1> HIDE DEF n, S
<1>2. \A k \in 1 .. n : S[k] = S[k - 1] + os2[f[k]].qty
  BY <1>1 DEF n
<1>3. Total(f, os2) = S[n]
  BY <1>1, <1>2, AnyTotalIs DEF n
<1>4. QED
  BY <1>3 DEF Total, S, n

LEMMA TotalSame ==
  ASSUME NEW f \in Seq(Ids), NEW os \in [Ids -> Order], NEW os2 \in [Ids -> Order],
         \A k \in 1 .. Len(f) : os2[f[k]].qty = os[f[k]].qty
  PROVE  Total(f, os2) = Total(f, os)
BY OrdersCounted, AnyTotalSame

(* An order that leaves takes its quantity along.                          *)
LEMMA AnyTotalDrop ==
  ASSUME NEW I, NEW f \in Seq(I), NEW os, Counted(os, I), NEW k \in 1 .. Len(f)
  PROVE  Total(Drop(f, k), os) = Total(f, os) - os[f[k]].qty
<1> DEFINE n == Len(f)
           g == Drop(f, k)
           S == Sums(f, os)
           t == os[f[k]].qty
           W == [j \in 0 .. n - 1 |-> IF j < k THEN S[j] ELSE S[j + 1] - t]
<1>1. /\ n \in Nat /\ k \in 1 .. n /\ S[0] = 0
      /\ \A j \in 1 .. n : /\ S[j] = S[j - 1] + os[f[j]].qty
                           /\ os[f[j]].qty \in 0 .. MaxQty
      /\ \A j \in 0 .. n : S[j] \in Nat
  BY AnySums
<1>2. /\ g \in Seq(I) /\ Len(g) = n - 1
      /\ \A j \in 1 .. n - 1 : g[j] = IF j < k THEN f[j] ELSE f[j + 1]
  BY AnyDrop
<1>3. t \in 0 .. MaxQty /\ S[k] = S[k - 1] + t
  BY <1>1
<1> HIDE DEF n, g, S
<1>4. \A j \in 0 .. n - 1 : W[j] = IF j < k THEN S[j] ELSE S[j + 1] - t
  OBVIOUS
<1> HIDE DEF W
<1>5. W[0] = 0
  BY <1>1, <1>4
<1>6. ASSUME NEW j \in 1 .. n - 1
      PROVE  W[j] = W[j - 1] + os[g[j]].qty
  <2>1. j \in 0 .. n - 1 /\ j - 1 \in 0 .. n - 1 /\ j \in 1 .. n /\ j + 1 \in 1 .. n
    BY <1>1
  <2>2. CASE j < k
    <3>1. j - 1 < k /\ W[j] = S[j] /\ W[j - 1] = S[j - 1] /\ g[j] = f[j]
      BY <1>1, <1>2, <1>4, <2>1, <2>2
    <3>2. QED
      BY <1>1, <2>1, <3>1
  <2>3. CASE ~ (j < k)
    <3>1. W[j] = S[j + 1] - t /\ g[j] = f[j + 1]
      BY <1>2, <1>4, <2>1, <2>3
    <3>2. W[j - 1] = S[j] - t
      <4>1. CASE j = k
        <5>1. W[j - 1] = S[k - 1] /\ S[j] = S[k - 1] + t
          BY <1>1, <1>3, <1>4, <2>1, <4>1
        <5>2. S[k - 1] \in Nat
          BY <1>1
        <5>3. QED
          BY <1>1, <1>3, <5>1, <5>2, LobAssumption, LadderAssumption
      <4>2. CASE j # k
        <5>1. ~ (j - 1 < k) /\ (j - 1) + 1 = j
          BY <1>1, <2>3, <4>2
        <5>2. QED
          BY <1>4, <2>1, <5>1
      <4>3. QED
        BY <4>1, <4>2
    <3>3. /\ S[j + 1] = S[(j + 1) - 1] + os[f[j + 1]].qty /\ (j + 1) - 1 = j
          /\ S[j] \in Nat /\ os[f[j + 1]].qty \in 0 .. MaxQty
      BY <1>1, <2>1
    <3>4. W[j] = S[j] + os[g[j]].qty - t /\ t \in Int /\ os[g[j]].qty \in Int
      BY <1>3, <3>1, <3>3, LobAssumption
    <3>5. QED
      BY <3>2, <3>3, <3>4
  <2>4. QED
    BY <2>2, <2>3
<1>7. Total(g, os) = W[n - 1]
  <2>1. \A j \in 1 .. Len(g) : W[j] = W[j - 1] + os[g[j]].qty
    BY <1>2, <1>6
  <2>2. g \in Seq(I)
    BY <1>2
  <2>3. Total(g, os) = W[Len(g)]
    BY <1>5, <2>1, <2>2, AnyTotalIs
  <2>4. QED
    BY <1>2, <2>3
<1>8. W[n - 1] = S[n] - t
  <2>1. n - 1 \in 0 .. n - 1 /\ n - 1 + 1 = n /\ n \in 1 .. n /\ S[n] \in Nat
    BY <1>1
  <2>2. CASE n - 1 < k
    <3>1. n = k
      BY <1>1, <2>2
    <3>2. W[n - 1] = S[k - 1] /\ S[n] = S[k - 1] + t /\ S[k - 1] \in Nat
      BY <1>1, <1>3, <1>4, <2>1, <2>2, <3>1
    <3>3. QED
      BY <1>3, <3>2, LobAssumption, LadderAssumption
  <2>3. CASE ~ (n - 1 < k)
    BY <1>4, <2>1, <2>3
  <2>4. QED
    BY <2>2, <2>3
<1>9. QED
  BY <1>7, <1>8 DEF Total, S, n, g

LEMMA TotalDrop ==
  ASSUME NEW f \in Seq(Ids), NEW os \in [Ids -> Order], NEW k \in 1 .. Len(f)
  PROVE  Total(Drop(f, k), os) = Total(f, os) - os[f[k]].qty
BY OrdersCounted, AnyTotalDrop

(* An order that joins adds its own.                                       *)
LEMMA AnyTotalAppend ==
  ASSUME NEW I, NEW f \in Seq(I), NEW os, Counted(os, I), NEW id \in I
  PROVE  Total(Append(f, id), os) = Total(f, os) + os[id].qty
<1> DEFINE n == Len(f)
           g == Append(f, id)
           S == Sums(f, os)
           W == [j \in 0 .. n + 1 |-> IF j = n + 1 THEN S[n] + os[id].qty ELSE S[j]]
<1>1. n \in Nat /\ S[0] = 0 /\ \A j \in 1 .. n : S[j] = S[j - 1] + os[f[j]].qty
  BY AnySums
<1>2. /\ g \in Seq(I) /\ Len(g) = n + 1 /\ g[n + 1] = id
      /\ \A j \in 1 .. n : g[j] = f[j]
  BY AppendProperties
<1> HIDE DEF n, g, S
<1>3. /\ W[n + 1] = S[n] + os[id].qty
      /\ \A j \in 0 .. n : W[j] = S[j]
  BY <1>1
<1> HIDE DEF W
<1>4. W[0] = 0
  BY <1>1, <1>3
<1>5. ASSUME NEW j \in 1 .. n + 1
      PROVE  W[j] = W[j - 1] + os[g[j]].qty
  <2>1. CASE j = n + 1
    <3>1. j - 1 = n /\ n \in 0 .. n
      BY <1>1, <2>1
    <3>2. QED
      BY <1>2, <1>3, <2>1, <3>1
  <2>2. CASE j # n + 1
    <3>1. j \in 1 .. n /\ j \in 0 .. n /\ j - 1 \in 0 .. n
      BY <1>1, <2>2
    <3>2. QED
      BY <1>1, <1>2, <1>3, <3>1
  <2>3. QED
    BY <2>1, <2>2
<1>6. Total(g, os) = W[n + 1]
  BY <1>2, <1>4, <1>5, AnyTotalIs
<1>7. QED
  BY <1>3, <1>6 DEF Total, S, n, g

LEMMA TotalAppend ==
  ASSUME NEW f \in Seq(Ids), NEW os \in [Ids -> Order], NEW id \in Ids
  PROVE  Total(Append(f, id), os) = Total(f, os) + os[id].qty
BY OrdersCounted, AnyTotalAppend

(* A fill of the first order lowers the total by as much.                  *)
LEMMA AnyTotalReduced ==
  ASSUME NEW I, NEW f \in Seq(I), NEW os, Counted(os, I), NEW os2, Counted(os2, I),
         NEW t \in Nat, 1 \in 1 .. Len(f), os2[f[1]].qty = os[f[1]].qty - t,
         \A k \in 1 .. Len(f) : k # 1 => os2[f[k]].qty = os[f[k]].qty
  PROVE  Total(f, os2) = Total(f, os) - t
<1> DEFINE n == Len(f)
           S == Sums(f, os)
           W == [j \in 0 .. n |-> IF j = 0 THEN 0 ELSE S[j] - t]
<1>1. /\ n \in Nat /\ S[0] = 0
      /\ \A j \in 1 .. n : /\ S[j] = S[j - 1] + os[f[j]].qty
                           /\ os[f[j]].qty \in 0 .. MaxQty
      /\ \A j \in 0 .. n : S[j] \in Nat
  BY AnySums
<1>2. 1 \in 1 .. n /\ n # 0
  BY <1>1
<1>3. \A j \in 1 .. n : os2[f[j]].qty = os[f[j]].qty - (IF j = 1 THEN t ELSE 0)
  <2>1. TAKE j \in 1 .. n
  <2>2. os[f[j]].qty \in Int
    BY <1>1, LobAssumption, LadderAssumption
  <2>3. CASE j = 1
    BY <2>3
  <2>4. CASE j # 1
    <3>1. os2[f[j]].qty = os[f[j]].qty
      BY <2>4
    <3>2. QED
      BY <2>2, <2>4, <3>1
  <2>5. QED
    BY <2>3, <2>4
<1> HIDE DEF n, S
<1>4. W[0] = 0 /\ \A j \in 1 .. n : W[j] = S[j] - t
  BY <1>1
<1> HIDE DEF W
<1>5. ASSUME NEW j \in 1 .. n
      PROVE  W[j] = W[j - 1] + os2[f[j]].qty
  <2>1. /\ S[j] = S[j - 1] + os[f[j]].qty /\ S[j - 1] \in Nat /\ S[j] \in Nat
        /\ os[f[j]].qty \in Int
    BY <1>1, LobAssumption, LadderAssumption
  <2>2. CASE j = 1
    <3>1. W[j] = S[j] - t /\ W[j - 1] = 0 /\ S[j - 1] = 0
      BY <1>1, <1>4, <2>2
    <3>2. QED
      BY <1>3, <2>1, <2>2, <3>1
  <2>3. CASE j # 1
    <3>1. j - 1 \in 1 .. n
      BY <1>1, <2>3
    <3>2. W[j] = S[j] - t /\ W[j - 1] = S[j - 1] - t
      BY <1>4, <3>1
    <3>3. QED
      BY <1>3, <2>1, <2>3, <3>2
  <2>4. QED
    BY <2>2, <2>3
<1>6. Total(f, os2) = W[n]
  BY <1>4, <1>5, AnyTotalIs DEF n
<1>7. n \in 1 .. n
  BY <1>1, <1>2
<1>8. QED
  BY <1>4, <1>6, <1>7 DEF Total, S, n

LEMMA TotalReduced ==
  ASSUME NEW f \in Seq(Ids), NEW os \in [Ids -> Order], NEW os2 \in [Ids -> Order],
         NEW t \in Nat, 1 \in 1 .. Len(f), os2[f[1]].qty = os[f[1]].qty - t,
         \A k \in 1 .. Len(f) : k # 1 => os2[f[k]].qty = os[f[k]].qty
  PROVE  Total(f, os2) = Total(f, os) - t
BY OrdersCounted, AnyTotalReduced

(* The quantity of all that may rest fits in a level: MaxQty for every     *)
(* slot of the pool stays below QtyMod.                                    *)
NoWrap == MaxOrders * MaxQty < QtyMod

(* Then the total at a price never wraps, and is 0 only for an empty list. *)
LEMMA TotalFits ==
  ASSUME NoWrap, NEW f \in Seq(Ids), OneToOne(f), NEW os \in [Ids -> Order],
         \A k \in 1 .. Len(f) : os[f[k]].qty # 0
  PROVE  Total(f, os) \in 0 .. QtyMod - 1 /\ (Total(f, os) = 0 <=> f = << >>)
<1> DEFINE n == Len(f)
           T == Total(f, os)
<1>1. n \in Nat /\ n <= MaxOrders
  BY ShortLists
<1>2. T \in Nat /\ n <= T /\ T <= n * MaxQty
  BY TotalBounds
<1>3. f = << >> <=> n = 0
  BY EmptySeq
<1> HIDE DEF n, T
<1>4. n * MaxQty <= MaxOrders * MaxQty /\ n * MaxQty \in Int /\ MaxOrders * MaxQty \in Int
  <2>1. MaxOrders \in Nat /\ MaxQty \in Nat
    BY LobAssumption, LadderAssumption
  <2>2. (MaxOrders - n) * MaxQty >= 0
    BY <1>1, <2>1
  <2>3. (MaxOrders - n) * MaxQty = MaxOrders * MaxQty - n * MaxQty
    BY <1>1, <2>1
  <2>4. n * MaxQty \in Int /\ MaxOrders * MaxQty \in Int
    BY <1>1, <2>1
  <2>5. QED
    BY <2>2, <2>3, <2>4
<1>5. T \in 0 .. QtyMod - 1
  BY <1>2, <1>4, LobAssumption, LadderAssumption DEF NoWrap
<1>6. T = 0 <=> n = 0
  <2>1. n = 0 => n * MaxQty = 0
    BY LobAssumption, LadderAssumption
  <2>2. QED
    BY <1>1, <1>2, <2>1
<1>7. QED
  BY <1>3, <1>5, <1>6 DEF T

(* An order that stays where it is, in a level that counts its orders.     *)
LEMMA LevelSame ==
  ASSUME NEW f \in Seq(Ids), NEW os \in [Ids -> Order], NEW os2 \in [Ids -> Order],
         NEW lv, NEW lv2, lv.qty = Total(f, os), lv2.qty = lv.qty,
         \A k \in 1 .. Len(f) : os2[f[k]].qty = os[f[k]].qty
  PROVE  lv2.qty = Total(f, os2)
BY TotalSame

(* What IInv says of the queues, as lists.                                 *)
LEMMA QueueFacts ==
  ASSUME IInv
  PROVE  /\ levels \in [Side -> [Px -> Level]] /\ orders_ \in [Ids -> Order]
         /\ Queues \in [Side -> [Px -> Seq(Ids)]]
         /\ \A s \in Side, p \in Px :
              /\ Queues[s][p] \in Seq(Ids) /\ OneToOne(Queues[s][p])
              /\ \A k \in 1 .. Len(Queues[s][p]) :
                   /\ Queues[s][p][k] \in Ids /\ Queues[s][p][k] # taker_id
                   /\ orders_[Queues[s][p][k]].side = s
                   /\ orders_[Queues[s][p][k]].px = p
                   /\ orders_[Queues[s][p][k]].qty # 0
<1>1. Holds(levels, orders_, free_, taker_id, Queues)
  BY HoldsQueues
<1>2. /\ Queues \in [Side -> [Px -> Seq(Ids)]]
      /\ \A s \in Side, p \in Px : OneToOne(Queues[s][p])
  BY <1>1, Zenon DEF Holds, Placed
<1>3. \A s \in Side, p \in Px : \A k \in 1 .. Len(Queues[s][p]) :
        /\ Queues[s][p][k] \in Ids /\ Queues[s][p][k] # taker_id
        /\ orders_[Queues[s][p][k]].side = s
        /\ orders_[Queues[s][p][k]].px = p
        /\ orders_[Queues[s][p][k]].qty # 0
  BY <1>1, Queued
<1>4. levels \in [Side -> [Px -> Level]] /\ orders_ \in [Ids -> Order]
  BY DEF IInv, TypeOK
<1>5. QED
  BY <1>2, <1>3, <1>4

(* The level of an order that leaves it: unlink subtracts its quantity.    *)
LEMMA LevelLeft ==
  ASSUME NoWrap, NEW f \in Seq(Ids), OneToOne(f), NEW k \in 1 .. Len(f),
         NEW os \in [Ids -> Order], NEW os2 \in [Ids -> Order],
         Skips(os, os2, f[k]), \A j \in 1 .. Len(f) : os[f[j]].qty # 0
  PROVE  (Total(f, os) - os[f[k]].qty) % QtyMod = Total(Drop(f, k), os2)
<1> DEFINE g == Drop(f, k)
<1>1. g \in Seq(Ids)
  BY DropIs
<1>2. /\ OneToOne(g)
      /\ \A j \in 1 .. Len(g) : \E h \in 1 .. Len(f) : h # k /\ g[j] = f[h]
  BY DropOthers
<1>3. Total(g, os) = Total(f, os) - os[f[k]].qty
  BY TotalDrop
<1> HIDE DEF g
<1>4. \A j \in 1 .. Len(g) : os[g[j]].qty # 0 /\ os2[g[j]].qty = os[g[j]].qty
  <2>1. TAKE j \in 1 .. Len(g)
  <2>2. PICK h \in 1 .. Len(f) : h # k /\ g[j] = f[h]
    BY <1>2
  <2>3. f[h] \in Ids /\ f[h] # f[k]
    BY <2>2, ElementOfSeq DEF OneToOne
  <2>4. QED
    BY <2>2, <2>3 DEF Skips
<1>5. Total(g, os) \in 0 .. QtyMod - 1
  BY <1>1, <1>2, <1>4, TotalFits
<1>6. Total(g, os2) = Total(g, os)
  BY <1>1, <1>4, TotalSame
<1>7. Total(g, os) % QtyMod = Total(g, os)
  <2>1. \A x \in 0 .. QtyMod - 1 : x % QtyMod = x
    BY LobAssumption, LadderAssumption
  <2>2. QED
    BY <1>5, <2>1
<1>8. QED
  BY <1>3, <1>6, <1>7 DEF g

(* A queue that no step touches keeps its count.                           *)
Untouched(s, p) ==
  /\ levels'[s][p].qty = levels[s][p].qty /\ Queues'[s][p] = Queues[s][p]
  /\ \A k \in 1 .. Len(Queues[s][p]) :
       orders_'[Queues[s][p][k]].qty = orders_[Queues[s][p][k]].qty

LEMMA CountKept ==
  ASSUME IInv, LevelQtys, orders_' \in [Ids -> Order],
         NEW s \in Side, NEW p \in Px, Untouched(s, p)
  PROVE  levels'[s][p].qty = Total(Queues'[s][p], orders_')
<1>1. /\ Queues[s][p] \in Seq(Ids) /\ orders_ \in [Ids -> Order]
      /\ levels[s][p].qty = Total(Queues[s][p], orders_)
  BY QueueFacts DEF LevelQtys
<1>2. levels'[s][p].qty = Total(Queues[s][p], orders_')
  <2> DEFINE f == Queues[s][p]
  <2>1. /\ f \in Seq(Ids) /\ levels'[s][p].qty = Total(f, orders_)
        /\ \A k \in 1 .. Len(f) : orders_'[f[k]].qty = orders_[f[k]].qty
    BY <1>1 DEF Untouched
  <2> HIDE DEF f
  <2>2. Total(f, orders_') = Total(f, orders_)
    BY <1>1, <2>1, TotalSame
  <2>3. QED
    BY <2>1, <2>2 DEF f
<1>3. QED
  BY <1>2 DEF Untouched

(* take_level leaves the counts right.                                     *)
LEMMA TakeCounts ==
  ASSUME NoWrap, IInv, LevelQtys, TakeHead
  PROVE  LevelQtys'
<1>1. /\ pc = "take" /\ remaining # 0 /\ Maker # 0
      /\ IF orders_[Maker].qty = Take
         THEN /\ Release(UnlinkOrder(orders_, Maker), Maker)
              /\ levels' = [levels EXCEPT ![TakenSide][TakenPx] =
                              UnlinkLevel(Left, orders_[Maker])]
         ELSE /\ orders_' = [orders_ EXCEPT ![Maker].qty = @ - Take]
              /\ levels' = [levels EXCEPT ![TakenSide][TakenPx] = Left]
              /\ free_' = free_
  BY TakeHeadIs
<1>2. /\ TakenSide \in Side /\ TakenPx \in Px /\ levels[TakenSide][TakenPx] \in Level
      /\ 1 \in 1 .. Len(Queues[TakenSide][TakenPx])
      /\ Maker = Queues[TakenSide][TakenPx][1]
      /\ Maker \in Ids /\ orders_[Maker] \in Order
      /\ orders_[Maker].side = TakenSide /\ orders_[Maker].px = TakenPx
      /\ Take \in 1 .. MaxQty /\ Left \in Level
  BY <1>1, MakerIs
<1> DEFINE f == Queues[TakenSide][TakenPx]
<1>3. /\ levels \in [Side -> [Px -> Level]] /\ orders_ \in [Ids -> Order]
      /\ Queues \in [Side -> [Px -> Seq(Ids)]]
      /\ f \in Seq(Ids) /\ OneToOne(f)
      /\ \A k \in 1 .. Len(f) : f[k] \in Ids /\ orders_[f[k]].qty # 0
  BY <1>2, QueueFacts
<1>4. /\ IInv'
      /\ Queues' = IF orders_[Maker].qty = Take
                   THEN [Queues EXCEPT ![TakenSide][TakenPx] = Drop(f, 1)]
                   ELSE Queues
  BY TakeKeeps
<1>5. orders_' \in [Ids -> Order]
  BY <1>4 DEF IInv, TypeOK
<1>6. levels[TakenSide][TakenPx].qty = Total(f, orders_)
  BY <1>2 DEF LevelQtys
<1>7. Left.qty = (Total(f, orders_) - Take) % QtyMod
      /\ Left.head = levels[TakenSide][TakenPx].head
      /\ Left.tail = levels[TakenSide][TakenPx].tail
  BY <1>2, <1>6 DEF Left, Level
<1>8. CASE orders_[Maker].qty = Take
  <2>1. /\ orders_' = [UnlinkOrder(orders_, Maker) EXCEPT ![Maker] = NoOrder]
        /\ levels' = [levels EXCEPT ![TakenSide][TakenPx] =
                        UnlinkLevel(Left, orders_[Maker])]
        /\ Queues' = [Queues EXCEPT ![TakenSide][TakenPx] = Drop(f, 1)]
    BY <1>1, <1>4, <1>8 DEF Release
  <2>2. Skips(orders_, orders_', Maker)
    BY <1>2, <1>3, <2>1, UnlinkOrderIs
  <2>3. OneLevel(levels, levels', TakenSide, TakenPx, Left.qty)
    BY <1>2, <1>3, <1>7, <2>1, UnlinkLevelIs
  <2>4. /\ Queues'[TakenSide][TakenPx] = Drop(f, 1)
        /\ \A r \in Side, x \in Px :
             (r # TakenSide \/ x # TakenPx) => Queues'[r][x] = Queues[r][x]
    BY <1>2, <1>3, <2>1
  <2>5. levels'[TakenSide][TakenPx].qty
          = Total(Queues'[TakenSide][TakenPx], orders_')
    <3>1. Skips(orders_, orders_', f[1]) /\ orders_[f[1]].qty = Take
      BY <1>2, <1>8, <2>2
    <3> HIDE DEF f
    <3>2. (Total(f, orders_) - orders_[f[1]].qty) % QtyMod = Total(Drop(f, 1), orders_')
      BY <1>2, <1>3, <1>5, <3>1, LevelLeft DEF f
    <3>3. QED
      BY <1>7, <2>3, <2>4, <3>1, <3>2 DEF OneLevel
  <2>6. ASSUME NEW r \in Side, NEW x \in Px, r # TakenSide \/ x # TakenPx
        PROVE  levels'[r][x].qty = Total(Queues'[r][x], orders_')
    <3>1. ASSUME NEW k \in 1 .. Len(Queues[r][x])
          PROVE  orders_'[Queues[r][x][k]].qty = orders_[Queues[r][x][k]].qty
      <4>1. /\ Queues[r][x][k] \in Ids
            /\ orders_[Queues[r][x][k]].side = r /\ orders_[Queues[r][x][k]].px = x
        BY QueueFacts
      <4>2. Queues[r][x][k] # Maker
        BY <1>2, <2>6, <4>1
      <4>3. QED
        BY <2>2, <4>1, <4>2 DEF Skips
    <3>2. Untouched(r, x)
      BY <2>3, <2>4, <2>6, <3>1 DEF Untouched, OneLevel
    <3>3. QED
      BY <1>5, <3>2, CountKept
  <2>7. QED
    BY <2>5, <2>6 DEF LevelQtys
<1>9. CASE orders_[Maker].qty # Take
  <2>1. /\ orders_' = [orders_ EXCEPT ![Maker].qty = @ - Take]
        /\ levels' = [levels EXCEPT ![TakenSide][TakenPx] = Left]
        /\ Queues' = Queues
    BY <1>1, <1>4, <1>9
  <2>2. /\ orders_'[Maker].qty = orders_[Maker].qty - Take
        /\ \A i \in Ids : i # Maker => orders_'[i] = orders_[i]
    BY <1>2, <1>3, <2>1 DEF Order
  <2>3. /\ levels'[TakenSide][TakenPx] = Left
        /\ \A r \in Side, x \in Px :
             (r # TakenSide \/ x # TakenPx) => levels'[r][x] = levels[r][x]
    BY <1>2, <1>3, <2>1
  <2>4. levels'[TakenSide][TakenPx].qty
          = Total(Queues'[TakenSide][TakenPx], orders_')
    <3>1. /\ orders_'[f[1]].qty = orders_[f[1]].qty - Take /\ Take \in Nat
          /\ \A k \in 1 .. Len(f) : k # 1 => orders_'[f[k]].qty = orders_[f[k]].qty
      <4>1. \A k \in 1 .. Len(f) : k # 1 => f[k] \in Ids /\ f[k] # Maker
        BY <1>2, <1>3 DEF OneToOne
      <4>2. QED
        BY <1>2, <2>2, <4>1, LobAssumption, LadderAssumption
    <3>2. Queues'[TakenSide][TakenPx] = f
      BY <2>1
    <3> HIDE DEF f
    <3>3. Total(f, orders_') = Total(f, orders_) - Take
      BY <1>2, <1>3, <1>5, <3>1, TotalReduced DEF f
    <3>4. Total(f, orders_') \in 0 .. QtyMod - 1
      <4>3. orders_[Maker].qty - Take # 0
        BY <1>2, <1>9, LobAssumption, LadderAssumption DEF Order
      <4>1. \A k \in 1 .. Len(f) : orders_'[f[k]].qty # 0
        BY <1>2, <1>3, <2>2, <3>1, <4>3 DEF f
      <4>2. QED
        BY <1>3, <1>5, <4>1, TotalFits
    <3>5. (Total(f, orders_) - Take) % QtyMod = Total(f, orders_) - Take
      BY <3>3, <3>4, LobAssumption, LadderAssumption
    <3>6. QED
      BY <1>7, <2>3, <3>2, <3>3, <3>5
  <2>5. ASSUME NEW r \in Side, NEW x \in Px, r # TakenSide \/ x # TakenPx
        PROVE  levels'[r][x].qty = Total(Queues'[r][x], orders_')
    <3>1. ASSUME NEW k \in 1 .. Len(Queues[r][x])
          PROVE  orders_'[Queues[r][x][k]].qty = orders_[Queues[r][x][k]].qty
      <4>1. /\ Queues[r][x][k] \in Ids
            /\ orders_[Queues[r][x][k]].side = r /\ orders_[Queues[r][x][k]].px = x
        BY QueueFacts
      <4>2. Queues[r][x][k] # Maker
        BY <1>2, <2>5, <4>1
      <4>3. QED
        BY <2>2, <4>1, <4>2
    <3>2. Untouched(r, x)
      BY <2>1, <2>3, <2>5, <3>1 DEF Untouched
    <3>3. QED
      BY <1>5, <3>2, CountKept
  <2>6. QED
    BY <2>4, <2>5 DEF LevelQtys
<1>10. QED
  BY <1>8, <1>9

(* The same of the state after a step.                                     *)
LEMMA NextQueueFacts ==
  IInv' =>
    /\ levels' \in [Side -> [Px -> Level]] /\ orders_' \in [Ids -> Order]
    /\ \A s \in Side, p \in Px :
         /\ Queues'[s][p] \in Seq(Ids) /\ OneToOne(Queues'[s][p])
         /\ \A k \in 1 .. Len(Queues'[s][p]) : orders_'[Queues'[s][p][k]].qty # 0
<1> DEFINE F == /\ levels \in [Side -> [Px -> Level]] /\ orders_ \in [Ids -> Order]
                /\ \A s \in Side, p \in Px :
                     /\ Queues[s][p] \in Seq(Ids) /\ OneToOne(Queues[s][p])
                     /\ \A k \in 1 .. Len(Queues[s][p]) : orders_[Queues[s][p][k]].qty # 0
<1>1. IInv => F
  BY QueueFacts
<1>2. IInv' => F'
  BY <1>1, PTL
<1>3. QED
  BY <1>2

(* cancel leaves the counts right.                                         *)
LEMMA CancelCounts ==
  ASSUME NoWrap, IInv, LevelQtys, NEW id \in Ids, Cancel(id)
  PROVE  LevelQtys'
<1> DEFINE s == orders_[id].side
           p == orders_[id].px
           lv == [levels[s][p] EXCEPT !.qty = (@ - orders_[id].qty) % QtyMod]
           f == Queues[s][p]
<1>1. /\ levels' = [levels EXCEPT ![s][p] = UnlinkLevel(lv, orders_[id])]
      /\ orders_' = [UnlinkOrder(orders_, id) EXCEPT ![id] = NoOrder]
  BY DEF Cancel, Release
<1>2. IInv' /\ s \in Side /\ p \in Px
  BY CancelKeeps
<1>3. PICK k \in 1 .. Len(f) :
        f[k] = id /\ Queues' = [Queues EXCEPT ![s][p] = Drop(f, k)]
  BY CancelKeeps
<1>4. /\ levels \in [Side -> [Px -> Level]] /\ orders_ \in [Ids -> Order]
      /\ Queues \in [Side -> [Px -> Seq(Ids)]]
      /\ f \in Seq(Ids) /\ OneToOne(f)
      /\ \A j \in 1 .. Len(f) : orders_[f[j]].qty # 0
  BY <1>2, QueueFacts
<1>5. orders_' \in [Ids -> Order]
  BY <1>2, NextQueueFacts
<1>6. levels[s][p] \in Level /\ orders_[id] \in Order /\ levels[s][p].qty = Total(f, orders_)
  BY <1>2, <1>4 DEF LevelQtys
<1>7. /\ lv \in Level /\ lv.qty = (Total(f, orders_) - orders_[id].qty) % QtyMod
      /\ lv.head = levels[s][p].head /\ lv.tail = levels[s][p].tail
  <2>1. levels[s][p].qty \in Int /\ orders_[id].qty \in Int
    BY <1>6 DEF Level, Order
  <2>2. (levels[s][p].qty - orders_[id].qty) % QtyMod \in 0 .. QtyMod - 1
    BY <2>1, Modulo
  <2>3. QED
    BY <1>6, <2>2 DEF Level
<1> HIDE DEF s, p, lv, f
<1>8. Skips(orders_, orders_', id)
  BY <1>1, <1>4, UnlinkOrderIs
<1>9. OneLevel(levels, levels', s, p, lv.qty)
  BY <1>1, <1>2, <1>4, <1>6, <1>7, UnlinkLevelIs
<1>10. /\ Queues'[s][p] = Drop(f, k)
       /\ \A r \in Side, x \in Px : (r # s \/ x # p) => Queues'[r][x] = Queues[r][x]
  BY <1>2, <1>3, <1>4
<1>11. levels'[s][p].qty = Total(Queues'[s][p], orders_')
  <2>1. (Total(f, orders_) - orders_[f[k]].qty) % QtyMod = Total(Drop(f, k), orders_')
    BY <1>3, <1>4, <1>5, <1>8, LevelLeft
  <2>2. QED
    BY <1>3, <1>7, <1>9, <1>10, <2>1 DEF OneLevel
<1>12. ASSUME NEW r \in Side, NEW x \in Px, r # s \/ x # p
       PROVE  levels'[r][x].qty = Total(Queues'[r][x], orders_')
  <2>1. ASSUME NEW j \in 1 .. Len(Queues[r][x])
        PROVE  orders_'[Queues[r][x][j]].qty = orders_[Queues[r][x][j]].qty
    <3>1. /\ Queues[r][x][j] \in Ids
          /\ orders_[Queues[r][x][j]].side = r /\ orders_[Queues[r][x][j]].px = x
      BY QueueFacts
    <3>2. Queues[r][x][j] # id
      BY <1>12, <3>1 DEF s, p
    <3>3. QED
      BY <1>8, <3>1, <3>2 DEF Skips
  <2>2. Untouched(r, x)
    BY <1>9, <1>10, <1>12, <2>1 DEF Untouched, OneLevel
  <2>3. QED
    BY <1>5, <2>2, CountKept
<1>13. QED
  BY <1>11, <1>12 DEF LevelQtys

(* What resting does to the orders, the level, and the best price.         *)
LEMMA RestIs ==
  ASSUME IInv, EndLimit, remaining # 0
  PROVE  LET s == orders_[taker_id].side
             p == orders_[taker_id].px
         IN /\ OneLevel(levels, levels', s, p, (levels[s][p].qty + remaining) % QtyMod)
            /\ orders_'[taker_id].qty = remaining
            /\ \A i \in Ids : i # taker_id => orders_'[i].qty = orders_[i].qty
            /\ best' = [best EXCEPT ![s] =
                          IF \/ @ = 0
                             \/ s = "Buy" /\ p > @
                             \/ s = "Sell" /\ p < @
                          THEN p ELSE @]
<1> DEFINE s == orders_[taker_id].side
           p == orders_[taker_id].px
           lv == levels[s][p]
           o == [orders_[taker_id] EXCEPT !.qty = remaining]
<1>1. taker_id \in Ids /\ s \in Side /\ p \in Px
  BY EndKeeps
<1>2. /\ levels \in [Side -> [Px -> Level]] /\ orders_ \in [Ids -> Order]
      /\ orders_[taker_id] \in Order
  BY <1>1, QueueFacts
<1>3. o.side = s /\ o.px = p /\ o.qty = remaining
  BY <1>2 DEF Order
<1>4. Rest(taker_id)
  BY DEF EndLimit
<1>5. /\ orders_' = [i \in Ids |->
                       IF i = taker_id THEN [o EXCEPT !.prev = lv.tail, !.next = 0]
                       ELSE IF i = lv.tail THEN [orders_[i] EXCEPT !.next = taker_id]
                       ELSE orders_[i]]
      /\ levels' = [levels EXCEPT ![s][p] =
                      [head |-> IF lv.tail = 0 THEN taker_id ELSE lv.head,
                       tail |-> taker_id,
                       qty  |-> (lv.qty + remaining) % QtyMod]]
      /\ best' = [best EXCEPT ![s] =
                    IF \/ @ = 0
                       \/ s = "Buy" /\ p > @
                       \/ s = "Sell" /\ p < @
                    THEN p ELSE @]
      /\ free_' = free_
  BY <1>2, <1>4, RestDef
<1> HIDE DEF s, p
<1> DEFINE l == [head |-> IF lv.tail = 0 THEN taker_id ELSE lv.head,
                 tail |-> taker_id, qty  |-> (lv.qty + remaining) % QtyMod]
<1>6. l.qty = (lv.qty + remaining) % QtyMod /\ levels' = [levels EXCEPT ![s][p] = l]
  BY <1>5
<1> HIDE DEF lv, o, l
<1>7. OneLevel(levels, levels', s, p, (lv.qty + remaining) % QtyMod)
  BY <1>1, <1>2, <1>6 DEF OneLevel
<1>8. orders_'[taker_id].qty = remaining
  <2>1. orders_'[taker_id] = [o EXCEPT !.prev = lv.tail, !.next = 0]
    BY <1>1, <1>5
  <2>2. o \in [prev : 0 .. MaxOrders, next : 0 .. MaxOrders, qty : {remaining},
               px : Px \cup {0}, side : Side]
    BY <1>2 DEF o, Order
  <2>3. QED
    BY <2>1, <2>2
<1>9. \A i \in Ids : i # taker_id => orders_'[i].qty = orders_[i].qty
  <2>1. TAKE i \in Ids
  <2>2. HAVE i # taker_id
  <2>3. orders_'[i] = IF i = lv.tail THEN [orders_[i] EXCEPT !.next = taker_id]
                      ELSE orders_[i]
    BY <1>5, <2>2
  <2>4. orders_[i] \in Order
    BY <1>2
  <2>5. QED
    BY <2>3, <2>4 DEF Order
<1>10. QED
  BY <1>5, <1>7, <1>8, <1>9 DEF s, p, lv

(* The end of limit leaves the counts right.                               *)
LEMMA EndCounts ==
  ASSUME NoWrap, IInv, LevelQtys, EndLimit
  PROVE  LevelQtys'
<1> DEFINE s == orders_[taker_id].side
           p == orders_[taker_id].px
           f == Queues[s][p]
<1>1. /\ IInv' /\ taker_id \in Ids /\ s \in Side /\ p \in Px
      /\ Queues' = IF remaining = 0 THEN Queues
                   ELSE [Queues EXCEPT ![s][p] = Append(f, taker_id)]
  BY EndKeeps
<1>2. /\ levels \in [Side -> [Px -> Level]] /\ orders_ \in [Ids -> Order]
      /\ Queues \in [Side -> [Px -> Seq(Ids)]]
      /\ f \in Seq(Ids) /\ OneToOne(f)
  BY <1>1, QueueFacts
<1>3. orders_' \in [Ids -> Order]
  BY <1>1, NextQueueFacts
<1>4. ASSUME \A i \in Ids : i # taker_id => orders_'[i].qty = orders_[i].qty,
             NEW r \in Side, NEW x \in Px,
             levels'[r][x].qty = levels[r][x].qty, Queues'[r][x] = Queues[r][x]
      PROVE  levels'[r][x].qty = Total(Queues'[r][x], orders_')
  <2>1. ASSUME NEW k \in 1 .. Len(Queues[r][x])
        PROVE  orders_'[Queues[r][x][k]].qty = orders_[Queues[r][x][k]].qty
    <3>1. Queues[r][x][k] \in Ids /\ Queues[r][x][k] # taker_id
      BY QueueFacts
    <3>2. QED
      BY <1>4, <3>1
  <2>2. Untouched(r, x)
    BY <1>4, <2>1 DEF Untouched
  <2>3. QED
    BY <1>3, <2>2, CountKept
<1>5. CASE remaining = 0
  <2>1. /\ orders_' = [orders_ EXCEPT ![taker_id] = NoOrder] /\ levels' = levels
        /\ Queues' = Queues
    BY <1>1, <1>5 DEF EndLimit, Release
  <2>2. \A i \in Ids : i # taker_id => orders_'[i].qty = orders_[i].qty
    BY <1>1, <1>2, <2>1
  <2>3. QED
    BY <1>4, <2>1, <2>2 DEF LevelQtys
<1>6. CASE remaining # 0
  <2>1. /\ OneLevel(levels, levels', s, p, (levels[s][p].qty + remaining) % QtyMod)
        /\ orders_'[taker_id].qty = remaining
        /\ \A i \in Ids : i # taker_id => orders_'[i].qty = orders_[i].qty
    BY <1>6, RestIs
  <2>2. levels[s][p].qty = Total(f, orders_)
    BY <1>1 DEF LevelQtys
  <2>3. \A k \in 1 .. Len(f) : f[k] \in Ids /\ f[k] # taker_id
    <3>1. \A r \in Side, x \in Px : \A k \in 1 .. Len(Queues[r][x]) :
            Queues[r][x][k] \in Ids /\ Queues[r][x][k] # taker_id
      BY QueueFacts
    <3>2. QED
      BY <1>1, <3>1
  <2> HIDE DEF s, p, f
  <2>4. /\ Queues'[s][p] = Append(f, taker_id)
        /\ \A r \in Side, x \in Px : (r # s \/ x # p) => Queues'[r][x] = Queues[r][x]
    BY <1>1, <1>2, <1>6
  <2>5. levels'[s][p].qty = Total(Queues'[s][p], orders_')
    <3>1. Total(Append(f, taker_id), orders_') = Total(f, orders_') + remaining
      BY <1>1, <1>2, <1>3, <2>1, TotalAppend
    <3>2. Total(f, orders_') = Total(f, orders_)
      BY <1>2, <1>3, <2>1, <2>3, TotalSame
    <3>3. Total(Queues'[s][p], orders_') \in 0 .. QtyMod - 1
      <4>1. /\ Queues'[s][p] \in Seq(Ids) /\ OneToOne(Queues'[s][p])
            /\ \A k \in 1 .. Len(Queues'[s][p]) : orders_'[Queues'[s][p][k]].qty # 0
        BY <1>1, NextQueueFacts
      <4>2. QED
        BY <1>3, <4>1, TotalFits
    <3>4. \A x \in 0 .. QtyMod - 1 : x % QtyMod = x
      BY LobAssumption, LadderAssumption
    <3>5. levels'[s][p].qty = Total(Queues'[s][p], orders_') % QtyMod
      BY <2>1, <2>2, <2>4, <3>1, <3>2 DEF OneLevel
    <3>6. QED
      BY <3>3, <3>4, <3>5
  <2>6. ASSUME NEW r \in Side, NEW x \in Px, r # s \/ x # p
        PROVE  levels'[r][x].qty = Total(Queues'[r][x], orders_')
    <3>1. levels'[r][x].qty = levels[r][x].qty /\ Queues'[r][x] = Queues[r][x]
      BY <2>1, <2>4, <2>6 DEF OneLevel
    <3>2. QED
      BY <1>4, <2>1, <3>1
  <2>7. QED
    BY <2>5, <2>6 DEF LevelQtys
<1>7. QED
  BY <1>5, <1>6

(* A level is empty when it has no head, and when it counts nothing.       *)
LEMMA EmptyLevels ==
  NoWrap /\ IInv /\ LevelQtys =>
    \A s \in Side, p \in Px :
      /\ levels[s][p].head = 0 <=> Queues[s][p] = << >>
      /\ levels[s][p].qty = 0 <=> Queues[s][p] = << >>
<1>1. SUFFICES ASSUME NoWrap, IInv, LevelQtys, NEW s \in Side, NEW p \in Px
      PROVE  /\ levels[s][p].head = 0 <=> Queues[s][p] = << >>
             /\ levels[s][p].qty = 0 <=> Queues[s][p] = << >>
  OBVIOUS
<1>2. levels[s][p].head = 0 <=> Queues[s][p] = << >>
  BY <1>1, HeadIs
<1>3. /\ Queues[s][p] \in Seq(Ids) /\ OneToOne(Queues[s][p])
      /\ orders_ \in [Ids -> Order]
      /\ \A k \in 1 .. Len(Queues[s][p]) : orders_[Queues[s][p][k]].qty # 0
  BY <1>1, QueueFacts
<1>4. Total(Queues[s][p], orders_) = 0 <=> Queues[s][p] = << >>
  BY <1>1, <1>3, TotalFits
<1>5. QED
  BY <1>1, <1>2, <1>4 DEF LevelQtys

LEMMA NextEmptyLevels ==
  NoWrap /\ IInv' /\ LevelQtys' =>
    \A s \in Side, p \in Px :
      /\ levels'[s][p].head = 0 <=> Queues'[s][p] = << >>
      /\ levels'[s][p].qty = 0 <=> Queues'[s][p] = << >>
<1> DEFINE E == \A s \in Side, p \in Px :
                  /\ levels[s][p].head = 0 <=> Queues[s][p] = << >>
                  /\ levels[s][p].qty = 0 <=> Queues[s][p] = << >>
<1>1. NoWrap /\ IInv /\ LevelQtys => E
  BY EmptyLevels
<1>2. NoWrap' /\ IInv' /\ LevelQtys' => E'
  BY <1>1, PTL
<1>3. NoWrap' <=> NoWrap
  BY DEF NoWrap
<1>4. QED
  BY <1>2, <1>3

(* b is the best of the prices O of a side, 0 when there is none.          *)
BestOf(O, s, b) ==
  IF O = {} THEN b = 0 ELSE b \in O /\ \A p \in O : NoBetter(s, p, b)

(* tighten finds the best of them when none is better than from.           *)
LEMMA TightenIs ==
  ASSUME NEW s \in Side, NEW lvs, NEW from, NEW O, O \subseteq Px,
         \A p \in Px : lvs[s][p].qty = 0 <=> p \notin O,
         \A p \in O : NoBetter(s, p, from)
  PROVE  BestOf(O, s, Tighten(s, lvs, from))
<1> DEFINE scan == {p \in Px : lvs[s][p].qty # 0
                                 /\ IF s = "Buy" THEN p <= from ELSE p >= from}
           Nearest(p) == \A q \in O : IF s = "Buy" THEN q <= p ELSE q >= p
<1>1. scan = O
  BY DEF NoBetter
<1>2. Tighten(s, lvs, from) = IF scan = {} THEN 0
                              ELSE CHOOSE p \in scan :
                                     \A q \in scan : IF s = "Buy" THEN q <= p ELSE q >= p
  BY DEF Tighten
<1> HIDE DEF scan
<1>3. Tighten(s, lvs, from) = IF O = {} THEN 0 ELSE CHOOSE p \in O : Nearest(p)
  BY <1>1, <1>2
<1>4. O # {} => \E p \in O : Nearest(p)
  BY Extreme
<1> DEFINE b == CHOOSE p \in O : Nearest(p)
<1>5. ASSUME O # {}
      PROVE  b \in O /\ Nearest(b)
  <2> HIDE DEF Nearest
  <2>1. QED
    BY <1>4, <1>5
<1> HIDE DEF b
<1>6. O # {} => b \in O /\ \A p \in O : NoBetter(s, p, b)
  BY <1>5 DEF NoBetter
<1>7. Tighten(s, lvs, from) = IF O = {} THEN 0 ELSE b
  BY <1>3 DEF b
<1>8. QED
  BY <1>6, <1>7 DEF BestOf

(* The occupied prices are those of the queues that are not empty.         *)
LEMMA OccupiedIs ==
  ASSUME NoWrap, IInv, LevelQtys, NEW s \in Side
  PROVE  /\ Occupied(s) \subseteq Px
         /\ \A p \in Px : /\ p \in Occupied(s) <=> Queues[s][p] # << >>
                          /\ levels[s][p].qty = 0 <=> p \notin Occupied(s)
BY EmptyLevels DEF Occupied

LEMMA NextOccupiedIs ==
  ASSUME NoWrap, IInv', LevelQtys', NEW s \in Side
  PROVE  /\ Occupied(s)' \subseteq Px
         /\ \A p \in Px : /\ p \in Occupied(s)' <=> Queues'[s][p] # << >>
                          /\ levels'[s][p].qty = 0 <=> p \notin Occupied(s)'
BY NextEmptyLevels DEF Occupied

(* The best price of one side is still the best when the other side or     *)
(* nothing changed.                                                        *)
LEMMA StillBest ==
  ASSUME NEW s \in Side, Occupied(s)' = Occupied(s), best'[s] = best[s],
         IsBest(s, best[s])
  PROVE  IsBest(s, best[s])'
BY DEF IsBest

(* Taking a slot, and entering a level, change no price.                   *)
LEMMA LimitPrices ==
  ASSUME QInv, NEW side \in Side, NEW px \in Px, NEW qty \in 1 .. MaxQty,
         Limit(side, px, qty)
  PROVE  Prices'
<1>1. pc = "idle" /\ pc' = "match" /\ levels' = levels /\ best' = best
  BY DEF Limit
<1>2. \A s \in Side : Occupied(s)' = Occupied(s)
  BY <1>1 DEF Occupied
<1>3. /\ \A s \in Side : IsBest(s, best[s])
      /\ \A b \in Occupied("Buy"), a \in Occupied("Sell") : b < a
  BY <1>1 DEF QInv, Prices
<1>4. \A s \in Side : IsBest(s, best[s])'
  BY <1>1, <1>2, <1>3, StillBest
<1>5. QED
  BY <1>1, <1>2, <1>3, <1>4 DEF Prices, Side

LEMMA EnterPrices ==
  ASSUME QInv, EnterLevel
  PROVE  Prices'
<1>1. /\ pc = "match" /\ pc' = "take" /\ Crossing
      /\ levels' = levels /\ best' = best /\ orders_' = orders_ /\ taker_id' = taker_id
  BY DEF EnterLevel
<1>2. \A s \in Side : Occupied(s)' = Occupied(s)
  BY <1>1 DEF Occupied
<1>3. /\ \A s \in Side : IsBest(s, best[s])
      /\ \A b \in Occupied("Buy"), a \in Occupied("Sell") : b < a
  BY <1>1 DEF QInv, Prices
<1>4. \A s \in Side : IsBest(s, best[s])'
  BY <1>1, <1>2, <1>3, StillBest
<1>5. \A s \in Side : \A p \in Occupied(s)' : NoBetter(s, p, best'[s])
  BY <1>1, <1>2, <1>3 DEF IsBest
<1>6. NoBetter(orders_'[taker_id'].side, best'[Opposite(orders_'[taker_id'].side)],
               orders_'[taker_id'].px)
  BY <1>1 DEF Crossing, NoBetter
<1>7. \A b \in Occupied("Buy")', a \in Occupied("Sell")' : b < a
  BY <1>2, <1>3 DEF Side
<1>8. \A p, q, s : NoBetter(s, p, q)' <=> NoBetter(s, p, q)
  BY DEF NoBetter
<1>9. QED
  BY <1>4, <1>5, <1>6, <1>7 DEF Prices

(* A fill of the maker leaves the taker as it is.                          *)
LEMMA TakerStays ==
  ASSUME IInv, TakeHead
  PROVE  /\ orders_'[taker_id].side = orders_[taker_id].side
         /\ orders_'[taker_id].px = orders_[taker_id].px
<1>1. /\ pc = "take" /\ remaining # 0 /\ Maker # 0
      /\ IF orders_[Maker].qty = Take
         THEN Release(UnlinkOrder(orders_, Maker), Maker)
         ELSE orders_' = [orders_ EXCEPT ![Maker].qty = @ - Take]
  BY TakeHeadIs
<1>2. taker_id \in Ids /\ Maker \in Ids /\ Maker # taker_id
  BY <1>1, MakerIs
<1>3. orders_ \in [Ids -> Order]
  BY QueueFacts
<1>4. CASE orders_[Maker].qty = Take
  <2>1. orders_' = [UnlinkOrder(orders_, Maker) EXCEPT ![Maker] = NoOrder]
    BY <1>1, <1>4 DEF Release
  <2>2. Skips(orders_, orders_', Maker)
    BY <1>2, <1>3, <2>1, UnlinkOrderIs
  <2>3. QED
    BY <1>2, <2>2 DEF Skips
<1>5. CASE orders_[Maker].qty # Take
  BY <1>1, <1>2, <1>3, <1>5
<1>6. QED
  BY <1>4, <1>5

(* A fill may empty the level, which the best price keeps for now.         *)
LEMMA TakePrices ==
  ASSUME NoWrap, QInv, TakeHead, IInv', LevelQtys'
  PROVE  Prices'
<1>1. /\ pc = "take" /\ pc' = "take" /\ Maker # 0
      /\ best' = best /\ taker_id' = taker_id
  BY TakeHeadIs
<1>2. IInv /\ LevelQtys /\ Prices
  BY DEF QInv
<1>3. /\ TakenSide \in Side /\ TakenPx \in Px
      /\ Queues[TakenSide][TakenPx] \in Seq(Ids)
      /\ taker_id \in Ids /\ Maker \in Ids /\ Maker # taker_id
      /\ 1 \in 1 .. Len(Queues[TakenSide][TakenPx])
  BY <1>1, <1>2, MakerIs
<1>4. /\ Queues \in [Side -> [Px -> Seq(Ids)]]
      /\ Queues' = IF orders_[Maker].qty = Take
                   THEN [Queues EXCEPT ![TakenSide][TakenPx] =
                           Drop(Queues[TakenSide][TakenPx], 1)]
                   ELSE Queues
  BY <1>2, QueueFacts, TakeKeeps
<1>5. /\ orders_'[taker_id].side = orders_[taker_id].side
      /\ orders_'[taker_id].px = orders_[taker_id].px
  BY <1>2, <1>3, TakerStays
<1>6. \A s \in Side, p \in Px :
        /\ (s # TakenSide \/ p # TakenPx) => Queues'[s][p] = Queues[s][p]
        /\ Queues[s][p] = << >> => Queues'[s][p] = << >>
  <2>1. TAKE s \in Side, p \in Px
  <2>2. CASE s # TakenSide \/ p # TakenPx
    BY <1>3, <1>4, <2>2
  <2>3. CASE s = TakenSide /\ p = TakenPx
    <3>1. Queues[s][p] # << >>
      BY <1>3, <2>3, EmptySeq
    <3>2. QED
      BY <2>3, <3>1
  <2>4. QED
    BY <2>2, <2>3
<1>7. \A s \in Side : /\ Occupied(s)' \subseteq Occupied(s)
                      /\ s # TakenSide => Occupied(s)' = Occupied(s)
  <2>1. TAKE s \in Side
  <2>2. /\ Occupied(s) \subseteq Px
        /\ \A p \in Px : p \in Occupied(s) <=> Queues[s][p] # << >>
    BY <1>2, OccupiedIs
  <2>3. /\ Occupied(s)' \subseteq Px
        /\ \A p \in Px : p \in Occupied(s)' <=> Queues'[s][p] # << >>
    BY NextOccupiedIs
  <2>4. QED
    BY <1>6, <2>2, <2>3
<1>8. /\ \A s \in Side : s # TakenSide => IsBest(s, best[s])
      /\ \A p \in Occupied(TakenSide) : NoBetter(TakenSide, p, best[TakenSide])
      /\ NoBetter(orders_[taker_id].side, best[TakenSide], orders_[taker_id].px)
      /\ \A b \in Occupied("Buy"), a \in Occupied("Sell") : b < a
  BY <1>1, <1>2, <1>3 DEF Prices, TakenSide
<1>9. \A s \in Side : s # TakenSide => IsBest(s, best[s])'
  BY <1>1, <1>7, <1>8, StillBest
<1>10. ASSUME NEW s \in Side, s = TakenSide
       PROVE  \A p \in Occupied(s)' : NoBetter(s, p, best'[s])
  <2>1. Occupied(s)' \subseteq Occupied(s)
    BY <1>7
  <2>2. \A p \in Occupied(s) : NoBetter(s, p, best[s])
    BY <1>8, <1>10
  <2>3. QED
    BY <1>1, <2>1, <2>2
<1>11. TakenSide' = TakenSide
  BY <1>1, <1>5 DEF TakenSide
<1>12. QED
  BY <1>1, <1>3, <1>5, <1>7, <1>8, <1>9, <1>10, <1>11 DEF Prices, TakenSide, Side

(* match moves the best price of a level that it emptied.                  *)
LEMMA LeavePrices ==
  ASSUME NoWrap, QInv, LeaveLevel
  PROVE  Prices'
<1>1. /\ pc = "take" /\ pc' = "match"
      /\ best' = IF levels[TakenSide][TakenPx].qty = 0
                 THEN [best EXCEPT ![TakenSide] = Tighten(TakenSide, levels, @)]
                 ELSE best
      /\ levels' = levels
  BY DEF LeaveLevel, TakenSide, TakenPx
<1>2. IInv /\ LevelQtys /\ Prices /\ best \in [Side -> Px \cup {0}]
  BY DEF QInv, IInv, TypeOK
<1>3. TakenSide \in Side /\ TakenPx \in Px
  BY <1>1, <1>2, MakerIs
<1>4. /\ \A s \in Side : s # TakenSide => IsBest(s, best[s])
      /\ \A p \in Occupied(TakenSide) : NoBetter(TakenSide, p, best[TakenSide])
      /\ \A b \in Occupied("Buy"), a \in Occupied("Sell") : b < a
  BY <1>1, <1>2, <1>3 DEF Prices, TakenSide
<1>5. \A s \in Side : Occupied(s)' = Occupied(s)
  BY <1>1 DEF Occupied
<1>6. \A s \in Side : s # TakenSide => best'[s] = best[s]
  BY <1>1, <1>2, <1>3
<1>7. \A s \in Side : s # TakenSide => IsBest(s, best[s])'
  BY <1>4, <1>5, <1>6, StillBest
<1>8. /\ Occupied(TakenSide) \subseteq Px
      /\ \A p \in Px : levels[TakenSide][p].qty = 0 <=> p \notin Occupied(TakenSide)
  BY <1>2, <1>3, OccupiedIs
<1>9. BestOf(Occupied(TakenSide), TakenSide, best'[TakenSide])
  <2>1. CASE levels[TakenSide][TakenPx].qty = 0
    <3>1. best'[TakenSide] = Tighten(TakenSide, levels, best[TakenSide])
      BY <1>1, <1>2, <1>3, <2>1
    <3>2. BestOf(Occupied(TakenSide), TakenSide,
                 Tighten(TakenSide, levels, best[TakenSide]))
      BY <1>3, <1>4, <1>8, TightenIs
    <3>3. QED
      BY <3>1, <3>2
  <2>2. CASE levels[TakenSide][TakenPx].qty # 0
    <3>1. best' = best /\ TakenPx \in Occupied(TakenSide)
      BY <1>1, <1>3, <1>8, <2>2
    <3>2. QED
      BY <1>4, <3>1 DEF BestOf, TakenPx
  <2>3. QED
    BY <2>1, <2>2
<1>10. ASSUME NEW s \in Side, s = TakenSide
       PROVE  IsBest(s, best[s])'
  BY <1>5, <1>9, <1>10 DEF IsBest, BestOf, NoBetter
<1>11. QED
  BY <1>1, <1>4, <1>5, <1>7, <1>10 DEF Prices, Side

(* The best price after one more: the comparison that insert makes.        *)
LEMMA Improves ==
  ASSUME NEW s \in Side, NEW O, O \subseteq Px, NEW b, BestOf(O, s, b), NEW p \in Px
  PROVE  BestOf(O \cup {p}, s,
                IF b = 0 \/ (s = "Buy" /\ p > b) \/ (s = "Sell" /\ p < b)
                THEN p ELSE b)
<1>1. p \in Nat /\ p # 0 /\ \A q \in O : q \in Nat /\ q # 0
  BY LobAssumption, LadderAssumption DEF Px
<1>2. CASE O = {}
  BY <1>1, <1>2 DEF BestOf, NoBetter
<1>3. CASE O # {}
  <2>1. b \in O /\ \A q \in O : NoBetter(s, q, b)
    BY <1>3 DEF BestOf
  <2>2. b \in Nat /\ b # 0
    BY <1>1, <2>1
  <2>3. CASE s = "Buy"
    BY <1>1, <2>1, <2>2, <2>3 DEF BestOf, NoBetter
  <2>4. CASE s = "Sell"
    BY <1>1, <2>1, <2>2, <2>4 DEF BestOf, NoBetter
  <2>5. QED
    BY <2>3, <2>4 DEF Side
<1>4. QED
  BY <1>2, <1>3

(* A price that does not cross the best of the other side crosses none.    *)
LEMMA Uncrossed ==
  ASSUME NEW s \in Side, NEW O, O \subseteq Px, NEW b, BestOf(O, Opposite(s), b),
         NEW p \in Px, b = 0 \/ ~ NoBetter(s, b, p), NEW q \in O
  PROVE  IF s = "Buy" THEN p < q ELSE q < p
<1>1. p \in Nat /\ q \in Nat /\ b \in Nat /\ b # 0 /\ NoBetter(Opposite(s), q, b)
  <2>1. b \in O /\ NoBetter(Opposite(s), q, b)
    BY DEF BestOf
  <2>2. \A x \in Px : x \in Nat /\ x # 0
    BY LobAssumption, LadderAssumption DEF Px
  <2>3. QED
    BY <2>1, <2>2
<1>2. CASE s = "Buy"
  BY <1>1, <1>2 DEF NoBetter, Opposite
<1>3. CASE s # "Buy"
  BY <1>1, <1>3 DEF NoBetter, Opposite
<1>4. QED
  BY <1>2, <1>3

(* An order rests only where it crosses nothing.                           *)
LEMMA EndPrices ==
  ASSUME NoWrap, QInv, EndLimit, IInv', LevelQtys'
  PROVE  Prices'
<1> DEFINE s == orders_[taker_id].side
           px == orders_[taker_id].px
           o == Opposite(s)
<1>1. pc = "match" /\ pc' = "idle" /\ ~ Crossing
  BY DEF EndLimit
<1>2. IInv /\ LevelQtys /\ Prices /\ best \in [Side -> Px \cup {0}]
  BY DEF QInv, IInv, TypeOK
<1>3. /\ \A r \in Side : IsBest(r, best[r])
      /\ \A b \in Occupied("Buy"), a \in Occupied("Sell") : b < a
  BY <1>1, <1>2 DEF Prices
<1>4. /\ s \in Side /\ px \in Px
      /\ Queues' = IF remaining = 0 THEN Queues
                   ELSE [Queues EXCEPT ![s][px] = Append(Queues[s][px], taker_id)]
      /\ taker_id \in Ids
  BY <1>2, EndKeeps
<1>5. CASE remaining = 0
  <2>1. levels' = levels /\ best' = best
    BY <1>5 DEF EndLimit
  <2>2. \A r \in Side : Occupied(r)' = Occupied(r)
    BY <2>1 DEF Occupied
  <2>3. \A r \in Side : IsBest(r, best[r])'
    BY <1>3, <2>1, <2>2, StillBest
  <2>4. QED
    BY <1>1, <1>3, <2>2, <2>3 DEF Prices, Side
<1>6. CASE remaining # 0
  <2>1. best' = [best EXCEPT ![s] =
                   IF \/ @ = 0
                      \/ s = "Buy" /\ px > @
                      \/ s = "Sell" /\ px < @
                   THEN px ELSE @]
    BY <1>2, <1>6, RestIs
  <2>2. best[o] = 0 \/ ~ NoBetter(s, best[o], px)
    BY <1>1, <1>6 DEF Crossing, NoBetter
  <2> HIDE DEF s, px
  <2>3. o \in Side /\ o # s /\ \A r \in Side : r = s \/ r = o
    BY <1>4 DEF Side, Opposite
  <2>4. /\ Queues \in [Side -> [Px -> Seq(Ids)]] /\ Queues[s][px] \in Seq(Ids)
    BY <1>2, <1>4, QueueFacts
  <2>5. Queues'[s][px] # << >>
        /\ \A r \in Side, p \in Px : (r # s \/ p # px) => Queues'[r][p] = Queues[r][p]
    <3>1. /\ Queues'[s][px] = Append(Queues[s][px], taker_id)
          /\ \A r \in Side, p \in Px : (r # s \/ p # px) => Queues'[r][p] = Queues[r][p]
      BY <1>4, <1>6, <2>4
    <3>2. Append(Queues[s][px], taker_id) # << >>
      BY <1>4, <2>4, AppendProperties
    <3>3. QED
      BY <3>1, <3>2
  <2> HIDE DEF o
  <2>6. \A r \in Side : /\ Occupied(r) \subseteq Px
                        /\ \A p \in Px : p \in Occupied(r) <=> Queues[r][p] # << >>
    BY <1>2, OccupiedIs
  <2>7. \A r \in Side : /\ Occupied(r)' \subseteq Px
                        /\ \A p \in Px : p \in Occupied(r)' <=> Queues'[r][p] # << >>
    BY NextOccupiedIs
  <2>8. ASSUME NEW r \in Side, r = s
        PROVE  Occupied(r)' = Occupied(r) \cup {px}
    BY <1>4, <2>5, <2>6, <2>7, <2>8
  <2>9. ASSUME NEW r \in Side, r = o
        PROVE  Occupied(r)' = Occupied(r)
    <3>1. \A p \in Px : Queues'[r][p] = Queues[r][p]
      BY <2>3, <2>5, <2>9
    <3>2. QED
      BY <2>6, <2>7, <3>1
  <2>10. \A r \in Side : BestOf(Occupied(r), r, best[r])
    BY <1>3 DEF IsBest, BestOf
  <2>11. ASSUME NEW r \in Side, r = s
         PROVE  IsBest(r, best[r])'
    <3>1. BestOf(Occupied(r) \cup {px}, r,
                 IF best[r] = 0 \/ (r = "Buy" /\ px > best[r])
                                 \/ (r = "Sell" /\ px < best[r])
                 THEN px ELSE best[r])
      BY <1>4, <2>6, <2>10, Improves
    <3>2. best'[r] = IF best[r] = 0 \/ (r = "Buy" /\ px > best[r])
                                 \/ (r = "Sell" /\ px < best[r])
                     THEN px ELSE best[r]
      BY <1>2, <2>1, <2>11
    <3>3. BestOf(Occupied(r)', r, best'[r])
      BY <2>8, <2>11, <3>1, <3>2
    <3>4. QED
      BY <3>3 DEF BestOf, IsBest, NoBetter
  <2>12. ASSUME NEW r \in Side, r = o
         PROVE  IsBest(r, best[r])'
    <3>1. best'[r] = best[r]
      BY <1>2, <1>4, <2>1, <2>3, <2>12
    <3>2. QED
      BY <1>3, <2>9, <2>12, <3>1, StillBest
  <2>13. \A q \in Occupied(o) : IF s = "Buy" THEN px < q ELSE q < px
    BY <1>4, <2>2, <2>3, <2>6, <2>10, Uncrossed DEF o
  <2>14. \A b \in Occupied("Buy")', a \in Occupied("Sell")' : b < a
    <3>1. CASE s = "Buy"
      <4>1. o = "Sell" /\ "Sell" \in Side
        BY <3>1 DEF o, Opposite, Side
      <4>2. Occupied("Buy")' = Occupied("Buy") \cup {px}
            /\ Occupied("Sell")' = Occupied("Sell")
        BY <1>4, <2>8, <2>9, <3>1, <4>1
      <4>3. QED
        BY <1>3, <2>13, <3>1, <4>1, <4>2
    <3>2. CASE s = "Sell"
      <4>1. o = "Buy" /\ "Buy" \in Side
        BY <3>2 DEF o, Opposite, Side
      <4>2. Occupied("Sell")' = Occupied("Sell") \cup {px}
            /\ Occupied("Buy")' = Occupied("Buy")
        BY <1>4, <2>8, <2>9, <3>2, <4>1
      <4>3. QED
        BY <1>3, <2>13, <3>2, <4>1, <4>2
    <3>3. QED
      BY <1>4, <3>1, <3>2 DEF Side
  <2>15. QED
    BY <1>1, <2>3, <2>11, <2>12, <2>14 DEF Prices
<1>7. QED
  BY <1>5, <1>6

(* A cancel that empties the best level moves the best price.              *)
LEMMA CancelPrices ==
  ASSUME NoWrap, QInv, NEW id \in Ids, Cancel(id), IInv', LevelQtys'
  PROVE  Prices'
<1> DEFINE s == orders_[id].side
           px == orders_[id].px
           lv == [levels[s][px] EXCEPT !.qty = (@ - orders_[id].qty) % QtyMod]
<1>1. /\ pc = "idle" /\ pc' = "idle"
      /\ levels' = [levels EXCEPT ![s][px] = UnlinkLevel(lv, orders_[id])]
      /\ best' = IF lv.qty = 0 /\ px = best[s]
                 THEN [best EXCEPT ![s] = Tighten(s, levels', @)]
                 ELSE best
  BY DEF Cancel
<1>2. IInv /\ LevelQtys /\ Prices /\ best \in [Side -> Px \cup {0}]
  BY DEF QInv, IInv, TypeOK
<1>3. /\ \A r \in Side : IsBest(r, best[r])
      /\ \A b \in Occupied("Buy"), a \in Occupied("Sell") : b < a
  BY <1>1, <1>2 DEF Prices
<1>4. s \in Side /\ px \in Px
  BY <1>2, CancelKeeps
<1>5. PICK k \in 1 .. Len(Queues[s][px]) :
        Queues' = [Queues EXCEPT ![s][px] = Drop(Queues[s][px], k)]
  BY <1>2, CancelKeeps
<1>6. /\ Queues \in [Side -> [Px -> Seq(Ids)]] /\ Queues[s][px] \in Seq(Ids)
      /\ levels \in [Side -> [Px -> Level]]
  BY <1>2, <1>4, QueueFacts
<1>7. Queues[s][px] # << >>
  BY <1>5, EmptySeq
<1> HIDE DEF s, px
<1>8. \A r \in Side, p \in Px : (r # s \/ p # px) => Queues'[r][p] = Queues[r][p]
  BY <1>5, <1>6
<1>9. \A r \in Side : /\ Occupied(r) \subseteq Px
                      /\ \A p \in Px : p \in Occupied(r) <=> Queues[r][p] # << >>
  BY <1>2, OccupiedIs
<1>10. \A r \in Side : /\ Occupied(r)' \subseteq Px
                       /\ \A p \in Px : /\ p \in Occupied(r)' <=> Queues'[r][p] # << >>
                                        /\ levels'[r][p].qty = 0 <=> p \notin Occupied(r)'
  BY NextOccupiedIs
<1>11. \A r \in Side : Occupied(r)' \subseteq Occupied(r)
                       /\ (r # s => Occupied(r)' = Occupied(r))
  <2>1. TAKE r \in Side
  <2>2. /\ Occupied(r) \subseteq Px /\ Occupied(r)' \subseteq Px
        /\ \A p \in Px : /\ p \in Occupied(r) <=> Queues[r][p] # << >>
                         /\ p \in Occupied(r)' <=> Queues'[r][p] # << >>
    BY <1>9, <1>10
  <2>3. CASE r # s
    <3>1. \A p \in Px : Queues'[r][p] = Queues[r][p]
      BY <1>8, <2>3
    <3>2. QED
      BY <2>2, <3>1
  <2>4. CASE r = s
    <3>1. \A p \in Px : p # px => Queues'[r][p] = Queues[r][p]
      BY <1>8
    <3>2. QED
      BY <1>7, <2>2, <2>4, <3>1
  <2>5. QED
    BY <2>3, <2>4
<1>12. levels'[s][px].qty = lv.qty
  BY <1>1, <1>4, <1>6 DEF UnlinkLevel, Level
<1> HIDE DEF lv
<1>13. ASSUME NEW r \in Side, r # s
       PROVE  IsBest(r, best[r])'
  <2>1. best'[r] = best[r] /\ Occupied(r)' = Occupied(r)
    BY <1>1, <1>2, <1>4, <1>11, <1>13
  <2>2. QED
    BY <1>3, <2>1, StillBest
<1>14. ASSUME NEW r \in Side, r = s
       PROVE  IsBest(r, best[r])'
  <2>1. px \in Occupied(r) /\ best[r] \in Occupied(r)
        /\ \A p \in Occupied(r) : NoBetter(r, p, best[r])
    BY <1>3, <1>4, <1>7, <1>9, <1>14 DEF IsBest
  <2>2. \A p \in Occupied(r)' : NoBetter(r, p, best[r])
    BY <1>11, <2>1
  <2>3. BestOf(Occupied(r)', r, best'[r])
    <3>1. CASE lv.qty = 0 /\ px = best[s]
      <4>1. best'[r] = Tighten(r, levels', best[r])
        BY <1>1, <1>2, <1>14, <3>1
      <4>2. BestOf(Occupied(r)', r, Tighten(r, levels', best[r]))
        BY <1>10, <2>2, TightenIs
      <4>3. QED
        BY <4>1, <4>2
    <3>2. CASE ~ (lv.qty = 0 /\ px = best[s])
      <4>1. best' = best
        BY <1>1, <3>2
      <4>2. best[r] \in Occupied(r)'
        <5>1. CASE px = best[s]
          BY <1>4, <1>10, <1>12, <1>14, <3>2, <5>1
        <5>2. CASE px # best[s]
          BY <1>8, <1>9, <1>10, <1>14, <2>1, <5>2
        <5>3. QED
          BY <5>1, <5>2
      <4>3. QED
        BY <2>2, <4>1, <4>2 DEF BestOf
    <3>3. QED
      BY <3>1, <3>2
  <2>4. QED
    BY <2>3 DEF BestOf, IsBest, NoBetter
<1>15. \A b \in Occupied("Buy")', a \in Occupied("Sell")' : b < a
  <2>1. "Buy" \in Side /\ "Sell" \in Side
    BY DEF Side
  <2>2. Occupied("Buy")' \subseteq Occupied("Buy")
        /\ Occupied("Sell")' \subseteq Occupied("Sell")
    BY <1>11, <2>1
  <2>3. QED
    BY <1>3, <2>2
<1>16. QED
  BY <1>1, <1>13, <1>14, <1>15 DEF Prices

(* The slot that limit takes is in no queue.                               *)
LEMMA FreeTop ==
  ASSUME IInv, NEW side, NEW px, NEW qty, Limit(side, px, qty)
  PROVE  /\ taker_id' \in Ids /\ orders_[taker_id'].qty = 0
<1>1. free_ # << >> /\ taker_id' = free_[Len(free_)] /\ free_ \in Seq(Ids)
  BY DEF Limit, IInv, TypeOK
<1>2. Len(free_) \in 1 .. Len(free_) /\ taker_id' \in Ids
  BY <1>1, FrontIs
<1>3. \A k \in 1 .. Len(free_) : orders_[free_[k]].qty = 0
  BY Zenon DEF IInv, Placed
<1>4. QED
  BY <1>1, <1>2, <1>3

(* A new book has no prices.                                               *)
LEMMA InitPrices ==
  ASSUME NoWrap, Init
  PROVE  QInv
<1>1. IInv
  BY InitHolds
<1>2. /\ \A s \in Side, p \in Px : levels[s][p] = NoLevel
      /\ \A s \in Side : best[s] = 0
      /\ pc = "idle"
  BY DEF Init
<1>3. NoLevel.head = 0 /\ NoLevel.qty = 0
  BY DEF NoLevel
<1>4. \A s \in Side : Occupied(s) = {}
  BY <1>2, <1>3 DEF Occupied
<1>5. LevelQtys
  <2>1. SUFFICES ASSUME NEW s \in Side, NEW p \in Px
        PROVE  levels[s][p].qty = Total(Queues[s][p], orders_)
    BY DEF LevelQtys
  <2>2. Queues[s][p] = << >>
    BY <1>1, <1>2, <1>3, HeadIs
  <2>3. orders_ \in [Ids -> Order] /\ Queues[s][p] \in Seq(Ids)
    BY <1>1, QueueFacts
  <2>4. Total(Queues[s][p], orders_) = 0
    <3> DEFINE f == Queues[s][p]
    <3>1. f \in Seq(Ids) /\ f = << >>
      BY <2>2, <2>3
    <3> HIDE DEF f
    <3>2. OneToOne(f) /\ \A k \in 1 .. Len(f) : orders_[f[k]].qty # 0
      BY <3>1 DEF OneToOne
    <3>3. QED
      BY <2>3, <3>1, <3>2, TotalFits DEF f
  <2>5. QED
    BY <1>2, <1>3, <2>4
<1>6. Prices
  BY <1>2, <1>4 DEF Prices, IsBest, Side
<1>7. QED
  BY <1>1, <1>5, <1>6 DEF QInv

(* While no quantity wraps, the counts and the cached prices are right at  *)
(* every step, in the middle of a call too.                                *)
THEOREM PricesInvariant == NoWrap => (Spec => []QInv)
<1>1. SUFFICES ASSUME NoWrap
      PROVE  Spec => []QInv
  OBVIOUS
<1>2. Init => QInv
  BY <1>1, InitPrices
<1>3. QInv /\ [Next]_vars => QInv'
  <2>1. SUFFICES ASSUME QInv, [Next]_vars
        PROVE  QInv'
    OBVIOUS
  <2>2. IInv /\ LevelQtys
    BY <2>1 DEF QInv
  <2>3. ASSUME levels' = levels, IInv', Queues' = Queues,
               \A s \in Side, p \in Px : \A k \in 1 .. Len(Queues[s][p]) :
                 orders_'[Queues[s][p][k]].qty = orders_[Queues[s][p][k]].qty
        PROVE  LevelQtys'
    <3>1. \A s \in Side, p \in Px : Untouched(s, p)
      BY <2>3 DEF Untouched
    <3>2. orders_' \in [Ids -> Order]
      BY <2>3, NextQueueFacts
    <3>3. QED
      BY <2>2, <3>1, <3>2, CountKept DEF LevelQtys
  <2>4. ASSUME NEW side \in Side, NEW px \in Px, NEW qty \in 1 .. MaxQty,
               Limit(side, px, qty)
        PROVE  QInv'
    <3>1. /\ IInv' /\ Queues' = Queues /\ levels' = levels
          /\ \A i \in Ids : i # taker_id' => orders_'[i] = orders_[i]
      BY <2>2, <2>4, LimitKeeps DEF Limit
    <3>2. \A s \in Side, p \in Px : \A k \in 1 .. Len(Queues[s][p]) :
            orders_'[Queues[s][p][k]].qty = orders_[Queues[s][p][k]].qty
      <4>1. TAKE s \in Side, p \in Px
      <4>2. TAKE k \in 1 .. Len(Queues[s][p])
      <4>3. Queues[s][p][k] \in Ids /\ orders_[Queues[s][p][k]].qty # 0
        BY <2>2, QueueFacts
      <4>4. Queues[s][p][k] # taker_id'
        BY <2>2, <2>4, <4>3, FreeTop
      <4>5. QED
        BY <3>1, <4>3, <4>4
    <3>3. LevelQtys'
      BY <2>3, <3>1, <3>2
    <3>4. Prices'
      BY <2>1, <2>4, LimitPrices
    <3>5. QED
      BY <3>1, <3>3, <3>4 DEF QInv
  <2>5. CASE EnterLevel
    <3>1. IInv' /\ Queues' = Queues /\ levels' = levels /\ orders_' = orders_
      BY <2>2, <2>5, EnterKeeps DEF EnterLevel
    <3>2. LevelQtys'
      BY <2>3, <3>1
    <3>3. QED
      BY <2>1, <2>5, <3>1, <3>2, EnterPrices DEF QInv
  <2>6. CASE TakeHead
    <3>1. IInv' /\ LevelQtys'
      BY <1>1, <2>2, <2>6, TakeKeeps, TakeCounts
    <3>2. QED
      BY <1>1, <2>1, <2>6, <3>1, TakePrices DEF QInv
  <2>7. CASE LeaveLevel
    <3>1. IInv' /\ Queues' = Queues /\ levels' = levels /\ orders_' = orders_
      BY <2>2, <2>7, LeaveKeeps DEF LeaveLevel
    <3>2. LevelQtys'
      BY <2>3, <3>1
    <3>3. QED
      BY <1>1, <2>1, <2>7, <3>1, <3>2, LeavePrices DEF QInv
  <2>8. CASE EndLimit
    <3>1. IInv' /\ LevelQtys'
      BY <1>1, <2>2, <2>8, EndKeeps, EndCounts
    <3>2. QED
      BY <1>1, <2>1, <2>8, <3>1, EndPrices DEF QInv
  <2>9. ASSUME NEW id \in Ids, Cancel(id)
        PROVE  QInv'
    <3>1. IInv' /\ LevelQtys'
      BY <1>1, <2>2, <2>9, CancelKeeps, CancelCounts
    <3>2. QED
      BY <1>1, <2>1, <2>9, <3>1, CancelPrices DEF QInv
  <2>10. CASE UNCHANGED vars
    BY <2>1, <2>10 DEF vars, QInv, IInv, TypeOK, Control, ListsLinked, Queues, Fifo,
       LevelQtys, Prices, Occupied, IsBest
  <2>11. QED
    BY <2>1, <2>4, <2>5, <2>6, <2>7, <2>8, <2>9, <2>10 DEF Next
<1>4. QED
  BY <1>2, <1>3, PTL DEF Spec

(* Between calls the cached best prices are the best prices at which       *)
(* orders rest, and the sides do not cross.                                *)
THEOREM BestPrices == NoWrap => (Spec => []BestIsBest)
<1>1. ASSUME QInv
      PROVE  BestIsBest
  <2>1. SUFFICES ASSUME pc = "idle"
        PROVE  /\ \A s \in Side : IsBest(s, best[s])
               /\ best["Buy"] # 0 /\ best["Sell"] # 0 => best["Buy"] < best["Sell"]
    BY DEF BestIsBest
  <2>2. /\ \A s \in Side : IsBest(s, best[s])
        /\ \A b \in Occupied("Buy"), a \in Occupied("Sell") : b < a
    BY <1>1, <2>1 DEF QInv, Prices
  <2>3. \A s \in Side : best[s] # 0 => best[s] \in Occupied(s)
    BY <2>2 DEF IsBest
  <2>4. QED
    BY <2>2, <2>3 DEF Side
<1>2. QED
  BY <1>1, PricesInvariant, PTL
-----------------------------------------------------------------------------
(* The refinement of PriceTimeBook.  First, the queues as it has them.     *)
EntryOf(I) == [id : I, qty : 0 .. MaxQty]
Entry == [id : Ids, qty : 0 .. MaxQty]

LEMMA Entries == EntryOf(Ids) = Entry
BY DEF EntryOf, Entry

LEMMA AnyResting ==
  ASSUME NEW I, NEW f \in Seq(I), NEW os, Counted(os, I)
  PROVE  /\ Resting(f, os) \in Seq(EntryOf(I)) /\ Len(Resting(f, os)) = Len(f)
         /\ DOMAIN Resting(f, os) = 1 .. Len(f)
         /\ \A k \in 1 .. Len(f) : Resting(f, os)[k] = [id |-> f[k], qty |-> os[f[k]].qty]
         /\ Resting(f, os) = << >> <=> f = << >>
<1>1. Len(f) \in Nat /\ DOMAIN f = 1 .. Len(f) /\ \A k \in 1 .. Len(f) : f[k] \in I
  BY LenProperties, ElementOfSeq
<1>2. \A i \in I : os[i].qty \in 0 .. MaxQty
  BY DEF Counted
<1>3. Resting(f, os) = [k \in 1 .. Len(f) |-> [id |-> f[k], qty |-> os[f[k]].qty]]
  BY <1>1 DEF Resting
<1>4. \A k \in 1 .. Len(f) : [id |-> f[k], qty |-> os[f[k]].qty] \in EntryOf(I)
  BY <1>1, <1>2 DEF EntryOf
<1>5. Resting(f, os) \in Seq(EntryOf(I))
  BY <1>1, <1>3, <1>4, IsASeq
<1>6. Len(Resting(f, os)) = Len(f) /\ DOMAIN Resting(f, os) = 1 .. Len(f)
  BY <1>1, <1>3, <1>5, LenProperties
<1>7. Resting(f, os) = << >> <=> f = << >>
  BY <1>5, <1>6, EmptySeq
<1>8. QED
  BY <1>3, <1>5, <1>6, <1>7

(* R is the queue f as PriceTimeBook has it.                               *)
RestsIn(R, f, os, I) ==
  /\ R \in Seq(EntryOf(I)) /\ Len(R) = Len(f)
  /\ \A k \in 1 .. Len(f) : R[k] = [id |-> f[k], qty |-> os[f[k]].qty]

LEMMA RestingRests ==
  ASSUME NEW I, NEW f \in Seq(I), NEW os, Counted(os, I)
  PROVE  RestsIn(Resting(f, os), f, os, I)
BY AnyResting DEF RestsIn

LEMMA RestingIs ==
  ASSUME NEW f \in Seq(Ids), NEW os \in [Ids -> Order]
  PROVE  /\ Resting(f, os) \in Seq(Entry) /\ Len(Resting(f, os)) = Len(f)
         /\ DOMAIN Resting(f, os) = 1 .. Len(f)
         /\ \A k \in 1 .. Len(f) : Resting(f, os)[k] = [id |-> f[k], qty |-> os[f[k]].qty]
         /\ Resting(f, os) = << >> <=> f = << >>
BY OrdersCounted, AnyResting, Entries

LEMMA AnyRestingSame ==
  ASSUME NEW I, NEW f \in Seq(I), NEW os, NEW os2,
         \A k \in 1 .. Len(f) : os2[f[k]].qty = os[f[k]].qty
  PROVE  Resting(f, os2) = Resting(f, os)
<1>1. DOMAIN f = 1 .. Len(f)
  BY LenProperties
<1>2. QED
  BY <1>1 DEF Resting

LEMMA RestingSame ==
  ASSUME NEW f \in Seq(Ids), NEW os, NEW os2,
         \A k \in 1 .. Len(f) : os2[f[k]].qty = os[f[k]].qty
  PROVE  Resting(f, os2) = Resting(f, os)
BY AnyRestingSame

(* All orders of f but the k-th keep their quantity.                       *)
SameBut(f, os, os2, k) ==
  \A j \in 1 .. Len(f) : j # k => os2[f[j]].qty = os[f[j]].qty

LEMMA OthersSkipped ==
  ASSUME NEW f \in Seq(Ids), NEW os, NEW os2, OneToOne(f), NEW k \in 1 .. Len(f),
         Skips(os, os2, f[k])
  PROVE  SameBut(f, os, os2, k)
<1>1. \A j \in 1 .. Len(f) : f[j] \in Ids /\ (j # k => f[j] # f[k])
  BY ElementOfSeq DEF OneToOne
<1>2. QED
  BY <1>1 DEF Skips, SameBut

(* An order leaves a queue: ...                                            *)
(* The list f without its k-th entry, as PriceTimeBook writes it.          *)
CutOut(f, k) == SubSeq(f, 1, k - 1) \o SubSeq(f, k + 1, Len(f))

LEMMA CutIsDrop ==
  ASSUME NEW I, NEW f \in Seq(I), NEW k \in 1 .. Len(f)
  PROVE  CutOut(f, k) = Drop(f, k)
<1> DEFINE n == Len(f)
           g == Drop(f, k)
           A == SubSeq(f, 1, k - 1)
           B == SubSeq(f, k + 1, n)
<1>1. n \in Nat /\ k \in 1 .. n /\ \A j \in 1 .. n : f[j] \in I
  BY LenProperties, ElementOfSeq
<1>2. /\ g \in Seq(I) /\ Len(g) = n - 1
      /\ \A j \in 1 .. n - 1 : g[j] = IF j < k THEN f[j] ELSE f[j + 1]
  BY AnyDrop
<1> HIDE DEF n, g
<1>3. /\ A \in Seq(I) /\ Len(A) = k - 1
      /\ \A j \in 1 .. k - 1 : A[j] = f[j]
  <2>1. 1 \in Int /\ k - 1 \in Int /\ \A j \in 1 .. k - 1 : f[j] \in I
    BY <1>1
  <2>2. /\ A \in Seq(I)
        /\ Len(A) = IF 1 <= k - 1 THEN k - 1 - 1 + 1 ELSE 0
        /\ \A j \in 1 .. k - 1 - 1 + 1 : A[j] = f[1 + j - 1]
    BY <2>1, SubSeqProperties
  <2> HIDE DEF A
  <2>3. Len(A) = k - 1
    BY <1>1, <2>2
  <2>4. ASSUME NEW j \in 1 .. k - 1
        PROVE  A[j] = f[j]
    <3>1. j \in 1 .. k - 1 - 1 + 1 /\ 1 + j - 1 = j
      BY <1>1
    <3>2. QED
      BY <2>2, <3>1
  <2>5. QED
    BY <2>2, <2>3, <2>4
<1>4. /\ B \in Seq(I) /\ Len(B) = n - k
      /\ \A j \in 1 .. n - k : B[j] = f[k + j]
  <2>1. k + 1 \in Int /\ n \in Int /\ \A j \in k + 1 .. n : f[j] \in I
    BY <1>1
  <2>2. /\ B \in Seq(I)
        /\ Len(B) = IF k + 1 <= n THEN n - (k + 1) + 1 ELSE 0
        /\ \A j \in 1 .. n - (k + 1) + 1 : B[j] = f[k + 1 + j - 1]
    BY <2>1, SubSeqProperties
  <2> HIDE DEF B
  <2>3. Len(B) = n - k
    BY <1>1, <2>2
  <2>4. ASSUME NEW j \in 1 .. n - k
        PROVE  B[j] = f[k + j]
    <3>1. j \in 1 .. n - (k + 1) + 1 /\ k + 1 + j - 1 = k + j
      BY <1>1
    <3>2. QED
      BY <2>2, <3>1
  <2>5. QED
    BY <2>2, <2>3, <2>4
<1> HIDE DEF A, B
<1>5. /\ A \o B \in Seq(I) /\ Len(A \o B) = n - 1
      /\ \A j \in 1 .. n - 1 : (A \o B)[j] = IF j <= k - 1 THEN A[j] ELSE B[j - (k - 1)]
  <2>1. /\ A \o B \in Seq(I) /\ Len(A \o B) = Len(A) + Len(B)
        /\ \A j \in 1 .. Len(A) + Len(B) :
             (A \o B)[j] = IF j <= Len(A) THEN A[j] ELSE B[j - Len(A)]
    BY <1>3, <1>4, ConcatProperties
  <2>2. Len(A) + Len(B) = n - 1
    BY <1>1, <1>3, <1>4
  <2>3. QED
    BY <1>3, <2>1, <2>2
<1>6. ASSUME NEW j \in 1 .. n - 1
      PROVE  g[j] = (A \o B)[j]
  <2>1. CASE j < k
    <3>1. j <= k - 1 /\ j \in 1 .. k - 1 /\ g[j] = f[j]
      BY <1>1, <1>2, <2>1
    <3>2. QED
      BY <1>3, <1>5, <3>1
  <2>2. CASE ~ (j < k)
    <3>1. g[j] = f[j + 1]
      BY <1>2, <2>2
    <3>2. ~ (j <= k - 1) /\ j - (k - 1) \in 1 .. n - k /\ k + (j - (k - 1)) = j + 1
      BY <1>1, <2>2
    <3>3. (A \o B)[j] = f[j + 1]
      BY <1>4, <1>5, <3>2
    <3>4. QED
      BY <3>1, <3>3
  <2>3. QED
    BY <2>1, <2>2
<1>7. g = A \o B
  BY <1>2, <1>5, <1>6, SeqEqual
<1>8. QED
  BY <1>7 DEF CutOut, A, B, g, n

LEMMA AnyRestingDrop ==
  ASSUME NEW I, NEW f \in Seq(I), NEW os, Counted(os, I), NEW os2, Counted(os2, I),
         OneToOne(f), NEW k \in 1 .. Len(f), SameBut(f, os, os2, k)
  PROVE  Resting(Drop(f, k), os2) = CutOut(Resting(f, os), k)
<1> DEFINE n == Len(f)
           R == Resting(f, os)
           g == Drop(f, k)
           R2 == Resting(g, os2)
<1>1. n \in Nat /\ k \in 1 .. n
  BY LenProperties
<1>2. /\ R \in Seq(EntryOf(I)) /\ Len(R) = n
      /\ \A j \in 1 .. n : R[j] = [id |-> f[j], qty |-> os[f[j]].qty]
  BY AnyResting
<1>3. /\ g \in Seq(I) /\ Len(g) = n - 1
      /\ \A j \in 1 .. n - 1 : g[j] = IF j < k THEN f[j] ELSE f[j + 1]
  BY AnyDrop
<1>4. /\ R2 \in Seq(EntryOf(I)) /\ Len(R2) = n - 1
      /\ \A j \in 1 .. n - 1 : R2[j] = [id |-> g[j], qty |-> os2[g[j]].qty]
  <2>1. g \in Seq(I) /\ Counted(os2, I)
    BY <1>3
  <2>2. RestsIn(R2, g, os2, I)
    BY <2>1, RestingRests
  <2>3. QED
    BY <1>3, <2>2 DEF RestsIn
<1>5. \A j \in 1 .. n : j # k => os2[f[j]].qty = os[f[j]].qty
  BY DEF SameBut
<1>6. CutOut(R, k) = Drop(R, k)
  BY <1>1, <1>2, CutIsDrop
<1>7. /\ Drop(R, k) \in Seq(EntryOf(I)) /\ Len(Drop(R, k)) = n - 1
      /\ \A j \in 1 .. n - 1 : Drop(R, k)[j] = IF j < k THEN R[j] ELSE R[j + 1]
  BY <1>1, <1>2, AnyDrop
<1> HIDE DEF n, R, g, R2
<1>8. ASSUME NEW j \in 1 .. n - 1
      PROVE  R2[j] = Drop(R, k)[j]
  <2>1. CASE j < k
    <3>1. j \in 1 .. n /\ j # k /\ g[j] = f[j] /\ Drop(R, k)[j] = R[j]
      BY <1>1, <1>3, <1>7, <2>1
    <3>2. R2[j] = [id |-> f[j], qty |-> os[f[j]].qty]
      BY <1>4, <1>5, <3>1
    <3>3. QED
      BY <1>2, <3>1, <3>2
  <2>2. CASE ~ (j < k)
    <3>1. g[j] = f[j + 1] /\ Drop(R, k)[j] = R[j + 1]
      BY <1>3, <1>7, <2>2
    <3>2. j + 1 \in 1 .. n /\ j + 1 # k
      BY <1>1, <2>2
    <3>3. R2[j] = [id |-> f[j + 1], qty |-> os[f[j + 1]].qty]
      BY <1>4, <1>5, <3>1, <3>2
    <3>4. QED
      BY <1>2, <3>1, <3>2, <3>3
  <2>3. QED
    BY <2>1, <2>2
<1>9. R2 = Drop(R, k)
  BY <1>4, <1>7, <1>8, SeqEqual
<1>10. QED
  BY <1>6, <1>9 DEF R, R2, g, n

LEMMA RestingDrop ==
  ASSUME NEW f \in Seq(Ids), NEW os \in [Ids -> Order], NEW os2 \in [Ids -> Order],
         OneToOne(f), NEW k \in 1 .. Len(f), Skips(os, os2, f[k])
  PROVE  Resting(Drop(f, k), os2)
           = SubSeq(Resting(f, os), 1, k - 1) \o SubSeq(Resting(f, os), k + 1, Len(f))
<1>1. Counted(os, Ids) /\ Counted(os2, Ids)
  BY OrdersCounted
<1>2. SameBut(f, os, os2, k)
  BY OthersSkipped
<1>3. Resting(Drop(f, k), os2) = CutOut(Resting(f, os), k)
  BY <1>1, <1>2, AnyRestingDrop
<1>4. Len(Resting(f, os)) = Len(f)
  BY RestingIs
<1>5. QED
  BY <1>3, <1>4 DEF CutOut

(* ... the first one, or ...                                               *)
LEMMA AnyRestingTail ==
  ASSUME NEW I, NEW f \in Seq(I), NEW os, Counted(os, I), NEW os2, Counted(os2, I),
         OneToOne(f), 1 \in 1 .. Len(f), SameBut(f, os, os2, 1)
  PROVE  Resting(Drop(f, 1), os2) = Tail(Resting(f, os))
<1>1. /\ Resting(f, os) \in Seq(EntryOf(I)) /\ Len(Resting(f, os)) = Len(f)
      /\ Resting(f, os) # << >> /\ Len(f) \in Nat
  BY AnyResting, LenProperties, EmptySeq
<1>2. Resting(Drop(f, 1), os2)
        = SubSeq(Resting(f, os), 1, 1 - 1) \o SubSeq(Resting(f, os), 1 + 1, Len(f))
  <2>1. Resting(Drop(f, 1), os2) = CutOut(Resting(f, os), 1)
    BY AnyRestingDrop
  <2>2. QED
    BY <1>1, <2>1 DEF CutOut
<1>3. SubSeq(Resting(f, os), 1, 1 - 1) = << >>
  BY SubSeqEmpty
<1>4. Tail(Resting(f, os)) = SubSeq(Resting(f, os), 2, Len(f))
      /\ Tail(Resting(f, os)) \in Seq(EntryOf(I))
  BY <1>1, TailIsSubSeq, HeadTailProperties
<1>5. 1 + 1 = 2
  OBVIOUS
<1>6. QED
  BY <1>2, <1>3, <1>4, <1>5, ConcatEmptySeq

LEMMA RestingTail ==
  ASSUME NEW f \in Seq(Ids), NEW os \in [Ids -> Order], NEW os2 \in [Ids -> Order],
         OneToOne(f), 1 \in 1 .. Len(f), Skips(os, os2, f[1])
  PROVE  Resting(Drop(f, 1), os2) = Tail(Resting(f, os))
<1>1. Counted(os, Ids) /\ Counted(os2, Ids)
  BY OrdersCounted
<1>2. SameBut(f, os, os2, 1)
  BY OthersSkipped
<1>3. QED
  BY <1>1, <1>2, AnyRestingTail

(* ... a part of the first one.                                            *)
LEMMA AnyRestingReduced ==
  ASSUME NEW I, NEW f \in Seq(I), NEW os, Counted(os, I), NEW os2, Counted(os2, I),
         NEW t, 1 \in 1 .. Len(f), os2[f[1]].qty = os[f[1]].qty - t,
         \A k \in 1 .. Len(f) : k # 1 => os2[f[k]].qty = os[f[k]].qty
  PROVE  Resting(f, os2) = [Resting(f, os) EXCEPT ![1].qty = @ - t]
<1>1. /\ Resting(f, os) = [k \in 1 .. Len(f) |-> [id |-> f[k], qty |-> os[f[k]].qty]]
      /\ Resting(f, os2) = [k \in 1 .. Len(f) |-> [id |-> f[k], qty |-> os2[f[k]].qty]]
  BY LenProperties DEF Resting
<1> DEFINE e == [Resting(f, os)[1] EXCEPT !.qty = @ - t]
<1>2. e = [id |-> f[1], qty |-> os2[f[1]].qty]
  BY <1>1
<1> HIDE DEF e
<1>3. \A k \in 1 .. Len(f) :
        Resting(f, os2)[k] = IF k = 1 THEN e ELSE Resting(f, os)[k]
  BY <1>1, <1>2
<1>4. Resting(f, os2) = [Resting(f, os) EXCEPT ![1] = e]
  BY <1>1, <1>3
<1>5. QED
  BY <1>4 DEF e

LEMMA RestingReduced ==
  ASSUME NEW f \in Seq(Ids), NEW os \in [Ids -> Order], NEW os2 \in [Ids -> Order],
         NEW t, 1 \in 1 .. Len(f), os2[f[1]].qty = os[f[1]].qty - t,
         \A k \in 1 .. Len(f) : k # 1 => os2[f[k]].qty = os[f[k]].qty
  PROVE  Resting(f, os2) = [Resting(f, os) EXCEPT ![1].qty = @ - t]
BY OrdersCounted, AnyRestingReduced

(* An order joins a queue.                                                 *)
LEMMA AnyRestingAppend ==
  ASSUME NEW I, NEW f \in Seq(I), NEW os, Counted(os, I), NEW os2, Counted(os2, I),
         NEW id \in I, \A k \in 1 .. Len(f) : os2[f[k]].qty = os[f[k]].qty
  PROVE  Resting(Append(f, id), os2)
           = Append(Resting(f, os), [id |-> id, qty |-> os2[id].qty])
<1> DEFINE g == Append(f, id)
           e == [id |-> id, qty |-> os2[id].qty]
           R == Resting(f, os)
           n == Len(f)
<1>1. /\ n \in Nat /\ g \in Seq(I) /\ Len(g) = n + 1 /\ g[n + 1] = id
      /\ \A k \in 1 .. n : g[k] = f[k]
  BY AppendProperties, LenProperties
<1>2. /\ R \in Seq(EntryOf(I)) /\ Len(R) = n
      /\ \A k \in 1 .. n : R[k] = [id |-> f[k], qty |-> os[f[k]].qty]
  BY AnyResting
<1>3. e \in EntryOf(I)
  BY DEF EntryOf, Counted
<1>4. \A k \in 1 .. n : os2[f[k]].qty = os[f[k]].qty
  OBVIOUS
<1> HIDE DEF g, R, n
<1>5. /\ Resting(g, os2) \in Seq(EntryOf(I)) /\ Len(Resting(g, os2)) = n + 1
      /\ \A k \in 1 .. n + 1 : Resting(g, os2)[k] = [id |-> g[k], qty |-> os2[g[k]].qty]
  <2>1. /\ Resting(g, os2) \in Seq(EntryOf(I)) /\ Len(Resting(g, os2)) = Len(g)
        /\ \A k \in 1 .. Len(g) : Resting(g, os2)[k] = [id |-> g[k], qty |-> os2[g[k]].qty]
    <3>1. g \in Seq(I) /\ Counted(os2, I)
      BY <1>1
    <3>2. RestsIn(Resting(g, os2), g, os2, I)
      BY <3>1, RestingRests
    <3>3. QED
      BY <3>2 DEF RestsIn
  <2>2. QED
    BY <1>1, <2>1
<1>6. /\ Append(R, e) \in Seq(EntryOf(I)) /\ Len(Append(R, e)) = n + 1
      /\ \A k \in 1 .. n : Append(R, e)[k] = R[k]
      /\ Append(R, e)[n + 1] = e
  BY <1>2, <1>3, AppendProperties
<1>7. ASSUME NEW k \in 1 .. n + 1
      PROVE  Resting(g, os2)[k] = Append(R, e)[k]
  <2>1. CASE k = n + 1
    BY <1>1, <1>5, <1>6, <2>1
  <2>2. CASE k # n + 1
    <3>1. k \in 1 .. n
      BY <1>1, <2>2
    <3>2. Resting(g, os2)[k] = [id |-> f[k], qty |-> os[f[k]].qty]
      <4>1. g[k] = f[k] /\ os2[f[k]].qty = os[f[k]].qty
        BY <1>1, <1>4, <3>1
      <4>2. Resting(g, os2)[k] = [id |-> g[k], qty |-> os2[g[k]].qty]
        BY <1>5
      <4>3. QED
        BY <4>1, <4>2
    <3>3. QED
      BY <1>2, <1>6, <3>1, <3>2
  <2>3. QED
    BY <2>1, <2>2
<1> HIDE DEF e
<1>8. QED
  BY <1>5, <1>6, <1>7, SeqEqual DEF g, R, e, n

LEMMA RestingAppend ==
  ASSUME NEW f \in Seq(Ids), NEW os \in [Ids -> Order], NEW os2 \in [Ids -> Order],
         NEW id \in Ids, \A k \in 1 .. Len(f) : os2[f[k]].qty = os[f[k]].qty
  PROVE  Resting(Append(f, id), os2)
           = Append(Resting(f, os), [id |-> id, qty |-> os2[id].qty])
BY OrdersCounted, AnyRestingAppend

(* What a step leaves of the resting orders, and what it changes.          *)
LEMMA RestingOrdersAre ==
  /\ RestingOrders = [s \in Side |-> [p \in Px |-> Resting(Queues[s][p], orders_)]]
  /\ RestingOrders' = [s \in Side |-> [p \in Px |-> Resting(Queues'[s][p], orders_')]]
BY DEF RestingOrders, Queues

LEMMA OrdersKept ==
  ASSUME IInv, Queues' = Queues,
         \A s \in Side, p \in Px : \A k \in 1 .. Len(Queues[s][p]) :
           orders_'[Queues[s][p][k]].qty = orders_[Queues[s][p][k]].qty
  PROVE  RestingOrders' = RestingOrders
<1>1. \A s \in Side, p \in Px :
        Resting(Queues[s][p], orders_') = Resting(Queues[s][p], orders_)
  <2>1. TAKE s \in Side, p \in Px
  <2>2. Queues[s][p] \in Seq(Ids)
    BY QueueFacts
  <2>3. QED
    BY <2>2, RestingSame
<1>2. QED
  BY <1>1, RestingOrdersAre

LEMMA OrdersChanged ==
  ASSUME IInv, NEW s0 \in Side, NEW p0 \in Px,
         \A s \in Side, p \in Px : (s # s0 \/ p # p0) =>
           /\ Queues'[s][p] = Queues[s][p]
           /\ \A k \in 1 .. Len(Queues[s][p]) :
                orders_'[Queues[s][p][k]].qty = orders_[Queues[s][p][k]].qty
  PROVE  RestingOrders' = [RestingOrders EXCEPT
                             ![s0][p0] = Resting(Queues'[s0][p0], orders_')]
<1>1. ASSUME NEW s \in Side, NEW p \in Px, s # s0 \/ p # p0
      PROVE  Resting(Queues'[s][p], orders_') = Resting(Queues[s][p], orders_)
  <2>1. Queues[s][p] \in Seq(Ids)
    BY QueueFacts
  <2>2. /\ Queues'[s][p] = Queues[s][p]
        /\ \A k \in 1 .. Len(Queues[s][p]) :
             orders_'[Queues[s][p][k]].qty = orders_[Queues[s][p][k]].qty
    BY <1>1
  <2> DEFINE f == Queues[s][p]
  <2>3. f \in Seq(Ids) /\ \A k \in 1 .. Len(f) : orders_'[f[k]].qty = orders_[f[k]].qty
    BY <2>1, <2>2
  <2> HIDE DEF f
  <2>4. DOMAIN f = 1 .. Len(f)
    BY <2>3, LenProperties
  <2>5. Resting(f, orders_') = Resting(f, orders_)
    BY <2>3, <2>4 DEF Resting
  <2>6. QED
    BY <2>2, <2>5 DEF f
<1> DEFINE new == [s \in Side |-> [p \in Px |-> Resting(Queues'[s][p], orders_')]]
           old == [s \in Side |-> [p \in Px |-> Resting(Queues[s][p], orders_)]]
           r == Resting(Queues'[s0][p0], orders_')
<1>2. /\ RestingOrders = old /\ RestingOrders' = new
      /\ DOMAIN new = Side /\ DOMAIN old = Side
      /\ \A s \in Side : DOMAIN new[s] = Px /\ DOMAIN old[s] = Px
  BY RestingOrdersAre
<1>3. /\ new = [s \in Side |-> new[s]] /\ \A s \in Side : new[s] = [p \in Px |-> new[s][p]]
      /\ old = [s \in Side |-> old[s]] /\ \A s \in Side : old[s] = [p \in Px |-> old[s][p]]
  OBVIOUS
<1>4. /\ new[s0][p0] = r
      /\ \A s \in Side, p \in Px : s # s0 \/ p # p0 => new[s][p] = old[s][p]
  BY <1>1
<1> HIDE DEF new, old, r
<1>5. new[s0] = [old[s0] EXCEPT ![p0] = r]
  BY <1>2, <1>3, <1>4
<1>6. \A s \in Side : s # s0 => new[s] = old[s]
  BY <1>2, <1>3, <1>4
<1>7. new = [old EXCEPT ![s0] = [old[s0] EXCEPT ![p0] = r]]
  BY <1>2, <1>3, <1>5, <1>6
<1>8. QED
  BY <1>2, <1>7 DEF r

(* PriceTimeBook counts as everyone does.                                  *)
LEMMA RulesCount == \A S : Rules!Cardinality(S) = Cardinality(S)
BY DEF Rules!Cardinality, Cardinality

(* limit submits an order that gets an id nobody has.                      *)
LEMMA LimitSubmits ==
  ASSUME IInv, NEW side \in Side, NEW px \in Px, NEW qty \in 1 .. MaxQty,
         Limit(side, px, qty)
  PROVE  Rules!Submit(taker_id', side, px, qty) /\ taker_id' \in Ids
<1> DEFINE id == taker_id'
<1>1. /\ pc = "idle" /\ remaining' = qty /\ trade' = trade
  BY DEF Limit
<1>2. taker_id = 0
  BY <1>1 DEF IInv, Control, kInvalidId
<1>3. /\ Queues' = Queues /\ id \in Ids
      /\ orders_'[id].side = side /\ orders_'[id].px = px
      /\ \A i \in Ids : i # id => orders_'[i] = orders_[i]
      /\ orders_[id].qty = 0
  BY LimitKeeps, FreeTop
<1>4. \A s \in Side, p \in Px : \A k \in 1 .. Len(Queues[s][p]) :
        Queues[s][p][k] \in Ids /\ Queues[s][p][k] # id
  BY <1>3, QueueFacts
<1>5. RestingOrders' = RestingOrders
  BY <1>3, <1>4, OrdersKept
<1>6. Taking = << >>
  BY <1>2 DEF Taking, kInvalidId
<1>7. Taking' = << [id |-> id, side |-> side, px |-> px, qty |-> qty] >>
  <2>1. id # 0
    BY <1>3, LobAssumption, LadderAssumption DEF Ids
  <2>2. QED
    BY <1>1, <1>3, <2>1 DEF Taking, kInvalidId
<1>8. Rules!LiveIds \subseteq Ids \ {id}
  <2>1. SUFFICES ASSUME NEW x \in Rules!LiveIds
        PROVE  x \in Ids \ {id}
    OBVIOUS
  <2>2. {Taking[i].id : i \in DOMAIN Taking} = {}
    BY <1>6
  <2>3. PICK s \in Side, p \in Px :
          x \in {RestingOrders[s][p][i].id : i \in DOMAIN RestingOrders[s][p]}
    <3>1. Rules!Side = Side /\ Rules!Px = Px
      BY DEF Rules!Side, Rules!Px, Side, Px
    <3>2. x \in UNION {{RestingOrders[s][p][i].id : i \in DOMAIN RestingOrders[s][p]} :
                       s \in Rules!Side, p \in Rules!Px}
      BY <2>2 DEF Rules!LiveIds
    <3>3. \E s \in Rules!Side, p \in Rules!Px :
            x \in {RestingOrders[s][p][i].id : i \in DOMAIN RestingOrders[s][p]}
      <4> DEFINE q == {{RestingOrders[s][p][i].id : i \in DOMAIN RestingOrders[s][p]} :
                         s \in Rules!Side, p \in Rules!Px}
      <4>1. PICK y \in q : x \in y
        BY <3>2
      <4>2. QED
        BY <4>1
    <3>4. QED
      BY <3>1, <3>3, Zenon
  <2>4. /\ RestingOrders[s][p] = Resting(Queues[s][p], orders_)
        /\ Queues[s][p] \in Seq(Ids) /\ orders_ \in [Ids -> Order]
    BY RestingOrdersAre, QueueFacts
  <2>5. \E i \in 1 .. Len(Queues[s][p]) : x = Queues[s][p][i]
    <3> DEFINE g == Queues[s][p]
               R == RestingOrders[s][p]
    <3>1. /\ DOMAIN R = 1 .. Len(g)
          /\ \A k \in 1 .. Len(g) : R[k] = [id |-> g[k], qty |-> orders_[g[k]].qty]
      BY <2>4, RestingIs
    <3>2. PICK i \in DOMAIN R : x = R[i].id
      BY <2>3
    <3> HIDE DEF g, R
    <3>3. i \in 1 .. Len(g) /\ x = g[i]
      BY <3>1, <3>2
    <3>4. QED
      BY <3>3 DEF g
  <2>6. QED
    BY <1>4, <2>5
<1>9. Cardinality(Rules!LiveIds) < MaxOrders /\ id \notin Rules!LiveIds
  <2>1. IsFiniteSet(Ids) /\ Cardinality(Ids) = MaxOrders /\ MaxOrders \in Nat
    BY Counting, LobAssumption, LadderAssumption DEF Ids
  <2>2. IsFiniteSet(Ids \ {id}) /\ Cardinality(Ids \ {id}) = MaxOrders - 1
    BY <1>3, <2>1, FS_RemoveElement
  <2>3. IsFiniteSet(Rules!LiveIds) /\ Cardinality(Rules!LiveIds) <= Cardinality(Ids \ {id})
    BY <1>8, <2>2, FS_Subset
  <2>4. Cardinality(Rules!LiveIds) \in Nat
    BY <2>3, FS_CardinalityType
  <2>5. QED
    BY <1>8, <2>1, <2>2, <2>3, <2>4
<1>10. QED
  <2>1. Rules!Cardinality(Rules!LiveIds) < MaxOrders /\ id \notin Rules!LiveIds
    BY <1>9, RulesCount
  <2>2. /\ Taking' = << [id |-> id, side |-> side, px |-> px, qty |-> qty] >>
        /\ Taking = << >> /\ RestingOrders' = RestingOrders /\ trade' = trade
    BY <1>1, <1>5, <1>6, <1>7
  <2>3. QED
    BY <1>3, <2>1, <2>2 DEF Rules!Submit

(* Entering and leaving a level changes nothing of this.                   *)
LEMMA MatchStutters ==
  ASSUME IInv, EnterLevel \/ LeaveLevel
  PROVE  UNCHANGED Rules!vars
<1>1. /\ orders_' = orders_ /\ taker_id' = taker_id
      /\ remaining' = remaining /\ trade' = trade
  BY DEF EnterLevel, LeaveLevel
<1>2. Queues' = Queues
  BY EnterKeeps, LeaveKeeps
<1>3. RestingOrders' = RestingOrders
  BY <1>1, <1>2, OrdersKept
<1>4. Taking' = Taking
  BY <1>1 DEF Taking
<1>5. QED
  BY <1>1, <1>3, <1>4 DEF Rules!vars

(* The prices at which PriceTimeBook has orders.                           *)
LEMMA RulesOccupied ==
  ASSUME NoWrap, IInv, LevelQtys, NEW s \in Side
  PROVE  /\ Rules!Occupied(s) = Occupied(s)
         /\ \A p \in Px : RestingOrders[s][p] # << >> <=> p \in Occupied(s)
<1>1. ASSUME NEW p \in Px
      PROVE  RestingOrders[s][p] # << >> <=> p \in Occupied(s)
  <2>1. RestingOrders[s][p] = Resting(Queues[s][p], orders_)
    BY RestingOrdersAre
  <2>2. Queues[s][p] \in Seq(Ids) /\ orders_ \in [Ids -> Order]
    BY QueueFacts
  <2>3. Resting(Queues[s][p], orders_) = << >> <=> Queues[s][p] = << >>
    BY <2>2, RestingIs
  <2>4. p \in Occupied(s) <=> Queues[s][p] # << >>
    BY OccupiedIs
  <2>5. QED
    BY <2>1, <2>3, <2>4
<1>2. Occupied(s) \subseteq Px
  BY DEF Occupied
<1>3. QED
  BY <1>1, <1>2 DEF Rules!Occupied, Rules!Px, Px

(* A step of the loop fills the oldest order at the best price.            *)
LEMMA TakeFills ==
  ASSUME NoWrap, QInv, TakeHead
  PROVE  Rules!Fill(TakenPx) /\ TakenPx \in Px
<1>1. IInv /\ LevelQtys /\ Prices
  BY DEF QInv
<1>2. /\ pc = "take" /\ remaining # 0 /\ Maker # 0
      /\ trade' = [maker |-> Maker, taker |-> taker_id,
                   px |-> orders_[Maker].px, qty |-> Take]
      /\ remaining' = remaining - Take
      /\ IF orders_[Maker].qty = Take
         THEN /\ Release(UnlinkOrder(orders_, Maker), Maker)
              /\ levels' = [levels EXCEPT ![TakenSide][TakenPx] =
                              UnlinkLevel(Left, orders_[Maker])]
         ELSE /\ orders_' = [orders_ EXCEPT ![Maker].qty = @ - Take]
              /\ levels' = [levels EXCEPT ![TakenSide][TakenPx] = Left]
              /\ free_' = free_
      /\ taker_id' = taker_id
  BY TakeHeadIs
<1>3. /\ taker_id \in Ids /\ orders_[taker_id] \in Order
      /\ TakenSide \in Side /\ TakenPx \in Px
      /\ 1 \in 1 .. Len(Queues[TakenSide][TakenPx])
      /\ Maker = Queues[TakenSide][TakenPx][1]
      /\ Maker \in Ids /\ Maker # taker_id
      /\ orders_[Maker].side = TakenSide /\ orders_[Maker].px = TakenPx
      /\ orders_[Maker].qty \in 1 .. MaxQty
  BY <1>1, <1>2, MakerIs
<1> DEFINE f == Queues[TakenSide][TakenPx]
           R == Resting(f, orders_)
           t == [id |-> taker_id, side |-> orders_[taker_id].side,
                 px |-> orders_[taker_id].px, qty |-> remaining]
<1>4. /\ f \in Seq(Ids) /\ OneToOne(f)
      /\ orders_ \in [Ids -> Order] /\ Queues \in [Side -> [Px -> Seq(Ids)]]
      /\ \A k \in 1 .. Len(f) : f[k] \in Ids
  BY <1>1, <1>3, QueueFacts
<1>5. /\ IInv'
      /\ Queues' = IF orders_[Maker].qty = Take
                   THEN [Queues EXCEPT ![TakenSide][TakenPx] = Drop(f, 1)]
                   ELSE Queues
  BY <1>1, TakeKeeps
<1>6. orders_' \in [Ids -> Order]
  BY <1>5, NextQueueFacts
<1>7. /\ R \in Seq(Entry) /\ Len(R) = Len(f) /\ R # << >> /\ Len(f) # 0
      /\ Head(R) = [id |-> Maker, qty |-> orders_[Maker].qty]
  <2>1. f # << >>
    BY <1>3, EmptySeq
  <2>2. /\ R \in Seq(Entry) /\ Len(R) = Len(f) /\ R # << >>
        /\ R[1] = [id |-> Maker, qty |-> orders_[Maker].qty]
    BY <1>3, <1>4, <2>1, RestingIs
  <2> HIDE DEF R, f
  <2>3. Head(R) = R[1]
    BY <2>2
  <2>4. QED
    BY <1>3, <2>2, <2>3 DEF f
<1>8. \A s \in Side, p \in Px : (s # TakenSide \/ p # TakenPx) =>
        /\ Queues'[s][p] = Queues[s][p]
        /\ \A k \in 1 .. Len(Queues[s][p]) :
             orders_'[Queues[s][p][k]].qty = orders_[Queues[s][p][k]].qty
  <2>1. ASSUME NEW i \in Ids, i # Maker
        PROVE  orders_'[i].qty = orders_[i].qty
    <3>1. CASE orders_[Maker].qty = Take
      <4>1. orders_' = [UnlinkOrder(orders_, Maker) EXCEPT ![Maker] = NoOrder]
        BY <1>2, <3>1 DEF Release
      <4>2. Skips(orders_, orders_', Maker)
        BY <1>3, <1>4, <4>1, UnlinkOrderIs
      <4>3. QED
        BY <2>1, <4>2 DEF Skips
    <3>2. CASE orders_[Maker].qty # Take
      BY <1>2, <1>3, <1>4, <2>1, <3>2
    <3>3. QED
      BY <3>1, <3>2
  <2>2. TAKE s \in Side, p \in Px
  <2>3. HAVE s # TakenSide \/ p # TakenPx
  <2>4. Queues'[s][p] = Queues[s][p]
    BY <1>3, <1>4, <1>5, <2>3
  <2>5. \A k \in 1 .. Len(Queues[s][p]) :
          Queues[s][p][k] \in Ids /\ Queues[s][p][k] # Maker
    BY <1>1, <1>3, <2>3, QueueFacts
  <2>6. QED
    BY <2>1, <2>4, <2>5
<1>9. Resting(Queues'[TakenSide][TakenPx], orders_') = Rules!Without(R, Take)
  <2>1. CASE orders_[Maker].qty = Take
    <3>1. orders_' = [UnlinkOrder(orders_, Maker) EXCEPT ![Maker] = NoOrder]
      BY <1>2, <2>1 DEF Release
    <3>2. Skips(orders_, orders_', f[1])
      BY <1>3, <1>4, <3>1, UnlinkOrderIs
    <3>3. Queues'[TakenSide][TakenPx] = Drop(f, 1)
      BY <1>3, <1>4, <1>5, <2>1
    <3> HIDE DEF f
    <3>4. 1 \in 1 .. Len(f)
      BY <1>3 DEF f
    <3>5. Resting(Drop(f, 1), orders_') = Tail(R)
      BY <1>4, <1>6, <3>2, <3>4, RestingTail
    <3>6. Head(R).qty = Take
      BY <1>7, <2>1
    <3> HIDE DEF R
    <3>7. QED
      BY <3>3, <3>5, <3>6 DEF Rules!Without
  <2>2. CASE orders_[Maker].qty # Take
    <3>1. /\ orders_'[Maker].qty = orders_[Maker].qty - Take
          /\ \A i \in Ids : i # Maker => orders_'[i] = orders_[i]
      <4>1. orders_' = [orders_ EXCEPT ![Maker].qty = @ - Take]
        BY <1>2, <2>2
      <4>2. Maker \in Ids /\ orders_[Maker] \in Order
        BY <1>3, <1>4
      <4>3. /\ orders_'[Maker] = [orders_[Maker] EXCEPT !.qty = @ - Take]
            /\ \A i \in Ids : i # Maker => orders_'[i] = orders_[i]
        BY <1>4, <4>1, <4>2
      <4>4. QED
        BY <4>2, <4>3 DEF Order
    <3>2. /\ 1 \in 1 .. Len(f) /\ orders_'[f[1]].qty = orders_[f[1]].qty - Take
          /\ \A k \in 1 .. Len(f) : k # 1 => orders_'[f[k]].qty = orders_[f[k]].qty
      <4>1. \A k \in 1 .. Len(f) : k # 1 => f[k] # f[1]
        BY <1>3, <1>4 DEF OneToOne
      <4>2. QED
        BY <1>3, <1>4, <3>1, <4>1
    <3>3. Queues'[TakenSide][TakenPx] = f
      BY <1>5, <2>2
    <3> HIDE DEF f
    <3>4. Resting(f, orders_') = [R EXCEPT ![1].qty = @ - Take]
      BY <1>4, <1>6, <3>2, RestingReduced
    <3>5. Head(R).qty # Take
      BY <1>7, <2>2
    <3>6. QED
      BY <3>3, <3>4, <3>5 DEF Rules!Without
  <2>3. QED
    BY <2>1, <2>2
<1>10. /\ RestingOrders[TakenSide][TakenPx] = R
       /\ RestingOrders' = [RestingOrders EXCEPT
                              ![TakenSide][TakenPx] = Rules!Without(R, Take)]
  <2>1. RestingOrders[TakenSide][TakenPx] = R
    BY <1>3, RestingOrdersAre
  <2>2. RestingOrders' = [RestingOrders EXCEPT ![TakenSide][TakenPx] =
                            Resting(Queues'[TakenSide][TakenPx], orders_')]
    BY <1>1, <1>3, <1>8, OrdersChanged
  <2>3. QED
    BY <1>9, <2>1, <2>2
<1>11. /\ Taking = << t >>
       /\ Taking' = [Taking EXCEPT ![1].qty = @ - Take]
  <2>1. taker_id # 0
    BY <1>3, LobAssumption, LadderAssumption DEF Ids
  <2>2. Taking = << t >>
    BY <2>1 DEF Taking, kInvalidId
  <2>3. /\ orders_'[taker_id].side = orders_[taker_id].side
        /\ orders_'[taker_id].px = orders_[taker_id].px
    BY <1>1, TakerStays
  <2>4. Taking' = << [t EXCEPT !.qty = @ - Take] >>
    BY <1>2, <2>1, <2>3 DEF Taking, kInvalidId
  <2>5. QED
    BY <2>2, <2>4
<1>12. /\ Rules!Best(TakenSide, TakenPx)
       /\ Rules!Crosses(orders_[taker_id].side, orders_[taker_id].px, TakenPx)
  <2>1. /\ \A p \in Occupied(TakenSide) : NoBetter(TakenSide, p, TakenPx)
        /\ NoBetter(orders_[taker_id].side, TakenPx, orders_[taker_id].px)
    BY <1>1, <1>2, <1>3 DEF Prices, TakenSide, TakenPx
  <2>2. /\ Rules!Occupied(TakenSide) = Occupied(TakenSide)
        /\ RestingOrders[TakenSide][TakenPx] # << >> <=> TakenPx \in Occupied(TakenSide)
    BY <1>1, <1>3, RulesOccupied
  <2>3. TakenPx \in Occupied(TakenSide)
    BY <1>7, <1>10, <2>2
  <2>4. QED
    BY <2>1, <2>2, <2>3 DEF Rules!Best, Rules!Crosses, NoBetter
<1>13. QED
  <2>1. Taking # << >> /\ Taking[1] = t /\ t.id = taker_id /\ t.qty = remaining
        /\ t.side = orders_[taker_id].side /\ t.px = orders_[taker_id].px
    BY <1>11
  <2>2. remaining > 0 /\ TakenSide = Rules!Opposite(t.side)
    BY <1>1, <1>2, <2>1 DEF IInv, TypeOK, Rules!Opposite, TakenSide, Opposite
  <2> HIDE DEF R, t
  <2>3. /\ Head(RestingOrders[TakenSide][TakenPx]).id = Maker
        /\ Head(RestingOrders[TakenSide][TakenPx]).qty = orders_[Maker].qty
        /\ RestingOrders[TakenSide][TakenPx] = R
    BY <1>7, <1>10
  <2>4. Take = IF Head(RestingOrders[TakenSide][TakenPx]).qty <= t.qty
               THEN Head(RestingOrders[TakenSide][TakenPx]).qty ELSE t.qty
    BY <2>1, <2>3 DEF Take
  <2>5. Rules!Best(TakenSide, TakenPx) /\ Rules!Crosses(t.side, t.px, TakenPx)
    BY <1>12, <2>1
  <2>6. trade' = [maker |-> Head(RestingOrders[TakenSide][TakenPx]).id,
                  taker |-> t.id, px |-> TakenPx, qty |-> Take]
    BY <1>2, <1>3, <2>1, <2>3
  <2>7. /\ RestingOrders' = [RestingOrders EXCEPT ![TakenSide][TakenPx] = Rules!Without(@, Take)]
        /\ Taking' = [Taking EXCEPT ![1].qty = @ - Take]
    BY <1>10, <1>11, <2>3
  <2>8. Rules!Fill(TakenPx)
    BY <2>1, <2>2, <2>4, <2>5, <2>6, <2>7 DEF Rules!Fill
  <2>9. QED
    BY <1>3, <2>8

(* What is left of the taker rests, or nothing is.                         *)
LEMMA EndFinishes ==
  ASSUME NoWrap, QInv, EndLimit
  PROVE  Rules!Finish
<1>1. IInv /\ LevelQtys /\ Prices
  BY DEF QInv
<1>2. /\ pc = "match" /\ ~ Crossing
      /\ taker_id' = 0 /\ trade' = NoTrade
      /\ remaining = 0 => orders_' = [orders_ EXCEPT ![taker_id] = NoOrder]
  BY DEF EndLimit, Release, kInvalidId
<1> DEFINE s == orders_[taker_id].side
           px == orders_[taker_id].px
           o == Opposite(s)
           t == [id |-> taker_id, side |-> s, px |-> px, qty |-> remaining]
<1>3. /\ taker_id \in Ids /\ s \in Side /\ px \in Px
      /\ Queues' = IF remaining = 0 THEN Queues
                   ELSE [Queues EXCEPT ![s][px] = Append(Queues[s][px], taker_id)]
      /\ IInv'
  BY <1>1, EndKeeps
<1>4. /\ Queues \in [Side -> [Px -> Seq(Ids)]] /\ orders_ \in [Ids -> Order]
      /\ \A r \in Side, p \in Px : \A k \in 1 .. Len(Queues[r][p]) :
           Queues[r][p][k] \in Ids /\ Queues[r][p][k] # taker_id
  BY <1>1, QueueFacts
<1>5. Taking = << t >> /\ Taking # << >> /\ Taking[1] = t
  <2>1. taker_id # 0
    BY <1>3, LobAssumption, LadderAssumption DEF Ids
  <2>2. Taking = << t >>
    BY <2>1 DEF Taking, kInvalidId
  <2>3. QED
    BY <2>2
<1>6. Taking' = << >> /\ trade' = Rules!NoTrade
  BY <1>2 DEF Taking, kInvalidId, NoTrade, Rules!NoTrade
<1>7. t.id = taker_id /\ t.side = s /\ t.px = px /\ t.qty = remaining
  OBVIOUS
<1> HIDE DEF s, px, t
<1>8. CASE remaining = 0
  <2>1. \A i \in Ids : i # taker_id => orders_'[i] = orders_[i]
    BY <1>2, <1>4, <1>8
  <2>2. \A r \in Side, p \in Px : \A k \in 1 .. Len(Queues[r][p]) :
          orders_'[Queues[r][p][k]].qty = orders_[Queues[r][p][k]].qty
    BY <1>4, <2>1
  <2>3. RestingOrders' = RestingOrders
    BY <1>1, <1>3, <1>8, <2>2, OrdersKept
  <2>4. QED
    BY <1>5, <1>6, <1>7, <1>8, <2>3 DEF Rules!Finish
<1>9. CASE remaining # 0
  <2>1. /\ orders_'[taker_id].qty = remaining
        /\ \A i \in Ids : i # taker_id => orders_'[i].qty = orders_[i].qty
    BY <1>1, <1>9, RestIs
  <2>2. \A r \in Side, p \in Px : \A k \in 1 .. Len(Queues[r][p]) :
          orders_'[Queues[r][p][k]].qty = orders_[Queues[r][p][k]].qty
    BY <1>4, <2>1
  <2>3. \A r \in Side, p \in Px : (r # s \/ p # px) =>
          /\ Queues'[r][p] = Queues[r][p]
          /\ \A k \in 1 .. Len(Queues[r][p]) :
               orders_'[Queues[r][p][k]].qty = orders_[Queues[r][p][k]].qty
    BY <1>3, <1>4, <1>9, <2>2
  <2>4. RestingOrders' = [RestingOrders EXCEPT ![s][px] = Resting(Queues'[s][px], orders_')]
    BY <1>1, <1>3, <2>3, OrdersChanged
  <2>5. Queues'[s][px] = Append(Queues[s][px], taker_id) /\ Queues[s][px] \in Seq(Ids)
    BY <1>3, <1>4, <1>9
  <2>6. Resting(Append(Queues[s][px], taker_id), orders_')
          = Append(Resting(Queues[s][px], orders_), [id |-> taker_id, qty |-> remaining])
    <3>1. orders_' \in [Ids -> Order]
      BY <1>3, NextQueueFacts
    <3>2. \A k \in 1 .. Len(Queues[s][px]) :
            orders_'[Queues[s][px][k]].qty = orders_[Queues[s][px][k]].qty
      BY <1>3, <2>2
    <3>3. Resting(Append(Queues[s][px], taker_id), orders_')
            = Append(Resting(Queues[s][px], orders_),
                     [id |-> taker_id, qty |-> orders_'[taker_id].qty])
      BY <1>3, <1>4, <2>5, <3>1, <3>2, RestingAppend
    <3>4. QED
      BY <2>1, <3>3
  <2>7. RestingOrders[s][px] = Resting(Queues[s][px], orders_)
    BY <1>3, RestingOrdersAre
  <2>8. RestingOrders' = [RestingOrders EXCEPT
                            ![s][px] = Append(@, [id |-> t.id, qty |-> t.qty])]
    BY <1>7, <2>4, <2>5, <2>6, <2>7
  <2>9. \A p \in Rules!Occupied(Rules!Opposite(t.side)) : ~ Rules!Crosses(t.side, t.px, p)
    <3>1. o \in Side /\ o = Rules!Opposite(t.side)
      BY <1>3, <1>7 DEF Side, Opposite, Rules!Opposite
    <3>2. best[o] = 0 \/ ~ NoBetter(s, best[o], px)
      BY <1>2, <1>9 DEF Crossing, NoBetter, s, px
    <3>3. BestOf(Occupied(o), o, best[o])
      BY <1>1, <1>2, <3>1 DEF Prices, IsBest, BestOf
    <3>4. Occupied(o) \subseteq Px
      BY DEF Occupied
    <3>5. Rules!Occupied(o) = Occupied(o)
      BY <1>1, <3>1, RulesOccupied
    <3>6. \A q \in Occupied(o) : IF s = "Buy" THEN px < q ELSE q < px
      BY <1>3, <3>2, <3>3, <3>4, Uncrossed
    <3>7. px \in Nat /\ \A q \in Occupied(o) : q \in Nat
      BY <1>3, <3>4, LobAssumption, LadderAssumption DEF Px
    <3> HIDE DEF o
    <3>8. \A q \in Occupied(o) : ~ Rules!Crosses(s, px, q)
      BY <3>6, <3>7 DEF Rules!Crosses
    <3>9. QED
      BY <1>7, <3>1, <3>5, <3>8
  <2>10. t.qty # 0
    BY <1>7, <1>9
  <2>11. RestingOrders' = [RestingOrders EXCEPT
                            ![t.side][t.px] = Append(@, [id |-> t.id, qty |-> t.qty])]
    BY <1>7, <2>8
  <2>12. QED
    BY <1>5, <1>6, <2>9, <2>10, <2>11 DEF Rules!Finish
<1>10. QED
  BY <1>8, <1>9

(* cancel takes one order out of its queue.                                *)
LEMMA CancelPlace ==
  ASSUME IInv, NEW id \in Ids, Cancel(id)
  PROVE  \E s \in Side, p \in Px : \E k \in 1 .. Len(RestingOrders[s][p]) :
           /\ RestingOrders[s][p][k].id = id
           /\ k \in DOMAIN RestingOrders[s][p]
           /\ Rules!Cancel(s, p, k)
<1> DEFINE s == orders_[id].side
           p == orders_[id].px
           f == Queues[s][p]
           R == Resting(f, orders_)
<1>1. /\ pc = "idle" /\ taker_id' = taker_id /\ remaining' = remaining /\ trade' = trade
      /\ orders_' = [UnlinkOrder(orders_, id) EXCEPT ![id] = NoOrder]
  BY DEF Cancel, Release
<1>2. IInv' /\ s \in Side /\ p \in Px
  BY CancelKeeps
<1>3. PICK k \in 1 .. Len(f) :
        f[k] = id /\ Queues' = [Queues EXCEPT ![s][p] = Drop(f, k)]
  BY CancelKeeps
<1>4. /\ Queues \in [Side -> [Px -> Seq(Ids)]] /\ orders_ \in [Ids -> Order]
      /\ f \in Seq(Ids) /\ OneToOne(f)
  BY <1>2, QueueFacts
<1>5. orders_' \in [Ids -> Order] /\ Skips(orders_, orders_', id)
  BY <1>1, <1>2, <1>4, NextQueueFacts, UnlinkOrderIs
<1> HIDE DEF s, p, f
<1>6. /\ Queues'[s][p] = Drop(f, k)
      /\ \A r \in Side, x \in Px : (r # s \/ x # p) => Queues'[r][x] = Queues[r][x]
  BY <1>2, <1>3, <1>4
<1>7. \A r \in Side, x \in Px : (r # s \/ x # p) =>
        /\ Queues'[r][x] = Queues[r][x]
        /\ \A j \in 1 .. Len(Queues[r][x]) :
             orders_'[Queues[r][x][j]].qty = orders_[Queues[r][x][j]].qty
  <2>1. ASSUME NEW r \in Side, NEW x \in Px, r # s \/ x # p,
               NEW j \in 1 .. Len(Queues[r][x])
        PROVE  orders_'[Queues[r][x][j]].qty = orders_[Queues[r][x][j]].qty
    <3>1. /\ Queues[r][x][j] \in Ids
          /\ orders_[Queues[r][x][j]].side = r /\ orders_[Queues[r][x][j]].px = x
      BY QueueFacts
    <3>2. Queues[r][x][j] # id
      BY <2>1, <3>1 DEF s, p
    <3>3. QED
      BY <1>5, <3>1, <3>2 DEF Skips
  <2>2. QED
    BY <1>6, <2>1
<1>8. RestingOrders' = [RestingOrders EXCEPT ![s][p] = Resting(Queues'[s][p], orders_')]
  BY <1>2, <1>7, OrdersChanged
<1>9. /\ RestingOrders[s][p] = R /\ Len(R) = Len(f) /\ DOMAIN R = 1 .. Len(f)
  <2>1. RestingOrders[s][p] = R
    BY <1>2, RestingOrdersAre DEF f
  <2>2. QED
    BY <1>4, <2>1, RestingIs
<1>10. Resting(Drop(f, k), orders_') = SubSeq(R, 1, k - 1) \o SubSeq(R, k + 1, Len(f))
  <2>1. Skips(orders_, orders_', f[k])
    BY <1>3, <1>5
  <2>2. QED
    BY <1>3, <1>4, <1>5, <2>1, RestingDrop
<1> HIDE DEF R
<1>11. RestingOrders' = [RestingOrders EXCEPT
                           ![s][p] = SubSeq(@, 1, k - 1) \o SubSeq(@, k + 1, Len(@))]
  BY <1>6, <1>8, <1>9, <1>10
<1>12. Taking = << >> /\ Taking' = Taking
  BY <1>1 DEF Taking, IInv, Control
<1>13. Rules!Cancel(s, p, k)
  BY <1>1, <1>3, <1>9, <1>11, <1>12 DEF Rules!Cancel
<1>14. k \in 1 .. Len(RestingOrders[s][p]) /\ k \in DOMAIN RestingOrders[s][p]
  BY <1>9
<1>15. RestingOrders[s][p][k].id = id
  <2>1. R[k] = [id |-> f[k], qty |-> orders_[f[k]].qty]
    BY <1>3, <1>4, RestingIs DEF R
  <2>2. QED
    BY <1>3, <1>9, <2>1
<1>16. QED
  BY <1>2, <1>13, <1>14, <1>15

LEMMA CancelCancels ==
  ASSUME IInv, NEW id \in Ids, Cancel(id)
  PROVE  \E side \in Rules!Side, px \in Rules!Px :
           \E i \in DOMAIN RestingOrders[side][px] : Rules!Cancel(side, px, i)
<1>1. PICK s \in Side, p \in Px :
        \E k \in DOMAIN RestingOrders[s][p] : Rules!Cancel(s, p, k)
  BY CancelPlace
<1>2. s \in Rules!Side /\ p \in Rules!Px
  BY DEF Rules!Side, Rules!Px, Side, Px
<1>3. QED
  BY <1>1, <1>2

(* A new book is an empty one.                                             *)
LEMMA InitRules ==
  ASSUME Init
  PROVE  Rules!Init
<1>1. IInv /\ taker_id = 0 /\ trade = NoTrade
      /\ \A s \in Side, p \in Px : levels[s][p].head = 0
  BY InitHolds DEF Init, NoLevel, kInvalidId
<1>2. ASSUME NEW s \in Side, NEW p \in Px
      PROVE  Resting(Queues[s][p], orders_) = << >>
  <2>1. Queues[s][p] = << >> /\ Queues[s][p] \in Seq(Ids) /\ orders_ \in [Ids -> Order]
    BY <1>1, HeadIs, QueueFacts
  <2>2. QED
    BY <2>1, RestingIs
<1>3. RestingOrders = [s \in Side |-> [p \in Px |-> << >>]]
  BY <1>2, RestingOrdersAre
<1>4. Taking = << >>
  BY <1>1 DEF Taking, kInvalidId
<1>5. QED
  BY <1>1, <1>3, <1>4 DEF Rules!Init, Rules!Side, Rules!Px, Rules!NoTrade, Side, Px, NoTrade

(* Every step of the ladder is a step that the matching rules allow, or    *)
(* leaves what they speak of unchanged.                                    *)
LEMMA StepsFollowRules ==
  ASSUME NoWrap, QInv, [Next]_vars
  PROVE  [Rules!Next]_(Rules!vars)
<1>1. IInv
  BY DEF QInv
<1>2. ASSUME NEW side \in Side, NEW px \in Px, NEW qty \in 1 .. MaxQty,
             Limit(side, px, qty)
      PROVE  Rules!Next
  <2>1. Rules!Submit(taker_id', side, px, qty) /\ taker_id' \in Ids
    BY <1>1, <1>2, LimitSubmits
  <2>2. side \in Rules!Side /\ px \in Rules!Px
    BY DEF Rules!Side, Rules!Px, Side, Px
  <2>3. QED
    BY <2>1, <2>2 DEF Rules!Next
<1>3. CASE EnterLevel \/ LeaveLevel
  BY <1>1, <1>3, MatchStutters
<1>4. CASE TakeHead
  <2>1. Rules!Fill(TakenPx) /\ TakenPx \in Rules!Px
    BY <1>4, TakeFills DEF Rules!Px, Px
  <2>2. QED
    BY <2>1 DEF Rules!Next
<1>5. CASE EndLimit
  BY <1>5, EndFinishes DEF Rules!Next
<1>6. ASSUME NEW id \in Ids, Cancel(id)
      PROVE  Rules!Next
  BY <1>1, <1>6, CancelCancels DEF Rules!Next
<1>7. CASE UNCHANGED vars
  BY <1>7 DEF vars, Rules!vars, RestingOrders, Fifo, Taking
<1>8. QED
  BY <1>2, <1>3, <1>4, <1>5, <1>6, <1>7 DEF Next

(* The ladder trades by price-time priority: the intrusive lists, the      *)
(* recycled slots and the cached best prices implement PriceTimeBook.      *)
THEOREM PriceTimePriority == NoWrap => (Spec => ImplementsRules)
<1>1. SUFFICES ASSUME NoWrap
      PROVE  Spec => ImplementsRules
  OBVIOUS
<1>2. Spec => []QInv
  BY <1>1, PricesInvariant
<1>3. Init => Rules!Init
  BY InitRules
<1>4. QInv /\ [Next]_vars => [Rules!Next]_(Rules!vars)
  BY <1>1, StepsFollowRules
<1>5. QED
  BY <1>2, <1>3, <1>4, PTL DEF Spec, ImplementsRules, Rules!Spec
=============================================================================
