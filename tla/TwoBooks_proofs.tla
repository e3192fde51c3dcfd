-------------------------- MODULE TwoBooks_proofs --------------------------
(***************************************************************************)
(* Theorems about StlBook and about TwoBooks, which runs the two books on  *)
(* the same calls.                                                         *)
(*                                                                         *)
(* The tree book (StlInvariant, []StlInv).  Its maps ms hold its records   *)
(* rc (MapsHold): a level's deque has each order of its side and price     *)
(* once, and its count is their total modulo the word.  A step changes one *)
(* level at most (SameLevels), by setting, erasing or creating it, and     *)
(* there is a lemma for each way in which an order leaves a level, is      *)
(* filled in part or joins (OrderLeaves, OrderFilled, OrderJoins).  The    *)
(* facts about lists, totals and resting orders are those of Book_proofs.  *)
(*                                                                         *)
(* Rules (StlPriceTimePriority).  Every step of the tree book is a step of *)
(* PriceTimeBook, or leaves its book alone, for counters of any width:     *)
(* the theorem has no NoWrap, which the ladder's needs.                    *)
(*                                                                         *)
(* Both books (NoStaleHits, SameOnBoth, under NoWrap).  Books are Alike if *)
(* they have the same quantities in the same places, and are Tied to the   *)
(* caller's stacks if the last entry for every slot in use is beside the   *)
(* tree's id of the order that is there (Stacked).  Trading is a function  *)
(* of the book (TradesOnce) that keeps this (TiedTraded), and so do an     *)
(* order that comes to rest (TiedRested) and one that is cancelled         *)
(* (TiedCut, TiedPopped).  In a call the ladder trades first: the          *)
(* invariant, Coupled, says that the trades the tree has still to make     *)
(* take its book to one that is Tied (the course C of Ahead).              *)
(***************************************************************************)
EXTENDS Book_proofs, TwoBooks
-----------------------------------------------------------------------------
(* Division with remainder, and: a level's count may be reduced modulo the *)
(* word before or after it is changed.                                     *)
LEMMA DivMod ==
  ASSUME NEW a \in Int, NEW n \in Nat \ {0}
  PROVE  /\ a % n \in 0 .. n - 1
         /\ a \div n \in Int
         /\ a = n * (a \div n) + (a % n)
  OBVIOUS

LEMMA DivModUnique ==
  ASSUME NEW a \in Int, NEW n \in Nat \ {0},
         NEW c \in Int, NEW s \in 0 .. n - 1,
         a = n * c + s
  PROVE  a % n = s
  OBVIOUS

LEMMA ModPlus ==
  ASSUME NEW a \in Int, NEW b \in Int, NEW n \in Nat \ {0}
  PROVE  ((a % n) + b) % n = (a + b) % n
<1> DEFINE c == a \div n
           s == a % n
           e == (s + b) \div n
           t == (s + b) % n
<1>1. c \in Int /\ s \in 0 .. n - 1 /\ a = n * c + s
  BY DivMod
<1>2. e \in Int /\ t \in 0 .. n - 1 /\ s + b = n * e + t
  <2>1. s + b \in Int
    BY <1>1
  <2> HIDE DEF s
  <2>2. QED
    BY <2>1, DivMod
<1> HIDE DEF c, s, e, t
<1>3. a + b = n * (c + e) + t
  BY <1>1, <1>2
<1>4. c + e \in Int /\ a + b \in Int
  BY <1>1, <1>2
<1>5. (a + b) % n = t
  BY <1>2, <1>3, <1>4, DivModUnique
<1>6. QED
  BY <1>5 DEF t, s

LEMMA ModMinus ==
  ASSUME NEW a \in Int, NEW b \in Int, NEW n \in Nat \ {0}
  PROVE  ((a % n) - b) % n = (a - b) % n
<1>1. - b \in Int /\ a % n \in Int
  OBVIOUS
<1>2. ((a % n) + (- b)) % n = (a + (- b)) % n
  BY <1>1, ModPlus
<1>3. (a % n) + (- b) = (a % n) - b /\ a + (- b) = a - b
  BY <1>1
<1>4. QED
  BY <1>2, <1>3
-----------------------------------------------------------------------------
(* A list of members of J.                                                 *)
LEMMA SeqOf ==
  ASSUME NEW I, NEW f \in Seq(I), NEW J, \A k \in 1 .. Len(f) : f[k] \in J
  PROVE  f \in Seq(J)
<1>1. Len(f) \in Nat /\ f = [k \in 1 .. Len(f) |-> f[k]]
  BY LenProperties
<1>2. [k \in 1 .. Len(f) |-> f[k]] \in Seq(J)
  BY <1>1, IsASeq
<1>3. QED
  BY <1>1, <1>2

(* The tail is the list without its first entry.                           *)
LEMMA TailIsDrop ==
  ASSUME NEW I, NEW f \in Seq(I), f # << >>
  PROVE  /\ Tail(f) = Drop(f, 1) /\ 1 \in 1 .. Len(f) /\ Head(f) = f[1] /\ f[1] \in I
         /\ Len(f) \in Nat /\ Tail(f) \in Seq(I)
<1>1. Len(f) \in Nat /\ Len(f) # 0 /\ Head(f) = f[1]
  BY LenProperties, EmptySeq
<1>2. 1 \in 1 .. Len(f) /\ f[1] \in I
  BY <1>1, ElementOfSeq
<1>3. CutOut(f, 1) = Drop(f, 1)
  BY <1>2, CutIsDrop
<1>4. SubSeq(f, 1, 1 - 1) = << >>
  BY SubSeqEmpty
<1>5. Tail(f) = SubSeq(f, 2, Len(f)) /\ Tail(f) \in Seq(I)
  BY TailIsSubSeq, HeadTailProperties
<1>6. CutOut(f, 1) = Tail(f)
  <2>1. 1 + 1 = 2
    OBVIOUS
  <2>2. QED
    BY <1>4, <1>5, <2>1, ConcatEmptySeq DEF CutOut
<1>7. QED
  BY <1>1, <1>2, <1>3, <1>5, <1>6

(* What recs says of every id, for the lemmas about lists of orders.       *)
Held(rc) == [i \in StlIds |-> [qty |-> IF i \in DOMAIN rc THEN rc[i].qty ELSE 0]]

Recorded(rc) == DOMAIN rc \subseteq StlIds /\ \A i \in DOMAIN rc : rc[i] \in Rec

LEMMA HeldCounted ==
  ASSUME NEW rc, Recorded(rc)
  PROVE  /\ Counted(Held(rc), StlIds) /\ Counted(rc, DOMAIN rc)
         /\ Counted(Held(rc), DOMAIN rc)
         /\ \A i \in DOMAIN rc : Held(rc)[i].qty = rc[i].qty /\ rc[i].qty \in 1 .. MaxQty
<1>1. \A i \in DOMAIN rc : rc[i].qty \in 1 .. MaxQty
  BY DEF Recorded, Rec
<1>2. \A i \in DOMAIN rc : i \in StlIds
  BY DEF Recorded
<1>3. \A i \in StlIds :
        Held(rc)[i].qty = IF i \in DOMAIN rc THEN rc[i].qty ELSE 0
  BY DEF Held
<1>4. 0 \in 0 .. MaxQty /\ 1 .. MaxQty \subseteq 0 .. MaxQty
  BY LobAssumption
<1>5. QED
  BY <1>1, <1>2, <1>3, <1>4 DEF Counted

LEMMA HeldQty ==
  ASSUME NEW rc, Recorded(rc), NEW i, i \in DOMAIN rc
  PROVE  Held(rc)[i].qty = rc[i].qty
BY HeldCounted

LEMMA HeldLists ==
  ASSUME NEW rc, Recorded(rc), NEW f \in Seq(StlIds),
         \A k \in 1 .. Len(f) : f[k] \in DOMAIN rc
  PROVE  /\ Total(f, rc) = Total(f, Held(rc)) /\ Total(f, rc) \in Nat
         /\ Resting(f, rc) = Resting(f, Held(rc))
<1>1. f \in Seq(DOMAIN rc)
  BY SeqOf
<1>2. \A k \in 1 .. Len(f) : Held(rc)[f[k]].qty = rc[f[k]].qty
  BY HeldCounted
<1>3. Counted(rc, DOMAIN rc) /\ Counted(Held(rc), DOMAIN rc)
  BY HeldCounted
<1>4. Total(f, Held(rc)) = Total(f, rc)
  BY <1>1, <1>2, <1>3, AnyTotalSame
<1>5. Resting(f, Held(rc)) = Resting(f, rc)
  BY <1>1, <1>2, AnyRestingSame
<1>6. Len(f) \in 0 .. Len(f) /\ \A k \in 0 .. Len(f) : Sums(f, rc)[k] \in Nat
  BY <1>1, <1>3, AnySums, LenProperties
<1>7. Total(f, rc) \in Nat
  BY <1>6 DEF Total
<1>8. QED
  BY <1>4, <1>5, <1>7
-----------------------------------------------------------------------------
(* The maps ms and the hash map rc agree: a level's deque holds once each  *)
(* the orders of its side and price, and its count is their total, but for *)
(* the wrap; and every order is in the deque of its side and price.        *)
LevelHolds(lv, rc, s, p) ==
  /\ lv \in StlLevel
  /\ OneToOne(lv.fifo)
  /\ \A k \in 1 .. Len(lv.fifo) : /\ lv.fifo[k] \in DOMAIN rc
                                  /\ rc[lv.fifo[k]].px = p /\ rc[lv.fifo[k]].side = s
  /\ lv.qty = Total(lv.fifo, rc) % StlQtyMod

FifoAt(ms, s, p) == IF p \in DOMAIN ms[s] THEN ms[s][p].fifo ELSE << >>

Within(f, i) == \E k \in 1 .. Len(f) : f[k] = i

IsQueued(ms, o, i) == Within(FifoAt(ms, o.side, o.px), i)

MapsHold(ms, rc) ==
  /\ DOMAIN ms = Side /\ Recorded(rc)
  /\ \A s \in Side : DOMAIN ms[s] \subseteq Px
  /\ \A s \in Side : \A p \in DOMAIN ms[s] : LevelHolds(ms[s][p], rc, s, p)
  /\ \A i \in DOMAIN rc : IsQueued(ms, rc[i], i)

(* Another level of the maps is as it was.                                 *)
SameLevels(ms, ms2, s0, p0) ==
  /\ DOMAIN ms2 = Side
  /\ \A s \in Side : DOMAIN ms2[s] \subseteq Px
  /\ \A s \in Side, p \in Px : (s # s0 \/ p # p0) =>
       /\ p \in DOMAIN ms2[s] <=> p \in DOMAIN ms[s]
       /\ p \in DOMAIN ms2[s] => ms2[s][p] = ms[s][p]

(* A level is as good for other records of the same orders.                *)
LEMMA LevelKept ==
  ASSUME NEW lv, NEW rc, NEW rc2, NEW s, NEW p, LevelHolds(lv, rc, s, p),
         Recorded(rc), Recorded(rc2),
         \A k \in 1 .. Len(lv.fifo) :
           lv.fifo[k] \in DOMAIN rc2 /\ rc2[lv.fifo[k]] = rc[lv.fifo[k]]
  PROVE  LevelHolds(lv, rc2, s, p)
<1> DEFINE f == lv.fifo
<1>1. /\ f \in Seq(StlIds) /\ \A k \in 1 .. Len(f) : f[k] \in DOMAIN rc
      /\ lv.qty = Total(f, rc) % StlQtyMod
  BY DEF LevelHolds, StlLevel
<1>2. \A k \in 1 .. Len(f) : f[k] \in DOMAIN rc2 /\ rc2[f[k]] = rc[f[k]]
  OBVIOUS
<1> HIDE DEF f
<1>3. \A k \in 1 .. Len(f) : Held(rc2)[f[k]].qty = Held(rc)[f[k]].qty
  BY <1>1, <1>2, HeldCounted
<1>4. Counted(Held(rc), StlIds) /\ Counted(Held(rc2), StlIds)
  BY HeldCounted
<1>5. Total(f, Held(rc2)) = Total(f, Held(rc))
  BY <1>1, <1>3, <1>4, AnyTotalSame
<1>6. Total(f, rc2) = Total(f, rc)
  BY <1>1, <1>2, <1>5, HeldLists
<1>7. QED
  BY <1>1, <1>2, <1>6 DEF LevelHolds, f

(* rc2 has what is queued at p0, and otherwise what rc has.                *)
SameElsewhere(ms2, rc, rc2, s0, p0) ==
  /\ \A i \in DOMAIN rc2 :
       \/ rc2[i].side = s0 /\ rc2[i].px = p0 /\ IsQueued(ms2, rc2[i], i)
       \/ (rc2[i].side # s0 \/ rc2[i].px # p0) /\ i \in DOMAIN rc /\ rc2[i] = rc[i]
  /\ \A i \in DOMAIN rc : (rc[i].side # s0 \/ rc[i].px # p0) =>
       i \in DOMAIN rc2 /\ rc2[i] = rc[i]

(* The maps hold the orders after a change of one level, if that level     *)
(* does and the records of the others are the same.                        *)
LEMMA OneLevelChanges ==
  ASSUME NEW ms, NEW ms2, NEW rc, NEW rc2, NEW s0 \in Side, NEW p0 \in Px,
         MapsHold(ms, rc), Recorded(rc2), SameLevels(ms, ms2, s0, p0),
         p0 \in DOMAIN ms2[s0] => LevelHolds(ms2[s0][p0], rc2, s0, p0),
         SameElsewhere(ms2, rc, rc2, s0, p0)
  PROVE  MapsHold(ms2, rc2)
<1>0. /\ \A i \in DOMAIN rc2 :
           \/ rc2[i].side = s0 /\ rc2[i].px = p0 /\ IsQueued(ms2, rc2[i], i)
           \/ (rc2[i].side # s0 \/ rc2[i].px # p0) /\ i \in DOMAIN rc /\ rc2[i] = rc[i]
      /\ \A i \in DOMAIN rc : (rc[i].side # s0 \/ rc[i].px # p0) =>
           i \in DOMAIN rc2 /\ rc2[i] = rc[i]
  BY DEF SameElsewhere
<1>1. ASSUME NEW s \in Side, NEW p \in DOMAIN ms2[s]
      PROVE  LevelHolds(ms2[s][p], rc2, s, p)
  <2>1. p \in Px
    BY DEF SameLevels
  <2>2. CASE s = s0 /\ p = p0
    BY <2>2
  <2>3. CASE s # s0 \/ p # p0
    <3>1. p \in DOMAIN ms[s] /\ ms2[s][p] = ms[s][p]
      BY <2>1, <2>3 DEF SameLevels
    <3>2. LevelHolds(ms[s][p], rc, s, p) /\ Recorded(rc)
      BY <3>1 DEF MapsHold
    <3>3. \A k \in 1 .. Len(ms[s][p].fifo) :
            /\ ms[s][p].fifo[k] \in DOMAIN rc2
            /\ rc2[ms[s][p].fifo[k]] = rc[ms[s][p].fifo[k]]
      BY <1>0, <2>3, <3>2 DEF LevelHolds
    <3>4. LevelHolds(ms[s][p], rc2, s, p)
      BY <3>2, <3>3, LevelKept
    <3>5. QED
      BY <3>1, <3>4
  <2>4. QED
    BY <2>2, <2>3
<1>2. ASSUME NEW i \in DOMAIN rc2
      PROVE  IsQueued(ms2, rc2[i], i)
  <2>1. CASE rc2[i].side = s0 /\ rc2[i].px = p0
    BY <1>0, <2>1
  <2>2. CASE rc2[i].side # s0 \/ rc2[i].px # p0
    <3>1. i \in DOMAIN rc /\ rc2[i] = rc[i]
      BY <1>0, <2>2
    <3>2. rc2[i].side \in Side /\ rc2[i].px \in Px
      BY DEF Recorded, Rec
    <3>3. FifoAt(ms2, rc2[i].side, rc2[i].px) = FifoAt(ms, rc2[i].side, rc2[i].px)
      BY <2>2, <3>2 DEF SameLevels, FifoAt
    <3>4. IsQueued(ms, rc[i], i)
      BY <3>1 DEF MapsHold
    <3>5. QED
      BY <3>1, <3>3, <3>4 DEF IsQueued
  <2>3. QED
    BY <2>1, <2>2
<1>3. QED
  BY <1>1, <1>2 DEF MapsHold, SameLevels

LEMMA QtyModNat == StlQtyMod \in Nat \ {0} /\ 0 .. MaxQty \subseteq Int
BY LobAssumption, StlAssumption

(* A level's count, kept in a word.                                        *)
Word(x) == x % StlQtyMod
WordMinus(x, y) == (x - y) % StlQtyMod
WordPlus(x, y) == (x + y) % StlQtyMod

LEMMA CountDown ==
  ASSUME NEW a \in Int, NEW b \in Int
  PROVE  /\ WordMinus(Word(a), b) = Word(a - b)
         /\ Word(a - b) \in 0 .. StlQtyMod - 1
<1>1. StlQtyMod \in Nat \ {0} /\ a - b \in Int
  BY QtyModNat
<1>2. QED
  BY <1>1, ModMinus, DivMod DEF Word, WordMinus

LEMMA CountUp ==
  ASSUME NEW a \in Int, NEW b \in Int
  PROVE  /\ WordPlus(Word(a), b) = Word(a + b)
         /\ Word(a + b) \in 0 .. StlQtyMod - 1
<1>1. StlQtyMod \in Nat \ {0} /\ a + b \in Int
  BY QtyModNat
<1>2. QED
  BY <1>1, ModPlus, DivMod DEF Word, WordPlus

LEMMA HoldsRecord ==
  ASSUME NEW ms, NEW rc, MapsHold(ms, rc), NEW i \in DOMAIN rc
  PROVE  /\ i \in StlIds /\ rc[i] \in Rec /\ rc[i].side \in Side /\ rc[i].px \in Px
         /\ rc[i].qty \in 1 .. MaxQty /\ rc[i].qty \in Int
         /\ IsQueued(ms, rc[i], i)
<1>1. i \in StlIds /\ rc[i] \in Rec /\ IsQueued(ms, rc[i], i)
  BY DEF MapsHold, Recorded
<1>2. rc[i].side \in Side /\ rc[i].px \in Px /\ rc[i].qty \in 1 .. MaxQty
  BY <1>1 DEF Rec
<1>3. QED
  BY <1>1, <1>2, LobAssumption

(* The k0-th order of a level leaves, and the level with it if it was the  *)
(* only one.                                                               *)
LEMMA OrderLeaves ==
  ASSUME NEW ms, NEW ms2, NEW rc, NEW s0 \in Side, NEW p0 \in DOMAIN ms[s0],
         MapsHold(ms, rc), SameLevels(ms, ms2, s0, p0),
         NEW k0 \in 1 .. Len(ms[s0][p0].fifo), NEW i0, i0 = ms[s0][p0].fifo[k0],
         NEW fifo2, fifo2 = Drop(ms[s0][p0].fifo, k0),
         \/ /\ p0 \in DOMAIN ms2[s0]
            /\ ms2[s0][p0] = [fifo |-> fifo2,
                              qty |-> (ms[s0][p0].qty - rc[i0].qty) % StlQtyMod]
         \/ p0 \notin DOMAIN ms2[s0] /\ fifo2 = << >>
  PROVE  MapsHold(ms2, Without(rc, i0)) /\ i0 \in DOMAIN rc
<1> DEFINE lv == ms[s0][p0]
           f == lv.fifo
           rc2 == Without(rc, i0)
           g == Drop(f, k0)
<1>1. /\ LevelHolds(lv, rc, s0, p0) /\ Recorded(rc) /\ p0 \in Px
  BY DEF MapsHold
<1>2. /\ f \in Seq(StlIds) /\ OneToOne(f) /\ k0 \in 1 .. Len(f) /\ i0 = f[k0]
      /\ lv.qty = Total(f, rc) % StlQtyMod
      /\ \A k \in 1 .. Len(f) : f[k] \in DOMAIN rc /\ rc[f[k]].px = p0 /\ rc[f[k]].side = s0
  BY <1>1 DEF LevelHolds, StlLevel
<1>3. i0 \in DOMAIN rc /\ rc[i0].px = p0 /\ rc[i0].side = s0
  BY <1>2
<1>4. /\ DOMAIN rc2 = DOMAIN rc \ {i0}
      /\ \A i \in DOMAIN rc2 : rc2[i] = rc[i]
  BY DEF Without
<1>5. Recorded(rc2)
  BY <1>1, <1>4 DEF Recorded
<1>6. /\ g \in Seq(StlIds) /\ Len(g) = Len(f) - 1 /\ OneToOne(g)
      /\ \A j \in 1 .. Len(g) : \E h \in 1 .. Len(f) : h # k0 /\ g[j] = f[h]
      /\ \A h \in 1 .. Len(f) : h # k0 => \E j \in 1 .. Len(g) : g[j] = f[h]
  BY <1>2, AnyDrop, AnyDropOthers
<1>7. \A j \in 1 .. Len(g) : g[j] \in DOMAIN rc2 /\ rc2[g[j]] = rc[g[j]]
                             /\ rc[g[j]].px = p0 /\ rc[g[j]].side = s0
  <2>1. TAKE j \in 1 .. Len(g)
  <2>2. PICK h \in 1 .. Len(f) : h # k0 /\ g[j] = f[h]
    BY <1>6
  <2>3. f[h] # i0
    BY <1>2, <2>2 DEF OneToOne
  <2>4. QED
    BY <1>2, <1>4, <2>2, <2>3
<1> HIDE DEF lv, f, rc2, g
<1>8. Total(g, rc2) = Total(f, rc) - rc[i0].qty /\ Total(f, rc) \in Nat /\ rc[i0].qty \in Int
  <2>1. Counted(Held(rc), StlIds) /\ Counted(Held(rc2), StlIds)
    BY <1>1, <1>5, HeldCounted
  <2>0. f \in Seq(StlIds) /\ k0 \in 1 .. Len(f) /\ g \in Seq(StlIds)
    BY <1>2, <1>6
  <2>2. Total(g, Held(rc)) = Total(f, Held(rc)) - Held(rc)[f[k0]].qty
    BY <2>0, <2>1, AnyTotalDrop DEF g
  <2>3. \A j \in 1 .. Len(g) : Held(rc2)[g[j]].qty = Held(rc)[g[j]].qty
    <3>1. TAKE j \in 1 .. Len(g)
    <3>2. g[j] \in DOMAIN rc2 /\ g[j] \in DOMAIN rc /\ rc2[g[j]] = rc[g[j]]
      BY <1>4, <1>7
    <3>3. QED
      BY <1>1, <1>5, <3>2, HeldQty
  <2>4. Total(g, Held(rc2)) = Total(g, Held(rc))
    BY <2>0, <2>1, <2>3, AnyTotalSame
  <2>5. Total(g, rc2) = Total(g, Held(rc2))
    BY <1>5, <1>6, <1>7, HeldLists
  <2>6. Total(f, rc) = Total(f, Held(rc)) /\ Total(f, rc) \in Nat
    BY <1>1, <1>2, HeldLists
  <2>7. Held(rc)[f[k0]].qty = rc[i0].qty /\ rc[i0].qty \in Int
    BY <1>1, <1>2, <1>3, HeldCounted, LobAssumption
  <2>8. QED
    BY <2>2, <2>4, <2>5, <2>6, <2>7
<1>9. (lv.qty - rc[i0].qty) % StlQtyMod = Total(g, rc2) % StlQtyMod
      /\ Total(g, rc2) % StlQtyMod \in 0 .. StlQtyMod - 1
  <2> DEFINE a == Total(f, rc)
             b == rc[i0].qty
             c == lv.qty
             d == Total(g, rc2)
  <2>1. a \in Int /\ b \in Int /\ d = a - b /\ c = a % StlQtyMod
    BY <1>2, <1>8
  <2> HIDE DEF a, b, c, d
  <2>2. c = Word(a)
    BY <2>1 DEF Word
  <2>3. WordMinus(c, b) = Word(d) /\ Word(d) \in 0 .. StlQtyMod - 1
    BY <2>1, <2>2, CountDown
  <2>4. (c - b) % StlQtyMod = d % StlQtyMod /\ d % StlQtyMod \in 0 .. StlQtyMod - 1
    BY <2>3 DEF Word, WordMinus
  <2>5. QED
    BY <2>4 DEF a, b, c, d
<1>10. p0 \in DOMAIN ms2[s0] => LevelHolds(ms2[s0][p0], rc2, s0, p0)
  <2>1. SUFFICES ASSUME p0 \in DOMAIN ms2[s0]
        PROVE  LevelHolds(ms2[s0][p0], rc2, s0, p0)
    OBVIOUS
  <2>2. ms2[s0][p0] = [fifo |-> g, qty |-> (lv.qty - rc[i0].qty) % StlQtyMod]
    BY <2>1 DEF g, f, lv
  <2>3. ms2[s0][p0] = [fifo |-> g, qty |-> Total(g, rc2) % StlQtyMod]
    BY <1>9, <2>2
  <2> DEFINE lv2 == ms2[s0][p0]
  <2>4. lv2 \in StlLevel /\ lv2.fifo = g /\ lv2.qty = Total(g, rc2) % StlQtyMod
    BY <1>6, <1>9, <2>3 DEF StlLevel
  <2> HIDE DEF lv2
  <2>5. LevelHolds(lv2, rc2, s0, p0)
    BY <1>6, <1>7, <2>4 DEF LevelHolds
  <2>6. QED
    BY <2>5 DEF lv2
<1>11. FifoAt(ms2, s0, p0) = g /\ FifoAt(ms, s0, p0) = f
  BY DEF FifoAt, f, lv, g
<1>12. ASSUME NEW i \in DOMAIN rc2
       PROVE  \/ rc2[i].side = s0 /\ rc2[i].px = p0 /\ IsQueued(ms2, rc2[i], i)
              \/ (rc2[i].side # s0 \/ rc2[i].px # p0) /\ i \in DOMAIN rc /\ rc2[i] = rc[i]
  <2>1. i \in DOMAIN rc /\ i # i0 /\ rc2[i] = rc[i]
    BY <1>4
  <2>2. CASE rc[i].side = s0 /\ rc[i].px = p0
    <3>1. PICK h \in 1 .. Len(f) : f[h] = i
      BY <1>11, <2>1, <2>2, HoldsRecord DEF IsQueued, Within
    <3>2. h # k0
      BY <1>2, <2>1, <3>1
    <3>3. PICK j \in 1 .. Len(g) : g[j] = i
      BY <1>6, <3>1, <3>2
    <3>4. QED
      BY <1>11, <2>1, <2>2, <3>3 DEF IsQueued, Within
  <2>3. QED
    BY <2>1, <2>2
<1>13. \A i \in DOMAIN rc : (rc[i].side # s0 \/ rc[i].px # p0) =>
         i \in DOMAIN rc2 /\ rc2[i] = rc[i]
  BY <1>3, <1>4
<1>14. SameElsewhere(ms2, rc, rc2, s0, p0)
  BY <1>12, <1>13 DEF SameElsewhere
<1>15. MapsHold(ms2, rc2)
  BY <1>1, <1>5, <1>10, <1>14, OneLevelChanges
<1>16. QED
  BY <1>3, <1>15 DEF rc2

(* An empty level is erased.                                               *)
LEMMA LevelErased ==
  ASSUME NEW ms, NEW ms2, NEW rc, NEW s0 \in Side, NEW p0 \in DOMAIN ms[s0],
         MapsHold(ms, rc), SameLevels(ms, ms2, s0, p0),
         ms[s0][p0].fifo = << >>, p0 \notin DOMAIN ms2[s0]
  PROVE  MapsHold(ms2, rc)
<1>1. p0 \in Px /\ Recorded(rc)
  BY DEF MapsHold
<1>2. ASSUME NEW i \in DOMAIN rc
      PROVE  rc[i].side # s0 \/ rc[i].px # p0
  <2>1. IsQueued(ms, rc[i], i)
    BY HoldsRecord
  <2>2. CASE rc[i].side = s0 /\ rc[i].px = p0
    <3>1. FifoAt(ms, s0, p0) = << >>
      BY DEF FifoAt
    <3>2. QED
      BY <2>1, <2>2, <3>1 DEF IsQueued, Within
  <2>3. QED
    BY <2>2
<1>3. SameElsewhere(ms2, rc, rc, s0, p0)
  BY <1>2 DEF SameElsewhere
<1>4. QED
  BY <1>1, <1>3, OneLevelChanges

(* A part of the oldest order of a level is filled.                        *)
ReducedBy(f, os, os2, t) ==
  /\ 1 \in 1 .. Len(f) /\ os2[f[1]].qty = os[f[1]].qty - t
  /\ \A k \in 1 .. Len(f) : k # 1 => os2[f[k]].qty = os[f[k]].qty

LEMMA TotalFilled ==
  ASSUME NEW I, NEW f \in Seq(I), NEW os, Counted(os, I), NEW os2, Counted(os2, I),
         NEW t, t \in Nat, ReducedBy(f, os, os2, t)
  PROVE  Total(f, os2) = Total(f, os) - t
BY AnyTotalReduced DEF ReducedBy

FilledLevel(lv, t) == [fifo |-> lv.fifo, qty |-> (lv.qty - t) % StlQtyMod]
FilledRecs(rc, i0, t) == [rc EXCEPT ![i0].qty = @ - t]

LEMMA OrderFilled ==
  ASSUME NEW ms, NEW ms2, NEW rc, NEW rc2, NEW s0 \in Side, NEW p0 \in DOMAIN ms[s0],
         MapsHold(ms, rc), SameLevels(ms, ms2, s0, p0), p0 \in DOMAIN ms2[s0],
         1 \in 1 .. Len(ms[s0][p0].fifo), NEW i0, i0 = ms[s0][p0].fifo[1],
         NEW t \in 1 .. MaxQty, t < rc[i0].qty,
         ms2[s0][p0] = FilledLevel(ms[s0][p0], t), rc2 = FilledRecs(rc, i0, t)
  PROVE  MapsHold(ms2, rc2)
<1> DEFINE lv == ms[s0][p0]
           f == lv.fifo
           lv2 == ms2[s0][p0]
<1>1. /\ LevelHolds(lv, rc, s0, p0) /\ Recorded(rc) /\ p0 \in Px
  BY DEF MapsHold
<1>2. /\ f \in Seq(StlIds) /\ OneToOne(f) /\ 1 \in 1 .. Len(f) /\ i0 = f[1]
      /\ lv.qty = Total(f, rc) % StlQtyMod
      /\ \A k \in 1 .. Len(f) : f[k] \in DOMAIN rc /\ rc[f[k]].px = p0 /\ rc[f[k]].side = s0
  BY <1>1 DEF LevelHolds, StlLevel
<1>3. i0 \in DOMAIN rc /\ rc[i0].px = p0 /\ rc[i0].side = s0
  BY <1>2
<1>4. rc[i0] \in Rec /\ rc[i0].qty \in 1 .. MaxQty /\ t \in Int /\ rc[i0].qty \in Int
      /\ t \in Nat /\ rc[i0].qty - t \in 1 .. MaxQty
  BY <1>3, HoldsRecord, LobAssumption
<1>5. /\ DOMAIN rc2 = DOMAIN rc
      /\ \A i \in DOMAIN rc : i # i0 => rc2[i] = rc[i]
      /\ rc2[i0].px = p0 /\ rc2[i0].side = s0 /\ rc2[i0].qty = rc[i0].qty - t
      /\ rc2[i0] \in Rec
  BY <1>3, <1>4 DEF Rec, FilledRecs
<1>6. Recorded(rc2)
  BY <1>1, <1>3, <1>5 DEF Recorded
<1>7. lv2 = [fifo |-> f, qty |-> (lv.qty - t) % StlQtyMod]
  BY DEF FilledLevel
<1> HIDE DEF lv, f, lv2
<1>8. /\ \A k \in 1 .. Len(f) : f[k] \in DOMAIN rc2 /\ rc2[f[k]].px = p0 /\ rc2[f[k]].side = s0
      /\ \A k \in 1 .. Len(f) : k # 1 => f[k] # i0 /\ rc2[f[k]] = rc[f[k]]
  BY <1>2, <1>5 DEF OneToOne
<1>9. Total(f, rc2) = Total(f, rc) - t /\ Total(f, rc) \in Nat
  <2>1. Counted(Held(rc), StlIds) /\ Counted(Held(rc2), StlIds)
    BY <1>1, <1>6, HeldCounted
  <2>2. Held(rc2)[f[1]].qty = Held(rc)[f[1]].qty - t
    BY <1>1, <1>2, <1>3, <1>5, <1>6, HeldQty
  <2>3. \A k \in 1 .. Len(f) : k # 1 => Held(rc2)[f[k]].qty = Held(rc)[f[k]].qty
    <3>1. TAKE k \in 1 .. Len(f)
    <3>2. SUFFICES ASSUME k # 1
          PROVE  Held(rc2)[f[k]].qty = Held(rc)[f[k]].qty
      OBVIOUS
    <3>3. f[k] \in DOMAIN rc2 /\ f[k] \in DOMAIN rc /\ rc2[f[k]] = rc[f[k]]
      BY <1>2, <1>8, <3>2
    <3>4. QED
      BY <1>1, <1>6, <3>3, HeldQty
  <2>4. f \in Seq(StlIds) /\ 1 \in 1 .. Len(f)
    BY <1>2
  <2>5. Total(f, Held(rc2)) = Total(f, Held(rc)) - t
    <3>1. ReducedBy(f, Held(rc), Held(rc2), t)
      BY <2>2, <2>3, <2>4 DEF ReducedBy
    <3>2. QED
      BY <1>4, <2>1, <2>4, <3>1, TotalFilled
  <2>6. Total(f, rc) = Total(f, Held(rc)) /\ Total(f, rc) \in Nat
    BY <1>1, <1>2, HeldLists
  <2>7. Total(f, rc2) = Total(f, Held(rc2))
    BY <1>6, <1>8, <2>4, HeldLists
  <2>8. QED
    BY <2>5, <2>6, <2>7
<1>10. /\ (lv.qty - t) % StlQtyMod = Total(f, rc2) % StlQtyMod
       /\ Total(f, rc2) % StlQtyMod \in 0 .. StlQtyMod - 1
  <2> DEFINE a == Total(f, rc)
             c == lv.qty
             d == Total(f, rc2)
  <2>1. a \in Int /\ t \in Int /\ d = a - t /\ c = a % StlQtyMod
    BY <1>2, <1>4, <1>9
  <2> HIDE DEF a, c, d
  <2>2. c = Word(a)
    BY <2>1 DEF Word
  <2>3. WordMinus(c, t) = Word(d) /\ Word(d) \in 0 .. StlQtyMod - 1
    BY <2>1, <2>2, CountDown
  <2>4. (c - t) % StlQtyMod = d % StlQtyMod /\ d % StlQtyMod \in 0 .. StlQtyMod - 1
    BY <2>3 DEF Word, WordMinus
  <2>5. QED
    BY <2>4 DEF a, c, d
<1>11. LevelHolds(lv2, rc2, s0, p0)
  <2>1. lv2 \in StlLevel /\ lv2.fifo = f /\ lv2.qty = Total(f, rc2) % StlQtyMod
    BY <1>2, <1>7, <1>10 DEF StlLevel
  <2>2. QED
    BY <1>2, <1>8, <2>1 DEF LevelHolds
<1>12. FifoAt(ms2, s0, p0) = f /\ FifoAt(ms, s0, p0) = f
  BY <1>7 DEF FifoAt, f, lv, lv2
<1>13. ASSUME NEW i \in DOMAIN rc2
       PROVE  \/ rc2[i].side = s0 /\ rc2[i].px = p0 /\ IsQueued(ms2, rc2[i], i)
              \/ (rc2[i].side # s0 \/ rc2[i].px # p0) /\ i \in DOMAIN rc /\ rc2[i] = rc[i]
  <2>1. i \in DOMAIN rc /\ rc2[i].px = rc[i].px /\ rc2[i].side = rc[i].side
        /\ (i # i0 => rc2[i] = rc[i])
    BY <1>3, <1>5
  <2>2. IsQueued(ms, rc[i], i)
    BY <2>1, HoldsRecord
  <2>3. CASE rc[i].side = s0 /\ rc[i].px = p0
    <3>1. Within(f, i)
      BY <1>12, <2>2, <2>3 DEF IsQueued
    <3>2. rc2[i].side = s0 /\ rc2[i].px = p0
      BY <2>1, <2>3
    <3>3. QED
      BY <1>12, <3>1, <3>2 DEF IsQueued
  <2>4. CASE rc[i].side # s0 \/ rc[i].px # p0
    BY <1>3, <2>1, <2>4
  <2>5. QED
    BY <2>3, <2>4
<1>14. \A i \in DOMAIN rc : (rc[i].side # s0 \/ rc[i].px # p0) =>
         i \in DOMAIN rc2 /\ rc2[i] = rc[i]
  BY <1>3, <1>5
<1>15. p0 \in DOMAIN ms2[s0] => LevelHolds(ms2[s0][p0], rc2, s0, p0)
  BY <1>11 DEF lv2
<1>16. SameElsewhere(ms2, rc, rc2, s0, p0)
  BY <1>13, <1>14 DEF SameElsewhere
<1>17. QED
  BY <1>1, <1>6, <1>15, <1>16, OneLevelChanges

JoinedLevel(lvs, p0, i0, t) ==
  [fifo |-> Append(IF p0 \in DOMAIN lvs THEN lvs[p0].fifo ELSE << >>, i0),
   qty |-> ((IF p0 \in DOMAIN lvs THEN lvs[p0].qty ELSE 0) + t) % StlQtyMod]

(* An order joins its level, which is created if there is none.            *)
LEMMA OrderJoins ==
  ASSUME NEW ms, NEW ms2, NEW rc, NEW rc2, NEW s0 \in Side, NEW p0 \in Px,
         MapsHold(ms, rc), SameLevels(ms, ms2, s0, p0), p0 \in DOMAIN ms2[s0],
         NEW i0 \in StlIds, i0 \notin DOMAIN rc, NEW t \in 1 .. MaxQty,
         ms2[s0][p0] = JoinedLevel(ms[s0], p0, i0, t),
         rc2 = With(rc, i0, [px |-> p0, qty |-> t, side |-> s0])
  PROVE  MapsHold(ms2, rc2)
<1> DEFINE f == FifoAt(ms, s0, p0)
           g == Append(f, i0)
           cnt == IF p0 \in DOMAIN ms[s0] THEN ms[s0][p0].qty ELSE 0
           lv2 == ms2[s0][p0]
<1>1. Recorded(rc)
  BY DEF MapsHold
<1>2. /\ f \in Seq(StlIds) /\ OneToOne(f)
      /\ cnt = Total(f, rc) % StlQtyMod
      /\ \A k \in 1 .. Len(f) : f[k] \in DOMAIN rc /\ rc[f[k]].px = p0 /\ rc[f[k]].side = s0
  <2>1. CASE p0 \in DOMAIN ms[s0]
    <3>1. LevelHolds(ms[s0][p0], rc, s0, p0)
      BY <2>1 DEF MapsHold
    <3>2. QED
      BY <2>1, <3>1 DEF LevelHolds, StlLevel, FifoAt
  <2>2. CASE p0 \notin DOMAIN ms[s0]
    <3>1. f = << >> /\ cnt = 0
      BY <2>2 DEF FifoAt
    <3> HIDE DEF f, cnt
    <3>2. f \in Seq(StlIds) /\ Len(f) = 0 /\ OneToOne(f)
      BY <3>1 DEF OneToOne
    <3>3. Total(f, rc) = 0
      <4>1. Counted(Held(rc), StlIds)
        BY <1>1, HeldCounted
      <4>2. Sums(f, Held(rc))[0] = 0
        BY <3>2, <4>1, AnySums
      <4>3. Total(f, Held(rc)) = 0
        BY <3>2, <4>2 DEF Total
      <4>4. \A k \in 1 .. Len(f) : f[k] \in DOMAIN rc
        BY <3>2
      <4>5. QED
        BY <1>1, <3>2, <4>3, <4>4, HeldLists
    <3>4. 0 % StlQtyMod = 0
      <4>1. 0 = StlQtyMod * 0 + 0 /\ 0 \in 0 .. StlQtyMod - 1
        BY QtyModNat
      <4>2. QED
        BY <4>1, QtyModNat, DivModUnique
    <3>5. QED
      BY <3>1, <3>2, <3>3, <3>4
  <2>3. QED
    BY <2>1, <2>2
<1>3. /\ DOMAIN rc2 = DOMAIN rc \cup {i0}
      /\ \A i \in DOMAIN rc : i # i0 /\ rc2[i] = rc[i]
      /\ rc2[i0] = [px |-> p0, qty |-> t, side |-> s0]
  BY DEF With
<1>4. rc2[i0] \in Rec /\ rc2[i0].px = p0 /\ rc2[i0].side = s0 /\ rc2[i0].qty = t
  BY <1>3 DEF Rec
<1>5. Recorded(rc2)
  BY <1>1, <1>3, <1>4 DEF Recorded
<1>6. /\ Len(f) \in Nat /\ g \in Seq(StlIds) /\ Len(g) = Len(f) + 1 /\ g[Len(f) + 1] = i0
      /\ \A k \in 1 .. Len(f) : g[k] = f[k]
  BY <1>2, AppendProperties, LenProperties
<1>7. lv2 = [fifo |-> g, qty |-> (cnt + t) % StlQtyMod]
  BY DEF JoinedLevel, FifoAt
<1> HIDE DEF f, g, cnt, lv2
<1>8. /\ \A k \in 1 .. Len(f) : f[k] \in DOMAIN rc2 /\ f[k] # i0 /\ rc2[f[k]] = rc[f[k]]
      /\ i0 \in DOMAIN rc2
  BY <1>2, <1>3
<1>9. \A k \in 1 .. Len(g) : k \in 1 .. Len(f) \/ k = Len(f) + 1
  BY <1>6
<1>10. OneToOne(g)
  BY <1>2, <1>6, <1>8, <1>9 DEF OneToOne
<1>11. \A k \in 1 .. Len(g) : g[k] \in DOMAIN rc2 /\ rc2[g[k]].px = p0 /\ rc2[g[k]].side = s0
  <2>1. TAKE k \in 1 .. Len(g)
  <2>2. CASE k \in 1 .. Len(f)
    BY <1>2, <1>6, <1>8, <2>2
  <2>3. CASE k = Len(f) + 1
    BY <1>4, <1>6, <1>8, <2>3
  <2>4. QED
    BY <1>9, <2>2, <2>3
<1>12. Total(g, rc2) = Total(f, rc) + t /\ Total(f, rc) \in Nat
  <2>1. Counted(Held(rc), StlIds) /\ Counted(Held(rc2), StlIds)
    BY <1>1, <1>5, HeldCounted
  <2>2. f \in Seq(StlIds) /\ g \in Seq(StlIds) /\ i0 \in StlIds
    BY <1>2, <1>6
  <2>3. Total(g, Held(rc2)) = Total(f, Held(rc2)) + Held(rc2)[i0].qty
    BY <2>1, <2>2, AnyTotalAppend DEF g
  <2>4. \A k \in 1 .. Len(f) : Held(rc2)[f[k]].qty = Held(rc)[f[k]].qty
    <3>1. TAKE k \in 1 .. Len(f)
    <3>2. f[k] \in DOMAIN rc2 /\ f[k] \in DOMAIN rc /\ rc2[f[k]] = rc[f[k]]
      BY <1>2, <1>8
    <3>3. QED
      BY <1>1, <1>5, <3>2, HeldQty
  <2>5. Total(f, Held(rc2)) = Total(f, Held(rc))
    BY <2>1, <2>2, <2>4, AnyTotalSame
  <2>6. Held(rc2)[i0].qty = t
    BY <1>4, <1>5, <1>8, HeldCounted
  <2>7. Total(f, rc) = Total(f, Held(rc)) /\ Total(f, rc) \in Nat
    BY <1>1, <1>2, HeldLists
  <2>8. Total(g, rc2) = Total(g, Held(rc2))
    BY <1>5, <1>11, <2>2, HeldLists
  <2>9. QED
    BY <2>3, <2>5, <2>6, <2>7, <2>8
<1>13. /\ (cnt + t) % StlQtyMod = Total(g, rc2) % StlQtyMod
       /\ Total(g, rc2) % StlQtyMod \in 0 .. StlQtyMod - 1
  <2> DEFINE a == Total(f, rc)
             d == Total(g, rc2)
  <2>1. a \in Int /\ t \in Int /\ d = a + t /\ cnt = a % StlQtyMod
    BY <1>2, <1>12, LobAssumption
  <2> HIDE DEF a, d
  <2>2. cnt = Word(a)
    BY <2>1 DEF Word
  <2>3. WordPlus(cnt, t) = Word(d) /\ Word(d) \in 0 .. StlQtyMod - 1
    BY <2>1, <2>2, CountUp
  <2>4. (cnt + t) % StlQtyMod = d % StlQtyMod /\ d % StlQtyMod \in 0 .. StlQtyMod - 1
    BY <2>3 DEF Word, WordPlus
  <2>5. QED
    BY <2>4 DEF d
<1>14. LevelHolds(lv2, rc2, s0, p0)
  <2>1. lv2 \in StlLevel /\ lv2.fifo = g /\ lv2.qty = Total(g, rc2) % StlQtyMod
    BY <1>6, <1>7, <1>13 DEF StlLevel
  <2>2. QED
    BY <1>10, <1>11, <2>1 DEF LevelHolds
<1>15. FifoAt(ms2, s0, p0) = g
  BY <1>7 DEF FifoAt, lv2
<1>16. ASSUME NEW i \in DOMAIN rc2
       PROVE  \/ rc2[i].side = s0 /\ rc2[i].px = p0 /\ IsQueued(ms2, rc2[i], i)
              \/ (rc2[i].side # s0 \/ rc2[i].px # p0) /\ i \in DOMAIN rc /\ rc2[i] = rc[i]
  <2>1. CASE i = i0
    <3>1. Len(f) + 1 \in 1 .. Len(g)
      BY <1>6
    <3>2. QED
      <4>1. Within(g, i0)
        BY <1>6, <3>1 DEF Within
      <4>2. QED
        BY <1>4, <1>15, <2>1, <4>1 DEF IsQueued
  <2>2. CASE i # i0 /\ rc[i].side = s0 /\ rc[i].px = p0
    <3>1. i \in DOMAIN rc /\ rc2[i] = rc[i] /\ IsQueued(ms, rc[i], i)
      BY <1>3, <2>2, HoldsRecord
    <3>2. PICK k \in 1 .. Len(f) : f[k] = i
      <4>1. Within(f, i)
        BY <2>2, <3>1 DEF IsQueued, f
      <4>2. QED
        BY <4>1 DEF Within
    <3>3. k \in 1 .. Len(g) /\ g[k] = i
      BY <1>6, <3>2
    <3>4. QED
      <4>1. Within(g, i)
        BY <3>3 DEF Within
      <4>2. QED
        BY <1>15, <2>2, <3>1, <4>1 DEF IsQueued
  <2>3. CASE i # i0 /\ (rc[i].side # s0 \/ rc[i].px # p0)
    BY <1>3, <2>3
  <2>4. QED
    BY <2>1, <2>2, <2>3
<1>17. \A i \in DOMAIN rc : (rc[i].side # s0 \/ rc[i].px # p0) =>
         i \in DOMAIN rc2 /\ rc2[i] = rc[i]
  BY <1>3
<1>18. p0 \in DOMAIN ms2[s0] => LevelHolds(ms2[s0][p0], rc2, s0, p0)
  BY <1>14 DEF lv2
<1>19. SameElsewhere(ms2, rc, rc2, s0, p0)
  BY <1>16, <1>17 DEF SameElsewhere
<1>20. QED
  BY <1>5, <1>18, <1>19, OneLevelChanges
-----------------------------------------------------------------------------
(* The inductive invariant of the tree book, by parts: its maps agree, ... *)
StlRegs ==
  /\ next_id_ \in 1 .. Submits + 1
  /\ live_ \in 0 .. MaxOrders
  /\ stlPc \in {"idle", "match", "take"}
  /\ taker \in [id : StlIds \cup {kInvalidId}, px : Px, side : Side]
  /\ stlRemaining \in 0 .. MaxQty
  /\ stlTrade \in [maker : StlIds, taker : StlIds, px : Px, qty : 1 .. MaxQty] \cup {NoTrade}

(* ... a level without orders is the one that is being taken from, and ... *)
OnlyTaken ==
  \A s \in Side : \A p \in DOMAIN maps[s] :
    maps[s][p].fifo = << >> => /\ stlPc = "take" /\ s = Opposite(taker.side)
                               /\ p = Begin(s)

(* ... live_ counts the orders that rest and the taker.                    *)
LiveCount == live_ = Cardinality(DOMAIN recs) + (IF stlPc = "idle" THEN 0 ELSE 1)

StlParts ==
  MapsHold(maps, recs) /\ StlRegs /\ StlControl /\ OnlyTaken /\ LiveCount

LEMMA StlInvIs == StlInv <=> StlParts
<1>1. ASSUME StlInv
      PROVE  StlParts
  <2>1. StlRegs /\ StlControl /\ OnlyTaken /\ LiveCount
    BY <1>1, Zenon DEF StlInv, StlTypeOK, StlRegs, StlLevels, OnlyTaken, CopiesAgree, LiveCount
  <2>2. Recorded(recs) /\ DOMAIN maps = Side /\ \A s \in Side : DOMAIN maps[s] \subseteq Px
    BY <1>1 DEF StlInv, StlTypeOK, Recorded
  <2>3. ASSUME NEW s \in Side, NEW p \in DOMAIN maps[s]
        PROVE  LevelHolds(maps[s][p], recs, s, p)
    <3>1. /\ maps[s][p] \in StlLevel /\ OneToOne(maps[s][p].fifo)
          /\ maps[s][p].qty = Total(maps[s][p].fifo, recs) % StlQtyMod
          /\ \A k \in DOMAIN maps[s][p].fifo :
               /\ maps[s][p].fifo[k] \in DOMAIN recs
               /\ recs[maps[s][p].fifo[k]].px = p /\ recs[maps[s][p].fifo[k]].side = s
      <4>1. StlTypeOK /\ StlLevels /\ CopiesAgree
        BY <1>1 DEF StlInv
      <4>2. maps[s][p] \in StlLevel
        BY <4>1, Zenon DEF StlTypeOK
      <4>3. OneToOne(maps[s][p].fifo) /\ maps[s][p].qty = Total(maps[s][p].fifo, recs) % StlQtyMod
        BY <4>1, Zenon DEF StlLevels
      <4>4. \A k \in DOMAIN maps[s][p].fifo :
               /\ maps[s][p].fifo[k] \in DOMAIN recs
               /\ recs[maps[s][p].fifo[k]].px = p /\ recs[maps[s][p].fifo[k]].side = s
        BY <4>1 DEF CopiesAgree
      <4>5. QED
        BY <4>2, <4>3, <4>4, Zenon
    <3>2. DOMAIN maps[s][p].fifo = 1 .. Len(maps[s][p].fifo)
      BY <3>1 DEF StlLevel
    <3>3. QED
      BY <3>1, <3>2, Zenon DEF LevelHolds
  <2>4. ASSUME NEW i \in DOMAIN recs
        PROVE  IsQueued(maps, recs[i], i)
    <3>1. recs[i].side \in Side /\ recs[i].px \in Px
      BY <2>2 DEF Recorded, Rec
    <3>2. /\ recs[i].px \in DOMAIN maps[recs[i].side]
          /\ \E k \in DOMAIN maps[recs[i].side][recs[i].px].fifo :
               maps[recs[i].side][recs[i].px].fifo[k] = i
      BY <1>1 DEF StlInv, CopiesAgree
    <3>3. maps[recs[i].side][recs[i].px] \in StlLevel
      BY <2>3, <3>1, <3>2 DEF LevelHolds
    <3>4. DOMAIN maps[recs[i].side][recs[i].px].fifo
            = 1 .. Len(maps[recs[i].side][recs[i].px].fifo)
      BY <3>3 DEF StlLevel
    <3>5. QED
      BY <3>2, <3>4 DEF IsQueued, FifoAt, Within
  <2>5. QED
    BY <2>1, <2>2, <2>3, <2>4 DEF StlParts, MapsHold
<1>2. ASSUME StlParts
      PROVE  StlInv
  <2>1. /\ DOMAIN maps = Side /\ \A s \in Side : DOMAIN maps[s] \subseteq Px
        /\ DOMAIN recs \subseteq StlIds /\ \A i \in DOMAIN recs : recs[i] \in Rec
    BY <1>2 DEF StlParts, MapsHold, Recorded
  <2>2. ASSUME NEW s \in Side, NEW p \in DOMAIN maps[s]
        PROVE  /\ LevelHolds(maps[s][p], recs, s, p)
               /\ maps[s][p] \in StlLevel
               /\ DOMAIN maps[s][p].fifo = 1 .. Len(maps[s][p].fifo)
    <3>1. LevelHolds(maps[s][p], recs, s, p)
      BY <1>2 DEF StlParts, MapsHold
    <3>2. QED
      BY <3>1 DEF LevelHolds, StlLevel
  <2>3. StlTypeOK
    BY <1>2, <2>1, <2>2, Zenon DEF StlParts, StlRegs, StlTypeOK
  <2>4. ASSUME NEW s \in Side, NEW p \in DOMAIN maps[s]
        PROVE  /\ OneToOne(maps[s][p].fifo)
               /\ maps[s][p].qty = Total(maps[s][p].fifo, recs) % StlQtyMod
               /\ \A k \in DOMAIN maps[s][p].fifo :
                    /\ maps[s][p].fifo[k] \in DOMAIN recs
                    /\ recs[maps[s][p].fifo[k]].px = p /\ recs[maps[s][p].fifo[k]].side = s
    BY <2>2 DEF LevelHolds
  <2>5. StlLevels
    BY <1>2, <2>4, Zenon DEF StlParts, OnlyTaken, StlLevels
  <2>6. ASSUME NEW i \in DOMAIN recs
        PROVE  /\ recs[i].px \in DOMAIN maps[recs[i].side]
               /\ \E k \in DOMAIN maps[recs[i].side][recs[i].px].fifo :
                    maps[recs[i].side][recs[i].px].fifo[k] = i
    <3>1. recs[i].side \in Side /\ recs[i].px \in Px /\ IsQueued(maps, recs[i], i)
      BY <1>2, HoldsRecord DEF StlParts
    <3>2. Len(<< >>) = 0
      OBVIOUS
    <3>3. recs[i].px \in DOMAIN maps[recs[i].side]
      BY <3>1, <3>2 DEF IsQueued, FifoAt, Within
    <3>4. QED
      BY <2>2, <3>1, <3>3 DEF IsQueued, FifoAt, Within
  <2>7. stlPc = "idle" => \A s \in Side : \A p \in DOMAIN maps[s] : maps[s][p].fifo # << >>
    BY <1>2 DEF StlParts, OnlyTaken
  <2>8. CopiesAgree
    <3>1. live_ = Cardinality(DOMAIN recs) + (IF stlPc = "idle" THEN 0 ELSE 1)
      BY <1>2, Zenon DEF StlParts, LiveCount
    <3>2. \A s \in Side : \A p \in DOMAIN maps[s] :
            \A k \in DOMAIN maps[s][p].fifo :
              /\ maps[s][p].fifo[k] \in DOMAIN recs
              /\ recs[maps[s][p].fifo[k]].px = p /\ recs[maps[s][p].fifo[k]].side = s
      BY <2>4, Zenon
    <3>3. \A i \in DOMAIN recs :
            /\ recs[i].px \in DOMAIN maps[recs[i].side]
            /\ \E k \in DOMAIN maps[recs[i].side][recs[i].px].fifo :
                 maps[recs[i].side][recs[i].px].fifo[k] = i
      BY <2>6, Zenon
    <3>4. QED
      BY <2>7, <3>1, <3>2, <3>3 DEF CopiesAgree
  <2>9. QED
    BY <1>2, <2>3, <2>5, <2>8 DEF StlInv, StlParts
<1>3. QED
  BY <1>1, <1>2

LEMMA NextStlInvIs == StlInv' <=> StlParts'
<1>1. StlInv <=> StlParts
  BY StlInvIs
<1>2. QED
  BY <1>1, PTL
-----------------------------------------------------------------------------
(* begin() of a map with the prices D: the best of them.                   *)
BeginOf(D, side) ==
  CHOOSE p \in D : \A q \in D : IF side = "Buy" THEN q <= p ELSE q >= p

LEMMA BeginOfIs ==
  ASSUME NEW side, NEW D, D \subseteq Px, D # {}
  PROVE  /\ BeginOf(D, side) \in D
         /\ \A q \in D : IF side = "Buy" THEN q <= BeginOf(D, side) ELSE q >= BeginOf(D, side)
<1> DEFINE Nearest(p) == \A q \in D : IF side = "Buy" THEN q <= p ELSE q >= p
           b == CHOOSE p \in D : Nearest(p)
<1>1. \E p \in D : Nearest(p)
  BY Extreme
<1>2. b \in D /\ Nearest(b)
  <2> HIDE DEF Nearest
  <2>1. QED
    BY <1>1
<1>3. b = BeginOf(D, side)
  BY DEF BeginOf
<1> HIDE DEF b
<1>4. QED
  BY <1>2, <1>3

LEMMA BeginIsOf ==
  /\ \A side : Begin(side) = BeginOf(DOMAIN maps[side], side)
  /\ \A side : Begin(side)' = BeginOf(DOMAIN maps'[side], side)
BY DEF Begin, BeginOf

(* The taker may trade with the level at price p of the other side.        *)
Accepts(p) == IF taker.side = "Buy" THEN p <= taker.px ELSE p >= taker.px

LEMMA ControlIs ==
  /\ StlControl <=>
       /\ stlPc = "idle" <=> taker.id = kInvalidId
       /\ taker.id < next_id_ /\ taker.id \notin DOMAIN recs
       /\ \A id \in DOMAIN recs : id < next_id_
       /\ stlPc = "take" =>
            DOMAIN maps[Opposite(taker.side)] # {} /\ Accepts(Begin(Opposite(taker.side)))
  /\ StlCrossing <=>
       /\ stlRemaining # 0 /\ DOMAIN maps[Opposite(taker.side)] # {}
       /\ Accepts(Begin(Opposite(taker.side)))
BY Zenon DEF StlControl, StlCrossing, Accepts

LEMMA NextControlIs ==
  StlControl' <=>
    /\ stlPc' = "idle" <=> taker'.id = kInvalidId
    /\ taker'.id < next_id_' /\ taker'.id \notin DOMAIN recs'
    /\ \A id \in DOMAIN recs' : id < next_id_'
    /\ stlPc' = "take" =>
         /\ DOMAIN maps'[Opposite(taker'.side)] # {}
         /\ Accepts(Begin(Opposite(taker.side)))'
BY Zenon DEF StlControl, Accepts

LEMMA OppositeSide ==
  \A s \in Side : /\ Opposite(s) \in Side /\ Opposite(s) # s
                  /\ \A r \in Side : r = s \/ r = Opposite(s)
BY DEF Side, Opposite

(* What the parts say of the taker.                                        *)
LEMMA TakerTyped ==
  ASSUME StlParts
  PROVE  /\ taker.id \in StlIds \cup {kInvalidId} /\ taker.px \in Px /\ taker.side \in Side
         /\ Opposite(taker.side) \in Side
         /\ stlPc # "idle" => taker.id \in StlIds
         /\ DOMAIN maps = Side
         /\ \A s \in Side : DOMAIN maps[s] \subseteq Px
<1>1. taker \in [id : StlIds \cup {kInvalidId}, px : Px, side : Side]
  BY DEF StlParts, StlRegs
<1>2. stlPc = "idle" <=> taker.id = kInvalidId
  BY ControlIs DEF StlParts
<1>3. QED
  BY <1>1, <1>2, OppositeSide DEF StlParts, MapsHold

(* There are finitely many orders.                                         *)
LEMMA RecsFinite ==
  ASSUME NEW rc, Recorded(rc)
  PROVE  /\ IsFiniteSet(DOMAIN rc) /\ Cardinality(DOMAIN rc) \in Nat
         /\ \A i \in DOMAIN rc : /\ Cardinality(DOMAIN Without(rc, i)) = Cardinality(DOMAIN rc) - 1
                                 /\ Cardinality(DOMAIN rc) - 1 \in Nat
         /\ \A i, v : i \notin DOMAIN rc =>
              Cardinality(DOMAIN With(rc, i, v)) = Cardinality(DOMAIN rc) + 1
<1>1. IsFiniteSet(StlIds) /\ DOMAIN rc \subseteq StlIds
  BY FS_Interval, StlAssumption DEF StlIds, Recorded
<1>2. IsFiniteSet(DOMAIN rc)
  BY <1>1, FS_Subset
<1>3. Cardinality(DOMAIN rc) \in Nat
  BY <1>2, FS_CardinalityType
<1>4. ASSUME NEW i \in DOMAIN rc
      PROVE  /\ Cardinality(DOMAIN Without(rc, i)) = Cardinality(DOMAIN rc) - 1
             /\ Cardinality(DOMAIN rc) - 1 \in Nat
  <2>1. DOMAIN Without(rc, i) = DOMAIN rc \ {i}
    BY DEF Without
  <2>2. IsFiniteSet(DOMAIN rc \ {i}) /\ Cardinality(DOMAIN rc \ {i}) = Cardinality(DOMAIN rc) - 1
    BY <1>2, FS_RemoveElement
  <2>3. Cardinality(DOMAIN rc \ {i}) \in Nat
    BY <2>2, FS_CardinalityType
  <2>4. QED
    BY <2>1, <2>2, <2>3
<1>5. ASSUME NEW i, NEW v, i \notin DOMAIN rc
      PROVE  Cardinality(DOMAIN With(rc, i, v)) = Cardinality(DOMAIN rc) + 1
  <2>1. DOMAIN With(rc, i, v) = DOMAIN rc \cup {i}
    BY DEF With
  <2>2. QED
    BY <1>2, <1>5, <2>1, FS_AddElement
<1>6. QED
  BY <1>2, <1>3, <1>4, <1>5
-----------------------------------------------------------------------------
(* The three ways a step changes the maps.                                 *)
LevelSet(ms, s0, p0, v) == [ms EXCEPT ![s0][p0] = v]
LevelGone(ms, s0, p0) == [ms EXCEPT ![s0] = Without(@, p0)]
LevelPut(ms, s0, p0, v) == [ms EXCEPT ![s0] = With(@, p0, v)]

Banded(ms) == DOMAIN ms = Side /\ \A s \in Side : DOMAIN ms[s] \subseteq Px

LEMMA LevelSetIs ==
  ASSUME NEW ms, Banded(ms), NEW s0 \in Side, NEW p0 \in DOMAIN ms[s0], NEW v,
         NEW ms2, ms2 = LevelSet(ms, s0, p0, v)
  PROVE  /\ SameLevels(ms, ms2, s0, p0) /\ ms2[s0][p0] = v
         /\ \A s \in Side : DOMAIN ms2[s] = DOMAIN ms[s]
<1>1. /\ DOMAIN ms2 = Side /\ ms2[s0] = [ms[s0] EXCEPT ![p0] = v]
      /\ \A s \in Side : s # s0 => ms2[s] = ms[s]
  BY DEF Banded, LevelSet
<1>2. /\ DOMAIN ms2[s0] = DOMAIN ms[s0] /\ ms2[s0][p0] = v
      /\ \A p \in DOMAIN ms[s0] : p # p0 => ms2[s0][p] = ms[s0][p]
  BY <1>1
<1>3. QED
  BY <1>1, <1>2 DEF SameLevels, Banded

LEMMA LevelGoneIs ==
  ASSUME NEW ms, Banded(ms), NEW s0 \in Side, NEW p0 \in DOMAIN ms[s0],
         NEW ms2, ms2 = LevelGone(ms, s0, p0)
  PROVE  /\ SameLevels(ms, ms2, s0, p0) /\ p0 \notin DOMAIN ms2[s0]
         /\ DOMAIN ms2[s0] \subseteq DOMAIN ms[s0]
         /\ \A s \in Side : s # s0 => DOMAIN ms2[s] = DOMAIN ms[s]
<1>1. /\ DOMAIN ms2 = Side /\ ms2[s0] = Without(ms[s0], p0)
      /\ \A s \in Side : s # s0 => ms2[s] = ms[s]
  BY DEF Banded, LevelGone
<1>2. /\ DOMAIN ms2[s0] = DOMAIN ms[s0] \ {p0}
      /\ \A p \in DOMAIN ms2[s0] : ms2[s0][p] = ms[s0][p]
  BY <1>1 DEF Without
<1>3. QED
  BY <1>1, <1>2 DEF SameLevels, Banded

LEMMA LevelPutIs ==
  ASSUME NEW ms, Banded(ms), NEW s0 \in Side, NEW p0 \in Px, NEW v,
         NEW ms2, ms2 = LevelPut(ms, s0, p0, v)
  PROVE  /\ SameLevels(ms, ms2, s0, p0) /\ p0 \in DOMAIN ms2[s0] /\ ms2[s0][p0] = v
<1>1. /\ DOMAIN ms2 = Side /\ ms2[s0] = With(ms[s0], p0, v)
      /\ \A s \in Side : s # s0 => ms2[s] = ms[s]
  BY DEF Banded, LevelPut
<1>2. /\ DOMAIN ms2[s0] = DOMAIN ms[s0] \cup {p0} /\ ms2[s0][p0] = v
      /\ \A p \in DOMAIN ms[s0] : p # p0 => ms2[s0][p] = ms[s0][p]
  BY <1>1 DEF With
<1>3. QED
  BY <1>1, <1>2 DEF SameLevels, Banded

(* Nothing is queued elsewhere that was not, nor anything else.            *)
LEMMA SameFifos ==
  ASSUME NEW ms, NEW ms2, NEW s0, NEW p0, SameLevels(ms, ms2, s0, p0)
  PROVE  \A s \in Side, p \in Px : (s # s0 \/ p # p0) => FifoAt(ms2, s, p) = FifoAt(ms, s, p)
BY DEF SameLevels, FifoAt

LEMMA PartsBanded ==
  ASSUME StlParts
  PROVE  Banded(maps) /\ MapsHold(maps, recs) /\ Recorded(recs)
BY DEF StlParts, MapsHold, Banded
-----------------------------------------------------------------------------
LEMMA InitParts == StlInit => StlParts
<1>1. SUFFICES ASSUME StlInit
      PROVE  StlParts
  OBVIOUS
<1>2. /\ \A s \in Side : DOMAIN maps[s] = {}
      /\ DOMAIN maps = Side /\ DOMAIN recs = {}
  BY <1>1 DEF StlInit
<1>3. MapsHold(maps, recs) /\ OnlyTaken
  BY <1>2 DEF MapsHold, Recorded, OnlyTaken
<1>4. Cardinality(DOMAIN recs) = 0
  BY <1>2, FS_EmptySet
<1>5. LiveCount
  BY <1>1, <1>4 DEF StlInit, LiveCount
<1>6. MinPx \in Px /\ kInvalidId = 0
  BY LobAssumption DEF Px, kInvalidId
<1>7. StlRegs
  BY <1>1, <1>6, LobAssumption, StlAssumption DEF StlInit, StlRegs, NoTaker, Side
<1>8. StlControl
  BY <1>1, <1>2, <1>6, ControlIs DEF StlInit, NoTaker
<1>9. QED
  BY <1>3, <1>5, <1>7, <1>8 DEF StlParts

LEMMA LimitParts ==
  ASSUME StlParts, NEW side \in Side, NEW px \in Px, NEW qty \in 1 .. MaxQty,
         StlLimit(side, px, qty)
  PROVE  StlParts'
<1>1. /\ stlPc = "idle" /\ live_ < MaxOrders /\ next_id_ <= Submits
      /\ taker' = [id |-> next_id_, px |-> px, side |-> side]
      /\ next_id_' = next_id_ + 1 /\ live_' = live_ + 1 /\ stlRemaining' = qty
      /\ stlPc' = "match" /\ maps' = maps /\ recs' = recs /\ stlTrade' = stlTrade
  BY Zenon DEF StlLimit
<1>2. StlRegs /\ StlControl /\ OnlyTaken /\ LiveCount /\ MapsHold(maps, recs)
  BY DEF StlParts
<1>3. /\ next_id_ \in StlIds /\ next_id_ # 0 /\ next_id_ + 1 \in 1 .. Submits + 1
      /\ live_ + 1 \in 0 .. MaxOrders /\ qty \in 0 .. MaxQty /\ next_id_ < next_id_ + 1
      /\ next_id_ \in Int
  BY <1>1, <1>2, LobAssumption, StlAssumption DEF StlRegs, StlIds
<1>4. StlRegs'
  BY <1>1, <1>2, <1>3 DEF StlRegs
<1>5. \A i \in DOMAIN recs : i \in Int /\ i < next_id_
  BY <1>2, ControlIs DEF MapsHold, Recorded, StlIds
<1>6. StlControl'
  <2>1. taker'.id = next_id_
    BY <1>1
  <2>2. taker'.id \notin DOMAIN recs /\ \A i \in DOMAIN recs : i < next_id_ + 1
    BY <1>3, <1>5, <2>1
  <2>3. QED
    BY <1>1, <1>3, <2>1, <2>2, NextControlIs DEF kInvalidId
<1>7. OnlyTaken'
  BY <1>1, <1>2 DEF OnlyTaken
<1>8. LiveCount'
  <2>1. live_ = Cardinality(DOMAIN recs)
    <3>1. Cardinality(DOMAIN recs) \in Nat
      BY <1>2, RecsFinite DEF MapsHold
    <3>2. QED
      BY <1>1, <1>2, <3>1 DEF LiveCount
  <2>2. QED
    BY <1>1, <2>1 DEF LiveCount
<1>9. QED
  BY <1>1, <1>2, <1>4, <1>6, <1>7, <1>8 DEF StlParts

LEMMA EnterParts ==
  ASSUME StlParts, StlEnterLevel
  PROVE  StlParts'
<1>1. /\ stlPc = "match" /\ StlCrossing /\ stlPc' = "take"
      /\ maps' = maps /\ recs' = recs /\ next_id_' = next_id_ /\ live_' = live_
      /\ taker' = taker /\ stlRemaining' = stlRemaining /\ stlTrade' = stlTrade
  BY Zenon DEF StlEnterLevel
<1>2. StlRegs /\ StlControl /\ OnlyTaken /\ LiveCount /\ MapsHold(maps, recs)
  BY DEF StlParts
<1>3. StlRegs'
  BY <1>1, <1>2 DEF StlRegs
<1>4. StlControl'
  <2>1. /\ DOMAIN maps[Opposite(taker.side)] # {}
        /\ Accepts(Begin(Opposite(taker.side)))
    BY <1>1, ControlIs
  <2>2. Accepts(Begin(Opposite(taker.side)))'
    BY <1>1, <2>1 DEF Accepts, Begin
  <2>3. QED
    BY <1>1, <1>2, <2>1, <2>2, ControlIs, NextControlIs
<1>5. OnlyTaken'
  BY <1>1, <1>2 DEF OnlyTaken
<1>6. LiveCount'
  BY <1>1, <1>2 DEF LiveCount
<1>7. QED
  BY <1>1, <1>2, <1>3, <1>4, <1>5, <1>6 DEF StlParts
-----------------------------------------------------------------------------
(* What take_front trades.                                                 *)
TreeSide == Opposite(taker.side)
TreePx == Begin(TreeSide)
TreeFifo == maps[TreeSide][TreePx].fifo
TreeMaker == Head(TreeFifo)
TreeTake == IF recs[TreeMaker].qty <= stlRemaining THEN recs[TreeMaker].qty ELSE stlRemaining

LEMMA TreeLevelIs ==
  ASSUME StlParts, stlPc = "take"
  PROVE  /\ TreeSide \in Side /\ TreePx \in DOMAIN maps[TreeSide] /\ TreePx \in Px
         /\ LevelHolds(maps[TreeSide][TreePx], recs, TreeSide, TreePx)
         /\ TreeFifo \in Seq(StlIds)
         /\ Accepts(TreePx)
         /\ \A q \in DOMAIN maps[TreeSide] :
              IF TreeSide = "Buy" THEN q <= TreePx ELSE q >= TreePx
<1>1. /\ TreeSide \in Side /\ DOMAIN maps[TreeSide] \subseteq Px
  BY TakerTyped DEF TreeSide
<1>2. DOMAIN maps[TreeSide] # {} /\ Accepts(TreePx)
  BY ControlIs DEF StlParts, TreeSide, TreePx
<1>3. TreePx = BeginOf(DOMAIN maps[TreeSide], TreeSide)
  BY BeginIsOf DEF TreePx
<1>4. /\ TreePx \in DOMAIN maps[TreeSide]
      /\ \A q \in DOMAIN maps[TreeSide] :
              IF TreeSide = "Buy" THEN q <= TreePx ELSE q >= TreePx
  BY <1>1, <1>2, <1>3, BeginOfIs
<1>5. LevelHolds(maps[TreeSide][TreePx], recs, TreeSide, TreePx)
  BY <1>1, <1>4, PartsBanded DEF MapsHold
<1>6. TreeFifo \in Seq(StlIds)
  BY <1>5 DEF LevelHolds, StlLevel, TreeFifo
<1>7. QED
  BY <1>1, <1>2, <1>4, <1>5, <1>6

TreeQty == (maps[TreeSide][TreePx].qty - TreeTake) % StlQtyMod

LEMMA TakeFrontIs ==
  TakeFront <=>
    /\ stlPc = "take" /\ stlRemaining # 0 /\ TreeFifo # << >>
    /\ stlTrade' = [maker |-> TreeMaker, taker |-> taker.id, px |-> TreePx, qty |-> TreeTake]
    /\ stlRemaining' = stlRemaining - TreeTake
    /\ IF recs[TreeMaker].qty = TreeTake
       THEN /\ maps' = LevelSet(maps, TreeSide, TreePx,
                         [[maps[TreeSide][TreePx] EXCEPT !.qty = (@ - TreeTake) % StlQtyMod]
                            EXCEPT !.fifo = Tail(@)])
            /\ recs' = Without(recs, TreeMaker)
            /\ live_' = live_ - 1
       ELSE /\ maps' = LevelSet(maps, TreeSide, TreePx,
                         [maps[TreeSide][TreePx] EXCEPT !.qty = (@ - TreeTake) % StlQtyMod])
            /\ recs' = FilledRecs(recs, TreeMaker, TreeTake)
            /\ UNCHANGED live_
    /\ UNCHANGED <<next_id_, stlPc, taker>>
BY DEF TakeFront, TreeSide, TreePx, TreeFifo, TreeMaker, TreeTake, LevelSet, FilledRecs

LEMMA LevelExcept ==
  ASSUME NEW f, NEW q, NEW g
  PROVE  [[fifo |-> f, qty |-> q] EXCEPT !.fifo = g] = [fifo |-> g, qty |-> q]
OBVIOUS

LEMMA TakeFrontDoes ==
  ASSUME StlParts, TakeFront
  PROVE  /\ stlPc = "take" /\ stlPc' = "take" /\ taker' = taker /\ next_id_' = next_id_
         /\ TreeFifo # << >> /\ TreeMaker = TreeFifo[1] /\ TreeMaker \in DOMAIN recs
         /\ recs[TreeMaker].qty \in 1 .. MaxQty
         /\ TreeTake \in 1 .. MaxQty /\ stlRemaining \in 1 .. MaxQty
         /\ stlRemaining' = stlRemaining - TreeTake /\ stlRemaining' \in 0 .. MaxQty
         /\ stlTrade' = [maker |-> TreeMaker, taker |-> taker.id, px |-> TreePx,
                         qty |-> TreeTake]
         /\ SameLevels(maps, maps', TreeSide, TreePx)
         /\ \A s \in Side : DOMAIN maps'[s] = DOMAIN maps[s]
         /\ \/ /\ TreeTake = recs[TreeMaker].qty
               /\ maps'[TreeSide][TreePx] = [fifo |-> Drop(TreeFifo, 1), qty |-> TreeQty]
               /\ recs' = Without(recs, TreeMaker) /\ live_' = live_ - 1
            \/ /\ TreeTake < recs[TreeMaker].qty
               /\ maps'[TreeSide][TreePx] = [fifo |-> TreeFifo, qty |-> TreeQty]
               /\ recs' = FilledRecs(recs, TreeMaker, TreeTake) /\ live_' = live_
<1>1. stlPc = "take" /\ stlRemaining # 0 /\ TreeFifo # << >>
  BY TakeFrontIs
<1>2. /\ TreeSide \in Side /\ TreePx \in DOMAIN maps[TreeSide] /\ TreeFifo \in Seq(StlIds)
      /\ LevelHolds(maps[TreeSide][TreePx], recs, TreeSide, TreePx)
  BY <1>1, TreeLevelIs
<1>3. /\ Tail(TreeFifo) = Drop(TreeFifo, 1) /\ 1 \in 1 .. Len(TreeFifo)
      /\ TreeMaker = TreeFifo[1]
  BY <1>1, <1>2, TailIsDrop DEF TreeMaker
<1>4. TreeMaker \in DOMAIN recs /\ maps[TreeSide][TreePx] \in StlLevel
  BY <1>2, <1>3 DEF LevelHolds, TreeFifo
<1>5. recs[TreeMaker].qty \in 1 .. MaxQty /\ stlRemaining \in 1 .. MaxQty
  <2>1. MapsHold(maps, recs) /\ stlRemaining \in 0 .. MaxQty
    BY DEF StlParts, StlRegs
  <2>2. QED
    BY <1>1, <1>4, <2>1, HoldsRecord
<1>6. /\ TreeTake \in 1 .. MaxQty /\ TreeTake <= recs[TreeMaker].qty
      /\ stlRemaining - TreeTake \in 0 .. MaxQty
  <2> DEFINE a == recs[TreeMaker].qty
  <2>1. TreeTake = IF a <= stlRemaining THEN a ELSE stlRemaining
    BY DEF TreeTake
  <2>2. a \in 1 .. MaxQty
    BY <1>5
  <2> HIDE DEF a
  <2>3. TreeTake \in 1 .. MaxQty /\ TreeTake <= a /\ stlRemaining - TreeTake \in 0 .. MaxQty
    BY <1>5, <2>1, <2>2, LobAssumption
  <2>4. QED
    BY <2>3 DEF a
<1>7. Banded(maps)
  BY PartsBanded
<1> DEFINE lv == maps[TreeSide][TreePx]
<1>8. lv = [fifo |-> TreeFifo, qty |-> lv.qty]
  BY <1>4 DEF StlLevel, TreeFifo
<1>9. /\ [lv EXCEPT !.qty = (@ - TreeTake) % StlQtyMod] = [fifo |-> TreeFifo, qty |-> TreeQty]
      /\ [[lv EXCEPT !.qty = (@ - TreeTake) % StlQtyMod] EXCEPT !.fifo = Tail(@)]
           = [fifo |-> Drop(TreeFifo, 1), qty |-> TreeQty]
  <2>1. TreeQty = (lv.qty - TreeTake) % StlQtyMod
    BY DEF TreeQty
  <2> DEFINE m == [fifo |-> TreeFifo, qty |-> TreeQty]
  <2>2. m.fifo = TreeFifo /\ [m EXCEPT !.fifo = Drop(TreeFifo, 1)]
                               = [fifo |-> Drop(TreeFifo, 1), qty |-> TreeQty]
    BY LevelExcept
  <2>4. [m EXCEPT !.fifo = Tail(@)] = [fifo |-> Drop(TreeFifo, 1), qty |-> TreeQty]
    <3>1. [m EXCEPT !.fifo = Tail(@)] = [m EXCEPT !.fifo = Tail(m.fifo)]
      OBVIOUS
    <3>2. Tail(m.fifo) = Drop(TreeFifo, 1)
      BY <1>3, <2>2
    <3>3. QED
      BY <2>2, <3>1, <3>2, Zenon
  <2>5. [lv EXCEPT !.qty = TreeQty] = m
    <3> HIDE DEF lv
    <3>1. QED
      BY <1>8
  <2>3. QED
    BY <2>1, <2>4, <2>5, Zenon
<1>10. CASE recs[TreeMaker].qty = TreeTake
  <2>1. /\ maps' = LevelSet(maps, TreeSide, TreePx, [fifo |-> Drop(TreeFifo, 1), qty |-> TreeQty])
        /\ recs' = Without(recs, TreeMaker) /\ live_' = live_ - 1
    BY <1>9, <1>10, TakeFrontIs, Zenon
  <2>2. /\ SameLevels(maps, maps', TreeSide, TreePx)
        /\ \A s \in Side : DOMAIN maps'[s] = DOMAIN maps[s]
        /\ maps'[TreeSide][TreePx] = [fifo |-> Drop(TreeFifo, 1), qty |-> TreeQty]
    BY <1>2, <1>7, <2>1, LevelSetIs
  <2>3. QED
    BY <1>1, <1>3, <1>4, <1>5, <1>6, <1>10, <2>1, <2>2, TakeFrontIs
<1>11. CASE recs[TreeMaker].qty # TreeTake
  <2>1. /\ maps' = LevelSet(maps, TreeSide, TreePx, [fifo |-> TreeFifo, qty |-> TreeQty])
        /\ recs' = FilledRecs(recs, TreeMaker, TreeTake) /\ live_' = live_
    BY <1>9, <1>11, TakeFrontIs, Zenon
  <2>2. /\ SameLevels(maps, maps', TreeSide, TreePx)
        /\ \A s \in Side : DOMAIN maps'[s] = DOMAIN maps[s]
        /\ maps'[TreeSide][TreePx] = [fifo |-> TreeFifo, qty |-> TreeQty]
    BY <1>2, <1>7, <2>1, LevelSetIs
  <2>3. TreeTake < recs[TreeMaker].qty
    BY <1>5, <1>6, <1>11, LobAssumption
  <2>4. QED
    BY <1>1, <1>3, <1>4, <1>5, <1>6, <2>1, <2>2, <2>3, TakeFrontIs
<1>12. QED
  BY <1>10, <1>11
-----------------------------------------------------------------------------
LEMMA TakeMaps ==
  ASSUME StlParts, TakeFront
  PROVE  MapsHold(maps', recs')
<1>1. /\ stlPc = "take" /\ TreeFifo # << >> /\ TreeMaker = TreeFifo[1]
      /\ TreeTake \in 1 .. MaxQty
      /\ SameLevels(maps, maps', TreeSide, TreePx)
      /\ \A s \in Side : DOMAIN maps'[s] = DOMAIN maps[s]
      /\ \/ /\ TreeTake = recs[TreeMaker].qty
            /\ maps'[TreeSide][TreePx] = [fifo |-> Drop(TreeFifo, 1), qty |-> TreeQty]
            /\ recs' = Without(recs, TreeMaker)
         \/ /\ TreeTake < recs[TreeMaker].qty
            /\ maps'[TreeSide][TreePx] = [fifo |-> TreeFifo, qty |-> TreeQty]
            /\ recs' = FilledRecs(recs, TreeMaker, TreeTake)
  BY TakeFrontDoes
<1>2. /\ TreeSide \in Side /\ TreePx \in DOMAIN maps[TreeSide] /\ TreeFifo \in Seq(StlIds)
      /\ MapsHold(maps, recs) /\ TreePx \in DOMAIN maps'[TreeSide]
  BY <1>1, TreeLevelIs, PartsBanded
<1>3. 1 \in 1 .. Len(TreeFifo)
  BY <1>1, <1>2, TailIsDrop
<1>4. CASE /\ TreeTake = recs[TreeMaker].qty
           /\ maps'[TreeSide][TreePx] = [fifo |-> Drop(TreeFifo, 1), qty |-> TreeQty]
           /\ recs' = Without(recs, TreeMaker)
  <2>1. maps'[TreeSide][TreePx]
          = [fifo |-> Drop(TreeFifo, 1),
             qty |-> (maps[TreeSide][TreePx].qty - recs[TreeMaker].qty) % StlQtyMod]
    BY <1>4 DEF TreeQty
  <2>2. QED
    BY <1>1, <1>2, <1>3, <1>4, <2>1, OrderLeaves DEF TreeFifo
<1>5. CASE /\ TreeTake < recs[TreeMaker].qty
           /\ maps'[TreeSide][TreePx] = [fifo |-> TreeFifo, qty |-> TreeQty]
           /\ recs' = FilledRecs(recs, TreeMaker, TreeTake)
  <2>1. maps'[TreeSide][TreePx] = FilledLevel(maps[TreeSide][TreePx], TreeTake)
    BY <1>5 DEF TreeQty, TreeFifo, FilledLevel
  <2>2. QED
    BY <1>1, <1>2, <1>3, <1>5, <2>1, OrderFilled DEF TreeFifo
<1>6. QED
  BY <1>1, <1>4, <1>5

LEMMA TakeParts ==
  ASSUME StlParts, TakeFront
  PROVE  StlParts'
<1>1. /\ stlPc = "take" /\ stlPc' = "take" /\ taker' = taker /\ next_id_' = next_id_
      /\ TreeMaker \in DOMAIN recs /\ TreeTake \in 1 .. MaxQty
      /\ stlRemaining' \in 0 .. MaxQty
      /\ stlTrade' = [maker |-> TreeMaker, taker |-> taker.id, px |-> TreePx, qty |-> TreeTake]
      /\ \A s \in Side : DOMAIN maps'[s] = DOMAIN maps[s]
      /\ SameLevels(maps, maps', TreeSide, TreePx)
      /\ \/ recs' = Without(recs, TreeMaker) /\ live_' = live_ - 1
         \/ recs' = FilledRecs(recs, TreeMaker, TreeTake) /\ live_' = live_
  BY TakeFrontDoes
<1>2. /\ StlRegs /\ StlControl /\ OnlyTaken /\ LiveCount /\ Recorded(recs)
      /\ TreeSide \in Side /\ TreePx \in Px /\ TreePx \in DOMAIN maps[TreeSide]
      /\ taker.id \in StlIds
  BY <1>1, TreeLevelIs, PartsBanded, TakerTyped DEF StlParts
<1>3. MapsHold(maps', recs')
  BY TakeMaps
<1>4. DOMAIN recs' \subseteq DOMAIN recs
  BY <1>1 DEF Without, FilledRecs
<1>5. LiveCount' /\ live_' \in 0 .. MaxOrders
  <2> DEFINE n == Cardinality(DOMAIN recs)
  <2>1. n \in Nat /\ n - 1 \in Nat /\ live_ = n + 1 /\ live_ \in 0 .. MaxOrders
    BY <1>1, <1>2, RecsFinite DEF LiveCount, StlRegs
  <2>2. CASE recs' = Without(recs, TreeMaker) /\ live_' = live_ - 1
    <3>1. Cardinality(DOMAIN recs') = n - 1
      BY <1>1, <1>2, <2>2, RecsFinite
    <3> HIDE DEF n
    <3>2. live_' = Cardinality(DOMAIN recs') + 1 /\ live_' \in 0 .. MaxOrders
      BY <2>1, <2>2, <3>1, LobAssumption
    <3>3. QED
      BY <1>1, <3>2 DEF LiveCount
  <2>3. CASE recs' = FilledRecs(recs, TreeMaker, TreeTake) /\ live_' = live_
    <3>1. DOMAIN recs' = DOMAIN recs
      BY <2>3 DEF FilledRecs
    <3>2. QED
      BY <1>1, <2>1, <2>3, <3>1 DEF LiveCount
  <2>4. QED
    BY <1>1, <2>2, <2>3
<1>6. StlRegs'
  <2>1. TreeMaker \in StlIds
    BY <1>1, <1>2 DEF Recorded
  <2>2. stlTrade' \in [maker : StlIds, taker : StlIds, px : Px, qty : 1 .. MaxQty]
    BY <1>1, <1>2, <2>1
  <2>3. QED
    BY <1>1, <1>2, <1>5, <2>2 DEF StlRegs
<1>7. Begin(TreeSide)' = Begin(TreeSide)
  <2>1. TreeSide' = TreeSide /\ DOMAIN maps'[TreeSide] = DOMAIN maps[TreeSide]
    BY <1>1, <1>2 DEF TreeSide
  <2>2. \A s : /\ Begin(s)' = BeginOf(DOMAIN maps'[s], s)
              /\ Begin(s) = BeginOf(DOMAIN maps[s], s)
    BY BeginIsOf
  <2>3. PICK t : t = TreeSide
    OBVIOUS
  <2>4. Begin(t)' = Begin(t)
    BY <2>1, <2>2, <2>3
  <2>5. QED
    BY <2>1, <2>3, <2>4
<1>8. StlControl'
  <2>1. DOMAIN maps'[TreeSide] # {} /\ Accepts(Begin(TreeSide))'
    <3>1. Accepts(TreePx)
      BY <1>1, TreeLevelIs
    <3>2. QED
      BY <1>1, <1>2, <1>7, <3>1 DEF Accepts, TreePx
  <2>2. Accepts(Begin(Opposite(taker.side)))'
    BY <1>1, <2>1 DEF TreeSide
  <2>3. QED
    BY <1>1, <1>2, <1>4, <2>1, <2>2, ControlIs, NextControlIs DEF TreeSide
<1>9. OnlyTaken'
  <2>1. ASSUME NEW s \in Side, NEW p \in DOMAIN maps'[s], maps'[s][p].fifo = << >>
        PROVE  s = TreeSide /\ p = TreePx
    <3>1. SUFFICES ASSUME s # TreeSide \/ p # TreePx
          PROVE  FALSE
      OBVIOUS
    <3>2. p \in DOMAIN maps[s] /\ maps'[s][p] = maps[s][p]
      BY <1>1, <1>3, <2>1, <3>1 DEF SameLevels, MapsHold
    <3>3. s = TreeSide /\ p = Begin(s)
      BY <1>2, <2>1, <3>2 DEF OnlyTaken, TreeSide
    <3>4. QED
      BY <3>1, <3>3 DEF TreePx
  <2>2. \A s \in Side : s = TreeSide => Begin(s)' = TreePx
    <3>1. TreeSide' = TreeSide
      BY <1>1 DEF TreeSide
    <3>2. QED
      BY <1>7, <3>1 DEF TreePx
  <2>3. QED
    BY <1>1, <2>1, <2>2 DEF OnlyTaken, TreeSide
<1>10. QED
  BY <1>3, <1>5, <1>6, <1>8, <1>9 DEF StlParts

LEMMA LeaveIs ==
  StlLeaveLevel <=>
    /\ stlPc = "take" /\ (stlRemaining = 0 \/ TreeFifo = << >>)
    /\ maps' = IF TreeFifo = << >> THEN LevelGone(maps, TreeSide, TreePx) ELSE maps
    /\ stlPc' = "match"
    /\ UNCHANGED <<recs, next_id_, live_, taker, stlRemaining, stlTrade>>
BY Zenon DEF StlLeaveLevel, TreeSide, TreePx, TreeFifo, LevelGone

LEMMA LeaveParts ==
  ASSUME StlParts, StlLeaveLevel
  PROVE  StlParts'
<1>1. /\ stlPc = "take" /\ stlPc' = "match"
      /\ maps' = IF TreeFifo = << >> THEN LevelGone(maps, TreeSide, TreePx) ELSE maps
      /\ recs' = recs /\ next_id_' = next_id_ /\ live_' = live_ /\ taker' = taker
      /\ stlRemaining' = stlRemaining /\ stlTrade' = stlTrade
  BY LeaveIs
<1>2. /\ StlRegs /\ StlControl /\ OnlyTaken /\ LiveCount /\ MapsHold(maps, recs)
      /\ Banded(maps) /\ TreeSide \in Side /\ TreePx \in DOMAIN maps[TreeSide]
  BY <1>1, TreeLevelIs, PartsBanded DEF StlParts
<1>3. MapsHold(maps', recs) /\ \A s \in Side : \A p \in DOMAIN maps'[s] : maps'[s][p].fifo # << >>
  <2>1. CASE TreeFifo = << >>
    <3>1. maps' = LevelGone(maps, TreeSide, TreePx)
      BY <1>1, <2>1
    <3>2. SameLevels(maps, maps', TreeSide, TreePx) /\ TreePx \notin DOMAIN maps'[TreeSide]
      BY <1>2, <3>1, LevelGoneIs
    <3>3. MapsHold(maps', recs)
      BY <1>2, <2>1, <3>2, LevelErased DEF TreeFifo
    <3>4. ASSUME NEW s \in Side, NEW p \in DOMAIN maps'[s]
          PROVE  maps'[s][p].fifo # << >>
      <4>1. s # TreeSide \/ p # TreePx
        BY <3>2
      <4>2. p \in DOMAIN maps[s] /\ maps'[s][p] = maps[s][p]
        BY <3>2, <3>3, <4>1 DEF SameLevels, MapsHold
      <4>3. QED
        BY <1>2, <4>1, <4>2 DEF OnlyTaken, TreeSide, TreePx
    <3>5. QED
      BY <3>3, <3>4
  <2>2. CASE TreeFifo # << >>
    <3>1. maps' = maps
      BY <1>1, <2>2
    <3>2. QED
      BY <1>2, <2>2, <3>1 DEF OnlyTaken, TreeFifo, TreeSide, TreePx
  <2>3. QED
    BY <2>1, <2>2
<1>4. StlRegs'
  BY <1>1, <1>2 DEF StlRegs
<1>5. StlControl'
  BY <1>1, <1>2, ControlIs, NextControlIs
<1>6. OnlyTaken'
  BY <1>3 DEF OnlyTaken
<1>7. LiveCount'
  BY <1>1, <1>2 DEF LiveCount
<1>8. QED
  BY <1>1, <1>3, <1>4, <1>5, <1>6, <1>7 DEF StlParts
-----------------------------------------------------------------------------
LEMMA StlRestIs ==
  StlRest <=>
    /\ recs' = With(recs, taker.id,
                    [px |-> taker.px, qty |-> stlRemaining, side |-> taker.side])
    /\ maps' = LevelPut(maps, taker.side, taker.px,
                        JoinedLevel(maps[taker.side], taker.px, taker.id, stlRemaining))
<1> DEFINE lvs == maps[taker.side]
           old == IF taker.px \in DOMAIN lvs THEN lvs[taker.px] ELSE [fifo |-> << >>, qty |-> 0]
           new == [fifo |-> Append(old.fifo, taker.id),
                   qty |-> (old.qty + stlRemaining) % StlQtyMod]
<1>1. /\ old.fifo = IF taker.px \in DOMAIN lvs THEN lvs[taker.px].fifo ELSE << >>
      /\ old.qty = IF taker.px \in DOMAIN lvs THEN lvs[taker.px].qty ELSE 0
  OBVIOUS
<1>2. new = JoinedLevel(lvs, taker.px, taker.id, stlRemaining)
  <2> HIDE DEF old
  <2>1. QED
    BY <1>1, Zenon DEF JoinedLevel
<1>3. StlRest <=>
        /\ recs' = With(recs, taker.id,
                    [px |-> taker.px, qty |-> stlRemaining, side |-> taker.side])
        /\ maps' = [maps EXCEPT ![taker.side] = With(@, taker.px, new)]
  BY Zenon DEF StlRest
<1> HIDE DEF new
<1>4. QED
  BY <1>2, <1>3 DEF LevelPut

(* What is left of the taker joins the queue of its price.                 *)
LEMMA RestDoes ==
  ASSUME StlParts, StlRest, stlPc # "idle", stlRemaining # 0
  PROVE  /\ MapsHold(maps', recs') /\ SameLevels(maps, maps', taker.side, taker.px)
         /\ taker.px \in DOMAIN maps'[taker.side]
         /\ FifoAt(maps', taker.side, taker.px)
              = Append(FifoAt(maps, taker.side, taker.px), taker.id)
         /\ FifoAt(maps, taker.side, taker.px) \in Seq(StlIds)
         /\ taker.id \in StlIds /\ taker.id \notin DOMAIN recs
         /\ taker.side \in Side /\ taker.px \in Px /\ stlRemaining \in 1 .. MaxQty
         /\ recs' = With(recs, taker.id,
                    [px |-> taker.px, qty |-> stlRemaining, side |-> taker.side])
<1>1. /\ taker.side \in Side /\ taker.px \in Px /\ taker.id \in StlIds
      /\ Banded(maps) /\ MapsHold(maps, recs)
  BY TakerTyped, PartsBanded
<1>2. stlRemaining \in 1 .. MaxQty
  <2>1. stlRemaining \in 0 .. MaxQty
    BY DEF StlParts, StlRegs
  <2>2. QED
    BY <2>1
<1>3. taker.id \notin DOMAIN recs
  BY ControlIs DEF StlParts
<1> DEFINE v == JoinedLevel(maps[taker.side], taker.px, taker.id, stlRemaining)
<1>4. /\ recs' = With(recs, taker.id,
                    [px |-> taker.px, qty |-> stlRemaining, side |-> taker.side])
      /\ maps' = LevelPut(maps, taker.side, taker.px, v)
  BY StlRestIs
<1>5. v.fifo = Append(FifoAt(maps, taker.side, taker.px), taker.id)
  BY DEF JoinedLevel, FifoAt
<1>6. /\ SameLevels(maps, maps', taker.side, taker.px)
      /\ taker.px \in DOMAIN maps'[taker.side] /\ maps'[taker.side][taker.px] = v
  <2> HIDE DEF v
  <2>1. QED
    BY <1>1, <1>4, LevelPutIs
<1>7. MapsHold(maps', recs')
  BY <1>1, <1>2, <1>3, <1>4, <1>6, OrderJoins
<1>8. FifoAt(maps', taker.side, taker.px) = v.fifo
  <2> HIDE DEF v
  <2>1. QED
    BY <1>6 DEF FifoAt
<1>9. FifoAt(maps, taker.side, taker.px) \in Seq(StlIds)
  <2>1. CASE taker.px \in DOMAIN maps[taker.side]
    <3>1. LevelHolds(maps[taker.side][taker.px], recs, taker.side, taker.px)
      BY <1>1, <2>1 DEF MapsHold
    <3>2. QED
      BY <2>1, <3>1 DEF LevelHolds, StlLevel, FifoAt
  <2>2. CASE taker.px \notin DOMAIN maps[taker.side]
    BY <2>2 DEF FifoAt
  <2>3. QED
    BY <2>1, <2>2
<1>10. QED
  BY <1>1, <1>2, <1>3, <1>4, <1>5, <1>6, <1>7, <1>8, <1>9

LEMMA EndParts ==
  ASSUME StlParts, StlEndLimit
  PROVE  StlParts'
<1>1. /\ stlPc = "match" /\ stlPc' = "idle" /\ taker' = NoTaker /\ stlRemaining' = 0
      /\ stlTrade' = NoTrade /\ next_id_' = next_id_
      /\ \/ stlRemaining = 0 /\ live_' = live_ - 1 /\ maps' = maps /\ recs' = recs
         \/ stlRemaining # 0 /\ StlRest /\ live_' = live_
  BY DEF StlEndLimit
<1>2. /\ StlRegs /\ StlControl /\ OnlyTaken /\ LiveCount /\ Recorded(recs)
      /\ MapsHold(maps, recs) /\ taker.id \in StlIds /\ taker.id \notin DOMAIN recs
      /\ taker.id < next_id_ /\ \A i \in DOMAIN recs : i < next_id_
  BY <1>1, PartsBanded, TakerTyped, ControlIs DEF StlParts
<1> DEFINE n == Cardinality(DOMAIN recs)
<1>3. n \in Nat /\ live_ = n + 1 /\ live_ \in 0 .. MaxOrders /\ next_id_ \in 1 .. Submits + 1
  BY <1>1, <1>2, RecsFinite DEF LiveCount, StlRegs
<1>4. /\ MapsHold(maps', recs') /\ DOMAIN recs' \subseteq DOMAIN recs \cup {taker.id}
      /\ live_' = Cardinality(DOMAIN recs') /\ live_' \in 0 .. MaxOrders
      /\ \A s \in Side : \A p \in DOMAIN maps'[s] : maps'[s][p].fifo # << >>
  <2>0. \A s \in Side : \A p \in DOMAIN maps[s] : maps[s][p].fifo # << >>
    BY <1>1, <1>2 DEF OnlyTaken
  <2>1. CASE stlRemaining = 0 /\ live_' = live_ - 1 /\ maps' = maps /\ recs' = recs
    <3> HIDE DEF n
    <3>1. live_' = n /\ live_' \in 0 .. MaxOrders
      BY <1>3, <2>1, LobAssumption
    <3>2. QED
      BY <1>2, <2>0, <2>1, <3>1 DEF n
  <2>2. CASE stlRemaining # 0 /\ StlRest /\ live_' = live_
    <3>1. /\ MapsHold(maps', recs') /\ SameLevels(maps, maps', taker.side, taker.px)
          /\ taker.px \in DOMAIN maps'[taker.side]
          /\ FifoAt(maps', taker.side, taker.px)
               = Append(FifoAt(maps, taker.side, taker.px), taker.id)
          /\ FifoAt(maps, taker.side, taker.px) \in Seq(StlIds)
          /\ recs' = With(recs, taker.id,
                    [px |-> taker.px, qty |-> stlRemaining, side |-> taker.side])
      BY <1>1, <2>2, RestDoes
    <3>2. Cardinality(DOMAIN recs') = n + 1
      BY <1>2, <3>1, RecsFinite
    <3>3. DOMAIN recs' = DOMAIN recs \cup {taker.id}
      BY <3>1 DEF With
    <3>4. ASSUME NEW s \in Side, NEW p \in DOMAIN maps'[s]
          PROVE  maps'[s][p].fifo # << >>
      <4>1. CASE s = taker.side /\ p = taker.px
        <5>1. maps'[s][p].fifo = FifoAt(maps', taker.side, taker.px)
          BY <4>1 DEF FifoAt
        <5>2. Append(FifoAt(maps, taker.side, taker.px), taker.id) # << >>
          BY <1>2, <3>1, AppendProperties
        <5>3. QED
          BY <3>1, <5>1, <5>2
      <4>2. CASE s # taker.side \/ p # taker.px
        <5>1. p \in DOMAIN maps[s] /\ maps'[s][p] = maps[s][p]
          BY <3>1, <4>2 DEF SameLevels
        <5>2. QED
          BY <2>0, <5>1
      <4>3. QED
        BY <4>1, <4>2
    <3> HIDE DEF n
    <3>5. live_' = Cardinality(DOMAIN recs') /\ live_' \in 0 .. MaxOrders
      BY <1>3, <2>2, <3>2
    <3>6. QED
      BY <3>1, <3>3, <3>4, <3>5
  <2>3. QED
    BY <1>1, <2>1, <2>2
<1>5. /\ taker'.id = 0 /\ kInvalidId = 0 /\ 0 \notin StlIds
      /\ taker' \in [id : StlIds \cup {kInvalidId}, px : Px, side : Side]
  <2>1. MinPx \in Px
    BY LobAssumption DEF Px
  <2>2. QED
    BY <1>1, <2>1 DEF NoTaker, kInvalidId, Side, StlIds
<1>6. StlRegs'
  <2>1. 0 \in 0 .. MaxQty
    BY LobAssumption
  <2>2. QED
    BY <1>1, <1>3, <1>4, <1>5, <2>1 DEF StlRegs
<1>7. StlControl'
  <2>1. 0 < next_id_ /\ 0 \notin DOMAIN recs'
    BY <1>3, <1>4, <1>5 DEF MapsHold, Recorded
  <2>2. \A i \in DOMAIN recs' : i < next_id_
    BY <1>2, <1>4
  <2>3. QED
    BY <1>1, <1>5, <2>1, <2>2, NextControlIs
<1>8. OnlyTaken'
  BY <1>4 DEF OnlyTaken
<1>9. LiveCount'
  <2>1. Cardinality(DOMAIN recs') \in Nat
    BY <1>4, RecsFinite DEF MapsHold
  <2>2. QED
    BY <1>1, <1>4, <2>1 DEF LiveCount
<1>10. QED
  BY <1>4, <1>6, <1>7, <1>8, <1>9 DEF StlParts
-----------------------------------------------------------------------------
(* The deque is searched for the order, which is there once.               *)
LEMMA EraseFirstIs ==
  ASSUME NEW f \in Seq(StlIds), OneToOne(f), NEW k \in 1 .. Len(f), NEW i, i = f[k]
  PROVE  EraseFirst(f, i) = CutOut(f, k)
<1> DEFINE found == {j \in DOMAIN f : f[j] = i}
           first == CHOOSE j \in found : \A h \in found : j <= h
<1>1. DOMAIN f = 1 .. Len(f) /\ Len(f) \in Nat
  OBVIOUS
<1>2. found = {k}
  BY <1>1 DEF OneToOne
<1>3. EraseFirst(f, i) = IF found = {} THEN f
                         ELSE SubSeq(f, 1, first - 1) \o SubSeq(f, first + 1, Len(f))
  BY Zenon DEF EraseFirst
<1> HIDE DEF found
<1>4. \A h \in found : k <= h
  BY <1>2
<1>5. first \in found
  BY <1>2, <1>4
<1>6. first = k
  BY <1>2, <1>5
<1> HIDE DEF first
<1>7. EraseFirst(f, i) = SubSeq(f, 1, first - 1) \o SubSeq(f, first + 1, Len(f))
  BY <1>2, <1>3
<1>8. QED
  BY <1>6, <1>7 DEF CutOut

LEMMA EraseFromLevelIs ==
  ASSUME NEW lvs, NEW p0 \in DOMAIN lvs, NEW i, NEW t,
         NEW f, f = lvs[p0].fifo, f \in Seq(StlIds), OneToOne(f),
         NEW k \in 1 .. Len(f), i = f[k]
  PROVE  EraseFromLevel(lvs, p0, i, t)
           = IF Drop(f, k) = << >> THEN Without(lvs, p0)
             ELSE With(lvs, p0, [fifo |-> Drop(f, k), qty |-> (lvs[p0].qty - t) % StlQtyMod])
<1> DEFINE g == EraseFirst(f, i)
           m == [fifo |-> g, qty |-> (lvs[p0].qty - t) % StlQtyMod]
           left == IF g = f THEN lvs[p0] ELSE m
<1>1. g = Drop(f, k)
  BY EraseFirstIs, CutIsDrop
<1>2. g # f
  <2>1. Len(Drop(f, k)) = Len(f) - 1 /\ Len(f) \in Nat
    BY AnyDrop, LenProperties
  <2>2. Len(g) # Len(f)
    <3> HIDE DEF g
    <3>1. QED
      BY <1>1, <2>1
  <2>3. QED
    BY <2>2
<1>3. EraseFromLevel(lvs, p0, i, t) = IF g = << >> THEN Without(lvs, p0) ELSE With(lvs, p0, left)
  BY Zenon DEF EraseFromLevel
<1>4. left = m
  BY <1>2, Zenon
<1> HIDE DEF left
<1>5. EraseFromLevel(lvs, p0, i, t) = IF g = << >> THEN Without(lvs, p0) ELSE With(lvs, p0, m)
  BY <1>3, <1>4, Zenon
<1>6. QED
  BY <1>1, <1>5, Zenon

(* A cancelled order leaves its queue.                                     *)
LEMMA CancelDoes ==
  ASSUME StlParts, NEW id, StlCancel(id)
  PROVE  \E k \in 1 .. Len(FifoAt(maps, recs[id].side, recs[id].px)) :
           LET s == recs[id].side
               p == recs[id].px
               f == FifoAt(maps, s, p)
           IN /\ id \in DOMAIN recs /\ s \in Side /\ p \in Px /\ f \in Seq(StlIds) /\ f[k] = id
              /\ OneToOne(f)
              /\ p \in DOMAIN maps[s]
              /\ MapsHold(maps', recs') /\ SameLevels(maps, maps', s, p)
              /\ FifoAt(maps', s, p) = Drop(f, k)
              /\ p \in DOMAIN maps'[s] => maps'[s][p].fifo # << >>
              /\ recs' = Without(recs, id)
<1> DEFINE s == recs[id].side
           p == recs[id].px
           t == recs[id].qty
           f == FifoAt(maps, s, p)
<1>1. /\ id \in DOMAIN recs /\ recs' = Without(recs, id)
      /\ maps' = [maps EXCEPT ![s] = EraseFromLevel(@, p, id, t)]
  BY DEF StlCancel
<1>2. Banded(maps) /\ MapsHold(maps, recs)
  BY PartsBanded
<1>3. s \in Side /\ p \in Px /\ IsQueued(maps, recs[id], id) /\ t \in 1 .. MaxQty
  BY <1>1, <1>2, HoldsRecord
<1>4. PICK k \in 1 .. Len(f) : f[k] = id
  BY <1>3 DEF IsQueued, Within
<1>5. p \in DOMAIN maps[s]
  <2>1. SUFFICES ASSUME p \notin DOMAIN maps[s]
        PROVE  FALSE
    OBVIOUS
  <2>2. f = << >>
    BY <2>1 DEF FifoAt
  <2> HIDE DEF f
  <2>3. QED
    BY <1>4, <2>2
<1>6. /\ LevelHolds(maps[s][p], recs, s, p) /\ f = maps[s][p].fifo
      /\ f \in Seq(StlIds) /\ OneToOne(f)
  <2>1. LevelHolds(maps[s][p], recs, s, p)
    BY <1>2, <1>3, <1>5 DEF MapsHold
  <2>2. f = maps[s][p].fifo
    BY <1>5 DEF FifoAt
  <2>3. QED
    BY <2>1, <2>2 DEF LevelHolds, StlLevel
<1> DEFINE g == Drop(f, k)
           v == [fifo |-> g, qty |-> (maps[s][p].qty - t) % StlQtyMod]
<1>7. EraseFromLevel(maps[s], p, id, t) = IF g = << >> THEN Without(maps[s], p)
                                          ELSE With(maps[s], p, v)
  <2> HIDE DEF f, s, p, t
  <2>1. QED
    BY <1>4, <1>5, <1>6, EraseFromLevelIs
<1> HIDE DEF s, p, t, f, g, v
<1>8. maps' = IF g = << >> THEN LevelGone(maps, s, p) ELSE LevelPut(maps, s, p, v)
  BY <1>1, <1>7 DEF LevelGone, LevelPut
<1>9. /\ SameLevels(maps, maps', s, p) /\ FifoAt(maps', s, p) = g
      /\ \/ g # << >> /\ p \in DOMAIN maps'[s] /\ maps'[s][p] = v
         \/ g = << >> /\ p \notin DOMAIN maps'[s]
  <2>1. CASE g = << >>
    <3>1. maps' = LevelGone(maps, s, p)
      BY <1>8, <2>1
    <3>2. SameLevels(maps, maps', s, p) /\ p \notin DOMAIN maps'[s]
      BY <1>2, <1>3, <1>5, <3>1, LevelGoneIs
    <3>3. QED
      BY <2>1, <3>2 DEF FifoAt
  <2>2. CASE g # << >>
    <3>1. maps' = LevelPut(maps, s, p, v)
      BY <1>8, <2>2
    <3>2. SameLevels(maps, maps', s, p) /\ p \in DOMAIN maps'[s] /\ maps'[s][p] = v
      BY <1>2, <1>3, <3>1, LevelPutIs
    <3>3. v.fifo = g
      BY DEF v
    <3>4. QED
      BY <2>2, <3>2, <3>3 DEF FifoAt
  <2>3. QED
    BY <2>1, <2>2
<1>10. MapsHold(maps', recs')
  <2>1. id = maps[s][p].fifo[k] /\ k \in 1 .. Len(maps[s][p].fifo)
        /\ g = Drop(maps[s][p].fifo, k)
    BY <1>4, <1>6 DEF g
  <2>2. v = [fifo |-> g, qty |-> (maps[s][p].qty - recs[id].qty) % StlQtyMod]
    BY DEF v, t
  <2>3. MapsHold(maps', Without(recs, id))
    BY <1>2, <1>3, <1>5, <1>9, <2>1, <2>2, OrderLeaves
  <2>4. QED
    BY <1>1, <2>3
<1>11. p \in DOMAIN maps'[s] => maps'[s][p].fifo # << >>
  <2>1. v.fifo = g
    BY DEF v
  <2>2. QED
    BY <1>9, <2>1
<1>12. QED
  BY <1>1, <1>3, <1>4, <1>5, <1>6, <1>9, <1>10, <1>11 DEF s, p, f, g

LEMMA CancelParts ==
  ASSUME StlParts, NEW id, StlCancel(id)
  PROVE  StlParts'
<1> DEFINE s == recs[id].side
           p == recs[id].px
<1>1. /\ stlPc = "idle" /\ live_' = live_ - 1 /\ next_id_' = next_id_ /\ stlPc' = stlPc
      /\ taker' = taker /\ stlRemaining' = stlRemaining /\ stlTrade' = stlTrade
  BY DEF StlCancel
<1>2. /\ id \in DOMAIN recs /\ s \in Side /\ p \in Px
      /\ MapsHold(maps', recs') /\ SameLevels(maps, maps', s, p)
      /\ p \in DOMAIN maps'[s] => maps'[s][p].fifo # << >>
      /\ recs' = Without(recs, id)
  BY CancelDoes
<1> HIDE DEF s, p
<1>3. /\ StlRegs /\ StlControl /\ OnlyTaken /\ LiveCount /\ Recorded(recs)
      /\ MapsHold(maps, recs)
  BY PartsBanded DEF StlParts
<1>4. LiveCount' /\ live_' \in 0 .. MaxOrders
  <2> DEFINE n == Cardinality(DOMAIN recs)
  <2>1. n \in Nat /\ n - 1 \in Nat /\ live_ = n /\ live_ \in 0 .. MaxOrders
    BY <1>1, <1>2, <1>3, RecsFinite DEF LiveCount, StlRegs
  <2>2. Cardinality(DOMAIN recs') = n - 1
    BY <1>2, <1>3, RecsFinite
  <2> HIDE DEF n
  <2>3. live_' = Cardinality(DOMAIN recs') + 0 /\ live_' \in 0 .. MaxOrders
    BY <1>1, <2>1, <2>2, LobAssumption
  <2>4. QED
    BY <1>1, <2>3 DEF LiveCount
<1>5. StlRegs'
  BY <1>1, <1>3, <1>4 DEF StlRegs
<1>6. StlControl'
  <2>1. DOMAIN recs' \subseteq DOMAIN recs
    BY <1>2 DEF Without
  <2>2. QED
    BY <1>1, <1>3, <2>1, ControlIs, NextControlIs
<1>7. OnlyTaken'
  <2>1. ASSUME NEW r \in Side, NEW q \in DOMAIN maps'[r]
        PROVE  maps'[r][q].fifo # << >>
    <3>1. CASE r = s /\ q = p
      BY <1>2, <3>1
    <3>2. CASE r # s \/ q # p
      <4>1. q \in DOMAIN maps[r] /\ maps'[r][q] = maps[r][q]
        BY <1>2, <3>2 DEF SameLevels
      <4>2. QED
        BY <1>1, <1>3, <4>1 DEF OnlyTaken
    <3>3. QED
      BY <3>1, <3>2
  <2>2. QED
    BY <2>1 DEF OnlyTaken
<1>8. QED
  BY <1>2, <1>4, <1>5, <1>6, <1>7 DEF StlParts

LEMMA StlKeeps == StlParts /\ [StlNext]_stlVars => StlParts'
<1>1. SUFFICES ASSUME StlParts, [StlNext]_stlVars
      PROVE  StlParts'
  OBVIOUS
<1>2. CASE UNCHANGED stlVars
  <2>1. /\ maps' = maps /\ recs' = recs /\ next_id_' = next_id_ /\ live_' = live_
        /\ stlPc' = stlPc /\ taker' = taker /\ stlRemaining' = stlRemaining
        /\ stlTrade' = stlTrade
    BY <1>2 DEF stlVars
  <2>2. QED
    BY <1>1, <2>1 DEF StlParts, StlRegs, StlControl, OnlyTaken, LiveCount, Begin
<1>3. ASSUME NEW side \in Side, NEW px \in Px, NEW qty \in 1 .. MaxQty,
             StlLimit(side, px, qty)
      PROVE  StlParts'
  BY <1>1, <1>3, LimitParts
<1>4. ASSUME StlEnterLevel
      PROVE  StlParts'
  BY <1>1, <1>4, EnterParts
<1>5. ASSUME TakeFront
      PROVE  StlParts'
  BY <1>1, <1>5, TakeParts
<1>6. ASSUME StlLeaveLevel
      PROVE  StlParts'
  BY <1>1, <1>6, LeaveParts
<1>7. ASSUME StlEndLimit
      PROVE  StlParts'
  BY <1>1, <1>7, EndParts
<1>8. ASSUME NEW id \in StlIds, StlCancel(id)
      PROVE  StlParts'
  BY <1>1, <1>8, CancelParts
<1>9. QED
  BY <1>1, <1>2, <1>3, <1>4, <1>5, <1>6, <1>7, <1>8 DEF StlNext

(* The inductive invariant of StlBook.                                     *)
THEOREM StlInvariant == StlSpec => []StlInv
<1>1. StlInit => StlInv
  BY InitParts, StlInvIs
<1>2. StlInv /\ [StlNext]_stlVars => StlInv'
  BY StlKeeps, StlInvIs, NextStlInvIs
<1>3. QED
  BY <1>1, <1>2, PTL DEF StlSpec

(* The type invariant of StlBook.                                          *)
THEOREM StlTypes == StlSpec => []StlTypeOK
<1>1. StlInv => StlTypeOK
  BY DEF StlInv
<1>2. QED
  BY <1>1, StlInvariant, PTL

(* The three copies of an order agree: ...                                 *)
THEOREM StlCopiesAgree == StlSpec => []CopiesAgree
<1>1. StlInv => CopiesAgree
  BY DEF StlInv
<1>2. QED
  BY <1>1, StlInvariant, PTL
-----------------------------------------------------------------------------
(* A queue of the maps.                                                    *)
LEMMA FifoFacts ==
  ASSUME NEW ms, NEW rc, MapsHold(ms, rc), NEW s \in Side, NEW p \in Px
  PROVE  LET f == FifoAt(ms, s, p)
         IN /\ f \in Seq(StlIds) /\ OneToOne(f)
            /\ \A k \in 1 .. Len(f) : /\ f[k] \in DOMAIN rc
                                      /\ rc[f[k]].px = p /\ rc[f[k]].side = s
            /\ p \notin DOMAIN ms[s] => f = << >>
<1> DEFINE f == FifoAt(ms, s, p)
<1>1. CASE p \in DOMAIN ms[s]
  <2>1. LevelHolds(ms[s][p], rc, s, p) /\ f = ms[s][p].fifo
    BY <1>1 DEF MapsHold, FifoAt
  <2>2. QED
    BY <1>1, <2>1 DEF LevelHolds, StlLevel
<1>2. CASE p \notin DOMAIN ms[s]
  <2>1. f = << >>
    BY <1>2 DEF FifoAt
  <2> HIDE DEF f
  <2>2. f \in Seq(StlIds) /\ Len(f) = 0
    BY <2>1
  <2>3. OneToOne(f) /\ \A k \in 1 .. Len(f) : FALSE
    BY <2>2 DEF OneToOne
  <2>4. QED
    BY <2>1, <2>2, <2>3 DEF f
<1>3. QED
  BY <1>1, <1>2

(* The orders that rest at a price, as PriceTimeBook has them.             *)
OrdersAt(ms, rc, s, p) == Resting(FifoAt(ms, s, p), rc)

LEMMA StlOrdersAre ==
  /\ StlOrders = [s \in Side |-> [p \in Px |-> OrdersAt(maps, recs, s, p)]]
  /\ StlOrders' = [s \in Side |-> [p \in Px |-> OrdersAt(maps', recs', s, p)]]
<1>1. /\ StlQueues = [s \in Side |-> [p \in Px |-> FifoAt(maps, s, p)]]
      /\ StlQueues' = [s \in Side |-> [p \in Px |-> FifoAt(maps', s, p)]]
  BY Zenon DEF StlQueues, FifoAt
<1>2. /\ StlOrders = [s \in Side |-> [p \in Px |-> Resting(StlQueues[s][p], recs)]]
      /\ StlOrders' = [s \in Side |-> [p \in Px |-> Resting(StlQueues'[s][p], recs')]]
  BY Zenon DEF StlOrders
<1>3. \A s \in Side, p \in Px : /\ StlQueues[s][p] = FifoAt(maps, s, p)
                                /\ StlQueues'[s][p] = FifoAt(maps', s, p)
  BY <1>1
<1>4. QED
  BY <1>2, <1>3 DEF OrdersAt

(* The orders of one queue, and how many there are.                        *)
LEMMA OrdersAtIs ==
  ASSUME NEW ms, NEW rc, MapsHold(ms, rc), NEW s \in Side, NEW p \in Px
  PROVE  LET f == FifoAt(ms, s, p)
             R == OrdersAt(ms, rc, s, p)
         IN /\ R = Resting(f, Held(rc)) /\ Len(R) = Len(f) /\ DOMAIN R = 1 .. Len(f)
            /\ Len(f) \in Nat /\ R \in Seq(EntryOf(StlIds))
            /\ R = << >> <=> f = << >>
            /\ \A k \in 1 .. Len(f) : R[k] = [id |-> f[k], qty |-> rc[f[k]].qty]
<1> DEFINE f == FifoAt(ms, s, p)
<1>1. f \in Seq(StlIds) /\ \A k \in 1 .. Len(f) : f[k] \in DOMAIN rc
  BY FifoFacts
<1>2. Recorded(rc) /\ Counted(Held(rc), StlIds)
  BY HeldCounted DEF MapsHold
<1> HIDE DEF f
<1>3. Resting(f, rc) = Resting(f, Held(rc))
  BY <1>1, <1>2, HeldLists
<1>4. /\ Len(Resting(f, Held(rc))) = Len(f) /\ DOMAIN Resting(f, Held(rc)) = 1 .. Len(f)
      /\ Resting(f, Held(rc)) = << >> <=> f = << >>
      /\ Resting(f, Held(rc)) \in Seq(EntryOf(StlIds))
      /\ \A k \in 1 .. Len(f) : Resting(f, Held(rc))[k] = [id |-> f[k], qty |-> Held(rc)[f[k]].qty]
  BY <1>1, <1>2, AnyResting
<1>5. \A k \in 1 .. Len(f) : Held(rc)[f[k]].qty = rc[f[k]].qty
  BY <1>1, <1>2, HeldQty
<1>6. Len(f) \in Nat
  BY <1>1, LenProperties
<1>7. QED
  BY <1>3, <1>4, <1>5, <1>6 DEF OrdersAt, f

(* The records of the orders elsewhere have the quantities they had.       *)
RecsElsewhere(rc, rc2, s0, p0) ==
  \A i \in DOMAIN rc : (rc[i].side # s0 \/ rc[i].px # p0) => rc2[i].qty = rc[i].qty

LEMMA TreeOrdersChange ==
  ASSUME MapsHold(maps, recs), NEW s0 \in Side, NEW p0 \in Px,
         SameLevels(maps, maps', s0, p0), RecsElsewhere(recs, recs', s0, p0)
  PROVE  /\ StlOrders' = [StlOrders EXCEPT ![s0][p0] = OrdersAt(maps', recs', s0, p0)]
         /\ StlOrders[s0][p0] = OrdersAt(maps, recs, s0, p0)
<1>1. ASSUME NEW s \in Side, NEW p \in Px, s # s0 \/ p # p0
      PROVE  OrdersAt(maps', recs', s, p) = OrdersAt(maps, recs, s, p)
  <2> DEFINE f == FifoAt(maps, s, p)
  <2>1. FifoAt(maps', s, p) = f
    BY <1>1, SameFifos
  <2>2. f \in Seq(StlIds) /\ \A k \in 1 .. Len(f) : /\ f[k] \in DOMAIN recs
                                /\ recs[f[k]].px = p /\ recs[f[k]].side = s
    BY FifoFacts
  <2> HIDE DEF f
  <2>3. \A k \in 1 .. Len(f) : recs'[f[k]].qty = recs[f[k]].qty
    BY <1>1, <2>2 DEF RecsElsewhere
  <2>4. Resting(f, recs') = Resting(f, recs)
    BY <2>2, <2>3, AnyRestingSame
  <2>5. QED
    BY <2>1, <2>4 DEF OrdersAt, f
<1> DEFINE new == [s \in Side |-> [p \in Px |-> OrdersAt(maps', recs', s, p)]]
           old == [s \in Side |-> [p \in Px |-> OrdersAt(maps, recs, s, p)]]
           r == OrdersAt(maps', recs', s0, p0)
<1>2. /\ StlOrders = old /\ StlOrders' = new
      /\ DOMAIN new = Side /\ DOMAIN old = Side
      /\ \A s \in Side : DOMAIN new[s] = Px /\ DOMAIN old[s] = Px
      /\ old[s0][p0] = OrdersAt(maps, recs, s0, p0)
  BY StlOrdersAre
<1>3. /\ new = [s \in Side |-> new[s]] /\ \A s \in Side : new[s] = [p \in Px |-> new[s][p]]
      /\ old = [s \in Side |-> old[s]] /\ \A s \in Side : old[s] = [p \in Px |-> old[s][p]]
  OBVIOUS
<1>4. /\ new[s0][p0] = r
      /\ \A s \in Side, p \in Px : s # s0 \/ p # p0 => new[s][p] = old[s][p]
  BY <1>1
<1> HIDE DEF new, old, r
<1>5. new[s0] = [old[s0] EXCEPT ![p0] = r]
  BY <1>2, <1>3, <1>4
<1>6. \A s \in Side : s # s0 => new[s] = old[s]
  BY <1>2, <1>3, <1>4
<1>7. new = [old EXCEPT ![s0] = [old[s0] EXCEPT ![p0] = r]]
  BY <1>2, <1>3, <1>5, <1>6
<1>8. QED
  BY <1>2, <1>7 DEF r

(* The same level, or none: the same orders.                               *)
LEMMA TreeOrdersKept ==
  ASSUME MapsHold(maps, recs), recs' = recs,
         \A s \in Side, p \in Px : FifoAt(maps', s, p) = FifoAt(maps, s, p)
  PROVE  StlOrders' = StlOrders
BY StlOrdersAre DEF OrdersAt

LEMMA StlRulesCount == \A S : StlRules!Cardinality(S) = Cardinality(S)
BY DEF StlRules!Cardinality, Cardinality

LEMMA StlTakingIs ==
  /\ StlTaking = IF stlPc = "idle" THEN << >>
                 ELSE << [id |-> taker.id, side |-> taker.side, px |-> taker.px,
                          qty |-> stlRemaining] >>
  /\ StlTaking' = IF stlPc' = "idle" THEN << >>
                  ELSE << [id |-> taker'.id, side |-> taker'.side, px |-> taker'.px,
                           qty |-> stlRemaining'] >>
BY Zenon DEF StlTaking

(* The ids that PriceTimeBook has are those of the records.                *)
LEMMA LiveIdsAre ==
  ASSUME StlParts, stlPc = "idle"
  PROVE  StlRules!LiveIds \subseteq DOMAIN recs
<1>1. SUFFICES ASSUME NEW x \in StlRules!LiveIds
      PROVE  x \in DOMAIN recs
  OBVIOUS
<1>2. {StlTaking[i].id : i \in DOMAIN StlTaking} = {}
  BY StlTakingIs
<1>3. PICK s \in Side, p \in Px :
        x \in {StlOrders[s][p][i].id : i \in DOMAIN StlOrders[s][p]}
  <2>1. StlRules!Side = Side /\ StlRules!Px = Px
    BY DEF StlRules!Side, StlRules!Px, Side, Px
  <2>2. x \in UNION {{StlOrders[s][p][i].id : i \in DOMAIN StlOrders[s][p]} :
                     s \in StlRules!Side, p \in StlRules!Px}
    BY <1>2 DEF StlRules!LiveIds
  <2>3. \E s \in StlRules!Side, p \in StlRules!Px :
          x \in {StlOrders[s][p][i].id : i \in DOMAIN StlOrders[s][p]}
    <3> DEFINE q == {{StlOrders[s][p][i].id : i \in DOMAIN StlOrders[s][p]} :
                       s \in StlRules!Side, p \in StlRules!Px}
    <3>1. PICK y \in q : x \in y
      BY <2>2
    <3>2. QED
      BY <3>1
  <2>4. QED
    BY <2>1, <2>3, Zenon
<1> DEFINE f == FifoAt(maps, s, p)
           R == OrdersAt(maps, recs, s, p)
<1>4. StlOrders[s][p] = R
  BY StlOrdersAre
<1>5. /\ DOMAIN R = 1 .. Len(f) /\ \A k \in 1 .. Len(f) : f[k] \in DOMAIN recs
      /\ \A k \in 1 .. Len(f) : R[k] = [id |-> f[k], qty |-> recs[f[k]].qty]
  BY PartsBanded, FifoFacts, OrdersAtIs
<1>6. PICK i \in DOMAIN R : x = R[i].id
  BY <1>3, <1>4
<1> HIDE DEF f, R
<1>7. QED
  BY <1>5, <1>6

(* limit submits an order that gets an id nobody has.                      *)
LEMMA StlLimitSubmits ==
  ASSUME StlParts, NEW side \in Side, NEW px \in Px, NEW qty \in 1 .. MaxQty,
         StlLimit(side, px, qty)
  PROVE  StlRules!Submit(next_id_, side, px, qty) /\ next_id_ \in StlIds
<1>1. /\ stlPc = "idle" /\ live_ < MaxOrders /\ next_id_ <= Submits
      /\ taker' = [id |-> next_id_, px |-> px, side |-> side]
      /\ stlRemaining' = qty
      /\ stlPc' = "match" /\ maps' = maps /\ recs' = recs /\ stlTrade' = stlTrade
  BY Zenon DEF StlLimit
<1>2. StlRegs /\ LiveCount /\ MapsHold(maps, recs) /\ Recorded(recs)
  BY PartsBanded DEF StlParts
<1>3. next_id_ \in StlIds /\ next_id_ \notin DOMAIN recs
  <2>1. next_id_ \in StlIds
    BY <1>1, <1>2, StlAssumption DEF StlRegs, StlIds
  <2>2. \A i \in DOMAIN recs : i \in StlIds /\ i < next_id_
    BY <1>2, ControlIs DEF StlParts, Recorded
  <2>3. QED
    BY <2>1, <2>2 DEF StlIds
<1>4. StlRules!LiveIds \subseteq DOMAIN recs
  BY <1>1, LiveIdsAre
<1>5. StlRules!Cardinality(StlRules!LiveIds) < MaxOrders
  <2>1. IsFiniteSet(DOMAIN recs) /\ Cardinality(DOMAIN recs) \in Nat
    BY <1>2, RecsFinite
  <2>2. IsFiniteSet(StlRules!LiveIds) /\ Cardinality(StlRules!LiveIds) <= Cardinality(DOMAIN recs)
    BY <1>4, <2>1, FS_Subset
  <2>3. Cardinality(StlRules!LiveIds) \in Nat
    BY <2>2, FS_CardinalityType
  <2>4. Cardinality(DOMAIN recs) < MaxOrders
    BY <1>1, <1>2, <2>1 DEF LiveCount
  <2>5. QED
    BY <2>1, <2>2, <2>3, <2>4, StlRulesCount, LobAssumption
<1>6. StlOrders' = StlOrders
  BY <1>1, StlOrdersAre
<1>7. /\ StlTaking = << >>
      /\ StlTaking' = << [id |-> next_id_, side |-> side, px |-> px, qty |-> qty] >>
  BY <1>1, StlTakingIs
<1>8. QED
  BY <1>1, <1>3, <1>4, <1>5, <1>6, <1>7 DEF StlRules!Submit

(* Entering and leaving a level changes nothing of this.                   *)
LEMMA StlMatchStutters ==
  ASSUME StlParts, StlEnterLevel \/ StlLeaveLevel
  PROVE  UNCHANGED StlRules!vars
<1>1. /\ recs' = recs /\ taker' = taker /\ stlRemaining' = stlRemaining
      /\ stlTrade' = stlTrade /\ stlPc # "idle" /\ stlPc' # "idle"
  BY DEF StlEnterLevel, StlLeaveLevel
<1>2. StlTaking' = StlTaking
  BY <1>1, StlTakingIs
<1>3. \A s \in Side, p \in Px : FifoAt(maps', s, p) = FifoAt(maps, s, p)
  <2>1. CASE maps' = maps
    BY <2>1
  <2>2. CASE maps' # maps
    <3>1. /\ stlPc = "take" /\ TreeFifo = << >>
          /\ maps' = LevelGone(maps, TreeSide, TreePx)
      BY <2>2, LeaveIs DEF StlEnterLevel
    <3>2. Banded(maps) /\ TreeSide \in Side /\ TreePx \in DOMAIN maps[TreeSide]
      BY <3>1, PartsBanded, TreeLevelIs
    <3>3. SameLevels(maps, maps', TreeSide, TreePx) /\ TreePx \notin DOMAIN maps'[TreeSide]
      BY <3>1, <3>2, LevelGoneIs
    <3>4. /\ FifoAt(maps', TreeSide, TreePx) = << >>
          /\ FifoAt(maps, TreeSide, TreePx) = << >>
      BY <3>1, <3>2, <3>3 DEF FifoAt, TreeFifo
    <3>5. QED
      BY <3>3, <3>4, SameFifos
  <2>3. QED
    BY <2>1, <2>2
<1>4. StlOrders' = StlOrders
  BY <1>1, <1>3, PartsBanded, TreeOrdersKept
<1>5. QED
  BY <1>1, <1>2, <1>4 DEF StlRules!vars
-----------------------------------------------------------------------------
(* What take_front takes, PriceTimeBook takes from the head of that queue. *)
LEMMA TakenOrders ==
  ASSUME StlParts, TakeFront
  PROVE  /\ OrdersAt(maps', recs', TreeSide, TreePx)
              = StlRules!Without(OrdersAt(maps, recs, TreeSide, TreePx), TreeTake)
         /\ OrdersAt(maps, recs, TreeSide, TreePx) # << >>
         /\ Head(OrdersAt(maps, recs, TreeSide, TreePx))
              = [id |-> TreeMaker, qty |-> recs[TreeMaker].qty]
         /\ RecsElsewhere(recs, recs', TreeSide, TreePx)
<1> DEFINE f == FifoAt(maps, TreeSide, TreePx)
           R == OrdersAt(maps, recs, TreeSide, TreePx)
<1>1. /\ stlPc = "take" /\ TreeFifo # << >> /\ TreeMaker = TreeFifo[1]
      /\ TreeMaker \in DOMAIN recs
      /\ TreeTake \in 1 .. MaxQty /\ recs[TreeMaker].qty \in 1 .. MaxQty
      /\ SameLevels(maps, maps', TreeSide, TreePx)
      /\ \A s \in Side : DOMAIN maps'[s] = DOMAIN maps[s]
      /\ \/ /\ TreeTake = recs[TreeMaker].qty
            /\ maps'[TreeSide][TreePx] = [fifo |-> Drop(TreeFifo, 1), qty |-> TreeQty]
            /\ recs' = Without(recs, TreeMaker)
         \/ /\ TreeTake < recs[TreeMaker].qty
            /\ maps'[TreeSide][TreePx] = [fifo |-> TreeFifo, qty |-> TreeQty]
            /\ recs' = FilledRecs(recs, TreeMaker, TreeTake)
  BY TakeFrontDoes
<1>2. /\ TreeSide \in Side /\ TreePx \in DOMAIN maps[TreeSide] /\ TreePx \in Px
      /\ TreePx \in DOMAIN maps'[TreeSide]
  BY <1>1, TreeLevelIs
<1>3. MapsHold(maps, recs) /\ MapsHold(maps', recs')
  BY PartsBanded, TakeMaps
<1>4. f = TreeFifo
  BY <1>2 DEF FifoAt, TreeFifo
<1>5. /\ f \in Seq(StlIds) /\ OneToOne(f)
      /\ \A k \in 1 .. Len(f) : /\ f[k] \in DOMAIN recs /\ recs[f[k]].px = TreePx
                                /\ recs[f[k]].side = TreeSide
  BY <1>2, <1>3, FifoFacts
<1>6. /\ R = Resting(f, Held(recs)) /\ Len(R) = Len(f) /\ Len(f) \in Nat
      /\ R = << >> <=> f = << >>
      /\ \A k \in 1 .. Len(f) : R[k] = [id |-> f[k], qty |-> recs[f[k]].qty]
      /\ R \in Seq(EntryOf(StlIds))
  BY <1>2, <1>3, OrdersAtIs
<1>7. OrdersAt(maps', recs', TreeSide, TreePx)
        = Resting(FifoAt(maps', TreeSide, TreePx), Held(recs'))
  BY <1>2, <1>3, OrdersAtIs
<1>8. /\ Counted(Held(recs), StlIds) /\ Counted(Held(recs'), StlIds)
      /\ Recorded(recs) /\ Recorded(recs')
  BY <1>3, HeldCounted DEF MapsHold
<1> HIDE DEF f, R
<1>9. 1 \in 1 .. Len(f) /\ f # << >> /\ TreeMaker = f[1]
  BY <1>1, <1>4, <1>5, TailIsDrop
<1>10. R # << >> /\ Head(R) = [id |-> TreeMaker, qty |-> recs[TreeMaker].qty]
  <2>1. R # << >> /\ R[1] = [id |-> TreeMaker, qty |-> recs[TreeMaker].qty]
    BY <1>6, <1>9
  <2>2. Head(R) = R[1]
    BY <1>6, <2>1
  <2>3. QED
    BY <2>1, <2>2
<1>11. recs[TreeMaker].side = TreeSide /\ recs[TreeMaker].px = TreePx
  BY <1>5, <1>9
<1>12. CASE /\ TreeTake = recs[TreeMaker].qty
            /\ maps'[TreeSide][TreePx] = [fifo |-> Drop(TreeFifo, 1), qty |-> TreeQty]
            /\ recs' = Without(recs, TreeMaker)
  <2>1. FifoAt(maps', TreeSide, TreePx) = Drop(f, 1)
    BY <1>2, <1>4, <1>12 DEF FifoAt
  <2>2. \A i \in DOMAIN recs : i # TreeMaker => i \in DOMAIN recs' /\ recs'[i] = recs[i]
    BY <1>12 DEF Without
  <2>3. SameBut(f, Held(recs), Held(recs'), 1)
    <3>1. SUFFICES ASSUME NEW j \in 1 .. Len(f), j # 1
          PROVE  Held(recs')[f[j]].qty = Held(recs)[f[j]].qty
      BY DEF SameBut
    <3>2. f[j] \in DOMAIN recs /\ f[j] # TreeMaker
      BY <1>5, <1>9, <3>1 DEF OneToOne
    <3>3. f[j] \in DOMAIN recs' /\ recs'[f[j]] = recs[f[j]]
      BY <2>2, <3>2
    <3>4. QED
      BY <1>8, <3>2, <3>3, HeldQty
  <2>4. Resting(Drop(f, 1), Held(recs')) = Tail(Resting(f, Held(recs)))
    BY <1>5, <1>8, <1>9, <2>3, AnyRestingTail
  <2>5. OrdersAt(maps', recs', TreeSide, TreePx) = Tail(R)
    BY <1>6, <1>7, <2>1, <2>4
  <2>6. Head(R).qty = TreeTake
    BY <1>10, <1>12
  <2>7. OrdersAt(maps', recs', TreeSide, TreePx) = StlRules!Without(R, TreeTake)
    BY <2>5, <2>6 DEF StlRules!Without
  <2>8. RecsElsewhere(recs, recs', TreeSide, TreePx)
    BY <1>11, <2>2 DEF RecsElsewhere
  <2>9. QED
    BY <1>10, <2>7, <2>8 DEF R
<1>13. CASE /\ TreeTake < recs[TreeMaker].qty
            /\ maps'[TreeSide][TreePx] = [fifo |-> TreeFifo, qty |-> TreeQty]
            /\ recs' = FilledRecs(recs, TreeMaker, TreeTake)
  <2>1. FifoAt(maps', TreeSide, TreePx) = f
    BY <1>2, <1>4, <1>13 DEF FifoAt
  <2>2. /\ \A i \in DOMAIN recs : i # TreeMaker => i \in DOMAIN recs' /\ recs'[i] = recs[i]
        /\ TreeMaker \in DOMAIN recs'
        /\ recs'[TreeMaker].qty = recs[TreeMaker].qty - TreeTake
    <3>1. recs[TreeMaker] \in Rec
      BY <1>1, <1>8 DEF Recorded
    <3>2. QED
      BY <1>1, <1>13, <3>1 DEF FilledRecs, Rec
  <2>3. \A j \in 1 .. Len(f) : j # 1 => Held(recs')[f[j]].qty = Held(recs)[f[j]].qty
    <3>1. SUFFICES ASSUME NEW j \in 1 .. Len(f), j # 1
          PROVE  Held(recs')[f[j]].qty = Held(recs)[f[j]].qty
      OBVIOUS
    <3>2. f[j] \in DOMAIN recs /\ f[j] # TreeMaker
      BY <1>5, <1>9, <3>1 DEF OneToOne
    <3>3. f[j] \in DOMAIN recs' /\ recs'[f[j]] = recs[f[j]]
      BY <2>2, <3>2
    <3>4. QED
      BY <1>8, <3>2, <3>3, HeldQty
  <2>4. Held(recs')[f[1]].qty = Held(recs)[f[1]].qty - TreeTake
    BY <1>1, <1>8, <1>9, <2>2, HeldQty
  <2>5. Resting(f, Held(recs')) = [Resting(f, Held(recs)) EXCEPT ![1].qty = @ - TreeTake]
    BY <1>5, <1>8, <1>9, <2>3, <2>4, AnyRestingReduced
  <2>6. OrdersAt(maps', recs', TreeSide, TreePx) = [R EXCEPT ![1].qty = @ - TreeTake]
    BY <1>6, <1>7, <2>1, <2>5
  <2>7. Head(R).qty # TreeTake
    BY <1>1, <1>10, <1>13, LobAssumption
  <2>8. OrdersAt(maps', recs', TreeSide, TreePx) = StlRules!Without(R, TreeTake)
    BY <2>6, <2>7 DEF StlRules!Without
  <2>9. RecsElsewhere(recs, recs', TreeSide, TreePx)
    BY <1>11, <2>2 DEF RecsElsewhere
  <2>10. QED
    BY <1>10, <2>8, <2>9 DEF R
<1>14. QED
  BY <1>1, <1>12, <1>13

LEMMA TreeBest ==
  ASSUME StlParts, stlPc = "take", TreeFifo # << >>
  PROVE  /\ StlRules!Best(TreeSide, TreePx)
         /\ StlRules!Crosses(taker.side, taker.px, TreePx)
<1>1. /\ TreeSide \in Side /\ TreePx \in DOMAIN maps[TreeSide] /\ TreePx \in Px
      /\ Accepts(TreePx)
      /\ \A q \in DOMAIN maps[TreeSide] :
           IF TreeSide = "Buy" THEN q <= TreePx ELSE q >= TreePx
  BY TreeLevelIs
<1>2. ASSUME NEW p \in Px
      PROVE  /\ StlOrders[TreeSide][p] = << >> <=> FifoAt(maps, TreeSide, p) = << >>
             /\ p \notin DOMAIN maps[TreeSide] => FifoAt(maps, TreeSide, p) = << >>
  <2>1. StlOrders[TreeSide][p] = OrdersAt(maps, recs, TreeSide, p)
    BY <1>1, StlOrdersAre
  <2>2. QED
    BY <1>1, <2>1, PartsBanded, OrdersAtIs DEF FifoAt
<1>3. StlRules!Occupied(TreeSide) = {p \in Px : StlOrders[TreeSide][p] # << >>}
  BY DEF StlRules!Occupied, StlRules!Px, Px
<1>4. StlRules!Occupied(TreeSide) \subseteq DOMAIN maps[TreeSide]
  BY <1>2, <1>3
<1>5. TreePx \in StlRules!Occupied(TreeSide)
  <2>1. FifoAt(maps, TreeSide, TreePx) # << >>
    BY <1>1 DEF FifoAt, TreeFifo
  <2>2. QED
    BY <1>1, <1>2, <1>3, <2>1
<1>6. QED
  BY <1>1, <1>4, <1>5 DEF StlRules!Best, StlRules!Crosses, Accepts

(* A step of the loop fills the oldest order at the best price.            *)
LEMMA StlTakeFills ==
  ASSUME StlParts, TakeFront
  PROVE  StlRules!Fill(TreePx) /\ TreePx \in Px
<1>1. /\ stlPc = "take" /\ stlPc' = "take" /\ taker' = taker /\ TreeFifo # << >>
      /\ stlRemaining \in 1 .. MaxQty /\ stlRemaining' = stlRemaining - TreeTake
      /\ stlTrade' = [maker |-> TreeMaker, taker |-> taker.id, px |-> TreePx,
                      qty |-> TreeTake]
      /\ SameLevels(maps, maps', TreeSide, TreePx)
  BY TakeFrontDoes
<1>2. TreeSide \in Side /\ TreePx \in Px
  BY <1>1, TreeLevelIs
<1> DEFINE R == OrdersAt(maps, recs, TreeSide, TreePx)
           t == [id |-> taker.id, side |-> taker.side, px |-> taker.px,
                 qty |-> stlRemaining]
<1>3. /\ OrdersAt(maps', recs', TreeSide, TreePx) = StlRules!Without(R, TreeTake)
      /\ R # << >> /\ Head(R) = [id |-> TreeMaker, qty |-> recs[TreeMaker].qty]
      /\ RecsElsewhere(recs, recs', TreeSide, TreePx)
  BY TakenOrders
<1>4. /\ StlOrders' = [StlOrders EXCEPT
                         ![TreeSide][TreePx] = OrdersAt(maps', recs', TreeSide, TreePx)]
      /\ StlOrders[TreeSide][TreePx] = R
  BY <1>1, <1>2, <1>3, PartsBanded, TreeOrdersChange
<1>5. StlTaking = << t >> /\ StlTaking' = [StlTaking EXCEPT ![1].qty = @ - TreeTake]
  <2>1. StlTaking = << t >>
    BY <1>1, StlTakingIs
  <2>2. StlTaking' = << [t EXCEPT !.qty = @ - TreeTake] >>
    BY <1>1, StlTakingIs
  <2>3. QED
    BY <2>1, <2>2
<1>6. /\ StlTaking # << >> /\ StlTaking[1] = t /\ t.id = taker.id /\ t.qty = stlRemaining
      /\ t.side = taker.side /\ t.px = taker.px
  BY <1>5
<1>7. stlRemaining > 0 /\ TreeSide = StlRules!Opposite(t.side)
  BY <1>1, <1>6 DEF StlRules!Opposite, TreeSide, Opposite
<1>8. StlRules!Best(TreeSide, TreePx) /\ StlRules!Crosses(t.side, t.px, TreePx)
  BY <1>1, <1>6, TreeBest
<1> HIDE DEF R, t
<1>9. /\ Head(StlOrders[TreeSide][TreePx]).id = TreeMaker
      /\ Head(StlOrders[TreeSide][TreePx]).qty = recs[TreeMaker].qty
  BY <1>3, <1>4
<1>10. TreeTake = IF Head(StlOrders[TreeSide][TreePx]).qty <= t.qty
                  THEN Head(StlOrders[TreeSide][TreePx]).qty ELSE t.qty
  BY <1>6, <1>9 DEF TreeTake
<1>11. stlTrade' = [maker |-> Head(StlOrders[TreeSide][TreePx]).id,
                    taker |-> t.id, px |-> TreePx, qty |-> TreeTake]
  BY <1>1, <1>6, <1>9
<1>12. StlOrders' = [StlOrders EXCEPT ![TreeSide][TreePx] = StlRules!Without(@, TreeTake)]
  BY <1>3, <1>4
<1>13. StlRules!Fill(TreePx)
  BY <1>5, <1>6, <1>7, <1>8, <1>10, <1>11, <1>12 DEF StlRules!Fill
<1>14. QED
  BY <1>2, <1>13

(* What is left of the taker rests, or nothing is.                         *)
LEMMA TreeUncrossed ==
  ASSUME StlParts, stlPc # "idle", stlRemaining # 0, ~ StlCrossing
  PROVE  \A p \in StlRules!Occupied(Opposite(taker.side)) :
           ~ StlRules!Crosses(taker.side, taker.px, p)
<1> DEFINE o == Opposite(taker.side)
           b == Begin(o)
<1>1. o \in Side /\ DOMAIN maps[o] \subseteq Px /\ taker.px \in Px /\ taker.side \in Side
  BY TakerTyped
<1>2. ASSUME NEW p \in StlRules!Occupied(o)
      PROVE  p \in DOMAIN maps[o]
  <2>1. p \in Px /\ StlOrders[o][p] # << >>
    BY <1>2 DEF StlRules!Occupied, StlRules!Px, Px
  <2>2. StlOrders[o][p] = OrdersAt(maps, recs, o, p)
    BY <1>1, <2>1, StlOrdersAre
  <2>3. FifoAt(maps, o, p) # << >>
    BY <1>1, <2>1, <2>2, PartsBanded, OrdersAtIs
  <2>4. QED
    BY <2>3 DEF FifoAt
<1>3. SUFFICES ASSUME NEW p \in StlRules!Occupied(o), StlRules!Crosses(taker.side, taker.px, p)
      PROVE  FALSE
  OBVIOUS
<1>4. p \in DOMAIN maps[o] /\ p \in Px
  BY <1>1, <1>2
<1>5. b = BeginOf(DOMAIN maps[o], o)
  BY BeginIsOf
<1>6. b \in DOMAIN maps[o] /\ IF o = "Buy" THEN p <= b ELSE p >= b
  BY <1>1, <1>4, <1>5, BeginOfIs
<1>7. ~ Accepts(b)
  BY <1>4, ControlIs
<1>8. /\ b \in Nat /\ p \in Nat /\ taker.px \in Nat
      /\ taker.side = "Buy" <=> o # "Buy"
  BY <1>1, <1>4, <1>6, LobAssumption DEF Px, Opposite, Side
<1> HIDE DEF o, b
<1>9. IF taker.side = "Buy" THEN p <= taker.px ELSE p >= taker.px
  BY <1>3 DEF StlRules!Crosses
<1>10. QED
  BY <1>6, <1>7, <1>8, <1>9 DEF Accepts

LEMMA StlEndFinishes ==
  ASSUME StlParts, StlEndLimit
  PROVE  StlRules!Finish
<1>1. /\ stlPc = "match" /\ ~ StlCrossing /\ stlPc' = "idle" /\ stlTrade' = NoTrade
      /\ \/ stlRemaining = 0 /\ maps' = maps /\ recs' = recs
         \/ stlRemaining # 0 /\ StlRest
  BY DEF StlEndLimit
<1> DEFINE t == [id |-> taker.id, side |-> taker.side, px |-> taker.px,
                 qty |-> stlRemaining]
<1>2. StlTaking = << t >> /\ StlTaking' = << >>
  BY <1>1, StlTakingIs
<1>3. /\ StlTaking # << >> /\ StlTaking[1] = t /\ t.id = taker.id /\ t.qty = stlRemaining
      /\ t.side = taker.side /\ t.px = taker.px
  BY <1>2
<1>4. stlTrade' = StlRules!NoTrade
  BY <1>1 DEF NoTrade, StlRules!NoTrade
<1> HIDE DEF t
<1>5. CASE stlRemaining = 0
  <2>1. StlOrders' = StlOrders
    BY <1>1, <1>5, StlOrdersAre
  <2>2. QED
    BY <1>2, <1>3, <1>4, <1>5, <2>1 DEF StlRules!Finish
<1>6. CASE stlRemaining # 0
  <2> DEFINE s == taker.side
             p == taker.px
             f == FifoAt(maps, s, p)
  <2>1. /\ MapsHold(maps', recs') /\ SameLevels(maps, maps', s, p)
        /\ FifoAt(maps', s, p) = Append(f, taker.id)
        /\ taker.id \in StlIds /\ taker.id \notin DOMAIN recs
        /\ s \in Side /\ p \in Px /\ stlRemaining \in 1 .. MaxQty
        /\ recs' = With(recs, taker.id, [px |-> p, qty |-> stlRemaining, side |-> s])
    BY <1>1, <1>6, RestDoes
  <2>2. MapsHold(maps, recs) /\ Recorded(recs) /\ Recorded(recs')
    BY <2>1, PartsBanded DEF MapsHold
  <2>3. /\ \A i \in DOMAIN recs : i \in DOMAIN recs' /\ recs'[i] = recs[i]
        /\ taker.id \in DOMAIN recs' /\ recs'[taker.id].qty = stlRemaining
    BY <2>1 DEF With
  <2>4. /\ f \in Seq(StlIds) /\ \A k \in 1 .. Len(f) : f[k] \in DOMAIN recs
    BY <2>1, <2>2, FifoFacts
  <2> HIDE DEF s, p
  <2>5. /\ OrdersAt(maps, recs, s, p) = Resting(f, Held(recs))
        /\ OrdersAt(maps', recs', s, p) = Resting(FifoAt(maps', s, p), Held(recs'))
    <3>1. s \in Side /\ p \in Px /\ MapsHold(maps', recs') /\ MapsHold(maps, recs)
      BY <2>1, <2>2
    <3>2. QED
      BY <3>1, OrdersAtIs
  <2> HIDE DEF f
  <2>6. Counted(Held(recs), StlIds) /\ Counted(Held(recs'), StlIds)
    BY <2>2, HeldCounted
  <2>7. \A k \in 1 .. Len(f) : Held(recs')[f[k]].qty = Held(recs)[f[k]].qty
    <3>1. TAKE k \in 1 .. Len(f)
    <3>2. f[k] \in DOMAIN recs' /\ f[k] \in DOMAIN recs /\ recs'[f[k]] = recs[f[k]]
      BY <2>3, <2>4
    <3>3. QED
      BY <2>2, <3>2, HeldQty
  <2>8. Resting(Append(f, taker.id), Held(recs'))
          = Append(Resting(f, Held(recs)), [id |-> taker.id, qty |-> Held(recs')[taker.id].qty])
    <3> DEFINE os == Held(recs)
               os2 == Held(recs')
               i == taker.id
    <3>1. /\ f \in Seq(StlIds) /\ i \in StlIds /\ Counted(os, StlIds) /\ Counted(os2, StlIds)
          /\ \A k \in 1 .. Len(f) : os2[f[k]].qty = os[f[k]].qty
      BY <2>1, <2>4, <2>6, <2>7
    <3> HIDE DEF os, os2, i
    <3>2. Resting(Append(f, i), os2) = Append(Resting(f, os), [id |-> i, qty |-> os2[i].qty])
      BY <3>1, AnyRestingAppend
    <3>3. QED
      BY <3>2 DEF os, os2, i
  <2>9. Held(recs')[taker.id].qty = stlRemaining
    BY <2>2, <2>3, HeldQty
  <2>10. OrdersAt(maps', recs', s, p)
           = Append(OrdersAt(maps, recs, s, p), [id |-> t.id, qty |-> t.qty])
    BY <1>3, <2>1, <2>5, <2>8, <2>9
  <2>11. RecsElsewhere(recs, recs', s, p)
    BY <2>3 DEF RecsElsewhere
  <2>12. /\ StlOrders' = [StlOrders EXCEPT ![s][p] = OrdersAt(maps', recs', s, p)]
         /\ StlOrders[s][p] = OrdersAt(maps, recs, s, p)
    BY <2>1, <2>2, <2>11, TreeOrdersChange
  <2>13. StlOrders' = [StlOrders EXCEPT
                         ![t.side][t.px] = Append(@, [id |-> t.id, qty |-> t.qty])]
    BY <1>3, <2>10, <2>12 DEF s, p
  <2>14. \A q \in StlRules!Occupied(StlRules!Opposite(t.side)) :
           ~ StlRules!Crosses(t.side, t.px, q)
    <3>1. StlRules!Opposite(t.side) = Opposite(taker.side)
      BY <1>3 DEF StlRules!Opposite, Opposite
    <3>2. QED
      BY <1>1, <1>3, <1>6, <3>1, TreeUncrossed
  <2>15. QED
    BY <1>2, <1>3, <1>4, <1>6, <2>13, <2>14 DEF StlRules!Finish
<1>7. QED
  BY <1>5, <1>6

(* cancel takes one order out of its queue.                                *)
LEMMA StlCancelPlace ==
  ASSUME StlParts, NEW id, StlCancel(id)
  PROVE  \E s \in Side, p \in Px : \E k \in 1 .. Len(StlOrders[s][p]) :
           /\ StlOrders[s][p][k].id = id
           /\ k \in DOMAIN StlOrders[s][p]
           /\ StlRules!Cancel(s, p, k)
<1> DEFINE s == recs[id].side
           p == recs[id].px
           f == FifoAt(maps, s, p)
           R == OrdersAt(maps, recs, s, p)
<1>1. stlPc = "idle" /\ stlPc' = stlPc /\ stlTrade' = stlTrade
  BY DEF StlCancel
<1>2. PICK k \in 1 .. Len(f) :
        /\ id \in DOMAIN recs /\ s \in Side /\ p \in Px /\ f \in Seq(StlIds) /\ f[k] = id
        /\ OneToOne(f)
        /\ MapsHold(maps', recs') /\ SameLevels(maps, maps', s, p)
        /\ FifoAt(maps', s, p) = Drop(f, k)
        /\ recs' = Without(recs, id)
  BY CancelDoes, Zenon
<1>3. MapsHold(maps, recs) /\ Recorded(recs) /\ Recorded(recs')
  BY <1>2, PartsBanded DEF MapsHold
<1>4. \A i \in DOMAIN recs : i # id => i \in DOMAIN recs' /\ recs'[i] = recs[i]
  BY <1>2 DEF Without
<1>5. \A j \in 1 .. Len(f) : f[j] \in DOMAIN recs
  BY <1>2, <1>3, FifoFacts
<1>6. /\ R = Resting(f, Held(recs)) /\ DOMAIN R = 1 .. Len(f) /\ Len(R) = Len(f)
      /\ \A j \in 1 .. Len(f) : R[j] = [id |-> f[j], qty |-> recs[f[j]].qty]
      /\ OrdersAt(maps', recs', s, p) = Resting(FifoAt(maps', s, p), Held(recs'))
  BY <1>2, <1>3, OrdersAtIs
<1>7. RecsElsewhere(recs, recs', s, p)
  BY <1>4 DEF RecsElsewhere
<1> HIDE DEF s, p, f, R
<1>8. Counted(Held(recs), StlIds) /\ Counted(Held(recs'), StlIds)
  BY <1>3, HeldCounted
<1>9. SameBut(f, Held(recs), Held(recs'), k)
  <2>1. SUFFICES ASSUME NEW j \in 1 .. Len(f), j # k
        PROVE  Held(recs')[f[j]].qty = Held(recs)[f[j]].qty
    BY DEF SameBut
  <2>2. f[j] \in DOMAIN recs /\ f[j] # id
    BY <1>2, <1>5, <2>1 DEF OneToOne
  <2>3. f[j] \in DOMAIN recs' /\ recs'[f[j]] = recs[f[j]]
    BY <1>4, <2>2
  <2>4. QED
    BY <1>3, <2>2, <2>3, HeldQty
<1>10. Resting(Drop(f, k), Held(recs')) = CutOut(Resting(f, Held(recs)), k)
  BY <1>2, <1>8, <1>9, AnyRestingDrop
<1>11. OrdersAt(maps', recs', s, p) = CutOut(R, k)
  BY <1>2, <1>6, <1>10
<1>12. /\ StlOrders' = [StlOrders EXCEPT ![s][p] = OrdersAt(maps', recs', s, p)]
       /\ StlOrders[s][p] = R
  BY <1>2, <1>3, <1>7, TreeOrdersChange DEF R
<1>13. StlOrders' = [StlOrders EXCEPT
                       ![s][p] = SubSeq(@, 1, k - 1) \o SubSeq(@, k + 1, Len(@))]
  BY <1>11, <1>12 DEF CutOut
<1>14. StlTaking = << >> /\ StlTaking' = << >>
  BY <1>1, StlTakingIs
<1>15. k \in DOMAIN StlOrders[s][p]
  BY <1>2, <1>6, <1>12
<1>16. StlRules!Cancel(s, p, k)
  BY <1>1, <1>13, <1>14, <1>15 DEF StlRules!Cancel
<1>17. k \in 1 .. Len(StlOrders[s][p]) /\ StlOrders[s][p][k].id = id
  BY <1>2, <1>6, <1>12
<1>18. QED
  BY <1>2, <1>15, <1>16, <1>17

LEMMA StlCancelCancels ==
  ASSUME StlParts, NEW id, StlCancel(id)
  PROVE  \E side \in StlRules!Side, px \in StlRules!Px :
           \E i \in DOMAIN StlOrders[side][px] : StlRules!Cancel(side, px, i)
<1>1. PICK s \in Side, p \in Px :
        \E k \in DOMAIN StlOrders[s][p] : StlRules!Cancel(s, p, k)
  BY StlCancelPlace
<1>2. s \in StlRules!Side /\ p \in StlRules!Px
  BY DEF StlRules!Side, StlRules!Px, Side, Px
<1>3. QED
  BY <1>1, <1>2

(* A new book is an empty one.                                             *)
LEMMA StlInitRules ==
  ASSUME StlInit
  PROVE  StlRules!Init
<1>1. stlPc = "idle" /\ stlTrade = NoTrade /\ \A s \in Side : DOMAIN maps[s] = {}
  BY DEF StlInit
<1>2. ASSUME NEW s \in Side, NEW p \in Px
      PROVE  OrdersAt(maps, recs, s, p) = << >>
  <2>1. StlParts
    BY InitParts
  <2>2. FifoAt(maps, s, p) = << >>
    BY <1>1 DEF FifoAt
  <2>3. QED
    BY <2>1, <2>2, PartsBanded, OrdersAtIs
<1>3. StlOrders = [s \in Side |-> [p \in Px |-> << >>]]
  BY <1>2, StlOrdersAre
<1>4. StlTaking = << >>
  BY <1>1, StlTakingIs
<1>5. QED
  BY <1>1, <1>3, <1>4
  DEF StlRules!Init, StlRules!Side, StlRules!Px, StlRules!NoTrade, Side, Px, NoTrade

(* Every step of the tree book is a step that the matching rules allow, or *)
(* leaves what they speak of unchanged.                                    *)
LEMMA StlStepsFollowRules ==
  ASSUME StlParts, [StlNext]_stlVars
  PROVE  [StlRules!Next]_(StlRules!vars)
<1>1. ASSUME NEW side \in Side, NEW px \in Px, NEW qty \in 1 .. MaxQty,
             StlLimit(side, px, qty)
      PROVE  StlRules!Next
  <2>1. StlRules!Submit(next_id_, side, px, qty) /\ next_id_ \in StlIds
    BY <1>1, StlLimitSubmits
  <2>2. side \in StlRules!Side /\ px \in StlRules!Px
    BY DEF StlRules!Side, StlRules!Px, Side, Px
  <2>3. QED
    BY <2>1, <2>2 DEF StlRules!Next
<1>2. CASE StlEnterLevel \/ StlLeaveLevel
  BY <1>2, StlMatchStutters
<1>3. CASE TakeFront
  <2>1. StlRules!Fill(TreePx) /\ TreePx \in StlRules!Px
    BY <1>3, StlTakeFills DEF StlRules!Px, Px
  <2>2. QED
    BY <2>1 DEF StlRules!Next
<1>4. CASE StlEndLimit
  BY <1>4, StlEndFinishes DEF StlRules!Next
<1>5. ASSUME NEW id \in StlIds, StlCancel(id)
      PROVE  StlRules!Next
  BY <1>5, StlCancelCancels DEF StlRules!Next
<1>6. CASE UNCHANGED stlVars
  <2>1. StlOrders' = StlOrders /\ StlTaking' = StlTaking /\ stlTrade' = stlTrade
    BY <1>6, StlOrdersAre, StlTakingIs DEF stlVars
  <2>2. QED
    BY <2>1 DEF StlRules!vars
<1>7. QED
  BY <1>1, <1>2, <1>3, <1>4, <1>5, <1>6 DEF StlNext

(* The tree book trades by price-time priority, with counters of any       *)
(* width: unlike the ladder it asks a level for its orders.                *)
THEOREM StlPriceTimePriority == StlSpec => StlImplementsRules
<1>1. StlSpec => []StlParts
  <2>1. StlInv => StlParts
    BY StlInvIs
  <2>2. QED
    BY <2>1, StlInvariant, PTL
<1>2. StlInit => StlRules!Init
  BY StlInitRules
<1>3. StlParts /\ [StlNext]_stlVars => [StlRules!Next]_(StlRules!vars)
  BY StlStepsFollowRules
<1>4. QED
  BY <1>1, <1>2, <1>3, PTL DEF StlSpec, StlImplementsRules, StlRules!Spec
-----------------------------------------------------------------------------
(* The books against each other.  A book as PriceTimeBook has it, with ids *)
(* of I: queues q, and what is left of the taker, rem.                     *)
QueuesOf(I) == [Side -> [Px -> Seq(EntryOf(I))]]
BookOf(I) == [q : QueuesOf(I), rem : 0 .. MaxQty]

(* A taker of this side and limit trades next at price p: ...              *)
BestIn(q, s, p) ==
  p \in Px /\ q[s][p] # << >> /\ \A r \in Px : q[s][r] # << >> => NoBetter(s, r, p)

Meets(side, px, a, p) ==
  a.rem # 0 /\ BestIn(a.q, Opposite(side), p) /\ NoBetter(side, p, px)

Done(side, px, a) == \A p \in Px : ~ Meets(side, px, a, p)

(* ... what it takes, and the book that this leaves.                       *)
Smaller(f, t) == IF Head(f).qty = t THEN Tail(f) ELSE [f EXCEPT ![1].qty = @ - t]

TakeFrom(f, rem) == IF Head(f).qty <= rem THEN Head(f).qty ELSE rem

WithQueue(q, s, p, f) == [q EXCEPT ![s][p] = f]

Traded(side, a, p) ==
  LET s == Opposite(side)
      t == TakeFrom(a.q[s][p], a.rem)
  IN [q |-> WithQueue(a.q, s, p, Smaller(a.q[s][p], t)), rem |-> a.rem - t]

Ticket(side, a, p) == [px |-> p, qty |-> TakeFrom(a.q[Opposite(side)][p], a.rem)]

Trades(side, px, a, b, x) ==
  \E p \in Px : Meets(side, px, a, p) /\ b = Traded(side, a, p) /\ x = Ticket(side, a, p)

(* Two queues, two books with the same quantities in the same places.      *)
Twin(f, g) == Len(f) = Len(g) /\ \A k \in 1 .. Len(f) : f[k].qty = g[k].qty
Alike(q, t) == \A s \in Side, p \in Px : Twin(q[s][p], t[s][p])

(* The ids of orders in the same place.                                    *)
Couple(f, g, k) == <<f[k].id, g[k].id>>
Named(q, t) ==
  {z \in Ids \X StlIds :
     \E s \in Side, p \in Px : \E k \in 1 .. Len(q[s][p]) : z = Couple(q[s][p], t[s][p], k)}

LEMMA SmallerIs ==
  ASSUME NEW I, NEW f \in Seq(EntryOf(I)), f # << >>, NEW t \in 1 .. f[1].qty
  PROVE  /\ Smaller(f, t) \in Seq(EntryOf(I))
         /\ Len(f) \in Nat /\ 1 \in 1 .. Len(f) /\ Head(f) = f[1]
         /\ f[1].qty = t => /\ Len(Smaller(f, t)) = Len(f) - 1
                            /\ \A k \in 1 .. Len(f) - 1 : Smaller(f, t)[k] = f[k + 1]
         /\ f[1].qty # t => /\ Len(Smaller(f, t)) = Len(f)
                            /\ Smaller(f, t)[1] = [id |-> f[1].id, qty |-> f[1].qty - t]
                            /\ \A k \in 2 .. Len(f) : Smaller(f, t)[k] = f[k]
<1>1. Len(f) \in Nat /\ Len(f) # 0 /\ \A k \in 1 .. Len(f) : f[k] \in EntryOf(I)
  BY EmptySeq, LenProperties, ElementOfSeq
<1>2. Head(f) = f[1] /\ 1 \in 1 .. Len(f) /\ f[1] \in EntryOf(I)
  BY <1>1
<1>3. CASE f[1].qty = t
  <2>1. Smaller(f, t) = Tail(f)
    BY <1>2, <1>3 DEF Smaller
  <2>2. Tail(f) \in Seq(EntryOf(I)) /\ Len(Tail(f)) = Len(f) - 1
        /\ \A k \in 1 .. Len(f) - 1 : Tail(f)[k] = f[k + 1]
    BY <1>1
  <2>3. QED
    BY <1>1, <1>2, <1>3, <2>1, <2>2
<1>4. CASE f[1].qty # t
  <2> DEFINE e == [id |-> f[1].id, qty |-> f[1].qty - t]
             g == Smaller(f, t)
  <2>1. g = [f EXCEPT ![1].qty = @ - t]
    BY <1>2, <1>4 DEF Smaller
  <2>2. [f[1] EXCEPT !.qty = @ - t] = e /\ e \in EntryOf(I)
    <3>1. f[1] = [id |-> f[1].id, qty |-> f[1].qty] /\ f[1].id \in I /\ f[1].qty \in 0 .. MaxQty
      BY <1>2 DEF EntryOf
    <3>2. f[1].qty - t \in 0 .. MaxQty
      BY <3>1, LobAssumption
    <3>3. QED
      BY <3>1, <3>2 DEF EntryOf
  <2>3. g = [f EXCEPT ![1] = e]
    BY <2>1, <2>2
  <2> HIDE DEF g, e
  <2>4. f \in [1 .. Len(f) -> EntryOf(I)]
    BY <1>1
  <2>5. g \in [1 .. Len(f) -> EntryOf(I)] /\ g[1] = e /\ \A k \in 2 .. Len(f) : g[k] = f[k]
    BY <1>1, <1>2, <2>2, <2>3, <2>4
  <2>6. g \in Seq(EntryOf(I)) /\ Len(g) = Len(f)
    BY <1>1, <2>5
  <2>7. QED
    BY <1>1, <1>2, <1>4, <2>5, <2>6 DEF g, e
<1>5. QED
  BY <1>3, <1>4

(* Orders of f2 and g2 in the same place were so in f and g.               *)
Inherits(f, g, f2, g2) ==
  \A k \in 1 .. Len(f2) : \E j \in 1 .. Len(f) : Couple(f2, g2, k) = Couple(f, g, j)

LEMMA TwinSmaller ==
  ASSUME NEW I, NEW J, NEW f \in Seq(EntryOf(I)), NEW g \in Seq(EntryOf(J)), Twin(f, g),
         f # << >>, NEW t \in 1 .. f[1].qty
  PROVE  /\ g # << >> /\ t \in 1 .. g[1].qty
         /\ Twin(Smaller(f, t), Smaller(g, t))
         /\ Inherits(f, g, Smaller(f, t), Smaller(g, t))
<1>1. Len(f) \in Nat /\ Len(f) # 0 /\ 1 \in 1 .. Len(f) /\ Len(g) = Len(f)
      /\ \A k \in 1 .. Len(f) : f[k].qty = g[k].qty
  BY EmptySeq, LenProperties DEF Twin
<1>2. g # << >> /\ t \in 1 .. g[1].qty
  BY <1>1, EmptySeq
<1> DEFINE f2 == Smaller(f, t)
           g2 == Smaller(g, t)
<1>3. /\ f[1].qty = t => /\ Len(f2) = Len(f) - 1 /\ \A k \in 1 .. Len(f) - 1 : f2[k] = f[k + 1]
      /\ f[1].qty # t => /\ Len(f2) = Len(f)
                         /\ f2[1] = [id |-> f[1].id, qty |-> f[1].qty - t]
                         /\ \A k \in 2 .. Len(f) : f2[k] = f[k]
  BY SmallerIs
<1>4. /\ g[1].qty = t => /\ Len(g2) = Len(g) - 1 /\ \A k \in 1 .. Len(g) - 1 : g2[k] = g[k + 1]
      /\ g[1].qty # t => /\ Len(g2) = Len(g)
                         /\ g2[1] = [id |-> g[1].id, qty |-> g[1].qty - t]
                         /\ \A k \in 2 .. Len(g) : g2[k] = g[k]
  BY <1>2, SmallerIs
<1> HIDE DEF f2, g2
<1>5. CASE f[1].qty = t
  <2>1. /\ Len(f2) = Len(f) - 1 /\ Len(g2) = Len(f) - 1
        /\ \A k \in 1 .. Len(f) - 1 : f2[k] = f[k + 1] /\ g2[k] = g[k + 1]
    BY <1>1, <1>3, <1>4, <1>5
  <2>2. ASSUME NEW k \in 1 .. Len(f2)
        PROVE  k + 1 \in 1 .. Len(f) /\ f2[k].qty = g2[k].qty
               /\ Couple(f2, g2, k) = Couple(f, g, k + 1)
    BY <1>1, <2>1 DEF Couple
  <2>3. QED
    BY <1>2, <2>1, <2>2 DEF Twin, Inherits, f2, g2
<1>6. CASE f[1].qty # t
  <2>1. /\ Len(f2) = Len(f) /\ Len(g2) = Len(f)
        /\ f2[1].id = f[1].id /\ f2[1].qty = f[1].qty - t
        /\ g2[1].id = g[1].id /\ g2[1].qty = g[1].qty - t
        /\ \A k \in 2 .. Len(f) : f2[k] = f[k] /\ g2[k] = g[k]
    BY <1>1, <1>3, <1>4, <1>6
  <2>2. ASSUME NEW k \in 1 .. Len(f)
        PROVE  f2[k].qty = g2[k].qty /\ Couple(f2, g2, k) = Couple(f, g, k)
    <3>1. CASE k = 1
      BY <1>1, <2>1, <3>1 DEF Couple
    <3>2. CASE k # 1
      <4>1. k \in 2 .. Len(f)
        BY <3>2
      <4>2. QED
        BY <1>1, <2>1, <4>1 DEF Couple
    <3>3. QED
      BY <3>1, <3>2
  <2>3. QED
    BY <1>2, <2>1, <2>2 DEF Twin, Inherits, f2, g2
<1>7. QED
  BY <1>5, <1>6

LEMMA TwinAppend ==
  ASSUME NEW I, NEW J, NEW f \in Seq(EntryOf(I)), NEW g \in Seq(EntryOf(J)), Twin(f, g),
         NEW x \in I, NEW y \in J, NEW t \in 0 .. MaxQty
  PROVE  LET f2 == Append(f, [id |-> x, qty |-> t])
             g2 == Append(g, [id |-> y, qty |-> t])
         IN /\ f2 \in Seq(EntryOf(I)) /\ g2 \in Seq(EntryOf(J))
            /\ Twin(f2, g2)
            /\ \A k \in 1 .. Len(f2) : \/ Couple(f2, g2, k) = <<x, y>>
                                       \/ \E j \in 1 .. Len(f) : Couple(f2, g2, k) = Couple(f, g, j)
<1> DEFINE d == [id |-> x, qty |-> t]
           e == [id |-> y, qty |-> t]
           f2 == Append(f, d)
           g2 == Append(g, e)
<1>1. Len(f) \in Nat /\ Len(g) = Len(f) /\ \A k \in 1 .. Len(f) : f[k].qty = g[k].qty
  BY LenProperties DEF Twin
<1>2. d \in EntryOf(I) /\ e \in EntryOf(J) /\ d.id = x /\ e.id = y /\ d.qty = e.qty
  BY DEF EntryOf
<1> HIDE DEF d, e
<1>3. /\ f2 \in Seq(EntryOf(I)) /\ Len(f2) = Len(f) + 1 /\ f2[Len(f) + 1] = d
      /\ \A k \in 1 .. Len(f) : f2[k] = f[k]
  BY <1>2, AppendProperties
<1>4. /\ g2 \in Seq(EntryOf(J)) /\ Len(g2) = Len(g) + 1 /\ g2[Len(g) + 1] = e
      /\ \A k \in 1 .. Len(g) : g2[k] = g[k]
  BY <1>2, AppendProperties
<1> HIDE DEF f2, g2
<1>5. ASSUME NEW k \in 1 .. Len(f2)
      PROVE  /\ f2[k].qty = g2[k].qty
             /\ \/ Couple(f2, g2, k) = <<x, y>>
                \/ \E j \in 1 .. Len(f) : Couple(f2, g2, k) = Couple(f, g, j)
  <2>1. CASE k = Len(f) + 1
    BY <1>1, <1>2, <1>3, <1>4, <2>1 DEF Couple
  <2>2. CASE k # Len(f) + 1
    <3>1. k \in 1 .. Len(f)
      BY <1>1, <1>3, <2>2
    <3>2. f2[k] = f[k] /\ g2[k] = g[k]
      BY <1>1, <1>3, <1>4, <3>1
    <3>3. Couple(f2, g2, k) = Couple(f, g, k)
      BY <3>2 DEF Couple
    <3>4. QED
      BY <1>1, <3>1, <3>2, <3>3
  <2>3. QED
    BY <2>1, <2>2
<1>6. Twin(f2, g2)
  BY <1>1, <1>3, <1>4, <1>5 DEF Twin
<1>7. QED
  BY <1>3, <1>4, <1>5, <1>6 DEF f2, g2, d, e

LEMMA TwinCut ==
  ASSUME NEW I, NEW J, NEW f \in Seq(EntryOf(I)), NEW g \in Seq(EntryOf(J)), Twin(f, g),
         NEW k \in 1 .. Len(f)
  PROVE  /\ CutOut(f, k) \in Seq(EntryOf(I)) /\ CutOut(g, k) \in Seq(EntryOf(J))
         /\ Twin(CutOut(f, k), CutOut(g, k))
         /\ \A i \in 1 .. Len(CutOut(f, k)) :
              \E j \in 1 .. Len(f) :
                j # k /\ Couple(CutOut(f, k), CutOut(g, k), i) = Couple(f, g, j)
<1> DEFINE f2 == CutOut(f, k)
           g2 == CutOut(g, k)
<1>1. Len(f) \in Nat /\ Len(g) = Len(f) /\ \A j \in 1 .. Len(f) : f[j].qty = g[j].qty
  BY LenProperties DEF Twin
<1>2. f2 = Drop(f, k) /\ g2 = Drop(g, k)
  BY <1>1, CutIsDrop
<1>3. /\ f2 \in Seq(EntryOf(I)) /\ Len(f2) = Len(f) - 1
      /\ \A j \in 1 .. Len(f) - 1 : f2[j] = IF j < k THEN f[j] ELSE f[j + 1]
  BY <1>2, AnyDrop
<1>4. /\ g2 \in Seq(EntryOf(J)) /\ Len(g2) = Len(f) - 1
      /\ \A j \in 1 .. Len(f) - 1 : g2[j] = IF j < k THEN g[j] ELSE g[j + 1]
  <2>1. k \in 1 .. Len(g)
    BY <1>1
  <2>2. QED
    BY <1>1, <1>2, <2>1, AnyDrop
<1> HIDE DEF f2, g2
<1>5. ASSUME NEW i \in 1 .. Len(f2)
      PROVE  /\ f2[i].qty = g2[i].qty
             /\ \E j \in 1 .. Len(f) : j # k /\ Couple(f2, g2, i) = Couple(f, g, j)
  <2> DEFINE j == IF i < k THEN i ELSE i + 1
  <2>1. j \in 1 .. Len(f) /\ j # k /\ f2[i] = f[j] /\ g2[i] = g[j]
    BY <1>1, <1>3, <1>4
  <2> HIDE DEF j
  <2>2. QED
    BY <1>1, <2>1 DEF Couple
<1>6. Twin(f2, g2)
  BY <1>3, <1>4, <1>5 DEF Twin
<1>7. QED
  BY <1>3, <1>4, <1>5, <1>6 DEF f2, g2
-----------------------------------------------------------------------------
(* Books that are alike, and the orders in the same place.                 *)
LEMMA QueueTyped ==
  ASSUME NEW I, NEW q \in QueuesOf(I), NEW s \in Side, NEW p \in Px
  PROVE  q[s][p] \in Seq(EntryOf(I))
BY DEF QueuesOf

LEMMA WithQueueIs ==
  ASSUME NEW I, NEW q \in QueuesOf(I), NEW s0 \in Side, NEW p0 \in Px,
         NEW f \in Seq(EntryOf(I))
  PROVE  /\ WithQueue(q, s0, p0, f) \in QueuesOf(I)
         /\ WithQueue(q, s0, p0, f)[s0][p0] = f
         /\ \A s \in Side, p \in Px : (s # s0 \/ p # p0) =>
              WithQueue(q, s0, p0, f)[s][p] = q[s][p]
<1>1. q \in [Side -> [Px -> Seq(EntryOf(I))]]
  BY DEF QueuesOf
<1> DEFINE V == Seq(EntryOf(I))
<1>2. WithQueue(q, s0, p0, f) = [q EXCEPT ![s0] = [q[s0] EXCEPT ![p0] = f]]
  BY DEF WithQueue
<1> HIDE DEF V
<1>3. q[s0] \in [Px -> V] /\ f \in V
  BY <1>1 DEF V
<1>4. [q[s0] EXCEPT ![p0] = f] \in [Px -> V]
  BY <1>3
<1>5. WithQueue(q, s0, p0, f) \in [Side -> [Px -> V]]
  BY <1>1, <1>2, <1>4 DEF V
<1>6. QED
  BY <1>1, <1>2, <1>3, <1>4, <1>5 DEF V, QueuesOf

(* An order on both books is named by its two ids. *)
LEMMA NamedIs ==
  ASSUME NEW q \in QueuesOf(Ids), NEW t \in QueuesOf(StlIds), Alike(q, t)
  PROVE  \A z : z \in Named(q, t) <=>
           \E s \in Side, p \in Px : \E k \in 1 .. Len(q[s][p]) :
             z = Couple(q[s][p], t[s][p], k)
<1>1. ASSUME NEW s \in Side, NEW p \in Px, NEW k \in 1 .. Len(q[s][p])
      PROVE  Couple(q[s][p], t[s][p], k) \in Ids \X StlIds
  <2> DEFINE f == q[s][p]
             g == t[s][p]
  <2>1. f \in Seq(EntryOf(Ids)) /\ g \in Seq(EntryOf(StlIds)) /\ Twin(f, g)
    BY QueueTyped DEF Alike
  <2> HIDE DEF f, g
  <2>2. k \in 1 .. Len(f)
    BY DEF f
  <2>3. f[k] \in EntryOf(Ids) /\ g[k] \in EntryOf(StlIds)
    <3>1. k \in 1 .. Len(g)
      BY <2>1, <2>2 DEF Twin
    <3>2. QED
      BY <2>1, <2>2, <3>1, ElementOfSeq
  <2>4. f[k].id \in Ids /\ g[k].id \in StlIds
    BY <2>3 DEF EntryOf
  <2>5. QED
    BY <2>4 DEF Couple, f, g
<1>2. QED
  BY <1>1, Zenon DEF Named

LEMMA AlikeNext ==
  ASSUME NEW q \in QueuesOf(Ids), NEW t \in QueuesOf(StlIds), Alike(q, t),
         NEW s0 \in Side, NEW p0 \in Px,
         NEW f \in Seq(EntryOf(Ids)), NEW g \in Seq(EntryOf(StlIds)), Twin(f, g)
  PROVE  LET q2 == WithQueue(q, s0, p0, f)
             t2 == WithQueue(t, s0, p0, g)
         IN /\ q2 \in QueuesOf(Ids) /\ t2 \in QueuesOf(StlIds) /\ Alike(q2, t2)
            /\ \A z \in Named(q2, t2) :
                 \/ \E k \in 1 .. Len(f) : z = Couple(f, g, k)
                 \/ \E s \in Side, p \in Px :
                      /\ s # s0 \/ p # p0
                      /\ \E k \in 1 .. Len(q[s][p]) : z = Couple(q[s][p], t[s][p], k)
<1> DEFINE q2 == WithQueue(q, s0, p0, f)
           t2 == WithQueue(t, s0, p0, g)
<1>1. /\ q2 \in QueuesOf(Ids) /\ q2[s0][p0] = f
      /\ \A s \in Side, p \in Px : (s # s0 \/ p # p0) => q2[s][p] = q[s][p]
  BY WithQueueIs
<1>2. /\ t2 \in QueuesOf(StlIds) /\ t2[s0][p0] = g
      /\ \A s \in Side, p \in Px : (s # s0 \/ p # p0) => t2[s][p] = t[s][p]
  BY WithQueueIs
<1> HIDE DEF q2, t2
<1>3. Alike(q2, t2)
  <2>1. SUFFICES ASSUME NEW s \in Side, NEW p \in Px
        PROVE  Twin(q2[s][p], t2[s][p])
    BY DEF Alike
  <2>2. CASE s = s0 /\ p = p0
    BY <1>1, <1>2, <2>2
  <2>3. CASE s # s0 \/ p # p0
    <3>1. q2[s][p] = q[s][p] /\ t2[s][p] = t[s][p]
      BY <1>1, <1>2, <2>3
    <3>2. QED
      BY <3>1 DEF Alike
  <2>4. QED
    BY <2>2, <2>3
<1>4. ASSUME NEW z \in Named(q2, t2)
      PROVE  \/ \E k \in 1 .. Len(f) : z = Couple(f, g, k)
             \/ \E s \in Side, p \in Px :
                  /\ s # s0 \/ p # p0
                  /\ \E k \in 1 .. Len(q[s][p]) : z = Couple(q[s][p], t[s][p], k)
  <2>1. PICK s \in Side, p \in Px : \E k \in 1 .. Len(q2[s][p]) :
          z = Couple(q2[s][p], t2[s][p], k)
    BY <1>1, <1>2, <1>3, NamedIs
  <2>2. CASE s = s0 /\ p = p0
    BY <1>1, <1>2, <2>1, <2>2
  <2>3. CASE s # s0 \/ p # p0
    <3>1. q2[s][p] = q[s][p] /\ t2[s][p] = t[s][p]
      BY <1>1, <1>2, <2>3
    <3>2. QED
      BY <2>1, <2>3, <3>1
  <2>4. QED
    BY <2>2, <2>3
<1>5. QED
  BY <1>1, <1>2, <1>3, <1>4 DEF q2, t2

(* Nothing but quantities decides who trades next.                         *)
LEMMA MeetsAlike ==
  ASSUME NEW a \in BookOf(Ids), NEW c \in BookOf(StlIds), Alike(a.q, c.q), a.rem = c.rem,
         NEW side \in Side, NEW px \in Px
  PROVE  \A p : Meets(side, px, a, p) <=> Meets(side, px, c, p)
<1>1. a.q \in QueuesOf(Ids) /\ c.q \in QueuesOf(StlIds) /\ Opposite(side) \in Side
  BY OppositeSide DEF BookOf
<1>2. ASSUME NEW s \in Side, NEW p \in Px
      PROVE  a.q[s][p] = << >> <=> c.q[s][p] = << >>
  <2>1. /\ a.q[s][p] \in Seq(EntryOf(Ids)) /\ c.q[s][p] \in Seq(EntryOf(StlIds))
        /\ Len(a.q[s][p]) = Len(c.q[s][p])
    BY <1>1, QueueTyped DEF Alike, Twin
  <2>2. QED
    BY <2>1, EmptySeq
<1>3. \A p : BestIn(a.q, Opposite(side), p) <=> BestIn(c.q, Opposite(side), p)
  BY <1>1, <1>2 DEF BestIn
<1>4. QED
  BY <1>3 DEF Meets

(* There is one best price.                                                *)
LEMMA MeetsOnce ==
  ASSUME NEW side \in Side, NEW px \in Px, NEW a, NEW p, NEW r,
         Meets(side, px, a, p), Meets(side, px, a, r)
  PROVE  p = r
<1>1. /\ p \in Px /\ r \in Px
      /\ NoBetter(Opposite(side), r, p) /\ NoBetter(Opposite(side), p, r)
  BY DEF Meets, BestIn
<1>2. p \in Nat /\ r \in Nat
  BY <1>1, LobAssumption DEF Px
<1>3. QED
  BY <1>1, <1>2 DEF NoBetter

LEMMA TradesOnce ==
  ASSUME NEW side \in Side, NEW px \in Px, NEW a, NEW b, NEW x, NEW c, NEW y,
         Trades(side, px, a, b, x), Trades(side, px, a, c, y)
  PROVE  b = c /\ x = y
<1>1. PICK p \in Px : Meets(side, px, a, p) /\ b = Traded(side, a, p) /\ x = Ticket(side, a, p)
  BY DEF Trades
<1>2. PICK r \in Px : Meets(side, px, a, r) /\ c = Traded(side, a, r) /\ y = Ticket(side, a, r)
  BY DEF Trades
<1>3. p = r
  BY <1>1, <1>2, MeetsOnce
<1>4. QED
  BY <1>1, <1>2, <1>3

LEMMA TakenIs ==
  ASSUME NEW I, NEW a \in BookOf(I), NEW side \in Side, NEW px \in Px, NEW p,
         Meets(side, px, a, p), a.q[Opposite(side)][p][1].qty # 0
  PROVE  LET f == a.q[Opposite(side)][p]
         IN /\ p \in Px /\ f \in Seq(EntryOf(I)) /\ f # << >>
            /\ TakeFrom(f, a.rem) \in 1 .. f[1].qty
            /\ TakeFrom(f, a.rem) \in 1 .. a.rem
            /\ a.rem - TakeFrom(f, a.rem) \in 0 .. MaxQty
            /\ Head(f) = f[1]
<1> DEFINE f == a.q[Opposite(side)][p]
<1>1. /\ a.rem # 0 /\ p \in Px /\ f # << >> /\ Opposite(side) \in Side
      /\ a.rem \in 0 .. MaxQty /\ a.q \in QueuesOf(I)
  BY OppositeSide DEF Meets, BestIn, BookOf
<1>2. f \in Seq(EntryOf(I))
  BY <1>1, QueueTyped
<1>3. f[1].qty # 0
  OBVIOUS
<1> HIDE DEF f
<1>4. Head(f) = f[1] /\ f[1] \in EntryOf(I)
  <2>1. Len(f) \in Nat /\ Len(f) # 0
    BY <1>1, <1>2, EmptySeq, LenProperties
  <2>2. 1 \in 1 .. Len(f)
    BY <2>1
  <2>3. QED
    BY <1>1, <1>2, <2>2, ElementOfSeq
<1>5. f[1].qty \in 1 .. MaxQty
  <2>1. f[1].qty \in 0 .. MaxQty
    BY <1>4 DEF EntryOf
  <2>2. QED
    BY <1>3, <2>1
<1>6. TakeFrom(f, a.rem) = IF f[1].qty <= a.rem THEN f[1].qty ELSE a.rem
  BY <1>4 DEF TakeFrom
<1>7. QED
  BY <1>1, <1>2, <1>4, <1>5, <1>6, LobAssumption DEF f
-----------------------------------------------------------------------------
(* The stacks ll and ls of the caller know the couples of P: the last      *)
(* entry for a slot is beside the tree's id of the order that is there.    *)
LastAt(f, j, x) == f[j] = x /\ \A i \in 1 .. Len(f) : i > j => f[i] # x

Stacked(P, ll, ls) ==
  /\ Len(ll) = Len(ls) /\ OneToOne(ls)
  /\ \A z \in P : \E j \in 1 .. Len(ll) : LastAt(ll, j, z[1]) /\ ls[j] = z[2]

LEMMA StackedFewer ==
  ASSUME NEW P, NEW Q, NEW ll, NEW ls, Stacked(P, ll, ls), \A z \in Q : z \in P
  PROVE  Stacked(Q, ll, ls)
BY DEF Stacked

(* An entry that has the id of an order in the tree has its slot.          *)
LEMMA StackedAt ==
  ASSUME NEW P, NEW ll \in Seq(Ids), NEW ls \in Seq(StlIds), Stacked(P, ll, ls), NEW z \in P,
         NEW j \in 1 .. Len(ls), ls[j] = z[2]
  PROVE  ll[j] = z[1]
<1>1. PICK h \in 1 .. Len(ll) : LastAt(ll, h, z[1]) /\ ls[h] = z[2]
  BY DEF Stacked
<1>2. h \in 1 .. Len(ls) /\ OneToOne(ls)
  BY <1>1 DEF Stacked
<1>3. h = j
  BY <1>1, <1>2 DEF OneToOne
<1>4. QED
  BY <1>1, <1>3 DEF LastAt

(* If the entry on top has the slot of an order, it has its id.            *)
LEMMA StackedTop ==
  ASSUME NEW P, NEW ll \in Seq(Ids), NEW ls \in Seq(StlIds), Stacked(P, ll, ls), NEW z \in P,
         ll[Len(ll)] = z[1]
  PROVE  ls[Len(ls)] = z[2]
<1>1. PICK h \in 1 .. Len(ll) : LastAt(ll, h, z[1]) /\ ls[h] = z[2]
  BY DEF Stacked
<1>2. Len(ll) \in Nat /\ Len(ls) = Len(ll)
  BY LenProperties DEF Stacked
<1>3. h = Len(ll)
  <2>1. SUFFICES ASSUME Len(ll) > h
        PROVE  FALSE
    BY <1>2
  <2>2. Len(ll) \in 1 .. Len(ll)
    BY <1>2
  <2>3. QED
    BY <1>1, <2>1, <2>2 DEF LastAt
<1>4. QED
  BY <1>1, <1>2, <1>3

LEMMA StackedPush ==
  ASSUME NEW P, NEW Q, NEW ll \in Seq(Ids), NEW ls \in Seq(StlIds), Stacked(P, ll, ls),
         NEW x \in Ids, NEW i \in StlIds, \A k \in 1 .. Len(ls) : ls[k] # i,
         \A z \in Q : z = <<x, i>> \/ (z \in P /\ z[1] # x)
  PROVE  Stacked(Q, Append(ll, x), Append(ls, i))
<1> DEFINE l2 == Append(ll, x)
           s2 == Append(ls, i)
           n == Len(ll)
<1>1. n \in Nat /\ Len(ls) = n /\ OneToOne(ls)
  BY LenProperties DEF Stacked
<1>2. Len(l2) = n + 1 /\ l2[n + 1] = x /\ \A k \in 1 .. n : l2[k] = ll[k]
  BY AppendProperties
<1>3. Len(s2) = n + 1 /\ s2[n + 1] = i /\ \A k \in 1 .. n : s2[k] = ls[k]
  BY <1>1, AppendProperties
<1> HIDE DEF l2, s2, n
<1>4. OneToOne(s2)
  <2>1. SUFFICES ASSUME NEW j \in 1 .. n + 1, NEW k \in 1 .. n + 1, s2[j] = s2[k]
        PROVE  j = k
    BY <1>3 DEF OneToOne
  <2>2. \A h \in 1 .. n : ls[h] # i
    BY <1>1
  <2>3. CASE j = n + 1
    <3>1. k \notin 1 .. n
      BY <1>3, <2>1, <2>2, <2>3
    <3>2. QED
      BY <1>1, <2>3, <3>1
  <2>4. CASE k = n + 1
    <3>1. j \notin 1 .. n
      BY <1>3, <2>1, <2>2, <2>4
    <3>2. QED
      BY <1>1, <2>4, <3>1
  <2>5. CASE j # n + 1 /\ k # n + 1
    <3>1. j \in 1 .. n /\ k \in 1 .. n
      BY <1>1, <2>5
    <3>2. ls[j] = ls[k]
      BY <1>3, <2>1, <3>1
    <3>3. QED
      BY <1>1, <3>1, <3>2 DEF OneToOne
  <2>6. QED
    BY <2>3, <2>4, <2>5
<1>5. ASSUME NEW z \in Q
      PROVE  \E j \in 1 .. Len(l2) : LastAt(l2, j, z[1]) /\ s2[j] = z[2]
  <2>1. CASE z = <<x, i>>
    <3>1. z[1] = x /\ z[2] = i
      BY <2>1
    <3>2. n + 1 \in 1 .. Len(l2) /\ LastAt(l2, n + 1, x)
      BY <1>1, <1>2 DEF LastAt
    <3>3. QED
      BY <1>3, <3>1, <3>2
  <2>2. CASE z \in P /\ z[1] # x
    <3>1. PICK j \in 1 .. n : LastAt(ll, j, z[1]) /\ ls[j] = z[2]
      BY <2>2 DEF Stacked, n
    <3>2. LastAt(l2, j, z[1])
      <4>1. ASSUME NEW k \in 1 .. n + 1, k > j
            PROVE  l2[k] # z[1]
        <5>1. CASE k = n + 1
          BY <1>2, <2>2, <5>1
        <5>2. CASE k # n + 1
          <6>1. k \in 1 .. n
            BY <1>1, <5>2
          <6>2. QED
            BY <1>2, <3>1, <4>1, <6>1 DEF LastAt, n
        <5>3. QED
          BY <5>1, <5>2
      <4>2. l2[j] = z[1]
        BY <1>2, <3>1 DEF LastAt
      <4>3. QED
        BY <1>2, <4>1, <4>2 DEF LastAt
    <3>3. j \in 1 .. Len(l2) /\ s2[j] = z[2]
      BY <1>1, <1>2, <1>3, <3>1
    <3>4. QED
      BY <3>2, <3>3
  <2>3. QED
    BY <2>1, <2>2
<1>6. QED
  BY <1>2, <1>3, <1>4, <1>5 DEF Stacked, l2, s2

LEMMA StackedCut ==
  ASSUME NEW P, NEW Q, NEW ll \in Seq(Ids), NEW ls \in Seq(StlIds), Stacked(P, ll, ls),
         NEW h \in 1 .. Len(ll), \A z \in Q : z \in P /\ z[1] # ll[h]
  PROVE  /\ Stacked(Q, CutOut(ll, h), CutOut(ls, h))
         /\ CutOut(ll, h) \in Seq(Ids) /\ CutOut(ls, h) \in Seq(StlIds)
         /\ \A j \in 1 .. Len(CutOut(ls, h)) :
              \E k \in 1 .. Len(ls) : CutOut(ls, h)[j] = ls[k]
<1> DEFINE l2 == CutOut(ll, h)
           s2 == CutOut(ls, h)
           n == Len(ll)
<1>1. n \in Nat /\ Len(ls) = n /\ OneToOne(ls) /\ h \in 1 .. n
  BY LenProperties DEF Stacked
<1>2. h \in 1 .. Len(ls)
  BY <1>1
<1>3. l2 = Drop(ll, h) /\ s2 = Drop(ls, h)
  BY <1>2, CutIsDrop
<1>4. /\ l2 \in Seq(Ids) /\ Len(l2) = n - 1
      /\ \A j \in 1 .. n - 1 : l2[j] = IF j < h THEN ll[j] ELSE ll[j + 1]
  BY <1>3, AnyDrop
<1>5. /\ s2 \in Seq(StlIds) /\ Len(s2) = n - 1
      /\ \A j \in 1 .. n - 1 : s2[j] = IF j < h THEN ls[j] ELSE ls[j + 1]
  BY <1>1, <1>2, <1>3, AnyDrop
<1>6. /\ OneToOne(Drop(ls, h))
      /\ \A j \in 1 .. Len(Drop(ls, h)) : \E k \in 1 .. Len(ls) : Drop(ls, h)[j] = ls[k]
  <2>1. OneToOne(ls) /\ h \in 1 .. Len(ls)
    BY <1>1, <1>2
  <2>2. \A j \in 1 .. Len(Drop(ls, h)) :
          \E k \in 1 .. Len(ls) : k # h /\ Drop(ls, h)[j] = ls[k]
    BY <2>1, AnyDropOthers
  <2>3. OneToOne(Drop(ls, h))
    BY <2>1, AnyDropOthers
  <2>4. QED
    BY <2>2, <2>3
<1> HIDE DEF l2, s2, n
<1>7. ASSUME NEW z \in Q
      PROVE  \E j \in 1 .. Len(l2) : LastAt(l2, j, z[1]) /\ s2[j] = z[2]
  <2>1. PICK g \in 1 .. n : LastAt(ll, g, z[1]) /\ ls[g] = z[2]
    BY DEF Stacked, n
  <2>2. ll[g] = z[1] /\ \A i \in 1 .. n : i > g => ll[i] # z[1]
    BY <2>1 DEF LastAt, n
  <2>3. g # h
    BY <2>2
  <2> DEFINE j == IF g < h THEN g ELSE g - 1
  <2>4. /\ j \in 1 .. n - 1
        /\ l2[j] = ll[g] /\ s2[j] = ls[g]
    BY <1>1, <1>4, <1>5, <2>3
  <2>5. ASSUME NEW i \in 1 .. n - 1, i > j
        PROVE  l2[i] # z[1]
    <3>1. CASE i < h
      <4>1. l2[i] = ll[i] /\ i \in 1 .. n /\ i > g
        BY <1>1, <1>4, <2>3, <2>5, <3>1
      <4>2. QED
        BY <2>2, <4>1
    <3>2. CASE ~ (i < h)
      <4>1. l2[i] = ll[i + 1] /\ i + 1 \in 1 .. n /\ i + 1 > g
        BY <1>1, <1>4, <2>3, <2>5, <3>2
      <4>2. QED
        BY <2>2, <4>1
    <3>3. QED
      BY <3>1, <3>2
  <2> HIDE DEF j
  <2>6. LastAt(l2, j, z[1])
    BY <1>4, <2>2, <2>4, <2>5 DEF LastAt
  <2>7. QED
    BY <1>4, <2>1, <2>4, <2>6
<1>8. QED
  <2>1. Stacked(Q, l2, s2)
    BY <1>3, <1>4, <1>5, <1>6, <1>7 DEF Stacked
  <2>2. QED
    BY <1>3, <1>4, <1>5, <1>6, <2>1 DEF l2, s2

(* The stack without its top. *)
LEMMA PopIsCut ==
  ASSUME NEW I, NEW f \in Seq(I), Len(f) > 0
  PROVE  /\ SubSeq(f, 1, Len(f) - 1) = CutOut(f, Len(f))
         /\ Len(f) \in 1 .. Len(f)
<1> DEFINE n == Len(f)
           A == SubSeq(f, 1, n - 1)
           B == SubSeq(f, n + 1, n)
<1>1. n \in Nat /\ n \in 1 .. n
  BY LenProperties
<1>2. A \in Seq(I)
  BY <1>1
<1>3. B = << >>
  BY <1>1
<1>4. A \o << >> = A
  <2> HIDE DEF A
  <2>1. QED
    BY <1>2
<1>5. QED
  BY <1>1, <1>3, <1>4 DEF CutOut
-----------------------------------------------------------------------------
(* Two books that are alike, and stacks that know the orders on them.      *)
Tied(q, t, ll, ls) == Alike(q, t) /\ Stacked(Named(q, t), ll, ls)

(* They trade alike.                                                       *)
LEMMA TiedTraded ==
  ASSUME NEW a \in BookOf(Ids), NEW c \in BookOf(StlIds), a.rem = c.rem,
         NEW side \in Side, NEW px \in Px, NEW p, Meets(side, px, a, p),
         a.q[Opposite(side)][p][1].qty # 0, NEW ll, NEW ls, Tied(a.q, c.q, ll, ls)
  PROVE  LET b == Traded(side, a, p)
             d == Traded(side, c, p)
         IN /\ Meets(side, px, c, p) /\ Ticket(side, c, p) = Ticket(side, a, p)
            /\ d \in BookOf(StlIds) /\ b.rem = d.rem
            /\ Tied(b.q, d.q, ll, ls)
<1> DEFINE s == Opposite(side)
           f == a.q[s][p]
           g == c.q[s][p]
           t == TakeFrom(f, a.rem)
           f2 == Smaller(f, t)
           g2 == Smaller(g, t)
           q2 == WithQueue(a.q, s, p, f2)
           t2 == WithQueue(c.q, s, p, g2)
<1>1. /\ a.q \in QueuesOf(Ids) /\ c.q \in QueuesOf(StlIds) /\ s \in Side
      /\ Alike(a.q, c.q) /\ Stacked(Named(a.q, c.q), ll, ls)
  BY OppositeSide DEF BookOf, Tied
<1>2. /\ p \in Px /\ f \in Seq(EntryOf(Ids)) /\ f # << >>
      /\ t \in 1 .. f[1].qty /\ a.rem - t \in 0 .. MaxQty /\ Head(f) = f[1]
  BY TakenIs
<1>3. g \in Seq(EntryOf(StlIds)) /\ Twin(f, g)
  BY <1>1, <1>2, QueueTyped DEF Alike
<1>4. Meets(side, px, c, p)
  BY <1>1, MeetsAlike
<1> HIDE DEF s
<1>5. Head(g).qty = Head(f).qty
  <2> HIDE DEF f, g
  <2>1. Len(f) \in Nat /\ Len(f) # 0
    BY <1>2, EmptySeq, LenProperties
  <2>2. f[1].qty = g[1].qty
    BY <1>3, <2>1 DEF Twin
  <2>3. Head(g) = g[1]
    <3>1. Len(g) # 0
      BY <1>3, <2>1 DEF Twin
    <3>2. QED
      BY <1>3, <3>1, EmptySeq
  <2>4. QED
    BY <1>2, <2>2, <2>3
<1>6. TakeFrom(g, c.rem) = t
  BY <1>5 DEF TakeFrom
<1>7. Ticket(side, c, p) = Ticket(side, a, p)
  BY <1>6 DEF Ticket, s
<1>8. Traded(side, a, p) = [q |-> q2, rem |-> a.rem - t]
  BY DEF Traded, s
<1>9. Traded(side, c, p) = [q |-> t2, rem |-> a.rem - t]
  BY <1>6 DEF Traded, s
<1>10. /\ Twin(f2, g2) /\ Inherits(f, g, f2, g2)
       /\ f2 \in Seq(EntryOf(Ids)) /\ g2 \in Seq(EntryOf(StlIds))
  <2> HIDE DEF f, g, t
  <2>1. /\ g # << >> /\ t \in 1 .. g[1].qty
        /\ Twin(f2, g2) /\ Inherits(f, g, f2, g2)
    BY <1>2, <1>3, TwinSmaller
  <2>2. QED
    BY <1>2, <1>3, <2>1, SmallerIs
<1> HIDE DEF t, f2, g2
<1>11. /\ q2 \in QueuesOf(Ids) /\ t2 \in QueuesOf(StlIds) /\ Alike(q2, t2)
       /\ \A z \in Named(q2, t2) :
            \/ \E k \in 1 .. Len(f2) : z = Couple(f2, g2, k)
            \/ \E r \in Side, x \in Px :
                 /\ r # s \/ x # p
                 /\ \E k \in 1 .. Len(a.q[r][x]) : z = Couple(a.q[r][x], c.q[r][x], k)
  BY <1>1, <1>2, <1>10, AlikeNext, SMTT(30)
<1> HIDE DEF q2, t2
<1>12. \A z \in Named(q2, t2) : z \in Named(a.q, c.q)
  <2>1. TAKE z \in Named(q2, t2)
  <2>2. CASE \E k \in 1 .. Len(f2) : z = Couple(f2, g2, k)
    <3>1. PICK k \in 1 .. Len(f2) : z = Couple(f2, g2, k)
      BY <2>2
    <3>2. \E j \in 1 .. Len(f) : z = Couple(f, g, j)
      BY <1>10, <3>1 DEF Inherits
    <3>3. QED
      BY <1>1, <1>2, <3>2, NamedIs
  <2>3. CASE \E r \in Side, x \in Px :
               /\ r # s \/ x # p
               /\ \E k \in 1 .. Len(a.q[r][x]) : z = Couple(a.q[r][x], c.q[r][x], k)
    BY <1>1, <2>3, NamedIs
  <2>4. QED
    BY <1>11, <2>2, <2>3
<1>13. Tied(q2, t2, ll, ls)
  BY <1>1, <1>11, <1>12, StackedFewer DEF Tied
<1>14. /\ Traded(side, a, p).q = q2 /\ Traded(side, a, p).rem = a.rem - t
       /\ Traded(side, c, p).q = t2 /\ Traded(side, c, p).rem = a.rem - t
       /\ Traded(side, c, p) \in BookOf(StlIds)
  BY <1>2, <1>8, <1>9, <1>11 DEF BookOf
<1>15. QED
  BY <1>4, <1>7, <1>13, <1>14

(* An order rests on both, and both its ids go on the stacks.              *)
Joined(q, s, p, id, t) == WithQueue(q, s, p, Append(q[s][p], [id |-> id, qty |-> t]))

LEMMA TiedRested ==
  ASSUME NEW q \in QueuesOf(Ids), NEW u \in QueuesOf(StlIds),
         NEW ll \in Seq(Ids), NEW ls \in Seq(StlIds), Tied(q, u, ll, ls),
         NEW s \in Side, NEW p \in Px, NEW x \in Ids, NEW i \in StlIds,
         NEW t \in 0 .. MaxQty,
         \A k \in 1 .. Len(ls) : ls[k] # i,
         \A r \in Side, y \in Px : \A k \in 1 .. Len(q[r][y]) : q[r][y][k].id # x
  PROVE  /\ Tied(Joined(q, s, p, x, t), Joined(u, s, p, i, t), Append(ll, x), Append(ls, i))
         /\ Joined(u, s, p, i, t) \in QueuesOf(StlIds)
<1> DEFINE f == q[s][p]
           g == u[s][p]
           f2 == Append(f, [id |-> x, qty |-> t])
           g2 == Append(g, [id |-> i, qty |-> t])
           q2 == WithQueue(q, s, p, f2)
           u2 == WithQueue(u, s, p, g2)
<1>1. Alike(q, u) /\ Stacked(Named(q, u), ll, ls)
  BY DEF Tied
<1>2. f \in Seq(EntryOf(Ids)) /\ g \in Seq(EntryOf(StlIds)) /\ Twin(f, g)
  BY <1>1, QueueTyped DEF Alike
<1>3. /\ f2 \in Seq(EntryOf(Ids)) /\ g2 \in Seq(EntryOf(StlIds)) /\ Twin(f2, g2)
      /\ \A k \in 1 .. Len(f2) : \/ Couple(f2, g2, k) = <<x, i>>
                                 \/ \E j \in 1 .. Len(f) : Couple(f2, g2, k) = Couple(f, g, j)
  <2> HIDE DEF f, g
  <2>1. LET a == Append(f, [id |-> x, qty |-> t])
            b == Append(g, [id |-> i, qty |-> t])
        IN /\ a \in Seq(EntryOf(Ids)) /\ b \in Seq(EntryOf(StlIds))
           /\ Twin(a, b)
           /\ \A k \in 1 .. Len(a) : \/ Couple(a, b, k) = <<x, i>>
                                    \/ \E j \in 1 .. Len(f) : Couple(a, b, k) = Couple(f, g, j)
    BY <1>2, TwinAppend, SMTT(30)
  <2>2. QED
    BY <2>1, Zenon
<1> HIDE DEF f2, g2
<1>4. /\ q2 \in QueuesOf(Ids) /\ u2 \in QueuesOf(StlIds) /\ Alike(q2, u2)
      /\ \A z \in Named(q2, u2) :
           \/ \E k \in 1 .. Len(f2) : z = Couple(f2, g2, k)
           \/ \E r \in Side, y \in Px :
                /\ r # s \/ y # p
                /\ \E k \in 1 .. Len(q[r][y]) : z = Couple(q[r][y], u[r][y], k)
  BY <1>1, <1>3, AlikeNext, SMTT(30)
<1> HIDE DEF q2, u2
<1>5. \A r \in Side, y \in Px : \A k \in 1 .. Len(q[r][y]) :
        /\ Couple(q[r][y], u[r][y], k) \in Named(q, u)
        /\ Couple(q[r][y], u[r][y], k)[1] # x
  BY <1>1, NamedIs DEF Couple
<1>6. \A z \in Named(q2, u2) : z = <<x, i>> \/ (z \in Named(q, u) /\ z[1] # x)
  <2>1. TAKE z \in Named(q2, u2)
  <2>2. CASE \E k \in 1 .. Len(f2) : z = Couple(f2, g2, k)
    <3>1. PICK k \in 1 .. Len(f2) : z = Couple(f2, g2, k)
      BY <2>2
    <3>2. z = <<x, i>> \/ \E j \in 1 .. Len(f) : z = Couple(f, g, j)
      BY <1>3, <3>1
    <3>3. QED
      BY <1>5, <3>2
  <2>3. CASE \E r \in Side, y \in Px :
               /\ r # s \/ y # p
               /\ \E k \in 1 .. Len(q[r][y]) : z = Couple(q[r][y], u[r][y], k)
    BY <1>5, <2>3
  <2>4. QED
    BY <1>4, <2>2, <2>3
<1>7. Stacked(Named(q2, u2), Append(ll, x), Append(ls, i))
  BY <1>1, <1>6, StackedPush
<1>8. QED
  BY <1>4, <1>7 DEF Tied, Joined, q2, u2, f2, g2

(* An order leaves both, and both its ids leave the stacks.                *)
OnePlace(q) ==
  \A r \in Side, y \in Px : \A j \in 1 .. Len(q[r][y]) :
    \A s \in Side, p \in Px : \A k \in 1 .. Len(q[s][p]) :
      q[r][y][j].id = q[s][p][k].id => r = s /\ y = p /\ j = k

Gone(q, s, p, k) == WithQueue(q, s, p, CutOut(q[s][p], k))

LEMMA TiedCut ==
  ASSUME NEW q \in QueuesOf(Ids), NEW u \in QueuesOf(StlIds),
         NEW ll \in Seq(Ids), NEW ls \in Seq(StlIds), Tied(q, u, ll, ls), OnePlace(q),
         NEW s \in Side, NEW p \in Px, NEW k \in 1 .. Len(q[s][p]),
         NEW h \in 1 .. Len(ll), ll[h] = q[s][p][k].id
  PROVE  Tied(Gone(q, s, p, k), Gone(u, s, p, k), CutOut(ll, h), CutOut(ls, h))
<1> DEFINE f == q[s][p]
           g == u[s][p]
           f2 == CutOut(f, k)
           g2 == CutOut(g, k)
           q2 == WithQueue(q, s, p, f2)
           u2 == WithQueue(u, s, p, g2)
<1>1. Alike(q, u) /\ Stacked(Named(q, u), ll, ls)
  BY DEF Tied
<1>2. f \in Seq(EntryOf(Ids)) /\ g \in Seq(EntryOf(StlIds)) /\ Twin(f, g)
  BY <1>1, QueueTyped DEF Alike
<1>3. /\ f2 \in Seq(EntryOf(Ids)) /\ g2 \in Seq(EntryOf(StlIds)) /\ Twin(f2, g2)
      /\ \A i \in 1 .. Len(f2) :
           \E j \in 1 .. Len(f) : j # k /\ Couple(f2, g2, i) = Couple(f, g, j)
  <2>1. k \in 1 .. Len(f)
    OBVIOUS
  <2> HIDE DEF f, g
  <2>2. QED
    BY <1>2, <2>1, TwinCut
<1> HIDE DEF f2, g2
<1>4. /\ q2 \in QueuesOf(Ids) /\ u2 \in QueuesOf(StlIds) /\ Alike(q2, u2)
      /\ \A z \in Named(q2, u2) :
           \/ \E j \in 1 .. Len(f2) : z = Couple(f2, g2, j)
           \/ \E r \in Side, y \in Px :
                /\ r # s \/ y # p
                /\ \E j \in 1 .. Len(q[r][y]) : z = Couple(q[r][y], u[r][y], j)
  BY <1>1, <1>3, AlikeNext
<1> HIDE DEF q2, u2
<1>5. ASSUME NEW r \in Side, NEW y \in Px, NEW j \in 1 .. Len(q[r][y]),
             r # s \/ y # p \/ j # k
      PROVE  /\ Couple(q[r][y], u[r][y], j) \in Named(q, u)
             /\ Couple(q[r][y], u[r][y], j)[1] # ll[h]
  <2>1. Couple(q[r][y], u[r][y], j) \in Named(q, u)
    BY <1>1, NamedIs
  <2>2. q[r][y][j].id # q[s][p][k].id
    BY <1>5 DEF OnePlace
  <2>3. Couple(q[r][y], u[r][y], j)[1] = q[r][y][j].id
    BY DEF Couple
  <2>4. QED
    BY <2>1, <2>2, <2>3
<1>6. \A z \in Named(q2, u2) : z \in Named(q, u) /\ z[1] # ll[h]
  <2>1. TAKE z \in Named(q2, u2)
  <2>2. CASE \E j \in 1 .. Len(f2) : z = Couple(f2, g2, j)
    <3>1. PICK i \in 1 .. Len(f2) : z = Couple(f2, g2, i)
      BY <2>2
    <3>2. PICK j \in 1 .. Len(f) : j # k /\ z = Couple(f, g, j)
      BY <1>3, <3>1
    <3>3. QED
      BY <1>5, <3>2
  <2>3. CASE \E r \in Side, y \in Px :
               /\ r # s \/ y # p
               /\ \E j \in 1 .. Len(q[r][y]) : z = Couple(q[r][y], u[r][y], j)
    BY <1>5, <2>3
  <2>4. QED
    BY <1>4, <2>2, <2>3
<1>7. Stacked(Named(q2, u2), CutOut(ll, h), CutOut(ls, h))
  BY <1>1, <1>6, StackedCut
<1>8. QED
  BY <1>4, <1>7 DEF Tied, Gone, q2, u2, f2, g2

(* The entry on top goes; its order had gone before.                       *)
LEMMA TiedPopped ==
  ASSUME NEW q \in QueuesOf(Ids), NEW u \in QueuesOf(StlIds),
         NEW ll \in Seq(Ids), NEW ls \in Seq(StlIds), Tied(q, u, ll, ls), Len(ll) > 0,
         \A z \in Named(q, u) : z[2] # ls[Len(ls)]
  PROVE  /\ Tied(q, u, CutOut(ll, Len(ll)), CutOut(ls, Len(ll)))
         /\ \A z \in Named(q, u) : z[1] # ll[Len(ll)]
<1>1. Stacked(Named(q, u), ll, ls)
  BY DEF Tied
<1>2. \A z \in Named(q, u) : z[1] # ll[Len(ll)]
  BY <1>1, StackedTop
<1>3. Len(ll) \in 1 .. Len(ll)
  BY PopIsCut
<1>4. Stacked(Named(q, u), CutOut(ll, Len(ll)), CutOut(ls, Len(ll)))
  <2> DEFINE P == Named(q, u)
             h == Len(ll)
  <2>1. Stacked(P, ll, ls) /\ h \in 1 .. Len(ll) /\ \A z \in P : z \in P /\ z[1] # ll[h]
    BY <1>1, <1>2, <1>3
  <2> HIDE DEF P, h
  <2>2. Stacked(P, CutOut(ll, h), CutOut(ls, h))
    BY <2>1, StackedCut
  <2>3. QED
    BY <2>2 DEF P, h
<1>5. QED
  BY <1>2, <1>4 DEF Tied
-----------------------------------------------------------------------------
(* The ladder as such a book.  Its orders, and where they are.             *)
LadderBook == [q |-> RestingOrders, rem |-> remaining]

LEMMA LadderOrders ==
  ASSUME IInv
  PROVE  /\ RestingOrders \in QueuesOf(Ids)
         /\ \A s \in Side, p \in Px :
              /\ Len(RestingOrders[s][p]) = Len(Queues[s][p])
              /\ \A k \in 1 .. Len(RestingOrders[s][p]) :
                   LET id == RestingOrders[s][p][k].id
                   IN /\ id = Queues[s][p][k] /\ id \in Ids /\ id # taker_id
                      /\ orders_[id].side = s /\ orders_[id].px = p
                      /\ orders_[id].qty = RestingOrders[s][p][k].qty
                      /\ orders_[id].qty # 0
<1>1. ASSUME NEW s \in Side, NEW p \in Px
      PROVE  /\ RestingOrders[s][p] \in Seq(EntryOf(Ids))
             /\ Len(RestingOrders[s][p]) = Len(Queues[s][p])
             /\ \A k \in 1 .. Len(RestingOrders[s][p]) :
                  RestingOrders[s][p][k] = [id |-> Queues[s][p][k],
                                            qty |-> orders_[Queues[s][p][k]].qty]
  <2>1. Queues[s][p] \in Seq(Ids) /\ orders_ \in [Ids -> Order]
    BY QueueFacts
  <2>2. RestingOrders[s][p] = Resting(Queues[s][p], orders_)
    BY RestingOrdersAre
  <2> DEFINE f == Queues[s][p]
  <2> HIDE DEF f
  <2>3. f \in Seq(Ids)
    BY <2>1 DEF f
  <2>4. /\ Resting(f, orders_) \in Seq(Entry) /\ Len(Resting(f, orders_)) = Len(f)
        /\ \A k \in 1 .. Len(f) : Resting(f, orders_)[k] = [id |-> f[k], qty |-> orders_[f[k]].qty]
    BY <2>1, <2>3, RestingIs
  <2>5. QED
    BY <2>2, <2>4, Entries DEF f
<1>2. RestingOrders \in QueuesOf(Ids)
  <2>1. RestingOrders = [s \in Side |-> [p \in Px |-> RestingOrders[s][p]]]
    BY RestingOrdersAre
  <2>2. \A s \in Side, p \in Px : RestingOrders[s][p] \in Seq(EntryOf(Ids))
    BY <1>1
  <2>3. QED
    BY <2>1, <2>2 DEF QueuesOf
<1>3. ASSUME NEW s \in Side, NEW p \in Px, NEW k \in 1 .. Len(RestingOrders[s][p])
      PROVE  LET id == RestingOrders[s][p][k].id
             IN /\ id = Queues[s][p][k] /\ id \in Ids /\ id # taker_id
                /\ orders_[id].side = s /\ orders_[id].px = p
                /\ orders_[id].qty = RestingOrders[s][p][k].qty
                /\ orders_[id].qty # 0
  <2> DEFINE x == Queues[s][p][k]
  <2>1. RestingOrders[s][p][k] = [id |-> x, qty |-> orders_[x].qty] /\ k \in 1 .. Len(Queues[s][p])
    BY <1>1
  <2>2. x \in Ids /\ x # taker_id /\ orders_[x].side = s /\ orders_[x].px = p /\ orders_[x].qty # 0
    BY <2>1, QueueFacts
  <2>3. QED
    BY <2>1, <2>2
<1>4. QED
  BY <1>1, <1>2, <1>3

LEMMA LadderTyped ==
  ASSUME IInv
  PROVE  /\ LadderBook \in BookOf(Ids) /\ LadderBook.q = RestingOrders
         /\ LadderBook.rem = remaining /\ OnePlace(RestingOrders)
<1>1. RestingOrders \in QueuesOf(Ids) /\ remaining \in 0 .. MaxQty
  BY LadderOrders DEF IInv, TypeOK
<1>2. OnePlace(RestingOrders)
  <2>1. SUFFICES ASSUME NEW r \in Side, NEW y \in Px, NEW j \in 1 .. Len(RestingOrders[r][y]),
                        NEW s \in Side, NEW p \in Px, NEW k \in 1 .. Len(RestingOrders[s][p]),
                        RestingOrders[r][y][j].id = RestingOrders[s][p][k].id
        PROVE  r = s /\ y = p /\ j = k
    BY DEF OnePlace
  <2>2. /\ RestingOrders[r][y][j].id = Queues[r][y][j] /\ orders_[Queues[r][y][j]].side = r
        /\ orders_[Queues[r][y][j]].px = y /\ j \in 1 .. Len(Queues[r][y])
    BY LadderOrders
  <2>3. /\ RestingOrders[s][p][k].id = Queues[s][p][k] /\ orders_[Queues[s][p][k]].side = s
        /\ orders_[Queues[s][p][k]].px = p /\ k \in 1 .. Len(Queues[s][p])
    BY LadderOrders, SMTT(30)
  <2>4. r = s /\ y = p
    BY <2>1, <2>2, <2>3
  <2>5. OneToOne(Queues[s][p])
    BY QueueFacts
  <2>6. QED
    BY <2>1, <2>2, <2>3, <2>4, <2>5 DEF OneToOne
<1>3. QED
  BY <1>1, <1>2 DEF LadderBook, BookOf

(* What a step of the ladder does to it: a call begins, ...                *)
LEMMA LadderSubmits ==
  ASSUME IInv, NEW side \in Side, NEW px \in Px, NEW qty \in 1 .. MaxQty,
         Limit(side, px, qty)
  PROVE  /\ RestingOrders' = RestingOrders /\ remaining' = qty
         /\ orders_'[taker_id'].side = side /\ orders_'[taker_id'].px = px
<1>1. RestingOrders' = RestingOrders
  BY LimitSubmits DEF Rules!Submit
<1>2. QED
  BY <1>1, LimitKeeps DEF Limit

(* ... goes on, ...                                                        *)
LEMMA LadderStutters ==
  ASSUME IInv, EnterLevel \/ LeaveLevel
  PROVE  /\ RestingOrders' = RestingOrders /\ remaining' = remaining
         /\ orders_' = orders_ /\ taker_id' = taker_id /\ pc # "idle" /\ pc' # "idle"
<1>1. RestingOrders' = RestingOrders
  BY MatchStutters DEF Rules!vars
<1>2. QED
  BY <1>1 DEF EnterLevel, LeaveLevel

(* ... fills an order, ...                                                 *)
LEMMA LadderTrades ==
  ASSUME NoWrap, QInv, TakeHead
  PROVE  LET side == orders_[taker_id].side
             px == orders_[taker_id].px
         IN /\ side \in Side /\ px \in Px
            /\ Meets(side, px, LadderBook, TakenPx)
            /\ LadderBook' = Traded(side, LadderBook, TakenPx)
            /\ [px |-> trade'.px, qty |-> trade'.qty] = Ticket(side, LadderBook, TakenPx)
            /\ taker_id' = taker_id /\ orders_'[taker_id].side = side
            /\ orders_'[taker_id].px = px /\ pc # "idle" /\ pc' # "idle"
<1> DEFINE side == orders_[taker_id].side
           px == orders_[taker_id].px
           t == [id |-> taker_id, side |-> side, px |-> px, qty |-> remaining]
<1>1. /\ IInv /\ pc = "take" /\ pc' = pc /\ taker_id' = taker_id /\ remaining' = remaining - Take
      /\ trade' = [maker |-> Maker, taker |-> taker_id, px |-> orders_[Maker].px, qty |-> Take]
  BY TakeHeadIs DEF QInv
<1>2. taker_id \in Ids /\ side \in Side /\ taker_id # kInvalidId
      /\ remaining \in 0 .. MaxQty
  BY <1>1, MakerIs DEF IInv, TypeOK, Control, Order
<1>3. px \in Px
  BY <1>1, <1>2 DEF IInv, Control
<1>4. Rules!Fill(TakenPx) /\ TakenPx \in Px
  BY TakeFills
<1>5. /\ Taking = << t >> /\ Taking' = << [id |-> taker_id, side |-> orders_'[taker_id].side,
                                        px |-> orders_'[taker_id].px, qty |-> remaining'] >>
  BY <1>1, <1>2 DEF Taking
<1> DEFINE other == Opposite(side)
           f == RestingOrders[other][TakenPx]
           qty == IF Head(f).qty <= remaining THEN Head(f).qty ELSE remaining
<1>6. Taking[1] = t /\ t.side = side /\ t.px = px /\ t.qty = remaining /\ t.id = taker_id
  BY <1>5
<1>7. /\ remaining > 0 /\ Rules!Best(other, TakenPx) /\ Rules!Crosses(side, px, TakenPx)
      /\ trade' = [maker |-> Head(f).id, taker |-> taker_id, px |-> TakenPx, qty |-> qty]
      /\ RestingOrders' = [RestingOrders EXCEPT ![other][TakenPx] = Rules!Without(@, qty)]
      /\ Taking' = [Taking EXCEPT ![1].qty = @ - qty]
  BY <1>4, <1>6 DEF Rules!Fill, Rules!Opposite, Opposite
<1>8. /\ remaining' = remaining - qty
      /\ orders_'[taker_id].side = side /\ orders_'[taker_id].px = px
  <2> HIDE DEF qty, side, px
  <2>1. [Taking EXCEPT ![1].qty = @ - qty]
          = << [id |-> taker_id, side |-> side, px |-> px, qty |-> remaining - qty] >>
    BY <1>5
  <2>2. [id |-> taker_id, side |-> orders_'[taker_id].side,
         px |-> orders_'[taker_id].px, qty |-> remaining']
          = [id |-> taker_id, side |-> side, px |-> px, qty |-> remaining - qty]
    BY <1>5, <1>7, <2>1
  <2>3. QED
    BY <2>2
<1>9. qty = TakeFrom(f, remaining)
  BY DEF TakeFrom
<1>10. RestingOrders' = WithQueue(RestingOrders, other, TakenPx, Smaller(f, qty))
  <2>1. Rules!Without(f, qty) = Smaller(f, qty)
    BY DEF Rules!Without, Smaller
  <2> HIDE DEF qty, other
  <2>2. RestingOrders' = [RestingOrders EXCEPT ![other][TakenPx] = Rules!Without(f, qty)]
    BY <1>7
  <2>3. QED
    BY <2>1, <2>2 DEF WithQueue
<1>11. LadderBook' = Traded(side, LadderBook, TakenPx)
  <2>1. LadderBook' = [q |-> RestingOrders', rem |-> remaining']
    BY DEF LadderBook
  <2>2. LadderBook.q = RestingOrders /\ LadderBook.rem = remaining
    BY DEF LadderBook
  <2> HIDE DEF qty, side, px
  <2>3. Traded(side, LadderBook, TakenPx)
          = [q |-> WithQueue(RestingOrders, other, TakenPx, Smaller(f, qty)), rem |-> remaining - qty]
    BY <1>9, <2>2 DEF Traded
  <2>4. QED
    BY <1>8, <1>10, <2>1, <2>3
<1>12. Ticket(side, LadderBook, TakenPx) = [px |-> TakenPx, qty |-> qty]
  BY <1>9 DEF Ticket, LadderBook
<1>13. Meets(side, px, LadderBook, TakenPx)
  <2>1. BestIn(RestingOrders, other, TakenPx)
    BY <1>4, <1>7 DEF Rules!Best, Rules!Occupied, Rules!Px, Px, BestIn, NoBetter
  <2>2. NoBetter(side, TakenPx, px)
    BY <1>7 DEF Rules!Crosses, NoBetter
  <2>3. LadderBook.q = RestingOrders /\ LadderBook.rem = remaining
    BY DEF LadderBook
  <2>4. remaining # 0
    BY <1>2, <1>7
  <2>5. QED
    BY <2>1, <2>2, <2>3, <2>4 DEF Meets
<1>14. [px |-> trade'.px, qty |-> trade'.qty] = [px |-> TakenPx, qty |-> qty]
  BY <1>7
<1>15. QED
  BY <1>1, <1>2, <1>3, <1>8, <1>11, <1>12, <1>13, <1>14
-----------------------------------------------------------------------------
(* ... returns, having nothing to trade with, ...                          *)
AfterRest(q, s, p, id, t) == IF t = 0 THEN q ELSE Joined(q, s, p, id, t)

LEMMA FinishIsDone ==
  ASSUME NEW q, NEW side \in Side, NEW px, NEW t,
         t # 0 => \A p \in Px : q[Opposite(side)][p] # << >> => ~ NoBetter(side, p, px)
  PROVE  Done(side, px, [q |-> q, rem |-> t])
<1> DEFINE a == [q |-> q, rem |-> t]
<1>1. a.q = q /\ a.rem = t
  OBVIOUS
<1> HIDE DEF a
<1>2. ASSUME NEW p \in Px, Meets(side, px, a, p)
      PROVE  FALSE
  BY <1>1, <1>2 DEF Meets, BestIn
<1>3. Done(side, px, a)
  BY <1>2 DEF Done
<1>4. QED
  BY <1>3 DEF a

LEMMA LadderReturnsIs ==
  ASSUME NoWrap, QInv, EndLimit
  PROVE  LET side == orders_[taker_id].side
             px == orders_[taker_id].px
         IN /\ side \in Side /\ px \in Px /\ taker_id \in Ids /\ remaining \in 0 .. MaxQty
            /\ Done(side, px, LadderBook)
            /\ RestingOrders' = AfterRest(RestingOrders, side, px, taker_id, remaining)
            /\ pc # "idle" /\ pc' = "idle"
<1> DEFINE side == orders_[taker_id].side
           px == orders_[taker_id].px
           t == [id |-> taker_id, side |-> side, px |-> px, qty |-> remaining]
<1>1. /\ IInv /\ pc = "match" /\ pc' = "idle"
  BY DEF QInv, EndLimit
<1>2. /\ taker_id \in Ids /\ side \in Side /\ px \in Px /\ taker_id # kInvalidId
  BY <1>1, EndKeeps, LobAssumption DEF Ids, kInvalidId
<1>3. remaining \in 0 .. MaxQty
  BY <1>1 DEF IInv, TypeOK
<1>4. Rules!Finish
  BY EndFinishes
<1>5. Taking = << t >> /\ Taking # << >> /\ Taking[1] = t
  BY <1>2 DEF Taking
<1>6. t.id = taker_id /\ t.side = side /\ t.px = px /\ t.qty = remaining
  OBVIOUS
<1> HIDE DEF t, side, px
<1>7. IF remaining = 0 THEN RestingOrders' = RestingOrders
      ELSE /\ \A p \in Rules!Occupied(Rules!Opposite(side)) : ~ Rules!Crosses(side, px, p)
           /\ RestingOrders' = [RestingOrders EXCEPT
                ![side][px] = Append(@, [id |-> taker_id, qty |-> remaining])]
  BY <1>4, <1>5, <1>6 DEF Rules!Finish
<1>8. RestingOrders' = AfterRest(RestingOrders, side, px, taker_id, remaining)
  <2>1. CASE remaining = 0
    BY <1>7, <2>1 DEF AfterRest
  <2>2. CASE remaining # 0
    BY <1>7, <2>2 DEF AfterRest, Joined, WithQueue
  <2>3. QED
    BY <2>1, <2>2
<1>9. Done(side, px, LadderBook)
  <2>1. Rules!Opposite(side) = Opposite(side)
    BY DEF Rules!Opposite, Opposite
  <2>2. ASSUME remaining # 0, NEW p \in Px, RestingOrders[Opposite(side)][p] # << >>
        PROVE  ~ NoBetter(side, p, px)
    <3>1. p \in Rules!Occupied(Rules!Opposite(side))
      BY <2>1, <2>2 DEF Rules!Occupied, Rules!Px, Px
    <3>2. ~ Rules!Crosses(side, px, p)
      BY <1>7, <2>2, <3>1
    <3>3. QED
      BY <3>2 DEF Rules!Crosses, NoBetter
  <2>3. QED
    BY <1>2, <2>2, FinishIsDone DEF LadderBook
<1>10. QED
  BY <1>1, <1>2, <1>3, <1>8, <1>9 DEF side, px

(* ... or loses an order.                                                  *)
LEMMA LadderCancels ==
  ASSUME IInv, NEW id \in Ids, Cancel(id)
  PROVE  \E s \in Side, p \in Px : \E k \in 1 .. Len(RestingOrders[s][p]) :
           /\ RestingOrders[s][p][k].id = id
           /\ RestingOrders' = Gone(RestingOrders, s, p, k)
<1>1. PICK s \in Side, p \in Px : \E k \in 1 .. Len(RestingOrders[s][p]) :
           /\ RestingOrders[s][p][k].id = id
           /\ Rules!Cancel(s, p, k)
  BY CancelPlace
<1>2. PICK k \in 1 .. Len(RestingOrders[s][p]) : /\ RestingOrders[s][p][k].id = id
                                                 /\ Rules!Cancel(s, p, k)
  BY <1>1
<1>3. RestingOrders' = Gone(RestingOrders, s, p, k)
  BY <1>2 DEF Rules!Cancel, Gone, WithQueue, CutOut
<1>4. QED
  BY <1>2, <1>3

(* An id rests on the ladder if its slot has a quantity.                   *)
LEMMA LadderRests ==
  ASSUME IInv, pc = "idle", NEW id \in Ids
  PROVE  /\ (\E s \in Side, p \in Px : \E k \in 1 .. Len(RestingOrders[s][p]) :
                RestingOrders[s][p][k].id = id) <=> orders_[id].qty # 0
<1>1. ASSUME orders_[id].qty # 0
      PROVE  \E s \in Side, p \in Px : \E k \in 1 .. Len(RestingOrders[s][p]) :
                RestingOrders[s][p][k].id = id
  <2>1. Placed(Queues, orders_, free_, taker_id) /\ taker_id = 0
    BY DEF IInv, Control, kInvalidId
  <2>2. ~ \E k \in 1 .. Len(free_) : free_[k] = id
    BY <1>1, <2>1 DEF Placed
  <2>3. id # 0
    BY LobAssumption DEF Ids
  <2>4. PICK s \in Side, p \in Px : \E k \in 1 .. Len(Queues[s][p]) : Queues[s][p][k] = id
    BY <2>1, <2>2, <2>3 DEF Placed
  <2>5. PICK k \in 1 .. Len(Queues[s][p]) : Queues[s][p][k] = id
    BY <2>4
  <2>6. k \in 1 .. Len(RestingOrders[s][p]) /\ RestingOrders[s][p][k].id = id
    BY <2>5, LadderOrders
  <2>7. QED
    BY <2>6
<1>2. ASSUME NEW s \in Side, NEW p \in Px, NEW k \in 1 .. Len(RestingOrders[s][p]),
             RestingOrders[s][p][k].id = id
      PROVE  orders_[id].qty # 0
  BY <1>2, LadderOrders
<1>3. QED
  BY <1>1, <1>2
-----------------------------------------------------------------------------
(* The tree as such a book.  Its orders, and where they are.               *)
TreeBook == [q |-> StlOrders, rem |-> stlRemaining]

IsAt(i, s, p) == \E k \in 1 .. Len(StlOrders[s][p]) : StlOrders[s][p][k].id = i

LEMMA TreeOrders ==
  ASSUME StlParts
  PROVE  /\ StlOrders \in QueuesOf(StlIds)
         /\ \A s \in Side, p \in Px : \A k \in 1 .. Len(StlOrders[s][p]) :
              LET i == StlOrders[s][p][k].id
              IN /\ i \in DOMAIN recs /\ recs[i].side = s /\ recs[i].px = p
                 /\ recs[i].qty = StlOrders[s][p][k].qty
         /\ \A i \in DOMAIN recs : /\ recs[i].side \in Side /\ recs[i].px \in Px
                                   /\ IsAt(i, recs[i].side, recs[i].px)
<1>1. MapsHold(maps, recs)
  BY DEF StlParts
<1>2. ASSUME NEW s \in Side, NEW p \in Px
      PROVE  /\ StlOrders[s][p] \in Seq(EntryOf(StlIds))
             /\ Len(StlOrders[s][p]) = Len(FifoAt(maps, s, p))
             /\ \A k \in 1 .. Len(StlOrders[s][p]) :
                  LET i == FifoAt(maps, s, p)[k]
                  IN /\ StlOrders[s][p][k] = [id |-> i, qty |-> recs[i].qty]
                     /\ i \in DOMAIN recs /\ recs[i].px = p /\ recs[i].side = s
  <2> DEFINE f == FifoAt(maps, s, p)
             R == OrdersAt(maps, recs, s, p)
  <2>1. StlOrders[s][p] = R
    BY StlOrdersAre
  <2>2. /\ Len(R) = Len(f) /\ R \in Seq(EntryOf(StlIds))
        /\ \A k \in 1 .. Len(f) : R[k] = [id |-> f[k], qty |-> recs[f[k]].qty]
    BY <1>1, OrdersAtIs
  <2>3. \A k \in 1 .. Len(f) : /\ f[k] \in DOMAIN recs
                               /\ recs[f[k]].px = p /\ recs[f[k]].side = s
    BY <1>1, FifoFacts
  <2> HIDE DEF f, R
  <2>4. QED
    BY <2>1, <2>2, <2>3 DEF f
<1>3. StlOrders \in QueuesOf(StlIds)
  <2>1. StlOrders = [s \in Side |-> [p \in Px |-> StlOrders[s][p]]]
    BY StlOrdersAre
  <2>2. \A s \in Side, p \in Px : StlOrders[s][p] \in Seq(EntryOf(StlIds))
    BY <1>2
  <2>3. QED
    BY <2>1, <2>2 DEF QueuesOf
<1>4. ASSUME NEW s \in Side, NEW p \in Px, NEW k \in 1 .. Len(StlOrders[s][p])
      PROVE  LET i == StlOrders[s][p][k].id
             IN /\ i \in DOMAIN recs /\ recs[i].side = s /\ recs[i].px = p
                /\ recs[i].qty = StlOrders[s][p][k].qty
  <2> DEFINE j == FifoAt(maps, s, p)[k]
  <2>1. /\ StlOrders[s][p][k] = [id |-> j, qty |-> recs[j].qty]
        /\ j \in DOMAIN recs /\ recs[j].px = p /\ recs[j].side = s
    BY <1>2
  <2> HIDE DEF j
  <2>2. QED
    BY <2>1
<1>5. ASSUME NEW i \in DOMAIN recs
      PROVE  /\ recs[i].side \in Side /\ recs[i].px \in Px
             /\ IsAt(i, recs[i].side, recs[i].px)
  <2> DEFINE s == recs[i].side
             p == recs[i].px
  <2>1. s \in Side /\ p \in Px /\ IsQueued(maps, recs[i], i)
    BY <1>1, HoldsRecord
  <2>2. PICK k \in 1 .. Len(FifoAt(maps, s, p)) : FifoAt(maps, s, p)[k] = i
    BY <2>1 DEF IsQueued, Within
  <2> HIDE DEF s, p
  <2>3. k \in 1 .. Len(StlOrders[s][p])
    BY <1>2, <2>1, <2>2
  <2>4. StlOrders[s][p][k] = [id |-> i, qty |-> recs[i].qty]
    BY <1>2, <2>1, <2>2, <2>3
  <2>5. StlOrders[s][p][k].id = i
    BY <2>4
  <2>6. IsAt(i, s, p)
    BY <2>3, <2>5 DEF IsAt
  <2>7. QED
    BY <2>1, <2>6 DEF s, p
<1>6. QED
  BY <1>3, <1>4, <1>5

LEMMA TreeTyped ==
  ASSUME StlParts
  PROVE  /\ TreeBook \in BookOf(StlIds) /\ TreeBook.q = StlOrders
         /\ TreeBook.rem = stlRemaining
<1>1. StlOrders \in QueuesOf(StlIds) /\ stlRemaining \in 0 .. MaxQty
  BY TreeOrders DEF StlParts, StlRegs
<1>2. QED
  BY <1>1 DEF TreeBook, BookOf

(* What a step of the tree does to it: a call begins, ...                  *)
LEMMA TreeSubmits ==
  ASSUME StlParts, NEW side \in Side, NEW px \in Px, NEW qty \in 1 .. MaxQty,
         StlLimit(side, px, qty)
  PROVE  /\ StlOrders' = StlOrders /\ stlRemaining' = qty /\ TreeBook'.rem = qty
         /\ TreeBook'.q = StlOrders
         /\ taker'.id = next_id_ /\ taker'.side = side /\ taker'.px = px
         /\ next_id_ \in StlIds /\ next_id_' = next_id_ + 1 /\ stlPc' # "idle"
<1>1. StlRules!Submit(next_id_, side, px, qty) /\ next_id_ \in StlIds
  BY StlLimitSubmits
<1>2. StlOrders' = StlOrders
  BY <1>1 DEF StlRules!Submit
<1>3. /\ stlRemaining' = qty /\ next_id_' = next_id_ + 1 /\ stlPc' = "match"
      /\ taker' = [id |-> next_id_, px |-> px, side |-> side]
  BY DEF StlLimit
<1>4. QED
  BY <1>1, <1>2, <1>3 DEF TreeBook

(* ... goes on, ...                                                        *)
LEMMA TreeStutters ==
  ASSUME StlParts, StlEnterLevel \/ StlLeaveLevel
  PROVE  /\ TreeBook' = TreeBook /\ taker' = taker /\ next_id_' = next_id_
         /\ stlPc # "idle" /\ stlPc' # "idle"
<1>1. StlOrders' = StlOrders
  BY StlMatchStutters DEF StlRules!vars
<1>2. QED
  BY <1>1 DEF StlEnterLevel, StlLeaveLevel, TreeBook

(* ... fills an order, ...                                                 *)
LEMMA TreeTrades ==
  ASSUME StlParts, TakeFront
  PROVE  /\ Meets(taker.side, taker.px, TreeBook, TreePx)
         /\ TreeBook' = Traded(taker.side, TreeBook, TreePx)
         /\ [px |-> stlTrade'.px, qty |-> stlTrade'.qty] = Ticket(taker.side, TreeBook, TreePx)
         /\ taker' = taker /\ next_id_' = next_id_ /\ stlPc # "idle" /\ stlPc' # "idle"
<1> DEFINE side == taker.side
           px == taker.px
           t == [id |-> taker.id, side |-> side, px |-> px, qty |-> stlRemaining]
           other == Opposite(side)
           f == StlOrders[other][TreePx]
           qty == IF Head(f).qty <= stlRemaining THEN Head(f).qty ELSE stlRemaining
<1>1. /\ stlPc = "take" /\ stlPc' = "take" /\ taker' = taker /\ next_id_' = next_id_
      /\ stlTrade' = [maker |-> TreeMaker, taker |-> taker.id, px |-> TreePx, qty |-> TreeTake]
      /\ stlRemaining' = stlRemaining - TreeTake /\ stlRemaining \in 1 .. MaxQty
  BY TakeFrontDoes
<1>2. StlRules!Fill(TreePx) /\ TreePx \in Px
  BY StlTakeFills
<1>3. /\ StlTaking = << t >>
      /\ StlTaking' = << [id |-> taker.id, side |-> side, px |-> px, qty |-> stlRemaining'] >>
  BY <1>1, StlTakingIs
<1>4. StlTaking[1] = t /\ t.side = side /\ t.px = px /\ t.qty = stlRemaining /\ t.id = taker.id
  BY <1>3
<1>5. /\ StlRules!Best(other, TreePx) /\ StlRules!Crosses(side, px, TreePx)
      /\ stlTrade' = [maker |-> Head(f).id, taker |-> taker.id, px |-> TreePx, qty |-> qty]
      /\ StlOrders' = [StlOrders EXCEPT ![other][TreePx] = StlRules!Without(@, qty)]
  BY <1>2, <1>4 DEF StlRules!Fill, StlRules!Opposite, Opposite
<1>6. TreeTake = qty
  <2> HIDE DEF qty
  <2>1. [maker |-> TreeMaker, taker |-> taker.id, px |-> TreePx, qty |-> TreeTake].qty
          = [maker |-> Head(f).id, taker |-> taker.id, px |-> TreePx, qty |-> qty].qty
    BY <1>1, <1>5
  <2>2. QED
    BY <2>1
<1>7. qty = TakeFrom(f, stlRemaining)
  BY DEF TakeFrom
<1>8. StlOrders' = WithQueue(StlOrders, other, TreePx, Smaller(f, qty))
  <2>1. StlRules!Without(f, qty) = Smaller(f, qty)
    BY DEF StlRules!Without, Smaller
  <2> HIDE DEF qty, other
  <2>2. StlOrders' = [StlOrders EXCEPT ![other][TreePx] = StlRules!Without(f, qty)]
    BY <1>5
  <2>3. QED
    BY <2>1, <2>2 DEF WithQueue
<1>9. TreeBook' = Traded(side, TreeBook, TreePx)
  <2>1. TreeBook' = [q |-> StlOrders', rem |-> stlRemaining']
    BY DEF TreeBook
  <2>2. TreeBook.q = StlOrders /\ TreeBook.rem = stlRemaining
    BY DEF TreeBook
  <2> HIDE DEF qty, side, px
  <2>3. Traded(side, TreeBook, TreePx)
          = [q |-> WithQueue(StlOrders, other, TreePx, Smaller(f, qty)), rem |-> stlRemaining - qty]
    BY <1>7, <2>2 DEF Traded
  <2>4. QED
    BY <1>1, <1>6, <1>8, <2>1, <2>3
<1>10. Ticket(side, TreeBook, TreePx) = [px |-> TreePx, qty |-> qty]
  BY <1>7 DEF Ticket, TreeBook
<1>11. Meets(side, px, TreeBook, TreePx)
  <2>1. BestIn(StlOrders, other, TreePx)
    BY <1>2, <1>5 DEF StlRules!Best, StlRules!Occupied, StlRules!Px, Px, BestIn, NoBetter
  <2>2. NoBetter(side, TreePx, px)
    BY <1>5 DEF StlRules!Crosses, NoBetter
  <2>3. TreeBook.q = StlOrders /\ TreeBook.rem = stlRemaining
    BY DEF TreeBook
  <2>4. stlRemaining # 0
    BY <1>1
  <2>5. QED
    BY <2>1, <2>2, <2>3, <2>4 DEF Meets
<1>12. stlTrade'.px = TreePx /\ stlTrade'.qty = qty
  BY <1>1, <1>6
<1>13. QED
  BY <1>1, <1>9, <1>10, <1>11, <1>12

(* ... has nothing to trade with, ...                                      *)
LEMMA TreeDone ==
  ASSUME StlParts, stlPc # "idle", ~ StlCrossing
  PROVE  Done(taker.side, taker.px, TreeBook)
<1>1. taker.side \in Side
  BY TakerTyped
<1>2. ASSUME stlRemaining # 0, NEW p \in Px, StlOrders[Opposite(taker.side)][p] # << >>
      PROVE  ~ NoBetter(taker.side, p, taker.px)
  <2>1. p \in StlRules!Occupied(Opposite(taker.side))
    BY <1>2 DEF StlRules!Occupied, StlRules!Px, Px
  <2>2. ~ StlRules!Crosses(taker.side, taker.px, p)
    BY <1>2, <2>1, TreeUncrossed
  <2>3. QED
    BY <2>2 DEF StlRules!Crosses, NoBetter
<1>3. QED
  BY <1>1, <1>2, FinishIsDone DEF TreeBook

(* ... returns, ...                                                        *)
LEMMA TreeReturnsIs ==
  ASSUME StlParts, StlEndLimit
  PROVE  /\ stlPc # "idle" /\ ~ StlCrossing /\ stlPc' = "idle" /\ next_id_' = next_id_
         /\ taker.side \in Side /\ taker.px \in Px /\ taker.id \in StlIds
         /\ StlOrders' = AfterRest(StlOrders, taker.side, taker.px, taker.id, stlRemaining)
<1> DEFINE t == [id |-> taker.id, side |-> taker.side, px |-> taker.px, qty |-> stlRemaining]
<1>1. /\ stlPc = "match" /\ ~ StlCrossing /\ stlPc' = "idle" /\ next_id_' = next_id_
  BY DEF StlEndLimit
<1>2. taker.side \in Side /\ taker.px \in Px /\ taker.id \in StlIds
  BY <1>1, TakerTyped
<1>3. StlTaking = << t >> /\ StlTaking[1] = t
  BY <1>1, StlTakingIs
<1>4. t.id = taker.id /\ t.side = taker.side /\ t.px = taker.px /\ t.qty = stlRemaining
  OBVIOUS
<1> HIDE DEF t
<1>5. StlRules!Finish
  BY StlEndFinishes
<1>6. IF stlRemaining = 0 THEN StlOrders' = StlOrders
      ELSE StlOrders' = [StlOrders EXCEPT
             ![taker.side][taker.px] = Append(@, [id |-> taker.id, qty |-> stlRemaining])]
  BY <1>3, <1>4, <1>5 DEF StlRules!Finish
<1>7. StlOrders' = AfterRest(StlOrders, taker.side, taker.px, taker.id, stlRemaining)
  <2>1. CASE stlRemaining = 0
    BY <1>6, <2>1 DEF AfterRest
  <2>2. CASE stlRemaining # 0
    BY <1>6, <2>2 DEF AfterRest, Joined, WithQueue
  <2>3. QED
    BY <2>1, <2>2
<1>8. QED
  BY <1>1, <1>2, <1>7

(* ... or loses an order.                                                  *)
LEMMA TreeCancels ==
  ASSUME StlParts, NEW id, StlCancel(id)
  PROVE  /\ next_id_' = next_id_
         /\ \E s \in Side, p \in Px : \E k \in 1 .. Len(StlOrders[s][p]) :
              /\ StlOrders[s][p][k].id = id
              /\ StlOrders' = Gone(StlOrders, s, p, k)
<1>1. PICK s \in Side, p \in Px : \E k \in 1 .. Len(StlOrders[s][p]) :
           StlOrders[s][p][k].id = id /\ StlRules!Cancel(s, p, k)
  BY StlCancelPlace
<1>2. PICK k \in 1 .. Len(StlOrders[s][p]) :
           StlOrders[s][p][k].id = id /\ StlRules!Cancel(s, p, k)
  BY <1>1
<1>3. StlOrders' = Gone(StlOrders, s, p, k)
  BY <1>2 DEF StlRules!Cancel, Gone, WithQueue, CutOut
<1>4. next_id_' = next_id_
  BY DEF StlCancel
<1>5. QED
  BY <1>2, <1>3, <1>4
-----------------------------------------------------------------------------
(* The caller of both books.  The ids on its stacks are ids of the books,  *)
(* so that what it does are calls of each of them.                         *)
StackTypes == live_l \in Seq(Ids) /\ live_s \in Seq(StlIds)

LEMMA CutTyped ==
  ASSUME NEW I, NEW f \in Seq(I), NEW k \in 1 .. Len(f)
  PROVE  CutOut(f, k) \in Seq(I) /\ f[k] \in I
BY CutIsDrop, AnyDrop

(* What a call of cancel on both does to the stacks: an entry leaves each. *)
LEMMA CancelLastIs ==
  ASSUME StackTypes, CancelLast
  PROVE  LET l == Len(live_l)
             s == Len(live_s)
         IN /\ l \in 1 .. Len(live_l) /\ s \in 1 .. Len(live_s)
            /\ CancelBoth(live_l[l], live_s[s])
            /\ live_l' = CutOut(live_l, l) /\ live_s' = CutOut(live_s, s)
<1>1. live_l \in Seq(Ids) /\ live_s \in Seq(StlIds)
  BY DEF StackTypes
<1>2. /\ Len(live_l) > 0 /\ Len(live_s) > 0
      /\ CancelBoth(live_l[Len(live_l)], live_s[Len(live_s)])
      /\ live_l' = SubSeq(live_l, 1, Len(live_l) - 1)
      /\ live_s' = SubSeq(live_s, 1, Len(live_s) - 1)
  BY DEF CancelLast
<1>3. live_l' = CutOut(live_l, Len(live_l)) /\ Len(live_l) \in 1 .. Len(live_l)
  BY <1>1, <1>2, PopIsCut
<1>4. live_s' = CutOut(live_s, Len(live_s)) /\ Len(live_s) \in 1 .. Len(live_s)
  BY <1>1, <1>2, PopIsCut
<1>5. QED
  BY <1>2, <1>3, <1>4

LEMMA CancelRestingIs ==
  ASSUME StackTypes, CancelResting
  PROVE  \E k \in 1 .. Len(live_l) :
           /\ k \in 1 .. Len(live_s) /\ live_s[k] \in DOMAIN recs
           /\ CancelBoth(live_l[k], live_s[k])
           /\ live_l' = CutOut(live_l, k) /\ live_s' = CutOut(live_s, k)
<1>1. DOMAIN live_l = 1 .. Len(live_l) /\ DOMAIN live_s = 1 .. Len(live_s)
  BY DEF StackTypes
<1>2. PICK k \in DOMAIN live_l \cap DOMAIN live_s :
        /\ live_s[k] \in DOMAIN recs
        /\ CancelBoth(live_l[k], live_s[k])
        /\ live_l' = SubSeq(live_l, 1, k - 1) \o SubSeq(live_l, k + 1, Len(live_l))
        /\ live_s' = SubSeq(live_s, 1, k - 1) \o SubSeq(live_s, k + 1, Len(live_s))
  BY DEF CancelResting
<1>3. k \in 1 .. Len(live_l) /\ k \in 1 .. Len(live_s)
  BY <1>1
<1>4. live_l' = CutOut(live_l, k) /\ live_s' = CutOut(live_s, k)
  BY <1>2 DEF CutOut
<1>5. QED
  BY <1>2, <1>3, <1>4

LEMMA CancelCalls ==
  ASSUME NEW x \in Ids, NEW i \in StlIds, CancelBoth(x, i)
  PROVE  [Next]_vars /\ [StlNext]_stlVars /\ Between /\ el' = el /\ es' = es
<1>1. Cancel(x) \/ UNCHANGED vars
  BY DEF CancelBoth
<1>2. StlCancel(i) \/ UNCHANGED stlVars
  BY DEF CancelBoth
<1>3. Between /\ el' = el /\ es' = es
  BY DEF CancelBoth
<1>4. QED
  BY <1>1, <1>2, <1>3 DEF Next, StlNext

(* What the caller does, in terms of the books and of its stacks.          *)
LEMMA CallerSteps ==
  ASSUME StackTypes, IInv, StlParts, [BothNext]_bothVars
  PROVE  [Next]_vars /\ [StlNext]_stlVars /\ StackTypes'
<1>0. live_l \in Seq(Ids) /\ live_s \in Seq(StlIds)
  BY DEF StackTypes
<1>1. ASSUME NEW side \in Side, NEW px \in Px, NEW qty \in 1 .. MaxQty,
             Submit(side, px, qty)
      PROVE  [Next]_vars /\ [StlNext]_stlVars /\ StackTypes'
  <2>1. Limit(side, px, qty) /\ StlLimit(side, px, qty) /\ live_l' = live_l /\ live_s' = live_s
    BY <1>1 DEF Submit, caller
  <2>2. Next /\ StlNext
    BY <2>1 DEF Next, StlNext
  <2>3. QED
    BY <1>0, <2>1, <2>2 DEF StackTypes
<1>2. CASE LadderMatches
  <2>1. (EnterLevel \/ LeaveLevel \/ TakeHead) /\ UNCHANGED stlVars
        /\ live_l' = live_l /\ live_s' = live_s
    BY <1>2 DEF LadderMatches, caller
  <2>2. Next
    BY <2>1 DEF Next
  <2>3. QED
    BY <1>0, <2>1, <2>2 DEF StackTypes
<1>3. CASE LadderReturns
  <2>1. /\ EndLimit /\ UNCHANGED stlVars /\ live_s' = live_s
        /\ live_l' = IF remaining = 0 THEN live_l ELSE Append(live_l, taker_id)
    BY <1>3 DEF LadderReturns
  <2>2. taker_id \in Ids
    BY <2>1, EndKeeps
  <2>3. live_l' \in Seq(Ids)
    BY <1>0, <2>1, <2>2
  <2>4. Next
    BY <2>1 DEF Next
  <2>5. QED
    BY <1>0, <2>1, <2>3, <2>4 DEF StackTypes
<1>4. CASE TreeMatches
  <2>1. (StlEnterLevel \/ StlLeaveLevel \/ TakeFront) /\ UNCHANGED vars
        /\ live_l' = live_l /\ live_s' = live_s
    BY <1>4 DEF TreeMatches, caller
  <2>2. StlNext
    BY <2>1 DEF StlNext
  <2>3. QED
    BY <1>0, <2>1, <2>2 DEF StackTypes
<1>5. CASE TreeReturns
  <2>1. /\ StlEndLimit /\ UNCHANGED vars /\ live_l' = live_l
        /\ live_s' = IF stlRemaining = 0 THEN live_s ELSE Append(live_s, taker.id)
    BY <1>5 DEF TreeReturns
  <2>2. taker.id \in StlIds
    BY <2>1, TreeReturnsIs
  <2>3. live_s' \in Seq(StlIds)
    BY <1>0, <2>1, <2>2
  <2>4. StlNext
    BY <2>1 DEF StlNext
  <2>5. QED
    BY <1>0, <2>1, <2>3, <2>4 DEF StackTypes
<1>6. CASE CancelLast
  <2> DEFINE l == Len(live_l)
             s == Len(live_s)
  <2>1. /\ l \in 1 .. Len(live_l) /\ s \in 1 .. Len(live_s)
        /\ CancelBoth(live_l[l], live_s[s])
        /\ live_l' = CutOut(live_l, l) /\ live_s' = CutOut(live_s, s)
    BY <1>6, CancelLastIs
  <2> HIDE DEF l, s
  <2>2. live_l' \in Seq(Ids) /\ live_l[l] \in Ids
    BY <1>0, <2>1, CutTyped
  <2>3. live_s' \in Seq(StlIds) /\ live_s[s] \in StlIds
    BY <1>0, <2>1, CutTyped
  <2>4. QED
    BY <2>1, <2>2, <2>3, CancelCalls DEF StackTypes
<1>7. CASE CancelResting
  <2>1. PICK k \in 1 .. Len(live_l) :
           /\ k \in 1 .. Len(live_s)
           /\ CancelBoth(live_l[k], live_s[k])
           /\ live_l' = CutOut(live_l, k) /\ live_s' = CutOut(live_s, k)
    BY <1>7, CancelRestingIs
  <2>2. live_l' \in Seq(Ids) /\ live_l[k] \in Ids
    BY <1>0, <2>1, CutTyped
  <2>3. live_s' \in Seq(StlIds) /\ live_s[k] \in StlIds
    BY <1>0, <2>1, CutTyped
  <2>4. QED
    BY <2>1, <2>2, <2>3, CancelCalls DEF StackTypes
<1>8. CASE UNCHANGED bothVars
  BY <1>0, <1>8 DEF StackTypes, bothVars, caller
<1>9. CASE TapeEnds
  BY <1>8, <1>9 DEF TapeEnds
<1>10. QED
  BY <1>1, <1>2, <1>3, <1>4, <1>5, <1>6, <1>7, <1>8, <1>9 DEF BothNext

(* Each book by itself does what it does alone.                            *)
LEMMA BothTyped == BothSpec => Spec /\ StlSpec /\ []StackTypes
<1> DEFINE I == StackTypes /\ IInv /\ StlParts
<1>1. BothInit => I
  BY InitHolds, InitParts DEF BothInit, StackTypes
<1>2. I /\ [BothNext]_bothVars => I' /\ [Next]_vars /\ [StlNext]_stlVars
  <2>1. IInv /\ [Next]_vars => IInv'
    BY BookKeeps
  <2>2. QED
    BY <2>1, CallerSteps, StlKeeps
<1>3. BothInit => Init /\ StlInit
  BY DEF BothInit
<1>4. I => StackTypes
  OBVIOUS
<1> HIDE DEF I
<1>5. QED
  BY <1>1, <1>2, <1>3, <1>4, PTL DEF BothSpec, Spec, StlSpec
-----------------------------------------------------------------------------
(* The two books coupled.  During a call the ladder is ahead of the tree:  *)
(* C is the course of the tree's book from what it is now, by the trades   *)
(* that the ladder has made and the tree has yet to make.                  *)
Courses == [Nat -> BookOf(StlIds)]

Printed == [px : Px, qty : 1 .. MaxQty]

StartsWith(f, g) == Len(g) <= Len(f) /\ \A k \in 1 .. Len(g) : f[k] = g[k]

CourseFrom(C, b, side, px, done, all) ==
  /\ C[Len(done)] = b
  /\ \A i \in Len(done) + 1 .. Len(all) : Trades(side, px, C[i - 1], C[i], all[i])

IsCourse(C, b, side, px, done, all) ==
  /\ C \in Courses /\ all \in Seq(Printed) /\ done \in Seq(Printed) /\ StartsWith(all, done)
  /\ CourseFrom(C, b, side, px, done, all)

(* At its end, a, the tree will be where the ladder is: matching, ...      *)
Matching(a) ==
  /\ orders_[taker_id].side = taker.side /\ orders_[taker_id].px = taker.px
  /\ remaining = a.rem
  /\ Tied(RestingOrders, a.q, live_l, live_s)

(* ... or with no order that the taker could still trade with.             *)
Matched(a) ==
  /\ Done(taker.side, taker.px, a)
  /\ Tied(RestingOrders, AfterRest(a.q, taker.side, taker.px, taker.id, a.rem), live_l,
          IF a.rem = 0 THEN live_s ELSE Append(live_s, taker.id))

Ahead(C) ==
  /\ IsCourse(C, TreeBook, taker.side, taker.px, es, el)
  /\ IF pc = "idle" THEN Matched(C[Len(el)]) ELSE Matching(C[Len(el)])

(* The ids in f are below n. *)
Below(f, n) == \A k \in 1 .. Len(f) : f[k] < n

Coupled ==
  /\ Below(live_s, next_id_)
  /\ IF stlPc = "idle"
     THEN pc = "idle" /\ el = << >> /\ es = << >> /\ Tied(RestingOrders, StlOrders, live_l, live_s)
     ELSE Below(live_s, taker.id) /\ \E C \in Courses : Ahead(C)

Facts == StackTypes /\ QInv /\ IInv /\ StlParts

(* The book that a step does not touch.                                    *)
LEMMA LadderKept ==
  ASSUME UNCHANGED vars
  PROVE  /\ RestingOrders' = RestingOrders /\ remaining' = remaining /\ pc' = pc
         /\ orders_' = orders_ /\ taker_id' = taker_id
<1>1. orders_' = orders_ /\ levels' = levels /\ remaining' = remaining /\ pc' = pc /\ taker_id' = taker_id
  BY DEF vars
<1>2. RestingOrders' = RestingOrders
  BY <1>1 DEF RestingOrders, Fifo
<1>3. QED
  BY <1>1, <1>2

LEMMA TreeKept ==
  ASSUME UNCHANGED stlVars
  PROVE  /\ TreeBook' = TreeBook /\ StlOrders' = StlOrders /\ taker' = taker
         /\ next_id_' = next_id_ /\ stlPc' = stlPc /\ stlRemaining' = stlRemaining
         /\ recs' = recs
<1>1. /\ maps' = maps /\ recs' = recs /\ taker' = taker
      /\ next_id_' = next_id_ /\ stlPc' = stlPc /\ stlRemaining' = stlRemaining
  BY DEF stlVars
<1>2. StlOrders' = StlOrders
  BY <1>1 DEF StlOrders, StlQueues
<1>3. QED
  BY <1>1, <1>2 DEF TreeBook

(* Both books are empty at first, and so are the stacks.                   *)
LEMMA CoupledInit ==
  ASSUME BothInit
  PROVE  Coupled
<1>1. Init /\ StlInit /\ live_l = << >> /\ live_s = << >> /\ el = << >> /\ es = << >>
  BY DEF BothInit
<1>2. pc = "idle" /\ stlPc = "idle"
  BY <1>1 DEF Init, StlInit
<1>3. \A s \in Side, p \in Px : RestingOrders[s][p] = << >>
  <2>1. Rules!Init
    BY <1>1, InitRules
  <2>2. QED
    BY <2>1 DEF Rules!Init, Rules!Side, Rules!Px, Side, Px
<1>4. \A s \in Side, p \in Px : StlOrders[s][p] = << >>
  <2>1. StlRules!Init
    BY <1>1, StlInitRules
  <2>2. QED
    BY <2>1 DEF StlRules!Init, StlRules!Side, StlRules!Px, Side, Px
<1>5. Alike(RestingOrders, StlOrders)
  BY <1>3, <1>4 DEF Alike, Twin
<1>6. ASSUME NEW z \in Named(RestingOrders, StlOrders)
      PROVE  FALSE
  BY <1>3 DEF Named
<1>7. Stacked(Named(RestingOrders, StlOrders), live_l, live_s)
  <2>1. OneToOne(live_s)
    BY <1>1 DEF OneToOne
  <2>2. QED
    BY <1>1, <1>6, <2>1 DEF Stacked
<1>8. Below(live_s, next_id_)
  BY <1>1 DEF Below
<1>9. QED
  BY <1>1, <1>2, <1>5, <1>7, <1>8 DEF Coupled, Tied

(* A call begins: there is nothing that the tree has yet to do.            *)
LEMMA CoupledSubmit ==
  ASSUME Facts, Coupled, NEW side \in Side, NEW px \in Px, NEW qty \in 1 .. MaxQty,
         Submit(side, px, qty)
  PROVE  Coupled'
<1>1. /\ Limit(side, px, qty) /\ StlLimit(side, px, qty) /\ pc = "idle" /\ stlPc = "idle"
      /\ live_l' = live_l /\ live_s' = live_s /\ el' = el /\ es' = es
  BY DEF Submit, Between, caller
<1>2. IInv /\ StlParts
  BY DEF Facts
<1>3. /\ el = << >> /\ es = << >> /\ Tied(RestingOrders, StlOrders, live_l, live_s)
      /\ Below(live_s, next_id_)
  BY <1>1 DEF Coupled
<1>4. /\ RestingOrders' = RestingOrders /\ remaining' = qty
      /\ orders_'[taker_id'].side = side /\ orders_'[taker_id'].px = px
  BY <1>1, <1>2, LadderSubmits, LimitKeeps
<1>5. /\ StlOrders' = StlOrders /\ stlRemaining' = qty
      /\ taker'.id = next_id_ /\ taker'.side = side /\ taker'.px = px
      /\ next_id_ \in StlIds /\ next_id_' = next_id_ + 1 /\ stlPc' # "idle"
  BY <1>1, <1>2, TreeSubmits
<1>6. pc' # "idle"
  BY <1>1 DEF Limit
<1> DEFINE b == [q |-> StlOrders, rem |-> qty]
<1>7. TreeBook' = b /\ b \in BookOf(StlIds) /\ b.q = StlOrders /\ b.rem = qty
  <2>1. StlOrders \in QueuesOf(StlIds)
    BY <1>2, TreeOrders
  <2>2. TreeBook' = b
    BY <1>5 DEF TreeBook
  <2>3. QED
    BY <2>1, <2>2 DEF BookOf
<1> HIDE DEF b
<1>8. PICK C \in Courses : C = [i \in Nat |-> b]
  BY <1>7 DEF Courses
<1>9. Len(es') = 0 /\ Len(el') = 0 /\ C[0] = b
  BY <1>1, <1>3, <1>8
<1>10. IsCourse(C, TreeBook, taker.side, taker.px, es, el)'
  <2>1. CourseFrom(C, TreeBook', taker'.side, taker'.px, es', el')
    BY <1>7, <1>9 DEF CourseFrom
  <2>2. StartsWith(el', es') /\ el' \in Seq(Printed) /\ es' \in Seq(Printed)
    BY <1>1, <1>3 DEF StartsWith
  <2>3. QED
    BY <2>1, <2>2 DEF IsCourse
<1>11. Matching(C[Len(el)])'
  <2>1. Tied(RestingOrders', b.q, live_l', live_s') /\ remaining' = b.rem
    BY <1>1, <1>3, <1>4, <1>7
  <2>2. QED
    BY <1>4, <1>5, <1>9, <2>1 DEF Matching
<1>12. Ahead(C)'
  BY <1>6, <1>10, <1>11 DEF Ahead
<1>13. Below(live_s', taker'.id) /\ Below(live_s', next_id_')
  <2>1. \A k \in 1 .. Len(live_s) : live_s[k] \in StlIds /\ live_s[k] < next_id_
    BY <1>3 DEF Below, Facts, StackTypes
  <2>2. QED
    BY <1>1, <1>5, <2>1 DEF Below, StlIds
<1>14. QED
  BY <1>1, <1>3, <1>5, <1>12, <1>13 DEF Coupled
-----------------------------------------------------------------------------
(* A step that changes nothing of this keeps it.                           *)
LEMMA CoupledSame ==
  ASSUME Coupled, RestingOrders' = RestingOrders, remaining' = remaining,
         orders_'[taker_id'] = orders_[taker_id], pc' = "idle" <=> pc = "idle",
         TreeBook' = TreeBook, StlOrders' = StlOrders, taker' = taker,
         next_id_' = next_id_, stlPc' = "idle" <=> stlPc = "idle",
         live_l' = live_l, live_s' = live_s, el' = el, es' = es
  PROVE  Coupled'
<1>1. CASE stlPc = "idle"
  BY <1>1 DEF Coupled
<1>2. CASE stlPc # "idle"
  <2>1. PICK C \in Courses : Ahead(C)
    BY <1>2 DEF Coupled
  <2>2. IsCourse(C, TreeBook, taker.side, taker.px, es, el)'
    BY <2>1 DEF Ahead, IsCourse, CourseFrom
  <2>3. pc = "idle" => Matched(C[Len(el)])'
    BY <2>1 DEF Ahead, Matched
  <2>4. pc # "idle" => Matching(C[Len(el)])'
    BY <2>1 DEF Ahead, Matching
  <2>5. Ahead(C)'
    BY <2>2, <2>3, <2>4 DEF Ahead
  <2>6. QED
    BY <1>2, <2>5 DEF Coupled
<1>3. QED
  BY <1>1, <1>2

(* The course grows by a trade of the ladder, ...                          *)
LEMMA CourseGrows ==
  ASSUME NEW C, NEW b, NEW side, NEW px, NEW done, NEW all,
         IsCourse(C, b, side, px, done, all),
         NEW d \in BookOf(StlIds), NEW x \in Printed, Trades(side, px, C[Len(all)], d, x)
  PROVE  LET D == [C EXCEPT ![Len(all) + 1] = d]
         IN IsCourse(D, b, side, px, done, Append(all, x)) /\ D[Len(Append(all, x))] = d
<1> DEFINE D == [C EXCEPT ![Len(all) + 1] = d]
           more == Append(all, x)
<1>0. /\ C \in Courses /\ all \in Seq(Printed) /\ done \in Seq(Printed) /\ StartsWith(all, done)
      /\ CourseFrom(C, b, side, px, done, all)
  BY DEF IsCourse
<1>1. Len(all) \in Nat /\ Len(done) \in Nat /\ Len(done) <= Len(all)
  BY <1>0, LenProperties DEF StartsWith
<1>2. /\ more \in Seq(Printed) /\ Len(more) = Len(all) + 1 /\ more[Len(all) + 1] = x
      /\ \A i \in 1 .. Len(all) : more[i] = all[i]
  BY <1>0, <1>1
<1>3. /\ D \in Courses /\ D[Len(all) + 1] = d
      /\ \A i \in 0 .. Len(all) : D[i] = C[i]
  BY <1>0, <1>1 DEF Courses
<1> HIDE DEF D, more
<1>4. D[Len(done)] = b
  BY <1>0, <1>1, <1>3 DEF CourseFrom
<1>5. ASSUME NEW i \in Len(done) + 1 .. Len(more)
      PROVE  Trades(side, px, D[i - 1], D[i], more[i])
  <2>1. CASE i = Len(all) + 1
    <3>1. i - 1 = Len(all) /\ D[i - 1] = C[Len(all)] /\ D[i] = d /\ more[i] = x
      BY <1>1, <1>2, <1>3, <2>1
    <3>2. QED
      BY <3>1
  <2>2. CASE i # Len(all) + 1
    <3>1. /\ i \in Len(done) + 1 .. Len(all) /\ D[i - 1] = C[i - 1] /\ D[i] = C[i]
          /\ more[i] = all[i]
      BY <1>1, <1>2, <1>3, <2>2
    <3>2. Trades(side, px, C[i - 1], C[i], all[i])
      BY <1>0, <3>1 DEF CourseFrom
    <3>3. QED
      BY <3>1, <3>2
  <2>3. QED
    BY <2>1, <2>2
<1>6. CourseFrom(D, b, side, px, done, more)
  BY <1>4, <1>5 DEF CourseFrom
<1>7. StartsWith(more, done)
  BY <1>0, <1>1, <1>2 DEF StartsWith
<1>8. QED
  BY <1>0, <1>2, <1>3, <1>6, <1>7 DEF IsCourse, D, more

(* ... the tree takes its first trade, ...                                 *)
LEMMA CourseBegins ==
  ASSUME NEW C, NEW b, NEW side \in Side, NEW px \in Px, NEW done, NEW all,
         IsCourse(C, b, side, px, done, all), Done(side, px, C[Len(all)]),
         NEW b2, NEW x, Trades(side, px, b, b2, x)
  PROVE  IsCourse(C, b2, side, px, Append(done, x), all)
<1> DEFINE m == Len(done)
           more == Append(done, x)
<1>0. /\ C \in Courses /\ all \in Seq(Printed) /\ done \in Seq(Printed) /\ StartsWith(all, done)
      /\ CourseFrom(C, b, side, px, done, all)
  BY DEF IsCourse
<1>1. Len(all) \in Nat /\ m \in Nat /\ m <= Len(all) /\ C[m] = b
  BY <1>0, LenProperties DEF StartsWith, CourseFrom
<1>2. m # Len(all)
  BY <1>1 DEF Trades, Done, Meets, BestIn
<1>3. m + 1 \in m + 1 .. Len(all) /\ (m + 1) - 1 = m /\ m + 1 \in 1 .. Len(all)
  BY <1>1, <1>2
<1>4. Trades(side, px, C[m], C[m + 1], all[m + 1])
  <2>1. Trades(side, px, C[(m + 1) - 1], C[m + 1], all[m + 1])
    BY <1>0, <1>3 DEF CourseFrom
  <2>2. QED
    BY <1>3, <2>1
<1>5. b2 = C[m + 1] /\ x = all[m + 1]
  BY <1>1, <1>4, TradesOnce
<1>6. all[m + 1] \in Printed
  BY <1>0, <1>3
<1>7. /\ more \in Seq(Printed) /\ Len(more) = m + 1 /\ more[m + 1] = x
      /\ \A i \in 1 .. m : more[i] = done[i]
  BY <1>0, <1>1, <1>5, <1>6
<1>8. StartsWith(all, more)
  <2>1. \A k \in 1 .. m : all[k] = done[k]
    BY <1>0 DEF StartsWith
  <2>2. ASSUME NEW k \in 1 .. m + 1
        PROVE  all[k] = more[k]
    BY <1>1, <1>5, <1>7, <2>1
  <2>3. QED
    BY <1>3, <1>7, <2>2 DEF StartsWith
<1>9. CourseFrom(C, b2, side, px, more, all)
  BY <1>0, <1>1, <1>5, <1>7 DEF CourseFrom
<1>10. QED
  BY <1>0, <1>7, <1>8, <1>9 DEF IsCourse

(* ... and it is over when the tree has no more to trade.                  *)
LEMMA CourseOver ==
  ASSUME NEW C, NEW b, NEW side \in Side, NEW px \in Px, NEW done, NEW all,
         IsCourse(C, b, side, px, done, all), Done(side, px, b)
  PROVE  all = done /\ C[Len(all)] = b
<1> DEFINE m == Len(done)
<1>0. /\ C \in Courses /\ all \in Seq(Printed) /\ done \in Seq(Printed) /\ StartsWith(all, done)
      /\ CourseFrom(C, b, side, px, done, all)
  BY DEF IsCourse
<1>1. /\ Len(all) \in Nat /\ m \in Nat /\ m <= Len(all) /\ C[m] = b
      /\ \A k \in 1 .. m : all[k] = done[k]
  BY <1>0, LenProperties DEF StartsWith, CourseFrom
<1>2. m = Len(all)
  <2>1. SUFFICES ASSUME m # Len(all)
        PROVE  FALSE
    OBVIOUS
  <2>2. m + 1 \in m + 1 .. Len(all) /\ (m + 1) - 1 = m
    BY <1>1, <2>1
  <2>3. Trades(side, px, C[(m + 1) - 1], C[m + 1], all[m + 1])
    BY <1>0, <2>2 DEF CourseFrom
  <2>4. Trades(side, px, b, C[m + 1], all[m + 1])
    BY <1>1, <2>2, <2>3
  <2>5. QED
    BY <2>4 DEF Trades, Done, Meets, BestIn
<1>3. all = done
  BY <1>0, <1>1, <1>2, SeqEqual
<1>4. QED
  BY <1>1, <1>2, <1>3
-----------------------------------------------------------------------------
(* The ladder goes on; its trades extend the course of the tree.           *)
LEMMA CoupledBusy ==
  ASSUME Coupled, StlParts, pc # "idle"
  PROVE  /\ stlPc # "idle" /\ Below(live_s, taker.id) /\ Below(live_s, next_id_)
         /\ taker.id \in StlIds /\ taker.side \in Side /\ taker.px \in Px
         /\ \E C \in Courses :
              /\ IsCourse(C, TreeBook, taker.side, taker.px, es, el)
              /\ Matching(C[Len(el)]) /\ C[Len(el)] \in BookOf(StlIds)
<1>1. stlPc # "idle"
  BY DEF Coupled
<1>2. PICK C \in Courses : Ahead(C)
  BY <1>1 DEF Coupled
<1>3. C[Len(el)] \in BookOf(StlIds)
  <2>1. Len(el) \in Nat
    BY <1>2, LenProperties DEF Ahead, IsCourse
  <2>2. QED
    BY <2>1 DEF Courses
<1>4. QED
  BY <1>1, <1>2, <1>3, TakerTyped DEF Coupled, Ahead

LEMMA LadderMeets ==
  ASSUME IInv, NEW side \in Side, NEW px \in Px, NEW p, Meets(side, px, LadderBook, p)
  PROVE  /\ LadderBook.q[Opposite(side)][p][1].qty # 0
         /\ Ticket(side, LadderBook, p) \in Printed
<1> DEFINE s == Opposite(side)
           f == RestingOrders[s][p]
<1>1. LadderBook \in BookOf(Ids) /\ LadderBook.q = RestingOrders /\ LadderBook.rem = remaining
  BY LadderTyped
<1>2. s \in Side /\ p \in Px /\ f # << >>
  BY <1>1, OppositeSide DEF Meets, BestIn
<1>3. RestingOrders \in QueuesOf(Ids)
  BY LadderOrders
<1>4. f \in Seq(EntryOf(Ids))
  BY <1>2, <1>3, QueueTyped
<1>5. 1 \in 1 .. Len(f)
  BY <1>2, <1>4, EmptySeq, LenProperties
<1>6. f[1].qty # 0 /\ f[1].qty = orders_[f[1].id].qty
  BY <1>2, <1>5, LadderOrders
<1>7. f[1] \in EntryOf(Ids)
  BY <1>4, <1>5, ElementOfSeq
<1>8. f[1].qty \in 1 .. MaxQty
  BY <1>6, <1>7, LobAssumption DEF EntryOf
<1> DEFINE t == TakeFrom(f, remaining)
<1>9. t \in 1 .. f[1].qty
  <2>1. LadderBook.q[Opposite(side)][p][1].qty # 0
    BY <1>1, <1>6
  <2>2. TakeFrom(LadderBook.q[Opposite(side)][p], LadderBook.rem)
          \in 1 .. LadderBook.q[Opposite(side)][p][1].qty
    BY <1>1, <2>1, TakenIs
  <2>3. QED
    BY <1>1, <2>2
<1>10. Ticket(side, LadderBook, p) = [px |-> p, qty |-> t]
  BY <1>1 DEF Ticket
<1> HIDE DEF t, f
<1>11. t \in 1 .. MaxQty
  BY <1>8, <1>9, LobAssumption
<1>12. QED
  BY <1>1, <1>2, <1>6, <1>10, <1>11 DEF Printed, f

LEMMA CoupledTakeHead ==
  ASSUME NoWrap, Facts, Coupled, TakeHead, UNCHANGED stlVars, live_l' = live_l,
         live_s' = live_s, es' = es, el' = Fills(el, trade')
  PROVE  Coupled'
<1> DEFINE side == orders_[taker_id].side
           px == orders_[taker_id].px
           b == LadderBook
           p == TakenPx
           x == Ticket(side, b, p)
<1>1. QInv /\ IInv /\ StlParts
  BY DEF Facts
<1>2. /\ side \in Side /\ px \in Px /\ Meets(side, px, b, p) /\ b' = Traded(side, b, p)
      /\ [px |-> trade'.px, qty |-> trade'.qty] = x
      /\ taker_id' = taker_id /\ orders_'[taker_id].side = side
      /\ orders_'[taker_id].px = px /\ pc # "idle" /\ pc' # "idle"
  BY <1>1, LadderTrades
<1>3. PICK C \in Courses :
        /\ IsCourse(C, TreeBook, taker.side, taker.px, es, el)
        /\ Matching(C[Len(el)]) /\ C[Len(el)] \in BookOf(StlIds)
  BY <1>1, <1>2, CoupledBusy
<1>4. /\ stlPc # "idle" /\ Below(live_s, taker.id) /\ Below(live_s, next_id_)
  BY <1>1, <1>2, CoupledBusy
<1> DEFINE c == C[Len(el)]
           d == Traded(side, c, p)
<1>5. /\ side = taker.side /\ px = taker.px /\ remaining = c.rem
      /\ Tied(RestingOrders, c.q, live_l, live_s)
  BY <1>3 DEF Matching
<1>6. b \in BookOf(Ids) /\ b.q = RestingOrders /\ b.rem = remaining
  BY <1>1, LadderTyped
<1>7. b.q[Opposite(side)][p][1].qty # 0 /\ x \in Printed
  BY <1>1, <1>2, LadderMeets
<1>8. /\ Meets(side, px, c, p) /\ Ticket(side, c, p) = x
      /\ d \in BookOf(StlIds) /\ Traded(side, b, p).rem = d.rem
      /\ Tied(Traded(side, b, p).q, d.q, live_l, live_s)
  <2> HIDE DEF b, p, c, side, px
  <2>1. b.rem = c.rem /\ Tied(b.q, c.q, live_l, live_s) /\ c \in BookOf(StlIds)
    BY <1>3, <1>5, <1>6 DEF c
  <2>2. QED
    BY <1>2, <1>6, <1>7, <2>1, TiedTraded
<1>9. Trades(side, px, c, d, x)
  <2>1. p \in Px
    BY <1>2 DEF Meets, BestIn
  <2>2. QED
    BY <1>8, <2>1 DEF Trades
<1>10. b'.q = RestingOrders' /\ b'.rem = remaining'
  BY DEF LadderBook
<1>11. el' = Append(el, x)
  BY <1>2 DEF Fills
<1> HIDE DEF b, p, x, d, side, px
<1>12. PICK D : D = [C EXCEPT ![Len(el) + 1] = d]
  OBVIOUS
<1>13. IsCourse(D, TreeBook, taker.side, taker.px, es, el') /\ D[Len(el')] = d
  <2>1. Trades(taker.side, taker.px, C[Len(el)], d, x)
    BY <1>5, <1>9
  <2>2. /\ IsCourse([C EXCEPT ![Len(el) + 1] = d], TreeBook, taker.side, taker.px, es, Append(el, x))
        /\ [C EXCEPT ![Len(el) + 1] = d][Len(Append(el, x))] = d
    BY <1>3, <1>7, <1>8, <2>1, CourseGrows
  <2>3. QED
    BY <1>11, <1>12, <2>2
<1>14. /\ TreeBook' = TreeBook /\ taker' = taker /\ next_id_' = next_id_ /\ stlPc' = stlPc
  BY TreeKept
<1>15. /\ remaining' = d.rem /\ Tied(RestingOrders', d.q, live_l, live_s)
  BY <1>2, <1>8, <1>10
<1>16. Matching(D[Len(el)])'
  <2>1. /\ orders_'[taker_id'].side = taker'.side /\ orders_'[taker_id'].px = taker'.px
        /\ remaining' = D[Len(el')].rem
        /\ Tied(RestingOrders', D[Len(el')].q, live_l', live_s')
    BY <1>2, <1>5, <1>13, <1>14, <1>15
  <2>2. QED
    BY <2>1 DEF Matching
<1>17. IsCourse(D, TreeBook, taker.side, taker.px, es, el)'
  BY <1>13, <1>14 DEF IsCourse, CourseFrom
<1>18. Ahead(D)' /\ D \in Courses
  BY <1>2, <1>13, <1>16, <1>17 DEF Ahead, IsCourse
<1>19. QED
  BY <1>4, <1>13, <1>14, <1>18 DEF Coupled

LEMMA CoupledLadder ==
  ASSUME NoWrap, Facts, Coupled, LadderMatches
  PROVE  Coupled'
<1>1. UNCHANGED stlVars /\ live_l' = live_l /\ live_s' = live_s /\ es' = es
  BY DEF LadderMatches, caller
<1>2. CASE TakeHead /\ el' = Fills(el, trade')
  BY <1>1, <1>2, CoupledTakeHead
<1>3. CASE (EnterLevel \/ LeaveLevel) /\ el' = el
  <2>1. /\ RestingOrders' = RestingOrders /\ remaining' = remaining
        /\ orders_' = orders_ /\ taker_id' = taker_id /\ pc # "idle" /\ pc' # "idle"
    BY <1>3, LadderStutters DEF Facts
  <2>2. /\ TreeBook' = TreeBook /\ StlOrders' = StlOrders /\ taker' = taker
        /\ next_id_' = next_id_ /\ stlPc' = stlPc
    BY <1>1, TreeKept
  <2>3. QED
    BY <1>1, <1>3, <2>1, <2>2, CoupledSame
<1>4. QED
  BY <1>2, <1>3 DEF LadderMatches

(* It returns: the order rests, or will, on both or on neither.            *)
LEMMA TiedReturns ==
  ASSUME IInv, NEW a \in BookOf(StlIds), live_l \in Seq(Ids), live_s \in Seq(StlIds),
         Tied(RestingOrders, a.q, live_l, live_s),
         NEW side \in Side, NEW px \in Px, taker_id \in Ids, NEW i \in StlIds, Below(live_s, i),
         NEW t \in 0 .. MaxQty
  PROVE  Tied(AfterRest(RestingOrders, side, px, taker_id, t), AfterRest(a.q, side, px, i, t),
              IF t = 0 THEN live_l ELSE Append(live_l, taker_id),
              IF t = 0 THEN live_s ELSE Append(live_s, i))
<1>1. RestingOrders \in QueuesOf(Ids) /\ a.q \in QueuesOf(StlIds)
  BY LadderOrders DEF BookOf
<1>2. \A k \in 1 .. Len(live_s) : live_s[k] # i
  <2>1. \A k \in 1 .. Len(live_s) : live_s[k] \in StlIds /\ live_s[k] < i
    BY DEF Below
  <2>2. QED
    BY <2>1 DEF StlIds
<1>3. \A r \in Side, y \in Px : \A k \in 1 .. Len(RestingOrders[r][y]) :
        RestingOrders[r][y][k].id # taker_id
  BY LadderOrders
<1>4. CASE t = 0
  BY <1>4 DEF AfterRest
<1>5. CASE t # 0
  <2>1. Tied(Joined(RestingOrders, side, px, taker_id, t), Joined(a.q, side, px, i, t),
             Append(live_l, taker_id), Append(live_s, i))
    BY <1>1, <1>2, <1>3, TiedRested
  <2>2. QED
    BY <1>5, <2>1 DEF AfterRest
<1>6. QED
  BY <1>4, <1>5

LEMMA CoupledLadderReturns ==
  ASSUME NoWrap, Facts, Coupled, LadderReturns
  PROVE  Coupled'
<1>1. /\ EndLimit /\ UNCHANGED stlVars /\ live_s' = live_s /\ el' = el /\ es' = es
      /\ live_l' = IF remaining = 0 THEN live_l ELSE Append(live_l, taker_id)
  BY DEF LadderReturns
<1>2. QInv /\ IInv /\ StlParts /\ live_l \in Seq(Ids) /\ live_s \in Seq(StlIds)
  BY DEF Facts, StackTypes
<1> DEFINE side == orders_[taker_id].side
           px == orders_[taker_id].px
<1>3. /\ side \in Side /\ px \in Px /\ taker_id \in Ids /\ remaining \in 0 .. MaxQty
      /\ Done(side, px, LadderBook)
      /\ RestingOrders' = AfterRest(RestingOrders, side, px, taker_id, remaining)
      /\ pc # "idle" /\ pc' = "idle"
  BY <1>1, <1>2, LadderReturnsIs
<1>4. PICK C \in Courses :
        /\ IsCourse(C, TreeBook, taker.side, taker.px, es, el)
        /\ Matching(C[Len(el)]) /\ C[Len(el)] \in BookOf(StlIds)
  BY <1>2, <1>3, CoupledBusy
<1>5. /\ stlPc # "idle" /\ Below(live_s, taker.id) /\ Below(live_s, next_id_)
      /\ taker.id \in StlIds
  BY <1>2, <1>3, CoupledBusy
<1> DEFINE c == C[Len(el)]
<1>6. /\ side = taker.side /\ px = taker.px /\ remaining = c.rem /\ c \in BookOf(StlIds)
      /\ Tied(RestingOrders, c.q, live_l, live_s)
  BY <1>4 DEF Matching
<1> HIDE DEF side, px, c
<1>7. Done(side, px, c)
  <2>1. LadderBook \in BookOf(Ids) /\ LadderBook.q = RestingOrders /\ LadderBook.rem = remaining
    BY <1>2, LadderTyped
  <2>2. Alike(LadderBook.q, c.q) /\ LadderBook.rem = c.rem
    BY <1>6, <2>1 DEF Tied
  <2>3. \A p : Meets(side, px, LadderBook, p) <=> Meets(side, px, c, p)
    BY <1>3, <1>6, <2>1, <2>2, MeetsAlike
  <2>4. QED
    BY <1>3, <2>3 DEF Done
<1>8. Tied(AfterRest(RestingOrders, side, px, taker_id, c.rem), AfterRest(c.q, side, px, taker.id, c.rem),
           IF c.rem = 0 THEN live_l ELSE Append(live_l, taker_id),
           IF c.rem = 0 THEN live_s ELSE Append(live_s, taker.id))
  BY <1>2, <1>3, <1>5, <1>6, TiedReturns
<1>9. /\ TreeBook' = TreeBook /\ taker' = taker /\ next_id_' = next_id_ /\ stlPc' = stlPc
  BY <1>1, TreeKept
<1>10. Matched(C[Len(el)])'
  <2>1. /\ Done(taker'.side, taker'.px, c)
        /\ Tied(RestingOrders', AfterRest(c.q, taker'.side, taker'.px, taker'.id, c.rem), live_l',
                IF c.rem = 0 THEN live_s' ELSE Append(live_s', taker'.id))
    BY <1>1, <1>3, <1>6, <1>7, <1>8, <1>9
  <2>2. C[Len(el')] = c
    BY <1>1 DEF c
  <2> HIDE DEF c
  <2>3. QED
    BY <2>1, <2>2 DEF Matched
<1>11. IsCourse(C, TreeBook, taker.side, taker.px, es, el)'
  BY <1>1, <1>4, <1>9 DEF IsCourse, CourseFrom
<1>12. Ahead(C)'
  BY <1>3, <1>10, <1>11 DEF Ahead
<1>13. QED
  BY <1>1, <1>5, <1>9, <1>12 DEF Coupled
-----------------------------------------------------------------------------
(* The tree follows its course ...                                         *)
LEMMA CoupledFollows ==
  ASSUME Coupled, StlParts, pc = "idle", stlPc # "idle"
  PROVE  /\ Below(live_s, taker.id) /\ Below(live_s, next_id_)
         /\ taker.id \in StlIds /\ taker.side \in Side /\ taker.px \in Px
         /\ \E C \in Courses :
              /\ IsCourse(C, TreeBook, taker.side, taker.px, es, el)
              /\ Matched(C[Len(el)])
BY TakerTyped DEF Coupled, Ahead

LEMMA CoupledTakeFront ==
  ASSUME Facts, Coupled, pc = "idle", TakeFront, UNCHANGED vars, live_l' = live_l,
         live_s' = live_s, el' = el, es' = Fills(es, stlTrade')
  PROVE  Coupled'
<1>1. StlParts
  BY DEF Facts
<1> DEFINE side == taker.side
           px == taker.px
           b == TreeBook
           x == Ticket(side, b, TreePx)
<1>2. /\ Meets(side, px, b, TreePx) /\ b' = Traded(side, b, TreePx)
      /\ [px |-> stlTrade'.px, qty |-> stlTrade'.qty] = x
      /\ taker' = taker /\ next_id_' = next_id_ /\ stlPc # "idle" /\ stlPc' # "idle"
  BY <1>1, TreeTrades
<1>3. /\ Below(live_s, taker.id) /\ Below(live_s, next_id_)
      /\ side \in Side /\ px \in Px
  BY <1>1, <1>2, CoupledFollows
<1>4. PICK C \in Courses : IsCourse(C, b, side, px, es, el) /\ Matched(C[Len(el)])
  BY <1>1, <1>2, CoupledFollows
<1>5. Trades(side, px, b, b', x)
  BY <1>2 DEF Trades, Meets, BestIn
<1>6. Done(side, px, C[Len(el)])
  BY <1>4 DEF Matched
<1>7. es' = Append(es, x)
  BY <1>2 DEF Fills
<1> HIDE DEF x, b, side, px
<1>8. IsCourse(C, b', side, px, Append(es, x), el)
  BY <1>3, <1>4, <1>5, <1>6, CourseBegins
<1>9. IsCourse(C, TreeBook, taker.side, taker.px, es, el)'
  BY <1>2, <1>7, <1>8 DEF IsCourse, CourseFrom, b, side, px
<1>10. /\ RestingOrders' = RestingOrders /\ pc' = pc
  BY LadderKept
<1>11. Matched(C[Len(el)])'
  BY <1>2, <1>4, <1>10 DEF Matched
<1>12. Ahead(C)'
  BY <1>9, <1>10, <1>11 DEF Ahead
<1>13. QED
  BY <1>2, <1>3, <1>12 DEF Coupled

LEMMA CoupledTree ==
  ASSUME Facts, Coupled, TreeMatches
  PROVE  Coupled'
<1>1. /\ UNCHANGED vars /\ live_l' = live_l /\ live_s' = live_s /\ el' = el /\ pc = "idle"
  BY DEF TreeMatches, caller
<1>2. CASE TakeFront /\ es' = Fills(es, stlTrade')
  BY <1>1, <1>2, CoupledTakeFront
<1>3. CASE (StlEnterLevel \/ StlLeaveLevel) /\ es' = es
  <2>1. /\ TreeBook' = TreeBook /\ taker' = taker /\ next_id_' = next_id_
        /\ stlPc # "idle" /\ stlPc' # "idle"
    BY <1>3, TreeStutters DEF Facts
  <2>2. StlOrders' = StlOrders
    BY <1>3, StlMatchStutters DEF Facts, StlRules!vars
  <2>3. /\ RestingOrders' = RestingOrders /\ remaining' = remaining /\ pc' = pc
        /\ orders_' = orders_ /\ taker_id' = taker_id
    BY <1>1, LadderKept
  <2>4. QED
    BY <1>1, <1>3, <2>1, <2>2, <2>3, CoupledSame
<1>4. QED
  BY <1>2, <1>3 DEF TreeMatches

(* ... to its end, where it has made the trades that the ladder made.      *)
LEMMA CoupledEnd ==
  ASSUME Coupled, StlParts, pc = "idle", stlPc # "idle", ~ StlCrossing
  PROVE  /\ el = es
         /\ Tied(RestingOrders,
                 AfterRest(StlOrders, taker.side, taker.px, taker.id, stlRemaining), live_l,
                 IF stlRemaining = 0 THEN live_s ELSE Append(live_s, taker.id))
<1>1. taker.side \in Side /\ taker.px \in Px
  BY CoupledFollows
<1>2. PICK C \in Courses : /\ IsCourse(C, TreeBook, taker.side, taker.px, es, el)
                           /\ Matched(C[Len(el)])
  BY CoupledFollows
<1>3. Done(taker.side, taker.px, TreeBook)
  BY TreeDone
<1>4. el = es /\ C[Len(el)] = TreeBook
  BY <1>1, <1>2, <1>3, CourseOver
<1>5. Matched(TreeBook) /\ TreeBook.q = StlOrders /\ TreeBook.rem = stlRemaining
  BY <1>2, <1>4 DEF TreeBook
<1>6. QED
  BY <1>4, <1>5 DEF Matched

LEMMA CoupledTreeReturns ==
  ASSUME Facts, Coupled, TreeReturns
  PROVE  Coupled'
<1>1. /\ StlEndLimit /\ UNCHANGED vars /\ live_l' = live_l /\ pc = "idle"
      /\ el' = << >> /\ es' = << >>
      /\ live_s' = IF stlRemaining = 0 THEN live_s ELSE Append(live_s, taker.id)
  BY DEF TreeReturns
<1>2. StlParts /\ live_s \in Seq(StlIds)
  BY DEF Facts, StackTypes
<1>3. /\ stlPc # "idle" /\ ~ StlCrossing /\ stlPc' = "idle" /\ next_id_' = next_id_
      /\ StlOrders' = AfterRest(StlOrders, taker.side, taker.px, taker.id, stlRemaining)
  BY <1>1, <1>2, TreeReturnsIs
<1>4. Tied(RestingOrders,
           AfterRest(StlOrders, taker.side, taker.px, taker.id, stlRemaining), live_l,
           IF stlRemaining = 0 THEN live_s ELSE Append(live_s, taker.id))
  BY <1>1, <1>2, <1>3, CoupledEnd
<1>5. RestingOrders' = RestingOrders /\ pc' = pc
  BY <1>1, LadderKept
<1>6. Tied(RestingOrders', StlOrders', live_l', live_s')
  BY <1>1, <1>3, <1>4, <1>5
<1>7. Below(live_s', next_id_')
  <2>1. Below(live_s, next_id_) /\ taker.id < next_id_
    BY <1>1, <1>2, <1>3, CoupledFollows DEF StlParts, StlControl
  <2>2. CASE stlRemaining = 0
    BY <1>1, <1>3, <2>1, <2>2
  <2>3. CASE stlRemaining # 0
    <3>1. live_s' = Append(live_s, taker.id)
      BY <1>1, <2>3
    <3>2. ASSUME NEW k \in 1 .. Len(live_s')
          PROVE  live_s'[k] < next_id_
      BY <1>2, <2>1, <3>1, <3>2 DEF Below
    <3>3. QED
      BY <1>3, <3>2 DEF Below
  <2>4. QED
    BY <2>2, <2>3
<1>8. QED
  BY <1>1, <1>3, <1>5, <1>6, <1>7 DEF Coupled
-----------------------------------------------------------------------------
(* cancel.  The stacks name an order of the tree and the order that is in  *)
(* its place on the ladder.                                                *)
LEMMA CoupleAt ==
  ASSUME Facts, Tied(RestingOrders, StlOrders, live_l, live_s),
         NEW s \in Side, NEW p \in Px, NEW k \in 1 .. Len(StlOrders[s][p]),
         NEW h \in 1 .. Len(live_s), live_s[h] = StlOrders[s][p][k].id
  PROVE  k \in 1 .. Len(RestingOrders[s][p]) /\ RestingOrders[s][p][k].id = live_l[h]
<1>1. IInv /\ StlParts /\ live_l \in Seq(Ids) /\ live_s \in Seq(StlIds)
  BY DEF Facts, StackTypes
<1>2. RestingOrders \in QueuesOf(Ids) /\ StlOrders \in QueuesOf(StlIds)
  BY <1>1, LadderOrders, TreeOrders
<1>3. Alike(RestingOrders, StlOrders) /\ Stacked(Named(RestingOrders, StlOrders), live_l, live_s)
  BY DEF Tied
<1>4. k \in 1 .. Len(RestingOrders[s][p])
  BY <1>3 DEF Alike, Twin
<1> DEFINE z == Couple(RestingOrders[s][p], StlOrders[s][p], k)
<1>5. z \in Named(RestingOrders, StlOrders)
  BY <1>2, <1>3, <1>4, NamedIs
<1>6. z[1] = RestingOrders[s][p][k].id /\ z[2] = live_s[h]
  BY DEF Couple
<1> HIDE DEF z
<1>7. live_l[h] = z[1]
  BY <1>1, <1>3, <1>5, <1>6, StackedAt
<1>8. QED
  BY <1>4, <1>6, <1>7

LEMMA StackRests ==
  ASSUME Facts, pc = "idle", Tied(RestingOrders, StlOrders, live_l, live_s),
         NEW h \in 1 .. Len(live_s), live_s[h] \in DOMAIN recs, live_l[h] \in Ids
  PROVE  /\ orders_[live_l[h]].qty = recs[live_s[h]].qty
         /\ orders_[live_l[h]].side = recs[live_s[h]].side
         /\ orders_[live_l[h]].px = recs[live_s[h]].px
         /\ orders_[live_l[h]].qty # 0
<1>1. IInv /\ StlParts
  BY DEF Facts
<1> DEFINE i == live_s[h]
           s == recs[i].side
           p == recs[i].px
<1>2. s \in Side /\ p \in Px /\ IsAt(i, s, p)
  BY <1>1, TreeOrders
<1>3. PICK k \in 1 .. Len(StlOrders[s][p]) : StlOrders[s][p][k].id = i
  BY <1>2 DEF IsAt
<1> HIDE DEF i, s, p
<1>4. k \in 1 .. Len(RestingOrders[s][p]) /\ RestingOrders[s][p][k].id = live_l[h]
  BY <1>2, <1>3, CoupleAt DEF i
<1>5. /\ orders_[live_l[h]].side = s /\ orders_[live_l[h]].px = p
      /\ orders_[live_l[h]].qty = RestingOrders[s][p][k].qty
      /\ orders_[live_l[h]].qty # 0
  BY <1>1, <1>2, <1>4, LadderOrders
<1>6. recs[i].qty = StlOrders[s][p][k].qty
  BY <1>1, <1>2, <1>3, TreeOrders
<1>7. RestingOrders[s][p][k].qty = StlOrders[s][p][k].qty
  BY <1>2, <1>4 DEF Tied, Alike, Twin
<1>8. QED
  BY <1>5, <1>6, <1>7 DEF i, s, p

(* An order that rests goes from both books, whichever entry names it, ... *)
LEMMA CancelAlike ==
  ASSUME Facts, Tied(RestingOrders, StlOrders, live_l, live_s),
         NEW h \in 1 .. Len(live_l), h \in 1 .. Len(live_s), live_s[h] \in DOMAIN recs,
         CancelBoth(live_l[h], live_s[h])
  PROVE  /\ Tied(RestingOrders', StlOrders', CutOut(live_l, h), CutOut(live_s, h))
         /\ next_id_' = next_id_
<1>1. IInv /\ StlParts /\ live_l \in Seq(Ids) /\ live_s \in Seq(StlIds)
  BY DEF Facts, StackTypes
<1>2. RestingOrders \in QueuesOf(Ids) /\ StlOrders \in QueuesOf(StlIds) /\ OnePlace(RestingOrders)
  BY <1>1, LadderTyped, LadderOrders, TreeOrders
<1>3. pc = "idle" /\ live_l[h] \in Ids
  BY <1>1 DEF CancelBoth, Between
<1>4. orders_[live_l[h]].qty # 0
  BY <1>3, StackRests
<1>5. Cancel(live_l[h]) /\ StlCancel(live_s[h])
  BY <1>4 DEF CancelBoth
<1>6. PICK s \in Side, p \in Px : \E k \in 1 .. Len(StlOrders[s][p]) :
           StlOrders[s][p][k].id = live_s[h] /\ StlOrders' = Gone(StlOrders, s, p, k)
  BY <1>1, <1>5, TreeCancels
<1>7. PICK k \in 1 .. Len(StlOrders[s][p]) :
           StlOrders[s][p][k].id = live_s[h] /\ StlOrders' = Gone(StlOrders, s, p, k)
  BY <1>6
<1>8. k \in 1 .. Len(RestingOrders[s][p]) /\ RestingOrders[s][p][k].id = live_l[h]
  BY <1>7, CoupleAt
<1>9. PICK r \in Side, y \in Px : \E j \in 1 .. Len(RestingOrders[r][y]) :
           /\ RestingOrders[r][y][j].id = live_l[h]
           /\ RestingOrders' = Gone(RestingOrders, r, y, j)
  BY <1>1, <1>3, <1>5, LadderCancels
<1>10. PICK j \in 1 .. Len(RestingOrders[r][y]) :
           /\ RestingOrders[r][y][j].id = live_l[h]
           /\ RestingOrders' = Gone(RestingOrders, r, y, j)
  BY <1>9
<1>11. r = s /\ y = p /\ j = k
  <2>1. RestingOrders[r][y][j].id = RestingOrders[s][p][k].id
    BY <1>8, <1>10
  <2>2. OnePlace(RestingOrders) /\ j \in 1 .. Len(RestingOrders[r][y])
        /\ k \in 1 .. Len(RestingOrders[s][p])
    BY <1>2, <1>8
  <2>3. QED
    BY <2>1, <2>2 DEF OnePlace
<1>12. Tied(Gone(RestingOrders, s, p, k), Gone(StlOrders, s, p, k),
            CutOut(live_l, h), CutOut(live_s, h))
  BY <1>1, <1>2, <1>8, TiedCut
<1>13. next_id_' = next_id_
  BY <1>1, <1>5, TreeCancels
<1>14. QED
  BY <1>7, <1>10, <1>11, <1>12, <1>13

(* ... and if the order on top is gone from the tree, the slot is free.    *)
LEMMA TopIsGone ==
  ASSUME Facts, pc = "idle", Tied(RestingOrders, StlOrders, live_l, live_s),
         Len(live_l) > 0, live_s[Len(live_s)] \notin DOMAIN recs
  PROVE  /\ orders_[live_l[Len(live_l)]].qty = 0
         /\ Tied(RestingOrders, StlOrders, CutOut(live_l, Len(live_l)),
                 CutOut(live_s, Len(live_l)))
<1>1. IInv /\ StlParts /\ live_l \in Seq(Ids) /\ live_s \in Seq(StlIds)
  BY DEF Facts, StackTypes
<1>2. RestingOrders \in QueuesOf(Ids) /\ StlOrders \in QueuesOf(StlIds)
  BY <1>1, LadderOrders, TreeOrders
<1>3. Alike(RestingOrders, StlOrders)
  BY DEF Tied
<1>4. \A z : z \in Named(RestingOrders, StlOrders) <=>
           \E s \in Side, p \in Px : \E k \in 1 .. Len(RestingOrders[s][p]) :
             z = Couple(RestingOrders[s][p], StlOrders[s][p], k)
  BY <1>2, <1>3, NamedIs
<1>5. ASSUME NEW z \in Named(RestingOrders, StlOrders)
      PROVE  z[2] # live_s[Len(live_s)]
  <2>1. PICK s \in Side, p \in Px : \E k \in 1 .. Len(RestingOrders[s][p]) :
             z = Couple(RestingOrders[s][p], StlOrders[s][p], k)
    BY <1>4
  <2>2. PICK k \in 1 .. Len(RestingOrders[s][p]) :
             z = Couple(RestingOrders[s][p], StlOrders[s][p], k)
    BY <2>1
  <2>3. k \in 1 .. Len(StlOrders[s][p])
    BY <1>3 DEF Alike, Twin
  <2>4. z[2] = StlOrders[s][p][k].id
    BY <2>2 DEF Couple
  <2>5. StlOrders[s][p][k].id \in DOMAIN recs
    BY <1>1, <2>3, TreeOrders
  <2>6. QED
    BY <2>4, <2>5
<1>6. /\ Tied(RestingOrders, StlOrders, CutOut(live_l, Len(live_l)), CutOut(live_s, Len(live_l)))
      /\ \A z \in Named(RestingOrders, StlOrders) : z[1] # live_l[Len(live_l)]
  BY <1>1, <1>2, <1>5, TiedPopped
<1>7. live_l[Len(live_l)] \in Ids
  BY <1>1
<1>8. ~ \E s \in Side, p \in Px : \E k \in 1 .. Len(RestingOrders[s][p]) :
           RestingOrders[s][p][k].id = live_l[Len(live_l)]
  <2>1. ASSUME NEW s \in Side, NEW p \in Px, NEW k \in 1 .. Len(RestingOrders[s][p])
        PROVE  RestingOrders[s][p][k].id # live_l[Len(live_l)]
    <3>1. Couple(RestingOrders[s][p], StlOrders[s][p], k) \in Named(RestingOrders, StlOrders)
      BY <1>4
    <3>2. Couple(RestingOrders[s][p], StlOrders[s][p], k)[1] = RestingOrders[s][p][k].id
      BY DEF Couple
    <3>3. QED
      BY <1>6, <3>1, <3>2
  <2>2. QED
    BY <2>1
<1>9. QED
  BY <1>1, <1>6, <1>7, <1>8, LadderRests

LEMMA CutBelow ==
  ASSUME NEW f \in Seq(StlIds), NEW h \in 1 .. Len(f), NEW n, Below(f, n)
  PROVE  Below(CutOut(f, h), n)
<1> DEFINE g == CutOut(f, h)
<1>1. /\ Len(f) \in Nat /\ Len(g) = Len(f) - 1
      /\ \A j \in 1 .. Len(f) - 1 : g[j] = IF j < h THEN f[j] ELSE f[j + 1]
  BY CutIsDrop, AnyDrop, LenProperties
<1> HIDE DEF g
<1>2. ASSUME NEW j \in 1 .. Len(g)
      PROVE  g[j] < n
  <2>1. j \in 1 .. Len(f) /\ j + 1 \in 1 .. Len(f)
    BY <1>1
  <2>2. QED
    BY <1>1, <2>1 DEF Below
<1>3. QED
  BY <1>2 DEF Below, g

LEMMA CoupledBetween ==
  ASSUME Coupled, Between
  PROVE  /\ Tied(RestingOrders, StlOrders, live_l, live_s) /\ el = << >> /\ es = << >>
         /\ Below(live_s, next_id_) /\ Len(live_l) = Len(live_s) /\ OneToOne(live_s)
BY DEF Coupled, Between, Tied, Stacked

LEMMA CoupledEntry ==
  ASSUME Facts, Coupled, NEW h \in 1 .. Len(live_l), h \in 1 .. Len(live_s),
         CancelBoth(live_l[h], live_s[h]),
         live_l' = CutOut(live_l, h), live_s' = CutOut(live_s, h),
         live_s[h] \in DOMAIN recs \/ h = Len(live_l)
  PROVE  Coupled'
<1>1. Between /\ el' = el /\ es' = es
  BY DEF CancelBoth
<1>2. /\ Tied(RestingOrders, StlOrders, live_l, live_s) /\ el = << >> /\ es = << >>
      /\ Below(live_s, next_id_) /\ Len(live_l) = Len(live_s) /\ OneToOne(live_s)
  BY <1>1, CoupledBetween
<1>3. pc' = "idle" /\ stlPc' = "idle"
  BY <1>1 DEF CancelBoth, Between, Cancel, StlCancel, vars, stlVars
<1>4. Tied(RestingOrders', StlOrders', live_l', live_s') /\ next_id_' = next_id_
  <2>1. CASE live_s[h] \in DOMAIN recs
    BY <1>2, <2>1, CancelAlike
  <2>2. CASE live_s[h] \notin DOMAIN recs
    <3>1. h = Len(live_l) /\ h = Len(live_s) /\ Len(live_l) > 0
      BY <1>2, <2>2
    <3>2. orders_[live_l[h]].qty = 0 /\ Tied(RestingOrders, StlOrders, live_l', live_s')
      BY <1>1, <1>2, <2>2, <3>1, TopIsGone DEF Between
    <3>3. UNCHANGED vars /\ UNCHANGED stlVars
      BY <2>2, <3>2 DEF CancelBoth
    <3>4. RestingOrders' = RestingOrders /\ StlOrders' = StlOrders /\ next_id_' = next_id_
      BY <3>3, LadderKept, TreeKept
    <3>5. QED
      BY <3>2, <3>4
  <2>3. QED
    BY <2>1, <2>2
<1>5. Below(live_s', next_id_')
  <2>1. live_s \in Seq(StlIds)
    BY DEF Facts, StackTypes
  <2>2. Below(CutOut(live_s, h), next_id_)
    BY <1>2, <2>1, CutBelow
  <2>3. QED
    BY <1>4, <2>2
<1>6. QED
  BY <1>1, <1>2, <1>3, <1>4, <1>5 DEF Coupled

LEMMA CoupledCancels ==
  ASSUME Facts, Coupled, CancelLast \/ CancelResting
  PROVE  Coupled'
<1>1. StackTypes
  BY DEF Facts
<1>2. CASE CancelLast
  <2> DEFINE h == Len(live_l)
  <2>1. /\ h \in 1 .. Len(live_l) /\ Len(live_s) \in 1 .. Len(live_s)
        /\ CancelBoth(live_l[h], live_s[Len(live_s)])
        /\ live_l' = CutOut(live_l, h) /\ live_s' = CutOut(live_s, Len(live_s))
    BY <1>1, <1>2, CancelLastIs
  <2>2. Len(live_s) = h
    BY <2>1, CoupledBetween DEF CancelBoth
  <2>3. QED
    BY <2>1, <2>2, CoupledEntry
<1>3. CASE CancelResting
  <2>1. PICK k \in 1 .. Len(live_l) :
           /\ k \in 1 .. Len(live_s) /\ live_s[k] \in DOMAIN recs
           /\ CancelBoth(live_l[k], live_s[k])
           /\ live_l' = CutOut(live_l, k) /\ live_s' = CutOut(live_s, k)
    BY <1>1, <1>3, CancelRestingIs
  <2>2. QED
    BY <2>1, CoupledEntry
<1>4. QED
  BY <1>2, <1>3

LEMMA CoupledStep ==
  ASSUME NoWrap, Facts, Coupled, [BothNext]_bothVars
  PROVE  Coupled'
<1>1. CASE UNCHANGED bothVars
  <2>1. /\ UNCHANGED vars /\ UNCHANGED stlVars /\ live_l' = live_l /\ live_s' = live_s
        /\ el' = el /\ es' = es
    BY <1>1 DEF bothVars, caller
  <2>2. QED
    BY <2>1, LadderKept, TreeKept, CoupledSame
<1>2. CASE \E side \in Side, px \in Px, qty \in 1 .. MaxQty : Submit(side, px, qty)
  BY <1>2, CoupledSubmit
<1>3. CASE LadderMatches \/ LadderReturns
  BY <1>3, CoupledLadder, CoupledLadderReturns
<1>4. CASE TreeMatches \/ TreeReturns
  BY <1>4, CoupledTree, CoupledTreeReturns
<1>5. CASE CancelLast \/ CancelResting
  BY <1>5, CoupledCancels
<1>6. CASE TapeEnds
  BY <1>1, <1>6 DEF TapeEnds
<1>7. QED
  BY <1>1, <1>2, <1>3, <1>4, <1>5, <1>6 DEF BothNext

LEMMA CoupledAlways == NoWrap => (BothSpec => [](Facts /\ Coupled))
<1>1. SUFFICES ASSUME NoWrap
      PROVE  BothSpec => [](Facts /\ Coupled)
  OBVIOUS
<1>2. BothInit => Coupled
  BY CoupledInit
<1>3. Facts /\ Coupled /\ [BothNext]_bothVars => Coupled'
  BY <1>1, CoupledStep
<1>4. BothSpec => []StackTypes /\ []QInv /\ []IInv /\ []StlInv
  <2>1. Spec => []QInv
    BY <1>1, PricesInvariant
  <2>2. QED
    BY <2>1, BothTyped, BookInvariant, StlInvariant, PTL
<1>5. StackTypes /\ QInv /\ IInv /\ StlInv => Facts
  BY StlInvIs DEF Facts
<1>6. QED
  BY <1>2, <1>3, <1>4, <1>5, PTL DEF BothSpec
-----------------------------------------------------------------------------
(* An entry of the caller's stacks whose order rests in the tree names on  *)
(* the ladder an order of the same price, side and quantity, and the entry *)
(* on top names a free slot if its order is gone: although the ladder      *)
(* reuses ids, the caller never cancels somebody else's order.             *)
LEMMA NoStaleHitHolds ==
  ASSUME Facts, Coupled
  PROVE  NoStaleHit
<1>1. SUFFICES ASSUME Between, NEW k \in DOMAIN live_s
      PROVE  LET o == orders_[live_l[k]]
             IN IF live_s[k] \in DOMAIN recs
                THEN [px |-> o.px, qty |-> o.qty, side |-> o.side] = recs[live_s[k]]
                ELSE k = Len(live_s) => o.qty = 0
  BY DEF NoStaleHit
<1>2. /\ StlParts /\ live_l \in Seq(Ids) /\ live_s \in Seq(StlIds) /\ pc = "idle"
  BY <1>1 DEF Facts, StackTypes, Between
<1>3. /\ Tied(RestingOrders, StlOrders, live_l, live_s)
      /\ Len(live_l) = Len(live_s)
  BY <1>1, CoupledBetween
<1>4. k \in 1 .. Len(live_s) /\ k \in 1 .. Len(live_l) /\ live_l[k] \in Ids
  BY <1>2, <1>3
<1>5. CASE live_s[k] \in DOMAIN recs
  <2> DEFINE o == orders_[live_l[k]]
             r == recs[live_s[k]]
  <2>1. o.qty = r.qty /\ o.side = r.side /\ o.px = r.px
    BY <1>2, <1>3, <1>4, <1>5, StackRests
  <2>2. r \in Rec
    BY <1>2, <1>5 DEF StlParts, MapsHold, Recorded
  <2> HIDE DEF o, r
  <2>3. r = [px |-> r.px, qty |-> r.qty, side |-> r.side]
    BY <2>2 DEF Rec
  <2>4. [px |-> o.px, qty |-> o.qty, side |-> o.side] = r
    BY <2>1, <2>3
  <2>5. QED
    BY <1>5, <2>4 DEF o, r
<1>6. CASE live_s[k] \notin DOMAIN recs
  <2>1. SUFFICES ASSUME k = Len(live_s)
        PROVE  orders_[live_l[k]].qty = 0
    BY <1>6
  <2>2. k = Len(live_l) /\ Len(live_l) > 0
    BY <1>3, <1>4, <2>1
  <2>3. QED
    BY <1>2, <1>3, <1>6, <2>1, <2>2, TopIsGone
<1>7. QED
  BY <1>5, <1>6

(* So it is between any two calls of any tape.                             *)
THEOREM NoStaleHits == NoWrap => (BothSpec => []NoStaleHit)
<1>1. SUFFICES ASSUME NoWrap
      PROVE  BothSpec => []NoStaleHit
  OBVIOUS
<1>2. BothSpec => [](Facts /\ Coupled)
  BY <1>1, CoupledAlways
<1>3. Facts /\ Coupled => NoStaleHit
  BY NoStaleHitHolds
<1>4. QED
  BY <1>2, <1>3, PTL

(* Between calls the slots in use are the orders of the tree.              *)
LEMMA StackedOnce ==
  ASSUME NEW P, NEW ll \in Seq(Ids), NEW ls \in Seq(StlIds), Stacked(P, ll, ls),
         NEW z \in P, NEW w \in P
  PROVE  z[1] = w[1] <=> z[2] = w[2]
<1>1. PICK i \in 1 .. Len(ll) : LastAt(ll, i, z[1]) /\ ls[i] = z[2]
  BY DEF Stacked
<1>2. PICK j \in 1 .. Len(ll) : LastAt(ll, j, w[1]) /\ ls[j] = w[2]
  BY DEF Stacked
<1>3. i \in 1 .. Len(ls) /\ j \in 1 .. Len(ls) /\ OneToOne(ls)
  BY DEF Stacked
<1>4. ASSUME z[1] = w[1]
      PROVE  i = j
  BY <1>1, <1>2, <1>4 DEF LastAt
<1>5. ASSUME z[2] = w[2]
      PROVE  i = j
  BY <1>1, <1>2, <1>3, <1>5 DEF OneToOne
<1>6. QED
  BY <1>1, <1>2, <1>4, <1>5 DEF LastAt

Used == {id \in Ids : orders_[id].qty # 0}

LEMMA UsedCount ==
  ASSUME IInv, pc = "idle"
  PROVE  IsFiniteSet(Used) /\ Cardinality(Used) = MaxOrders - Len(free_)
<1>1. /\ free_ \in Seq(Ids) /\ taker_id = 0 /\ OneToOne(free_)
      /\ \A k \in 1 .. Len(free_) : orders_[free_[k]].qty = 0
      /\ \A id \in Ids :
           \/ \E k \in 1 .. Len(free_) : free_[k] = id
           \/ taker_id = id
           \/ \E s \in Side, p \in Px : \E k \in 1 .. Len(Queues[s][p]) : Queues[s][p][k] = id
  BY DEF IInv, TypeOK, Control, Placed, kInvalidId
<1> DEFINE n == Len(free_)
           F == Ids \ Used
<1>2. n \in Nat /\ IsFiniteSet(1 .. n) /\ Cardinality(1 .. n) = n
  <2>1. n \in Nat
    BY <1>1
  <2>2. QED
    BY <2>1, Counting
<1>3. IsFiniteSet(Ids) /\ Cardinality(Ids) = MaxOrders
  BY Counting, LobAssumption DEF Ids
<1>4. \A id \in F : \E k \in 1 .. n : free_[k] = id
  <2>1. TAKE id \in F
  <2>2. id \in Ids /\ orders_[id].qty = 0 /\ id # 0
    BY LobAssumption DEF Used, Ids
  <2>3. ASSUME NEW s \in Side, NEW p \in Px, NEW k \in 1 .. Len(Queues[s][p]),
               Queues[s][p][k] = id
        PROVE  FALSE
    BY <2>2, <2>3, QueueFacts
  <2>4. QED
    BY <1>1, <2>2, <2>3
<1>5. free_ \in Bijection(1 .. n, F)
  <2>1. free_ \in [1 .. n -> Ids] /\ \A k \in 1 .. n : free_[k] \in F
    BY <1>1 DEF Used
  <2>2. free_ \in [1 .. n -> F]
    BY <2>1
  <2> HIDE DEF F
  <2>3. free_ \in Injection(1 .. n, F)
    BY <1>1, <2>2 DEF Injection, OneToOne, IsInjective
  <2>4. free_ \in Surjection(1 .. n, F)
    BY <1>4, <2>2 DEF Surjection
  <2>5. QED
    BY <2>3, <2>4 DEF Bijection
<1>6. IsFiniteSet(F) /\ Cardinality(F) = n
  <2>1. ExistsBijection(1 .. n, F)
    BY <1>5 DEF ExistsBijection
  <2> HIDE DEF F
  <2>2. QED
    BY <1>2, <2>1, FS_Bijection
<1>7. Cardinality(Ids \ F) = Cardinality(Ids) - Cardinality(Ids \cap F) /\ IsFiniteSet(Ids \ F)
  BY <1>3, FS_Difference
<1>8. Ids \ F = Used /\ Ids \cap F = F
  BY DEF Used
<1>9. QED
  BY <1>3, <1>6, <1>7, <1>8
-----------------------------------------------------------------------------
(* Couples with every member of S and of T in one of them count them.      *)
LEMMA PairedOff ==
  ASSUME NEW S, NEW T, NEW P, IsFiniteSet(S),
         \A x \in S : \E y \in T : <<x, y>> \in P,
         \A y \in T : \E x \in S : <<x, y>> \in P,
         \A x, v \in S, y, w \in T : <<x, y>> \in P /\ <<v, w>> \in P => (x = v <=> y = w)
  PROVE  Cardinality(S) = Cardinality(T)
<1> DEFINE f == [x \in S |-> CHOOSE y \in T : <<x, y>> \in P]
<1>1. \A x \in S : f[x] \in T /\ <<x, f[x]>> \in P
  <2>1. TAKE x \in S
  <2>2. \E y \in T : <<x, y>> \in P
    OBVIOUS
  <2>3. f[x] = CHOOSE y \in T : <<x, y>> \in P
    OBVIOUS
  <2>4. QED
    BY <2>2, <2>3
<1>2. f \in [S -> T]
  <2> DEFINE H(x) == CHOOSE y \in T : <<x, y>> \in P
  <2>1. f = [x \in S |-> H(x)]
    OBVIOUS
  <2>2. \A x \in S : H(x) \in T
    OBVIOUS
  <2> HIDE DEF f, H
  <2>3. QED
    BY <2>1, <2>2
<1> HIDE DEF f
<1>3. f \in Injection(S, T)
  <2>1. ASSUME NEW x \in S, NEW v \in S, f[x] = f[v]
        PROVE  x = v
    <3>1. f[x] \in T /\ f[v] \in T /\ <<x, f[x]>> \in P /\ <<v, f[v]>> \in P
      BY <1>1
    <3>2. QED
      BY <2>1, <3>1, Zenon
  <2>2. DOMAIN f = S
    BY <1>2
  <2>3. IsInjective(f)
    BY <2>1, <2>2 DEF IsInjective
  <2>4. QED
    BY <1>2, <2>3 DEF Injection
<1>4. f \in Surjection(S, T)
  <2>1. ASSUME NEW y \in T
        PROVE  \E x \in S : f[x] = y
    <3>1. PICK x \in S : <<x, y>> \in P
      OBVIOUS
    <3>2. f[x] = y
      BY <1>1, <3>1
    <3>3. QED
      BY <3>2
  <2>2. QED
    BY <1>2, <2>1 DEF Surjection
<1>5. ExistsBijection(S, T)
  BY <1>3, <1>4 DEF Bijection, ExistsBijection
<1>6. QED
  BY <1>5, FS_Bijection

(* An order of the tree is beside one of the ladder, and the other way.    *)
LEMMA EveryOneNamed ==
  ASSUME Facts, pc = "idle", Alike(RestingOrders, StlOrders)
  PROVE  /\ \A i \in DOMAIN recs : \E x \in Used : <<x, i>> \in Named(RestingOrders, StlOrders)
         /\ \A x \in Used : \E i \in DOMAIN recs : <<x, i>> \in Named(RestingOrders, StlOrders)
<1>1. IInv /\ StlParts /\ RestingOrders \in QueuesOf(Ids) /\ StlOrders \in QueuesOf(StlIds)
  BY LadderOrders, TreeOrders DEF Facts
<1>2. ASSUME NEW s \in Side, NEW p \in Px
      PROVE  /\ Len(RestingOrders[s][p]) = Len(StlOrders[s][p])
             /\ \A k \in 1 .. Len(RestingOrders[s][p]) :
                  /\ <<RestingOrders[s][p][k].id, StlOrders[s][p][k].id>>
                       \in Named(RestingOrders, StlOrders)
                  /\ RestingOrders[s][p][k].id \in Used
                  /\ StlOrders[s][p][k].id \in DOMAIN recs
  <2>1. Len(RestingOrders[s][p]) = Len(StlOrders[s][p])
    BY DEF Alike, Twin
  <2>2. ASSUME NEW k \in 1 .. Len(RestingOrders[s][p])
        PROVE  /\ RestingOrders[s][p][k].id \in Used
               /\ StlOrders[s][p][k].id \in DOMAIN recs
    <3>1. RestingOrders[s][p][k].id \in Used
      BY <1>1, LadderOrders DEF Used
    <3>2. StlOrders[s][p][k].id \in DOMAIN recs
      BY <1>1, <2>1, TreeOrders
    <3>3. QED
      BY <3>1, <3>2
  <2>3. ASSUME NEW k \in 1 .. Len(RestingOrders[s][p])
        PROVE  Couple(RestingOrders[s][p], StlOrders[s][p], k) \in Named(RestingOrders, StlOrders)
    BY <1>1, NamedIs
  <2>4. QED
    BY <2>1, <2>2, <2>3 DEF Couple
<1>3. ASSUME NEW i \in DOMAIN recs
      PROVE  \E x \in Used : <<x, i>> \in Named(RestingOrders, StlOrders)
  <2>1. recs[i].side \in Side /\ recs[i].px \in Px /\ IsAt(i, recs[i].side, recs[i].px)
    BY <1>1, TreeOrders
  <2>2. PICK k \in 1 .. Len(StlOrders[recs[i].side][recs[i].px]) :
               StlOrders[recs[i].side][recs[i].px][k].id = i
    BY <2>1 DEF IsAt
  <2>3. QED
    BY <1>2, <2>1, <2>2
<1>4. ASSUME NEW x \in Used
      PROVE  \E i \in DOMAIN recs : <<x, i>> \in Named(RestingOrders, StlOrders)
  <2>1. x \in Ids /\ orders_[x].qty # 0
    BY DEF Used
  <2>2. PICK s \in Side, p \in Px : \E k \in 1 .. Len(RestingOrders[s][p]) :
               RestingOrders[s][p][k].id = x
    BY <1>1, <2>1, LadderRests
  <2>3. PICK k \in 1 .. Len(RestingOrders[s][p]) : RestingOrders[s][p][k].id = x
    BY <2>2
  <2>4. QED
    BY <1>2, <2>3
<1>5. QED
  BY <1>3, <1>4

(* The number of live orders is that of the slots in use.                  *)
LEMMA LiveIsUsed ==
  ASSUME Facts, Coupled, Between
  PROVE  live_ = MaxOrders - Len(free_)
<1> DEFINE P == Named(RestingOrders, StlOrders)
           D == DOMAIN recs
<1>1. pc = "idle" /\ stlPc = "idle" /\ IInv /\ StlParts
  BY DEF Between, Facts
<1>2. Alike(RestingOrders, StlOrders) /\ Stacked(P, live_l, live_s)
  BY CoupledBetween DEF Tied
<1>3. live_l \in Seq(Ids) /\ live_s \in Seq(StlIds)
  BY DEF Facts, StackTypes
<1>4. Recorded(recs) /\ LiveCount
  BY <1>1 DEF StlParts, MapsHold
<1>5. IsFiniteSet(D) /\ Cardinality(D) \in Nat /\ live_ = Cardinality(D)
  BY <1>1, <1>4, RecsFinite DEF LiveCount
<1>6. IsFiniteSet(Used) /\ Cardinality(Used) = MaxOrders - Len(free_)
  BY <1>1, UsedCount
<1>7. /\ \A x \in Used : \E i \in D : <<x, i>> \in P
      /\ \A i \in D : \E x \in Used : <<x, i>> \in P
  BY <1>1, <1>2, EveryOneNamed
<1>8. ASSUME NEW x \in Used, NEW v \in Used, NEW i \in D, NEW w \in D,
             <<x, i>> \in P, <<v, w>> \in P
      PROVE  x = v <=> i = w
  <2> HIDE DEF P, D
  <2>1. <<x, i>>[1] = <<v, w>>[1] <=> <<x, i>>[2] = <<v, w>>[2]
    BY <1>2, <1>3, <1>8, StackedOnce
  <2>2. QED
    BY <2>1
<1> HIDE DEF P, D
<1>9. Cardinality(Used) = Cardinality(D)
  BY <1>6, <1>7, <1>8, PairedOff
<1>10. QED
  BY <1>5, <1>6, <1>9

(* Alike lists of orders have the same total.                              *)
LEMMA TwinTotal ==
  ASSUME IInv, StlParts, Alike(RestingOrders, StlOrders), NEW s \in Side, NEW p \in Px
  PROVE  /\ Total(Queues[s][p], orders_) = Total(FifoAt(maps, s, p), recs)
         /\ Total(Queues[s][p], orders_) \in Nat
         /\ RestingOrders[s][p] = << >> <=> FifoAt(maps, s, p) = << >>
<1> DEFINE f == Queues[s][p]
           g == FifoAt(maps, s, p)
           S == Sums(f, orders_)
<1>1. /\ MapsHold(maps, recs) /\ Recorded(recs)
      /\ f \in Seq(Ids) /\ orders_ \in [Ids -> Order]
  BY QueueFacts DEF StlParts, MapsHold
<1>2. /\ StlOrders[s][p] = OrdersAt(maps, recs, s, p)
      /\ RestingOrders[s][p] = Resting(f, orders_)
  BY StlOrdersAre, RestingOrdersAre
<1>3. /\ Len(StlOrders[s][p]) = Len(g) /\ Len(g) \in Nat
      /\ StlOrders[s][p] = << >> <=> g = << >>
      /\ \A k \in 1 .. Len(g) : StlOrders[s][p][k] = [id |-> g[k], qty |-> recs[g[k]].qty]
  BY <1>1, <1>2, OrdersAtIs
<1>4. /\ Len(RestingOrders[s][p]) = Len(f)
      /\ RestingOrders[s][p] \in Seq(EntryOf(Ids)) /\ StlOrders[s][p] \in Seq(EntryOf(StlIds))
  BY LadderOrders, TreeOrders, QueueTyped
<1>5. \A k \in 1 .. Len(f) : RestingOrders[s][p][k].qty = orders_[f[k]].qty
  BY <1>1, <1>2 DEF Resting
<1>6. /\ Len(f) = Len(g)
      /\ \A k \in 1 .. Len(f) : RestingOrders[s][p][k].qty = StlOrders[s][p][k].qty
  BY <1>3, <1>4 DEF Alike, Twin
<1>7. \A k \in 1 .. Len(g) : orders_[f[k]].qty = recs[g[k]].qty
  <2> HIDE DEF f, g
  <2>1. TAKE k \in 1 .. Len(g)
  <2>2. k \in 1 .. Len(f)
    BY <1>6
  <2>3. StlOrders[s][p][k].qty = recs[g[k]].qty
    <3>1. StlOrders[s][p][k] = [id |-> g[k], qty |-> recs[g[k]].qty]
      BY <1>3
    <3>2. QED
      BY <3>1
  <2>4. RestingOrders[s][p][k].qty = orders_[f[k]].qty
    BY <1>5, <2>2
  <2>5. QED
    BY <1>6, <2>2, <2>3, <2>4
<1>8. g \in Seq(StlIds) /\ \A k \in 1 .. Len(g) : g[k] \in DOMAIN recs
  BY <1>1, FifoFacts
<1>9. \A k \in 1 .. Len(g) : Held(recs)[g[k]].qty = orders_[f[k]].qty
  BY <1>1, <1>7, <1>8, HeldCounted
<1>10. /\ S[0] = 0 /\ \A k \in 1 .. Len(f) : S[k] = S[k - 1] + orders_[f[k]].qty
       /\ \A k \in 0 .. Len(f) : S[k] \in Nat
  BY <1>1, SumsAre
<1>11. Total(f, orders_) = S[Len(f)]
  BY DEF Total
<1> HIDE DEF f, g, S
<1>12. Total(g, Held(recs)) = S[Len(g)]
  <2>1. Counted(Held(recs), StlIds)
    BY <1>1, HeldCounted
  <2>2. \A k \in 1 .. Len(g) : S[k] = S[k - 1] + Held(recs)[g[k]].qty
    BY <1>6, <1>9, <1>10
  <2>3. QED
    BY <1>8, <1>10, <2>1, <2>2, AnyTotalIs
<1>13. Total(g, recs) = Total(g, Held(recs))
  BY <1>1, <1>8, HeldLists
<1>14. RestingOrders[s][p] = << >> <=> g = << >>
  <2>1. Len(RestingOrders[s][p]) = Len(StlOrders[s][p])
    BY <1>3, <1>4, <1>6
  <2>2. RestingOrders[s][p] = << >> <=> StlOrders[s][p] = << >>
    BY <1>4, <2>1
  <2>3. QED
    BY <1>3, <2>2
<1>15. Total(f, orders_) = Total(g, recs) /\ Total(f, orders_) \in Nat
  BY <1>3, <1>6, <1>10, <1>11, <1>12, <1>13
<1>16. QED
  BY <1>14, <1>15 DEF f, g
-----------------------------------------------------------------------------
(* The same prices have orders on the two books.                           *)
LEMMA OccupiedSame ==
  ASSUME NoWrap, Facts, Alike(RestingOrders, StlOrders), stlPc = "idle", NEW s \in Side
  PROVE  Occupied(s) = DOMAIN maps[s] /\ DOMAIN maps[s] \subseteq Px
<1>1. IInv /\ LevelQtys /\ StlParts
  BY DEF Facts, QInv
<1>2. DOMAIN maps[s] \subseteq Px /\ \A p \in DOMAIN maps[s] : maps[s][p].fifo # << >>
  BY <1>1 DEF StlParts, MapsHold, OnlyTaken
<1>3. ASSUME NEW p \in Px
      PROVE  p \in Occupied(s) <=> p \in DOMAIN maps[s]
  <2>1. RestingOrders[s][p] # << >> <=> p \in Occupied(s)
    BY <1>1, RulesOccupied
  <2>2. RestingOrders[s][p] = << >> <=> FifoAt(maps, s, p) = << >>
    BY <1>1, TwinTotal
  <2>3. FifoAt(maps, s, p) # << >> <=> p \in DOMAIN maps[s]
    BY <1>2 DEF FifoAt
  <2>4. QED
    BY <2>1, <2>2, <2>3
<1>4. Occupied(s) \subseteq Px
  BY DEF Occupied
<1>5. QED
  BY <1>2, <1>3, <1>4

(* Two prices none of which is better than the other are one.              *)
LEMMA BestSame ==
  ASSUME NoWrap, Facts, Alike(RestingOrders, StlOrders), Between, NEW s \in Side
  PROVE  best[s] = IF DOMAIN maps[s] = {} THEN 0 ELSE Begin(s)
<1> DEFINE D == DOMAIN maps[s]
           b == BeginOf(D, s)
<1>1. Occupied(s) = D /\ D \subseteq Px /\ Begin(s) = b
  BY OccupiedSame, BeginIsOf DEF Between
<1>2. IsBest(s, best[s])
  BY DEF Facts, QInv, Prices, Between
<1>3. IF D = {} THEN best[s] = 0 ELSE best[s] \in D /\ \A p \in D : NoBetter(s, p, best[s])
  BY <1>1, <1>2 DEF IsBest
<1>4. ASSUME D # {}
      PROVE  best[s] = b
  <2>1. b \in D /\ \A q \in D : IF s = "Buy" THEN q <= b ELSE q >= b
    BY <1>1, <1>4, BeginOfIs
  <2> DEFINE a == best[s]
  <2>2. a \in D /\ \A q \in D : IF s = "Buy" THEN q <= a ELSE q >= a
    BY <1>3, <1>4 DEF NoBetter
  <2> HIDE DEF a, b, D
  <2>3. IF s = "Buy" THEN a <= b /\ b <= a ELSE a >= b /\ b >= a
    BY <2>1, <2>2
  <2>4. a \in Int /\ b \in Int
    BY <1>1, <2>1, <2>2, LobAssumption DEF Px
  <2>5. a = b
    BY <2>3, <2>4
  <2>6. QED
    BY <2>5 DEF a
<1>5. QED
  BY <1>1, <1>3, <1>4

(* A level's counts are the same, but for the width of the tree's.         *)
LEMMA QtySame ==
  ASSUME Facts, Alike(RestingOrders, StlOrders), NEW s \in Side, NEW p \in Px
  PROVE  levels[s][p].qty % StlQtyMod =
           IF p \in DOMAIN maps[s] THEN maps[s][p].qty ELSE 0
<1> DEFINE f == FifoAt(maps, s, p)
<1>1. IInv /\ LevelQtys /\ StlParts /\ MapsHold(maps, recs) /\ Recorded(recs)
  BY DEF Facts, QInv, StlParts, MapsHold
<1>2. levels[s][p].qty = Total(f, recs)
  <2>1. levels[s][p].qty = Total(Queues[s][p], orders_)
    BY <1>1 DEF LevelQtys
  <2>2. Total(Queues[s][p], orders_) = Total(f, recs)
    BY <1>1, TwinTotal
  <2>3. QED
    BY <2>1, <2>2
<1>3. ASSUME p \in DOMAIN maps[s]
      PROVE  maps[s][p].qty = Total(f, recs) % StlQtyMod
  <2>1. f = maps[s][p].fifo
    BY <1>3 DEF FifoAt
  <2>2. LevelHolds(maps[s][p], recs, s, p)
    BY <1>1, <1>3 DEF MapsHold
  <2>3. QED
    BY <2>1, <2>2 DEF LevelHolds
<1>4. ASSUME p \notin DOMAIN maps[s]
      PROVE  Total(f, recs) % StlQtyMod = 0
  <2>1. f = << >> /\ f \in Seq(StlIds) /\ Len(f) = 0
    BY <1>4 DEF FifoAt
  <2>2. Sums(f, recs)[0] = 0
    <3>1. f \in Seq(DOMAIN recs) /\ Counted(recs, DOMAIN recs)
      BY <1>1, <2>1, HeldCounted
    <3> HIDE DEF f
    <3>2. QED
      BY <3>1, AnySums
  <2>3. Total(f, recs) = 0
    BY <2>1, <2>2 DEF Total
  <2>4. QED
    BY <2>3, QtyModNat
<1>5. QED
  BY <1>2, <1>3, <1>4

(* When the tree is about to return, the ladder having returned.           *)
LEMMA SameFills ==
  ASSUME Facts, Coupled, pc = "idle", stlPc = "match", ~ StlCrossing
  PROVE  el = es /\ Len(live_l) = Len(live_s) + (IF stlRemaining = 0 THEN 0 ELSE 1)
<1> DEFINE ls == IF stlRemaining = 0 THEN live_s ELSE Append(live_s, taker.id)
<1>1. /\ el = es
      /\ Tied(RestingOrders,
              AfterRest(StlOrders, taker.side, taker.px, taker.id, stlRemaining), live_l, ls)
  <2>1. StlParts /\ stlPc # "idle"
    BY DEF Facts
  <2>2. QED
    BY <2>1, CoupledEnd
<1>2. Len(live_l) = Len(ls)
  <2> HIDE DEF ls
  <2>1. QED
    BY <1>1 DEF Tied, Stacked
<1>3. live_s \in Seq(StlIds)
  BY DEF Facts, StackTypes
<1>4. Len(ls) = Len(live_s) + (IF stlRemaining = 0 THEN 0 ELSE 1)
  <2>1. Len(live_s) \in Nat /\ Len(Append(live_s, taker.id)) = Len(live_s) + 1
    BY <1>3
  <2>2. QED
    BY <2>1
<1>5. QED
  BY <1>1, <1>2, <1>4

LEMMA SameHolds ==
  ASSUME NoWrap, Facts, Coupled
  PROVE  SameResults
<1>1. ASSUME pc = "idle", stlPc = "match", ~ StlCrossing
      PROVE  /\ el = es
             /\ Len(live_l) = Len(live_s) + (IF stlRemaining = 0 THEN 0 ELSE 1)
  BY <1>1, SameFills
<1>2. ASSUME Between
      PROVE  /\ live_ = MaxOrders - Len(free_)
             /\ \A s \in Side :
                  /\ best[s] = IF DOMAIN maps[s] = {} THEN 0 ELSE Begin(s)
                  /\ \A p \in Px :
                       levels[s][p].qty % StlQtyMod =
                         IF p \in DOMAIN maps[s] THEN maps[s][p].qty ELSE 0
  <2>1. Alike(RestingOrders, StlOrders)
    BY <1>2, CoupledBetween DEF Tied
  <2>2. live_ = MaxOrders - Len(free_)
    BY <1>2, LiveIsUsed
  <2>3. ASSUME NEW s \in Side
        PROVE  best[s] = IF DOMAIN maps[s] = {} THEN 0 ELSE Begin(s)
    BY <1>2, <2>1, BestSame
  <2>4. ASSUME NEW s \in Side, NEW p \in Px
        PROVE  levels[s][p].qty % StlQtyMod =
                 IF p \in DOMAIN maps[s] THEN maps[s][p].qty ELSE 0
    BY <2>1, QtySame
  <2>5. QED
    BY <2>2, <2>3, <2>4, Zenon
<1>3. QED
  BY <1>1, <1>2, Zenon DEF SameResults

(* Whatever the orders and however the caller cancels them, the ladder and *)
(* the tree give the same results.                                         *)
THEOREM SameOnBoth == NoWrap => (BothSpec => []SameResults)
<1>1. SUFFICES ASSUME NoWrap
      PROVE  BothSpec => []SameResults
  OBVIOUS
<1>2. BothSpec => [](Facts /\ Coupled)
  BY <1>1, CoupledAlways
<1>3. Facts /\ Coupled => SameResults
  BY <1>1, SameHolds
<1>4. QED
  BY <1>2, <1>3, PTL

(* Both books run as each does alone: what is proved of either holds here. *)
THEOREM BothRun == BothSpec => Spec /\ StlSpec
<1>1. QED
  BY BothTyped
=============================================================================
