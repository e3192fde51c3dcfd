--------------------------- MODULE SpscRing_proofs ---------------------------
(***************************************************************************)
(* Theorems about SpscRing, for every capacity, index width and number of  *)
(* items: the type invariant, the absence of data races, FIFO delivery,    *)
(* the bound on the occupancy, size(), and the refinement of SpscQueue.    *)
(*                                                                         *)
(* All of them rest on the inductive invariant RingInv of SpscRing.  Its   *)
(* core is Bounds: a thread decides from a stale copy of the other's       *)
(* index, and the decision is still sound because that copy is a lower     *)
(* bound of the index, and the indices are less than Mod apart, so that    *)
(* the difference modulo Mod is the true difference.                       *)
(***************************************************************************)
EXTENDS SpscRing, SequenceTheorems, TLAPS

(* First, facts about %: the indices are counters modulo a word size, the  *)
(* slots are the counters modulo the capacity, which divides the word size.*)
(* Division with remainder. *)
LEMMA DivMod ==
  ASSUME NEW a \in Int, NEW m \in Nat \ {0}
  PROVE  /\ a % m \in 0 .. m - 1
         /\ a \div m \in Int
         /\ a = m * (a \div m) + (a % m)
  OBVIOUS

(* The remainder is the only one. *)
LEMMA DivModUnique ==
  ASSUME NEW a \in Int, NEW m \in Nat \ {0},
         NEW q \in Int, NEW s \in 0 .. m - 1,
         a = m * q + s
  PROVE  a % m = s
  OBVIOUS

(* A counter starts at index zero. *)
LEMMA ModZero ==
  ASSUME NEW m \in Nat \ {0}
  PROVE  0 % m = 0
<1>1. 0 \in 0 .. m - 1 /\ 0 = m * 0 + 0
  OBVIOUS
<1>2. QED
  BY <1>1, DivModUnique

(* Incrementing a counter modulo m is incrementing the counter. *)
LEMMA ModSucc ==
  ASSUME NEW a \in Nat, NEW m \in Nat \ {0}
  PROVE  ((a % m) + 1) % m = (a + 1) % m
<1> DEFINE q == a \div m
           s == a % m
           p == (s + 1) \div m
           t == (s + 1) % m
<1>1. q \in Int /\ s \in 0 .. m - 1 /\ a = m * q + s
  BY DivMod
<1>2. p \in Int /\ t \in 0 .. m - 1 /\ s + 1 = m * p + t
  BY <1>1, DivMod
<1> HIDE DEF q, s, p, t
<1>3. a + 1 = m * (q + p) + t
  BY <1>1, <1>2
<1>4. (a + 1) % m = t
  BY <1>1, <1>2, <1>3, DivModUnique
<1>5. QED
  BY <1>4 DEF t, s

(* The difference of two counters modulo m is their distance, as long as   *)
(* that distance is below m.                                               *)
LEMMA ModDiff ==
  ASSUME NEW a \in Nat, NEW b \in Nat, NEW m \in Nat \ {0}, b <= a, a - b < m
  PROVE  ((a % m) - (b % m)) % m = a - b
<1> DEFINE q == a \div m
           s == a % m
           p == b \div m
           t == b % m
<1>1. q \in Int /\ s \in 0 .. m - 1 /\ a = m * q + s
  BY DivMod
<1>2. p \in Int /\ t \in 0 .. m - 1 /\ b = m * p + t
  BY DivMod
<1> HIDE DEF q, s, p, t
<1>3. s - t = m * (p - q) + (a - b)
  BY <1>1, <1>2
<1>4. p - q \in Int /\ s - t \in Int /\ a - b \in 0 .. m - 1
  BY <1>1, <1>2
<1>5. (s - t) % m = a - b
  BY <1>3, <1>4, DivModUnique
<1>6. QED
  BY <1>5 DEF t, s

(* Counters less than m apart are equal modulo m only if they are equal.   *)
LEMMA ModInjective ==
  ASSUME NEW a \in Nat, NEW b \in Nat, NEW m \in Nat \ {0}, b < a, a - b < m
  PROVE  a % m # b % m
<1>1. b <= a
  OBVIOUS
<1>2. ((a % m) - (b % m)) % m = a - b
  BY <1>1, ModDiff
<1>3. a % m \in Int /\ 0 % m = 0
  BY DivMod, ModZero
<1>4. a % m = b % m => ((a % m) - (b % m)) % m = 0
  BY <1>3
<1>5. QED
  BY <1>2, <1>4

(* Reducing modulo a multiple of c first does not change the value mod c.  *)
LEMMA ModOfMod ==
  ASSUME NEW a \in Nat, NEW c \in Nat \ {0}, NEW k \in Nat \ {0}
  PROVE  (a % (k * c)) % c = a % c
<1> DEFINE m == k * c
           q == a \div m
           s == a % m
           p == s \div c
           t == s % c
<1>0. m \in Nat \ {0}
  OBVIOUS
<1> HIDE DEF m
<1>1. q \in Int /\ s \in 0 .. m - 1 /\ a = m * q + s
  BY <1>0, DivMod
<1>2. s \in Int
  BY <1>0, <1>1
<1>3. p \in Int /\ t \in 0 .. c - 1 /\ s = c * p + t
  <2> HIDE DEF s
  <2>1. QED
    BY <1>2, DivMod
<1> HIDE DEF q, s, p, t
<1>4. m * q = c * (k * q)
  BY <1>1 DEF m
<1>5. k * q \in Int /\ k * q + p \in Int /\ a \in Int
  BY <1>1, <1>3
<1>6. c * (k * q) + c * p = c * (k * q + p)
  <2> DEFINE u == k * q
  <2> HIDE DEF u
  <2>1. u \in Int
    BY <1>5 DEF u
  <2>2. c * u + c * p = c * (u + p)
    BY <2>1, <1>3
  <2>3. QED
    BY <2>2 DEF u
<1>7. a = c * (k * q + p) + t
  BY <1>1, <1>3, <1>4, <1>5, <1>6
<1>8. a % c = t
  <2> DEFINE v == k * q + p
  <2> HIDE DEF v
  <2>1. v \in Int /\ a = c * v + t
    BY <1>5, <1>7 DEF v
  <2>2. QED
    BY <2>1, <1>3, <1>5, DivModUnique
<1>9. QED
  BY <1>8 DEF t, s, m
-----------------------------------------------------------------------------

(* The index type counts whole laps of the ring.                           *)
LEMMA ModMultiple == \E k \in Nat \ {0} : Mod = k * Cap
  BY RingAssumption

(* It has room to tell a full ring from an empty one.                      *)
LEMMA CapBelowMod == Cap \in Nat \ {0} /\ Mod \in Nat \ {0} /\ Cap < Mod
<1>1. PICK k \in 2 .. Mod : Mod = k * Cap
  BY RingAssumption
<1>2. Cap \in Nat \ {0} /\ Mod \in Nat /\ k \in Nat \ {0} /\ k >= 2
  BY <1>1, RingAssumption
<1>3. k * Cap >= 2 * Cap
  BY <1>2
<1>4. QED
  BY <1>1, <1>2, <1>3

(* An index masked down to a slot is the counter itself modulo Cap.        *)
LEMMA SlotOfIndex ==
  ASSUME NEW a \in Nat
  PROVE  Slot(a % Mod) = Slot(a) /\ Slot(a) \in 0 .. Cap - 1
<1>1. PICK k \in Nat \ {0} : Mod = k * Cap
  BY ModMultiple
<1>2. (a % Mod) % Cap = a % Cap
  BY <1>1, ModOfMod, CapBelowMod
<1>3. a % Cap \in 0 .. Cap - 1
  BY DivMod, CapBelowMod
<1>4. QED
  BY <1>2, <1>3 DEF Slot

(* Counters less than Cap apart occupy different slots.                    *)
LEMMA SlotInjective ==
  ASSUME NEW a \in Nat, NEW b \in Nat, b < a, a - b < Cap
  PROVE  Slot(a) # Slot(b)
  BY ModInjective, CapBelowMod DEF Slot

(* The test of try_push compares the true distance of the counters.        *)
LEMMA FullIff ==
  ASSUME NEW a \in Nat, NEW b \in Nat, b <= a, a <= b + Cap
  PROVE  Full(a % Mod, b % Mod) <=> a = b + Cap
<1>1. a - b < Mod /\ Mod \in Nat \ {0}
  BY CapBelowMod
<1>2. ((a % Mod) - (b % Mod)) % Mod = a - b
  BY <1>1, ModDiff
<1>3. QED
  BY <1>2, CapBelowMod DEF Full

(* The test of try_pop compares the counters.                              *)
LEMMA EmptyIff ==
  ASSUME NEW a \in Nat, NEW b \in Nat, b <= a, a <= b + Cap
  PROVE  Empty(b % Mod, a % Mod) <=> a = b
<1>1. a - b < Mod /\ Mod \in Nat \ {0}
  BY CapBelowMod
<1>2. b < a => a % Mod # b % Mod
  BY <1>1, ModInjective
<1>3. QED
  BY <1>2 DEF Empty

(* size() of two loaded indices is the true distance of the counters.      *)
LEMMA SizeIs ==
  ASSUME NEW a \in Nat, NEW b \in Nat, b <= a, a <= b + Cap
  PROVE  Size(a % Mod, b % Mod) = a - b
<1>1. a - b < Mod /\ Mod \in Nat \ {0}
  BY CapBelowMod
<1>2. QED
  BY <1>1, ModDiff DEF Size

(* How the counters relate: what a thread has seen of the other's index is *)
(* behind it, and still close enough to bound its own.                     *)
LEMMA Counters ==
  ASSUME RingInv
  PROVE  /\ Cap \in Nat \ {0}
         /\ pushed \in Nat /\ popped \in Nat
         /\ stored \in Nat /\ loaded \in Nat
         /\ rSeen \in Nat \ {0} /\ wSeen \in Nat \ {0}
         /\ rSeen - 1 <= popped /\ popped <= wSeen - 1
         /\ wSeen - 1 <= pushed /\ pushed <= rSeen - 1 + Cap
         /\ popped <= loaded /\ loaded <= pushed /\ pushed <= stored
<1> USE DEF RingInv
<1>1. /\ Len(write_) \in Nat \ {0} /\ Len(read_) \in Nat \ {0}
      /\ rSeen \in 1 .. Len(read_) /\ wSeen \in 1 .. Len(write_)
      /\ stored \in Nat /\ loaded \in Nat
  BY DEF TypeOK
<1>2. /\ pushed \in Nat /\ popped \in Nat
      /\ rSeen \in Nat \ {0} /\ wSeen \in Nat \ {0}
      /\ rSeen - 1 <= popped /\ wSeen - 1 <= pushed
  BY <1>1 DEF pushed, popped
<1>3. popped <= wSeen - 1 /\ pushed <= rSeen - 1 + Cap
  BY DEF Bounds
<1>4. pushed <= stored /\ popped <= loaded
  BY <1>2 DEF InHand
<1>5. loaded <= pushed
  <2>1. cPc # "publish" => loaded = popped
    BY <1>2 DEF InHand
  <2>2. cPc = "publish" => loaded = popped + 1 /\ popped < wSeen - 1
    BY DEF InHand, Bounds
  <2>3. QED
    BY <1>2, <1>3, <2>1, <2>2
<1>6. QED
  BY <1>1, <1>2, <1>3, <1>4, <1>5, CapBelowMod

(* What the two calls load, and the slots they use.                        *)
LEMMA Loads ==
  ASSUME RingInv
  PROVE  /\ w = pushed % Mod /\ r = popped % Mod
         /\ read_[rSeen] = [val |-> (rSeen - 1) % Mod, view |-> rSeen - 1]
         /\ write_[wSeen] = [val |-> (wSeen - 1) % Mod, view |-> wSeen - 1]
         /\ Slot(w) = Slot(pushed) /\ Slot(pushed) \in 0 .. Cap - 1
         /\ Slot(r) = Slot(popped) /\ Slot(popped) \in 0 .. Cap - 1
<1>1. /\ rSeen \in 1 .. Len(read_) /\ wSeen \in 1 .. Len(write_)
      /\ Len(read_) \in 1 .. Len(read_) /\ Len(write_) \in 1 .. Len(write_)
  BY DEF RingInv, TypeOK
<1>2. ASSUME NEW k \in 1 .. Len(read_)
      PROVE  read_[k] = [val |-> (k - 1) % Mod, view |-> k - 1]
  BY DEF RingInv, Indices
<1>3. ASSUME NEW k \in 1 .. Len(write_)
      PROVE  write_[k] = [val |-> (k - 1) % Mod, view |-> k - 1]
  BY DEF RingInv, Indices
<1>4. w = pushed % Mod
  <2>1. write_[Len(write_)]
          = [val |-> (Len(write_) - 1) % Mod, view |-> Len(write_) - 1]
    BY <1>1, <1>3, Zenon
  <2>2. QED
    BY <2>1 DEF w, pushed
<1>5. r = popped % Mod
  <2>1. read_[Len(read_)]
          = [val |-> (Len(read_) - 1) % Mod, view |-> Len(read_) - 1]
    BY <1>1, <1>2, Zenon
  <2>2. QED
    BY <2>1 DEF r, popped
<1>6. /\ read_[rSeen] = [val |-> (rSeen - 1) % Mod, view |-> rSeen - 1]
      /\ write_[wSeen] = [val |-> (wSeen - 1) % Mod, view |-> wSeen - 1]
  BY <1>1, <1>2, <1>3, Zenon
<1>7. QED
  BY <1>4, <1>5, <1>6, Counters, SlotOfIndex
-----------------------------------------------------------------------------
(* A ring just built satisfies the invariant.                              *)
LEMMA InitIInv == Init => RingInv
<1> SUFFICES ASSUME Init PROVE RingInv
  OBVIOUS
<1>1. Len(write_) = 1 /\ Len(read_) = 1 /\ 0 % Mod = 0
  BY CapBelowMod, ModZero DEF Init
<1>2. TypeOK
  BY <1>1, CapBelowMod, RingAssumption DEF Init, TypeOK, Store
<1>3. Indices
  <2>1. \A k \in 1 .. 1 : k = 1 /\ k - 1 = 0
    OBVIOUS
  <2>2. /\ write_[1] = [val |-> 0 % Mod, view |-> 0]
        /\ read_[1] = [val |-> 0 % Mod, view |-> 0]
    BY <1>1 DEF Init
  <2>3. QED
    BY <1>1, <2>1, <2>2 DEF Indices
<1>4. InHand /\ Bounds /\ Contents /\ InOrder
  BY <1>1, CapBelowMod DEF Init, InHand, Bounds, Contents, InOrder, pushed, popped
<1>5. QED
  BY <1>2, <1>3, <1>4 DEF RingInv

(* The producer reads a stale read_ and decides.                           *)
LEMMA PushLoadStep == RingInv /\ PushLoad => RingInv'
<1> SUFFICES ASSUME RingInv, PushLoad PROVE RingInv'
  OBVIOUS
<1> USE DEF RingInv
<1>1. UNCHANGED <<write_, read_, slots, rSeen, wSeen, stored, cPc, cView, loaded, out>>
  BY DEF PushLoad, consumer
<1>2. pPc = "idle" /\ pushed < Items
  BY DEF PushLoad
<1>3. /\ pView' \in Nat /\ pView' >= rSeen - 1
      /\ pPc' \in {"idle", "store"}
      /\ pPc' = "store" => pushed < rSeen - 1 + Cap
  <2>1. pView \in Nat /\ read_[rSeen].view = rSeen - 1
    BY Loads DEF TypeOK
  <2>2. pView' = Larger(pView, rSeen - 1)
    BY <2>1 DEF PushLoad
  <2>3. Full(w, read_[rSeen].val) <=> pushed = rSeen - 1 + Cap
    <3>1. read_[rSeen].val = (rSeen - 1) % Mod /\ w = pushed % Mod
      BY Loads
    <3>2. rSeen - 1 \in Nat /\ rSeen - 1 <= pushed
      BY Counters
    <3>3. QED
      BY <3>1, <3>2, Counters, FullIff
  <2>4. pView' \in Nat /\ pView' >= rSeen - 1
    BY <2>1, <2>2, Counters DEF Larger
  <2>5. pPc' \in {"idle", "store"}
    BY DEF PushLoad
  <2>6. ASSUME pPc' = "store"
        PROVE  pushed < rSeen - 1 + Cap
    <3>1. ~ Full(w, read_[rSeen].val)
      BY <2>6 DEF PushLoad
    <3>2. pushed # rSeen - 1 + Cap
      BY <2>3, <3>1
    <3>3. QED
      BY <3>2, Counters
  <2>7. QED
    BY <2>4, <2>5, <2>6
<1>4. TypeOK'
  BY <1>1, <1>3 DEF TypeOK
<1>5. Indices' /\ Contents' /\ InOrder'
  BY <1>1 DEF Indices, Contents, InOrder
<1>6. InHand'
  BY <1>1, <1>2, <1>3 DEF InHand, pushed, popped
<1>7. Bounds'
  <2>1. pPc' = "store" => pushed < pView' + Cap
    BY <1>3, Counters
  <2>2. QED
    BY <1>1, <1>2, <1>3, <2>1 DEF Bounds, pushed, popped
<1>8. QED
  BY <1>4, <1>5, <1>6, <1>7

(* The store goes to a slot that no item in the ring occupies.             *)
LEMMA PushStoreStep == RingInv /\ PushStore => RingInv'
<1> SUFFICES ASSUME RingInv, PushStore PROVE RingInv'
  OBVIOUS
<1> USE DEF RingInv
<1>1. /\ UNCHANGED <<write_, read_, rSeen, wSeen, pView, cPc, cView, loaded, out>>
      /\ pPc = "store" /\ pPc' = "publish" /\ stored' = stored + 1
  BY DEF PushStore, consumer
<1>2. /\ slots' = [slots EXCEPT ![Slot(pushed)] = pushed + 1]
      /\ pushed < Items /\ stored = pushed /\ stored' = pushed + 1
      /\ loaded \in Nat /\ popped <= loaded
      /\ pushed < popped + Cap
  <2>1. slots' = [slots EXCEPT ![Slot(pushed)] = pushed + 1]
    BY Loads DEF PushStore
  <2>2. stored = pushed /\ stored' = pushed + 1
    BY <1>1, Counters DEF InHand
  <2>3. loaded \in Nat /\ popped <= loaded
    BY Counters DEF InHand, TypeOK
  <2>4. pushed < Items /\ pushed < popped + Cap
    BY <1>1, Counters DEF Bounds
  <2>5. QED
    BY <2>1, <2>2, <2>3, <2>4
<1>3. TypeOK'
  <2>1. pushed + 1 \in 0 .. Items /\ stored' \in Nat
    BY <1>2, Counters, RingAssumption
  <2>2. slots' \in [0 .. Cap - 1 -> 0 .. Items]
    BY <1>2, <2>1 DEF TypeOK
  <2>3. QED
    BY <1>1, <2>1, <2>2 DEF TypeOK
<1>4. Indices' /\ InOrder'
  BY <1>1 DEF Indices, InOrder
<1>5. InHand' /\ Bounds'
  BY <1>1, <1>2 DEF InHand, Bounds, pushed, popped
<1>6. Contents'
  <2> SUFFICES ASSUME NEW k \in loaded .. pushed
               PROVE  slots'[Slot(k)] = k + 1
    <3>1. loaded' .. stored' - 1 = loaded .. pushed
      BY <1>1, <1>2, Counters
    <3>2. QED
      BY <3>1 DEF Contents, Slot
  <2>1. k \in Nat /\ k <= pushed /\ pushed - k < Cap
    BY <1>2, Counters
  <2>2. Slot(k) \in 0 .. Cap - 1 /\ Slot(pushed) \in 0 .. Cap - 1
    BY <2>1, Counters, SlotOfIndex
  <2>3. CASE k = pushed
    BY <1>2, <2>2, <2>3 DEF TypeOK
  <2>4. CASE k < pushed
    <3>1. Slot(k) # Slot(pushed)
      BY <2>1, <2>4, Counters, SlotInjective
    <3>2. slots[Slot(k)] = k + 1
      BY <1>2, <2>4, Counters DEF Contents
    <3>3. QED
      BY <1>2, <2>2, <3>1, <3>2 DEF TypeOK
  <2>5. QED
    BY <2>1, <2>3, <2>4, Counters
<1>7. QED
  BY <1>3, <1>4, <1>5, <1>6

(* The new index releases the slot just stored.                            *)
LEMMA PushPublishStep == RingInv /\ PushPublish => RingInv'
<1> SUFFICES ASSUME RingInv, PushPublish PROVE RingInv'
  OBVIOUS
<1> USE DEF RingInv
<1> DEFINE e == [val |-> (w + 1) % Mod, view |-> stored]
<1>1. /\ UNCHANGED <<read_, slots, rSeen, wSeen, pView, stored, cPc, cView, loaded, out>>
      /\ pPc = "publish" /\ pPc' = "idle" /\ write_' = Append(write_, e)
  BY DEF PushPublish, consumer
<1>2. e = [val |-> (pushed + 1) % Mod, view |-> pushed + 1] /\ e \in Store
  <2>1. stored = pushed + 1
    BY <1>1 DEF InHand
  <2>2. (w + 1) % Mod = (pushed + 1) % Mod
    BY Counters, Loads, CapBelowMod, ModSucc
  <2>3. (pushed + 1) % Mod \in 0 .. Mod - 1
    <3>1. pushed + 1 \in Int /\ Mod \in Nat \ {0}
      BY Counters, CapBelowMod
    <3>2. QED
      BY <3>1, DivMod
  <2>4. QED
    BY <2>1, <2>2, <2>3, Counters DEF Store
<1> HIDE DEF e
<1>3. /\ write_' \in Seq(Store) /\ Len(write_') = Len(write_) + 1
      /\ \A k \in 1 .. Len(write_) : write_'[k] = write_[k]
      /\ write_'[Len(write_) + 1] = e
  BY <1>1, <1>2 DEF TypeOK
<1>4. Len(write_) \in Nat \ {0} /\ pushed = Len(write_) - 1 /\ pushed' = pushed + 1
  BY <1>3 DEF TypeOK, pushed
<1>5. TypeOK'
  BY <1>1, <1>3, <1>4 DEF TypeOK
<1>6. Indices'
  <2> SUFFICES ASSUME NEW k \in 1 .. Len(write_) + 1
               PROVE  write_'[k] = [val |-> (k - 1) % Mod, view |-> k - 1]
    BY <1>1, <1>3 DEF Indices
  <2>1. CASE k \in 1 .. Len(write_)
    BY <1>3, <2>1 DEF Indices
  <2>2. CASE k = Len(write_) + 1
    BY <1>2, <1>3, <1>4, <2>2
  <2>3. QED
    BY <1>4, <2>1, <2>2
<1>7. InHand'
  BY <1>1, <1>4 DEF InHand, popped
<1>8. Bounds'
  <2>1. pushed < rSeen - 1 + Cap
    BY <1>1 DEF Bounds
  <2>2. pushed' <= rSeen - 1 + Cap
    BY <1>4, <2>1, Counters
  <2>3. QED
    BY <1>1, <2>2 DEF Bounds, popped
<1>9. Contents' /\ InOrder'
  BY <1>1 DEF Contents, InOrder
<1>10. QED
  BY <1>5, <1>6, <1>7, <1>8, <1>9

(* The consumer reads a stale write_ and decides.                          *)
LEMMA PopLoadStep == RingInv /\ PopLoad => RingInv'
<1> SUFFICES ASSUME RingInv, PopLoad PROVE RingInv'
  OBVIOUS
<1> USE DEF RingInv
<1>1. UNCHANGED <<write_, read_, slots, rSeen, wSeen, loaded, out, pPc, pView, stored>>
  BY DEF PopLoad, producer
<1>2. cPc = "idle" /\ popped < Items
  BY DEF PopLoad
<1>3. /\ cView' \in Nat /\ cView' >= wSeen - 1
      /\ cPc' \in {"idle", "load"}
      /\ cPc' = "load" => popped < wSeen - 1
  <2>1. cView \in Nat /\ write_[wSeen].view = wSeen - 1
    BY Loads DEF TypeOK
  <2>2. cView' = Larger(cView, wSeen - 1)
    BY <2>1 DEF PopLoad
  <2>3. Empty(r, write_[wSeen].val) <=> wSeen - 1 = popped
    <3>1. write_[wSeen].val = (wSeen - 1) % Mod /\ r = popped % Mod
      BY Loads
    <3>2. wSeen - 1 \in Nat /\ wSeen - 1 <= popped + Cap
      BY Counters
    <3>3. QED
      BY <3>1, <3>2, Counters, EmptyIff
  <2>4. cView' \in Nat /\ cView' >= wSeen - 1
    BY <2>1, <2>2, Counters DEF Larger
  <2>5. cPc' \in {"idle", "load"}
    BY DEF PopLoad
  <2>6. ASSUME cPc' = "load"
        PROVE  popped < wSeen - 1
    <3>1. ~ Empty(r, write_[wSeen].val)
      BY <2>6 DEF PopLoad
    <3>2. QED
      BY <2>3, <3>1, Counters
  <2>7. QED
    BY <2>4, <2>5, <2>6
<1>4. TypeOK'
  BY <1>1, <1>3 DEF TypeOK
<1>5. Indices' /\ Contents' /\ InOrder'
  BY <1>1, <1>3 DEF Indices, Contents, InOrder
<1>6. InHand'
  BY <1>1, <1>2, <1>3 DEF InHand, pushed, popped
<1>7. Bounds'
  <2>1. cPc' = "load" => popped < cView'
    BY <1>3, Counters
  <2>2. QED
    BY <1>1, <1>2, <1>3, <2>1 DEF Bounds, pushed, popped
<1>8. QED
  BY <1>4, <1>5, <1>6, <1>7

(* The slot loaded holds the oldest item in the ring.                      *)
LEMMA PopSlotStep == RingInv /\ PopSlot => RingInv' /\ out' = slots[Slot(loaded)]
<1> SUFFICES ASSUME RingInv, PopSlot PROVE RingInv' /\ out' = slots[Slot(loaded)]
  OBVIOUS
<1> USE DEF RingInv
<1>1. /\ UNCHANGED <<write_, read_, slots, rSeen, wSeen, cView, pPc, pView, stored>>
      /\ cPc = "load" /\ cPc' = "publish" /\ loaded' = loaded + 1
  BY DEF PopSlot, producer
<1>2. loaded = popped /\ popped < wSeen - 1 /\ popped < Items /\ pushed <= stored
  BY <1>1, Counters DEF InHand, Bounds
<1>3. out' = slots[Slot(loaded)]
  BY <1>2, Loads DEF PopSlot
<1>4. slots[Slot(loaded)] = loaded + 1
  <2>1. loaded \in loaded .. stored - 1
    BY <1>2, Counters DEF TypeOK
  <2>2. QED
    BY <2>1 DEF Contents
<1>5. TypeOK'
  <2>1. loaded' \in Nat /\ out' \in 0 .. Items
    BY <1>1, <1>2, <1>3, <1>4, Counters, RingAssumption
  <2>2. QED
    BY <1>1, <2>1 DEF TypeOK
<1>6. Indices' /\ InOrder'
  BY <1>1, <1>3, <1>4 DEF Indices, InOrder
<1>7. InHand' /\ Bounds'
  BY <1>1, <1>2 DEF InHand, Bounds, pushed, popped
<1>8. Contents'
  BY <1>1, <1>2, Counters DEF Contents, TypeOK
<1>9. QED
  BY <1>3, <1>5, <1>6, <1>7, <1>8

(* The new index releases the slot just loaded.                            *)
LEMMA PopPublishStep == RingInv /\ PopPublish => RingInv'
<1> SUFFICES ASSUME RingInv, PopPublish PROVE RingInv'
  OBVIOUS
<1> USE DEF RingInv
<1> DEFINE e == [val |-> (r + 1) % Mod, view |-> loaded]
<1>1. /\ UNCHANGED <<write_, slots, rSeen, wSeen, cView, loaded, out, pPc, pView, stored>>
      /\ cPc = "publish" /\ cPc' = "idle" /\ read_' = Append(read_, e)
  BY DEF PopPublish, producer
<1>2. e = [val |-> (popped + 1) % Mod, view |-> popped + 1] /\ e \in Store
  <2>1. loaded = popped + 1
    BY <1>1 DEF InHand
  <2>2. (r + 1) % Mod = (popped + 1) % Mod
    BY Counters, Loads, CapBelowMod, ModSucc
  <2>3. (popped + 1) % Mod \in 0 .. Mod - 1
    <3>1. popped + 1 \in Int /\ Mod \in Nat \ {0}
      BY Counters, CapBelowMod
    <3>2. QED
      BY <3>1, DivMod
  <2>4. QED
    BY <2>1, <2>2, <2>3, Counters DEF Store
<1> HIDE DEF e
<1>3. /\ read_' \in Seq(Store) /\ Len(read_') = Len(read_) + 1
      /\ \A k \in 1 .. Len(read_) : read_'[k] = read_[k]
      /\ read_'[Len(read_) + 1] = e
  BY <1>1, <1>2 DEF TypeOK
<1>4. Len(read_) \in Nat \ {0} /\ popped = Len(read_) - 1 /\ popped' = popped + 1
  BY <1>3 DEF TypeOK, popped
<1>5. TypeOK'
  BY <1>1, <1>3, <1>4 DEF TypeOK
<1>6. Indices'
  <2> SUFFICES ASSUME NEW k \in 1 .. Len(read_) + 1
               PROVE  read_'[k] = [val |-> (k - 1) % Mod, view |-> k - 1]
    BY <1>1, <1>3 DEF Indices
  <2>1. CASE k \in 1 .. Len(read_)
    BY <1>3, <2>1 DEF Indices
  <2>2. CASE k = Len(read_) + 1
    BY <1>2, <1>3, <1>4, <2>2
  <2>3. QED
    BY <1>4, <2>1, <2>2
<1>7. InHand'
  BY <1>1, <1>4 DEF InHand, pushed
<1>8. Bounds'
  <2>1. popped < wSeen - 1
    BY <1>1 DEF Bounds
  <2>2. popped' <= wSeen - 1
    BY <1>4, <2>1, Counters
  <2>3. QED
    BY <1>1, <2>2 DEF Bounds, pushed
<1>9. Contents' /\ InOrder'
  BY <1>1 DEF Contents, InOrder
<1>10. QED
  BY <1>5, <1>6, <1>7, <1>8, <1>9

(* A thread that learns of a later store may only do more.                 *)
LEMMA WriteVisibleStep == RingInv /\ WriteVisible => RingInv'
<1> SUFFICES ASSUME RingInv, WriteVisible PROVE RingInv'
  OBVIOUS
<1> USE DEF RingInv
<1>1. /\ UNCHANGED <<write_, read_, slots, rSeen, cPc, cView, loaded, out, pPc, pView, stored>>
      /\ wSeen < Len(write_) /\ wSeen' = wSeen + 1
  BY DEF WriteVisible, producer, consumer
<1>2. TypeOK'
  BY <1>1 DEF TypeOK
<1>3. Indices' /\ InHand' /\ Contents' /\ InOrder'
  BY <1>1 DEF Indices, InHand, Contents, InOrder, pushed, popped
<1>4. Bounds'
  <2>1. pushed' = pushed /\ popped' = popped
    BY <1>1 DEF pushed, popped
  <2>2. popped <= wSeen' - 1 /\ (cPc # "idle" => popped < wSeen' - 1)
    BY <1>1, Counters DEF Bounds
  <2>3. QED
    BY <1>1, <2>1, <2>2 DEF Bounds
<1>5. QED
  BY <1>2, <1>3, <1>4

(* The same for the producer.                                              *)
LEMMA ReadVisibleStep == RingInv /\ ReadVisible => RingInv'
<1> SUFFICES ASSUME RingInv, ReadVisible PROVE RingInv'
  OBVIOUS
<1> USE DEF RingInv
<1>1. /\ UNCHANGED <<write_, read_, slots, wSeen, cPc, cView, loaded, out, pPc, pView, stored>>
      /\ rSeen < Len(read_) /\ rSeen' = rSeen + 1
  BY DEF ReadVisible, producer, consumer
<1>2. TypeOK'
  BY <1>1 DEF TypeOK
<1>3. Indices' /\ InHand' /\ Contents' /\ InOrder'
  BY <1>1 DEF Indices, InHand, Contents, InOrder, pushed, popped
<1>4. Bounds'
  <2>1. pushed' = pushed /\ popped' = popped
    BY <1>1 DEF pushed, popped
  <2>2. /\ pushed <= rSeen' - 1 + Cap
        /\ pPc # "idle" => pushed < rSeen' - 1 + Cap
    BY <1>1, Counters DEF Bounds
  <2>3. QED
    BY <1>1, <2>1, <2>2 DEF Bounds
<1>5. QED
  BY <1>2, <1>3, <1>4

(* A step that changes nothing.                                            *)
LEMMA StutterStep == RingInv /\ UNCHANGED vars => RingInv'
  BY DEF RingInv, vars, producer, consumer, TypeOK, Indices, InHand, Bounds,
         Contents, InOrder, pushed, popped

(* Every step of either thread, or of the hardware, keeps the invariant.   *)
LEMMA NextIInv == RingInv /\ [Next]_vars => RingInv'
  BY PushLoadStep, PushStoreStep, PushPublishStep, PopLoadStep, PopSlotStep,
     PopPublishStep, WriteVisibleStep, ReadVisibleStep, StutterStep
     DEF Next, TryPush, TryPop, Terminated
-----------------------------------------------------------------------------
(* The invariant holds in every reachable state.                           *)
THEOREM Inductive == Spec => []RingInv
  BY InitIInv, NextIInv, PTL DEF Spec

(* Every variable keeps its type: in particular the indices stay within    *)
(* size_t and the slots hold items.                                        *)
THEOREM TypeCorrect == Spec => []TypeOK
<1>1. RingInv => TypeOK
  BY DEF RingInv
<1>2. QED
  BY <1>1, Inductive, PTL

(* The release/acquire pairs order every two conflicting slot accesses.    *)
THEOREM RaceFree == Spec => []NoDataRace
<1>1. RingInv => NoDataRace
  BY DEF RingInv, NoDataRace, InHand, Bounds, TypeOK, pushed, popped
<1>2. QED
  BY <1>1, Inductive, PTL

(* The items come out in the order they went in, none lost or duplicated.  *)
THEOREM Fifo == Spec => []InOrder
<1>1. RingInv => InOrder
  BY DEF RingInv
<1>2. QED
  BY <1>1, Inductive, PTL

(* The ring never holds more than Cap items, nor less than none.           *)
THEOREM Bounded == Spec => []NeverOverfull
<1>1. RingInv => NeverOverfull
  BY Counters DEF NeverOverfull
<1>2. QED
  BY <1>1, Inductive, PTL

(* Property SizeBySide: size() called by the producer may count items that *)
(* are gone and by the consumer may miss items that have come, never the   *)
(* other way round, and never more than the capacity; once nothing is in   *)
(* flight it is exact, across the wrap of the indices.                     *)
THEOREM SizeEstimates == Spec => []SizeBySide
<1>1. ASSUME RingInv PROVE SizeBySide
  <2>1. /\ Cap \in Nat \ {0} /\ pushed \in Nat /\ popped \in Nat
        /\ rSeen - 1 \in Nat /\ wSeen - 1 \in Nat
        /\ rSeen - 1 <= popped /\ popped <= wSeen - 1
        /\ wSeen - 1 <= pushed /\ pushed <= rSeen - 1 + Cap
    BY <1>1, Counters
  <2>2. Size(w, read_[rSeen].val) = pushed - (rSeen - 1)
    <3>1. w = pushed % Mod /\ read_[rSeen].val = (rSeen - 1) % Mod
      BY <1>1, Loads
    <3>2. rSeen - 1 <= pushed
      BY <2>1
    <3>3. Size(pushed % Mod, (rSeen - 1) % Mod) = pushed - (rSeen - 1)
      BY <2>1, <3>2, SizeIs
    <3>4. QED
      BY <3>1, <3>3
  <2>3. Size(write_[wSeen].val, r) = (wSeen - 1) - popped
    <3>1. r = popped % Mod /\ write_[wSeen].val = (wSeen - 1) % Mod
      BY <1>1, Loads
    <3>2. wSeen - 1 <= popped + Cap
      BY <2>1
    <3>3. Size((wSeen - 1) % Mod, popped % Mod) = (wSeen - 1) - popped
      BY <2>1, <3>2, SizeIs
    <3>4. QED
      BY <3>1, <3>3
  <2>4. Size(w, r) = pushed - popped
    <3>1. w = pushed % Mod /\ r = popped % Mod
      BY <1>1, Loads
    <3>2. popped <= pushed /\ pushed <= popped + Cap
      BY <2>1
    <3>3. Size(pushed % Mod, popped % Mod) = pushed - popped
      BY <2>1, <3>2, SizeIs
    <3>4. QED
      BY <3>1, <3>3
  <2>5. QED
    BY <2>1, <2>2, <2>3, <2>4 DEF SizeBySide
<1>2. QED
  BY <1>1, Inductive, PTL
-----------------------------------------------------------------------------
(* The refinement of SpscQueue.                                            *)

(* The occupied slots, as the queue they implement.                        *)
Window == [k \in 1 .. pushed - loaded |-> slots[Slot(loaded + k - 1)]]

WindowIsQueue ==
  /\ Window = [k \in 1 .. pushed - loaded |-> loaded + k]
  /\ Window \in Seq(1 .. Items)
  /\ Len(Window) = pushed - loaded

LEMMA WindowFacts == RingInv => WindowIsQueue
<1> SUFFICES ASSUME RingInv PROVE WindowIsQueue
  OBVIOUS
<1>1. ASSUME NEW k \in 1 .. pushed - loaded
      PROVE  /\ slots[Slot(loaded + k - 1)] = loaded + k
             /\ loaded + k \in 1 .. Items
  <2>1. /\ loaded + k - 1 \in loaded .. stored - 1
        /\ loaded + k - 1 \in Nat /\ loaded + k >= 1
    BY Counters
  <2>2. slots[Slot(loaded + k - 1)] = loaded + k
    BY <2>1, Counters DEF RingInv, Contents
  <2>3. slots[Slot(loaded + k - 1)] \in 0 .. Items
    BY <2>1, SlotOfIndex DEF RingInv, TypeOK
  <2>4. QED
    BY <2>1, <2>2, <2>3, RingAssumption
<1>2. Window = [k \in 1 .. pushed - loaded |-> loaded + k]
  BY <1>1 DEF Window
<1>3. Window \in Seq(1 .. Items) /\ Len(Window) = pushed - loaded
  <2> DEFINE n == pushed - loaded
  <2>1. n \in Nat /\ \A k \in 1 .. n : loaded + k \in 1 .. Items
    BY <1>1, Counters
  <2>2. Window = [k \in 1 .. n |-> loaded + k]
    BY <1>2
  <2> HIDE DEF n
  <2>3. Window \in Seq(1 .. Items) /\ Len(Window) = n
    BY <2>1, <2>2
  <2>4. QED
    BY <2>3 DEF n
<1>4. QED
  BY <1>2, <1>3 DEF WindowIsQueue

(* The same after a step. *)
LEMMA WindowFactsNext == RingInv' => WindowIsQueue'
  BY WindowFacts, PTL

(* The store of write_ appends the item the slot already holds.            *)
LEMMA PublishIsPush == RingInv /\ RingInv' /\ PushPublish => Queue!Push(pushed + 1)
<1> SUFFICES ASSUME RingInv, RingInv', PushPublish PROVE Queue!Push(pushed + 1)
  OBVIOUS
<1>1. pushed' = pushed + 1 /\ loaded' = loaded /\ out' = out
  BY DEF PushPublish, consumer, pushed, RingInv, TypeOK
<1>2. pushed < loaded + Cap
  <2>1. pushed < rSeen - 1 + Cap
    BY DEF RingInv, Bounds, PushPublish
  <2>2. QED
    BY <2>1, Counters
<1>3. Len(Window) < Cap
  BY <1>2, Counters, WindowFacts DEF WindowIsQueue
<1>4. Window' = Append(Window, pushed + 1)
  <2> DEFINE n == pushed - loaded
  <2>1. /\ Window = [k \in 1 .. n |-> loaded + k]
        /\ Window' = [k \in 1 .. n + 1 |-> loaded + k]
    <3>1. pushed' - loaded' = n + 1
      BY <1>1, Counters
    <3>2. QED
      BY <1>1, <3>1, WindowFacts, WindowFactsNext DEF WindowIsQueue
  <2>2. n \in Nat /\ pushed + 1 = loaded + (n + 1) /\ loaded \in Nat
    BY Counters
  <2> HIDE DEF n
  <2>3. QED
    BY <2>1, <2>2
<1>5. QED
  BY <1>1, <1>3, <1>4 DEF Queue!Push, Window

(* The load of the slot removes the first item.                            *)
LEMMA SlotIsPop == RingInv /\ RingInv' /\ PopSlot => Queue!Pop
<1> SUFFICES ASSUME RingInv, RingInv', PopSlot PROVE Queue!Pop
  OBVIOUS
<1>1. pushed' = pushed /\ loaded' = loaded + 1
  BY DEF PopSlot, producer, pushed
<1>2. out' = loaded + 1
  BY <1>1 DEF RingInv, InOrder, PopSlot
<1>3. loaded < pushed
  <2>1. loaded = popped /\ popped < wSeen - 1
    BY Counters DEF RingInv, InHand, Bounds, PopSlot
  <2>2. QED
    BY <2>1, Counters
<1>4. Window # << >> /\ Head(Window) = loaded + 1 /\ Window' = Tail(Window)
  <2> DEFINE n == pushed - loaded
  <2>1. /\ Window = [k \in 1 .. n |-> loaded + k]
        /\ Window' = [k \in 1 .. n - 1 |-> loaded + 1 + k]
    <3>1. pushed' - loaded' = n - 1
      BY <1>1, Counters
    <3>2. QED
      BY <1>1, <3>1, WindowFacts, WindowFactsNext DEF WindowIsQueue
  <2>2. n \in Nat \ {0} /\ loaded \in Nat
    BY <1>3, Counters
  <2> HIDE DEF n
  <2>3. Window # << >> /\ Head(Window) = loaded + 1
    BY <2>1, <2>2
  <2>4. /\ Tail(Window) \in Seq(1 .. Items) /\ Len(Tail(Window)) = n - 1
        /\ \A k \in 1 .. n - 1 : Tail(Window)[k] = Window[k + 1]
    <3>1. Window \in Seq(1 .. Items) /\ Len(Window) = n
      BY <2>1, WindowFacts DEF WindowIsQueue, n
    <3>2. QED
      BY <3>1, <2>2, <2>3, HeadTailProperties
  <2>5. Window' \in Seq(1 .. Items) /\ Len(Window') = n - 1
    <3>1. pushed' - loaded' = n - 1
      BY <1>1, Counters DEF n
    <3>2. QED
      BY <3>1, WindowFactsNext DEF WindowIsQueue
  <2>6. \A k \in 1 .. n - 1 : Window'[k] = Tail(Window)[k]
    BY <2>1, <2>2, <2>4
  <2>7. Window' = Tail(Window)
    BY <2>4, <2>5, <2>6, SeqEqual
  <2>8. QED
    BY <2>3, <2>7
<1>5. QED
  BY <1>2, <1>4 DEF Queue!Pop, Window

(* Every other step leaves the queue as it is.                             *)
LEMMA OthersStutter ==
  RingInv /\ RingInv' /\ pushed' = pushed /\ loaded' = loaded /\ out' = out
    => UNCHANGED Queue!vars
<1> SUFFICES ASSUME RingInv, RingInv', pushed' = pushed, loaded' = loaded, out' = out
             PROVE  UNCHANGED Queue!vars
  OBVIOUS
<1>1. Window' = Window
  BY WindowFacts, WindowFactsNext DEF WindowIsQueue
<1>2. QED
  BY <1>1 DEF Queue!vars, Window

(* A ring just built is the empty queue.                                   *)
LEMMA InitRefines == Init => Queue!Init
<1> SUFFICES ASSUME Init PROVE Queue!Init
  OBVIOUS
<1>1. pushed - loaded = 0 /\ out = 0
  BY DEF Init, pushed
<1>2. QED
  BY <1>1 DEF Queue!Init

(* Every step of the ring is a step of the queue, or changes nothing.      *)
LEMMA NextRefines == RingInv /\ RingInv' /\ [Next]_vars => [Queue!Next]_(Queue!vars)
<1> SUFFICES ASSUME RingInv, RingInv', [Next]_vars
             PROVE  [Queue!Next]_(Queue!vars)
  OBVIOUS
<1>1. CASE PushPublish
  <2>1. pushed + 1 \in 1 .. Items
    BY <1>1, Counters, RingAssumption DEF RingInv, Bounds, PushPublish
  <2>2. QED
    BY <1>1, <2>1, PublishIsPush DEF Queue!Next
<1>2. CASE PopSlot
  BY <1>2, SlotIsPop DEF Queue!Next
<1>3. CASE PushLoad \/ PushStore
  BY <1>3, OthersStutter DEF PushLoad, PushStore, consumer, pushed
<1>4. CASE PopLoad \/ PopPublish
  BY <1>4, OthersStutter DEF PopLoad, PopPublish, producer, pushed
<1>5. CASE WriteVisible \/ ReadVisible \/ UNCHANGED vars
  BY <1>5, OthersStutter
     DEF WriteVisible, ReadVisible, vars, producer, consumer, pushed
<1>6. QED
  BY <1>1, <1>2, <1>3, <1>4, <1>5 DEF Next, TryPush, TryPop, Terminated

(* Whatever a client sees of the ring, it could have seen of a bounded     *)
(* FIFO queue whose operations are atomic.                                 *)
THEOREM Refinement == Spec => ImplementsQueue
  BY InitRefines, NextRefines, Inductive, PTL DEF Spec, ImplementsQueue, Queue!Spec
=============================================================================
