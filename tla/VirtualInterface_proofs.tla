----------------------- MODULE VirtualInterface_proofs -----------------------
(*****************************************************************************)
(* Theorems about VirtualInterface, for any number of buffers and packets.   *)
(*                                                                           *)
(* The buffers that are not Free stand in a circle: what the application     *)
(* holds, the queued events, the NIC's buffer, the descriptors.  Handing a   *)
(* buffer over moves a boundary of that order, posting appends to it, and    *)
(* serving an event removes its head; no buffer occurs twice (Custody).      *)
(* From it follow the single owner, and the room in both rings: an entry     *)
(* tells the thread that pops it how far the other one has come              *)
(* (Knowledge), and at most N buffers circulate.  Payload says that the      *)
(* packets in the front of the circle are whole and ordered.  Marked, which  *)
(* needs post_from's store to come in time, says that the ownership array    *)
(* agrees with the circle; then the receive path is a lossy channel.         *)
(*****************************************************************************)
EXTENDS VirtualInterface, SequenceTheorems, FiniteSetTheorems,
        FunctionTheorems, TLAPS

(* What the constants are, as far as the proofs go.                        *)
LEMMA Constants ==
  /\ N \in Nat \ {0} /\ RingCap \in Nat /\ N <= RingCap
  /\ MaxEvents \in Nat \ {0} /\ Packets \in Nat
  BY ViAssumption DEF IsNextPowerOfTwo

(* The types of what the threads hold.                                     *)
LEMMA Lengths ==
  ASSUME TypeOK
  PROVE  /\ Held \in Seq(Buffers) /\ Len(Held) \in Nat
         /\ evq \in Seq(Entry) /\ Len(evq) \in Nat
         /\ rx_ring \in Seq(Entry) /\ Len(rx_ring) \in Nat
         /\ NicLen \in 0 .. 1 /\ CircleLen \in Nat
<1>1. Held \in Seq(Buffers)
  BY HeadTailProperties DEF TypeOK, Held
<1>2. QED
  BY <1>1, LenProperties DEF TypeOK, NicLen, CircleLen

(* The four parts of the circle.                                           *)
LEMMA CircleParts ==
  ASSUME TypeOK
  PROVE  /\ \A i \in 1 .. Len(Held) : Circle[i] = Held[i]
         /\ \A i \in 1 .. Len(evq) : Circle[Len(Held) + i] = evq[i].id
         /\ NicHolds => Circle[Len(Held) + Len(evq) + 1] = desc.id
         /\ \A i \in 1 .. Len(rx_ring) :
              Circle[Len(Held) + Len(evq) + NicLen + i] = rx_ring[i].id
<1> DEFINE h == Len(Held)
           e == Len(evq)
           r == Len(rx_ring)
<1>1. /\ h \in Nat /\ e \in Nat /\ r \in Nat /\ NicLen \in 0 .. 1
      /\ NicHolds => NicLen = 1
      /\ CircleLen = h + e + NicLen + r
  BY Lengths DEF NicLen, CircleLen
<1>2. Circle = [i \in 1 .. CircleLen |->
                  IF i <= h THEN Held[i]
                  ELSE IF i <= h + e THEN evq[i - h].id
                  ELSE IF i <= h + e + NicLen THEN desc.id
                  ELSE rx_ring[i - h - e - NicLen].id]
  BY DEF Circle
<1> HIDE DEF h, e, r
<1>3. ASSUME NEW i \in 1 .. h
      PROVE  Circle[i] = Held[i]
  BY <1>1, <1>2
<1>4. ASSUME NEW i \in 1 .. e
      PROVE  Circle[h + i] = evq[i].id
  BY <1>1, <1>2
<1>5. NicHolds => Circle[h + e + 1] = desc.id
  BY <1>1, <1>2
<1>6. ASSUME NEW i \in 1 .. r
      PROVE  Circle[h + e + NicLen + i] = rx_ring[i].id
  BY <1>1, <1>2
<1>7. QED
  BY <1>3, <1>4, <1>5, <1>6 DEF h, e, r

(* It holds buffers.                                                       *)
LEMMA CircleType ==
  ASSUME TypeOK, Control
  PROVE  Circle \in [1 .. CircleLen -> Buffers]
<1>1. /\ Held \in Seq(Buffers) /\ Len(Held) \in Nat
      /\ evq \in Seq(Entry) /\ Len(evq) \in Nat
      /\ rx_ring \in Seq(Entry) /\ Len(rx_ring) \in Nat
      /\ NicLen \in 0 .. 1 /\ CircleLen \in Nat
      /\ NicLen = 1 => NicHolds
      /\ CircleLen = Len(Held) + Len(evq) + NicLen + Len(rx_ring)
  BY Lengths DEF NicLen, CircleLen
<1>2. \A i \in 1 .. Len(Held) : Held[i] \in Buffers
  BY <1>1, ElementOfSeq
<1>3. \A i \in 1 .. Len(evq) : evq[i].id \in Buffers
  <2>1. \A i \in 1 .. Len(evq) : evq[i] \in Entry
    BY <1>1, ElementOfSeq
  <2>2. QED
    BY <2>1 DEF Entry
<1>4. NicHolds => desc.id \in Buffers
  BY DEF TypeOK, Control, Entry, NoEntry
<1>5. \A i \in 1 .. Len(rx_ring) : rx_ring[i].id \in Buffers
  <2>1. \A i \in 1 .. Len(rx_ring) : rx_ring[i] \in Entry
    BY <1>1, ElementOfSeq
  <2>2. QED
    BY <2>1 DEF Entry
<1>6. QED
  BY <1>1, <1>2, <1>3, <1>4, <1>5 DEF Circle

(* The circle depends on its four parts only.                              *)
LEMMA SameParts ==
  ASSUME Held' = Held, evq' = evq, rx_ring' = rx_ring,
         NicHolds' = NicHolds, NicHolds => desc' = desc
  PROVE  NicLen' = NicLen /\ CircleLen' = CircleLen /\ Circle' = Circle
<1>1. NicLen' = NicLen /\ CircleLen' = CircleLen
  BY DEF NicLen, CircleLen
<1>2. CASE NicHolds
  BY <1>1, <1>2, Zenon DEF Circle
<1>3. CASE ~ NicHolds
  <2>1. NicLen = 0
    BY <1>3 DEF NicLen
  <2>2. QED
    BY <1>1, <2>1 DEF Circle
<1>4. QED
  BY <1>2, <1>3

(* There are no more buffers in the circle than buffers.                   *)
LEMMA Pigeonhole ==
  ASSUME NEW L \in Nat, NEW f \in [1 .. L -> Buffers],
         \A i, j \in 1 .. L : f[i] = f[j] => i = j
  PROVE  L <= N
<1>1. f \in Injection(1 .. L, Buffers)
  BY DEF Injection, IsInjective
<1>2. IsFiniteSet(Buffers) /\ Cardinality(Buffers) = N
  BY Constants, FS_Interval DEF Buffers
<1>3. Cardinality(1 .. L) = L
  BY FS_Interval
<1>4. QED
  BY <1>1, <1>2, <1>3, FS_Injection

(* A buffer outside of it leaves room for one.                             *)
LEMMA PigeonholeWithout ==
  ASSUME NEW L \in Nat, NEW f \in [1 .. L -> Buffers],
         \A i, j \in 1 .. L : f[i] = f[j] => i = j,
         NEW b \in Buffers, \A i \in 1 .. L : f[i] # b
  PROVE  L < N
<1> DEFINE g == [i \in 1 .. L + 1 |-> IF i = L + 1 THEN b ELSE f[i]]
<1>1. g \in [1 .. L + 1 -> Buffers]
  OBVIOUS
<1>2. \A i, j \in 1 .. L + 1 : g[i] = g[j] => i = j
  OBVIOUS
<1> HIDE DEF g
<1>3. L + 1 <= N
  BY <1>1, <1>2, Pigeonhole
<1>4. QED
  BY <1>3, Constants

(* The circle never holds more than the N buffers.                         *)
LEMMA CircleBound ==
  ASSUME TypeOK, Control, Custody
  PROVE  CircleLen <= N
<1>1. CircleLen \in Nat /\ Circle \in [1 .. CircleLen -> Buffers]
  BY Lengths, CircleType
<1>2. \A i, j \in 1 .. CircleLen : Circle[i] = Circle[j] => i = j
  BY DEF Custody
<1>3. QED
  BY <1>1, <1>2, Pigeonhole

(* A thread about to push a descriptor has its buffer in hand, so that the *)
(* others account for fewer than N.                                        *)
LEMMA RoomToPost ==
  ASSUME TypeOK, Control, Custody, appPc = "push"
  PROVE  Len(rx_ring) + Len(evq) + NicLen < N /\ aBuf \in Buffers
<1>1. CircleLen \in Nat /\ Circle \in [1 .. CircleLen -> Buffers]
  BY Lengths, CircleType
<1>2. /\ Held = events /\ CircleLen = Len(Held) + Len(evq) + NicLen + Len(rx_ring)
      /\ Len(Held) \in Nat /\ Len(evq) \in Nat /\ Len(rx_ring) \in Nat
      /\ NicLen \in 0 .. 1 /\ events \in Seq(Buffers)
  BY Lengths DEF Held, CircleLen, TypeOK
<1>3. CASE events # << >> /\ aBuf = Head(events)
  <2>1. Len(Held) > 0 /\ aBuf \in Buffers
    BY <1>2, <1>3, EmptySeq, HeadTailProperties
  <2>2. QED
    BY <1>2, <2>1, CircleBound, Constants
<1>4. CASE events = << >> /\ aBuf # None /\ ownership[aBuf] = "Free"
  <2>1. aBuf \in Buffers
    BY <1>4 DEF TypeOK
  <2>2. \A i \in 1 .. CircleLen : Circle[i] # aBuf
    BY <1>4 DEF Custody
  <2>3. \A i, j \in 1 .. CircleLen : Circle[i] = Circle[j] => i = j
    BY DEF Custody
  <2>4. CircleLen < N
    BY <1>1, <2>1, <2>2, <2>3, PigeonholeWithout
  <2>5. QED
    BY <1>2, <2>1, <2>4, Constants
<1>5. QED
  BY <1>3, <1>4 DEF Control

(* The descriptor ring never looks full to the application.                *)
LEMMA PostFits ==
  ASSUME InterfaceInv
  PROVE  PostNeverFails
<1>1. SUFFICES ASSUME appPc = "push", NEW seen \in rxKnown .. rxPops
               PROVE  Len(rx_ring) + rxPops - seen < RingCap
  BY DEF PostNeverFails
<1>2. Len(rx_ring) + Len(evq) + NicLen < N
  BY <1>1, RoomToPost DEF InterfaceInv
<1>3. rxPops = evPops + Len(evq) + NicLen /\ evPops <= rxKnown
  BY DEF InterfaceInv, Knowledge
<1>4. /\ Len(rx_ring) \in Nat /\ Len(evq) \in Nat /\ NicLen \in Nat
      /\ evPops \in Nat /\ rxKnown \in Nat /\ rxPops \in Nat
  BY Lengths, Constants DEF InterfaceInv, TypeOK
<1>5. QED
  BY <1>1, <1>2, <1>3, <1>4, Constants

(* The event queue never looks full to the NIC.                            *)
LEMMA EventFits ==
  ASSUME InterfaceInv
  PROVE  EventPushNeverFails
<1>1. SUFFICES ASSUME nicPc = "event", NEW seen \in evKnown .. evPops
               PROVE  Len(evq) + evPops - seen < RingCap
  BY DEF EventPushNeverFails
<1>2. rxPops = evPops + Len(evq) + 1 /\ rxPops - N <= evKnown
  BY <1>1 DEF InterfaceInv, Knowledge, NicLen, NicHolds
<1>3. /\ Len(evq) \in Nat
      /\ evPops \in Nat /\ evKnown \in Nat /\ rxPops \in Nat
  BY Lengths, Constants DEF InterfaceInv, TypeOK
<1>4. QED
  BY <1>1, <1>2, <1>3, Constants

(* A set of indices that are all the same counts for none or one.          *)
LEMMA AtMostOne ==
  ASSUME NEW n \in Nat, NEW S \in SUBSET (1 .. n), \A i, j \in S : i = j
  PROVE  Cardinality(S) \in 0 .. 1 /\ (Cardinality(S) = 0 <=> S = {})
<1>1. CASE S = {}
  BY <1>1, FS_EmptySet
<1>2. CASE S # {}
  <2>1. PICK i \in S : S = {i}
    BY <1>2
  <2>2. Cardinality(S) = 1
    BY <2>1, FS_Singleton
  <2>3. QED
    BY <1>2, <2>2
<1>3. QED
  BY <1>1, <1>2

(* The places of one buffer: together they are its places in the circle.   *)
LEMMA HandsAreCircle ==
  ASSUME TypeOK, Control, Custody, NEW b \in Buffers
  PROVE  /\ Hands(b) \in 0 .. 1
         /\ Hands(b) = 0 <=> \A i \in 1 .. CircleLen : Circle[i] # b
<1> DEFINE h == Len(Held)
           e == Len(evq)
           r == Len(rx_ring)
           R == {i \in DOMAIN rx_ring : rx_ring[i].id = b}
           E == {i \in DOMAIN evq : evq[i].id = b}
           H == {i \in DOMAIN Held : Held[i] = b}
<1>1. /\ h \in Nat /\ e \in Nat /\ r \in Nat /\ NicLen \in 0 .. 1
      /\ NicLen = 1 <=> NicHolds
      /\ CircleLen = h + e + NicLen + r
  BY Lengths DEF NicLen, CircleLen
<1>2. DOMAIN rx_ring = 1 .. r /\ DOMAIN evq = 1 .. e /\ DOMAIN Held = 1 .. h
  BY Lengths, LenProperties
<1>3. /\ \A i \in 1 .. h : Circle[i] = Held[i]
      /\ \A i \in 1 .. e : Circle[h + i] = evq[i].id
      /\ NicHolds => Circle[h + e + 1] = desc.id
      /\ \A i \in 1 .. r : Circle[h + e + NicLen + i] = rx_ring[i].id
  BY CircleParts
<1>4. \A i, j \in 1 .. CircleLen : Circle[i] = Circle[j] => i = j
  BY DEF Custody
<1>5. Hands(b) = Cardinality(R) + Cardinality(E) + Cardinality(H)
                 + IF NicHolds /\ desc.id = b THEN 1 ELSE 0
  BY DEF Hands
<1> HIDE DEF h, e, r
<1>6. ASSUME NEW i \in R
      PROVE  i \in 1 .. r /\ h + e + NicLen + i \in 1 .. CircleLen
             /\ Circle[h + e + NicLen + i] = b
  BY <1>1, <1>2, <1>3
<1>7. ASSUME NEW i \in E
      PROVE  i \in 1 .. e /\ h + i \in 1 .. CircleLen /\ Circle[h + i] = b
  BY <1>1, <1>2, <1>3
<1>8. ASSUME NEW i \in H
      PROVE  i \in 1 .. h /\ i \in 1 .. CircleLen /\ Circle[i] = b
  BY <1>1, <1>2, <1>3
<1>9. ASSUME NicHolds, desc.id = b
      PROVE  h + e + 1 \in 1 .. CircleLen /\ Circle[h + e + 1] = b
  BY <1>1, <1>3, <1>9
<1>10. /\ Cardinality(R) \in 0 .. 1 /\ (Cardinality(R) = 0 <=> R = {})
      /\ Cardinality(E) \in 0 .. 1 /\ (Cardinality(E) = 0 <=> E = {})
      /\ Cardinality(H) \in 0 .. 1 /\ (Cardinality(H) = 0 <=> H = {})
  <2>1. R \in SUBSET (1 .. r) /\ \A i, j \in R : i = j
    <3>1. R \in SUBSET (1 .. r)
      BY <1>6
    <3>2. ASSUME NEW i \in R, NEW j \in R
          PROVE  i = j
      <4>1. h + e + NicLen + i = h + e + NicLen + j
        BY <1>4, <1>6
      <4>2. QED
        BY <1>1, <1>6, <4>1
    <3>3. QED
      BY <3>1, <3>2
  <2>2. E \in SUBSET (1 .. e) /\ \A i, j \in E : i = j
    <3>1. E \in SUBSET (1 .. e)
      BY <1>7
    <3>2. ASSUME NEW i \in E, NEW j \in E
          PROVE  i = j
      <4>1. h + i = h + j
        BY <1>4, <1>7
      <4>2. QED
        BY <1>1, <1>7, <4>1
    <3>3. QED
      BY <3>1, <3>2
  <2>3. H \in SUBSET (1 .. h) /\ \A i, j \in H : i = j
    BY <1>4, <1>8
  <2> HIDE DEF R, E, H
  <2>4. QED
    BY <1>1, <2>1, <2>2, <2>3, AtMostOne
<1>11. /\ \A i \in E, j \in H : FALSE
       /\ \A i \in R, j \in H : FALSE
       /\ \A i \in R, j \in E : FALSE
       /\ NicHolds /\ desc.id = b => R = {} /\ E = {} /\ H = {}
  <2>1. ASSUME NEW i \in E, NEW j \in H
        PROVE  FALSE
    <3>1. h + i = j
      BY <1>4, <1>7, <1>8
    <3>2. QED
      BY <1>1, <1>7, <1>8, <3>1
  <2>2. ASSUME NEW i \in R, NEW j \in H
        PROVE  FALSE
    <3>1. h + e + NicLen + i = j
      BY <1>4, <1>6, <1>8
    <3>2. QED
      BY <1>1, <1>6, <1>8, <3>1
  <2>3. ASSUME NEW i \in R, NEW j \in E
        PROVE  FALSE
    <3>1. h + e + NicLen + i = h + j
      BY <1>4, <1>6, <1>7
    <3>2. QED
      BY <1>1, <1>6, <1>7, <3>1
  <2>4. ASSUME NicHolds, desc.id = b
        PROVE  R = {} /\ E = {} /\ H = {}
    <3>1. NicLen = 1
      BY <1>1, <2>4
    <3>2. ASSUME NEW i \in R PROVE FALSE
      <4>1. h + e + NicLen + i = h + e + 1
        BY <1>4, <1>6, <1>9, <2>4
      <4>2. QED
        BY <1>1, <1>6, <3>1, <4>1
    <3>3. ASSUME NEW i \in E PROVE FALSE
      <4>1. h + i = h + e + 1
        BY <1>4, <1>7, <1>9, <2>4
      <4>2. QED
        BY <1>1, <1>7, <4>1
    <3>4. ASSUME NEW i \in H PROVE FALSE
      <4>1. i = h + e + 1
        BY <1>4, <1>8, <1>9, <2>4
      <4>2. QED
        BY <1>1, <1>8, <4>1
    <3> HIDE DEF R, E, H
    <3>5. QED
      BY <3>2, <3>3, <3>4
  <2>5. QED
    BY <2>1, <2>2, <2>3, <2>4
<1>12. (\A i \in 1 .. CircleLen : Circle[i] # b)
         <=> R = {} /\ E = {} /\ H = {} /\ ~ (NicHolds /\ desc.id = b)
  <2>1. ASSUME NEW i \in 1 .. CircleLen, Circle[i] = b
        PROVE  R # {} \/ E # {} \/ H # {} \/ (NicHolds /\ desc.id = b)
    <3>1. CASE i <= h
      BY <1>1, <1>2, <1>3, <2>1, <3>1
    <3>2. CASE i > h /\ i <= h + e
      <4>1. i - h \in 1 .. e /\ h + (i - h) = i
        BY <1>1, <3>2
      <4>2. QED
        BY <1>2, <1>3, <2>1, <4>1
    <3>3. CASE i > h + e /\ i <= h + e + NicLen
      BY <1>1, <1>3, <2>1, <3>3
    <3>4. CASE i > h + e + NicLen
      <4>1. i - h - e - NicLen \in 1 .. r
            /\ h + e + NicLen + (i - h - e - NicLen) = i
        BY <1>1, <3>4
      <4>2. QED
        BY <1>2, <1>3, <2>1, <4>1
    <3>5. QED
      BY <1>1, <3>1, <3>2, <3>3, <3>4
  <2>2. ASSUME R # {} \/ E # {} \/ H # {} \/ (NicHolds /\ desc.id = b)
        PROVE  \E i \in 1 .. CircleLen : Circle[i] = b
    <3> HIDE DEF R, E, H
    <3>1. QED
      BY <1>6, <1>7, <1>8, <1>9, <2>2
  <2>3. QED
    BY <2>1, <2>2
<1> HIDE DEF R, E, H
<1>13. QED
  BY <1>5, <1>10, <1>11, <1>12

(* Initially nothing circulates.                                           *)
LEMMA InitIInv == Init => InterfaceInv
<1> SUFFICES ASSUME Init
             PROVE  InterfaceInv
  OBVIOUS
<1> USE DEF Init
<1>1. TypeOK
  <2>1. /\ ownership \in [Buffers -> BufferState]
        /\ pool \in [Buffers -> {None, Torn} \cup 0 .. Packets - 1]
    BY DEF BufferState
  <2>2. stats \in [{"posted", "completed", "dropped", "rx_overrun"} -> 0 .. N + Packets]
    BY Constants
  <2>3. /\ started \in BOOLEAN /\ wait \in BOOLEAN
        /\ aBuf \in Buffers \cup {None}
        /\ ev \in Entry \cup {NoEntry} /\ desc \in Entry \cup {NoEntry}
    OBVIOUS
  <2>4. /\ rx_ring \in Seq(Entry) /\ Len(rx_ring) <= RingCap
        /\ evq \in Seq(Entry) /\ Len(evq) <= RingCap
        /\ events \in Seq(Buffers) /\ Len(events) <= MaxEvents
        /\ got \in Seq({None, Torn} \cup 0 .. Packets - 1)
    BY Constants, EmptySeq
  <2>5. QED
    BY <2>1, <2>2, <2>3, <2>4, Constants DEF TypeOK
<1>2. Held = << >> /\ ~ NicHolds /\ CircleLen = 0
  BY EmptySeq DEF Held, NicHolds, NicLen, CircleLen
<1>3. Control /\ Custody
  BY <1>2 DEF Control, Custody
<1>4. Knowledge
  BY <1>2, EmptySeq, Constants DEF Knowledge, NicLen
<1>5. Payload
  BY <1>2, EmptySeq DEF Payload, FirstUnread
<1>6. StatsConserved
  BY <1>2, EmptySeq DEF StatsConserved
<1>7. QED
  BY <1>1, <1>3, <1>4, <1>5, <1>6 DEF InterfaceInv

(* Payload survives a step that moves the waiting packets forward by k     *)
(* places, adds none and lets the application read none.                   *)
LEMMA PayloadFrame ==
  ASSUME Payload, got' = got, Arrived \in Int, Arrived' \in Int,
         Arrived <= Arrived',
         nicPc' \in {"complete", "event"} => pool'[desc'.id] = seq',
         FirstUnread \in Int, FirstUnread' \in Int, NEW k \in Nat,
         Len(Held) + Len(evq) \in Int, (Len(Held) + Len(evq))' \in Int,
         \A i \in FirstUnread' .. (Len(Held) + Len(evq))' :
           /\ i + k \in FirstUnread .. Len(Held) + Len(evq)
           /\ Packet(i)' = Packet(i + k)
  PROVE  Payload'
<1> DEFINE last == Len(Held) + Len(evq)
<1>1. /\ \A i \in FirstUnread .. last :
           /\ Packet(i) \in 0 .. Arrived - 1
           /\ \A j \in FirstUnread .. i - 1 : Packet(j) < Packet(i)
           /\ \A g \in 1 .. Len(got) : got[g] < Packet(i)
      /\ \A g \in 1 .. Len(got) :
           /\ got[g] \in 0 .. Arrived - 1
           /\ \A h \in 1 .. g - 1 : got[h] < got[g]
  BY DEF Payload
<1>2. ASSUME NEW i \in FirstUnread' .. last'
      PROVE  /\ Packet(i)' \in 0 .. Arrived' - 1
             /\ \A j \in FirstUnread' .. i - 1 : Packet(j)' < Packet(i)'
             /\ \A g \in 1 .. Len(got') : got'[g] < Packet(i)'
  <2>1. i + k \in FirstUnread .. last /\ Packet(i)' = Packet(i + k)
    OBVIOUS
  <2>2. ASSUME NEW j \in FirstUnread' .. i - 1
        PROVE  Packet(j)' < Packet(i)'
    <3>1. j \in FirstUnread' .. last'
      OBVIOUS
    <3>2. j + k \in FirstUnread .. last /\ Packet(j)' = Packet(j + k)
      BY <3>1
    <3>3. j + k \in FirstUnread .. (i + k) - 1
      BY <2>1, <3>2
    <3>4. QED
      BY <1>1, <2>1, <3>2, <3>3
  <2>3. QED
    BY <1>1, <2>1, <2>2
<1>3. ASSUME NEW g \in 1 .. Len(got')
      PROVE  /\ got'[g] \in 0 .. Arrived' - 1
             /\ \A h \in 1 .. g - 1 : got'[h] < got'[g]
  BY <1>1
<1>4. QED
  BY <1>2, <1>3 DEF Payload

(* The same for a step that leaves the circle and the packets in it alone. *)
LEMMA PayloadStays ==
  ASSUME InterfaceInv, TypeOK', got' = got, Arrived <= Arrived',
         nicPc' \in {"complete", "event"} => pool'[desc'.id] = seq',
         FirstUnread <= FirstUnread', Circle' = Circle,
         (Len(Held) + Len(evq))' = Len(Held) + Len(evq),
         \A i \in 1 .. Len(Held) + Len(evq) : pool'[Circle[i]] = pool[Circle[i]]
  PROVE  Payload'
<1>1. TypeOK /\ Payload
  BY DEF InterfaceInv
<1>2. seq \in Int /\ seq' \in Int
  BY <1>1, Constants DEF TypeOK
<1>3. Arrived \in Int /\ Arrived' \in Int
      /\ FirstUnread \in 1 .. 2 /\ FirstUnread' \in 1 .. 2
  BY <1>2 DEF Arrived, FirstUnread
<1>4. Len(Held) + Len(evq) \in Int
  BY <1>1, Lengths
<1>5. ASSUME NEW i \in FirstUnread' .. (Len(Held) + Len(evq))'
      PROVE  /\ i + 0 \in FirstUnread .. Len(Held) + Len(evq)
             /\ Packet(i)' = Packet(i + 0)
  <2>1. i \in FirstUnread .. Len(Held) + Len(evq) /\ i + 0 = i
    BY <1>3, <1>4
  <2>2. i \in 1 .. Len(Held) + Len(evq)
    BY <1>3, <1>4, <2>1
  <2>3. QED
    BY <2>1, <2>2 DEF Packet
<1>6. QED
  BY <1>1, <1>3, <1>4, <1>5, PayloadFrame

(* Knowledge survives a step that pops and pushes nothing.                 *)
LEMMA KnowledgeStays ==
  ASSUME Knowledge, evq' = evq, rx_ring' = rx_ring, NicLen' = NicLen,
         rxPops' = rxPops, evPops' = evPops, rxKnown' = rxKnown,
         evKnown' = evKnown
  PROVE  Knowledge'
  BY DEF Knowledge

(* A step that hands no buffer over, and reads none, preserves             *)
(* InterfaceInv when it preserves the rest.                                *)
LEMMA NothingMoves ==
  ASSUME InterfaceInv, TypeOK',
         Held' = Held, evq' = evq, rx_ring' = rx_ring,
         NicHolds' = NicHolds, NicHolds => desc' = desc,
         rxPops' = rxPops, evPops' = evPops, rxKnown' = rxKnown,
         evKnown' = evKnown, got' = got,
         FirstUnread <= FirstUnread', Arrived <= Arrived',
         nicPc' \in {"complete", "event"} => pool'[desc'.id] = seq',
         \A i \in 1 .. Len(Held) + Len(evq) : pool'[Circle[i]] = pool[Circle[i]],
         Control',
         \A i \in 1 .. CircleLen :
           ownership'[Circle[i]] = "Free" => appPc' = "own" /\ aBuf' = Circle[i],
         StatsConserved'
  PROVE  InterfaceInv' /\ CircleLen' = CircleLen /\ Circle' = Circle
<1>1. NicLen' = NicLen /\ CircleLen' = CircleLen /\ Circle' = Circle
  BY SameParts
<1>2. Custody'
  BY <1>1 DEF InterfaceInv, Custody
<1>3. Knowledge'
  BY <1>1, KnowledgeStays DEF InterfaceInv
<1>4. Payload'
  BY <1>1, PayloadStays
<1>5. QED
  BY <1>1, <1>2, <1>3, <1>4 DEF InterfaceInv

(* The sequence poll returned is empty, or has a first event.              *)
LEMMA Events ==
  ASSUME TypeOK
  PROVE  /\ events \in Seq(Buffers) /\ Len(events) \in Nat
         /\ events = << >> <=> Len(events) = 0
         /\ events # << >> =>
              /\ Head(events) \in Buffers /\ Head(events) = events[1]
              /\ Tail(events) \in Seq(Buffers) /\ Len(Tail(events)) = Len(events) - 1
              /\ \A i \in 1 .. Len(Tail(events)) : Tail(events)[i] = events[i + 1]
<1>1. events \in Seq(Buffers)
  BY DEF TypeOK
<1>2. QED
  BY <1>1, EmptySeq, LenProperties, HeadTailProperties

(* The steps of the application, one by one: Start moves no buffer.        *)
LEMMA StartIInv ==
  ASSUME InterfaceInv, Start
  PROVE  InterfaceInv' /\ CircleLen' = CircleLen /\ Circle' = Circle
<1> USE DEF Start, app, nic
<1>1. TypeOK' /\ Control' /\ StatsConserved'
  BY DEF InterfaceInv, TypeOK, Control, StatsConserved, NicHolds, CircleLen, NicLen,
         Held, Circle
<1>2. /\ Held' = Held /\ NicHolds' = NicHolds /\ FirstUnread <= FirstUnread'
      /\ Arrived' = Arrived /\ Arrived \in Int
  BY Constants DEF Held, NicHolds, FirstUnread, Arrived, InterfaceInv, TypeOK
<1>3. nicPc' \in {"complete", "event"} => pool'[desc'.id] = seq'
  BY DEF InterfaceInv, Payload
<1>4. QED
  BY <1>1, <1>2, <1>3, NothingMoves DEF InterfaceInv, Custody

(* Post takes a Free buffer in hand, which is not in the circle yet.       *)
LEMMA PostIInv ==
  ASSUME InterfaceInv, NEW id \in Buffers, Post(id)
  PROVE  InterfaceInv' /\ CircleLen' = CircleLen /\ Circle' = Circle
<1> USE DEF Post, nic
<1>1. TypeOK' /\ StatsConserved'
  BY DEF InterfaceInv, TypeOK, StatsConserved, NicHolds
<1>2. events = << >> /\ events' = << >> /\ id # None
  BY DEF InterfaceInv, Control, Buffers, None
<1>3. /\ Held' = Held /\ NicHolds' = NicHolds /\ FirstUnread <= FirstUnread'
      /\ Arrived' = Arrived /\ Arrived \in Int
  BY <1>2, Constants DEF Held, NicHolds, FirstUnread, Arrived, InterfaceInv, TypeOK
<1>4. Control'
  BY <1>2, <1>3 DEF Control, NicHolds, InterfaceInv
<1>5. nicPc' \in {"complete", "event"} => pool'[desc'.id] = seq'
  BY DEF InterfaceInv, Payload
<1>6. QED
  BY <1>1, <1>3, <1>4, <1>5, NothingMoves DEF InterfaceInv, Custody

(* When poll returns it holds at least one event.                          *)
LEMMA PollReturnIInv ==
  ASSUME InterfaceInv, PollReturn
  PROVE  InterfaceInv' /\ CircleLen' = CircleLen /\ Circle' = Circle
<1> USE DEF PollReturn, nic
<1>1. TypeOK' /\ StatsConserved' /\ Control'
  BY DEF InterfaceInv, TypeOK, StatsConserved, NicHolds, Control
<1>2. /\ Held' = Held /\ NicHolds' = NicHolds /\ FirstUnread <= FirstUnread'
      /\ Arrived' = Arrived /\ Arrived \in Int
  BY Constants DEF Held, NicHolds, FirstUnread, Arrived, InterfaceInv, TypeOK
<1>3. nicPc' \in {"complete", "event"} => pool'[desc'.id] = seq'
  BY DEF InterfaceInv, Payload
<1>4. QED
  BY <1>1, <1>2, <1>3, NothingMoves DEF InterfaceInv, Custody

(* Data takes the first event that is held.                                *)
LEMMA DataIInv ==
  ASSUME InterfaceInv, Data
  PROVE  InterfaceInv' /\ CircleLen' = CircleLen /\ Circle' = Circle
<1> USE DEF Data, nic
<1>1. events # << >> /\ Head(events) \in Buffers
  BY Events DEF InterfaceInv, Control
<1>2. TypeOK' /\ StatsConserved' /\ Control'
  BY <1>1 DEF InterfaceInv, TypeOK, StatsConserved, NicHolds, Control
<1>3. /\ Held' = Held /\ NicHolds' = NicHolds /\ FirstUnread <= FirstUnread'
      /\ Arrived' = Arrived /\ Arrived \in Int
  BY Constants DEF Held, NicHolds, FirstUnread, Arrived, InterfaceInv, TypeOK
<1>4. nicPc' \in {"complete", "event"} => pool'[desc'.id] = seq'
  BY DEF InterfaceInv, Payload
<1>5. QED
  BY <1>2, <1>3, <1>4, NothingMoves DEF InterfaceInv, Custody

(* In post_from the application's buffer is the last descriptor posted.    *)
LEMMA SetPostedIInv ==
  ASSUME InterfaceInv, SetPosted
  PROVE  InterfaceInv' /\ CircleLen' = CircleLen /\ Circle' = Circle
<1> USE DEF SetPosted, nic
<1>1. CircleLen > 0 /\ aBuf = Circle[CircleLen] /\ aBuf \in Buffers
  BY CircleType, Lengths DEF InterfaceInv, Control
<1>2. TypeOK' /\ StatsConserved'
  BY <1>1 DEF InterfaceInv, TypeOK, StatsConserved, NicHolds, BufferState
<1>3. /\ Held' = Held /\ NicHolds' = NicHolds /\ FirstUnread <= FirstUnread'
      /\ Arrived' = Arrived /\ Arrived \in Int
  BY Constants DEF Held, NicHolds, FirstUnread, Arrived, InterfaceInv, TypeOK
<1>4. CircleLen' = CircleLen /\ Circle' = Circle
  BY <1>3, SameParts
<1>5. Control'
  BY <1>1, <1>3, <1>4 DEF Control, InterfaceInv
<1>6. nicPc' \in {"complete", "event"} => pool'[desc'.id] = seq'
  BY DEF InterfaceInv, Payload
<1>7. ASSUME NEW i \in 1 .. CircleLen
      PROVE  ownership'[Circle[i]] # "Free"
  BY <1>1, CircleType DEF InterfaceInv, Custody, TypeOK
<1>8. QED
  BY <1>2, <1>3, <1>5, <1>6, <1>7, NothingMoves

(* Going on to the next event removes the head of the sequence.            *)
LEMMA NextEventIs ==
  ASSUME TypeOK, NextEvent
  PROVE  /\ aBuf' = None /\ appPc' \in {"idle", "serve"}
         /\ events' \in Seq(Buffers) /\ Len(events') <= Len(events)
         /\ Len(events') \in Nat /\ Len(events) \in Nat
         /\ events' = IF events = << >> THEN << >> ELSE Tail(events)
         /\ appPc' = "idle" => events' = << >>
         /\ appPc' = "serve" => events' # << >>
<1>1. CASE events = << >>
  BY <1>1, Events, EmptySeq DEF NextEvent
<1>2. CASE events # << >>
  <2>1. Tail(events) \in Seq(Buffers) /\ Len(Tail(events)) = Len(events) - 1
        /\ Len(events) \in Nat /\ Len(events) # 0
    BY <1>2, Events
  <2>2. Tail(events) = << >> <=> Len(Tail(events)) = 0
    BY <2>1, EmptySeq
  <2>3. /\ aBuf' = None /\ events' = Tail(events)
        /\ appPc' = IF Len(events) <= 1 THEN "idle" ELSE "serve"
    BY <1>2 DEF NextEvent
  <2>4. /\ events' \in Seq(Buffers) /\ Len(events') = Len(events) - 1
        /\ events' = << >> <=> Len(events') = 0
    BY <2>1, <2>2, <2>3
  <2>5. QED
    BY <1>2, <2>1, <2>3, <2>4
<1>3. QED
  BY <1>1, <1>2

(* Counting a post ends the call; the event it served is not held since    *)
(* the descriptor was pushed.                                              *)
LEMMA CountPostedIInv ==
  ASSUME InterfaceInv, CountPosted
  PROVE  InterfaceInv' /\ CircleLen' = CircleLen /\ Circle' = Circle /\ Held' = Held
<1> USE DEF CountPosted, nic
<1>1. TypeOK /\ StatsConserved /\ Control /\ Custody /\ NextEvent
  BY DEF InterfaceInv
<1>2. /\ aBuf' = None /\ appPc' \in {"idle", "serve"}
      /\ events' \in Seq(Buffers) /\ Len(events') <= Len(events)
      /\ Len(events') \in Nat /\ Len(events) \in Nat
      /\ events' = IF events = << >> THEN << >> ELSE Tail(events)
      /\ appPc' = "idle" => events' = << >>
      /\ appPc' = "serve" => events' # << >>
  BY <1>1, NextEventIs
<1>3. /\ Held' = Held /\ NicHolds' = NicHolds /\ FirstUnread <= FirstUnread'
      /\ Arrived' = Arrived /\ Arrived \in Int
  BY <1>1, <1>2, Constants DEF Held, NicHolds, FirstUnread, Arrived, TypeOK
<1>4. Control'
  BY <1>1, <1>2, <1>3 DEF Control
<1>5. /\ stats.posted \in 0 .. N + Packets
      /\ stats' = [stats EXCEPT !["posted"] = stats.posted + 1]
      /\ stats \in [{"posted", "completed", "dropped", "rx_overrun"} -> 0 .. N + Packets]
  BY <1>1 DEF TypeOK, Bump
<1>6. /\ stats'.posted = stats.posted + 1 /\ stats'.completed = stats.completed
      /\ stats'.dropped = stats.dropped /\ stats'.rx_overrun = stats.rx_overrun
  BY <1>5
<1>7. StatsConserved'
  BY <1>1, <1>2, <1>3, <1>5, <1>6, Constants DEF StatsConserved
<1>8. stats.posted + 1 \in 0 .. N + Packets
  <2>1. CircleLen <= N /\ Len(rx_ring) <= CircleLen
    BY <1>1, CircleBound, Lengths DEF CircleLen
  <2>2. stats.posted + 1 = Len(rx_ring) + rxPops
    BY <1>1 DEF StatsConserved
  <2>3. rxPops \in 0 .. Packets /\ Len(rx_ring) \in Nat /\ N \in Nat
        /\ CircleLen \in Nat
    BY <1>1, Constants, Lengths DEF TypeOK, CircleLen
  <2>4. QED
    BY <2>1, <2>2, <2>3, Constants
<1>9. stats' \in [{"posted", "completed", "dropped", "rx_overrun"} -> 0 .. N + Packets]
  BY <1>5, <1>8
<1>10. TypeOK'
  <2>1. Len(events') <= MaxEvents
    BY <1>1, <1>2, Constants DEF TypeOK
  <2>2. aBuf' \in Buffers \cup {None} /\ appPc' \in {"idle", "serve"}
        /\ events' \in Seq(Buffers)
    BY <1>2
  <2>3. QED
    BY <1>1, <1>9, <2>1, <2>2 DEF TypeOK
<1>11. nicPc' \in {"complete", "event"} => pool'[desc'.id] = seq'
  BY DEF InterfaceInv, Payload
<1>12. QED
  BY <1>1, <1>3, <1>4, <1>7, <1>10, <1>11, NothingMoves DEF Custody

(* The buffer of the NIC is in its place in the circle, and no other.      *)
LEMMA NicBuffer ==
  ASSUME TypeOK, Control, Custody, NicHolds
  PROVE  /\ desc.id \in Buffers /\ NicLen = 1
         /\ Len(Held) + Len(evq) + 1 \in 1 .. CircleLen
         /\ Circle[Len(Held) + Len(evq) + 1] = desc.id
         /\ \A i \in 1 .. CircleLen :
              Circle[i] = desc.id => i = Len(Held) + Len(evq) + 1
<1>1. /\ Len(Held) \in Nat /\ Len(evq) \in Nat /\ Len(rx_ring) \in Nat
      /\ NicLen = 1 /\ CircleLen = Len(Held) + Len(evq) + NicLen + Len(rx_ring)
  BY Lengths DEF NicLen, CircleLen
<1>2. Circle[Len(Held) + Len(evq) + 1] = desc.id
  BY CircleParts
<1>3. Len(Held) + Len(evq) + 1 \in 1 .. CircleLen
  BY <1>1
<1>4. desc.id \in Buffers
  BY <1>2, <1>3, CircleType
<1>5. QED
  BY <1>1, <1>2, <1>3, <1>4 DEF Custody

(* Bumping a counter adds one to it and leaves the others alone.           *)
LEMMA BumpIs ==
  ASSUME TypeOK, NEW f \in {"posted", "completed", "dropped", "rx_overrun"},
         Bump(f), stats[f] + 1 <= N + Packets
  PROVE  /\ stats' \in [{"posted", "completed", "dropped", "rx_overrun"}
                          -> 0 .. N + Packets]
         /\ \A g \in {"posted", "completed", "dropped", "rx_overrun"} :
              stats'[g] = IF g = f THEN stats[g] + 1 ELSE stats[g]
<1>1. stats \in [{"posted", "completed", "dropped", "rx_overrun"} -> 0 .. N + Packets]
  BY DEF TypeOK
<1>2. stats' = [stats EXCEPT ![f] = stats[f] + 1]
  BY DEF Bump
<1>3. stats[f] + 1 \in 0 .. N + Packets
  BY <1>1, Constants
<1>4. QED
  BY <1>1, <1>2, <1>3

(* What the counters count lies within the bounds of the model.            *)
LEMMA StatsBounds ==
  ASSUME TypeOK, Control, StatsConserved
  PROVE  /\ stats.completed \in Nat /\ stats.dropped \in Nat
         /\ stats.rx_overrun \in Nat /\ stats.posted \in Nat
         /\ stats.completed + stats.dropped = seq
         /\ stats.rx_overrun <= seq + 1 /\ seq <= Packets
         /\ nicPc # "idle" => seq < Packets
<1>1. /\ stats.completed \in Nat /\ stats.dropped \in Nat
      /\ stats.rx_overrun \in Nat /\ stats.posted \in Nat
      /\ seq \in Nat /\ seq <= Packets
  BY Constants DEF TypeOK
<1>2. QED
  BY <1>1 DEF StatsConserved, Control

(* An overrun is counted, then a drop.                                     *)
LEMMA NoBufferIInv ==
  ASSUME InterfaceInv, NoBuffer
  PROVE  InterfaceInv' /\ CircleLen' = CircleLen /\ Circle' = Circle
<1> USE DEF NoBuffer, app
<1>1. TypeOK /\ Control /\ Custody /\ StatsConserved
  BY DEF InterfaceInv
<1>2. /\ Held' = Held /\ NicHolds' = NicHolds /\ FirstUnread <= FirstUnread'
      /\ Arrived <= Arrived' /\ NicLen' = NicLen
  BY <1>1, Constants DEF Held, NicHolds, FirstUnread, Arrived, TypeOK, NicLen
<1>3. CircleLen' = CircleLen /\ Circle' = Circle
  BY <1>2, SameParts DEF NicHolds
<1>4. Control'
  BY <1>1, <1>2, <1>3 DEF Control
<1>5. /\ stats' \in [{"posted", "completed", "dropped", "rx_overrun"}
                       -> 0 .. N + Packets]
      /\ stats'.rx_overrun = stats.rx_overrun + 1
      /\ stats'.posted = stats.posted /\ stats'.completed = stats.completed
      /\ stats'.dropped = stats.dropped
  <2>1. stats["rx_overrun"] + 1 <= N + Packets
    <3>1. stats.dropped = stats.rx_overrun
      BY <1>1, StatsBounds DEF StatsConserved
    <3>2. QED
      BY <1>1, <3>1, StatsBounds, Constants
  <2>2. QED
    BY <1>1, <2>1, BumpIs
<1>6. StatsConserved'
  BY <1>1, <1>2, <1>5, StatsBounds DEF StatsConserved, NicHolds
<1>7. TypeOK'
  BY <1>1, <1>5 DEF TypeOK
<1>8. QED
  BY <1>1, <1>2, <1>4, <1>6, <1>7, NothingMoves DEF Custody

(* The drop catches up with the overrun, and the packet is done with.      *)
LEMMA CountDroppedIInv ==
  ASSUME InterfaceInv, CountDropped
  PROVE  InterfaceInv' /\ CircleLen' = CircleLen /\ Circle' = Circle
<1> USE DEF CountDropped, app
<1>1. TypeOK /\ Control /\ Custody /\ StatsConserved
  BY DEF InterfaceInv
<1>2. /\ Held' = Held /\ NicHolds' = NicHolds /\ FirstUnread <= FirstUnread'
      /\ Arrived <= Arrived' /\ NicLen' = NicLen
  BY <1>1, Constants DEF Held, NicHolds, FirstUnread, Arrived, TypeOK, NicLen
<1>3. CircleLen' = CircleLen /\ Circle' = Circle
  BY <1>2, SameParts DEF NicHolds
<1>4. Control'
  BY <1>1, <1>2, <1>3 DEF Control
<1>5. /\ stats' \in [{"posted", "completed", "dropped", "rx_overrun"}
                       -> 0 .. N + Packets]
      /\ stats'.dropped = stats.dropped + 1
      /\ stats'.posted = stats.posted /\ stats'.completed = stats.completed
      /\ stats'.rx_overrun = stats.rx_overrun
  <2>1. stats["dropped"] + 1 <= N + Packets
    <3>1. seq < Packets /\ stats.completed + stats.dropped = seq
          /\ stats.completed \in Nat /\ stats.dropped \in Nat
      BY <1>1, StatsBounds
    <3>2. QED
      BY <3>1, Constants
  <2>2. QED
    BY <1>1, <2>1, BumpIs
<1>6. StatsConserved'
  BY <1>1, <1>2, <1>5, StatsBounds DEF StatsConserved, NicHolds
<1>7. TypeOK'
  <2>1. seq + 1 \in 0 .. Packets
    BY <1>1, StatsBounds, Constants DEF TypeOK
  <2>2. QED
    BY <1>1, <1>5, <2>1 DEF TypeOK
<1>8. QED
  BY <1>1, <1>2, <1>4, <1>6, <1>7, NothingMoves DEF Custody

(* The completion catches up with the descriptors popped.                  *)
LEMMA CountCompletedIInv ==
  ASSUME InterfaceInv, CountCompleted
  PROVE  InterfaceInv' /\ CircleLen' = CircleLen /\ Circle' = Circle
<1> USE DEF CountCompleted, app
<1>1. TypeOK /\ Control /\ Custody /\ StatsConserved
  BY DEF InterfaceInv
<1>2. /\ Held' = Held /\ NicHolds' = NicHolds /\ FirstUnread <= FirstUnread'
      /\ Arrived <= Arrived' /\ NicLen' = NicLen
  BY <1>1, Constants DEF Held, NicHolds, FirstUnread, Arrived, TypeOK, NicLen
<1>3. CircleLen' = CircleLen /\ Circle' = Circle
  BY <1>2, SameParts DEF NicHolds
<1>4. Control'
  BY <1>1, <1>2, <1>3 DEF Control
<1>5. /\ stats' \in [{"posted", "completed", "dropped", "rx_overrun"}
                       -> 0 .. N + Packets]
      /\ stats'.completed = stats.completed + 1
      /\ stats'.posted = stats.posted /\ stats'.dropped = stats.dropped
      /\ stats'.rx_overrun = stats.rx_overrun
  <2>1. stats["completed"] + 1 <= N + Packets
    <3>1. seq < Packets /\ stats.completed + stats.dropped = seq
          /\ stats.completed \in Nat /\ stats.dropped \in Nat
      BY <1>1, StatsBounds
    <3>2. QED
      BY <3>1, Constants
  <2>2. Bump("completed") /\ TypeOK
    BY <1>1
  <2>3. /\ stats' \in [{"posted", "completed", "dropped", "rx_overrun"}
                         -> 0 .. N + Packets]
        /\ \A g \in {"posted", "completed", "dropped", "rx_overrun"} :
             stats'[g] = IF g = "completed" THEN stats[g] + 1 ELSE stats[g]
    BY <2>1, <2>2, BumpIs
  <2>4. QED
    BY <2>3
<1>6. StatsConserved'
  <2>1. stats.completed \in Nat /\ stats.dropped \in Nat
    BY <1>1, StatsBounds
  <2>2. stats'.posted + (IF appPc' \in {"own", "count"} THEN 1 ELSE 0)
           = Len(rx_ring') + rxPops'
    BY <1>1, <1>5 DEF StatsConserved
  <2>3. stats'.completed + (IF NicHolds' \/ nicPc' = "count" THEN 1 ELSE 0) = rxPops'
    BY <1>1, <1>2, <1>5, <2>1 DEF StatsConserved, NicHolds
  <2>4. /\ stats'.dropped + (IF nicPc' = "drop" THEN 1 ELSE 0) = stats'.rx_overrun
        /\ stats'.completed + stats'.dropped = seq'
    BY <1>1, <1>5, <2>1 DEF StatsConserved
  <2>5. QED
    BY <2>2, <2>3, <2>4 DEF StatsConserved
<1>7. TypeOK'
  <2>1. seq + 1 \in 0 .. Packets
    BY <1>1, StatsBounds, Constants DEF TypeOK
  <2>2. QED
    BY <1>1, <1>5, <2>1 DEF TypeOK
<1>8. QED
  BY <1>1, <1>2, <1>4, <1>6, <1>7, NothingMoves DEF Custody

(* The memcpy writes the NIC's buffer, where no packet waits.              *)
LEMMA DmaIInv ==
  ASSUME InterfaceInv, Dma
  PROVE  InterfaceInv' /\ CircleLen' = CircleLen /\ Circle' = Circle
<1> USE DEF Dma, app
<1>1. TypeOK /\ Control /\ Custody /\ StatsConserved /\ NicHolds
  BY DEF InterfaceInv, NicHolds
<1>2. desc.id \in Buffers /\ seq \in 0 .. Packets - 1
  BY <1>1, NicBuffer, Constants DEF Control, TypeOK
<1>3. /\ Held' = Held /\ NicHolds' = NicHolds /\ FirstUnread <= FirstUnread'
      /\ Arrived <= Arrived' /\ NicLen' = NicLen
  BY <1>1, Constants DEF Held, NicHolds, FirstUnread, Arrived, TypeOK, NicLen
<1>4. CircleLen' = CircleLen /\ Circle' = Circle
  BY <1>3, SameParts DEF NicHolds
<1>5. Control'
  BY <1>1, <1>3, <1>4 DEF Control
<1>6. StatsConserved'
  BY <1>1, <1>3 DEF StatsConserved, NicHolds
<1>7. TypeOK'
  BY <1>1, <1>2 DEF TypeOK
<1>8. nicPc' \in {"complete", "event"} => pool'[desc'.id] = seq'
  BY <1>1, <1>2 DEF TypeOK
<1>9. ASSUME NEW i \in 1 .. Len(Held) + Len(evq)
      PROVE  pool'[Circle[i]] = pool[Circle[i]]
  <2>1. i \in 1 .. CircleLen /\ i # Len(Held) + Len(evq) + 1
    BY <1>1, Lengths DEF CircleLen
  <2>2. Circle[i] # desc.id
    BY <1>1, <2>1, NicBuffer
  <2>3. QED
    BY <1>1, <2>2 DEF TypeOK
<1>10. QED
  BY <1>1, <1>3, <1>5, <1>6, <1>7, <1>8, <1>9, NothingMoves DEF Custody

(* The NIC marks a buffer that the application is not about to post.       *)
LEMMA SetFilledIInv ==
  ASSUME InterfaceInv, SetFilled
  PROVE  InterfaceInv' /\ CircleLen' = CircleLen /\ Circle' = Circle
<1> USE DEF SetFilled, app
<1>1. TypeOK /\ Control /\ Custody /\ StatsConserved /\ NicHolds
  BY DEF InterfaceInv, NicHolds
<1>2. desc.id \in Buffers
  BY <1>1, NicBuffer
<1>3. /\ Held' = Held /\ NicHolds' = NicHolds /\ FirstUnread <= FirstUnread'
      /\ Arrived <= Arrived' /\ NicLen' = NicLen
  BY <1>1, Constants DEF Held, NicHolds, FirstUnread, Arrived, TypeOK, NicLen
<1>4. CircleLen' = CircleLen /\ Circle' = Circle
  BY <1>3, SameParts DEF NicHolds
<1>5. ASSUME NEW b \in Buffers, b # desc.id
      PROVE  ownership'[b] = ownership[b]
  BY <1>1, <1>5 DEF TypeOK
<1>6. ownership'[desc.id] = "Filled"
  BY <1>1, <1>2 DEF TypeOK
<1>7. Control'
  <2>1. ASSUME appPc = "push", events = << >>, aBuf # None,
               ownership[aBuf] = "Free"
        PROVE  ownership'[aBuf] = "Free"
    <3>1. aBuf # desc.id
      BY <1>1, <2>1, NicBuffer DEF Custody
    <3>2. QED
      BY <1>1, <1>5, <2>1, <3>1 DEF TypeOK
  <2>2. QED
    BY <1>1, <1>3, <1>4, <2>1 DEF Control
<1>8. StatsConserved'
  BY <1>1, <1>3 DEF StatsConserved, NicHolds
<1>9. TypeOK'
  BY <1>1, <1>2 DEF TypeOK, BufferState
<1>10. ASSUME NEW i \in 1 .. CircleLen, ownership'[Circle[i]] = "Free"
       PROVE  appPc' = "own" /\ aBuf' = Circle[i]
  <2>1. Circle[i] \in Buffers
    BY <1>1, CircleType
  <2>2. ownership[Circle[i]] = "Free"
    BY <1>5, <1>6, <1>10, <2>1
  <2>3. QED
    BY <1>1, <2>2 DEF Custody
<1>11. nicPc' \in {"complete", "event"} => pool'[desc'.id] = seq'
  BY DEF InterfaceInv, Payload
<1>12. QED
  BY <1>1, <1>3, <1>7, <1>8, <1>9, <1>10, <1>11, NothingMoves

(* Reading the first of the waiting packets appends it to those read.      *)
LEMMA ReadIInv ==
  ASSUME InterfaceInv, Read
  PROVE  InterfaceInv' /\ CircleLen' = CircleLen /\ Circle' = Circle
<1> USE DEF Read, nic
<1>1. TypeOK /\ Control /\ Custody /\ StatsConserved /\ Knowledge /\ Payload
  BY DEF InterfaceInv
<1>2. /\ events # << >> /\ aBuf = Head(events) /\ Held = events
      /\ aBuf = events[1] /\ Len(events) \in Nat /\ Len(events) >= 1
      /\ aBuf \in Buffers
  BY <1>1, Events DEF Control, Held
<1>3. Circle[1] = aBuf
  BY <1>1, <1>2, CircleParts
<1>4. /\ Held' = Held /\ NicHolds' = NicHolds
      /\ FirstUnread = 1 /\ FirstUnread' = 2 /\ Arrived' = Arrived
      /\ Arrived \in Int /\ NicLen' = NicLen
  BY <1>1, <1>2, Constants DEF Held, NicHolds, FirstUnread, Arrived, TypeOK, NicLen
<1>5. CircleLen' = CircleLen /\ Circle' = Circle
  BY <1>4, SameParts
<1> DEFINE last == Len(Held) + Len(evq)
<1>6. last \in Nat /\ last >= 1 /\ last' = last
  BY <1>1, <1>2, <1>4, Lengths
<1>7. ASSUME NEW i \in Int
      PROVE  Packet(i)' = Packet(i)
  BY <1>5 DEF Packet
<1>8. Packet(1) = pool[aBuf]
  BY <1>3 DEF Packet
<1> HIDE DEF last
<1>9. /\ Packet(1) \in 0 .. Arrived - 1
      /\ \A i \in 2 .. last :
           /\ Packet(i) \in 0 .. Arrived - 1 /\ Packet(1) < Packet(i)
           /\ \A j \in 2 .. i - 1 : Packet(j) < Packet(i)
           /\ \A g \in 1 .. Len(got) : got[g] < Packet(i)
      /\ \A g \in 1 .. Len(got) :
           /\ got[g] \in 0 .. Arrived - 1 /\ got[g] < Packet(1)
           /\ \A h \in 1 .. g - 1 : got[h] < got[g]
  BY <1>1, <1>4, <1>6 DEF Payload, last
<1>10. /\ got \in Seq({None, Torn} \cup 0 .. Packets - 1)
       /\ pool[aBuf] \in {None, Torn} \cup 0 .. Packets - 1
  BY <1>1, <1>2 DEF TypeOK
<1>11. /\ got' \in Seq({None, Torn} \cup 0 .. Packets - 1)
       /\ Len(got) \in Nat /\ Len(got') = Len(got) + 1
       /\ \A g \in 1 .. Len(got) : got'[g] = got[g]
       /\ got'[Len(got) + 1] = Packet(1)
  BY <1>8, <1>10, AppendProperties, LenProperties
<1>12. Payload'
  <2>1. ASSUME NEW i \in 2 .. last
        PROVE  /\ Packet(i)' \in 0 .. Arrived' - 1
               /\ \A j \in 2 .. i - 1 : Packet(j)' < Packet(i)'
               /\ \A g \in 1 .. Len(got') : got'[g] < Packet(i)'
    BY <1>4, <1>6, <1>7, <1>9, <1>11
  <2>2. ASSUME NEW g \in 1 .. Len(got')
        PROVE  /\ got'[g] \in 0 .. Arrived' - 1
               /\ \A h \in 1 .. g - 1 : got'[h] < got'[g]
    BY <1>4, <1>9, <1>11
  <2>3. nicPc' \in {"complete", "event"} => pool'[desc'.id] = seq'
    BY <1>1 DEF Payload
  <2>4. QED
    BY <1>4, <1>6, <2>1, <2>2, <2>3 DEF Payload, last
<1>13. TypeOK'
  BY <1>1, <1>11 DEF TypeOK
<1>14. Control' /\ Custody' /\ StatsConserved'
  BY <1>1, <1>4, <1>5 DEF Control, Custody, StatsConserved, NicHolds
<1>15. Knowledge'
  BY <1>1, <1>4, KnowledgeStays
<1>16. QED
  BY <1>5, <1>12, <1>13, <1>14, <1>15 DEF InterfaceInv

(* An event moves from the queue to the sequence that poll returns.        *)
LEMMA PollPopIInv ==
  ASSUME InterfaceInv, PollPop
  PROVE  /\ InterfaceInv' /\ CircleLen' = CircleLen /\ Circle' = Circle
         /\ (Len(Held) + Len(evq))' = Len(Held) + Len(evq)
<1> USE DEF PollPop, nic
<1>1. TypeOK /\ Control /\ Custody /\ StatsConserved /\ Knowledge /\ Payload
  BY DEF InterfaceInv
<1>2. evq # << >> /\ ev' = Head(evq) /\ evq' = Tail(evq)
  BY DEF Evq!Pop
<1> DEFINE h == Len(Held)
           e == Len(evq)
           r == Len(rx_ring)
<1>3. /\ evq \in Seq(Entry) /\ e \in Nat /\ e >= 1
      /\ Head(evq) \in Entry /\ Head(evq) = evq[1]
      /\ evq' \in Seq(Entry) /\ Len(evq') = e - 1
      /\ \A i \in 1 .. e - 1 : evq'[i] = evq[i + 1]
  BY <1>1, <1>2, EmptySeq, HeadTailProperties, LenProperties DEF TypeOK
<1>4. ev'.id \in Buffers /\ Held = events /\ Held' = events'
  BY <1>1, <1>2, <1>3 DEF Entry, Held
<1>5. /\ events \in Seq(Buffers) /\ events' \in Seq(Buffers) /\ events' # << >>
      /\ h \in Nat /\ Len(events') = h + 1
      /\ \A i \in 1 .. h : events'[i] = events[i]
      /\ events'[h + 1] = ev'.id
  <2>1. events \in Seq(Buffers) /\ events' = Append(events, ev'.id) /\ h = Len(events)
    BY <1>1, <1>4 DEF TypeOK
  <2>2. QED
    BY <1>4, <2>1, AppendProperties, LenProperties
<1>6. /\ NicHolds' = NicHolds /\ NicLen' = NicLen /\ FirstUnread <= FirstUnread'
      /\ Arrived' = Arrived /\ Arrived \in Int
  BY <1>1, Constants DEF NicHolds, NicLen, FirstUnread, Arrived, TypeOK
<1>7. /\ r \in Nat /\ NicLen \in 0 .. 1 /\ CircleLen = h + e + NicLen + r
      /\ Len(Held') = h + 1 /\ CircleLen' = CircleLen
  BY <1>1, <1>3, <1>4, <1>5, <1>6, Lengths DEF CircleLen
<1>8. Circle = [i \in 1 .. CircleLen |->
                  IF i <= h THEN Held[i]
                  ELSE IF i <= h + e THEN evq[i - h].id
                  ELSE IF i <= h + e + NicLen THEN desc.id
                  ELSE rx_ring[i - h - e - NicLen].id]
  BY DEF Circle
<1>9. Circle' = [i \in 1 .. CircleLen |->
                  IF i <= h + 1 THEN events'[i]
                  ELSE IF i <= h + 1 + (e - 1) THEN evq'[i - (h + 1)].id
                  ELSE IF i <= h + 1 + (e - 1) + NicLen THEN desc.id
                  ELSE rx_ring[i - (h + 1) - (e - 1) - NicLen].id]
  BY <1>3, <1>4, <1>6, <1>7 DEF Circle
<1> HIDE DEF h, e, r
<1>10. Circle' = Circle
  <2>1. ASSUME NEW i \in 1 .. CircleLen
        PROVE  Circle'[i] = Circle[i]
    <3>1. CASE i <= h
      BY <1>3, <1>4, <1>5, <1>7, <1>8, <1>9, <3>1
    <3>2. CASE i = h + 1
      <4>1. Circle'[i] = ev'.id
        BY <1>5, <1>7, <1>9, <3>2
      <4>2. Circle[i] = evq[1].id
        BY <1>3, <1>5, <1>7, <1>8, <3>2
      <4>3. QED
        BY <1>2, <1>3, <4>1, <4>2
    <3>3. CASE i > h + 1 /\ i <= h + e
      <4>1. i - (h + 1) \in 1 .. e - 1 /\ i - (h + 1) + 1 = i - h
        BY <1>3, <1>5, <3>3
      <4>2. evq'[i - (h + 1)] = evq[i - h]
        BY <1>3, <4>1
      <4>3. QED
        BY <1>3, <1>5, <1>7, <1>8, <1>9, <3>3, <4>2
    <3>4. CASE i > h + e
      <4>1. i - (h + 1) - (e - 1) - NicLen = i - h - e - NicLen
        BY <1>3, <1>5, <1>7, <3>4
      <4>2. QED
        BY <1>3, <1>5, <1>7, <1>8, <1>9, <3>4, <4>1
    <3>5. QED
      BY <1>3, <1>5, <1>7, <3>1, <3>2, <3>3, <3>4
  <2>2. QED
    BY <1>8, <1>9, <2>1
<1>11. Knowledge' /\ evPops + 1 <= rxPops /\ rxKnown' \in 0 .. rxPops
  <2>1. /\ evPops \in Nat /\ rxPops \in Nat /\ rxKnown \in Nat
        /\ rxKnown <= rxPops
    BY <1>1, Constants DEF TypeOK
  <2>2. evq[1].pops = evPops + 1 /\ rxPops = evPops + e + NicLen
    BY <1>1, <1>3 DEF Knowledge, e
  <2>3. rxKnown' = Larger(rxKnown, evPops + 1)
    BY <1>2, <1>3, <2>2
  <2>4. /\ evPops + 1 <= rxPops /\ evPops + 1 <= rxKnown'
        /\ rxKnown' \in 0 .. rxPops
    <3>1. evPops + 1 <= rxPops
      BY <1>3, <1>7, <2>1, <2>2
    <3>2. QED
      BY <2>1, <2>3, <3>1 DEF Larger
  <2>5. ASSUME NEW i \in 1 .. Len(evq')
        PROVE  evq'[i].pops = evPops' + i
    <3>1. i \in 1 .. e - 1 /\ i + 1 \in 1 .. Len(evq)
      BY <1>3 DEF e
    <3>2. evq[i + 1].pops = evPops + (i + 1)
      BY <1>1, <3>1 DEF Knowledge
    <3>3. evPops' = evPops + 1 /\ evq'[i] = evq[i + 1] /\ i \in Int
      BY <1>3, <3>1
    <3>4. QED
      BY <2>1, <3>2, <3>3
  <2>6. ASSUME NEW i \in 1 .. Len(rx_ring')
        PROVE  /\ rxPops' + i - N <= rx_ring'[i].pops
               /\ rx_ring'[i].pops <= evPops'
    <3>1. rx_ring[i] \in Entry
      BY <1>1, ElementOfSeq DEF TypeOK
    <3>2. rx_ring[i].pops \in Int
      BY <3>1, Constants DEF Entry
    <3>3. rxPops + i - N <= rx_ring[i].pops /\ rx_ring[i].pops <= evPops
      BY <1>1 DEF Knowledge
    <3>4. rxPops' = rxPops /\ rx_ring' = rx_ring /\ evPops' = evPops + 1
          /\ rxPops \in Int /\ evPops \in Int /\ N \in Int
      BY <1>1, <1>3, <2>1, Constants
    <3>5. QED
      BY <3>2, <3>3, <3>4
  <2>7. rxPops' = evPops' + Len(evq') + NicLen'
    BY <1>3, <1>6, <1>7, <2>1, <2>2
  <2>8. Knowledge'
    BY <1>1, <2>4, <2>5, <2>6, <2>7 DEF Knowledge
  <2>9. QED
    BY <2>4, <2>8
<1>12. TypeOK'
  <2>1. evPops' \in 0 .. Packets /\ evKnown \in 0 .. evPops'
    BY <1>1, <1>11, Constants DEF TypeOK
  <2>2. Len(events') <= MaxEvents
    BY <1>4, <1>5, Constants DEF h
  <2>3. ev' \in Entry /\ Len(evq') <= RingCap
    BY <1>1, <1>2, <1>3, Constants DEF TypeOK, e
  <2>4. QED
    BY <1>1, <1>3, <1>5, <1>11, <2>1, <2>2, <2>3 DEF TypeOK
<1>13. Control' /\ Custody' /\ StatsConserved'
  BY <1>1, <1>5, <1>6, <1>7, <1>10 DEF Control, Custody, StatsConserved, NicHolds
<1>14. (Len(Held) + Len(evq))' = Len(Held) + Len(evq)
  BY <1>3, <1>5, <1>7 DEF h, e
<1>15. Payload'
  <2>1. nicPc' \in {"complete", "event"} => pool'[desc'.id] = seq'
    BY <1>1 DEF Payload
  <2>2. QED
    BY <1>6, <1>10, <1>12, <1>14, <2>1, PayloadStays
<1>16. QED
  BY <1>7, <1>10, <1>11, <1>12, <1>13, <1>14, <1>15 DEF InterfaceInv

(* A descriptor moves from its ring to the NIC.                            *)
LEMMA AcquireIInv ==
  ASSUME InterfaceInv, Acquire
  PROVE  InterfaceInv' /\ CircleLen' = CircleLen /\ Circle' = Circle
<1> USE DEF Acquire, app
<1>1. TypeOK /\ Control /\ Custody /\ StatsConserved /\ Knowledge /\ Payload
  BY DEF InterfaceInv
<1>2. rx_ring # << >> /\ desc' = Head(rx_ring) /\ rx_ring' = Tail(rx_ring)
  BY DEF RxRing!Pop
<1> DEFINE h == Len(Held)
           e == Len(evq)
           r == Len(rx_ring)
<1>3. /\ rx_ring \in Seq(Entry) /\ r \in Nat /\ r >= 1
      /\ Head(rx_ring) \in Entry /\ Head(rx_ring) = rx_ring[1]
      /\ rx_ring' \in Seq(Entry) /\ Len(rx_ring') = r - 1
      /\ \A i \in 1 .. r - 1 : rx_ring'[i] = rx_ring[i + 1]
  BY <1>1, <1>2, EmptySeq, HeadTailProperties, LenProperties DEF TypeOK
<1>4. desc'.id \in Buffers /\ Held' = Held
  BY <1>2, <1>3 DEF Entry, Held
<1>5. /\ NicLen = 0 /\ NicLen' = 1 /\ ~ NicHolds /\ NicHolds'
      /\ FirstUnread' = FirstUnread
      /\ Arrived' = Arrived /\ Arrived \in Int
  BY <1>1, Constants DEF NicHolds, NicLen, FirstUnread, Arrived, TypeOK
<1>6. /\ h \in Nat /\ e \in Nat /\ CircleLen = h + e + r
      /\ Len(Held') = h /\ CircleLen' = CircleLen
  BY <1>1, <1>3, <1>4, <1>5, Lengths DEF CircleLen
<1>7. Circle = [i \in 1 .. CircleLen |->
                  IF i <= h THEN Held[i]
                  ELSE IF i <= h + e THEN evq[i - h].id
                  ELSE IF i <= h + e + 0 THEN desc.id
                  ELSE rx_ring[i - h - e - 0].id]
  BY <1>5 DEF Circle
<1>8. Circle' = [i \in 1 .. CircleLen |->
                  IF i <= h THEN Held[i]
                  ELSE IF i <= h + e THEN evq[i - h].id
                  ELSE IF i <= h + e + 1 THEN desc'.id
                  ELSE rx_ring'[i - h - e - 1].id]
  BY <1>4, <1>5, <1>6 DEF Circle
<1> HIDE DEF h, e, r
<1>9. Circle' = Circle
  <2>1. ASSUME NEW i \in 1 .. CircleLen
        PROVE  Circle'[i] = Circle[i]
    <3>1. CASE i <= h + e
      BY <1>6, <1>7, <1>8, <3>1
    <3>2. CASE i = h + e + 1
      <4>1. Circle'[i] = desc'.id
        BY <1>6, <1>8, <3>2
      <4>2. Circle[i] = rx_ring[1].id
        BY <1>3, <1>6, <1>7, <3>2
      <4>3. QED
        BY <1>2, <1>3, <4>1, <4>2
    <3>3. CASE i > h + e + 1
      <4>1. i - h - e - 1 \in 1 .. r - 1 /\ i - h - e - 1 + 1 = i - h - e - 0
        BY <1>3, <1>6, <3>3
      <4>2. rx_ring'[i - h - e - 1] = rx_ring[i - h - e - 0]
        BY <1>3, <4>1
      <4>3. QED
        BY <1>3, <1>6, <1>7, <1>8, <3>3, <4>2
    <3>4. QED
      BY <1>6, <3>1, <3>2, <3>3
  <2>2. QED
    BY <1>7, <1>8, <2>1
<1>10. rxPops + 1 \in 0 .. Packets
  <2>1. rxPops = stats.completed /\ stats.completed + stats.dropped = seq
    BY <1>1, <1>5, StatsBounds DEF StatsConserved
  <2>2. stats.completed \in Nat /\ stats.dropped \in Nat /\ seq < Packets
        /\ seq \in Nat
    BY <1>1, StatsBounds, Constants DEF TypeOK
  <2>3. QED
    BY <2>1, <2>2, Constants
<1>11. Knowledge' /\ evKnown' \in 0 .. evPops
  <2>1. /\ evPops \in Nat /\ rxPops \in Nat /\ evKnown \in Nat
        /\ evKnown <= evPops /\ rxKnown \in Nat
    BY <1>1, Constants DEF TypeOK
  <2>2. /\ \A i \in 1 .. r : rxPops + i - N <= rx_ring[i].pops
                             /\ rx_ring[i].pops <= evPops
        /\ rxPops = evPops + e /\ evPops <= rxKnown
    <3>1. \A i \in 1 .. r : rxPops + i - N <= rx_ring[i].pops
                             /\ rx_ring[i].pops <= evPops
      BY <1>1 DEF Knowledge, r
    <3>2. rxPops = evPops + e + NicLen /\ evPops <= rxKnown
      BY <1>1 DEF Knowledge, e
    <3>3. QED
      BY <1>5, <1>6, <2>1, <3>1, <3>2
  <2>3. \A i \in 1 .. r : rx_ring[i].pops \in Nat
    <3>1. \A i \in 1 .. r : rx_ring[i] \in Entry
      BY <1>3, ElementOfSeq DEF r
    <3>2. QED
      BY <3>1, Constants DEF Entry
  <2>4. evKnown' = Larger(evKnown, rx_ring[1].pops)
    BY <1>2, <1>3
  <2>5. rxPops + 1 - N <= evKnown' /\ evKnown' \in 0 .. evPops
    <3> DEFINE p == rx_ring[1].pops
    <3>1. p \in Nat /\ rxPops + 1 - N <= p /\ p <= evPops
      BY <1>3, <2>2, <2>3
    <3>2. evKnown' = IF evKnown >= p THEN evKnown ELSE p
      BY <2>4 DEF Larger
    <3> HIDE DEF p
    <3>3. QED
      BY <2>1, <3>1, <3>2, Constants
  <2>6. ASSUME NEW i \in 1 .. Len(rx_ring')
        PROVE  /\ rxPops' + i - N <= rx_ring'[i].pops
               /\ rx_ring'[i].pops <= evPops'
    <3>1. i \in 1 .. r - 1 /\ i + 1 \in 1 .. r
      BY <1>3
    <3>2. /\ rxPops + (i + 1) - N <= rx_ring[i + 1].pops
          /\ rx_ring[i + 1].pops <= evPops /\ rx_ring[i + 1].pops \in Nat
      BY <2>2, <2>3, <3>1
    <3>3. rx_ring'[i] = rx_ring[i + 1] /\ rxPops' = rxPops + 1 /\ i \in Int
      BY <1>3, <3>1
    <3>4. QED
      BY <2>1, <3>2, <3>3, Constants
  <2>7. rxPops' = evPops' + Len(evq') + NicLen'
    BY <1>5, <1>6, <2>1, <2>2 DEF e
  <2>8. rxPops' - N <= evKnown'
    <3>1. rxPops' = rxPops + 1
      OBVIOUS
    <3>2. QED
      BY <2>1, <2>5, <3>1, Constants
  <2>9. Knowledge'
    BY <1>1, <2>6, <2>7, <2>8 DEF Knowledge
  <2>10. QED
    BY <2>5, <2>9
<1>12. TypeOK'
  <2>1. rxPops' \in 0 .. Packets /\ rxKnown \in 0 .. rxPops'
    BY <1>1, <1>10, Constants DEF TypeOK
  <2>2. desc' \in Entry /\ Len(rx_ring') <= RingCap
    BY <1>1, <1>2, <1>3, Constants DEF TypeOK, r
  <2>3. QED
    BY <1>1, <1>3, <1>11, <2>1, <2>2 DEF TypeOK
<1>13. Control'
  BY <1>1, <1>4, <1>5, <1>6, <1>9 DEF Control, Buffers, None
<1>14. Custody'
  BY <1>1, <1>6, <1>9 DEF Custody
<1>15. StatsConserved'
  <2>1. /\ stats.posted \in Int /\ stats.completed \in Int /\ stats.dropped \in Int
        /\ stats.rx_overrun \in Int /\ rxPops \in Int
    BY <1>1, StatsBounds, Constants DEF TypeOK
  <2>2. QED
    BY <1>1, <1>3, <1>5, <2>1 DEF StatsConserved, r
<1>16. Payload'
  <2>1. (Len(Held) + Len(evq))' = Len(Held) + Len(evq)
    BY <1>4
  <2>2. QED
    BY <1>1, <1>5, <1>9, <1>12, <2>1, PayloadStays DEF FirstUnread
<1>17. QED
  BY <1>6, <1>9, <1>11, <1>12, <1>13, <1>14, <1>15, <1>16 DEF InterfaceInv

(* An event moves from the NIC to the queue; its packet is the latest.     *)
LEMMA PushEventIInv ==
  ASSUME InterfaceInv, PushEvent
  PROVE  /\ InterfaceInv' /\ CircleLen' = CircleLen /\ Circle' = Circle
         /\ Held' = Held /\ Len(evq') = Len(evq) + 1
         /\ evq' = Append(evq, [id |-> desc.id, pops |-> rxPops])
<1> USE DEF PushEvent, app
<1>1. /\ TypeOK /\ Control /\ Custody /\ StatsConserved /\ Knowledge /\ Payload
      /\ NicHolds /\ seq \in 0 .. Packets - 1
  BY Constants DEF InterfaceInv, NicHolds, Control, TypeOK
<1>2. /\ evq' = Append(evq, [id |-> desc.id, pops |-> rxPops])
      /\ evKnown' \in evKnown .. evPops
  <2>1. PICK seen \in evKnown .. evPops :
          /\ evKnown' = seen
          /\ evq' = IF Len(evq) + evPops - seen >= RingCap
                    THEN evq
                    ELSE Append(evq, [id |-> desc.id, pops |-> rxPops])
    OBVIOUS
  <2>2. Len(evq) + evPops - seen < RingCap
    BY EventFits DEF EventPushNeverFails
  <2>3. /\ Len(evq) \in Int /\ evPops \in Int /\ seen \in Int /\ RingCap \in Int
    BY <1>1, Lengths, Constants DEF TypeOK
  <2>4. ~ (Len(evq) + evPops - seen >= RingCap)
    BY <2>2, <2>3
  <2>5. QED
    BY <2>1, <2>4
<1> DEFINE h == Len(Held)
           e == Len(evq)
           r == Len(rx_ring)
           new == [id |-> desc.id, pops |-> rxPops]
<1>3. new \in Entry /\ desc.id \in Buffers /\ NicLen = 1
  BY <1>1, NicBuffer DEF Entry, TypeOK
<1>4. /\ evq' \in Seq(Entry) /\ e \in Nat /\ Len(evq') = e + 1
      /\ \A i \in 1 .. e : evq'[i] = evq[i]
      /\ evq'[e + 1] = new
  <2>1. evq \in Seq(Entry) /\ evq' = Append(evq, new)
    BY <1>1, <1>2 DEF TypeOK
  <2>2. QED
    BY <1>3, <2>1, AppendProperties, LenProperties
<1>5. /\ Held' = Held /\ NicLen' = 0 /\ ~ NicHolds'
      /\ FirstUnread' = FirstUnread /\ FirstUnread \in 1 .. 2
      /\ Arrived' = seq + 1 /\ Arrived = seq
  BY <1>1, Constants DEF NicHolds, NicLen, FirstUnread, Arrived, Held
<1>6. /\ h \in Nat /\ r \in Nat /\ CircleLen = h + e + 1 + r
      /\ Len(Held') = h /\ CircleLen' = CircleLen
  BY <1>1, <1>3, <1>4, <1>5, Lengths DEF CircleLen
<1>7. Circle = [i \in 1 .. CircleLen |->
                  IF i <= h THEN Held[i]
                  ELSE IF i <= h + e THEN evq[i - h].id
                  ELSE IF i <= h + e + 1 THEN desc.id
                  ELSE rx_ring[i - h - e - 1].id]
  BY <1>3 DEF Circle
<1>8. Circle' = [i \in 1 .. CircleLen |->
                  IF i <= h THEN Held[i]
                  ELSE IF i <= h + (e + 1) THEN evq'[i - h].id
                  ELSE IF i <= h + (e + 1) + 0 THEN desc.id
                  ELSE rx_ring[i - h - (e + 1) - 0].id]
  BY <1>4, <1>5, <1>6 DEF Circle
<1> HIDE DEF h, e, r
<1>9. Circle' = Circle
  <2>1. ASSUME NEW i \in 1 .. CircleLen
        PROVE  Circle'[i] = Circle[i]
    <3>1. CASE i <= h
      BY <1>4, <1>6, <1>7, <1>8, <3>1
    <3>2. CASE i > h /\ i <= h + e
      <4>1. i - h \in 1 .. e
        BY <1>4, <1>6, <3>2
      <4>2. QED
        BY <1>4, <1>6, <1>7, <1>8, <3>2, <4>1
    <3>3. CASE i = h + e + 1
      <4>1. i - h = e + 1 /\ evq'[e + 1].id = desc.id
        BY <1>4, <1>6, <3>3
      <4>2. Circle'[i] = evq'[i - h].id
        <5>1. ~ (i <= h) /\ i <= h + (e + 1)
          BY <1>4, <1>6, <3>3
        <5>2. QED
          BY <1>8, <5>1
      <4>3. Circle[i] = desc.id
        BY <1>4, <1>6, <1>7, <3>3
      <4>4. QED
        BY <4>1, <4>2, <4>3
    <3>4. CASE i > h + e + 1
      <4>1. i - h - (e + 1) - 0 = i - h - e - 1
        BY <1>4, <1>6
      <4>2. QED
        BY <1>4, <1>6, <1>7, <1>8, <3>4, <4>1
    <3>5. QED
      BY <1>4, <1>6, <3>1, <3>2, <3>3, <3>4
  <2>2. QED
    BY <1>7, <1>8, <2>1
<1>10. Knowledge'
  <2>1. /\ evPops \in Nat /\ rxPops \in Nat /\ evKnown \in Nat
    BY <1>1, Constants DEF TypeOK
  <2>2. rxPops = evPops + e + 1
    BY <1>1, <1>3 DEF Knowledge, e
  <2>3. ASSUME NEW i \in 1 .. Len(evq')
        PROVE  evq'[i].pops = evPops' + i
    <3>1. CASE i <= e
      BY <1>1, <1>4, <3>1 DEF Knowledge, e
    <3>2. CASE i = e + 1
      BY <1>4, <2>1, <2>2, <3>2
    <3>3. QED
      BY <1>4, <3>1, <3>2
  <2>4. rxPops' = evPops' + Len(evq') + NicLen'
    BY <1>4, <1>5, <2>1, <2>2
  <2>5. rxPops' - N <= evKnown'
    BY <1>1, <1>2, <2>1, Constants DEF Knowledge
  <2>6. QED
    BY <1>1, <2>3, <2>4, <2>5 DEF Knowledge
<1>11. TypeOK'
  <2>1. Len(evq') <= RingCap
    BY <1>1, <1>4, <1>6, CircleBound, Constants
  <2>2. evKnown' \in 0 .. evPops
    BY <1>1, <1>2, Constants DEF TypeOK
  <2>3. QED
    BY <1>1, <1>4, <2>1, <2>2 DEF TypeOK
<1>12. Control'
  BY <1>1, <1>5, <1>6, <1>9 DEF Control
<1>13. Custody'
  BY <1>1, <1>6, <1>9 DEF Custody
<1>14. StatsConserved'
  BY <1>1, <1>5 DEF StatsConserved
<1>15. Payload'
  <2>1. ASSUME NEW i \in Int
        PROVE  Packet(i)' = Packet(i)
    BY <1>9 DEF Packet
  <2>2. Packet(h + e + 1) = seq
    <3>1. Circle[h + e + 1] = desc.id
      BY <1>1, NicBuffer DEF h, e
    <3>2. QED
      BY <1>1, <3>1 DEF Packet, Payload
  <2>3. /\ \A i \in FirstUnread .. h + e :
             /\ Packet(i) \in 0 .. seq - 1
             /\ \A j \in FirstUnread .. i - 1 : Packet(j) < Packet(i)
             /\ \A g \in 1 .. Len(got) : got[g] < Packet(i)
        /\ \A g \in 1 .. Len(got) :
             /\ got[g] \in 0 .. seq - 1
             /\ \A k \in 1 .. g - 1 : got[k] < got[g]
    BY <1>1, <1>5 DEF Payload, h, e
  <2>4. (Len(Held) + Len(evq))' = h + e + 1
    <3>1. (Len(Held) + Len(evq))' = h + (e + 1)
      BY <1>4, <1>6
    <3>2. QED
      BY <1>4, <1>6, <3>1
  <2>5. ASSUME NEW i \in FirstUnread .. h + e + 1
        PROVE  /\ Packet(i) \in 0 .. seq
               /\ \A j \in FirstUnread .. i - 1 : Packet(j) < Packet(i)
               /\ \A g \in 1 .. Len(got) : got[g] < Packet(i)
    <3>1. CASE i <= h + e
      BY <1>1, <1>4, <1>5, <1>6, <2>3, <3>1
    <3>2. CASE i = h + e + 1
      BY <1>1, <1>4, <1>5, <1>6, <2>2, <2>3, <3>2
    <3>3. QED
      BY <1>4, <1>5, <1>6, <3>1, <3>2
  <2>6. ASSUME NEW i \in FirstUnread' .. (Len(Held) + Len(evq))'
        PROVE  /\ Packet(i)' \in 0 .. Arrived' - 1
               /\ \A j \in FirstUnread' .. i - 1 : Packet(j)' < Packet(i)'
               /\ \A g \in 1 .. Len(got') : got'[g] < Packet(i)'
    BY <1>1, <1>5, <2>1, <2>4, <2>5
  <2>7. ASSUME NEW g \in 1 .. Len(got')
        PROVE  /\ got'[g] \in 0 .. Arrived' - 1
               /\ \A k \in 1 .. g - 1 : got'[k] < got'[g]
    BY <1>1, <1>5, <2>3
  <2>8. QED
    BY <2>6, <2>7 DEF Payload
<1>16. QED
  BY <1>2, <1>4, <1>5, <1>6, <1>9, <1>10, <1>11, <1>12, <1>13, <1>14, <1>15
     DEF InterfaceInv, e

(* The application gives up its first k events and may post a descriptor;  *)
(* the NIC's part of the circle stays.                                     *)
Shift(k) ==
  /\ Len(Held) >= k /\ Len(Held') = Len(Held) - k
  /\ \A i \in 1 .. Len(Held) - k : Held'[i] = Held[i + k]
  /\ evq' = evq /\ NicHolds' = NicHolds /\ (NicHolds => desc' = desc)
  /\ Len(rx_ring') \in Nat /\ Len(rx_ring') >= Len(rx_ring)
  /\ \A i \in 1 .. Len(rx_ring) : rx_ring'[i] = rx_ring[i]

(* The circle loses its head when the application gives its first event up *)
(* (k is 1), and grows when it posts a descriptor.                         *)
LEMMA CircleShift ==
  ASSUME TypeOK, NEW k \in 0 .. 1, Shift(k)
  PROVE  /\ CircleLen' = CircleLen - k + (Len(rx_ring') - Len(rx_ring))
         /\ CircleLen \in Nat /\ CircleLen >= k
         /\ \A i \in 1 .. CircleLen - k : Circle'[i] = Circle[i + k]
         /\ \A i \in Len(rx_ring) + 1 .. Len(rx_ring') :
              Circle'[CircleLen - k - Len(rx_ring) + i] = rx_ring'[i].id
<1> DEFINE h == Len(Held)
           e == Len(evq)
           r == Len(rx_ring)
           s == Len(rx_ring')
<1>1. /\ h \in Nat /\ e \in Nat /\ r \in Nat /\ s \in Nat /\ NicLen \in 0 .. 1
      /\ CircleLen = h + e + NicLen + r /\ (NicLen = 1 <=> NicHolds)
      /\ h >= k /\ s >= r
  BY Lengths DEF CircleLen, NicLen, Shift
<1>2. NicLen' = NicLen /\ CircleLen' = (h - k) + e + NicLen + s
  BY DEF NicLen, CircleLen, Shift
<1>3. /\ CircleLen' = CircleLen - k + (s - r)
      /\ CircleLen \in Nat /\ CircleLen >= k
  BY <1>1, <1>2
<1>4. Circle = [i \in 1 .. CircleLen |->
                  IF i <= h THEN Held[i]
                  ELSE IF i <= h + e THEN evq[i - h].id
                  ELSE IF i <= h + e + NicLen THEN desc.id
                  ELSE rx_ring[i - h - e - NicLen].id]
  BY DEF Circle
<1>5. Circle' = [i \in 1 .. CircleLen' |->
                  IF i <= h - k THEN Held'[i]
                  ELSE IF i <= (h - k) + e THEN evq[i - (h - k)].id
                  ELSE IF i <= (h - k) + e + NicLen THEN desc'.id
                  ELSE rx_ring'[i - (h - k) - e - NicLen].id]
  BY <1>2 DEF Circle, Shift
<1>6. /\ \A i \in 1 .. h - k : Held'[i] = Held[i + k]
      /\ \A i \in 1 .. r : rx_ring'[i] = rx_ring[i]
  BY DEF Shift
<1> HIDE DEF h, e, r, s
<1>7. ASSUME NEW i \in 1 .. CircleLen - k
      PROVE  Circle'[i] = Circle[i + k]
  <2>1. i \in Nat /\ i >= 1 /\ i + k \in 1 .. CircleLen /\ i \in 1 .. CircleLen'
    BY <1>1, <1>3
  <2>2. CASE i <= h - k
    <3>1. i + k <= h /\ i \in 1 .. h - k
      BY <1>1, <2>1, <2>2
    <3>2. QED
      BY <1>4, <1>5, <1>6, <2>1, <2>2, <3>1
  <2>3. CASE i > h - k /\ i <= (h - k) + e
    <3>1. ~ (i + k <= h) /\ i + k <= h + e /\ i - (h - k) = (i + k) - h
          /\ ~ (i <= h - k)
      BY <1>1, <2>1, <2>3
    <3>2. QED
      BY <1>4, <1>5, <2>1, <2>3, <3>1
  <2>4. CASE i > (h - k) + e /\ i <= (h - k) + e + NicLen
    <3>1. /\ ~ (i + k <= h) /\ ~ (i + k <= h + e) /\ i + k <= h + e + NicLen
          /\ ~ (i <= h - k) /\ ~ (i <= (h - k) + e)
      BY <1>1, <2>1, <2>4
    <3>2. desc' = desc
      <4>1. NicLen # 0
        BY <1>1, <2>1, <2>4
      <4>2. QED
        BY <1>1, <4>1 DEF Shift, NicLen
    <3>3. QED
      BY <1>4, <1>5, <2>1, <2>4, <3>1, <3>2
  <2>5. CASE i > (h - k) + e + NicLen
    <3>1. /\ ~ (i + k <= h) /\ ~ (i + k <= h + e) /\ ~ (i + k <= h + e + NicLen)
          /\ ~ (i <= h - k) /\ ~ (i <= (h - k) + e) /\ ~ (i <= (h - k) + e + NicLen)
          /\ i - (h - k) - e - NicLen = (i + k) - h - e - NicLen
          /\ i - (h - k) - e - NicLen \in 1 .. r
      BY <1>1, <2>1, <2>5
    <3>2. rx_ring'[i - (h - k) - e - NicLen] = rx_ring[(i + k) - h - e - NicLen]
      BY <1>6, <3>1
    <3>3. QED
      BY <1>4, <1>5, <2>1, <2>5, <3>1, <3>2
  <2>6. \/ i <= h - k
        \/ i > h - k /\ i <= (h - k) + e
        \/ i > (h - k) + e /\ i <= (h - k) + e + NicLen
        \/ i > (h - k) + e + NicLen
    BY <1>1, <2>1
  <2>7. QED
    BY <2>2, <2>3, <2>4, <2>5, <2>6
<1>8. ASSUME NEW i \in r + 1 .. s
      PROVE  Circle'[CircleLen - k - r + i] = rx_ring'[i].id
  <2> DEFINE p == CircleLen - k - r + i
  <2>1. /\ p \in 1 .. CircleLen' /\ p - (h - k) - e - NicLen = i
        /\ ~ (p <= h - k) /\ ~ (p <= (h - k) + e) /\ ~ (p <= (h - k) + e + NicLen)
    BY <1>1, <1>2
  <2> HIDE DEF p
  <2>2. Circle'[p] = rx_ring'[i].id
    BY <1>5, <2>1
  <2>3. QED
    BY <2>2 DEF p
<1>9. QED
  BY <1>3, <1>7, <1>8 DEF r, s

(* A failed repost (the buffer is not Filled) gives the buffer up.         *)
LEMMA RepostFails ==
  ASSUME InterfaceInv, Repost, ownership[aBuf] # "Filled"
  PROVE  InterfaceInv'
<1> USE DEF Repost, nic
<1>1. /\ TypeOK /\ Control /\ Custody /\ StatsConserved /\ Knowledge /\ Payload
      /\ NextEvent
  BY DEF InterfaceInv
<1>2. /\ aBuf' = None /\ appPc' \in {"idle", "serve"}
      /\ events' \in Seq(Buffers) /\ Len(events') <= Len(events)
      /\ Len(events') \in Nat /\ Len(events) \in Nat
      /\ events # << >> /\ events' = Tail(events)
      /\ appPc' = "idle" => events' = << >>
      /\ appPc' = "serve" => events' # << >>
  BY <1>1, NextEventIs DEF Control
<1>3. /\ Held = events /\ Held' = Tail(Held)
      /\ FirstUnread = 2 /\ FirstUnread' = 1 /\ NicLen' = NicLen
      /\ NicHolds' = NicHolds /\ Arrived' = Arrived /\ Arrived \in Int
  BY <1>1, <1>2, Constants
     DEF Held, FirstUnread, NicHolds, NicLen, Arrived, TypeOK
<1>4. /\ CircleLen > 0 /\ CircleLen' = CircleLen - 1 /\ CircleLen \in Nat
      /\ \A i \in 1 .. CircleLen' : Circle'[i] = Circle[i + 1]
  <2>1. /\ Held \in Seq(Buffers) /\ Held # << >> /\ Len(Held) \in Nat
        /\ Len(rx_ring) \in Nat
    BY <1>1, <1>2, <1>3, Lengths
  <2>2. /\ Len(Held) >= 1 /\ Len(Held') = Len(Held) - 1
        /\ \A i \in 1 .. Len(Held) - 1 : Held'[i] = Held[i + 1]
    BY <1>3, <2>1, EmptySeq, HeadTailProperties
  <2>3. CircleLen' = CircleLen - 1 + (Len(rx_ring') - Len(rx_ring))
        /\ CircleLen \in Nat /\ CircleLen >= 1
        /\ \A i \in 1 .. CircleLen - 1 : Circle'[i] = Circle[i + 1]
    <3>1. /\ evq' = evq /\ NicHolds' = NicHolds /\ desc' = desc
          /\ rx_ring' = rx_ring /\ 1 \in 0 .. 1
      BY <1>3
    <3>2. Shift(1)
      BY <2>1, <2>2, <3>1 DEF Shift
    <3>3. TypeOK /\ 1 \in 0 .. 1
      BY <1>1
    <3>4. QED
      BY <3>2, <3>3, CircleShift
  <2>4. QED
    BY <2>1, <2>3
<1>5. TypeOK'
  <2>1. Len(events') <= MaxEvents
    BY <1>1, <1>2, Constants DEF TypeOK
  <2>2. QED
    BY <1>1, <1>2, <2>1 DEF TypeOK
<1>6. Control' /\ StatsConserved'
  BY <1>1, <1>2, <1>3 DEF Control, StatsConserved
<1>7. Custody'
  <2>1. ASSUME NEW i \in 1 .. CircleLen', NEW j \in 1 .. CircleLen',
               Circle'[i] = Circle'[j]
        PROVE  i = j
    <3>1. i + 1 \in 1 .. CircleLen /\ j + 1 \in 1 .. CircleLen
      BY <1>4
    <3>2. i + 1 = j + 1
      BY <1>1, <1>4, <2>1, <3>1 DEF Custody
    <3>3. QED
      BY <3>2
  <2>2. ASSUME NEW i \in 1 .. CircleLen'
        PROVE  ownership'[Circle'[i]] # "Free"
    <3>1. i + 1 \in 1 .. CircleLen
      BY <1>4
    <3>2. QED
      BY <1>1, <1>4, <3>1 DEF Custody
  <2>3. QED
    BY <2>1, <2>2 DEF Custody
<1>8. Knowledge'
  BY <1>1, <1>3, KnowledgeStays
<1>9. Payload'
  <2> DEFINE last == Len(Held) + Len(evq)
  <2>1. last \in Nat /\ last' = last - 1 /\ last <= CircleLen
    <3>1. Len(Held) \in Nat /\ Len(evq) \in Nat /\ Held \in Seq(Buffers)
          /\ Len(rx_ring) \in Nat /\ NicLen \in Nat
      BY <1>1, Lengths
    <3>2. Len(Held') = Len(Held) - 1
      BY <1>2, <1>3, <3>1, HeadTailProperties
    <3>3. QED
      BY <3>1, <3>2 DEF CircleLen
  <2>2. ASSUME NEW i \in FirstUnread' .. last'
        PROVE  i + 1 \in FirstUnread .. last /\ Packet(i)' = Packet(i + 1)
    <3>1. i \in 1 .. CircleLen' /\ i + 1 \in 2 .. last
      BY <1>3, <1>4, <2>1
    <3>2. Circle'[i] = Circle[i + 1]
      BY <1>4, <3>1
    <3>3. QED
      BY <1>3, <3>1, <3>2 DEF Packet
  <2>3. nicPc' \in {"complete", "event"} => pool'[desc'.id] = seq'
    BY <1>1 DEF Payload
  <2>4. /\ last \in Int /\ last' \in Int /\ 1 \in Nat
        /\ FirstUnread \in Int /\ FirstUnread' \in Int
        /\ Arrived \in Int /\ Arrived' \in Int /\ Arrived <= Arrived'
        /\ got' = got
    BY <1>3, <2>1
  <2>5. QED
    BY <1>1, <2>2, <2>3, <2>4, PayloadFrame
<1>10. QED
  BY <1>1, <1>5, <1>6, <1>7, <1>8, <1>9 DEF InterfaceInv

(* Repost: the buffer goes on to the push, or is given up.                 *)
LEMMA RepostIInv ==
  ASSUME InterfaceInv, Repost
  PROVE  /\ InterfaceInv'
         /\ ownership[aBuf] = "Filled" =>
              /\ CircleLen' = CircleLen /\ Circle' = Circle
              /\ Held' = Held /\ appPc' = "push"
<1> USE DEF Repost, nic
<1>1. CASE ownership[aBuf] = "Filled"
  <2>1. TypeOK /\ Control /\ Custody /\ StatsConserved
    BY DEF InterfaceInv
  <2>2. TypeOK' /\ StatsConserved'
    BY <1>1, <2>1 DEF TypeOK, StatsConserved, NicHolds
  <2>3. /\ Held' = Held /\ NicHolds' = NicHolds /\ FirstUnread <= FirstUnread'
        /\ Arrived' = Arrived /\ Arrived \in Int /\ events' = events
        /\ aBuf' = aBuf
    BY <1>1, <2>1, Constants DEF Held, NicHolds, FirstUnread, Arrived, TypeOK
  <2>4. Control'
    BY <1>1, <2>1, <2>3 DEF Control, NicHolds
  <2>5. nicPc' \in {"complete", "event"} => pool'[desc'.id] = seq'
    BY DEF InterfaceInv, Payload
  <2>6. QED
    BY <2>1, <2>2, <2>3, <2>4, <2>5, NothingMoves DEF Custody
<1>2. QED
  BY <1>1, RepostFails

(* The buffer in the application's hand becomes the last descriptor.       *)
LEMMA PushDescIInv ==
  ASSUME InterfaceInv, PushDesc
  PROVE  /\ InterfaceInv' /\ appPc' = "own" /\ aBuf' = aBuf /\ aBuf \in Buffers
         /\ events' = events /\ Len(rx_ring') = Len(rx_ring) + 1
         /\ \E k \in 0 .. 1 :
              /\ k = 0 <=> events = << >>
              /\ CircleLen' = CircleLen - k + 1 /\ CircleLen >= k
              /\ Len(Held) \in Nat /\ Len(Held') = Len(Held) - k
              /\ k = 1 => Circle[1] = aBuf
              /\ \A i \in 1 .. CircleLen - k : Circle'[i] = Circle[i + k]
              /\ Circle'[CircleLen'] = aBuf
<1> USE DEF PushDesc, nic
<1>1. /\ TypeOK /\ Control /\ Custody /\ StatsConserved /\ Knowledge /\ Payload
      /\ appPc = "push"
  BY DEF InterfaceInv
<1> DEFINE new == [id |-> aBuf, pops |-> evPops]
           k == IF events = << >> THEN 0 ELSE 1
           r == Len(rx_ring)
<1>2. /\ rx_ring' = Append(rx_ring, new) /\ rxKnown' \in rxKnown .. rxPops
      /\ appPc' = "own" /\ aBuf' = aBuf /\ events' = events
  <2>1. PICK seen \in rxKnown .. rxPops :
          /\ rxKnown' = seen
          /\ IF Len(rx_ring) + rxPops - seen >= RingCap
             THEN NextEvent /\ UNCHANGED rx_ring
             ELSE /\ rx_ring' = Append(rx_ring, new)
                  /\ appPc' = "own" /\ UNCHANGED <<aBuf, events>>
    OBVIOUS
  <2>2. Len(rx_ring) + rxPops - seen < RingCap
    BY <1>1, PostFits DEF PostNeverFails
  <2>3. /\ Len(rx_ring) \in Int /\ rxPops \in Int /\ seen \in Int /\ RingCap \in Int
    BY <1>1, Lengths, Constants DEF TypeOK
  <2>4. ~ (Len(rx_ring) + rxPops - seen >= RingCap)
    BY <2>2, <2>3
  <2>5. QED
    BY <2>1, <2>4
<1>3. /\ r + Len(evq) + NicLen < N /\ aBuf \in Buffers /\ aBuf # None
  BY <1>1, RoomToPost DEF Buffers, None
<1>4. new \in Entry
  BY <1>1, <1>3 DEF Entry, TypeOK
<1>5. /\ rx_ring' \in Seq(Entry) /\ r \in Nat /\ Len(rx_ring') = r + 1
      /\ \A i \in 1 .. r : rx_ring'[i] = rx_ring[i]
      /\ rx_ring'[r + 1] = new
  BY <1>1, <1>2, <1>4, AppendProperties, LenProperties DEF TypeOK
<1>6. /\ Held = events /\ Held' = IF events = << >> THEN events ELSE Tail(events)
      /\ NicHolds' = NicHolds /\ NicLen' = NicLen
      /\ FirstUnread = 1 + k /\ FirstUnread' = 1
      /\ Arrived' = Arrived /\ Arrived \in Int
  BY <1>1, <1>2, Constants
     DEF Held, NicHolds, NicLen, FirstUnread, Arrived, TypeOK
<1>7. /\ k \in 0 .. 1 /\ (k = 0 <=> events = << >>)
      /\ Len(Held) \in Nat /\ Len(Held) >= k /\ Len(Held') = Len(Held) - k
      /\ \A i \in 1 .. Len(Held) - k : Held'[i] = Held[i + k]
  <2>1. CASE events = << >>
    BY <1>1, <1>6, <2>1, Events
  <2>2. CASE events # << >>
    BY <1>1, <1>6, <2>2, Events
  <2>3. QED
    BY <2>1, <2>2
<1> HIDE DEF k, new
<1>8. /\ CircleLen' = CircleLen - k + 1 /\ CircleLen \in Nat /\ CircleLen >= k
      /\ \A i \in 1 .. CircleLen - k : Circle'[i] = Circle[i + k]
      /\ Circle'[CircleLen'] = aBuf
  <2>1. /\ CircleLen' = CircleLen - k + (Len(rx_ring') - Len(rx_ring))
        /\ CircleLen \in Nat /\ CircleLen >= k
        /\ \A i \in 1 .. CircleLen - k : Circle'[i] = Circle[i + k]
        /\ \A i \in Len(rx_ring) + 1 .. Len(rx_ring') :
             Circle'[CircleLen - k - Len(rx_ring) + i] = rx_ring'[i].id
    <3>1. /\ evq' = evq /\ NicHolds' = NicHolds /\ desc' = desc
          /\ Len(rx_ring) \in Nat /\ Len(rx_ring') \in Nat
          /\ Len(rx_ring') >= Len(rx_ring)
          /\ \A i \in 1 .. Len(rx_ring) : rx_ring'[i] = rx_ring[i]
      BY <1>5, <1>6
    <3>2. Shift(k)
      BY <1>7, <3>1 DEF Shift
    <3>3. TypeOK /\ k \in 0 .. 1
      BY <1>1, <1>7
    <3>4. QED
      BY <3>2, <3>3, CircleShift
  <2>2. r + 1 \in Len(rx_ring) + 1 .. Len(rx_ring')
        /\ CircleLen - k - Len(rx_ring) + (r + 1) = CircleLen'
        /\ CircleLen' = CircleLen - k + 1
    <3>1. /\ Len(rx_ring) \in Nat /\ Len(rx_ring') = Len(rx_ring) + 1
          /\ r = Len(rx_ring)
      BY <1>5
    <3>2. /\ CircleLen' = CircleLen - k + (Len(rx_ring') - Len(rx_ring))
          /\ CircleLen \in Nat
      BY <2>1
    <3>3. k \in 0 .. 1
      BY <1>7
    <3> HIDE DEF r
    <3>4. QED
      BY <3>1, <3>2, <3>3
  <2>3. Circle'[CircleLen'] = rx_ring'[r + 1].id
    BY <2>1, <2>2
  <2>4. QED
    BY <1>5, <2>1, <2>2, <2>3 DEF new
<1> HIDE DEF r
<1>9. TypeOK'
  <2>1. Len(rx_ring') <= RingCap
    BY <1>1, <1>3, <1>5, Lengths, Constants
  <2>2. rxKnown' \in 0 .. rxPops
    BY <1>1, <1>2, Constants DEF TypeOK
  <2>3. QED
    BY <1>1, <1>2, <1>5, <2>1, <2>2 DEF TypeOK
<1>10. Control'
  BY <1>1, <1>2, <1>6, <1>7, <1>8 DEF Control
<1>11. k = 1 => Circle[1] = aBuf
  BY <1>1, <1>6, <1>7, CircleParts, Events DEF Control
<1>12. ASSUME NEW i \in 1 .. CircleLen - k
       PROVE  /\ i + k \in 1 .. CircleLen /\ Circle[i + k] # aBuf
              /\ ownership[Circle[i + k]] # "Free"
  <2>1. i + k \in 1 .. CircleLen /\ i \in Nat /\ i >= 1
    BY <1>7, <1>8
  <2>2. ownership[Circle[i + k]] # "Free"
    BY <1>1, <2>1 DEF Custody
  <2>3. CASE events = << >>
    BY <1>1, <2>1, <2>2, <2>3 DEF Control
  <2>4. CASE events # << >>
    <3>1. Circle[1] = aBuf /\ k = 1
      BY <1>7, <1>11, <2>4
    <3>2. 1 \in 1 .. CircleLen /\ i + k # 1
      BY <1>8, <2>1, <3>1
    <3>3. QED
      BY <1>1, <2>1, <2>2, <3>1, <3>2 DEF Custody
  <2>5. QED
    BY <2>1, <2>2, <2>3, <2>4
<1>13. Custody'
  <2>1. ASSUME NEW i \in 1 .. CircleLen', NEW j \in 1 .. CircleLen',
               Circle'[i] = Circle'[j]
        PROVE  i = j
    <3>1. CASE i = CircleLen' /\ j = CircleLen'
      BY <3>1
    <3>2. CASE i = CircleLen' /\ j # CircleLen'
      <4>1. j \in 1 .. CircleLen - k
        BY <1>7, <1>8, <3>2
      <4>2. QED
        BY <1>8, <1>12, <2>1, <3>2, <4>1
    <3>3. CASE i # CircleLen' /\ j = CircleLen'
      <4>1. i \in 1 .. CircleLen - k
        BY <1>7, <1>8, <3>3
      <4>2. QED
        BY <1>8, <1>12, <2>1, <3>3, <4>1
    <3>4. CASE i # CircleLen' /\ j # CircleLen'
      <4>1. i \in 1 .. CircleLen - k /\ j \in 1 .. CircleLen - k
        BY <1>7, <1>8, <3>4
      <4>2. Circle[i + k] = Circle[j + k]
        BY <1>8, <2>1, <4>1
      <4>3. i + k = j + k
        BY <1>1, <1>12, <4>1, <4>2 DEF Custody
      <4>4. QED
        BY <1>7, <4>1, <4>3
    <3>5. QED
      BY <3>1, <3>2, <3>3, <3>4
  <2>2. ASSUME NEW i \in 1 .. CircleLen', ownership'[Circle'[i]] = "Free"
        PROVE  aBuf' = Circle'[i]
    <3>1. CASE i = CircleLen'
      BY <1>2, <1>8, <3>1
    <3>2. CASE i # CircleLen'
      <4>1. i \in 1 .. CircleLen - k
        BY <1>7, <1>8, <3>2
      <4>2. QED
        BY <1>8, <1>12, <2>2, <4>1
    <3>3. QED
      BY <3>1, <3>2
  <2>3. QED
    BY <1>2, <2>1, <2>2 DEF Custody
<1>14. Knowledge'
  <2>1. /\ evPops \in Nat /\ rxPops \in Nat /\ rxKnown \in Nat
        /\ rxPops = evPops + Len(evq) + NicLen
        /\ Len(evq) \in Nat /\ NicLen \in Nat
    <3>1. Len(evq) \in Nat /\ NicLen \in Nat
      BY <1>1, Lengths
    <3>2. evPops \in Nat /\ rxPops \in Nat /\ rxKnown \in Nat
      BY <1>1, Constants DEF TypeOK
    <3>3. QED
      BY <1>1, <3>1, <3>2 DEF Knowledge
  <2>2. ASSUME NEW i \in 1 .. Len(rx_ring')
        PROVE  /\ rxPops' + i - N <= rx_ring'[i].pops
               /\ rx_ring'[i].pops <= evPops'
    <3>1. CASE i <= r
      BY <1>1, <1>5, <3>1 DEF Knowledge, r
    <3>2. CASE i = r + 1
      <4>1. rx_ring'[i].pops = evPops
        BY <1>5, <3>2 DEF new
      <4>2. rxPops + (r + 1) - N <= evPops
        BY <1>3, <1>5, <2>1, Constants
      <4>3. QED
        BY <2>1, <3>2, <4>1, <4>2
    <3>3. QED
      BY <1>5, <3>1, <3>2
  <2>3. evPops' <= rxKnown'
    BY <1>1, <1>2, <2>1 DEF Knowledge
  <2>4. QED
    BY <1>1, <1>6, <2>2, <2>3 DEF Knowledge
<1>15. StatsConserved'
  <2>1. /\ stats.posted \in Int /\ rxPops \in Int
    BY <1>1, StatsBounds, Constants DEF TypeOK
  <2>2. QED
    BY <1>1, <1>2, <1>5, <1>6, <2>1 DEF StatsConserved, r
<1>16. Payload'
  <2> DEFINE last == Len(Held) + Len(evq)
  <2>1. last \in Nat /\ last' = last - k /\ last <= CircleLen
    <3>1. Len(evq) \in Nat /\ Len(rx_ring) \in Nat /\ NicLen \in Nat
      BY <1>1, Lengths
    <3>2. QED
      BY <1>7, <3>1 DEF CircleLen
  <2>2. ASSUME NEW i \in FirstUnread' .. last'
        PROVE  i + k \in FirstUnread .. last /\ Packet(i)' = Packet(i + k)
    <3>1. i \in 1 .. CircleLen - k /\ i + k \in 1 + k .. last
      BY <1>6, <1>7, <1>8, <2>1
    <3>2. Circle'[i] = Circle[i + k]
      BY <1>8, <3>1
    <3>3. QED
      BY <1>6, <3>1, <3>2 DEF Packet
  <2>3. nicPc' \in {"complete", "event"} => pool'[desc'.id] = seq'
    BY <1>1 DEF Payload
  <2>4. /\ last \in Int /\ last' \in Int /\ k \in Nat
        /\ FirstUnread \in Int /\ FirstUnread' \in Int
        /\ Arrived \in Int /\ Arrived' \in Int /\ Arrived <= Arrived'
        /\ got' = got
    BY <1>6, <1>7, <2>1
  <2>5. QED
    BY <1>1, <2>2, <2>3, <2>4, PayloadFrame
<1>17. QED
  BY <1>2, <1>3, <1>5, <1>7, <1>8, <1>11, <1>9, <1>10, <1>13, <1>14, <1>15, <1>16
     DEF InterfaceInv, r

(* Nothing changes.                                                        *)
LEMMA StutterIInv ==
  ASSUME InterfaceInv, UNCHANGED vars
  PROVE  InterfaceInv' /\ CircleLen' = CircleLen /\ Circle' = Circle
<1> USE DEF vars, app, nic
<1>1. /\ TypeOK' /\ StatsConserved' /\ Held' = Held /\ NicHolds' = NicHolds
      /\ FirstUnread' = FirstUnread /\ Arrived' = Arrived
  BY DEF InterfaceInv, TypeOK, StatsConserved, Held, NicHolds, FirstUnread, Arrived
<1>2. NicLen' = NicLen /\ CircleLen' = CircleLen /\ Circle' = Circle
  BY <1>1, SameParts
<1>3. Control' /\ Custody' /\ Knowledge'
  BY <1>1, <1>2 DEF InterfaceInv, Control, Custody, Knowledge
<1>4. Payload'
  <2>1. Arrived \in Int /\ FirstUnread \in Int
    BY Constants DEF Arrived, FirstUnread, InterfaceInv, TypeOK
  <2>2. nicPc' \in {"complete", "event"} => pool'[desc'.id] = seq'
    BY DEF InterfaceInv, Payload
  <2>3. QED
    BY <1>1, <1>2, <2>1, <2>2, PayloadStays
<1>5. QED
  BY <1>1, <1>2, <1>3, <1>4 DEF InterfaceInv

(* The invariant is inductive.                                             *)
LEMMA NextIInv == InterfaceInv /\ [Next]_vars => InterfaceInv'
<1> SUFFICES ASSUME InterfaceInv, [Next]_vars
             PROVE  InterfaceInv'
  OBVIOUS
<1>1. ASSUME App PROVE InterfaceInv'
  BY <1>1, StartIInv, PostIInv, PollPopIInv, PollReturnIInv, DataIInv, ReadIInv,
     RepostIInv, PushDescIInv, SetPostedIInv, CountPostedIInv DEF App, PostFrom
<1>2. ASSUME Nic PROVE InterfaceInv'
  BY <1>2, AcquireIInv, NoBufferIInv, CountDroppedIInv, DmaIInv, SetFilledIInv,
     PushEventIInv, CountCompletedIInv DEF Nic
<1>3. CASE Terminated \/ UNCHANGED vars
  BY <1>3, StutterIInv DEF Terminated
<1>4. QED
  BY <1>1, <1>2, <1>3 DEF Next

(* The inductive invariant, of every behaviour: also of those in which     *)
(* post_from marks its buffer too late (see Timely).                       *)
THEOREM VirtualInterfaceInvariant == Spec => []InterfaceInv
  BY InitIInv, NextIInv, PTL DEF Spec

(* Types and bounds: neither ring holds more than its capacity, poll never *)
(* writes more than max_events events, no view of the pops overtakes them. *)
THEOREM VirtualInterfaceTypeOK == Spec => []TypeOK
<1>1. InterfaceInv => TypeOK
  BY DEF InterfaceInv
<1>2. QED
  BY <1>1, VirtualInterfaceInvariant, PTL

(* A buffer is in one hand at a time: it is not posted twice, nor reported *)
(* twice, and the NIC never writes a buffer that the application may read. *)
THEOREM BufferOneOwner == Spec => []OneOwner
<1>1. InterfaceInv => OneOwner
  BY HandsAreCircle DEF InterfaceInv, OneOwner
<1>2. QED
  BY <1>1, VirtualInterfaceInvariant, PTL

(* No torn packet, no packet twice, none out of order.                     *)
THEOREM PacketsIntact == Spec => []PayloadIntact
<1>1. ASSUME InterfaceInv
      PROVE  PayloadIntact
  <2>1. /\ DOMAIN got = 1 .. Len(got) /\ Len(got) \in Nat
        /\ Arrived \in Int /\ Arrived - 1 <= Packets - 1
    <3>1. /\ got \in Seq({None, Torn} \cup 0 .. Packets - 1)
          /\ seq \in 0 .. Packets /\ (nicPc # "idle" => seq < Packets)
      BY <1>1 DEF InterfaceInv, TypeOK, Control
    <3>2. QED
      BY <3>1, LenProperties, Constants DEF Arrived
  <2>2. \A g \in 1 .. Len(got) :
          /\ got[g] \in 0 .. Arrived - 1
          /\ \A h \in 1 .. g - 1 : got[h] < got[g]
    BY <1>1 DEF InterfaceInv, Payload
  <2>3. QED
    BY <2>1, <2>2, Constants DEF PayloadIntact
<1>2. QED
  BY <1>1, VirtualInterfaceInvariant, PTL

(* A post that passes the ownership test finds room in rx_ring_, however   *)
(* few of the NIC's pops the application has seen.                         *)
THEOREM PostsFit == Spec => []PostNeverFails
<1>1. InterfaceInv => PostNeverFails
  BY PostFits
<1>2. QED
  BY <1>1, VirtualInterfaceInvariant, PTL

(* "this push cannot fail": complete_rx finds room in evq_.                *)
THEOREM CompletionsFit == Spec => []EventPushNeverFails
<1>1. InterfaceInv => EventPushNeverFails
  BY EventFits
<1>2. QED
  BY <1>1, VirtualInterfaceInvariant, PTL

(* The counters agree with the rings.                                      *)
THEOREM CountersAgree == Spec => []StatsConserved
<1>1. InterfaceInv => StatsConserved
  BY DEF InterfaceInv
<1>2. QED
  BY <1>1, VirtualInterfaceInvariant, PTL
-----------------------------------------------------------------------------
(* What holds as long as post_from marks the buffer in time (TimelySpec).  *)

(* Initially every buffer is Free.                                         *)
LEMMA InitMarked == Init => Marked
<1> SUFFICES ASSUME Init
             PROVE  Marked
  OBVIOUS
<1>1. Held = << >> /\ ~ NicHolds
  BY DEF Init, Held, NicHolds
<1>2. Len(Held) = 0 /\ Len(evq) = 0
  BY <1>1, EmptySeq DEF Init
<1>3. QED
  BY <1>2 DEF Init, Marked

(* Marked survives a step that leaves the circle and the marks alone.      *)
LEMMA MarkedStays ==
  ASSUME Marked, CircleLen' = CircleLen, Circle' = Circle,
         (Len(Held) + Len(evq))' = Len(Held) + Len(evq),
         ownership' = ownership,
         nicPc' = "event" => nicPc = "event" /\ desc' = desc,
         appPc' = "own" =>
           /\ appPc = "own"
           /\ rx_ring # << >> \/ nicPc \in {"dma", "copy", "complete"} =>
                rx_ring' # << >> \/ nicPc' \in {"dma", "copy", "complete"}
  PROVE  Marked'
  BY DEF Marked

(* The steps of the application that neither post nor mark a buffer.       *)
LEMMA AppMarked ==
  ASSUME TimelyInv,
         \/ Start \/ (\E id \in Buffers : Post(id))
         \/ PollPop \/ PollReturn \/ Data \/ Read \/ CountPosted
  PROVE  Marked'
<1>1. InterfaceInv /\ Marked
  BY DEF TimelyInv
<1>2. CASE Start
  <2>1. Held' = Held /\ evq' = evq
    BY <1>2 DEF Start, app, Held
  <2>2. QED
    BY <1>1, <1>2, <2>1, StartIInv, MarkedStays DEF Start, app, nic
<1>3. ASSUME NEW id \in Buffers, Post(id)
      PROVE  Marked'
  <2>1. Held' = Held /\ evq' = evq
    BY <1>1, <1>3 DEF Post, Held
  <2>2. CircleLen' = CircleLen /\ Circle' = Circle
    BY <1>1, <1>3, PostIInv
  <2>3. QED
    BY <1>1, <1>3, <2>1, <2>2, MarkedStays DEF Post, nic
<1>4. CASE PollPop
  BY <1>1, <1>4, PollPopIInv, MarkedStays DEF PollPop, nic
<1>5. CASE PollReturn
  <2>1. Held' = Held /\ evq' = evq
    BY <1>5 DEF PollReturn, Held
  <2>2. QED
    BY <1>1, <1>5, <2>1, PollReturnIInv, MarkedStays DEF PollReturn, nic
<1>6. CASE Data
  <2>1. Held' = Held /\ evq' = evq
    BY <1>6 DEF Data, Held
  <2>2. QED
    BY <1>1, <1>6, <2>1, DataIInv, MarkedStays DEF Data, nic
<1>7. CASE Read
  <2>1. Held' = Held /\ evq' = evq
    BY <1>7 DEF Read, Held
  <2>2. QED
    BY <1>1, <1>7, <2>1, ReadIInv, MarkedStays DEF Read, nic
<1>8. CASE CountPosted
  <2>1. appPc' # "own"
    BY <1>1, <1>8, NextEventIs DEF CountPosted, InterfaceInv
  <2>2. QED
    BY <1>1, <1>8, <2>1, CountPostedIInv, MarkedStays DEF CountPosted, nic
<1>9. QED
  BY <1>2, <1>3, <1>4, <1>5, <1>6, <1>7, <1>8

(* The steps of the NIC that neither mark a buffer nor push its event.     *)
LEMMA NicMarked ==
  ASSUME TimelyInv, Acquire \/ NoBuffer \/ CountDropped \/ Dma \/ CountCompleted
  PROVE  Marked'
<1>1. InterfaceInv /\ Marked
  BY DEF TimelyInv
<1>2. Held' = Held /\ evq' = evq
  BY DEF Acquire, NoBuffer, CountDropped, Dma, CountCompleted, app, Held
<1>3. CASE Acquire
  BY <1>1, <1>2, <1>3, AcquireIInv, MarkedStays DEF Acquire, app
<1>4. CASE NoBuffer
  BY <1>1, <1>2, <1>4, NoBufferIInv, MarkedStays DEF NoBuffer, app
<1>5. CASE CountDropped
  BY <1>1, <1>2, <1>5, CountDroppedIInv, MarkedStays DEF CountDropped, app
<1>6. CASE Dma
  BY <1>1, <1>2, <1>6, DmaIInv, MarkedStays DEF Dma, app
<1>7. CASE CountCompleted
  BY <1>1, <1>2, <1>7, CountCompletedIInv, MarkedStays DEF CountCompleted, app
<1>8. QED
  BY <1>3, <1>4, <1>5, <1>6, <1>7

(* The buffer that post_from is about to mark is a descriptor, or the      *)
(* NIC's, so that no event and no polled buffer loses its mark.            *)
LEMMA SetPostedMarked ==
  ASSUME TimelyInv, SetPosted
  PROVE  Marked'
<1> USE DEF SetPosted, nic
<1>1. InterfaceInv /\ Marked /\ TypeOK /\ Control /\ Custody
  BY DEF TimelyInv, InterfaceInv
<1>2. CircleLen' = CircleLen /\ Circle' = Circle /\ Held' = Held /\ evq' = evq
  BY <1>1, SetPostedIInv DEF Held
<1>3. /\ CircleLen \in Nat /\ CircleLen > 0 /\ aBuf = Circle[CircleLen]
      /\ Circle \in [1 .. CircleLen -> Buffers] /\ aBuf \in Buffers
      /\ Len(Held) \in Nat /\ Len(evq) \in Nat
      /\ CircleLen = Len(Held) + Len(evq) + NicLen + Len(rx_ring)
      /\ NicLen \in 0 .. 1 /\ Len(rx_ring) \in Nat
  BY <1>1, CircleType, Lengths DEF Control, CircleLen
<1>4. rx_ring # << >> => Len(rx_ring) > 0
  BY <1>1, EmptySeq DEF TypeOK
<1>5. rx_ring # << >> \/ nicPc \in {"dma", "copy", "complete"}
  BY <1>1 DEF Marked
<1>6. CircleLen > Len(Held) + Len(evq)
  BY <1>3, <1>4, <1>5 DEF NicLen, NicHolds
<1>7. ASSUME NEW b \in Buffers, b # aBuf
      PROVE  ownership'[b] = ownership[b]
  BY <1>1, <1>7 DEF TypeOK
<1>8. ASSUME NEW i \in 1 .. Len(Held) + Len(evq)
      PROVE  ownership'[Circle[i]] = "Filled"
  <2>1. i \in 1 .. CircleLen /\ CircleLen \in 1 .. CircleLen /\ i # CircleLen
    BY <1>3, <1>6
  <2>2. Circle[i] # aBuf /\ Circle[i] \in Buffers
    BY <1>1, <1>3, <2>1 DEF Custody
  <2>3. QED
    BY <1>1, <1>7, <2>2 DEF Marked
<1>9. nicPc = "event" => ownership'[desc.id] = "Filled"
  <2>1. SUFFICES ASSUME nicPc = "event" PROVE ownership'[desc.id] = "Filled"
    OBVIOUS
  <2>2. Len(rx_ring) > 0 /\ NicHolds
    BY <1>4, <1>5, <2>1 DEF NicHolds
  <2>3. desc.id \in Buffers /\ NicLen = 1 /\ desc.id # aBuf
    BY <1>1, <1>3, <2>2, NicBuffer
  <2>4. QED
    BY <1>1, <1>7, <2>1, <2>3 DEF Marked
<1>10. ASSUME NEW b \in Buffers
       PROVE  ownership'[b] = "Free" \/ \E i \in 1 .. CircleLen : Circle[i] = b
  BY <1>1, <1>3, <1>7 DEF Marked
<1>11. QED
  BY <1>2, <1>8, <1>9, <1>10 DEF Marked

(* Timely: the NIC marks a buffer that the application has marked already. *)
LEMMA SetFilledMarked ==
  ASSUME TimelyInv, SetFilled, Timely
  PROVE  Marked'
<1> USE DEF SetFilled, app
<1>1. InterfaceInv /\ Marked /\ TypeOK /\ Control /\ Custody /\ NicHolds
  BY DEF TimelyInv, InterfaceInv, NicHolds
<1>2. CircleLen' = CircleLen /\ Circle' = Circle /\ Held' = Held /\ evq' = evq
  BY <1>1, SetFilledIInv DEF Held
<1>3. /\ CircleLen \in Nat /\ Circle \in [1 .. CircleLen -> Buffers]
      /\ Len(Held) \in Nat /\ Len(evq) \in Nat
      /\ CircleLen = Len(Held) + Len(evq) + 1 + Len(rx_ring)
      /\ Len(rx_ring) \in Nat
      /\ desc.id \in Buffers /\ Circle[Len(Held) + Len(evq) + 1] = desc.id
  BY <1>1, CircleType, Lengths, NicBuffer DEF CircleLen
<1>4. /\ ownership'[desc.id] = "Filled"
      /\ \A b \in Buffers : b # desc.id => ownership'[b] = ownership[b]
  BY <1>1, <1>3 DEF TypeOK
<1>5. ASSUME NEW i \in 1 .. Len(Held) + Len(evq)
      PROVE  ownership'[Circle[i]] = "Filled"
  BY <1>1, <1>3, <1>4 DEF Marked
<1>6. appPc = "own" => rx_ring # << >>
  <2>1. SUFFICES ASSUME appPc = "own", rx_ring = << >> PROVE FALSE
    OBVIOUS
  <2>2. CircleLen = Len(Held) + Len(evq) + 1
    BY <1>3, <2>1, EmptySeq
  <2>3. aBuf = desc.id
    BY <1>1, <1>3, <2>1, <2>2 DEF Control
  <2>4. QED
    BY <2>1, <2>3 DEF Timely
<1>7. ASSUME NEW b \in Buffers
      PROVE  ownership'[b] = "Free" \/ \E i \in 1 .. CircleLen : Circle[i] = b
  BY <1>1, <1>3, <1>4 DEF Marked
<1>8. QED
  BY <1>2, <1>4, <1>5, <1>6, <1>7 DEF Marked

(* The event of a marked buffer joins the queue.                           *)
LEMMA PushEventMarked ==
  ASSUME TimelyInv, PushEvent
  PROVE  Marked'
<1> USE DEF PushEvent, app
<1>1. InterfaceInv /\ Marked /\ TypeOK /\ Control /\ Custody /\ NicHolds
  BY DEF TimelyInv, InterfaceInv, NicHolds
<1>2. /\ CircleLen' = CircleLen /\ Circle' = Circle
      /\ Held' = Held /\ Len(evq') = Len(evq) + 1
  BY <1>1, PushEventIInv
<1>3. /\ Len(Held) \in Nat /\ Len(evq) \in Nat
      /\ Circle[Len(Held) + Len(evq) + 1] = desc.id
  BY <1>1, Lengths, NicBuffer
<1>4. ASSUME NEW i \in 1 .. Len(Held') + Len(evq')
      PROVE  ownership'[Circle[i]] = "Filled"
  <2>1. CASE i = Len(Held) + Len(evq) + 1
    BY <1>1, <1>3, <2>1 DEF Marked
  <2>2. CASE i # Len(Held) + Len(evq) + 1
    <3>1. i \in 1 .. Len(Held) + Len(evq)
      BY <1>2, <1>3, <2>2
    <3>2. QED
      BY <1>1, <3>1 DEF Marked
  <2>3. QED
    BY <2>1, <2>2
<1>5. QED
  BY <1>1, <1>2, <1>4 DEF Marked

(* A polled buffer is marked Filled, so that repost does not fail.         *)
LEMMA RepostMarked ==
  ASSUME TimelyInv, Repost
  PROVE  Marked' /\ ownership[aBuf] = "Filled" /\ Held' = Held /\ appPc' = "push"
<1> USE DEF Repost, nic
<1>1. InterfaceInv /\ Marked /\ TypeOK /\ Control
  BY DEF TimelyInv, InterfaceInv
<1>2. ownership[aBuf] = "Filled"
  <2>1. events # << >> /\ aBuf = Head(events) /\ Held = events
    BY <1>1 DEF Control, Held
  <2>2. /\ Len(Held) \in Nat /\ Len(Held) >= 1 /\ Held[1] = aBuf
        /\ Len(evq) \in Nat
    BY <1>1, <2>1, Events, Lengths
  <2>3. Circle[1] = aBuf
    BY <1>1, <2>2, CircleParts
  <2>4. QED
    BY <1>1, <2>2, <2>3 DEF Marked
<1>3. /\ CircleLen' = CircleLen /\ Circle' = Circle
      /\ Held' = Held /\ appPc' = "push"
  BY <1>1, <1>2, RepostIInv
<1>4. QED
  BY <1>1, <1>2, <1>3, MarkedStays

(* The buffer posted is the circle's last; the others keep their marks.    *)
LEMMA PushDescMarked ==
  ASSUME TimelyInv, PushDesc
  PROVE  Marked'
<1>1. InterfaceInv /\ Marked /\ TypeOK
  BY DEF TimelyInv, InterfaceInv
<1>2. ownership' = ownership /\ evq' = evq /\ nicPc' = nicPc /\ desc' = desc
  BY DEF PushDesc, nic
<1>3. /\ appPc' = "own" /\ aBuf \in Buffers
      /\ Len(rx_ring') = Len(rx_ring) + 1
  BY <1>1, PushDescIInv
<1>4. PICK k \in 0 .. 1 :
        /\ CircleLen' = CircleLen - k + 1 /\ CircleLen >= k
        /\ Len(Held) \in Nat /\ Len(Held') = Len(Held) - k
        /\ k = 1 => Circle[1] = aBuf
        /\ \A i \in 1 .. CircleLen - k : Circle'[i] = Circle[i + k]
        /\ Circle'[CircleLen'] = aBuf
  BY <1>1, PushDescIInv
<1>5. /\ CircleLen \in Nat /\ Len(evq) \in Nat /\ Len(rx_ring) \in Nat
      /\ Len(Held) + Len(evq) <= CircleLen
  BY <1>1, Lengths DEF CircleLen
<1>6. rx_ring' # << >>
  BY <1>3, <1>5, EmptySeq
<1>7. ASSUME NEW i \in 1 .. Len(Held') + Len(evq')
      PROVE  ownership'[Circle'[i]] = "Filled"
  <2>1. i \in 1 .. CircleLen - k /\ i + k \in 1 .. Len(Held) + Len(evq)
    BY <1>2, <1>4, <1>5
  <2>2. QED
    BY <1>1, <1>2, <1>4, <2>1 DEF Marked
<1>8. ASSUME NEW b \in Buffers, ownership'[b] # "Free"
      PROVE  \E i \in 1 .. CircleLen' : Circle'[i] = b
  <2>1. PICK j \in 1 .. CircleLen : Circle[j] = b
    BY <1>1, <1>2, <1>8 DEF Marked
  <2>2. CASE j > k
    <3>1. j - k \in 1 .. CircleLen - k /\ (j - k) + k = j
          /\ j - k \in 1 .. CircleLen'
      BY <1>4, <1>5, <2>2
    <3>2. QED
      BY <1>4, <2>1, <3>1
  <2>3. CASE j <= k
    <3>1. k = 1 /\ j = 1 /\ CircleLen' \in 1 .. CircleLen'
      BY <1>4, <1>5, <2>3
    <3>2. QED
      BY <1>4, <2>1, <3>1
  <2>4. j > k \/ j <= k
    OBVIOUS
  <2>5. QED
    BY <2>2, <2>3, <2>4
<1>9. QED
  BY <1>1, <1>2, <1>6, <1>7, <1>8 DEF Marked

(* The stronger invariant is inductive, too.                               *)
LEMMA NextTimelyInv ==
  TimelyInv /\ [App \/ NicTimely \/ Terminated]_vars => TimelyInv'
<1> SUFFICES ASSUME TimelyInv, [App \/ NicTimely \/ Terminated]_vars
             PROVE  TimelyInv'
  OBVIOUS
<1>1. InterfaceInv'
  BY NextIInv DEF TimelyInv, NicTimely, Next
<1>2. ASSUME App PROVE Marked'
  BY <1>2, AppMarked, RepostMarked, PushDescMarked, SetPostedMarked
     DEF App, PostFrom
<1>3. ASSUME NicTimely PROVE Marked'
  BY <1>3, NicMarked, SetFilledMarked, PushEventMarked DEF NicTimely, Nic
<1>4. ASSUME Terminated \/ UNCHANGED vars PROVE Marked'
  <2>1. UNCHANGED vars
    BY <1>4 DEF Terminated
  <2>2. /\ CircleLen' = CircleLen /\ Circle' = Circle
        /\ Held' = Held /\ evq' = evq
    BY <2>1, StutterIInv DEF TimelyInv, vars, app, Held
  <2>3. QED
    BY <2>1, <2>2, MarkedStays DEF TimelyInv, vars, app, nic
<1>5. QED
  BY <1>1, <1>2, <1>3, <1>4 DEF TimelyInv

(* The inductive invariant of the behaviours in which post_from marks its  *)
(* buffer before the NIC completes it.                                     *)
THEOREM TimelyInvariant == TimelySpec => []TimelyInv
<1>1. Init => TimelyInv
  BY InitIInv, InitMarked DEF TimelyInv
<1>2. QED
  BY <1>1, NextTimelyInv, PTL DEF TimelySpec

(* No buffer leaves circulation: one that was posted is in some hand.      *)
THEOREM BuffersStay == TimelySpec => []NoBufferLost
<1>1. TimelyInv => NoBufferLost
  BY HandsAreCircle DEF TimelyInv, InterfaceInv, Marked, NoBufferLost
<1>2. QED
  BY <1>1, TimelyInvariant, PTL

(* The head of what poll returned is marked Filled.                        *)
LEMMA HeadFilled ==
  ASSUME TimelyInv, appPc = "serve"
  PROVE  ownership[Head(events)] = "Filled"
<1>1. TypeOK /\ Control /\ Marked
  BY DEF TimelyInv, InterfaceInv
<1>2. /\ events # << >> /\ Held = events /\ Len(evq) \in Nat
      /\ Len(Held) \in Nat /\ Len(Held) >= 1 /\ Held[1] = Head(events)
  BY <1>1, Events, Lengths DEF Control, Held
<1>3. Circle[1] = Head(events)
  BY <1>1, <1>2, CircleParts
<1>4. QED
  BY <1>1, <1>2, <1>3 DEF Marked

(* data does not return nullptr for a buffer that poll reported.           *)
THEOREM PolledReadable == TimelySpec => []PolledIsReadable
<1>1. TimelyInv => PolledIsReadable
  BY HeadFilled DEF PolledIsReadable
<1>2. QED
  BY <1>1, TimelyInvariant, PTL
-----------------------------------------------------------------------------
(* The refinement of LossyChannel.                                         *)

Contents == {None, Torn} \cup 0 .. Packets - 1
Last == Len(Held) + Len(evq)

(* The packets that wait are those of the circle, from the first unread    *)
(* buffer to the last event.                                               *)
WaitingView ==
  /\ Waiting \in Seq(Contents)
  /\ Last \in Nat /\ FirstUnread \in 1 .. 2 /\ FirstUnread <= Last + 1
  /\ Len(Waiting) = Last + 1 - FirstUnread
  /\ \A i \in 1 .. Last + 1 - FirstUnread :
       Waiting[i] = Packet(i + (FirstUnread - 1))

(* It is so in every state with the right types.                           *)
LEMMA WaitingIs == TypeOK /\ Control => WaitingView
<1> SUFFICES ASSUME TypeOK, Control
             PROVE  WaitingView
  OBVIOUS
<1> DEFINE k == FirstUnread - 1
           h == Len(Held)
           e == Len(evq)
           u == [i \in 1 .. Len(Unread) |-> pool[Unread[i]]]
           v == [i \in 1 .. Len(evq) |-> pool[evq[i].id]]
<1>1. /\ Held \in Seq(Buffers) /\ h \in Nat /\ e \in Nat
      /\ Circle \in [1 .. CircleLen -> Buffers]
      /\ pool \in [Buffers -> Contents]
      /\ h + e <= CircleLen /\ CircleLen \in Nat
  <2>1. /\ Held \in Seq(Buffers) /\ h \in Nat /\ e \in Nat
        /\ NicLen \in Nat /\ Len(rx_ring) \in Nat /\ CircleLen \in Nat
        /\ CircleLen = h + e + NicLen + Len(rx_ring)
    BY Lengths DEF CircleLen
  <2>2. Circle \in [1 .. CircleLen -> Buffers]
    BY CircleType
  <2>3. pool \in [Buffers -> Contents]
    BY DEF TypeOK, Contents
  <2> HIDE DEF h, e
  <2>4. QED
    BY <2>1, <2>2, <2>3
<1>2. /\ FirstUnread \in 1 .. 2 /\ k \in 0 .. 1 /\ h >= k
      /\ Len(Unread) = h - k /\ \A i \in 1 .. h - k : Unread[i] = Held[i + k]
  <2>1. CASE appPc \in {"repost", "push"} /\ events # << >>
    <3>1. Held = events /\ Unread = Tail(events) /\ FirstUnread = 2
      BY <2>1 DEF Held, Unread, FirstUnread
    <3>2. QED
      BY <2>1, <3>1, Events
  <2>2. CASE ~ (appPc \in {"repost", "push"} /\ events # << >>)
    <3>1. Unread = Held /\ FirstUnread = 1
      BY <2>2 DEF Held, Unread, FirstUnread
    <3>2. QED
      BY <1>1, <3>1
  <2>3. QED
    BY <2>1, <2>2
<1>3. /\ \A i \in 1 .. h : Circle[i] = Held[i]
      /\ \A i \in 1 .. e : Circle[h + i] = evq[i].id
  BY CircleParts
<1>4. Waiting = u \o v
  BY DEF Waiting
<1> HIDE DEF k, h, e
<1>5. /\ u = [i \in 1 .. h - k |-> pool[Circle[i + k]]]
      /\ v = [i \in 1 .. e |-> pool[Circle[h + i]]]
  <2>1. \A i \in 1 .. h - k : Unread[i] = Circle[i + k]
    BY <1>1, <1>2, <1>3
  <2>2. QED
    BY <1>2, <1>3, <2>1 DEF e
<1> HIDE DEF u, v
<1>6. \A j \in 1 .. h + e : pool[Circle[j]] \in Contents
  BY <1>1
<1>7. u \in Seq(Contents) /\ Len(u) = h - k
  <2>1. u \in [1 .. h - k -> Contents] /\ h - k \in Nat
    BY <1>1, <1>2, <1>5, <1>6
  <2>2. QED
    BY <2>1
<1>8. v \in Seq(Contents) /\ Len(v) = e
  <2>1. v \in [1 .. e -> Contents] /\ e \in Nat
    BY <1>1, <1>5, <1>6
  <2>2. QED
    BY <2>1
<1>9. /\ Waiting \in Seq(Contents) /\ Len(Waiting) = (h - k) + e
      /\ \A i \in 1 .. (h - k) + e :
           Waiting[i] = IF i <= h - k THEN u[i] ELSE v[i - (h - k)]
  <2>1. /\ u \o v \in Seq(Contents) /\ Len(u \o v) = Len(u) + Len(v)
        /\ \A i \in 1 .. Len(u) + Len(v) :
             (u \o v)[i] = IF i <= Len(u) THEN u[i] ELSE v[i - Len(u)]
    BY <1>7, <1>8, ConcatProperties, Zenon
  <2>2. QED
    BY <1>4, <1>7, <1>8, <2>1, Zenon
<1>10. Last = h + e /\ Last + 1 - FirstUnread = (h - k) + e
  BY <1>1, <1>2 DEF Last, h, e, k
<1>11. ASSUME NEW i \in 1 .. (h - k) + e
       PROVE  Waiting[i] = Packet(i + k)
  <2>1. CASE i <= h - k
    <3>1. i \in 1 .. h - k
      BY <1>1, <1>2, <2>1
    <3>2. QED
      BY <1>5, <1>9, <2>1, <3>1 DEF Packet
  <2>2. CASE i > h - k
    <3>1. i - (h - k) \in 1 .. e /\ h + (i - (h - k)) = i + k /\ ~ (i <= h - k)
      BY <1>1, <1>2, <2>2
    <3>2. QED
      BY <1>5, <1>9, <3>1 DEF Packet
  <2>3. i <= h - k \/ i > h - k
    BY <1>1, <1>2
  <2>4. QED
    BY <2>1, <2>2, <2>3
<1>12. QED
  <2>1. FirstUnread - 1 = k
    BY <1>1, <1>2 DEF k
  <2>2. Waiting \in Seq(Contents) /\ Len(Waiting) = Last + 1 - FirstUnread
    BY <1>9, <1>10
  <2>3. \A i \in 1 .. Last + 1 - FirstUnread :
           Waiting[i] = Packet(i + (FirstUnread - 1))
    BY <1>10, <1>11, <2>1
  <2>4. Last \in Nat /\ FirstUnread \in 1 .. 2 /\ FirstUnread <= Last + 1
    BY <1>1, <1>2, <1>10
  <2>5. QED
    BY <2>2, <2>3, <2>4 DEF WaitingView

(* The same of the next state.                                             *)
LEMMA WaitingIsPrime == (TypeOK /\ Control)' => WaitingView'
  BY WaitingIs, PTL

(* What a step of the receive path keeps when the circle and the packets   *)
(* in its front part stay.                                                 *)
LEMMA WaitingSame ==
  ASSUME InterfaceInv, InterfaceInv', Last' + 1 - FirstUnread' = Last + 1 - FirstUnread,
         \A i \in 1 .. Last + 1 - FirstUnread :
           pool'[Circle'[i + (FirstUnread' - 1)]] = Packet(i + (FirstUnread - 1))
  PROVE  Waiting' = Waiting
<1>1. WaitingView /\ WaitingView'
  BY WaitingIs, WaitingIsPrime DEF InterfaceInv
<1>2. /\ Waiting \in Seq(Contents) /\ Waiting' \in Seq(Contents)
      /\ Len(Waiting) = Last + 1 - FirstUnread /\ Len(Waiting') = Len(Waiting)
  BY <1>1 DEF WaitingView
<1>3. ASSUME NEW i \in 1 .. Last + 1 - FirstUnread
      PROVE  Waiting[i] = Waiting'[i]
  <2>1. Waiting[i] = Packet(i + (FirstUnread - 1))
    BY <1>1 DEF WaitingView
  <2>2. Waiting'[i] = pool'[Circle'[i + (FirstUnread' - 1)]]
    BY <1>1 DEF WaitingView, Packet
  <2>3. QED
    BY <2>1, <2>2
<1>4. QED
  BY <1>2, <1>3, SeqEqual

(* The same of a step that leaves the circle alone.                        *)
LEMMA WaitingStays ==
  ASSUME InterfaceInv, InterfaceInv', Circle' = Circle, Last' = Last, FirstUnread' = FirstUnread,
         \A i \in 1 .. Last : pool'[Circle[i]] = pool[Circle[i]]
  PROVE  Waiting' = Waiting
<1>1. WaitingView
  BY WaitingIs DEF InterfaceInv
<1>2. ASSUME NEW i \in 1 .. Last + 1 - FirstUnread
      PROVE  pool'[Circle'[i + (FirstUnread' - 1)]] = Packet(i + (FirstUnread - 1))
  <2>1. i + (FirstUnread - 1) \in 1 .. Last
    BY <1>1 DEF WaitingView
  <2>2. QED
    BY <2>1 DEF Packet
<1>3. QED
  BY <1>2, WaitingSame

(* Accept: the event is pushed, and fewer than N packets wait.             *)
LEMMA PushEventAccepts ==
  ASSUME InterfaceInv, PushEvent
  PROVE  Channel!Accept
<1>1. TypeOK /\ Control /\ Custody /\ Payload /\ InterfaceInv' /\ NicHolds
  BY PushEventIInv DEF InterfaceInv, PushEvent, NicHolds
<1>2. WaitingView /\ WaitingView'
  BY <1>1, WaitingIs, WaitingIsPrime DEF InterfaceInv
<1>3. /\ Arrived = seq /\ Arrived' = seq + 1 /\ seq \in 0 .. Packets - 1
      /\ got' = got /\ FirstUnread' = FirstUnread
  BY <1>1, Constants
     DEF PushEvent, app, Arrived, FirstUnread, Control, TypeOK
<1>4. /\ Circle' = Circle /\ Last' = Last + 1 /\ CircleLen <= N
      /\ Last < CircleLen /\ CircleLen \in Nat
  <2>1. /\ Circle' = Circle /\ Held' = Held /\ Len(evq') = Len(evq) + 1
    BY PushEventIInv
  <2>2. /\ Len(Held) \in Nat /\ Len(evq) \in Nat /\ Len(rx_ring) \in Nat
        /\ NicLen = 1 /\ CircleLen = Len(Held) + Len(evq) + NicLen + Len(rx_ring)
    BY <1>1, Lengths, NicBuffer DEF CircleLen
  <2>3. CircleLen <= N
    BY <1>1, CircleBound
  <2>4. Last' = Last + 1
    BY <2>1, <2>2 DEF Last
  <2>5. QED
    BY <2>1, <2>2, <2>3, <2>4 DEF Last
<1>5. Packet(Last + 1) = seq
  BY <1>1, NicBuffer DEF Payload, Packet, PushEvent, Last
<1>6. ASSUME NEW i \in Int
      PROVE  Packet(i)' = Packet(i)
  BY <1>4 DEF Packet, PushEvent
<1> DEFINE m == Last + 1 - FirstUnread
<1>7. m \in Nat /\ Len(Waiting) = m /\ Len(Waiting') = m + 1
  BY <1>2, <1>3, <1>4 DEF WaitingView
<1>8. /\ Append(Waiting, seq) \in Seq(Contents)
      /\ Len(Append(Waiting, seq)) = m + 1
      /\ \A i \in 1 .. m : Append(Waiting, seq)[i] = Waiting[i]
      /\ Append(Waiting, seq)[m + 1] = seq
  <2>1. Waiting \in Seq(Contents) /\ seq \in Contents
    BY <1>2, <1>3 DEF WaitingView, Contents
  <2>2. QED
    BY <1>7, <2>1, AppendProperties
<1>9. ASSUME NEW i \in 1 .. m + 1
      PROVE  Waiting'[i] = Append(Waiting, seq)[i]
  <2>1. /\ i \in 1 .. Last' + 1 - FirstUnread'
        /\ i + (FirstUnread - 1) \in Int
    BY <1>2, <1>3, <1>4 DEF WaitingView
  <2>2. Waiting'[i] = Packet(i + (FirstUnread - 1))
    BY <1>2, <1>3, <1>6, <2>1 DEF WaitingView
  <2>3. CASE i <= m
    <3>1. i \in 1 .. m
      BY <1>7, <2>3
    <3>2. QED
      BY <1>2, <1>8, <2>2, <3>1 DEF WaitingView
  <2>4. CASE i = m + 1
    <3>1. i + (FirstUnread - 1) = Last + 1
      BY <1>2, <2>4 DEF WaitingView
    <3>2. QED
      BY <1>5, <1>8, <2>2, <2>4, <3>1
  <2>5. QED
    BY <1>7, <2>3, <2>4
<1>10. Waiting' = Append(Waiting, seq)
  <2>1. Waiting' \in Seq(Contents)
    BY <1>2 DEF WaitingView
  <2> HIDE DEF m
  <2>2. QED
    BY <1>7, <1>8, <1>9, <2>1, SeqEqual
<1>11. Len(Waiting) < N
  BY <1>2, <1>4, <1>7, Constants DEF WaitingView
<1>12. QED
  BY <1>3, <1>10, <1>11, Constants DEF Channel!Accept

(* Deliver: the application reads the buffer of the first event it holds.  *)
LEMMA ReadDelivers ==
  ASSUME InterfaceInv, Read
  PROVE  Channel!Deliver
<1>1. TypeOK /\ Control /\ InterfaceInv' /\ Circle' = Circle
  BY ReadIInv DEF InterfaceInv
<1>2. WaitingView /\ WaitingView'
  BY <1>1, WaitingIs, WaitingIsPrime DEF InterfaceInv
<1>3. /\ events # << >> /\ aBuf = Head(events) /\ Held = events /\ Held' = Held
      /\ FirstUnread = 1 /\ FirstUnread' = 2 /\ Arrived' = Arrived
      /\ got' = Append(got, pool[aBuf])
  BY <1>1 DEF Read, nic, Control, Held, FirstUnread, Arrived
<1>4. Last' = Last /\ Last \in Nat /\ Last >= 1 /\ Packet(1) = pool[aBuf]
  <2>1. /\ Len(Held) \in Nat /\ Len(Held) >= 1 /\ Held[1] = aBuf
        /\ Len(evq) \in Nat
    BY <1>1, <1>3, Events, Lengths
  <2>2. Circle[1] = aBuf
    BY <1>1, <2>1, CircleParts
  <2>3. QED
    BY <1>3, <2>1, <2>2 DEF Last, Packet, Read, nic
<1>5. /\ Waiting \in Seq(Contents) /\ Waiting' \in Seq(Contents)
      /\ Len(Waiting) = Last /\ Len(Waiting') = Last - 1
      /\ \A i \in 1 .. Last : Waiting[i] = Packet(i)
  BY <1>2, <1>3, <1>4 DEF WaitingView
<1>6. /\ Waiting # << >> /\ Head(Waiting) = pool[aBuf]
      /\ Tail(Waiting) \in Seq(Contents) /\ Len(Tail(Waiting)) = Last - 1
      /\ \A i \in 1 .. Last - 1 : Tail(Waiting)[i] = Waiting[i + 1]
  BY <1>4, <1>5, EmptySeq, HeadTailProperties
<1>7. ASSUME NEW i \in 1 .. Last - 1
      PROVE  Waiting'[i] = Tail(Waiting)[i]
  <2>1. i \in 1 .. Last' + 1 - FirstUnread' /\ i + (FirstUnread' - 1) = i + 1
        /\ i + 1 \in 1 .. Last
    BY <1>3, <1>4
  <2>2. Waiting'[i] = pool'[Circle'[i + (FirstUnread' - 1)]]
    BY <1>2, <2>1 DEF WaitingView, Packet
  <2>3. QED
    BY <1>1, <1>5, <1>6, <2>1, <2>2 DEF Packet, Read, nic
<1>8. Waiting' = Tail(Waiting)
  BY <1>5, <1>6, <1>7, SeqEqual
<1>9. QED
  BY <1>3, <1>6, <1>8 DEF Channel!Deliver

(* The steps of the application that read no packet and push no descriptor *)
(* are invisible to the channel.                                           *)
LEMMA AppQuiet ==
  ASSUME TimelyInv,
         \/ Start \/ (\E id \in Buffers : Post(id))
         \/ PollPop \/ PollReturn \/ Data \/ Repost \/ SetPosted \/ CountPosted
  PROVE  UNCHANGED Channel!vars
<1>1. InterfaceInv /\ TypeOK /\ Control
  BY DEF TimelyInv, InterfaceInv
<1>2. /\ got' = got /\ pool' = pool /\ Arrived' = Arrived
  BY DEF Start, Post, PollPop, PollReturn, Data, Repost, SetPosted, CountPosted,
         app, nic, Arrived
<1>3. ASSUME InterfaceInv', Circle' = Circle, Last' = Last, FirstUnread' = FirstUnread
      PROVE  UNCHANGED Channel!vars
  BY <1>1, <1>2, <1>3, WaitingStays DEF Channel!vars
<1>4. CASE Start
  <2>1. Last' = Last /\ FirstUnread' = FirstUnread
    BY <1>4 DEF Start, app, Last, Held, FirstUnread
  <2>2. QED
    BY <1>1, <1>3, <1>4, <2>1, StartIInv
<1>5. ASSUME NEW id \in Buffers, Post(id)
      PROVE  UNCHANGED Channel!vars
  <2>1. Last' = Last /\ FirstUnread' = FirstUnread
    BY <1>1, <1>5 DEF Post, Last, Held, FirstUnread, Control
  <2>2. QED
    BY <1>1, <1>3, <1>5, <2>1, PostIInv
<1>6. CASE PollPop
  <2>1. FirstUnread' = FirstUnread
    BY <1>6 DEF PollPop, FirstUnread
  <2>2. QED
    BY <1>1, <1>3, <1>6, <2>1, PollPopIInv DEF Last
<1>7. CASE PollReturn
  <2>1. Last' = Last /\ FirstUnread' = FirstUnread
    BY <1>7 DEF PollReturn, Last, Held, FirstUnread
  <2>2. QED
    BY <1>1, <1>3, <1>7, <2>1, PollReturnIInv
<1>8. CASE Data
  <2>1. ownership[Head(events)] = "Filled"
    BY <1>8, HeadFilled DEF Data
  <2>2. Last' = Last /\ FirstUnread' = FirstUnread
    BY <1>8, <2>1 DEF Data, Last, Held, FirstUnread
  <2>3. QED
    BY <1>1, <1>3, <1>8, <2>2, DataIInv
<1>9. CASE Repost
  <2>1. ownership[aBuf] = "Filled" /\ Held' = Held
    BY <1>9, RepostMarked
  <2>2. Last' = Last /\ FirstUnread' = FirstUnread
    BY <1>9, <2>1 DEF Repost, Last, FirstUnread
  <2>3. QED
    BY <1>1, <1>3, <1>9, <2>1, <2>2, RepostIInv
<1>10. CASE SetPosted
  <2>1. Last' = Last /\ FirstUnread' = FirstUnread
    BY <1>10 DEF SetPosted, Last, Held, FirstUnread
  <2>2. QED
    BY <1>1, <1>3, <1>10, <2>1, SetPostedIInv
<1>11. CASE CountPosted
  <2>1. Last' = Last /\ FirstUnread' = FirstUnread
    <3>1. evq' = evq /\ Held' = Held /\ NextEvent /\ appPc = "count"
      BY <1>1, <1>11, CountPostedIInv DEF CountPosted
    <3>2. appPc' \in {"idle", "serve"}
      BY <1>1, <3>1, NextEventIs
    <3>3. QED
      BY <3>1, <3>2 DEF Last, FirstUnread
  <2>2. QED
    BY <1>1, <1>3, <1>11, <2>1, CountPostedIInv
<1>12. QED
  BY <1>4, <1>5, <1>6, <1>7, <1>8, <1>9, <1>10, <1>11

(* Posting the buffer of the first event drops that event, which was read. *)
LEMMA PushDescQuiet ==
  ASSUME InterfaceInv, PushDesc
  PROVE  UNCHANGED Channel!vars
<1>1. /\ got' = got /\ pool' = pool /\ evq' = evq /\ Arrived' = Arrived
  BY DEF PushDesc, nic, Arrived
<1>2. /\ InterfaceInv' /\ appPc' = "own" /\ events' = events /\ TypeOK
  BY PushDescIInv DEF InterfaceInv
<1>3. PICK k \in 0 .. 1 :
        /\ k = 0 <=> events = << >>
        /\ CircleLen' = CircleLen - k + 1 /\ CircleLen >= k
        /\ Len(Held) \in Nat /\ Len(Held') = Len(Held) - k
        /\ \A i \in 1 .. CircleLen - k : Circle'[i] = Circle[i + k]
  BY PushDescIInv
<1>4. /\ Len(evq) \in Nat /\ Len(rx_ring) \in Nat /\ NicLen \in Nat
      /\ CircleLen = Len(Held) + Len(evq) + NicLen + Len(rx_ring)
  BY <1>2, Lengths DEF CircleLen
<1>5. /\ FirstUnread = 1 + k /\ FirstUnread' = 1
      /\ Last' = Last - k /\ Last \in Nat /\ Last <= CircleLen
  <2>1. /\ k \in 0 .. 1 /\ k = 0 <=> events = << >>
        /\ Len(Held) \in Nat /\ Len(Held') = Len(Held) - k /\ evq' = evq
    BY <1>1, <1>3
  <2>2. FirstUnread = 1 + k /\ FirstUnread' = 1
    BY <1>2, <2>1 DEF FirstUnread, PushDesc
  <2>3. Last' = Last - k /\ Last \in Nat /\ Last <= CircleLen
    BY <1>4, <2>1 DEF Last
  <2>4. QED
    BY <2>2, <2>3
<1>6. ASSUME NEW i \in 1 .. Last + 1 - FirstUnread
      PROVE  pool'[Circle'[i + (FirstUnread' - 1)]] = Packet(i + (FirstUnread - 1))
  <2>1. /\ i \in 1 .. CircleLen - k /\ i + (FirstUnread' - 1) = i
        /\ i + (FirstUnread - 1) = i + k
    BY <1>3, <1>4, <1>5
  <2>2. QED
    BY <1>1, <1>3, <2>1 DEF Packet
<1>7. Waiting' = Waiting
  <2>1. Last' + 1 - FirstUnread' = Last + 1 - FirstUnread
    BY <1>3, <1>5
  <2>2. QED
    BY <1>2, <1>6, <2>1, WaitingSame
<1>8. QED
  BY <1>1, <1>7 DEF Channel!vars

(* Of the NIC's steps only the overrun and the push of the event matter.   *)
LEMMA NicQuiet ==
  ASSUME InterfaceInv, Acquire \/ CountDropped \/ Dma \/ SetFilled \/ CountCompleted
  PROVE  UNCHANGED Channel!vars
<1>1. TypeOK /\ Control /\ Custody
  BY DEF InterfaceInv
<1>2. /\ got' = got /\ Held' = Held /\ evq' = evq /\ Arrived' = Arrived
      /\ FirstUnread' = FirstUnread /\ Last' = Last
  BY DEF Acquire, CountDropped, Dma, SetFilled, CountCompleted, app, Held,
         Arrived, FirstUnread, Last
<1>3. InterfaceInv' /\ Circle' = Circle
  BY AcquireIInv, CountDroppedIInv, DmaIInv, SetFilledIInv, CountCompletedIInv
<1>4. ASSUME NEW i \in 1 .. Last
      PROVE  pool'[Circle[i]] = pool[Circle[i]]
  <2>1. CASE ~ Dma
    BY <2>1 DEF Acquire, CountDropped, SetFilled, CountCompleted
  <2>2. CASE Dma
    <3>1. NicHolds /\ pool \in [Buffers -> Contents]
      BY <1>1, <2>2 DEF Dma, NicHolds, TypeOK, Contents
    <3>2. /\ Len(Held) \in Nat /\ Len(evq) \in Nat /\ Len(rx_ring) \in Nat
          /\ CircleLen = Len(Held) + Len(evq) + 1 + Len(rx_ring)
          /\ Circle[Len(Held) + Len(evq) + 1] = desc.id /\ desc.id \in Buffers
      BY <1>1, <3>1, Lengths, NicBuffer DEF CircleLen
    <3>3. i \in 1 .. CircleLen /\ Last + 1 \in 1 .. CircleLen /\ i # Last + 1
      BY <3>2 DEF Last
    <3>4. Circle[i] # desc.id /\ Circle[i] \in Buffers
      BY <1>1, <3>2, <3>3, CircleType DEF Custody, Last
    <3>5. QED
      BY <2>2, <3>1, <3>4 DEF Dma
  <2>3. QED
    BY <2>1, <2>2
<1>5. QED
  BY <1>2, <1>3, <1>4, WaitingStays DEF Channel!vars

(* Drop: the NIC finds no buffer.                                          *)
LEMMA NoBufferDrops ==
  ASSUME InterfaceInv, NoBuffer
  PROVE  Channel!Drop
<1>1. /\ got' = got /\ pool' = pool /\ Last' = Last /\ FirstUnread' = FirstUnread
      /\ Arrived = seq /\ Arrived' = seq + 1 /\ seq < Packets
  BY DEF NoBuffer, app, Held, Last, FirstUnread, Arrived
<1>2. InterfaceInv' /\ Circle' = Circle
  BY NoBufferIInv
<1>3. Waiting' = Waiting
  BY <1>1, <1>2, WaitingStays
<1>4. QED
  BY <1>1, <1>3 DEF Channel!Drop

(* Initially nothing has arrived.                                          *)
LEMMA InitChannel == Init => Channel!Init
<1> SUFFICES ASSUME Init
             PROVE  Channel!Init
  OBVIOUS
<1>1. Arrived = 0 /\ got = << >> /\ Unread = << >> /\ evq = << >>
  BY DEF Init, Arrived, Unread
<1>2. Len(Unread) = 0 /\ Len(evq) = 0
  BY <1>1, EmptySeq
<1>3. Waiting = << >>
  <2>1. WaitingView
    BY InitIInv, WaitingIs DEF InterfaceInv
  <2>2. Last = 0 /\ FirstUnread = 1
    BY <1>1, <1>2 DEF Init, Last, Held, FirstUnread
  <2>3. Waiting \in Seq(Contents) /\ Len(Waiting) = 0
    BY <2>1, <2>2 DEF WaitingView
  <2>4. QED
    BY <2>3, EmptySeq
<1>4. QED
  BY <1>1, <1>3 DEF Channel!Init

(* Every step of the receive path is a step of the channel, or none.       *)
LEMMA StepIsChannelStep ==
  TimelyInv /\ [App \/ NicTimely \/ Terminated]_vars => [Channel!Next]_(Channel!vars)
<1> SUFFICES ASSUME TimelyInv, [App \/ NicTimely \/ Terminated]_vars
             PROVE  Channel!Next \/ UNCHANGED Channel!vars
  OBVIOUS
<1>1. InterfaceInv
  BY DEF TimelyInv
<1>2. CASE App
  BY <1>1, <1>2, AppQuiet, PushDescQuiet, ReadDelivers DEF App, PostFrom, Channel!Next
<1>3. CASE NicTimely
  BY <1>1, <1>3, NicQuiet, NoBufferDrops, PushEventAccepts
     DEF NicTimely, Nic, Channel!Next
<1>4. CASE Terminated \/ UNCHANGED vars
  BY <1>4 DEF Terminated, vars, app, nic, Channel!vars, Arrived, Waiting, Unread
<1>5. QED
  BY <1>2, <1>3, <1>4

(* The receive path promises what LossyChannel says: no packet that was    *)
(* accepted is lost, doubled, torn or overtaken, and at most N wait.       *)
THEOREM ReceivePathIsLossyChannel == TimelySpec => ImplementsChannel
  BY InitChannel, StepIsChannelStep, TimelyInvariant, PTL
     DEF TimelySpec, ImplementsChannel, Channel!Spec
=============================================================================
