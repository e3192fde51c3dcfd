------------------------ MODULE MessagePassing_proofs ------------------------
(***************************************************************************)
(* Theorems about MessagePassing, for any capacity and number of messages. *)
(*                                                                         *)
(* The indices keep their distance with either order of the stores         *)
(* (Indices).  If the index is published after the message was copied,     *)
(* the slots from read to write hold whole messages, in their turn; the    *)
(* producer fills the slot at write, which is none of them because the     *)
(* ring was not full, and the consumer copies the one at read, which the   *)
(* producer reaches again only after read has moved on (Contents).         *)
(***************************************************************************)
EXTENDS MessagePassing, TLAPS

(* Division with remainder. *)
LEMMA DivMod ==
  ASSUME NEW a \in Int, NEW c \in Nat \ {0}
  PROVE  /\ a % c \in 0 .. c - 1
         /\ a \div c \in Int
         /\ a = c * (a \div c) + (a % c)
  OBVIOUS

(* The remainder is the only one. *)
LEMMA DivModUnique ==
  ASSUME NEW a \in Int, NEW c \in Nat \ {0},
         NEW q \in Int, NEW s \in 0 .. c - 1,
         a = c * q + s
  PROVE  a % c = s
<1> DEFINE p == a \div c
           t == a % c
<1>1. p \in Int /\ t \in 0 .. c - 1 /\ a = c * p + t
  BY DivMod
<1> HIDE DEF p, t
<1>2. c * (q - p) = t - s /\ q - p \in Int
  BY <1>1
<1>3. q - p = 0
  BY <1>1, <1>2
<1>4. QED
  BY <1>1, <1>2, <1>3 DEF t

(* Counters less than c apart are equal modulo c only if they are equal.   *)
LEMMA ModInjective ==
  ASSUME NEW a \in Nat, NEW b \in Nat, NEW c \in Nat \ {0}, b < a, a - b < c
  PROVE  a % c # b % c
<1> DEFINE q == a \div c
           s == a % c
           p == b \div c
           t == b % c
<1>1. q \in Int /\ s \in 0 .. c - 1 /\ a = c * q + s
  BY DivMod
<1>2. p \in Int /\ t \in 0 .. c - 1 /\ b = c * p + t
  BY DivMod
<1> HIDE DEF q, s, p, t
<1>3. SUFFICES ASSUME s = t PROVE FALSE
  BY DEF s, t
<1>4. a - b = c * (q - p) + 0 /\ q - p \in Int /\ 0 \in 0 .. c - 1 /\ a - b \in Int
  BY <1>1, <1>2, <1>3
<1>5. (a - b) % c = 0
  BY <1>4, DivModUnique
<1>6. a - b = c * 0 + (a - b) /\ a - b \in 0 .. c - 1
  OBVIOUS
<1>7. (a - b) % c = a - b
  BY <1>6, DivModUnique
<1>8. QED
  BY <1>5, <1>7

(* What the constants are.                                                 *)
LEMMA Constants == Cap \in Nat \ {0} /\ Iters \in Nat \ {0}
  BY PassingAssumption

(* Every message has a slot.                                               *)
LEMMA SlotType == \A n \in Nat : Slot(n) \in 0 .. Cap - 1
  BY Constants, DivMod DEF Slot

(* Messages less than a lap apart have different slots.                    *)
LEMMA SlotsDiffer ==
  ASSUME NEW a \in Nat, NEW b \in Nat, b < a, a - b < Cap
  PROVE  Slot(a) # Slot(b)
  BY Constants, ModInjective DEF Slot

(* A message is a message.                                                 *)
LEMMA MsgType == \A n \in 0 .. Iters : Msg(n) \in Messages
  BY DEF Msg, Messages

(* The slots g are the slots f, but for one word of slot s, which is that  *)
(* of message n.                                                           *)
Stored(f, g, s, word, n) ==
  /\ g \in [0 .. Cap - 1 -> Messages]
  /\ g[s][word] = Msg(n)[word]
  /\ \A v \in Words \ {word} : g[s][v] = f[s][v]
  /\ \A t \in (0 .. Cap - 1) \ {s} : g[t] = f[t]

(* Storing one word of a message leaves the other word and the other slots *)
(* alone.                                                                  *)
LEMMA StoreWord ==
  ASSUME NEW f \in [0 .. Cap - 1 -> Messages], NEW s \in 0 .. Cap - 1,
         NEW word \in Words, NEW n \in 0 .. Iters,
         NEW g, g = [f EXCEPT ![s][word] = Msg(n)[word]]
  PROVE  Stored(f, g, s, word, n)
<1> USE DEF Stored
<1>1. f[s] \in Messages /\ Msg(n) \in Messages
  BY MsgType
<1>2. CASE word = "seq"
  <2>1. g = [f EXCEPT ![s] = [f[s] EXCEPT !.seq = Msg(n).seq]]
    BY <1>2
  <2>2. [f[s] EXCEPT !.seq = Msg(n).seq] \in Messages
    BY <1>1 DEF Messages
  <2>3. QED
    BY <1>1, <1>2, <2>1, <2>2 DEF Messages, Words
<1>3. CASE word = "payload"
  <2>1. g = [f EXCEPT ![s] = [f[s] EXCEPT !.payload = Msg(n).payload]]
    BY <1>3
  <2>2. [f[s] EXCEPT !.payload = Msg(n).payload] \in Messages
    BY <1>1 DEF Messages
  <2>3. QED
    BY <1>1, <1>3, <2>1, <2>2 DEF Messages, Words
<1>4. QED
  BY <1>2, <1>3 DEF Words

(* A message is known by its two words.                                    *)
LEMMA SameWords ==
  ASSUME NEW c \in Messages, NEW n \in 0 .. Iters,
         \A word \in Words : c[word] = Msg(n)[word]
  PROVE  c = Msg(n)
  BY DEF Messages, Words, Msg

(* Initially the ring is empty.                                            *)
LEMMA InitIInv == Init => IInv
<1> SUFFICES ASSUME Init
             PROVE  IInv
  OBVIOUS
<1>1. Msg(0) \in Messages
  BY MsgType, Constants
<1>2. TypeOK
  <2>1. slots \in [0 .. Cap - 1 -> Messages]
    BY <1>1 DEF Init
  <2>2. QED
    BY <1>1, <2>1, Constants DEF Init, TypeOK
<1>3. Indices /\ Contents
  BY Constants DEF Init, Indices, Contents
<1>4. QED
  BY <1>2, <1>3 DEF IInv

(* The numbers.                                                            *)
LEMMA Numbers ==
  ASSUME TypeOK
  PROVE  /\ write \in Nat /\ read \in Nat /\ i \in Nat /\ consumed \in Nat
         /\ mismatches \in Nat
         /\ Cap \in Nat \ {0} /\ Iters \in Nat \ {0}
  BY Constants DEF TypeOK

(* The producer finds room.                                                *)
LEMMA PushLoadIInv == IInv /\ PushLoad => IInv'
<1> SUFFICES ASSUME IInv, PushLoad
             PROVE  IInv'
  OBVIOUS
<1> USE DEF PushLoad, consumer
<1>1. TypeOK /\ Indices
  BY DEF IInv
<1>2. TypeOK'
  BY <1>1 DEF TypeOK
<1>3. Indices'
  BY <1>1, Numbers DEF Indices, TypeOK
<1>4. ~ wrong => Contents'
  BY DEF IInv, Contents
<1>5. QED
  BY <1>2, <1>3, <1>4 DEF IInv

(* The producer goes on to the next message.                               *)
LEMMA NextMessageIs ==
  ASSUME TypeOK, Indices, NextMessage, pPc # "ended"
  PROVE  /\ i' = i + 1 /\ i' \in 1 .. Iters + 1
         /\ pPc' \in {"load", "ended"} /\ (pPc' = "ended" <=> i' = Iters + 1)
         /\ i \in 1 .. Iters
  BY Constants DEF TypeOK, Indices, NextMessage

(* The producer fills the slot at write, word by word.                     *)
LEMMA PushWordIInv == IInv /\ PushWord => IInv'
<1> SUFFICES ASSUME IInv, PushWord
             PROVE  IInv'
  OBVIOUS
<1> USE DEF PushWord, consumer
<1>1. TypeOK /\ Indices /\ (~ wrong => Contents)
  BY DEF IInv
<1>2. PICK word \in toStore :
        /\ slots' = [slots EXCEPT ![Slot(i - 1)][word] = Msg(i)[word]]
        /\ toStore' = toStore \ {word}
        /\ IF toStore = {word}
           THEN IF wrong THEN NextMessage ELSE pPc' = "publish" /\ UNCHANGED i
           ELSE UNCHANGED <<i, pPc>>
  OBVIOUS
<1>3. word \in Words /\ i \in 1 .. Iters /\ i - 1 \in Nat /\ pPc = "copy"
  BY <1>1, Constants DEF TypeOK, Indices
<1>4. Slot(i - 1) \in 0 .. Cap - 1
  BY <1>3, SlotType
<1>5. /\ slots' \in [0 .. Cap - 1 -> Messages]
      /\ slots'[Slot(i - 1)][word] = Msg(i)[word]
      /\ \A v \in Words \ {word} : slots'[Slot(i - 1)][v] = slots[Slot(i - 1)][v]
      /\ \A t \in (0 .. Cap - 1) \ {Slot(i - 1)} : slots'[t] = slots[t]
  <2>1. slots \in [0 .. Cap - 1 -> Messages] /\ i \in 0 .. Iters
    BY <1>1, <1>3 DEF TypeOK
  <2>2. /\ Slot(i - 1) \in 0 .. Cap - 1 /\ word \in Words
        /\ slots' = [slots EXCEPT ![Slot(i - 1)][word] = Msg(i)[word]]
    BY <1>2, <1>3, <1>4
  <2>3. Stored(slots, slots', Slot(i - 1), word, i)
    BY <2>1, <2>2, StoreWord
  <2>4. QED
    BY <2>3 DEF Stored
<1>6. CASE toStore = {word} /\ wrong
  <2>1. /\ i' = i + 1 /\ i' \in 1 .. Iters + 1
        /\ pPc' \in {"load", "ended"} /\ (pPc' = "ended" <=> i' = Iters + 1)
    BY <1>1, <1>2, <1>3, <1>6, NextMessageIs
  <2>2. TypeOK'
    BY <1>1, <1>2, <1>5, <2>1 DEF TypeOK
  <2>3. Indices'
    BY <1>1, <1>3, <1>6, <2>1, Numbers DEF Indices
  <2>4. QED
    BY <1>6, <2>2, <2>3 DEF IInv
<1>7. CASE ~ (toStore = {word} /\ wrong)
  <2>1. /\ i' = i /\ pPc' \in {"copy", "publish"}
        /\ pPc' = "publish" => toStore = {word} /\ ~ wrong
    BY <1>2, <1>3, <1>7
  <2>2. TypeOK'
    BY <1>1, <1>2, <1>5, <2>1 DEF TypeOK
  <2>3. Indices'
    BY <1>1, <1>3, <2>1, Numbers DEF Indices
  <2>4. ASSUME ~ wrong
        PROVE  Contents'
    <3>1. write = i - 1 /\ write - read < Cap /\ read <= write
      BY <1>1, <1>3, <2>4 DEF Indices
    <3>2. ASSUME NEW n \in read .. write - 1
          PROVE  slots'[Slot(n)] = Msg(n + 1)
      <4>1. n \in Nat /\ write \in Nat /\ n < write /\ write - n < Cap
        BY <1>1, <3>1, Numbers
      <4>2. Slot(n) \in (0 .. Cap - 1) \ {Slot(i - 1)}
        BY <3>1, <4>1, SlotsDiffer, SlotType
      <4>3. QED
        BY <1>1, <1>5, <2>4, <4>2 DEF Contents
    <3>3. ASSUME NEW v \in Words \ toStore'
          PROVE  slots'[Slot(write)][v] = Msg(i)[v]
      <4>1. CASE v = word
        BY <1>5, <3>1, <4>1
      <4>2. CASE v # word
        <5>1. v \in Words \ toStore /\ v \in Words \ {word}
          BY <1>2, <4>2
        <5>2. slots[Slot(write)][v] = Msg(i)[v]
          BY <1>1, <1>3, <2>4, <5>1 DEF Contents
        <5>3. QED
          BY <1>5, <3>1, <5>1, <5>2
      <4>3. QED
        BY <4>1, <4>2
    <3>4. pPc' = "publish" => toStore' = {}
      BY <1>2, <2>1
    <3>5. QED
      BY <1>1, <2>1, <2>4, <3>2, <3>3, <3>4 DEF Contents
  <2>5. QED
    BY <2>2, <2>3, <2>4 DEF IInv
<1>8. QED
  BY <1>6, <1>7

(* The producer publishes the slot it has filled, or, if wrong, the one it *)
(* is about to fill.                                                       *)
LEMMA PushPublishIInv == IInv /\ PushPublish => IInv'
<1> SUFFICES ASSUME IInv, PushPublish
             PROVE  IInv'
  OBVIOUS
<1> USE DEF PushPublish, consumer
<1>1. TypeOK /\ Indices /\ (~ wrong => Contents) /\ pPc = "publish"
  BY DEF IInv
<1>2. /\ write = i - 1 /\ write - read < Cap /\ i \in 1 .. Iters
      /\ read <= write /\ write' = write + 1
  BY <1>1, Constants DEF Indices, TypeOK
<1>3. write' \in 0 .. Iters
  BY <1>1, <1>2, Numbers
<1>4. CASE wrong
  <2>1. TypeOK'
    BY <1>1, <1>3, <1>4 DEF TypeOK
  <2>2. Indices'
    BY <1>1, <1>2, <1>4, Numbers DEF Indices
  <2>3. QED
    BY <1>4, <2>1, <2>2 DEF IInv
<1>5. CASE ~ wrong
  <2>1. /\ i' = i + 1 /\ i' \in 1 .. Iters + 1
        /\ pPc' \in {"load", "ended"} /\ (pPc' = "ended" <=> i' = Iters + 1)
    BY <1>1, <1>5, NextMessageIs
  <2>2. TypeOK'
    BY <1>1, <1>3, <2>1 DEF TypeOK
  <2>3. Indices'
    BY <1>1, <1>2, <1>5, <2>1, Numbers DEF Indices
  <2>4. slots[Slot(write)] = Msg(i)
    <3>1. slots[Slot(write)] \in Messages /\ i \in 0 .. Iters
      BY <1>1, <1>2, SlotType, Numbers DEF TypeOK
    <3>2. \A word \in Words : slots[Slot(write)][word] = Msg(i)[word]
      BY <1>1, <1>5 DEF Contents
    <3>3. QED
      BY <3>1, <3>2, SameWords
  <2>5. ASSUME NEW n \in read .. write' - 1
        PROVE  slots[Slot(n)] = Msg(n + 1)
    <3>1. CASE n = write
      <4>1. n + 1 = i
        BY <1>1, <1>2, <3>1, Numbers
      <4>2. QED
        BY <2>4, <3>1, <4>1
    <3>2. CASE n # write
      <4>1. n \in read .. write - 1
        BY <1>1, <1>2, <3>2, Numbers
      <4>2. QED
        BY <1>1, <1>5, <4>1 DEF Contents
    <3>3. QED
      BY <3>1, <3>2
  <2>6. Contents'
    BY <1>1, <1>5, <2>1, <2>5 DEF Contents
  <2>7. QED
    BY <2>2, <2>3, <2>6 DEF IInv
<1>6. QED
  BY <1>4, <1>5

(* The consumer finds a message.                                           *)
LEMMA PopLoadIInv == IInv /\ PopLoad => IInv'
<1> SUFFICES ASSUME IInv, PopLoad
             PROVE  IInv'
  OBVIOUS
<1> USE DEF PopLoad, producer
<1>1. TypeOK /\ Indices
  BY DEF IInv
<1>2. TypeOK'
  BY <1>1 DEF TypeOK
<1>3. Indices'
  BY <1>1, Numbers DEF Indices
<1>4. ~ wrong => Contents'
  BY DEF IInv, Contents
<1>5. QED
  BY <1>2, <1>3, <1>4 DEF IInv

(* The consumer copies the slot at read, word by word.                     *)
LEMMA PopWordIInv == IInv /\ PopWord => IInv'
<1> SUFFICES ASSUME IInv, PopWord
             PROVE  IInv'
  OBVIOUS
<1> USE DEF PopWord, producer
<1>1. TypeOK /\ Indices /\ (~ wrong => Contents)
  BY DEF IInv
<1>2. PICK word \in toLoad :
        /\ m' = [m EXCEPT ![word] = slots[Slot(consumed)][word]]
        /\ toLoad' = toLoad \ {word}
        /\ cPc' = IF toLoad = {word} THEN "publish" ELSE "copy"
  OBVIOUS
<1>3. /\ word \in Words /\ read = consumed /\ cPc = "copy" /\ read < write
      /\ cPc' \in {"copy", "publish"} /\ slots[Slot(consumed)] \in Messages
  BY <1>1, <1>2, SlotType, Numbers DEF TypeOK, Indices
<1>4. /\ m' \in Messages /\ m'[word] = slots[Slot(consumed)][word]
      /\ \A v \in Words \ {word} : m'[v] = m[v]
  <2>1. m \in Messages
    BY <1>1 DEF TypeOK
  <2>2. CASE word = "seq"
    BY <1>2, <1>3, <2>1, <2>2 DEF Messages, Words
  <2>3. CASE word = "payload"
    BY <1>2, <1>3, <2>1, <2>3 DEF Messages, Words
  <2>4. QED
    BY <1>3, <2>2, <2>3 DEF Words
<1>5. TypeOK'
  BY <1>1, <1>2, <1>3, <1>4 DEF TypeOK
<1>6. Indices'
  BY <1>1, <1>3, Numbers DEF Indices, TypeOK
<1>7. ASSUME ~ wrong
      PROVE  Contents'
  <2>1. slots[Slot(consumed)] = Msg(consumed + 1)
    <3>1. consumed \in read .. write - 1
      BY <1>1, <1>3, Numbers
    <3>2. QED
      BY <1>1, <1>7, <3>1 DEF Contents
  <2>2. ASSUME NEW v \in Words \ toLoad'
        PROVE  m'[v] = Msg(consumed + 1)[v]
    <3>1. CASE v = word
      BY <1>4, <2>1, <3>1
    <3>2. CASE v # word
      BY <1>1, <1>2, <1>3, <1>4, <1>7, <3>2 DEF Contents
    <3>3. QED
      BY <3>1, <3>2
  <2>3. cPc' = "publish" => toLoad' = {}
    BY <1>2
  <2>4. QED
    BY <1>1, <1>3, <1>7, <2>2, <2>3 DEF Contents
<1>8. QED
  BY <1>5, <1>6, <1>7 DEF IInv

(* The consumer gives the slot back, with the whole message in hand.       *)
LEMMA PopPublishIInv == IInv /\ PopPublish => IInv'
<1> SUFFICES ASSUME IInv, PopPublish
             PROVE  IInv'
  OBVIOUS
<1> USE DEF PopPublish, producer
<1>1. TypeOK /\ Indices /\ (~ wrong => Contents)
  BY DEF IInv
<1>2. /\ read = consumed /\ read < write /\ read' = read + 1
      /\ consumed < Iters /\ cPc' = "check" /\ cPc = "publish"
  BY <1>1, Numbers DEF Indices, TypeOK
<1>3. TypeOK'
  <2>1. read' \in 0 .. Iters
    BY <1>1, <1>2, Numbers
  <2>2. QED
    BY <1>1, <2>1 DEF TypeOK
<1>4. Indices'
  BY <1>1, <1>2, Numbers DEF Indices
<1>5. ASSUME ~ wrong
      PROVE  Contents'
  <2>1. m = Msg(consumed + 1)
    <3>1. m \in Messages /\ consumed + 1 \in 0 .. Iters
      BY <1>1, <1>2, Numbers DEF TypeOK
    <3>2. \A word \in Words : m[word] = Msg(consumed + 1)[word]
      BY <1>1, <1>2, <1>5 DEF Contents
    <3>3. QED
      BY <3>1, <3>2, SameWords
  <2>2. \A n \in read' .. write - 1 : n \in read .. write - 1
    BY <1>1, <1>2, Numbers
  <2>3. QED
    BY <1>1, <1>2, <1>5, <2>1, <2>2 DEF Contents
<1>6. QED
  BY <1>3, <1>4, <1>5 DEF IInv

(* The message checked is whole.                                           *)
LEMMA CheckIInv == IInv /\ Check => IInv'
<1> SUFFICES ASSUME IInv, Check
             PROVE  IInv'
  OBVIOUS
<1> USE DEF Check, producer
<1>1. TypeOK /\ Indices /\ (~ wrong => Contents)
  BY DEF IInv
<1>2. /\ read = consumed + 1 /\ read <= Iters /\ consumed' = consumed + 1
      /\ cPc' = IF consumed' < Iters THEN "load" ELSE "ended"
  BY <1>1, Numbers DEF Indices, TypeOK
<1>3. TypeOK'
  <2>1. consumed' \in 0 .. Iters /\ cPc' \in {"load", "ended"}
    BY <1>1, <1>2, Numbers
  <2>2. mismatches' \in 0 .. consumed'
    <3>1. mismatches' \in {mismatches, mismatches + 1}
      BY <1>1, Numbers
    <3>2. mismatches \in 0 .. consumed /\ consumed \in Nat
      BY <1>1, Numbers DEF TypeOK
    <3>3. QED
      BY <1>2, <3>1, <3>2
  <2>3. QED
    BY <1>1, <2>1, <2>2 DEF TypeOK
<1>4. Indices'
  BY <1>1, <1>2, Numbers DEF Indices
<1>5. ASSUME ~ wrong
      PROVE  Contents'
  <2>1. m = Msg(consumed + 1) /\ mismatches = 0
    BY <1>1, <1>5 DEF Contents
  <2>2. m.payload = m.seq * 111
    BY <2>1 DEF Msg
  <2>3. mismatches' = 0
    BY <2>1, <2>2
  <2>4. cPc' \in {"load", "ended"}
    BY <1>2
  <2>5. QED
    BY <1>1, <1>5, <2>3, <2>4 DEF Contents
<1>6. QED
  BY <1>3, <1>4, <1>5 DEF IInv

(* The invariant is inductive.                                             *)
LEMMA NextIInv == IInv /\ [Next]_vars => IInv'
<1>1. IInv /\ UNCHANGED vars => IInv'
  BY DEF vars, producer, consumer, IInv, TypeOK, Indices, Contents
<1>2. QED
  BY <1>1, PushLoadIInv, PushWordIInv, PushPublishIInv, PopLoadIInv, PopWordIInv,
     PopPublishIInv, CheckIInv DEF Next, Producer, Consumer

(* The inductive invariant, of every behaviour.                            *)
THEOREM PassingInvariant == Spec => []IInv
  BY InitIInv, NextIInv, PTL DEF Spec

(* Types and bounds, also if the index is published too early.             *)
THEOREM PassingTypeOK == Spec => []TypeOK
<1>1. IInv => TypeOK
  BY DEF IInv
<1>2. QED
  BY <1>1, PassingInvariant, PTL

(* With the right order of the stores no message is torn or out of turn.   *)
THEOREM MessagesArriveWhole == Spec => []WholeMessages
<1>1. IInv => WholeMessages
  BY DEF IInv, Contents, WholeMessages
<1>2. QED
  BY <1>1, PassingInvariant, PTL
=============================================================================
