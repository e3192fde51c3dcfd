---------------------------- MODULE MessagePassing ----------------------------
(***************************************************************************)
(* message_passing.cpp: a producer hands messages of two words to a        *)
(* consumer through a ring of its own, SlotRing, and the consumer checks   *)
(* that the words belong together.  --wrong 1 publishes the index before   *)
(* the message is copied.                                                  *)
(*                                                                         *)
(* A message is copied word by word, in any order.  Each access to a word  *)
(* or an index is a step; that an index may be seen late, and wraps, is    *)
(* the matter of SpscRing.                                                 *)
(***************************************************************************)
EXTENDS Integers

CONSTANTS
  Cap,   \* cap
  Iters  \* --iters (bounds the model)

ASSUME PassingAssumption == {Cap, Iters} \subseteq Nat \ {0}

Msg(n) == [seq |-> n, payload |-> n * 111]
Words == {"seq", "payload"}
Slot(n) == n % Cap

VARIABLES
  wrong,      \* --wrong
  write,      \* ring.write
  read,       \* ring.read
  slots,      \* ring.slots
  i,          \* the producer: the message it pushes
  pPc,        \* the producer: load, copy, publish, ended
  toStore,    \* the producer: words not stored yet
  cPc,        \* the consumer: load, copy, publish, check, ended
  toLoad,     \* the consumer: words not loaded yet
  m,          \* the consumer: m
  consumed, mismatches

producer == <<i, pPc, toStore>>
consumer == <<cPc, toLoad, m, consumed, mismatches>>
vars == <<wrong, write, read, slots, producer, consumer>>

Init ==
  /\ wrong \in BOOLEAN
  /\ write = 0 /\ read = 0
  /\ slots = [s \in 0 .. Cap - 1 |-> Msg(0)]
  /\ i = 1 /\ pPc = "load" /\ toStore = {}
  /\ cPc = "load" /\ toLoad = {} /\ m = Msg(0)
  /\ consumed = 0 /\ mismatches = 0
-----------------------------------------------------------------------------
(* The producer: try_push(Msg(i)), again until it succeeds. *)

NextMessage ==
  /\ i' = i + 1
  /\ pPc' = IF i = Iters THEN "ended" ELSE "load"

(* Mutant: the producer does not try again when the ring is full.          *)
PushLoadOnce ==
  /\ pPc = "load"
  /\ IF write - read < Cap
     THEN /\ pPc' = IF wrong THEN "publish" ELSE "copy"
          /\ toStore' = Words /\ UNCHANGED i
     ELSE NextMessage /\ UNCHANGED toStore
  /\ UNCHANGED <<wrong, write, read, slots, consumer>>

(* Load write and read.  A full ring makes try_push return false.          *)
PushLoad ==
  /\ pPc = "load" /\ write - read < Cap
  /\ pPc' = IF wrong THEN "publish" ELSE "copy"
  /\ toStore' = Words
  /\ UNCHANGED <<wrong, write, read, slots, i, consumer>>

(* slots[w & mask] = m, where w, loaded above, is i - 1 *)
PushWord ==
  /\ pPc = "copy"
  /\ \E word \in toStore :
       /\ slots' = [slots EXCEPT ![Slot(i - 1)][word] = Msg(i)[word]]
       /\ toStore' = toStore \ {word}
       /\ IF toStore = {word}
          THEN IF wrong THEN NextMessage ELSE pPc' = "publish" /\ UNCHANGED i
          ELSE UNCHANGED <<i, pPc>>
  /\ UNCHANGED <<wrong, write, read, consumer>>

(* write.store(w + 1, release) *)
PushPublish ==
  /\ pPc = "publish"
  /\ write' = write + 1
  /\ IF wrong THEN pPc' = "copy" /\ UNCHANGED i ELSE NextMessage
  /\ UNCHANGED <<wrong, read, slots, toStore, consumer>>

Producer == PushLoad \/ PushWord \/ PushPublish
-----------------------------------------------------------------------------
(* The consumer: try_pop(m), again until it succeeds, and the check of m.  *)

(* Load read and write.  An empty ring makes try_pop return false.         *)
PopLoad ==
  /\ cPc = "load" /\ read # write
  /\ cPc' = "copy" /\ toLoad' = Words
  /\ UNCHANGED <<wrong, write, read, slots, m, consumed, mismatches, producer>>

(* out = slots[r & mask], where r, loaded above, is consumed *)
PopWord ==
  /\ cPc = "copy"
  /\ \E word \in toLoad :
       /\ m' = [m EXCEPT ![word] = slots[Slot(consumed)][word]]
       /\ toLoad' = toLoad \ {word}
       /\ cPc' = IF toLoad = {word} THEN "publish" ELSE "copy"
  /\ UNCHANGED <<wrong, write, read, slots, consumed, mismatches, producer>>

(* read.store(r + 1, release) *)
PopPublish ==
  /\ cPc = "publish"
  /\ read' = read + 1
  /\ cPc' = "check"
  /\ UNCHANGED <<wrong, write, slots, toLoad, m, consumed, mismatches, producer>>

(* Count the message, and compare its words. *)
Check ==
  /\ cPc = "check"
  /\ consumed' = consumed + 1
  /\ mismatches' = mismatches + (IF m.payload # m.seq * 111 THEN 1 ELSE 0)
  /\ cPc' = IF consumed' < Iters THEN "load" ELSE "ended"
  /\ UNCHANGED <<wrong, write, read, slots, toLoad, m, producer>>

(* Mutant: the slot is given back before it is copied.                     *)
ConsumerPublishFirst ==
  \/ /\ cPc = "load" /\ read # write
     /\ read' = read + 1
     /\ cPc' = "copy" /\ toLoad' = Words
     /\ UNCHANGED <<wrong, write, slots, m, consumed, mismatches, producer>>
  \/ PopWord
  \/ cPc = "publish" /\ cPc' = "check"
       /\ UNCHANGED <<wrong, write, read, slots, toLoad, m, consumed, mismatches, producer>>
  \/ Check

Consumer == PopLoad \/ PopWord \/ PopPublish \/ Check
-----------------------------------------------------------------------------
Joined == pPc = "ended" /\ cPc = "ended"

Next == Producer \/ Consumer \/ (Joined /\ UNCHANGED vars)

Spec == Init /\ [][Next]_vars

(* Both threads keep running ([intro.progress]). *)
FairSpec == Spec /\ WF_vars(Producer) /\ WF_vars(Consumer)
-----------------------------------------------------------------------------
(* "correct protocol must not mismatch" (message_passing.cpp:105), for the *)
(* reason that each message arrives whole and in its turn: no word of it   *)
(* is read before it was stored, nor after the producer came round again.  *)
WholeMessages ==
  ~ wrong =>
    /\ mismatches = 0
    /\ cPc = "check" => m = Msg(consumed + 1)

(* Both threads can be joined, with either order of the two stores: the    *)
(* indices work even when what they guard is garbage.                      *)
PassingEnds == <>Joined
-----------------------------------------------------------------------------
Messages == [seq : 0 .. Iters, payload : {n * 111 : n \in 0 .. Iters}]

TypeOK ==
  /\ wrong \in BOOLEAN
  /\ write \in 0 .. Iters /\ read \in 0 .. Iters
  /\ slots \in [0 .. Cap - 1 -> Messages]
  /\ i \in 1 .. Iters + 1 /\ toStore \subseteq Words
  /\ pPc \in {"load", "copy", "publish", "ended"}
  /\ cPc \in {"load", "copy", "publish", "check", "ended"}
  /\ toLoad \subseteq Words /\ m \in Messages
  /\ consumed \in 0 .. Iters /\ mismatches \in 0 .. consumed

(* The inductive invariant behind WholeMessages: where the indices stand.  *)
Indices ==
  /\ pPc = "ended" <=> i = Iters + 1
  /\ cPc = "ended" <=> consumed = Iters
  /\ write = IF wrong /\ pPc = "copy" THEN i ELSE i - 1
  /\ read = IF cPc = "check" THEN consumed + 1 ELSE consumed
  /\ read <= write /\ write - read <= Cap
  /\ pPc = "publish" \/ (pPc = "copy" /\ ~ wrong) => write - read < Cap
  /\ cPc \in {"copy", "publish"} => read < write

(* Which messages are in the slots, and which words of them in m.  The     *)
(* slots from read to write are full, the one at write is being filled.    *)
Contents ==
  /\ \A n \in read .. write - 1 : slots[Slot(n)] = Msg(n + 1)
  /\ pPc = "publish" => toStore = {}
  /\ pPc \in {"copy", "publish"} =>
       \A word \in Words \ toStore : slots[Slot(write)][word] = Msg(i)[word]
  /\ cPc = "publish" => toLoad = {}
  /\ cPc \in {"copy", "publish"} =>
       \A word \in Words \ toLoad : m[word] = Msg(consumed + 1)[word]
  /\ cPc = "check" => m = Msg(consumed + 1)
  /\ mismatches = 0

IInv == TypeOK /\ Indices /\ (~ wrong => Contents)
=============================================================================
