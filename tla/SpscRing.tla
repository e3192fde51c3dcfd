------------------------------ MODULE SpscRing ------------------------------
(***************************************************************************)
(* rxsim::SpscRing / hft::SpscRing: the lock-free single-producer,         *)
(* single-consumer ring, one shared access per step, with one producer     *)
(* thread pushing the items 1, 2, ..., Items and one consumer thread       *)
(* popping them, each retrying a call that returned false.                 *)
(*                                                                         *)
(* Memory model.  An atomic index is its modification order: the sequence  *)
(* of the stores made to it.  Each store carries, beside the value, the    *)
(* view it releases: how many slot accesses of the storing thread are      *)
(* sequenced before it.  A load returns the latest store that has become   *)
(* visible to the loading thread, which may lag behind; if it is an        *)
(* acquire, the loading thread learns the view of that store.  The slots   *)
(* are plain memory: an access that does not come after the other thread's *)
(* conflicting access, in what the thread has learnt, is a data race.      *)
(***************************************************************************)
EXTENDS Integers, Sequences

CONSTANTS
  Cap,    \* cap_, the capacity already rounded up to a power of two
  Mod,    \* size_t arithmetic is modulo Mod
  Items   \* the number of items the producer pushes (bounds the model)

(* cap_ and the range of size_t are powers of two and cap_ is the smaller. *)
ASSUME RingAssumption ==
  /\ Cap \in Nat \ {0}
  /\ Mod \in Nat
  /\ \E k \in 2 .. Mod : Mod = k * Cap
  /\ Items \in Nat

VARIABLES
  write_,   \* modification order of write_
  read_,    \* modification order of read_
  slots,    \* slots_, value-initialised by make_unique
  pPc,      \* the producer: next shared access of try_push
  rSeen,    \* the producer: latest store of read_ visible to it
  pView,    \* the producer: slot loads it knows are over
  stored,   \* the producer: slot stores it has made
  cPc,      \* the consumer: next shared access of try_pop
  wSeen,    \* the consumer: latest store of write_ visible to it
  cView,    \* the consumer: slot stores it knows are over
  loaded,   \* the consumer: slot loads it has made
  out       \* the consumer: the argument of try_pop

producer == <<pPc, pView, stored>>
consumer == <<cPc, cView, loaded, out>>
vars == <<write_, read_, slots, rSeen, wSeen, producer, consumer>>

Store == [val : 0 .. Mod - 1, view : Nat]

Larger(a, b) == IF a >= b THEN a ELSE b

(* The successful calls so far. *)
pushed == Len(write_) - 1
popped == Len(read_) - 1

(* A thread always sees its own latest store. *)
w == write_[Len(write_)].val
r == read_[Len(read_)].val

(* i & mask_, where mask_ = cap_ - 1 and cap_ is a power of two *)
Slot(i) == i % Cap

(* Mutants of the two tests: one slot too many; indices ordered as if they *)
(* never wrapped.                                                          *)
FullOffByOne(wr, rd) == (wr - rd) % Mod > Cap
EmptyOrdered(rd, wr) == wr <= rd

(* w - r >= cap_ *)
Full(wr, rd) == (wr - rd) % Mod >= Cap

(* r == w *)
Empty(rd, wr) == rd = wr

(* Mutant: the difference is taken as a slot number.                       *)
SizeMasked(wr, rd) == (wr - rd) % Cap

(* size() of the indices it loads: w - r                                   *)
Size(wr, rd) == (wr - rd) % Mod

Init ==
  /\ write_ = << [val |-> 0, view |-> 0] >>
  /\ read_  = << [val |-> 0, view |-> 0] >>
  /\ slots = [i \in 0 .. Cap - 1 |-> 0]
  /\ pPc = "idle" /\ cPc = "idle"
  /\ rSeen = 1 /\ wSeen = 1
  /\ pView = 0 /\ cView = 0
  /\ stored = 0 /\ loaded = 0
  /\ out = 0
-----------------------------------------------------------------------------
(* The producer: try_push(pushed + 1). *)

(* Load write_ (relaxed) and read_ (acquire); a full ring fails the call,  *)
(* and the producer will call again.                                       *)
PushLoad ==
  /\ pPc = "idle" /\ pushed < Items
  /\ pView' = Larger(pView, read_[rSeen].view)
  /\ pPc' = IF Full(w, read_[rSeen].val) THEN "idle" ELSE "store"
  /\ UNCHANGED <<write_, read_, slots, rSeen, wSeen, stored, consumer>>

(* slots_[w & mask_] = value *)
PushStore ==
  /\ pPc = "store"
  /\ slots' = [slots EXCEPT ![Slot(w)] = pushed + 1]
  /\ stored' = stored + 1
  /\ pPc' = "publish"
  /\ UNCHANGED <<write_, read_, rSeen, wSeen, pView, consumer>>

(* Mutant: the store of the index is relaxed. *)
PushPublishRelaxed ==
  /\ pPc = "publish"
  /\ write_' = Append(write_, [val |-> (w + 1) % Mod, view |-> 0])
  /\ pPc' = "idle"
  /\ UNCHANGED <<read_, slots, rSeen, wSeen, pView, stored, consumer>>

(* write_.store(w + 1, release) *)
PushPublish ==
  /\ pPc = "publish"
  /\ write_' = Append(write_, [val |-> (w + 1) % Mod, view |-> stored])
  /\ pPc' = "idle"
  /\ UNCHANGED <<read_, slots, rSeen, wSeen, pView, stored, consumer>>

(* Mutant: the index is published before the slot is written (the order    *)
(* message_passing.cpp takes when it is run with --wrong 1).               *)
TryPushPublishFirst ==
  \/ PushLoad
  \/ /\ pPc = "store"
     /\ write_' = Append(write_, [val |-> (w + 1) % Mod, view |-> stored])
     /\ pPc' = "publish"
     /\ UNCHANGED <<read_, slots, rSeen, wSeen, pView, stored, consumer>>
  \/ /\ pPc = "publish"
     /\ slots' = [slots EXCEPT ![Slot(pushed - 1)] = pushed]
     /\ stored' = stored + 1
     /\ pPc' = "idle"
     /\ UNCHANGED <<write_, read_, rSeen, wSeen, pView, consumer>>

TryPush == PushLoad \/ PushStore \/ PushPublish
-----------------------------------------------------------------------------
(* The consumer: try_pop(out). *)

(* Load read_ (relaxed) and write_ (acquire); an empty ring fails the call,*)
(* and the consumer, which wants Items items, will call again.             *)
PopLoad ==
  /\ cPc = "idle" /\ popped < Items
  /\ cView' = Larger(cView, write_[wSeen].view)
  /\ cPc' = IF Empty(r, write_[wSeen].val) THEN "idle" ELSE "load"
  /\ UNCHANGED <<write_, read_, slots, rSeen, wSeen, loaded, out, producer>>

(* out = slots_[r & mask_] *)
PopSlot ==
  /\ cPc = "load"
  /\ out' = slots[Slot(r)]
  /\ loaded' = loaded + 1
  /\ cPc' = "publish"
  /\ UNCHANGED <<write_, read_, slots, rSeen, wSeen, cView, producer>>

(* Mutant: the store of the index is relaxed. *)
PopPublishRelaxed ==
  /\ cPc = "publish"
  /\ read_' = Append(read_, [val |-> (r + 1) % Mod, view |-> 0])
  /\ cPc' = "idle"
  /\ UNCHANGED <<write_, slots, rSeen, wSeen, cView, loaded, out, producer>>

(* read_.store(r + 1, release) *)
PopPublish ==
  /\ cPc = "publish"
  /\ read_' = Append(read_, [val |-> (r + 1) % Mod, view |-> loaded])
  /\ cPc' = "idle"
  /\ UNCHANGED <<write_, slots, rSeen, wSeen, cView, loaded, out, producer>>

TryPop == PopLoad \/ PopSlot \/ PopPublish
-----------------------------------------------------------------------------
(* The hardware: a store becomes visible to the other thread. *)

WriteVisible ==
  /\ wSeen < Len(write_)
  /\ wSeen' = wSeen + 1
  /\ UNCHANGED <<write_, read_, slots, rSeen, producer, consumer>>

ReadVisible ==
  /\ rSeen < Len(read_)
  /\ rSeen' = rSeen + 1
  /\ UNCHANGED <<write_, read_, slots, wSeen, producer, consumer>>

(* Both threads have been joined and every store has arrived. *)
Terminated ==
  /\ popped = Items /\ cPc = "idle"
  /\ wSeen = Len(write_) /\ rSeen = Len(read_)
  /\ UNCHANGED vars

Next == TryPush \/ TryPop \/ WriteVisible \/ ReadVisible \/ Terminated

Spec == Init /\ [][Next]_vars

(* Both threads keep running, and a store is visible in finite time        *)
(* ([intro.progress], [atomics.order]).                                    *)
Fairness ==
  /\ WF_vars(TryPush) /\ WF_vars(TryPop)
  /\ WF_vars(WriteVisible) /\ WF_vars(ReadVisible)

FairSpec == Spec /\ Fairness
-----------------------------------------------------------------------------
TypeOK ==
  /\ write_ \in Seq(Store) /\ write_ # << >>
  /\ read_ \in Seq(Store) /\ read_ # << >>
  /\ slots \in [0 .. Cap - 1 -> 0 .. Items]
  /\ pPc \in {"idle", "store", "publish"}
  /\ cPc \in {"idle", "load", "publish"}
  /\ rSeen \in 1 .. Len(read_) /\ wSeen \in 1 .. Len(write_)
  /\ pView \in Nat /\ cView \in Nat /\ stored \in Nat /\ loaded \in Nat
  /\ out \in 0 .. Items

(* No data race on a slot.  When the producer is about to overwrite a      *)
(* slot, the load of the item stored there one lap earlier is among those  *)
(* it has learnt of through read_; when the consumer is about to load a    *)
(* slot, the store of that item is among those it has learnt of through    *)
(* write_ (the release/acquire pairs of spsc_ring.hpp).                    *)
NoDataRace ==
  /\ pPc = "store" => stored < pView + Cap
  /\ cPc = "load" => loaded < cView

(* The k-th successful try_pop returns the k-th item pushed: nothing is    *)
(* lost, duplicated, reordered or read before it was written, across index *)
(* wrap-around and slot reuse.                                             *)
InOrder == cPc = "publish" => out = loaded

(* The indices never run further apart than the capacity, whatever each    *)
(* thread has seen of the other.                                           *)
NeverOverfull == popped <= pushed /\ pushed <= popped + Cap

(* size(), and empty() and full() with it, called by one of the two        *)
(* threads or, after both were joined, by main: the producer never         *)
(* underestimates what is in the ring and never gets more than the         *)
(* capacity, the consumer never overestimates, main gets it right.         *)
SizeBySide ==
  /\ pushed - popped <= Size(w, read_[rSeen].val) /\ Size(w, read_[rSeen].val) <= Cap
  /\ Size(write_[wSeen].val, r) <= pushed - popped
  /\ Size(w, r) = pushed - popped

(* The ring implements the bounded queue: a push takes effect at the store *)
(* of write_, a pop when the slot is loaded.                               *)
Queue == INSTANCE SpscQueue WITH
  Val <- 1 .. Items,
  NoVal <- 0,
  queue <- [k \in 1 .. pushed - loaded |-> slots[Slot(loaded + k - 1)]]

ImplementsQueue == Queue!Spec

(* Every item is eventually delivered: neither thread can wait for the     *)
(* other forever.                                                          *)
AllDelivered == <>(popped = Items)
-----------------------------------------------------------------------------
(* The inductive invariant the proofs in SpscRing_proofs use.              *)

(* Each index counts its stores modulo Mod and releases as many accesses.  *)
Indices ==
  /\ \A k \in 1 .. Len(write_) :
       write_[k] = [val |-> (k - 1) % Mod, view |-> k - 1]
  /\ \A k \in 1 .. Len(read_) :
       read_[k] = [val |-> (k - 1) % Mod, view |-> k - 1]

(* A thread is ahead of its published index by the slot it has in hand.    *)
InHand ==
  /\ stored = pushed + (IF pPc = "publish" THEN 1 ELSE 0)
  /\ loaded = popped + (IF cPc = "publish" THEN 1 ELSE 0)

(* What each thread has seen of the other bounds its own index.            *)
Bounds ==
  /\ pushed <= rSeen - 1 + Cap
  /\ popped <= wSeen - 1
  /\ pPc # "idle" => pushed < rSeen - 1 + Cap /\ pushed < Items
  /\ cPc # "idle" => popped < wSeen - 1 /\ popped < Items
  /\ pPc = "store" => pushed < pView + Cap
  /\ cPc = "load" => popped < cView

(* The occupied slots hold the items stored and not yet loaded.            *)
Contents == \A k \in loaded .. stored - 1 : slots[Slot(k)] = k + 1

RingInv == TypeOK /\ Indices /\ InHand /\ Bounds /\ Contents /\ InOrder
=============================================================================
