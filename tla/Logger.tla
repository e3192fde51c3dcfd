------------------------------- MODULE Logger -------------------------------
(***************************************************************************)
(* spsc_logger: the hot thread hands a record per iteration to a logger    *)
(* thread, through an SpscRing or (--mutex 1) a deque behind a mutex; then *)
(* it sets the flag `done' and joins the logger, which must drain what is  *)
(* left before it ends.                                                    *)
(*                                                                         *)
(* The ring is the bounded FIFO queue that SpscRing implements, with the   *)
(* staleness of its tests kept: each thread judges the ring by the pushes  *)
(* or pops it can see.  What becomes visible, and when, is a step of the   *)
(* hardware; an acquire load of `done' that returns true makes every push  *)
(* before its release store visible.                                       *)
(***************************************************************************)
EXTENDS Integers, Sequences

CONSTANTS
  Cap,    \* capacity of the ring
  Iters   \* --iters

ASSUME LoggerAssumption == Cap \in Nat \ {0} /\ Iters \in Nat

VARIABLES
  mode,       \* --mutex and --drop: "mutex", "drop", "spin"; never changes
  queue,      \* the ring or the deque: records pushed and not popped
  i,          \* the hot thread: the record of this iteration
  dropped,    \* dropped
  joined,     \* logger.join() has returned
  popsSeen,   \* the hot thread: the pops it can see
  done,       \* the flag
  logged,     \* the records the logger has counted, in order
  logPc,      \* the logger: which test it makes next
  pushesSeen, \* the logger: the pushes it can see
  doneSeen    \* the logger: whether it can see that done is set

hot == <<i, dropped, done, joined>>
logger == <<logged, logPc>>
vars == <<mode, queue, popsSeen, pushesSeen, doneSeen, hot, logger>>

pops == Len(logged)
pushes == pops + Len(queue)

Init ==
  /\ mode \in {"mutex", "drop", "spin"}
  /\ queue = << >> /\ logged = << >>
  /\ i = 1 /\ dropped = 0
  /\ popsSeen = 0 /\ pushesSeen = 0
  /\ done = FALSE /\ doneSeen = FALSE /\ joined = FALSE
  /\ logPc = "pop"
-----------------------------------------------------------------------------
(* The hot thread. *)

(* Mutants: whatever --drop says, a record that does not fit is dropped,   *)
(* or waited for.                                                          *)
LogAlwaysDrop ==
  /\ i <= Iters
  /\ IF mode # "mutex" /\ pushes - popsSeen >= Cap
     THEN dropped' = dropped + 1 /\ UNCHANGED queue
     ELSE queue' = Append(queue, i) /\ UNCHANGED dropped
  /\ i' = i + 1
  /\ UNCHANGED <<mode, done, joined, popsSeen, pushesSeen, doneSeen, logger>>

LogAlwaysSpin ==
  /\ i <= Iters
  /\ mode # "mutex" => pushes - popsSeen < Cap
  /\ queue' = Append(queue, i) /\ i' = i + 1
  /\ UNCHANGED <<mode, dropped, done, joined, popsSeen, pushesSeen, doneSeen, logger>>

(* try_push, or push_back under the lock.  If the ring is full, the record *)
(* is dropped or the call is made again.                                   *)
Log ==
  /\ i <= Iters
  /\ IF mode # "mutex" /\ pushes - popsSeen >= Cap
     THEN /\ mode = "drop"
          /\ dropped' = dropped + 1
          /\ UNCHANGED queue
     ELSE queue' = Append(queue, i) /\ UNCHANGED dropped
  /\ i' = i + 1
  /\ UNCHANGED <<mode, done, joined, popsSeen, pushesSeen, doneSeen, logger>>

(* done.store(true, release) *)
SetDone ==
  /\ i > Iters /\ ~ done
  /\ done' = TRUE
  /\ UNCHANGED <<mode, queue, i, dropped, joined, popsSeen, pushesSeen, doneSeen, logger>>

(* logger.join() *)
Join ==
  /\ done /\ ~ joined /\ logPc = "ended"
  /\ joined' = TRUE
  /\ UNCHANGED <<mode, queue, i, dropped, done, popsSeen, pushesSeen, doneSeen, logger>>

Hot == Log \/ SetDone \/ Join
-----------------------------------------------------------------------------
(* The logger on the ring. *)

(* Mutant: the pop waits for a record.                                     *)
TryPopWaits ==
  /\ mode # "mutex" /\ logPc = "pop" /\ pops # pushesSeen
  /\ logged' = Append(logged, Head(queue))
  /\ queue' = Tail(queue)
  /\ UNCHANGED <<logPc, mode, popsSeen, pushesSeen, doneSeen, hot>>

(* ring.try_pop(r), and then the record is counted.                        *)
TryPop ==
  /\ mode # "mutex" /\ logPc = "pop"
  /\ IF pops = pushesSeen
     THEN logPc' = "done" /\ UNCHANGED <<queue, logged>>
     ELSE /\ logged' = Append(logged, Head(queue))
          /\ queue' = Tail(queue)
          /\ UNCHANGED logPc
  /\ UNCHANGED <<mode, popsSeen, pushesSeen, doneSeen, hot>>

(* Mutant: a relaxed load, which makes nothing visible. *)
TestDoneRelaxed ==
  /\ logPc = "done"
  /\ logPc' = IF doneSeen THEN "empty" ELSE "pop"
  /\ UNCHANGED <<mode, queue, logged, popsSeen, pushesSeen, doneSeen, hot>>

(* done.load(acquire) *)
TestDone ==
  /\ logPc = "done"
  /\ logPc' = IF doneSeen THEN "empty" ELSE "pop"
  /\ pushesSeen' = IF doneSeen THEN pushes ELSE pushesSeen
  /\ UNCHANGED <<mode, queue, logged, popsSeen, doneSeen, hot>>

(* ring.empty() *)
TestEmpty ==
  /\ logPc = "empty"
  /\ logPc' = IF pops = pushesSeen THEN "ended" ELSE "pop"
  /\ UNCHANGED <<mode, queue, logged, popsSeen, pushesSeen, doneSeen, hot>>

(* The logger on the deque: one critical section.  The mutex makes every   *)
(* push before it visible; done is only seen once all records are pushed.  *)
PopLocked ==
  /\ mode = "mutex" /\ logPc = "pop"
  /\ IF queue = << >>
     THEN /\ doneSeen
          /\ logPc' = "ended"
          /\ UNCHANGED <<queue, logged>>
     ELSE /\ logged' = Append(logged, Head(queue))
          /\ queue' = Tail(queue)
          /\ UNCHANGED logPc
  /\ UNCHANGED <<mode, popsSeen, pushesSeen, doneSeen, hot>>

LoggerStep == TryPop \/ TestDone \/ TestEmpty \/ PopLocked
-----------------------------------------------------------------------------
(* The hardware: stores become visible, of each location in their order.   *)

PushVisible ==
  /\ pushesSeen < pushes
  /\ pushesSeen' = pushesSeen + 1
  /\ UNCHANGED <<mode, queue, popsSeen, doneSeen, hot, logger>>

PopVisible ==
  /\ popsSeen < pops
  /\ popsSeen' = popsSeen + 1
  /\ UNCHANGED <<mode, queue, pushesSeen, doneSeen, hot, logger>>

DoneVisible ==
  /\ done /\ ~ doneSeen
  /\ doneSeen' = TRUE
  /\ UNCHANGED <<mode, queue, popsSeen, pushesSeen, hot, logger>>

(* Everything has ended. *)
Terminated == joined /\ UNCHANGED vars

Next ==
  \/ Hot \/ LoggerStep
  \/ PushVisible \/ PopVisible \/ DoneVisible
  \/ Terminated

Spec == Init /\ [][Next]_vars

(* Every store is visible in finite time ([atomics.order]), and the hot    *)
(* thread keeps running ([intro.progress]).                                *)
FairSpec ==
  /\ Spec
  /\ WF_vars(Hot)
  /\ WF_vars(PushVisible) /\ WF_vars(PopVisible) /\ WF_vars(DoneVisible)
-----------------------------------------------------------------------------
TypeOK ==
  /\ mode \in {"mutex", "drop", "spin"}
  /\ queue \in Seq(1 .. Iters) /\ (mode # "mutex" => Len(queue) <= Cap)
  /\ i \in 1 .. Iters + 1 /\ dropped \in 0 .. Iters
  /\ popsSeen \in 0 .. pops /\ pushesSeen \in 0 .. pushes
  /\ {done, doneSeen, joined} \subseteq BOOLEAN
  /\ logged \in Seq(1 .. Iters)
  /\ logPc \in {"pop", "done", "empty", "ended"}

(* The logger does not end before it has logged everything: when it is     *)
(* joined, every iteration was logged or counted as dropped, although the  *)
(* logger tests `done' and the ring one after the other, while the hot     *)
(* thread may still push.                                                  *)
NothingLeft ==
  logPc = "ended" => queue = << >> /\ pops + dropped = Iters

(* The log is in the order of the iterations.  Only --drop 1 leaves gaps.  *)
LogInOrder ==
  /\ \A j, k \in DOMAIN logged : j < k => logged[j] < logged[k]
  /\ mode # "drop" => \A k \in DOMAIN logged : logged[k] = k

(* The program ends, if the logger keeps running too.                      *)
LoggerEnds == WF_vars(LoggerStep) => <>joined

(* "--drop 1 never waits" (README.md of the chapter): the hot thread gets  *)
(* through its iterations even if the logger stalls for good.              *)
DropNeverWaits == mode = "drop" => <>done
-----------------------------------------------------------------------------
(* The inductive invariant behind NothingLeft and LogInOrder.              *)

(* Every record pushed, those logged first: a pop only moves the boundary. *)
Pushed == [k \in 1 .. pushes |-> IF k <= pops THEN logged[k] ELSE queue[k - pops]]

(* Each iteration so far was pushed, in its turn, or dropped.              *)
Records ==
  /\ pushes + dropped = i - 1
  /\ \A k \in 1 .. pushes :
       Pushed[k] < i /\ \A j \in 1 .. k - 1 : Pushed[j] < Pushed[k]
  /\ mode # "drop" => dropped = 0 /\ \A k \in 1 .. pushes : Pushed[k] = k

(* The logger pops what it has seen pushed.  It tests the ring after it    *)
(* has seen done, when nothing more is pushed and everything is visible.   *)
Handshake ==
  /\ mode # "mutex" => pops <= pushesSeen
  /\ done => i = Iters + 1
  /\ doneSeen => done
  /\ logPc \in {"empty", "ended"} => doneSeen
  /\ logPc = "empty" => pushesSeen = pushes
  /\ logPc = "ended" => queue = << >>
  /\ joined => logPc = "ended"

IInv == TypeOK /\ Records /\ Handshake
=============================================================================
