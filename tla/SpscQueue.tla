----------------------------- MODULE SpscQueue -----------------------------
(***************************************************************************)
(* What an SpscRing promises its two callers: a bounded FIFO queue with    *)
(* one producer and one consumer.  A failed try_push or try_pop changes    *)
(* nothing, so it is a stuttering step.                                    *)
(*                                                                         *)
(* SpscRing is shown to implement this module; the components that own     *)
(* rings (VirtualInterface) are built from its actions.                    *)
(***************************************************************************)
EXTENDS Naturals, Sequences

CONSTANTS
  Cap,    \* capacity(): how many elements the ring can hold
  Val,    \* the elements
  NoVal   \* what the consumer's variable holds before its first pop

VARIABLES
  queue,  \* the elements pushed and not yet popped, oldest first
  out     \* the consumer's variable that try_pop(T& out) assigns

vars == <<queue, out>>

Init == queue = << >> /\ out = NoVal

(* try_push(v) returning true: there was room, v is now the last element.  *)
Push(v) ==
  /\ Len(queue) < Cap
  /\ queue' = Append(queue, v)
  /\ UNCHANGED out

(* try_pop(out) returning true: out is the oldest element.                 *)
Pop ==
  /\ queue # << >>
  /\ out' = Head(queue)
  /\ queue' = Tail(queue)

Next == Pop \/ \E v \in Val : Push(v)

Spec == Init /\ [][Next]_vars
=============================================================================
