---------------------------- MODULE LossyChannel ----------------------------
(***************************************************************************)
(* What the receive path promises the application: the packets 0, 1, ...   *)
(* are each delivered once and in order or dropped on arrival; a packet    *)
(* that was accepted is not lost; at most N wait to be delivered.          *)
(***************************************************************************)
EXTENDS Naturals, Sequences

CONSTANTS
  N,        \* the buffers the application gave the NIC
  Packets   \* packets that arrive

VARIABLES
  next,     \* the next packet to arrive
  chan,     \* accepted and not delivered, oldest first
  got       \* delivered, in order

vars == <<next, chan, got>>

Init == next = 0 /\ chan = << >> /\ got = << >>

Accept ==
  /\ next < Packets /\ Len(chan) < N
  /\ chan' = Append(chan, next) /\ next' = next + 1
  /\ UNCHANGED got

Drop ==
  /\ next < Packets
  /\ next' = next + 1
  /\ UNCHANGED <<chan, got>>

Deliver ==
  /\ chan # << >>
  /\ got' = Append(got, Head(chan)) /\ chan' = Tail(chan)
  /\ UNCHANGED next

Next == Accept \/ Drop \/ Deliver

Spec == Init /\ [][Next]_vars
=============================================================================
