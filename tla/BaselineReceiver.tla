-------------------------- MODULE BaselineReceiver --------------------------
(***************************************************************************)
(* baseline_recvfrom.cpp, the program that receiver is compared with: one  *)
(* thread that reads the same socket itself, without a NIC.  It handles    *)
(* what recvfrom or recvmmsg returned before it receives again.            *)
(*                                                                         *)
(* The module extends UdpReceiver by a choice of the program that runs.    *)
(* The baseline uses the receiver's variables: received counts what the    *)
(* socket returned, completed is its rx, and events holds the datagrams    *)
(* that it has received and not handled.                                   *)
(***************************************************************************)
EXTENDS UdpReceiver, Hist

(* A histogram has room for every datagram.                                *)
ASSUME SamplesAssumption == Senders * Count <= MaxCount

VARIABLE program   \* "receiver" or "baseline"

allVars == <<vars, program>>

AnyInit == Init /\ program \in {"receiver", "baseline"}
-----------------------------------------------------------------------------
(* socket() and bind(): if one fails, the program ends without a socket.   *)
Open ==
  /\ appPc = "start"
  /\ \/ appPc' = "failed" /\ UNCHANGED fd
     \/ appPc' = "poll" /\ fd' = "open"
  /\ UNCHANGED <<net, running, thread, nicPc, batch, received, vi, events, tally>>

(* recvfrom (one datagram) or recvmmsg (up to Batch).  With none there     *)
(* (EAGAIN), or interrupted, the program tries again.                      *)
ReceiveDirect ==
  /\ appPc = "poll"
  /\ \E k \in 1 .. Batch :
       /\ k <= Len(sock)
       /\ events' = SubSeq(sock, 1, k)
       /\ sock' = SubSeq(sock, k + 1, Len(sock))
       /\ received' = received + k
  /\ appPc' = "serve"
  /\ UNCHANGED <<sent, lost, running, fd, thread, nicPc, batch, vi, tally>>

(* handle(): count the datagram, and account for the gap before it unless  *)
(* it is too short.                                                        *)
Handle ==
  /\ appPc = "serve"
  /\ completed' = completed + 1
  /\ Look(Head(events))
  /\ events' = Tail(events)
  /\ NextEvent
  /\ UNCHANGED <<net, nicVars, chan, overrun, fits, late, stuck>>

(* The deadline has passed, or a receive failed: print, and close.         *)
Leave ==
  /\ appPc = "poll"
  /\ appPc' = "done"
  /\ fd' = "none"
  /\ UNCHANGED <<net, running, thread, nicPc, batch, received, vi, events, tally>>

Baseline == Open \/ ReceiveDirect \/ Handle \/ Leave

AnyNext ==
  /\ \/ program = "receiver" /\ Next
     \/ program = "baseline" /\ (Sender \/ Baseline \/ Terminated)
  /\ UNCHANGED program

AnySpec == AnyInit /\ [][AnyNext]_allVars

(* As for the receiver: the program keeps running and its deadline passes. *)
AnyFairSpec ==
  /\ AnySpec
  /\ program = "receiver" => WF_vars(Start \/ Serve \/ Mark \/ Join) /\ SF_vars(Stop) /\ WF_vars(Loop)
  /\ program = "baseline" => WF_vars(Open \/ Handle) /\ SF_vars(Leave)
-----------------------------------------------------------------------------
(* The percentiles of the latency that either program prints when it is    *)
(* done are the true ones to within a factor of two, whatever the          *)
(* latencies of the datagrams it has read, and however many of them        *)
(* carried a usable timestamp.                                             *)
PercentilesBracket == appPc = "done" => \A n \in 0 .. Len(got) : BracketsAll[n]
-----------------------------------------------------------------------------
(* The inductive invariant: that of the receiver, or what stands for it in *)
(* the baseline, whose batches are bounded by nothing but Batch.           *)
BaselineTypeOK ==
  /\ StreamTypeOK
  /\ Len(events) <= Batch /\ {completed, received} \subseteq Nat
  /\ appPc \in {"start", "poll", "serve", "done", "failed"}

BaselineControl ==
  /\ ~ running /\ ~ thread /\ nicPc = "none"
  /\ fd = IF appPc \in {"poll", "serve"} THEN "open" ELSE "none"
  /\ chan = << >> /\ batch = << >> /\ overrun = 0 /\ late = {} /\ stuck = 0
  /\ appPc = "serve" <=> events # << >>
  /\ completed + Len(events) = received

AnyInv ==
  /\ program \in {"receiver", "baseline"}
  /\ program = "receiver" => IInv
  /\ program = "baseline" => BaselineTypeOK /\ BaselineControl /\ Transit /\ GapCount /\ SkipCount
=============================================================================
