----------------------------- MODULE UdpReceiver -----------------------------
(***************************************************************************)
(* The receiver program: main of receiver.cpp, which owns a SimulatedNic,  *)
(* the NIC's thread (udp_loop), the kernel's UDP socket and the senders    *)
(* that it listens to.                                                     *)
(*                                                                         *)
(* The VirtualInterface between the two threads is a LossyChannel: a       *)
(* packet is accepted if one of the buffers is posted, or dropped (perhaps *)
(* because the NIC does not see the last repost yet), and delivered once   *)
(* and in order.  VirtualInterface implements that as long as post_from    *)
(* marks a buffer Posted before the NIC completes it.  Here it may come    *)
(* too late: then main cannot read the datagram, nor post the buffer.      *)
(*                                                                         *)
(* A sender process numbers its datagrams from zero, so datagram n carries *)
(* the sequence number n % Count.  Senders follow each other (the README   *)
(* of the chapter runs one after another against one receiver); datagrams  *)
(* may get lost but not overtake each other (they cross the loopback       *)
(* interface).                                                             *)
(***************************************************************************)
EXTENDS Integers, Sequences, FiniteSets

CONSTANTS
  Buffers,  \* --buffers
  Batch,    \* --batch
  MaxPoll,  \* the events main polls at a time (64 in the code)
  SockCap,  \* datagrams the socket's receive buffer holds (external)
  Count,    \* --count of a sender
  Senders   \* senders run one after the other (bounds the model)

ASSUME ReceiverAssumption ==
  {Buffers, Batch, MaxPoll, SockCap, Count, Senders} \subseteq Nat \ {0}

Datagrams == 0 .. Senders * Count - 1
Seq_(n) == n % Count

VARIABLES
  sent,      \* the next datagram to send
  sock,      \* the socket's receive buffer (external)
  lost,      \* the datagrams lost: on the way, at the socket, for want of a
             \* buffer (for the properties only)
  running,   \* running_
  fd,        \* fd_: "none" or "open"
  thread,    \* thread_ is joinable
  nicPc,     \* the NIC's thread: none, test, recv, dma, ended
  batch,     \* msgs: received and not yet handled
  received,  \* datagrams recvmmsg has returned (for the properties only)
  chan,      \* the VirtualInterface: completed and not polled
  completed, \* stats().completed
  overrun,   \* stats().rx_overrun
  fits,      \* --payload: a buffer holds a PacketHeader (kMinPayload)
  late,      \* the datagrams whose buffer was marked Posted after Filled
  stuck,     \* the buffers that repost has refused, and will always refuse
  appPc,     \* main: where it is
  events,    \* main: evs, the events not served yet
  expected,  \* main: expected
  gaps,      \* main: gaps
  got,       \* the datagrams main has read (for the properties only)
  skipped    \* those it could not read (for the properties only)

net == <<sent, sock, lost>>
nicVars == <<running, fd, thread, nicPc, batch, received>>
vi == <<chan, completed, overrun, fits, late, stuck>>
tally == <<expected, gaps, got, skipped>>
app == <<appPc, events, tally>>
vars == <<net, nicVars, vi, app>>

Init ==
  /\ sent = 0 /\ sock = << >> /\ lost = {}
  /\ running = FALSE /\ fd = "none" /\ thread = FALSE
  /\ nicPc = "none" /\ batch = << >> /\ received = 0
  /\ chan = << >> /\ completed = 0 /\ overrun = 0
  /\ fits \in BOOLEAN /\ late = {} /\ stuck = 0
  /\ appPc = "start" /\ events = << >>
  /\ expected = 0 /\ gaps = 0 /\ got = << >> /\ skipped = {}
-----------------------------------------------------------------------------
(* The senders and the network. *)
Send ==
  /\ sent \in Datagrams
  /\ sent' = sent + 1
  /\ \/ /\ fd = "open" /\ Len(sock) < SockCap
        /\ sock' = Append(sock, sent)
        /\ UNCHANGED lost
     \/ lost' = lost \cup {sent} /\ UNCHANGED sock
  /\ UNCHANGED <<nicVars, vi, app>>

(* socket or sendto fails, and the sender gives up: the rest of its        *)
(* datagrams is never sent.  The next sender begins with 0 again.          *)
SendFails ==
  /\ sent \in Datagrams
  /\ sent' = (sent \div Count + 1) * Count
  /\ UNCHANGED <<sock, lost, nicVars, vi, app>>

Sender == Send \/ SendFails
-----------------------------------------------------------------------------
(* main of receiver.cpp. *)

(* post_all and start_udp.  If socket() or bind() fails, or the thread's   *)
(* constructor after running_ is set, start_udp throws, and nobody catches *)
(* it: the program ends there, in the last case with the socket open.      *)
Start ==
  /\ appPc = "start" /\ ~ running
  /\ \/ /\ appPc' = "failed"
        /\ UNCHANGED <<running, fd, thread, nicPc>>
     \/ /\ fd' = "open" /\ running' = TRUE
        /\ \/ appPc' = "failed" /\ UNCHANGED <<thread, nicPc>>
           \/ appPc' = "poll" /\ thread' = TRUE /\ nicPc' = "test"
  /\ UNCHANGED <<net, batch, received, vi, events, tally>>

(* poll: as many events as there are, or as the array holds.               *)
Poll ==
  /\ appPc = "poll" /\ chan # << >>
  /\ \E k \in 1 .. MaxPoll :
       /\ k <= Len(chan)
       /\ events' = SubSeq(chan, 1, k)
       /\ chan' = SubSeq(chan, k + 1, Len(chan))
  /\ appPc' = "serve"
  /\ UNCHANGED <<net, nicVars, completed, overrun, fits, late, stuck, tally>>

(* Mutant: the sequence number of the datagram is not taken up.            *)
AccountCountingUp(seq) ==
  /\ gaps' = IF seq > expected THEN gaps + (seq - expected) ELSE gaps
  /\ expected' = expected + 1

(* The gap before a datagram.  A number below the one expected is a sender *)
(* that has started again: no gap is counted.                              *)
Account(seq) ==
  /\ gaps' = IF seq > expected THEN gaps + (seq - expected) ELSE gaps
  /\ expected' = seq + 1

(* The datagram holds a header, and is accounted for.                      *)
Read(datagram) ==
  /\ Account(Seq_(datagram))
  /\ got' = Append(got, datagram)
  /\ UNCHANGED skipped

(* It cannot be read, or is too short: no accounting.                      *)
Skip(datagram) ==
  /\ skipped' = skipped \cup {datagram}
  /\ UNCHANGED <<expected, gaps, got>>

Look(datagram) == IF fits THEN Read(datagram) ELSE Skip(datagram)

(* On with the next event, or back to the loop. *)
NextEvent ==
  appPc' = IF events' = << >> THEN "poll" ELSE "serve"

(* One event.  data() returns nullptr if its buffer was marked too late,   *)
(* and repost then fails: nobody will ever post this buffer.  Otherwise    *)
(* main reads the packet, and repost publishes the descriptor.             *)
Serve ==
  /\ appPc = "serve"
  /\ events' = Tail(events)
  /\ \/ /\ Head(events) \in late
        /\ Skip(Head(events))
        /\ stuck' = stuck + 1
        /\ NextEvent
     \/ /\ Head(events) \notin late
        /\ Look(Head(events))
        /\ appPc' = "mark"
        /\ UNCHANGED stuck
  /\ UNCHANGED <<net, nicVars, chan, completed, overrun, fits, late>>

(* post_from: ownership_[buffer_id] = BufferState::Posted, which the NIC   *)
(* has not waited for.                                                     *)
Mark ==
  /\ appPc = "mark"
  /\ UNCHANGED events
  /\ NextEvent
  /\ UNCHANGED <<net, nicVars, vi, tally>>

(* The deadline has passed: nic.stop(). *)
Stop ==
  /\ appPc = "poll"
  /\ running' = FALSE
  /\ appPc' = "join"
  /\ UNCHANGED <<net, fd, thread, nicPc, batch, received, vi, events, tally>>

(* Mutant: the socket is closed to wake the thread, and then it is joined. *)
JoinCloseFirst ==
  /\ appPc = "join"
  /\ \/ fd = "open" /\ fd' = "none" /\ UNCHANGED <<thread, appPc>>
     \/ /\ fd = "none" /\ nicPc = "ended"
        /\ thread' = FALSE /\ appPc' = "done"
        /\ UNCHANGED fd
  /\ UNCHANGED <<net, running, nicPc, batch, received, vi, events, tally>>

(* Mutant: the thread is detached. *)
JoinDetach ==
  /\ appPc = "join"
  /\ thread' = FALSE /\ fd' = "none"
  /\ appPc' = "done"
  /\ UNCHANGED <<net, running, nicPc, batch, received, vi, events, tally>>

(* nic.join(): the thread, then the socket.  main prints the final counts; *)
(* the stop and join of ~SimulatedNic change nothing any more.             *)
Join ==
  /\ appPc = "join" /\ (thread => nicPc = "ended")
  /\ thread' = FALSE /\ fd' = "none"
  /\ appPc' = "done"
  /\ UNCHANGED <<net, running, nicPc, batch, received, vi, events, tally>>

App == Start \/ Poll \/ Serve \/ Mark \/ Stop \/ Join
-----------------------------------------------------------------------------
(* udp_loop *)

(* running_.load(acquire) *)
TestRunning ==
  /\ nicPc = "test"
  /\ nicPc' = IF running THEN "recv" ELSE "ended"
  /\ UNCHANGED <<net, running, fd, thread, batch, received, vi, app>>

(* Mutant: recvmmsg waits for the first datagram (no MSG_DONTWAIT).        *)
ReceiveBlocking ==
  /\ nicPc = "recv" /\ sock # << >>
  /\ \E k \in 1 .. Batch :
       /\ k <= Len(sock)
       /\ batch' = SubSeq(sock, 1, k)
       /\ sock' = SubSeq(sock, k + 1, Len(sock))
       /\ received' = received + k
  /\ nicPc' = "dma"
  /\ UNCHANGED <<sent, lost, running, fd, thread, vi, app>>

(* recvmmsg: up to Batch datagrams; none (EAGAIN); or an error, which ends *)
(* the loop and leaves running_ set.                                       *)
Receive ==
  /\ nicPc = "recv"
  /\ \E k \in 0 .. Batch :
       /\ k <= Len(sock)
       /\ batch' = SubSeq(sock, 1, k)
       /\ sock' = SubSeq(sock, k + 1, Len(sock))
       /\ received' = received + k
       /\ nicPc' = IF k = 0 THEN "test" ELSE "dma"
  /\ UNCHANGED <<sent, lost, running, fd, thread, vi, app>>

ReceiveFails ==
  /\ nicPc = "recv"
  /\ nicPc' = "ended"
  /\ UNCHANGED <<net, running, fd, thread, batch, received, vi, app>>

NextDatagram ==
  /\ batch' = Tail(batch)
  /\ nicPc' = IF Len(batch) = 1 THEN "test" ELSE "dma"

(* The buffers that are posted: neither completed nor stuck. *)
Posted == Buffers - (Len(chan) + Len(events) + stuck)

(* dma_or_drop: into a posted buffer.  The descriptors are a queue, so the *)
(* buffer that main is about to mark is the last of them.                  *)
Deliver ==
  /\ nicPc = "dma" /\ Posted > 0
  /\ chan' = Append(chan, Head(batch))
  /\ completed' = completed + 1
  /\ late' = IF appPc = "mark" /\ Posted = 1 THEN late \cup {Head(batch)} ELSE late
  /\ NextDatagram
  /\ UNCHANGED <<net, running, fd, thread, received, overrun, fits, stuck, app>>

(* dma_or_drop: no buffer is posted that the NIC can see.                  *)
Overrun ==
  /\ nicPc = "dma"
  /\ lost' = lost \cup {Head(batch)}
  /\ overrun' = overrun + 1
  /\ NextDatagram
  /\ UNCHANGED <<sent, sock, running, fd, thread, received, chan, completed, fits, late, stuck, app>>

Loop == TestRunning \/ Receive \/ Deliver \/ Overrun
Nic == Loop \/ ReceiveFails
-----------------------------------------------------------------------------
Terminated == appPc \in {"done", "failed"} /\ UNCHANGED vars

Next == Sender \/ App \/ Nic \/ Terminated

Spec == Init /\ [][Next]_vars

(* Both threads keep running and the deadline passes (--seconds); nothing  *)
(* says that recvmmsg ever fails.                                          *)
FairSpec == Spec /\ WF_vars(Start \/ Serve \/ Mark \/ Join) /\ SF_vars(Stop) /\ WF_vars(Loop)
-----------------------------------------------------------------------------
StreamTypeOK ==
  /\ sent \in 0 .. Senders * Count /\ lost \subseteq Datagrams
  /\ sock \in Seq(Datagrams) /\ batch \in Seq(Datagrams) /\ chan \in Seq(Datagrams)
  /\ events \in Seq(Datagrams) /\ got \in Seq(Datagrams)
  /\ expected \in 0 .. Count /\ gaps \in Nat
  /\ skipped \subseteq Datagrams /\ late \subseteq Datagrams
  /\ stuck \in Nat /\ fits \in BOOLEAN

TypeOK ==
  /\ StreamTypeOK
  /\ Len(sock) <= SockCap /\ Len(batch) <= Batch
  /\ Len(events) <= MaxPoll /\ Len(chan) + Len(events) + stuck <= Buffers
  /\ running \in BOOLEAN /\ thread \in BOOLEAN /\ fd \in {"none", "open"}
  /\ nicPc \in {"none", "test", "recv", "dma", "ended"}
  /\ {received, completed, overrun} \subseteq 0 .. Senders * Count
  /\ appPc \in {"start", "poll", "serve", "mark", "join", "done", "failed"}

(* The NIC's thread never receives on a closed socket, and it and the      *)
(* socket are gone when main returns.                                      *)
SocketOutlivesThread ==
  /\ nicPc \in {"test", "recv", "dma"} => fd = "open" /\ thread
  /\ appPc = "done" => fd = "none" /\ ~ thread

(* The counts that main prints last are final: everything recvmmsg has     *)
(* returned was completed or dropped, also what it returned after stop.    *)
FinalCounts == appPc = "done" => completed + overrun = received

(* The datagrams that main did not account for. *)
Missed == lost \cup skipped

(* `gaps' counts the datagrams that were lost, "independently of the NIC   *)
(* rx_overrun counter" (packet.hpp:8), and those that main could not read: *)
(* of these no more than there are buffers that post_from marked too late, *)
(* since each of them costs its buffer.  As long as the last datagram read *)
(* is of the first sender, it counts exactly those before that datagram;   *)
(* it never counts too many after a sender has started again from zero.    *)
GapsAreLosses ==
  /\ gaps <= Cardinality(lost) + stuck /\ stuck <= Buffers
  /\ got # << >> /\ got[Len(got)] < Count =>
       gaps = Cardinality({n \in Missed : n < expected})

(* The program ends: the thread comes out of its loop after stop.          *)
ReceiverEnds == <>(appPc \in {"done", "failed"})
-----------------------------------------------------------------------------
(* The inductive invariant behind the safety properties above.             *)

(* Who is where: the thread and the socket exist while main polls, and     *)
(* main ends after the thread.                                             *)
Control ==
  /\ appPc \in {"start", "failed"} => nicPc = "none" /\ ~ thread
  /\ appPc \in {"poll", "serve", "mark", "join"} => thread /\ fd = "open" /\ nicPc # "none"
  /\ appPc = "done" => ~ thread /\ fd = "none" /\ nicPc = "ended"
  /\ appPc = "serve" => events # << >>
  /\ events # << >> => appPc \in {"serve", "mark"}
  /\ nicPc = "dma" <=> batch # << >>

Counted ==
  /\ completed + overrun + Len(batch) = received
  /\ received + Len(sock) <= sent

(* The datagrams on their way through the program, those read first.  The  *)
(* NIC and main pass them on from one part of the stream to the next.      *)
Stream == got \o events \o chan \o batch \o sock

Members(s) == {s[k] : k \in 1 .. Len(s)}

(* s is in order, holds only datagrams sent before n, and none of gone.    *)
InOrder(s, n, gone) ==
  \A k \in 1 .. Len(s) :
    /\ s[k] < n
    /\ s[k] \notin gone
    /\ \A j \in 1 .. k - 1 : s[j] < s[k]

(* The number 0 of the sender of datagram n. *)
First(n) == n - Seq_(n)

(* The stream is in order and holds no datagram that was missed.  Of those *)
(* that a sender sent before one in the stream none is unaccounted for.    *)
Transit ==
  /\ InOrder(Stream, sent, Missed)
  /\ \A n \in Missed : n < sent
  /\ \A n \in Members(Stream) \cup {sent} :
       First(n) .. n - 1 \subseteq Missed \cup Members(Stream)

(* The gaps counted are datagrams missed before the next one to read, and  *)
(* all of them as long as that is of the first sender.                     *)
Frontier == IF got = << >> THEN 0 ELSE got[Len(got)] + 1
MissedBefore(n) == {d \in Missed : d < n}
GapCount ==
  /\ expected = IF got = << >> THEN 0 ELSE Seq_(got[Len(got)]) + 1
  /\ gaps <= Cardinality(MissedBefore(Frontier))
  /\ Frontier <= Count => gaps = Cardinality(MissedBefore(Frontier))

(* A datagram that is not read although it holds a header costs a buffer.  *)
SkipCount ==
  /\ fits => Cardinality(skipped) = stuck
  /\ ~ fits => got = << >>

IInv == TypeOK /\ Control /\ Counted /\ Transit /\ GapCount /\ SkipCount
=============================================================================
