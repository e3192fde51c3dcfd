-------------------------- MODULE VirtualInterface --------------------------
(***************************************************************************)
(* rxsim::VirtualInterface with its two callers: the application thread    *)
(* (post, poll, data, repost) and the NIC thread (try_acquire_rx, the      *)
(* memcpy that stands for DMA, complete_rx, record_overrun).               *)
(*                                                                         *)
(* The two rings are bounded FIFO queues (SpscQueue, which SpscRing is     *)
(* shown to implement).  A producer judges whether its ring is full from   *)
(* the pops it can see, which may lag behind the pops made: an entry       *)
(* carries, as `pops', how many entries of the opposite ring the pushing   *)
(* thread had popped, and whoever pops it cannot see fewer from then on    *)
(* (release/acquire, then coherence).                                      *)
(*                                                                         *)
(* ownership_ is plain memory that both threads write.  The stores of one  *)
(* thread take effect in program order.  The asserts of complete_rx are    *)
(* compiled out (NDEBUG): they are stated as properties instead.           *)
(***************************************************************************)
EXTENDS Integers, Sequences, FiniteSets

CONSTANTS
  N,          \* buffer_count
  RingCap,    \* the capacity of both rings
  MaxEvents,  \* the max_events the application passes to poll
  Packets     \* packets the NIC receives (bounds the model)

(* next_power_of_two(n) returns c *)
IsNextPowerOfTwo(n, c) ==
  /\ c \in {2 ^ k : k \in 0 .. n} /\ n <= c
  /\ \A k \in 0 .. n : n <= 2 ^ k => c <= 2 ^ k

ASSUME ViAssumption ==
  /\ N \in Nat \ {0}
  /\ RingCap \in Nat /\ IsNextPowerOfTwo(N, RingCap)
  /\ MaxEvents \in Nat \ {0}
  /\ Packets \in Nat

Buffers == 0 .. N - 1

VARIABLES
  ownership,  \* ownership_: what the interface believes of each buffer
  pool,       \* pool_: the packet each buffer holds
  rx_ring,    \* rx_ring_, application to NIC
  evq,        \* evq_, NIC to application
  stats,      \* stats_
  started,    \* the NIC thread exists
  wait,       \* wait_for_buffer: the NIC waits for a descriptor, never drops
  appPc,      \* the application: where it is in which call
  aBuf,       \* the application: buffer_id of the call
  ev,         \* the application: the last entry popped from evq_
  events,     \* the application: what poll returned and is not served yet
  evPops,     \* the application: entries popped from evq_
  rxKnown,    \* the application: pops of rx_ring_ it knows of
  got,        \* the application: the packets it has read, in order
  nicPc,      \* the NIC: where it is in dma_or_drop
  desc,       \* the NIC: the descriptor it acquired last
  seq,        \* the NIC: the packet it has received
  rxPops,     \* the NIC: entries popped from rx_ring_
  evKnown     \* the NIC: pops of evq_ it knows of

app == <<appPc, aBuf, ev, events, evPops, rxKnown, got>>
nic == <<nicPc, desc, seq, rxPops, evKnown>>
vars == <<ownership, pool, rx_ring, evq, stats, started, wait, app, nic>>

None == -1          \* no buffer, no packet
Torn == -2          \* a buffer in the middle of a memcpy

Entry == [id : Buffers, pops : 0 .. Packets]
NoEntry == [id |-> None, pops |-> 0]

RxRing == INSTANCE SpscQueue WITH
  Cap <- RingCap, Val <- Entry, NoVal <- NoEntry, queue <- rx_ring, out <- desc

Evq == INSTANCE SpscQueue WITH
  Cap <- RingCap, Val <- Entry, NoVal <- NoEntry, queue <- evq, out <- ev

Larger(a, b) == IF a >= b THEN a ELSE b

Bump(field) == stats' = [stats EXCEPT ![field] = @ + 1]

Init ==
  /\ ownership = [b \in Buffers |-> "Free"]
  /\ pool = [b \in Buffers |-> None]
  /\ rx_ring = << >> /\ evq = << >>
  /\ stats = [posted |-> 0, completed |-> 0, dropped |-> 0, rx_overrun |-> 0]
  /\ started = FALSE /\ wait = FALSE
  /\ appPc = "idle" /\ aBuf = None /\ events = << >> /\ got = << >>
  /\ nicPc = "idle" /\ seq = 0
  /\ ev = NoEntry /\ evPops = 0 /\ rxKnown = 0
  /\ desc = NoEntry /\ rxPops = 0 /\ evKnown = 0
-----------------------------------------------------------------------------
(* The application thread.                                                 *)

(* It creates the NIC thread: start_udp, whose udp_loop never waits for a  *)
(* buffer, or a thread that calls run_fake, whose caller chooses.          *)
Start ==
  /\ appPc = "idle" /\ ~ started
  /\ started' = TRUE
  /\ wait' \in BOOLEAN
  /\ UNCHANGED <<ownership, pool, rx_ring, evq, stats, app, nic>>

(* Mutant: post does not test the state, so a buffer can be posted twice.  *)
PostAnyState(id) ==
  /\ appPc = "idle"
  /\ aBuf' = id /\ appPc' = "push"
  /\ UNCHANGED <<ev, events, evPops, rxKnown, got>>
  /\ UNCHANGED <<ownership, pool, rx_ring, evq, stats, started, wait, nic>>

(* post(id): post_from finds the buffer Free (otherwise it returns false,  *)
(* and nothing changes).  post_all posts every Free buffer.                *)
Post(id) ==
  /\ appPc = "idle"
  /\ ownership[id] = "Free"
  /\ aBuf' = id /\ appPc' = "push"
  /\ UNCHANGED <<ev, events, evPops, rxKnown, got>>
  /\ UNCHANGED <<ownership, pool, rx_ring, evq, stats, started, wait, nic>>

(* Mutant: poll writes one event more than max_events.                     *)
PollPopOneMore ==
  /\ appPc \in {"idle", "poll"} /\ Len(events) <= MaxEvents
  /\ Evq!Pop
  /\ events' = Append(events, ev'.id)
  /\ evPops' = evPops + 1
  /\ rxKnown' = Larger(rxKnown, ev'.pops)
  /\ appPc' = "poll"
  /\ UNCHANGED <<aBuf, got, ownership, pool, rx_ring, stats, started, wait, nic>>

(* poll: one evq_.try_pop of its loop.                                     *)
PollPop ==
  /\ appPc \in {"idle", "poll"} /\ Len(events) < MaxEvents
  /\ Evq!Pop
  /\ events' = Append(events, ev'.id)
  /\ evPops' = evPops + 1
  /\ rxKnown' = Larger(rxKnown, ev'.pops)
  /\ appPc' = "poll"
  /\ UNCHANGED <<aBuf, got, ownership, pool, rx_ring, stats, started, wait, nic>>

(* Mutant: only the first of the events polled is served.                  *)
PollReturnFirst ==
  /\ appPc = "poll"
  /\ appPc' = "serve"
  /\ events' = << Head(events) >>
  /\ UNCHANGED <<aBuf, ev, evPops, rxKnown, got>>
  /\ UNCHANGED <<ownership, pool, rx_ring, evq, stats, started, wait, nic>>

(* poll returns: the array is full, or try_pop saw an empty queue.         *)
PollReturn ==
  /\ appPc = "poll"
  /\ appPc' = "serve"
  /\ UNCHANGED <<aBuf, ev, events, evPops, rxKnown, got>>
  /\ UNCHANGED <<ownership, pool, rx_ring, evq, stats, started, wait, nic>>

(* Mutant: data tests for the wrong state.                                 *)
DataIfPosted ==
  /\ appPc = "serve"
  /\ aBuf' = Head(events)
  /\ appPc' = IF ownership[Head(events)] = "Posted" THEN "read" ELSE "repost"
  /\ UNCHANGED <<ev, events, evPops, rxKnown, got>>
  /\ UNCHANGED <<ownership, pool, rx_ring, evq, stats, started, wait, nic>>

(* data(id) for the next event: nullptr unless the buffer is Filled.       *)
Data ==
  /\ appPc = "serve"
  /\ aBuf' = Head(events)
  /\ appPc' = IF ownership[Head(events)] = "Filled" THEN "read" ELSE "repost"
  /\ UNCHANGED <<ev, events, evPops, rxKnown, got>>
  /\ UNCHANGED <<ownership, pool, rx_ring, evq, stats, started, wait, nic>>

(* The application copies the packet out of the buffer. *)
Read ==
  /\ appPc = "read"
  /\ got' = Append(got, pool[aBuf])
  /\ appPc' = "repost"
  /\ UNCHANGED <<aBuf, ev, events, evPops, rxKnown>>
  /\ UNCHANGED <<ownership, pool, rx_ring, evq, stats, started, wait, nic>>

(* Mutant: an event stays in the array after it was served.                *)
NextEventAgain ==
  /\ aBuf' = None
  /\ events' = events
  /\ appPc' = IF Len(events) <= 1 THEN "idle" ELSE "serve"

(* The application is done with the buffer in hand, posted or not: it goes *)
(* on with the next event, or back to its loop.                            *)
NextEvent ==
  /\ aBuf' = None
  /\ events' = IF events = << >> THEN events ELSE Tail(events)
  /\ appPc' = IF Len(events) <= 1 THEN "idle" ELSE "serve"

(* Mutant: repost expects the state that post_from sets.                   *)
RepostIfPosted ==
  /\ appPc = "repost"
  /\ IF ownership[aBuf] = "Posted"
     THEN appPc' = "push" /\ UNCHANGED <<aBuf, events>>
     ELSE NextEvent
  /\ UNCHANGED <<ev, evPops, rxKnown, got>>
  /\ UNCHANGED <<ownership, pool, rx_ring, evq, stats, started, wait, nic>>

(* repost(id): post_from finds the buffer Filled, or returns false. *)
Repost ==
  /\ appPc = "repost"
  /\ IF ownership[aBuf] = "Filled"
     THEN appPc' = "push" /\ UNCHANGED <<aBuf, events>>
     ELSE NextEvent
  /\ UNCHANGED <<ev, evPops, rxKnown, got>>
  /\ UNCHANGED <<ownership, pool, rx_ring, evq, stats, started, wait, nic>>

(* Mutant: the descriptor is published by a relaxed store.                 *)
PushDescRelaxed ==
  /\ appPc = "push"
  /\ \E seen \in rxKnown .. rxPops :
       /\ rxKnown' = seen
       /\ IF Len(rx_ring) + rxPops - seen >= RingCap
          THEN NextEvent /\ UNCHANGED rx_ring
          ELSE /\ rx_ring' = Append(rx_ring, [id |-> aBuf, pops |-> 0])
               /\ appPc' = "own" /\ UNCHANGED <<aBuf, events>>
  /\ UNCHANGED <<ev, evPops, got, ownership, pool, evq, stats, started, wait, nic>>

(* post_from: rx_ring_.try_push(desc), which sees `seen' of the pops. *)
PushDesc ==
  /\ appPc = "push"
  /\ \E seen \in rxKnown .. rxPops :
       /\ rxKnown' = seen
       /\ IF Len(rx_ring) + rxPops - seen >= RingCap
          THEN NextEvent /\ UNCHANGED rx_ring
          ELSE /\ rx_ring' = Append(rx_ring, [id |-> aBuf, pops |-> evPops])
               /\ appPc' = "own" /\ UNCHANGED <<aBuf, events>>
  /\ UNCHANGED <<ev, evPops, got, ownership, pool, evq, stats, started, wait, nic>>

(* post_from: ownership_[buffer_id] = BufferState::Posted *)
SetPosted ==
  /\ appPc = "own"
  /\ ownership' = [ownership EXCEPT ![aBuf] = "Posted"]
  /\ appPc' = "count"
  /\ UNCHANGED <<aBuf, ev, events, evPops, rxKnown, got>>
  /\ UNCHANGED <<pool, rx_ring, evq, stats, started, wait, nic>>

(* post_from: stats_.posted.fetch_add(1), and return true *)
CountPosted ==
  /\ appPc = "count"
  /\ Bump("posted")
  /\ NextEvent
  /\ UNCHANGED <<ev, evPops, rxKnown, got>>
  /\ UNCHANGED <<ownership, pool, rx_ring, evq, started, wait, nic>>

PostFrom == PushDesc \/ SetPosted \/ CountPosted

App ==
  \/ Start \/ (\E id \in Buffers : Post(id))
  \/ PollPop \/ PollReturn \/ Data \/ Read \/ Repost
  \/ PostFrom
-----------------------------------------------------------------------------
(* The NIC thread: dma_or_drop for the packets 0, 1, ..., Packets - 1.     *)

(* try_acquire_rx returns true *)
Acquire ==
  /\ started /\ nicPc = "idle" /\ seq < Packets
  /\ RxRing!Pop
  /\ rxPops' = rxPops + 1
  /\ evKnown' = Larger(evKnown, desc'.pops)
  /\ nicPc' = "dma"
  /\ UNCHANGED <<seq, ownership, pool, evq, stats, started, wait, app>>

(* Mutant: the drop is not counted.                                        *)
NoBufferUncounted ==
  /\ started /\ nicPc = "idle" /\ seq < Packets /\ ~ wait
  /\ nicPc' = "idle" /\ seq' = seq + 1
  /\ UNCHANGED <<desc, rxPops, evKnown>>
  /\ UNCHANGED <<ownership, pool, rx_ring, evq, stats, started, wait, app>>

(* try_acquire_rx returns false: the ring is empty as far as the NIC sees, *)
(* and here it may overlook any push, however old (more than coherence     *)
(* permits).  Unless it waits for a buffer, it drops the packet            *)
(* (record_overrun).                                                       *)
NoBuffer ==
  /\ started /\ nicPc = "idle" /\ seq < Packets /\ ~ wait
  /\ Bump("rx_overrun")
  /\ nicPc' = "drop"
  /\ UNCHANGED <<desc, seq, rxPops, evKnown>>
  /\ UNCHANGED <<ownership, pool, rx_ring, evq, started, wait, app>>

CountDropped ==
  /\ nicPc = "drop"
  /\ Bump("dropped")
  /\ nicPc' = "idle" /\ seq' = seq + 1
  /\ UNCHANGED <<desc, rxPops, evKnown>>
  /\ UNCHANGED <<ownership, pool, rx_ring, evq, started, wait, app>>

(* memcpy: the buffer is torn until it is over. *)
Dma ==
  /\ nicPc \in {"dma", "copy"}
  /\ pool' = [pool EXCEPT ![desc.id] = IF nicPc = "dma" THEN Torn ELSE seq]
  /\ nicPc' = IF nicPc = "dma" THEN "copy" ELSE "complete"
  /\ UNCHANGED <<desc, seq, rxPops, evKnown>>
  /\ UNCHANGED <<ownership, rx_ring, evq, stats, started, wait, app>>

(* complete_rx: ownership_[buffer_id] = BufferState::Filled *)
SetFilled ==
  /\ nicPc = "complete"
  /\ ownership' = [ownership EXCEPT ![desc.id] = "Filled"]
  /\ nicPc' = "event"
  /\ UNCHANGED <<desc, seq, rxPops, evKnown>>
  /\ UNCHANGED <<pool, rx_ring, evq, stats, started, wait, app>>

(* Mutant: the event is published by a relaxed store.                      *)
PushEventRelaxed ==
  /\ nicPc = "event"
  /\ \E seen \in evKnown .. evPops :
       /\ evKnown' = seen
       /\ evq' = IF Len(evq) + evPops - seen >= RingCap
                 THEN evq
                 ELSE Append(evq, [id |-> desc.id, pops |-> 0])
  /\ nicPc' = "count"
  /\ UNCHANGED <<desc, seq, rxPops, ownership, pool, rx_ring, stats, started, wait, app>>

(* complete_rx: evq_.try_push(ev); the event is lost if the queue is full. *)
PushEvent ==
  /\ nicPc = "event"
  /\ \E seen \in evKnown .. evPops :
       /\ evKnown' = seen
       /\ evq' = IF Len(evq) + evPops - seen >= RingCap
                 THEN evq
                 ELSE Append(evq, [id |-> desc.id, pops |-> rxPops])
  /\ nicPc' = "count"
  /\ UNCHANGED <<desc, seq, rxPops, ownership, pool, rx_ring, stats, started, wait, app>>

(* complete_rx: stats_.completed.fetch_add(1) *)
CountCompleted ==
  /\ nicPc = "count"
  /\ Bump("completed")
  /\ nicPc' = "idle" /\ seq' = seq + 1
  /\ UNCHANGED <<desc, rxPops, evKnown>>
  /\ UNCHANGED <<ownership, pool, rx_ring, evq, started, wait, app>>

(* Mutant: complete_rx pushes the event before it marks the buffer Filled. *)
NicEventFirst ==
  \/ Acquire \/ NoBuffer \/ CountDropped \/ Dma \/ CountCompleted
  \/ /\ nicPc = "complete" /\ nicPc' = "event"
     /\ evq' = Append(evq, [id |-> desc.id, pops |-> rxPops])
     /\ UNCHANGED <<desc, seq, rxPops, evKnown>>
     /\ UNCHANGED <<ownership, pool, rx_ring, stats, started, wait, app>>
  \/ /\ nicPc = "event" /\ nicPc' = "count"
     /\ ownership' = [ownership EXCEPT ![desc.id] = "Filled"]
     /\ UNCHANGED <<desc, seq, rxPops, evKnown>>
     /\ UNCHANGED <<pool, rx_ring, evq, stats, started, wait, app>>

Nic ==
  \/ Acquire \/ NoBuffer \/ CountDropped
  \/ Dma \/ SetFilled \/ PushEvent \/ CountCompleted
-----------------------------------------------------------------------------
(* Both threads are done: every packet received, every event served. *)
Terminated ==
  /\ seq = Packets /\ nicPc = "idle"
  /\ appPc = "idle" /\ evq = << >> /\ \A b \in Buffers : ownership[b] # "Free"
  /\ UNCHANGED vars

Next == App \/ Nic \/ Terminated

Spec == Init /\ [][Next]_vars

(* post_from marks the buffer Posted after it has published the            *)
(* descriptor.  The code relies on that store to come before the NIC has   *)
(* filled the buffer; nothing enforces it.                                 *)
Timely == ~ (nicPc = "complete" /\ appPc = "own" /\ aBuf = desc.id)

NicTimely == Timely /\ Nic

(* Both threads keep running ([intro.progress]).                           *)
TimelySpec ==
  /\ Init /\ [][App \/ NicTimely \/ Terminated]_vars
  /\ WF_vars(App) /\ WF_vars(NicTimely)
-----------------------------------------------------------------------------
BufferState == {"Free", "Posted", "Filled"}

TypeOK ==
  /\ ownership \in [Buffers -> BufferState]
  /\ pool \in [Buffers -> {None, Torn} \cup 0 .. Packets - 1]
  /\ rx_ring \in Seq(Entry) /\ Len(rx_ring) <= RingCap
  /\ evq \in Seq(Entry) /\ Len(evq) <= RingCap
  /\ stats \in [{"posted", "completed", "dropped", "rx_overrun"} -> 0 .. N + Packets]
  /\ started \in BOOLEAN /\ wait \in BOOLEAN
  /\ appPc \in {"idle", "poll", "serve", "read", "repost", "push", "own", "count"}
  /\ aBuf \in Buffers \cup {None}
  /\ events \in Seq(Buffers) /\ Len(events) <= MaxEvents
  /\ ev \in Entry \cup {NoEntry} /\ desc \in Entry \cup {NoEntry}
  /\ rxKnown \in 0 .. rxPops /\ rxPops \in 0 .. Packets
  /\ evKnown \in 0 .. evPops /\ evPops \in 0 .. Packets
  /\ nicPc \in {"idle", "drop", "dma", "copy", "complete", "event", "count"}
  /\ seq \in 0 .. Packets
  /\ got \in Seq({None, Torn} \cup 0 .. Packets - 1)

(* What the application holds: events it has not posted again, then those  *)
(* whose packet it has not read either.                                    *)
Held ==
  IF appPc \in {"own", "count"} /\ events # << >> THEN Tail(events) ELSE events
Unread ==
  IF appPc \in {"repost", "push", "own", "count"} /\ events # << >>
  THEN Tail(events) ELSE events

NicHolds == nicPc \in {"dma", "copy", "complete", "event"}

(* How many hands hold buffer b: the application, the NIC, the two rings.  *)
Hands(b) ==
  Cardinality({i \in DOMAIN rx_ring : rx_ring[i].id = b})
  + Cardinality({i \in DOMAIN evq : evq[i].id = b})
  + Cardinality({i \in DOMAIN Held : Held[i] = b})
  + IF NicHolds /\ desc.id = b THEN 1 ELSE 0

(* A buffer is never in two hands: it is not posted twice, not reported    *)
(* twice, and the NIC never writes one that the application may read.      *)
OneOwner == \A b \in Buffers : Hands(b) <= 1

(* The application reads whole packets, each at most once and in the order *)
(* of arrival, although it reads memory that the NIC keeps reusing.        *)
PayloadIntact ==
  /\ \A i \in DOMAIN got : got[i] \in 0 .. Packets - 1
  /\ \A i, j \in DOMAIN got : i < j => got[i] < got[j]

(* A post or repost that passes the ownership test finds room in the       *)
(* descriptor ring, however stale the application's view of it: the events *)
(* it has polled tell it of enough pops.                                   *)
PostNeverFails ==
  appPc = "push" =>
    \A seen \in rxKnown .. rxPops : Len(rx_ring) + rxPops - seen < RingCap

(* "this push cannot fail" (virtual_interface.cpp:99), however stale the   *)
(* NIC's view of the event queue.                                          *)
EventPushNeverFails ==
  nicPc = "event" =>
    \A seen \in evKnown .. evPops : Len(evq) + evPops - seen < RingCap

(* The counters agree with the rings: a descriptor posted is in the ring   *)
(* or was acquired, one acquired was completed, a packet was completed or  *)
(* dropped; a counter lags by the call that is about to bump it.           *)
StatsConserved ==
  /\ stats.posted + (IF appPc \in {"own", "count"} THEN 1 ELSE 0)
       = Len(rx_ring) + rxPops
  /\ stats.completed + (IF NicHolds \/ nicPc = "count" THEN 1 ELSE 0) = rxPops
  /\ stats.dropped + (IF nicPc = "drop" THEN 1 ELSE 0) = stats.rx_overrun
  /\ stats.completed + stats.dropped = seq

(* No buffer is ever lost: one that has been posted is in some hand.       *)
NoBufferLost ==
  \A b \in Buffers : Hands(b) = 0 => ownership[b] = "Free"

(* The assertion of complete_rx (virtual_interface.cpp:92): the NIC        *)
(* completes only buffers that are marked Posted.                          *)
CompletesOnlyPosted == nicPc = "complete" => ownership[desc.id] = "Posted"

(* A polled buffer can be read: data does not return nullptr               *)
(* (test_ownership.cpp:87).                                                *)
PolledIsReadable == appPc = "serve" => ownership[Head(events)] = "Filled"

(* The packets that have arrived, and the packets accepted and not read:   *)
(* those in polled buffers, then those in buffers whose event is queued.   *)
Arrived == IF nicPc \in {"count", "drop"} THEN seq + 1 ELSE seq
Waiting == [i \in 1 .. Len(Unread) |-> pool[Unread[i]]]
           \o [i \in 1 .. Len(evq) |-> pool[evq[i].id]]

(* The receive path is a lossy FIFO channel: a packet is accepted when its *)
(* event is pushed and delivered when the application reads the buffer.    *)
Channel == INSTANCE LossyChannel WITH next <- Arrived, chan <- Waiting

ImplementsChannel == Channel!Spec

(* In the end every packet has been read or counted as an overrun.         *)
EveryPacketAccounted == <>[](Len(got) + stats.rx_overrun = Packets)
-----------------------------------------------------------------------------
(* The inductive invariants behind the properties above.                   *)

(* The order in which the buffers circulate: what the application holds,   *)
(* the events, the NIC's buffer, the descriptors.  A buffer that is handed *)
(* over stays where it is; posting appends one.                            *)
NicLen == IF NicHolds THEN 1 ELSE 0
CircleLen == Len(Held) + Len(evq) + NicLen + Len(rx_ring)
Circle ==
  [i \in 1 .. CircleLen |->
     IF i <= Len(Held) THEN Held[i]
     ELSE IF i <= Len(Held) + Len(evq) THEN evq[i - Len(Held)].id
     ELSE IF i <= Len(Held) + Len(evq) + NicLen THEN desc.id
     ELSE rx_ring[i - Len(Held) - Len(evq) - NicLen].id]

(* What each thread knows at each point of its calls. *)
Control ==
  /\ appPc = "idle" => events = << >>
  /\ appPc \in {"poll", "serve", "read", "repost"} => events # << >>
  /\ appPc \in {"read", "repost"} => aBuf = Head(events)
  /\ appPc = "push" =>
       \/ events # << >> /\ aBuf = Head(events)
       \/ events = << >> /\ aBuf # None /\ ownership[aBuf] = "Free"
  /\ appPc \in {"own", "count"} => CircleLen > 0 /\ aBuf = Circle[CircleLen]
  /\ NicHolds => desc.id # None
  /\ nicPc # "idle" => seq < Packets

(* No buffer circulates twice, and none is Free but the one just pushed.   *)
Custody ==
  /\ \A i, j \in 1 .. CircleLen : Circle[i] = Circle[j] => i = j
  /\ \A i \in 1 .. CircleLen :
       ownership[Circle[i]] = "Free" => appPc = "own" /\ aBuf = Circle[i]

(* What an entry tells the thread that pops it.  The pops of the two rings *)
(* differ by what the NIC side holds, and the N buffers bound the rest.    *)
Knowledge ==
  /\ rxPops = evPops + Len(evq) + NicLen
  /\ \A i \in 1 .. Len(evq) : evq[i].pops = evPops + i
  /\ \A i \in 1 .. Len(rx_ring) :
       rxPops + i - N <= rx_ring[i].pops /\ rx_ring[i].pops <= evPops
  /\ evPops <= rxKnown /\ rxPops - N <= evKnown

(* The packets that wait in polled and unpolled buffers, and in the NIC's, *)
(* are whole; with those read they are in the order of arrival.            *)
FirstUnread == IF appPc \in {"repost", "push"} /\ events # << >> THEN 2 ELSE 1
Packet(i) == pool[Circle[i]]
Payload ==
  /\ nicPc \in {"complete", "event"} => pool[desc.id] = seq
  /\ \A i \in FirstUnread .. Len(Held) + Len(evq) :
       /\ Packet(i) \in 0 .. Arrived - 1
       /\ \A j \in FirstUnread .. i - 1 : Packet(j) < Packet(i)
       /\ \A g \in 1 .. Len(got) : got[g] < Packet(i)
  /\ \A g \in 1 .. Len(got) :
       /\ got[g] \in 0 .. Arrived - 1
       /\ \A h \in 1 .. g - 1 : got[h] < got[g]

InterfaceInv == TypeOK /\ Control /\ Custody /\ Knowledge /\ Payload /\ StatsConserved

(* With Timely as well: a buffer is marked Filled from complete_rx until   *)
(* it is posted again, and never leaves the circle.                        *)
Marked ==
  /\ \A i \in 1 .. Len(Held) + Len(evq) : ownership[Circle[i]] = "Filled"
  /\ nicPc = "event" => ownership[desc.id] = "Filled"
  /\ appPc = "own" => rx_ring # << >> \/ nicPc \in {"dma", "copy", "complete"}
  /\ \A b \in Buffers : ownership[b] = "Free" \/ \E i \in 1 .. CircleLen : Circle[i] = b

TimelyInv == InterfaceInv /\ Marked
=============================================================================
