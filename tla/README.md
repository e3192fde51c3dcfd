# HFT-Series: TLA+ models and proofs

HFT-Series is a course in low-latency C++: small programs around a lock-free
ring, a userspace receive path modelled on ef_vi, a limit order book, a logger
and two memory-model experiments. This directory holds TLA+ modules translated
from those programs, TLC configurations that check them on small instances, and
TLAPS proofs that hold for every value of the constants.

    tlc -config MCSpscRing.cfg MCSpscRing.tla     # one run
    tlapm SpscRing_proofs.tla                     # the proofs

`PROJECT.json` lists the runs, the source lines of every definition (`map`), a
mutation of the code that each property catches (`mutants`), and the hazards at
their lines.

## 1. The system

| Part | State | Operations | Talks to |
| --- | --- | --- | --- |
| SPSC ring (`rxsim/spsc_ring.hpp`, `hft/spsc_ring.hpp`: the same code) | `write_`, `read_` (atomic, free-running), `slots_` (plain) | `try_push` by one thread, `try_pop` by one other | both of its threads |
| VirtualInterface, PacketPool, `rings.hpp` | `ownership_`, the packet slab, `rx_ring_` (app → NIC), `evq_` (NIC → app), `stats_` | app: `post`, `post_all`, `poll`, `data`, `repost`; NIC: `try_acquire_rx`, `complete_rx`, `record_overrun` | the two rings |
| SimulatedNic | `running_`, `fd_`, `thread_` | `run_fake`, `start_udp`, `udp_loop`, `stop`, `join` | VirtualInterface, the UDP socket |
| receiver, sender | `expected`, `gaps`, the events polled; the sequence number | the poll loop, shutdown; the send loop | SimulatedNic; the network |
| baseline_recvfrom | the same counters, without a NIC | one loop: receive a batch, handle it | the socket |
| Hist, LatencyHist | `count_`, `buckets_`, extremes | `add_*`, `percentile_*` | the programs that print latencies |
| Book | levels, orders (pool), free stack, cached best prices | `limit`, `cancel` | book_bench, book_demo |
| StlBook | two maps of levels, a hash map of orders, `next_id_`, `live_` | `limit`, `cancel` | book_bench |
| book_bench, test_ladder_matches_stl | a stack of recorded ids per book | submit, or cancel the last recorded; compare | both books |
| spsc_logger | ring or deque, `done`, counters | hot loop, logger loop, shutdown | ring, mutex |
| store_buffer | `x`, `y`, `r1`, `r2`, two gates | two workers, main | shared atomics only |
| message_passing | a ring of its own, messages of two words, `consumed`, `mismatches` | producer, consumer, the check of each message | the two threads |
| Pool, parsers, batching | single-threaded data | – | – |
| chapters 01, 03, 04, 05 | none that outlives a timed loop | – | – |

What is hard about them:

* **Weak memory and stale views.** A thread of the ring decides on an index
  that may be old; slots are plain memory protected only by release/acquire on
  the *other* thread's index. The tests run on x86, where a relaxed store
  mostly works.
* **A plain array written by two threads.** `ownership_` has no synchronisation
  of its own; it borrows that of the rings, and does so correctly everywhere
  but in one place (section 4, finding 1).
* **"This cannot fail" assumptions** about full rings, made on stale views, with
  the asserts compiled out.
* **Shutdown**: `done`/`empty`, `stop`/`join`/`close`.
* **Long single-threaded histories** in the books: linked lists in a pool,
  recycled ids, cached best prices, modular quantities.

## 2. Modules

| Module | Models | Implements |
| --- | --- | --- |
| `SpscQueue` | what a ring promises: a bounded FIFO queue | |
| `SpscRing` | `try_push`/`try_pop`, one shared access per step | `SpscQueue` |
| `RingObserver` | a third thread that calls `size()` (EXTENDS `SpscRing`) | |
| `LossyChannel` | what the receive path promises: accept or drop, deliver once, in order | |
| `VirtualInterface` | the interface with the application thread and the NIC thread (`dma_or_drop`, `run_fake`) | `LossyChannel` |
| `UdpReceiver` | `receiver.cpp`, `start_udp`/`udp_loop`/`stop`/`join`, the socket, `sender.cpp` | |
| `Hist` | `hft::Hist`, `LatencyHist`: operators and what a percentile tells | |
| `BaselineReceiver` | `baseline_recvfrom.cpp` beside the receiver (EXTENDS `UdpReceiver`, `Hist`) | |
| `PriceTimeBook` | price-time priority | |
| `Lob` | `types.hpp` and what the two books and their properties share | |
| `Book` | the price ladder (EXTENDS `Lob`) | `PriceTimeBook` |
| `StlBook` | the tree-map book (EXTENDS `Lob`) | `PriceTimeBook` |
| `TwoBooks` | `book_bench.cpp` and `test_ladder_matches_stl`: both books (EXTENDS `Book`, `StlBook`) on one tape | |
| `Logger` | `spsc_logger.cpp`, both branches | |
| `StoreBuffer` | `store_buffer.cpp` | |
| `MessagePassing` | `message_passing.cpp`, with `--wrong` 0 and 1 | |
| `SpscRing_proofs`, `VirtualInterface_proofs`, `UdpReceiver_proofs` (with `BaselineReceiver` and `Hist`), `Book_proofs`, `TwoBooks_proofs` (with `StlBook`), `Logger_proofs`, `StoreBuffer_proofs`, `MessagePassing_proofs` | the proofs about the module of that name, whose last part defines its inductive invariant | |

`VirtualInterface` composes two rings, each as the queue that `SpscRing` is
shown to implement; `UdpReceiver` stands on the channel that `VirtualInterface` is
shown to implement under timely marking, and adds what a late mark (finding 1)
does to it; `TwoBooks` composes both books and
their caller. `MC*` modules only name the
specification for TLC; the constants are in the `.cfg` files. A definition that
begins with the name of another and is marked *Mutant* is a broken variant of
it, used by nothing but `mutants`.

### How state and actions correspond to the code

**SpscRing.** An atomic index is its *modification order*, a sequence of stores,
each with the view it releases (how many slot accesses of the storing thread are
sequenced before it). `rSeen`/`wSeen` say which store is the latest to have
become visible to the other thread; `ReadVisible`/`WriteVisible` advance them at
any time, so loads may be arbitrarily stale, but never go back (coherence). An
acquire load takes over the view of the store it reads. `NoDataRace` is then the
C++ definition: an access not ordered after the conflicting one is a race.
`PushLoad` joins two loads of which one is of the thread's own index. Indices
count modulo `Mod`. `size()` changes nothing, so for the two threads it is an
operator: `SizeBySide` says what it returns at any moment to the producer, to
the consumer and, both joined, to main. A third thread may load any store of
either index that is not older than the last it saw; `RingObserver` gives it the
two loads as two steps.

**MessagePassing.** A message is copied word by word, in any order, and
`--wrong 1` swaps the copy and the store of the index. Views are exact here: what
stale views and the wrap of the indices do to this protocol is `SpscRing`'s
subject, whose mutant `TryPushPublishFirst` is the same `--wrong 1`.

**VirtualInterface.** A call is split at its accesses to shared memory:
`post_from` is `Post`/`Repost` (the test of `ownership_`), `PushDesc`,
`SetPosted`, `CountPosted`; `complete_rx` is `SetFilled`, `PushEvent`,
`CountCompleted`; the `memcpy` has a state in which the buffer is torn. A ring
is its queue of entries; an entry carries how many entries of the opposite ring
the pusher had popped, because popping it makes those pops known (`rxKnown`,
`evKnown`), and a push sees any number of pops from there on. An empty ring is
judged more freely than by the code: `NoBuffer` and `PollReturn` may happen with
entries in the ring (they may not be visible yet). This permits more than
coherence does, so it only makes the safety properties stronger.

`ownership_` is plain memory and the store at `virtual_interface.cpp:38` races
with the one at `:95`. That is undefined behaviour; the model takes the outcomes
a build can produce: each store happens once, whole, at some point after it is
reached, and before the next release of its thread. A compiler may also move the
store up, before the release store of `try_push`; nobody reads `ownership_` in
between, so that is the behaviour in which `SetPosted` follows at once.

**UdpReceiver.** The interface is a `LossyChannel` with counters. `Overrun` is
possible even when buffers are free (stale view). `recvmmsg` returns 0 to `Batch`
datagrams or fails for good; the socket may lose anything. A sender restarts the
numbering, and may give up half-way when `sendto` fails (`SendFails`): what it
never sent is no loss. `start_udp` may throw, also after it has set `running_`
and opened the socket.

The race of finding 1 is in. `Serve` ends where `repost` publishes the
descriptor, and `Mark` is the store of `Posted` after it (`virtual_interface.cpp:38`).
A datagram that the NIC completes in between, in that very buffer, is `late`: it
will be polled, but then `data()` returns nullptr. The guard of `receiver.cpp:57` is
the choice between `Read` and `Skip`: a datagram without a readable buffer, or
shorter than `kMinPayload`, is not accounted for, and the event is reposted
all the same. For a late buffer that `repost` fails, `main` ignores the result,
and the buffer is `stuck`. Whether a buffer holds a header at all is `fits`,
chosen at the start: `udp_loop` cuts every datagram to `--payload` bytes, the
sender pads its own to at least `kMinPayload`. The asserts are compiled out.


**BaselineReceiver.** `program` says which of the two programs runs; they share
variables where the code has the same ones (`received` counts what the socket
returned, `completed` is `rx`; `Look` and `fits` are the length test of `handle`).
It has no interface, so nothing is late or stuck. A batch is received in one step and handled one
datagram at a time, while senders go on.

**Hist.** A histogram is a record, `Add` and `Percentile` are operators on it,
and `Brackets` compares a percentile with the sample of that rank. `Largest` is
the value `min_` starts from; the loops are recursive functions (`Halvings`,
`Shifted`, `UpTo`, `Filled`). The rank is exact where the code multiplies
doubles; for 0.5, 0.99 and 0.999 both truncate to the same rank for any count up
to 3,000,000.

**Book, StlBook.** `limit` is `Limit` (to the call of `match`), then per level
`EnterLevel`, one `TakeHead`/`TakeFront` per maker, `LeaveLevel` (with the
tightening), then `EndLimit` (release or rest): one step per trade, so that
every trade is compared with `PriceTimeBook`. The tree's actions have the same
names after `Stl`. Calls that return early change
nothing and are stuttering steps. Quantities are modulo `QtyMod`, in the code
2^32. The trade is compared when it happens, not when `limit` returns.

**TwoBooks.** Each call is made to the ladder and then to the tree; the books
share nothing, so running one tape on one book and then on the other, as
`book_bench` does, gives the same results. The fills of a call are compared when
the tree is about to return, everything else between calls. `CancelResting`
lets the caller cancel out of turn an order that rests (as other tests do);
for an id that may be stale it follows the stack, because that is where the
code's safety comes from: an id released by a fill is reused by the next rest,
which is pushed above the stale entry.

**Logger.** The ring is a queue plus each thread's view of the other index
(`pushesSeen`, `popsSeen`); the acquire load of `done` that returns true brings
all pushes with it. `mode` is `--mutex`/`--drop`.

**StoreBuffer.** x86-TSO: a FIFO store buffer per thread, `xchg` for the seq_cst
store. Stores that a thread makes without a load in between enter its buffer in
one step.

## 3. Runs

| Run | Shows | Bounds |
| --- | --- | --- |
| `spsc_ring` | `NoDataRace`, `InOrder`, `SizeBySide`, the inductive invariant `RingInv` (which holds the type invariant), `ImplementsQueue`, `AllDelivered` | 4 slots, indices modulo 8, 12 items: three laps, the index wraps after the second |
| `ring_size` | finding 3 | 2 slots, indices modulo 8, 4 items |
| `vi` | with the race in: the inductive invariant `InterfaceInv`, `OneOwner`, `PayloadIntact`, `PostNeverFails`, `EventPushNeverFails`, `StatsConserved` | 3 buffers (so the rings, of 4, are larger), 5 packets: buffers recycled, drops anywhere, polls of up to 2 events |
| `vi_timely` | without it: `NoBufferLost`, `PolledIsReadable`, `ImplementsChannel`, `EveryPacketAccounted` | the same |
| `vi_assert` | finding 1 | 2 buffers, 3 packets |
| `book` | the inductive invariant `QInv`, `ListsLinked`, `SlotsPartitioned`, `BestIsBest`, `ImplementsRules`, `LimitReturns` | 2 prices, 3 slots, quantities 1–2: lists of 3, partial fills, sweeps over two levels, full pool |
| `book_overflow` | finding 2 | quantities modulo 4 |
| `two_books` | `SameResults`, `NoStaleHit`, `CopiesAgree`, and `StlImplementsRules`: the rules for the tree, also past the wrap of its quantities | 2 prices, 3 slots, 5 submits with cancels anywhere between: ids are reused twice; the tree's quantities modulo 3 wrap, the ladder's (modulo 16) do not |
| `logger` | `NothingLeft`, `LogInOrder`, `LoggerEnds`, `DropNeverWaits` | ring of 2, 8 records, all modes |
| `store_buffer` | `NotBothZero`, `RoundsApart`, `AllRounds` | 4 rounds, both modes |
| `message_passing` | `WholeMessages`, `PassingEnds` | 2 slots, 6 messages, both orders |
| `udp_receiver` | `SocketOutlivesThread`, `FinalCounts`, `GapsAreLosses`, `PercentilesBracket`, `ReceiverEnds`, for both programs, with the race in | 2 buffers (one or both get stuck), with and without room for a header, batches of 2, 2 senders of 3 datagrams; histograms of up to 6 samples out of {0, 1, 2, 7, 40} in 4 buckets; the largest value is 40 |

Why these bounds are enough: what can go wrong in a ring depends on the distance
of the two indices and on the lap parity, both exhausted by three laps; the
buffers of an interface are symmetric, and an error needs one or two of them
plus one recycling each; in a list, first, middle and last element all occur
with three orders; the samples of a histogram fall below the first boundary, on
one, inside the buckets and beyond the last, and with six of them the ranks of
p50 and p99 differ and are truncated. `two_books` has also been run once with 6
submits (397,316 states). `vi` has also been run once with N = 2 and 6 packets
(rings exactly as large as the pool) and with N = 4 and 5 packets (19.7 million
states).

The inductive invariants that these runs do not check all the time were checked
by the same runs before they were proved: `TimelyInv` of `VirtualInterface` and
the `IInv` of `Logger`, `MessagePassing`, `StoreBuffer` and `UdpReceiver`, `AnyInv`
of `BaselineReceiver`.

Bounds that the code does not have: `Items`, `Packets`, `Iters`, `Submits`,
`MaxQty`, `Senders`, `Count`, `SockCap`, `MaxCount` (at least `Senders * Count`,
`SamplesAssumption`: a histogram of the model holds every datagram), `Samples`.

Deadlock is checked except in `vi`, where the system can really stop: when the
race has lost every buffer, a NIC that waits for one (`run_fake` with
`wait_for_buffer`) spins forever, and TLC reports that state as a deadlock.
`vi_timely` checks deadlock. Programs that end do so in a step of their own that
changes nothing (`Joined`, `TapeEnds`, `Terminated`), so a thread that is stuck
is not mistaken for one that has ended.

**Fairness.** Threads keep running ([intro.progress]): WF on each thread's
actions. A store becomes visible in finite time ([atomics.order]): WF on the
visibility steps and on draining a store buffer. `Book`: a call that was made
goes on; nothing says that further calls are made. `Logger`: the logger's own
fairness is a hypothesis of `LoggerEnds` and absent from `DropNeverWaits`.
`UdpReceiver`: the deadline of `--seconds` passes (SF on `Stop`, since the loop
returns to its test between polls); no failure of `recvmmsg` is ever assumed.
The baseline has the same two: it keeps running and its deadline passes.
`MessagePassing`: both threads keep running.

## 4. Findings

1. **`post_from` marks the buffer too late** (run `vi_assert`).
   `virtual_interface.cpp:35` publishes the descriptor, `:38` then stores
   `Posted`. If the NIC thread pops, copies and reaches `complete_rx` in
   between, the assert at `:92` ("complete_rx on a buffer that was not posted")
   fails; compiled out, `Filled` is overwritten by `Posted`: `data()` returns
   nullptr for an event that was polled, `repost()` fails and the buffer never
   comes back. The receiver then skips the datagram, counts it as a gap when the
   next one comes, and goes on with a buffer less (`udp_receiver`:
   `GapsAreLosses` says by how much its gaps exceed the losses). `vi` shows what
   survives (no double ownership, no torn packet, counters consistent),
   `vi_timely` that all is well if the store is in time, as it would be if it
   came before the push; being without the race, `vi_timely` says nothing of it.
2. **A level's quantity wraps** (run `book_overflow`). `Level::qty` is a
   `uint32_t` sum; at a multiple of 2^32 `match`, `cancel` and `tighten_*` take
   the level for empty while orders rest there (`book.hpp:117`, `:182`, `:201`,
   `:251`), and orders trade or rest through it. The README of the chapter (line 5)
   promises price-time priority, `stl_book.hpp:15` "Same matching rules as
   Book"; StlBook, which tests the list, keeps them (`two_books`).
3. **`size()` is not safe for a third thread** (run `ring_size`).
   `spsc_ring.hpp:92-93` loads `write_`, then `read_`. When an item is pushed and
   popped in between, the difference wraps: nearly 2^64 instead of 0 or 1, and
   `full()` says true. The comment at `:89` calls it "Approximate occupied count.
   Safe for stats". The producer's and the consumer's own calls are fine
   (`SizeBySide`, proved), and no program here calls it from a third thread.

One comment differs from the code without consequence for what is printed: the
comment of `Hist` (`hft/common.hpp:147`) gives bucket i the samples in
[2^(i-1), 2^i), the code gives it [2^i, 2^(i+1)) and prints 2^i. What is printed
is therefore the percentile rounded *down* to a power of two, as
`PercentilesBracket` says; the bucket of the comment is the mutant
`BucketOfComment`, which that property refutes.

## 5. Proofs

The theorems hold for every value of the constants that the modules' own
`ASSUME`s allow, and rest on nothing else, but for two hypotheses that are
written in the theorems: `TimelySpec` (section 4, finding 1) and `NoWrap`
(finding 2). None of the safety properties is inductive as it stands; each
module ends with the invariant that is, in named parts, and each `*_proofs`
module has one lemma per action.

**SpscRing**, for every `Cap`, `Mod` (a multiple of `Cap`, at least twice) and
`Items`:

| Theorem | States |
| --- | --- |
| `Inductive`, `TypeCorrect` | `Spec => []RingInv`, `Spec => []TypeOK` |
| `RaceFree` | `Spec => []NoDataRace` |
| `Fifo` | `Spec => []InOrder` |
| `Bounded` | `Spec => []NeverOverfull` |
| `SizeEstimates` | `Spec => []SizeBySide` |
| `Refinement` | `Spec => ImplementsQueue` |

Nothing in `InOrder` says that the slots hold the right items or that a thread
will not overwrite one. `RingInv` adds
`Indices` (the k-th store of an index is `(k-1) % Mod` and releases k-1
accesses), `InHand` (a thread is ahead of its index by the slot in hand),
`Bounds` (what a thread has *seen* of the other bounds its own index: the heart
of the argument that stale views are harmless) and `Contents` (the window
`loaded .. stored-1` of slots holds those items). The step lemmas use
a few facts on `%`: `(wr - rd) % Mod` is the true distance while that
is at most `Cap` < `Mod`, and items less than `Cap` apart have different slots,
since `Cap` divides `Mod`. The refinement proof reads the window as the queue
(`WindowIsQueue`): `PushPublish` appends, `PopSlot` takes the head, everything
else stutters.

**VirtualInterface**, for every `N`, `RingCap` (its next power of two),
`MaxEvents` and `Packets`:

| Theorem | States |
| --- | --- |
| `VirtualInterfaceInvariant`, `VirtualInterfaceTypeOK` | `Spec => []InterfaceInv`, `Spec => []TypeOK` |
| `BufferOneOwner` | `Spec => []OneOwner` |
| `PacketsIntact` | `Spec => []PayloadIntact` |
| `PostsFit`, `CompletionsFit` | `Spec => []PostNeverFails`, `Spec => []EventPushNeverFails` |
| `CountersAgree` | `Spec => []StatsConserved` |
| `TimelyInvariant` | `TimelySpec => []TimelyInv` |
| `BuffersStay`, `PolledReadable` | `TimelySpec => []NoBufferLost`, `TimelySpec => []PolledIsReadable` |
| `ReceivePathIsLossyChannel` | `TimelySpec => ImplementsChannel` |

The first seven hold with the race of finding 1 left in. The buffers that
circulate stand in one order, the `Circle`: what the application holds, the
queued events, the NIC's buffer, the descriptors. Handing a buffer over only
moves a boundary, posting appends, finishing an event removes the head, and
`Custody` says that no buffer stands there twice. That is the single owner. It
is also the room in the rings, but a ring is judged from a stale view, so
`Knowledge` adds what an entry tells the thread that pops it: a descriptor, of
the events taken before it was posted; an event, of the descriptors popped before
it was completed. With at most N buffers in the circle that is enough for both
"cannot fail" comments. `Payload` says that the packets at the front of the
circle are whole and ordered. `TimelyInv` adds `Marked`: the ownership array
agrees with the circle, which is exactly what the race breaks. The refinement
reads the waiting packets off the front of the circle.

**UdpReceiver**, for every number of buffers, senders and datagrams and every
batch:

| Theorem | States |
| --- | --- |
| `ReceiverInvariant`, `ReceiverTypeOK` | `Spec => []IInv`, `Spec => []TypeOK` |
| `SocketOutlives` | `Spec => []SocketOutlivesThread` |
| `CountsAreFinal` | `Spec => []FinalCounts` |
| `GapsCountLosses` | `Spec => []GapsAreLosses` |

Everything that main has read, the datagrams it polled, the interface, the batch
and the socket are one sequence, the `Stream`. Most steps move a boundary in it;
the facts about it (`Transit`: it is in order, and whatever a sender sent before
one of its members is a member or was missed) concern only sending, losing and
skipping. A datagram is `Missed` if it was lost, or polled but not read: the next
one adds it to `gaps` in either case. `GapCount` compares what main has counted
with the number of datagrams missed before the next one: it counts none twice,
and all of them while the first sender sends. The step that reads a datagram
needs the cardinality of an interval of missed ones (`LossesAdd`), the step that
skips one that it was in the stream and not yet missed (`MissOne`).

These theorems are about the program with the race of finding 1 in, and assume no
timing. What the race costs is `stuck`: a datagram that is skipped although it
holds a header keeps its buffer (`SkipCount`), and stuck buffers leave
circulation. So `gaps` exceeds the losses by the number of buffers stuck at most,
and that is at most the number of buffers, in a run of any length. (With the
buffers too small for a header nothing is ever read and `gaps` stays 0.)

**BaselineReceiver and Hist**, for either program (`AnySpec`, without fairness,
is what the run's specification conjoins with it), any latencies and any number
of buckets:

| Theorem | States |
| --- | --- |
| `EitherInvariant` | `AnySpec => []AnyInv` |
| `EitherClosesSocket` | `AnySpec => []SocketOutlivesThread` |
| `EitherCountsAreFinal` | `AnySpec => []FinalCounts` |
| `EitherCountsLosses` | `AnySpec => []GapsAreLosses` |
| `PercentilesHold` | `AnySpec => []PercentilesBracket` |

`AnyInv` is `IInv` while the receiver runs and `BaselineInv` while the baseline
runs. What both have in common is the `Journey` of the datagrams (`StreamTypeOK`,
`Transit`, `GapCount`, `SkipCount`); the lemmas about sending and reading speak of the
`Journey` only, so they serve both programs.

No step of a program matters to `PercentilesBracket`: it is a fact about
`Percentile` for every sequence of samples (`FilledBrackets`), and the programs
only have to read no more datagrams than `MaxCount` (`ReadsAreFew`: the stream is
in order, so none is read twice). A filled histogram has in each bucket the
number of samples that belong there (`FilledTells`), so the running sum up to a
bucket counts the samples up to it (`UpToCounts`). The sample of rank k has at
most k samples below it and more than k not above it (`RankedIs`). Larger samples
have no smaller buckets, hence the sum passes the rank exactly at that sample's
bucket (`PercentileIs`), and the value of a bucket is the sample rounded down to
a power of two (`BucketHolds`). What the recursive functions compute is shown for
every argument by the least one for which it would fail (`AllUpTo`, from the
well-foundedness of the natural numbers), and that they exist at all by
`StepsExist` and `HalvesExist`.

**Book**, for every band of prices, `MaxOrders`, `MaxQty` and `QtyMod`:

| Theorem | States |
| --- | --- |
| `BookInvariant`, `BookTypeOK` | `Spec => []IInv`, `Spec => []TypeOK` |
| `LevelsAreLists` | `Spec => []ListsLinked` |
| `SlotsInOnePlace` | `Spec => []SlotsPartitioned` |
| `PricesInvariant` | `NoWrap => (Spec => []QInv)` |
| `BestPrices` | `NoWrap => (Spec => []BestIsBest)` |
| `PriceTimePriority` | `NoWrap => (Spec => ImplementsRules)` |

The queue at a price is defined by walking the links, which no step can be
compared with directly. The lemmas therefore speak of queues that the ladder
*holds* (`Holds`): each level is the doubly linked list of its queue, and free
stack, queues and taker hold every slot once. For each call they say which
queues the book holds afterwards (one order appended, dropped, or made smaller);
`QueueIs` then says that the walk finds them. That is induction over the length
of a list. It is done by the least index at which the claim would fail: `Least`
follows from the well-foundedness of the natural numbers, without an induction
theorem that takes a formula as its parameter. The totals of quantities
(`SumsAre`) are treated in the same way.

`NoWrap == MaxOrders * MaxQty < QtyMod` says that all orders together fit the
counter of one level. The code does not enforce it, and `book_overflow` is the run
without it; the slots and lists do not depend on it. With it a level's count is
the total of its orders, so that an empty count means an empty list, `tighten`
finds the best price, and each trade is the one that `PriceTimeBook` makes.

**StlBook**, for every band of prices, `MaxOrders`, `MaxQty`, `StlQtyMod` and
number of orders (`TwoBooks_proofs`):

| Theorem | States |
| --- | --- |
| `StlInvariant`, `StlTypes` | `StlSpec => []StlInv`, `StlSpec => []StlTypeOK` |
| `StlCopiesAgree` | `StlSpec => []CopiesAgree` |
| `StlPriceTimePriority` | `StlSpec => StlImplementsRules` |

There is no `NoWrap` here. The tree asks a level's deque whether orders are left,
never its count, and uses a count for nothing else; the same rules therefore hold of a
`uint32_t` that wraps, where the ladder's fail. What the invariant says of the
maps is one predicate of their value, `MapsHold`: a level's deque has each of its
orders once, every record is queued at its price and side, and the count is the
total of the deque modulo the word. A step changes one level at most
(`SameLevels`), so that there is one lemma for each way in which an order leaves a
level, is filled in part or joins (`OrderLeaves`, `OrderFilled`, `OrderJoins`) and
one for the level that is erased (`LevelErased`). The facts about lists and totals
are the ones that the ladder's proofs use, stated for any set of ids (`Any...`).

**TwoBooks**, for every tape:

| Theorem | States |
| --- | --- |
| `BothRun` | `BothSpec => Spec /\ StlSpec` |
| `NoStaleHits` | `NoWrap => (BothSpec => []NoStaleHit)` |
| `SameOnBoth` | `NoWrap => (BothSpec => []SameResults)` |

By `BothRun` everything proved of either book holds of the pair. For the other two the
proof compares values: a *book* is a queue of orders for every side and price, and
what the taker has left. Two books are `Alike` if they have the same quantities
in the same places; the ids in the same place are `Named` together. The caller's
stacks are `Stacked` over these couples: the *last* entry for a slot in use is
beside the tree's id of the order that is there. That is what survives the reuse
of slots. An older entry for the slot may name somebody else's order, but the
tree's id beside it rests no more, and when such an entry comes to the top no
later entry for its slot is left, so the slot is free (`StackedTop`). `Tied` is both,
and is kept by a trade (`TiedTraded`), an order that rests (`TiedRested`), and a
cancel of an order that rests or has gone (`TiedCut`, `TiedPopped`).

Between calls that is the invariant. During a call the ladder is ahead: it has
made trades that the tree has not. `Coupled` says that the tree's book has a
*course* (`Courses`, `IsCourse`), the books it goes through as it makes those
trades, whose end is `Tied` to the ladder's. The ladder's trade appends to the
course (`CourseGrows`); the tree's can only be the first of it, because the best
price and the head of its queue leave no choice (`TradesOnce`), and takes it off
(`CourseBegins`). When the tree finds nothing more to trade, neither does the
course, which is then over (`CourseOver`): the fills are the same. The counts and best
prices follow from alike books by the invariants of each; the number of live orders by a
one-to-one match of records with slots in use (`PairedOff`). TLC checked the same
invariant, with the course computed, on `two_books` before it was proved.

**Logger** (every `Cap` and `Iters`, all modes):

| Theorem | States |
| --- | --- |
| `LoggerInvariant`, `LoggerTypeOK` | `Spec => []IInv`, `Spec => []TypeOK` |
| `LoggerDrains` | `Spec => []NothingLeft` |
| `LoggerKeepsOrder` | `Spec => []LogInOrder` |

`Handshake`: once the logger has seen `done` nothing more is pushed and all
pushes are visible, so its next look at the ring is exact. `Records`: what has
been pushed is one increasing sequence, of which a pop moves the boundary
between logged and queued.

**StoreBuffer** (every number of rounds):

| Theorem | States |
| --- | --- |
| `DekkerInvariant`, `DekkerTypeOK` | `Spec => []IInv`, `Spec => []TypeOK` |
| `DekkerForbidsZeros` | `Spec => []NotBothZero` |
| `DekkerRoundsApart` | `Spec => []RoundsApart` |

What main has stored since it last compared the results is a fixed script of
stores, and its buffer holds the end of that script (`MainBuffer`). How much of
it has reached memory decides what a gate holds and in which of six *lanes* its
worker is (`Lane`), with what is left in the worker's buffer. `LastSees` is the
classical argument: with seq_cst the worker that loads last finds the other's
flag in memory.

**MessagePassing** (every `Cap` and `Iters`):

| Theorem | States |
| --- | --- |
| `PassingInvariant`, `PassingTypeOK` | `Spec => []IInv`, `Spec => []TypeOK` |
| `MessagesArriveWhole` | `Spec => []WholeMessages` |

`Indices` holds with either order of the stores; `Contents`, the whole messages
between the indices, only with the right one.

**Only model-checked.** All liveness (`AllDelivered`, `EveryPacketAccounted`,
`LimitReturns`, `LoggerEnds`, `DropNeverWaits`, `AllRounds`, `PassingEnds`,
`ReceiverEnds`): out of the prover's
reach. Every invariant and every refinement that a passing run checks is also a
theorem, a few under the provisos named above (`NoWrap`, timely marking).

## 6. Not modelled

* Durations, pinning, cache effects: chapters 01, 03, 04, 05 and the numbers the
  benchmarks print.
* `book_demo`: a fixed script of calls to `Book`, and printing.
* `Pool`: a free stack whose only caller holds one object at a time; `free_` of
  `Book` is the same stack with a real client. `batching`: one thread counts,
  nobody reads the doorbell. `parse`: two loops over a buffer that the program
  has built itself, with records of the right length only. None of them has two
  actors or a state that a step could leave inconsistent.
* `start_udp` again after `stop` without `join`: no caller does it.
* Packet lengths other than whether a header fits (`fits`), datagrams of other
  programs than `sender`, addresses, `--payload 0` (PacketPool's constructor
  throws before anything starts), `Exec` storage, the average that is printed, the wrap of
  StlBook's ids after 2^32 orders.

## 7. Plan

Done, in this order: ring and queue; interface and channel; ladder, rules,
tree book, bench client; logger; store buffer; receiver.

Then: `size()` under a third thread, `message_passing`, both books on one tape,
the baseline receiver, the histograms, a sender that gives up.

Then the proofs of section 5: the ring; the interface; the logger; messages;
the receiver; the store buffers; the ladder; the tree book; both books; the
baseline and the histograms.

Left: the wrap of `StlBook`'s ids, which would need a tape of 2^32 orders.
