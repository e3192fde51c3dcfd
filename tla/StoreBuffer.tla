----------------------------- MODULE StoreBuffer -----------------------------
(***************************************************************************)
(* store_buffer: the Dekker experiment.  In every round the two workers    *)
(* store their own flag (x, y) and then load the other's into r1, r2; main *)
(* starts a round by opening a gate to each worker and reads the results   *)
(* once both have closed theirs.                                           *)
(*                                                                         *)
(* Memory is that of x86: a relaxed or release store enters the FIFO store *)
(* buffer of its thread and reaches memory later, a seq_cst store is an    *)
(* xchg and drains the buffer first; a load takes the youngest store to    *)
(* the location in the thread's own buffer, or else the memory.            *)
(***************************************************************************)
EXTENDS Integers, Sequences

CONSTANT Iters   \* --iters

ASSUME StoreBufferAssumption == Iters \in Nat

Workers == {"a", "b"}
Threads == Workers \cup {"main"}
Idle == 0
Run == 1
Done == 2
Stop == 3

Other(t) == IF t = "a" THEN "b" ELSE "a"

(* The locations: x and y, r1 and r2, gate_a and gate_b. *)
Flag(t) == <<"flag", t>>
Result(t) == <<"result", t>>
Gate(t) == <<"gate", t>>
Locations == {"flag", "result", "gate"} \X Workers

VARIABLES
  seqcst,  \* --seqcst; never changes
  mem,     \* what each location holds
  buf,     \* the store buffers
  pc,      \* where each thread is
  round,   \* rounds main has started
  ran      \* the rounds each worker has run (for the properties only)

vars == <<seqcst, mem, buf, pc, round, ran>>

Init ==
  /\ seqcst \in BOOLEAN
  /\ mem = [l \in Locations |-> 0]
  /\ buf = [t \in Threads |-> << >>]
  /\ pc = [t \in Threads |-> IF t = "main" THEN "start" ELSE "await"]
  /\ round = 0
  /\ ran = [t \in Workers |-> 0]

(* What thread t loads from location l. *)
Load(t, l) ==
  LET own == {k \in DOMAIN buf[t] : buf[t][k].loc = l}
  IN IF own = {} THEN mem[l]
     ELSE buf[t][CHOOSE k \in own : \A j \in own : j <= k].val

(* Thread t makes these stores, <<location, value>> in program order. *)
Stores(t, list) ==
  buf' = [buf EXCEPT ![t] = @ \o [k \in DOMAIN list |-> [loc |-> list[k][1], val |-> list[k][2]]]]

Goto(t, label) == pc' = [pc EXCEPT ![t] = label]
-----------------------------------------------------------------------------
(* worker_a and worker_b. *)

(* The gate is loaded until it is no longer Idle. *)
AwaitRun(t) ==
  /\ pc[t] = "await"
  /\ Load(t, Gate(t)) # Idle
  /\ Goto(t, IF Load(t, Gate(t)) = Stop THEN "stopped" ELSE "store")
  /\ UNCHANGED <<seqcst, mem, buf, round, ran>>

(* Mutant: the store is relaxed in either case. *)
SetFlagRelaxed(t) ==
  /\ pc[t] = "store"
  /\ Stores(t, << <<Flag(t), 1>> >>) /\ UNCHANGED mem
  /\ Goto(t, "load")
  /\ UNCHANGED <<seqcst, round, ran>>

(* x.store(1): seq_cst, or relaxed. *)
SetFlag(t) ==
  /\ pc[t] = "store"
  /\ IF seqcst
     THEN buf[t] = << >> /\ mem' = [mem EXCEPT ![Flag(t)] = 1] /\ UNCHANGED buf
     ELSE Stores(t, << <<Flag(t), 1>> >>) /\ UNCHANGED mem
  /\ Goto(t, "load")
  /\ UNCHANGED <<seqcst, round, ran>>

(* r1.store(y.load(), relaxed), gate_a.store(Done, release) *)
LoadOther(t) ==
  /\ pc[t] = "load"
  /\ Stores(t, << <<Result(t), Load(t, Flag(Other(t)))>>, <<Gate(t), Done>> >>)
  /\ ran' = [ran EXCEPT ![t] = @ + 1]
  /\ Goto(t, "wait")
  /\ UNCHANGED <<seqcst, mem, round>>

(* Mutant: the worker waits for the gate to be Idle, which it may miss. *)
AwaitIdle(t) ==
  /\ pc[t] = "wait"
  /\ Load(t, Gate(t)) = Idle
  /\ Goto(t, "await")
  /\ UNCHANGED <<seqcst, mem, buf, round, ran>>

(* The gate is loaded until it is no longer Done. *)
AwaitReset(t) ==
  /\ pc[t] = "wait"
  /\ Load(t, Gate(t)) # Done
  /\ Goto(t, "await")
  /\ UNCHANGED <<seqcst, mem, buf, round, ran>>

Worker(t) == AwaitRun(t) \/ SetFlag(t) \/ LoadOther(t) \/ AwaitReset(t)
-----------------------------------------------------------------------------
(* main *)

Gates(val) == << <<Gate("a"), val>>, <<Gate("b"), val>> >>

Clear ==
  << <<Flag("a"), 0>>, <<Flag("b"), 0>>, <<Result("a"), 0>>, <<Result("b"), 0>> >>

(* Mutant: the gates are opened before the flags are reset.                *)
StartRoundGatesFirst ==
  /\ pc["main"] = "start" /\ round < Iters
  /\ Stores("main", Gates(Run) \o Clear)
  /\ round' = round + 1
  /\ Goto("main", "wait_a")
  /\ UNCHANGED <<seqcst, mem, ran>>

(* Reset x, y, r1, r2 and open the gates. *)
StartRound ==
  /\ pc["main"] = "start" /\ round < Iters
  /\ Stores("main", Clear \o Gates(Run))
  /\ round' = round + 1
  /\ Goto("main", "wait_a")
  /\ UNCHANGED <<seqcst, mem, ran>>

(* A gate is loaded until it is Done. *)
AwaitDone(t) ==
  /\ pc["main"] = IF t = "a" THEN "wait_a" ELSE "wait_b"
  /\ Load("main", Gate(t)) = Done
  /\ Goto("main", IF t = "a" THEN "wait_b" ELSE "check")
  /\ UNCHANGED <<seqcst, mem, buf, round, ran>>

(* r1 and r2 are loaded and compared; the gates become Idle. *)
EndRound ==
  /\ pc["main"] = "check"
  /\ Stores("main", Gates(Idle))
  /\ Goto("main", "start")
  /\ UNCHANGED <<seqcst, mem, round, ran>>

(* After the last round the gates become Stop, and main joins the workers. *)
StopWorkers ==
  /\ pc["main"] = "start" /\ round = Iters
  /\ Stores("main", Gates(Stop))
  /\ Goto("main", "join")
  /\ UNCHANGED <<seqcst, mem, round, ran>>

Joined == /\ pc["main"] = "join" /\ \A t \in Workers : pc[t] = "stopped"

Main == StartRound \/ (\E t \in Workers : AwaitDone(t)) \/ EndRound \/ StopWorkers
-----------------------------------------------------------------------------
(* The hardware: the oldest store of a buffer reaches memory. *)
Drain(t) ==
  /\ buf[t] # << >>
  /\ mem' = [mem EXCEPT ![Head(buf[t]).loc] = Head(buf[t]).val]
  /\ buf' = [buf EXCEPT ![t] = Tail(@)]
  /\ UNCHANGED <<seqcst, pc, round, ran>>

Terminated == Joined /\ (\A t \in Threads : buf[t] = << >>) /\ UNCHANGED vars

Next ==
  \/ Main
  \/ \E t \in Workers : Worker(t)
  \/ \E t \in Threads : Drain(t)
  \/ Terminated

Spec == Init /\ [][Next]_vars

(* The threads keep running and the buffers drain ([intro.progress],       *)
(* [atomics.order]).                                                       *)
FairSpec ==
  /\ Spec
  /\ WF_vars(Main)
  /\ \A t \in Workers : WF_vars(Worker(t))
  /\ \A t \in Threads : WF_vars(Drain(t))
-----------------------------------------------------------------------------
Entries == [loc : Locations, val : 0 .. 3]

TypeOK ==
  /\ seqcst \in BOOLEAN
  /\ mem \in [Locations -> 0 .. 3]
  /\ buf \in [Threads -> Seq(Entries)]
  /\ pc \in [Threads -> {"start", "wait_a", "wait_b", "check", "join",
                         "await", "store", "load", "wait", "stopped"}]
  /\ round \in 0 .. Iters
  /\ ran \in [Workers -> 0 .. Iters]

(* Both loads returning 0 is "forbidden for seq_cst" (store_buffer.cpp:11).*)
NotBothZero ==
  pc["main"] = "check" /\ seqcst =>
    \E t \in Workers : Load("main", Result(t)) = 1

(* Rounds do not overlap: a worker runs each round once, and a worker that *)
(* sets its flag does so after main has cleared it and before main reads   *)
(* the results, whatever is still in the store buffers.                    *)
RoundsApart ==
  /\ \A t \in Workers :
       /\ pc[t] \in {"store", "load"} => ran[t] = round - 1 /\ pc["main"] \in {"wait_a", "wait_b"}
       /\ pc[t] = "store" => Load(t, Flag(t)) = 0
  /\ pc["main"] = "check" => \A t \in Workers : ran[t] = round

(* Every round ends and the workers stop: neither side misses a gate.      *)
AllRounds == <>(Joined /\ round = Iters)
-----------------------------------------------------------------------------
(* The inductive invariant behind NotBothZero and RoundsApart.             *)

(* Main's stores since the results were last compared.  What its buffer    *)
(* holds is the end of them.                                               *)
Script ==
  Gates(Idle) \o CASE pc["main"] = "start" -> << >>
                   [] pc["main"] = "join"  -> Gates(Stop)
                   [] OTHER                -> Clear \o Gates(Run)

Entry(store) == [loc |-> store[1], val |-> store[2]]

Drained == Len(Script) - Len(buf["main"])

MainBuffer ==
  /\ Drained >= 0
  /\ \A k \in 1 .. Len(buf["main"]) : buf["main"][k] = Entry(Script[Drained + k])

InRound == pc["main"] \in {"wait_a", "wait_b", "check"}

(* Where the two stores to the gate of t are in the script. *)
Closes(t) == IF t = "a" THEN 1 ELSE 2
Opens(t) == Closes(t) + (IF InRound THEN 6 ELSE 2)

(* The lane of t is what its gate holds, with where the worker is, what    *)
(* its buffer holds, and the rounds that it has run.                       *)
LaneIs(t, gate, at, rounds) ==
  /\ mem[Gate(t)] = gate
  /\ pc[t] \in at
  /\ ran[t] = rounds

Past == IF InRound THEN round - 1 ELSE round

(* The gate is Done from the round before ...                              *)
Resting(t) ==
  Drained < Closes(t) /\ LaneIs(t, Done, {"wait"}, Past) /\ buf[t] = << >>

(* ... closed, for the worker to see or to miss ...                        *)
Closed(t) ==
  /\ Closes(t) <= Drained /\ Drained < Opens(t)
  /\ LaneIs(t, Idle, {"wait", "await"}, Past) /\ buf[t] = << >>

(* ... and open for the round, in which the worker runs ...                *)
Running(t) ==
  /\ InRound /\ Opens(t) <= Drained
  /\ LaneIs(t, Run, {"wait", "await", "store", "load"}, round - 1)
  /\ buf[t] = << >> \/ /\ pc[t] = "load" /\ ~ seqcst
                       /\ buf[t] = <<Entry(<<Flag(t), 1>>)>>

(* ... has run, with its stores on their way ...                           *)
Reporting(t) ==
  /\ InRound /\ Opens(t) <= Drained
  /\ LaneIs(t, Run, {"wait"}, round)
  /\ LET n == Len(buf[t])
     IN  /\ n \in 1 .. IF seqcst THEN 2 ELSE 3
         /\ buf[t][n] = Entry(<<Gate(t), Done>>)
         /\ n >= 2 => buf[t][n - 1].loc = Result(t)
         /\ n = 3 => buf[t][1] = Entry(<<Flag(t), 1>>)

(* ... and has been seen to be done.  After the last round the gate is     *)
(* Stop.                                                                   *)
Reported(t) ==
  /\ InRound /\ Opens(t) <= Drained
  /\ LaneIs(t, Done, {"wait"}, round) /\ buf[t] = << >>

Stopped(t) ==
  /\ pc["main"] = "join" /\ Opens(t) <= Drained
  /\ LaneIs(t, Stop, {"wait", "await", "stopped"}, round) /\ buf[t] = << >>

Lane(t) ==
  \/ Resting(t) \/ Closed(t) \/ Running(t)
  \/ Reporting(t) \/ Reported(t) \/ Stopped(t)

MainControl ==
  /\ pc["main"] \in {"start", "wait_a", "wait_b", "check", "join"}
  /\ InRound => round >= 1
  /\ pc["main"] = "wait_b" => Reported("a")
  /\ pc["main"] = "check" => Reported("a") /\ Reported("b")

(* A flag is clear until its worker sets it; if that is an xchg, it is set *)
(* in memory from then on.                                                 *)
Flags(t) ==
  /\ InRound /\ ran[t] = round - 1 /\ pc[t] # "load" /\ Closes(t) + 2 <= Drained =>
       mem[Flag(t)] = 0
  /\ InRound /\ seqcst /\ (pc[t] = "load" \/ ran[t] = round) => mem[Flag(t)] = 1

(* What worker t loaded in this round.                                     *)
Outcome(t) ==
  IF Len(buf[t]) >= 2 THEN buf[t][Len(buf[t]) - 1].val ELSE mem[Result(t)]

(* The worker that loads last finds the flag of the other set.             *)
LastSees ==
  InRound /\ seqcst /\ (\A t \in Workers : ran[t] = round) =>
    \E t \in Workers : Outcome(t) = 1

IInv ==
  /\ TypeOK /\ MainBuffer /\ MainControl /\ LastSees
  /\ \A t \in Workers : Lane(t) /\ Flags(t)
=============================================================================
