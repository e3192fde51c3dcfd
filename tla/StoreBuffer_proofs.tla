------------------------- MODULE StoreBuffer_proofs -------------------------
(***************************************************************************)
(* Theorems about StoreBuffer.  Main's stores since it last compared the   *)
(* results are a fixed script, of which its buffer holds the end; how much *)
(* of it has reached memory says what each gate holds, and with it where   *)
(* each worker is (Lane), whether its flag is clear (Flags) and, with      *)
(* seq_cst, that the worker that loads last sees the other's flag          *)
(* (LastSees).                                                             *)
(***************************************************************************)
EXTENDS StoreBuffer, SequenceTheorems, TLAPS

(* Threads and locations are distinct.                                     *)
LEMMA Names ==
  /\ Workers = {"a", "b"} /\ Threads = {"a", "b", "main"}
  /\ \A t \in Workers : /\ t \in Threads /\ t # "main"
                        /\ Other(t) \in Workers /\ Other(t) # t
                        /\ {Flag(t), Result(t), Gate(t)} \subseteq Locations
  /\ \A t, u \in Workers : /\ Flag(t) # Result(u) /\ Flag(t) # Gate(u) /\ Result(t) # Gate(u)
                           /\ t # u => /\ Flag(t) # Flag(u)
                                       /\ Result(t) # Result(u)
                                       /\ Gate(t) # Gate(u)
  BY DEF Workers, Threads, Other, Flag, Result, Gate, Locations

(* A thread whose buffer has no store to l loads l from memory.            *)
LEMMA LoadsMemory ==
  ASSUME NEW t, NEW l, \A k \in DOMAIN buf[t] : buf[t][k].loc # l
  PROVE  Load(t, l) = mem[l]
<1>1. {k \in DOMAIN buf[t] : buf[t][k].loc = l} = {}
  OBVIOUS
<1>2. QED
  BY <1>1 DEF Load

(* A thread loads its own youngest store to l.                             *)
LEMMA LoadsOwn ==
  ASSUME NEW t, NEW l, NEW n \in Nat, DOMAIN buf[t] = 1 .. n,
         NEW i \in 1 .. n, buf[t][i].loc = l,
         \A j \in i + 1 .. n : buf[t][j].loc # l
  PROVE  Load(t, l) = buf[t][i].val
<1> DEFINE own == {k \in DOMAIN buf[t] : buf[t][k].loc = l}
           P(k) == k \in own /\ \A j \in own : j <= k
<1>1. own \subseteq 1 .. n /\ i \in own
  OBVIOUS
<1>2. P(i)
  <2>1. ASSUME NEW j \in own
        PROVE  j <= i
    <3>1. j \in 1 .. n /\ j \notin i + 1 .. n
      OBVIOUS
    <3>2. QED
      BY <3>1
  <2>2. QED
    BY <1>1, <2>1
<1>3. \A k : P(k) => k = i
  BY <1>1, <1>2
<1> HIDE DEF own
<1>4. (CHOOSE k \in own : \A j \in own : j <= k) = i
  BY <1>2, <1>3
<1>5. own # {}
  BY <1>1
<1>6. QED
  BY <1>4, <1>5 DEF Load, own

(* Sequences end to end, as an operator the provers do not look into.      *)
Cat(s, t) == s \o t

(* The elements of two sequences, end to end.                              *)
LEMMA CatJoins ==
  \A S : \A a, b \in Seq(S) :
    /\ Cat(a, b) \in Seq(S) /\ Len(Cat(a, b)) = Len(a) + Len(b)
    /\ \A k \in 1 .. Len(a) + Len(b) :
         Cat(a, b)[k] = IF k <= Len(a) THEN a[k] ELSE b[k - Len(a)]
<1>1. SUFFICES ASSUME NEW S, NEW a \in Seq(S), NEW b \in Seq(S)
      PROVE  /\ a \o b \in Seq(S) /\ Len(a \o b) = Len(a) + Len(b)
             /\ \A k \in 1 .. Len(a) + Len(b) :
                  (a \o b)[k] = IF k <= Len(a) THEN a[k] ELSE b[k - Len(a)]
  BY DEF Cat
<1>2. QED
  BY ConcatProperties

(* The script of each of main's stages.                                    *)
LEMMA ScriptIs ==
  /\ pc["main"] = "start" => Script = Gates(Idle)
  /\ pc["main"] = "join" => Script = Gates(Idle) \o Gates(Stop)
  /\ InRound => Script = Gates(Idle) \o (Clear \o Gates(Run))
<1>1. Gates(Idle) \o << >> = Gates(Idle)
  <2>1. Gates(Idle) \in Seq(Locations \X Nat)
    BY DEF Gates, Gate, Idle, Locations, Workers
  <2>2. QED
    BY <2>1, ConcatEmptySeq
<1>2. CASE pc["main"] = "start"
  BY <1>1, <1>2 DEF Script, InRound
<1>3. CASE pc["main"] = "join"
  BY <1>3 DEF Script, InRound
<1>4. CASE InRound
  <2>1. pc["main"] # "start" /\ pc["main"] # "join"
    BY <1>4 DEF InRound
  <2>2. QED
    BY <2>1, <1>4 DEF Script
<1>5. QED
  BY <1>2, <1>3, <1>4

(* What the script consists of.                                            *)
LEMMA ScriptStores ==
  /\ pc["main"] = "start" => Len(Script) = 2
  /\ pc["main"] = "join" => /\ Len(Script) = 4
                            /\ Script[3] = <<Gate("a"), Stop>>
                            /\ Script[4] = <<Gate("b"), Stop>>
  /\ InRound => /\ Len(Script) = 8
                /\ Script[3] = <<Flag("a"), 0>> /\ Script[4] = <<Flag("b"), 0>>
                /\ Script[5] = <<Result("a"), 0>> /\ Script[6] = <<Result("b"), 0>>
                /\ Script[7] = <<Gate("a"), Run>> /\ Script[8] = <<Gate("b"), Run>>
  /\ pc["main"] \in {"start", "join"} \/ InRound =>
       Script[1] = <<Gate("a"), Idle>> /\ Script[2] = <<Gate("b"), Idle>>
<1> DEFINE S == Locations \X (0 .. 3)
           i == Gates(Idle)
           s == Gates(Stop)
           c == Clear
           r == Gates(Run)
<1>1. /\ i \in Seq(S) /\ s \in Seq(S) /\ c \in Seq(S) /\ r \in Seq(S)
      /\ Len(i) = 2 /\ Len(s) = 2 /\ Len(c) = 4 /\ Len(r) = 2
  BY DEF Gates, Clear, Gate, Flag, Result, Idle, Stop, Run, Locations, Workers
<1>10. /\ i[1] = <<Gate("a"), Idle>> /\ i[2] = <<Gate("b"), Idle>>
      /\ s[1] = <<Gate("a"), Stop>> /\ s[2] = <<Gate("b"), Stop>>
      /\ c[1] = <<Flag("a"), 0>> /\ c[2] = <<Flag("b"), 0>>
      /\ c[3] = <<Result("a"), 0>> /\ c[4] = <<Result("b"), 0>>
      /\ r[1] = <<Gate("a"), Run>> /\ r[2] = <<Gate("b"), Run>>
  BY DEF Gates, Clear, Gate, Flag, Result, Idle, Stop, Run, Locations, Workers
<1> HIDE DEF i, s, c, r, S
<1> DEFINE cr == Cat(c, r)
           is == Cat(i, s)
           icr == Cat(i, cr)
<1>2. /\ cr \in Seq(S) /\ Len(cr) = 6
      /\ \A k \in 1 .. 6 : cr[k] = IF k <= 4 THEN c[k] ELSE r[k - 4]
  <2>1. c \in Seq(S) /\ r \in Seq(S)
    BY <1>1
  <2>2. /\ cr \in Seq(S) /\ Len(cr) = Len(c) + Len(r)
        /\ \A k \in 1 .. Len(c) + Len(r) :
             cr[k] = IF k <= Len(c) THEN c[k] ELSE r[k - Len(c)]
    BY <2>1, CatJoins
  <2>3. Len(c) = 4 /\ Len(r) = 2
    BY <1>1
  <2>4. QED
    BY <2>2, <2>3
<1> HIDE DEF cr
<1>3. /\ is \in Seq(S) /\ Len(is) = 4
      /\ \A k \in 1 .. 4 : is[k] = IF k <= 2 THEN i[k] ELSE s[k - 2]
  <2>1. i \in Seq(S) /\ s \in Seq(S)
    BY <1>1
  <2>2. /\ is \in Seq(S) /\ Len(is) = Len(i) + Len(s)
        /\ \A k \in 1 .. Len(i) + Len(s) :
             is[k] = IF k <= Len(i) THEN i[k] ELSE s[k - Len(i)]
    BY <2>1, CatJoins
  <2>3. Len(i) = 2 /\ Len(s) = 2
    BY <1>1
  <2>4. QED
    BY <2>2, <2>3
<1>4. /\ icr \in Seq(S) /\ Len(icr) = 8
      /\ \A k \in 1 .. 8 : icr[k] = IF k <= 2 THEN i[k] ELSE cr[k - 2]
  <2>1. i \in Seq(S) /\ cr \in Seq(S)
    BY <1>1, <1>2
  <2>2. /\ icr \in Seq(S) /\ Len(icr) = Len(i) + Len(cr)
        /\ \A k \in 1 .. Len(i) + Len(cr) :
             icr[k] = IF k <= Len(i) THEN i[k] ELSE cr[k - Len(i)]
    BY <2>1, CatJoins
  <2>3. Len(i) = 2 /\ Len(cr) = 6
    BY <1>1, <1>2
  <2>4. QED
    BY <2>2, <2>3
<1> HIDE DEF is, icr
<1>5. /\ is[1] = i[1] /\ is[2] = i[2] /\ is[3] = s[1] /\ is[4] = s[2]
  BY <1>3
<1>6. /\ cr[1] = c[1] /\ cr[2] = c[2] /\ cr[3] = c[3] /\ cr[4] = c[4]
      /\ cr[5] = r[1] /\ cr[6] = r[2]
  BY <1>2
<1>7. /\ icr[1] = i[1] /\ icr[2] = i[2] /\ icr[3] = cr[1] /\ icr[4] = cr[2]
      /\ icr[5] = cr[3] /\ icr[6] = cr[4] /\ icr[7] = cr[5] /\ icr[8] = cr[6]
  BY <1>4
<1>8. Len(is) = 4 /\ Len(icr) = 8
  BY <1>3, <1>4
<1>9. /\ pc["main"] = "start" => Script = i
      /\ pc["main"] = "join" => Script = is
      /\ InRound => Script = icr
  BY ScriptIs DEF i, s, c, r, cr, is, icr, Cat
<1>11. pc["main"] = "start" => /\ Len(Script) = 2 /\ Script[1] = <<Gate("a"), Idle>>
                               /\ Script[2] = <<Gate("b"), Idle>>
  BY <1>1, <1>9, <1>10
<1>12. pc["main"] = "join" => /\ Len(Script) = 4 /\ Script[1] = <<Gate("a"), Idle>>
                              /\ Script[2] = <<Gate("b"), Idle>>
                              /\ Script[3] = <<Gate("a"), Stop>>
                              /\ Script[4] = <<Gate("b"), Stop>>
  BY <1>5, <1>8, <1>9, <1>10
<1>13. InRound =>
         /\ Len(Script) = 8
         /\ Script[1] = <<Gate("a"), Idle>> /\ Script[2] = <<Gate("b"), Idle>>
         /\ Script[3] = <<Flag("a"), 0>> /\ Script[4] = <<Flag("b"), 0>>
         /\ Script[5] = <<Result("a"), 0>> /\ Script[6] = <<Result("b"), 0>>
         /\ Script[7] = <<Gate("a"), Run>> /\ Script[8] = <<Gate("b"), Run>>
  <2>1. SUFFICES ASSUME InRound
        PROVE  /\ Len(icr) = 8
               /\ icr[1] = <<Gate("a"), Idle>> /\ icr[2] = <<Gate("b"), Idle>>
               /\ icr[3] = <<Flag("a"), 0>> /\ icr[4] = <<Flag("b"), 0>>
               /\ icr[5] = <<Result("a"), 0>> /\ icr[6] = <<Result("b"), 0>>
               /\ icr[7] = <<Gate("a"), Run>> /\ icr[8] = <<Gate("b"), Run>>
    BY <1>9
  <2>2. icr[1] = <<Gate("a"), Idle>> /\ icr[2] = <<Gate("b"), Idle>>
    BY <1>7, <1>10
  <2>3. icr[3] = <<Flag("a"), 0>> /\ icr[4] = <<Flag("b"), 0>>
    BY <1>6, <1>7, <1>10
  <2>4. icr[5] = <<Result("a"), 0>> /\ icr[6] = <<Result("b"), 0>>
    BY <1>6, <1>7, <1>10
  <2>5. icr[7] = <<Gate("a"), Run>> /\ icr[8] = <<Gate("b"), Run>>
    BY <1>6, <1>7, <1>10
  <2>6. QED
    BY <1>8, <2>2, <2>3, <2>4, <2>5
<1>14. QED
  BY <1>11, <1>12, <1>13
-----------------------------------------------------------------------------
(* What the steps do to the buffers.                                       *)

Pairs == Locations \X (0 .. 3)

(* The stores of a thread enter its buffer behind those it holds.          *)
LEMMA Enqueue ==
  ASSUME TypeOK, NEW t \in Threads, NEW list \in Seq(Pairs), Stores(t, list)
  PROVE  /\ buf' \in [Threads -> Seq(Entries)]
         /\ \A u \in Threads : u # t => buf'[u] = buf[u]
         /\ Len(buf'[t]) = Len(buf[t]) + Len(list)
         /\ \A k \in 1 .. Len(buf[t]) : buf'[t][k] = buf[t][k]
         /\ \A k \in 1 .. Len(list) : buf'[t][Len(buf[t]) + k] = Entry(list[k])
<1> DEFINE new == [k \in DOMAIN list |-> [loc |-> list[k][1], val |-> list[k][2]]]
<1>1. new \in Seq(Entries) /\ Len(new) = Len(list)
      /\ \A k \in 1 .. Len(list) : new[k] = Entry(list[k])
  <2>1. DOMAIN list = 1 .. Len(list) /\ Len(list) \in Nat
    OBVIOUS
  <2>2. \A k \in DOMAIN list : list[k] \in Pairs
    OBVIOUS
  <2>3. \A k \in DOMAIN list : new[k] = Entry(list[k]) /\ new[k] \in Entries
    BY <2>2 DEF Entries, Pairs, Entry
  <2>4. new \in [1 .. Len(list) -> Entries]
    BY <2>1, <2>3
  <2> HIDE DEF new
  <2>5. new \in Seq(Entries)
    BY <2>1, <2>4 DEF Seq
  <2>6. Len(new) = Len(list)
    BY <2>1, <2>4, <2>5, LenProperties
  <2>7. QED
    BY <2>1, <2>3, <2>5, <2>6
<1>2. buf \in [Threads -> Seq(Entries)]
  BY DEF TypeOK
<1> HIDE DEF new
<1>3. buf' = [buf EXCEPT ![t] = Cat(@, new)]
  BY DEF Stores, Cat, new
<1>4. buf[t] \in Seq(Entries)
  BY <1>2
<1>5. /\ Cat(buf[t], new) \in Seq(Entries)
      /\ Len(Cat(buf[t], new)) = Len(buf[t]) + Len(new)
      /\ \A k \in 1 .. Len(buf[t]) + Len(new) :
           Cat(buf[t], new)[k] = IF k <= Len(buf[t]) THEN buf[t][k] ELSE new[k - Len(buf[t])]
  BY <1>1, <1>4, CatJoins
<1>6. buf'[t] = Cat(buf[t], new) /\ \A u \in Threads : u # t => buf'[u] = buf[u]
  BY <1>2, <1>3
<1>7. buf' \in [Threads -> Seq(Entries)]
  BY <1>2, <1>3, <1>5
<1>8. Len(buf'[t]) = Len(buf[t]) + Len(list)
  BY <1>1, <1>5, <1>6
<1>9. Len(buf[t]) \in Nat /\ Len(list) \in Nat
  BY <1>4
<1>10. ASSUME NEW k \in 1 .. Len(buf[t])
       PROVE  buf'[t][k] = buf[t][k]
  <2>1. k \in 1 .. Len(buf[t]) + Len(new) /\ k <= Len(buf[t])
    BY <1>1, <1>9
  <2>2. QED
    BY <1>5, <1>6, <2>1
<1>11. ASSUME NEW k \in 1 .. Len(list)
       PROVE  buf'[t][Len(buf[t]) + k] = Entry(list[k])
  <2>1. /\ Len(buf[t]) + k \in 1 .. Len(buf[t]) + Len(new)
        /\ ~ (Len(buf[t]) + k <= Len(buf[t])) /\ (Len(buf[t]) + k) - Len(buf[t]) = k
    BY <1>1, <1>9
  <2>2. buf'[t][Len(buf[t]) + k] = new[k]
    BY <1>5, <1>6, <2>1
  <2>3. QED
    BY <1>1, <2>2
<1>12. QED
  BY <1>6, <1>7, <1>8, <1>10, <1>11

(* A drain takes the oldest store out of the buffer of its thread.         *)
LEMMA Dequeue ==
  ASSUME TypeOK, NEW t \in Threads, Drain(t)
  PROVE  /\ buf' \in [Threads -> Seq(Entries)]
         /\ mem' = [mem EXCEPT ![buf[t][1].loc] = buf[t][1].val]
         /\ mem' \in [Locations -> 0 .. 3]
         /\ \A u \in Threads : u # t => buf'[u] = buf[u]
         /\ Len(buf[t]) \in Nat \ {0} /\ Len(buf'[t]) = Len(buf[t]) - 1
         /\ \A k \in 1 .. Len(buf[t]) - 1 : buf'[t][k] = buf[t][k + 1]
<1>1. buf \in [Threads -> Seq(Entries)] /\ buf[t] \in Seq(Entries) /\ buf[t] # << >>
  BY DEF TypeOK, Drain
<1>2. \A S : \A s \in Seq(S) : s # << >> =>
        /\ Head(s) = s[1] /\ s[1] \in S /\ Tail(s) \in Seq(S)
        /\ Len(s) \in Nat \ {0} /\ Len(Tail(s)) = Len(s) - 1
        /\ \A k \in 1 .. Len(s) - 1 : Tail(s)[k] = s[k + 1]
  <2>1. SUFFICES ASSUME NEW S, NEW s \in Seq(S), s # << >>
        PROVE  /\ Head(s) = s[1] /\ s[1] \in S /\ Tail(s) \in Seq(S)
               /\ Len(s) \in Nat \ {0} /\ Len(Tail(s)) = Len(s) - 1
               /\ \A k \in 1 .. Len(s) - 1 : Tail(s)[k] = s[k + 1]
    OBVIOUS
  <2>2. Head(s) = s[1] /\ Len(s) \in Nat \ {0}
    BY <2>1, EmptySeq
  <2>3. s[1] \in S
    BY <2>2, ElementOfSeq
  <2>4. /\ Tail(s) \in Seq(S) /\ Len(Tail(s)) = Len(s) - 1
        /\ \A k \in 1 .. Len(Tail(s)) : Tail(s)[k] = s[k + 1]
    BY <2>1, HeadTailProperties
  <2>5. QED
    BY <2>2, <2>3, <2>4
<1>3. /\ Head(buf[t]) = buf[t][1] /\ buf[t][1] \in Entries /\ Tail(buf[t]) \in Seq(Entries)
      /\ Len(buf[t]) \in Nat \ {0} /\ Len(Tail(buf[t])) = Len(buf[t]) - 1
      /\ \A k \in 1 .. Len(buf[t]) - 1 : Tail(buf[t])[k] = buf[t][k + 1]
  BY <1>1, <1>2
<1>4. buf' = [buf EXCEPT ![t] = Tail(@)]
  BY DEF Drain
<1>5. buf'[t] = Tail(buf[t]) /\ \A u \in Threads : u # t => buf'[u] = buf[u]
  BY <1>1, <1>4
<1>6. buf' \in [Threads -> Seq(Entries)]
  BY <1>1, <1>3, <1>4
<1>7. mem' = [mem EXCEPT ![buf[t][1].loc] = buf[t][1].val]
  BY <1>3 DEF Drain
<1>8. mem' \in [Locations -> 0 .. 3]
  BY <1>3, <1>7 DEF TypeOK, Entries
<1>9. QED
  BY <1>3, <1>5, <1>6, <1>7, <1>8

-----------------------------------------------------------------------------
(* What the invariant of a worker depends on.                              *)

(* A step that main takes no part in leaves its buffer and its script.     *)
LEMMA MainSame ==
  ASSUME pc'["main"] = pc["main"], buf'["main"] = buf["main"]
  PROVE  Script' = Script /\ Drained' = Drained /\ InRound' = InRound /\ MainBuffer' = MainBuffer
<1>1. Script' = Script
  BY DEF Script
<1>2. Drained' = Drained
  BY <1>1 DEF Drained
<1>3. QED
  BY <1>1, <1>2 DEF InRound, MainBuffer

(* A lane is about main's place, the gate, the worker and its buffer.      *)
LEMMA LaneSame ==
  ASSUME NEW t \in Workers, Lane(t),
         Drained' = Drained, InRound' <=> InRound,
         pc'["main"] = "join" <=> pc["main"] = "join",
         seqcst' = seqcst, round' = round, mem'[Gate(t)] = mem[Gate(t)],
         pc'[t] = pc[t], buf'[t] = buf[t], ran'[t] = ran[t]
  PROVE  Lane(t)'
<1>1. Opens(t)' = Opens(t) /\ Past' = Past
  BY DEF Opens, Past, Closes
<1>2. CASE Resting(t)
  BY <1>1, <1>2 DEF Lane, Resting, LaneIs, Closes
<1>3. CASE Closed(t)
  BY <1>1, <1>3 DEF Lane, Closed, LaneIs, Closes
<1>4. CASE Running(t)
  BY <1>1, <1>4 DEF Lane, Running, LaneIs, Closes
<1>5. CASE Reporting(t)
  BY <1>1, <1>5 DEF Lane, Reporting, LaneIs, Closes
<1>6. CASE Reported(t)
  BY <1>1, <1>6 DEF Lane, Reported, LaneIs, Closes
<1>7. CASE Stopped(t)
  BY <1>1, <1>7 DEF Lane, Stopped, LaneIs, Closes
<1>8. QED
  BY <1>2, <1>3, <1>4, <1>5, <1>6, <1>7 DEF Lane

(* A step of worker t alone keeps the invariant if it keeps that of t.     *)
LEMMA WorkerKeeps ==
  ASSUME IInv, NEW t \in Workers,
         seqcst' = seqcst, round' = round,
         \A u \in Threads : u # t => pc'[u] = pc[u] /\ buf'[u] = buf[u],
         \A u \in Workers : u # t => /\ ran'[u] = ran[u]
                                     /\ mem'[Gate(u)] = mem[Gate(u)]
                                     /\ mem'[Flag(u)] = mem[Flag(u)],
         ~ Reported(t),
         TypeOK', Lane(t)', Flags(t)', LastSees'
  PROVE  IInv'
<1>1. pc'["main"] = pc["main"] /\ buf'["main"] = buf["main"]
  BY Names
<1>2. Drained' = Drained /\ InRound' = InRound /\ MainBuffer'
  BY <1>1, MainSame DEF IInv
<1>3. ASSUME NEW u \in Workers, u # t
      PROVE  /\ pc'[u] = pc[u] /\ buf'[u] = buf[u] /\ ran'[u] = ran[u]
             /\ mem'[Gate(u)] = mem[Gate(u)] /\ mem'[Flag(u)] = mem[Flag(u)]
  BY <1>3, Names
<1>4. ASSUME NEW u \in Workers
      PROVE  Lane(u)' /\ Flags(u)'
  <2>1. CASE u = t
    BY <2>1
  <2>2. CASE u # t
    <3>1. Lane(u) /\ Flags(u)
      BY DEF IInv
    <3>2. Lane(u)'
      BY <1>1, <1>2, <1>3, <2>2, <3>1, LaneSame
    <3>3. Flags(u)'
      BY <1>2, <1>3, <2>2, <3>1 DEF Flags, Closes
    <3>4. QED
      BY <3>2, <3>3
  <2>3. QED
    BY <2>1, <2>2
<1>5. ASSUME NEW u \in Workers, Reported(u)
      PROVE  Reported(u)'
  <2>1. u # t
    BY <1>5
  <2>2. QED
    BY <1>2, <1>3, <1>5, <2>1 DEF Reported, LaneIs, Opens, Closes
<1>6. MainControl'
  BY <1>1, <1>2, <1>5, Names DEF IInv, MainControl
<1>7. QED
  BY <1>2, <1>4, <1>6 DEF IInv

(* A worker whose buffer is empty loads the memory.                        *)
LEMMA EmptyLoads ==
  ASSUME NEW t, NEW l, buf[t] = << >>
  PROVE  Load(t, l) = mem[l]
<1>1. DOMAIN buf[t] = {}
  OBVIOUS
<1>2. QED
  BY <1>1, LoadsMemory

-----------------------------------------------------------------------------
(* The steps of the workers.                                               *)

(* A worker that finds its gate open runs, and one that finds it at Stop   *)
(* ends.                                                                   *)
LEMMA AwaitRunKeeps ==
  ASSUME IInv, NEW t \in Workers, AwaitRun(t)
  PROVE  IInv'
<1>1. /\ pc[t] = "await" /\ Load(t, Gate(t)) # Idle
      /\ pc' = [pc EXCEPT ![t] = IF Load(t, Gate(t)) = Stop THEN "stopped" ELSE "store"]
      /\ seqcst' = seqcst /\ mem' = mem /\ buf' = buf /\ round' = round /\ ran' = ran
  BY DEF AwaitRun, Goto
<1>2. TypeOK /\ Lane(t) /\ Flags(t) /\ LastSees
  BY DEF IInv
<1>3. pc \in [Threads -> {"start", "wait_a", "wait_b", "check", "join",
                          "await", "store", "load", "wait", "stopped"}]
  BY <1>2 DEF TypeOK
<1>4. /\ pc'[t] = IF Load(t, Gate(t)) = Stop THEN "stopped" ELSE "store"
      /\ \A u \in Threads : u # t => pc'[u] = pc[u]
  BY <1>1, <1>3, Names
<1>5. pc' \in [Threads -> {"start", "wait_a", "wait_b", "check", "join",
                           "await", "store", "load", "wait", "stopped"}]
  BY <1>1, <1>3
<1>6. TypeOK'
  BY <1>1, <1>2, <1>5 DEF TypeOK
<1>7. buf[t] = << >> /\ ~ Resting(t) /\ ~ Reporting(t) /\ ~ Reported(t)
  BY <1>1, <1>2 DEF Lane, Resting, Closed, Running, Reporting, Reported, Stopped, LaneIs
<1>8. Load(t, Gate(t)) = mem[Gate(t)]
  BY <1>7, EmptyLoads
<1>9. pc'["main"] = pc["main"]
  BY <1>4, Names
<1>10. Drained' = Drained /\ InRound' = InRound
  BY <1>1, <1>9, MainSame
<1>11. ~ Closed(t)
  BY <1>1, <1>8 DEF Closed, LaneIs
<1>12. ASSUME Running(t)
       PROVE  Lane(t)' /\ Flags(t)'
  <2>1. pc'[t] = "store"
    BY <1>4, <1>8, <1>12 DEF Running, LaneIs, Run, Stop
  <2>2. Running(t)'
    BY <1>1, <1>7, <1>10, <1>12, <2>1 DEF Running, LaneIs, Opens, Closes
  <2>3. Flags(t)'
    BY <1>1, <1>2, <1>10, <2>1 DEF Flags, Closes
  <2>4. QED
    BY <2>2, <2>3 DEF Lane
<1>13. ASSUME Stopped(t)
       PROVE  Lane(t)' /\ Flags(t)'
  <2>1. pc'[t] = "stopped"
    BY <1>4, <1>8, <1>13 DEF Stopped, LaneIs
  <2>2. Stopped(t)'
    BY <1>1, <1>9, <1>10, <1>13, <2>1 DEF Stopped, LaneIs, Opens, Closes
  <2>3. Flags(t)'
    BY <1>1, <1>2, <1>10, <2>1 DEF Flags, Closes
  <2>4. QED
    BY <2>2, <2>3 DEF Lane
<1>14. Lane(t)' /\ Flags(t)'
  BY <1>2, <1>7, <1>11, <1>12, <1>13 DEF Lane
<1>15. LastSees'
  BY <1>1, <1>2, <1>10 DEF LastSees, Outcome
<1>16. QED
  BY <1>1, <1>4, <1>6, <1>7, <1>14, <1>15, WorkerKeeps

(* A worker that finds its gate no longer at Done waits for the next round.*)
LEMMA AwaitResetKeeps ==
  ASSUME IInv, NEW t \in Workers, AwaitReset(t)
  PROVE  IInv'
<1>1. /\ pc[t] = "wait" /\ Load(t, Gate(t)) # Done
      /\ pc' = [pc EXCEPT ![t] = "await"]
      /\ seqcst' = seqcst /\ mem' = mem /\ buf' = buf /\ round' = round /\ ran' = ran
  BY DEF AwaitReset, Goto
<1>2. TypeOK /\ Lane(t) /\ Flags(t) /\ LastSees
  BY DEF IInv
<1>3. pc \in [Threads -> {"start", "wait_a", "wait_b", "check", "join",
                          "await", "store", "load", "wait", "stopped"}]
  BY <1>2 DEF TypeOK
<1>4. pc'[t] = "await" /\ \A u \in Threads : u # t => pc'[u] = pc[u]
  BY <1>1, <1>3, Names
<1>5. pc' \in [Threads -> {"start", "wait_a", "wait_b", "check", "join",
                           "await", "store", "load", "wait", "stopped"}]
  BY <1>1, <1>3
<1>6. TypeOK'
  BY <1>1, <1>2, <1>5 DEF TypeOK
<1>7. pc'["main"] = pc["main"]
  BY <1>4, Names
<1>8. Drained' = Drained /\ InRound' = InRound
  BY <1>1, <1>7, MainSame
<1>9. ~ Resting(t) /\ ~ Reported(t)
  BY <1>1, EmptyLoads DEF Resting, Reported, LaneIs
<1>10. ~ Reporting(t)
  <2>1. SUFFICES ASSUME Reporting(t)
        PROVE  FALSE
    OBVIOUS
  <2> DEFINE n == Len(buf[t])
  <2>2. n \in Nat /\ n \in 1 .. n /\ DOMAIN buf[t] = 1 .. n
    BY <1>2, <2>1, Names DEF TypeOK, Reporting
  <2>3. buf[t][n].loc = Gate(t) /\ buf[t][n].val = Done
    BY <2>1 DEF Reporting, Entry
  <2>4. n + 1 .. n = {}
    BY <2>2
  <2> HIDE DEF n
  <2>5. Load(t, Gate(t)) = Done
    BY <2>2, <2>3, <2>4, LoadsOwn
  <2>6. QED
    BY <1>1, <2>5
<1>11. ASSUME Closed(t)
       PROVE  Lane(t)'
  BY <1>1, <1>4, <1>8, <1>11 DEF Lane, Closed, LaneIs, Opens, Closes, Past
<1>12. ASSUME Running(t)
       PROVE  Lane(t)'
  BY <1>1, <1>4, <1>8, <1>12 DEF Lane, Running, LaneIs, Opens, Closes
<1>13. ASSUME Stopped(t)
       PROVE  Lane(t)'
  BY <1>1, <1>4, <1>7, <1>8, <1>13 DEF Lane, Stopped, LaneIs, Opens, Closes
<1>14. Lane(t)'
  BY <1>2, <1>9, <1>10, <1>11, <1>12, <1>13 DEF Lane
<1>15. Flags(t)'
  BY <1>1, <1>2, <1>4, <1>8 DEF Flags, Closes
<1>16. LastSees'
  BY <1>1, <1>2, <1>8 DEF LastSees, Outcome
<1>17. QED
  BY <1>1, <1>4, <1>6, <1>9, <1>14, <1>15, <1>16, WorkerKeeps

Labels == {"start", "wait_a", "wait_b", "check", "join",
           "await", "store", "load", "wait", "stopped"}

(* A worker moves to another label.                                        *)
LEMMA Moves ==
  ASSUME TypeOK, NEW t \in Workers, NEW label \in Labels, Goto(t, label)
  PROVE  /\ pc' \in [Threads -> Labels] /\ pc'[t] = label
         /\ \A u \in Threads : u # t => pc'[u] = pc[u]
         /\ pc'["main"] = pc["main"]
<1>1. pc \in [Threads -> Labels] /\ pc' = [pc EXCEPT ![t] = label]
  BY DEF TypeOK, Labels, Goto
<1>2. t \in Threads /\ "main" \in Threads /\ t # "main"
  BY Names
<1>3. QED
  BY <1>1, <1>2

(* A sequence of one element.                                              *)
LEMMA Single ==
  ASSUME NEW S, NEW s \in Seq(S), Len(s) = 1
  PROVE  s = <<s[1]>>
<1>1. s \in [1 .. Len(s) -> S] /\ DOMAIN s = 1 .. Len(s)
  BY LenProperties
<1>2. QED
  BY <1>1

(* The flag of t is set in memory, or is the only store in its buffer.     *)
LEMMA SetFlagKeeps ==
  ASSUME IInv, NEW t \in Workers, SetFlag(t)
  PROVE  IInv'
<1>1. /\ pc[t] = "store" /\ Goto(t, "load")
      /\ seqcst' = seqcst /\ round' = round /\ ran' = ran
  BY DEF SetFlag
<1>2. TypeOK /\ Lane(t) /\ Flags(t)
  BY DEF IInv
<1>3. /\ pc' \in [Threads -> Labels] /\ pc'[t] = "load"
      /\ \A u \in Threads : u # t => pc'[u] = pc[u]
      /\ pc'["main"] = pc["main"]
  BY <1>1, <1>2, Moves DEF Labels
<1>4. Running(t) /\ ~ Reported(t) /\ buf[t] = << >>
  BY <1>1, <1>2 DEF Lane, Resting, Closed, Running, Reporting, Reported, Stopped, LaneIs
<1>5. /\ InRound /\ Opens(t) <= Drained /\ mem[Gate(t)] = Run
      /\ ran[t] = round - 1
  BY <1>4 DEF Running, LaneIs
<1>6. CASE seqcst
  <2>1. buf' = buf /\ mem' = [mem EXCEPT ![Flag(t)] = 1]
    BY <1>6 DEF SetFlag
  <2>2. mem \in [Locations -> 0 .. 3]
    BY <1>2 DEF TypeOK
  <2>3. Flag(t) \in Locations
    BY Names
  <2>4. mem' \in [Locations -> 0 .. 3] /\ mem'[Flag(t)] = 1
        /\ \A l \in Locations : l # Flag(t) => mem'[l] = mem[l]
    BY <2>1, <2>2, <2>3
  <2>5. \A u \in Workers : /\ mem'[Gate(u)] = mem[Gate(u)]
                           /\ u # t => mem'[Flag(u)] = mem[Flag(u)]
    BY <2>4, Names
  <2>6. TypeOK'
    BY <1>1, <1>2, <1>3, <2>1, <2>4 DEF TypeOK, Labels
  <2>7. Drained' = Drained /\ InRound' = InRound
    BY <1>3, <2>1, MainSame
  <2>8. Lane(t)'
    BY <1>1, <1>3, <1>4, <1>5, <2>1, <2>5, <2>7 DEF Lane, Running, LaneIs, Opens, Closes
  <2>9. Flags(t)'
    BY <1>3, <2>4 DEF Flags
  <2>10. ran'[t] # round'
    BY <1>1, <1>2, <1>5 DEF TypeOK
  <2>11. LastSees'
    BY <2>10 DEF LastSees
  <2>12. QED
    BY <1>1, <1>3, <1>4, <2>1, <2>5, <2>6, <2>8, <2>9, <2>11, WorkerKeeps
<1>7. CASE ~ seqcst
  <2> DEFINE list == << <<Flag(t), 1>> >>
  <2>1. Stores(t, list) /\ mem' = mem
    BY <1>7 DEF SetFlag
  <2>2. list \in Seq(Pairs) /\ Len(list) = 1 /\ list[1] = <<Flag(t), 1>>
    BY Names DEF Pairs
  <2> HIDE DEF list
  <2>3. /\ buf' \in [Threads -> Seq(Entries)]
        /\ \A u \in Threads : u # t => buf'[u] = buf[u]
        /\ Len(buf'[t]) = Len(buf[t]) + Len(list)
        /\ \A k \in 1 .. Len(list) : buf'[t][Len(buf[t]) + k] = Entry(list[k])
    BY <1>2, <2>1, <2>2, Names, Enqueue
  <2>4. Len(buf[t]) = 0
    BY <1>4
  <2>5. Len(buf'[t]) = 1 /\ buf'[t][1] = Entry(<<Flag(t), 1>>)
    BY <2>2, <2>3, <2>4
  <2>6. buf'[t] = <<Entry(<<Flag(t), 1>>)>>
    BY <2>3, <2>5, Names, Single
  <2>7. TypeOK'
    BY <1>1, <1>2, <1>3, <2>1, <2>3 DEF TypeOK, Labels
  <2>8. buf'["main"] = buf["main"]
    BY <2>3, Names
  <2>9. Drained' = Drained /\ InRound' = InRound
    BY <1>3, <2>8, MainSame
  <2>10. Opens(t)' = Opens(t)
    BY <2>9 DEF Opens, Closes
  <2>11. Running(t)'
    BY <1>1, <1>3, <1>5, <1>7, <2>1, <2>6, <2>9, <2>10 DEF Running, LaneIs, Entry, Flag
  <2>12. Lane(t)'
    BY <2>11 DEF Lane
  <2>13. Flags(t)'
    BY <1>1, <1>3, <1>7 DEF Flags
  <2>14. ran'[t] # round'
    BY <1>1, <1>2, <1>5 DEF TypeOK
  <2>15. LastSees'
    BY <2>14 DEF LastSees
  <2>16. QED
    BY <1>1, <1>3, <1>4, <2>1, <2>3, <2>7, <2>12, <2>13, <2>15, WorkerKeeps
<1>8. QED
  BY <1>6, <1>7

(* A worker loads the other's flag from memory, and what it stores of it   *)
(* and of its gate is the end of its buffer.                               *)
LEMMA LoadOtherKeeps ==
  ASSUME IInv, NEW t \in Workers, LoadOther(t)
  PROVE  IInv'
<1> DEFINE v == Load(t, Flag(Other(t)))
           list == << <<Result(t), v>>, <<Gate(t), Done>> >>
<1>1. /\ pc[t] = "load" /\ Goto(t, "wait") /\ Stores(t, list)
      /\ ran' = [ran EXCEPT ![t] = @ + 1]
      /\ seqcst' = seqcst /\ mem' = mem /\ round' = round
  BY DEF LoadOther
<1>2. TypeOK /\ Lane(t) /\ Flags(t)
  BY DEF IInv
<1>3. /\ pc' \in [Threads -> Labels] /\ pc'[t] = "wait"
      /\ \A u \in Threads : u # t => pc'[u] = pc[u]
      /\ pc'["main"] = pc["main"]
  BY <1>1, <1>2, Moves DEF Labels
<1>4. Running(t) /\ ~ Reported(t)
  BY <1>1, <1>2 DEF Lane, Resting, Closed, Running, Reporting, Reported, Stopped, LaneIs
<1>5. /\ InRound /\ Opens(t) <= Drained /\ mem[Gate(t)] = Run
      /\ ran[t] = round - 1
      /\ \/ buf[t] = << >>
         \/ ~ seqcst /\ buf[t] = <<Entry(<<Flag(t), 1>>)>>
  BY <1>4 DEF Running, LaneIs
<1> DEFINE n == Len(buf[t])
<1>6. \/ n = 0
      \/ n = 1 /\ ~ seqcst /\ buf[t][1] = Entry(<<Flag(t), 1>>)
  <2>1. CASE buf[t] = << >>
    BY <2>1
  <2>2. CASE buf[t] = <<Entry(<<Flag(t), 1>>)>> /\ ~ seqcst
    <3>1. \A e : Len(<<e>>) = 1 /\ <<e>>[1] = e
      OBVIOUS
    <3>2. QED
      BY <2>2, <3>1
  <2>3. QED
    BY <1>5, <2>1, <2>2
<1>7. v = mem[Flag(Other(t))]
  <2>1. \A k \in DOMAIN buf[t] : buf[t][k].loc = Flag(t)
    <3>1. DOMAIN buf[t] = 1 .. n
      BY <1>2, Names DEF TypeOK
    <3>2. \A k \in DOMAIN buf[t] : k = 1 /\ n = 1
      <4>1. n = 0 \/ n = 1
        BY <1>6
      <4> HIDE DEF n
      <4>2. \A k \in 1 .. n : k = 1 /\ n = 1
        BY <4>1
      <4>3. QED
        BY <3>1, <4>2
    <3>3. n = 1 => buf[t][1].loc = Flag(t)
      BY <1>6 DEF Entry
    <3>4. QED
      BY <3>2, <3>3
  <2>2. Flag(t) # Flag(Other(t))
    BY Names
  <2>3. QED
    BY <2>1, <2>2, LoadsMemory
<1>8. v \in 0 .. 3
  BY <1>2, <1>7, Names DEF TypeOK
<1> HIDE DEF v
<1>9. list \in Seq(Pairs) /\ Len(list) = 2
  BY <1>8, Names DEF Pairs, Done
<1>10. list[1] = <<Result(t), v>> /\ list[2] = <<Gate(t), Done>>
  OBVIOUS
<1> HIDE DEF list
<1>11. /\ buf' \in [Threads -> Seq(Entries)]
       /\ \A u \in Threads : u # t => buf'[u] = buf[u]
       /\ Len(buf'[t]) = n + 2
       /\ \A k \in 1 .. n : buf'[t][k] = buf[t][k]
       /\ \A k \in 1 .. 2 : buf'[t][n + k] = Entry(list[k])
  <2>1. /\ buf' \in [Threads -> Seq(Entries)]
        /\ \A u \in Threads : u # t => buf'[u] = buf[u]
        /\ Len(buf'[t]) = n + Len(list)
        /\ \A k \in 1 .. n : buf'[t][k] = buf[t][k]
        /\ \A k \in 1 .. Len(list) : buf'[t][n + k] = Entry(list[k])
    <3>1. t \in Threads /\ list \in Seq(Pairs) /\ Stores(t, list)
      BY <1>1, <1>9, Names
    <3>2. QED
      BY <1>2, <3>1, Enqueue
  <2>2. QED
    BY <1>9, <2>1
<1>12. /\ buf'[t][n + 1] = Entry(<<Result(t), v>>)
       /\ buf'[t][n + 2] = Entry(<<Gate(t), Done>>)
  <2>1. buf'[t][n + 1] = Entry(list[1]) /\ buf'[t][n + 2] = Entry(list[2])
    BY <1>11
  <2>2. QED
    BY <1>10, <2>1
<1> HIDE DEF n
<1>13. /\ ran' \in [Workers -> 0 .. Iters] /\ ran'[t] = round
       /\ \A u \in Workers : u # t => ran'[u] = ran[u]
  BY <1>1, <1>2, <1>5, StoreBufferAssumption DEF TypeOK
<1>14. TypeOK'
  BY <1>1, <1>2, <1>3, <1>11, <1>13 DEF TypeOK, Labels
<1>15. buf'["main"] = buf["main"]
  BY <1>11, Names
<1>16. Drained' = Drained /\ InRound' = InRound
  BY <1>3, <1>15, MainSame
<1>17. Opens(t)' = Opens(t)
  BY <1>16 DEF Opens, Closes
<1>18. Reporting(t)'
  <2>1. InRound' /\ Opens(t)' <= Drained' /\ LaneIs(t, Run, {"wait"}, round)'
    BY <1>1, <1>3, <1>5, <1>13, <1>16, <1>17 DEF LaneIs, Gate, Run
  <2> DEFINE m == Len(buf'[t])
  <2>2. /\ m \in 1 .. IF seqcst' THEN 2 ELSE 3
        /\ buf'[t][m] = Entry(<<Gate(t), Done>>)
        /\ m >= 2 => buf'[t][m - 1].loc = Result(t)
        /\ m = 3 => buf'[t][1] = Entry(<<Flag(t), 1>>)
    <3>1. CASE n = 0
      BY <1>11, <1>12, <3>1 DEF Entry
    <3>2. CASE n = 1 /\ ~ seqcst /\ buf[t][1] = Entry(<<Flag(t), 1>>)
      <4>1. m = 3 /\ m - 1 = n + 1 /\ m = n + 2 /\ ~ seqcst'
        BY <1>1, <1>11, <3>2
      <4>2. buf'[t][1] = Entry(<<Flag(t), 1>>)
        BY <1>11, <3>2
      <4>3. buf'[t][m - 1].loc = Result(t)
        BY <1>12, <4>1 DEF Entry
      <4>4. QED
        BY <1>12, <4>1, <4>2, <4>3
    <3>3. QED
      BY <1>6, <3>1, <3>2
  <2>3. QED
    BY <2>1, <2>2 DEF Reporting, Entry, Gate, Result, Flag, Done
<1>19. Lane(t)'
  BY <1>18 DEF Lane
<1>20. Flags(t)'
  <2>1. ran'[t] # round' - 1
    BY <1>1, <1>2, <1>13 DEF TypeOK
  <2>2. seqcst => mem[Flag(t)] = 1
    BY <1>1, <1>2, <1>5 DEF Flags
  <2>3. QED
    BY <1>1, <2>1, <2>2 DEF Flags, Flag
<1>21. LastSees'
  <2>1. SUFFICES ASSUME seqcst, ran[Other(t)] = round
        PROVE  Outcome(t)' = 1
    <3>1. Other(t) \in Workers /\ Other(t) # t
      BY Names
    <3>2. QED
      BY <1>1, <1>13, <3>1 DEF LastSees
  <2>2. mem[Flag(Other(t))] = 1
    BY <1>5, <2>1, Names DEF IInv, Flags
  <2>3. n = 0
    BY <1>6, <2>1
  <2>4. Len(buf'[t]) = 2 /\ buf'[t][1] = Entry(<<Result(t), v>>)
    BY <1>11, <1>12, <2>3
  <2>5. buf'[t][Len(buf'[t]) - 1].val = v
    BY <2>4 DEF Entry
  <2>6. QED
    BY <1>7, <2>2, <2>4, <2>5 DEF Outcome
<1>22. QED
  BY <1>1, <1>3, <1>4, <1>11, <1>13, <1>14, <1>19, <1>20, <1>21, WorkerKeeps

(* The oldest store of a worker reaches memory: its flag, its result, or   *)
(* that it is done.                                                        *)
LEMMA WorkerDrainKeeps ==
  ASSUME IInv, NEW t \in Workers, Drain(t)
  PROVE  IInv'
<1> DEFINE n == Len(buf[t])
           loc == buf[t][1].loc
           val == buf[t][1].val
<1>1. seqcst' = seqcst /\ pc' = pc /\ round' = round /\ ran' = ran /\ buf[t] # << >>
  BY DEF Drain
<1>2. TypeOK /\ Lane(t) /\ Flags(t) /\ LastSees
  BY DEF IInv
<1>3. t \in Threads
  BY Names
<1>4. /\ buf' \in [Threads -> Seq(Entries)]
      /\ mem' = [mem EXCEPT ![loc] = val]
      /\ mem' \in [Locations -> 0 .. 3]
      /\ \A u \in Threads : u # t => buf'[u] = buf[u]
      /\ n \in Nat \ {0} /\ Len(buf'[t]) = n - 1
      /\ \A k \in 1 .. n - 1 : buf'[t][k] = buf[t][k + 1]
  BY <1>2, <1>3, Dequeue
<1>5. /\ ~ Resting(t) /\ ~ Closed(t) /\ ~ Reported(t) /\ ~ Stopped(t)
  BY <1>1 DEF Resting, Closed, Reported, Stopped
<1>6. mem \in [Locations -> 0 .. 3]
  BY <1>2 DEF TypeOK
<1>7. \A l \in Locations : l # loc => mem'[l] = mem[l]
  BY <1>4, <1>6
<1>8. TypeOK'
  BY <1>1, <1>2, <1>4 DEF TypeOK
<1>9. pc'["main"] = pc["main"] /\ buf'["main"] = buf["main"]
  BY <1>1, <1>4, Names
<1>10. Drained' = Drained /\ InRound' = InRound
  BY <1>9, MainSame
<1>11. Opens(t)' = Opens(t)
  BY <1>10 DEF Opens, Closes
<1>12. ASSUME loc \in {Flag(t), Result(t), Gate(t)}, Lane(t)', Flags(t)', LastSees'
       PROVE  IInv'
  <2>1. \A u \in Workers : u # t => /\ mem'[Gate(u)] = mem[Gate(u)]
                                    /\ mem'[Flag(u)] = mem[Flag(u)]
    <3>1. SUFFICES ASSUME NEW u \in Workers, u # t
          PROVE  /\ mem'[Gate(u)] = mem[Gate(u)] /\ mem'[Flag(u)] = mem[Flag(u)]
      OBVIOUS
    <3>2. Gate(u) # loc /\ Flag(u) # loc
      BY <1>12, <3>1, Names
    <3>3. QED
      BY <1>7, <3>2, Names
  <2>2. QED
    BY <1>1, <1>4, <1>5, <1>8, <1>12, <2>1, WorkerKeeps
<1>13. CASE Running(t)
  <2>1. pc[t] = "load" /\ ~ seqcst /\ buf[t] = <<Entry(<<Flag(t), 1>>)>>
    BY <1>1, <1>13 DEF Running
  <2>2. n = 1 /\ buf[t][1] = Entry(<<Flag(t), 1>>)
    <3>1. \A e : Len(<<e>>) = 1 /\ <<e>>[1] = e
      OBVIOUS
    <3>2. QED
      BY <2>1, <3>1
  <2>3. loc = Flag(t) /\ val = 1
    BY <2>2 DEF Entry
  <2>4. Len(buf'[t]) = 0
    BY <1>4, <2>2
  <2>5. buf'[t] = << >>
    BY <1>3, <1>4, <2>4, EmptySeq
  <2>6. mem'[Gate(t)] = mem[Gate(t)]
    BY <1>7, <2>3, Names
  <2>7. Running(t)'
    BY <1>1, <1>10, <1>11, <1>13, <2>5, <2>6 DEF Running, LaneIs
  <2>8. Flags(t)'
    BY <1>1, <2>1 DEF Flags
  <2>9. LastSees'
    BY <1>1, <2>1 DEF LastSees
  <2>10. QED
    BY <1>12, <2>3, <2>7, <2>8, <2>9 DEF Lane
<1>14. CASE Reporting(t)
  <2>1. /\ InRound /\ Opens(t) <= Drained
        /\ mem[Gate(t)] = Run /\ pc[t] = "wait" /\ ran[t] = round
        /\ n \in 1 .. IF seqcst THEN 2 ELSE 3
        /\ buf[t][n] = Entry(<<Gate(t), Done>>)
        /\ n >= 2 => buf[t][n - 1].loc = Result(t)
        /\ n = 3 => buf[t][1] = Entry(<<Flag(t), 1>>)
    BY <1>14 DEF Reporting, LaneIs
  <2>2. ran[t] # round - 1
    BY <1>2, <2>1 DEF TypeOK
  <2> HIDE DEF n
  <2>3. n = 1 \/ n = 2 \/ n = 3
    <3>1. CASE seqcst
      BY <2>1, <3>1
    <3>2. CASE ~ seqcst
      BY <2>1, <3>2
    <3>3. QED
      BY <3>1, <3>2
  <2> USE DEF n
  <2>4. Flag(t) # loc \/ ~ seqcst => Flags(t)'
    <3>1. SUFFICES ASSUME Flag(t) # loc, seqcst
          PROVE  Flags(t)'
      BY <1>1, <2>2 DEF Flags
    <3>2. mem'[Flag(t)] = mem[Flag(t)]
      BY <1>7, <3>1, Names
    <3>3. QED
      BY <1>1, <1>2, <1>10, <2>2, <3>2 DEF Flags
  <2>5. \A u \in Workers : u # t => mem'[Result(u)] = mem[Result(u)] /\ buf'[u] = buf[u]
    <3>1. SUFFICES ASSUME NEW u \in Workers, u # t
          PROVE  mem'[Result(u)] = mem[Result(u)] /\ buf'[u] = buf[u]
      OBVIOUS
    <3>2. Result(u) # loc
      <4>1. CASE n = 1
        BY <2>1, <3>1, <4>1, Names DEF Entry
      <4>2. CASE n = 2
        BY <2>1, <3>1, <4>2, Names DEF Entry
      <4>3. CASE n = 3
        BY <2>1, <3>1, <4>3, Names DEF Entry
      <4>4. QED
        BY <2>3, <4>1, <4>2, <4>3
    <3>3. QED
      BY <1>4, <1>7, <3>1, <3>2, Names
  <2>6. ASSUME Outcome(t)' = Outcome(t)
        PROVE  LastSees'
    <3>1. \A u \in Workers : Outcome(u)' = Outcome(u)
      BY <2>5, <2>6 DEF Outcome
    <3>2. QED
      BY <1>1, <1>2, <1>10, <3>1 DEF LastSees
  <2>7. CASE n = 1
    <3>1. loc = Gate(t) /\ val = Done
      BY <2>1, <2>7 DEF Entry
    <3>2. mem'[Gate(t)] = Done
      BY <1>4, <1>6, <3>1, Names
    <3>3. Len(buf'[t]) = 0
      BY <1>4, <2>7
    <3>4. buf'[t] = << >>
      BY <1>3, <1>4, <3>3, EmptySeq
    <3>5. Reported(t)'
      BY <1>1, <1>10, <1>11, <2>1, <3>2, <3>4 DEF Reported, LaneIs
    <3>6. mem'[Result(t)] = mem[Result(t)]
      BY <1>7, <3>1, Names
    <3>7. Outcome(t)' = Outcome(t)
      BY <2>7, <3>3, <3>6 DEF Outcome
    <3>8. Flag(t) # loc
      BY <3>1, Names
    <3>9. QED
      BY <1>12, <2>4, <2>6, <3>1, <3>5, <3>7, <3>8 DEF Lane
  <2>8. CASE n = 2
    <3>1. loc = Result(t)
      BY <2>1, <2>8
    <3>2. mem'[Gate(t)] = mem[Gate(t)]
      BY <1>7, <3>1, Names
    <3>3. Len(buf'[t]) = 1 /\ buf'[t][1] = Entry(<<Gate(t), Done>>)
      BY <1>4, <2>1, <2>8
    <3>4. Reporting(t)'
      <4>1. Len(buf'[t]) \in 1 .. IF seqcst' THEN 2 ELSE 3
        BY <3>3
      <4>2. QED
        BY <1>1, <1>10, <1>11, <2>1, <3>2, <3>3, <4>1 DEF Reporting, LaneIs, Entry, Gate
    <3>5. mem'[Result(t)] = val
      BY <1>4, <1>6, <3>1, Names
    <3>6. Outcome(t)' = Outcome(t)
      BY <2>8, <3>3, <3>5 DEF Outcome
    <3>7. Flag(t) # loc
      BY <3>1, Names
    <3>8. QED
      BY <1>12, <2>4, <2>6, <3>1, <3>4, <3>6, <3>7 DEF Lane
  <2>9. CASE n = 3
    <3>1. loc = Flag(t) /\ ~ seqcst
      BY <2>1, <2>9 DEF Entry
    <3>2. mem'[Gate(t)] = mem[Gate(t)]
      BY <1>7, <3>1, Names
    <3>3. /\ Len(buf'[t]) = 2 /\ buf'[t][2] = Entry(<<Gate(t), Done>>)
          /\ buf'[t][1] = buf[t][2] /\ buf[t][2].loc = Result(t)
      BY <1>4, <2>1, <2>9
    <3>4. Reporting(t)'
      <4>1. Len(buf'[t]) \in 1 .. IF seqcst' THEN 2 ELSE 3
        BY <3>3
      <4>2. buf'[t][Len(buf'[t]) - 1].loc = Result(t)
        BY <3>3
      <4>3. QED
        BY <1>1, <1>10, <1>11, <2>1, <3>2, <3>3, <4>1, <4>2
        DEF Reporting, LaneIs, Entry, Gate, Result
    <3>5. Outcome(t)' = Outcome(t)
      BY <2>9, <3>3 DEF Outcome
    <3>6. QED
      BY <1>12, <2>4, <2>6, <3>1, <3>4, <3>5 DEF Lane
  <2>10. QED
    BY <2>3, <2>7, <2>8, <2>9
<1>15. QED
  BY <1>2, <1>5, <1>13, <1>14 DEF Lane

-----------------------------------------------------------------------------
(* The steps of main.                                                      *)

(* Main's lists of stores.                                                 *)
LEMMA Lists ==
  /\ \A val \in 0 .. 3 : /\ Gates(val) \in Seq(Pairs) /\ Len(Gates(val)) = 2
                         /\ Gates(val)[1] = <<Gate("a"), val>>
                         /\ Gates(val)[2] = <<Gate("b"), val>>
  /\ (Clear \o Gates(Run)) \in Seq(Pairs) /\ Len(Clear \o Gates(Run)) = 6
<1>1. \A val \in 0 .. 3 : /\ Gates(val) \in Seq(Pairs) /\ Len(Gates(val)) = 2
                          /\ Gates(val)[1] = <<Gate("a"), val>>
                          /\ Gates(val)[2] = <<Gate("b"), val>>
  BY DEF Gates, Gate, Pairs, Locations, Workers
<1>2. Clear \in Seq(Pairs) /\ Len(Clear) = 4
  BY DEF Clear, Flag, Result, Pairs, Locations, Workers
<1>3. Gates(Run) \in Seq(Pairs) /\ Len(Gates(Run)) = 2
  BY <1>1 DEF Run
<1>4. Cat(Clear, Gates(Run)) \in Seq(Pairs)
      /\ Len(Cat(Clear, Gates(Run))) = Len(Clear) + Len(Gates(Run))
  BY <1>2, <1>3, CatJoins
<1>5. Len(Cat(Clear, Gates(Run))) = 6
  BY <1>2, <1>3, <1>4
<1>6. QED
  BY <1>1, <1>4, <1>5 DEF Cat

(* Where main is.                                                          *)
LEMMA Stages ==
  ASSUME MainControl
  PROVE  /\ pc["main"] = "start" \/ pc["main"] = "join" \/ InRound
         /\ InRound => pc["main"] # "start" /\ pc["main"] # "join"
  BY DEF MainControl, InRound

(* What there is at each place of the script.                              *)
LEMMA Slot ==
  ASSUME MainControl, NEW d \in 1 .. Len(Script), NEW t \in Workers
  PROVE  /\ Len(Script) \in {2, 4, 8}
         /\ d = Closes(t) => Script[d] = <<Gate(t), Idle>>
         /\ InRound /\ d = Closes(t) + 2 => Script[d] = <<Flag(t), 0>>
         /\ d = Opens(t) => Script[d] = <<Gate(t), IF InRound THEN Run ELSE Stop>>
         /\ d # Closes(t) /\ d # Opens(t) => Script[d][1] # Gate(t)
         /\ (InRound /\ d = Closes(t) + 2) \/ Script[d][1] # Flag(t)
<1>1. t = "a" \/ t = "b"
  BY DEF Workers
<1>2. "a" \in Workers /\ "b" \in Workers /\ "a" # "b"
  BY DEF Workers
<1>3. CASE pc["main"] = "start"
  <2>1. ~ InRound /\ d \in 1 .. 2 /\ Len(Script) = 2
    BY <1>3, ScriptStores DEF InRound
  <2>2. Script[1] = <<Gate("a"), Idle>> /\ Script[2] = <<Gate("b"), Idle>>
    BY <1>3, ScriptStores
  <2>3. d = 1 \/ d = 2
    BY <2>1
  <2>4. QED
    BY <1>1, <1>2, <2>1, <2>2, <2>3, Names DEF Closes, Opens
<1>4. CASE pc["main"] = "join"
  <2>1. ~ InRound /\ d \in 1 .. 4 /\ Len(Script) = 4
    BY <1>4, ScriptStores DEF InRound
  <2>2. /\ Script[1] = <<Gate("a"), Idle>> /\ Script[2] = <<Gate("b"), Idle>>
        /\ Script[3] = <<Gate("a"), Stop>> /\ Script[4] = <<Gate("b"), Stop>>
    BY <1>4, ScriptStores
  <2>3. d = 1 \/ d = 2 \/ d = 3 \/ d = 4
    BY <2>1
  <2>4. QED
    BY <1>1, <1>2, <2>1, <2>2, <2>3, Names DEF Closes, Opens
<1>5. CASE InRound
  <2>1. d \in 1 .. 8 /\ Len(Script) = 8
    BY <1>5, ScriptStores
  <2>2. /\ Script[1] = <<Gate("a"), Idle>> /\ Script[2] = <<Gate("b"), Idle>>
        /\ Script[3] = <<Flag("a"), 0>> /\ Script[4] = <<Flag("b"), 0>>
        /\ Script[5] = <<Result("a"), 0>> /\ Script[6] = <<Result("b"), 0>>
        /\ Script[7] = <<Gate("a"), Run>> /\ Script[8] = <<Gate("b"), Run>>
    BY <1>5, ScriptStores
  <2>3. d = 1 \/ d = 2 \/ d = 3 \/ d = 4 \/ d = 5 \/ d = 6 \/ d = 7 \/ d = 8
    BY <2>1
  <2>4. QED
    BY <1>1, <1>2, <1>5, <2>1, <2>2, <2>3, Names DEF Closes, Opens
<1>6. QED
  BY <1>3, <1>4, <1>5, Stages

(* How far main's stores have reached memory.                              *)
LEMMA Reached ==
  ASSUME IInv
  PROVE  /\ Len(buf["main"]) \in Nat /\ Drained \in Nat
         /\ Drained + Len(buf["main"]) = Len(Script)
         /\ pc["main"] = "start" => Len(Script) = 2
         /\ pc["main"] = "join" => Len(Script) = 4
         /\ InRound => Len(Script) = 8
         /\ \A k \in 1 .. Len(buf["main"]) : buf["main"][k] = Entry(Script[Drained + k])
<1>1. Len(buf["main"]) \in Nat
  BY Names DEF IInv, TypeOK
<1>2. MainBuffer /\ MainControl
  BY DEF IInv
<1>3. /\ pc["main"] = "start" => Len(Script) = 2
      /\ pc["main"] = "join" => Len(Script) = 4
      /\ InRound => Len(Script) = 8
  BY ScriptStores
<1>4. Len(Script) \in Nat
  BY <1>2, <1>3, Stages
<1>5. Drained >= 0 /\ \A k \in 1 .. Len(buf["main"]) : buf["main"][k] = Entry(Script[Drained + k])
  BY <1>2 DEF MainBuffer
<1>6. Drained \in Nat /\ Drained + Len(buf["main"]) = Len(Script)
  BY <1>1, <1>4, <1>5 DEF Drained
<1>7. QED
  BY <1>1, <1>3, <1>5, <1>6

(* A step of main keeps the invariant if it keeps that of each worker.     *)
(* Main drains its buffer in order, which closes, clears and opens.        *)
LEMMA MainDrainKeeps ==
  ASSUME IInv, Drain("main")
  PROVE  IInv'
<1> DEFINE n == Len(buf["main"])
           d == Drained + 1
           loc == Script[d][1]
           val == Script[d][2]
<1>1. seqcst' = seqcst /\ pc' = pc /\ round' = round /\ ran' = ran
  BY DEF Drain
<1>2. TypeOK /\ MainControl /\ \A u \in Workers : Lane(u) /\ Flags(u)
  BY DEF IInv
<1>3. /\ buf' \in [Threads -> Seq(Entries)]
      /\ mem' = [mem EXCEPT ![buf["main"][1].loc] = buf["main"][1].val]
      /\ mem' \in [Locations -> 0 .. 3]
      /\ \A u \in Threads : u # "main" => buf'[u] = buf[u]
      /\ n \in Nat \ {0} /\ Len(buf'["main"]) = n - 1
      /\ \A k \in 1 .. n - 1 : buf'["main"][k] = buf["main"][k + 1]
  BY <1>2, Names, Dequeue
<1>4. /\ Drained \in Nat /\ Drained + n = Len(Script)
      /\ \A k \in 1 .. n : buf["main"][k] = Entry(Script[Drained + k])
      /\ InRound => Len(Script) = 8
  BY Reached
<1>5. Script' = Script /\ InRound' = InRound
  BY <1>1 DEF Script, InRound
<1>6. Drained' = d
  BY <1>3, <1>4, <1>5 DEF Drained
<1>7. MainBuffer'
  <2>1. ASSUME NEW k \in 1 .. n - 1
        PROVE  buf'["main"][k] = Entry(Script[d + k])
    <3>1. k + 1 \in 1 .. n /\ d + k = Drained + (k + 1)
      BY <1>3, <1>4
    <3>2. buf'["main"][k] = buf["main"][k + 1]
      BY <1>3
    <3>3. QED
      BY <1>4, <3>1, <3>2
  <2>2. \A k \in 1 .. Len(buf'["main"]) : buf'["main"][k] = Entry(Script'[Drained' + k])
    BY <1>3, <1>5, <1>6, <2>1
  <2>3. Drained' >= 0
    BY <1>4, <1>6
  <2>4. QED
    BY <2>2, <2>3 DEF MainBuffer, Entry
<1>8. mem' = [mem EXCEPT ![loc] = val]
  <2>1. 1 \in 1 .. n
    BY <1>3
  <2>2. buf["main"][1] = Entry(Script[d])
    BY <1>4, <2>1
  <2>3. buf["main"][1].loc = loc /\ buf["main"][1].val = val
    BY <2>2 DEF Entry
  <2>4. QED
    BY <1>3, <2>3
<1>9. mem \in [Locations -> 0 .. 3]
  BY <1>2 DEF TypeOK
<1>10. d \in 1 .. Len(Script) /\ d \in Nat
  BY <1>3, <1>4
<1>11. TypeOK'
  BY <1>1, <1>2, <1>3 DEF TypeOK
<1> HIDE DEF n, d, loc, val
<1>12. ASSUME NEW t \in Workers
       PROVE  /\ Closes(t) \in 1 .. 2 /\ Opens(t) \in Nat
              /\ Opens(t) = Closes(t) + (IF InRound THEN 6 ELSE 2)
              /\ Opens(t)' = Opens(t) /\ Closes(t)' = Closes(t) /\ Past' = Past
              /\ buf'[t] = buf[t]
  BY <1>1, <1>3, <1>5, Names DEF Closes, Opens, Past
<1>13. ASSUME NEW t \in Workers
       PROVE  /\ d = Closes(t) => loc = Gate(t) /\ val = Idle
              /\ InRound /\ d = Closes(t) + 2 => loc = Flag(t) /\ val = 0
              /\ d = Opens(t) => loc = Gate(t) /\ val = IF InRound THEN Run ELSE Stop
              /\ d # Closes(t) /\ d # Opens(t) => loc # Gate(t)
              /\ (InRound /\ d = Closes(t) + 2) \/ loc # Flag(t)
  BY <1>2, <1>10, Slot DEF loc, val
<1>14. ASSUME NEW t \in Workers, d # Closes(t), d # Opens(t)
       PROVE  mem'[Gate(t)] = mem[Gate(t)]
  BY <1>8, <1>9, <1>13, <1>14, Names
<1>15. ASSUME NEW t \in Workers, d = Closes(t) \/ d = Opens(t)
       PROVE  mem'[Gate(t)] = val
  BY <1>8, <1>9, <1>13, <1>15, Names
<1>16. ASSUME NEW t \in Workers
       PROVE  Lane(t)'
  <2>1. Lane(t) /\ d \in Nat /\ d = Drained + 1 /\ Drained \in Nat /\ Drained' = d
    BY <1>2, <1>4, <1>6, <1>10 DEF d
  <2>2. /\ Closes(t) \in 1 .. 2 /\ Opens(t) \in Nat
        /\ Opens(t) = Closes(t) + (IF InRound THEN 6 ELSE 2)
        /\ Opens(t)' = Opens(t) /\ Closes(t)' = Closes(t) /\ Past' = Past
        /\ buf'[t] = buf[t]
    BY <1>12
  <2>3. Closes(t) < Opens(t)
    BY <2>2
  <2>4. /\ d # Closes(t) /\ d # Opens(t) => mem'[Gate(t)] = mem[Gate(t)]
        /\ d = Closes(t) => mem'[Gate(t)] = Idle
        /\ d = Opens(t) => mem'[Gate(t)] = IF InRound THEN Run ELSE Stop
    BY <1>13, <1>14, <1>15
  <2>5. ASSUME Resting(t)
        PROVE  Resting(t)' \/ Closed(t)'
    <3>1. CASE d = Closes(t)
      BY <1>1, <2>1, <2>2, <2>3, <2>4, <2>5, <3>1 DEF Resting, Closed, LaneIs
    <3>2. CASE d # Closes(t)
      BY <1>1, <2>1, <2>2, <2>3, <2>4, <2>5, <3>2 DEF Resting, LaneIs
    <3>3. QED
      BY <3>1, <3>2
  <2>6. ASSUME Closed(t)
        PROVE  Closed(t)' \/ Running(t)' \/ Stopped(t)'
    <3>1. CASE d # Opens(t)
      <4>1. d # Closes(t) /\ d < Opens(t) /\ Closes(t) <= d
        BY <2>1, <2>2, <2>6, <3>1 DEF Closed
      <4>2. mem'[Gate(t)] = mem[Gate(t)]
        BY <2>4, <3>1, <4>1
      <4>3. QED
        BY <1>1, <2>1, <2>2, <2>6, <4>1, <4>2 DEF Closed, LaneIs
    <3>2. CASE d = Opens(t) /\ InRound
      <4>1. mem'[Gate(t)] = Run /\ Past = round - 1
        BY <2>4, <3>2 DEF Past
      <4>2. InRound' /\ Opens(t)' <= Drained'
        BY <1>5, <2>1, <2>2, <3>2
      <4>3. QED
        BY <1>1, <2>2, <2>6, <4>1, <4>2 DEF Closed, Running, LaneIs
    <3>3. CASE d = Opens(t) /\ ~ InRound
      <4>1. mem'[Gate(t)] = Stop /\ Past = round
        BY <2>4, <3>3 DEF Past
      <4>2. pc["main"] = "join"
        <5>1. pc["main"] = "start" => Len(Script) = 2
          BY Reached
        <5>2. d \in 1 .. Len(Script) /\ d >= 3
          BY <1>10, <2>2, <3>3
        <5>3. Len(Script) # 2
          <6>1. SUFFICES ASSUME Len(Script) = 2
                PROVE  FALSE
            OBVIOUS
          <6>2. d \in 1 .. 2
            BY <5>2, <6>1
          <6>3. QED
            BY <5>2, <6>2
        <5>4. QED
          BY <1>2, <3>3, <5>1, <5>3, Stages
      <4>3. pc'["main"] = "join" /\ Opens(t)' <= Drained'
        BY <1>1, <2>1, <2>2, <3>3, <4>2
      <4>4. QED
        BY <1>1, <2>2, <2>6, <4>1, <4>3 DEF Closed, Stopped, LaneIs
    <3>4. QED
      BY <3>1, <3>2, <3>3
  <2>7. ASSUME Opens(t) <= Drained
        PROVE  /\ mem'[Gate(t)] = mem[Gate(t)] /\ Opens(t)' <= Drained'
    <3>1. d # Closes(t) /\ d # Opens(t) /\ Opens(t) <= d
      BY <2>1, <2>2, <2>3, <2>7
    <3>2. QED
      BY <2>1, <2>2, <2>4, <3>1
  <2>8. Running(t) => Running(t)'
    BY <1>1, <1>5, <2>2, <2>7 DEF Running, LaneIs
  <2>9. Reporting(t) => Reporting(t)'
    BY <1>1, <1>5, <2>2, <2>7 DEF Reporting, LaneIs
  <2>10. Reported(t) => Reported(t)'
    BY <1>1, <1>5, <2>2, <2>7 DEF Reported, LaneIs
  <2>11. Stopped(t) => Stopped(t)'
    BY <1>1, <1>5, <2>2, <2>7 DEF Stopped, LaneIs
  <2>12. QED
    BY <2>1, <2>5, <2>6, <2>8, <2>9, <2>10, <2>11 DEF Lane
<1>17. ASSUME NEW t \in Workers, Reported(t)
       PROVE  Reported(t)'
  <2>1. Opens(t) <= Drained /\ d = Drained + 1 /\ Drained \in Nat /\ Drained' = d
    BY <1>4, <1>6, <1>17 DEF Reported, d
  <2>2. d # Closes(t) /\ d # Opens(t) /\ Opens(t)' <= Drained'
    BY <1>12, <2>1
  <2>3. mem'[Gate(t)] = mem[Gate(t)] /\ buf'[t] = buf[t]
    BY <1>12, <1>14, <2>2
  <2>4. QED
    BY <1>1, <1>5, <1>17, <2>2, <2>3 DEF Reported, LaneIs
<1>18. MainControl'
  BY <1>1, <1>2, <1>5, <1>17, Names DEF MainControl
<1>19. ASSUME NEW t \in Workers
       PROVE  Flags(t)'
  <2>1. Flags(t) /\ Lane(t) /\ d \in Nat /\ d = Drained + 1 /\ Drained \in Nat /\ Drained' = d
    BY <1>2, <1>4, <1>6, <1>10 DEF d
  <2>2. Closes(t)' = Closes(t) /\ Closes(t) \in 1 .. 2
    BY <1>12
  <2>3. CASE InRound /\ d = Closes(t) + 2
    <3>1. mem'[Flag(t)] = 0
      BY <1>8, <1>9, <1>13, <2>3, Names
    <3>2. ~ (Opens(t) <= Drained) /\ Opens(t) \in Nat
      BY <1>12, <2>1, <2>3
    <3>3. pc[t] # "load" /\ ran[t] = round - 1
      BY <2>1, <2>3, <3>2
      DEF Lane, Resting, Closed, Running, Reporting, Reported, Stopped, LaneIs, Past
    <3>4. ran[t] # round
      BY <1>2, <3>3 DEF TypeOK
    <3>5. QED
      BY <1>1, <3>1, <3>3, <3>4 DEF Flags
  <2>4. CASE ~ (InRound /\ d = Closes(t) + 2)
    <3>1. loc # Flag(t)
      BY <1>13, <2>4
    <3>2. mem'[Flag(t)] = mem[Flag(t)]
      BY <1>8, <1>9, <3>1, Names
    <3>3. InRound /\ Closes(t) + 2 <= d => Closes(t) + 2 <= Drained
      BY <2>1, <2>2, <2>4
    <3>4. QED
      BY <1>1, <1>5, <2>1, <2>2, <3>2, <3>3 DEF Flags
  <2>5. QED
    BY <2>3, <2>4
<1>20. LastSees'
  <2>1. SUFFICES ASSUME InRound
        PROVE  ran["b"] # round
    BY <1>1, <1>5, Names DEF LastSees
  <2>2. "b" \in Workers /\ Opens("b") = 8 /\ d = Drained + 1 /\ d <= 8
    BY <1>4, <1>10, <2>1 DEF Workers, Opens, Closes, d
  <2>3. ~ (Opens("b") <= Drained)
    BY <1>4, <2>2
  <2>4. Lane("b") /\ ~ Stopped("b")
    BY <1>2, <2>1, <2>2 DEF Stopped, InRound
  <2>5. ran["b"] = round - 1
    BY <2>1, <2>3, <2>4
    DEF Lane, Resting, Closed, Running, Reporting, Reported, LaneIs, Past
  <2>6. QED
    BY <1>2, <2>5 DEF TypeOK
<1>21. QED
  BY <1>7, <1>11, <1>16, <1>18, <1>19, <1>20 DEF IInv

(* Main's list of stores goes behind its script as it does behind its      *)
(* buffer.                                                                 *)
LEMMA MainAppends ==
  ASSUME IInv, pc["main"] = "start", NEW list \in Seq(Pairs), Stores("main", list),
         Script' = Gates(Idle) \o list
  PROVE  /\ buf' \in [Threads -> Seq(Entries)]
         /\ \A u \in Workers : buf'[u] = buf[u]
         /\ Drained' = Drained /\ Drained \in 0 .. 2 /\ MainBuffer'
<1> DEFINE n == Len(buf["main"])
<1>1. /\ buf' \in [Threads -> Seq(Entries)]
      /\ \A u \in Threads : u # "main" => buf'[u] = buf[u]
      /\ Len(buf'["main"]) = n + Len(list)
      /\ \A k \in 1 .. n : buf'["main"][k] = buf["main"][k]
      /\ \A k \in 1 .. Len(list) : buf'["main"][n + k] = Entry(list[k])
  BY Names, Enqueue DEF IInv
<1>2. /\ n \in Nat /\ Drained \in Nat /\ Drained + n = 2
      /\ \A k \in 1 .. n : buf["main"][k] = Entry(Script[Drained + k])
  <2>1. Len(Script) = 2
    BY Reached
  <2>2. QED
    BY <2>1, Reached
<1>3. Script = Gates(Idle)
  BY ScriptIs
<1>4. Gates(Idle) \in Seq(Pairs) /\ Len(Gates(Idle)) = 2 /\ Len(list) \in Nat
  BY Lists DEF Idle
<1>5. /\ Len(Cat(Gates(Idle), list)) = Len(Gates(Idle)) + Len(list)
      /\ \A k \in 1 .. Len(Gates(Idle)) + Len(list) :
           Cat(Gates(Idle), list)[k] =
             IF k <= Len(Gates(Idle)) THEN Gates(Idle)[k] ELSE list[k - Len(Gates(Idle))]
  BY <1>4, CatJoins
<1> DEFINE s == Cat(Gates(Idle), list)
<1>6. Script' = s
  BY DEF Cat
<1> HIDE DEF s, n
<1>7. /\ Len(s) = 2 + Len(list)
      /\ \A k \in 1 .. 2 + Len(list) : s[k] = IF k <= 2 THEN Script[k] ELSE list[k - 2]
  BY <1>3, <1>4, <1>5 DEF s
<1>8. Drained' = Drained
  <2>1. Drained' = Len(s) - Len(buf'["main"])
    BY <1>6 DEF Drained
  <2>2. QED
    BY <1>1, <1>2, <1>4, <1>7, <2>1
<1>9. ASSUME NEW k \in 1 .. n + Len(list)
      PROVE  buf'["main"][k] = Entry(s[Drained + k])
  <2>1. CASE k <= n
    <3>1. k \in 1 .. n /\ Drained + k \in 1 .. 2 + Len(list) /\ Drained + k <= 2
      BY <1>2, <1>4, <2>1
    <3>2. s[Drained + k] = Script[Drained + k]
      BY <1>7, <3>1
    <3>3. QED
      BY <1>1, <1>2, <3>1, <3>2
  <2>2. CASE ~ (k <= n)
    <3>1. /\ k - n \in 1 .. Len(list) /\ n + (k - n) = k
          /\ Drained + k \in 1 .. 2 + Len(list) /\ ~ (Drained + k <= 2)
          /\ (Drained + k) - 2 = k - n
      BY <1>2, <1>4, <2>2
    <3>2. s[Drained + k] = list[k - n]
      BY <1>7, <3>1
    <3>3. buf'["main"][n + (k - n)] = Entry(list[k - n])
      BY <1>1, <3>1
    <3>4. QED
      BY <3>1, <3>2, <3>3
  <2>3. QED
    BY <2>1, <2>2
<1>10. MainBuffer'
  <2>1. \A k \in 1 .. Len(buf'["main"]) : buf'["main"][k] = Entry(Script'[Drained' + k])
    BY <1>1, <1>6, <1>8, <1>9
  <2>2. Drained' >= 0
    BY <1>2, <1>8
  <2>3. QED
    BY <2>1, <2>2 DEF MainBuffer, Entry
<1>11. Drained \in 0 .. 2
  BY <1>2
<1>12. QED
  BY <1>1, <1>8, <1>10, <1>11, Names

(* Main goes to another label.                                             *)
LEMMA MainMoves ==
  ASSUME TypeOK, NEW label \in Labels, Goto("main", label)
  PROVE  /\ pc' \in [Threads -> Labels] /\ pc'["main"] = label
         /\ \A u \in Workers : pc'[u] = pc[u]
<1>1. pc \in [Threads -> Labels] /\ pc' = [pc EXCEPT !["main"] = label]
  BY DEF TypeOK, Labels, Goto
<1>2. QED
  BY <1>1, Names

(* Between the rounds a gate is Done or Idle.                              *)
LEMMA AtStart ==
  ASSUME IInv, pc["main"] = "start", NEW t \in Workers
  PROVE  /\ ~ InRound /\ Past = round /\ round \in Nat /\ ran[t] = round
         /\ Resting(t) \/ Closed(t)
<1>1. ~ InRound /\ Lane(t) /\ pc["main"] # "join" /\ TypeOK
  BY DEF InRound, IInv
<1>2. Past = round /\ round \in Nat
  BY <1>1, StoreBufferAssumption DEF Past, TypeOK
<1>3. Resting(t) \/ Closed(t)
  BY <1>1 DEF Lane, Running, Reporting, Reported, Stopped
<1>4. QED
  BY <1>1, <1>2, <1>3 DEF Resting, Closed, LaneIs

(* The results are cleared and then the gates opened.                      *)
LEMMA StartRoundKeeps ==
  ASSUME IInv, StartRound
  PROVE  IInv'
<1>1. /\ pc["main"] = "start" /\ round < Iters
      /\ Stores("main", Clear \o Gates(Run)) /\ Goto("main", "wait_a")
      /\ round' = round + 1 /\ seqcst' = seqcst /\ mem' = mem /\ ran' = ran
  BY DEF StartRound
<1>2. TypeOK /\ \A t \in Workers : Flags(t)
  BY DEF IInv
<1>3. /\ pc' \in [Threads -> Labels] /\ pc'["main"] = "wait_a"
      /\ \A u \in Workers : pc'[u] = pc[u]
  BY <1>1, <1>2, MainMoves DEF Labels
<1>4. Script' = Gates(Idle) \o (Clear \o Gates(Run))
  BY <1>3 DEF Script, Gates, Clear, Gate, Flag, Result
<1>5. /\ buf' \in [Threads -> Seq(Entries)]
      /\ \A u \in Workers : buf'[u] = buf[u]
      /\ Drained' = Drained /\ Drained \in 0 .. 2 /\ MainBuffer'
  BY <1>1, <1>4, Lists, MainAppends
<1>6. InRound'
  BY <1>3 DEF InRound
<1>7. round \in Nat /\ round' \in 0 .. Iters /\ round' - 1 = round
  BY <1>1, <1>2, StoreBufferAssumption DEF TypeOK
<1>8. TypeOK'
  BY <1>1, <1>2, <1>3, <1>5, <1>7 DEF TypeOK, Labels
<1>9. MainControl'
  BY <1>1, <1>3, <1>7 DEF MainControl
<1>10. ASSUME NEW t \in Workers
       PROVE  Lane(t)' /\ Flags(t)' /\ ran'[t] # round'
  <2>1. /\ ~ InRound /\ Past = round /\ ran[t] = round
        /\ Resting(t) \/ Closed(t)
    BY <1>1, AtStart
  <2>2. Past' = Past /\ Closes(t)' = Closes(t) /\ Closes(t) \in 1 .. 2
    <3>1. Past' = round' - 1
      BY <1>6 DEF Past
    <3>2. Past' = Past
      BY <1>7, <2>1, <3>1
    <3>3. QED
      BY <3>2 DEF Closes
  <2>3. Drained' < Opens(t)' /\ ~ (Closes(t)' + 2 <= Drained')
    BY <1>5, <1>6, <2>2 DEF Opens
  <2>4. Resting(t) => Resting(t)'
    BY <1>1, <1>3, <1>5, <2>2 DEF Resting, LaneIs
  <2>5. Closed(t) => Closed(t)'
    BY <1>1, <1>3, <1>5, <2>2, <2>3 DEF Closed, LaneIs
  <2>6. ran'[t] # round' /\ pc'[t] # "load"
    BY <1>1, <1>3, <1>7, <2>1 DEF Resting, Closed, LaneIs
  <2>7. Flags(t)'
    BY <2>3, <2>6 DEF Flags
  <2>8. QED
    BY <2>1, <2>4, <2>5, <2>6, <2>7 DEF Lane
<1>11. LastSees'
  BY <1>10, Names DEF LastSees
<1>12. QED
  BY <1>5, <1>8, <1>9, <1>10, <1>11 DEF IInv

(* After the last round the gates go to Stop.                              *)
LEMMA StopWorkersKeeps ==
  ASSUME IInv, StopWorkers
  PROVE  IInv'
<1>1. /\ pc["main"] = "start" /\ Stores("main", Gates(Stop)) /\ Goto("main", "join")
      /\ round' = round /\ seqcst' = seqcst /\ mem' = mem /\ ran' = ran
  BY DEF StopWorkers
<1>2. TypeOK
  BY DEF IInv
<1>3. /\ pc' \in [Threads -> Labels] /\ pc'["main"] = "join"
      /\ \A u \in Workers : pc'[u] = pc[u]
  BY <1>1, <1>2, MainMoves DEF Labels
<1>4. Script' = Gates(Idle) \o Gates(Stop)
  BY <1>3 DEF Script, Gates, Gate
<1>5. /\ buf' \in [Threads -> Seq(Entries)]
      /\ \A u \in Workers : buf'[u] = buf[u]
      /\ Drained' = Drained /\ Drained \in 0 .. 2 /\ MainBuffer'
  <2>1. Gates(Stop) \in Seq(Pairs)
    BY Lists DEF Stop
  <2>2. QED
    BY <1>1, <1>4, <2>1, MainAppends
<1>6. ~ InRound'
  BY <1>3 DEF InRound
<1>7. TypeOK'
  BY <1>1, <1>2, <1>3, <1>5 DEF TypeOK, Labels
<1>8. MainControl'
  BY <1>3, <1>6 DEF MainControl
<1>9. ASSUME NEW t \in Workers
      PROVE  Lane(t)' /\ Flags(t)'
  <2>1. ~ InRound /\ Past = round /\ (Resting(t) \/ Closed(t))
    BY <1>1, AtStart
  <2>2. Past' = Past /\ Closes(t)' = Closes(t) /\ Opens(t)' = Opens(t)
    BY <1>1, <1>6, <2>1 DEF Past, Closes, Opens
  <2>3. Resting(t) => Resting(t)'
    BY <1>1, <1>3, <1>5, <2>2 DEF Resting, LaneIs
  <2>4. Closed(t) => Closed(t)'
    BY <1>1, <1>3, <1>5, <2>2 DEF Closed, LaneIs
  <2>5. Flags(t)'
    BY <1>6 DEF Flags
  <2>6. QED
    BY <2>1, <2>3, <2>4, <2>5 DEF Lane
<1>10. LastSees'
  BY <1>6 DEF LastSees
<1>11. QED
  BY <1>5, <1>7, <1>8, <1>9, <1>10 DEF IInv

(* Main finds a gate Done only when it has drained the store that opened   *)
(* it, and the worker has reported.                                        *)
LEMMA SeenDone ==
  ASSUME IInv, InRound, NEW t \in Workers, Load("main", Gate(t)) = Done
  PROVE  Reported(t)
<1> DEFINE n == Len(buf["main"])
           i == Opens(t) - Drained
<1>1. /\ n \in Nat /\ Drained \in Nat /\ Drained + n = Len(Script) /\ Len(Script) = 8
      /\ \A k \in 1 .. n : buf["main"][k] = Entry(Script[Drained + k])
  BY Reached
<1>2. MainControl /\ Lane(t) /\ DOMAIN buf["main"] = 1 .. n
  BY Names DEF IInv, TypeOK
<1>3. Opens(t) \in {7, 8} /\ Closes(t) \in {1, 2} /\ Opens(t) = Closes(t) + 6
  BY DEF Opens, Closes
<1> HIDE DEF n
<1>4. ASSUME NEW k \in 1 .. n, Drained + k > Opens(t)
      PROVE  buf["main"][k].loc # Gate(t)
  <2>1. /\ Drained + k \in 1 .. Len(Script)
        /\ Drained + k # Closes(t) /\ Drained + k # Opens(t)
    BY <1>1, <1>3, <1>4
  <2>2. Script[Drained + k][1] # Gate(t)
    BY <1>2, <2>1, Slot
  <2>3. buf["main"][k] = Entry(Script[Drained + k])
    BY <1>1
  <2>4. QED
    BY <2>2, <2>3 DEF Entry
<1>5. Opens(t) <= Drained
  <2>1. SUFFICES ASSUME ~ (Opens(t) <= Drained)
        PROVE  FALSE
    OBVIOUS
  <2>2. i \in 1 .. n /\ Drained + i = Opens(t) /\ Opens(t) \in 1 .. Len(Script)
    BY <1>1, <1>3, <2>1
  <2>3. Script[Opens(t)] = <<Gate(t), Run>>
    BY <1>2, <2>2, Slot
  <2>4. buf["main"][i] = Entry(Script[Opens(t)])
    BY <1>1, <2>2
  <2>5. buf["main"][i].loc = Gate(t) /\ buf["main"][i].val = Run
    BY <2>3, <2>4 DEF Entry
  <2>6. \A j \in i + 1 .. n : j \in 1 .. n /\ Drained + j > Opens(t)
    BY <1>1, <1>3, <2>2
  <2> HIDE DEF i
  <2>7. \A j \in i + 1 .. n : buf["main"][j].loc # Gate(t)
    BY <1>4, <2>6
  <2>8. Load("main", Gate(t)) = Run
    BY <1>1, <1>2, <2>2, <2>5, <2>7, LoadsOwn
  <2>9. QED
    BY <2>8 DEF Run, Done
<1>6. \A k \in DOMAIN buf["main"] : buf["main"][k].loc # Gate(t)
  <2>1. ASSUME NEW k \in 1 .. n, ~ (Drained + k > Opens(t))
        PROVE  FALSE
    BY <1>1, <1>3, <1>5, <2>1
  <2>2. QED
    BY <1>2, <1>4, <2>1
<1>7. mem[Gate(t)] = Done
  BY <1>6, LoadsMemory
<1>8. pc["main"] # "join"
  BY DEF InRound
<1>9. Drained >= Closes(t)
  BY <1>1, <1>3, <1>5
<1>10. ~ Resting(t)
  BY <1>1, <1>3, <1>9 DEF Resting
<1>11. QED
  BY <1>2, <1>7, <1>8, <1>10
  DEF Lane, Closed, Running, Reporting, Stopped, LaneIs, Idle, Run, Done

(* Main goes on to the next gate, or to the results.                       *)
LEMMA AwaitDoneKeeps ==
  ASSUME IInv, NEW t \in Workers, AwaitDone(t)
  PROVE  IInv'
<1> DEFINE label == IF t = "a" THEN "wait_b" ELSE "check"
<1>1. /\ pc["main"] = IF t = "a" THEN "wait_a" ELSE "wait_b"
      /\ Load("main", Gate(t)) = Done /\ Goto("main", label)
      /\ seqcst' = seqcst /\ mem' = mem /\ buf' = buf /\ round' = round /\ ran' = ran
  BY DEF AwaitDone
<1>2. TypeOK /\ MainControl /\ MainBuffer /\ LastSees /\ \A u \in Workers : Lane(u) /\ Flags(u)
  BY DEF IInv
<1>3. label \in Labels /\ (t = "a" \/ t = "b")
  BY DEF Labels, Workers
<1>4. /\ pc' \in [Threads -> Labels] /\ pc'["main"] = label
      /\ \A u \in Workers : pc'[u] = pc[u]
  BY <1>1, <1>2, <1>3, MainMoves
<1>5. InRound /\ InRound'
  BY <1>1, <1>4 DEF InRound
<1>6. Script' = Script
  BY <1>1, <1>4 DEF Script
<1>7. Drained' = Drained
  BY <1>1, <1>6 DEF Drained
<1>8. MainBuffer'
  BY <1>1, <1>2, <1>6, <1>7 DEF MainBuffer
<1>9. TypeOK'
  BY <1>1, <1>2, <1>4 DEF TypeOK, Labels
<1>10. ASSUME NEW u \in Workers, Reported(u)
       PROVE  Reported(u)'
  BY <1>1, <1>4, <1>5, <1>7, <1>10 DEF Reported, LaneIs, Opens, Closes
<1>11. Reported(t)
  BY <1>1, <1>5, SeenDone
<1>12. MainControl'
  <2>1. "a" \in Workers /\ "b" \in Workers
    BY DEF Workers
  <2>2. CASE t = "a"
    <3>1. pc'["main"] = "wait_b" /\ Reported("a")'
      BY <1>4, <1>10, <1>11, <2>1, <2>2
    <3>2. QED
      BY <1>1, <1>2, <1>5, <3>1 DEF MainControl
  <2>3. CASE t = "b"
    <3>1. pc'["main"] = "check" /\ Reported("b")' /\ pc["main"] = "wait_b"
      BY <1>1, <1>4, <1>10, <1>11, <2>1, <2>3
    <3>2. Reported("a")'
      BY <1>2, <1>10, <2>1, <3>1 DEF MainControl
    <3>3. QED
      BY <1>1, <1>2, <1>5, <3>1, <3>2 DEF MainControl
  <2>4. QED
    BY <1>3, <2>2, <2>3
<1>13. ASSUME NEW u \in Workers
       PROVE  Lane(u)' /\ Flags(u)'
  <2>1. pc["main"] # "join" /\ pc'["main"] # "join"
    BY <1>5 DEF InRound
  <2>2. Lane(u)'
    BY <1>1, <1>2, <1>4, <1>5, <1>7, <2>1, LaneSame
  <2>3. Flags(u)'
    BY <1>1, <1>2, <1>4, <1>5, <1>7 DEF Flags, Closes
  <2>4. QED
    BY <2>2, <2>3
<1>14. LastSees'
  BY <1>1, <1>2, <1>5 DEF LastSees, Outcome
<1>15. QED
  BY <1>8, <1>9, <1>12, <1>13, <1>14 DEF IInv

(* When the results are compared all of main's stores are in memory.       *)
LEMMA AtCheck ==
  ASSUME IInv, pc["main"] = "check"
  PROVE  /\ InRound /\ Len(buf["main"]) = 0 /\ buf["main"] = << >>
         /\ \A t \in Workers : Reported(t)
<1>1. InRound /\ Reported("a") /\ Reported("b")
  BY DEF InRound, IInv, MainControl
<1>2. Opens("b") = 8
  BY <1>1 DEF Opens, Closes
<1>3. /\ Len(buf["main"]) \in Nat /\ Drained \in Nat
      /\ Drained + Len(buf["main"]) = 8
  BY <1>1, Reached
<1>4. Drained >= 8
  BY <1>1, <1>2, <1>3 DEF Reported
<1>5. Len(buf["main"]) = 0
  BY <1>3, <1>4
<1>6. buf["main"] \in Seq(Entries)
  BY Names DEF IInv, TypeOK
<1>7. buf["main"] = << >>
  BY <1>5, <1>6, EmptySeq
<1>8. QED
  BY <1>1, <1>5, <1>7 DEF Workers

(* The round ends with both gates Done and both buffers empty.             *)
LEMMA EndRoundKeeps ==
  ASSUME IInv, EndRound
  PROVE  IInv'
<1>1. /\ pc["main"] = "check" /\ Stores("main", Gates(Idle)) /\ Goto("main", "start")
      /\ round' = round /\ seqcst' = seqcst /\ mem' = mem /\ ran' = ran
  BY DEF EndRound
<1>2. TypeOK
  BY DEF IInv
<1>3. /\ pc' \in [Threads -> Labels] /\ pc'["main"] = "start"
      /\ \A u \in Workers : pc'[u] = pc[u]
  BY <1>1, <1>2, MainMoves DEF Labels
<1>4. ~ InRound'
  BY <1>3 DEF InRound
<1>5. Gates(Idle) \in Seq(Pairs) /\ Len(Gates(Idle)) = 2
  BY Lists DEF Idle
<1>6. Len(buf["main"]) = 0 /\ \A t \in Workers : Reported(t)
  BY <1>1, AtCheck
<1>7. /\ buf' \in [Threads -> Seq(Entries)]
      /\ \A u \in Threads : u # "main" => buf'[u] = buf[u]
      /\ Len(buf'["main"]) = Len(buf["main"]) + Len(Gates(Idle))
      /\ \A k \in 1 .. Len(Gates(Idle)) :
           buf'["main"][Len(buf["main"]) + k] = Entry(Gates(Idle)[k])
  BY <1>1, <1>2, <1>5, Names, Enqueue
<1>8. Len(buf'["main"]) = 2
  BY <1>5, <1>6, <1>7
<1>9. Script' = Gates(Idle)
  <2>1. Script' = Gates(Idle) \o << >>
    BY <1>3 DEF Script, Gates, Gate
  <2>2. QED
    BY <1>5, <2>1, ConcatEmptySeq
<1>10. Drained' = 0
  BY <1>5, <1>8, <1>9 DEF Drained
<1>11. MainBuffer'
  <2>1. ASSUME NEW k \in 1 .. 2
        PROVE  buf'["main"][k] = Entry(Gates(Idle)[k])
    <3>1. k \in 1 .. Len(Gates(Idle)) /\ Len(buf["main"]) + k = k
      BY <1>5, <1>6
    <3>2. QED
      BY <1>7, <3>1
  <2>2. ASSUME NEW k \in 1 .. Len(buf'["main"])
        PROVE  buf'["main"][k] = Entry(Script'[Drained' + k])
    <3>1. k \in 1 .. 2 /\ Drained' + k = k
      BY <1>8, <1>10
    <3>2. QED
      BY <1>9, <2>1, <3>1
  <2>3. Drained' >= 0
    BY <1>10
  <2>4. QED
    BY <2>2, <2>3 DEF MainBuffer, Entry
<1>12. TypeOK'
  BY <1>1, <1>2, <1>3, <1>7 DEF TypeOK, Labels
<1>13. MainControl'
  BY <1>3, <1>4 DEF MainControl
<1>14. ASSUME NEW t \in Workers
       PROVE  Lane(t)' /\ Flags(t)'
  <2>1. /\ mem[Gate(t)] = Done /\ pc[t] = "wait" /\ ran[t] = round /\ buf[t] = << >>
    BY <1>6 DEF Reported, LaneIs
  <2>2. Past' = round /\ buf'[t] = buf[t] /\ 0 < Closes(t)'
    BY <1>1, <1>4, <1>7, Names DEF Past, Closes
  <2>3. Resting(t)'
    BY <1>1, <1>3, <1>10, <2>1, <2>2 DEF Resting, LaneIs
  <2>4. Flags(t)'
    BY <1>4 DEF Flags
  <2>5. QED
    BY <2>3, <2>4 DEF Lane
<1>15. LastSees'
  BY <1>4 DEF LastSees
<1>16. QED
  BY <1>11, <1>12, <1>13, <1>14, <1>15 DEF IInv

-----------------------------------------------------------------------------
(* The gates hold Idle and the workers wait for them to open.              *)
LEMMA InitInv == Init => IInv
<1>1. SUFFICES ASSUME Init
      PROVE  IInv
  OBVIOUS
<1>2. /\ pc["main"] = "start" /\ \A t \in Workers : pc[t] = "await"
      /\ \A t \in Threads : buf[t] = << >>
      /\ \A t \in Workers : mem[Gate(t)] = 0 /\ ran[t] = 0
      /\ round = 0
  BY <1>1, Names DEF Init
<1>3. TypeOK
  <2>1. << >> \in Seq(Entries)
    BY EmptySeq
  <2>2. buf \in [Threads -> Seq(Entries)]
    BY <1>1, <2>1 DEF Init
  <2>3. QED
    BY <1>1, <2>2, StoreBufferAssumption DEF Init, TypeOK
<1>4. ~ InRound
  BY <1>2 DEF InRound
<1>5. Drained = 2
  BY <1>2, Names, ScriptStores DEF Drained
<1>6. MainBuffer
  BY <1>2, <1>5, Names DEF MainBuffer
<1>7. MainControl
  BY <1>2, <1>4 DEF MainControl
<1>8. LastSees
  BY <1>4 DEF LastSees
<1>9. ASSUME NEW t \in Workers
      PROVE  Lane(t) /\ Flags(t)
  <2>1. Closes(t) <= Drained /\ Drained < Opens(t) /\ Past = 0
    BY <1>2, <1>4, <1>5 DEF Closes, Opens, Past
  <2>2. Closed(t)
    BY <1>2, <2>1, Names DEF Closed, LaneIs, Idle
  <2>3. QED
    BY <1>4, <2>2 DEF Lane, Flags
<1>10. QED
  BY <1>3, <1>6, <1>7, <1>8, <1>9 DEF IInv

(* What a step that changes nothing keeps.                                 *)
LEMMA StutterKeeps ==
  ASSUME IInv, UNCHANGED vars
  PROVE  IInv'
<1>1. seqcst' = seqcst /\ mem' = mem /\ buf' = buf /\ pc' = pc /\ round' = round /\ ran' = ran
  BY DEF vars
<1>2. /\ TypeOK /\ MainBuffer /\ MainControl /\ LastSees
      /\ \A t \in Workers : Lane(t) /\ Flags(t)
  BY DEF IInv
<1>3. Drained' = Drained /\ InRound' = InRound /\ MainBuffer'
  BY <1>1, <1>2, MainSame
<1>4. TypeOK'
  BY <1>1, <1>2 DEF TypeOK
<1>5. ASSUME NEW t \in Workers
      PROVE  /\ Lane(t)' /\ Flags(t)' /\ Outcome(t)' = Outcome(t)
             /\ Reported(t) => Reported(t)'
  <2>1. Lane(t)'
    BY <1>1, <1>2, <1>3, LaneSame
  <2>2. Flags(t)'
    BY <1>1, <1>2, <1>3 DEF Flags, Closes
  <2>3. Reported(t) => Reported(t)'
    BY <1>1, <1>3 DEF Reported, LaneIs, Opens, Closes
  <2>4. QED
    BY <1>1, <2>1, <2>2, <2>3 DEF Outcome
<1>6. MainControl'
  BY <1>1, <1>2, <1>3, <1>5, Names DEF MainControl
<1>7. LastSees'
  BY <1>1, <1>2, <1>3, <1>5 DEF LastSees
<1>8. QED
  BY <1>3, <1>4, <1>5, <1>6, <1>7 DEF IInv

(* Every step keeps the invariant.                                         *)
LEMMA NextInv == IInv /\ [Next]_vars => IInv'
<1> SUFFICES ASSUME IInv, [Next]_vars
    PROVE  IInv'
  OBVIOUS
<1>1. CASE UNCHANGED vars
  BY <1>1, StutterKeeps
<1>2. CASE Terminated
  BY <1>2, StutterKeeps DEF Terminated
<1>3. CASE Main
  BY <1>3, StartRoundKeeps, AwaitDoneKeeps, EndRoundKeeps, StopWorkersKeeps DEF Main
<1>4. ASSUME NEW t \in Workers, Worker(t)
      PROVE  IInv'
  BY <1>4, AwaitRunKeeps, SetFlagKeeps, LoadOtherKeeps, AwaitResetKeeps DEF Worker
<1>5. ASSUME NEW t \in Threads, Drain(t)
      PROVE  IInv'
  <2>1. t \in Workers \/ t = "main"
    BY DEF Threads
  <2>2. QED
    BY <1>5, <2>1, WorkerDrainKeeps, MainDrainKeeps
<1>6. QED
  BY <1>1, <1>2, <1>3, <1>4, <1>5 DEF Next

(* The invariant: main's buffer is the end of its script, and each worker  *)
(* is where the script, its gate and its buffer say.                       *)
THEOREM DekkerInvariant == Spec => []IInv
  BY InitInv, NextInv, PTL DEF Spec

(* Memory, buffers and threads hold what they may.                         *)
THEOREM DekkerTypeOK == Spec => []TypeOK
<1>1. IInv => TypeOK
  BY DEF IInv
<1>2. QED
  BY <1>1, DekkerInvariant, PTL

(* With seq_cst stores and loads the two workers never both load 0: the    *)
(* outcome that store_buffer.cpp:11 calls forbidden, for any number of     *)
(* rounds.                                                                 *)
THEOREM DekkerForbidsZeros == Spec => []NotBothZero
<1>1. IInv => NotBothZero
  <2>1. SUFFICES ASSUME IInv, pc["main"] = "check", seqcst
        PROVE  \E t \in Workers : Load("main", Result(t)) = 1
    BY DEF NotBothZero
  <2>2. InRound /\ buf["main"] = << >> /\ \A t \in Workers : Reported(t)
    BY <2>1, AtCheck
  <2>3. \A t \in Workers : ran[t] = round /\ buf[t] = << >>
    BY <2>2 DEF Reported, LaneIs
  <2>4. PICK t \in Workers : Outcome(t) = 1
    BY <2>1, <2>2, <2>3 DEF IInv, LastSees
  <2>5. Len(buf[t]) = 0
    BY <2>3
  <2>6. mem[Result(t)] = 1
    BY <2>4, <2>5 DEF Outcome
  <2>7. Load("main", Result(t)) = mem[Result(t)]
    BY <2>2, EmptyLoads
  <2>8. QED
    BY <2>6, <2>7
<1>2. QED
  BY <1>1, DekkerInvariant, PTL

(* The rounds do not overlap, relaxed or not: the two gates keep a worker  *)
(* from running a round twice or against flags that main has yet to clear. *)
THEOREM DekkerRoundsApart == Spec => []RoundsApart
<1>1. IInv => RoundsApart
  <2>1. SUFFICES ASSUME IInv
        PROVE  RoundsApart
    OBVIOUS
  <2>2. MainControl /\ \A t \in Workers : Lane(t) /\ Flags(t)
    BY <2>1 DEF IInv
  <2>3. ASSUME NEW t \in Workers, pc[t] \in {"store", "load"}
        PROVE  /\ ran[t] = round - 1 /\ pc["main"] \in {"wait_a", "wait_b"}
               /\ pc[t] = "store" => Load(t, Flag(t)) = 0
    <3>1. Running(t)
      BY <2>2, <2>3
      DEF Lane, Resting, Closed, Running, Reporting, Reported, Stopped, LaneIs
    <3>2. InRound /\ Opens(t) <= Drained /\ ran[t] = round - 1
          /\ (pc[t] = "store" => buf[t] = << >>)
      BY <3>1 DEF Running, LaneIs
    <3>3. pc["main"] # "check"
      BY <2>1, <2>3, AtCheck DEF Reported, LaneIs
    <3>4. Closes(t) + 2 <= Drained
      BY <2>1, <3>2, Reached DEF Opens, Closes
    <3>5. pc[t] = "store" => mem[Flag(t)] = 0
      BY <2>2, <3>2, <3>4 DEF Flags
    <3>6. QED
      BY <3>2, <3>3, <3>5, EmptyLoads DEF InRound
  <2>4. pc["main"] = "check" => \A t \in Workers : ran[t] = round
    BY <2>1, AtCheck DEF Reported, LaneIs
  <2>5. QED
    BY <2>3, <2>4 DEF RoundsApart
<1>2. QED
  BY <1>1, DekkerInvariant, PTL
=============================================================================
