---------------------------- MODULE Logger_proofs ----------------------------
(***************************************************************************)
(* Theorems about Logger, for any capacity, any number of iterations and   *)
(* all three modes.                                                        *)
(*                                                                         *)
(* The logger makes two tests before it ends, of `done' and of the ring,   *)
(* and pushes may come between them.  The argument: `done' is set after    *)
(* the last push, so from the moment the logger has seen it nothing more   *)
(* is pushed, and the acquire makes every push visible; the test of the    *)
(* ring after it is therefore exact (Handshake).  What has been pushed is  *)
(* one increasing sequence, of which popping only moves the boundary       *)
(* between logged and queued (Records).                                    *)
(***************************************************************************)
EXTENDS Logger, SequenceTheorems, TLAPS

(* A queue that is not empty has a head and a tail.                        *)
LEMMA HeadAndTail ==
  ASSUME NEW S, NEW q \in Seq(S), q # << >>
  PROVE  /\ Len(q) \in Nat /\ Len(q) >= 1
         /\ Head(q) \in S /\ Head(q) = q[1]
         /\ Tail(q) \in Seq(S) /\ Len(Tail(q)) = Len(q) - 1
         /\ \A k \in 1 .. Len(q) - 1 : Tail(q)[k] = q[k + 1]
  BY EmptySeq, LenProperties, HeadTailProperties

(* Two functions put end to end, when the second grows by one.             *)
LEMMA JoinGrows ==
  ASSUME NEW a \in Nat, NEW b \in Nat, NEW s, NEW t, NEW u,
         \A k \in 1 .. b : u[k] = t[k],
         NEW f, f = [k \in 1 .. a + b |-> IF k <= a THEN s[k] ELSE t[k - a]],
         NEW g, g = [k \in 1 .. a + b + 1 |-> IF k <= a THEN s[k] ELSE u[k - a]]
  PROVE  (\A k \in 1 .. a + b : g[k] = f[k]) /\ g[a + b + 1] = u[b + 1]
<1>1. /\ a + b + 1 \in 1 .. a + b + 1 /\ ~ (a + b + 1 <= a)
      /\ a + b + 1 - a = b + 1
  OBVIOUS
<1>2. g[a + b + 1] = u[b + 1]
  BY <1>1
<1>3. ASSUME NEW k \in 1 .. a + b
      PROVE  g[k] = f[k]
  OBVIOUS
<1>4. QED
  BY <1>2, <1>3

(* The same, when the first of the second joins the first.                 *)
LEMMA JoinShifts ==
  ASSUME NEW a \in Nat, NEW b \in Nat, NEW s, NEW t, NEW v, NEW u,
         \A k \in 1 .. a : v[k] = s[k], v[a + 1] = t[1],
         \A k \in 1 .. b - 1 : u[k] = t[k + 1],
         NEW f, f = [k \in 1 .. a + b |-> IF k <= a THEN s[k] ELSE t[k - a]],
         NEW g, g = [k \in 1 .. a + b |-> IF k <= a + 1 THEN v[k] ELSE u[k - (a + 1)]]
  PROVE  g = f
<1>1. ASSUME NEW k \in 1 .. a + b
      PROVE  g[k] = f[k]
  <2>1. CASE k <= a
    BY <2>1
  <2>2. CASE k = a + 1
    BY <2>2
  <2>3. CASE k > a + 1
    <3>1. /\ ~ (k <= a + 1) /\ ~ (k <= a)
          /\ k - (a + 1) \in 1 .. b - 1 /\ k - (a + 1) + 1 = k - a
      BY <2>3
    <3>2. QED
      BY <3>1
  <2>4. QED
    BY <2>1, <2>2, <2>3
<1>2. QED
  BY <1>1

(* The numbers of records.                                                 *)
LEMMA Lengths ==
  ASSUME TypeOK
  PROVE  /\ pops \in Nat /\ Len(queue) \in Nat /\ pushes \in Nat
         /\ pushes = pops + Len(queue)
         /\ Cap \in Nat \ {0} /\ Iters \in Nat /\ i \in Int /\ dropped \in Nat
         /\ popsSeen \in Int /\ pushesSeen \in Int
<1>1. pops \in Nat /\ Len(queue) \in Nat
  BY LenProperties DEF TypeOK, pops
<1>2. pushes = pops + Len(queue) /\ pushes \in Nat
  BY <1>1 DEF pushes
<1>3. i \in Int /\ dropped \in Nat /\ popsSeen \in Int /\ pushesSeen \in Int
  BY LoggerAssumption DEF TypeOK
<1>4. QED
  BY <1>1, <1>2, <1>3, LoggerAssumption

(* Logged records are the older part of those pushed.                      *)
LEMMA PushedParts ==
  ASSUME TypeOK
  PROVE  /\ \A k \in 1 .. pops : Pushed[k] = logged[k]
         /\ \A k \in 1 .. Len(queue) : Pushed[pops + k] = queue[k]
<1>1. pops \in Nat /\ Len(queue) \in Nat /\ pushes = pops + Len(queue)
  BY Lengths
<1>2. ASSUME NEW k \in 1 .. pops
      PROVE  Pushed[k] = logged[k]
  <2>1. k \in 1 .. pushes /\ k <= pops
    BY <1>1
  <2>2. QED
    BY <2>1 DEF Pushed
<1>3. ASSUME NEW k \in 1 .. Len(queue)
      PROVE  Pushed[pops + k] = queue[k]
  <2>1. pops + k \in 1 .. pushes /\ ~ (pops + k <= pops)
    BY <1>1
  <2>2. Pushed[pops + k] = queue[(pops + k) - pops]
    BY <2>1 DEF Pushed
  <2>3. (pops + k) - pops = k
    BY <1>1
  <2>4. QED
    BY <2>2, <2>3
<1>4. QED
  BY <1>2, <1>3

(* Records are numbers of iterations.                                      *)
LEMMA PushedType == TypeOK => \A k \in 1 .. pushes : Pushed[k] \in 1 .. Iters
<1> SUFFICES ASSUME TypeOK, NEW k \in 1 .. pushes
             PROVE  Pushed[k] \in 1 .. Iters
  OBVIOUS
<1> DEFINE p == pops
           q == Len(queue)
<1>1. /\ p \in Nat /\ q \in Nat /\ pushes = p + q
      /\ \A n \in 1 .. p : Pushed[n] = logged[n] /\ logged[n] \in 1 .. Iters
      /\ \A n \in 1 .. q : Pushed[p + n] = queue[n] /\ queue[n] \in 1 .. Iters
  BY Lengths, PushedParts, ElementOfSeq DEF TypeOK, pops
<1> HIDE DEF p, q
<1>2. CASE k <= p
  BY <1>1, <1>2
<1>3. CASE k > p
  <2>1. k - p \in 1 .. q /\ p + (k - p) = k
    BY <1>1, <1>3
  <2>2. QED
    BY <1>1, <2>1
<1>4. QED
  BY <1>1, <1>2, <1>3

(* Initially nothing has been pushed.                                      *)
LEMMA InitIInv == Init => IInv
<1> SUFFICES ASSUME Init
             PROVE  IInv
  OBVIOUS
<1>1. pops = 0 /\ Len(queue) = 0 /\ pushes = 0
  BY EmptySeq DEF Init, pops, pushes
<1>2. queue \in Seq(1 .. Iters) /\ logged \in Seq(1 .. Iters)
  BY EmptySeq DEF Init
<1>3. TypeOK
  <2>1. 1 \in 1 .. Iters + 1 /\ 0 \in 0 .. Iters /\ 0 <= Cap
    BY LoggerAssumption
  <2>2. {done, doneSeen, joined} \subseteq BOOLEAN
    BY DEF Init
  <2>3. popsSeen \in 0 .. pops /\ pushesSeen \in 0 .. pushes
    BY <1>1 DEF Init
  <2>4. /\ i \in 1 .. Iters + 1 /\ dropped \in 0 .. Iters /\ Len(queue) <= Cap
    BY <1>1, <2>1 DEF Init
  <2>5. QED
    BY <1>2, <2>2, <2>3, <2>4 DEF Init, TypeOK
<1>4. Records /\ Handshake
  BY <1>1 DEF Init, Records, Handshake
<1>5. QED
  BY <1>3, <1>4 DEF IInv

(* What a push does: one more record, the one of this iteration.           *)
LEMMA PushIs ==
  ASSUME IInv, i <= Iters, logged' = logged, queue' = Append(queue, i)
  PROVE  /\ queue' \in Seq(1 .. Iters) /\ Len(queue') = Len(queue) + 1
         /\ pops' = pops /\ pushes' = pushes + 1
         /\ \A k \in 1 .. pushes : Pushed'[k] = Pushed[k]
         /\ Pushed'[pushes + 1] = i
<1>1. TypeOK
  BY DEF IInv
<1>2. i \in 1 .. Iters
  BY <1>1, LoggerAssumption DEF TypeOK
<1>3. /\ queue' \in Seq(1 .. Iters) /\ Len(queue') = Len(queue) + 1
      /\ \A k \in 1 .. Len(queue) : queue'[k] = queue[k]
      /\ queue'[Len(queue) + 1] = i
  BY <1>1, <1>2, AppendProperties DEF TypeOK
<1>4. pops' = pops /\ pushes' = pushes + 1
  BY <1>1, <1>3, Lengths DEF pops, pushes
<1>5. Pushed' = [k \in 1 .. pushes + 1 |->
                   IF k <= pops THEN logged[k] ELSE queue'[k - pops]]
  BY <1>4 DEF Pushed
<1>6. pops \in Nat /\ Len(queue) \in Nat /\ pushes = pops + Len(queue)
  BY <1>1, Lengths
<1>7. Pushed = [k \in 1 .. pops + Len(queue) |->
                  IF k <= pops THEN logged[k] ELSE queue[k - pops]]
  BY <1>6 DEF Pushed
<1>8. /\ \A k \in 1 .. pushes : Pushed'[k] = Pushed[k]
      /\ Pushed'[pushes + 1] = queue'[Len(queue) + 1]
  BY <1>3, <1>5, <1>6, <1>7, JoinGrows
<1>9. QED
  BY <1>3, <1>4, <1>8

(* What a pop does: the oldest queued record is now the youngest logged.   *)
LEMMA PopIs ==
  ASSUME TypeOK, queue # << >>,
         logged' = Append(logged, Head(queue)), queue' = Tail(queue)
  PROVE  /\ queue' \in Seq(1 .. Iters) /\ Len(queue') = Len(queue) - 1
         /\ logged' \in Seq(1 .. Iters)
         /\ pops' = pops + 1 /\ pushes' = pushes /\ Pushed' = Pushed
<1>1. /\ queue \in Seq(1 .. Iters) /\ logged \in Seq(1 .. Iters)
  BY DEF TypeOK
<1>2. /\ Head(queue) \in 1 .. Iters /\ Head(queue) = queue[1]
      /\ queue' \in Seq(1 .. Iters) /\ Len(queue') = Len(queue) - 1
      /\ \A k \in 1 .. Len(queue) - 1 : queue'[k] = queue[k + 1]
      /\ Len(queue) >= 1
  BY <1>1, HeadAndTail
<1>3. /\ logged' \in Seq(1 .. Iters) /\ Len(logged') = Len(logged) + 1
      /\ \A k \in 1 .. Len(logged) : logged'[k] = logged[k]
      /\ logged'[Len(logged) + 1] = queue[1]
  BY <1>1, <1>2, AppendProperties
<1>4. pops' = pops + 1 /\ pushes' = pushes
  BY <1>2, <1>3, Lengths DEF pops, pushes
<1>5. Pushed' = [k \in 1 .. pushes |->
                   IF k <= pops + 1 THEN logged'[k] ELSE queue'[k - (pops + 1)]]
  BY <1>4 DEF Pushed
<1>6. pops \in Nat /\ Len(queue) \in Nat /\ pushes = pops + Len(queue)
  BY Lengths
<1>7. Pushed = [k \in 1 .. pops + Len(queue) |->
                  IF k <= pops THEN logged[k] ELSE queue[k - pops]]
  BY <1>6 DEF Pushed
<1>8. Pushed' = Pushed
  BY <1>2, <1>3, <1>5, <1>6, <1>7, JoinShifts DEF pops
<1>9. QED
  BY <1>2, <1>3, <1>4, <1>8

(* Records survives a step of a thread that pushes and drops nothing.      *)
LEMMA RecordsStay ==
  ASSUME Records, mode' = mode, i' = i, dropped' = dropped,
         pushes' = pushes, Pushed' = Pushed
  PROVE  Records'
  BY DEF Records

(* The hot thread logs one record: pushed, or dropped for want of room.    *)
LEMMA LogIInv == IInv /\ Log => IInv'
<1> SUFFICES ASSUME IInv, Log
             PROVE  IInv'
  OBVIOUS
<1> USE DEF Log, logger
<1>1. TypeOK /\ Records /\ Handshake /\ i \in 1 .. Iters /\ i' = i + 1
  BY LoggerAssumption DEF IInv, TypeOK
<1>2. done = FALSE /\ done' = FALSE /\ doneSeen' = FALSE /\ joined' = joined
  BY <1>1, Lengths DEF Handshake, TypeOK
<1>3. logPc' = logPc /\ logPc \in {"pop", "done"} /\ ~ joined
  BY <1>1, <1>2 DEF Handshake, TypeOK
<1>4. CASE mode # "mutex" /\ pushes - popsSeen >= Cap
  <2>1. /\ queue' = queue /\ dropped' = dropped + 1 /\ mode = "drop"
        /\ pops' = pops /\ pushes' = pushes /\ Pushed' = Pushed
    BY <1>4 DEF pops, pushes, Pushed
  <2>2. dropped + 1 \in 0 .. Iters
    <3>1. dropped \in Nat /\ i \in Int /\ Iters \in Nat
      BY <1>1, Lengths
    <3>2. pushes \in Nat /\ i <= Iters /\ pushes + dropped = i - 1
      BY <1>1, Lengths DEF Records
    <3>3. QED
      BY <3>1, <3>2
  <2>3. TypeOK'
    <3>1. i' \in 1 .. Iters + 1 /\ dropped' \in 0 .. Iters
      BY <1>1, <2>1, <2>2, LoggerAssumption
    <3>2. QED
      BY <1>1, <2>1, <3>1 DEF TypeOK
  <2>4. Records'
    <3>1. pushes' + dropped' = i' - 1
      <4>1. pushes \in Int /\ dropped \in Int /\ i \in Int
        BY <1>1, Lengths
      <4>2. QED
        BY <1>1, <2>1, <4>1 DEF Records
    <3>2. ASSUME NEW k \in 1 .. pushes'
          PROVE  Pushed'[k] < i' /\ \A j \in 1 .. k - 1 : Pushed'[j] < Pushed'[k]
      <4>1. Pushed[k] \in Int
        BY <1>1, <2>1, Lengths, PushedType
      <4>2. QED
        BY <1>1, <2>1, <4>1 DEF Records
    <3>3. QED
      BY <2>1, <3>1, <3>2 DEF Records
  <2>5. Handshake'
    BY <1>1, <1>2, <1>3, <2>1 DEF Handshake
  <2>6. QED
    BY <2>3, <2>4, <2>5 DEF IInv
<1>5. CASE ~ (mode # "mutex" /\ pushes - popsSeen >= Cap)
  <2>1. queue' = Append(queue, i) /\ dropped' = dropped
    BY <1>5
  <2>2. /\ queue' \in Seq(1 .. Iters) /\ Len(queue') = Len(queue) + 1
        /\ pops' = pops /\ pushes' = pushes + 1
        /\ \A k \in 1 .. pushes : Pushed'[k] = Pushed[k]
        /\ Pushed'[pushes + 1] = i
    BY <1>1, <2>1, PushIs
  <2>3. TypeOK'
    <3>1. mode # "mutex" => Len(queue') <= Cap
      <4>1. popsSeen <= pops
        BY <1>1, Lengths DEF TypeOK
      <4>2. QED
        BY <1>1, <1>5, <2>2, <4>1, Lengths
    <3>2. i' \in 1 .. Iters + 1 /\ pushesSeen' \in 0 .. pushes'
      BY <1>1, <2>2, LoggerAssumption, Lengths DEF TypeOK
    <3>3. QED
      BY <1>1, <2>1, <2>2, <3>1, <3>2 DEF TypeOK
  <2>4. Records'
    <3>1. pushes' + dropped' = i' - 1
      <4>1. pushes \in Int /\ dropped \in Int /\ i \in Int
        BY <1>1, Lengths
      <4>2. QED
        BY <1>1, <2>1, <2>2, <4>1 DEF Records
    <3>2. ASSUME NEW k \in 1 .. pushes'
          PROVE  /\ Pushed'[k] < i' /\ \A j \in 1 .. k - 1 : Pushed'[j] < Pushed'[k]
                 /\ mode # "drop" => Pushed'[k] = k
      <4>1. CASE k = pushes + 1
        <5>1. \A j \in 1 .. k - 1 : j \in 1 .. pushes
          BY <1>1, <4>1, Lengths
        <5>2. mode # "drop" => i = pushes + 1
          BY <1>1, Lengths DEF Records
        <5>3. QED
          BY <1>1, <2>2, <4>1, <5>1, <5>2 DEF Records
      <4>2. CASE k # pushes + 1
        <5>1. k \in 1 .. pushes /\ \A j \in 1 .. k - 1 : j \in 1 .. pushes
          <6>1. pushes \in Nat /\ pushes' = pushes + 1
            BY <1>1, <2>2, Lengths
          <6>2. QED
            BY <4>2, <6>1
        <5>2. /\ Pushed[k] < i /\ \A j \in 1 .. k - 1 : Pushed[j] < Pushed[k]
              /\ mode # "drop" => Pushed[k] = k
          BY <1>1, <5>1 DEF Records
        <5>3. Pushed[k] < i'
          <6>1. Pushed[k] \in Int
            BY <1>1, <5>1, Lengths, PushedType
          <6>2. QED
            BY <1>1, <5>2, <6>1
        <5>4. QED
          BY <2>2, <5>1, <5>2, <5>3
      <4>3. QED
        BY <4>1, <4>2
    <3>3. mode # "drop" => dropped' = 0
      BY <1>1, <2>1 DEF Records
    <3>4. QED
      BY <3>1, <3>2, <3>3 DEF Records
  <2>5. Handshake'
    BY <1>1, <1>2, <1>3, <2>2 DEF Handshake
  <2>6. QED
    BY <2>3, <2>4, <2>5 DEF IInv
<1>6. QED
  BY <1>4, <1>5

(* A step that moves no record leaves the counts alone.                    *)
LEMMA SameCounts ==
  ASSUME queue' = queue, logged' = logged
  PROVE  pops' = pops /\ pushes' = pushes /\ Pushed' = Pushed
  BY DEF pops, pushes, Pushed

(* The hot thread sets the flag after its last record, and then it joins.  *)
LEMMA HotEndsIInv == IInv /\ (SetDone \/ Join) => IInv'
<1> SUFFICES ASSUME IInv, SetDone \/ Join
             PROVE  IInv'
  OBVIOUS
<1> USE DEF SetDone, Join, logger
<1>1. /\ TypeOK /\ Records /\ Handshake
      /\ pops' = pops /\ pushes' = pushes /\ Pushed' = Pushed
  BY SameCounts DEF IInv
<1>2. done' \in BOOLEAN /\ joined' \in BOOLEAN /\ doneSeen' \in BOOLEAN
  BY <1>1 DEF TypeOK
<1>3. TypeOK'
  BY <1>1, <1>2 DEF TypeOK
<1>4. Records'
  BY <1>1, RecordsStay
<1>5. Handshake'
  <2>1. done' => i' = Iters + 1
    <3>1. i \in 1 .. Iters + 1 /\ Iters \in Nat
      BY <1>1, LoggerAssumption DEF TypeOK
    <3>2. SetDone => i' = Iters + 1
      BY <3>1
    <3>3. Join => done /\ i' = i
      OBVIOUS
    <3>4. QED
      BY <1>1, <3>2, <3>3 DEF Handshake
  <2>2. QED
    BY <1>1, <2>1 DEF Handshake
<1>6. QED
  BY <1>3, <1>4, <1>5 DEF IInv

(* A pop, from the ring or from the deque.                                 *)
LEMMA PopIInv ==
  ASSUME IInv, queue # << >>, logPc = "pop", UNCHANGED <<logPc, mode, popsSeen,
         pushesSeen, doneSeen, hot>>,
         mode # "mutex" => pops # pushesSeen,
         logged' = Append(logged, Head(queue)), queue' = Tail(queue)
  PROVE  IInv'
<1> USE DEF hot
<1>1. /\ TypeOK /\ Records /\ Handshake
  BY DEF IInv
<1>2. /\ queue' \in Seq(1 .. Iters) /\ Len(queue') = Len(queue) - 1
      /\ logged' \in Seq(1 .. Iters)
      /\ pops' = pops + 1 /\ pushes' = pushes /\ Pushed' = Pushed
  BY <1>1, PopIs
<1>3. /\ pops \in Nat /\ Len(queue) \in Nat /\ popsSeen \in 0 .. pops
      /\ pushesSeen \in Int /\ Cap \in Int
  BY <1>1, Lengths DEF TypeOK
<1>4. TypeOK'
  <2>1. popsSeen' \in 0 .. pops' /\ (mode # "mutex" => Len(queue') <= Cap)
    BY <1>1, <1>2, <1>3 DEF TypeOK
  <2>2. QED
    BY <1>1, <1>2, <2>1 DEF TypeOK
<1>5. Records'
  BY <1>1, <1>2, RecordsStay
<1>6. Handshake'
  <2>1. mode' # "mutex" => pops' <= pushesSeen'
    BY <1>1, <1>2, <1>3 DEF Handshake
  <2>2. QED
    BY <1>1, <2>1 DEF Handshake
<1>7. QED
  BY <1>4, <1>5, <1>6 DEF IInv

(* A test of the logger, or a store that becomes visible: no record moves. *)
LEMMA QuietIInv ==
  ASSUME IInv, queue' = queue, logged' = logged, mode' = mode, i' = i,
         dropped' = dropped, done' = done, joined' = joined,
         logPc' \in {"pop", "done", "empty", "ended"},
         popsSeen' \in 0 .. pops, pushesSeen' \in pushesSeen .. pushes,
         doneSeen' \in BOOLEAN, doneSeen => doneSeen', doneSeen' => done,
         logPc' \in {"empty", "ended"} => doneSeen',
         logPc' = "empty" => pushesSeen' = pushes,
         logPc' = "ended" => queue = << >>,
         joined => logPc' = "ended"
  PROVE  IInv'
<1>1. /\ TypeOK /\ Records /\ Handshake
      /\ pops' = pops /\ pushes' = pushes /\ Pushed' = Pushed
  BY SameCounts DEF IInv
<1>2. /\ pops \in Int /\ pushesSeen \in Int /\ pushesSeen >= 0 /\ pushes \in Int
  BY <1>1, Lengths DEF TypeOK
<1>3. TypeOK'
  <2>1. {done, doneSeen, joined}' \subseteq BOOLEAN
    BY <1>1 DEF TypeOK
  <2>2. pushesSeen' \in 0 .. pushes' /\ popsSeen' \in 0 .. pops'
    BY <1>1, <1>2
  <2>3. QED
    BY <1>1, <2>1, <2>2 DEF TypeOK
<1>4. Records'
  BY <1>1, RecordsStay
<1>5. Handshake'
  <2>1. mode' # "mutex" => pops' <= pushesSeen'
    BY <1>1, <1>2 DEF Handshake
  <2>2. (doneSeen' => done') /\ (done' => i' = Iters + 1)
    BY <1>1 DEF Handshake
  <2>3. QED
    BY <1>1, <2>1, <2>2 DEF Handshake
<1>6. QED
  BY <1>3, <1>4, <1>5 DEF IInv

(* The logger's steps.                                                     *)
LEMMA LoggerIInv == IInv /\ LoggerStep => IInv'
<1> SUFFICES ASSUME IInv, LoggerStep
             PROVE  IInv'
  OBVIOUS
<1> USE DEF hot
<1>1. /\ TypeOK /\ Handshake
      /\ popsSeen \in 0 .. pops /\ pushesSeen \in 0 .. pushes /\ doneSeen \in BOOLEAN
      /\ doneSeen => done
  BY DEF IInv, TypeOK, Handshake
<1>2. /\ pops \in Nat /\ Len(queue) \in Nat /\ pushes = pops + Len(queue)
      /\ queue \in Seq(1 .. Iters)
  BY <1>1, Lengths DEF TypeOK
<1>3. queue = << >> <=> Len(queue) = 0
  BY <1>2, EmptySeq
<1>4. pushesSeen \in pushesSeen .. pushes
  BY <1>1, <1>2
<1>5. joined => logPc = "ended"
  BY <1>1 DEF Handshake
<1>6. CASE TryPop
  <2>1. CASE pops = pushesSeen
    <3>1. QED
      BY <1>1, <1>4, <1>5, <1>6, <2>1, QuietIInv DEF TryPop
  <2>2. CASE pops # pushesSeen
    <3>1. pops < pushesSeen
      BY <1>1, <1>2, <1>6, <2>2 DEF TryPop, Handshake
    <3>2. queue # << >>
      BY <1>1, <1>2, <1>3, <3>1
    <3>3. QED
      BY <1>6, <2>2, <3>2, PopIInv DEF TryPop
  <2>3. QED
    BY <2>1, <2>2
<1>7. CASE TestDone
  <2>1. pushesSeen' \in pushesSeen .. pushes
    BY <1>1, <1>2, <1>7 DEF TestDone
  <2>2. QED
    BY <1>1, <1>5, <1>7, <2>1, QuietIInv DEF TestDone
<1>8. CASE TestEmpty
  <2>1. doneSeen /\ pushesSeen = pushes
    BY <1>1, <1>8 DEF TestEmpty, Handshake
  <2>2. logPc' = "ended" => queue = << >>
    BY <1>2, <1>3, <1>8, <2>1 DEF TestEmpty
  <2>3. QED
    BY <1>1, <1>4, <1>5, <1>8, <2>1, <2>2, QuietIInv DEF TestEmpty
<1>9. CASE PopLocked
  <2>1. CASE queue = << >>
    BY <1>1, <1>4, <1>5, <1>9, <2>1, QuietIInv DEF PopLocked
  <2>2. CASE queue # << >>
    BY <1>9, <2>2, PopIInv DEF PopLocked
  <2>3. QED
    BY <2>1, <2>2
<1>10. QED
  BY <1>6, <1>7, <1>8, <1>9 DEF LoggerStep

(* The hardware's steps.                                                   *)
LEMMA HardwareIInv == IInv /\ (PushVisible \/ PopVisible \/ DoneVisible) => IInv'
<1> SUFFICES ASSUME IInv, PushVisible \/ PopVisible \/ DoneVisible
             PROVE  IInv'
  OBVIOUS
<1> USE DEF hot, logger, PushVisible, PopVisible, DoneVisible
<1>1. TypeOK /\ Handshake
  BY DEF IInv
<1>2. /\ pops \in Nat /\ pushes \in Nat /\ pushesSeen \in 0 .. pushes
      /\ popsSeen \in 0 .. pops /\ doneSeen \in BOOLEAN
      /\ logPc \in {"pop", "done", "empty", "ended"}
  BY <1>1, Lengths DEF TypeOK
<1>3. /\ pushesSeen' \in pushesSeen .. pushes /\ popsSeen' \in 0 .. pops
      /\ logPc = "empty" => pushesSeen' = pushes
  BY <1>1, <1>2 DEF Handshake
<1>4. doneSeen' \in BOOLEAN /\ (doneSeen => doneSeen') /\ (doneSeen' => done)
  <2>1. doneSeen' = doneSeen \/ (doneSeen' = TRUE /\ done)
    OBVIOUS
  <2>2. (doneSeen => done) /\ doneSeen \in BOOLEAN
    BY <1>1, <1>2 DEF Handshake
  <2>3. CASE doneSeen' = doneSeen
    BY <2>2, <2>3
  <2>4. CASE doneSeen' = TRUE /\ done
    BY <2>4
  <2>5. QED
    BY <2>1, <2>3, <2>4
<1>5. /\ logPc \in {"empty", "ended"} => doneSeen'
      /\ logPc = "ended" => queue = << >>
      /\ joined => logPc = "ended"
  BY <1>1, <1>4 DEF Handshake
<1>6. QED
  BY <1>2, <1>3, <1>4, <1>5, QuietIInv

(* The invariant is inductive.                                             *)
LEMMA NextIInv == IInv /\ [Next]_vars => IInv'
<1>1. ASSUME IInv, UNCHANGED vars
      PROVE  IInv'
  <2>1. /\ TypeOK /\ Handshake
    BY <1>1 DEF IInv
  <2>2. /\ popsSeen \in 0 .. pops /\ pushesSeen \in pushesSeen .. pushes
        /\ doneSeen \in BOOLEAN /\ logPc \in {"pop", "done", "empty", "ended"}
    BY <2>1, Lengths DEF TypeOK
  <2>3. QED
    BY <1>1, <2>1, <2>2, QuietIInv DEF vars, hot, logger, Handshake
<1>2. QED
  BY <1>1, LogIInv, HotEndsIInv, LoggerIInv, HardwareIInv DEF Next, Hot, Terminated

(* The inductive invariant, of every behaviour.                            *)
THEOREM LoggerInvariant == Spec => []IInv
  BY InitIInv, NextIInv, PTL DEF Spec

(* Types and bounds: the ring never holds more than its capacity.          *)
THEOREM LoggerTypeOK == Spec => []TypeOK
<1>1. IInv => TypeOK
  BY DEF IInv
<1>2. QED
  BY <1>1, LoggerInvariant, PTL

(* The logger does not end before it has logged every record pushed, in    *)
(* either of its two loops, although it tests the flag and the ring apart. *)
THEOREM LoggerDrains == Spec => []NothingLeft
<1>1. ASSUME IInv, logPc = "ended"
      PROVE  queue = << >> /\ pops + dropped = Iters
  <2>1. TypeOK /\ queue = << >> /\ i = Iters + 1 /\ pushes + dropped = i - 1
    BY <1>1 DEF IInv, Handshake, Records
  <2>2. Len(queue) = 0
    BY <2>1, EmptySeq
  <2>3. /\ pops \in Int /\ dropped \in Int /\ Iters \in Int
        /\ pushes = pops + Len(queue)
    BY <2>1, Lengths
  <2>4. QED
    BY <2>1, <2>2, <2>3
<1>2. IInv => NothingLeft
  BY <1>1 DEF NothingLeft
<1>3. QED
  BY <1>2, LoggerInvariant, PTL

(* The log is in the order of the iterations, and has gaps only if records *)
(* were dropped.                                                           *)
THEOREM LoggerKeepsOrder == Spec => []LogInOrder
<1>1. ASSUME IInv
      PROVE  LogInOrder
  <2>1. TypeOK /\ Records
    BY <1>1 DEF IInv
  <2>2. /\ DOMAIN logged = 1 .. pops /\ pops \in Nat /\ pops <= pushes
        /\ pushes \in Nat
    BY <2>1, Lengths, LenProperties DEF TypeOK, pops
  <2>3. \A k \in 1 .. pops : k \in 1 .. pushes /\ Pushed[k] = logged[k]
    BY <2>1, <2>2, PushedParts
  <2>4. ASSUME NEW j \in 1 .. pops, NEW k \in 1 .. pops, j < k
        PROVE  logged[j] < logged[k]
    <3>1. j \in 1 .. k - 1
      BY <2>4
    <3>2. QED
      BY <2>1, <2>3, <3>1 DEF Records
  <2>5. mode # "drop" => \A k \in 1 .. pops : logged[k] = k
    BY <2>1, <2>3 DEF Records
  <2>6. QED
    BY <2>2, <2>4, <2>5 DEF LogInOrder
<1>2. QED
  BY <1>1, LoggerInvariant, PTL
=============================================================================
