------------------------- MODULE UdpReceiver_proofs -------------------------
(***************************************************************************)
(* Theorems about UdpReceiver and BaselineReceiver, for any number of      *)
(* buffers and senders, any batch, and any length of a sender's run.       *)
(*                                                                         *)
(* Two threads, the socket and the senders pass datagrams on.  The proof   *)
(* looks at all datagrams between the first that main read and the last    *)
(* that the socket holds as one sequence, the Stream.  Most steps only     *)
(* move a boundary between two parts of it, and so leave the facts about   *)
(* it alone (Transit): it is in order, and what is missing from it was     *)
(* lost, or skipped by main.  Only three kinds of step need an argument: a *)
(* datagram is sent, or leaves the middle of the stream (MissOne: the NIC  *)
(* drops it, or main cannot read it), or main takes it and counts the gap  *)
(* before it (GapIs).  The gap is compared with the datagrams missed by    *)
(* counting an interval of them between two datagrams of one sender        *)
(* (LossesAdd), and those that main skipped with the buffers that they     *)
(* cost (SkipCount).                                                       *)
(* The baseline has the same stream, of fewer parts (Journey).             *)
(*                                                                         *)
(* The last part is about Hist: the running sum of the buckets is compared *)
(* with the number of samples below a value, which defines the sample that *)
(* a percentile stands for.                                                *)
(***************************************************************************)
EXTENDS BaselineReceiver, SequenceTheorems, FiniteSetTheorems, WellFoundedInduction, TLAPS

(* Division with remainder. *)
LEMMA DivMod ==
  ASSUME NEW a \in Int, NEW m \in Nat \ {0}
  PROVE  /\ a % m \in 0 .. m - 1
         /\ a \div m \in Int
         /\ a = m * (a \div m) + (a % m)
  OBVIOUS

(* The remainder is the only one. *)
LEMMA DivModUnique ==
  ASSUME NEW a \in Int, NEW m \in Nat \ {0},
         NEW q \in Int, NEW s \in 0 .. m - 1,
         a = m * q + s
  PROVE  a % m = s
  OBVIOUS

(* Append is the concatenation of one element, and moves over another.     *)
LEMMA AppendMoves ==
  ASSUME NEW S, NEW a \in Seq(S), NEW b \in Seq(S), NEW x \in S
  PROVE  a \o Append(b, x) = Append(a \o b, x)
<1>1. <<x>> \in Seq(S) /\ a \o b \in Seq(S)
  BY ConcatProperties
<1>2. QED
  BY <1>1, AppendIsConcat, ConcatAssociative

(* The first n elements of b, passed on to the end of a: both parts of b   *)
(* are sequences and the whole is what it was.                             *)
Passed(S, a, b, n) ==
  /\ SubSeq(b, 1, n) \in Seq(S) /\ Len(SubSeq(b, 1, n)) = n
  /\ SubSeq(b, n + 1, Len(b)) \in Seq(S)
  /\ Len(SubSeq(b, n + 1, Len(b))) = Len(b) - n
  /\ (a \o SubSeq(b, 1, n)) \o SubSeq(b, n + 1, Len(b)) = (a \o << >>) \o b

(* The first elements of a queue are passed on to the sequence before it.  *)
LEMMA PassSome ==
  ASSUME NEW S, NEW a \in Seq(S), NEW b \in Seq(S), NEW n \in 0 .. Len(b)
  PROVE  Passed(S, a, b, n)
<1>1. Len(b) \in Nat
  BY LenProperties
<1>2. \A i \in 1 .. Len(b) : b[i] \in S
  BY ElementOfSeq
<1>3. /\ \A i \in 1 .. n : b[i] \in S
      /\ \A i \in n + 1 .. Len(b) : b[i] \in S
  BY <1>1, <1>2
<1>4. /\ SubSeq(b, 1, n) \in Seq(S) /\ Len(SubSeq(b, 1, n)) = n
      /\ SubSeq(b, n + 1, Len(b)) \in Seq(S)
      /\ Len(SubSeq(b, n + 1, Len(b))) = Len(b) - n
  BY <1>1, <1>3, SubSeqProperties
<1>5. SubSeq(b, 1, n) \o SubSeq(b, n + 1, Len(b)) = b
  <2>1. /\ 1 \in 1 .. Len(b) + 1 /\ n \in 1 - 1 .. Len(b) /\ Len(b) \in n .. Len(b)
    BY <1>1
  <2>2. SubSeq(b, 1, n) \o SubSeq(b, n + 1, Len(b)) = SubSeq(b, 1, Len(b))
    BY <2>1, ConcatAdjacentSubSeq
  <2>3. SubSeq(b, 1, Len(b)) = b
    BY SubSeqFull
  <2>4. QED
    BY <2>2, <2>3
<1>7. (a \o SubSeq(b, 1, n)) \o SubSeq(b, n + 1, Len(b)) = a \o b
  <2> DEFINE c == SubSeq(b, 1, n)
             d == SubSeq(b, n + 1, Len(b))
  <2>1. a \in Seq(S) /\ c \in Seq(S) /\ d \in Seq(S)
    BY <1>4
  <2>2. c \o d = b
    BY <1>5
  <2> HIDE DEF c, d
  <2>3. (a \o c) \o d = a \o (c \o d)
    BY ONLY <2>1, SMT
  <2>4. (a \o c) \o d = a \o b
    BY <2>2, <2>3, Zenon
  <2>5. QED
    BY <2>4 DEF c, d
<1>8. a \o << >> = a
  BY ConcatEmptySeq
<1>9. QED
  BY <1>4, <1>7, <1>8 DEF Passed

(* A queue is its head and its tail.                                       *)
LEMMA HeadAndTail ==
  ASSUME NEW S, NEW b \in Seq(S), b # << >>
  PROVE  /\ Len(b) \in Nat /\ Len(b) >= 1
         /\ Head(b) \in S /\ Tail(b) \in Seq(S) /\ Len(Tail(b)) = Len(b) - 1
         /\ b = <<Head(b)>> \o Tail(b)
<1>1. Len(b) \in Nat /\ Len(b) >= 1
  BY EmptySeq, LenProperties
<1>2. /\ Head(b) \in S /\ Tail(b) \in Seq(S) /\ Len(Tail(b)) = Len(b) - 1
      /\ Head(b) = b[1]
  BY HeadTailProperties
<1>3. /\ 1 \in 1 .. Len(b) /\ Len(b) \in 1 .. Len(b)
  BY <1>1
<1>4. SubSeq(b, 1, Len(b)) = <<b[1]>> \o SubSeq(b, 2, Len(b))
  BY <1>3, SubSeqRecursiveFirst
<1>5. QED
  BY <1>1, <1>2, <1>4, SubSeqFull, TailIsSubSeq

(* The first element of a queue is passed on to the sequence before it.    *)
LEMMA PassOne ==
  ASSUME NEW S, NEW a \in Seq(S), NEW b \in Seq(S), b # << >>
  PROVE  Append(a, Head(b)) \o Tail(b) = a \o b
<1>1. Head(b) \in S /\ Tail(b) \in Seq(S) /\ b = <<Head(b)>> \o Tail(b)
  BY HeadAndTail
<1>2. <<Head(b)>> \in Seq(S)
  BY <1>1
<1>3. QED
  BY <1>1, <1>2, AppendIsConcat, ConcatAssociative

(* The elements of a concatenation.                                        *)
LEMMA ConcatAt ==
  ASSUME NEW S, NEW a \in Seq(S), NEW b \in Seq(S)
  PROVE  /\ a \o b \in Seq(S)
         /\ Len(a) \in Nat /\ Len(b) \in Nat /\ Len(a \o b) = Len(a) + Len(b)
         /\ \A k \in 1 .. Len(a) : (a \o b)[k] = a[k]
         /\ \A k \in 1 .. Len(b) : (a \o b)[Len(a) + k] = b[k]
<1> DEFINE p == Len(a)
           q == Len(b)
           c == a \o b
<1>1. /\ p \in Nat /\ q \in Nat /\ c \in Seq(S) /\ Len(c) = p + q
      /\ \A i \in 1 .. p + q : c[i] = IF i <= p THEN a[i] ELSE b[i - p]
  BY LenProperties, ConcatProperties
<1> HIDE DEF p, q, c
<1>2. \A k \in 1 .. p : c[k] = a[k]
  BY <1>1
<1>3. ASSUME NEW k \in 1 .. q
      PROVE  c[p + k] = b[k]
  <2>1. p + k \in 1 .. p + q /\ ~ (p + k <= p) /\ (p + k) - p = k
    BY <1>1
  <2>2. QED
    BY <1>1, <2>1
<1>4. QED
  BY <1>1, <1>2, <1>3 DEF p, q, c

(* The members of a and b together are those of their concatenation.       *)
MembersJoin(a, b) == Members(a \o b) = Members(a) \cup Members(b)

(* It is so of any two sequences.                                          *)
LEMMA ConcatMembers ==
  ASSUME NEW S, NEW a \in Seq(S), NEW b \in Seq(S)
  PROVE  MembersJoin(a, b)
<1> USE DEF MembersJoin
<1> DEFINE p == Len(a)
           q == Len(b)
           c == a \o b
<1>1. /\ p \in Nat /\ q \in Nat /\ Len(c) = p + q
      /\ \A k \in 1 .. p : c[k] = a[k]
      /\ \A k \in 1 .. q : c[p + k] = b[k]
  BY ConcatAt
<1>2. /\ Members(a) = {a[k] : k \in 1 .. p}
      /\ Members(b) = {b[k] : k \in 1 .. q}
      /\ Members(c) = {c[k] : k \in 1 .. p + q}
  BY <1>1 DEF Members
<1> HIDE DEF p, q, c
<1>3. ASSUME NEW k \in 1 .. p + q
      PROVE  c[k] \in Members(a) \cup Members(b)
  <2>1. CASE k <= p
    <3>1. k \in 1 .. p
      BY <1>1, <2>1
    <3>2. QED
      BY <1>1, <1>2, <3>1
  <2>2. CASE k > p
    <3>1. k - p \in 1 .. q /\ p + (k - p) = k
      BY <1>1, <2>2
    <3>2. c[k] = b[k - p]
      BY <1>1, <3>1
    <3>3. QED
      BY <1>2, <3>1, <3>2
  <2>3. QED
    BY <1>1, <2>1, <2>2
<1>4. \A k \in 1 .. p : k \in 1 .. p + q
  BY <1>1
<1>5. \A k \in 1 .. q : p + k \in 1 .. p + q
  BY <1>1
<1>6. Members(a) \subseteq Members(c)
  BY <1>1, <1>2, <1>4
<1>7. ASSUME NEW k \in 1 .. q
      PROVE  b[k] \in Members(c)
  BY <1>1, <1>2, <1>5
<1>8. Members(b) \subseteq Members(c)
  BY <1>2, <1>7
<1>9. Members(c) \subseteq Members(a) \cup Members(b)
  BY <1>2, <1>3
<1>10. QED
  BY <1>6, <1>8, <1>9 DEF c

(* The member of a sequence of one.                                        *)
LEMMA OneMember ==
  ASSUME NEW S, NEW x \in S
  PROVE  <<x>> \in Seq(S) /\ Len(<<x>>) = 1 /\ <<x>>[1] = x /\ Members(<<x>>) = {x}
<1>1. <<x>> \in Seq(S) /\ Len(<<x>>) = 1 /\ <<x>>[1] = x
  OBVIOUS
<1>2. 1 .. 1 = {1}
  OBVIOUS
<1>3. Members(<<x>>) = {<<x>>[k] : k \in {1}}
  BY <1>1, <1>2 DEF Members
<1>4. QED
  BY <1>1, <1>3

(* Two ordered sequences, end to end, are ordered if the members of the    *)
(* first are below those of the second; and conversely.                    *)
LEMMA ConcatInOrder ==
  ASSUME NEW S, S \subseteq Int, NEW a \in Seq(S), NEW b \in Seq(S), NEW n, NEW gone
  PROVE  InOrder(a \o b, n, gone) <=>
           /\ InOrder(a, n, gone) /\ InOrder(b, n, gone)
           /\ \A x \in Members(a) : \A y \in Members(b) : x < y
<1> DEFINE p == Len(a)
           q == Len(b)
           c == a \o b
<1>1. /\ p \in Nat /\ q \in Nat /\ Len(c) = p + q
      /\ \A k \in 1 .. p : c[k] = a[k]
      /\ \A k \in 1 .. q : c[p + k] = b[k]
  BY ConcatAt
<1>2. /\ Members(a) = {a[k] : k \in 1 .. p}
      /\ Members(b) = {b[k] : k \in 1 .. q}
  BY DEF Members
<1> DEFINE Ord(s, l) == \A k \in 1 .. l :
                          /\ s[k] < n
                          /\ s[k] \notin gone
                          /\ \A j \in 1 .. k - 1 : s[j] < s[k]
<1>3. /\ InOrder(a, n, gone) <=> Ord(a, p)
      /\ InOrder(b, n, gone) <=> Ord(b, q)
      /\ InOrder(c, n, gone) <=> Ord(c, p + q)
  BY <1>1 DEF InOrder
<1> HIDE DEF p, q, c
<1>4. ASSUME Ord(c, p + q)
      PROVE  Ord(a, p) /\ Ord(b, q) /\ \A x \in Members(a) : \A y \in Members(b) : x < y
  <2>1. Ord(a, p)
    BY <1>1, <1>4
  <2>2. ASSUME NEW k \in 1 .. q
        PROVE  /\ b[k] < n /\ b[k] \notin gone
               /\ \A j \in 1 .. k - 1 : b[j] < b[k]
    <3>1. /\ p + k \in 1 .. p + q
          /\ \A j \in 1 .. k - 1 : p + j \in 1 .. (p + k) - 1 /\ j \in 1 .. q
      BY <1>1
    <3>2. QED
      BY <1>1, <1>4, <3>1
  <2>3. ASSUME NEW j \in 1 .. p, NEW k \in 1 .. q
        PROVE  a[j] < b[k]
    <3>1. p + k \in 1 .. p + q /\ j \in 1 .. (p + k) - 1
      BY <1>1
    <3>2. QED
      BY <1>1, <1>4, <3>1
  <2>4. QED
    BY <1>2, <2>1, <2>2, <2>3
<1>5. ASSUME Ord(a, p), Ord(b, q), \A x \in Members(a) : \A y \in Members(b) : x < y
      PROVE  Ord(c, p + q)
  <2>1. ASSUME NEW k \in 1 .. p + q
        PROVE  /\ c[k] < n /\ c[k] \notin gone
               /\ \A j \in 1 .. k - 1 : c[j] < c[k]
    <3>1. CASE k <= p
      <4>1. k \in 1 .. p /\ \A j \in 1 .. k - 1 : j \in 1 .. p
        BY <1>1, <3>1
      <4>2. QED
        BY <1>1, <1>5, <4>1
    <3>2. CASE k > p
      <4>1. k - p \in 1 .. q /\ p + (k - p) = k
        BY <1>1, <3>2
      <4>2. c[k] = b[k - p]
        BY <1>1, <4>1
      <4>3. ASSUME NEW j \in 1 .. k - 1
            PROVE  c[j] < c[k]
        <5>1. CASE j <= p
          <6>1. j \in 1 .. p
            BY <5>1, <1>1
          <6>2. QED
            BY <1>1, <1>2, <1>5, <4>1, <4>2, <6>1
        <5>2. CASE j > p
          <6>1. j - p \in 1 .. (k - p) - 1 /\ j - p \in 1 .. q /\ p + (j - p) = j
            BY <1>1, <5>2
          <6>2. c[j] = b[j - p]
            BY <1>1, <6>1
          <6>3. QED
            BY <1>5, <4>1, <4>2, <6>1, <6>2
        <5>3. QED
          BY <1>1, <5>1, <5>2
      <4>4. QED
        BY <1>5, <4>1, <4>2, <4>3
    <3>3. QED
      BY <1>1, <3>1, <3>2
  <2>2. QED
    BY <2>1
<1>6. QED
  BY <1>3, <1>4, <1>5 DEF c

(* What an ordered sequence says of its members.                           *)
LEMMA InOrderMembers ==
  ASSUME NEW s, NEW n, NEW gone, InOrder(s, n, gone)
  PROVE  \A x \in Members(s) : x < n /\ x \notin gone
  BY DEF InOrder, Members

(* A weaker bound, and one more datagram that is not in the sequence.      *)
LEMMA InOrderWeakens ==
  ASSUME NEW S, S \subseteq Int, NEW s \in Seq(S), NEW n \in Int, NEW m \in Int,
         n <= m, NEW gone, InOrder(s, n, gone),
         NEW x, x \notin Members(s)
  PROVE  InOrder(s, m, gone \cup {x})
<1>1. ASSUME NEW k \in 1 .. Len(s)
      PROVE  /\ s[k] < m /\ s[k] \notin gone \cup {x}
             /\ \A j \in 1 .. k - 1 : s[j] < s[k]
  <2>1. s[k] \in Int
    BY ElementOfSeq
  <2>2. s[k] \in Members(s)
    BY DEF Members
  <2>3. /\ s[k] < n /\ s[k] \notin gone
        /\ \A j \in 1 .. k - 1 : s[j] < s[k]
    BY DEF InOrder
  <2>4. s[k] < m
    BY <2>1, <2>3
  <2>5. QED
    BY <2>2, <2>3, <2>4
<1>2. QED
  BY <1>1 DEF InOrder

(* A datagram leaves the stream and is lost.                               *)
LEMMA DropInOrder ==
  ASSUME NEW S, S \subseteq Int, NEW a \in Seq(S), NEW b \in Seq(S), NEW x \in S,
         NEW n \in Int, NEW gone,
         InOrder(a \o (<<x>> \o b), n, gone)
  PROVE  /\ InOrder(a \o b, n, gone \cup {x})
         /\ Members(a \o (<<x>> \o b)) = Members(a \o b) \cup {x}
         /\ \A y \in Members(a) : y < x
         /\ x < n
<1>1. <<x>> \in Seq(S) /\ Members(<<x>>) = {x}
  BY OneMember
<1>2. <<x>> \o b \in Seq(S)
  BY <1>1, ConcatProperties
<1>3. /\ Members(<<x>> \o b) = {x} \cup Members(b)
      /\ Members(a \o (<<x>> \o b)) = Members(a) \cup Members(<<x>> \o b)
      /\ Members(a \o b) = Members(a) \cup Members(b)
  <2>1. /\ MembersJoin(<<x>>, b) /\ MembersJoin(a, <<x>> \o b)
        /\ MembersJoin(a, b)
    BY <1>1, <1>2, ConcatMembers
  <2>2. QED
    BY <1>1, <2>1 DEF MembersJoin
<1>4. /\ InOrder(a, n, gone) /\ InOrder(<<x>> \o b, n, gone)
      /\ \A y \in Members(a) : \A z \in Members(<<x>> \o b) : y < z
  BY <1>2, ConcatInOrder
<1>5. /\ InOrder(<<x>>, n, gone) /\ InOrder(b, n, gone)
      /\ \A y \in Members(<<x>>) : \A z \in Members(b) : y < z
  BY <1>1, <1>4, ConcatInOrder
<1>6. /\ \A y \in Members(a) : y < x
      /\ \A z \in Members(b) : x < z
      /\ x < n
  BY <1>1, <1>3, <1>4, <1>5, InOrderMembers
<1>7. x \notin Members(a) /\ x \notin Members(b) /\ x \in Int
  <2>1. x \in Int /\ ~ (x < x)
    OBVIOUS
  <2>2. QED
    BY <1>6, <2>1
<1>8. InOrder(a, n, gone \cup {x}) /\ InOrder(b, n, gone \cup {x})
  <2>1. n <= n
    OBVIOUS
  <2>2. QED
    BY <1>4, <1>5, <1>7, <2>1, InOrderWeakens
<1>9. \A y \in Members(a) : \A z \in Members(b) : y < z
  BY <1>3, <1>4
<1>10. InOrder(a \o b, n, gone \cup {x})
  BY <1>8, <1>9, ConcatInOrder
<1>11. QED
  BY <1>3, <1>6, <1>10
-----------------------------------------------------------------------------
(* A product grows with its factor.                                        *)
LEMMA TimesMonotonic ==
  ASSUME NEW a \in Int, NEW b \in Int, NEW m \in Nat, a <= b
  PROVE  a * m <= b * m
<1>1. (b - a) * m >= 0
  <2>1. b - a \in Nat
    OBVIOUS
  <2>2. QED
    BY <2>1
<1>2. (b - a) * m = b * m - a * m
  OBVIOUS
<1>3. a * m \in Int /\ b * m \in Int
  OBVIOUS
<1>4. QED
  BY <1>1, <1>2, <1>3

(* The constants are positive; a datagram's number is a natural one.       *)
LEMMA Numbers ==
  /\ Count \in Nat \ {0} /\ Senders \in Nat \ {0} /\ Batch \in Nat \ {0}
  /\ Senders * Count \in Nat
  /\ Datagrams \subseteq Nat
  BY ReceiverAssumption DEF Datagrams

(* Sequence numbers, and the number 0 of a sender.                         *)
LEMMA SeqAndFirst ==
  ASSUME NEW n \in Nat
  PROVE  /\ Seq_(n) \in 0 .. Count - 1
         /\ First(n) \in Nat /\ First(n) <= n /\ n = First(n) + Seq_(n)
         /\ n < Count => Seq_(n) = n /\ First(n) = 0
         /\ First(n) = 0 => n < Count
<1>1. Count \in Nat \ {0}
  BY Numbers
<1>2. /\ Seq_(n) \in 0 .. Count - 1
      /\ n \div Count \in Int
      /\ n = Count * (n \div Count) + Seq_(n)
  BY <1>1, DivMod DEF Seq_
<1>3. n \div Count >= 0
  <2>1. CASE n \div Count <= -1
    <3>1. (n \div Count) * Count <= (-1) * Count
      BY <1>1, <1>2, <2>1, TimesMonotonic
    <3>2. QED
      BY <1>1, <1>2, <3>1
  <2>2. QED
    BY <1>2, <2>1
<1>4. First(n) \in Nat /\ First(n) <= n /\ n = First(n) + Seq_(n)
  <2>1. First(n) = Count * (n \div Count)
    BY <1>1, <1>2 DEF First
  <2>2. Count * (n \div Count) \in Nat
    BY <1>1, <1>2, <1>3
  <2>3. QED
    BY <1>1, <1>2, <2>1, <2>2
<1>5. n < Count => Seq_(n) = n
  <2>1. n < Count => n \in 0 .. Count - 1 /\ n = Count * 0 + n
    BY <1>1
  <2>2. QED
    BY <1>1, <2>1, DivModUnique DEF Seq_
<1>6. QED
  BY <1>1, <1>2, <1>4, <1>5

(* The next datagram is of the same sender, or it is a sender's first.     *)
LEMMA FirstSucc ==
  ASSUME NEW n \in Nat
  PROVE  First(n + 1) \in {First(n), n + 1}
<1>1. Count \in Nat \ {0}
  BY Numbers
<1> DEFINE q == n \div Count
<1>2. /\ Seq_(n) \in 0 .. Count - 1
      /\ q \in Int
      /\ n = Count * q + Seq_(n)
  BY <1>1, DivMod DEF Seq_
<1> HIDE DEF q
<1>3. CASE Seq_(n) + 1 < Count
  <2>1. /\ n + 1 = Count * q + (Seq_(n) + 1) /\ Seq_(n) + 1 \in 0 .. Count - 1
        /\ n + 1 \in Int
    BY <1>1, <1>2, <1>3
  <2>2. Seq_(n + 1) = Seq_(n) + 1
    <3>1. (n + 1) % Count = Seq_(n) + 1
      BY <1>1, <1>2, <2>1, DivModUnique
    <3>2. QED
      BY <3>1 DEF Seq_
  <2>3. QED
    BY <1>2, <2>2 DEF First
<1>4. CASE ~ (Seq_(n) + 1 < Count)
  <2>1. /\ n + 1 = Count * (q + 1) + 0 /\ 0 \in 0 .. Count - 1 /\ q + 1 \in Int
        /\ n + 1 \in Int
    BY <1>1, <1>2, <1>4
  <2>2. Seq_(n + 1) = 0
    <3>1. (n + 1) % Count = 0
      BY <1>1, <2>1, DivModUnique
    <3>2. QED
      BY <3>1 DEF Seq_
  <2>3. QED
    BY <2>2 DEF First
<1>5. QED
  BY <1>3, <1>4

(* Where the next sender begins.                                           *)
LEMMA NextSender ==
  ASSUME NEW n \in Datagrams
  PROVE  LET m == (n \div Count + 1) * Count IN
           /\ m \in 0 .. Senders * Count
           /\ n < m
           /\ First(m) = m
<1>1. /\ Count \in Nat \ {0} /\ Senders \in Nat \ {0} /\ n \in Nat
      /\ Senders * Count \in Nat /\ n < Senders * Count
  BY Numbers DEF Datagrams
<1> DEFINE q == n \div Count
<1>2. /\ Seq_(n) \in 0 .. Count - 1 /\ q \in Int /\ n = Count * q + Seq_(n)
  BY <1>1, DivMod DEF Seq_
<1> HIDE DEF q
<1>3. (q + 1) * Count = Count * q + Count /\ (q + 1) * Count \in Int
  BY <1>1, <1>2
<1>4. n < (q + 1) * Count
  BY <1>1, <1>2, <1>3
<1>5. q + 1 <= Senders
  <2>1. CASE Senders <= q
    <3>1. Senders * Count <= q * Count
      BY <1>1, <1>2, <2>1, TimesMonotonic
    <3>2. q * Count = Count * q /\ q * Count \in Int
      BY <1>1, <1>2
    <3>3. QED
      BY <1>1, <1>2, <3>1, <3>2
  <2>2. QED
    BY <1>1, <1>2, <2>1
<1>6. (q + 1) * Count <= Senders * Count
  BY <1>1, <1>2, <1>5, TimesMonotonic
<1>7. First((q + 1) * Count) = (q + 1) * Count
  <2>1. 0 \in 0 .. Count - 1 /\ (q + 1) * Count = Count * (q + 1) + 0 /\ q + 1 \in Int
    BY <1>1, <1>2
  <2>2. ((q + 1) * Count) % Count = 0
    BY <1>1, <1>3, <2>1, DivModUnique
  <2>3. QED
    BY <1>3, <2>2 DEF First, Seq_
<1>8. QED
  BY <1>1, <1>3, <1>4, <1>6, <1>7 DEF q
-----------------------------------------------------------------------------
(* Concatenation, as an operator whose meaning the provers see only where  *)
(* it is needed.                                                           *)
Cat(s, t) == s \o t

(* Concatenation is associative.                                           *)
LEMMA CatJoins ==
  \A S : \A s, t, u \in Seq(S) :
    Cat(s, t) \in Seq(S) /\ Cat(Cat(s, t), u) = Cat(s, Cat(t, u))
<1>1. ASSUME NEW S, NEW s \in Seq(S), NEW t \in Seq(S), NEW u \in Seq(S)
      PROVE  s \o t \in Seq(S) /\ (s \o t) \o u = s \o (t \o u)
  BY ConcatProperties, ConcatAssociative
<1>2. QED
  BY <1>1 DEF Cat

(* The first of five sequences, and the rest.                              *)
LEMMA FirstAndRest ==
  ASSUME NEW S, NEW a \in Seq(S), NEW b \in Seq(S), NEW c \in Seq(S),
         NEW d \in Seq(S), NEW e \in Seq(S)
  PROVE  /\ Cat(Cat(Cat(b, c), d), e) \in Seq(S)
         /\ Cat(Cat(Cat(Cat(a, b), c), d), e) = Cat(a, Cat(Cat(Cat(b, c), d), e))
<1>1. Cat(b, c) \in Seq(S) /\ Cat(Cat(b, c), d) \in Seq(S)
  BY CatJoins
<1>2. Cat(Cat(Cat(b, c), d), e) \in Seq(S)
  BY <1>1, CatJoins
<1>3. Cat(Cat(Cat(a, b), c), d) = Cat(a, Cat(Cat(b, c), d))
  BY <1>1, CatJoins
<1>4. QED
  BY <1>1, <1>2, <1>3, CatJoins

(* The parts of the stream.                                                *)
LEMMA StreamParts ==
  ASSUME StreamTypeOK
  PROVE  /\ Datagrams \subseteq Int
         /\ got \in Seq(Datagrams) /\ events \in Seq(Datagrams)
         /\ chan \in Seq(Datagrams) /\ batch \in Seq(Datagrams)
         /\ sock \in Seq(Datagrams)
         /\ got \o events \in Seq(Datagrams)
         /\ got \o events \o chan \in Seq(Datagrams)
         /\ got \o events \o chan \o batch \in Seq(Datagrams)
         /\ Stream \in Seq(Datagrams)
<1>1. \A s, t \in Seq(Datagrams) : s \o t \in Seq(Datagrams)
  BY ConcatProperties
<1>2. /\ got \in Seq(Datagrams) /\ events \in Seq(Datagrams)
      /\ chan \in Seq(Datagrams) /\ batch \in Seq(Datagrams)
      /\ sock \in Seq(Datagrams)
  BY DEF TypeOK, StreamTypeOK
<1>3. Datagrams \subseteq Int
  BY Numbers
<1>4. QED
  BY <1>1, <1>2, <1>3 DEF Stream

(* What has been read, and the rest of the stream.                         *)
LEMMA RestOfStream ==
  ASSUME StreamTypeOK
  PROVE  /\ events \o chan \o batch \o sock \in Seq(Datagrams)
         /\ Stream = got \o (events \o chan \o batch \o sock)
<1>1. /\ got \in Seq(Datagrams) /\ events \in Seq(Datagrams)
      /\ chan \in Seq(Datagrams) /\ batch \in Seq(Datagrams)
      /\ sock \in Seq(Datagrams)
  BY DEF TypeOK, StreamTypeOK
<1>2. /\ Cat(Cat(Cat(events, chan), batch), sock) \in Seq(Datagrams)
      /\ Cat(Cat(Cat(Cat(got, events), chan), batch), sock)
           = Cat(got, Cat(Cat(Cat(events, chan), batch), sock))
  BY <1>1, FirstAndRest
<1>3. QED
  BY <1>2 DEF Stream, Cat

(* The last member of an ordered sequence is the largest.                  *)
LEMMA LastIsLargest ==
  ASSUME NEW S, S \subseteq Int, NEW s \in Seq(S), s # << >>, NEW n, NEW gone,
         InOrder(s, n, gone)
  PROVE  /\ s[Len(s)] \in Members(s) /\ s[Len(s)] \in S
         /\ \A x \in Members(s) : x <= s[Len(s)]
<1>1. Len(s) \in Nat /\ Len(s) >= 1 /\ Len(s) \in 1 .. Len(s)
  BY HeadAndTail
<1>2. \A k \in 1 .. Len(s) : s[k] \in S /\ s[k] \in Int
  BY ElementOfSeq
<1>3. ASSUME NEW k \in 1 .. Len(s)
      PROVE  s[k] <= s[Len(s)]
  <2>1. CASE k = Len(s)
    BY <1>2, <2>1
  <2>2. CASE k # Len(s)
    <3>1. k \in 1 .. Len(s) - 1
      BY <1>1, <2>2
    <3>2. s[k] < s[Len(s)]
      BY <1>1, <3>1 DEF InOrder
    <3>3. QED
      BY <1>1, <1>2, <3>2
  <2>3. QED
    BY <2>1, <2>2
<1>4. QED
  BY <1>1, <1>2, <1>3 DEF Members

(* A missed datagram is one of those sent.                                 *)
LEMMA MissedAre ==
  ASSUME StreamTypeOK
  PROVE  Missed \in SUBSET Datagrams
BY DEF StreamTypeOK, Missed

(* The datagrams read are below the frontier, and that below the others.   *)
LEMMA FrontierIs ==
  ASSUME StreamTypeOK, Transit
  PROVE  /\ Frontier \in Nat /\ Frontier <= sent /\ sent \in Nat
         /\ \A x \in Members(got) : x < Frontier
         /\ got # << >> => /\ got[Len(got)] \in Datagrams
                           /\ got[Len(got)] \in Members(got)
                           /\ Frontier = got[Len(got)] + 1
<1>1. sent \in Nat
  BY Numbers DEF TypeOK, StreamTypeOK
<1>2. CASE got = << >>
  <2>1. Frontier = 0
    BY <1>2 DEF Frontier
  <2>2. Members(got) = {}
    <3>1. Len(got) = 0
      BY <1>2, EmptySeq
    <3>2. 1 .. 0 = {}
      OBVIOUS
    <3>3. QED
      BY <3>1, <3>2 DEF Members
  <2>3. QED
    BY <1>1, <1>2, <2>1, <2>2
<1>3. CASE got # << >>
  <2>1. /\ events \o chan \o batch \o sock \in Seq(Datagrams)
        /\ Stream = got \o (events \o chan \o batch \o sock)
    BY RestOfStream
  <2>2. InOrder(got, sent, Missed)
    BY <2>1, StreamParts, ConcatInOrder DEF Transit
  <2>3. /\ got[Len(got)] \in Members(got) /\ got[Len(got)] \in Datagrams
        /\ \A x \in Members(got) : x <= got[Len(got)]
    BY <1>3, <2>2, StreamParts, LastIsLargest
  <2>4. got[Len(got)] < sent
    BY <2>2, <2>3, InOrderMembers
  <2>5. /\ \A x \in Members(got) : x \in Int
        /\ got[Len(got)] \in Nat
    <3>1. \A k \in 1 .. Len(got) : got[k] \in Int
      BY StreamParts, ElementOfSeq
    <3>2. QED
      BY <2>3, <3>1, Numbers DEF Members
  <2>6. Frontier = got[Len(got)] + 1
    BY <1>3 DEF Frontier
  <2>7. \A x \in Members(got) : x < got[Len(got)] + 1
    BY <2>3, <2>5
  <2>8. QED
    BY <1>1, <2>3, <2>4, <2>5, <2>6, <2>7
<1>4. QED
  BY <1>2, <1>3

(* The set of the missed datagrams is finite, and that before a point.       *)
LEMMA MissedFinite ==
  ASSUME StreamTypeOK
  PROVE  /\ IsFiniteSet(Missed)
         /\ \A n : /\ IsFiniteSet(MissedBefore(n))
                   /\ Cardinality(MissedBefore(n)) \in Nat
                   /\ Cardinality(MissedBefore(n)) <= Cardinality(Missed)
<1>1. 0 \in Int /\ Senders * Count - 1 \in Int
  BY Numbers
<1>2. IsFiniteSet(Datagrams)
  BY <1>1, FS_Interval DEF Datagrams
<1>3. IsFiniteSet(Missed)
  BY <1>2, MissedAre, FS_Subset
<1>4. ASSUME NEW n
      PROVE  /\ IsFiniteSet(MissedBefore(n))
             /\ Cardinality(MissedBefore(n)) \in Nat
             /\ Cardinality(MissedBefore(n)) <= Cardinality(Missed)
  <2>1. MissedBefore(n) \in SUBSET Missed
    BY DEF MissedBefore
  <2>2. QED
    BY <1>3, <2>1, FS_Subset, FS_CardinalityType
<1>5. QED
  BY <1>3, <1>4

(* Transit survives a step that passes datagrams on.                       *)
LEMMA TransitStays ==
  ASSUME Transit, Stream' = Stream, sent' = sent, Missed' = Missed
  PROVE  Transit'
  BY DEF Transit, First, Seq_

(* GapCount survives a step that reads nothing and loses datagrams at or   *)
(* after the frontier only.                                                *)
LEMMA GapCountStays ==
  ASSUME GapCount, got' = got, expected' = expected, gaps' = gaps,
         Missed' = Missed \/ \E x : Missed' = Missed \cup {x} /\ ~ (x < Frontier)
  PROVE  GapCount'
<1>1. Frontier' = Frontier
  BY DEF Frontier
<1>2. MissedBefore(Frontier)' = {d \in Missed' : d < Frontier}
  BY <1>1 DEF MissedBefore
<1>3. MissedBefore(Frontier)' = MissedBefore(Frontier)
  BY <1>2 DEF MissedBefore
<1>4. QED
  BY <1>1, <1>3 DEF GapCount, Seq_

(* SkipCount survives a step that reads and skips nothing.                 *)
LEMMA SkipCountStays ==
  ASSUME SkipCount, UNCHANGED <<fits, stuck, skipped, got>>
  PROVE  SkipCount'
BY DEF SkipCount
-----------------------------------------------------------------------------
(* Initially nothing has been sent.                                        *)
LEMMA InitIInv == Init => IInv
<1> SUFFICES ASSUME Init
             PROVE  IInv
  OBVIOUS
<1> USE DEF Init
<1>1. << >> \in Seq(Datagrams) /\ Len(<< >>) = 0
  BY EmptySeq
<1>2. TypeOK /\ StreamTypeOK
  <2>1. 0 \in 0 .. Senders * Count /\ 0 \in 0 .. Count /\ 0 \in Nat
    BY Numbers
  <2>2. 0 <= SockCap /\ 0 <= Batch /\ 0 <= MaxPoll /\ 0 + 0 + 0 <= Buffers
    BY ReceiverAssumption
  <2>3. /\ sent \in 0 .. Senders * Count /\ {received, completed, overrun} \subseteq 0 .. Senders * Count
        /\ expected \in 0 .. Count /\ gaps \in Nat
    BY <2>1
  <2>4. /\ Len(sock) <= SockCap /\ Len(batch) <= Batch /\ Len(events) <= MaxPoll
        /\ Len(chan) + Len(events) + stuck <= Buffers
    BY <1>1, <2>2
  <2>5. QED
    BY <1>1, <2>3, <2>4 DEF TypeOK, StreamTypeOK
<1>3. Control /\ Counted
  <2>1. 0 + 0 + 0 = 0 /\ 0 + 0 <= 0
    OBVIOUS
  <2>2. QED
    BY <1>1, <2>1 DEF Control, Counted
<1>8. Missed = {}
  BY DEF Missed
<1>4. Stream = << >>
  BY <1>1, ConcatEmptySeq DEF Stream
<1>5. Transit
  <2>1. 1 .. 0 = {}
    OBVIOUS
  <2>2. Members(Stream) = {} /\ InOrder(Stream, sent, Missed)
    BY <1>1, <1>4, <2>1 DEF Members, InOrder
  <2>3. First(0) \in Nat /\ First(0) .. 0 - 1 = {}
    BY SeqAndFirst
  <2>4. \A n \in Members(Stream) \cup {sent} : First(n) .. n - 1 = {}
    BY <2>2, <2>3
  <2>5. QED
    BY <1>8, <2>2, <2>4 DEF Transit
<1>6. GapCount
  <2>1. Frontier = 0
    BY DEF Frontier
  <2>2. MissedBefore(Frontier) = {}
    BY <1>8 DEF MissedBefore
  <2>3. Cardinality(MissedBefore(Frontier)) = 0 /\ 0 <= 0
    BY <2>2, FS_EmptySet
  <2>4. QED
    BY <2>3 DEF GapCount
<1>7. SkipCount
  BY FS_EmptySet DEF SkipCount
<1>9. QED
  BY <1>2, <1>3, <1>5, <1>6, <1>7 DEF IInv

(* A step of the control only: no datagram moves.                          *)
LEMMA QuietIInv ==
  ASSUME IInv, UNCHANGED <<net, batch, received, vi, events, tally>>,
         running' \in BOOLEAN, thread' \in BOOLEAN, fd' \in {"none", "open"},
         nicPc' \in {"none", "test", "recv", "dma", "ended"},
         appPc' \in {"start", "poll", "serve", "mark", "join", "done", "failed"},
         Control'
  PROVE  IInv'
<1>1. TypeOK /\ StreamTypeOK /\ Counted /\ Transit /\ GapCount /\ SkipCount
  BY DEF IInv, TypeOK
<1>2. Stream' = Stream /\ Missed' = Missed
  BY DEF Stream, Missed, net, vi, tally
<1>3. TypeOK'
  BY <1>1 DEF TypeOK, StreamTypeOK, net, vi, tally
<1>4. Counted'
  BY <1>1 DEF Counted, net, vi
<1>5. Transit'
  BY <1>1, <1>2, TransitStays DEF net
<1>6. GapCount' /\ SkipCount'
  BY <1>1, <1>2, GapCountStays, SkipCountStays DEF vi, tally
<1>7. QED
  BY <1>3, <1>4, <1>5, <1>6 DEF IInv

(* start_udp, stop, join, the mark of post_from, and the NIC's tests.      *)
LEMMA ControlIInv ==
  IInv /\ (Start \/ Mark \/ Stop \/ Join \/ TestRunning \/ ReceiveFails) => IInv'
<1> SUFFICES ASSUME IInv, Start \/ Mark \/ Stop \/ Join \/ TestRunning \/ ReceiveFails
             PROVE  IInv'
  OBVIOUS
<1> USE DEF nicVars, app
<1>1. /\ Control
      /\ running \in BOOLEAN /\ thread \in BOOLEAN /\ fd \in {"none", "open"}
      /\ nicPc \in {"none", "test", "recv", "dma", "ended"}
      /\ appPc \in {"start", "poll", "serve", "mark", "join", "done", "failed"}
  BY DEF IInv, TypeOK, StreamTypeOK
<1>2. CASE Start
  <2>1. Control'
    BY <1>1, <1>2 DEF Start, Control
  <2>2. CASE appPc' = "failed"
    <3>1. /\ running' \in BOOLEAN /\ fd' \in {"none", "open"} /\ UNCHANGED <<thread, nicPc>>
          /\ UNCHANGED <<net, batch, received, vi, events, tally>>
      BY <1>1, <1>2, <2>2 DEF Start
    <3>2. QED
      BY <1>1, <2>1, <2>2, <3>1, QuietIInv
  <2>3. CASE appPc' = "poll"
    <3>1. /\ running' \in BOOLEAN /\ thread' \in BOOLEAN /\ fd' = "open" /\ nicPc' = "test"
          /\ UNCHANGED <<net, batch, received, vi, events, tally>>
      BY <1>2, <2>3 DEF Start
    <3>2. QED
      BY <2>1, <2>3, <3>1, QuietIInv
  <2>4. QED
    BY <1>2, <2>2, <2>3 DEF Start
<1>3. CASE Stop
  <2>1. Control'
    BY <1>1, <1>3 DEF Stop, Control
  <2>2. running' \in BOOLEAN
    BY <1>3 DEF Stop
  <2>3. QED
    BY <1>1, <1>3, <2>1, <2>2, QuietIInv DEF Stop
<1>4. CASE Join
  <2>1. nicPc = "ended" /\ events = << >>
    BY <1>1, <1>4 DEF Join, Control
  <2>2. Control'
    BY <1>1, <1>4, <2>1 DEF Join, Control
  <2>3. thread' \in BOOLEAN
    BY <1>4 DEF Join
  <2>4. QED
    BY <1>1, <1>4, <2>2, <2>3, QuietIInv DEF Join
<1>5. CASE TestRunning
  <2>1. nicPc' \in {"recv", "ended"} /\ nicPc = "test"
    BY <1>5 DEF TestRunning
  <2>2. Control'
    BY <1>1, <1>5, <2>1 DEF TestRunning, Control
  <2>3. QED
    BY <1>1, <1>5, <2>1, <2>2, QuietIInv DEF TestRunning
<1>6. CASE ReceiveFails
  <2>1. Control'
    BY <1>1, <1>6 DEF ReceiveFails, Control
  <2>2. QED
    BY <1>1, <1>6, <2>1, QuietIInv DEF ReceiveFails
<1>7. CASE Mark
  <2>1. /\ appPc = "mark" /\ appPc' \in {"poll", "serve"}
        /\ appPc' = "serve" <=> events' # << >>
        /\ UNCHANGED <<events, net, nicVars, vi, tally>>
    BY <1>7 DEF Mark, NextEvent
  <2>2. Control'
    BY <1>1, <2>1 DEF Control
  <2>3. QED
    BY <1>1, <2>1, <2>2, QuietIInv
<1>8. QED
  BY <1>2, <1>3, <1>4, <1>5, <1>6, <1>7

(* What holds of the datagrams on their way through either program.        *)
Journey == StreamTypeOK /\ Transit /\ GapCount /\ SkipCount

(* What the sender's steps need to know.                                   *)
LEMMA SenderFacts ==
  ASSUME Journey, sent \in Datagrams
  PROVE  /\ sent \in Nat /\ sent + 1 \in 0 .. Senders * Count
         /\ sent \in Int /\ Frontier \in Nat /\ Frontier <= sent
         /\ ~ (sent < Frontier)
         /\ sent \notin Missed
         /\ Stream \in Seq(Datagrams) /\ InOrder(Stream, sent, Missed)
<1>1. StreamTypeOK /\ Transit
  BY DEF Journey
<1>2. sent \in Nat /\ sent + 1 \in 0 .. Senders * Count
  BY Numbers DEF Datagrams
<1>3. Frontier \in Nat /\ Frontier <= sent
  BY <1>1, FrontierIs
<1>4. sent \notin Missed
  <2>1. ~ (sent < sent)
    BY <1>2
  <2>2. QED
    BY <1>1, <2>1 DEF Transit
<1>5. Stream \in Seq(Datagrams) /\ InOrder(Stream, sent, Missed)
  BY <1>1, StreamParts DEF Transit
<1>6. ~ (sent < Frontier)
  BY <1>2, <1>3
<1>7. QED
  BY <1>2, <1>3, <1>4, <1>5, <1>6

(* A datagram that joins the socket's buffer joins the stream.             *)
LEMMA StreamAppends ==
  ASSUME StreamTypeOK, NEW x \in Datagrams
  PROVE  got \o events \o chan \o batch \o Append(sock, x) = Append(Stream, x)
<1> DEFINE a == got \o events \o chan \o batch
<1>1. a \in Seq(Datagrams) /\ sock \in Seq(Datagrams) /\ Stream = a \o sock
  BY StreamParts DEF Stream
<1> HIDE DEF a
<1>2. a \o Append(sock, x) = Append(a \o sock, x)
  BY <1>1, AppendMoves
<1>3. QED
  BY <1>1, <1>2 DEF a

(* The next datagram joins the end of the stream.                          *)
LEMMA DatagramAdded ==
  ASSUME NEW s \in Seq(Datagrams), NEW x \in Datagrams, NEW gone,
         InOrder(s, x, gone), x \notin gone
  PROVE  /\ InOrder(Append(s, x), x + 1, gone)
         /\ Members(Append(s, x)) = Members(s) \cup {x}
<1> DEFINE S == Datagrams
<1>0. S \subseteq Int /\ s \in Seq(S) /\ x \in S
  BY Numbers
<1> HIDE DEF S
<1>1. /\ <<x>> \in Seq(S) /\ Len(<<x>>) = 1 /\ <<x>>[1] = x
      /\ Members(<<x>>) = {x}
  BY <1>0, OneMember
<1>2. Append(s, x) = s \o <<x>>
  BY <1>0, AppendIsConcat
<1>3. \A y \in Members(s) : y < x
  BY <1>0, InOrderMembers
<1>4. InOrder(s, x + 1, gone)
  <2>1. x \in Int /\ x + 1 \in Int /\ x <= x + 1
    BY <1>0
  <2>2. x \notin Members(s)
    BY <1>3, <2>1
  <2>3. InOrder(s, x + 1, gone \cup {x})
    BY <1>0, <2>1, <2>2, InOrderWeakens
  <2>4. QED
    BY <2>3 DEF InOrder
<1>5. InOrder(<<x>>, x + 1, gone)
  <2>1. x < x + 1
    BY <1>0
  <2>2. \A k \in 1 .. 1 : k = 1 /\ 1 .. k - 1 = {}
    OBVIOUS
  <2>3. QED
    BY <1>1, <2>1, <2>2 DEF InOrder
<1>6. Members(s \o <<x>>) = Members(s) \cup {x}
  <2>1. MembersJoin(s, <<x>>)
    BY <1>0, <1>1, ConcatMembers
  <2>2. QED
    BY <1>1, <2>1 DEF MembersJoin
<1>7. InOrder(s \o <<x>>, x + 1, gone)
  BY <1>0, <1>1, <1>3, <1>4, <1>5, ConcatInOrder
<1>8. QED
  BY <1>2, <1>6, <1>7

(* A datagram is sent: it enters the stream, or it is lost.                *)
LEMMA SendJourney == Journey /\ Send => Journey'
<1> SUFFICES ASSUME Journey, Send
             PROVE  Journey'
  OBVIOUS
<1> USE DEF Send, nicVars, vi, app, tally
<1>1. /\ StreamTypeOK /\ Transit /\ GapCount /\ SkipCount
      /\ sent \in Datagrams /\ sent' = sent + 1
  BY DEF Journey
<1>2. /\ sent \in Nat /\ sent + 1 \in 0 .. Senders * Count
      /\ Frontier \in Nat /\ Frontier <= sent /\ ~ (sent < Frontier)
      /\ sent \notin Missed
      /\ Stream \in Seq(Datagrams) /\ InOrder(Stream, sent, Missed)
  BY SenderFacts
<1>3. \/ sock' = Append(sock, sent) /\ Missed' = Missed
      \/ sock' = sock /\ Missed' = Missed \cup {sent}
  BY DEF Missed
<1>4. sock \in Seq(Datagrams) /\ Append(sock, sent) \in Seq(Datagrams)
  BY <1>1, AppendProperties DEF StreamTypeOK
<1>5. sock' \in Seq(Datagrams)
  BY <1>3, <1>4
<1>6. StreamTypeOK'
  <2>1. lost' \subseteq Datagrams
    BY <1>1 DEF StreamTypeOK
  <2>2. QED
    BY <1>1, <1>2, <1>5, <2>1 DEF StreamTypeOK
<1>8. Datagrams \subseteq Int
  BY Numbers
<1>9. /\ InOrder(Stream', sent', Missed')
      /\ Missed' \cup Members(Stream') = Missed \cup Members(Stream) \cup {sent}
      /\ Members(Stream') \subseteq Members(Stream) \cup {sent}
  <2>1. CASE sock' = Append(sock, sent) /\ Missed' = Missed
    <3>1. Stream' = Append(Stream, sent)
      <4>1. got \o events \o chan \o batch \o Append(sock, sent) = Append(Stream, sent)
        BY ONLY <1>1, StreamAppends
      <4>2. QED
        BY <2>1, <4>1 DEF Stream
    <3>2. /\ InOrder(Append(Stream, sent), sent + 1, Missed)
          /\ Members(Append(Stream, sent)) = Members(Stream) \cup {sent}
      BY ONLY <1>1, <1>2, DatagramAdded
    <3>3. QED
      BY <1>1, <2>1, <3>1, <3>2
  <2>2. CASE sock' = sock /\ Missed' = Missed \cup {sent}
    <3>1. Stream' = Stream
      BY <2>2 DEF Stream
    <3>2. sent \notin Members(Stream)
      <4>1. ~ (sent < sent)
        BY <1>2
      <4>2. QED
        BY <1>2, <4>1, InOrderMembers
    <3>3. sent \in Int /\ sent + 1 \in Int /\ sent <= sent + 1
      BY <1>2
    <3>4. InOrder(Stream, sent + 1, Missed \cup {sent})
      BY <1>2, <1>8, <3>2, <3>3, InOrderWeakens
    <3>5. QED
      BY <1>1, <2>2, <3>1, <3>4
  <2>3. QED
    BY <1>3, <2>1, <2>2
<1>10. Transit'
  <2>1. ASSUME NEW n \in Missed'
        PROVE  n < sent'
    <3>1. n \in Missed \/ n = sent
      BY <1>3
    <3>2. n \in Missed => n \in Int /\ n < sent
      BY <1>1, <1>8, MissedAre DEF Transit
    <3>3. QED
      BY <1>1, <1>2, <3>1, <3>2
  <2>2. ASSUME NEW n \in Members(Stream) \cup {sent}
        PROVE  First(n) .. n - 1 \subseteq Missed' \cup Members(Stream')
    BY <1>1, <1>9 DEF Transit
  <2>3. First(sent + 1) .. sent \subseteq Missed' \cup Members(Stream')
    <3>1. CASE First(sent + 1) = sent + 1
      <4>1. sent + 1 .. sent = {}
        BY <1>2
      <4>2. QED
        BY <3>1, <4>1
    <3>2. CASE First(sent + 1) = First(sent)
      <4>1. First(sent) .. sent \subseteq (First(sent) .. sent - 1) \cup {sent}
        BY <1>2, SeqAndFirst
      <4>2. QED
        BY <1>9, <2>2, <3>2, <4>1
    <3>3. QED
      BY <1>2, <3>1, <3>2, FirstSucc
  <2>4. ASSUME NEW n \in Members(Stream') \cup {sent'}
        PROVE  First(n) .. n - 1 \subseteq Missed' \cup Members(Stream')
    <3>1. n \in Members(Stream) \cup {sent} \/ n = sent + 1
      BY <1>1, <1>9
    <3>2. (sent + 1) - 1 = sent
      BY <1>2
    <3>3. QED
      BY <2>2, <2>3, <3>1, <3>2
  <2>5. (\A n \in Members(Stream) \cup {sent} :
           First(n) .. n - 1 \subseteq Missed \cup Members(Stream))'
    BY <2>4 DEF First, Seq_
  <2>6. QED
    BY <1>9, <2>1, <2>5 DEF Transit
<1>11. GapCount' /\ SkipCount'
  BY <1>1, <1>2, <1>3, GapCountStays, SkipCountStays
<1>12. QED
  BY <1>6, <1>10, <1>11 DEF Journey

(* A sender gives up, and the next one begins.                             *)
LEMMA SendFailsJourney == Journey /\ SendFails => Journey'
<1> SUFFICES ASSUME Journey, SendFails
             PROVE  Journey'
  OBVIOUS
<1> USE DEF SendFails, nicVars, vi, app, tally
<1> DEFINE m == (sent \div Count + 1) * Count
<1>1. /\ StreamTypeOK /\ Transit /\ GapCount /\ SkipCount
      /\ sent \in Datagrams /\ sent' = m
  BY DEF Journey
<1>2. /\ m \in 0 .. Senders * Count /\ sent < m /\ First(m) = m
  BY <1>1, NextSender
<1>3. /\ sent \in Nat /\ sent \in Int
      /\ Stream \in Seq(Datagrams) /\ InOrder(Stream, sent, Missed)
  BY <1>1, SenderFacts
<1> HIDE DEF m
<1>4. Stream' = Stream /\ Missed' = Missed
  BY DEF Stream, Missed
<1>5. m \in Int /\ sent <= m
  BY <1>2, <1>3
<1>6. StreamTypeOK'
  BY <1>1, <1>2 DEF StreamTypeOK
<1>8. Transit'
  <2>1. InOrder(Stream, m, Missed)
    <3>1. sent \notin Members(Stream)
      <4>1. ~ (sent < sent)
        BY <1>3
      <4>2. QED
        BY <1>3, <4>1, InOrderMembers
    <3>2. InOrder(Stream, m, Missed \cup {sent})
      <4>1. Datagrams \subseteq Int
        BY Numbers
      <4>2. QED
        BY <1>3, <1>5, <3>1, <4>1, InOrderWeakens
    <3>3. QED
      BY <3>2 DEF InOrder
  <2>2. ASSUME NEW n \in Missed
        PROVE  n < m
    <3>1. n \in Int /\ n < sent
      <4>1. Missed \in SUBSET Datagrams /\ Datagrams \subseteq Int
        BY ONLY <1>1, Numbers, MissedAre
      <4>2. n < sent
        BY ONLY <1>1, <2>2 DEF Transit
      <4>3. QED
        BY <2>2, <4>1, <4>2
    <3>2. QED
      BY <1>3, <1>5, <3>1
  <2>3. First(m) .. m - 1 = {}
    BY <1>2, <1>5
  <2>4. ASSUME NEW n \in Members(Stream) \cup {m}
        PROVE  First(n) .. n - 1 \subseteq Missed \cup Members(Stream)
    BY <1>1, <2>3 DEF Transit
  <2>5. (\A n \in Members(Stream) \cup {sent} :
           First(n) .. n - 1 \subseteq Missed \cup Members(Stream))'
    BY <1>1, <1>4, <2>4 DEF First, Seq_
  <2>6. QED
    BY <1>1, <1>4, <2>1, <2>2, <2>5 DEF Transit
<1>9. GapCount' /\ SkipCount'
  BY <1>1, <1>4, GapCountStays, SkipCountStays
<1>10. QED
  BY <1>6, <1>8, <1>9 DEF Journey

(* The receiver's own part of the state does not change.                   *)
LEMMA SenderIInv == IInv /\ Sender => IInv'
<1> SUFFICES ASSUME IInv, Sender
             PROVE  IInv'
  OBVIOUS
<1>1. /\ TypeOK /\ StreamTypeOK /\ Control /\ Counted /\ Journey
      /\ sent \in Datagrams /\ UNCHANGED <<nicVars, vi, app>>
  BY DEF IInv, TypeOK, Journey, Sender, Send, SendFails
<1>2. Journey'
  BY <1>1, SendJourney, SendFailsJourney DEF Sender
<1>3. /\ Len(sock) \in Nat /\ received \in Nat /\ sent \in Nat
      /\ received + Len(sock) <= sent /\ SockCap \in Nat /\ Len(sock) <= SockCap
  BY <1>1, Numbers, LenProperties, ReceiverAssumption DEF TypeOK, StreamTypeOK, Counted
<1>4. /\ Len(sock') \in Nat /\ Len(sock') <= SockCap
      /\ received + Len(sock') <= sent'
  <2>1. CASE Send
    <3>1. sock \in Seq(Datagrams) /\ sent' = sent + 1
      BY <1>1, <2>1 DEF Send, StreamTypeOK
    <3>2. \/ sock' = sock
          \/ Len(sock') = Len(sock) + 1 /\ Len(sock) < SockCap
      BY <1>1, <2>1, <3>1, AppendProperties DEF Send
    <3>3. QED
      BY <1>3, <3>1, <3>2
  <2>2. CASE SendFails
    <3>1. sock' = sock /\ sent' = (sent \div Count + 1) * Count
      BY <2>2 DEF SendFails
    <3>2. sent < sent' /\ sent' \in Nat
      BY <1>1, <3>1, NextSender, Numbers
    <3>3. QED
      BY <1>3, <3>1, <3>2
  <2>3. QED
    BY <2>1, <2>2 DEF Sender
<1>5. TypeOK'
  BY <1>1, <1>2, <1>4 DEF TypeOK, Journey, nicVars, vi, app, tally
<1>6. Control' /\ Counted'
  BY <1>1, <1>4 DEF Control, Counted, nicVars, vi, app
<1>7. QED
  BY <1>2, <1>5, <1>6 DEF IInv, Journey

(* A step that passes datagrams on, and neither reads nor loses any.       *)
LEMMA PassIInv ==
  ASSUME IInv, Stream' = Stream,
         UNCHANGED <<sent, lost, fits, stuck, tally>>,
         TypeOK', Control', Counted'
  PROVE  IInv'
<1>1. Transit /\ GapCount /\ SkipCount
  BY DEF IInv
<1>2. Transit' /\ GapCount' /\ SkipCount'
  BY <1>1, TransitStays, GapCountStays, SkipCountStays DEF Missed, tally
<1>3. QED
  BY <1>2 DEF IInv

(* main polls: some of the completed datagrams become its events.          *)
LEMMA PollIInv == IInv /\ Poll => IInv'
<1> SUFFICES ASSUME IInv, Poll
             PROVE  IInv'
  OBVIOUS
<1>1. /\ TypeOK /\ StreamTypeOK /\ Control /\ Counted
      /\ appPc = "poll" /\ appPc' = "serve" /\ events = << >>
      /\ UNCHANGED <<net, nicVars, completed, overrun, fits, late, stuck, tally>>
  BY DEF IInv, TypeOK, Control, Poll
<1>2. PICK k \in 1 .. MaxPoll : /\ k <= Len(chan)
                                /\ events' = SubSeq(chan, 1, k)
                                /\ chan' = SubSeq(chan, k + 1, Len(chan))
  BY DEF Poll
<1>3. /\ chan \in Seq(Datagrams) /\ got \in Seq(Datagrams)
      /\ Len(chan) \in Nat /\ k \in 0 .. Len(chan) /\ MaxPoll \in Nat
  BY <1>1, <1>2, ReceiverAssumption, LenProperties DEF TypeOK, StreamTypeOK
<1>4. /\ events' \in Seq(Datagrams) /\ Len(events') = k
      /\ chan' \in Seq(Datagrams) /\ Len(chan') = Len(chan) - k
      /\ (got \o events') \o chan' = (got \o << >>) \o chan
  <2>1. Passed(Datagrams, got, chan, k)
    BY ONLY <1>3, PassSome
  <2>2. QED
    BY ONLY <1>2, <2>1 DEF Passed
<1>5. Stream' = Stream
  BY <1>1, <1>4 DEF Stream, net, nicVars, tally
<1>6. TypeOK'
  <2>1. Len(events) = 0
    BY <1>1, EmptySeq
  <2>2. Len(events') <= MaxPoll /\ Len(chan') + Len(events') + stuck <= Buffers
    BY <1>1, <1>2, <1>3, <1>4, <2>1, ReceiverAssumption DEF TypeOK, StreamTypeOK
  <2>3. QED
    BY <1>1, <1>4, <2>2 DEF TypeOK, StreamTypeOK, net, nicVars, tally
<1>7. Control'
  <2>1. events' # << >>
    <3>1. Len(events') # 0
      BY <1>2, <1>4
    <3>2. QED
      BY <3>1, EmptySeq
  <2>2. QED
    BY <1>1, <2>1 DEF Control, nicVars
<1>8. Counted'
  BY <1>1 DEF Counted, net, nicVars
<1>9. QED
  BY <1>1, <1>5, <1>6, <1>7, <1>8, PassIInv DEF net

(* The NIC receives: datagrams of the socket become its batch.             *)
LEMMA ReceiveIInv == IInv /\ Receive => IInv'
<1> SUFFICES ASSUME IInv, Receive
             PROVE  IInv'
  OBVIOUS
<1>1. /\ TypeOK /\ StreamTypeOK /\ Control /\ Counted
      /\ nicPc = "recv" /\ batch = << >>
      /\ UNCHANGED <<sent, lost, running, fd, thread, vi, app>>
  BY DEF IInv, TypeOK, Control, Receive
<1>2. PICK k \in 0 .. Batch : /\ k <= Len(sock)
                              /\ batch' = SubSeq(sock, 1, k)
                              /\ sock' = SubSeq(sock, k + 1, Len(sock))
                              /\ received' = received + k
                              /\ nicPc' = IF k = 0 THEN "test" ELSE "dma"
  BY DEF Receive
<1> DEFINE a == got \o events \o chan
<1>3. /\ sock \in Seq(Datagrams) /\ a \in Seq(Datagrams)
      /\ Len(sock) \in Nat /\ k \in 0 .. Len(sock) /\ Batch \in Nat /\ k \in Nat
  BY <1>1, <1>2, ReceiverAssumption, LenProperties, StreamParts
<1> HIDE DEF a
<1>4. /\ batch' \in Seq(Datagrams) /\ Len(batch') = k
      /\ sock' \in Seq(Datagrams) /\ Len(sock') = Len(sock) - k
      /\ (a \o batch') \o sock' = (a \o << >>) \o sock
  <2>1. Passed(Datagrams, a, sock, k)
    BY ONLY <1>3, PassSome
  <2>2. QED
    BY ONLY <1>2, <2>1 DEF Passed
<1>5. Stream' = Stream
  BY <1>1, <1>4 DEF Stream, a, vi, app, tally
<1>6. Len(batch) = 0 /\ received \in Nat /\ sent \in Nat /\ SockCap \in Nat
  BY <1>1, EmptySeq, Numbers, ReceiverAssumption DEF TypeOK, StreamTypeOK
<1>7. Counted'
  <2>1. completed + overrun = received
    BY <1>1, <1>6, Numbers DEF Counted, TypeOK, StreamTypeOK
  <2>2. received + Len(sock) <= sent
    BY <1>1 DEF Counted
  <2>3. /\ completed + overrun + k = received + k
        /\ (received + k) + (Len(sock) - k) <= sent
    BY <1>3, <1>6, <2>1, <2>2
  <2>4. QED
    BY <1>1, <1>2, <1>4, <2>3 DEF Counted, vi
<1>8. TypeOK'
  <2>1. received' \in 0 .. Senders * Count
    <3>1. received + Len(sock) <= sent /\ sent <= Senders * Count
      BY <1>1, Numbers DEF Counted, TypeOK, StreamTypeOK
    <3>2. QED
      BY <1>2, <1>3, <1>6, <3>1, Numbers
  <2>2. Len(batch') <= Batch /\ Len(sock') <= SockCap
    BY <1>1, <1>2, <1>3, <1>4, <1>6 DEF TypeOK, StreamTypeOK
  <2>3. nicPc' \in {"none", "test", "recv", "dma", "ended"}
    BY <1>2
  <2>4. {received', completed', overrun'} \subseteq 0 .. Senders * Count
    BY <1>1, <2>1 DEF TypeOK, StreamTypeOK, vi
  <2>5. QED
    BY <1>1, <1>4, <2>2, <2>3, <2>4 DEF TypeOK, StreamTypeOK, vi, app, tally
<1>9. Control'
  <2>1. batch' = << >> <=> k = 0
    <3>1. Len(batch') = 0 <=> k = 0
      BY <1>4
    <3>2. QED
      BY <1>4, <3>1, EmptySeq
  <2>2. nicPc' = "dma" <=> batch' # << >>
    BY <1>2, <2>1
  <2>3. nicPc' # "none" /\ nicPc' # "ended" /\ appPc \notin {"start", "failed", "done"}
    BY <1>1, <1>2 DEF Control
  <2>4. QED
    BY <1>1, <2>2, <2>3 DEF Control, app
<1>10. QED
  BY <1>1, <1>5, <1>7, <1>8, <1>9, PassIInv DEF app, vi

(* The NIC goes on to the next datagram of its batch.                      *)
LEMMA NextDatagramIs ==
  ASSUME TypeOK, Control, nicPc = "dma", NextDatagram
  PROVE  /\ batch # << >> /\ Len(batch) \in Nat /\ Len(batch) >= 1
         /\ Head(batch) \in Datagrams
         /\ batch' \in Seq(Datagrams) /\ Len(batch') = Len(batch) - 1
         /\ Len(batch') <= Batch
         /\ batch' # << >> <=> nicPc' = "dma"
         /\ nicPc' \in {"test", "dma"}
         /\ appPc \in {"poll", "serve", "mark", "join"}
<1>1. batch # << >> /\ batch \in Seq(Datagrams) /\ batch' = Tail(batch)
  BY DEF Control, TypeOK, StreamTypeOK, NextDatagram
<1>2. /\ Len(batch) \in Nat /\ Len(batch) >= 1 /\ Head(batch) \in Datagrams
      /\ batch' \in Seq(Datagrams) /\ Len(batch') = Len(batch) - 1
  BY <1>1, HeadAndTail
<1>3. Len(batch') <= Batch
  BY <1>2, Numbers DEF TypeOK, StreamTypeOK
<1>4. batch' # << >> <=> Len(batch') # 0
  BY <1>2, EmptySeq
<1>5. nicPc' = IF Len(batch) = 1 THEN "test" ELSE "dma"
  BY DEF NextDatagram
<1>6. Len(batch') # 0 <=> nicPc' = "dma"
  BY <1>2, <1>5
<1>7. appPc \in {"poll", "serve", "mark", "join"}
  BY DEF Control, TypeOK, StreamTypeOK
<1>8. QED
  BY <1>1, <1>2, <1>3, <1>4, <1>5, <1>6, <1>7

(* The counts of the packets, and their sum.                               *)
LEMMA CountsAre ==
  ASSUME TypeOK, Counted, Len(batch) >= 1
  PROVE  /\ completed \in Nat /\ overrun \in Nat /\ received \in Nat
         /\ Len(batch) \in Nat
         /\ completed + overrun + Len(batch) = received
         /\ completed + 1 \in 0 .. Senders * Count
         /\ overrun + 1 \in 0 .. Senders * Count
<1>1. /\ completed \in Nat /\ overrun \in Nat /\ received \in 0 .. Senders * Count
      /\ Senders * Count \in Nat
  BY Numbers DEF TypeOK, StreamTypeOK
<1>2. Len(batch) \in Nat
  BY LenProperties DEF TypeOK, StreamTypeOK
<1>3. completed + overrun + Len(batch) = received
  BY DEF Counted
<1>4. QED
  BY <1>1, <1>2, <1>3

(* A datagram of the batch becomes a completed or an overrun one.          *)
LEMMA OneCounted ==
  \A c, o, n, r \in Nat : c + o + n = r =>
    /\ (c + 1) + o + (n - 1) = r
    /\ c + (o + 1) + (n - 1) = r
OBVIOUS

(* A datagram is delivered into a buffer.                                  *)
LEMMA DeliverIInv == IInv /\ Deliver => IInv'
<1> SUFFICES ASSUME IInv, Deliver
             PROVE  IInv'
  OBVIOUS
<1>1. /\ TypeOK /\ StreamTypeOK /\ Control /\ Counted
      /\ nicPc = "dma" /\ NextDatagram
      /\ Posted > 0
      /\ chan' = Append(chan, Head(batch)) /\ completed' = completed + 1
      /\ late' = late \/ late' = late \cup {Head(batch)}
      /\ UNCHANGED <<net, running, fd, thread, received, overrun, fits, stuck, app>>
  BY DEF IInv, TypeOK, Deliver
<1>2. /\ batch # << >> /\ Len(batch) \in Nat /\ Len(batch) >= 1
      /\ Head(batch) \in Datagrams
      /\ batch' \in Seq(Datagrams) /\ Len(batch') = Len(batch) - 1
      /\ Len(batch') <= Batch
      /\ batch' # << >> <=> nicPc' = "dma"
      /\ nicPc' \in {"test", "dma"}
      /\ appPc \in {"poll", "serve", "mark", "join"}
  BY <1>1, NextDatagramIs
<1>3. /\ completed \in Nat /\ overrun \in Nat /\ received \in Nat
      /\ completed + overrun + Len(batch) = received
      /\ completed + 1 \in 0 .. Senders * Count
  BY <1>1, <1>2, CountsAre
<1>4. Stream' = Stream
  <2> DEFINE a == got \o events
  <2>1. /\ a \in Seq(Datagrams) /\ chan \in Seq(Datagrams)
        /\ a \o chan \in Seq(Datagrams) /\ batch \in Seq(Datagrams)
    BY <1>1, StreamParts
  <2> HIDE DEF a
  <2>2. a \o Append(chan, Head(batch)) = Append(a \o chan, Head(batch))
    BY ONLY <1>2, <2>1, AppendMoves
  <2>3. Append(a \o chan, Head(batch)) \o Tail(batch) = (a \o chan) \o batch
    BY ONLY <1>2, <2>1, PassOne
  <2>4. batch' = Tail(batch)
    BY <1>1 DEF NextDatagram
  <2>5. (a \o chan') \o batch' = (a \o chan) \o batch
    BY ONLY <1>1, <2>2, <2>3, <2>4
  <2>6. got' = got /\ events' = events /\ sock' = sock
    BY <1>1 DEF app, net, tally
  <2>7. QED
    BY ONLY <2>5, <2>6 DEF Stream, a
<1>5. TypeOK'
  <2>1. /\ chan' \in Seq(Datagrams) /\ Len(chan') = Len(chan) + 1
        /\ Len(chan) \in Nat /\ Len(events) \in Nat
    BY <1>1, <1>2, AppendProperties, LenProperties DEF TypeOK, StreamTypeOK
  <2>2. Len(chan') + Len(events) + stuck <= Buffers
    <3>1. stuck \in Nat /\ Buffers \in Nat
      BY <1>1, ReceiverAssumption DEF StreamTypeOK
    <3>2. QED
      BY <1>1, <2>1, <3>1 DEF Posted
  <2>3. {received', completed', overrun'} \subseteq 0 .. Senders * Count
    BY <1>1, <1>3 DEF TypeOK, StreamTypeOK
  <2>4. nicPc' \in {"none", "test", "recv", "dma", "ended"}
    BY <1>2
  <2>5. late' \subseteq Datagrams
    BY <1>1, <1>2 DEF StreamTypeOK
  <2>6. QED
    BY <1>1, <1>2, <2>1, <2>2, <2>3, <2>4, <2>5 DEF TypeOK, StreamTypeOK, net, app, tally
<1>6. Control'
  BY <1>1, <1>2 DEF Control, app
<1>7. Counted'
  <2>1. (completed + 1) + overrun + (Len(batch) - 1) = received
    <3> DEFINE n == Len(batch)
    <3>1. /\ completed \in Nat /\ overrun \in Nat /\ n \in Nat /\ received \in Nat
          /\ completed + overrun + n = received
      BY <1>2, <1>3
    <3> HIDE DEF n
    <3>2. (completed + 1) + overrun + (n - 1) = received
      BY ONLY <3>1, OneCounted
    <3>3. QED
      BY <3>2 DEF n
  <2>2. QED
    BY <1>1, <1>2, <2>1 DEF Counted, net
<1>8. QED
  BY <1>1, <1>4, <1>5, <1>6, <1>7, PassIInv DEF net, app

(* The datagram that the NIC handles, within the stream.                   *)
LEMMA StreamAtBatch ==
  ASSUME StreamTypeOK, batch # << >>
  PROVE  LET a == got \o events \o chan
             b == Tail(batch) \o sock
         IN  /\ a \in Seq(Datagrams) /\ b \in Seq(Datagrams)
             /\ Stream = a \o (<<Head(batch)>> \o b)
             /\ got \o events \o chan \o Tail(batch) \o sock = a \o b
<1> DEFINE a == got \o events \o chan
           x == Head(batch)
           t == Tail(batch)
<1>1. a \in Seq(Datagrams) /\ sock \in Seq(Datagrams) /\ batch \in Seq(Datagrams)
  BY StreamParts
<1>2. Stream = Cat(Cat(a, batch), sock)
  BY DEF Stream, Cat
<1> HIDE DEF a
<1>3. x \in Datagrams /\ t \in Seq(Datagrams) /\ batch = <<x>> \o t
  BY <1>1, HeadAndTail
<1>4. <<x>> \in Seq(Datagrams)
  BY <1>3, OneMember
<1>5. batch = Cat(<<x>>, t)
  BY <1>3 DEF Cat
<1> HIDE DEF x, t
<1> DEFINE y == <<x>>
<1>6. y \in Seq(Datagrams) /\ batch = Cat(y, t)
  BY <1>4, <1>5
<1> HIDE DEF y
<1>7. /\ Cat(t, sock) \in Seq(Datagrams)
      /\ Cat(Cat(a, Cat(y, t)), sock) = Cat(a, Cat(Cat(y, t), sock))
      /\ Cat(Cat(y, t), sock) = Cat(y, Cat(t, sock))
      /\ Cat(Cat(a, t), sock) = Cat(a, Cat(t, sock))
  <2>1. Cat(y, t) \in Seq(Datagrams)
    BY <1>3, <1>6, CatJoins
  <2>2. QED
    BY <1>1, <1>3, <1>6, <2>1, CatJoins
<1>8. Stream = Cat(a, Cat(y, Cat(t, sock)))
  BY <1>2, <1>6, <1>7
<1>9. QED
  BY <1>1, <1>7, <1>8 DEF Cat, a, t, x, y

(* A datagram leaves the stream: the NIC drops it, or main skips it.  It   *)
(* is at or after the frontier.                                            *)
LEMMA MissOne ==
  ASSUME StreamTypeOK, Transit, GapCount,
         NEW a \in Seq(Datagrams), NEW b \in Seq(Datagrams), NEW x \in Datagrams,
         Stream = a \o (<<x>> \o b), Stream' = a \o b,
         Members(got) \subseteq Members(a),
         Missed' = Missed \cup {x},
         sent' = sent, got' = got, expected' = expected, gaps' = gaps
  PROVE  x \notin Missed /\ Transit' /\ GapCount'
<1>1. /\ sent \in Int /\ Datagrams \subseteq Int
      /\ InOrder(Stream, sent, Missed)
  BY Numbers DEF Transit, StreamTypeOK
<1>2. /\ InOrder(a \o b, sent, Missed \cup {x})
      /\ Members(a \o (<<x>> \o b)) = Members(a \o b) \cup {x}
      /\ \A y \in Members(a) : y < x
      /\ x < sent
  <2>1. InOrder(a \o (<<x>> \o b), sent, Missed)
    BY <1>1
  <2>2. QED
    BY ONLY <1>1, <2>1, DropInOrder, a \in Seq(Datagrams), b \in Seq(Datagrams), x \in Datagrams
<1>3. /\ InOrder(Stream', sent, Missed')
      /\ Members(Stream) = Members(Stream') \cup {x}
  BY <1>2
<1>4. x \notin Missed
  BY <1>1, <1>3, InOrderMembers
<1>5. Transit'
  <2>1. ASSUME NEW n \in Missed'
        PROVE  n < sent'
    BY <1>2 DEF Transit
  <2>2. Missed' \cup Members(Stream') = Missed \cup Members(Stream)
    BY <1>3
  <2>3. ASSUME NEW n \in Members(Stream') \cup {sent'}
        PROVE  First(n) .. n - 1 \subseteq Missed' \cup Members(Stream')
    <3>1. n \in Members(Stream) \cup {sent}
      BY <1>3
    <3>2. QED
      BY <2>2, <3>1 DEF Transit
  <2>4. (\A n \in Members(Stream) \cup {sent} :
           First(n) .. n - 1 \subseteq Missed \cup Members(Stream))'
    BY <2>3 DEF First, Seq_
  <2>5. QED
    BY <1>3, <2>1, <2>4 DEF Transit
<1>6. ~ (x < Frontier)
  <2>1. x \in Nat
    BY Numbers
  <2>2. CASE got = << >>
    BY <2>1, <2>2 DEF Frontier
  <2>3. CASE got # << >>
    <3>1. /\ got[Len(got)] \in Datagrams /\ got[Len(got)] \in Members(got)
          /\ Frontier = got[Len(got)] + 1
      BY <2>3, FrontierIs
    <3>2. got[Len(got)] < x /\ got[Len(got)] \in Nat
      BY <1>2, <3>1, Numbers
    <3>3. QED
      BY <2>1, <3>1, <3>2
  <2>4. QED
    BY <2>2, <2>3
<1>7. GapCount'
  BY <1>6, GapCountStays
<1>8. QED
  BY <1>4, <1>5, <1>7

(* No buffer is posted: the datagram is dropped.                           *)
LEMMA OverrunIInv == IInv /\ Overrun => IInv'
<1> SUFFICES ASSUME IInv, Overrun
             PROVE  IInv'
  OBVIOUS
<1>1. /\ TypeOK /\ StreamTypeOK /\ Control /\ Counted /\ Transit /\ GapCount /\ SkipCount
      /\ nicPc = "dma" /\ NextDatagram
      /\ lost' = lost \cup {Head(batch)} /\ overrun' = overrun + 1
      /\ UNCHANGED <<sent, sock, running, fd, thread, received, chan, completed,
                     fits, late, stuck, app>>
  BY DEF IInv, TypeOK, Overrun
<1>2. /\ batch # << >> /\ Len(batch) \in Nat /\ Len(batch) >= 1
      /\ Head(batch) \in Datagrams
      /\ batch' \in Seq(Datagrams) /\ Len(batch') = Len(batch) - 1
      /\ Len(batch') <= Batch
      /\ batch' # << >> <=> nicPc' = "dma"
      /\ nicPc' \in {"test", "dma"}
      /\ appPc \in {"poll", "serve", "mark", "join"}
  BY <1>1, NextDatagramIs
<1>3. /\ completed \in Nat /\ overrun \in Nat /\ received \in Nat
      /\ completed + overrun + Len(batch) = received
      /\ overrun + 1 \in 0 .. Senders * Count
  BY <1>1, <1>2, CountsAre
<1>4. PICK a \in Seq(Datagrams), b \in Seq(Datagrams), x \in Datagrams :
        /\ a = got \o events \o chan /\ b = Tail(batch) \o sock /\ x = Head(batch)
        /\ Stream = a \o (<<x>> \o b)
        /\ got \o events \o chan \o Tail(batch) \o sock = a \o b
  BY <1>1, <1>2, StreamAtBatch
<1>5. Stream' = a \o b
  <2>1. /\ got' = got /\ events' = events /\ chan' = chan
        /\ batch' = Tail(batch) /\ sock' = sock
    BY <1>1 DEF NextDatagram, app, tally
  <2>2. QED
    BY <1>4, <2>1 DEF Stream
<1>6. Members(got) \subseteq Members(a)
  <2>1. /\ got \in Seq(Datagrams) /\ events \in Seq(Datagrams)
        /\ chan \in Seq(Datagrams) /\ got \o events \in Seq(Datagrams)
    BY <1>1, StreamParts
  <2>2. MembersJoin(got, events) /\ MembersJoin(got \o events, chan)
    BY ONLY <2>1, ConcatMembers
  <2>3. QED
    BY <1>4, <2>2 DEF MembersJoin
<1>7. /\ Missed' = Missed \cup {x}
      /\ sent' = sent /\ got' = got /\ expected' = expected /\ gaps' = gaps
  BY <1>1, <1>4 DEF Missed, app, tally
<1>8. Transit' /\ GapCount' /\ SkipCount'
  <2>1. Stream = a \o (<<x>> \o b)
    BY <1>4
  <2>2. Transit' /\ GapCount'
    BY ONLY <1>1, <2>1, <1>5, <1>6, <1>7, MissOne, a \in Seq(Datagrams), b \in Seq(Datagrams), x \in Datagrams
  <2>3. SkipCount'
    BY <1>1, SkipCountStays DEF app, tally
  <2>4. QED
    BY <2>2, <2>3
<1>9. TypeOK'
  <2>1. {received', completed', overrun'} \subseteq 0 .. Senders * Count
    BY <1>1, <1>3 DEF TypeOK, StreamTypeOK
  <2>2. nicPc' \in {"none", "test", "recv", "dma", "ended"}
    BY <1>2
  <2>3. lost' \subseteq Datagrams
    BY <1>1, <1>2 DEF TypeOK, StreamTypeOK
  <2>4. QED
    BY <1>1, <1>2, <2>1, <2>2, <2>3 DEF TypeOK, StreamTypeOK, app, tally
<1>10. Control'
  BY <1>1, <1>2 DEF Control, app
<1>11. Counted'
  <2>1. completed + (overrun + 1) + (Len(batch) - 1) = received
    <3> DEFINE n == Len(batch)
    <3>1. /\ completed \in Nat /\ overrun \in Nat /\ n \in Nat /\ received \in Nat
          /\ completed + overrun + n = received
      BY <1>2, <1>3
    <3> HIDE DEF n
    <3>2. completed + (overrun + 1) + (n - 1) = received
      BY ONLY <3>1, OneCounted
    <3>3. QED
      BY <3>2 DEF n
  <2>2. QED
    BY <1>1, <1>2, <2>1 DEF Counted
<1>12. QED
  BY <1>8, <1>9, <1>10, <1>11 DEF IInv

(* The next datagram that main reads, within the stream.                   *)
LEMMA StreamAtEvents ==
  ASSUME StreamTypeOK, events # << >>
  PROVE  LET b == Tail(events) \o chan \o batch \o sock
         IN  /\ b \in Seq(Datagrams)
             /\ Stream = got \o (<<Head(events)>> \o b)
             /\ got \o Tail(events) \o chan \o batch \o sock = got \o b
<1> DEFINE x == Head(events)
           t == Tail(events)
<1>1. /\ got \in Seq(Datagrams) /\ events \in Seq(Datagrams)
      /\ chan \in Seq(Datagrams) /\ batch \in Seq(Datagrams)
      /\ sock \in Seq(Datagrams)
  BY DEF TypeOK, StreamTypeOK
<1>2. Stream = Cat(got, Cat(Cat(Cat(events, chan), batch), sock))
  BY RestOfStream DEF Cat
<1>3. x \in Datagrams /\ t \in Seq(Datagrams) /\ events = <<x>> \o t
  BY <1>1, HeadAndTail
<1>4. <<x>> \in Seq(Datagrams) /\ events = Cat(<<x>>, t)
  BY <1>3, OneMember DEF Cat
<1> HIDE DEF x, t
<1> DEFINE y == <<x>>
<1>5. y \in Seq(Datagrams) /\ events = Cat(y, t)
  BY <1>4
<1> HIDE DEF y
<1>6. /\ Cat(Cat(Cat(t, chan), batch), sock) \in Seq(Datagrams)
      /\ Cat(Cat(Cat(Cat(y, t), chan), batch), sock)
           = Cat(y, Cat(Cat(Cat(t, chan), batch), sock))
      /\ Cat(Cat(Cat(Cat(got, t), chan), batch), sock)
           = Cat(got, Cat(Cat(Cat(t, chan), batch), sock))
  BY <1>1, <1>3, <1>5, FirstAndRest
<1>7. Stream = Cat(got, Cat(y, Cat(Cat(Cat(t, chan), batch), sock)))
  BY <1>2, <1>5, <1>6
<1>8. QED
  BY <1>6, <1>7 DEF Cat, t, x, y

(* The next datagram is at the frontier or after it, and those of the same *)
(* sender between the two were missed.                                       *)
LEMMA NextRead ==
  ASSUME StreamTypeOK, Transit, events # << >>
  PROVE  LET y == Head(events)
         IN  /\ y \in Datagrams /\ y \in Nat /\ y \notin Missed
             /\ Frontier <= y
             /\ \A n \in Int : First(y) <= n /\ Frontier <= n /\ n < y => n \in Missed
<1> DEFINE y == Head(events)
           b == Tail(events) \o chan \o batch \o sock
           r == <<y>> \o b
<1>1. /\ b \in Seq(Datagrams) /\ Stream = got \o r
      /\ events \in Seq(Datagrams) /\ got \in Seq(Datagrams)
  BY StreamAtEvents, StreamParts
<1>2. y \in Datagrams /\ y \in Nat
  BY <1>1, HeadAndTail, Numbers
<1> HIDE DEF y, b
<1>3. <<y>> \in Seq(Datagrams) /\ Members(<<y>>) = {y}
  BY <1>2, OneMember
<1>4. r \in Seq(Datagrams)
  BY <1>1, <1>3, ConcatProperties
<1>5. Datagrams \subseteq Int /\ InOrder(Stream, sent, Missed)
  BY Numbers DEF Transit
<1>6. /\ InOrder(r, sent, Missed)
      /\ \A u \in Members(got) : \A v \in Members(r) : u < v
  <2> HIDE DEF r
  <2>1. InOrder(got \o r, sent, Missed)
    BY <1>1, <1>5
  <2>2. QED
    BY ONLY <1>1, <1>4, <1>5, <2>1, ConcatInOrder
<1>7. \A u \in Members(<<y>>) : \A v \in Members(b) : u < v
  BY ONLY <1>1, <1>3, <1>5, <1>6, ConcatInOrder
<1>8. /\ Members(r) = {y} \cup Members(b)
      /\ Members(Stream) = Members(got) \cup Members(r)
  <2>1. MembersJoin(<<y>>, b)
    BY ONLY <1>1, <1>3, ConcatMembers
  <2>2. MembersJoin(got, r)
    <3> HIDE DEF r
    <3>1. QED
      BY ONLY <1>1, <1>4, ConcatMembers
  <2>3. QED
    BY <1>1, <1>3, <2>1, <2>2 DEF MembersJoin
<1>9. /\ \A u \in Members(got) : u < y
      /\ \A v \in Members(b) : y < v
      /\ y \in Members(Stream) /\ y \notin Missed
  <2>1. y \notin Missed
    BY <1>5, <1>8, InOrderMembers
  <2>2. QED
    BY <1>3, <1>6, <1>7, <1>8, <2>1
<1>10. /\ Frontier \in Nat
       /\ \A u \in Members(got) : u < Frontier
       /\ got # << >> => /\ got[Len(got)] \in Datagrams
                         /\ got[Len(got)] \in Members(got)
                         /\ Frontier = got[Len(got)] + 1
  BY FrontierIs
<1>11. Frontier <= y
  <2>1. CASE got = << >>
    BY <1>2, <2>1 DEF Frontier
  <2>2. CASE got # << >>
    <3>1. got[Len(got)] < y /\ got[Len(got)] \in Int
      BY <1>5, <1>9, <1>10, <2>2
    <3>2. QED
      BY <1>2, <1>10, <2>2, <3>1
  <2>3. QED
    BY <2>1, <2>2
<1>12. ASSUME NEW n \in Int, First(y) <= n, Frontier <= n, n < y
       PROVE  n \in Missed
  <2>1. n \in First(y) .. y - 1
    BY <1>2, <1>12, SeqAndFirst
  <2>2. n \in Missed \cup Members(Stream)
    BY <1>9, <2>1 DEF Transit
  <2>3. n \notin Members(got)
    BY <1>10, <1>12
  <2>4. n # y /\ ~ (y < n)
    BY <1>2, <1>12
  <2>5. n \notin Members(b)
    BY <1>9, <2>4
  <2>6. QED
    BY <1>8, <2>2, <2>3, <2>4, <2>5
<1>13. QED
  BY <1>2, <1>9, <1>11, <1>12 DEF y

(* What a run of losses before y adds to the losses before m.              *)
LEMMA LossesAdd ==
  ASSUME StreamTypeOK, NEW f \in Nat, NEW m \in Nat, NEW y \in Nat,
         f <= m, m <= y, m .. y - 1 \subseteq Missed
  PROVE  /\ Cardinality(MissedBefore(f)) + (y - m) <= Cardinality(MissedBefore(y + 1))
         /\ f = m /\ y \notin Missed =>
              Cardinality(MissedBefore(f)) + (y - m) = Cardinality(MissedBefore(y + 1))
<1> DEFINE L == MissedBefore(f)
           I == m .. y - 1
           M == MissedBefore(y + 1)
<1>1. /\ IsFiniteSet(L) /\ IsFiniteSet(M)
      /\ Cardinality(L) \in Nat /\ Cardinality(M) \in Nat
  BY MissedFinite
<1>2. IsFiniteSet(I) /\ Cardinality(I) = y - m
  <2>1. m \in Int /\ y - 1 \in Int
    OBVIOUS
  <2>2. IsFiniteSet(I) /\ Cardinality(I) = IF m > y - 1 THEN 0 ELSE (y - 1) - m + 1
    BY <2>1, FS_Interval
  <2>3. QED
    BY <2>2
<1>3. Missed \subseteq Nat
  BY Numbers, MissedAre
<1>4. L \cap I = {}
  BY <1>3 DEF MissedBefore
<1>5. L \cup I \subseteq M
  <2>1. ASSUME NEW d \in L
        PROVE  d \in M
    <3>1. d \in Missed /\ d \in Nat /\ d < f
      BY <1>3 DEF MissedBefore
    <3>2. d < y + 1
      BY <3>1
    <3>3. QED
      BY <3>1, <3>2 DEF MissedBefore
  <2>2. ASSUME NEW d \in I
        PROVE  d \in M
    <3>1. d \in Missed /\ d < y + 1
      OBVIOUS
    <3>2. QED
      BY <3>1 DEF MissedBefore
  <2>3. QED
    BY <2>1, <2>2
<1>6. f = m /\ y \notin Missed => M = L \cup I
  <2>1. ASSUME f = m, y \notin Missed, NEW d \in M
        PROVE  d \in L \cup I
    <3>1. d \in Missed /\ d \in Nat /\ d < y + 1 /\ d # y
      BY <1>3, <2>1 DEF MissedBefore
    <3>2. CASE d < f
      BY <3>1, <3>2 DEF MissedBefore
    <3>3. CASE ~ (d < f)
      BY <2>1, <3>1, <3>3
    <3>4. QED
      BY <3>2, <3>3
  <2>2. QED
    BY <1>5, <2>1
<1> HIDE DEF L, I, M
<1>7. Cardinality(L \cup I) = Cardinality(L) + Cardinality(I) - Cardinality(L \cap I)
  BY <1>1, <1>2, FS_Union
<1>8. Cardinality(L \cap I) = 0
  BY <1>4, FS_EmptySet
<1>9. Cardinality(L \cup I) <= Cardinality(M)
  BY <1>1, <1>5, FS_Subset
<1>10. Cardinality(L \cup I) = Cardinality(L) + (y - m)
  BY <1>1, <1>2, <1>7, <1>8
<1>11. QED
  BY <1>6, <1>9, <1>10 DEF L, M

(* Datagrams between a sender's first and another of it are of the sender. *)
LEMMA SameSender ==
  ASSUME NEW y \in Nat, NEW n \in Nat, First(y) <= n, n <= y
  PROVE  Seq_(n) = n - First(y)
<1> DEFINE q == y \div Count
<1>1. Count \in Nat \ {0}
  BY Numbers
<1>2. Seq_(y) \in 0 .. Count - 1 /\ q \in Int /\ y = Count * q + Seq_(y)
  BY <1>1, DivMod DEF Seq_
<1>3. First(y) = Count * q /\ Count * q \in Int
  BY <1>1, <1>2 DEF First
<1> HIDE DEF q
<1> DEFINE d == n - First(y)
<1>4. d \in 0 .. Count - 1 /\ n = Count * q + d /\ n \in Int
  BY <1>1, <1>2, <1>3
<1> HIDE DEF d
<1>5. n % Count = d
  BY <1>1, <1>2, <1>4, DivModUnique
<1>6. QED
  BY <1>5 DEF Seq_, d

(* What main expects: the number after that of the last datagram.          *)
LEMMA ExpectedIs ==
  ASSUME StreamTypeOK, Transit, GapCount
  PROVE  /\ expected \in Nat
         /\ got = << >> => Frontier = 0 /\ expected = 0
         /\ got # << >> => Frontier >= 1 /\ Frontier - 1 \in Nat
                           /\ expected = Seq_(Frontier - 1) + 1
<1>1. expected \in Nat
  BY Numbers DEF TypeOK, StreamTypeOK
<1>2. CASE got = << >>
  BY <1>1, <1>2 DEF GapCount, Frontier
<1>3. CASE got # << >>
  <2>1. got[Len(got)] \in Nat /\ Frontier = got[Len(got)] + 1
    BY <1>3, FrontierIs, Numbers
  <2>2. Frontier - 1 = got[Len(got)] /\ Frontier >= 1
    BY <2>1
  <2>3. expected = Seq_(got[Len(got)]) + 1
    BY <1>3 DEF GapCount
  <2>4. QED
    BY <1>1, <1>3, <2>1, <2>2, <2>3
<1>4. QED
  BY <1>2, <1>3

(* The gap that main counts before datagram y: no more than the losses up  *)
(* to it, and exactly those if it is of the first sender.                  *)
LEMMA GapIs ==
  ASSUME StreamTypeOK, Transit, GapCount, events # << >>
  PROVE  LET y == Head(events)
             s == Seq_(y)
             g == IF s > expected THEN gaps + (s - expected) ELSE gaps
         IN  /\ g \in Nat
             /\ g <= Cardinality(MissedBefore(y + 1))
             /\ y + 1 <= Count => g = Cardinality(MissedBefore(y + 1))
<1> DEFINE y == Head(events)
           s == Seq_(y)
           g == IF s > expected THEN gaps + (s - expected) ELSE gaps
           L == Cardinality(MissedBefore(Frontier))
           M == Cardinality(MissedBefore(y + 1))
<1>1. /\ y \in Nat /\ y \notin Missed /\ Frontier <= y
      /\ \A n \in Int : First(y) <= n /\ Frontier <= n /\ n < y => n \in Missed
  BY NextRead
<1>2. /\ L \in Nat /\ M \in Nat /\ gaps \in Nat /\ gaps <= L
      /\ Frontier <= Count => gaps = L
  BY MissedFinite DEF GapCount, TypeOK, StreamTypeOK
<1> HIDE DEF y, L, M
<1>3. /\ s \in Nat /\ First(y) \in Nat /\ First(y) <= y /\ y = First(y) + s
      /\ y < Count => First(y) = 0
  BY <1>1, Numbers, SeqAndFirst
<1>4. /\ Frontier \in Nat /\ expected \in Nat /\ Count \in Nat
      /\ got = << >> => Frontier = 0 /\ expected = 0
      /\ got # << >> => Frontier >= 1 /\ Frontier - 1 \in Nat
                        /\ expected = Seq_(Frontier - 1) + 1
  BY FrontierIs, ExpectedIs, Numbers
<1> HIDE DEF s
<1>5. g \in Nat
  BY <1>2, <1>3, <1>4
<1>6. CASE Frontier <= First(y)
  <2>1. First(y) .. y - 1 \subseteq Missed
    BY <1>1, <1>3, <1>4, <1>6
  <2>2. /\ L + (y - First(y)) <= M
        /\ Frontier = First(y) => L + (y - First(y)) = M
    <3>1. First(y) \in Nat /\ Frontier \in Nat /\ First(y) <= y
      BY <1>3, <1>4
    <3>2. QED
      BY <1>1, <1>6, <2>1, <3>1, LossesAdd DEF L, M
  <2>3. g <= gaps + s
    BY <1>2, <1>3, <1>4
  <2>4. g <= M
    BY <1>2, <1>3, <1>5, <2>2, <2>3
  <2>5. ASSUME y + 1 <= Count
        PROVE  g = M
    <3>1. First(y) = 0 /\ Frontier = 0
      BY <1>1, <1>3, <1>4, <1>6, <2>5
    <3>2. expected = 0
      BY <1>4, <3>1
    <3>3. gaps = L /\ g = gaps + s /\ L + s = M
      BY <1>2, <1>3, <1>4, <2>2, <3>1, <3>2
    <3>4. QED
      BY <3>3
  <2>6. QED
    BY <1>5, <2>4, <2>5 DEF y, s, M
<1>7. CASE First(y) < Frontier
  <2>1. Frontier .. y - 1 \subseteq Missed
    BY <1>1, <1>3, <1>4, <1>7
  <2>2. L + (y - Frontier) = M
    BY <1>1, <1>4, <2>1, LossesAdd DEF L, M
  <2>3. Frontier - 1 \in Nat /\ expected = Seq_(Frontier - 1) + 1
    BY <1>3, <1>4, <1>7
  <2>4. First(y) <= Frontier - 1 /\ Frontier - 1 <= y
    BY <1>1, <1>3, <1>4, <1>7
  <2>5. Seq_(Frontier - 1) = (Frontier - 1) - First(y)
    BY <1>1, <2>3, <2>4, SameSender
  <2>6. s - expected = y - Frontier /\ s >= expected
    BY <1>1, <1>3, <1>4, <2>3, <2>5
  <2>7. g = gaps + (y - Frontier)
    BY <1>1, <1>2, <1>3, <1>4, <2>6
  <2>8. g <= M
    BY <1>1, <1>2, <1>4, <2>2, <2>7
  <2>9. y + 1 <= Count => g = M
    BY <1>1, <1>2, <1>4, <2>2, <2>7
  <2>10. QED
    BY <1>5, <2>8, <2>9 DEF y, s, M
<1>8. QED
  BY <1>3, <1>4, <1>6, <1>7

(* On to the next event. *)
LEMMA TailOfEvents ==
  ASSUME StreamTypeOK, events # << >>, events' = Tail(events)
  PROVE  /\ Len(events) \in Nat /\ Len(events) >= 1
         /\ Head(events) \in Datagrams /\ Head(events) \in Nat
         /\ events' \in Seq(Datagrams) /\ Len(events') = Len(events) - 1
         /\ got \in Seq(Datagrams) /\ events \in Seq(Datagrams)
  BY HeadAndTail, Numbers DEF StreamTypeOK

(* main, of either program, reads a datagram and accounts for the gap      *)
(* before it.                                                              *)
LEMMA ReadJourney ==
  ASSUME Journey, events # << >>, fits, Read(Head(events)), events' = Tail(events),
         UNCHANGED <<net, chan, batch, fits, late, stuck>>
  PROVE  Journey'
<1> DEFINE y == Head(events)
           s == Seq_(y)
<1>1. /\ StreamTypeOK /\ Transit /\ GapCount /\ SkipCount
      /\ gaps' = IF s > expected THEN gaps + (s - expected) ELSE gaps
      /\ expected' = s + 1
      /\ events' = Tail(events) /\ got' = Append(got, y)
      /\ skipped' = skipped /\ Missed' = Missed
  BY DEF Journey, Read, Account, Missed, net
<1>2. /\ y \in Datagrams /\ y \in Nat /\ events' \in Seq(Datagrams)
      /\ got \in Seq(Datagrams) /\ events \in Seq(Datagrams)
  BY <1>1, TailOfEvents
<1>3. /\ gaps' \in Nat
      /\ gaps' <= Cardinality(MissedBefore(y + 1))
      /\ y + 1 <= Count => gaps' = Cardinality(MissedBefore(y + 1))
  BY <1>1, GapIs
<1>4. /\ got' \in Seq(Datagrams) /\ got' # << >>
      /\ got'[Len(got')] = y
  <2> HIDE DEF y
  <2>1. QED
    BY ONLY <1>1, <1>2, AppendProperties
<1>5. Stream' = Stream
  <2>1. Append(got, y) \o Tail(events) = got \o events
    BY <1>1, <1>2, PassOne
  <2>2. got' \o events' = got \o events
    BY ONLY <1>1, <2>1
  <2>3. chan' = chan /\ batch' = batch /\ sock' = sock
    BY DEF net
  <2>4. QED
    BY ONLY <2>2, <2>3 DEF Stream
<1>6. StreamTypeOK'
  <2>1. expected' \in 0 .. Count
    <3>1. s \in 0 .. Count - 1
      BY <1>2, SeqAndFirst
    <3>2. expected' = s + 1 /\ Count \in Nat
      BY <1>1, Numbers
    <3>3. QED
      BY ONLY <3>1, <3>2
  <2>2. QED
    BY <1>1, <1>2, <1>3, <1>4, <2>1 DEF StreamTypeOK, net
<1>7. Transit'
  BY <1>1, <1>5, TransitStays DEF net
<1>8. GapCount'
  <2>1. Frontier' = y + 1
    BY <1>4 DEF Frontier
  <2>2. MissedBefore(Frontier)' = MissedBefore(y + 1)
    BY <1>1, <2>1 DEF MissedBefore
  <2>3. expected' = IF got' = << >> THEN 0 ELSE Seq_(got'[Len(got')]) + 1
    BY <1>1, <1>4
  <2>4. QED
    BY <1>3, <2>1, <2>2, <2>3 DEF GapCount, Seq_
<1>9. SkipCount'
  BY <1>1 DEF SkipCount
<1>10. QED
  BY <1>6, <1>7, <1>8, <1>9 DEF Journey

(* It skips a datagram: one without a header, or one whose buffer is lost  *)
(* to the program from now on.                                             *)
LEMMA SkipJourney ==
  ASSUME Journey, events # << >>, Skip(Head(events)), events' = Tail(events),
         UNCHANGED <<net, chan, batch, fits, late>>,
         stuck' \in Nat, fits => stuck' = stuck + 1
  PROVE  Journey'
<1>1. /\ StreamTypeOK /\ Transit /\ GapCount /\ SkipCount
      /\ skipped' = skipped \cup {Head(events)}
      /\ expected' = expected /\ gaps' = gaps /\ got' = got /\ sent' = sent
      /\ lost' = lost /\ sock' = sock /\ chan' = chan /\ batch' = batch
  BY DEF Journey, Skip, net
<1>2. /\ Head(events) \in Datagrams /\ events' \in Seq(Datagrams)
      /\ got \in Seq(Datagrams)
  BY <1>1, TailOfEvents
<1>3. PICK b \in Seq(Datagrams), x \in Datagrams :
        /\ x = Head(events)
        /\ Stream = got \o (<<x>> \o b)
        /\ got \o Tail(events) \o chan \o batch \o sock = got \o b
  BY <1>1, <1>2, StreamAtEvents
<1>4. PICK a \in Seq(Datagrams) : a = got
  BY <1>2
<1>5. /\ Stream = a \o (<<x>> \o b) /\ Stream' = a \o b
      /\ Members(got) \subseteq Members(a)
      /\ Missed' = Missed \cup {x}
  <2>1. Stream' = a \o b
    BY <1>1, <1>3, <1>4 DEF Stream
  <2>2. QED
    BY <1>1, <1>3, <1>4, <2>1 DEF Missed
<1>6. x \notin Missed /\ Transit' /\ GapCount'
  BY ONLY <1>1, <1>5, MissOne, a \in Seq(Datagrams), b \in Seq(Datagrams), x \in Datagrams
<1>7. StreamTypeOK'
  BY <1>1, <1>2 DEF StreamTypeOK, net
<1>8. SkipCount'
  <2>1. IsFiniteSet(skipped) /\ x \notin skipped
    <3>1. skipped \in SUBSET Missed
      BY DEF Missed
    <3>2. IsFiniteSet(Missed)
      BY <1>1, MissedFinite
    <3>3. QED
      BY <1>6, <3>1, <3>2, FS_Subset
  <2>2. Cardinality(skipped') = Cardinality(skipped) + 1
    BY <1>1, <1>3, <2>1, FS_AddElement
  <2>3. QED
    BY <1>1, <2>2 DEF SkipCount
<1>9. QED
  BY <1>6, <1>7, <1>8 DEF Journey

(* main serves an event: it cannot read the datagram and loses its buffer, *)
(* or it reads it, or it finds no header in it.                            *)
LEMMA ServeIInv == IInv /\ Serve => IInv'
<1> SUFFICES ASSUME IInv, Serve
             PROVE  IInv'
  OBVIOUS
<1>1. /\ TypeOK /\ StreamTypeOK /\ Control /\ Counted /\ Journey
      /\ appPc = "serve" /\ events # << >> /\ events' = Tail(events)
      /\ UNCHANGED <<net, nicVars, chan, completed, overrun, fits, late>>
      /\ chan' = chan /\ batch' = batch /\ stuck \in Nat
  BY DEF IInv, TypeOK, StreamTypeOK, Journey, Control, Serve, nicVars
<1>2. /\ Len(events) \in Nat /\ Len(events) >= 1 /\ Len(events') = Len(events) - 1
      /\ events' \in Seq(Datagrams)
  BY <1>1, TailOfEvents
<1>3. \/ /\ Skip(Head(events)) /\ stuck' = stuck + 1 /\ NextEvent
      \/ /\ Look(Head(events)) /\ stuck' = stuck /\ appPc' = "mark"
  BY DEF Serve
<1>4. Journey'
  <2>1. CASE Skip(Head(events)) /\ stuck' = stuck + 1
    BY <1>1, <2>1, SkipJourney
  <2>2. CASE Look(Head(events)) /\ stuck' = stuck
    <3>1. CASE fits
      BY <1>1, <2>2, <3>1, ReadJourney DEF Look
    <3>2. CASE ~ fits
      BY <1>1, <2>2, <3>2, SkipJourney DEF Look
    <3>3. QED
      BY <3>1, <3>2
  <2>3. QED
    BY <1>3, <2>1, <2>2
<1>5. /\ appPc' \in {"poll", "serve", "mark"}
      /\ appPc' = "serve" => events' # << >>
      /\ events' # << >> => appPc' \in {"serve", "mark"}
  BY <1>3 DEF NextEvent
<1>6. TypeOK'
  <2>1. /\ Len(chan') + Len(events') + stuck' <= Buffers /\ Len(events') <= MaxPoll
    <3>1. /\ Len(chan) + Len(events) + stuck <= Buffers /\ Len(events) <= MaxPoll
          /\ Len(chan) \in Nat /\ chan' = chan
      BY <1>1, LenProperties DEF TypeOK, StreamTypeOK
    <3>2. stuck' <= stuck + 1 /\ stuck' \in Nat
      BY <1>1, <1>3
    <3>3. QED
      BY <1>1, <1>2, <3>1, <3>2, ReceiverAssumption
  <2>2. StreamTypeOK' /\ appPc' \in {"start", "poll", "serve", "mark", "join", "done", "failed"}
    BY <1>4, <1>5 DEF Journey
  <2>3. QED
    BY <1>1, <2>1, <2>2 DEF TypeOK, net, nicVars
<1>7. Control'
  BY <1>1, <1>5 DEF Control, nicVars
<1>8. Counted'
  BY <1>1 DEF Counted, net, nicVars
<1>9. QED
  BY <1>4, <1>6, <1>7, <1>8 DEF IInv, Journey

(* The invariant is inductive.                                             *)
LEMMA NextIInv == IInv /\ [Next]_vars => IInv'
<1>1. ASSUME IInv, UNCHANGED vars
      PROVE  IInv'
  <2>1. Control'
    BY <1>1 DEF IInv, Control, vars, nicVars, app
  <2>2. QED
    BY <1>1, <2>1, QuietIInv DEF IInv, TypeOK, StreamTypeOK, vars, nicVars, app
<1>2. QED
  BY <1>1, SenderIInv, PollIInv, ServeIInv, ControlIInv, ReceiveIInv,
     DeliverIInv, OverrunIInv
     DEF Next, App, Nic, Loop, Terminated

(* The inductive invariant, of every behaviour.                            *)
THEOREM ReceiverInvariant == Spec => []IInv
  BY InitIInv, NextIInv, PTL DEF Spec

(* Types and bounds.                                                       *)
THEOREM ReceiverTypeOK == Spec => []TypeOK
<1>1. IInv => TypeOK
  BY DEF IInv
<1>2. QED
  BY <1>1, ReceiverInvariant, PTL

(* The NIC's thread never receives on a closed socket, and neither it nor  *)
(* the socket outlives main (stop, join and the destructor's order).       *)
THEOREM SocketOutlives == Spec => []SocketOutlivesThread
<1>1. IInv => SocketOutlivesThread
  BY DEF IInv, TypeOK, StreamTypeOK, Control, SocketOutlivesThread
<1>2. QED
  BY <1>1, ReceiverInvariant, PTL

LEMMA FinalCountsHold == IInv => FinalCounts
<1>1. ASSUME IInv, appPc = "done"
      PROVE  completed + overrun = received
  <2>1. TypeOK /\ StreamTypeOK /\ batch = << >> /\ completed + overrun + Len(batch) = received
    BY <1>1 DEF IInv, TypeOK, Control, Counted
  <2>2. Len(batch) = 0 /\ completed \in Nat /\ overrun \in Nat
    BY <2>1, EmptySeq, Numbers DEF TypeOK, StreamTypeOK
  <2>3. QED
    BY <2>1, <2>2
<1>2. QED
  BY <1>1 DEF FinalCounts

(* The counts printed last are final: whatever recvmmsg returned, also     *)
(* after stop, was completed or dropped before main went on.               *)
THEOREM CountsAreFinal == Spec => []FinalCounts
BY FinalCountsHold, ReceiverInvariant, PTL

LEMMA GapsHold ==
  ASSUME Journey, stuck <= Buffers
  PROVE  GapsAreLosses
<1>1. StreamTypeOK /\ Transit /\ GapCount /\ SkipCount /\ stuck \in Nat
  BY DEF Journey, StreamTypeOK
<1>2. /\ Cardinality(MissedBefore(Frontier)) \in Nat
      /\ Cardinality(MissedBefore(Frontier)) <= Cardinality(Missed)
      /\ IsFiniteSet(Missed) /\ Cardinality(Missed) \in Nat
  BY <1>1, MissedFinite, FS_CardinalityType
<1>3. gaps \in Nat /\ gaps <= Cardinality(MissedBefore(Frontier))
  BY <1>1 DEF GapCount, StreamTypeOK
<1>4. /\ Cardinality(lost) \in Nat
      /\ Cardinality(Missed) <= Cardinality(lost) + Cardinality(skipped)
  <2>1. lost \in SUBSET Missed /\ skipped \in SUBSET Missed /\ Missed = lost \cup skipped
    BY DEF Missed
  <2>2. IsFiniteSet(lost) /\ IsFiniteSet(skipped) /\ IsFiniteSet(lost \cap skipped)
    <3>1. lost \cap skipped \in SUBSET Missed
      BY <2>1
    <3>2. \A T \in SUBSET Missed : IsFiniteSet(T)
      BY <1>2, FS_Subset
    <3>3. QED
      BY ONLY <2>1, <3>1, <3>2
  <2>3. /\ Cardinality(lost) \in Nat /\ Cardinality(skipped) \in Nat
        /\ Cardinality(lost \cap skipped) \in Nat
    BY <2>2, FS_CardinalityType
  <2>4. Cardinality(lost \cup skipped)
          = Cardinality(lost) + Cardinality(skipped) - Cardinality(lost \cap skipped)
    BY <2>2, FS_Union
  <2>5. QED
    BY <2>1, <2>3, <2>4
<1>5. gaps <= Cardinality(lost) + stuck
  <2>1. CASE fits
    <3>1. Cardinality(skipped) = stuck
      BY <1>1, <2>1 DEF SkipCount
    <3>2. QED
      BY <1>1, <1>2, <1>3, <1>4, <3>1
  <2>2. CASE ~ fits
    <3>1. got = << >> /\ Frontier = 0
      BY <1>1, <2>2 DEF SkipCount, Frontier
    <3>2. Missed \subseteq Nat
      BY <1>1, MissedAre, Numbers
    <3>3. MissedBefore(Frontier) = {}
      <4>1. \A d \in Missed : ~ (d < 0)
        BY <3>2
      <4>2. \A d : d \notin MissedBefore(Frontier)
        BY <3>1, <4>1, Zenon DEF MissedBefore
      <4>3. QED
        BY <4>2, Zenon
    <3>4. gaps <= 0
      BY <1>3, <3>3, FS_EmptySet
    <3>5. QED
      BY <1>1, <1>3, <1>4, <3>4
  <2>3. QED
    BY <2>1, <2>2
<1>6. ASSUME got # << >>, got[Len(got)] < Count
      PROVE  gaps = Cardinality({n \in Missed : n < expected})
  <2>1. got[Len(got)] \in Nat /\ Frontier = got[Len(got)] + 1 /\ Count \in Nat
    BY <1>1, <1>6, FrontierIs, Numbers
  <2>2. expected = Seq_(got[Len(got)]) + 1 /\ Seq_(got[Len(got)]) = got[Len(got)]
    BY <1>1, <1>6, <2>1, SeqAndFirst DEF GapCount
  <2>3. Frontier <= Count /\ Frontier = expected
    BY <1>6, <2>1, <2>2
  <2>4. QED
    BY <1>1, <2>3 DEF GapCount, MissedBefore
<1>7. QED
  BY <1>5, <1>6 DEF GapsAreLosses

(* main's `gaps' counts datagrams that were lost, and besides them only    *)
(* those whose buffer post_from marked too late, one for each such buffer. *)
(* Before the last datagram read it misses none of either while the first  *)
(* sender runs.                                                            *)
THEOREM GapsCountLosses == Spec => []GapsAreLosses
<1>1. ASSUME IInv
      PROVE  Journey /\ stuck <= Buffers
  <2>1. TypeOK /\ StreamTypeOK /\ Journey
    BY <1>1 DEF IInv, TypeOK, Journey
  <2>2. /\ Len(chan) \in Nat /\ Len(events) \in Nat /\ stuck \in Nat /\ Buffers \in Nat
        /\ Len(chan) + Len(events) + stuck <= Buffers
    BY <2>1, LenProperties, ReceiverAssumption DEF TypeOK, StreamTypeOK
  <2>3. QED
    BY <2>1, <2>2
<1>2. IInv => GapsAreLosses
  BY <1>1, GapsHold
<1>3. QED
  BY <1>2, ReceiverInvariant, PTL
-----------------------------------------------------------------------------
(* The baseline, which receives into events directly. *)
BaselineInv == BaselineTypeOK /\ BaselineControl /\ Transit /\ GapCount /\ SkipCount

LEMMA BaselineParts == BaselineInv <=> BaselineTypeOK /\ BaselineControl /\ Journey
BY DEF BaselineInv, BaselineTypeOK, Journey

LEMMA BaselineInit == Init => BaselineInv
<1>1. SUFFICES ASSUME Init
      PROVE  BaselineInv
  OBVIOUS
<1>2. IInv
  BY <1>1, InitIInv
<1>3. Len(events) = 0 /\ 0 <= Batch
  BY <1>1, Numbers DEF Init
<1>4. QED
  BY <1>1, <1>2, <1>3 DEF Init, BaselineInv, BaselineTypeOK, BaselineControl, IInv, TypeOK

LEMMA BaselineSends == BaselineInv /\ Sender => BaselineInv'
<1>1. SUFFICES ASSUME BaselineInv, Sender
      PROVE  BaselineInv'
  OBVIOUS
<1>2. Journey'
  BY <1>1, BaselineParts, SendJourney, SendFailsJourney DEF Sender
<1>3. UNCHANGED <<nicVars, vi, app>>
  BY <1>1 DEF Sender, Send, SendFails
<1>4. BaselineTypeOK' /\ BaselineControl'
  BY <1>1, <1>2, <1>3 DEF BaselineInv, BaselineTypeOK, BaselineControl, Journey,
     nicVars, vi, app, tally
<1>5. QED
  BY <1>2, <1>4 DEF BaselineInv, Journey

LEMMA BaselineQuiet ==
  ASSUME BaselineInv, UNCHANGED <<net, batch, received, vi, events, tally>>
  PROVE  Journey'
<1>1. StreamTypeOK /\ Transit /\ GapCount /\ SkipCount
  BY BaselineParts DEF Journey
<1>2. Stream' = Stream /\ Missed' = Missed
  BY DEF Stream, Missed, net, vi, tally
<1>3. StreamTypeOK'
  BY <1>1 DEF StreamTypeOK, net, vi, tally
<1>4. Transit' /\ GapCount' /\ SkipCount'
  BY <1>1, <1>2, TransitStays, GapCountStays, SkipCountStays DEF net, vi, tally
<1>5. QED
  BY <1>3, <1>4 DEF Journey

LEMMA BaselineControls == BaselineInv /\ (Open \/ Leave) => BaselineInv'
<1>1. SUFFICES ASSUME BaselineInv, Open \/ Leave
      PROVE  BaselineInv'
  OBVIOUS
<1>2. /\ UNCHANGED <<net, batch, received, vi, events, tally>>
      /\ UNCHANGED <<running, thread, nicPc>>
  BY <1>1 DEF Open, Leave
<1>3. Journey'
  BY <1>1, <1>2, BaselineQuiet
<1>4. BaselineControl' /\ appPc' \in {"failed", "poll", "done"}
  BY <1>1, <1>2 DEF Open, Leave, BaselineInv, BaselineControl, vi
<1>5. BaselineTypeOK'
  BY <1>1, <1>2, <1>3, <1>4 DEF BaselineInv, BaselineTypeOK, Journey, vi
<1>6. QED
  BY <1>3, <1>4, <1>5 DEF BaselineInv, Journey

LEMMA BaselineReceives == BaselineInv /\ ReceiveDirect => BaselineInv'
<1>1. SUFFICES ASSUME BaselineInv, ReceiveDirect
      PROVE  BaselineInv'
  OBVIOUS
<1>2. /\ BaselineTypeOK /\ BaselineControl /\ StreamTypeOK
      /\ Transit /\ GapCount /\ SkipCount
      /\ appPc = "poll" /\ events = << >> /\ chan = << >> /\ batch = << >>
      /\ appPc' = "serve"
      /\ UNCHANGED <<sent, lost, running, fd, thread, nicPc, batch, vi, tally>>
  BY <1>1 DEF BaselineInv, BaselineTypeOK, BaselineControl, ReceiveDirect
<1>3. PICK k \in 1 .. Batch :
        /\ k <= Len(sock) /\ events' = SubSeq(sock, 1, k)
        /\ sock' = SubSeq(sock, k + 1, Len(sock)) /\ received' = received + k
  BY <1>1 DEF ReceiveDirect
<1>4. /\ got \in Seq(Datagrams) /\ sock \in Seq(Datagrams) /\ Len(sock) \in Nat
      /\ k \in 0 .. Len(sock) /\ k \in 1 .. Batch /\ Batch \in Nat
  BY <1>2, <1>3, Numbers, LenProperties DEF StreamTypeOK
<1>5. /\ events' \in Seq(Datagrams) /\ Len(events') = k
      /\ sock' \in Seq(Datagrams)
      /\ (got \o events') \o sock' = got \o sock
  <2>1. Passed(Datagrams, got, sock, k)
    BY <1>4, PassSome
  <2>2. got \o << >> = got
    BY <1>4, ConcatEmptySeq
  <2>3. got' = got
    BY <1>2 DEF tally
  <2>4. QED
    BY <1>3, <2>1, <2>2, <2>3 DEF Passed
<1>6. Stream' = Stream
  <2>1. \A f \in Seq(Datagrams) : f \o << >> = f
    BY ConcatEmptySeq
  <2>2. got \o << >> \o << >> \o << >> \o sock = got \o sock
    BY <1>4, <2>1
  <2>3. got \o events' \in Seq(Datagrams)
    BY <1>4, <1>5, ConcatAt
  <2>4. got \o events' \o << >> \o << >> \o sock' = (got \o events') \o sock'
    BY <2>1, <2>3
  <2>5. chan' = << >> /\ batch' = << >> /\ got' = got
    BY <1>2 DEF vi, tally
  <2>6. QED
    BY <1>2, <1>5, <2>2, <2>4, <2>5 DEF Stream
<1>7. Transit' /\ GapCount' /\ SkipCount'
  <2>1. Missed' = Missed
    BY <1>2 DEF Missed, tally
  <2>2. QED
    BY <1>2, <1>6, <2>1, TransitStays, GapCountStays, SkipCountStays DEF vi, tally
<1>8. BaselineTypeOK'
  <2>1. received' \in Nat
    BY <1>2, <1>3 DEF BaselineTypeOK
  <2>2. QED
    BY <1>2, <1>4, <1>5, <2>1 DEF BaselineTypeOK, StreamTypeOK, vi, tally
<1>9. BaselineControl'
  <2>1. events' # << >>
    BY <1>4, <1>5, EmptySeq
  <2>2. completed + 0 = received /\ completed \in Nat /\ received \in Nat /\ k \in Nat
    BY <1>2, <1>4, EmptySeq DEF BaselineControl, BaselineTypeOK
  <2>3. completed' + Len(events') = received'
    BY <1>2, <1>3, <1>5, <2>2 DEF vi
  <2>4. QED
    BY <1>2, <2>1, <2>3 DEF BaselineControl, vi
<1>10. QED
  BY <1>7, <1>8, <1>9 DEF BaselineInv

LEMMA BaselineHandles == BaselineInv /\ Handle => BaselineInv'
<1>1. SUFFICES ASSUME BaselineInv, Handle
      PROVE  BaselineInv'
  OBVIOUS
<1>2. /\ BaselineTypeOK /\ BaselineControl /\ Journey /\ StreamTypeOK
      /\ appPc = "serve" /\ events # << >> /\ completed' = completed + 1
      /\ Look(Head(events)) /\ events' = Tail(events) /\ NextEvent
      /\ UNCHANGED <<net, nicVars, chan, overrun, fits, late, stuck>>
      /\ batch' = batch /\ stuck' \in Nat
  BY <1>1, BaselineParts DEF Handle, BaselineControl, Journey, nicVars
<1>3. /\ Len(events) \in Nat /\ Len(events) >= 1 /\ Len(events') = Len(events) - 1
  BY <1>2, TailOfEvents
<1>4. appPc' \in {"poll", "serve"} /\ (appPc' = "serve" <=> events' # << >>)
  BY <1>2 DEF NextEvent
<1>5. Journey' \/ ~ fits
  BY <1>2, ReadJourney DEF Look
<1>6. Journey'
  <2>1. CASE ~ fits
    <3>1. Skip(Head(events))
      BY <1>2, <2>1 DEF Look
    <3>2. QED
      BY <1>2, <2>1, <3>1, SkipJourney
  <2>2. QED
    BY <1>5, <2>1
<1>7. BaselineTypeOK'
  BY <1>2, <1>3, <1>4, <1>6, Numbers DEF BaselineTypeOK, Journey, nicVars
<1>8. BaselineControl'
  <2>1. completed' + Len(events') = received'
    BY <1>2, <1>3 DEF BaselineControl, BaselineTypeOK, nicVars
  <2>2. QED
    BY <1>2, <1>4, <2>1 DEF BaselineControl, nicVars
<1>9. QED
  BY <1>6, <1>7, <1>8 DEF BaselineInv, Journey

LEMMA AnyInvKeeps == AnyInv /\ [AnyNext]_allVars => AnyInv'
<1>1. SUFFICES ASSUME AnyInv, [AnyNext]_allVars
      PROVE  AnyInv'
  OBVIOUS
<1>2. program' = program
  BY <1>1 DEF AnyNext, allVars
<1>3. CASE program = "receiver"
  <2>1. IInv /\ [Next]_vars
    BY <1>1, <1>3 DEF AnyInv, AnyNext, allVars
  <2>2. IInv'
    BY <2>1, NextIInv
  <2>3. QED
    BY <1>2, <1>3, <2>2 DEF AnyInv
<1>4. CASE program = "baseline"
  <2>1. BaselineInv
    BY <1>1, <1>4 DEF AnyInv, BaselineInv
  <2>2. \/ Sender \/ Open \/ ReceiveDirect \/ Handle \/ Leave
        \/ UNCHANGED vars
    BY <1>1, <1>4 DEF AnyNext, Baseline, Terminated, allVars
  <2>3. ASSUME UNCHANGED vars
        PROVE  BaselineInv'
    <3>1. UNCHANGED <<net, nicVars, vi, app>>
      BY <2>3 DEF vars
    <3>2. Journey'
      BY <2>1, <3>1, BaselineQuiet DEF nicVars, app
    <3>3. BaselineTypeOK' /\ BaselineControl'
      BY <2>1, <3>1, <3>2 DEF BaselineInv, BaselineTypeOK, BaselineControl, Journey,
         nicVars, vi, app
    <3>4. QED
      BY <3>2, <3>3 DEF BaselineInv, Journey
  <2>4. BaselineInv'
    BY <2>1, <2>2, <2>3, BaselineSends, BaselineControls, BaselineReceives, BaselineHandles
  <2>5. QED
    BY <1>2, <1>4, <2>4 DEF AnyInv, BaselineInv
<1>5. QED
  BY <1>1, <1>3, <1>4 DEF AnyInv

(* The inductive invariant of whichever program runs.                      *)
THEOREM EitherInvariant == AnySpec => []AnyInv
<1>1. AnyInit => AnyInv
  BY InitIInv, BaselineInit DEF AnyInit, AnyInv, BaselineInv
<1>2. QED
  BY <1>1, AnyInvKeeps, PTL DEF AnySpec

(* Neither program uses a closed socket, or leaves one open when it ends.  *)
THEOREM EitherClosesSocket == AnySpec => []SocketOutlivesThread
<1>1. AnyInv => SocketOutlivesThread
  BY DEF AnyInv, IInv, TypeOK, Control, BaselineControl, SocketOutlivesThread
<1>2. QED
  BY <1>1, EitherInvariant, PTL

(* Either program has counted, when it prints, every datagram that it has  *)
(* received: the baseline handles what it received before it may leave.    *)
THEOREM EitherCountsAreFinal == AnySpec => []FinalCounts
<1>1. IInv => FinalCounts
  BY FinalCountsHold
<1>2. ASSUME BaselineInv, appPc = "done"
      PROVE  completed + overrun = received
  <2>1. events = << >> /\ overrun = 0 /\ completed \in Nat /\ completed + Len(events) = received
    BY <1>2 DEF BaselineInv, BaselineTypeOK, BaselineControl
  <2>2. QED
    BY <2>1, EmptySeq
<1>3. AnyInv => FinalCounts
  BY <1>1, <1>2 DEF AnyInv, BaselineInv, FinalCounts
<1>4. QED
  BY <1>3, EitherInvariant, PTL

(* The gaps that either program prints are losses, and in the receiver one *)
(* more for each buffer marked too late.                                   *)
THEOREM EitherCountsLosses == AnySpec => []GapsAreLosses
<1>1. ASSUME AnyInv, program = "receiver"
      PROVE  Journey /\ stuck <= Buffers
  <2>1. TypeOK /\ StreamTypeOK /\ Journey
    BY <1>1 DEF AnyInv, IInv, TypeOK, Journey
  <2>2. /\ Len(chan) \in Nat /\ Len(events) \in Nat /\ stuck \in Nat /\ Buffers \in Nat
        /\ Len(chan) + Len(events) + stuck <= Buffers
    BY <2>1, LenProperties, ReceiverAssumption DEF TypeOK, StreamTypeOK
  <2>3. QED
    BY <2>1, <2>2
<1>2. ASSUME AnyInv, program = "baseline"
      PROVE  Journey /\ stuck <= Buffers
  BY <1>2, ReceiverAssumption DEF AnyInv, BaselineTypeOK, BaselineControl, Journey
<1>3. AnyInv => GapsAreLosses
  <2>1. AnyInv => program \in {"receiver", "baseline"}
    BY DEF AnyInv
  <2>2. QED
    BY <1>1, <1>2, <2>1, GapsHold
<1>4. QED
  BY <1>3, EitherInvariant, PTL
-----------------------------------------------------------------------------
(* The histogram from which either program prints.  No step of the         *)
(* programs matters here: what the recursive functions of Hist are for any *)
(* argument is shown by the least argument for which it would not be so.   *)

(* A nonempty set of numbers has a least one.                              *)
LEMMA Least ==
  ASSUME NEW T, T \subseteq Nat, T # {}
  PROVE  \E x \in T : \A y \in T : x <= y
<1>1. IsWellFoundedOn(OpToRel(<, Nat), Nat)
  BY NatLessThanWellFounded, Zenon
<1>2. PICK x \in T : \A y \in T : ~ (<<y, x>> \in OpToRel(<, Nat))
  BY <1>1, WFMin, Zenon
<1>3. ASSUME NEW y \in T
      PROVE  ~ (y < x)
  <2>1. x \in Nat /\ y \in Nat
    OBVIOUS
  <2>2. y < x => <<y, x>> \in OpToRel(<, Nat)
    BY <2>1, Zenon DEF OpToRel
  <2>3. QED
    BY <1>2, <2>2, Zenon
<1>4. QED
  BY <1>3

(* So a set that has every number up to n whose predecessors it has has    *)
(* them all.                                                               *)
LEMMA AllUpTo ==
  ASSUME NEW n \in Nat, NEW T,
         \A k \in 0 .. n : (\A j \in 0 .. k - 1 : j \in T) => k \in T
  PROVE  \A k \in 0 .. n : k \in T
<1> DEFINE bad == {k \in 0 .. n : k \notin T}
<1>1. bad = {}
  <2>1. SUFFICES ASSUME bad # {}
        PROVE  FALSE
    OBVIOUS
  <2>2. bad \subseteq Nat
    OBVIOUS
  <2> HIDE DEF bad
  <2>3. PICK x \in bad : \A y \in bad : x <= y
    BY <2>1, <2>2, Least
  <2>4. x \in 0 .. n /\ x \notin T
    BY DEF bad
  <2>5. \A j \in 0 .. x - 1 : j \in T
    BY <2>3, <2>4 DEF bad
  <2>6. QED
    BY <2>4, <2>5
<1>2. QED
  BY <1>1

(* A function of the number of steps that takes each from the last: what a *)
(* recursive definition of this form is, if there is one.                  *)
Steps(f, n, c, G) == f[0] = c /\ \A k \in 1 .. n : f[k] = G[<<k, f[k - 1]>>]

LEMMA StepsExist ==
  ASSUME NEW S, NEW n \in Nat, NEW c \in S, NEW G \in [(1 .. n) \X S -> S]
  PROVE  \E f \in [0 .. n -> S] : Steps(f, n, c, G)
<1> DEFINE T == {m \in 0 .. n : \E f \in [0 .. m -> S] : Steps(f, m, c, G)}
<1>1. ASSUME NEW m \in 0 .. n, \A j \in 0 .. m - 1 : j \in T
      PROVE  m \in T
  <2>1. CASE m = 0
    <3> DEFINE f == [k \in 0 .. 0 |-> c]
    <3>1. f \in [0 .. 0 -> S] /\ Steps(f, 0, c, G)
      BY DEF Steps
    <3> HIDE DEF f
    <3>2. QED
      BY <2>1, <3>1
  <2>2. CASE m # 0
    <3>1. m \in 1 .. n /\ m - 1 \in 0 .. m - 1 /\ m \in Nat
      BY <2>2
    <3>2. PICK f \in [0 .. m - 1 -> S] : Steps(f, m - 1, c, G)
      BY <1>1, <3>1
    <3> DEFINE e == G[<<m, f[m - 1]>>]
               g == [k \in 0 .. m |-> IF k = m THEN e ELSE f[k]]
    <3>3. e \in S
      BY <3>1
    <3>4. \A k \in 0 .. m : k # m => k \in 0 .. m - 1
      BY <3>1
    <3> HIDE DEF e
    <3>5. g \in [0 .. m -> S]
      BY <3>3, <3>4
    <3>6. g[m] = e /\ \A k \in 0 .. m - 1 : g[k] = f[k]
      BY <3>1
    <3> HIDE DEF g
    <3>7. g[0] = c
      BY <3>1, <3>2, <3>6 DEF Steps
    <3>8. ASSUME NEW k \in 1 .. m
          PROVE  g[k] = G[<<k, g[k - 1]>>]
      <4>1. k - 1 \in 0 .. m - 1 /\ g[k - 1] = f[k - 1]
        BY <3>1, <3>6
      <4>2. CASE k = m
        BY <3>6, <4>1, <4>2 DEF e
      <4>3. CASE k # m
        <5>1. k \in 1 .. m - 1 /\ k \in 0 .. m - 1
          BY <3>1, <4>3
        <5>2. QED
          BY <3>2, <3>6, <4>1, <5>1 DEF Steps
      <4>4. QED
        BY <4>2, <4>3
    <3>9. Steps(g, m, c, G)
      BY <3>7, <3>8 DEF Steps
    <3>10. QED
      BY <3>5, <3>9
  <2>3. QED
    BY <2>1, <2>2
<1> HIDE DEF T
<1>2. n \in T
  BY <1>1, AllUpTo
<1>3. QED
  BY <1>2 DEF T
-----------------------------------------------------------------------------
(* The powers of two. *)
IsShifted(s) == s = [b \in Buckets_ |-> IF b = 0 THEN 1 ELSE 2 * s[b - 1]]

LEMMA ShiftedIs ==
  /\ Shifted[0] = 1 /\ \A b \in Buckets_ : Shifted[b] \in Nat /\ Shifted[b] >= 1
  /\ \A b \in Buckets_ : b # 0 => b - 1 \in Buckets_ /\ Shifted[b] = 2 * Shifted[b - 1]
<1> DEFINE n == kBuckets - 1
           G == [x \in (1 .. n) \X Nat |-> 2 * x[2]]
<1>1. n \in Nat /\ Buckets_ = 0 .. n
  BY HistAssumption DEF Buckets_
<1> HIDE DEF n
<1>2. G \in [(1 .. n) \X Nat -> Nat] /\ \A k \in 1 .. n, v \in Nat : G[<<k, v>>] = 2 * v
  OBVIOUS
<1> HIDE DEF G
<1>3. PICK f \in [0 .. n -> Nat] : Steps(f, n, 1, G)
  BY <1>1, <1>2, StepsExist
<1>4. \A k \in 1 .. n : f[k] = 2 * f[k - 1]
  <2>1. TAKE k \in 1 .. n
  <2>2. k - 1 \in 0 .. n
    BY <1>1
  <2>3. f[k - 1] \in Nat /\ f[k] = G[<<k, f[k - 1]>>]
    BY <1>3, <2>2 DEF Steps
  <2>4. QED
    BY <1>2, <2>3
<1>5. IsShifted(f)
  <2>1. \A b \in 0 .. n : f[b] = IF b = 0 THEN 1 ELSE 2 * f[b - 1]
    BY <1>1, <1>3, <1>4 DEF Steps
  <2>2. QED
    BY <1>1, <2>1 DEF IsShifted
<1>6. Shifted = CHOOSE s : IsShifted(s)
  BY DEF Shifted, IsShifted
<1>7. IsShifted(Shifted)
  BY <1>5, <1>6
<1>8. Shifted[0] = 1 /\ \A b \in 0 .. n : b # 0 => Shifted[b] = 2 * Shifted[b - 1]
  BY <1>1, <1>7 DEF IsShifted
<1> DEFINE T == {b \in 0 .. n : Shifted[b] \in Nat /\ Shifted[b] >= 1}
<1>9. ASSUME NEW b \in 0 .. n, \A j \in 0 .. b - 1 : j \in T
      PROVE  b \in T
  <2>1. b # 0 => b - 1 \in 0 .. b - 1
    BY <1>1
  <2>2. QED
    BY <1>8, <1>9, <2>1
<1> HIDE DEF T
<1>10. \A b \in 0 .. n : b \in T
  BY <1>1, <1>9, AllUpTo
<1>11. QED
  BY <1>1, <1>8, <1>10 DEF T

(* How often a value can be halved.                                        *)
IsHalvings(h) == h = [v \in 0 .. Largest |-> IF v <= 1 THEN 0 ELSE 1 + h[v \div 2]]

LEMMA HalfOf ==
  ASSUME NEW v \in Nat, v > 1
  PROVE  /\ v \div 2 \in 1 .. v - 1 /\ 2 * (v \div 2) <= v /\ v <= 2 * (v \div 2) + 1
OBVIOUS

Halves(h, m) ==
  \A v \in 0 .. m : h[v] = IF v <= 1 THEN 0 ELSE 1 + h[v \div 2]

LEMMA HalvesExist == \E h \in [0 .. Largest -> Nat] : Halves(h, Largest)
<1> DEFINE T == {m \in 0 .. Largest : \E h \in [0 .. m -> Nat] : Halves(h, m)}
<1>1. ASSUME NEW m \in 0 .. Largest, \A j \in 0 .. m - 1 : j \in T
      PROVE  m \in T
  <2>1. CASE m = 0
    <3> DEFINE h == [v \in 0 .. 0 |-> 0]
    <3>1. h \in [0 .. 0 -> Nat] /\ Halves(h, 0)
      BY DEF Halves
    <3> HIDE DEF h
    <3>2. QED
      BY <2>1, <3>1
  <2>2. CASE m # 0
    <3>1. m \in Nat /\ m >= 1 /\ m - 1 \in 0 .. m - 1
      BY <2>2, HistAssumption
    <3>2. PICK f \in [0 .. m - 1 -> Nat] : Halves(f, m - 1)
      BY <1>1, <3>1
    <3> DEFINE e == IF m <= 1 THEN 0 ELSE 1 + f[m \div 2]
               h == [v \in 0 .. m |-> IF v = m THEN e ELSE f[v]]
    <3>3. e \in Nat
      BY <3>1, <3>2, HalfOf
    <3>4. \A v \in 0 .. m : v # m => v \in 0 .. m - 1
      BY <3>1
    <3> HIDE DEF e
    <3>5. h \in [0 .. m -> Nat]
      BY <3>3, <3>4
    <3>6. h[m] = e /\ \A v \in 0 .. m - 1 : h[v] = f[v]
      BY <3>1
    <3> HIDE DEF h
    <3>7. ASSUME NEW v \in 0 .. m
          PROVE  h[v] = IF v <= 1 THEN 0 ELSE 1 + h[v \div 2]
      <4>1. v > 1 => v \div 2 \in 0 .. m - 1
        BY <3>1, HalfOf
      <4>2. v > 1 => h[v \div 2] = f[v \div 2]
        BY <3>6, <4>1
      <4>3. CASE v = m
        BY <3>1, <3>6, <4>2, <4>3 DEF e
      <4>4. CASE v # m
        BY <3>1, <3>2, <3>4, <3>6, <4>2, <4>4 DEF Halves
      <4>5. QED
        BY <4>3, <4>4
    <3>8. Halves(h, m)
      BY <3>7 DEF Halves
    <3>9. QED
      BY <3>5, <3>8
  <2>3. QED
    BY <2>1, <2>2
<1> HIDE DEF T
<1>2. Largest \in T
  BY <1>1, AllUpTo, HistAssumption
<1>3. QED
  BY <1>2 DEF T

LEMMA HalvingsAre ==
  /\ \A v \in 0 .. Largest : Halvings[v] = IF v <= 1 THEN 0 ELSE 1 + Halvings[v \div 2]
  /\ \A v \in 0 .. Largest : Halvings[v] \in Nat
<1>1. PICK f \in [0 .. Largest -> Nat] : Halves(f, Largest)
  BY HalvesExist
<1>2. IsHalvings(f)
  BY <1>1 DEF IsHalvings, Halves
<1>3. Halvings = CHOOSE h : IsHalvings(h)
  BY DEF Halvings, IsHalvings
<1>4. IsHalvings(Halvings)
  BY <1>2, <1>3
<1>5. \A v \in 0 .. Largest : Halvings[v] = IF v <= 1 THEN 0 ELSE 1 + Halvings[v \div 2]
  BY <1>4 DEF IsHalvings
<1> DEFINE T == {v \in 0 .. Largest : Halvings[v] \in Nat}
<1>6. ASSUME NEW v \in 0 .. Largest, \A j \in 0 .. v - 1 : j \in T
      PROVE  v \in T
  <2>1. v > 1 => v \div 2 \in 0 .. v - 1
    BY HalfOf, HistAssumption
  <2>2. QED
    BY <1>5, <1>6, <2>1
<1> HIDE DEF T
<1>7. \A v \in 0 .. Largest : v \in T
  BY <1>6, AllUpTo, HistAssumption
<1>8. QED
  BY <1>5, <1>7 DEF T

(* A larger value can be halved as often.                                  *)
LEMMA HalvingsGrow ==
  ASSUME NEW v \in 0 .. Largest, NEW w \in 0 .. Largest, v <= w
  PROVE  Halvings[v] <= Halvings[w]
<1> DEFINE T == {y \in 0 .. Largest : \A x \in 0 .. y : Halvings[x] <= Halvings[y]}
<1>1. ASSUME NEW y \in 0 .. Largest, \A j \in 0 .. y - 1 : j \in T
      PROVE  y \in T
  <2>1. ASSUME NEW x \in 0 .. y
        PROVE  Halvings[x] <= Halvings[y]
    <3>1. x \in Nat /\ y \in Nat /\ x \in 0 .. Largest /\ Halvings[y] \in Nat
      BY HalvingsAre, HistAssumption
    <3>2. CASE x <= 1
      <4>1. Halvings[x] = IF x <= 1 THEN 0 ELSE 1 + Halvings[x \div 2]
        BY <3>1, HalvingsAre
      <4>2. Halvings[x] = 0
        BY <3>2, <4>1
      <4>3. QED
        BY <3>1, <4>2
    <3>3. CASE x > 1
      <4>1. /\ x \div 2 \in 0 .. Largest /\ y \div 2 \in 0 .. y - 1
            /\ x \div 2 \in 0 .. y \div 2
        <5>1. y > 1 /\ y \in Nat /\ x \in Nat /\ x <= y /\ y <= Largest
          BY <3>1, <3>3, HistAssumption
        <5>2. /\ x \div 2 \in 1 .. x - 1 /\ 2 * (x \div 2) <= x
              /\ y \div 2 \in 1 .. y - 1 /\ y <= 2 * (y \div 2) + 1
          BY <3>3, <5>1, HalfOf
        <5> DEFINE a == x \div 2
                   c == y \div 2
        <5> HIDE DEF a, c
        <5>3. a \in 1 .. x - 1 /\ 2 * a <= x /\ c \in 1 .. y - 1 /\ y <= 2 * c + 1
          BY <5>2 DEF a, c
        <5>4. a \in 0 .. Largest /\ c \in 0 .. y - 1 /\ a \in 0 .. c
          BY <5>1, <5>3, HistAssumption
        <5>5. QED
          BY <5>4 DEF a, c
      <4>2. Halvings[x \div 2] <= Halvings[y \div 2]
        BY <1>1, <4>1
      <4>3. /\ Halvings[x] = 1 + Halvings[x \div 2] /\ Halvings[y] = 1 + Halvings[y \div 2]
            /\ Halvings[x \div 2] \in Nat /\ Halvings[y \div 2] \in Nat
        <5>1. /\ Halvings[x] = IF x <= 1 THEN 0 ELSE 1 + Halvings[x \div 2]
              /\ Halvings[y] = IF y <= 1 THEN 0 ELSE 1 + Halvings[y \div 2]
          BY <3>1, HalvingsAre
        <5>2. y \div 2 \in 0 .. Largest /\ ~ (x <= 1) /\ ~ (y <= 1)
          BY <3>1, <3>3, <4>1, HistAssumption
        <5>3. Halvings[x \div 2] \in Nat /\ Halvings[y \div 2] \in Nat
          BY <4>1, <5>2, HalvingsAre
        <5>4. QED
          BY <5>1, <5>2, <5>3, Zenon
      <4>4. QED
        BY <4>2, <4>3
    <3>4. QED
      BY <3>1, <3>2, <3>3
  <2>2. QED
    BY <2>1
<1> HIDE DEF T
<1>2. w \in T
  BY <1>1, AllUpTo, HistAssumption
<1>3. QED
  BY <1>2 DEF T

(* That many halvings take a value to 1.                                   *)
Brought(v) ==
  /\ \A b \in Buckets_ : b <= Halvings[v] => Shifted[b] <= v
  /\ Halvings[v] \in Buckets_ => v < 2 * Shifted[Halvings[v]]

LEMMA HalvingsBring ==
  ASSUME NEW v \in 1 .. Largest
  PROVE  Brought(v)
<1> DEFINE T == {y \in 0 .. Largest : y # 0 => Brought(y)}
<1>1. ASSUME NEW y \in 0 .. Largest, \A j \in 0 .. y - 1 : j \in T
      PROVE  y \in T
  <2>1. CASE y = 0
    BY <2>1
  <2>2. CASE y = 1
    <3>1. Halvings[y] = 0 /\ Shifted[0] = 1
      BY <2>2, HalvingsAre, ShiftedIs
    <3>2. \A b \in Buckets_ : b <= 0 => b = 0
      BY DEF Buckets_
    <3>3. Brought(y)
      BY <2>2, <3>1, <3>2 DEF Brought
    <3>4. QED
      BY <3>3
  <2>3. CASE y > 1
    <3> DEFINE u == y \div 2
               H == Halvings[u]
    <3>1. /\ y \in Nat /\ u \in 1 .. y - 1 /\ u \in 0 .. y - 1 /\ u \in 0 .. Largest
          /\ 2 * u <= y /\ y <= 2 * u + 1 /\ u \in Nat /\ u # 0
      BY <2>3, HalfOf, HistAssumption
    <3>2. Halvings[y] = 1 + H /\ H \in Nat
      BY <2>3, <3>1, HalvingsAre
    <3>3. Brought(u)
      BY <1>1, <3>1
    <3> HIDE DEF u
    <3>4. ASSUME NEW b \in Buckets_, b <= Halvings[y]
          PROVE  Shifted[b] <= y
      <4>1. CASE b = 0
        BY <3>1, <4>1, ShiftedIs
      <4>2. CASE b # 0
        <5>1. b - 1 \in Buckets_ /\ Shifted[b] = 2 * Shifted[b - 1] /\ Shifted[b - 1] \in Nat
          BY <4>2, ShiftedIs
        <5>2. b - 1 <= H
          BY <3>2, <3>4 DEF Buckets_
        <5>3. Shifted[b - 1] <= u
          BY <3>3, <5>1, <5>2 DEF Brought
        <5>4. QED
          BY <3>1, <5>1, <5>3
      <4>3. QED
        BY <4>1, <4>2
    <3>5. ASSUME Halvings[y] \in Buckets_
          PROVE  y < 2 * Shifted[Halvings[y]]
      <4>1. H \in Buckets_ /\ Shifted[1 + H] = 2 * Shifted[H] /\ Shifted[H] \in Nat
        <5>1. 1 + H # 0 /\ (1 + H) - 1 = H
          BY <3>2
        <5>2. QED
          BY <3>2, <3>5, <5>1, ShiftedIs
      <4>2. u < 2 * Shifted[H]
        BY <3>3, <4>1 DEF Brought
      <4>3. QED
        BY <3>1, <3>2, <4>1, <4>2
    <3>6. Brought(y)
      BY <3>4, <3>5 DEF Brought
    <3>7. QED
      BY <3>6
  <2>4. QED
    BY <2>1, <2>2, <2>3, HistAssumption
<1> HIDE DEF T
<1>2. v \in 0 .. Largest /\ v # 0
  BY HistAssumption
<1>3. v \in T
  BY <1>1, <1>2, AllUpTo, HistAssumption
<1>4. QED
  BY <1>2, <1>3 DEF T
-----------------------------------------------------------------------------
LEMMA ShiftedGrows ==
  ASSUME NEW b \in Buckets_, NEW c \in Buckets_, b <= c
  PROVE  Shifted[b] <= Shifted[c]
<1> DEFINE n == kBuckets - 1
           T == {y \in 0 .. n : \A x \in 0 .. y : Shifted[x] <= Shifted[y]}
<1>1. n \in Nat /\ Buckets_ = 0 .. n
  BY HistAssumption DEF Buckets_
<1> HIDE DEF n
<1>2. ASSUME NEW y \in 0 .. n, \A j \in 0 .. y - 1 : j \in T
      PROVE  y \in T
  <2>1. ASSUME NEW x \in 0 .. y
        PROVE  Shifted[x] <= Shifted[y]
    <3>1. x \in 0 .. n /\ Shifted[x] \in Nat /\ Shifted[y] \in Nat
      <4>1. x \in 0 .. n
        BY <1>1
      <4>2. QED
        BY <1>1, <4>1, ShiftedIs
    <3>2. CASE x = y
      BY <3>1, <3>2
    <3>3. CASE x # y
      <4>1. y # 0 /\ y - 1 \in 0 .. y - 1 /\ x \in 0 .. y - 1 /\ y - 1 \in 0 .. n
        BY <1>1, <3>3
      <4>2. Shifted[y] = 2 * Shifted[y - 1] /\ Shifted[y - 1] \in Nat
        BY <1>1, <4>1, ShiftedIs
      <4>3. Shifted[x] <= Shifted[y - 1]
        BY <1>2, <4>1
      <4>4. QED
        BY <3>1, <4>2, <4>3
    <3>4. QED
      BY <3>2, <3>3
  <2>2. QED
    BY <2>1
<1> HIDE DEF T
<1>3. c \in T
  BY <1>1, <1>2, AllUpTo
<1>4. b \in 0 .. c
  BY <1>1
<1>5. QED
  BY <1>3, <1>4 DEF T

LEMMA ValueGrows ==
  ASSUME NEW b \in Buckets_, NEW c \in Buckets_, b <= c
  PROVE  BucketValue(b) \in Nat /\ BucketValue(c) \in Nat /\ BucketValue(b) <= BucketValue(c)
<1>1. Shifted[b] \in Nat /\ Shifted[c] \in Nat /\ Shifted[b] <= Shifted[c]
  BY ShiftedIs, ShiftedGrows
<1>2. b \in Nat /\ c \in Nat
  BY DEF Buckets_
<1>3. QED
  BY <1>1, <1>2 DEF BucketValue

(* A larger value goes to no smaller bucket.                               *)
LEMMA BucketGrows ==
  ASSUME NEW v \in 0 .. Largest, NEW w \in 0 .. Largest, v <= w
  PROVE  Bucket(v) \in Buckets_ /\ Bucket(w) \in Buckets_ /\ Bucket(v) <= Bucket(w)
<1>1. Halvings[v] \in Nat /\ Halvings[w] \in Nat /\ Halvings[v] <= Halvings[w]
  BY HalvingsAre, HalvingsGrow
<1>2. kBuckets \in Nat /\ kBuckets >= 1
  BY HistAssumption
<1>3. QED
  BY <1>1, <1>2 DEF Bucket, Buckets_

(* The value printed for the bucket of a sample brackets the sample.       *)
Bracketed(v, printed) ==
  /\ printed \in Nat /\ printed <= v
  /\ IF v < 2 THEN printed = 0
     ELSE v < 2 * printed \/ printed = BucketValue(kBuckets - 1)

LEMMA BucketHolds ==
  ASSUME NEW v \in 0 .. Largest
  PROVE  Bracketed(v, BucketValue(Bucket(v)))
<1>1. /\ kBuckets \in Nat /\ kBuckets >= 1 /\ v \in Nat /\ Halvings[v] \in Nat
      /\ Halvings[v] = IF v <= 1 THEN 0 ELSE 1 + Halvings[v \div 2]
  BY HistAssumption, HalvingsAre
<1>2. CASE v < 2
  <2>1. Halvings[v] = 0
    BY <1>1, <1>2
  <2>2. Bucket(v) = 0
    BY <1>1, <2>1 DEF Bucket
  <2>3. QED
    BY <1>1, <1>2, <2>2 DEF Bracketed, BucketValue
<1>3. CASE v >= 2
  <2>1. Brought(v) /\ ~ (v < 2)
    <3>1. v \in 1 .. Largest
      BY <1>1, <1>3, HistAssumption
    <3>2. QED
      BY <1>1, <1>3, <3>1, HalvingsBring
  <2>2. CASE Halvings[v] < kBuckets
    <3> DEFINE H == Halvings[v]
    <3>1. H \in Buckets_ /\ Bucket(v) = H /\ H # 0
      <4>1. v \div 2 \in 0 .. Largest
        BY <1>1, <1>3, HalfOf, HistAssumption
      <4>2. Halvings[v \div 2] \in Nat
        BY <4>1, HalvingsAre
      <4>3. Halvings[v] = 1 + Halvings[v \div 2]
        BY <1>1, <1>3
      <4>4. QED
        BY <1>1, <2>2, <4>2, <4>3 DEF Bucket, Buckets_
    <3>2. BucketValue(H) = Shifted[H] /\ Shifted[H] \in Nat
      BY <3>1, ShiftedIs DEF BucketValue
    <3>3. Shifted[H] <= v /\ v < 2 * Shifted[H]
      <4>1. H <= H
        BY <1>1
      <4>2. QED
        BY <2>1, <3>1, <4>1 DEF Brought
    <3>4. QED
      BY <2>1, <3>1, <3>2, <3>3 DEF Bracketed
  <2>3. CASE ~ (Halvings[v] < kBuckets)
    <3> DEFINE L == kBuckets - 1
    <3>1. L \in Buckets_ /\ Bucket(v) = L /\ L <= Halvings[v]
      BY <1>1, <2>3 DEF Bucket, Buckets_
    <3>2. Shifted[L] <= v /\ Shifted[L] \in Nat
      BY <2>1, <3>1, ShiftedIs DEF Brought
    <3>3. BucketValue(L) \in Nat /\ BucketValue(L) <= v
      BY <1>1, <3>2 DEF BucketValue
    <3>4. QED
      BY <2>1, <3>1, <3>3 DEF Bracketed
  <2>4. QED
    BY <2>2, <2>3
<1>4. QED
  BY <1>1, <1>2, <1>3
-----------------------------------------------------------------------------
(* What the loops of adding fill in. *)
Hists == [count : Nat, sum : Nat, min : Nat, max : Nat, buckets : [Buckets_ -> Nat]]

LEMMA NewHistIs ==
  /\ NewHist \in Hists /\ NewHist.count = 0
  /\ \A b \in Buckets_ : NewHist.buckets[b] = 0
BY HistAssumption DEF NewHist, Hists

LEMMA AddIs ==
  ASSUME NEW h \in Hists, NEW v \in 0 .. Largest
  PROVE  /\ Add(h, v) \in Hists /\ Add(h, v).count = h.count + 1
         /\ Add(h, v).min <= v /\ Add(h, v).min <= h.min
         /\ v <= Add(h, v).max /\ h.max <= Add(h, v).max
         /\ \A b \in Buckets_ :
              Add(h, v).buckets[b] = h.buckets[b] + IF b = Bucket(v) THEN 1 ELSE 0
<1>1. v \in Nat /\ Bucket(v) \in Buckets_
  <2>1. v <= v /\ v \in Nat
    BY HistAssumption
  <2>2. QED
    BY <2>1, BucketGrows
<1> DEFINE c == Bucket(v)
           B == [h.buckets EXCEPT ![c] = @ + 1]
<1> HIDE DEF c
<1>2. /\ h.count \in Nat /\ h.sum \in Nat /\ h.min \in Nat /\ h.max \in Nat
      /\ h.buckets \in [Buckets_ -> Nat]
  BY DEF Hists
<1>3. B \in [Buckets_ -> Nat] /\ \A b \in Buckets_ : B[b] = h.buckets[b] + IF b = c THEN 1 ELSE 0
  BY <1>1, <1>2 DEF c
<1> HIDE DEF B
<1>4. Add(h, v) = [count |-> h.count + 1, sum |-> h.sum + v,
                   min |-> IF v < h.min THEN v ELSE h.min,
                   max |-> IF v > h.max THEN v ELSE h.max,
                   buckets |-> B]
  BY DEF Add, B, c
<1>5. Add(h, v).buckets = B
  BY <1>4
<1>6. /\ Add(h, v) \in Hists /\ Add(h, v).count = h.count + 1
      /\ Add(h, v).min <= v /\ Add(h, v).min <= h.min
      /\ v <= Add(h, v).max /\ h.max <= Add(h, v).max
  BY <1>1, <1>2, <1>3, <1>4 DEF Hists
<1>7. QED
  BY <1>3, <1>5, <1>6 DEF c

FillSteps(h, s, n) ==
  h = [k \in 0 .. n |-> IF k = 0 THEN NewHist ELSE Add(h[k - 1], s[k])]

InBucket(s, k, b) == {j \in 1 .. k : Bucket(s[j]) = b}

(* A histogram of these samples.                                           *)
Tells(h, s, k) ==
  /\ h \in Hists /\ h.count = k
  /\ \A j \in 1 .. k : h.min <= s[j] /\ s[j] <= h.max
  /\ \A b \in Buckets_ : h.buckets[b] = Cardinality(InBucket(s, k, b))

LEMMA TellsNothing ==
  ASSUME NEW s
  PROVE  Tells(NewHist, s, 0)
<1>1. \A b \in Buckets_ : InBucket(s, 0, b) = {}
  BY DEF InBucket
<1>2. Cardinality({}) = 0
  BY FS_EmptySet
<1>3. QED
  BY <1>1, <1>2, NewHistIs DEF Tells

LEMMA OneMoreInBucket ==
  ASSUME NEW s, NEW k \in Nat, k # 0, NEW b
  PROVE  /\ Cardinality(InBucket(s, k, b)) =
              Cardinality(InBucket(s, k - 1, b)) + IF b = Bucket(s[k]) THEN 1 ELSE 0
         /\ Cardinality(InBucket(s, k - 1, b)) \in Nat
<1> DEFINE Old == InBucket(s, k - 1, b)
<1>1. IsFiniteSet(Old) /\ Cardinality(Old) \in Nat
  <2>1. IsFiniteSet(1 .. k - 1)
    BY FS_Interval
  <2>2. Old \subseteq 1 .. k - 1
    BY DEF InBucket
  <2> HIDE DEF Old
  <2>3. QED
    BY <2>1, <2>2, FS_Subset, FS_CardinalityType
<1>2. k \notin Old
  BY DEF InBucket
<1>3. CASE b = Bucket(s[k])
  <2>1. InBucket(s, k, b) = Old \cup {k}
    BY <1>3 DEF InBucket
  <2> HIDE DEF Old
  <2>2. Cardinality(Old \cup {k}) = Cardinality(Old) + 1
    BY <1>1, <1>2, FS_AddElement
  <2>3. Cardinality(InBucket(s, k, b)) = Cardinality(Old) + IF b = Bucket(s[k]) THEN 1 ELSE 0
    BY <1>3, <2>1, <2>2
  <2>4. QED
    BY <1>1, <2>3 DEF Old
<1>4. CASE b # Bucket(s[k])
  <2>1. InBucket(s, k, b) = Old
    BY <1>4 DEF InBucket
  <2> HIDE DEF Old
  <2>2. Cardinality(InBucket(s, k, b)) = Cardinality(Old) + IF b = Bucket(s[k]) THEN 1 ELSE 0
    BY <1>1, <1>4, <2>1
  <2>3. QED
    BY <1>1, <2>2 DEF Old
<1>5. QED
  BY <1>3, <1>4

LEMMA TellsOneMore ==
  ASSUME NEW s, NEW k \in Nat, k # 0, NEW h, Tells(h, s, k - 1), s[k] \in 0 .. Largest,
         \A j \in 1 .. k : s[j] \in Nat
  PROVE  Tells(Add(h, s[k]), s, k)
<1> DEFINE v == s[k]
           g == Add(h, v)
<1>1. h \in Hists /\ h.count = k - 1 /\ v \in 0 .. Largest
  BY DEF Tells
<1>2. /\ g \in Hists /\ g.count = h.count + 1
      /\ g.min <= v /\ g.min <= h.min /\ v <= g.max /\ h.max <= g.max
      /\ \A b \in Buckets_ : g.buckets[b] = h.buckets[b] + IF b = Bucket(v) THEN 1 ELSE 0
  <2> HIDE DEF v
  <2>1. QED
    BY <1>1, AddIs
<1> HIDE DEF g
<1>3. g.min \in Nat /\ g.max \in Nat /\ h.min \in Nat /\ h.max \in Nat
  BY <1>1, <1>2 DEF Hists
<1>4. ASSUME NEW j \in 1 .. k
      PROVE  g.min <= s[j] /\ s[j] <= g.max
  <2>1. CASE j = k
    BY <1>2, <2>1
  <2>2. CASE j # k
    <3>1. j \in 1 .. k - 1 /\ s[j] \in Nat
      BY <2>2
    <3>2. h.min <= s[j] /\ s[j] <= h.max
      BY <3>1 DEF Tells
    <3>3. QED
      BY <1>2, <1>3, <3>1, <3>2
  <2>3. QED
    BY <2>1, <2>2
<1>5. ASSUME NEW b \in Buckets_
      PROVE  g.buckets[b] = Cardinality(InBucket(s, k, b))
  <2>1. h.buckets[b] = Cardinality(InBucket(s, k - 1, b))
    BY DEF Tells
  <2>2. g.buckets[b] = h.buckets[b] + IF b = Bucket(v) THEN 1 ELSE 0
    BY <1>2
  <2>3. Cardinality(InBucket(s, k, b)) =
          Cardinality(InBucket(s, k - 1, b)) + IF b = Bucket(v) THEN 1 ELSE 0
    BY OneMoreInBucket
  <2>4. QED
    BY <2>1, <2>2, <2>3
<1>6. g.count = k
  BY <1>1, <1>2
<1>7. Tells(g, s, k)
  BY <1>2, <1>4, <1>5, <1>6 DEF Tells
<1>8. QED
  BY <1>7 DEF g

LEMMA LenOf ==
  ASSUME NEW n \in Nat, NEW s \in [1 .. n -> Samples]
  PROVE  Len(s) = n /\ DOMAIN s = 1 .. n /\ \A j \in 1 .. n : s[j] \in Nat /\ s[j] \in 0 .. Largest
<1>1. s \in Seq(Samples)
  BY SeqDef
<1>2. Len(s) = n
  BY <1>1, LenProperties
<1>3. \A j \in 1 .. n : s[j] \in Samples
  OBVIOUS
<1>4. \A v \in Samples : v \in Nat /\ v \in 0 .. Largest
  BY HistAssumption
<1>5. \A j \in 1 .. n : s[j] \in Nat /\ s[j] \in 0 .. Largest
  BY <1>3, <1>4, Zenon
<1>6. QED
  BY <1>2, <1>5

LEMMA FilledTells ==
  ASSUME NEW n \in Nat, NEW s \in [1 .. n -> Samples]
  PROVE  Tells(Filled(s), s, n)
<1> DEFINE G == [x \in (1 .. n) \X Hists |-> Add(x[2], s[x[1]])]
<1>1. \A j \in 1 .. n : s[j] \in 0 .. Largest /\ s[j] \in Nat
  BY LenOf
<1>2. \A k \in 1 .. n, h \in Hists : G[<<k, h>>] = Add(h, s[k]) /\ Add(h, s[k]) \in Hists
  BY <1>1, AddIs
<1>3. G \in [(1 .. n) \X Hists -> Hists]
  BY <1>2
<1> HIDE DEF G
<1>4. PICK f \in [0 .. n -> Hists] : Steps(f, n, NewHist, G)
  BY <1>3, NewHistIs, StepsExist
<1>5. FillSteps(f, s, n)
  <2>1. ASSUME NEW k \in 0 .. n
        PROVE  f[k] = IF k = 0 THEN NewHist ELSE Add(f[k - 1], s[k])
    <3>1. CASE k = 0
      BY <1>4, <3>1 DEF Steps
    <3>2. CASE k # 0
      <4>1. k \in 1 .. n /\ k - 1 \in 0 .. n
        BY <3>2
      <4>2. f[k] = G[<<k, f[k - 1]>>] /\ f[k - 1] \in Hists
        BY <1>4, <4>1 DEF Steps
      <4>3. QED
        BY <1>2, <3>2, <4>1, <4>2
    <3>3. QED
      BY <3>1, <3>2
  <2>2. QED
    BY <1>4, <2>1 DEF FillSteps
<1> DEFINE F == CHOOSE h : FillSteps(h, s, n)
<1>6. FillSteps(F, s, n)
  BY <1>5
<1>7. Filled(s) = F[n]
  BY LenOf DEF Filled, FillSteps
<1> HIDE DEF F
<1>8. \A k \in 0 .. n : F[k] = IF k = 0 THEN NewHist ELSE Add(F[k - 1], s[k])
  BY <1>6 DEF FillSteps
<1> DEFINE T == {k \in 0 .. n : Tells(F[k], s, k)}
<1>9. ASSUME NEW k \in 0 .. n, \A j \in 0 .. k - 1 : j \in T
      PROVE  k \in T
  <2>1. CASE k = 0
    BY <1>8, <2>1, TellsNothing
  <2>2. CASE k # 0
    <3>1. k \in Nat /\ k - 1 \in 0 .. k - 1 /\ k \in 1 .. n /\ \A j \in 1 .. k : j \in 1 .. n
      BY <2>2
    <3>2. F[k] = Add(F[k - 1], s[k]) /\ Tells(F[k - 1], s, k - 1)
      BY <1>8, <1>9, <2>2, <3>1
    <3>3. s[k] \in 0 .. Largest /\ \A j \in 1 .. k : s[j] \in Nat
      BY <1>1, <3>1
    <3>4. Tells(F[k], s, k)
      <4> DEFINE h == F[k - 1]
      <4>1. Tells(h, s, k - 1) /\ F[k] = Add(h, s[k])
        BY <3>2
      <4> HIDE DEF h
      <4>2. QED
        BY <2>2, <3>1, <3>3, <4>1, TellsOneMore
    <3>5. QED
      BY <3>4
  <2>3. QED
    BY <2>1, <2>2
<1> HIDE DEF T
<1>10. n \in T
  <2>1. \A k \in 0 .. n : k \in T
    BY <1>9, AllUpTo, Zenon
  <2>2. QED
    BY <2>1
<1>11. QED
  BY <1>7, <1>10 DEF T
-----------------------------------------------------------------------------
(* The running sum of the buckets. *)
IsUpTo(a, h) ==
  a = [b \in Buckets_ |-> IF b = 0 THEN h.buckets[0] ELSE a[b - 1] + h.buckets[b]]

LEMMA UpToIs ==
  ASSUME NEW h \in Hists
  PROVE  \A b \in Buckets_ :
           UpTo(h)[b] = IF b = 0 THEN h.buckets[0] ELSE UpTo(h)[b - 1] + h.buckets[b]
<1> DEFINE n == kBuckets - 1
           G == [x \in (1 .. n) \X Nat |-> x[2] + h.buckets[x[1]]]
<1>1. n \in Nat /\ Buckets_ = 0 .. n /\ \A b \in 0 .. n : h.buckets[b] \in Nat
  BY HistAssumption DEF Buckets_, Hists
<1> HIDE DEF n
<1>2. \A k \in 1 .. n : k \in 0 .. n /\ k - 1 \in 0 .. n /\ h.buckets[k] \in Nat
  BY <1>1
<1>3. G \in [(1 .. n) \X Nat -> Nat]
      /\ \A k \in 1 .. n, x \in Nat : G[<<k, x>>] = x + h.buckets[k]
  BY <1>2
<1> HIDE DEF G
<1>4. h.buckets[0] \in Nat
  BY <1>1
<1>5. PICK f \in [0 .. n -> Nat] : Steps(f, n, h.buckets[0], G)
  <2> DEFINE c == h.buckets[0]
  <2> HIDE DEF c
  <2>1. c \in Nat
    BY <1>4 DEF c
  <2>2. \E f \in [0 .. n -> Nat] : Steps(f, n, c, G)
    BY <1>1, <1>3, <2>1, StepsExist
  <2>3. QED
    BY <2>2 DEF c
<1>6. ASSUME NEW b \in 0 .. n
      PROVE  f[b] = IF b = 0 THEN h.buckets[0] ELSE f[b - 1] + h.buckets[b]
  <2>1. CASE b = 0
    BY <1>5, <2>1 DEF Steps
  <2>2. CASE b # 0
    <3>1. b \in 1 .. n
      BY <1>1, <2>2
    <3>2. f[b - 1] \in Nat /\ f[b] = G[<<b, f[b - 1]>>]
      BY <1>2, <1>5, <3>1 DEF Steps
    <3>3. QED
      BY <1>3, <2>2, <3>1, <3>2
  <2>3. QED
    BY <2>1, <2>2
<1>7. IsUpTo(f, h)
  BY <1>1, <1>6 DEF IsUpTo
<1>8. UpTo(h) = CHOOSE a : IsUpTo(a, h)
  BY DEF UpTo, IsUpTo
<1>9. IsUpTo(UpTo(h), h)
  BY <1>7, <1>8
<1>10. QED
  BY <1>9 DEF IsUpTo

UpToBucket(s, n, b) == {j \in 1 .. n : Bucket(s[j]) <= b}

LEMMA Indices ==
  ASSUME NEW n \in Nat, NEW T, T \subseteq 1 .. n
  PROVE  IsFiniteSet(T) /\ Cardinality(T) \in Nat
<1>1. IsFiniteSet(1 .. n)
  BY FS_Interval
<1>2. IsFiniteSet(T)
  BY <1>1, FS_Subset
<1>3. QED
  BY <1>2, FS_CardinalityType

LEMMA FewerIndices ==
  ASSUME NEW n \in Nat, NEW T, T \subseteq 1 .. n, NEW S, S \subseteq T
  PROVE  Cardinality(S) <= Cardinality(T)
BY Indices, FS_Subset

LEMMA UpToCounts ==
  ASSUME NEW n \in Nat, NEW s, NEW h, Tells(h, s, n), \A j \in 1 .. n : s[j] \in 0 .. Largest
  PROVE  \A b \in Buckets_ : UpTo(h)[b] = Cardinality(UpToBucket(s, n, b))
<1> DEFINE m == kBuckets - 1
           T == {b \in 0 .. m : UpTo(h)[b] = Cardinality(UpToBucket(s, n, b))}
<1>1. m \in Nat /\ Buckets_ = 0 .. m
  BY HistAssumption DEF Buckets_
<1> HIDE DEF m
<1>2. \A j \in 1 .. n : Bucket(s[j]) \in 0 .. m
  <2>1. TAKE j \in 1 .. n
  <2>2. s[j] \in 0 .. Largest /\ s[j] <= s[j]
    BY HistAssumption
  <2>3. QED
    BY <1>1, <2>2, BucketGrows
<1>3. /\ \A b \in 0 .. m : UpTo(h)[b] = IF b = 0 THEN h.buckets[0] ELSE UpTo(h)[b - 1] + h.buckets[b]
      /\ \A b \in 0 .. m : h.buckets[b] = Cardinality(InBucket(s, n, b))
  BY <1>1, UpToIs DEF Tells
<1>4. ASSUME NEW b \in 0 .. m, \A j \in 0 .. b - 1 : j \in T
      PROVE  b \in T
  <2>1. CASE b = 0
    <3>1. UpToBucket(s, n, 0) = InBucket(s, n, 0)
      BY <1>2 DEF UpToBucket, InBucket
    <3>2. QED
      BY <1>3, <2>1, <3>1
  <2>2. CASE b # 0
    <3> DEFINE A == UpToBucket(s, n, b - 1)
               B == InBucket(s, n, b)
    <3>1. b - 1 \in 0 .. b - 1
      BY <2>2
    <3>2. UpTo(h)[b] = Cardinality(A) + Cardinality(B)
      BY <1>3, <1>4, <2>2, <3>1
    <3>3. A \subseteq 1 .. n /\ B \subseteq 1 .. n
      BY DEF UpToBucket, InBucket
    <3>4. A \cap B = {} /\ UpToBucket(s, n, b) = A \cup B
      BY <1>2 DEF UpToBucket, InBucket
    <3> HIDE DEF A, B
    <3>5. /\ IsFiniteSet(A) /\ IsFiniteSet(B) /\ Cardinality(A) \in Nat /\ Cardinality(B) \in Nat
      BY <3>3, Indices
    <3>6. Cardinality(A \cup B) = Cardinality(A) + Cardinality(B) - Cardinality(A \cap B)
      BY <3>5, FS_Union
    <3>7. Cardinality(UpToBucket(s, n, b)) = Cardinality(A) + Cardinality(B)
      BY <3>4, <3>5, <3>6, FS_EmptySet
    <3>8. QED
      BY <3>2, <3>7
  <2>3. QED
    BY <2>1, <2>2
<1> HIDE DEF T
<1>5. \A b \in 0 .. m : b \in T
  BY <1>1, <1>4, AllUpTo, Zenon
<1>6. QED
  BY <1>1, <1>5 DEF T
-----------------------------------------------------------------------------
(* The sample of a rank. *)
AtMost(s, n, v) == {j \in 1 .. n : s[j] <= v}
Under(s, n, v) == {j \in 1 .. n : s[j] < v}

IsRanked(s, n, k, v) ==
  /\ \E j \in 1 .. n : s[j] = v
  /\ Cardinality(Under(s, n, v)) <= k /\ Cardinality(AtMost(s, n, v)) > k

LEMMA RankedIs ==
  ASSUME NEW n \in Nat, NEW s \in [1 .. n -> Samples], NEW k \in 0 .. n - 1
  PROVE  IsRanked(s, n, k, Ranked(s, k))
<1> DEFINE T == {v \in Nat : Cardinality(AtMost(s, n, v)) > k}
<1>1. DOMAIN s = 1 .. n /\ \A j \in 1 .. n : s[j] \in Nat /\ s[j] \in 0 .. Largest
  BY LenOf
<1>2. \A v : AtMost(s, n, v) \subseteq 1 .. n /\ Under(s, n, v) \subseteq 1 .. n
  BY DEF AtMost, Under
<1>3. Largest \in T
  <2>1. AtMost(s, n, Largest) = 1 .. n
    BY <1>1, HistAssumption DEF AtMost
  <2>2. Cardinality(1 .. n) = n
    BY FS_Interval
  <2>3. QED
    BY <2>1, <2>2, HistAssumption
<1>4. T # {} /\ T \subseteq Nat
  BY <1>3
<1>5. \A v \in Nat : v \in T <=> Cardinality(AtMost(s, n, v)) > k
  OBVIOUS
<1> HIDE DEF T
<1>6. PICK x \in T : \A y \in T : x <= y
  BY <1>4, Least
<1>7. x \in Nat /\ Cardinality(AtMost(s, n, x)) > k
  BY <1>4, <1>5, <1>6
<1>8. Cardinality(Under(s, n, x)) <= k
  <2>1. CASE x = 0
    <3>1. Under(s, n, x) = {}
      BY <1>1, <2>1 DEF Under
    <3>2. QED
      BY <3>1, FS_EmptySet
  <2>2. CASE x # 0
    <3>1. Under(s, n, x) = AtMost(s, n, x - 1)
      BY <1>1, <1>7, <2>2 DEF Under, AtMost
    <3>2. x - 1 \in Nat /\ x - 1 \notin T
      BY <1>6, <1>7, <2>2
    <3>3. Cardinality(AtMost(s, n, x - 1)) \in Nat
      BY <1>2, Indices
    <3>4. QED
      BY <1>5, <3>1, <3>2, <3>3
  <2>3. QED
    BY <2>1, <2>2
<1>9. \E j \in 1 .. n : s[j] = x
  <2>1. SUFFICES ASSUME \A j \in 1 .. n : s[j] # x
        PROVE  FALSE
    OBVIOUS
  <2>2. AtMost(s, n, x) = Under(s, n, x)
    BY <1>1, <1>7, <2>1 DEF AtMost, Under
  <2>3. Cardinality(AtMost(s, n, x)) \in Nat
    BY <1>2, Indices
  <2>4. QED
    BY <1>7, <1>8, <2>2, <2>3
<1>10. IsRanked(s, n, k, x)
  BY <1>7, <1>8, <1>9 DEF IsRanked
<1>11. \A v : v \in Range(s) <=> \E j \in 1 .. n : s[j] = v
  BY <1>1 DEF Range
<1>12. Ranked(s, k) = CHOOSE v \in Range(s) :
                        /\ Cardinality(Under(s, n, v)) <= k
                        /\ Cardinality(AtMost(s, n, v)) > k
  BY <1>1 DEF Ranked, Under, AtMost
<1>13. \E v \in Range(s) : /\ Cardinality(Under(s, n, v)) <= k
                           /\ Cardinality(AtMost(s, n, v)) > k
  BY <1>10, <1>11 DEF IsRanked
<1>14. /\ Ranked(s, k) \in Range(s)
       /\ Cardinality(Under(s, n, Ranked(s, k))) <= k
       /\ Cardinality(AtMost(s, n, Ranked(s, k))) > k
  BY <1>12, <1>13
<1>15. QED
  BY <1>11, <1>14 DEF IsRanked

(* A higher rank is no smaller sample.                                     *)
LEMMA RanksGrow ==
  ASSUME NEW n \in Nat, NEW s, \A j \in 1 .. n : s[j] \in Nat,
         NEW k \in Nat, NEW l \in Nat, k <= l,
         NEW v \in Nat, NEW w \in Nat, IsRanked(s, n, k, v), IsRanked(s, n, l, w)
  PROVE  v <= w
<1>1. SUFFICES ASSUME w < v
      PROVE  FALSE
  OBVIOUS
<1>2. AtMost(s, n, w) \subseteq Under(s, n, v) /\ Under(s, n, v) \subseteq 1 .. n
  BY <1>1 DEF AtMost, Under
<1>3. Cardinality(AtMost(s, n, w)) <= Cardinality(Under(s, n, v))
  BY <1>2, FewerIndices
<1>4. Cardinality(AtMost(s, n, w)) \in Nat /\ Cardinality(Under(s, n, v)) \in Nat
  BY <1>2, Indices
<1>5. QED
  BY <1>3, <1>4 DEF IsRanked
-----------------------------------------------------------------------------
(* The index that a percentile asks for. *)
LEMMA TargetOf ==
  ASSUME NEW m \in Nat, NEW p \in Percents
  PROVE  (m * p) \div 1000 \in 0 .. m
<1>1. CASE p = 500
  BY <1>1
<1>2. CASE p = 990
  BY <1>2
<1>3. CASE p = 999
  BY <1>3
<1>4. QED
  BY <1>1, <1>2, <1>3 DEF Percents

LEMMA TargetsGrow ==
  ASSUME NEW m \in Nat, NEW p \in Percents, NEW q \in Percents, p <= q
  PROVE  (m * p) \div 1000 <= (m * q) \div 1000
<1>1. (m * 500) \div 1000 <= (m * 990) \div 1000 /\ (m * 990) \div 1000 <= (m * 999) \div 1000
  OBVIOUS
<1>2. (m * 500) \div 1000 \in Int /\ (m * 990) \div 1000 \in Int /\ (m * 999) \div 1000 \in Int
  OBVIOUS
<1>3. p \in {500, 990, 999} /\ q \in {500, 990, 999}
  BY DEF Percents
<1>4. QED
  BY <1>1, <1>2, <1>3

(* What the program prints for a percentile is the value of the bucket of  *)
(* the sample of that rank.                                                *)
LEMMA PercentileIs ==
  ASSUME NEW n \in Nat, n # 0, NEW s \in [1 .. n -> Samples], NEW p \in Percents,
         NEW v \in 0 .. Largest, IsRanked(s, n, ((n - 1) * p) \div 1000, v)
  PROVE  Percentile(Filled(s), p) = BucketValue(Bucket(v))
<1> DEFINE h == Filled(s)
           t == ((n - 1) * p) \div 1000
           c == Bucket(v)
           acc == UpTo(h)
           D == {b \in Buckets_ : acc[b] > t} \cup {kBuckets - 1}
<1>1. Tells(h, s, n)
  BY FilledTells
<1>2. \A j \in 1 .. n : s[j] \in 0 .. Largest /\ s[j] \in Nat
  BY LenOf
<1>3. t \in Nat
  BY TargetOf
<1>4. IsRanked(s, n, t, v)
  OBVIOUS
<1>5. h.count = n
  BY <1>1 DEF Tells
<1>6. Percentile(h, p) = BucketValue(Min(D))
  BY <1>5 DEF Percentile
<1> HIDE DEF h, t
<1>7. \A b \in Buckets_ : acc[b] = Cardinality(UpToBucket(s, n, b))
  BY <1>1, <1>2, UpToCounts
<1> HIDE DEF acc
<1>8. v \in Nat /\ c \in Buckets_
  BY BucketGrows, HistAssumption
<1>9. acc[c] > t
  <2>1. AtMost(s, n, v) \subseteq UpToBucket(s, n, c)
    <3>1. ASSUME NEW j \in 1 .. n, s[j] <= v
          PROVE  Bucket(s[j]) <= c
      BY <1>2, <3>1, BucketGrows
    <3>2. QED
      BY <3>1 DEF AtMost, UpToBucket
  <2>2. AtMost(s, n, v) \subseteq 1 .. n /\ UpToBucket(s, n, c) \subseteq 1 .. n
    BY DEF AtMost, UpToBucket
  <2>3. Cardinality(AtMost(s, n, v)) <= Cardinality(UpToBucket(s, n, c))
    BY <2>1, <2>2, FewerIndices
  <2>4. Cardinality(AtMost(s, n, v)) \in Nat /\ Cardinality(UpToBucket(s, n, c)) \in Nat
    BY <2>2, Indices
  <2>5. Cardinality(AtMost(s, n, v)) > t
    BY <1>4 DEF IsRanked
  <2>6. acc[c] = Cardinality(UpToBucket(s, n, c))
    BY <1>7, <1>8
  <2>7. QED
    BY <1>3, <2>3, <2>4, <2>5, <2>6
<1>10. ASSUME NEW b \in Buckets_, b < c
       PROVE  ~ (acc[b] > t)
  <2>1. UpToBucket(s, n, b) \subseteq Under(s, n, v)
    <3>1. ASSUME NEW j \in 1 .. n, ~ (s[j] < v)
          PROVE  ~ (Bucket(s[j]) <= b)
      <4>1. v <= s[j] /\ s[j] \in 0 .. Largest
        BY <1>2, <1>8, <3>1
      <4>2. Bucket(s[j]) \in Buckets_ /\ c <= Bucket(s[j])
        BY <4>1, BucketGrows
      <4> HIDE DEF c
      <4>3. QED
        BY <1>8, <1>10, <4>2 DEF Buckets_
    <3>2. QED
      BY <3>1 DEF Under, UpToBucket
  <2>2. Under(s, n, v) \subseteq 1 .. n /\ UpToBucket(s, n, b) \subseteq 1 .. n
    BY DEF Under, UpToBucket
  <2>3. Cardinality(UpToBucket(s, n, b)) <= Cardinality(Under(s, n, v))
    BY <2>1, <2>2, FewerIndices
  <2>4. Cardinality(Under(s, n, v)) \in Nat /\ Cardinality(UpToBucket(s, n, b)) \in Nat
    BY <2>2, Indices
  <2>5. Cardinality(Under(s, n, v)) <= t
    BY <1>4 DEF IsRanked
  <2>6. acc[b] = Cardinality(UpToBucket(s, n, b))
    BY <1>7
  <2>7. QED
    BY <1>3, <2>3, <2>4, <2>5, <2>6
<1> HIDE DEF c
<1>11. c \in D /\ \A b \in D : c <= b /\ b \in Nat
  <2>1. c \in Nat /\ kBuckets - 1 \in Nat /\ c <= kBuckets - 1 /\ Buckets_ \subseteq Nat
    BY <1>8, HistAssumption DEF Buckets_
  <2>2. \A b \in Buckets_ : acc[b] > t => c <= b
    BY <1>10, <2>1
  <2>3. QED
    BY <1>8, <1>9, <2>1, <2>2
<1> HIDE DEF D
<1>12. Min(D) = c
  <2>1. \A x \in D : (\A y \in D : x <= y) => x = c
    BY <1>11
  <2>2. QED
    BY <1>11, <2>1 DEF Min
<1>13. QED
  BY <1>6, <1>12 DEF c, h

(* Every histogram brackets its samples.                                   *)
LEMMA FilledBrackets ==
  ASSUME NEW n \in Nat, NEW s \in [1 .. n -> Samples]
  PROVE  Brackets(s)
<1> DEFINE h == Filled(s)
           t(p) == ((n - 1) * p) \div 1000
           v(p) == Ranked(s, t(p))
<1>1. /\ Len(s) = n /\ DOMAIN s = 1 .. n
      /\ \A j \in 1 .. n : s[j] \in Nat /\ s[j] \in 0 .. Largest
  BY LenOf
<1>2. Tells(h, s, n)
  BY FilledTells
<1>3. CASE n = 0
  <2>1. s = << >>
    <3>1. s \in Seq(Samples) /\ Len(s) = 0
      BY <1>1, <1>3, SeqDef
    <3>2. QED
      BY <3>1, EmptySeq
  <2>2. \A p \in Percents : Percentile(h, p) = 0
    BY <1>2, <1>3 DEF Percentile, Tells
  <2>3. QED
    BY <2>1, <2>2 DEF Brackets
<1>4. CASE n # 0
  <2>1. n - 1 \in Nat /\ s # << >>
    <3>1. Len(<< >>) = 0
      BY EmptySeq
    <3>2. QED
      BY <1>1, <1>4, <3>1
  <2>2. ASSUME NEW p \in Percents
        PROVE  /\ t(p) \in Nat /\ v(p) \in 0 .. Largest
               /\ IsRanked(s, n, t(p), v(p))
               /\ Percentile(h, p) = BucketValue(Bucket(v(p)))
               /\ Bracketed(v(p), Percentile(h, p))
               /\ h.min <= v(p) /\ v(p) <= h.max
    <3>1. t(p) \in 0 .. n - 1
      BY <2>1, TargetOf
    <3>2. IsRanked(s, n, t(p), v(p))
      <4> DEFINE k == t(p)
      <4>1. k \in 0 .. n - 1
        BY <3>1
      <4> HIDE DEF k
      <4>2. IsRanked(s, n, k, Ranked(s, k))
        BY <4>1, RankedIs
      <4>3. QED
        BY <4>2 DEF k
    <3> DEFINE w == v(p)
    <3>3. IsRanked(s, n, t(p), w)
      BY <3>2
    <3> HIDE DEF w
    <3>4. PICK j \in 1 .. n : s[j] = w
      BY <3>3 DEF IsRanked
    <3>5. w \in 0 .. Largest /\ h.min <= w /\ w <= h.max
      BY <1>1, <1>2, <3>4 DEF Tells
    <3>6. Percentile(h, p) = BucketValue(Bucket(w))
      BY <1>4, <3>3, <3>5, PercentileIs
    <3>7. Bracketed(w, Percentile(h, p))
      BY <3>5, <3>6, BucketHolds
    <3>8. QED
      BY <3>1, <3>2, <3>5, <3>6, <3>7 DEF w
  <2>3. ASSUME NEW p \in Percents, NEW q \in Percents, p <= q
        PROVE  Percentile(h, p) <= Percentile(h, q)
    <3> DEFINE tp == t(p)
               tq == t(q)
               vp == v(p)
               vq == v(q)
               pp == Percentile(h, p)
               pq == Percentile(h, q)
    <3>1. tp <= tq
      BY <2>1, <2>3, TargetsGrow
    <3>2. /\ tp \in Nat /\ vp \in 0 .. Largest /\ IsRanked(s, n, tp, vp)
          /\ pp = BucketValue(Bucket(vp))
      BY <2>2
    <3>3. /\ tq \in Nat /\ vq \in 0 .. Largest /\ IsRanked(s, n, tq, vq)
          /\ pq = BucketValue(Bucket(vq))
      BY <2>2
    <3> HIDE DEF tp, tq, vp, vq, pp, pq
    <3>4. vp \in Nat /\ vq \in Nat
      BY <3>2, <3>3, HistAssumption
    <3>5. vp <= vq
      BY <1>1, <3>1, <3>2, <3>3, <3>4, RanksGrow
    <3>6. Bucket(vp) \in Buckets_ /\ Bucket(vq) \in Buckets_ /\ Bucket(vp) <= Bucket(vq)
      BY <3>2, <3>3, <3>5, BucketGrows
    <3>7. BucketValue(Bucket(vp)) <= BucketValue(Bucket(vq))
      BY <3>6, ValueGrows
    <3>8. pp <= pq
      BY <3>2, <3>3, <3>7
    <3>9. QED
      BY <3>8 DEF pp, pq
  <2>4. ASSUME NEW p \in Percents
        PROVE  LET w == Ranked(s, ((Len(s) - 1) * p) \div 1000)
                   printed == Percentile(h, p)
               IN /\ printed <= w /\ h.min <= w /\ w <= h.max
                  /\ IF w < 2 THEN printed = 0
                     ELSE w < 2 * printed \/ printed = BucketValue(kBuckets - 1)
    <3> DEFINE w == v(p)
               printed == Percentile(h, p)
    <3>1. Bracketed(w, printed) /\ h.min <= w /\ w <= h.max
      BY <2>2
    <3>2. Ranked(s, ((Len(s) - 1) * p) \div 1000) = w
      BY <1>1
    <3> HIDE DEF w, printed, h
    <3>3. /\ printed <= w /\ h.min <= w /\ w <= h.max
          /\ IF w < 2 THEN printed = 0
             ELSE w < 2 * printed \/ printed = BucketValue(kBuckets - 1)
      BY <3>1, Zenon DEF Bracketed
    <3>4. QED
      BY <3>2, <3>3 DEF printed
  <2>5. QED
    <3> HIDE DEF h
    <3>1. s # << >>
      BY <2>1
    <3>2. QED
      BY <2>3, <2>4, <3>1, Zenon DEF Brackets, h
<1>5. QED
  BY <1>3, <1>4

LEMMA AllBracket == \A n \in 0 .. MaxCount : BracketsAll[n]
<1>1. TAKE n \in 0 .. MaxCount
<1>2. n \in Nat
  BY HistAssumption
<1>3. \A s \in [1 .. n -> Samples] : Brackets(s)
  BY <1>2, FilledBrackets
<1>4. QED
  BY <1>3 DEF BracketsAll

(* main reads a datagram at most once, so a histogram holds what it reads. *)
LEMMA ReadsAreFew ==
  ASSUME Journey
  PROVE  Len(got) \in 0 .. MaxCount
<1> DEFINE L == Len(got)
           rest == events \o chan \o batch \o sock
<1>1. StreamTypeOK /\ Transit
  BY DEF Journey
<1>2. got \in Seq(Datagrams) /\ Datagrams \subseteq Int /\ rest \in Seq(Datagrams)
  BY <1>1, StreamParts, RestOfStream
<1>3. InOrder(got, sent, Missed)
  <2>1. InOrder(got \o rest, sent, Missed)
    BY <1>1, RestOfStream DEF Transit
  <2> HIDE DEF rest
  <2>2. QED
    BY <1>2, <2>1, ConcatInOrder
<1>4. L \in Nat /\ \A k \in 1 .. L : got[k] \in Datagrams
  BY <1>2, LenProperties, ElementOfSeq
<1>5. \A k \in 1 .. L : got[k] \in Nat /\ got[k] < Senders * Count
  BY <1>4, Numbers DEF Datagrams
<1> DEFINE T == {k \in 0 .. L : k # 0 => k - 1 <= got[k]}
<1>6. ASSUME NEW k \in 0 .. L, \A j \in 0 .. k - 1 : j \in T
      PROVE  k \in T
  <2>1. CASE k <= 1
    BY <1>4, <1>5, <2>1
  <2>2. CASE k > 1
    <3>1. k \in 1 .. L /\ k - 1 \in 1 .. L /\ k - 1 \in 0 .. k - 1 /\ k - 1 \in 1 .. k - 1
      BY <1>4, <2>2
    <3>2. (k - 1) - 1 <= got[k - 1]
      BY <1>6, <2>2, <3>1
    <3>3. got[k - 1] < got[k]
      BY <1>3, <3>1 DEF InOrder
    <3>4. got[k - 1] \in Nat /\ got[k] \in Nat
      BY <1>5, <3>1
    <3>5. QED
      BY <3>1, <3>2, <3>3, <3>4
  <2>3. QED
    BY <1>4, <2>1, <2>2
<1> HIDE DEF T
<1>7. L \in T
  <2>1. \A k \in 0 .. L : k \in T
    BY <1>4, <1>6, AllUpTo, Zenon
  <2>2. QED
    BY <1>4, <2>1
<1>8. L <= Senders * Count
  <2>1. CASE L = 0
    BY <2>1, Numbers
  <2>2. CASE L # 0
    <3>1. L \in 1 .. L
      BY <1>4, <2>2
    <3>2. L - 1 <= got[L]
      BY <1>7, <2>2 DEF T
    <3>3. got[L] \in Nat /\ got[L] < Senders * Count
      BY <1>5, <3>1
    <3>4. QED
      BY <1>4, <3>2, <3>3, Numbers
  <2>3. QED
    BY <2>1, <2>2
<1>9. QED
  BY <1>4, <1>8, SamplesAssumption, HistAssumption, Numbers

(* The percentiles of the latency that either program prints are the true  *)
(* ones to within a factor of two and come in order: whatever the          *)
(* latencies of the datagrams that it read, and however many of them had a *)
(* usable timestamp.                                                       *)
THEOREM PercentilesHold == AnySpec => []PercentilesBracket
<1>1. AnyInv => Journey
  BY DEF AnyInv, IInv, TypeOK, BaselineTypeOK, Journey
<1>2. ASSUME Journey
      PROVE  PercentilesBracket
  <2> DEFINE L == Len(got)
  <2>1. L \in 0 .. MaxCount
    BY <1>2, ReadsAreFew
  <2> HIDE DEF L
  <2>2. \A n \in 0 .. L : n \in 0 .. MaxCount
    BY <2>1, HistAssumption
  <2>3. \A n \in 0 .. L : BracketsAll[n]
    BY <2>2, AllBracket, Zenon
  <2>4. QED
    BY <2>3, Zenon DEF PercentilesBracket, L
<1>3. QED
  BY <1>1, <1>2, EitherInvariant, PTL
=============================================================================
