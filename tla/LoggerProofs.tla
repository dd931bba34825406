---------------------------- MODULE LoggerProofs ----------------------------
(***************************************************************************)
(* What the logger writes: on a pipe whole lines, and the lines that had   *)
(* to wait in their order, for every length of a line and of the buffer.   *)
(***************************************************************************)
EXTENDS Logger, TLAPS, SequenceTheorems

\* What the destination is given
LogByte == [line : Nat, at : 1 .. LineLength]

\* The lines of W are in s, each once and in their order
InOrder(s, W) ==
  LET places == {i \in 1 .. Len(s) : s[i].line \in W}
  IN /\ \A n \in W, at \in 1 .. LineLength : \E i \in places : s[i] = [line |-> n, at |-> at]
     /\ \A i, j \in places :
          i < j => \/ s[i].line < s[j].line
                   \/ s[i].line = s[j].line /\ s[i].at < s[j].at

\* s is m lines, none of them cut
IsLines(s, m) ==
  /\ Len(s) = m * LineLength
  /\ \A k \in Nat : k < m =>
       \E n \in Nat : \A a \in 1 .. LineLength : s[k * LineLength + a] = [line |-> n, at |-> a]

WholeLines(s) == \E m \in Nat : IsLines(s, m)

TypeOK ==
  /\ stream \in Streams
  /\ dest \in Destinations
  /\ buff \in QueueOf(LogByte)
  /\ watched \in BOOLEAN
  /\ ready \in BOOLEAN
  /\ room \in Nat
  /\ out \in Seq(LogByte)
  /\ logged \in Nat
  /\ waited \in SUBSET (1 .. logged)

\* No byte of a line that is still to be logged
Numbered ==
  /\ \A i \in 1 .. Len(out) : out[i].line <= logged
  /\ \A i \in 1 .. Len(buff.bytes) : buff.bytes[i].line <= logged

OnlyWholeLines == dest = "pipe" => WholeLines(out) /\ WholeLines(buff.bytes)

Inv == TypeOK /\ Numbered /\ WaitedInOrder /\ OnlyWholeLines

-----------------------------------------------------------------------------
(* Lemmas about sequences of lines *)

\* The elements of a concatenation
LEMMA ConcatAt ==
  ASSUME NEW s \in Seq(LogByte), NEW t \in Seq(LogByte)
  PROVE  /\ s \o t \in Seq(LogByte)
         /\ Len(s \o t) = Len(s) + Len(t)
         /\ \A i \in 1 .. Len(s) : (s \o t)[i] = s[i]
         /\ \A i \in 1 .. Len(t) : (s \o t)[Len(s) + i] = t[i]
         /\ \A i \in 1 .. Len(s \o t) : i <= Len(s) \/ (i - Len(s) \in 1 .. Len(t) /\ i = Len(s) + (i - Len(s)))
BY ConcatProperties

\* A line is one
LEMMA LineSeq ==
  ASSUME NEW n \in Nat
  PROVE  /\ Line(n) \in Seq(LogByte)
         /\ Len(Line(n)) = LineLength
         /\ \A i \in 1 .. LineLength : Line(n)[i] = [line |-> n, at |-> i]
<1>1. LineLength \in Nat
  BY LoggerAssumption, CapacityAssumption
<1>2. Line(n) \in [1 .. LineLength -> LogByte]
  BY DEF Line, LogByte
<1>. QED BY <1>1, <1>2 DEF Line

\* The lines of W stay in order when something else comes between them
LEMMA InsertOthers ==
  ASSUME NEW s \in Seq(LogByte), NEW t \in Seq(LogByte), NEW p \in Seq(LogByte), NEW W,
         InOrder(s \o t, W), \A i \in 1 .. Len(p) : p[i].line \notin W
  PROVE  InOrder((s \o p) \o t, W)
<1> DEFINE u == s \o t
           v == (s \o p) \o t
           at(i) == IF i <= Len(s) THEN i ELSE i + Len(p)
           pu == {i \in 1 .. Len(u) : u[i].line \in W}
           pv == {i \in 1 .. Len(v) : v[i].line \in W}
<1>1. s \o p \in Seq(LogByte) /\ Len(s) \in Nat /\ Len(t) \in Nat /\ Len(p) \in Nat
  BY ConcatProperties
<1>2. Len(u) = Len(s) + Len(t) /\ Len(v) = Len(s) + Len(p) + Len(t)
  BY <1>1, ConcatAt
<1>3. \A i \in 1 .. Len(u) : at(i) \in 1 .. Len(v) /\ v[at(i)] = u[i]
  <2>1. \A i \in 1 .. Len(s) : v[i] = s[i] /\ u[i] = s[i]
    BY <1>1, ConcatAt
  <2>2. \A i \in 1 .. Len(t) : v[(Len(s) + Len(p)) + i] = t[i] /\ u[Len(s) + i] = t[i]
    BY <1>1, ConcatAt
  <2> HIDE DEF u, v
  <2> SUFFICES ASSUME NEW i \in 1 .. Len(u)
               PROVE  at(i) \in 1 .. Len(v) /\ v[at(i)] = u[i]
    OBVIOUS
  <2>3. CASE i <= Len(s)
    BY <1>1, <1>2, <2>1, <2>3
  <2>4. CASE ~(i <= Len(s))
    <3>1. /\ i - Len(s) \in 1 .. Len(t) /\ i = Len(s) + (i - Len(s))
          /\ at(i) = (Len(s) + Len(p)) + (i - Len(s)) /\ at(i) \in 1 .. Len(v)
      BY <1>1, <1>2, <2>4
    <3>. QED BY <2>2, <3>1
  <2>. QED BY <2>3, <2>4
<1>4. \A j \in 1 .. Len(v) : \/ \E i \in 1 .. Len(u) : j = at(i)
                            \/ v[j].line \notin W
  <2>1. \A i \in 1 .. Len(p) : v[Len(s) + i] = p[i]
    BY <1>1, ConcatAt
  <2>2. SUFFICES ASSUME NEW j \in 1 .. Len(v) 
                 PROVE  \/ \E i \in 1 .. Len(u) : j = at(i)
                        \/ v[j].line \notin W
    OBVIOUS
  <2> HIDE DEF u, v
  <2>3. CASE j <= Len(s)
    BY <1>1, <1>2, <2>3
  <2>4. CASE j > Len(s) /\ j <= Len(s) + Len(p)
    <3>1. j - Len(s) \in 1 .. Len(p) /\ j = Len(s) + (j - Len(s))
      BY <1>1, <1>2, <2>4
    <3>. QED BY <2>1, <3>1
  <2>5. CASE j > Len(s) + Len(p)
    <3>1. j - Len(p) \in 1 .. Len(u) /\ j = at(j - Len(p))
      BY <1>1, <1>2, <2>5
    <3>. QED BY <3>1
  <2>. QED BY <1>1, <1>2, <2>3, <2>4, <2>5
<1> HIDE DEF u, v
<1>5. \A i \in pu : at(i) \in pv /\ v[at(i)] = u[i]
  BY <1>3
<1>6. \A j \in pv : \E i \in pu : j = at(i)
  BY <1>3, <1>4
<1>7. \A i, k \in pu : at(i) < at(k) => i < k
  BY <1>1, <1>2
<1>8. /\ \A n \in W, a \in 1 .. LineLength : \E i \in pu : u[i] = [line |-> n, at |-> a]
      /\ \A i, j \in pu :
           i < j => \/ u[i].line < u[j].line
                    \/ u[i].line = u[j].line /\ u[i].at < u[j].at
  BY DEF InOrder, u
<1> HIDE DEF at, pu, pv
<1>9. \A n \in W, a \in 1 .. LineLength : \E i \in pv : v[i] = [line |-> n, at |-> a]
  BY <1>5, <1>8
<1>10. ASSUME NEW i \in pv, NEW j \in pv, i < j
       PROVE  \/ v[i].line < v[j].line
              \/ v[i].line = v[j].line /\ v[i].at < v[j].at
  <2>1. PICK k \in pu : i = at(k)
    BY <1>6
  <2>2. PICK l \in pu : j = at(l)
    BY <1>6
  <2>. QED BY <1>5, <1>7, <1>8, <1>10, <2>1, <2>2
<1>. QED BY <1>9, <1>10 DEF InOrder, pv, v

\* The lines of W and a later one behind them are in order
LEMMA AppendLine ==
  ASSUME NEW s \in Seq(LogByte), NEW l \in Nat, NEW W \in SUBSET (1 .. l),
         InOrder(s, W), \A i \in 1 .. Len(s) : s[i].line <= l
  PROVE  InOrder(s \o Line(l + 1), W \union {l + 1})
<1> DEFINE t == Line(l + 1)
           v == s \o t
           V == W \union {l + 1}
           pu == {i \in 1 .. Len(s) : s[i].line \in W}
           pv == {i \in 1 .. Len(v) : v[i].line \in V}
<1>1. /\ t \in Seq(LogByte) /\ Len(t) = LineLength
      /\ \A i \in 1 .. LineLength : t[i] = [line |-> l + 1, at |-> i]
  <2>1. l + 1 \in Nat
    OBVIOUS
  <2>. QED BY <2>1, LineSeq
<1> HIDE DEF t
<1>2. /\ Len(v) = Len(s) + LineLength /\ Len(s) \in Nat /\ LineLength \in Nat
      /\ \A i \in 1 .. Len(s) : v[i] = s[i] /\ s[i] \in LogByte
      /\ \A i \in 1 .. LineLength : v[Len(s) + i] = [line |-> l + 1, at |-> i]
  <2>1. Len(v) = Len(s) + LineLength /\ Len(s) \in Nat /\ LineLength \in Nat
    <3>1. Len(s) \in Nat /\ LineLength \in Nat
      BY LoggerAssumption, CapacityAssumption
    <3>. QED BY <1>1, <3>1, ConcatAt
  <2>2. \A i \in 1 .. Len(s) : v[i] = s[i] /\ s[i] \in LogByte
    BY <1>1, ConcatAt
  <2>3. \A i \in 1 .. LineLength : v[Len(s) + i] = t[i]
    BY <1>1, ConcatAt
  <2>. QED BY <1>1, <2>1, <2>2, <2>3
<1> HIDE DEF v
<1>3. \A i \in pu : i \in pv /\ v[i] = s[i]
  BY <1>2
<1>4. \A i \in 1 .. LineLength : /\ Len(s) + i \in pv
                                 /\ v[Len(s) + i] = [line |-> l + 1, at |-> i]
  BY <1>2
<1>5. \A j \in pv : \/ j \in pu /\ v[j] = s[j] /\ v[j].line \in Nat /\ v[j].line <= l /\ j <= Len(s)
                    \/ /\ j - Len(s) \in 1 .. LineLength
                       /\ v[j] = [line |-> l + 1, at |-> j - Len(s)]
  <2> SUFFICES ASSUME NEW j \in pv
               PROVE  \/ j \in pu /\ v[j] = s[j] /\ v[j].line \in Nat /\ v[j].line <= l /\ j <= Len(s)
                      \/ /\ j - Len(s) \in 1 .. LineLength
                         /\ v[j] = [line |-> l + 1, at |-> j - Len(s)]
    OBVIOUS
  <2>1. CASE j <= Len(s)
    <3>1. j \in 1 .. Len(s) /\ v[j] = s[j] /\ s[j].line \in Nat /\ s[j].line <= l /\ v[j].line \in V
      BY <1>2, <2>1 DEF LogByte
    <3>. QED BY <2>1, <3>1
  <2>2. CASE j > Len(s)
    <3>1. j - Len(s) \in 1 .. LineLength /\ j = Len(s) + (j - Len(s))
      BY <1>2, <2>2
    <3>. QED BY <1>2, <3>1
  <2>. QED BY <1>2, <2>1, <2>2
<1>6. /\ \A n \in W, a \in 1 .. LineLength : \E i \in pu : s[i] = [line |-> n, at |-> a]
      /\ \A i, j \in pu :
           i < j => \/ s[i].line < s[j].line
                    \/ s[i].line = s[j].line /\ s[i].at < s[j].at
  BY DEF InOrder
<1>7. \A i \in pv : i \in Nat
  BY <1>2
<1> HIDE DEF pu, pv
<1>8. \A n \in V, a \in 1 .. LineLength : \E i \in pv : v[i] = [line |-> n, at |-> a]
  <2>1. ASSUME NEW n \in W, NEW a \in 1 .. LineLength
        PROVE  \E i \in pv : v[i] = [line |-> n, at |-> a]
    <3>1. PICK i \in pu : s[i] = [line |-> n, at |-> a]
      BY <1>6
    <3>. QED BY <1>3, <3>1
  <2>2. ASSUME NEW a \in 1 .. LineLength
        PROVE  \E i \in pv : v[i] = [line |-> l + 1, at |-> a]
    BY <1>4
  <2>. QED BY <2>1, <2>2
<1>9. ASSUME NEW i \in pv, NEW j \in pv, i < j
      PROVE  \/ v[i].line < v[j].line
             \/ v[i].line = v[j].line /\ v[i].at < v[j].at
  <2>1. CASE i \in pu /\ j \in pu
    BY <1>3, <1>6, <1>9, <2>1
  <2>2. CASE j \notin pu
    <3>1. j - Len(s) \in 1 .. LineLength /\ v[j] = [line |-> l + 1, at |-> j - Len(s)]
      BY <1>5, <2>2
    <3>2. CASE v[i].line \in Nat /\ v[i].line <= l
      BY <3>1, <3>2
    <3>3. CASE i - Len(s) \in 1 .. LineLength /\ v[i] = [line |-> l + 1, at |-> i - Len(s)]
      BY <1>2, <1>7, <1>9, <3>1, <3>3
    <3>. QED BY <1>5, <3>2, <3>3
  <2>3. CASE i \notin pu /\ j \in pu
    <3>1. i - Len(s) \in 1 .. LineLength
      BY <1>5, <2>3
    <3>2. \/ j <= Len(s)
          \/ j - Len(s) \in 1 .. LineLength /\ v[j] = [line |-> l + 1, at |-> j - Len(s)]
      BY <1>5, <2>3
    <3>3. CASE j <= Len(s)
      BY <1>2, <1>7, <1>9, <3>1, <3>3
    <3>4. CASE j - Len(s) \in 1 .. LineLength /\ v[j] = [line |-> l + 1, at |-> j - Len(s)]
      <4>1. v[i] = [line |-> l + 1, at |-> i - Len(s)]
        BY <1>2, <1>5, <1>7, <1>9, <3>1
      <4>. QED BY <1>2, <1>7, <1>9, <3>1, <3>4, <4>1
    <3>. QED BY <3>2, <3>3, <3>4
  <2>. QED BY <2>1, <2>2, <2>3
<1>. QED BY <1>8, <1>9 DEF InOrder, v, t, pv

\* Nothing is no line
LEMMA NoLines == WholeLines(<<>>)
<1>1. IsLines(<<>>, 0)
  BY LoggerAssumption, CapacityAssumption DEF IsLines
<1>. QED BY <1>1 DEF WholeLines

\* A line is one
LEMMA OneLine ==
  ASSUME NEW n \in Nat
  PROVE  WholeLines(Line(n))
<1>1. IsLines(Line(n), 1)
  <2>1. LineLength \in Nat
    BY LoggerAssumption, CapacityAssumption
  <2>2. Len(Line(n)) = 1 * LineLength
    BY <2>1, LineSeq
  <2>3. ASSUME NEW k \in Nat, k < 1
        PROVE  \A a \in 1 .. LineLength : Line(n)[k * LineLength + a] = [line |-> n, at |-> a]
    <3>1. k * LineLength = 0 
      BY <2>1, <2>3
    <3>2. ASSUME NEW a \in 1 .. LineLength
          PROVE  Line(n)[k * LineLength + a] = [line |-> n, at |-> a]
      <4>1. k * LineLength + a = a
        BY <2>1, <3>1
      <4>. QED BY <4>1, LineSeq
    <3>. QED BY <3>2
  <2>. QED BY <2>2, <2>3 DEF IsLines
<1>. QED BY <1>1 DEF WholeLines

\* Multiples of the length of a line
LEMMA Multiples ==
  ASSUME NEW l \in Nat \ {0}, NEW m \in Nat, NEW n \in Nat
  PROVE  /\ (m + n) * l = m * l + n * l
         /\ m * l \in Nat
         /\ (m * l) % l = 0
         /\ (m * l) \div l = m
         /\ n < m => n * l + l <= m * l
BY SMTT(20)

\* Whole lines behind whole lines
LEMMA MoreLines ==
  ASSUME NEW s \in Seq(LogByte), NEW t \in Seq(LogByte), WholeLines(s), WholeLines(t)
  PROVE  WholeLines(s \o t)
<1> DEFINE L == LineLength
           v == s \o t
<1>0. L \in Nat \ {0}
  BY LoggerAssumption, CapacityAssumption
<1>1. PICK m \in Nat : IsLines(s, m)
  BY DEF WholeLines
<1>2. PICK n \in Nat : IsLines(t, n)
  BY DEF WholeLines
<1>3. /\ Len(s) = m * L /\ Len(t) = n * L
      /\ \A k \in Nat : k < m =>
           \E i \in Nat : \A a \in 1 .. L : s[k * L + a] = [line |-> i, at |-> a]
      /\ \A k \in Nat : k < n =>
           \E i \in Nat : \A a \in 1 .. L : t[k * L + a] = [line |-> i, at |-> a]
  BY <1>1, <1>2 DEF IsLines
<1>4. /\ Len(v) = Len(s) + Len(t)
      /\ \A i \in 1 .. Len(s) : v[i] = s[i]
      /\ \A i \in 1 .. Len(t) : v[Len(s) + i] = t[i]
  BY ConcatAt
<1> HIDE DEF v, L
<1>5. Len(v) = (m + n) * L
  BY <1>0, <1>3, <1>4, Multiples
<1>6. ASSUME NEW k \in Nat, k < m + n
      PROVE  \E i \in Nat : \A a \in 1 .. L : v[k * L + a] = [line |-> i, at |-> a]
  <2>1. CASE k < m
    <3>1. PICK i \in Nat : \A a \in 1 .. L : s[k * L + a] = [line |-> i, at |-> a]
      BY <1>3, <2>1
    <3>2. k * L \in Nat /\ k * L + L <= Len(s)
      BY <1>0, <1>3, <2>1, Multiples
    <3>3. ASSUME NEW a \in 1 .. L
          PROVE  v[k * L + a] = [line |-> i, at |-> a]
      <4>1. k * L + a \in 1 .. Len(s)
        BY <1>0, <3>2
      <4>. QED BY <1>4, <3>1, <4>1
    <3>. QED BY <3>3
  <2>2. CASE k >= m
    <3>0. k - m \in Nat /\ k - m < n /\ k = m + (k - m)
      BY <1>6, <2>2
    <3>1. PICK i \in Nat : \A a \in 1 .. L : t[(k - m) * L + a] = [line |-> i, at |-> a]
      BY <1>3, <3>0
    <3>2. (k - m) * L \in Nat /\ (k - m) * L + L <= Len(t)
      BY <1>0, <1>3, <3>0, Multiples
    <3>3. k * L = Len(s) + (k - m) * L
      BY <1>0, <1>3, <3>0, Multiples
    <3>4. ASSUME NEW a \in 1 .. L
          PROVE  v[k * L + a] = [line |-> i, at |-> a]
      <4>1. (k - m) * L + a \in 1 .. Len(t)
        BY <1>0, <3>2
      <4>2. Len(s) \in Nat
        OBVIOUS
      <4>3. k * L + a = Len(s) + ((k - m) * L + a)
        BY <1>0, <3>2, <3>3, <4>2
      <4>. QED BY <1>4, <3>1, <4>1, <4>3
    <3>. QED BY <3>4
  <2>3. k < m \/ k >= m
    OBVIOUS
  <2>. QED BY Zenon, <2>1, <2>2, <2>3
<1>7. IsLines(v, m + n)
  BY <1>5, <1>6 DEF IsLines, L
<1>. QED BY <1>7 DEF WholeLines, v

-----------------------------------------------------------------------------
(* The invariant *)

\* The order of the lines does not depend on where the buffer begins
LEMMA WaitedInOrderIs == WaitedInOrder <=> InOrder(out \o buff.bytes, waited)
BY DEF WaitedInOrder, InOrder

\* The parts of the invariant that a step of the logger finds
LEMMA Found ==
  ASSUME TypeOK
  PROVE  /\ buff.bytes \in Seq(LogByte) /\ buff.skip \in Nat
         /\ buff.skip + Len(buff.bytes) <= Capacity
         /\ Len(buff.bytes) \in Nat /\ Capacity \in Nat
         /\ LineLength \in Nat \ {0}
BY LoggerAssumption, CapacityAssumption DEF TypeOK, QueueOf

\* A piece of the front of a sequence
LEMMA FrontSeq ==
  ASSUME NEW s \in Seq(LogByte), NEW n \in 0 .. Len(s)
  PROVE  /\ SubSeq(s, 1, n) \in Seq(LogByte)
         /\ Len(SubSeq(s, 1, n)) = n
         /\ \A i \in 1 .. n : SubSeq(s, 1, n)[i] = s[i]
BY SubSeqProperties

\* The number of a byte's line
LEMMA NumberAt ==
  ASSUME NEW s \in Seq(LogByte)
  PROVE  \A i \in 1 .. Len(s) : s[i].line \in Nat
<1>1. \A i \in 1 .. Len(s) : s[i] \in LogByte
  OBVIOUS
<1>2. \A b \in LogByte : b.line \in Nat
  BY DEF LogByte
<1>. QED BY <1>1, <1>2

\* The concatenation of three sequences
LEMMA ThreeParts ==
  ASSUME NEW s \in Seq(LogByte), NEW t \in Seq(LogByte), NEW u \in Seq(LogByte)
  PROVE  (s \o t) \o u = s \o (t \o u)
BY ConcatAssociative

\* The two parts of a sequence
LEMMA FrontAndRest ==
  ASSUME NEW s \in Seq(LogByte), NEW n \in 0 .. Len(s)
  PROVE  SubSeq(s, 1, n) \o SubSeq(s, n + 1, Len(s)) = s
<1>1. SubSeq(s, 1, n) \o SubSeq(s, n + 1, Len(s)) = SubSeq(s, 1, Len(s))
  <2>1. /\ 1 \in 1 .. Len(s) + 1 /\ n \in 1 - 1 .. Len(s) /\ Len(s) \in n .. Len(s)
    OBVIOUS
  <2>. QED BY <2>1, ConcatAdjacentSubSeq
<1>. QED BY <1>1, SubSeqFull

\* What the destination takes of n bytes
LEMMA TakenIs ==
  ASSUME NEW n \in Nat, TypeOK, NEW k \in Taken(n)
  PROVE  /\ k \in 0 .. n /\ k <= room
         /\ dest = "pipe" => k = n
BY DEF Taken, TypeOK

\* init_logger establishes the invariant
LEMMA InitInv == Init => Inv
<1> SUFFICES ASSUME Init PROVE Inv
  OBVIOUS
<1>1. TypeOK
  <2>1. buff \in QueueOf(LogByte) /\ out \in Seq(LogByte)
    BY CapacityAssumption DEF Init, QueueOf, EmptyQueue
  <2>2. room \in Nat
    BY LoggerAssumption DEF Init
  <2>. QED BY <2>1, <2>2 DEF Init, TypeOK
<1>2. Numbered
  BY DEF Init, Numbered, EmptyQueue
<1>3. WaitedInOrder
  <2>1. out \o buff.bytes = <<>>
    BY DEF Init, EmptyQueue
  <2>2. waited = {}
    BY DEF Init
  <2>. QED BY <2>1, <2>2, WaitedInOrderIs DEF InOrder
<1>4. OnlyWholeLines
  BY NoLines DEF Init, OnlyWholeLines, EmptyQueue
<1>. QED BY <1>1, <1>2, <1>3, <1>4 DEF Inv

\* A line is logged: it is written past the buffer, waits in it, or is dropped
LEMMA LogInv == Inv /\ logger_log => Inv'
<1> SUFFICES ASSUME Inv, logger_log PROVE Inv'
  OBVIOUS
<1> DEFINE line == Line(logged + 1)
<1>0. /\ TypeOK /\ Numbered /\ OnlyWholeLines
      /\ InOrder(out \o buff.bytes, waited)
      /\ logged \in Nat /\ logged + 1 \in Nat /\ waited \subseteq 1 .. logged
      /\ out \in Seq(LogByte)
  BY WaitedInOrderIs DEF Inv, TypeOK
<1>1. /\ line \in Seq(LogByte) /\ Len(line) = LineLength
      /\ \A i \in 1 .. LineLength : line[i] = [line |-> logged + 1, at |-> i]
  BY <1>0, LineSeq
<1>2. logged' = logged + 1 /\ UNCHANGED <<stream, dest, ready>>
  BY DEF logger_log
<1>3. /\ buff.bytes \in Seq(LogByte) /\ buff.skip \in Nat
      /\ buff.skip + Len(buff.bytes) <= Capacity
      /\ Len(buff.bytes) \in Nat /\ Capacity \in Nat
      /\ LineLength \in Nat \ {0}
  BY <1>0, Found
<1>4. waited \in SUBSET (1 .. logged')
  BY <1>0, <1>2
<1>5. /\ \A i \in 1 .. Len(out) : out[i].line <= logged'
      /\ \A i \in 1 .. Len(buff.bytes) : buff.bytes[i].line <= logged'
  <2>1. \A i \in 1 .. Len(out) : out[i].line \in Nat
    BY <1>0, NumberAt
  <2>2. \A i \in 1 .. Len(buff.bytes) : buff.bytes[i].line \in Nat
    BY <1>3, NumberAt
  <2>. QED BY <1>0, <1>2, <2>1, <2>2 DEF Numbered
<1>6. CASE \E n \in Taken(LineLength) :
             Writes(line, n) /\ UNCHANGED <<buff, watched, waited>>
  <2>1. PICK n \in Taken(LineLength) :
               Writes(line, n) /\ UNCHANGED <<buff, watched, waited>>
    BY <1>6
  <2> DEFINE part == SubSeq(line, 1, n)
  <2>2. n \in 0 .. LineLength /\ n <= room /\ (dest = "pipe" => n = LineLength)
    BY <1>0, <1>3, TakenIs
  <2>3. out' = out \o part /\ room' = room - n
    BY <2>1 DEF Writes
  <2>4. /\ part \in Seq(LogByte) /\ Len(part) = n
        /\ \A i \in 1 .. Len(part) : part[i].line = logged + 1
    <3>1. /\ part \in Seq(LogByte) /\ Len(part) = n
          /\ \A i \in 1 .. n : part[i] = line[i]
      BY <1>1, <2>2, FrontSeq
    <3> HIDE DEF line, part
    <3>2. ASSUME NEW i \in 1 .. n
          PROVE  part[i].line = logged + 1
      <4>1. part[i] = [line |-> logged + 1, at |-> i]
        <5>1. i \in 1 .. LineLength
          BY <1>3, <2>2
        <5>. QED BY <1>1, <3>1, <5>1
      <4>. QED BY <4>1
    <3>. QED BY <3>1, <3>2
  <2>5. dest = "pipe" => part = line
    BY <1>1, <2>2, SubSeqFull
  <2> HIDE DEF part
  <2>6. TypeOK'
    <3>1. out' \in Seq(LogByte)
      BY <1>0, <2>3, <2>4, ConcatAt
    <3>2. room' \in Nat
      BY <1>0, <2>2, <2>3 DEF TypeOK
    <3>3. waited' \in SUBSET (1 .. logged')
      BY <1>4, <2>1
    <3>. QED BY <1>0, <1>2, <2>1, <3>1, <3>2, <3>3 DEF TypeOK
  <2>7. Numbered'
    <3>1. ASSUME NEW i \in 1 .. Len(out')
          PROVE  out'[i].line <= logged'
      <4>1. CASE i <= Len(out)
        <5>1. out'[i] = out[i] /\ i \in 1 .. Len(out)
          BY <1>0, <2>3, <2>4, <4>1, ConcatAt
        <5>. QED BY <1>5, <5>1
      <4>2. CASE ~(i <= Len(out))
        <5>1. i - Len(out) \in 1 .. Len(part) /\ out'[i] = part[i - Len(out)]
          BY <1>0, <2>3, <2>4, <4>2, ConcatAt
        <5>. QED BY <1>0, <1>2, <2>4, <5>1
      <4>. QED BY <4>1, <4>2
    <3>. QED BY <1>5, <2>1, <3>1 DEF Numbered
  <2>8. WaitedInOrder'
    <3>1. \A i \in 1 .. Len(part) : part[i].line \notin waited
      BY <1>0, <2>4
    <3>2. InOrder((out \o part) \o buff.bytes, waited)
      BY <1>0, <1>3, <2>4, <3>1, InsertOthers
    <3>3. InOrder(out' \o buff'.bytes, waited')
      BY <2>1, <2>3, <3>2
    <3>. QED BY <3>3 DEF WaitedInOrder, InOrder
  <2>9. OnlyWholeLines'
    <3>1. ASSUME dest = "pipe"
          PROVE  WholeLines(out \o part) /\ WholeLines(buff.bytes)
      <4>1. WholeLines(part)
        BY <1>0, <2>5, <3>1, OneLine
      <4>. QED BY <1>0, <2>4, <3>1, <4>1, MoreLines DEF OnlyWholeLines
    <3>. QED BY <1>2, <2>1, <2>3, <3>1 DEF OnlyWholeLines
  <2>. QED BY <2>6, <2>7, <2>8, <2>9 DEF Inv
<1>7. CASE /\ LineLength <= Room(buff)
           /\ buff' = WriteAdv(buff, line)
           /\ waited' = waited \union {logged + 1}
           /\ watched' = TRUE
           /\ UNCHANGED <<out, room>>
  <2>1. buff'.bytes = buff.bytes \o line /\ buff'.skip = buff.skip
        /\ buff' = [skip |-> buff.skip, bytes |-> buff.bytes \o line]
    BY <1>7 DEF WriteAdv
  <2>2. /\ buff'.bytes \in Seq(LogByte)
        /\ Len(buff'.bytes) = Len(buff.bytes) + LineLength
    BY <1>1, <1>3, <2>1, ConcatAt
  <2>3. TypeOK'
    <3>1. buff' \in QueueOf(LogByte)
      <4>1. buff'.skip + Len(buff'.bytes) <= Capacity
        BY <1>3, <1>7, <2>1, <2>2 DEF Room, Length
      <4>2. buff' \in [skip : Nat, bytes : Seq(LogByte)]
        BY <1>3, <2>1, <2>2
      <4>. QED BY <4>1, <4>2 DEF QueueOf
    <3>2. waited' \in SUBSET (1 .. logged')
      BY <1>0, <1>2, <1>7
    <3>3. logged' \in Nat
      BY <1>0, <1>2
    <3>. QED BY <1>0, <1>2, <1>7, <3>1, <3>2, <3>3 DEF TypeOK
  <2>4. Numbered'
    <3>1. ASSUME NEW i \in 1 .. Len(buff'.bytes)
          PROVE  buff'.bytes[i].line <= logged'
      <4>1. CASE i <= Len(buff.bytes)
        <5>1. buff'.bytes[i] = buff.bytes[i] /\ i \in 1 .. Len(buff.bytes)
          BY <1>1, <1>3, <2>1, <4>1, ConcatAt
        <5>. QED BY <1>5, <5>1
      <4>2. CASE ~(i <= Len(buff.bytes))
        <5>1. /\ i - Len(buff.bytes) \in 1 .. LineLength
              /\ buff'.bytes[i] = line[i - Len(buff.bytes)]
          <6> HIDE DEF line
          <6>1. \A j \in 1 .. LineLength : buff'.bytes[Len(buff.bytes) + j] = line[j]
            BY <1>1, <1>3, <2>1, ConcatAt
          <6>2. /\ i - Len(buff.bytes) \in 1 .. LineLength
                /\ i = Len(buff.bytes) + (i - Len(buff.bytes))
            BY <1>3, <2>2, <4>2
          <6>. QED BY <6>1, <6>2
        <5>2. line[i - Len(buff.bytes)].line = logged + 1
          <6>1. line[i - Len(buff.bytes)] = [line |-> logged + 1, at |-> i - Len(buff.bytes)]
            BY <1>1, <5>1
          <6> HIDE DEF line
          <6>. QED BY <6>1
        <5>. QED BY <1>0, <1>2, <5>1, <5>2
      <4>. QED BY <4>1, <4>2
    <3>. QED BY <1>5, <1>7, <3>1 DEF Numbered
  <2>5. WaitedInOrder'
    <3>1. out \o buff.bytes \in Seq(LogByte)
      BY <1>0, <1>3, ConcatAt
    <3>2. ASSUME NEW i \in 1 .. Len(out \o buff.bytes)
          PROVE  (out \o buff.bytes)[i].line <= logged
      <4>1. CASE i <= Len(out)
        <5>1. (out \o buff.bytes)[i] = out[i] /\ i \in 1 .. Len(out)
          BY <1>0, <1>3, <4>1, ConcatAt
        <5>. QED BY <1>0, <5>1 DEF Numbered
      <4>2. CASE ~(i <= Len(out))
        <5>1. /\ i - Len(out) \in 1 .. Len(buff.bytes)
              /\ (out \o buff.bytes)[i] = buff.bytes[i - Len(out)]
          BY <1>0, <1>3, <4>2, ConcatAt
        <5>. QED BY <1>0, <5>1 DEF Numbered
      <4>. QED BY <4>1, <4>2
    <3>3. InOrder((out \o buff.bytes) \o line, waited \union {logged + 1})
      BY <1>0, <3>1, <3>2, AppendLine
    <3>4. (out \o buff.bytes) \o line = out \o (buff.bytes \o line)
      <4> HIDE DEF line
      <4>. QED BY <1>0, <1>1, <1>3, ThreeParts
    <3>5. InOrder(out' \o buff'.bytes, waited')
      BY <1>7, <2>1, <3>3, <3>4
    <3>. QED BY <3>5 DEF WaitedInOrder, InOrder
  <2>6. OnlyWholeLines'
    <3>1. ASSUME dest = "pipe"
          PROVE  WholeLines(out) /\ WholeLines(buff.bytes \o line)
      <4>1. WholeLines(line)
        BY <1>0, OneLine
      <4>. QED BY <1>0, <1>1, <1>3, <3>1, <4>1, MoreLines DEF OnlyWholeLines
    <3>. QED BY <1>2, <1>7, <2>1, <3>1 DEF OnlyWholeLines
  <2>. QED BY <2>3, <2>4, <2>5, <2>6 DEF Inv
<1>8. CASE UNCHANGED <<buff, waited, watched, out, room>>
  <2>1. TypeOK'
    <3>1. waited' \in SUBSET (1 .. logged')
      BY <1>4, <1>8
    <3>2. logged' \in Nat
      BY <1>0, <1>2
    <3>. QED BY <1>0, <1>2, <1>8, <3>1, <3>2 DEF TypeOK
  <2>2. Numbered'
    BY <1>5, <1>8 DEF Numbered
  <2>3. WaitedInOrder'
    <3>1. InOrder(out' \o buff'.bytes, waited')
      BY <1>0, <1>8
    <3>. QED BY <3>1 DEF WaitedInOrder, InOrder
  <2>4. OnlyWholeLines'
    BY <1>0, <1>2, <1>8 DEF OnlyWholeLines
  <2>. QED BY <2>1, <2>2, <2>3, <2>4 DEF Inv
<1>9. \/ \E n \in Taken(LineLength) :
           Writes(line, n) /\ UNCHANGED <<buff, watched, waited>>
      \/ Wait(logged + 1) /\ UNCHANGED <<out, room>>
  BY DEF logger_log
<1> HIDE DEF line
<1>10. CASE Wait(logged + 1) /\ UNCHANGED <<out, room>>
  BY <1>7, <1>8, <1>10 DEF Wait, line
<1>. QED BY <1>6, <1>9, <1>10

\* The buffer is written: its front moves to the destination
LEMMA WriteInv == Inv /\ logger_on_write_ready => Inv'
<1> SUFFICES ASSUME Inv, logger_on_write_ready PROVE Inv'
  OBVIOUS
<1>0. /\ TypeOK /\ Numbered /\ OnlyWholeLines
      /\ InOrder(out \o buff.bytes, waited)
      /\ out \in Seq(LogByte)
  BY WaitedInOrderIs DEF Inv, TypeOK
<1>1. /\ buff.bytes \in Seq(LogByte) /\ buff.skip \in Nat
      /\ buff.skip + Len(buff.bytes) <= Capacity
      /\ Len(buff.bytes) \in Nat /\ Capacity \in Nat
  BY <1>0, Found
<1>2. ready' = FALSE /\ UNCHANGED <<stream, dest, logged, waited>>
  BY DEF logger_on_write_ready
<1>3. CASE \E n \in Taken(Length(buff)) :
             /\ Writes(buff.bytes, n)
             /\ buff' = Advance(n)
             /\ watched' = StillWatched(buff')
  <2>1. PICK n \in Taken(Length(buff)) :
               /\ Writes(buff.bytes, n)
               /\ buff' = Advance(n)
               /\ watched' = StillWatched(buff')
    BY <1>3
  <2> DEFINE front == SubSeq(buff.bytes, 1, n)
             others == SubSeq(buff.bytes, n + 1, Len(buff.bytes))
  <2>2. n \in 0 .. Len(buff.bytes) /\ n <= room /\ (dest = "pipe" => n = Len(buff.bytes))
    BY <1>0, <1>1, <2>1, TakenIs DEF Length
  <2>3. out' = out \o front /\ room' = room - n
    BY <2>1 DEF Writes
  <2>4. /\ front \in Seq(LogByte) /\ Len(front) = n
        /\ \A i \in 1 .. n : front[i] = buff.bytes[i]
    BY <1>1, <2>2, FrontSeq
  <2>5. /\ others \in Seq(LogByte) /\ Len(others) = Len(buff.bytes) - n
        /\ \A i \in 1 .. Len(buff.bytes) - n : others[i] = buff.bytes[n + i]
    <3>1. n + 1 \in Nat /\ n + 1 <= Len(buff.bytes) + 1 /\ n + 1 >= 1
      BY <1>1, <2>2
    <3>. DEFINE b == buff.bytes
                L == Len(b)
    <3>2. \A i \in n + 1 .. L : b[i] \in LogByte
      BY <1>1, <3>1
    <3>3. /\ others \in Seq(LogByte)
          /\ Len(others) = IF n + 1 <= L THEN L - (n + 1) + 1 ELSE 0
          /\ \A i \in 1 .. L - (n + 1) + 1 : others[i] = b[(n + 1) + i - 1]
      <4>1. n + 1 \in Int /\ L \in Int
        BY <1>1, <3>1
      <4>. HIDE DEF b, L
      <4>. QED BY <3>2, <4>1, SubSeqProperties DEF b, L
    <3>. HIDE DEF b, L, others
    <3>4. L \in Nat /\ n \in Nat /\ n <= L
      BY <1>1, <2>2 DEF L, b
    <3>5. L - (n + 1) + 1 = L - n /\ \A i \in 1 .. L - n : (n + 1) + i - 1 = n + i
      BY <3>4
    <3>6. Len(others) = L - n
      BY <3>3, <3>4
    <3>7. \A i \in 1 .. L - n : others[i] = b[n + i]
      BY <3>3, <3>5
    <3>. QED BY <3>3, <3>6, <3>7 DEF b, L
  <2>6. front \o others = buff.bytes
    BY <1>1, <2>2, FrontAndRest
  <2>7. /\ buff'.bytes = others
        /\ buff' \in QueueOf(LogByte)
    <3>1. CASE n = Len(buff.bytes)
      <4>1. buff' = EmptyQueue
        BY <2>1, <3>1 DEF Advance, ReadAdv, Length
      <4>2. others = <<>>
        BY <2>5, <3>1, EmptySeq
      <4>3. EmptyQueue \in QueueOf(LogByte)
        BY <1>1 DEF EmptyQueue, QueueOf
      <4>. QED BY <4>1, <4>2, <4>3 DEF EmptyQueue
    <3>2. CASE n # Len(buff.bytes)
      <4>1. buff' = [skip |-> buff.skip + n, bytes |-> others]
        BY <2>1, <3>2 DEF Advance, ReadAdv, Length
      <4> HIDE DEF others
      <4>2. buff.skip + n \in Nat /\ (buff.skip + n) + Len(others) <= Capacity
        BY <1>1, <2>2, <2>5
      <4>. QED BY <2>5, <4>1, <4>2 DEF QueueOf
    <3>. QED BY <3>1, <3>2
  <2> HIDE DEF front, others
  <2>8. TypeOK'
    <3>1. out' \in Seq(LogByte)
      BY <1>0, <2>3, <2>4, ConcatAt
    <3>2. room' \in Nat
      BY <1>0, <2>2, <2>3 DEF TypeOK
    <3>3. watched' \in BOOLEAN
      BY <2>1 DEF StillWatched, CanRead
    <3>. QED BY <1>0, <1>2, <2>7, <3>1, <3>2, <3>3 DEF TypeOK
  <2>9. Numbered'
    <3>1. ASSUME NEW i \in 1 .. Len(out')
          PROVE  out'[i].line <= logged'
      <4>1. CASE i <= Len(out)
        <5>1. out'[i] = out[i] /\ i \in 1 .. Len(out)
          BY <1>0, <2>3, <2>4, <4>1, ConcatAt
        <5>. QED BY <1>0, <1>2, <5>1 DEF Numbered
      <4>2. CASE ~(i <= Len(out))
        <5>1. i - Len(out) \in 1 .. n /\ out'[i] = front[i - Len(out)]
          BY <1>0, <2>3, <2>4, <4>2, ConcatAt
        <5>2. i - Len(out) \in 1 .. Len(buff.bytes)
          BY <1>1, <2>2, <5>1
        <5>. QED BY <1>0, <1>2, <2>4, <5>1, <5>2 DEF Numbered
      <4>. QED BY <4>1, <4>2
    <3>2. ASSUME NEW i \in 1 .. Len(buff'.bytes)
          PROVE  buff'.bytes[i].line <= logged'
      <4>1. buff'.bytes[i] = buff.bytes[n + i] /\ n + i \in 1 .. Len(buff.bytes)
        BY <1>1, <2>2, <2>5, <2>7
      <4>. QED BY <1>0, <1>2, <4>1 DEF Numbered
    <3>. QED BY <3>1, <3>2 DEF Numbered
  <2>10. WaitedInOrder'
    <3>1. (out \o front) \o others = out \o buff.bytes
      <4>1. front \in Seq(LogByte) /\ others \in Seq(LogByte)
        BY <2>4, <2>5
      <4> HIDE DEF front, others
      <4>2. (out \o front) \o others = out \o (front \o others)
        BY <1>0, <4>1, ThreeParts
      <4>. QED BY <2>6, <4>2
    <3>2. InOrder(out' \o buff'.bytes, waited')
      BY <1>0, <1>2, <2>3, <2>7, <3>1
    <3>. QED BY <3>2 DEF WaitedInOrder, InOrder
  <2>11. OnlyWholeLines'
    <3>1. ASSUME dest = "pipe"
          PROVE  WholeLines(out \o front) /\ WholeLines(others)
      <4>1. front = buff.bytes
        BY <1>1, <2>2, <3>1, SubSeqFull DEF front
      <4>2. others = <<>>
        BY <2>2, <2>5, <3>1, EmptySeq
      <4>. QED BY <1>0, <1>1, <3>1, <4>1, <4>2, MoreLines, NoLines DEF OnlyWholeLines
    <3>. QED BY <1>2, <2>3, <2>7, <3>1 DEF OnlyWholeLines
  <2>. QED BY <2>8, <2>9, <2>10, <2>11 DEF Inv
<1>4. CASE watched' = FALSE /\ UNCHANGED <<buff, out, room>>
  <2>1. TypeOK'
    BY <1>0, <1>2, <1>4 DEF TypeOK
  <2>2. Numbered'
    BY <1>0, <1>2, <1>4 DEF Numbered
  <2>3. WaitedInOrder'
    <3>1. InOrder(out' \o buff'.bytes, waited')
      BY <1>0, <1>2, <1>4
    <3>. QED BY <3>1 DEF WaitedInOrder, InOrder
  <2>4. OnlyWholeLines'
    BY <1>0, <1>2, <1>4 DEF OnlyWholeLines
  <2>. QED BY <2>1, <2>2, <2>3, <2>4 DEF Inv
<1>. QED BY <1>3, <1>4 DEF logger_on_write_ready

\* The selector and the reader change neither what was written nor what waits
LEMMA OtherInv == Inv /\ (Select \/ ReaderReads \/ UNCHANGED vars) => Inv'
<1> SUFFICES ASSUME Inv, Select \/ ReaderReads \/ UNCHANGED vars PROVE Inv'
  OBVIOUS
<1>1. UNCHANGED <<stream, dest, buff, watched, out, logged, waited>>
  <2>1. CASE Select
    BY <2>1 DEF Select
  <2>2. CASE ReaderReads
    BY <2>2 DEF ReaderReads
  <2>3. CASE UNCHANGED vars
    BY <2>3 DEF vars
  <2>. QED BY <2>1, <2>2, <2>3
<1>2. ready' \in BOOLEAN /\ room' \in Nat
  <2>0. ready \in BOOLEAN /\ room \in Nat
    BY DEF Inv, TypeOK
  <2>1. CASE Select
    BY <2>0, <2>1 DEF Select
  <2>2. CASE ReaderReads
    BY <2>0, <2>2 DEF ReaderReads
  <2>3. CASE UNCHANGED vars
    BY <2>0, <2>3 DEF vars
  <2>. QED BY <2>1, <2>2, <2>3
<1>3. TypeOK'
  BY <1>1, <1>2 DEF Inv, TypeOK
<1>4. Numbered'
  BY <1>1 DEF Inv, Numbered
<1>5. WaitedInOrder'
  BY <1>1 DEF Inv, WaitedInOrder
<1>6. OnlyWholeLines'
  BY <1>1 DEF Inv, OnlyWholeLines
<1>. QED BY <1>3, <1>4, <1>5, <1>6 DEF Inv

\* Every step keeps the invariant
LEMMA NextInv == Inv /\ [Next]_vars => Inv'
BY LogInv, WriteInv, OtherInv DEF Next

\* The invariant implies that no line is cut
LEMMA InvOnePerLine == Inv => OnePerLine
<1> SUFFICES ASSUME Inv, dest = "pipe"
             PROVE  /\ Len(out) % LineLength = 0
                    /\ \A k \in 0 .. (Len(out) \div LineLength) - 1 :
                         SubSeq(out, k * LineLength + 1, (k + 1) * LineLength) =
                           Line(out[k * LineLength + 1].line)
  BY DEF OnePerLine
<1> DEFINE L == LineLength
<1>0. L \in Nat \ {0}
  BY LoggerAssumption, CapacityAssumption
<1>1. out \in Seq(LogByte)
  BY DEF Inv, TypeOK
<1>2. PICK m \in Nat : IsLines(out, m)
  BY DEF Inv, OnlyWholeLines, WholeLines
<1>3. /\ Len(out) = m * L
      /\ \A k \in Nat : k < m =>
           \E n \in Nat : \A a \in 1 .. L : out[k * L + a] = [line |-> n, at |-> a]
  BY <1>2 DEF IsLines
<1> HIDE DEF L
<1>4. Len(out) % L = 0 /\ Len(out) \div L = m
  BY <1>0, <1>3, Multiples
<1>5. ASSUME NEW k \in 0 .. m - 1
      PROVE  SubSeq(out, k * L + 1, (k + 1) * L) = Line(out[k * L + 1].line)
  <2>1. k \in Nat /\ k < m
    OBVIOUS
  <2>2. PICK n \in Nat : \A a \in 1 .. L : out[k * L + a] = [line |-> n, at |-> a]
    BY <1>3, <2>1
  <2>3. out[k * L + 1].line = n
    <3>1. out[k * L + 1] = [line |-> n, at |-> 1]
      BY <1>0, <2>2
    <3>. QED BY <3>1
  <2>4. k * L \in Nat /\ k * L + L <= Len(out) /\ (k + 1) * L = k * L + L
    <3>1. (k + 1) * L = k * L + 1 * L /\ 1 * L = L
      BY <1>0, <2>1, Multiples
    <3>. QED BY <1>0, <1>3, <2>1, <3>1, Multiples
  <2> DEFINE p == k * L
             s == SubSeq(out, p + 1, p + L)
             t == Line(n)
  <2>5. /\ s \in Seq(LogByte) /\ Len(s) = L
        /\ \A i \in 1 .. L : s[i] = out[p + i]
    <3> HIDE DEF p
    <3>1. p \in Nat /\ p + L <= Len(out) /\ Len(out) \in Nat
      BY <1>1, <2>4 DEF p
    <3>2. s \in Seq(LogByte) /\ Len(s) = L
      BY <1>0, <1>1, <3>1, SubSeqProperties
    <3>3. ASSUME NEW i \in 1 .. L
          PROVE  s[i] = out[p + i]
      BY <1>0, <1>1, <3>1, <3>2, SMT
    <3>. QED BY <3>2, <3>3
  <2>6. /\ t \in Seq(LogByte) /\ Len(t) = L
        /\ \A i \in 1 .. L : t[i] = [line |-> n, at |-> i]
    BY LineSeq DEF L
  <2> HIDE DEF s, t
  <2>7. \A i \in 1 .. L : s[i] = t[i]
    BY <2>2, <2>5, <2>6 DEF p
  <2>8. s = t
    BY <2>5, <2>6, <2>7, SeqEqual
  <2>. QED BY <2>3, <2>4, <2>8 DEF s, t, p
<1>. QED BY <1>4, <1>5 DEF L

-----------------------------------------------------------------------------

\* logger.c: what the stream's buffer holds fits it, and the lines are well-formed.
\* (What the two theorems below rest on.)
THEOREM LoggerInvariant == Spec => []Inv
<1>1. Inv /\ [Next]_vars => Inv'
  BY NextInv
<1>. QED BY <1>1, InitInv, PTL DEF Spec

\* httpd.8, REGISTRO DE ACCESO: on a pipe every line comes out whole, neither cut by
\* its own end nor by another line, whatever the sizes of lines, buffer and pipe.
THEOREM LinesWhole == Spec => []OnePerLine
BY LoggerInvariant, InvOnePerLine, PTL

\* logger_log and its callback: each line that had to wait is in the stream or in the
\* buffer once, and those lines are in the order in which they were logged.
THEOREM LinesInOrder == Spec => []WaitedInOrder
<1>1. Inv => WaitedInOrder
  BY DEF Inv
<1>. QED BY <1>1, LoggerInvariant, PTL
=============================================================================
