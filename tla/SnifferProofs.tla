---------------------------- MODULE SnifferProofs ----------------------------
(***************************************************************************)
(* Proofs that the bytes of a relayed stream are examined once and in      *)
(* order, as long as nothing is read behind bytes that wait to be sent,    *)
(* and that whatever they are told the parsers log once, when they end.    *)
(* The argument is about positions in the streams, not about what the      *)
(* parsers make of the bytes.                                              *)
(***************************************************************************)
EXTENDS Sniffer, TLAPS

\* recv() and send() move one byte at least and no more than there are
PortionsMove == \A n : \A m \in Portions(n) : m \in Nat \ {0} /\ m <= n

-----------------------------------------------------------------------------
(* The inductive invariant *)

Positions == [arrived : Nat, sent : Nat, examined : Nat]

Typed ==
  /\ session \in Sessions
  /\ phase \in {"parsing", "connected", "closing"}
  /\ link \in [Sides -> Positions]
  /\ bytes_to_analize \in Nat /\ parsed \in Nat
  /\ skewed \in BOOLEAN /\ crowded \in BOOLEAN /\ overread \in BOOLEAN

\* No more is sent on than has arrived
SentArrived == \A s \in Sides : link[s].sent <= link[s].arrived

\* Nothing has happened before the request line is complete
Untouched ==
  phase = "parsing" =>
    /\ link = [s \in Sides |-> NothingYet]
    /\ bytes_to_analize = 0 /\ parsed = 0
    /\ ~skewed /\ ~crowded /\ ~overread

\* A sniffer at work leaves no count behind for the status line's parser
NothingLeft ==
  phase = "connected" /\ ~skewed /\ Sniffing /\ ~session.connect => bytes_to_analize = 0

IInv == Typed /\ SentArrived /\ Untouched /\ NothingLeft /\ ExaminedInOrder

-----------------------------------------------------------------------------
(* One examination *)

\* As many characters as there are positions
LEMMA UnsentLength ==
  ASSUME NEW s \in Sides, link \in [Sides -> Positions], NEW upto \in Nat, link[s].sent <= upto
  PROVE  Len(Unsent(s, upto)) = upto - link[s].sent
<1> DEFINE said == Said(s)
<1> DEFINE m == link[s].sent
<1>1. m \in Nat /\ m <= upto
  BY DEF Positions
<1> HIDE DEF said, m
<1>2. Len(SubSeq(said, m + 1, upto)) = upto - m
  BY <1>1
<1>. QED BY <1>2 DEF Unsent, said, m

\* The fields of the sides' positions that SniffData sets
SniffedTo(s, upto, seen) == [link EXCEPT ![s].arrived = upto, ![s].examined = seen]
ArrivedTo(s, upto) == [link EXCEPT ![s].arrived = upto]

\* What those two leave
LEMMA PositionsSet ==
  ASSUME link \in [Sides -> Positions], NEW s \in Sides, NEW upto \in Nat, NEW seen \in Nat
  PROVE  /\ SniffedTo(s, upto, seen) \in [Sides -> Positions]
         /\ SniffedTo(s, upto, seen)[s].arrived = upto
         /\ SniffedTo(s, upto, seen)[s].examined = seen
         /\ SniffedTo(s, upto, seen)[s].sent = link[s].sent
         /\ \A o \in Sides \ {s} : SniffedTo(s, upto, seen)[o] = link[o]
         /\ ArrivedTo(s, upto) \in [Sides -> Positions]
         /\ ArrivedTo(s, upto)[s].arrived = upto
         /\ ArrivedTo(s, upto)[s].sent = link[s].sent
         /\ \A o \in Sides \ {s} : ArrivedTo(s, upto)[o] = link[o]
BY DEF SniffedTo, ArrivedTo, Positions

Smaller(a, b) == IF a < b THEN a ELSE b

\* The smaller of two counts
LEMMA SmallerIs ==
  ASSUME NEW a \in Nat, NEW b \in Nat
  PROVE  /\ Smaller(a, b) \in Nat /\ Smaller(a, b) <= b
         /\ a <= b => Smaller(a, b) = a
         /\ b <= a => Smaller(a, b) = b
BY DEF Smaller

\* What connected_on_read_ready does to positions, of count bytes to look at behind those
\* that were sent.  seen is how many of them there are.
Examined(s, upto, count, seen) ==
  /\ seen = Smaller(count, upto - link[s].sent)
  /\ IF Sniffing THEN link' = SniffedTo(s, upto, link[s].sent + seen) /\ bytes_to_analize' = 0
     ELSE link' = ArrivedTo(s, upto) /\ bytes_to_analize' = count /\ sniffer' = sniffer
  /\ crowded' = (crowded \/ link[s].arrived > link[s].sent)
  /\ IF s = "origin" /\ ParsingStatus
       THEN /\ overread' \in BOOLEAN /\ (overread' => count > upto - link[s].sent)
            /\ parsed' = link[s].sent + seen
            /\ skewed' = (skewed \/ SniffsAside(s, upto, count)
                                 \/ (seen > 0 /\ link[s].sent # parsed))
       ELSE /\ skewed' = (skewed \/ SniffsAside(s, upto, count))
            /\ status' = status /\ overread' = overread /\ parsed' = parsed

\* An examination looks at as many of the bytes as there are, from the first unsent one on
LEMMA ExaminedIs ==
  ASSUME Typed, SentArrived, NEW s \in Sides, NEW upto \in Nat, link[s].arrived <= upto,
         NEW count \in Nat, ConnectedOnReadReady(s, upto, count)
  PROVE  \E seen \in Nat : Examined(s, upto, count, seen)
<1> DEFINE there == upto - link[s].sent
<1> DEFINE seen == Smaller(count, there)
<1>1. link \in [Sides -> Positions] /\ link[s].sent \in Nat /\ link[s].sent <= upto /\ there \in Nat
  <2>1. link \in [Sides -> Positions] /\ link[s].sent <= link[s].arrived
    BY DEF Typed, SentArrived
  <2>2. link[s].sent \in Nat /\ link[s].arrived \in Nat
    BY <2>1 DEF Positions
  <2>. QED BY <2>1, <2>2
<1>2. Len(Unsent(s, upto)) = there
  BY <1>1, UnsentLength
<1>3. /\ ParseStatus(s, upto, count)
      /\ IF Sniffing THEN SniffData(sniffer, s, upto, count)
         ELSE /\ link' = [link EXCEPT ![s].arrived = upto]
              /\ bytes_to_analize' = count
              /\ UNCHANGED sniffer
      /\ crowded' = (crowded \/ link[s].arrived > link[s].sent)
  BY DEF ConnectedOnReadReady
<1>4. IF Sniffing THEN link' = SniffedTo(s, upto, link[s].sent + seen) /\ bytes_to_analize' = 0
      ELSE link' = ArrivedTo(s, upto) /\ bytes_to_analize' = count /\ sniffer' = sniffer
  <2>1. CASE Sniffing
    BY <1>2, <1>3, <2>1 DEF SniffData, Smaller, AfterSniffing, SniffedTo
  <2>2. CASE ~Sniffing
    BY <1>3, <2>2 DEF ArrivedTo
  <2>. QED BY <2>1, <2>2
<1>5. IF s = "origin" /\ ParsingStatus
        THEN /\ overread' \in BOOLEAN /\ (overread' => count > there)
             /\ parsed' = link[s].sent + seen
             /\ skewed' = (skewed \/ SniffsAside(s, upto, count)
                                  \/ (seen > 0 /\ link[s].sent # parsed))
        ELSE /\ skewed' = (skewed \/ SniffsAside(s, upto, count))
             /\ status' = status /\ overread' = overread /\ parsed' = parsed
  <2>1. CASE s = "origin" /\ ParsingStatus
    <3> DEFINE data == Unsent("origin", upto)
    <3> DEFINE looked == IF count < Len(data) THEN count ELSE Len(data)
    <3> DEFINE line == StatusAfter(status, SubSeq(data, 1, looked))
    <3>1. /\ overread' = (count > Len(data) /\ line.state \notin StatusEnds)
          /\ parsed' = link[s].sent + looked
          /\ skewed' = (skewed \/ SniffsAside(s, upto, count)
                               \/ (looked > 0 /\ link[s].sent # parsed))
      BY <1>3, <2>1 DEF ParseStatus
    <3>2. looked = seen /\ Len(data) = there
      BY <1>2, <2>1 DEF Smaller
    <3> HIDE DEF looked, line, data, there
    <3>3. overread' \in BOOLEAN /\ (overread' => count > there)
      BY <3>1, <3>2
    <3>4. /\ parsed' = link[s].sent + seen
          /\ skewed' = (skewed \/ SniffsAside(s, upto, count)
                               \/ (seen > 0 /\ link[s].sent # parsed))
      BY <3>1, <3>2
    <3>. QED BY <2>1, <3>3, <3>4
  <2>2. CASE ~(s = "origin" /\ ParsingStatus)
    BY <1>3, <2>2 DEF ParseStatus
  <2>. QED BY <2>1, <2>2
<1>6. seen \in Nat
  <2> HIDE DEF there
  <2>. QED BY <1>1, SmallerIs
<1>. QED BY <1>3, <1>4, <1>5, <1>6 DEF Examined

-----------------------------------------------------------------------------
(* What an examination keeps *)

\* A sniffer that has ended and a status line that has been parsed stay so
LEMMA StaysOff ==
  ASSUME NEW s, NEW upto, NEW count, NEW seen, Examined(s, upto, count, seen),
         session' = session, sniff_enabled' = sniff_enabled
  PROVE  (Sniffing' => Sniffing) /\ (ParsingStatus' => ParsingStatus)
BY DEF Examined, Sniffing, ParsingStatus

\* The positions that an examination leaves
LEMMA ExaminedTyped ==
  ASSUME Typed, SentArrived, NEW s \in Sides, NEW upto \in Nat, link[s].arrived <= upto,
         NEW count \in Nat, NEW seen \in Nat, Examined(s, upto, count, seen),
         phase' \in {"connected", "closing"}, session' = session
  PROVE  /\ Typed' /\ SentArrived'
         /\ link'[s].arrived = upto /\ link'[s].sent = link[s].sent
         /\ Sniffing => link'[s].examined = link[s].sent + seen
         /\ \A o \in Sides \ {s} : link'[o] = link[o]
<1>1. link \in [Sides -> Positions] /\ link[s].sent \in Nat /\ link[s].arrived \in Nat
  BY DEF Typed, Positions
<1>2. link[s].sent + seen \in Nat
  BY <1>1
<1>3. /\ link' \in [Sides -> Positions]
      /\ link'[s].arrived = upto /\ link'[s].sent = link[s].sent
      /\ Sniffing => link'[s].examined = link[s].sent + seen
      /\ \A o \in Sides \ {s} : link'[o] = link[o]
  <2> DEFINE to == link[s].sent + seen
  <2>1. to \in Nat
    BY <1>2
  <2>2. IF Sniffing THEN link' = SniffedTo(s, upto, to) ELSE link' = ArrivedTo(s, upto)
    BY DEF Examined
  <2> HIDE DEF to
  <2>3. link' = SniffedTo(s, upto, to) \/ link' = ArrivedTo(s, upto)
    BY <2>2
  <2>4. link' \in [Sides -> Positions] /\ link'[s].arrived = upto /\ link'[s].sent = link[s].sent
    BY <1>1, <2>1, <2>3, PositionsSet
  <2>5. \A o \in Sides \ {s} : link'[o] = link[o]
    BY <1>1, <2>1, <2>3, PositionsSet
  <2>6. Sniffing => link'[s].examined = to
    BY <1>1, <2>1, <2>2, PositionsSet
  <2>. QED BY <2>4, <2>5, <2>6 DEF to
<1>4. bytes_to_analize' \in Nat /\ parsed' \in Nat
  BY <1>2 DEF Examined, Typed
<1>5. skewed' \in BOOLEAN
  BY DEF Examined, Typed
<1>6. crowded' \in BOOLEAN
  BY DEF Examined, Typed
<1>7. overread' \in BOOLEAN
  BY DEF Examined, Typed
<1>8. Typed'
  BY <1>3, <1>4, <1>5, <1>6, <1>7 DEF Typed
<1>9. SentArrived'
  <2>1. link[s].sent <= upto
    BY <1>1 DEF SentArrived
  <2>. QED BY <1>3, <2>1 DEF SentArrived
<1>. QED BY <1>3, <1>8, <1>9

\* What is read is examined from where the last examination ended, or behind bytes that wait
LEMMA ReadOK ==
  ASSUME IInv, Followed, NEW s \in Sides, NEW n \in Nat \ {0}, NEW seen \in Nat,
         Examined(s, link[s].arrived + n, n, seen),
         session' = session, sniff_enabled' = sniff_enabled, phase' = phase
  PROVE  IInv'
<1> DEFINE a == link[s].arrived
<1> DEFINE m == link[s].sent
<1>1. a \in Nat /\ m \in Nat /\ m <= a
  BY DEF IInv, Typed, SentArrived, Positions
<1>2. /\ phase = "connected" /\ ~skewed
      /\ Sniffing => \A o \in Sides : link[o].examined = link[o].arrived
      /\ ParsingStatus => parsed = link["origin"].arrived
  BY DEF Followed, IInv, ExaminedInOrder
<1>3. a + n \in Nat /\ a <= a + n
  BY <1>1
<1>4. /\ Typed' /\ SentArrived'
      /\ link'[s].arrived = a + n /\ link'[s].sent = m
      /\ Sniffing => link'[s].examined = m + seen
      /\ \A o \in Sides \ {s} : link'[o] = link[o]
  BY <1>2, <1>3, ExaminedTyped DEF IInv
<1>5. seen = n
  <2> DEFINE there == (a + n) - m
  <2>1. there \in Nat /\ n <= there
    BY <1>1
  <2>2. seen = Smaller(n, there)
    BY DEF Examined
  <2> HIDE DEF there
  <2>. QED BY <2>1, <2>2, SmallerIs
<1>6. (Sniffing' => Sniffing) /\ (ParsingStatus' => ParsingStatus)
  BY StaysOff
<1>7. Sniffing /\ ~skewed' => m = a
  <2>1. SniffsAside(s, a + n, n) => skewed'
    BY DEF Examined
  <2>2. Sniffing /\ m # link[s].examined => SniffsAside(s, a + n, n)
    BY <1>1 DEF SniffsAside
  <2>. QED BY <1>2, <2>1, <2>2
<1>8. s = "origin" /\ ParsingStatus /\ ~skewed' => m = a
  <2>1. s = "origin" /\ ParsingStatus => skewed' = (skewed \/ SniffsAside(s, a + n, n)
                                                         \/ (seen > 0 /\ m # parsed))
    BY DEF Examined
  <2>2. seen > 0
    BY <1>5
  <2>. QED BY <1>2, <2>1, <2>2
<1>9. skewed' => crowded'
  <2>1. SniffsAside(s, a + n, n) => Sniffing /\ m # a
    BY <1>2 DEF SniffsAside
  <2>2. s = "origin" /\ ParsingStatus /\ m # parsed => m # a
    BY <1>2
  <2>3. skewed' => m # a
    BY <1>2, <2>1, <2>2 DEF Examined
  <2>4. crowded' = (crowded \/ a > m)
    BY DEF Examined
  <2>5. m # a => a > m
    BY <1>1
  <2>. QED BY <2>3, <2>4, <2>5
<1>10. overread' => ~Sniffing'
  <2>1. ~(n > (a + n) - m)
    BY <1>1
  <2>2. CASE s = "origin" /\ ParsingStatus
    <3>1. overread' => n > (a + n) - m
      BY <2>2 DEF Examined
    <3>. QED BY <2>1, <3>1
  <2>3. CASE ~(s = "origin" /\ ParsingStatus)
    BY <1>6, <2>3 DEF Examined, IInv, ExaminedInOrder
  <2>. QED BY <2>2, <2>3
<1>11. ASSUME ~skewed', Sniffing'
       PROVE  \A o \in Sides : link'[o].examined = link'[o].arrived
  BY <1>1, <1>2, <1>4, <1>5, <1>6, <1>7, <1>11
<1>12. ASSUME ~skewed', ParsingStatus'
       PROVE  parsed' = link'["origin"].arrived
  <2>1. CASE s = "origin"
    <3>1. parsed' = m + n
      BY <1>5, <1>6, <1>12, <2>1 DEF Examined
    <3>. QED BY <1>4, <1>6, <1>8, <1>12, <2>1, <3>1
  <2>2. CASE s # "origin"
    <3>1. parsed' = parsed
      BY <2>2 DEF Examined
    <3>. QED BY <1>2, <1>4, <1>6, <1>12, <2>2, <3>1 DEF Sides
  <2>. QED BY <2>1, <2>2
<1>13. ExaminedInOrder'
  BY <1>9, <1>10, <1>11, <1>12 DEF ExaminedInOrder
<1>14. NothingLeft'
  BY <1>6 DEF NothingLeft, Examined
<1>15. Untouched'
  BY <1>2 DEF Untouched
<1>. QED BY <1>4, <1>13, <1>14, <1>15 DEF IInv

\* The end of a stream is examined as if the last count of bytes had been read again
LEMMA ReadEndOK ==
  ASSUME IInv, Followed, NEW s \in Sides, NEW seen \in Nat,
         Examined(s, link[s].arrived, bytes_to_analize, seen),
         session' = session, sniff_enabled' = sniff_enabled, phase' = "closing"
  PROVE  IInv'
<1> DEFINE a == link[s].arrived
<1> DEFINE m == link[s].sent
<1> DEFINE count == bytes_to_analize
<1>1. a \in Nat /\ m \in Nat /\ m <= a /\ count \in Nat
  BY DEF IInv, Typed, SentArrived, Positions
<1>2. Typed' /\ SentArrived'
  <2>1. a <= a
    BY <1>1
  <2>. QED BY <1>1, <2>1, ExaminedTyped DEF IInv
<1>3. (Sniffing' => Sniffing) /\ (ParsingStatus' => ParsingStatus)
  BY StaysOff
<1>4. skewed' => crowded'
  <2>1. SniffsAside(s, a, count) => a > m
    BY DEF SniffsAside
  <2>2. seen > 0 => a > m
    <3> DEFINE there == a - m
    <3>1. there \in Nat /\ seen = Smaller(count, there)
      BY <1>1 DEF Examined
    <3> HIDE DEF there
    <3>2. seen <= there
      BY <1>1, <3>1, SmallerIs
    <3>. QED BY <1>1, <3>1, <3>2 DEF there
  <2>3. skewed' => skewed \/ a > m
    BY <2>1, <2>2 DEF Examined
  <2>. QED BY <2>3 DEF Followed, Examined
<1>5. overread' => ~Sniffing'
  <2>1. CASE s = "origin" /\ ParsingStatus
    <3>1. overread' => count > a - m
      BY <2>1 DEF Examined
    <3>2. overread' => count # 0
      BY <1>1, <3>1
    <3>3. Sniffing => count = 0
      BY <2>1 DEF IInv, NothingLeft, Followed, ParsingStatus
    <3>. QED BY <1>3, <3>2, <3>3
  <2>2. CASE ~(s = "origin" /\ ParsingStatus)
    BY <1>3, <2>2 DEF Examined, IInv, ExaminedInOrder
  <2>. QED BY <2>1, <2>2
<1>6. ExaminedInOrder' /\ NothingLeft' /\ Untouched'
  BY <1>4, <1>5 DEF ExaminedInOrder, NothingLeft, Untouched
<1>. QED BY <1>2, <1>6 DEF IInv

-----------------------------------------------------------------------------
(* Every step *)

\* The opening that came along with the request line has been examined, thrown away or, if
\* nobody sniffs, counted
LEMMA RequestLineDoneOK ==
  ASSUME IInv, RequestLineDone
  PROVE  IInv'
<1>1. /\ link = [s \in Sides |-> NothingYet] /\ parsed = 0
      /\ ~skewed /\ ~crowded /\ ~overread
  BY DEF RequestLineDone, IInv, Untouched
<1>2. /\ phase' = "connected" /\ session' = session /\ sniff_enabled' = sniff_enabled
      /\ parsed' = 0 /\ ~skewed' /\ ~crowded' /\ ~overread'
      /\ skewed' \in BOOLEAN /\ crowded' \in BOOLEAN /\ overread' \in BOOLEAN
  BY <1>1 DEF RequestLineDone, IInv, Typed
<1>3. session \in Sessions /\ link \in [Sides -> Positions]
  BY DEF IInv, Typed
<1>4. PICK k \in 0 .. Len(session.opening) :
         IF session.connect
            THEN /\ link' = [client |-> [arrived |-> k, sent |-> k, examined |-> k],
                             origin |-> [arrived |-> Len(Established), sent |-> 0,
                                         examined |-> Len(Established)]]
                 /\ bytes_to_analize' = k
            ELSE IF sniff_enabled /\ k > 0
            THEN SniffData(AfterRequestLine(sniffer), "client", k, k)
            ELSE /\ link' = [link EXCEPT !.client.arrived = k]
                 /\ bytes_to_analize' = k
  BY DEF RequestLineDone
<1>5. k \in Nat
  <2>1. Len(session.opening) \in Nat
    BY <1>3, TextsAssumption
  <2>. QED BY <2>1
<1> DEFINE Placed == /\ link' \in [Sides -> Positions] /\ bytes_to_analize' \in Nat
                     /\ \A s \in Sides : link'[s].sent <= link'[s].arrived
<1>6. CASE session.connect
  <2> DEFINE L == Len(Established)
  <2>1. L \in Nat
    BY TextsAssumption
  <2>2. link' = [client |-> [arrived |-> k, sent |-> k, examined |-> k],
                 origin |-> [arrived |-> L, sent |-> 0, examined |-> L]]
    BY <1>4, <1>6
  <2>3. bytes_to_analize' = k
    BY <1>4, <1>6
  <2> HIDE DEF L
  <2>4. Placed /\ \A s \in Sides : link'[s].examined = link'[s].arrived
    BY <1>5, <2>1, <2>2, <2>3 DEF Sides, Positions
  <2>5. ~ParsingStatus' /\ NothingLeft'
    BY <1>2, <1>6 DEF ParsingStatus, NothingLeft
  <2>6. ExaminedInOrder'
    BY <1>2, <2>4, <2>5 DEF ExaminedInOrder
  <2>. QED BY <1>2, <1>3, <2>4, <2>5, <2>6 DEF IInv, Typed, SentArrived, Untouched
<1>7. CASE ~session.connect
  <2>1. /\ link["origin"].arrived = 0 /\ link["origin"].examined = 0 /\ link["origin"].sent = 0
        /\ link["client"].sent = 0 /\ link["client"].arrived = 0 /\ link["client"].examined = 0
        /\ "client" \in Sides /\ "origin" \in Sides /\ Sides = {"client", "origin"}
    BY <1>1 DEF Sides, NothingYet
  <2>2. /\ link' \in [Sides -> Positions] /\ bytes_to_analize' \in Nat
        /\ link'["origin"] = link["origin"]
        /\ link'["client"].arrived = k /\ link'["client"].sent = 0
        /\ sniff_enabled => link'["client"].examined = k /\ bytes_to_analize' = 0
    <3>1. CASE sniff_enabled /\ k > 0
      <4>1. Len(Unsent("client", k)) = k
        BY <1>3, <1>5, <2>1, UnsentLength
      <4>2. link' = SniffedTo("client", k, k) /\ bytes_to_analize' = 0
        BY <1>4, <1>5, <1>7, <2>1, <3>1, <4>1 DEF SniffData, AfterSniffing, SniffedTo
      <4>. QED BY <1>3, <1>5, <2>1, <4>2, PositionsSet
    <3>2. CASE ~(sniff_enabled /\ k > 0)
      <4>1. link' = ArrivedTo("client", k) /\ bytes_to_analize' = k
        BY <1>4, <1>7, <3>2 DEF ArrivedTo
      <4>2. sniff_enabled => k = 0
        BY <1>5, <3>2
      <4>3. link'["client"].examined = link["client"].examined
        BY <1>3, <2>1, <4>1 DEF ArrivedTo, Positions
      <4>. QED BY <1>3, <1>5, <2>1, <4>1, <4>2, <4>3, PositionsSet
    <3>. QED BY <3>1, <3>2
  <2>3. Placed
    BY <1>5, <2>1, <2>2
  <2>4. Sniffing' => \A s \in Sides : link'[s].examined = link'[s].arrived
    BY <1>2, <2>1, <2>2 DEF Sniffing
  <2>5. NothingLeft'
    BY <1>2, <2>2 DEF NothingLeft, Sniffing
  <2>6. ExaminedInOrder'
    BY <1>2, <2>1, <2>2, <2>4 DEF ExaminedInOrder
  <2>. QED BY <1>2, <1>3, <2>3, <2>5, <2>6 DEF IInv, Typed, SentArrived, Untouched
<1>. QED BY <1>6, <1>7

\* Sending on leaves nothing sent that has not arrived
LEMMA SendOnOK ==
  ASSUME PortionsMove, IInv, NEW s \in Sides, SendOn(s)
  PROVE  IInv'
<1>1. PICK n \in Portions(link[s].arrived - link[s].sent) :
        link' = [link EXCEPT ![s].sent = @ + n]
  BY DEF SendOn
<1>2. n \in Nat /\ n <= link[s].arrived - link[s].sent
  BY PortionsMove DEF PortionsMove
<1>3. link \in [Sides -> Positions]
  BY DEF IInv, Typed
<1>4. link[s].arrived \in Nat /\ link[s].sent \in Nat /\ link[s].sent <= link[s].arrived
  BY <1>3 DEF Positions, IInv, SentArrived
<1> DEFINE to == link[s].sent + n
<1>5. to \in Nat /\ to <= link[s].arrived
  BY <1>2, <1>4
<1>6. link' = [link EXCEPT ![s].sent = to]
  BY <1>1
<1> HIDE DEF to
<1>7. /\ link' \in [Sides -> Positions] /\ link'[s].sent = to
      /\ \A o \in Sides : link'[o].arrived = link[o].arrived /\ link'[o].examined = link[o].examined
      /\ \A o \in Sides \ {s} : link'[o] = link[o]
  BY <1>3, <1>5, <1>6 DEF Positions
<1>8. SentArrived'
  BY <1>5, <1>7 DEF SentArrived, IInv
<1>9. /\ phase = "connected" /\ phase' = phase /\ session' = session
      /\ sniff_enabled' = sniff_enabled /\ bytes_to_analize' = bytes_to_analize
      /\ sniffer' = sniffer /\ status' = status /\ parsed' = parsed
      /\ crowded' = crowded /\ skewed' = skewed /\ overread' = overread
  BY DEF SendOn, Followed
<1>10. Sniffing' = Sniffing /\ ParsingStatus' = ParsingStatus
  BY <1>9 DEF Sniffing, ParsingStatus
<1>11. ExaminedInOrder'
  BY <1>7, <1>9, <1>10 DEF ExaminedInOrder, IInv, Sides
<1>12. NothingLeft' /\ Untouched'
  BY <1>9, <1>10 DEF NothingLeft, Untouched, IInv
<1>13. Typed'
  BY <1>7, <1>9 DEF Typed, IInv
<1>. QED BY <1>8, <1>11, <1>12, <1>13 DEF IInv

\* What is said moves nothing
LEMMA StillOK ==
  ASSUME IInv, Speak \/ Over \/ UNCHANGED vars
  PROVE  IInv'
<1>1. /\ phase' = phase /\ session' = session /\ link' = link
      /\ sniff_enabled' = sniff_enabled /\ bytes_to_analize' = bytes_to_analize
      /\ sniffer' = sniffer /\ status' = status /\ parsed' = parsed
      /\ crowded' = crowded /\ skewed' = skewed /\ overread' = overread
  BY DEF Speak, Over, vars
<1>2. Sniffing' = Sniffing /\ ParsingStatus' = ParsingStatus
  BY <1>1 DEF Sniffing, ParsingStatus
<1>. QED BY <1>1, <1>2 DEF IInv, Typed, SentArrived, Untouched, NothingLeft, ExaminedInOrder

\* Reading examines one portion
LEMMA ReadStep ==
  ASSUME PortionsMove, IInv, NEW s \in Sides, Read(s)
  PROVE  IInv'
<1>1. PICK n \in Portions(Len(Said(s)) - link[s].arrived) :
        ConnectedOnReadReady(s, link[s].arrived + n, n)
  BY DEF Read
<1>2. n \in Nat \ {0}
  BY PortionsMove DEF PortionsMove
<1> DEFINE upto == link[s].arrived + n
<1>3. upto \in Nat /\ link[s].arrived <= upto
  BY <1>2 DEF IInv, Typed, Positions
<1>4. PICK seen \in Nat : Examined(s, upto, n, seen)
  BY <1>1, <1>2, <1>3, ExaminedIs DEF IInv
<1>5. session' = session /\ sniff_enabled' = sniff_enabled /\ phase' = phase /\ Followed
  BY DEF Read
<1>. QED BY <1>2, <1>4, <1>5, ReadOK

\* So does the end of a stream
LEMMA ReadEndStep ==
  ASSUME IInv, NEW s \in Sides, ReadEnd(s)
  PROVE  IInv'
<1> DEFINE upto == link[s].arrived
<1>1. upto \in Nat /\ link[s].arrived <= upto /\ bytes_to_analize \in Nat
  BY DEF IInv, Typed, Positions
<1>2. PICK seen \in Nat : Examined(s, upto, bytes_to_analize, seen)
  BY <1>1, ExaminedIs DEF IInv, ReadEnd
<1>3. session' = session /\ sniff_enabled' = sniff_enabled /\ phase' = "closing" /\ Followed
  BY DEF ReadEnd
<1>. QED BY <1>2, <1>3, ReadEndOK

\* Every step keeps the inductive invariant
LEMMA NextOK ==
  ASSUME PortionsMove, IInv, [Next]_vars
  PROVE  IInv'
<1>1. CASE RequestLineDone
  BY <1>1, RequestLineDoneOK
<1>2. ASSUME NEW s \in Sides, Read(s) \/ ReadEnd(s) \/ SendOn(s)
      PROVE  IInv'
  BY <1>2, ReadStep, ReadEndStep, SendOnOK
<1>3. CASE Speak \/ Over \/ UNCHANGED vars
  BY <1>3, StillOK
<1>. QED BY <1>1, <1>2, <1>3 DEF Next

\* At the start nothing has arrived
LEMMA InitOK ==
  ASSUME Init
  PROVE  IInv
<1>1. link \in [Sides -> Positions] /\ \A s \in Sides : link[s].sent = 0 /\ link[s].arrived = 0
  BY DEF Init, NothingYet, Positions
<1>2. /\ phase = "parsing" /\ session \in Sessions /\ link = [s \in Sides |-> NothingYet]
      /\ bytes_to_analize = 0 /\ parsed = 0 /\ skewed = FALSE /\ crowded = FALSE
      /\ overread = FALSE
  BY DEF Init
<1>3. Typed
  BY <1>1, <1>2 DEF Typed
<1>4. SentArrived /\ Untouched /\ NothingLeft /\ ExaminedInOrder
  BY <1>1, <1>2 DEF SentArrived, Untouched, NothingLeft, ExaminedInOrder
<1>. QED BY <1>3, <1>4 DEF IInv

-----------------------------------------------------------------------------
(* The log *)

\* What is in the log is what the parsers have come to: the credentials the sniffer
\* keeps, once it is done, and the response, once its status line has been read
LogFollows ==
  /\ logged.passwords = IF sniffer.state = "done" THEN <<Credentials(sniffer)>> ELSE <<>>
  /\ logged.access = IF status.state = "field_name" THEN 1 ELSE 0

Fresh ==
  phase = "parsing" =>
    /\ sniffer = SnifferInit /\ status = At("version", 0)
    /\ logged = [passwords |-> <<>>, access |-> 0]

LogInv == LogFollows /\ Fresh

\* An examination logs what it has brought to an end, and nothing that was at its end
LEMMA ExaminationLogs ==
  ASSUME LogFollows, NEW s, NEW upto, NEW count, ConnectedOnReadReady(s, upto, count)
  PROVE  LogFollows'
<1>1. logged'.passwords = IF Sniffing /\ sniffer'.state = "done"
                            THEN Append(logged.passwords, Credentials(sniffer'))
                            ELSE logged.passwords
  BY DEF ConnectedOnReadReady
<1>2. logged'.access = IF ParsingStatus /\ status'.state = "field_name"
                         THEN logged.access + 1 ELSE logged.access
  BY DEF ConnectedOnReadReady
<1>3. logged'.passwords = IF sniffer'.state = "done" THEN <<Credentials(sniffer')>> ELSE <<>>
  <2>1. CASE Sniffing
    <3>1. logged.passwords = <<>>
      BY <2>1 DEF LogFollows, Sniffing, Ends
    <3>2. \A c : Append(<<>>, c) = <<c>>
      OBVIOUS
    <3>. QED BY <1>1, <2>1, <3>1, <3>2
  <2>2. CASE ~Sniffing
    <3>1. sniffer' = sniffer /\ logged'.passwords = logged.passwords
      BY <1>1, <2>2 DEF ConnectedOnReadReady
    <3>2. Credentials(sniffer') = Credentials(sniffer)
      BY <3>1 DEF Credentials
    <3>. QED BY <3>1, <3>2 DEF LogFollows
  <2>. QED BY <2>1, <2>2
<1>4. logged'.access = IF status'.state = "field_name" THEN 1 ELSE 0
  <2>1. CASE ParsingStatus
    <3>1. logged.access = 0
      BY <2>1 DEF LogFollows, ParsingStatus, StatusEnds
    <3>. QED BY <1>2, <2>1, <3>1
  <2>2. CASE ~ParsingStatus
    <3>1. status' = status
      BY <2>2 DEF ConnectedOnReadReady, ParseStatus
    <3>. QED BY <1>2, <2>2, <3>1 DEF LogFollows
  <2>. QED BY <2>1, <2>2
<1>. QED BY <1>3, <1>4 DEF LogFollows

\* The end of the request line logs what its opening has brought to an end
LEMMA RequestLineLogs ==
  ASSUME LogInv, RequestLineDone
  PROVE  LogInv'
<1>1. /\ sniffer = SnifferInit /\ status = At("version", 0)
      /\ logged = [passwords |-> <<>>, access |-> 0]
      /\ phase' = "connected" /\ status' = status
  BY DEF LogInv, Fresh, RequestLineDone
<1>2. status'.state # "field_name"
  BY <1>1 DEF At
<1>3. PICK k \in 0 .. Len(session.opening) :
        IF session.connect THEN UNCHANGED <<sniffer, logged>>
        ELSE IF sniff_enabled /\ k > 0
          THEN logged' = [logged EXCEPT !.passwords =
                            IF sniffer'.state = "done" THEN <<Credentials(sniffer')>> ELSE @]
          ELSE sniffer' = AfterRequestLine(sniffer) /\ UNCHANGED logged
  BY DEF RequestLineDone
<1>4. SnifferInit.state # "done" /\ AfterRequestLine(SnifferInit).state # "done"
  BY DEF SnifferInit, AfterRequestLine, Look
<1>5. LogFollows'
  <2>1. CASE session.connect
    BY <1>1, <1>2, <1>3, <1>4, <2>1 DEF LogFollows
  <2>2. CASE ~session.connect /\ sniff_enabled /\ k > 0
    <3>1. logged' = [logged EXCEPT !.passwords =
                       IF sniffer'.state = "done" THEN <<Credentials(sniffer')>> ELSE @]
      BY <1>3, <2>2
    <3>2. /\ logged'.passwords = IF sniffer'.state = "done" THEN <<Credentials(sniffer')>> ELSE <<>>
          /\ logged'.access = 0
      BY <1>1, <3>1
    <3>. QED BY <1>2, <3>2 DEF LogFollows
  <2>3. CASE ~session.connect /\ ~(sniff_enabled /\ k > 0)
    BY <1>1, <1>2, <1>3, <1>4, <2>3 DEF LogFollows
  <2>. QED BY <2>1, <2>2, <2>3
<1>. QED BY <1>1, <1>5 DEF LogInv, Fresh

\* Every step
LEMMA NextLogs ==
  ASSUME LogInv, [Next]_vars
  PROVE  LogInv'
<1>1. CASE RequestLineDone
  BY <1>1, RequestLineLogs
<1>2. ASSUME NEW s \in Sides, Read(s)
      PROVE  LogInv'
  <2>1. phase' = "connected"
    BY <1>2 DEF Read, Followed
  <2>2. PICK n : ConnectedOnReadReady(s, link[s].arrived + n, n)
    BY <1>2 DEF Read
  <2>3. LogFollows'
    BY <2>2, ExaminationLogs DEF LogInv
  <2>. QED BY <2>1, <2>3 DEF LogInv, Fresh
<1>3. ASSUME NEW s \in Sides, ReadEnd(s)
      PROVE  LogInv'
  <2>1. phase' = "closing" /\ ConnectedOnReadReady(s, link[s].arrived, bytes_to_analize)
    BY <1>3 DEF ReadEnd
  <2>2. LogFollows'
    BY <2>1, ExaminationLogs DEF LogInv
  <2>. QED BY <2>1, <2>2 DEF LogInv, Fresh
<1>4. CASE Speak \/ (\E s \in Sides : SendOn(s)) \/ Over \/ UNCHANGED vars
  <2>1. phase' = phase /\ sniffer' = sniffer /\ status' = status /\ logged' = logged
    BY <1>4 DEF Speak, SendOn, Over, vars
  <2>2. Credentials(sniffer') = Credentials(sniffer)
    BY <2>1 DEF Credentials
  <2>. QED BY <2>1, <2>2 DEF LogInv, LogFollows, Fresh
<1>. QED BY <1>1, <1>2, <1>3, <1>4 DEF Next

-----------------------------------------------------------------------------
(* The theorems *)

\* connected_on_read_ready and sniff_data keep the positions of what has arrived, was sent on
\* and was examined in step, over every session and however it is cut into reads and sends.
THEOREM PositionsInvariant ==
  ASSUME PortionsMove
  PROVE  Spec => []IInv
<1>1. Init => IInv
  BY InitOK
<1>2. IInv /\ [Next]_vars => IInv'
  BY NextOK
<1>. QED BY <1>1, <1>2, PTL DEF Spec

\* Bytes are examined once and in order as long as nothing is read behind bytes that wait to
\* be sent, and the status line is looked for behind the last byte read only when nobody sniffs.
THEOREM ExaminedOnce ==
  ASSUME PortionsMove
  PROVE  Spec => []ExaminedInOrder
<1>1. IInv => ExaminedInOrder
  BY DEF IInv
<1>. QED BY <1>1, PositionsInvariant, PTL

\* log_user_and_password and log_new_connection: whatever is said, and even when an
\* examination went astray, credentials and a response are logged once at most, at the
\* moment the parser comes to its end, and the credentials logged are those it has kept.
THEOREM LoggedOnce == Spec => []LogFollows
<1>1. Init => LogInv
  BY DEF Init, LogInv, LogFollows, Fresh, SnifferInit, At
<1>2. LogInv /\ [Next]_vars => LogInv'
  BY NextLogs
<1>3. LogInv => LogFollows
  BY DEF LogInv
<1>. QED BY <1>1, <1>2, <1>3, PTL DEF Spec
=============================================================================
