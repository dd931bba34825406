------------------------------ MODULE Sniffer ------------------------------
(***************************************************************************)
(* What the proxy makes of the bytes it relays: the credentials the        *)
(* sniffer finds and the status line of the response.  Both are looked for *)
(* in bytes_to_analize bytes from a buffer's read pointer on, which is     *)
(* where the unsent bytes begin, not those that have just been read.       *)
(*                                                                         *)
(* A session fixes what is said: the rest of the client's message behind   *)
(* its request line, the opening, and then turns.  A side speaks in its    *)
(* turn, once it has got all that the other one said; how much of it a     *)
(* read or a send moves is open.                                           *)
(*                                                                         *)
(* The operators commented "Mutant" are plausible bugs that nothing uses.  *)
(***************************************************************************)
EXTENDS SnifferParser, HeadParsers
LOCAL INSTANCE SequencesExt

\* [connect, port, opening, turns, login]: login is what the client asks for and
\* the server grants
CONSTANTS Sessions, NoLogin

\* Of n bytes that could be moved, how many a read or a send may move
CONSTANT Portions(_)

VARIABLES
  session,
  turn,               \* the turns that have begun
  cut,                \* a tunnel's opening did not arrive whole with the request line
  phase,              \* "parsing", "connected" or "closing"
  sniff_enabled,
  link,               \* side -> how much of what it says has arrived, was sent on, was
                      \* examined by the sniffer
  bytes_to_analize,   \* one for both sides
  sniffer,
  status,             \* the parser of the status line
  parsed,             \* how much of what the origin says it has got
  logged,             \* the credentials and the responses in the log
  crowded,            \* something was read behind bytes that were not sent yet
  skewed,             \* an examination did not begin where the last one ended
  overread            \* the status line was looked for behind the last byte read

vars == <<session, turn, cut, phase, sniff_enabled, link, bytes_to_analize, sniffer, status, parsed,
          logged, crowded, skewed, overread>>

Sides == {"client", "origin"}
Other(s) == IF s = "client" THEN "origin" ELSE "client"

\* What try_connection_ip puts into the buffer of the origin's bytes
Established == Chars("HTTP/1.0 200 OK\r\n\r\n")

\* Texts have lengths, which the prover does not know of strings
ASSUME TextsAssumption ==
  /\ Len(Established) \in Nat
  /\ \A s \in Sessions : Len(s.opening) \in Nat

Texts(from, turns) ==
  FlattenSeq([i \in DOMAIN turns |-> IF turns[i].from = from THEN Chars(turns[i].text) ELSE <<>>])

\* What a side has said so far, in front of the origin's words the proxy's own
Said(s) ==
  LET spoken == Texts(s, SubSeq(session.turns, 1, turn)) IN
  CASE s = "client" -> Chars(session.opening) \o spoken
    [] s = "origin" /\ session.connect -> Established \o spoken
    [] s = "origin" /\ ~session.connect -> spoken

Unsent(s, upto) == SubSeq(Said(s), link[s].sent + 1, upto)

-----------------------------------------------------------------------------
(* Examining *)

Sniffing == sniff_enabled /\ sniffer.state \notin Ends

\* The status line's parser ends in front of the first header
StatusEnds == {"field_name", "error"}
ParsingStatus == ~session.connect /\ status.state \notin StatusEnds

Class(c) ==
  CASE c \in {"H", "T", "P", ".", ":", "/", " "} -> c
    [] c \in Range(Chars("0123456789")) -> "digit"
    [] c = "\r" -> "CR"
    [] c = "\n" -> "LF"
    [] c \in (Range(HighAscii) \ {"{", "|", "}", "~"}) \union (Range(Capitals) \ {"H", "T", "P"}) -> "letter"
    [] OTHER -> "other"

StatusAfter(p, text) ==
  FoldLeft(LAMBDA q, c : IF q.state \in StatusEnds THEN q ELSE StatusLineFeed(q, Class(c)), p, text)

SnifferAfter(p, text, owner) ==
  FoldLeft(LAMBDA q, c : IF q.state \in Ends THEN q ELSE SnifferFeed(q, c, owner, session.port), p, text)

Credentials(p) == [protocol |-> p.protocol, user |-> p.user, password |-> p.password]

\* Mutant: the count is left for whoever asks next
AfterSniffing_Kept(count) == count

\* sniff_data leaves nothing to analyse
AfterSniffing(count) == 0

\* sniff_data, of a side's bytes that are not sent yet.  from is the parser.
SniffData(from, s, upto, count) ==
  LET data == Unsent(s, upto)
      looked == IF count < Len(data) THEN count ELSE Len(data)
  IN /\ sniffer' = SnifferAfter(from, SubSeq(data, 1, looked), s)
     /\ link' = [link EXCEPT ![s].arrived = upto, ![s].examined = link[s].sent + looked]
     /\ bytes_to_analize' = AfterSniffing(looked)

SniffsAside(s, upto, count) ==
  Sniffing /\ count > 0 /\ upto > link[s].sent /\ link[s].sent # link[s].examined

\* The loop over the status line is not limited to the bytes there are: behind
\* them is what earlier uses of the buffer left, the start of a response or not
ParseStatus(s, upto, count) ==
  LET data == Unsent("origin", upto)
      looked == IF count < Len(data) THEN count ELSE Len(data)
      line == StatusAfter(status, SubSeq(data, 1, looked))
      beyond == count > Len(data) /\ line.state \notin StatusEnds
  IN IF s = "origin" /\ ParsingStatus
       THEN /\ status' \in IF beyond THEN {line, At("field_name", 0), Bad} ELSE {line}
            /\ overread' = beyond
            /\ parsed' = link[s].sent + looked
            /\ skewed' = (skewed \/ SniffsAside(s, upto, count)
                                 \/ (looked > 0 /\ link[s].sent # parsed))
       ELSE /\ skewed' = (skewed \/ SniffsAside(s, upto, count))
            /\ UNCHANGED <<status, overread, parsed>>

\* connected_on_read_ready, after a read of a side that left it upto bytes arrived
ConnectedOnReadReady(s, upto, count) ==
  /\ ParseStatus(s, upto, count)
  /\ IF Sniffing THEN SniffData(sniffer, s, upto, count)
     ELSE /\ link' = [link EXCEPT ![s].arrived = upto]
          /\ bytes_to_analize' = count
          /\ UNCHANGED sniffer
  /\ logged' = [passwords |-> IF Sniffing /\ sniffer'.state = "done"
                                THEN Append(logged.passwords, Credentials(sniffer'))
                                ELSE logged.passwords,
                access |-> IF ParsingStatus /\ status'.state = "field_name"
                             THEN logged.access + 1 ELSE logged.access]
  /\ crowded' = (crowded \/ link[s].arrived > link[s].sent)

-----------------------------------------------------------------------------
(* The connection.  Of what follows an examination that went astray nothing  *)
(* is claimed, and it is not modelled.                                      *)

\* The end of parsing_host_on_read_ready, with the first characters of the opening
\* read along with the request line.  A tunnel's are thrown away, but not their
\* number, and its end is announced; the others are sniffed at once.
RequestLineDone ==
  /\ phase = "parsing"
  /\ phase' = "connected"
  /\ \E k \in 0 .. Len(session.opening) :
       /\ cut' = (session.connect /\ k < Len(session.opening))
       /\ IF session.connect
            THEN /\ link' = [client |-> [arrived |-> k, sent |-> k, examined |-> k],
                             origin |-> [arrived |-> Len(Established), sent |-> 0,
                                         examined |-> Len(Established)]]
                 /\ bytes_to_analize' = k
                 /\ UNCHANGED <<sniffer, logged>>
            ELSE IF sniff_enabled /\ k > 0
            THEN /\ SniffData(AfterRequestLine(sniffer), "client", k, k)
                 /\ logged' = [logged EXCEPT !.passwords =
                                 IF sniffer'.state = "done" THEN <<Credentials(sniffer')>> ELSE @]
            ELSE /\ sniffer' = AfterRequestLine(sniffer)
                 /\ link' = [link EXCEPT !.client.arrived = k]
                 /\ bytes_to_analize' = k
                 /\ UNCHANGED logged
  /\ UNCHANGED <<session, turn, sniff_enabled, status, parsed, crowded, skewed, overread>>

Followed == phase = "connected" /\ ~skewed

\* A server at the end of a tunnel may greet before the client is told of it
Speak ==
  /\ Followed
  /\ turn < Len(session.turns)
  /\ LET s == session.turns[turn + 1].from IN
       \/ link[Other(s)].sent = Len(Said(Other(s)))
       \/ turn = 0 /\ session.connect /\ s = "origin"
  /\ turn' = turn + 1
  /\ UNCHANGED <<session, cut, phase, sniff_enabled, link, bytes_to_analize, sniffer, status, parsed,
                 logged, crowded, skewed, overread>>

\* proxy_client_read and proxy_origin_read of some bytes
Read(s) ==
  /\ Followed
  /\ \E n \in Portions(Len(Said(s)) - link[s].arrived) :
       ConnectedOnReadReady(s, link[s].arrived + n, n)
  /\ UNCHANGED <<session, turn, cut, phase, sniff_enabled>>

\* The end of a side's stream, with bytes_to_analize as it was.  In CLOSING
\* nothing is examined any more.
ReadEnd(s) ==
  /\ Followed
  /\ ConnectedOnReadReady(s, link[s].arrived, bytes_to_analize)
  /\ phase' = "closing"
  /\ UNCHANGED <<session, turn, cut, sniff_enabled>>

\* proxy_client_write and proxy_origin_write
SendOn(s) ==
  /\ Followed
  /\ \E n \in Portions(link[s].arrived - link[s].sent) : link' = [link EXCEPT ![s].sent = @ + n]
  /\ UNCHANGED <<session, turn, cut, phase, sniff_enabled, bytes_to_analize, sniffer, status, parsed,
                 logged, crowded, skewed, overread>>

Over == (phase = "closing" \/ skewed) /\ UNCHANGED vars

NothingYet == [arrived |-> 0, sent |-> 0, examined |-> 0]

\* parsing_request_line_on_arrival and init_http_response
Init ==
  /\ session \in Sessions
  /\ turn = 0
  /\ cut = FALSE
  /\ phase = "parsing"
  /\ sniff_enabled \in BOOLEAN
  /\ link = [s \in Sides |-> NothingYet]
  /\ bytes_to_analize = 0
  /\ sniffer = SnifferInit
  /\ status = At("version", 0)
  /\ parsed = 0
  /\ logged = [passwords |-> <<>>, access |-> 0]
  /\ crowded = FALSE /\ skewed = FALSE /\ overread = FALSE

Next ==
  \/ RequestLineDone
  \/ Speak
  \/ \E s \in Sides : Read(s) \/ ReadEnd(s) \/ SendOn(s)
  \/ Over

Spec == Init /\ [][Next]_vars

-----------------------------------------------------------------------------
(* Properties *)

\* sniff_data and connected_on_read_ready: as long as nothing is read behind bytes
\* that wait to be sent, each byte is examined once and in order, by the sniffer
\* until it is done and by the status line's parser until that is.  Behind the
\* last byte that was read nothing is looked for while the sniffer is at work,
\* since that leaves no count behind.
ExaminedInOrder ==
  /\ skewed => crowded
  /\ overread => ~Sniffing
  /\ phase = "connected" /\ ~skewed =>
       /\ Sniffing => \A s \in Sides : link[s].examined = link[s].arrived
       /\ ParsingStatus => parsed = link["origin"].arrived

\* The credentials as they are kept.  A Basic text without a colon names no user,
\* and what is kept as its password is not its.
Kept(login) ==
  IF login.protocol = "POP3"
    THEN [protocol |-> "POP3", user |-> Chars(login.user), password |-> Chars(login.password)]
    ELSE LET text == Chars(login.text)
             colon == CHOOSE i \in 1 .. Len(text) + 1 : i \in Colons(text) \/ Colons(text) = {}
         IN IF Colons(text) = {}
              THEN [protocol |-> "HTTP", user |-> <<>>, password |-> Unknown]
              ELSE [protocol |-> "HTTP",
                    user |-> AtMost(MaxUserLength, SubSeq(text, 1, colon - 1)),
                    password |-> AtMost(MaxPasswordLength, SubSeq(text, colon + 1, Len(text)))]

Count(c, text) == Len(SelectSeq(Chars(text), LAMBDA d : d = c))

\* What the sniffer cannot follow: a command sent before the answer to the last
\* one, a login after one that failed, a name or a Basic value as long as its
\* limit, and the end of a CONNECT's head when it is read after its request line.
Followable ==
  /\ ~cut
  /\ session.login.protocol = "HTTP" =>
       4 * ((Len(session.login.text) + 2) \div 3) < MaxAuthValueLength
  /\ session.login.protocol = "POP3" =>
       /\ Len(session.login.user) < MaxUserLength
       /\ Len(session.login.password) < MaxPasswordLength
       /\ \A i \in DOMAIN session.turns :
            LET text == session.turns[i].text IN
            /\ Count("\n", text) = 1
            /\ session.turns[i].from = "origin" => Count("-", text) = 0

AllArrived ==
  /\ turn = Len(session.turns)
  /\ \A s \in Sides : link[s].arrived = Len(Said(s))

\* log_user_and_password and log_new_connection: unless an examination went astray,
\* the log has no other credentials than those the server accepted, and once; it
\* has them by the time all has been read, if sniffing is enabled and the login is
\* one the sniffer can follow; and it has the response as soon as its status line
\* is there.
LoggedAsSaid ==
  ~skewed =>
    /\ logged.passwords # <<>> =>
         session.login # NoLogin /\ logged.passwords = <<Kept(session.login)>>
    /\ phase = "connected" /\ sniff_enabled /\ AllArrived /\ session.login # NoLogin /\ Followable =>
         logged.passwords # <<>>
    /\ ~overread =>
         logged.access = IF "\n" \in Range(SubSeq(Said("origin"), 1, parsed)) /\ ~session.connect
                           THEN 1 ELSE 0
=============================================================================
