---------------------------- MODULE RequestLine ----------------------------
(***************************************************************************)
(* The request line: what parsing_host_on_read_ready makes of it, one      *)
(* character at a time, up to connection_request.                          *)
(*                                                                         *)
(* The client says the parts of a line one after the other, each any of    *)
(* the texts of its kind, good or not, and may stop after any character.   *)
(* That a read may end anywhere is that Feed may stop anywhere.            *)
(*                                                                         *)
(* The operators commented "Mutant" are plausible bugs that nothing uses.  *)
(***************************************************************************)
EXTENDS Integers, Sequences

CONSTANTS
  Texts,             \* part -> the texts the client may give it, as sequences of characters
  Ipv4Literals,      \* what inet_pton() takes for an address
  Ipv6Literals,
  MaxMethodLength,   \* 24
  MaxFqdnLength,     \* 255
  MaxOriginForm      \* 1024

MaxPortLength == 5
PortModulus == 65536

Parts == {"method", "scheme", "host", "port", "path", "version", "major", "minor", "end"}

VARIABLES
  said,      \* the parts of the line the client has begun
  rest,      \* what it has still to send of the last one
  line,      \* request_parser_t and the request_line it fills
  request    \* connection_request

lineVars == <<said, rest, line, request>>

Connect == <<"C", "O", "N", "N", "E", "C", "T">>
Options == <<"O", "P", "T", "I", "O", "N", "S">>
HttpScheme == <<"h", "t", "t", "p", ":", "/", "/">>
HttpVersion == <<"H", "T", "T", "P", "/">>

Digits == <<"0", "1", "2", "3", "4", "5", "6", "7", "8", "9">>
Digit == {Digits[n] : n \in 1 .. 10}
Value(c) == (CHOOSE n \in 1 .. 10 : Digits[n] = c) - 1

EndOfAuthority == {"/", "#", "?"}
\* IS_TOKEN, without the grave accent, which a TLA+ string cannot hold
TokenChar ==
  Digit \union
  {"!", "#", "$", "%", "&", "'", "*", "+", "-", ".", "^", "_", "|", "~",
   "A", "B", "C", "D", "E", "F", "G", "H", "I", "J", "K", "L", "M",
   "N", "O", "P", "Q", "R", "S", "T", "U", "V", "W", "X", "Y", "Z",
   "a", "b", "c", "d", "e", "f", "g", "h", "i", "j", "k", "l", "m",
   "n", "o", "p", "q", "r", "s", "t", "u", "v", "w", "x", "y", "z"}

\* htons() and ntohs() on a little-endian machine
Swapped(port) == (port % 256) * 256 + port \div 256

-----------------------------------------------------------------------------
(* request_parser_feed.  i counts the characters of the present field.      *)

To(p, state) == [p EXCEPT !.state = state, !.i = 0]

\* A character that belongs to the field, of at most max characters
Take(p, field, c) == [p EXCEPT ![field] = Append(@, c), !.i = @ + 1]

MethodFeed(p, c) ==
  CASE p.i < MaxMethodLength /\ c \in TokenChar -> Take(p, "method", c)
    [] p.i < MaxMethodLength /\ c = " " ->
         To(p, IF p.method = Connect THEN "target_host" ELSE "target_scheme")
    [] OTHER -> To(p, "error_unsupported_method")

SchemeFeed(p, c) ==
  CASE c # HttpScheme[p.i + 1] -> To(p, "error")
    [] c = HttpScheme[p.i + 1] /\ p.i + 1 = Len(HttpScheme) -> To(p, "target_host")
    [] OTHER -> [p EXCEPT !.i = @ + 1]

\* Without a path the origin form is "/", except for OPTIONS
NoPath(p) ==
  IF p.method = Options THEN To(p, "version")
  ELSE [To(p, "version") EXCEPT !.origin_form = <<"/">>]

\* The first character after the host or the port
AuthorityEnds(p, c) ==
  IF c = " " THEN NoPath(p) ELSE Take(To(p, "target_ogform"), "origin_form", c)

HostEnds(p, c) ==
  LET known == [p EXCEPT !.port = Swapped(80)] IN
  IF c = ":" THEN To(known, "target_port") ELSE AuthorityEnds(known, c)

\* parse_ipv4: a name is no error
NamedHostFeed(p, c) ==
  IF c \in EndOfAuthority \union {":", " "}
    THEN HostEnds([p EXCEPT !.host_type = IF p.host \in Ipv4Literals THEN "ipv4" ELSE "domain"], c)
    ELSE Take(p, "host", c)

\* The last character before the end is taken for the bracket, whatever it is.
\* With none the byte in front of domain is read, or cleared: it belongs to
\* host_type, it is 0, and what follows is as if nothing were there.
BracketedHostFeed(p, c) ==
  LET closed == p.host # <<>> /\ p.host[Len(p.host)] = "]"
      literal == SubSeq(p.host, 1, Len(p.host) - 1)
  IN CASE c \in EndOfAuthority \union {" "} \/ (c = ":" /\ closed) ->
            IF literal \in Ipv6Literals THEN HostEnds([p EXCEPT !.host = literal], c)
            ELSE To(p, "error")
       [] OTHER -> Take(p, "host", c)

\* A first '[' is not kept, so several are as good as one
HostFeed(p, c) ==
  CASE p.i >= MaxFqdnLength -> To(p, "error")
    [] p.i < MaxFqdnLength /\ p.i = 0 /\ c = "[" -> [p EXCEPT !.host_type = "ipv6"]
    [] p.i < MaxFqdnLength /\ ~(p.i = 0 /\ c = "[") /\ p.host_type = "ipv6" ->
         BracketedHostFeed(p, c)
    [] OTHER -> NamedHostFeed(p, c)

\* Mutant: digits are added to the port that is there already
PortFeed_KeepsDefault(p, c) ==
  CASE p.i >= MaxPortLength -> To(p, "error")
    [] p.i < MaxPortLength /\ c \in EndOfAuthority \union {" "} ->
         AuthorityEnds([p EXCEPT !.port = Swapped(@)], c)
    [] p.i < MaxPortLength /\ c \in Digit ->
         [p EXCEPT !.i = @ + 1, !.port = (@ * 10 + Value(c)) % PortModulus]
    [] OTHER -> To(p, "error")

\* The limit is looked at before the character: after five digits even the end
\* is too much.  Without a digit the port is the 80 of HostEnds, swapped again.
PortFeed(p, c) ==
  CASE p.i >= MaxPortLength -> To(p, "error")
    [] p.i < MaxPortLength /\ c \in EndOfAuthority \union {" "} ->
         AuthorityEnds([p EXCEPT !.port = Swapped(@)], c)
    [] p.i < MaxPortLength /\ c \in Digit ->
         [p EXCEPT !.i = @ + 1,
                   !.port = ((IF p.i = 0 THEN 0 ELSE @ * 10) + Value(c)) % PortModulus]
    [] OTHER -> To(p, "error")

OriginFormFeed(p, c) ==
  CASE p.i >= MaxOriginForm -> To(p, "error")
    [] p.i < MaxOriginForm /\ c = " " -> To(p, "version")
    [] OTHER -> Take(p, "origin_form", c)

VersionFeed(p, c) ==
  CASE c # HttpVersion[p.i + 1] -> To(p, "error")
    [] c = HttpVersion[p.i + 1] /\ c = "/" -> To(p, "version_major")
    [] OTHER -> [p EXCEPT !.i = @ + 1]

\* Mutant: a number may have as many digits as there are
NumberFeed_Unlimited(p, c, end, next) ==
  CASE c = end -> To(p, next)
    [] c # end /\ c \in Digit -> [p EXCEPT !.i = @ + 1]
    [] OTHER -> To(p, "error")

\* The limit of two is looked at first: a number has one digit or none
NumberFeed(p, c, end, next) ==
  CASE p.i >= 2 -> To(p, "error_unsupported_version")
    [] p.i < 2 /\ c = end -> To(p, next)
    [] p.i < 2 /\ c \in Digit -> [p EXCEPT !.i = @ + 1]
    [] OTHER -> To(p, "error")

LineFeed(p, c) ==
  CASE p.state = "method" -> MethodFeed(p, c)
    [] p.state = "target_scheme" -> SchemeFeed(p, c)
    [] p.state = "target_host" -> HostFeed(p, c)
    [] p.state = "target_port" -> PortFeed(p, c)
    [] p.state = "target_ogform" -> OriginFormFeed(p, c)
    [] p.state = "version" -> VersionFeed(p, c)
    [] p.state = "version_major" -> NumberFeed(p, c, ".", "version_minor")
    [] p.state = "version_minor" -> NumberFeed(p, c, "\r", "end")
    [] p.state = "end" -> To(p, IF c = "\n" THEN "done" ELSE "error")

\* check_request_line_error
ErrorOf(state) ==
  CASE state = "error_unsupported_method" -> 501
    [] state = "error_unsupported_version" -> 505
    [] state = "error" -> 400
    [] OTHER -> 0

\* What is kept of the line: the path of the rewritten request line is "*" for
\* an OPTIONS without one
BuildConnectionRequest(p) ==
  [connect |-> p.method = Connect,
   method |-> p.method,
   path |-> IF p.method = Options /\ p.origin_form = <<>> THEN <<"*">> ELSE p.origin_form,
   host_type |-> p.host_type,
   host |-> p.host,
   port |-> Swapped(p.port)]

-----------------------------------------------------------------------------
(* The client and the state PARSING_REQUEST_LINE *)

\* A part as it is sent: with the character that must end it, or with what sets
\* it off from the host
Written(part, text) ==
  CASE part = "method" -> Append(text, " ")
    [] part = "port" -> <<":">> \o text
    [] part = "version" -> <<" ">> \o text
    [] part = "major" -> Append(text, ".")
    [] part = "minor" -> Append(text, "\r")
    [] OTHER -> text

Bracketed(text) == text # <<>> /\ Head(text) = "["

Without(text, characters) == \A i \in DOMAIN text : text[i] \notin characters

\* The word, or something that differs from it before either ends
InPlaceOf(text, word) ==
  text = word \/ \E i \in 1 .. Len(word) : i <= Len(text) /\ text[i] # word[i]

\* Any line can be taken apart like this: a text ends before the character that
\* ends its part, and at the latest where the word that is expected has ended
TakenApart ==
  /\ \A text \in Texts["method"] : Without(text, {" "})
  /\ \A text \in Texts["scheme"] : InPlaceOf(text, HttpScheme)
  /\ \A text \in Texts["host"] :
       /\ Without(text, EndOfAuthority \union {" "})
       /\ \A i \in DOMAIN text : text[i] = ":" => Bracketed(text) /\ text[i - 1] # "]"
  /\ \A text \in Texts["port"] : Without(text, EndOfAuthority \union {" "})
  /\ \A text \in Texts["path"] :
       text # <<>> /\ Head(text) \in EndOfAuthority /\ Without(text, {" "})
  /\ \A text \in Texts["version"] : InPlaceOf(text, HttpVersion)
  /\ \A text \in Texts["major"] : Without(text, {"."})
  /\ \A text \in Texts["minor"] : Without(text, {"\r"})
  /\ \A text \in Texts["end"] : Len(text) = 1

ASSUME LineAssumption ==
  /\ MaxMethodLength \in Nat /\ MaxFqdnLength \in Nat /\ MaxOriginForm \in Nat \ {0}
  /\ TakenApart

\* The part that has been begun last
Present == said[Len(said)]

\* The parts that may come next.  A colon after a bracket that was not closed is
\* one of the literal's, so it sets off no port.
Follows(last) ==
  CASE last.part = "method" -> {IF last.text = Connect THEN "host" ELSE "scheme"}
    [] last.part = "scheme" -> {"host"}
    [] last.part = "host" ->
         {"path", "version"} \union
           IF Bracketed(last.text) /\ last.text[Len(last.text)] # "]" THEN {} ELSE {"port"}
    [] last.part = "port" -> {"path", "version"}
    [] last.part = "path" -> {"version"}
    [] last.part = "version" -> {"major"}
    [] last.part = "major" -> {"minor"}
    [] last.part = "minor" -> {"end"}
    [] last.part = "end" -> {}

Following == IF said = <<>> THEN {"method"} ELSE Follows(Present)

ClientSays ==
  /\ rest = <<>>
  /\ line.state # "done" /\ ErrorOf(line.state) = 0
  /\ \E part \in Following : \E text \in Texts[part] :
       /\ said' = Append(said, [part |-> part, text |-> text])
       /\ rest' = Written(part, text)
  /\ UNCHANGED <<line, request>>

\* One iteration of parsing_host_on_read_ready, which leaves at an error and,
\* when a socket to the host or the resolver could be opened, keeps the request
FeedLine ==
  /\ rest # <<>>
  /\ line.state # "done" /\ ErrorOf(line.state) = 0
  /\ rest' = Tail(rest)
  /\ line' = LineFeed(line, Head(rest))
  /\ request' = IF line'.state = "done" THEN BuildConnectionRequest(line') ELSE request
  /\ UNCHANGED said

NewLine ==
  [state |-> "method", i |-> 0, method |-> <<>>, host_type |-> "domain", host |-> <<>>,
   port |-> 0, origin_form |-> <<>>]

NoRequest ==
  [connect |-> FALSE, method |-> <<>>, path |-> <<>>, host_type |-> "domain", host |-> <<>>,
   port |-> 0]

LineInit ==
  /\ said = <<>>
  /\ rest = <<>>
  /\ line = NewLine
  /\ request = NoRequest

-----------------------------------------------------------------------------
(* What a line means, by its parts *)

\* What follows the brackets in front of a literal, as many as there are
InBrackets(text) ==
  LET first == CHOOSE i \in 1 .. Len(text) + 1 :
                 /\ i <= Len(text) => text[i] # "["
                 /\ \A j \in 1 .. i - 1 : text[j] = "["
  IN SubSeq(text, first, Len(text))

Literal(text) == LET inner == InBrackets(text) IN SubSeq(inner, 1, Len(inner) - 1)

AllDigits(text) == \A i \in DOMAIN text : text[i] \in Digit

Number(text) ==
  LET value[n \in 0 .. Len(text)] ==
        IF n = 0 THEN 0 ELSE value[n - 1] * 10 + Value(text[n])
  IN value[Len(text)]

\* A version number is one digit.  Of more digits it is a version of another form.
NumberFault(text) ==
  CASE AllDigits(text) /\ Len(text) = 1 -> 0
    [] text = <<>> \/ \E i \in DOMAIN text : i <= 2 /\ text[i] \notin Digit -> 400
    [] OTHER -> 505

\* The error a part calls for by the grammar and the limits that
\* request_line_parser.h states (lines 6-54, 71, 91), 0 for a good one: a method
\* is a token, a literal stands between two brackets, a port is at most 65535.
\* The array of a path is MaxOriginForm long with its end, the others are longer
\* by one than their limits.
Fault(said_part) ==
  LET text == said_part.text
      malformed(bad) == IF bad THEN 400 ELSE 0
  IN CASE said_part.part = "method" ->
            IF /\ text # <<>> /\ Len(text) <= MaxMethodLength
               /\ \A i \in DOMAIN text : text[i] \in TokenChar
              THEN 0 ELSE 501
       [] said_part.part = "scheme" -> malformed(text # HttpScheme)
       [] said_part.part = "host" /\ ~Bracketed(text) -> malformed(Len(text) > MaxFqdnLength)
       [] said_part.part = "host" /\ Bracketed(text) ->
            malformed(\/ Literal(text) \notin Ipv6Literals
                      \/ text # <<"[">> \o Literal(text) \o <<"]">>
                      \/ Len(InBrackets(text)) > MaxFqdnLength)
       [] said_part.part = "port" ->
            malformed(~AllDigits(text) \/ Len(text) > MaxPortLength \/ Number(text) >= PortModulus)
       [] said_part.part = "path" -> malformed(Len(text) >= MaxOriginForm)
       [] said_part.part = "version" -> malformed(text # HttpVersion)
       [] said_part.part \in {"major", "minor"} -> NumberFault(text)
       [] said_part.part = "end" -> malformed(text # <<"\n">>)

\* What the parser refuses although it is good: it looks at the limit before the
\* character, so a text as long as its limit allows is too long, 65535 among them
AtLimit(said_part) ==
  LET text == said_part.text
  IN CASE said_part.part = "method" -> Len(text) = MaxMethodLength
       [] said_part.part = "host" /\ ~Bracketed(text) -> Len(text) = MaxFqdnLength
       [] said_part.part = "host" /\ Bracketed(text) -> Len(InBrackets(text)) = MaxFqdnLength
       [] said_part.part = "port" -> Len(text) = MaxPortLength
       [] OTHER -> FALSE

\* What it takes although it is not good: a method of no character, a number of no
\* digit, a literal with more brackets in front or with another character behind
Tolerated(said_part) ==
  LET text == said_part.text
  IN CASE said_part.part \in {"method", "major", "minor"} -> text = <<>>
       [] said_part.part = "host" /\ Bracketed(text) ->
            Literal(text) \in Ipv6Literals /\ Len(InBrackets(text)) < MaxFqdnLength
       [] OTHER -> FALSE

\* The error a part is answered with: the one it calls for, but for the two
\* exceptions
AnsweredWith(said_part) ==
  CASE AtLimit(said_part) -> IF said_part.part = "method" THEN 501 ELSE 400
    [] ~AtLimit(said_part) /\ Tolerated(said_part) -> 0
    [] OTHER -> Fault(said_part)

\* A host, a port and a path end with the first character of what follows
OpenEnded == {"host", "port", "path"}

\* The parts of which the character that ends them has been fed
EndedParts ==
  {i \in 1 .. Len(said) :
     IF said[i].part \in OpenEnded
       THEN i < Len(said) /\ (i + 1 = Len(said) => rest # Written(said[i + 1].part, said[i + 1].text))
       ELSE i < Len(said) \/ rest = <<>>}

RefusedParts == {i \in 1 .. Len(said) : AnsweredWith(said[i]) # 0}

\* parsing_host_on_read_ready: a line is refused for its first part at fault, with
\* the error that part calls for, not later than when the part has ended; and a
\* line is accepted at its last character if no part is at fault.  At fault is what
\* request_line_parser.h says is, but for what the code refuses AtLimit, so that no
\* port of five digits is ever taken, and for what it has Tolerated.
LineDecided ==
  /\ ErrorOf(line.state) # 0 =>
       \E i \in RefusedParts :
         /\ \A j \in RefusedParts : i <= j
         /\ ErrorOf(line.state) = AnsweredWith(said[i])
  /\ ErrorOf(line.state) = 0 => RefusedParts \intersect EndedParts = {}
  /\ said # <<>> /\ Present.part = "end" /\ rest = <<>> /\ RefusedParts = {} =>
       line.state = "done"

\* The text of a part, if it was said
Said(part) == {said[i].text : i \in {j \in 1 .. Len(said) : said[j].part = part}}

\* build_connection_request: the target that is connected to and the request line
\* that is sent on are the ones the client named.  An empty port is the exception:
\* 80 with its octets swapped.
TargetAsSaid ==
  line.state = "done" /\ said # <<>> =>
    LET host == CHOOSE text \in Said("host") : TRUE
        method == CHOOSE text \in Said("method") : TRUE
    IN /\ request.method = method
       /\ request.connect <=> method = Connect
       /\ CASE Bracketed(host) -> request.host_type = "ipv6" /\ request.host = Literal(host)
            [] ~Bracketed(host) /\ host \in Ipv4Literals ->
                 request.host_type = "ipv4" /\ request.host = host
            [] OTHER -> request.host_type = "domain" /\ request.host = host
       /\ request.port = IF Said("port") = {} THEN 80
                         ELSE IF Said("port") = {<<>>} THEN Swapped(80)
                         ELSE Number(CHOOSE text \in Said("port") : TRUE)
       /\ request.path = IF Said("path") # {} THEN CHOOSE text \in Said("path") : TRUE
                         ELSE IF method = Options THEN <<"*">> ELSE <<"/">>
=============================================================================
