----------------------------- MODULE DohResponse -----------------------------
(***************************************************************************)
(* The response to a query, as await_doh_response.c feeds it byte by byte  *)
(* to the parsers of the status line, the headers and the DNS message.     *)
(*                                                                         *)
(* The server sends the units of DohUnits in one of their encodings, and   *)
(* may stop after any byte.  A character of the HTTP head stands for its   *)
(* class; an octet of the DNS message is a number.                         *)
(*                                                                         *)
(* The operators commented "Mutant" are plausible bugs that nothing uses.  *)
(***************************************************************************)
EXTENDS DohUnits, DohQuery, HeadParsers

CONSTANTS
  Answers,         \* bound on the answers a response announces
  AnswerCounts,    \* the numbers of answers that responses announce
  AnswersSent,     \* bound on the answers of a response of which any comes
  Heads,           \* well-formed HTTP heads
  BadHeads,        \* heads cut at the character that is wrong
  Names,           \* encodings of an answer's name, compressed or not
  Addresses,       \* the addresses an answer may carry: type -> set of octet sequences
  OtherType,       \* a type the parser does not know
  MaxQnameLength  \* 255, the size of question.qname

VARIABLES
  units,      \* the units fed to their last byte
  told,       \* the address each of the answers among them carried
  coming,     \* the unit being fed, with its address
  bytes,      \* what is still to come of it
  head,       \* status_line_parser and headers_parser
  dns,        \* doh_parser and the response it fills
  query       \* the query, once it has been sent

responseVars == <<units, told, coming, bytes, head, dns>>

AddressLength == [A |-> 4, AAAA |-> 16]

-----------------------------------------------------------------------------
(* The loop of await_doh_response_on_read_ready feeds one parser after the  *)
(* other                                                                    *)

StatusLine == {"version", "major", "minor", "status_code", "reason", "status_end"}

HeadFeed(p, c) == IF p.state \in StatusLine THEN StatusLineFeed(p, c) ELSE HeadersFeed(p, c)

\* The parsers come to the state with the last character of the text, and to no end
\* before it
Decides(text, state) ==
  LET after[n \in 0 .. Len(text)] ==
        IF n = 0 THEN At("version", 0) ELSE HeadFeed(after[n - 1], text[n])
  IN /\ after[Len(text)].state = state
     /\ \A n \in 0 .. Len(text) - 1 : after[n].state \notin {"done", "error"}

\* A name as an answer may have it: labels up to an empty one or up to a pointer
EncodedName(octets) ==
  /\ octets # <<>>
  /\ \A k \in LabelStarts(octets) :
       \/ k = Len(octets) /\ octets[k] = 0
       \/ k = Len(octets) - 1 /\ octets[k] >= 192
       \/ octets[k] \in 1 .. MaxLabel /\ k + octets[k] < Len(octets)

ASSUME ResponseAssumption ==
  /\ Answers \in Nat /\ Answers < 256 * 256
  /\ AnswerCounts \subseteq 0 .. Answers /\ AnswersSent \in Nat
  /\ OtherType \in 0 .. 255 /\ OtherType \notin {1, 5, 28}
  /\ MaxQnameLength \in Nat /\ OctetModulus - 18 <= MaxQnameLength

\* What the server sends is a response or, where it is not, wrong in the one place
\* that makes it malformed
ASSUME SentAssumption ==
  /\ Heads \union BadHeads \subseteq Seq(Characters)
  /\ \A text \in Heads : Decides(text, "done")
  /\ \A text \in BadHeads : Decides(text, "error")
  /\ Names \subseteq Seq(Nat) /\ \A name \in Names : EncodedName(name)
  /\ \A type \in {"A", "AAAA"} : \A address \in Addresses[type] :
       address \in Seq(Nat) /\ Len(address) = AddressLength[type]

-----------------------------------------------------------------------------
(* doh_parser.  left is n - i of a name's label; i counts the octets of a   *)
(* field of fixed length.                                                   *)

FieldLength ==
  [id |-> 2, flags |-> 2, qdcount |-> 2, ancount |-> 2, nscount |-> 2, arcount |-> 2,
   qtype |-> 2, qclass |-> 2, type |-> 2, class |-> 2, ttl |-> 4, rdlength |-> 2]

FollowedBy ==
  [id |-> "flags", flags |-> "qdcount", qdcount |-> "ancount", ancount |-> "nscount",
   nscount |-> "arcount", arcount |-> "qname", qtype |-> "qclass", qclass |-> "name",
   type |-> "class", class |-> "ttl", ttl |-> "rdlength"]

BlankAnswer == [type |-> 0, address |-> <<>>]

\* What an octet of a field of fixed length leaves in the response: only the
\* fields that something reads are kept
Store(p, c) ==
  CASE p.state = "flags" /\ p.i = 1 -> [p EXCEPT !.rcode = c % 16]
    [] p.state = "ancount" -> [p EXCEPT !.ancount = IF p.i = 0 THEN c * 256 ELSE @ + c]
    [] p.state = "type" ->
         [p EXCEPT !.answers[p.index + 1].type = IF p.i = 0 THEN c * 256 ELSE @ + c]
    [] OTHER -> p

\* rdlength is not looked at: the type says how long the data is
DataOf(p) ==
  LET type == p.answers[p.index + 1].type IN
  CASE type = TypeCode.A -> "ipv4"
    [] type = TypeCode.AAAA -> "ipv6"
    [] type = TypeCode.CNAME -> "cname"
    [] OTHER -> "error"

\* The field has had its last octet
FieldEnds(p) ==
  CASE p.state = "ancount" /\ p.ancount = 0 -> [p EXCEPT !.state = "no_answers"]
    [] p.state = "ancount" /\ p.ancount > 0 ->
         [p EXCEPT !.state = "nscount", !.answers = [i \in 1 .. p.ancount |-> BlankAnswer]]
    [] p.state = "rdlength" -> [p EXCEPT !.state = DataOf(p)]
    [] OTHER -> [p EXCEPT !.state = FollowedBy[p.state]]

FieldFeed(p, c) ==
  IF p.i + 1 < FieldLength[p.state] THEN [Store(p, c) EXCEPT !.i = @ + 1]
  ELSE FieldEnds([Store(p, c) EXCEPT !.i = 0])

AnswerEnds(p) ==
  [p EXCEPT !.index = @ + 1,
            !.state = IF p.index + 1 = p.ancount THEN "done" ELSE "name"]

NameEnds(p) ==
  CASE p.state = "qname" -> [p EXCEPT !.state = "qtype"]
    [] p.state \in {"name", "name_pointer"} -> [p EXCEPT !.state = "type"]
    [] p.state \in {"cname", "cname_pointer"} -> AnswerEnds(p)

\* Of the question the name is kept, with a dot after each label
LabelFeed(p, c) ==
  LET stored == IF p.state # "qname" THEN <<>>
                ELSE IF p.left = 1 THEN <<c, Code["."]>> ELSE <<c>>
  IN [p EXCEPT !.left = @ - 1, !.qname = @ \o stored]

\* Mutant: compression is forgotten
NameFeed_NoPointers(p, c) ==
  CASE p.left > 0 -> LabelFeed(p, c)
    [] p.left = 0 /\ c = 0 -> NameEnds(p)
    [] OTHER -> [p EXCEPT !.left = c]

\* Labels up to an empty one or, in the answers, to a pointer of two octets
NameFeed(p, c) ==
  CASE p.left > 0 -> LabelFeed(p, c)
    [] p.left = 0 /\ c = 0 -> NameEnds(p)
    [] p.left = 0 /\ c >= 192 /\ p.state = "name" -> [p EXCEPT !.state = "name_pointer"]
    [] p.left = 0 /\ c >= 192 /\ p.state = "cname" -> [p EXCEPT !.state = "cname_pointer"]
    [] OTHER -> [p EXCEPT !.left = c]

\* Mutant: an IPv4 address is stored octet by octet behind what is there
Ipv4Feed_NeverResets(p, c) ==
  LET got == Append(p.rdata, c) IN
  IF Len(got) % AddressLength.A # 0 THEN [p EXCEPT !.rdata = got]
  ELSE AnswerEnds([p EXCEPT !.rdata = got,
                            !.answers[p.index + 1].address = SubSeq(got, 1, AddressLength.A)])

\* An IPv4 address is stored when it is complete, an IPv6 address as it comes
Ipv4Feed(p, c) ==
  LET got == Append(p.rdata, c) IN
  IF Len(got) < AddressLength.A THEN [p EXCEPT !.rdata = got]
  ELSE AnswerEnds([p EXCEPT !.rdata = <<>>, !.answers[p.index + 1].address = got])

Ipv6Feed(p, c) ==
  LET stored == [p EXCEPT !.answers[p.index + 1].address = Append(@, c)] IN
  IF Len(stored.answers[p.index + 1].address) < AddressLength.AAAA THEN stored
  ELSE AnswerEnds(stored)

DnsFeed(p, c) ==
  CASE p.state \in DOMAIN FieldLength -> FieldFeed(p, c)
    [] p.state \in {"qname", "name", "cname"} -> NameFeed(p, c)
    [] p.state \in {"name_pointer", "cname_pointer"} -> NameEnds(p)
    [] p.state = "ipv4" -> Ipv4Feed(p, c)
    [] p.state = "ipv6" -> Ipv6Feed(p, c)

-----------------------------------------------------------------------------
(* The server *)

\* The question comes back as it was asked.  To a query that cannot be read the
\* response can only be that there is no answer.
Question == IF Readable(query) THEN {AskedName(query.body, query.content_length)} ELSE {}

HeaderBytes(unit) ==
  LET counted == <<0, 0, 129, 128 + unit.rcode, 0, 1, unit.ancount \div 256, unit.ancount % 256>>
  IN IF unit.ancount = 0 THEN {counted}
     ELSE {counted \o <<0, 0, 0, 0>> \o name \o <<0, 1, 0, 1>> : name \in Question}

\* The part of an answer between its name and its data; a ttl of any value
Middle(type, length) == <<0, type, 0, 1, 0, 0, 1, 44, 0, length>>

AnswerBytes(type, data) ==
  {name \o Middle(TypeCode[type], Len(data)) \o data : name \in Names}

\* A unit with the address it carries and its bytes
Sendable(unit) ==
  CASE unit.kind = "http" -> {[unit |-> unit, address |-> <<>>, bytes |-> b] : b \in Heads}
    [] unit.kind = "header" ->
         {[unit |-> unit, address |-> <<>>, bytes |-> b] : b \in HeaderBytes(unit)}
    [] unit.kind \in {"A", "AAAA"} ->
         UNION {{[unit |-> unit, address |-> a, bytes |-> b] : b \in AnswerBytes(unit.kind, a)} :
                a \in Addresses[unit.kind]}
    [] unit.kind = "CNAME" ->
         UNION {{[unit |-> unit, address |-> <<>>, bytes |-> b] : b \in AnswerBytes("CNAME", n)} :
                n \in Names}
    [] unit.kind = "malformed" /\ units = <<>> ->
         {[unit |-> unit, address |-> <<>>, bytes |-> b] : b \in BadHeads}
    [] unit.kind = "malformed" /\ units # <<>> ->
         {[unit |-> unit, address |-> <<>>, bytes |-> name \o Middle(OtherType, 0)] :
            name \in Names}

\* A cut unit is any other one of which no more comes.  Of a response that announces
\* more than AnswersSent answers none comes.
Whole ==
  {unit \in NextUnits(units, Answers, 0) :
     /\ unit.kind \notin {"cut_header", "cut_A", "cut_AAAA"}
     /\ unit.kind = "header" => unit.ancount \in AnswerCounts
     /\ Len(units) < 2 \/ units[2].ancount <= AnswersSent}

Nothing == [unit |-> Plain("http"), address |-> <<>>]

ServerSends ==
  /\ query # NoQuery
  /\ bytes = <<>>
  /\ dns.state # "mem_alloc_error"
  /\ \E unit \in Whole : \E s \in Sendable(unit) :
       /\ coming' = [unit |-> s.unit, address |-> s.address]
       /\ bytes' = s.bytes
  /\ UNCHANGED <<units, told, head, dns, query>>

\* One iteration of the loop of await_doh_response_on_read_ready
Feed ==
  /\ bytes # <<>>
  /\ dns.state # "mem_alloc_error"
  /\ bytes' = Tail(bytes)
  /\ IF head.state # "done"
       THEN head' = HeadFeed(head, Head(bytes)) /\ UNCHANGED dns
       ELSE /\ UNCHANGED head
            /\ \/ dns' = DnsFeed(dns, Head(bytes))
               \/ /\ dns.state = "ancount" /\ dns.i = 1
                  /\ Store(dns, Head(bytes)).ancount > 0
                  /\ dns' = [Store(dns, Head(bytes)) EXCEPT !.state = "mem_alloc_error"]
  /\ IF Len(bytes) > 1 THEN UNCHANGED <<units, told, coming>>
     ELSE /\ units' = Append(units, coming.unit)
          /\ told' = IF Len(units) < 2 THEN told ELSE Append(told, coming.address)
          /\ coming' = Nothing
  /\ UNCHANGED query

NoDns ==
  [state |-> "id", i |-> 0, left |-> 0, rcode |-> 0, qname |-> <<>>, ancount |-> 0,
   index |-> 0, answers |-> <<>>, rdata |-> <<>>]

ResponseInit ==
  /\ units = <<>>
  /\ told = <<>>
  /\ coming = Nothing
  /\ bytes = <<>>
  /\ head = At("version", 0)
  /\ dns = NoDns
  /\ query = NoQuery

ResponseEnded ==
  \/ Verdict(units) # "more"
  \/ dns.state = "mem_alloc_error"
  \/ HeaderParsed(units) /\ units[2].ancount > AnswersSent
-----------------------------------------------------------------------------
(* What Connection takes for granted of a response fed up to any byte *)

\* The octets of a header that have been fed
OfHeader == Len(CHOOSE whole \in HeaderBytes(coming.unit) : TRUE) - Len(bytes)

\* A header of whose ANCOUNT the first octet has come, if that is not 0
CutHeader(unit) == [unit EXCEPT !.kind = "cut_header", !.ancount = 256 * (@ \div 256)]

\* The units of what has been fed: a header counts from its number of answers on,
\* the first octet of that alone as well, and an answer from its type on
AsUnits ==
  CASE bytes # <<>> /\ coming.unit.kind = "header" ->
         (CASE OfHeader >= 8 -> Append(units, coming.unit)
            [] OfHeader = 7 /\ coming.unit.ancount >= 256 -> Append(units, CutHeader(coming.unit))
            [] OTHER -> units)
    [] /\ bytes # <<>> /\ coming.unit.kind \in {"A", "AAAA"}
       /\ Len(bytes) <= 8 + AddressLength[coming.unit.kind] ->
         Append(units, Plain(IF coming.unit.kind = "A" THEN "cut_A" ELSE "cut_AAAA"))
    [] OTHER -> units

Outcome ==
  CASE "error" \in {head.state, dns.state} -> "malformed"
    [] dns.state = "no_answers" -> "no_answers"
    [] dns.state = "done" -> "complete"
    [] OTHER -> "more"

\* doh_parser.c and its companions: fed byte by byte, the parsers decide what
\* Connection lets them decide on units, and not a byte earlier or later; the count
\* that the loops of doh_utils.c compare current_try with, and the table they read,
\* are those of the units, a count without a table included (doh_parser.c:265); and
\* the answers of which they find a_type to be the wanted one, in
\* try_next_ipv4_connection and its sibling, are those that Connection attempts.
DecisionsAgree ==
  LET fed == AsUnits IN
  /\ dns.state # "mem_alloc_error" =>
       /\ Outcome = Verdict(fed)
       /\ dns.ancount = IF HeaderBegun(fed) THEN fed[2].ancount ELSE 0
       /\ Len(dns.answers) = IF HeaderParsed(fed) THEN fed[2].ancount ELSE 0
  /\ \A type \in {"A", "AAAA"} :
       {i \in 1 .. Len(dns.answers) : dns.answers[i].type = TypeCode[type]} =
         {i \in 1 .. Len(dns.answers) : 2 + i <= Len(fed) /\ Offers(fed[2 + i], type)}

Answering ==
  {"name", "name_pointer", "type", "class", "ttl", "rdlength", "ipv4", "ipv6", "cname",
   "cname_pointer"}

\* doh_parser.c fills what calloc() and doh_response_t gave it and no more: answers
\* go to a table of ancount places, each one that was fed to its end has its
\* address in its place, whatever the names around it were and in which encoding,
\* and the question is the name that was asked for.
TableFaithful ==
  /\ dns.state \in Answering => dns.index < dns.ancount /\ Len(dns.answers) = dns.ancount
  /\ \A i \in 1 .. Len(told) :
       units[2 + i].kind \in {"A", "AAAA"} => dns.answers[i].address = told[i]
  /\ Len(dns.qname) <= MaxQnameLength
  /\ dns.state \in Answering => dns.qname = Spelled(AskedName(query.body, query.content_length))
=============================================================================
