----------------------------- MODULE Resolution -----------------------------
(***************************************************************************)
(* From the request line to the table of answers: the line is parsed, the  *)
(* host it names, unless by its address, is put into a query, and the      *)
(* resolver's response to that query is parsed.                            *)
(***************************************************************************)
EXTENDS RequestLine, DohResponse

\* A character is an octet, whatever it is, and a host is counted by a uint8_t
ASSUME ResolutionAssumption ==
  /\ {" ", ":", ".", "/", "\r"} \subseteq DOMAIN Code
  /\ \A part \in Parts : Texts[part] \subseteq Seq(DOMAIN Code)
  /\ MaxFqdnLength \in Nat /\ MaxFqdnLength < OctetModulus

vars == <<said, rest, line, request, units, told, coming, bytes, head, dns, query>>

\* send_doh_request_on_arrival, for the first type or the second.  Of the request
\* only the host matters from here on, so the rest is forgotten.
SendDohRequest ==
  /\ line.state = "done"
  /\ request.host_type = "domain"
  /\ query = NoQuery
  /\ \E type \in {"A", "AAAA"} : query' = BuildDohRequest(request.host, type)
  /\ request' = [NoRequest EXCEPT !.host = request.host]
  /\ said' = <<>> /\ line' = [NewLine EXCEPT !.state = "done"]
  /\ UNCHANGED <<rest, units, told, coming, bytes, head, dns>>

\* The line was refused, its host needs no resolution, or the response has ended
Over ==
  /\ \/ ErrorOf(line.state) # 0
     \/ line.state = "done" /\ request.host_type # "domain"
     \/ ResponseEnded
  /\ UNCHANGED vars

ParseLine == (ClientSays \/ FeedLine) /\ UNCHANGED <<responseVars, query>>

ParseResponse == (ServerSends \/ Feed) /\ UNCHANGED lineVars

Init == LineInit /\ ResponseInit

Next == ParseLine \/ SendDohRequest \/ ParseResponse \/ Over

Spec == Init /\ [][Next]_vars

\* build_doh_request and the parser before it: the query that is announced is one
\* for the host of the request line or, for a host too long to be announced, one
\* that names no host at all; it is never one for another host.
QueryNamesHost == query # NoQuery => AsksForHost(request.host, query)
=============================================================================
