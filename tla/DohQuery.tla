------------------------------ MODULE DohQuery ------------------------------
(***************************************************************************)
(* The query for a host's addresses, as build_doh_request composes it and  *)
(* a resolver takes it apart.                                              *)
(*                                                                         *)
(* The operators commented "Mutant" are plausible bugs that nothing uses.  *)
(***************************************************************************)
EXTENDS Integers, Sequences

CONSTANTS
  Code,          \* the octet of each character of a name
  OctetModulus,  \* 256: what a uint8_t counts up to
  MaxLabel       \* 63: a longer label is none to a resolver

ASSUME QueryAssumption ==
  /\ "." \in DOMAIN Code /\ \A c \in DOMAIN Code : Code[c] \in Nat
  /\ OctetModulus \in Nat \ {0}
  /\ MaxLabel \in 1 .. 191   \* from 192 on an octet is a pointer's

TypeCode == [A |-> 1, CNAME |-> 5, AAAA |-> 28]

-----------------------------------------------------------------------------
(* build_doh_request *)

\* The place of a label's length is left until the label has ended
Unset == -1

QueryStart == [octets |-> <<Unset>>, label |-> 1, count |-> 0]

\* One character of the name
NameStep(q, c) ==
  IF c # "." THEN [q EXCEPT !.octets = Append(@, Code[c]), !.count = (@ + 1) % OctetModulus]
  ELSE [octets |-> Append([q.octets EXCEPT ![q.label] = q.count], Unset),
        label |-> Len(q.octets) + 1,
        count |-> 0]

\* After all of its characters
Labelled(domain) ==
  LET after[n \in 0 .. Len(domain)] ==
        IF n = 0 THEN QueryStart ELSE NameStep(after[n - 1], domain[n])
  IN after[Len(domain)]

EndsInDot(domain) == domain # <<>> /\ domain[Len(domain)] = "."

\* Mutant: a name that ends in a dot gets the empty label twice
QueryName_AlwaysEnded(domain) ==
  LET q == Labelled(domain)
  IN [Append(q.octets, 0) EXCEPT ![q.label] = q.count]

\* The name as labels.  For an empty name the octet in front of domain is looked
\* at, which belongs to host_type and is 0.
QueryName(domain) ==
  LET q == Labelled(domain)
      ended == IF EndsInDot(domain) THEN q.octets ELSE Append(q.octets, 0)
  IN [ended EXCEPT ![q.label] = q.count]

QueryHeader == <<0, 0, 1, 0, 0, 1, 0, 0, 0, 0, 0, 0>>

\* The body, and the content-length that announces it
BuildDohRequest(domain, type) ==
  LET body == QueryHeader \o QueryName(domain) \o <<0, TypeCode[type], 0, 1>>
  IN [body |-> body, content_length |-> Len(body) % OctetModulus]

NoQuery == [body |-> <<>>, content_length |-> 0]

-----------------------------------------------------------------------------
(* The resolver *)

Malformed == <<Unset>>

\* Where the labels of a name begin: each after the octets of the one before
LabelStarts(octets) ==
  LET start[k \in 1 .. Len(octets)] ==
        k = 1 \/ \E j \in 1 .. k - 1 : j + octets[j] + 1 = k /\ start[j]
  IN {k \in 1 .. Len(octets) : start[k]}

\* The labels fill the octets up to the empty one
LabelsFit(octets) ==
  /\ octets # <<>>
  /\ \A k \in LabelStarts(octets) :
       \/ k = Len(octets) /\ octets[k] = 0
       \/ octets[k] \in 1 .. MaxLabel /\ k + octets[k] < Len(octets)

\* The name that octets spell, each label followed by a dot
Spelled(octets) ==
  IF LabelsFit(octets)
    THEN [i \in 1 .. Len(octets) - 1 |->
            IF i + 1 \in LabelStarts(octets) THEN Code["."] ELSE octets[i + 1]]
    ELSE Malformed

\* The name a body of so many octets asks for
AskedName(body, length) ==
  IF length < Len(QueryHeader) + 5 \/ length > Len(body) THEN Malformed
  ELSE SubSeq(body, Len(QueryHeader) + 1, length - 4)

\* The resolver reads as many octets as were announced
Readable(query) ==
  LET name == AskedName(query.body, query.content_length)
  IN name # Malformed /\ Spelled(name) # Malformed

-----------------------------------------------------------------------------

\* A name as DNS knows it: labels that are not empty nor too long, with or without
\* the dot of the root
IsName(domain) ==
  /\ domain # <<>>
  /\ \A i \in 1 .. Len(domain) : domain[i] = "." => i > 1 /\ domain[i - 1] # "."
  /\ \A i \in 1 .. Len(domain) - MaxLabel :
       \E j \in i .. i + MaxLabel : domain[j] = "."

Rooted(domain) == IF EndsInDot(domain) THEN domain ELSE Append(domain, ".")

\* build_doh_request, read as far as it announces: the query asks for the host's
\* name if that is one and cannot be read if it is none, with one exception.  A body
\* of more octets than a uint8_t counts is announced too short (content_length), so
\* of the longest hosts nothing can be read, or of one that is no name, the root.
AsksForHost(domain, query) ==
  LET read == Spelled(AskedName(query.body, query.content_length)) IN
  IF Len(query.body) < OctetModulus
    THEN read = IF IsName(domain)
                  THEN [i \in 1 .. Len(Rooted(domain)) |-> Code[Rooted(domain)[i]]]
                  ELSE Malformed
    ELSE read = Malformed \/ (read = <<>> /\ ~IsName(domain))
=============================================================================
