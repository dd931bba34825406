------------------------------ MODULE DohUnits ------------------------------
(***************************************************************************)
(* A DoH response as the sequence of the units its parsers decide on: an   *)
(* "http" unit for the status line and headers, a "header" with the rcode  *)
(* and the number of answers, which is there once ANCOUNT has come, and    *)
(* the answers, named by their type.  A "cut" answer ends after its type,  *)
(* and a "cut_header" after the first octet of ANCOUNT, its high one.      *)
(* Connection works on units; DohResponse shows what bytes they stand for. *)
(***************************************************************************)
EXTENDS Naturals, Sequences

Unit == [kind : {"http", "header", "cut_header", "A", "AAAA", "CNAME", "cut_A", "cut_AAAA",
                 "extra", "malformed"},
         rcode : Nat, ancount : Nat]

Plain(kind) == [kind |-> kind, rcode |-> 0, ancount |-> 0]

Last(p) == p[Len(p)].kind

IsCut(p) == p # <<>> /\ Last(p) \in {"cut_header", "cut_A", "cut_AAAA"}

\* An answer counts as one of its type as soon as the type has been parsed.
Offers(unit, type) ==
  \/ unit.kind = type
  \/ unit.kind = "cut_A" /\ type = "A"
  \/ unit.kind = "cut_AAAA" /\ type = "AAAA"

HeaderParsed(p) == Len(p) >= 2 /\ p[2].kind = "header"

\* The rcode and the high octet of the count are known
HeaderBegun(p) == Len(p) >= 2 /\ p[2].kind \in {"header", "cut_header"}

\* What the parsers say after having been fed the units p
Verdict(p) ==
  IF p # <<>> /\ Last(p) = "malformed" THEN "malformed"
  ELSE IF ~HeaderParsed(p) \/ Len(p) < 2 + p[2].ancount THEN "more"
  ELSE IF p[2].ancount = 0 THEN "no_answers"
  ELSE IF IsCut(p) THEN "more"
  ELSE "complete"

\* A whole header, or one cut where its count is, for all it says, 256
Headers(answers) ==
  [kind : {"header"}, rcode : {0, 3}, ancount : 0 .. answers]
    \union [kind : {"cut_header"}, rcode : {0, 3}, ancount : {256}]

\* What a DoH server may send after the units p, of at most so many answers and
\* so many units after its response
NextUnits(p, answers, extra) ==
  IF IsCut(p) \/ Verdict(p) = "malformed" THEN {}
  ELSE IF Verdict(p) # "more"
    THEN IF Len(p) < 2 + p[2].ancount + extra THEN {Plain("extra")} ELSE {}
  ELSE CASE Len(p) = 0 -> {Plain("http"), Plain("malformed")}
         [] Len(p) = 1 -> Headers(answers)
         [] OTHER -> {Plain(kind) : kind \in {"A", "AAAA", "CNAME", "cut_A", "cut_AAAA",
                                              "malformed"}}
=============================================================================
