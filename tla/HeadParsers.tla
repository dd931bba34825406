---------------------------- MODULE HeadParsers ----------------------------
(***************************************************************************)
(* status_line_parser and headers_parser: the head of an HTTP response,    *)
(* one character at a time.  A character stands for its class; the letters *)
(* of "HTTP" for themselves.                                               *)
(***************************************************************************)
EXTENDS Naturals, Sequences

Version == <<"H", "T", "T", "P", "/">>
MaxReasonPhrase == 50

Letters == {"H", "T", "P", "letter"}
Token == Letters \union {"digit", "."}
Characters == Token \union {"/", ":", " ", "CR", "LF"}

At(state, i) == [state |-> state, i |-> i]
Bad == At("error", 0)

\* The length is checked before the character: a second digit is one too many
VersionNumber(p, c, end, next) ==
  CASE p.i < 2 /\ c = end -> next
    [] p.i < 2 /\ c = "digit" -> At(p.state, p.i + 1)
    [] OTHER -> Bad

StatusLineFeed(p, c) ==
  CASE p.state = "version" ->
         IF c # Version[p.i + 1] THEN Bad
         ELSE IF c = "/" THEN At("major", 0) ELSE At("version", p.i + 1)
    [] p.state = "major" -> VersionNumber(p, c, ".", At("minor", 0))
    [] p.state = "minor" -> VersionNumber(p, c, " ", At("status_code", 0))
    [] p.state = "status_code" ->
         CASE p.i = 3 /\ c = " " -> At("reason", 0)
           [] p.i <= 3 /\ c = "digit" -> At("status_code", p.i + 1)
           [] OTHER -> Bad
    [] p.state = "reason" ->
         CASE p.i < MaxReasonPhrase /\ c = "CR" -> At("status_end", 0)
           [] p.i < MaxReasonPhrase /\ c \in Letters \union {" ", "digit"} ->
                At("reason", p.i + 1)
           [] OTHER -> Bad
    [] p.state = "status_end" -> IF c = "LF" THEN At("field_name", 0) ELSE Bad

\* A response without a header is not accepted: CR is no name.  The limits on
\* the lengths never bite, as the index stays 0.
HeadersFeed(p, c) ==
  CASE p.state = "field_name" /\ c = ":" -> At("field_value", 0)
    [] p.state = "field_name" /\ c \in Token -> p
    [] p.state = "field_value" /\ c = "CR" -> At("value_end", 0)
    [] p.state = "field_value" /\ c \notin {"CR", "LF"} -> p
    [] p.state = "value_end" /\ c = "LF" -> At("may_be_end", 0)
    [] p.state = "may_be_end" /\ c = "CR" -> At("end", 0)
    [] p.state = "may_be_end" /\ c \in Token -> At("field_name", 0)
    [] p.state = "end" /\ c = "LF" -> At("done", 0)
    [] OTHER -> Bad
=============================================================================
