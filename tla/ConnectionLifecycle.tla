------------------------- MODULE ConnectionLifecycle -------------------------
(***************************************************************************)
(* Connection implements Lifecycle: bytes, buffers and answers decide      *)
(* among the outcomes a lifecycle leaves open, and add none to them.       *)
(***************************************************************************)
EXTENDS ConnectionProperties

\* A released connection is a lifecycle that has not begun.
Phase ==
  CASE ~live -> "FREE"
    [] live /\ state = "PARSING_REQUEST_LINE" -> "PARSING"
    [] live /\ state = "TRY_CONNECTION_IP" -> "TRY"
    [] live /\ state = "SEND_DOH_REQUEST" -> "SEND_DOH"
    [] live /\ state = "AWAIT_DOH_RESPONSE" -> "AWAIT"
    [] live /\ state = "SEND_REQUEST_LINE" -> "SEND_LINE"
    [] live /\ state \in {"CONNECTED", "CLOSING", "EMPTY_BUFFERS"} -> "RELAY"
    [] live /\ state = "ERROR" -> "ERROR"

DohPhase ==
  IF ~live \/ ~doh.allocated THEN "none"
  ELSE IF doh.is_active THEN doh.current_type ELSE "between"

Life == INSTANCE Lifecycle WITH
  phase <- Phase,
  domain <- live /\ request.host = "domain",
  doh <- DohPhase,
  attempted <- live /\ status.origin # "INACTIVE",
  origin_fd <- IF live \/ origin_fd = "registered" THEN origin_fd ELSE "none"

\* connections_manager.c with the states: whatever the peers send and whenever
\* they finish, the connection takes the steps of its lifecycle and no others.
\* In particular a released one leaves no descriptor behind.  The one exception
\* is a handler that never returns, after which nothing happens any more.
KeepsToLifecycle == Life!Init /\ [][hung' \/ Life!Next]_(Life!life)
=============================================================================
