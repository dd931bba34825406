------------------------------ MODULE Lifecycle ------------------------------
(***************************************************************************)
(* What a proxied connection promises to the rest of the proxy: the phases *)
(* it goes through and what it does to its origin's descriptor, whatever   *)
(* the bytes that decide among them.  Connection implements it, and Proxy  *)
(* checks that connections sharing one selector each keep to it.           *)
(***************************************************************************)

VARIABLES
  phase,      \* stm_state, the relaying states as one; FREE without a struct
  domain,     \* the request names its host by a domain name
  doh,        \* no doh_connection, its active query, or between the queries
  attempted,  \* origin_status # INACTIVE_STATUS
  origin_fd   \* what origin_fd names: a socket in the selector, or not

life == <<phase, domain, doh, attempted, origin_fd>>

Active == {"A", "AAAA"}

Free ==
  /\ phase = "FREE" /\ ~domain /\ doh = "none" /\ ~attempted /\ origin_fd = "none"

Accepted ==
  /\ phase = "PARSING" /\ domain \in BOOLEAN /\ doh = "none" /\ ~attempted
  /\ origin_fd = "none"

Init == Free \/ Accepted

Fail == phase' = "ERROR" /\ UNCHANGED <<domain, doh, attempted, origin_fd>>

Move(to) == phase' = to /\ UNCHANGED <<domain, doh, attempted, origin_fd>>

\* register_origin_socket
Register(query) ==
  /\ doh' = query
  /\ attempted' = TRUE
  /\ \/ phase' = "TRY" /\ origin_fd' = "registered"
     \/ phase' = "ERROR" /\ origin_fd' = "unregistered"
  /\ UNCHANGED domain

\* establish_origin_connection and register_origin_socket
Open(query) ==
  \/ Register(query)
  \/ /\ phase' = "ERROR" /\ doh' = query /\ origin_fd' = "none"
     /\ UNCHANGED <<domain, attempted>>

\* try_next_dns_connection: another answer, the other query, or neither
TryNext ==
  /\ origin_fd = "registered"
  /\ \/ doh \in Active /\ Register(doh)
     \/ doh = "A" /\ Open("between")
     \/ /\ doh \in {"AAAA", "between"}
        /\ phase' = "ERROR" /\ origin_fd' \in {"closed", "none"}
        /\ UNCHANGED <<domain, doh, attempted>>

Accept == Free /\ Accepted'

Parse == phase = "PARSING" /\ (Fail \/ Open("none"))

Connected ==
  /\ phase = "TRY" /\ origin_fd = "registered"
  /\ IF domain /\ doh \notin Active THEN Move("SEND_DOH")
     ELSE \E to \in {"SEND_LINE", "RELAY"} : Move(to)

NotConnected ==
  /\ phase = "TRY"
  /\ IF domain /\ doh # "none" THEN TryNext ELSE Fail

\* The first query may lack the memory it needs
Ask ==
  /\ phase = "SEND_DOH" /\ phase' = "AWAIT"
  /\ \/ doh = "none" /\ doh' \in {"none", "A"}
     \/ doh = "between" /\ doh' = "AAAA"
  /\ UNCHANGED <<domain, attempted, origin_fd>>

Answer == phase = "AWAIT" /\ (Fail \/ TryNext)

SendLine == phase = "SEND_LINE" /\ Move("RELAY")

\* Whoever releases it, its origin's socket goes with it
Release == phase # "FREE" /\ Free'

Next ==
  \/ Accept \/ Parse \/ Connected \/ NotConnected \/ Ask \/ Answer \/ SendLine
  \/ Release

Spec == Init /\ [][Next]_life
=============================================================================
