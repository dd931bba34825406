----------------------------- MODULE Connection -----------------------------
(***************************************************************************)
(* One proxied connection, from the accepted client to its release: the    *)
(* state machine of states/ driven by the read and write callbacks of      *)
(* connections_manager.c, name resolution over DoH included, with the      *)
(* peers (client, DoH server, host) and the kernel's sockets around it.    *)
(*                                                                         *)
(* A byte is named by its source and its place in what that source emits,  *)
(* so a lost, repeated, reordered or misdirected byte is visible.  The     *)
(* client's first RequestLength bytes are its request line; a message the  *)
(* proxy composes (DoH query, rewritten request line, "200 OK", error) has *)
(* MessageLength bytes.  What the DoH server sends is a sequence of units, *)
(* one per decision the response parsers take.                             *)
(*                                                                         *)
(* The selector is represented by what it guarantees to a connection: a    *)
(* callback runs only if its descriptor is registered, ready, and watched  *)
(* for that operation.                                                     *)
(*                                                                         *)
(* The operators commented "Mutant" are plausible bugs: nothing uses them, *)
(* and put in the place of the operator they are named after they must     *)
(* break a property.                                                       *)
(***************************************************************************)
EXTENDS ByteQueue, DohUnits

CONSTANTS
  Requests,          \* the requests considered: [host, connect, valid]
  RequestLength,     \* bytes of the client's request line
  MessageLength,     \* bytes of a message composed by the proxy
  Memory,            \* buffers_size when the client was accepted
  ClientBytes,       \* bound on what the client sends, request line included
  HostBytes,         \* bound on what the host sends
  MaxAnswers,        \* bound on the answers of a DNS response
  ExtraUnits,        \* bound on what the DoH server sends after its response
  TryModulus,        \* 256: current_try is a uint8_t, ancount a uint16_t
  CounterMax,        \* UINT64_MAX, where the counters stop
  OtherConnections,  \* connections of other clients, already counted
  PeerResets,        \* whether a peer may reset its connection
  PeerStalls         \* whether a peer may stop reading

Hosts == {"ip", "domain"}

ASSUME ConnectionAssumption ==
  /\ Requests \subseteq [host : Hosts, connect : BOOLEAN, valid : BOOLEAN]
  /\ RequestLength \in Nat \ {0}
  /\ MessageLength \in 1 .. Capacity
  /\ Memory \in Nat
  /\ ClientBytes \in Nat
  /\ HostBytes \in Nat
  /\ MaxAnswers \in Nat
  /\ ExtraUnits \in Nat
  /\ TryModulus \in Nat \ {0}
  /\ CounterMax \in Nat
  /\ OtherConnections \in 0 .. CounterMax - 1
  /\ PeerResets \in BOOLEAN
  /\ PeerStalls \in BOOLEAN

VARIABLES
  state,      \* stm_state(&connection->stm)
  status,     \* client_status and origin_status
  interest,   \* the selector's interest for each side's descriptor
  buffer,     \* client_buffer and origin_buffer, by whose bytes they receive
  sock,       \* the kernel's sockets with their peers
  origin_fd,  \* what the field names: a socket in the selector, or not
  request,    \* the parsed request line
  error,      \* connection->error
  doh,        \* *connection->doh_connection
  reply,      \* the units the present DoH server socket has sent
  metrics,    \* metrics.c's counters
  live,       \* the client's descriptor is registered, the struct allocated
  hung,       \* the handler that was called never returns: it loops, or dies
  idle        \* last_action_time is inactive_threshold seconds old

vars == <<state, status, interest, buffer, sock, origin_fd, request, error, doh,
          reply, metrics, live, hung, idle>>

States == {"PARSING_REQUEST_LINE", "TRY_CONNECTION_IP", "SEND_DOH_REQUEST",
           "AWAIT_DOH_RESPONSE", "SEND_REQUEST_LINE", "CONNECTED", "CLOSING",
           "EMPTY_BUFFERS", "DONE", "ERROR"}

\* The enum is compared with < and >=: the states below each bound
BeforeSendRequestLine == {"PARSING_REQUEST_LINE", "TRY_CONNECTION_IP",
                          "SEND_DOH_REQUEST", "AWAIT_DOH_RESPONSE"}
BeforeConnected == BeforeSendRequestLine \union {"SEND_REQUEST_LINE"}

Sides == {"client", "origin"}
Other(s) == IF s = "client" THEN "origin" ELSE "client"

Operations == {"READ", "WRITE"}

Sources == {"client", "host", "doh", "query", "request", "ok", "error"}
Byte == [from : Sources, n : Nat]

Bytes(from, first, last) ==
  [i \in 1 .. (last + 1) - first |-> [from |-> from, n |-> first + (i - 1)]]

Message(kind) == Bytes(kind, 1, MessageLength)

-----------------------------------------------------------------------------
(* Sockets.  sent and read count the peer's bytes, got is what the proxy   *)
(* sent to the peer, full says that the kernel takes no more of it until   *)
(* the peer reads, fin and reset are the peer's, shut is the proxy's       *)
(* shutdown(SHUT_WR).                                                      *)

Socket(peer, link) ==
  [peer |-> peer, link |-> link, sent |-> 0, read |-> 0, got |-> <<>>,
   full |-> FALSE, fin |-> FALSE, reset |-> FALSE, shut |-> FALSE]

Unread(s) == sock[s].sent - sock[s].read

\* What the next n unread bytes are
Arriving(s, n) == Bytes(sock[s].peer, sock[s].read + 1, sock[s].read + n)

Readable(s) == sock[s].link = "up" /\ (Unread(s) > 0 \/ sock[s].fin \/ sock[s].reset)

\* A send buffer that is full is waited for, unless a send would fail at once
Writable(s) ==
  /\ sock[s].link # "pending"
  /\ sock[s].full => sock[s].reset \/ sock[s].shut

Registered(s) == live /\ (s = "origin" => origin_fd = "registered")

\* The selector may call this side's read (write) callback
ReadReady(s) == Registered(s) /\ "READ" \in interest[s] /\ Readable(s)
WriteReady(s) == Registered(s) /\ "WRITE" \in interest[s] /\ Writable(s)

-----------------------------------------------------------------------------
(* What the parsers have taken of the DoH response *)

Rcode(d) == IF HeaderBegun(d.parsed) THEN d.parsed[2].rcode ELSE 0
Ancount(d) == IF HeaderBegun(d.parsed) THEN d.parsed[2].ancount ELSE 0

\* The count's second octet is still to come, and with it the table of answers
NoTable(d) == Ancount(d) > 0 /\ ~HeaderParsed(d.parsed)

\* A try_next loop over the answers comes to their end
LoopEnds(d) == Ancount(d) < TryModulus /\ ~NoTable(d)

\* Mutant: every attempt starts again from the first answer
Remaining_FromFirst(d) == 1 .. Ancount(d)

\* The answers a try_next loop still visits, and those of the type it wants.
\* From TryModulus answers on, current_try wraps before it reaches ancount.
Remaining(d) ==
  IF Ancount(d) < TryModulus THEN d.current_try + 1 .. Ancount(d) ELSE 1 .. TryModulus

Candidates(d) ==
  {i \in Remaining(d) : 2 + i <= Len(d.parsed) /\ Offers(d.parsed[2 + i], d.current_type)}

NoDoh == [allocated |-> FALSE, is_active |-> FALSE, current_type |-> "A",
          current_try |-> 0, parsed |-> <<>>]

-----------------------------------------------------------------------------
(* metrics.c *)

Bumped(n) == IF n < CounterMax THEN n + 1 ELSE n

\* The test guards the addition against a counter that is already full only
Added(n, bytes) == IF n < CounterMax THEN (n + bytes) % (CounterMax + 1) ELSE n

register_new_connection(m) ==
  [m EXCEPT !.historical = Bumped(@), !.concurrent = Bumped(@)]

unregister_connection(m) ==
  IF m.concurrent > 0 THEN [m EXCEPT !.concurrent = @ - 1] ELSE m

increase_failed_connections(m) == [m EXCEPT !.failed = Bumped(@)]

\* increase_bytes_received and increase_bytes_sent
Transferred(m, s, n) ==
  IF s = "client" THEN [m EXCEPT !.received = Added(@, n)]
  ELSE [m EXCEPT !.sent = Added(@, n)]

-----------------------------------------------------------------------------
(* Entering and staying in a state.  st, buf and sk are the statuses, the  *)
(* buffers and the sockets as the handler leaves them; on_arrival, which   *)
(* jump() calls when the state changes, is part of the step.               *)

Settle(next, i, st, buf, sk) ==
  /\ state' = next
  /\ interest' = i
  /\ status' = st
  /\ buffer' = buf
  /\ sock' = sk

Watch(c, o) == [s \in Sides |-> IF s = "client" THEN c ELSE o]

When(condition, operation) == IF condition THEN {operation} ELSE {}

\* Mutant: reading is watched whether the buffer has room or not
ConnectedInterest_Unbounded(buf) ==
  [s \in Sides |-> When(CanRead(buf[Other(s)]), "WRITE") \union {"READ"}]

\* connected.c, set_connection_interests
ConnectedInterest(buf) ==
  [s \in Sides |-> When(CanRead(buf[Other(s)]), "WRITE")
                     \union When(CanWrite(buf[s]), "READ")]

\* Mutant: the CLOSED that the previous step left is forgotten
ClosingInterest_OnlyClosing(st, buf) ==
  [s \in Sides |-> When(CanRead(buf[Other(s)]), "WRITE")
                     \union When(st[Other(s)] = "CLOSING" /\ CanWrite(buf[s]), "READ")]

\* closing.c: only the side whose peer has finished is still read
ClosingInterest(st, buf) ==
  [s \in Sides |-> When(CanRead(buf[Other(s)]), "WRITE")
                     \union When(st[Other(s)] \in {"CLOSING", "CLOSED"} /\ CanWrite(buf[s]), "READ")]

\* Mutant: reading goes on while the buffers are emptied
EmptyBuffersInterest_Reads(buf) == ConnectedInterest(buf)

EmptyBuffersInterest(buf) == [s \in Sides |-> When(CanRead(buf[Other(s)]), "WRITE")]

\* Mutant: the stream is ended with bytes still to be sent
Drained_Early(st, buf, s) == st[s] = "CLOSING"

\* A side that finished and whose bytes have all been passed on
Drained(st, buf, s) == st[s] = "CLOSING" /\ ~CanRead(buf[s])

CloseDrained(st, buf) ==
  [s \in Sides |-> IF Drained(st, buf, s) THEN "CLOSED" ELSE st[s]]

\* Mutant: the wrong descriptor is shut down
ShutDrained_WrongSide(st, buf, sk) ==
  [s \in Sides |-> IF Drained(st, buf, s) THEN [sk[s] EXCEPT !.shut = TRUE] ELSE sk[s]]

ShutDrained(st, buf, sk) ==
  [s \in Sides |-> IF Drained(st, buf, Other(s)) THEN [sk[s] EXCEPT !.shut = TRUE] ELSE sk[s]]

SettleConnected(st, buf, sk) ==
  Settle("CONNECTED", ConnectedInterest(buf), st, buf, sk)

SettleClosing(st, buf, sk) ==
  Settle("CLOSING", ClosingInterest(st, buf), CloseDrained(st, buf), buf,
         ShutDrained(st, buf, sk))

SettleEmptyBuffers(st, buf, sk) ==
  Settle("EMPTY_BUFFERS", EmptyBuffersInterest(buf), CloseDrained(st, buf), buf,
         ShutDrained(st, buf, sk))

\* Mutant: an origin that has finished is taken for one already removed
Release_OnlyActive(st) ==
  /\ live' = FALSE
  /\ interest' = Watch({}, {})
  /\ origin_fd' = IF st.origin = "ACTIVE" /\ origin_fd = "registered"
                    THEN "closed" ELSE origin_fd

\* Both descriptors leave the selector; the client's close frees the struct
Release(st) ==
  /\ live' = FALSE
  /\ interest' = Watch({}, {})
  /\ origin_fd' = IF st.origin # "INACTIVE" /\ origin_fd = "registered"
                    THEN "closed" ELSE origin_fd

EnterDone(st, buf, sk) ==
  /\ state' = "DONE"
  /\ status' = st
  /\ buffer' = buf
  /\ sock' = sk
  /\ Release(st)

\* Mutant: the message goes behind what the buffer holds
EnterError_Appends(code, st, buf, sk) ==
  /\ error' = code
  /\ Settle("ERROR", Watch({"WRITE"}, {}), st,
            [buf EXCEPT !.origin = WriteAdv(@, Message("error"))], sk)

\* Mutant: the origin is watched in the client's place
EnterError_WatchesOrigin(code, st, buf, sk) ==
  /\ error' = code
  /\ Settle("ERROR", Watch({}, {"WRITE"}), st,
            [buf EXCEPT !.origin = WriteAdv(EmptyQueue, Message("error"))], sk)

EnterError(code, st, buf, sk) ==
  /\ error' = code
  /\ Settle("ERROR", Watch({"WRITE"}, {}), st,
            [buf EXCEPT !.origin = WriteAdv(EmptyQueue, Message("error"))], sk)

EnterTryConnectionIp(st, buf, sk) ==
  Settle("TRY_CONNECTION_IP", Watch({}, {"WRITE"}), st, buf, sk)

\* write_doh_request and write_request_line put a message behind whatever is
\* in the origin's buffer, without looking at its room
Compose(kind, buf) == [buf EXCEPT !.origin = WriteAdv(@, Message(kind))]

EnterSendDohRequest(st, buf, sk) ==
  Settle("SEND_DOH_REQUEST", Watch({}, {"WRITE"}), st, Compose("query", buf), sk)

EnterSendRequestLine(st, buf, sk) ==
  Settle("SEND_REQUEST_LINE", Watch({}, {"WRITE"}), st, Compose("request", buf), sk)

\* await_doh_response_on_arrival: init_doh_state may fail to allocate
EnterAwaitDohResponse(st, buf, sk) ==
  /\ Settle("AWAIT_DOH_RESPONSE", Watch({}, {"READ"}), st, buf, sk)
  /\ \/ /\ doh' = [doh EXCEPT !.allocated = TRUE, !.is_active = TRUE,
                              !.current_try = 0, !.parsed = <<>>]
        /\ UNCHANGED error
     \/ /\ ~doh.allocated
        /\ error' = "500"
        /\ UNCHANGED doh

-----------------------------------------------------------------------------
(* Opening a connection to the DoH server or to the host.  kept are the    *)
(* buffers if the attempt starts, buf those if it ends in ERROR.           *)

\* register_origin_socket, once there is a socket
RegisterOrigin(peer, st, kept, buf, sk) ==
  LET active == [st EXCEPT !.origin = "ACTIVE"] IN
  \/ /\ origin_fd' = "registered"
     /\ reply' = <<>>
     /\ EnterTryConnectionIp(active, kept, [sk EXCEPT !.origin = Socket(peer, "pending")])
     /\ UNCHANGED error
  \/ /\ origin_fd' = "unregistered"
     /\ EnterError("500", active, buf, sk)
     /\ UNCHANGED reply

\* establish_origin_connection and register_origin_socket
OpenOrigin(peer, st, kept, buf, sk) ==
  \/ RegisterOrigin(peer, st, kept, buf, sk)
  \/ /\ origin_fd' = "none"
     /\ EnterError("500", st, buf, sk)
     /\ UNCHANGED reply

\* Mutant: the new query's connection is taken for the host's
RetryOverIPv6_StaysActive(d, st, buf, sk) ==
  /\ doh' = [d EXCEPT !.current_type = "AAAA"]
  /\ OpenOrigin("doh", st, buf, buf, sk)

\* Mutant: the attempts start anew before there are answers to attempt
RetryOverIPv6_ResetsTry(d, st, buf, sk) ==
  /\ doh' = [d EXCEPT !.is_active = FALSE, !.current_type = "AAAA", !.current_try = 0]
  /\ OpenOrigin("doh", st, buf, buf, sk)

\* The answers are freed, and the AAAA records asked for over a new connection
RetryOverIPv6(d, st, buf, sk) ==
  /\ doh' = [d EXCEPT !.is_active = FALSE, !.current_type = "AAAA"]
  /\ OpenOrigin("doh", st, buf, buf, sk)

\* try_next_dns_connection with the origin unregistered and nothing put in
\* its place: origin_fd keeps the number unless an attempt overwrote it
GiveUp(d, fd, st, buf, sk) ==
  /\ doh' = d
  /\ origin_fd' = fd
  /\ EnterError("500", st, buf, sk)
  /\ UNCHANGED reply

\* try_next_ipv4_connection and try_next_ipv6_connection: some candidates may
\* fail at once, the next is attempted, or none is left
TryNextAnswer(d, st, buf, sk) ==
  \/ \E i \in Candidates(d) :
       /\ doh' = [d EXCEPT !.current_try = i % TryModulus]
       /\ RegisterOrigin("host", st, buf, buf, sk)
       /\ UNCHANGED hung
  \/ /\ LoopEnds(d)
     /\ LET last == [d EXCEPT !.current_try = Ancount(d)]
            fd == IF Candidates(d) = {} THEN "closed" ELSE "none"
        IN IF d.current_type = "A" THEN RetryOverIPv6(last, st, buf, sk)
           ELSE GiveUp(last, fd, st, buf, sk)
     /\ UNCHANGED hung
  \/ /\ ~LoopEnds(d)
     /\ hung' = TRUE
     /\ doh' = d
     /\ origin_fd' = "closed"
     /\ Settle(state, Watch(interest.client, {}), st, buf, sk)
     /\ UNCHANGED <<error, reply>>

try_next_dns_connection(d, st, buf, sk) ==
  IF Rcode(d) = 0 THEN TryNextAnswer(d, st, buf, sk)
  ELSE /\ IF d.current_type = "A" THEN RetryOverIPv6(d, st, buf, sk)
          ELSE GiveUp(d, "closed", st, buf, sk)
       /\ UNCHANGED hung

-----------------------------------------------------------------------------
(* on_read_ready of each state, after the callback has stored what arrived *)

\* The parser takes the request line byte by byte; what follows it in the
\* same read stays in the buffer, and is dropped for CONNECT
ParsingRead(buf, sk) ==
  LET taken == Length(buf.client) - (sk.client.read - RequestLength)
      line == [buf EXCEPT !.client = ReadAdv(@, taken)]
      kept == IF request.connect THEN [buf EXCEPT !.client = EmptyQueue] ELSE line
  IN
  \/ /\ sk.client.read < RequestLength
     /\ Settle(state, interest, status,
               [buf EXCEPT !.client = ReadAdv(@, Length(@))], sk)
     /\ UNCHANGED <<origin_fd, error, reply>>
  \/ /\ sk.client.read >= RequestLength /\ ~request.valid
     /\ EnterError("400", status, line, sk)
     /\ UNCHANGED <<origin_fd, reply>>
  \/ /\ sk.client.read >= RequestLength /\ request.valid
     /\ OpenOrigin(IF request.host = "domain" THEN "doh" ELSE "host",
                   status, kept, line, sk)

\* The units that await in the buffer, and the response once fed the first j
Fresh(buf) == [i \in 1 .. Length(buf.origin) |-> reply[buf.origin.bytes[i].n]]
Fed(buf, j) == [doh EXCEPT !.parsed = @ \o SubSeq(Fresh(buf), 1, j)]

\* Mutant: the bytes of the response are left in the buffer
Consumed_Keeps(buf) == buf

Consumed(buf) == [buf EXCEPT !.origin = EmptyQueue]

KeepAwaiting(d, st, buf, sk) ==
  /\ doh' = d
  /\ Settle(state, interest, st, buf, sk)
  /\ UNCHANGED <<origin_fd, error, reply, hung>>

\* The response d has just ended, well or badly.  A complete one does not
\* leave the state: the server's close does.
ResponseEnds(d, st, buf, sk) ==
  \/ /\ Verdict(d.parsed) = "malformed"
     /\ doh' = d
     /\ EnterError("502", st, buf, sk)
     /\ UNCHANGED <<origin_fd, reply, hung>>
  \/ /\ Verdict(d.parsed) = "no_answers" /\ d.current_type = "AAAA"
     /\ doh' = d
     /\ EnterError("500", st, buf, sk)
     /\ UNCHANGED <<origin_fd, reply, hung>>
  \/ /\ Verdict(d.parsed) = "no_answers" /\ d.current_type = "A"
     /\ RetryOverIPv6(d, st, Consumed(buf), sk)
     /\ UNCHANGED hung
  \/ /\ Verdict(d.parsed) = "complete"
     /\ KeepAwaiting(d, st, Consumed(buf), sk)

\* The header d ends in announces answers, and there is no memory for them
AnswersNotAllocated(d, st, buf, sk) ==
  /\ HeaderParsed(d.parsed) /\ Len(d.parsed) = 2
  /\ Ancount(d) > 0
  /\ doh' = d
  /\ EnterError("500", st, buf, sk)
  /\ UNCHANGED <<origin_fd, reply, hung>>

\* The response parsers take the buffered units one by one, up to the first
\* that ends the response, if any.  Once it has ended nothing is taken from the
\* buffer any more, and the loop waits for the buffer to empty.
AwaitDohRead(st, buf, sk) ==
  LET Stops(j) == Verdict(Fed(buf, j).parsed) # "more"
      arrived == Len(Fresh(buf))
  IN
  \/ /\ error = "500"
     /\ EnterError("500", st, buf, sk)
     /\ UNCHANGED <<origin_fd, doh, reply, hung>>
  \/ /\ error # "500" /\ Verdict(doh.parsed) = "complete" /\ arrived > 0
     /\ hung' = TRUE
     /\ Settle(state, interest, st, buf, sk)
     /\ UNCHANGED <<origin_fd, error, doh, reply>>
  \/ \E stop \in 1 .. arrived :
       /\ error # "500" /\ Verdict(doh.parsed) = "more"
       /\ Stops(stop)
       /\ \A j \in 1 .. stop - 1 : ~Stops(j)
       /\ ResponseEnds(Fed(buf, stop), st, buf, sk)
  \/ \E stop \in 1 .. arrived :
       /\ error # "500"
       /\ ~HeaderParsed(doh.parsed)
       /\ AnswersNotAllocated(Fed(buf, stop), st, buf, sk)
  \/ /\ error # "500"
     /\ arrived = 0 \/ Verdict(doh.parsed) = "more"
     /\ \A j \in 1 .. arrived : ~Stops(j)
     /\ IF st.origin = "CLOSING"
          THEN try_next_dns_connection(Fed(buf, arrived), st, Consumed(buf),
                                       [sk EXCEPT !.origin.shut = TRUE])
          ELSE KeepAwaiting(Fed(buf, arrived), st, Consumed(buf), sk)

ConnectedRead(st, buf, sk) ==
  IF \E s \in Sides : st[s] = "CLOSING" THEN SettleClosing(st, buf, sk)
  ELSE SettleConnected(st, buf, sk)

ClosingRead(s, st, buf, sk) ==
  \/ /\ st[s] # "CLOSING"
     /\ SettleClosing(st, buf, sk)
     /\ UNCHANGED <<metrics, live, origin_fd>>
  \/ /\ st[s] = "CLOSING" /\ \E x \in Sides : CanRead(buf[x])
     /\ SettleEmptyBuffers(st, buf, sk)
     /\ UNCHANGED <<metrics, live, origin_fd>>
  \/ /\ st[s] = "CLOSING" /\ \A x \in Sides : ~CanRead(buf[x])
     /\ EnterDone(st, buf, [sk EXCEPT ![Other(s)].shut = TRUE])
     /\ metrics' = unregister_connection(metrics)

StmRead(s, st, buf, sk) ==
  \/ /\ state = "PARSING_REQUEST_LINE"
     /\ ParsingRead(buf, sk)
     /\ UNCHANGED <<doh, metrics, live, hung>>
  \/ /\ state = "AWAIT_DOH_RESPONSE"
     /\ AwaitDohRead(st, buf, sk)
     /\ UNCHANGED <<metrics, live>>
  \/ /\ state = "CONNECTED"
     /\ ConnectedRead(st, buf, sk)
     /\ UNCHANGED <<origin_fd, error, doh, reply, metrics, live, hung>>
  \/ /\ state = "CLOSING"
     /\ ClosingRead(s, st, buf, sk)
     /\ UNCHANGED <<error, doh, reply, hung>>

-----------------------------------------------------------------------------
(* on_write_ready of each state, after the callback has sent and counted m *)

\* The origin's connect() has ended: check_origin_connection
TryConnectionIpWrite ==
  LET connected == sock.origin.link = "up" /\ ~sock.origin.reset
      resolving == request.host = "domain" /\ ~doh.is_active
  IN
  \/ /\ connected /\ resolving
     /\ EnterSendDohRequest(status, buffer, sock)
     /\ UNCHANGED <<metrics, origin_fd, error, doh, reply, hung>>
  \/ /\ connected /\ ~resolving
     /\ metrics' = register_new_connection(metrics)
     /\ IF request.connect
          THEN SettleConnected(status,
                 [buffer EXCEPT !.origin = WriteAdv(EmptyQueue, Message("ok"))], sock)
          ELSE EnterSendRequestLine(status, buffer, sock)
     /\ UNCHANGED <<origin_fd, error, doh, reply, hung>>
  \/ /\ ~connected
     /\ metrics' = increase_failed_connections(metrics)
     /\ IF request.host = "domain" /\ doh.allocated
          THEN try_next_dns_connection(doh, status, buffer, sock)
          ELSE /\ EnterError("500", status, buffer, sock)
               /\ UNCHANGED <<origin_fd, doh, reply, hung>>

EmptyBuffersWrite(buf, sk, m) ==
  LET st == CloseDrained(status, buf) IN
  IF \A s \in Sides : st[s] = "CLOSED"
    THEN /\ EnterDone(st, buf, ShutDrained(status, buf, sk))
         /\ metrics' = unregister_connection(m)
    ELSE /\ SettleEmptyBuffers(status, buf, sk)
         /\ metrics' = m
         /\ UNCHANGED <<live, origin_fd>>

\* A state that only empties the origin's buffer stays until it has
StmWrite(buf, sk, m) ==
  LET sending == CanRead(buf.origin)
      Stay == Settle(state, interest, status, buf, sk)
  IN
  \/ /\ state = "SEND_DOH_REQUEST"
     /\ IF sending THEN Stay /\ UNCHANGED <<doh, error>>
        ELSE EnterAwaitDohResponse(status, buf, sk)
     /\ metrics' = m
     /\ UNCHANGED <<live, origin_fd>>
  \/ /\ state = "SEND_REQUEST_LINE"
     /\ IF sending THEN Stay ELSE SettleConnected(status, buf, sk)
     /\ metrics' = m
     /\ UNCHANGED <<doh, error, live, origin_fd>>
  \/ /\ state = "CONNECTED"
     /\ SettleConnected(status, buf, sk)
     /\ metrics' = m
     /\ UNCHANGED <<doh, error, live, origin_fd>>
  \/ /\ state = "CLOSING"
     /\ SettleClosing(status, buf, sk)
     /\ metrics' = m
     /\ UNCHANGED <<doh, error, live, origin_fd>>
  \/ /\ state = "EMPTY_BUFFERS"
     /\ EmptyBuffersWrite(buf, sk, m)
     /\ UNCHANGED <<doh, error>>
  \/ /\ state = "ERROR"
     /\ IF sending THEN Stay /\ UNCHANGED <<live, origin_fd>> ELSE EnterDone(status, buf, sk)
     /\ metrics' = m
     /\ UNCHANGED <<doh, error>>

-----------------------------------------------------------------------------
(* The callbacks of connections_manager.c *)

\* Mutant: connections are taken to be counted from CONNECTED on
close_proxy_connection_LateCount(m) ==
  /\ metrics' = IF state \in BeforeConnected THEN m ELSE unregister_connection(m)
  /\ Release(status)
  /\ UNCHANGED <<state, status, buffer, sock, error, doh, reply, hung>>

\* close_proxy_connection, after the counters were left at m
close_proxy_connection(m) ==
  /\ metrics' = IF state \in BeforeSendRequestLine THEN m ELSE unregister_connection(m)
  /\ Release(status)
  /\ UNCHANGED <<state, status, buffer, sock, error, doh, reply, hung>>

\* proxy_client_read and proxy_origin_read.  A read into a full buffer asks
\* for no bytes, and its 0 is taken for the peer's end of file.
HandleRead(s) ==
  LET room == Room(buffer[s])
      n == IF Unread(s) < room THEN Unread(s) ELSE room
  IN
  /\ ReadReady(s)
  /\ idle' = FALSE
  /\ UNCHANGED request
  /\ \/ /\ sock[s].reset
        /\ close_proxy_connection(metrics)
     \/ /\ ~sock[s].reset /\ n = 0 /\ s = "client" /\ state \in BeforeConnected
        /\ close_proxy_connection(metrics)
     \/ /\ ~sock[s].reset /\ n = 0 /\ ~(s = "client" /\ state \in BeforeConnected)
        /\ StmRead(s, [status EXCEPT ![s] = "CLOSING"], buffer, sock)
     \/ /\ ~sock[s].reset /\ n > 0
        /\ StmRead(s, status, [buffer EXCEPT ![s] = WriteAdv(@, Arriving(s, n))],
                   [sock EXCEPT ![s].read = @ + n])

\* Mutant: SEND_REQUEST_LINE sends from the client's buffer
Outgoing_AlwaysOther(s) == Other(s)

\* The buffer a side's write callback sends from
Outgoing(s) ==
  IF s = "origin" /\ state \in {"SEND_REQUEST_LINE", "SEND_DOH_REQUEST"} THEN "origin"
  ELSE Other(s)

SendFails(s) ==
  \/ ~CanRead(buffer[Outgoing(s)])
  \/ sock[s].reset
  \/ sock[s].shut
  \/ sock[s].link # "up"

\* Whether a send has filled the kernel's buffer
Fills == {FALSE, PeerStalls}

\* proxy_client_write and proxy_origin_write; send() may take only a part
HandleWrite(s) ==
  /\ WriteReady(s)
  /\ idle' = FALSE
  /\ UNCHANGED request
  /\ \/ /\ s = "origin" /\ state = "TRY_CONNECTION_IP"
        /\ TryConnectionIpWrite
        /\ UNCHANGED live
     \/ /\ ~(s = "origin" /\ state = "TRY_CONNECTION_IP")
        /\ SendFails(s)
        /\ close_proxy_connection(metrics)
     \/ /\ ~(s = "origin" /\ state = "TRY_CONNECTION_IP")
        /\ ~SendFails(s)
        /\ \E n \in 1 .. Length(buffer[Outgoing(s)]), full \in Fills :
             StmWrite([buffer EXCEPT ![Outgoing(s)] = ReadAdv(@, n)],
                      [sock EXCEPT ![s].got = @ \o SubSeq(buffer[Outgoing(s)].bytes, 1, n),
                                   ![s].full = full],
                      Transferred(metrics, s, n))
        /\ UNCHANGED <<reply, hung>>

proxy_client_read == ~hung /\ HandleRead("client")
proxy_origin_read == ~hung /\ HandleRead("origin")
proxy_client_write == ~hung /\ HandleWrite("client")
proxy_origin_write == ~hung /\ HandleWrite("origin")

\* Time passes only while select() has nothing to report on the connection
BecomeIdle ==
  /\ live /\ ~hung /\ ~idle
  /\ \A s \in Sides : ~ReadReady(s) /\ ~WriteReady(s)
  /\ idle' = TRUE
  /\ UNCHANGED <<state, status, interest, buffer, sock, origin_fd, request, error,
                 doh, reply, metrics, live, hung>>

\* Mutant: connections that are not counted are not collected
connection_garbage_collect_OnlyCounted ==
  /\ live /\ ~hung /\ idle
  /\ state \notin BeforeSendRequestLine
  /\ close_proxy_connection(unregister_connection(metrics))
  /\ UNCHANGED <<request, idle>>

\* It counts the connection out, and so does the function it then calls
connection_garbage_collect ==
  /\ live /\ ~hung /\ idle
  /\ close_proxy_connection(IF state \in BeforeSendRequestLine THEN metrics
                            ELSE unregister_connection(metrics))
  /\ UNCHANGED <<request, idle>>

-----------------------------------------------------------------------------
(* The peers and the network *)

Unmoved == UNCHANGED <<state, status, interest, buffer, origin_fd, request, error,
                       doh, metrics, live, hung, idle>>

\* The side has a socket whose peer may still act
Reachable(s) ==
  Registered(s) /\ sock[s].link = "up" /\ ~sock[s].fin /\ ~sock[s].reset

PeerSends(s) ==
  /\ Reachable(s)
  /\ \/ sock[s].peer = "client" /\ sock[s].sent < ClientBytes
     \/ sock[s].peer = "host" /\ sock[s].sent < HostBytes
  /\ sock' = [sock EXCEPT ![s].sent = @ + 1]
  /\ UNCHANGED reply /\ Unmoved

DohServerSends ==
  /\ Reachable("origin")
  /\ sock.origin.peer = "doh"
  /\ \E u \in NextUnits(reply, MaxAnswers, ExtraUnits) : reply' = Append(reply, u)
  /\ sock' = [sock EXCEPT !.origin.sent = @ + 1]
  /\ Unmoved

PeerFinishes(s) ==
  /\ Reachable(s)
  /\ sock' = [sock EXCEPT ![s].fin = TRUE]
  /\ UNCHANGED reply /\ Unmoved

PeerResetsConnection(s) ==
  /\ PeerResets
  /\ Registered(s) /\ sock[s].link = "up" /\ ~sock[s].reset
  /\ sock' = [sock EXCEPT ![s].reset = TRUE]
  /\ UNCHANGED reply /\ Unmoved

\* The peer reads again, and the send buffer has room
PeerReads(s) ==
  /\ Registered(s) /\ sock[s].full /\ ~sock[s].reset
  /\ sock' = [sock EXCEPT ![s].full = FALSE]
  /\ UNCHANGED reply /\ Unmoved

ConnectEnds ==
  /\ Registered("origin")
  /\ sock.origin.link = "pending"
  /\ \E link \in {"up", "failed"} : sock' = [sock EXCEPT !.origin.link = link]
  /\ UNCHANGED reply /\ Unmoved

Environment ==
  \/ \E s \in Sides :
       PeerSends(s) \/ PeerFinishes(s) \/ PeerReads(s) \/ PeerResetsConnection(s)
  \/ DohServerSends
  \/ ConnectEnds

\* create_new_connection allocates buffers of the size that is set, and gives
\* buffer_init a limit of BUFFER_SIZE.  What lies behind the memory is not
\* modelled: a queue that leaves it goes on as if there were room.
WithinMemory(q) == q.skip + Length(q) <= Memory

\* accept_new_connection and create_new_connection
Init ==
  /\ state = "PARSING_REQUEST_LINE"
  /\ status = [s \in Sides |-> IF s = "client" THEN "ACTIVE" ELSE "INACTIVE"]
  /\ interest = Watch({"READ"}, {})
  /\ buffer = [s \in Sides |-> EmptyQueue]
  /\ sock = [s \in Sides |-> IF s = "client" THEN Socket("client", "up")
                             ELSE Socket("none", "pending")]
  /\ origin_fd = "none"
  /\ request \in Requests
  /\ error = "0"
  /\ doh = NoDoh
  /\ reply = <<>>
  /\ metrics = [historical |-> 0, concurrent |-> OtherConnections, failed |-> 0,
                received |-> 0, sent |-> 0]
  /\ live = TRUE
  /\ hung = FALSE
  /\ idle = FALSE

Handlers ==
  \/ proxy_client_read \/ proxy_client_write
  \/ proxy_origin_read \/ proxy_origin_write
  \/ BecomeIdle \/ connection_garbage_collect

\* The struct is freed, or the only thread never comes back to it
Over == (~live \/ hung) /\ UNCHANGED vars

Next == Handlers \/ Environment \/ Over

Spec == Init /\ [][Next]_vars

\* The selector's loop visits every ready descriptor on each iteration and
\* runs the garbage collector at every interval; connect() always ends.  A
\* peer need not send, read or finish.
Fairness ==
  /\ WF_vars(proxy_client_read) /\ WF_vars(proxy_client_write)
  /\ WF_vars(proxy_origin_read) /\ WF_vars(proxy_origin_write)
  /\ WF_vars(BecomeIdle) /\ WF_vars(connection_garbage_collect)
  /\ WF_vars(ConnectEnds)

FairSpec == Spec /\ Fairness
=============================================================================
