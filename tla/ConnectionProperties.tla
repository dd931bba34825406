------------------------ MODULE ConnectionProperties ------------------------
(***************************************************************************)
(* What must hold of a proxied connection.                                 *)
(***************************************************************************)
EXTENDS Connection

Statuses == {"INACTIVE", "ACTIVE", "CLOSING", "CLOSED"}

SocketType ==
  [peer : {"none", "client", "host", "doh"}, link : {"pending", "up", "failed"},
   sent : Nat, read : Nat, got : Seq(Byte),
   full : BOOLEAN, fin : BOOLEAN, reset : BOOLEAN, shut : BOOLEAN]

DohType ==
  [allocated : BOOLEAN, is_active : BOOLEAN, current_type : {"A", "AAAA"},
   current_try : Nat, parsed : Seq(Unit)]

MetricsType ==
  [historical : Nat, concurrent : Nat, failed : Nat, received : Nat, sent : Nat]

\* Every variable has its type
Typed ==
  /\ state \in States
  /\ status \in [Sides -> Statuses]
  /\ interest \in [Sides -> SUBSET Operations]
  /\ buffer \in [Sides -> QueueOf(Byte)]
  /\ sock \in [Sides -> SocketType]
  /\ origin_fd \in {"none", "registered", "unregistered", "closed"}
  /\ request \in Requests
  /\ error \in {"0", "400", "500", "502"}
  /\ doh \in DohType
  /\ reply \in Seq(Unit)
  /\ metrics \in MetricsType
  /\ live \in BOOLEAN
  /\ hung \in BOOLEAN
  /\ idle \in BOOLEAN

\* Every variable has its type: in particular no message and no read takes a
\* buffer past its limit, BUFFER_SIZE.  That keeps it within its memory as long as
\* the size set for buffers when the client was accepted is no smaller.
TypeOK ==
  /\ Typed
  /\ Capacity <= Memory => \A s \in Sides : WithinMemory(buffer[s])

-----------------------------------------------------------------------------
(* Dispatch *)

HaveReadHandler == {"PARSING_REQUEST_LINE", "AWAIT_DOH_RESPONSE", "CONNECTED", "CLOSING"}
HaveWriteHandler == States \ {"PARSING_REQUEST_LINE", "AWAIT_DOH_RESPONSE", "DONE"}

\* stm_handler_read and stm_handler_write abort() the whole proxy in a state
\* without the handler: no descriptor is watched for such an operation.
DispatchHandled ==
  \A s \in Sides :
    /\ "READ" \in interest[s] => state \in HaveReadHandler
    /\ "WRITE" \in interest[s] => state \in HaveWriteHandler

\* The callbacks take a transfer of no bytes for the peer's end of file (read)
\* or for an error (send): a descriptor is watched only while its buffer has
\* room, or something to send.
NoEmptyTransfer ==
  ~hung => \A s \in Sides :
    /\ "READ" \in interest[s] => CanWrite(buffer[s])
    /\ "WRITE" \in interest[s] =>
         \/ s = "origin" /\ state = "TRY_CONNECTION_IP"
         \/ CanRead(buffer[Outgoing(s)])

\* A connection always waits for something: if the handlers left both sides
\* unwatched it could only be collected as inactive.
AlwaysWatched ==
  live /\ ~hung => \E s \in Sides : Registered(s) /\ interest[s] # {}

\* The origin's item in the selector points to the struct that the client's
\* close frees: it never outlives it, nor exists while origin_status, by which
\* close_proxy_connection decides to remove it, says there is none.
NoOrphanOrigin ==
  origin_fd = "registered" => live /\ status.origin # "INACTIVE"

-----------------------------------------------------------------------------
(* What reaches the peers *)

Relaying == {"SEND_REQUEST_LINE", "CONNECTED", "CLOSING", "EMPTY_BUFFERS"}

\* The bytes on their way to the origin: those the rewritten request line still
\* occupies in the origin's own buffer, then the client's
ToOrigin ==
  (IF state = "SEND_REQUEST_LINE" THEN buffer.origin.bytes ELSE <<>>) \o buffer.client.bytes

\* Nothing of the client's stream is lost, repeated or reordered on its way to
\* the host, across partial writes, the states and the half-close.  For CONNECT
\* the tunnel carries an unbroken run of it, up to the last byte read.
UploadIntact ==
  live /\ state \in Relaying =>
    LET upload == sock.origin.got \o ToOrigin IN
    /\ sock.origin.peer = "host"
    /\ IF request.connect
         THEN upload = Bytes("client", sock.client.read + 1 - Len(upload), sock.client.read)
         ELSE upload = Message("request")
                         \o Bytes("client", RequestLength + 1, sock.client.read)

\* The client sees the host's stream, after "200 OK" for CONNECT, or exactly one
\* error message: never a piece of the DoH dialogue or of the rewritten request,
\* which pass through the same buffer, and never both.
DownloadIntact ==
  live =>
    CASE state \in {"CONNECTED", "CLOSING", "EMPTY_BUFFERS"} ->
           sock.client.got \o buffer.origin.bytes =
             (IF request.connect THEN Message("ok") ELSE <<>>)
               \o Bytes("host", 1, sock.origin.read)
      [] state = "ERROR" -> sock.client.got \o buffer.origin.bytes = Message("error")
      [] OTHER -> sock.client.got = <<>>

\* A TCP connection to the resolver carries one DNS query and nothing else, one
\* to the host never a DNS query, although TRY_CONNECTION_IP serves both and only
\* doh_connection tells them apart.
ResolverIsolated ==
  /\ state = "TRY_CONNECTION_IP" =>
       (sock.origin.peer = "doh" <=> request.host = "domain" /\ ~doh.is_active)
  /\ sock.origin.peer = "doh" =>
       sock.origin.got = Bytes("query", 1, Len(sock.origin.got))
  /\ state = "AWAIT_DOH_RESPONSE" /\ live => sock.origin.got = Message("query")
  /\ sock.origin.peer = "host" =>
       \A i \in 1 .. Len(sock.origin.got) : sock.origin.got[i].from # "query"

\* Half-close: a peer is sent the end of the other's stream only when the other
\* has ended it and all of it has been sent on.
HalfCloseAfterDelivery ==
  \A s \in Sides :
    sock[s].shut /\ sock[s].peer # "doh" =>
      /\ sock[Other(s)].fin
      /\ Unread(Other(s)) = 0
      /\ ~CanRead(buffer[Other(s)])

-----------------------------------------------------------------------------
(* Name resolution *)

\* doh_response_parser_destroy leaves answers NULL while the header keeps its
\* count.  If the connection for the AAAA query then fails, try_next runs again
\* over that response: it must find nothing to visit.
NoDanglingAnswers ==
  state = "TRY_CONNECTION_IP" /\ doh.allocated /\ ~doh.is_active =>
    \/ Rcode(doh) # 0
    \/ doh.current_try >= Ancount(doh)

\* Resolution makes progress: over one response each attempt takes a later
\* answer, as long as current_try, a uint8_t, can count them, and AAAA is never
\* followed by A.
TriesAdvance ==
  [][/\ doh.current_type = "AAAA" => doh'.current_type = "AAAA"
     /\ sock.origin.peer = "host" /\ sock'.origin.peer = "host"
          /\ sock.origin.link # "pending" /\ sock'.origin.link = "pending"
          /\ Ancount(doh) < TryModulus
        => doh'.current_try > doh.current_try]_vars

-----------------------------------------------------------------------------
(* Metrics *)

\* A connection is counted when it reaches its host, once, and its release
\* always counts it out: the gauge never drifts upwards.
GaugeNeverLeaks ==
  /\ live /\ state \in Relaying =>
       metrics.historical = 1 /\ metrics.concurrent = OtherConnections + 1
  /\ ~live => metrics.concurrent <= OtherConnections

\* percy_protocol.txt, 4.2.2: the concurrent connections are the clients that
\* are connected.  This one counts from register_new_connection to its release.
GaugeExact ==
  metrics.concurrent =
    OtherConnections + (IF live /\ metrics.historical = 1 THEN 1 ELSE 0)

-----------------------------------------------------------------------------
(* The selector *)

\* selector.h: handlers must not block, since that delays every descriptor.  The
\* loops over a response end for a resolver that sends nothing after it, does not
\* break off within ANCOUNT, and gives no more answers than current_try counts.
HandlersReturn ==
  hung => \/ \E i \in 1 .. Len(reply) : reply[i].kind = "extra"
          \/ ~LoopEnds(doh)

-----------------------------------------------------------------------------
(* Liveness *)

Broken == \E s \in Sides : sock[s].reset

\* Every connection is eventually released, by its peers or as inactive, unless one
\* of its handlers never returns (HandlersReturn says which may not).
EventuallyReleased == <>(~live \/ hung)

\* The peer has read nothing for inactive_threshold seconds: the collector is
\* about to take the connection for an inactive one, whatever it holds.  The two
\* properties below speak of connections it has not come to that with.
Stalled(s) == idle /\ sock[s].full

\* An error message is delivered in full, unless the client breaks off or stalls:
\* one that is slow, and reads again in time, gets all of it.
ErrorReported ==
  live /\ ~idle /\ state = "ERROR" ~>
      sock.client.got = Message("error") \/ Broken \/ Stalled("client")

\* The end of one peer's stream, once read, is passed on to the other, however
\* long that one makes the bytes before it wait, unless it stalls.
HalfCloseForwarded ==
  \A s \in Sides :
    live /\ ~idle /\ state \in Relaying /\ status[s] = "CLOSING" ~>
      sock[Other(s)].shut \/ Broken \/ Stalled(Other(s))
=============================================================================
