------------------------- MODULE ConnectionProofs --------------------------
(***************************************************************************)
(* Theorems about a connection, on three inductive invariants.  First that *)
(* it keeps its types, never overruns a buffer, never reaches a state      *)
(* without the handler it is watched for, never leaves an origin behind in *)
(* the selector, and never visits the answers of a response that was       *)
(* freed; then that it always waits for something it can transfer, that    *)
(* half-close follows delivery, and that the gauge of connections never    *)
(* drifts upwards.  Then that the streams a connection relays arrive as    *)
(* they were sent: the client's at the host, the host's (or one error      *)
(* message) at the client, and nothing but one query at the resolver; and  *)
(* that Connection implements Lifecycle, that a resolution always goes on  *)
(* to later answers, and that the loops over a response end.               *)
(***************************************************************************)
EXTENDS ConnectionLifecycle, TLAPS, SequenceTheorems

-----------------------------------------------------------------------------
(* The inductive invariant *)

\* The peers have sent what the proxy has read
ReadWasSent == \A s \in Sides : sock[s].read <= sock[s].sent

\* Before a message is composed for the origin its buffer is empty, so that the
\* message fits although its room is not looked at
OriginBufferFree ==
  state \in {"PARSING_REQUEST_LINE", "TRY_CONNECTION_IP"} => buffer.origin = EmptyQueue

\* The parser takes all it is given until the request line is complete
LineIncomplete ==
  state = "PARSING_REQUEST_LINE" =>
    buffer.client = EmptyQueue /\ sock.client.read < RequestLength

\* The units the buffered bytes stand for are units of the present reply
ReplyBuffered ==
  /\ sock.origin.peer = "doh" => Len(reply) = sock.origin.sent
  /\ state = "AWAIT_DOH_RESPONSE" =>
       \A i \in 1 .. Len(buffer.origin.bytes) :
         buffer.origin.bytes[i].n \in 1 .. sock.origin.read

\* Whom the sockets reach, by the state
PeerKnown ==
  /\ sock.client.peer = "client"
  /\ origin_fd = "registered" => sock.origin.peer \in {"doh", "host"}
  /\ state = "PARSING_REQUEST_LINE" => origin_fd = "none"
  /\ state \in {"SEND_DOH_REQUEST", "AWAIT_DOH_RESPONSE"} =>
       sock.origin.peer = "doh" /\ request.host = "domain"
  /\ state = "TRY_CONNECTION_IP" =>
       (sock.origin.peer = "doh" <=> request.host = "domain" /\ ~doh.is_active)

\* A response without answers left to visit: try_next ends at once
Exhausted(d) ==
  \/ Rcode(d) # 0
  \/ LoopEnds(d) /\ d.current_try >= Ancount(d)

\* Between the two queries: the answers are freed, AAAA comes next
BetweenQueries(d) ==
  d.allocated /\ ~d.is_active => d.current_type = "AAAA" /\ Exhausted(d)

\* The phases of the resolution
ResolutionPhase ==
  /\ doh.is_active => doh.allocated
  /\ state = "PARSING_REQUEST_LINE" => doh = NoDoh
  /\ state = "AWAIT_DOH_RESPONSE" /\ error # "500" => doh.is_active
  /\ state = "TRY_CONNECTION_IP" => BetweenQueries(doh)

IInv ==
  /\ Typed
  /\ DispatchHandled
  /\ NoOrphanOrigin
  /\ ReadWasSent
  /\ OriginBufferFree
  /\ LineIncomplete
  /\ ReplyBuffered
  /\ PeerKnown
  /\ ResolutionPhase

-----------------------------------------------------------------------------
(* Buffers *)

\* The assumption on the buffers' size, as the provers need it
LEMMA CapacityNat == Capacity \in Nat \ {0}
BY CapacityAssumption

\* An empty buffer fits
LEMMA EmptyQueueType == EmptyQueue \in QueueOf(Byte) /\ Len(EmptyQueue.bytes) = 0
BY CapacityNat DEF EmptyQueue, QueueOf

\* The fields of a buffer
LEMMA QueueFields ==
  ASSUME NEW q \in QueueOf(Byte)
  PROVE  /\ q.skip \in Nat
         /\ q.bytes \in Seq(Byte)
         /\ Len(q.bytes) \in Nat
         /\ q.skip + Len(q.bytes) <= Capacity
         /\ Length(q) = Len(q.bytes)
         /\ Room(q) \in Nat
BY CapacityNat DEF QueueOf, Length, Room

\* Writing at most the room there is overruns no buffer
LEMMA WriteAdvType ==
  ASSUME NEW q \in QueueOf(Byte), NEW s \in Seq(Byte), Len(s) <= Room(q)
  PROVE  WriteAdv(q, s) \in QueueOf(Byte)
<1>1. q.bytes \o s \in Seq(Byte) /\ Len(q.bytes \o s) = Len(q.bytes) + Len(s)
  BY QueueFields, ConcatProperties
<1>2. q.skip + (Len(q.bytes) + Len(s)) <= Capacity
  BY QueueFields, CapacityNat DEF Room, Length
<1>. QED BY <1>1, <1>2, QueueFields DEF WriteAdv, QueueOf

\* Reading at most what there is leaves a buffer that fits
LEMMA ReadAdvType ==
  ASSUME NEW q \in QueueOf(Byte), NEW n \in Nat, n <= Length(q)
  PROVE  ReadAdv(q, n) \in QueueOf(Byte)
<1>1. CASE n = Length(q)
  BY <1>1, EmptyQueueType DEF ReadAdv
<1>2. CASE n # Length(q)
  <2>1. /\ SubSeq(q.bytes, n + 1, Length(q)) \in Seq(Byte)
        /\ Len(SubSeq(q.bytes, n + 1, Length(q))) = Length(q) - n
    BY <1>2, QueueFields, SubSeqProperties
  <2>2. ReadAdv(q, n) = [skip |-> q.skip + n, bytes |-> SubSeq(q.bytes, n + 1, Length(q))]
    BY <1>2 DEF ReadAdv
  <2>3. (q.skip + n) + (Length(q) - n) <= Capacity /\ q.skip + n \in Nat
    BY QueueFields
  <2>. QED BY <2>1, <2>2, <2>3 DEF QueueOf
<1>. QED BY <1>1, <1>2

\* A run of numbered bytes
LEMMA BytesSeq ==
  ASSUME NEW f \in Sources, NEW a \in Nat, NEW b \in Nat, a <= b + 1
  PROVE  /\ Bytes(f, a, b) \in Seq(Byte)
         /\ Len(Bytes(f, a, b)) = (b + 1) - a
         /\ \A i \in 1 .. (b + 1) - a : Bytes(f, a, b)[i] = [from |-> f, n |-> a + (i - 1)]
<1>1. (b + 1) - a \in Nat
  OBVIOUS
<1>2. Bytes(f, a, b) \in [1 .. (b + 1) - a -> Byte]
  BY DEF Bytes, Byte
<1>. QED BY <1>1, <1>2 DEF Bytes

\* What the proxy composes fits an empty buffer
LEMMA MessageType ==
  ASSUME NEW kind \in Sources
  PROVE  /\ Message(kind) \in Seq(Byte)
         /\ Len(Message(kind)) = MessageLength
         /\ WriteAdv(EmptyQueue, Message(kind)) \in QueueOf(Byte)
<1>1. MessageLength \in Nat /\ 1 <= MessageLength + 1 /\ MessageLength <= Capacity
  BY ConnectionAssumption, CapacityNat
<1>2. Message(kind) \in Seq(Byte) /\ Len(Message(kind)) = MessageLength
  <2>1. Bytes(kind, 1, MessageLength) \in Seq(Byte)
        /\ Len(Bytes(kind, 1, MessageLength)) = (MessageLength + 1) - 1
    BY <1>1, BytesSeq
  <2>. QED BY <1>1, <2>1 DEF Message
<1>3. Room(EmptyQueue) = Capacity
  BY CapacityNat DEF Room, Length, EmptyQueue
<1>. QED BY <1>1, <1>2, <1>3, WriteAdvType, EmptyQueueType

-----------------------------------------------------------------------------
(* What a handler leaves behind, apart from what the state requires *)

\* What the handlers pass from one to the other: statuses, buffers and sockets
ArgsOK(st, buf, sk) ==
  /\ st \in [Sides -> Statuses]
  /\ buf \in [Sides -> QueueOf(Byte)]
  /\ sk \in [Sides -> SocketType]
  /\ \A s \in Sides : sk[s].read <= sk[s].sent
  /\ sk.client.peer = "client"

\* What entering or staying in a state establishes
SettledAs(next) ==
  /\ state = next
  /\ ArgsOK(status, buffer, sock)
  /\ interest \in [Sides -> SUBSET Operations]
  /\ DispatchHandled

\* What every step establishes, whatever the state
Common ==
  /\ origin_fd \in {"none", "registered", "unregistered", "closed"}
  /\ request \in Requests
  /\ error \in {"0", "400", "500", "502"}
  /\ doh \in DohType
  /\ reply \in Seq(Unit)
  /\ metrics \in MetricsType
  /\ live \in BOOLEAN
  /\ hung \in BOOLEAN
  /\ idle \in BOOLEAN
  /\ NoOrphanOrigin
  /\ sock.origin.peer = "doh" => Len(reply) = sock.origin.sent
  /\ origin_fd = "registered" => sock.origin.peer \in {"doh", "host"}
  /\ doh.is_active => doh.allocated

\* The states of which the invariant asks nothing more
QuietStates == {"SEND_REQUEST_LINE", "CONNECTED", "CLOSING", "EMPTY_BUFFERS", "DONE", "ERROR"}

\* In a quiet state the types and what is common to all states are enough
LEMMA QuietIInv ==
  ASSUME NEW next \in QuietStates, SettledAs(next)', Common'
  PROVE  IInv'
BY DEF IInv, Typed, ReadWasSent, OriginBufferFree, LineIncomplete, ReplyBuffered, PeerKnown,
       ResolutionPhase, SettledAs, ArgsOK, Common, QuietStates, States

\* What the invariant says of the statuses, buffers and sockets a handler is given
LEMMA IInvArgs ==
  ASSUME IInv
  PROVE  ArgsOK(status, buffer, sock) /\ Common
BY DEF IInv, Typed, ReadWasSent, ReplyBuffered, PeerKnown, ResolutionPhase, ArgsOK, Common

\* Entering ERROR leaves one message in the origin's buffer
LEMMA EnterErrorOK ==
  ASSUME NEW code, NEW st, NEW buf, NEW sk, ArgsOK(st, buf, sk), EnterError(code, st, buf, sk)
  PROVE  SettledAs("ERROR")' /\ status' = st /\ sock' = sk /\ error' = code
<1>1. WriteAdv(EmptyQueue, Message("error")) \in QueueOf(Byte)
  BY MessageType DEF Sources
<1>2. buffer' \in [Sides -> QueueOf(Byte)]
  BY <1>1 DEF EnterError, Settle, ArgsOK, Sides
<1>. QED BY <1>2 DEF EnterError, Settle, SettledAs, ArgsOK, DispatchHandled, Watch, Sides,
            Operations, HaveReadHandler, HaveWriteHandler, States

\* Entering TRY_CONNECTION_IP only watches the origin
LEMMA EnterTryConnectionIpOK ==
  ASSUME NEW st, NEW buf, NEW sk, ArgsOK(st, buf, sk), EnterTryConnectionIp(st, buf, sk)
  PROVE  SettledAs("TRY_CONNECTION_IP")' /\ status' = st /\ buffer' = buf /\ sock' = sk
BY DEF EnterTryConnectionIp, Settle, SettledAs, ArgsOK, DispatchHandled, Watch, Sides,
       Operations, HaveReadHandler, HaveWriteHandler, States

\* A message composed behind an empty buffer fits
LEMMA ComposeType ==
  ASSUME NEW buf \in [Sides -> QueueOf(Byte)], NEW kind \in Sources, buf.origin = EmptyQueue
  PROVE  Compose(kind, buf) \in [Sides -> QueueOf(Byte)]
BY MessageType DEF Compose, Sides

\* Entering SEND_DOH_REQUEST composes a query that fits
LEMMA EnterSendDohRequestOK ==
  ASSUME NEW st, NEW buf, NEW sk, ArgsOK(st, buf, sk), buf.origin = EmptyQueue,
         EnterSendDohRequest(st, buf, sk)
  PROVE  SettledAs("SEND_DOH_REQUEST")' /\ status' = st /\ sock' = sk
<1>1. Compose("query", buf) \in [Sides -> QueueOf(Byte)]
  BY ComposeType DEF Sources, ArgsOK
<1>. QED BY <1>1 DEF EnterSendDohRequest, Settle, SettledAs, ArgsOK, DispatchHandled, Watch,
            Sides, Operations, HaveReadHandler, HaveWriteHandler, States

\* Entering SEND_REQUEST_LINE composes a request line that fits
LEMMA EnterSendRequestLineOK ==
  ASSUME NEW st, NEW buf, NEW sk, ArgsOK(st, buf, sk), buf.origin = EmptyQueue,
         EnterSendRequestLine(st, buf, sk)
  PROVE  SettledAs("SEND_REQUEST_LINE")' /\ status' = st /\ sock' = sk
<1>1. Compose("request", buf) \in [Sides -> QueueOf(Byte)]
  BY ComposeType DEF Sources, ArgsOK
<1>. QED BY <1>1 DEF EnterSendRequestLine, Settle, SettledAs, ArgsOK, DispatchHandled, Watch,
            Sides, Operations, HaveReadHandler, HaveWriteHandler, States

\* Entering AWAIT_DOH_RESPONSE only watches the origin
LEMMA EnterAwaitDohResponseOK ==
  ASSUME NEW st, NEW buf, NEW sk, ArgsOK(st, buf, sk), EnterAwaitDohResponse(st, buf, sk)
  PROVE  SettledAs("AWAIT_DOH_RESPONSE")' /\ status' = st /\ buffer' = buf /\ sock' = sk
BY DEF EnterAwaitDohResponse, Settle, SettledAs, ArgsOK, DispatchHandled, Watch,
       Sides, Operations, HaveReadHandler, HaveWriteHandler, States

\* Entering CONNECTED, or staying in it, watches what has a handler
LEMMA SettleConnectedOK ==
  ASSUME NEW st, NEW buf, NEW sk, ArgsOK(st, buf, sk), SettleConnected(st, buf, sk)
  PROVE  SettledAs("CONNECTED")' /\ status' = st /\ sock' = sk
BY DEF SettleConnected, ConnectedInterest, When, Settle, SettledAs, ArgsOK, DispatchHandled,
       Sides, Operations, HaveReadHandler, HaveWriteHandler, States

\* What the settling of CLOSING and EMPTY_BUFFERS leaves of the sockets
LEMMA ShutDrainedOK ==
  ASSUME NEW st, NEW buf, NEW sk, ArgsOK(st, buf, sk)
  PROVE  /\ ArgsOK(CloseDrained(st, buf), buf, ShutDrained(st, buf, sk))
         /\ \A s \in Sides : /\ ShutDrained(st, buf, sk)[s].peer = sk[s].peer
                             /\ ShutDrained(st, buf, sk)[s].sent = sk[s].sent
         /\ st.origin # "INACTIVE" => CloseDrained(st, buf).origin # "INACTIVE"
<1>1. CloseDrained(st, buf) \in [Sides -> Statuses]
  BY DEF CloseDrained, ArgsOK, Statuses
<1>2. ASSUME NEW s \in Sides
      PROVE  /\ ShutDrained(st, buf, sk)[s] \in SocketType
             /\ ShutDrained(st, buf, sk)[s].peer = sk[s].peer
             /\ ShutDrained(st, buf, sk)[s].sent = sk[s].sent
             /\ ShutDrained(st, buf, sk)[s].read = sk[s].read
  BY DEF ShutDrained, ArgsOK, SocketType
<1>3. ShutDrained(st, buf, sk) \in [Sides -> SocketType]
  BY <1>2 DEF ShutDrained
<1>4. st.origin # "INACTIVE" => CloseDrained(st, buf).origin # "INACTIVE"
  BY DEF CloseDrained, Sides
<1>5. "client" \in Sides
  BY DEF Sides
<1>. QED BY <1>1, <1>2, <1>3, <1>4, <1>5 DEF ArgsOK

\* Entering CLOSING, or staying in it, keeps the types
LEMMA SettleClosingOK ==
  ASSUME NEW st, NEW buf, NEW sk, ArgsOK(st, buf, sk), SettleClosing(st, buf, sk)
  PROVE  /\ SettledAs("CLOSING")'
         /\ sock'.origin.peer = sk.origin.peer
         /\ sock'.origin.sent = sk.origin.sent
         /\ st.origin # "INACTIVE" => status'.origin # "INACTIVE"
<1>1. ArgsOK(status, buffer, sock)'
  BY ShutDrainedOK DEF SettleClosing, Settle, ArgsOK
<1>2. interest' \in [Sides -> SUBSET Operations]
  BY DEF SettleClosing, Settle, ClosingInterest, When, Operations
<1>3. "origin" \in Sides
  BY DEF Sides
<1>. QED BY <1>1, <1>2, <1>3, ShutDrainedOK DEF SettleClosing, Settle, SettledAs, DispatchHandled,
            HaveReadHandler, HaveWriteHandler, States

\* Entering EMPTY_BUFFERS, or staying in it, watches no reading
LEMMA SettleEmptyBuffersOK ==
  ASSUME NEW st, NEW buf, NEW sk, ArgsOK(st, buf, sk), SettleEmptyBuffers(st, buf, sk)
  PROVE  /\ SettledAs("EMPTY_BUFFERS")'
         /\ sock'.origin.peer = sk.origin.peer
         /\ sock'.origin.sent = sk.origin.sent
         /\ st.origin # "INACTIVE" => status'.origin # "INACTIVE"
<1>1. ArgsOK(status, buffer, sock)'
  BY ShutDrainedOK DEF SettleEmptyBuffers, Settle, ArgsOK
<1>2. interest' \in [Sides -> SUBSET {"WRITE"}]
  BY DEF SettleEmptyBuffers, Settle, EmptyBuffersInterest, When
<1>3. "origin" \in Sides
  BY DEF Sides
<1>. QED BY <1>1, <1>2, <1>3, ShutDrainedOK DEF SettleEmptyBuffers, Settle, SettledAs,
            DispatchHandled, Operations, HaveReadHandler, HaveWriteHandler, States

\* Entering DONE unregisters the origin whenever there is one
LEMMA EnterDoneOK ==
  ASSUME NEW st, NEW buf, NEW sk, ArgsOK(st, buf, sk), EnterDone(st, buf, sk),
         origin_fd = "registered" => st.origin # "INACTIVE",
         origin_fd \in {"none", "registered", "unregistered", "closed"}
  PROVE  /\ SettledAs("DONE")' /\ sock' = sk
         /\ live' = FALSE
         /\ origin_fd' \in {"none", "unregistered", "closed"}
BY DEF EnterDone, Release, Settle, SettledAs, ArgsOK, DispatchHandled, Watch, Sides,
       Operations, HaveReadHandler, HaveWriteHandler, States

-----------------------------------------------------------------------------
(* Opening a connection and going through the answers *)

\* What holds of the step whose handler opens a connection
Resolving(sk) ==
  /\ request \in Requests /\ request' = request
  /\ error \in {"0", "400", "500", "502"}
  /\ reply \in Seq(Unit)
  /\ live' = TRUE
  /\ metrics' \in MetricsType
  /\ idle' \in BOOLEAN
  /\ sk.origin.peer = "doh" => Len(reply) = sk.origin.sent

\* The same of the resolution's data
DohOK(d) ==
  /\ d \in DohType
  /\ d.is_active => d.allocated
  /\ BetweenQueries(d)

\* Marking the origin ACTIVE keeps the types
LEMMA EnterActive ==
  ASSUME NEW st, NEW buf, NEW sk, ArgsOK(st, buf, sk)
  PROVE  ArgsOK([st EXCEPT !.origin = "ACTIVE"], buf, sk)
BY DEF ArgsOK, Statuses, Sides

\* The sockets once the origin's is a new one
Reopened(sk, peer) == [sk EXCEPT !.origin = Socket(peer, "pending")]

\* A new socket of the origin's leaves the client's as it is
LEMMA NewSocketOK ==
  ASSUME NEW st, NEW buf, NEW sk, ArgsOK(st, buf, sk), NEW peer \in {"doh", "host"}
  PROVE  /\ ArgsOK(st, buf, Reopened(sk, peer))
         /\ Reopened(sk, peer).origin.peer = peer
         /\ Reopened(sk, peer).origin.sent = 0
<1>1. Socket(peer, "pending") \in SocketType
  <2>1. <<>> \in Seq(Byte)
    OBVIOUS
  <2>. QED BY <2>1 DEF Socket, SocketType
<1>2. /\ Socket(peer, "pending").read = 0
      /\ Socket(peer, "pending").sent = 0
      /\ Socket(peer, "pending").peer = peer
  BY DEF Socket
<1> DEFINE fresh == Socket(peer, "pending")
<1>3. fresh \in SocketType /\ fresh.read = 0 /\ fresh.sent = 0 /\ fresh.peer = peer
  BY <1>1, <1>2
<1> HIDE DEF fresh
<1> DEFINE new == [sk EXCEPT !.origin = fresh]
<1>4. /\ new \in [Sides -> SocketType]
      /\ new.origin = fresh
      /\ new.client = sk.client
  BY <1>3 DEF ArgsOK, Sides
<1>5. ArgsOK(st, buf, new)
  BY <1>3, <1>4 DEF ArgsOK, Sides
<1>. QED BY <1>3, <1>4, <1>5 DEF fresh, Reopened

\* register_origin_socket: the origin is ACTIVE before it has an item
LEMMA RegisterOriginOK ==
  ASSUME NEW st, NEW kept, NEW buf, NEW sk, NEW peer \in {"doh", "host"},
         ArgsOK(st, kept, sk), ArgsOK(st, buf, sk), kept.origin = EmptyQueue,
         RegisterOrigin(peer, st, kept, buf, sk),
         Resolving(sk), DohOK(doh'), hung' \in BOOLEAN,
         peer = "doh" <=> request.host = "domain" /\ ~doh'.is_active
  PROVE  IInv'
<1> DEFINE active == [st EXCEPT !.origin = "ACTIVE"]
<1> DEFINE new == Reopened(sk, peer)
<1>1. /\ ArgsOK(active, kept, sk) /\ ArgsOK(active, buf, sk)
      /\ ArgsOK(active, kept, new)
      /\ new.origin.peer = peer
      /\ new.origin.sent = 0
      /\ active.origin = "ACTIVE"
  <2>1. ArgsOK(active, kept, sk) /\ ArgsOK(active, buf, sk)
    BY EnterActive
  <2>2. active.origin = "ACTIVE"
    BY DEF ArgsOK, Sides
  <2> HIDE DEF active
  <2>3. /\ ArgsOK(active, kept, new)
        /\ new.origin.peer = peer
        /\ new.origin.sent = 0
    BY <2>1, NewSocketOK
  <2>. QED BY <2>1, <2>2, <2>3
<1>2. CASE /\ origin_fd' = "registered"
           /\ reply' = <<>>
           /\ EnterTryConnectionIp(active, kept, new)
           /\ UNCHANGED error
  <2> HIDE DEF active, new
  <2>1. SettledAs("TRY_CONNECTION_IP")' /\ status' = active /\ buffer' = kept /\ sock' = new
    BY <1>1, <1>2, EnterTryConnectionIpOK
  <2>2. Common'
    <3>1. reply' \in Seq(Unit) /\ Len(reply') = 0
      BY <1>2
    <3>. QED BY <1>1, <1>2, <2>1, <3>1 DEF Common, Resolving, DohOK, NoOrphanOrigin
  <2>. QED BY <1>1, <1>2, <2>1, <2>2
       DEF IInv, Typed, ReadWasSent, OriginBufferFree, LineIncomplete, ReplyBuffered, PeerKnown,
           ResolutionPhase, SettledAs, ArgsOK, Common, States, DohOK, Resolving
<1>3. CASE /\ origin_fd' = "unregistered"
           /\ EnterError("500", active, buf, sk)
           /\ UNCHANGED reply
  <2> HIDE DEF active, new
  <2>1. SettledAs("ERROR")' /\ sock' = sk /\ error' = "500"
    BY <1>1, <1>3, EnterErrorOK
  <2>2. Common'
    BY <1>1, <1>3, <2>1 DEF Common, Resolving, DohOK, NoOrphanOrigin
  <2>. QED BY <2>1, <2>2, QuietIInv DEF QuietStates
<1>. QED BY <1>2, <1>3 DEF RegisterOrigin, Reopened

\* establish_origin_connection and register_origin_socket, failing or not
LEMMA OpenOriginOK ==
  ASSUME NEW st, NEW kept, NEW buf, NEW sk, NEW peer \in {"doh", "host"},
         ArgsOK(st, kept, sk), ArgsOK(st, buf, sk), kept.origin = EmptyQueue,
         OpenOrigin(peer, st, kept, buf, sk),
         Resolving(sk), DohOK(doh'), hung' \in BOOLEAN,
         peer = "doh" <=> request.host = "domain" /\ ~doh'.is_active
  PROVE  IInv'
<1>1. CASE RegisterOrigin(peer, st, kept, buf, sk)
  BY <1>1, RegisterOriginOK
<1>2. CASE /\ origin_fd' = "none"
           /\ EnterError("500", st, buf, sk)
           /\ UNCHANGED reply
  <2>1. SettledAs("ERROR")' /\ sock' = sk /\ error' = "500"
    BY <1>2, EnterErrorOK
  <2>2. Common'
    BY <1>2, <2>1 DEF Common, Resolving, DohOK, NoOrphanOrigin
  <2>. QED BY <2>1, <2>2, QuietIInv DEF QuietStates
<1>. QED BY <1>1, <1>2 DEF OpenOrigin

\* The AAAA query begins with the A response exhausted
LEMMA RetryOverIPv6OK ==
  ASSUME NEW d \in DohType, NEW st, NEW buf, NEW sk,
         ArgsOK(st, buf, sk), buf.origin = EmptyQueue,
         RetryOverIPv6(d, st, buf, sk),
         Resolving(sk), hung' \in BOOLEAN,
         request.host = "domain", Exhausted(d)
  PROVE  IInv'
<1>1. doh' = [d EXCEPT !.is_active = FALSE, !.current_type = "AAAA"]
  BY DEF RetryOverIPv6
<1>2. /\ doh' \in DohType
      /\ ~doh'.is_active /\ doh'.current_type = "AAAA"
      /\ doh'.parsed = d.parsed /\ doh'.current_try = d.current_try
  BY <1>1 DEF DohType
<1>3. Exhausted(doh')
  BY <1>2 DEF Exhausted, Rcode, Ancount, HeaderBegun, LoopEnds, NoTable, HeaderParsed
<1>4. DohOK(doh')
  BY <1>2, <1>3 DEF DohOK, BetweenQueries
<1>. QED BY <1>2, <1>4, OpenOriginOK DEF RetryOverIPv6

\* Giving up on a name leaves no item behind
LEMMA GiveUpOK ==
  ASSUME NEW d \in DohType, NEW fd \in {"none", "closed"}, NEW st, NEW buf, NEW sk,
         ArgsOK(st, buf, sk),
         GiveUp(d, fd, st, buf, sk),
         Resolving(sk), hung' \in BOOLEAN, d.is_active => d.allocated
  PROVE  IInv'
<1>1. SettledAs("ERROR")' /\ sock' = sk /\ error' = "500"
  BY EnterErrorOK DEF GiveUp
<1>2. Common'
  BY <1>1 DEF GiveUp, Common, Resolving, NoOrphanOrigin
<1>. QED BY <1>1, <1>2, QuietIInv DEF QuietStates

\* The numbers of a response
LEMMA NatDoh ==
  ASSUME NEW d \in DohType
  PROVE  /\ Ancount(d) \in Nat /\ Rcode(d) \in Nat /\ d.current_try \in Nat
         /\ Candidates(d) \subseteq Nat
<1>1. Ancount(d) \in Nat /\ Rcode(d) \in Nat
  <2>1. CASE HeaderBegun(d.parsed)
    <3>1. d.parsed[2] \in Unit
      BY <2>1 DEF HeaderBegun, DohType
    <3>. QED BY <3>1, <2>1 DEF Ancount, Rcode, Unit
  <2>2. CASE ~HeaderBegun(d.parsed)
    BY <2>2 DEF Ancount, Rcode
  <2>. QED BY <2>1, <2>2
<1>2. d.current_try \in Nat
  BY DEF DohType
<1>3. Remaining(d) \subseteq Nat
  BY <1>1, <1>2, ConnectionAssumption DEF Remaining
<1>. QED BY <1>1, <1>2, <1>3 DEF Candidates

\* An exhausted response offers no candidate
LEMMA ExhaustedOffersNone ==
  ASSUME NEW d \in DohType, Ancount(d) < TryModulus, d.current_try >= Ancount(d)
  PROVE  Candidates(d) = {}
<1>1. Ancount(d) \in Nat /\ d.current_try \in Nat
  BY NatDoh
<1>2. Remaining(d) = {}
  BY <1>1 DEF Remaining
<1>. QED BY <1>2 DEF Candidates

\* What holds when try_next_dns_connection is called with d, st, buf and sk
TryNextCalled(d, st, buf, sk) ==
  /\ IInv
  /\ ArgsOK(st, buf, sk)
  /\ buf.origin = EmptyQueue
  /\ d \in DohType
  /\ d.allocated
  /\ request.host = "domain"
  /\ Resolving(sk)
  /\ \/ /\ state = "AWAIT_DOH_RESPONSE"
        /\ d.is_active
        /\ sk.origin.peer = "doh"
     \/ /\ state = "TRY_CONNECTION_IP"
        /\ BetweenQueries(d)
        /\ sk.origin.peer = "doh" <=> ~d.is_active

\* An attempt over an answer keeps the invariant
LEMMA TryNextCandidateOK ==
  ASSUME NEW d, NEW st, NEW buf, NEW sk, TryNextCalled(d, st, buf, sk),
         d.is_active,
         NEW i \in Candidates(d),
         doh' = [d EXCEPT !.current_try = i % TryModulus],
         RegisterOrigin("host", st, buf, buf, sk),
         hung' = hung
  PROVE  IInv'
<1>1. i % TryModulus \in Nat
  <2>1. i \in Nat /\ TryModulus \in Nat \ {0}
    BY NatDoh, ConnectionAssumption DEF TryNextCalled
  <2>. QED BY <2>1
<1>2. doh' \in DohType /\ doh'.is_active /\ doh'.allocated
  BY <1>1 DEF DohType, TryNextCalled
<1>3. DohOK(doh')
  BY <1>2 DEF DohOK, BetweenQueries
<1>4. hung' \in BOOLEAN
  BY DEF TryNextCalled, IInv, Typed
<1>5. Resolving(sk) /\ ArgsOK(st, buf, sk) /\ buf.origin = EmptyQueue
  BY DEF TryNextCalled
<1>. QED BY <1>2, <1>3, <1>4, <1>5, RegisterOriginOK

\* The loop over answers without a table, or over more than are counted, never ends
LEMMA TryNextHungOK ==
  ASSUME NEW d, NEW st, NEW buf, NEW sk, TryNextCalled(d, st, buf, sk),
         hung' = TRUE, doh' = d, origin_fd' = "closed",
         Settle(state, Watch(interest.client, {}), st, buf, sk),
         UNCHANGED <<error, reply>>
  PROVE  IInv'
<1>1. /\ state' = state /\ status' = st /\ buffer' = buf /\ sock' = sk
      /\ interest' = Watch(interest.client, {})
  BY DEF Settle
<1>2. interest.client \in SUBSET Operations /\ state \in States
  BY DEF TryNextCalled, IInv, Typed, Sides
<1>3. SettledAs(state)'
  BY <1>1, <1>2 DEF SettledAs, Watch, DispatchHandled, TryNextCalled, IInv, Sides
<1>4. Common'
  BY <1>1 DEF TryNextCalled, Resolving, Common, NoOrphanOrigin
<1>5. buffer'.origin = EmptyQueue
  BY <1>1 DEF TryNextCalled
<1>6. OriginBufferFree' /\ LineIncomplete' /\ ReplyBuffered'
  BY <1>1, <1>4, <1>5, EmptyQueueType
  DEF OriginBufferFree, LineIncomplete, ReplyBuffered, Common, TryNextCalled
<1>7. PeerKnown' /\ ResolutionPhase'
  BY <1>1, <1>3, <1>4 DEF PeerKnown, ResolutionPhase, TryNextCalled, SettledAs, ArgsOK, Common, Resolving
<1>8. Typed' /\ ReadWasSent' /\ DispatchHandled' /\ NoOrphanOrigin'
  BY <1>1, <1>2, <1>3, <1>4 DEF Typed, ReadWasSent, SettledAs, ArgsOK, Common
<1>. QED BY <1>6, <1>7, <1>8 DEF IInv

\* try_next_ipv4_connection and try_next_ipv6_connection keep the invariant
LEMMA TryNextAnswerOK ==
  ASSUME NEW d, NEW st, NEW buf, NEW sk, TryNextCalled(d, st, buf, sk),
         Rcode(d) = 0,
         TryNextAnswer(d, st, buf, sk)
  PROVE  IInv'
<1> USE DEF TryNextCalled
<1>0. /\ Ancount(d) \in Nat /\ d.current_try \in Nat
      /\ hung \in BOOLEAN
  BY NatDoh DEF IInv, Typed
<1>1. ~d.is_active => LoopEnds(d) /\ d.current_try >= Ancount(d) /\ d.current_type = "AAAA"
  BY DEF BetweenQueries, Exhausted
<1>2. ~d.is_active => Candidates(d) = {}
  BY <1>1, ExhaustedOffersNone DEF LoopEnds
<1>3. CASE \E i \in Candidates(d) :
             /\ doh' = [d EXCEPT !.current_try = i % TryModulus]
             /\ RegisterOrigin("host", st, buf, buf, sk)
             /\ UNCHANGED hung
  BY <1>2, <1>3, TryNextCandidateOK
<1>4. CASE /\ LoopEnds(d)
           /\ LET last == [d EXCEPT !.current_try = Ancount(d)]
                  fd == IF Candidates(d) = {} THEN "closed" ELSE "none"
              IN IF d.current_type = "A" THEN RetryOverIPv6(last, st, buf, sk)
                 ELSE GiveUp(last, fd, st, buf, sk)
           /\ UNCHANGED hung
  <2> DEFINE last == [d EXCEPT !.current_try = Ancount(d)]
  <2> DEFINE fd == IF Candidates(d) = {} THEN "closed" ELSE "none"
  <2>1. /\ last \in DohType /\ last.is_active = d.is_active /\ last.allocated
        /\ last.current_try = Ancount(d) /\ last.parsed = d.parsed
    BY <1>0 DEF DohType
  <2>2. Ancount(last) = Ancount(d)
    BY <2>1 DEF Ancount
  <2>3. Exhausted(last)
    <3>1. LoopEnds(last)
      BY <1>4, <2>1, <2>2 DEF LoopEnds, NoTable
    <3>. QED BY <1>0, <2>1, <2>2, <3>1 DEF Exhausted
  <2>4. fd \in {"none", "closed"}
    OBVIOUS
  <2>5. CASE d.current_type = "A"
    <3>1. RetryOverIPv6(last, st, buf, sk)
      BY <1>4, <2>5
    <3> HIDE DEF last, fd
    <3>. QED BY <1>0, <1>4, <2>1, <2>3, <3>1, RetryOverIPv6OK
  <2>6. CASE d.current_type # "A"
    <3>1. GiveUp(last, fd, st, buf, sk)
      BY <1>4, <2>6
    <3> HIDE DEF last, fd
    <3>. QED BY <1>0, <1>4, <2>1, <2>4, <3>1, GiveUpOK
  <2>. QED BY <2>5, <2>6
<1>5. CASE /\ ~LoopEnds(d)
           /\ hung' = TRUE
           /\ doh' = d
           /\ origin_fd' = "closed"
           /\ Settle(state, Watch(interest.client, {}), st, buf, sk)
           /\ UNCHANGED <<error, reply>>
  BY <1>5, TryNextHungOK
<1>. QED BY <1>3, <1>4, <1>5 DEF TryNextAnswer

\* try_next_dns_connection keeps the invariant
LEMMA TryNextDnsConnectionOK ==
  ASSUME NEW d, NEW st, NEW buf, NEW sk, TryNextCalled(d, st, buf, sk),
         try_next_dns_connection(d, st, buf, sk)
  PROVE  IInv'
<1>1. CASE Rcode(d) = 0
  BY <1>1, TryNextAnswerOK DEF try_next_dns_connection
<1>2. CASE Rcode(d) # 0
  <2>1. Exhausted(d)
    BY <1>2 DEF Exhausted
  <2>2. hung' \in BOOLEAN
    BY <1>2 DEF try_next_dns_connection, TryNextCalled, IInv, Typed
  <2>3. CASE d.current_type = "A"
    BY <1>2, <2>1, <2>2, <2>3, RetryOverIPv6OK DEF try_next_dns_connection, TryNextCalled
  <2>4. CASE d.current_type # "A"
    BY <1>2, <2>2, <2>4, GiveUpOK DEF try_next_dns_connection, TryNextCalled
  <2>. QED BY <2>3, <2>4
<1>. QED BY <1>1, <1>2

-----------------------------------------------------------------------------
(* The read handlers *)

\* What holds when a read handler is called with st, buf and sk
ReadCalled(st, buf, sk) ==
  /\ IInv
  /\ live
  /\ state \in HaveReadHandler
  /\ ArgsOK(st, buf, sk)
  /\ sk.origin.peer = sock.origin.peer
  /\ sk.origin.sent = sock.origin.sent
  /\ status.origin # "INACTIVE" => st.origin # "INACTIVE"
  /\ request' = request
  /\ idle' \in BOOLEAN

\* Until the line is complete all is taken; then what follows it stays
LEMMA ParsingReadOK ==
  ASSUME NEW buf, NEW sk, ReadCalled(status, buf, sk),
         state = "PARSING_REQUEST_LINE",
         buf.origin = EmptyQueue,
         Length(buf.client) = sk.client.read - sock.client.read,
         Length(buf.client) > 0,
         ParsingRead(buf, sk),
         UNCHANGED <<doh, metrics, live, hung>>
  PROVE  IInv'
<1> DEFINE taken == Length(buf.client) - (sk.client.read - RequestLength)
<1> DEFINE line == [buf EXCEPT !.client = ReadAdv(@, taken)]
<1> DEFINE kept == IF request.connect THEN [buf EXCEPT !.client = EmptyQueue] ELSE line
<1>1. /\ buf.client \in QueueOf(Byte) /\ Length(buf.client) \in Nat
      /\ sk.client.read \in Nat /\ sock.client.read \in Nat
      /\ sock.client.read < RequestLength /\ RequestLength \in Nat
  <2>1. "client" \in Sides /\ sk.client \in SocketType /\ sock.client \in SocketType
    BY DEF Sides, ReadCalled, ArgsOK, IInv, Typed
  <2>2. sk.client.read \in Nat /\ sock.client.read \in Nat
    BY <2>1 DEF SocketType
  <2>3. buf.client \in QueueOf(Byte)
    BY <2>1 DEF ReadCalled, ArgsOK
  <2>4. Length(buf.client) \in Nat
    BY <2>3, QueueFields
  <2>5. sock.client.read < RequestLength
    BY DEF ReadCalled, IInv, LineIncomplete
  <2>. QED BY <2>2, <2>3, <2>4, <2>5, ConnectionAssumption
<1>2. /\ hung' \in BOOLEAN /\ live' = TRUE /\ metrics' \in MetricsType
      /\ doh' = NoDoh /\ doh' \in DohType
      /\ error \in {"0", "400", "500", "502"}
      /\ origin_fd = "none" /\ request \in Requests /\ reply \in Seq(Unit)
      /\ sk.origin.peer = "doh" => Len(reply) = sk.origin.sent
  BY DEF ReadCalled, IInv, Typed, ResolutionPhase, PeerKnown, ReplyBuffered
<1>3. CASE sk.client.read < RequestLength /\ ParsingRead(buf, sk)
  <2>1. /\ Settle(state, interest, status,
                  [buf EXCEPT !.client = ReadAdv(@, Length(@))], sk)
        /\ UNCHANGED <<origin_fd, error, reply>>
    BY <1>1, <1>3 DEF ParsingRead
  <2>2. ReadAdv(buf.client, Length(buf.client)) = EmptyQueue
    BY DEF ReadAdv
  <2>3. /\ buffer' = [buf EXCEPT !.client = EmptyQueue]
        /\ state' = state /\ interest' = interest /\ status' = status /\ sock' = sk
    BY <2>1, <2>2 DEF Settle
  <2>4. /\ buffer' \in [Sides -> QueueOf(Byte)]
        /\ buffer'.client = EmptyQueue /\ buffer'.origin = EmptyQueue
    BY <2>3, EmptyQueueType DEF ReadCalled, ArgsOK, Sides
  <2>5. SettledAs(state)' /\ Common'
    <3>1. ArgsOK(status', buffer', sock')
      BY <2>3, <2>4 DEF ReadCalled, ArgsOK
    <3>2. /\ interest' \in [Sides -> SUBSET Operations]
          /\ DispatchHandled'
      BY <2>3 DEF ReadCalled, IInv, Typed, DispatchHandled
    <3>3. Common'
      BY <1>2, <2>1, <2>3, IInvArgs DEF ReadCalled, Common, NoOrphanOrigin
    <3>. QED BY <3>1, <3>2, <3>3 DEF SettledAs
  <2>. QED BY <1>2, <1>3, <2>1, <2>3, <2>4, <2>5
           DEF IInv, Typed, ReadWasSent, OriginBufferFree, LineIncomplete, ReplyBuffered,
               PeerKnown, ResolutionPhase, SettledAs, ArgsOK, Common, ReadCalled
<1>4. CASE sk.client.read >= RequestLength
  <2>1. taken \in Nat /\ taken <= Length(buf.client)
    BY <1>1, <1>4
  <2>2. ReadAdv(buf.client, taken) \in QueueOf(Byte)
    BY <1>1, <2>1, ReadAdvType
  <2>3. line \in [Sides -> QueueOf(Byte)] /\ line.origin = EmptyQueue
    BY <2>2 DEF ReadCalled, ArgsOK, Sides
  <2>4. kept \in [Sides -> QueueOf(Byte)] /\ kept.origin = EmptyQueue
    BY <2>3, EmptyQueueType DEF ReadCalled, ArgsOK, Sides
  <2>5. ArgsOK(status, line, sk) /\ ArgsOK(status, kept, sk)
    BY <2>3, <2>4 DEF ReadCalled, ArgsOK
  <2>6. CASE EnterError("400", status, line, sk) /\ UNCHANGED <<origin_fd, reply>>
    <3> HIDE DEF line
    <3>1. SettledAs("ERROR")' /\ sock' = sk /\ error' = "400"
      BY <2>5, <2>6, EnterErrorOK
    <3>2. Common'
      BY <1>2, <2>6, <3>1 DEF Common, ReadCalled, NoOrphanOrigin, NoDoh
    <3>. QED BY <3>1, <3>2, QuietIInv DEF QuietStates
  <2>7. CASE OpenOrigin(IF request.host = "domain" THEN "doh" ELSE "host",
                        status, kept, line, sk)
    <3> HIDE DEF line, kept
    <3>1. DohOK(doh') /\ ~doh'.is_active
      BY <1>2 DEF DohOK, NoDoh, BetweenQueries
    <3>2. Resolving(sk)
      BY <1>2 DEF Resolving, ReadCalled
    <3>3. CASE request.host = "domain"
      BY <1>2, <2>4, <2>5, <2>7, <3>1, <3>2, <3>3, OpenOriginOK
    <3>4. CASE request.host # "domain"
      BY <1>2, <2>4, <2>5, <2>7, <3>1, <3>2, <3>4, OpenOriginOK
    <3>. QED BY <3>3, <3>4
  <2>. QED BY <1>1, <1>4, <2>6, <2>7 DEF ParsingRead
<1>. QED BY <1>1, <1>3, <1>4

\* connected_on_read_ready keeps the invariant
LEMMA ConnectedReadOK ==
  ASSUME NEW st, NEW buf, NEW sk, ReadCalled(st, buf, sk),
         ConnectedRead(st, buf, sk),
         UNCHANGED <<origin_fd, error, doh, reply, metrics, live, hung>>
  PROVE  IInv'
<1>1. ArgsOK(st, buf, sk)
  BY DEF ReadCalled
<1>2. CASE SettleClosing(st, buf, sk)
  <2>1. /\ SettledAs("CLOSING")'
        /\ sock'.origin.peer = sk.origin.peer
        /\ sock'.origin.sent = sk.origin.sent
        /\ st.origin # "INACTIVE" => status'.origin # "INACTIVE"
    BY <1>1, <1>2, SettleClosingOK
  <2>2. Common'
    BY <2>1, IInvArgs DEF Common, ReadCalled, NoOrphanOrigin
  <2>. QED BY <2>1, <2>2, QuietIInv DEF QuietStates
<1>3. CASE SettleConnected(st, buf, sk)
  <2>1. SettledAs("CONNECTED")' /\ status' = st /\ sock' = sk
    BY <1>1, <1>3, SettleConnectedOK
  <2>2. Common'
    BY <2>1, IInvArgs DEF Common, ReadCalled, NoOrphanOrigin
  <2>. QED BY <2>1, <2>2, QuietIInv DEF QuietStates
<1>. QED BY <1>2, <1>3 DEF ConnectedRead

\* Counting keeps the counters' types
LEMMA MetricsOK ==
  ASSUME NEW m \in MetricsType, NEW n \in Nat, NEW s \in Sides
  PROVE  /\ register_new_connection(m) \in MetricsType
         /\ unregister_connection(m) \in MetricsType
         /\ increase_failed_connections(m) \in MetricsType
         /\ Transferred(m, s, n) \in MetricsType
<1>1. \A k \in Nat : Bumped(k) \in Nat
  BY DEF Bumped
<1>2. \A k \in Nat : Added(k, n) \in Nat
  <2>1. CounterMax + 1 \in Nat \ {0}
    BY ConnectionAssumption
  <2>2. \A k \in Nat : (k + n) % (CounterMax + 1) \in Nat
    BY <2>1
  <2>. QED BY <2>2 DEF Added
<1>3. /\ m.historical \in Nat /\ m.concurrent \in Nat /\ m.failed \in Nat
      /\ m.received \in Nat /\ m.sent \in Nat
  BY DEF MetricsType
<1>4. register_new_connection(m) \in MetricsType
  BY <1>1, <1>3 DEF register_new_connection, MetricsType
<1>5. unregister_connection(m) \in MetricsType
  <2>1. m.concurrent > 0 => m.concurrent - 1 \in Nat
    BY <1>3
  <2>. QED BY <2>1, <1>3 DEF unregister_connection, MetricsType
<1>6. increase_failed_connections(m) \in MetricsType
  BY <1>1, <1>3 DEF increase_failed_connections, MetricsType
<1>7. Transferred(m, s, n) \in MetricsType
  BY <1>2, <1>3 DEF Transferred, MetricsType
<1>. QED BY <1>4, <1>5, <1>6, <1>7

\* closing_on_read_ready keeps the invariant
LEMMA ClosingReadOK ==
  ASSUME NEW st, NEW buf, NEW sk, NEW s \in Sides, ReadCalled(st, buf, sk),
         ClosingRead(s, st, buf, sk),
         UNCHANGED <<error, doh, reply, hung>>
  PROVE  IInv'
<1>1. ArgsOK(st, buf, sk) /\ metrics \in MetricsType
  BY DEF ReadCalled, IInv, Typed
<1>2. CASE SettleClosing(st, buf, sk) /\ UNCHANGED <<metrics, live, origin_fd>>
  <2>1. /\ SettledAs("CLOSING")'
        /\ sock'.origin.peer = sk.origin.peer
        /\ sock'.origin.sent = sk.origin.sent
        /\ st.origin # "INACTIVE" => status'.origin # "INACTIVE"
    BY <1>1, <1>2, SettleClosingOK
  <2>2. Common'
    BY <1>2, <2>1, IInvArgs DEF Common, ReadCalled, NoOrphanOrigin
  <2>. QED BY <2>1, <2>2, QuietIInv DEF QuietStates
<1>3. CASE SettleEmptyBuffers(st, buf, sk) /\ UNCHANGED <<metrics, live, origin_fd>>
  <2>1. /\ SettledAs("EMPTY_BUFFERS")'
        /\ sock'.origin.peer = sk.origin.peer
        /\ sock'.origin.sent = sk.origin.sent
        /\ st.origin # "INACTIVE" => status'.origin # "INACTIVE"
    BY <1>1, <1>3, SettleEmptyBuffersOK
  <2>2. Common'
    BY <1>3, <2>1, IInvArgs DEF Common, ReadCalled, NoOrphanOrigin
  <2>. QED BY <2>1, <2>2, QuietIInv DEF QuietStates
<1>4. CASE /\ EnterDone(st, buf, [sk EXCEPT ![Other(s)].shut = TRUE])
           /\ metrics' = unregister_connection(metrics)
  <2> DEFINE shut == [sk EXCEPT ![Other(s)].shut = TRUE]
  <2>1. /\ ArgsOK(st, buf, shut)
        /\ shut.origin.peer = sk.origin.peer
        /\ shut.origin.sent = sk.origin.sent
    <3>1. Other(s) \in Sides
      BY DEF Other, Sides
    <3>2. ASSUME NEW x \in Sides
          PROVE  /\ shut[x] \in SocketType
                 /\ shut[x].peer = sk[x].peer
                 /\ shut[x].sent = sk[x].sent
                 /\ shut[x].read = sk[x].read
      BY <1>1, <3>1 DEF ArgsOK, SocketType
    <3>3. shut \in [Sides -> SocketType]
      BY <1>1, <3>1, <3>2 DEF ArgsOK
    <3>4. "client" \in Sides /\ "origin" \in Sides
      BY DEF Sides
    <3> HIDE DEF shut
    <3>. QED BY <1>1, <3>2, <3>3, <3>4 DEF ArgsOK
  <2> HIDE DEF shut
  <2>2. EnterDone(st, buf, shut)
    BY <1>4 DEF shut
  <2>3. /\ SettledAs("DONE")' /\ sock' = shut
        /\ live' = FALSE
        /\ origin_fd' \in {"none", "unregistered", "closed"}
    BY <2>1, <2>2, EnterDoneOK DEF ReadCalled, IInv, Typed, NoOrphanOrigin
  <2>4. metrics' \in MetricsType
    BY <1>1, <1>4, MetricsOK DEF Sides
  <2>5. Common'
    BY <2>1, <2>3, <2>4, IInvArgs DEF Common, ReadCalled, NoOrphanOrigin
  <2>. QED BY <2>3, <2>5, QuietIInv DEF QuietStates
<1>. QED BY <1>2, <1>3, <1>4 DEF ClosingRead

\* The buffered bytes stand for units of the reply
LEMMA FreshUnits ==
  ASSUME NEW st, NEW buf, NEW sk, ReadCalled(st, buf, sk),
         state = "AWAIT_DOH_RESPONSE",
         \A i \in 1 .. Len(buf.origin.bytes) : buf.origin.bytes[i].n \in 1 .. sk.origin.read
  PROVE  Fresh(buf) \in Seq(Unit) /\ Len(Fresh(buf)) \in Nat
<1>1. "origin" \in Sides
  BY DEF Sides
<1>2. buf.origin \in QueueOf(Byte)
  BY <1>1 DEF ReadCalled, ArgsOK
<1>3. Length(buf.origin) = Len(buf.origin.bytes) /\ Len(buf.origin.bytes) \in Nat
  BY <1>2, QueueFields
<1>4. /\ sk.origin.read \in Nat /\ sk.origin.sent \in Nat
      /\ sk.origin.read <= sk.origin.sent
      /\ Len(reply) = sk.origin.sent
      /\ reply \in Seq(Unit)
  BY <1>1 DEF ReadCalled, ArgsOK, SocketType, IInv, Typed, ReplyBuffered, PeerKnown
<1>5. ASSUME NEW i \in 1 .. Length(buf.origin)
      PROVE  reply[buf.origin.bytes[i].n] \in Unit
  <2>1. buf.origin.bytes[i].n \in 1 .. Len(reply)
    BY <1>3, <1>4
  <2>. QED BY <1>4, <2>1
<1>6. Fresh(buf) \in [1 .. Length(buf.origin) -> Unit]
  BY <1>5 DEF Fresh
<1>. QED BY <1>3, <1>6

\* The response after it was fed some of them
LEMMA FedOK ==
  ASSUME NEW buf, Fresh(buf) \in Seq(Unit), doh \in DohType,
         NEW j \in Nat, j <= Len(Fresh(buf))
  PROVE  /\ Fed(buf, j) \in DohType
         /\ Fed(buf, j).is_active = doh.is_active
         /\ Fed(buf, j).allocated = doh.allocated
<1>1. SubSeq(Fresh(buf), 1, j) \in Seq(Unit)
  BY SubSeqProperties
<1>2. doh.parsed \o SubSeq(Fresh(buf), 1, j) \in Seq(Unit)
  BY <1>1 DEF DohType
<1>. QED BY <1>2 DEF Fed, DohType

\* A read of AWAIT_DOH_RESPONSE that stays in it, and its statuses and data
LEMMA AwaitStaysOK ==
  ASSUME NEW st, NEW buf, NEW sk, NEW left, ReadCalled(st, buf, sk),
         state = "AWAIT_DOH_RESPONSE",
         left \in [Sides -> QueueOf(Byte)],
         \A i \in 1 .. Len(left.origin.bytes) : left.origin.bytes[i].n \in 1 .. sk.origin.read,
         Settle(state, interest, st, left, sk),
         doh' \in DohType, doh'.is_active = doh.is_active, doh'.allocated = doh.allocated,
         hung' \in BOOLEAN,
         UNCHANGED <<origin_fd, error, reply, metrics, live>>
  PROVE  IInv'
<1>1. /\ state' = state /\ interest' = interest
      /\ status' = st /\ buffer' = left /\ sock' = sk
  BY DEF Settle
<1>2. ArgsOK(status', buffer', sock')
  BY <1>1 DEF ReadCalled, ArgsOK
<1>3. /\ interest' \in [Sides -> SUBSET Operations]
      /\ DispatchHandled'
  BY <1>1 DEF ReadCalled, IInv, Typed, DispatchHandled
<1>4. Common'
  BY <1>1, IInvArgs DEF ReadCalled, Common, NoOrphanOrigin
<1>5. PeerKnown' /\ ResolutionPhase'
  BY <1>1, <1>2, <1>4 DEF PeerKnown, ResolutionPhase, ReadCalled, ArgsOK, Common, IInv
<1>6. ReplyBuffered'
  BY <1>1, <1>4 DEF ReplyBuffered, Common
<1>. QED BY <1>1, <1>2, <1>3, <1>4, <1>5, <1>6
         DEF IInv, Typed, ReadWasSent, OriginBufferFree, LineIncomplete, ArgsOK, Common, States

\* An emptied buffer fits
LEMMA ConsumedOK ==
  ASSUME NEW st, NEW buf, NEW sk, ArgsOK(st, buf, sk)
  PROVE  /\ ArgsOK(st, Consumed(buf), sk)
         /\ Consumed(buf).origin = EmptyQueue
         /\ Consumed(buf) \in [Sides -> QueueOf(Byte)]
<1>1. Consumed(buf) \in [Sides -> QueueOf(Byte)] /\ Consumed(buf).origin = EmptyQueue
  BY EmptyQueueType DEF Consumed, ArgsOK, Sides
<1>. QED BY <1>1 DEF ArgsOK

\* shutdown() of the origin's socket changes nothing else
LEMMA OriginShutOK ==
  ASSUME NEW st, NEW buf, NEW sk, ArgsOK(st, buf, sk)
  PROVE  /\ ArgsOK(st, buf, [sk EXCEPT !.origin.shut = TRUE])
         /\ [sk EXCEPT !.origin.shut = TRUE].origin.peer = sk.origin.peer
         /\ [sk EXCEPT !.origin.shut = TRUE].origin.sent = sk.origin.sent
<1> DEFINE shut == [sk EXCEPT !.origin.shut = TRUE]
<1>1. ASSUME NEW x \in Sides
      PROVE  /\ shut[x] \in SocketType
             /\ shut[x].peer = sk[x].peer
             /\ shut[x].sent = sk[x].sent
             /\ shut[x].read = sk[x].read
  BY DEF ArgsOK, SocketType
<1>2. shut \in [Sides -> SocketType]
  BY <1>1 DEF ArgsOK, Sides
<1>3. "client" \in Sides /\ "origin" \in Sides
  BY DEF Sides
<1> HIDE DEF shut
<1>4. ArgsOK(st, buf, shut) /\ shut.origin.peer = sk.origin.peer /\ shut.origin.sent = sk.origin.sent
  BY <1>1, <1>2, <1>3 DEF ArgsOK
<1>. QED BY <1>4 DEF shut

\* What holds of the read handler of AWAIT_DOH_RESPONSE
AwaitCalled(st, buf, sk) ==
  /\ ReadCalled(st, buf, sk)
  /\ state = "AWAIT_DOH_RESPONSE"
  /\ \A i \in 1 .. Len(buf.origin.bytes) : buf.origin.bytes[i].n \in 1 .. sk.origin.read
  /\ UNCHANGED <<metrics, live>>

\* What the invariant says when await_doh_response_on_read_ready is called
LEMMA AwaitFacts ==
  ASSUME NEW st, NEW buf, NEW sk, AwaitCalled(st, buf, sk)
  PROVE  /\ ArgsOK(st, buf, sk)
         /\ doh \in DohType
         /\ hung \in BOOLEAN
         /\ sk.origin.peer = "doh" /\ request.host = "domain"
         /\ Resolving(sk)
         /\ error # "500" => doh.is_active /\ doh.allocated
BY DEF AwaitCalled, ReadCalled, IInv, Typed, PeerKnown, ReplyBuffered, ResolutionPhase, Resolving

\* Staying in AWAIT_DOH_RESPONSE keeps the invariant
LEMMA KeepAwaitingOK ==
  ASSUME NEW d, NEW st, NEW buf, NEW sk, AwaitCalled(st, buf, sk),
         d \in DohType, d.is_active = doh.is_active, d.allocated = doh.allocated,
         KeepAwaiting(d, st, Consumed(buf), sk)
  PROVE  IInv'
<1>1. /\ Consumed(buf) \in [Sides -> QueueOf(Byte)]
      /\ Len(Consumed(buf).origin.bytes) = 0
  BY AwaitFacts, ConsumedOK, EmptyQueueType
<1>2. \A i \in 1 .. Len(Consumed(buf).origin.bytes) :
        Consumed(buf).origin.bytes[i].n \in 1 .. sk.origin.read
  BY <1>1
<1>. QED BY <1>1, <1>2, AwaitFacts, AwaitStaysOK DEF KeepAwaiting, AwaitCalled

\* Leaving AWAIT_DOH_RESPONSE for ERROR keeps the invariant
LEMMA AwaitErrorOK ==
  ASSUME NEW code \in {"500", "502"}, NEW st, NEW buf, NEW sk, AwaitCalled(st, buf, sk),
         doh' \in DohType, doh'.is_active = doh.is_active, doh'.allocated = doh.allocated,
         EnterError(code, st, buf, sk),
         UNCHANGED <<origin_fd, reply, hung>>
  PROVE  IInv'
<1>1. SettledAs("ERROR")' /\ status' = st /\ sock' = sk /\ error' = code
  BY AwaitFacts, EnterErrorOK
<1>2. Common'
  BY <1>1, IInvArgs DEF AwaitCalled, ReadCalled, Common, NoOrphanOrigin
<1>. QED BY <1>1, <1>2, QuietIInv DEF QuietStates

\* The end of a response keeps the invariant
LEMMA ResponseEndsOK ==
  ASSUME NEW d, NEW st, NEW buf, NEW sk, AwaitCalled(st, buf, sk),
         d \in DohType, d.is_active = doh.is_active, d.allocated = doh.allocated,
         ResponseEnds(d, st, buf, sk)
  PROVE  IInv'
<1>1. CASE \/ EnterError("502", st, buf, sk) /\ doh' = d /\ UNCHANGED <<origin_fd, reply, hung>>
           \/ EnterError("500", st, buf, sk) /\ doh' = d /\ UNCHANGED <<origin_fd, reply, hung>>
  BY <1>1, AwaitErrorOK
<1>2. CASE /\ Verdict(d.parsed) = "no_answers"
           /\ RetryOverIPv6(d, st, Consumed(buf), sk)
           /\ UNCHANGED hung
  <2>1. Ancount(d) = 0
    BY <1>2 DEF Verdict, Ancount, HeaderBegun, HeaderParsed
  <2>2. d.current_try \in Nat /\ 0 < TryModulus
    BY ConnectionAssumption DEF DohType
  <2>3. Exhausted(d)
    BY <2>1, <2>2 DEF Exhausted, LoopEnds, NoTable
  <2>. QED BY <1>2, <2>3, AwaitFacts, ConsumedOK, RetryOverIPv6OK
<1>3. CASE KeepAwaiting(d, st, Consumed(buf), sk)
  BY <1>3, KeepAwaitingOK
<1>. QED BY <1>1, <1>2, <1>3 DEF ResponseEnds

\* await_doh_response_on_read_ready keeps the invariant
LEMMA AwaitDohReadOK ==
  ASSUME NEW st, NEW buf, NEW sk, AwaitCalled(st, buf, sk), AwaitDohRead(st, buf, sk)
  PROVE  IInv'
<1>1. Fresh(buf) \in Seq(Unit) /\ Len(Fresh(buf)) \in Nat
  BY FreshUnits DEF AwaitCalled
<1>2. CASE /\ EnterError("500", st, buf, sk)
           /\ UNCHANGED <<origin_fd, doh, reply, hung>>
  BY <1>2, AwaitFacts, AwaitErrorOK
<1>3. CASE /\ hung' = TRUE
           /\ Settle(state, interest, st, buf, sk)
           /\ UNCHANGED <<origin_fd, error, doh, reply>>
  <2>1. buf \in [Sides -> QueueOf(Byte)]
    BY AwaitFacts DEF ArgsOK
  <2>. QED BY <1>3, <2>1, AwaitFacts, AwaitStaysOK DEF AwaitCalled
<1>4. CASE \E stop \in 1 .. Len(Fresh(buf)) : ResponseEnds(Fed(buf, stop), st, buf, sk)
  <2>1. PICK stop \in 1 .. Len(Fresh(buf)) : ResponseEnds(Fed(buf, stop), st, buf, sk)
    BY <1>4
  <2>2. stop \in Nat /\ stop <= Len(Fresh(buf))
    BY <1>1
  <2>3. /\ Fed(buf, stop) \in DohType
        /\ Fed(buf, stop).is_active = doh.is_active
        /\ Fed(buf, stop).allocated = doh.allocated
    BY <1>1, <2>2, AwaitFacts, FedOK
  <2>. QED BY <2>1, <2>3, ResponseEndsOK
<1>8. CASE \E stop \in 1 .. Len(Fresh(buf)) : AnswersNotAllocated(Fed(buf, stop), st, buf, sk)
           /\ error # "500"
  <2>1. PICK stop \in 1 .. Len(Fresh(buf)) : AnswersNotAllocated(Fed(buf, stop), st, buf, sk)
    BY <1>8
  <2>2. stop \in Nat /\ stop <= Len(Fresh(buf))
    BY <1>1
  <2>3. /\ Fed(buf, stop) \in DohType
        /\ Fed(buf, stop).is_active = doh.is_active
        /\ Fed(buf, stop).allocated = doh.allocated
    BY <1>1, <1>8, <2>2, AwaitFacts, FedOK
  <2>. QED BY <2>1, <2>3, AwaitErrorOK DEF AnswersNotAllocated
<1>5. ASSUME error # "500"
      PROVE  LET d == Fed(buf, Len(Fresh(buf))) IN
             /\ d \in DohType
             /\ d.is_active = doh.is_active
             /\ d.allocated = doh.allocated
             /\ d.is_active /\ d.allocated
  <2>1. Len(Fresh(buf)) <= Len(Fresh(buf))
    BY <1>1
  <2>. QED BY <1>1, <1>5, <2>1, AwaitFacts, FedOK
<1>6. CASE /\ error # "500"
           /\ try_next_dns_connection(Fed(buf, Len(Fresh(buf))), st, Consumed(buf),
                                      [sk EXCEPT !.origin.shut = TRUE])
  <2> DEFINE d == Fed(buf, Len(Fresh(buf)))
  <2> DEFINE shut == [sk EXCEPT !.origin.shut = TRUE]
  <2>1. d \in DohType /\ d.is_active /\ d.allocated
    BY <1>5, <1>6
  <2>2. /\ ArgsOK(st, Consumed(buf), sk)
        /\ Consumed(buf).origin = EmptyQueue
    BY AwaitFacts, ConsumedOK
  <2>3. /\ ArgsOK(st, Consumed(buf), shut)
        /\ shut.origin.peer = sk.origin.peer
        /\ shut.origin.sent = sk.origin.sent
    BY <2>2, OriginShutOK
  <2> HIDE DEF d, shut
  <2>4. Resolving(shut)
    BY <2>3, AwaitFacts DEF Resolving
  <2>5. TryNextCalled(d, st, Consumed(buf), shut)
    BY <2>1, <2>2, <2>3, <2>4, AwaitFacts DEF TryNextCalled, AwaitCalled, ReadCalled
  <2>6. try_next_dns_connection(d, st, Consumed(buf), shut)
    BY <1>6 DEF d, shut
  <2>. QED BY <2>5, <2>6, TryNextDnsConnectionOK
<1>7. CASE /\ error # "500"
           /\ KeepAwaiting(Fed(buf, Len(Fresh(buf))), st, Consumed(buf), sk)
  BY <1>5, <1>7, KeepAwaitingOK
<1>. QED BY <1>2, <1>3, <1>4, <1>6, <1>7, <1>8 DEF AwaitDohRead

\* Both descriptors leave the selector, whatever the state
LEMMA CloseProxyConnectionOK ==
  ASSUME IInv, live, NEW m \in MetricsType, close_proxy_connection(m),
         request' = request, idle' \in BOOLEAN
  PROVE  IInv'
<1>1. /\ UNCHANGED <<state, status, buffer, sock, error, doh, reply, hung>>
      /\ live' = FALSE
      /\ interest' = Watch({}, {})
      /\ origin_fd' = IF status.origin # "INACTIVE" /\ origin_fd = "registered"
                        THEN "closed" ELSE origin_fd
  BY DEF close_proxy_connection, Release
<1>2. metrics' \in MetricsType
  <2>1. unregister_connection(m) \in MetricsType
    BY MetricsOK DEF Sides
  <2>. QED BY <2>1 DEF close_proxy_connection
<1>3. origin_fd' # "registered"
  BY <1>1 DEF IInv, NoOrphanOrigin
<1>4. interest' \in [Sides -> SUBSET Operations] /\ DispatchHandled'
  BY <1>1 DEF Watch, DispatchHandled, Sides
<1>5. Typed' /\ NoOrphanOrigin'
  BY <1>1, <1>2, <1>3, <1>4 DEF IInv, Typed, NoOrphanOrigin
<1>6. ReadWasSent' /\ OriginBufferFree' /\ LineIncomplete' /\ ReplyBuffered' /\ PeerKnown'
  BY <1>1, <1>3 DEF IInv, ReadWasSent, OriginBufferFree, LineIncomplete, ReplyBuffered, PeerKnown
<1>7. ResolutionPhase'
  BY <1>1 DEF IInv, ResolutionPhase, BetweenQueries, Exhausted, Rcode, Ancount, HeaderBegun, LoopEnds, NoTable, HeaderParsed
<1>. QED BY <1>4, <1>5, <1>6, <1>7 DEF IInv

\* The buffers and the sockets after a read of n bytes
ReadBuffer(s, n) == [buffer EXCEPT ![s] = WriteAdv(@, Arriving(s, n))]
ReadSock(s, n) == [sock EXCEPT ![s].read = @ + n]

\* What is read are bytes that the peer has sent, and fits the room
LEMMA ArrivingOK ==
  ASSUME IInv, NEW s \in Sides, Registered(s), NEW n \in Nat
  PROVE  /\ Arriving(s, n) \in Seq(Byte)
         /\ Len(Arriving(s, n)) = n
         /\ \A i \in 1 .. n : Arriving(s, n)[i].n = sock[s].read + i
<1>1. sock[s].peer \in Sources
  BY DEF Registered, IInv, PeerKnown, Sides, Sources
<1>2. sock[s].read \in Nat
  BY DEF IInv, Typed, SocketType
<1> DEFINE a == sock[s].read + 1
<1> DEFINE b == sock[s].read + n
<1> DEFINE p == sock[s].peer
<1>3. a \in Nat /\ b \in Nat /\ a <= b + 1 /\ (b + 1) - a = n
  BY <1>2
<1>4. \A i \in 1 .. n : a + (i - 1) = sock[s].read + i
  BY <1>2
<1>5. Arriving(s, n) = Bytes(p, a, b)
  BY DEF Arriving
<1> HIDE DEF a, b, p
<1>6. p \in Sources
  BY <1>1 DEF p
<1>7. /\ Bytes(p, a, b) \in Seq(Byte)
      /\ Len(Bytes(p, a, b)) = n
      /\ \A i \in 1 .. n : Bytes(p, a, b)[i] = [from |-> p, n |-> a + (i - 1)]
  BY <1>3, <1>6, BytesSeq
<1>. QED BY <1>4, <1>5, <1>7

\* The buffers and sockets after a read have their types
LEMMA ReadArgsOK ==
  ASSUME IInv, NEW s \in Sides, Registered(s),
         NEW n \in Nat, n <= Unread(s), n <= Room(buffer[s])
  PROVE  /\ ArgsOK(status, ReadBuffer(s, n), ReadSock(s, n))
         /\ ReadSock(s, n).origin.peer = sock.origin.peer
         /\ ReadSock(s, n).origin.sent = sock.origin.sent
         /\ ReadSock(s, n)[s].read = sock[s].read + n
         /\ sock.origin.read <= ReadSock(s, n).origin.read
<1>1. buffer[s] \in QueueOf(Byte) /\ buffer \in [Sides -> QueueOf(Byte)]
  BY DEF IInv, Typed
<1>2. WriteAdv(buffer[s], Arriving(s, n)) \in QueueOf(Byte)
  BY <1>1, ArrivingOK, WriteAdvType
<1>3. ReadBuffer(s, n) \in [Sides -> QueueOf(Byte)]
  BY <1>1, <1>2 DEF ReadBuffer
<1>4. /\ sock \in [Sides -> SocketType]
      /\ \A x \in Sides : /\ sock[x].read \in Nat /\ sock[x].sent \in Nat
                          /\ sock[x].read <= sock[x].sent
  BY DEF IInv, Typed, ReadWasSent, SocketType
<1>5. ASSUME NEW x \in Sides
      PROVE  /\ ReadSock(s, n)[x] \in SocketType
             /\ ReadSock(s, n)[x].peer = sock[x].peer
             /\ ReadSock(s, n)[x].sent = sock[x].sent
             /\ ReadSock(s, n)[x].read = IF x = s THEN sock[x].read + n ELSE sock[x].read
  <2>1. sock[s] \in SocketType /\ sock[s].read + n \in Nat
    BY <1>4
  <2> DEFINE moved == [sock[s] EXCEPT !.read = @ + n]
  <2>2. /\ moved \in SocketType
        /\ moved.peer = sock[s].peer /\ moved.sent = sock[s].sent
        /\ moved.read = sock[s].read + n
    BY <2>1 DEF SocketType
  <2>3. ReadSock(s, n) = [sock EXCEPT ![s] = moved]
    BY DEF ReadSock
  <2> HIDE DEF moved
  <2>4. ReadSock(s, n)[x] = IF x = s THEN moved ELSE sock[x]
    BY <1>4, <2>3
  <2>. QED BY <1>4, <2>2, <2>4
<1>6. sock[s].read + n <= sock[s].sent
  BY <1>4 DEF Unread
<1>7. \A x \in Sides : ReadSock(s, n)[x].read <= ReadSock(s, n)[x].sent
  BY <1>4, <1>5, <1>6
<1>8. ReadSock(s, n) \in [Sides -> SocketType]
  BY <1>4, <1>5 DEF ReadSock
<1>9. "client" \in Sides /\ "origin" \in Sides
  BY DEF Sides
<1>10. sock.client.peer = "client" /\ status \in [Sides -> Statuses]
  BY DEF IInv, PeerKnown, Typed
<1>. QED BY <1>3, <1>4, <1>5, <1>7, <1>8, <1>9, <1>10 DEF ArgsOK

\* What the origin's buffer holds are units the DoH server has sent
LEMMA ReadUnitsOK ==
  ASSUME IInv, NEW s \in Sides, Registered(s), state = "AWAIT_DOH_RESPONSE",
         NEW n \in Nat, n <= Unread(s), n <= Room(buffer[s])
  PROVE  \A i \in 1 .. Len(ReadBuffer(s, n).origin.bytes) :
           ReadBuffer(s, n).origin.bytes[i].n \in 1 .. ReadSock(s, n).origin.read
<1>1. /\ buffer.origin \in QueueOf(Byte) /\ buffer.origin.bytes \in Seq(Byte)
      /\ Len(buffer.origin.bytes) \in Nat
      /\ sock.origin.read \in Nat
      /\ "origin" \in Sides
  <2>1. "origin" \in Sides
    BY DEF Sides
  <2>2. buffer.origin \in QueueOf(Byte) /\ sock.origin.read \in Nat
    BY <2>1 DEF IInv, Typed, SocketType
  <2>. QED BY <2>1, <2>2, QueueFields
<1>2. \A i \in 1 .. Len(buffer.origin.bytes) : buffer.origin.bytes[i].n \in 1 .. sock.origin.read
  BY DEF IInv, ReplyBuffered
<1>3. CASE s = "client"
  <2>1. ReadBuffer(s, n).origin = buffer.origin /\ ReadSock(s, n).origin = sock.origin
    BY <1>1, <1>3 DEF ReadBuffer, ReadSock, IInv, Typed
  <2>. QED BY <1>2, <2>1
<1>4. CASE s = "origin"
  <2>1. /\ ReadBuffer(s, n).origin.bytes = buffer.origin.bytes \o Arriving(s, n)
        /\ ReadSock(s, n).origin.read = sock.origin.read + n
    BY <1>1, <1>4, ReadArgsOK DEF ReadBuffer, WriteAdv, IInv, Typed
  <2>2. /\ Arriving(s, n) \in Seq(Byte) /\ Len(Arriving(s, n)) = n
        /\ \A i \in 1 .. n : Arriving(s, n)[i].n = sock.origin.read + i
    BY <1>4, ArrivingOK
  <2> DEFINE old == buffer.origin.bytes
  <2> DEFINE arriving == Arriving(s, n)
  <2>3. /\ old \in Seq(Byte) /\ arriving \in Seq(Byte)
        /\ Len(old) \in Nat /\ Len(arriving) = n
    BY <1>1, <2>2
  <2>4. \A i \in 1 .. Len(old) : old[i].n \in 1 .. sock.origin.read
    BY <1>2
  <2>5. \A i \in 1 .. n : arriving[i].n = sock.origin.read + i
    BY <2>2
  <2> HIDE DEF old, arriving
  <2>6. ASSUME NEW i \in 1 .. Len(old \o arriving)
        PROVE  (old \o arriving)[i].n \in 1 .. sock.origin.read + n
    <3>1. /\ Len(old \o arriving) = Len(old) + n
          /\ (old \o arriving)[i] = IF i <= Len(old) THEN old[i] ELSE arriving[i - Len(old)]
      BY <2>3
    <3>2. CASE i <= Len(old)
      <4>1. old[i].n \in 1 .. sock.origin.read
        BY <2>3, <2>4, <3>1, <3>2
      <4>. QED BY <1>1, <3>1, <3>2, <4>1
    <3>3. CASE ~(i <= Len(old))
      <4>1. i - Len(old) \in 1 .. n
        BY <2>3, <3>1, <3>3
      <4>2. arriving[i - Len(old)].n = sock.origin.read + (i - Len(old))
        BY <2>5, <4>1
      <4>. QED BY <1>1, <2>3, <3>1, <3>3, <4>1, <4>2
    <3>. QED BY <3>2, <3>3
  <2>. QED BY <2>1, <2>6 DEF old, arriving
<1>. QED BY <1>3, <1>4 DEF Sides

\* stm_handler_read keeps the invariant, whatever the state
LEMMA StmReadOK ==
  ASSUME NEW st, NEW buf, NEW sk, NEW s \in Sides, ReadCalled(st, buf, sk),
         state = "PARSING_REQUEST_LINE" =>
           /\ st = status
           /\ buf.origin = EmptyQueue
           /\ Length(buf.client) = sk.client.read - sock.client.read
           /\ Length(buf.client) > 0,
         state = "AWAIT_DOH_RESPONSE" =>
           \A i \in 1 .. Len(buf.origin.bytes) : buf.origin.bytes[i].n \in 1 .. sk.origin.read,
         StmRead(s, st, buf, sk)
  PROVE  IInv'
<1>1. CASE /\ state = "PARSING_REQUEST_LINE"
           /\ ParsingRead(buf, sk)
           /\ UNCHANGED <<doh, metrics, live, hung>>
  BY <1>1, ParsingReadOK
<1>2. CASE /\ state = "AWAIT_DOH_RESPONSE"
           /\ AwaitDohRead(st, buf, sk)
           /\ UNCHANGED <<metrics, live>>
  BY <1>2, AwaitDohReadOK DEF AwaitCalled
<1>3. CASE /\ state = "CONNECTED"
           /\ ConnectedRead(st, buf, sk)
           /\ UNCHANGED <<origin_fd, error, doh, reply, metrics, live, hung>>
  BY <1>3, ConnectedReadOK
<1>4. CASE /\ state = "CLOSING"
           /\ ClosingRead(s, st, buf, sk)
           /\ UNCHANGED <<error, doh, reply, hung>>
  BY <1>4, ClosingReadOK
<1>. QED BY <1>1, <1>2, <1>3, <1>4 DEF StmRead

\* The read callbacks keep the invariant
LEMMA HandleReadOK ==
  ASSUME IInv, NEW s \in Sides, HandleRead(s)
  PROVE  IInv'
<1> DEFINE room == Room(buffer[s])
<1> DEFINE n == IF Unread(s) < room THEN Unread(s) ELSE room
<1>1. /\ live /\ Registered(s) /\ state \in HaveReadHandler
      /\ request' = request /\ idle' \in BOOLEAN
      /\ metrics \in MetricsType
  BY DEF HandleRead, ReadReady, Registered, IInv, DispatchHandled, Typed
<1>2. room \in Nat
  BY QueueFields DEF IInv, Typed
<1>3. Unread(s) \in Nat
  <2>1. sock[s] \in SocketType /\ sock[s].read <= sock[s].sent
    BY DEF IInv, Typed, ReadWasSent
  <2>. QED BY <2>1 DEF SocketType, Unread
<1>4. n \in Nat /\ n <= Unread(s) /\ n <= room
  BY <1>2, <1>3
<1>5. state = "PARSING_REQUEST_LINE" => s = "client"
  BY <1>1 DEF Registered, IInv, PeerKnown, Sides
<1>6. state = "PARSING_REQUEST_LINE" => buffer.origin = EmptyQueue /\ buffer.client = EmptyQueue
  BY DEF IInv, OriginBufferFree, LineIncomplete
<1>7. ArgsOK(status, buffer, sock)
  BY IInvArgs
<1>8. CASE close_proxy_connection(metrics)
  BY <1>1, <1>8, CloseProxyConnectionOK
<1>9. CASE /\ ~(s = "client" /\ state \in BeforeConnected)
           /\ StmRead(s, [status EXCEPT ![s] = "CLOSING"], buffer, sock)
  <2> DEFINE st == [status EXCEPT ![s] = "CLOSING"]
  <2>1. ArgsOK(st, buffer, sock) /\ (status.origin # "INACTIVE" => st.origin # "INACTIVE")
    BY <1>7 DEF ArgsOK, Statuses, Sides
  <2> HIDE DEF st
  <2>2. ReadCalled(st, buffer, sock)
    BY <1>1, <2>1 DEF ReadCalled
  <2>3. state # "PARSING_REQUEST_LINE"
    BY <1>5, <1>9 DEF BeforeConnected, BeforeSendRequestLine
  <2>4. state = "AWAIT_DOH_RESPONSE" =>
          \A i \in 1 .. Len(buffer.origin.bytes) : buffer.origin.bytes[i].n \in 1 .. sock.origin.read
    BY DEF IInv, ReplyBuffered
  <2>5. StmRead(s, st, buffer, sock)
    BY <1>9 DEF st
  <2>. QED BY <2>2, <2>3, <2>4, <2>5, StmReadOK
<1>10. CASE n > 0 /\ StmRead(s, status, ReadBuffer(s, n), ReadSock(s, n))
  <2> HIDE DEF n, room
  <2>1. /\ ArgsOK(status, ReadBuffer(s, n), ReadSock(s, n))
        /\ ReadSock(s, n).origin.peer = sock.origin.peer
        /\ ReadSock(s, n).origin.sent = sock.origin.sent
        /\ ReadSock(s, n)[s].read = sock[s].read + n
    BY <1>1, <1>4, ReadArgsOK DEF room
  <2>2. ReadCalled(status, ReadBuffer(s, n), ReadSock(s, n))
    BY <1>1, <2>1 DEF ReadCalled
  <2>3. ASSUME state = "PARSING_REQUEST_LINE"
        PROVE  /\ ReadBuffer(s, n).origin = EmptyQueue
               /\ Length(ReadBuffer(s, n).client) = ReadSock(s, n).client.read - sock.client.read
               /\ Length(ReadBuffer(s, n).client) > 0
    <3>1. /\ ReadBuffer(s, n).origin = EmptyQueue
          /\ ReadBuffer(s, n).client.bytes = <<>> \o Arriving(s, n)
      <4>1. buffer \in [Sides -> QueueOf(Byte)] /\ "client" \in Sides /\ "origin" \in Sides
        BY <1>7 DEF ArgsOK, Sides
      <4>2. ReadBuffer(s, n) = [buffer EXCEPT !["client"] = WriteAdv(@, Arriving(s, n))]
        BY <1>5, <2>3 DEF ReadBuffer
      <4>3. /\ ReadBuffer(s, n).origin = buffer.origin
            /\ ReadBuffer(s, n).client = WriteAdv(EmptyQueue, Arriving(s, n))
        BY <1>6, <2>3, <4>1, <4>2
      <4>. QED BY <1>6, <2>3, <4>3 DEF WriteAdv, EmptyQueue
    <3>2. Len(<<>> \o Arriving(s, n)) = n
      BY <1>1, <1>4, ArrivingOK
    <3>3. sock.client.read \in Nat
      BY <1>7 DEF ArgsOK, SocketType, Sides
    <3>4. ReadSock(s, n).client.read = sock.client.read + n
      BY <1>5, <2>1, <2>3
    <3>. QED BY <1>4, <1>10, <3>1, <3>2, <3>3, <3>4 DEF Length
  <2>4. state = "AWAIT_DOH_RESPONSE" =>
          \A i \in 1 .. Len(ReadBuffer(s, n).origin.bytes) :
            ReadBuffer(s, n).origin.bytes[i].n \in 1 .. ReadSock(s, n).origin.read
    BY <1>1, <1>4, ReadUnitsOK DEF room
  <2>. QED BY <1>10, <2>2, <2>3, <2>4, StmReadOK
<1>. QED BY <1>3, <1>4, <1>8, <1>9, <1>10 DEF HandleRead, ReadBuffer, ReadSock

-----------------------------------------------------------------------------
(* The write handlers *)

\* try_connection_ip_on_write_ready keeps the invariant
LEMMA TryConnectionIpWriteOK ==
  ASSUME IInv, live, live' = live, state = "TRY_CONNECTION_IP",
         request' = request, idle' \in BOOLEAN,
         TryConnectionIpWrite
  PROVE  IInv'
<1>1. /\ ArgsOK(status, buffer, sock) /\ Common
      /\ buffer.origin = EmptyQueue
      /\ sock.origin.peer = "doh" <=> request.host = "domain" /\ ~doh.is_active
      /\ BetweenQueries(doh)
      /\ metrics \in MetricsType
  BY IInvArgs DEF IInv, OriginBufferFree, PeerKnown, ResolutionPhase, Typed
<1>2. /\ register_new_connection(metrics) \in MetricsType
      /\ increase_failed_connections(metrics) \in MetricsType
  BY <1>1, MetricsOK DEF Sides
<1>3. CASE /\ request.host = "domain" /\ ~doh.is_active
           /\ EnterSendDohRequest(status, buffer, sock)
           /\ UNCHANGED <<metrics, origin_fd, error, doh, reply, hung>>
  <2>1. SettledAs("SEND_DOH_REQUEST")' /\ status' = status /\ sock' = sock
    BY <1>1, <1>3, EnterSendDohRequestOK
  <2>2. Common'
    BY <1>1, <1>3, <2>1 DEF Common, NoOrphanOrigin
  <2>. QED BY <1>1, <1>3, <2>1, <2>2
       DEF IInv, Typed, ReadWasSent, OriginBufferFree, LineIncomplete, ReplyBuffered, PeerKnown,
           ResolutionPhase, SettledAs, ArgsOK, Common, States
<1>4. CASE /\ metrics' = register_new_connection(metrics)
           /\ SettleConnected(status,
                 [buffer EXCEPT !.origin = WriteAdv(EmptyQueue, Message("ok"))], sock)
           /\ UNCHANGED <<origin_fd, error, doh, reply, hung>>
  <2> DEFINE buf == [buffer EXCEPT !.origin = WriteAdv(EmptyQueue, Message("ok"))]
  <2>1. ArgsOK(status, buf, sock)
    BY <1>1, MessageType DEF ArgsOK, Sides, Sources
  <2>2. SettleConnected(status, buf, sock)
    BY <1>4
  <2> HIDE DEF buf
  <2>3. SettledAs("CONNECTED")' /\ status' = status /\ sock' = sock
    BY <2>1, <2>2, SettleConnectedOK
  <2>4. Common'
    BY <1>1, <1>2, <1>4, <2>3 DEF Common, NoOrphanOrigin
  <2>. QED BY <2>3, <2>4, QuietIInv DEF QuietStates
<1>5. CASE /\ metrics' = register_new_connection(metrics)
           /\ EnterSendRequestLine(status, buffer, sock)
           /\ UNCHANGED <<origin_fd, error, doh, reply, hung>>
  <2>1. SettledAs("SEND_REQUEST_LINE")' /\ status' = status /\ sock' = sock
    BY <1>1, <1>5, EnterSendRequestLineOK
  <2>2. Common'
    BY <1>1, <1>2, <1>5, <2>1 DEF Common, NoOrphanOrigin
  <2>. QED BY <2>1, <2>2, QuietIInv DEF QuietStates
<1>6. CASE /\ metrics' = increase_failed_connections(metrics)
           /\ request.host = "domain" /\ doh.allocated
           /\ try_next_dns_connection(doh, status, buffer, sock)
  <2>1. Resolving(sock)
    BY <1>1, <1>2, <1>6 DEF Resolving, Common
  <2>2. TryNextCalled(doh, status, buffer, sock)
    BY <1>1, <1>6, <2>1 DEF TryNextCalled, Common
  <2>. QED BY <1>6, <2>2, TryNextDnsConnectionOK
<1>7. CASE /\ metrics' = increase_failed_connections(metrics)
           /\ EnterError("500", status, buffer, sock)
           /\ UNCHANGED <<origin_fd, doh, reply, hung>>
  <2>1. SettledAs("ERROR")' /\ status' = status /\ sock' = sock /\ error' = "500"
    BY <1>1, <1>7, EnterErrorOK
  <2>2. Common'
    BY <1>1, <1>2, <1>7, <2>1 DEF Common, NoOrphanOrigin
  <2>. QED BY <2>1, <2>2, QuietIInv DEF QuietStates
<1>. QED BY <1>3, <1>4, <1>5, <1>6, <1>7 DEF TryConnectionIpWrite

\* What holds when a write handler has sent, and left buf, sk and m
WriteCalled(buf, sk, m) ==
  /\ IInv
  /\ live
  /\ ArgsOK(status, buf, sk)
  /\ sk.origin.peer = sock.origin.peer
  /\ sk.origin.sent = sock.origin.sent
  /\ m \in MetricsType
  /\ request' = request
  /\ idle' \in BOOLEAN
  /\ UNCHANGED <<reply, hung>>

\* A write that leaves the state as it is
LEMMA WriteStaysOK ==
  ASSUME NEW buf, NEW sk, NEW m, WriteCalled(buf, sk, m),
         state \in {"SEND_DOH_REQUEST", "SEND_REQUEST_LINE", "ERROR"},
         Settle(state, interest, status, buf, sk),
         metrics' = m,
         UNCHANGED <<doh, error, live, origin_fd>>
  PROVE  IInv'
<1>1. /\ state' = state /\ interest' = interest
      /\ status' = status /\ buffer' = buf /\ sock' = sk
  BY DEF Settle
<1>2. SettledAs(state)'
  BY <1>1 DEF SettledAs, WriteCalled, ArgsOK, DispatchHandled, IInv, Typed
<1>3. Common'
  BY <1>1, IInvArgs DEF WriteCalled, Common, NoOrphanOrigin
<1>. QED BY <1>1, <1>2, <1>3
     DEF IInv, Typed, ReadWasSent, OriginBufferFree, LineIncomplete, ReplyBuffered, PeerKnown,
         ResolutionPhase, SettledAs, ArgsOK, Common, WriteCalled

\* The query is sent, the answer awaited
LEMMA AwaitEnteredOK ==
  ASSUME NEW buf, NEW sk, NEW m, WriteCalled(buf, sk, m),
         state = "SEND_DOH_REQUEST", ~CanRead(buf.origin),
         EnterAwaitDohResponse(status, buf, sk),
         metrics' = m,
         UNCHANGED <<live, origin_fd>>
  PROVE  IInv'
<1>1. SettledAs("AWAIT_DOH_RESPONSE")' /\ status' = status /\ buffer' = buf /\ sock' = sk
  BY EnterAwaitDohResponseOK DEF WriteCalled
<1>2. /\ doh' \in DohType /\ (doh'.is_active => doh'.allocated)
      /\ error' \in {"0", "400", "500", "502"}
      /\ error' # "500" => doh'.is_active
  <2>1. doh \in DohType /\ (doh.is_active => doh.allocated) /\ error \in {"0", "400", "500", "502"}
    BY DEF WriteCalled, IInv, Typed, ResolutionPhase
  <2>2. <<>> \in Seq(Unit)
    OBVIOUS
  <2>3. CASE /\ doh' = [doh EXCEPT !.allocated = TRUE, !.is_active = TRUE,
                                 !.current_try = 0, !.parsed = <<>>]
             /\ UNCHANGED error
    <3>1. /\ doh' = [allocated |-> TRUE, is_active |-> TRUE, current_try |-> 0,
                     parsed |-> <<>>, current_type |-> doh.current_type]
      BY <2>1, <2>3 DEF DohType
    <3>2. doh' \in DohType
      <4> DEFINE type == doh.current_type
      <4>1. type \in {"A", "AAAA"}
        BY <2>1 DEF DohType
      <4>2. doh' = [allocated |-> TRUE, is_active |-> TRUE, current_try |-> 0,
                    parsed |-> <<>>, current_type |-> type]
        BY <3>1
      <4> HIDE DEF type
      <4>. QED BY <2>2, <4>1, <4>2 DEF DohType
    <3>3. doh'.is_active /\ doh'.allocated
      BY <3>1
    <3>4. error' = error
      BY <2>3
    <3>. QED BY <2>1, <3>2, <3>3, <3>4
  <2>4. CASE error' = "500" /\ UNCHANGED doh
    BY <2>1, <2>4
  <2>. QED BY <2>3, <2>4 DEF EnterAwaitDohResponse
<1>3. Common'
  BY <1>1, <1>2, IInvArgs DEF WriteCalled, Common, NoOrphanOrigin
<1>4. 1 .. Len(buf.origin.bytes) = {}
  <2>1. buf.origin \in QueueOf(Byte)
    BY DEF WriteCalled, ArgsOK, Sides
  <2>. QED BY <2>1, QueueFields DEF CanRead
<1>. QED BY <1>1, <1>2, <1>3, <1>4
     DEF IInv, Typed, ReadWasSent, OriginBufferFree, LineIncomplete, ReplyBuffered, PeerKnown,
         ResolutionPhase, SettledAs, ArgsOK, Common, WriteCalled, States

\* A write that ends in a state of which the invariant asks nothing more
LEMMA WriteQuietOK ==
  ASSUME NEW next \in QuietStates, NEW buf, NEW sk, NEW m, WriteCalled(buf, sk, m),
         SettledAs(next)',
         sock'.origin.peer = sk.origin.peer,
         sock'.origin.sent = sk.origin.sent,
         \/ /\ status.origin # "INACTIVE" => status'.origin # "INACTIVE"
            /\ UNCHANGED <<live, origin_fd>>
         \/ /\ live' = FALSE
            /\ origin_fd' \in {"none", "unregistered", "closed"},
         metrics' \in MetricsType,
         UNCHANGED <<doh, error>>
  PROVE  IInv'
<1>1. Common'
  BY IInvArgs DEF WriteCalled, Common, NoOrphanOrigin
<1>. QED BY <1>1, QuietIInv

\* empty_buffers_on_write_ready keeps the invariant
LEMMA EmptyBuffersWriteOK ==
  ASSUME NEW buf, NEW sk, NEW m, WriteCalled(buf, sk, m),
         EmptyBuffersWrite(buf, sk, m),
         UNCHANGED <<doh, error>>
  PROVE  IInv'
<1>1. ArgsOK(status, buf, sk) /\ m \in MetricsType
  BY DEF WriteCalled
<1>2. CASE /\ EnterDone(CloseDrained(status, buf), buf, ShutDrained(status, buf, sk))
           /\ metrics' = unregister_connection(m)
  <2> DEFINE st == CloseDrained(status, buf)
  <2> DEFINE shut == ShutDrained(status, buf, sk)
  <2>1. /\ ArgsOK(st, buf, shut)
        /\ shut.origin.peer = sk.origin.peer
        /\ shut.origin.sent = sk.origin.sent
        /\ status.origin # "INACTIVE" => st.origin # "INACTIVE"
    BY <1>1, ShutDrainedOK DEF Sides
  <2>2. EnterDone(st, buf, shut)
    BY <1>2
  <2> HIDE DEF st, shut
  <2>3. /\ SettledAs("DONE")' /\ sock' = shut
        /\ live' = FALSE
        /\ origin_fd' \in {"none", "unregistered", "closed"}
    BY <2>1, <2>2, EnterDoneOK DEF WriteCalled, IInv, Typed, NoOrphanOrigin
  <2>4. metrics' \in MetricsType
    BY <1>1, <1>2, MetricsOK DEF Sides
  <2>. QED BY <2>1, <2>3, <2>4, WriteQuietOK DEF QuietStates
<1>3. CASE /\ SettleEmptyBuffers(status, buf, sk)
           /\ metrics' = m
           /\ UNCHANGED <<live, origin_fd>>
  <2>1. /\ SettledAs("EMPTY_BUFFERS")'
        /\ sock'.origin.peer = sk.origin.peer
        /\ sock'.origin.sent = sk.origin.sent
        /\ status.origin # "INACTIVE" => status'.origin # "INACTIVE"
    BY <1>1, <1>3, SettleEmptyBuffersOK
  <2>. QED BY <1>1, <1>3, <2>1, WriteQuietOK DEF QuietStates
<1>. QED BY <1>2, <1>3 DEF EmptyBuffersWrite

\* stm_handler_write keeps the invariant, whatever the state
LEMMA StmWriteOK ==
  ASSUME NEW buf, NEW sk, NEW m, WriteCalled(buf, sk, m), StmWrite(buf, sk, m)
  PROVE  IInv'
<1>1. ArgsOK(status, buf, sk) /\ m \in MetricsType
  BY DEF WriteCalled
<1>2. CASE /\ state \in {"SEND_DOH_REQUEST", "SEND_REQUEST_LINE", "ERROR"}
           /\ Settle(state, interest, status, buf, sk)
           /\ metrics' = m
           /\ UNCHANGED <<doh, error, live, origin_fd>>
  BY <1>2, WriteStaysOK
<1>3. CASE /\ state = "SEND_DOH_REQUEST" /\ ~CanRead(buf.origin)
           /\ EnterAwaitDohResponse(status, buf, sk)
           /\ metrics' = m
           /\ UNCHANGED <<live, origin_fd>>
  BY <1>3, AwaitEnteredOK
<1>4. CASE /\ SettleConnected(status, buf, sk)
           /\ metrics' = m
           /\ UNCHANGED <<doh, error, live, origin_fd>>
  <2>1. SettledAs("CONNECTED")' /\ status' = status /\ sock' = sk
    BY <1>1, <1>4, SettleConnectedOK
  <2>. QED BY <1>1, <1>4, <2>1, WriteQuietOK DEF QuietStates
<1>5. CASE /\ SettleClosing(status, buf, sk)
           /\ metrics' = m
           /\ UNCHANGED <<doh, error, live, origin_fd>>
  <2>1. /\ SettledAs("CLOSING")'
        /\ sock'.origin.peer = sk.origin.peer
        /\ sock'.origin.sent = sk.origin.sent
        /\ status.origin # "INACTIVE" => status'.origin # "INACTIVE"
    BY <1>1, <1>5, SettleClosingOK
  <2>. QED BY <1>1, <1>5, <2>1, WriteQuietOK DEF QuietStates
<1>6. CASE EmptyBuffersWrite(buf, sk, m) /\ UNCHANGED <<doh, error>>
  BY <1>6, EmptyBuffersWriteOK
<1>7. CASE /\ EnterDone(status, buf, sk)
           /\ metrics' = m
           /\ UNCHANGED <<doh, error>>
  <2>1. /\ SettledAs("DONE")' /\ sock' = sk
        /\ live' = FALSE
        /\ origin_fd' \in {"none", "unregistered", "closed"}
    BY <1>1, <1>7, EnterDoneOK DEF WriteCalled, IInv, Typed, NoOrphanOrigin
  <2>. QED BY <1>1, <1>7, <2>1, WriteQuietOK DEF QuietStates
<1>. QED BY <1>2, <1>3, <1>4, <1>5, <1>6, <1>7 DEF StmWrite

\* The buffers and the sockets after side s was sent n bytes of buffer o
WriteBuffer(o, n) == [buffer EXCEPT ![o] = ReadAdv(@, n)]
WriteSock(s, o, n, full) ==
  [sock EXCEPT ![s].got = @ \o SubSeq(buffer[o].bytes, 1, n), ![s].full = full]

\* The buffers and sockets after a send have their types
LEMMA WriteArgsOK ==
  ASSUME IInv, NEW s \in Sides, NEW o \in Sides, NEW n \in 1 .. Length(buffer[o]),
         NEW full \in Fills
  PROVE  /\ ArgsOK(status, WriteBuffer(o, n), WriteSock(s, o, n, full))
         /\ WriteSock(s, o, n, full).origin.peer = sock.origin.peer
         /\ WriteSock(s, o, n, full).origin.sent = sock.origin.sent
<1>1. /\ buffer \in [Sides -> QueueOf(Byte)] /\ buffer[o] \in QueueOf(Byte)
      /\ sock \in [Sides -> SocketType] /\ status \in [Sides -> Statuses]
      /\ \A x \in Sides : sock[x].read <= sock[x].sent
      /\ sock.client.peer = "client"
  BY IInvArgs DEF ArgsOK
<1>2. /\ n \in Nat /\ n <= Length(buffer[o])
      /\ buffer[o].bytes \in Seq(Byte) /\ Length(buffer[o]) = Len(buffer[o].bytes)
  BY <1>1, QueueFields
<1>3. WriteBuffer(o, n) \in [Sides -> QueueOf(Byte)]
  <2>1. ReadAdv(buffer[o], n) \in QueueOf(Byte)
    BY <1>1, <1>2, ReadAdvType
  <2>. QED BY <1>1, <2>1 DEF WriteBuffer
<1> DEFINE taken == SubSeq(buffer[o].bytes, 1, n)
<1>4. taken \in Seq(Byte)
  BY <1>2, SubSeqProperties
<1> DEFINE given == sock[s].got \o taken
<1> DEFINE moved == [sock[s] EXCEPT !.got = given, !.full = full]
<1>5. WriteSock(s, o, n, full) = [sock EXCEPT ![s] = moved]
  BY DEF WriteSock
<1> HIDE DEF taken
<1>6. given \in Seq(Byte) /\ full \in BOOLEAN
  <2>1. full \in BOOLEAN
    BY ConnectionAssumption, Zenon DEF Fills
  <2>. QED BY <1>1, <1>4, <2>1 DEF SocketType
<1> HIDE DEF given
<1>7. /\ moved \in SocketType
      /\ moved.peer = sock[s].peer /\ moved.sent = sock[s].sent /\ moved.read = sock[s].read
  BY <1>1, <1>6 DEF SocketType
<1> HIDE DEF moved
<1>8. \A x \in Sides : WriteSock(s, o, n, full)[x] = IF x = s THEN moved ELSE sock[x]
  BY <1>1, <1>5
<1>9. WriteSock(s, o, n, full) \in [Sides -> SocketType]
  BY <1>1, <1>5, <1>7
<1>10. "client" \in Sides /\ "origin" \in Sides
  BY DEF Sides
<1>. QED BY <1>1, <1>3, <1>7, <1>8, <1>9, <1>10 DEF ArgsOK

\* The write callbacks keep the invariant
LEMMA HandleWriteOK ==
  ASSUME IInv, NEW s \in Sides, HandleWrite(s)
  PROVE  IInv'
<1>1. /\ live /\ request' = request /\ idle' \in BOOLEAN
      /\ metrics \in MetricsType
  BY DEF HandleWrite, WriteReady, Registered, IInv, Typed
<1>2. CASE state = "TRY_CONNECTION_IP" /\ TryConnectionIpWrite /\ UNCHANGED live
  BY <1>1, <1>2, TryConnectionIpWriteOK
<1>3. CASE close_proxy_connection(metrics)
  BY <1>1, <1>3, CloseProxyConnectionOK
<1>4. CASE /\ \E n \in 1 .. Length(buffer[Outgoing(s)]), full \in Fills :
                StmWrite(WriteBuffer(Outgoing(s), n), WriteSock(s, Outgoing(s), n, full),
                         Transferred(metrics, s, n))
           /\ UNCHANGED <<reply, hung>>
  <2> DEFINE o == Outgoing(s)
  <2>1. o \in Sides
    BY DEF Outgoing, Other, Sides
  <2> HIDE DEF o
  <2>2. PICK n \in 1 .. Length(buffer[o]), full \in Fills :
          StmWrite(WriteBuffer(o, n), WriteSock(s, o, n, full), Transferred(metrics, s, n))
    BY <1>4 DEF o
  <2>3. Length(buffer[o]) \in Nat
    BY <2>1, QueueFields DEF IInv, Typed
  <2>4. Transferred(metrics, s, n) \in MetricsType
    BY <1>1, <2>3, MetricsOK
  <2>5. WriteCalled(WriteBuffer(o, n), WriteSock(s, o, n, full), Transferred(metrics, s, n))
    BY <1>1, <1>4, <2>1, <2>4, WriteArgsOK DEF WriteCalled
  <2>. QED BY <2>2, <2>5, StmWriteOK
<1>. QED BY <1>2, <1>3, <1>4 DEF HandleWrite, WriteBuffer, WriteSock

-----------------------------------------------------------------------------
(* Time, the peers and the network *)

\* Nothing but the sockets, the reply and idle
Elsewhere ==
  UNCHANGED <<state, status, interest, buffer, origin_fd, request, error, doh,
              metrics, live, hung>>

\* A socket that moved on
Advanced(old, new) ==
  /\ new \in SocketType
  /\ new.peer = old.peer
  /\ new.read = old.read
  /\ old.sent <= new.sent

\* A socket whose peer read, whose peer ended, or whose connect() did
LEMMA SignalledOK ==
  ASSUME NEW old \in SocketType, NEW new, NEW link \in {"up", "failed"},
         new \in {[old EXCEPT !.fin = TRUE], [old EXCEPT !.reset = TRUE],
                  [old EXCEPT !.full = FALSE], [old EXCEPT !.link = link]}
  PROVE  Advanced(old, new) /\ new.sent = old.sent
<1>1. new \in SocketType
  BY DEF SocketType
<1>2. new.peer = old.peer /\ new.read = old.read /\ new.sent = old.sent
  BY DEF SocketType
<1>3. old.sent \in Nat
  BY DEF SocketType
<1>. QED BY <1>1, <1>2, <1>3 DEF Advanced

\* What happens outside of the proxy keeps the invariant
LEMMA ElsewhereOK ==
  ASSUME IInv, Elsewhere, idle' \in BOOLEAN,
         sock' \in [Sides -> SocketType],
         \A s \in Sides : Advanced(sock[s], sock'[s]),
         reply' \in Seq(Unit),
         sock'.origin.peer = "doh" => Len(reply') = sock'.origin.sent
  PROVE  IInv'
<1>1. /\ "client" \in Sides /\ "origin" \in Sides
      /\ \A s \in Sides : sock[s] \in SocketType /\ sock[s].read <= sock[s].sent
  BY DEF Sides, IInv, Typed, ReadWasSent
<1>2. ReadWasSent'
  <2>1. ASSUME NEW s \in Sides PROVE sock'[s].read <= sock'[s].sent
    <3>1. sock'[s].read = sock[s].read /\ sock[s].sent <= sock'[s].sent
      BY DEF Advanced
    <3>2. sock[s].read \in Nat /\ sock[s].sent \in Nat /\ sock'[s].sent \in Nat
      BY <1>1 DEF SocketType
    <3>. QED BY <1>1, <3>1, <3>2
  <2>. QED BY <2>1 DEF ReadWasSent
<1>3. Typed' /\ DispatchHandled' /\ NoOrphanOrigin'
  BY DEF Elsewhere, IInv, Typed, DispatchHandled, NoOrphanOrigin
<1>4. OriginBufferFree' /\ LineIncomplete' /\ ReplyBuffered' /\ PeerKnown'
  BY <1>1 DEF Elsewhere, IInv, OriginBufferFree, LineIncomplete, ReplyBuffered, PeerKnown, Advanced
<1>5. ResolutionPhase'
  BY DEF Elsewhere, IInv, ResolutionPhase, BetweenQueries, Exhausted, Rcode, Ancount, HeaderBegun, LoopEnds, NoTable, HeaderParsed
<1>. QED BY <1>2, <1>3, <1>4, <1>5 DEF IInv

\* The server sends only units
LEMMA NextUnitsType ==
  ASSUME NEW u \in NextUnits(reply, MaxAnswers, ExtraUnits)
  PROVE  u \in Unit
<1>1. Plain("http") \in Unit /\ Plain("malformed") \in Unit /\ Plain("extra") \in Unit
  BY DEF Plain, Unit
<1>2. Headers(MaxAnswers) \subseteq Unit
  BY ConnectionAssumption DEF Headers, Unit
<1>3. \A kind \in {"A", "AAAA", "CNAME", "cut_A", "cut_AAAA", "malformed"} : Plain(kind) \in Unit
  BY DEF Plain, Unit
<1> HIDE DEF Unit, Plain
<1>4. \/ u \in {Plain("extra")}
      \/ u \in {Plain("http"), Plain("malformed")}
      \/ u \in Headers(MaxAnswers)
      \/ u \in {Plain(kind) : kind \in {"A", "AAAA", "CNAME", "cut_A", "cut_AAAA", "malformed"}}
  <2>1. CASE Len(reply) = 0
    BY <2>1, Zenon DEF NextUnits
  <2>2. CASE Len(reply) # 0 /\ Len(reply) = 1
    BY <2>2 DEF NextUnits
  <2>3. CASE Len(reply) # 0 /\ Len(reply) # 1
    BY <2>3 DEF NextUnits
  <2>. QED BY <2>1, <2>2, <2>3
<1>. QED BY <1>1, <1>2, <1>3, <1>4

\* The steps of the peers and of the network keep the invariant
LEMMA EnvironmentOK ==
  ASSUME IInv, Environment
  PROVE  IInv'
<1>1. /\ sock \in [Sides -> SocketType] /\ reply \in Seq(Unit) /\ idle \in BOOLEAN
      /\ sock.origin.peer = "doh" => Len(reply) = sock.origin.sent
      /\ "origin" \in Sides
  BY DEF IInv, Typed, ReplyBuffered, Sides
<1>2. \A s \in Sides : sock[s] \in SocketType /\ sock[s].sent \in Nat /\ sock[s].read \in Nat
  BY <1>1 DEF SocketType
<1>3. ASSUME NEW s \in Sides, PeerSends(s)
      PROVE  IInv'
  <2> DEFINE new == [sock[s] EXCEPT !.sent = @ + 1]
  <2>1. sock' = [sock EXCEPT ![s] = new] /\ reply' = reply /\ Unmoved
    BY <1>3 DEF PeerSends
  <2>2. Advanced(sock[s], new)
    BY <1>2 DEF Advanced, SocketType
  <2>3. sock[s].peer # "doh"
    BY <1>3 DEF PeerSends
  <2> HIDE DEF new
  <2>4. /\ sock' \in [Sides -> SocketType]
        /\ \A x \in Sides : Advanced(sock[x], sock'[x])
    BY <1>1, <1>2, <2>1, <2>2 DEF Advanced
  <2>5. sock'.origin.peer = "doh" => Len(reply') = sock'.origin.sent
    BY <1>1, <2>1, <2>2, <2>3 DEF Advanced
  <2>. QED BY <1>1, <2>1, <2>4, <2>5, ElsewhereOK DEF Unmoved, Elsewhere
<1>4. ASSUME NEW s \in Sides, PeerFinishes(s) \/ PeerReads(s) \/ PeerResetsConnection(s)
      PROVE  IInv'
  <2>1. PICK new : /\ new \in {[sock[s] EXCEPT !.fin = TRUE], [sock[s] EXCEPT !.reset = TRUE],
                               [sock[s] EXCEPT !.full = FALSE]}
                   /\ sock' = [sock EXCEPT ![s] = new] /\ reply' = reply /\ Unmoved
    <3>1. CASE PeerFinishes(s)
      BY <3>1 DEF PeerFinishes
    <3>2. CASE PeerResetsConnection(s)
      BY <3>2 DEF PeerResetsConnection
    <3>3. CASE PeerReads(s)
      BY <3>3 DEF PeerReads
    <3>. QED BY <1>4, <3>1, <3>2, <3>3
  <2>2. Advanced(sock[s], new) /\ new.sent = sock[s].sent
    <3>1. CASE new = [sock[s] EXCEPT !.fin = TRUE]
      BY <1>2, <3>1, SignalledOK
    <3>2. CASE new = [sock[s] EXCEPT !.reset = TRUE]
      BY <1>2, <3>2, SignalledOK
    <3>3. CASE new = [sock[s] EXCEPT !.full = FALSE]
      BY <1>2, <3>3, SignalledOK
    <3>. QED BY <2>1, <3>1, <3>2, <3>3
  <2>3. /\ sock' \in [Sides -> SocketType]
        /\ \A x \in Sides : Advanced(sock[x], sock'[x])
        /\ sock'.origin.sent = sock.origin.sent /\ sock'.origin.peer = sock.origin.peer
    <3>1. \A x \in Sides : sock'[x] = IF x = s THEN new ELSE sock[x]
      BY <1>1, <2>1
    <3>2. \A x \in Sides : Advanced(sock[x], sock[x])
      BY <1>2 DEF Advanced
    <3>3. sock' \in [Sides -> SocketType]
      BY <1>1, <2>1, <2>2 DEF Advanced
    <3>. QED BY <1>1, <2>2, <3>1, <3>2, <3>3 DEF Advanced
  <2>. QED BY <1>1, <2>1, <2>3, ElsewhereOK DEF Unmoved, Elsewhere
<1>5. CASE DohServerSends
  <2>1. PICK u \in NextUnits(reply, MaxAnswers, ExtraUnits) : reply' = Append(reply, u)
    BY <1>5 DEF DohServerSends
  <2>2. u \in Unit
    BY NextUnitsType
  <2>3. reply' \in Seq(Unit) /\ Len(reply') = Len(reply) + 1
    BY <1>1, <2>1, <2>2
  <2> DEFINE new == [sock.origin EXCEPT !.sent = @ + 1]
  <2>4. sock' = [sock EXCEPT !.origin = new] /\ sock.origin.peer = "doh" /\ Unmoved
    BY <1>5 DEF DohServerSends
  <2>5. Advanced(sock.origin, new) /\ new.sent = sock.origin.sent + 1
    <3>1. sock.origin \in SocketType /\ sock.origin.sent \in Nat
      BY <1>1, <1>2
    <3>2. new \in SocketType
      BY <3>1 DEF SocketType
    <3>3. /\ new.peer = sock.origin.peer /\ new.read = sock.origin.read
          /\ new.sent = sock.origin.sent + 1
      BY <3>1 DEF SocketType
    <3> HIDE DEF new
    <3>. QED BY <3>1, <3>2, <3>3 DEF Advanced
  <2> HIDE DEF new
  <2>6. /\ sock' \in [Sides -> SocketType]
        /\ \A x \in Sides : Advanced(sock[x], sock'[x])
    BY <1>1, <1>2, <2>4, <2>5 DEF Advanced
  <2>7. Len(reply') = sock'.origin.sent
    BY <1>1, <2>3, <2>4, <2>5
  <2>. QED BY <1>1, <2>3, <2>4, <2>6, <2>7, ElsewhereOK DEF Unmoved, Elsewhere
<1>6. CASE ConnectEnds
  <2>1. PICK link \in {"up", "failed"} : sock' = [sock EXCEPT !.origin.link = link]
    BY <1>6 DEF ConnectEnds
  <2> DEFINE new == [sock.origin EXCEPT !.link = link]
  <2>2. sock' = [sock EXCEPT !.origin = new] /\ reply' = reply /\ Unmoved
    BY <1>6, <2>1 DEF ConnectEnds
  <2>3. Advanced(sock.origin, new) /\ new.sent = sock.origin.sent
    BY <1>1, <1>2, <2>1, SignalledOK
  <2> HIDE DEF new
  <2>4. /\ sock' \in [Sides -> SocketType]
        /\ \A x \in Sides : Advanced(sock[x], sock'[x])
    BY <1>1, <1>2, <2>2, <2>3 DEF Advanced
  <2>5. sock'.origin.peer = "doh" => Len(reply') = sock'.origin.sent
    BY <1>1, <2>2, <2>3 DEF Advanced
  <2>. QED BY <1>1, <2>2, <2>4, <2>5, ElsewhereOK DEF Unmoved, Elsewhere
<1>. QED BY <1>3, <1>4, <1>5, <1>6 DEF Environment

\* The passing of time keeps the invariant
LEMMA BecomeIdleOK ==
  ASSUME IInv, BecomeIdle
  PROVE  IInv'
<1>1. /\ UNCHANGED <<sock, reply>> /\ Elsewhere /\ idle' = TRUE
  BY DEF BecomeIdle, Elsewhere
<1>2. /\ sock \in [Sides -> SocketType] /\ reply \in Seq(Unit)
      /\ sock.origin.peer = "doh" => Len(reply) = sock.origin.sent
  BY DEF IInv, Typed, ReplyBuffered
<1>3. \A s \in Sides : Advanced(sock[s], sock[s])
  BY <1>2 DEF Advanced, SocketType
<1>. QED BY <1>1, <1>2, <1>3, ElsewhereOK

\* connection_garbage_collect keeps the invariant
LEMMA GarbageCollectOK ==
  ASSUME IInv, connection_garbage_collect
  PROVE  IInv'
<1> DEFINE m == IF state \in BeforeSendRequestLine THEN metrics ELSE unregister_connection(metrics)
<1>1. live /\ request' = request /\ idle' = idle /\ close_proxy_connection(m)
  BY DEF connection_garbage_collect
<1>2. idle \in BOOLEAN /\ metrics \in MetricsType
  BY DEF IInv, Typed
<1>3. m \in MetricsType
  BY <1>2, MetricsOK DEF Sides
<1> HIDE DEF m
<1>. QED BY <1>1, <1>2, <1>3, CloseProxyConnectionOK

-----------------------------------------------------------------------------
(* The theorems *)

\* An accepted connection satisfies the invariant
LEMMA InitOK == Init => IInv
<1> SUFFICES ASSUME Init PROVE IInv
  OBVIOUS
<1>1. Socket("client", "up") \in SocketType /\ Socket("none", "pending") \in SocketType
  <2>1. <<>> \in Seq(Byte)
    OBVIOUS
  <2>. QED BY <2>1 DEF Socket, SocketType
<1>2. /\ sock \in [Sides -> SocketType]
      /\ sock.client = Socket("client", "up")
      /\ sock.origin = Socket("none", "pending")
  BY <1>1 DEF Init, Sides
<1>3. NoDoh \in DohType /\ ~NoDoh.is_active
  <2>1. <<>> \in Seq(Unit)
    OBVIOUS
  <2>. QED BY <2>1 DEF NoDoh, DohType
<1>4. /\ buffer \in [Sides -> QueueOf(Byte)]
      /\ buffer.client = EmptyQueue /\ buffer.origin = EmptyQueue
  BY EmptyQueueType DEF Init, Sides
<1>5. metrics \in MetricsType
  BY ConnectionAssumption DEF Init, MetricsType
<1>6. /\ status \in [Sides -> Statuses]
      /\ interest \in [Sides -> SUBSET Operations]
      /\ reply \in Seq(Unit)
  BY DEF Init, Statuses, Watch, Operations
<1>7. Typed
  BY <1>2, <1>3, <1>4, <1>5, <1>6 DEF Init, Typed, States
<1>8. DispatchHandled /\ NoOrphanOrigin
  BY DEF Init, DispatchHandled, NoOrphanOrigin, Watch, HaveReadHandler, HaveWriteHandler, States
<1>9. ReadWasSent /\ OriginBufferFree /\ LineIncomplete
  BY <1>2, <1>4, ConnectionAssumption
  DEF Init, ReadWasSent, OriginBufferFree, LineIncomplete, Socket, Sides
<1>10. ReplyBuffered /\ PeerKnown /\ ResolutionPhase
  BY <1>2, <1>3 DEF Init, ReplyBuffered, PeerKnown, ResolutionPhase, Socket
<1>. QED BY <1>7, <1>8, <1>9, <1>10 DEF IInv

\* Every step keeps the invariant
LEMMA NextOK == IInv /\ [Next]_vars => IInv'
<1> SUFFICES ASSUME IInv, [Next]_vars PROVE IInv'
  OBVIOUS
<1>1. CASE \E s \in Sides : HandleRead(s)
  BY <1>1, HandleReadOK
<1>2. CASE \E s \in Sides : HandleWrite(s)
  BY <1>2, HandleWriteOK
<1>3. CASE BecomeIdle
  BY <1>3, BecomeIdleOK
<1>4. CASE connection_garbage_collect
  BY <1>4, GarbageCollectOK
<1>5. CASE Environment
  BY <1>5, EnvironmentOK
<1>6. CASE UNCHANGED vars
  BY <1>6 DEF vars, IInv, Typed, DispatchHandled, NoOrphanOrigin, ReadWasSent, OriginBufferFree,
              LineIncomplete, ReplyBuffered, PeerKnown, ResolutionPhase, BetweenQueries, Exhausted,
              Rcode, Ancount, HeaderBegun, LoopEnds, NoTable, HeaderParsed
<1>. QED BY <1>1, <1>2, <1>3, <1>4, <1>5, <1>6
         DEF Next, Handlers, Over, proxy_client_read, proxy_origin_read, proxy_client_write,
             proxy_origin_write, Sides

\* The invariant of every connection, whatever the requests, the sizes of the
\* buffers and of the messages, and what the peers send.
THEOREM ConnectionInvariant == Spec => []IInv
BY InitOK, NextOK, PTL DEF Spec

\* Types are kept: in particular no read and none of the messages that
\* write_doh_request, write_request_line and error_on_arrival copy without
\* looking at the room takes a buffer past the limit create_new_connection gives
\* it, nor, if the size set for buffers is no smaller, past its memory.
THEOREM TypeCorrect == Spec => []TypeOK
<1>1. IInv => TypeOK
  <2> SUFFICES ASSUME IInv, Capacity <= Memory, NEW s \in Sides
               PROVE  WithinMemory(buffer[s])
    BY DEF IInv, TypeOK
  <2>1. buffer[s] \in QueueOf(Byte)
    BY DEF IInv, Typed
  <2>2. /\ buffer[s].skip \in Nat /\ Length(buffer[s]) \in Nat
        /\ buffer[s].skip + Length(buffer[s]) <= Capacity
    BY <2>1, QueueFields DEF QueueOf, Length
  <2>. QED BY <2>2, CapacityNat, ConnectionAssumption DEF WithinMemory
<1>. QED BY <1>1, ConnectionInvariant, PTL

\* stm_handler_read and stm_handler_write never abort() the proxy: no state
\* is watched for an operation that it has no handler for.
THEOREM NeverAborts == Spec => []DispatchHandled
<1>1. IInv => DispatchHandled
  BY DEF IInv
<1>. QED BY <1>1, ConnectionInvariant, PTL

\* close_proxy_connection never frees a struct that the selector still has an
\* item of.
THEOREM NoUseAfterFree == Spec => []NoOrphanOrigin
<1>1. IInv => NoOrphanOrigin
  BY DEF IInv
<1>. QED BY <1>1, ConnectionInvariant, PTL

\* try_next_dns_connection never visits the answers that were freed with the
\* response to the A query.
THEOREM FreedAnswersUnvisited == Spec => []NoDanglingAnswers
<1>1. IInv => NoDanglingAnswers
  BY NatDoh DEF IInv, Typed, ResolutionPhase, BetweenQueries, Exhausted, NoDanglingAnswers
<1>. QED BY <1>1, ConnectionInvariant, PTL

-----------------------------------------------------------------------------
(* The inductive invariant of relaying, on top of IInv *)

\* buffer_read_adv compacts a buffer that empties
Compacted(buf) == \A s \in Sides : ~CanRead(buf[s]) => buf[s] = EmptyQueue

\* What the selector watches, by the state
Watched ==
  CASE state = "PARSING_REQUEST_LINE" -> Watch({"READ"}, {})
    [] state \in {"TRY_CONNECTION_IP", "SEND_DOH_REQUEST", "SEND_REQUEST_LINE"} ->
         Watch({}, {"WRITE"})
    [] state = "AWAIT_DOH_RESPONSE" -> Watch({}, {"READ"})
    [] state = "CONNECTED" -> ConnectedInterest(buffer)
    [] state = "CLOSING" -> ClosingInterest(status, buffer)
    [] state = "EMPTY_BUFFERS" -> EmptyBuffersInterest(buffer)
    [] state = "ERROR" -> Watch({"WRITE"}, {})

\* The states in which a connection has an origin in the selector
WithOrigin == {"TRY_CONNECTION_IP", "SEND_DOH_REQUEST", "AWAIT_DOH_RESPONSE"} \union Relaying

\* The statuses of a side whose end of file was read
Ended == {"CLOSING", "CLOSED"}

\* What the statuses are, by the state
StatusKnown ==
  /\ state \in BeforeConnected \union {"CONNECTED"} => status.client = "ACTIVE"
  /\ state \in WithOrigin \ {"CLOSING", "EMPTY_BUFFERS"} => status.origin = "ACTIVE"
  /\ state = "CLOSING" =>
       \E s \in Sides : status[s] \in Ended /\ status[Other(s)] = "ACTIVE"
  /\ state = "EMPTY_BUFFERS" =>
       /\ \A s \in Sides : status[s] \in Ended
       /\ \E s \in Sides : status[s] = "CLOSING"

\* The buffers that a state needs filled, or empty
Holding ==
  /\ state \in {"SEND_DOH_REQUEST", "SEND_REQUEST_LINE", "ERROR"} => CanRead(buffer.origin)
  /\ state = "AWAIT_DOH_RESPONSE" => buffer.origin = EmptyQueue

\* While its handlers return, a connection is watched as its state requires
Running ==
  /\ state # "DONE"
  /\ interest = Watched
  /\ state \in WithOrigin => origin_fd = "registered"
  /\ StatusKnown
  /\ Holding

\* Only the loops of the resolution hang
HungResolving == hung => state \in {"TRY_CONNECTION_IP", "AWAIT_DOH_RESPONSE"}

\* An end of file is read after everything else, and CLOSED once it is passed on
EndRead(st, buf, sk) ==
  \A s \in Sides :
    /\ st[s] \in Ended => sk[s].fin /\ sk[s].sent - sk[s].read = 0
    /\ st[s] = "CLOSED" => ~CanRead(buf[s])

\* A peer told of the end: the other has finished and all of it was delivered
EndPassed(buf, sk) ==
  \A s \in Sides :
    sk[s].shut /\ sk[s].peer # "doh" =>
      /\ sk[Other(s)].fin
      /\ sk[Other(s)].sent - sk[Other(s)].read = 0
      /\ ~CanRead(buf[Other(s)])

\* No peer but the resolver was told of an end
NotShut(sk) == \A s \in Sides : sk[s].shut => sk[s].peer = "doh"

\* shutdown() belongs to the two last states of a relay
Ending ==
  IF state \in {"CLOSING", "EMPTY_BUFFERS"}
    THEN /\ EndRead(status, buffer, sock)
         /\ \A s \in Sides : status[s] = "CLOSING" => CanRead(buffer[s])
    ELSE NotShut(sock)

\* A connection is counted from the moment its host is reached
Uncounted(m) == m.historical = 0 /\ m.concurrent = OtherConnections
Counted(m) == m.historical = 1 /\ m.concurrent = OtherConnections + 1

Counting ==
  IF live THEN IF state \in Relaying THEN Counted(metrics) ELSE Uncounted(metrics)
  ELSE metrics.concurrent <= OtherConnections

RInv ==
  /\ Compacted(buffer)
  /\ live /\ ~hung => Running
  /\ ~live => interest = Watch({}, {})
  /\ HungResolving
  /\ live => Ending
  /\ EndPassed(buffer, sock)
  /\ Counting

-----------------------------------------------------------------------------
(* What the invariant says of a ready descriptor *)

\* The size of a message and of a buffer, as the provers need them
LEMMA Sizes ==
  /\ Capacity \in Nat \ {0}
  /\ MessageLength \in Nat \ {0}
  /\ OtherConnections \in Nat /\ CounterMax \in Nat /\ OtherConnections < CounterMax
BY CapacityNat, ConnectionAssumption

\* An empty buffer has room for a whole buffer of bytes
LEMMA EmptyHasRoom == CanWrite(EmptyQueue) /\ ~CanRead(EmptyQueue) /\ Room(EmptyQueue) = Capacity
BY Sizes DEF EmptyQueue, CanWrite, CanRead, Room, Length

\* The sides, and what is opposite
LEMMA SidesFacts ==
  /\ "client" \in Sides /\ "origin" \in Sides
  /\ \A s \in Sides : s = "client" \/ s = "origin"
  /\ Other("client") = "origin" /\ Other("origin") = "client"
  /\ \A s \in Sides : Other(s) \in Sides /\ Other(Other(s)) = s /\ Other(s) # s
BY DEF Sides, Other

\* What is watched in each state
LEMMA WatchedIs ==
  ASSUME Watched = interest, state \in States
  PROVE  /\ state = "PARSING_REQUEST_LINE" => interest = Watch({"READ"}, {})
         /\ state \in {"TRY_CONNECTION_IP", "SEND_DOH_REQUEST", "SEND_REQUEST_LINE"} =>
              interest = Watch({}, {"WRITE"})
         /\ state = "AWAIT_DOH_RESPONSE" => interest = Watch({}, {"READ"})
         /\ state = "CONNECTED" => interest = ConnectedInterest(buffer)
         /\ state = "CLOSING" => interest = ClosingInterest(status, buffer)
         /\ state = "EMPTY_BUFFERS" => interest = EmptyBuffersInterest(buffer)
         /\ state = "ERROR" => interest = Watch({"WRITE"}, {})
BY DEF Watched

\* A descriptor is watched only while its buffer has room or something to send
LEMMA NoEmptyTransferOK ==
  ASSUME IInv, RInv
  PROVE  NoEmptyTransfer
<1> SUFFICES ASSUME ~hung, NEW s \in Sides
             PROVE  /\ "READ" \in interest[s] => CanWrite(buffer[s])
                    /\ "WRITE" \in interest[s] =>
                         \/ s = "origin" /\ state = "TRY_CONNECTION_IP"
                         \/ CanRead(buffer[Outgoing(s)])
  BY DEF NoEmptyTransfer
<1>1. CASE ~live
  BY <1>1 DEF RInv, Watch, Sides
<1>2. CASE live
  <2>1. Running /\ state \in States /\ state # "DONE" /\ Watched = interest
    BY <1>2 DEF RInv, Running, IInv, Typed
  <2>2. CASE state = "PARSING_REQUEST_LINE"
    BY <2>1, <2>2, WatchedIs, EmptyHasRoom, SidesFacts DEF Watch, IInv, LineIncomplete
  <2>3. CASE state = "TRY_CONNECTION_IP"
    BY <2>1, <2>3, WatchedIs, SidesFacts DEF Watch
  <2>4. CASE state \in {"SEND_DOH_REQUEST", "SEND_REQUEST_LINE"}
    BY <2>1, <2>4, WatchedIs, SidesFacts DEF Watch, Running, Holding, Outgoing
  <2>5. CASE state = "AWAIT_DOH_RESPONSE"
    BY <2>1, <2>5, WatchedIs, EmptyHasRoom, SidesFacts DEF Watch, Running, Holding
  <2>6. CASE state = "CONNECTED"
    BY <2>1, <2>6, WatchedIs, SidesFacts DEF ConnectedInterest, When, Outgoing
  <2>7. CASE state = "CLOSING"
    BY <2>1, <2>7, WatchedIs, SidesFacts DEF ClosingInterest, When, Outgoing
  <2>8. CASE state = "EMPTY_BUFFERS"
    BY <2>1, <2>8, WatchedIs, SidesFacts DEF EmptyBuffersInterest, When, Outgoing
  <2>9. CASE state = "ERROR"
    BY <2>1, <2>9, WatchedIs, SidesFacts DEF Watch, Running, Holding, Outgoing
  <2>. QED BY <2>1, <2>2, <2>3, <2>4, <2>5, <2>6, <2>7, <2>8, <2>9 DEF States
<1>. QED BY <1>1, <1>2

\* A buffer without room has something to send
LEMMA FullCanBeRead ==
  ASSUME Compacted(buffer), NEW s \in Sides
  PROVE  CanWrite(buffer[s]) \/ CanRead(buffer[s])
BY EmptyHasRoom DEF Compacted

\* A connection whose handlers return is always watched
LEMMA AlwaysWatchedOK ==
  ASSUME IInv, RInv
  PROVE  AlwaysWatched
<1> SUFFICES ASSUME live, ~hung
             PROVE  \E s \in Sides : Registered(s) /\ interest[s] # {}
  BY DEF AlwaysWatched
<1>1. /\ Running /\ state \in States /\ state # "DONE" /\ Watched = interest
      /\ Compacted(buffer)
  BY DEF RInv, Running, IInv, Typed
<1>2. Registered("client") /\ (state \in WithOrigin => Registered("origin"))
  BY <1>1 DEF Registered, Running
<1>3. CASE state \in {"PARSING_REQUEST_LINE", "ERROR"}
  BY <1>1, <1>2, <1>3, WatchedIs, SidesFacts DEF Watch
<1>4. CASE state \in {"TRY_CONNECTION_IP", "SEND_DOH_REQUEST", "SEND_REQUEST_LINE",
                      "AWAIT_DOH_RESPONSE"}
  BY <1>1, <1>2, <1>4, WatchedIs, SidesFacts DEF Watch, WithOrigin, Relaying
<1>5. CASE state \in {"CONNECTED", "CLOSING", "EMPTY_BUFFERS"}
  <2>1. \A s \in Sides : Registered(s)
    BY <1>2, <1>5, SidesFacts DEF WithOrigin, Relaying
  <2>2. CASE state = "CONNECTED"
    <3>1. "WRITE" \in interest["origin"] \/ "READ" \in interest["client"]
      BY <1>1, <2>2, WatchedIs, SidesFacts, FullCanBeRead DEF ConnectedInterest, When
    <3>. QED BY <2>1, <3>1, SidesFacts
  <2>3. CASE state = "CLOSING"
    <3>1. PICK s \in Sides : status[s] \in Ended
      BY <1>1, <2>3 DEF Running, StatusKnown
    <3>2. "WRITE" \in interest[s] \/ "READ" \in interest[Other(s)]
      BY <1>1, <2>3, <3>1, WatchedIs, SidesFacts, FullCanBeRead DEF ClosingInterest, When, Ended
    <3>. QED BY <2>1, <3>2, SidesFacts
  <2>4. CASE state = "EMPTY_BUFFERS"
    <3>1. PICK s \in Sides : status[s] = "CLOSING"
      BY <1>1, <2>4 DEF Running, StatusKnown
    <3>2. CanRead(buffer[s])
      BY <2>4, <3>1 DEF RInv, Ending
    <3>3. "WRITE" \in interest[Other(s)]
      BY <1>1, <2>4, <3>2, WatchedIs, SidesFacts DEF EmptyBuffersInterest, When
    <3>. QED BY <2>1, <3>3, SidesFacts
  <2>. QED BY <1>5, <2>2, <2>3, <2>4
<1>. QED BY <1>1, <1>3, <1>4, <1>5 DEF States

-----------------------------------------------------------------------------
(* What the opening of a connection, and the answers, come to *)

\* The statuses once the origin is taken for ACTIVE
Activated(st) == [st EXCEPT !.origin = "ACTIVE"]

\* A new attempt is registered
Reopens(st, kept, sk) ==
  \E peer \in {"doh", "host"} :
    /\ origin_fd' = "registered"
    /\ EnterTryConnectionIp(Activated(st), kept, Reopened(sk, peer))

\* The connection ends in ERROR
Fails(st, buf, sk) ==
  \E code, end : EnterError(code, end, buf, sk)

\* The handler never returns
Hangs(st, buf, sk) ==
  /\ hung' = TRUE
  /\ state \in {"TRY_CONNECTION_IP", "AWAIT_DOH_RESPONSE"}
  /\ \E i : Settle(state, i, st, buf, sk)

\* A connection is opened or the attempt ends in ERROR
LEMMA OpenOriginOutcome ==
  ASSUME NEW peer \in {"doh", "host"}, NEW st, NEW kept, NEW buf, NEW sk,
         OpenOrigin(peer, st, kept, buf, sk)
  PROVE  Reopens(st, kept, sk) \/ Fails(st, buf, sk)
BY DEF OpenOrigin, RegisterOrigin, Reopens, Fails, Activated, Reopened

\* The same of the next attempt of the resolution, which may hang
LEMMA TryNextOutcome ==
  ASSUME NEW d, NEW st, NEW buf, NEW sk,
         try_next_dns_connection(d, st, buf, sk),
         state \in {"TRY_CONNECTION_IP", "AWAIT_DOH_RESPONSE"}
  PROVE  \/ (Reopens(st, buf, sk) \/ Fails(st, buf, sk)) /\ hung' = hung
         \/ Hangs(st, buf, sk)
<1>1. ASSUME NEW e, RetryOverIPv6(e, st, buf, sk)
      PROVE  Reopens(st, buf, sk) \/ Fails(st, buf, sk)
  BY <1>1, OpenOriginOutcome DEF RetryOverIPv6
<1>2. ASSUME NEW e, NEW fd, GiveUp(e, fd, st, buf, sk)
      PROVE  Fails(st, buf, sk)
  BY <1>2 DEF GiveUp, Fails
<1>3. CASE Rcode(d) # 0
  BY <1>1, <1>2, <1>3 DEF try_next_dns_connection
<1>4. CASE Rcode(d) = 0
  <2>1. CASE \E i \in Candidates(d) :
               RegisterOrigin("host", st, buf, buf, sk) /\ hung' = hung
    BY <2>1, OpenOriginOutcome DEF OpenOrigin
  <2>2. CASE /\ \/ \E e : RetryOverIPv6(e, st, buf, sk)
                \/ \E e, fd : GiveUp(e, fd, st, buf, sk)
             /\ hung' = hung
    BY <1>1, <1>2, <2>2
  <2>3. CASE hung' = TRUE /\ Settle(state, Watch(interest.client, {}), st, buf, sk)
    BY <2>3 DEF Hangs
  <2>. QED BY <1>4, <2>1, <2>2, <2>3 DEF try_next_dns_connection, TryNextAnswer
<1>. QED BY <1>3, <1>4

\* The sockets once the resolver's, which has finished, is shut down
OriginShut(sk) == [sk EXCEPT !.origin.shut = TRUE]

\* What await_doh_response_on_read_ready comes to
LEMMA AwaitOutcome ==
  ASSUME NEW st, NEW buf, NEW sk, AwaitDohRead(st, buf, sk),
         state = "AWAIT_DOH_RESPONSE"
  PROVE  \/ Fails(st, buf, sk) /\ hung' = hung
         \/ /\ Settle(state, interest, st, Consumed(buf), sk)
            /\ st.origin # "CLOSING" \/ 1 .. Len(Fresh(buf)) # {}
            /\ UNCHANGED <<origin_fd, hung>>
         \/ \E left \in {sk, OriginShut(sk)} :
              /\ Reopens(st, Consumed(buf), left) \/ Fails(st, Consumed(buf), left)
              /\ hung' = hung
         \/ Hangs(st, buf, sk)
         \/ Hangs(st, Consumed(buf), OriginShut(sk))
<1> DEFINE arrived == Len(Fresh(buf))
<1>1. ASSUME NEW code, EnterError(code, st, buf, sk)
      PROVE  Fails(st, buf, sk)
  BY <1>1 DEF Fails
<1>2. ASSUME NEW stop \in 1 .. arrived, ResponseEnds(Fed(buf, stop), st, buf, sk)
      PROVE  \/ Fails(st, buf, sk) /\ hung' = hung
             \/ /\ Settle(state, interest, st, Consumed(buf), sk)
                /\ 1 .. arrived # {}
                /\ UNCHANGED <<origin_fd, hung>>
             \/ /\ Reopens(st, Consumed(buf), sk) \/ Fails(st, Consumed(buf), sk)
                /\ hung' = hung
  <2> HIDE DEF arrived
  <2>1. 1 .. arrived # {}
    OBVIOUS
  <2>2. ASSUME NEW e, RetryOverIPv6(e, st, Consumed(buf), sk)
        PROVE  Reopens(st, Consumed(buf), sk) \/ Fails(st, Consumed(buf), sk)
    BY <2>2, OpenOriginOutcome DEF RetryOverIPv6
  <2>. QED BY <1>1, <1>2, <2>1, <2>2 DEF ResponseEnds, KeepAwaiting
<1>3. ASSUME NEW stop, AnswersNotAllocated(Fed(buf, stop), st, buf, sk)
      PROVE  Fails(st, buf, sk) /\ hung' = hung
  BY <1>1, <1>3 DEF AnswersNotAllocated
<1>4. CASE try_next_dns_connection(Fed(buf, arrived), st, Consumed(buf), OriginShut(sk))
  BY <1>4, TryNextOutcome
<1>5. CASE st.origin # "CLOSING" /\ KeepAwaiting(Fed(buf, arrived), st, Consumed(buf), sk)
  BY <1>5 DEF KeepAwaiting
<1>6. CASE hung' = TRUE /\ Settle(state, interest, st, buf, sk)
  BY <1>6 DEF Hangs
<1>7. CASE EnterError("500", st, buf, sk) /\ hung' = hung
  BY <1>1, <1>7
<1>. QED BY <1>2, <1>3, <1>4, <1>5, <1>6, <1>7 DEF AwaitDohRead, OriginShut

-----------------------------------------------------------------------------
(* What entering each state leaves of the invariant *)

\* A message put into an empty buffer is there to be sent
LEMMA MessageReadable ==
  ASSUME NEW kind \in Sources
  PROVE  CanRead(WriteAdv(EmptyQueue, Message(kind)))
<1>1. <<>> \o Message(kind) = Message(kind) /\ Len(Message(kind)) = MessageLength
  BY MessageType, ConcatEmptySeq
<1>. QED BY <1>1, Sizes DEF CanRead, Length, WriteAdv, EmptyQueue

\* Without a relay there is nothing to say of its end
LEMMA NotShutPassesNone ==
  ASSUME NEW buf, NEW sk, NotShut(sk)
  PROVE  EndPassed(buf, sk)
BY DEF NotShut, EndPassed

\* A released connection is watched no more, and counted out
LEMMA ReleasedR ==
  ASSUME live' = FALSE, hung' = FALSE,
         interest' = Watch({}, {}),
         Compacted(buffer'), EndPassed(buffer', sock'),
         metrics'.concurrent <= OtherConnections
  PROVE  RInv'
BY DEF RInv, HungResolving, Counting, Compacted, EndPassed

\* The states in which nothing is relayed
NotRelaying == {"PARSING_REQUEST_LINE", "TRY_CONNECTION_IP", "SEND_DOH_REQUEST",
                "AWAIT_DOH_RESPONSE", "ERROR"}

\* In a state before the relay nothing has been shut down or counted
LEMMA NotRelayingR ==
  ASSUME live' = TRUE, hung' = FALSE, state' \in NotRelaying,
         Running', Compacted(buffer'), NotShut(sock'), Uncounted(metrics')
  PROVE  RInv'
<1>1. EndPassed(buffer', sock')
  BY NotShutPassesNone
<1>2. Ending'
  BY DEF Ending, NotRelaying, NotShut
<1>3. Counting'
  BY DEF Counting, Uncounted, NotRelaying, Relaying
<1>. QED BY <1>1, <1>2, <1>3 DEF RInv, HungResolving, Compacted, EndPassed

\* Entering ERROR leaves the message in the origin's buffer
LEMMA FailsR ==
  ASSUME NEW st, NEW buf, NEW sk, Fails(st, buf, sk),
         buf \in [Sides -> QueueOf(Byte)], Compacted(buf), NotShut(sk),
         live' = TRUE, hung' = FALSE, Uncounted(metrics')
  PROVE  RInv'
<1> DEFINE message == WriteAdv(EmptyQueue, Message("error"))
<1>1. /\ state' = "ERROR" /\ interest' = Watch({"WRITE"}, {})
      /\ buffer' = [buf EXCEPT !.origin = message] /\ sock' = sk
  BY DEF Fails, EnterError, Settle
<1>2. CanRead(message)
  BY MessageReadable DEF Sources
<1> HIDE DEF message
<1>3. Compacted(buffer') /\ CanRead(buffer'.origin)
  BY <1>1, <1>2, SidesFacts DEF Compacted
<1>4. Running'
  BY <1>1, <1>3 DEF Running, Watched, WithOrigin, Relaying, StatusKnown, Holding, BeforeConnected,
                    BeforeSendRequestLine
<1>. QED BY <1>1, <1>3, <1>4, NotRelayingR DEF NotRelaying

\* A new socket of the origin's is not shut down
LEMMA ReopenedNotShut ==
  ASSUME NEW sk \in [Sides -> SocketType], NotShut(sk), NEW peer
  PROVE  NotShut(Reopened(sk, peer))
<1>1. Socket(peer, "pending").shut = FALSE
  BY DEF Socket
<1>2. /\ Reopened(sk, peer).origin = Socket(peer, "pending")
      /\ Reopened(sk, peer).client = sk.client
  BY SidesFacts DEF Reopened
<1>. QED BY <1>1, <1>2, SidesFacts DEF NotShut

\* Entering TRY_CONNECTION_IP leaves the origin registered and watched
LEMMA ReopensR ==
  ASSUME NEW st \in [Sides -> Statuses], NEW buf, NEW sk \in [Sides -> SocketType],
         Reopens(st, buf, sk),
         st.client = "ACTIVE", Compacted(buf), NotShut(sk),
         live' = TRUE, hung' = FALSE, Uncounted(metrics')
  PROVE  RInv'
<1>1. PICK peer \in {"doh", "host"} :
        /\ origin_fd' = "registered"
        /\ EnterTryConnectionIp(Activated(st), buf, Reopened(sk, peer))
  BY DEF Reopens
<1>2. /\ state' = "TRY_CONNECTION_IP" /\ interest' = Watch({}, {"WRITE"})
      /\ status' = Activated(st) /\ buffer' = buf /\ sock' = Reopened(sk, peer)
  BY <1>1 DEF EnterTryConnectionIp, Settle
<1>3. status'.client = "ACTIVE" /\ status'.origin = "ACTIVE"
  BY <1>2, SidesFacts DEF Activated
<1>4. Running'
  BY <1>1, <1>2, <1>3 DEF Running, Watched, StatusKnown, Holding
<1>. QED BY <1>2, <1>4, ReopenedNotShut, NotRelayingR DEF NotRelaying

\* A handler that hangs stays in the state it was called in
LEMMA HangsR ==
  ASSUME NEW st, NEW buf, NEW sk, Hangs(st, buf, sk),
         Compacted(buf), NotShut(sk), live' = TRUE, Uncounted(metrics')
  PROVE  RInv'
<1>1. /\ hung' = TRUE /\ state' \in {"TRY_CONNECTION_IP", "AWAIT_DOH_RESPONSE"}
      /\ buffer' = buf /\ sock' = sk
  BY DEF Hangs, Settle
<1>2. EndPassed(buffer', sock')
  BY <1>1, NotShutPassesNone
<1>3. Ending' /\ Counting'
  BY <1>1 DEF Ending, NotShut, Counting, Uncounted, Relaying
<1>. QED BY <1>1, <1>2, <1>3 DEF RInv, HungResolving, Compacted, EndPassed

\* SEND_REQUEST_LINE and CONNECTED relay, and have shut nothing down
LEMMA RelaysR ==
  ASSUME live' = TRUE, hung' = FALSE, state' \in {"SEND_REQUEST_LINE", "CONNECTED"},
         Running', Compacted(buffer'), NotShut(sock'), Counted(metrics')
  PROVE  RInv'
<1>1. EndPassed(buffer', sock')
  BY NotShutPassesNone
<1>2. Ending' /\ Counting'
  BY DEF Ending, NotShut, Counting, Counted, Relaying
<1>. QED BY <1>1, <1>2 DEF RInv, HungResolving, Compacted, EndPassed

\* Entering CONNECTED, or staying in it
LEMMA SettleConnectedR ==
  ASSUME NEW st, NEW buf, NEW sk, SettleConnected(st, buf, sk),
         \A s \in Sides : st[s] = "ACTIVE",
         Compacted(buf), NotShut(sk),
         live' = TRUE, hung' = FALSE, origin_fd' = "registered", Counted(metrics')
  PROVE  RInv'
<1>1. /\ state' = "CONNECTED" /\ interest' = ConnectedInterest(buf)
      /\ status' = st /\ buffer' = buf /\ sock' = sk
  BY DEF SettleConnected, Settle
<1>2. Running'
  BY <1>1, SidesFacts DEF Running, Watched, StatusKnown, Holding
<1>. QED BY <1>1, <1>2, RelaysR

\* What the settling of CLOSING and EMPTY_BUFFERS makes of the ends
LEMMA DrainedR ==
  ASSUME NEW st, NEW buf, NEW sk, ArgsOK(st, buf, sk), EndRead(st, buf, sk), EndPassed(buf, sk)
  PROVE  LET end == CloseDrained(st, buf)
             shut == ShutDrained(st, buf, sk) IN
         /\ EndRead(end, buf, shut) /\ EndPassed(buf, shut)
         /\ \A s \in Sides : /\ end[s] = "CLOSING" => CanRead(buf[s])
                             /\ end[s] \in Ended <=> st[s] \in Ended
                             /\ st[s] = "ACTIVE" <=> end[s] = "ACTIVE"
         /\ ClosingInterest(end, buf) = ClosingInterest(st, buf)
<1> DEFINE end == CloseDrained(st, buf)
<1> DEFINE shut == ShutDrained(st, buf, sk)
<1>1. ASSUME NEW s \in Sides
      PROVE  /\ end[s] = "CLOSING" => CanRead(buf[s])
             /\ end[s] \in Ended <=> st[s] \in Ended
             /\ st[s] = "ACTIVE" <=> end[s] = "ACTIVE"
             /\ end[s] = "CLOSED" => Drained(st, buf, s) \/ st[s] = "CLOSED"
  BY DEF CloseDrained, Drained, Ended
<1>2. ASSUME NEW s \in Sides
      PROVE  /\ shut[s].fin = sk[s].fin /\ shut[s].sent = sk[s].sent
             /\ shut[s].read = sk[s].read /\ shut[s].peer = sk[s].peer
             /\ shut[s].shut => sk[s].shut \/ Drained(st, buf, Other(s))
  BY DEF ShutDrained, ArgsOK, SocketType
<1> HIDE DEF end, shut
<1>3. EndRead(end, buf, shut)
  BY <1>1, <1>2 DEF EndRead, Drained
<1>4. EndPassed(buf, shut)
  <2>1. ASSUME NEW s \in Sides, Drained(st, buf, Other(s))
        PROVE  /\ sk[Other(s)].fin
               /\ sk[Other(s)].sent - sk[Other(s)].read = 0
               /\ ~CanRead(buf[Other(s)])
    BY <2>1, SidesFacts DEF EndRead, Drained, Ended
  <2>. QED BY <1>2, <2>1, SidesFacts DEF EndPassed
<1>5. ClosingInterest(end, buf) = ClosingInterest(st, buf)
  BY <1>1, SidesFacts DEF ClosingInterest, When, Ended
<1>. QED BY <1>1, <1>3, <1>4, <1>5 DEF end, shut

\* Entering CLOSING, or staying in it: one side has finished, the other has not
LEMMA SettleClosingR ==
  ASSUME NEW st, NEW buf, NEW sk, SettleClosing(st, buf, sk),
         ArgsOK(st, buf, sk), Compacted(buf), EndRead(st, buf, sk), EndPassed(buf, sk),
         \E s \in Sides : st[s] \in Ended /\ st[Other(s)] = "ACTIVE",
         live' = TRUE, hung' = FALSE, origin_fd' = "registered", Counted(metrics')
  PROVE  RInv'
<1>1. /\ state' = "CLOSING" /\ interest' = ClosingInterest(st, buf)
      /\ status' = CloseDrained(st, buf) /\ buffer' = buf /\ sock' = ShutDrained(st, buf, sk)
  BY DEF SettleClosing, Settle
<1>2. /\ EndRead(status', buffer', sock') /\ EndPassed(buffer', sock')
      /\ \A s \in Sides : /\ status'[s] = "CLOSING" => CanRead(buffer'[s])
                          /\ status'[s] \in Ended <=> st[s] \in Ended
                          /\ status'[s] = "ACTIVE" <=> st[s] = "ACTIVE"
      /\ interest' = ClosingInterest(status', buffer')
  BY <1>1, DrainedR
<1>3. Running'
  BY <1>1, <1>2, SidesFacts
  DEF Running, Watched, StatusKnown, Holding, BeforeConnected, BeforeSendRequestLine
<1>4. Ending' /\ Counting'
  BY <1>1, <1>2 DEF Ending, Counting, Counted, Relaying, EndRead
<1>. QED BY <1>1, <1>2, <1>3, <1>4 DEF RInv, HungResolving, Compacted, EndPassed

\* Entering EMPTY_BUFFERS, or staying in it: there is still something to send
LEMMA SettleEmptyBuffersR ==
  ASSUME NEW st, NEW buf, NEW sk, SettleEmptyBuffers(st, buf, sk),
         ArgsOK(st, buf, sk), Compacted(buf), EndRead(st, buf, sk), EndPassed(buf, sk),
         \A s \in Sides : st[s] \in Ended,
         \E s \in Sides : CanRead(buf[s]),
         live' = TRUE, hung' = FALSE, origin_fd' = "registered", Counted(metrics')
  PROVE  RInv'
<1>1. /\ state' = "EMPTY_BUFFERS" /\ interest' = EmptyBuffersInterest(buf)
      /\ status' = CloseDrained(st, buf) /\ buffer' = buf /\ sock' = ShutDrained(st, buf, sk)
  BY DEF SettleEmptyBuffers, Settle
<1>2. /\ EndRead(status', buffer', sock') /\ EndPassed(buffer', sock')
      /\ \A s \in Sides : /\ status'[s] = "CLOSING" => CanRead(buffer'[s])
                          /\ status'[s] \in Ended
  BY <1>1, DrainedR
<1>3. \E s \in Sides : status'[s] = "CLOSING"
  BY <1>1, <1>2 DEF EndRead, Ended
<1>4. Running'
  BY <1>1, <1>2, <1>3
  DEF Running, Watched, StatusKnown, Holding, BeforeConnected, BeforeSendRequestLine
<1>5. Ending' /\ Counting'
  BY <1>1, <1>2 DEF Ending, Counting, Counted, Relaying, EndRead
<1>. QED BY <1>1, <1>2, <1>4, <1>5 DEF RInv, HungResolving, Compacted, EndPassed

\* The counters of connections, through the other updates of metrics.c
LEMMA CountersKept ==
  ASSUME NEW m \in MetricsType, NEW s, NEW n
  PROVE  /\ Transferred(m, s, n).historical = m.historical
         /\ Transferred(m, s, n).concurrent = m.concurrent
         /\ increase_failed_connections(m).historical = m.historical
         /\ increase_failed_connections(m).concurrent = m.concurrent
         /\ Uncounted(m) => Counted(register_new_connection(m))
         /\ Counted(m) => unregister_connection(m).concurrent = OtherConnections
         /\ m.concurrent <= OtherConnections =>
              unregister_connection(m).concurrent <= OtherConnections
<1>1. /\ Transferred(m, s, n).historical = m.historical
      /\ Transferred(m, s, n).concurrent = m.concurrent
  BY DEF Transferred, MetricsType
<1>2. /\ increase_failed_connections(m).historical = m.historical
      /\ increase_failed_connections(m).concurrent = m.concurrent
  BY DEF increase_failed_connections, MetricsType
<1>3. ASSUME Uncounted(m)
      PROVE  Counted(register_new_connection(m))
  <2>1. /\ register_new_connection(m).historical = Bumped(m.historical)
        /\ register_new_connection(m).concurrent = Bumped(m.concurrent)
    BY DEF register_new_connection, MetricsType
  <2>. QED BY <1>3, <2>1, Sizes DEF Uncounted, Counted, Bumped
<1>4. m.concurrent \in Nat
  BY DEF MetricsType
<1>5. unregister_connection(m).concurrent = IF m.concurrent > 0 THEN m.concurrent - 1 ELSE m.concurrent
  BY DEF unregister_connection, MetricsType
<1>. QED BY <1>1, <1>2, <1>3, <1>4, <1>5, Sizes DEF Counted

\* close_proxy_connection
LEMMA CloseR ==
  ASSUME IInv, RInv, live, ~hung, close_proxy_connection(metrics)
  PROVE  RInv'
<1>1. /\ live' = FALSE /\ interest' = Watch({}, {}) /\ hung' = FALSE
      /\ buffer' = buffer /\ sock' = sock
      /\ metrics' = IF state \in BeforeSendRequestLine THEN metrics
                    ELSE unregister_connection(metrics)
  BY DEF close_proxy_connection, Release, IInv, Typed
<1>2. metrics'.concurrent <= OtherConnections
  BY <1>1, CountersKept, Sizes DEF RInv, Counting, Counted, Uncounted,
     BeforeSendRequestLine, Relaying, IInv, Typed
<1>. QED BY <1>1, <1>2, ReleasedR DEF RInv

-----------------------------------------------------------------------------
(* The read handlers *)

\* A buffer that is written to can be read, one that is read stays compact
LEMMA QueueStaysCompact ==
  ASSUME NEW q \in QueueOf(Byte), ~CanRead(q) => q = EmptyQueue
  PROVE  /\ \A s \in Seq(Byte) : Len(s) > 0 => CanRead(WriteAdv(q, s))
         /\ \A n \in Nat : n <= Length(q) /\ ~CanRead(ReadAdv(q, n)) => ReadAdv(q, n) = EmptyQueue
<1>1. ASSUME NEW s \in Seq(Byte), Len(s) > 0
      PROVE  CanRead(WriteAdv(q, s))
  <2>1. Len(q.bytes \o s) = Len(q.bytes) + Len(s) /\ Len(q.bytes) \in Nat
    BY QueueFields, ConcatProperties
  <2>. QED BY <1>1, <2>1 DEF CanRead, Length, WriteAdv
<1>2. ASSUME NEW n \in Nat, n <= Length(q), n # Length(q)
      PROVE  CanRead(ReadAdv(q, n))
  <2>1. Len(SubSeq(q.bytes, n + 1, Length(q))) = Length(q) - n
    BY <1>2, QueueFields, SubSeqProperties
  <2>2. Length(q) \in Nat
    BY QueueFields
  <2>. QED BY <1>2, <2>1, <2>2 DEF CanRead, Length, ReadAdv
<1>. QED BY <1>1, <1>2 DEF ReadAdv

\* What is common to the states in which a read handler runs
ReadFrom(st, buf, sk) ==
  /\ IInv /\ RInv /\ live /\ ~hung
  /\ ArgsOK(st, buf, sk)
  /\ Compacted(buf)

\* The end of the other side, after s has read n more bytes
LEMMA ReadSockIs ==
  ASSUME IInv, NEW s \in Sides, NEW n \in Nat, NEW x \in Sides
  PROVE  /\ ReadSock(s, n)[x].shut = sock[x].shut
         /\ ReadSock(s, n)[x].peer = sock[x].peer
         /\ ReadSock(s, n)[x].fin = sock[x].fin
         /\ ReadSock(s, n)[x].sent = sock[x].sent
         /\ ReadSock(s, n)[x].got = sock[x].got
         /\ ReadSock(s, n)[x].read = IF x = s THEN sock[x].read + n ELSE sock[x].read
         /\ ReadBuffer(s, n)[x] = IF x = s THEN WriteAdv(buffer[x], Arriving(s, n)) ELSE buffer[x]
BY DEF ReadSock, ReadBuffer, IInv, Typed, SocketType

\* What there is to read: an end of file, or at least one byte that fits
LEMMA ReadEvents ==
  ASSUME IInv, RInv, ~hung, NEW s \in Sides, HandleRead(s)
  PROVE  /\ live /\ Registered(s) /\ "READ" \in interest[s]
         /\ request' = request
         /\ \/ close_proxy_connection(metrics)
            \/ /\ Unread(s) = 0 /\ sock[s].fin
               /\ ~(s = "client" /\ state \in BeforeConnected)
               /\ StmRead(s, [status EXCEPT ![s] = "CLOSING"], buffer, sock)
            \/ \E n \in Nat :
                 /\ n > 0 /\ n <= Unread(s) /\ n <= Room(buffer[s])
                 /\ StmRead(s, status, ReadBuffer(s, n), ReadSock(s, n))
<1> DEFINE room == Room(buffer[s])
<1> DEFINE n == IF Unread(s) < room THEN Unread(s) ELSE room
<1>1. live /\ Registered(s) /\ "READ" \in interest[s] /\ request' = request /\ Readable(s)
  BY DEF HandleRead, ReadReady, Registered
<1>2. room \in Nat /\ room > 0
  <2>1. buffer[s] \in QueueOf(Byte)
    BY DEF IInv, Typed
  <2>. QED BY <1>1, <2>1, NoEmptyTransferOK, QueueFields DEF NoEmptyTransfer, CanWrite
<1>3. Unread(s) \in Nat
  <2>1. sock[s] \in SocketType /\ sock[s].read <= sock[s].sent
    BY DEF IInv, Typed, ReadWasSent
  <2>. QED BY <2>1 DEF SocketType, Unread
<1>4. n \in Nat /\ n <= Unread(s) /\ n <= room
  BY <1>2, <1>3
<1>5. CASE close_proxy_connection(metrics)
  BY <1>1, <1>5
<1>6. CASE /\ ~sock[s].reset /\ n = 0
           /\ ~(s = "client" /\ state \in BeforeConnected)
           /\ StmRead(s, [status EXCEPT ![s] = "CLOSING"], buffer, sock)
  <2>1. Unread(s) = 0
    BY <1>2, <1>3, <1>6
  <2>2. sock[s].fin
    BY <1>1, <1>3, <1>6, <2>1 DEF Readable
  <2>. QED BY <1>1, <1>6, <2>1, <2>2
<1>7. CASE n > 0 /\ StmRead(s, status, ReadBuffer(s, n), ReadSock(s, n))
  <2> HIDE DEF n
  <2>. QED BY <1>1, <1>4, <1>7 DEF room
<1>. QED BY <1>1, <1>5, <1>6, <1>7 DEF HandleRead, ReadBuffer, ReadSock

\* Whom a read leaves as it was
LEMMA DataReadR ==
  ASSUME IInv, RInv, live, ~hung, NEW s \in Sides, Registered(s),
         NEW n \in Nat, n > 0, n <= Unread(s), n <= Room(buffer[s])
  PROVE  /\ ReadFrom(status, ReadBuffer(s, n), ReadSock(s, n))
         /\ CanRead(ReadBuffer(s, n)[s])
         /\ NotShut(sock) => NotShut(ReadSock(s, n))
         /\ EndPassed(ReadBuffer(s, n), ReadSock(s, n))
<1>1. ArgsOK(status, ReadBuffer(s, n), ReadSock(s, n))
  BY ReadArgsOK
<1>2. buffer[s] \in QueueOf(Byte) /\ Arriving(s, n) \in Seq(Byte) /\ Len(Arriving(s, n)) = n
  BY ArrivingOK DEF IInv, Typed
<1>3. CanRead(ReadBuffer(s, n)[s])
  BY <1>2, ReadSockIs, QueueStaysCompact DEF RInv, Compacted
<1>4. Compacted(ReadBuffer(s, n))
  BY <1>3, ReadSockIs DEF RInv, Compacted
<1>5. NotShut(sock) => NotShut(ReadSock(s, n))
  BY ReadSockIs DEF NotShut
<1>6. EndPassed(ReadBuffer(s, n), ReadSock(s, n))
  <2>1. sock[s].sent - sock[s].read # 0
    BY DEF Unread
  <2>. QED BY <2>1, ReadSockIs, SidesFacts DEF RInv, EndPassed
<1>. QED BY <1>1, <1>3, <1>4, <1>5, <1>6 DEF ReadFrom

\* The end of file of s
EndOf(s) == [status EXCEPT ![s] = "CLOSING"]

\* An end of file moves nothing
LEMMA EndReadR ==
  ASSUME IInv, RInv, live, ~hung, NEW s \in Sides
  PROVE  /\ ReadFrom(EndOf(s), buffer, sock)
         /\ EndOf(s)[s] = "CLOSING" /\ EndOf(s)[Other(s)] = status[Other(s)]
BY IInvArgs, SidesFacts DEF ReadFrom, EndOf, ArgsOK, Statuses, RInv

\* The buffers of ParsingRead
LEMMA ParsingBuffers ==
  ASSUME NEW buf, NEW sk, NEW taken \in Nat, NEW st, ReadFrom(st, buf, sk),
         taken <= Length(buf.client)
  PROVE  LET line == [buf EXCEPT !.client = ReadAdv(@, taken)]
             none == [buf EXCEPT !.client = EmptyQueue] IN
         /\ line \in [Sides -> QueueOf(Byte)] /\ Compacted(line)
         /\ none \in [Sides -> QueueOf(Byte)] /\ Compacted(none)
<1>1. /\ buf \in [Sides -> QueueOf(Byte)] /\ buf.client \in QueueOf(Byte)
      /\ ~CanRead(buf.client) => buf.client = EmptyQueue
  BY SidesFacts DEF ReadFrom, ArgsOK, Compacted
<1> DEFINE q == ReadAdv(buf.client, taken)
<1>2. q \in QueueOf(Byte) /\ (~CanRead(q) => q = EmptyQueue)
  BY <1>1, ReadAdvType, QueueStaysCompact
<1> HIDE DEF q
<1>3. /\ [buf EXCEPT !.client = q] \in [Sides -> QueueOf(Byte)]
      /\ Compacted([buf EXCEPT !.client = q])
  BY <1>1, <1>2, SidesFacts DEF Compacted, ReadFrom
<1>4. /\ [buf EXCEPT !.client = EmptyQueue] \in [Sides -> QueueOf(Byte)]
      /\ Compacted([buf EXCEPT !.client = EmptyQueue])
  BY <1>1, EmptyQueueType, EmptyHasRoom, SidesFacts DEF Compacted, ReadFrom
<1>. QED BY <1>3, <1>4 DEF q

\* request_line_parsing_on_read_ready
LEMMA ParsingReadR ==
  ASSUME NEW buf, NEW sk, ReadFrom(status, buf, sk), NotShut(sk),
         state = "PARSING_REQUEST_LINE",
         sock.client.read < RequestLength,
         sk.client.read = sock.client.read + Length(buf.client),
         ParsingRead(buf, sk),
         UNCHANGED <<doh, metrics, live, hung>>
  PROVE  RInv'
<1>1. /\ live' = TRUE /\ hung' = FALSE /\ Uncounted(metrics')
      /\ Running /\ Watched = interest
  BY DEF ReadFrom, RInv, Counting, Running, Relaying, Uncounted, IInv, Typed
<1>2. /\ Length(buf.client) \in Nat /\ sock.client.read \in Nat
      /\ RequestLength \in Nat /\ sk.client.read \in Nat
  <2>1. buf.client \in QueueOf(Byte) /\ sock.client \in SocketType /\ sk.client \in SocketType
    BY SidesFacts DEF ReadFrom, ArgsOK, IInv, Typed
  <2>. QED BY <2>1, QueueFields, ConnectionAssumption DEF SocketType
<1>3. CASE sk.client.read < RequestLength
  <2> DEFINE line == [buf EXCEPT !.client = ReadAdv(@, Length(@))]
  <2>1. Settle(state, interest, status, line, sk) /\ origin_fd' = origin_fd
    BY <1>2, <1>3 DEF ParsingRead
  <2>2. Compacted(line)
    <3> DEFINE all == Length(buf.client)
    <3>1. all \in Nat /\ all <= Length(buf.client)
      BY <1>2
    <3> HIDE DEF all
    <3>2. Compacted([buf EXCEPT !.client = ReadAdv(@, all)])
      BY <3>1, ParsingBuffers
    <3>. QED BY <3>2 DEF all
  <2> HIDE DEF line
  <2>3. /\ state' = state /\ interest' = Watch({"READ"}, {}) /\ status' = status
        /\ buffer' = line /\ sock' = sk
    BY <1>1, <2>1 DEF Settle, Watched
  <2>4. Running'
    BY <1>1, <2>1, <2>3 DEF Running, Watched, WithOrigin, Relaying, StatusKnown, Holding
  <2>. QED BY <1>1, <2>2, <2>3, <2>4, NotRelayingR DEF NotRelaying
<1>4. CASE sk.client.read >= RequestLength
  <2> DEFINE taken == Length(buf.client) - (sk.client.read - RequestLength)
  <2> DEFINE line == [buf EXCEPT !.client = ReadAdv(@, taken)]
  <2> DEFINE kept == IF request.connect THEN [buf EXCEPT !.client = EmptyQueue] ELSE line
  <2>1. taken \in Nat /\ taken <= Length(buf.client)
    BY <1>2, <1>4
  <2>2. /\ line \in [Sides -> QueueOf(Byte)] /\ Compacted(line)
        /\ kept \in [Sides -> QueueOf(Byte)] /\ Compacted(kept)
    <3> HIDE DEF taken
    <3>. QED BY <2>1, ParsingBuffers
  <2>3. \/ EnterError("400", status, line, sk)
        \/ \E peer \in {"doh", "host"} : OpenOrigin(peer, status, kept, line, sk)
    BY <1>2, <1>4 DEF ParsingRead
  <2> HIDE DEF line, kept
  <2>4. Reopens(status, kept, sk) \/ Fails(status, line, sk)
    BY <2>3, OpenOriginOutcome DEF Fails
  <2>5. /\ status \in [Sides -> Statuses] /\ sk \in [Sides -> SocketType]
        /\ status.client = "ACTIVE"
    BY <1>1 DEF ReadFrom, ArgsOK, Running, StatusKnown, BeforeConnected, BeforeSendRequestLine
  <2>. QED BY <1>1, <2>2, <2>4, <2>5, ReopensR, FailsR
<1>. QED BY <1>2, <1>3, <1>4

\* A buffer emptied is compact
LEMMA ConsumedCompact ==
  ASSUME NEW st, NEW buf, NEW sk, ArgsOK(st, buf, sk), Compacted(buf)
  PROVE  Compacted(Consumed(buf)) /\ Consumed(buf).origin = EmptyQueue
BY EmptyHasRoom, SidesFacts DEF ArgsOK, Compacted, Consumed

\* shutdown() of the resolver's socket tells no other peer of an end
LEMMA OriginShutR ==
  ASSUME NEW st, NEW buf, NEW sk, ArgsOK(st, buf, sk), NotShut(sk), sk.origin.peer = "doh"
  PROVE  OriginShut(sk) \in [Sides -> SocketType] /\ NotShut(OriginShut(sk))
<1>1. OriginShut(sk) \in [Sides -> SocketType]
  BY OriginShutOK DEF OriginShut, ArgsOK
<1>2. OriginShut(sk).origin.peer = "doh" /\ OriginShut(sk).client = sk.client
  BY SidesFacts DEF OriginShut, ArgsOK, SocketType
<1>. QED BY <1>1, <1>2, SidesFacts DEF NotShut

\* await_doh_response_on_read_ready
LEMMA AwaitReadR ==
  ASSUME NEW st, NEW buf, NEW sk, ReadFrom(st, buf, sk), NotShut(sk),
         state = "AWAIT_DOH_RESPONSE",
         sk.origin.peer = "doh",
         st.client = "ACTIVE",
         \/ st.origin = "ACTIVE"
         \/ st.origin = "CLOSING" /\ buf.origin = EmptyQueue,
         AwaitDohRead(st, buf, sk),
         UNCHANGED <<metrics, live>>
  PROVE  RInv'
<1>1. /\ live' = TRUE /\ Uncounted(metrics') /\ ~hung /\ hung \in BOOLEAN
      /\ Running /\ Watched = interest
  BY DEF ReadFrom, RInv, Counting, Running, Relaying, Uncounted, IInv, Typed
<1>2. /\ st \in [Sides -> Statuses]
      /\ buf \in [Sides -> QueueOf(Byte)] /\ Compacted(buf)
      /\ Consumed(buf) \in [Sides -> QueueOf(Byte)] /\ Compacted(Consumed(buf))
      /\ Consumed(buf).origin = EmptyQueue
      /\ sk \in [Sides -> SocketType]
      /\ OriginShut(sk) \in [Sides -> SocketType] /\ NotShut(OriginShut(sk))
  BY ConsumedCompact, ConsumedOK, OriginShutR DEF ReadFrom, ArgsOK
<1>3. CASE Fails(st, buf, sk) /\ hung' = hung
  BY <1>1, <1>2, <1>3, FailsR
<1>4. CASE /\ Settle(state, interest, st, Consumed(buf), sk)
           /\ st.origin # "CLOSING" \/ 1 .. Len(Fresh(buf)) # {}
           /\ UNCHANGED <<origin_fd, hung>>
  <2>1. st.origin = "ACTIVE"
    <3>1. ASSUME buf.origin = EmptyQueue
          PROVE  1 .. Len(Fresh(buf)) = {}
      BY <3>1 DEF Fresh, Length, EmptyQueue
    <3>. QED BY <1>4, <3>1
  <2>2. /\ state' = state /\ interest' = Watch({}, {"READ"}) /\ status' = st
        /\ buffer' = Consumed(buf) /\ sock' = sk
    BY <1>1, <1>4 DEF Settle, Watched
  <2>3. Running'
    BY <1>1, <1>2, <1>4, <2>1, <2>2 DEF Running, Watched, WithOrigin, StatusKnown, Holding
  <2>. QED BY <1>1, <1>2, <1>4, <2>2, <2>3, NotRelayingR DEF NotRelaying
<1>5. ASSUME NEW left \in {sk, OriginShut(sk)},
             Reopens(st, Consumed(buf), left) \/ Fails(st, Consumed(buf), left),
             hung' = hung
      PROVE  RInv'
  BY <1>1, <1>2, <1>5, FailsR, ReopensR
<1>6. CASE Hangs(st, buf, sk) \/ Hangs(st, Consumed(buf), OriginShut(sk))
  BY <1>1, <1>2, <1>6, HangsR
<1>. QED BY <1>3, <1>4, <1>5, <1>6, AwaitOutcome

\* connected_on_read_ready, with bytes read or with an end of file
LEMMA ConnectedReadR ==
  ASSUME NEW st, NEW buf, NEW sk, ReadFrom(st, buf, sk), NotShut(sk),
         state = "CONNECTED",
         \/ st = status
         \/ \E s \in Sides : st = EndOf(s) /\ sk[s].fin /\ sk[s].sent - sk[s].read = 0,
         ConnectedRead(st, buf, sk),
         UNCHANGED <<origin_fd, metrics, live, hung>>
  PROVE  RInv'
<1>1. /\ live' = TRUE /\ hung' = FALSE /\ Counted(metrics') /\ Running
      /\ origin_fd' = "registered" /\ ArgsOK(st, buf, sk) /\ Compacted(buf)
  BY DEF ReadFrom, RInv, Counting, Running, Relaying, WithOrigin, Counted, IInv, Typed
<1>2. \A s \in Sides : status[s] = "ACTIVE"
  BY <1>1, SidesFacts
  DEF Running, StatusKnown, WithOrigin, Relaying
<1>3. CASE st = status
  BY <1>1, <1>2, <1>3, SettleConnectedR DEF ConnectedRead, ReadFrom
<1>4. ASSUME NEW s \in Sides, st = EndOf(s), sk[s].fin, sk[s].sent - sk[s].read = 0
      PROVE  RInv'
  <2>1. st[s] = "CLOSING" /\ st[Other(s)] = "ACTIVE"
    BY <1>2, <1>4, EndReadR, SidesFacts DEF ReadFrom
  <2>2. EndRead(st, buf, sk)
    BY <1>4, <2>1, SidesFacts DEF EndRead, Ended
  <2>3. EndPassed(buf, sk)
    BY NotShutPassesNone
  <2>4. SettleClosing(st, buf, sk)
    BY <1>4, <2>1 DEF ConnectedRead
  <2>. QED BY <1>1, <2>1, <2>2, <2>3, <2>4, SettleClosingR DEF Ended
<1>. QED BY <1>3, <1>4

\* Both sides have finished: EMPTY_BUFFERS or DONE
LEMMA ClosingEndsR ==
  ASSUME NEW st, NEW buf, NEW sk, NEW s \in Sides, ReadFrom(st, buf, sk),
         state = "CLOSING",
         st[s] = "CLOSING", \A x \in Sides : st[x] \in Ended,
         EndRead(st, buf, sk), EndPassed(buf, sk),
         ClosingRead(s, st, buf, sk),
         hung' = hung
  PROVE  RInv'
<1>1. /\ live = TRUE /\ hung' = FALSE /\ Counted(metrics)
      /\ origin_fd = "registered" /\ ArgsOK(st, buf, sk) /\ Compacted(buf)
  BY DEF ReadFrom, RInv, Counting, Running, Relaying, WithOrigin, IInv, Typed
<1>2. CASE /\ \E x \in Sides : CanRead(buf[x])
           /\ SettleEmptyBuffers(st, buf, sk)
           /\ UNCHANGED <<metrics, live, origin_fd>>
  BY <1>1, <1>2, SettleEmptyBuffersR DEF Counted
<1>3. CASE /\ \A x \in Sides : ~CanRead(buf[x])
           /\ EnterDone(st, buf, [sk EXCEPT ![Other(s)].shut = TRUE])
           /\ metrics' = unregister_connection(metrics)
  <2> DEFINE shut == [sk EXCEPT ![Other(s)].shut = TRUE]
  <2>1. /\ live' = FALSE /\ interest' = Watch({}, {}) /\ buffer' = buf /\ sock' = shut
    BY <1>3 DEF EnterDone, Release
  <2>2. \A x \in Sides : /\ shut[x].fin = sk[x].fin /\ shut[x].sent = sk[x].sent
                         /\ shut[x].read = sk[x].read /\ shut[x].peer = sk[x].peer
                         /\ shut[x].shut => sk[x].shut \/ x = Other(s)
    BY <1>1, SidesFacts DEF ArgsOK, SocketType
  <2> HIDE DEF shut
  <2>3. EndPassed(buf, shut)
    BY <1>3, <2>2, SidesFacts DEF EndPassed, EndRead, Ended
  <2>4. metrics'.concurrent <= OtherConnections
    BY <1>1, <1>3, Sizes DEF Counted, unregister_connection, ReadFrom, IInv, Typed, MetricsType
  <2>. QED BY <1>1, <2>1, <2>3, <2>4, ReleasedR
<1>. QED BY <1>2, <1>3 DEF ClosingRead

\* closing_on_read_ready, with bytes read
LEMMA ClosingDataR ==
  ASSUME NEW buf, NEW sk, NEW s \in Sides, ReadFrom(status, buf, sk),
         state = "CLOSING",
         status[s] = "ACTIVE",
         \A x \in Sides \ {s} : sk[x] = sock[x] /\ buf[x] = buffer[x],
         EndPassed(buf, sk),
         ClosingRead(s, status, buf, sk),
         UNCHANGED hung
  PROVE  RInv'
<1>1. /\ live = TRUE /\ hung' = FALSE /\ Counted(metrics) /\ Running
      /\ origin_fd = "registered" /\ ArgsOK(status, buf, sk) /\ Compacted(buf)
  BY DEF ReadFrom, RInv, Counting, Running, Relaying, WithOrigin, IInv, Typed
<1>2. EndRead(status, buffer, sock)
  BY DEF ReadFrom, RInv, Ending
<1>3. EndRead(status, buf, sk)
  BY <1>2 DEF EndRead, Ended
<1>4. \E x \in Sides : status[x] \in Ended /\ status[Other(x)] = "ACTIVE"
  BY <1>1 DEF Running, StatusKnown
<1>5. SettleClosing(status, buf, sk) /\ UNCHANGED <<metrics, live, origin_fd>>
  BY DEF ClosingRead
<1>. QED BY <1>1, <1>3, <1>4, <1>5, SettleClosingR DEF Counted

\* The read callbacks keep the invariant
LEMMA HandleReadR ==
  ASSUME IInv, RInv, ~hung, NEW s \in Sides, HandleRead(s)
  PROVE  RInv'
<1>1. /\ live /\ Registered(s) /\ "READ" \in interest[s] /\ hung = FALSE
      /\ Running /\ Watched = interest /\ state \in States
      /\ state \in HaveReadHandler
  BY ReadEvents DEF RInv, Running, IInv, Typed, DispatchHandled
<1>2. CASE close_proxy_connection(metrics)
  BY <1>1, <1>2, CloseR
<1>3. ASSUME Unread(s) = 0, sock[s].fin,
             ~(s = "client" /\ state \in BeforeConnected),
             StmRead(s, EndOf(s), buffer, sock)
      PROVE  RInv'
  <2>1. /\ ReadFrom(EndOf(s), buffer, sock)
        /\ EndOf(s)[s] = "CLOSING" /\ EndOf(s)[Other(s)] = status[Other(s)]
    BY <1>1, EndReadR
  <2>2. CASE state = "PARSING_REQUEST_LINE"
    BY <1>1, <1>3, <2>2, SidesFacts DEF Watched, Watch, BeforeConnected, BeforeSendRequestLine
  <2>3. CASE state = "AWAIT_DOH_RESPONSE"
    <3>1. s = "origin"
      BY <1>1, <2>3, SidesFacts DEF Watched, Watch
    <3>2. AwaitDohRead(EndOf(s), buffer, sock) /\ UNCHANGED <<metrics, live>>
      BY <1>3, <2>3 DEF StmRead
    <3>3. NotShut(sock) /\ buffer.origin = EmptyQueue /\ sock.origin.peer = "doh"
          /\ status.client = "ACTIVE"
      BY <1>1, <2>3 DEF RInv, Ending, Running, Holding, IInv, PeerKnown, StatusKnown,
                        BeforeConnected, BeforeSendRequestLine
    <3>. QED BY <2>1, <2>3, <3>1, <3>2, <3>3, SidesFacts, AwaitReadR
  <2>4. CASE state = "CONNECTED"
    <3>1. /\ ConnectedRead(EndOf(s), buffer, sock)
          /\ UNCHANGED <<origin_fd, metrics, live, hung>>
      BY <1>3, <2>4 DEF StmRead
    <3>2. NotShut(sock)
      BY <1>1, <2>4 DEF RInv, Ending
    <3>. QED BY <1>3, <2>1, <2>4, <3>1, <3>2, ConnectedReadR DEF Unread
  <2>5. CASE state = "CLOSING"
    <3>1. ClosingRead(s, EndOf(s), buffer, sock) /\ hung' = hung
      BY <1>3, <2>5 DEF StmRead
    <3>2. status[Other(s)] \in Ended
      BY <1>1, <2>5, SidesFacts DEF Watched, ClosingInterest, When, Ended
    <3>3. EndRead(status, buffer, sock) /\ EndPassed(buffer, sock)
      BY <1>1, <2>5 DEF RInv, Ending
    <3>4. EndRead(EndOf(s), buffer, sock)
      BY <1>3, <2>1, <3>3, SidesFacts DEF EndRead, Ended, Unread
    <3>5. \A x \in Sides : EndOf(s)[x] \in Ended
      BY <2>1, <3>2, SidesFacts DEF Ended
    <3>. QED BY <2>1, <2>5, <3>1, <3>3, <3>4, <3>5, ClosingEndsR
  <2>. QED BY <1>1, <2>2, <2>3, <2>4, <2>5 DEF HaveReadHandler
<1>4. ASSUME NEW n \in Nat, n > 0, n <= Unread(s), n <= Room(buffer[s]),
             StmRead(s, status, ReadBuffer(s, n), ReadSock(s, n))
      PROVE  RInv'
  <2> DEFINE buf == ReadBuffer(s, n)
  <2> DEFINE sk == ReadSock(s, n)
  <2>1. /\ ReadFrom(status, buf, sk)
        /\ NotShut(sock) => NotShut(sk)
        /\ EndPassed(buf, sk)
    BY <1>1, <1>4, DataReadR
  <2>2. CASE state = "PARSING_REQUEST_LINE"
    <3>1. s = "client"
      BY <1>1, <2>2, SidesFacts DEF Watched, Watch
    <3>2. ParsingRead(buf, sk) /\ UNCHANGED <<doh, metrics, live, hung>>
      BY <1>4, <2>2 DEF StmRead
    <3>3. NotShut(sk) /\ sock.client.read < RequestLength /\ buffer.client = EmptyQueue
      BY <1>1, <2>1, <2>2 DEF RInv, Ending, IInv, LineIncomplete
    <3>4. buf.client = WriteAdv(buffer.client, Arriving(s, n))
          /\ sk.client.read = sock.client.read + n
      BY <3>1, ReadSockIs, SidesFacts
    <3>5. Length(buf.client) = n
      <4>1. Arriving(s, n) \in Seq(Byte) /\ Len(Arriving(s, n)) = n
        BY <1>1, <1>4, ArrivingOK
      <4>2. buf.client.bytes = <<>> \o Arriving(s, n)
        BY <3>3, <3>4 DEF WriteAdv, EmptyQueue
      <4>. QED BY <4>1, <4>2, ConcatEmptySeq DEF Length
    <3> HIDE DEF buf, sk
    <3>. QED BY <2>1, <2>2, <3>2, <3>3, <3>4, <3>5, ParsingReadR
  <2>3. CASE state = "AWAIT_DOH_RESPONSE"
    <3>1. AwaitDohRead(status, buf, sk) /\ UNCHANGED <<metrics, live>>
      BY <1>4, <2>3 DEF StmRead
    <3>2. NotShut(sk) /\ sock.origin.peer = "doh" /\ status.client = "ACTIVE"
          /\ status.origin = "ACTIVE"
      BY <1>1, <2>1, <2>3 DEF RInv, Ending, Running, IInv, PeerKnown, StatusKnown, WithOrigin,
                              BeforeConnected, BeforeSendRequestLine
    <3>3. sk.origin.peer = "doh"
      BY <3>2, ReadSockIs, SidesFacts
    <3> HIDE DEF buf, sk
    <3>. QED BY <2>1, <2>3, <3>1, <3>2, <3>3, AwaitReadR
  <2>4. CASE state = "CONNECTED"
    <3>1. ConnectedRead(status, buf, sk) /\ UNCHANGED <<origin_fd, metrics, live, hung>>
      BY <1>4, <2>4 DEF StmRead
    <3>2. NotShut(sk)
      BY <1>1, <2>1, <2>4 DEF RInv, Ending
    <3> HIDE DEF buf, sk
    <3>. QED BY <2>1, <2>4, <3>1, <3>2, ConnectedReadR
  <2>5. CASE state = "CLOSING"
    <3>1. ClosingRead(s, status, buf, sk) /\ hung' = hung
      BY <1>4, <2>5 DEF StmRead
    <3>2. status[Other(s)] \in Ended
      BY <1>1, <2>5, SidesFacts DEF Watched, ClosingInterest, When, Ended
    <3>3. status[s] = "ACTIVE"
      BY <1>1, <2>5, <3>2, SidesFacts DEF Running, StatusKnown, Ended
    <3>4. \A x \in Sides \ {s} : sk[x] = sock[x] /\ buf[x] = buffer[x]
      BY <1>1 DEF ReadSock, ReadBuffer, IInv, Typed
    <3> HIDE DEF buf, sk
    <3>. QED BY <2>1, <2>5, <3>1, <3>3, <3>4, ClosingDataR
  <2>. QED BY <1>1, <2>2, <2>3, <2>4, <2>5 DEF HaveReadHandler
<1>. QED BY <1>2, <1>3, <1>4, ReadEvents DEF EndOf

-----------------------------------------------------------------------------
(* The write handlers *)

\* A socket that was sent bytes
LEMMA WriteSockIs ==
  ASSUME IInv, NEW s \in Sides, NEW o \in Sides, NEW n \in Nat,
         NEW full \in Fills, NEW x \in Sides
  PROVE  /\ WriteSock(s, o, n, full)[x].shut = sock[x].shut
         /\ WriteSock(s, o, n, full)[x].peer = sock[x].peer
         /\ WriteSock(s, o, n, full)[x].fin = sock[x].fin
         /\ WriteSock(s, o, n, full)[x].sent = sock[x].sent
         /\ WriteSock(s, o, n, full)[x].read = sock[x].read
         /\ WriteSock(s, o, n, full)[x].got =
              IF x = s THEN sock[x].got \o SubSeq(buffer[o].bytes, 1, n) ELSE sock[x].got
         /\ WriteBuffer(o, n)[x] = IF x = o THEN ReadAdv(buffer[x], n) ELSE buffer[x]
BY DEF WriteSock, WriteBuffer, IInv, Typed, SocketType

\* What is common to the states in which a write handler has sent
WrittenTo(buf, sk) ==
  /\ IInv /\ RInv /\ live /\ ~hung
  /\ ArgsOK(status, buf, sk)
  /\ Compacted(buf)
  /\ NotShut(sock) => NotShut(sk)
  /\ EndRead(status, buffer, sock) => EndRead(status, buf, sk)
  /\ EndPassed(buf, sk)

\* A send takes nothing from a buffer that was already delivered
LEMMA DataSentR ==
  ASSUME IInv, RInv, live, ~hung, NEW s \in Sides, NEW o \in Sides, NEW n \in 1 .. Length(buffer[o]),
         NEW full \in Fills
  PROVE  WrittenTo(WriteBuffer(o, n), WriteSock(s, o, n, full))
<1>1. ArgsOK(status, WriteBuffer(o, n), WriteSock(s, o, n, full))
  BY WriteArgsOK
<1>2. buffer[o] \in QueueOf(Byte)
  BY DEF IInv, Typed
<1>3. n \in Nat /\ n <= Length(buffer[o]) /\ CanRead(buffer[o])
  BY <1>2, QueueFields DEF CanRead
<1>4. Compacted(WriteBuffer(o, n))
  BY <1>2, <1>3, WriteSockIs, QueueStaysCompact DEF RInv, Compacted
<1>5. NotShut(sock) => NotShut(WriteSock(s, o, n, full))
  BY <1>3, WriteSockIs DEF NotShut
<1>6. EndRead(status, buffer, sock) => EndRead(status, WriteBuffer(o, n), WriteSock(s, o, n, full))
  BY <1>3, WriteSockIs DEF EndRead
<1>7. EndPassed(WriteBuffer(o, n), WriteSock(s, o, n, full))
  <2> SUFFICES ASSUME NEW x \in Sides,
                      WriteSock(s, o, n, full)[x].shut, WriteSock(s, o, n, full)[x].peer # "doh"
               PROVE  /\ WriteSock(s, o, n, full)[Other(x)].fin
                      /\ WriteSock(s, o, n, full)[Other(x)].sent - WriteSock(s, o, n, full)[Other(x)].read = 0
                      /\ ~CanRead(WriteBuffer(o, n)[Other(x)])
    BY DEF EndPassed
  <2>1. /\ sock[Other(x)].fin
        /\ sock[Other(x)].sent - sock[Other(x)].read = 0
        /\ ~CanRead(buffer[Other(x)])
    BY <1>3, WriteSockIs DEF RInv, EndPassed
  <2>2. Other(x) \in Sides /\ Other(x) # o
    BY <1>3, <2>1, SidesFacts
  <2>. QED BY <1>3, <2>1, <2>2, WriteSockIs
<1>. QED BY <1>1, <1>4, <1>5, <1>6, <1>7 DEF WrittenTo

\* A message that is only partly sent
LEMMA SendingStaysR ==
  ASSUME NEW buf, NEW sk, WrittenTo(buf, sk),
         state \in {"SEND_DOH_REQUEST", "SEND_REQUEST_LINE", "ERROR"},
         CanRead(buf.origin),
         Settle(state, interest, status, buf, sk),
         IF state = "SEND_REQUEST_LINE" THEN Counted(metrics') ELSE Uncounted(metrics'),
         UNCHANGED <<live, origin_fd, hung>>
  PROVE  RInv'
<1>1. /\ Running /\ live' = TRUE /\ hung' = FALSE /\ Compacted(buf) /\ NotShut(sk)
  BY DEF WrittenTo, RInv, Ending, IInv, Typed
<1>2. /\ state' = state /\ interest' = interest /\ status' = status
      /\ buffer' = buf /\ sock' = sk
  BY DEF Settle
<1>3. Running'
  BY <1>1, <1>2 DEF Running, Watched, WithOrigin, Relaying, StatusKnown, Holding
<1>. QED BY <1>1, <1>2, <1>3, NotRelayingR, RelaysR DEF NotRelaying

\* The query is sent: the response is awaited
LEMMA AwaitEnteredR ==
  ASSUME NEW buf, NEW sk, WrittenTo(buf, sk),
         state = "SEND_DOH_REQUEST",
         ~CanRead(buf.origin),
         EnterAwaitDohResponse(status, buf, sk),
         Uncounted(metrics'),
         UNCHANGED <<live, origin_fd, hung>>
  PROVE  RInv'
<1>1. /\ Running /\ live' = TRUE /\ hung' = FALSE /\ Compacted(buf) /\ NotShut(sk)
  BY DEF WrittenTo, RInv, Ending, IInv, Typed
<1>2. /\ state' = "AWAIT_DOH_RESPONSE" /\ interest' = Watch({}, {"READ"}) /\ status' = status
      /\ buffer' = buf /\ sock' = sk
  BY DEF EnterAwaitDohResponse, Settle
<1>3. buf.origin = EmptyQueue
  BY <1>1, SidesFacts DEF Compacted
<1>4. Running'
  BY <1>1, <1>2, <1>3
  DEF Running, Watched, WithOrigin, StatusKnown, Holding, BeforeConnected, BeforeSendRequestLine
<1>. QED BY <1>1, <1>2, <1>4, NotRelayingR DEF NotRelaying

\* empty_buffers_on_write_ready
LEMMA EmptyBuffersWriteR ==
  ASSUME NEW buf, NEW sk, NEW m \in MetricsType, WrittenTo(buf, sk),
         state = "EMPTY_BUFFERS",
         Counted(m),
         EmptyBuffersWrite(buf, sk, m),
         hung' = hung
  PROVE  RInv'
<1> DEFINE end == CloseDrained(status, buf)
<1>1. /\ Running /\ live = TRUE /\ hung' = FALSE /\ Compacted(buf)
      /\ EndRead(status, buf, sk) /\ EndPassed(buf, sk) /\ ArgsOK(status, buf, sk)
      /\ origin_fd = "registered"
      /\ \A s \in Sides : status[s] \in Ended
  BY DEF WrittenTo, RInv, Ending, IInv, Typed, Running, WithOrigin, Relaying, StatusKnown
<1>2. /\ EndPassed(buf, ShutDrained(status, buf, sk))
      /\ \A s \in Sides : /\ end[s] = "CLOSING" => CanRead(buf[s])
                          /\ end[s] \in Ended <=> status[s] \in Ended
  BY <1>1, DrainedR
<1>3. CASE \A s \in Sides : end[s] = "CLOSED"
  <2>1. /\ live' = FALSE /\ interest' = Watch({}, {})
        /\ buffer' = buf /\ sock' = ShutDrained(status, buf, sk)
        /\ metrics' = unregister_connection(m)
    BY <1>3 DEF EmptyBuffersWrite, EnterDone, Release
  <2>2. metrics'.concurrent <= OtherConnections
    BY <2>1, CountersKept, Sizes
  <2>. QED BY <1>1, <1>2, <2>1, <2>2, ReleasedR
<1>4. CASE ~(\A s \in Sides : end[s] = "CLOSED")
  <2>1. /\ SettleEmptyBuffers(status, buf, sk) /\ metrics' = m
        /\ UNCHANGED <<live, origin_fd>>
    BY <1>4 DEF EmptyBuffersWrite
  <2>2. \E s \in Sides : CanRead(buf[s])
    BY <1>1, <1>2, <1>4 DEF Ended
  <2>. QED BY <1>1, <2>1, <2>2, SettleEmptyBuffersR
<1>. QED BY <1>3, <1>4

\* The write handlers of the states, once the callback has sent
LEMMA StmWriteR ==
  ASSUME NEW buf, NEW sk, NEW m \in MetricsType, WrittenTo(buf, sk),
         m.historical = metrics.historical, m.concurrent = metrics.concurrent,
         StmWrite(buf, sk, m),
         hung' = hung
  PROVE  RInv'
<1>1. /\ Running /\ live = TRUE /\ hung' = FALSE /\ Compacted(buf) /\ ArgsOK(status, buf, sk)
      /\ NotShut(sock) => NotShut(sk)
      /\ EndPassed(buf, sk)
      /\ IF state \in Relaying THEN Counted(m) ELSE Uncounted(m)
  BY DEF WrittenTo, RInv, Counting, Counted, Uncounted, IInv, Typed
<1>2. CASE state \in {"SEND_DOH_REQUEST", "SEND_REQUEST_LINE", "ERROR"} /\ CanRead(buf.origin)
  <2>1. /\ Settle(state, interest, status, buf, sk)
        /\ metrics' = m
        /\ UNCHANGED <<live, origin_fd>>
    BY <1>2 DEF StmWrite
  <2>. QED BY <1>1, <1>2, <2>1, SendingStaysR DEF Relaying
<1>3. CASE state = "SEND_DOH_REQUEST" /\ ~CanRead(buf.origin)
  <2>1. EnterAwaitDohResponse(status, buf, sk) /\ metrics' = m /\ UNCHANGED <<live, origin_fd>>
    BY <1>3 DEF StmWrite
  <2>. QED BY <1>1, <1>3, <2>1, AwaitEnteredR DEF Relaying
<1>4. CASE \/ state = "SEND_REQUEST_LINE" /\ ~CanRead(buf.origin)
           \/ state = "CONNECTED"
  <2>1. SettleConnected(status, buf, sk) /\ metrics' = m /\ UNCHANGED <<live, origin_fd>>
    BY <1>4 DEF StmWrite
  <2>2. /\ \A s \in Sides : status[s] = "ACTIVE"
        /\ origin_fd = "registered"
        /\ NotShut(sk) /\ Counted(m)
    BY <1>1, <1>4, SidesFacts
    DEF Running, StatusKnown, WithOrigin, Relaying, BeforeConnected, WrittenTo, RInv, Ending
  <2>. QED BY <1>1, <2>1, <2>2, SettleConnectedR
<1>5. CASE state = "CLOSING"
  <2>1. SettleClosing(status, buf, sk) /\ metrics' = m /\ UNCHANGED <<live, origin_fd>>
    BY <1>5 DEF StmWrite
  <2>2. /\ \E s \in Sides : status[s] \in Ended /\ status[Other(s)] = "ACTIVE"
        /\ origin_fd = "registered"
        /\ EndRead(status, buf, sk) /\ Counted(m)
    BY <1>1, <1>5 DEF Running, StatusKnown, WithOrigin, Relaying, WrittenTo, RInv, Ending
  <2>. QED BY <1>1, <2>1, <2>2, SettleClosingR
<1>6. CASE state = "EMPTY_BUFFERS"
  <2>1. EmptyBuffersWrite(buf, sk, m)
    BY <1>6 DEF StmWrite
  <2>. QED BY <1>1, <1>6, <2>1, EmptyBuffersWriteR DEF Relaying
<1>7. CASE state = "ERROR" /\ ~CanRead(buf.origin)
  <2>1. /\ live' = FALSE /\ interest' = Watch({}, {}) /\ buffer' = buf /\ sock' = sk
        /\ metrics' = m
    BY <1>7 DEF StmWrite, EnterDone, Release
  <2>2. metrics'.concurrent <= OtherConnections
    BY <1>1, <1>7, <2>1, Sizes DEF Uncounted, Relaying
  <2>. QED BY <1>1, <2>1, <2>2, ReleasedR
<1>. QED BY <1>2, <1>3, <1>4, <1>5, <1>6, <1>7 DEF StmWrite

\* connection_garbage_collect
LEMMA GarbageCollectR ==
  ASSUME IInv, RInv, connection_garbage_collect
  PROVE  RInv'
<1> DEFINE m == IF state \in BeforeSendRequestLine THEN metrics ELSE unregister_connection(metrics)
<1>1. live /\ hung = FALSE /\ close_proxy_connection(m) /\ metrics \in MetricsType
  BY DEF connection_garbage_collect, IInv, Typed
<1>2. /\ live' = FALSE /\ interest' = Watch({}, {}) /\ hung' = FALSE
      /\ buffer' = buffer /\ sock' = sock
      /\ metrics' = IF state \in BeforeSendRequestLine THEN m ELSE unregister_connection(m)
  BY <1>1 DEF close_proxy_connection, Release
<1>3. metrics'.concurrent <= OtherConnections
  <2>1. m \in MetricsType
    BY <1>1, MetricsOK DEF Sides
  <2>2. m.concurrent <= OtherConnections
    BY <1>1, CountersKept, Sizes DEF RInv, Counting, Counted, Uncounted,
       BeforeSendRequestLine, Relaying
  <2> HIDE DEF m
  <2>. QED BY <1>2, <2>1, <2>2, CountersKept
<1>. QED BY <1>2, <1>3, ReleasedR DEF RInv

-----------------------------------------------------------------------------
(* Time, the peers and the network *)

\* A peer that acts on a socket only adds to what it has sent, and a peer that
\* has finished sends no more
Acted(old, new) ==
  /\ new.peer = old.peer /\ new.shut = old.shut /\ new.read = old.read /\ new.got = old.got
  /\ old.fin => new.fin /\ new.sent = old.sent

\* The peers and time leave the proxy's own state alone
LEMMA ElsewhereR ==
  ASSUME RInv, Elsewhere, \A s \in Sides : Acted(sock[s], sock'[s])
  PROVE  RInv'
<1>1. /\ UNCHANGED <<state, status, interest, buffer, origin_fd, metrics, live, hung>>
  BY DEF Elsewhere
<1>2. /\ Compacted(buffer')
      /\ live' /\ ~hung' => Running'
      /\ ~live' => interest' = Watch({}, {})
      /\ HungResolving' /\ Counting'
  BY <1>1 DEF RInv, Compacted, Running, Watched, StatusKnown, Holding, HungResolving, Counting
<1>3. EndPassed(buffer', sock')
  BY <1>1, SidesFacts DEF RInv, EndPassed, Acted
<1>4. live' => Ending'
  BY <1>1 DEF RInv, Ending, EndRead, NotShut, Acted
<1>. QED BY <1>2, <1>3, <1>4 DEF RInv, Compacted, EndPassed

\* What a peer does on one socket
LEMMA ActedOn ==
  ASSUME IInv, NEW s \in Sides, NEW new \in SocketType, sock' = [sock EXCEPT ![s] = new],
         Acted(sock[s], new)
  PROVE  \A x \in Sides : Acted(sock[x], sock'[x])
BY DEF Acted, IInv, Typed

\* try_connection_ip_on_write_ready
LEMMA TryConnectionIpWriteR ==
  ASSUME IInv, RInv, live, ~hung,
         state = "TRY_CONNECTION_IP",
         TryConnectionIpWrite,
         UNCHANGED live
  PROVE  RInv'
<1>1. /\ Running /\ live' = TRUE /\ hung = FALSE /\ Uncounted(metrics)
      /\ Compacted(buffer) /\ NotShut(sock) /\ ArgsOK(status, buffer, sock)
      /\ buffer.origin = EmptyQueue /\ origin_fd = "registered"
      /\ metrics \in MetricsType
  BY IInvArgs DEF RInv, Ending, Running, WithOrigin, Counting, Relaying, IInv, Typed, OriginBufferFree
<1>2. status.client = "ACTIVE" /\ status.origin = "ACTIVE"
  BY <1>1 DEF Running, StatusKnown, WithOrigin, BeforeConnected, BeforeSendRequestLine
<1>3. /\ status \in [Sides -> Statuses] /\ buffer \in [Sides -> QueueOf(Byte)]
      /\ sock \in [Sides -> SocketType]
  BY <1>1 DEF ArgsOK
<1> DEFINE Composed(kind) == [buffer EXCEPT !.origin = WriteAdv(EmptyQueue, Message(kind))]
<1>4. ASSUME NEW kind \in Sources
      PROVE  /\ Compacted(Composed(kind)) /\ CanRead(Composed(kind).origin)
             /\ Compose(kind, buffer) = Composed(kind)
  <2>1. CanRead(WriteAdv(EmptyQueue, Message(kind)))
    BY MessageReadable
  <2>2. Compose(kind, buffer) = Composed(kind)
    BY <1>1 DEF Compose
  <2>3. /\ Composed(kind).origin = WriteAdv(EmptyQueue, Message(kind))
        /\ Composed(kind).client = buffer.client
    BY <1>3, SidesFacts
  <2> HIDE DEF Composed
  <2>. QED BY <1>1, <2>1, <2>2, <2>3, SidesFacts DEF Compacted
<1>5. "query" \in Sources /\ "ok" \in Sources /\ "request" \in Sources
  BY DEF Sources
<1>6. CASE /\ EnterSendDohRequest(status, buffer, sock)
           /\ UNCHANGED <<metrics, origin_fd, error, doh, reply, hung>>
  <2>1. /\ state' = "SEND_DOH_REQUEST" /\ interest' = Watch({}, {"WRITE"}) /\ status' = status
        /\ buffer' = Composed("query") /\ sock' = sock
    BY <1>4, <1>5, <1>6 DEF EnterSendDohRequest, Settle
  <2>2. Compacted(buffer') /\ CanRead(buffer'.origin)
    BY <1>4, <1>5, <2>1
  <2>3. Running'
    BY <1>1, <1>2, <1>6, <2>1, <2>2 DEF Running, Watched, StatusKnown, Holding
  <2>. QED BY <1>1, <1>6, <2>1, <2>2, <2>3, NotRelayingR DEF NotRelaying, Uncounted
<1>7. CASE /\ metrics' = register_new_connection(metrics)
           /\ SettleConnected(status, Composed("ok"), sock)
           /\ UNCHANGED <<origin_fd, error, doh, reply, hung>>
  <2>1. Counted(metrics')
    BY <1>1, <1>7, CountersKept
  <2>2. \A s \in Sides : status[s] = "ACTIVE"
    BY <1>2, SidesFacts
  <2>3. Compacted(Composed("ok"))
    BY <1>4, <1>5
  <2> HIDE DEF Composed
  <2>. QED BY <1>1, <1>7, <2>1, <2>2, <2>3, SettleConnectedR
<1>8. CASE /\ metrics' = register_new_connection(metrics)
           /\ EnterSendRequestLine(status, buffer, sock)
           /\ UNCHANGED <<origin_fd, error, doh, reply, hung>>
  <2>1. /\ state' = "SEND_REQUEST_LINE" /\ interest' = Watch({}, {"WRITE"}) /\ status' = status
        /\ buffer' = Composed("request") /\ sock' = sock
    BY <1>4, <1>5, <1>8 DEF EnterSendRequestLine, Settle
  <2>2. Compacted(buffer') /\ CanRead(buffer'.origin)
    BY <1>4, <1>5, <2>1
  <2>3. Running'
    BY <1>1, <1>2, <1>8, <2>1, <2>2 DEF Running, Watched, StatusKnown, Holding
  <2>4. Counted(metrics')
    BY <1>1, <1>8, CountersKept
  <2>. QED BY <1>1, <1>8, <2>1, <2>2, <2>3, <2>4, RelaysR
<1>9. CASE /\ metrics' = increase_failed_connections(metrics)
           /\ \/ try_next_dns_connection(doh, status, buffer, sock)
              \/ EnterError("500", status, buffer, sock) /\ hung' = hung
  <2>1. Uncounted(metrics')
    BY <1>1, <1>9, CountersKept DEF Uncounted
  <2>2. CASE EnterError("500", status, buffer, sock) /\ hung' = hung
    BY <1>1, <1>3, <2>1, <2>2, FailsR DEF Fails
  <2>3. CASE try_next_dns_connection(doh, status, buffer, sock)
    <3>1. CASE Hangs(status, buffer, sock)
      BY <1>1, <2>1, <3>1, HangsR
    <3>2. CASE Fails(status, buffer, sock) /\ hung' = hung
      BY <1>1, <1>3, <2>1, <3>2, FailsR
    <3>3. CASE Reopens(status, buffer, sock) /\ hung' = hung
      BY <1>1, <1>2, <1>3, <2>1, <3>3, ReopensR
    <3>. QED BY <2>3, <3>1, <3>2, <3>3, TryNextOutcome
  <2>. QED BY <1>9, <2>2, <2>3
<1>. QED BY <1>6, <1>7, <1>8, <1>9 DEF TryConnectionIpWrite

\* The write callbacks keep the invariant
LEMMA HandleWriteR ==
  ASSUME IInv, RInv, ~hung, NEW s \in Sides, HandleWrite(s)
  PROVE  RInv'
<1>1. /\ live /\ "WRITE" \in interest[s] /\ hung = FALSE
      /\ Running /\ Watched = interest /\ state \in States
      /\ metrics \in MetricsType
  BY DEF HandleWrite, WriteReady, Registered, RInv, Running, IInv, Typed
<1>2. CASE state = "TRY_CONNECTION_IP" /\ TryConnectionIpWrite /\ UNCHANGED live
  BY <1>1, <1>2, TryConnectionIpWriteR
<1>3. CASE close_proxy_connection(metrics)
  BY <1>1, <1>3, CloseR
<1>4. CASE /\ \E n \in 1 .. Length(buffer[Outgoing(s)]), full \in Fills :
                StmWrite(WriteBuffer(Outgoing(s), n), WriteSock(s, Outgoing(s), n, full),
                         Transferred(metrics, s, n))
           /\ UNCHANGED <<reply, hung>>
  <2>1. Outgoing(s) \in Sides
    BY DEF Outgoing, Other, Sides
  <2>2. PICK n \in 1 .. Length(buffer[Outgoing(s)]), full \in Fills :
          StmWrite(WriteBuffer(Outgoing(s), n), WriteSock(s, Outgoing(s), n, full),
                   Transferred(metrics, s, n))
    BY <1>4
  <2> DEFINE buf == WriteBuffer(Outgoing(s), n)
  <2> DEFINE sk == WriteSock(s, Outgoing(s), n, full)
  <2> DEFINE m == Transferred(metrics, s, n)
  <2>3. /\ WrittenTo(buf, sk) /\ hung' = hung /\ StmWrite(buf, sk, m)
        /\ m \in MetricsType
        /\ m.historical = metrics.historical /\ m.concurrent = metrics.concurrent
    <3>1. Length(buffer[Outgoing(s)]) \in Nat
      BY <2>1, QueueFields DEF IInv, Typed
    <3>2. m \in MetricsType
      BY <1>1, <3>1, MetricsOK
    <3>. QED BY <1>1, <1>4, <2>1, <2>2, <3>2, DataSentR, CountersKept
  <2> HIDE DEF buf, sk, m
  <2>. QED BY <1>1, <2>3, StmWriteR
<1>. QED BY <1>2, <1>3, <1>4 DEF HandleWrite, WriteBuffer, WriteSock

\* The peers and the network act on the sockets only
LEMMA EnvironmentActs ==
  ASSUME IInv, Environment
  PROVE  Elsewhere /\ \A s \in Sides : Acted(sock[s], sock'[s])
<1>1. Elsewhere
  BY DEF Environment, PeerSends, PeerFinishes, PeerReads, PeerResetsConnection, DohServerSends, ConnectEnds,
         Unmoved, Elsewhere
<1>2. \A s \in Sides : sock[s] \in SocketType /\ sock[s].sent + 1 \in Nat
  BY DEF IInv, Typed, SocketType
<1>3. ASSUME NEW s \in Sides, PeerSends(s) \/ (s = "origin" /\ DohServerSends)
      PROVE  \A x \in Sides : Acted(sock[x], sock'[x])
  <2> DEFINE new == [sock[s] EXCEPT !.sent = @ + 1]
  <2>1. sock' = [sock EXCEPT ![s] = new] /\ ~sock[s].fin
    BY <1>3 DEF PeerSends, DohServerSends, Reachable
  <2>2. new \in SocketType /\ Acted(sock[s], new)
    BY <1>2, <2>1 DEF SocketType, Acted
  <2> HIDE DEF new
  <2>. QED BY <2>1, <2>2, ActedOn
<1>4. ASSUME NEW s \in Sides, PeerFinishes(s)
      PROVE  \A x \in Sides : Acted(sock[x], sock'[x])
  <2> DEFINE new == [sock[s] EXCEPT !.fin = TRUE]
  <2>1. sock' = [sock EXCEPT ![s] = new]
    BY <1>4 DEF PeerFinishes
  <2>2. new \in SocketType /\ Acted(sock[s], new)
    BY <1>2 DEF SocketType, Acted
  <2> HIDE DEF new
  <2>. QED BY <2>1, <2>2, ActedOn
<1>5. ASSUME NEW s \in Sides, PeerResetsConnection(s)
      PROVE  \A x \in Sides : Acted(sock[x], sock'[x])
  <2> DEFINE new == [sock[s] EXCEPT !.reset = TRUE]
  <2>1. sock' = [sock EXCEPT ![s] = new]
    BY <1>5 DEF PeerResetsConnection
  <2>2. new \in SocketType /\ Acted(sock[s], new)
    BY <1>2 DEF SocketType, Acted
  <2> HIDE DEF new
  <2>. QED BY <2>1, <2>2, ActedOn
<1>8. ASSUME NEW s \in Sides, PeerReads(s)
      PROVE  \A x \in Sides : Acted(sock[x], sock'[x])
  <2> DEFINE new == [sock[s] EXCEPT !.full = FALSE]
  <2>1. sock' = [sock EXCEPT ![s] = new]
    BY <1>8 DEF PeerReads
  <2>2. new \in SocketType /\ Acted(sock[s], new)
    BY <1>2 DEF SocketType, Acted
  <2> HIDE DEF new
  <2>. QED BY <2>1, <2>2, ActedOn
<1>6. ASSUME ConnectEnds
      PROVE  \A x \in Sides : Acted(sock[x], sock'[x])
  <2>1. PICK link \in {"up", "failed"} : sock' = [sock EXCEPT !.origin.link = link]
    BY <1>6 DEF ConnectEnds
  <2> DEFINE new == [sock.origin EXCEPT !.link = link]
  <2>2. sock' = [sock EXCEPT !.origin = new]
    BY <2>1
  <2>3. new \in SocketType /\ Acted(sock.origin, new)
    <3>1. sock.origin \in SocketType
      BY <1>2, SidesFacts
    <3>. QED BY <3>1 DEF SocketType, Acted
  <2> HIDE DEF new
  <2>. QED BY <2>2, <2>3, ActedOn, SidesFacts
<1>7. \A x \in Sides : Acted(sock[x], sock'[x])
  <2>1. CASE \E s \in Sides : PeerSends(s)
    BY <1>3, <2>1
  <2>2. CASE \E s \in Sides : PeerFinishes(s) \/ PeerReads(s) \/ PeerResetsConnection(s)
    BY <1>4, <1>5, <1>8, <2>2
  <2>3. CASE DohServerSends
    BY <1>3, <2>3, SidesFacts
  <2>. QED BY <1>6, <2>1, <2>2, <2>3 DEF Environment
<1>. QED BY <1>1, <1>7

\* What happens outside of the proxy keeps the invariant
LEMMA EnvironmentR ==
  ASSUME IInv, RInv, Environment
  PROVE  RInv'
BY EnvironmentActs, ElsewhereR

\* An accepted connection satisfies the invariant
LEMMA InitR == Init => RInv
<1> SUFFICES ASSUME Init PROVE RInv
  OBVIOUS
<1>1. /\ \A s \in Sides : buffer[s] = EmptyQueue
      /\ \A s \in Sides : ~sock[s].shut
      /\ status.client = "ACTIVE"
      /\ state = "PARSING_REQUEST_LINE" /\ live = TRUE /\ hung = FALSE
      /\ interest = Watch({"READ"}, {})
      /\ Uncounted(metrics)
  BY SidesFacts DEF Init, Socket, Uncounted
<1>2. Running
  BY <1>1 DEF Running, Watched, WithOrigin, Relaying, StatusKnown, Holding
<1>3. NotShut(sock)
  BY <1>1 DEF NotShut
<1>4. Ending /\ EndPassed(buffer, sock)
  BY <1>1, <1>3, NotShutPassesNone DEF Ending
<1>. QED BY <1>1, <1>2, <1>4 DEF RInv, Compacted, HungResolving, Counting, Relaying

\* Every step keeps the invariant
LEMMA NextR == IInv /\ RInv /\ [Next]_vars => RInv'
<1> SUFFICES ASSUME IInv, RInv, [Next]_vars PROVE RInv'
  OBVIOUS
<1>1. CASE \E s \in Sides : ~hung /\ HandleRead(s)
  BY <1>1, HandleReadR
<1>2. CASE \E s \in Sides : ~hung /\ HandleWrite(s)
  BY <1>2, HandleWriteR
<1>3. CASE BecomeIdle
  <2>1. Elsewhere /\ sock' = sock
    BY <1>3 DEF BecomeIdle, Elsewhere
  <2>. QED BY <2>1, ElsewhereR DEF Acted
<1>4. CASE connection_garbage_collect
  BY <1>4, GarbageCollectR
<1>5. CASE Environment
  BY <1>5, EnvironmentR
<1>6. CASE UNCHANGED vars
  <2>1. Elsewhere /\ sock' = sock
    BY <1>6 DEF vars, Elsewhere
  <2>. QED BY <2>1, ElsewhereR DEF Acted
<1>. QED BY <1>1, <1>2, <1>3, <1>4, <1>5, <1>6
         DEF Next, Handlers, Over, proxy_client_read, proxy_origin_read, proxy_client_write,
             proxy_origin_write, Sides

-----------------------------------------------------------------------------
(* The theorems *)

\* What the states of every connection have in common: the selector watches
\* exactly what set_connection_interests, and the on_arrival of each state, make
\* of the buffers and the statuses; an end of file is passed on after the bytes;
\* a connection is counted while it relays.
THEOREM RelayInvariant == Spec => [](IInv /\ RInv)
BY InitR, NextR, InitOK, NextOK, PTL DEF Spec

\* No callback ever asks recv() or send() for nothing: a read of 0 bytes is the
\* end of file that proxy_client_read and proxy_origin_read take it for.
THEOREM TransfersNotEmpty == Spec => []NoEmptyTransfer
<1>1. IInv /\ RInv => NoEmptyTransfer
  BY NoEmptyTransferOK
<1>. QED BY <1>1, RelayInvariant, PTL

\* A connection is never left with both descriptors unwatched: it does not
\* depend on connection_garbage_collect to be taken up again.
THEOREM WaitsForSomething == Spec => []AlwaysWatched
<1>1. IInv /\ RInv => AlwaysWatched
  BY AlwaysWatchedOK
<1>. QED BY <1>1, RelayInvariant, PTL

\* closing.c and empty_buffers.c shut a peer down only after the other has
\* finished and everything it sent was delivered.
THEOREM EndAfterDelivery == Spec => []HalfCloseAfterDelivery
<1>1. IInv /\ RInv => HalfCloseAfterDelivery
  BY SidesFacts DEF RInv, EndPassed, HalfCloseAfterDelivery, Unread
<1>. QED BY <1>1, RelayInvariant, PTL

\* Every path that frees a connection counts it out, so that the gauge of
\* metrics.c never drifts upwards.
THEOREM CountedOut == Spec => []GaugeNeverLeaks
<1>1. IInv /\ RInv => GaugeNeverLeaks
  BY DEF RInv, Counting, Counted, GaugeNeverLeaks
<1>. QED BY <1>1, RelayInvariant, PTL

-----------------------------------------------------------------------------
(* The inductive invariant, on top of IInv and RInv.  s, buf and sk are    *)
(* the state, the buffers and the sockets, before or after a handler.      *)

\* The states with an origin, from the complete request line on
WithRequest == {"TRY_CONNECTION_IP", "SEND_DOH_REQUEST", "AWAIT_DOH_RESPONSE"} \union Relaying

\* The states in which the client is sent what the host sends
WithHost == {"CONNECTED", "CLOSING", "EMPTY_BUFFERS"}

\* What is kept of the client's stream until there is a host to send it to
LeftOver(sk) ==
  IF request.connect THEN <<>> ELSE Bytes("client", RequestLength + 1, sk.client.read)

\* What the host is sent, with what is on its way to it
Upload(s, buf, sk) ==
  sk.origin.got \o ((IF s = "SEND_REQUEST_LINE" THEN buf.origin.bytes ELSE <<>>)
                      \o buf.client.bytes)

\* A tunnel carries an unbroken run of the client's stream
Tunnelled(up, read) == \E first \in 1 .. read + 1 : up = Bytes("client", first, read)

Uploading(s, buf, sk) ==
  /\ sk.origin.peer = "host"
  /\ IF request.connect THEN Tunnelled(Upload(s, buf, sk), sk.client.read)
     ELSE Upload(s, buf, sk) = Message("request") \o LeftOver(sk)

Downloading(buf, sk) ==
  sk.client.got \o buf.origin.bytes =
    (IF request.connect THEN Message("ok") ELSE <<>>) \o Bytes("host", 1, sk.origin.read)

\* What the streams are made of in each state
Flow(s, buf, sk) ==
  /\ s \in BeforeConnected => sk.client.got = <<>>
  /\ s \in WithRequest => sk.client.read >= RequestLength
  /\ s \in WithRequest \ Relaying => buf.client.bytes = LeftOver(sk)
  /\ s \in {"TRY_CONNECTION_IP", "SEND_DOH_REQUEST", "SEND_REQUEST_LINE"} => sk.origin.read = 0
  /\ s = "TRY_CONNECTION_IP" => sk.origin.got = <<>>
  /\ s = "SEND_DOH_REQUEST" => sk.origin.got \o buf.origin.bytes = Message("query")
  /\ s = "AWAIT_DOH_RESPONSE" => sk.origin.got = Message("query")
  /\ s = "SEND_REQUEST_LINE" => ~request.connect
  /\ s \in Relaying => Uploading(s, buf, sk)
  /\ s \in WithHost => Downloading(buf, sk)
  /\ s = "ERROR" => sk.client.got \o buf.origin.bytes = Message("error")

\* Whoever the origin is, it was sent what is meant for it
NoQuery(q) == \A i \in 1 .. Len(q) : q[i].from # "query"

Addressed(sk) ==
  /\ sk.origin.peer = "doh" => sk.origin.got = Bytes("query", 1, Len(sk.origin.got))
  /\ sk.origin.peer = "host" => NoQuery(sk.origin.got)

SInv ==
  /\ live => Flow(state, buffer, sock)
  /\ Addressed(sock)

-----------------------------------------------------------------------------
(* Sequences of bytes *)

\* Concatenation associates
LEMMA Reassociate ==
  ASSUME NEW s \in Seq(Byte), NEW t \in Seq(Byte), NEW u \in Seq(Byte)
  PROVE  (s \o t) \o u = s \o (t \o u)
BY ConcatAssociative

\* Runs that follow one another make one run
LEMMA BytesConcat ==
  ASSUME NEW f \in Sources, NEW a \in Nat, NEW b \in Nat, NEW c \in Nat, a <= b + 1, b <= c
  PROVE  Bytes(f, a, b) \o Bytes(f, b + 1, c) = Bytes(f, a, c)
<1> DEFINE s == Bytes(f, a, b)
<1> DEFINE t == Bytes(f, b + 1, c)
<1> DEFINE u == Bytes(f, a, c)
<1>1. /\ s \in Seq(Byte) /\ Len(s) = (b + 1) - a
      /\ \A i \in 1 .. (b + 1) - a : s[i] = [from |-> f, n |-> a + (i - 1)]
  BY BytesSeq
<1>2. /\ t \in Seq(Byte) /\ Len(t) = (c + 1) - (b + 1)
      /\ \A i \in 1 .. (c + 1) - (b + 1) : t[i] = [from |-> f, n |-> (b + 1) + (i - 1)]
  <2>1. b + 1 \in Nat /\ b + 1 <= c + 1
    OBVIOUS
  <2>. QED BY <2>1, BytesSeq
<1>3. /\ u \in Seq(Byte) /\ Len(u) = (c + 1) - a
      /\ \A i \in 1 .. (c + 1) - a : u[i] = [from |-> f, n |-> a + (i - 1)]
  <2>1. a <= c + 1
    OBVIOUS
  <2>. QED BY <2>1, BytesSeq
<1> HIDE DEF s, t, u
<1>4. /\ s \o t \in Seq(Byte) /\ Len(s \o t) = Len(s) + Len(t)
      /\ \A i \in 1 .. Len(s) + Len(t) :
           (s \o t)[i] = IF i <= Len(s) THEN s[i] ELSE t[i - Len(s)]
  BY <1>1, <1>2, ConcatProperties
<1>5. Len(s \o t) = Len(u)
  BY <1>1, <1>2, <1>3, <1>4
<1>6. ASSUME NEW i \in 1 .. Len(s \o t)
      PROVE  (s \o t)[i] = u[i]
  <2>1. i \in 1 .. (c + 1) - a /\ u[i] = [from |-> f, n |-> a + (i - 1)]
    BY <1>3, <1>5
  <2>2. CASE i <= Len(s)
    <3>1. i \in 1 .. (b + 1) - a
      BY <1>1, <2>2
    <3>. QED BY <1>1, <1>4, <2>1, <2>2, <3>1
  <2>3. CASE ~(i <= Len(s))
    <3> DEFINE j == i - Len(s)
    <3>1. Len(s) = (b + 1) - a /\ i > Len(s) /\ i <= (c + 1) - a /\ i \in Nat
      BY <1>1, <2>1, <2>3
    <3>. HIDE DEF j
    <3>2. j = i - ((b + 1) - a)
      BY <3>1 DEF j
    <3>3. j \in 1 .. (c + 1) - (b + 1) /\ (b + 1) + (j - 1) = a + (i - 1)
      BY <3>1, <3>2
    <3>4. (s \o t)[i] = t[j]
      BY <1>4, <2>3 DEF j
    <3>. QED BY <1>2, <2>1, <3>3, <3>4
  <2>. QED BY <2>2, <2>3
<1>7. s \o t = u
  BY <1>3, <1>4, <1>5, <1>6, SeqEqual
<1>. QED BY <1>7 DEF s, t, u

\* A run that ends before it starts
LEMMA BytesNone ==
  ASSUME NEW f \in Sources, NEW a \in Nat
  PROVE  Bytes(f, a + 1, a) = <<>>
<1>1. Bytes(f, a + 1, a) \in Seq(Byte) /\ Len(Bytes(f, a + 1, a)) = (a + 1) - (a + 1)
  BY BytesSeq
<1>. QED BY <1>1, EmptySeq

\* A sequence without its first n elements
Rest(s, n) == SubSeq(s, n + 1, Len(s))

\* A run without its first bytes
LEMMA BytesRest ==
  ASSUME NEW f \in Sources, NEW a \in Nat, NEW b \in Nat, a <= b + 1,
         NEW n \in Nat, NEW start \in Nat, start = a + n, start <= b + 1
  PROVE  Rest(Bytes(f, a, b), n) = Bytes(f, start, b)
<1> DEFINE s == Bytes(f, a, b)
<1> DEFINE u == Bytes(f, start, b)
<1> DEFINE len == (b + 1) - a
<1>1. s \in Seq(Byte) /\ Len(s) = len /\ \A i \in 1 .. len : s[i] = [from |-> f, n |-> a + (i - 1)]
  BY BytesSeq
<1>2. /\ u \in Seq(Byte) /\ Len(u) = (b + 1) - start
      /\ \A i \in 1 .. (b + 1) - start : u[i] = [from |-> f, n |-> start + (i - 1)]
  BY BytesSeq
<1>3. len \in Nat /\ n <= len /\ (b + 1) - start = len - n
  OBVIOUS
<1> HIDE DEF s, u
<1>4. \A i \in n + 1 .. len : s[i] \in Byte
  BY <1>1, <1>3
<1>5. /\ SubSeq(s, n + 1, len) \in Seq(Byte)
      /\ Len(SubSeq(s, n + 1, len)) = len - n
      /\ \A i \in 1 .. len - (n + 1) + 1 : SubSeq(s, n + 1, len)[i] = s[(n + 1) + i - 1]
  BY <1>3, <1>4, SubSeqProperties
<1>6. ASSUME NEW i \in 1 .. len - n
      PROVE  SubSeq(s, n + 1, len)[i] = u[i]
  <2>1. (n + 1) + i - 1 \in 1 .. len /\ i \in 1 .. len - (n + 1) + 1
    BY <1>3
  <2>2. a + (((n + 1) + i - 1) - 1) = start + (i - 1)
    OBVIOUS
  <2>. QED BY <1>1, <1>2, <1>3, <1>5, <2>1, <2>2
<1>7. SubSeq(s, n + 1, len) = u
  BY <1>2, <1>3, <1>5, <1>6, SeqEqual
<1>. QED BY <1>1, <1>7 DEF Rest, s, u

\* What is sent and what stays are what there was
LEMMA SendKeeps ==
  ASSUME NEW got \in Seq(Byte), NEW q \in QueueOf(Byte), NEW n \in 1 .. Length(q)
  PROVE  /\ (got \o SubSeq(q.bytes, 1, n)) \o ReadAdv(q, n).bytes = got \o q.bytes
         /\ got \o SubSeq(q.bytes, 1, n) \in Seq(Byte)
         /\ ReadAdv(q, n).bytes \in Seq(Byte)
<1> DEFINE b == q.bytes
<1> DEFINE first == SubSeq(b, 1, n)
<1> DEFINE rest == SubSeq(b, n + 1, Len(b))
<1>1. b \in Seq(Byte) /\ Length(q) = Len(b) /\ Len(b) \in Nat /\ n \in 0 .. Len(b)
  BY QueueFields
<1>2. ReadAdv(q, n).bytes = rest
  <2>1. CASE n = Length(q)
    <3>1. SubSeq(b, n + 1, Len(b)) = <<>>
      BY <1>1, <2>1, SubSeqEmpty
    <3>. QED BY <2>1, <3>1 DEF ReadAdv, EmptyQueue
  <2>2. CASE n # Length(q)
    BY <1>1, <2>2 DEF ReadAdv
  <2>. QED BY <2>1, <2>2
<1> HIDE DEF b
<1>3. first \o rest = b
  <2>1. 1 \in 1 .. Len(b) + 1 /\ n \in 1 - 1 .. Len(b) /\ Len(b) \in n .. Len(b)
    BY <1>1
  <2>2. SubSeq(b, 1, n) \o SubSeq(b, n + 1, Len(b)) = SubSeq(b, 1, Len(b))
    BY <1>1, <2>1, ConcatAdjacentSubSeq
  <2>. QED BY <1>1, <2>2, SubSeqFull
<1>4. first \in Seq(Byte) /\ rest \in Seq(Byte)
  BY <1>1, SubSeqProperties
<1> HIDE DEF first, rest
<1>5. (got \o first) \o rest = got \o (first \o rest)
  BY <1>4, Reassociate
<1>6. got \o first \in Seq(Byte)
  BY <1>4, ConcatProperties
<1>7. (got \o first) \o rest = got \o b
  BY <1>3, <1>5
<1>. QED BY <1>2, <1>4, <1>6, <1>7 DEF b, first

\* The first n bytes of a source
LEMMA BytesFromFirst ==
  ASSUME NEW f \in Sources, NEW n \in Nat
  PROVE  /\ Bytes(f, 1, n) \in Seq(Byte) /\ Len(Bytes(f, 1, n)) = n
         /\ \A i \in 1 .. n : Bytes(f, 1, n)[i] = [from |-> f, n |-> i]
<1>1. 1 <= n + 1 /\ (n + 1) - 1 = n /\ \A i \in 1 .. n : 1 + (i - 1) = i
  OBVIOUS
<1>2. /\ Bytes(f, 1, n) \in Seq(Byte) /\ Len(Bytes(f, 1, n)) = (n + 1) - 1
      /\ \A i \in 1 .. (n + 1) - 1 : Bytes(f, 1, n)[i] = [from |-> f, n |-> 1 + (i - 1)]
  BY <1>1, BytesSeq
<1>. QED BY <1>1, <1>2

\* The first part of a query is the beginning of a query
LEMMA QueryBegun ==
  ASSUME NEW got \in Seq(Byte), NEW b \in Seq(Byte), got \o b = Message("query")
  PROVE  got = Bytes("query", 1, Len(got))
<1> DEFINE q == Bytes("query", 1, MessageLength)
<1> DEFINE n == Len(got)
<1> DEFINE p == Bytes("query", 1, n)
<1>1. MessageLength \in Nat /\ n \in Nat /\ Len(b) \in Nat /\ "query" \in Sources
  BY Sizes, LenProperties DEF Sources
<1>2. /\ Len(got \o b) = Len(got) + Len(b)
      /\ \A i \in 1 .. Len(got) + Len(b) : (got \o b)[i] = IF i <= Len(got) THEN got[i] ELSE b[i - Len(got)]
  BY ConcatProperties
<1>3. Len(q) = MessageLength /\ \A i \in 1 .. MessageLength : q[i] = [from |-> "query", n |-> i]
  BY <1>1, BytesFromFirst
<1>4. p \in Seq(Byte) /\ Len(p) = n /\ \A i \in 1 .. n : p[i] = [from |-> "query", n |-> i]
  BY <1>1, BytesFromFirst
<1>5. got \o b = q
  BY DEF Message
<1> HIDE DEF q, p
<1>6. n <= MessageLength
  BY <1>1, <1>2, <1>3, <1>5
<1>7. ASSUME NEW i \in 1 .. n
      PROVE  got[i] = p[i]
  <2>1. (got \o b)[i] = got[i] /\ i \in 1 .. MessageLength
    BY <1>1, <1>2, <1>6
  <2>. QED BY <1>3, <1>4, <1>5, <2>1
<1>8. got = p
  BY <1>4, <1>7, SeqEqual
<1>. QED BY <1>8 DEF p

\* A part of what holds no query holds none
LEMMA NoQueryPart ==
  ASSUME NEW got \in Seq(Byte), NEW b \in Seq(Byte), NoQuery(got \o b)
  PROVE  NoQuery(got)
<1>1. /\ Len(got \o b) = Len(got) + Len(b) /\ Len(got) \in Nat /\ Len(b) \in Nat
      /\ \A i \in 1 .. Len(got) + Len(b) : (got \o b)[i] = IF i <= Len(got) THEN got[i] ELSE b[i - Len(got)]
  BY ConcatProperties, LenProperties
<1>2. ASSUME NEW i \in 1 .. Len(got)
      PROVE  got[i].from # "query"
  <2>1. i \in 1 .. Len(got \o b) /\ (got \o b)[i] = got[i]
    BY <1>1
  <2>. QED BY <2>1 DEF NoQuery
<1>. QED BY <1>2 DEF NoQuery

\* Neither the client's stream nor a request line holds a query
LEMMA NoQueryBytes ==
  ASSUME NEW f \in Sources, f # "query", NEW a \in Nat, NEW b \in Nat, a <= b + 1
  PROVE  NoQuery(Bytes(f, a, b))
<1>1. /\ Len(Bytes(f, a, b)) = (b + 1) - a
      /\ \A i \in 1 .. (b + 1) - a : Bytes(f, a, b)[i] = [from |-> f, n |-> a + (i - 1)]
  BY BytesSeq
<1>2. ASSUME NEW i \in 1 .. (b + 1) - a
      PROVE  Bytes(f, a, b)[i].from = f
  <2>1. Bytes(f, a, b)[i] = [from |-> f, n |-> a + (i - 1)]
    BY <1>1
  <2>. QED BY <2>1
<1>. QED BY <1>1, <1>2 DEF NoQuery

\* Two sequences without a query make one
LEMMA NoQueryConcat ==
  ASSUME NEW s \in Seq(Byte), NEW t \in Seq(Byte), NoQuery(s), NoQuery(t)
  PROVE  NoQuery(s \o t)
<1>1. /\ Len(s \o t) = Len(s) + Len(t) /\ Len(s) \in Nat /\ Len(t) \in Nat
      /\ \A i \in 1 .. Len(s) + Len(t) : (s \o t)[i] = IF i <= Len(s) THEN s[i] ELSE t[i - Len(s)]
  BY ConcatProperties, LenProperties
<1>2. ASSUME NEW i \in 1 .. Len(s \o t)
      PROVE  (s \o t)[i].from # "query"
  <2>1. CASE i <= Len(s)
    BY <1>1, <2>1 DEF NoQuery
  <2>2. CASE ~(i <= Len(s))
    <3>1. i - Len(s) \in 1 .. Len(t) /\ (s \o t)[i] = t[i - Len(s)]
      BY <1>1, <2>2
    <3>. QED BY <3>1 DEF NoQuery
  <2>. QED BY <2>1, <2>2
<1>. QED BY <1>2 DEF NoQuery

-----------------------------------------------------------------------------
(* What entering each state leaves of the streams *)

\* Two ways to see the sockets that say the same of the streams
SameStreams(old, new) ==
  \A s \in Sides :
    new[s].peer = old[s].peer /\ new[s].got = old[s].got /\ new[s].read = old[s].read

\* An end of file, a reset or a shutdown() leaves the streams as they are
LEMMA SameFlow ==
  ASSUME NEW s, NEW buf, NEW old, NEW new, SameStreams(old, new)
  PROVE  /\ Flow(s, buf, old) => Flow(s, buf, new)
         /\ Addressed(old) => Addressed(new)
BY SidesFacts
DEF SameStreams, Flow, LeftOver, Upload, Tunnelled, Uploading, Downloading, Addressed

\* What closing.c and empty_buffers.c shut down leaves the streams as they are
LEMMA DrainedFlow ==
  ASSUME NEW st, NEW buf, NEW sk, ArgsOK(st, buf, sk)
  PROVE  SameStreams(sk, ShutDrained(st, buf, sk))
BY DEF ArgsOK, SocketType, ShutDrained, SameStreams

\* The streams of the next state are all that SInv asks for
LEMMA SInvNext ==
  ASSUME request' = request,
         live' => Flow(state', buffer', sock'),
         Addressed(sock')
  PROVE  SInv'
BY DEF SInv, Flow, LeftOver, Upload, Tunnelled, Uploading, Downloading, Addressed, NoQuery

\* One error message to a client that was sent nothing
LEMMA FailsFlow ==
  ASSUME NEW st, NEW buf \in [Sides -> QueueOf(Byte)], NEW sk, Fails(st, buf, sk),
         sk.client.got = <<>>, Addressed(sk)
  PROVE  Flow(state', buffer', sock') /\ Addressed(sock')
<1> DEFINE message == WriteAdv(EmptyQueue, Message("error"))
<1>1. state' = "ERROR" /\ buffer' = [buf EXCEPT !.origin = message] /\ sock' = sk
  BY DEF Fails, EnterError, Settle
<1>2. Message("error") \in Seq(Byte)
  BY MessageType DEF Sources
<1>3. message.bytes = <<>> \o Message("error")
  BY DEF WriteAdv, EmptyQueue
<1> HIDE DEF message
<1>4. buffer'.origin.bytes = Message("error")
  BY <1>1, <1>2, <1>3, SidesFacts, ConcatEmptySeq
<1>5. sk.client.got \o buffer'.origin.bytes = Message("error")
  BY <1>2, <1>4, ConcatEmptySeq
<1>. QED BY <1>1, <1>5 DEF Flow, BeforeConnected, BeforeSendRequestLine, WithRequest, Relaying,
            WithHost

\* A socket without history, for whichever peer
LEMMA ReopensFlow ==
  ASSUME NEW st, NEW buf, NEW sk \in [Sides -> SocketType], Reopens(st, buf, sk),
         sk.client.got = <<>>, sk.client.read >= RequestLength, buf.client.bytes = LeftOver(sk)
  PROVE  Flow(state', buffer', sock') /\ Addressed(sock')
<1>1. PICK peer \in {"doh", "host"} :
        EnterTryConnectionIp(Activated(st), buf, Reopened(sk, peer))
  BY DEF Reopens
<1>2. state' = "TRY_CONNECTION_IP" /\ buffer' = buf /\ sock' = Reopened(sk, peer)
  BY <1>1 DEF EnterTryConnectionIp, Settle
<1>3. /\ sock'.client = sk.client
      /\ sock'.origin = Socket(peer, "pending")
  BY <1>2, SidesFacts DEF Reopened
<1>4. sock'.origin.read = 0 /\ sock'.origin.got = <<>>
  BY <1>3 DEF Socket
<1>5. Flow(state', buffer', sock')
  BY <1>2, <1>3, <1>4 DEF Flow, LeftOver, Relaying, WithHost
<1>6. Addressed(sock')
  <2>1. <<>> = Bytes("query", 1, 0)
    <3>1. 0 \in Nat /\ 0 + 1 = 1 /\ "query" \in Sources
      BY DEF Sources
    <3>. QED BY <3>1, BytesNone
  <2>. QED BY <1>4, <2>1 DEF Addressed, NoQuery
<1>. QED BY <1>5, <1>6

\* A handler that hangs has moved no byte
LEMMA HangsFlow ==
  ASSUME NEW st, NEW buf, NEW sk, Hangs(st, buf, sk), Flow(state, buf, sk), Addressed(sk)
  PROVE  Flow(state', buffer', sock') /\ Addressed(sock')
BY DEF Hangs, Settle

-----------------------------------------------------------------------------
(* The read handlers *)

\* What arrives are the next bytes of the peer
LEMMA ArrivingIs ==
  ASSUME IInv, NEW s \in Sides, Registered(s), NEW n \in Nat
  PROVE  /\ Arriving(s, n) = Bytes(sock[s].peer, sock[s].read + 1, sock[s].read + n)
         /\ sock[s].peer \in Sources /\ sock[s].read \in Nat /\ sock[s].read + n \in Nat
         /\ sock[s].read <= sock[s].read + n
  BY DEF Arriving, Registered, IInv, PeerKnown, Typed, SocketType, Sides, Sources

\* The request line is complete: what follows it stays in the buffer
LEMMA LineTaken ==
  ASSUME IInv, Registered("client"), NEW n \in Nat, n <= Room(buffer.client),
         buffer.client = EmptyQueue, sock.client.read < RequestLength,
         sock.client.read + n >= RequestLength
  PROVE  LET q == WriteAdv(buffer.client, Arriving("client", n))
             taken == Length(q) - ((sock.client.read + n) - RequestLength) IN
         ReadAdv(q, taken).bytes = Bytes("client", RequestLength + 1, sock.client.read + n)
<1> DEFINE read == sock.client.read
<1> DEFINE b == Bytes("client", read + 1, read + n)
<1> DEFINE q == WriteAdv(buffer.client, Arriving("client", n))
<1> DEFINE taken == Length(q) - ((read + n) - RequestLength)
<1>1. /\ Arriving("client", n) = b /\ "client" \in Sources
      /\ read \in Nat /\ RequestLength \in Nat
  BY ArrivingIs, SidesFacts, ConnectionAssumption DEF IInv, PeerKnown, Sources
<1>2. b \in Seq(Byte) /\ Len(b) = n
  BY <1>1, ArrivingOK, SidesFacts
<1>3. q.bytes = b
  BY <1>1, <1>2, ConcatEmptySeq DEF WriteAdv, EmptyQueue
<1>4. Length(q) = n
  BY <1>2, <1>3 DEF Length
<1> HIDE DEF q, read
<1>5. taken = RequestLength - read /\ taken \in Nat /\ taken <= n
  BY <1>1, <1>4 DEF read
<1>6. Rest(b, taken) = Bytes("client", RequestLength + 1, read + n)
  <2>1. PICK a \in Nat, c \in Nat, start \in Nat :
          a = read + 1 /\ c = read + n /\ start = RequestLength + 1
    BY <1>1
  <2>2. a <= c + 1 /\ start = a + taken /\ start <= c + 1
    BY <1>1, <1>5, <2>1
  <2> HIDE DEF taken
  <2>3. Rest(Bytes("client", a, c), taken) = Bytes("client", start, c)
    BY <1>1, <1>5, <2>2, BytesRest
  <2>. QED BY <2>1, <2>3
<1>7. ReadAdv(q, taken).bytes = Rest(b, taken)
  <2> HIDE DEF b, taken
  <2>1. CASE taken = n
    <3>1. SubSeq(b, taken + 1, n) = <<>>
      BY <1>5, <2>1, SubSeqEmpty
    <3>. QED BY <1>2, <1>4, <2>1, <3>1 DEF ReadAdv, EmptyQueue, Rest
  <2>2. CASE taken # n
    BY <1>2, <1>3, <1>4, <2>2 DEF ReadAdv, Rest
  <2>. QED BY <2>1, <2>2
<1>. QED BY <1>6, <1>7 DEF q, read

\* request_line_parsing_on_read_ready
LEMMA ParsingReadFlow ==
  ASSUME IInv, RInv, SInv, live, ~hung, Registered("client"),
         state = "PARSING_REQUEST_LINE",
         NEW n \in Nat, n > 0, n <= Unread("client"), n <= Room(buffer.client),
         ParsingRead(ReadBuffer("client", n), ReadSock("client", n))
  PROVE  Flow(state', buffer', sock') /\ Addressed(sock')
<1> DEFINE buf == ReadBuffer("client", n)
<1> DEFINE sk == ReadSock("client", n)
<1>1. /\ buf.client = WriteAdv(buffer.client, Arriving("client", n))
      /\ sk.client.read = sock.client.read + n
      /\ sk.client.got = <<>>
      /\ sk.origin.peer = sock.origin.peer /\ sk.origin.got = sock.origin.got
      /\ buffer.client = EmptyQueue /\ sock.client.read < RequestLength
  <2>1. sock.client.got = <<>>
    BY DEF SInv, Flow, BeforeConnected, BeforeSendRequestLine
  <2>2. sk.client.got = sock.client.got
    BY ReadSockIs, SidesFacts
  <2>. QED BY <2>1, <2>2, ReadSockIs, SidesFacts DEF IInv, LineIncomplete
<1>2. ArgsOK(status, buf, sk)
  BY ReadArgsOK, SidesFacts
<1>3. Addressed(sk)
  BY <1>1 DEF SInv, Addressed
<1>4. sock.client.read \in Nat /\ RequestLength \in Nat
  BY SidesFacts, ConnectionAssumption DEF IInv, Typed, SocketType
<1> DEFINE taken == Length(buf.client) - (sk.client.read - RequestLength)
<1> DEFINE line == [buf EXCEPT !.client = ReadAdv(@, taken)]
<1> DEFINE kept == IF request.connect THEN [buf EXCEPT !.client = EmptyQueue] ELSE line
<1>5. CASE sk.client.read < RequestLength
  <2>1. state' = state /\ sock' = sk
    BY <1>1, <1>4, <1>5 DEF ParsingRead, Settle
  <2>. QED BY <1>1, <1>3, <2>1 DEF Flow, WithRequest, Relaying, WithHost
<1>6. CASE sk.client.read >= RequestLength
  <2>1. \/ EnterError("400", status, line, sk)
        \/ \E peer \in {"doh", "host"} : OpenOrigin(peer, status, kept, line, sk)
    BY <1>1, <1>4, <1>6 DEF ParsingRead
  <2>2. line.client = ReadAdv(buf.client, taken)
    BY <1>2, SidesFacts DEF ArgsOK
  <2>3. line.client.bytes = Bytes("client", RequestLength + 1, sk.client.read)
    BY <1>1, <1>6, <2>2, LineTaken
  <2>4. kept.client.bytes = LeftOver(sk)
    <3>1. [buf EXCEPT !.client = EmptyQueue].client.bytes = <<>>
      BY <1>2, SidesFacts DEF ArgsOK, EmptyQueue
    <3>. QED BY <2>3, <3>1 DEF LeftOver
  <2>5. line \in [Sides -> QueueOf(Byte)]
    <3>1. buf.client \in QueueOf(Byte) /\ Length(buf.client) \in Nat
      BY <1>2, SidesFacts, QueueFields DEF ArgsOK
    <3>2. Length(buf.client) = n
      <4>1. Arriving("client", n) \in Seq(Byte) /\ Len(Arriving("client", n)) = n
        BY ArrivingOK, SidesFacts
      <4>2. buf.client.bytes = <<>> \o Arriving("client", n)
        BY <1>1 DEF WriteAdv, EmptyQueue
      <4>. QED BY <4>1, <4>2, ConcatEmptySeq DEF Length
    <3>3. taken \in Nat /\ taken <= Length(buf.client)
      <4> HIDE DEF buf, sk
      <4>. QED BY <1>1, <1>4, <1>6, <3>2
    <3>4. ReadAdv(buf.client, taken) \in QueueOf(Byte)
      <4> HIDE DEF buf, sk, taken
      <4>. QED BY <3>1, <3>3, ReadAdvType
    <3>. QED BY <1>2, <3>4 DEF ArgsOK
  <2>6. sk \in [Sides -> SocketType]
    BY <1>2 DEF ArgsOK
  <2> HIDE DEF buf, sk, line, kept, taken
  <2>7. Reopens(status, kept, sk) \/ Fails(status, line, sk)
    BY <2>1, OpenOriginOutcome DEF Fails
  <2>8. CASE Reopens(status, kept, sk)
    BY <1>1, <1>6, <2>4, <2>6, <2>8, ReopensFlow
  <2>9. CASE Fails(status, line, sk)
    BY <1>1, <1>3, <2>5, <2>9, FailsFlow
  <2>. QED BY <2>7, <2>8, <2>9
<1>. QED BY <1>1, <1>4, <1>5, <1>6

\* await_doh_response_on_read_ready moves nothing of the client's stream
LEMMA AwaitReadFlow ==
  ASSUME NEW st, NEW buf, NEW sk, ArgsOK(st, buf, sk), AwaitDohRead(st, buf, sk),
         state = "AWAIT_DOH_RESPONSE",
         Flow(state, buf, sk), Addressed(sk)
  PROVE  Flow(state', buffer', sock') /\ Addressed(sock')
<1> DEFINE used == Consumed(buf)
<1> DEFINE shut == OriginShut(sk)
<1>1. used \in [Sides -> QueueOf(Byte)] /\ used.client = buf.client
  BY EmptyQueueType, SidesFacts DEF Consumed, ArgsOK
<1>2. SameStreams(sk, shut) /\ shut \in [Sides -> SocketType]
  <2>1. shut \in [Sides -> SocketType]
    BY OriginShutOK DEF OriginShut, ArgsOK
  <2>2. \A s \in Sides : sk[s] \in SocketType /\ sk \in [Sides -> SocketType]
    BY DEF ArgsOK
  <2>3. SameStreams(sk, shut)
    BY <2>2 DEF OriginShut, SameStreams, SocketType
  <2>. QED BY <2>1, <2>3
<1>3. /\ sk.client.got = <<>> /\ sk.client.read >= RequestLength
      /\ buf.client.bytes = LeftOver(sk)
  BY DEF Flow, BeforeConnected, BeforeSendRequestLine, WithRequest, Relaying
<1>4. Flow(state, used, sk)
  BY <1>1 DEF Flow, Relaying, WithHost
<1>5. Flow(state, used, shut) /\ Addressed(shut)
  BY <1>2, <1>4, SameFlow
<1>6. /\ shut.client.got = <<>> /\ shut.client.read >= RequestLength
      /\ used.client.bytes = LeftOver(shut) /\ used.client.bytes = LeftOver(sk)
  BY <1>1, <1>2, <1>3, SidesFacts DEF SameStreams, LeftOver
<1>7. buf \in [Sides -> QueueOf(Byte)] /\ sk \in [Sides -> SocketType]
  BY DEF ArgsOK
<1> HIDE DEF used, shut
<1>8. CASE Fails(st, buf, sk)
  BY <1>3, <1>7, <1>8, FailsFlow
<1>9. CASE Settle(state, interest, st, used, sk)
  BY <1>4, <1>9 DEF Settle
<1>10. ASSUME NEW left \in {sk, shut}, Reopens(st, used, left) \/ Fails(st, used, left)
       PROVE  Flow(state', buffer', sock') /\ Addressed(sock')
  BY <1>1, <1>2, <1>3, <1>5, <1>6, <1>7, <1>10, FailsFlow, ReopensFlow
<1>11. CASE Hangs(st, buf, sk) \/ Hangs(st, used, shut)
  BY <1>5, <1>11, HangsFlow
<1>. QED BY <1>8, <1>9, <1>10, <1>11, AwaitOutcome DEF used, shut

\* What is not a request line on its way is in the client's buffer
LEMMA UploadIs ==
  ASSUME NEW s, s # "SEND_REQUEST_LINE", NEW buf \in [Sides -> QueueOf(Byte)], NEW sk
  PROVE  Upload(s, buf, sk) = sk.origin.got \o buf.client.bytes
<1>1. buf.client.bytes \in Seq(Byte)
  BY QueueFields, SidesFacts
<1>2. <<>> \o buf.client.bytes = buf.client.bytes
  BY <1>1, ConcatEmptySeq
<1>. QED BY <1>2 DEF Upload

\* CONNECTED, CLOSING and EMPTY_BUFFERS relay the same streams
LEMMA SameWithHost ==
  ASSUME NEW s \in WithHost, NEW t \in WithHost, NEW buf, NEW sk, Flow(s, buf, sk)
  PROVE  Flow(t, buf, sk)
<1>1. s \in Relaying /\ t \in Relaying /\ s \in WithRequest /\ t \in WithRequest
  BY DEF WithHost, Relaying, WithRequest
<1>2. s # "SEND_REQUEST_LINE" /\ t # "SEND_REQUEST_LINE" /\ t \notin BeforeConnected
      /\ t # "ERROR"
  BY DEF WithHost, BeforeConnected, BeforeSendRequestLine
<1>3. Uploading(s, buf, sk) /\ Downloading(buf, sk) /\ sk.client.read >= RequestLength
  BY <1>1 DEF Flow
<1>4. Uploading(t, buf, sk)
  BY <1>2, <1>3 DEF Uploading, Upload
<1>. QED BY <1>1, <1>2, <1>3, <1>4 DEF Flow, WithHost, BeforeConnected, BeforeSendRequestLine

\* What a relay needs, and all it says
LEMMA RelayFlow ==
  ASSUME NEW s \in WithHost, NEW buf, NEW sk
  PROVE  Flow(s, buf, sk) <=>
           /\ sk.client.read >= RequestLength
           /\ Uploading(s, buf, sk)
           /\ Downloading(buf, sk)
BY DEF Flow, WithHost, BeforeConnected, BeforeSendRequestLine, WithRequest, Relaying

\* The client's bytes lengthen what goes to the host
LEMMA ClientReadFlow ==
  ASSUME IInv, Registered("client"), state \in WithHost, Flow(state, buffer, sock),
         NEW n \in Nat, n > 0, n <= Unread("client"), n <= Room(buffer.client)
  PROVE  Flow(state, ReadBuffer("client", n), ReadSock("client", n))
<1> DEFINE buf == ReadBuffer("client", n)
<1> DEFINE sk == ReadSock("client", n)
<1> DEFINE got == sock.origin.got
<1> DEFINE b == buffer.client.bytes
<1> DEFINE read == sock.client.read
<1> DEFINE more == Bytes("client", read + 1, read + n)
<1>1. /\ got \in Seq(Byte) /\ b \in Seq(Byte) /\ read \in Nat
      /\ RequestLength \in Nat /\ "client" \in Sources /\ "request" \in Sources
      /\ buffer \in [Sides -> QueueOf(Byte)]
  BY SidesFacts, QueueFields, ConnectionAssumption DEF IInv, Typed, SocketType, Sources
<1>2. /\ sock.origin.peer = "host" /\ read >= RequestLength
      /\ Uploading(state, buffer, sock) /\ Downloading(buffer, sock)
      /\ state # "SEND_REQUEST_LINE"
  BY RelayFlow DEF Uploading, WithHost
<1>3. more = Arriving("client", n) /\ more \in Seq(Byte)
  BY SidesFacts, ArrivingOK DEF Arriving, IInv, PeerKnown
<1>4. /\ buf.client.bytes = b \o more /\ buf.origin = buffer.origin
      /\ sk.client.read = read + n /\ sk.client.got = sock.client.got
      /\ sk.origin.got = got /\ sk.origin.peer = "host" /\ sk.origin.read = sock.origin.read
  <2>1. buf.client = WriteAdv(buffer.client, Arriving("client", n))
    BY ReadSockIs, SidesFacts
  <2>2. buf.client.bytes = b \o Arriving("client", n)
    BY <2>1 DEF WriteAdv
  <2>3. /\ buf.origin = buffer.origin
        /\ sk.client.read = read + n /\ sk.client.got = sock.client.got
        /\ sk.origin.got = got /\ sk.origin.peer = "host" /\ sk.origin.read = sock.origin.read
    BY <1>2, ReadSockIs, SidesFacts
  <2> HIDE DEF more, buf, sk, b
  <2>. QED BY <1>3, <2>2, <2>3
<1>5. buf \in [Sides -> QueueOf(Byte)]
  BY ReadArgsOK, SidesFacts DEF ArgsOK
<1>6. Upload(state, buffer, sock) = got \o b /\ Upload(state, buf, sk) = got \o (b \o more)
  <2>1. Upload(state, buffer, sock) = got \o b
    BY <1>1, <1>2, UploadIs
  <2> HIDE DEF buf, sk, got, b, more
  <2>2. Upload(state, buf, sk) = sk.origin.got \o buf.client.bytes
    BY <1>2, <1>5, UploadIs
  <2>. QED BY <1>4, <2>1, <2>2
<1> HIDE DEF buf, sk, got, b, more
<1>7. (got \o b) \o more = got \o (b \o more)
  BY <1>1, <1>3, Reassociate
<1>8. Uploading(state, buf, sk)
  <2>1. CASE request.connect
    <3>1. PICK first \in 1 .. read + 1 : got \o b = Bytes("client", first, read)
      BY <1>2, <1>6, <2>1 DEF Uploading, Tunnelled
    <3>2. first \in Nat /\ first <= read + 1 /\ read <= read + n /\ read + n \in Nat
          /\ first \in 1 .. (read + n) + 1
      BY <1>1
    <3>3. Bytes("client", first, read) \o more = Bytes("client", first, read + n)
      BY <1>1, <3>2, BytesConcat DEF more
    <3>. QED BY <1>4, <1>6, <1>7, <2>1, <3>1, <3>2, <3>3 DEF Uploading, Tunnelled
  <2>2. CASE ~request.connect
    <3> DEFINE head == Message("request")
    <3> DEFINE tail == Bytes("client", RequestLength + 1, read)
    <3>1. got \o b = head \o tail
      BY <1>2, <1>6, <2>2 DEF Uploading, LeftOver
    <3>2. RequestLength + 1 \in Nat /\ RequestLength + 1 <= read + 1 /\ read <= read + n
          /\ read + n \in Nat
      BY <1>1, <1>2
    <3>3. tail \o more = Bytes("client", RequestLength + 1, read + n)
      BY <1>1, <3>2, BytesConcat DEF more
    <3>4. head \in Seq(Byte) /\ tail \in Seq(Byte)
      BY <1>1, <3>2, BytesSeq, MessageType
    <3> HIDE DEF head, tail
    <3>5. (head \o tail) \o more = head \o (tail \o more)
      BY <1>3, <3>4, Reassociate
    <3>6. Upload(state, buf, sk) = head \o (tail \o more)
      BY <1>6, <1>7, <3>1, <3>5
    <3>. QED BY <1>4, <2>2, <3>3, <3>6 DEF Uploading, LeftOver, head
  <2>. QED BY <2>1, <2>2
<1>9. Downloading(buf, sk)
  BY <1>2, <1>4 DEF Downloading
<1>10. sk.client.read >= RequestLength
  <2> HIDE DEF read
  <2>. QED BY <1>1, <1>2, <1>4
<1>. QED BY <1>8, <1>9, <1>10, RelayFlow DEF buf, sk

\* The host's bytes lengthen what goes to the client
LEMMA HostReadFlow ==
  ASSUME IInv, Registered("origin"), state \in WithHost, Flow(state, buffer, sock),
         NEW n \in Nat, n > 0, n <= Unread("origin"), n <= Room(buffer.origin)
  PROVE  Flow(state, ReadBuffer("origin", n), ReadSock("origin", n))
<1> DEFINE buf == ReadBuffer("origin", n)
<1> DEFINE sk == ReadSock("origin", n)
<1> DEFINE got == sock.client.got
<1> DEFINE b == buffer.origin.bytes
<1> DEFINE read == sock.origin.read
<1> DEFINE more == Bytes("host", read + 1, read + n)
<1> DEFINE head == IF request.connect THEN Message("ok") ELSE <<>>
<1> DEFINE tail == Bytes("host", 1, read)
<1>1. /\ got \in Seq(Byte) /\ b \in Seq(Byte) /\ read \in Nat
      /\ "host" \in Sources /\ "ok" \in Sources
      /\ buffer \in [Sides -> QueueOf(Byte)]
  BY SidesFacts, QueueFields DEF IInv, Typed, SocketType, Sources
<1>2. /\ sock.origin.peer = "host" /\ sock.client.read >= RequestLength
      /\ Uploading(state, buffer, sock) /\ Downloading(buffer, sock)
      /\ state # "SEND_REQUEST_LINE"
  BY RelayFlow DEF Uploading, WithHost
<1>3. more = Arriving("origin", n) /\ more \in Seq(Byte)
  BY <1>2, SidesFacts, ArrivingOK DEF Arriving
<1>4. /\ buf.origin.bytes = b \o more /\ buf.client = buffer.client
      /\ sk.client.read = sock.client.read /\ sk.client.got = got
      /\ sk.origin.got = sock.origin.got /\ sk.origin.peer = "host" /\ sk.origin.read = read + n
  <2>1. buf.origin = WriteAdv(buffer.origin, Arriving("origin", n))
    BY ReadSockIs, SidesFacts
  <2>2. buf.origin.bytes = b \o Arriving("origin", n)
    BY <2>1 DEF WriteAdv
  <2>3. /\ buf.client = buffer.client
        /\ sk.client.read = sock.client.read /\ sk.client.got = got
        /\ sk.origin.got = sock.origin.got /\ sk.origin.peer = "host" /\ sk.origin.read = read + n
    BY <1>2, ReadSockIs, SidesFacts
  <2> HIDE DEF more, buf, sk, b
  <2>. QED BY <1>3, <2>2, <2>3
<1>5. 1 <= read + 1 /\ read <= read + n /\ read + n \in Nat /\ head \in Seq(Byte)
  BY <1>1, MessageType
<1>6. tail \in Seq(Byte) /\ tail \o more = Bytes("host", 1, read + n)
  BY <1>1, <1>5, BytesSeq, BytesConcat
<1>7. got \o b = head \o tail
  BY <1>2 DEF Downloading
<1> HIDE DEF buf, sk, got, b, more, head, tail
<1>8. (got \o b) \o more = got \o (b \o more)
  BY <1>1, <1>3, Reassociate
<1>9. (head \o tail) \o more = head \o (tail \o more)
  BY <1>3, <1>5, <1>6, Reassociate
<1>10. Downloading(buf, sk)
  <2>1. sk.client.got \o buf.origin.bytes = head \o (tail \o more)
    BY <1>4, <1>7, <1>8, <1>9
  <2>. QED BY <1>4, <1>6, <2>1 DEF Downloading, head
<1>11. Uploading(state, buf, sk)
  BY <1>2, <1>4 DEF Uploading, Upload, LeftOver
<1>. QED BY <1>2, <1>4, <1>10, <1>11, RelayFlow DEF buf, sk

\* A read handler of a relay leaves the streams as the callback did
LEMMA RelaySettles ==
  ASSUME NEW st, NEW buf, NEW sk, ArgsOK(st, buf, sk), NEW s \in WithHost,
         Flow(s, buf, sk), Addressed(sk),
         \/ SettleConnected(st, buf, sk)
         \/ SettleClosing(st, buf, sk)
         \/ SettleEmptyBuffers(st, buf, sk)
  PROVE  Flow(state', buffer', sock') /\ Addressed(sock')
<1> DEFINE drained == ShutDrained(st, buf, sk)
<1>1. Flow("CONNECTED", buf, sk) /\ Flow("CLOSING", buf, sk) /\ Flow("EMPTY_BUFFERS", buf, sk)
  BY SameWithHost DEF WithHost
<1>2. SameStreams(sk, drained)
  BY DrainedFlow
<1> HIDE DEF drained
<1>3. Flow("CLOSING", buf, drained) /\ Flow("EMPTY_BUFFERS", buf, drained) /\ Addressed(drained)
  BY <1>1, <1>2, SameFlow
<1>4. CASE SettleConnected(st, buf, sk)
  BY <1>1, <1>4 DEF SettleConnected, Settle
<1>5. CASE SettleClosing(st, buf, sk)
  BY <1>3, <1>5 DEF SettleClosing, Settle, drained
<1>6. CASE SettleEmptyBuffers(st, buf, sk)
  BY <1>3, <1>6 DEF SettleEmptyBuffers, Settle, drained
<1>. QED BY <1>4, <1>5, <1>6

\* A connection that is closed has moved no byte
LEMMA CloseS ==
  ASSUME SInv, request' = request, live' = FALSE,
         sock' = sock \/ SameStreams(sock, sock')
  PROVE  SInv'
<1>1. Addressed(sock')
  BY SameFlow DEF SInv
<1>. QED BY <1>1, SInvNext

\* What is read changes no peer's share of what was sent
LEMMA ReadAddressed ==
  ASSUME IInv, SInv, NEW s \in Sides, NEW n \in Nat
  PROVE  Addressed(ReadSock(s, n))
BY ReadSockIs, SidesFacts DEF SInv, Addressed

\* The response that arrives is no part of a stream
LEMMA ResponseReadFlow ==
  ASSUME IInv, state = "AWAIT_DOH_RESPONSE", Flow(state, buffer, sock), NEW n \in Nat
  PROVE  Flow(state, ReadBuffer("origin", n), ReadSock("origin", n))
<1> DEFINE buf == ReadBuffer("origin", n)
<1> DEFINE sk == ReadSock("origin", n)
<1>1. /\ buf.client = buffer.client
      /\ sk.client.read = sock.client.read /\ sk.client.got = sock.client.got
      /\ sk.origin.got = sock.origin.got
  BY ReadSockIs, SidesFacts
<1> HIDE DEF buf, sk
<1>2. Flow(state, buf, sk)
  BY <1>1 DEF Flow, LeftOver, BeforeConnected, BeforeSendRequestLine, WithRequest, Relaying,
              WithHost
<1>. QED BY <1>2 DEF buf, sk

\* closing_on_read_ready, whoever has finished
LEMMA ClosingReadFlow ==
  ASSUME NEW st, NEW buf, NEW sk, NEW s \in Sides, ArgsOK(st, buf, sk),
         SInv, request' = request, state = "CLOSING",
         Flow(state, buf, sk), Addressed(sk),
         ClosingRead(s, st, buf, sk)
  PROVE  SInv'
<1>1. CASE SettleClosing(st, buf, sk) \/ SettleEmptyBuffers(st, buf, sk)
  <2>1. Flow(state', buffer', sock') /\ Addressed(sock')
    BY <1>1, RelaySettles DEF WithHost
  <2>. QED BY <2>1, SInvNext
<1>2. CASE EnterDone(st, buf, [sk EXCEPT ![Other(s)].shut = TRUE])
  <2>1. live' = FALSE /\ sock' = [sk EXCEPT ![Other(s)].shut = TRUE]
    BY <1>2 DEF EnterDone, Release
  <2>2. SameStreams(sk, sock')
    BY <2>1, SidesFacts DEF ArgsOK, SocketType, SameStreams
  <2>3. Addressed(sock')
    BY <2>2, SameFlow
  <2>. QED BY <2>1, <2>3, SInvNext
<1>. QED BY <1>1, <1>2 DEF ClosingRead

\* The read handlers of the states, once the callback has stored what arrived
LEMMA StmReadS ==
  ASSUME NEW st, NEW buf, NEW sk, NEW s \in Sides, ArgsOK(st, buf, sk),
         SInv, request' = request,
         state \in {"AWAIT_DOH_RESPONSE", "CONNECTED", "CLOSING"},
         Flow(state, buf, sk), Addressed(sk),
         StmRead(s, st, buf, sk)
  PROVE  SInv'
<1>1. CASE state = "AWAIT_DOH_RESPONSE"
  <2>1. AwaitDohRead(st, buf, sk)
    BY <1>1 DEF StmRead
  <2>2. Flow(state', buffer', sock') /\ Addressed(sock')
    BY <1>1, <2>1, AwaitReadFlow
  <2>. QED BY <2>2, SInvNext
<1>2. CASE state = "CONNECTED"
  <2>1. ConnectedRead(st, buf, sk)
    BY <1>2 DEF StmRead
  <2>2. SettleConnected(st, buf, sk) \/ SettleClosing(st, buf, sk)
    BY <2>1 DEF ConnectedRead
  <2>3. Flow(state', buffer', sock') /\ Addressed(sock')
    BY <1>2, <2>2, RelaySettles DEF WithHost
  <2>. QED BY <2>3, SInvNext
<1>3. CASE state = "CLOSING"
  <2>1. ClosingRead(s, st, buf, sk)
    BY <1>3 DEF StmRead
  <2>. QED BY <1>3, <2>1, ClosingReadFlow
<1>. QED BY <1>1, <1>2, <1>3

\* The read callbacks keep the streams
LEMMA HandleReadS ==
  ASSUME IInv, RInv, SInv, ~hung, NEW s \in Sides, HandleRead(s)
  PROVE  SInv'
<1>1. /\ live /\ Registered(s) /\ "READ" \in interest[s]
      /\ Running /\ Watched = interest /\ state \in States
      /\ state \in HaveReadHandler /\ request' = request
      /\ Flow(state, buffer, sock) /\ Addressed(sock)
  BY ReadEvents DEF RInv, Running, IInv, Typed, DispatchHandled, SInv
<1>2. CASE close_proxy_connection(metrics)
  BY <1>1, <1>2, CloseS DEF close_proxy_connection, Release
<1>3. state = "PARSING_REQUEST_LINE" => s = "client"
  BY <1>1, SidesFacts DEF Watched, Watch
<1>4. state = "AWAIT_DOH_RESPONSE" => s = "origin"
  BY <1>1, SidesFacts DEF Watched, Watch
<1>5. ASSUME ~(s = "client" /\ state \in BeforeConnected),
             StmRead(s, EndOf(s), buffer, sock)
      PROVE  SInv'
  <2>1. ArgsOK(EndOf(s), buffer, sock)
    BY <1>1, EndReadR DEF ReadFrom
  <2>2. state \in {"AWAIT_DOH_RESPONSE", "CONNECTED", "CLOSING"}
    BY <1>1, <1>3, <1>5 DEF HaveReadHandler, BeforeConnected, BeforeSendRequestLine
  <2>. QED BY <1>1, <1>5, <2>1, <2>2, StmReadS
<1>6. ASSUME NEW n \in Nat, n > 0, n <= Unread(s), n <= Room(buffer[s]),
             StmRead(s, status, ReadBuffer(s, n), ReadSock(s, n))
      PROVE  SInv'
  <2>1. ArgsOK(status, ReadBuffer(s, n), ReadSock(s, n))
    BY <1>1, <1>6, ReadArgsOK
  <2>2. Addressed(ReadSock(s, n))
    BY ReadAddressed
  <2>3. CASE state = "PARSING_REQUEST_LINE"
    <3>1. ParsingRead(ReadBuffer("client", n), ReadSock("client", n))
      BY <1>3, <1>6, <2>3 DEF StmRead
    <3>2. Flow(state', buffer', sock') /\ Addressed(sock')
      BY <1>1, <1>3, <1>6, <2>3, <3>1, ParsingReadFlow
    <3>. QED BY <1>1, <3>2, SInvNext
  <2>4. CASE state = "AWAIT_DOH_RESPONSE"
    <3>1. Flow(state, ReadBuffer(s, n), ReadSock(s, n))
      BY <1>1, <1>4, <2>4, ResponseReadFlow
    <3>. QED BY <1>1, <1>6, <2>1, <2>2, <2>4, <3>1, StmReadS
  <2>5. CASE state \in {"CONNECTED", "CLOSING"}
    <3>1. Flow(state, ReadBuffer(s, n), ReadSock(s, n))
      <4>1. state \in WithHost
        BY <2>5 DEF WithHost
      <4>2. CASE s = "client"
        BY <1>1, <1>6, <4>1, <4>2, ClientReadFlow
      <4>3. CASE s = "origin"
        BY <1>1, <1>6, <4>1, <4>3, HostReadFlow
      <4>. QED BY <4>2, <4>3, SidesFacts
    <3>. QED BY <1>1, <1>6, <2>1, <2>2, <2>5, <3>1, StmReadS
  <2>. QED BY <1>1, <2>3, <2>4, <2>5 DEF HaveReadHandler
<1>. QED BY <1>2, <1>5, <1>6, ReadEvents DEF EndOf

-----------------------------------------------------------------------------
(* The write handlers *)

\* Nothing on its way to a host is part of a query
LEMMA UploadClean ==
  ASSUME NEW s, NEW buf, NEW sk \in [Sides -> SocketType], sk.client.read >= RequestLength,
         Uploading(s, buf, sk)
  PROVE  NoQuery(Upload(s, buf, sk))
<1> DEFINE read == sk.client.read
<1>1. /\ read \in Nat /\ RequestLength \in Nat /\ RequestLength + 1 <= read + 1
      /\ "client" \in Sources /\ "request" \in Sources /\ RequestLength + 1 \in Nat
  BY SidesFacts, ConnectionAssumption DEF SocketType, Sources
<1>2. CASE request.connect
  <2>1. PICK first \in 1 .. read + 1 : Upload(s, buf, sk) = Bytes("client", first, read)
    BY <1>2 DEF Uploading, Tunnelled
  <2>2. first \in Nat /\ first <= read + 1
    BY <1>1
  <2>. QED BY <1>1, <2>1, <2>2, NoQueryBytes
<1>3. CASE ~request.connect
  <2> DEFINE head == Message("request")
  <2> DEFINE tail == Bytes("client", RequestLength + 1, read)
  <2>1. NoQuery(head) /\ head \in Seq(Byte)
    <3>1. MessageLength \in Nat /\ 1 <= MessageLength + 1
      BY Sizes
    <3>. QED BY <1>1, <3>1, NoQueryBytes, MessageType DEF Message
  <2>2. NoQuery(tail) /\ tail \in Seq(Byte)
    BY <1>1, NoQueryBytes, BytesSeq
  <2>3. Upload(s, buf, sk) = head \o tail
    BY <1>3 DEF Uploading, LeftOver
  <2> HIDE DEF head, tail
  <2>. QED BY <2>1, <2>2, <2>3, NoQueryConcat
<1>. QED BY <1>2, <1>3

\* What a peer has got and what is left for it are what there was
LEMMA SentKeeps ==
  ASSUME IInv, NEW s \in Sides, NEW o \in Sides, NEW n \in 1 .. Length(buffer[o]),
         NEW full \in Fills
  PROVE  /\ WriteSock(s, o, n, full)[s].got \o WriteBuffer(o, n)[o].bytes
              = sock[s].got \o buffer[o].bytes
         /\ WriteSock(s, o, n, full)[s].got \in Seq(Byte)
         /\ WriteBuffer(o, n)[o].bytes \in Seq(Byte)
<1> DEFINE got == sock[s].got
<1> DEFINE q == buffer[o]
<1>1. q \in QueueOf(Byte) /\ got \in Seq(Byte) /\ n \in Nat
  BY QueueFields DEF IInv, Typed, SocketType
<1>2. WriteSock(s, o, n, full)[s].got = got \o SubSeq(q.bytes, 1, n)
  BY DEF WriteSock, IInv, Typed, SocketType
<1>3. WriteBuffer(o, n)[o] = ReadAdv(q, n)
  BY DEF WriteBuffer, IInv, Typed
<1> HIDE DEF got, q
<1>4. /\ (got \o SubSeq(q.bytes, 1, n)) \o ReadAdv(q, n).bytes = got \o q.bytes
      /\ got \o SubSeq(q.bytes, 1, n) \in Seq(Byte)
      /\ ReadAdv(q, n).bytes \in Seq(Byte)
  <2>1. n \in 1 .. Length(q)
    BY DEF q
  <2>. QED BY <1>1, <2>1, SendKeeps
<1>. QED BY <1>2, <1>3, <1>4 DEF got, q

\* The query is sent to the resolver
LEMMA QuerySendFlow ==
  ASSUME IInv, state = "SEND_DOH_REQUEST", Flow(state, buffer, sock), Addressed(sock),
         NEW n \in 1 .. Length(buffer.origin), NEW full \in Fills
  PROVE  /\ Flow(state, WriteBuffer("origin", n), WriteSock("origin", "origin", n, full))
         /\ Addressed(WriteSock("origin", "origin", n, full))
<1> DEFINE buf == WriteBuffer("origin", n)
<1> DEFINE sk == WriteSock("origin", "origin", n, full)
<1> DEFINE q == buffer.origin
<1> DEFINE got == sock.origin.got
<1> DEFINE sent == sk.origin.got
<1> DEFINE rest == buf.origin.bytes
<1>1. q \in QueueOf(Byte) /\ got \in Seq(Byte) /\ Length(q) \in Nat
  BY SidesFacts, QueueFields DEF IInv, Typed, SocketType
<1>2. /\ buf.client = buffer.client
      /\ sk.client.read = sock.client.read /\ sk.client.got = sock.client.got
      /\ sk.origin.read = sock.origin.read /\ sk.origin.peer = sock.origin.peer
  <2>1. n \in Nat
    BY <1>1
  <2>. QED BY <2>1, WriteSockIs, SidesFacts
<1>4. sent \o rest = got \o q.bytes /\ sent \in Seq(Byte) /\ rest \in Seq(Byte)
  <2>1. "origin" \in Sides /\ "client" \in Sides
    BY SidesFacts
  <2>. QED BY <2>1, SentKeeps
<1>5. got \o q.bytes = Message("query") /\ sock.origin.peer = "doh"
  BY DEF Flow, IInv, PeerKnown
<1>6. buf.origin.bytes = rest /\ sk.origin.got = sent
  OBVIOUS
<1> HIDE DEF buf, sk, q, got, sent, rest
<1>7. Flow(state, buf, sk)
  BY <1>2, <1>4, <1>5, <1>6 DEF Flow, LeftOver, Relaying, WithHost, WithRequest, BeforeConnected,
     BeforeSendRequestLine
<1>8. sent = Bytes("query", 1, Len(sent))
  BY <1>4, <1>5, QueryBegun
<1>9. Addressed(sk)
  BY <1>2, <1>5, <1>6, <1>8 DEF Addressed
<1>. QED BY <1>7, <1>9 DEF buf, sk

\* The rewritten request line is sent to the host
LEMMA LineSendFlow ==
  ASSUME IInv, state = "SEND_REQUEST_LINE", Flow(state, buffer, sock), Addressed(sock),
         NEW n \in 1 .. Length(buffer.origin), NEW full \in Fills
  PROVE  /\ Flow(state, WriteBuffer("origin", n), WriteSock("origin", "origin", n, full))
         /\ Addressed(WriteSock("origin", "origin", n, full))
<1> DEFINE buf == WriteBuffer("origin", n)
<1> DEFINE sk == WriteSock("origin", "origin", n, full)
<1> DEFINE q == buffer.origin
<1> DEFINE after == buffer.client.bytes
<1> DEFINE got == sock.origin.got
<1> DEFINE sent == sk.origin.got
<1> DEFINE rest == buf.origin.bytes
<1>1. /\ q \in QueueOf(Byte) /\ got \in Seq(Byte) /\ Length(q) \in Nat /\ after \in Seq(Byte)
      /\ sock \in [Sides -> SocketType]
  BY SidesFacts, QueueFields DEF IInv, Typed, SocketType
<1>2. /\ buf.client = buffer.client
      /\ sk.client.read = sock.client.read /\ sk.client.got = sock.client.got
      /\ sk.origin.read = sock.origin.read /\ sk.origin.peer = sock.origin.peer
  <2>1. n \in Nat
    BY <1>1
  <2>. QED BY <2>1, WriteSockIs, SidesFacts
<1>3. sent \o rest = got \o q.bytes /\ sent \in Seq(Byte) /\ rest \in Seq(Byte)
  <2>1. "origin" \in Sides /\ "client" \in Sides
    BY SidesFacts
  <2>. QED BY <2>1, SentKeeps
<1>4. Uploading(state, buffer, sock) /\ sock.client.read >= RequestLength
  BY DEF Flow, Relaying, WithRequest
<1>5. NoQuery(Upload(state, buffer, sock))
  BY <1>1, <1>4, UploadClean
<1>6. buf.origin.bytes = rest /\ buf.client.bytes = after /\ sk.origin.got = sent
  BY <1>2
<1>7. Upload(state, buffer, sock) = got \o (q.bytes \o after)
  BY DEF Upload
<1> HIDE DEF buf, sk, q, got, sent, rest, after
<1>8. Upload(state, buf, sk) = sent \o (rest \o after)
  BY <1>2, <1>6 DEF Upload
<1>9. Upload(state, buf, sk) = Upload(state, buffer, sock)
  <2> DEFINE b == q.bytes
  <2>1. b \in Seq(Byte)
    BY <1>1, QueueFields
  <2> HIDE DEF b
  <2>2. (sent \o rest) \o after = sent \o (rest \o after)
    BY <1>1, <1>3, Reassociate
  <2>3. (got \o b) \o after = got \o (b \o after)
    BY <1>1, <2>1, Reassociate
  <2>4. sent \o rest = got \o b
    BY <1>3 DEF b
  <2>5. Upload(state, buffer, sock) = got \o (b \o after)
    BY <1>7 DEF b
  <2>. QED BY <1>8, <2>2, <2>3, <2>4, <2>5
<1>10. Uploading(state, buf, sk)
  BY <1>2, <1>4, <1>9 DEF Uploading, LeftOver
<1>11. Flow(state, buf, sk)
  BY <1>2, <1>10 DEF Flow, WithHost, Relaying, WithRequest, BeforeConnected
<1>12. NoQuery(sent)
  <2>1. rest \o after \in Seq(Byte)
    BY <1>1, <1>3, ConcatProperties
  <2> DEFINE tail == rest \o after
  <2> HIDE DEF tail
  <2>2. NoQuery(sent \o tail)
    BY <1>5, <1>8, <1>9 DEF tail
  <2>. QED BY <1>3, <2>1, <2>2, NoQueryPart DEF tail
<1>13. Addressed(sk)
  BY <1>2, <1>4, <1>6, <1>12 DEF Addressed, Uploading
<1>. QED BY <1>11, <1>13 DEF buf, sk

\* What the client sent goes to the host
LEMMA HostSendFlow ==
  ASSUME IInv, state \in WithHost, Flow(state, buffer, sock), Addressed(sock),
         NEW n \in 1 .. Length(buffer.client), NEW full \in Fills
  PROVE  /\ Flow(state, WriteBuffer("client", n), WriteSock("origin", "client", n, full))
         /\ Addressed(WriteSock("origin", "client", n, full))
<1> DEFINE buf == WriteBuffer("client", n)
<1> DEFINE sk == WriteSock("origin", "client", n, full)
<1> DEFINE q == buffer.client
<1> DEFINE got == sock.origin.got
<1> DEFINE sent == sk.origin.got
<1> DEFINE rest == buf.client.bytes
<1>1. /\ q \in QueueOf(Byte) /\ got \in Seq(Byte) /\ Length(q) \in Nat
      /\ buffer \in [Sides -> QueueOf(Byte)] /\ sock \in [Sides -> SocketType]
  BY SidesFacts, QueueFields DEF IInv, Typed, SocketType
<1>2. /\ buf.origin = buffer.origin
      /\ sk.client.read = sock.client.read /\ sk.client.got = sock.client.got
      /\ sk.origin.read = sock.origin.read /\ sk.origin.peer = sock.origin.peer
  <2>1. n \in Nat
    BY <1>1
  <2>. QED BY <2>1, WriteSockIs, SidesFacts
<1>4. sent \o rest = got \o q.bytes /\ sent \in Seq(Byte) /\ rest \in Seq(Byte)
  <2>1. "origin" \in Sides /\ "client" \in Sides
    BY SidesFacts
  <2>. QED BY <2>1, SentKeeps
<1>5. /\ Uploading(state, buffer, sock) /\ Downloading(buffer, sock)
      /\ sock.client.read >= RequestLength /\ state # "SEND_REQUEST_LINE"
  BY RelayFlow DEF WithHost
<1>6. NoQuery(Upload(state, buffer, sock))
  BY <1>1, <1>5, UploadClean
<1>7. buf \in [Sides -> QueueOf(Byte)]
  BY WriteArgsOK, SidesFacts DEF ArgsOK
<1>8. Upload(state, buffer, sock) = got \o q.bytes
  BY <1>1, <1>5, UploadIs
<1>9. buf.client.bytes = rest /\ sk.origin.got = sent
  OBVIOUS
<1> HIDE DEF buf, sk, q, got, sent, rest
<1>10. Upload(state, buf, sk) = sent \o rest
  BY <1>2, <1>5, <1>7, <1>9, UploadIs
<1>11. Uploading(state, buf, sk)
  BY <1>2, <1>4, <1>5, <1>8, <1>10 DEF Uploading, LeftOver
<1>12. Downloading(buf, sk)
  BY <1>2, <1>5 DEF Downloading
<1>13. NoQuery(sent)
  BY <1>4, <1>6, <1>8, NoQueryPart
<1>14. Addressed(sk)
  BY <1>2, <1>5, <1>9, <1>13 DEF Addressed, Uploading
<1>15. Flow(state, buf, sk)
  BY <1>2, <1>5, <1>11, <1>12, RelayFlow
<1>. QED BY <1>14, <1>15 DEF buf, sk

\* What is for the client goes to the client: the host's bytes or an error message
LEMMA ClientSendFlow ==
  ASSUME IInv, state \in WithHost \union {"ERROR"}, Flow(state, buffer, sock), Addressed(sock),
         NEW n \in 1 .. Length(buffer.origin), NEW full \in Fills
  PROVE  /\ Flow(state, WriteBuffer("origin", n), WriteSock("client", "origin", n, full))
         /\ Addressed(WriteSock("client", "origin", n, full))
<1> DEFINE buf == WriteBuffer("origin", n)
<1> DEFINE sk == WriteSock("client", "origin", n, full)
<1> DEFINE q == buffer.origin
<1> DEFINE got == sock.client.got
<1> DEFINE sent == sk.client.got
<1> DEFINE rest == buf.origin.bytes
<1>1. q \in QueueOf(Byte) /\ got \in Seq(Byte) /\ Length(q) \in Nat
  BY SidesFacts, QueueFields DEF IInv, Typed, SocketType
<1>2. /\ buf.client = buffer.client
      /\ sk.client.read = sock.client.read
      /\ sk.origin.read = sock.origin.read /\ sk.origin.peer = sock.origin.peer
      /\ sk.origin.got = sock.origin.got
  <2>1. n \in Nat
    BY <1>1
  <2>. QED BY <2>1, WriteSockIs, SidesFacts
<1>4. sent \o rest = got \o q.bytes
  <2>1. "origin" \in Sides /\ "client" \in Sides
    BY SidesFacts
  <2>. QED BY <2>1, SentKeeps
<1>5. buf.origin.bytes = rest /\ sk.client.got = sent
  OBVIOUS
<1>6. Addressed(sk)
  BY <1>2 DEF Addressed
<1> HIDE DEF buf, sk, sent, rest
<1>7. CASE state = "ERROR"
  <2>1. got \o q.bytes = Message("error")
    BY <1>7 DEF Flow
  <2>2. sk.client.got \o buf.origin.bytes = Message("error")
    BY <1>2, <1>4, <1>5, <2>1
  <2>3. Flow(state, buf, sk)
    BY <1>7, <2>2 DEF Flow, BeforeConnected, BeforeSendRequestLine, WithRequest, Relaying, WithHost
  <2>. QED BY <1>6, <2>3 DEF buf, sk
<1>8. CASE state \in WithHost
  <2>1. /\ Uploading(state, buffer, sock) /\ Downloading(buffer, sock)
        /\ sock.client.read >= RequestLength /\ state # "SEND_REQUEST_LINE"
    BY <1>8, RelayFlow DEF WithHost
  <2>2. sk.client.got \o buf.origin.bytes = got \o q.bytes
    BY <1>2, <1>4, <1>5
  <2>3. Downloading(buf, sk)
    BY <1>2, <2>1, <2>2 DEF Downloading
  <2>4. Uploading(state, buf, sk)
    BY <1>2, <2>1 DEF Uploading, Upload, LeftOver
  <2>5. Flow(state, buf, sk)
    BY <1>2, <1>8, <2>1, <2>3, <2>4, RelayFlow
  <2>. QED BY <1>6, <2>5 DEF buf, sk
<1>. QED BY <1>7, <1>8

\* The resolver was sent the whole query
LEMMA QuerySentFlow ==
  ASSUME NEW buf \in [Sides -> QueueOf(Byte)], NEW sk \in [Sides -> SocketType],
         buf.origin = EmptyQueue, Flow("SEND_DOH_REQUEST", buf, sk)
  PROVE  Flow("AWAIT_DOH_RESPONSE", buf, sk)
<1>1. sk.origin.got \o buf.origin.bytes = Message("query") /\ sk.origin.got \in Seq(Byte)
  BY SidesFacts DEF Flow, SocketType
<1>2. buf.origin.bytes = <<>>
  BY DEF EmptyQueue
<1>3. sk.origin.got = Message("query")
  BY <1>1, <1>2, ConcatEmptySeq
<1>. QED BY <1>3 DEF Flow, BeforeConnected, BeforeSendRequestLine, WithRequest, Relaying, WithHost

\* The host was sent its whole request line
LEMMA LineSentFlow ==
  ASSUME NEW buf \in [Sides -> QueueOf(Byte)], NEW sk \in [Sides -> SocketType],
         buf.origin = EmptyQueue, Flow("SEND_REQUEST_LINE", buf, sk)
  PROVE  Flow("CONNECTED", buf, sk)
<1>1. /\ Uploading("SEND_REQUEST_LINE", buf, sk) /\ sk.client.read >= RequestLength
      /\ sk.client.got = <<>> /\ sk.origin.read = 0 /\ ~request.connect
  BY DEF Flow, Relaying, WithRequest, BeforeConnected
<1>2. buf.origin.bytes = <<>>
  BY DEF EmptyQueue
<1>3. Upload("CONNECTED", buf, sk) = Upload("SEND_REQUEST_LINE", buf, sk)
  BY <1>2 DEF Upload
<1>4. Uploading("CONNECTED", buf, sk)
  BY <1>1, <1>3 DEF Uploading
<1>5. Bytes("host", 1, 0) = <<>>
  <2>1. 0 \in Nat /\ 0 + 1 = 1 /\ "host" \in Sources
    BY DEF Sources
  <2>. QED BY <2>1, BytesNone
<1>6. Downloading(buf, sk)
  BY <1>1, <1>2, <1>5 DEF Downloading
<1>. QED BY <1>1, <1>4, <1>6, RelayFlow DEF WithHost

\* What the write callback has sent, in each state that has something to send
LEMMA SendFlow ==
  ASSUME IInv, state \in States, Watched = interest, NEW s \in Sides, "WRITE" \in interest[s],
         state \notin {"TRY_CONNECTION_IP", "DONE"},
         Flow(state, buffer, sock), Addressed(sock),
         NEW n \in 1 .. Length(buffer[Outgoing(s)]), NEW full \in Fills
  PROVE  /\ Flow(state, WriteBuffer(Outgoing(s), n), WriteSock(s, Outgoing(s), n, full))
         /\ Addressed(WriteSock(s, Outgoing(s), n, full))
<1>1. state \in {"PARSING_REQUEST_LINE", "AWAIT_DOH_RESPONSE"} => FALSE
  BY SidesFacts, WatchedIs DEF Watch
<1>2. CASE state \in {"SEND_DOH_REQUEST", "SEND_REQUEST_LINE"}
  <2>1. s = "origin" /\ Outgoing(s) = "origin"
    BY <1>2, SidesFacts, WatchedIs DEF Watch, Outgoing
  <2>. QED BY <1>2, <2>1, QuerySendFlow, LineSendFlow
<1>3. CASE state = "ERROR"
  <2>1. s = "client" /\ Outgoing(s) = "origin"
    BY <1>3, SidesFacts, WatchedIs DEF Watch, Outgoing
  <2>. QED BY <1>3, <2>1, ClientSendFlow
<1>4. CASE state \in WithHost
  <2>1. Outgoing(s) = Other(s)
    BY <1>4 DEF Outgoing, WithHost
  <2>2. CASE s = "client"
    BY <1>4, <2>1, <2>2, ClientSendFlow, SidesFacts
  <2>3. CASE s = "origin"
    BY <1>4, <2>1, <2>3, HostSendFlow, SidesFacts
  <2>. QED BY <2>2, <2>3, SidesFacts
<1>. QED BY <1>1, <1>2, <1>3, <1>4 DEF States, WithHost

\* The write handlers of the states, once the callback has sent
LEMMA StmWriteS ==
  ASSUME NEW buf, NEW sk, NEW m, ArgsOK(status, buf, sk), Compacted(buf),
         SInv, request' = request,
         Flow(state, buf, sk), Addressed(sk),
         StmWrite(buf, sk, m)
  PROVE  SInv'
<1>1. /\ buf \in [Sides -> QueueOf(Byte)] /\ sk \in [Sides -> SocketType]
      /\ ~CanRead(buf.origin) => buf.origin = EmptyQueue
  BY SidesFacts DEF ArgsOK, Compacted
<1>2. CASE Settle(state, interest, status, buf, sk)
  <2>1. Flow(state', buffer', sock') /\ Addressed(sock')
    BY <1>2 DEF Settle
  <2>. QED BY <2>1, SInvNext
<1>3. CASE state = "SEND_DOH_REQUEST" /\ ~CanRead(buf.origin)
  <2>1. EnterAwaitDohResponse(status, buf, sk)
    BY <1>3 DEF StmWrite
  <2>2. Flow("AWAIT_DOH_RESPONSE", buf, sk)
    BY <1>1, <1>3, QuerySentFlow
  <2>3. Flow(state', buffer', sock') /\ Addressed(sock')
    BY <2>1, <2>2 DEF EnterAwaitDohResponse, Settle
  <2>. QED BY <2>3, SInvNext
<1>4. CASE state = "SEND_REQUEST_LINE" /\ ~CanRead(buf.origin)
  <2>1. SettleConnected(status, buf, sk)
    BY <1>4 DEF StmWrite
  <2>2. Flow("CONNECTED", buf, sk)
    BY <1>1, <1>4, LineSentFlow
  <2>3. Flow(state', buffer', sock') /\ Addressed(sock')
    BY <2>1, <2>2 DEF SettleConnected, Settle
  <2>. QED BY <2>3, SInvNext
<1>5. CASE /\ state \in WithHost
           /\ \/ SettleConnected(status, buf, sk)
              \/ SettleClosing(status, buf, sk)
              \/ SettleEmptyBuffers(status, buf, sk)
  <2>1. Flow(state', buffer', sock') /\ Addressed(sock')
    BY <1>5, RelaySettles
  <2>. QED BY <2>1, SInvNext
<1>6. CASE \E end : EnterDone(end, buf, ShutDrained(status, buf, sk))
  <2>1. live' = FALSE /\ sock' = ShutDrained(status, buf, sk)
    BY <1>6 DEF EnterDone, Release
  <2>2. Addressed(sock')
    BY <2>1, DrainedFlow, SameFlow
  <2>. QED BY <2>1, <2>2, SInvNext
<1>7. CASE EnterDone(status, buf, sk)
  <2>1. live' = FALSE /\ sock' = sk
    BY <1>7 DEF EnterDone, Release
  <2>. QED BY <2>1, SInvNext
<1>8. CASE state = "EMPTY_BUFFERS"
  <2>1. EmptyBuffersWrite(buf, sk, m)
    BY <1>8 DEF StmWrite
  <2>2. \/ EnterDone(CloseDrained(status, buf), buf, ShutDrained(status, buf, sk))
        \/ SettleEmptyBuffers(status, buf, sk)
    BY <2>1 DEF EmptyBuffersWrite
  <2>. QED BY <1>5, <1>6, <1>8, <2>2 DEF WithHost
<1>9. CASE state \in {"CONNECTED", "CLOSING"}
  <2>1. SettleConnected(status, buf, sk) \/ SettleClosing(status, buf, sk)
    BY <1>9 DEF StmWrite
  <2>. QED BY <1>5, <1>9, <2>1 DEF WithHost
<1>10. CASE state \in {"SEND_DOH_REQUEST", "SEND_REQUEST_LINE", "ERROR"}
  <2>1. \/ Settle(state, interest, status, buf, sk)
        \/ state \in {"SEND_DOH_REQUEST", "SEND_REQUEST_LINE"} /\ ~CanRead(buf.origin)
        \/ EnterDone(status, buf, sk)
    BY <1>10 DEF StmWrite
  <2>. QED BY <1>2, <1>3, <1>4, <1>7, <2>1
<1>. QED BY <1>8, <1>9, <1>10 DEF StmWrite

\* The query is composed
LEMMA QueryComposed ==
  ASSUME IInv, Flow("TRY_CONNECTION_IP", buffer, sock), buffer.origin = EmptyQueue
  PROVE  Flow("SEND_DOH_REQUEST", Compose("query", buffer), sock)
<1> DEFINE buf == Compose("query", buffer)
<1>1. /\ buf.client = buffer.client
      /\ buf.origin.bytes = <<>> \o Message("query")
      /\ Message("query") \in Seq(Byte)
  BY SidesFacts, MessageType DEF Compose, WriteAdv, EmptyQueue, IInv, Typed, Sources
<1> HIDE DEF buf
<1>2. buf.origin.bytes = Message("query")
  BY <1>1, ConcatEmptySeq
<1>3. sock.origin.got = <<>>
  BY DEF Flow
<1>4. sock.origin.got \o buf.origin.bytes = Message("query")
  BY <1>1, <1>2, <1>3, ConcatEmptySeq
<1>5. Flow("SEND_DOH_REQUEST", buf, sock)
  BY <1>1, <1>4 DEF Flow, LeftOver, BeforeConnected, BeforeSendRequestLine, WithRequest, Relaying,
                    WithHost
<1>. QED BY <1>5 DEF buf

\* The request line is composed, and what the client sent with it follows it
LEMMA LineComposed ==
  ASSUME IInv, Flow("TRY_CONNECTION_IP", buffer, sock), buffer.origin = EmptyQueue,
         sock.origin.peer = "host", ~request.connect
  PROVE  Flow("SEND_REQUEST_LINE", Compose("request", buffer), sock)
<1> DEFINE buf == Compose("request", buffer)
<1> DEFINE line == Message("request")
<1> DEFINE after == buffer.client.bytes
<1>1. /\ buf.client = buffer.client
      /\ buf.origin.bytes = <<>> \o line
      /\ line \in Seq(Byte) /\ after \in Seq(Byte)
  BY SidesFacts, MessageType, QueueFields DEF Compose, WriteAdv, EmptyQueue, IInv, Typed, Sources
<1>2. /\ sock.origin.got = <<>> /\ after = LeftOver(sock) /\ sock.client.got = <<>>
      /\ sock.client.read >= RequestLength /\ sock.origin.read = 0
  BY DEF Flow, WithRequest, Relaying, BeforeConnected, BeforeSendRequestLine
<1>3. buf.client.bytes = after
  BY <1>1
<1> HIDE DEF buf, line, after
<1>4. buf.origin.bytes = line
  BY <1>1, ConcatEmptySeq
<1>5. line \o after \in Seq(Byte)
  BY <1>1, ConcatProperties
<1>6. Upload("SEND_REQUEST_LINE", buf, sock) = <<>> \o (line \o after)
  BY <1>2, <1>3, <1>4 DEF Upload
<1>7. Upload("SEND_REQUEST_LINE", buf, sock) = line \o after
  <2> DEFINE all == line \o after
  <2> HIDE DEF all
  <2>1. <<>> \o all = all
    BY <1>5, ConcatEmptySeq DEF all
  <2>. QED BY <1>6, <2>1 DEF all
<1>8. Uploading("SEND_REQUEST_LINE", buf, sock)
  BY <1>2, <1>7 DEF Uploading, line
<1>9. Flow("SEND_REQUEST_LINE", buf, sock)
  BY <1>2, <1>8 DEF Flow, WithRequest, Relaying, WithHost
<1>. QED BY <1>9 DEF buf

\* The client is told that its tunnel is there
LEMMA TunnelComposed ==
  ASSUME IInv, Flow("TRY_CONNECTION_IP", buffer, sock),
         sock.origin.peer = "host", request.connect
  PROVE  Flow("CONNECTED", [buffer EXCEPT !.origin = WriteAdv(EmptyQueue, Message("ok"))], sock)
<1> DEFINE buf == [buffer EXCEPT !.origin = WriteAdv(EmptyQueue, Message("ok"))]
<1> DEFINE ok == Message("ok")
<1> DEFINE read == sock.client.read
<1>1. /\ buf.client = buffer.client
      /\ buf.origin.bytes = <<>> \o ok
      /\ ok \in Seq(Byte) /\ read \in Nat
      /\ buf \in [Sides -> QueueOf(Byte)]
  BY SidesFacts, MessageType DEF WriteAdv, EmptyQueue, IInv, Typed, Sources, SocketType
<1>2. /\ sock.origin.got = <<>> /\ buffer.client.bytes = <<>> /\ sock.client.got = <<>>
      /\ read >= RequestLength /\ sock.origin.read = 0
  BY DEF Flow, WithRequest, Relaying, BeforeConnected, BeforeSendRequestLine, LeftOver
<1>3. buf.client.bytes = <<>>
  BY <1>1, <1>2
<1> HIDE DEF buf, ok
<1>4. buf.origin.bytes = ok
  BY <1>1, ConcatEmptySeq
<1>5. Upload("CONNECTED", buf, sock) = <<>>
  <2>1. Upload("CONNECTED", buf, sock) = sock.origin.got \o buf.client.bytes
    BY <1>1, UploadIs
  <2>. QED BY <1>2, <1>3, <2>1
<1>6. Tunnelled(<<>>, read)
  <2>1. Bytes("client", read + 1, read) = <<>>
    BY <1>1, BytesNone DEF Sources
  <2>2. read + 1 \in 1 .. read + 1
    BY <1>1
  <2>. QED BY <2>1, <2>2 DEF Tunnelled
<1>7. Uploading("CONNECTED", buf, sock)
  BY <1>5, <1>6 DEF Uploading
<1>8. Bytes("host", 1, 0) = <<>>
  <2>1. 0 \in Nat /\ 0 + 1 = 1 /\ "host" \in Sources
    BY DEF Sources
  <2>. QED BY <2>1, BytesNone
<1>9. sock.client.got \o buf.origin.bytes = ok /\ ok \o Bytes("host", 1, 0) = ok
  BY <1>1, <1>2, <1>4, <1>8, ConcatEmptySeq
<1>10. Downloading(buf, sock)
  BY <1>2, <1>9 DEF Downloading, ok
<1>. QED BY <1>2, <1>7, <1>10, RelayFlow DEF WithHost, buf, read

\* try_connection_ip_on_write_ready
LEMMA TryConnectionIpWriteS ==
  ASSUME IInv, RInv, SInv, live, ~hung, request' = request,
         state = "TRY_CONNECTION_IP",
         TryConnectionIpWrite
  PROVE  SInv'
<1>1. /\ Flow("TRY_CONNECTION_IP", buffer, sock) /\ Addressed(sock)
      /\ buffer.origin = EmptyQueue /\ origin_fd = "registered"
      /\ sock.origin.peer \in {"doh", "host"}
      /\ sock.origin.peer = "doh" <=> request.host = "domain" /\ ~doh.is_active
      /\ buffer \in [Sides -> QueueOf(Byte)] /\ sock \in [Sides -> SocketType]
  BY DEF SInv, RInv, Running, WithOrigin, IInv, OriginBufferFree, PeerKnown, Typed
<1>2. /\ sock.client.got = <<>> /\ sock.client.read >= RequestLength
      /\ buffer.client.bytes = LeftOver(sock)
  BY <1>1 DEF Flow, BeforeConnected, BeforeSendRequestLine, WithRequest, Relaying
<1>3. CASE EnterSendDohRequest(status, buffer, sock)
  <2>1. Flow(state', buffer', sock') /\ Addressed(sock')
    BY <1>1, <1>3, QueryComposed DEF EnterSendDohRequest, Settle
  <2>. QED BY <2>1, SInvNext
<1>4. CASE /\ ~(request.host = "domain" /\ ~doh.is_active)
           /\ request.connect
           /\ SettleConnected(status,
                [buffer EXCEPT !.origin = WriteAdv(EmptyQueue, Message("ok"))], sock)
  <2>1. Flow(state', buffer', sock') /\ Addressed(sock')
    BY <1>1, <1>4, TunnelComposed DEF SettleConnected, Settle
  <2>. QED BY <2>1, SInvNext
<1>5. CASE /\ ~(request.host = "domain" /\ ~doh.is_active)
           /\ ~request.connect
           /\ EnterSendRequestLine(status, buffer, sock)
  <2>1. Flow(state', buffer', sock') /\ Addressed(sock')
    BY <1>1, <1>5, LineComposed DEF EnterSendRequestLine, Settle
  <2>. QED BY <2>1, SInvNext
<1>6. CASE EnterError("500", status, buffer, sock) \/ Fails(status, buffer, sock)
  <2>1. Fails(status, buffer, sock)
    BY <1>6 DEF Fails
  <2>2. Flow(state', buffer', sock') /\ Addressed(sock')
    BY <1>1, <1>2, <2>1, FailsFlow
  <2>. QED BY <2>2, SInvNext
<1>7. CASE Reopens(status, buffer, sock)
  <2>1. Flow(state', buffer', sock') /\ Addressed(sock')
    BY <1>1, <1>2, <1>7, ReopensFlow
  <2>. QED BY <2>1, SInvNext
<1>8. CASE Hangs(status, buffer, sock)
  <2>1. Flow(state', buffer', sock') /\ Addressed(sock')
    BY <1>1, <1>8, HangsFlow
  <2>. QED BY <2>1, SInvNext
<1>9. CASE try_next_dns_connection(doh, status, buffer, sock)
  BY <1>6, <1>7, <1>8, <1>9, TryNextOutcome
<1>. QED BY <1>3, <1>4, <1>5, <1>6, <1>9 DEF TryConnectionIpWrite

\* The write callbacks keep the streams
LEMMA HandleWriteS ==
  ASSUME IInv, RInv, SInv, ~hung, NEW s \in Sides, HandleWrite(s)
  PROVE  SInv'
<1>1. /\ live /\ "WRITE" \in interest[s]
      /\ Running /\ Watched = interest /\ state \in States /\ state # "DONE"
      /\ request' = request
      /\ Flow(state, buffer, sock) /\ Addressed(sock)
  BY DEF HandleWrite, WriteReady, Registered, RInv, Running, IInv, Typed, SInv
<1>2. CASE state = "TRY_CONNECTION_IP" /\ TryConnectionIpWrite
  BY <1>1, <1>2, TryConnectionIpWriteS
<1>3. CASE close_proxy_connection(metrics)
  BY <1>1, <1>3, CloseS DEF close_proxy_connection, Release
<1>4. CASE /\ ~(s = "origin" /\ state = "TRY_CONNECTION_IP")
           /\ \E n \in 1 .. Length(buffer[Outgoing(s)]), full \in Fills :
                StmWrite(WriteBuffer(Outgoing(s), n), WriteSock(s, Outgoing(s), n, full),
                         Transferred(metrics, s, n))
  <2>1. Outgoing(s) \in Sides
    BY DEF Outgoing, Other, Sides
  <2>2. PICK n \in 1 .. Length(buffer[Outgoing(s)]), full \in Fills :
          StmWrite(WriteBuffer(Outgoing(s), n), WriteSock(s, Outgoing(s), n, full),
                   Transferred(metrics, s, n))
    BY <1>4
  <2>3. state # "TRY_CONNECTION_IP"
    BY <1>1, <1>4, WatchedIs, SidesFacts DEF Watch
  <2> DEFINE buf == WriteBuffer(Outgoing(s), n)
  <2> DEFINE sk == WriteSock(s, Outgoing(s), n, full)
  <2> DEFINE m == Transferred(metrics, s, n)
  <2>4. Flow(state, buf, sk) /\ Addressed(sk)
    BY <1>1, <2>3, SendFlow
  <2>5. ArgsOK(status, buf, sk) /\ Compacted(buf)
    BY <1>1, <2>1, DataSentR DEF WrittenTo
  <2>6. StmWrite(buf, sk, m)
    BY <2>2
  <2> HIDE DEF buf, sk, m
  <2>. QED BY <1>1, <2>4, <2>5, <2>6, StmWriteS
<1>. QED BY <1>2, <1>3, <1>4 DEF HandleWrite, WriteBuffer, WriteSock

-----------------------------------------------------------------------------
(* The theorems *)

\* The peers and time leave the streams alone
LEMMA ElsewhereS ==
  ASSUME SInv, Elsewhere, request' = request, SameStreams(sock, sock')
  PROVE  SInv'
<1>1. state' = state /\ buffer' = buffer /\ live' = live
  BY DEF Elsewhere
<1>2. Addressed(sock') /\ (live => Flow(state, buffer, sock'))
  BY SameFlow DEF SInv
<1>. QED BY <1>1, <1>2, SInvNext

\* An accepted connection has moved no byte
LEMMA InitS == Init => SInv
<1> SUFFICES ASSUME Init PROVE SInv
  OBVIOUS
<1>1. /\ state = "PARSING_REQUEST_LINE" /\ sock.client.got = <<>>
      /\ sock.origin.peer = "none"
  BY SidesFacts DEF Init, Socket
<1>. QED BY <1>1 DEF SInv, Flow, Addressed, WithRequest, Relaying, WithHost

\* Every step keeps the streams
LEMMA NextS == IInv /\ RInv /\ SInv /\ [Next]_vars => SInv'
<1> SUFFICES ASSUME IInv, RInv, SInv, [Next]_vars PROVE SInv'
  OBVIOUS
<1>1. CASE \E s \in Sides : ~hung /\ HandleRead(s)
  BY <1>1, HandleReadS
<1>2. CASE \E s \in Sides : ~hung /\ HandleWrite(s)
  BY <1>2, HandleWriteS
<1>3. CASE BecomeIdle \/ UNCHANGED vars
  <2>1. Elsewhere /\ sock' = sock /\ request' = request
    BY <1>3 DEF BecomeIdle, Elsewhere, vars
  <2>. QED BY <2>1, ElsewhereS DEF SameStreams
<1>4. CASE connection_garbage_collect
  <2>1. sock' = sock /\ request' = request /\ live' = FALSE
    BY <1>4 DEF connection_garbage_collect, close_proxy_connection, Release
  <2>. QED BY <2>1, CloseS
<1>5. CASE Environment
  <2>1. Elsewhere /\ \A s \in Sides : Acted(sock[s], sock'[s])
    BY <1>5, EnvironmentActs
  <2>2. request' = request
    BY <1>5 DEF Environment, PeerSends, PeerFinishes, PeerReads, PeerResetsConnection, DohServerSends,
                ConnectEnds, Unmoved
  <2>. QED BY <2>1, <2>2, ElsewhereS DEF SameStreams, Acted
<1>. QED BY <1>1, <1>2, <1>3, <1>4, <1>5
         DEF Next, Handlers, Over, proxy_client_read, proxy_origin_read, proxy_client_write,
             proxy_origin_write, Sides

\* What is on its way in each state, from the first byte of the request line to
\* the last one of the relay: nothing is lost, repeated, reordered or misdirected
\* between the socket it was read from and the one it is sent to.
THEOREM StreamInvariant == Spec => [](IInv /\ RInv /\ SInv)
BY InitR, NextR, InitOK, NextOK, InitS, NextS, PTL DEF Spec

\* An unbroken run that ends at the last byte read is as long as it is
LEMMA TunnelStarts ==
  ASSUME NEW up, NEW read \in Nat, Tunnelled(up, read)
  PROVE  up = Bytes("client", read + 1 - Len(up), read)
<1>1. PICK first \in 1 .. read + 1 : up = Bytes("client", first, read)
  BY DEF Tunnelled
<1>2. first \in Nat /\ first <= read + 1 /\ "client" \in Sources
  BY DEF Sources
<1>3. Len(up) = (read + 1) - first
  BY <1>1, <1>2, BytesSeq
<1>4. read + 1 - Len(up) = first
  BY <1>2, <1>3
<1>. QED BY <1>1, <1>4

\* The three promises that the invariant keeps
LEMMA StreamsOK ==
  ASSUME IInv, RInv, SInv
  PROVE  UploadIntact /\ DownloadIntact /\ ResolverIsolated
<1>1. state \in States /\ sock.client.read \in Nat
  BY SidesFacts DEF IInv, Typed, SocketType
<1>2. live => state # "DONE"
  BY DEF RInv, Running, HungResolving
<1>3. UploadIntact
  <2> SUFFICES ASSUME live, state \in Relaying
               PROVE  LET upload == sock.origin.got \o ToOrigin IN
                      /\ sock.origin.peer = "host"
                      /\ IF request.connect
                           THEN upload = Bytes("client", sock.client.read + 1 - Len(upload),
                                               sock.client.read)
                           ELSE upload = Message("request")
                                           \o Bytes("client", RequestLength + 1, sock.client.read)
    BY DEF UploadIntact
  <2> DEFINE upload == sock.origin.got \o ToOrigin
  <2>1. Uploading(state, buffer, sock)
    BY DEF SInv, Flow
  <2>2. Upload(state, buffer, sock) = upload
    BY DEF Upload, ToOrigin
  <2> HIDE DEF upload
  <2>3. /\ sock.origin.peer = "host"
        /\ IF request.connect
             THEN upload = Bytes("client", sock.client.read + 1 - Len(upload), sock.client.read)
             ELSE upload = Message("request")
                             \o Bytes("client", RequestLength + 1, sock.client.read)
    BY <1>1, <2>1, <2>2, TunnelStarts DEF Uploading, LeftOver
  <2>. QED BY <2>3 DEF upload
<1>4. DownloadIntact
  <2>1. CASE ~live
    BY <2>1 DEF DownloadIntact
  <2>2. CASE live /\ state \in WithHost
    <3>1. Downloading(buffer, sock)
      BY <2>2 DEF SInv, Flow
    <3>. QED BY <2>2, <3>1 DEF DownloadIntact, Downloading, WithHost
  <2>3. CASE live /\ state = "ERROR"
    BY <2>3 DEF SInv, Flow, DownloadIntact
  <2>4. CASE live /\ state \in BeforeConnected
    <3>1. sock.client.got = <<>>
      BY <2>4 DEF SInv, Flow
    <3>. QED BY <2>4, <3>1 DEF DownloadIntact, BeforeConnected, BeforeSendRequestLine
  <2>. QED BY <1>1, <1>2, <2>1, <2>2, <2>3, <2>4
           DEF States, WithHost, BeforeConnected, BeforeSendRequestLine
<1>5. ResolverIsolated
  BY DEF ResolverIsolated, SInv, Flow, Addressed, NoQuery, IInv, PeerKnown
<1>. QED BY <1>3, <1>4, <1>5

\* What the client sends reaches the host whole and in order, behind the request
\* line that request_line.c rewrote, or from its own tunnel on for CONNECT.
THEOREM UploadArrives == Spec => []UploadIntact
<1>1. IInv /\ RInv /\ SInv => UploadIntact
  BY StreamsOK
<1>. QED BY <1>1, StreamInvariant, PTL

\* What the host sends reaches the client whole and in order, and an error
\* message is all that a client without a host gets.
THEOREM DownloadArrives == Spec => []DownloadIntact
<1>1. IInv /\ RInv /\ SInv => DownloadIntact
  BY StreamsOK
<1>. QED BY <1>1, StreamInvariant, PTL

\* try_connection_ip.c and send_doh_request.c share one origin socket field, and
\* yet a resolver is sent one query and a host none.
THEOREM ResolverKept == Spec => []ResolverIsolated
<1>1. IInv /\ RInv /\ SInv => ResolverIsolated
  BY StreamsOK
<1>. QED BY <1>1, StreamInvariant, PTL

-----------------------------------------------------------------------------
(* The inductive invariant of the lifecycle, on top of IInv and RInv *)

\* The first query is the one for the A records
FirstQuery == ~doh.allocated => doh.current_type = "A"

\* A query is composed between two responses, the second one for AAAA
Asking ==
  state = "SEND_DOH_REQUEST" =>
    ~doh.is_active /\ (doh.allocated => (doh.current_type = "AAAA"))

\* A connection starts without an origin
Unopened == state = "PARSING_REQUEST_LINE" => sock.origin.peer = "none"

LInv == FirstQuery /\ Asking /\ Unopened

\* What TriesAdvance says of one step
Advances ==
  /\ doh.current_type = "AAAA" => doh'.current_type = "AAAA"
  /\ sock.origin.peer = "host" /\ sock'.origin.peer = "host"
       /\ sock.origin.link # "pending" /\ sock'.origin.link = "pending"
       /\ Ancount(doh) < TryModulus
     => doh'.current_try > doh.current_try

\* What every step comes to, while the handlers return
LStep == (Life!Next \/ UNCHANGED Life!life) /\ LInv' /\ Advances

-----------------------------------------------------------------------------
(* What a connection's state is to its lifecycle *)

\* The phase of a connection
LEMMA PhaseIs ==
  /\ ~live => Phase = "FREE"
  /\ live =>
       /\ state = "PARSING_REQUEST_LINE" => Phase = "PARSING"
       /\ state = "TRY_CONNECTION_IP" => Phase = "TRY"
       /\ state = "SEND_DOH_REQUEST" => Phase = "SEND_DOH"
       /\ state = "AWAIT_DOH_RESPONSE" => Phase = "AWAIT"
       /\ state = "SEND_REQUEST_LINE" => Phase = "SEND_LINE"
       /\ state \in {"CONNECTED", "CLOSING", "EMPTY_BUFFERS"} => Phase = "RELAY"
       /\ state = "ERROR" => Phase = "ERROR"
BY DEF Phase

\* The query that is being answered
LEMMA DohPhaseIs ==
  ASSUME live
  PROVE  /\ ~doh.allocated => DohPhase = "none"
         /\ doh.allocated /\ doh.is_active => DohPhase = doh.current_type
         /\ doh.allocated /\ ~doh.is_active => DohPhase = "between"
BY DEF DohPhase

\* A new state of the same resolution
DohAs(d) ==
  /\ doh'.allocated = d.allocated
  /\ doh'.is_active = d.is_active
  /\ doh'.current_type = d.current_type

\* The resolution of which only the answers changed
LEMMA DohPhaseKept ==
  ASSUME live, live', DohAs(doh)
  PROVE  DohPhase' = DohPhase
BY DEF DohPhase, DohAs

\* The origin's socket is the one there was
SameOrigin ==
  /\ sock'.origin.peer = sock.origin.peer
  /\ sock'.origin.link = "pending" => sock.origin.link = "pending"

\* The same query over the same connection
LEMMA QuietL ==
  ASSUME LInv, DohAs(doh), SameOrigin,
         state' \in {"SEND_DOH_REQUEST", "PARSING_REQUEST_LINE"} => state' = state
  PROVE  LInv' /\ Advances
BY DEF LInv, FirstQuery, Asking, Unopened, Advances, DohAs, SameOrigin

\* What every step of a living connection keeps of its lifecycle
Lives ==
  /\ live /\ live'
  /\ request' = request

Attempted(st) == st.origin # "INACTIVE"

\* A step within a phase
LEMMA StaysL ==
  ASSUME LInv, Lives, DohAs(doh), SameOrigin, Phase' = Phase,
         Attempted(status') <=> Attempted(status), origin_fd' = origin_fd,
         state' \in {"SEND_DOH_REQUEST", "PARSING_REQUEST_LINE"} => state' = state
  PROVE  LStep
<1>1. DohPhase' = DohPhase
  BY DohPhaseKept DEF Lives
<1>2. UNCHANGED Life!life
  BY <1>1 DEF Life!life, Lives, Attempted
<1>. QED BY <1>2, QuietL DEF LStep

\* A step to another phase that leaves the rest alone
LEMMA MovesL ==
  ASSUME Lives, DohAs(doh), Attempted(status') <=> Attempted(status), origin_fd' = origin_fd
  PROVE  Life!Move(Phase')
<1>1. DohPhase' = DohPhase
  BY DohPhaseKept DEF Lives
<1>. QED BY <1>1 DEF Life!Move, Lives, Attempted

\* A step to ERROR that leaves the rest alone
LEMMA FailsL ==
  ASSUME Lives, DohAs(doh), Attempted(status') <=> Attempted(status), origin_fd' = origin_fd,
         state' = "ERROR"
  PROVE  Life!Fail
<1>1. DohPhase' = DohPhase
  BY DohPhaseKept DEF Lives
<1>2. Phase' = "ERROR"
  BY PhaseIs DEF Lives, Phase
<1>. QED BY <1>1, <1>2 DEF Life!Fail, Lives, Attempted

\* The release of a connection
LEMMA ReleasesL ==
  ASSUME LInv, IInv', live, state \in States \ {"DONE"}, ~live', DohAs(doh), SameOrigin,
         state' \in {"SEND_DOH_REQUEST", "PARSING_REQUEST_LINE"} => state' = state
  PROVE  LStep
<1>1. origin_fd' # "registered"
  BY DEF IInv, NoOrphanOrigin
<1>2. Phase # "FREE"
  BY PhaseIs DEF States
<1>3. Phase' = "FREE" /\ DohPhase' = "none"
  BY DEF Phase, DohPhase
<1>4. Life!Free'
  BY <1>1, <1>3 DEF Life!Free
<1>. QED BY <1>2, <1>4, QuietL DEF LStep, Life!Next, Life!Release

-----------------------------------------------------------------------------
(* Opening a connection, and the next attempt of a resolution *)

\* register_origin_socket begins an attempt or ends in ERROR
LEMMA RegistersL ==
  ASSUME Lives, NEW peer \in {"doh", "host"}, NEW st, NEW kept, NEW buf, NEW sk,
         st \in [Sides -> Statuses], sk \in [Sides -> SocketType],
         RegisterOrigin(peer, st, kept, buf, sk)
  PROVE  /\ Life!Register(DohPhase')
         /\ \/ state' = "TRY_CONNECTION_IP" /\ sock'.origin.peer = peer
            \/ state' = "ERROR" /\ sock' = sk
<1> DEFINE active == [st EXCEPT !.origin = "ACTIVE"]
<1> DEFINE new == Reopened(sk, peer)
<1>1. Attempted(active)
  BY SidesFacts DEF Attempted
<1>2. new.origin.peer = peer
  BY SidesFacts DEF Reopened, Socket
<1> HIDE DEF active, new
<1>3. CASE /\ origin_fd' = "registered"
           /\ EnterTryConnectionIp(active, kept, new)
  <2>1. state' = "TRY_CONNECTION_IP" /\ status' = active /\ sock' = new
    BY <1>3 DEF EnterTryConnectionIp, Settle
  <2>2. Phase' = "TRY"
    BY <2>1 DEF Phase, Lives
  <2>. QED BY <1>1, <1>2, <1>3, <2>1, <2>2 DEF Life!Register, Lives, Attempted
<1>4. CASE /\ origin_fd' = "unregistered"
           /\ EnterError("500", active, buf, sk)
  <2>1. state' = "ERROR" /\ status' = active /\ sock' = sk
    BY <1>4 DEF EnterError, Settle
  <2>2. Phase' = "ERROR"
    BY <2>1 DEF Phase, Lives
  <2>. QED BY <1>1, <1>4, <2>1, <2>2 DEF Life!Register, Lives, Attempted
<1>. QED BY <1>3, <1>4 DEF RegisterOrigin, active, new, Reopened

\* establish_origin_connection may fail before there is a socket
LEMMA OpensL ==
  ASSUME Lives, NEW peer \in {"doh", "host"}, NEW st, NEW kept, NEW buf, NEW sk,
         st \in [Sides -> Statuses], sk \in [Sides -> SocketType],
         Attempted(st) <=> Attempted(status),
         OpenOrigin(peer, st, kept, buf, sk)
  PROVE  /\ Life!Open(DohPhase')
         /\ \/ state' = "TRY_CONNECTION_IP" /\ sock'.origin.peer = peer
            \/ state' = "ERROR" /\ sock' = sk
<1>1. CASE RegisterOrigin(peer, st, kept, buf, sk)
  BY <1>1, RegistersL DEF Life!Open
<1>2. CASE origin_fd' = "none" /\ EnterError("500", st, buf, sk)
  <2>1. state' = "ERROR" /\ status' = st /\ sock' = sk
    BY <1>2 DEF EnterError, Settle
  <2>2. Phase' = "ERROR"
    BY <2>1 DEF Phase, Lives
  <2>. QED BY <1>2, <2>1, <2>2 DEF Life!Open, Lives, Attempted
<1>. QED BY <1>1, <1>2 DEF OpenOrigin

\* What holds of the lifecycle when try_next_dns_connection is called
ResolvingL(d, st, buf, sk) ==
  /\ TryNextCalled(d, st, buf, sk)
  /\ Lives /\ LInv
  /\ d.allocated = doh.allocated
  /\ d.is_active = doh.is_active
  /\ d.current_type = doh.current_type
  /\ Attempted(st) /\ Attempted(status) /\ origin_fd = "registered"
  /\ state = "AWAIT_DOH_RESPONSE" => sock.origin.peer = "doh"
  /\ state = "TRY_CONNECTION_IP" => d = doh /\ sk = sock

\* The phase of the resolution when it is called
LEMMA ResolvingPhase ==
  ASSUME NEW d, NEW st, NEW buf, NEW sk, ResolvingL(d, st, buf, sk)
  PROVE  /\ d.is_active => DohPhase = d.current_type
         /\ ~d.is_active => DohPhase = "between" /\ d.current_type = "AAAA" /\ Exhausted(d)
         /\ d.current_type \in {"A", "AAAA"}
         /\ d.allocated
BY DohPhaseIs DEF ResolvingL, TryNextCalled, Lives, BetweenQueries, DohType

\* An attempt over another answer
LEMMA CandidateL ==
  ASSUME NEW d, NEW st, NEW buf, NEW sk, ResolvingL(d, st, buf, sk), d.is_active,
         NEW i \in Candidates(d),
         doh' = [d EXCEPT !.current_try = i % TryModulus],
         RegisterOrigin("host", st, buf, buf, sk)
  PROVE  Life!TryNext /\ LInv' /\ Advances
<1>1. /\ d \in DohType /\ ArgsOK(st, buf, sk) /\ Lives /\ d.allocated
      /\ state \in {"AWAIT_DOH_RESPONSE", "TRY_CONNECTION_IP"}
  BY DEF ResolvingL, TryNextCalled
<1>2. /\ doh'.allocated /\ doh'.is_active /\ doh'.current_type = d.current_type
      /\ doh'.current_try = i % TryModulus
  BY <1>1 DEF DohType
<1>3. DohPhase' = DohPhase /\ DohPhase \in Life!Active
  BY <1>1, <1>2, ResolvingPhase DEF DohPhase, Lives, Life!Active
<1>4. /\ Life!Register(DohPhase')
      /\ \/ state' = "TRY_CONNECTION_IP" /\ sock'.origin.peer = "host"
         \/ state' = "ERROR" /\ sock' = sk
  BY <1>1, RegistersL DEF ArgsOK
<1>5. Life!TryNext
  <2>1. Life!Register(DohPhase)
    BY <1>3, <1>4
  <2>. QED BY <1>3, <2>1 DEF Life!TryNext, ResolvingL
<1>6. LInv'
  BY <1>2, <1>4 DEF LInv, FirstQuery, Asking, Unopened
<1>7. Advances
  <2>1. doh.current_type = "AAAA" => doh'.current_type = "AAAA"
    BY <1>2 DEF ResolvingL
  <2>2. ASSUME Ancount(doh) < TryModulus, state = "TRY_CONNECTION_IP"
        PROVE  doh'.current_try > doh.current_try
    <3>1. d = doh /\ i \in Remaining(doh)
      BY <2>2 DEF ResolvingL, Candidates
    <3>2. /\ Ancount(doh) \in Nat /\ doh.current_try \in Nat
          /\ TryModulus \in Nat
      BY <1>1, <3>1, NatDoh, ConnectionAssumption
    <3>3. i \in doh.current_try + 1 .. Ancount(doh)
      BY <2>2, <3>1 DEF Remaining
    <3>4. i \in Nat /\ i < TryModulus /\ i > doh.current_try
      BY <2>2, <3>2, <3>3
    <3>5. i % TryModulus = i
      BY <3>2, <3>4
    <3>. QED BY <1>2, <3>4, <3>5
  <2>3. state = "AWAIT_DOH_RESPONSE" => sock.origin.peer # "host"
    BY DEF ResolvingL
  <2>. QED BY <1>1, <2>1, <2>2, <2>3 DEF Advances
<1>. QED BY <1>5, <1>6, <1>7

\* The query for the AAAA records
LEMMA RetryL ==
  ASSUME NEW d, NEW e \in DohType, NEW st, NEW buf, NEW sk, ResolvingL(d, st, buf, sk),
         e.allocated = d.allocated, e.is_active = d.is_active,
         d.current_type = "A",
         RetryOverIPv6(e, st, buf, sk)
  PROVE  Life!TryNext /\ LInv' /\ Advances
<1>1. /\ ArgsOK(st, buf, sk) /\ Lives
      /\ state \in {"AWAIT_DOH_RESPONSE", "TRY_CONNECTION_IP"}
      /\ Attempted(st) <=> Attempted(status)
  BY DEF ResolvingL, TryNextCalled
<1>2. DohPhase = "A" /\ d.allocated
  BY ResolvingPhase
<1>3. doh'.allocated /\ ~doh'.is_active /\ doh'.current_type = "AAAA"
  BY <1>2 DEF RetryOverIPv6, DohType
<1>4. DohPhase' = "between"
  BY <1>1, <1>3 DEF DohPhase, Lives
<1>5. /\ Life!Open(DohPhase')
      /\ \/ state' = "TRY_CONNECTION_IP" /\ sock'.origin.peer = "doh"
         \/ state' = "ERROR" /\ sock' = sk
  BY <1>1, OpensL DEF RetryOverIPv6, ArgsOK
<1>6. Life!TryNext
  <2>1. Life!Open("between")
    BY <1>4, <1>5
  <2>. QED BY <1>2, <2>1 DEF Life!TryNext, ResolvingL
<1>7. LInv'
  BY <1>3, <1>5 DEF LInv, FirstQuery, Asking, Unopened
<1>8. Advances
  BY <1>1, <1>3, <1>5 DEF Advances, ResolvingL
<1>. QED BY <1>6, <1>7, <1>8

\* No query is left
LEMMA GivesUpL ==
  ASSUME NEW d, NEW e \in DohType, NEW fd \in {"none", "closed"}, NEW st, NEW buf, NEW sk,
         ResolvingL(d, st, buf, sk),
         e.allocated = d.allocated, e.is_active = d.is_active,
         e.current_type = d.current_type, d.current_type # "A",
         GiveUp(e, fd, st, buf, sk)
  PROVE  Life!TryNext /\ LInv' /\ Advances
<1>1. /\ state' = "ERROR" /\ status' = st /\ sock' = sk /\ doh' = e /\ origin_fd' = fd
      /\ Lives /\ DohAs(doh)
      /\ state \in {"AWAIT_DOH_RESPONSE", "TRY_CONNECTION_IP"}
      /\ Attempted(st) /\ Attempted(status)
  BY DEF GiveUp, EnterError, Settle, ResolvingL, TryNextCalled, DohAs
<1>2. DohPhase \in {"AAAA", "between"}
  BY ResolvingPhase
<1>3. DohPhase' = DohPhase
  BY <1>1, DohPhaseKept DEF Lives
<1>4. Phase' = "ERROR"
  BY <1>1 DEF Phase, Lives
<1>5. Life!TryNext
  BY <1>1, <1>2, <1>3, <1>4 DEF Life!TryNext, ResolvingL, Lives, Attempted
<1>6. LInv'
  BY <1>1 DEF LInv, FirstQuery, Asking, Unopened, DohAs, ResolvingL
<1>7. Advances
  BY <1>1 DEF Advances, ResolvingL, DohAs
<1>. QED BY <1>5, <1>6, <1>7

\* try_next_dns_connection, while it returns
LEMMA TryNextL ==
  ASSUME NEW d, NEW st, NEW buf, NEW sk, ResolvingL(d, st, buf, sk),
         try_next_dns_connection(d, st, buf, sk), ~hung'
  PROVE  Life!TryNext /\ LInv' /\ Advances
<1>1. d \in DohType /\ Ancount(d) \in Nat /\ d.current_try \in Nat
  BY NatDoh DEF ResolvingL, TryNextCalled
<1>2. CASE Rcode(d) # 0
  <2>1. CASE d.current_type = "A"
    BY <1>1, <1>2, <2>1, RetryL DEF try_next_dns_connection
  <2>2. CASE d.current_type # "A"
    BY <1>1, <1>2, <2>2, GivesUpL DEF try_next_dns_connection
  <2>. QED BY <2>1, <2>2
<1>3. CASE Rcode(d) = 0
  <2>1. CASE \E i \in Candidates(d) :
               /\ doh' = [d EXCEPT !.current_try = i % TryModulus]
               /\ RegisterOrigin("host", st, buf, buf, sk)
    <3>1. d.is_active
      BY <1>1, <1>3, <2>1, ResolvingPhase, ExhaustedOffersNone DEF Exhausted, LoopEnds
    <3>. QED BY <2>1, <3>1, CandidateL
  <2>2. CASE LET last == [d EXCEPT !.current_try = Ancount(d)]
                 fd == IF Candidates(d) = {} THEN "closed" ELSE "none"
             IN IF d.current_type = "A" THEN RetryOverIPv6(last, st, buf, sk)
                ELSE GiveUp(last, fd, st, buf, sk)
    <3> DEFINE last == [d EXCEPT !.current_try = Ancount(d)]
    <3> DEFINE fd == IF Candidates(d) = {} THEN "closed" ELSE "none"
    <3>1. /\ last \in DohType /\ last.is_active = d.is_active
          /\ last.allocated = d.allocated /\ last.current_type = d.current_type
      BY <1>1 DEF DohType
    <3>2. fd \in {"none", "closed"}
      OBVIOUS
    <3>3. CASE d.current_type = "A"
      <4>1. RetryOverIPv6(last, st, buf, sk)
        BY <2>2, <3>3
      <4> HIDE DEF last
      <4>. QED BY <3>1, <3>3, <4>1, RetryL
    <3>4. CASE d.current_type # "A"
      <4>1. GiveUp(last, fd, st, buf, sk)
        BY <2>2, <3>4
      <4> HIDE DEF last, fd
      <4>. QED BY <3>1, <3>2, <3>4, <4>1, GivesUpL
    <3>. QED BY <3>3, <3>4
  <2>. QED BY <1>3, <2>1, <2>2 DEF try_next_dns_connection, TryNextAnswer
<1>. QED BY <1>2, <1>3

-----------------------------------------------------------------------------
(* The read handlers *)

\* What holds of a read handler called with st, buf and sk
ReadL(st, buf, sk) ==
  /\ ReadCalled(st, buf, sk)
  /\ LInv /\ RInv /\ Running
  /\ live /\ ~hung /\ ~hung' /\ request' = request
  /\ sk.origin.link = sock.origin.link
  /\ Attempted(st) <=> Attempted(status)
  /\ IInv'

\* Where the handlers return, an origin in the selector was attempted
LEMMA AttemptedIs ==
  ASSUME IInv, live, Running, state \in WithOrigin
  PROVE  origin_fd = "registered" /\ Attempted(status)
BY DEF Running, IInv, NoOrphanOrigin, Attempted

\* parsing_host_on_read_ready
LEMMA ParsingL ==
  ASSUME NEW buf, NEW sk, ReadL(status, buf, sk),
         state = "PARSING_REQUEST_LINE",
         ParsingRead(buf, sk),
         UNCHANGED <<doh, live>>
  PROVE  LStep
<1>1. /\ Lives /\ DohAs(doh) /\ LInv
      /\ sk.origin.peer = sock.origin.peer /\ sk.origin.link = sock.origin.link
      /\ status \in [Sides -> Statuses] /\ sk \in [Sides -> SocketType]
      /\ sock.origin.peer = "none"
      /\ doh = NoDoh /\ Phase = "PARSING"
  BY PhaseIs DEF ReadL, ReadCalled, ArgsOK, Lives, DohAs, LInv, Unopened, IInv, ResolutionPhase
<1>2. DohPhase' = "none"
  BY <1>1 DEF DohPhase, NoDoh, DohAs
<1>3. CASE Settle(state, interest, status, [buf EXCEPT !.client = ReadAdv(@, Length(@))], sk)
           /\ UNCHANGED origin_fd
  <2>1. /\ state' = state /\ status' = status /\ sock' = sk
    BY <1>3 DEF Settle
  <2>2. Phase' = Phase
    BY <1>1, <2>1 DEF Phase, Lives
  <2>. QED BY <1>1, <1>3, <2>1, <2>2, StaysL DEF SameOrigin
<1>4. ASSUME NEW line, EnterError("400", status, line, sk), UNCHANGED origin_fd
      PROVE  LStep
  <2>1. state' = "ERROR" /\ status' = status /\ sock' = sk
    BY <1>4 DEF EnterError, Settle
  <2>2. Life!Fail
    BY <1>1, <1>4, <2>1, FailsL
  <2>3. LInv' /\ Advances
    BY <1>1, <2>1, QuietL DEF SameOrigin
  <2>. QED BY <1>1, <2>2, <2>3 DEF LStep, Life!Next, Life!Parse
<1>5. ASSUME NEW peer \in {"doh", "host"}, NEW kept, NEW line,
             OpenOrigin(peer, status, kept, line, sk)
      PROVE  LStep
  <2>1. /\ Life!Open(DohPhase')
        /\ state' \in {"TRY_CONNECTION_IP", "ERROR"}
    BY <1>1, <1>5, OpensL
  <2>2. Life!Open("none")
    BY <1>2, <2>1
  <2>3. LInv' /\ Advances
    BY <1>1, <2>1 DEF LInv, FirstQuery, Asking, Unopened, Advances, DohAs, NoDoh
  <2>. QED BY <1>1, <2>2, <2>3 DEF LStep, Life!Next, Life!Parse
<1>6. CASE OpenOrigin(IF request.host = "domain" THEN "doh" ELSE "host", status,
                      IF request.connect THEN [buf EXCEPT !.client = EmptyQueue]
                      ELSE [buf EXCEPT !.client =
                              ReadAdv(@, Length(buf.client) - (sk.client.read - RequestLength))],
                      [buf EXCEPT !.client =
                         ReadAdv(@, Length(buf.client) - (sk.client.read - RequestLength))], sk)
  <2>. DEFINE peer == IF request.host = "domain" THEN "doh" ELSE "host"
  <2>1. peer \in {"doh", "host"}
    OBVIOUS
  <2>2. PICK kept, line : OpenOrigin(peer, status, kept, line, sk)
    BY <1>6
  <2> HIDE DEF peer
  <2>. QED BY <1>5, <2>1, <2>2
<1>. QED BY <1>3, <1>4, <1>6 DEF ParsingRead

\* A read of AWAIT_DOH_RESPONSE that leaves the query as it is
LEMMA AwaitStaysL ==
  ASSUME NEW st, NEW buf, NEW sk, NEW i, NEW left, ReadL(st, buf, sk),
         state = "AWAIT_DOH_RESPONSE", UNCHANGED <<live, origin_fd>>, DohAs(doh),
         Settle(state, i, st, left, sk)
  PROVE  LStep
<1>1. state' = state /\ status' = st /\ sock' = sk
  BY DEF Settle
<1>2. Lives /\ LInv /\ SameOrigin /\ (Attempted(status') <=> Attempted(status))
  BY <1>1 DEF ReadL, ReadCalled, Lives, SameOrigin
<1>3. Phase' = Phase
  BY <1>1, <1>2 DEF Phase, Lives
<1>. QED BY <1>1, <1>2, <1>3, StaysL

\* One that ends in ERROR
LEMMA AwaitFailsL ==
  ASSUME NEW st, NEW buf, NEW sk, NEW code, ReadL(st, buf, sk),
         state = "AWAIT_DOH_RESPONSE", UNCHANGED <<live, origin_fd>>, DohAs(doh),
         EnterError(code, st, buf, sk)
  PROVE  LStep
<1>1. state' = "ERROR" /\ status' = st /\ sock' = sk
  BY DEF EnterError, Settle
<1>2. Lives /\ LInv /\ SameOrigin /\ (Attempted(status') <=> Attempted(status)) /\ Phase = "AWAIT"
  BY <1>1, PhaseIs DEF ReadL, ReadCalled, Lives, SameOrigin
<1>3. Life!Fail /\ LInv' /\ Advances
  BY <1>1, <1>2, FailsL, QuietL
<1>. QED BY <1>2, <1>3 DEF LStep, Life!Next, Life!Answer

\* The response once fed the first of the units that arrived
LEMMA FedIs ==
  ASSUME doh \in DohType, NEW buf, NEW j
  PROVE  /\ Fed(buf, j).allocated = doh.allocated
         /\ Fed(buf, j).is_active = doh.is_active
         /\ Fed(buf, j).current_type = doh.current_type
         /\ Fed(buf, j).current_try = doh.current_try
BY DEF Fed, DohType

\* await_doh_response_on_read_ready
LEMMA AwaitL ==
  ASSUME NEW st, NEW buf, NEW sk, ReadL(st, buf, sk), AwaitCalled(st, buf, sk),
         AwaitDohRead(st, buf, sk)
  PROVE  LStep
<1> DEFINE arrived == Len(Fresh(buf))
<1>1. /\ state = "AWAIT_DOH_RESPONSE" /\ live' = live /\ Phase = "AWAIT"
      /\ doh \in DohType /\ Lives /\ LInv
      /\ sk.origin.peer = "doh" /\ sock.origin.peer = "doh"
      /\ error # "500" => doh.is_active /\ doh.allocated
      /\ Attempted(st) /\ Attempted(status) /\ origin_fd = "registered"
      /\ Fresh(buf) \in Seq(Unit) /\ arrived \in Nat
      /\ ~hung'
  BY AwaitFacts, FreshUnits, PhaseIs, AttemptedIs
  DEF AwaitCalled, ReadL, ReadCalled, Lives, WithOrigin
<1>2. CASE /\ EnterError("500", st, buf, sk)
           /\ UNCHANGED <<origin_fd, doh>>
  BY <1>1, <1>2, AwaitFailsL DEF DohAs
<1>3. ASSUME NEW stop \in 1 .. arrived, error # "500",
             ResponseEnds(Fed(buf, stop), st, buf, sk)
      PROVE  LStep
  <2> DEFINE d == Fed(buf, stop)
  <2>1. /\ d \in DohType /\ d.allocated = doh.allocated /\ d.is_active = doh.is_active
        /\ d.current_type = doh.current_type
    BY <1>1, <1>3, FedIs, FedOK
  <2> HIDE DEF d
  <2>2. CASE /\ \E code : EnterError(code, st, buf, sk)
             /\ doh' = d /\ UNCHANGED origin_fd
    BY <1>1, <2>1, <2>2, AwaitFailsL DEF DohAs
  <2>3. CASE KeepAwaiting(d, st, Consumed(buf), sk)
    BY <1>1, <2>1, <2>3, AwaitStaysL DEF KeepAwaiting, DohAs
  <2>4. CASE /\ Verdict(d.parsed) = "no_answers" /\ d.current_type = "A"
             /\ RetryOverIPv6(d, st, Consumed(buf), sk)
    <3>1. /\ ArgsOK(st, Consumed(buf), sk)
          /\ Consumed(buf).origin = EmptyQueue
      BY AwaitFacts, ConsumedOK
    <3>2. TryNextCalled(d, st, Consumed(buf), sk)
      BY <1>1, <1>3, <2>1, <3>1, AwaitFacts DEF TryNextCalled, AwaitCalled, ReadCalled
    <3>3. ResolvingL(d, st, Consumed(buf), sk)
      BY <1>1, <2>1, <3>2 DEF ResolvingL
    <3>4. Life!TryNext /\ LInv' /\ Advances
      BY <2>1, <2>4, <3>3, RetryL
    <3>. QED BY <1>1, <3>4 DEF LStep, Life!Next, Life!Answer
  <2>. QED BY <1>3, <2>2, <2>3, <2>4 DEF ResponseEnds, d
<1>4. ASSUME NEW stop \in 1 .. arrived, AnswersNotAllocated(Fed(buf, stop), st, buf, sk)
      PROVE  LStep
  BY <1>1, <1>4, FedIs, AwaitFailsL DEF AnswersNotAllocated, DohAs
<1>5. CASE /\ error # "500"
           /\ try_next_dns_connection(Fed(buf, arrived), st, Consumed(buf), OriginShut(sk))
  <2> DEFINE d == Fed(buf, arrived)
  <2>1. /\ d \in DohType /\ d.allocated = doh.allocated /\ d.is_active = doh.is_active
        /\ d.current_type = doh.current_type
    BY <1>1, FedIs, FedOK
  <2>2. /\ ArgsOK(st, Consumed(buf), sk)
        /\ Consumed(buf).origin = EmptyQueue
    BY AwaitFacts, ConsumedOK
  <2>3. /\ ArgsOK(st, Consumed(buf), OriginShut(sk))
        /\ OriginShut(sk).origin.peer = sk.origin.peer
        /\ OriginShut(sk).origin.sent = sk.origin.sent
    BY <2>2, OriginShutOK DEF OriginShut
  <2>4. Resolving(OriginShut(sk))
    BY <2>3, AwaitFacts DEF Resolving
  <2> HIDE DEF d
  <2>5. TryNextCalled(d, st, Consumed(buf), OriginShut(sk))
    BY <1>1, <1>5, <2>1, <2>2, <2>3, <2>4, AwaitFacts DEF TryNextCalled, AwaitCalled, ReadCalled
  <2>6. ResolvingL(d, st, Consumed(buf), OriginShut(sk))
    BY <1>1, <2>1, <2>5 DEF ResolvingL
  <2>7. Life!TryNext /\ LInv' /\ Advances
    BY <1>1, <1>5, <2>6, TryNextL DEF d
  <2>. QED BY <1>1, <2>7 DEF LStep, Life!Next, Life!Answer
<1>6. CASE KeepAwaiting(Fed(buf, arrived), st, Consumed(buf), sk)
  BY <1>1, <1>6, FedIs, AwaitStaysL DEF KeepAwaiting, DohAs
<1>. QED BY <1>1, <1>2, <1>3, <1>4, <1>5, <1>6 DEF AwaitDohRead, OriginShut

\* The states of a relay, one phase of the lifecycle
RelayStates == {"CONNECTED", "CLOSING", "EMPTY_BUFFERS"}

\* How CONNECTED, CLOSING and EMPTY_BUFFERS are entered, or stayed in
SettlesRelay(st, buf, sk) ==
  \/ SettleConnected(st, buf, sk)
  \/ SettleClosing(st, buf, sk)
  \/ SettleEmptyBuffers(st, buf, sk)

\* What that leaves of the lifecycle
LEMMA RelaySettled ==
  ASSUME NEW st, NEW buf, NEW sk, ArgsOK(st, buf, sk), Attempted(st),
         SettlesRelay(st, buf, sk)
  PROVE  /\ state' \in RelayStates /\ Attempted(status')
         /\ sock'.origin.peer = sk.origin.peer /\ sock'.origin.link = sk.origin.link
<1>1. CASE SettleConnected(st, buf, sk)
  BY <1>1 DEF SettleConnected, Settle, RelayStates
<1>2. CASE /\ status' = CloseDrained(st, buf) /\ sock' = ShutDrained(st, buf, sk)
           /\ state' \in RelayStates
  <2>1. Attempted(CloseDrained(st, buf))
    BY SidesFacts DEF CloseDrained, Attempted
  <2>2. sk.origin \in SocketType
    BY SidesFacts DEF ArgsOK
  <2>3. /\ ShutDrained(st, buf, sk).origin.peer = sk.origin.peer
        /\ ShutDrained(st, buf, sk).origin.link = sk.origin.link
    BY <2>2, SidesFacts DEF ShutDrained, SocketType
  <2>. QED BY <1>2, <2>1, <2>3
<1>3. SettleClosing(st, buf, sk) \/ SettleEmptyBuffers(st, buf, sk) =>
        /\ status' = CloseDrained(st, buf) /\ sock' = ShutDrained(st, buf, sk)
        /\ state' \in RelayStates
  BY DEF SettleClosing, SettleEmptyBuffers, Settle, RelayStates
<1>. QED BY <1>1, <1>2, <1>3 DEF SettlesRelay

\* A step that stays within the relay, or begins it
LEMMA RelaysL ==
  ASSUME NEW st, NEW buf, NEW sk, LInv, Lives, IInv, Running,
         state \in RelayStates \union {"SEND_REQUEST_LINE"},
         ArgsOK(st, buf, sk), Attempted(st),
         sk.origin.peer = sock.origin.peer, sk.origin.link = sock.origin.link,
         SettlesRelay(st, buf, sk), UNCHANGED <<doh, origin_fd>>
  PROVE  LStep
<1>1. /\ state' \in RelayStates /\ Attempted(status')
      /\ SameOrigin /\ DohAs(doh) /\ Attempted(status)
  BY RelaySettled, AttemptedIs DEF SameOrigin, DohAs, Lives, WithOrigin, Relaying, RelayStates
<1>2. Phase' = "RELAY"
  BY <1>1 DEF Phase, Lives, RelayStates
<1>3. LInv' /\ Advances
  BY <1>1, QuietL DEF RelayStates
<1>4. CASE state = "SEND_REQUEST_LINE"
  <2>1. Phase = "SEND_LINE"
    BY <1>4, PhaseIs DEF Lives
  <2>2. Life!Move("RELAY")
    BY <1>1, <1>2, MovesL
  <2>. QED BY <1>3, <2>1, <2>2 DEF LStep, Life!Next, Life!SendLine
<1>5. CASE state \in RelayStates
  <2>1. Phase = "RELAY"
    BY <1>5 DEF Phase, Lives, RelayStates
  <2>2. state' \notin {"SEND_DOH_REQUEST", "PARSING_REQUEST_LINE"}
    BY <1>1 DEF RelayStates
  <2>. QED BY <1>1, <1>2, <2>1, <2>2, StaysL
<1>. QED BY <1>4, <1>5

\* Entering DONE, which releases the connection
LEMMA DoneL ==
  ASSUME NEW st, NEW buf, NEW sk, LInv, IInv', live, state \in States \ {"DONE"},
         sk.origin.peer = sock.origin.peer, sk.origin.link = sock.origin.link,
         EnterDone(st, buf, sk), doh' = doh
  PROVE  LStep
<1>1. ~live' /\ DohAs(doh) /\ SameOrigin /\ state' = "DONE"
  BY DEF EnterDone, Release, DohAs, SameOrigin
<1>. QED BY <1>1, ReleasesL

\* close_proxy_connection
LEMMA ClosesL ==
  ASSUME NEW m, LInv, IInv', live, state \in States \ {"DONE"}, close_proxy_connection(m)
  PROVE  LStep
<1>1. ~live' /\ DohAs(doh) /\ SameOrigin /\ state' = state
  BY DEF close_proxy_connection, Release, DohAs, SameOrigin
<1>. QED BY <1>1, ReleasesL

\* connected_on_read_ready and closing_on_read_ready
LEMMA RelayReadL ==
  ASSUME NEW st, NEW buf, NEW sk, NEW s \in Sides, ReadL(st, buf, sk),
         state \in RelayStates, doh' = doh,
         \/ ConnectedRead(st, buf, sk) /\ UNCHANGED <<live, origin_fd>>
         \/ ClosingRead(s, st, buf, sk)
  PROVE  LStep
<1>1. /\ LInv /\ IInv /\ IInv' /\ Running /\ live /\ request' = request
      /\ ArgsOK(st, buf, sk) /\ Attempted(st) /\ state \in States \ {"DONE"}
      /\ sk.origin.peer = sock.origin.peer /\ sk.origin.link = sock.origin.link
  BY AttemptedIs DEF ReadL, ReadCalled, WithOrigin, Relaying, RelayStates, States
<1>2. CASE SettlesRelay(st, buf, sk) /\ UNCHANGED <<live, origin_fd>>
  <2>1. Lives
    BY <1>1, <1>2 DEF Lives
  <2>. QED BY <1>1, <1>2, <2>1, RelaysL
<1>3. CASE EnterDone(st, buf, [sk EXCEPT ![Other(s)].shut = TRUE])
  <2> DEFINE new == [sk EXCEPT ![Other(s)].shut = TRUE]
  <2>1. sk.origin \in SocketType /\ sk \in [Sides -> SocketType]
    BY <1>1, SidesFacts DEF ArgsOK
  <2>2. new.origin.peer = sk.origin.peer /\ new.origin.link = sk.origin.link
    BY <2>1, SidesFacts DEF SocketType
  <2>3. EnterDone(st, buf, new)
    BY <1>3
  <2> HIDE DEF new
  <2>. QED BY <1>1, <2>2, <2>3, DoneL
<1>. QED BY <1>2, <1>3 DEF ConnectedRead, ClosingRead, SettlesRelay

\* stm_handler_read
LEMMA StmReadL ==
  ASSUME NEW st, NEW buf, NEW sk, NEW s \in Sides, ReadL(st, buf, sk),
         state = "PARSING_REQUEST_LINE" => st = status,
         state = "AWAIT_DOH_RESPONSE" =>
           \A i \in 1 .. Len(buf.origin.bytes) : buf.origin.bytes[i].n \in 1 .. sk.origin.read,
         StmRead(s, st, buf, sk)
  PROVE  LStep
<1>1. CASE /\ state = "PARSING_REQUEST_LINE"
           /\ ParsingRead(buf, sk)
           /\ UNCHANGED <<doh, live>>
  BY <1>1, ParsingL
<1>2. CASE /\ state = "AWAIT_DOH_RESPONSE"
           /\ AwaitDohRead(st, buf, sk)
           /\ UNCHANGED <<metrics, live>>
  BY <1>2, AwaitL DEF AwaitCalled, ReadL
<1>3. CASE /\ state \in RelayStates
           /\ \/ ConnectedRead(st, buf, sk) /\ UNCHANGED <<live, origin_fd>>
              \/ ClosingRead(s, st, buf, sk)
           /\ doh' = doh
  BY <1>3, RelayReadL
<1>. QED BY <1>1, <1>2, <1>3 DEF StmRead, RelayStates

\* proxy_client_read and proxy_origin_read
LEMMA HandleReadL ==
  ASSUME IInv, RInv, LInv, IInv', RInv', ~hung, ~hung', NEW s \in Sides, HandleRead(s)
  PROVE  LStep
<1>1. /\ live /\ Registered(s) /\ hung = FALSE /\ Running
      /\ state \in HaveReadHandler /\ state \in States \ {"DONE"}
      /\ request' = request /\ idle' \in BOOLEAN
  BY DEF RInv, IInv, Typed, DispatchHandled, HandleRead, ReadReady, Registered, HaveReadHandler
<1>2. CASE close_proxy_connection(metrics)
  BY <1>1, <1>2, ClosesL
<1>3. ASSUME Unread(s) = 0, sock[s].fin,
             ~(s = "client" /\ state \in BeforeConnected),
             StmRead(s, EndOf(s), buffer, sock)
      PROVE  LStep
  <2>1. /\ ArgsOK(EndOf(s), buffer, sock)
        /\ Attempted(EndOf(s)) <=> Attempted(status)
    BY <1>1, IInvArgs, SidesFacts DEF ArgsOK, Statuses, EndOf, Attempted, Registered, IInv, NoOrphanOrigin
  <2>2. ReadL(EndOf(s), buffer, sock)
    BY <1>1, <2>1 DEF ReadL, ReadCalled, Attempted
  <2>3. state # "PARSING_REQUEST_LINE"
    <3>1. s = "origin" => state # "PARSING_REQUEST_LINE"
      BY <1>1 DEF Registered, IInv, PeerKnown
    <3>. QED BY <1>3, <3>1, SidesFacts DEF BeforeConnected, BeforeSendRequestLine
  <2>4. state = "AWAIT_DOH_RESPONSE" =>
          \A i \in 1 .. Len(buffer.origin.bytes) : buffer.origin.bytes[i].n \in 1 .. sock.origin.read
    BY DEF IInv, ReplyBuffered
  <2>. QED BY <1>3, <2>2, <2>3, <2>4, StmReadL
<1>4. ASSUME NEW n \in Nat, n > 0, n <= Unread(s), n <= Room(buffer[s]),
             StmRead(s, status, ReadBuffer(s, n), ReadSock(s, n))
      PROVE  LStep
  <2>1. /\ ArgsOK(status, ReadBuffer(s, n), ReadSock(s, n))
        /\ ReadSock(s, n).origin.peer = sock.origin.peer
        /\ ReadSock(s, n).origin.sent = sock.origin.sent
    BY <1>1, <1>4, ReadArgsOK
  <2>2. ReadSock(s, n).origin.link = sock.origin.link
    <3>1. sock.origin \in SocketType /\ sock \in [Sides -> SocketType]
      BY SidesFacts DEF IInv, Typed
    <3>. QED BY <3>1, SidesFacts DEF ReadSock, SocketType
  <2>3. state = "AWAIT_DOH_RESPONSE" =>
          \A i \in 1 .. Len(ReadBuffer(s, n).origin.bytes) :
            ReadBuffer(s, n).origin.bytes[i].n \in 1 .. ReadSock(s, n).origin.read
    BY <1>1, <1>4, ReadUnitsOK
  <2>4. ReadL(status, ReadBuffer(s, n), ReadSock(s, n))
    BY <1>1, <2>1, <2>2 DEF ReadL, ReadCalled
  <2>. QED BY <1>4, <2>3, <2>4, StmReadL
<1>. QED BY <1>2, <1>3, <1>4, ReadEvents DEF EndOf

-----------------------------------------------------------------------------
(* The write handlers *)

\* Connected to whom the phase of the resolution says
LEMMA ConnectsL ==
  ASSUME IInv, Lives, state = "TRY_CONNECTION_IP", origin_fd = "registered",
         DohAs(doh), status' = status, origin_fd' = origin_fd,
         IF request.host = "domain" /\ ~doh.is_active THEN state' = "SEND_DOH_REQUEST"
         ELSE state' \in {"SEND_REQUEST_LINE", "CONNECTED"}
  PROVE  Life!Connected
<1>1. Phase = "TRY"
  BY PhaseIs DEF Lives
<1>2. Life!Move(Phase')
  BY MovesL
<1>3. (live /\ request.host = "domain") /\ DohPhase \notin Life!Active
        <=> request.host = "domain" /\ ~doh.is_active
  BY DEF DohPhase, Life!Active, Lives, IInv, Typed, DohType, ResolutionPhase
<1>4. Phase' = IF request.host = "domain" /\ ~doh.is_active THEN "SEND_DOH"
               ELSE IF state' = "SEND_REQUEST_LINE" THEN "SEND_LINE" ELSE "RELAY"
  BY DEF Phase, Lives
<1>. QED BY <1>1, <1>2, <1>3, <1>4 DEF Life!Connected

\* try_connection_ip_on_write_ready
LEMMA TryConnectionIpWriteL ==
  ASSUME IInv, RInv, LInv, ~hung, ~hung', live, live' = live,
         state = "TRY_CONNECTION_IP", request' = request, idle' \in BOOLEAN,
         TryConnectionIpWrite
  PROVE  LStep
<1>1. /\ Lives /\ ArgsOK(status, buffer, sock) /\ buffer.origin = EmptyQueue
      /\ sock.origin.peer = "doh" <=> request.host = "domain" /\ ~doh.is_active
      /\ BetweenQueries(doh) /\ doh \in DohType /\ metrics \in MetricsType
      /\ Phase = "TRY"
  BY PhaseIs, IInvArgs DEF IInv, OriginBufferFree, PeerKnown, ResolutionPhase, Typed, Lives
<1>2. origin_fd = "registered" /\ Attempted(status)
  BY AttemptedIs DEF RInv, WithOrigin
<1>3. CASE /\ request.host = "domain" /\ ~doh.is_active
           /\ EnterSendDohRequest(status, buffer, sock)
           /\ UNCHANGED <<origin_fd, doh>>
  <2>1. /\ state' = "SEND_DOH_REQUEST" /\ status' = status /\ sock' = sock
        /\ DohAs(doh)
    BY <1>3 DEF EnterSendDohRequest, Settle, DohAs
  <2>2. Life!Connected
    BY <1>1, <1>2, <1>3, <2>1, ConnectsL
  <2>3. LInv' /\ Advances
    BY <1>1, <1>3, <2>1 DEF LInv, FirstQuery, Asking, Unopened, Advances, BetweenQueries
  <2>. QED BY <2>2, <2>3 DEF LStep, Life!Next
<1>4. CASE /\ ~(request.host = "domain" /\ ~doh.is_active)
           /\ IF request.connect
                THEN SettleConnected(status,
                       [buffer EXCEPT !.origin = WriteAdv(EmptyQueue, Message("ok"))], sock)
                ELSE EnterSendRequestLine(status, buffer, sock)
           /\ UNCHANGED <<origin_fd, doh>>
  <2>1. /\ state' \in {"SEND_REQUEST_LINE", "CONNECTED"} /\ status' = status /\ sock' = sock
        /\ DohAs(doh) /\ SameOrigin
    BY <1>4 DEF EnterSendRequestLine, SettleConnected, Settle, DohAs, SameOrigin
  <2>2. Life!Connected
    BY <1>1, <1>2, <1>4, <2>1, ConnectsL
  <2>3. LInv' /\ Advances
    BY <2>1, QuietL
  <2>. QED BY <2>2, <2>3 DEF LStep, Life!Next
<1>5. CASE /\ request.host = "domain" /\ doh.allocated
           /\ metrics' = increase_failed_connections(metrics)
           /\ try_next_dns_connection(doh, status, buffer, sock)
  <2>1. Resolving(sock)
    BY <1>1, <1>5, MetricsOK, SidesFacts DEF Resolving, Lives, IInv, Typed, ReplyBuffered
  <2>2. TryNextCalled(doh, status, buffer, sock)
    BY <1>1, <1>5, <2>1 DEF TryNextCalled
  <2>3. ResolvingL(doh, status, buffer, sock)
    BY <1>1, <1>2, <2>2 DEF ResolvingL
  <2>4. Life!TryNext /\ LInv' /\ Advances
    BY <1>5, <2>3, TryNextL
  <2>5. (live /\ request.host = "domain") /\ DohPhase # "none"
    BY <1>1, <1>5 DEF DohPhase, DohType
  <2>6. Life!NotConnected
    BY <1>1, <2>4, <2>5 DEF Life!NotConnected
  <2>. QED BY <2>4, <2>6 DEF LStep, Life!Next
<1>6. CASE /\ ~(request.host = "domain" /\ doh.allocated)
           /\ EnterError("500", status, buffer, sock)
           /\ UNCHANGED <<origin_fd, doh>>
  <2>1. /\ state' = "ERROR" /\ status' = status /\ sock' = sock
        /\ DohAs(doh) /\ SameOrigin
    BY <1>6 DEF EnterError, Settle, DohAs, SameOrigin
  <2>2. Life!Fail /\ LInv' /\ Advances
    BY <1>1, <1>6, <2>1, FailsL, QuietL
  <2>3. ~((live /\ request.host = "domain") /\ DohPhase # "none")
    BY <1>6 DEF DohPhase
  <2>4. Life!NotConnected
    BY <1>1, <2>2, <2>3 DEF Life!NotConnected
  <2>. QED BY <2>2, <2>4 DEF LStep, Life!Next
<1>. QED BY <1>3, <1>4, <1>5, <1>6 DEF TryConnectionIpWrite

\* A state that stays until the origin's buffer is empty
LEMMA SendingL ==
  ASSUME NEW buf, NEW sk, LInv, Lives, UNCHANGED <<doh, origin_fd>>,
         sk.origin.peer = sock.origin.peer, sk.origin.link = sock.origin.link,
         Settle(state, interest, status, buf, sk)
  PROVE  LStep
<1>1. state' = state /\ status' = status /\ sock' = sk
  BY DEF Settle
<1>2. Phase' = Phase
  BY <1>1 DEF Phase, Lives
<1>. QED BY <1>1, <1>2, StaysL DEF SameOrigin, DohAs

\* await_doh_response_on_arrival
LEMMA AsksL ==
  ASSUME NEW buf, NEW sk, LInv, Lives, IInv, state = "SEND_DOH_REQUEST", origin_fd' = origin_fd,
         sk.origin.peer = sock.origin.peer, sk.origin.link = sock.origin.link,
         EnterAwaitDohResponse(status, buf, sk)
  PROVE  LStep
<1>1. /\ state' = "AWAIT_DOH_RESPONSE" /\ status' = status /\ sock' = sk
      /\ Phase = "SEND_DOH" /\ doh \in DohType
  BY PhaseIs DEF EnterAwaitDohResponse, Settle, Lives, IInv, Typed
<1>2. Phase' = "AWAIT"
  BY <1>1 DEF Phase, Lives
<1>3. /\ ~doh.is_active /\ (doh.allocated => doh.current_type = "AAAA")
      /\ ~doh.allocated => doh.current_type = "A"
  BY <1>1 DEF LInv, Asking, FirstQuery
<1>4. \/ doh' = doh /\ ~doh.allocated
      \/ doh'.allocated /\ doh'.is_active /\ doh'.current_type = doh.current_type
  BY <1>1 DEF EnterAwaitDohResponse, DohType
<1>5. \/ DohPhase = "none" /\ DohPhase' \in {"none", "A"}
      \/ DohPhase = "between" /\ DohPhase' = "AAAA"
  BY <1>3, <1>4 DEF DohPhase, Lives
<1>6. Life!Ask
  BY <1>1, <1>2, <1>5 DEF Life!Ask, Lives
<1>7. LInv' /\ Advances
  BY <1>1, <1>3, <1>4 DEF LInv, FirstQuery, Asking, Unopened, Advances
<1>. QED BY <1>6, <1>7 DEF LStep, Life!Next

\* stm_handler_write, in every state but TRY_CONNECTION_IP
LEMMA StmWriteL ==
  ASSUME NEW buf, NEW sk, NEW m, IInv, RInv, LInv, IInv', live, ~hung, request' = request,
         ArgsOK(status, buf, sk),
         sk.origin.peer = sock.origin.peer, sk.origin.link = sock.origin.link,
         StmWrite(buf, sk, m)
  PROVE  LStep
<1>1. Running /\ state \in States \ {"DONE"}
  BY DEF RInv, Running, IInv, Typed
<1>2. CASE /\ state \in {"SEND_DOH_REQUEST", "SEND_REQUEST_LINE", "ERROR"}
           /\ Settle(state, interest, status, buf, sk)
           /\ UNCHANGED <<doh, live, origin_fd>>
  BY <1>2, SendingL DEF Lives
<1>3. CASE /\ state = "SEND_DOH_REQUEST"
           /\ EnterAwaitDohResponse(status, buf, sk)
           /\ UNCHANGED <<live, origin_fd>>
  BY <1>3, AsksL DEF Lives
<1>4. CASE /\ state \in RelayStates \union {"SEND_REQUEST_LINE"}
           /\ \E st : st = status /\ SettlesRelay(st, buf, sk)
           /\ UNCHANGED <<doh, live, origin_fd>>
  <2>1. Attempted(status)
    BY <1>1, <1>4, AttemptedIs DEF WithOrigin, Relaying, RelayStates
  <2>. QED BY <1>1, <1>4, <2>1, RelaysL DEF Lives
<1>5. CASE state = "ERROR" /\ EnterDone(status, buf, sk) /\ doh' = doh
  BY <1>1, <1>5, DoneL
<1>6. CASE /\ state = "EMPTY_BUFFERS"
           /\ EnterDone(CloseDrained(status, buf), buf, ShutDrained(status, buf, sk))
           /\ doh' = doh
  <2>1. sk.origin \in SocketType
    BY SidesFacts DEF ArgsOK
  <2>2. /\ ShutDrained(status, buf, sk).origin.peer = sk.origin.peer
        /\ ShutDrained(status, buf, sk).origin.link = sk.origin.link
    BY <2>1, SidesFacts DEF ShutDrained, SocketType
  <2>. QED BY <1>1, <1>6, <2>2, DoneL
<1>7. EmptyBuffersWrite(buf, sk, m) =>
        \/ EnterDone(CloseDrained(status, buf), buf, ShutDrained(status, buf, sk))
        \/ SettleEmptyBuffers(status, buf, sk) /\ UNCHANGED <<live, origin_fd>>
  BY DEF EmptyBuffersWrite
<1>. QED BY <1>2, <1>3, <1>4, <1>5, <1>6, <1>7 DEF StmWrite, SettlesRelay, RelayStates

\* proxy_client_write and proxy_origin_write
LEMMA HandleWriteL ==
  ASSUME IInv, RInv, LInv, IInv', RInv', ~hung, ~hung', NEW s \in Sides, HandleWrite(s)
  PROVE  LStep
<1>1. /\ live /\ Running /\ state \in States \ {"DONE"}
      /\ request' = request /\ idle' \in BOOLEAN
  BY DEF RInv, IInv, Typed, Running, HandleWrite, WriteReady, Registered
<1>2. CASE state = "TRY_CONNECTION_IP" /\ TryConnectionIpWrite /\ UNCHANGED live
  BY <1>1, <1>2, TryConnectionIpWriteL
<1>3. CASE close_proxy_connection(metrics)
  BY <1>1, <1>3, ClosesL
<1>4. CASE \E n \in 1 .. Length(buffer[Outgoing(s)]), full \in Fills :
             StmWrite(WriteBuffer(Outgoing(s), n), WriteSock(s, Outgoing(s), n, full),
                      Transferred(metrics, s, n))
  <2>1. Outgoing(s) \in Sides
    BY DEF Outgoing, Other, Sides
  <2>2. PICK n \in 1 .. Length(buffer[Outgoing(s)]), full \in Fills :
          StmWrite(WriteBuffer(Outgoing(s), n), WriteSock(s, Outgoing(s), n, full),
                   Transferred(metrics, s, n))
    BY <1>4
  <2>3. ArgsOK(status, WriteBuffer(Outgoing(s), n), WriteSock(s, Outgoing(s), n, full))
    BY <2>1, WriteArgsOK
  <2>4. /\ WriteSock(s, Outgoing(s), n, full).origin.peer = sock.origin.peer
        /\ WriteSock(s, Outgoing(s), n, full).origin.link = sock.origin.link
    <3>1. sock.origin \in SocketType /\ sock \in [Sides -> SocketType]
      BY SidesFacts DEF IInv, Typed
    <3>. QED BY <3>1, SidesFacts DEF WriteSock, SocketType
  <2>. QED BY <1>1, <2>2, <2>3, <2>4, StmWriteL
<1>. QED BY <1>2, <1>3, <1>4 DEF HandleWrite, WriteBuffer, WriteSock

-----------------------------------------------------------------------------
(* Time, the peers and the network *)

\* They leave the lifecycle alone
LEMMA ElsewhereL ==
  ASSUME LInv, Elsewhere, SameOrigin
  PROVE  LStep
<1>1. UNCHANGED <<state, status, origin_fd, request, doh, live>>
  BY DEF Elsewhere
<1>2. UNCHANGED Life!life
  <2>1. Phase' = Phase /\ DohPhase' = DohPhase
    BY <1>1 DEF Phase, DohPhase
  <2>. QED BY <1>1, <2>1 DEF Life!life
<1>3. LInv' /\ Advances
  BY <1>1, QuietL DEF DohAs
<1>. QED BY <1>2, <1>3 DEF LStep

\* A connection attempt ends, and none begins
LEMMA EnvironmentL ==
  ASSUME IInv, LInv, Environment
  PROVE  LStep
<1>1. Elsewhere /\ sock'.origin.peer = sock.origin.peer
  BY EnvironmentActs, SidesFacts DEF Acted
<1>2. sock'.origin.link = "pending" => sock.origin.link = "pending"
  <2>1. sock.origin \in SocketType /\ sock \in [Sides -> SocketType]
    BY SidesFacts DEF IInv, Typed
  <2>2. ASSUME NEW s \in Sides,
               PeerSends(s) \/ PeerFinishes(s) \/ PeerReads(s) \/ PeerResetsConnection(s)
        PROVE  sock'.origin.link = sock.origin.link
    <3>1. CASE PeerSends(s)
      BY <2>1, <3>1, SidesFacts DEF PeerSends, SocketType
    <3>2. CASE PeerFinishes(s)
      BY <2>1, <3>2, SidesFacts DEF PeerFinishes, SocketType
    <3>3. CASE PeerResetsConnection(s)
      BY <2>1, <3>3, SidesFacts DEF PeerResetsConnection, SocketType
    <3>4. CASE PeerReads(s)
      BY <2>1, <3>4, SidesFacts DEF PeerReads, SocketType
    <3>. QED BY <2>2, <3>1, <3>2, <3>3, <3>4
  <2>3. DohServerSends => sock'.origin.link = sock.origin.link
    BY <2>1, SidesFacts DEF DohServerSends, SocketType
  <2>4. ConnectEnds => sock.origin.link = "pending"
    BY DEF ConnectEnds
  <2>. QED BY <2>2, <2>3, <2>4 DEF Environment
<1>. QED BY <1>1, <1>2, ElsewhereL DEF SameOrigin

-----------------------------------------------------------------------------
(* The handlers that never return *)

\* The loop over the answers goes on for ever where the counter wraps
LEMMA TryNextHangs ==
  ASSUME NEW d, NEW st, NEW buf, NEW sk, try_next_dns_connection(d, st, buf, sk), ~hung, hung'
  PROVE  /\ ~LoopEnds(d)
         /\ doh' = d /\ state' = state /\ sock' = sk
BY DEF try_next_dns_connection, TryNextAnswer, Settle

\* The loop over the units does where a complete response is followed by another
LEMMA AwaitHangs ==
  ASSUME NEW st, NEW buf, NEW sk, doh \in DohType, AwaitDohRead(st, buf, sk), ~hung, hung'
  PROVE  /\ state' = state
         /\ \/ /\ Verdict(doh.parsed) = "complete" /\ error # "500"
               /\ Len(Fresh(buf)) > 0
               /\ doh' = doh /\ sock' = sk /\ reply' = reply
            \/ /\ ~LoopEnds(doh')
               /\ DohAs(doh) /\ sock' = OriginShut(sk)
<1> DEFINE d == Fed(buf, Len(Fresh(buf)))
<1>1. CASE try_next_dns_connection(d, st, Consumed(buf), OriginShut(sk))
  BY <1>1, FedIs, TryNextHangs DEF DohAs
<1>2. CASE /\ error # "500" /\ Verdict(doh.parsed) = "complete" /\ Len(Fresh(buf)) > 0
           /\ Settle(state, interest, st, buf, sk)
           /\ UNCHANGED <<doh, reply>>
  BY <1>2 DEF Settle
<1>. QED BY <1>1, <1>2 DEF AwaitDohRead, ResponseEnds, AnswersNotAllocated, KeepAwaiting, OriginShut

\* What a handler that never returns leaves of the lifecycle
LEMMA HangsL ==
  ASSUME IInv, RInv, LInv, [Next]_vars, ~hung, hung'
  PROVE  LInv' /\ Advances
<1>1. doh \in DohType /\ sock \in [Sides -> SocketType] /\ sock.origin \in SocketType
  BY SidesFacts DEF IInv, Typed
<1>2. ASSUME NEW s \in Sides, NEW st, NEW buf, NEW sk,
             sk \in [Sides -> SocketType],
             sk.origin.peer = sock.origin.peer, sk.origin.link = sock.origin.link,
             StmRead(s, st, buf, sk)
      PROVE  LInv' /\ Advances
  <2>1. AwaitDohRead(st, buf, sk)
    BY <1>2 DEF StmRead
  <2>2. DohAs(doh) /\ state' = state /\ sock' \in {sk, OriginShut(sk)}
    BY <1>1, <2>1, AwaitHangs DEF DohAs
  <2>3. sk.origin \in SocketType
    BY <1>2, SidesFacts
  <2>4. /\ OriginShut(sk).origin.peer = sk.origin.peer
        /\ OriginShut(sk).origin.link = sk.origin.link
    BY <1>2, <2>3, SidesFacts DEF OriginShut, SocketType
  <2>5. SameOrigin
    BY <1>2, <2>2, <2>4 DEF SameOrigin
  <2>. QED BY <2>2, <2>5, QuietL
<1>3. CASE \E s \in Sides : HandleRead(s)
  <2>1. PICK s \in Sides : HandleRead(s)
    BY <1>3
  <2>2. Registered(s)
    BY <2>1 DEF HandleRead, ReadReady
  <2>3. ASSUME NEW n \in Nat, n <= Unread(s), n <= Room(buffer[s]),
               StmRead(s, status, ReadBuffer(s, n), ReadSock(s, n))
        PROVE  LInv' /\ Advances
    <3>1. /\ ReadSock(s, n) \in [Sides -> SocketType]
          /\ ReadSock(s, n).origin.peer = sock.origin.peer
      BY <2>2, <2>3, ReadArgsOK DEF ArgsOK
    <3>2. ReadSock(s, n).origin.link = sock.origin.link
      BY <1>1, SidesFacts DEF ReadSock, SocketType
    <3>. QED BY <1>2, <2>3, <3>1, <3>2
  <2>4. StmRead(s, EndOf(s), buffer, sock) => LInv' /\ Advances
    BY <1>1, <1>2
  <2>5. ~close_proxy_connection(metrics)
    BY DEF close_proxy_connection
  <2>. QED BY <2>1, <2>3, <2>4, <2>5, ReadEvents DEF EndOf
<1>4. CASE \E s \in Sides : HandleWrite(s)
  <2>1. TryConnectionIpWrite
    BY <1>4 DEF HandleWrite, close_proxy_connection
  <2>2. try_next_dns_connection(doh, status, buffer, sock)
    BY <2>1 DEF TryConnectionIpWrite
  <2>3. DohAs(doh) /\ SameOrigin /\ state' = state
    BY <2>2, TryNextHangs DEF DohAs, SameOrigin
  <2>. QED BY <2>3, QuietL
<1>. QED BY <1>3, <1>4
         DEF Next, Handlers, Over, Environment, PeerSends, PeerFinishes, PeerReads, PeerResetsConnection,
             DohServerSends, ConnectEnds, Unmoved, BecomeIdle, connection_garbage_collect,
             close_proxy_connection, vars, proxy_client_read, proxy_origin_read,
             proxy_client_write, proxy_origin_write, Sides

-----------------------------------------------------------------------------
(* Every step is one of the lifecycle *)

\* An accepted connection begins its lifecycle
LEMMA InitL == Init => LInv /\ Life!Init
<1> SUFFICES ASSUME Init PROVE LInv /\ Life!Init
  OBVIOUS
<1>1. /\ state = "PARSING_REQUEST_LINE" /\ live = TRUE /\ origin_fd = "none" /\ doh = NoDoh
      /\ status.origin = "INACTIVE" /\ sock.origin.peer = "none"
  BY SidesFacts DEF Init, Socket
<1>2. Phase = "PARSING" /\ DohPhase = "none"
  BY <1>1 DEF Phase, DohPhase, NoDoh
<1>3. LInv
  BY <1>1 DEF LInv, FirstQuery, Asking, Unopened, NoDoh
<1>4. Life!Accepted
  BY <1>1, <1>2 DEF Life!Accepted
<1>. QED BY <1>3, <1>4 DEF Life!Init

\* Every step of a connection whose handlers return is one of its lifecycle
LEMMA NextL ==
  ASSUME IInv, RInv, LInv, IInv', RInv', [Next]_vars, ~hung, ~hung'
  PROVE  LStep
<1>1. CASE \E s \in Sides : HandleRead(s)
  BY <1>1, HandleReadL
<1>2. CASE \E s \in Sides : HandleWrite(s)
  BY <1>2, HandleWriteL
<1>3. CASE BecomeIdle
  <2>1. Elsewhere /\ SameOrigin
    BY <1>3 DEF BecomeIdle, Elsewhere, SameOrigin
  <2>. QED BY <2>1, ElsewhereL
<1>4. CASE connection_garbage_collect
  <2>1. live /\ state \in States \ {"DONE"}
    BY <1>4 DEF connection_garbage_collect, RInv, Running, IInv, Typed
  <2>. QED BY <1>4, <2>1, ClosesL DEF connection_garbage_collect
<1>5. CASE Environment
  BY <1>5, EnvironmentL
<1>6. CASE UNCHANGED vars
  <2>1. Elsewhere /\ SameOrigin
    BY <1>6 DEF vars, Elsewhere, SameOrigin
  <2>. QED BY <2>1, ElsewhereL
<1>. QED BY <1>1, <1>2, <1>3, <1>4, <1>5, <1>6
         DEF Next, Handlers, Over, proxy_client_read, proxy_origin_read, proxy_client_write,
             proxy_origin_write, Sides

\* Nothing a handler does follows one that never returned
LEMMA StaysHung ==
  ASSUME [Next]_vars, hung
  PROVE  hung' /\ (Environment \/ UNCHANGED vars)
BY DEF Next, Handlers, Over, Environment, PeerSends, PeerFinishes, PeerReads, PeerResetsConnection,
       DohServerSends, ConnectEnds, Unmoved, BecomeIdle, connection_garbage_collect, vars,
       proxy_client_read, proxy_origin_read, proxy_client_write, proxy_origin_write

\* Every step advances the resolution, if it moves it
LEMMA AdvancesL ==
  ASSUME IInv, RInv, LInv, IInv', RInv', [Next]_vars
  PROVE  LInv' /\ Advances
<1>1. CASE hung
  <2>1. CASE Environment
    BY <2>1, EnvironmentL DEF LStep
  <2>2. CASE UNCHANGED vars
    BY <2>2, QuietL DEF vars, DohAs, SameOrigin
  <2>. QED BY <1>1, <2>1, <2>2, StaysHung
<1>2. CASE ~hung /\ hung'
  BY <1>2, HangsL
<1>3. CASE ~hung /\ ~hung'
  BY <1>3, NextL DEF LStep
<1>. QED BY <1>1, <1>2, <1>3

-----------------------------------------------------------------------------
(* What the response parsers have taken of the reply.  A handler hangs in  *)
(* AWAIT_DOH_RESPONSE over a unit that follows a complete response.        *)

\* The first n units of a reply
FirstOf(r, n) == SubSeq(r, 1, n)

\* Every unit of the reply is one that may follow those before it
Grown ==
  \A i \in 1 .. Len(reply) :
    reply[i] \in NextUnits(FirstOf(reply, i - 1), MaxAnswers, ExtraUnits)

\* The parsers were fed a prefix of what was read, and all of it while they want more
Parsed ==
  live /\ ~hung /\ state = "AWAIT_DOH_RESPONSE" /\ doh.is_active =>
    /\ Len(doh.parsed) <= sock.origin.read
    /\ doh.parsed = FirstOf(reply, Len(doh.parsed))
    /\ Verdict(doh.parsed) = "more" => Len(doh.parsed) = sock.origin.read

HInv == Grown /\ Parsed /\ HandlersReturn

\* A prefix of a reply
LEMMA FirstOfIs ==
  ASSUME NEW r \in Seq(Unit), NEW n \in Nat, n <= Len(r)
  PROVE  /\ FirstOf(r, n) \in Seq(Unit) /\ Len(FirstOf(r, n)) = n
         /\ \A i \in 1 .. n : FirstOf(r, n)[i] = r[i]
<1>1. 1 \in Int /\ n \in Int /\ Len(r) \in Nat /\ \A i \in 1 .. n : r[i] \in Unit
  OBVIOUS
<1>2. /\ SubSeq(r, 1, n) \in Seq(Unit)
      /\ Len(SubSeq(r, 1, n)) = IF 1 <= n THEN (n - 1) + 1 ELSE 0
      /\ \A i \in 1 .. (n - 1) + 1 : SubSeq(r, 1, n)[i] = r[(1 + i) - 1]
  BY <1>1, SubSeqProperties
<1>3. \A i \in 1 .. n : (1 + i) - 1 = i /\ i \in 1 .. (n - 1) + 1
  OBVIOUS
<1>. QED BY <1>2, <1>3 DEF FirstOf

\* A unit more leaves the prefixes as they were
LEMMA FirstOfAppend ==
  ASSUME NEW r \in Seq(Unit), NEW u \in Unit, NEW n \in Nat, n <= Len(r)
  PROVE  FirstOf(Append(r, u), n) = FirstOf(r, n)
<1> DEFINE a == Append(r, u)
<1>1. a \in Seq(Unit) /\ Len(a) = Len(r) + 1 /\ \A i \in 1 .. Len(r) : a[i] = r[i]
  OBVIOUS
<1> HIDE DEF a
<1>2. n <= Len(a)
  BY <1>1
<1>3. /\ FirstOf(a, n) \in Seq(Unit) /\ Len(FirstOf(a, n)) = n
      /\ \A i \in 1 .. n : FirstOf(a, n)[i] = a[i]
  BY <1>1, <1>2, FirstOfIs
<1>4. /\ FirstOf(r, n) \in Seq(Unit) /\ Len(FirstOf(r, n)) = n
      /\ \A i \in 1 .. n : FirstOf(r, n)[i] = r[i]
  BY FirstOfIs
<1>5. \A i \in 1 .. n : FirstOf(a, n)[i] = FirstOf(r, n)[i]
  BY <1>1, <1>3, <1>4
<1>6. FirstOf(a, n) = FirstOf(r, n)
  BY <1>3, <1>4, <1>5, SeqEqual
<1>. QED BY <1>6 DEF a

\* A prefix and some of the units that follow it make a prefix
LEMMA FirstOfExtends ==
  ASSUME NEW r \in Seq(Unit), NEW n \in Nat, NEW f \in Seq(Unit), NEW j \in Nat,
         j <= Len(f), n + j <= Len(r),
         \A i \in 1 .. Len(f) : f[i] = r[n + i]
  PROVE  FirstOf(r, n) \o FirstOf(f, j) = FirstOf(r, n + j)
<1> DEFINE p == FirstOf(r, n)
<1> DEFINE q == FirstOf(f, j)
<1> DEFINE whole == FirstOf(r, n + j)
<1>1. n + j \in Nat /\ n <= Len(r) /\ Len(r) \in Nat /\ Len(f) \in Nat
  OBVIOUS
<1>2. p \in Seq(Unit) /\ Len(p) = n /\ \A i \in 1 .. n : p[i] = r[i]
  BY <1>1, FirstOfIs
<1>3. q \in Seq(Unit) /\ Len(q) = j /\ \A i \in 1 .. j : q[i] = f[i]
  BY <1>1, FirstOfIs
<1>4. whole \in Seq(Unit) /\ Len(whole) = n + j /\ \A i \in 1 .. n + j : whole[i] = r[i]
  BY <1>1, FirstOfIs
<1> HIDE DEF p, q, whole
<1>5. /\ p \o q \in Seq(Unit) /\ Len(p \o q) = n + j
      /\ \A i \in 1 .. n + j : (p \o q)[i] = IF i <= n THEN p[i] ELSE q[i - n]
  BY <1>2, <1>3, ConcatProperties
<1>6. ASSUME NEW i \in 1 .. n + j
      PROVE  (p \o q)[i] = whole[i]
  <2>1. CASE i <= n
    <3>1. i \in 1 .. n
      BY <2>1
    <3>2. (p \o q)[i] = p[i]
      BY <1>5, <2>1
    <3>3. p[i] = r[i] /\ whole[i] = r[i]
      BY <1>2, <1>4, <3>1
    <3>. QED BY <3>2, <3>3
  <2>2. CASE ~(i <= n)
    <3>1. PICK k \in 1 .. j : k = i - n
      BY <2>2
    <3>2. n + k = i /\ k \in 1 .. Len(f)
      BY <3>1
    <3>. QED BY <1>3, <1>4, <1>5, <2>2, <3>1, <3>2
  <2>. QED BY <2>1, <2>2
<1>7. p \o q = whole
  BY <1>4, <1>5, <1>6, SeqEqual
<1>. QED BY <1>7 DEF p, q, whole

\* After a complete response a server can only send what is not part of it
LEMMA ExtraAfterComplete ==
  ASSUME NEW p, NEW u \in NextUnits(p, MaxAnswers, ExtraUnits), Verdict(p) = "complete"
  PROVE  u.kind = "extra"
BY DEF NextUnits, Plain

\* The server sends a unit that may follow
LEMMA GrowsOK ==
  ASSUME IInv, Grown, DohServerSends
  PROVE  Grown'
<1>1. reply \in Seq(Unit) /\ Len(reply) \in Nat
  BY DEF IInv, Typed
<1>2. PICK u \in NextUnits(reply, MaxAnswers, ExtraUnits) : reply' = Append(reply, u)
  BY DEF DohServerSends
<1>3. u \in Unit
  BY NextUnitsType
<1>4. Len(reply') = Len(reply) + 1
  BY <1>1, <1>2, <1>3
<1>5. ASSUME NEW i \in 1 .. Len(reply')
      PROVE  reply'[i] \in NextUnits(FirstOf(reply', i - 1), MaxAnswers, ExtraUnits)
  <2>1. PICK k \in Nat : k = i - 1
    BY <1>1, <1>4
  <2>2. k <= Len(reply)
    BY <1>1, <1>4, <2>1
  <2>3. FirstOf(reply', k) = FirstOf(reply, k)
    BY <1>1, <1>2, <1>3, <2>2, FirstOfAppend
  <2>4. CASE i \in 1 .. Len(reply)
    <3>1. reply'[i] = reply[i]
      BY <1>1, <1>2, <1>3, <2>4
    <3>2. reply[i] \in NextUnits(FirstOf(reply, i - 1), MaxAnswers, ExtraUnits)
      BY <2>4 DEF Grown
    <3>. QED BY <2>1, <2>3, <3>1, <3>2
  <2>5. CASE i = Len(reply) + 1
    <3>1. reply'[i] = u
      BY <1>1, <1>2, <1>3, <2>5
    <3>2. k = Len(reply)
      BY <1>1, <2>1, <2>5
    <3>3. FirstOf(reply, k) = reply
      <4>1. /\ FirstOf(reply, k) \in Seq(Unit) /\ Len(FirstOf(reply, k)) = k
            /\ \A m \in 1 .. k : FirstOf(reply, k)[m] = reply[m]
        BY <1>1, <2>2, FirstOfIs
      <4>. QED BY <1>1, <3>2, <4>1, SeqEqual
    <3>. QED BY <2>1, <2>3, <3>1, <3>3
  <2>. QED BY <1>1, <1>4, <2>4, <2>5
<1>. QED BY <1>5 DEF Grown

\* What is registered as the origin's socket has not sent anything yet
LEMMA ReplyStep ==
  ASSUME [Next]_vars
  PROVE  DohServerSends \/ reply' = reply \/ reply' = <<>>
<1>1. ASSUME NEW peer, NEW st, NEW kept, NEW buf, NEW sk, OpenOrigin(peer, st, kept, buf, sk)
      PROVE  reply' = reply \/ reply' = <<>>
  BY <1>1 DEF OpenOrigin, RegisterOrigin
<1>2. ASSUME NEW d, NEW st, NEW buf, NEW sk, try_next_dns_connection(d, st, buf, sk)
      PROVE  reply' = reply \/ reply' = <<>>
  <2>1. ASSUME NEW e, RetryOverIPv6(e, st, buf, sk)
        PROVE  reply' = reply \/ reply' = <<>>
    BY <1>1, <2>1 DEF RetryOverIPv6
  <2>2. ASSUME RegisterOrigin("host", st, buf, buf, sk)
        PROVE  reply' = reply \/ reply' = <<>>
    BY <2>2 DEF RegisterOrigin
  <2>3. ASSUME NEW e, NEW fd, GiveUp(e, fd, st, buf, sk)
        PROVE  reply' = reply
    BY <2>3 DEF GiveUp
  <2>. QED BY <1>2, <2>1, <2>2, <2>3 DEF try_next_dns_connection, TryNextAnswer
<1>3. ASSUME NEW st, NEW buf, NEW sk, AwaitDohRead(st, buf, sk)
      PROVE  reply' = reply \/ reply' = <<>>
  <2>1. ASSUME NEW d, ResponseEnds(d, st, buf, sk)
        PROVE  reply' = reply \/ reply' = <<>>
    BY <1>1, <2>1 DEF ResponseEnds, KeepAwaiting, RetryOverIPv6
  <2>. QED BY <1>2, <1>3, <2>1 DEF AwaitDohRead, AnswersNotAllocated, KeepAwaiting
<1>4. ASSUME NEW s, NEW st, NEW buf, NEW sk, StmRead(s, st, buf, sk)
      PROVE  reply' = reply \/ reply' = <<>>
  <2>1. ParsingRead(buf, sk) => reply' = reply \/ reply' = <<>>
    BY <1>1 DEF ParsingRead
  <2>. QED BY <1>3, <1>4, <2>1 DEF StmRead
<1>5. ASSUME NEW s \in Sides, HandleRead(s)
      PROVE  reply' = reply \/ reply' = <<>>
  BY <1>4, <1>5 DEF HandleRead, close_proxy_connection
<1>6. ASSUME NEW s \in Sides, HandleWrite(s)
      PROVE  reply' = reply \/ reply' = <<>>
  <2>1. TryConnectionIpWrite => reply' = reply \/ reply' = <<>>
    BY <1>2 DEF TryConnectionIpWrite
  <2>. QED BY <1>6, <2>1 DEF HandleWrite, close_proxy_connection
<1>. QED BY <1>5, <1>6
         DEF Next, Handlers, Over, Environment, PeerSends, PeerFinishes, PeerReads, PeerResetsConnection,
             ConnectEnds, BecomeIdle, connection_garbage_collect, close_proxy_connection, vars,
             proxy_client_read, proxy_origin_read, proxy_client_write, proxy_origin_write, Sides

\* The units that a read of AWAIT_DOH_RESPONSE finds in the buffer
LEMMA FreshIs ==
  ASSUME NEW q \in Seq(Byte), NEW buf, buf.origin.bytes = q
  PROVE  /\ Len(q) \in Nat /\ Len(Fresh(buf)) = Len(q)
         /\ Fresh(buf) = [i \in 1 .. Len(q) |-> reply[q[i].n]]
<1>1. Len(q) \in Nat /\ Length(buf.origin) = Len(q)
  BY DEF Length
<1>2. Fresh(buf) = [i \in 1 .. Len(q) |-> reply[q[i].n]]
  BY <1>1 DEF Fresh
<1>. QED BY <1>1, <1>2

\* They are the next ones of the reply
LEMMA FreshRead ==
  ASSUME IInv, Registered("origin"), buffer.origin = EmptyQueue, NEW n \in Nat
  PROVE  Fresh(ReadBuffer("origin", n)) = [i \in 1 .. n |-> reply[sock.origin.read + i]]
<1> DEFINE q == Arriving("origin", n)
<1>1. /\ q \in Seq(Byte) /\ Len(q) = n
      /\ \A i \in 1 .. n : q[i].n = sock.origin.read + i
  BY SidesFacts, ArrivingOK
<1>2. ReadBuffer("origin", n).origin = WriteAdv(EmptyQueue, q)
  BY SidesFacts, ReadSockIs
<1>3. ReadBuffer("origin", n).origin.bytes = q
  BY <1>1, <1>2, ConcatEmptySeq DEF WriteAdv, EmptyQueue
<1> HIDE DEF q
<1>4. Fresh(ReadBuffer("origin", n)) = [i \in 1 .. Len(q) |-> reply[q[i].n]]
  BY <1>1, <1>3, FreshIs
<1>. QED BY <1>1, <1>4

\* Nothing is found at the end of the stream
LEMMA FreshNone ==
  ASSUME buffer.origin = EmptyQueue
  PROVE  Len(Fresh(buffer)) = 0 /\ Fresh(buffer) \in Seq(Unit)
<1>1. buffer.origin.bytes = <<>> /\ <<>> \in Seq(Byte) /\ Len(<<>>) = 0
  BY DEF EmptyQueue
<1>2. Len(Fresh(buffer)) = 0 /\ Fresh(buffer) = [i \in 1 .. Len(<<>>) |-> reply[(<<>>)[i].n]]
  BY <1>1, FreshIs
<1>3. Fresh(buffer) \in [1 .. 0 -> Unit]
  BY <1>1, <1>2
<1>. QED BY <1>2, <1>3

\* What a read handler of AWAIT_DOH_RESPONSE is called with
LEMMA AwaitReads ==
  ASSUME IInv, RInv, ~hung, state = "AWAIT_DOH_RESPONSE", NEW s \in Sides, HandleRead(s), live'
  PROVE  /\ s = "origin" /\ live /\ Registered("origin") /\ buffer.origin = EmptyQueue
         /\ UNCHANGED <<live, request>>
         /\ \/ AwaitDohRead(EndOf(s), buffer, sock)
            \/ \E n \in Nat :
                 /\ n > 0 /\ n <= Unread(s)
                 /\ AwaitDohRead(status, ReadBuffer(s, n), ReadSock(s, n))
                 /\ n <= Room(buffer[s])
<1>1. /\ live /\ Registered(s) /\ "READ" \in interest[s]
      /\ interest = Watch({}, {"READ"}) /\ buffer.origin = EmptyQueue
  BY WatchedIs DEF HandleRead, ReadReady, Registered, RInv, Running, Holding, IInv, Typed
<1>2. s = "origin"
  BY <1>1, SidesFacts DEF Watch
<1>3. ~close_proxy_connection(metrics)
  BY DEF close_proxy_connection, Release
<1>4. ASSUME NEW st, NEW buf, NEW sk, StmRead(s, st, buf, sk)
      PROVE  AwaitDohRead(st, buf, sk) /\ live' = live
  BY <1>4 DEF StmRead
<1>. QED BY <1>1, <1>2, <1>3, <1>4, ReadEvents DEF EndOf

\* The parsers and the socket of a reply of which n units are new
ReplyRead(buf, sk, n) ==
  /\ n \in Nat
  /\ Fresh(buf) \in Seq(Unit) /\ Len(Fresh(buf)) = n
  /\ \A i \in 1 .. n : Fresh(buf)[i] = reply[sock.origin.read + i]
  /\ sk.origin.read = sock.origin.read + n
  /\ sock.origin.read + n <= Len(reply)

\* The units of a reply and the bytes of its socket
LEMMA ReplyLength ==
  ASSUME IInv, state = "AWAIT_DOH_RESPONSE"
  PROVE  /\ reply \in Seq(Unit) /\ Len(reply) \in Nat
         /\ sock.origin.read \in Nat /\ sock.origin.sent \in Nat
         /\ Len(reply) = sock.origin.sent /\ sock.origin.read <= sock.origin.sent
         /\ doh \in DohType /\ doh.parsed \in Seq(Unit) /\ Len(doh.parsed) \in Nat
<1>1. sock.origin \in SocketType /\ sock.origin.read <= sock.origin.sent
  BY SidesFacts DEF IInv, Typed, ReadWasSent
<1>2. doh \in DohType /\ reply \in Seq(Unit) /\ Len(reply) = sock.origin.sent
  BY DEF IInv, Typed, ReplyBuffered, PeerKnown
<1>. QED BY <1>1, <1>2 DEF SocketType, DohType

\* What the handler that was called with them has of the reply
LEMMA ReadsReply ==
  ASSUME IInv, state = "AWAIT_DOH_RESPONSE", Registered("origin"), buffer.origin = EmptyQueue
  PROVE  /\ ReplyRead(buffer, sock, 0)
         /\ \A n \in Nat : n <= Unread("origin") =>
              ReplyRead(ReadBuffer("origin", n), ReadSock("origin", n), n)
<1>1. /\ sock.origin.read \in Nat /\ sock.origin.sent \in Nat
      /\ Len(reply) = sock.origin.sent /\ sock.origin.read <= sock.origin.sent
      /\ reply \in Seq(Unit)
  BY ReplyLength
<1>2. ReplyRead(buffer, sock, 0)
  BY <1>1, FreshNone DEF ReplyRead
<1>3. ASSUME NEW n \in Nat, n <= Unread("origin")
      PROVE  ReplyRead(ReadBuffer("origin", n), ReadSock("origin", n), n)
  <2>1. sock.origin.read + n <= Len(reply)
    BY <1>1, <1>3 DEF Unread
  <2>2. ReadSock("origin", n).origin.read = sock.origin.read + n
    BY SidesFacts, ReadSockIs
  <2> DEFINE fresh == [i \in 1 .. n |-> reply[sock.origin.read + i]]
  <2>3. \A i \in 1 .. n : reply[sock.origin.read + i] \in Unit
    BY <1>1, <2>1
  <2>4. fresh \in Seq(Unit) /\ Len(fresh) = n
        /\ \A i \in 1 .. n : fresh[i] = reply[sock.origin.read + i]
    BY <2>3
  <2>5. Fresh(ReadBuffer("origin", n)) = fresh
    BY FreshRead
  <2> HIDE DEF fresh
  <2>. QED BY <2>1, <2>2, <2>4, <2>5 DEF ReplyRead
<1>. QED BY <1>2, <1>3

\* While it returns, try_next_dns_connection leaves AWAIT_DOH_RESPONSE
LEMMA TryNextLeaves ==
  ASSUME NEW d, NEW st, NEW buf, NEW sk, try_next_dns_connection(d, st, buf, sk), ~hung, ~hung'
  PROVE  state' \in {"TRY_CONNECTION_IP", "ERROR"}
<1>1. ASSUME NEW peer, NEW kept, OpenOrigin(peer, st, kept, buf, sk)
      PROVE  state' \in {"TRY_CONNECTION_IP", "ERROR"}
  BY <1>1 DEF OpenOrigin, RegisterOrigin, EnterTryConnectionIp, EnterError, Settle
<1>2. ASSUME NEW e, RetryOverIPv6(e, st, buf, sk)
      PROVE  state' \in {"TRY_CONNECTION_IP", "ERROR"}
  BY <1>1, <1>2 DEF RetryOverIPv6
<1>3. ASSUME NEW e, NEW fd, GiveUp(e, fd, st, buf, sk)
      PROVE  state' = "ERROR"
  BY <1>3 DEF GiveUp, EnterError, Settle
<1>4. RegisterOrigin("host", st, buf, buf, sk) => state' \in {"TRY_CONNECTION_IP", "ERROR"}
  BY <1>1 DEF OpenOrigin
<1>. QED BY <1>2, <1>3, <1>4 DEF try_next_dns_connection, TryNextAnswer

\* A read that stays in AWAIT_DOH_RESPONSE has fed all that arrived, or as much
\* as completed the response
LEMMA AwaitKeeps ==
  ASSUME NEW st, NEW buf, NEW sk, AwaitDohRead(st, buf, sk),
         state' = "AWAIT_DOH_RESPONSE", ~hung, ~hung', Len(Fresh(buf)) \in Nat
  PROVE  \E j \in 0 .. Len(Fresh(buf)) :
           /\ doh' = Fed(buf, j) /\ sock' = sk /\ reply' = reply /\ error # "500"
           /\ Verdict(doh.parsed) = "more" \/ Len(Fresh(buf)) = 0
           /\ j = Len(Fresh(buf)) \/ Verdict(Fed(buf, j).parsed) = "complete"
<1> DEFINE arrived == Len(Fresh(buf))
<1> DEFINE Keeps(j) ==
      /\ doh' = Fed(buf, j) /\ sock' = sk /\ reply' = reply /\ error # "500"
      /\ Verdict(doh.parsed) = "more" \/ arrived = 0
      /\ j = arrived \/ Verdict(Fed(buf, j).parsed) = "complete"
<1>1. ~(\E code : EnterError(code, st, buf, sk))
  BY DEF EnterError, Settle
<1>2. ASSUME NEW stop \in 1 .. arrived,
             error # "500", Verdict(doh.parsed) = "more",
             ResponseEnds(Fed(buf, stop), st, buf, sk)
      PROVE  Keeps(stop)
  <2>1. ~RetryOverIPv6(Fed(buf, stop), st, Consumed(buf), sk)
    BY DEF RetryOverIPv6, OpenOrigin, RegisterOrigin, EnterTryConnectionIp, EnterError, Settle
  <2>. QED BY <1>1, <1>2, <2>1 DEF ResponseEnds, KeepAwaiting, Settle
<1>3. ~try_next_dns_connection(Fed(buf, arrived), st, Consumed(buf), [sk EXCEPT !.origin.shut = TRUE])
  BY TryNextLeaves
<1>4. ASSUME NEW d, AnswersNotAllocated(d, st, buf, sk)
      PROVE  FALSE
  BY <1>1, <1>4 DEF AnswersNotAllocated
<1>5. CASE /\ error # "500"
           /\ arrived = 0 \/ Verdict(doh.parsed) = "more"
           /\ KeepAwaiting(Fed(buf, arrived), st, Consumed(buf), sk)
  <2>1. Keeps(arrived)
    BY <1>5 DEF KeepAwaiting, Settle
  <2>. QED BY <2>1
<1>6. CASE \E stop \in 1 .. arrived :
             /\ error # "500" /\ Verdict(doh.parsed) = "more"
             /\ ResponseEnds(Fed(buf, stop), st, buf, sk)
  <2>1. PICK stop \in 1 .. arrived : Keeps(stop)
    BY <1>2, <1>6
  <2>2. stop \in 0 .. arrived
    OBVIOUS
  <2>. QED BY <2>1, <2>2
<1>. QED BY <1>1, <1>3, <1>4, <1>5, <1>6 DEF AwaitDohRead

\* It leaves the parsers with a prefix of what was read
LEMMA ParsedRead ==
  ASSUME IInv, Parsed, live, ~hung, state = "AWAIT_DOH_RESPONSE",
         NEW st, NEW buf, NEW sk, NEW n, ReplyRead(buf, sk, n),
         AwaitDohRead(st, buf, sk), state' = "AWAIT_DOH_RESPONSE", ~hung'
  PROVE  Parsed'
<1> DEFINE p == doh.parsed
<1> DEFINE f == Fresh(buf)
<1>1. /\ reply \in Seq(Unit) /\ Len(reply) \in Nat /\ sock.origin.read \in Nat
      /\ doh \in DohType /\ p \in Seq(Unit) /\ Len(p) \in Nat
      /\ n \in Nat /\ f \in Seq(Unit) /\ Len(f) = n
      /\ \A i \in 1 .. n : f[i] = reply[sock.origin.read + i]
      /\ sk.origin.read = sock.origin.read + n
      /\ sock.origin.read + n <= Len(reply)
  BY ReplyLength DEF ReplyRead
<1>2. PICK j \in 0 .. n :
           /\ doh' = Fed(buf, j) /\ sock' = sk /\ reply' = reply /\ error # "500"
           /\ Verdict(p) = "more" \/ n = 0
           /\ j = n \/ Verdict(Fed(buf, j).parsed) = "complete"
  BY <1>1, AwaitKeeps
<1>3. doh.is_active
  BY <1>2 DEF IInv, ResolutionPhase
<1>4. /\ Len(p) <= sock.origin.read /\ p = FirstOf(reply, Len(p))
      /\ Verdict(p) = "more" => Len(p) = sock.origin.read
  BY <1>3 DEF Parsed
<1>5. doh'.parsed = p \o FirstOf(f, j)
  BY <1>1, <1>2 DEF Fed, FirstOf, DohType
<1> HIDE DEF p, f
<1>6. j \in Nat /\ j <= Len(f)
  BY <1>1
<1>7. CASE Verdict(p) = "more"
  <2>1. PICK k \in Nat : k = sock.origin.read
    BY <1>1
  <2>2. p = FirstOf(reply, k) /\ k + j <= Len(reply)
    BY <1>1, <1>4, <1>6, <1>7, <2>1
  <2>7. \A i \in 1 .. Len(f) : f[i] = reply[k + i]
    BY <1>1, <2>1
  <2>8. FirstOf(reply, k) \o FirstOf(f, j) = FirstOf(reply, k + j)
    <3>1. reply \in Seq(Unit) /\ f \in Seq(Unit) /\ k \in Nat /\ k + j <= Len(reply)
      BY <1>1, <2>1, <2>2
    <3>. QED BY <1>6, <2>7, <3>1, FirstOfExtends
  <2>3. doh'.parsed = FirstOf(reply, k + j)
    BY <1>5, <2>2, <2>8
  <2>4. Len(doh'.parsed) = k + j
    BY <1>6, <2>2, <2>3, <1>1, FirstOfIs
  <2>5. k + j <= sk.origin.read /\ (j = n => k + j = sk.origin.read)
    BY <1>1, <1>6, <2>1
  <2>6. Verdict(doh'.parsed) = "more" => j = n
    BY <1>2
  <2>. QED BY <1>2, <2>3, <2>4, <2>5, <2>6 DEF Parsed
<1>8. CASE n = 0 /\ Verdict(p) # "more"
  <2>1. j = 0
    BY <1>8
  <2>2. FirstOf(f, 0) = <<>>
    BY SubSeqEmpty DEF FirstOf
  <2>3. doh'.parsed = p
    BY <1>1, <1>5, <2>1, <2>2, ConcatEmptySeq
  <2>4. sk.origin.read = sock.origin.read
    BY <1>1, <1>8
  <2>. QED BY <1>2, <1>4, <1>8, <2>3, <2>4 DEF Parsed
<1>. QED BY <1>2, <1>7, <1>8

\* Whatever else happens adds to the reply only
LEMMA ParsedElsewhere ==
  ASSUME IInv, Parsed, Elsewhere, sock'.origin.read = sock.origin.read,
         DohServerSends \/ reply' = reply
  PROVE  Parsed'
<1>1. UNCHANGED <<state, doh, live, hung>>
  BY DEF Elsewhere
<1>2. CASE reply' = reply
  BY <1>1, <1>2 DEF Parsed
<1>3. CASE DohServerSends /\ state = "AWAIT_DOH_RESPONSE" /\ live /\ ~hung /\ doh.is_active
  <2>1. /\ Len(doh.parsed) <= sock.origin.read /\ doh.parsed = FirstOf(reply, Len(doh.parsed))
        /\ Verdict(doh.parsed) = "more" => Len(doh.parsed) = sock.origin.read
    BY <1>3 DEF Parsed
  <2>2. /\ reply \in Seq(Unit) /\ Len(doh.parsed) \in Nat /\ Len(doh.parsed) <= Len(reply)
    BY <1>3, <2>1, ReplyLength
  <2>3. PICK u \in Unit : reply' = Append(reply, u)
    BY <1>3, NextUnitsType DEF DohServerSends
  <2>4. FirstOf(reply', Len(doh.parsed)) = FirstOf(reply, Len(doh.parsed))
    BY <2>2, <2>3, FirstOfAppend
  <2>. QED BY <1>1, <2>1, <2>4 DEF Parsed
<1>. QED BY <1>1, <1>2, <1>3 DEF Parsed

-----------------------------------------------------------------------------
(* The invariant is kept *)

\* AWAIT_DOH_RESPONSE is entered from SEND_DOH_REQUEST only
LEMMA AwaitFrom ==
  ASSUME LStep, live', state' = "AWAIT_DOH_RESPONSE", state \in States, live => state # "DONE"
  PROVE  live /\ state \in {"SEND_DOH_REQUEST", "AWAIT_DOH_RESPONSE"}
<1>1. Phase' = "AWAIT"
  BY DEF Phase
<1>2. CASE UNCHANGED Life!life
  <2>1. Phase = "AWAIT"
    BY <1>1, <1>2 DEF Life!life
  <2>. QED BY <2>1, PhaseIs DEF States
<1>3. CASE Life!Next
  <2>1. Phase = "SEND_DOH"
    BY <1>1, <1>3 DEF Life!Next, Life!Accept, Life!Accepted, Life!Free, Life!Parse, Life!Fail, Life!Open,
         Life!Register, Life!Connected, Life!Move, Life!NotConnected, Life!TryNext, Life!Ask,
         Life!Answer, Life!SendLine, Life!Release
  <2>. QED BY <2>1, PhaseIs DEF States
<1>. QED BY <1>2, <1>3 DEF LStep

\* A read handler that stays
LEMMA ReadParses ==
  ASSUME IInv, RInv, Parsed, ~hung, ~hung', NEW s \in Sides, HandleRead(s), live',
         state = "AWAIT_DOH_RESPONSE", state' = "AWAIT_DOH_RESPONSE"
  PROVE  Parsed'
<1>1. /\ s = "origin" /\ live /\ Registered("origin") /\ buffer.origin = EmptyQueue
      /\ \/ AwaitDohRead(EndOf(s), buffer, sock)
         \/ \E n \in Nat :
              /\ n > 0 /\ n <= Unread(s)
              /\ AwaitDohRead(status, ReadBuffer(s, n), ReadSock(s, n))
  BY AwaitReads
<1>2. CASE AwaitDohRead(EndOf(s), buffer, sock)
  <2>1. ReplyRead(buffer, sock, 0)
    BY <1>1, ReadsReply
  <2>. QED BY <1>1, <1>2, <2>1, ParsedRead
<1>3. CASE \E n \in Nat :
             n <= Unread(s) /\ AwaitDohRead(status, ReadBuffer(s, n), ReadSock(s, n))
  <2>1. PICK n \in Nat : n <= Unread(s) /\ AwaitDohRead(status, ReadBuffer(s, n), ReadSock(s, n))
    BY <1>3
  <2>2. ReplyRead(ReadBuffer("origin", n), ReadSock("origin", n), n)
    BY <1>1, <2>1, ReadsReply
  <2>. QED BY <1>1, <2>1, <2>2, ParsedRead
<1>. QED BY <1>1, <1>2, <1>3

\* The query has been sent, and the parsers are new
LEMMA WriteParses ==
  ASSUME IInv, RInv, SInv, LInv, ~hung, ~hung', NEW s \in Sides, HandleWrite(s), live',
         state \in {"SEND_DOH_REQUEST", "AWAIT_DOH_RESPONSE"}, state' = "AWAIT_DOH_RESPONSE"
  PROVE  Parsed'
<1>1. /\ live /\ "WRITE" \in interest[s]
      /\ Watched = interest /\ state \in States
  BY DEF HandleWrite, WriteReady, Registered, RInv, Running, IInv, Typed
<1>2. state = "SEND_DOH_REQUEST"
  <2>1. state = "AWAIT_DOH_RESPONSE" => interest = Watch({}, {"READ"})
    BY <1>1, WatchedIs
  <2>. QED BY <1>1, <2>1, SidesFacts DEF Watch
<1>3. ~close_proxy_connection(metrics)
  BY DEF close_proxy_connection, Release
<1>4. Outgoing(s) \in Sides
  BY DEF Outgoing, Other, Sides
<1>5. PICK n \in 1 .. Length(buffer[Outgoing(s)]), full \in Fills :
        StmWrite(WriteBuffer(Outgoing(s), n), WriteSock(s, Outgoing(s), n, full),
                 Transferred(metrics, s, n))
  BY <1>2, <1>3 DEF HandleWrite, WriteBuffer, WriteSock
<1>6. EnterAwaitDohResponse(status, WriteBuffer(Outgoing(s), n), WriteSock(s, Outgoing(s), n, full))
  BY <1>2, <1>5 DEF StmWrite, Settle
<1>7. sock' = WriteSock(s, Outgoing(s), n, full)
  BY <1>6 DEF EnterAwaitDohResponse, Settle
<1>8. sock.origin.read = 0
  BY <1>1, <1>2 DEF SInv, Flow
<1>9. sock'.origin.read = 0
  BY <1>4, <1>7, <1>8, SidesFacts, WriteSockIs
<1>10. ~doh.is_active /\ doh \in DohType
  BY <1>2 DEF LInv, Asking, IInv, Typed
<1>11. doh'.is_active => doh'.parsed = <<>>
  BY <1>6, <1>10 DEF EnterAwaitDohResponse, DohType
<1>12. Len(<<>>) = 0 /\ FirstOf(reply', 0) = <<>>
  BY SubSeqEmpty DEF FirstOf
<1>. QED BY <1>9, <1>11, <1>12 DEF Parsed

\* Every step leaves the parsers with a prefix of what was read
LEMMA ParsedStep ==
  ASSUME IInv, RInv, SInv, LInv, Parsed, IInv', RInv', [Next]_vars
  PROVE  Parsed'
<1>1. CASE ~(live' /\ ~hung' /\ state' = "AWAIT_DOH_RESPONSE")
  BY <1>1 DEF Parsed
<1>2. CASE live' /\ ~hung' /\ state' = "AWAIT_DOH_RESPONSE"
  <2>1. ~hung
    BY <1>2, StaysHung
  <2>2. live /\ state \in {"SEND_DOH_REQUEST", "AWAIT_DOH_RESPONSE"}
    <3>1. LStep /\ state \in States /\ (live => state # "DONE")
      BY <1>2, <2>1, NextL DEF IInv, Typed, RInv, Running
    <3>. QED BY <1>2, <3>1, AwaitFrom
  <2>3. CASE \E s \in Sides : HandleRead(s)
    <3>1. PICK s \in Sides : HandleRead(s)
      BY <2>3
    <3>2. state = "AWAIT_DOH_RESPONSE"
      <4>1. state = "SEND_DOH_REQUEST" => interest = Watch({}, {"WRITE"})
        <5>1. Watched = interest /\ state \in States
          BY <2>1, <2>2 DEF RInv, Running, IInv, Typed
        <5>. QED BY <5>1, WatchedIs
      <4>2. "READ" \in interest[s]
        BY <3>1 DEF HandleRead, ReadReady
      <4>. QED BY <2>2, <4>1, <4>2, SidesFacts DEF Watch
    <3>. QED BY <1>2, <2>1, <3>1, <3>2, ReadParses
  <2>4. CASE \E s \in Sides : HandleWrite(s)
    BY <1>2, <2>1, <2>2, <2>4, WriteParses
  <2>5. CASE BecomeIdle \/ UNCHANGED vars
    <3>1. Elsewhere /\ sock' = sock /\ reply' = reply
      BY <2>5 DEF BecomeIdle, vars, Elsewhere
    <3>. QED BY <3>1, ParsedElsewhere
  <2>6. CASE connection_garbage_collect
    BY <1>2, <2>6 DEF connection_garbage_collect, close_proxy_connection, Release
  <2>7. CASE Environment
    <3>1. Elsewhere /\ sock'.origin.read = sock.origin.read
      BY <2>7, EnvironmentActs, SidesFacts DEF Acted
    <3>2. DohServerSends \/ reply' = reply
      BY <2>7 DEF Environment, PeerSends, PeerFinishes, PeerReads, PeerResetsConnection, ConnectEnds
    <3>. QED BY <3>1, <3>2, ParsedElsewhere
  <2>. QED BY <2>3, <2>4, <2>5, <2>6, <2>7
           DEF Next, Handlers, Over, proxy_client_read, proxy_origin_read, proxy_client_write,
               proxy_origin_write, Sides
<1>. QED BY <1>1, <1>2

\* The reply only gets units that may follow
LEMMA GrownStep ==
  ASSUME IInv, Grown, [Next]_vars
  PROVE  Grown'
<1>1. CASE reply' = reply
  BY <1>1 DEF Grown
<1>2. CASE reply' = <<>>
  <2>1. 1 .. Len(reply') = {}
    BY <1>2
  <2>. QED BY <2>1 DEF Grown
<1>. QED BY <1>1, <1>2, ReplyStep, GrowsOK

\* A unit that the parsers did not take, after a complete response
LEMMA ExtraIsLeft ==
  ASSUME IInv, Grown, Parsed, live, ~hung, state = "AWAIT_DOH_RESPONSE", doh.is_active,
         NEW n \in Nat, n > 0, n <= Unread("origin"),
         Verdict(doh.parsed) = "complete"
  PROVE  \E i \in 1 .. Len(reply) : reply[i].kind = "extra"
<1>1. PICK k \in Nat : k = Len(doh.parsed)
  BY ReplyLength
<1>2. k <= sock.origin.read /\ doh.parsed = FirstOf(reply, k)
  BY <1>1 DEF Parsed
<1>3. /\ sock.origin.read \in Nat /\ sock.origin.sent \in Nat
      /\ Len(reply) = sock.origin.sent
  BY ReplyLength
<1>4. k + 1 \in 1 .. Len(reply) /\ (k + 1) - 1 = k
  BY <1>2, <1>3 DEF Unread
<1>5. reply[k + 1] \in NextUnits(FirstOf(reply, k), MaxAnswers, ExtraUnits)
  BY <1>4 DEF Grown
<1>6. reply[k + 1].kind = "extra"
  BY <1>2, <1>5, ExtraAfterComplete
<1>. QED BY <1>4, <1>6

\* What a handler that never returns was given
LEMMA HangsOver ==
  ASSUME IInv, RInv, LInv, Grown, Parsed, [Next]_vars, ~hung, hung'
  PROVE  HandlersReturn'
<1>1. CASE \E s \in Sides : HandleWrite(s)
  <2>1. TryConnectionIpWrite
    BY <1>1 DEF HandleWrite, close_proxy_connection
  <2>2. try_next_dns_connection(doh, status, buffer, sock)
    BY <2>1 DEF TryConnectionIpWrite
  <2>3. ~LoopEnds(doh) /\ doh' = doh
    BY <2>2, TryNextHangs
  <2>. QED BY <2>3 DEF HandlersReturn, LoopEnds, NoTable, Ancount, HeaderBegun, HeaderParsed
<1>2. CASE \E s \in Sides : HandleRead(s)
  <2>1. PICK s \in Sides : HandleRead(s)
    BY <1>2
  <2>2. ~close_proxy_connection(metrics)
    BY DEF close_proxy_connection
  <2>3. /\ \/ StmRead(s, EndOf(s), buffer, sock)
           \/ \E n \in Nat : StmRead(s, status, ReadBuffer(s, n), ReadSock(s, n))
        /\ Registered(s)
    BY <2>1, <2>2, ReadEvents DEF EndOf, HandleRead, ReadReady
  <2>4. ASSUME NEW st, NEW buf, NEW sk, StmRead(s, st, buf, sk)
        PROVE  state = "AWAIT_DOH_RESPONSE" /\ live' = live
    BY <2>4 DEF StmRead
  <2>5. state = "AWAIT_DOH_RESPONSE" /\ live' /\ doh \in DohType
    BY <2>3, <2>4 DEF Registered, IInv, Typed
  <2>6. /\ s = "origin" /\ live /\ Registered("origin") /\ buffer.origin = EmptyQueue
        /\ \/ AwaitDohRead(EndOf(s), buffer, sock)
           \/ \E n \in Nat :
                /\ n > 0 /\ n <= Unread(s)
                /\ AwaitDohRead(status, ReadBuffer(s, n), ReadSock(s, n))
    BY <2>1, <2>5, AwaitReads
  <2>7. ASSUME ~LoopEnds(doh')
        PROVE  HandlersReturn'
    BY <2>7 DEF HandlersReturn, LoopEnds, NoTable, Ancount, HeaderBegun, HeaderParsed
  <2>8. CASE AwaitDohRead(EndOf(s), buffer, sock)
    <3>1. Len(Fresh(buffer)) = 0
      BY <2>6, FreshNone
    <3>2. ~LoopEnds(doh')
      BY <2>5, <2>8, <3>1, AwaitHangs
    <3>. QED BY <2>7, <3>2
  <2>9. CASE \E n \in Nat : n > 0 /\ n <= Unread(s)
                            /\ AwaitDohRead(status, ReadBuffer(s, n), ReadSock(s, n))
    <3>1. PICK n \in Nat : n > 0 /\ n <= Unread(s)
                           /\ AwaitDohRead(status, ReadBuffer(s, n), ReadSock(s, n))
      BY <2>9
    <3>2. CASE ~LoopEnds(doh')
      BY <2>7, <3>2
    <3>3. CASE Verdict(doh.parsed) = "complete" /\ error # "500" /\ reply' = reply
      <4>1. doh.is_active
        BY <2>5, <3>3 DEF IInv, ResolutionPhase
      <4>2. \E i \in 1 .. Len(reply) : reply[i].kind = "extra"
        BY <2>5, <2>6, <3>1, <3>3, <4>1, ExtraIsLeft
      <4>. QED BY <3>3, <4>2 DEF HandlersReturn
    <3>. QED BY <2>5, <3>1, <3>2, <3>3, AwaitHangs
  <2>. QED BY <2>6, <2>8, <2>9
<1>. QED BY <1>1, <1>2
         DEF Next, Handlers, Over, Environment, PeerSends, PeerFinishes, PeerReads, PeerResetsConnection,
             DohServerSends, ConnectEnds, Unmoved, BecomeIdle, connection_garbage_collect,
             close_proxy_connection, vars, proxy_client_read, proxy_origin_read,
             proxy_client_write, proxy_origin_write, Sides

\* What it was given stays
LEMMA StaysOver ==
  ASSUME IInv, HandlersReturn, [Next]_vars, hung
  PROVE  HandlersReturn'
<1>1. doh' = doh /\ reply \in Seq(Unit)
  BY StaysHung DEF Environment, PeerSends, PeerFinishes, PeerReads, PeerResetsConnection,
                   DohServerSends, ConnectEnds, Unmoved, vars, IInv, Typed
<1>2. CASE ~LoopEnds(doh)
  BY <1>1, <1>2 DEF HandlersReturn, LoopEnds, NoTable, Ancount, HeaderBegun, HeaderParsed
<1>3. CASE \E i \in 1 .. Len(reply) : reply[i].kind = "extra"
  <2>1. PICK i \in 1 .. Len(reply) : reply[i].kind = "extra"
    BY <1>3
  <2>2. reply' = reply \/ \E u \in Unit : reply' = Append(reply, u)
    BY StaysHung, NextUnitsType
       DEF Environment, PeerSends, PeerFinishes, PeerReads, PeerResetsConnection, DohServerSends,
           ConnectEnds, vars
  <2>3. i \in 1 .. Len(reply') /\ reply'[i] = reply[i]
    BY <1>1, <2>2
  <2>. QED BY <2>1, <2>3 DEF HandlersReturn
<1>. QED BY <1>2, <1>3 DEF HandlersReturn

\* Every step keeps what the handlers are given
LEMMA NextH ==
  ASSUME IInv, RInv, SInv, LInv, HInv, IInv', RInv', [Next]_vars
  PROVE  HInv'
<1>1. Grown /\ Parsed /\ HandlersReturn
  BY DEF HInv
<1>2. Grown' /\ Parsed'
  BY <1>1, GrownStep, ParsedStep
<1>3. HandlersReturn'
  <2>1. CASE hung
    BY <1>1, <2>1, StaysOver
  <2>2. CASE ~hung /\ hung'
    BY <1>1, <2>2, HangsOver
  <2>3. CASE ~hung'
    BY <2>3 DEF HandlersReturn
  <2>. QED BY <2>1, <2>2, <2>3
<1>. QED BY <1>2, <1>3 DEF HInv
-----------------------------------------------------------------------------
(* The theorems *)

\* What the resolution of every connection has come to: no query but the first
\* is for A records, and a response is done with before the next is asked for.
THEOREM LifecycleInvariant == Spec => [](IInv /\ RInv /\ LInv)
<1>1. Init => IInv /\ RInv /\ LInv
  BY InitOK, InitR, InitL
<1>2. IInv /\ RInv /\ LInv /\ [Next]_vars => (IInv /\ RInv /\ LInv)'
  BY NextOK, NextR, AdvancesL
<1>. QED BY <1>1, <1>2, PTL DEF Spec

\* connections_manager.c with the states implements Lifecycle, for any sizes of
\* the buffers, requests and streams: whatever the peers send, and in whatever
\* pieces, a connection takes the steps of its lifecycle and no others.
THEOREM ImplementsLifecycle == Spec => KeepsToLifecycle
<1>1. Init => Life!Init
  BY InitL
<1>2. /\ IInv /\ RInv /\ LInv /\ IInv' /\ RInv'
      /\ [Next]_vars
      => [hung' \/ Life!Next]_(Life!life)
  <2> SUFFICES ASSUME IInv, RInv, LInv, IInv', RInv', [Next]_vars, ~hung'
               PROVE  Life!Next \/ UNCHANGED Life!life
    OBVIOUS
  <2>1. ~hung
    BY StaysHung
  <2>. QED BY <2>1, NextL DEF LStep
<1>. QED BY <1>1, <1>2, LifecycleInvariant, PTL DEF Spec, KeepsToLifecycle

\* try_next_dns_connection goes on to later answers and from A to AAAA: the
\* resolution of a name ends, whatever the hosts it is pointed to do.
THEOREM ResolutionAdvances == Spec => TriesAdvance
<1>1. /\ IInv /\ RInv /\ LInv /\ IInv' /\ RInv'
      /\ [Next]_vars
      => [Advances]_vars
  BY AdvancesL
<1>. QED BY <1>1, LifecycleInvariant, PTL DEF Spec, TriesAdvance, Advances

\* connections_manager.c and await_doh_response_state.c: a handler does not come
\* back only where the resolver sent more than its response, or more answers
\* than current_try counts.
THEOREM LoopsEnd == Spec => []HandlersReturn
<1>1. Init => HInv
  <2> SUFFICES ASSUME Init PROVE HInv
    OBVIOUS
  <2>1. reply = <<>> /\ hung = FALSE /\ state = "PARSING_REQUEST_LINE" /\ 1 .. Len(<<>>) = {}
    BY DEF Init
  <2>. QED BY <2>1 DEF HInv, Grown, Parsed, HandlersReturn
<1>2. HInv /\ (IInv /\ RInv /\ SInv) /\ (IInv /\ RInv /\ LInv) /\ (IInv /\ RInv /\ LInv)' /\ [Next]_vars
      => HInv'
  BY NextH
<1>3. HInv => HandlersReturn
  BY DEF HInv
<1>. QED BY <1>1, <1>2, <1>3, StreamInvariant, LifecycleInvariant, PTL DEF Spec
=============================================================================
