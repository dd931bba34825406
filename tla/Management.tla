----------------------------- MODULE Management -----------------------------
(***************************************************************************)
(* The management service: management.c serves PERCY requests that arrive  *)
(* in datagrams, reading metrics and changing the settings of the running  *)
(* proxy; httpdctl.c is its client.                                        *)
(*                                                                         *)
(* A request is the record of its fields in the order of the datagram      *)
(* (RESV, which nothing looks at, is left out).  The service receives into *)
(* one static buffer and parses that buffer, however long the datagram and *)
(* also if recvfrom() has failed.                                          *)
(*                                                                         *)
(* The operators commented "Mutant" are plausible bugs that nothing uses.  *)
(***************************************************************************)
EXTENDS Integers, Sequences, FiniteSets

CONSTANTS
  Options,         \* what the user of httpdctl picks: [type, method]
  Entered,         \* the values the user of httpdctl may type
  OtherRequests,   \* what other clients send: requests
  Lengths,         \* and how many fields of a request their datagrams hold
  RequestsMax,     \* bound on the requests of httpdctl
  OthersMax,       \* bound on the datagrams of other clients
  Counted,         \* the counters that relaying and failing raise: 2, 3, 7
  CountMax,        \* the largest value of a counter, for UINT64_MAX
  FailsMax,        \* bound on the calls of recvfrom() that fail
  Networks         \* whether the network may lose datagrams

Fields == {"ver", "passphrase", "type", "method", "hi", "lo"}
Place == [ver |-> 1, passphrase |-> 2, type |-> 3, method |-> 4, hi |-> 5, lo |-> 6]
Whole == 6

\* The retrieval methods that return a counter
Counters == {0, 1, 2, 3, 7}

ASSUME ManagementAssumption ==
  /\ Options \subseteq [type : 0 .. 1, method : 0 .. 7]
  /\ Entered \subseteq Nat
  /\ Lengths \subseteq 0 .. Whole
  /\ Counted \subseteq Counters
  /\ RequestsMax \in Nat /\ OthersMax \in Nat /\ CountMax \in Nat /\ FailsMax \in Nat
  /\ Networks \subseteq BOOLEAN

VARIABLES
  settings,   \* disectors_enabled, buffers_size and the selector's timeout
  metrics,    \* the counters of metrics.c, by the method that retrieves them
  memory,     \* management.buffer
  last,       \* the datagram received last: whose, and which request
  failed,     \* how many calls of recvfrom() have failed
  inbound,    \* the datagrams on their way to the service
  replies,    \* the datagrams on their way to each client, or in its socket
  ctl,        \* httpdctl
  seen,       \* the values of what httpdctl asks for, since it has asked
  others,     \* how many datagrams other clients have sent
  lossy       \* the network may lose a datagram

service == <<settings, memory, last, failed>>
vars == <<settings, metrics, memory, last, failed, inbound, replies, ctl, seen, others, lossy>>

Success == 0
Unauthorized == 1
Unsuccessful == 2

Retrieval == 0
Modification == 1

\* modification_methods
ValuesRange == [method \in 0 .. 2 |->
  CASE method = 0 -> 0 .. 1
    [] method = 1 -> 1024 .. 8192
    [] method = 2 -> 4 .. 12]

\* retrieval_methods
Retrieve(method) ==
  CASE method = 4 -> metrics[3] + metrics[2]
    [] method = 5 -> settings.buffers_size
    [] method = 6 -> settings.timeout
    [] OTHER -> metrics[method]

\* Mutant: the last two methods are exchanged
Changed_Exchanged(method, value) ==
  CASE method = 0 -> [settings EXCEPT !.sniffer = (value # 0)]
    [] method = 1 -> [settings EXCEPT !.timeout = value]
    [] method = 2 -> [settings EXCEPT !.buffers_size = value]

\* set_sniffer_mode, set_buffer_size and set_select_timeout
Changed(method, value) ==
  CASE method = 0 -> [settings EXCEPT !.sniffer = (value # 0)]
    [] method = 1 -> [settings EXCEPT !.buffers_size = value]
    [] method = 2 -> [settings EXCEPT !.timeout = value]

validate_input_value(method, value) == value \in ValuesRange[method]

Value(request) == request.hi * 256 + request.lo

\* parse_request: what percy_request_parser accepts
Parsed(request) == request.ver = 1 /\ request.type \in 0 .. 2 /\ request.method \in 0 .. 7

-----------------------------------------------------------------------------
(* The reply on its way: eleven octets, the last eight the value *)

\* Mutant: the octets are taken without a shift
serialize_NoShift(value) == [i \in 1 .. 8 |-> IF i < 8 THEN 0 ELSE value % 256]

\* The values of a run are below 2^31, so the first four octets stay 0
serialize(value) ==
  <<0, 0, 0, 0, value \div 16777216, (value \div 65536) % 256, (value \div 256) % 256, value % 256>>

build_reply(status, value) == <<1, status, 0>> \o serialize(value)

\* parse_answer.  percy_response_parser refuses no octet and a reply is whole, so
\* each field is what its place holds; that done would take a twelfth octet does
\* not matter, as nobody asks for the parser's state.
parse_answer(octets) ==
  [status |-> octets[2],
   value |-> ((octets[8] * 256 + octets[9]) * 256 + octets[10]) * 256 + octets[11]]

-----------------------------------------------------------------------------
\* What the service does: the statuses of the replies it sends, the value in
\* the first of them, and the settings it leaves
Effect(statuses, value, left) == [statuses |-> statuses, value |-> value, settings |-> left]

\* Mutant: after a change the function does not return
Modify_FallsThrough(method, value) ==
  IF method \notin 0 .. 2 \/ ~validate_input_value(method, value)
    THEN Effect(<<Unsuccessful>>, 0, settings)
  ELSE Effect(<<Success, Unsuccessful>>, 0, Changed(method, value))

\* Mutant: a value that is refused is not answered
Modify_Silent(method, value) ==
  IF method \notin 0 .. 2 THEN Effect(<<Unsuccessful>>, 0, settings)
  ELSE IF ~validate_input_value(method, value) THEN Effect(<<>>, 0, settings)
  ELSE Effect(<<Success>>, 0, Changed(method, value))

Modify(method, value) ==
  IF method \notin 0 .. 2 \/ ~validate_input_value(method, value)
    THEN Effect(<<Unsuccessful>>, 0, settings)
  ELSE Effect(<<Success>>, 0, Changed(method, value))

\* A wrong passphrase is answered, and the function goes on to its last reply
Serve(request) ==
  CASE ~Parsed(request) -> Effect(<<Unsuccessful>>, 0, settings)
    [] Parsed(request) /\ request.passphrase # "right" ->
         Effect(<<Unauthorized, Unsuccessful>>, 0, settings)
    [] Parsed(request) /\ request.passphrase = "right" ->
         CASE request.type = Retrieval -> Effect(<<Success>>, Retrieve(request.method), settings)
           [] request.type = Modification -> Modify(request.method, Value(request))
           [] OTHER -> Effect(<<Unsuccessful>>, 0, settings)

\* recvfrom() into what earlier datagrams left
Received(datagram) ==
  [field \in Fields |->
     IF Place[field] <= datagram.length THEN datagram.request[field] ELSE memory[field]]

\* What the next reply could say of the request of httpdctl
Watched == seen' = seen \union {Retrieve(ctl.option.method)'}

\* The datagrams that go out for one request
Sent(id, effect) ==
  [i \in 1 .. Len(effect.statuses) |->
     [id |-> id, octets |-> build_reply(effect.statuses[i], effect.value)]]

\* management_read
management_read ==
  \E datagram \in inbound :
    LET request == Received(datagram)
        effect == Serve(request)
    IN
    /\ inbound' = inbound \ {datagram}
    /\ memory' = request
    /\ last' = [from |-> datagram.from, id |-> datagram.id]
    /\ settings' = effect.settings
    /\ replies' = [replies EXCEPT ![datagram.from] = @ \o Sent(datagram.id, effect)]
    /\ UNCHANGED <<metrics, failed, ctl, others, lossy>>
    /\ Watched

\* management_read when recvfrom() fails, on a datagram that was dropped after the socket
\* had become readable.  It logs that and goes on: the request in the buffer is served
\* again, and answered to what the stack holds in the place of clnt_addr, which may still
\* be the address of the last client or nobody's.
ServesAgain ==
  /\ failed < FailsMax
  /\ failed' = failed + 1
  /\ LET effect == Serve(memory) IN
     /\ settings' = effect.settings
     /\ \/ /\ last.from # "nobody"
           /\ replies' = [replies EXCEPT ![last.from] = @ \o Sent(last.id, effect)]
        \/ UNCHANGED replies
  /\ UNCHANGED <<metrics, memory, last, inbound, ctl, others, lossy>>
  /\ Watched

\* The connections are served by the same thread, between two datagrams.  A counter
\* stays at its largest value.
Raised(n) == IF n < CountMax THEN n + 1 ELSE n

Counts(counters) ==
  /\ metrics' = counters
  /\ UNCHANGED <<service, inbound, replies, ctl, others, lossy>>
  /\ Watched

register_new_connection == Counts([metrics EXCEPT ![0] = Raised(@), ![1] = Raised(@)])

\* The gauge of concurrent connections also goes down
unregister_connection == Counts([metrics EXCEPT ![1] = IF @ > 0 THEN @ - 1 ELSE @])

\* increase_bytes_sent, increase_bytes_received and increase_failed_connections
Count(method) == Counts([metrics EXCEPT ![method] = Raised(@)])

-----------------------------------------------------------------------------
(* httpdctl *)

\* The value that was typed becomes a uint16_t
BuiltRequest(option, typed) ==
  LET value == typed % 65536 IN
  [ver |-> 1, passphrase |-> "right", type |-> option.type, method |-> option.method,
   hi |-> value \div 256, lo |-> value % 256]

\* Nothing is sent before the previous request has been answered
CtlAsks ==
  /\ ~ctl.waiting /\ ctl.id < RequestsMax
  /\ \E option \in Options :
       \E typed \in IF option.type = Modification THEN Entered ELSE {0} :
         /\ ctl' = [waiting |-> TRUE, id |-> ctl.id + 1, option |-> option, typed |-> typed,
                    answer |-> [id |-> 0, status |-> 0, value |-> 0]]
         /\ inbound' = inbound \union
              {[from |-> "ctl", id |-> ctl.id + 1, length |-> Whole,
                request |-> BuiltRequest(option, typed)]}
  /\ UNCHANGED <<service, metrics, replies, others, lossy>>
  /\ seen' = {Retrieve(ctl.option.method)'}

\* recvfrom() without a time limit: whatever reply comes first is shown
CtlReceives ==
  /\ ctl.waiting /\ replies["ctl"] # <<>>
  /\ LET reply == Head(replies["ctl"])
         shown == parse_answer(reply.octets)
     IN ctl' = [ctl EXCEPT !.waiting = FALSE,
                  !.answer = [id |-> reply.id, status |-> shown.status, value |-> shown.value]]
  /\ replies' = [replies EXCEPT !["ctl"] = Tail(@)]
  /\ UNCHANGED <<service, metrics, inbound, seen, others, lossy>>

\* Other programs that speak PERCY, or part of it
OtherSends ==
  /\ others < OthersMax
  /\ others' = others + 1
  /\ \E request \in OtherRequests, length \in Lengths :
       inbound' = inbound \union
         {[from |-> "other", id |-> others + 1, length |-> length, request |-> request]}
  /\ UNCHANGED <<service, metrics, replies, ctl, seen, lossy>>

OtherReceives ==
  /\ replies["other"] # <<>>
  /\ replies' = [replies EXCEPT !["other"] = Tail(@)]
  /\ UNCHANGED <<service, metrics, inbound, ctl, seen, others, lossy>>

Lose ==
  /\ lossy
  /\ \/ \E datagram \in inbound : inbound' = inbound \ {datagram} /\ UNCHANGED replies
     \/ /\ \E client \in {"ctl", "other"} :
             /\ replies[client] # <<>>
             /\ replies' = [replies EXCEPT ![client] = Tail(@)]
        /\ UNCHANGED inbound
  /\ UNCHANGED <<service, metrics, ctl, seen, others, lossy>>

Init ==
  /\ settings = [sniffer |-> TRUE, buffers_size |-> 8192, timeout |-> 8]
  /\ metrics = [method \in Counters |-> 0]
  /\ memory = [field \in Fields |-> IF field = "passphrase" THEN "none" ELSE 0]
  /\ last = [from |-> "nobody", id |-> 0]
  /\ failed = 0
  /\ inbound = {}
  /\ replies = [client \in {"ctl", "other"} |-> <<>>]
  /\ ctl = [waiting |-> FALSE, id |-> 0, option |-> [type |-> 0, method |-> 0], typed |-> 0,
            answer |-> [id |-> 0, status |-> 0, value |-> 0]]
  /\ seen = {0}
  /\ others = 0
  /\ lossy \in Networks

Next ==
  \/ management_read \/ ServesAgain
  \/ register_new_connection \/ unregister_connection
  \/ \E method \in Counted : Count(method)
  \/ CtlAsks \/ CtlReceives \/ OtherSends \/ OtherReceives \/ Lose

Spec == Init /\ [][Next]_vars

\* The selector visits the service's socket whenever it is readable, the
\* scheduler runs httpdctl.
FairSpec == Spec /\ WF_vars(management_read) /\ WF_vars(CtlReceives)
-----------------------------------------------------------------------------
\* What httpdctl and the service have sent each other and nobody has received
OnTheirWay == Cardinality({datagram \in inbound : datagram.from = "ctl"}) + Len(replies["ctl"])

\* httpdctl tells replies apart by nothing.  The one it shows is for the request it
\* has just made, since management_read answers a request once, until a recvfrom() of
\* the service fails: each that does can leave one more datagram on its way than
\* httpdctl waits for, and it shows the reply to an earlier request from then on.
AnswersOwnRequest ==
  /\ OnTheirWay <= failed + IF ctl.waiting THEN 1 ELSE 0
  /\ ctl.id > 0 /\ ~ctl.waiting =>
       ctl.answer.id \in 1 .. ctl.id /\ (failed = 0 => ctl.answer.id = ctl.id)

\* httpdctl shows the answer to its request
Answered == ctl.id > 0 /\ ~ctl.waiting /\ ctl.answer.id = ctl.id

\* What is retrieved had the value shown at some moment since the request, however
\* the counters go up and down and other clients change the settings meanwhile.
FreshRetrieval ==
  Answered /\ ctl.option.type = Retrieval => ctl.answer.value \in seen

Setting(method) ==
  CASE method = 0 -> IF settings.sniffer THEN 1 ELSE 0
    [] method = 1 -> settings.buffers_size
    [] method = 2 -> settings.timeout

\* httpdctl: when a change is reported as made it has been made, and stays unless
\* another client changes the setting.  After a failed recvfrom() an earlier request of
\* httpdctl, which it has taken another's reply for, may still be on its way and undo it.
SuccessMeansDone ==
  /\ failed = 0 /\ ctl.id > 0 /\ ~ctl.waiting
  /\ ctl.option.type = Modification /\ ctl.answer.status = Success
  => Setting(ctl.option.method) = ctl.typed % 65536

\* Every request of httpdctl is eventually answered, if no datagram is lost.
EventuallyAnswered == ctl.waiting /\ ~lossy ~> ~ctl.waiting

\* percy_protocol.txt, 4.3: the desired value is the one in the request's value
\* field, which a change therefore needs.
ChangesCarryTheirValue ==
  [][settings' # settings =>
       \E datagram \in inbound \ inbound' : datagram.length = Whole]_vars
=============================================================================
