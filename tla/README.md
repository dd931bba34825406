# A verification project for HTTPD-PROXY

HTTPD-PROXY is a single-threaded HTTP proxy in C. It relays and tunnels connections,
resolves names over DNS-over-HTTPS (DoH), logs what passes and is configured at run time
by a UDP service. Everything is driven by one `pselect()` loop: no two handlers run at
the same time, but what the peers do, what the kernel reports and which descriptor is
visited next interleave freely. This directory holds TLA+ modules translated from its
source, TLC configurations that check them on small instances, and TLAPS proofs, for
every value of the constants, of a connection, of its buffers, of the selector that
connections share, of the resolution of a name, of the management service, of the sniffer
and of the log.

    tlc -config relay.cfg MCConnection.tla      a run (the table below has all)
    tlapm ConnectionProofs.tla                  the proofs

## 1. Inventory

The loop of `main()` calls `selector_select()`, which calls back: the accept handler for
the listening sockets, the four callbacks of `connections_manager.c` for the two
descriptors of each connection, `management_read` for the service,
`logger_on_write_ready` for the log. The callbacks of a connection go through
`stm_handler_read/write`, which dispatch on its state.

| Component | State it keeps | Operations | Hard behaviour | What makes it correct |
|---|---|---|---|---|
| Buffer (`utils/buffer`) | memory, `read`, `write`, `limit` | `buffer_{init,reset,can_*,*_ptr,*_adv,read,write,compact}` | compaction at the end of memory; a full or empty buffer | it is a bounded FIFO queue; an empty one has all its room |
| State machine (`state_machine`) | current state | dispatch, arrival and departure hooks | a state with no handler for an operation `abort()`s the proxy | no descriptor is watched for an operation without a handler |
| States (`states/*`) | interests of both descriptors, buffers, status of each side, error | read/write handlers and arrivals of 10 states | partial reads and sends, half-close in either order, an error while data is in the buffers | streams arrive intact; half-close after delivery; always waits for something |
| Connections manager | the connection struct, `origin_fd`, last activity | accept, four callbacks, `close_proxy_connection`, `register_origin_socket`, collector | freeing what the selector still points to; descriptor numbers reused; partial failure | items, sockets and structs match; everything is released |
| Resolution (`utils/doh`) | `doh_connection`: response, type (A/AAAA), `current_try` | query, parse, next attempt, next type, free | answers freed between the two queries; narrow counters; three parties share one buffer | attempts advance; no freed answers visited; no DoH bytes to the client |
| Response parsers | place in the field, counters, table of answers | one byte at a time | TCP may split anywhere, the resolver may stop anywhere | the decision depends on the bytes, not on how they are split; addresses end up in their places |
| Selector | table of items, `max_fd`, master sets, snapshot | register, unregister, `set_interest`, select, iterate, collect | the snapshot is stale once a callback has closed or opened something | table and masters match; callbacks touch only their own connection |
| Management and `httpdctl` | settings, static buffer, pending requests | receive, parse, authenticate, serve; ask and wait | UDP loses datagrams, replies carry no identifier, a static buffer that a failed receive leaves as it was | an answer belongs to its request and tells the truth |
| Metrics | five 64-bit counters | register/unregister, bytes | who counts, and how often, on which path out | the gauge does not drift |
| Logger | a buffer per stream, interest | `logger_log`, write callback | a reader that does not keep up; direct writes overtake waiting lines | lines whole, in order, eventually written |
| Request line parser | place in the line, target, port | one byte at a time, `build_connection_request` | limits checked before terminators, bracketed literals, byte-swapped ports | a line is refused for its first fault, or its target is what was said |
| Query (`build_doh_request`) | - | name to labels, announced length | dots anywhere in the name, an 8-bit length | the resolver is asked for that host and no other |
| Sniffer, base64, status line of the host | place in the dialogue, one count of bytes for both sides | `sniff_data`, one byte at a time | the bytes examined start where the unsent ones do, not where the new ones do | each byte examined once and in order; the log has what was accepted |
| End of `main()` | - | `selector_destroy` | structs freed item by item | of the connections' descriptors none is left open |
| Log texts, arguments, start | - | straight-line | - | (not modelled) |

**Interactions.** A callback of a connection reads or sends on one of its sockets
through one of its buffers, may change the interest of both its descriptors, may open or
close its origin's socket, and counts in the metrics. The client's bytes go through
`client_buffer`; `origin_buffer` carries in turn the DoH query, its response, the
rewritten request line, and the host's stream or the error page: hence the invariants on
who gets which byte. Connections share the selector's table and the kernel's descriptor
numbers: hence the invariants on ownership. The settings that management changes are
read when a connection is created and by the collector.

**Hazards.** `PROJECT.json` lists 40 of them at their lines. Grouped: stale state (a
descriptor number or readiness bit that outlives its socket, freed answers, the static
datagram buffer, the bytes the sniffer is shown), protocol sequences (one buffer for
four kinds of data, `TRY_CONNECTION_IP` for two kinds of servers, close decided by
status but done by number), ordering (half-close, the collector against the close it
calls, direct against waiting log lines), liveness (both sides unwatched, a handler that
never returns), numeric edges (8-bit `current_try`, 16-bit settings, the limits of the
request line, the 8-bit length of a query), one step of several failing (a full table, a
response that breaks off, a failed receive), and lost or late datagrams. Where the code
does go wrong the note says which exception a property makes for it.

## 2. Modules

| Module | Models | State and actions |
|---|---|---|
| `Buffer` | `buffer.c` on real memory | memory and two pointers; an action per function |
| `Fifo` | what the users of a buffer rely on | a queue and the room lost in front of it |
| `ByteQueue` | the same queue as operators | used by `Fifo` and `Connection`, so that what `Buffer` is proved to implement is what `Connection` computes with |
| `Lifecycle` | abstract: what a connection does to descriptors, by phase | phase, phase of the resolution, `origin_fd` |
| `DohUnits` | a DoH response as units, one per decision | `Verdict`, `Offers`, `NextUnits` |
| `Connection` | `stm*.c`, all `states/`, the callbacks and close of `connections_manager.c`, attempts of `doh_utils.c`, with peers and sockets | `proxy_{client,origin}_{read,write}`, `connection_garbage_collect`; the peers' actions |
| `ConnectionProperties`, `ConnectionLifecycle` | properties; `Connection` implements `Lifecycle` | |
| `BufferProofs`, `ConnectionProofs`, `ProxyProofs`, `ManagementProofs`, `SnifferProofs`, `LoggerProofs`, `ResolutionProofs`, `RequestLineProofs` | theorems | the last builds on the one before it |
| `Selector` | `selector.c` as operators on a table | |
| `Proxy` | several connections, the listening sockets, accept, select, iterate, collect, the end of `main()` | one visit of one descriptor per action |
| `ProxyProperties` | properties; each connection keeps to `Lifecycle` | |
| `RequestLine` | `request_line_parser.c` and `parsing_request_line.c` around it | the parts the client has said, the parser, `connection_request`; `ClientSays`, `FeedLine` |
| `DohQuery` | `build_doh_request`, and how a resolver reads what it composes | |
| `HeadParsers` | the status line and header parsers | used by `DohResponse` and `Sniffer` |
| `DohResponse` | `doh_parser.c` behind them, byte by byte | the units sent, the bytes to come, the parsers; `ServerSends`, `Feed` |
| `Resolution` | the three in a row: line, query, response | `SendDohRequest` and the actions of the others |
| `SnifferParser` | `sniffer_parser.c`, the string matcher and base64 | |
| `Sniffer` | what `parsing_request_line.c`, `connected.c` and `sniffer_utils.c` show to it and to the status line's parser, with what is logged | positions in both streams, `bytes_to_analize`; `RequestLineDone`, `Speak`, `Read`, `ReadEnd`, `SendOn` |
| `Management` | the service, its parser, the wire format, `httpdctl` with its response parser and another client, the network, the counters they ask for | `management_read`, `ServesAgain` (a failed `recvfrom()`), `register_new_connection`, `unregister_connection`, `Count`; `httpdctl`'s, the other client's, the network's |
| `Logger` | `logger_log`, the write callback, the reader | |
| `MC*` | instances for TLC | |

How they compose:

    Buffer --refines--> Fifo = ByteQueue <--uses-- Connection --implements--> Lifecycle
                                                       |uses                     ^
                       agrees with DohUnits <----------+        each connection of Proxy
                           |                                                     |
    Resolution = RequestLine, DohQuery, DohResponse       Selector <--uses------ Proxy
                                            |uses
    Sniffer --uses--> SnifferParser, HeadParsers

A connection with its bytes, and several connections with their descriptors, are each as
much as TLC can enumerate. `Lifecycle` is the contract between the two models:
`Connection` has no other steps than its own, and in `Proxy` each connection has no
other either, although others run between its callbacks.

**Abstractions.** A byte is a pair of its source and its number, so loss, duplication,
reordering and misdirection are visible and content is not. The request line parser may
finish, fail or go on at the end of the first `RequestLength` bytes; `RequestLine` is
about when it does which. A message the proxy composes has `MessageLength` bytes. A send
takes any nonempty part, and may leave the socket full until its peer reads. In `Proxy`,
`CONNECTED`, `CLOSING` and `EMPTY_BUFFERS` are one phase, and the outcome of a callback is
any that `Connection` has in some state of the buffers. In `HeadParsers` a character of
the HTTP head stands for its class. In `RequestLine` and `Sniffer` characters are
themselves, since what they spell is what the properties are about; what is said is drawn
from sets of texts. In `Sniffer` a stream's bytes are the first so many of what the
session's side says, so the buffers are two positions. Each action is a whole callback:
receiving, parsing, every transition it makes, the arrival of the new state, and the
interests it sets.

The operators commented *Mutant* are plausible bugs used by nothing. Each property of a
passing run has one that breaks it when put in place of the operator it is named after.

## 3. Runs

| Run | Module, cfg | States | Shows |
|---|---|---|---|
| `buffer` | `MCBuffer` | 2,736 | `buffer.c` implements the bounded queue |
| `relay` | `MCConnection`, `relay.cfg` | 690,017 | a host named by address: both streams intact, whatever the peers leave unread, half-close after delivery, no handlerless operation, gauge never drifts upwards; with resets |
| `resolve` | `MCConnection`, `resolve.cfg` | 1,414,531 | all requests: DoH bytes never reach the client or the host, attempts advance, freed answers unvisited, handlers return, `Connection` implements `Lifecycle` |
| `progress` | `MCConnection`, `progress.cfg` | 58,467 | a connection is released, an error reaches the client, an end of stream is passed on, however slow the peers are |
| `proxy` | `MCProxy`, `proxy.cfg` | 1,251,654 | table, masters, sockets and structs match, to the end of `main()`, over a table that fills; a callback touches its own connection only; what is taken for connected is; all up to the reuse of a stale number |
| `names` | `MCResolution`, `names.cfg` | 120,417 | a line is refused for its first fault, or at a limit, or taken at its word; the query asks for its host; the parsers decide as `DohUnits` says wherever a response is cut, and file each address in its place |
| `sniff` | `MCSniffer`, `sniff.cfg` | 457,116 | each byte is examined once and in order while nothing is read behind unsent bytes; the log has the credentials that were accepted, and the response once |
| `manage` | `MCManagement`, `manage.cfg` | 269,271 | answers belong to their requests until a receive fails, and are true, settings and the gauge included; they come if nothing is lost |
| `log` | `Logger`, `log.cfg` | 22,394 | waiting lines keep their order and are written; none is cut on a pipe |
| `gauge` | `relay` without resets | violation | the collector counts an inactive connection out twice |
| `stale_fd` | two names to resolve | violation | a connection acts on another's descriptor |
| `stale_bytes` | datagrams of two lengths | violation | a short datagram takes its value from an earlier one |

### Bounds, and why they are enough

- `Capacity` (2 to 5): the limit of a buffer. With 2 a buffer is empty, partly read,
  full, and full with room in front; 3 (relay, resolve) adds a partial read and a
  partial send that leave both contents and room.
- `ClientBytes`, `HostBytes`: 5 and 3 in `relay` exceed a buffer, so it fills and wraps
  in both directions (the request line of 2 included). The other runs ask about the
  resolver, or progress, and need only that bytes exist.
- `MaxAnswers` 2: an answer of the wanted type, one of another, and two attempts.
  `ExtraUnits` 1: bytes after a complete response.
- `TryModulus` 256 is the width of `current_try`. With `MaxAnswers` below it no run wraps
  (a header cut within `ANCOUNT` counts 256, but has no table to run over); the proofs
  carry the condition explicitly.
- `CounterMax` 3, `OtherConnections` 1: small counters that still saturate, and a client
  whose count a wrong decrement would take. `progress` uses 1 and 0.
- `Memory`: the size set for buffers when the client is accepted, apart from `Capacity`,
  the limit `BUFFER_SIZE`. Only `TypeOK` speaks of it. `PeerStalls`: whether a send may
  fill the kernel's buffer, which the peer empties when it reads, or never.
- `Clients` 3, `FdMax` 6, `ItemsMax` 6 in `proxy`, with both listening sockets (0 and 1):
  five descriptors for up to six sockets, so `accept()` and `socket()` find no number left
  and freed numbers are taken by others within one iteration; and one number, 6, for which
  the table has no room, so `register_origin_socket` fails and leaks it. `RelayInterests`
  are the interests that matter to visits: both sides both ways, and only reading.
- `Together`: how many connections of each kind there are at the same time: two of any
  kinds, or three to hosts by name, whose resolutions then run side by side.
- `StaleUnused`, a constraint of `proxy`: a behaviour is followed up to and including the
  first state in which a number that a resolution has given back, and still keeps in
  `origin_fd`, has an item again. Beyond it `Isolated` is false: `stale_fd` goes there.
- `Answers` 256, `AnswersSent` 3 in `names`: a count is announced up to the one whose high
  octet is not zero, so that a response may break off between the two; of 256 answers none
  is sent. Answers of several types before, between and after one
  another, names as labels and as pointers, cut after every byte.
- `MaxMethodLength` 9, `MaxFqdnLength` 9, `MaxOriginForm` 5 in place of 24, 255 and 1024,
  `MaxLabel` 5 for 63, `OctetModulus` 25 for 256: limits small enough that texts just
  below, at and beyond them are all said. `MaxPortLength` and the modulus of a port are
  the real ones, with ports below 65536, above it and of six digits. The texts have one at
  fault for each way a part can be, and two for the parts whose limit and characters are
  both checked.
- `MaxUserLength`, `MaxPasswordLength` 3, `MaxAuthValueLength` 8 in place of 40, 40 and
  1024: a name below and one at its limit. `Portions`: a read or a send moves one byte,
  all, or all but one of what it could; every position in a stream is still reached, one
  byte at a time. The 13 sessions have each protocol accepted, refused, in pieces, in
  capitals or not, without a colon, without padding, and none.
- After an examination that began at the wrong place `Sniffer` follows a session no
  further: what is found from there on depends on bytes examined twice or never, and no
  property could say more than that.
- `RequestsMax` 2, `OthersMax` 1, `CountMax` 1 in `manage`: two requests show an answer
  taken for the next one, and a counter of 0 or 1 goes up, saturates and, the gauge, goes
  down. `FailsMax` 1: one failed `recvfrom()` already makes a surplus reply; the proof has
  any number. `Lengths` {4}: the other client's datagrams end before their value field, so
  that the service completes them with an earlier one's; `stale_bytes` has whole ones (6)
  too. `Networks`: one that loses and one that does not. `Entered` has the ends of ranges
  and 65540, which a 16-bit value takes for 4.
- `Lines` 6, `LineLength` 2, `PipeSize` 5, `Capacity` 5 in `log`: a pipe and a buffer
  that fill in the middle of a line.

`Clients` are interchangeable in `Proxy` (no initial state, action or property tells one
from another, and no liveness is checked), so its runs use symmetry.

Deadlock is checked except in `manage`, `stale_bytes` and `log`: there the number of
requests or lines is bounded and the system goes quiet after the last. In `Connection`,
`Resolution` and `Sniffer` the step `Over` stands for what follows a release, a refusal
or the last of what is said; in `Proxy` the loop can always select again, and `Stopped`
follows `Shutdown`.

### Fairness

Only `progress`, `manage` and `log` assume any, all of it weak.

- *The four callbacks.* `selector_select` visits in ascending order every descriptor
  that is ready and watched, and a callback disables itself only by making progress, so
  one continuously enabled is called.
- *`BecomeIdle`, `connection_garbage_collect`.* Time passes, and the loop calls the
  collector at each interval because `pselect()` has a timeout.
- *`ConnectEnds`.* The kernel ends each `connect()`, by success or by timeout.
- Peers have none: they may stop sending, reading or closing at any point. A send can
  leave the socket full (`full`), and only `PeerReads`, which nothing obliges the peer to,
  makes it writable again. `BecomeIdle` may then come while bytes are still buffered, and
  the collector releases the connection as inactive. So `ErrorReported` and
  `HalfCloseForwarded` except two things, and no other: a peer that breaks off (a reset),
  and one that has read nothing for `inactive_threshold` seconds (`Stalled`). A peer that
  is slow but reads in time gets everything.
- *`management_read`, `CtlReceives`.* The same loop; and the operating system runs
  `httpdctl`. `EventuallyAnswered` asks nothing of a network that loses.
- *`Select`, `logger_on_write_ready`, `ReaderReads`.* The loop, and a reader that goes
  on reading its pipe or terminal. Without the last the log may wait for ever.

## 4. Proofs

The theorems hold for all values of the constants that satisfy the assumptions named in
the modules: `CapacityAssumption` (a buffer has a positive limit), `ConnectionAssumption`
(types; a request line has at least one byte; a composed message fits an empty buffer; the
count of other connections leaves room for this one), `SelectorAssumption`,
`ProxyAssumption` (types, and a listening socket that the table has room for) and
`ManagementAssumption` (types), `TextsAssumption` (texts have lengths, which the prover
does not know of strings), `LoggerAssumption` (a line fits an empty buffer); for a
resolution `LineAssumption` (a line can be taken apart: the text of a part has no
character that would have ended it, and a word that is expected is said or differs from
what is said before either ends; limits are numbers), `QueryAssumption` (a character has a
code, a label is shorter than a pointer's first octet), `ResponseAssumption` (a count of
two octets, the buffer of a name as long as `uint8_t` allows), `SentAssumption` (the texts
of the server are what they are called: a head that the head parsers take, an address of
the length of its type) and `ResolutionAssumption` (texts are characters that have a code;
a name is shorter than the modulus of a query's length, as `MAX_FQDN_LENGTH` is, which
does not keep the whole query below it). Nothing bounds the streams, the answers, the
connections, the descriptors, the counters, the sessions, the requests, the names, the
heads or the lines of the log.

| Module | Theorem | Says |
|---|---|---|
| `BufferProofs` | `BufferInvariant` | pointers ordered within the memory, an empty buffer is at its start |
| | `BufferRefinesFifo` | `Spec => RefinesFifo`: every call of `buffer.c`, compaction included, is a step of the bounded queue |
| `ConnectionProofs` | `ConnectionInvariant` | `Spec => []IInv` |
| | `TypeCorrect` | `TypeOK`; in particular no read and no composed message takes a buffer past its limit, nor past its memory if the size set was no smaller than the limit |
| | `NeverAborts` | `DispatchHandled`: no descriptor is watched for an operation the state has no handler for |
| | `NoUseAfterFree` | `NoOrphanOrigin`: the origin's item never outlives the struct it points to |
| | `FreedAnswersUnvisited` | `NoDanglingAnswers`: nothing visits the answers freed between the two queries |
| | `RelayInvariant` | `Spec => [](IInv /\ RInv)` |
| | `TransfersNotEmpty` | `NoEmptyTransfer`: no handler receives into a full buffer or sends from an empty one |
| | `WaitsForSomething` | `AlwaysWatched`: some descriptor of a connection in use is watched |
| | `EndAfterDelivery` | `HalfCloseAfterDelivery` |
| | `CountedOut` | `GaugeNeverLeaks` |
| | `StreamInvariant` | `Spec => [](IInv /\ RInv /\ SInv)` |
| | `UploadArrives`, `DownloadArrives` | `UploadIntact`, `DownloadIntact`: each byte once and in order, in both directions |
| | `ResolverKept` | `ResolverIsolated`: the dialogue with the resolver and the streams do not mix |
| | `LifecycleInvariant` | `Spec => [](IInv /\ RInv /\ LInv)` |
| | `ImplementsLifecycle` | `KeepsToLifecycle`: `Connection` implements `Lifecycle` |
| | `ResolutionAdvances` | `TriesAdvance`, an action property |
| | `LoopsEnd` | `HandlersReturn` |
| `ProxyProofs` | `ProxyInvariant` | `Spec => []IInv` |
| | `MastersTold` | `MastersMatch`: `pselect()` is told of every watched descriptor and no other |
| | `SocketsRegistered` | `DescriptorsMatch`: items and open sockets are the same, within the table and but for `proxy_fd_4` at the end |
| | `ItemsHaveOwners` | `ItemsOwned`: each item's struct is in use and has the item's descriptor |
| | `KeysStayValid` | `KeyStillValid`: the key read before the read callback serves the write callback |
| | `CallbacksKeepApart` | `Isolated`: a step is a step of one connection at most |
| | `ConnectedOrOpened` | `ConnectedWhenSaidSo` |
| | `EachImplementsLifecycle` | `EachKeepsToLifecycle`: each connection of `Proxy` implements `Lifecycle` |
| `ManagementProofs` | `ExchangeInvariant` | `Spec => []IInv` |
| | `AnswersMatch` | `AnswersOwnRequest`: what `httpdctl` shows is the answer to what it has just asked until a `recvfrom()` of the service fails; after that to something it has asked, with no more on its way than the failures account for |
| | `TruthInvariant` | `Spec => [](IInv /\ TInv)` |
| | `RetrievalsFresh` | `FreshRetrieval` |
| | `SuccessIsTrue` | `SuccessMeansDone` |
| `SnifferProofs` | `PositionsInvariant` | `Spec => []IInv` |
| | `ExaminedOnce` | `ExaminedInOrder`: each byte once and in order, while nothing is read behind unsent bytes |
| | `LoggedOnce` | `Spec => []LogFollows`: the log has the credentials the sniffer keeps if it is done, the response if its status line has been read, and neither twice |
| `LoggerProofs` | `LoggerInvariant` | `Spec => []Inv` |
| | `LinesWhole` | `OnePerLine`: a line on a pipe is never cut by another |
| | `LinesInOrder` | `WaitedInOrder`: the lines that had to wait come out in the order they were logged |
| `ResolutionProofs` | `ResolutionInvariant` | `Spec => []ResolutionInv` |
| | `QueryIsForHost` | `QueryNamesHost`: as far as a query is announced the resolver reads the host of the request line in it or, if that is too long, none; never another |
| | `ParsersDecide` | `DecisionsAgree`: fed byte by byte, the parsers decide what `DohUnits`, and so `Connection`, says they do |
| | `TableIsFaithful` | `TableFaithful`: each address told is in its place in the table |
| `RequestLineProofs` | `LineFits` | `Spec => [](LineInv /\ Fits(said, rest, line, request))` |
| | `LineIsDecided` | `LineDecided`: a line is refused for its first part at fault by the parser's header, or at its limit, and accepted if it has none |
| | `TargetIsAsSaid` | `TargetAsSaid`: the target and the line sent on are the ones the client named |

**Buffers.** Each call is compared with the queue whose contents are the bytes between
the pointers and whose `skip` is the read pointer. A write changes bytes past the write
pointer only, so the contents are extended; a read moves one pointer, so they are cut in
front; `memmove` is shown, index by index, to leave the same sequence at another place.

**A connection: `IInv`.** `TypeOK`, `DispatchHandled`, `NoOrphanOrigin` and
`NoDanglingAnswers` are not inductive. `IInv` adds:

- `ReadWasSent`: the proxy has read no more than a peer has sent. A byte read is
  numbered among those sent, which the next conjuncts rely on.
- `OriginBufferFree`: in `PARSING_REQUEST_LINE` and `TRY_CONNECTION_IP` the origin's
  buffer is empty. Arrivals in `SEND_DOH_REQUEST` and `SEND_REQUEST_LINE` write their
  message without looking at the room; this is why it fits. The error page is composed
  after a reset.
- `LineIncomplete`: the parser leaves nothing unread while it waits for more, so a read
  always has room.
- `ReplyBuffered`: a byte buffered in `AWAIT_DOH_RESPONSE` stands for a unit of the
  present reply, so that parsing it is defined.
- `PeerKnown`: whom the origin's socket reaches, by the state; it decides what
  `TRY_CONNECTION_IP` does next.
- `ResolutionPhase`: the response belongs to an active query while one is awaited;
  between the queries it is exhausted and the next type is AAAA. This is what makes
  `NoDanglingAnswers` inductive: `try_next` is entered again when the connection for the
  AAAA query fails, over a response whose answers are freed, and stops at once because
  its counter has reached the count it kept, or because of its rcode.

The proof has a lemma for the arrival of each state (`EnterErrorOK`, `SettleClosingOK`,
...), which states what it leaves (`SettledAs`); one for each handler, which shows that
its outcomes meet the arrival's premise; and a step per action. States of which `IInv`
asks nothing beyond types share `QuietIInv`.

**Relaying: `RInv`.** `NoEmptyTransfer` speaks of interests and of buffers, which the
handlers of two descriptors change in turn; it is kept only because after each handler
the interests are a function of the buffers and the statuses (`Watched`, by state). To
recompute them one needs what the statuses are in each state (`StatusKnown`), which
buffers a state needs filled (`Holding`), and that an emptied buffer is compacted, so
that it has room again (`Compacted`). `AlwaysWatched` then follows state by state: in
`CLOSING`, for instance, the side that has not ended is read unless its buffer is full,
and a full buffer is what the other side is watched for. `Ending` and `EndPassed` relate
the end of a stream to the statuses: a side is `CLOSING` only when all it sent has been
read and some of it is still buffered, `CLOSED` when it has been passed on. `Counting`
says on which side of `register_new_connection` each state is. All of it is asked of
handlers that return (`~hung`), except what the peers have seen.

**Streams: `SInv`.** `Flow` says where the bytes are in each state: what the peer has
got, then what is buffered for it, is a run of what was sent, with the message of the
proxy's own in front. `UploadIntact` alone is not inductive because the client's bytes
are read long before there is a host (`LeftOver` of the request line's read waits
through the whole resolution), and because the origin's buffer carries the query, the
response, the rewritten line and the host's stream in turn. `Addressed` keeps the two
servers behind the same socket field apart. For CONNECT the run may begin anywhere
behind the request line, since what came with it is dropped.

**The lifecycle: `LInv`, and the refinement.** With the mapping of `ConnectionLifecycle`
each handler's outcome is one action of `Lifecycle`, or leaves its variables alone.
`LInv` adds what the mapping needs beyond `IInv` and `RInv`: no response has been
allocated while the first query is for A, a query is composed only between two responses,
and a connection begins without an origin. `TriesAdvance` comes from the same case
split. `HandlersReturn` needs two facts about the reply: each unit is one that may follow
those before it (`Grown`), and the parsers were fed a prefix of it, all of it while they
want more (`Parsed`). So bytes that are left in the buffer by a complete response are
extra units, and there is no other way for the loop not to end.

**Several connections: `Sound`, `Underway`, `Keeps`.** In `Proxy` a callback makes several
calls, and what must hold between callbacks does not hold between those calls. `Sound(w)`
is the invariant of a world between callbacks: `SelectorSound` (the master sets and
`max_fd`), `ItemSound` of each descriptor (its item, its owner and its socket),
`ConnectionSound` of each struct (it has its client's item; its origin's in the phases
that have one; what an `origin_fd` without an item may be). `Underway(w, c)` is the same
in the middle of a callback of `c`, about whose origin nothing is said. `Keeps(w, v, c)`
is what any sequence of calls made for `c` leaves alone: the other structs, and every
descriptor that is not `c`'s before and after. It is transitive, so a lemma for each call
(`SetInterestIs`, `OriginGone`, `RegisterOriginRegisters`, `ClientGone`, ...) gives one
for each callback (`ClientReadLives`, ...), and those give `Lives`, which says what a
callback can do to its connection. The refinement compares `Lives` with `Lifecycle`,
action by action. The descriptors that are left to visit need an invariant of their own,
`VisitSound`: the key of the descriptor being visited is still its item's, and a socket
that is pending, but is going to be visited, was opened in this iteration.

The theorems of `ProxyProofs` are about the behaviours in which `StaleUnused` always
holds: `Spec /\ []StaleUnused => ...`. When a resolution has run out of attempts
`origin_fd` keeps the number it has given back, and `StaleUnused` says that no such number
has an item again. The code does not see to that: where it fails one connection acts on
another's descriptor, and `Isolated` with the rest is false (the run `stale_fd`). So this
is the exact circumstance in which the code goes wrong, and nothing is assumed of who is
connected with whom: any number of clients may resolve names at once, and the table may be
full. What `register_origin_socket` leaks then is in `Stale` and `ItemSound` as a number
beyond the table, which nobody else can be given.

**The management service: `IInv`, `FInv`, `TInv`.** Nothing in a reply says which request
it answers, so `AnswersOwnRequest` rests on how many there are. A request of `httpdctl`
is on its way or has been received; `management_read` takes it off and sends one reply;
`httpdctl` takes that and asks again. The number of the two together (`OnTheirWay`) is
therefore one at most while it waits and none otherwise, until a `recvfrom()` of the
service fails: then the request that the static buffer keeps is answered once more
(`ServesAgain`), and each failure can leave one more datagram on its way. `IInv` is that
count with what it needs: every datagram and reply of `httpdctl`'s is to a request that it
has made (`Requests`, `Answers`), and to the last one while nothing has failed; and
what the service keeps, when it is from `httpdctl`, is one of those requests (`Kept`),
whole, well formed and with the passphrase that `build_request` writes, so that it has one
reply and not the two of `management.c:305`. This needs no hypothesis on the other
clients, whose datagrams may have any length.

`FInv` is about retrievals: `seen` is the history of what the service would have said
since the request was made, and every step that may change it adds to it, so a value that
was retrieved after the request is in it, whether the gauge has gone up or down and
whoever has changed the setting. That a value survives eight octets is `RoundTrip`, by the
digits of `Octets`. It holds after failed receives too, of answers that are to the request
they are shown for.

`TInv` is about changes: while nothing has failed, a success that is on its way or shown
means that the setting is as told (`Done`). Its hypothesis, stated with the theorems that
need it, is `OthersChangeNothing`: the datagrams of other clients have a type of their own,
and ask for no change or lack the passphrase. Where another client may change a setting,
what `httpdctl` was told is out of date as soon as it does. After a failed `recvfrom()` an
earlier request of `httpdctl` itself may still be in its socket's queue when the reply to
it, sent twice, has been taken for the next one's; served late, it undoes a change already
reported. The run `manage` has clients as the hypothesis asks.

**The sniffer: `IInv`.** `ExaminedOnce` is about positions in the streams; what the
parsers make of the bytes enters only in that one which has ended stays so. Each
examination covers as many bytes as were read, from the first unsent one on (`ExaminedIs`).
If it is not the continuation of the last one, then bytes had arrived that were not
sent, which is `crowded`. That
the status line's parser is not led past the last byte while the sniffer works needs
`NothingLeft`: the end of a stream is examined with the last count, and `sniff_data` has
set it to zero. `Untouched` is what the first examination, of the bytes behind the
request line, begins from. The hypothesis is `PortionsMove`: `recv()` and `send()` move
one byte at least, and not more than there are.

`LogFollows`, the part of `LoggedAsSaid` that does not depend on what is said, needs no
hypothesis and holds after an examination that went astray too: with the one in which a
parser comes to its end it stops being asked (`Sniffing`, `ParsingStatus`), so its state
tells what the log has, given where both begin (`Fresh`).

**The logger: `Inv`.** `WaitedInOrder` selects from a sequence, a recursion the prover
has no facts about; `InOrder` states the same by positions, in what was written followed
by what waits. A line that is written at once goes in between the two, which leaves the
order of those that wait (`InsertOthers`); a line that waits goes to the end, and is later
than all before it because it is the last logged (`Numbered`). `OnlyWholeLines` is why
nothing is cut on a pipe: both halves are whole lines, since a pipe takes a line or
nothing.

**A resolution: `ResolutionInv`.** The invariant is two. `LineInv` follows the host from
the octet it is parsed from to the query: the parser leaves fewer characters than an octet
can count, so a label's length does not wrap. The length of the query may: header, labels
and type are 18 octets more than the host. `QueryAsksForHost` has both cases. Where it
does not wrap the resolver reads the same name, whose labels are found by the recursive
function `LabelStarts`; where it does, 17 octets at most are announced, of which 16 are
not the name's, so no label of one is read. `ResponseInv` says of every moment in which
unit of the response the parsers are, how many of its octets they have been fed, and that
their state is the one that place calls for (`Within`), or that nothing was asked or is to
come (`Idle`), or that there was no memory (`Stuck`). The split of the bytes over reads
has no part in it, so the decision cannot depend on it: `DecisionsAgree` and
`TableFaithful` follow from the place alone. What the recursive functions compute for
every input, the labels of a name (`LabelStarts`) and the decision on a head (`Decides`),
is proved by the least-element argument of `Induction`, for a set of numbers that the
function has the property up to; the library's own induction theorems, which take an
operator, are not needed.

**The line: `Fits`.** `LineDecided` and `TargetAsSaid` compare what the parser has made of
a line with what the parts of it say, so neither is inductive: while a part is being sent
they say nothing of the characters already fed. `Fits` says it at every character:

- `Ordered`: the parts are texts of their kinds, in an order `Follows` allows, and a host
  comes before whatever is set off from it.
- `Arrived`: after `c` characters of the last part the parser has the state, the count and
  the fields of `Progress`, or has refused it for its fault (`RefusedFor`); the parts
  before had no fault and have left what they say (`Leaves`), 80 for a port and `/` for a
  path that were not said.
- `Placed`: a port, a path or a version begins with the character that ends the part
  before it, so until that has been fed the parser is still in the part before.

There are lemmas of three kinds, one of each for every part: one more character of a part
keeps `Progress`, its last gives what it leaves or its fault, and the first character of
the next part is met in the state that `Progress` of no character calls for. What a port's
digits come to is the recursive function of `Number`, compared with the parser's count by
`Induction`; below five digits the 16 bits do not overflow. `Fault` is what
`request_line_parser.h` states, by grammar and limits, a port by its number. What the
parser does otherwise has names of its own, `AtLimit` for what is refused although good and
`Tolerated` for what is taken although not; `AnsweredWith` puts the three together.

The invariants were checked by TLC before they were proved, `Sound` and `VisitSound` on
the run `proxy`, those of `Management`, `Sniffer`, `Logger` and `Resolution` on `manage`,
`sniff`, `log` and `names`, the others on `relay` and `resolve`.

**Only model-checked.** Liveness (`progress`, `manage`, `log`): temporal properties
under fairness are out of the prover's reach, as is `ENABLED`. `LoggedAsSaid` of
`Sniffer`, but for the part that is `LogFollows`: a session is TLA+ strings, cut into
characters, and the sniffer is folded over them; the prover has neither the characters of
a string nor a fact about folds, and what a login is in an arbitrary session could only be
said by the parser itself. The run `sniff` checks it over thirteen sessions.
`ChangesCarryTheirValue` of `Management`, which is false. The modules proved about contain
no `RECURSIVE` operator.

## 5. What was found

Three disagreements have a run (`gauge`, `stale_fd`, `stale_bytes`); `PROJECT.json`
quotes the sentence each one contradicts. The models follow the code. The passing runs
end where those of `stale_fd` begin, by a named constraint (`StaleUnused`), not by
changing an action.

Met while modelling, kept in the models where they matter, without a run:

- `await_doh_response.c:32` loops while the buffer has bytes, but takes none once the
  response is complete: bytes after it never let the handler return. `HandlersReturn`
  states it as the only way, with the next two, that a handler does not return.
- `doh_utils.c:185`: `current_try` is a `uint8_t` and `ancount` a `uint16_t`; with 256
  answers or more the attempts start over. `TriesAdvance` carries the condition.
- `doh_parser.c:265`: `ANCOUNT` counts from its first octet, and the table is allocated with
  the second. A response that ends between the two makes the loops over the answers run
  over a null table; `HandlersReturn` has it among the ways a handler does not return.
- An answer counts as soon as its type has been parsed; if the resolver closes then, its
  address is tried although it never arrived (`Offers` of a cut unit).
- `httpd_states.dot:21` has no edge from `TRY_CONNECTION_IP` to `CONNECTED`, which
  CONNECT requests take; the comment at `connected.c:13` is about a different entry.
- `management.c:305`: a wrong passphrase is answered, and then the request is answered
  as well. `httpdctl.c:224-230` writes the passphrase itself, the one that
  `management.c:145` compares with, so it is not the client that this happens to.
- `management.c:300`: a failed `recvfrom()` is logged, and the request that the static
  buffer still holds is served again and answered to an address nobody has set. From then on
  `httpdctl` may show the reply to an earlier request; `AnswersOwnRequest` counts them.
- `httpdctl.c:219` truncates a typed value to 16 bits; `SuccessMeansDone` says so.
- `connections_manager.c:144`: a buffer is allocated with the configured size (`Memory`) and
  limited by a constant (`Capacity`). After `set_buffer_size` with less the proxy writes
  behind it; `TypeOK` speaks of the memory for `Capacity <= Memory` only.
- `connections_manager.c:319`: when the selector's table is full the origin's socket
  stays open. `DescriptorsMatch` is about the numbers that the table has room for.
- `logger.c:86`: on a terminal a write that takes part of a line drops the rest.
  `OnePerLine` speaks of a pipe.
- `httpd.c:119-121` closes one of the listening sockets twice and the other not at all;
  `CloseListeners` does the same, and `DescriptorsMatch` excepts that socket.
- `connections_manager.c:371`: a connection whose peer has not read for the whole of
  `inactive_threshold` is released with what it holds for it, the end of a stream or an
  error page included (`Stalled`).
- `selector.c:519`: a descriptor found ready, closed and opened again by callbacks of
  the same iteration is visited with the old bit. In `TRY_CONNECTION_IP` the new socket
  is then taken for connected while it is pending, as `SO_ERROR` is still 0.
  `ConnectedWhenSaidSo` makes the exception by `visit.opened`; the send that follows
  fails and the connection is released.
- `request_line_parser.c`: a limit is looked at before the terminator, so a port of five
  digits is answered with 400, although `request_line_parser.h:49` gives the limit as
  that of 65535 (`AtLimit`), and a second digit of a version with 505. A
  version of one digit or none is accepted whatever it is, as is a method of no character
  (`Tolerated`). A port without digits is 80 swapped twice, 20480. A bracket that is not
  closed costs the literal its last character, and is accepted if the rest is an address.
- `parsing_request_line.c:131-134` gives `inet_ntop` the socket address for the IP
  address: the target that is logged for such hosts is not the host's. The connection
  goes to the right one.
- `parsing_request_line.c:62` drops what a CONNECT request brings behind its request
  line in the same read, and sends on what comes later.
- `doh_utils.c:79`: the length of a query is announced modulo 256, so of a host of 238
  characters or more nothing can be read. `QueryNamesHost` says so.
- `connected.c:35` and `sniffer_utils.c:23` examine from the read pointer. When a read
  finds unsent bytes in the buffer, they are examined again and the new ones in part or
  never (`skewed`); with the sniffer off or done, the end of the host's stream leaves
  the last count, and the status line's parser is fed from behind the last byte
  (`overread`).
- The sniffer follows one command at a time: a POP3 client that sends two at once, a
  login after one that failed, a name at its limit or a CONNECT head that is read in two
  parts is not logged (`Followable`).
- `sniffer_parser.c:442`: Basic credentials without a colon log a password of bytes from
  behind the text.

## 6. Not modelled, and why

`logger_utils.c` (formatting of a line from a connection's fields), the arguments of
both programs and the start up to the loop (straight-line code before anything
interleaves), the logger's buffers at the end of `main()` (freed as they are: lines
still waiting are lost, and no callback after that logs), the selector's blocking jobs
(nothing in the program calls `selector_notify_block`), and growing its table (it starts
with its largest size). The composition of `Sniffer` with `Connection` is not made: the
sniffer changes nothing a connection depends on, and the two together are beyond
enumeration.

## 7. Plan

Done, in this order: `ByteQueue`/`Buffer`/`Fifo` and their refinement; `Connection` with
its peers; `DohUnits`; the properties, the liveness, `Lifecycle`; `Selector` and
`Proxy`, the most entangled part, against the same `Lifecycle`; `DohResponse`,
`Management`, `Logger`; the proofs of `Buffer` and of `Connection`; then `RequestLine`,
`DohQuery` and `Resolution`, `SnifferParser` and `Sniffer`, the end of `main()` in
`Proxy`, and the wire format in `Management`.

Done as theorems: the buffers; every safety and action property of the runs `relay`,
`resolve` and `proxy`, and both refinements of `Lifecycle`; those of `manage` and `log`;
every invariant of `names`; and of `sniff` `ExaminedInOrder` and that the log follows the
parsers.

Done since: peers that stop reading, the size of a buffer's memory, the count without a
table, the full table and both listening sockets, failed receives and the gauge in
`Management`, the header's limits in `RequestLine`; and all theorems again over them, those
of `ProxyProofs` without a bound on who resolves.

Next, as models: what follows the reuse of a stale number beyond the step in which
`Isolated` fails, and what a write behind a buffer's memory overwrites.
