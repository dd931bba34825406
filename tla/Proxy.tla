-------------------------------- MODULE Proxy --------------------------------
(***************************************************************************)
(* The whole proxy around its selector: the listening sockets, the         *)
(* connections of several clients, one table of items and one number space *)
(* of descriptors.  selector_select() takes a snapshot of what is ready    *)
(* and handle_iteration() then visits the descriptors in order, while the  *)
(* callbacks it runs close, open and register others.                      *)
(*                                                                         *)
(* A connection is reduced to what decides on descriptors: its phase (the  *)
(* states CONNECTED, CLOSING and EMPTY_BUFFERS are RELAY), its fields      *)
(* client_fd, origin_fd and origin_status, and the phase of its name       *)
(* resolution.  Which outcome a callback has, among those its state gives  *)
(* it, is left open: Connection says which bytes lead to which.            *)
(*                                                                         *)
(* A world is what callbacks work on: the selector's table, the            *)
(* connections and the kernel's sockets.  A callback is written as the set *)
(* of worlds it may leave.  The operators commented "Mutant" are plausible *)
(* bugs that nothing uses (see Selector).                                  *)
(***************************************************************************)
EXTENDS Selector

CONSTANTS
  Clients,          \* the connections that can exist at the same time
  HostKinds,        \* how requests name their hosts: "ip", "domain"
  Together,         \* bound: how many of each kind are connected at the same time
  RelayInterests,   \* what the relaying states watch: [client, origin]
  proxy_fd_6,       \* the listening sockets of main(), NoFd for one it does without
  proxy_fd_4

Listeners == {proxy_fd_6, proxy_fd_4} \ {NoFd}

ASSUME ProxyAssumption ==
  /\ HostKinds \subseteq {"ip", "domain"}
  /\ Together \subseteq [ip : Nat, domain : Nat]
  /\ RelayInterests \subseteq [client : SUBSET Operations, origin : SUBSET Operations]
  /\ "none" \notin Clients
  /\ proxy_fd_6 # proxy_fd_4
  /\ \A fd \in Listeners : fd \in Fd /\ fd < ItemsMax

VARIABLES
  selector,  \* the selector's table and master sets
  conn,      \* the connections' structs
  sock,      \* the kernel's sockets, by descriptor
  visit      \* what handle_iteration() has left to visit

vars == <<selector, conn, sock, visit>>

World == [selector |-> selector, conn |-> conn, sock |-> sock]

NoConnection ==
  [phase |-> "FREE", client_fd |-> 0, origin_fd |-> 0, attempted |-> FALSE,
   host |-> "ip", doh |-> "none"]

\* The kernel gives the lowest number that is free, if there is one
FreeFds(w) == {fd \in Fd : w.sock[fd] = "free"}
NextFd(w) == CHOOSE fd \in FreeFds(w) : \A other \in FreeFds(w) : fd <= other

-----------------------------------------------------------------------------
(* Calls on descriptors *)

SetInterest(w, fd, interest) ==
  [w EXCEPT !.selector = selector_set_interest(@, fd, interest)]

Watch(w, c, client, origin) ==
  SetInterest(SetInterest(w, w.conn[c].client_fd, client), w.conn[c].origin_fd, origin)

\* Mutant: the struct is freed, its descriptor stays open
ClientClose_LeavesOpen(w, c) == [w EXCEPT !.conn[c] = NoConnection]

\* proxy_client_close: the descriptor is closed and the struct freed
ClientClose(w, c) ==
  [w EXCEPT !.sock[w.conn[c].client_fd] = "free", !.conn[c] = NoConnection]

\* proxy_origin_close
OriginClose(w, fd) == [w EXCEPT !.sock[fd] = "free"]

\* selector_unregister_fd, which calls the handle_close of the item
Unregister(w, fd) ==
  IF ~Known(w.selector, fd) THEN w
  ELSE LET item == w.selector.items[fd]
           closed == CASE item.handler = "client" -> ClientClose(w, item.data)
                       [] item.handler = "origin" -> OriginClose(w, fd)
                       [] OTHER -> w
       IN [closed EXCEPT !.selector = Forget(@, fd)]

\* close_proxy_connection and done_on_arrival
Release(w, c) ==
  LET origin_gone == IF w.conn[c].attempted THEN Unregister(w, w.conn[c].origin_fd) ELSE w
  IN Unregister(origin_gone, w.conn[c].client_fd)

\* Mutant: the origin is unregistered early, its status and number stay
Fail_ClosesOrigin(w, c) ==
  LET failed == SetInterest([w EXCEPT !.conn[c].phase = "ERROR"], w.conn[c].client_fd, {"WRITE"})
  IN IF w.conn[c].attempted THEN Unregister(failed, w.conn[c].origin_fd) ELSE failed

\* Going to ERROR
Fail(w, c) ==
  LET failed == SetInterest([w EXCEPT !.conn[c].phase = "ERROR"], w.conn[c].client_fd, {"WRITE"})
  IN IF w.conn[c].attempted THEN SetInterest(failed, w.conn[c].origin_fd, {}) ELSE failed

\* Going to a phase and its interests
Go(w, c, phase, client, origin) ==
  Watch([w EXCEPT !.conn[c].phase = phase], c, client, origin)

Relay(w, c) == {Go(w, c, "RELAY", i.client, i.origin) : i \in RelayInterests}

\* register_origin_socket with a new socket, and what its caller makes of it
RegisterOrigin(w, c) ==
  LET fd == NextFd(w)
      opened == [w EXCEPT !.sock[fd] = "pending", !.conn[c].origin_fd = fd,
                          !.conn[c].attempted = TRUE]
  IN IF ~Registrable(w.selector, fd) THEN Fail(opened, c)
     ELSE Go([opened EXCEPT !.selector = selector_register(@, fd, "origin", {"WRITE"}, c)],
             c, "TRY", {}, {"WRITE"})

\* Where establish_origin_connection gets a socket
Registered(w, c) == IF FreeFds(w) = {} THEN {} ELSE {RegisterOrigin(w, c)}

\* establish_origin_connection may fail
OpenOrigin(w, c) ==
  Registered(w, c) \union {Fail([w EXCEPT !.conn[c].origin_fd = NoFd], c)}

\* Mutant: the failed socket stays registered while the next one is opened
TryNext_KeepsFailed(w, c) ==
  CASE w.conn[c].doh = "A" ->
         Registered(w, c) \union OpenOrigin([w EXCEPT !.conn[c].doh = "between"], c)
    [] w.conn[c].doh = "AAAA" -> Registered(w, c) \union {Fail(w, c)}
    [] w.conn[c].doh = "between" -> {Fail(w, c)}

\* try_next_dns_connection: the next answer, the AAAA query, or ERROR with
\* origin_fd still the number that was unregistered, or that of a failed attempt
TryNext(w, c) ==
  IF ~Known(w.selector, w.conn[c].origin_fd) THEN {Fail(w, c)}
  ELSE LET gone == Unregister(w, w.conn[c].origin_fd)
           GiveUp(fd) == Fail([gone EXCEPT !.conn[c].origin_fd = fd], c)
       IN CASE w.conn[c].doh = "A" ->
                 Registered(gone, c) \union OpenOrigin([gone EXCEPT !.conn[c].doh = "between"], c)
            [] w.conn[c].doh = "AAAA" ->
                 Registered(gone, c) \union {GiveUp(w.conn[c].origin_fd), GiveUp(NoFd)}
            [] w.conn[c].doh = "between" -> {GiveUp(w.conn[c].origin_fd)}

-----------------------------------------------------------------------------
(* The callbacks.  Each may also find that its peer has broken off, or has  *)
(* ended, and release the connection.                                       *)

Acceptable(w, c, host) ==
  LET Others(kind) == {d \in Clients : w.conn[d].phase # "FREE" /\ w.conn[d].host = kind}
      With(kind) == Cardinality(Others(kind)) + (IF kind = host THEN 1 ELSE 0)
  IN
  /\ w.conn[c].phase = "FREE"
  /\ Registrable(w.selector, NextFd(w))
  /\ [ip |-> With("ip"), domain |-> With("domain")] \in Together

\* accept_new_connection: it fails without a descriptor, memory or an item
AcceptNewConnection(w) ==
  LET Accepted(c, host) ==
        [w EXCEPT !.sock[NextFd(w)] = "up",
                  !.conn[c] = [NoConnection EXCEPT !.phase = "PARSING",
                                 !.client_fd = NextFd(w), !.host = host],
                  !.selector = selector_register(@, NextFd(w), "client", {"READ"}, c)]
      accepted == {pair \in Clients \X HostKinds : Acceptable(w, pair[1], pair[2])}
  IN {w} \union IF FreeFds(w) = {} THEN {}
                ELSE {Accepted(pair[1], pair[2]) : pair \in accepted}

ClientRead(w, c) ==
  {Release(w, c)} \union
  CASE w.conn[c].phase = "PARSING" -> {w, Fail(w, c)} \union OpenOrigin(w, c)
    [] w.conn[c].phase = "RELAY" -> Relay(w, c)
    [] OTHER -> {}

ClientWrite(w, c) ==
  {Release(w, c)} \union
  CASE w.conn[c].phase = "RELAY" -> Relay(w, c)
    [] w.conn[c].phase = "ERROR" -> {w}
    [] OTHER -> {}

OriginRead(w, c) ==
  {Release(w, c)} \union
  CASE w.conn[c].phase = "AWAIT" ->
         IF w.conn[c].doh = "none" THEN {Fail(w, c)} ELSE {w, Fail(w, c)} \union TryNext(w, c)
    [] w.conn[c].phase = "RELAY" -> Relay(w, c)
    [] OTHER -> {}

\* Mutant: a descriptor is enough
TryConnectionIpWrite_Unchecked(w, c) ==
  LET resolving == w.conn[c].host = "domain" /\ w.conn[c].doh \in {"none", "between"} IN
  IF w.conn[c].origin_fd \in Fd
    THEN IF resolving THEN {Go(w, c, "SEND_DOH", {}, {"WRITE"})}
         ELSE {Go(w, c, "SEND_LINE", {}, {"WRITE"})} \union Relay(w, c)
  ELSE IF w.conn[c].host = "domain" /\ w.conn[c].doh # "none" THEN TryNext(w, c)
  ELSE {Fail(w, c)}

\* check_origin_connection asks for SO_ERROR, which is 0 also while the
\* connection is still being established
TryConnectionIpWrite(w, c) ==
  LET resolving == w.conn[c].host = "domain" /\ w.conn[c].doh \in {"none", "between"} IN
  IF w.conn[c].origin_fd \in Fd /\ w.sock[w.conn[c].origin_fd] # "failed"
    THEN IF resolving THEN {Go(w, c, "SEND_DOH", {}, {"WRITE"})}
         ELSE {Go(w, c, "SEND_LINE", {}, {"WRITE"})} \union Relay(w, c)
  ELSE IF w.conn[c].host = "domain" /\ w.conn[c].doh # "none" THEN TryNext(w, c)
  ELSE {Fail(w, c)}

\* Mutant: the second query asks for A records again
Await_AsksAgain(w, c) ==
  {Go([w EXCEPT !.conn[c].doh = doh], c, "AWAIT", {}, {"READ"}) :
     doh \in IF w.conn[c].doh = "none" THEN {"none", "A"} ELSE {"A"}}

\* await_doh_response_on_arrival, whose allocation may fail
Await(w, c) ==
  {Go([w EXCEPT !.conn[c].doh = doh], c, "AWAIT", {}, {"READ"}) :
     doh \in IF w.conn[c].doh = "none" THEN {"none", "A"} ELSE {"AAAA"}}

\* send() fails on a socket that is not connected
OriginWrite(w, c) ==
  LET sent == IF w.sock[w.conn[c].origin_fd] # "up" THEN {}
              ELSE CASE w.conn[c].phase = "SEND_DOH" -> {w} \union Await(w, c)
                     [] w.conn[c].phase = "SEND_LINE" -> {w} \union Relay(w, c)
                     [] w.conn[c].phase = "RELAY" -> Relay(w, c)
                     [] OTHER -> {}
  IN IF w.conn[c].phase = "TRY" THEN TryConnectionIpWrite(w, c)
     ELSE {Release(w, c)} \union sent

\* item->handler->handle_read and handle_write with the key's data
HandleRead(w, handler, data) ==
  CASE handler = "accept" -> AcceptNewConnection(w)
    [] handler = "client" -> ClientRead(w, data)
    [] handler = "origin" -> OriginRead(w, data)

HandleWrite(w, handler, data) ==
  CASE handler = "client" -> ClientWrite(w, data)
    [] handler = "origin" -> OriginWrite(w, data)

-----------------------------------------------------------------------------
(* selector_select *)

\* The ends of a socket that pselect() can find ready
MayRead(fd) == sock[fd] \in {"listening", "up", "failed"}
MayWrite(fd) == sock[fd] \in {"up", "failed"}

Idle == visit.read = {} /\ visit.write = {}

\* main()'s loop goes on as long as the selector has the listening sockets
Running == \E fd \in Listeners : selector.items[fd].handler = "accept"

\* pselect() leaves in the slave sets what is ready.  What may be ready is kept,
\* and whether it was is decided when it is visited.
Select ==
  LET watched == 0 .. selector.max_fd IN
  /\ Idle
  /\ Running
  /\ visit' = [read |-> {fd \in selector.read \intersect watched : MayRead(fd)},
               write |-> {fd \in selector.write \intersect watched : MayWrite(fd)},
               fd |-> NoFd, key |-> "none", opened |-> {}]
  /\ UNCHANGED <<selector, conn, sock>>

\* The descriptor handle_iteration() is at
Current ==
  LET left == visit.read \union visit.write IN
  CHOOSE fd \in left : \A other \in left : fd <= other

\* key.data, read from the item when its visit begins
Key(fd) == IF visit.fd = fd THEN visit.key ELSE selector.items[fd].data

Becomes(w) == selector' = w.selector /\ conn' = w.conn /\ sock' = w.sock

\* Of the descriptors still to visit, those that a callback of this iteration has
\* opened: what pselect() found ready was another socket
Opened(left) ==
  {fd \in left : fd \in visit.opened \/ (sock[fd] # "pending" /\ sock'[fd] = "pending")}

\* What is left to visit
Left(read, write) ==
  [visit EXCEPT !.read = read, !.write = write, !.opened = Opened(read \union write)]

\* An item that is not in use when its visit begins is not visited
Skip ==
  LET fd == Current IN
  /\ ~Idle
  /\ visit.fd # fd /\ ~selector.items[fd].used
  /\ UNCHANGED <<selector, conn, sock>>
  /\ visit' = Left(visit.read \ {fd}, visit.write \ {fd})

VisitRead ==
  LET fd == Current
      item == selector.items[fd]
  IN
  /\ ~Idle
  /\ item.used
  /\ fd \in visit.read
  /\ \/ UNCHANGED <<selector, conn, sock>>
     \/ /\ "READ" \in item.interest
        /\ \E w \in HandleRead(World, item.handler, item.data) : Becomes(w)
  /\ visit' = [Left(visit.read \ {fd}, visit.write) EXCEPT !.fd = fd, !.key = item.data]

\* The item may have changed since the visit began, the key has not
VisitWrite ==
  LET fd == Current
      item == selector.items[fd]
  IN
  /\ ~Idle
  /\ visit.fd = fd \/ item.used
  /\ fd \notin visit.read
  /\ \/ UNCHANGED <<selector, conn, sock>>
     \/ /\ "WRITE" \in item.interest
        /\ \E w \in HandleWrite(World, item.handler, Key(fd)) : Becomes(w)
  /\ visit' = [Left(visit.read, visit.write \ {fd}) EXCEPT !.fd = fd, !.key = Key(fd)]

\* connection_garbage_collect, of an item whose connection is inactive
Collect(fd) ==
  LET item == selector.items[fd] IN
  /\ Idle
  /\ item.used /\ item.data # "none" /\ conn[item.data].client_fd = fd
  /\ Becomes(Release(World, item.data))
  /\ UNCHANGED visit

\* selector_destroy: every item is unregistered, which closes its socket and, with
\* the client's, frees the struct
SelectorDestroy(w) ==
  LET Closed(kind) ==
        {fd \in Fd : Known(w.selector, fd) /\ w.selector.items[fd].handler = kind}
      freed == {w.selector.items[fd].data : fd \in Closed("client")}
  IN [selector |-> EmptySelector,
      conn |-> [c \in Clients |-> IF c \in freed THEN NoConnection ELSE w.conn[c]],
      sock |-> [fd \in Fd |-> IF fd \in Closed("client") \union Closed("origin") THEN "free"
                              ELSE w.sock[fd]]]

\* main() closes proxy_fd_6 twice, for itself and in the place of proxy_fd_4
CloseListeners(w) ==
  [w EXCEPT !.sock = [fd \in Fd |-> IF fd = proxy_fd_6 THEN "free" ELSE @[fd]]]

\* The end of main(), after a signal or an error of pselect()
Shutdown ==
  /\ Idle
  /\ Running
  /\ Becomes(CloseListeners(SelectorDestroy(World)))
  /\ UNCHANGED visit

Stopped == ~Running /\ UNCHANGED vars

\* The network answers a connect()
ConnectEnds(fd) ==
  /\ sock[fd] = "pending"
  /\ \E link \in {"up", "failed"} : sock' = [sock EXCEPT ![fd] = link]
  /\ UNCHANGED <<selector, conn, visit>>

-----------------------------------------------------------------------------
\* A listening socket that there is, registered
Listen(s, fd) ==
  IF fd = NoFd THEN s ELSE selector_register(s, fd, "accept", {"READ"}, "none")

\* main() up to its loop
Init ==
  /\ selector = Listen(Listen(EmptySelector, proxy_fd_4), proxy_fd_6)
  /\ conn = [c \in Clients |-> NoConnection]
  /\ sock = [fd \in Fd |-> IF fd \in Listeners THEN "listening" ELSE "free"]
  /\ visit = [read |-> {}, write |-> {}, fd |-> NoFd, key |-> "none",
              opened |-> {}]

Next ==
  \/ Select \/ Skip \/ VisitRead \/ VisitWrite \/ Shutdown \/ Stopped
  \/ \E fd \in Fd : Collect(fd) \/ ConnectEnds(fd)

Spec == Init /\ [][Next]_vars
=============================================================================
