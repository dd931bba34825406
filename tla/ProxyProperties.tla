--------------------------- MODULE ProxyProperties ---------------------------
(***************************************************************************)
(* What must hold of connections that share one selector.                  *)
(***************************************************************************)
EXTENDS Proxy

\* pselect() is told of every descriptor with an interest and of no other: a
\* descriptor above max_fd, or missing in a master set, would never be visited.
MastersMatch == MastersMatchItems(selector)

\* Of the numbers that the table has room for, the selector has an item for exactly
\* those whose sockets are open.  An item for a closed one makes pselect() fail with
\* EBADF, on which main() leaves its loop; an open socket without an item is never
\* closed.  Two kinds of socket do stay open for good: an origin's whose number is
\* beyond the table (register_origin_socket gives it up without closing it), and
\* that of proxy_fd_4 when main() ends (httpd.c:119 closes proxy_fd_6 in its place).
DescriptorsMatch ==
  \A fd \in Fd : fd < ItemsMax =>
    (selector.items[fd].used <=> sock[fd] # "free" /\ (Running \/ fd # proxy_fd_4))

\* An item's data is a struct in use that has the item's descriptor for its own,
\* and every struct in use has its client's item, which alone can free it.
ItemsOwned ==
  /\ \A fd \in Fd :
       LET item == selector.items[fd] IN
       /\ item.handler = "client" =>
            conn[item.data].phase # "FREE" /\ conn[item.data].client_fd = fd
       /\ item.handler = "origin" =>
            /\ conn[item.data].phase # "FREE"
            /\ conn[item.data].attempted /\ conn[item.data].origin_fd = fd
  /\ \A c \in Clients :
       conn[c].phase # "FREE" =>
         /\ selector.items[conn[c].client_fd].handler = "client"
         /\ selector.items[conn[c].client_fd].data = c

\* handle_iteration reads the key's data before it calls handle_read.  If that
\* callback leaves the descriptor to be written, the key is still the data of its
\* item, and the struct it points to has not been freed.
KeyStillValid ==
  ~Idle /\ visit.fd = Current /\ "WRITE" \in selector.items[Current].interest =>
    /\ selector.items[Current].data = visit.key
    /\ conn[visit.key].phase # "FREE"

-----------------------------------------------------------------------------
(* Each connection keeps to its lifecycle *)

\* What the origin_fd of a connection names
OriginFd(c) ==
  LET fd == conn[c].origin_fd IN
  IF ~conn[c].attempted \/ fd = NoFd THEN "none"
  ELSE IF selector.items[fd].handler = "origin" /\ selector.items[fd].data = c THEN "registered"
  ELSE IF sock[fd] # "free" /\ ~selector.items[fd].used THEN "unregistered"
  ELSE "closed"

Life(c) == INSTANCE Lifecycle WITH
  phase <- conn[c].phase,
  domain <- conn[c].host = "domain",
  doh <- conn[c].doh,
  attempted <- conn[c].attempted,
  origin_fd <- OriginFd(c)

\* No number that the resolution of a name has given back, and that is still the
\* connection's origin_fd, has an item again.  The code does not see to that, and
\* stale_fd.cfg shows what comes of it: proxy.cfg goes up to the state that breaks it,
\* and the theorems are about the behaviours that never do.
StaleUnused ==
  \A c \in Clients :
    conn[c].host = "domain" /\ OriginFd(c) = "closed" =>
      ~selector.items[conn[c].origin_fd].used

\* Whatever happens to the others, every connection goes through the lifecycle
\* that Connection implements on its own.
EachKeepsToLifecycle ==
  [][\A c \in Clients : [Life(c)!Next]_(Life(c)!life)]_vars

\* No callback of one connection closes, frees or unregisters anything of another:
\* a step is a step of one connection at most, unless it is the end of main().
Isolated ==
  [][Running' => \A c, d \in Clients :
       c # d => UNCHANGED Life(c)!life \/ UNCHANGED Life(d)!life]_vars

\* try_connection_ip.c, on the way out of TRY_CONNECTION_IP: "in this case I am
\* already connected to the origin".  That is so unless the socket was opened in
\* the present iteration, with the number of one that pselect() found ready.
ConnectedWhenSaidSo ==
  [][\A c \in Clients :
       conn[c].phase = "TRY" /\ conn'[c].phase \in {"SEND_DOH", "SEND_LINE", "RELAY"} =>
         sock[conn[c].origin_fd] = "up" \/ conn[c].origin_fd \in visit.opened]_vars
=============================================================================
