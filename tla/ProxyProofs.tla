----------------------------- MODULE ProxyProofs -----------------------------
(***************************************************************************)
(* Proofs that connections which share one selector keep its table, its    *)
(* master sets, their structs and their sockets in agreement, and leave    *)
(* one another alone.                                                      *)
(***************************************************************************)
EXTENDS ProxyProperties, TLAPS, FiniteSetTheorems

-----------------------------------------------------------------------------
(* The inductive invariant, of the world that callbacks work on *)

Phases ==
  {"FREE", "PARSING", "TRY", "SEND_DOH", "AWAIT", "SEND_LINE", "RELAY", "ERROR"}
WithOrigin == {"TRY", "SEND_DOH", "AWAIT", "SEND_LINE", "RELAY"}
Links == {"pending", "up", "failed"}

ItemType ==
  [used : BOOLEAN, handler : {"none", "accept", "client", "origin"},
   interest : SUBSET Operations, data : Clients \union {"none"}]

SelectorType ==
  [items : [Fd -> ItemType], max_fd : Fd, read : SUBSET Fd, write : SUBSET Fd]

ConnectionType ==
  [phase : Phases, client_fd : Fd, origin_fd : Fd \union {NoFd}, attempted : BOOLEAN,
   host : {"ip", "domain"}, doh : {"none", "A", "AAAA", "between"}]

WorldType ==
  [selector : SelectorType, conn : [Clients -> ConnectionType],
   sock : [Fd -> {"free", "listening"} \union Links]]

Item(w, fd) == w.selector.items[fd]

HasClient(w, c) ==
  /\ Item(w, w.conn[c].client_fd).handler = "client"
  /\ Item(w, w.conn[c].client_fd).data = c

OwnsOrigin(w, c) ==
  /\ w.conn[c].origin_fd \in Fd
  /\ Item(w, w.conn[c].origin_fd).handler = "origin"
  /\ Item(w, w.conn[c].origin_fd).data = c

\* The master sets and the largest descriptor, also for items with no interest
SelectorSound(s) ==
  /\ MastersMatchItems(s)
  /\ \A fd \in Fd : s.items[fd].used => fd <= s.max_fd
  /\ \A fd \in Fd : ~s.items[fd].used => s.items[fd].interest = {}

\* What an item is, and the socket and the struct that go with it
ItemSound(w, fd) ==
  LET item == Item(w, fd)
      k == w.conn[item.data]
  IN
  /\ item.used <=> item.handler # "none"
  /\ item.used => fd < ItemsMax
  /\ item.handler = "accept" =>
       fd \in Listeners /\ item.interest = {"READ"} /\ item.data = "none"
  /\ item.handler = "client" =>
       /\ item.data \in Clients /\ k.phase # "FREE" /\ k.client_fd = fd
       /\ w.sock[fd] \in Links
  /\ item.handler = "origin" =>
       /\ item.data \in Clients /\ k.phase # "FREE" /\ k.attempted /\ k.origin_fd = fd
       /\ w.sock[fd] \in Links
  /\ fd < ItemsMax => (item.used <=> w.sock[fd] # "free")

\* An origin_fd that names no socket of the connection any more: a number that was
\* given back by a connection that resolved a name, or that of a socket that the
\* table had no room for
Stale(w, c) ==
  LET k == w.conn[c] IN k.attempted /\ k.origin_fd \in Fd /\ ~OwnsOrigin(w, c)

StaleSound(w, c) ==
  LET k == w.conn[c] IN
  Stale(w, c) =>
    IF k.origin_fd < ItemsMax THEN k.host = "domain" ELSE w.sock[k.origin_fd] # "free"

\* and that nobody has been given since
StaleOK(w, c) ==
  StaleSound(w, c) /\ (Stale(w, c) => ~Item(w, w.conn[c].origin_fd).used)

\* Only names are resolved, one query at a time
MayBe(k, phase) ==
  /\ phase \in {"SEND_DOH", "AWAIT"} => k.host = "domain"
  /\ phase = "SEND_DOH" => k.doh \in {"none", "between"}

ConnectionSound(w, c) ==
  LET k == w.conn[c] IN
  /\ k.phase # "FREE" => HasClient(w, c)
  /\ k.phase = "FREE" => k.host = "ip"
  /\ k.phase \in {"FREE", "PARSING"} => ~k.attempted /\ k.doh = "none"
  /\ k.phase \in WithOrigin => OwnsOrigin(w, c)
  /\ MayBe(k, k.phase)
  /\ k.doh # "none" => k.host = "domain"
  /\ StaleSound(w, c)

Sound(w) ==
  /\ w \in WorldType
  /\ SelectorSound(w.selector)
  /\ \A fd \in Fd : ItemSound(w, fd)
  /\ \A c \in Clients : ConnectionSound(w, c)

\* The world in the middle of a callback of c, whose phase and origin are about to
\* change
Underway(w, c) ==
  /\ w \in WorldType
  /\ SelectorSound(w.selector)
  /\ \A fd \in Fd : ItemSound(w, fd)
  /\ \A d \in Clients \ {c} : ConnectionSound(w, d)
  /\ w.conn[c].phase # "FREE" /\ HasClient(w, c)
  /\ w.conn[c].doh # "none" => w.conn[c].host = "domain"

-----------------------------------------------------------------------------
(* What a callback of one connection leaves to the others *)

SameOwner(w, v, fd) ==
  /\ Item(v, fd).used = Item(w, fd).used
  /\ Item(v, fd).handler = Item(w, fd).handler
  /\ Item(v, fd).data = Item(w, fd).data

Mine(w, fd, c) == Item(w, fd).used => Item(w, fd).data = c

Keeps(w, v, c) ==
  /\ \A d \in Clients \ {c} : v.conn[d] = w.conn[d]
  /\ \A fd \in Fd : \/ Mine(w, fd, c) /\ Mine(v, fd, c)
                    \/ SameOwner(w, v, fd) /\ v.sock[fd] = w.sock[fd]
  /\ \A fd \in Fd : ~(fd < ItemsMax) /\ w.sock[fd] # "free" => v.sock[fd] = w.sock[fd]

\* One callback after another
LEMMA KeepsBoth ==
  ASSUME NEW w, NEW v, NEW u, NEW c, Keeps(w, v, c), Keeps(v, u, c)
  PROVE  Keeps(w, u, c)
<1>1. \A d \in Clients \ {c} : u.conn[d] = w.conn[d]
  BY DEF Keeps
<1>2. ASSUME NEW fd \in Fd
      PROVE  \/ Mine(w, fd, c) /\ Mine(u, fd, c)
             \/ SameOwner(w, u, fd) /\ u.sock[fd] = w.sock[fd]
  BY DEF Keeps, Mine, SameOwner
<1>3. ASSUME NEW fd \in Fd, ~(fd < ItemsMax), w.sock[fd] # "free"
      PROVE  u.sock[fd] = w.sock[fd]
  BY <1>3 DEF Keeps
<1>. QED BY <1>1, <1>2, <1>3 DEF Keeps

\* No callback at all
LEMMA KeepsItself ==
  ASSUME NEW w, NEW c
  PROVE  Keeps(w, w, c)
BY DEF Keeps, SameOwner

-----------------------------------------------------------------------------
(* Descriptors *)

\* The least and the largest descriptor, and the number that is none
LEMMA FdFacts ==
  /\ Fd \subseteq Nat /\ FdMax \in Fd /\ 0 \in Fd /\ IsFiniteSet(Fd)
  /\ ItemsMax \in Nat \ {0} /\ NoFd \notin Fd /\ NoFd \in Int
<1>1. FdMax \in Nat /\ ItemsMax \in Nat \ {0}
  BY SelectorAssumption
<1>2. Fd = 0 .. FdMax /\ NoFd = -1
  BY DEF Fd, NoFd
<1>3. IsFiniteSet(0 .. FdMax)
  BY <1>1, FS_Interval
<1>. QED BY <1>1, <1>2, <1>3

\* The listening sockets: there is one, and the table has room for them
LEMMA ListenersAre ==
  /\ Listeners # {} /\ Listeners \subseteq Fd /\ \A fd \in Listeners : fd < ItemsMax
  /\ "none" \notin Clients
BY ProxyAssumption DEF Listeners

\* A set of sets of descriptors has one that contains no other
LEMMA Smallest ==
  ASSUME NEW T \in SUBSET (SUBSET Fd), T # {}
  PROVE  \E x \in T : \A y \in T : ~(y \subseteq x /\ y # x)
<1>1. IsWellFoundedOn(StrictSubsetOrdering(Fd), FiniteSubsetsOf(Fd))
  BY FS_StrictSubsetOrderingWellFounded
<1>2. T \subseteq FiniteSubsetsOf(Fd)
  BY FdFacts, FS_Subset DEF FiniteSubsetsOf
<1>3. PICK x \in T : \A y \in T : ~(<<y, x>> \in StrictSubsetOrdering(Fd))
  BY <1>1, <1>2, WFMin
<1>4. ASSUME NEW y \in T, y \subseteq x, y # x
      PROVE  <<y, x>> \in StrictSubsetOrdering(Fd)
  BY <1>4 DEF StrictSubsetOrdering
<1>5. \A y \in T : ~(y \subseteq x /\ y # x)
  BY <1>3, <1>4
<1>. QED BY <1>5

\* A set of descriptors has a least and a largest
LEMMA Extremes ==
  ASSUME NEW S \in SUBSET Fd, S # {}
  PROVE  /\ \E m \in S : \A x \in S : m <= x
         /\ \E m \in S : \A x \in S : x <= m
<1> DEFINE Below(k) == {x \in S : x <= k}
<1> DEFINE Above(k) == {x \in S : k <= x}
<1>1. \E m \in S : \A x \in S : m <= x
  <2> DEFINE T == {Below(k) : k \in S}
  <2>1. T \in SUBSET (SUBSET Fd) /\ T # {}
    OBVIOUS
  <2>2. PICK b \in T : \A y \in T : ~(y \subseteq b /\ y # b)
    <3> HIDE DEF T
    <3>. QED BY <2>1, Smallest
  <2>3. PICK m \in S : b = Below(m)
    BY <2>2
  <2>4. ASSUME NEW x \in S, ~(m <= x)
        PROVE  FALSE
    <3>1. x \in Nat /\ m \in Nat /\ x < m
      BY <2>4, FdFacts
    <3>2. Below(x) \subseteq Below(m) /\ m \in Below(m) /\ m \notin Below(x)
      <4>1. \A z \in S : z \in Nat
        BY FdFacts
      <4>2. \A z \in S : z <= x => z <= m
        BY <3>1, <4>1
      <4>3. m <= m /\ ~(m <= x)
        BY <3>1
      <4>. QED BY <4>2, <4>3
    <3>3. Below(x) \in T
      OBVIOUS
    <3>. QED BY <2>2, <2>3, <3>2, <3>3
  <2>. QED BY <2>4
<1>2. \E m \in S : \A x \in S : x <= m
  <2> DEFINE T == {Above(k) : k \in S}
  <2>1. T \in SUBSET (SUBSET Fd) /\ T # {}
    OBVIOUS
  <2>2. PICK b \in T : \A y \in T : ~(y \subseteq b /\ y # b)
    <3> HIDE DEF T
    <3>. QED BY <2>1, Smallest
  <2>3. PICK m \in S : b = Above(m)
    BY <2>2
  <2>4. ASSUME NEW x \in S, ~(x <= m)
        PROVE  FALSE
    <3>1. x \in Nat /\ m \in Nat /\ m < x
      BY <2>4, FdFacts
    <3>2. Above(x) \subseteq Above(m) /\ m \in Above(m) /\ m \notin Above(x)
      <4>1. \A z \in S : z \in Nat
        BY FdFacts
      <4>2. \A z \in S : x <= z => m <= z
        BY <3>1, <4>1
      <4>3. m <= m /\ ~(x <= m)
        BY <3>1
      <4>. QED BY <4>2, <4>3
    <3>3. Above(x) \in T
      OBVIOUS
    <3>. QED BY <2>2, <2>3, <3>2, <3>3
  <2>. QED BY <2>4
<1>. QED BY <1>1, <1>2

\* The kernel's next number is free
LEMMA NextFdIs ==
  ASSUME NEW w, FreeFds(w) # {}
  PROVE  NextFd(w) \in Fd /\ w.sock[NextFd(w)] = "free"
<1>1. FreeFds(w) \in SUBSET Fd
  BY DEF FreeFds
<1>2. \E m \in FreeFds(w) : \A x \in FreeFds(w) : m <= x
  BY <1>1, Extremes
<1>3. NextFd(w) \in FreeFds(w)
  BY <1>2 DEF NextFd
<1>. QED BY <1>3 DEF FreeFds

\* The largest descriptor in use
LEMMA MaxFdIs ==
  ASSUME NEW items \in [Fd -> ItemType]
  PROVE  /\ items_max_fd(items) \in Fd
         /\ \A fd \in Fd : items[fd].used => fd <= items_max_fd(items)
<1> DEFINE used == {fd \in Fd : items[fd].used}
<1>1. CASE used = {}
  BY <1>1, FdFacts DEF items_max_fd
<1>2. CASE used # {}
  <2>1. \E m \in used : \A x \in used : x <= m
    BY <1>2, Extremes
  <2>2. items_max_fd(items) = CHOOSE fd \in used : \A other \in used : other <= fd
    BY <1>2 DEF items_max_fd
  <2>3. items_max_fd(items) \in used /\ \A x \in used : x <= items_max_fd(items)
    BY <2>1, <2>2
  <2>. QED BY <2>3
<1>. QED BY <1>1, <1>2

-----------------------------------------------------------------------------
(* The calls of the selector *)

\* The sets pselect() is called with, after the item of fd has changed
LEMMA UpdatedSound ==
  ASSUME NEW s, SelectorSound(s), s \in SelectorType, NEW fd \in Fd,
         NEW t \in SelectorType,
         \A x \in Fd \ {fd} : t.items[x] = s.items[x],
         t.read = Membership(s.read, fd, "READ" \in t.items[fd].interest),
         t.write = Membership(s.write, fd, "WRITE" \in t.items[fd].interest),
         ~t.items[fd].used => t.items[fd].interest = {},
         \A x \in Fd : t.items[x].used => x <= t.max_fd
  PROVE  SelectorSound(t)
<1>1. \A x \in Fd : ~t.items[x].used => t.items[x].interest = {}
  BY DEF SelectorSound
<1>2. ASSUME NEW x \in Fd
      PROVE  x \in t.read <=> t.items[x].used /\ "READ" \in t.items[x].interest
  BY <1>1 DEF SelectorSound, MastersMatchItems, Membership
<1>3. ASSUME NEW x \in Fd
      PROVE  x \in t.write <=> t.items[x].used /\ "WRITE" \in t.items[x].interest
  BY <1>1 DEF SelectorSound, MastersMatchItems, Membership
<1>4. t.read \subseteq Fd /\ t.write \subseteq Fd
  BY DEF SelectorType
<1>5. t.read = {x \in Fd : t.items[x].used /\ "READ" \in t.items[x].interest}
  BY <1>2, <1>4
<1>6. t.write = {x \in Fd : t.items[x].used /\ "WRITE" \in t.items[x].interest}
  BY <1>3, <1>4
<1>7. \A x \in t.read \union t.write : x <= t.max_fd
  BY <1>2, <1>3, <1>4
<1>. QED BY <1>1, <1>5, <1>6, <1>7 DEF SelectorSound, MastersMatchItems

\* selector_set_interest
LEMMA SetInterestSelector ==
  ASSUME NEW s \in SelectorType, SelectorSound(s), NEW fd, NEW i \in SUBSET Operations
  PROVE  LET t == selector_set_interest(s, fd, i) IN
         /\ t \in SelectorType /\ SelectorSound(t)
         /\ \A x \in Fd :
              /\ t.items[x].used = s.items[x].used
              /\ t.items[x].handler = s.items[x].handler
              /\ t.items[x].data = s.items[x].data
              /\ t.items[x].interest = IF x = fd /\ Known(s, fd) THEN i ELSE s.items[x].interest
<1> DEFINE t == selector_set_interest(s, fd, i)
<1>1. CASE ~Known(s, fd)
  BY <1>1 DEF selector_set_interest
<1>2. CASE Known(s, fd)
  <2>1. fd \in Fd /\ s.items[fd].used
    BY <1>2 DEF Known
  <2> DEFINE items == [s.items EXCEPT ![fd].interest = i]
  <2>2. items \in [Fd -> ItemType]
    BY <2>1 DEF SelectorType, ItemType
  <2>3. \A x \in Fd :
              /\ items[x].used = s.items[x].used
              /\ items[x].handler = s.items[x].handler
              /\ items[x].data = s.items[x].data
              /\ items[x].interest = IF x = fd THEN i ELSE s.items[x].interest
              /\ x # fd => items[x] = s.items[x]
    BY <2>1 DEF SelectorType, ItemType
  <2> DEFINE u == [s EXCEPT !.items[fd].interest = i]
  <2>4. /\ u.items = items /\ u.read = s.read /\ u.write = s.write /\ u.max_fd = s.max_fd
        /\ u \in SelectorType
    BY <2>1, <2>2 DEF SelectorType
  <2>5. t = items_update_fdset_for_fd(u, fd)
    BY <1>2 DEF selector_set_interest
  <2> HIDE DEF items, u, t
  <2>6. /\ t.items = items /\ t.max_fd = s.max_fd
        /\ t.read = Membership(s.read, fd, "READ" \in i)
        /\ t.write = Membership(s.write, fd, "WRITE" \in i)
        /\ t \in SelectorType
    <3>1. /\ t.items = items /\ t.max_fd = s.max_fd
          /\ t.read = Membership(s.read, fd, "READ" \in items[fd].interest)
          /\ t.write = Membership(s.write, fd, "WRITE" \in items[fd].interest)
      BY <2>4, <2>5 DEF items_update_fdset_for_fd, SelectorType
    <3>2. t.read \subseteq Fd /\ t.write \subseteq Fd
      BY <2>1, <3>1 DEF Membership, SelectorType
    <3>3. t = [u EXCEPT !.read = t.read, !.write = t.write]
      BY <2>4, <2>5, <3>1 DEF items_update_fdset_for_fd, SelectorType
    <3>4. t \in SelectorType
      BY <2>4, <3>2, <3>3 DEF SelectorType
    <3>. QED BY <2>1, <2>3, <3>1, <3>4
  <2>7. SelectorSound(t)
    <3>1. \A x \in Fd : t.items[x].used => x <= t.max_fd
      BY <2>3, <2>6 DEF SelectorSound
    <3>. QED BY <2>1, <2>3, <2>6, <3>1, UpdatedSound
  <2>8. t.items = items
    BY <2>6
  <2>. QED BY <1>2, <2>3, <2>6, <2>7, <2>8 DEF t
<1>. QED BY <1>1, <1>2

\* t is s with one item more
Adds(s, t, fd, h, i, d) ==
  /\ t \in SelectorType /\ SelectorSound(t)
  /\ t.items[fd].used /\ t.items[fd].handler = h
  /\ t.items[fd].interest = i /\ t.items[fd].data = d
  /\ \A x \in Fd \ {fd} : t.items[x] = s.items[x]

\* selector_register
LEMMA RegisterSelector ==
  ASSUME NEW s \in SelectorType, SelectorSound(s), NEW fd, Registrable(s, fd),
         NEW h \in {"accept", "client", "origin"}, NEW i \in SUBSET Operations,
         NEW d \in Clients \union {"none"}
  PROVE  Adds(s, selector_register(s, fd, h, i, d), fd, h, i, d)
<1> DEFINE t == selector_register(s, fd, h, i, d)
<1> DEFINE item == [used |-> TRUE, handler |-> h, interest |-> i, data |-> d]
<1> DEFINE max == IF fd > s.max_fd THEN fd ELSE s.max_fd
<1> DEFINE items == [s.items EXCEPT ![fd] = item]
<1> DEFINE u == [s EXCEPT !.items[fd] = item, !.max_fd = IF fd > @ THEN fd ELSE @]
<1>1. fd \in Fd
  BY DEF Registrable
<1>2. item \in ItemType /\ item.interest = i /\ item.used /\ item.handler = h /\ item.data = d
  BY DEF ItemType
<1>3. t = items_update_fdset_for_fd(u, fd)
  BY DEF selector_register
<1> HIDE DEF item
<1>4. items \in [Fd -> ItemType] /\ items[fd] = item /\ \A x \in Fd \ {fd} : items[x] = s.items[x]
  BY <1>1, <1>2 DEF SelectorType
<1>5. u.items = items /\ u.read = s.read /\ u.write = s.write /\ u.max_fd = max
  BY DEF SelectorType
<1>6. u \in SelectorType
  <2>1. max \in Fd
    BY <1>1 DEF SelectorType
  <2>2. u = [s EXCEPT !.items = items, !.max_fd = max]
    BY DEF SelectorType
  <2>. QED BY <1>4, <2>1, <2>2 DEF SelectorType
<1> HIDE DEF items, u, t
<1>7. /\ t.items = items /\ t.max_fd = max
      /\ t.read = Membership(s.read, fd, "READ" \in i)
      /\ t.write = Membership(s.write, fd, "WRITE" \in i)
      /\ t \in SelectorType
  <2>1. /\ t.items = items /\ t.max_fd = max
        /\ t.read = Membership(s.read, fd, "READ" \in items[fd].interest)
        /\ t.write = Membership(s.write, fd, "WRITE" \in items[fd].interest)
    BY <1>3, <1>5, <1>6 DEF items_update_fdset_for_fd, SelectorType
  <2>2. t.read \subseteq Fd /\ t.write \subseteq Fd
    BY <1>1, <2>1 DEF Membership, SelectorType
  <2>3. t = [u EXCEPT !.read = t.read, !.write = t.write]
    BY <1>3, <1>5, <1>6, <2>1 DEF items_update_fdset_for_fd, SelectorType
  <2>4. t \in SelectorType
    BY <1>6, <2>2, <2>3 DEF SelectorType
  <2>. QED BY <1>2, <1>4, <2>1, <2>4
<1>8. \A x \in Fd : t.items[x].used => x <= t.max_fd
  <2>1. s.max_fd \in Nat /\ fd \in Nat /\ \A x \in Fd : x \in Nat
    BY <1>1, FdFacts DEF SelectorType
  <2>2. fd <= max /\ s.max_fd <= max /\ max \in Nat
    BY <2>1
  <2>3. ASSUME NEW x \in Fd \ {fd}, s.items[x].used
        PROVE  x <= max
    <3>1. x <= s.max_fd
      BY <2>3 DEF SelectorSound
    <3>. QED BY <2>1, <2>2, <3>1
  <2>. QED BY <1>4, <1>7, <2>2, <2>3
<1>9. SelectorSound(t)
  BY <1>1, <1>2, <1>4, <1>7, <1>8, UpdatedSound
<1>10. Adds(s, t, fd, h, i, d)
  BY <1>2, <1>4, <1>7, <1>9 DEF Adds
<1>. QED BY <1>10 DEF t

\* What selector_unregister_fd does to the table
LEMMA ForgetSelector ==
  ASSUME NEW s \in SelectorType, SelectorSound(s), NEW fd \in Fd
  PROVE  LET t == Forget(s, fd) IN
         /\ t \in SelectorType /\ SelectorSound(t)
         /\ t.items[fd] = Unused
         /\ \A x \in Fd \ {fd} : t.items[x] = s.items[x]
<1> DEFINE t == Forget(s, fd)
<1> DEFINE items == [s.items EXCEPT ![fd] = Unused]
<1> DEFINE u == [s EXCEPT !.items[fd].interest = {}]
<1> DEFINE cleared == items_update_fdset_for_fd(u, fd)
<1>1. Unused \in ItemType /\ ~Unused.used /\ Unused.interest = {}
  BY DEF Unused, ItemType
<1>2. items \in [Fd -> ItemType] /\ items[fd] = Unused /\ \A x \in Fd \ {fd} : items[x] = s.items[x]
  BY <1>1 DEF SelectorType
<1>3. u.items[fd].interest = {} /\ u.read = s.read /\ u.write = s.write /\ u \in SelectorType
  <2>1. [s.items EXCEPT ![fd].interest = {}] \in [Fd -> ItemType]
    BY DEF SelectorType, ItemType
  <2>2. [s.items EXCEPT ![fd].interest = {}][fd].interest = {}
    BY DEF SelectorType, ItemType
  <2>. QED BY <2>1, <2>2 DEF SelectorType
<1> HIDE DEF u
<1>4. cleared.read = s.read \ {fd} /\ cleared.write = s.write \ {fd} /\ cleared \in SelectorType
  BY <1>3 DEF items_update_fdset_for_fd, Membership, SelectorType
<1>5. t = [cleared EXCEPT !.items = items, !.max_fd = items_max_fd(items)]
  BY DEF Forget, u
<1> HIDE DEF items, t, cleared
<1>6. /\ items_max_fd(items) \in Fd
      /\ \A x \in Fd : items[x].used => x <= items_max_fd(items)
  BY <1>2, MaxFdIs
<1>7. /\ t.items = items /\ t.max_fd = items_max_fd(items)
      /\ t.read = s.read \ {fd} /\ t.write = s.write \ {fd}
      /\ t \in SelectorType
  BY <1>2, <1>4, <1>5, <1>6 DEF SelectorType
<1>8. SelectorSound(t)
  <2>1. /\ t.read = Membership(s.read, fd, "READ" \in t.items[fd].interest)
        /\ t.write = Membership(s.write, fd, "WRITE" \in t.items[fd].interest)
    BY <1>1, <1>2, <1>7 DEF Membership
  <2>. QED BY <1>1, <1>2, <1>6, <1>7, <2>1, UpdatedSound
<1>. QED BY <1>2, <1>7, <1>8 DEF t

-----------------------------------------------------------------------------
(* Worlds in which only interests, and the struct of one connection, change *)

\* Another choice of what to watch
Rewatched(s, t) ==
  /\ t \in SelectorType /\ SelectorSound(t)
  /\ \A x \in Fd :
       /\ t.items[x].used = s.items[x].used
       /\ t.items[x].handler = s.items[x].handler
       /\ t.items[x].data = s.items[x].data
       /\ s.items[x].handler = "accept" => t.items[x].interest = s.items[x].interest

\* SetInterest, on a descriptor other than a listening one
LEMMA SetInterestIs ==
  ASSUME NEW w \in WorldType, SelectorSound(w.selector), NEW fd, NEW i \in SUBSET Operations,
         fd \in Fd => Item(w, fd).handler # "accept"
  PROVE  LET v == SetInterest(w, fd, i) IN
         /\ v \in WorldType /\ v.conn = w.conn /\ v.sock = w.sock
         /\ Rewatched(w.selector, v.selector)
<1> DEFINE s == w.selector
<1> DEFINE t == selector_set_interest(s, fd, i)
<1>1. s \in SelectorType
  BY DEF WorldType
<1>2. /\ t \in SelectorType /\ SelectorSound(t)
      /\ \A x \in Fd :
           /\ t.items[x].used = s.items[x].used
           /\ t.items[x].handler = s.items[x].handler
           /\ t.items[x].data = s.items[x].data
           /\ t.items[x].interest = IF x = fd /\ Known(s, fd) THEN i ELSE s.items[x].interest
  BY <1>1, SetInterestSelector
<1>3. Rewatched(s, t)
  BY <1>2 DEF Rewatched, Item
<1> HIDE DEF t
<1>4. SetInterest(w, fd, i) = [w EXCEPT !.selector = t]
  BY DEF SetInterest, t, WorldType
<1>. QED BY <1>2, <1>3, <1>4 DEF WorldType

\* Interests may be set one after the other
LEMMA RewatchedTwice ==
  ASSUME NEW r, NEW s, NEW t, Rewatched(r, s), Rewatched(s, t)
  PROVE  Rewatched(r, t)
BY DEF Rewatched

\* Neither descriptor of a connection is a listening one
LEMMA NotListening ==
  ASSUME NEW c \in Clients, NEW w, Underway(w, c), StaleOK(w, c)
  PROVE  /\ w.conn[c].client_fd \in Fd
         /\ Item(w, w.conn[c].client_fd).handler # "accept"
         /\ w.conn[c].attempted /\ w.conn[c].origin_fd \in Fd =>
              Item(w, w.conn[c].origin_fd).handler # "accept"
<1>1. w.conn[c] \in ConnectionType
  BY DEF Underway, WorldType
<1>2. w.conn[c].client_fd \in Fd /\ HasClient(w, c)
  BY <1>1 DEF Underway, ConnectionType
<1>3. ASSUME w.conn[c].attempted, w.conn[c].origin_fd \in Fd
      PROVE  Item(w, w.conn[c].origin_fd).handler # "accept"
  <2>1. CASE OwnsOrigin(w, c)
    BY <2>1 DEF OwnsOrigin
  <2>2. CASE ~OwnsOrigin(w, c)
    BY <1>3, <2>2 DEF StaleOK, Stale, Underway, ItemSound
  <2>. QED BY <2>1, <2>2
<1>. QED BY <1>2, <1>3 DEF HasClient

\* A struct in another phase
InPhase(k, p) == [k EXCEPT !.phase = p]

\* Only the phase differs
LEMMA InPhaseIs ==
  ASSUME NEW k \in ConnectionType, NEW p \in Phases
  PROVE  /\ InPhase(k, p) \in ConnectionType /\ InPhase(k, p).phase = p
         /\ InPhase(k, p).client_fd = k.client_fd /\ InPhase(k, p).origin_fd = k.origin_fd
         /\ InPhase(k, p).attempted = k.attempted /\ InPhase(k, p).host = k.host
         /\ InPhase(k, p).doh = k.doh
BY DEF InPhase, ConnectionType

\* Going to ERROR
LEMMA FailIs ==
  ASSUME NEW c \in Clients, NEW w, Underway(w, c), StaleOK(w, c)
  PROVE  LET v == Fail(w, c) IN
         /\ v \in WorldType /\ v.sock = w.sock
         /\ v.conn[c] = InPhase(w.conn[c], "ERROR")
         /\ \A d \in Clients \ {c} : v.conn[d] = w.conn[d]
         /\ Rewatched(w.selector, v.selector)
<1> DEFINE k == InPhase(w.conn[c], "ERROR")
<1> DEFINE w0 == [w EXCEPT !.conn[c].phase = "ERROR"]
<1> DEFINE w1 == SetInterest(w0, w0.conn[c].client_fd, {"WRITE"})
<1> DEFINE w2 == SetInterest(w1, w1.conn[c].origin_fd, {})
<1>1. w \in WorldType /\ w.conn[c] \in ConnectionType /\ SelectorSound(w.selector)
  BY DEF Underway, WorldType
<1>2. k \in ConnectionType /\ k.client_fd = w.conn[c].client_fd
      /\ k.origin_fd = w.conn[c].origin_fd /\ k.attempted = w.conn[c].attempted
  BY <1>1, InPhaseIs DEF Phases
<1>3. w0 = [w EXCEPT !.conn = [@ EXCEPT ![c] = k]]
  BY <1>1 DEF WorldType, InPhase
<1> HIDE DEF k, w0
<1>4. /\ w0 \in WorldType /\ w0.selector = w.selector /\ w0.sock = w.sock
      /\ w0.conn[c] = k /\ \A d \in Clients \ {c} : w0.conn[d] = w.conn[d]
  <2>1. [w.conn EXCEPT ![c] = k] \in [Clients -> ConnectionType]
    BY <1>1, <1>2 DEF WorldType
  <2>. QED BY <1>1, <1>3, <2>1 DEF WorldType
<1>5. /\ w1 \in WorldType /\ w1.sock = w.sock /\ w1.conn = w0.conn
      /\ Rewatched(w.selector, w1.selector)
  <2>1. Item(w0, w0.conn[c].client_fd).handler # "accept"
    BY <1>2, <1>4, NotListening DEF Item
  <2>2. {"WRITE"} \in SUBSET Operations
    BY DEF Operations
  <2>3. SelectorSound(w0.selector)
    BY <1>1, <1>4
  <2>. QED BY <1>4, <2>1, <2>2, <2>3, SetInterestIs
<1>6. ASSUME k.attempted
      PROVE  /\ w2 \in WorldType /\ w2.sock = w.sock /\ w2.conn = w0.conn
             /\ Rewatched(w.selector, w2.selector)
  <2> DEFINE fd == w1.conn[c].origin_fd
  <2>1. fd = w.conn[c].origin_fd /\ w.conn[c].attempted
    BY <1>2, <1>4, <1>5, <1>6
  <2>2. fd \in Fd => Item(w1, fd).handler # "accept"
    <3> HIDE DEF fd, w1
    <3>1. fd \in Fd => Item(w, fd).handler # "accept"
      BY <2>1, NotListening
    <3>. QED BY <1>5, <3>1 DEF Rewatched, Item
  <2>3. SelectorSound(w1.selector)
    BY <1>5 DEF Rewatched
  <2> HIDE DEF fd, w1
  <2>4. LET v == SetInterest(w1, fd, {}) IN
         /\ v \in WorldType /\ v.conn = w1.conn /\ v.sock = w1.sock
         /\ Rewatched(w1.selector, v.selector)
    BY <1>5, <2>2, <2>3, SetInterestIs
  <2>. QED BY <1>5, <2>4, RewatchedTwice DEF fd
<1> HIDE DEF w1, w2
<1>7. Fail(w, c) = IF w.conn[c].attempted THEN w2 ELSE w1
  <2>1. w0.conn[c].client_fd = w.conn[c].client_fd /\ w1.conn[c].origin_fd = w.conn[c].origin_fd
    BY <1>2, <1>4, <1>5
  <2>. QED BY <2>1 DEF Fail, w0, w1, w2
<1>. QED BY <1>2, <1>4, <1>5, <1>6, <1>7 DEF k

\* Going on to a phase and its interests
LEMMA GoIs ==
  ASSUME NEW c \in Clients, NEW w, Underway(w, c), OwnsOrigin(w, c),
         NEW p \in Phases, NEW i \in SUBSET Operations, NEW j \in SUBSET Operations
  PROVE  LET v == Go(w, c, p, i, j) IN
         /\ v \in WorldType /\ v.sock = w.sock
         /\ v.conn[c] = InPhase(w.conn[c], p)
         /\ \A d \in Clients \ {c} : v.conn[d] = w.conn[d]
         /\ Rewatched(w.selector, v.selector)
<1> DEFINE k == InPhase(w.conn[c], p)
<1> DEFINE w0 == [w EXCEPT !.conn[c].phase = p]
<1> DEFINE w1 == SetInterest(w0, w0.conn[c].client_fd, i)
<1> DEFINE w2 == SetInterest(w1, w0.conn[c].origin_fd, j)
<1>1. w \in WorldType /\ w.conn[c] \in ConnectionType /\ SelectorSound(w.selector)
  BY DEF Underway, WorldType
<1>2. k \in ConnectionType /\ k.client_fd = w.conn[c].client_fd
      /\ k.origin_fd = w.conn[c].origin_fd
  BY <1>1, InPhaseIs
<1>3. w0 = [w EXCEPT !.conn = [@ EXCEPT ![c] = k]]
  BY <1>1 DEF WorldType, InPhase
<1>4. StaleOK(w, c)
  BY DEF StaleOK, StaleSound, Stale
<1> HIDE DEF k, w0
<1>5. /\ w0 \in WorldType /\ w0.selector = w.selector /\ w0.sock = w.sock
      /\ w0.conn[c] = k /\ \A d \in Clients \ {c} : w0.conn[d] = w.conn[d]
  <2>1. [w.conn EXCEPT ![c] = k] \in [Clients -> ConnectionType]
    BY <1>1, <1>2 DEF WorldType
  <2>. QED BY <1>1, <1>3, <2>1 DEF WorldType
<1>6. /\ w1 \in WorldType /\ w1.sock = w.sock /\ w1.conn = w0.conn
      /\ Rewatched(w.selector, w1.selector)
  <2>1. Item(w0, w0.conn[c].client_fd).handler # "accept"
    BY <1>2, <1>4, <1>5, NotListening DEF Item
  <2>2. SelectorSound(w0.selector)
    BY <1>1, <1>5
  <2>. QED BY <1>5, <2>1, <2>2, SetInterestIs
<1>7. /\ w2 \in WorldType /\ w2.sock = w.sock /\ w2.conn = w0.conn
      /\ Rewatched(w.selector, w2.selector)
  <2> DEFINE fd == w0.conn[c].origin_fd
  <2>1. fd = w.conn[c].origin_fd
    BY <1>2, <1>5
  <2>2. fd \in Fd => Item(w1, fd).handler # "accept"
    BY <1>6, <2>1 DEF Rewatched, Item, OwnsOrigin
  <2>3. SelectorSound(w1.selector)
    BY <1>6 DEF Rewatched
  <2> HIDE DEF fd, w1
  <2>4. LET v == SetInterest(w1, fd, j) IN
         /\ v \in WorldType /\ v.conn = w1.conn /\ v.sock = w1.sock
         /\ Rewatched(w1.selector, v.selector)
    BY <1>6, <2>2, <2>3, SetInterestIs
  <2>. QED BY <1>6, <2>4, RewatchedTwice DEF fd
<1> HIDE DEF w1, w2
<1>8. Go(w, c, p, i, j) = w2
  BY DEF Go, Watch, w0, w1, w2
<1>. QED BY <1>5, <1>7, <1>8 DEF k

\* The other connections are what they were
LEMMA OthersKept ==
  ASSUME NEW c \in Clients, NEW w \in WorldType, NEW v,
         \A d \in Clients \ {c} : ConnectionSound(w, d), Keeps(w, v, c),
         \A fd \in Fd : ItemSound(w, fd), \A fd \in Fd : ItemSound(v, fd)
  PROVE  \A d \in Clients \ {c} : ConnectionSound(v, d)
<1> SUFFICES ASSUME NEW d \in Clients \ {c} PROVE ConnectionSound(v, d)
  OBVIOUS
<1> DEFINE k == w.conn[d]
<1>1. v.conn[d] = k /\ k \in ConnectionType /\ ConnectionSound(w, d)
  BY DEF Keeps, WorldType
<1>2. \A fd \in Fd : /\ Item(w, fd).used <=> Item(w, fd).handler # "none"
                     /\ Item(v, fd).used <=> Item(v, fd).handler # "none"
  BY DEF ItemSound
<1>3. k.client_fd \in Fd
  BY <1>1 DEF ConnectionType
<1> HIDE DEF k
<1>4. \A fd \in Fd : \/ Mine(w, fd, c) /\ Mine(v, fd, c)
                     \/ SameOwner(w, v, fd) /\ v.sock[fd] = w.sock[fd]
  BY DEF Keeps
<1>5. HasClient(w, d) => HasClient(v, d)
  BY <1>1, <1>2, <1>3, <1>4 DEF HasClient, Mine, SameOwner, k
<1>6. OwnsOrigin(w, d) <=> OwnsOrigin(v, d)
  BY <1>1, <1>2, <1>4 DEF OwnsOrigin, Mine, SameOwner, k
<1>7. StaleSound(v, d)
  <2> SUFFICES ASSUME k.attempted, k.origin_fd \in Fd, ~OwnsOrigin(w, d)
               PROVE  IF k.origin_fd < ItemsMax THEN k.host = "domain"
                      ELSE v.sock[k.origin_fd] # "free"
    BY <1>1, <1>6 DEF StaleSound, Stale
  <2>1. IF k.origin_fd < ItemsMax THEN k.host = "domain"
        ELSE w.sock[k.origin_fd] # "free"
    BY <1>1 DEF ConnectionSound, StaleSound, Stale, k
  <2>2. ~(k.origin_fd < ItemsMax) => v.sock[k.origin_fd] = w.sock[k.origin_fd]
    BY <2>1 DEF Keeps
  <2>. QED BY <2>1, <2>2
<1>8. /\ k.phase # "FREE" => HasClient(v, d)
      /\ k.phase = "FREE" => k.host = "ip"
      /\ k.phase \in {"FREE", "PARSING"} => ~k.attempted /\ k.doh = "none"
      /\ k.phase \in WithOrigin => OwnsOrigin(v, d)
      /\ MayBe(k, k.phase)
      /\ k.doh # "none" => k.host = "domain"
  BY <1>1, <1>5, <1>6 DEF ConnectionSound, k
<1>. QED BY <1>1, <1>7, <1>8 DEF ConnectionSound

\* The struct of the connection changes, and what is watched
LEMMA StructChanged ==
  ASSUME NEW c \in Clients, NEW w, Underway(w, c), NEW v \in WorldType,
         NEW k \in ConnectionType, v.conn[c] = k,
         \A d \in Clients \ {c} : v.conn[d] = w.conn[d], v.sock = w.sock,
         Rewatched(w.selector, v.selector),
         k.client_fd = w.conn[c].client_fd, k.host = w.conn[c].host, k.phase # "FREE",
         k.doh # "none" => k.host = "domain",
         OwnsOrigin(w, c) => k.origin_fd = w.conn[c].origin_fd /\ k.attempted
  PROVE  /\ Underway(v, c) /\ Keeps(w, v, c) /\ v.conn[c] = k
         /\ k.origin_fd = w.conn[c].origin_fd => (OwnsOrigin(v, c) <=> OwnsOrigin(w, c))
         /\ \A fd \in Fd : SameOwner(w, v, fd)
<1>1. /\ w \in WorldType /\ SelectorSound(w.selector) /\ w.conn[c].phase # "FREE"
      /\ \A fd \in Fd : ItemSound(w, fd)
      /\ \A d \in Clients \ {c} : ConnectionSound(w, d)
      /\ HasClient(w, c)
  BY DEF Underway
<1>2. v.conn[c] = k /\ \A d \in Clients \ {c} : v.conn[d] = w.conn[d]
  OBVIOUS
<1>3. \A fd \in Fd : SameOwner(w, v, fd)
  BY DEF SameOwner, Rewatched, Item
<1>4. Keeps(w, v, c)
  BY <1>2, <1>3 DEF Keeps
<1>5. ASSUME NEW fd \in Fd
      PROVE  ItemSound(v, fd)
  <2>1. /\ Item(v, fd).used = Item(w, fd).used
        /\ Item(v, fd).handler = Item(w, fd).handler
        /\ Item(v, fd).data = Item(w, fd).data
        /\ Item(w, fd).handler = "accept" => Item(v, fd).interest = Item(w, fd).interest
    BY DEF Rewatched, Item
  <2>2. ItemSound(w, fd)
    BY <1>1
  <2>3. CASE Item(w, fd).data # c
    BY <1>2, <2>1, <2>2, <2>3 DEF ItemSound
  <2>4. CASE Item(w, fd).data = c
    <3>1. Item(w, fd).handler = "origin" => OwnsOrigin(w, c) /\ w.conn[c].origin_fd = fd
      BY <2>2, <2>4 DEF ItemSound, OwnsOrigin
    <3>. QED BY <1>2, <2>1, <2>2, <2>4, <3>1 DEF ItemSound
  <2>. QED BY <2>3, <2>4
<1>6. \A d \in Clients \ {c} : ConnectionSound(v, d)
  BY <1>1, <1>4, <1>5, OthersKept
<1>7. HasClient(v, c)
  <2>1. w.conn[c].client_fd \in Fd
    BY <1>1 DEF WorldType, ConnectionType
  <2>. QED BY <1>1, <1>2, <1>3, <2>1 DEF HasClient, SameOwner
<1>8. k.origin_fd = w.conn[c].origin_fd => (OwnsOrigin(v, c) <=> OwnsOrigin(w, c))
  BY <1>2, <1>3 DEF OwnsOrigin, SameOwner
<1>9. SelectorSound(v.selector)
  BY DEF Rewatched
<1>10. Underway(v, c)
  BY <1>2, <1>5, <1>6, <1>7, <1>9 DEF Underway
<1>. QED BY <1>2, <1>3, <1>4, <1>8, <1>10

\* The end of a callback
LEMMA Landed ==
  ASSUME NEW c \in Clients, NEW v, Underway(v, c), StaleOK(v, c),
         v.conn[c].phase # "PARSING", v.conn[c].phase \in WithOrigin => OwnsOrigin(v, c),
         MayBe(v.conn[c], v.conn[c].phase)
  PROVE  Sound(v)
<1>1. ConnectionSound(v, c)
  BY DEF ConnectionSound, Underway, StaleOK
<1>. QED BY <1>1 DEF Sound, Underway

\* The beginning of a callback
LEMMA Entered ==
  ASSUME NEW c \in Clients, NEW w, Sound(w), w.conn[c].phase # "FREE"
  PROVE  /\ Underway(w, c)
         /\ w.conn[c].phase # "ERROR" => StaleOK(w, c)
<1>1. w.conn[c] \in ConnectionType /\ ConnectionSound(w, c)
  BY DEF Sound, WorldType
<1>2. w.conn[c].phase \in {"PARSING", "ERROR"} \union WithOrigin
  BY <1>1 DEF ConnectionType, Phases, WithOrigin
<1>3. w.conn[c].phase # "ERROR" => ~Stale(w, c)
  BY <1>1, <1>2 DEF ConnectionSound, Stale
<1>. QED BY <1>1, <1>3 DEF Sound, Underway, ConnectionSound, StaleOK, StaleSound

\* The phase of the connection changes, and what is watched
LEMMA Moved ==
  ASSUME NEW c \in Clients, NEW w, Underway(w, c), StaleOK(w, c),
         NEW p \in Phases \ {"FREE", "PARSING"},
         p \in WithOrigin => OwnsOrigin(w, c),
         MayBe(w.conn[c], p),
         NEW v \in WorldType, v.sock = w.sock,
         v.conn[c] = InPhase(w.conn[c], p),
         \A d \in Clients \ {c} : v.conn[d] = w.conn[d],
         Rewatched(w.selector, v.selector)
  PROVE  /\ Sound(v) /\ Keeps(w, v, c) /\ \A fd \in Fd : SameOwner(w, v, fd)
<1> DEFINE k == InPhase(w.conn[c], p)
<1>1. w \in WorldType /\ w.conn[c] \in ConnectionType
      /\ (w.conn[c].doh # "none" => w.conn[c].host = "domain")
  BY DEF Underway, WorldType
<1>2. /\ k \in ConnectionType /\ k.client_fd = w.conn[c].client_fd /\ k.host = w.conn[c].host
      /\ k.phase = p /\ k.doh = w.conn[c].doh /\ k.attempted = w.conn[c].attempted
      /\ k.origin_fd = w.conn[c].origin_fd
  BY <1>1, InPhaseIs
<1>3. OwnsOrigin(w, c) => k.attempted
  BY <1>2 DEF OwnsOrigin, Underway, ItemSound
<1> HIDE DEF k
<1>4. v.conn[c] = k
  BY DEF k
<1>5. k.phase # "FREE" /\ (k.doh # "none" => k.host = "domain")
  BY <1>1, <1>2
<1>6. /\ Underway(v, c) /\ Keeps(w, v, c) /\ v.conn[c] = k
      /\ (OwnsOrigin(v, c) <=> OwnsOrigin(w, c))
      /\ \A fd \in Fd : SameOwner(w, v, fd)
  BY <1>2, <1>3, <1>4, <1>5, StructChanged
<1>7. StaleOK(v, c)
  BY <1>2, <1>6 DEF StaleOK, StaleSound, Stale, SameOwner
<1>8. Sound(v)
  <2>1. MayBe(k, k.phase)
    BY <1>2 DEF MayBe
  <2>. QED BY <1>2, <1>6, <1>7, <2>1, Landed
<1>. QED BY <1>6, <1>8 DEF k

-----------------------------------------------------------------------------
(* What the calls make of a connection, and of its lifecycle *)

\* OriginFd, in a world
OriginIn(w, c) ==
  LET fd == w.conn[c].origin_fd IN
  IF ~w.conn[c].attempted \/ fd = NoFd THEN "none"
  ELSE IF OwnsOrigin(w, c) THEN "registered"
  ELSE IF w.sock[fd] # "free" /\ ~Item(w, fd).used THEN "unregistered"
  ELSE "closed"

Settles(w, v, c) == Sound(v) /\ Keeps(w, v, c)

Moves(w, v, c, p) ==
  Settles(w, v, c) /\ v.conn[c] = InPhase(w.conn[c], p) /\ OriginIn(v, c) = OriginIn(w, c)

\* As in Lifecycle
Registers(w, v, c, query) ==
  /\ Settles(w, v, c)
  /\ v.conn[c].doh = query /\ v.conn[c].attempted /\ v.conn[c].host = w.conn[c].host
  /\ \/ v.conn[c].phase = "TRY" /\ OriginIn(v, c) = "registered"
     \/ v.conn[c].phase = "ERROR" /\ OriginIn(v, c) = "unregistered"

Opens(w, v, c, query) ==
  \/ Registers(w, v, c, query)
  \/ /\ Settles(w, v, c)
     /\ v.conn[c].phase = "ERROR" /\ v.conn[c].doh = query /\ OriginIn(v, c) = "none"
     /\ v.conn[c].host = w.conn[c].host /\ v.conn[c].attempted = w.conn[c].attempted

\* What origin_fd names depends on the items' owners, the sockets and the struct
LEMMA OriginSame ==
  ASSUME NEW c \in Clients, NEW w \in WorldType, NEW v,
         v.conn[c].origin_fd = w.conn[c].origin_fd,
         v.conn[c].attempted = w.conn[c].attempted,
         v.conn[c].origin_fd \in Fd =>
           SameOwner(w, v, v.conn[c].origin_fd)
           /\ v.sock[v.conn[c].origin_fd] = w.sock[v.conn[c].origin_fd]
  PROVE  OriginIn(v, c) = OriginIn(w, c)
<1>1. w.conn[c].origin_fd \in Fd \union {NoFd}
  BY DEF WorldType, ConnectionType
<1>2. CASE w.conn[c].origin_fd = NoFd
  BY <1>2 DEF OriginIn
<1>3. CASE w.conn[c].origin_fd \in Fd
  BY <1>3 DEF OriginIn, OwnsOrigin, SameOwner
<1>. QED BY <1>1, <1>2, <1>3

\* Fail
LEMMA FailMoves ==
  ASSUME NEW c \in Clients, NEW w, Underway(w, c), StaleOK(w, c)
  PROVE  Moves(w, Fail(w, c), c, "ERROR")
<1> DEFINE v == Fail(w, c)
<1>1. /\ v \in WorldType /\ v.sock = w.sock
      /\ v.conn[c] = InPhase(w.conn[c], "ERROR")
      /\ \A d \in Clients \ {c} : v.conn[d] = w.conn[d]
      /\ Rewatched(w.selector, v.selector)
  BY FailIs
<1> HIDE DEF v
<1>2. w \in WorldType /\ w.conn[c] \in ConnectionType
  BY DEF Underway, WorldType
<1>3. "ERROR" \in Phases \ {"FREE", "PARSING"} /\ "ERROR" \notin WithOrigin
      /\ MayBe(w.conn[c], "ERROR")
  BY DEF Phases, WithOrigin, MayBe
<1>4. Sound(v) /\ Keeps(w, v, c) /\ \A fd \in Fd : SameOwner(w, v, fd)
  BY <1>1, <1>3, Moved
<1>5. /\ v.conn[c].origin_fd = w.conn[c].origin_fd
      /\ v.conn[c].attempted = w.conn[c].attempted
  BY <1>1, <1>2, <1>3, InPhaseIs
<1>6. OriginIn(v, c) = OriginIn(w, c)
  BY <1>1, <1>2, <1>4, <1>5, OriginSame
<1>. QED BY <1>1, <1>4, <1>6 DEF Moves, Settles, v

\* Go
LEMMA GoMoves ==
  ASSUME NEW c \in Clients, NEW w, Underway(w, c), OwnsOrigin(w, c),
         NEW p \in WithOrigin, NEW i \in SUBSET Operations, NEW j \in SUBSET Operations,
         MayBe(w.conn[c], p)
  PROVE  Moves(w, Go(w, c, p, i, j), c, p)
<1> DEFINE v == Go(w, c, p, i, j)
<1>1. p \in Phases \ {"FREE", "PARSING"}
  BY DEF Phases, WithOrigin
<1>2. /\ v \in WorldType /\ v.sock = w.sock
      /\ v.conn[c] = InPhase(w.conn[c], p)
      /\ \A d \in Clients \ {c} : v.conn[d] = w.conn[d]
      /\ Rewatched(w.selector, v.selector)
  BY <1>1, GoIs
<1> HIDE DEF v
<1>3. w \in WorldType /\ w.conn[c] \in ConnectionType /\ StaleOK(w, c)
  BY DEF Underway, WorldType, StaleOK, StaleSound, Stale
<1>4. Sound(v) /\ Keeps(w, v, c) /\ \A fd \in Fd : SameOwner(w, v, fd)
  BY <1>1, <1>2, <1>3, Moved
<1>5. /\ v.conn[c].origin_fd = w.conn[c].origin_fd
      /\ v.conn[c].attempted = w.conn[c].attempted
  BY <1>1, <1>2, <1>3, InPhaseIs
<1>6. OriginIn(v, c) = OriginIn(w, c)
  BY <1>2, <1>3, <1>4, <1>5, OriginSame
<1>. QED BY <1>2, <1>4, <1>6 DEF Moves, Settles, v

\* Whatever interests a relaying connection sets, it goes on relaying
LEMMA RelayMoves ==
  ASSUME NEW c \in Clients, NEW w, Underway(w, c), OwnsOrigin(w, c), NEW v \in Relay(w, c)
  PROVE  Moves(w, v, c, "RELAY")
<1>1. PICK i \in RelayInterests : v = Go(w, c, "RELAY", i.client, i.origin)
  BY DEF Relay
<1>2. i.client \in SUBSET Operations /\ i.origin \in SUBSET Operations
  BY ProxyAssumption
<1>3. "RELAY" \in WithOrigin /\ MayBe(w.conn[c], "RELAY")
  BY DEF WithOrigin, MayBe
<1>. QED BY <1>1, <1>2, <1>3, GoMoves

\* selector_unregister_fd of the connection's own origin
LEMMA OriginGone ==
  ASSUME NEW c \in Clients, NEW w, Underway(w, c), OwnsOrigin(w, c)
  PROVE  LET fd == w.conn[c].origin_fd
             v == Unregister(w, fd)
         IN
         /\ fd \in Fd /\ fd < ItemsMax /\ Known(w.selector, fd) /\ w.conn[c].attempted
         /\ Underway(v, c) /\ ~OwnsOrigin(v, c) /\ Keeps(w, v, c) /\ v.conn = w.conn
         /\ ~Item(v, fd).used /\ v.sock[fd] = "free"
<1> DEFINE fd == w.conn[c].origin_fd
<1> DEFINE v == Unregister(w, fd)
<1> DEFINE t == Forget(w.selector, fd)
<1>1. /\ w \in WorldType /\ SelectorSound(w.selector) /\ w.conn[c].phase # "FREE"
      /\ \A x \in Fd : ItemSound(w, x)
      /\ \A d \in Clients \ {c} : ConnectionSound(w, d)
      /\ HasClient(w, c) /\ w.selector \in SelectorType
      /\ w.conn[c] \in ConnectionType /\ w.sock \in [Fd -> {"free", "listening"} \union Links]
  BY DEF Underway, WorldType
<1>2. fd \in Fd /\ Item(w, fd).handler = "origin" /\ Item(w, fd).data = c
  BY DEF OwnsOrigin
<1>3. Item(w, fd).used /\ fd < ItemsMax /\ w.conn[c].attempted
  BY <1>1, <1>2 DEF ItemSound
<1>4. Known(w.selector, fd)
  BY <1>2, <1>3 DEF Known, Item
<1> HIDE DEF fd
<1>5. /\ t \in SelectorType /\ SelectorSound(t)
      /\ t.items[fd] = Unused
      /\ \A x \in Fd \ {fd} : t.items[x] = w.selector.items[x]
  BY <1>1, <1>2, ForgetSelector
<1> HIDE DEF t
<1>6. v = [[w EXCEPT !.sock[fd] = "free"] EXCEPT !.selector = t]
  BY <1>1, <1>2, <1>4 DEF Unregister, OriginClose, Item, t, WorldType
<1> HIDE DEF v
<1>7. /\ v.selector = t /\ v.conn = w.conn /\ v.sock = [w.sock EXCEPT ![fd] = "free"]
      /\ v \in WorldType
  <2>1. [w.sock EXCEPT ![fd] = "free"] \in [Fd -> {"free", "listening"} \union Links]
    BY <1>1
  <2>. QED BY <1>1, <1>5, <1>6, <2>1 DEF WorldType
<1>8. /\ v.sock[fd] = "free" /\ \A x \in Fd \ {fd} : v.sock[x] = w.sock[x]
      /\ Item(v, fd) = Unused /\ \A x \in Fd \ {fd} : Item(v, x) = Item(w, x)
  BY <1>1, <1>2, <1>5, <1>7 DEF Item
<1>9. ~Item(v, fd).used /\ Item(v, fd).handler = "none"
  BY <1>8 DEF Unused
<1>10. \A x \in Fd : ItemSound(v, x)
  <2>1. ItemSound(v, fd)
    BY <1>8, <1>9 DEF ItemSound
  <2>2. ASSUME NEW x \in Fd \ {fd}
        PROVE  ItemSound(v, x)
    BY <1>1, <1>7, <1>8 DEF ItemSound
  <2>. QED BY <2>1, <2>2
<1>11. Keeps(w, v, c)
  BY <1>2, <1>3, <1>7, <1>8, <1>9 DEF Keeps, Mine, SameOwner
<1>12. \A d \in Clients \ {c} : ConnectionSound(v, d)
  BY <1>1, <1>10, <1>11, OthersKept
<1>13. HasClient(v, c)
  <2>1. w.conn[c].client_fd \in Fd /\ w.conn[c].client_fd # fd
    BY <1>1, <1>2 DEF ConnectionType, HasClient
  <2>. QED BY <1>1, <1>7, <1>8, <2>1 DEF HasClient
<1>14. Underway(v, c)
  <2>1. v.conn[c].doh # "none" => v.conn[c].host = "domain"
    BY <1>7 DEF Underway
  <2>. QED BY <1>1, <1>5, <1>7, <1>10, <1>12, <1>13, <2>1 DEF Underway
<1>15. ~OwnsOrigin(v, c)
  BY <1>7, <1>9 DEF OwnsOrigin, fd
<1>. QED BY <1>2, <1>3, <1>4, <1>7, <1>8, <1>9, <1>11, <1>14, <1>15 DEF fd, v

\* socket() in the middle of a callback, with or without an item for its descriptor
LEMMA OriginOpened ==
  ASSUME NEW c \in Clients, NEW w, Underway(w, c), ~OwnsOrigin(w, c),
         NEW fd \in Fd, w.sock[fd] = "free", NEW v \in WorldType,
         v.conn[c].origin_fd = fd, v.conn[c].attempted,
         v.conn[c].client_fd = w.conn[c].client_fd, v.conn[c].phase = w.conn[c].phase,
         v.conn[c].host = w.conn[c].host, v.conn[c].doh = w.conn[c].doh,
         \A d \in Clients \ {c} : v.conn[d] = w.conn[d],
         v.sock[fd] = "pending", \A x \in Fd \ {fd} : v.sock[x] = w.sock[x],
         SelectorSound(v.selector), \A x \in Fd \ {fd} : Item(v, x) = Item(w, x),
         \/ ~(fd < ItemsMax) /\ Item(v, fd) = Item(w, fd)
         \/ fd < ItemsMax /\ Item(v, fd).used /\ Item(v, fd).handler = "origin"
            /\ Item(v, fd).data = c
  PROVE  /\ Underway(v, c) /\ Keeps(w, v, c) /\ StaleOK(v, c)
         /\ fd < ItemsMax => OwnsOrigin(v, c)
         /\ ~(fd < ItemsMax) => ~OwnsOrigin(v, c) /\ ~Item(v, fd).used
<1>1. /\ w \in WorldType /\ w.conn[c].phase # "FREE"
      /\ \A x \in Fd : ItemSound(w, x)
      /\ \A d \in Clients \ {c} : ConnectionSound(w, d)
      /\ HasClient(w, c) /\ w.conn[c] \in ConnectionType
      /\ w.conn[c].doh # "none" => w.conn[c].host = "domain"
  BY DEF Underway, WorldType
<1>2. ~Item(w, fd).used /\ Item(w, fd).handler = "none"
  BY <1>1 DEF ItemSound
<1>3. Item(w, fd) = Item(v, fd) => ~Item(v, fd).used /\ Item(v, fd).handler = "none"
  BY <1>2
<1>4. ItemSound(v, fd)
  <2>1. CASE ~(fd < ItemsMax) /\ Item(v, fd) = Item(w, fd)
    BY <1>3, <2>1 DEF ItemSound
  <2>2. CASE fd < ItemsMax /\ Item(v, fd).used /\ Item(v, fd).handler = "origin"
             /\ Item(v, fd).data = c
    BY <1>1, <2>2 DEF ItemSound, Links
  <2>. QED BY <2>1, <2>2
<1>5. ASSUME NEW x \in Fd \ {fd}
      PROVE  ItemSound(v, x)
  <2>1. ItemSound(w, x) /\ Item(v, x) = Item(w, x) /\ v.sock[x] = w.sock[x]
    BY <1>1
  <2>2. CASE Item(w, x).data # c
    BY <2>1, <2>2 DEF ItemSound
  <2>3. CASE Item(w, x).data = c
    <3>1. Item(w, x).handler # "origin"
      BY <2>1, <2>3 DEF ItemSound, OwnsOrigin
    <3>. QED BY <2>1, <2>3, <3>1 DEF ItemSound
  <2>. QED BY <2>2, <2>3
<1>6. \A x \in Fd : ItemSound(v, x)
  BY <1>4, <1>5
<1>7. Keeps(w, v, c)
  <2>1. Mine(w, fd, c) /\ Mine(v, fd, c)
    BY <1>2, <1>3 DEF Mine
  <2>2. \A x \in Fd \ {fd} : SameOwner(w, v, x) /\ v.sock[x] = w.sock[x]
    BY DEF SameOwner
  <2>. QED BY <2>1, <2>2 DEF Keeps
<1>8. \A d \in Clients \ {c} : ConnectionSound(v, d)
  BY <1>1, <1>6, <1>7, OthersKept
<1>9. HasClient(v, c)
  <2>1. w.conn[c].client_fd \in Fd /\ w.conn[c].client_fd # fd
    BY <1>1, <1>2 DEF ConnectionType, HasClient
  <2>. QED BY <1>1, <2>1 DEF HasClient
<1>10. Underway(v, c)
  BY <1>1, <1>6, <1>8, <1>9 DEF Underway
<1>11. fd < ItemsMax => OwnsOrigin(v, c)
  BY DEF OwnsOrigin
<1>12. ~(fd < ItemsMax) => ~OwnsOrigin(v, c) /\ ~Item(v, fd).used
  BY <1>3 DEF OwnsOrigin
<1>13. StaleOK(v, c)
  BY <1>11, <1>12 DEF StaleOK, StaleSound, Stale
<1>. QED BY <1>7, <1>10, <1>11, <1>12, <1>13

\* register_origin_socket, with a socket
LEMMA RegisterOriginRegisters ==
  ASSUME NEW c \in Clients, NEW w, Underway(w, c), ~OwnsOrigin(w, c), FreeFds(w) # {}
  PROVE  Registers(w, RegisterOrigin(w, c), c, w.conn[c].doh)
<1> DEFINE fd == NextFd(w)
<1> DEFINE k == [w.conn[c] EXCEPT !.origin_fd = fd, !.attempted = TRUE]
<1> DEFINE opened == [w EXCEPT !.sock[fd] = "pending", !.conn[c].origin_fd = fd,
                               !.conn[c].attempted = TRUE]
<1> DEFINE t == selector_register(opened.selector, fd, "origin", {"WRITE"}, c)
<1> DEFINE known == [opened EXCEPT
                       !.selector = selector_register(@, fd, "origin", {"WRITE"}, c)]
<1>1. /\ w \in WorldType /\ SelectorSound(w.selector) /\ w.selector \in SelectorType
      /\ w.conn \in [Clients -> ConnectionType] /\ w.conn[c] \in ConnectionType
      /\ w.sock \in [Fd -> {"free", "listening"} \union Links]
      /\ \A x \in Fd : ItemSound(w, x)
  BY DEF Underway, WorldType
<1>2. fd \in Fd /\ w.sock[fd] = "free"
  BY NextFdIs
<1>3. RegisterOrigin(w, c) = IF ~Registrable(w.selector, fd) THEN Fail(opened, c)
                             ELSE Go(known, c, "TRY", {}, {"WRITE"})
  BY DEF RegisterOrigin
<1> HIDE DEF fd
<1>4. /\ k \in ConnectionType /\ k.origin_fd = fd /\ k.attempted
      /\ k.client_fd = w.conn[c].client_fd /\ k.phase = w.conn[c].phase
      /\ k.host = w.conn[c].host /\ k.doh = w.conn[c].doh
  BY <1>1, <1>2 DEF ConnectionType
<1>5. opened = [[w EXCEPT !.sock = [@ EXCEPT ![fd] = "pending"]]
                  EXCEPT !.conn = [@ EXCEPT ![c] = k]]
  BY <1>1 DEF WorldType
<1> HIDE DEF k, opened
<1>6. /\ opened \in WorldType /\ opened.selector = w.selector /\ opened.conn[c] = k
      /\ \A d \in Clients \ {c} : opened.conn[d] = w.conn[d]
      /\ opened.sock[fd] = "pending" /\ \A x \in Fd \ {fd} : opened.sock[x] = w.sock[x]
  <2>1. [w.conn EXCEPT ![c] = k] \in [Clients -> ConnectionType]
    BY <1>1, <1>4
  <2>2. [w.sock EXCEPT ![fd] = "pending"] \in [Fd -> {"free", "listening"} \union Links]
    BY <1>1 DEF Links
  <2>3. /\ opened \in WorldType /\ opened.selector = w.selector
        /\ opened.conn = [w.conn EXCEPT ![c] = k]
        /\ opened.sock = [w.sock EXCEPT ![fd] = "pending"]
    BY <1>1, <1>5, <2>1, <2>2 DEF WorldType
  <2>. QED BY <1>1, <1>2, <2>3
<1>7. \A x \in Fd : Item(opened, x) = Item(w, x)
  BY <1>6 DEF Item
<1>8. CASE ~Registrable(w.selector, fd)
  <2>1. ~(fd < ItemsMax)
    BY <1>1, <1>2, <1>8 DEF Registrable, ItemSound, Item
  <2>2. SelectorSound(opened.selector)
    BY <1>1, <1>6
  <2>3. /\ Underway(opened, c) /\ Keeps(w, opened, c) /\ StaleOK(opened, c)
        /\ ~OwnsOrigin(opened, c) /\ ~Item(opened, fd).used
    BY <1>2, <1>4, <1>6, <1>7, <2>1, <2>2, OriginOpened
  <2> DEFINE v == Fail(opened, c)
  <2>4. Moves(opened, v, c, "ERROR")
    BY <2>3, FailMoves
  <2>5. RegisterOrigin(w, c) = v
    BY <1>3, <1>8
  <2> HIDE DEF v
  <2>6. Sound(v) /\ Keeps(w, v, c)
    BY <2>3, <2>4, KeepsBoth DEF Moves, Settles
  <2>7. OriginIn(opened, c) = "unregistered"
    BY <1>2, <1>4, <1>6, <2>3, FdFacts DEF OriginIn
  <2>8. /\ v.conn[c].phase = "ERROR" /\ v.conn[c].doh = w.conn[c].doh
        /\ v.conn[c].attempted /\ v.conn[c].host = w.conn[c].host
    BY <1>4, <1>6, <2>4, InPhaseIs DEF Moves, Phases
  <2>. QED BY <2>4, <2>5, <2>6, <2>7, <2>8 DEF Registers, Settles, Moves
<1>9. CASE Registrable(w.selector, fd)
  <2>1. fd < ItemsMax /\ Registrable(opened.selector, fd)
    BY <1>6, <1>9 DEF Registrable
  <2>2. /\ t \in SelectorType /\ SelectorSound(t)
        /\ t.items[fd].used /\ t.items[fd].handler = "origin" /\ t.items[fd].data = c
        /\ \A x \in Fd \ {fd} : t.items[x] = opened.selector.items[x]
    <3>1. {"WRITE"} \in SUBSET Operations /\ "origin" \in {"accept", "client", "origin"}
          /\ c \in Clients \union {"none"}
      BY DEF Operations
    <3>2. opened.selector \in SelectorType /\ SelectorSound(opened.selector)
      BY <1>1, <1>6
    <3> DEFINE s == opened.selector
    <3> DEFINE i == {"WRITE"}
    <3> DEFINE h == "origin"
    <3> HIDE DEF s, i, h
    <3>3. s \in SelectorType /\ SelectorSound(s) /\ Registrable(s, fd)
          /\ h \in {"accept", "client", "origin"} /\ i \in SUBSET Operations
      BY <2>1, <3>1, <3>2 DEF s, i, h
    <3> DEFINE u == selector_register(s, fd, h, i, c)
    <3>4. Adds(s, u, fd, h, i, c)
      BY <3>1, <3>3, RegisterSelector
    <3>. QED BY <3>4 DEF Adds, s, i, h
  <2>3. known = [opened EXCEPT !.selector = t]
    BY <1>6 DEF WorldType
  <2> HIDE DEF t, known
  <2>4. /\ known \in WorldType /\ known.selector = t
        /\ known.conn = opened.conn /\ known.sock = opened.sock
    BY <1>6, <2>2, <2>3 DEF WorldType
  <2>5. /\ Item(known, fd).used /\ Item(known, fd).handler = "origin"
        /\ Item(known, fd).data = c
        /\ \A x \in Fd \ {fd} : Item(known, x) = Item(w, x)
    BY <1>6, <2>2, <2>4 DEF Item
  <2>6. Underway(known, c) /\ Keeps(w, known, c) /\ OwnsOrigin(known, c)
    <3>1. SelectorSound(known.selector)
      BY <2>2, <2>4
    <3>2. /\ known.conn[c] = k /\ \A d \in Clients \ {c} : known.conn[d] = w.conn[d]
          /\ known.sock[fd] = "pending" /\ \A x \in Fd \ {fd} : known.sock[x] = w.sock[x]
      BY <1>6, <2>4
    <3>. QED BY <1>2, <1>4, <2>1, <2>4, <2>5, <3>1, <3>2, OriginOpened
  <2> DEFINE v == Go(known, c, "TRY", {}, {"WRITE"})
  <2>7. Moves(known, v, c, "TRY")
    <3>1. "TRY" \in WithOrigin /\ {} \in SUBSET Operations /\ {"WRITE"} \in SUBSET Operations
          /\ MayBe(known.conn[c], "TRY")
      BY DEF WithOrigin, Operations, MayBe
    <3>. QED BY <2>6, <3>1, GoMoves
  <2>8. RegisterOrigin(w, c) = v
    BY <1>3, <1>9
  <2> HIDE DEF v
  <2>9. Sound(v) /\ Keeps(w, v, c)
    BY <2>6, <2>7, KeepsBoth DEF Moves, Settles
  <2>10. OriginIn(known, c) = "registered"
    BY <1>2, <1>4, <1>6, <2>4, <2>6, FdFacts DEF OriginIn
  <2>11. /\ v.conn[c].phase = "TRY" /\ v.conn[c].doh = w.conn[c].doh
         /\ v.conn[c].attempted /\ v.conn[c].host = w.conn[c].host
    BY <1>4, <1>6, <2>4, <2>7, InPhaseIs DEF Moves, Phases
  <2>. QED BY <2>7, <2>8, <2>9, <2>10, <2>11 DEF Registers, Settles, Moves
<1>. QED BY <1>8, <1>9

\* open_origin's successful end, with the resolution as it was
LEMMA RegisteredRegisters ==
  ASSUME NEW c \in Clients, NEW w, Underway(w, c), ~OwnsOrigin(w, c), NEW v \in Registered(w, c)
  PROVE  Registers(w, v, c, w.conn[c].doh)
BY RegisterOriginRegisters DEF Registered

\* A struct in the place of another
WithStruct(w, c, k) == [w EXCEPT !.conn[c] = k]

\* Only that connection's struct differs
LEMMA WithStructIs ==
  ASSUME NEW c \in Clients, NEW w \in WorldType, NEW k \in ConnectionType
  PROVE  LET v == WithStruct(w, c, k) IN
         /\ v \in WorldType /\ v.selector = w.selector /\ v.sock = w.sock
         /\ v.conn[c] = k /\ \A d \in Clients \ {c} : v.conn[d] = w.conn[d]
<1>1. [w.conn EXCEPT ![c] = k] \in [Clients -> ConnectionType]
  BY DEF WorldType
<1>. QED BY <1>1 DEF WorldType, WithStruct

\* A change of the fields that a callback sets on the way
LEMMA StructSet ==
  ASSUME NEW c \in Clients, NEW w, Underway(w, c), NEW k \in ConnectionType,
         k.client_fd = w.conn[c].client_fd, k.host = w.conn[c].host,
         k.phase = w.conn[c].phase, k.attempted = w.conn[c].attempted,
         k.doh # "none" => k.host = "domain",
         OwnsOrigin(w, c) => k.origin_fd = w.conn[c].origin_fd
  PROVE  LET v == WithStruct(w, c, k) IN
         /\ Underway(v, c) /\ Keeps(w, v, c) /\ v.conn[c] = k /\ v.sock = w.sock
         /\ k.origin_fd = w.conn[c].origin_fd =>
              (OwnsOrigin(v, c) <=> OwnsOrigin(w, c)) /\ OriginIn(v, c) = OriginIn(w, c)
         /\ \A fd \in Fd : SameOwner(w, v, fd)
<1> DEFINE v == WithStruct(w, c, k)
<1>1. w \in WorldType /\ SelectorSound(w.selector) /\ w.selector \in SelectorType
      /\ k.phase # "FREE" /\ \A fd \in Fd : ItemSound(w, fd)
  BY DEF Underway, WorldType
<1>2. /\ v \in WorldType /\ v.selector = w.selector /\ v.sock = w.sock
      /\ v.conn[c] = k /\ \A d \in Clients \ {c} : v.conn[d] = w.conn[d]
  BY <1>1, WithStructIs
<1> HIDE DEF v
<1>3. Rewatched(w.selector, v.selector)
  BY <1>1, <1>2 DEF Rewatched
<1>4. OwnsOrigin(w, c) => k.attempted
  BY <1>1 DEF OwnsOrigin, ItemSound
<1>5. /\ Underway(v, c) /\ Keeps(w, v, c)
      /\ k.origin_fd = w.conn[c].origin_fd => (OwnsOrigin(v, c) <=> OwnsOrigin(w, c))
      /\ \A fd \in Fd : SameOwner(w, v, fd)
  BY <1>1, <1>2, <1>3, <1>4, StructChanged
<1>6. k.origin_fd = w.conn[c].origin_fd => OriginIn(v, c) = OriginIn(w, c)
  BY <1>1, <1>2, <1>5, OriginSame
<1>. QED BY <1>2, <1>5, <1>6 DEF v

\* establish_origin_connection
LEMMA OpenOriginOpens ==
  ASSUME NEW c \in Clients, NEW w, Underway(w, c), ~OwnsOrigin(w, c), NEW v \in OpenOrigin(w, c)
  PROVE  Opens(w, v, c, w.conn[c].doh)
<1>1. CASE v \in Registered(w, c)
  BY <1>1, RegisteredRegisters DEF Opens
<1>2. CASE v = Fail([w EXCEPT !.conn[c].origin_fd = NoFd], c)
  <2> DEFINE k == [w.conn[c] EXCEPT !.origin_fd = NoFd]
  <2> DEFINE u == WithStruct(w, c, k)
  <2>1. w \in WorldType /\ w.conn[c] \in ConnectionType
        /\ (w.conn[c].doh # "none" => w.conn[c].host = "domain")
    BY DEF Underway, WorldType
  <2>2. /\ k \in ConnectionType /\ k.origin_fd = NoFd
        /\ k.client_fd = w.conn[c].client_fd /\ k.phase = w.conn[c].phase
        /\ k.host = w.conn[c].host /\ k.doh = w.conn[c].doh /\ k.attempted = w.conn[c].attempted
    BY <2>1 DEF ConnectionType
  <2>3. u = [w EXCEPT !.conn[c].origin_fd = NoFd]
    BY <2>1 DEF WithStruct, WorldType
  <2> HIDE DEF k
  <2>4. Underway(u, c) /\ Keeps(w, u, c) /\ u.conn[c] = k
    BY <2>1, <2>2, StructSet
  <2>5. v = Fail(u, c)
    BY <1>2, <2>3
  <2> HIDE DEF u
  <2>6. StaleOK(u, c) /\ OriginIn(u, c) = "none"
    BY <2>2, <2>4, FdFacts DEF StaleOK, StaleSound, Stale, OriginIn
  <2>7. Moves(u, v, c, "ERROR")
    BY <2>4, <2>5, <2>6, FailMoves
  <2>8. Settles(w, v, c)
    BY <2>4, <2>7, KeepsBoth DEF Moves, Settles
  <2>9. /\ v.conn[c].phase = "ERROR" /\ v.conn[c].doh = w.conn[c].doh
        /\ v.conn[c].attempted = w.conn[c].attempted /\ v.conn[c].host = w.conn[c].host
    BY <2>2, <2>4, <2>7, InPhaseIs DEF Moves, Phases
  <2>. QED BY <2>6, <2>7, <2>8, <2>9 DEF Opens, Moves
<1>. QED BY <1>1, <1>2 DEF OpenOrigin

\* What a connection does to its lifecycle later in a callback
LEMMA RegistersSince ==
  ASSUME NEW c \in Clients, NEW w, NEW u, NEW v, NEW query, Keeps(w, u, c),
         u.conn[c].host = w.conn[c].host, Registers(u, v, c, query)
  PROVE  Registers(w, v, c, query)
BY KeepsBoth DEF Registers, Settles

\* An attempt after something else that the same callback did
LEMMA OpensSince ==
  ASSUME NEW c \in Clients, NEW w, NEW u, NEW v, NEW query, Keeps(w, u, c),
         u.conn[c].host = w.conn[c].host, u.conn[c].attempted = w.conn[c].attempted,
         Opens(u, v, c, query)
  PROVE  Opens(w, v, c, query)
<1>1. CASE Registers(u, v, c, query)
  BY <1>1, RegistersSince DEF Opens
<1>2. CASE ~Registers(u, v, c, query)
  BY <1>2, KeepsBoth DEF Opens, Settles
<1>. QED BY <1>1, <1>2

\* As in Lifecycle
TriesNext(w, v, c) ==
  /\ OriginIn(w, c) = "registered"
  /\ \/ w.conn[c].doh \in {"A", "AAAA"} /\ Registers(w, v, c, w.conn[c].doh)
     \/ w.conn[c].doh = "A" /\ Opens(w, v, c, "between")
     \/ /\ w.conn[c].doh \in {"AAAA", "between"}
        /\ Settles(w, v, c) /\ v.conn[c].phase = "ERROR"
        /\ OriginIn(v, c) \in {"closed", "none"} /\ v.conn[c].host = w.conn[c].host
        /\ v.conn[c].doh = w.conn[c].doh /\ v.conn[c].attempted = w.conn[c].attempted

\* try_next_dns_connection, while the failed socket is registered
LEMMA TryNextTries ==
  ASSUME NEW c \in Clients, NEW w, Underway(w, c), OwnsOrigin(w, c),
         w.conn[c].doh # "none", NEW v \in TryNext(w, c)
  PROVE  TriesNext(w, v, c)
<1> DEFINE fd == w.conn[c].origin_fd
<1> DEFINE gone == Unregister(w, fd)
<1> DEFINE GiveUp(n) == Fail([gone EXCEPT !.conn[c].origin_fd = n], c)
<1> DEFINE second == [gone EXCEPT !.conn[c].doh = "between"]
<1>1. /\ fd \in Fd /\ fd < ItemsMax /\ Known(w.selector, fd) /\ w.conn[c].attempted
      /\ Underway(gone, c) /\ ~OwnsOrigin(gone, c) /\ Keeps(w, gone, c) /\ gone.conn = w.conn
      /\ ~Item(gone, fd).used /\ gone.sock[fd] = "free"
  BY OriginGone
<1>2. OriginIn(w, c) = "registered"
  BY <1>1, FdFacts DEF OriginIn
<1>3. \/ w.conn[c].doh = "A" /\ v \in Registered(gone, c) \union OpenOrigin(second, c)
      \/ w.conn[c].doh = "AAAA" /\ v \in Registered(gone, c) \union {GiveUp(fd), GiveUp(NoFd)}
      \/ w.conn[c].doh = "between" /\ v = GiveUp(fd)
  <2>1. w.conn[c].doh \in {"A", "AAAA", "between"}
    BY DEF Underway, WorldType, ConnectionType
  <2>. QED BY <1>1, <2>1 DEF TryNext
<1> HIDE DEF fd, gone
<1>4. /\ gone \in WorldType /\ gone.conn[c] \in ConnectionType
      /\ gone.conn[c].host = "domain" /\ gone.conn[c] = w.conn[c]
      /\ gone.conn[c].doh = w.conn[c].doh /\ gone.conn[c].phase # "FREE"
  BY <1>1 DEF Underway, WorldType
<1>5. ASSUME v \in Registered(gone, c)
      PROVE  Registers(w, v, c, w.conn[c].doh)
  BY <1>1, <1>4, <1>5, RegisteredRegisters, RegistersSince
<1>6. ASSUME v \in OpenOrigin(second, c)
      PROVE  Opens(w, v, c, "between")
  <2> DEFINE k == [gone.conn[c] EXCEPT !.doh = "between"]
  <2> DEFINE u == WithStruct(gone, c, k)
  <2>1. /\ k \in ConnectionType /\ k.origin_fd = gone.conn[c].origin_fd
        /\ k.client_fd = gone.conn[c].client_fd /\ k.phase = gone.conn[c].phase
        /\ k.host = "domain" /\ k.doh = "between" /\ k.attempted = gone.conn[c].attempted
    BY <1>4 DEF ConnectionType
  <2>2. u = second
    BY <1>4 DEF WithStruct, WorldType
  <2> HIDE DEF k
  <2>3. /\ Underway(u, c) /\ Keeps(gone, u, c) /\ u.conn[c] = k
        /\ (OwnsOrigin(u, c) <=> OwnsOrigin(gone, c))
    BY <1>1, <1>4, <2>1, StructSet
  <2> HIDE DEF u, second
  <2>4. Opens(u, v, c, "between")
    BY <1>1, <1>6, <2>1, <2>2, <2>3, OpenOriginOpens
  <2>5. Keeps(w, u, c)
    BY <1>1, <2>3, KeepsBoth
  <2>. QED BY <1>4, <2>1, <2>3, <2>4, <2>5, OpensSince
<1>7. ASSUME NEW n \in {fd, NoFd}, v = GiveUp(n)
      PROVE  /\ Settles(w, v, c) /\ v.conn[c].phase = "ERROR"
             /\ OriginIn(v, c) \in {"closed", "none"} /\ v.conn[c].host = w.conn[c].host
             /\ v.conn[c].doh = w.conn[c].doh /\ v.conn[c].attempted = w.conn[c].attempted
  <2> DEFINE k == [gone.conn[c] EXCEPT !.origin_fd = n]
  <2> DEFINE u == WithStruct(gone, c, k)
  <2>1. /\ k \in ConnectionType /\ k.origin_fd = n
        /\ k.client_fd = gone.conn[c].client_fd /\ k.phase = gone.conn[c].phase
        /\ k.host = "domain" /\ k.doh = w.conn[c].doh /\ k.attempted
        /\ k.attempted = gone.conn[c].attempted
    BY <1>1, <1>4 DEF ConnectionType
  <2>2. u = [gone EXCEPT !.conn[c].origin_fd = n]
    BY <1>4 DEF WithStruct, WorldType
  <2> HIDE DEF k
  <2>3. /\ Underway(u, c) /\ Keeps(gone, u, c) /\ u.conn[c] = k /\ u.sock = gone.sock
        /\ \A x \in Fd : SameOwner(gone, u, x)
    BY <1>1, <1>4, <2>1, StructSet
  <2>4. v = Fail(u, c)
    BY <1>7, <2>2
  <2> HIDE DEF u
  <2>5. n \in Fd => ~Item(u, n).used /\ u.sock[n] = "free" /\ n < ItemsMax
    BY <1>1, <2>3, FdFacts DEF SameOwner
  <2>6. StaleOK(u, c)
    BY <2>1, <2>3, <2>5 DEF StaleOK, StaleSound, Stale
  <2>7. OriginIn(u, c) \in {"closed", "none"}
    <3>1. CASE n = NoFd
      BY <2>1, <2>3, <3>1 DEF OriginIn
    <3>2. CASE n = fd
      <4>1. n \in Fd /\ n # NoFd
        BY <1>1, <3>2, FdFacts
      <4>2. ~OwnsOrigin(u, c)
        BY <2>1, <2>3, <2>5, <4>1 DEF OwnsOrigin, Underway, ItemSound
      <4>. QED BY <2>1, <2>3, <2>5, <4>1, <4>2 DEF OriginIn
    <3>. QED BY <3>1, <3>2
  <2>8. Moves(u, v, c, "ERROR")
    BY <2>3, <2>4, <2>6, FailMoves
  <2>9. Keeps(w, u, c)
    BY <1>1, <2>3, KeepsBoth
  <2>10. Settles(w, v, c)
    BY <2>8, <2>9, KeepsBoth DEF Moves, Settles
  <2>11. /\ v.conn[c].phase = "ERROR" /\ v.conn[c].host = k.host
         /\ v.conn[c].doh = k.doh /\ v.conn[c].attempted = k.attempted
    <3>1. v.conn[c] = InPhase(k, "ERROR") /\ "ERROR" \in Phases
      BY <2>3, <2>8 DEF Moves, Phases
    <3>2. k \in ConnectionType
      BY <2>1
    <3>3. /\ InPhase(k, "ERROR").phase = "ERROR" /\ InPhase(k, "ERROR").host = k.host
          /\ InPhase(k, "ERROR").doh = k.doh /\ InPhase(k, "ERROR").attempted = k.attempted
      BY <3>1, <3>2, InPhaseIs
    <3>. QED BY <3>1, <3>3
  <2>. QED BY <1>1, <1>4, <2>1, <2>7, <2>8, <2>10, <2>11 DEF Moves
<1> HIDE DEF GiveUp, second
<1>. QED BY <1>2, <1>3, <1>5, <1>6, <1>7 DEF TriesNext

\* The end of a connection
Releases(w, v, c) == Settles(w, v, c) /\ v.conn[c] = NoConnection

\* A struct that is not in use
LEMMA NoConnectionIs ==
  /\ NoConnection \in ConnectionType /\ NoConnection.phase = "FREE"
  /\ ~NoConnection.attempted /\ NoConnection.doh = "none" /\ NoConnection.host = "ip"
BY FdFacts DEF NoConnection, ConnectionType, Phases

\* The client's item, after the origin's
LEMMA ClientGone ==
  ASSUME NEW c \in Clients, NEW w, Underway(w, c), ~OwnsOrigin(w, c)
  PROVE  Releases(w, Unregister(w, w.conn[c].client_fd), c)
<1> DEFINE fd == w.conn[c].client_fd
<1> DEFINE v == Unregister(w, fd)
<1> DEFINE t == Forget(w.selector, fd)
<1>1. /\ w \in WorldType /\ SelectorSound(w.selector) /\ w.conn[c].phase # "FREE"
      /\ \A x \in Fd : ItemSound(w, x)
      /\ \A d \in Clients \ {c} : ConnectionSound(w, d)
      /\ HasClient(w, c) /\ w.selector \in SelectorType
      /\ w.conn \in [Clients -> ConnectionType] /\ w.conn[c] \in ConnectionType
      /\ w.sock \in [Fd -> {"free", "listening"} \union Links]
  BY DEF Underway, WorldType
<1>2. fd \in Fd /\ Item(w, fd).handler = "client" /\ Item(w, fd).data = c
  BY <1>1 DEF HasClient, ConnectionType
<1>3. Item(w, fd).used /\ fd < ItemsMax
  BY <1>1, <1>2 DEF ItemSound
<1>4. Known(w.selector, fd)
  BY <1>2, <1>3 DEF Known, Item
<1>5. v = [ClientClose(w, c) EXCEPT !.selector = Forget(@, fd)]
  BY <1>2, <1>4 DEF Unregister, Item
<1>6. ClientClose(w, c) = [[w EXCEPT !.sock = [@ EXCEPT ![fd] = "free"]]
                             EXCEPT !.conn = [@ EXCEPT ![c] = NoConnection]]
  BY <1>1 DEF ClientClose, WorldType
<1> HIDE DEF fd
<1>7. /\ t \in SelectorType /\ SelectorSound(t)
      /\ t.items[fd] = Unused
      /\ \A x \in Fd \ {fd} : t.items[x] = w.selector.items[x]
  BY <1>1, <1>2, ForgetSelector
<1> HIDE DEF v, t
<1>8. /\ v.selector = t /\ v \in WorldType
      /\ v.sock = [w.sock EXCEPT ![fd] = "free"]
      /\ v.conn = [w.conn EXCEPT ![c] = NoConnection]
  <2>1. [w.sock EXCEPT ![fd] = "free"] \in [Fd -> {"free", "listening"} \union Links]
    BY <1>1
  <2>2. [w.conn EXCEPT ![c] = NoConnection] \in [Clients -> ConnectionType]
    BY <1>1, NoConnectionIs
  <2>3. /\ ClientClose(w, c) \in WorldType /\ ClientClose(w, c).selector = w.selector
        /\ ClientClose(w, c).sock = [w.sock EXCEPT ![fd] = "free"]
        /\ ClientClose(w, c).conn = [w.conn EXCEPT ![c] = NoConnection]
    BY <1>1, <1>6, <2>1, <2>2 DEF WorldType
  <2>. QED BY <1>5, <1>7, <2>3 DEF WorldType, t
<1>9. /\ v.sock[fd] = "free" /\ \A x \in Fd \ {fd} : v.sock[x] = w.sock[x]
      /\ Item(v, fd) = Unused /\ \A x \in Fd \ {fd} : Item(v, x) = Item(w, x)
      /\ v.conn[c] = NoConnection /\ \A d \in Clients \ {c} : v.conn[d] = w.conn[d]
  BY <1>1, <1>2, <1>7, <1>8 DEF Item
<1>10. ~Item(v, fd).used /\ Item(v, fd).handler = "none"
  BY <1>9 DEF Unused
<1>11. \A x \in Fd : ItemSound(v, x)
  <2>1. ItemSound(v, fd)
    BY <1>9, <1>10 DEF ItemSound
  <2>2. ASSUME NEW x \in Fd \ {fd}
        PROVE  ItemSound(v, x)
    <3>1. ItemSound(w, x) /\ Item(v, x) = Item(w, x) /\ v.sock[x] = w.sock[x]
      BY <1>1, <1>9
    <3>2. CASE Item(w, x).data # c
      BY <1>9, <3>1, <3>2 DEF ItemSound
    <3>3. CASE Item(w, x).data = c
      <4>1. Item(w, x).handler # "origin"
        BY <3>1, <3>3 DEF ItemSound, OwnsOrigin
      <4>2. Item(w, x).handler # "client"
        BY <3>1, <3>3 DEF ItemSound, fd
      <4>. QED BY <3>1, <4>1, <4>2 DEF ItemSound
    <3>. QED BY <3>2, <3>3
  <2>. QED BY <2>1, <2>2
<1>12. Keeps(w, v, c)
  BY <1>2, <1>3, <1>9, <1>10 DEF Keeps, Mine, SameOwner
<1>13. \A d \in Clients \ {c} : ConnectionSound(v, d)
  BY <1>1, <1>11, <1>12, OthersKept
<1>14. ConnectionSound(v, c)
  BY <1>9, NoConnectionIs DEF ConnectionSound, StaleSound, Stale, WithOrigin, MayBe
<1>15. SelectorSound(v.selector)
  BY <1>7, <1>8
<1>16. Sound(v)
  BY <1>8, <1>11, <1>13, <1>14, <1>15 DEF Sound
<1>. QED BY <1>9, <1>12, <1>16 DEF Releases, Settles, v, fd

\* close_proxy_connection and done_on_arrival
LEMMA ReleaseReleases ==
  ASSUME NEW c \in Clients, NEW w, Sound(w), StaleOK(w, c), w.conn[c].phase # "FREE"
  PROVE  Releases(w, Release(w, c), c)
<1> DEFINE gone == IF w.conn[c].attempted THEN Unregister(w, w.conn[c].origin_fd) ELSE w
<1>1. Underway(w, c)
  BY Entered
<1>2. Underway(gone, c) /\ ~OwnsOrigin(gone, c) /\ Keeps(w, gone, c) /\ gone.conn = w.conn
  <2>1. CASE OwnsOrigin(w, c)
    <3>1. w.conn[c].attempted
      BY <1>1, <2>1, OriginGone
    <3>. QED BY <1>1, <2>1, <3>1, OriginGone
  <2>2. CASE ~OwnsOrigin(w, c)
    <3>1. w.conn[c].attempted => ~Known(w.selector, w.conn[c].origin_fd)
      BY <2>2 DEF StaleOK, Stale, Known, Item
    <3>2. gone = w
      BY <3>1 DEF Unregister
    <3>. QED BY <1>1, <2>2, <3>2, KeepsItself
  <2>. QED BY <2>1, <2>2
<1>3. Release(w, c) = Unregister(gone, gone.conn[c].client_fd)
  BY <1>2 DEF Release
<1> HIDE DEF gone
<1>4. Releases(gone, Release(w, c), c)
  BY <1>2, <1>3, ClientGone
<1>. QED BY <1>2, <1>4, KeepsBoth DEF Releases, Settles

\* A new connection
Accepts(w, v, c) ==
  /\ Settles(w, v, c) /\ w.conn[c].phase = "FREE"
  /\ v.conn[c].phase = "PARSING" /\ v.conn[c].doh = "none" /\ ~v.conn[c].attempted

\* accept_new_connection
LEMMA AcceptAccepts ==
  ASSUME NEW w, Sound(w), NEW v \in AcceptNewConnection(w)
  PROVE  v = w \/ \E c \in Clients : Accepts(w, v, c)
<1> DEFINE fd == NextFd(w)
<1> SUFFICES ASSUME v # w PROVE \E c \in Clients : Accepts(w, v, c)
  OBVIOUS
<1> DEFINE Struct(host) == [NoConnection EXCEPT !.phase = "PARSING", !.client_fd = fd,
                                                !.host = host]
<1> DEFINE Table(c) == selector_register(w.selector, fd, "client", {"READ"}, c)
<1>1. PICK c \in Clients, host \in HostKinds :
        /\ FreeFds(w) # {} /\ Acceptable(w, c, host)
        /\ v = [w EXCEPT !.sock[fd] = "up", !.conn[c] = Struct(host),
                         !.selector = selector_register(@, fd, "client", {"READ"}, c)]
  BY DEF AcceptNewConnection
<1>2. /\ w \in WorldType /\ SelectorSound(w.selector) /\ w.selector \in SelectorType
      /\ w.conn \in [Clients -> ConnectionType]
      /\ w.sock \in [Fd -> {"free", "listening"} \union Links]
      /\ \A x \in Fd : ItemSound(w, x)
      /\ \A d \in Clients : ConnectionSound(w, d)
  BY DEF Sound, WorldType
<1>3. fd \in Fd /\ w.sock[fd] = "free"
  BY <1>1, NextFdIs
<1>4. w.conn[c].phase = "FREE" /\ Registrable(w.selector, fd)
  BY <1>1 DEF Acceptable
<1> DEFINE k == Struct(host)
<1> DEFINE t == Table(c)
<1> HIDE DEF fd
<1>5. /\ k \in ConnectionType /\ k.phase = "PARSING" /\ k.client_fd = fd /\ k.host = host
      /\ ~k.attempted /\ k.doh = "none"
  BY <1>3, NoConnectionIs, ProxyAssumption DEF ConnectionType, Phases
<1>6. /\ t \in SelectorType /\ SelectorSound(t)
      /\ t.items[fd].used /\ t.items[fd].handler = "client" /\ t.items[fd].data = c
      /\ \A x \in Fd \ {fd} : t.items[x] = w.selector.items[x]
  <2> DEFINE i == {"READ"}
  <2> DEFINE h == "client"
  <2>1. h \in {"accept", "client", "origin"} /\ i \in SUBSET Operations
        /\ c \in Clients \union {"none"}
    BY DEF Operations
  <2> DEFINE s == w.selector
  <2> DEFINE u == selector_register(s, fd, h, i, c)
  <2> HIDE DEF i, h
  <2>2. /\ u \in SelectorType /\ SelectorSound(u)
        /\ u.items[fd].used /\ u.items[fd].handler = h
        /\ u.items[fd].interest = i /\ u.items[fd].data = c
        /\ \A x \in Fd \ {fd} : u.items[x] = s.items[x]
    <3>1. s \in SelectorType /\ SelectorSound(s) /\ Registrable(s, fd)
      BY <1>2, <1>4
    <3> HIDE DEF s
    <3>2. Adds(s, u, fd, h, i, c)
      BY <2>1, <3>1, RegisterSelector
    <3>. QED BY <3>2 DEF Adds
  <2>. QED BY <2>2 DEF i, h
<1>7. v = [selector |-> t, conn |-> [w.conn EXCEPT ![c] = k],
           sock |-> [w.sock EXCEPT ![fd] = "up"]]
  BY <1>1, <1>2 DEF WorldType
<1> HIDE DEF k, t
<1>8. /\ v \in WorldType /\ v.selector = t
      /\ v.conn[c] = k /\ \A d \in Clients \ {c} : v.conn[d] = w.conn[d]
      /\ v.sock[fd] = "up" /\ \A x \in Fd \ {fd} : v.sock[x] = w.sock[x]
  <2>1. [w.conn EXCEPT ![c] = k] \in [Clients -> ConnectionType]
    BY <1>2, <1>5
  <2>2. [w.sock EXCEPT ![fd] = "up"] \in [Fd -> {"free", "listening"} \union Links]
    BY <1>2 DEF Links
  <2>. QED BY <1>2, <1>3, <1>6, <1>7, <2>1, <2>2 DEF WorldType
<1>9. /\ fd < ItemsMax /\ ~Item(w, fd).used /\ Item(v, fd).used
      /\ Item(v, fd).handler = "client" /\ Item(v, fd).data = c
      /\ \A x \in Fd \ {fd} : Item(v, x) = Item(w, x)
  BY <1>4, <1>6, <1>8 DEF Registrable, Item
<1>10. \A x \in Fd : ItemSound(v, x)
  <2>1. ItemSound(v, fd)
    BY <1>5, <1>8, <1>9 DEF ItemSound, Links
  <2>2. ASSUME NEW x \in Fd \ {fd}
        PROVE  ItemSound(v, x)
    <3>1. ItemSound(w, x) /\ Item(v, x) = Item(w, x) /\ v.sock[x] = w.sock[x]
      BY <1>2, <1>8, <1>9
    <3>2. CASE Item(w, x).data # c
      BY <1>8, <3>1, <3>2 DEF ItemSound
    <3>3. CASE Item(w, x).data = c
      BY <1>4, <3>1, <3>3 DEF ItemSound
    <3>. QED BY <3>2, <3>3
  <2>. QED BY <2>1, <2>2
<1>11. Keeps(w, v, c)
  BY <1>3, <1>8, <1>9 DEF Keeps, Mine, SameOwner
<1>12. ASSUME NEW d \in Clients \ {c}
       PROVE  ConnectionSound(v, d)
  <2>1. ConnectionSound(w, d) /\ v.conn[d] = w.conn[d] /\ w.conn[d] \in ConnectionType
    BY <1>2, <1>8
  <2>2. OwnsOrigin(w, d) <=> OwnsOrigin(v, d)
    BY <1>2, <1>9, <2>1 DEF OwnsOrigin, ItemSound
  <2>3. StaleSound(v, d)
    <3>1. \A x \in Fd : ~(x < ItemsMax) => v.sock[x] = w.sock[x]
      BY <1>8, <1>9
    <3>. QED BY <2>1, <2>2, <3>1 DEF StaleSound, Stale, ConnectionSound
  <2>4. w.conn[d].phase # "FREE" => HasClient(v, d)
    <3> SUFFICES ASSUME w.conn[d].phase # "FREE" PROVE HasClient(v, d)
      OBVIOUS
    <3>1. w.conn[d].client_fd \in Fd /\ w.conn[d].client_fd # fd
      BY <1>2, <1>9, <2>1 DEF ConnectionType, ConnectionSound, HasClient, ItemSound
    <3>. QED BY <1>8, <1>9, <2>1, <3>1 DEF HasClient, ConnectionSound
  <2>. QED BY <2>1, <2>2, <2>3, <2>4 DEF ConnectionSound
<1>13. ConnectionSound(v, c)
  <2>1. HasClient(v, c)
    BY <1>5, <1>8, <1>9 DEF HasClient
  <2>2. StaleSound(v, c)
    BY <1>5, <1>8 DEF StaleSound, Stale
  <2>. QED BY <1>5, <1>8, <2>1, <2>2 DEF ConnectionSound, WithOrigin, MayBe
<1>14. SelectorSound(v.selector)
  BY <1>6, <1>8
<1>15. Sound(v)
  BY <1>8, <1>10, <1>12, <1>13, <1>14 DEF Sound
<1>. QED BY <1>4, <1>5, <1>8, <1>11, <1>15 DEF Accepts, Settles

-----------------------------------------------------------------------------
(* The callbacks *)

\* What a callback of c may do to its lifecycle, as Lifecycle has it
Connects(w, v, c) ==
  /\ w.conn[c].phase = "TRY" /\ w.sock[w.conn[c].origin_fd] # "failed"
  /\ OriginIn(w, c) = "registered"
  /\ IF w.conn[c].host = "domain" /\ w.conn[c].doh \in {"none", "between"}
       THEN Moves(w, v, c, "SEND_DOH")
       ELSE Moves(w, v, c, "SEND_LINE") \/ Moves(w, v, c, "RELAY")

Refused(w, v, c) ==
  /\ w.conn[c].phase = "TRY"
  /\ IF w.conn[c].host = "domain" /\ w.conn[c].doh # "none" THEN TriesNext(w, v, c)
     ELSE Moves(w, v, c, "ERROR")

Asks(w, v, c) ==
  /\ w.conn[c].phase = "SEND_DOH" /\ Settles(w, v, c)
  /\ v.conn[c].phase = "AWAIT" /\ OriginIn(v, c) = OriginIn(w, c)
  /\ v.conn[c].host = w.conn[c].host /\ v.conn[c].attempted = w.conn[c].attempted
  /\ \/ w.conn[c].doh = "none" /\ v.conn[c].doh \in {"none", "A"}
     \/ w.conn[c].doh = "between" /\ v.conn[c].doh = "AAAA"

Rests(w, v, c) ==
  Settles(w, v, c) /\ v.conn[c] = w.conn[c] /\ OriginIn(v, c) = OriginIn(w, c)

Lives(w, v, c) ==
  \/ Rests(w, v, c)
  \/ w.conn[c].phase = "PARSING" /\ (Moves(w, v, c, "ERROR") \/ Opens(w, v, c, "none"))
  \/ Connects(w, v, c) \/ Refused(w, v, c) \/ Asks(w, v, c)
  \/ w.conn[c].phase = "AWAIT" /\ (Moves(w, v, c, "ERROR") \/ TriesNext(w, v, c))
  \/ w.conn[c].phase = "SEND_LINE" /\ Moves(w, v, c, "RELAY")
  \/ Releases(w, v, c)

\* Whatever it does, it leaves a sound world and the others alone
LEMMA LivesSettles ==
  ASSUME NEW c, NEW w, NEW v, Lives(w, v, c)
  PROVE  Settles(w, v, c)
BY DEF Lives, Rests, Connects, Refused, Asks, Moves, Releases, TriesNext, Opens, Registers

\* A callback that changes nothing, and one of a relay
LEMMA ItselfRests ==
  ASSUME NEW c \in Clients, NEW w, Sound(w)
  PROVE  Rests(w, w, c)
BY KeepsItself DEF Rests, Settles

\* Relaying changes interests only
LEMMA RelayRests ==
  ASSUME NEW c \in Clients, NEW w, Sound(w), w.conn[c].phase = "RELAY", NEW v \in Relay(w, c)
  PROVE  Rests(w, v, c)
<1>1. Underway(w, c) /\ OwnsOrigin(w, c) /\ w.conn[c] \in ConnectionType
  BY Entered DEF Sound, ConnectionSound, WithOrigin, WorldType
<1>2. Moves(w, v, c, "RELAY")
  BY <1>1, RelayMoves
<1>3. InPhase(w.conn[c], "RELAY") = w.conn[c]
  BY <1>1 DEF InPhase, ConnectionType
<1>. QED BY <1>2, <1>3 DEF Moves, Rests

\* What a callback finds
LEMMA Found ==
  ASSUME NEW c \in Clients, NEW w, Sound(w), w.conn[c].phase # "FREE"
  PROVE  /\ Underway(w, c) /\ w.conn[c] \in ConnectionType
         /\ w.conn[c].phase # "ERROR" => StaleOK(w, c)
         /\ w.conn[c].phase \in WithOrigin =>
              OwnsOrigin(w, c) /\ OriginIn(w, c) = "registered"
         /\ w.conn[c].phase = "PARSING" => ~OwnsOrigin(w, c) /\ w.conn[c].doh = "none"
         /\ w.conn[c].phase \in {"SEND_DOH", "AWAIT"} => w.conn[c].host = "domain"
         /\ w.conn[c].phase = "SEND_DOH" => w.conn[c].doh \in {"none", "between"}
<1>1. Underway(w, c) /\ (w.conn[c].phase # "ERROR" => StaleOK(w, c))
  BY Entered
<1>2. w.conn[c] \in ConnectionType /\ ConnectionSound(w, c) /\ \A fd \in Fd : ItemSound(w, fd)
  BY DEF Sound, WorldType
<1>3. OwnsOrigin(w, c) => w.conn[c].attempted /\ w.conn[c].origin_fd # NoFd
  BY <1>2, FdFacts DEF OwnsOrigin, ItemSound
<1>. QED BY <1>1, <1>2, <1>3 DEF ConnectionSound, MayBe, OriginIn

\* handle_read of the client's side
LEMMA ClientReadLives ==
  ASSUME NEW c \in Clients, NEW w, Sound(w), StaleOK(w, c), w.conn[c].phase # "FREE",
         NEW v \in ClientRead(w, c)
  PROVE  Lives(w, v, c) /\ (w.conn[c].phase = "TRY" => Releases(w, v, c))
<1>1. \/ v = Release(w, c)
      \/ w.conn[c].phase = "PARSING" /\ v \in {w, Fail(w, c)} \union OpenOrigin(w, c)
      \/ w.conn[c].phase = "RELAY" /\ v \in Relay(w, c)
  BY DEF ClientRead
<1>2. CASE v = Release(w, c)
  BY <1>2, ReleaseReleases DEF Lives
<1>3. CASE w.conn[c].phase = "PARSING" /\ v = w
  BY <1>3, ItselfRests DEF Lives
<1>4. CASE w.conn[c].phase = "PARSING" /\ v = Fail(w, c)
  BY <1>4, Found, FailMoves DEF Lives
<1>5. CASE w.conn[c].phase = "PARSING" /\ v \in OpenOrigin(w, c)
  <2>1. Opens(w, v, c, w.conn[c].doh) /\ w.conn[c].doh = "none"
    BY <1>5, Found, OpenOriginOpens
  <2>. QED BY <1>5, <2>1 DEF Lives
<1>6. CASE w.conn[c].phase = "RELAY" /\ v \in Relay(w, c)
  BY <1>6, RelayRests DEF Lives
<1>. QED BY <1>1, <1>2, <1>3, <1>4, <1>5, <1>6

\* handle_write of the client's side
LEMMA ClientWriteLives ==
  ASSUME NEW c \in Clients, NEW w, Sound(w), StaleOK(w, c), w.conn[c].phase # "FREE",
         NEW v \in ClientWrite(w, c)
  PROVE  Lives(w, v, c) /\ (w.conn[c].phase = "TRY" => Releases(w, v, c))
<1>1. \/ v = Release(w, c)
      \/ w.conn[c].phase = "RELAY" /\ v \in Relay(w, c)
      \/ w.conn[c].phase = "ERROR" /\ v = w
  BY DEF ClientWrite
<1>2. CASE v = Release(w, c)
  BY <1>2, ReleaseReleases DEF Lives
<1>3. CASE w.conn[c].phase = "RELAY" /\ v \in Relay(w, c)
  BY <1>3, RelayRests DEF Lives
<1>4. CASE w.conn[c].phase = "ERROR" /\ v = w
  BY <1>4, ItselfRests DEF Lives
<1>. QED BY <1>1, <1>2, <1>3, <1>4

\* handle_read of the origin's side
LEMMA OriginReadLives ==
  ASSUME NEW c \in Clients, NEW w, Sound(w), StaleOK(w, c), w.conn[c].phase # "FREE",
         NEW v \in OriginRead(w, c)
  PROVE  Lives(w, v, c) /\ (w.conn[c].phase = "TRY" => Releases(w, v, c))
<1>1. \/ v = Release(w, c)
      \/ w.conn[c].phase = "AWAIT" /\ v \in {w, Fail(w, c)}
      \/ w.conn[c].phase = "AWAIT" /\ w.conn[c].doh # "none" /\ v \in TryNext(w, c)
      \/ w.conn[c].phase = "RELAY" /\ v \in Relay(w, c)
  BY DEF OriginRead
<1>2. CASE v = Release(w, c)
  BY <1>2, ReleaseReleases DEF Lives
<1>3. CASE w.conn[c].phase = "AWAIT" /\ v = w
  BY <1>3, ItselfRests DEF Lives
<1>4. CASE w.conn[c].phase = "AWAIT" /\ v = Fail(w, c)
  BY <1>4, Found, FailMoves DEF Lives
<1>5. CASE w.conn[c].phase = "AWAIT" /\ w.conn[c].doh # "none" /\ v \in TryNext(w, c)
  <2>1. w.conn[c].phase \in WithOrigin
    BY <1>5 DEF WithOrigin
  <2>2. TriesNext(w, v, c)
    BY <1>5, <2>1, Found, TryNextTries
  <2>. QED BY <1>5, <2>2 DEF Lives
<1>6. CASE w.conn[c].phase = "RELAY" /\ v \in Relay(w, c)
  BY <1>6, RelayRests DEF Lives
<1>. QED BY <1>1, <1>2, <1>3, <1>4, <1>5, <1>6

\* try_connection_ip_on_write_ready
LEMMA TryConnectionLives ==
  ASSUME NEW c \in Clients, NEW w, Sound(w), w.conn[c].phase = "TRY",
         NEW v \in TryConnectionIpWrite(w, c)
  PROVE  Connects(w, v, c) \/ Refused(w, v, c)
<1> DEFINE resolving == w.conn[c].host = "domain" /\ w.conn[c].doh \in {"none", "between"}
<1> DEFINE answered == w.conn[c].origin_fd \in Fd /\ w.sock[w.conn[c].origin_fd] # "failed"
<1>1. /\ Underway(w, c) /\ StaleOK(w, c) /\ OwnsOrigin(w, c)
      /\ OriginIn(w, c) = "registered"
  <2>1. "TRY" \in WithOrigin
    BY DEF WithOrigin
  <2>. QED BY <2>1, Found
<1>2. \/ answered /\ resolving /\ v = Go(w, c, "SEND_DOH", {}, {"WRITE"})
      \/ answered /\ ~resolving /\ v = Go(w, c, "SEND_LINE", {}, {"WRITE"})
      \/ answered /\ ~resolving /\ v \in Relay(w, c)
      \/ ~answered /\ w.conn[c].host = "domain" /\ w.conn[c].doh # "none" /\ v \in TryNext(w, c)
      \/ ~answered /\ ~(w.conn[c].host = "domain" /\ w.conn[c].doh # "none") /\ v = Fail(w, c)
  BY DEF TryConnectionIpWrite
<1>3. {} \in SUBSET Operations /\ {"WRITE"} \in SUBSET Operations
      /\ "SEND_DOH" \in WithOrigin /\ "SEND_LINE" \in WithOrigin
      /\ MayBe(w.conn[c], "SEND_LINE") /\ (resolving => MayBe(w.conn[c], "SEND_DOH"))
  BY DEF Operations, WithOrigin, MayBe
<1>4. CASE answered /\ resolving /\ v = Go(w, c, "SEND_DOH", {}, {"WRITE"})
  <2>1. Moves(w, v, c, "SEND_DOH")
    BY <1>1, <1>3, <1>4, GoMoves
  <2>. QED BY <1>1, <1>4, <2>1 DEF Connects
<1>5. CASE answered /\ ~resolving /\ v = Go(w, c, "SEND_LINE", {}, {"WRITE"})
  <2>1. Moves(w, v, c, "SEND_LINE")
    BY <1>1, <1>3, <1>5, GoMoves
  <2>. QED BY <1>1, <1>5, <2>1 DEF Connects
<1>6. CASE answered /\ ~resolving /\ v \in Relay(w, c)
  <2>1. Moves(w, v, c, "RELAY")
    BY <1>1, <1>6, RelayMoves
  <2>. QED BY <1>1, <1>6, <2>1 DEF Connects
<1>7. CASE ~answered /\ w.conn[c].host = "domain" /\ w.conn[c].doh # "none" /\ v \in TryNext(w, c)
  BY <1>1, <1>7, TryNextTries DEF Refused
<1>8. CASE ~answered /\ ~(w.conn[c].host = "domain" /\ w.conn[c].doh # "none") /\ v = Fail(w, c)
  BY <1>1, <1>8, FailMoves DEF Refused
<1>. QED BY <1>2, <1>4, <1>5, <1>6, <1>7, <1>8

\* await_doh_response_on_arrival
LEMMA AwaitAsks ==
  ASSUME NEW c \in Clients, NEW w, Sound(w), w.conn[c].phase = "SEND_DOH", NEW v \in Await(w, c)
  PROVE  Asks(w, v, c)
<1>1. /\ Underway(w, c) /\ OwnsOrigin(w, c) /\ w.conn[c] \in ConnectionType
      /\ w.conn[c].host = "domain" /\ w.conn[c].doh \in {"none", "between"}
  <2>1. "SEND_DOH" \in WithOrigin
    BY DEF WithOrigin
  <2>. QED BY <2>1, Found
<1>2. PICK doh \in {"none", "A", "AAAA"} :
        /\ v = Go([w EXCEPT !.conn[c].doh = doh], c, "AWAIT", {}, {"READ"})
        /\ \/ w.conn[c].doh = "none" /\ doh \in {"none", "A"}
           \/ w.conn[c].doh = "between" /\ doh = "AAAA"
  BY <1>1 DEF Await
<1> DEFINE k == [w.conn[c] EXCEPT !.doh = doh]
<1> DEFINE u == WithStruct(w, c, k)
<1>3. /\ k \in ConnectionType /\ k.client_fd = w.conn[c].client_fd /\ k.host = w.conn[c].host
      /\ k.phase = w.conn[c].phase /\ k.attempted = w.conn[c].attempted
      /\ k.origin_fd = w.conn[c].origin_fd /\ k.doh = doh /\ k.host = "domain"
  BY <1>1 DEF ConnectionType
<1>4. w \in WorldType
  BY DEF Sound
<1>5. u = [w EXCEPT !.conn[c].doh = doh]
  BY <1>4 DEF WithStruct, WorldType
<1> HIDE DEF k
<1>6. /\ Underway(u, c) /\ Keeps(w, u, c) /\ u.conn[c] = k
      /\ OwnsOrigin(u, c) /\ OriginIn(u, c) = OriginIn(w, c)
  BY <1>1, <1>3, StructSet
<1> HIDE DEF u
<1>7. Moves(u, v, c, "AWAIT")
  <2>1. /\ {} \in SUBSET Operations /\ {"READ"} \in SUBSET Operations
        /\ "AWAIT" \in WithOrigin /\ MayBe(u.conn[c], "AWAIT")
    BY <1>3, <1>6 DEF Operations, WithOrigin, MayBe
  <2>2. v = Go(u, c, "AWAIT", {}, {"READ"})
    BY <1>2, <1>5
  <2>. QED BY <1>6, <2>1, <2>2, GoMoves
<1>8. Settles(w, v, c)
  BY <1>6, <1>7, KeepsBoth DEF Moves, Settles
<1>9. /\ v.conn[c].phase = "AWAIT" /\ v.conn[c].doh = doh
      /\ v.conn[c].host = w.conn[c].host /\ v.conn[c].attempted = w.conn[c].attempted
  <2>1. v.conn[c] = InPhase(k, "AWAIT") /\ "AWAIT" \in Phases
    BY <1>6, <1>7 DEF Moves, Phases
  <2>2. k \in ConnectionType
    BY <1>3
  <2>3. /\ InPhase(k, "AWAIT").phase = "AWAIT" /\ InPhase(k, "AWAIT").host = k.host
        /\ InPhase(k, "AWAIT").doh = k.doh /\ InPhase(k, "AWAIT").attempted = k.attempted
    BY <2>1, <2>2, InPhaseIs
  <2>. QED BY <1>3, <2>1, <2>3
<1>10. OriginIn(v, c) = OriginIn(w, c)
  BY <1>6, <1>7 DEF Moves
<1>. QED BY <1>2, <1>8, <1>9, <1>10 DEF Asks

\* handle_write of the origin's side
LEMMA OriginWriteLives ==
  ASSUME NEW c \in Clients, NEW w, Sound(w), StaleOK(w, c), w.conn[c].phase # "FREE",
         NEW v \in OriginWrite(w, c)
  PROVE  Lives(w, v, c)
<1>1. \/ w.conn[c].phase = "TRY" /\ v \in TryConnectionIpWrite(w, c)
      \/ v = Release(w, c)
      \/ w.conn[c].phase \in {"SEND_DOH", "SEND_LINE"} /\ v = w
      \/ w.conn[c].phase = "SEND_DOH" /\ v \in Await(w, c)
      \/ w.conn[c].phase = "SEND_LINE" /\ v \in Relay(w, c)
      \/ w.conn[c].phase = "RELAY" /\ v \in Relay(w, c)
  BY DEF OriginWrite
<1>2. CASE w.conn[c].phase = "TRY" /\ v \in TryConnectionIpWrite(w, c)
  BY <1>2, TryConnectionLives DEF Lives
<1>3. CASE v = Release(w, c)
  BY <1>3, ReleaseReleases DEF Lives
<1>4. CASE w.conn[c].phase \in {"SEND_DOH", "SEND_LINE"} /\ v = w
  BY <1>4, ItselfRests DEF Lives
<1>5. CASE w.conn[c].phase = "SEND_DOH" /\ v \in Await(w, c)
  BY <1>5, AwaitAsks DEF Lives
<1>6. CASE w.conn[c].phase = "SEND_LINE" /\ v \in Relay(w, c)
  <2>1. w.conn[c].phase \in WithOrigin
    BY <1>6 DEF WithOrigin
  <2>2. Underway(w, c) /\ OwnsOrigin(w, c)
    BY <2>1, Found
  <2>3. Moves(w, v, c, "RELAY")
    BY <1>6, <2>2, RelayMoves
  <2>. QED BY <1>6, <2>3 DEF Lives
<1>7. CASE w.conn[c].phase = "RELAY" /\ v \in Relay(w, c)
  BY <1>7, RelayRests DEF Lives
<1>. QED BY <1>1, <1>2, <1>3, <1>4, <1>5, <1>6, <1>7

\* The callback of an item that is to be read
LEMMA HandleReadLives ==
  ASSUME NEW w, Sound(w), \A c \in Clients : StaleOK(w, c),
         NEW fd \in Fd, "READ" \in Item(w, fd).interest,
         NEW v \in HandleRead(w, Item(w, fd).handler, Item(w, fd).data)
  PROVE  \/ v = w
         \/ \E c \in Clients : Accepts(w, v, c)
         \/ \E c \in Clients : /\ w.conn[c].phase # "FREE" /\ Lives(w, v, c)
                               /\ w.conn[c].phase = "TRY" => Releases(w, v, c)
<1> DEFINE h == Item(w, fd).handler
<1> DEFINE c == Item(w, fd).data
<1>1. ItemSound(w, fd) /\ SelectorSound(w.selector) /\ w.selector \in SelectorType
  BY DEF Sound, WorldType
<1>2. Item(w, fd).used /\ h # "none" /\ h \in {"none", "accept", "client", "origin"}
  BY <1>1 DEF SelectorSound, ItemSound, Item, SelectorType, ItemType
<1>3. h \in {"client", "origin"} => c \in Clients /\ w.conn[c].phase # "FREE"
  BY <1>1 DEF ItemSound
<1>4. v \in HandleRead(w, h, c)
  OBVIOUS
<1> HIDE DEF h, c
<1>5. CASE h = "accept"
  <2>1. v \in AcceptNewConnection(w)
    BY <1>4, <1>5 DEF HandleRead
  <2>. QED BY <2>1, AcceptAccepts
<1>6. CASE h = "client"
  <2>1. v \in ClientRead(w, c)
    BY <1>4, <1>6 DEF HandleRead
  <2>. QED BY <1>3, <1>6, <2>1, ClientReadLives
<1>7. CASE h = "origin"
  <2>1. v \in OriginRead(w, c)
    BY <1>4, <1>7 DEF HandleRead
  <2>. QED BY <1>3, <1>7, <2>1, OriginReadLives
<1>. QED BY <1>2, <1>5, <1>6, <1>7

\* The callback of an item that is to be written
LEMMA HandleWriteLives ==
  ASSUME NEW w, Sound(w), \A c \in Clients : StaleOK(w, c),
         NEW fd \in Fd, "WRITE" \in Item(w, fd).interest,
         NEW v \in HandleWrite(w, Item(w, fd).handler, Item(w, fd).data)
  PROVE  \E c \in Clients :
           /\ w.conn[c].phase # "FREE" /\ Lives(w, v, c)
           /\ w.conn[c].phase = "TRY" => Releases(w, v, c) \/ w.conn[c].origin_fd = fd
<1> DEFINE h == Item(w, fd).handler
<1> DEFINE c == Item(w, fd).data
<1>1. ItemSound(w, fd) /\ SelectorSound(w.selector) /\ w.selector \in SelectorType
  BY DEF Sound, WorldType
<1>2. h \in {"client", "origin"}
  BY <1>1 DEF SelectorSound, ItemSound, Item, SelectorType, ItemType
<1>3. c \in Clients /\ w.conn[c].phase # "FREE" /\ (h = "origin" => w.conn[c].origin_fd = fd)
  BY <1>1, <1>2 DEF ItemSound
<1>4. v \in HandleWrite(w, h, c)
  OBVIOUS
<1> HIDE DEF h, c
<1>5. CASE h = "client"
  <2>1. v \in ClientWrite(w, c)
    BY <1>4, <1>5 DEF HandleWrite
  <2>. QED BY <1>3, <2>1, ClientWriteLives
<1>6. CASE h = "origin"
  <2>1. v \in OriginWrite(w, c)
    BY <1>4, <1>6 DEF HandleWrite
  <2>. QED BY <1>3, <1>6, <2>1, OriginWriteLives
<1>. QED BY <1>2, <1>5, <1>6

-----------------------------------------------------------------------------
(* The start and the end of main() *)

\* A selector without items
LEMMA EmptySelectorSound ==
  /\ EmptySelector \in SelectorType /\ SelectorSound(EmptySelector)
  /\ \A fd \in Fd : /\ ~EmptySelector.items[fd].used /\ EmptySelector.items[fd].handler = "none"
                    /\ EmptySelector.items[fd].interest = {}
<1>1. Unused \in ItemType /\ ~Unused.used /\ Unused.interest = {} /\ Unused.handler = "none"
  BY DEF Unused, ItemType
<1>2. \A fd \in Fd : EmptySelector.items[fd] = Unused
  BY DEF EmptySelector
<1>3. EmptySelector \in SelectorType
  BY <1>1, FdFacts DEF EmptySelector, SelectorType
<1>4. EmptySelector.read = {} /\ EmptySelector.write = {}
  BY DEF EmptySelector
<1>5. SelectorSound(EmptySelector)
  BY <1>1, <1>2, <1>4 DEF SelectorSound, MastersMatchItems
<1>. QED BY <1>1, <1>2, <1>3, <1>5

\* A world is of its type when its parts are
LEMMA WorldMade ==
  ASSUME NEW s \in SelectorType, NEW k \in [Clients -> ConnectionType],
         NEW l \in [Fd -> {"free", "listening"} \union Links],
         NEW w, w = [selector |-> s, conn |-> k, sock |-> l]
  PROVE  w \in WorldType
BY DEF WorldType

\* The world that main() leaves: of the sockets in the table, proxy_fd_4 alone is open
EndedWorld(w) ==
  /\ w \in WorldType /\ w.selector = EmptySelector
  /\ \A c \in Clients :
       /\ w.conn[c].phase = "FREE" /\ w.conn[c].host = "ip"
       /\ ~w.conn[c].attempted /\ w.conn[c].doh = "none"
  /\ \A fd \in Fd : fd < ItemsMax /\ w.sock[fd] # "free" => fd = proxy_fd_4

\* selector_destroy, and what main() closes after it
LEMMA DestroyEnds ==
  ASSUME NEW w, Sound(w), NEW v, v = CloseListeners(SelectorDestroy(w))
  PROVE  /\ EndedWorld(v)
         /\ \A c \in Clients : v.conn[c] = IF w.conn[c].phase = "FREE" THEN w.conn[c]
                                           ELSE NoConnection
<1> DEFINE Closed(kind) ==
      {fd \in Fd : Known(w.selector, fd) /\ w.selector.items[fd].handler = kind}
<1> DEFINE freed == {w.selector.items[fd].data : fd \in Closed("client")}
<1> DEFINE closed == Closed("client") \union Closed("origin")
<1> DEFINE conn1 == [c \in Clients |-> IF c \in freed THEN NoConnection ELSE w.conn[c]]
<1> DEFINE sock1 == [fd \in Fd |-> IF fd \in closed THEN "free" ELSE w.sock[fd]]
<1>1. /\ w \in WorldType /\ w.selector \in SelectorType
      /\ w.conn \in [Clients -> ConnectionType]
      /\ w.sock \in [Fd -> {"free", "listening"} \union Links]
      /\ \A x \in Fd : ItemSound(w, x)
      /\ \A c \in Clients : ConnectionSound(w, c)
  BY DEF Sound, WorldType
<1> DEFINE sock2 == [fd \in Fd |-> IF fd = proxy_fd_6 THEN "free" ELSE sock1[fd]]
<1>2. v = [selector |-> EmptySelector, conn |-> conn1, sock |-> sock2]
  BY DEF SelectorDestroy, CloseListeners
<1>3. ASSUME NEW c \in Clients
      PROVE  c \in freed <=> w.conn[c].phase # "FREE"
  <2>1. ASSUME c \in freed
        PROVE  w.conn[c].phase # "FREE"
    <3>1. PICK fd \in Fd : Item(w, fd).handler = "client" /\ Item(w, fd).data = c
      BY <2>1 DEF Item
    <3>. QED BY <1>1, <3>1 DEF ItemSound
  <2>2. ASSUME w.conn[c].phase # "FREE"
        PROVE  c \in freed
    <3> DEFINE fd == w.conn[c].client_fd
    <3>1. /\ fd \in Fd /\ Item(w, fd).handler = "client" /\ Item(w, fd).data = c
      BY <1>1, <2>2 DEF ConnectionType, ConnectionSound, HasClient
    <3>2. Item(w, fd).used /\ fd < ItemsMax
      BY <1>1, <3>1 DEF ItemSound
    <3>3. fd \in Closed("client") /\ w.selector.items[fd].data = c
      BY <3>1, <3>2 DEF Known, Item
    <3> HIDE DEF Closed, fd
    <3>. QED BY <3>3
  <2>. QED BY <2>1, <2>2
<1>4. \A x \in Fd : x < ItemsMax /\ x \notin Listeners /\ w.sock[x] # "free" => x \in closed
  <2> SUFFICES ASSUME NEW x \in Fd, x < ItemsMax, x \notin Listeners, w.sock[x] # "free"
               PROVE  x \in closed
    OBVIOUS
  <2>1. Item(w, x).used /\ Item(w, x).handler \in {"client", "origin"}
    BY <1>1 DEF ItemSound, Item, SelectorType, ItemType
  <2>. QED BY <2>1 DEF Known, Item
<1> HIDE DEF freed, closed
<1>5. /\ v \in WorldType /\ v.selector = EmptySelector
      /\ \A c \in Clients : v.conn[c] = IF c \in freed THEN NoConnection ELSE w.conn[c]
      /\ \A x \in Fd : v.sock[x] = IF x = proxy_fd_6 \/ x \in closed THEN "free" ELSE w.sock[x]
  <2>1. conn1 \in [Clients -> ConnectionType]
    BY <1>1, NoConnectionIs
  <2>2. sock2 \in [Fd -> {"free", "listening"} \union Links]
    BY <1>1
  <2>3. /\ \A c \in Clients : conn1[c] = IF c \in freed THEN NoConnection ELSE w.conn[c]
        /\ \A x \in Fd : sock2[x] = IF x = proxy_fd_6 \/ x \in closed THEN "free" ELSE w.sock[x]
    OBVIOUS
  <2> HIDE DEF conn1, sock2
  <2>4. v \in WorldType
    <3>1. EmptySelector \in SelectorType
      BY EmptySelectorSound
    <3>. QED BY <1>2, <2>1, <2>2, <3>1, WorldMade
  <2>5. v.selector = EmptySelector /\ v.conn = conn1 /\ v.sock = sock2
    BY <1>2
  <2>. QED BY <2>3, <2>4, <2>5
<1>6. \A x \in Fd : x < ItemsMax /\ v.sock[x] # "free" => x = proxy_fd_4
  BY <1>4, <1>5 DEF Listeners
<1>7. \A c \in Clients : v.conn[c] = IF w.conn[c].phase = "FREE" THEN w.conn[c] ELSE NoConnection
  BY <1>3, <1>5
<1>8. ASSUME NEW c \in Clients
      PROVE  /\ v.conn[c].phase = "FREE" /\ v.conn[c].host = "ip"
             /\ ~v.conn[c].attempted /\ v.conn[c].doh = "none"
  BY <1>1, <1>7, NoConnectionIs DEF ConnectionSound
<1>. QED BY <1>5, <1>6, <1>7, <1>8 DEF EndedWorld

-----------------------------------------------------------------------------
(* The inductive invariant of the specification *)

VisitType ==
  [read : SUBSET Fd, write : SUBSET Fd, fd : Fd \union {NoFd},
   key : Clients \union {"none"}, opened : SUBSET Fd]

\* A key is read before the callback that may change its item, and what has been
\* opened since pselect() answered is the only socket that may still be pending
VisitSound ==
  /\ visit \in VisitType
  /\ visit.fd \notin visit.read
  /\ visit.fd \in visit.write /\ "WRITE" \in selector.items[visit.fd].interest =>
       selector.items[visit.fd].data = visit.key
  /\ \A fd \in visit.read \union visit.write : sock[fd] = "pending" => fd \in visit.opened

\* The listening sockets are registered as long as main() is in its loop
Listening == \A fd \in Listeners : selector.items[fd].handler = "accept"

Serving == Sound(World) /\ VisitSound /\ Listening

Ended == EndedWorld(World) /\ Idle

IInv == Serving \/ Ended

\* The iteration visits a descriptor that was found ready
LEMMA CurrentIs ==
  ASSUME VisitSound, ~Idle
  PROVE  Current \in Fd /\ Current \in visit.read \union visit.write
<1>1. visit.read \union visit.write \in SUBSET Fd /\ visit.read \union visit.write # {}
  BY DEF VisitSound, VisitType, Idle
<1> DEFINE left == visit.read \union visit.write
<1> HIDE DEF left
<1>2. \E fd \in left : \A other \in left : fd <= other
  BY <1>1, Extremes DEF left
<1>3. Current = CHOOSE fd \in left : \A other \in left : fd <= other
  BY DEF Current, left
<1>4. Current \in left
  BY <1>2, <1>3
<1>. QED BY <1>1, <1>4 DEF left

\* What a world becomes
LEMMA WorldBecomes ==
  ASSUME NEW v, Becomes(v), Sound(v)
  PROVE  World' = v /\ Sound(World)'
<1>1. v \in WorldType
  BY DEF Sound
<1>2. World' = v
  BY <1>1 DEF World, Becomes, WorldType
<1>. QED BY <1>2

\* The world is what the variables say, before and after a step
LEMMA WorldIs ==
  /\ World.selector = selector /\ World.conn = conn /\ World.sock = sock
  /\ World'.selector = selector' /\ World'.conn = conn' /\ World'.sock = sock'
  /\ \A fd : Item(World, fd) = selector.items[fd] /\ Item(World', fd) = selector'.items[fd]
BY DEF World, Item

\* A callback changes the owner of a descriptor only if it was, or becomes, its own
LEMMA KeptData ==
  ASSUME NEW c, NEW w, NEW v, Keeps(w, v, c), NEW fd \in Fd,
         Item(w, fd).used, Item(v, fd).used
  PROVE  Item(v, fd).data = Item(w, fd).data
BY DEF Keeps, Mine, SameOwner

\* The sockets of what is left to visit
LEMMA OpenedKept ==
  ASSUME VisitSound, NEW read \in SUBSET visit.read, NEW write \in SUBSET visit.write
  PROVE  /\ Opened(read \union write) \in SUBSET Fd
         /\ \A fd \in read \union write :
              sock'[fd] = "pending" => fd \in Opened(read \union write)
BY DEF VisitSound, VisitType, Opened

\* A step of at most one connection
OneLives ==
  \/ World' = World
  \/ \E c \in Clients : Accepts(World, World', c)
  \/ \E c \in Clients :
       /\ conn[c].phase # "FREE" /\ Lives(World, World', c)
       /\ conn[c].phase = "TRY" =>
            \/ Releases(World, World', c)
            \/ conn[c].origin_fd \in visit.read \union visit.write

\* Such a step leaves every other connection alone
LEMMA OneKeeps ==
  ASSUME OneLives, World' # World
  PROVE  \E c \in Clients : Settles(World, World', c)
BY LivesSettles DEF OneLives, Accepts

\* and the listening sockets registered
LEMMA ListeningKept ==
  ASSUME Sound(World), Listening, OneLives
  PROVE  Listening'
<1> SUFFICES ASSUME NEW fd \in Listeners PROVE selector'.items[fd].handler = "accept"
  BY DEF Listening
<1>1. fd \in Fd /\ selector.items[fd].handler = "accept"
  BY ListenersAre DEF Listening
<1>2. CASE World' = World
  BY <1>1, <1>2, WorldIs
<1>3. CASE World' # World
  <2>1. PICK c \in Clients : Settles(World, World', c)
    BY <1>3, OneKeeps
  <2>2. ItemSound(World, fd) /\ Keeps(World, World', c)
    BY <1>1, <2>1 DEF Sound, Settles
  <2>3. ~Mine(World, fd, c)
    BY <1>1, <2>2, ListenersAre, WorldIs DEF ItemSound, Mine
  <2>4. SameOwner(World, World', fd)
    BY <1>1, <2>2, <2>3 DEF Keeps
  <2>. QED BY <1>1, <2>4, WorldIs DEF SameOwner
<1>. QED BY <1>2, <1>3

\* A number that is given back and was not given out again
LEMMA UnusedIsOK ==
  ASSUME Sound(World), StaleUnused, NEW c \in Clients
  PROVE  StaleOK(World, c)
<1>1. /\ ConnectionSound(World, c) /\ \A fd \in Fd : ItemSound(World, fd)
      /\ conn[c] \in ConnectionType
  BY WorldIs DEF Sound, WorldType
<1>2. StaleSound(World, c)
  BY <1>1 DEF ConnectionSound
<1>3. ASSUME Stale(World, c)
      PROVE  ~Item(World, conn[c].origin_fd).used
  <2> DEFINE fd == conn[c].origin_fd
  <2>1. fd \in Fd /\ fd # NoFd /\ conn[c].attempted /\ ~OwnsOrigin(World, c)
    BY <1>3, FdFacts, WorldIs DEF Stale
  <2>2. CASE ~(fd < ItemsMax)
    BY <1>1, <2>1, <2>2 DEF ItemSound
  <2>3. CASE fd < ItemsMax
    <3>1. conn[c].host = "domain"
      BY <1>2, <1>3, <2>3, WorldIs DEF StaleSound
    <3>2. selector.items[fd].used <=> sock[fd] # "free"
      BY <1>1, <2>1, <2>3, WorldIs DEF ItemSound
    <3>3. OriginFd(c) = "closed"
      BY <2>1, <3>2, WorldIs DEF OriginFd, OwnsOrigin
    <3>. QED BY <3>1, <3>3, WorldIs DEF StaleUnused
  <2>. QED BY <2>2, <2>3
<1>. QED BY <1>2, <1>3, WorldIs DEF StaleOK

\* Visiting a readable descriptor: its callback, and the key that is read before it
LEMMA ReadStep ==
  ASSUME Serving, StaleUnused, VisitRead
  PROVE  Serving' /\ OneLives
<1> DEFINE fd == Current
<1> DEFINE item == selector.items[fd]
<1>1. /\ Sound(World) /\ VisitSound /\ ~Idle /\ fd \in visit.read /\ item.used
      /\ visit' = [Left(visit.read \ {fd}, visit.write) EXCEPT !.fd = fd, !.key = item.data]
      /\ \/ UNCHANGED <<selector, conn, sock>>
         \/ /\ "READ" \in item.interest
            /\ \E w \in HandleRead(World, item.handler, item.data) : Becomes(w)
  BY DEF Serving, VisitRead
<1>2. fd \in Fd /\ visit \in VisitType
  BY <1>1, CurrentIs DEF VisitSound
<1>3. OneLives /\ Sound(World)'
  <2>1. CASE UNCHANGED <<selector, conn, sock>>
    <3>1. World' = World
      BY <2>1 DEF World
    <3>. QED BY <1>1, <3>1 DEF OneLives
  <2>2. CASE /\ "READ" \in item.interest
             /\ \E w \in HandleRead(World, item.handler, item.data) : Becomes(w)
    <3>1. PICK v \in HandleRead(World, item.handler, item.data) : Becomes(v)
      BY <2>2
    <3>2. item = Item(World, fd)
      BY WorldIs
    <3>3. \/ v = World
          \/ \E c \in Clients : Accepts(World, v, c)
          \/ \E c \in Clients : /\ World.conn[c].phase # "FREE" /\ Lives(World, v, c)
                                /\ World.conn[c].phase = "TRY" => Releases(World, v, c)
      <4> HIDE DEF item
      <4>1. /\ "READ" \in Item(World, fd).interest
            /\ v \in HandleRead(World, Item(World, fd).handler, Item(World, fd).data)
        BY <2>2, <3>1, <3>2
      <4>2. \A c \in Clients : StaleOK(World, c)
        BY <1>1, UnusedIsOK
      <4> HIDE DEF fd
      <4>. QED BY <1>1, <1>2, <4>1, <4>2, HandleReadLives
    <3>4. Sound(v)
      BY <1>1, <3>3, LivesSettles DEF Accepts, Settles
    <3>5. World' = v /\ Sound(World)'
      BY <3>1, <3>4, WorldBecomes
    <3>. QED BY <3>3, <3>5, WorldIs DEF OneLives
  <2>. QED BY <1>1, <2>1, <2>2
<1> HIDE DEF fd, item
<1>4. /\ visit'.read = visit.read \ {fd} /\ visit'.write = visit.write
      /\ visit'.fd = fd /\ visit'.key = item.data
      /\ visit'.opened = Opened((visit.read \ {fd}) \union visit.write)
  BY <1>1, <1>2 DEF Left, VisitType
<1>5. /\ Opened((visit.read \ {fd}) \union visit.write) \in SUBSET Fd
      /\ \A x \in (visit.read \ {fd}) \union visit.write :
           sock'[x] = "pending" => x \in Opened((visit.read \ {fd}) \union visit.write)
  BY <1>1, OpenedKept
<1>6. item.data \in Clients \union {"none"}
  BY <1>1, <1>2, WorldIs DEF Sound, WorldType, SelectorType, ItemType, item
<1>7. visit' \in VisitType
  <2>1. visit' = [visit EXCEPT !.read = visit.read \ {fd}, !.write = visit.write,
                    !.opened = Opened((visit.read \ {fd}) \union visit.write),
                    !.fd = fd, !.key = item.data]
    BY <1>1 DEF Left
  <2>. QED BY <1>2, <1>5, <1>6, <2>1 DEF VisitType
<1>8. "WRITE" \in selector'.items[fd].interest => selector'.items[fd].data = item.data
  <2> SUFFICES ASSUME "WRITE" \in selector'.items[fd].interest
               PROVE  selector'.items[fd].data = item.data
    OBVIOUS
  <2>1. CASE World' = World
    BY <2>1, WorldIs DEF item
  <2>2. CASE World' # World
    <3>1. PICK c \in Clients : Settles(World, World', c)
      BY <1>3, <2>2, OneKeeps
    <3>2. SelectorSound(World'.selector) /\ Keeps(World, World', c)
      BY <3>1 DEF Settles, Sound
    <3>3. Item(World', fd).used /\ Item(World, fd).used
      BY <1>1, <1>2, <3>2, WorldIs DEF SelectorSound, item
    <3>4. Item(World', fd).data = Item(World, fd).data
      BY <1>2, <3>2, <3>3, KeptData
    <3>. QED BY <3>4, WorldIs DEF item
  <2>. QED BY <2>1, <2>2
<1>9. VisitSound'
  BY <1>4, <1>5, <1>7, <1>8 DEF VisitSound
<1>10. Listening'
  BY <1>1, <1>3, ListeningKept DEF Serving
<1>. QED BY <1>3, <1>9, <1>10 DEF Serving

\* Visiting a writable descriptor, with the key read before its read callback
LEMMA WriteStep ==
  ASSUME Serving, StaleUnused, VisitWrite
  PROVE  Serving' /\ OneLives
<1> DEFINE fd == Current
<1> DEFINE item == selector.items[fd]
<1>1. /\ Sound(World) /\ VisitSound /\ ~Idle /\ fd \notin visit.read
      /\ visit.fd = fd \/ item.used
      /\ visit' = [Left(visit.read, visit.write \ {fd}) EXCEPT !.fd = fd, !.key = Key(fd)]
      /\ \/ UNCHANGED <<selector, conn, sock>>
         \/ /\ "WRITE" \in item.interest
            /\ \E w \in HandleWrite(World, item.handler, Key(fd)) : Becomes(w)
  BY DEF Serving, VisitWrite
<1>2. fd \in Fd /\ visit \in VisitType /\ fd \in visit.write
  BY <1>1, CurrentIs DEF VisitSound
<1>3. "WRITE" \in item.interest => Key(fd) = item.data
  BY <1>1, <1>2 DEF VisitSound, Key
<1>4. OneLives /\ Sound(World)'
  <2>1. CASE UNCHANGED <<selector, conn, sock>>
    <3>1. World' = World
      BY <2>1 DEF World
    <3>. QED BY <1>1, <3>1 DEF OneLives
  <2>2. CASE /\ "WRITE" \in item.interest
             /\ \E w \in HandleWrite(World, item.handler, Key(fd)) : Becomes(w)
    <3>1. PICK v \in HandleWrite(World, item.handler, item.data) : Becomes(v)
      BY <1>3, <2>2
    <3>2. item = Item(World, fd)
      BY WorldIs
    <3>3. \E c \in Clients :
            /\ World.conn[c].phase # "FREE" /\ Lives(World, v, c)
            /\ World.conn[c].phase = "TRY" =>
                 Releases(World, v, c) \/ World.conn[c].origin_fd = fd
      <4> HIDE DEF item
      <4>1. /\ "WRITE" \in Item(World, fd).interest
            /\ v \in HandleWrite(World, Item(World, fd).handler, Item(World, fd).data)
        BY <2>2, <3>1, <3>2
      <4>2. \A c \in Clients : StaleOK(World, c)
        BY <1>1, UnusedIsOK
      <4> HIDE DEF fd
      <4>. QED BY <1>1, <1>2, <4>1, <4>2, HandleWriteLives
    <3>4. Sound(v)
      BY <3>3, LivesSettles DEF Settles
    <3>5. World' = v /\ Sound(World)'
      BY <3>1, <3>4, WorldBecomes
    <3>6. fd \in visit.read \union visit.write
      BY <1>2
    <3> HIDE DEF fd
    <3>. QED BY <3>3, <3>5, <3>6, WorldIs DEF OneLives
  <2>. QED BY <1>1, <2>1, <2>2
<1>5. Key(fd) \in Clients \union {"none"}
  BY <1>1, <1>2, WorldIs DEF Sound, WorldType, SelectorType, ItemType, Key, VisitType
<1> HIDE DEF fd, item
<1>6. /\ visit'.read = visit.read /\ visit'.write = visit.write \ {fd}
      /\ visit'.fd = fd /\ visit'.key = Key(fd)
      /\ visit'.opened = Opened(visit.read \union (visit.write \ {fd}))
  BY <1>1, <1>2 DEF Left, VisitType
<1>7. /\ Opened(visit.read \union (visit.write \ {fd})) \in SUBSET Fd
      /\ \A x \in visit.read \union (visit.write \ {fd}) :
           sock'[x] = "pending" => x \in Opened(visit.read \union (visit.write \ {fd}))
  BY <1>1, OpenedKept
<1>8. visit' \in VisitType
  <2>1. visit' = [visit EXCEPT !.read = visit.read, !.write = visit.write \ {fd},
                    !.opened = Opened(visit.read \union (visit.write \ {fd})),
                    !.fd = fd, !.key = Key(fd)]
    BY <1>1 DEF Left
  <2>. QED BY <1>2, <1>5, <1>7, <2>1 DEF VisitType
<1>9. VisitSound'
  BY <1>1, <1>6, <1>7, <1>8 DEF VisitSound
<1>10. Listening'
  BY <1>1, <1>4, ListeningKept DEF Serving
<1>. QED BY <1>4, <1>9, <1>10 DEF Serving

\* A descriptor whose item is gone is passed over
LEMMA SkipStep ==
  ASSUME Serving, Skip
  PROVE  Serving' /\ World' = World
<1> DEFINE fd == Current
<1>1. /\ Sound(World) /\ VisitSound /\ ~Idle /\ visit.fd # fd
      /\ UNCHANGED <<selector, conn, sock>>
      /\ visit' = Left(visit.read \ {fd}, visit.write \ {fd})
  BY DEF Serving, Skip
<1>2. World' = World /\ Sound(World)'
  <2>1. World' = World
    BY <1>1 DEF World
  <2>. QED BY <1>1, <2>1
<1> HIDE DEF fd
<1>3. visit \in VisitType
  BY <1>1 DEF VisitSound
<1> DEFINE open == Opened((visit.read \ {fd}) \union (visit.write \ {fd}))
<1>4. visit' = [visit EXCEPT !.read = visit.read \ {fd}, !.write = visit.write \ {fd},
                             !.opened = open]
  BY <1>1 DEF Left
<1>5. /\ open \in SUBSET Fd
      /\ \A x \in (visit.read \ {fd}) \union (visit.write \ {fd}) :
           sock'[x] = "pending" => x \in open
  BY <1>1, OpenedKept
<1> HIDE DEF open
<1>6. /\ visit'.read = visit.read \ {fd} /\ visit'.write = visit.write \ {fd}
      /\ visit'.fd = visit.fd /\ visit'.key = visit.key /\ visit'.opened = open
      /\ visit' \in VisitType
  BY <1>3, <1>4, <1>5 DEF VisitType
<1>7. VisitSound'
  BY <1>1, <1>5, <1>6 DEF VisitSound
<1>. QED BY <1>1, <1>2, <1>7 DEF Serving, Listening

\* pselect() finds no pending socket ready, and changes nothing but the snapshot
LEMMA SelectStep ==
  ASSUME Serving, Select
  PROVE  Serving' /\ World' = World
<1>1. World' = World /\ Sound(World)'
  <2>1. World' = World
    BY DEF Select, World
  <2>. QED BY <2>1 DEF Serving
<1> DEFINE watched == 0 .. selector.max_fd
<1> DEFINE read == {fd \in selector.read \intersect watched : MayRead(fd)}
<1> DEFINE write == {fd \in selector.write \intersect watched : MayWrite(fd)}
<1>2. visit' = [read |-> read, write |-> write, fd |-> NoFd, key |-> "none", opened |-> {}]
      /\ sock' = sock
  BY DEF Select
<1>3. selector.read \in SUBSET Fd /\ selector.write \in SUBSET Fd
  BY WorldIs DEF Serving, Sound, WorldType, SelectorType
<1>4. read \in SUBSET Fd /\ write \in SUBSET Fd
  BY <1>3
<1>5. \A fd \in read \union write : sock[fd] # "pending"
  BY DEF MayRead, MayWrite
<1> HIDE DEF read, write
<1>6. /\ visit'.read = read /\ visit'.write = write /\ visit'.fd = NoFd /\ visit'.opened = {}
      /\ visit' \in VisitType
  BY <1>2, <1>4 DEF VisitType
<1>7. NoFd \notin read /\ NoFd \notin write
  BY <1>4, FdFacts
<1>8. VisitSound'
  BY <1>2, <1>5, <1>6, <1>7 DEF VisitSound
<1>9. Listening'
  BY DEF Serving, Listening, Select
<1>. QED BY <1>1, <1>8, <1>9 DEF Serving

\* The collector releases one connection
LEMMA CollectStep ==
  ASSUME Serving, StaleUnused, NEW fd \in Fd, Collect(fd)
  PROVE  Serving' /\ OneLives
<1> DEFINE c == selector.items[fd].data
<1>1. /\ Sound(World) /\ VisitSound /\ Idle /\ selector.items[fd].used /\ c # "none"
      /\ Becomes(Release(World, c)) /\ visit' = visit
  BY DEF Serving, Collect
<1>2. c \in Clients /\ conn[c].phase # "FREE"
  <2>1. ItemSound(World, fd) /\ World \in WorldType
    BY <1>1 DEF Sound
  <2>2. Item(World, fd).handler \in {"none", "accept", "client", "origin"}
    BY <2>1, WorldIs DEF WorldType, SelectorType, ItemType, Item
  <2>. QED BY <1>1, <2>1, <2>2, WorldIs DEF ItemSound
<1> HIDE DEF c
<1> DEFINE v == Release(World, c)
<1>3. Releases(World, v, c)
  BY <1>1, <1>2, WorldIs, UnusedIsOK, ReleaseReleases
<1> HIDE DEF v
<1>4. Sound(v) /\ Becomes(v)
  BY <1>1, <1>3 DEF Releases, Settles, v
<1>5. World' = v /\ Sound(World)'
  BY <1>4, WorldBecomes
<1>6. OneLives
  BY <1>2, <1>3, <1>5, WorldIs DEF OneLives, Lives
<1>7. VisitSound'
  BY <1>1 DEF VisitSound, Idle
<1>8. Listening'
  BY <1>1, <1>6, ListeningKept DEF Serving
<1>. QED BY <1>5, <1>6, <1>7, <1>8 DEF Serving

\* No item of an empty selector is a listening socket's
LEMMA EmptyIsOver ==
  ASSUME selector = EmptySelector
  PROVE  ~Running
BY EmptySelectorSound, ListenersAre DEF Running

\* and of one that has them, one is
LEMMA ListeningRuns ==
  ASSUME Listening
  PROVE  Running
BY ListenersAre DEF Listening, Running

\* The end of main() gives every struct back
LEMMA ShutdownStep ==
  ASSUME Serving, Shutdown
  PROVE  /\ Ended' /\ ~Running'
         /\ \A c \in Clients : conn'[c] = IF conn[c].phase = "FREE" THEN conn[c] ELSE NoConnection
<1> DEFINE v == CloseListeners(SelectorDestroy(World))
<1>1. Sound(World) /\ Idle /\ Becomes(v) /\ visit' = visit
  BY DEF Serving, Shutdown
<1>2. /\ EndedWorld(v)
      /\ \A c \in Clients : v.conn[c] = IF World.conn[c].phase = "FREE" THEN World.conn[c]
                                        ELSE NoConnection
  BY <1>1, DestroyEnds
<1> HIDE DEF v
<1>3. World' = v
  BY <1>1, <1>2 DEF EndedWorld, World, Becomes, WorldType
<1>4. Idle'
  BY <1>1 DEF Idle
<1>5. Ended'
  BY <1>2, <1>3, <1>4 DEF Ended
<1>6. ~Running'
  <2>1. selector' = EmptySelector
    BY <1>2, <1>3, WorldIs DEF EndedWorld
  <2>. QED BY <2>1, EmptySelectorSound, ListenersAre DEF Running
<1>. QED BY <1>2, <1>3, <1>5, <1>6, WorldIs

\* The kernel's answer changes no socket from open to closed or back
LEMMA ConnectEndsStep ==
  ASSUME Serving, NEW fd \in Fd, ConnectEnds(fd)
  PROVE  /\ Serving' /\ UNCHANGED <<selector, conn>>
         /\ \A x \in Fd : sock'[x] # "free" <=> sock[x] # "free"
<1>1. /\ Sound(World) /\ VisitSound /\ sock[fd] = "pending"
      /\ selector' = selector /\ conn' = conn /\ visit' = visit
  BY DEF Serving, ConnectEnds
<1>2. PICK link \in {"up", "failed"} : sock' = [sock EXCEPT ![fd] = link]
  BY DEF ConnectEnds
<1>3. World \in WorldType /\ sock \in [Fd -> {"free", "listening"} \union Links]
  BY <1>1, WorldIs DEF Sound, WorldType
<1>4. /\ sock'[fd] = link /\ \A x \in Fd \ {fd} : sock'[x] = sock[x]
      /\ sock' \in [Fd -> {"free", "listening"} \union Links]
  BY <1>2, <1>3 DEF Links
<1>5. \A x \in Fd : sock'[x] # "free" <=> sock[x] # "free"
  BY <1>1, <1>4
<1>6. World' = [World EXCEPT !.sock = sock'] /\ World' \in WorldType
  <2>1. World' = [World EXCEPT !.sock = sock']
    BY <1>1 DEF World
  <2>. QED BY <1>3, <1>4, <2>1 DEF WorldType
<1> DEFINE w == World
<1> DEFINE v == World'
<1>7. /\ v.selector = w.selector /\ v.conn = w.conn /\ v \in WorldType
      /\ \A x \in Fd : Item(v, x) = Item(w, x)
      /\ \A x \in Fd : v.sock[x] # "free" <=> w.sock[x] # "free"
      /\ \A x \in Fd : w.sock[x] \in Links => v.sock[x] \in Links
  BY <1>1, <1>4, <1>5, <1>6, WorldIs DEF Item, Links
<1>8. Sound(w)
  BY <1>1
<1> HIDE DEF w, v
<1>9. Sound(v)
  <2>1. \A x \in Fd : ItemSound(v, x)
    BY <1>7, <1>8 DEF Sound, ItemSound
  <2>2. ASSUME NEW c \in Clients
        PROVE  ConnectionSound(v, c)
    <3>1. ConnectionSound(w, c) /\ w.conn[c] \in ConnectionType
      BY <1>8 DEF Sound, WorldType
    <3>2. HasClient(v, c) <=> HasClient(w, c)
      BY <1>7, <3>1 DEF HasClient, ConnectionType
    <3>3. OwnsOrigin(v, c) <=> OwnsOrigin(w, c)
      BY <1>7 DEF OwnsOrigin
    <3>4. StaleSound(v, c)
      BY <1>7, <3>1, <3>3 DEF StaleSound, Stale, ConnectionSound
    <3>. QED BY <1>7, <3>1, <3>2, <3>3, <3>4 DEF ConnectionSound
  <2>. QED BY <1>7, <1>8, <2>1, <2>2 DEF Sound
<1>10. Sound(World')
  BY <1>9 DEF v
<1>11. VisitSound'
  BY <1>1, <1>4 DEF VisitSound, VisitType
<1>12. Listening'
  BY <1>1 DEF Serving, Listening
<1>. QED BY <1>1, <1>5, <1>10, <1>11, <1>12 DEF Serving

\* A listening socket is registered, if there is one
LEMMA ListenIs ==
  ASSUME NEW s \in SelectorType, SelectorSound(s), NEW fd, fd = NoFd \/ Registrable(s, fd)
  PROVE  LET t == Listen(s, fd) IN
         /\ t \in SelectorType /\ SelectorSound(t)
         /\ fd # NoFd => /\ t.items[fd].used /\ t.items[fd].handler = "accept"
                         /\ t.items[fd].interest = {"READ"} /\ t.items[fd].data = "none"
         /\ \A x \in Fd \ {fd} : t.items[x] = s.items[x]
<1> DEFINE t == Listen(s, fd)
<1>1. CASE fd = NoFd
  BY <1>1 DEF Listen
<1>2. CASE fd # NoFd
  <2> DEFINE i == {"READ"}
  <2> DEFINE h == "accept"
  <2> DEFINE d == "none"
  <2>1. /\ h \in {"accept", "client", "origin"}
        /\ i \in SUBSET Operations /\ d \in Clients \union {"none"}
    BY DEF Operations
  <2> DEFINE u == selector_register(s, fd, h, i, d)
  <2>2. t = u /\ Registrable(s, fd)
    BY <1>2 DEF Listen
  <2> HIDE DEF i, h, d
  <2>3. /\ u \in SelectorType /\ SelectorSound(u)
        /\ u.items[fd].used /\ u.items[fd].handler = h
        /\ u.items[fd].interest = i /\ u.items[fd].data = d
        /\ \A x \in Fd \ {fd} : u.items[x] = s.items[x]
    <3>1. s \in SelectorType /\ SelectorSound(s) /\ Registrable(s, fd)
      BY <2>2
    <3>2. Adds(s, u, fd, h, i, d)
      BY <2>1, <3>1, RegisterSelector
    <3>. QED BY <3>2 DEF Adds
  <2> HIDE DEF u, t
  <2>4. /\ t \in SelectorType /\ SelectorSound(t)
        /\ t.items[fd].used /\ t.items[fd].handler = "accept"
        /\ t.items[fd].interest = {"READ"} /\ t.items[fd].data = "none"
        /\ \A x \in Fd \ {fd} : t.items[x] = s.items[x]
    BY <2>2, <2>3 DEF i, h, d
  <2>. QED BY <2>4 DEF t
<1>. QED BY <1>1, <1>2

\* main() up to its loop
LEMMA InitSound ==
  ASSUME Init
  PROVE  Serving
<1> DEFINE s == Listen(EmptySelector, proxy_fd_4)
<1> DEFINE t == Listen(s, proxy_fd_6)
<1>1. /\ s \in SelectorType /\ SelectorSound(s)
      /\ proxy_fd_4 # NoFd =>
           /\ s.items[proxy_fd_4].used /\ s.items[proxy_fd_4].handler = "accept"
           /\ s.items[proxy_fd_4].interest = {"READ"} /\ s.items[proxy_fd_4].data = "none"
      /\ \A x \in Fd \ {proxy_fd_4} : s.items[x] = EmptySelector.items[x]
  <2>1. proxy_fd_4 = NoFd \/ Registrable(EmptySelector, proxy_fd_4)
    BY ListenersAre, EmptySelectorSound DEF Registrable, Listeners
  <2>. QED BY <2>1, EmptySelectorSound, ListenIs
<1> HIDE DEF s
<1>2. /\ t \in SelectorType /\ SelectorSound(t)
      /\ proxy_fd_6 # NoFd =>
           /\ t.items[proxy_fd_6].used /\ t.items[proxy_fd_6].handler = "accept"
           /\ t.items[proxy_fd_6].interest = {"READ"} /\ t.items[proxy_fd_6].data = "none"
      /\ \A x \in Fd \ {proxy_fd_6} : t.items[x] = s.items[x]
  <2>1. proxy_fd_6 = NoFd \/ Registrable(s, proxy_fd_6)
    BY <1>1, ListenersAre, EmptySelectorSound, ProxyAssumption DEF Registrable, Listeners
  <2>. QED BY <1>1, <2>1, ListenIs
<1> HIDE DEF t
<1>3. /\ selector = t /\ conn = [c \in Clients |-> NoConnection]
      /\ sock = [fd \in Fd |-> IF fd \in Listeners THEN "listening" ELSE "free"]
      /\ visit = [read |-> {}, write |-> {}, fd |-> NoFd, key |-> "none", opened |-> {}]
  BY DEF Init, s, t
<1>4. ASSUME NEW x \in Fd
      PROVE  /\ x \in Listeners =>
                  /\ t.items[x].used /\ t.items[x].handler = "accept"
                  /\ t.items[x].interest = {"READ"} /\ t.items[x].data = "none"
             /\ x \notin Listeners => t.items[x] = EmptySelector.items[x]
  <2>1. CASE x = proxy_fd_6
    BY <1>2, <2>1, FdFacts DEF Listeners
  <2>2. CASE x # proxy_fd_6 /\ x = proxy_fd_4
    <3>1. t.items[x] = s.items[x]
      BY <1>2, <2>2
    <3>. QED BY <1>1, <2>2, <3>1, FdFacts DEF Listeners
  <2>3. CASE x # proxy_fd_6 /\ x # proxy_fd_4
    <3>1. t.items[x] = s.items[x] /\ s.items[x] = EmptySelector.items[x]
      BY <1>1, <1>2, <2>3
    <3>. QED BY <2>3, <3>1 DEF Listeners
  <2>. QED BY <2>1, <2>2, <2>3
<1>5. /\ conn \in [Clients -> ConnectionType]
      /\ sock \in [Fd -> {"free", "listening"} \union Links]
  BY <1>3, NoConnectionIs
<1>6. World \in WorldType
  BY <1>2, <1>3, <1>5, WorldMade DEF World
<1>7. ASSUME NEW x \in Fd
      PROVE  ItemSound(World, x)
  <2>1. CASE x \in Listeners
    BY <1>3, <1>4, <2>1, ListenersAre, WorldIs DEF ItemSound
  <2>2. CASE x \notin Listeners
    <3>1. Item(World, x) = EmptySelector.items[x] /\ World.sock[x] = "free"
      BY <1>3, <1>4, <2>2, WorldIs
    <3>2. ~Item(World, x).used /\ Item(World, x).handler = "none"
      BY <3>1, EmptySelectorSound
    <3>. QED BY <3>1, <3>2 DEF ItemSound
  <2>. QED BY <2>1, <2>2
<1>8. ASSUME NEW c \in Clients
      PROVE  ConnectionSound(World, c)
  <2>1. World.conn[c] = NoConnection
    BY <1>3, WorldIs
  <2>. QED BY <2>1, NoConnectionIs DEF ConnectionSound, StaleSound, Stale, WithOrigin, MayBe
<1>9. Sound(World)
  BY <1>2, <1>3, <1>6, <1>7, <1>8, WorldIs DEF Sound
<1>10. VisitSound
  BY <1>3 DEF VisitSound, VisitType
<1>11. Listening
  BY <1>3, <1>4, ListenersAre DEF Listening
<1>. QED BY <1>9, <1>10, <1>11 DEF Serving

\* Nothing happens
LEMMA StutterStep ==
  ASSUME Serving, UNCHANGED vars
  PROVE  Serving' /\ World' = World
<1>1. /\ selector' = selector /\ conn' = conn /\ sock' = sock /\ visit' = visit
  BY DEF vars
<1>2. World' = World
  BY <1>1 DEF World
<1>3. Sound(World)'
  BY <1>2 DEF Serving
<1>4. VisitSound'
  BY <1>1 DEF Serving, VisitSound, VisitType
<1>5. Listening'
  BY <1>1 DEF Serving, Listening
<1>. QED BY <1>2, <1>3, <1>4, <1>5 DEF Serving

\* After the end of main() the kernel still answers for a socket that has leaked
LEMMA EndedStep ==
  ASSUME Ended, [Next]_vars
  PROVE  /\ Ended' /\ UNCHANGED <<selector, conn>>
         /\ \A x \in Fd : sock'[x] # "free" <=> sock[x] # "free"
<1>1. /\ EndedWorld(World) /\ Idle /\ selector = EmptySelector /\ ~Running
      /\ sock \in [Fd -> {"free", "listening"} \union Links]
  BY EmptyIsOver, WorldIs DEF Ended, EndedWorld, WorldType
<1>2. \A fd \in Fd : ~Collect(fd)
  BY <1>1, EmptySelectorSound DEF Collect
<1>3. \/ UNCHANGED vars
      \/ \E fd \in Fd : ConnectEnds(fd)
  BY <1>1, <1>2 DEF Next, Select, Skip, VisitRead, VisitWrite, Shutdown, Stopped
<1>4. CASE UNCHANGED vars
  <2>1. /\ selector' = selector /\ conn' = conn /\ sock' = sock /\ visit' = visit
    BY <1>4 DEF vars
  <2>2. World' = World
    BY <2>1 DEF World
  <2>. QED BY <1>1, <2>1, <2>2 DEF Ended, Idle
<1>5. ASSUME NEW fd \in Fd, ConnectEnds(fd)
      PROVE  /\ Ended' /\ UNCHANGED <<selector, conn>>
             /\ \A x \in Fd : sock'[x] # "free" <=> sock[x] # "free"
  <2>1. /\ sock[fd] = "pending" /\ selector' = selector /\ conn' = conn /\ visit' = visit
    BY <1>5 DEF ConnectEnds
  <2>2. PICK link \in {"up", "failed"} : sock' = [sock EXCEPT ![fd] = link]
    BY <1>5 DEF ConnectEnds
  <2>3. /\ sock' \in [Fd -> {"free", "listening"} \union Links]
        /\ \A x \in Fd : sock'[x] # "free" <=> sock[x] # "free"
    BY <1>1, <2>1, <2>2 DEF Links
  <2>4. World' = [World EXCEPT !.sock = sock']
    BY <2>1 DEF World
  <2>5. World' \in WorldType
    BY <1>1, <2>3, <2>4 DEF EndedWorld, WorldType
  <2>6. EndedWorld(World')
    BY <1>1, <2>1, <2>3, <2>5, WorldIs DEF EndedWorld
  <2>. QED BY <1>1, <2>1, <2>3, <2>6 DEF Ended, Idle
<1>. QED BY <1>3, <1>4, <1>5

\* What one step does, to the invariant and to the connections
Answers ==
  /\ UNCHANGED <<selector, conn>>
  /\ \A x \in Fd : sock'[x] # "free" <=> sock[x] # "free"

Destroys ==
  /\ ~Running'
  /\ \A c \in Clients : conn'[c] = IF conn[c].phase = "FREE" THEN conn[c] ELSE NoConnection

\* Every step keeps the invariant, and is a step of one connection at most, an
\* answer of the kernel or the end of main()
LEMMA Step ==
  ASSUME IInv, StaleUnused, [Next]_vars
  PROVE  IInv' /\ ((Serving /\ Serving' /\ OneLives) \/ Answers \/ (Serving /\ Destroys))
<1>1. CASE Ended
  BY <1>1, EndedStep DEF IInv, Answers
<1>2. CASE Serving
  <2>1. CASE Select
    BY <1>2, <2>1, SelectStep DEF OneLives, IInv
  <2>2. CASE Skip
    BY <1>2, <2>2, SkipStep DEF OneLives, IInv
  <2>3. CASE VisitRead
    BY <1>2, <2>3, ReadStep DEF IInv
  <2>4. CASE VisitWrite
    BY <1>2, <2>4, WriteStep DEF IInv
  <2>5. CASE Shutdown
    BY <1>2, <2>5, ShutdownStep DEF Destroys, IInv
  <2>6. CASE Stopped \/ UNCHANGED vars
    <3>1. UNCHANGED vars
      BY <2>6 DEF Stopped
    <3>. QED BY <1>2, <3>1, StutterStep DEF OneLives, IInv
  <2>7. ASSUME NEW fd \in Fd, Collect(fd)
        PROVE  Serving' /\ OneLives
    BY <1>2, <2>7, CollectStep
  <2>8. ASSUME NEW fd \in Fd, ConnectEnds(fd)
        PROVE  Serving' /\ Answers
    BY <1>2, <2>8, ConnectEndsStep DEF Answers
  <2>. QED BY <1>2, <2>1, <2>2, <2>3, <2>4, <2>5, <2>6, <2>7, <2>8 DEF Next, IInv
<1>. QED BY <1>1, <1>2 DEF IInv

-----------------------------------------------------------------------------
(* The theorems.  The code lets a resolution keep, as origin_fd, a number that  *)
(* it has given back, and close or watch whatever the number names by then.   *)
(* What follows is therefore said of the behaviours in which no such number   *)
(* is given out again, []StaleUnused, whoever else is connected meanwhile.    *)

\* The selector's table and master sets, the structs and the sockets agree in every
\* reachable state, also between the callbacks of one iteration: whatever the callbacks of
\* connections_manager.c and the states close, open and register meanwhile, as long as no
\* number that a resolution has given back is given out again (doh_utils.c:148).
THEOREM ProxyInvariant == Spec /\ []StaleUnused => []IInv
<1>1. Init => IInv
  BY InitSound DEF IInv
<1>2. IInv /\ StaleUnused /\ [Next]_vars => IInv'
  BY Step
<1>. QED BY <1>1, <1>2, PTL DEF Spec

\* selector.c calls pselect() with every descriptor that an item has an interest in, and
\* with no other, up to a max_fd that covers them all, as long as no number that a
\* resolution has given back is given out again.
THEOREM MastersTold == Spec /\ []StaleUnused => []MastersMatch
<1>1. Serving => MastersMatch
  BY WorldIs DEF Serving, Sound, SelectorSound, MastersMatch
<1>2. Ended => MastersMatch
  BY EmptySelectorSound, WorldIs DEF Ended, EndedWorld, SelectorSound, MastersMatch
<1>3. IInv => MastersMatch
  BY <1>1, <1>2 DEF IInv
<1>. QED BY <1>3, ProxyInvariant, PTL

\* Of the numbers in the table, the selector has an item for exactly those whose sockets are
\* open, but for the socket of proxy_fd_4 after the end of main(), which httpd.c:119 does not
\* close: as long as no number that a resolution has given back is given out again.
THEOREM SocketsRegistered == Spec /\ []StaleUnused => []DescriptorsMatch
<1>1. Serving => DescriptorsMatch
  <2> SUFFICES ASSUME Serving, NEW fd \in Fd, fd < ItemsMax
               PROVE  selector.items[fd].used <=> sock[fd] # "free" /\ (Running \/ fd # proxy_fd_4)
    BY DEF DescriptorsMatch
  <2>1. ItemSound(World, fd) /\ Running
    BY ListeningRuns DEF Serving, Sound
  <2>. QED BY <2>1, WorldIs DEF ItemSound
<1>2. Ended => DescriptorsMatch
  <2> SUFFICES ASSUME Ended, NEW fd \in Fd, fd < ItemsMax
               PROVE  selector.items[fd].used <=> sock[fd] # "free" /\ (Running \/ fd # proxy_fd_4)
    BY DEF DescriptorsMatch
  <2>1. selector = EmptySelector /\ (sock[fd] # "free" => fd = proxy_fd_4)
    BY WorldIs DEF Ended, EndedWorld
  <2>2. ~Running /\ ~selector.items[fd].used
    BY <2>1, EmptyIsOver, EmptySelectorSound
  <2>. QED BY <2>1, <2>2
<1>3. IInv => DescriptorsMatch
  BY <1>1, <1>2 DEF IInv
<1>. QED BY <1>3, ProxyInvariant, PTL

\* An item's struct is in use and has the item's descriptor for its own; a struct in use
\* has its client's item, through which proxy_client_close frees it: as long as no number
\* that a resolution has given back is given out again.
THEOREM ItemsHaveOwners == Spec /\ []StaleUnused => []ItemsOwned
<1>1. Serving => ItemsOwned
  <2> SUFFICES ASSUME Serving PROVE ItemsOwned
    OBVIOUS
  <2>1. \A fd \in Fd : ItemSound(World, fd)
    BY DEF Serving, Sound
  <2>2. \A c \in Clients : conn[c].phase # "FREE" => HasClient(World, c)
    BY WorldIs DEF Serving, Sound, ConnectionSound
  <2>3. ASSUME NEW fd \in Fd
        PROVE  LET item == selector.items[fd] IN
               /\ item.handler = "client" =>
                    conn[item.data].phase # "FREE" /\ conn[item.data].client_fd = fd
               /\ item.handler = "origin" =>
                    /\ conn[item.data].phase # "FREE"
                    /\ conn[item.data].attempted /\ conn[item.data].origin_fd = fd
    BY <2>1, WorldIs DEF ItemSound
  <2>4. ASSUME NEW c \in Clients, conn[c].phase # "FREE"
        PROVE  /\ selector.items[conn[c].client_fd].handler = "client"
               /\ selector.items[conn[c].client_fd].data = c
    BY <2>2, <2>4, WorldIs DEF HasClient
  <2>. QED BY <2>3, <2>4 DEF ItemsOwned
<1>2. Ended => ItemsOwned
  BY EmptySelectorSound, WorldIs DEF Ended, EndedWorld, ItemsOwned
<1>3. IInv => ItemsOwned
  BY <1>1, <1>2 DEF IInv
<1>. QED BY <1>3, ProxyInvariant, PTL

\* The key that handle_iteration reads before handle_read is still that of the item when
\* it calls handle_write, and its struct has not been freed: as long as no number that a
\* resolution has given back is given out again.
THEOREM KeysStayValid == Spec /\ []StaleUnused => []KeyStillValid
<1>1. Serving => KeyStillValid
  <2> SUFFICES ASSUME Serving, ~Idle, visit.fd = Current,
                      "WRITE" \in selector.items[Current].interest
               PROVE  /\ selector.items[Current].data = visit.key
                      /\ conn[visit.key].phase # "FREE"
    BY DEF KeyStillValid
  <2> DEFINE fd == Current
  <2>1. VisitSound /\ Sound(World)
    BY DEF Serving
  <2>2. fd \in Fd /\ fd \in visit.write /\ "WRITE" \in selector.items[fd].interest
    BY <2>1, CurrentIs DEF VisitSound
  <2>3. selector.items[fd].data = visit.key
    BY <2>1, <2>2 DEF VisitSound
  <2> HIDE DEF fd
  <2>4. /\ ItemSound(World, fd) /\ SelectorSound(World.selector)
        /\ World.selector \in SelectorType
    BY <2>1, <2>2 DEF Sound, WorldType
  <2>5. Item(World, fd).handler \in {"client", "origin"}
    BY <2>2, <2>4, WorldIs DEF SelectorSound, ItemSound, SelectorType, ItemType
  <2>6. conn[visit.key].phase # "FREE"
    BY <2>3, <2>4, <2>5, WorldIs DEF ItemSound
  <2>. QED BY <2>3, <2>6 DEF fd
<1>2. Ended => KeyStillValid
  BY DEF Ended, KeyStillValid
<1>3. IInv => KeyStillValid
  BY <1>1, <1>2 DEF IInv
<1>. QED BY <1>3, ProxyInvariant, PTL

-----------------------------------------------------------------------------
(* Every step of a connection is one of its lifecycle, and no other's *)

\* The properties' name for what an origin_fd stands for, in the present world
LEMMA OriginFdIs ==
  ASSUME NEW c \in Clients, World \in WorldType
  PROVE  OriginFd(c) = OriginIn(World, c)
<1>1. conn[c].origin_fd \in Fd \union {NoFd}
  BY WorldIs DEF WorldType, ConnectionType
<1>. QED BY <1>1, WorldIs DEF OriginFd, OriginIn, OwnsOrigin

\* and in the next
LEMMA OriginFdBecomes ==
  ASSUME NEW c \in Clients, World' \in WorldType
  PROVE  OriginFd(c)' = OriginIn(World', c)
<1>1. conn'[c].origin_fd \in Fd \union {NoFd}
  BY WorldIs DEF WorldType, ConnectionType
<1>. QED BY <1>1, WorldIs DEF OriginFd, OriginIn, OwnsOrigin

\* One connection leaves another's origin alone
LEMMA OthersOrigin ==
  ASSUME NEW c \in Clients, NEW d \in Clients \ {c}, NEW w, NEW v, Sound(w), Sound(v),
         Keeps(w, v, c)
  PROVE  v.conn[d] = w.conn[d] /\ OriginIn(v, d) = OriginIn(w, d)
<1> DEFINE k == w.conn[d]
<1>1. /\ v.conn[d] = k /\ k \in ConnectionType /\ w \in WorldType
      /\ ConnectionSound(w, d) /\ ConnectionSound(v, d)
      /\ \A fd \in Fd : ItemSound(w, fd) /\ ItemSound(v, fd)
  BY DEF Keeps, Sound, WorldType
<1>2. k.origin_fd \in Fd \union {NoFd}
  BY <1>1 DEF ConnectionType
<1>3. CASE ~k.attempted \/ k.origin_fd = NoFd
  BY <1>1, <1>3 DEF OriginIn
<1>4. CASE k.attempted /\ k.origin_fd \in Fd
  <2> DEFINE fd == k.origin_fd
  <2>1. \/ Mine(w, fd, c) /\ Mine(v, fd, c)
        \/ SameOwner(w, v, fd) /\ v.sock[fd] = w.sock[fd]
    BY <1>4 DEF Keeps
  <2>2. CASE SameOwner(w, v, fd) /\ v.sock[fd] = w.sock[fd]
    BY <1>1, <1>2, <2>2, OriginSame
  <2>3. CASE Mine(w, fd, c) /\ Mine(v, fd, c)
    <3>1. ~OwnsOrigin(w, d) /\ ~OwnsOrigin(v, d)
      BY <1>1, <1>4, <2>3 DEF OwnsOrigin, Mine, ItemSound
    <3>2. fd # NoFd /\ v.conn[d].attempted /\ v.conn[d].origin_fd = fd
      BY <1>1, <1>4, FdFacts
    <3>3. CASE fd < ItemsMax
      <4>1. /\ Item(w, fd).used <=> w.sock[fd] # "free"
            /\ Item(v, fd).used <=> v.sock[fd] # "free"
        BY <1>1, <1>4, <3>3 DEF ItemSound
      <4>2. OriginIn(w, d) = "closed" /\ OriginIn(v, d) = "closed"
        BY <1>4, <3>1, <3>2, <4>1 DEF OriginIn
      <4>. QED BY <1>1, <4>2
    <3>4. CASE ~(fd < ItemsMax)
      <4>1. Stale(w, d)
        BY <1>4, <3>1 DEF Stale
      <4>2. w.sock[fd] # "free"
        BY <1>1, <3>4, <4>1 DEF ConnectionSound, StaleSound
      <4>3. v.sock[fd] = w.sock[fd]
        BY <1>4, <3>4, <4>2 DEF Keeps
      <4>4. ~Item(w, fd).used /\ ~Item(v, fd).used
        BY <1>1, <1>4, <3>4 DEF ItemSound
      <4>5. OriginIn(w, d) = "unregistered" /\ OriginIn(v, d) = "unregistered"
        BY <1>4, <3>1, <3>2, <4>2, <4>3, <4>4 DEF OriginIn
      <4>. QED BY <1>1, <4>5
    <3>. QED BY <3>3, <3>4
  <2>. QED BY <2>1, <2>2, <2>3
<1>. QED BY <1>1, <1>2, <1>3, <1>4

\* The state of a connection, in the terms of its lifecycle, depends on its struct and origin
LEMMA LifeSame ==
  ASSUME NEW c \in Clients, World \in WorldType, World' \in WorldType,
         World'.conn[c] = World.conn[c], OriginIn(World', c) = OriginIn(World, c)
  PROVE  UNCHANGED Life(c)!life
<1>1. conn'[c] = conn[c] /\ OriginFd(c)' = OriginFd(c)
  BY OriginFdIs, OriginFdBecomes, WorldIs
<1>. QED BY <1>1 DEF Life!life

\* The lifecycle of the connections whose callback it was not stands still
LEMMA OthersLife ==
  ASSUME NEW c \in Clients, NEW d \in Clients \ {c}, Sound(World), Settles(World, World', c)
  PROVE  UNCHANGED Life(d)!life
<1>1. Sound(World') /\ Keeps(World, World', c)
  BY DEF Settles
<1>2. World'.conn[d] = World.conn[d] /\ OriginIn(World', d) = OriginIn(World, d)
  BY <1>1, OthersOrigin
<1>3. World \in WorldType /\ World' \in WorldType
  BY <1>1 DEF Sound
<1>. QED BY <1>2, <1>3, LifeSame

\* The kernel's answers are no steps of a lifecycle
LEMMA AnswersLife ==
  ASSUME NEW c \in Clients, IInv, IInv', Answers
  PROVE  UNCHANGED Life(c)!life
<1>1. World \in WorldType /\ World' \in WorldType
  BY DEF IInv, Serving, Ended, EndedWorld, Sound
<1>2. conn' = conn /\ selector' = selector /\ \A x \in Fd : sock'[x] # "free" <=> sock[x] # "free"
  BY DEF Answers
<1>3. conn[c].origin_fd \in Fd \union {NoFd}
  BY <1>1, WorldIs DEF WorldType, ConnectionType
<1>4. OriginFd(c)' = OriginFd(c)
  BY <1>2, <1>3 DEF OriginFd
<1>. QED BY <1>2, <1>4 DEF Life!life

\* A step is one of one connection, or of none
LEMMA OneLife ==
  ASSUME Serving, Serving', OneLives
  PROVE  \/ \A c \in Clients : UNCHANGED Life(c)!life
         \/ \E c \in Clients : \A d \in Clients \ {c} : UNCHANGED Life(d)!life
<1>1. /\ Sound(World) /\ World \in WorldType /\ World' \in WorldType
  BY DEF Serving, Sound
<1>2. CASE World' = World
  BY <1>1, <1>2, LifeSame
<1>3. ASSUME NEW c \in Clients, Accepts(World, World', c)
      PROVE  \A d \in Clients \ {c} : UNCHANGED Life(d)!life
  BY <1>1, <1>3, OthersLife DEF Accepts
<1>4. ASSUME NEW c \in Clients, conn[c].phase # "FREE", Lives(World, World', c)
      PROVE  \A d \in Clients \ {c} : UNCHANGED Life(d)!life
  BY <1>1, <1>4, OthersLife, LivesSettles, WorldIs
<1>. QED BY <1>2, <1>3, <1>4 DEF OneLives

\* No callback of one connection closes, frees or unregisters anything of another, as long as
\* main() has not left its loop and no number that a resolution has given back is given out
\* again: from then on the connection that has kept the number closes or watches the other's.
THEOREM CallbacksKeepApart == Spec /\ []StaleUnused => Isolated
<1>1. ASSUME IInv, StaleUnused, [Next]_vars
      PROVE  Running' => \A c, d \in Clients :
               c # d => UNCHANGED Life(c)!life \/ UNCHANGED Life(d)!life
  <2>1. IInv' /\ ((Serving /\ Serving' /\ OneLives) \/ Answers \/ (Serving /\ Destroys))
    BY <1>1, Step
  <2>2. CASE Serving /\ Serving' /\ OneLives
    BY <2>2, OneLife
  <2>3. CASE Answers
    BY <1>1, <2>1, <2>3, AnswersLife
  <2>4. CASE Destroys
    BY <2>4 DEF Destroys
  <2>. QED BY <2>1, <2>2, <2>3, <2>4
<1>. QED BY <1>1, ProxyInvariant, PTL DEF Spec, Isolated

\* What Lives says of the phase
LEMMA OutOfTry ==
  ASSUME NEW c \in Clients, NEW w, NEW v, Sound(w), Lives(w, v, c), w.conn[c].phase = "TRY",
         v.conn[c].phase \in {"SEND_DOH", "SEND_LINE", "RELAY"}
  PROVE  Connects(w, v, c)
<1>1. w.conn[c] \in ConnectionType
  BY DEF Sound, WorldType
<1>2. ASSUME Moves(w, v, c, "ERROR")
      PROVE  v.conn[c].phase = "ERROR"
  BY <1>1, <1>2, InPhaseIs DEF Moves, Phases
<1>3. ASSUME TriesNext(w, v, c)
      PROVE  v.conn[c].phase \in {"TRY", "ERROR"}
  BY <1>3 DEF TriesNext, Registers, Opens
<1>. QED BY <1>2, <1>3, NoConnectionIs DEF Lives, Rests, Refused, Asks, Releases

\* try_connection_ip.c leaves TRY_CONNECTION_IP with a connected socket, unless it was opened
\* in the same iteration, with the number of one that pselect() found ready: as long as no
\* number that a resolution has given back is given out again.
THEOREM ConnectedOrOpened == Spec /\ []StaleUnused => ConnectedWhenSaidSo
<1>1. ASSUME IInv, StaleUnused, [Next]_vars, NEW c \in Clients, conn[c].phase = "TRY",
             conn'[c].phase \in {"SEND_DOH", "SEND_LINE", "RELAY"}
      PROVE  sock[conn[c].origin_fd] = "up" \/ conn[c].origin_fd \in visit.opened
  <2>1. IInv' /\ ((Serving /\ Serving' /\ OneLives) \/ Answers \/ (Serving /\ Destroys))
    BY <1>1, Step
  <2>3. Serving /\ OneLives
    <3>1. ~Answers
      BY <1>1 DEF Answers
    <3>2. ~Destroys
      BY <1>1, NoConnectionIs DEF Destroys
    <3>. QED BY <2>1, <3>1, <3>2
  <2>2. /\ Sound(World) /\ VisitSound /\ World \in WorldType
        /\ \A x \in Fd : ItemSound(World, x)
    BY <2>3 DEF Serving, Sound
  <2>4. World' # World
    BY <1>1, WorldIs
  <2>5. ASSUME NEW d \in Clients, Accepts(World, World', d)
        PROVE  FALSE
    BY <1>1, <2>5, WorldIs DEF Accepts, Settles, Keeps
  <2>6. PICK d \in Clients :
          /\ conn[d].phase # "FREE" /\ Lives(World, World', d)
          /\ conn[d].phase = "TRY" =>
               \/ Releases(World, World', d)
               \/ conn[d].origin_fd \in visit.read \union visit.write
    BY <2>3, <2>4, <2>5 DEF OneLives
  <2>7. d = c
    BY <1>1, <2>6, LivesSettles, WorldIs DEF Settles, Keeps
  <2>8. ~Releases(World, World', c)
    BY <1>1, NoConnectionIs, WorldIs DEF Releases
  <2>9. Connects(World, World', c)
    BY <1>1, <2>2, <2>6, <2>7, OutOfTry, WorldIs
  <2>10. sock[conn[c].origin_fd] # "failed"
    BY <2>9, WorldIs DEF Connects
  <2>11. OwnsOrigin(World, c)
    <3>1. World.conn[c].phase \in WithOrigin
      BY <1>1, WorldIs DEF WithOrigin
    <3>. QED BY <2>2, <3>1 DEF Sound, ConnectionSound
  <2>12. sock[conn[c].origin_fd] \in Links
    BY <2>2, <2>11, WorldIs DEF OwnsOrigin, ItemSound
  <2>13. conn[c].origin_fd \in visit.read \union visit.write
    BY <1>1, <2>6, <2>7, <2>8
  <2>14. sock[conn[c].origin_fd] = "pending" => conn[c].origin_fd \in visit.opened
    BY <2>2, <2>13 DEF VisitSound
  <2>. QED BY <2>10, <2>12, <2>14 DEF Links
<1>2. IInv /\ StaleUnused /\ [Next]_vars =>
        [\A c \in Clients :
           conn[c].phase = "TRY" /\ conn'[c].phase \in {"SEND_DOH", "SEND_LINE", "RELAY"} =>
             sock[conn[c].origin_fd] = "up" \/ conn[c].origin_fd \in visit.opened]_vars
  BY <1>1
<1>. QED BY <1>2, ProxyInvariant, PTL DEF Spec, ConnectedWhenSaidSo

\* The steps of Lifecycle
LEMMA RegistersLife ==
  ASSUME NEW c \in Clients, NEW query, World \in WorldType, World' \in WorldType,
         Registers(World, World', c, query)
  PROVE  Life(c)!Register(query)
<1>1. /\ conn'[c].doh = query /\ conn'[c].attempted = TRUE /\ conn'[c].host = conn[c].host
  BY WorldIs DEF Registers, WorldType, ConnectionType
<1>2. \/ conn'[c].phase = "TRY" /\ OriginFd(c)' = "registered"
      \/ conn'[c].phase = "ERROR" /\ OriginFd(c)' = "unregistered"
  BY OriginFdBecomes, WorldIs DEF Registers
<1>. QED BY <1>1, <1>2 DEF Life!Register

\* register_origin_socket as the lifecycle has it: a new item, or the error page
LEMMA OpensLife ==
  ASSUME NEW c \in Clients, NEW query, World \in WorldType, World' \in WorldType,
         Opens(World, World', c, query)
  PROVE  Life(c)!Open(query)
<1>1. CASE Registers(World, World', c, query)
  BY <1>1, RegistersLife DEF Life!Open
<1>2. CASE ~Registers(World, World', c, query)
  <2>1. /\ conn'[c].phase = "ERROR" /\ conn'[c].doh = query /\ OriginFd(c)' = "none"
        /\ conn'[c].host = conn[c].host /\ conn'[c].attempted = conn[c].attempted
    BY <1>2, OriginFdBecomes, WorldIs DEF Opens
  <2>. QED BY <2>1 DEF Life!Open
<1>. QED BY <1>1, <1>2

\* The next attempt at a server, or the last
LEMMA TriesNextLife ==
  ASSUME NEW c \in Clients, World \in WorldType, World' \in WorldType,
         TriesNext(World, World', c)
  PROVE  Life(c)!TryNext
<1>1. OriginFd(c) = "registered"
  BY OriginFdIs DEF TriesNext
<1>2. CASE conn[c].doh \in {"A", "AAAA"} /\ Registers(World, World', c, conn[c].doh)
  BY <1>1, <1>2, RegistersLife DEF Life!TryNext, Life!Active
<1>3. CASE conn[c].doh = "A" /\ Opens(World, World', c, "between")
  BY <1>1, <1>3, OpensLife DEF Life!TryNext
<1>4. CASE /\ conn[c].doh \in {"AAAA", "between"}
           /\ conn'[c].phase = "ERROR"
           /\ OriginIn(World', c) \in {"closed", "none"} /\ conn'[c].host = conn[c].host
           /\ conn'[c].doh = conn[c].doh /\ conn'[c].attempted = conn[c].attempted
  BY <1>1, <1>4, OriginFdBecomes DEF Life!TryNext
<1>. QED BY <1>2, <1>3, <1>4, WorldIs DEF TriesNext

\* Another phase with the same origin
LEMMA MovesLife ==
  ASSUME NEW c \in Clients, NEW p \in Phases, World \in WorldType, World' \in WorldType,
         Moves(World, World', c, p)
  PROVE  Life(c)!Move(p)
<1> DEFINE k == conn[c]
<1>1. k \in ConnectionType /\ conn'[c] = InPhase(k, p)
  BY WorldIs DEF Moves, WorldType
<1> HIDE DEF k
<1>2. /\ conn'[c].phase = p /\ conn'[c].host = k.host /\ conn'[c].doh = k.doh
      /\ conn'[c].attempted = k.attempted
  BY <1>1, InPhaseIs
<1>3. OriginFd(c)' = OriginFd(c)
  BY OriginFdIs, OriginFdBecomes DEF Moves
<1>. QED BY <1>2, <1>3 DEF Life!Move, k

\* The error page
LEMMA FailsLife ==
  ASSUME NEW c \in Clients, World \in WorldType, World' \in WorldType,
         Moves(World, World', c, "ERROR")
  PROVE  Life(c)!Fail
<1>1. Life(c)!Move("ERROR")
  BY MovesLife DEF Phases
<1>. QED BY <1>1 DEF Life!Move, Life!Fail

\* close_proxy_connection
LEMMA ReleasesLife ==
  ASSUME NEW c \in Clients, Sound(World), World' \in WorldType, World'.conn[c] = NoConnection
  PROVE  [Life(c)!Next]_(Life(c)!life)
<1>1. /\ World \in WorldType /\ ConnectionSound(World, c) /\ World.conn[c] = conn[c]
  BY WorldIs DEF Sound
<1>2. /\ conn'[c].phase = "FREE" /\ ~conn'[c].attempted /\ conn'[c].doh = "none"
      /\ conn'[c].host = "ip"
  BY NoConnectionIs, WorldIs
<1>3. OriginFd(c)' = "none"
  BY <1>2, WorldIs DEF OriginFd
<1>4. CASE conn[c].phase # "FREE"
  <2>1. Life(c)!Release
    BY <1>2, <1>3, <1>4 DEF Life!Release, Life!Free
  <2>. QED BY <2>1 DEF Life!Next
<1>5. CASE conn[c].phase = "FREE"
  <2>1. conn[c].host = "ip" /\ ~conn[c].attempted /\ conn[c].doh = "none"
    BY <1>1, <1>5 DEF ConnectionSound
  <2>2. conn[c] \in ConnectionType /\ conn'[c] \in ConnectionType
    BY <1>1, WorldIs DEF WorldType
  <2>3. OriginFd(c) = "none"
    BY <2>1 DEF OriginFd
  <2>4. conn'[c].attempted = conn[c].attempted
    BY <1>2, <2>1, <2>2 DEF ConnectionType
  <2>5. UNCHANGED Life(c)!life
    BY <1>2, <1>3, <1>5, <2>1, <2>3, <2>4 DEF Life!life
  <2>. QED BY <2>5
<1>. QED BY <1>4, <1>5

\* A struct taken into use
LEMMA AcceptsLife ==
  ASSUME NEW c \in Clients, Sound(World), World' \in WorldType, Accepts(World, World', c)
  PROVE  Life(c)!Next
<1>1. /\ conn[c].phase = "FREE" /\ conn[c].host = "ip" /\ ~conn[c].attempted
      /\ conn[c].doh = "none"
  BY WorldIs DEF Accepts, Sound, ConnectionSound
<1>2. conn'[c].phase = "PARSING" /\ conn'[c].doh = "none" /\ ~conn'[c].attempted
  BY WorldIs DEF Accepts
<1>3. OriginFd(c) = "none" /\ OriginFd(c)' = "none"
  BY <1>1, <1>2 DEF OriginFd
<1>4. Life(c)!Accept
  BY <1>1, <1>2, <1>3 DEF Life!Accept, Life!Free, Life!Accepted
<1>. QED BY <1>4 DEF Life!Next

\* Every callback of a connection is a step of its lifecycle
LEMMA LivesLife ==
  ASSUME NEW c \in Clients, Sound(World), World' \in WorldType, Lives(World, World', c)
  PROVE  [Life(c)!Next]_(Life(c)!life)
<1>1. World \in WorldType /\ World.conn = conn /\ World'.conn = conn'
  BY WorldIs DEF Sound
<1>2. CASE Rests(World, World', c)
  BY <1>1, <1>2, LifeSame DEF Rests
<1>3. CASE conn[c].phase = "PARSING" /\ Moves(World, World', c, "ERROR")
  BY <1>1, <1>3, FailsLife DEF Life!Next, Life!Parse
<1>4. CASE conn[c].phase = "PARSING" /\ Opens(World, World', c, "none")
  BY <1>1, <1>4, OpensLife DEF Life!Next, Life!Parse
<1>5. CASE Connects(World, World', c)
  <2>1. conn[c].phase = "TRY" /\ OriginFd(c) = "registered"
    BY <1>1, <1>5, OriginFdIs DEF Connects
  <2>2. conn[c].doh \in {"none", "A", "AAAA", "between"}
    BY <1>1 DEF WorldType, ConnectionType
  <2>3. CASE conn[c].host = "domain" /\ conn[c].doh \in {"none", "between"}
    <3>1. Life(c)!Move("SEND_DOH")
      BY <1>1, <1>5, <2>3, MovesLife DEF Connects, Phases
    <3>2. Life(c)!Connected
      BY <2>1, <2>3, <3>1 DEF Life!Connected, Life!Active
    <3>. QED BY <3>2 DEF Life!Next
  <2>4. CASE ~(conn[c].host = "domain" /\ conn[c].doh \in {"none", "between"})
    <3>1. Life(c)!Move("SEND_LINE") \/ Life(c)!Move("RELAY")
      BY <1>1, <1>5, <2>4, MovesLife DEF Connects, Phases
    <3>2. Life(c)!Connected
      BY <2>1, <2>2, <2>4, <3>1 DEF Life!Connected, Life!Active
    <3>. QED BY <3>2 DEF Life!Next
  <2>. QED BY <2>3, <2>4
<1>6. CASE Refused(World, World', c)
  <2>1. Life(c)!NotConnected
    BY <1>1, <1>6, FailsLife, TriesNextLife DEF Refused, Life!NotConnected
  <2>. QED BY <2>1 DEF Life!Next
<1>7. CASE Asks(World, World', c)
  <2>1. OriginFd(c)' = OriginFd(c)
    BY <1>1, <1>7, OriginFdIs, OriginFdBecomes DEF Asks
  <2>2. Life(c)!Ask
    BY <1>1, <1>7, <2>1 DEF Asks, Life!Ask
  <2>. QED BY <2>2 DEF Life!Next
<1>8. CASE conn[c].phase = "AWAIT" /\ (Moves(World, World', c, "ERROR") \/ TriesNext(World, World', c))
  <2>1. Life(c)!Answer
    BY <1>1, <1>8, FailsLife, TriesNextLife DEF Life!Answer
  <2>. QED BY <2>1 DEF Life!Next
<1>9. CASE conn[c].phase = "SEND_LINE" /\ Moves(World, World', c, "RELAY")
  <2>1. Life(c)!Move("RELAY")
    BY <1>1, <1>9, MovesLife DEF Phases
  <2>. QED BY <1>9, <2>1 DEF Life!Next, Life!SendLine
<1>10. CASE Releases(World, World', c)
  BY <1>10, ReleasesLife DEF Releases
<1>. QED BY <1>1, <1>2, <1>3, <1>4, <1>5, <1>6, <1>7, <1>8, <1>9, <1>10 DEF Lives

\* However the callbacks of several connections alternate, each connection goes through the
\* lifecycle that a connection has on its own, as long as no number that a resolution has
\* given back is given out again.
THEOREM EachImplementsLifecycle == Spec /\ []StaleUnused => EachKeepsToLifecycle
<1>1. ASSUME IInv, StaleUnused, [Next]_vars
      PROVE  \A c \in Clients : [Life(c)!Next]_(Life(c)!life)
  <2> SUFFICES ASSUME NEW c \in Clients PROVE [Life(c)!Next]_(Life(c)!life)
    OBVIOUS
  <2>1. IInv' /\ ((Serving /\ Serving' /\ OneLives) \/ Answers \/ (Serving /\ Destroys))
    BY <1>1, Step
  <2>2. /\ World \in WorldType /\ World' \in WorldType
        /\ Serving => Sound(World)
    BY <1>1, <2>1 DEF IInv, Serving, Ended, EndedWorld, Sound
  <2>3. CASE World' = World
    BY <2>2, <2>3, LifeSame
  <2>4. ASSUME Serving, NEW d \in Clients, Accepts(World, World', d)
        PROVE  [Life(c)!Next]_(Life(c)!life)
    <3>1. CASE d = c
      BY <2>2, <2>4, <3>1, AcceptsLife
    <3>2. CASE d # c
      BY <2>2, <2>4, <3>2, OthersLife DEF Accepts
    <3>. QED BY <3>1, <3>2
  <2>5. ASSUME Serving, NEW d \in Clients, conn[d].phase # "FREE", Lives(World, World', d)
        PROVE  [Life(c)!Next]_(Life(c)!life)
    <3>1. CASE d = c
      BY <2>2, <2>5, <3>1, LivesLife
    <3>2. CASE d # c
      BY <2>2, <2>5, <3>2, OthersLife, LivesSettles, WorldIs
    <3>. QED BY <3>1, <3>2
  <2>6. CASE Answers
    BY <1>1, <2>1, <2>6, AnswersLife
  <2>7. CASE Serving /\ Destroys
    <3>1. CASE conn[c].phase # "FREE"
      BY <2>2, <2>7, <3>1, ReleasesLife, WorldIs DEF Destroys
    <3>2. CASE conn[c].phase = "FREE"
      <4>1. conn'[c] = conn[c] /\ ~conn[c].attempted
        BY <2>2, <2>7, <3>2, WorldIs DEF Destroys, Sound, ConnectionSound
      <4>2. OriginFd(c)' = OriginFd(c)
        BY <4>1 DEF OriginFd
      <4>. QED BY <4>1, <4>2 DEF Life!life
    <3>. QED BY <3>1, <3>2
  <2>. QED BY <2>1, <2>3, <2>4, <2>5, <2>6, <2>7 DEF OneLives
<1>. QED BY <1>1, ProxyInvariant, PTL DEF Spec, EachKeepsToLifecycle
=============================================================================
