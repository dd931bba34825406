-------------------------- MODULE ManagementProofs --------------------------
(***************************************************************************)
(* Proofs that what httpdctl shows is the answer to the request it made,   *)
(* and that it tells the truth.                                            *)
(***************************************************************************)
EXTENDS Management, TLAPS, SequenceTheorems, FiniteSetTheorems

Programs == {"ctl", "other"}

-----------------------------------------------------------------------------
(* The inductive invariant of an exchange *)

Asked == [type : 0 .. 1, method : 0 .. 7]

CtlType ==
  [waiting : BOOLEAN, id : Nat, option : Asked, typed : Nat,
   answer : [id : Nat, status : Nat, value : Nat]]

SettingsType == [sniffer : BOOLEAN, buffers_size : Nat, timeout : Nat]

\* A reply, saying so
Reply(id, status, value) == [id |-> id, octets |-> build_reply(status, value)]

Replies == {Reply(id, status, value) : id \in Nat, status \in Nat, value \in Nat}

Typed ==
  /\ metrics \in [Counters -> Nat]
  /\ ctl \in CtlType
  /\ settings \in SettingsType
  /\ DOMAIN replies = Programs /\ replies["ctl"] \in Seq(Replies)
  /\ failed \in Nat
  /\ IsFiniteSet(inbound)

\* A request that asks for this, with the right passphrase
Carries(request, option, typed) ==
  /\ request.ver = 1 /\ request.passphrase = "right"
  /\ request.type = option.type /\ request.method = option.method
  /\ Value(request) = typed % 65536

\* One of httpdctl's requests
Own(id, request) ==
  /\ id \in 1 .. ctl.id
  /\ \E option \in Asked, typed \in Nat : Carries(request, option, typed)
  /\ id = ctl.id => Carries(request, ctl.option, ctl.typed)

FromOther(datagram) ==
  datagram.from = "other" /\ datagram.length \in Lengths /\ datagram.request \in OtherRequests

\* The last that it has made, unless a recvfrom() has failed
FromCtl(datagram) ==
  /\ datagram.from = "ctl" /\ datagram.length = Whole /\ Own(datagram.id, datagram.request)
  /\ failed = 0 => datagram.id = ctl.id

Requests == \A datagram \in inbound : FromOther(datagram) \/ FromCtl(datagram)

\* What the service would serve again if recvfrom() failed
Kept == last.from = "ctl" => Own(last.id, memory)

\* A reply is to a request that httpdctl has made
Answers ==
  \A i \in 1 .. Len(replies["ctl"]) :
    replies["ctl"][i].id \in 1 .. ctl.id /\ (failed = 0 => replies["ctl"][i].id = ctl.id)

Ctls == {datagram \in inbound : datagram.from = "ctl"}

IInv == Typed /\ Requests /\ Kept /\ Answers /\ AnswersOwnRequest

-----------------------------------------------------------------------------
(* A reply on its way *)

\* Eight octets are the number that was cut into them
LEMMA Octets ==
  ASSUME NEW n \in Nat
  PROVE  (((n \div 16777216) * 256 + ((n \div 65536) % 256)) * 256 + ((n \div 256) % 256)) * 256
           + (n % 256) = n
<1> DEFINE a == n \div 256
<1> DEFINE b == a \div 256
<1> DEFINE c == b \div 256
<1> DEFINE r == n % 256
<1> DEFINE s == a % 256
<1> DEFINE t == b % 256
<1>1. a \in Nat /\ r \in 0 .. 255 /\ n = a * 256 + r
  BY SMT
<1>2. b \in Nat /\ s \in 0 .. 255 /\ a = b * 256 + s
  BY <1>1, SMT
<1>3. c \in Nat /\ t \in 0 .. 255 /\ b = c * 256 + t
  BY <1>2, SMT
<1>4. n \div 65536 = b
  BY <1>1, <1>2, SMT
<1>5. n \div 16777216 = c
  BY <1>1, <1>2, <1>3, SMT
<1> HIDE DEF a, b, c, r, s, t
<1>6. n \div 256 = a /\ n % 256 = r /\ a % 256 = s /\ b % 256 = t
  BY DEF a, r, s, t
<1>7. ((c * 256 + t) * 256 + s) * 256 + r = n
  BY <1>1, <1>2, <1>3, SMT
<1>. QED BY <1>4, <1>5, <1>6, <1>7, SMT

\* A place in two sequences put together
LEMMA Concatenated ==
  ASSUME NEW s \in Seq(Nat), NEW t \in Seq(Nat), NEW u, u = s \o t, Len(s) = 3, Len(t) = 8
  PROVE  \A i \in 1 .. 11 : u[i] = IF i <= 3 THEN s[i] ELSE t[i - 3]
<1> DEFINE joined == s \o t
<1>1. \A i \in 1 .. Len(s) + Len(t) : joined[i] = IF i <= Len(s) THEN s[i] ELSE t[i - Len(s)]
  BY ConcatProperties
<1>2. u = joined
  OBVIOUS
<1> HIDE DEF joined
<1>3. ASSUME NEW i \in 1 .. 11
      PROVE  joined[i] = IF i <= 3 THEN s[i] ELSE t[i - 3]
  <2>1. i \in 1 .. Len(s) + Len(t)
    OBVIOUS
  <2>. QED BY <1>1, <2>1
<1>. QED BY <1>2, <1>3

\* httpdctl reads what the service wrote
LEMMA RoundTrip ==
  ASSUME NEW status \in Nat, NEW value \in Nat
  PROVE  /\ parse_answer(build_reply(status, value)).status = status
         /\ parse_answer(build_reply(status, value)).value = value
<1> DEFINE b == build_reply(status, value)
<1> DEFINE front == <<1, status, 0>>
<1> DEFINE back == serialize(value)
<1>1. front \in Seq(Nat) /\ Len(front) = 3 /\ front[2] = status
  BY SMT
<1>2. value \div 16777216 \in Nat
  BY SMT
<1>3. back \in Seq(Nat) /\ Len(back) = 8
  BY <1>2, SMT DEF serialize
<1>4. /\ back[5] = value \div 16777216 /\ back[6] = (value \div 65536) % 256
      /\ back[7] = (value \div 256) % 256 /\ back[8] = value % 256
  BY <1>2, SMT DEF serialize
<1> HIDE DEF front, back
<1>5. /\ b[2] = status /\ b[8] = value \div 16777216 /\ b[9] = (value \div 65536) % 256
      /\ b[10] = (value \div 256) % 256 /\ b[11] = value % 256
  <2>1. b = front \o back
    BY DEF build_reply, front, back
  <2> HIDE DEF b
  <2>2. \A i \in 1 .. 11 : b[i] = IF i <= 3 THEN front[i] ELSE back[i - 3]
    BY <1>1, <1>3, <2>1, Concatenated
  <2>. QED BY <1>1, <1>4, <2>2, SMT
<1> HIDE DEF b
<1>6. parse_answer(b).value = value
  BY <1>5, Octets, SMT DEF parse_answer
<1>. QED BY <1>5, <1>6, SMT DEF parse_answer, b

-----------------------------------------------------------------------------
(* What the service makes of a request *)

\* A whole datagram replaces all that earlier ones left
LEMMA ReceivedWhole ==
  ASSUME NEW datagram, datagram.length = Whole
  PROVE  LET request == Received(datagram) IN
         /\ request.ver = datagram.request.ver /\ request.passphrase = datagram.request.passphrase
         /\ request.type = datagram.request.type /\ request.method = datagram.request.method
         /\ request.hi = datagram.request.hi /\ request.lo = datagram.request.lo
<1>1. ASSUME NEW field \in Fields
      PROVE  Place[field] <= Whole
  BY DEF Fields, Place, Whole
<1>2. \A field \in Fields : Received(datagram)[field] = datagram.request[field]
  BY <1>1 DEF Received
<1>. QED BY <1>2 DEF Fields

\* The ranges of modification_methods
LEMMA RangesAre ==
  /\ ValuesRange[0] = 0 .. 1 /\ ValuesRange[1] = 1024 .. 8192 /\ ValuesRange[2] = 4 .. 12
BY DEF ValuesRange

\* A value that is let through changes one setting
LEMMA ChangedTyped ==
  ASSUME settings \in SettingsType, NEW method \in 0 .. 2, NEW value,
         validate_input_value(method, value)
  PROVE  /\ value \in Nat /\ Changed(method, value) \in SettingsType
         /\ method = 0 => value \in 0 .. 1 /\ Changed(method, value).sniffer = (value # 0)
         /\ method = 1 => Changed(method, value).buffers_size = value
         /\ method = 2 => Changed(method, value).timeout = value
<1>1. value \in ValuesRange[method]
  BY DEF validate_input_value
<1>2. CASE method = 0
  <2>1. value \in 0 .. 1
    BY <1>1, <1>2, RangesAre
  <2> DEFINE on == value # 0
  <2>2. Changed(method, value) = [settings EXCEPT !.sniffer = on]
    BY <1>2 DEF Changed
  <2>3. on \in BOOLEAN
    OBVIOUS
  <2> HIDE DEF on
  <2>4. Changed(method, value) \in SettingsType /\ Changed(method, value).sniffer = on
    BY <2>2, <2>3, Zenon DEF SettingsType
  <2>. QED BY <1>2, <2>1, <2>4 DEF on
<1>3. CASE method = 1
  <2>1. value \in 1024 .. 8192
    BY <1>1, <1>3, RangesAre
  <2>2. Changed(method, value) = [settings EXCEPT !.buffers_size = value]
    BY <1>3 DEF Changed
  <2>3. value \in Nat
    BY <2>1
  <2>. QED BY <1>3, <2>2, <2>3 DEF SettingsType
<1>4. CASE method = 2
  <2>1. value \in 4 .. 12
    BY <1>1, <1>4, RangesAre
  <2>2. Changed(method, value) = [settings EXCEPT !.timeout = value]
    BY <1>4 DEF Changed
  <2>. QED BY <1>4, <2>1, <2>2 DEF SettingsType
<1>. QED BY <1>2, <1>3, <1>4

\* A change leaves settings of their types, whatever is asked for
LEMMA ModifyTyped ==
  ASSUME settings \in SettingsType, NEW method, NEW value
  PROVE  LET effect == Modify(method, value) IN
         /\ effect.settings \in SettingsType /\ effect.value = 0
         /\ \E status \in {Success, Unsuccessful} : effect.statuses = <<status>>
<1>1. CASE method \notin 0 .. 2 \/ ~validate_input_value(method, value)
  BY <1>1 DEF Modify, Effect
<1>2. CASE method \in 0 .. 2 /\ validate_input_value(method, value)
  <2>1. value \in Nat /\ Changed(method, value) \in SettingsType
    BY <1>2, ChangedTyped
  <2>2. Modify(method, value) = Effect(<<Success>>, 0, Changed(method, value))
    BY <1>2 DEF Modify
  <2>. QED BY <2>1, <2>2 DEF Effect
<1>. QED BY <1>1, <1>2

\* A request of a type other than a change leaves the settings alone, and so does a wrong
\* passphrase
LEMMA ServeLeaves ==
  ASSUME NEW request, request.type # Modification \/ request.passphrase # "right"
  PROVE  Serve(request).settings = settings
BY DEF Serve, Effect, Retrieval, Modification

\* Whatever is served, the settings keep their types
LEMMA ServeTyped ==
  ASSUME settings \in SettingsType, NEW request
  PROVE  Serve(request).settings \in SettingsType
<1>1. CASE request.type # Modification \/ request.passphrase # "right"
  BY <1>1, ServeLeaves
<1>2. CASE request.type = Modification /\ request.passphrase = "right" /\ Parsed(request)
  <2>1. Serve(request) = Modify(request.method, Value(request))
    BY <1>2 DEF Serve, Retrieval, Modification
  <2>. QED BY <2>1, ModifyTyped
<1>3. CASE ~Parsed(request)
  BY <1>3 DEF Serve, Effect
<1>. QED BY <1>1, <1>2, <1>3

\* A counter or a setting
LEMMA RetrieveTyped ==
  ASSUME metrics \in [Counters -> Nat], settings \in SettingsType, NEW method \in 0 .. 7
  PROVE  Retrieve(method) \in Nat
<1>1. Counters = {0, 1, 2, 3, 7}
  BY DEF Counters
<1>2. CASE method = 4
  BY <1>1, <1>2 DEF Retrieve
<1>3. CASE method = 5
  BY <1>3 DEF Retrieve, SettingsType
<1>4. CASE method = 6
  BY <1>4 DEF Retrieve, SettingsType
<1>5. CASE method \in Counters
  BY <1>1, <1>5 DEF Retrieve
<1>. QED BY <1>1, <1>2, <1>3, <1>4, <1>5

\* A request of httpdctl is answered once, and what it retrieves is what there is
LEMMA ServeOne ==
  ASSUME metrics \in [Counters -> Nat], settings \in SettingsType,
         NEW request, NEW option \in Asked, NEW typed, Carries(request, option, typed)
  PROVE  LET effect == Serve(request) IN
         /\ \E status \in Nat : effect.statuses = <<status>>
         /\ effect.value \in Nat
         /\ option.type = Retrieval => effect.value = Retrieve(option.method)
<1>1. option.type \in 0 .. 1 /\ option.method \in 0 .. 7
  BY DEF Asked
<1>2. /\ Parsed(request) /\ request.passphrase = "right"
      /\ request.type = option.type /\ request.method = option.method
  BY <1>1 DEF Carries, Parsed
<1>3. CASE request.type = Retrieval
  <2>1. Serve(request) = Effect(<<Success>>, Retrieve(request.method), settings)
    BY <1>2, <1>3 DEF Serve, Retrieval, Modification
  <2>2. Retrieve(request.method) \in Nat
    BY <1>1, <1>2, RetrieveTyped
  <2>. QED BY <1>2, <2>1, <2>2 DEF Effect, Success
<1>4. CASE request.type = Modification
  <2>1. Serve(request) = Modify(request.method, Value(request))
    BY <1>2, <1>4 DEF Serve, Retrieval, Modification
  <2>. QED BY <1>2, <1>4, <2>1, ModifyTyped DEF Success, Unsuccessful, Retrieval, Modification
<1>. QED BY <1>1, <1>2, <1>3, <1>4 DEF Retrieval, Modification

\* The value that httpdctl sends is what a uint16_t keeps of the one typed
LEMMA BuiltCarries ==
  ASSUME NEW option \in Asked, NEW typed \in Nat
  PROVE  Carries(BuiltRequest(option, typed), option, typed)
<1> DEFINE value == typed % 65536
<1> DEFINE built == BuiltRequest(option, typed)
<1>1. value \in Nat
  OBVIOUS
<1>2. /\ built.ver = 1 /\ built.passphrase = "right"
      /\ built.type = option.type /\ built.method = option.method
      /\ built.hi = value \div 256 /\ built.lo = value % 256
  BY DEF BuiltRequest
<1> HIDE DEF value
<1>3. (value \div 256) * 256 + (value % 256) = value
  BY <1>1, SMT
<1>4. Value(built) = value
  BY <1>2, <1>3 DEF Value
<1>. QED BY <1>2, <1>4 DEF Carries, value

\* The service receives the whole of it
LEMMA ReceivedCarries ==
  ASSUME NEW datagram, datagram.length = Whole, NEW option, NEW typed
  PROVE  Carries(Received(datagram), option, typed) <=> Carries(datagram.request, option, typed)
BY ReceivedWhole DEF Carries, Value

\* One reply goes out for one status
LEMMA OneSent ==
  ASSUME NEW s \in Seq(Replies), NEW id \in Nat, NEW status \in Nat, NEW effect,
         effect.statuses = <<status>>, effect.value \in Nat
  PROVE  s \o Sent(id, effect) = Append(s, Reply(id, status, effect.value))
<1> DEFINE r == Reply(id, status, effect.value)
<1>1. Sent(id, effect) = [i \in 1 .. 1 |-> r]
  BY DEF Sent, Reply
<1>2. r \in Replies
  BY DEF Replies
<1> HIDE DEF r
<1>3. Sent(id, effect) = <<r>>
  BY <1>1
<1>4. s \o <<r>> = Append(s, r)
  BY <1>2, AppendIsConcat
<1>. QED BY <1>3, <1>4 DEF r

-----------------------------------------------------------------------------
(* Every step keeps the exchange *)

\* Nothing is sent to httpdctl or taken from its socket; datagrams of others come and go,
\* and httpdctl's may get lost
Quiet ==
  /\ ctl' = ctl /\ failed' \in Nat /\ failed <= failed'
  /\ DOMAIN replies' = Programs /\ replies'["ctl"] = replies["ctl"]
  /\ IsFiniteSet(inbound')
  /\ \A datagram \in inbound' : datagram \in inbound \/ FromOther(datagram)
  /\ (last' = last /\ memory' = memory) \/ last'.from # "ctl"

\* The service answers one of httpdctl's requests, which is one less on its way, or answers
\* one again
Replied(id, status, value) ==
  /\ ctl' = ctl /\ failed' \in Nat /\ failed <= failed'
  /\ inbound' \subseteq inbound
  /\ Cardinality(Ctls') + failed + 1 <= Cardinality(Ctls) + failed'
  /\ last'.from = "ctl" /\ last'.id = id /\ Own(id, memory') /\ (failed' = 0 => id = ctl.id)
  /\ DOMAIN replies' = Programs
  /\ replies'["ctl"] = Append(replies["ctl"], Reply(id, status, value))

\* httpdctl makes a request
Asking ==
  /\ ~ctl.waiting /\ ctl' \in CtlType /\ ctl'.waiting /\ ctl'.id = ctl.id + 1
  /\ replies' = replies /\ failed' = failed /\ last' = last /\ memory' = memory
  /\ \E datagram :
       /\ inbound' = inbound \union {datagram}
       /\ datagram.from = "ctl" /\ datagram.length = Whole /\ datagram.id = ctl'.id
       /\ Carries(datagram.request, ctl'.option, ctl'.typed)

\* The first reply to httpdctl leaves its socket, or the network
Taken ==
  /\ replies["ctl"] # <<>>
  /\ DOMAIN replies' = Programs /\ replies'["ctl"] = Tail(replies["ctl"])
  /\ inbound' = inbound /\ failed' = failed /\ last' = last /\ memory' = memory

Lost == Taken /\ ctl' = ctl

Shown(id, status, value) ==
  /\ Taken /\ ctl.waiting
  /\ replies["ctl"][1] = Reply(id, status, value)
  /\ ctl' \in CtlType /\ ~ctl'.waiting
  /\ ctl'.id = ctl.id /\ ctl'.option = ctl.option /\ ctl'.typed = ctl.typed
  /\ ctl'.answer = [id |-> id, status |-> status, value |-> value]

\* Requests stay what they are
LEMMA OwnKept ==
  ASSUME ctl'.id = ctl.id, ctl'.option = ctl.option, ctl'.typed = ctl.typed
  PROVE  \A id, request : Own(id, request) => Own(id, request)'
BY DEF Own, Carries, Value

\* Of finitely many datagrams
LEMMA CtlsFinite ==
  ASSUME IsFiniteSet(inbound)
  PROVE  IsFiniteSet(Ctls) /\ Cardinality(Ctls) \in Nat
<1>1. Ctls \in SUBSET inbound
  BY DEF Ctls
<1>. QED BY <1>1, FS_Subset, FS_CardinalityType

\* What other clients send or receive and what the network takes of the requests leaves the
\* exchange of httpdctl as it was
LEMMA QuietOK ==
  ASSUME IInv, Quiet, metrics' \in [Counters -> Nat], settings' \in SettingsType
  PROVE  IInv'
<1>1. \A id, request : Own(id, request) => Own(id, request)'
  BY OwnKept DEF Quiet
<1>2. failed \in Nat /\ failed' \in Nat /\ (failed' = 0 => failed = 0)
  BY DEF IInv, Typed, Quiet
<1>3. Typed'
  BY DEF IInv, Typed, Quiet
<1>4. Requests'
  <2> SUFFICES ASSUME NEW datagram \in inbound'
               PROVE  FromOther(datagram) \/ FromCtl(datagram)'
    BY DEF Requests, FromOther
  <2>1. CASE FromOther(datagram)
    BY <2>1
  <2>2. CASE FromCtl(datagram)
    BY <1>1, <1>2, <2>2 DEF FromCtl, Quiet
  <2>. QED BY <2>1, <2>2 DEF Quiet, IInv, Requests
<1>5. Kept'
  BY <1>1 DEF Kept, IInv, Quiet
<1>6. Answers'
  BY <1>2 DEF Answers, IInv, Quiet
<1>7. AnswersOwnRequest'
  <2>1. Ctls' \subseteq Ctls
    BY DEF Ctls, Quiet, FromOther
  <2>2. /\ IsFiniteSet(Ctls) /\ Cardinality(Ctls) \in Nat
        /\ Cardinality(Ctls') <= Cardinality(Ctls)
    BY <2>1, CtlsFinite, FS_Subset DEF IInv, Typed
  <2>3. Cardinality(Ctls') \in Nat
    BY <2>1, <2>2, FS_Subset, FS_CardinalityType
  <2>4. Len(replies["ctl"]) \in Nat
    BY LenProperties DEF IInv, Typed
  <2>5. /\ OnTheirWay = Cardinality(Ctls) + Len(replies["ctl"])
        /\ OnTheirWay' = Cardinality(Ctls') + Len(replies["ctl"])
    BY DEF OnTheirWay, Ctls, Quiet
  <2>6. OnTheirWay \in Nat /\ OnTheirWay' \in Nat /\ OnTheirWay' <= OnTheirWay
    BY <2>2, <2>3, <2>4, <2>5
  <2>7. failed <= failed' /\ ctl' = ctl
    BY DEF Quiet
  <2>8. OnTheirWay' <= failed' + IF ctl'.waiting THEN 1 ELSE 0
    <3> DEFINE bound == IF ctl.waiting THEN 1 ELSE 0
    <3>1. bound \in Nat
      OBVIOUS
    <3>2. OnTheirWay <= failed + bound
      BY DEF IInv, AnswersOwnRequest
    <3> HIDE DEF bound
    <3>3. OnTheirWay' <= failed' + bound
      <4>1. \A a, b, c, d, e \in Nat : a <= b /\ b <= c + e /\ c <= d => a <= d + e
        OBVIOUS
      <4>. QED BY <1>2, <2>6, <2>7, <3>1, <3>2, <4>1
    <3>. QED BY <2>7, <3>3 DEF bound
  <2>. QED BY <1>2, <2>7, <2>8 DEF IInv, AnswersOwnRequest
<1>. QED BY <1>3, <1>4, <1>5, <1>6, <1>7 DEF IInv

\* A reply that is added takes the place of its request, or of a recvfrom() that failed
LEMMA RepliedOK ==
  ASSUME IInv, NEW id \in Nat, NEW status \in Nat, NEW value \in Nat, Replied(id, status, value),
         metrics' \in [Counters -> Nat], settings' \in SettingsType
  PROVE  IInv'
<1> DEFINE q == replies["ctl"]
<1> DEFINE r == Reply(id, status, value)
<1>1. q \in Seq(Replies) /\ r \in Replies /\ Len(q) \in Nat
  BY LenProperties DEF IInv, Typed, Replies
<1> HIDE DEF q, r
<1>2. /\ Append(q, r) \in Seq(Replies) /\ Len(Append(q, r)) = Len(q) + 1
      /\ \A i \in 1 .. Len(q) : Append(q, r)[i] = q[i]
      /\ Append(q, r)[Len(q) + 1] = r
  BY <1>1, AppendProperties
<1>3. replies'["ctl"] = Append(q, r) /\ r.id = id
  BY DEF Replied, q, r, Reply
<1>4. \A i, request : Own(i, request) => Own(i, request)'
  BY OwnKept DEF Replied
<1>5. failed \in Nat /\ failed' \in Nat /\ (failed' = 0 => failed = 0) /\ ctl' = ctl
  BY DEF IInv, Typed, Replied
<1>6. IsFiniteSet(inbound')
  BY FS_Subset DEF IInv, Typed, Replied
<1>7. Typed'
  BY <1>2, <1>3, <1>5, <1>6 DEF IInv, Typed, Replied
<1>8. Requests'
  <2> SUFFICES ASSUME NEW datagram \in inbound'
               PROVE  FromOther(datagram) \/ FromCtl(datagram)'
    BY DEF Requests, FromOther
  <2>1. FromOther(datagram) \/ FromCtl(datagram)
    BY DEF IInv, Requests, Replied
  <2>. QED BY <1>4, <1>5, <2>1 DEF FromCtl
<1>9. Kept'
  BY <1>4 DEF Kept, Replied
<1>10. id \in 1 .. ctl.id /\ (failed' = 0 => id = ctl.id)
  BY DEF Replied, Own
<1>11. Answers'
  <2> SUFFICES ASSUME NEW i \in 1 .. Len(q) + 1
               PROVE  /\ Append(q, r)[i].id \in 1 .. ctl.id
                      /\ failed' = 0 => Append(q, r)[i].id = ctl.id
    BY <1>2, <1>3, <1>5 DEF Answers
  <2>1. CASE i = Len(q) + 1
    BY <1>2, <1>3, <1>10, <2>1
  <2>2. CASE i \in 1 .. Len(q)
    BY <1>2, <1>5, <2>2 DEF IInv, Answers, q
  <2>. QED BY <1>1, <2>1, <2>2
<1>12. AnswersOwnRequest'
  <2>1. Cardinality(Ctls) \in Nat
    BY CtlsFinite DEF IInv, Typed
  <2>2. Cardinality(Ctls') \in Nat
    <3>1. Ctls' \in SUBSET inbound'
      BY DEF Ctls
    <3>. QED BY <1>6, <3>1, FS_Subset, FS_CardinalityType
  <2>3. OnTheirWay = Cardinality(Ctls) + Len(q) /\ OnTheirWay' = Cardinality(Ctls') + (Len(q) + 1)
    BY <1>2, <1>3 DEF OnTheirWay, Ctls, q
  <2>4. Cardinality(Ctls') + failed + 1 <= Cardinality(Ctls) + failed'
    BY DEF Replied
  <2>5. CASE ctl.waiting
    <3>1. OnTheirWay <= failed + 1
      BY <2>5 DEF IInv, AnswersOwnRequest
    <3>2. OnTheirWay' <= failed' + 1
      BY <1>1, <1>5, <2>1, <2>2, <2>3, <2>4, <3>1
    <3>. QED BY <1>5, <2>5, <3>2 DEF AnswersOwnRequest
  <2>6. CASE ~ctl.waiting
    <3>1. OnTheirWay <= failed + 0 /\ (ctl.id > 0 => ctl.answer.id \in 1 .. ctl.id)
          /\ (failed = 0 /\ ctl.id > 0 => ctl.answer.id = ctl.id)
      BY <2>6 DEF IInv, AnswersOwnRequest
    <3>2. OnTheirWay' <= failed' + 0
      BY <1>1, <1>5, <2>1, <2>2, <2>3, <2>4, <3>1
    <3>. QED BY <1>5, <2>6, <3>1, <3>2 DEF AnswersOwnRequest
  <2>. QED BY <2>5, <2>6
<1>. QED BY <1>7, <1>8, <1>9, <1>11, <1>12 DEF IInv

\* A new request starts with as little on its way as httpdctl has been put behind
LEMMA AskingOK ==
  ASSUME IInv, Asking, metrics' = metrics, settings' = settings
  PROVE  IInv'
<1>1. PICK datagram :
        /\ inbound' = inbound \union {datagram}
        /\ datagram.from = "ctl" /\ datagram.length = Whole /\ datagram.id = ctl'.id
        /\ Carries(datagram.request, ctl'.option, ctl'.typed)
  BY DEF Asking
<1>2. /\ ~ctl.waiting /\ ctl'.waiting /\ ctl'.id = ctl.id + 1
      /\ replies' = replies /\ failed' = failed /\ last' = last /\ memory' = memory
      /\ ctl' \in CtlType /\ ctl.id \in Nat /\ failed \in Nat
  BY DEF Asking, IInv, Typed, CtlType
<1>3. Typed'
  BY <1>1, <1>2, FS_AddElement DEF IInv, Typed
<1>4. /\ Cardinality(Ctls) \in Nat /\ Len(replies["ctl"]) \in Nat
      /\ OnTheirWay = Cardinality(Ctls) + Len(replies["ctl"])
  BY CtlsFinite, LenProperties DEF IInv, Typed, OnTheirWay, Ctls
<1>5. OnTheirWay <= failed
  BY <1>2, <1>4 DEF IInv, AnswersOwnRequest
<1>6. failed = 0 => Ctls = {} /\ Len(replies["ctl"]) = 0
  <2>1. failed = 0 => Cardinality(Ctls) = 0 /\ Len(replies["ctl"]) = 0
    BY <1>4, <1>5
  <2>. QED BY <2>1, CtlsFinite, FS_EmptySet DEF IInv, Typed
<1>7. \A id, request : Own(id, request) => id # ctl'.id /\ Own(id, request)'
  BY <1>2 DEF Own, Carries, Value
<1>8. Requests'
  <2> SUFFICES ASSUME NEW d \in inbound'
               PROVE  FromOther(d) \/ FromCtl(d)'
    BY DEF Requests, FromOther
  <2>1. CASE d = datagram
    <3>1. ctl'.option \in Asked /\ ctl'.typed \in Nat /\ ctl'.id \in 1 .. ctl'.id
      BY <1>2 DEF CtlType
    <3>2. Own(datagram.id, datagram.request)'
      BY <1>1, <3>1 DEF Own, Carries, Value
    <3>. QED BY <1>1, <2>1, <3>2 DEF FromCtl
  <2>2. CASE d \in inbound
    <3>1. CASE FromCtl(d)
      <4>1. d \in Ctls
        BY <2>2, <3>1 DEF Ctls, FromCtl
      <4>. QED BY <1>2, <1>6, <1>7, <3>1, <4>1 DEF FromCtl
    <3>. QED BY <2>2, <3>1 DEF IInv, Requests
  <2>. QED BY <1>1, <2>1, <2>2
<1>9. Kept'
  BY <1>2, <1>7 DEF IInv, Kept
<1>10. Answers'
  BY <1>2, <1>6 DEF IInv, Answers
<1>11. AnswersOwnRequest'
  <2>1. Ctls' = Ctls \union {datagram}
    BY <1>1 DEF Ctls
  <2>2. /\ Cardinality(Ctls') \in Nat
        /\ Cardinality(Ctls') <= Cardinality(Ctls) + 1
    <3>1. /\ IsFiniteSet(Ctls')
          /\ Cardinality(Ctls') =
               IF datagram \in Ctls THEN Cardinality(Ctls) ELSE Cardinality(Ctls) + 1
      BY <2>1, CtlsFinite, FS_AddElement DEF IInv, Typed
    <3>. QED BY <1>4, <3>1
  <2>3. OnTheirWay' = Cardinality(Ctls') + Len(replies["ctl"])
    BY <1>2 DEF OnTheirWay, Ctls
  <2>4. OnTheirWay' <= failed' + 1
    BY <1>2, <1>4, <1>5, <2>2, <2>3
  <2>. QED BY <1>2, <2>4 DEF AnswersOwnRequest
<1>. QED BY <1>3, <1>8, <1>9, <1>10, <1>11 DEF IInv

\* The replies that are left, one place further up
LEMMA TailIs ==
  ASSUME IInv, Taken
  PROVE  LET q == replies["ctl"] IN
         /\ Len(q) \in Nat \ {0} /\ q[1] \in Replies
         /\ replies'["ctl"] \in Seq(Replies) /\ Len(replies'["ctl"]) = Len(q) - 1
         /\ \A i \in 1 .. Len(replies'["ctl"]) :
              i + 1 \in 1 .. Len(q) /\ replies'["ctl"][i] = q[i + 1]
<1> DEFINE q == replies["ctl"]
<1>1. q \in Seq(Replies) /\ q # <<>> /\ replies'["ctl"] = Tail(q)
  BY DEF IInv, Typed, Taken
<1> HIDE DEF q
<1>2. Len(q) \in Nat /\ Len(q) # 0 /\ q \in [1 .. Len(q) -> Replies]
  BY <1>1, LenProperties, EmptySeq
<1>3. /\ Tail(q) \in Seq(Replies) /\ Len(Tail(q)) = Len(q) - 1
      /\ \A i \in 1 .. Len(Tail(q)) : Tail(q)[i] = q[i + 1]
  BY <1>1, HeadTailProperties
<1>4. \A i \in 1 .. Len(q) - 1 : i + 1 \in 1 .. Len(q)
  BY <1>2
<1>. QED BY <1>1, <1>2, <1>3, <1>4 DEF q

\* A reply that is shown or lost leaves one less
LEMMA TakenOK ==
  ASSUME IInv, metrics' = metrics, settings' = settings,
         Lost \/ \E id, status, value \in Nat : Shown(id, status, value)
  PROVE  IInv'
<1> DEFINE q == replies["ctl"]
<1>1. Taken
  BY DEF Lost, Shown
<1>2. /\ Len(q) \in Nat \ {0} /\ q[1] \in Replies
      /\ replies'["ctl"] \in Seq(Replies) /\ Len(replies'["ctl"]) = Len(q) - 1
      /\ \A i \in 1 .. Len(replies'["ctl"]) :
           i + 1 \in 1 .. Len(q) /\ replies'["ctl"][i] = q[i + 1]
  BY <1>1, TailIs
<1>3. /\ ctl' \in CtlType /\ ctl'.id = ctl.id /\ ctl'.option = ctl.option /\ ctl'.typed = ctl.typed
  BY DEF Lost, Shown, IInv, Typed
<1>4. /\ inbound' = inbound /\ failed' = failed /\ last' = last /\ memory' = memory
      /\ failed \in Nat /\ DOMAIN replies' = Programs
  BY <1>1 DEF Taken, IInv, Typed
<1>5. \A id, request : Own(id, request) => Own(id, request)'
  BY <1>3, OwnKept
<1>6. Typed'
  BY <1>2, <1>3, <1>4 DEF IInv, Typed
<1>7. Requests'
  <2> SUFFICES ASSUME NEW d \in inbound
               PROVE  FromOther(d) \/ FromCtl(d)'
    BY <1>4 DEF Requests, FromOther
  <2>. QED BY <1>3, <1>4, <1>5 DEF IInv, Requests, FromCtl
<1>8. Kept'
  BY <1>4, <1>5 DEF IInv, Kept
<1>9. Answers'
  BY <1>2, <1>3, <1>4 DEF IInv, Answers
<1>10. AnswersOwnRequest'
  <2>1. /\ Cardinality(Ctls) \in Nat /\ OnTheirWay = Cardinality(Ctls) + Len(q)
        /\ OnTheirWay' = Cardinality(Ctls) + (Len(q) - 1)
    BY <1>2, <1>4, CtlsFinite DEF IInv, Typed, OnTheirWay, Ctls
  <2>2. CASE Lost
    <3>1. ctl' = ctl
      BY <2>2 DEF Lost
    <3>2. CASE ctl.waiting
      <4>1. OnTheirWay <= failed + 1
        BY <3>2 DEF IInv, AnswersOwnRequest
      <4>2. OnTheirWay' <= failed' + 1
        BY <1>2, <1>4, <2>1, <4>1
      <4>. QED BY <3>1, <3>2, <4>2 DEF AnswersOwnRequest
    <3>3. CASE ~ctl.waiting
      <4>1. OnTheirWay <= failed + 0 /\ (ctl.id > 0 => ctl.answer.id \in 1 .. ctl.id)
            /\ (failed = 0 /\ ctl.id > 0 => ctl.answer.id = ctl.id)
        BY <3>3 DEF IInv, AnswersOwnRequest
      <4>2. OnTheirWay' <= failed' + 0
        BY <1>2, <1>4, <2>1, <4>1
      <4>. QED BY <1>4, <3>1, <3>3, <4>1, <4>2 DEF AnswersOwnRequest
    <3>. QED BY <3>2, <3>3
  <2>3. CASE \E id, status, value \in Nat : Shown(id, status, value)
    <3>1. PICK id \in Nat, status \in Nat, value \in Nat : Shown(id, status, value)
      BY <2>3
    <3>2. q[1].id = id /\ ctl'.answer.id = id /\ ctl.waiting /\ ~ctl'.waiting
      BY <3>1 DEF Shown, Reply
    <3>3. 1 \in 1 .. Len(q)
      BY <1>2
    <3>4. id \in 1 .. ctl.id /\ (failed = 0 => id = ctl.id)
      BY <3>2, <3>3 DEF IInv, Answers
    <3>5. OnTheirWay <= failed + 1
      BY <3>2 DEF IInv, AnswersOwnRequest
    <3>6. OnTheirWay' <= failed' + 0
      BY <1>2, <1>4, <2>1, <3>5
    <3>. QED BY <1>3, <1>4, <3>2, <3>4, <3>6 DEF AnswersOwnRequest
  <2>. QED BY <2>2, <2>3
<1>. QED BY <1>6, <1>7, <1>8, <1>9, <1>10 DEF IInv

-----------------------------------------------------------------------------
(* What the actions do to the exchange *)

\* What the service sends to httpdctl for a request of its own
Truly(id, value) ==
  id = ctl.id /\ ctl.option.type = Retrieval => value = Retrieve(ctl.option.method)

\* One reply, which says what there is
LEMMA ServeOwn ==
  ASSUME IInv, NEW id, NEW request, Own(id, request)
  PROVE  LET effect == Serve(request) IN
         /\ \E status \in Nat : effect.statuses = <<status>>
         /\ effect.value \in Nat /\ Truly(id, effect.value)
<1>1. metrics \in [Counters -> Nat] /\ settings \in SettingsType /\ ctl.option \in Asked
  BY DEF IInv, Typed, CtlType
<1>2. PICK option \in Asked, typed \in Nat : Carries(request, option, typed)
  BY DEF Own
<1>3. id = ctl.id => ctl.option.type = option.type /\ ctl.option.method = option.method
  BY <1>2 DEF Own, Carries
<1>. QED BY <1>1, <1>2, <1>3, ServeOne DEF Truly

\* management_read answers another client, and httpdctl sees nothing of it, or it answers
\* httpdctl
LEMMA ReadIs ==
  ASSUME IInv, management_read
  PROVE  /\ metrics' = metrics /\ settings' \in SettingsType /\ failed' = failed
         /\ \E datagram \in inbound :
              /\ settings' = Serve(Received(datagram)).settings
              /\ \/ Quiet /\ FromOther(datagram)
                 \/ \E status, value \in Nat :
                      /\ FromCtl(datagram) /\ Own(datagram.id, Received(datagram))
                      /\ Replied(datagram.id, status, value) /\ Truly(datagram.id, value)
                      /\ Serve(Received(datagram)).statuses = <<status>>
<1>1. PICK datagram \in inbound :
        LET effect == Serve(Received(datagram)) IN
        /\ inbound' = inbound \ {datagram}
        /\ memory' = Received(datagram)
        /\ last' = [from |-> datagram.from, id |-> datagram.id]
        /\ settings' = effect.settings
        /\ replies' = [replies EXCEPT ![datagram.from] = @ \o Sent(datagram.id, effect)]
        /\ metrics' = metrics /\ failed' = failed /\ ctl' = ctl
  BY DEF management_read
<1> DEFINE request == Received(datagram)
<1> DEFINE effect == Serve(request)
<1>2. settings' \in SettingsType
  BY <1>1, ServeTyped DEF IInv, Typed
<1>3. DOMAIN replies = Programs /\ failed \in Nat /\ replies["ctl"] \in Seq(Replies)
  BY DEF IInv, Typed
<1>4. IsFiniteSet(inbound')
  BY <1>1, FS_RemoveElement DEF IInv, Typed
<1>5. CASE FromOther(datagram)
  <2>1. DOMAIN replies' = Programs /\ replies'["ctl"] = replies["ctl"] /\ last'.from # "ctl"
    BY <1>1, <1>3, <1>5 DEF FromOther
  <2>2. Quiet
    BY <1>1, <1>3, <1>4, <2>1 DEF Quiet
  <2>. QED BY <1>1, <1>2, <1>5, <2>2
<1>6. CASE FromCtl(datagram)
  <2>1. datagram.from = "ctl" /\ datagram.length = Whole /\ Own(datagram.id, datagram.request)
        /\ (failed = 0 => datagram.id = ctl.id)
    BY <1>6 DEF FromCtl
  <2>2. Own(datagram.id, request)
    BY <2>1, ReceivedCarries DEF Own
  <2> HIDE DEF request
  <2>3. PICK status \in Nat : effect.statuses = <<status>>
    BY <2>2, ServeOwn
  <2>4. effect.value \in Nat /\ Truly(datagram.id, effect.value)
    BY <2>2, ServeOwn
  <2>5. datagram.id \in Nat
    BY <2>1 DEF Own, IInv, Typed, CtlType
  <2> HIDE DEF effect
  <2>6. replies["ctl"] \o Sent(datagram.id, effect)
          = Append(replies["ctl"], Reply(datagram.id, status, effect.value))
    <3> DEFINE s == replies["ctl"]
    <3>1. s \in Seq(Replies)
      BY <1>3
    <3> HIDE DEF s
    <3>2. s \o Sent(datagram.id, effect) = Append(s, Reply(datagram.id, status, effect.value))
      BY <2>3, <2>4, <2>5, <3>1, OneSent
    <3>. QED BY <3>2 DEF s
  <2>7. /\ DOMAIN replies' = Programs
        /\ replies'["ctl"] = Append(replies["ctl"], Reply(datagram.id, status, effect.value))
    <3>1. replies' = [replies EXCEPT !["ctl"] = @ \o Sent(datagram.id, effect)]
      BY <1>1, <2>1 DEF effect, request
    <3>2. DOMAIN replies' = Programs
          /\ replies'["ctl"] = replies["ctl"] \o Sent(datagram.id, effect)
      BY <1>3, <3>1 DEF Programs
    <3>. QED BY <2>6, <3>2
  <2>8. Cardinality(Ctls') + failed + 1 <= Cardinality(Ctls) + failed'
    <3>1. Ctls' = Ctls \ {datagram} /\ datagram \in Ctls
      BY <1>1, <2>1 DEF Ctls
    <3>2. IsFiniteSet(Ctls) /\ Cardinality(Ctls) \in Nat
      BY CtlsFinite DEF IInv, Typed
    <3>3. Cardinality(Ctls') = Cardinality(Ctls) - 1
      BY <3>1, <3>2, FS_RemoveElement
    <3>. QED BY <1>1, <1>3, <3>2, <3>3
  <2>9. Replied(datagram.id, status, effect.value)
    BY <1>1, <1>3, <2>1, <2>2, <2>7, <2>8 DEF Replied, request
  <2>. QED BY <1>1, <1>2, <1>6, <2>2, <2>3, <2>4, <2>9 DEF effect, request
<1>. QED BY <1>5, <1>6 DEF IInv, Requests

\* After a recvfrom() that fails, it answers one of httpdctl's requests again, or httpdctl
\* sees nothing of it
LEMMA AgainIs ==
  ASSUME IInv, ServesAgain
  PROVE  /\ metrics' = metrics /\ settings' \in SettingsType /\ failed' = failed + 1
         /\ \/ Quiet
            \/ \E id, status, value \in Nat : Replied(id, status, value) /\ Truly(id, value)
<1> DEFINE effect == Serve(memory)
<1>1. /\ inbound' = inbound /\ memory' = memory /\ last' = last /\ settings' = effect.settings
      /\ metrics' = metrics /\ failed' = failed + 1 /\ ctl' = ctl
      /\ \/ replies' = [replies EXCEPT ![last.from] = @ \o Sent(last.id, effect)]
         \/ replies' = replies
  BY DEF ServesAgain
<1>2. settings' \in SettingsType
  BY <1>1, ServeTyped DEF IInv, Typed
<1>3. /\ DOMAIN replies = Programs /\ failed \in Nat /\ replies["ctl"] \in Seq(Replies)
      /\ IsFiniteSet(inbound)
  BY DEF IInv, Typed
<1>4. CASE replies' = replies
  <2>1. Quiet
    BY <1>1, <1>3, <1>4 DEF Quiet
  <2>. QED BY <1>1, <1>2, <2>1
<1>5. CASE last.from # "ctl" /\ replies' = [replies EXCEPT ![last.from] = @ \o Sent(last.id, effect)]
  <2> HIDE DEF effect
  <2>1. DOMAIN replies' = Programs /\ replies'["ctl"] = replies["ctl"]
    BY <1>3, <1>5 DEF Programs
  <2>2. Quiet
    BY <1>1, <1>3, <2>1 DEF Quiet
  <2>. QED BY <1>1, <1>2, <2>2
<1>6. CASE last.from = "ctl" /\ replies' = [replies EXCEPT ![last.from] = @ \o Sent(last.id, effect)]
  <2>1. Own(last.id, memory)
    BY <1>6 DEF IInv, Kept
  <2>2. PICK status \in Nat : effect.statuses = <<status>>
    BY <2>1, ServeOwn
  <2>3. effect.value \in Nat /\ Truly(last.id, effect.value)
    BY <2>1, ServeOwn
  <2>4. last.id \in Nat
    BY <2>1 DEF Own, IInv, Typed, CtlType
  <2> HIDE DEF effect
  <2>5. replies["ctl"] \o Sent(last.id, effect)
          = Append(replies["ctl"], Reply(last.id, status, effect.value))
    <3> DEFINE s == replies["ctl"]
    <3>1. s \in Seq(Replies)
      BY <1>3
    <3> HIDE DEF s
    <3>2. s \o Sent(last.id, effect) = Append(s, Reply(last.id, status, effect.value))
      BY <2>2, <2>3, <2>4, <3>1, OneSent
    <3>. QED BY <3>2 DEF s
  <2>6. DOMAIN replies' = Programs /\ replies'["ctl"] = replies["ctl"] \o Sent(last.id, effect)
    BY <1>3, <1>6 DEF Programs
  <2>7. Ctls' = Ctls /\ Cardinality(Ctls) \in Nat
    BY <1>1, <1>3, CtlsFinite DEF Ctls
  <2>8. Cardinality(Ctls') + failed + 1 <= Cardinality(Ctls) + failed'
    BY <1>1, <1>3, <2>7
  <2>9. Replied(last.id, status, effect.value)
    BY <1>1, <1>3, <1>6, <2>1, <2>5, <2>6, <2>8 DEF Replied
  <2>. QED BY <1>1, <1>2, <2>2, <2>3, <2>4, <2>9
<1>. QED BY <1>1, <1>4, <1>5, <1>6

\* A request of httpdctl carries what its user picked and typed
LEMMA AsksIs ==
  ASSUME IInv, CtlAsks
  PROVE  Asking /\ metrics' = metrics /\ settings' = settings
<1>1. PICK option \in Options :
        \E typed \in IF option.type = Modification THEN Entered ELSE {0} :
          /\ ctl' = [waiting |-> TRUE, id |-> ctl.id + 1, option |-> option, typed |-> typed,
                     answer |-> [id |-> 0, status |-> 0, value |-> 0]]
          /\ inbound' = inbound \union
               {[from |-> "ctl", id |-> ctl.id + 1, length |-> Whole,
                 request |-> BuiltRequest(option, typed)]}
  BY DEF CtlAsks
<1>2. PICK typed \in IF option.type = Modification THEN Entered ELSE {0} :
          /\ ctl' = [waiting |-> TRUE, id |-> ctl.id + 1, option |-> option, typed |-> typed,
                     answer |-> [id |-> 0, status |-> 0, value |-> 0]]
          /\ inbound' = inbound \union
               {[from |-> "ctl", id |-> ctl.id + 1, length |-> Whole,
                 request |-> BuiltRequest(option, typed)]}
  BY <1>1
<1>3. option \in Asked /\ typed \in Nat
  BY ManagementAssumption DEF Asked
<1>4. ctl.id \in Nat
  BY DEF IInv, Typed, CtlType
<1>5. ctl' \in CtlType
  BY <1>2, <1>3, <1>4 DEF CtlType
<1>6. Carries(BuiltRequest(option, typed), ctl'.option, ctl'.typed)
  BY <1>2, <1>3, BuiltCarries
<1>7. /\ ~ctl.waiting /\ replies' = replies /\ metrics' = metrics
      /\ settings' = settings /\ memory' = memory /\ last' = last /\ failed' = failed
  BY DEF CtlAsks, service
<1> DEFINE datagram == [from |-> "ctl", id |-> ctl.id + 1, length |-> Whole,
                        request |-> BuiltRequest(option, typed)]
<1>8. /\ inbound' = inbound \union {datagram}
      /\ datagram.from = "ctl" /\ datagram.length = Whole /\ datagram.id = ctl'.id
      /\ Carries(datagram.request, ctl'.option, ctl'.typed)
  BY <1>2, <1>6
<1> HIDE DEF datagram
<1>. QED BY <1>2, <1>5, <1>7, <1>8 DEF Asking

\* What httpdctl shows are the status and the value that the service wrote
LEMMA ReceivesIs ==
  ASSUME IInv, CtlReceives
  PROVE  /\ metrics' = metrics /\ settings' = settings /\ seen' = seen
         /\ \E id, status, value \in Nat : Shown(id, status, value)
<1> DEFINE q == replies["ctl"]
<1> DEFINE shown == parse_answer(Head(q).octets)
<1>1. /\ ctl.waiting /\ q # <<>>
      /\ ctl' = [ctl EXCEPT !.waiting = FALSE,
                   !.answer = [id |-> Head(q).id, status |-> shown.status, value |-> shown.value]]
      /\ replies' = [replies EXCEPT !["ctl"] = Tail(@)]
      /\ settings' = settings /\ metrics' = metrics /\ inbound' = inbound
      /\ memory' = memory /\ last' = last /\ failed' = failed /\ seen' = seen
  BY DEF CtlReceives, service
<1>2. /\ ctl \in CtlType /\ DOMAIN replies = Programs /\ "ctl" \in Programs /\ q \in Seq(Replies)
  BY DEF IInv, Typed, Programs
<1>3. DOMAIN replies' = Programs /\ replies'["ctl"] = Tail(q)
  BY <1>1, <1>2
<1>4. Taken
  BY <1>1, <1>3 DEF Taken
<1>5. q[1] \in Replies
  BY <1>4, TailIs
<1>6. PICK id \in Nat, status \in Nat, value \in Nat : q[1] = Reply(id, status, value)
  BY <1>5 DEF Replies
<1>7. Head(q) = q[1]
  OBVIOUS
<1>8. Head(q).id = id /\ shown.status = status /\ shown.value = value
  BY <1>6, <1>7, RoundTrip DEF Reply
<1> HIDE DEF shown, q
<1>9. ctl' = [ctl EXCEPT !.waiting = FALSE,
                !.answer = [id |-> id, status |-> status, value |-> value]]
  BY <1>1, <1>8
<1>10. /\ ctl' \in CtlType /\ ~ctl'.waiting
       /\ ctl'.id = ctl.id /\ ctl'.option = ctl.option /\ ctl'.typed = ctl.typed
       /\ ctl'.answer = [id |-> id, status |-> status, value |-> value]
  BY <1>2, <1>9 DEF CtlType
<1>11. Shown(id, status, value)
  BY <1>1, <1>4, <1>6, <1>10 DEF Shown, q
<1>. QED BY <1>1, <1>11

\* What gets lost is a reply to httpdctl, or something else
LEMMA LoseIs ==
  ASSUME IInv, Lose
  PROVE  /\ metrics' = metrics /\ settings' = settings /\ seen' = seen
         /\ Quiet \/ Lost
<1>1. /\ ctl' = ctl /\ metrics' = metrics /\ settings' = settings /\ seen' = seen
      /\ memory' = memory /\ last' = last /\ failed' = failed
      /\ DOMAIN replies = Programs /\ failed \in Nat /\ IsFiniteSet(inbound)
  BY DEF Lose, service, IInv, Typed
<1>2. CASE \E datagram \in inbound : inbound' = inbound \ {datagram} /\ UNCHANGED replies
  <2>1. IsFiniteSet(inbound')
    BY <1>1, <1>2, FS_RemoveElement
  <2>. QED BY <1>1, <1>2, <2>1 DEF Quiet
<1>3. ASSUME NEW client \in Programs, replies[client] # <<>>, inbound' = inbound,
             replies' = [replies EXCEPT ![client] = Tail(@)]
      PROVE  Quiet \/ Lost
  <2>1. CASE client = "other"
    BY <1>1, <1>3, <2>1 DEF Quiet, Programs
  <2>2. CASE client = "ctl"
    <3>1. DOMAIN replies' = Programs /\ replies'["ctl"] = Tail(replies["ctl"])
      BY <1>1, <1>3, <2>2
    <3>. QED BY <1>1, <1>3, <2>2, <3>1 DEF Lost, Taken
  <2>. QED BY <2>1, <2>2 DEF Programs
<1>. QED BY <1>1, <1>2, <1>3 DEF Lose, Programs

\* The connections of the proxy change its counters
LEMMA CountsAre ==
  ASSUME IInv, \/ register_new_connection \/ unregister_connection
               \/ \E method \in Counted : Count(method)
  PROVE  Quiet /\ metrics' \in [Counters -> Nat] /\ settings' = settings /\ Watched
<1>1. metrics \in [Counters -> Nat] /\ {0, 1} \subseteq Counters /\ Counted \subseteq Counters
  BY ManagementAssumption DEF IInv, Typed, Counters
<1>2. \A n \in Nat : Raised(n) \in Nat
  BY DEF Raised
<1>3. ASSUME NEW counters, Counts(counters)
      PROVE  Quiet /\ metrics' = counters /\ settings' = settings /\ Watched
  BY <1>3 DEF Counts, service, Quiet, IInv, Typed
<1>4. CASE register_new_connection
  <2> DEFINE counters == [metrics EXCEPT ![0] = Raised(@), ![1] = Raised(@)]
  <2>1. counters \in [Counters -> Nat]
    BY <1>1, <1>2
  <2>2. Counts(counters)
    BY <1>4 DEF register_new_connection
  <2> HIDE DEF counters
  <2>. QED BY <1>3, <2>1, <2>2
<1>5. CASE unregister_connection
  <2> DEFINE counters == [metrics EXCEPT ![1] = IF @ > 0 THEN @ - 1 ELSE @]
  <2>1. counters \in [Counters -> Nat]
    BY <1>1
  <2>2. Counts(counters)
    BY <1>5 DEF unregister_connection
  <2> HIDE DEF counters
  <2>. QED BY <1>3, <2>1, <2>2
<1>6. ASSUME NEW method \in Counted, Count(method)
      PROVE  Quiet /\ metrics' \in [Counters -> Nat] /\ settings' = settings /\ Watched
  <2> DEFINE counters == [metrics EXCEPT ![method] = Raised(@)]
  <2>1. counters \in [Counters -> Nat]
    BY <1>1, <1>2
  <2>2. Counts(counters)
    BY <1>6 DEF Count
  <2> HIDE DEF counters
  <2>. QED BY <1>3, <2>1, <2>2
<1>. QED BY <1>4, <1>5, <1>6

\* Other clients send and receive nothing of the exchange
LEMMA OthersAre ==
  ASSUME IInv, OtherSends \/ OtherReceives
  PROVE  Quiet /\ metrics' = metrics /\ settings' = settings /\ seen' = seen
<1>1. failed \in Nat /\ IsFiniteSet(inbound) /\ DOMAIN replies = Programs
  BY DEF IInv, Typed
<1>2. CASE OtherSends
  <2>1. PICK request \in OtherRequests, length \in Lengths :
          inbound' = inbound \union
            {[from |-> "other", id |-> others + 1, length |-> length, request |-> request]}
    BY <1>2 DEF OtherSends
  <2>2. IsFiniteSet(inbound')
    BY <1>1, <2>1, FS_AddElement
  <2>3. \A datagram \in inbound' : datagram \in inbound \/ FromOther(datagram)
    BY <2>1 DEF FromOther
  <2>. QED BY <1>1, <1>2, <2>2, <2>3 DEF OtherSends, service, Quiet
<1>3. CASE OtherReceives
  BY <1>1, <1>3 DEF OtherReceives, service, Quiet, Programs
<1>. QED BY <1>2, <1>3

\* Nothing happens
LEMMA StutterIs ==
  ASSUME IInv, UNCHANGED vars
  PROVE  Quiet /\ metrics' = metrics /\ settings' = settings /\ seen' = seen
BY DEF vars, Quiet, IInv, Typed

\* Every step keeps the inductive invariant
LEMMA NextOK ==
  ASSUME IInv, [Next]_vars
  PROVE  IInv'
<1>1. metrics \in [Counters -> Nat] /\ settings \in SettingsType /\ ctl.id \in Nat
  BY DEF IInv, Typed, CtlType
<1>2. CASE management_read
  <2>1. metrics' \in [Counters -> Nat] /\ settings' \in SettingsType
    BY <1>1, <1>2, ReadIs
  <2>2. \A id, request : Own(id, request) => id \in Nat
    BY <1>1 DEF Own
  <2>. QED BY <1>2, <2>1, <2>2, ReadIs, QuietOK, RepliedOK
<1>3. CASE ServesAgain
  BY <1>1, <1>3, AgainIs, QuietOK, RepliedOK
<1>4. CASE register_new_connection \/ unregister_connection \/ \E method \in Counted : Count(method)
  BY <1>1, <1>4, CountsAre, QuietOK
<1>5. CASE CtlAsks
  BY <1>5, AsksIs, AskingOK
<1>6. CASE CtlReceives
  BY <1>6, ReceivesIs, TakenOK
<1>7. CASE OtherSends \/ OtherReceives
  BY <1>1, <1>7, OthersAre, QuietOK
<1>8. CASE Lose
  BY <1>1, <1>8, LoseIs, QuietOK, TakenOK
<1>9. CASE UNCHANGED vars
  BY <1>1, <1>9, StutterIs, QuietOK
<1>. QED BY <1>2, <1>3, <1>4, <1>5, <1>6, <1>7, <1>8, <1>9 DEF Next

\* At the start nobody has asked
LEMMA InitOK ==
  ASSUME Init
  PROVE  IInv
<1>1. metrics \in [Counters -> Nat] /\ settings \in SettingsType /\ ctl \in CtlType
  BY DEF Init, CtlType, SettingsType, Counters, Asked
<1>2. /\ inbound = {} /\ failed = 0 /\ last.from = "nobody" /\ ctl.id = 0 /\ ~ctl.waiting
      /\ replies = [client \in Programs |-> <<>>]
  BY DEF Init, Programs
<1>3. replies["ctl"] = <<>> /\ DOMAIN replies = Programs /\ <<>> \in Seq(Replies) /\ Len(<<>>) = 0
  BY <1>2 DEF Programs
<1>4. Ctls = {} /\ IsFiniteSet(inbound)
  BY <1>2, FS_EmptySet DEF Ctls
<1>5. Typed /\ Requests /\ Kept /\ Answers
  <2>1. Typed
    BY <1>1, <1>2, <1>3, <1>4 DEF Typed
  <2>2. Requests /\ Kept
    BY <1>2 DEF Requests, Kept
  <2>3. Answers
    BY <1>3 DEF Answers
  <2>. QED BY <2>1, <2>2, <2>3
<1>6. OnTheirWay = 0
  <2>1. OnTheirWay = Cardinality(Ctls) + Len(replies["ctl"])
    BY DEF OnTheirWay, Ctls
  <2>. QED BY <1>3, <1>4, <2>1, FS_EmptySet
<1>7. AnswersOwnRequest
  BY <1>2, <1>6 DEF AnswersOwnRequest
<1>. QED BY <1>5, <1>7 DEF IInv

-----------------------------------------------------------------------------
(* How recent an answer is *)

\* What is on its way for the retrieval httpdctl has just asked for, or shown for it, has
\* been the value since
FInv ==
  /\ Retrieve(ctl.option.method) \in seen
  /\ ctl.option.type = Retrieval =>
       \A i \in 1 .. Len(replies["ctl"]) :
         replies["ctl"][i].id = ctl.id => parse_answer(replies["ctl"][i].octets).value \in seen
  /\ FreshRetrieval

\* seen keeps up
Seen == seen \subseteq seen' /\ Retrieve(ctl.option.method)' \in seen'

\* As long as httpdctl's request is the same
LEMMA WatchedSeen ==
  ASSUME Watched
  PROVE  Seen
BY DEF Watched, Seen

\* Nothing that can be retrieved changes
LEMMA UnchangedSeen ==
  ASSUME FInv, metrics' = metrics, settings' = settings, seen' = seen,
         ctl'.option = ctl.option
  PROVE  Seen
BY DEF FInv, Seen, Retrieve

LEMMA QuietF ==
  ASSUME FInv, Quiet, Seen
  PROVE  FInv'
BY DEF FInv, Quiet, Seen, FreshRetrieval, Answered

\* A reply says what there is when it is sent
LEMMA RepliedF ==
  ASSUME IInv, FInv, Seen, NEW id \in Nat, NEW status \in Nat, NEW value \in Nat,
         Replied(id, status, value), Truly(id, value)
  PROVE  FInv'
<1> DEFINE q == replies["ctl"]
<1> DEFINE r == Reply(id, status, value)
<1>1. q \in Seq(Replies) /\ r \in Replies /\ Len(q) \in Nat
  BY LenProperties DEF IInv, Typed, Replies
<1>2. r.id = id /\ parse_answer(r.octets).value = value
  BY RoundTrip DEF Reply
<1>3. replies'["ctl"] = Append(q, r) /\ ctl' = ctl
  BY DEF Replied
<1> HIDE DEF q, r
<1>4. /\ Len(Append(q, r)) = Len(q) + 1 /\ Append(q, r)[Len(q) + 1] = r
      /\ \A i \in 1 .. Len(q) : Append(q, r)[i] = q[i]
  BY <1>1, AppendProperties
<1>5. ASSUME ctl.option.type = Retrieval, NEW i \in 1 .. Len(q) + 1, Append(q, r)[i].id = ctl.id
      PROVE  parse_answer(Append(q, r)[i].octets).value \in seen'
  <2>1. CASE i = Len(q) + 1
    <3>1. value = Retrieve(ctl.option.method)
      BY <1>2, <1>4, <1>5, <2>1 DEF Truly
    <3>. QED BY <1>2, <1>4, <2>1, <3>1 DEF FInv, Seen
  <2>2. CASE i \in 1 .. Len(q)
    BY <1>4, <1>5, <2>2 DEF FInv, Seen, q
  <2>. QED BY <1>1, <2>1, <2>2
<1>6. FreshRetrieval'
  BY <1>3 DEF FInv, FreshRetrieval, Answered, Seen
<1>. QED BY <1>3, <1>4, <1>5, <1>6 DEF FInv, Seen

\* No reply to a new request is on its way
LEMMA AskingF ==
  ASSUME IInv, Asking, Retrieve(ctl.option.method)' \in seen'
  PROVE  FInv'
<1>1. ctl'.id = ctl.id + 1 /\ ctl.id \in Nat /\ replies' = replies /\ ctl'.waiting
  BY DEF Asking, IInv, Typed, CtlType
<1>2. \A i \in 1 .. Len(replies["ctl"]) : replies["ctl"][i].id # ctl'.id
  BY <1>1 DEF IInv, Answers
<1>. QED BY <1>1, <1>2 DEF FInv, FreshRetrieval, Answered

\* What is shown is what was on its way
LEMMA ShownF ==
  ASSUME IInv, FInv, metrics' = metrics, settings' = settings, seen' = seen,
         NEW id \in Nat, NEW status \in Nat, NEW value \in Nat, Shown(id, status, value)
  PROVE  FInv'
<1>1. /\ Taken /\ ctl'.id = ctl.id /\ ctl'.option = ctl.option
      /\ ctl'.answer = [id |-> id, status |-> status, value |-> value]
      /\ replies["ctl"][1] = Reply(id, status, value)
  BY DEF Shown
<1>2. /\ 1 \in 1 .. Len(replies["ctl"])
      /\ \A i \in 1 .. Len(replies'["ctl"]) :
           i + 1 \in 1 .. Len(replies["ctl"]) /\ replies'["ctl"][i] = replies["ctl"][i + 1]
  BY <1>1, TailIs
<1>3. replies["ctl"][1].id = id /\ parse_answer(replies["ctl"][1].octets).value = value
  BY <1>1, RoundTrip DEF Reply
<1>4. FreshRetrieval'
  BY <1>1, <1>2, <1>3 DEF FInv, FreshRetrieval, Answered
<1>5. Retrieve(ctl.option.method)' \in seen'
  BY <1>1, UnchangedSeen DEF Seen
<1>. QED BY <1>1, <1>2, <1>4, <1>5 DEF FInv

LEMMA LostF ==
  ASSUME IInv, FInv, metrics' = metrics, settings' = settings, seen' = seen, Lost
  PROVE  FInv'
<1>1. Taken /\ ctl' = ctl
  BY DEF Lost
<1>2. \A i \in 1 .. Len(replies'["ctl"]) :
        i + 1 \in 1 .. Len(replies["ctl"]) /\ replies'["ctl"][i] = replies["ctl"][i + 1]
  BY <1>1, TailIs
<1>3. Retrieve(ctl.option.method)' \in seen'
  BY <1>1, UnchangedSeen DEF Seen
<1>. QED BY <1>1, <1>2, <1>3 DEF FInv, FreshRetrieval, Answered

\* Every step keeps the answers recent
LEMMA NextF ==
  ASSUME IInv, FInv, [Next]_vars
  PROVE  FInv'
<1>1. ctl.id \in Nat /\ \A id, request : Own(id, request) => id \in Nat
  BY DEF IInv, Typed, CtlType, Own
<1>2. CASE management_read
  <2>1. Seen
    BY <1>2, WatchedSeen DEF management_read
  <2>. QED BY <1>1, <1>2, <2>1, ReadIs, QuietF, RepliedF
<1>3. CASE ServesAgain
  <2>1. Seen
    BY <1>3, WatchedSeen DEF ServesAgain
  <2>. QED BY <1>3, <2>1, AgainIs, QuietF, RepliedF
<1>4. CASE register_new_connection \/ unregister_connection \/ \E method \in Counted : Count(method)
  BY <1>4, CountsAre, WatchedSeen, QuietF
<1>5. CASE CtlAsks
  <2>1. Retrieve(ctl.option.method)' \in seen'
    BY <1>5 DEF CtlAsks
  <2>. QED BY <1>5, <2>1, AsksIs, AskingF
<1>6. CASE CtlReceives
  BY <1>6, ReceivesIs, ShownF
<1>7. CASE OtherSends \/ OtherReceives
  BY <1>7, OthersAre, UnchangedSeen, QuietF DEF Quiet
<1>8. CASE Lose
  BY <1>8, LoseIs, UnchangedSeen, QuietF, LostF DEF Quiet
<1>9. CASE UNCHANGED vars
  BY <1>9, StutterIs, UnchangedSeen, QuietF DEF Quiet
<1>. QED BY <1>2, <1>3, <1>4, <1>5, <1>6, <1>7, <1>8, <1>9 DEF Next

LEMMA InitF ==
  ASSUME Init
  PROVE  FInv
<1>1. /\ ctl.option.method = 0 /\ ctl.id = 0 /\ metrics[0] = 0 /\ seen = {0}
      /\ replies["ctl"] = <<>>
  BY DEF Init, Counters
<1>2. Retrieve(ctl.option.method) = 0
  BY <1>1 DEF Retrieve
<1>. QED BY <1>1, <1>2 DEF FInv, FreshRetrieval, Answered

-----------------------------------------------------------------------------
(* The truth of what httpdctl says has been changed *)

\* No other client changes a setting: each of its datagrams has at least a type of its own,
\* and asks for no change or lacks the passphrase.  Where another client may, what httpdctl
\* has been told can be out of date as soon as it is shown.
OthersChangeNothing ==
  \A request \in OtherRequests, length \in Lengths :
    /\ Place["type"] <= length
    /\ request.type # Modification \/ request.passphrase # "right"

\* The change has been made
Done == ctl.option.method \in 0 .. 2 /\ Setting(ctl.option.method) = ctl.typed % 65536

\* Success is on its way or shown only when it has
TInv ==
  failed = 0 /\ ctl.option.type = Modification =>
    /\ \A i \in 1 .. Len(replies["ctl"]) :
         parse_answer(replies["ctl"][i].octets).status = Success => Done
    /\ ctl.id > 0 /\ ~ctl.waiting /\ ctl.answer.status = Success => Done

\* Another client's datagram leaves the settings as they are, whatever earlier datagrams
\* left in the buffer behind its end
LEMMA OtherLeaves ==
  ASSUME OthersChangeNothing, NEW datagram, FromOther(datagram)
  PROVE  Serve(Received(datagram)).settings = settings
<1>1. /\ Place["type"] <= datagram.length
      /\ datagram.request.type # Modification \/ datagram.request.passphrase # "right"
  BY DEF OthersChangeNothing, FromOther
<1>2. Place["passphrase"] = 2 /\ Place["type"] = 3 /\ datagram.length \in 0 .. Whole
  BY ManagementAssumption DEF Place, FromOther
<1>3. /\ Received(datagram).type = datagram.request.type
      /\ Received(datagram).passphrase = datagram.request.passphrase
  <2>1. Place["passphrase"] <= datagram.length
    BY <1>1, <1>2 DEF Whole
  <2>. QED BY <1>1, <2>1 DEF Received, Fields
<1>. QED BY <1>1, <1>3, ServeLeaves

\* Done is about the settings and the request
LEMMA DoneKept ==
  ASSUME settings' = settings, ctl'.option = ctl.option, ctl'.typed = ctl.typed
  PROVE  Done' <=> Done
BY DEF Done, Setting

LEMMA QuietT ==
  ASSUME IInv, TInv, Quiet, settings' = settings
  PROVE  TInv'
<1>1. ctl' = ctl /\ replies'["ctl"] = replies["ctl"] /\ (failed' = 0 => failed = 0)
  BY DEF Quiet, IInv, Typed
<1>2. Done' <=> Done
  BY <1>1, DoneKept
<1>. QED BY <1>1, <1>2 DEF TInv

\* A setting that has been changed is what it was changed to
LEMMA SettingIs ==
  ASSUME settings \in SettingsType, NEW method \in 0 .. 2, NEW value,
         validate_input_value(method, value), settings' = Changed(method, value)
  PROVE  Setting(method)' = value
<1>1. CASE method = 0
  <2>1. value \in 0 .. 1 /\ settings'.sniffer = (value # 0)
    BY <1>1, ChangedTyped
  <2>2. Setting(method)' = IF settings'.sniffer THEN 1 ELSE 0
    BY <1>1 DEF Setting
  <2>3. settings'.sniffer <=> value # 0
    BY <2>1
  <2>. QED BY <2>1, <2>2, <2>3
<1>2. CASE method = 1
  BY <1>2, ChangedTyped DEF Setting
<1>3. CASE method = 2
  BY <1>3, ChangedTyped DEF Setting
<1>. QED BY <1>1, <1>2, <1>3

\* The service says that it has made a change when it has
LEMMA SuccessDone ==
  ASSUME settings \in SettingsType, ctl \in CtlType, ctl' = ctl, ctl.option.type = Modification,
         NEW request, Carries(request, ctl.option, ctl.typed),
         settings' = Serve(request).settings, Serve(request).statuses = <<Success>>
  PROVE  Done'
<1> DEFINE method == ctl.option.method
<1> DEFINE value == Value(request)
<1>1. /\ request.passphrase = "right" /\ request.type = Modification
      /\ request.method = method /\ value = ctl.typed % 65536
  BY DEF Carries
<1>2. method \in 0 .. 7
  BY DEF CtlType, Asked
<1>3. Parsed(request)
  BY <1>1, <1>2 DEF Carries, Parsed, Modification
<1>4. Serve(request) = Modify(method, value)
  BY <1>1, <1>3 DEF Serve, Retrieval, Modification
<1> HIDE DEF method, value
<1>5. CASE method \notin 0 .. 2 \/ ~validate_input_value(method, value)
  <2>1. Serve(request).statuses = <<Unsuccessful>>
    BY <1>4, <1>5 DEF Modify, Effect
  <2>2. <<Unsuccessful>>[1] = <<Success>>[1]
    BY <2>1
  <2>. QED BY <2>2 DEF Success, Unsuccessful
<1>6. CASE method \in 0 .. 2 /\ validate_input_value(method, value)
  <2>1. settings' = Changed(method, value)
    BY <1>4, <1>6 DEF Modify, Effect
  <2>2. Setting(method)' = value
    BY <1>6, <2>1, SettingIs DEF method
  <2>. QED BY <1>1, <1>6, <2>2 DEF Done, method
<1>. QED BY <1>5, <1>6

\* As long as no recvfrom() fails, the reply is the only one, and nothing of httpdctl's is
\* left on its way
LEMMA RepliedT ==
  ASSUME IInv, failed' = failed, NEW datagram \in inbound, FromCtl(datagram),
         NEW request, Own(datagram.id, request), NEW status \in Nat, NEW value \in Nat,
         Replied(datagram.id, status, value), settings' = Serve(request).settings,
         Serve(request).statuses = <<status>>
  PROVE  TInv'
<1> SUFFICES ASSUME failed' = 0, ctl'.option.type = Modification
             PROVE  /\ \A i \in 1 .. Len(replies'["ctl"]) :
                         parse_answer(replies'["ctl"][i].octets).status = Success => Done'
                    /\ ctl'.id > 0 /\ ~ctl'.waiting /\ ctl'.answer.status = Success => Done'
  BY DEF TInv
<1> DEFINE q == replies["ctl"]
<1> DEFINE r == Reply(datagram.id, status, value)
<1>1. ctl' = ctl /\ replies'["ctl"] = Append(q, r) /\ datagram.id = ctl.id
  BY DEF Replied
<1>2. settings \in SettingsType /\ ctl \in CtlType
  BY DEF IInv, Typed
<1>3. Carries(request, ctl.option, ctl.typed)
  BY <1>1 DEF Own
<1>4. status = Success => Done'
  BY <1>1, <1>2, <1>3, SuccessDone
<1>5. /\ Cardinality(Ctls) \in Nat \ {0} /\ q \in Seq(Replies) /\ Len(q) \in Nat
      /\ OnTheirWay = Cardinality(Ctls) + Len(q)
  <2>1. IsFiniteSet(Ctls) /\ Cardinality(Ctls) \in Nat
    BY CtlsFinite DEF IInv, Typed
  <2>2. datagram \in Ctls
    BY DEF Ctls, FromCtl
  <2>3. Cardinality(Ctls) # 0
    BY <2>1, <2>2, FS_EmptySet
  <2>. QED BY <2>1, <2>3, LenProperties DEF IInv, Typed, OnTheirWay, Ctls
<1>6. ctl.waiting
  <2>1. CASE ~ctl.waiting
    <3>1. OnTheirWay <= failed + 0
      BY <2>1 DEF IInv, AnswersOwnRequest
    <3>. QED BY <1>5, <3>1
  <2>. QED BY <2>1
<1>7. Len(q) = 0
  <2>1. OnTheirWay <= failed + 1
    BY <1>6 DEF IInv, AnswersOwnRequest
  <2>. QED BY <1>5, <2>1
<1>8. r \in Replies
  <2>1. datagram.id \in Nat
    BY <1>1, <1>2 DEF CtlType
  <2>. QED BY <2>1 DEF Replies
<1>9. parse_answer(r.octets).status = status
  BY RoundTrip DEF Reply
<1> HIDE DEF q, r
<1>10. Len(Append(q, r)) = 1 /\ Append(q, r)[1] = r
  BY <1>5, <1>7, <1>8, AppendProperties
<1>. QED BY <1>1, <1>4, <1>6, <1>9, <1>10

\* At its start there is no answer to a request
LEMMA AskingT ==
  ASSUME IInv, Asking
  PROVE  TInv'
<1>1. /\ ~ctl.waiting /\ ctl'.waiting /\ replies' = replies /\ failed' = failed
  BY DEF Asking
<1>2. /\ Cardinality(Ctls) \in Nat /\ Len(replies["ctl"]) \in Nat
      /\ OnTheirWay = Cardinality(Ctls) + Len(replies["ctl"])
  BY CtlsFinite, LenProperties DEF IInv, Typed, OnTheirWay, Ctls
<1>3. OnTheirWay <= failed + 0
  BY <1>1 DEF IInv, AnswersOwnRequest
<1>4. failed = 0 => Len(replies["ctl"]) = 0
  BY <1>2, <1>3
<1>. QED BY <1>1, <1>4 DEF TInv

\* What is shown or lost was true, and the settings stay
LEMMA TakenT ==
  ASSUME IInv, TInv, settings' = settings,
         Lost \/ \E id, status, value \in Nat : Shown(id, status, value)
  PROVE  TInv'
<1>1. /\ Taken /\ ctl'.id = ctl.id /\ ctl'.option = ctl.option /\ ctl'.typed = ctl.typed
      /\ failed' = failed
  BY DEF Lost, Shown, Taken
<1>2. /\ 1 \in 1 .. Len(replies["ctl"])
      /\ \A i \in 1 .. Len(replies'["ctl"]) :
           i + 1 \in 1 .. Len(replies["ctl"]) /\ replies'["ctl"][i] = replies["ctl"][i + 1]
  BY <1>1, TailIs
<1>3. Done' <=> Done
  BY <1>1, DoneKept
<1>4. CASE Lost
  BY <1>1, <1>2, <1>3, <1>4 DEF TInv, Lost
<1>5. CASE \E id, status, value \in Nat : Shown(id, status, value)
  <2>1. PICK id \in Nat, status \in Nat, value \in Nat : Shown(id, status, value)
    BY <1>5
  <2>2. parse_answer(replies["ctl"][1].octets).status = status /\ ctl'.answer.status = status
    BY <2>1, RoundTrip DEF Shown, Reply
  <2>. QED BY <1>1, <1>2, <1>3, <2>2 DEF TInv
<1>. QED BY <1>4, <1>5

\* Every step keeps what httpdctl says true
LEMMA NextT ==
  ASSUME OthersChangeNothing, IInv, TInv, [Next]_vars
  PROVE  TInv'
<1>1. CASE management_read
  <2>1. PICK datagram \in inbound :
          /\ settings' = Serve(Received(datagram)).settings
          /\ \/ Quiet /\ FromOther(datagram)
             \/ \E status, value \in Nat :
                  /\ FromCtl(datagram) /\ Own(datagram.id, Received(datagram))
                  /\ Replied(datagram.id, status, value) /\ Truly(datagram.id, value)
                  /\ Serve(Received(datagram)).statuses = <<status>>
    BY <1>1, ReadIs
  <2>2. failed' = failed
    BY <1>1, ReadIs
  <2>3. CASE Quiet /\ FromOther(datagram)
    BY <2>1, <2>3, OtherLeaves, QuietT
  <2>. QED BY <2>1, <2>2, <2>3, RepliedT
<1>2. CASE ServesAgain
  <2>1. failed' # 0
    BY <1>2, AgainIs DEF IInv, Typed
  <2>. QED BY <2>1 DEF TInv
<1>3. CASE register_new_connection \/ unregister_connection \/ \E method \in Counted : Count(method)
  BY <1>3, CountsAre, QuietT
<1>4. CASE CtlAsks
  BY <1>4, AsksIs, AskingT
<1>5. CASE CtlReceives
  BY <1>5, ReceivesIs, TakenT
<1>6. CASE OtherSends \/ OtherReceives
  BY <1>6, OthersAre, QuietT
<1>7. CASE Lose
  BY <1>7, LoseIs, QuietT, TakenT
<1>8. CASE UNCHANGED vars
  BY <1>8, StutterIs, QuietT
<1>. QED BY <1>1, <1>2, <1>3, <1>4, <1>5, <1>6, <1>7, <1>8 DEF Next

LEMMA InitT ==
  ASSUME Init
  PROVE  TInv
<1>1. ctl.option.type = 0
  BY DEF Init
<1>. QED BY <1>1 DEF TInv, Modification

-----------------------------------------------------------------------------
(* The theorems *)

\* httpdctl.c and management.c together: every datagram of httpdctl is a request that it has
\* made, every reply to it answers one, and no more of them are on their way than httpdctl
\* waits for and calls of recvfrom() have failed.
THEOREM ExchangeInvariant == Spec => []IInv
<1>1. Init => IInv
  BY InitOK
<1>2. IInv /\ [Next]_vars => IInv'
  BY NextOK
<1>. QED BY <1>1, <1>2, PTL DEF Spec

\* httpdctl takes whatever reply comes first.  Until a recvfrom() of management_read fails
\* that is the reply to the request it has just made; each that fails puts it at most one
\* reply behind.  The network may lose or exchange datagrams.
THEOREM AnswersMatch == Spec => []AnswersOwnRequest
<1>1. IInv => AnswersOwnRequest
  BY DEF IInv
<1>. QED BY <1>1, ExchangeInvariant, PTL

\* What httpdctl shows as the answer to a retrieval of management.c has been the value since
\* it asked, though counters go up and down, others change settings and recvfrom() fails.
THEOREM RetrievalsFresh == Spec => []FreshRetrieval
<1>1. Init => FInv
  BY InitF
<1>2. IInv /\ FInv /\ [Next]_vars => FInv'
  BY NextF
<1>3. FInv => FreshRetrieval
  BY DEF FInv
<1>. QED BY <1>1, <1>2, <1>3, ExchangeInvariant, PTL DEF Spec

\* As long as no other client changes a setting and no recvfrom() fails, a reply of
\* management.c that says Success is true when it is sent, and still is when it is shown.
THEOREM TruthInvariant ==
  ASSUME OthersChangeNothing
  PROVE  Spec => [](IInv /\ TInv)
<1>1. Init => TInv
  BY InitT
<1>2. IInv /\ TInv /\ [Next]_vars => TInv'
  BY NextT
<1>. QED BY <1>1, <1>2, ExchangeInvariant, PTL DEF Spec

\* What httpdctl says has been changed has been changed, to what a uint16_t keeps of the value
\* that was typed.
THEOREM SuccessIsTrue ==
  ASSUME OthersChangeNothing
  PROVE  Spec => []SuccessMeansDone
<1>1. IInv /\ TInv => SuccessMeansDone
  BY DEF TInv, Done, SuccessMeansDone
<1>. QED BY <1>1, TruthInvariant, PTL
=============================================================================
