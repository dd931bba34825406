--------------------------- MODULE SnifferParser ---------------------------
(***************************************************************************)
(* sniffer_parser: finds the credentials of a POP3 login or of an HTTP     *)
(* "Authorization: Basic" header in the characters of both directions of a *)
(* connection, one at a time.                                              *)
(*                                                                         *)
(* The operators commented "Mutant" are plausible bugs that nothing uses.  *)
(***************************************************************************)
EXTENDS Integers, Sequences
LOCAL INSTANCE SequencesExt

CONSTANTS
  MaxUserLength,      \* 40
  MaxPasswordLength,  \* 40
  MaxAuthValueLength  \* 1024

Chars(string) == [i \in 1 .. Len(string) |-> SubSeq(string, i, i)]

\* The characters from 32 to 95 and from 97 to 126
LowAscii == Chars(" !\"#$%&'()*+,-./0123456789:;<=>?@ABCDEFGHIJKLMNOPQRSTUVWXYZ[\\]^_")
HighAscii == Chars("abcdefghijklmnopqrstuvwxyz{|}~")
Capitals == SubSeq(LowAscii, 34, 59)

CharOf(octet) ==
  CASE octet \in 32 .. 95 -> LowAscii[octet - 31]
    [] octet \in 97 .. 126 -> HighAscii[octet - 96]
    [] OTHER -> "other"

IsSpace(c) == c \in {" ", "\t"}
IsVchar(c) == c \in Range(Tail(LowAscii)) \union Range(HighAscii)

Base64Table == Chars("ABCDEFGHIJKLMNOPQRSTUVWXYZabcdefghijklmnopqrstuvwxyz0123456789+/")
IsBase64(c) == c \in Range(Base64Table) \union {"="}

-----------------------------------------------------------------------------
(* parser_utils_strcmpi: a word is looked for without regard to case.  The  *)
(* character that breaks off a match is not tried as the word's first.      *)

Lower(c) ==
  IF c \in Range(Capitals) THEN HighAscii[CHOOSE i \in 1 .. 26 : Capitals[i] = c] ELSE c

Look(p, state, word) == [p EXCEPT !.state = state, !.word = Chars(word), !.matched = 0]

Seek(p, c, found) ==
  CASE Lower(c) # p.word[p.matched + 1] -> [p EXCEPT !.matched = 0]
    [] Lower(c) = p.word[p.matched + 1] /\ p.matched + 1 < Len(p.word) ->
         [p EXCEPT !.matched = @ + 1]
    [] OTHER -> found

To(p, state) == [p EXCEPT !.state = state]
Error(p) == To(p, "error")

\* A value follows, of which nothing has been read: i = 0
Value(p, state) == [p EXCEPT !.state = state, !.value = <<>>]

-----------------------------------------------------------------------------
(* base64_decode, of characters that all belong to the alphabet            *)

Sextet(c) == IF c = "=" THEN 0 ELSE (CHOOSE i \in 1 .. 64 : Base64Table[i] = c) - 1

Group(chars, g) == SubSeq(chars, 4 * g - 3, 4 * g)
Padding(group) == Len(SelectSeq(group, LAMBDA c : c = "="))

Octets(group) ==
  LET b == [i \in 1 .. 4 |-> Sextet(group[i])]
      all == <<b[1] * 4 + b[2] \div 16, (b[2] % 16) * 16 + b[3] \div 4, (b[3] % 4) * 64 + b[4]>>
  IN SubSeq(all, 1, 3 - Padding(group))

\* The first group with padding is the last that is looked at
LastGroup(chars) ==
  LET groups == 1 .. Len(chars) \div 4
      padded == {g \in groups : Padding(Group(chars, g)) > 0}
  IN IF padded = {} THEN Len(chars) \div 4
     ELSE CHOOSE g \in padded : \A h \in padded : g <= h

Decodable(chars) ==
  /\ chars # <<>>
  /\ Len(chars) % 4 = 0
  /\ Padding(Group(chars, LastGroup(chars))) <= 2

Base64Decode(chars) ==
  LET octets == FlattenSeq([g \in 1 .. LastGroup(chars) |-> Octets(Group(chars, g))])
  IN [i \in 1 .. Len(octets) |-> CharOf(octets[i])]

-----------------------------------------------------------------------------
(* What is kept of the decoded text.  Without a colon the user is left empty *)
(* and the password is copied from behind the end of the text: the length of *)
(* what follows the colon wraps around.                                      *)

Unknown == <<"unknown">>

AtMost(max, text) == SubSeq(text, 1, IF Len(text) < max THEN Len(text) ELSE max)

Colons(text) == {i \in 1 .. Len(text) : text[i] = ":"}

ParseUserAndPassword(p, text) ==
  IF Colons(text) = {} THEN [p EXCEPT !.password = Unknown]
  ELSE LET colon == CHOOSE i \in Colons(text) : \A j \in Colons(text) : i <= j
       IN [p EXCEPT !.user = AtMost(MaxUserLength, SubSeq(text, 1, colon - 1)),
                    !.password = AtMost(MaxPasswordLength, SubSeq(text, colon + 1, Len(text)))]

DecodeAndParseAuth(p) ==
  IF ~Decodable(p.value) THEN Error(p)
  ELSE To([ParseUserAndPassword(p, Base64Decode(p.value)) EXCEPT !.protocol = "HTTP"], "done")

-----------------------------------------------------------------------------
(* The states of HTTP: whatever the origin says ends them *)

HttpVersion(p, c) ==
  IF c = "\r" THEN Error(p) ELSE Seek(p, c, Look(p, "http_authorization", "authorization:"))

HttpAuthorization(p, c) == Seek(p, c, Look(p, "http_authorization_basic", "basic"))

HttpAuthorizationBasic(p, c) ==
  IF c = "\r" THEN Error(p) ELSE Seek(p, c, Value(p, "http_authorization_value"))

\* The limit is looked at before the character, so it leaves no room for the end
HttpAuthorizationValue(p, c) ==
  CASE Len(p.value) >= MaxAuthValueLength -> Error(p)
    [] Len(p.value) < MaxAuthValueLength /\ IsSpace(c) -> p
    [] Len(p.value) < MaxAuthValueLength /\ c = "\r" -> DecodeAndParseAuth(p)
    [] Len(p.value) < MaxAuthValueLength /\ IsBase64(c) -> [p EXCEPT !.value = Append(@, c)]
    [] OTHER -> Error(p)

HttpFeed(p, c, owner) ==
  CASE owner = "origin" -> Error(p)
    [] owner = "client" /\ p.state = "http_version" -> HttpVersion(p, c)
    [] owner = "client" /\ p.state = "http_authorization" -> HttpAuthorization(p, c)
    [] owner = "client" /\ p.state = "http_authorization_basic" -> HttpAuthorizationBasic(p, c)
    [] owner = "client" /\ p.state = "http_authorization_value" -> HttpAuthorizationValue(p, c)

-----------------------------------------------------------------------------
(* The states of POP3: a command is listened for in what the client says,   *)
(* its answer in what the origin says                                       *)

\* A user name or a password, up to the end of the line
Pop3Value(p, c, max, ended) ==
  CASE Len(p.value) >= max -> Error(p)
    [] Len(p.value) < max /\ (IsSpace(c) \/ c = "\r") -> p
    [] Len(p.value) < max /\ c = "\n" -> ended
    [] Len(p.value) < max /\ IsVchar(c) -> [p EXCEPT !.value = Append(@, c)]
    [] OTHER -> Error(p)

Pop3Ack(p, c, ok) == IF c = "-" THEN Error(p) ELSE Seek(p, c, ok)

Pop3ClientFeed(p, c) ==
  CASE p.state = "pop3_origin_ack" -> Error(p)
    [] p.state = "pop3_user_username" -> Seek(p, c, Value(p, "pop3_user_username_value"))
    [] p.state = "pop3_user_username_value" ->
         Pop3Value(p, c, MaxUserLength, Look([p EXCEPT !.user = p.value], "pop3_origin_user_ack", "+ok"))
    [] p.state = "pop3_user_pass" -> Seek(p, c, Value(p, "pop3_user_pass_value"))
    [] p.state = "pop3_user_pass_value" ->
         Pop3Value(p, c, MaxPasswordLength,
                   Look([p EXCEPT !.password = p.value], "pop3_origin_pass_ack", "+ok"))
    [] p.state \in {"pop3_origin_user_ack", "pop3_origin_pass_ack"} -> p

\* Mutant: a password is as good as accepted once the origin has answered
Pop3OriginFeed_AnyAnswer(p, c) ==
  CASE p.state = "pop3_origin_ack" -> Seek(p, c, Look(p, "pop3_user_username", "user"))
    [] p.state = "pop3_origin_user_ack" -> Pop3Ack(p, c, Look(p, "pop3_user_pass", "pass"))
    [] p.state = "pop3_origin_pass_ack" -> To([p EXCEPT !.protocol = "POP3"], "done")
    [] p.state = "pop3_user_pass_value" -> Error(p)
    [] p.state \in {"pop3_user_username", "pop3_user_username_value", "pop3_user_pass"} -> p

Pop3OriginFeed(p, c) ==
  CASE p.state = "pop3_origin_ack" -> Seek(p, c, Look(p, "pop3_user_username", "user"))
    [] p.state = "pop3_origin_user_ack" -> Pop3Ack(p, c, Look(p, "pop3_user_pass", "pass"))
    [] p.state = "pop3_origin_pass_ack" ->
         Pop3Ack(p, c, To([p EXCEPT !.protocol = "POP3"], "done"))
    [] p.state = "pop3_user_pass_value" -> Error(p)
    [] p.state \in {"pop3_user_username", "pop3_user_username_value", "pop3_user_pass"} -> p

Pop3Feed(p, c, owner) == IF owner = "client" THEN Pop3ClientFeed(p, c) ELSE Pop3OriginFeed(p, c)

-----------------------------------------------------------------------------
(* sniffer_parser_feed *)

SnifferInit ==
  [state |-> "start", word |-> <<>>, matched |-> 0, value |-> <<>>, user |-> <<>>,
   password |-> <<>>, protocol |-> "none"]

\* modify_sniffer_state: a request to a server that is not a tunnel's end
AfterRequestLine(p) == Look(p, "http_authorization", "authorization:")

\* The port chooses the protocol, which gets the first character too
Start(p, c, owner, port) ==
  CASE port = 110 -> Pop3Feed(Look(p, "pop3_origin_ack", "+ok"), c, owner)
    [] port = 80 -> HttpFeed(Look(p, "http_version", "http/1"), c, owner)
    [] OTHER -> p

HttpStates ==
  {"http_version", "http_authorization", "http_authorization_basic", "http_authorization_value"}
Ends == {"done", "error"}

SnifferFeed(p, c, owner, port) ==
  CASE p.state = "start" -> Start(p, c, owner, port)
    [] p.state \in HttpStates -> HttpFeed(p, c, owner)
    [] p.state \in Ends -> p
    [] OTHER -> Pop3Feed(p, c, owner)
=============================================================================
