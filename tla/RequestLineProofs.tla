------------------------- MODULE RequestLineProofs -------------------------
(***************************************************************************)
(* Theorems about the request line in a resolution: whatever the client    *)
(* sends, the line is refused for its first fault or kept as it was said,  *)
(* for every text of every part the assumptions allow.                     *)
(*                                                                         *)
(* The invariant says of every moment where in the characters of the       *)
(* present part of the line the parser is, and that its state is the one   *)
(* that place calls for, with what the parts before have left in it.  What *)
(* Number computes for every text rests on Induction of ResolutionProofs.  *)
(***************************************************************************)
EXTENDS ResolutionProofs
-----------------------------------------------------------------------------
(* The line in the text of its parts *)

\* The order of the parts
Rank ==
  [method |-> 1, scheme |-> 2, host |-> 3, port |-> 4, path |-> 5, version |-> 6, major |-> 7,
   minor |-> 8, end |-> 9]

\* Nothing is known of the target
Fresh(p) == p.host = <<>> /\ p.host_type = "domain" /\ p.origin_form = <<>>

\* The parser p after c characters of a method, with the blank after it
AtMethod(t, c, p) ==
  /\ Fresh(p)
  /\ \A j \in 1 .. c : j <= Len(t) => t[j] \in TokenChar
  /\ \/ /\ c <= Len(t) /\ c <= MaxMethodLength /\ p.state = "method" /\ p.i = c
        /\ p.method = SubSeq(t, 1, c)
     \/ /\ c = Len(t) + 1 /\ Len(t) < MaxMethodLength /\ p.method = t /\ p.i = 0
        /\ p.state = IF t = Connect THEN "target_host" ELSE "target_scheme"

\* A scheme
AtScheme(t, c, p) ==
  /\ Fresh(p)
  /\ \A j \in 1 .. c : t[j] = HttpScheme[j]
  /\ \/ c < 7 /\ p.state = "target_scheme" /\ p.i = c
     \/ c = 7 /\ t = HttpScheme /\ p.state = "target_host" /\ p.i = 0

\* The brackets in front of a literal
Brackets(t) == Len(t) - Len(InBrackets(t))

\* A host
AtHost(t, c, p) ==
  /\ p.state = "target_host" /\ p.i <= MaxFqdnLength /\ p.origin_form = <<>>
  /\ Bracketed(t) =>
       /\ p.i = IF c <= Brackets(t) THEN 0 ELSE c - Brackets(t)
       /\ p.host = SubSeq(InBrackets(t), 1, p.i)
       /\ c > 0 => p.host_type = "ipv6"
  /\ ~Bracketed(t) => p.i = c /\ p.host = SubSeq(t, 1, c) /\ p.host_type = "domain"

\* g tells the numbers that the first m characters of t make
NumberTo(t, m, g) ==
  g = [n \in 0 .. m |-> IF n = 0 THEN 0 ELSE g[n - 1] * 10 + Value(t[n])]

\* A colon and a port
AtPort(t, c, p) ==
  /\ p.state = "target_port" /\ p.i = c - 1 /\ c - 1 \in 0 .. 5 /\ p.origin_form = <<>>
  /\ \A j \in 1 .. c - 1 : t[j] \in Digit
  /\ c = 1 => p.port = Swapped(80)
  /\ c - 1 \in 1 .. 4 => \A g : NumberTo(t, Len(t), g) => p.port = g[c - 1]

\* A path
AtPath(t, c, p) ==
  /\ p.state = "target_ogform" /\ p.i = c /\ c >= 1 /\ c <= MaxOriginForm
  /\ p.origin_form = SubSeq(t, 1, c)

\* A blank and a version
AtVersion(t, c, p) ==
  /\ c >= 1
  /\ \A j \in 1 .. c - 1 : t[j] = HttpVersion[j]
  /\ \/ c < 6 /\ p.state = "version" /\ p.i = c - 1
     \/ c = 6 /\ t = HttpVersion /\ p.state = "version_major" /\ p.i = 0

\* What a number is answered with
NumberAnswer(t) ==
  CASE \E i \in DOMAIN t : i <= 2 /\ t[i] \notin Digit -> 400
    [] AllDigits(t) /\ Len(t) <= 1 -> 0
    [] OTHER -> 505

\* A number, with the character after it
AtNumber(t, c, p, state, next) ==
  \/ /\ c <= Len(t) /\ c <= 2 /\ p.state = state /\ p.i = c
     /\ \A j \in 1 .. c : t[j] \in Digit
  \/ c = Len(t) + 1 /\ NumberAnswer(t) = 0 /\ p.state = next /\ p.i = 0

\* The end of the line
AtEnd(t, c, p) ==
  \/ c = 0 /\ p.state = "end" /\ p.i = 0
  \/ c = 1 /\ t = <<"\n">> /\ p.state = "done"

\* The parser refuses the line with the error f
Refused(q, f) == f # 0 /\ ErrorOf(q.state) = f

\* The fields that are filled before part k are left alone
Keeps(k, p, q) ==
  /\ k >= 2 => q.method = p.method
  /\ k >= 4 => q.host = p.host /\ q.host_type = p.host_type
  /\ k >= 5 => q.port = p.port
  /\ k >= 6 => q.origin_form = p.origin_form

\* The first characters of a text
LEMMA Prefixes ==
  ASSUME NEW S, NEW s \in Seq(S), NEW j \in 0 .. Len(s)
  PROVE  /\ SubSeq(s, 1, j) \in Seq(S) /\ Len(SubSeq(s, 1, j)) = j
         /\ \A i \in 1 .. j : SubSeq(s, 1, j)[i] = s[i]
         /\ j < Len(s) => Append(SubSeq(s, 1, j), s[j + 1]) = SubSeq(s, 1, j + 1)
         /\ j = Len(s) => SubSeq(s, 1, j) = s
         /\ j = 0 => SubSeq(s, 1, j) = <<>>
<1> DEFINE L == Len(s)
           a == SubSeq(s, 1, j)
           b == SubSeq(s, 1, j + 1)
<1>0. L \in Nat /\ j \in Nat /\ j <= L
  OBVIOUS
<1>1. ASSUME NEW k \in 0 .. L
      PROVE  /\ SubSeq(s, 1, k) \in Seq(S) /\ Len(SubSeq(s, 1, k)) = k
             /\ \A i \in 1 .. k : SubSeq(s, 1, k)[i] = s[i]
  <2>1. 1 \in Int /\ k \in Int /\ \A i \in 1 .. k : s[i] \in S
    OBVIOUS
  <2>2. (IF 1 <= k THEN k - 1 + 1 ELSE 0) = k /\ k - 1 + 1 = k /\ \A i \in 1 .. k : 1 + i - 1 = i
    BY <1>0
  <2>. DEFINE r == SubSeq(s, 1, k)
  <2>3. /\ r \in Seq(S) /\ Len(r) = IF 1 <= k THEN k - 1 + 1 ELSE 0
        /\ \A i \in 1 .. k - 1 + 1 : r[i] = s[1 + i - 1]
    BY <2>1, SubSeqProperties
  <2>. HIDE DEF r
  <2>. QED BY <2>2, <2>3 DEF r
<1>2. a \in Seq(S) /\ Len(a) = j /\ \A i \in 1 .. j : a[i] = s[i]
  BY <1>1
<1>3. j < L => Append(a, s[j + 1]) = b
  <2>. SUFFICES ASSUME j < L PROVE Append(a, s[j + 1]) = b
    OBVIOUS
  <2>1. j + 1 \in 0 .. L /\ j + 1 \in 1 .. L
    BY <1>0
  <2>2. b \in Seq(S) /\ Len(b) = j + 1 /\ \A i \in 1 .. j + 1 : b[i] = s[i]
    BY <1>1, <2>1
  <2>3. s[j + 1] \in S
    BY <2>1
  <2>. DEFINE x == s[j + 1]
              d == Append(a, x)
  <2>. HIDE DEF a, b, x
  <2>4. d \in Seq(S) /\ Len(d) = j + 1 /\ d[j + 1] = x /\ \A i \in 1 .. j : d[i] = a[i]
    BY <1>0, <1>2, <2>3 DEF x
  <2>5. b[j + 1] = x
    BY <1>0, <2>2 DEF x
  <2>. HIDE DEF d
  <2>6. \A i \in 1 .. j + 1 : d[i] = b[i]
    BY <1>0, <1>2, <2>2, <2>4, <2>5
  <2>7. d = b
    BY <2>2, <2>4, <2>6, SeqEqual
  <2>. QED BY <2>7 DEF d, x
<1>4. j = L => a = s
  <2>. HIDE DEF a
  <2>. QED BY <1>2, SeqEqual
<1>5. j = 0 => a = <<>>
  <2>. HIDE DEF a
  <2>. QED BY <1>2
<1>. QED BY <1>2, <1>3, <1>4, <1>5

\* Nothing but the state and the count differ
LEMMA ToFields ==
  ASSUME NEW p \in Lines, NEW state, NEW q, q = To(p, state)
  PROVE  /\ q.state = state /\ q.i = 0 /\ q.method = p.method /\ q.host = p.host
         /\ q.host_type = p.host_type /\ q.port = p.port /\ q.origin_form = p.origin_form
BY DEF Lines, To

\* Nothing but the count and the method differ
LEMMA MethodTaken ==
  ASSUME NEW p \in Lines, NEW x, NEW q, q = Take(p, "method", x)
  PROVE  /\ q.state = p.state /\ q.i = p.i + 1 /\ q.method = Append(p.method, x)
         /\ q.host = p.host /\ q.host_type = p.host_type /\ q.port = p.port
         /\ q.origin_form = p.origin_form
<1>1. q = [p EXCEPT !.method = Append(p.method, x), !.i = p.i + 1]
  BY Zenon DEF Take
<1>. QED BY <1>1 DEF Lines

\* Nothing but the count and the host differ
LEMMA HostTaken ==
  ASSUME NEW p \in Lines, NEW x, NEW q, q = Take(p, "host", x)
  PROVE  /\ q.state = p.state /\ q.i = p.i + 1 /\ q.method = p.method
         /\ q.host = Append(p.host, x) /\ q.host_type = p.host_type /\ q.port = p.port
         /\ q.origin_form = p.origin_form
<1>1. q = [p EXCEPT !.host = Append(p.host, x), !.i = p.i + 1]
  BY Zenon DEF Take
<1>. QED BY <1>1 DEF Lines

\* Nothing but the count and the path differ
LEMMA PathTaken ==
  ASSUME NEW p \in Lines, NEW x, NEW q, q = Take(p, "origin_form", x)
  PROVE  /\ q.state = p.state /\ q.i = p.i + 1 /\ q.method = p.method
         /\ q.host = p.host /\ q.host_type = p.host_type /\ q.port = p.port
         /\ q.origin_form = Append(p.origin_form, x)
<1>1. q = [p EXCEPT !.origin_form = Append(p.origin_form, x), !.i = p.i + 1]
  BY Zenon DEF Take
<1>. QED BY <1>1 DEF Lines

\* Nothing but the count differs
LEMMA CountFields ==
  ASSUME NEW p \in Lines, NEW q, q = [p EXCEPT !.i = @ + 1]
  PROVE  /\ q.state = p.state /\ q.i = p.i + 1 /\ q.method = p.method /\ q.host = p.host
         /\ q.host_type = p.host_type /\ q.port = p.port /\ q.origin_form = p.origin_form
BY DEF Lines

\* The character that ends a method or a target.  The provers take none with a blank.
Space == " "

\* The errors
LEMMA ErrorsAre ==
  /\ ErrorOf("error") = 400 /\ ErrorOf("error_unsupported_method") = 501
  /\ ErrorOf("error_unsupported_version") = 505
BY DEF ErrorOf

\* What is asked of every character, and of the next
LEMMA AllSoFar ==
  ASSUME NEW t, NEW c \in Nat, NEW S, \A j \in 1 .. c : t[j] \in S, t[c + 1] \in S
  PROVE  \A j \in 1 .. c + 1 : t[j] \in S
<1>1. \A j \in 1 .. c + 1 : j \in 1 .. c \/ j = c + 1
  OBVIOUS
<1>. QED BY <1>1

\* A text that has followed a word follows it further
LEMMA SameSoFar ==
  ASSUME NEW t, NEW h, NEW c \in Nat, \A j \in 1 .. c : t[j] = h[j], t[c + 1] = h[c + 1]
  PROVE  \A j \in 1 .. c + 1 : t[j] = h[j]
<1>1. \A j \in 1 .. c + 1 : j \in 1 .. c \/ j = c + 1
  OBVIOUS
<1>. QED BY <1>1

\* The faults of a method
MethodAnswer(t) ==
  IF (\A i \in DOMAIN t : t[i] \in TokenChar) /\ Len(t) < MaxMethodLength THEN 0 ELSE 501

\* A character more of the method
LEMMA MethodMore ==
  ASSUME NEW p \in Lines, NEW t \in Seq(Char), NEW c \in Nat, c < Len(t), AtMethod(t, c, p),
         t[c + 1] # Space, NEW q, q = MethodFeed(p, t[c + 1])
  PROVE  AtMethod(t, c + 1, q) \/ Refused(q, MethodAnswer(t))
<1>0. Len(t) \in Nat /\ MaxMethodLength \in Nat /\ c # Len(t) + 1 /\ c \in 0 .. Len(t) /\ c + 1 \in 1 .. Len(t)
  BY LineAssumption
<1>1. /\ Fresh(p) /\ \A j \in 1 .. c : j <= Len(t) => t[j] \in TokenChar
      /\ c <= MaxMethodLength /\ p.state = "method" /\ p.i = c /\ p.method = SubSeq(t, 1, c)
  BY <1>0, Zenon DEF AtMethod
<1>2. CASE c < MaxMethodLength /\ t[c + 1] \in TokenChar
  <2>1. q = Take(p, "method", t[c + 1])
    BY <1>1, <1>2, Zenon DEF MethodFeed, Space
  <2>2. /\ q.state = "method" /\ q.i = c + 1 /\ q.method = Append(SubSeq(t, 1, c), t[c + 1])
        /\ q.host = p.host /\ q.host_type = p.host_type /\ q.origin_form = p.origin_form
    <3>1. /\ q.state = p.state /\ q.i = p.i + 1 /\ q.method = Append(p.method, t[c + 1])
          /\ q.host = p.host /\ q.host_type = p.host_type /\ q.origin_form = p.origin_form
      BY <2>1, MethodTaken
    <3>. QED BY <1>1, <3>1, Zenon
  <2>3. q.method = SubSeq(t, 1, c + 1)
    BY <1>0, <2>2, Prefixes, Zenon
  <2>4. Fresh(q)
    BY <1>1, <2>2, Zenon DEF Fresh
  <2>5. \A j \in 1 .. c : j <= Len(t)
    BY <1>0
  <2>6. \A j \in 1 .. c : t[j] \in TokenChar
    BY <1>1, <2>5, Zenon
  <2>7. \A j \in 1 .. c + 1 : t[j] \in TokenChar
    BY <1>2, <2>6, AllSoFar, Zenon
  <2>8. c + 1 <= Len(t) /\ c + 1 <= MaxMethodLength
    BY <1>0, <1>2
  <2>. QED BY <2>2, <2>3, <2>4, <2>7, <2>8, Zenon DEF AtMethod
<1>3. CASE ~ (c < MaxMethodLength /\ t[c + 1] \in TokenChar)
  <2>1. q = To(p, "error_unsupported_method")
    BY <1>1, <1>3, Zenon DEF MethodFeed, Space
  <2>2. ErrorOf(q.state) = 501
    BY <2>1, ToFields, ErrorsAre
  <2>3. ~ (c < MaxMethodLength) => ~ (Len(t) < MaxMethodLength)
    BY <1>0
  <2>4. DOMAIN t = 1 .. Len(t)
    OBVIOUS
  <2>5. MethodAnswer(t) = 501
    BY <1>0, <1>3, <2>3, <2>4, Zenon DEF MethodAnswer
  <2>. QED BY <2>2, <2>5 DEF Refused
<1>. QED BY <1>2, <1>3

\* The blank after the method
LEMMA MethodEnds ==
  ASSUME NEW p \in Lines, NEW t \in Seq(Char), NEW c \in Nat, c = Len(t), AtMethod(t, c, p),
         NEW q, q = MethodFeed(p, Space)
  PROVE  AtMethod(t, c + 1, q) \/ Refused(q, MethodAnswer(t))
<1>0. Len(t) \in Nat /\ MaxMethodLength \in Nat /\ c # Len(t) + 1 /\ c \in 0 .. Len(t) /\ DOMAIN t = 1 .. Len(t)
  BY LineAssumption
<1>1. /\ Fresh(p) /\ \A j \in 1 .. c : j <= Len(t) => t[j] \in TokenChar
      /\ c <= MaxMethodLength /\ p.state = "method" /\ p.i = c /\ p.method = SubSeq(t, 1, c)
  BY <1>0, Zenon DEF AtMethod
<1>2. CASE c < MaxMethodLength
  <2>. DEFINE s == IF p.method = Connect THEN "target_host" ELSE "target_scheme"
  <2>1. q = To(p, s)
    BY <1>1, <1>2, BlankIsNoToken, Zenon DEF MethodFeed, Space
  <2>2. p.method = t
    BY <1>0, <1>1, Prefixes, Zenon
  <2>3. /\ q.state = s /\ q.i = 0 /\ q.method = t
        /\ q.host = p.host /\ q.host_type = p.host_type /\ q.origin_form = p.origin_form
    BY <2>1, <2>2, ToFields
  <2>4. Fresh(q)
    BY <1>1, <2>3, Zenon DEF Fresh
  <2>5. s = IF t = Connect THEN "target_host" ELSE "target_scheme"
    BY <2>2, Zenon
  <2>6. \A j \in 1 .. c + 1 : j <= Len(t) => j \in 1 .. c
    BY <1>0
  <2>7. \A j \in 1 .. c + 1 : j <= Len(t) => t[j] \in TokenChar
    BY <1>1, <2>6, Zenon
  <2>8. c + 1 = Len(t) + 1 /\ Len(t) < MaxMethodLength
    BY <1>2
  <2>. HIDE DEF s
  <2>. QED BY <2>3, <2>4, <2>5, <2>7, <2>8, Zenon DEF AtMethod
<1>3. CASE ~ (c < MaxMethodLength)
  <2>1. q = To(p, "error_unsupported_method")
    BY <1>1, <1>3, Zenon DEF MethodFeed, Space
  <2>2. ErrorOf(q.state) = 501
    BY <2>1, ToFields, ErrorsAre
  <2>3. ~ (Len(t) < MaxMethodLength)
    BY <1>3
  <2>5. MethodAnswer(t) = 501
    BY <2>3, Zenon DEF MethodAnswer
  <2>. QED BY <2>2, <2>5 DEF Refused
<1>. QED BY <1>2, <1>3

\* The end of a method: it is no error, and the next part is known
LEMMA MethodEnded ==
  ASSUME NEW p, NEW t \in Seq(Char), AtMethod(t, Len(t) + 1, p)
  PROVE  /\ MethodAnswer(t) = 0 /\ p.method = t /\ Fresh(p) /\ p.i = 0
         /\ p.state = IF t = Connect THEN "target_host" ELSE "target_scheme"
<1>0. Len(t) \in Nat /\ ~ (Len(t) + 1 <= Len(t)) /\ DOMAIN t = 1 .. Len(t)
  OBVIOUS
<1>1. \A i \in 1 .. Len(t) : i \in 1 .. Len(t) + 1 /\ i <= Len(t)
  BY <1>0
<1>. QED BY <1>0, <1>1, Zenon DEF AtMethod, MethodAnswer

-----------------------------------------------------------------------------
(* The words and the numbers *)

\* A text in the place of a word differs from it before either ends, or is it
LEMMA Differs ==
  ASSUME NEW t \in Seq(Char), NEW h, NEW m \in Nat, Len(h) = m, InPlaceOf(t, h), t # h
  PROVE  \E i \in Nat : 1 <= i /\ i <= m /\ i <= Len(t) /\ t[i] # h[i]
<1>1. PICK i \in 1 .. Len(h) : i <= Len(t) /\ t[i] # h[i]
  BY DEF InPlaceOf
<1>2. i \in Nat /\ 1 <= i /\ i <= m
  BY <1>1
<1>. QED BY <1>1, <1>2

\* When all of the word has come, or all of the text, the text is the word
LEMMA WordCame ==
  ASSUME NEW t \in Seq(Char), NEW h, NEW m \in Nat, Len(h) = m, InPlaceOf(t, h), NEW c \in Nat,
         c >= m \/ c >= Len(t), \A j \in 1 .. c : t[j] = h[j]
  PROVE  t = h
<1>. SUFFICES ASSUME t # h PROVE FALSE
  OBVIOUS
<1>1. PICK i \in Nat : 1 <= i /\ i <= m /\ i <= Len(t) /\ t[i] # h[i]
  BY Differs
<1>2. Len(t) \in Nat
  OBVIOUS
<1>3. i \in 1 .. c
  BY <1>1, <1>2
<1>. QED BY <1>1, <1>3

\* So is a text that nowhere differs from the word
LEMMA WordThere ==
  ASSUME NEW t \in Seq(Char), NEW h, Len(h) \in Nat, InPlaceOf(t, h),
         \A j \in 1 .. Len(t) : t[j] = h[j]
  PROVE  t = h
<1> DEFINE m == Len(h)
<1>. SUFFICES ASSUME t # h PROVE FALSE
  OBVIOUS
<1>1. m \in Nat /\ Len(h) = m /\ Len(t) \in Nat
  OBVIOUS
<1>2. PICK i \in Nat : 1 <= i /\ i <= m /\ i <= Len(t) /\ t[i] # h[i]
  BY <1>1, Differs
<1>3. i \in 1 .. Len(t)
  BY <1>1, <1>2
<1>. QED BY <1>2, <1>3

\* The words
LEMMA WordsAre ==
  /\ Len(HttpScheme) = 7 /\ Len(HttpVersion) = 5
  /\ \A j \in 1 .. 5 : HttpVersion[j] = "/" <=> j = 5
<1>1. Len(HttpScheme) = 7 /\ Len(HttpVersion) = 5
  BY DEF HttpScheme, HttpVersion
<1>2. /\ HttpVersion[1] = "H" /\ HttpVersion[2] = "T" /\ HttpVersion[3] = "T"
      /\ HttpVersion[4] = "P" /\ HttpVersion[5] = "/"
  BY DEF HttpVersion
<1>3. \A j \in 1 .. 5 : j = 1 \/ j = 2 \/ j = 3 \/ j = 4 \/ j = 5
  OBVIOUS
<1>. QED BY <1>1, <1>2, <1>3

\* A character more of the scheme
LEMMA SchemeMore ==
  ASSUME NEW p \in Lines, NEW t \in Seq(Char), InPlaceOf(t, HttpScheme), NEW c \in Nat, c < Len(t),
         AtScheme(t, c, p), NEW q, q = SchemeFeed(p, t[c + 1])
  PROVE  /\ AtScheme(t, c + 1, q) \/ (Refused(q, 400) /\ t # HttpScheme)
         /\ q.method = p.method
<1>0. /\ Len(t) \in Nat /\ Len(HttpScheme) = 7
      /\ t = HttpScheme => Len(t) = 7
  BY WordsAre
<1>1. /\ Fresh(p) /\ \A j \in 1 .. c : t[j] = HttpScheme[j]
      /\ c < 7 /\ p.state = "target_scheme" /\ p.i = c
  <2>1. ~ (c = 7 /\ t = HttpScheme)
    BY <1>0
  <2>. QED BY <2>1, Zenon DEF AtScheme
<1>2. CASE t[c + 1] # HttpScheme[c + 1]
  <2>1. q = To(p, "error")
    BY <1>1, <1>2, Zenon DEF SchemeFeed
  <2>2. ErrorOf(q.state) = 400 /\ q.method = p.method
    BY <2>1, ToFields, ErrorsAre
  <2>. QED BY <1>2, <2>2 DEF Refused
<1>3. CASE t[c + 1] = HttpScheme[c + 1] /\ c + 1 = 7
  <2>1. q = To(p, "target_host")
    BY <1>0, <1>1, <1>3, Zenon DEF SchemeFeed
  <2>2. /\ q.state = "target_host" /\ q.i = 0 /\ q.method = p.method
        /\ q.host = p.host /\ q.host_type = p.host_type /\ q.origin_form = p.origin_form
    BY <2>1, ToFields
  <2>3. \A j \in 1 .. c + 1 : t[j] = HttpScheme[j]
    BY <1>1, <1>3, SameSoFar
  <2>4. c + 1 \in Nat /\ c + 1 >= 7
    BY <1>3
  <2>5. t = HttpScheme
    BY <1>0, <2>3, <2>4, WordCame
  <2>6. Fresh(q)
    BY <1>1, <2>2, Zenon DEF Fresh
  <2>. QED BY <1>3, <2>2, <2>3, <2>5, <2>6, Zenon DEF AtScheme
<1>4. CASE t[c + 1] = HttpScheme[c + 1] /\ c + 1 # 7
  <2>1. q = [p EXCEPT !.i = @ + 1]
    BY <1>0, <1>1, <1>4, Zenon DEF SchemeFeed
  <2>2. /\ q.state = p.state /\ q.i = c + 1 /\ q.method = p.method
        /\ q.host = p.host /\ q.host_type = p.host_type /\ q.origin_form = p.origin_form
    BY <1>1, <2>1, CountFields
  <2>3. \A j \in 1 .. c + 1 : t[j] = HttpScheme[j]
    BY <1>1, <1>4, SameSoFar
  <2>4. c + 1 < 7
    BY <1>1, <1>4
  <2>6. Fresh(q)
    BY <1>1, <2>2, Zenon DEF Fresh
  <2>. QED BY <1>1, <2>2, <2>3, <2>4, <2>6, Zenon DEF AtScheme
<1>. QED BY <1>2, <1>3, <1>4

\* The end of a scheme
LEMMA SchemeEnded ==
  ASSUME NEW p, NEW t \in Seq(Char), InPlaceOf(t, HttpScheme), AtScheme(t, Len(t), p)
  PROVE  t = HttpScheme /\ Fresh(p) /\ p.state = "target_host" /\ p.i = 0
<1>1. Len(HttpScheme) = 7 /\ Len(HttpScheme) \in Nat /\ Len(t) \in Nat
  BY WordsAre
<1>2. Fresh(p) /\ \A j \in 1 .. Len(t) : t[j] = HttpScheme[j]
  BY DEF AtScheme
<1>3. t = HttpScheme
  BY <1>1, <1>2, WordThere, Zenon
<1>4. ~ (Len(t) < 7)
  <2>1. Len(t) = 7
    BY <1>1, <1>3, Zenon
  <2>. QED BY <2>1
<1>. QED BY <1>2, <1>3, <1>4 DEF AtScheme

\* A character more of the version.  c counts the blank in front of it.
LEMMA VersionMore ==
  ASSUME NEW p \in Lines, NEW t \in Seq(Char), InPlaceOf(t, HttpVersion), NEW c \in Nat, c <= Len(t),
         AtVersion(t, c, p), NEW q, q = VersionFeed(p, t[c])
  PROVE  /\ AtVersion(t, c + 1, q) \/ (Refused(q, 400) /\ t # HttpVersion)
         /\ Keeps(7, p, q)
<1>0. /\ Len(t) \in Nat /\ Len(HttpVersion) = 5
      /\ t = HttpVersion => Len(t) = 5
      /\ \A j \in 1 .. 5 : HttpVersion[j] = "/" <=> j = 5
  BY WordsAre
<1>1. /\ c >= 1 /\ \A j \in 1 .. c - 1 : t[j] = HttpVersion[j]
      /\ c < 6 /\ p.state = "version" /\ p.i = c - 1
  <2>1. ~ (c = 6 /\ t = HttpVersion)
    BY <1>0
  <2>. QED BY <2>1, Zenon DEF AtVersion
<1>2. /\ p.i + 1 = c /\ c \in 1 .. 5 /\ c - 1 \in Nat /\ (c - 1) + 1 = c /\ c + 1 >= 1 /\ (c + 1) - 1 = c
      /\ c + 1 < 6 <=> c # 5
  BY <1>1
<1>3. CASE t[c] # HttpVersion[c]
  <2>1. q = To(p, "error")
    BY <1>2, <1>3, Zenon DEF VersionFeed
  <2>2. ErrorOf(q.state) = 400
    BY <2>1, ToFields, ErrorsAre
  <2>3. Keeps(7, p, q)
    BY <2>1, ToFields DEF Keeps
  <2>. QED BY <1>3, <2>2, <2>3 DEF Refused
<1>4. CASE t[c] = HttpVersion[c] /\ t[c] = "/"
  <2>1. q = To(p, "version_major")
    BY <1>2, <1>4, Zenon DEF VersionFeed
  <2>2. q.state = "version_major" /\ q.i = 0 /\ Keeps(7, p, q)
    BY <2>1, ToFields DEF Keeps
  <2>3. \A j \in 1 .. (c - 1) + 1 : t[j] = HttpVersion[j]
    <3>1. t[(c - 1) + 1] = HttpVersion[(c - 1) + 1]
      BY <1>2, <1>4
    <3>2. c - 1 \in Nat
      BY <1>2
    <3>. QED BY <1>1, <3>1, <3>2, SameSoFar
  <2>4. c = 5
    BY <1>0, <1>2, <1>4
  <2>5. \A j \in 1 .. c : t[j] = HttpVersion[j]
    BY <1>2, <2>3
  <2>6. t = HttpVersion
    <3>1. c >= 5
      BY <2>4
    <3>. QED BY <1>0, <2>5, <3>1, WordCame
  <2>7. c + 1 = 6
    BY <2>4
  <2>. QED BY <1>2, <2>2, <2>5, <2>6, <2>7, Zenon DEF AtVersion
<1>5. CASE t[c] = HttpVersion[c] /\ t[c] # "/"
  <2>1. q = [p EXCEPT !.i = @ + 1]
    BY <1>2, <1>5, Zenon DEF VersionFeed
  <2>2. q.state = "version" /\ q.i = c /\ Keeps(7, p, q)
    BY <1>1, <1>2, <2>1, CountFields DEF Keeps
  <2>3. \A j \in 1 .. (c - 1) + 1 : t[j] = HttpVersion[j]
    <3>1. t[(c - 1) + 1] = HttpVersion[(c - 1) + 1]
      BY <1>2, <1>5
    <3>2. c - 1 \in Nat
      BY <1>2
    <3>. QED BY <1>1, <3>1, <3>2, SameSoFar
  <2>4. c + 1 < 6
    BY <1>0, <1>2, <1>5
  <2>5. \A j \in 1 .. c : t[j] = HttpVersion[j]
    BY <1>2, <2>3
  <2>. QED BY <1>2, <2>2, <2>4, <2>5, Zenon DEF AtVersion
<1>. QED BY <1>3, <1>4, <1>5

\* The end of a version
LEMMA VersionEnded ==
  ASSUME NEW p, NEW t \in Seq(Char), InPlaceOf(t, HttpVersion), AtVersion(t, Len(t) + 1, p)
  PROVE  t = HttpVersion /\ p.state = "version_major" /\ p.i = 0
<1>1. /\ Len(HttpVersion) = 5 /\ Len(HttpVersion) \in Nat /\ Len(t) \in Nat
      /\ (Len(t) + 1) - 1 = Len(t)
  BY WordsAre
<1>2. \A j \in 1 .. Len(t) : t[j] = HttpVersion[j]
  BY <1>1, Zenon DEF AtVersion
<1>3. t = HttpVersion
  BY <1>1, <1>2, WordThere, Zenon
<1>4. ~ (Len(t) + 1 < 6)
  <2>1. Len(t) = 5
    BY <1>1, <1>3, Zenon
  <2>. QED BY <2>1
<1>. QED BY <1>3, <1>4, Zenon DEF AtVersion

\* What the digits of a number say of its fault
LEMMA NumberAnswers ==
  ASSUME NEW t \in Seq(Char), NEW c \in Nat, c <= Len(t), \A j \in 1 .. c : t[j] \in Digit
  PROVE  /\ c >= 2 => NumberAnswer(t) = 505
         /\ c < 2 /\ c < Len(t) /\ t[c + 1] \notin Digit => NumberAnswer(t) = 400
         /\ c < 2 /\ c = Len(t) => NumberAnswer(t) = 0
<1>0. DOMAIN t = 1 .. Len(t) /\ Len(t) \in Nat
  OBVIOUS
<1>1. CASE c >= 2
  <2>1. \A i \in 1 .. Len(t) : i <= 2 => i \in 1 .. c
    BY <1>0, <1>1
  <2>2. ~ (Len(t) <= 1) /\ ~ (c < 2)
    BY <1>0, <1>1
  <2>3. ~ (\E i \in DOMAIN t : i <= 2 /\ t[i] \notin Digit)
    BY <1>0, <2>1, Zenon
  <2>4. NumberAnswer(t) = 505
    BY <2>2, <2>3, Zenon DEF NumberAnswer
  <2>. QED BY <2>2, <2>4, Zenon
<1>2. CASE c < 2 /\ c < Len(t)
  <2>1. Len(t) \in Nat
    OBVIOUS
  <2>2. c + 1 \in 1 .. Len(t) /\ c + 1 <= 2
    BY <1>2, <2>1
  <2>3. ~ (c >= 2) /\ c # Len(t)
    BY <1>2, <2>1
  <2>4. ASSUME t[c + 1] \notin Digit PROVE NumberAnswer(t) = 400
    <3>1. \E i \in DOMAIN t : i <= 2 /\ t[i] \notin Digit
      BY <1>0, <2>2, <2>4, Zenon
    <3>2. ~ (\A i \in DOMAIN t : t[i] \in Digit)
      BY <3>1, Zenon
    <3>. QED BY <3>1, <3>2, Zenon DEF NumberAnswer, AllDigits
  <2>. QED BY <2>3, <2>4, Zenon
<1>3. CASE c < 2 /\ c = Len(t)
  <2>1. Len(t) <= 1 /\ ~ (c >= 2) /\ ~ (c < Len(t)) /\ 1 .. c = 1 .. Len(t)
    BY <1>0, <1>3
  <2>2. \A j \in DOMAIN t : t[j] \in Digit
    BY <1>0, <2>1, Zenon
  <2>3. NumberAnswer(t) = 0
    BY <2>1, <2>2, Zenon DEF NumberAnswer, AllDigits
  <2>. QED BY <2>1, <2>3, Zenon
<1>4. c >= 2 \/ (c < 2 /\ c < Len(t)) \/ (c < 2 /\ c = Len(t))
  <2>1. Len(t) \in Nat
    OBVIOUS
  <2>. QED BY <2>1
<1>. QED BY <1>1, <1>2, <1>3, <1>4, Zenon

\* A character more of a number
LEMMA NumberMore ==
  ASSUME NEW p \in Lines, NEW t \in Seq(Char), NEW state, NEW next, NEW end, NEW c \in Nat, c < Len(t),
         AtNumber(t, c, p, state, next), t[c + 1] # end,
         NEW q, q = NumberFeed(p, t[c + 1], end, next)
  PROVE  /\ AtNumber(t, c + 1, q, state, next) \/ Refused(q, NumberAnswer(t))
         /\ Keeps(7, p, q)
<1>0. Len(t) \in Nat /\ c # Len(t) + 1
  OBVIOUS
<1>1. /\ c <= Len(t) /\ c <= 2 /\ p.state = state /\ p.i = c
      /\ \A j \in 1 .. c : t[j] \in Digit
  BY <1>0, Zenon DEF AtNumber
<1>2. CASE c >= 2
  <2>0. ~ (c < 2)
    BY <1>2
  <2>1. q = To(p, "error_unsupported_version")
    BY <1>1, <1>2, <2>0, Zenon DEF NumberFeed
  <2>2. ErrorOf(q.state) = 505
    BY <2>1, ToFields, ErrorsAre
  <2>3. Keeps(7, p, q)
    BY <2>1, ToFields DEF Keeps
  <2>4. NumberAnswer(t) = 505
    BY <1>1, <1>2, NumberAnswers
  <2>. QED BY <2>2, <2>3, <2>4 DEF Refused
<1>3. CASE c < 2 /\ t[c + 1] \notin Digit
  <2>1. ~ (c >= 2)
    BY <1>3
  <2>2. q = To(p, "error")
    BY <1>1, <1>3, <2>1, Zenon DEF NumberFeed
  <2>3. ErrorOf(q.state) = 400
    BY <2>2, ToFields, ErrorsAre
  <2>4. Keeps(7, p, q)
    BY <2>2, ToFields DEF Keeps
  <2>5. NumberAnswer(t) = 400
    BY <1>1, <1>3, NumberAnswers
  <2>. QED BY <2>3, <2>4, <2>5 DEF Refused
<1>4. CASE c < 2 /\ t[c + 1] \in Digit
  <2>1. ~ (c >= 2)
    BY <1>4
  <2>2. q = [p EXCEPT !.i = @ + 1]
    BY <1>1, <1>4, <2>1, Zenon DEF NumberFeed
  <2>3. q.state = state /\ q.i = c + 1
    BY <1>1, <2>2, CountFields
  <2>4. Keeps(7, p, q)
    BY <2>2, CountFields DEF Keeps
  <2>5. \A j \in 1 .. c + 1 : t[j] \in Digit
    BY <1>1, <1>4, AllSoFar
  <2>6. c + 1 <= Len(t) /\ c + 1 <= 2
    BY <1>0, <1>4
  <2>. QED BY <2>3, <2>4, <2>5, <2>6, Zenon DEF AtNumber
<1>5. c >= 2 \/ c < 2
  OBVIOUS
<1>. QED BY <1>2, <1>3, <1>4, <1>5, Zenon

\* The character after a number
LEMMA NumberEnds ==
  ASSUME NEW p \in Lines, NEW t \in Seq(Char), NEW state, NEW next, NEW end, NEW c \in Nat, c = Len(t),
         AtNumber(t, c, p, state, next), end \notin Digit,
         NEW q, q = NumberFeed(p, end, end, next)
  PROVE  /\ AtNumber(t, c + 1, q, state, next) \/ Refused(q, NumberAnswer(t))
         /\ Keeps(7, p, q)
<1>0. Len(t) \in Nat /\ c # Len(t) + 1
  OBVIOUS
<1>1. /\ c <= Len(t) /\ c <= 2 /\ p.state = state /\ p.i = c
      /\ \A j \in 1 .. c : t[j] \in Digit
  BY <1>0, Zenon DEF AtNumber
<1>2. CASE c >= 2
  <2>0. ~ (c < 2)
    BY <1>2
  <2>1. q = To(p, "error_unsupported_version")
    BY <1>1, <1>2, <2>0, Zenon DEF NumberFeed
  <2>2. ErrorOf(q.state) = 505
    BY <2>1, ToFields, ErrorsAre
  <2>3. Keeps(7, p, q)
    BY <2>1, ToFields DEF Keeps
  <2>4. NumberAnswer(t) = 505
    BY <1>1, <1>2, NumberAnswers
  <2>. QED BY <2>2, <2>3, <2>4 DEF Refused
<1>3. CASE c < 2
  <2>1. ~ (c >= 2)
    BY <1>3
  <2>2. q = To(p, next)
    BY <1>1, <1>3, <2>1, Zenon DEF NumberFeed
  <2>3. q.state = next /\ q.i = 0
    BY <2>2, ToFields
  <2>4. Keeps(7, p, q)
    BY <2>2, ToFields DEF Keeps
  <2>5. NumberAnswer(t) = 0
    BY <1>1, <1>3, NumberAnswers
  <2>6. c + 1 = Len(t) + 1
    OBVIOUS
  <2>. QED BY <2>3, <2>4, <2>5, <2>6, Zenon DEF AtNumber
<1>. QED BY <1>2, <1>3

\* The end of a number
LEMMA NumberEnded ==
  ASSUME NEW p, NEW t \in Seq(Char), NEW state, NEW next, AtNumber(t, Len(t) + 1, p, state, next)
  PROVE  NumberAnswer(t) = 0 /\ p.state = next /\ p.i = 0
<1>1. Len(t) \in Nat /\ ~ (Len(t) + 1 <= Len(t))
  OBVIOUS
<1>. QED BY <1>1, Zenon DEF AtNumber

\* The last character
LEMMA EndMore ==
  ASSUME NEW p \in Lines, NEW t \in Seq(Char), Len(t) = 1, AtEnd(t, 0, p),
         NEW q, q = To(p, IF t[1] = "\n" THEN "done" ELSE "error")
  PROVE  /\ AtEnd(t, 1, q) \/ (Refused(q, 400) /\ t # <<"\n">>)
         /\ Keeps(7, p, q)
<1>1. Keeps(7, p, q)
  BY ToFields DEF Keeps
<1>2. CASE t[1] = "\n"
  <2>1. q = To(p, "done")
    BY <1>2
  <2>2. q.state = "done"
    BY <2>1, ToFields
  <2>3. t = <<"\n">>
    <3>. DEFINE n == <<t[1]>>
    <3>1. t[1] \in Char
      OBVIOUS
    <3>2. n \in Seq(Char) /\ Len(n) = 1 /\ n[1] = t[1]
      BY <3>1
    <3>. HIDE DEF n
    <3>3. t = n
      BY <3>2, SeqEqual
    <3>. QED BY <1>2, <3>3 DEF n
  <2>. QED BY <1>1, <2>2, <2>3, Zenon DEF AtEnd
<1>3. CASE t[1] # "\n"
  <2>1. q = To(p, "error")
    BY <1>3
  <2>2. ErrorOf(q.state) = 400
    BY <2>1, ToFields, ErrorsAre
  <2>3. t # <<"\n">>
    BY <1>3
  <2>. QED BY <1>1, <2>2, <2>3 DEF Refused
<1>. QED BY <1>2, <1>3

-----------------------------------------------------------------------------
(* The path *)

\* A character more of the path
LEMMA PathMore ==
  ASSUME NEW p \in Lines, NEW t \in Seq(Char), NEW c \in Nat, c < Len(t), AtPath(t, c, p),
         t[c + 1] # Space, NEW q, q = OriginFormFeed(p, t[c + 1])
  PROVE  /\ AtPath(t, c + 1, q) \/ (Refused(q, 400) /\ Len(t) >= MaxOriginForm)
         /\ Keeps(5, p, q)
<1>0. Len(t) \in Nat /\ MaxOriginForm \in Nat /\ c \in 0 .. Len(t)
  BY LineAssumption
<1>1. /\ p.state = "target_ogform" /\ p.i = c /\ c >= 1 /\ c <= MaxOriginForm
      /\ p.origin_form = SubSeq(t, 1, c)
  BY DEF AtPath
<1>2. CASE c >= MaxOriginForm
  <2>0. ~ (c < MaxOriginForm)
    BY <1>0, <1>2
  <2>1. q = To(p, "error")
    BY <1>1, <1>2, <2>0, Zenon DEF OriginFormFeed
  <2>2. ErrorOf(q.state) = 400
    BY <2>1, ToFields, ErrorsAre
  <2>3. Keeps(5, p, q)
    BY <2>1, ToFields DEF Keeps
  <2>4. Len(t) >= MaxOriginForm
    BY <1>0, <1>2
  <2>. QED BY <2>2, <2>3, <2>4 DEF Refused
<1>3. CASE ~ (c >= MaxOriginForm)
  <2>1. q = Take(p, "origin_form", t[c + 1])
    BY <1>1, <1>3, Zenon DEF OriginFormFeed, Space
  <2>2. q.state = "target_ogform" /\ q.i = c + 1 /\ q.origin_form = Append(SubSeq(t, 1, c), t[c + 1])
    <3>1. q.state = p.state /\ q.i = p.i + 1 /\ q.origin_form = Append(p.origin_form, t[c + 1])
      BY <2>1, PathTaken
    <3>. QED BY <1>1, <3>1, Zenon
  <2>3. Keeps(5, p, q)
    BY <2>1, PathTaken DEF Keeps
  <2>4. q.origin_form = SubSeq(t, 1, c + 1)
    BY <1>0, <2>2, Prefixes
  <2>5. c + 1 >= 1 /\ c + 1 <= MaxOriginForm
    BY <1>0, <1>3
  <2>. QED BY <2>2, <2>3, <2>4, <2>5 DEF AtPath
<1>. QED BY <1>2, <1>3

\* The blank after the path, which is the version's first character
LEMMA PathEnds ==
  ASSUME NEW p \in Lines, NEW t \in Seq(Char), AtPath(t, Len(t), p), NEW v,
         NEW q, q = OriginFormFeed(p, Space)
  PROVE  /\ \/ q.origin_form = t /\ Len(t) < MaxOriginForm /\ AtVersion(v, 1, q)
            \/ Refused(q, 400) /\ Len(t) >= MaxOriginForm
         /\ Keeps(5, p, q)
<1>0. Len(t) \in Nat /\ MaxOriginForm \in Nat /\ Len(t) \in 0 .. Len(t)
  BY LineAssumption
<1>1. p.i = Len(t) /\ p.origin_form = t
  BY <1>0, Prefixes DEF AtPath
<1>2. CASE Len(t) >= MaxOriginForm
  <2>0. ~ (Len(t) < MaxOriginForm)
    BY <1>0, <1>2
  <2>1. q = To(p, "error")
    BY <1>1, <1>2, <2>0, Zenon DEF OriginFormFeed
  <2>2. ErrorOf(q.state) = 400
    BY <2>1, ToFields, ErrorsAre
  <2>3. Keeps(5, p, q)
    BY <2>1, ToFields DEF Keeps
  <2>. QED BY <1>2, <2>2, <2>3 DEF Refused
<1>3. CASE Len(t) < MaxOriginForm
  <2>0. ~ (Len(t) >= MaxOriginForm)
    BY <1>0, <1>3
  <2>1. q = To(p, "version")
    BY <1>1, <1>3, <2>0, Zenon DEF OriginFormFeed, Space
  <2>2. q.state = "version" /\ q.i = 0 /\ q.origin_form = t
    BY <1>1, <2>1, ToFields
  <2>3. Keeps(5, p, q)
    BY <2>1, ToFields DEF Keeps
  <2>4. 1 >= 1 /\ 1 - 1 = 0 /\ 1 < 6 /\ \A j \in 1 .. 0 : v[j] = HttpVersion[j]
    OBVIOUS
  <2>5. AtVersion(v, 1, q)
    BY <2>2, <2>4, Zenon DEF AtVersion
  <2>. QED BY <1>3, <2>2, <2>3, <2>5
<1>. QED BY <1>0, <1>2, <1>3

-----------------------------------------------------------------------------
(* The host *)

\* The brackets in front of a literal and what follows them
LEMMA InBracketsIs ==
  ASSUME NEW t \in Seq(Char)
  PROVE  /\ Brackets(t) \in 0 .. Len(t)
         /\ InBrackets(t) \in Seq(Char) /\ Len(InBrackets(t)) = Len(t) - Brackets(t)
         /\ \A j \in 1 .. Brackets(t) : t[j] = "["
         /\ Brackets(t) < Len(t) => t[Brackets(t) + 1] # "["
         /\ \A i \in 1 .. Len(InBrackets(t)) : InBrackets(t)[i] = t[Brackets(t) + i]
<1> DEFINE T == {i \in 1 .. Len(t) + 1 : i <= Len(t) => t[i] # "["}
           First(i) == (i <= Len(t) => t[i] # "[") /\ \A j \in 1 .. i - 1 : t[j] = "["
           f == CHOOSE i \in 1 .. Len(t) + 1 : First(i)
<1>0. Len(t) \in Nat
  OBVIOUS
<1>1. \E i \in 1 .. Len(t) + 1 : First(i)
  <2>1. Len(t) + 1 \in T
    BY <1>0
  <2>2. T \in SUBSET Nat /\ T # {}
    BY <2>1
  <2>. HIDE DEF T
  <2>3. PICK i \in T : \A m \in T : i <= m
    BY <2>2, Least
  <2>4. i \in 1 .. Len(t) + 1 /\ (i <= Len(t) => t[i] # "[")
    BY DEF T
  <2>5. ASSUME NEW j \in 1 .. i - 1 PROVE t[j] = "["
    <3>1. j \in 1 .. Len(t) + 1 /\ j <= Len(t) /\ ~ (i <= j)
      BY <1>0, <2>4
    <3>. QED BY <2>3, <3>1 DEF T
  <2>. QED BY <2>4, <2>5
<1>2. f \in 1 .. Len(t) + 1 /\ First(f)
  BY <1>1
<1>3. InBrackets(t) = SubSeq(t, f, Len(t))
  BY Zenon DEF InBrackets
<1>. HIDE DEF f, First
<1>4. f \in Int /\ Len(t) \in Int /\ \A i \in f .. Len(t) : t[i] \in Char
  <2>1. \A i \in f .. Len(t) : i \in 1 .. Len(t)
    BY <1>0, <1>2
  <2>2. \A i \in 1 .. Len(t) : t[i] \in Char
    OBVIOUS
  <2>. QED BY <1>0, <1>2, <2>1, <2>2
<1> DEFINE s == SubSeq(t, f, Len(t))
<1>5. /\ s \in Seq(Char) /\ Len(s) = IF f <= Len(t) THEN Len(t) - f + 1 ELSE 0
      /\ \A i \in 1 .. Len(t) - f + 1 : s[i] = t[f + i - 1]
  BY <1>4, SubSeqProperties
<1>. HIDE DEF s
<1>6. Len(s) = Len(t) - (f - 1)
  BY <1>0, <1>2, <1>5
<1>7. InBrackets(t) = s /\ Len(t) - Len(s) = f - 1
  BY <1>0, <1>2, <1>3, <1>6 DEF s
<1>8. Brackets(t) = f - 1
  BY <1>7 DEF Brackets
<1>9. \A i \in 1 .. Len(s) : s[i] = t[(f - 1) + i]
  <2>1. \A i \in 1 .. Len(s) : i \in 1 .. Len(t) - f + 1 /\ f + i - 1 = (f - 1) + i
    BY <1>0, <1>2, <1>6
  <2>. QED BY <1>5, <2>1
<1>10. /\ \A j \in 1 .. f - 1 : t[j] = "["
       /\ f - 1 < Len(t) => t[f] # "["
  BY <1>0, <1>2 DEF First
<1>11. (f - 1) + 1 = f /\ f - 1 \in 0 .. Len(t)
  BY <1>0, <1>2
<1>. QED BY <1>5, <1>6, <1>7, <1>8, <1>9, <1>10, <1>11, Zenon

\* One at least in front of a literal, and none in front of a name
LEMMA BracketedIs ==
  ASSUME NEW t \in Seq(Char)
  PROVE  /\ Bracketed(t) <=> (Len(t) >= 1 /\ t[1] = "[")
         /\ Bracketed(t) => Brackets(t) >= 1
<1>1. Bracketed(t) <=> (Len(t) >= 1 /\ t[1] = "[")
  BY DEF Bracketed
<1>2. ASSUME Bracketed(t) PROVE Brackets(t) >= 1
  <2>1. Brackets(t) \in 0 .. Len(t) /\ (Brackets(t) < Len(t) => t[Brackets(t) + 1] # "[")
    BY InBracketsIs
  <2>2. Len(t) >= 1 /\ t[1] = "["
    BY <1>1, <1>2
  <2>3. Brackets(t) # 0
    BY <2>1, <2>2
  <2>. QED BY <2>1, <2>3
<1>. QED BY <1>1, <1>2

\* A host has none of the characters that end one
HostText(t) ==
  /\ \A j \in 1 .. Len(t) : t[j] \notin EndOfAuthority /\ t[j] # Space
  /\ \A j \in 1 .. Len(t) : t[j] = ":" => Bracketed(t) /\ t[j - 1] # "]"

\* The faults of a host
HostFault(t) ==
  IF Bracketed(t) THEN Len(InBrackets(t)) >= MaxFqdnLength \/ Literal(t) \notin Ipv6Literals
  ELSE Len(t) >= MaxFqdnLength

\* A character more of a name
LEMMA HostNameMore ==
  ASSUME NEW p \in Lines, NEW t \in Seq(Char), HostText(t), ~Bracketed(t), NEW c \in Nat, c < Len(t),
         AtHost(t, c, p), NEW q, q = HostFeed(p, t[c + 1])
  PROVE  /\ AtHost(t, c + 1, q) \/ (Refused(q, 400) /\ HostFault(t))
         /\ q.method = p.method
<1>0. /\ Len(t) \in Nat /\ MaxFqdnLength \in Nat /\ c \in 0 .. Len(t) /\ c + 1 \in 1 .. Len(t)
      /\ c = 0 => c + 1 = 1
  BY LineAssumption
<1>1. /\ p.state = "target_host" /\ p.i = c /\ p.i <= MaxFqdnLength /\ p.origin_form = <<>>
      /\ p.host = SubSeq(t, 1, c) /\ p.host_type = "domain"
  BY Zenon DEF AtHost
<1>2. t[c + 1] \notin EndOfAuthority /\ t[c + 1] # Space /\ t[c + 1] # ":"
  BY <1>0, Zenon DEF HostText
<1>3. ~ (p.i = 0 /\ t[c + 1] = "[")
  <2>1. Len(t) >= 1
    BY <1>0
  <2>. QED BY <1>0, <1>1, <2>1, BracketedIs
<1>4. CASE p.i >= MaxFqdnLength
  <2>0. ~ (p.i < MaxFqdnLength) /\ Len(t) >= MaxFqdnLength
    BY <1>0, <1>1, <1>4
  <2>1. q = To(p, "error")
    BY <1>4, <2>0, Zenon DEF HostFeed
  <2>2. ErrorOf(q.state) = 400 /\ q.method = p.method
    BY <2>1, ToFields, ErrorsAre
  <2>3. HostFault(t)
    BY <2>0 DEF HostFault
  <2>. QED BY <2>2, <2>3 DEF Refused
<1>5. CASE p.i < MaxFqdnLength
  <2>0. ~ (p.i >= MaxFqdnLength) /\ c + 1 <= MaxFqdnLength
    BY <1>0, <1>1, <1>5
  <2>1. q = NamedHostFeed(p, t[c + 1])
    BY <1>1, <1>3, <2>0, Zenon DEF HostFeed
  <2>2. q = Take(p, "host", t[c + 1])
    BY <1>2, <2>1, Zenon DEF NamedHostFeed, Space
  <2>3. /\ q.state = p.state /\ q.i = p.i + 1 /\ q.method = p.method /\ q.host_type = p.host_type
        /\ q.host = Append(p.host, t[c + 1]) /\ q.origin_form = p.origin_form
    BY <2>2, HostTaken
  <2>4. q.host = SubSeq(t, 1, c + 1)
    <3>1. Append(SubSeq(t, 1, c), t[c + 1]) = SubSeq(t, 1, c + 1)
      BY <1>0, Prefixes
    <3>. QED BY <1>1, <2>3, <3>1
  <2>. QED BY <1>1, <2>0, <2>3, <2>4, Zenon DEF AtHost
<1>6. p.i >= MaxFqdnLength \/ p.i < MaxFqdnLength
  BY <1>0, <1>1
<1>. QED BY <1>4, <1>5, <1>6, Zenon

\* The place in a bracketed host
LEMMA InsideIs ==
  ASSUME NEW p \in Lines, NEW t \in Seq(Char), Bracketed(t), NEW c \in Nat, c <= Len(t), AtHost(t, c, p)
  PROVE  /\ p.state = "target_host" /\ p.i <= MaxFqdnLength /\ p.origin_form = <<>>
         /\ Brackets(t) \in Nat /\ Brackets(t) <= Len(t) /\ Brackets(t) >= 1
         /\ InBrackets(t) \in Seq(Char) /\ Len(InBrackets(t)) = Len(t) - Brackets(t)
         /\ p.i \in 0 .. Len(InBrackets(t))
         /\ c <= Brackets(t) => p.i = 0
         /\ c > Brackets(t) => p.i = c - Brackets(t)
         /\ p.host = SubSeq(InBrackets(t), 1, p.i)
         /\ c > 0 => p.host_type = "ipv6"
         /\ \A j \in 1 .. p.i : p.host[j] = t[Brackets(t) + j]
         /\ p.host \in Seq(Char) /\ Len(p.host) = p.i
<1>1. /\ p.state = "target_host" /\ p.i <= MaxFqdnLength /\ p.origin_form = <<>>
      /\ p.i = IF c <= Brackets(t) THEN 0 ELSE c - Brackets(t)
      /\ p.host = SubSeq(InBrackets(t), 1, p.i)
      /\ c > 0 => p.host_type = "ipv6"
  BY Zenon DEF AtHost
<1>2. /\ Brackets(t) \in 0 .. Len(t) /\ Brackets(t) >= 1
      /\ InBrackets(t) \in Seq(Char) /\ Len(InBrackets(t)) = Len(t) - Brackets(t)
      /\ \A i \in 1 .. Len(InBrackets(t)) : InBrackets(t)[i] = t[Brackets(t) + i]
  BY InBracketsIs, BracketedIs
<1>3. Len(t) \in Nat /\ Len(InBrackets(t)) \in Nat
  BY <1>2
<1>4. /\ p.i \in 0 .. Len(InBrackets(t))
      /\ c <= Brackets(t) => p.i = 0
      /\ c > Brackets(t) => p.i = c - Brackets(t)
      /\ Brackets(t) \in Nat /\ Brackets(t) <= Len(t)
  <2>1. CASE c <= Brackets(t)
    BY <1>1, <1>2, <1>3, <2>1
  <2>2. CASE ~ (c <= Brackets(t))
    BY <1>1, <1>2, <1>3, <2>2
  <2>. QED BY <2>1, <2>2
<1>5. /\ p.host \in Seq(Char) /\ Len(p.host) = p.i
      /\ \A j \in 1 .. p.i : p.host[j] = InBrackets(t)[j]
  BY <1>1, <1>2, <1>4, Prefixes
<1>6. \A j \in 1 .. p.i : j \in 1 .. Len(InBrackets(t))
  BY <1>3, <1>4
<1>7. \A j \in 1 .. p.i : p.host[j] = t[Brackets(t) + j]
  BY <1>2, <1>5, <1>6, Zenon
<1>. QED BY <1>1, <1>2, <1>4, <1>5, <1>7, Zenon

\* A character more of a literal
LEMMA LiteralMore ==
  ASSUME NEW p \in Lines, NEW t \in Seq(Char), HostText(t), Bracketed(t), NEW c \in Nat, c < Len(t),
         AtHost(t, c, p), NEW q, q = HostFeed(p, t[c + 1])
  PROVE  /\ AtHost(t, c + 1, q) \/ (Refused(q, 400) /\ HostFault(t))
         /\ q.method = p.method
<1> DEFINE b == Brackets(t)
           n == InBrackets(t)
<1>0. /\ Len(t) \in Nat /\ MaxFqdnLength \in Nat /\ c + 1 \in 1 .. Len(t) /\ c <= Len(t) /\ c + 1 > 0
  BY LineAssumption
<1>1. /\ p.state = "target_host" /\ p.i <= MaxFqdnLength /\ p.origin_form = <<>>
      /\ b \in Nat /\ b <= Len(t) /\ b >= 1
      /\ n \in Seq(Char) /\ Len(n) = Len(t) - b
      /\ p.i \in 0 .. Len(n)
      /\ c <= b => p.i = 0
      /\ c > b => p.i = c - b
      /\ p.host = SubSeq(n, 1, p.i)
      /\ c > 0 => p.host_type = "ipv6"
      /\ \A j \in 1 .. p.i : p.host[j] = t[b + j]
      /\ p.host \in Seq(Char) /\ Len(p.host) = p.i
  BY <1>0, InsideIs
<1>2. /\ \A j \in 1 .. b : t[j] = "["
      /\ b < Len(t) => t[b + 1] # "["
      /\ \A i \in 1 .. Len(n) : n[i] = t[b + i]
  BY InBracketsIs
<1>3. t[c + 1] \notin EndOfAuthority /\ t[c + 1] # Space /\ (t[c + 1] = ":" => t[c] # "]")
  <2>1. (c + 1) - 1 = c
    OBVIOUS
  <2>. QED BY <1>0, <2>1, Zenon DEF HostText
<1>. HIDE DEF b, n
<1>4. CASE p.i >= MaxFqdnLength
  <2>0. ~ (p.i < MaxFqdnLength) /\ Len(n) >= MaxFqdnLength
    BY <1>0, <1>1, <1>4
  <2>1. q = To(p, "error")
    BY <1>4, <2>0, Zenon DEF HostFeed
  <2>2. ErrorOf(q.state) = 400 /\ q.method = p.method
    BY <2>1, ToFields, ErrorsAre
  <2>3. HostFault(t)
    BY <2>0 DEF HostFault, n
  <2>. QED BY <2>2, <2>3 DEF Refused
<1>5. CASE p.i < MaxFqdnLength /\ p.i = 0 /\ t[c + 1] = "["
  <2>0. ~ (p.i >= MaxFqdnLength)
    BY <1>0, <1>5
  <2>1. q = [p EXCEPT !.host_type = "ipv6"]
    BY <1>5, <2>0, Zenon DEF HostFeed
  <2>2. /\ q.state = p.state /\ q.i = p.i /\ q.method = p.method /\ q.host_type = "ipv6"
        /\ q.host = p.host /\ q.origin_form = p.origin_form
    BY <2>1 DEF Lines
  <2>3. c < b
    <3>1. ~ (c > b)
      BY <1>1, <1>5
    <3>2. c # b
      BY <1>0, <1>2, <1>5
    <3>. QED BY <1>1, <3>1, <3>2
  <2>4. c + 1 <= b
    BY <1>1, <2>3
  <2>. QED BY <1>1, <1>5, <2>2, <2>4, Zenon DEF AtHost, b, n
<1>6. CASE p.i < MaxFqdnLength /\ ~ (p.i = 0 /\ t[c + 1] = "[")
  <2>0. ~ (p.i >= MaxFqdnLength)
    BY <1>0, <1>1, <1>6
  <2>1. c >= b /\ p.i = c - b
    <3>1. c < b => c + 1 \in 1 .. b /\ c <= b
      BY <1>1
    <3>2. ~ (c < b)
      BY <1>1, <1>2, <1>6, <3>1, Zenon
    <3>3. c = b => p.i = 0 /\ c - b = 0
      BY <1>1
    <3>4. c = b \/ c > b
      BY <1>1, <3>2
    <3>. QED BY <1>1, <3>2, <3>3, <3>4
  <2>2. p.host_type = "ipv6"
    BY <1>1, <2>1
  <2>3. q = BracketedHostFeed(p, t[c + 1])
    BY <1>6, <2>0, <2>2, Zenon DEF HostFeed
  <2>4. t[c + 1] = ":" => ~ (p.host # <<>> /\ p.host[Len(p.host)] = "]")
    <3>. SUFFICES ASSUME t[c + 1] = ":", p.host # <<>> PROVE p.host[Len(p.host)] # "]"
      OBVIOUS
    <3>1. p.i # 0
      BY <1>1
    <3>2. p.i \in 1 .. p.i /\ b + p.i = c
      BY <1>1, <2>1, <3>1
    <3>3. p.host[p.i] = t[c]
      BY <1>1, <3>2
    <3>. QED BY <1>1, <1>3, <3>3
  <2>5. q = Take(p, "host", t[c + 1])
    BY <1>3, <2>3, <2>4, Zenon DEF BracketedHostFeed, Space
  <2>6. /\ q.state = p.state /\ q.i = p.i + 1 /\ q.method = p.method /\ q.host_type = p.host_type
        /\ q.host = Append(p.host, t[c + 1]) /\ q.origin_form = p.origin_form
    BY <2>5, HostTaken
  <2>7. p.i < Len(n) /\ p.i + 1 \in 1 .. Len(n) /\ b + (p.i + 1) = c + 1
    BY <1>0, <1>1, <2>1
  <2>8. n[p.i + 1] = t[c + 1]
    BY <1>2, <2>7
  <2>9. q.host = SubSeq(n, 1, p.i + 1)
    <3>1. Append(SubSeq(n, 1, p.i), n[p.i + 1]) = SubSeq(n, 1, p.i + 1)
      BY <1>1, <2>7, Prefixes
    <3>. QED BY <1>1, <2>6, <2>8, <3>1
  <2>10. ~ (c + 1 <= b) /\ p.i + 1 = (c + 1) - b /\ p.i + 1 <= MaxFqdnLength
    BY <1>0, <1>1, <1>6, <2>1
  <2>. QED BY <1>1, <2>2, <2>6, <2>9, <2>10, Zenon DEF AtHost, b, n
<1>7. p.i >= MaxFqdnLength \/ p.i < MaxFqdnLength
  BY <1>0, <1>1
<1>. QED BY <1>4, <1>5, <1>6, <1>7, Zenon

-----------------------------------------------------------------------------
(* What begins after the host or the port *)

\* The first character of a part that ends the host or the port
Opens(part, t, x) ==
  \/ part = "port" /\ x = ":"
  \/ part = "path" /\ t \in Seq(Char) /\ Len(t) >= 1 /\ x = t[1] /\ x \in EndOfAuthority
  \/ part = "version" /\ x = Space

\* The parser after it
Opened(part, t, q) ==
  /\ part = "port" => AtPort(t, 1, q)
  /\ part = "path" => AtPath(t, 1, q)
  /\ part = "version" =>
       AtVersion(t, 1, q) /\ q.origin_form = IF q.method = Options THEN <<>> ELSE <<"/">>

\* They are told apart
LEMMA OpensIs ==
  ASSUME NEW part, NEW t, NEW x, Opens(part, t, x)
  PROVE  /\ x \in EndOfAuthority \union {":", " "}
         /\ part # "port" => x \in EndOfAuthority \union {" "}
         /\ part = "port" => x = ":" /\ x \notin EndOfAuthority \union {" "}
         /\ part = "version" <=> x = " "
         /\ part # "port" => x # ":"
         /\ x # "["
         /\ part \in {"port", "path", "version"}
<1>1. " " \notin EndOfAuthority /\ ":" \notin EndOfAuthority /\ "[" \notin EndOfAuthority
  BY Zenon DEF EndOfAuthority
<1>2. ":" # " " /\ "[" # " " /\ "[" # ":"
  BY Zenon
<1>. QED BY <1>1, <1>2, Zenon DEF Opens, Space

\* The version begins
LEMMA VersionOpens ==
  ASSUME NEW t, NEW q, q.state = "version", q.i = 0
  PROVE  AtVersion(t, 1, q)
<1>1. 1 >= 1 /\ 1 - 1 = 0 /\ 1 < 6 /\ \A j \in 1 .. 0 : t[j] = HttpVersion[j]
  OBVIOUS
<1>. QED BY <1>1, Zenon DEF AtVersion

\* The path begins
LEMMA PathOpens ==
  ASSUME NEW t \in Seq(Char), Len(t) >= 1, NEW q, q.state = "target_ogform", q.i = 1,
         q.origin_form = <<t[1]>>
  PROVE  AtPath(t, 1, q)
<1>1. Len(t) \in Nat /\ 0 \in 0 .. Len(t) /\ 0 < Len(t) /\ 0 + 1 = 1
  OBVIOUS
<1>2. SubSeq(t, 1, 0) = <<>> /\ Append(SubSeq(t, 1, 0), t[0 + 1]) = SubSeq(t, 1, 0 + 1)
  BY <1>1, Prefixes
<1>3. Append(<<>>, t[1]) = <<t[1]>>
  OBVIOUS
<1>4. SubSeq(t, 1, 1) = <<t[1]>>
  BY <1>1, <1>2, <1>3, Zenon
<1>5. 1 >= 1 /\ 1 <= MaxOriginForm
  BY LineAssumption
<1>. QED BY <1>4, <1>5, Zenon DEF AtPath

\* AuthorityEnds: a path or the version begins
LEMMA AuthorityEnded ==
  ASSUME NEW p \in Lines, p.origin_form = <<>>, NEW part, NEW t, NEW x, Opens(part, t, x), part # "port",
         NEW q, q = AuthorityEnds(p, x)
  PROVE  /\ Opened(part, t, q)
         /\ q.method = p.method /\ q.host = p.host /\ q.host_type = p.host_type /\ q.port = p.port
         /\ ErrorOf(q.state) = 0
<1>0. ErrorOf("version") = 0 /\ ErrorOf("target_ogform") = 0
  BY DEF ErrorOf
<1>1. CASE part = "version"
  <2>1. q = NoPath(p)
    BY <1>1, OpensIs, Zenon DEF AuthorityEnds
  <2>. DEFINE v == To(p, "version")
  <2>2. /\ v.state = "version" /\ v.i = 0 /\ v.method = p.method /\ v.host = p.host
        /\ v.host_type = p.host_type /\ v.port = p.port /\ v.origin_form = <<>>
    BY ToFields
  <2>3. v \in Lines
    <3>1. "version" \in LineStates
      BY DEF LineStates
    <3>. QED BY <3>1, ToIs
  <2>4. q = IF p.method = Options THEN v ELSE [v EXCEPT !.origin_form = <<"/">>]
    BY <2>1, Zenon DEF NoPath
  <2>. HIDE DEF v
  <2>5. CASE p.method = Options
    <3>1. q = v
      BY <2>4, <2>5
    <3>2. AtVersion(t, 1, q)
      BY <2>2, <3>1, VersionOpens
    <3>. QED BY <1>0, <1>1, <2>2, <2>5, <3>1, <3>2 DEF Opened
  <2>6. CASE p.method # Options
    <3>1. q = [v EXCEPT !.origin_form = <<"/">>]
      BY <2>4, <2>6
    <3>2. /\ q.state = v.state /\ q.i = v.i /\ q.method = v.method /\ q.host = v.host
          /\ q.host_type = v.host_type /\ q.port = v.port /\ q.origin_form = <<"/">>
      BY <2>3, <3>1 DEF Lines
    <3>3. AtVersion(t, 1, q)
      BY <2>2, <3>2, VersionOpens
    <3>4. q.method # Options
      BY <2>2, <2>6, <3>2
    <3>. QED BY <1>0, <1>1, <2>2, <3>2, <3>3, <3>4 DEF Opened
  <2>. QED BY <2>5, <2>6
<1>2. CASE part = "path"
  <2>0. x # " " /\ t \in Seq(Char) /\ Len(t) >= 1 /\ x = t[1]
    BY <1>2, OpensIs, Zenon DEF Opens
  <2>. DEFINE v == To(p, "target_ogform")
  <2>1. q = Take(v, "origin_form", x)
    BY <2>0, Zenon DEF AuthorityEnds
  <2>2. /\ v.state = "target_ogform" /\ v.i = 0 /\ v.method = p.method /\ v.host = p.host
        /\ v.host_type = p.host_type /\ v.port = p.port /\ v.origin_form = <<>>
    BY ToFields
  <2>3. v \in Lines
    <3>1. "target_ogform" \in LineStates
      BY DEF LineStates
    <3>. QED BY <3>1, ToIs
  <2>. HIDE DEF v
  <2>4. /\ q.state = v.state /\ q.i = v.i + 1 /\ q.method = v.method /\ q.host = v.host
        /\ q.host_type = v.host_type /\ q.port = v.port /\ q.origin_form = Append(v.origin_form, x)
    BY <2>1, <2>3, PathTaken
  <2>5. Append(<<>>, x) = <<x>> /\ 0 + 1 = 1
    OBVIOUS
  <2>6. q.state = "target_ogform" /\ q.i = 1 /\ q.origin_form = <<t[1]>>
    BY <2>0, <2>2, <2>4, <2>5, Zenon
  <2>7. AtPath(t, 1, q)
    BY <2>0, <2>6, PathOpens
  <2>8. ErrorOf(q.state) = 0
    BY <1>0, <2>6
  <2>. QED BY <1>2, <2>2, <2>4, <2>7, <2>8 DEF Opened
<1>. QED BY <1>1, <1>2, OpensIs

\* HostEnds: the port is 80 for now, and a port, a path or the version begins
LEMMA HostEnded ==
  ASSUME NEW p \in Lines, p.origin_form = <<>>, NEW part, NEW t, NEW x, Opens(part, t, x),
         NEW q, q = HostEnds(p, x)
  PROVE  /\ Opened(part, t, q) /\ q.port = Swapped(80)
         /\ q.method = p.method /\ q.host = p.host /\ q.host_type = p.host_type
         /\ ErrorOf(q.state) = 0
<1> DEFINE k == [p EXCEPT !.port = Swapped(80)]
<1>0. Swapped(80) \in Int
  BY SwappedIsInt
<1>1. /\ k \in Lines /\ k.method = p.method /\ k.host = p.host /\ k.host_type = p.host_type
      /\ k.port = Swapped(80) /\ k.origin_form = <<>>
  BY <1>0 DEF Lines
<1>2. q = IF x = ":" THEN To(k, "target_port") ELSE AuthorityEnds(k, x)
  BY Zenon DEF HostEnds
<1>. HIDE DEF k
<1>3. CASE part = "port"
  <2>1. q = To(k, "target_port")
    BY <1>2, <1>3, OpensIs, Zenon
  <2>2. /\ q.state = "target_port" /\ q.i = 0 /\ q.method = k.method /\ q.host = k.host
        /\ q.host_type = k.host_type /\ q.port = k.port /\ q.origin_form = k.origin_form
    BY <1>1, <2>1, ToFields
  <2>3. /\ 1 - 1 = 0 /\ 0 \in 0 .. 5 /\ 0 \notin 1 .. 4 /\ \A j \in 1 .. 0 : t[j] \in Digit
    OBVIOUS
  <2>4. AtPort(t, 1, q)
    BY <1>1, <2>2, <2>3, Zenon DEF AtPort
  <2>5. ErrorOf(q.state) = 0
    BY <2>2 DEF ErrorOf
  <2>. QED BY <1>1, <1>3, <2>2, <2>4, <2>5 DEF Opened
<1>4. CASE part # "port"
  <2>1. q = AuthorityEnds(k, x)
    BY <1>2, <1>4, OpensIs, Zenon
  <2>. QED BY <1>1, <1>4, <2>1, AuthorityEnded
<1>. QED BY <1>3, <1>4

\* What a host leaves
HostLeft(t, q) ==
  /\ Bracketed(t) => q.host_type = "ipv6" /\ q.host = Literal(t)
  /\ ~Bracketed(t) =>
       /\ q.host_type = (IF t \in Ipv4Literals THEN "ipv4" ELSE "domain")
       /\ q.host = t

\* The character after a name
LEMMA HostNameEnds ==
  ASSUME NEW p \in Lines, NEW t \in Seq(Char), ~Bracketed(t), AtHost(t, Len(t), p),
         NEW part, NEW u, NEW x, Opens(part, u, x), NEW q, q = HostFeed(p, x)
  PROVE  /\ \/ /\ ~HostFault(t) /\ HostLeft(t, q) /\ q.port = Swapped(80)
               /\ Opened(part, u, q) /\ ErrorOf(q.state) = 0
            \/ Refused(q, 400) /\ HostFault(t)
         /\ q.method = p.method
<1>0. Len(t) \in Nat /\ MaxFqdnLength \in Nat /\ Len(t) \in 0 .. Len(t)
  BY LineAssumption
<1>1. /\ p.state = "target_host" /\ p.i = Len(t) /\ p.i <= MaxFqdnLength /\ p.origin_form = <<>>
      /\ p.host = t /\ p.host_type = "domain"
  <2>1. SubSeq(t, 1, Len(t)) = t
    BY <1>0, Prefixes
  <2>. QED BY <2>1, Zenon DEF AtHost
<1>2. CASE Len(t) >= MaxFqdnLength
  <2>0. ~ (p.i < MaxFqdnLength) /\ p.i >= MaxFqdnLength
    BY <1>0, <1>1, <1>2
  <2>1. q = To(p, "error")
    BY <2>0, Zenon DEF HostFeed
  <2>2. ErrorOf(q.state) = 400 /\ q.method = p.method
    BY <2>1, ToFields, ErrorsAre
  <2>3. HostFault(t)
    BY <1>2, Zenon DEF HostFault
  <2>. QED BY <2>2, <2>3 DEF Refused
<1>3. CASE ~ (Len(t) >= MaxFqdnLength)
  <2>0. ~ (p.i >= MaxFqdnLength) /\ p.i < MaxFqdnLength
    BY <1>0, <1>1, <1>3
  <2>1. q = NamedHostFeed(p, x)
    BY <1>1, <2>0, OpensIs, Zenon DEF HostFeed
  <2>. DEFINE type == IF t \in Ipv4Literals THEN "ipv4" ELSE "domain"
              k == [p EXCEPT !.host_type = type]
  <2>2. q = HostEnds(k, x)
    BY <1>1, <2>1, OpensIs, Zenon DEF NamedHostFeed
  <2>3. type \in {"domain", "ipv4", "ipv6"}
    OBVIOUS
  <2>4. /\ k \in Lines /\ k.method = p.method /\ k.host = t /\ k.host_type = type
        /\ k.origin_form = <<>>
    <3>. HIDE DEF type
    <3>. QED BY <1>1, <2>3 DEF Lines
  <2>. HIDE DEF k
  <2>5. /\ Opened(part, u, q) /\ q.port = Swapped(80) /\ ErrorOf(q.state) = 0
        /\ q.method = k.method /\ q.host = k.host /\ q.host_type = k.host_type
    BY <2>2, <2>4, HostEnded
  <2>6. HostLeft(t, q)
    BY <2>4, <2>5, Zenon DEF HostLeft
  <2>7. ~ HostFault(t)
    BY <1>3, Zenon DEF HostFault
  <2>. QED BY <2>4, <2>5, <2>6, <2>7, Zenon
<1>. QED BY <1>2, <1>3

\* The character after a literal
LEMMA LiteralEnds ==
  ASSUME NEW p \in Lines, NEW t \in Seq(Char), Bracketed(t), AtHost(t, Len(t), p),
         NEW part, NEW u, NEW x, Opens(part, u, x), part = "port" => t[Len(t)] = "]",
         NEW q, q = HostFeed(p, x)
  PROVE  /\ \/ /\ ~HostFault(t) /\ HostLeft(t, q) /\ q.port = Swapped(80)
               /\ Opened(part, u, q) /\ ErrorOf(q.state) = 0
            \/ Refused(q, 400) /\ HostFault(t)
         /\ q.method = p.method
<1> DEFINE b == Brackets(t)
           n == InBrackets(t)
<1>0. Len(t) \in Nat /\ MaxFqdnLength \in Nat /\ Len(t) <= Len(t)
  BY LineAssumption
<1>1. /\ p.state = "target_host" /\ p.i <= MaxFqdnLength /\ p.origin_form = <<>>
      /\ b \in Nat /\ b <= Len(t) /\ b >= 1
      /\ n \in Seq(Char) /\ Len(n) = Len(t) - b
      /\ Len(t) <= b => p.i = 0
      /\ Len(t) > b => p.i = Len(t) - b
      /\ p.host = SubSeq(n, 1, p.i)
      /\ Len(t) > 0 => p.host_type = "ipv6"
  BY <1>0, InsideIs
<1>2. /\ \A j \in 1 .. b : t[j] = "["
      /\ \A i \in 1 .. Len(n) : n[i] = t[b + i]
  BY InBracketsIs
<1>. HIDE DEF b, n
<1>3. p.i = Len(n) /\ p.host_type = "ipv6" /\ Len(n) \in Nat
  BY <1>0, <1>1
<1>4. p.host = n
  <2>1. Len(n) \in 0 .. Len(n)
    BY <1>3
  <2>. QED BY <1>1, <1>3, <2>1, Prefixes
<1>5. CASE Len(n) >= MaxFqdnLength
  <2>0. ~ (p.i < MaxFqdnLength) /\ p.i >= MaxFqdnLength
    BY <1>0, <1>3, <1>5
  <2>1. q = To(p, "error")
    BY <2>0, Zenon DEF HostFeed
  <2>2. ErrorOf(q.state) = 400 /\ q.method = p.method
    BY <2>1, ToFields, ErrorsAre
  <2>3. HostFault(t)
    BY <1>5, Zenon DEF HostFault, n
  <2>. QED BY <2>2, <2>3 DEF Refused
<1>6. CASE ~ (Len(n) >= MaxFqdnLength)
  <2>0. ~ (p.i >= MaxFqdnLength) /\ p.i < MaxFqdnLength
    BY <1>0, <1>3, <1>6
  <2>1. q = BracketedHostFeed(p, x)
    BY <1>3, <2>0, OpensIs, Zenon DEF HostFeed
  <2>2. part = "port" => p.host # <<>> /\ p.host[Len(p.host)] = "]"
    <3>. SUFFICES ASSUME part = "port" PROVE n # <<>> /\ n[Len(n)] = "]"
      BY <1>4
    <3>1. t[Len(t)] = "]"
      OBVIOUS
    <3>2. b # Len(t)
      <4>1. b = Len(t) => t[Len(t)] = "["
        BY <1>1, <1>2
      <4>. QED BY <3>1, <4>1
    <3>3. Len(n) \in 1 .. Len(n) /\ b + Len(n) = Len(t) /\ Len(n) >= 1
      BY <1>0, <1>1, <3>2
    <3>4. n # <<>>
      BY <3>3
    <3>. QED BY <1>2, <3>1, <3>3, <3>4
  <2>3. SubSeq(p.host, 1, Len(p.host) - 1) = Literal(t)
    BY <1>4, Zenon DEF Literal, n
  <2>4. q = IF Literal(t) \in Ipv6Literals THEN HostEnds([p EXCEPT !.host = Literal(t)], x)
            ELSE To(p, "error")
    <3>1. \/ x \in EndOfAuthority \union {" "}
          \/ x = ":" /\ (p.host # <<>> /\ p.host[Len(p.host)] = "]")
      BY <2>2, OpensIs, Zenon
    <3>. QED BY <2>1, <2>3, <3>1, Zenon DEF BracketedHostFeed
  <2>5. CASE Literal(t) \notin Ipv6Literals
    <3>1. q = To(p, "error")
      BY <2>4, <2>5
    <3>2. ErrorOf(q.state) = 400 /\ q.method = p.method
      BY <3>1, ToFields, ErrorsAre
    <3>3. HostFault(t)
      BY <2>5, Zenon DEF HostFault
    <3>. QED BY <3>2, <3>3 DEF Refused
  <2>6. CASE Literal(t) \in Ipv6Literals
    <3>. DEFINE k == [p EXCEPT !.host = Literal(t)]
    <3>1. q = HostEnds(k, x)
      BY <2>4, <2>6
    <3>2. Literal(t) \in Seq(Char)
      <4>1. \A i \in 1 .. Len(n) - 1 : n[i] \in Char
        BY <1>1, <1>3
      <4>2. 1 \in Int /\ Len(n) - 1 \in Int
        BY <1>3
      <4>3. SubSeq(n, 1, Len(n) - 1) \in Seq(Char)
        BY <4>1, <4>2, SubSeqProperties
      <4>. QED BY <1>4, <2>3, <4>3, Zenon
    <3>3. /\ k \in Lines /\ k.method = p.method /\ k.host = Literal(t) /\ k.host_type = "ipv6"
          /\ k.origin_form = <<>>
      BY <1>1, <1>3, <3>2 DEF Lines
    <3>. HIDE DEF k
    <3>4. /\ Opened(part, u, q) /\ q.port = Swapped(80) /\ ErrorOf(q.state) = 0
          /\ q.method = k.method /\ q.host = k.host /\ q.host_type = k.host_type
      BY <3>1, <3>3, HostEnded
    <3>5. HostLeft(t, q)
      BY <3>3, <3>4, Zenon DEF HostLeft
    <3>6. ~ HostFault(t)
      BY <1>6, <2>6, Zenon DEF HostFault, n
    <3>. QED BY <3>3, <3>4, <3>5, <3>6, Zenon
  <2>. QED BY <2>5, <2>6
<1>. QED BY <1>5, <1>6

-----------------------------------------------------------------------------
(* The port *)

\* There is such a function as Number defines
LEMMA NumbersExist ==
  ASSUME NEW t, NEW n \in Nat
  PROVE  \E g : NumberTo(t, n, g)
<1> DEFINE Is(g, m) == NumberTo(t, m, g)
           S == {m \in Nat : \E g : Is(g, m)}
<1>1. 0 \in S
  <2> DEFINE g == [k \in 0 .. 0 |-> 0]
  <2>1. \A k \in 0 .. 0 : k = 0
    OBVIOUS
  <2>2. Is(g, 0)
    BY <2>1, Zenon DEF NumberTo
  <2>. QED BY <2>2
<1>2. ASSUME NEW m \in Nat, m \in S
      PROVE  m + 1 \in S
  <2>1. PICK g : Is(g, m)
    BY <1>2
  <2> DEFINE At1(f, k) == IF k = 0 THEN 0 ELSE f[k - 1] * 10 + Value(t[k])
             h == [k \in 0 .. m + 1 |-> IF k <= m THEN g[k] ELSE At1(g, k)]
  <2>2. \A k \in 0 .. m : g[k] = At1(g, k)
    BY <2>1, Zenon DEF NumberTo
  <2>3. \A k \in 0 .. m + 1 : k = 0 \/ (k - 1 \in 0 .. m + 1 /\ k - 1 <= m)
    OBVIOUS
  <2>4. \A k \in 0 .. m + 1 : k = 0 \/ h[k - 1] = g[k - 1]
    BY <2>3, Zenon
  <2>5. \A k \in 0 .. m + 1 : At1(h, k) = At1(g, k)
    <3> HIDE DEF h
    <3>. QED BY <2>4, Zenon
  <2>6. \A k \in 0 .. m + 1 : k <= m => k \in 0 .. m
    OBVIOUS
  <2>7. \A k \in 0 .. m + 1 : h[k] = At1(g, k)
    <3> HIDE DEF At1
    <3>. QED BY <2>2, <2>6, Zenon
  <2>8. h = [k \in 0 .. m + 1 |-> h[k]]
    BY Zenon
  <2>9. h = [k \in 0 .. m + 1 |-> At1(h, k)]
    <3> HIDE DEF h, At1
    <3>. QED BY <2>5, <2>7, <2>8, Zenon
  <2>10. Is(h, m + 1)
    BY <2>9, Zenon DEF NumberTo
  <2>11. m + 1 \in Nat
    OBVIOUS
  <2> HIDE DEF h, Is
  <2>. QED BY <2>10, <2>11, Zenon
<1> HIDE DEF S
<1>3. n \in S
  BY <1>1, <1>2, Induction
<1>. QED BY <1>3, Zenon DEF S

\* Number is the last of them
LEMMA NumberIs ==
  ASSUME NEW t
  PROVE  Len(t) \in Nat => \E g : NumberTo(t, Len(t), g) /\ Number(t) = g[Len(t)]
<1>. SUFFICES ASSUME Len(t) \in Nat PROVE \E g : NumberTo(t, Len(t), g) /\ Number(t) = g[Len(t)]
  OBVIOUS
<1> DEFINE f == CHOOSE g : g = [n \in 0 .. Len(t) |-> IF n = 0 THEN 0 ELSE g[n - 1] * 10 + Value(t[n])]
<1>1. \E g : NumberTo(t, Len(t), g)
  BY NumbersExist
<1>2. NumberTo(t, Len(t), f)
  BY <1>1, Zenon DEF NumberTo
<1>3. Number(t) = f[Len(t)]
  BY Zenon DEF Number
<1>. QED BY <1>2, <1>3, Zenon

\* The numbers one by one
LEMMA NumberSteps ==
  ASSUME NEW t, NEW m \in Nat, NEW g, NumberTo(t, m, g)
  PROVE  /\ g[0] = 0
         /\ \A n \in Nat : n < m => g[n + 1] = g[n] * 10 + Value(t[n + 1])
<1>1. \A n \in 0 .. m : g[n] = IF n = 0 THEN 0 ELSE g[n - 1] * 10 + Value(t[n])
  BY Zenon DEF NumberTo
<1>2. g[0] = 0
  <2>1. 0 \in 0 .. m
    OBVIOUS
  <2>. QED BY <1>1, <2>1, Zenon
<1>3. ASSUME NEW n \in Nat, n < m PROVE g[n + 1] = g[n] * 10 + Value(t[n + 1])
  <2>1. n + 1 \in 0 .. m /\ n + 1 # 0 /\ (n + 1) - 1 = n
    BY <1>3
  <2>2. g[n + 1] = g[(n + 1) - 1] * 10 + Value(t[n + 1])
    BY <1>1, <2>1, Zenon
  <2>. QED BY <2>1, <2>2, Zenon
<1>. QED BY <1>2, <1>3

\* Four digits make no more than 9999
LEMMA NumberSmall ==
  ASSUME NEW t, NEW m \in Nat, NEW g, NumberTo(t, m, g), NEW n \in Nat, n <= 4, n <= m,
         \A j \in 1 .. n : t[j] \in Digit
  PROVE  g[n] \in Nat /\ g[n] <= 9999
<1>1. /\ g[0] = 0
      /\ \A k \in Nat : k < m => g[k + 1] = g[k] * 10 + Value(t[k + 1])
  BY NumberSteps
<1>2. \A k \in Nat : k < n => Value(t[k + 1]) \in 0 .. 9
  <2>1. \A k \in Nat : k < n => k + 1 \in 1 .. n
    OBVIOUS
  <2>. QED BY <2>1, ValueIs
<1>3. \A k \in Nat : k < n => /\ g[k + 1] = g[k] * 10 + Value(t[k + 1])
                              /\ Value(t[k + 1]) \in Nat /\ Value(t[k + 1]) <= 9
  <2>1. \A k \in Nat : k < n => k < m
    OBVIOUS
  <2>2. \A v \in 0 .. 9 : v \in Nat /\ v <= 9
    OBVIOUS
  <2>. QED BY <1>1, <1>2, <2>1, <2>2, Zenon
<1>4. ASSUME NEW k \in Nat, k < n, NEW b \in Nat, g[k] \in Nat, g[k] <= b
      PROVE  g[k + 1] \in Nat /\ g[k + 1] <= 10 * b + 9
  <2>1. PICK v \in Nat : v <= 9 /\ g[k + 1] = g[k] * 10 + v
    BY <1>3, <1>4
  <2>2. PICK w \in Nat : w <= b /\ g[k] = w
    BY <1>4
  <2>. QED BY <2>1, <2>2
<1>5. g[0] \in Nat /\ g[0] <= 0
  BY <1>1
<1>6. n >= 1 => g[1] \in Nat /\ g[1] <= 9
  BY <1>4, <1>5
<1>7. n >= 2 => g[2] \in Nat /\ g[2] <= 99
  BY <1>4, <1>6
<1>8. n >= 3 => g[3] \in Nat /\ g[3] <= 999
  BY <1>4, <1>7
<1>9. n >= 4 => g[4] \in Nat /\ g[4] <= 9999
  BY <1>4, <1>8
<1>10. n = 0 \/ n = 1 \/ n = 2 \/ n = 3 \/ n = 4
  OBVIOUS
<1>. QED BY <1>5, <1>6, <1>7, <1>8, <1>9, <1>10

\* A port of two octets is no other modulo their number
LEMMA SmallModulo ==
  ASSUME NEW n \in Nat, n < PortModulus
  PROVE  n % PortModulus = n
BY DEF PortModulus

\* The octets of a port swapped twice
LEMMA SwappedTwice ==
  ASSUME NEW n \in Nat, n < PortModulus
  PROVE  Swapped(Swapped(n)) = n
<1> DEFINE a == n % 256
           b == n \div 256
<1>1. a \in 0 .. 255 /\ b \in 0 .. 255 /\ n = b * 256 + a
  BY DEF PortModulus
<1>2. Swapped(n) = a * 256 + b
  BY DEF Swapped
<1>. HIDE DEF a, b
<1>3. (a * 256 + b) % 256 = b /\ (a * 256 + b) \div 256 = a
  BY <1>1
<1>4. Swapped(a * 256 + b) = b * 256 + a
  BY <1>3, Zenon DEF Swapped
<1>. QED BY <1>1, <1>2, <1>4, Zenon

\* A port has none of the characters that end one
PortText(t) == \A j \in 1 .. Len(t) : t[j] \notin EndOfAuthority /\ t[j] # Space

\* The faults of a port
PortFault(t) == ~AllDigits(t) \/ Len(t) >= MaxPortLength

\* What a port leaves
PortLeft(t, q) == q.port = IF t = <<>> THEN 80 ELSE Swapped(Number(t))

\* A character more of the port.  c counts the colon in front of it.
LEMMA PortMore ==
  ASSUME NEW p \in Lines, NEW t \in Seq(Char), PortText(t), NEW c \in Nat, 1 <= c, c <= Len(t),
         AtPort(t, c, p), NEW q, q = PortFeed(p, t[c])
  PROVE  /\ AtPort(t, c + 1, q) \/ (Refused(q, 400) /\ PortFault(t))
         /\ Keeps(4, p, q)
<1>0. Len(t) \in Nat /\ MaxPortLength = 5
  BY DEF MaxPortLength
<1>1. /\ p.state = "target_port" /\ p.i = c - 1 /\ c - 1 \in 0 .. 5 /\ p.origin_form = <<>>
      /\ \A j \in 1 .. c - 1 : t[j] \in Digit
      /\ c = 1 => p.port = Swapped(80)
      /\ c - 1 \in 1 .. 4 => \A g : NumberTo(t, Len(t), g) => p.port = g[c - 1]
  BY Zenon DEF AtPort
<1>2. t[c] \notin EndOfAuthority /\ t[c] # Space
  <2>1. c \in 1 .. Len(t)
    OBVIOUS
  <2>. QED BY <2>1, Zenon DEF PortText
<1>3. CASE p.i >= MaxPortLength
  <2>0. ~ (p.i < MaxPortLength) /\ Len(t) >= MaxPortLength
    BY <1>0, <1>1, <1>3
  <2>1. q = To(p, "error")
    BY <1>3, <2>0, Zenon DEF PortFeed
  <2>2. ErrorOf(q.state) = 400 /\ q.method = p.method /\ q.host = p.host /\ q.host_type = p.host_type
    BY <2>1, ToFields, ErrorsAre
  <2>3. PortFault(t)
    BY <2>0, Zenon DEF PortFault
  <2>. QED BY <2>2, <2>3 DEF Refused, Keeps
<1>4. CASE p.i < MaxPortLength /\ t[c] \notin Digit
  <2>0. ~ (p.i >= MaxPortLength)
    BY <1>0, <1>1, <1>4
  <2>1. q = To(p, "error")
    BY <1>2, <1>4, <2>0, Zenon DEF PortFeed, Space
  <2>2. ErrorOf(q.state) = 400 /\ q.method = p.method /\ q.host = p.host /\ q.host_type = p.host_type
    BY <2>1, ToFields, ErrorsAre
  <2>3. c \in DOMAIN t
    OBVIOUS
  <2>4. PortFault(t)
    BY <1>4, <2>3, Zenon DEF PortFault, AllDigits
  <2>. QED BY <2>2, <2>4 DEF Refused, Keeps
<1>5. CASE p.i < MaxPortLength /\ t[c] \in Digit
  <2>0. ~ (p.i >= MaxPortLength) /\ c <= 5
    BY <1>0, <1>1, <1>5
  <2>. DEFINE n == ((IF p.i = 0 THEN 0 ELSE p.port * 10) + Value(t[c])) % PortModulus
  <2>1. q = [p EXCEPT !.i = p.i + 1, !.port = n]
    BY <1>2, <1>5, <2>0, Zenon DEF PortFeed, Space
  <2>. HIDE DEF n
  <2>2. /\ q.state = p.state /\ q.i = p.i + 1 /\ q.method = p.method /\ q.host = p.host
        /\ q.host_type = p.host_type /\ q.port = n /\ q.origin_form = p.origin_form
    BY <2>1 DEF Lines
  <2>3. p.i + 1 = (c + 1) - 1 /\ (c + 1) - 1 \in 0 .. 5 /\ c + 1 # 1 /\ (c + 1) - 1 = c
    BY <1>1, <2>0
  <2>4. \A j \in 1 .. c : t[j] \in Digit
    <3>1. c - 1 \in Nat /\ (c - 1) + 1 = c
      BY <1>1
    <3>2. \A j \in 1 .. (c - 1) + 1 : t[j] \in Digit
      <4>1. t[(c - 1) + 1] \in Digit
        BY <1>5, <3>1
      <4>. QED BY <1>1, <3>1, <4>1, AllSoFar
    <3>. QED BY <3>1, <3>2
  <2>5. ASSUME c \in 1 .. 4, NEW g, NumberTo(t, Len(t), g)
        PROVE  n = g[c]
    <3>1. c - 1 \in Nat /\ c - 1 < Len(t) /\ (c - 1) + 1 = c /\ c <= 4
      BY <2>5
    <3>2. g[0] = 0 /\ g[c] = g[c - 1] * 10 + Value(t[c])
      <4>1. \A k \in Nat : k < Len(t) => g[k + 1] = g[k] * 10 + Value(t[k + 1])
        BY <1>0, <2>5, NumberSteps
      <4>2. g[0] = 0
        BY <1>0, <2>5, NumberSteps
      <4>3. g[(c - 1) + 1] = g[c - 1] * 10 + Value(t[(c - 1) + 1])
        BY <3>1, <4>1, Zenon
      <4>. QED BY <3>1, <4>2, <4>3, Zenon
    <3>3. (IF p.i = 0 THEN 0 ELSE p.port * 10) = g[c - 1] * 10
      <4>1. CASE c = 1
        <5>1. p.i = 0 /\ c - 1 = 0
          BY <1>1, <4>1
        <5>2. g[c - 1] = 0
          BY <3>2, <5>1, Zenon
        <5>. QED BY <5>1, <5>2
      <4>2. CASE c # 1
        <5>1. p.i # 0 /\ c - 1 \in 1 .. 4
          BY <1>1, <2>5, <4>2
        <5>2. p.port = g[c - 1]
          BY <1>1, <2>5, <5>1, Zenon
        <5>. QED BY <5>1, <5>2, Zenon
      <4>. QED BY <4>1, <4>2
    <3>4. n = g[c] % PortModulus
      BY <3>2, <3>3, Zenon DEF n
    <3>5. g[c] \in Nat /\ g[c] <= 9999
      BY <1>0, <2>4, <2>5, <3>1, NumberSmall
    <3>6. g[c] < PortModulus
      BY <3>5 DEF PortModulus
    <3>. QED BY <3>4, <3>5, <3>6, SmallModulo
  <2>6. (c + 1) - 1 \in 1 .. 4 => \A g : NumberTo(t, Len(t), g) => q.port = g[(c + 1) - 1]
    BY <2>2, <2>3, <2>5, Zenon
  <2>7. AtPort(t, c + 1, q)
    BY <1>1, <2>2, <2>3, <2>4, <2>6, Zenon DEF AtPort
  <2>8. Keeps(4, p, q)
    BY <2>2 DEF Keeps
  <2>. QED BY <2>7, <2>8
<1>6. p.i >= MaxPortLength \/ p.i < MaxPortLength
  BY <1>0, <1>1
<1>. QED BY <1>3, <1>4, <1>5, <1>6, Zenon

\* The character after the port
LEMMA PortEnds ==
  ASSUME NEW p \in Lines, NEW t \in Seq(Char), AtPort(t, Len(t) + 1, p),
         NEW part, part # "port", NEW u, NEW x, Opens(part, u, x), NEW q, q = PortFeed(p, x)
  PROVE  /\ \/ ~PortFault(t) /\ PortLeft(t, q) /\ Opened(part, u, q) /\ ErrorOf(q.state) = 0
            \/ Refused(q, 400) /\ PortFault(t)
         /\ Keeps(4, p, q)
<1> DEFINE L == Len(t)
<1>0. L \in Nat /\ MaxPortLength = 5 /\ (L + 1) - 1 = L /\ DOMAIN t = 1 .. L
  BY DEF MaxPortLength
<1>. HIDE DEF L
<1>1. /\ p.i = L /\ L \in 0 .. 5 /\ p.origin_form = <<>>
      /\ \A j \in 1 .. L : t[j] \in Digit
      /\ L + 1 = 1 => p.port = Swapped(80)
      /\ L \in 1 .. 4 => \A g : NumberTo(t, L, g) => p.port = g[L]
  BY <1>0, Zenon DEF AtPort, L
<1>2. CASE p.i >= MaxPortLength
  <2>0. ~ (p.i < MaxPortLength) /\ L >= MaxPortLength
    BY <1>0, <1>1, <1>2
  <2>1. q = To(p, "error")
    BY <1>2, <2>0, Zenon DEF PortFeed
  <2>2. ErrorOf(q.state) = 400 /\ q.method = p.method /\ q.host = p.host /\ q.host_type = p.host_type
    BY <2>1, ToFields, ErrorsAre
  <2>3. PortFault(t)
    BY <2>0, Zenon DEF PortFault, L
  <2>. QED BY <2>2, <2>3 DEF Refused, Keeps
<1>3. CASE p.i < MaxPortLength
  <2>0. ~ (p.i >= MaxPortLength) /\ L <= 4 /\ ~ (L >= MaxPortLength)
    BY <1>0, <1>1, <1>3
  <2>. DEFINE k == [p EXCEPT !.port = Swapped(p.port)]
  <2>9. x \in EndOfAuthority \union {" "} /\ x \notin Digit
    <3>1. EndOfAuthority \union {" "} = {"/", "#", "?", " "}
      BY Zenon DEF EndOfAuthority
    <3>2. x \in {"/", "#", "?", " "}
      BY <3>1, OpensIs, Zenon
    <3>3. \A y \in {"/", "#", "?", " "} :
            y \notin {"0", "1", "2", "3", "4", "5", "6", "7", "8", "9"}
      BY Zenon
    <3>. QED BY <3>1, <3>2, <3>3, DigitIs, Zenon
  <2>1. q = AuthorityEnds(k, x)
    BY <1>3, <2>0, <2>9, Zenon DEF PortFeed
  <2>2. Swapped(p.port) \in Int
    <3>1. p.port \in Int
      BY DEF Lines
    <3>. QED BY <3>1, SwappedIsInt
  <2>3. /\ k \in Lines /\ k.method = p.method /\ k.host = p.host /\ k.host_type = p.host_type
        /\ k.port = Swapped(p.port) /\ k.origin_form = <<>>
    BY <1>1, <2>2 DEF Lines
  <2>. HIDE DEF k
  <2>4. /\ Opened(part, u, q) /\ ErrorOf(q.state) = 0
        /\ q.method = p.method /\ q.host = p.host /\ q.host_type = p.host_type
        /\ q.port = Swapped(p.port)
    BY <2>1, <2>3, AuthorityEnded
  <2>5. ~ PortFault(t)
    BY <1>0, <1>1, <2>0, Zenon DEF PortFault, AllDigits, L
  <2>6. PortLeft(t, q)
    <3>1. CASE L = 0
      <4>1. t = <<>>
        BY <3>1 DEF L
      <4>2. L + 1 = 1 /\ 80 \in Nat /\ 80 < PortModulus
        BY <3>1 DEF PortModulus
      <4>3. Swapped(Swapped(80)) = 80
        BY <4>2, SwappedTwice
      <4>. QED BY <1>1, <2>4, <4>1, <4>2, <4>3, Zenon DEF PortLeft
    <3>2. CASE L # 0
      <4>1. L \in 1 .. 4
        BY <1>0, <2>0, <3>2
      <4>2. t # <<>>
        BY <3>2 DEF L
      <4>3. PICK g : NumberTo(t, L, g) /\ Number(t) = g[L]
        BY <1>0, NumberIs DEF L
      <4>4. p.port = Number(t)
        BY <1>1, <4>1, <4>3, Zenon
      <4>. QED BY <2>4, <4>2, <4>4, Zenon DEF PortLeft
    <3>. QED BY <3>1, <3>2
  <2>7. Keeps(4, p, q)
    BY <2>4 DEF Keeps
  <2>. QED BY <2>4, <2>5, <2>6, <2>7
<1>4. p.i >= MaxPortLength \/ p.i < MaxPortLength
  BY <1>0, <1>1
<1>. QED BY <1>2, <1>3, <1>4, Zenon

\* The number of a good port fits
LEMMA PortNumber ==
  ASSUME NEW t \in Seq(Char), ~PortFault(t)
  PROVE  Number(t) \in Nat /\ Number(t) < PortModulus
<1>0. Len(t) \in Nat /\ MaxPortLength = 5 /\ DOMAIN t = 1 .. Len(t)
  BY DEF MaxPortLength
<1>1. PICK g : NumberTo(t, Len(t), g) /\ Number(t) = g[Len(t)]
  BY <1>0, NumberIs
<1>2. \A j \in 1 .. Len(t) : t[j] \in Digit
  BY <1>0, Zenon DEF PortFault, AllDigits
<1>3. ~ (Len(t) >= MaxPortLength)
  BY Zenon DEF PortFault
<1>4. Len(t) <= 4 /\ Len(t) <= Len(t)
  BY <1>0, <1>3
<1>5. g[Len(t)] \in Nat /\ g[Len(t)] <= 9999
  BY <1>0, <1>1, <1>2, <1>4, NumberSmall
<1>. QED BY <1>1, <1>5 DEF PortModulus

-----------------------------------------------------------------------------
(* The parts *)

\* A part that is said
Entry == [part : Parts, text : Seq(Char)]

\* What the texts of a part have in common
TextOK(part, t) ==
  /\ t \in Seq(Char)
  /\ part = "method" => \A j \in 1 .. Len(t) : t[j] # Space
  /\ part = "scheme" => InPlaceOf(t, HttpScheme)
  /\ part = "host" => HostText(t)
  /\ part = "port" => PortText(t)
  /\ part = "path" =>
       Len(t) >= 1 /\ t[1] \in EndOfAuthority /\ \A j \in 1 .. Len(t) : t[j] # Space
  /\ part = "version" => InPlaceOf(t, HttpVersion)
  /\ part = "major" => \A j \in 1 .. Len(t) : t[j] # "."
  /\ part = "minor" => \A j \in 1 .. Len(t) : t[j] # "\r"
  /\ part = "end" => Len(t) = 1

\* The parser p after c characters of a part
Progress(part, t, c, p) ==
  /\ part = "method" => AtMethod(t, c, p)
  /\ part = "scheme" => AtScheme(t, c, p)
  /\ part = "host" => AtHost(t, c, p)
  /\ part = "port" => AtPort(t, c, p)
  /\ part = "path" => AtPath(t, c, p)
  /\ part = "version" => AtVersion(t, c, p)
  /\ part = "major" => AtNumber(t, c, p, "version_major", "version_minor")
  /\ part = "minor" => AtNumber(t, c, p, "version_minor", "end")
  /\ part = "end" => AtEnd(t, c, p)

\* What a part leaves in the parser when it has ended
Leaves(part, t, p) ==
  /\ part = "method" => p.method = t
  /\ part = "host" => HostLeft(t, p)
  /\ part = "port" => PortLeft(t, p)
  /\ part = "path" => p.origin_form = t

\* The texts are such
LEMMA TextsAre ==
  ASSUME NEW part \in Parts, NEW t \in Texts[part]
  PROVE  TextOK(part, t)
<1>0. t \in Seq(Char)
  BY ResolutionAssumption DEF Char
<1>1. DOMAIN t = 1 .. Len(t) /\ Len(t) \in Nat
  BY <1>0
<1>2. TakenApart
  BY LineAssumption
<1>3. part = "method" => \A j \in 1 .. Len(t) : t[j] # Space
  BY <1>1, <1>2, Zenon DEF TakenApart, Without, Space
<1>4. part = "scheme" => InPlaceOf(t, HttpScheme)
  BY <1>2, Zenon DEF TakenApart
<1>5. part = "host" => HostText(t)
  BY <1>1, <1>2, Zenon DEF TakenApart, Without, Space, HostText
<1>6. part = "port" => PortText(t)
  BY <1>1, <1>2, Zenon DEF TakenApart, Without, Space, PortText
<1>7. part = "path" => Len(t) >= 1 /\ t[1] \in EndOfAuthority /\ \A j \in 1 .. Len(t) : t[j] # Space
  <2>. SUFFICES ASSUME part = "path"
                PROVE  Len(t) >= 1 /\ t[1] \in EndOfAuthority /\ \A j \in 1 .. Len(t) : t[j] # Space
    OBVIOUS
  <2>0. Without(t, {" "})
    BY <1>2, Zenon DEF TakenApart
  <2>1. t # <<>> /\ Head(t) \in EndOfAuthority
    BY <1>2, Zenon DEF TakenApart
  <2>2. Len(t) >= 1
    BY <1>0, <2>1
  <2>3. Head(t) = t[1]
    BY <1>0, <2>2
  <2>4. \A j \in 1 .. Len(t) : t[j] # Space
    BY <1>1, <2>0, Zenon DEF Without, Space
  <2>. QED BY <2>1, <2>2, <2>3, <2>4, Zenon
<1>8. part = "version" => InPlaceOf(t, HttpVersion)
  BY <1>2, Zenon DEF TakenApart
<1>9. part = "major" => \A j \in 1 .. Len(t) : t[j] # "."
  BY <1>1, <1>2, Zenon DEF TakenApart, Without
<1>10. part = "minor" => \A j \in 1 .. Len(t) : t[j] # "\r"
  BY <1>1, <1>2, Zenon DEF TakenApart, Without
<1>11. part = "end" => Len(t) = 1
  BY <1>2, Zenon DEF TakenApart
<1>. QED BY <1>0, <1>3, <1>4, <1>5, <1>6, <1>7, <1>8, <1>9, <1>10, <1>11, Zenon DEF TextOK

\* What a method is answered with
LEMMA MethodAnswered ==
  ASSUME NEW e, e.part = "method", e.text \in Seq(Char)
  PROVE  AnsweredWith(e) = MethodAnswer(e.text)
<1> DEFINE t == e.text
<1>0. Len(t) \in Nat /\ MaxMethodLength \in Nat /\ DOMAIN t = 1 .. Len(t) /\ (Len(t) = 0 <=> t = <<>>)
  BY LineAssumption, EmptySeq
<1>1. /\ AtLimit(e) <=> Len(t) = MaxMethodLength
      /\ Tolerated(e) <=> t = <<>>
      /\ Fault(e) = IF /\ t # <<>> /\ Len(t) <= MaxMethodLength
                       /\ \A i \in DOMAIN t : t[i] \in TokenChar
                      THEN 0 ELSE 501
  BY Zenon DEF AtLimit, Tolerated, Fault
<1>2. AnsweredWith(e) = CASE AtLimit(e) -> 501
                      [] ~AtLimit(e) /\ Tolerated(e) -> 0
                      [] OTHER -> Fault(e)
  BY Zenon DEF AnsweredWith
<1>3. CASE Len(t) = MaxMethodLength
  <2>1. ~ (Len(t) < MaxMethodLength)
    BY <1>0, <1>3
  <2>. QED BY <1>1, <1>2, <1>3, <2>1, Zenon DEF MethodAnswer
<1>4. CASE Len(t) # MaxMethodLength /\ t = <<>>
  <2>1. Len(t) < MaxMethodLength /\ \A i \in DOMAIN t : FALSE
    BY <1>0, <1>4
  <2>2. MethodAnswer(t) = 0
    BY <2>1, Zenon DEF MethodAnswer
  <2>. QED BY <1>1, <1>2, <1>4, <2>2, Zenon
<1>5. CASE Len(t) # MaxMethodLength /\ t # <<>>
  <2>1. Len(t) <= MaxMethodLength <=> Len(t) < MaxMethodLength
    BY <1>0, <1>5
  <2>. QED BY <1>1, <1>2, <1>5, <2>1, Zenon DEF MethodAnswer
<1>. QED BY <1>3, <1>4, <1>5, Zenon

\* What a host is answered with
LEMMA HostAnswered ==
  ASSUME NEW e, e.part = "host", e.text \in Seq(Char)
  PROVE  AnsweredWith(e) = IF HostFault(e.text) THEN 400 ELSE 0
<1> DEFINE t == e.text
           n == Len(IF Bracketed(t) THEN InBrackets(t) ELSE t)
<1>0. n \in Nat /\ MaxFqdnLength \in Nat
  <2>1. Bracketed(t) => InBrackets(t) \in Seq(Char)
    BY InBracketsIs
  <2>. QED BY <2>1, LineAssumption
<1>1. AnsweredWith(e) = CASE AtLimit(e) -> 400
                      [] ~AtLimit(e) /\ Tolerated(e) -> 0
                      [] OTHER -> Fault(e)
  BY Zenon DEF AnsweredWith
<1>2. CASE ~Bracketed(t)
  <2>1. /\ AtLimit(e) <=> n = MaxFqdnLength
        /\ ~Tolerated(e)
        /\ Fault(e) = IF n > MaxFqdnLength THEN 400 ELSE 0
        /\ HostFault(t) <=> n >= MaxFqdnLength
    BY <1>2, Zenon DEF AtLimit, Tolerated, Fault, HostFault
  <2>2. n >= MaxFqdnLength <=> n = MaxFqdnLength \/ n > MaxFqdnLength
    BY <1>0
  <2>. QED BY <1>1, <2>1, <2>2, Zenon
<1>3. CASE Bracketed(t)
  <2>1. /\ AtLimit(e) <=> n = MaxFqdnLength
        /\ Tolerated(e) <=> Literal(t) \in Ipv6Literals /\ n < MaxFqdnLength
        /\ HostFault(t) <=> n >= MaxFqdnLength \/ Literal(t) \notin Ipv6Literals
    BY <1>3, Zenon DEF AtLimit, Tolerated, HostFault
  <2>2. Fault(e) = IF \/ Literal(t) \notin Ipv6Literals
                      \/ t # <<"[">> \o Literal(t) \o <<"]">>
                      \/ n > MaxFqdnLength
                     THEN 400 ELSE 0
    BY <1>3, Zenon DEF Fault
  <2>3. /\ n >= MaxFqdnLength <=> n = MaxFqdnLength \/ n > MaxFqdnLength
        /\ n < MaxFqdnLength <=> ~ (n >= MaxFqdnLength)
    BY <1>0
  <2>. QED BY <1>1, <2>1, <2>2, <2>3, Zenon
<1>. QED BY <1>2, <1>3, Zenon

\* What a port is answered with
LEMMA PortAnswered ==
  ASSUME NEW e, e.part = "port", e.text \in Seq(Char)
  PROVE  AnsweredWith(e) = IF PortFault(e.text) THEN 400 ELSE 0
<1> DEFINE t == e.text
<1>0. Len(t) \in Nat /\ MaxPortLength \in Nat
  BY DEF MaxPortLength
<1>1. /\ AtLimit(e) <=> Len(t) = MaxPortLength
      /\ ~Tolerated(e)
      /\ Fault(e) = IF ~AllDigits(t) \/ Len(t) > MaxPortLength \/ Number(t) >= PortModulus
                      THEN 400 ELSE 0
  BY Zenon DEF AtLimit, Tolerated, Fault
<1>2. AnsweredWith(e) = CASE AtLimit(e) -> 400
                      [] ~AtLimit(e) /\ Tolerated(e) -> 0
                      [] OTHER -> Fault(e)
  BY Zenon DEF AnsweredWith
<1>3. /\ Len(t) >= MaxPortLength <=> Len(t) = MaxPortLength \/ Len(t) > MaxPortLength
  BY <1>0
<1>4. ~PortFault(t) => ~ (Number(t) >= PortModulus)
  <2>1. SUFFICES ASSUME ~PortFault(t) PROVE ~ (Number(t) >= PortModulus)
    OBVIOUS
  <2>2. Number(t) \in Nat /\ Number(t) < PortModulus
    BY <2>1, PortNumber
  <2>. QED BY <2>2 DEF PortModulus
<1>. QED BY <1>1, <1>2, <1>3, <1>4, Zenon DEF PortFault

\* What a number of the version is answered with
LEMMA NumberAnswered ==
  ASSUME NEW e, e.part \in {"major", "minor"}, e.text \in Seq(Char)
  PROVE  AnsweredWith(e) = NumberAnswer(e.text)
<1> DEFINE t == e.text
<1>0. Len(t) \in Nat /\ DOMAIN t = 1 .. Len(t) /\ (Len(t) = 0 <=> t = <<>>)
  BY EmptySeq
<1>1. e.part = "major" \/ e.part = "minor"
  OBVIOUS
<1>2. ~AtLimit(e) /\ (Tolerated(e) <=> t = <<>>) /\ Fault(e) = NumberFault(t)
  BY <1>1, Zenon DEF AtLimit, Tolerated, Fault
<1>3. AnsweredWith(e) = IF t = <<>> THEN 0 ELSE NumberFault(t)
  BY <1>2, Zenon DEF AnsweredWith
<1>4. CASE t = <<>>
  <2>1. Len(t) <= 1 /\ \A i \in DOMAIN t : FALSE
    BY <1>0, <1>4
  <2>2. NumberAnswer(t) = 0
    BY <2>1, Zenon DEF NumberAnswer, AllDigits
  <2>. QED BY <1>3, <1>4, <2>2, Zenon
<1>5. CASE t # <<>>
  <2>1. Len(t) <= 1 <=> Len(t) = 1
    <3>1. Len(t) # 0
      BY <1>0, <1>5, Zenon
    <3>2. \A k \in Nat : k # 0 => (k <= 1 <=> k = 1)
      OBVIOUS
    <3>. QED BY <1>0, <3>1, <3>2, Zenon
  <2>3. CASE AllDigits(t) /\ Len(t) = 1
    BY <1>3, <1>5, <2>1, <2>3, Zenon DEF NumberAnswer, NumberFault, AllDigits
  <2>4. CASE ~ (AllDigits(t) /\ Len(t) = 1) /\ \E i \in DOMAIN t : i <= 2 /\ t[i] \notin Digit
    BY <1>3, <1>5, <2>1, <2>4, Zenon DEF NumberAnswer, NumberFault
  <2>5. CASE ~ (AllDigits(t) /\ Len(t) = 1) /\ ~ \E i \in DOMAIN t : i <= 2 /\ t[i] \notin Digit
    BY <1>3, <1>5, <2>1, <2>5, Zenon DEF NumberAnswer, NumberFault
  <2>. QED BY <2>3, <2>4, <2>5, Zenon
<1>. QED BY <1>4, <1>5, Zenon

\* What the parts are answered with, part by part
LEMMA FaultsAre ==
  ASSUME NEW e, e.text \in Seq(Char)
  PROVE  /\ e.part = "method" => AnsweredWith(e) = MethodAnswer(e.text)
         /\ e.part = "scheme" => AnsweredWith(e) = IF e.text # HttpScheme THEN 400 ELSE 0
         /\ e.part = "host" => AnsweredWith(e) = IF HostFault(e.text) THEN 400 ELSE 0
         /\ e.part = "port" => AnsweredWith(e) = IF PortFault(e.text) THEN 400 ELSE 0
         /\ e.part = "path" => AnsweredWith(e) = IF Len(e.text) >= MaxOriginForm THEN 400 ELSE 0
         /\ e.part = "version" => AnsweredWith(e) = IF e.text # HttpVersion THEN 400 ELSE 0
         /\ e.part = "major" => AnsweredWith(e) = NumberAnswer(e.text)
         /\ e.part = "minor" => AnsweredWith(e) = NumberAnswer(e.text)
         /\ e.part = "end" => AnsweredWith(e) = IF e.text # <<"\n">> THEN 400 ELSE 0
<1>1. e.part = "method" => AnsweredWith(e) = MethodAnswer(e.text)
  BY MethodAnswered
<1>2. e.part = "scheme" => AnsweredWith(e) = IF e.text # HttpScheme THEN 400 ELSE 0
  BY Zenon DEF AnsweredWith, AtLimit, Tolerated, Fault
<1>3. e.part = "host" => AnsweredWith(e) = IF HostFault(e.text) THEN 400 ELSE 0
  BY HostAnswered
<1>4. e.part = "port" => AnsweredWith(e) = IF PortFault(e.text) THEN 400 ELSE 0
  BY PortAnswered
<1>5. e.part = "path" => AnsweredWith(e) = IF Len(e.text) >= MaxOriginForm THEN 400 ELSE 0
  BY Zenon DEF AnsweredWith, AtLimit, Tolerated, Fault
<1>6. e.part = "version" => AnsweredWith(e) = IF e.text # HttpVersion THEN 400 ELSE 0
  BY Zenon DEF AnsweredWith, AtLimit, Tolerated, Fault
<1>7. e.part = "major" => AnsweredWith(e) = NumberAnswer(e.text)
  BY NumberAnswered
<1>8. e.part = "minor" => AnsweredWith(e) = NumberAnswer(e.text)
  BY NumberAnswered
<1>9. e.part = "end" => AnsweredWith(e) = IF e.text # <<"\n">> THEN 400 ELSE 0
  BY Zenon DEF AnsweredWith, AtLimit, Tolerated, Fault
<1>. QED BY <1>1, <1>2, <1>3, <1>4, <1>5, <1>6, <1>7, <1>8, <1>9, Zenon

\* The characters of a part as it is sent
LEMMA WrittenAt ==
  ASSUME NEW part \in Parts, NEW t \in Seq(Char)
  PROVE  LET w == Written(part, t) IN
         /\ part \in {"method", "major", "minor"} =>
              /\ Len(w) = Len(t) + 1
              /\ \A j \in 1 .. Len(t) : w[j] = t[j]
              /\ part = "method" => w[Len(t) + 1] = Space
              /\ part = "major" => w[Len(t) + 1] = "."
              /\ part = "minor" => w[Len(t) + 1] = "\r"
         /\ part \in {"port", "version"} =>
              /\ Len(w) = Len(t) + 1
              /\ part = "port" => w[1] = ":"
              /\ part = "version" => w[1] = Space
              /\ \A j \in 1 .. Len(t) : w[j + 1] = t[j]
         /\ part \in {"scheme", "host", "path", "end"} => w = t
<1> DEFINE w == Written(part, t)
<1>1. Space \in Char /\ ":" \in Char /\ "." \in Char /\ "\r" \in Char
  BY ResolutionAssumption, Zenon DEF Char, Space
<1>2. /\ part = "method" => w = Append(t, Space)
      /\ part = "major" => w = Append(t, ".")
      /\ part = "minor" => w = Append(t, "\r")
      /\ part = "port" => w = <<":">> \o t
      /\ part = "version" => w = <<Space>> \o t
      /\ part \in {"scheme", "host", "path", "end"} => w = t
  BY Zenon DEF Written, Space
<1>3. ASSUME NEW x \in Char
      PROVE  /\ Len(Append(t, x)) = Len(t) + 1
             /\ \A j \in 1 .. Len(t) : Append(t, x)[j] = t[j]
             /\ Append(t, x)[Len(t) + 1] = x
  BY AppendProperties
<1>4. ASSUME NEW x \in Char
      PROVE  /\ Len(<<x>> \o t) = Len(t) + 1
             /\ (<<x>> \o t)[1] = x
             /\ \A j \in 1 .. Len(t) : (<<x>> \o t)[j + 1] = t[j]
  <2>. DEFINE s == <<x>>
  <2>1. s \in Seq(Char) /\ Len(s) = 1 /\ s[1] = x
    OBVIOUS
  <2>. HIDE DEF s
  <2>. DEFINE v == s \o t
  <2>2. Len(v) = Len(s) + Len(t) /\ \A i \in 1 .. Len(v) : v[i] = IF i <= Len(s) THEN s[i] ELSE t[i - Len(s)]
    BY <2>1, ConcatProperties
  <2>. HIDE DEF v
  <2>3. Len(t) \in Nat /\ Len(v) = Len(t) + 1
    BY <2>1, <2>2
  <2>4. 1 \in 1 .. Len(v) /\ 1 <= Len(s)
    BY <2>1, <2>3
  <2>5. v[1] = x
    BY <2>1, <2>2, <2>4
  <2>6. \A j \in 1 .. Len(t) : j + 1 \in 1 .. Len(v) /\ ~ (j + 1 <= Len(s)) /\ (j + 1) - Len(s) = j
    BY <2>1, <2>3
  <2>7. \A j \in 1 .. Len(t) : v[j + 1] = t[j]
    BY <2>2, <2>6, Zenon
  <2>. QED BY <2>3, <2>5, <2>7 DEF v, s
<1>. HIDE DEF w
<1>5. part = "method" =>
        Len(w) = Len(t) + 1 /\ (\A j \in 1 .. Len(t) : w[j] = t[j]) /\ w[Len(t) + 1] = Space
  BY <1>1, <1>2, <1>3
<1>6. part = "major" =>
        Len(w) = Len(t) + 1 /\ (\A j \in 1 .. Len(t) : w[j] = t[j]) /\ w[Len(t) + 1] = "."
  BY <1>1, <1>2, <1>3
<1>7. part = "minor" =>
        Len(w) = Len(t) + 1 /\ (\A j \in 1 .. Len(t) : w[j] = t[j]) /\ w[Len(t) + 1] = "\r"
  BY <1>1, <1>2, <1>3
<1>8. part = "port" =>
        Len(w) = Len(t) + 1 /\ w[1] = ":" /\ \A j \in 1 .. Len(t) : w[j + 1] = t[j]
  BY <1>1, <1>2, <1>4
<1>9. part = "version" =>
        Len(w) = Len(t) + 1 /\ w[1] = Space /\ \A j \in 1 .. Len(t) : w[j + 1] = t[j]
  BY <1>1, <1>2, <1>4
<1>. QED BY <1>2, <1>5, <1>6, <1>7, <1>8, <1>9, Zenon DEF w

-----------------------------------------------------------------------------
(* A character more *)

\* The handler of each state
LEMMA HandlerIs ==
  ASSUME NEW p, NEW x
  PROVE  /\ p.state = "method" => LineFeed(p, x) = MethodFeed(p, x)
         /\ p.state = "target_scheme" => LineFeed(p, x) = SchemeFeed(p, x)
         /\ p.state = "target_host" => LineFeed(p, x) = HostFeed(p, x)
         /\ p.state = "target_port" => LineFeed(p, x) = PortFeed(p, x)
         /\ p.state = "target_ogform" => LineFeed(p, x) = OriginFormFeed(p, x)
         /\ p.state = "version" => LineFeed(p, x) = VersionFeed(p, x)
         /\ p.state = "version_major" => LineFeed(p, x) = NumberFeed(p, x, ".", "version_minor")
         /\ p.state = "version_minor" => LineFeed(p, x) = NumberFeed(p, x, "\r", "end")
         /\ p.state = "end" => LineFeed(p, x) = To(p, IF x = "\n" THEN "done" ELSE "error")
<1>1. p.state = "method" => LineFeed(p, x) = MethodFeed(p, x)
  BY Zenon DEF LineFeed
<1>2. p.state = "target_scheme" => LineFeed(p, x) = SchemeFeed(p, x)
  BY Zenon DEF LineFeed
<1>3. p.state = "target_host" => LineFeed(p, x) = HostFeed(p, x)
  BY Zenon DEF LineFeed
<1>4. p.state = "target_port" => LineFeed(p, x) = PortFeed(p, x)
  BY Zenon DEF LineFeed
<1>5. p.state = "target_ogform" => LineFeed(p, x) = OriginFormFeed(p, x)
  BY Zenon DEF LineFeed
<1>6. p.state = "version" => LineFeed(p, x) = VersionFeed(p, x)
  BY Zenon DEF LineFeed
<1>7. p.state = "version_major" => LineFeed(p, x) = NumberFeed(p, x, ".", "version_minor")
  BY Zenon DEF LineFeed
<1>8. p.state = "version_minor" => LineFeed(p, x) = NumberFeed(p, x, "\r", "end")
  BY Zenon DEF LineFeed
<1>9. p.state = "end" => LineFeed(p, x) = To(p, IF x = "\n" THEN "done" ELSE "error")
  BY Zenon DEF LineFeed
<1>. QED BY <1>1, <1>2, <1>3, <1>4, <1>5, <1>6, <1>7, <1>8, <1>9, Zenon

\* What leaves the later fields alone leaves the earlier ones alone
LEMMA KeepsAlso ==
  ASSUME NEW p, NEW q
  PROVE  /\ \A k \in 6 .. 9 : Keeps(7, p, q) => Keeps(k, p, q)
         /\ \A k \in 1 .. 1 : Keeps(k, p, q)
         /\ \A k \in 2 .. 3 : q.method = p.method => Keeps(k, p, q)
BY DEF Keeps

\* The parts that are set off from what they follow by their first character
SetOff == {"port", "path", "version"}

\* The states in which a part is under way
LEMMA StateIs ==
  ASSUME NEW part \in Parts, NEW t \in Seq(Char), NEW c \in Nat, NEW p, Progress(part, t, c, p)
  PROVE  /\ part = "method" /\ c <= Len(t) => p.state = "method"
         /\ part = "scheme" /\ c < 7 => p.state = "target_scheme"
         /\ part = "host" => p.state = "target_host"
         /\ part = "port" => p.state = "target_port"
         /\ part = "path" => p.state = "target_ogform"
         /\ part = "version" /\ c < 6 => p.state = "version"
         /\ part = "major" /\ c <= Len(t) => p.state = "version_major"
         /\ part = "minor" /\ c <= Len(t) => p.state = "version_minor"
         /\ part = "end" /\ c = 0 => p.state = "end"
<1>1. Len(t) \in Nat
  OBVIOUS
<1>2. part = "method" /\ c <= Len(t) => p.state = "method"
  BY <1>1 DEF Progress, AtMethod
<1>3. part = "scheme" /\ c < 7 => p.state = "target_scheme"
  BY DEF Progress, AtScheme
<1>4. part = "host" => p.state = "target_host"
  BY DEF Progress, AtHost
<1>5. part = "port" => p.state = "target_port"
  BY DEF Progress, AtPort
<1>6. part = "path" => p.state = "target_ogform"
  BY DEF Progress, AtPath
<1>7. part = "version" /\ c < 6 => p.state = "version"
  BY DEF Progress, AtVersion
<1>8. part = "major" /\ c <= Len(t) => p.state = "version_major"
  BY <1>1 DEF Progress, AtNumber
<1>9. part = "minor" /\ c <= Len(t) => p.state = "version_minor"
  BY <1>1 DEF Progress, AtNumber
<1>10. part = "end" /\ c = 0 => p.state = "end"
  BY DEF Progress, AtEnd
<1>. QED BY <1>2, <1>3, <1>4, <1>5, <1>6, <1>7, <1>8, <1>9, <1>10

\* A text in the place of a word has not outlived the word
LEMMA WordLasts ==
  ASSUME NEW t \in Seq(Char), NEW c \in Nat, NEW p
  PROVE  /\ AtScheme(t, c, p) /\ c < Len(t) => c < 7
         /\ AtVersion(t, c, p) /\ c <= Len(t) => c < 6
<1>1. Len(t) \in Nat
  OBVIOUS
<1>2. t = HttpScheme => Len(t) = 7
  BY WordsAre, Zenon
<1>3. t = HttpVersion => Len(t) = 5
  BY WordsAre, Zenon
<1>6. c = 6 => ~(c < 6)
  OBVIOUS
<1>4. AtScheme(t, c, p) /\ c < Len(t) => c < 7
  BY <1>1, <1>2 DEF AtScheme
<1>5. AtVersion(t, c, p) /\ c <= Len(t) => c < 6
  <2>. SUFFICES ASSUME AtVersion(t, c, p), c <= Len(t)
                PROVE  c < 6
    OBVIOUS
  <2>1. c < 6 \/ (c = 6 /\ t = HttpVersion)
    BY Zenon DEF AtVersion
  <2>2. c = 6 => Len(t) = 5
    BY <1>3, <1>6, <2>1, Zenon
  <2>3. ASSUME c = 6
        PROVE  FALSE
    <3>1. Len(t) = 5 /\ 6 <= Len(t)
      BY <2>2, <2>3, Zenon
    <3>. QED BY <3>1
  <2>. QED BY <2>1, <2>3, Zenon
<1>. QED BY <1>4, <1>5

\* A character more of any part but the first of one that is set off
LEMMA PartMore ==
  ASSUME NEW p \in Lines, NEW e \in Entry, TextOK(e.part, e.text),
         NEW c \in Nat, c < Len(Written(e.part, e.text)), ~(c = 0 /\ e.part \in SetOff),
         Progress(e.part, e.text, c, p),
         NEW q, q = LineFeed(p, Written(e.part, e.text)[c + 1])
  PROVE  /\ Progress(e.part, e.text, c + 1, q) \/ Refused(q, AnsweredWith(e))
         /\ Keeps(Rank[e.part], p, q)
<1> DEFINE part == e.part
           t == e.text
           w == Written(part, t)
           x == w[c + 1]
           f == AnsweredWith(e)
<1>1. part \in Parts /\ t \in Seq(Char)
  BY DEF Entry
<1>2. Len(t) \in Nat
  BY <1>1
<1>3. TextOK(part, t) /\ Progress(part, t, c, p) /\ c < Len(w) /\ q = LineFeed(p, x)
  OBVIOUS
<1>4. ~(c = 0 /\ part \in SetOff)
  OBVIOUS
<1>5. /\ part \in {"method", "major", "minor"} =>
           /\ Len(w) = Len(t) + 1
           /\ \A j \in 1 .. Len(t) : w[j] = t[j]
           /\ part = "method" => w[Len(t) + 1] = Space
           /\ part = "major" => w[Len(t) + 1] = "."
           /\ part = "minor" => w[Len(t) + 1] = "\r"
      /\ part \in {"port", "version"} =>
           /\ Len(w) = Len(t) + 1
           /\ \A j \in 1 .. Len(t) : w[j + 1] = t[j]
      /\ part \in {"scheme", "host", "path", "end"} => w = t
  BY <1>1, WrittenAt
<1>6. Rank["method"] = 1 /\ Rank["scheme"] = 2 /\ Rank["host"] = 3 /\ Rank["port"] = 4 /\ Rank["path"] = 5
      /\ Rank["version"] = 6 /\ Rank["major"] = 7 /\ Rank["minor"] = 8 /\ Rank["end"] = 9
  BY DEF Rank
<1>7. /\ part = "method" => f = MethodAnswer(t)
      /\ part = "scheme" => f = IF t # HttpScheme THEN 400 ELSE 0
      /\ part = "host" => f = IF HostFault(t) THEN 400 ELSE 0
      /\ part = "port" => f = IF PortFault(t) THEN 400 ELSE 0
      /\ part = "path" => f = IF Len(t) >= MaxOriginForm THEN 400 ELSE 0
      /\ part = "version" => f = IF t # HttpVersion THEN 400 ELSE 0
      /\ part = "major" => f = NumberAnswer(t)
      /\ part = "minor" => f = NumberAnswer(t)
      /\ part = "end" => f = IF t # <<"\n">> THEN 400 ELSE 0
  BY <1>1, FaultsAre, Zenon
<1> HIDE DEF part, t, w, x, f
<1>8. x = w[c + 1]
  BY DEF x
<1>9. SUFFICES (Progress(part, t, c + 1, q) \/ Refused(q, f)) /\ Keeps(Rank[part], p, q)
  BY DEF part, t, f
<1>10. CASE part = "method"
  <2>1. AtMethod(t, c, p) /\ \A j \in 1 .. Len(t) : t[j] # Space
    BY <1>3, <1>10 DEF Progress, TextOK
  <2>2. c <= Len(t)
    BY <1>2, <1>3, <1>5, <1>10
  <2>3. q = MethodFeed(p, x)
    BY <1>1, <1>3, <1>10, <2>2, StateIs, HandlerIs
  <2>4. AtMethod(t, c + 1, q) \/ Refused(q, MethodAnswer(t))
    <3>1. CASE c < Len(t)
      <4>1. c + 1 \in 1 .. Len(t)
        BY <1>2, <3>1
      <4>2. x = t[c + 1] /\ t[c + 1] # Space
        BY <1>5, <1>8, <1>10, <2>1, <4>1
      <4>. QED BY <1>1, <2>1, <2>3, <3>1, <4>2, MethodMore
    <3>2. CASE c = Len(t)
      <4>1. x = Space
        BY <1>5, <1>8, <1>10, <3>2
      <4>. QED BY <1>1, <2>1, <2>3, <3>2, <4>1, MethodEnds
    <3>. QED BY <1>2, <2>2, <3>1, <3>2
  <2>6. Progress(part, t, c + 1, q) \/ Refused(q, f)
    BY <1>7, <1>10, <2>4 DEF Progress
  <2>7. Keeps(Rank[part], p, q)
    BY <1>6, <1>10 DEF Keeps
  <2>. QED BY <2>6, <2>7
<1>11. CASE part = "scheme"
  <2>1. AtScheme(t, c, p) /\ InPlaceOf(t, HttpScheme)
    BY <1>3, <1>11 DEF Progress, TextOK
  <2>2. c < Len(t) /\ x = t[c + 1]
    BY <1>3, <1>5, <1>8, <1>11
  <2>3. c < 7
    BY <1>1, <2>1, <2>2, WordLasts
  <2>4. q = SchemeFeed(p, t[c + 1])
    BY <1>1, <1>3, <1>11, <2>2, <2>3, StateIs, HandlerIs
  <2>5. (AtScheme(t, c + 1, q) \/ (Refused(q, 400) /\ t # HttpScheme)) /\ q.method = p.method
    BY <1>1, <2>1, <2>2, <2>4, SchemeMore
  <2>6. Progress(part, t, c + 1, q) \/ Refused(q, f)
    BY <1>7, <1>11, <2>5 DEF Progress
  <2>7. Keeps(Rank[part], p, q)
    BY <1>6, <1>11, <2>5 DEF Keeps
  <2>. QED BY <2>6, <2>7
<1>12. CASE part = "host"
  <2>1. AtHost(t, c, p) /\ HostText(t)
    BY <1>3, <1>12 DEF Progress, TextOK
  <2>2. c < Len(t) /\ x = t[c + 1]
    BY <1>3, <1>5, <1>8, <1>12
  <2>3. q = HostFeed(p, t[c + 1])
    BY <1>1, <1>3, <1>12, <2>2, StateIs, HandlerIs
  <2>4. (AtHost(t, c + 1, q) \/ (Refused(q, 400) /\ HostFault(t))) /\ q.method = p.method
    <3>1. CASE Bracketed(t)
      BY <1>1, <2>1, <2>2, <2>3, <3>1, LiteralMore
    <3>2. CASE ~Bracketed(t)
      BY <1>1, <2>1, <2>2, <2>3, <3>2, HostNameMore
    <3>. QED BY <3>1, <3>2
  <2>5. Progress(part, t, c + 1, q) \/ Refused(q, f)
    BY <1>7, <1>12, <2>4 DEF Progress
  <2>6. Keeps(Rank[part], p, q)
    BY <1>6, <1>12, <2>4 DEF Keeps
  <2>. QED BY <2>5, <2>6
<1>13. CASE part = "port"
  <2>1. AtPort(t, c, p) /\ PortText(t)
    BY <1>3, <1>13 DEF Progress, TextOK
  <2>2. 1 <= c /\ c <= Len(t)
    BY <1>2, <1>3, <1>4, <1>5, <1>13 DEF SetOff
  <2>3. c \in 1 .. Len(t)
    BY <1>2, <2>2
  <2>4. x = t[c]
    BY <1>5, <1>8, <1>13, <2>3
  <2>5. q = PortFeed(p, t[c])
    BY <1>1, <1>3, <1>13, <2>4, StateIs, HandlerIs
  <2>6. (AtPort(t, c + 1, q) \/ (Refused(q, 400) /\ PortFault(t))) /\ Keeps(4, p, q)
    BY <1>1, <2>1, <2>2, <2>5, PortMore
  <2>7. Progress(part, t, c + 1, q) \/ Refused(q, f)
    BY <1>7, <1>13, <2>6 DEF Progress
  <2>. QED BY <1>6, <1>13, <2>6, <2>7
<1>14. CASE part = "path"
  <2>1. AtPath(t, c, p) /\ \A j \in 1 .. Len(t) : t[j] # Space
    BY <1>3, <1>14 DEF Progress, TextOK
  <2>2. c < Len(t) /\ x = t[c + 1]
    BY <1>3, <1>5, <1>8, <1>14
  <2>3. c + 1 \in 1 .. Len(t)
    BY <1>2, <2>2
  <2>4. t[c + 1] # Space
    BY <2>1, <2>3
  <2>5. q = OriginFormFeed(p, t[c + 1])
    BY <1>1, <1>3, <1>14, <2>2, StateIs, HandlerIs
  <2>6. (AtPath(t, c + 1, q) \/ (Refused(q, 400) /\ Len(t) >= MaxOriginForm)) /\ Keeps(5, p, q)
    BY <1>1, <2>1, <2>2, <2>4, <2>5, PathMore
  <2>7. Progress(part, t, c + 1, q) \/ Refused(q, f)
    BY <1>7, <1>14, <2>6 DEF Progress
  <2>. QED BY <1>6, <1>14, <2>6, <2>7
<1>15. CASE part = "version"
  <2>1. AtVersion(t, c, p) /\ InPlaceOf(t, HttpVersion)
    BY <1>3, <1>15 DEF Progress, TextOK
  <2>2. 1 <= c /\ c <= Len(t)
    BY <1>2, <1>3, <1>4, <1>5, <1>15 DEF SetOff
  <2>3. c \in 1 .. Len(t)
    BY <1>2, <2>2
  <2>4. x = t[c] /\ c < 6
    BY <1>1, <1>5, <1>8, <1>15, <2>1, <2>2, <2>3, WordLasts
  <2>5. q = VersionFeed(p, t[c])
    BY <1>1, <1>3, <1>15, <2>4, StateIs, HandlerIs
  <2>6. (AtVersion(t, c + 1, q) \/ (Refused(q, 400) /\ t # HttpVersion)) /\ Keeps(7, p, q)
    BY <1>1, <2>1, <2>2, <2>5, VersionMore
  <2>7. Progress(part, t, c + 1, q) \/ Refused(q, f)
    BY <1>7, <1>15, <2>6 DEF Progress
  <2>8. Keeps(6, p, q)
    BY <2>6, KeepsAlso
  <2>. QED BY <1>6, <1>15, <2>7, <2>8
<1>16. ASSUME NEW state, NEW next, NEW end, end \notin Digit, part \in {"major", "minor"}, w[Len(t) + 1] = end,
              \A j \in 1 .. Len(t) : t[j] # end, AtNumber(t, c, p, state, next),
              c <= Len(t), q = NumberFeed(p, x, end, next)
       PROVE  (AtNumber(t, c + 1, q, state, next) \/ Refused(q, NumberAnswer(t))) /\ Keeps(7, p, q)
  <2>4. CASE c < Len(t)
    <3>1. c + 1 \in 1 .. Len(t)
      BY <1>2, <2>4
    <3>2. x = t[c + 1] /\ t[c + 1] # end
      BY <1>5, <1>8, <1>16, <3>1
    <3>. QED BY <1>1, <1>16, <2>4, <3>2, NumberMore
  <2>5. CASE c = Len(t)
    <3>1. x = end
      BY <1>8, <1>16, <2>5
    <3>. QED BY <1>1, <1>16, <2>5, <3>1, NumberEnds
  <2>. QED BY <1>2, <1>16, <2>4, <2>5
<1>17. "." \notin Digit /\ "\r" \notin Digit
  BY DEF Digit, Digits
<1>18. CASE part = "major"
  <2>1. AtNumber(t, c, p, "version_major", "version_minor") /\ \A j \in 1 .. Len(t) : t[j] # "."
    BY <1>3, <1>18 DEF Progress, TextOK
  <2>2. c <= Len(t) /\ w[Len(t) + 1] = "."
    BY <1>2, <1>3, <1>5, <1>18
  <2>3. q = NumberFeed(p, x, ".", "version_minor")
    BY <1>1, <1>3, <1>18, <2>2, StateIs, HandlerIs
  <2>4. /\ AtNumber(t, c + 1, q, "version_major", "version_minor") \/ Refused(q, NumberAnswer(t))
        /\ Keeps(7, p, q)
    BY <1>16, <1>17, <1>18, <2>1, <2>2, <2>3
  <2>5. Progress(part, t, c + 1, q) \/ Refused(q, f)
    BY <1>7, <1>18, <2>4 DEF Progress
  <2>. QED BY <1>6, <1>18, <2>4, <2>5
<1>19. CASE part = "minor"
  <2>1. AtNumber(t, c, p, "version_minor", "end") /\ \A j \in 1 .. Len(t) : t[j] # "\r"
    BY <1>3, <1>19 DEF Progress, TextOK
  <2>2. c <= Len(t) /\ w[Len(t) + 1] = "\r"
    BY <1>2, <1>3, <1>5, <1>19
  <2>3. q = NumberFeed(p, x, "\r", "end")
    BY <1>1, <1>3, <1>19, <2>2, StateIs, HandlerIs
  <2>4. /\ AtNumber(t, c + 1, q, "version_minor", "end") \/ Refused(q, NumberAnswer(t))
        /\ Keeps(7, p, q)
    BY <1>16, <1>17, <1>19, <2>1, <2>2, <2>3
  <2>5. Progress(part, t, c + 1, q) \/ Refused(q, f)
    BY <1>7, <1>19, <2>4 DEF Progress
  <2>6. Keeps(8, p, q)
    BY <2>4, KeepsAlso
  <2>. QED BY <1>6, <1>19, <2>5, <2>6
<1>20. CASE part = "end"
  <2>1. Len(t) = 1 /\ w = t
    BY <1>3, <1>5, <1>20 DEF TextOK
  <2>0. c = 0
    <3>1. c < Len(w) /\ Len(w) = 1
      BY <1>3, <2>1, Zenon
    <3>. QED BY <3>1
  <2>2. c = 0 /\ x = t[1]
    BY <1>8, <2>0, <2>1
  <2>3. AtEnd(t, 0, p)
    BY <1>3, <1>20, <2>2 DEF Progress
  <2>4. q = To(p, IF t[1] = "\n" THEN "done" ELSE "error")
    BY <1>1, <1>3, <1>20, <2>2, StateIs, HandlerIs
  <2>5. (AtEnd(t, 1, q) \/ (Refused(q, 400) /\ t # <<"\n">>)) /\ Keeps(7, p, q)
    BY <1>1, <2>1, <2>3, <2>4, EndMore
  <2>6. Progress(part, t, c + 1, q) \/ Refused(q, f)
    BY <1>7, <1>20, <2>2, <2>5 DEF Progress
  <2>7. Keeps(9, p, q)
    BY <2>5, KeepsAlso
  <2>. QED BY <1>6, <1>20, <2>6, <2>7
<1>. QED BY <1>1, <1>10, <1>11, <1>12, <1>13, <1>14, <1>15, <1>18, <1>19, <1>20 DEF Parts
-----------------------------------------------------------------------------
(* The end of a part and the beginning of the next *)

\* No part is an error while it is under way, and only the last one is done
LEMMA UnderWay ==
  ASSUME NEW part \in Parts, NEW t \in Seq(Char), NEW c \in Nat, NEW p, Progress(part, t, c, p)
  PROVE  ErrorOf(p.state) = 0 /\ (p.state = "done" => part = "end" /\ c = 1 /\ t = <<"\n">>)
<1>1. \A s \in {"method", "target_scheme", "target_host", "target_port", "target_ogform", "version",
                "version_major", "version_minor", "end", "done"} : ErrorOf(s) = 0
  BY DEF ErrorOf
<1>2. /\ part = "method" => AtMethod(t, c, p)
      /\ part = "scheme" => AtScheme(t, c, p)
      /\ part = "host" => AtHost(t, c, p)
      /\ part = "port" => AtPort(t, c, p)
      /\ part = "path" => AtPath(t, c, p)
      /\ part = "version" => AtVersion(t, c, p)
      /\ part = "major" => AtNumber(t, c, p, "version_major", "version_minor")
      /\ part = "minor" => AtNumber(t, c, p, "version_minor", "end")
      /\ part = "end" => AtEnd(t, c, p)
  BY DEF Progress
<1>3. part = "method" => p.state \in {"method", "target_host", "target_scheme"}
  BY <1>2 DEF AtMethod
<1>4. part = "scheme" => p.state \in {"target_host", "target_scheme"}
  BY <1>2 DEF AtScheme
<1>5. part = "host" => p.state = "target_host"
  BY <1>2 DEF AtHost
<1>6. part = "port" => p.state = "target_port"
  BY <1>2 DEF AtPort
<1>7. part = "path" => p.state = "target_ogform"
  BY <1>2 DEF AtPath
<1>8. part = "version" => p.state \in {"version", "version_major"}
  BY <1>2 DEF AtVersion
<1>9. part = "major" => p.state \in {"version_major", "version_minor"}
  BY <1>2 DEF AtNumber
<1>10. part = "minor" => p.state \in {"version_minor", "end"}
  BY <1>2 DEF AtNumber
<1>11. part = "end" => p.state = "end" \/ (p.state = "done" /\ c = 1 /\ t = <<"\n">>)
  BY <1>2 DEF AtEnd
<1>12. CASE part = "end"
  BY <1>1, <1>11, <1>12
<1>13. CASE part # "end"
  BY <1>1, <1>3, <1>4, <1>5, <1>6, <1>7, <1>8, <1>9, <1>10, <1>13 DEF Parts
<1>. QED BY <1>12, <1>13

\* A part that has ended by itself had no fault
LEMMA PartEnded ==
  ASSUME NEW p, NEW e \in Entry, TextOK(e.part, e.text), e.part \notin OpenEnded,
         Progress(e.part, e.text, Len(Written(e.part, e.text)), p)
  PROVE  AnsweredWith(e) = 0 /\ Leaves(e.part, e.text, p)
<1> DEFINE part == e.part
           t == e.text
           w == Written(part, t)
           f == AnsweredWith(e)
<1>1. part \in Parts /\ t \in Seq(Char)
  BY DEF Entry
<1>2. TextOK(part, t) /\ Progress(part, t, Len(w), p) /\ part \notin {"host", "port", "path"}
  BY DEF OpenEnded
<1>3. /\ part \in {"method", "major", "minor", "version"} => Len(w) = Len(t) + 1
      /\ part \in {"scheme", "end"} => w = t
  BY <1>1, WrittenAt
<1>4. /\ part = "method" => f = MethodAnswer(t)
      /\ part = "scheme" => f = IF t # HttpScheme THEN 400 ELSE 0
      /\ part = "version" => f = IF t # HttpVersion THEN 400 ELSE 0
      /\ part = "major" => f = NumberAnswer(t)
      /\ part = "minor" => f = NumberAnswer(t)
      /\ part = "end" => f = IF t # <<"\n">> THEN 400 ELSE 0
  BY <1>1, FaultsAre, Zenon
<1> HIDE DEF part, t, w, f
<1>5. SUFFICES f = 0 /\ Leaves(part, t, p)
  BY DEF part, t, f
<1>6. CASE part = "method"
  <2>1. AtMethod(t, Len(t) + 1, p)
    BY <1>2, <1>3, <1>6 DEF Progress
  <2>2. MethodAnswer(t) = 0 /\ p.method = t
    BY <1>1, <2>1, MethodEnded
  <2>. QED BY <1>4, <1>6, <2>2 DEF Leaves
<1>7. CASE part = "scheme"
  <2>1. AtScheme(t, Len(t), p) /\ InPlaceOf(t, HttpScheme)
    BY <1>2, <1>3, <1>7 DEF Progress, TextOK
  <2>2. t = HttpScheme
    BY <1>1, <2>1, SchemeEnded
  <2>. QED BY <1>4, <1>7, <2>2 DEF Leaves
<1>8. CASE part = "version"
  <2>1. AtVersion(t, Len(t) + 1, p) /\ InPlaceOf(t, HttpVersion)
    BY <1>2, <1>3, <1>8 DEF Progress, TextOK
  <2>2. t = HttpVersion
    BY <1>1, <2>1, VersionEnded
  <2>. QED BY <1>4, <1>8, <2>2 DEF Leaves
<1>9. CASE part \in {"major", "minor"}
  <2>1. \E s, n : AtNumber(t, Len(t) + 1, p, s, n)
    BY <1>2, <1>3, <1>9 DEF Progress
  <2>2. NumberAnswer(t) = 0
    BY <1>1, <2>1, NumberEnded
  <2>. QED BY <1>4, <1>9, <2>2 DEF Leaves
<1>10. CASE part = "end"
  <2>1. AtEnd(t, Len(t), p) /\ Len(t) = 1
    BY <1>2, <1>3, <1>10 DEF Progress, TextOK
  <2>2. t = <<"\n">>
    BY <2>1 DEF AtEnd
  <2>. QED BY <1>4, <1>10, <2>2 DEF Leaves
<1>. QED BY <1>1, <1>2, <1>6, <1>7, <1>8, <1>9, <1>10 DEF Parts

\* A host begins with nothing known
LEMMA HostBegins ==
  ASSUME NEW p, NEW u \in Seq(Char), Fresh(p), p.state = "target_host", p.i = 0
  PROVE  AtHost(u, 0, p)
<1>1. Brackets(u) \in Nat /\ InBrackets(u) \in Seq(Char)
  BY InBracketsIs
<1>2. SubSeq(u, 1, 0) = <<>> /\ SubSeq(InBrackets(u), 1, 0) = <<>>
  BY <1>1
<1>3. 0 <= MaxFqdnLength
  BY LineAssumption
<1>4. 0 <= Brackets(u)
  BY <1>1
<1>. QED BY <1>2, <1>3, <1>4 DEF AtHost, Fresh

\* The parts that may follow
LEMMA FollowsIs ==
  ASSUME NEW e, NEW n, n \in Follows(e), e.part \in Parts
  PROVE  /\ e.part = "method" => n = IF e.text = Connect THEN "host" ELSE "scheme"
         /\ e.part = "scheme" => n = "host"
         /\ e.part = "host" =>
              /\ n \in SetOff
              /\ n = "port" => ~(Bracketed(e.text) /\ e.text[Len(e.text)] # "]")
         /\ e.part = "port" => n \in {"path", "version"}
         /\ e.part = "path" => n = "version"
         /\ e.part = "version" => n = "major"
         /\ e.part = "major" => n = "minor"
         /\ e.part = "minor" => n = "end"
         /\ e.part # "end"
<1>1. e.part = "method" => n = IF e.text = Connect THEN "host" ELSE "scheme"
  BY DEF Follows
<1>2. e.part = "scheme" => n = "host"
  BY DEF Follows
<1>3. e.part = "host" =>
        /\ n \in SetOff
        /\ n = "port" => ~(Bracketed(e.text) /\ e.text[Len(e.text)] # "]")
  BY DEF Follows, SetOff
<1>4. e.part = "port" => n \in {"path", "version"}
  BY DEF Follows
<1>5. e.part = "path" => n = "version"
  BY DEF Follows
<1>6. e.part = "version" => n = "major"
  BY DEF Follows
<1>7. e.part = "major" => n = "minor"
  BY DEF Follows
<1>8. e.part = "minor" => n = "end"
  BY DEF Follows
<1>9. e.part # "end"
  BY DEF Follows
<1>. QED BY <1>1, <1>2, <1>3, <1>4, <1>5, <1>6, <1>7, <1>8, <1>9

\* A part begins where the one before it has ended by itself
LEMMA PartBegins ==
  ASSUME NEW p, NEW e \in Entry, TextOK(e.part, e.text),
         NEW n, n \in Follows(e), n \notin SetOff, NEW u \in Seq(Char),
         Progress(e.part, e.text, Len(Written(e.part, e.text)), p)
  PROVE  Progress(n, u, 0, p) /\ e.part \notin OpenEnded
<1> DEFINE part == e.part
           t == e.text
           w == Written(part, t)
<1>1. part \in Parts /\ t \in Seq(Char)
  BY DEF Entry
<1>2. TextOK(part, t) /\ Progress(part, t, Len(w), p)
  OBVIOUS
<1>3. /\ part \in {"method", "major", "minor", "version"} => Len(w) = Len(t) + 1
      /\ part \in {"scheme", "end"} => w = t
  BY <1>1, WrittenAt
<1>4. /\ part = "method" => n = IF t = Connect THEN "host" ELSE "scheme"
      /\ part = "scheme" => n = "host"
      /\ part = "version" => n = "major"
      /\ part = "major" => n = "minor"
      /\ part = "minor" => n = "end"
      /\ part \notin OpenEnded /\ part # "end"
  BY <1>1, FollowsIs DEF SetOff, OpenEnded
<1> HIDE DEF part, t, w
<1>5. SUFFICES Progress(n, u, 0, p)
  BY <1>4 DEF part
<1>6. 0 <= Len(u)
  OBVIOUS
<1>7. CASE part = "method"
  <2>1. AtMethod(t, Len(t) + 1, p)
    BY <1>2, <1>3, <1>7 DEF Progress
  <2>2. Fresh(p) /\ p.i = 0 /\ p.state = IF t = Connect THEN "target_host" ELSE "target_scheme"
    BY <1>1, <2>1, MethodEnded
  <2>3. CASE t = Connect
    <3>1. AtHost(u, 0, p)
      BY <2>2, <2>3, HostBegins
    <3>. QED BY <1>4, <1>7, <2>3, <3>1 DEF Progress
  <2>4. CASE t # Connect
    <3>1. AtScheme(u, 0, p)
      BY <2>2, <2>4 DEF AtScheme
    <3>. QED BY <1>4, <1>7, <2>4, <3>1 DEF Progress
  <2>. QED BY <2>3, <2>4
<1>8. CASE part = "scheme"
  <2>1. AtScheme(t, Len(t), p) /\ InPlaceOf(t, HttpScheme)
    BY <1>2, <1>3, <1>8 DEF Progress, TextOK
  <2>2. Fresh(p) /\ p.i = 0 /\ p.state = "target_host"
    BY <1>1, <2>1, SchemeEnded
  <2>3. AtHost(u, 0, p)
    BY <2>2, HostBegins
  <2>. QED BY <1>4, <1>8, <2>3 DEF Progress
<1>9. CASE part = "version"
  <2>1. AtVersion(t, Len(t) + 1, p) /\ InPlaceOf(t, HttpVersion)
    BY <1>2, <1>3, <1>9 DEF Progress, TextOK
  <2>2. p.state = "version_major" /\ p.i = 0
    BY <1>1, <2>1, VersionEnded
  <2>3. AtNumber(u, 0, p, "version_major", "version_minor")
    BY <1>6, <2>2 DEF AtNumber
  <2>. QED BY <1>4, <1>9, <2>3 DEF Progress
<1>10. CASE part = "major"
  <2>1. AtNumber(t, Len(t) + 1, p, "version_major", "version_minor")
    BY <1>2, <1>3, <1>10 DEF Progress
  <2>2. p.state = "version_minor" /\ p.i = 0
    BY <1>1, <2>1, NumberEnded
  <2>3. AtNumber(u, 0, p, "version_minor", "end")
    BY <1>6, <2>2 DEF AtNumber
  <2>. QED BY <1>4, <1>10, <2>3 DEF Progress
<1>11. CASE part = "minor"
  <2>1. AtNumber(t, Len(t) + 1, p, "version_minor", "end")
    BY <1>2, <1>3, <1>11 DEF Progress
  <2>2. p.state = "end" /\ p.i = 0
    BY <1>1, <2>1, NumberEnded
  <2>3. AtEnd(u, 0, p)
    BY <2>2 DEF AtEnd
  <2>. QED BY <1>4, <1>11, <2>3 DEF Progress
<1>. QED BY <1>1, <1>4, <1>7, <1>8, <1>9, <1>10, <1>11 DEF Parts, OpenEnded

\* A host, a port or a path ends with the first character of the part after it
LEMMA PartEnds ==
  ASSUME NEW p \in Lines, NEW e \in Entry, TextOK(e.part, e.text), e.part \in OpenEnded,
         Progress(e.part, e.text, Len(Written(e.part, e.text)), p),
         NEW n, n \in Follows(e), NEW u, TextOK(n, u),
         NEW q, q = LineFeed(p, Written(n, u)[1])
  PROVE  /\ \/ /\ AnsweredWith(e) = 0 /\ Leaves(e.part, e.text, q) /\ Progress(n, u, 1, q)
               /\ e.part = "host" => q.port = Swapped(80)
               /\ n = "version" /\ e.part # "path" =>
                    q.origin_form = IF q.method = Options THEN <<>> ELSE <<"/">>
            \/ Refused(q, AnsweredWith(e))
         /\ Keeps(Rank[e.part], p, q)
<1> DEFINE part == e.part
           t == e.text
           w == Written(part, t)
           x == Written(n, u)[1]
           f == AnsweredWith(e)
<1>1. part \in Parts /\ t \in Seq(Char)
  BY DEF Entry
<1>2. Progress(part, t, Len(w), p) /\ q = LineFeed(p, x) /\ part \in OpenEnded
  OBVIOUS
<1>3. Len(t) \in Nat
  BY <1>1
<1>4. (part \in {"host", "path"} => w = t) /\ (part = "port" => Len(w) = Len(t) + 1)
  BY <1>1, WrittenAt
<1>5. /\ part = "host" => f = IF HostFault(t) THEN 400 ELSE 0
      /\ part = "port" => f = IF PortFault(t) THEN 400 ELSE 0
      /\ part = "path" => f = IF Len(t) >= MaxOriginForm THEN 400 ELSE 0
  BY <1>1, FaultsAre, Zenon
<1>6. /\ part = "host" =>
           n \in SetOff /\ (n = "port" => ~(Bracketed(t) /\ t[Len(t)] # "]"))
      /\ part = "port" => n \in {"path", "version"}
      /\ part = "path" => n = "version"
  BY <1>1, FollowsIs
<1>7. n \in {"port", "path", "version"}
  BY <1>2, <1>6 DEF OpenEnded, SetOff
<1>8. u \in Seq(Char) /\ n \in Parts
  BY <1>7, Zenon DEF TextOK, Parts
<1>9. n = "path" => Len(u) >= 1 /\ u[1] \in EndOfAuthority
  BY DEF TextOK
<1>10. (n = "port" => x = ":") /\ (n = "version" => x = Space) /\ (n = "path" => x = u[1])
  BY <1>8, WrittenAt
<1>11. Rank["host"] = 3 /\ Rank["port"] = 4 /\ Rank["path"] = 5
  BY DEF Rank
<1> HIDE DEF part, t, w, x, f
<1>12. Opens(n, u, x)
  BY <1>7, <1>8, <1>9, <1>10, Zenon DEF Opens
<1>13. ASSUME Opened(n, u, q) PROVE Progress(n, u, 1, q)
  BY <1>7, <1>13 DEF Opened, Progress
<1>14. ASSUME Opened(n, u, q), n = "version"
       PROVE  q.origin_form = IF q.method = Options THEN <<>> ELSE <<"/">>
  BY <1>14 DEF Opened
<1>15. SUFFICES
         /\ \/ /\ f = 0 /\ Leaves(part, t, q) /\ Progress(n, u, 1, q)
               /\ part = "host" => q.port = Swapped(80)
               /\ n = "version" /\ part # "path" =>
                    q.origin_form = IF q.method = Options THEN <<>> ELSE <<"/">>
            \/ Refused(q, f)
         /\ Keeps(Rank[part], p, q)
  BY DEF part, t, f
<1>16. CASE part = "host"
  <2>1. AtHost(t, Len(t), p)
    BY <1>2, <1>4, <1>16 DEF Progress
  <2>2. q = HostFeed(p, x)
    BY <1>1, <1>2, <1>3, <1>4, <1>16, StateIs, HandlerIs
  <2>3. /\ \/ /\ ~HostFault(t) /\ HostLeft(t, q) /\ q.port = Swapped(80)
              /\ Opened(n, u, q) /\ ErrorOf(q.state) = 0
           \/ Refused(q, 400) /\ HostFault(t)
        /\ q.method = p.method
    <3>1. CASE Bracketed(t)
      <4>1. n = "port" => t[Len(t)] = "]"
        BY <1>6, <1>16, <3>1
      <4>. QED BY <1>1, <1>12, <2>1, <2>2, <3>1, <4>1, LiteralEnds
    <3>2. CASE ~Bracketed(t)
      BY <1>1, <1>12, <2>1, <2>2, <3>2, HostNameEnds
    <3>. QED BY <3>1, <3>2
  <2>4. Keeps(Rank[part], p, q)
    BY <1>11, <1>16, <2>3 DEF Keeps
  <2>5. CASE HostFault(t)
    <3>1. Refused(q, f)
      BY <1>5, <1>16, <2>3, <2>5
    <3>. QED BY <2>4, <3>1
  <2>6. CASE ~HostFault(t)
    <3>1. f = 0
      BY <1>5, <1>16, <2>6
    <3>2. HostLeft(t, q) /\ q.port = Swapped(80) /\ Opened(n, u, q)
      BY <2>3, <2>6
    <3>3. Leaves(part, t, q)
      BY <1>16, <3>2 DEF Leaves
    <3>. QED BY <1>13, <1>14, <2>4, <3>1, <3>2, <3>3
  <2>. QED BY <2>5, <2>6
<1>17. CASE part = "port"
  <2>1. AtPort(t, Len(t) + 1, p)
    BY <1>2, <1>4, <1>17 DEF Progress
  <2>2. q = PortFeed(p, x)
    BY <1>1, <1>2, <1>3, <1>4, <1>17, StateIs, HandlerIs
  <2>3. n # "port"
    BY <1>6, <1>17
  <2>4. /\ \/ ~PortFault(t) /\ PortLeft(t, q) /\ Opened(n, u, q) /\ ErrorOf(q.state) = 0
           \/ Refused(q, 400) /\ PortFault(t)
        /\ Keeps(4, p, q)
    BY <1>1, <1>12, <2>1, <2>2, <2>3, PortEnds
  <2>5. CASE PortFault(t)
    <3>1. Refused(q, f)
      BY <1>5, <1>17, <2>4, <2>5
    <3>. QED BY <1>11, <1>17, <2>4, <3>1
  <2>6. CASE ~PortFault(t)
    <3>1. f = 0
      BY <1>5, <1>17, <2>6
    <3>2. PortLeft(t, q) /\ Opened(n, u, q)
      BY <2>4, <2>6
    <3>3. Leaves(part, t, q)
      BY <1>17, <3>2 DEF Leaves
    <3>. QED BY <1>11, <1>13, <1>14, <1>17, <2>4, <3>1, <3>2, <3>3
  <2>. QED BY <2>5, <2>6
<1>18. CASE part = "path"
  <2>1. AtPath(t, Len(t), p)
    BY <1>2, <1>4, <1>18 DEF Progress
  <2>2. q = OriginFormFeed(p, x)
    BY <1>1, <1>2, <1>3, <1>4, <1>18, StateIs, HandlerIs
  <2>3. n = "version" /\ x = Space
    BY <1>6, <1>10, <1>18
  <2>4. /\ \/ q.origin_form = t /\ Len(t) < MaxOriginForm /\ AtVersion(u, 1, q)
           \/ Refused(q, 400) /\ Len(t) >= MaxOriginForm
        /\ Keeps(5, p, q)
    BY <1>1, <2>1, <2>2, <2>3, PathEnds
  <2>5. CASE Refused(q, 400) /\ Len(t) >= MaxOriginForm
    <3>1. Refused(q, f)
      BY <1>5, <1>18, <2>5
    <3>. QED BY <1>11, <1>18, <2>4, <3>1
  <2>6. CASE q.origin_form = t /\ Len(t) < MaxOriginForm /\ AtVersion(u, 1, q)
    <3>0. ~(Len(t) >= MaxOriginForm)
      BY <1>3, <2>6, LineAssumption
    <3>1. f = 0
      BY <1>5, <1>18, <3>0
    <3>2. Leaves(part, t, q) /\ Progress(n, u, 1, q)
      BY <1>18, <2>3, <2>6 DEF Leaves, Progress
    <3>. QED BY <1>11, <1>18, <2>4, <3>1, <3>2
  <2>. QED BY <2>4, <2>5, <2>6
<1>. QED BY <1>2, <1>16, <1>17, <1>18 DEF OpenEnded
-----------------------------------------------------------------------------
(* The line as a whole *)

\* A part as it is sent
AsSent(e) == Written(e.part, e.text)

\* The parts come in their order, and what sets off a part comes after a host
Ordered(S) ==
  /\ \A n \in 1 .. Len(S) : TextOK(S[n].part, S[n].text)
  /\ Len(S) >= 1 => S[1].part = "method"
  /\ \A n \in 1 .. Len(S) - 1 : S[n + 1].part \in Follows(S[n])
  /\ \A m, n \in 1 .. Len(S) : m < n => Rank[S[m].part] < Rank[S[n].part]
  /\ \A n \in 1 .. Len(S) : Rank[S[n].part] >= 4 => \E m \in 1 .. n : S[m].part = "host"

\* The parser p after c characters of part n: the parts before it had no fault and
\* have left what they say, and what was not said is what it is taken for
Arrived(S, n, c, p) ==
  /\ Progress(S[n].part, S[n].text, c, p)
  /\ \A i \in 1 .. n - 1 : AnsweredWith(S[i]) = 0 /\ Leaves(S[i].part, S[i].text, p)
  /\ (\E i \in 1 .. n - 1 : S[i].part = "host") /\ (\A i \in 1 .. n : S[i].part # "port") =>
       p.port = Swapped(80)
  /\ (\E i \in 1 .. n : S[i].part = "version") /\ (\A i \in 1 .. n : S[i].part # "path") =>
       p.origin_form = IF p.method = Options THEN <<>> ELSE <<"/">>

\* The same of the last part.  One that is set off has not begun before its first
\* character.
Placed(S, c, p) ==
  IF c = 0 /\ S[Len(S)].part \in SetOff
    THEN Arrived(S, Len(S) - 1, Len(AsSent(S[Len(S) - 1])), p)
    ELSE Arrived(S, Len(S), c, p)

\* The line is refused for the first part that has a fault
RefusedFor(S, p) ==
  \E n \in 1 .. Len(S) : Refused(p, AnsweredWith(S[n])) /\ \A i \in 1 .. n - 1 : AnsweredWith(S[i]) = 0

\* The parser p and the request g are what the parts S make of them, but for the
\* characters r of the last one
Fits(S, r, p, g) ==
  /\ S = <<>> => r = <<>> /\ (p = NewLine \/ p.state = "done")
  /\ S # <<>> =>
       /\ Ordered(S)
       /\ \/ RefusedFor(S, p)
          \/ \E c \in 0 .. Len(AsSent(S[Len(S)])) :
               /\ r = SubSeq(AsSent(S[Len(S)]), c + 1, Len(AsSent(S[Len(S)])))
               /\ Placed(S, c, p)
       /\ p.state = "done" => g = BuildConnectionRequest(p)

\* The parts that follow are later ones
LEMMA FollowsLater ==
  ASSUME NEW e, e.part \in Parts, NEW n, n \in Follows(e)
  PROVE  /\ n \in Parts /\ Rank[e.part] \in Nat /\ Rank[n] \in Nat
         /\ Rank[e.part] < Rank[n]
         /\ Rank[n] >= 4 => Rank[e.part] >= 4 \/ e.part = "host"
         /\ n \in SetOff <=> e.part \in OpenEnded
<1>1. Rank["method"] = 1 /\ Rank["scheme"] = 2 /\ Rank["host"] = 3 /\ Rank["port"] = 4 /\ Rank["path"] = 5
      /\ Rank["version"] = 6 /\ Rank["major"] = 7 /\ Rank["minor"] = 8 /\ Rank["end"] = 9
  BY DEF Rank
<1>2. /\ e.part = "method" => n \in {"host", "scheme"}
      /\ e.part = "scheme" => n = "host"
      /\ e.part = "host" => n \in SetOff
      /\ e.part = "port" => n \in {"path", "version"}
      /\ e.part = "path" => n = "version"
      /\ e.part = "version" => n = "major"
      /\ e.part = "major" => n = "minor"
      /\ e.part = "minor" => n = "end"
      /\ e.part # "end"
  <2>1. e.part = "method" => n = IF e.text = Connect THEN "host" ELSE "scheme"
    BY FollowsIs
  <2>2. e.part = "method" => n \in {"host", "scheme"}
    BY <2>1
  <2>. QED BY <2>2, FollowsIs
<1>3. CASE e.part = "method"
  BY <1>1, <1>2, <1>3 DEF Parts, SetOff, OpenEnded
<1>4. CASE e.part = "scheme"
  BY <1>1, <1>2, <1>4 DEF Parts, SetOff, OpenEnded
<1>5. CASE e.part = "host"
  BY <1>1, <1>2, <1>5 DEF Parts, SetOff, OpenEnded
<1>6. CASE e.part = "port"
  BY <1>1, <1>2, <1>6 DEF Parts, SetOff, OpenEnded
<1>7. CASE e.part = "path"
  BY <1>1, <1>2, <1>7 DEF Parts, SetOff, OpenEnded
<1>8. CASE e.part = "version"
  BY <1>1, <1>2, <1>8 DEF Parts, SetOff, OpenEnded
<1>9. CASE e.part = "major"
  BY <1>1, <1>2, <1>9 DEF Parts, SetOff, OpenEnded
<1>10. CASE e.part = "minor"
  BY <1>1, <1>2, <1>10 DEF Parts, SetOff, OpenEnded
<1>. QED BY <1>2, <1>3, <1>4, <1>5, <1>6, <1>7, <1>8, <1>9, <1>10 DEF Parts

\* The ranks
LEMMA RankOf ==
  ASSUME NEW part \in Parts
  PROVE  /\ Rank[part] \in Nat /\ Rank[part] \in 1 .. 9
         /\ part = "method" <=> Rank[part] = 1
         /\ part = "scheme" <=> Rank[part] = 2
         /\ part = "host" <=> Rank[part] = 3
         /\ part = "port" <=> Rank[part] = 4
         /\ part = "path" <=> Rank[part] = 5
         /\ part = "version" <=> Rank[part] = 6
         /\ part = "end" <=> Rank[part] = 9
BY DEF Rank, Parts

\* The parts of a line with one more
LEMMA PartAppended ==
  ASSUME NEW S \in Seq(Entry), NEW e \in Entry, NEW T, T = Append(S, e)
  PROVE  /\ Len(S) \in Nat /\ T \in Seq(Entry) /\ Len(T) = Len(S) + 1 /\ T # <<>>
         /\ \A n \in 1 .. Len(S) : T[n] = S[n] /\ S[n] \in Entry
         /\ T[Len(S) + 1] = e
BY AppendProperties

\* One more part keeps the order
LEMMA OrderedAlso ==
  ASSUME NEW S \in Seq(Entry), Len(S) >= 1 => Ordered(S), NEW e \in Entry, TextOK(e.part, e.text),
         IF Len(S) = 0 THEN e.part = "method" ELSE e.part \in Follows(S[Len(S)]),
         NEW T, T = Append(S, e)
  PROVE  Ordered(T)
<1> DEFINE K == Len(S)
<1>1. /\ K \in Nat /\ Len(T) = K + 1
      /\ \A n \in 1 .. K : T[n] = S[n] /\ S[n] \in Entry
      /\ T[K + 1] = e
  BY PartAppended
<1>2. (K >= 1 => Ordered(S)) /\ (K = 0 => e.part = "method") /\ (K >= 1 => e.part \in Follows(S[K]))
  BY <1>1
<1> HIDE DEF K
<1>3. \A n \in 1 .. Len(T) : n \in 1 .. K \/ n = K + 1
  BY <1>1
<1>4. \A n \in 1 .. Len(T) : TextOK(T[n].part, T[n].text)
  BY <1>1, <1>2, <1>3 DEF K, Ordered
<1>5. T[1].part = "method"
  <2>1. CASE K = 0
    BY <1>1, <1>2, <2>1
  <2>2. CASE K >= 1
    BY <1>1, <1>2, <2>2 DEF K, Ordered
  <2>. QED BY <1>1, <2>1, <2>2
<1>6. \A n \in 1 .. Len(T) - 1 : T[n + 1].part \in Follows(T[n])
  <2>. TAKE n \in 1 .. Len(T) - 1
  <2>1. n \in 1 .. K /\ K >= 1 /\ T[n] = S[n]
    BY <1>1
  <2>2. CASE n = K
    BY <1>1, <1>2, <2>1, <2>2
  <2>3. CASE n # K
    <3>1. n \in 1 .. K - 1 /\ n + 1 \in 1 .. K
      BY <1>1, <2>1, <2>3
    <3>2. S[n + 1].part \in Follows(S[n])
      BY <1>2, <2>1, <3>1 DEF K, Ordered
    <3>. QED BY <1>1, <2>1, <3>1, <3>2
  <2>. QED BY <2>2, <2>3
<1>7. K >= 1 =>
        /\ S[K].part \in Parts /\ Rank[S[K].part] \in Nat /\ Rank[e.part] \in Nat
        /\ Rank[S[K].part] < Rank[e.part]
        /\ Rank[e.part] >= 4 => Rank[S[K].part] >= 4 \/ S[K].part = "host"
  <2>. SUFFICES ASSUME K >= 1
                PROVE  /\ S[K].part \in Parts /\ Rank[S[K].part] \in Nat /\ Rank[e.part] \in Nat
                       /\ Rank[S[K].part] < Rank[e.part]
                       /\ Rank[e.part] >= 4 => Rank[S[K].part] >= 4 \/ S[K].part = "host"
    OBVIOUS
  <2>1. S[K] \in Entry
    BY <1>1
  <2>2. S[K].part \in Parts
    BY <2>1 DEF Entry
  <2>. QED BY <1>2, <2>2, FollowsLater
<1>8. \A m, n \in 1 .. Len(T) : m < n => Rank[T[m].part] < Rank[T[n].part]
  <2>. TAKE m, n \in 1 .. Len(T)
  <2>. HAVE m < n
  <2>1. m \in 1 .. K /\ T[m] = S[m]
    BY <1>1
  <2>2. CASE n \in 1 .. K
    <3>1. Rank[S[m].part] < Rank[S[n].part]
      BY <1>1, <1>2, <2>1, <2>2 DEF K, Ordered
    <3>. QED BY <1>1, <2>1, <2>2, <3>1
  <2>3. CASE n = K + 1
    <3>1. T[n].part = e.part /\ K >= 1
      BY <1>1, <2>1, <2>3
    <3>2. m = K \/ Rank[S[m].part] < Rank[S[K].part]
      BY <1>1, <1>2, <2>1, <3>1 DEF K, Ordered
    <3>3. S[m].part \in Parts
      BY <1>1, <2>1 DEF Entry
    <3>4. Rank[S[m].part] \in Nat
      BY <3>3, RankOf
    <3>. QED BY <1>7, <2>1, <3>1, <3>2, <3>4
  <2>. QED BY <1>3, <2>2, <2>3
<1>9. \A n \in 1 .. Len(T) : Rank[T[n].part] >= 4 => \E m \in 1 .. n : T[m].part = "host"
  <2>. TAKE n \in 1 .. Len(T)
  <2>. HAVE Rank[T[n].part] >= 4
  <2>1. ASSUME NEW k \in 1 .. K, Rank[S[k].part] >= 4
        PROVE  \E m \in 1 .. k : T[m].part = "host"
    <3>1. K >= 1
      BY <1>1, <2>1
    <3>2. PICK m \in 1 .. k : S[m].part = "host"
      BY <1>2, <2>1, <3>1 DEF K, Ordered
    <3>3. m \in 1 .. K
      BY <1>1, <2>1, <3>2
    <3>. QED BY <1>1, <3>2, <3>3
  <2>2. CASE n \in 1 .. K
    BY <1>1, <2>1, <2>2
  <2>3. CASE n = K + 1
    <3>1. Rank[e.part] >= 4
      BY <1>1, <2>3
    <3>2. K # 0
      <4>1. Rank["method"] = 1
        BY DEF Rank
      <4>. QED BY <1>2, <3>1, <4>1
    <3>3. K \in 1 .. K /\ K >= 1
      BY <1>1, <3>2
    <3>4. CASE Rank[S[K].part] >= 4
      <4>1. PICK m \in 1 .. K : T[m].part = "host"
        BY <2>1, <3>3, <3>4
      <4>2. m \in 1 .. n
        BY <1>1, <2>3, <4>1
      <4>. QED BY <4>1, <4>2
    <3>5. CASE S[K].part = "host"
      <4>1. K \in 1 .. n
        BY <1>1, <2>3, <3>3
      <4>. QED BY <1>1, <3>3, <3>5, <4>1
    <3>. QED BY <1>7, <3>1, <3>3, <3>4, <3>5
  <2>. QED BY <1>3, <2>2, <2>3
<1>10. Len(T) >= 1 => T[1].part = "method"
  BY <1>5
<1>. QED BY <1>4, <1>6, <1>8, <1>9, <1>10, Zenon DEF Ordered

\* Where the parser has arrived has nothing to do with what comes
LEMMA ArrivedStill ==
  ASSUME NEW S \in Seq(Entry), NEW e \in Entry, NEW T, T = Append(S, e), NEW n \in 1 .. Len(S),
         NEW c, NEW p, Arrived(S, n, c, p)
  PROVE  Arrived(T, n, c, p)
<1>1. Len(S) \in Nat /\ \A i \in 1 .. Len(S) : T[i] = S[i]
  BY PartAppended
<1>2. T[n] = S[n]
  BY <1>1
<1>3. (\A i \in 1 .. n : T[i] = S[i]) /\ (\A i \in 1 .. n - 1 : T[i] = S[i])
  BY <1>1
<1>4. Progress(T[n].part, T[n].text, c, p)
  BY <1>2 DEF Arrived
<1>5. \A i \in 1 .. n - 1 : AnsweredWith(T[i]) = 0 /\ Leaves(T[i].part, T[i].text, p)
  BY <1>3 DEF Arrived
<1>6. (\E i \in 1 .. n - 1 : T[i].part = "host") /\ (\A i \in 1 .. n : T[i].part # "port") =>
        p.port = Swapped(80)
  BY <1>3 DEF Arrived
<1>7. (\E i \in 1 .. n : T[i].part = "version") /\ (\A i \in 1 .. n : T[i].part # "path") =>
        p.origin_form = IF p.method = Options THEN <<>> ELSE <<"/">>
  BY <1>3 DEF Arrived
<1>. QED BY <1>4, <1>5, <1>6, <1>7, Zenon DEF Arrived
\* What is left by a part is not disturbed by a later one
LEMMA LeavesStay ==
  ASSUME NEW part \in Parts, NEW t, NEW k \in Nat, Rank[part] < k, NEW p, NEW q, Keeps(k, p, q),
         Leaves(part, t, p)
  PROVE  Leaves(part, t, q)
<1>1. Rank["method"] = 1 /\ Rank["host"] = 3 /\ Rank["port"] = 4 /\ Rank["path"] = 5
  BY DEF Rank
<1>2. part = "method" => q.method = t
  <2>. SUFFICES ASSUME part = "method" PROVE q.method = t
    OBVIOUS
  <2>1. k >= 2
    BY <1>1
  <2>. QED BY <2>1 DEF Leaves, Keeps
<1>3. part = "host" => HostLeft(t, q)
  <2>. SUFFICES ASSUME part = "host" PROVE HostLeft(t, q)
    OBVIOUS
  <2>1. k >= 4
    BY <1>1
  <2>2. q.host = p.host /\ q.host_type = p.host_type
    BY <2>1 DEF Keeps
  <2>3. HostLeft(t, p)
    BY DEF Leaves
  <2>. QED BY <2>2, <2>3, Zenon DEF HostLeft
<1>4. part = "port" => PortLeft(t, q)
  <2>. SUFFICES ASSUME part = "port" PROVE PortLeft(t, q)
    OBVIOUS
  <2>1. k >= 5
    BY <1>1
  <2>2. q.port = p.port
    BY <2>1 DEF Keeps
  <2>3. PortLeft(t, p)
    BY DEF Leaves
  <2>. QED BY <2>2, <2>3, Zenon DEF PortLeft
<1>5. part = "path" => q.origin_form = t
  <2>. SUFFICES ASSUME part = "path" PROVE q.origin_form = t
    OBVIOUS
  <2>1. k >= 6
    BY <1>1
  <2>. QED BY <2>1 DEF Leaves, Keeps
<1>. QED BY <1>2, <1>3, <1>4, <1>5, Zenon DEF Leaves

\* The parts of an ordered line
LEMMA InOrder ==
  ASSUME NEW S \in Seq(Entry), Ordered(S)
  PROVE  /\ \A n \in 1 .. Len(S) :
              /\ S[n] \in Entry /\ S[n].part \in Parts /\ S[n].text \in Seq(Char)
              /\ TextOK(S[n].part, S[n].text) /\ Rank[S[n].part] \in Nat
         /\ \A m, n \in 1 .. Len(S) : m < n => Rank[S[m].part] < Rank[S[n].part]
<1>1. \A n \in 1 .. Len(S) : S[n] \in Entry
  OBVIOUS
<1>2. \A n \in 1 .. Len(S) : S[n].part \in Parts /\ S[n].text \in Seq(Char)
  BY <1>1 DEF Entry
<1>. QED BY <1>1, <1>2, RankOf DEF Ordered

\* The parser arrives one character further in the same part
LEMMA ArrivedMore ==
  ASSUME NEW S \in Seq(Entry), Ordered(S), NEW n \in 1 .. Len(S), NEW c, NEW p, Arrived(S, n, c, p),
         NEW d, NEW q, Keeps(Rank[S[n].part], p, q), Progress(S[n].part, S[n].text, d, q)
  PROVE  Arrived(S, n, d, q)
<1> DEFINE k == Rank[S[n].part]
<1>1. k \in Nat /\ Keeps(k, p, q) /\ Len(S) \in Nat /\ S[n].part \in Parts
  BY InOrder
<1>2. \A i \in 1 .. n - 1 : S[i].part \in Parts /\ Rank[S[i].part] < k
  <2>. TAKE i \in 1 .. n - 1
  <2>1. i \in 1 .. Len(S) /\ i < n
    BY <1>1
  <2>. QED BY <2>1, InOrder
<1>3. k # 4 => S[n].part # "port"
  BY <1>1, RankOf
<1>4. k = 4 => S[n].part = "port"
  BY <1>1, RankOf
<1> HIDE DEF k
<1>5. \A i \in 1 .. n - 1 : AnsweredWith(S[i]) = 0 /\ Leaves(S[i].part, S[i].text, q)
  <2>. TAKE i \in 1 .. n - 1
  <2>1. AnsweredWith(S[i]) = 0 /\ Leaves(S[i].part, S[i].text, p)
    BY DEF Arrived
  <2>. QED BY <1>1, <1>2, <2>1, LeavesStay
<1>6. ASSUME NEW i \in 1 .. n - 1, S[i].part = "host", \A j \in 1 .. n : S[j].part # "port"
      PROVE  q.port = Swapped(80)
  <2>1. 3 < k
    BY <1>2, <1>6, RankOf
  <2>2. n \in 1 .. n
    OBVIOUS
  <2>3. k # 4
    BY <1>4, <1>6, <2>2
  <2>4. k >= 5
    BY <1>1, <2>1, <2>3
  <2>5. q.port = p.port
    BY <1>1, <2>4 DEF Keeps
  <2>. QED BY <1>6, <2>5 DEF Arrived
<1>7. ASSUME NEW i \in 1 .. n, S[i].part = "version", \A j \in 1 .. n : S[j].part # "path"
      PROVE  q.origin_form = IF q.method = Options THEN <<>> ELSE <<"/">>
  <2>1. Rank["version"] = 6
    BY DEF Rank
  <2>2. k >= 6
    <3>1. CASE i = n
      BY <1>7, <2>1, <3>1 DEF k
    <3>2. CASE i # n
      <4>1. i \in 1 .. n - 1
        BY <1>7, <3>2
      <4>. QED BY <1>1, <1>2, <1>7, <2>1, <4>1
    <3>. QED BY <3>1, <3>2
  <2>3. q.origin_form = p.origin_form /\ q.method = p.method
    BY <1>1, <2>2 DEF Keeps
  <2>4. p.origin_form = IF p.method = Options THEN <<>> ELSE <<"/">>
    BY <1>7 DEF Arrived
  <2>. QED BY <2>3, <2>4
<1>. QED BY <1>5, <1>6, <1>7, Zenon DEF Arrived

\* The parser arrives at the part that has ended the one before it
LEMMA ArrivedNext ==
  ASSUME NEW S \in Seq(Entry), Ordered(S), NEW n \in 1 .. Len(S), n + 1 \in 1 .. Len(S), NEW c, NEW p,
         Arrived(S, n, c, p), S[n].part \in OpenEnded,
         NEW q, Keeps(Rank[S[n].part], p, q), AnsweredWith(S[n]) = 0, Leaves(S[n].part, S[n].text, q),
         Progress(S[n + 1].part, S[n + 1].text, 1, q),
         S[n].part = "host" => q.port = Swapped(80),
         S[n + 1].part = "version" /\ S[n].part # "path" =>
           q.origin_form = IF q.method = Options THEN <<>> ELSE <<"/">>
  PROVE  Arrived(S, n + 1, 1, q)
<1> DEFINE k == Rank[S[n].part]
<1>1. k \in Nat /\ Keeps(k, p, q) /\ Len(S) \in Nat /\ S[n].part \in Parts
  BY InOrder
<1>2. \A i \in 1 .. n - 1 : S[i].part \in Parts /\ Rank[S[i].part] < k
  <2>. TAKE i \in 1 .. n - 1
  <2>1. i \in 1 .. Len(S) /\ i < n
    BY <1>1
  <2>. QED BY <2>1, InOrder
<1>3. k = 4 => S[n].part = "port"
  BY <1>1, RankOf
<1>4. k <= 5
  BY <1>1, RankOf DEF OpenEnded
<1> HIDE DEF k
<1>5. \A i \in 1 .. n : i = n \/ i \in 1 .. n - 1
  OBVIOUS
<1>6. \A i \in 1 .. (n + 1) - 1 : i \in 1 .. n
  OBVIOUS
<1>7. \A i \in 1 .. n : AnsweredWith(S[i]) = 0 /\ Leaves(S[i].part, S[i].text, q)
  <2>. TAKE i \in 1 .. n
  <2>1. CASE i \in 1 .. n - 1
    <3>1. AnsweredWith(S[i]) = 0 /\ Leaves(S[i].part, S[i].text, p)
      BY <2>1 DEF Arrived
    <3>. QED BY <1>1, <1>2, <2>1, <3>1, LeavesStay
  <2>2. CASE i = n
    BY <2>2
  <2>. QED BY <1>5, <2>1, <2>2
<1>8. ASSUME NEW i \in 1 .. n, S[i].part = "host", \A j \in 1 .. n + 1 : S[j].part # "port"
      PROVE  q.port = Swapped(80)
  <2>1. CASE S[n].part = "host"
    BY <2>1
  <2>2. CASE S[n].part # "host"
    <3>1. i \in 1 .. n - 1
      BY <1>5, <1>8, <2>2
    <3>2. 3 < k
      BY <1>2, <1>8, <3>1, RankOf
    <3>3. \A j \in 1 .. n : S[j].part # "port"
      BY <1>8
    <3>4. n \in 1 .. n
      OBVIOUS
    <3>5. k # 4
      BY <1>3, <3>3, <3>4
    <3>6. k >= 5
      BY <1>1, <3>2, <3>5
    <3>7. q.port = p.port
      BY <1>1, <3>6 DEF Keeps
    <3>. QED BY <1>8, <3>1, <3>3, <3>7 DEF Arrived
  <2>. QED BY <2>1, <2>2
<1>9. ASSUME NEW i \in 1 .. n + 1, S[i].part = "version", \A j \in 1 .. n + 1 : S[j].part # "path"
      PROVE  q.origin_form = IF q.method = Options THEN <<>> ELSE <<"/">>
  <2>1. Rank["version"] = 6
    BY DEF Rank
  <2>2. ASSUME i \in 1 .. n
        PROVE  FALSE
    <3>1. CASE i = n
      BY <1>4, <1>9, <2>1, <3>1 DEF k
    <3>2. CASE i \in 1 .. n - 1
      BY <1>1, <1>2, <1>4, <1>9, <2>1, <3>2
    <3>. QED BY <1>5, <2>2, <3>1, <3>2
  <2>3. i = n + 1
    BY <2>2
  <2>4. n \in 1 .. n + 1
    OBVIOUS
  <2>. QED BY <1>9, <2>3, <2>4
<1>. QED BY <1>6, <1>7, <1>8, <1>9, Zenon DEF Arrived

\* The parser arrives at the part that comes after one that has ended by itself
LEMMA ArrivedFirst ==
  ASSUME NEW S \in Seq(Entry), NEW n \in 1 .. Len(S), n + 1 \in 1 .. Len(S), NEW c, NEW p,
         Arrived(S, n, c, p), S[n].part \notin OpenEnded, S[n + 1].part \notin SetOff,
         AnsweredWith(S[n]) = 0, Leaves(S[n].part, S[n].text, p),
         Progress(S[n + 1].part, S[n + 1].text, 0, p)
  PROVE  Arrived(S, n + 1, 0, p)
<1>1. \A i \in 1 .. n : i = n \/ i \in 1 .. n - 1
  OBVIOUS
<1>2. \A i \in 1 .. n + 1 : i = n + 1 \/ i \in 1 .. n
  OBVIOUS
<1>3. \A i \in 1 .. (n + 1) - 1 : i \in 1 .. n
  OBVIOUS
<1>4. \A i \in 1 .. n : i \in 1 .. n + 1
  OBVIOUS
<1>5. \A i \in 1 .. n : AnsweredWith(S[i]) = 0 /\ Leaves(S[i].part, S[i].text, p)
  BY <1>1 DEF Arrived
<1>6. ASSUME NEW i \in 1 .. n, S[i].part = "host", \A j \in 1 .. n + 1 : S[j].part # "port"
      PROVE  p.port = Swapped(80)
  <2>1. i \in 1 .. n - 1
    BY <1>1, <1>6 DEF OpenEnded
  <2>. QED BY <1>4, <1>6, <2>1 DEF Arrived
<1>7. ASSUME NEW i \in 1 .. n + 1, S[i].part = "version", \A j \in 1 .. n + 1 : S[j].part # "path"
      PROVE  p.origin_form = IF p.method = Options THEN <<>> ELSE <<"/">>
  <2>1. i \in 1 .. n
    BY <1>2, <1>7 DEF SetOff
  <2>. QED BY <1>4, <1>7, <2>1 DEF Arrived
<1>. QED BY <1>3, <1>5, <1>6, <1>7, Zenon DEF Arrived
\* What is still to come of a part
LEMMA RestIs ==
  ASSUME NEW w \in Seq(Char), NEW c \in 0 .. Len(w), NEW r, r = SubSeq(w, c + 1, Len(w))
  PROVE  /\ r = <<>> <=> c = Len(w)
         /\ c = 0 => r = w
         /\ c < Len(w) => Head(r) = w[c + 1] /\ Tail(r) = SubSeq(w, (c + 1) + 1, Len(w))
<1>1. Len(w) \in Nat
  OBVIOUS
<1>2. r \in Seq(Char) /\ Len(r) = Len(w) - c /\ \A i \in 1 .. Len(w) - c : r[i] = w[c + i]
  BY <1>1
<1>3. r = <<>> <=> c = Len(w)
  <2>1. r = <<>> <=> Len(r) = 0
    BY <1>2, EmptySeq
  <2>2. Len(w) - c = 0 <=> c = Len(w)
    BY <1>1
  <2>. QED BY <1>2, <2>1, <2>2, Zenon
<1>4. c = 0 => r = w
  BY <1>1, <1>2
<1>5. ASSUME c < Len(w)
      PROVE  Head(r) = w[c + 1] /\ Tail(r) = SubSeq(w, (c + 1) + 1, Len(w))
  <2>1. Len(r) >= 1 /\ r[1] = w[c + 1]
    BY <1>1, <1>2, <1>5
  <2>2. Head(r) = r[1]
    BY <1>2, <2>1
  <2> DEFINE v == SubSeq(w, (c + 1) + 1, Len(w))
  <2>3. v \in Seq(Char) /\ Len(v) = Len(w) - (c + 1)
        /\ \A i \in 1 .. Len(w) - (c + 1) : v[i] = w[(c + 1) + i]
    BY <1>1, <1>5
  <2>4. Tail(r) \in Seq(Char) /\ Len(Tail(r)) = Len(r) - 1 /\ \A i \in 1 .. Len(r) - 1 : Tail(r)[i] = r[i + 1]
    <3>1. r # <<>>
      BY <1>3, <1>5
    <3>. QED BY <1>2, <3>1, HeadTailProperties
  <2> HIDE DEF v
  <2>5. Len(Tail(r)) = Len(v)
    BY <1>1, <1>2, <2>3, <2>4
  <2>6. \A i \in 1 .. Len(v) : Tail(r)[i] = v[i]
    <3>. TAKE i \in 1 .. Len(v)
    <3>1. i \in 1 .. Len(r) - 1 /\ i + 1 \in 1 .. Len(w) - c /\ i \in 1 .. Len(w) - (c + 1)
      BY <1>1, <1>2, <2>3
    <3>2. Tail(r)[i] = w[c + (i + 1)] /\ v[i] = w[(c + 1) + i]
      BY <1>2, <2>3, <2>4, <3>1
    <3>3. c + (i + 1) = (c + 1) + i
      BY <1>1
    <3>. QED BY <3>2, <3>3
  <2>7. Tail(r) = v
    BY <2>3, <2>4, <2>5, <2>6, SeqEqual
  <2>. QED BY <2>1, <2>2, <2>7 DEF v
<1>. QED BY <1>3, <1>4, <1>5

\* What is sent of a part
LEMMA AsSentIs ==
  ASSUME NEW e \in Entry, TextOK(e.part, e.text)
  PROVE  AsSent(e) \in Seq(Char) /\ Len(AsSent(e)) \in Nat /\ (e.part \in SetOff => Len(AsSent(e)) >= 1)
<1>1. e.part \in Parts /\ e.text \in Seq(Char)
  BY DEF Entry
<1>2. AsSent(e) \in Seq(Char)
  BY <1>1, WrittenIs DEF AsSent
<1>3. e.part \in {"port", "version"} => Len(AsSent(e)) = Len(e.text) + 1
  BY <1>1, WrittenAt DEF AsSent
<1>4. e.part = "path" => Len(AsSent(e)) >= 1
  <2>1. e.part = "path" => AsSent(e) = e.text
    BY <1>1, WrittenAt DEF AsSent
  <2>. QED BY <2>1 DEF TextOK
<1>5. Len(e.text) \in Nat /\ Len(AsSent(e)) \in Nat
  BY <1>1, <1>2
<1>6. e.part \in SetOff => Len(AsSent(e)) >= 1
  BY <1>3, <1>4, <1>5 DEF SetOff
<1>. QED BY <1>2, <1>5, <1>6

\* The line before the first part
LEMMA LineBegins ==
  ASSUME NEW T \in Seq(Entry), Len(T) = 1, T[1].part = "method"
  PROVE  Arrived(T, 1, 0, NewLine)
<1>1. T[1] \in Entry
  OBVIOUS
<1>2. T[1].text \in Seq(Char)
  BY <1>1 DEF Entry
<1>3. Len(T[1].text) \in Nat /\ SubSeq(T[1].text, 1, 0) = <<>>
  BY <1>2
<1>4. 0 <= Len(T[1].text) /\ 0 <= MaxMethodLength
  BY <1>3, LineAssumption
<1>5. /\ NewLine.state = "method" /\ NewLine.i = 0 /\ NewLine.method = <<>> /\ NewLine.host = <<>>
      /\ NewLine.host_type = "domain" /\ NewLine.origin_form = <<>>
  BY DEF NewLine
<1>6. AtMethod(T[1].text, 0, NewLine)
  BY <1>3, <1>4, <1>5 DEF AtMethod, Fresh
<1>7. Progress(T[1].part, T[1].text, 0, NewLine)
  BY <1>6 DEF Progress
<1>8. (\A i \in 1 .. 1 - 1 : FALSE) /\ (\A i \in 1 .. 1 : i = 1)
  OBVIOUS
<1>9. ~ \E i \in 1 .. 1 : T[i].part = "version"
  BY <1>8
<1>. QED BY <1>7, <1>8, <1>9, Zenon DEF Arrived

\* ClientSays: the client begins a part
LEMMA SayFits ==
  ASSUME NEW S \in Seq(Entry), NEW r, NEW p, NEW g, Fits(S, r, p, g), r = <<>>, p.state # "done",
         ErrorOf(p.state) = 0, NEW e \in Entry, TextOK(e.part, e.text),
         IF Len(S) = 0 THEN e.part = "method" ELSE e.part \in Follows(S[Len(S)]),
         NEW T, T = Append(S, e)
  PROVE  Fits(T, AsSent(e), p, g)
<1> DEFINE K == Len(S)
           w == AsSent(e)
<1>1. /\ K \in Nat /\ T \in Seq(Entry) /\ Len(T) = K + 1 /\ T # <<>>
      /\ \A n \in 1 .. K : T[n] = S[n] /\ S[n] \in Entry
      /\ T[K + 1] = e
  BY PartAppended
<1>2. w \in Seq(Char) /\ Len(w) \in Nat
  BY AsSentIs
<1>3. w = SubSeq(w, 0 + 1, Len(w)) /\ 0 \in 0 .. Len(w)
  BY <1>2
<1>4. K >= 1 => S # <<>>
  OBVIOUS
<1>5. K = 0 => S = <<>>
  OBVIOUS
<1>6. K >= 1 => Ordered(S)
  BY <1>4 DEF Fits
<1>7. Ordered(T)
  BY <1>6, OrderedAlso
<1>8. SUFFICES Placed(T, 0, p)
  <2>1. T[Len(T)] = e
    BY <1>1
  <2> HIDE DEF w
  <2>. QED BY <1>1, <1>3, <1>7, <1>8, <2>1, Zenon DEF Fits, w
<1>9. CASE K = 0
  <2>1. p = NewLine /\ T[1].part = "method" /\ Len(T) = 1
    BY <1>1, <1>5, <1>9 DEF Fits
  <2>2. Arrived(T, 1, 0, p)
    BY <1>1, <2>1, LineBegins
  <2>3. T[Len(T)].part \notin SetOff
    BY <2>1 DEF SetOff
  <2>. QED BY <2>1, <2>2, <2>3, Zenon DEF Placed
<1>10. CASE K >= 1
  <2> DEFINE b == S[K]
             v == AsSent(b)
  <2>1. b \in Entry /\ K \in 1 .. K /\ e.part \in Follows(b)
    BY <1>1, <1>10
  <2>2. b.part \in Parts /\ TextOK(b.part, b.text)
    BY <1>6, <1>10, <2>1, InOrder
  <2>3. ~RefusedFor(S, p)
    BY DEF RefusedFor, Refused
  <2>4. PICK c \in 0 .. Len(v) : r = SubSeq(v, c + 1, Len(v)) /\ Placed(S, c, p)
    BY <1>4, <1>10, <2>3 DEF Fits
  <2>5. v \in Seq(Char) /\ Len(v) \in Nat /\ (b.part \in SetOff => Len(v) >= 1)
    BY <2>1, <2>2, AsSentIs
  <2> HIDE DEF v
  <2>6. c = Len(v)
    BY <2>4, <2>5, RestIs
  <2>7. ~(c = 0 /\ b.part \in SetOff)
    BY <2>5, <2>6
  <2>8. Arrived(S, K, Len(v), p)
    BY <2>4, <2>6, <2>7 DEF Placed
  <2>9. Arrived(T, K, Len(v), p)
    BY <2>1, <2>8, ArrivedStill
  <2>10. T[K] = b /\ T[K + 1] = e /\ Len(T) = K + 1 /\ (K + 1) - 1 = K
    BY <1>1, <2>1
  <2>11. CASE e.part \in SetOff
    <3>1. AsSent(T[Len(T) - 1]) = v
      BY <2>10 DEF v
    <3>. HIDE DEF b, K
    <3>2. T[Len(T)].part \in SetOff
      BY <2>10, <2>11
    <3>. QED BY <2>9, <2>10, <3>1, <3>2 DEF Placed
  <2>12. CASE e.part \notin SetOff
    <3>1. Progress(b.part, b.text, Len(Written(b.part, b.text)), p)
      BY <2>8 DEF Arrived, v, AsSent
    <3>2. e.text \in Seq(Char)
      BY DEF Entry
    <3>3. Progress(e.part, e.text, 0, p) /\ b.part \notin OpenEnded
      BY <2>1, <2>2, <2>12, <3>1, <3>2, PartBegins
    <3>4. AnsweredWith(b) = 0 /\ Leaves(b.part, b.text, p)
      BY <2>1, <2>2, <3>1, <3>3, PartEnded
    <3>5. K \in 1 .. Len(T) /\ K + 1 \in 1 .. Len(T)
      BY <1>1, <1>10
    <3>. HIDE DEF b, K
    <3>6. Arrived(T, K + 1, 0, p)
      BY <1>1, <2>9, <2>10, <2>12, <3>3, <3>4, <3>5, ArrivedFirst
    <3>. QED BY <2>10, <2>12, <3>6 DEF Placed
  <2>. QED BY <2>11, <2>12
<1>. QED BY <1>1, <1>9, <1>10
\* A refusal is for the first part with a fault
LEMMA RefusedThen ==
  ASSUME NEW S, NEW n \in 1 .. Len(S), NEW c, NEW p, Arrived(S, n, c, p), NEW q, Refused(q, AnsweredWith(S[n]))
  PROVE  RefusedFor(S, q)
BY DEF RefusedFor, Arrived

\* The part before the last
LEMMA OneBefore ==
  ASSUME NEW k \in Nat, k >= 1, k # 1
  PROVE  /\ k - 1 \in 1 .. k /\ (k - 1) + 1 = k /\ (k - 1) + 1 \in 1 .. k /\ k - 1 \in 1 .. k - 1
OBVIOUS

\* FeedLine: the parser takes the next character
LEMMA FeedFits ==
  ASSUME NEW S \in Seq(Entry), NEW r \in Seq(Char), NEW p \in Lines, NEW g, Fits(S, r, p, g), r # <<>>,
         p.state # "done", ErrorOf(p.state) = 0, NEW q, q = LineFeed(p, Head(r)),
         NEW h, h = IF q.state = "done" THEN BuildConnectionRequest(q) ELSE g
  PROVE  Fits(S, Tail(r), q, h)
<1> DEFINE K == Len(S)
           e == S[K]
           w == AsSent(e)
<1>1. S # <<>>
  BY DEF Fits
<1>2. K \in Nat /\ K >= 1 /\ K \in 1 .. K
  BY <1>1
<1>3. Ordered(S)
  BY <1>1 DEF Fits
<1>4. ~RefusedFor(S, p)
  BY DEF RefusedFor, Refused
<1>5. PICK c \in 0 .. Len(w) : r = SubSeq(w, c + 1, Len(w)) /\ Placed(S, c, p)
  BY <1>1, <1>4 DEF Fits
<1>6. e \in Entry /\ e.part \in Parts /\ TextOK(e.part, e.text)
  BY <1>2, <1>3, InOrder
<1>7. w \in Seq(Char) /\ Len(w) \in Nat
  BY <1>6, AsSentIs
<1>8. q.state = "done" => h = BuildConnectionRequest(q)
  OBVIOUS
<1> HIDE DEF w
<1>9. /\ r = <<>> <=> c = Len(w)
      /\ c < Len(w) => Head(r) = w[c + 1] /\ Tail(r) = SubSeq(w, (c + 1) + 1, Len(w))
  BY <1>5, <1>7, RestIs
<1>10. c \in Nat /\ c < Len(w) /\ c + 1 \in 0 .. Len(w)
  BY <1>5, <1>7, <1>9
<1>11. Head(r) = w[c + 1] /\ Tail(r) = SubSeq(w, (c + 1) + 1, Len(w))
  BY <1>9, <1>10
<1>12. ~(c + 1 = 0)
  BY <1>10
<1>13. SUFFICES RefusedFor(S, q) \/ Arrived(S, K, c + 1, q)
  <2>1. Arrived(S, K, c + 1, q) => Placed(S, c + 1, q)
    BY <1>12 DEF Placed
  <2>. QED BY <1>1, <1>3, <1>8, <1>10, <1>11, <1>13, <2>1, Zenon DEF Fits, w
<1>14. CASE c = 0 /\ e.part \in SetOff
  <2> DEFINE n == K - 1
             b == S[n]
             v == AsSent(b)
  <2>1. K # 1
    <3>1. S[1].part = "method"
      BY <1>2, <1>3 DEF Ordered
    <3>. QED BY <1>14, <3>1 DEF SetOff
  <2>2. n \in 1 .. K /\ n + 1 = K /\ n + 1 \in 1 .. K /\ n \in 1 .. K - 1
    BY <1>2, <2>1, OneBefore
  <2>3. b \in Entry /\ b.part \in Parts /\ TextOK(b.part, b.text)
    BY <1>3, <2>2, InOrder
  <2>4. e.part \in Follows(b)
    <3>1. S[n + 1].part \in Follows(S[n])
      BY <1>3, <2>2 DEF Ordered
    <3>. QED BY <2>2, <3>1
  <2>5. b.part \in OpenEnded
    BY <1>14, <2>3, <2>4, FollowsLater
  <2>6. Arrived(S, n, Len(v), p)
    BY <1>5, <1>14 DEF Placed
  <2>7. Progress(b.part, b.text, Len(Written(b.part, b.text)), p)
    BY <2>6 DEF Arrived, AsSent
  <2>8. c + 1 = 1
    BY <1>14
  <2>9. q = LineFeed(p, Written(e.part, e.text)[1])
    BY <1>11, <2>8 DEF w, AsSent
  <2> DEFINE Good == /\ AnsweredWith(b) = 0 /\ Leaves(b.part, b.text, q) /\ Progress(e.part, e.text, 1, q)
                     /\ b.part = "host" => q.port = Swapped(80)
                     /\ e.part = "version" /\ b.part # "path" =>
                          q.origin_form = IF q.method = Options THEN <<>> ELSE <<"/">>
  <2>10. (Good \/ Refused(q, AnsweredWith(b))) /\ Keeps(Rank[b.part], p, q)
    BY <1>6, <2>3, <2>4, <2>5, <2>7, <2>9, PartEnds
  <2>11. CASE Refused(q, AnsweredWith(b))
    <3>1. RefusedFor(S, q)
      BY <2>2, <2>6, <2>11, RefusedThen
    <3>. QED BY <3>1
  <2>12. CASE Good
    <3>1. S[n + 1] = e
      BY <2>2
    <3>2. /\ AnsweredWith(S[n]) = 0 /\ Leaves(S[n].part, S[n].text, q)
          /\ Progress(S[n + 1].part, S[n + 1].text, 1, q)
          /\ S[n].part = "host" => q.port = Swapped(80)
          /\ S[n + 1].part = "version" /\ S[n].part # "path" =>
               q.origin_form = IF q.method = Options THEN <<>> ELSE <<"/">>
      BY <2>12, <3>1
    <3>3. S[n].part \in OpenEnded /\ Keeps(Rank[S[n].part], p, q)
      BY <2>5, <2>10
    <3> HIDE DEF n, Good
    <3>4. n \in 1 .. Len(S) /\ n + 1 \in 1 .. Len(S)
      BY <2>2
    <3>5. Arrived(S, n + 1, 1, q)
      BY <1>3, <2>6, <3>2, <3>3, <3>4, ArrivedNext
    <3>. QED BY <2>2, <2>8, <3>5
  <2>. QED BY <2>10, <2>11, <2>12
<1>15. CASE ~(c = 0 /\ e.part \in SetOff)
  <2>1. Arrived(S, K, c, p)
    BY <1>5, <1>15 DEF Placed
  <2>2. Progress(e.part, e.text, c, p)
    BY <2>1 DEF Arrived
  <2>3. c < Len(Written(e.part, e.text)) /\ q = LineFeed(p, Written(e.part, e.text)[c + 1])
    BY <1>10, <1>11 DEF w, AsSent
  <2>4. (Progress(e.part, e.text, c + 1, q) \/ Refused(q, AnsweredWith(e))) /\ Keeps(Rank[e.part], p, q)
    BY <1>6, <1>10, <1>15, <2>2, <2>3, PartMore
  <2>5. CASE Refused(q, AnsweredWith(e))
    <3>1. RefusedFor(S, q)
      BY <1>2, <2>1, <2>5, RefusedThen
    <3>. QED BY <3>1
  <2>6. CASE Progress(e.part, e.text, c + 1, q)
    <3>1. Arrived(S, K, c + 1, q)
      BY <1>2, <1>3, <2>1, <2>4, <2>6, ArrivedMore
    <3>. QED BY <3>1
  <2>. QED BY <2>4, <2>5, <2>6
<1>. QED BY <1>14, <1>15

\* Where a line stands that was not refused
LEMMA Standing ==
  ASSUME NEW S \in Seq(Entry), NEW r \in Seq(Char), NEW p, NEW g, Fits(S, r, p, g), Len(S) >= 1, ErrorOf(p.state) = 0
  PROVE  /\ Ordered(S) /\ Len(S) \in Nat /\ Len(S) \in 1 .. Len(S) /\ Len(S) >= 1
         /\ S[Len(S)] \in Entry /\ S[Len(S)].part \in Parts /\ TextOK(S[Len(S)].part, S[Len(S)].text)
         /\ \E c \in 0 .. Len(AsSent(S[Len(S)])) :
              /\ c \in Nat
              /\ r = <<>> <=> c = Len(AsSent(S[Len(S)]))
              /\ c = 0 => r = AsSent(S[Len(S)])
              /\ Placed(S, c, p)
<1> DEFINE w == AsSent(S[Len(S)])
<1>0. S # <<>>
  OBVIOUS
<1>1. Ordered(S)
  BY <1>0 DEF Fits
<1>2. Len(S) \in Nat /\ Len(S) >= 1
  OBVIOUS
<1>3. Len(S) \in 1 .. Len(S)
  BY <1>2
<1>4. S[Len(S)] \in Entry /\ S[Len(S)].part \in Parts /\ TextOK(S[Len(S)].part, S[Len(S)].text)
  BY <1>1, <1>3, InOrder
<1>5. ~RefusedFor(S, p)
  BY DEF RefusedFor, Refused
<1>6. PICK c \in 0 .. Len(w) : r = SubSeq(w, c + 1, Len(w)) /\ Placed(S, c, p)
  BY <1>0, <1>5 DEF Fits
<1>7. w \in Seq(Char) /\ Len(w) \in Nat
  BY <1>4, AsSentIs
<1> HIDE DEF w
<1>8. (r = <<>> <=> c = Len(w)) /\ (c = 0 => r = w)
  <2>1. r = <<>> => c = Len(w)
    BY <1>6, <1>7, RestIs
  <2>2. c = Len(w) => r = <<>>
    BY <1>6, <1>7, RestIs
  <2>3. c = 0 => r = w
    BY <1>6, <1>7, RestIs
  <2>. QED BY <2>1, <2>2, <2>3
<1>9. c \in Nat
  BY <1>6, <1>7
<1>. QED BY <1>1, <1>2, <1>3, <1>4, <1>6, <1>8, <1>9 DEF w

\* A line that is done has come to its end
LEMMA DoneLine ==
  ASSUME NEW S \in Seq(Entry), NEW r \in Seq(Char), NEW p, NEW g, Fits(S, r, p, g), S # <<>>, p.state = "done"
  PROVE  /\ r = <<>> /\ g = BuildConnectionRequest(p) /\ Ordered(S)
         /\ Len(S) \in Nat /\ Len(S) \in 1 .. Len(S) /\ Len(S) >= 1
         /\ S[Len(S)].part = "end" /\ Arrived(S, Len(S), 1, p)
<1> DEFINE K == Len(S)
           e == S[K]
           w == AsSent(e)
<1>1. ErrorOf(p.state) = 0
  BY DEF ErrorOf
<1>0. Len(S) >= 1
  OBVIOUS
<1>2. /\ Ordered(S) /\ K \in Nat /\ K \in 1 .. K /\ K >= 1
      /\ e \in Entry /\ e.part \in Parts /\ TextOK(e.part, e.text)
      /\ \E c \in 0 .. Len(w) :
           c \in Nat /\ (r = <<>> <=> c = Len(w)) /\ Placed(S, c, p)
  BY <1>0, <1>1, Standing
<1>3. PICK c \in 0 .. Len(w) : c \in Nat /\ (r = <<>> <=> c = Len(w)) /\ Placed(S, c, p)
  BY <1>2
<1>4. \A n \in 1 .. K : S[n] \in Entry /\ S[n].part \in Parts /\ S[n].text \in Seq(Char)
                        /\ TextOK(S[n].part, S[n].text)
  BY <1>2, InOrder
<1>5. ASSUME c = 0, e.part \in SetOff
      PROVE  FALSE
  <2> DEFINE n == K - 1
  <2>1. Arrived(S, n, Len(AsSent(S[n])), p)
    BY <1>3, <1>5 DEF Placed
  <2>2. K # 1
    <3>1. S[1].part = "method"
      BY <1>2 DEF Ordered
    <3>. QED BY <1>5, <3>1 DEF SetOff
  <2>3. n \in 1 .. K /\ n \in 1 .. K - 1 /\ n + 1 = K
    BY <1>2, <2>2, OneBefore
  <2>4. S[n + 1].part \in Follows(S[n])
    BY <1>2, <2>3 DEF Ordered
  <2>5. S[n] \in Entry /\ S[n].part \in Parts /\ S[n].text \in Seq(Char) /\ TextOK(S[n].part, S[n].text)
    BY <1>4, <2>3
  <2>6. S[n].part # "end"
    BY <2>4, <2>5, FollowsIs
  <2>7. Len(AsSent(S[n])) \in Nat
    BY <2>5, AsSentIs
  <2>8. Progress(S[n].part, S[n].text, Len(AsSent(S[n])), p)
    BY <2>1 DEF Arrived
  <2>. QED BY <2>5, <2>6, <2>7, <2>8, UnderWay
<1>6. Arrived(S, K, c, p)
  BY <1>3, <1>5 DEF Placed
<1>7. Progress(e.part, e.text, c, p)
  BY <1>6 DEF Arrived
<1>8. e.part = "end" /\ c = 1
  BY <1>2, <1>3, <1>4, <1>7, UnderWay
<1>9. Len(w) = 1
  <2>1. w = e.text
    BY <1>2, <1>4, <1>8, WrittenAt DEF AsSent
  <2>. QED BY <1>2, <1>8, <2>1 DEF TextOK
<1>10. r = <<>>
  BY <1>3, <1>8, <1>9
<1>11. g = BuildConnectionRequest(p)
  BY DEF Fits
<1>. QED BY <1>2, <1>6, <1>8, <1>10, <1>11
-----------------------------------------------------------------------------
(* What a line that fits says *)

\* A line before its first part
LEMMA NoLine ==
  ASSUME said = <<>>, Fits(said, rest, line, request)
  PROVE  LineDecided
<1>1. line = NewLine \/ line.state = "done"
  BY DEF Fits
<1>2. line.state \in {"method", "done"}
  BY <1>1 DEF NewLine
<1>3. ErrorOf(line.state) = 0
  BY <1>2 DEF ErrorOf
<1>4. RefusedParts = {}
  BY DEF RefusedParts
<1>. QED BY <1>3, <1>4 DEF LineDecided

\* A refused line
LEMMA RefusedLine ==
  ASSUME said \in Seq(Entry), RefusedFor(said, line)
  PROVE  \E i \in RefusedParts :
           /\ \A j \in RefusedParts : i <= j
           /\ ErrorOf(line.state) = AnsweredWith(said[i])
<1>1. PICK n \in 1 .. Len(said) :
        Refused(line, AnsweredWith(said[n])) /\ \A i \in 1 .. n - 1 : AnsweredWith(said[i]) = 0
  BY DEF RefusedFor
<1>2. AnsweredWith(said[n]) # 0 /\ ErrorOf(line.state) = AnsweredWith(said[n])
  BY <1>1 DEF Refused
<1>3. n \in RefusedParts
  BY <1>2 DEF RefusedParts
<1>4. ASSUME NEW j \in RefusedParts
      PROVE  n <= j
  <2>1. j \in 1 .. Len(said) /\ AnsweredWith(said[j]) # 0
    BY DEF RefusedParts
  <2>2. Len(said) \in Nat
    OBVIOUS
  <2>3. ~(j \in 1 .. n - 1)
    BY <1>1, <2>1
  <2>. QED BY <2>1, <2>2, <2>3
<1>. QED BY <1>2, <1>3, <1>4

\* The parts of a line that was not refused
LEMMA StandingLine ==
  ASSUME said \in Seq(Entry), rest \in Seq(Char), Fits(said, rest, line, request), Len(said) >= 1,
         ErrorOf(line.state) = 0
  PROVE  /\ RefusedParts \intersect EndedParts = {}
         /\ Present.part = "end" /\ rest = <<>> => line.state = "done"
<1> DEFINE K == Len(said)
           e == said[K]
           w == AsSent(e)
<1>1. /\ Ordered(said) /\ K \in Nat /\ K \in 1 .. K /\ K >= 1
      /\ e \in Entry /\ e.part \in Parts /\ TextOK(e.part, e.text)
      /\ \E c \in 0 .. Len(w) :
           /\ c \in Nat
           /\ rest = <<>> <=> c = Len(w)
           /\ c = 0 => rest = w
           /\ Placed(said, c, line)
  BY Standing
<1>2. PICK c \in 0 .. Len(w) :
        /\ c \in Nat
        /\ rest = <<>> <=> c = Len(w)
        /\ c = 0 => rest = w
        /\ Placed(said, c, line)
  BY <1>1
<1>3. Len(w) \in Nat /\ (e.part \in SetOff => Len(w) >= 1)
  BY <1>1, AsSentIs
<1>4. Present = e
  BY DEF Present
<1>5. e.text \in Seq(Char)
  BY <1>1 DEF Entry
<1>6. w = Written(e.part, e.text)
  BY DEF AsSent
<1>7. \A i \in 1 .. K : i = K \/ i \in 1 .. K - 1
  BY <1>1
<1>8. ASSUME NEW i \in RefusedParts
      PROVE  i \in 1 .. K /\ AnsweredWith(said[i]) # 0
  BY DEF RefusedParts
<1>9. ASSUME NEW i \in EndedParts, said[i].part \in OpenEnded
      PROVE  i < K /\ (i + 1 = K => rest # w)
  <2>1. i < K /\ (i + 1 = K => rest # Written(said[i + 1].part, said[i + 1].text))
    BY <1>9 DEF EndedParts
  <2>. QED BY <1>6, <2>1
<1>10. ASSUME NEW i \in EndedParts, said[i].part \notin OpenEnded
       PROVE  i < K \/ rest = <<>>
  BY <1>10 DEF EndedParts
<1> HIDE DEF w
<1>11. CASE c = 0 /\ e.part \in SetOff
  <2> DEFINE n == K - 1
  <2>1. Arrived(said, n, Len(AsSent(said[n])), line)
    BY <1>2, <1>11 DEF Placed
  <2>2. K # 1
    <3>1. said[1].part = "method"
      BY <1>1 DEF Ordered
    <3>. QED BY <1>11, <3>1 DEF SetOff
  <2>3. n \in 1 .. K /\ n \in 1 .. K - 1 /\ n + 1 = K
    BY <1>1, <2>2, OneBefore
  <2>4. said[n + 1].part \in Follows(said[n])
    BY <1>1, <2>3 DEF Ordered
  <2>5. said[n].part \in Parts
    BY <1>1, <2>3, InOrder
  <2>6. said[n].part \in OpenEnded
    BY <1>11, <2>3, <2>4, <2>5, FollowsLater
  <2>7. \A i \in 1 .. n - 1 : AnsweredWith(said[i]) = 0
    BY <2>1 DEF Arrived
  <2>8. rest = w /\ rest # <<>>
    BY <1>2, <1>3, <1>11
  <2>9. \A i \in 1 .. K - 1 : i = n \/ i \in 1 .. n - 1
    BY <1>1
  <2> HIDE DEF n
  <2>10. ASSUME NEW i \in RefusedParts, i \in EndedParts
         PROVE  FALSE
    <3>1. CASE i = K
      <4>1. said[i].part \in OpenEnded => i < K
        BY <1>9, <2>10
      <4>2. said[i].part \notin OpenEnded => i < K
        BY <1>10, <2>8, <2>10
      <4>3. ~(i < K)
        BY <1>1, <3>1
      <4>. QED BY <4>1, <4>2, <4>3
    <3>2. CASE i = n
      <4>1. said[i].part \in OpenEnded /\ i + 1 = K
        BY <2>3, <2>6, <3>2
      <4>. QED BY <1>9, <2>8, <2>10, <4>1
    <3>3. CASE i \in 1 .. n - 1
      BY <1>8, <2>7, <3>3
    <3>. QED BY <1>7, <1>8, <2>9, <3>1, <3>2, <3>3
  <2>11. ~(Present.part = "end")
    BY <1>4, <1>11 DEF SetOff
  <2>. QED BY <2>10, <2>11
<1>12. CASE ~(c = 0 /\ e.part \in SetOff)
  <2>1. Arrived(said, K, c, line)
    BY <1>2, <1>12 DEF Placed
  <2>2. Progress(e.part, e.text, c, line)
    BY <2>1 DEF Arrived
  <2>3. \A i \in 1 .. K - 1 : AnsweredWith(said[i]) = 0
    BY <2>1 DEF Arrived
  <2>4. ASSUME rest = <<>>, e.part \notin OpenEnded
        PROVE  AnsweredWith(e) = 0
    <3>1. c = Len(Written(e.part, e.text))
      BY <1>2, <1>6, <2>4
    <3>. QED BY <1>1, <2>2, <2>4, <3>1, PartEnded
  <2>5. ASSUME NEW i \in RefusedParts, i \in EndedParts
        PROVE  FALSE
    <3>1. i = K
      BY <1>7, <1>8, <2>3
    <3>2. ~(i < K)
      BY <1>1, <3>1
    <3>3. said[i].part \notin OpenEnded
      BY <1>9, <2>5, <3>2
    <3>4. rest = <<>>
      BY <1>10, <2>5, <3>2, <3>3
    <3>. QED BY <1>8, <2>4, <3>1, <3>3, <3>4
  <2>6. ASSUME Present.part = "end", rest = <<>>
        PROVE  line.state = "done"
    <3>1. e.part = "end"
      BY <1>4, <2>6
    <3>2. w = e.text
      BY <1>1, <1>5, <1>6, <3>1, WrittenAt
    <3>3. Len(w) = 1
      BY <1>1, <3>1, <3>2 DEF TextOK
    <3>4. c = 1
      BY <1>2, <2>6, <3>3
    <3>. QED BY <2>2, <3>1, <3>4 DEF Progress, AtEnd
  <2>. QED BY <2>5, <2>6
<1>. QED BY <1>11, <1>12

\* A line that fits is decided as it should be
LEMMA FitDecides ==
  ASSUME said \in Seq(Entry), rest \in Seq(Char), Fits(said, rest, line, request)
  PROVE  LineDecided
<1>1. CASE said = <<>>
  BY <1>1, NoLine
<1>2. CASE said # <<>>
  <2>1. Len(said) >= 1
    BY <1>2
  <2>2. CASE ErrorOf(line.state) = 0
    <3>1. /\ RefusedParts \intersect EndedParts = {}
          /\ Present.part = "end" /\ rest = <<>> => line.state = "done"
      BY <2>1, <2>2, StandingLine
    <3>. QED BY <2>2, <3>1 DEF LineDecided
  <2>3. CASE ErrorOf(line.state) # 0
    <3>1. RefusedFor(said, line)
      <4> DEFINE K == Len(said)
                 w == AsSent(said[K])
      <4>1. Ordered(said)
        BY <1>2 DEF Fits
      <4>2. ASSUME NEW c \in 0 .. Len(w), Placed(said, c, line)
            PROVE  FALSE
        <5>1. K \in Nat /\ K >= 1 /\ K \in 1 .. K
          BY <2>1
        <5>2. \A n \in 1 .. K : said[n] \in Entry /\ said[n].part \in Parts /\ said[n].text \in Seq(Char)
                                /\ TextOK(said[n].part, said[n].text)
          BY <4>1, InOrder
        <5>3. \A n \in 1 .. K : Len(AsSent(said[n])) \in Nat
          BY <5>2, AsSentIs
        <5>4. c \in Nat
          BY <4>2, <5>1, <5>3
        <5>5. PICK n \in 1 .. K : \E d \in Nat : Arrived(said, n, d, line)
          <6>1. CASE c = 0 /\ said[K].part \in SetOff
            <7>1. K # 1
              <8>1. said[1].part = "method"
                BY <4>1, <5>1 DEF Ordered
              <8>. QED BY <6>1, <8>1 DEF SetOff
            <7>2. K - 1 \in 1 .. K
              BY <5>1, <7>1, OneBefore
            <7>3. Arrived(said, K - 1, Len(AsSent(said[K - 1])), line)
              BY <4>2, <6>1 DEF Placed
            <7>. QED BY <5>3, <7>2, <7>3
          <6>2. CASE ~(c = 0 /\ said[K].part \in SetOff)
            <7>1. Arrived(said, K, c, line)
              BY <4>2, <6>2 DEF Placed
            <7>. QED BY <5>1, <5>4, <7>1
          <6>. QED BY <6>1, <6>2
        <5>6. PICK d \in Nat : Arrived(said, n, d, line)
          BY <5>5
        <5>7. Progress(said[n].part, said[n].text, d, line)
          BY <5>6 DEF Arrived
        <5>. QED BY <2>3, <5>2, <5>7, UnderWay
      <4>. QED BY <1>2, <4>2 DEF Fits
    <3>2. \E i \in RefusedParts :
            /\ \A j \in RefusedParts : i <= j
            /\ ErrorOf(line.state) = AnsweredWith(said[i])
      BY <3>1, RefusedLine
    <3>. QED BY <2>3, <3>2 DEF LineDecided
  <2>. QED BY <2>2, <2>3
<1>. QED BY <1>1, <1>2
\* The text of a part that was said
LEMMA SaidIs ==
  ASSUME said \in Seq(Entry), Ordered(said), NEW i \in 1 .. Len(said)
  PROVE  /\ Said(said[i].part) = {said[i].text}
         /\ (CHOOSE text \in Said(said[i].part) : TRUE) = said[i].text
<1>1. \A m, n \in 1 .. Len(said) : m < n => Rank[said[m].part] < Rank[said[n].part]
  BY InOrder
<1>2. \A n \in 1 .. Len(said) : Rank[said[n].part] \in Nat
  BY InOrder
<1>3. \A j \in 1 .. Len(said) : said[j].part = said[i].part => j = i
  <2>. TAKE j \in 1 .. Len(said)
  <2>. HAVE said[j].part = said[i].part
  <2>1. j < i \/ i < j \/ i = j
    OBVIOUS
  <2>2. Rank[said[j].part] = Rank[said[i].part]
    OBVIOUS
  <2>. QED BY <1>1, <1>2, <2>1, <2>2
<1>4. {j \in 1 .. Len(said) : said[j].part = said[i].part} = {i}
  BY <1>3
<1>5. Said(said[i].part) = {said[i].text}
  BY <1>4 DEF Said
<1>6. \A x : (CHOOSE text \in {x} : TRUE) = x
  OBVIOUS
<1>. QED BY <1>5, <1>6

\* The text of a part that was not said
LEMMA UnsaidIs ==
  ASSUME said \in Seq(Entry), NEW part
  PROVE  (\A i \in 1 .. Len(said) : said[i].part # part) <=> Said(part) = {}
BY DEF Said

\* What a part comes after
LEMMA ComesAfter ==
  ASSUME NEW S \in Seq(Entry), Ordered(S), NEW n \in 1 .. Len(S), S[n].part # "method"
  PROVE  /\ n - 1 \in 1 .. Len(S)
         /\ S[n].part = "end" => S[n - 1].part = "minor"
         /\ S[n].part = "minor" => S[n - 1].part = "major"
         /\ S[n].part = "major" => S[n - 1].part = "version"
<1>1. Len(S) \in Nat
  OBVIOUS
<1>2. n # 1
  <2>1. Len(S) >= 1
    BY <1>1
  <2>. QED BY <2>1 DEF Ordered
<1> DEFINE k == n - 1
<1>3. k \in 1 .. Len(S) /\ k \in 1 .. Len(S) - 1 /\ k + 1 = n
  BY <1>1, <1>2
<1>4. S[k + 1].part \in Follows(S[k])
  BY <1>3 DEF Ordered
<1>5. S[k].part \in Parts
  BY <1>3, InOrder
<1>6. S[n].part \in Follows(S[k])
  BY <1>3, <1>4
<1> HIDE DEF k
<1>7. /\ S[k].part = "method" => S[n].part \in {"host", "scheme"}
      /\ S[k].part = "scheme" => S[n].part = "host"
      /\ S[k].part = "host" => S[n].part \in SetOff
      /\ S[k].part = "port" => S[n].part \in {"path", "version"}
      /\ S[k].part = "path" => S[n].part = "version"
      /\ S[k].part = "version" => S[n].part = "major"
      /\ S[k].part = "major" => S[n].part = "minor"
      /\ S[k].part = "minor" => S[n].part = "end"
      /\ S[k].part # "end"
  <2>1. S[k].part = "method" => S[n].part = IF S[k].text = Connect THEN "host" ELSE "scheme"
    BY <1>5, <1>6, FollowsIs
  <2>2. S[k].part = "method" => S[n].part \in {"host", "scheme"}
    BY <2>1
  <2>. QED BY <1>5, <1>6, <2>2, FollowsIs
<1>8. S[n].part = "end" => S[k].part = "minor"
  BY <1>5, <1>7 DEF Parts, SetOff
<1>9. S[n].part = "minor" => S[k].part = "major"
  BY <1>5, <1>7 DEF Parts, SetOff
<1>10. S[n].part = "major" => S[k].part = "version"
  BY <1>5, <1>7 DEF Parts, SetOff
<1>. QED BY <1>3, <1>8, <1>9, <1>10 DEF k

\* What is kept of a line
LEMMA RequestIs ==
  ASSUME NEW p, NEW g, g = BuildConnectionRequest(p)
  PROVE  /\ g.connect = (p.method = Connect) /\ g.method = p.method
         /\ g.path = IF p.method = Options /\ p.origin_form = <<>> THEN <<"*">> ELSE p.origin_form
         /\ g.host_type = p.host_type /\ g.host = p.host /\ g.port = Swapped(p.port)
BY Zenon DEF BuildConnectionRequest

\* The port of a line that is done
LEMMA PortIs ==
  ASSUME said \in Seq(Entry), rest \in Seq(Char), Fits(said, rest, line, request), said # <<>>, line.state = "done"
  PROVE  request.port = IF Said("port") = {} THEN 80
                        ELSE IF Said("port") = {<<>>} THEN Swapped(80)
                        ELSE Number(CHOOSE text \in Said("port") : TRUE)
<1> DEFINE K == Len(said)
<1>1. /\ request = BuildConnectionRequest(line) /\ Ordered(said) /\ K \in Nat /\ K \in 1 .. K /\ K >= 1
      /\ said[K].part = "end" /\ Arrived(said, K, 1, line)
  BY DoneLine
<1>2. request.port = Swapped(line.port)
  BY <1>1, RequestIs
<1>3. \A i \in 1 .. K : i \in 1 .. K - 1 \/ i = K
  BY <1>1
<1>4. CASE \E i \in 1 .. K : said[i].part = "port"
  <2>1. PICK i \in 1 .. K : said[i].part = "port"
    BY <1>4
  <2> DEFINE e == said[i]
             t == e.text
  <2>2. i \in 1 .. K - 1
    BY <1>1, <1>3, <2>1
  <2>3. AnsweredWith(e) = 0 /\ Leaves(e.part, e.text, line)
    BY <1>1, <2>2 DEF Arrived
  <2>4. PortLeft(t, line)
    BY <2>1, <2>3 DEF Leaves
  <2>5. t \in Seq(Char)
    BY <1>1, InOrder
  <2>6. ~PortFault(t)
    <3>1. AnsweredWith(e) = IF PortFault(t) THEN 400 ELSE 0
      BY <2>1, <2>5, FaultsAre
    <3>. QED BY <2>3, <3>1
  <2>7. Said("port") = {t} /\ (CHOOSE text \in Said("port") : TRUE) = t
    BY <1>1, <2>1, SaidIs
  <2> HIDE DEF e, t
  <2>8. Number(t) \in Nat /\ Number(t) < PortModulus
    BY <2>5, <2>6, PortNumber
  <2>9. Swapped(Swapped(Number(t))) = Number(t)
    BY <2>8, SwappedTwice
  <2>10. line.port = IF t = <<>> THEN 80 ELSE Swapped(Number(t))
    BY <2>4 DEF PortLeft
  <2>11. CASE t = <<>>
    <3>1. Said("port") = {<<>>} /\ Said("port") # {}
      BY <2>7, <2>11
    <3>2. request.port = Swapped(80)
      BY <1>2, <2>10, <2>11
    <3>. QED BY <3>1, <3>2
  <2>12. CASE t # <<>>
    <3>1. Said("port") # {<<>>} /\ Said("port") # {}
      BY <2>7, <2>12
    <3>2. request.port = Number(t)
      BY <1>2, <2>9, <2>10, <2>12
    <3>. QED BY <2>7, <3>1, <3>2
  <2>. QED BY <2>11, <2>12
<1>5. CASE \A i \in 1 .. K : said[i].part # "port"
  <2>1. Said("port") = {}
    BY <1>5, UnsaidIs
  <2>2. Rank[said[K].part] = 9
    BY <1>1 DEF Rank
  <2>3. PICK m \in 1 .. K : said[m].part = "host"
    BY <1>1, <2>2 DEF Ordered
  <2>4. m \in 1 .. K - 1
    BY <1>1, <1>3, <2>3
  <2>5. line.port = Swapped(80)
    BY <1>1, <1>5, <2>3, <2>4 DEF Arrived
  <2>6. Swapped(Swapped(80)) = 80
    <3>1. 80 \in Nat /\ 80 < PortModulus
      BY DEF PortModulus
    <3>. QED BY <3>1, SwappedTwice
  <2>. QED BY <1>2, <2>1, <2>5, <2>6
<1>. QED BY <1>4, <1>5

\* The path of a line that is done
LEMMA PathIs ==
  ASSUME said \in Seq(Entry), rest \in Seq(Char), Fits(said, rest, line, request), said # <<>>, line.state = "done"
  PROVE  request.path = IF Said("path") # {} THEN CHOOSE text \in Said("path") : TRUE
                        ELSE IF line.method = Options THEN <<"*">> ELSE <<"/">>
<1> DEFINE K == Len(said)
<1>1. /\ request = BuildConnectionRequest(line) /\ Ordered(said) /\ K \in Nat /\ K \in 1 .. K /\ K >= 1
      /\ said[K].part = "end" /\ Arrived(said, K, 1, line)
  BY DoneLine
<1>2. request.path = IF line.method = Options /\ line.origin_form = <<>> THEN <<"*">> ELSE line.origin_form
  BY <1>1, RequestIs
<1>3. \A i \in 1 .. K : i \in 1 .. K - 1 \/ i = K
  BY <1>1
<1>4. CASE \E i \in 1 .. K : said[i].part = "path"
  <2>1. PICK i \in 1 .. K : said[i].part = "path"
    BY <1>4
  <2>2. i \in 1 .. K - 1
    BY <1>1, <1>3, <2>1
  <2>3. Leaves(said[i].part, said[i].text, line)
    BY <1>1, <2>2 DEF Arrived
  <2>4. line.origin_form = said[i].text
    BY <2>1, <2>3 DEF Leaves
  <2>5. TextOK(said[i].part, said[i].text)
    BY <1>1, InOrder
  <2>6. Len(said[i].text) >= 1
    BY <2>1, <2>5 DEF TextOK
  <2>7. said[i].text # <<>>
    BY <2>6
  <2>8. Said("path") = {said[i].text} /\ (CHOOSE text \in Said("path") : TRUE) = said[i].text
    BY <1>1, <2>1, SaidIs
  <2>9. Said("path") # {}
    BY <2>8
  <2>10. request.path = said[i].text
    BY <1>2, <2>4, <2>7
  <2>. QED BY <2>8, <2>9, <2>10
<1>5. CASE \A i \in 1 .. K : said[i].part # "path"
  <2>1. Said("path") = {}
    BY <1>5, UnsaidIs
  <2>2. \E i \in 1 .. K : said[i].part = "version"
    <3>1. K - 1 \in 1 .. K /\ said[K - 1].part = "minor"
      BY <1>1, ComesAfter
    <3>2. (K - 1) - 1 \in 1 .. K /\ said[(K - 1) - 1].part = "major"
      BY <1>1, <3>1, ComesAfter
    <3>3. ((K - 1) - 1) - 1 \in 1 .. K /\ said[((K - 1) - 1) - 1].part = "version"
      BY <1>1, <3>2, ComesAfter
    <3>. QED BY <3>3
  <2>3. line.origin_form = IF line.method = Options THEN <<>> ELSE <<"/">>
    BY <1>1, <1>5, <2>2 DEF Arrived
  <2>4. request.path = IF line.method = Options THEN <<"*">> ELSE <<"/">>
    BY <1>2, <2>3
  <2>. QED BY <2>1, <2>4
<1>. QED BY <1>4, <1>5

\* A line that is done is kept as it was said
LEMMA FitTells ==
  ASSUME said \in Seq(Entry), rest \in Seq(Char), Fits(said, rest, line, request)
  PROVE  TargetAsSaid
<1>. SUFFICES ASSUME line.state = "done", said # <<>>
              PROVE  TargetAsSaid
  BY DEF TargetAsSaid
<1> DEFINE K == Len(said)
<1>1. /\ request = BuildConnectionRequest(line) /\ Ordered(said) /\ K \in Nat /\ K \in 1 .. K /\ K >= 1
      /\ said[K].part = "end" /\ Arrived(said, K, 1, line)
  BY DoneLine
<1>2. \A i \in 1 .. K : i \in 1 .. K - 1 \/ i = K
  BY <1>1
<1>3. Rank[said[K].part] = 9
  BY <1>1 DEF Rank
<1>4. PICK m \in 1 .. K : said[m].part = "host"
  BY <1>1, <1>3 DEF Ordered
<1>5. m \in 1 .. K - 1
  BY <1>1, <1>2, <1>4
<1>6. 1 \in 1 .. K /\ said[1].part = "method"
  BY <1>1 DEF Ordered
<1>7. 1 \in 1 .. K - 1
  BY <1>1, <1>2, <1>6
<1>8. /\ Leaves(said[m].part, said[m].text, line)
      /\ Leaves(said[1].part, said[1].text, line)
  BY <1>1, <1>5, <1>7 DEF Arrived
<1> DEFINE host == CHOOSE text \in Said("host") : TRUE
           method == CHOOSE text \in Said("method") : TRUE
<1>9. host = said[m].text
  BY <1>1, <1>4, SaidIs
<1>10. method = said[1].text
  BY <1>1, <1>6, SaidIs
<1> HIDE DEF host, method
<1>11. HostLeft(host, line)
  BY <1>4, <1>8, <1>9 DEF Leaves
<1>12. line.method = method
  BY <1>6, <1>8, <1>10 DEF Leaves
<1>13. /\ request.connect = (line.method = Connect) /\ request.method = line.method
       /\ request.host_type = line.host_type /\ request.host = line.host
  BY <1>1, RequestIs
<1>14. request.method = method /\ (request.connect <=> method = Connect)
  BY <1>12, <1>13
<1>15. /\ Bracketed(host) => request.host_type = "ipv6" /\ request.host = Literal(host)
       /\ ~Bracketed(host) /\ host \in Ipv4Literals =>
            request.host_type = "ipv4" /\ request.host = host
       /\ ~Bracketed(host) /\ host \notin Ipv4Literals =>
            request.host_type = "domain" /\ request.host = host
  BY <1>11, <1>13 DEF HostLeft
<1>16. (CASE Bracketed(host) -> request.host_type = "ipv6" /\ request.host = Literal(host)
          [] ~Bracketed(host) /\ host \in Ipv4Literals ->
               request.host_type = "ipv4" /\ request.host = host
          [] OTHER -> request.host_type = "domain" /\ request.host = host)
  <2>1. CASE Bracketed(host)
    BY <1>15, <2>1
  <2>2. CASE ~Bracketed(host) /\ host \in Ipv4Literals
    BY <1>15, <2>2
  <2>3. CASE ~Bracketed(host) /\ host \notin Ipv4Literals
    BY <1>15, <2>3
  <2>. QED BY <2>1, <2>2, <2>3, Zenon
<1>17. request.port = IF Said("port") = {} THEN 80
                      ELSE IF Said("port") = {<<>>} THEN Swapped(80)
                      ELSE Number(CHOOSE text \in Said("port") : TRUE)
  BY PortIs
<1>18. request.path = IF Said("path") # {} THEN CHOOSE text \in Said("path") : TRUE
                      ELSE IF method = Options THEN <<"*">> ELSE <<"/">>
  <2>1. request.path = IF Said("path") # {} THEN CHOOSE text \in Said("path") : TRUE
                       ELSE IF line.method = Options THEN <<"*">> ELSE <<"/">>
    BY PathIs
  <2>. QED BY <1>12, <2>1
<1>. QED BY <1>14, <1>16, <1>17, <1>18, Zenon DEF TargetAsSaid, host, method
-----------------------------------------------------------------------------
(* The line, step by step *)

\* The client begins a part
LEMMA ClientFits ==
  ASSUME LineInv, Fits(said, rest, line, request), ClientSays
  PROVE  Fits(said, rest, line, request)'
<1>0. PICK part \in Following : \E text \in Texts[part] :
        said' = Append(said, [part |-> part, text |-> text]) /\ rest' = Written(part, text)
  BY DEF ClientSays
<1>1. PICK text \in Texts[part] :
        said' = Append(said, [part |-> part, text |-> text]) /\ rest' = Written(part, text)
  BY <1>0
<1> DEFINE e == [part |-> part, text |-> text]
<1>2. rest = <<>> /\ line.state # "done" /\ ErrorOf(line.state) = 0 /\ line' = line /\ request' = request
  BY DEF ClientSays
<1>3. said \in Seq(Entry)
  BY DEF LineInv, Entry
<1>4. part \in Parts
  BY <1>0, FollowingIs
<1>5. text \in Seq(Char)
  BY <1>1, <1>4, ResolutionAssumption DEF Char
<1>6. TextOK(part, text)
  BY <1>1, <1>4, TextsAre
<1>7. e \in Entry /\ e.part = part /\ e.text = text
  BY <1>4, <1>5 DEF Entry
<1>8. said' = Append(said, e) /\ rest' = AsSent(e)
  BY <1>1, <1>7 DEF AsSent
<1>9. IF Len(said) = 0 THEN part = "method" ELSE part \in Follows(said[Len(said)])
  <2>1. CASE said = <<>>
    <3>1. part = "method" /\ Len(said) = 0
      BY <1>0, <2>1 DEF Following
    <3>. QED BY <3>1
  <2>2. CASE said # <<>>
    <3>1. part \in Follows(said[Len(said)])
      BY <1>0, <2>2 DEF Following, Present
    <3>2. Len(said) # 0
      BY <1>3, <2>2
    <3>. QED BY <3>1, <3>2
  <2>. QED BY <2>1, <2>2
<1> HIDE DEF e
<1>10. Fits(said', AsSent(e), line, request)
  BY <1>2, <1>3, <1>6, <1>7, <1>8, <1>9, SayFits
<1>11. Fits(said', rest', line', request')
  BY <1>2, <1>8, <1>10
<1>. QED BY <1>11

\* One character of the line
LEMMA FeedFitsNext ==
  ASSUME LineInv, Fits(said, rest, line, request), FeedLine
  PROVE  Fits(said, rest, line, request)'
<1>1. said \in Seq(Entry) /\ rest \in Seq(Char) /\ line \in Lines
  BY DEF LineInv, HostOK, Entry
<1>2. /\ rest # <<>> /\ line.state # "done" /\ ErrorOf(line.state) = 0
      /\ rest' = Tail(rest) /\ line' = LineFeed(line, Head(rest)) /\ said' = said
      /\ request' = IF line'.state = "done" THEN BuildConnectionRequest(line') ELSE request
  BY DEF FeedLine
<1>3. Fits(said, Tail(rest), line', request')
  BY <1>1, <1>2, FeedFits
<1>. QED BY <1>2, <1>3

\* The host is asked for, and the line is forgotten
LEMMA QueryFits ==
  ASSUME LineInv, Fits(said, rest, line, request), SendDohRequest
  PROVE  Fits(said, rest, line, request)'
<1>1. /\ line.state = "done" /\ said' = <<>> /\ line' = [NewLine EXCEPT !.state = "done"] /\ rest' = rest
  BY DEF SendDohRequest
<1>2. line'.state = "done"
  BY <1>1 DEF NewLine
<1>3. said \in Seq(Entry) /\ rest \in Seq(Char)
  BY DEF LineInv, Entry
<1>4. rest = <<>>
  <2>1. CASE said = <<>>
    BY <2>1 DEF Fits
  <2>2. CASE said # <<>>
    BY <1>1, <1>3, <2>2, DoneLine
  <2>. QED BY <2>1, <2>2
<1>5. Fits(said', rest', line', request')
  BY <1>1, <1>2, <1>4 DEF Fits
<1>. QED BY <1>5

\* Every step
LEMMA NextFits ==
  ASSUME LineInv, Fits(said, rest, line, request), [Next]_vars
  PROVE  Fits(said, rest, line, request)'
<1>1. CASE ParseLine
  <2>1. CASE ClientSays
    BY <2>1, ClientFits
  <2>2. CASE FeedLine
    BY <2>2, FeedFitsNext
  <2>. QED BY <1>1, <2>1, <2>2 DEF ParseLine
<1>2. CASE SendDohRequest
  BY <1>2, QueryFits
<1>3. CASE UNCHANGED lineVars
  <2>1. said' = said /\ rest' = rest /\ line' = line /\ request' = request
    BY <1>3 DEF lineVars
  <2>. QED BY <2>1
<1>4. UNCHANGED vars => UNCHANGED lineVars
  BY DEF vars, lineVars
<1>5. ParseResponse \/ Over => UNCHANGED lineVars
  BY <1>4 DEF ParseResponse, Over
<1>. QED BY <1>1, <1>2, <1>3, <1>4, <1>5 DEF Next

\* The line and what the parser made of it fit in every state
THEOREM LineFits == Spec => [](LineInv /\ Fits(said, rest, line, request))
<1>1. Init => Fits(said, rest, line, request)
  <2>. SUFFICES ASSUME Init PROVE Fits(said, rest, line, request)
    OBVIOUS
  <2>1. said = <<>> /\ rest = <<>> /\ line = NewLine
    BY DEF Init, LineInit
  <2>. QED BY <2>1 DEF Fits
<1>2. ResolutionInv => LineInv
  BY DEF ResolutionInv
<1>3. LineInv /\ Fits(said, rest, line, request) /\ [Next]_vars => Fits(said, rest, line, request)'
  BY NextFits
<1>. QED BY <1>1, <1>2, <1>3, ResolutionInvariant, PTL DEF Spec

\* parsing_host_on_read_ready: whatever the client sends, a line is refused for its first
\* part at fault, with the error that part calls for and not later than when it has ended,
\* and is accepted at its last character if there is none.  At fault is what
\* request_line_parser.h says is, and what is AtLimit, but not what is Tolerated.
THEOREM LineIsDecided == Spec => []LineDecided
<1>1. LineInv /\ Fits(said, rest, line, request) => LineDecided
  BY FitDecides DEF LineInv, Entry
<1>. QED BY <1>1, LineFits, PTL

\* build_connection_request: the target that is connected to and the line that is
\* sent on are the ones the client named, for every line that is accepted
THEOREM TargetIsAsSaid == Spec => []TargetAsSaid
<1>1. LineInv /\ Fits(said, rest, line, request) => TargetAsSaid
  BY FitTells DEF LineInv, Entry
<1>. QED BY <1>1, LineFits, PTL
=============================================================================
