-------------------------- MODULE ResolutionProofs --------------------------
(***************************************************************************)
(* Theorems about Resolution: the query names the host of the request line *)
(* whatever the line, and fed byte by byte the parsers of the response     *)
(* decide what Connection takes for granted of them and fill the table of  *)
(* answers faithfully, for every head, name, address and number of answers *)
(* the assumptions allow.                                                  *)
(*                                                                         *)
(* The invariant says of every moment where in the octets of the present   *)
(* unit the parsers are, and that their state is the one that place calls  *)
(* for.  What the recursive functions LabelStarts, Labelled and Decides    *)
(* compute for every input rests on the least-element argument of the      *)
(* first section.                                                          *)
(***************************************************************************)
EXTENDS Resolution, TLAPS, SequenceTheorems, WellFoundedInduction
-----------------------------------------------------------------------------
(* Induction *)

\* A set of numbers has a least one
LEMMA Least ==
  ASSUME NEW T \in SUBSET Nat, T # {}
  PROVE  \E n \in T : \A m \in T : n <= m
<1> DEFINE R == OpToRel(<, Nat)
<1>1. PICK n \in T : \A m \in T : ~ (<<m, n>> \in R)
  <2>1. IsWellFoundedOn(R, Nat)
    BY NatLessThanWellFounded
  <2> HIDE DEF R
  <2>. QED BY <2>1, WFMin
<1>2. \A m \in Nat, k \in Nat : m < k => <<m, k>> \in R
  BY DEF OpToRel
<1> HIDE DEF R
<1>3. ASSUME NEW m \in T
      PROVE  n <= m
  <2>1. m \in Nat /\ n \in Nat
    OBVIOUS
  <2>2. ~ (m < n)
    BY <1>1, <1>2, <2>1
  <2>. QED BY <2>1, <2>2
<1>. QED BY <1>3

\* The numbers are all in a set that has 0 and with each number its successor
LEMMA Induction ==
  ASSUME NEW S, 0 \in S, \A n \in Nat : n \in S => n + 1 \in S
  PROVE  Nat \subseteq S
<1> DEFINE T == Nat \ S
<1>. SUFFICES ASSUME T # {} PROVE FALSE
  OBVIOUS
<1>1. PICK n \in T : \A m \in T : n <= m
  BY Least
<1>2. n \in Nat /\ n # 0 /\ n - 1 \in Nat /\ ~ (n <= n - 1)
  BY <1>1
<1>. QED BY <1>1, <1>2

-----------------------------------------------------------------------------
(* The labels of a name *)

\* g tells where in the first m octets of o a label begins
StartsTo(o, m, g) ==
  g = [k \in 1 .. m |-> k = 1 \/ \E j \in 1 .. k - 1 : j + o[j] + 1 = k /\ g[j]]

\* There is such a function as LabelStarts defines
LEMMA StartsExist ==
  ASSUME NEW o, NEW n \in Nat
  PROVE  \E g : StartsTo(o, n, g)
<1> DEFINE Is(g, m) == StartsTo(o, m, g)
           S == {m \in Nat : \E g : Is(g, m)}
<1>1. 0 \in S
  <2> DEFINE g == [k \in 1 .. 0 |-> FALSE]
  <2>1. 1 .. 0 = {}
    OBVIOUS
  <2>2. Is(g, 0)
    BY <2>1, Zenon DEF StartsTo
  <2>. QED BY <2>2
<1>2. ASSUME NEW m \in Nat, m \in S
      PROVE  m + 1 \in S
  <2>1. PICK g : Is(g, m)
    BY <1>2
  <2> DEFINE At1(f, k) == k = 1 \/ \E j \in 1 .. k - 1 : j + o[j] + 1 = k /\ f[j]
             h == [k \in 1 .. m + 1 |-> IF k <= m THEN g[k] ELSE At1(g, k)]
  <2>2. \A k \in 1 .. m : g[k] = At1(g, k)
    BY <2>1, Zenon DEF StartsTo
  <2>3. \A k \in 1 .. m + 1 : \A j \in 1 .. k - 1 : j \in 1 .. m + 1 /\ j <= m
    OBVIOUS
  <2>4. \A k \in 1 .. m + 1 : \A j \in 1 .. k - 1 : h[j] = g[j]
    BY <2>3, Zenon
  <2>5. \A k \in 1 .. m + 1 : At1(h, k) = At1(g, k)
    <3> HIDE DEF h
    <3>. QED BY <2>4, Zenon
  <2>6. \A k \in 1 .. m + 1 : k <= m => k \in 1 .. m
    OBVIOUS
  <2>7. \A k \in 1 .. m + 1 : h[k] = At1(g, k)
    <3> HIDE DEF At1
    <3>. QED BY <2>2, <2>6, Zenon
  <2>8. h = [k \in 1 .. m + 1 |-> h[k]]
    BY Zenon
  <2>9. h = [k \in 1 .. m + 1 |-> At1(h, k)]
    <3> HIDE DEF h, At1
    <3>. QED BY <2>5, <2>7, <2>8, Zenon
  <2>10. Is(h, m + 1)
    BY <2>9, Zenon DEF StartsTo
  <2>11. m + 1 \in Nat
    OBVIOUS
  <2> HIDE DEF h, Is
  <2>. QED BY <2>10, <2>11, Zenon
<1> HIDE DEF S
<1>3. n \in S
  BY <1>1, <1>2, Induction
<1>. QED BY <1>3, Zenon DEF S

\* A label begins in front of the name, or where the label before it has ended
LEMMA StartsAre ==
  ASSUME NEW o, NEW n \in Nat, Len(o) = n
  PROVE  /\ LabelStarts(o) \subseteq 1 .. n
         /\ \A k \in 1 .. n :
              k \in LabelStarts(o) <=>
                k = 1 \/ \E j \in LabelStarts(o) : j < k /\ j + o[j] + 1 = k
<1> DEFINE f == CHOOSE g : g = [k \in 1 .. Len(o) |->
                                  k = 1 \/ \E j \in 1 .. k - 1 : j + o[j] + 1 = k /\ g[j]]
<1>1. StartsTo(o, Len(o), f)
  <2>1. \E g : StartsTo(o, Len(o), g)
    BY StartsExist
  <2>. QED BY <2>1, Zenon DEF StartsTo
<1>2. LabelStarts(o) = {k \in 1 .. Len(o) : f[k]}
  BY Zenon DEF LabelStarts
<1> HIDE DEF f
<1>3. \A k \in 1 .. n : f[k] <=> k = 1 \/ \E j \in 1 .. k - 1 : j + o[j] + 1 = k /\ f[j]
  BY <1>1, Zenon DEF StartsTo
<1>4. \A k \in 1 .. n : k \in LabelStarts(o) <=> f[k]
  BY <1>2, Zenon
<1>5. LabelStarts(o) \subseteq 1 .. n
  BY <1>2, Zenon
<1>6. \A k \in 1 .. n : \A j \in 1 .. k - 1 : j \in 1 .. n /\ j < k
  OBVIOUS
<1>7. \A k \in 1 .. n : \A j \in 1 .. n : j < k => j \in 1 .. k - 1
  OBVIOUS
<1>8. ASSUME NEW k \in 1 .. n
      PROVE  k \in LabelStarts(o) <=>
               k = 1 \/ \E j \in LabelStarts(o) : j < k /\ j + o[j] + 1 = k
  BY <1>3, <1>4, <1>5, <1>6, <1>7, Zenon
<1>. QED BY <1>5, <1>8

\* Between the beginnings of two labels there is at least the first label
LEMMA Chain ==
  ASSUME NEW o, NEW n \in Nat, Len(o) = n,
         \A k \in LabelStarts(o) : o[k] \in Nat
  PROVE  \A j, k \in LabelStarts(o) : j < k => j + o[j] + 1 <= k
<1> DEFINE T == LabelStarts(o)
<1>1. /\ T \subseteq 1 .. n
      /\ \A k \in 1 .. n : k \in T => k = 1 \/ \E j \in T : j < k /\ j + o[j] + 1 = k
  BY StartsAre
<1>2. \A k \in T : o[k] \in Nat /\ k \in Nat /\ k >= 1
  BY <1>1
<1> HIDE DEF T
<1> DEFINE S == {m \in Nat : \A j, k \in T : j < k /\ k <= m => j + o[j] + 1 <= k}
<1>3. 0 \in S
  BY <1>2
<1>4. ASSUME NEW m \in Nat, m \in S
      PROVE  m + 1 \in S
  <2>1. ASSUME NEW j \in T, NEW k \in T, j < k, k <= m + 1
        PROVE  j + o[j] + 1 <= k
    <3>1. PICK i \in T : i < k /\ i + o[i] + 1 = k
      BY <1>1, <1>2, <2>1
    <3>2. CASE i = j
      BY <1>2, <3>1, <3>2
    <3>3. CASE i < j
      <4>1. i + o[i] + 1 <= j
        BY <1>2, <1>4, <2>1, <3>3
      <4>. QED BY <1>2, <2>1, <3>1, <4>1
    <3>4. CASE j < i
      <4>1. j + o[j] + 1 <= i
        BY <1>2, <1>4, <2>1, <3>1, <3>4
      <4>. QED BY <1>2, <3>1, <4>1
    <3>. QED BY <1>2, <3>2, <3>3, <3>4
  <2>. QED BY <2>1
<1>5. Nat \subseteq S
  <2> HIDE DEF S
  <2>. QED BY <1>3, <1>4, Induction
<1>6. ASSUME NEW j \in T, NEW k \in T, j < k
      PROVE  j + o[j] + 1 <= k
  <2>1. k \in S
    BY <1>2, <1>5
  <2>. QED BY <1>2, <1>6, <2>1
<1>. QED BY <1>6 DEF T

-----------------------------------------------------------------------------
(* The name of the query *)

\* There is such a function as Labelled defines
LEMMA LabelledRun ==
  ASSUME NEW domain, Len(domain) \in Nat
  PROVE  \E after : /\ \A n \in 0 .. Len(domain) :
                         after[n] = IF n = 0 THEN QueryStart
                                    ELSE NameStep(after[n - 1], domain[n])
                    /\ Labelled(domain) = after[Len(domain)]
<1> DEFINE Is(g, m) ==
             g = [n \in 0 .. m |-> IF n = 0 THEN QueryStart ELSE NameStep(g[n - 1], domain[n])]
           S == {m \in Nat : \E g : Is(g, m)}
           N == Len(domain)
<1>1. 0 \in S
  <2> DEFINE g == [n \in 0 .. 0 |-> QueryStart]
  <2>1. 0 .. 0 = {0}
    OBVIOUS
  <2>2. Is(g, 0)
    BY <2>1, Zenon
  <2>. QED BY <2>2
<1>2. ASSUME NEW m \in Nat, m \in S
      PROVE  m + 1 \in S
  <2>1. PICK g : Is(g, m)
    BY <1>2
  <2> DEFINE Next1(f, n) == IF n = 0 THEN QueryStart ELSE NameStep(f[n - 1], domain[n])
             h == [n \in 0 .. m + 1 |-> IF n <= m THEN g[n] ELSE Next1(g, n)]
  <2>2. \A n \in 0 .. m : g[n] = Next1(g, n)
    BY <2>1, Zenon
  <2>3. \A n \in 0 .. m + 1 : n # 0 => n - 1 \in 0 .. m + 1 /\ n - 1 <= m
    OBVIOUS
  <2>4. \A n \in 0 .. m + 1 : n # 0 => h[n - 1] = g[n - 1]
    BY <2>3, Zenon
  <2>5. \A n \in 0 .. m + 1 : Next1(h, n) = Next1(g, n)
    <3> HIDE DEF h
    <3>. QED BY <2>4, Zenon
  <2>6. \A n \in 0 .. m + 1 : n <= m => n \in 0 .. m
    OBVIOUS
  <2>7. \A n \in 0 .. m + 1 : h[n] = Next1(g, n)
    <3> HIDE DEF Next1
    <3>. QED BY <2>2, <2>6, Zenon
  <2>8. h = [n \in 0 .. m + 1 |-> h[n]]
    BY Zenon
  <2>9. h = [n \in 0 .. m + 1 |-> Next1(h, n)]
    <3> HIDE DEF h, Next1
    <3>. QED BY <2>5, <2>7, <2>8, Zenon
  <2>10. Is(h, m + 1)
    BY <2>9, Zenon
  <2>11. m + 1 \in Nat
    OBVIOUS
  <2> HIDE DEF h, Is
  <2>. QED BY <2>10, <2>11, Zenon
<1>3. \E g : Is(g, N)
  <2> HIDE DEF S, N
  <2>1. N \in S
    BY <1>1, <1>2, Induction DEF N
  <2>. QED BY <2>1, Zenon DEF S
<1> DEFINE f == CHOOSE g : Is(g, N)
<1>4. Is(f, N)
  BY <1>3, Zenon
<1>5. Labelled(domain) = f[N]
  BY Zenon DEF Labelled
<1> HIDE DEF f
<1>6. \A n \in 0 .. N : f[n] = IF n = 0 THEN QueryStart ELSE NameStep(f[n - 1], domain[n])
  BY <1>4, Zenon
<1>. QED BY <1>5, <1>6, Zenon

\* A label begins at h in the name d if h is its first place or one behind a dot
Begins(d, h) == h = 1 \/ d[h - 1] = "."

\* At h stands the length of d's label that begins there, up to a dot
LengthAt(octets, d, h) ==
  /\ octets[h] \in Nat
  /\ h + octets[h] <= Len(d)
  /\ d[h + octets[h]] = "."
  /\ \A i \in h .. h + octets[h] - 1 : d[i] # "."

\* What NameStep has made of the first n characters of d
Partial(q, d, n) ==
  /\ q \in [octets : Seq(Int), label : Nat, count : Nat]
  /\ Len(q.octets) = n + 1
  /\ q.label \in 1 .. n + 1
  /\ q.count = n + 1 - q.label
  /\ Begins(d, q.label)
  /\ \A i \in q.label .. n : d[i] # "."
  /\ \A i \in 1 .. n : d[i] # "." => q.octets[i + 1] = Code[d[i]]
  /\ \A h \in 1 .. q.label - 1 :
       Begins(d, h) => LengthAt(q.octets, d, h) /\ h + q.octets[h] < q.label

\* The octets of a rooted name: the labels, each behind its length, and an empty one
NameOctets(octets, d) ==
  /\ octets \in Seq(Int)
  /\ Len(octets) = Len(d) + 1
  /\ octets[Len(d) + 1] = 0
  /\ \A i \in 1 .. Len(d) : d[i] # "." => octets[i + 1] = Code[d[i]]
  /\ \A h \in 1 .. Len(d) : Begins(d, h) => LengthAt(octets, d, h)

\* One character goes on with the label, or ends it
LEMMA PartialStep ==
  ASSUME NEW d \in Seq(DOMAIN Code), Len(d) < OctetModulus,
         NEW n \in 0 .. Len(d) - 1, NEW q, Partial(q, d, n)
  PROVE  Partial(NameStep(q, d[n + 1]), d, n + 1)
<1> DEFINE c == d[n + 1]
           r == NameStep(q, c)
<1> DEFINE l == q.label
<1>0. /\ n \in Nat /\ n + 1 \in 1 .. Len(d) /\ Len(d) \in Nat
      /\ OctetModulus \in Nat \ {0} /\ c \in DOMAIN Code
  BY QueryAssumption
<1>1. /\ q.octets \in Seq(Int) /\ q.label \in Nat /\ q.count \in Nat
      /\ q = [octets |-> q.octets, label |-> q.label, count |-> q.count]
      /\ Len(q.octets) = n + 1
      /\ q.label \in 1 .. n + 1
      /\ q.count = n + 1 - q.label
  BY DEF Partial
<1>11. /\ Begins(d, q.label)
      /\ \A i \in q.label .. n : d[i] # "."
  BY DEF Partial
<1>12. \A i \in 1 .. n : d[i] # "." => q.octets[i + 1] = Code[d[i]]
  BY DEF Partial
<1>13. \A h \in 1 .. l - 1 :
         Begins(d, h) => LengthAt(q.octets, d, h) /\ h + q.octets[h] < l
  BY DEF Partial
<1>2. CASE c # "."
  <2>1. r = [octets |-> Append(q.octets, Code[c]), label |-> q.label,
             count |-> (q.count + 1) % OctetModulus]
    BY <1>1, <1>2 DEF NameStep
  <2>2. (q.count + 1) % OctetModulus = (n + 1) + 1 - q.label /\ q.count + 1 \in Nat
    <3>1. q.count + 1 \in Nat /\ q.count + 1 < OctetModulus
      BY <1>0, <1>1
    <3>2. (q.count + 1) % OctetModulus = q.count + 1
      BY <1>0, <3>1
    <3>. QED BY <1>0, <1>1, <3>1, <3>2
  <2>3. Code[c] \in Int
    BY <1>0, QueryAssumption
  <2> DEFINE o == Append(q.octets, Code[c])
  <2>4. /\ o \in Seq(Int) /\ Len(o) = n + 2
        /\ \A i \in 1 .. n + 1 : o[i] = q.octets[i]
        /\ o[n + 2] = Code[c]
    <3>1. /\ o \in Seq(Int) /\ Len(o) = Len(q.octets) + 1
          /\ \A i \in 1 .. Len(q.octets) : o[i] = q.octets[i]
          /\ o[Len(q.octets) + 1] = Code[c]
      BY <1>1, <2>3, AppendProperties
    <3> HIDE DEF o
    <3>2. Len(q.octets) = n + 1 /\ Len(q.octets) + 1 = n + 2
      BY <1>0, <1>1
    <3>. QED BY <3>1, <3>2
  <2> HIDE DEF o, r
  <2>5. r.octets = o /\ r.label = q.label /\ r.count = (n + 1) + 1 - q.label
    BY <2>1, <2>2 DEF o
  <2>6. r \in [octets : Seq(Int), label : Nat, count : Nat]
    <3>1. (q.count + 1) % OctetModulus \in Nat
      BY <1>0, <1>1, <2>2
    <3>. QED BY <1>1, <2>1, <2>4, <3>1 DEF o
  <2>7. \A i \in r.label .. n + 1 : d[i] # "."
    <3>1. ASSUME NEW i \in r.label .. n + 1
          PROVE  d[i] # "."
      <4>1. i = n + 1 \/ i \in q.label .. n
        BY <1>0, <1>1, <2>5
      <4>. QED BY <1>2, <1>11, <4>1
    <3>. QED BY <3>1
  <2>8. ASSUME NEW i \in 1 .. n + 1, d[i] # "."
        PROVE  r.octets[i + 1] = Code[d[i]]
    <3>1. CASE i = n + 1
      BY <1>0, <2>4, <2>5, <3>1
    <3>2. CASE i # n + 1
      <4>1. i \in 1 .. n /\ i + 1 \in 1 .. n + 1
        BY <1>0, <3>2
      <4>2. q.octets[i + 1] = Code[d[i]]
        BY <1>12, <2>8, <4>1, Zenon
      <4>3. o[i + 1] = q.octets[i + 1]
        BY <2>4, <4>1, Zenon
      <4>. QED BY <2>5, <4>2, <4>3, Zenon
    <3>. QED BY <3>1, <3>2
  <2>9. ASSUME NEW h \in 1 .. r.label - 1, Begins(d, h)
        PROVE  LengthAt(r.octets, d, h) /\ h + r.octets[h] < r.label
    <3>1. h \in 1 .. q.label - 1 /\ r.octets[h] = q.octets[h]
      BY <1>0, <1>1, <2>4, <2>5
    <3>2. LengthAt(q.octets, d, h) /\ h + q.octets[h] < q.label
      BY <1>13, <2>9, <3>1, Zenon
    <3>. QED BY <2>5, <3>1, <3>2 DEF LengthAt
  <2>10. /\ Len(r.octets) = (n + 1) + 1 /\ r.label \in 1 .. (n + 1) + 1
         /\ r.count = (n + 1) + 1 - r.label /\ Begins(d, r.label)
    <3>1. Len(r.octets) = (n + 1) + 1
      BY <1>0, <2>4, <2>5
    <3>2. r.label \in 1 .. (n + 1) + 1
      BY <1>0, <1>1, <2>5
    <3>. QED BY <1>11, <2>5, <3>1, <3>2
  <2>. QED BY <2>6, <2>7, <2>8, <2>9, <2>10 DEF Partial, r
<1>3. CASE c = "."
  <2> DEFINE e == [q.octets EXCEPT ![q.label] = q.count]
             o == Append(e, Unset)
  <2>1. r = [octets |-> o, label |-> Len(q.octets) + 1, count |-> 0]
    BY <1>3 DEF NameStep
  <2>2. /\ e \in Seq(Int) /\ Len(e) = n + 1
        /\ \A i \in 1 .. n + 1 : e[i] = IF i = q.label THEN q.count ELSE q.octets[i]
    BY <1>0, <1>1, ExceptSeq
  <2> HIDE DEF e
  <2>3. Unset \in Int
    BY DEF Unset
  <2>4. /\ o \in Seq(Int) /\ Len(o) = n + 2
        /\ \A i \in 1 .. n + 1 : o[i] = IF i = q.label THEN q.count ELSE q.octets[i]
    BY <1>0, <2>2, <2>3, AppendProperties
  <2> HIDE DEF o, r
  <2>5. r.octets = o /\ r.label = n + 2 /\ r.count = 0
    BY <1>0, <1>1, <2>1
  <2>6. r \in [octets : Seq(Int), label : Nat, count : Nat]
    BY <1>0, <1>1, <2>1, <2>4
  <2>7. ASSUME NEW i \in 1 .. n + 1, d[i] # "."
        PROVE  r.octets[i + 1] = Code[d[i]]
    <3>1. i # n + 1
      BY <1>3, <2>7
    <3>2. i \in 1 .. n /\ i + 1 \in 1 .. n + 1
      BY <1>0, <3>1
    <3>3. i + 1 # q.label
      <4>1. SUFFICES ASSUME i + 1 = q.label PROVE FALSE
        OBVIOUS
      <4>2. q.label # 1 /\ q.label - 1 = i
        BY <1>0, <3>2, <4>1
      <4>. QED BY <1>11, <2>7, <4>2 DEF Begins
    <3>4. q.octets[i + 1] = Code[d[i]]
      BY <1>12, <2>7, <3>2, Zenon
    <3>5. o[i + 1] = q.octets[i + 1]
      BY <2>4, <3>2, <3>3
    <3>. QED BY <2>5, <3>4, <3>5
  <2>8. ASSUME NEW h \in 1 .. n + 1, Begins(d, h)
        PROVE  LengthAt(o, d, h) /\ h + o[h] < n + 2
    <3>0. h \in Nat /\ h >= 1 /\ h <= n + 1 /\ l \in Nat /\ l >= 1 /\ l <= n + 1 /\ n \in Nat
      BY <1>0, <1>1
    <3>1. CASE h < l
      <4>1. h \in 1 .. l - 1 /\ h \in 1 .. n + 1 /\ h # l
        BY <3>0, <3>1
      <4>2. o[h] = q.octets[h]
        BY <2>4, <4>1
      <4>3. LengthAt(q.octets, d, h) /\ h + q.octets[h] < l
        BY <1>13, <2>8, <4>1, Zenon
      <4>4. LengthAt(o, d, h) /\ h + o[h] < l
        BY <4>2, <4>3 DEF LengthAt
      <4>5. o[h] \in Nat
        BY <4>4 DEF LengthAt
      <4>. QED BY <3>0, <4>4, <4>5
    <3>2. CASE h = l
      <4>1. o[h] = n + 1 - h
        BY <1>1, <2>4, <3>2
      <4> DEFINE v == o[h]
      <4>2. v \in Nat /\ h + v = n + 1
        BY <3>0, <4>1
      <4>3. h + v <= Len(d)
        BY <1>0, <4>2
      <4>4. h + v - 1 = n
        BY <3>0, <4>2
      <4>5. \A i \in h .. h + v - 1 : d[i] # "."
        BY <1>11, <3>2, <4>4
      <4>6. d[h + v] = "."
        BY <1>3, <4>2
      <4>7. h + v < n + 2
        BY <3>0, <4>2
      <4>. QED BY <4>2, <4>3, <4>5, <4>6, <4>7 DEF LengthAt
    <3>3. CASE h > l
      <4>1. h # 1 /\ h - 1 \in l .. n
        BY <3>0, <3>3
      <4>. QED BY <1>11, <2>8, <4>1 DEF Begins
    <3>. QED BY <3>0, <3>1, <3>2, <3>3
  <2>9. Begins(d, r.label)
    <3>1. r.label - 1 = n + 1
      BY <1>0, <2>5
    <3>. QED BY <1>3, <3>1 DEF Begins
  <2>10. /\ Len(r.octets) = (n + 1) + 1 /\ r.label \in 1 .. (n + 1) + 1
         /\ r.count = (n + 1) + 1 - r.label
         /\ r.label - 1 = n + 1
         /\ r.label .. n + 1 = {}
    BY <1>0, <2>4, <2>5
  <2>. QED BY <2>5, <2>6, <2>7, <2>8, <2>9, <2>10 DEF Partial, r
<1>. QED BY <1>2, <1>3

\* A name that a uint8_t can count is turned into its labels, each behind its length
LEMMA QueryNameIs ==
  ASSUME NEW d \in Seq(DOMAIN Code), Len(d) < OctetModulus
  PROVE  /\ Rooted(d) \in Seq(DOMAIN Code) /\ Len(Rooted(d)) \in Nat \ {0}
         /\ Rooted(d)[Len(Rooted(d))] = "."
         /\ NameOctets(QueryName(d), Rooted(d))
<1> DEFINE n == Len(d)
<1>0. n \in Nat /\ OctetModulus \in Nat \ {0} /\ "." \in DOMAIN Code
  BY QueryAssumption
<1>1. PICK after : /\ \A m \in 0 .. n :
                        after[m] = IF m = 0 THEN QueryStart ELSE NameStep(after[m - 1], d[m])
                   /\ Labelled(d) = after[n]
  BY LabelledRun
<1> DEFINE S == {m \in Nat : m <= n => Partial(after[m], d, m)}
<1>2. 0 \in S
  <2>1. after[0] = QueryStart
    BY <1>0, <1>1
  <2>2. Partial(QueryStart, d, 0)
    <3>1. QueryStart \in [octets : Seq(Int), label : Nat, count : Nat]
      BY DEF QueryStart, Unset
    <3>. QED BY <3>1 DEF Partial, QueryStart, Begins
  <2>. QED BY <2>1, <2>2
<1>3. ASSUME NEW m \in Nat, m \in S
      PROVE  m + 1 \in S
  <2>1. SUFFICES ASSUME m + 1 <= n PROVE Partial(after[m + 1], d, m + 1)
    OBVIOUS
  <2>2. m \in 0 .. n - 1 /\ m + 1 \in 0 .. n /\ (m + 1) - 1 = m /\ m + 1 # 0 /\ m <= n
    BY <1>0, <2>1
  <2>3. after[m + 1] = NameStep(after[m], d[m + 1])
    BY <1>1, <2>2
  <2>4. Partial(after[m], d, m)
    BY <1>3, <2>2
  <2> HIDE DEF S
  <2>. QED BY <2>2, <2>3, <2>4, PartialStep
<1> DEFINE q == Labelled(d)
<1>4. Partial(q, d, n)
  <2>1. n \in S
    <3> HIDE DEF S
    <3>. QED BY <1>0, <1>2, <1>3, Induction
  <2>. QED BY <1>0, <1>1, <2>1
<1> HIDE DEF q
<1>5. /\ q.octets \in Seq(Int) /\ q.label \in Nat /\ q.count \in Nat
      /\ Len(q.octets) = n + 1
      /\ q.label \in 1 .. n + 1
      /\ q.count = n + 1 - q.label
      /\ Begins(d, q.label)
      /\ \A i \in q.label .. n : d[i] # "."
      /\ \A i \in 1 .. n : d[i] # "." => q.octets[i + 1] = Code[d[i]]
      /\ \A h \in 1 .. q.label - 1 :
           Begins(d, h) => LengthAt(q.octets, d, h) /\ h + q.octets[h] < q.label
  BY <1>4 DEF Partial
<1>6. CASE EndsInDot(d)
  <2> DEFINE N == [q.octets EXCEPT ![q.label] = q.count]
  <2>1. QueryName(d) = N /\ Rooted(d) = d /\ n # 0 /\ d[n] = "."
    BY <1>6 DEF QueryName, Rooted, EndsInDot, q
  <2>2. q.label = n + 1 /\ q.count = 0
    BY <1>0, <1>5, <2>1
  <2>3. /\ N \in Seq(Int) /\ Len(N) = n + 1
        /\ \A i \in 1 .. n : N[i] = q.octets[i]
        /\ N[n + 1] = 0
    BY <1>0, <1>5, <2>2, ExceptSeq
  <2> HIDE DEF N
  <2>4. ASSUME NEW i \in 1 .. n, d[i] # "."
        PROVE  N[i + 1] = Code[d[i]]
    <3>1. i # n /\ i + 1 \in 1 .. n
      BY <1>0, <2>1, <2>4
    <3>. QED BY <1>5, <2>3, <2>4, <3>1
  <2>5. ASSUME NEW h \in 1 .. n, Begins(d, h)
        PROVE  LengthAt(N, d, h)
    <3>1. h \in 1 .. q.label - 1 /\ N[h] = q.octets[h]
      BY <1>0, <2>2, <2>3
    <3>. QED BY <1>5, <2>5, <3>1 DEF LengthAt
  <2>6. NameOctets(N, d)
    BY <2>3, <2>4, <2>5 DEF NameOctets
  <2>. QED BY <1>0, <2>1, <2>6
<1>7. CASE ~EndsInDot(d)
  <2> DEFINE a == Append(q.octets, 0)
             N == [a EXCEPT ![q.label] = q.count]
             R == Append(d, ".")
  <2>1. QueryName(d) = N /\ Rooted(d) = R
    BY <1>7 DEF QueryName, Rooted, q
  <2>2. /\ a \in Seq(Int) /\ Len(a) = n + 2
        /\ \A i \in 1 .. n + 1 : a[i] = q.octets[i]
        /\ a[n + 2] = 0
    BY <1>0, <1>5, AppendProperties
  <2> HIDE DEF a
  <2>3. /\ N \in Seq(Int) /\ Len(N) = n + 2
        /\ \A i \in 1 .. n + 1 : N[i] = IF i = q.label THEN q.count ELSE q.octets[i]
        /\ N[n + 2] = 0
    BY <1>0, <1>5, <2>2, ExceptSeq
  <2>4. /\ R \in Seq(DOMAIN Code) /\ Len(R) = n + 1
        /\ \A i \in 1 .. n : R[i] = d[i]
        /\ R[n + 1] = "."
    BY <1>0, AppendProperties
  <2> HIDE DEF N, R
  <2>5. ASSUME NEW i \in 1 .. n + 1, R[i] # "."
        PROVE  N[i + 1] = Code[R[i]]
    <3>1. i # n + 1 /\ i \in 1 .. n /\ i + 1 \in 1 .. n + 1 /\ R[i] = d[i]
      BY <1>0, <2>4, <2>5
    <3>2. i + 1 # q.label
      <4>1. SUFFICES ASSUME i + 1 = q.label PROVE FALSE
        OBVIOUS
      <4>2. q.label # 1 /\ q.label - 1 = i
        BY <1>0, <3>1, <4>1
      <4>. QED BY <1>5, <2>5, <3>1, <4>2 DEF Begins
    <3>. QED BY <1>5, <2>3, <2>5, <3>1, <3>2
  <2>6. ASSUME NEW h \in 1 .. n + 1, Begins(R, h)
        PROVE  LengthAt(N, R, h)
    <3>0. Begins(d, h)
      <4>1. h # 1 => h - 1 \in 1 .. n
        BY <1>0
      <4>. QED BY <2>4, <2>6, <4>1 DEF Begins
    <3>1. CASE h < q.label
      <4>1. h \in 1 .. q.label - 1 /\ N[h] = q.octets[h]
        BY <1>0, <1>5, <2>3, <3>1
      <4>2. LengthAt(q.octets, d, h) /\ h + q.octets[h] < q.label
        BY <1>5, <3>0, <4>1
      <4>3. /\ N[h] \in Nat /\ h + N[h] <= n /\ d[h + N[h]] = "."
            /\ \A i \in h .. h + N[h] - 1 : d[i] # "."
        BY <4>1, <4>2 DEF LengthAt
      <4>4. h + N[h] \in 1 .. n /\ \A i \in h .. h + N[h] - 1 : i \in 1 .. n
        BY <1>0, <4>3
      <4>5. h + N[h] <= Len(R)
        BY <1>0, <2>4, <4>3
      <4>. QED BY <2>4, <4>3, <4>4, <4>5 DEF LengthAt
    <3>2. CASE h = q.label
      <4>1. N[h] = n + 1 - h
        BY <1>5, <2>3, <3>2
      <4>2. N[h] \in Nat /\ h + N[h] = n + 1
        BY <1>0, <1>5, <3>2, <4>1
      <4>3. ASSUME NEW i \in h .. n
            PROVE  R[i] # "."
        <5>1. i \in 1 .. n /\ i \in q.label .. n
          BY <1>0, <3>2
        <5>. QED BY <1>5, <2>4, <5>1
      <4>. QED BY <1>0, <2>4, <4>2, <4>3 DEF LengthAt
    <3>3. CASE h > q.label
      <4>1. h # 1 /\ h - 1 \in q.label .. n
        BY <1>0, <1>5, <3>3
      <4>. QED BY <1>5, <3>0, <4>1 DEF Begins
    <3>. QED BY <1>0, <1>5, <3>1, <3>2, <3>3
  <2>7. NameOctets(N, R)
    BY <2>3, <2>4, <2>5, <2>6 DEF NameOctets
  <2>. QED BY <1>0, <2>1, <2>4, <2>7
<1>. QED BY <1>6, <1>7

\* A bounded set of numbers has a greatest one
LEMMA Greatest ==
  ASSUME NEW T \in SUBSET Nat, T # {}, NEW b \in Nat, \A n \in T : n <= b
  PROVE  \E n \in T : \A m \in T : m <= n
<1> DEFINE U == {n \in Nat : \A m \in T : m <= n}
<1>1. b \in U
  OBVIOUS
<1>2. PICK n \in U : \A m \in U : n <= m
  <2> HIDE DEF U
  <2>1. U \in SUBSET Nat /\ U # {}
    BY <1>1 DEF U
  <2>. QED BY <2>1, Least
<1>3. n \in T
  <2>1. SUFFICES ASSUME n \notin T PROVE FALSE
    OBVIOUS
  <2>2. PICK m \in T : TRUE
    OBVIOUS
  <2>3. n # 0
    BY <2>1, <2>2
  <2>4. n - 1 \in U
    BY <2>1, <2>3
  <2>. QED BY <1>2, <2>4
<1>. QED BY <1>3

\* A place of a name belongs to a label
LEMMA LabelOf ==
  ASSUME NEW R, NEW i \in Nat \ {0}
  PROVE  \E h \in 1 .. i : Begins(R, h) /\ \A k \in h .. i - 1 : R[k] # "."
<1> DEFINE T == {h \in 1 .. i : Begins(R, h)}
<1>1. 1 \in T
  BY DEF Begins
<1>2. PICK h \in T : \A m \in T : m <= h
  <2>1. T \in SUBSET Nat /\ T # {} /\ \A n \in T : n <= i
    BY <1>1
  <2> HIDE DEF T
  <2>. QED BY <2>1, Greatest
<1>3. ASSUME NEW k \in h .. i - 1, R[k] = "."
      PROVE  FALSE
  <2>1. k + 1 \in 1 .. i /\ k + 1 > h /\ (k + 1) - 1 = k
    OBVIOUS
  <2>2. k + 1 \in T
    BY <1>3, <2>1 DEF Begins
  <2>. QED BY <1>2, <2>1, <2>2
<1>. QED BY <1>3

\* A resolver finds the labels of a name where they begin
LEMMA BeginsAre ==
  ASSUME NEW N, NEW R, NEW L \in Nat \ {0}, Len(R) = L, NameOctets(N, R)
  PROVE  \A k \in 1 .. L + 1 : k \in LabelStarts(N) <=> Begins(R, k)
<1> DEFINE T == LabelStarts(N)
           S == {m \in Nat : \A k \in 1 .. L + 1 : k <= m => (k \in T <=> Begins(R, k))}
<1>1. \A h \in 1 .. L : Begins(R, h) =>
        /\ N[h] \in Nat
        /\ h + N[h] <= L
        /\ R[h + N[h]] = "."
        /\ \A i \in h .. h + N[h] - 1 : R[i] # "."
  BY DEF NameOctets, LengthAt
<1>2. /\ T \subseteq 1 .. L + 1
      /\ \A k \in 1 .. L + 1 : k \in T <=> k = 1 \/ \E j \in T : j < k /\ j + N[j] + 1 = k
  <2>1. L + 1 \in Nat /\ Len(N) = L + 1
    BY DEF NameOctets
  <2>. QED BY <2>1, StartsAre
<1> HIDE DEF T
<1>3. 0 \in S
  OBVIOUS
<1>4. ASSUME NEW m \in Nat, m \in S
      PROVE  m + 1 \in S
  <2>0. \A k \in 1 .. L + 1 : k <= m => (k \in T <=> Begins(R, k))
    BY <1>4
  <2>1. ASSUME NEW k \in 1 .. L + 1, k <= m + 1, k \in T
        PROVE  Begins(R, k)
    <3>1. CASE k = 1
      BY <3>1 DEF Begins
    <3>2. CASE k # 1
      <4>1. PICK j \in T : j < k /\ j + N[j] + 1 = k
        BY <1>2, <2>1, <3>2
      <4>2. j \in 1 .. L + 1 /\ j <= m /\ j \in 1 .. L
        BY <1>2, <2>1, <4>1
      <4>3. Begins(R, j)
        BY <2>0, <4>2
      <4>4. N[j] \in Nat /\ R[j + N[j]] = "."
        BY <1>1, <4>2, <4>3
      <4>5. k - 1 = j + N[j]
        BY <4>1, <4>2, <4>4
      <4>. QED BY <4>4, <4>5 DEF Begins
    <3>. QED BY <3>1, <3>2
  <2>2. ASSUME NEW k \in 1 .. L + 1, k <= m + 1, Begins(R, k)
        PROVE  k \in T
    <3>1. CASE k = 1
      BY <1>2, <3>1
    <3>2. CASE k # 1
      <4>1. k - 1 \in Nat \ {0} /\ k - 1 <= m /\ k - 1 \in 1 .. L /\ R[k - 1] = "."
        BY <2>2, <3>2 DEF Begins
      <4>2. PICK j \in 1 .. k - 1 : Begins(R, j) /\ \A i \in j .. (k - 1) - 1 : R[i] # "."
        BY <4>1, LabelOf
      <4>3. j \in 1 .. L /\ j \in 1 .. L + 1 /\ j <= m /\ j < k
        BY <4>1, <4>2
      <4>4. /\ N[j] \in Nat
            /\ R[j + N[j]] = "."
            /\ \A i \in j .. j + N[j] - 1 : R[i] # "."
        BY <1>1, <4>2, <4>3
      <4>5. ~ (j + N[j] < k - 1)
        <5>1. j + N[j] < k - 1 => j + N[j] \in j .. (k - 1) - 1
          BY <4>1, <4>3, <4>4
        <5>. QED BY <4>2, <4>4, <5>1
      <4>6. ~ (j + N[j] > k - 1)
        <5>1. j + N[j] > k - 1 => k - 1 \in j .. j + N[j] - 1
          BY <4>1, <4>3, <4>4
        <5>. QED BY <4>1, <4>4, <5>1
      <4>7. j + N[j] + 1 = k
        BY <4>1, <4>3, <4>4, <4>5, <4>6
      <4>8. j \in T
        BY <2>0, <4>2, <4>3
      <4>. QED BY <1>2, <4>3, <4>7, <4>8
    <3>. QED BY <3>1, <3>2
  <2>. QED BY <2>1, <2>2
<1>5. Nat \subseteq S
  <2> HIDE DEF S
  <2>. QED BY <1>3, <1>4, Induction
<1>6. L + 1 \in S
  BY <1>5
<1>. QED BY <1>6 DEF T

\* The labels of a host fit exactly if it is a name
LEMMA FitIffName ==
  ASSUME NEW d \in Seq(DOMAIN Code), NEW N,
         Rooted(d) \in Seq(DOMAIN Code), Len(Rooted(d)) \in Nat \ {0},
         Rooted(d)[Len(Rooted(d))] = ".", NameOctets(N, Rooted(d))
  PROVE  LabelsFit(N) <=> IsName(d)
<1> DEFINE R == Rooted(d)
           L == Len(R)
           n == Len(d)
           T == LabelStarts(N)
<1>0. n \in Nat /\ MaxLabel \in Nat \ {0}
  BY QueryAssumption
<1>1. /\ L \in Nat \ {0} /\ L <= n + 1 /\ n <= L
      /\ \A i \in 1 .. n : R[i] = d[i]
      /\ L = n + 1 => ~EndsInDot(d)
      /\ n = 0 => R[1] = "."
  <2>1. CASE EndsInDot(d)
    BY <2>1, <1>0 DEF Rooted, EndsInDot
  <2>2. CASE ~EndsInDot(d)
    <3>1. "." \in DOMAIN Code
      BY QueryAssumption
    <3>2. R = Append(d, ".")
      BY <2>2 DEF Rooted
    <3>. QED BY <1>0, <2>2, <3>1, <3>2, AppendProperties
  <2>. QED BY <2>1, <2>2
<1>2. \A h \in 1 .. L : Begins(R, h) =>
        /\ N[h] \in Nat
        /\ h + N[h] <= L
        /\ R[h + N[h]] = "."
        /\ \A i \in h .. h + N[h] - 1 : R[i] # "."
  BY DEF NameOctets, LengthAt
<1>3. Len(N) = L + 1 /\ N[L + 1] = 0 /\ N # <<>>
  BY <1>1 DEF NameOctets
<1>4. T \subseteq 1 .. L + 1 /\ \A k \in 1 .. L + 1 : k \in T <=> Begins(R, k)
  <2>1. L + 1 \in Nat
    BY <1>1
  <2>. QED BY <1>1, <1>3, <2>1, BeginsAre, StartsAre
<1> HIDE DEF R, L, T
<1>5. LabelsFit(N) <=> \A k \in 1 .. L : Begins(R, k) => N[k] \in 1 .. MaxLabel
  <2>1. LabelsFit(N) <=>
          \A k \in T : (k = L + 1 /\ N[k] = 0) \/ (N[k] \in 1 .. MaxLabel /\ k + N[k] < L + 1)
    BY <1>3 DEF LabelsFit, T
  <2>2. ASSUME NEW k \in T
        PROVE  k = L + 1 \/ (k \in 1 .. L /\ Begins(R, k) /\ k # L + 1)
    BY <1>1, <1>4
  <2>3. ASSUME NEW k \in 1 .. L, Begins(R, k)
        PROVE  k \in T /\ k # L + 1 /\ (N[k] \in 1 .. MaxLabel => k + N[k] < L + 1)
    <3>1. k \in 1 .. L + 1 /\ k # L + 1
      BY <1>1
    <3>2. N[k] \in Nat /\ k + N[k] <= L
      BY <1>2, <2>3
    <3>. QED BY <1>1, <1>4, <2>3, <3>1, <3>2
  <2>. QED BY <1>3, <2>1, <2>2, <2>3
<1>6. ASSUME IsName(d), NEW k \in 1 .. L, Begins(R, k)
      PROVE  N[k] \in 1 .. MaxLabel
  <2>0. /\ d # <<>>
        /\ \A i \in 1 .. n : d[i] = "." => i > 1 /\ d[i - 1] # "."
        /\ \A i \in 1 .. n - MaxLabel : \E j \in i .. i + MaxLabel : d[j] = "."
    BY <1>6 DEF IsName
  <2>1. /\ N[k] \in Nat /\ k + N[k] <= L /\ R[k + N[k]] = "."
        /\ \A i \in k .. k + N[k] - 1 : R[i] # "."
    BY <1>2, <1>6
  <2>2. R[k] # "." \/ k > n
    <3>1. SUFFICES ASSUME k <= n, R[k] = "." PROVE FALSE
      BY <1>0, <1>1
    <3>2. k \in 1 .. n /\ d[k] = "."
      BY <1>0, <1>1, <3>1
    <3>3. k > 1 /\ d[k - 1] # "." /\ k - 1 \in 1 .. n
      BY <1>0, <2>0, <3>2
    <3>. QED BY <1>1, <1>6, <3>3 DEF Begins
  <2>3. k <= n
    <3>1. SUFFICES ASSUME k > n PROVE FALSE
      BY <1>0
    <3>2. k = n + 1 /\ L = n + 1
      BY <1>0, <1>1, <3>1
    <3>3. n # 0
      BY <2>0, EmptySeq
    <3>4. d[n] = "."
      <4>1. R[k - 1] = "." /\ k - 1 = n /\ n \in 1 .. n
        BY <1>0, <1>6, <3>2, <3>3 DEF Begins
      <4>. QED BY <1>1, <4>1
    <3>. QED BY <1>1, <2>0, <3>2, <3>4 DEF EndsInDot
  <2>4. N[k] # 0
    <3>1. N[k] = 0 => k + N[k] = k
      OBVIOUS
    <3>. QED BY <1>0, <2>1, <2>2, <2>3, <3>1
  <2>5. N[k] <= MaxLabel
    <3>1. SUFFICES ASSUME N[k] > MaxLabel PROVE FALSE
      BY <1>0, <2>1
    <3>2. k \in 1 .. n - MaxLabel
      BY <1>0, <1>1, <2>1, <3>1
    <3>3. PICK j \in k .. k + MaxLabel : d[j] = "."
      BY <2>0, <3>2
    <3>4. j \in 1 .. n /\ j \in k .. k + N[k] - 1
      BY <1>0, <2>1, <3>1, <3>2
    <3>. QED BY <1>1, <2>1, <3>3, <3>4
  <2>. QED BY <1>0, <2>1, <2>4, <2>5
<1>7. ASSUME ~IsName(d)
      PROVE  \E k \in 1 .. L : Begins(R, k) /\ N[k] \notin 1 .. MaxLabel
  <2>1. ASSUME NEW k \in 1 .. L, Begins(R, k), R[k] = "."
        PROVE  N[k] \notin 1 .. MaxLabel
    <3>1. N[k] \in Nat /\ \A i \in k .. k + N[k] - 1 : R[i] # "."
      BY <1>2, <2>1
    <3>2. N[k] \in 1 .. MaxLabel => k \in k .. k + N[k] - 1
      BY <1>0, <3>1
    <3>. QED BY <2>1, <3>1, <3>2
  <2>2. CASE d = <<>>
    <3>1. n = 0 /\ 1 \in 1 .. L /\ Begins(R, 1)
      BY <1>1, <2>2 DEF Begins
    <3>. QED BY <1>1, <2>1, <3>1
  <2>3. CASE \E i \in 1 .. n : d[i] = "." /\ ~(i > 1 /\ d[i - 1] # ".")
    <3>1. PICK i \in 1 .. n : d[i] = "." /\ ~(i > 1 /\ d[i - 1] # ".")
      BY <2>3
    <3>2. i \in 1 .. L /\ R[i] = "."
      BY <1>0, <1>1, <3>1
    <3>3. Begins(R, i)
      <4>1. i = 1 \/ (i > 1 /\ i - 1 \in 1 .. n)
        BY <1>0
      <4>. QED BY <1>1, <3>1, <4>1 DEF Begins
    <3>. QED BY <2>1, <3>2, <3>3
  <2>4. CASE \E i \in 1 .. n - MaxLabel : \A j \in i .. i + MaxLabel : d[j] # "."
    <3>1. PICK i \in 1 .. n - MaxLabel : \A j \in i .. i + MaxLabel : d[j] # "."
      BY <2>4
    <3>2. i \in Nat \ {0} /\ i + MaxLabel <= n
      BY <1>0
    <3>3. PICK h \in 1 .. i : Begins(R, h) /\ \A k \in h .. i - 1 : R[k] # "."
      BY <3>2, LabelOf
    <3>4. h \in 1 .. L
      BY <1>0, <1>1, <3>2
    <3>5. N[h] \in Nat /\ R[h + N[h]] = "."
      BY <1>2, <3>3, <3>4
    <3>6. ASSUME N[h] <= MaxLabel
          PROVE  FALSE
      <4>1. h + N[h] \in h .. i - 1 \/ (h + N[h] \in i .. i + MaxLabel /\ h + N[h] \in 1 .. n)
        BY <1>0, <3>2, <3>5, <3>6
      <4>. QED BY <1>1, <3>1, <3>3, <3>5, <4>1
    <3>. QED BY <1>0, <3>3, <3>4, <3>5, <3>6
  <2>. QED BY <1>7, <2>2, <2>3, <2>4 DEF IsName
<1>. QED BY <1>5, <1>6, <1>7

\* The elements of a concatenation
LEMMA ConcatIs ==
  ASSUME NEW S, NEW s \in Seq(S), NEW t \in Seq(S)
  PROVE  /\ s \o t \in Seq(S)
         /\ Len(s \o t) = Len(s) + Len(t)
         /\ \A i \in 1 .. Len(s) : (s \o t)[i] = s[i]
         /\ \A i \in 1 .. Len(t) : (s \o t)[Len(s) + i] = t[i]
BY ConcatProperties

\* A remainder is the number itself if that is small enough
LEMMA Remainder ==
  ASSUME NEW x \in Nat, NEW m \in Nat \ {0}
  PROVE  /\ x % m \in 0 .. m - 1
         /\ x % m = x <=> x < m
OBVIOUS

\* The middle one of three sequences
LEMMA MiddleOf ==
  ASSUME NEW S, NEW s \in Seq(S), NEW t \in Seq(S), NEW u \in Seq(S)
  PROVE  /\ s \o t \o u \in Seq(S)
         /\ Len(s \o t \o u) = Len(s) + Len(t) + Len(u)
         /\ SubSeq(s \o t \o u, Len(s) + 1, Len(s) + Len(t)) = t
<1> DEFINE v == s \o t
           w == v \o u
           A == SubSeq(w, Len(s) + 1, Len(s) + Len(t))
<1>0. Len(s) \in Nat /\ Len(t) \in Nat /\ Len(u) \in Nat
  OBVIOUS
<1>1. /\ v \in Seq(S) /\ Len(v) = Len(s) + Len(t)
      /\ \A i \in 1 .. Len(t) : v[Len(s) + i] = t[i]
  BY ConcatIs
<1>11. v \in Seq(S)
  BY <1>1
<1> HIDE DEF v
<1>2. /\ w \in Seq(S) /\ Len(w) = Len(v) + Len(u)
      /\ \A i \in 1 .. Len(v) : w[i] = v[i]
  BY <1>11, ConcatIs
<1> HIDE DEF w
<1>3. A \in Seq(S) /\ Len(A) = Len(t) /\ \A i \in 1 .. Len(t) : A[i] = w[Len(s) + i]
  <2>1. Len(s) + 1 \in 1 .. Len(w) + 1 /\ Len(s) + Len(t) \in (Len(s) + 1) - 1 .. Len(w)
    BY <1>0, <1>1, <1>2
  <2>2. A \in Seq(S) /\ Len(A) = Len(t)
    BY <1>0, <1>2, <2>1, SubSeqProperties
  <2>3. ASSUME NEW i \in 1 .. Len(t)
        PROVE  A[i] = w[Len(s) + i]
    BY <1>0, <1>1, <1>2, <2>2, SMT
  <2>. QED BY <2>2, <2>3
<1> HIDE DEF A
<1>4. ASSUME NEW i \in 1 .. Len(t)
      PROVE  A[i] = t[i]
  <2>1. Len(s) + i \in 1 .. Len(v)
    BY <1>0, <1>1
  <2>. QED BY <1>1, <1>2, <1>3, <2>1
<1>5. A = t
  BY <1>3, <1>4, SeqEqual
<1>. QED BY <1>1, <1>2, <1>5 DEF A, w, v

\* The octets of a name in the body of a query are what the resolver takes for it
LEMMA AskedIs ==
  ASSUME NEW N \in Seq(Int), NEW t \in Int, Len(N) >= 1
  PROVE  LET body == QueryHeader \o N \o <<0, t, 0, 1>>
         IN /\ body \in Seq(Int)
            /\ Len(body) = Len(N) + 16
            /\ AskedName(body, Len(body)) = N
<1> DEFINE H == QueryHeader
           E == <<0, t, 0, 1>>
           body == H \o N \o E
<1>1. H \in Seq(Int) /\ Len(H) = 12 /\ E \in Seq(Int) /\ Len(E) = 4 /\ Len(N) \in Nat
  BY DEF QueryHeader
<1> HIDE DEF H, E
<1>2. /\ body \in Seq(Int)
      /\ Len(body) = Len(H) + Len(N) + Len(E)
      /\ SubSeq(body, Len(H) + 1, Len(H) + Len(N)) = N
  <2>1. H \in Seq(Int) /\ E \in Seq(Int)
    BY <1>1
  <2>. QED BY <2>1, MiddleOf
<1> HIDE DEF body
<1>3. /\ ~(Len(body) < Len(H) + 5) /\ ~(Len(body) > Len(body))
      /\ Len(body) - 4 = Len(H) + Len(N) /\ Len(body) = Len(N) + 16
  BY <1>1, <1>2
<1>4. AskedName(body, Len(body)) = N
  BY <1>2, <1>3 DEF AskedName, H
<1>. QED BY <1>2, <1>3, <1>4 DEF body, H, E

\* What the resolver reads of a name's octets
LEMMA SpelledIs ==
  ASSUME NEW N, NEW R \in Seq(DOMAIN Code), NEW L \in Nat \ {0}, Len(R) = L,
         NameOctets(N, R), LabelsFit(N)
  PROVE  Spelled(N) = [i \in 1 .. L |-> Code[R[i]]]
<1>1. Len(N) = L + 1 /\ Len(N) - 1 = L
  BY DEF NameOctets
<1>2. ASSUME NEW i \in 1 .. L
      PROVE  (IF i + 1 \in LabelStarts(N) THEN Code["."] ELSE N[i + 1]) = Code[R[i]]
  <2>1. i + 1 \in 1 .. L + 1 /\ (i + 1) - 1 = i /\ i + 1 # 1
    OBVIOUS
  <2>2. i + 1 \in LabelStarts(N) <=> Begins(R, i + 1)
    BY <2>1, BeginsAre
  <2>3. Begins(R, i + 1) <=> R[i] = "."
    BY <2>1 DEF Begins
  <2>4. R[i] # "." => N[i + 1] = Code[R[i]]
    BY DEF NameOctets
  <2>. QED BY <2>2, <2>3, <2>4, Zenon
<1>. QED BY <1>1, <1>2 DEF Spelled

\* A sequence of one element
LEMMA OneElement ==
  ASSUME NEW S, NEW s \in Seq(S), Len(s) = 1
  PROVE  s = <<s[1]>>
<1>1. s[1] \in S
  OBVIOUS
<1> DEFINE a == s[1]
<1> HIDE DEF a
<1>2. <<a>> \in Seq({a}) /\ Len(<<a>>) = 1 /\ <<a>>[1] = a
  OBVIOUS
<1> DEFINE r == <<a>>
<1> HIDE DEF r
<1>3. r \in Seq(S) /\ Len(r) = 1 /\ r[1] = a
  BY <1>1, <1>2 DEF r, a
<1>4. \A i \in 1 .. Len(s) : s[i] = r[i]
  BY <1>3 DEF a
<1>5. s = r
  BY <1>3, <1>4, SeqEqual
<1>. QED BY <1>5 DEF r, a

\* The first label of a name begins it
LEMMA FirstStarts ==
  ASSUME NEW o, NEW n \in Nat, n >= 1, Len(o) = n
  PROVE  1 \in LabelStarts(o)
<1>1. 1 \in 1 .. n
  OBVIOUS
<1>2. \A k \in 1 .. n :
        k \in LabelStarts(o) <=>
          k = 1 \/ \E j \in LabelStarts(o) : j < k /\ j + o[j] + 1 = k
  BY StartsAre
<1>. QED BY <1>1, <1>2, Zenon

\* What of a query is announced short is nothing that a resolver reads as a name
LEMMA ShortIsNoName ==
  ASSUME NEW N \in Seq(Int), NEW t \in Int, Len(N) >= 1, NEW length \in Nat, length <= 17
  PROVE  LET read == Spelled(AskedName(QueryHeader \o N \o <<0, t, 0, 1>>, length))
         IN read = Malformed \/ (read = <<>> /\ N[1] = 0)
<1> DEFINE H == QueryHeader
           E == <<0, t, 0, 1>>
           v == H \o N
           body == v \o E
           name == AskedName(body, length)
<1>1. H \in Seq(Int) /\ Len(H) = 12 /\ E \in Seq(Int) /\ Len(N) \in Nat
  BY DEF QueryHeader
<1> HIDE DEF H, E
<1>2. v \in Seq(Int) /\ Len(v) = 12 + Len(N) /\ v[12 + 1] = N[1]
  <2>1. /\ v \in Seq(Int) /\ Len(v) = Len(H) + Len(N)
        /\ \A i \in 1 .. Len(N) : v[Len(H) + i] = N[i]
    <3>1. H \in Seq(Int) /\ N \in Seq(Int)
      BY <1>1
    <3>. QED BY <3>1, ConcatIs
  <2>2. 1 \in 1 .. Len(N)
    BY <1>1
  <2>. QED BY <1>1, <2>1, <2>2
<1> HIDE DEF v
<1>3. body \in Seq(Int) /\ body[13] = N[1] /\ Len(body) \in Nat /\ Len(body) >= 13
  <2>1. /\ body \in Seq(Int) /\ Len(body) = Len(v) + Len(E)
        /\ \A i \in 1 .. Len(v) : body[i] = v[i]
    <3>1. v \in Seq(Int) /\ E \in Seq(Int)
      BY <1>1, <1>2
    <3>. QED BY <3>1, ConcatIs
  <2>2. 13 \in 1 .. Len(v) /\ Len(E) \in Nat
    BY <1>1, <1>2
  <2>. QED BY <1>1, <1>2, <2>1, <2>2
<1> HIDE DEF body
<1>4. Spelled(Malformed) = Malformed
  <2>1. Len(<<-1>>) = 1
    OBVIOUS
  <2>2. 1 \in LabelStarts(<<-1>>)
    BY <2>1, FirstStarts
  <2>3. ~LabelsFit(<<-1>>)
    <3>1. <<-1>>[1] = -1 /\ -1 # 0 /\ -1 \notin 1 .. MaxLabel
      BY QueryAssumption
    <3>. QED BY <2>2, <3>1 DEF LabelsFit
  <2>. QED BY <2>3 DEF Spelled, Malformed, Unset
<1>5. name = Malformed \/ name = <<N[1]>>
  <2>1. CASE length < 17 \/ length > Len(body)
    BY <1>1, <2>1 DEF AskedName, H
  <2>2. CASE length = 17 /\ ~(length > Len(body))
    <3>1. name = SubSeq(body, 13, 13)
      BY <1>1, <2>2 DEF AskedName, H
    <3>2. SubSeq(body, 13, 13) = <<body[13]>>
      <4> DEFINE s == SubSeq(body, 13, 13)
      <4>1. 13 \in 1 .. Len(body) + 1 /\ 13 \in 12 .. Len(body)
        BY <1>3
      <4>2. s \in Seq(Int) /\ Len(s) = 1 /\ s[1] = body[13]
        BY <1>3, <4>1, SubSeqProperties
      <4> HIDE DEF s
      <4>3. s = <<s[1]>>
        BY <4>2, OneElement
      <4>. QED BY <4>2, <4>3, Zenon DEF s
    <3>. QED BY <1>3, <3>1, <3>2
  <2>. QED BY <2>1, <2>2
<1>6. CASE name = Malformed
  BY <1>4, <1>6 DEF body, v, H, E
<1>7. CASE name = <<N[1]>>
  <2>1. N[1] \in Int
    BY <1>1
  <2> DEFINE o == <<N[1]>>
  <2>2. Len(o) = 1 /\ o[1] = N[1]
    OBVIOUS
  <2> HIDE DEF o
  <2>3. 1 \in LabelStarts(o)
    <3>1. 1 \in Nat /\ 1 >= 1 /\ Len(o) = 1
      BY <2>2
    <3>. QED BY <3>1, FirstStarts
  <2>4. LabelsFit(o) => N[1] = 0
    <3>1. ASSUME o[1] \in 1 .. MaxLabel /\ 1 + o[1] < Len(o)
          PROVE  FALSE
      BY <2>2, <3>1, QueryAssumption
    <3>. QED BY <2>2, <2>3, <3>1 DEF LabelsFit
  <2>5. CASE LabelsFit(o)
    <3>1. Spelled(o) = [i \in 1 .. Len(o) - 1 |->
                          IF i + 1 \in LabelStarts(o) THEN Code["."] ELSE o[i + 1]]
      BY <2>5 DEF Spelled
    <3>2. Spelled(o) = <<>>
      BY <2>2, <3>1
    <3>. QED BY <1>7, <2>4, <2>5, <3>2 DEF o, body, v, H, E
  <2>6. CASE ~LabelsFit(o)
    <3>1. Spelled(o) = Malformed
      BY <2>6 DEF Spelled
    <3>. QED BY <1>7, <3>1 DEF o, body, v, H, E
  <2>. QED BY <2>5, <2>6
<1>. QED BY <1>5, <1>6, <1>7

\* The first octet of the labels of a name is a length
LEMMA FirstOfName ==
  ASSUME NEW N, LabelsFit(N), Len(N) \in Nat, Len(N) >= 2
  PROVE  N[1] # 0
<1>1. 1 \in LabelStarts(N)
  <2> DEFINE n == Len(N)
  <2>1. n \in Nat /\ n >= 1 /\ Len(N) = n
    OBVIOUS
  <2> HIDE DEF n
  <2>. QED BY <2>1, FirstStarts
<1>2. 1 # Len(N)
  <2> DEFINE n == Len(N)
  <2>1. n \in Nat /\ n >= 2
    OBVIOUS
  <2> HIDE DEF n
  <2>2. 1 # n
    BY <2>1
  <2>. QED BY <2>2 DEF n
<1>3. N[1] \in 1 .. MaxLabel
  BY <1>1, <1>2 DEF LabelsFit
<1>. QED BY <1>3, QueryAssumption

\* What a uint8_t counts of a number a little too large
LEMMA AnnouncedShort ==
  ASSUME NEW x \in Nat, NEW m \in Nat \ {0}, ~(x < m), x <= m + 17
  PROVE  x % m \in Nat /\ x % m <= 17
<1>1. x % m \in 0 .. m - 1 /\ x = (m * (x \div m)) + (x % m) /\ x \div m \in Nat
  OBVIOUS
<1>2. x \div m >= 1
  <2>1. CASE x \div m = 0
    BY <1>1, <2>1
  <2>2. CASE x \div m # 0
    BY <1>1, <2>2
  <2>. QED BY <2>1, <2>2
<1>3. m * (x \div m) >= m
  BY <1>1, <1>2
<1>. QED BY <1>1, <1>3

\* build_doh_request: the query for a host of fewer characters than a uint8_t counts
\* asks for that host, or for no name
LEMMA QueryAsksForHost ==
  ASSUME NEW d \in Seq(DOMAIN Code), Len(d) < OctetModulus, NEW type \in {"A", "AAAA"}
  PROVE  /\ AsksForHost(d, BuildDohRequest(d, type))
         /\ BuildDohRequest(d, type).body \in Seq(Int)
         /\ BuildDohRequest(d, type).content_length \in 0 .. OctetModulus - 1
<1> DEFINE N == QueryName(d)
           R == Rooted(d)
           q == BuildDohRequest(d, type)
           t == TypeCode[type]
<1>1. /\ R \in Seq(DOMAIN Code) /\ Len(R) \in Nat \ {0}
      /\ R[Len(R)] = "." /\ NameOctets(N, R)
  BY QueryNameIs
<1>2. LabelsFit(N) <=> IsName(d)
  BY <1>1, FitIffName
<1>3. N \in Seq(Int) /\ Len(N) = Len(R) + 1 /\ Len(N) \in Nat /\ Len(N) >= 2
  BY <1>1 DEF NameOctets
<1>4. Len(R) <= Len(d) + 1 /\ Len(d) \in Nat
  <2>1. CASE EndsInDot(d)
    BY <2>1 DEF Rooted
  <2>2. CASE ~EndsInDot(d)
    <3>1. "." \in DOMAIN Code
      BY QueryAssumption
    <3>. QED BY <2>2, <3>1, AppendProperties DEF Rooted
  <2>. QED BY <2>1, <2>2
<1>5. t \in Int
  BY DEF TypeCode
<1>6. /\ q.body = QueryHeader \o N \o <<0, t, 0, 1>>
      /\ q.content_length = Len(q.body) % OctetModulus
  BY DEF BuildDohRequest
<1> HIDE DEF N, R, q, t
<1>7. /\ q.body \in Seq(Int) /\ Len(q.body) = Len(N) + 16 /\ Len(q.body) \in Nat
      /\ AskedName(q.body, Len(q.body)) = N
  BY <1>3, <1>5, <1>6, AskedIs
<1>8. IsName(d) => Spelled(N) = [i \in 1 .. Len(R) |-> Code[R[i]]]
  BY <1>1, <1>2, SpelledIs
<1>9. ~IsName(d) => Spelled(N) = Malformed
  BY <1>2 DEF Spelled
<1>10. OctetModulus \in Nat \ {0}
  BY QueryAssumption
<1>11. /\ q.content_length \in 0 .. OctetModulus - 1
       /\ q.content_length = Len(q.body) <=> Len(q.body) < OctetModulus
  BY <1>6, <1>7, <1>10, Remainder
<1> DEFINE read == Spelled(AskedName(q.body, q.content_length))
<1>12. ASSUME Len(q.body) < OctetModulus
       PROVE  AsksForHost(d, q)
  <2>1. read = Spelled(N)
    BY <1>7, <1>11, <1>12
  <2> HIDE DEF read
  <2>2. read = IF IsName(d) THEN [i \in 1 .. Len(R) |-> Code[R[i]]] ELSE Malformed
    BY <1>8, <1>9, <2>1, Zenon
  <2>. QED BY <1>12, <2>2, Zenon DEF AsksForHost, R, read
<1>13. ASSUME ~(Len(q.body) < OctetModulus)
       PROVE  AsksForHost(d, q)
  <2>1. q.content_length \in Nat /\ q.content_length <= 17
    <3>1. Len(q.body) <= OctetModulus + 17
      BY <1>3, <1>4, <1>7, <1>10
    <3>. QED BY <1>6, <1>7, <1>10, <1>13, <3>1, AnnouncedShort
  <2>2. read = Malformed \/ (read = <<>> /\ N[1] = 0)
    BY <1>3, <1>5, <1>6, <2>1, ShortIsNoName
  <2>3. N[1] = 0 => ~IsName(d)
    BY <1>2, <1>3, FirstOfName
  <2> HIDE DEF read
  <2>4. read = Malformed \/ (read = <<>> /\ ~IsName(d))
    BY <2>2, <2>3, Zenon
  <2>. QED BY <1>13, <2>4, Zenon DEF AsksForHost, read
<1>14. AsksForHost(d, q)
  BY <1>12, <1>13, Zenon
<1>. QED BY <1>7, <1>11, <1>14 DEF q

-----------------------------------------------------------------------------
(* The fields of fixed length *)

Answer == [type : Nat, address : Seq(Nat)]

DnsStates ==
  {"id", "flags", "qdcount", "ancount", "nscount", "arcount", "qtype", "qclass", "type",
   "class", "ttl", "rdlength", "qname", "name", "name_pointer", "cname", "cname_pointer",
   "ipv4", "ipv6", "no_answers", "done", "error", "mem_alloc_error"}

Dns ==
  [state : DnsStates, i : Nat, left : Nat, rcode : Nat, qname : Seq(Int), ancount : Nat,
   index : Nat, answers : Seq(Answer), rdata : Seq(Nat)]

\* The fields that nothing but names, counts and answers changes
SameTable(p, r) ==
  /\ r.left = p.left /\ r.qname = p.qname /\ r.ancount = p.ancount
  /\ r.index = p.index /\ r.answers = p.answers /\ r.rdata = p.rdata

\* The fields' types
LEMMA DnsFields ==
  ASSUME NEW p \in Dns
  PROVE  /\ p.i \in Nat /\ p.left \in Nat /\ p.qname \in Seq(Int) /\ p.ancount \in Nat
         /\ p.index \in Nat /\ p.answers \in Seq(Answer) /\ p.rdata \in Seq(Nat)
BY DEF Dns

\* What a row of the table is
LEMMA RowIs ==
  ASSUME NEW p \in Dns, NEW k \in 1 .. Len(p.answers)
  PROVE  /\ p.answers[k] \in Answer
         /\ p.answers[k].type \in Nat /\ p.answers[k].address \in Seq(Nat)
         /\ p.answers[k] = [type |-> p.answers[k].type, address |-> p.answers[k].address]
<1>1. p.answers \in Seq(Answer)
  BY DEF Dns
<1>2. p.answers[k] \in Answer
  BY <1>1
<1>. QED BY <1>2 DEF Answer

\* Another state
LEMMA NewState ==
  ASSUME NEW p \in Dns, NEW s \in DnsStates
  PROVE  LET r == [p EXCEPT !.state = s] IN
         r \in Dns /\ SameTable(p, r) /\ r.state = s /\ r.i = p.i
BY DEF Dns, SameTable

\* Another place in a field
LEMMA NewI ==
  ASSUME NEW p \in Dns, NEW i \in Nat
  PROVE  LET r == [p EXCEPT !.i = i] IN
         r \in Dns /\ SameTable(p, r) /\ r.state = p.state /\ r.i = i
BY DEF Dns, SameTable

\* An octet of a field that nothing reads
LEMMA PlainField ==
  ASSUME NEW p \in Dns, NEW c,
         p.state \in {"id", "qdcount", "nscount", "arcount", "qtype", "qclass", "class", "ttl"}
  PROVE  LET r == DnsFeed(p, c) IN
         /\ r \in Dns
         /\ SameTable(p, r)
         /\ IF p.i + 1 < FieldLength[p.state] THEN r.state = p.state /\ r.i = p.i + 1
            ELSE r.state = FollowedBy[p.state] /\ r.i = 0
<1>1. Store(p, c) = p
  BY DEF Store
<1>2. DnsFeed(p, c) = FieldFeed(p, c)
  BY DEF DnsFeed, FieldLength
<1>3. FollowedBy[p.state] \in DnsStates
  BY DEF FollowedBy, DnsStates
<1>4. CASE p.i + 1 < FieldLength[p.state]
  <2>1. DnsFeed(p, c) = [p EXCEPT !.i = @ + 1]
    BY <1>1, <1>2, <1>4 DEF FieldFeed
  <2>2. p.i + 1 \in Nat
    BY DnsFields
  <2>3. /\ DnsFeed(p, c) \in Dns /\ SameTable(p, DnsFeed(p, c))
        /\ DnsFeed(p, c).state = p.state /\ DnsFeed(p, c).i = p.i + 1
    BY <2>1, <2>2, NewI
  <2>. QED BY <1>4, <2>3
<1>5. CASE ~(p.i + 1 < FieldLength[p.state])
  <2>1. FieldFeed(p, c) = FieldEnds([p EXCEPT !.i = 0])
    BY <1>1, <1>5 DEF FieldFeed
  <2> DEFINE q == [p EXCEPT !.i = 0]
  <2>2. q.state = p.state /\ q \in Dns /\ SameTable(p, q) /\ q.i = 0
    BY DEF Dns, SameTable
  <2> HIDE DEF q
  <2>3. FieldEnds(q) = [q EXCEPT !.state = FollowedBy[q.state]]
    BY <2>2 DEF FieldEnds
  <2>4. FieldEnds(q) \in Dns /\ SameTable(q, FieldEnds(q)) /\ FieldEnds(q).i = 0
        /\ FieldEnds(q).state = FollowedBy[p.state]
    BY <1>3, <2>2, <2>3 DEF Dns, SameTable
  <2>. QED BY <1>2, <1>5, <2>1, <2>2, <2>4 DEF SameTable, q
<1>. QED BY <1>4, <1>5

\* An octet of the flags
LEMMA FlagsField ==
  ASSUME NEW p \in Dns, NEW c \in Nat, p.state = "flags", p.i \in {0, 1}
  PROVE  LET r == DnsFeed(p, c) IN
         /\ r \in Dns
         /\ SameTable(p, r)
         /\ p.i = 0 => r.state = "flags" /\ r.i = 1
         /\ p.i = 1 => r.state = "qdcount" /\ r.i = 0
<1>1. DnsFeed(p, c) = FieldFeed(p, c)
  BY DEF DnsFeed, FieldLength
<1>2. FieldLength["flags"] = 2
  BY DEF FieldLength
<1>3. CASE p.i = 0
  <2>1. Store(p, c) = p
    BY <1>3 DEF Store
  <2>2. FieldFeed(p, c) = [p EXCEPT !.i = 1]
    BY <1>2, <1>3, <2>1 DEF FieldFeed
  <2>3. /\ FieldFeed(p, c) \in Dns /\ SameTable(p, FieldFeed(p, c))
        /\ FieldFeed(p, c).state = "flags" /\ FieldFeed(p, c).i = 1
    BY <2>2, NewI
  <2>. QED BY <1>1, <1>3, <2>3
<1>4. CASE p.i = 1
  <2> DEFINE q == [p EXCEPT !.rcode = c % 16, !.i = 0]
             s == [p EXCEPT !.rcode = c % 16]
  <2>1. Store(p, c) = s
    BY <1>4 DEF Store
  <2>2. c % 16 \in Nat
    OBVIOUS
  <2>3. q \in Dns /\ SameTable(p, q) /\ q.state = "flags" /\ q.i = 0
    BY <2>2 DEF Dns, SameTable
  <2>4. [s EXCEPT !.i = 0] = q
    BY DEF Dns
  <2>5. FieldFeed(p, c) = FieldEnds(q)
    BY <1>2, <1>4, <2>1, <2>4 DEF FieldFeed
  <2> HIDE DEF q, s
  <2>6. FieldEnds(q) = [q EXCEPT !.state = "qdcount"] /\ "qdcount" \in DnsStates
    BY <2>3 DEF FieldEnds, FollowedBy, DnsStates
  <2>7. FieldEnds(q) \in Dns /\ SameTable(q, FieldEnds(q)) /\ FieldEnds(q).i = 0
        /\ FieldEnds(q).state = "qdcount"
    BY <2>3, <2>6, NewState
  <2>. QED BY <1>1, <1>4, <2>3, <2>5, <2>7 DEF SameTable
<1>. QED BY <1>3, <1>4

\* The answers before the first one is parsed
Blank(n) == [i \in 1 .. n |-> BlankAnswer]

\* The table of so many blank answers
LEMMA BlankSeq ==
  ASSUME NEW n \in Nat
  PROVE  /\ Blank(n) \in Seq(Answer)
         /\ Len(Blank(n)) = n
         /\ \A i \in 1 .. n : Blank(n)[i] = BlankAnswer
<1>1. BlankAnswer \in Answer
  BY DEF BlankAnswer, Answer
<1>. QED BY <1>1 DEF Blank

\* The number of answers: the second octet allocates the table, or ends the response
LEMMA AncountField ==
  ASSUME NEW p \in Dns, NEW c \in Nat, p.state = "ancount", p.i \in {0, 1}
  PROVE  LET r == DnsFeed(p, c)
             n == IF p.i = 0 THEN c * 256 ELSE p.ancount + c
         IN /\ r \in Dns
            /\ r.left = p.left /\ r.qname = p.qname /\ r.index = p.index /\ r.rdata = p.rdata
            /\ r.ancount = n
            /\ p.i = 0 => r.state = "ancount" /\ r.i = 1 /\ r.answers = p.answers
            /\ p.i = 1 /\ n = 0 => r.state = "no_answers" /\ r.i = 0 /\ r.answers = p.answers
            /\ p.i = 1 /\ n > 0 => r.state = "nscount" /\ r.i = 0 /\ r.answers = Blank(n)
<1> DEFINE n == IF p.i = 0 THEN c * 256 ELSE p.ancount + c
           s == [p EXCEPT !.ancount = n]
<1>0. p.ancount \in Nat
  BY DEF Dns
<1>1. DnsFeed(p, c) = FieldFeed(p, c) /\ FieldLength["ancount"] = 2
  BY DEF DnsFeed, FieldLength
<1>2. Store(p, c) = s
  BY DEF Store
<1>3. n \in Nat
  BY <1>0
<1>4. /\ s \in Dns /\ s.ancount = n /\ s.state = "ancount" /\ s.i = p.i
      /\ s.left = p.left /\ s.qname = p.qname /\ s.index = p.index /\ s.rdata = p.rdata
      /\ s.answers = p.answers
  <2> HIDE DEF n
  <2>. QED BY <1>3 DEF Dns
<1> HIDE DEF s, n
<1>5. CASE p.i = 0
  <2>1. FieldFeed(p, c) = [s EXCEPT !.i = 1]
    BY <1>1, <1>2, <1>4, <1>5 DEF FieldFeed
  <2>2. /\ FieldFeed(p, c) \in Dns /\ SameTable(s, FieldFeed(p, c))
        /\ FieldFeed(p, c).state = "ancount" /\ FieldFeed(p, c).i = 1
    BY <1>4, <2>1, NewI
  <2>. QED BY <1>1, <1>4, <1>5, <2>2 DEF SameTable, n
<1>6. CASE p.i = 1
  <2> DEFINE q == [s EXCEPT !.i = 0]
  <2>1. FieldFeed(p, c) = FieldEnds(q)
    BY <1>1, <1>2, <1>6 DEF FieldFeed
  <2>2. q \in Dns /\ SameTable(s, q) /\ q.state = "ancount" /\ q.i = 0
    BY <1>4 DEF Dns, SameTable
  <2>3. q.ancount = n
    BY <1>4, <2>2 DEF SameTable
  <2> HIDE DEF q
  <2>4. CASE n = 0
    <3>1. FieldEnds(q) = [q EXCEPT !.state = "no_answers"]
      BY <2>2, <2>3, <2>4 DEF FieldEnds
    <3>0. "no_answers" \in DnsStates
      BY DEF DnsStates
    <3>2. /\ FieldEnds(q) \in Dns /\ SameTable(q, FieldEnds(q))
          /\ FieldEnds(q).state = "no_answers" /\ FieldEnds(q).i = 0
      BY <2>2, <3>0, <3>1, NewState
    <3>. QED BY <1>1, <1>4, <1>6, <2>1, <2>2, <2>4, <3>2 DEF SameTable, n
  <2>5. CASE n > 0
    <3>1. FieldEnds(q) = [q EXCEPT !.state = "nscount", !.answers = Blank(n)]
      BY <1>3, <2>2, <2>3, <2>5 DEF FieldEnds, Blank
    <3>2. Blank(n) \in Seq(Answer)
      BY <1>3, BlankSeq
    <3>3. /\ FieldEnds(q) \in Dns
          /\ FieldEnds(q).state = "nscount" /\ FieldEnds(q).i = 0
          /\ FieldEnds(q).answers = Blank(n)
          /\ FieldEnds(q).left = q.left /\ FieldEnds(q).qname = q.qname
          /\ FieldEnds(q).index = q.index /\ FieldEnds(q).rdata = q.rdata
          /\ FieldEnds(q).ancount = q.ancount
      <4>1. "nscount" \in DnsStates
        BY DEF DnsStates
      <4>. QED BY <2>2, <3>1, <3>2, <4>1 DEF Dns
    <3>. QED BY <1>1, <1>3, <1>4, <1>6, <2>1, <2>2, <2>5, <3>3 DEF SameTable, n
  <2>. QED BY <1>3, <2>4, <2>5
<1>. QED BY <1>5, <1>6

\* What a step leaves in the table but for the answer at hand
Filled(p, r, answer) ==
  /\ r.qname = p.qname /\ r.ancount = p.ancount
  /\ r.answers = [p.answers EXCEPT ![p.index + 1] = answer]

\* The type of an answer
LEMMA TypeField ==
  ASSUME NEW p \in Dns, NEW c \in Nat, p.state = "type", p.i \in {0, 1},
         p.index + 1 \in 1 .. Len(p.answers)
  PROVE  LET r == DnsFeed(p, c)
             old == p.answers[p.index + 1]
             t == IF p.i = 0 THEN c * 256 ELSE old.type + c
         IN /\ r \in Dns
            /\ Filled(p, r, [type |-> t, address |-> old.address])
            /\ r.index = p.index /\ r.left = p.left /\ r.rdata = p.rdata
            /\ p.i = 0 => r.state = "type" /\ r.i = 1
            /\ p.i = 1 => r.state = "class" /\ r.i = 0
<1> DEFINE old == p.answers[p.index + 1]
           t == IF p.i = 0 THEN c * 256 ELSE old.type + c
           a == [type |-> t, address |-> old.address]
           s == [p EXCEPT !.answers = [p.answers EXCEPT ![p.index + 1] = a]]
<1>1. DnsFeed(p, c) = FieldFeed(p, c) /\ FieldLength["type"] = 2
  BY DEF DnsFeed, FieldLength
<1>2. old \in Answer /\ p.answers \in Seq(Answer) /\ old.type \in Nat /\ old.address \in Seq(Nat)
      /\ old = [type |-> old.type, address |-> old.address]
  BY RowIs, DnsFields
<1>3. t \in Nat /\ a \in Answer
  <2>1. t \in Nat
    BY <1>2
  <2> HIDE DEF t, old
  <2>. QED BY <1>2, <2>1 DEF Answer
<1>4. Store(p, c) = s
  <2>1. Store(p, c) = [p EXCEPT !.answers[p.index + 1].type = IF p.i = 0 THEN c * 256 ELSE @ + c]
    BY DEF Store
  <2>2. [p EXCEPT !.answers[p.index + 1].type = IF p.i = 0 THEN c * 256 ELSE @ + c]
          = [p EXCEPT !.answers = [p.answers EXCEPT ![p.index + 1] = [old EXCEPT !.type = t]]]
    BY DEF Dns
  <2>3. [old EXCEPT !.type = t] = a
    BY <1>2
  <2>. QED BY <2>1, <2>2, <2>3
<1>5. [p.answers EXCEPT ![p.index + 1] = a] \in Seq(Answer)
  <2> HIDE DEF a
  <2>. QED BY <1>2, <1>3, ExceptSeq
<1> HIDE DEF a, t, old
<1>6. /\ s \in Dns /\ Filled(p, s, a) /\ s.state = "type" /\ s.i = p.i
      /\ s.index = p.index /\ s.left = p.left /\ s.rdata = p.rdata
  BY <1>5 DEF Dns, Filled
<1> HIDE DEF s
<1>7. CASE p.i = 0
  <2>1. FieldFeed(p, c) = [s EXCEPT !.i = 1]
    BY <1>1, <1>4, <1>6, <1>7 DEF FieldFeed
  <2>2. /\ FieldFeed(p, c) \in Dns /\ SameTable(s, FieldFeed(p, c))
        /\ FieldFeed(p, c).state = "type" /\ FieldFeed(p, c).i = 1
    BY <1>6, <2>1, NewI
  <2>. QED BY <1>1, <1>6, <1>7, <2>2 DEF SameTable, Filled, a, t, old
<1>8. CASE p.i = 1
  <2> DEFINE q == [s EXCEPT !.i = 0]
  <2>1. FieldFeed(p, c) = FieldEnds(q)
    BY <1>1, <1>4, <1>8 DEF FieldFeed
  <2>2. q \in Dns /\ SameTable(s, q) /\ q.state = "type" /\ q.i = 0
    BY <1>6, NewI
  <2> HIDE DEF q
  <2>3. FieldEnds(q) = [q EXCEPT !.state = "class"] /\ "class" \in DnsStates
    BY <2>2 DEF FieldEnds, FollowedBy, DnsStates
  <2>4. /\ FieldEnds(q) \in Dns /\ SameTable(q, FieldEnds(q))
        /\ FieldEnds(q).state = "class" /\ FieldEnds(q).i = 0
    BY <2>2, <2>3, NewState
  <2>. QED BY <1>1, <1>6, <1>8, <2>1, <2>2, <2>4 DEF SameTable, Filled, a, t, old
<1>. QED BY <1>7, <1>8

\* The length of the data is passed over: the type says what follows
LEMMA RdlengthField ==
  ASSUME NEW p \in Dns, NEW c, p.state = "rdlength", p.i \in {0, 1},
         p.index + 1 \in 1 .. Len(p.answers)
  PROVE  LET r == DnsFeed(p, c) IN
         /\ r \in Dns
         /\ SameTable(p, r)
         /\ p.i = 0 => r.state = "rdlength" /\ r.i = 1
         /\ p.i = 1 => /\ r.i = 0
                       /\ r.state = LET type == p.answers[p.index + 1].type IN
                                    IF type = 1 THEN "ipv4" ELSE IF type = 28 THEN "ipv6"
                                    ELSE IF type = 5 THEN "cname" ELSE "error"
<1> DEFINE type == p.answers[p.index + 1].type
           next == IF type = 1 THEN "ipv4" ELSE IF type = 28 THEN "ipv6"
                   ELSE IF type = 5 THEN "cname" ELSE "error"
<1>1. Store(p, c) = p
  BY DEF Store
<1>2. DnsFeed(p, c) = FieldFeed(p, c) /\ FieldLength["rdlength"] = 2
  BY DEF DnsFeed, FieldLength
<1>3. CASE p.i = 0
  <2> HIDE DEF next, type
  <2>1. FieldFeed(p, c) = [p EXCEPT !.i = 1]
    BY <1>1, <1>2, <1>3 DEF FieldFeed
  <2>2. /\ FieldFeed(p, c) \in Dns /\ SameTable(p, FieldFeed(p, c))
        /\ FieldFeed(p, c).state = "rdlength" /\ FieldFeed(p, c).i = 1
    <3>1. LET r == [p EXCEPT !.i = 1] IN
          r \in Dns /\ SameTable(p, r) /\ r.state = p.state /\ r.i = 1
      BY NewI
    <3>. QED BY <2>1, <3>1
  <2>. QED BY <1>2, <1>3, <2>2
<1>4. CASE p.i = 1
  <2> DEFINE q == [p EXCEPT !.i = 0]
  <2>1. FieldFeed(p, c) = FieldEnds(q)
    BY <1>1, <1>2, <1>4 DEF FieldFeed
  <2>2. q \in Dns /\ SameTable(p, q) /\ q.state = "rdlength" /\ q.i = 0
    BY NewI
  <2> HIDE DEF q
  <2>3. DataOf(q) = next
    BY <2>2 DEF SameTable, DataOf, TypeCode
  <2>4. next \in DnsStates
    BY DEF DnsStates
  <2> HIDE DEF next, type
  <2>5. FieldEnds(q) = [q EXCEPT !.state = next]
    BY <2>2, <2>3 DEF FieldEnds
  <2>6. /\ FieldEnds(q) \in Dns /\ SameTable(q, FieldEnds(q))
        /\ FieldEnds(q).state = next /\ FieldEnds(q).i = 0
    BY <2>2, <2>4, <2>5, NewState
  <2>. QED BY <1>2, <1>4, <2>1, <2>2, <2>6 DEF SameTable, next, type
<1>. QED BY <1>3, <1>4


-----------------------------------------------------------------------------
(* Names: the place p in the octets o, by the octets of a label that are left *)

Walk(o, p, left) ==
  IF left = 0 THEN p + 1 \in LabelStarts(o)
  ELSE /\ (p + left) + 1 \in LabelStarts(o)
       /\ \A k \in p + 1 .. p + left : k \notin LabelStarts(o)

\* A name begins with a label's length
LEMMA WalkBegins ==
  ASSUME NEW o \in Seq(Int), Len(o) >= 1
  PROVE  Walk(o, 0, 0)
<1>1. Len(o) \in Nat /\ 1 \in 1 .. Len(o) /\ 0 + 1 = 1
  OBVIOUS
<1>2. 1 \in LabelStarts(o)
  BY <1>1, StartsAre
<1>. QED BY <1>1, <1>2 DEF Walk

\* An octet of a label
LEMMA WalkLabel ==
  ASSUME NEW o \in Seq(Int), NEW p \in Nat, NEW left \in Nat \ {0}, Walk(o, p, left)
  PROVE  /\ p + 1 < Len(o)
         /\ Walk(o, p + 1, left - 1)
         /\ p + 1 \notin LabelStarts(o)
         /\ left = 1 => p + 2 \in LabelStarts(o)
<1> DEFINE T == LabelStarts(o)
<1>1. (p + left) + 1 \in T /\ \A k \in p + 1 .. p + left : k \notin T
  BY DEF Walk
<1>2. T \subseteq 1 .. Len(o) /\ Len(o) \in Nat
  BY StartsAre
<1> HIDE DEF T
<1>3. p + 1 < Len(o)
  BY <1>1, <1>2
<1>4. p + 1 \notin T
  BY <1>1
<1>5. left = 1 => p + 2 \in T
  BY <1>1
<1>6. CASE left = 1
  <2>1. left - 1 = 0 /\ (p + 1) + 1 = p + 2
    BY <1>6
  <2>. QED BY <1>3, <1>4, <1>5, <1>6, <2>1 DEF Walk, T
<1>7. CASE left > 1
  <2>1. left - 1 # 0 /\ (p + 1) + (left - 1) = p + left
    BY <1>7
  <2>2. \A k \in (p + 1) + 1 .. p + left : k \notin T
    BY <1>1
  <2>. QED BY <1>1, <1>3, <1>4, <1>5, <1>7, <2>1, <2>2 DEF Walk, T
<1>. QED BY <1>6, <1>7

\* The length of a label, the end, or a pointer
LEMMA WalkLength ==
  ASSUME NEW o \in Seq(Int), EncodedName(o), NEW p \in Nat, Walk(o, p, 0)
  PROVE  /\ p + 1 \in 1 .. Len(o)
         /\ \/ o[p + 1] = 0 /\ p + 1 = Len(o)
            \/ o[p + 1] >= 192 /\ p + 2 = Len(o) /\ ~LabelsFit(o)
            \/ /\ o[p + 1] \in 1 .. 191 /\ p + 1 < Len(o)
               /\ Walk(o, p + 1, o[p + 1])
<1> DEFINE T == LabelStarts(o)
           k == p + 1
<1>0. /\ MaxLabel \in Nat /\ MaxLabel <= 191
      /\ Len(o) \in Nat
  BY QueryAssumption
<1>1. k \in T
  BY DEF Walk
<1>2. /\ T \subseteq 1 .. Len(o)
      /\ \A j \in 1 .. Len(o) : j \in T <=> j = 1 \/ \E h \in T : h < j /\ h + o[h] + 1 = j
  BY <1>0, StartsAre
<1>3. \A h \in T : o[h] \in Int
  BY <1>2
<1>4. \A h \in T : \/ h = Len(o) /\ o[h] = 0
                   \/ h = Len(o) - 1 /\ o[h] >= 192
                   \/ o[h] \in 1 .. MaxLabel /\ h + o[h] < Len(o)
  BY DEF EncodedName
<1>5. \A h \in T : o[h] \in Nat
  BY <1>0, <1>3, <1>4
<1>6. \A j, h \in T : j < h => j + o[j] + 1 <= h
  BY <1>0, <1>5, Chain
<1> HIDE DEF T
<1>7. k \in 1 .. Len(o) /\ o[k] \in Nat
  BY <1>1, <1>2, <1>5
<1>8. CASE k = Len(o) /\ o[k] = 0
  BY <1>7, <1>8
<1>9. CASE k = Len(o) - 1 /\ o[k] >= 192
  <2>1. ~LabelsFit(o)
    BY <1>0, <1>1, <1>9 DEF LabelsFit, T
  <2>. QED BY <1>7, <1>9, <2>1
<1>10. CASE o[k] \in 1 .. MaxLabel /\ k + o[k] < Len(o)
  <2>1. k + o[k] + 1 \in 1 .. Len(o) /\ k < k + o[k] + 1 /\ o[k] \in 1 .. 191 /\ o[k] # 0
    <3> DEFINE x == o[k]
    <3>1. x \in 1 .. MaxLabel /\ k + x < Len(o)
      BY <1>10
    <3> HIDE DEF x
    <3>2. k + x + 1 \in 1 .. Len(o) /\ k < k + x + 1 /\ x \in 1 .. 191 /\ x # 0
      BY <1>0, <1>7, <3>1
    <3>. QED BY <3>2 DEF x
  <2>2. k + o[k] + 1 \in T
    BY <1>1, <1>2, <2>1
  <2>3. ASSUME NEW h \in k + 1 .. k + o[k], h \in T
        PROVE  FALSE
    <3>1. k < h /\ h < k + o[k] + 1
      BY <1>7
    <3>2. k + o[k] + 1 <= h
      BY <1>1, <1>6, <2>3, <3>1
    <3>. QED BY <1>7, <3>1, <3>2
  <2>4. Walk(o, k, o[k])
    BY <2>1, <2>2, <2>3 DEF Walk, T
  <2>. QED BY <1>7, <1>10, <2>1, <2>4
<1>. QED BY <1>1, <1>4, <1>8, <1>9, <1>10

PointerOf(st) ==
  CASE st = "name" -> "name_pointer" [] st = "cname" -> "cname_pointer" [] OTHER -> "none"

\* The parser of names is at the place p of o
InName(d, st, o, p) ==
  /\ d.i = 0
  /\ \/ d.state = st /\ Walk(o, p, d.left)
     \/ d.state = PointerOf(st) /\ d.left = 0 /\ p + 1 = Len(o)

\* The parser is in one of its states
LEMMA DnsStatesOnly ==
  ASSUME NEW d \in Dns
  PROVE  d.state \in DnsStates /\ d.state # "none"
<1>1. d.state \in DnsStates
  BY DEF Dns
<1>. QED BY <1>1 DEF DnsStates

\* What an octet of a name adds to the question
Kept(d, o, p) ==
  IF d.state # "qname" \/ d.left = 0 THEN <<>>
  ELSE IF d.left = 1 THEN <<o[p + 1], Code["."]>> ELSE <<o[p + 1]>>

\* A new label
LEMMA NewLeft ==
  ASSUME NEW p \in Dns, NEW n \in Nat
  PROVE  LET r == [p EXCEPT !.left = n] IN
         /\ r \in Dns /\ r.state = p.state /\ r.i = p.i /\ r.left = n /\ r.qname = p.qname
         /\ r.ancount = p.ancount /\ r.index = p.index /\ r.answers = p.answers
         /\ r.rdata = p.rdata
BY DEF Dns

\* An octet of a name: the next place, or the end
LEMMA NameOctet ==
  ASSUME NEW d \in Dns, NEW st \in {"qname", "name", "cname"}, NEW o \in Seq(Int),
         EncodedName(o), st = "qname" => LabelsFit(o),
         NEW p \in 0 .. Len(o) - 1, InName(d, st, o, p)
  PROVE  LET r == DnsFeed(d, o[p + 1]) IN
         /\ p + 1 < Len(o) =>
              /\ r \in Dns
              /\ InName(r, st, o, p + 1)
              /\ r.qname = d.qname \o Kept(d, o, p)
              /\ r.ancount = d.ancount /\ r.index = d.index /\ r.answers = d.answers
              /\ r.rdata = d.rdata
              /\ d.left > 0 => r.left = d.left - 1
              /\ d.left = 0 /\ st = "qname" => r.left > 0
         /\ p + 1 = Len(o) => d.left = 0 /\ r = NameEnds(d)
<1> DEFINE c == o[p + 1]
           r == DnsFeed(d, c)
<1>0. /\ p \in Nat /\ Len(o) \in Nat /\ p + 1 \in 1 .. Len(o) /\ c \in Int
  OBVIOUS
<1>1. d.i = 0 /\ d.left \in Nat /\ d.qname \in Seq(Int)
  BY DnsFields DEF InName
<1>2. CASE d.state # st
  <2>1. d.state = PointerOf(st) /\ d.left = 0 /\ p + 1 = Len(o)
    BY <1>2 DEF InName
  <2>2. d.state \in {"name_pointer", "cname_pointer"}
    BY <2>1, DnsStatesOnly DEF PointerOf
  <2>3. r = NameEnds(d)
    BY <2>2 DEF DnsFeed, FieldLength
  <2>. QED BY <1>0, <2>1, <2>3
<1>3. CASE d.state = st /\ d.left > 0
  <2> DEFINE n == d.left - 1
             q == d.qname \o Kept(d, o, p)
  <2>0. PointerOf(st) # st
    BY DEF PointerOf
  <2>1. Walk(o, p, d.left) /\ n \in Nat /\ d.left # 0
    BY <1>1, <1>3, <2>0 DEF InName
  <2>2. p + 1 < Len(o) /\ Walk(o, p + 1, n)
    BY <1>0, <1>1, <1>3, <2>1, WalkLabel
  <2>3. Code["."] \in Int
    BY QueryAssumption
  <2>4. Kept(d, o, p) \in Seq(Int)
    BY <1>0, <2>3 DEF Kept
  <2>5. q \in Seq(Int)
    BY <1>1, <2>4
  <2>6. r = LabelFeed(d, c)
    <3>1. r = NameFeed(d, c)
      BY <1>3 DEF DnsFeed, FieldLength
    <3>. QED BY <1>3, <3>1 DEF NameFeed
  <2>7. r = [d EXCEPT !.left = n, !.qname = q]
    BY <2>6, <2>1 DEF LabelFeed, Kept
  <2> HIDE DEF q, n, r
  <2>8. /\ r \in Dns /\ r.state = d.state /\ r.i = d.i /\ r.left = n /\ r.qname = q
        /\ r.ancount = d.ancount /\ r.index = d.index /\ r.answers = d.answers
        /\ r.rdata = d.rdata
    <3>1. n \in Nat /\ q \in Seq(Int)
      BY <2>1, <2>5
    <3>2. LET a == [d EXCEPT !.left = n, !.qname = q] IN
          /\ a \in Dns /\ a.state = d.state /\ a.i = d.i /\ a.left = n /\ a.qname = q
          /\ a.ancount = d.ancount /\ a.index = d.index /\ a.answers = d.answers
          /\ a.rdata = d.rdata
      BY <3>1 DEF Dns
    <3>. QED BY <2>7, <3>2
  <2>9. InName(r, st, o, p + 1)
    BY <1>1, <1>3, <2>2, <2>8 DEF InName
  <2>10. p + 1 # Len(o) /\ d.left # 0
    BY <1>0, <2>1, <2>2
  <2>. QED BY <2>2, <2>8, <2>9, <2>10 DEF q, r, n
<1>4. CASE d.state = st /\ d.left = 0
  <2>0. PointerOf(st) # st
    BY DEF PointerOf
  <2>1. Walk(o, p, 0)
    BY <1>4, <2>0 DEF InName
  <2>2. \/ c = 0 /\ p + 1 = Len(o)
        \/ c >= 192 /\ p + 2 = Len(o) /\ ~LabelsFit(o)
        \/ c \in 1 .. 191 /\ p + 1 < Len(o) /\ Walk(o, p + 1, c)
    BY <1>0, <2>1, WalkLength
  <2>3. r = NameFeed(d, c)
    BY <1>4 DEF DnsFeed, FieldLength
  <2>4. d.qname \o Kept(d, o, p) = d.qname
    BY <1>1, <1>4 DEF Kept
  <2>5. CASE c = 0 /\ p + 1 = Len(o)
    <3>1. r = NameEnds(d)
      BY <1>4, <2>3, <2>5 DEF NameFeed
    <3>. QED BY <1>4, <2>5, <3>1
  <2>6. CASE c >= 192 /\ p + 2 = Len(o) /\ ~LabelsFit(o)
    <3>1. st \in {"name", "cname"}
      BY <2>6
    <3>2. r = [d EXCEPT !.state = PointerOf(st)] /\ PointerOf(st) \in DnsStates
      <4>1. c >= 192 /\ c # 0 /\ c \in Int
        BY <1>0, <2>6
      <4> HIDE DEF c, r
      <4>2. r = [d EXCEPT !.state = PointerOf(st)]
        BY <1>4, <2>3, <3>1, <4>1 DEF NameFeed, PointerOf
      <4>3. PointerOf(st) \in DnsStates
        BY <3>1 DEF PointerOf, DnsStates
      <4>. QED BY <4>2, <4>3
    <3> HIDE DEF r
    <3>3. r \in Dns /\ SameTable(d, r) /\ r.state = PointerOf(st) /\ r.i = d.i
      BY <3>2, NewState
    <3>4. p + 1 < Len(o) /\ (p + 1) + 1 = Len(o)
      BY <1>0, <2>6
    <3>5. InName(r, st, o, p + 1)
      BY <1>1, <1>4, <3>3, <3>4 DEF InName, SameTable
    <3>6. st # "qname" /\ ~(d.left > 0) /\ p + 1 # Len(o)
      BY <1>0, <1>4, <3>1, <3>4
    <3>. QED BY <2>4, <3>3, <3>4, <3>5, <3>6 DEF SameTable, r
  <2>7. CASE c \in 1 .. 191 /\ p + 1 < Len(o) /\ Walk(o, p + 1, c)
    <3>1. c \in Nat /\ c # 0 /\ ~(c >= 192) /\ c > 0
      <4>1. c \in 1 .. 191
        BY <2>7
      <4> HIDE DEF c
      <4>. QED BY <4>1
    <3>2. r = [d EXCEPT !.left = c]
      BY <1>4, <2>3, <3>1 DEF NameFeed
    <3> HIDE DEF r, c
    <3>3. /\ r \in Dns /\ r.state = d.state /\ r.i = d.i /\ r.left = c /\ r.qname = d.qname
          /\ r.ancount = d.ancount /\ r.index = d.index /\ r.answers = d.answers
          /\ r.rdata = d.rdata
      BY <3>1, <3>2, NewLeft
    <3>4. InName(r, st, o, p + 1)
      BY <1>1, <1>4, <2>7, <3>3 DEF InName
    <3>5. r.left > 0 /\ ~(d.left > 0)
      BY <1>4, <3>1, <3>3
    <3>6. p + 1 < Len(o) /\ p + 1 # Len(o)
      BY <1>0, <2>7
    <3>. QED BY <2>4, <3>3, <3>4, <3>5, <3>6 DEF r, c
  <2>. QED BY <2>2, <2>5, <2>6, <2>7
<1>. QED BY <1>1, <1>2, <1>3, <1>4

-----------------------------------------------------------------------------
(* The name of the question *)

\* The part q of the name that is spelled by p octets, the last length aside
SpelledTo(q, o, p, left) ==
  LET m == IF left > 0 THEN p - 1 ELSE p IN
  /\ q \in Seq(Int) /\ Len(q) = m
  /\ \A i \in 1 .. m : q[i] = Spelled(o)[i]

\* A character of a name
LEMMA SpelledAt ==
  ASSUME NEW o \in Seq(Int), LabelsFit(o)
  PROVE  /\ \A i \in 1 .. Len(o) - 1 :
              Spelled(o)[i] = IF i + 1 \in LabelStarts(o) THEN Code["."] ELSE o[i + 1]
         /\ Spelled(o) \in Seq(Int)
         /\ Len(Spelled(o)) = Len(o) - 1
<1>1. Len(o) \in Nat \ {0}
  BY DEF LabelsFit
<1>2. Code["."] \in Int
  BY QueryAssumption
<1>3. Spelled(o) = [i \in 1 .. Len(o) - 1 |->
                      IF i + 1 \in LabelStarts(o) THEN Code["."] ELSE o[i + 1]]
  BY DEF Spelled
<1>4. \A i \in 1 .. Len(o) - 1 : o[i + 1] \in Int
  BY <1>1
<1>5. Len(o) - 1 \in Nat
  BY <1>1
<1> DEFINE L == Len(o) - 1
<1> HIDE DEF L
<1>6. Spelled(o) \in [1 .. L -> Int]
  BY <1>2, <1>3, <1>4 DEF L
<1>7. Spelled(o) \in Seq(Int) /\ Len(Spelled(o)) = L
  BY <1>5, <1>6 DEF L
<1>. QED BY <1>3, <1>7 DEF L

\* One or two elements more
LEMMA OneMore ==
  ASSUME NEW q \in Seq(Int), NEW a \in Int
  PROVE  /\ q \o <<a>> \in Seq(Int) /\ Len(q \o <<a>>) = Len(q) + 1
         /\ \A i \in 1 .. Len(q) : (q \o <<a>>)[i] = q[i]
         /\ (q \o <<a>>)[Len(q) + 1] = a
<1>1. <<a>> \in Seq(Int) /\ Len(<<a>>) = 1 /\ <<a>>[1] = a /\ 1 \in 1 .. 1
  OBVIOUS
<1>. QED BY <1>1, ConcatIs

\* Two
LEMMA TwoMore ==
  ASSUME NEW q \in Seq(Int), NEW a \in Int, NEW b \in Int
  PROVE  /\ q \o <<a, b>> \in Seq(Int) /\ Len(q \o <<a, b>>) = Len(q) + 2
         /\ \A i \in 1 .. Len(q) : (q \o <<a, b>>)[i] = q[i]
         /\ (q \o <<a, b>>)[Len(q) + 1] = a
         /\ (q \o <<a, b>>)[Len(q) + 2] = b
<1>1. /\ <<a, b>> \in Seq(Int) /\ Len(<<a, b>>) = 2 /\ <<a, b>>[1] = a /\ <<a, b>>[2] = b
      /\ 1 \in 1 .. 2 /\ 2 \in 1 .. 2
  OBVIOUS
<1>. QED BY <1>1, ConcatIs

\* An octet of the name is added
LEMMA SpelledOctet ==
  ASSUME NEW o \in Seq(Int), LabelsFit(o), NEW p \in 0 .. Len(o) - 1,
         NEW d \in Dns, d.state = "qname", Walk(o, p, d.left),
         SpelledTo(d.qname, o, p, d.left), p + 1 < Len(o),
         NEW left \in Nat,
         d.left > 0 => left = d.left - 1, d.left = 0 => left > 0
  PROVE  SpelledTo(d.qname \o Kept(d, o, p), o, p + 1, left)
<1> DEFINE q == d.qname
           S == Spelled(o)
<1>0. p \in Nat /\ Len(o) \in Nat /\ d.left \in Nat /\ q \in Seq(Int)
  BY DnsFields
<1>1. \A i \in 1 .. Len(o) - 1 :
        S[i] = IF i + 1 \in LabelStarts(o) THEN Code["."] ELSE o[i + 1]
  BY SpelledAt
<1>2. CASE d.left = 0
  <2>1. Kept(d, o, p) = <<>>
    BY <1>2 DEF Kept
  <2>2. q \o <<>> = q
    BY <1>0
  <2>3. Len(q) = p /\ \A i \in 1 .. p : q[i] = S[i]
    BY <1>2 DEF SpelledTo
  <2>4. left > 0 /\ (p + 1) - 1 = p
    BY <1>0, <1>2
  <2>. QED BY <1>0, <2>1, <2>2, <2>3, <2>4 DEF SpelledTo
<1>3. CASE d.left > 0
  <2>1. /\ p + 1 \notin LabelStarts(o) /\ (d.left = 1 => p + 2 \in LabelStarts(o))
        /\ d.left \in Nat \ {0}
    BY <1>0, <1>3, WalkLabel
  <2>2. Len(q) = p - 1 /\ \A i \in 1 .. p - 1 : q[i] = S[i]
    BY <1>3 DEF SpelledTo
  <2>3. p \in 1 .. Len(o) - 1 /\ p + 1 \in 1 .. Len(o) - 1
    <3>1. Len(q) \in Nat
      BY <1>0
    <3>. QED BY <1>0, <2>2, <3>1
  <2>4. S[p] = o[p + 1] /\ o[p + 1] \in Int
    BY <1>1, <2>1, <2>3
  <2>5. d.left = 1 => S[p + 1] = Code["."]
    <3>1. (p + 1) + 1 = p + 2
      BY <1>0
    <3>. QED BY <1>1, <2>1, <2>3, <3>1
  <2>6. Code["."] \in Int
    BY QueryAssumption
  <2> DEFINE a == o[p + 1]
             b == Code["."]
  <2> HIDE DEF a, b, S, q
  <2>7. CASE d.left = 1
    <3>1. Kept(d, o, p) = <<a, b>> /\ left = 0
      BY <2>7 DEF Kept, a, b
    <3>2. S[p] = a /\ S[p + 1] = b /\ a \in Int /\ b \in Int
      BY <2>4, <2>5, <2>6, <2>7 DEF a, b
    <3>3. /\ q \o <<a, b>> \in Seq(Int) /\ Len(q \o <<a, b>>) = p + 1
          /\ \A i \in 1 .. p - 1 : (q \o <<a, b>>)[i] = q[i]
          /\ (q \o <<a, b>>)[p] = a /\ (q \o <<a, b>>)[p + 1] = b
      <4>1. q \in Seq(Int) /\ a \in Int /\ b \in Int
        BY <1>0, <3>2
      <4>2. /\ q \o <<a, b>> \in Seq(Int) /\ Len(q \o <<a, b>>) = Len(q) + 2
            /\ \A i \in 1 .. Len(q) : (q \o <<a, b>>)[i] = q[i]
            /\ (q \o <<a, b>>)[Len(q) + 1] = a
            /\ (q \o <<a, b>>)[Len(q) + 2] = b
        BY <4>1, TwoMore
      <4>3. Len(q) + 2 = p + 1 /\ Len(q) + 1 = p /\ Len(q) = p - 1
        BY <1>0, <2>2
      <4>. QED BY <4>2, <4>3
    <3> DEFINE v == q \o <<a, b>>
    <3>4. v \in Seq(Int) /\ Len(v) = p + 1 /\ \A i \in 1 .. p + 1 : v[i] = S[i]
      <4>1. \A i \in 1 .. p - 1 : v[i] = S[i]
        BY <2>2, <3>3
      <4>2. v[p] = S[p] /\ v[p + 1] = S[p + 1]
        BY <3>2, <3>3
      <4>3. v \in Seq(Int) /\ Len(v) = p + 1
        BY <3>3
      <4> HIDE DEF v
      <4>. QED BY <1>0, <4>1, <4>2, <4>3
    <3>5. SpelledTo(v, o, p + 1, 0)
      <4> HIDE DEF v
      <4>. QED BY <3>4 DEF SpelledTo, S
    <3>. QED BY <3>1, <3>5 DEF q
  <2>8. CASE d.left > 1
    <3>1. Kept(d, o, p) = <<a>> /\ left > 0 /\ (p + 1) - 1 = p
      BY <1>0, <2>8 DEF Kept, a
    <3>2. S[p] = a /\ a \in Int
      BY <2>4 DEF a
    <3>3. /\ q \o <<a>> \in Seq(Int) /\ Len(q \o <<a>>) = p
          /\ \A i \in 1 .. p - 1 : (q \o <<a>>)[i] = q[i]
          /\ (q \o <<a>>)[p] = a
      <4>1. q \in Seq(Int) /\ a \in Int
        BY <1>0, <3>2
      <4>2. /\ q \o <<a>> \in Seq(Int) /\ Len(q \o <<a>>) = Len(q) + 1
            /\ \A i \in 1 .. Len(q) : (q \o <<a>>)[i] = q[i]
            /\ (q \o <<a>>)[Len(q) + 1] = a
        BY <4>1, OneMore
      <4>3. Len(q) + 1 = p /\ Len(q) = p - 1
        BY <1>0, <2>2
      <4>. QED BY <4>2, <4>3
    <3> DEFINE v == q \o <<a>>
    <3>4. v \in Seq(Int) /\ Len(v) = p /\ \A i \in 1 .. p : v[i] = S[i]
      <4>1. \A i \in 1 .. p - 1 : v[i] = S[i]
        BY <2>2, <3>3
      <4>2. v[p] = S[p]
        BY <3>2, <3>3
      <4>3. v \in Seq(Int) /\ Len(v) = p
        BY <3>3
      <4> HIDE DEF v
      <4>4. \A i \in 1 .. p : i = p \/ i \in 1 .. p - 1
        BY <1>0
      <4>. QED BY <4>1, <4>2, <4>3, <4>4
    <3>5. SpelledTo(v, o, p + 1, left)
      <4> HIDE DEF v
      <4>. QED BY <3>1, <3>4 DEF SpelledTo, S
    <3>. QED BY <3>1, <3>5 DEF q
  <2>. QED BY <1>0, <1>3, <2>7, <2>8
<1>. QED BY <1>0, <1>2, <1>3

\* All of the octets but the last one spell the name
LEMMA SpelledWhole ==
  ASSUME NEW o \in Seq(Int), LabelsFit(o), NEW q, SpelledTo(q, o, Len(o) - 1, 0)
  PROVE  q = Spelled(o)
<1>1. /\ Spelled(o) \in Seq(Int) /\ Len(Spelled(o)) = Len(o) - 1
  BY SpelledAt
<1>2. /\ q \in Seq(Int) /\ Len(q) = Len(o) - 1
      /\ \A i \in 1 .. Len(q) : q[i] = Spelled(o)[i]
  BY DEF SpelledTo
<1>. QED BY <1>1, <1>2, SeqEqual

-----------------------------------------------------------------------------
(* The table of answers *)

\* The answers that have been fed, the one being fed, and the places left
Filing(filed, cur, n) ==
  [i \in 1 .. n |-> IF i <= Len(filed) THEN filed[i]
                    ELSE IF i = Len(filed) + 1 THEN cur ELSE BlankAnswer]

\* What the parser has of the question and of the answers
Holds(d, n, filed, cur, q) ==
  /\ d \in Dns /\ d.ancount = n /\ d.index = Len(filed)
  /\ d.answers = Filing(filed, cur, n) /\ d.qname = q

Typed(code) == [type |-> code, address |-> <<>>]

\* The present answer is in its place
LEMMA FilingIs ==
  ASSUME NEW filed \in Seq(Answer), NEW cur, NEW n \in Nat, Len(filed) < n
  PROVE  /\ Len(Filing(filed, cur, n)) = n
         /\ Len(filed) + 1 \in 1 .. n
         /\ Filing(filed, cur, n)[Len(filed) + 1] = cur
         /\ \A a : [Filing(filed, cur, n) EXCEPT ![Len(filed) + 1] = a] = Filing(filed, a, n)
<1> DEFINE m == Len(filed)
<1>1. m \in Nat /\ m + 1 \in 1 .. n /\ ~ (m + 1 <= m)
  OBVIOUS
<1>2. \A f : DOMAIN f = 1 .. n => Len(f) = n
  OBVIOUS
<1>3. Len(Filing(filed, cur, n)) = n
  BY DEF Filing
<1>4. Filing(filed, cur, n)[m + 1] = cur
  BY <1>1 DEF Filing
<1>5. ASSUME NEW a
      PROVE  [Filing(filed, cur, n) EXCEPT ![m + 1] = a] = Filing(filed, a, n)
  BY <1>1 DEF Filing
<1>. QED BY <1>1, <1>3, <1>4, <1>5

\* It is filed
LEMMA FilingEnds ==
  ASSUME NEW filed \in Seq(Answer), NEW cur \in Answer, NEW n \in Nat, Len(filed) < n
  PROVE  /\ Filing(filed, cur, n) = Filing(Append(filed, cur), BlankAnswer, n)
         /\ Append(filed, cur) \in Seq(Answer)
         /\ Len(Append(filed, cur)) = Len(filed) + 1
<1> DEFINE m == Len(filed)
           t == Append(filed, cur)
<1>1. m \in Nat
  OBVIOUS
<1>2. /\ t \in Seq(Answer) /\ Len(t) = m + 1 /\ t[m + 1] = cur
      /\ \A i \in 1 .. m : t[i] = filed[i]
  BY AppendProperties
<1> HIDE DEF m, t
<1>3. ASSUME NEW i \in 1 .. n
      PROVE  (IF i <= m THEN filed[i] ELSE IF i = m + 1 THEN cur ELSE BlankAnswer)
               = (IF i <= m + 1 THEN t[i] ELSE IF i = m + 1 + 1 THEN BlankAnswer ELSE BlankAnswer)
  <2>1. CASE i <= m
    BY <1>1, <1>2, <2>1
  <2>2. CASE i = m + 1
    BY <1>1, <1>2, <2>2
  <2>3. CASE i > m + 1
    BY <1>1, <2>3
  <2>. QED BY <1>1, <2>1, <2>2, <2>3
<1>4. Filing(filed, cur, n)
        = [i \in 1 .. n |-> IF i <= m THEN filed[i] ELSE IF i = m + 1 THEN cur ELSE BlankAnswer]
  BY DEF Filing, m
<1>5. Filing(t, BlankAnswer, n)
        = [i \in 1 .. n |-> IF i <= m + 1 THEN t[i]
                            ELSE IF i = m + 1 + 1 THEN BlankAnswer ELSE BlankAnswer]
  BY <1>2 DEF Filing
<1>6. Filing(filed, cur, n) = Filing(t, BlankAnswer, n)
  BY <1>3, <1>4, <1>5
<1>. QED BY <1>2, <1>6 DEF t, m

\* Its type
LEMMA FilingSeq ==
  ASSUME NEW filed \in Seq(Answer), NEW cur \in Answer, NEW n \in Nat
  PROVE  Filing(filed, cur, n) \in Seq(Answer)
<1>1. BlankAnswer \in Answer
  BY DEF BlankAnswer, Answer
<1>2. ASSUME NEW i \in 1 .. n
      PROVE  (IF i <= Len(filed) THEN filed[i] ELSE IF i = Len(filed) + 1 THEN cur ELSE BlankAnswer)
               \in Answer
  BY <1>1
<1>3. Filing(filed, cur, n) \in [1 .. n -> Answer]
  BY <1>2 DEF Filing
<1>. QED BY <1>3

\* The parser at the beginning of a part, or at an octet of a field
Place(d, st, i) == d.state = st /\ d.i = i /\ d.left = 0 /\ d.rdata = <<>>

\* What an answer may be
AnswerOK(name, code, data) ==
  /\ name \in Seq(Nat) /\ EncodedName(name)
  /\ code \in Nat /\ data \in Seq(Nat)
  /\ \/ code = 1 /\ Len(data) = 4
     \/ code = 28 /\ Len(data) = 16
     \/ code = 5 /\ EncodedName(data)
     \/ code = OtherType /\ data = <<>>

AnswerOctets(name, code, data) == name \o Middle(code, Len(data)) \o data

\* The parser after c octets of an answer
AnswerAt(d, n, filed, q, name, code, data, c) ==
  LET k == c - Len(name) IN
  \/ /\ c < Len(name) /\ InName(d, "name", name, c) /\ d.rdata = <<>>
     /\ Holds(d, n, filed, BlankAnswer, q)
  \/ k \in {0, 1} /\ Place(d, "type", k) /\ Holds(d, n, filed, BlankAnswer, q)
  \/ k \in {2, 3} /\ Place(d, "class", k - 2) /\ Holds(d, n, filed, Typed(code), q)
  \/ k \in 4 .. 7 /\ Place(d, "ttl", k - 4) /\ Holds(d, n, filed, Typed(code), q)
  \/ k \in {8, 9} /\ Place(d, "rdlength", k - 8) /\ Holds(d, n, filed, Typed(code), q)
  \/ /\ k >= 10 /\ code = 1 /\ d.state = "ipv4" /\ d.i = 0 /\ d.left = 0
     /\ d.rdata = SubSeq(data, 1, k - 10) /\ Holds(d, n, filed, Typed(code), q)
  \/ /\ k >= 10 /\ code = 28 /\ Place(d, "ipv6", 0)
     /\ Holds(d, n, filed, [type |-> code, address |-> SubSeq(data, 1, k - 10)], q)
  \/ /\ k >= 10 /\ code = 5 /\ InName(d, "cname", data, k - 10) /\ d.rdata = <<>>
     /\ Holds(d, n, filed, Typed(code), q)

\* After all of them
AnswerFed(r, n, filed, q, code, data) ==
  IF code \in {1, 5, 28}
    THEN /\ Place(r, IF Len(filed) + 1 = n THEN "done" ELSE "name", 0)
         /\ Holds(r, n, Append(filed, [type |-> code,
                                       address |-> IF code = 5 THEN <<>> ELSE data]),
                  BlankAnswer, q)
    ELSE r.state = "error" /\ Holds(r, n, filed, Typed(code), q)

\* The octets of an answer
LEMMA AnswerOctetsAre ==
  ASSUME NEW name, NEW code, NEW data, AnswerOK(name, code, data)
  PROVE  LET w == AnswerOctets(name, code, data)
             N == Len(name)
         IN /\ w \in Seq(Nat) /\ N \in Nat /\ N >= 1 /\ Len(data) \in Nat
            /\ Len(w) = N + 10 + Len(data)
            /\ \A i \in 1 .. N : w[i] = name[i]
            /\ w[N + 1] = 0 /\ w[N + 2] = code
            /\ \A i \in 1 .. Len(data) : w[N + 10 + i] = data[i]
<1> DEFINE M == Middle(code, Len(data))
           N == Len(name)
           L == Len(data)
<1>1. name \in Seq(Nat) /\ data \in Seq(Nat) /\ code \in Nat /\ L \in Nat /\ N \in Nat /\ N >= 1
  <2>1. name \in Seq(Nat) /\ data \in Seq(Nat) /\ code \in Nat /\ name # <<>>
    BY DEF AnswerOK, EncodedName
  <2>. QED BY <2>1
<1>2. M \in Seq(Nat) /\ Len(M) = 10 /\ M[1] = 0 /\ M[2] = code
  <2> HIDE DEF L
  <2>. QED BY <1>1 DEF Middle
<1> DEFINE v == name \o M
<1> HIDE DEF M
<1>3. /\ v \in Seq(Nat) /\ Len(v) = N + 10
      /\ \A i \in 1 .. N : v[i] = name[i]
      /\ \A i \in 1 .. 10 : v[N + i] = M[i]
  <2>1. name \in Seq(Nat) /\ M \in Seq(Nat)
    BY <1>1, <1>2
  <2>2. /\ v \in Seq(Nat) /\ Len(v) = Len(name) + Len(M)
        /\ \A i \in 1 .. Len(name) : v[i] = name[i]
        /\ \A i \in 1 .. Len(M) : v[Len(name) + i] = M[i]
    BY <2>1, ConcatIs
  <2>. QED BY <1>2, <2>2
<1> DEFINE w == v \o data
<1>4. /\ w \in Seq(Nat) /\ Len(w) = N + 10 + L
      /\ \A i \in 1 .. N + 10 : w[i] = v[i]
      /\ \A i \in 1 .. L : w[N + 10 + i] = data[i]
  <2>1. v \in Seq(Nat) /\ data \in Seq(Nat)
    BY <1>1, <1>3
  <2> HIDE DEF v
  <2>2. /\ w \in Seq(Nat) /\ Len(w) = Len(v) + Len(data)
        /\ \A i \in 1 .. Len(v) : w[i] = v[i]
        /\ \A i \in 1 .. Len(data) : w[Len(v) + i] = data[i]
    BY <2>1, ConcatIs
  <2>. QED BY <1>3, <2>2
<1>5. w = AnswerOctets(name, code, data)
  BY DEF AnswerOctets, M
<1> HIDE DEF w, v, N, L
<1>6. \A i \in 1 .. N : w[i] = name[i]
  <2>1. \A i \in 1 .. N : i \in 1 .. N + 10
    BY <1>1
  <2>. QED BY <1>3, <1>4, <2>1
<1>7. w[N + 1] = 0 /\ w[N + 2] = code
  <2>1. N + 1 \in 1 .. N + 10 /\ N + 2 \in 1 .. N + 10 /\ 1 \in 1 .. 10 /\ 2 \in 1 .. 10
    BY <1>1
  <2>. QED BY <1>2, <1>3, <1>4, <2>1
<1>. QED BY <1>1, <1>4, <1>5, <1>6, <1>7 DEF N, L

-----------------------------------------------------------------------------
(* The octets of an answer, one after the other *)

\* A name has ended
LEMMA NameEndsIs ==
  ASSUME NEW d \in Dns
  PROVE  /\ d.state \in {"name", "name_pointer"} =>
              /\ NameEnds(d) \in Dns /\ SameTable(d, NameEnds(d))
              /\ NameEnds(d).state = "type" /\ NameEnds(d).i = d.i
         /\ d.state = "qname" =>
              /\ NameEnds(d) \in Dns /\ SameTable(d, NameEnds(d))
              /\ NameEnds(d).state = "qtype" /\ NameEnds(d).i = d.i
         /\ d.state \in {"cname", "cname_pointer"} => NameEnds(d) = AnswerEnds(d)
<1>1. "type" \in DnsStates /\ "qtype" \in DnsStates
  BY DEF DnsStates
<1>2. CASE d.state \in {"name", "name_pointer"}
  <2>1. NameEnds(d) = [d EXCEPT !.state = "type"]
    BY <1>2 DEF NameEnds
  <2>2. LET r == [d EXCEPT !.state = "type"] IN
        r \in Dns /\ SameTable(d, r) /\ r.state = "type" /\ r.i = d.i
    BY <1>1, NewState
  <2>3. d.state # "qname" /\ d.state \notin {"cname", "cname_pointer"}
    BY <1>2
  <2>. QED BY <2>1, <2>2, <2>3
<1>3. CASE d.state = "qname"
  <2>1. NameEnds(d) = [d EXCEPT !.state = "qtype"]
    BY <1>3 DEF NameEnds
  <2>2. LET r == [d EXCEPT !.state = "qtype"] IN
        r \in Dns /\ SameTable(d, r) /\ r.state = "qtype" /\ r.i = d.i
    BY <1>1, NewState
  <2>3. d.state \notin {"name", "name_pointer"} /\ d.state \notin {"cname", "cname_pointer"}
    BY <1>3
  <2>. QED BY <1>3, <2>1, <2>2, <2>3
<1>4. CASE d.state \in {"cname", "cname_pointer"}
  <2>1. NameEnds(d) = AnswerEnds(d)
    BY <1>4 DEF NameEnds
  <2>3. d.state \notin {"name", "name_pointer"} /\ d.state # "qname"
    BY <1>4
  <2>. QED BY <2>1, <2>3
<1>5. CASE d.state \notin {"name", "name_pointer", "qname", "cname", "cname_pointer"}
  BY <1>5
<1>. QED BY <1>2, <1>3, <1>4, <1>5

\* The same table, the same answers
LEMMA StillHolds ==
  ASSUME NEW d, NEW r \in Dns, NEW n, NEW filed, NEW cur, NEW q,
         Holds(d, n, filed, cur, q), SameTable(d, r)
  PROVE  Holds(r, n, filed, cur, q)
BY DEF Holds, SameTable

\* An octet of its name
LEMMA AnswerName ==
  ASSUME NEW n \in Nat, NEW filed \in Seq(Answer), NEW q, NEW name, NEW code, NEW data,
         AnswerOK(name, code, data), NEW c \in 0 .. Len(name) - 1, NEW d,
         InName(d, "name", name, c), d.rdata = <<>>, Holds(d, n, filed, BlankAnswer, q)
  PROVE  AnswerAt(DnsFeed(d, name[c + 1]), n, filed, q, name, code, data, c + 1)
<1> DEFINE r == DnsFeed(d, name[c + 1])
           st == "name"
           N == Len(name)
<1>0. d \in Dns /\ name \in Seq(Int) /\ EncodedName(name) /\ N \in Nat /\ c \in 0 .. N - 1
  BY DEF Holds, AnswerOK
<1>1. /\ c + 1 < N =>
           /\ r \in Dns
           /\ InName(r, st, name, c + 1)
           /\ r.qname = d.qname \o Kept(d, name, c)
           /\ r.ancount = d.ancount /\ r.index = d.index /\ r.answers = d.answers
           /\ r.rdata = d.rdata
      /\ c + 1 = N => d.left = 0 /\ r = NameEnds(d)
  <2>1. st \in {"qname", "name", "cname"} /\ (st = "qname" => LabelsFit(name))
    OBVIOUS
  <2>2. InName(d, st, name, c)
    OBVIOUS
  <2> HIDE DEF st
  <2>. QED BY <1>0, <2>1, <2>2, NameOctet DEF r
<1>2. d.state \in {"name", "name_pointer"} /\ d.i = 0
  BY DEF InName, PointerOf
<1>3. CASE c + 1 < N
  <2>1. Kept(d, name, c) = <<>>
    BY <1>2 DEF Kept
  <2>2. r.qname = d.qname
    <3>1. d.qname \in Seq(Int)
      BY <1>0, DnsFields
    <3>2. d.qname \o <<>> = d.qname
      BY <3>1
    <3>. QED BY <1>1, <1>3, <2>1, <3>2
  <2> HIDE DEF r
  <2>3. Holds(r, n, filed, BlankAnswer, q)
    BY <1>1, <1>3, <2>2 DEF Holds
  <2>4. r.rdata = <<>> /\ InName(r, "name", name, c + 1)
    BY <1>1, <1>3
  <2>. QED BY <1>3, <2>3, <2>4 DEF AnswerAt, r
<1>4. CASE c + 1 = N
  <2>1. r \in Dns /\ SameTable(d, r) /\ r.state = "type" /\ r.i = 0 /\ d.left = 0
    BY <1>0, <1>1, <1>2, <1>4, NameEndsIs
  <2> HIDE DEF r
  <2>2. Holds(r, n, filed, BlankAnswer, q)
    BY <2>1, StillHolds
  <2>3. Place(r, "type", 0)
    BY <2>1 DEF Place, SameTable
  <2>4. (c + 1) - N = 0
    BY <1>0, <1>4
  <2>. QED BY <2>2, <2>3, <2>4 DEF AnswerAt, r
<1>. QED BY <1>0, <1>3, <1>4

\* The type
LEMMA AnswerType ==
  ASSUME NEW n \in Nat, NEW filed \in Seq(Answer), Len(filed) < n, NEW q, NEW code \in Nat,
         NEW k \in {0, 1}, NEW c \in Nat, k = 0 => c = 0, k = 1 => c = code,
         NEW d, Place(d, "type", k), Holds(d, n, filed, BlankAnswer, q)
  PROVE  LET r == DnsFeed(d, c) IN
         IF k = 0 THEN Place(r, "type", 1) /\ Holds(r, n, filed, BlankAnswer, q)
         ELSE Place(r, "class", 0) /\ Holds(r, n, filed, Typed(code), q)
<1> DEFINE r == DnsFeed(d, c)
           t == IF k = 0 THEN 0 ELSE code
           m == Len(filed)
<1>1. /\ d \in Dns /\ d.state = "type" /\ d.i = k /\ d.left = 0 /\ d.rdata = <<>>
      /\ d.index = m /\ d.answers = Filing(filed, BlankAnswer, n)
      /\ d.ancount = n /\ d.qname = q
  BY DEF Place, Holds
<1>2. /\ Len(d.answers) = n /\ m + 1 \in 1 .. n /\ d.answers[m + 1] = BlankAnswer
      /\ \A a : [d.answers EXCEPT ![m + 1] = a] = Filing(filed, a, n)
  BY <1>1, FilingIs
<1> HIDE DEF m
<1> DEFINE old == d.answers[d.index + 1]
           u == IF d.i = 0 THEN c * 256 ELSE old.type + c
<1>3. /\ r \in Dns
      /\ Filled(d, r, [type |-> u, address |-> old.address])
      /\ r.index = d.index /\ r.left = d.left /\ r.rdata = d.rdata
      /\ d.i = 0 => r.state = "type" /\ r.i = 1
      /\ d.i = 1 => r.state = "class" /\ r.i = 0
  <2>1. d.i \in {0, 1} /\ d.index + 1 \in 1 .. Len(d.answers) /\ d.state = "type"
    BY <1>1, <1>2
  <2>. QED BY <1>1, <2>1, TypeField
<1>4. old = BlankAnswer
  BY <1>1, <1>2
<1>5. u = t /\ old.address = <<>>
  <2>1. old.type = 0 /\ old.address = <<>>
    BY <1>4 DEF BlankAnswer
  <2> HIDE DEF old
  <2>2. CASE k = 0
    BY <1>1, <2>1, <2>2
  <2>3. CASE k = 1
    BY <1>1, <2>1, <2>3
  <2>. QED BY <2>1, <2>2, <2>3
<1> HIDE DEF old, u, r
<1>6. r.answers = Filing(filed, [type |-> t, address |-> <<>>], n)
      /\ r.qname = q /\ r.ancount = n /\ r.index = m /\ r.left = 0 /\ r.rdata = <<>>
  <2> DEFINE a == [type |-> t, address |-> <<>>]
  <2>1. Filled(d, r, a)
    BY <1>3, <1>5
  <2> HIDE DEF a
  <2>2. r.qname = q /\ r.ancount = n /\ r.answers = [d.answers EXCEPT ![m + 1] = a]
    BY <1>1, <2>1 DEF Filled
  <2>3. [d.answers EXCEPT ![m + 1] = a] = Filing(filed, a, n)
    BY <1>2, Zenon
  <2>4. r.answers = Filing(filed, a, n)
    BY <2>2, <2>3
  <2>. QED BY <1>1, <1>3, <2>2, <2>4 DEF a
<1>7. CASE k = 0
  <2>1. [type |-> t, address |-> <<>>] = BlankAnswer
    BY <1>7 DEF BlankAnswer
  <2>2. Place(r, "type", 1) /\ Holds(r, n, filed, BlankAnswer, q)
    BY <1>1, <1>3, <1>6, <1>7, <2>1 DEF Place, Holds, m
  <2>. QED BY <1>7, <2>2 DEF r
<1>8. CASE k = 1
  <2>1. [type |-> t, address |-> <<>>] = Typed(code)
    BY <1>8 DEF Typed
  <2>2. Place(r, "class", 0) /\ Holds(r, n, filed, Typed(code), q)
    BY <1>1, <1>3, <1>6, <1>8, <2>1 DEF Place, Holds, m
  <2>. QED BY <1>8, <2>2 DEF r
<1>. QED BY <1>7, <1>8

\* An octet of a field that nothing reads
LEMMA PlainPlace ==
  ASSUME NEW st \in {"id", "qdcount", "nscount", "arcount", "qtype", "qclass", "class", "ttl"},
         NEW i \in Nat, NEW d \in Dns, Place(d, st, i), NEW c
  PROVE  LET r == DnsFeed(d, c) IN
         /\ r \in Dns /\ SameTable(d, r)
         /\ IF i + 1 < FieldLength[st] THEN Place(r, st, i + 1)
            ELSE Place(r, FollowedBy[st], 0)
<1> DEFINE r == DnsFeed(d, c)
<1>1. d.state = st /\ d.i = i /\ d.left = 0 /\ d.rdata = <<>>
  BY DEF Place
<1>2. /\ r \in Dns
      /\ SameTable(d, r)
      /\ IF d.i + 1 < FieldLength[d.state] THEN r.state = d.state /\ r.i = d.i + 1
         ELSE r.state = FollowedBy[d.state] /\ r.i = 0
  BY <1>1, PlainField
<1> HIDE DEF r
<1>3. r.left = 0 /\ r.rdata = <<>>
  BY <1>1, <1>2 DEF SameTable
<1>. QED BY <1>1, <1>2, <1>3 DEF Place, r

\* An octet of the data's length
LEMMA AnswerRdlength ==
  ASSUME NEW n \in Nat, NEW filed \in Seq(Answer), Len(filed) < n, NEW q, NEW code \in Nat,
         NEW k \in {0, 1}, NEW c, NEW d, Place(d, "rdlength", k),
         Holds(d, n, filed, Typed(code), q)
  PROVE  LET r == DnsFeed(d, c) IN
         /\ Holds(r, n, filed, Typed(code), q)
         /\ IF k = 0 THEN Place(r, "rdlength", 1)
            ELSE Place(r, IF code = 1 THEN "ipv4" ELSE IF code = 28 THEN "ipv6"
                          ELSE IF code = 5 THEN "cname" ELSE "error", 0)
<1> DEFINE r == DnsFeed(d, c)
           m == Len(filed)
           type == d.answers[d.index + 1].type
<1>1. /\ d \in Dns /\ d.state = "rdlength" /\ d.i = k /\ d.left = 0 /\ d.rdata = <<>>
      /\ d.index = m /\ d.answers = Filing(filed, Typed(code), n)
  BY DEF Place, Holds
<1>2. Len(d.answers) = n /\ m + 1 \in 1 .. n /\ d.answers[m + 1] = Typed(code)
  BY <1>1, FilingIs
<1> HIDE DEF m
<1>3. /\ r \in Dns
      /\ SameTable(d, r)
      /\ d.i = 0 => r.state = "rdlength" /\ r.i = 1
      /\ d.i = 1 => /\ r.i = 0
                    /\ r.state = IF type = 1 THEN "ipv4" ELSE IF type = 28 THEN "ipv6"
                                 ELSE IF type = 5 THEN "cname" ELSE "error"
  <2>1. d.i \in {0, 1} /\ d.index + 1 \in 1 .. Len(d.answers) /\ d.state = "rdlength"
    BY <1>1, <1>2
  <2>. QED BY <1>1, <2>1, RdlengthField
<1>4. type = code
  <2>1. d.answers[d.index + 1] = Typed(code)
    BY <1>1, <1>2
  <2>. QED BY <2>1 DEF Typed
<1> HIDE DEF r, type
<1>5. Holds(r, n, filed, Typed(code), q) /\ r.left = 0 /\ r.rdata = <<>>
  <2>1. r.left = 0 /\ r.rdata = <<>>
    BY <1>1, <1>3 DEF SameTable
  <2>. QED BY <1>3, <2>1, StillHolds
<1>6. CASE k = 0
  BY <1>1, <1>3, <1>5, <1>6 DEF Place, r
<1>7. CASE k = 1
  BY <1>1, <1>3, <1>4, <1>5, <1>7 DEF Place, r
<1>. QED BY <1>6, <1>7

\* An answer has ended
LEMMA AnswerEndsIs ==
  ASSUME NEW n \in Nat, NEW filed \in Seq(Answer), Len(filed) < n, NEW q,
         NEW cur \in Answer, NEW p, Holds(p, n, filed, cur, q),
         p.i = 0, p.left = 0, p.rdata = <<>>
  PROVE  LET r == AnswerEnds(p) IN
         /\ Place(r, IF Len(filed) + 1 = n THEN "done" ELSE "name", 0)
         /\ Holds(r, n, Append(filed, cur), BlankAnswer, q)
<1> DEFINE m == Len(filed)
           s == IF m + 1 = n THEN "done" ELSE "name"
           r == AnswerEnds(p)
<1>1. /\ p \in Dns /\ p.index = m /\ p.ancount = n /\ p.qname = q
      /\ p.answers = Filing(filed, cur, n)
  BY DEF Holds
<1>2. m \in Nat /\ m + 1 \in Nat /\ s \in DnsStates
  BY DEF DnsStates
<1>3. r = [p EXCEPT !.index = m + 1, !.state = s]
  BY <1>1 DEF AnswerEnds
<1> HIDE DEF r, s
<1>4. /\ r \in Dns /\ r.index = m + 1 /\ r.state = s /\ r.i = 0 /\ r.left = 0 /\ r.rdata = <<>>
      /\ r.ancount = n /\ r.qname = q /\ r.answers = p.answers
  <2> HIDE DEF m
  <2>1. /\ r \in Dns /\ r.index = m + 1 /\ r.state = s /\ r.i = p.i /\ r.left = p.left
        /\ r.rdata = p.rdata /\ r.ancount = p.ancount /\ r.qname = p.qname
        /\ r.answers = p.answers
    BY <1>1, <1>2, <1>3 DEF Dns
  <2>. QED BY <1>1, <2>1
<1>5. /\ Filing(filed, cur, n) = Filing(Append(filed, cur), BlankAnswer, n)
      /\ Len(Append(filed, cur)) = m + 1
  BY FilingEnds
<1>6. Holds(r, n, Append(filed, cur), BlankAnswer, q)
  BY <1>1, <1>4, <1>5 DEF Holds
<1>7. Place(r, s, 0)
  BY <1>4 DEF Place
<1>. QED BY <1>6, <1>7 DEF r, s

\* The first elements of a sequence, and one more
LEMMA FirstAndNext ==
  ASSUME NEW s \in Seq(Nat), NEW j \in 0 .. Len(s) - 1
  PROVE  /\ SubSeq(s, 1, j) \in Seq(Nat) /\ Len(SubSeq(s, 1, j)) = j
         /\ Append(SubSeq(s, 1, j), s[j + 1]) = SubSeq(s, 1, j + 1)
         /\ Len(SubSeq(s, 1, j + 1)) = j + 1
         /\ SubSeq(s, 1, j + 1) \in Seq(Nat)
         /\ j + 1 = Len(s) => SubSeq(s, 1, j + 1) = s
<1>0. Len(s) \in Nat /\ j \in Nat /\ j + 1 \in 1 .. Len(s)
  OBVIOUS
<1> DEFINE a == SubSeq(s, 1, j)
           b == SubSeq(s, 1, j + 1)
           x == s[j + 1]
           e == Append(a, x)
<1>1. /\ a \in Seq(Nat) /\ Len(a) = j /\ \A i \in 1 .. j : a[i] = s[i]
  BY <1>0, SMT
<1>2. /\ b \in Seq(Nat) /\ Len(b) = j + 1 /\ \A i \in 1 .. j + 1 : b[i] = s[i]
  BY <1>0, SMT
<1>3. x \in Nat
  BY <1>0
<1> HIDE DEF a, b, x
<1>4. e \in Seq(Nat) /\ Len(e) = Len(a) + 1 /\ e[Len(a) + 1] = x /\ \A i \in 1 .. Len(a) : e[i] = a[i]
  BY <1>1, <1>3, AppendProperties
<1> HIDE DEF e
<1>5. \A i \in 1 .. Len(e) : e[i] = b[i]
  <2>1. ASSUME NEW i \in 1 .. Len(e)
        PROVE  e[i] = b[i]
    <3>1. CASE i = j + 1
      BY <1>0, <1>1, <1>2, <1>4, <3>1 DEF x
    <3>2. CASE i # j + 1
      <4>1. i \in 1 .. j /\ i \in 1 .. j + 1
        BY <1>0, <1>1, <1>4, <3>2
      <4>. QED BY <1>1, <1>2, <1>4, <4>1
    <3>. QED BY <3>1, <3>2
  <2>. QED BY <2>1
<1>6. e = b
  <2>1. Len(e) = Len(b) /\ e \in Seq(Nat) /\ b \in Seq(Nat)
    BY <1>1, <1>2, <1>4
  <2>. QED BY <1>5, <2>1, SeqEqual
<1>7. j + 1 = Len(s) => b = s
  <2>1. CASE j + 1 = Len(s)
    <3>1. Len(b) = Len(s) /\ b \in Seq(Nat) /\ s \in Seq(Nat) /\ \A i \in 1 .. Len(b) : b[i] = s[i]
      BY <1>2, <2>1
    <3>. QED BY <3>1, SeqEqual
  <2>. QED BY <2>1
<1>. QED BY <1>1, <1>2, <1>6, <1>7 DEF a, b, x, e

\* An octet of an IPv4 address
LEMMA Answer4 ==
  ASSUME NEW n \in Nat, NEW filed \in Seq(Answer), Len(filed) < n, NEW q,
         NEW data \in Seq(Nat), Len(data) = 4, NEW j \in 0 .. 3,
         NEW d, d.state = "ipv4", d.i = 0, d.left = 0, d.rdata = SubSeq(data, 1, j),
         Holds(d, n, filed, Typed(1), q)
  PROVE  LET r == DnsFeed(d, data[j + 1]) IN
         IF j < 3
           THEN /\ r.state = "ipv4" /\ r.i = 0 /\ r.left = 0 /\ r.rdata = SubSeq(data, 1, j + 1)
                /\ Holds(r, n, filed, Typed(1), q)
           ELSE /\ Place(r, IF Len(filed) + 1 = n THEN "done" ELSE "name", 0)
                /\ Holds(r, n, Append(filed, [type |-> 1, address |-> data]), BlankAnswer, q)
<1> DEFINE c == data[j + 1]
           r == DnsFeed(d, c)
           m == Len(filed)
           got == SubSeq(data, 1, j + 1)
<1>1. /\ d \in Dns /\ d.index = m /\ d.ancount = n /\ d.qname = q
      /\ d.answers = Filing(filed, Typed(1), n)
  BY DEF Holds
<1>2. /\ Append(d.rdata, c) = got /\ Len(got) = j + 1 /\ got \in Seq(Nat)
      /\ j = 3 => got = data
  <2>1. j \in 0 .. Len(data) - 1 /\ (j = 3 => j + 1 = Len(data))
    OBVIOUS
  <2>. QED BY <2>1, FirstAndNext
<1>3. r = Ipv4Feed(d, c) /\ AddressLength.A = 4
  BY DEF DnsFeed, FieldLength, AddressLength
<1> HIDE DEF r, c, got
<1>4. CASE j < 3
  <2>1. r = [d EXCEPT !.rdata = got]
    BY <1>2, <1>3, <1>4 DEF Ipv4Feed
  <2>2. /\ r \in Dns /\ r.state = d.state /\ r.i = d.i /\ r.left = d.left /\ r.rdata = got
        /\ r.index = d.index /\ r.ancount = d.ancount /\ r.qname = d.qname
        /\ r.answers = d.answers
    BY <1>1, <1>2, <2>1 DEF Dns
  <2>3. Holds(r, n, filed, Typed(1), q)
    BY <1>1, <2>2 DEF Holds
  <2>. QED BY <1>4, <2>2, <2>3 DEF r, c, got
<1>5. CASE j = 3
  <2> DEFINE p == [d EXCEPT !.rdata = <<>>, !.answers[d.index + 1].address = got]
             cur == [type |-> 1, address |-> data]
  <2>1. r = AnswerEnds(p)
    <3>1. Len(Append(d.rdata, c)) = 4 /\ Append(d.rdata, c) = got
      BY <1>2, <1>5
    <3>2. Ipv4Feed(d, c)
            = IF Len(Append(d.rdata, c)) < 4 THEN [d EXCEPT !.rdata = Append(d.rdata, c)]
              ELSE AnswerEnds([d EXCEPT !.rdata = <<>>,
                                        !.answers[d.index + 1].address = Append(d.rdata, c)])
      BY <1>3 DEF Ipv4Feed
    <3>. QED BY <1>3, <3>1, <3>2
  <2>2. cur \in Answer
    BY DEF Answer
  <2>3. d.answers[d.index + 1] = Typed(1)
    <3>1. Filing(filed, Typed(1), n)[Len(filed) + 1] = Typed(1)
      BY FilingIs
    <3>. QED BY <1>1, <3>1
  <2>4. [d.answers[d.index + 1] EXCEPT !.address = got] = cur
    BY <1>2, <1>5, <2>3 DEF Typed
  <2> HIDE DEF cur, p
  <2>5. [d.answers EXCEPT ![d.index + 1] = cur] = Filing(filed, cur, n)
    <3>1. \A a : [Filing(filed, Typed(1), n) EXCEPT ![m + 1] = a] = Filing(filed, a, n)
      BY FilingIs
    <3>. QED BY <1>1, <3>1, Zenon
  <2>6. p = [d EXCEPT !.rdata = <<>>, !.answers = Filing(filed, cur, n)]
    <3>1. d.answers \in Seq(Answer)
      BY <1>1, DnsFields
    <3>2. [d.answers EXCEPT ![d.index + 1].address = got]
            = [d.answers EXCEPT ![d.index + 1] = [d.answers[d.index + 1] EXCEPT !.address = got]]
      BY <3>1
    <3>. QED BY <2>4, <2>5, <3>2 DEF p
  <2>7. Filing(filed, cur, n) \in Seq(Answer)
    BY <2>2, FilingSeq
  <2>8. /\ p \in Dns /\ p.i = d.i /\ p.left = d.left /\ p.rdata = <<>>
        /\ p.index = d.index /\ p.ancount = d.ancount /\ p.qname = d.qname
        /\ p.answers = Filing(filed, cur, n)
    <3> HIDE DEF m
    <3>1. <<>> \in Seq(Nat)
      OBVIOUS
    <3>. QED BY <1>1, <2>6, <2>7, <3>1 DEF Dns
  <2>9. Holds(p, n, filed, cur, q) /\ p.i = 0 /\ p.left = 0 /\ p.rdata = <<>>
    BY <1>1, <2>8 DEF Holds
  <2>10. /\ Place(r, IF Len(filed) + 1 = n THEN "done" ELSE "name", 0)
         /\ Holds(r, n, Append(filed, cur), BlankAnswer, q)
    BY <2>1, <2>2, <2>9, AnswerEndsIs
  <2>. QED BY <1>5, <2>10 DEF r, c, cur
<1>. QED BY <1>4, <1>5

\* An octet of an IPv6 address
LEMMA Answer16 ==
  ASSUME NEW n \in Nat, NEW filed \in Seq(Answer), Len(filed) < n, NEW q,
         NEW data \in Seq(Nat), Len(data) = 16, NEW j \in 0 .. 15,
         NEW d, Place(d, "ipv6", 0),
         Holds(d, n, filed, [type |-> 28, address |-> SubSeq(data, 1, j)], q)
  PROVE  LET r == DnsFeed(d, data[j + 1]) IN
         IF j < 15
           THEN /\ Place(r, "ipv6", 0)
                /\ Holds(r, n, filed, [type |-> 28, address |-> SubSeq(data, 1, j + 1)], q)
           ELSE /\ Place(r, IF Len(filed) + 1 = n THEN "done" ELSE "name", 0)
                /\ Holds(r, n, Append(filed, [type |-> 28, address |-> data]), BlankAnswer, q)
<1> DEFINE c == data[j + 1]
           r == DnsFeed(d, c)
           m == Len(filed)
           old == SubSeq(data, 1, j)
           got == SubSeq(data, 1, j + 1)
           was == [type |-> 28, address |-> old]
           cur == [type |-> 28, address |-> got]
           p == [d EXCEPT !.answers[d.index + 1].address = Append(@, c)]
<1>1. /\ d \in Dns /\ d.index = m /\ d.ancount = n /\ d.qname = q
      /\ d.answers = Filing(filed, was, n)
      /\ d.state = "ipv6" /\ d.i = 0 /\ d.left = 0 /\ d.rdata = <<>>
  BY DEF Holds, Place
<1>2. /\ Append(old, c) = got /\ Len(got) = j + 1 /\ got \in Seq(Nat)
      /\ j = 15 => got = data
  <2>1. j \in 0 .. Len(data) - 1 /\ (j = 15 => j + 1 = Len(data))
    OBVIOUS
  <2> HIDE DEF cur, p, was, r
  <2>2. /\ Append(SubSeq(data, 1, j), data[j + 1]) = SubSeq(data, 1, j + 1)
        /\ Len(SubSeq(data, 1, j + 1)) = j + 1
        /\ SubSeq(data, 1, j + 1) \in Seq(Nat)
        /\ j + 1 = Len(data) => SubSeq(data, 1, j + 1) = data
    BY <2>1, FirstAndNext
  <2>. QED BY <2>1, <2>2
<1>3. DnsFeed(d, c) = Ipv6Feed(d, c) /\ AddressLength.AAAA = 16
  BY <1>1 DEF DnsFeed, FieldLength, AddressLength
<1> HIDE DEF old, got, c, was
<1>4. cur \in Answer
  BY <1>2 DEF Answer
<1>5. d.answers[d.index + 1] = was
  BY <1>1, FilingIs
<1>6. [d.answers[d.index + 1] EXCEPT !.address = Append(@, c)] = cur
  <2>1. [was EXCEPT !.address = Append(@, c)] = [type |-> 28, address |-> Append(old, c)]
    <3>1. was.address = old
      BY DEF was
    <3>2. \A x : [was EXCEPT !.address = x] = [type |-> 28, address |-> x]
      BY DEF was
    <3> HIDE DEF p, r, cur
    <3>. QED BY <3>1, <3>2, Zenon
  <2>2. [was EXCEPT !.address = Append(@, c)] = cur
    BY <1>2, <2>1
  <2> HIDE DEF cur
  <2>. QED BY <1>5, <2>2
<1> HIDE DEF cur
<1>7. [d.answers EXCEPT ![d.index + 1] = cur] = Filing(filed, cur, n)
  <2>1. \A a : [Filing(filed, was, n) EXCEPT ![m + 1] = a] = Filing(filed, a, n)
    BY FilingIs
  <2> HIDE DEF p, r
  <2>. QED BY <1>1, <2>1, Zenon
<1>8. p = [d EXCEPT !.answers = Filing(filed, cur, n)]
  <2>1. d.answers \in Seq(Answer)
    BY <1>1, DnsFields
  <2>2. [d.answers EXCEPT ![d.index + 1].address = Append(@, c)]
          = [d.answers EXCEPT ![d.index + 1] =
               [d.answers[d.index + 1] EXCEPT !.address = Append(@, c)]]
    BY <2>1
  <2>. QED BY <1>6, <1>7, <2>2 DEF p
<1>9. Filing(filed, cur, n) \in Seq(Answer)
  BY <1>4, FilingSeq
<1>10. r = IF Len(p.answers[d.index + 1].address) < 16 THEN p ELSE AnswerEnds(p)
  <2>1. p.index = d.index
    OBVIOUS
  <2>. QED BY <1>3, <2>1 DEF Ipv6Feed
<1> HIDE DEF p, r
<1>11. /\ p \in Dns /\ p.state = d.state /\ p.i = d.i /\ p.left = d.left /\ p.rdata = d.rdata
       /\ p.index = d.index /\ p.ancount = d.ancount /\ p.qname = d.qname
       /\ p.answers = Filing(filed, cur, n)
  BY <1>1, <1>8, <1>9 DEF Dns
<1>12. Holds(p, n, filed, cur, q) /\ Place(p, "ipv6", 0)
  BY <1>1, <1>11 DEF Holds, Place
<1>13. Len(p.answers[d.index + 1].address) = j + 1
  <2>1. p.answers[d.index + 1] = cur
    BY <1>1, <1>11, FilingIs
  <2>. QED BY <1>2, <2>1 DEF cur
<1>14. CASE j < 15
  <2>1. r = p
    BY <1>10, <1>13, <1>14
  <2>. QED BY <1>12, <1>14, <2>1 DEF r, c, cur, got
<1>15. CASE j = 15
  <2>1. r = AnswerEnds(p)
    BY <1>10, <1>13, <1>15
  <2>2. p.i = 0 /\ p.left = 0 /\ p.rdata = <<>>
    BY <1>12 DEF Place
  <2>3. /\ Place(r, IF Len(filed) + 1 = n THEN "done" ELSE "name", 0)
        /\ Holds(r, n, Append(filed, cur), BlankAnswer, q)
    BY <1>4, <1>12, <2>1, <2>2, AnswerEndsIs
  <2>4. cur = [type |-> 28, address |-> data]
    BY <1>2, <1>15 DEF cur
  <2>. QED BY <1>15, <2>3, <2>4 DEF r, c
<1>. QED BY <1>14, <1>15

\* An octet of an alias
LEMMA AnswerAlias ==
  ASSUME NEW n \in Nat, NEW filed \in Seq(Answer), Len(filed) < n, NEW q,
         NEW data \in Seq(Nat), EncodedName(data), NEW j \in 0 .. Len(data) - 1,
         NEW d, InName(d, "cname", data, j), d.rdata = <<>>,
         Holds(d, n, filed, Typed(5), q)
  PROVE  LET r == DnsFeed(d, data[j + 1]) IN
         IF j + 1 < Len(data)
           THEN /\ InName(r, "cname", data, j + 1) /\ r.rdata = <<>>
                /\ Holds(r, n, filed, Typed(5), q)
           ELSE /\ Place(r, IF Len(filed) + 1 = n THEN "done" ELSE "name", 0)
                /\ Holds(r, n, Append(filed, Typed(5)), BlankAnswer, q)
<1> DEFINE r == DnsFeed(d, data[j + 1])
           st == "cname"
           N == Len(data)
<1>0. d \in Dns /\ data \in Seq(Int) /\ EncodedName(data) /\ N \in Nat /\ j \in 0 .. N - 1
  BY DEF Holds
<1>1. /\ j + 1 < N =>
           /\ r \in Dns
           /\ InName(r, st, data, j + 1)
           /\ r.qname = d.qname \o Kept(d, data, j)
           /\ r.ancount = d.ancount /\ r.index = d.index /\ r.answers = d.answers
           /\ r.rdata = d.rdata
      /\ j + 1 = N => d.left = 0 /\ r = NameEnds(d)
  <2>1. st \in {"qname", "name", "cname"} /\ (st = "qname" => LabelsFit(data))
    OBVIOUS
  <2>2. InName(d, st, data, j)
    OBVIOUS
  <2> HIDE DEF st
  <2>. QED BY <1>0, <2>1, <2>2, NameOctet DEF r
<1>2. d.state \in {"cname", "cname_pointer"} /\ d.i = 0
  BY DEF InName, PointerOf
<1>3. CASE j + 1 < N
  <2>1. Kept(d, data, j) = <<>>
    BY <1>2 DEF Kept
  <2>2. r.qname = d.qname
    <3>1. d.qname \in Seq(Int)
      BY <1>0, DnsFields
    <3>2. d.qname \o <<>> = d.qname
      BY <3>1
    <3>. QED BY <1>1, <1>3, <2>1, <3>2
  <2> HIDE DEF r
  <2>3. Holds(r, n, filed, Typed(5), q)
    BY <1>1, <1>3, <2>2 DEF Holds
  <2>. QED BY <1>1, <1>3, <2>3 DEF r
<1>4. CASE j + 1 = N
  <2>1. r = AnswerEnds(d) /\ d.left = 0
    BY <1>0, <1>1, <1>2, <1>4, NameEndsIs
  <2>2. Typed(5) \in Answer
    BY DEF Typed, Answer
  <2> HIDE DEF r
  <2>3. /\ Place(r, IF Len(filed) + 1 = n THEN "done" ELSE "name", 0)
        /\ Holds(r, n, Append(filed, Typed(5)), BlankAnswer, q)
    BY <1>2, <2>1, <2>2, AnswerEndsIs
  <2>. QED BY <1>0, <1>4, <2>3 DEF r
<1>. QED BY <1>0, <1>3, <1>4

\* The type that the parser does not know
LEMMA OtherIs == OtherType \in 0 .. 255 /\ OtherType \notin {1, 5, 28}
BY ResponseAssumption

\* The octets of an answer after its name
LEMMA AnswerField ==
  ASSUME NEW n \in Nat, NEW filed \in Seq(Answer), Len(filed) < n, NEW q,
         NEW name, NEW code, NEW data, AnswerOK(name, code, data),
         NEW k \in 0 .. 9, NEW x \in Nat, k = 0 => x = 0, k = 1 => x = code,
         NEW d, AnswerAt(d, n, filed, q, name, code, data, Len(name) + k)
  PROVE  LET r == DnsFeed(d, x) IN
         IF k = 9 /\ code \notin {1, 5, 28} THEN AnswerFed(r, n, filed, q, code, data)
         ELSE AnswerAt(r, n, filed, q, name, code, data, Len(name) + (k + 1))
<1> DEFINE r == DnsFeed(d, x)
           N == Len(name)
           c == N + k
           b == N + (k + 1)
<1>0. /\ N \in Nat /\ code \in Nat /\ data \in Seq(Nat) /\ name \in Seq(Nat)
      /\ c - N = k /\ ~(c < N) /\ b - N = k + 1 /\ ~(k >= 10)
  <2>1. name \in Seq(Nat) /\ code \in Nat /\ data \in Seq(Nat)
    BY DEF AnswerOK
  <2>. QED BY <2>1
<1>1. \/ k \in {0, 1} /\ Place(d, "type", k) /\ Holds(d, n, filed, BlankAnswer, q)
      \/ k \in {2, 3} /\ Place(d, "class", k - 2) /\ Holds(d, n, filed, Typed(code), q)
      \/ k \in 4 .. 7 /\ Place(d, "ttl", k - 4) /\ Holds(d, n, filed, Typed(code), q)
      \/ k \in {8, 9} /\ Place(d, "rdlength", k - 8) /\ Holds(d, n, filed, Typed(code), q)
  BY <1>0 DEF AnswerAt
<1> HIDE DEF r, b, c, N
<1>2. CASE k \in {0, 1} /\ Place(d, "type", k) /\ Holds(d, n, filed, BlankAnswer, q)
  <2>1. IF k = 0 THEN Place(r, "type", 1) /\ Holds(r, n, filed, BlankAnswer, q)
        ELSE Place(r, "class", 0) /\ Holds(r, n, filed, Typed(code), q)
    BY <1>0, <1>2, AnswerType DEF r
  <2>2. AnswerAt(r, n, filed, q, name, code, data, b)
    <3>1. CASE k = 0
      BY <1>0, <2>1, <3>1 DEF AnswerAt, N
    <3>2. CASE k = 1
      <4>1. b - N = 2 /\ 2 - 2 = 0
        BY <1>0, <3>2
      <4>. QED BY <2>1, <3>2, <4>1 DEF AnswerAt, N
    <3>. QED BY <1>2, <3>1, <3>2
  <2>. QED BY <1>2, <2>2 DEF r, b, N
<1>3. CASE k \in {2, 3} /\ Place(d, "class", k - 2) /\ Holds(d, n, filed, Typed(code), q)
  <2>0. d \in Dns /\ k - 2 \in Nat /\ FieldLength["class"] = 2 /\ FollowedBy["class"] = "ttl"
    BY <1>3 DEF Holds, FieldLength, FollowedBy
  <2>1. /\ r \in Dns /\ SameTable(d, r)
        /\ IF (k - 2) + 1 < FieldLength["class"] THEN Place(r, "class", (k - 2) + 1)
           ELSE Place(r, FollowedBy["class"], 0)
    BY <1>3, <2>0, PlainPlace DEF r
  <2>2. Holds(r, n, filed, Typed(code), q)
    BY <1>3, <2>1, StillHolds
  <2>3. AnswerAt(r, n, filed, q, name, code, data, b)
    <3>1. CASE k = 2
      <4>1. b - N = 3 /\ 3 - 2 = 1 /\ (k - 2) + 1 = 1 /\ 1 < 2
        BY <1>0, <3>1
      <4>. QED BY <2>0, <2>1, <2>2, <4>1 DEF AnswerAt, N
    <3>2. CASE k = 3
      <4>1. b - N = 4 /\ 4 - 4 = 0 /\ (k - 2) + 1 = 2 /\ ~(2 < 2)
        BY <1>0, <3>2
      <4>. QED BY <2>0, <2>1, <2>2, <4>1 DEF AnswerAt, N
    <3>. QED BY <1>3, <3>1, <3>2
  <2>. QED BY <1>3, <2>3 DEF r, b, N
<1>4. CASE k \in 4 .. 7 /\ Place(d, "ttl", k - 4) /\ Holds(d, n, filed, Typed(code), q)
  <2>0. d \in Dns /\ k - 4 \in Nat /\ FieldLength["ttl"] = 4 /\ FollowedBy["ttl"] = "rdlength"
    BY <1>4 DEF Holds, FieldLength, FollowedBy
  <2>1. /\ r \in Dns /\ SameTable(d, r)
        /\ IF (k - 4) + 1 < FieldLength["ttl"] THEN Place(r, "ttl", (k - 4) + 1)
           ELSE Place(r, FollowedBy["ttl"], 0)
    BY <1>4, <2>0, PlainPlace DEF r
  <2>2. Holds(r, n, filed, Typed(code), q)
    BY <1>4, <2>1, StillHolds
  <2>3. AnswerAt(r, n, filed, q, name, code, data, b)
    <3>1. CASE k \in 4 .. 6
      <4>1. b - N \in 4 .. 7 /\ (b - N) - 4 = (k - 4) + 1 /\ (k - 4) + 1 < 4
        BY <1>0, <3>1
      <4>. QED BY <2>0, <2>1, <2>2, <4>1 DEF AnswerAt, N
    <3>2. CASE k = 7
      <4>1. b - N = 8 /\ 8 - 8 = 0 /\ (k - 4) + 1 = 4 /\ ~(4 < 4)
        BY <1>0, <3>2
      <4>. QED BY <2>0, <2>1, <2>2, <4>1 DEF AnswerAt, N
    <3>. QED BY <1>4, <3>1, <3>2
  <2>. QED BY <1>4, <2>3 DEF r, b, N
<1>5. CASE k \in {8, 9} /\ Place(d, "rdlength", k - 8) /\ Holds(d, n, filed, Typed(code), q)
  <2> DEFINE j == k - 8
  <2>0. j \in {0, 1} /\ (k = 8 => j = 0) /\ (k = 9 => j = 1) /\ Place(d, "rdlength", j)
    BY <1>5
  <2> HIDE DEF j
  <2>1. /\ Holds(r, n, filed, Typed(code), q)
        /\ IF j = 0 THEN Place(r, "rdlength", 1)
           ELSE Place(r, IF code = 1 THEN "ipv4" ELSE IF code = 28 THEN "ipv6"
                         ELSE IF code = 5 THEN "cname" ELSE "error", 0)
    BY <1>0, <1>5, <2>0, AnswerRdlength DEF r
  <2>2. CASE k = 8
    <3>1. b - N = 9 /\ 9 - 8 = 1
      BY <1>0, <2>2
    <3>2. Place(r, "rdlength", 1)
      BY <2>0, <2>1, <2>2
    <3>3. AnswerAt(r, n, filed, q, name, code, data, b)
      BY <2>1, <3>1, <3>2 DEF AnswerAt, N
    <3>. QED BY <2>2, <3>3 DEF r, b, N
  <2>3. CASE k = 9
    <3>1. b - N = 10 /\ 10 - 10 = 0 /\ 10 >= 10
      BY <1>0, <2>3
    <3>2. SubSeq(data, 1, 0) = <<>>
      BY <1>0
    <3>3. Place(r, IF code = 1 THEN "ipv4" ELSE IF code = 28 THEN "ipv6"
                   ELSE IF code = 5 THEN "cname" ELSE "error", 0)
      BY <2>0, <2>1, <2>3
    <3>4. CASE code = 1
      <4>1. r.state = "ipv4" /\ r.i = 0 /\ r.left = 0 /\ r.rdata = SubSeq(data, 1, 0)
        BY <3>2, <3>3, <3>4 DEF Place
      <4>2. AnswerAt(r, n, filed, q, name, code, data, b)
        BY <2>1, <3>1, <3>4, <4>1 DEF AnswerAt, N
      <4>. QED BY <3>4, <4>2 DEF r, b, N
    <3>5. CASE code = 28
      <4>1. Place(r, "ipv6", 0)
        BY <3>3, <3>5
      <4>2. Typed(code) = [type |-> code, address |-> SubSeq(data, 1, 0)]
        BY <3>2 DEF Typed
      <4>3. AnswerAt(r, n, filed, q, name, code, data, b)
        BY <2>1, <3>1, <3>5, <4>1, <4>2 DEF AnswerAt, N
      <4>. QED BY <3>5, <4>3 DEF r, b, N
    <3>6. CASE code = 5
      <4>1. r.state = "cname" /\ r.i = 0 /\ r.left = 0 /\ r.rdata = <<>>
        BY <3>3, <3>6 DEF Place
      <4>2. EncodedName(data)
        <5>1. OtherType # 5
          BY OtherIs
        <5>. QED BY <3>6, <5>1 DEF AnswerOK
      <4>3. Len(data) >= 1 /\ data \in Seq(Int)
        <5>1. data # <<>>
          BY <4>2 DEF EncodedName
        <5>. QED BY <1>0, <5>1
      <4>4. Walk(data, 0, r.left)
        BY <4>1, <4>3, WalkBegins
      <4>5. InName(r, "cname", data, 0)
        BY <4>1, <4>4 DEF InName
      <4>6. AnswerAt(r, n, filed, q, name, code, data, b)
        BY <2>1, <3>1, <3>6, <4>1, <4>5 DEF AnswerAt, N
      <4>. QED BY <3>6, <4>6 DEF r, b, N
    <3>7. CASE code \notin {1, 5, 28}
      <4>1. r.state = "error"
        BY <3>3, <3>7 DEF Place
      <4>2. AnswerFed(r, n, filed, q, code, data)
        BY <2>1, <3>7, <4>1 DEF AnswerFed
      <4>. QED BY <2>3, <3>7, <4>2 DEF r
    <3>. QED BY <3>4, <3>5, <3>6, <3>7
  <2>. QED BY <1>5, <2>2, <2>3
<1>. QED BY <1>1, <1>2, <1>3, <1>4, <1>5

\* The octets of its data
LEMMA AnswerData ==
  ASSUME NEW n \in Nat, NEW filed \in Seq(Answer), Len(filed) < n, NEW q,
         NEW name, NEW code, NEW data, AnswerOK(name, code, data),
         NEW j \in 0 .. Len(data) - 1,
         NEW d, AnswerAt(d, n, filed, q, name, code, data, Len(name) + 10 + j)
  PROVE  LET r == DnsFeed(d, data[j + 1]) IN
         IF j + 1 = Len(data) THEN AnswerFed(r, n, filed, q, code, data)
         ELSE AnswerAt(r, n, filed, q, name, code, data, Len(name) + 10 + (j + 1))
<1> DEFINE r == DnsFeed(d, data[j + 1])
           N == Len(name)
           L == Len(data)
           c == N + 10 + j
           b == N + 10 + (j + 1)
           k == c - N
<1>0. /\ N \in Nat /\ code \in Nat /\ data \in Seq(Nat) /\ L \in Nat /\ j \in Nat
      /\ k - 10 = j /\ (b - N) - 10 = j + 1 /\ b - N >= 10 /\ ~(c < N)
      /\ k \notin 0 .. 9
  <2>1. name \in Seq(Nat) /\ code \in Nat /\ data \in Seq(Nat)
    BY DEF AnswerOK
  <2>2. N \in Nat /\ L \in Nat /\ j \in Nat
    BY <2>1
  <2>. HIDE DEF N, L
  <2>. QED BY <2>1, <2>2
<1>1. \/ /\ code = 1 /\ d.state = "ipv4" /\ d.i = 0 /\ d.left = 0
         /\ d.rdata = SubSeq(data, 1, j) /\ Holds(d, n, filed, Typed(code), q)
      \/ /\ code = 28 /\ Place(d, "ipv6", 0)
         /\ Holds(d, n, filed, [type |-> code, address |-> SubSeq(data, 1, j)], q)
      \/ /\ code = 5 /\ InName(d, "cname", data, j) /\ d.rdata = <<>>
         /\ Holds(d, n, filed, Typed(code), q)
  <2>1. AnswerAt(d, n, filed, q, name, code, data, c) /\ k \notin {0, 1} /\ k \notin {2, 3}
        /\ k \notin 4 .. 7 /\ k \notin {8, 9}
    BY <1>0
  <2> HIDE DEF k
  <2>2. \/ k >= 10 /\ code = 1 /\ d.state = "ipv4" /\ d.i = 0 /\ d.left = 0
           /\ d.rdata = SubSeq(data, 1, k - 10) /\ Holds(d, n, filed, Typed(code), q)
        \/ k >= 10 /\ code = 28 /\ Place(d, "ipv6", 0)
           /\ Holds(d, n, filed, [type |-> code, address |-> SubSeq(data, 1, k - 10)], q)
        \/ k >= 10 /\ code = 5 /\ InName(d, "cname", data, k - 10) /\ d.rdata = <<>>
           /\ Holds(d, n, filed, Typed(code), q)
    <3> HIDE DEF c
    <3>. QED BY <1>0, <2>1 DEF AnswerAt, k
  <2>. QED BY <1>0, <2>2
<1>2. OtherType \notin {1, 5, 28}
  BY OtherIs
<1>3. /\ code = 1 => L = 4
      /\ code = 28 => L = 16
      /\ code = 5 => EncodedName(data)
  BY <1>2 DEF AnswerOK
<1> HIDE DEF r, b, c, k, N, L
<1>4. CASE /\ code = 1 /\ d.state = "ipv4" /\ d.i = 0 /\ d.left = 0
           /\ d.rdata = SubSeq(data, 1, j) /\ Holds(d, n, filed, Typed(code), q)
  <2>1. Len(data) = 4 /\ j \in 0 .. 3
    <3>1. L = 4
      BY <1>3, <1>4
    <3>. QED BY <3>1 DEF L
  <2>2. IF j < 3
           THEN /\ r.state = "ipv4" /\ r.i = 0 /\ r.left = 0 /\ r.rdata = SubSeq(data, 1, j + 1)
                /\ Holds(r, n, filed, Typed(1), q)
           ELSE /\ Place(r, IF Len(filed) + 1 = n THEN "done" ELSE "name", 0)
                /\ Holds(r, n, Append(filed, [type |-> 1, address |-> data]), BlankAnswer, q)
    <3>1. Holds(d, n, filed, Typed(1), q)
      BY <1>4
    <3>2. d.state = "ipv4" /\ d.i = 0 /\ d.left = 0 /\ d.rdata = SubSeq(data, 1, j)
      BY <1>4
    <3>3. data \in Seq(Nat)
      BY <1>0
    <3>. QED BY <2>1, <3>1, <3>2, <3>3, Answer4 DEF r
  <2>3. CASE j < 3
    <3>1. AnswerAt(r, n, filed, q, name, code, data, b)
      BY <1>0, <1>4, <2>2, <2>3 DEF AnswerAt, N
    <3>2. j + 1 # Len(data)
      BY <2>1, <2>3
    <3>. QED BY <3>1, <3>2 DEF r, b, N
  <2>4. CASE j = 3
    <3>1. AnswerFed(r, n, filed, q, code, data)
      BY <1>4, <2>2, <2>4 DEF AnswerFed
    <3>. QED BY <2>1, <2>4, <3>1 DEF r
  <2>. QED BY <2>1, <2>3, <2>4
<1>5. CASE /\ code = 28 /\ Place(d, "ipv6", 0)
           /\ Holds(d, n, filed, [type |-> code, address |-> SubSeq(data, 1, j)], q)
  <2>1. Len(data) = 16 /\ j \in 0 .. 15
    <3>1. L = 16
      BY <1>3, <1>5
    <3>. QED BY <3>1 DEF L
  <2>2. IF j < 15
           THEN /\ Place(r, "ipv6", 0)
                /\ Holds(r, n, filed, [type |-> 28, address |-> SubSeq(data, 1, j + 1)], q)
           ELSE /\ Place(r, IF Len(filed) + 1 = n THEN "done" ELSE "name", 0)
                /\ Holds(r, n, Append(filed, [type |-> 28, address |-> data]), BlankAnswer, q)
    <3>1. Holds(d, n, filed, [type |-> 28, address |-> SubSeq(data, 1, j)], q)
      BY <1>5
    <3>. QED BY <1>0, <1>5, <2>1, <3>1, Answer16 DEF r
  <2>3. CASE j < 15
    <3>1. AnswerAt(r, n, filed, q, name, code, data, b)
      BY <1>0, <1>5, <2>2, <2>3 DEF AnswerAt, N
    <3>2. j + 1 # Len(data)
      BY <2>1, <2>3
    <3>. QED BY <3>1, <3>2 DEF r, b, N
  <2>4. CASE j = 15
    <3>1. AnswerFed(r, n, filed, q, code, data)
      BY <1>5, <2>2, <2>4 DEF AnswerFed
    <3>. QED BY <2>1, <2>4, <3>1 DEF r
  <2>. QED BY <2>1, <2>3, <2>4
<1>6. CASE /\ code = 5 /\ InName(d, "cname", data, j) /\ d.rdata = <<>>
           /\ Holds(d, n, filed, Typed(code), q)
  <2>1. EncodedName(data) /\ Holds(d, n, filed, Typed(5), q)
    BY <1>3, <1>6
  <2>2. IF j + 1 < L
           THEN /\ InName(r, "cname", data, j + 1) /\ r.rdata = <<>>
                /\ Holds(r, n, filed, Typed(5), q)
           ELSE /\ Place(r, IF Len(filed) + 1 = n THEN "done" ELSE "name", 0)
                /\ Holds(r, n, Append(filed, Typed(5)), BlankAnswer, q)
    BY <1>0, <1>6, <2>1, AnswerAlias DEF r, L
  <2>3. CASE j + 1 < L
    <3>1. AnswerAt(r, n, filed, q, name, code, data, b)
      BY <1>0, <1>6, <2>2, <2>3 DEF AnswerAt, N
    <3>2. j + 1 # Len(data)
      BY <1>0, <2>3 DEF L
    <3>. QED BY <3>1, <3>2 DEF r, b, N
  <2>4. CASE j + 1 = L
    <3>1. AnswerFed(r, n, filed, q, code, data)
      BY <1>0, <1>6, <2>2, <2>4 DEF AnswerFed, Typed
    <3>. QED BY <2>4, <3>1 DEF r, L
  <2>. QED BY <1>0, <2>3, <2>4 DEF L
<1>. QED BY <1>1, <1>4, <1>5, <1>6

\* Each octet of an answer leads to the next place, the last one to its end
LEMMA AnswerOctet ==
  ASSUME NEW n \in Nat, NEW filed \in Seq(Answer), Len(filed) < n, NEW q,
         NEW name, NEW code, NEW data, AnswerOK(name, code, data),
         NEW c \in 0 .. Len(AnswerOctets(name, code, data)) - 1,
         NEW d, AnswerAt(d, n, filed, q, name, code, data, c)
  PROVE  LET w == AnswerOctets(name, code, data)
             r == DnsFeed(d, w[c + 1])
         IN IF c + 1 = Len(w) THEN AnswerFed(r, n, filed, q, code, data)
            ELSE AnswerAt(r, n, filed, q, name, code, data, c + 1)
<1> DEFINE w == AnswerOctets(name, code, data)
           N == Len(name)
           L == Len(data)
           k == c - N
<1>1. /\ w \in Seq(Nat) /\ N \in Nat /\ N >= 1 /\ L \in Nat
      /\ Len(w) = N + 10 + L
      /\ \A i \in 1 .. N : w[i] = name[i]
      /\ w[N + 1] = 0 /\ w[N + 2] = code
      /\ \A i \in 1 .. L : w[N + 10 + i] = data[i]
  BY AnswerOctetsAre
<1>2. c \in Nat /\ c < Len(w)
  BY <1>1
<1> HIDE DEF w, N, L
<1>3. CASE c < N
  <2>1. c \in 0 .. N - 1 /\ c + 1 # Len(w) /\ w[c + 1] = name[c + 1] /\ k \notin 0 .. 9 /\ ~(k >= 10)
    BY <1>1, <1>2, <1>3
  <2>2. /\ InName(d, "name", name, c) /\ d.rdata = <<>>
        /\ Holds(d, n, filed, BlankAnswer, q)
    BY <2>1 DEF AnswerAt, N
  <2> HIDE DEF k
  <2>3. AnswerAt(DnsFeed(d, name[c + 1]), n, filed, q, name, code, data, c + 1)
    BY <2>1, <2>2, AnswerName DEF N
  <2>. QED BY <2>1, <2>3 DEF w
<1>4. CASE c >= N /\ c < N + 10
  <2>1. k \in 0 .. 9 /\ c = N + k /\ c + 1 = N + (k + 1) /\ c + 1 \in 1 .. Len(w)
    BY <1>1, <1>2, <1>4
  <2>2. /\ w[c + 1] \in Nat
        /\ k = 0 => w[c + 1] = 0
        /\ k = 1 => w[c + 1] = code
    BY <1>1, <2>1
  <2> DEFINE x == w[c + 1]
             r == DnsFeed(d, x)
  <2> HIDE DEF k, x
  <2>3. IF k = 9 /\ code \notin {1, 5, 28} THEN AnswerFed(r, n, filed, q, code, data)
        ELSE AnswerAt(r, n, filed, q, name, code, data, N + (k + 1))
    <3>1. AnswerAt(d, n, filed, q, name, code, data, N + k)
      BY <2>1
    <3>2. x \in Nat /\ (k = 0 => x = 0) /\ (k = 1 => x = code)
      BY <2>2 DEF x
    <3>. QED BY <2>1, <3>1, <3>2, AnswerField DEF N
  <2>4. c + 1 = Len(w) <=> (k = 9 /\ code \notin {1, 5, 28})
    <3>1. c + 1 = Len(w) <=> (k = 9 /\ L = 0)
      BY <1>1, <2>1
    <3>2. OtherType \notin {1, 5, 28}
      BY OtherIs
    <3>3. L = 0 <=> code \notin {1, 5, 28}
      <4>1. CASE code = 1 /\ L = 4
        BY <4>1
      <4>2. CASE code = 28 /\ L = 16
        BY <4>2
      <4>3. CASE code = 5 /\ EncodedName(data)
        <5>1. data # <<>> /\ data \in Seq(Nat)
          BY <4>3 DEF EncodedName, AnswerOK
        <5>2. Len(data) # 0
          BY <5>1
        <5>. QED BY <4>3, <5>2 DEF L
      <4>4. CASE code = OtherType /\ data = <<>>
        BY <3>2, <4>4 DEF L
      <4>. QED BY <4>1, <4>2, <4>3, <4>4 DEF AnswerOK, L
    <3>. QED BY <3>1, <3>3
  <2>. QED BY <2>1, <2>3, <2>4 DEF x, w
<1>5. CASE c >= N + 10
  <2> DEFINE j == c - (N + 10)
  <2>1. /\ j \in 0 .. L - 1 /\ c = N + 10 + j /\ c + 1 = N + 10 + (j + 1)
        /\ c + 1 = Len(w) <=> j + 1 = L
        /\ j + 1 \in 1 .. L
    BY <1>1, <1>2, <1>5
  <2>2. w[c + 1] = data[j + 1]
    <3> HIDE DEF j
    <3>. QED BY <1>1, <2>1
  <2> HIDE DEF j, k
  <2>3. LET r == DnsFeed(d, data[j + 1]) IN
        IF j + 1 = L THEN AnswerFed(r, n, filed, q, code, data)
        ELSE AnswerAt(r, n, filed, q, name, code, data, N + 10 + (j + 1))
    <3>1. AnswerAt(d, n, filed, q, name, code, data, N + 10 + j)
      BY <2>1
    <3>. QED BY <2>1, <3>1, AnswerData DEF N, L
  <2>. QED BY <2>1, <2>2, <2>3 DEF w
<1>. QED BY <1>1, <1>2, <1>3, <1>4, <1>5

-----------------------------------------------------------------------------
(* The header and the question *)

Counted(unit) ==
  <<0, 0, 129, 128 + unit.rcode, 0, 1, unit.ancount \div 256, unit.ancount % 256>>

Asked(unit, name) == Counted(unit) \o <<0, 0, 0, 0>> \o name \o <<0, 1, 0, 1>>

\* What a header may be
HeaderOK(unit) ==
  unit.kind = "header" /\ unit.rcode \in Nat /\ unit.ancount \in Nat

\* Nothing has been kept but the number of answers
Counts(d, st, i, count, answers) ==
  /\ d \in Dns /\ Place(d, st, i)
  /\ d.ancount = count /\ d.index = 0 /\ d.answers = answers /\ d.qname = <<>>

\* The parser after c octets of the header
HeaderAt(d, n, high, c) ==
  \/ c \in {0, 1} /\ Counts(d, "id", c, 0, <<>>)
  \/ c \in {2, 3} /\ Counts(d, "flags", c - 2, 0, <<>>)
  \/ c \in {4, 5} /\ Counts(d, "qdcount", c - 4, 0, <<>>)
  \/ c = 6 /\ Counts(d, "ancount", 0, 0, <<>>)
  \/ c = 7 /\ Counts(d, "ancount", 1, high * 256, <<>>)
  \/ n > 0 /\ c \in {8, 9} /\ Counts(d, "nscount", c - 8, n, Blank(n))
  \/ n > 0 /\ c \in {10, 11} /\ Counts(d, "arcount", c - 10, n, Blank(n))

\* The parser after c octets of the question
QuestionAt(d, n, name, c) ==
  LET k == c - Len(name) IN
  \/ /\ c \in 0 .. Len(name) - 1 /\ InName(d, "qname", name, c) /\ d.rdata = <<>>
     /\ SpelledTo(d.qname, name, c, d.left)
     /\ Holds(d, n, <<>>, BlankAnswer, d.qname)
  \/ k \in {0, 1} /\ Place(d, "qtype", k) /\ Holds(d, n, <<>>, BlankAnswer, Spelled(name))
  \/ k \in {2, 3} /\ Place(d, "qclass", k - 2) /\ Holds(d, n, <<>>, BlankAnswer, Spelled(name))

\* Before the first answer
QuestionFed(d, n, name) == Place(d, "name", 0) /\ Holds(d, n, <<>>, BlankAnswer, Spelled(name))

\* An octet of the header that is not looked at
LEMMA HeaderPlain ==
  ASSUME NEW st \in {"id", "qdcount", "nscount", "arcount"}, NEW i \in {0, 1}, NEW count,
         NEW answers, NEW d, Counts(d, st, i, count, answers), NEW c
  PROVE  LET r == DnsFeed(d, c) IN
         IF i = 0 THEN Counts(r, st, 1, count, answers)
         ELSE Counts(r, FollowedBy[st], 0, count, answers)
<1> DEFINE r == DnsFeed(d, c)
<1>1. d \in Dns /\ Place(d, st, i) /\ FieldLength[st] = 2 /\ i \in Nat
  BY DEF Counts, FieldLength
<1>2. /\ r \in Dns /\ SameTable(d, r)
      /\ IF i + 1 < FieldLength[st] THEN Place(r, st, i + 1)
         ELSE Place(r, FollowedBy[st], 0)
  BY <1>1, PlainPlace
<1> HIDE DEF r
<1>3. r.ancount = count /\ r.index = 0 /\ r.answers = answers /\ r.qname = <<>>
  BY <1>2 DEF Counts, SameTable
<1>4. CASE i = 0
  BY <1>1, <1>2, <1>3, <1>4 DEF Counts, r
<1>5. CASE i = 1
  BY <1>1, <1>2, <1>3, <1>5 DEF Counts, r
<1>. QED BY <1>4, <1>5

\* An octet of the header before the number of answers
LEMMA HeaderBefore ==
  ASSUME NEW n \in Nat, NEW high \in Nat, NEW c \in 0 .. 5, NEW x \in Nat,
         NEW d, HeaderAt(d, n, high, c)
  PROVE  HeaderAt(DnsFeed(d, x), n, high, c + 1)
<1> DEFINE r == DnsFeed(d, x)
<1>1. CASE c \in {0, 1} /\ Counts(d, "id", c, 0, <<>>)
  <2>1. FollowedBy["id"] = "flags"
    BY DEF FollowedBy
  <2>2. IF c = 0 THEN Counts(r, "id", 1, 0, <<>>)
        ELSE Counts(r, FollowedBy["id"], 0, 0, <<>>)
    BY <1>1, HeaderPlain
  <2> HIDE DEF r
  <2>3. CASE c = 0
    BY <2>2, <2>3 DEF HeaderAt, r
  <2>4. CASE c = 1
    BY <2>1, <2>2, <2>4 DEF HeaderAt, r
  <2>. QED BY <1>1, <2>3, <2>4
<1>2. CASE c \in {2, 3} /\ Counts(d, "flags", c - 2, 0, <<>>)
  <2>1. d \in Dns /\ d.state = "flags" /\ d.i = c - 2
    BY <1>2 DEF Counts, Place
  <2>2. d.i \in {0, 1} /\ (c = 2 => d.i = 0) /\ (c = 3 => d.i = 1)
    <3>1. c - 2 \in {0, 1} /\ (c = 2 => c - 2 = 0) /\ (c = 3 => c - 2 = 1)
      BY <1>2
    <3>. QED BY <2>1, <3>1
  <2>3. /\ r \in Dns
        /\ SameTable(d, r)
        /\ d.i = 0 => r.state = "flags" /\ r.i = 1
        /\ d.i = 1 => r.state = "qdcount" /\ r.i = 0
    BY <2>1, <2>2, FlagsField
  <2> HIDE DEF r
  <2>4. /\ r.left = 0 /\ r.rdata = <<>>
        /\ r.ancount = 0 /\ r.index = 0 /\ r.answers = <<>> /\ r.qname = <<>>
    BY <1>2, <2>3 DEF Counts, Place, SameTable
  <2>5. CASE c = 2
    <3>1. Counts(r, "flags", 1, 0, <<>>)
      BY <2>2, <2>3, <2>4, <2>5 DEF Counts, Place
    <3>. QED BY <2>5, <3>1 DEF HeaderAt, r
  <2>6. CASE c = 3
    <3>1. Counts(r, "qdcount", 0, 0, <<>>)
      BY <2>2, <2>3, <2>4, <2>6 DEF Counts, Place
    <3>. QED BY <2>6, <3>1 DEF HeaderAt, r
  <2>. QED BY <1>2, <2>5, <2>6
<1>3. CASE c \in {4, 5} /\ Counts(d, "qdcount", c - 4, 0, <<>>)
  <2> DEFINE j == c - 4
             st == "qdcount"
  <2>1. /\ FollowedBy["qdcount"] = "ancount" /\ j \in {0, 1} /\ (c = 4 <=> j = 0)
        /\ Counts(d, st, j, 0, <<>>)
        /\ st \in {"id", "qdcount", "nscount", "arcount"}
    BY <1>3 DEF FollowedBy
  <2> HIDE DEF j, st
  <2>2. IF j = 0 THEN Counts(r, st, 1, 0, <<>>)
        ELSE Counts(r, FollowedBy[st], 0, 0, <<>>)
    BY <2>1, HeaderPlain
  <2> HIDE DEF r
  <2>3. CASE c = 4
    <3>1. Counts(r, "qdcount", 1, 0, <<>>)
      BY <2>1, <2>2, <2>3 DEF st
    <3>. QED BY <2>3, <3>1 DEF HeaderAt, r
  <2>4. CASE c = 5
    <3>1. Counts(r, "ancount", 0, 0, <<>>)
      BY <2>1, <2>2, <2>4 DEF st
    <3>. QED BY <2>4, <3>1 DEF HeaderAt, r
  <2>. QED BY <1>3, <2>3, <2>4
<1>. QED BY <1>1, <1>2, <1>3 DEF HeaderAt

\* The number of answers
LEMMA HeaderCount ==
  ASSUME NEW n \in Nat, NEW high \in Nat, NEW c \in {6, 7}, NEW x \in Nat,
         c = 6 => x = high, c = 7 => high * 256 + x = n,
         NEW d, HeaderAt(d, n, high, c)
  PROVE  LET r == DnsFeed(d, x) IN
         IF c = 7 /\ n = 0 THEN Counts(r, "no_answers", 0, 0, <<>>)
         ELSE HeaderAt(r, n, high, c + 1)
<1> DEFINE r == DnsFeed(d, x)
<1>1. CASE c = 6 /\ Counts(d, "ancount", 0, 0, <<>>)
  <2>1. d \in Dns /\ d.state = "ancount" /\ d.i = 0 /\ d.left = 0 /\ d.rdata = <<>>
        /\ d.index = 0 /\ d.answers = <<>> /\ d.qname = <<>> /\ d.i \in {0, 1}
    BY <1>1 DEF Counts, Place
  <2>2. /\ r \in Dns
        /\ r.left = d.left /\ r.qname = d.qname /\ r.index = d.index /\ r.rdata = d.rdata
        /\ r.ancount = (IF d.i = 0 THEN x * 256 ELSE d.ancount + x)
        /\ d.i = 0 => r.state = "ancount" /\ r.i = 1 /\ r.answers = d.answers
    BY <2>1, AncountField
  <2> HIDE DEF r
  <2>3. Counts(r, "ancount", 1, high * 256, <<>>)
    BY <1>1, <2>1, <2>2 DEF Counts, Place
  <2>. QED BY <1>1, <2>3 DEF HeaderAt, r
<1>2. CASE c = 7 /\ Counts(d, "ancount", 1, high * 256, <<>>)
  <2>1. /\ d \in Dns /\ d.state = "ancount" /\ d.i = 1 /\ d.left = 0 /\ d.rdata = <<>>
        /\ d.index = 0 /\ d.answers = <<>> /\ d.qname = <<>> /\ d.i \in {0, 1}
        /\ d.ancount = high * 256
    BY <1>2 DEF Counts, Place
  <2>2. d.ancount + x = n /\ d.i # 0
    BY <1>2, <2>1
  <2>3. LET m == IF d.i = 0 THEN x * 256 ELSE d.ancount + x
        IN /\ r \in Dns
           /\ r.left = d.left /\ r.qname = d.qname /\ r.index = d.index /\ r.rdata = d.rdata
           /\ r.ancount = m
           /\ d.i = 1 /\ m = 0 => r.state = "no_answers" /\ r.i = 0 /\ r.answers = d.answers
           /\ d.i = 1 /\ m > 0 => r.state = "nscount" /\ r.i = 0 /\ r.answers = Blank(m)
    BY <2>1, AncountField
  <2> HIDE DEF r
  <2>4. /\ r \in Dns
        /\ r.left = d.left /\ r.qname = d.qname /\ r.index = d.index /\ r.rdata = d.rdata
        /\ r.ancount = n
        /\ n = 0 => r.state = "no_answers" /\ r.i = 0 /\ r.answers = d.answers
        /\ n > 0 => r.state = "nscount" /\ r.i = 0 /\ r.answers = Blank(n)
    BY <2>1, <2>2, <2>3
  <2>5. CASE n = 0
    <3>1. Counts(r, "no_answers", 0, 0, <<>>)
      BY <2>1, <2>4, <2>5 DEF Counts, Place
    <3>. QED BY <1>2, <2>5, <3>1 DEF r
  <2>6. CASE n > 0
    <3>1. Counts(r, "nscount", 0, n, Blank(n))
      BY <2>1, <2>4, <2>6 DEF Counts, Place
    <3>. QED BY <1>2, <2>6, <3>1 DEF HeaderAt, r
  <2>. QED BY <2>5, <2>6
<1>. QED BY <1>1, <1>2 DEF HeaderAt

\* An octet of the header after it
LEMMA HeaderAfter ==
  ASSUME NEW n \in Nat, NEW high \in Nat, NEW c \in 8 .. 11, NEW x \in Nat,
         NEW d, HeaderAt(d, n, high, c)
  PROVE  LET r == DnsFeed(d, x) IN
         IF c = 11 THEN Counts(r, "qname", 0, n, Blank(n))
         ELSE HeaderAt(r, n, high, c + 1)
<1> DEFINE r == DnsFeed(d, x)
<1>1. CASE n > 0 /\ c \in {8, 9} /\ Counts(d, "nscount", c - 8, n, Blank(n))
  <2> DEFINE j == c - 8
             st == "nscount"
             blank == Blank(n)
  <2>1. /\ FollowedBy["nscount"] = "arcount" /\ j \in {0, 1} /\ (c = 8 <=> j = 0)
        /\ Counts(d, st, j, n, blank)
        /\ st \in {"id", "qdcount", "nscount", "arcount"}
    BY <1>1 DEF FollowedBy
  <2> HIDE DEF j, st, blank
  <2>2. IF j = 0 THEN Counts(r, st, 1, n, blank)
        ELSE Counts(r, FollowedBy[st], 0, n, blank)
    BY <2>1, HeaderPlain
  <2> HIDE DEF r
  <2>3. CASE c = 8
    <3>1. Counts(r, "nscount", 1, n, Blank(n))
      BY <2>1, <2>2, <2>3 DEF st, blank
    <3>. QED BY <1>1, <2>3, <3>1 DEF HeaderAt, r
  <2>4. CASE c = 9
    <3>1. Counts(r, "arcount", 0, n, Blank(n))
      BY <2>1, <2>2, <2>4 DEF st, blank
    <3>. QED BY <1>1, <2>4, <3>1 DEF HeaderAt, r
  <2>. QED BY <1>1, <2>3, <2>4
<1>2. CASE n > 0 /\ c \in {10, 11} /\ Counts(d, "arcount", c - 10, n, Blank(n))
  <2> DEFINE j == c - 10
             st == "arcount"
             blank == Blank(n)
  <2>1. /\ FollowedBy["arcount"] = "qname" /\ j \in {0, 1} /\ (c = 10 <=> j = 0)
        /\ Counts(d, st, j, n, blank)
        /\ st \in {"id", "qdcount", "nscount", "arcount"}
    BY <1>2 DEF FollowedBy
  <2> HIDE DEF j, st, blank
  <2>2. IF j = 0 THEN Counts(r, st, 1, n, blank)
        ELSE Counts(r, FollowedBy[st], 0, n, blank)
    BY <2>1, HeaderPlain
  <2> HIDE DEF r
  <2>3. CASE c = 10
    <3>1. Counts(r, "arcount", 1, n, Blank(n))
      BY <2>1, <2>2, <2>3 DEF st, blank
    <3>. QED BY <1>2, <2>3, <3>1 DEF HeaderAt, r
  <2>4. CASE c = 11
    <3>1. Counts(r, "qname", 0, n, Blank(n))
      BY <2>1, <2>2, <2>4 DEF st, blank
    <3>. QED BY <2>4, <3>1 DEF r
  <2>. QED BY <1>2, <2>3, <2>4
<1>. QED BY <1>1, <1>2 DEF HeaderAt

\* The question begins
LEMMA QuestionBegins ==
  ASSUME NEW n \in Nat \ {0}, NEW name \in Seq(Int), LabelsFit(name),
         NEW d, Counts(d, "qname", 0, n, Blank(n))
  PROVE  QuestionAt(d, n, name, 0)
<1>1. /\ d \in Dns /\ d.state = "qname" /\ d.i = 0 /\ d.left = 0 /\ d.rdata = <<>>
      /\ d.ancount = n /\ d.index = 0 /\ d.answers = Blank(n) /\ d.qname = <<>>
  BY DEF Counts, Place
<1>2. Len(name) \in Nat \ {0} /\ 0 \in 0 .. Len(name) - 1
  <2>1. name # <<>>
    BY DEF LabelsFit
  <2>. QED BY <2>1
<1>3. Walk(name, 0, d.left)
  BY <1>1, <1>2, WalkBegins
<1>4. InName(d, "qname", name, 0)
  BY <1>1, <1>3 DEF InName
<1>5. SpelledTo(d.qname, name, 0, d.left)
  BY <1>1 DEF SpelledTo
<1>6. Filing(<<>>, BlankAnswer, n) = Blank(n)
  BY DEF Filing, Blank
<1>7. Holds(d, n, <<>>, BlankAnswer, d.qname)
  BY <1>1, <1>6 DEF Holds
<1>. QED BY <1>1, <1>2, <1>4, <1>5, <1>7 DEF QuestionAt

\* Labels that fit are a name as an answer may have it
LEMMA FitEncoded ==
  ASSUME NEW name, LabelsFit(name)
  PROVE  EncodedName(name)
BY DEF LabelsFit, EncodedName

\* An octet of the question's name
LEMMA QuestionName ==
  ASSUME NEW n \in Nat, NEW name \in Seq(Int), LabelsFit(name),
         NEW c \in 0 .. Len(name) - 1, NEW d, InName(d, "qname", name, c), d.rdata = <<>>,
         SpelledTo(d.qname, name, c, d.left), Holds(d, n, <<>>, BlankAnswer, d.qname)
  PROVE  QuestionAt(DnsFeed(d, name[c + 1]), n, name, c + 1)
<1> DEFINE r == DnsFeed(d, name[c + 1])
           st == "qname"
           N == Len(name)
<1>0. N \in Nat /\ c \in Nat /\ c + 1 <= N
  OBVIOUS
<1>1. d \in Dns /\ st \in {"qname", "name", "cname"} /\ EncodedName(name)
  BY FitEncoded DEF Holds
<1>2. d.state = "qname" /\ Walk(name, c, d.left) /\ d.i = 0
  <2>1. PointerOf("qname") = "none"
    BY DEF PointerOf
  <2>2. d.state # "none"
    BY <1>1, DnsStatesOnly
  <2>. QED BY <2>1, <2>2 DEF InName
<1>3. /\ c + 1 < N =>
           /\ r \in Dns
           /\ InName(r, st, name, c + 1)
           /\ r.qname = d.qname \o Kept(d, name, c)
           /\ r.ancount = d.ancount /\ r.index = d.index /\ r.answers = d.answers
           /\ r.rdata = d.rdata
           /\ d.left > 0 => r.left = d.left - 1
           /\ d.left = 0 /\ st = "qname" => r.left > 0
      /\ c + 1 = N => d.left = 0 /\ r = NameEnds(d)
  <2> HIDE DEF r, N
  <2>1. InName(d, st, name, c) /\ LabelsFit(name) /\ c \in 0 .. N - 1
    BY DEF N
  <2> HIDE DEF st
  <2>. QED BY <1>1, <2>1, NameOctet DEF r, N
<1> HIDE DEF r
<1>4. CASE c + 1 < N
  <2>1. /\ r \in Dns /\ InName(r, "qname", name, c + 1)
        /\ r.qname = d.qname \o Kept(d, name, c)
        /\ r.ancount = d.ancount /\ r.index = d.index /\ r.answers = d.answers
        /\ r.rdata = d.rdata
    BY <1>3, <1>4
  <2>2. r.left \in Nat /\ (d.left > 0 => r.left = d.left - 1) /\ (d.left = 0 => r.left > 0)
    BY <1>3, <1>4, <2>1, DnsFields
  <2> DEFINE left == r.left
  <2>3. SpelledTo(d.qname \o Kept(d, name, c), name, c + 1, left)
    <3>1. /\ left \in Nat /\ (d.left > 0 => left = d.left - 1) /\ (d.left = 0 => left > 0)
          /\ c + 1 < Len(name)
      BY <1>4, <2>2
    <3> HIDE DEF left
    <3>. QED BY <1>1, <1>2, <3>1, SpelledOctet
  <2>4. SpelledTo(r.qname, name, c + 1, r.left)
    BY <2>1, <2>3
  <2>5. Holds(r, n, <<>>, BlankAnswer, r.qname)
    BY <2>1 DEF Holds
  <2>6. c + 1 \in 0 .. Len(name) - 1
    BY <1>0, <1>4
  <2>. QED BY <2>1, <2>4, <2>5, <2>6 DEF QuestionAt, r
<1>5. CASE c + 1 = N
  <2>1. r = NameEnds(d) /\ d.left = 0
    BY <1>3, <1>5
  <2>2. r \in Dns /\ SameTable(d, r) /\ r.state = "qtype" /\ r.i = 0
    BY <1>1, <1>2, <2>1, NameEndsIs
  <2>3. c = Len(name) - 1
    BY <1>0, <1>5
  <2>4. d.qname = Spelled(name)
    BY <2>1, <2>3, SpelledWhole
  <2>5. Holds(r, n, <<>>, BlankAnswer, d.qname)
    BY <2>2, StillHolds
  <2>6. Place(r, "qtype", 0)
    BY <2>1, <2>2 DEF Place, SameTable
  <2>7. (c + 1) - Len(name) = 0
    BY <1>0, <1>5
  <2>8. Holds(r, n, <<>>, BlankAnswer, Spelled(name))
    BY <2>4, <2>5
  <2>. QED BY <2>6, <2>7, <2>8 DEF QuestionAt, r
<1>. QED BY <1>0, <1>4, <1>5

\* An octet of the question after its name
LEMMA QuestionField ==
  ASSUME NEW n \in Nat, NEW name \in Seq(Int),
         NEW k \in 0 .. 3, NEW x, NEW d, QuestionAt(d, n, name, Len(name) + k)
  PROVE  LET r == DnsFeed(d, x) IN
         IF k = 3 THEN QuestionFed(r, n, name)
         ELSE QuestionAt(r, n, name, Len(name) + (k + 1))
<1> DEFINE r == DnsFeed(d, x)
           N == Len(name)
           c == N + k
           b == N + (k + 1)
           S == Spelled(name)
<1>1. N \in Nat /\ c - N = k /\ b - N = k + 1 /\ ~(c \in 0 .. N - 1)
  OBVIOUS
<1>2. \/ k \in {0, 1} /\ Place(d, "qtype", k) /\ Holds(d, n, <<>>, BlankAnswer, S)
      \/ k \in {2, 3} /\ Place(d, "qclass", k - 2) /\ Holds(d, n, <<>>, BlankAnswer, S)
  <2>1. QuestionAt(d, n, name, c)
    OBVIOUS
  <2> HIDE DEF c
  <2>. QED BY <1>1, <2>1 DEF QuestionAt
<1> HIDE DEF c
<1>3. CASE k \in {0, 1} /\ Place(d, "qtype", k) /\ Holds(d, n, <<>>, BlankAnswer, S)
  <2> DEFINE st == "qtype"
  <2>1. /\ FieldLength["qtype"] = 2 /\ FollowedBy["qtype"] = "qclass"
        /\ Place(d, st, k) /\ d \in Dns /\ k \in Nat
        /\ st \in {"id", "qdcount", "nscount", "arcount", "qtype", "qclass", "class", "ttl"}
    BY <1>3 DEF Holds, FieldLength, FollowedBy
  <2> HIDE DEF st
  <2>2. /\ r \in Dns /\ SameTable(d, r)
        /\ IF k + 1 < FieldLength[st] THEN Place(r, st, k + 1)
           ELSE Place(r, FollowedBy[st], 0)
    BY <2>1, PlainPlace
  <2> HIDE DEF r
  <2>3. Holds(r, n, <<>>, BlankAnswer, S)
    BY <1>3, <2>2, StillHolds
  <2> HIDE DEF b, N, S
  <2>4. CASE k = 0
    <3>1. Place(r, "qtype", 1) /\ b - N = 1
      BY <1>1, <2>1, <2>2, <2>4 DEF st
    <3>. QED BY <2>3, <2>4, <3>1 DEF QuestionAt, N, S, b, r
  <2>5. CASE k = 1
    <3>1. Place(r, "qclass", 0) /\ b - N = 2
      BY <1>1, <2>1, <2>2, <2>5 DEF st
    <3>. QED BY <2>3, <2>5, <3>1 DEF QuestionAt, N, S, b, r
  <2>. QED BY <1>3, <2>4, <2>5
<1>4. CASE k \in {2, 3} /\ Place(d, "qclass", k - 2) /\ Holds(d, n, <<>>, BlankAnswer, S)
  <2> DEFINE st == "qclass"
             j == k - 2
  <2>1. /\ FieldLength["qclass"] = 2 /\ FollowedBy["qclass"] = "name"
        /\ Place(d, st, j) /\ d \in Dns /\ j \in Nat /\ (k = 2 <=> j = 0) /\ (k = 3 <=> j = 1)
        /\ st \in {"id", "qdcount", "nscount", "arcount", "qtype", "qclass", "class", "ttl"}
    BY <1>4 DEF Holds, FieldLength, FollowedBy
  <2> HIDE DEF st, j
  <2>2. /\ r \in Dns /\ SameTable(d, r)
        /\ IF j + 1 < FieldLength[st] THEN Place(r, st, j + 1)
           ELSE Place(r, FollowedBy[st], 0)
    BY <2>1, PlainPlace
  <2> HIDE DEF r
  <2>3. Holds(r, n, <<>>, BlankAnswer, S)
    BY <1>4, <2>2, StillHolds
  <2> HIDE DEF b, N, S
  <2>4. CASE k = 2
    <3>1. Place(r, "qclass", 1) /\ b - N = 3
      BY <1>1, <2>1, <2>2, <2>4 DEF st
    <3>. QED BY <2>3, <2>4, <3>1 DEF QuestionAt, N, S, b, r
  <2>5. CASE k = 3
    <3>1. Place(r, "name", 0)
      BY <2>1, <2>2, <2>5 DEF st
    <3>. QED BY <2>3, <2>5, <3>1 DEF QuestionFed, S, r
  <2>. QED BY <1>4, <2>4, <2>5
<1>. QED BY <1>2, <1>3, <1>4

\* An octet of the question
LEMMA QuestionOctet ==
  ASSUME NEW n \in Nat, NEW name \in Seq(Int), LabelsFit(name),
         NEW c \in 0 .. Len(name) + 3, NEW x, c < Len(name) => x = name[c + 1],
         NEW d, QuestionAt(d, n, name, c)
  PROVE  LET r == DnsFeed(d, x) IN
         IF c = Len(name) + 3 THEN QuestionFed(r, n, name)
         ELSE QuestionAt(r, n, name, c + 1)
<1> DEFINE r == DnsFeed(d, x)
           N == Len(name)
<1>0. N \in Nat
  OBVIOUS
<1>1. CASE c < N
  <2>1. c \in 0 .. Len(name) - 1 /\ c # Len(name) + 3 /\ ~((c - Len(name)) \in 0 .. 3)
    BY <1>0, <1>1
  <2>2. /\ InName(d, "qname", name, c) /\ d.rdata = <<>>
        /\ SpelledTo(d.qname, name, c, d.left) /\ Holds(d, n, <<>>, BlankAnswer, d.qname)
    BY <2>1 DEF QuestionAt
  <2>3. QuestionAt(DnsFeed(d, name[c + 1]), n, name, c + 1)
    BY <2>1, <2>2, QuestionName
  <2>. QED BY <1>1, <2>1, <2>3
<1>2. CASE c >= N
  <2> DEFINE k == c - N
  <2>1. k \in 0 .. 3 /\ N + k = c /\ N + (k + 1) = c + 1 /\ (k = 3 <=> c = N + 3)
    BY <1>0, <1>2
  <2>2. QuestionAt(d, n, name, Len(name) + k)
    BY <2>1
  <2> HIDE DEF k
  <2>3. IF k = 3 THEN QuestionFed(r, n, name)
        ELSE QuestionAt(r, n, name, Len(name) + (k + 1))
    BY <2>1, <2>2, QuestionField
  <2>. QED BY <2>1, <2>3
<1>. QED BY <1>0, <1>1, <1>2

\* The two octets of the number of answers
High(n) == n \div 256
Low(n) == n % 256

\* They are what was counted
LEMMA HighAndLow ==
  ASSUME NEW n \in Nat
  PROVE  High(n) \in Nat /\ Low(n) \in Nat /\ High(n) * 256 + Low(n) = n
BY DEF High, Low

\* Octets are numbers
LEMMA OctetsAre ==
  ASSUME NEW s \in Seq(Nat)
  PROVE  s \in Seq(Int) /\ Len(s) \in Nat /\ \A i \in 1 .. Len(s) : s[i] \in Nat
OBVIOUS

\* Eight octets
LEMMA CountedIs ==
  ASSUME NEW unit, HeaderOK(unit)
  PROVE  LET w == Counted(unit) IN
         /\ w \in Seq(Nat) /\ Len(w) = 8
         /\ w[7] = High(unit.ancount) /\ w[8] = Low(unit.ancount)
<1> DEFINE n == unit.ancount
           f == 128 + unit.rcode
           a == High(n)
           b == Low(n)
<1>1. n \in Nat /\ f \in Nat
  BY DEF HeaderOK
<1>2. a \in Nat /\ b \in Nat
  BY <1>1, HighAndLow
<1>3. Counted(unit) = <<0, 0, 129, f, 0, 1, a, b>>
  BY DEF Counted, High, Low
<1> HIDE DEF f, a, b
<1>4. LET w == <<0, 0, 129, f, 0, 1, a, b>> IN
      w \in Seq(Nat) /\ Len(w) = 8 /\ w[7] = a /\ w[8] = b
  BY <1>1, <1>2
<1>. QED BY <1>3, <1>4 DEF a, b

\* With the question
LEMMA AskedOctetsAre ==
  ASSUME NEW unit, HeaderOK(unit), NEW name \in Seq(Int)
  PROVE  LET w == Asked(unit, name) IN
         /\ w \in Seq(Int) /\ Len(w) = Len(name) + 16
         /\ \A i \in 1 .. 12 : w[i] \in Nat
         /\ w[7] = High(unit.ancount) /\ w[8] = Low(unit.ancount)
         /\ \A i \in 1 .. Len(name) : w[12 + i] = name[i]
<1> DEFINE a == Counted(unit)
           b == <<0, 0, 0, 0>>
           e == <<0, 1, 0, 1>>
           u == a \o b
           v == u \o name
           w == v \o e
           N == Len(name)
<1>1. /\ a \in Seq(Int) /\ Len(a) = 8 /\ a[7] = High(unit.ancount) /\ a[8] = Low(unit.ancount)
      /\ \A i \in 1 .. 8 : a[i] \in Nat
  <2>1. /\ a \in Seq(Nat) /\ Len(a) = 8 /\ a[7] = High(unit.ancount)
        /\ a[8] = Low(unit.ancount)
    BY CountedIs
  <2> HIDE DEF a
  <2>2. a \in Seq(Int) /\ \A i \in 1 .. Len(a) : a[i] \in Nat
    BY <2>1, OctetsAre
  <2>3. \A i \in 1 .. 8 : a[i] \in Nat
    BY <2>1, <2>2, Zenon
  <2>. QED BY <2>1, <2>2, <2>3, Zenon
<1>2. b \in Seq(Int) /\ Len(b) = 4 /\ \A i \in 1 .. 4 : b[i] \in Nat
  <2>1. b \in Seq(Nat) /\ Len(b) = 4
    OBVIOUS
  <2> HIDE DEF b
  <2>2. b \in Seq(Int) /\ \A i \in 1 .. Len(b) : b[i] \in Nat
    BY <2>1, OctetsAre
  <2>3. \A i \in 1 .. 4 : b[i] \in Nat
    BY <2>1, <2>2, Zenon
  <2>. QED BY <2>1, <2>2, <2>3, Zenon
<1>3. e \in Seq(Int) /\ Len(e) = 4
  OBVIOUS
<1>4. N \in Nat
  OBVIOUS
<1>5. Asked(unit, name) = w
  BY DEF Asked
<1> HIDE DEF a, b, e
<1>6. /\ u \in Seq(Int) /\ Len(u) = 12
      /\ \A i \in 1 .. 8 : u[i] = a[i]
      /\ \A i \in 1 .. 4 : u[8 + i] = b[i]
  <2>1. /\ u \in Seq(Int) /\ Len(u) = Len(a) + Len(b)
        /\ \A i \in 1 .. Len(a) : u[i] = a[i]
        /\ \A i \in 1 .. Len(b) : u[Len(a) + i] = b[i]
    <3>1. a \in Seq(Int) /\ b \in Seq(Int)
      BY <1>1, <1>2
    <3>. QED BY <3>1, ConcatIs
  <2>2. Len(a) = 8 /\ Len(b) = 4
    BY <1>1, <1>2
  <2> HIDE DEF u
  <2>. QED BY <2>1, <2>2
<1>7. \A i \in 1 .. 12 : u[i] \in Nat
  <2>1. ASSUME NEW i \in 1 .. 12
        PROVE  u[i] \in Nat
    <3>1. CASE i \in 1 .. 8
      <4>1. u[i] = a[i] /\ a[i] \in Nat
        BY <1>1, <1>6, <3>1, Zenon
      <4>. QED BY <4>1
    <3>2. CASE i > 8
      <4> DEFINE j == i - 8
      <4>1. j \in 1 .. 4 /\ 8 + j = i
        BY <3>2
      <4> HIDE DEF j
      <4>2. u[8 + j] = b[j] /\ b[j] \in Nat
        BY <1>2, <1>6, <4>1, Zenon
      <4>. QED BY <4>1, <4>2
    <3>3. i \in 1 .. 8 \/ i > 8
      OBVIOUS
    <3>. QED BY <3>1, <3>2, <3>3
  <2>. QED BY <2>1
<1>8. u[7] = High(unit.ancount) /\ u[8] = Low(unit.ancount)
  <2>1. 7 \in 1 .. 8 /\ 8 \in 1 .. 8
    OBVIOUS
  <2>2. u[7] = a[7] /\ u[8] = a[8]
    BY <1>6, <2>1
  <2>. QED BY <1>1, <2>2
<1> HIDE DEF u
<1>9. /\ v \in Seq(Int) /\ Len(v) = 12 + N
      /\ \A i \in 1 .. 12 : v[i] = u[i]
      /\ \A i \in 1 .. N : v[12 + i] = name[i]
  <2>1. /\ v \in Seq(Int) /\ Len(v) = Len(u) + Len(name)
        /\ \A i \in 1 .. Len(u) : v[i] = u[i]
        /\ \A i \in 1 .. Len(name) : v[Len(u) + i] = name[i]
    <3>1. u \in Seq(Int) /\ name \in Seq(Int)
      BY <1>6
    <3>. QED BY <3>1, ConcatIs
  <2>2. Len(u) = 12
    BY <1>6
  <2>. QED BY <2>1, <2>2
<1> HIDE DEF v
<1>10. /\ w \in Seq(Int) /\ Len(w) = N + 16
       /\ \A i \in 1 .. 12 + N : w[i] = v[i]
  <2>1. /\ w \in Seq(Int) /\ Len(w) = Len(v) + Len(e)
        /\ \A i \in 1 .. Len(v) : w[i] = v[i]
    <3>1. v \in Seq(Int) /\ e \in Seq(Int)
      BY <1>3, <1>9
    <3>. QED BY <3>1, ConcatIs
  <2>2. Len(v) = 12 + N /\ Len(e) = 4 /\ (12 + N) + 4 = N + 16
    BY <1>3, <1>4, <1>9
  <2> HIDE DEF N
  <2>. QED BY <2>1, <2>2
<1> HIDE DEF w, N
<1>11. \A i \in 1 .. 12 : w[i] = u[i]
  <2>1. \A i \in 1 .. 12 : i \in 1 .. 12 + N
    BY <1>4
  <2>2. \A i \in 1 .. 12 : v[i] = u[i]
    BY <1>9
  <2>3. \A i \in 1 .. 12 + N : w[i] = v[i]
    BY <1>10
  <2>. QED BY <2>1, <2>2, <2>3
<1>12. \A i \in 1 .. N : w[12 + i] = name[i]
  <2>1. \A i \in 1 .. N : 12 + i \in 1 .. 12 + N
    BY <1>4
  <2>2. \A i \in 1 .. N : v[12 + i] = name[i]
    BY <1>9
  <2>3. \A i \in 1 .. 12 + N : w[i] = v[i]
    BY <1>10
  <2>. QED BY <2>1, <2>2, <2>3
<1>13. 7 \in 1 .. 12 /\ 8 \in 1 .. 12
  OBVIOUS
<1>. QED BY <1>5, <1>7, <1>8, <1>10, <1>11, <1>12, <1>13 DEF N

\* The parser after c octets of a header with its question
HeadingAt(d, n, name, c) ==
  IF c < 12 THEN HeaderAt(d, n, High(n), c) ELSE QuestionAt(d, n, name, c - 12)

\* An octet of a header without a question
LEMMA CountedOctet ==
  ASSUME NEW unit, HeaderOK(unit), unit.ancount = 0, NEW c \in 0 .. 7,
         NEW d, HeaderAt(d, 0, High(0), c)
  PROVE  LET r == DnsFeed(d, Counted(unit)[c + 1]) IN
         IF c = 7 THEN Counts(r, "no_answers", 0, 0, <<>>)
         ELSE HeaderAt(r, 0, High(0), c + 1)
<1> DEFINE w == Counted(unit)
           x == w[c + 1]
           r == DnsFeed(d, x)
           high == High(0)
<1>1. w \in Seq(Nat) /\ Len(w) = 8 /\ w[7] = high /\ w[8] = Low(0)
  BY CountedIs
<1>2. high \in Nat /\ Low(0) \in Nat /\ high * 256 + Low(0) = 0
  BY HighAndLow
<1> HIDE DEF w, high
<1>3. x \in Nat
  <2>1. c + 1 \in 1 .. 8
    OBVIOUS
  <2>2. \A i \in 1 .. 8 : w[i] \in Nat
    BY <1>1, OctetsAre
  <2>. QED BY <2>1, <2>2
<1>4. CASE c \in 0 .. 5
  <2>1. HeaderAt(d, 0, high, c) /\ 0 \in Nat
    BY DEF high
  <2> HIDE DEF x
  <2>2. HeaderAt(r, 0, high, c + 1)
    BY <1>2, <1>3, <1>4, <2>1, HeaderBefore
  <2>. QED BY <1>4, <2>2 DEF r, x, w, high
<1>5. CASE c \in {6, 7}
  <2>1. HeaderAt(d, 0, high, c) /\ 0 \in Nat
    BY DEF high
  <2>2. (c = 6 => x = high) /\ (c = 7 => high * 256 + x = 0)
    BY <1>1, <1>2
  <2> HIDE DEF x
  <2>3. IF c = 7 /\ 0 = 0 THEN Counts(r, "no_answers", 0, 0, <<>>)
        ELSE HeaderAt(r, 0, high, c + 1)
    BY <1>2, <1>3, <1>5, <2>1, <2>2, HeaderCount
  <2>. QED BY <2>3 DEF r, x, w, high
<1>. QED BY <1>4, <1>5

\* An octet of a header with its question
LEMMA HeadingOctet ==
  ASSUME NEW unit, HeaderOK(unit), NEW n \in Nat \ {0}, n = unit.ancount,
         NEW name \in Seq(Int), LabelsFit(name), NEW c \in 0 .. Len(name) + 15,
         NEW d, HeadingAt(d, n, name, c)
  PROVE  LET r == DnsFeed(d, Asked(unit, name)[c + 1]) IN
         IF c = Len(name) + 15 THEN QuestionFed(r, n, name)
         ELSE HeadingAt(r, n, name, c + 1)
<1> DEFINE w == Asked(unit, name)
           x == w[c + 1]
           r == DnsFeed(d, x)
           high == High(n)
           N == Len(name)
<1>0. n \in Nat /\ n # 0 /\ N \in Nat /\ c \in Nat /\ N >= 1
  <2>1. name # <<>>
    BY DEF LabelsFit
  <2>2. N \in Nat /\ N # 0
    BY <2>1
  <2>. QED BY <2>2
<1>1. /\ w \in Seq(Int) /\ Len(w) = N + 16
      /\ \A i \in 1 .. 12 : w[i] \in Nat
      /\ w[7] = high /\ w[8] = Low(n)
      /\ \A i \in 1 .. N : w[12 + i] = name[i]
  BY AskedOctetsAre
<1>2. high \in Nat /\ Low(n) \in Nat /\ high * 256 + Low(n) = n
  BY <1>0, HighAndLow
<1> HIDE DEF w, high, N
<1>3. CASE c < 12
  <2>1. HeaderAt(d, n, high, c)
    BY <1>3 DEF HeadingAt, high
  <2>2. x \in Nat /\ (c = 6 => x = high) /\ (c = 7 => high * 256 + x = n) /\ c # N + 15
    <3>1. c + 1 \in 1 .. 12 /\ (c = 6 => c + 1 = 7) /\ (c = 7 => c + 1 = 8) /\ c # N + 15
      BY <1>0, <1>3
    <3>2. x \in Nat
      BY <1>1, <3>1
    <3>3. (c = 6 => x = high) /\ (c = 7 => x = Low(n))
      BY <1>1, <3>1
    <3>. QED BY <1>2, <3>1, <3>2, <3>3
  <2>3. HeaderAt(r, n, high, c + 1) => HeadingAt(r, n, name, c + 1) \/ c = 11
    <3>1. c # 11 => c + 1 < 12
      BY <1>0, <1>3
    <3> HIDE DEF r
    <3>. QED BY <3>1 DEF HeadingAt, high
  <2> HIDE DEF x
  <2>4. CASE c \in 0 .. 5
    <3>1. HeaderAt(r, n, high, c + 1)
      BY <1>0, <1>2, <2>1, <2>2, <2>4, HeaderBefore
    <3>. QED BY <2>2, <2>3, <2>4, <3>1 DEF r, x, w, N
  <2>5. CASE c \in {6, 7}
    <3>1. IF c = 7 /\ n = 0 THEN Counts(r, "no_answers", 0, 0, <<>>)
          ELSE HeaderAt(r, n, high, c + 1)
      <4>1. /\ n \in Nat /\ high \in Nat /\ x \in Nat
            /\ (c = 6 => x = high) /\ (c = 7 => high * 256 + x = n)
        BY <1>0, <1>2, <2>2
      <4>2. HeaderAt(d, n, high, c) /\ c \in {6, 7}
        BY <2>1, <2>5
      <4>. HIDE DEF x
      <4>. QED BY ONLY <4>1, <4>2, HeaderCount DEF r
    <3>. QED BY <1>0, <2>2, <2>3, <2>5, <3>1 DEF r, x, w, N
  <2>6. CASE c \in 8 .. 11
    <3>1. IF c = 11 THEN Counts(r, "qname", 0, n, Blank(n))
          ELSE HeaderAt(r, n, high, c + 1)
      BY <1>0, <1>2, <2>1, <2>2, <2>6, HeaderAfter
    <3>2. CASE c = 11
      <4> HIDE DEF r
      <4>1. n \in Nat \ {0} /\ Counts(r, "qname", 0, n, Blank(n))
        BY <1>0, <3>1, <3>2
      <4>2. QuestionAt(r, n, name, 0)
        BY <4>1, QuestionBegins
      <4>3. ~(c + 1 < 12) /\ (c + 1) - 12 = 0
        BY <3>2
      <4>4. HeadingAt(r, n, name, c + 1)
        BY <4>2, <4>3 DEF HeadingAt
      <4>. QED BY <2>2, <4>4 DEF r, x, w, N
    <3>3. CASE c # 11
      BY <2>2, <2>3, <3>1, <3>3 DEF r, x, w, N
    <3>. QED BY <3>2, <3>3
  <2>. QED BY <1>0, <1>3, <2>4, <2>5, <2>6
<1>4. CASE c >= 12
  <2> DEFINE j == c - 12
  <2>1. QuestionAt(d, n, name, j)
    BY <1>0, <1>4 DEF HeadingAt
  <2>2. /\ j \in 0 .. N + 3 /\ (j < N => x = name[j + 1])
        /\ (c = N + 15 <=> j = N + 3) /\ ~(c + 1 < 12) /\ (c + 1) - 12 = j + 1
    <3>1. 12 + (j + 1) = c + 1 /\ j \in 0 .. N + 3
      BY <1>0, <1>4 DEF N
    <3>2. j < N => j + 1 \in 1 .. N
      BY <1>0, <3>1
    <3>. QED BY <1>0, <1>1, <1>4, <3>1, <3>2
  <2> HIDE DEF x, j
  <2>3. IF j = N + 3 THEN QuestionFed(r, n, name) ELSE QuestionAt(r, n, name, j + 1)
    BY <1>0, <2>1, <2>2, QuestionOctet DEF N
  <2>. QED BY <2>2, <2>3 DEF HeadingAt, r, x, w, N
<1>. QED BY <1>0, <1>3, <1>4

-----------------------------------------------------------------------------
(* The head of the response, and the bytes that are still to come *)

\* What the parsers of the head are after each character
HeadRun(text, f) ==
  \A n \in 0 .. Len(text) : f[n] = IF n = 0 THEN At("version", 0) ELSE HeadFeed(f[n - 1], text[n])

\* There is such a function as Decides defines
LEMMA HeadRuns ==
  ASSUME NEW text, Len(text) \in Nat, NEW state, Decides(text, state)
  PROVE  \E f : /\ HeadRun(text, f)
                /\ f[Len(text)].state = state
                /\ \A n \in 0 .. Len(text) - 1 : f[n].state \notin {"done", "error"}
<1> DEFINE Is(g, m) ==
             g = [n \in 0 .. m |-> IF n = 0 THEN At("version", 0) ELSE HeadFeed(g[n - 1], text[n])]
           S == {m \in Nat : \E g : Is(g, m)}
           N == Len(text)
<1>1. 0 \in S
  <2> DEFINE g == [n \in 0 .. 0 |-> At("version", 0)]
  <2>1. 0 .. 0 = {0}
    OBVIOUS
  <2>2. Is(g, 0)
    BY <2>1, Zenon
  <2>. QED BY <2>2
<1>2. ASSUME NEW m \in Nat, m \in S
      PROVE  m + 1 \in S
  <2>1. PICK g : Is(g, m)
    BY <1>2
  <2> DEFINE Next1(f, n) == IF n = 0 THEN At("version", 0) ELSE HeadFeed(f[n - 1], text[n])
             h == [n \in 0 .. m + 1 |-> IF n <= m THEN g[n] ELSE Next1(g, n)]
  <2>2. \A n \in 0 .. m : g[n] = Next1(g, n)
    BY <2>1, Zenon
  <2>3. \A n \in 0 .. m + 1 : n # 0 => n - 1 \in 0 .. m + 1 /\ n - 1 <= m
    OBVIOUS
  <2>4. \A n \in 0 .. m + 1 : n # 0 => h[n - 1] = g[n - 1]
    BY <2>3, Zenon
  <2>5. \A n \in 0 .. m + 1 : Next1(h, n) = Next1(g, n)
    <3> HIDE DEF h
    <3>. QED BY <2>4, Zenon
  <2>6. \A n \in 0 .. m + 1 : n <= m => n \in 0 .. m
    OBVIOUS
  <2>7. \A n \in 0 .. m + 1 : h[n] = Next1(g, n)
    <3> HIDE DEF Next1
    <3>. QED BY <2>2, <2>6, Zenon
  <2>8. h = [n \in 0 .. m + 1 |-> h[n]]
    BY Zenon
  <2>9. h = [n \in 0 .. m + 1 |-> Next1(h, n)]
    <3> HIDE DEF h, Next1
    <3>. QED BY <2>5, <2>7, <2>8, Zenon
  <2>10. Is(h, m + 1)
    BY <2>9, Zenon
  <2>11. m + 1 \in Nat
    OBVIOUS
  <2> HIDE DEF h, Is
  <2>. QED BY <2>10, <2>11, Zenon
<1>3. \E g : Is(g, N)
  <2> HIDE DEF S, N
  <2>1. N \in S
    BY <1>1, <1>2, Induction DEF N
  <2>. QED BY <2>1, Zenon DEF S
<1> DEFINE f == CHOOSE g : Is(g, N)
<1>4. Is(f, N)
  BY <1>3, Zenon
<1>5. f[N].state = state /\ \A n \in 0 .. N - 1 : f[n].state \notin {"done", "error"}
  BY Zenon DEF Decides
<1> HIDE DEF f
<1>6. HeadRun(text, f)
  BY <1>4, Zenon DEF HeadRun
<1>. QED BY <1>5, <1>6, Zenon

\* What is left of w after c of its elements
Left(w, c) == SubSeq(w, c + 1, Len(w))

\* All of it
LEMMA AllLeft ==
  ASSUME NEW S, NEW w \in Seq(S)
  PROVE  Left(w, 0) = w
BY DEF Left

\* The next element, and the last one
LEMMA NextLeft ==
  ASSUME NEW S, NEW w \in Seq(S), NEW c \in 0 .. Len(w) - 1
  PROVE  /\ Left(w, c) # <<>>
         /\ Head(Left(w, c)) = w[c + 1]
         /\ Len(Left(w, c)) = Len(w) - c
         /\ Tail(Left(w, c)) = Left(w, c + 1)
         /\ Left(w, c + 1) = <<>> <=> c + 1 = Len(w)
<1> DEFINE L == Left(w, c)
           N == Len(w)
<1>0. N \in Nat /\ c \in Nat /\ c < N /\ c + 1 \in 1 .. N
  OBVIOUS
<1>1. L \in Seq(S) /\ Len(L) = N - c /\ \A i \in 1 .. N - c : L[i] = w[c + i]
  BY <1>0 DEF Left
<1>2. /\ Left(w, c + 1) \in Seq(S) /\ Len(Left(w, c + 1)) = N - (c + 1)
      /\ \A i \in 1 .. N - (c + 1) : Left(w, c + 1)[i] = w[c + 1 + i]
  BY <1>0 DEF Left
<1> HIDE DEF L, N
<1>3. L # <<>> /\ Head(L) = L[1] /\ L[1] = w[c + 1]
  BY <1>0, <1>1
<1>4. Tail(L) \in Seq(S) /\ Len(Tail(L)) = N - (c + 1)
      /\ \A i \in 1 .. N - (c + 1) : Tail(L)[i] = L[i + 1]
  BY <1>0, <1>1, <1>3
<1>5. \A i \in 1 .. N - (c + 1) : Tail(L)[i] = Left(w, c + 1)[i]
  <2>1. \A i \in 1 .. N - (c + 1) : i + 1 \in 1 .. N - c /\ c + (i + 1) = c + 1 + i
    BY <1>0
  <2>. QED BY <1>1, <1>2, <1>4, <2>1
<1>6. Tail(L) = Left(w, c + 1)
  BY <1>0, <1>2, <1>4, <1>5, SeqEqual
<1>7. Left(w, c + 1) = <<>> <=> c + 1 = N
  BY <1>0, <1>2
<1>. QED BY <1>1, <1>3, <1>6, <1>7 DEF L, N

-----------------------------------------------------------------------------
(* Units *)

\* A unit that says no more than its kind
LEMMA PlainIs ==
  ASSUME NEW kind \in {"http", "header", "A", "AAAA", "CNAME", "cut_A", "cut_AAAA", "extra",
                       "malformed"}
  PROVE  Plain(kind) \in Unit /\ Plain(kind).kind = kind
BY DEF Plain, Unit

\* The units u up to some answers, and the addresses t these carried
Answered(u, t) ==
  /\ u \in Seq(Unit) /\ t \in Seq(Seq(Nat)) /\ Len(u) = 2 + Len(t)
  /\ u[1] = Plain("http") /\ HeaderOK(u[2])
  /\ u[2].ancount > 0 /\ Len(t) <= u[2].ancount
  /\ \A i \in 1 .. Len(t) : u[2 + i].kind \in {"A", "AAAA", "CNAME"}

\* What the table holds of them
Filed(u, t) == [i \in 1 .. Len(t) |-> [type |-> TypeCode[u[2 + i].kind], address |-> t[i]]]

\* The type an answer is sent with
CodeOf(kind) == IF kind = "malformed" THEN OtherType ELSE TypeCode[kind]

\* The lengths
LEMMA AnsweredLengths ==
  ASSUME NEW u, NEW t, Answered(u, t)
  PROVE  /\ Len(t) \in Nat /\ Len(u) = 2 + Len(t) /\ u[2].ancount \in Nat \ {0}
         /\ u \in Seq(Unit) /\ t \in Seq(Seq(Nat)) /\ u # <<>> /\ u[2].kind = "header"
<1>1. /\ u \in Seq(Unit) /\ t \in Seq(Seq(Nat)) /\ Len(u) = 2 + Len(t)
      /\ u[2].ancount > 0 /\ u[2].ancount \in Nat /\ u[2].kind = "header"
  BY DEF Answered, HeaderOK
<1>2. Len(t) \in Nat
  BY <1>1
<1>3. u # <<>>
  BY <1>1, <1>2
<1> DEFINE n == u[2].ancount
<1>4. n \in Nat \ {0}
  <2>1. n > 0 /\ n \in Nat
    BY <1>1
  <2> HIDE DEF n
  <2>. QED BY <2>1
<1>. QED BY <1>1, <1>2, <1>3, <1>4

\* Before the header
LEMMA VerdictBefore ==
  /\ Verdict(<<>>) = "more" /\ ~IsCut(<<>>)
  /\ Verdict(<<Plain("http")>>) = "more" /\ ~IsCut(<<Plain("http")>>)
  /\ Verdict(<<Plain("malformed")>>) = "malformed"
BY DEF Verdict, IsCut, HeaderParsed, Last, Plain

\* Without answers
LEMMA VerdictNone ==
  ASSUME NEW u \in Seq(Unit), Len(u) = 2, HeaderOK(u[2]), u[2].ancount = 0
  PROVE  Verdict(u) = "no_answers" /\ ~IsCut(u)
<1>1. u # <<>> /\ u[Len(u)].kind = "header" /\ u[2].kind = "header"
  <2>1. u # <<>>
    OBVIOUS
  <2>2. u[2].kind = "header"
    BY Zenon DEF HeaderOK
  <2>. QED BY <2>1, <2>2
<1>. QED BY <1>1 DEF Verdict, IsCut, HeaderParsed, Last

\* With some, and with all of them
LEMMA VerdictAnswered ==
  ASSUME NEW u, NEW t, Answered(u, t)
  PROVE  /\ Verdict(u) = IF Len(t) = u[2].ancount THEN "complete" ELSE "more"
         /\ ~IsCut(u)
<1> DEFINE m == Len(t)
           n == u[2].ancount
<1>1. /\ m \in Nat /\ Len(u) = 2 + m /\ n \in Nat \ {0} /\ u # <<>> /\ u[2].kind = "header"
  BY AnsweredLengths
<1>2. m <= n
  BY DEF Answered
<1>3. u[Len(u)].kind \in {"header", "A", "AAAA", "CNAME"}
  <2>1. CASE m = 0
    BY <1>1, <2>1
  <2>2. CASE m > 0
    <3>1. m \in 1 .. m /\ 2 + m = Len(u)
      BY <1>1, <2>2
    <3>2. u[2 + m].kind \in {"A", "AAAA", "CNAME"}
      BY <3>1 DEF Answered
    <3>. QED BY <3>1, <3>2
  <2>. QED BY <1>1, <2>1, <2>2
<1>4. Last(u) \notin {"malformed", "cut_header", "cut_A", "cut_AAAA"}
  BY <1>3 DEF Last
<1> HIDE DEF m, n
<1>5. (Len(u) < 2 + n <=> m # n) /\ Len(u) >= 2 /\ n # 0
  BY <1>1, <1>2
<1>6. ~IsCut(u)
  BY <1>4 DEF IsCut
<1>7. HeaderParsed(u)
  BY <1>1, <1>5 DEF HeaderParsed
<1>8. Verdict(u) = IF Len(u) < 2 + n THEN "more" ELSE "complete"
  BY <1>4, <1>5, <1>6, <1>7 DEF Verdict, n
<1>. QED BY <1>5, <1>6, <1>8 DEF m, n

\* One more unit
LEMMA UnitMore ==
  ASSUME NEW u \in Seq(Unit), NEW x \in Unit
  PROVE  LET v == Append(u, x) IN
         /\ v \in Seq(Unit) /\ Len(v) = Len(u) + 1 /\ v[Len(u) + 1] = x /\ v # <<>>
         /\ \A i \in 1 .. Len(u) : v[i] = u[i]
<1> DEFINE v == Append(u, x)
<1>1. /\ v \in Seq(Unit) /\ Len(v) = Len(u) + 1 /\ v[Len(u) + 1] = x
      /\ \A i \in 1 .. Len(u) : v[i] = u[i]
  BY AppendProperties
<1>2. Len(u) \in Nat
  OBVIOUS
<1> HIDE DEF v
<1>3. v # <<>>
  BY <1>1, <1>2
<1>. QED BY <1>1, <1>3 DEF v

\* A malformed unit
LEMMA VerdictMalformed ==
  ASSUME NEW u \in Seq(Unit)
  PROVE  Verdict(Append(u, Plain("malformed"))) = "malformed"
<1> DEFINE x == Plain("malformed")
           v == Append(u, x)
<1>1. x \in Unit /\ x.kind = "malformed"
  BY PlainIs
<1> HIDE DEF x
<1>2. Len(v) = Len(u) + 1 /\ v[Len(u) + 1] = x /\ v # <<>>
  BY <1>1, UnitMore
<1> HIDE DEF v
<1>3. Last(v) = "malformed"
  BY <1>1, <1>2 DEF Last
<1>. QED BY <1>2, <1>3 DEF Verdict, v, x

\* An answer that is cut
LEMMA VerdictCut ==
  ASSUME NEW u, NEW t, Answered(u, t), NEW kind \in {"cut_A", "cut_AAAA"}
  PROVE  Verdict(Append(u, Plain(kind))) = "more"
<1> DEFINE x == Plain(kind)
           v == Append(u, x)
           n == u[2].ancount
<1>1. x \in Unit /\ x.kind = kind
  BY PlainIs
<1>2. /\ Len(t) \in Nat /\ Len(u) = 2 + Len(t) /\ n \in Nat \ {0} /\ u \in Seq(Unit)
      /\ u[2].kind = "header"
  BY AnsweredLengths
<1> HIDE DEF x
<1>3. /\ Len(v) = Len(u) + 1 /\ v[Len(u) + 1] = x /\ v # <<>>
      /\ \A i \in 1 .. Len(u) : v[i] = u[i]
  BY <1>1, <1>2, UnitMore
<1>4. v[2] = u[2]
  <2>1. 2 \in 1 .. Len(u)
    BY <1>2
  <2>. QED BY <1>3, <2>1, Zenon
<1> HIDE DEF v
<1>5. Last(v) = kind /\ Last(v) # "malformed" /\ IsCut(v)
  BY <1>1, <1>3 DEF Last, IsCut
<1>6. v[2].ancount # 0
  BY <1>2, <1>4
<1>. QED BY <1>3, <1>5, <1>6 DEF Verdict, v, x

\* What is filed is answers
LEMMA FiledIs ==
  ASSUME NEW u, NEW t, Answered(u, t)
  PROVE  /\ Filed(u, t) \in Seq(Answer) /\ Len(Filed(u, t)) = Len(t)
         /\ \A i \in 1 .. Len(t) :
              /\ Filed(u, t)[i] = [type |-> TypeCode[u[2 + i].kind], address |-> t[i]]
              /\ Filed(u, t)[i].type = TypeCode[u[2 + i].kind]
              /\ Filed(u, t)[i].address = t[i]
<1> DEFINE m == Len(t)
           F == Filed(u, t)
<1>1. m \in Nat /\ t \in Seq(Seq(Nat))
  BY AnsweredLengths
<1>2. \A i \in 1 .. m : TypeCode[u[2 + i].kind] \in Nat /\ t[i] \in Seq(Nat)
  <2>1. \A k \in {"A", "AAAA", "CNAME"} : TypeCode[k] \in Nat
    BY DEF TypeCode
  <2>2. \A i \in 1 .. m : u[2 + i].kind \in {"A", "AAAA", "CNAME"}
    BY DEF Answered
  <2>3. \A i \in 1 .. m : t[i] \in Seq(Nat)
    BY <1>1
  <2>. QED BY <2>1, <2>2, <2>3
<1>3. \A i \in 1 .. m : [type |-> TypeCode[u[2 + i].kind], address |-> t[i]] \in Answer
  BY <1>2 DEF Answer
<1>4. F = [i \in 1 .. m |-> [type |-> TypeCode[u[2 + i].kind], address |-> t[i]]]
  BY DEF Filed
<1>5. F \in [1 .. m -> Answer]
  <2> HIDE DEF F, m
  <2>. QED BY <1>3, <1>4
<1>6. F \in Seq(Answer) /\ Len(F) = m
  <2> HIDE DEF F, m
  <2>. QED BY <1>1, <1>5
<1>7. \A i \in 1 .. m : F[i] = [type |-> TypeCode[u[2 + i].kind], address |-> t[i]]
  <2> HIDE DEF F, m
  <2>. QED BY <1>4
<1>. QED BY <1>6, <1>7

\* The units v and addresses s are u and t with one more of them
FiledMore(v, s, u, t, kind, a) ==
  /\ Answered(v, s) /\ v[2] = u[2] /\ Len(s) = Len(t) + 1
  /\ Filed(v, s) = Append(Filed(u, t), [type |-> TypeCode[kind], address |-> a])

\* They are when one more is fed
LEMMA FiledNext ==
  ASSUME NEW u, NEW t, Answered(u, t), Len(t) < u[2].ancount,
         NEW kind \in {"A", "AAAA", "CNAME"}, NEW a \in Seq(Nat)
  PROVE  FiledMore(Append(u, Plain(kind)), Append(t, a), u, t, kind, a)
<1> DEFINE x == Plain(kind)
           v == Append(u, x)
           s == Append(t, a)
           m == Len(t)
           n == u[2].ancount
           b == [type |-> TypeCode[kind], address |-> a]
           F == Filed(u, t)
<1>1. x \in Unit /\ x.kind = kind
  BY PlainIs
<1>2. /\ m \in Nat /\ Len(u) = 2 + m /\ n \in Nat \ {0} /\ u \in Seq(Unit) /\ t \in Seq(Seq(Nat))
  BY AnsweredLengths
<1> HIDE DEF x
<1>3. /\ v \in Seq(Unit) /\ Len(v) = Len(u) + 1 /\ v[Len(u) + 1] = x
      /\ \A i \in 1 .. Len(u) : v[i] = u[i]
  BY <1>1, <1>2, UnitMore
<1>4. /\ s \in Seq(Seq(Nat)) /\ Len(s) = m + 1 /\ s[m + 1] = a
      /\ \A i \in 1 .. m : s[i] = t[i]
  BY <1>2, AppendProperties
<1>5. v[1] = u[1] /\ v[2] = u[2]
  <2>1. 1 \in 1 .. Len(u) /\ 2 \in 1 .. Len(u)
    BY <1>2
  <2>. QED BY <1>3, <2>1, Zenon
<1> HIDE DEF v, s
<1>6. /\ \A i \in 1 .. m : v[2 + i] = u[2 + i]
      /\ v[2 + (m + 1)] = x
  <2>1. \A i \in 1 .. m : 2 + i \in 1 .. Len(u)
    <3> HIDE DEF m, n, b, F
    <3>1. \A i \in 1 .. m : 2 + i \in 1 .. 2 + m
      BY <1>2
    <3>. QED BY <1>2, <3>1
  <2>2. 2 + (m + 1) = Len(u) + 1
    BY <1>2
  <2>. QED BY <1>3, <2>1, <2>2
<1>7. \A i \in 1 .. m + 1 : i \in 1 .. m \/ i = m + 1
  BY <1>2
<1>8. \A i \in 1 .. m + 1 : v[2 + i].kind \in {"A", "AAAA", "CNAME"}
  <2>1. \A i \in 1 .. m : u[2 + i].kind \in {"A", "AAAA", "CNAME"}
    BY DEF Answered
  <2>. QED BY <1>1, <1>6, <1>7, <2>1
<1>9. Answered(v, s)
  <2>1. m + 1 <= v[2].ancount /\ v[2].ancount > 0
    <3>1. m < n /\ n = v[2].ancount
      BY <1>5
    <3> HIDE DEF n
    <3>. QED BY <1>2, <3>1
  <2>2. Len(v) = 2 + Len(s)
    BY <1>2, <1>3, <1>4
  <2>3. v[1] = Plain("http") /\ HeaderOK(v[2])
    BY <1>5 DEF Answered
  <2>4. \A i \in 1 .. Len(s) : v[2 + i].kind \in {"A", "AAAA", "CNAME"}
    BY <1>4, <1>8
  <2>. QED BY <1>3, <1>4, <2>1, <2>2, <2>3, <2>4 DEF Answered
<1>10. /\ Filed(v, s) \in Seq(Answer) /\ Len(Filed(v, s)) = m + 1
       /\ \A i \in 1 .. m + 1 :
            Filed(v, s)[i] = [type |-> TypeCode[v[2 + i].kind], address |-> s[i]]
  BY <1>4, <1>9, FiledIs
<1>11. /\ F \in Seq(Answer) /\ Len(F) = m
       /\ \A i \in 1 .. m : F[i] = [type |-> TypeCode[u[2 + i].kind], address |-> t[i]]
  BY FiledIs
<1>12. b \in Answer
  <2>1. TypeCode[kind] \in Nat
    BY DEF TypeCode
  <2>. QED BY <2>1 DEF Answer
<1> HIDE DEF F, b
<1>13. /\ Append(F, b) \in Seq(Answer) /\ Len(Append(F, b)) = Len(F) + 1
       /\ Append(F, b)[Len(F) + 1] = b
       /\ \A i \in 1 .. Len(F) : Append(F, b)[i] = F[i]
  BY <1>11, <1>12, AppendProperties
<1> DEFINE G == Append(F, b)
<1> HIDE DEF G
<1>14. Len(G) = m + 1 /\ G[m + 1] = b /\ \A i \in 1 .. m : G[i] = F[i]
  BY <1>11, <1>13 DEF G
<1>15. ASSUME NEW i \in 1 .. m + 1
       PROVE  Filed(v, s)[i] = G[i]
  <2>1. CASE i \in 1 .. m
    <3>1. v[2 + i] = u[2 + i] /\ s[i] = t[i]
      BY <1>4, <1>6, <2>1, Zenon
    <3>2. Filed(v, s)[i] = [type |-> TypeCode[v[2 + i].kind], address |-> s[i]]
      BY <1>10, Zenon
    <3>3. F[i] = [type |-> TypeCode[u[2 + i].kind], address |-> t[i]]
      BY <1>11, <2>1, Zenon
    <3>. QED BY <1>14, <2>1, <3>1, <3>2, <3>3, Zenon
  <2>2. CASE i = m + 1
    <3>1. v[2 + i] = x /\ s[i] = a
      BY <1>4, <1>6, <2>2
    <3>2. Filed(v, s)[i] = [type |-> TypeCode[v[2 + i].kind], address |-> s[i]]
      BY <1>10, Zenon
    <3>. QED BY <1>1, <1>14, <2>2, <3>1, <3>2, Zenon DEF b
  <2>. QED BY <1>7, <2>1, <2>2, Zenon
<1>16. Filed(v, s) = G
  BY <1>10, <1>13, <1>14, <1>15, SeqEqual DEF G
<1>17. FiledMore(v, s, u, t, kind, a)
  BY <1>4, <1>5, <1>9, <1>16 DEF F, G, b, FiledMore
<1>. QED BY <1>17 DEF v, s, x

\* The units v are u and, if the type of the present answer is known, one that offers it
UnitsWith(v, u, cur) ==
  /\ Len(v) \in Nat /\ \A i \in 1 .. Len(u) : v[i] = u[i]
  /\ \/ Len(v) = Len(u) /\ cur.type \notin {1, 28}
     \/ /\ Len(v) = Len(u) + 1
        /\ \A type \in {"A", "AAAA"} : cur.type = TypeCode[type] <=> Offers(v[Len(u) + 1], type)

\* Of a type are found, in a table of n answers, those that the units v offer
SameFound(answers, n, v) ==
  \A type \in {"A", "AAAA"} :
    {i \in 1 .. n : answers[i].type = TypeCode[type]} =
      {i \in 1 .. n : 2 + i <= Len(v) /\ Offers(v[2 + i], type)}

\* The types that are found are those of the answers fed up to their type
LEMMA OffersAgree ==
  ASSUME NEW u, NEW t, Answered(u, t), NEW n, n = u[2].ancount, NEW cur,
         NEW v, UnitsWith(v, u, cur)
  PROVE  SameFound(Filing(Filed(u, t), cur, n), n, v)
<1> DEFINE m == Len(t)
           F == Filed(u, t)
<1>0. /\ Len(v) \in Nat /\ \A i \in 1 .. Len(u) : v[i] = u[i]
      /\ \/ Len(v) = Len(u) /\ cur.type \notin {1, 28}
         \/ /\ Len(v) = Len(u) + 1
            /\ \A type \in {"A", "AAAA"} : cur.type = TypeCode[type] <=> Offers(v[Len(u) + 1], type)
  BY Zenon DEF UnitsWith
<1>1. /\ m \in Nat /\ Len(u) = 2 + m /\ n \in Nat \ {0}
  BY AnsweredLengths
<1>2. Len(F) = m /\ \A i \in 1 .. m : F[i].type = TypeCode[u[2 + i].kind]
  <2>1. /\ Filed(u, t) \in Seq(Answer) /\ Len(Filed(u, t)) = Len(t)
        /\ \A i \in 1 .. Len(t) :
             /\ Filed(u, t)[i] = [type |-> TypeCode[u[2 + i].kind], address |-> t[i]]
             /\ Filed(u, t)[i].type = TypeCode[u[2 + i].kind]
             /\ Filed(u, t)[i].address = t[i]
    BY FiledIs
  <2>. QED BY <2>1, Zenon
<1>3. \A i \in 1 .. m : u[2 + i].kind \in {"A", "AAAA", "CNAME"}
  BY DEF Answered
<1>4. TypeCode["A"] = 1 /\ TypeCode["AAAA"] = 28 /\ TypeCode["CNAME"] = 5
  BY DEF TypeCode
<1>5. \A i \in 1 .. n : Filing(F, cur, n)[i] =
        IF i <= m THEN F[i] ELSE IF i = m + 1 THEN cur ELSE BlankAnswer
  BY <1>2 DEF Filing
<1>6. BlankAnswer.type = 0
  BY DEF BlankAnswer
<1> HIDE DEF m, F
<1>7. ASSUME NEW type \in {"A", "AAAA"}, NEW i \in 1 .. n
      PROVE  Filing(F, cur, n)[i].type = TypeCode[type]
               <=> 2 + i <= Len(v) /\ Offers(v[2 + i], type)
  <2>0. i \in Nat \ {0} /\ n \in Nat
    BY <1>1
  <2>1. CASE i <= m
    <3>1. i \in 1 .. m /\ 2 + i \in 1 .. Len(u) /\ 2 + i <= Len(v)
      BY <1>0, <1>1, <2>0, <2>1
    <3>2. v[2 + i] = u[2 + i]
      BY <1>0, <3>1
    <3>3. Filing(F, cur, n)[i] = F[i]
      BY <1>5, <2>1
    <3>4. F[i].type = TypeCode[u[2 + i].kind] /\ u[2 + i].kind \in {"A", "AAAA", "CNAME"}
      BY <1>2, <1>3, <3>1
    <3> DEFINE k == u[2 + i].kind
    <3>5. Offers(v[2 + i], type) <=> k = type
      BY <3>2, <3>4 DEF Offers
    <3>6. TypeCode[k] = TypeCode[type] <=> k = type
      <4>1. k \in {"A", "AAAA", "CNAME"}
        BY <3>4
      <4> HIDE DEF k
      <4>. QED BY <1>4, <4>1
    <3>. QED BY <3>1, <3>3, <3>4, <3>5, <3>6
  <2>2. CASE i = m + 1
    <3>1. Filing(F, cur, n)[i] = cur
      <4>1. ~(i <= m)
        BY <1>1, <2>2
      <4>. QED BY <1>5, <2>2, <4>1
    <3>2. 2 + i = Len(u) + 1 /\ (2 + i <= Len(v) <=> Len(v) # Len(u))
      BY <1>0, <1>1, <2>2
    <3>3. TypeCode[type] \in {1, 28}
      BY <1>4
    <3>4. Len(u) # Len(u) + 1
      BY <1>1
    <3>. QED BY <1>0, <3>1, <3>2, <3>3, <3>4
  <2>3. CASE i > m + 1
    <3>1. Filing(F, cur, n)[i].type = 0
      BY <1>1, <1>5, <1>6, <2>0, <2>3
    <3>2. ~(2 + i <= Len(v))
      BY <1>0, <1>1, <2>0, <2>3
    <3>3. TypeCode[type] \in {1, 28}
      BY <1>4
    <3>. QED BY <3>1, <3>2, <3>3
  <2>. QED BY <1>1, <2>0, <2>1, <2>2, <2>3
<1>. QED BY <1>7 DEF F, SameFound

-----------------------------------------------------------------------------
(* The inductive invariant *)

\* The octets of the name that was asked for
Host == AskedName(query.body, query.content_length)

QueryOK ==
  \/ query = NoQuery
  \/ /\ query # NoQuery
     /\ query.body \in Seq(Int) /\ query.content_length \in 0 .. OctetModulus - 1

\* A name that a resolver can read fits into question.qname
LEMMA ReadableIs ==
  ASSUME QueryOK, query # NoQuery, Readable(query)
  PROVE  /\ Host \in Seq(Int) /\ LabelsFit(Host) /\ Question = {Host}
         /\ Spelled(Host) \in Seq(Int) /\ Len(Spelled(Host)) = Len(Host) - 1
         /\ Len(Host) - 1 <= MaxQnameLength
<1> DEFINE b == query.body
           l == query.content_length
<1>1. b \in Seq(Int) /\ l \in 0 .. OctetModulus - 1
  BY DEF QueryOK
<1>2. Host # Malformed /\ Spelled(Host) # Malformed
  BY DEF Readable, Host
<1>3. Host = AskedName(b, l)
  BY DEF Host
<1>4. Question = {Host}
  BY DEF Question, Host
<1> HIDE DEF b, l
<1>5. Len(QueryHeader) = 12
  BY DEF QueryHeader
<1>6. OctetModulus \in Nat \ {0} /\ MaxQnameLength \in Nat /\ OctetModulus - 18 <= MaxQnameLength
  BY QueryAssumption, ResponseAssumption
<1>7. /\ Host = SubSeq(b, 13, l - 4) /\ 17 <= l /\ l <= Len(b)
  BY <1>1, <1>2, <1>3, <1>5, <1>6 DEF AskedName
<1>8. Host \in Seq(Int) /\ Len(Host) = l - 16
  BY <1>1, <1>6, <1>7
<1>9. LabelsFit(Host)
  BY <1>2 DEF Spelled
<1>10. Spelled(Host) \in Seq(Int) /\ Len(Spelled(Host)) = Len(Host) - 1
  BY <1>8, <1>9, SpelledAt
<1>11. Len(Host) - 1 <= MaxQnameLength
  BY <1>1, <1>6, <1>8
<1>. QED BY <1>4, <1>8, <1>9, <1>10, <1>11

\* Some answers have been parsed and so much of the present one
Filling(u, t, cur) ==
  /\ Answered(u, t) /\ Readable(query)
  /\ Holds(dns, u[2].ancount, Filed(u, t), cur, Spelled(Host))

\* Between two units
Idle ==
  \/ units = <<>> /\ told = <<>> /\ head = At("version", 0) /\ dns = NoDns
  \/ /\ query # NoQuery /\ told = <<>> /\ dns = NoDns
     /\ \/ units = <<Plain("http")>> /\ head.state = "done"
        \/ units = <<Plain("malformed")>> /\ head.state = "error"
  \/ /\ query # NoQuery /\ told = <<>> /\ head.state = "done"
     /\ units \in Seq(Unit) /\ Len(units) = 2 /\ HeaderOK(units[2]) /\ units[2].ancount = 0
     /\ Counts(dns, "no_answers", 0, 0, <<>>)
  \/ /\ query # NoQuery /\ head.state = "done"
     /\ Filling(units, told, BlankAnswer)
     /\ Place(dns, IF Len(told) = units[2].ancount THEN "done" ELSE "name", 0)
  \/ /\ query # NoQuery /\ head.state = "done"
     /\ \E u, t : /\ Filling(u, t, Typed(OtherType)) /\ Len(t) < u[2].ancount
                  /\ units = Append(u, Plain("malformed")) /\ told = Append(t, <<>>)
     /\ dns.state = "error"

\* In the head w of the response, after c characters
HeadComing(w, c) ==
  /\ units = <<>> /\ told = <<>> /\ dns = NoDns
  /\ w \in Seq(Characters)
  /\ \E f : /\ HeadRun(w, f) /\ head = f[c]
            /\ \/ coming.unit = Plain("http") /\ f[Len(w)].state = "done"
               \/ coming.unit = Plain("malformed") /\ f[Len(w)].state = "error"
            /\ \A n \in 0 .. Len(w) - 1 : f[n].state \notin {"done", "error"}

\* In the header w of the message
HeaderComing(w, c) ==
  /\ units = <<Plain("http")>> /\ told = <<>> /\ head.state = "done"
  /\ coming.unit \in Unit /\ HeaderOK(coming.unit)
  /\ \/ /\ coming.unit.ancount = 0 /\ w = Counted(coming.unit)
        /\ HeaderAt(dns, 0, High(0), c)
     \/ /\ coming.unit.ancount > 0 /\ w = Asked(coming.unit, Host) /\ Readable(query)
        /\ HeadingAt(dns, coming.unit.ancount, Host, c)

\* In the answer w
AnswerComing(w, c) ==
  /\ Answered(units, told) /\ Len(told) < units[2].ancount
  /\ head.state = "done" /\ Readable(query)
  /\ \E kind \in {"A", "AAAA", "CNAME", "malformed"} : \E name, data :
       /\ AnswerOK(name, CodeOf(kind), data)
       /\ w = AnswerOctets(name, CodeOf(kind), data)
       /\ coming = [unit |-> Plain(kind),
                    address |-> IF kind \in {"A", "AAAA"} THEN data ELSE <<>>]
       /\ AnswerAt(dns, units[2].ancount, Filed(units, told), Spelled(Host),
                   name, CodeOf(kind), data, c)

\* In a unit
Within ==
  \E w : \E c \in 0 .. Len(w) - 1 :
    /\ bytes = Left(w, c) /\ query # NoQuery
    /\ HeadComing(w, c) \/ HeaderComing(w, c) \/ AnswerComing(w, c)

\* No memory for the table
Stuck ==
  /\ query # NoQuery /\ dns.state = "mem_alloc_error"
  /\ told = <<>> /\ dns.answers = <<>> /\ dns.qname = <<>>

ResponseInv ==
  /\ QueryOK
  /\ \/ bytes = <<>> /\ Idle
     \/ Within
     \/ Stuck

-----------------------------------------------------------------------------
(* The invariant says what Connection takes for granted *)

\* The answers that are found are those that units v offer
Agreed(v) == SameFound(dns.answers, Len(dns.answers), v)

\* In a header
LEMMA HeaderAtIs ==
  ASSUME NEW d, NEW n \in Nat, NEW high, NEW c, HeaderAt(d, n, high, c)
  PROVE  /\ d.state \in {"id", "flags", "qdcount", "ancount", "nscount", "arcount"}
         /\ d.qname = <<>> /\ \A i \in 1 .. Len(d.answers) : d.answers[i].type = 0
         /\ c \in 0 .. 11 /\ (c >= 8 => n > 0)
         /\ d.ancount = (IF c < 7 THEN 0 ELSE IF c = 7 THEN high * 256 ELSE n)
         /\ Len(d.answers) = (IF c < 8 THEN 0 ELSE n)
<1>1. Len(Blank(n)) = n /\ \A i \in 1 .. n : Blank(n)[i] = BlankAnswer
  BY BlankSeq
<1>2. BlankAnswer.type = 0
  BY DEF BlankAnswer
<1>3. \A i \in 1 .. Len(Blank(n)) : Blank(n)[i].type = 0
  BY <1>1, <1>2
<1>4. Len(<<>>) = 0 /\ \A i \in 1 .. Len(<<>>) : <<>>[i].type = 0
  OBVIOUS
<1>5. d.answers = <<>> \/ d.answers = Blank(n)
  BY Zenon DEF HeaderAt, Counts
<1>6. \A i \in 1 .. Len(d.answers) : d.answers[i].type = 0
  BY <1>3, <1>4, <1>5
<1>7. d.qname = <<>>
  BY Zenon DEF HeaderAt, Counts
<1>8. d.state \in {"id", "flags", "qdcount", "ancount", "nscount", "arcount"}
  BY Zenon DEF HeaderAt, Counts, Place
<1>9. \/ c \in 0 .. 6 /\ d.ancount = 0 /\ d.answers = <<>>
      \/ c = 7 /\ d.ancount = high * 256 /\ d.answers = <<>>
      \/ c \in 8 .. 11 /\ n > 0 /\ d.ancount = n /\ d.answers = Blank(n)
  BY DEF HeaderAt, Counts
<1>10. /\ c \in 0 .. 11 /\ (c >= 8 => n > 0)
       /\ d.ancount = (IF c < 7 THEN 0 ELSE IF c = 7 THEN high * 256 ELSE n)
       /\ Len(d.answers) = (IF c < 8 THEN 0 ELSE n)
  BY <1>1, <1>4, <1>9
<1>. QED BY <1>6, <1>7, <1>8, <1>10

\* In the question
LEMMA QuestionAtIs ==
  ASSUME NEW d, NEW n \in Nat, NEW name \in Seq(Int), LabelsFit(name), NEW c,
         QuestionAt(d, n, name, c)
  PROVE  /\ d.state \in {"qname", "qtype", "qclass"}
         /\ Len(d.qname) <= Len(name) - 1
         /\ \A i \in 1 .. Len(d.answers) : d.answers[i].type = 0
         /\ d.ancount = n /\ Len(d.answers) = n
<1>1. Len(Blank(n)) = n /\ \A i \in 1 .. n : Blank(n)[i] = BlankAnswer
  BY BlankSeq
<1>2. BlankAnswer.type = 0
  BY DEF BlankAnswer
<1>3. \A i \in 1 .. Len(Blank(n)) : Blank(n)[i].type = 0
  BY <1>1, <1>2
<1>4. Filing(<<>>, BlankAnswer, n) = Blank(n)
  BY DEF Filing, Blank
<1>5. d.answers = Blank(n) /\ d \in Dns /\ d.ancount = n
  BY <1>4, Zenon DEF QuestionAt, Holds
<1>6. Len(Spelled(name)) = Len(name) - 1 /\ Len(name) \in Nat
  BY SpelledAt
<1>7. CASE /\ c \in 0 .. Len(name) - 1 /\ InName(d, "qname", name, c)
           /\ SpelledTo(d.qname, name, c, d.left)
  <2>1. PointerOf("qname") = "none"
    BY DEF PointerOf
  <2>2. d.state = "qname" /\ d.left \in Nat
    BY <1>5, <1>7, <2>1, DnsStatesOnly, DnsFields DEF InName
  <2>3. Len(d.qname) = (IF d.left > 0 THEN c - 1 ELSE c)
    BY <1>7 DEF SpelledTo
  <2>4. Len(d.qname) <= Len(name) - 1
    BY <1>6, <1>7, <2>2, <2>3
  <2>. QED BY <1>1, <1>3, <1>5, <2>2, <2>4
<1>8. CASE d.state \in {"qtype", "qclass"} /\ d.qname = Spelled(name)
  <2>1. Len(d.qname) <= Len(name) - 1
    BY <1>6, <1>8
  <2>. QED BY <1>1, <1>3, <1>5, <1>8, <2>1
<1>9. \/ /\ c \in 0 .. Len(name) - 1 /\ InName(d, "qname", name, c)
         /\ SpelledTo(d.qname, name, c, d.left)
      \/ d.state \in {"qtype", "qclass"} /\ d.qname = Spelled(name)
  BY Zenon DEF QuestionAt, Place, Holds
<1>. QED BY <1>7, <1>8, <1>9

\* In an answer: its type counts as soon as it has been parsed
HoldsSome(d, n, filed, q, N, code, c) ==
  \E cur : /\ Holds(d, n, filed, cur, q)
           /\ cur.type = IF c < N + 2 THEN 0 ELSE code

\* Of the type what an answer's octets tell
LEMMA AnswerAtIs ==
  ASSUME NEW d, NEW n \in Nat, NEW filed, NEW q, NEW name \in Seq(Nat), NEW code \in Nat,
         NEW data, NEW c \in Nat, AnswerAt(d, n, filed, q, name, code, data, c)
  PROVE  /\ d.state \in Answering
         /\ HoldsSome(d, n, filed, q, Len(name), code, c)
<1> DEFINE k == c - Len(name)
<1>0. Len(name) \in Nat
  OBVIOUS
<1>1. BlankAnswer.type = 0 /\ Typed(code).type = code
  BY DEF BlankAnswer, Typed
<1>2. CASE /\ c < Len(name) /\ InName(d, "name", name, c)
           /\ Holds(d, n, filed, BlankAnswer, q)
  <2>1. PointerOf("name") = "name_pointer"
    BY DEF PointerOf
  <2>2. d.state \in Answering
    BY <1>2, <2>1 DEF InName, Answering
  <2>3. c < Len(name) + 2
    BY <1>0, <1>2
  <2>. QED BY <1>1, <1>2, <2>2, <2>3 DEF HoldsSome
<1>3. CASE k \in {0, 1} /\ Place(d, "type", k) /\ Holds(d, n, filed, BlankAnswer, q)
  <2>1. d.state \in Answering
    BY <1>3 DEF Place, Answering
  <2>2. c < Len(name) + 2
    BY <1>0, <1>3
  <2>. QED BY <1>1, <1>3, <2>1, <2>2 DEF HoldsSome
<1>4. CASE k >= 2 /\ d.state \in Answering /\ \E a : Holds(d, n, filed, [type |-> code, address |-> a], q)
  <2>1. PICK a : Holds(d, n, filed, [type |-> code, address |-> a], q)
    BY <1>4
  <2>2. [type |-> code, address |-> a].type = code
    OBVIOUS
  <2>3. ~(c < Len(name) + 2)
    BY <1>0, <1>4
  <2>. QED BY <1>4, <2>1, <2>2, <2>3 DEF HoldsSome
<1>5. ASSUME k >= 2, Holds(d, n, filed, Typed(code), q), d.state \in Answering
      PROVE  k >= 2 /\ d.state \in Answering /\ \E a : Holds(d, n, filed, [type |-> code, address |-> a], q)
  BY <1>5 DEF Typed
<1>6. CASE /\ \/ k \in {2, 3} /\ Place(d, "class", k - 2)
              \/ k \in 4 .. 7 /\ Place(d, "ttl", k - 4)
              \/ k \in {8, 9} /\ Place(d, "rdlength", k - 8)
              \/ k >= 10 /\ d.state = "ipv4"
           /\ Holds(d, n, filed, Typed(code), q)
  <2>1. k >= 2 /\ d.state \in Answering
    BY <1>0, <1>6 DEF Place, Answering
  <2> HIDE DEF k
  <2>. QED BY <1>4, <1>5, <1>6, <2>1
<1>7. CASE /\ k >= 10 /\ Place(d, "ipv6", 0)
           /\ Holds(d, n, filed, [type |-> code, address |-> SubSeq(data, 1, k - 10)], q)
  <2>1. k >= 2 /\ d.state \in Answering
    BY <1>0, <1>7 DEF Place, Answering
  <2>2. \E a : Holds(d, n, filed, [type |-> code, address |-> a], q)
    BY <1>7, Zenon
  <2> HIDE DEF k
  <2>. QED BY <1>4, <2>1, <2>2
<1>8. CASE /\ k >= 10 /\ InName(d, "cname", data, k - 10) /\ Holds(d, n, filed, Typed(code), q)
  <2>1. PointerOf("cname") = "cname_pointer"
    BY DEF PointerOf
  <2>2. k >= 2 /\ d.state \in Answering
    BY <1>0, <1>8, <2>1 DEF InName, Answering
  <2> HIDE DEF k
  <2>. QED BY <1>4, <1>5, <1>8, <2>2
<1> HIDE DEF k
<1>9. \/ /\ c < Len(name) /\ InName(d, "name", name, c)
         /\ Holds(d, n, filed, BlankAnswer, q)
      \/ k \in {0, 1} /\ Place(d, "type", k) /\ Holds(d, n, filed, BlankAnswer, q)
      \/ /\ \/ k \in {2, 3} /\ Place(d, "class", k - 2)
            \/ k \in 4 .. 7 /\ Place(d, "ttl", k - 4)
            \/ k \in {8, 9} /\ Place(d, "rdlength", k - 8)
            \/ k >= 10 /\ d.state = "ipv4"
         /\ Holds(d, n, filed, Typed(code), q)
      \/ /\ k >= 10 /\ Place(d, "ipv6", 0)
         /\ Holds(d, n, filed, [type |-> code, address |-> SubSeq(data, 1, k - 10)], q)
      \/ k >= 10 /\ InName(d, "cname", data, k - 10) /\ Holds(d, n, filed, Typed(code), q)
  BY Zenon DEF AnswerAt, k
<1>. QED BY <1>2, <1>3, <1>6, <1>7, <1>8, <1>9

\* Nothing is found before the first answer
LEMMA NoneFound ==
  ASSUME \A i \in 1 .. Len(dns.answers) : dns.answers[i].type = 0,
         NEW v, Len(v) \in Nat, Len(v) <= 2
  PROVE  Agreed(v)
<1> DEFINE M == Len(dns.answers)
           L == Len(v)
<1>1. TypeCode["A"] # 0 /\ TypeCode["AAAA"] # 0
  BY DEF TypeCode
<1>2. \A i \in 1 .. M : ~(2 + i <= Len(v))
  <2>1. L \in Nat /\ L <= 2
    OBVIOUS
  <2> HIDE DEF M, L
  <2>2. \A i \in 1 .. M : ~(2 + i <= L)
    BY <2>1
  <2>. QED BY <2>2 DEF L
<1>. QED BY <1>1, <1>2 DEF Agreed, SameFound

\* What is filled of the table
LEMMA FillingIs ==
  ASSUME QueryOK, query # NoQuery, NEW u, NEW t, NEW cur, Filling(u, t, cur)
  PROVE  /\ dns \in Dns /\ dns.answers = Filing(Filed(u, t), cur, u[2].ancount)
         /\ Len(dns.answers) = u[2].ancount /\ dns.ancount = u[2].ancount
         /\ dns.index = Len(t) /\ dns.qname = Spelled(Host)
         /\ Len(dns.qname) <= MaxQnameLength
         /\ \A i \in 1 .. Len(t) : dns.answers[i].address = t[i]
<1> DEFINE n == u[2].ancount
           m == Len(t)
           F == Filed(u, t)
<1>1. m \in Nat /\ n \in Nat \ {0} /\ m <= n
  <2>1. m \in Nat /\ n \in Nat \ {0}
    BY AnsweredLengths DEF Filling
  <2>2. m <= n
    BY DEF Filling, Answered
  <2>. QED BY <2>1, <2>2
<1>2. F \in Seq(Answer) /\ Len(F) = m /\ \A i \in 1 .. m : F[i].address = t[i]
  <2>1. /\ Filed(u, t) \in Seq(Answer) /\ Len(Filed(u, t)) = Len(t)
        /\ \A i \in 1 .. Len(t) :
             /\ Filed(u, t)[i] = [type |-> TypeCode[u[2 + i].kind], address |-> t[i]]
             /\ Filed(u, t)[i].type = TypeCode[u[2 + i].kind]
             /\ Filed(u, t)[i].address = t[i]
    BY FiledIs DEF Filling
  <2>. QED BY <2>1, Zenon
<1>3. /\ dns \in Dns /\ dns.ancount = n /\ dns.index = m
      /\ dns.answers = Filing(F, cur, n) /\ dns.qname = Spelled(Host)
  BY <1>2 DEF Filling, Holds
<1>4. Len(dns.qname) <= MaxQnameLength
  <2>1. Len(Spelled(Host)) = Len(Host) - 1 /\ Len(Host) - 1 <= MaxQnameLength
    BY ReadableIs DEF Filling
  <2>. QED BY <1>3, <2>1
<1> HIDE DEF n, m, F
<1>5. /\ Len(Filing(F, cur, n)) = n
      /\ \A i \in 1 .. m : Filing(F, cur, n)[i] = F[i]
  <2>1. Filing(F, cur, n) = [i \in 1 .. n |-> IF i <= m THEN F[i]
                             ELSE IF i = m + 1 THEN cur ELSE BlankAnswer]
    BY <1>2 DEF Filing
  <2>2. \A i \in 1 .. m : i \in 1 .. n /\ i <= m
    BY <1>1
  <2>3. \A f : DOMAIN f = 1 .. n => Len(f) = n
    BY <1>1
  <2>. QED BY <2>1, <2>2, <2>3
<1>6. \A i \in 1 .. m : dns.answers[i].address = t[i]
  BY <1>2, <1>3, <1>5
<1>. QED BY <1>3, <1>4, <1>5, <1>6 DEF n, m, F

\* No part of a unit counts
LEMMA UnitsWhole ==
  ASSUME bytes = <<>> \/ coming.unit.kind \notin {"header", "A", "AAAA"}
  PROVE  AsUnits = units
BY DEF AsUnits

\* The count and the size of the table are those of the units v
Tabled(v) ==
  /\ dns.ancount = IF HeaderBegun(v) THEN v[2].ancount ELSE 0
  /\ Len(dns.answers) = IF HeaderParsed(v) THEN v[2].ancount ELSE 0

\* The two properties, by their parts
LEMMA AgreeFrom ==
  ASSUME dns.state # "mem_alloc_error" => Outcome = Verdict(AsUnits) /\ Tabled(AsUnits),
         Agreed(AsUnits)
  PROVE  DecisionsAgree
BY DEF DecisionsAgree, Agreed, SameFound, Tabled

\* No count before the header
LEMMA TabledBefore ==
  ASSUME NEW v, Len(v) \in Nat, Len(v) < 2, dns.ancount = 0, dns.answers = <<>>
  PROVE  Tabled(v)
BY DEF Tabled, HeaderBegun, HeaderParsed

\* The count of the header
LEMMA TabledBy ==
  ASSUME NEW v, Len(v) \in Nat, Len(v) >= 2, v[2].kind = "header",
         dns.ancount = v[2].ancount, Len(dns.answers) = v[2].ancount
  PROVE  Tabled(v)
BY DEF Tabled, HeaderBegun, HeaderParsed

\* That of the answers' units, with or without one more
LEMMA TabledFilling ==
  ASSUME QueryOK, query # NoQuery, NEW u, NEW t, NEW cur, Filling(u, t, cur), NEW v,
         v = u \/ \E kind \in {"cut_A", "cut_AAAA", "malformed"} : v = Append(u, Plain(kind))
  PROVE  Tabled(v)
<1>1. Len(dns.answers) = u[2].ancount /\ dns.ancount = u[2].ancount
  BY FillingIs
<1>2. /\ Len(t) \in Nat /\ Len(u) = 2 + Len(t) /\ u \in Seq(Unit) /\ u[2].kind = "header"
  BY AnsweredLengths DEF Filling
<1>3. Len(u) \in Nat /\ Len(u) >= 2 /\ 2 \in 1 .. Len(u)
  BY <1>2
<1>4. CASE v = u
  BY <1>1, <1>2, <1>3, <1>4, TabledBy
<1>5. ASSUME NEW kind \in {"cut_A", "cut_AAAA", "malformed"}, v = Append(u, Plain(kind))
      PROVE  Tabled(v)
  <2>1. Plain(kind) \in Unit
    BY PlainIs
  <2>2. /\ Len(v) = Len(u) + 1 /\ \A i \in 1 .. Len(u) : v[i] = u[i]
    BY <1>2, <1>5, <2>1, UnitMore
  <2>3. v[2] = u[2] /\ Len(v) \in Nat /\ Len(v) >= 2
    BY <1>3, <2>2
  <2>. QED BY <1>1, <1>2, <2>3, TabledBy
<1>. QED BY <1>4, <1>5

\* Before any answer
LEMMA FaithfulBefore ==
  ASSUME dns.state \notin Answering, told = <<>>, Len(dns.qname) <= MaxQnameLength
  PROVE  TableFaithful
BY DEF TableFaithful

\* Without memory
LEMMA StuckAgrees ==
  ASSUME Stuck
  PROVE  DecisionsAgree /\ TableFaithful
<1>1. 1 .. Len(dns.answers) = {}
  BY DEF Stuck
<1>2. Agreed(AsUnits)
  BY <1>1, Zenon DEF Agreed, SameFound
<1>3. DecisionsAgree
  BY <1>2, AgreeFrom DEF Stuck
<1>4. MaxQnameLength \in Nat
  BY ResponseAssumption
<1>5. dns.state \notin Answering /\ told = <<>> /\ Len(dns.qname) <= MaxQnameLength
  BY <1>4 DEF Stuck, Answering
<1>. QED BY <1>3, <1>5, FaithfulBefore

\* Before the message
LEMMA NoDnsIs ==
  /\ NoDns \in Dns /\ NoDns.state = "id" /\ NoDns.answers = <<>> /\ NoDns.qname = <<>>
  /\ NoDns.ancount = 0
  /\ HeaderAt(NoDns, 0, High(0), 0) /\ \A n : HeaderAt(NoDns, n, High(n), 0)
<1>1. NoDns \in Dns
  BY DEF NoDns, Dns, DnsStates
<1>2. Counts(NoDns, "id", 0, 0, <<>>)
  BY <1>1 DEF NoDns, Counts, Place
<1>3. ASSUME NEW n
      PROVE  HeaderAt(NoDns, n, High(n), 0)
  BY <1>2 DEF HeaderAt
<1>. QED BY <1>1, <1>3 DEF NoDns

\* Up to the header
LEMMA EarlyAgrees ==
  ASSUME dns = NoDns, told = <<>>, AsUnits = units,
         \/ units \in {<<>>, <<Plain("http")>>} /\ head.state # "error"
         \/ units = <<Plain("malformed")>> /\ head.state = "error"
  PROVE  DecisionsAgree /\ TableFaithful
<1>1. dns.state = "id" /\ dns.answers = <<>> /\ dns.qname = <<>> /\ dns.ancount = 0
  BY NoDnsIs
<1>2. Outcome = IF head.state = "error" THEN "malformed" ELSE "more"
  BY <1>1 DEF Outcome
<1>3. Outcome = Verdict(units)
  BY <1>2, VerdictBefore
<1>4. 1 .. Len(dns.answers) = {}
  BY <1>1
<1>5. Agreed(AsUnits)
  BY <1>4, Zenon DEF Agreed, SameFound
<1>6. DecisionsAgree
  <2>1. Len(units) \in Nat /\ Len(units) < 2
    <3>1. \A x : Len(<<>>) = 0 /\ Len(<<x>>) = 1
      OBVIOUS
    <3>2. units = <<>> \/ units = <<Plain("http")>> \/ units = <<Plain("malformed")>>
      OBVIOUS
    <3>3. Len(units) = 0 \/ Len(units) = 1
      BY <3>1, <3>2, Zenon
    <3>. QED BY <3>3
  <2>2. Tabled(AsUnits)
    BY <1>1, <2>1, TabledBefore
  <2>. QED BY <1>3, <1>5, <2>2, AgreeFrom
<1>7. dns.state \notin Answering
  BY <1>1 DEF Answering
<1>8. Len(dns.qname) <= MaxQnameLength
  BY <1>1, ResponseAssumption
<1>. QED BY <1>6, <1>7, <1>8, FaithfulBefore

\* In the head
LEMMA HeadAgrees ==
  ASSUME NEW w, NEW c \in 0 .. Len(w) - 1, HeadComing(w, c)
  PROVE  DecisionsAgree /\ TableFaithful
<1>1. PICK f : /\ HeadRun(w, f) /\ head = f[c]
               /\ \/ coming.unit = Plain("http")
                  \/ coming.unit = Plain("malformed")
               /\ \A n \in 0 .. Len(w) - 1 : f[n].state \notin {"done", "error"}
  BY Zenon DEF HeadComing
<1>2. head.state # "error"
  BY <1>1
<1>3. coming.unit.kind \notin {"header", "A", "AAAA"}
  BY <1>1, PlainIs
<1>4. AsUnits = units
  BY <1>3, UnitsWhole
<1>. QED BY <1>2, <1>4, EarlyAgrees DEF HeadComing

\* How much of the header has been fed
LEMMA OfHeaderIs ==
  ASSUME QueryOK, query # NoQuery, NEW w, NEW c \in 0 .. Len(w) - 1, bytes = Left(w, c),
         HeaderComing(w, c)
  PROVE  bytes # <<>> /\ OfHeader = c /\ Len(w) \in Nat
<1> DEFINE unit == coming.unit
<1>1. HeaderOK(unit)
  BY DEF HeaderComing
<1>2. HeaderBytes(unit) = {w} /\ w \in Seq(Int)
  <2>1. CASE unit.ancount = 0 /\ w = Counted(unit)
    <3>1. w \in Seq(Nat)
      BY <1>1, <2>1, CountedIs
    <3>2. HeaderBytes(unit) = {w}
      BY <2>1 DEF HeaderBytes, Counted
    <3>. QED BY <3>1, <3>2, OctetsAre
  <2>2. CASE unit.ancount > 0 /\ w = Asked(unit, Host) /\ Readable(query)
    <3>1. Host \in Seq(Int) /\ Question = {Host}
      BY <2>2, ReadableIs
    <3>2. w \in Seq(Int)
      BY <1>1, <2>2, <3>1, AskedOctetsAre
    <3>3. unit.ancount # 0
      BY <1>1, <2>2 DEF HeaderOK
    <3>4. HeaderBytes(unit) = {Asked(unit, name) : name \in Question}
      BY <3>3, Zenon DEF HeaderBytes, Counted, Asked
    <3>5. HeaderBytes(unit) = {w}
      <4> HIDE DEF unit
      <4>. QED BY <2>2, <3>1, <3>4, Zenon
    <3>. QED BY <3>2, <3>5
  <2>. QED BY <2>1, <2>2 DEF HeaderComing
<1>3. (CHOOSE whole \in HeaderBytes(unit) : TRUE) = w
  BY <1>2
<1>4. bytes # <<>> /\ Len(bytes) = Len(w) - c
  <2>1. w \in Seq(Int)
    BY <1>2
  <2>. QED BY <2>1, NextLeft
<1>5. Len(w) \in Nat
  BY <1>2
<1>6. OfHeader = Len(w) - Len(bytes)
  BY <1>3, Zenon DEF OfHeader
<1> DEFINE L == Len(w)
<1> HIDE DEF L
<1>7. OfHeader = L - (L - c) /\ L \in Nat /\ c \in 0 .. L - 1
  BY <1>4, <1>5, <1>6 DEF L
<1>8. OfHeader = c
  BY <1>7
<1>. QED BY <1>4, <1>5, <1>8

\* What the units of a header decide
LEMMA VerdictHeader ==
  ASSUME NEW unit, unit.ancount \in Nat, unit.ancount > 0,
         NEW v, v = <<Plain("http"), unit>>
  PROVE  /\ unit.kind = "header" => Verdict(v) = "more"
         /\ unit.kind = "cut_header" =>
              Verdict(v) = "more" /\ HeaderBegun(v) /\ ~HeaderParsed(v)
<1>1. v # <<>> /\ Len(v) = 2 /\ v[2] = unit /\ v[Len(v)] = unit
  OBVIOUS
<1> DEFINE n == unit.ancount
<1>2. n \in Nat /\ n > 0
  OBVIOUS
<1> HIDE DEF n
<1>3. 2 < 2 + n
  BY <1>2
<1>. QED BY <1>1, <1>3 DEF Verdict, HeaderParsed, HeaderBegun, Last, n

\* Two elements
LEMMA OneMoreThanOne ==
  ASSUME NEW a, NEW x
  PROVE  Append(<<a>>, x) = <<a, x>>
<1> DEFINE S == {a, x}
           r == <<a, x>>
           s == Append(<<a>>, x)
<1>1. <<a>> \in Seq(S) /\ Len(<<a>>) = 1 /\ <<a>>[1] = a /\ x \in S
  OBVIOUS
<1>2. r \in Seq(S) /\ Len(r) = 2 /\ r[1] = a /\ r[2] = x
  OBVIOUS
<1>3. s \in Seq(S) /\ Len(s) = 2 /\ s[1] = a /\ s[2] = x
  BY <1>1, AppendProperties
<1> HIDE DEF r, s, S
<1>4. \A i \in 1 .. Len(s) : s[i] = r[i]
  BY <1>2, <1>3
<1>5. s = r
  BY <1>2, <1>3, <1>4, SeqEqual
<1>. QED BY <1>5 DEF r, s

\* The units of a header of which c octets have been fed
LEMMA HeaderUnits ==
  ASSUME QueryOK, query # NoQuery, NEW w, NEW c \in 0 .. Len(w) - 1, bytes = Left(w, c),
         HeaderComing(w, c), c \in Nat, coming.unit.ancount = 0 => c < 8,
         dns.ancount = IF c < 7 THEN 0 ELSE IF c = 7 THEN High(coming.unit.ancount) * 256
                       ELSE coming.unit.ancount,
         Len(dns.answers) = IF c < 8 THEN 0 ELSE coming.unit.ancount
  PROVE  /\ Verdict(AsUnits) = "more" /\ Tabled(AsUnits)
         /\ Len(AsUnits) \in Nat /\ Len(AsUnits) <= 2
<1> DEFINE unit == coming.unit
           n == unit.ancount
<1>1. /\ units = <<Plain("http")>> /\ unit.kind = "header" /\ n \in Nat
  BY DEF HeaderComing, HeaderOK
<1>2. bytes # <<>> /\ OfHeader = c
  BY OfHeaderIs
<1>3. AsUnits = IF c >= 8 THEN Append(units, unit)
                ELSE IF c = 7 /\ n >= 256 THEN Append(units, CutHeader(unit)) ELSE units
  <2>1. AsUnits = CASE OfHeader >= 8 -> Append(units, unit)
                    [] OfHeader = 7 /\ n >= 256 -> Append(units, CutHeader(unit))
                    [] OTHER -> units
    BY <1>1, <1>2 DEF AsUnits
  <2> HIDE DEF n, unit
  <2>. QED BY <1>2, <2>1
<1>4. \A x : Append(<<Plain("http")>>, x) = <<Plain("http"), x>>
  BY OneMoreThanOne
<1>5. CASE c >= 8
  <2>1. AsUnits = <<Plain("http"), unit>>
    BY <1>1, <1>3, <1>4, <1>5
  <2>2. n > 0
    BY <1>1, <1>5
  <2>3. Verdict(AsUnits) = "more"
    BY <1>1, <2>1, <2>2, VerdictHeader
  <2>4. Len(AsUnits) = 2 /\ AsUnits[2] = unit
    BY <2>1
  <2>5. dns.ancount = n /\ Len(dns.answers) = n
    BY <1>5
  <2>6. Tabled(AsUnits)
    BY <1>1, <2>4, <2>5, TabledBy
  <2>. QED BY <2>3, <2>4, <2>6
<1>6. CASE c = 7 /\ n >= 256
  <2> DEFINE x == CutHeader(unit)
  <2>0. unit \in Unit
    BY DEF HeaderComing
  <2>1. x.kind = "cut_header" /\ x.ancount = 256 * (n \div 256)
    BY <2>0 DEF CutHeader, Unit
  <2>2. x.ancount \in Nat /\ x.ancount > 0
    <3> HIDE DEF x, n
    <3>. QED BY <1>1, <1>6, <2>1
  <2>3. AsUnits = <<Plain("http"), x>>
    BY <1>1, <1>3, <1>4, <1>6
  <2> HIDE DEF x
  <2>4. Verdict(AsUnits) = "more" /\ HeaderBegun(AsUnits) /\ ~HeaderParsed(AsUnits)
    BY <2>1, <2>2, <2>3, VerdictHeader
  <2>5. Len(AsUnits) = 2 /\ AsUnits[2] = x
    BY <2>3
  <2>6. dns.ancount = x.ancount /\ Len(dns.answers) = 0
    <3>1. dns.ancount = High(n) * 256 /\ Len(dns.answers) = 0
      BY <1>6
    <3> HIDE DEF n
    <3>2. High(n) * 256 = 256 * (n \div 256)
      BY <1>1 DEF High
    <3>. QED BY <2>1, <3>1, <3>2
  <2>. QED BY <2>4, <2>5, <2>6 DEF Tabled
<1>7. CASE c < 8 /\ ~(c = 7 /\ n >= 256)
  <2>1. AsUnits = <<Plain("http")>> /\ Len(AsUnits) = 1
    BY <1>1, <1>3, <1>7
  <2>2. dns.ancount = 0 /\ Len(dns.answers) = 0
    <3>1. n < 256 => High(n) * 256 = 0
      <4> HIDE DEF n
      <4>. QED BY <1>1 DEF High
    <3>. QED BY <1>1, <1>7, <3>1
  <2>3. Tabled(AsUnits)
    BY <2>1, <2>2 DEF Tabled, HeaderBegun, HeaderParsed
  <2>. QED BY <2>1, <2>3, VerdictBefore
<1>. QED BY <1>5, <1>6, <1>7

\* In the header
LEMMA HeaderAgrees ==
  ASSUME QueryOK, query # NoQuery, NEW w, NEW c \in 0 .. Len(w) - 1, bytes = Left(w, c),
         HeaderComing(w, c)
  PROVE  DecisionsAgree /\ TableFaithful
<1>1. /\ units = <<Plain("http")>> /\ told = <<>> /\ head.state = "done"
      /\ coming.unit.kind = "header" /\ coming.unit.ancount \in Nat
  BY DEF HeaderComing, HeaderOK
<1>2. c \in Nat
  <2>1. Len(w) \in Nat
    BY OfHeaderIs
  <2>. QED BY <2>1
<1>3. MaxQnameLength \in Nat
  BY ResponseAssumption
<1>4. /\ dns.state \in {"id", "flags", "qdcount", "ancount", "nscount", "arcount", "qname",
                        "qtype", "qclass"}
      /\ Len(dns.qname) <= MaxQnameLength
      /\ \A i \in 1 .. Len(dns.answers) : dns.answers[i].type = 0
      /\ coming.unit.ancount = 0 => c < 8
      /\ dns.ancount = IF c < 7 THEN 0 ELSE IF c = 7 THEN High(coming.unit.ancount) * 256
                       ELSE coming.unit.ancount
      /\ Len(dns.answers) = IF c < 8 THEN 0 ELSE coming.unit.ancount
  <2>1. ASSUME NEW n \in Nat, n = coming.unit.ancount, HeaderAt(dns, n, High(n), c)
        PROVE  <1>4!:
    <3>1. /\ dns.state \in {"id", "flags", "qdcount", "ancount", "nscount", "arcount"}
          /\ dns.qname = <<>> /\ \A i \in 1 .. Len(dns.answers) : dns.answers[i].type = 0
          /\ c \in 0 .. 11 /\ (c >= 8 => n > 0)
          /\ dns.ancount = (IF c < 7 THEN 0 ELSE IF c = 7 THEN High(n) * 256 ELSE n)
          /\ Len(dns.answers) = (IF c < 8 THEN 0 ELSE n)
      <4> DEFINE high == High(n)
      <4>1. HeaderAt(dns, n, high, c)
        BY <2>1
      <4> HIDE DEF high
      <4>2. /\ dns.state \in {"id", "flags", "qdcount", "ancount", "nscount", "arcount"}
            /\ dns.qname = <<>> /\ \A i \in 1 .. Len(dns.answers) : dns.answers[i].type = 0
            /\ c \in 0 .. 11 /\ (c >= 8 => n > 0)
            /\ dns.ancount = (IF c < 7 THEN 0 ELSE IF c = 7 THEN high * 256 ELSE n)
            /\ Len(dns.answers) = (IF c < 8 THEN 0 ELSE n)
        BY <4>1, HeaderAtIs
      <4>. QED BY <4>2, Zenon DEF high
    <3>2. Len(dns.qname) <= MaxQnameLength
      BY <1>3, <3>1
    <3>3. n = 0 => c < 8
      BY <3>1
    <3>. QED BY <2>1, <3>1, <3>2, <3>3
  <2>2. CASE coming.unit.ancount = 0 /\ HeaderAt(dns, 0, High(0), c)
    BY <2>1, <2>2
  <2>3. CASE /\ coming.unit.ancount > 0 /\ Readable(query)
             /\ HeadingAt(dns, coming.unit.ancount, Host, c)
    <3>1. /\ Host \in Seq(Int) /\ LabelsFit(Host) /\ Len(Host) - 1 <= MaxQnameLength
      BY <2>3, ReadableIs
    <3> DEFINE n == coming.unit.ancount
    <3>2. CASE HeaderAt(dns, n, High(n), c)
      BY <1>1, <2>1, <3>2
    <3>3. CASE ~(c < 12) /\ QuestionAt(dns, n, Host, c - 12)
      <4>1. n \in Nat
        BY <1>1
      <4> HIDE DEF n
      <4> DEFINE k == c - 12
                 N == Host
      <4>2. N \in Seq(Int) /\ LabelsFit(N) /\ QuestionAt(dns, n, N, k)
        BY <3>1, <3>3
      <4> HIDE DEF k, N
      <4>3. /\ dns.state \in {"qname", "qtype", "qclass"}
            /\ Len(dns.qname) <= Len(N) - 1
            /\ \A i \in 1 .. Len(dns.answers) : dns.answers[i].type = 0
            /\ dns.ancount = n /\ Len(dns.answers) = n
        BY <4>1, <4>2, QuestionAtIs
      <4>4. Len(dns.qname) <= MaxQnameLength
        <5>1. dns.qname \in Seq(Int) /\ Len(N) \in Nat
          <6>1. dns \in Dns
            BY <4>2, Zenon DEF QuestionAt, Holds
          <6>. QED BY <4>2, <6>1, DnsFields
        <5> DEFINE l == Len(dns.qname)
                   h == Len(N)
        <5>2. l \in Nat /\ h \in Nat /\ l <= h - 1 /\ h - 1 <= MaxQnameLength
          BY <3>1, <4>3, <5>1 DEF N
        <5> HIDE DEF l, h
        <5>3. l <= MaxQnameLength
          BY <1>3, <5>2
        <5>. QED BY <5>3 DEF l
      <4>5. n > 0 /\ c >= 12
        BY <1>2, <2>3, <3>3 DEF n
      <4>6. n # 0 /\ ~(c < 7) /\ c # 7 /\ ~(c < 8)
        BY <1>2, <4>1, <4>5
      <4>. QED BY <4>3, <4>4, <4>6 DEF n
    <3>. QED BY <2>3, <3>2, <3>3 DEF HeadingAt
  <2>. QED BY <2>2, <2>3 DEF HeaderComing
<1>5. Outcome = "more"
  BY <1>1, <1>4 DEF Outcome
<1>6. /\ Verdict(AsUnits) = "more" /\ Tabled(AsUnits)
      /\ Len(AsUnits) \in Nat /\ Len(AsUnits) <= 2
  BY <1>2, <1>4, HeaderUnits
<1>7. Agreed(AsUnits)
  BY <1>4, <1>6, NoneFound
<1>9. DecisionsAgree
  BY <1>5, <1>6, <1>7, AgreeFrom
<1>10. dns.state \notin Answering
  BY <1>4 DEF Answering
<1>. QED BY <1>1, <1>4, <1>9, <1>10, FaithfulBefore

\* The table, of so many answers and a part of one
LEMMA FillingFaithful ==
  ASSUME QueryOK, query # NoQuery, NEW u, NEW t, NEW cur, Filling(u, t, cur),
         \/ units = u /\ told = t /\ (dns.state \in Answering => Len(t) < u[2].ancount)
         \/ /\ units = Append(u, Plain("malformed")) /\ told = Append(t, <<>>)
            /\ dns.state \notin Answering
  PROVE  TableFaithful
<1> DEFINE n == u[2].ancount
           m == Len(t)
<1>1. /\ Len(dns.answers) = n /\ dns.ancount = n /\ dns.index = m /\ dns.qname = Spelled(Host)
      /\ Len(dns.qname) <= MaxQnameLength
      /\ \A i \in 1 .. m : dns.answers[i].address = t[i]
  BY FillingIs
<1>2. dns.state \in Answering => dns.index < dns.ancount /\ Len(dns.answers) = dns.ancount
  BY <1>1
<1>3. dns.state \in Answering => dns.qname = Spelled(AskedName(query.body, query.content_length))
  BY <1>1 DEF Host
<1>4. \A i \in 1 .. Len(told) :
        units[2 + i].kind \in {"A", "AAAA"} => dns.answers[i].address = told[i]
  <2>1. CASE units = u /\ told = t
    BY <1>1, <2>1
  <2>2. CASE units = Append(u, Plain("malformed")) /\ told = Append(t, <<>>)
    <3>1. /\ m \in Nat /\ Len(u) = 2 + m /\ u \in Seq(Unit) /\ t \in Seq(Seq(Nat))
      BY AnsweredLengths DEF Filling
    <3> DEFINE x == Plain("malformed")
               v == Append(u, x)
               s == Append(t, <<>>)
    <3>2. x \in Unit /\ x.kind = "malformed"
      BY PlainIs
    <3>3. <<>> \in Seq(Nat)
      OBVIOUS
    <3> HIDE DEF x
    <3>4. v[Len(u) + 1] = x
      BY <3>1, <3>2, UnitMore
    <3>5. /\ Len(s) = m + 1 /\ \A i \in 1 .. m : s[i] = t[i]
      BY <3>1, <3>3, AppendProperties
    <3> HIDE DEF v, s, m
    <3>6. \A i \in 1 .. m + 1 : i \in 1 .. m \/ i = m + 1
      BY <3>1
    <3>7. 2 + (m + 1) = Len(u) + 1
      BY <3>1
    <3>8. v[2 + (m + 1)].kind \notin {"A", "AAAA"}
      BY <3>2, <3>4, <3>7
    <3>9. ASSUME NEW i \in 1 .. m + 1, v[2 + i].kind \in {"A", "AAAA"}
          PROVE  dns.answers[i].address = s[i]
      <4>1. i \in 1 .. m
        BY <3>6, <3>8, <3>9
      <4>. QED BY <1>1, <3>5, <4>1
    <3>. QED BY <2>2, <3>5, <3>9 DEF v, s, x
  <2>. QED BY <2>1, <2>2
<1>. QED BY <1>1, <1>2, <1>3, <1>4 DEF TableFaithful

\* The answers that are found, of so many answers and a part of one
LEMMA FillingAgrees ==
  ASSUME QueryOK, query # NoQuery, NEW u, NEW t, NEW cur, Filling(u, t, cur),
         \/ AsUnits = u /\ cur.type \notin {1, 28}
         \/ \E kind \in {"cut_A", "cut_AAAA", "malformed"} :
              /\ AsUnits = Append(u, Plain(kind))
              /\ cur.type = CASE kind = "cut_A" -> 1 [] kind = "cut_AAAA" -> 28
                              [] OTHER -> OtherType
  PROVE  Agreed(AsUnits)
<1> DEFINE n == u[2].ancount
           v == AsUnits
<1>1. dns.answers = Filing(Filed(u, t), cur, n) /\ Len(dns.answers) = n
  BY FillingIs
<1>2. /\ Len(t) \in Nat /\ Len(u) = 2 + Len(t) /\ u \in Seq(Unit) /\ Answered(u, t)
  BY AnsweredLengths DEF Filling
<1>3. /\ Len(v) \in Nat /\ \A i \in 1 .. Len(u) : v[i] = u[i]
      /\ \/ Len(v) = Len(u) /\ cur.type \notin {1, 28}
         \/ /\ Len(v) = Len(u) + 1
            /\ \A type \in {"A", "AAAA"} : cur.type = TypeCode[type] <=> Offers(v[Len(u) + 1], type)
  <2>1. CASE v = u /\ cur.type \notin {1, 28}
    BY <1>2, <2>1
  <2>2. ASSUME NEW kind \in {"cut_A", "cut_AAAA", "malformed"}, v = Append(u, Plain(kind)),
               cur.type = CASE kind = "cut_A" -> 1 [] kind = "cut_AAAA" -> 28
                            [] OTHER -> OtherType
        PROVE  <1>3!:
    <3> DEFINE x == Plain(kind)
    <3>1. x \in Unit /\ x.kind = kind
      BY PlainIs
    <3> HIDE DEF x
    <3>2. /\ Append(u, x) \in Seq(Unit) /\ Len(Append(u, x)) = Len(u) + 1
          /\ Append(u, x)[Len(u) + 1] = x
          /\ \A i \in 1 .. Len(u) : Append(u, x)[i] = u[i]
      BY <1>2, <3>1, UnitMore
    <3> HIDE DEF v
    <3>3. v = Append(u, x)
      BY <2>2 DEF x
    <3>4. \A type \in {"A", "AAAA"} : cur.type = TypeCode[type] <=> Offers(x, type)
      <4>1. TypeCode["A"] = 1 /\ TypeCode["AAAA"] = 28
        BY DEF TypeCode
      <4>2. OtherType \notin {1, 28}
        BY OtherIs
      <4>. QED BY <2>2, <3>1, <4>1, <4>2 DEF Offers
    <3>. QED BY <1>2, <3>2, <3>3, <3>4
  <2>. QED BY <2>1, <2>2
<1> HIDE DEF v
<1>5. UnitsWith(v, u, cur)
  BY <1>3, Zenon DEF UnitsWith
<1> HIDE DEF n
<1>4. SameFound(Filing(Filed(u, t), cur, n), n, v)
  <2>1. Answered(u, t) /\ n = u[2].ancount
    BY <1>2 DEF n
  <2>. QED BY <1>5, <2>1, OffersAgree, Zenon
<1>. QED BY <1>1, <1>4 DEF Agreed, n, v

\* The code of each kind, and what follows for the data
LEMMA CodeIs ==
  /\ CodeOf("A") = 1 /\ CodeOf("AAAA") = 28 /\ CodeOf("CNAME") = 5 /\ CodeOf("malformed") = OtherType
  /\ TypeCode["A"] = 1 /\ TypeCode["AAAA"] = 28 /\ TypeCode["CNAME"] = 5
BY DEF CodeOf, TypeCode

\* The data of an answer of each kind
LEMMA DataIs ==
  ASSUME NEW kind \in {"A", "AAAA", "CNAME", "malformed"}, NEW name, NEW data,
         AnswerOK(name, CodeOf(kind), data)
  PROVE  /\ name \in Seq(Nat) /\ CodeOf(kind) \in Nat /\ data \in Seq(Nat)
         /\ kind = "A" => Len(data) = 4
         /\ kind = "AAAA" => Len(data) = 16
<1>1. OtherType \notin {1, 5, 28}
  BY OtherIs
<1>. QED BY <1>1, CodeIs DEF AnswerOK

\* In an answer
LEMMA AnswerAgrees ==
  ASSUME QueryOK, query # NoQuery, NEW w, NEW c \in 0 .. Len(w) - 1, bytes = Left(w, c),
         AnswerComing(w, c)
  PROVE  DecisionsAgree /\ TableFaithful
<1> DEFINE n == units[2].ancount
<1>0. PICK kind \in {"A", "AAAA", "CNAME", "malformed"} : \E name, data :
        /\ AnswerOK(name, CodeOf(kind), data)
        /\ w = AnswerOctets(name, CodeOf(kind), data)
        /\ coming = [unit |-> Plain(kind), address |-> IF kind \in {"A", "AAAA"} THEN data ELSE <<>>]
        /\ AnswerAt(dns, units[2].ancount, Filed(units, told), Spelled(Host), name,
                    CodeOf(kind), data, c)
  BY Zenon DEF AnswerComing
<1>1. PICK name, data :
        /\ AnswerOK(name, CodeOf(kind), data)
        /\ w = AnswerOctets(name, CodeOf(kind), data)
        /\ coming = [unit |-> Plain(kind), address |-> IF kind \in {"A", "AAAA"} THEN data ELSE <<>>]
        /\ AnswerAt(dns, units[2].ancount, Filed(units, told), Spelled(Host), name,
                    CodeOf(kind), data, c)
  BY <1>0
<1> DEFINE code == CodeOf(kind)
           N == Len(name)
           L == Len(data)
<1>2. /\ Answered(units, told) /\ Len(told) < n /\ head.state = "done" /\ Readable(query)
  BY Zenon DEF AnswerComing
<1>3. Len(told) \in Nat /\ Len(units) = 2 + Len(told) /\ n \in Nat \ {0} /\ units \in Seq(Unit)
  BY <1>2, AnsweredLengths
<1>4. /\ name \in Seq(Nat) /\ code \in Nat
      /\ kind = "A" => L = 4
      /\ kind = "AAAA" => L = 16
  BY <1>1, DataIs
<1>5. w \in Seq(Nat) /\ N \in Nat /\ L \in Nat /\ Len(w) = N + 10 + L
  BY <1>1, AnswerOctetsAre
<1>6. c \in Nat
  <2>1. Len(w) \in Nat
    BY <1>5
  <2>. QED BY <2>1
<1> HIDE DEF code
<1>7. PICK cur : /\ Holds(dns, n, Filed(units, told), cur, Spelled(Host))
                 /\ cur.type = IF c < N + 2 THEN 0 ELSE code
  <2>1. AnswerAt(dns, n, Filed(units, told), Spelled(Host), name, code, data, c)
    BY <1>1 DEF code
  <2> DEFINE F == Filed(units, told)
             q == Spelled(Host)
  <2>2. n \in Nat /\ AnswerAt(dns, n, F, q, name, code, data, c)
    BY <1>3, <2>1
  <2> HIDE DEF n, F, q
  <2>3. HoldsSome(dns, n, F, q, Len(name), code, c)
    BY <1>4, <1>6, <2>2, AnswerAtIs
  <2>. QED BY <2>3, Zenon DEF n, F, q, HoldsSome, N
<1>8. dns.state \in Answering
  <2> DEFINE F == Filed(units, told)
             q == Spelled(Host)
  <2>1. n \in Nat /\ AnswerAt(dns, n, F, q, name, code, data, c)
    BY <1>1, <1>3 DEF code
  <2> HIDE DEF n, F, q
  <2>. QED BY <1>4, <1>6, <2>1, AnswerAtIs
<1>9. Filling(units, told, cur)
  BY <1>2, <1>7 DEF Filling
<1>10. TableFaithful
  BY <1>2, <1>9, FillingFaithful
<1>11. Outcome = "more"
  BY <1>2, <1>8 DEF Outcome, Answering
<1>12. Verdict(units) = "more"
  <2>1. Len(told) # n
    BY <1>2, <1>3
  <2>. QED BY <1>2, <2>1, VerdictAnswered
<1>13. bytes # <<>> /\ Len(bytes) = N + 10 + L - c
  <2>1. w \in Seq(Nat)
    BY <1>5
  <2>2. bytes # <<>> /\ Len(bytes) = Len(w) - c
    BY <2>1, NextLeft
  <2> HIDE DEF N, L
  <2>. QED BY <1>5, <2>2
<1>14. coming.unit.kind = kind
  <2>1. coming.unit = Plain(kind)
    BY <1>1
  <2>. QED BY <2>1, PlainIs
<1>15. CASE AsUnits = units /\ cur.type \notin {1, 28}
  <2>1. Agreed(AsUnits)
    BY <1>9, <1>15, FillingAgrees
  <2>2. Tabled(AsUnits)
    BY <1>9, <1>15, TabledFilling
  <2>. QED BY <1>10, <1>11, <1>12, <1>15, <2>1, <2>2, AgreeFrom
<1>16. ASSUME NEW cut \in {"cut_A", "cut_AAAA"}, AsUnits = Append(units, Plain(cut)),
              cur.type = IF cut = "cut_A" THEN 1 ELSE 28
       PROVE  DecisionsAgree
  <2>1. Verdict(AsUnits) = "more"
    BY <1>2, <1>16, VerdictCut
  <2>2. Agreed(AsUnits)
    <3>1. cur.type = CASE cut = "cut_A" -> 1 [] cut = "cut_AAAA" -> 28 [] OTHER -> OtherType
      BY <1>16
    <3>. QED BY <1>9, <1>16, <3>1, FillingAgrees
  <2>3. Tabled(AsUnits)
    BY <1>9, <1>16, TabledFilling
  <2>. QED BY <1>11, <2>1, <2>2, <2>3, AgreeFrom
<1> HIDE DEF N, L, n
<1>17. CASE kind \in {"CNAME", "malformed"}
  <2>1. AsUnits = units
    BY <1>14, <1>17, UnitsWhole
  <2>2. code \notin {1, 28}
    BY <1>17, CodeIs, OtherIs DEF code
  <2>3. cur.type \notin {1, 28}
    BY <1>7, <2>2
  <2>. QED BY <1>15, <2>1, <2>3
<1>18. CASE kind = "A"
  <2>1. code = 1 /\ L = 4
    BY <1>4, <1>18, CodeIs DEF code
  <2>2. Len(bytes) <= 8 + 4 <=> ~(c < N + 2)
    BY <1>5, <1>6, <1>13, <2>1
  <2>3. AsUnits = IF c < N + 2 THEN units ELSE Append(units, Plain("cut_A"))
    BY <1>13, <1>14, <1>18, <2>2 DEF AsUnits, AddressLength
  <2>4. CASE c < N + 2
    BY <1>7, <1>15, <2>3, <2>4
  <2>5. CASE ~(c < N + 2)
    BY <1>7, <1>10, <1>16, <2>1, <2>3, <2>5
  <2>. QED BY <2>4, <2>5
<1>19. CASE kind = "AAAA"
  <2>1. code = 28 /\ L = 16
    BY <1>4, <1>19, CodeIs DEF code
  <2>2. Len(bytes) <= 8 + 16 <=> ~(c < N + 2)
    BY <1>5, <1>6, <1>13, <2>1
  <2>3. AsUnits = IF c < N + 2 THEN units ELSE Append(units, Plain("cut_AAAA"))
    BY <1>13, <1>14, <1>19, <2>2 DEF AsUnits, AddressLength
  <2>4. CASE c < N + 2
    BY <1>7, <1>15, <2>3, <2>4
  <2>5. CASE ~(c < N + 2)
    BY <1>7, <1>10, <1>16, <2>1, <2>3, <2>5
  <2>. QED BY <2>4, <2>5
<1>. QED BY <1>17, <1>18, <1>19

\* Between two units
LEMMA IdleAgrees ==
  ASSUME QueryOK, bytes = <<>>, Idle
  PROVE  DecisionsAgree /\ TableFaithful
<1>1. AsUnits = units
  BY UnitsWhole
<1>2. CASE units = <<>> /\ told = <<>> /\ head = At("version", 0) /\ dns = NoDns
  <2>1. head.state # "error"
    BY <1>2 DEF At
  <2>. QED BY <1>1, <1>2, <2>1, EarlyAgrees
<1>3. CASE /\ told = <<>> /\ dns = NoDns
           /\ \/ units = <<Plain("http")>> /\ head.state = "done"
              \/ units = <<Plain("malformed")>> /\ head.state = "error"
  BY <1>1, <1>3, EarlyAgrees
<1>4. CASE /\ told = <<>> /\ head.state = "done"
           /\ units \in Seq(Unit) /\ Len(units) = 2 /\ HeaderOK(units[2])
           /\ units[2].ancount = 0 /\ Counts(dns, "no_answers", 0, 0, <<>>)
  <2>1. Verdict(units) = "no_answers"
    BY <1>4, VerdictNone
  <2>2. /\ dns.state = "no_answers" /\ dns.answers = <<>> /\ dns.qname = <<>>
        /\ dns.ancount = 0
    BY <1>4 DEF Counts, Place
  <2>3. Outcome = "no_answers"
    BY <1>4, <2>2 DEF Outcome
  <2>4. 1 .. Len(dns.answers) = {}
    BY <2>2
  <2>5. Agreed(AsUnits)
    BY <2>4, Zenon DEF Agreed, SameFound
  <2>6. DecisionsAgree
    <3>1. Len(dns.answers) = 0 /\ units[2].kind = "header"
      BY <1>4, <2>2 DEF HeaderOK
    <3>2. Tabled(units)
      BY <1>4, <2>2, <3>1, TabledBy
    <3>. QED BY <1>1, <2>1, <2>3, <2>5, <3>2, AgreeFrom
  <2>7. Len(dns.qname) <= MaxQnameLength /\ dns.state \notin Answering
    BY <2>2, ResponseAssumption DEF Answering
  <2>. QED BY <1>4, <2>6, <2>7, FaithfulBefore
<1>5. CASE /\ query # NoQuery /\ head.state = "done"
           /\ Filling(units, told, BlankAnswer)
           /\ Place(dns, IF Len(told) = units[2].ancount THEN "done" ELSE "name", 0)
  <2> DEFINE n == units[2].ancount
  <2>1. /\ Answered(units, told) /\ Len(told) \in Nat /\ n \in Nat /\ Len(told) <= n
    <3>1. Answered(units, told)
      BY <1>5 DEF Filling
    <3>2. Len(told) <= n
      BY <3>1 DEF Answered
    <3>. QED BY <3>1, <3>2, AnsweredLengths
  <2>2. Verdict(units) = IF Len(told) = n THEN "complete" ELSE "more"
    BY <2>1, VerdictAnswered
  <2>3. dns.state = IF Len(told) = n THEN "done" ELSE "name"
    BY <1>5 DEF Place
  <2>4. Outcome = Verdict(AsUnits)
    BY <1>1, <1>5, <2>2, <2>3 DEF Outcome
  <2>5. BlankAnswer.type \notin {1, 28}
    BY DEF BlankAnswer
  <2>6. Agreed(AsUnits)
    BY <1>1, <1>5, <2>5, FillingAgrees
  <2>7. dns.state \in Answering => Len(told) < n
    <3>1. dns.state \in Answering => Len(told) # n
      BY <2>3 DEF Answering
    <3> HIDE DEF n
    <3>. QED BY <2>1, <3>1
  <2>8. TableFaithful
    BY <1>5, <2>7, FillingFaithful
  <2>9. Tabled(AsUnits)
    BY <1>1, <1>5, TabledFilling
  <2>. QED BY <2>4, <2>6, <2>8, <2>9, AgreeFrom
<1>6. ASSUME query # NoQuery, head.state = "done", dns.state = "error",
             NEW u, NEW t, Filling(u, t, Typed(OtherType)),
             units = Append(u, Plain("malformed")), told = Append(t, <<>>)
      PROVE  DecisionsAgree /\ TableFaithful
  <2>1. u \in Seq(Unit)
    BY <1>6, AnsweredLengths DEF Filling
  <2>2. Verdict(units) = "malformed"
    BY <1>6, <2>1, VerdictMalformed
  <2>3. Outcome = "malformed"
    BY <1>6 DEF Outcome
  <2>4. Typed(OtherType).type = OtherType
    BY DEF Typed
  <2>5. Agreed(AsUnits)
    <3> DEFINE kind == "malformed"
    <3>1. /\ kind \in {"cut_A", "cut_AAAA", "malformed"}
          /\ AsUnits = Append(u, Plain(kind))
          /\ Typed(OtherType).type = CASE kind = "cut_A" -> 1 [] kind = "cut_AAAA" -> 28
                                       [] OTHER -> OtherType
      BY <1>1, <1>6, <2>4
    <3> HIDE DEF kind
    <3>. QED BY <1>6, <3>1, FillingAgrees
  <2>6. dns.state \notin Answering
    BY <1>6 DEF Answering
  <2>7. TableFaithful
    BY <1>6, <2>6, FillingFaithful
  <2>8. Tabled(units)
    BY <1>6, TabledFilling
  <2>. QED BY <1>1, <2>2, <2>3, <2>5, <2>7, <2>8, AgreeFrom
<1>. QED BY <1>2, <1>3, <1>4, <1>5, <1>6 DEF Idle

\* The two properties
LEMMA InvAgrees ==
  ASSUME ResponseInv
  PROVE  DecisionsAgree /\ TableFaithful
<1>1. QueryOK /\ ((bytes = <<>> /\ Idle) \/ Within \/ Stuck)
  BY DEF ResponseInv
<1>2. CASE Within
  <2>1. PICK w : \E c \in 0 .. Len(w) - 1 :
          /\ bytes = Left(w, c) /\ query # NoQuery
          /\ HeadComing(w, c) \/ HeaderComing(w, c) \/ AnswerComing(w, c)
    BY <1>2, Zenon DEF Within
  <2>2. PICK c \in 0 .. Len(w) - 1 :
          /\ bytes = Left(w, c) /\ query # NoQuery
          /\ HeadComing(w, c) \/ HeaderComing(w, c) \/ AnswerComing(w, c)
    BY <2>1
  <2>. QED BY <1>1, <2>2, HeadAgrees, HeaderAgrees, AnswerAgrees
<1>. QED BY <1>1, <1>2, IdleAgrees, StuckAgrees

-----------------------------------------------------------------------------
(* Feeding an octet *)

\* What Feed does with the next octet of w
Eats(w, c) ==
  /\ bytes' = Left(w, c + 1) /\ query' = query
  /\ c + 1 = Len(w) =>
       /\ bytes' = <<>> /\ units' = Append(units, coming.unit)
       /\ told' = IF Len(units) < 2 THEN told ELSE Append(told, coming.address)
  /\ c + 1 # Len(w) =>
       c + 1 \in 0 .. Len(w) - 1 /\ units' = units /\ told' = told /\ coming' = coming
  /\ head.state # "done" => head' = HeadFeed(head, w[c + 1]) /\ dns' = dns
  /\ head.state = "done" =>
       /\ head' = head
       /\ \/ dns' = DnsFeed(dns, w[c + 1])
          \/ /\ dns.state = "ancount" /\ dns.i = 1 /\ Store(dns, w[c + 1]).ancount > 0
             /\ dns' = [Store(dns, w[c + 1]) EXCEPT !.state = "mem_alloc_error"]

\* It is that
LEMMA FeedIs ==
  ASSUME NEW S, NEW w \in Seq(S), NEW c \in 0 .. Len(w) - 1, bytes = Left(w, c), Feed
  PROVE  Eats(w, c)
<1> DEFINE N == Len(w)
           x == Head(bytes)
           more == Len(bytes) > 1
<1>1. /\ bytes # <<>> /\ x = w[c + 1] /\ Len(bytes) = N - c /\ Tail(bytes) = Left(w, c + 1)
      /\ Left(w, c + 1) = <<>> <=> c + 1 = N
  BY NextLeft
<1>2. N \in Nat /\ c \in Nat /\ c < N
  OBVIOUS
<1> HIDE DEF N, x
<1>3. (more <=> c + 1 # N) /\ (c + 1 # N => c + 1 \in 0 .. N - 1)
  BY <1>1, <1>2
<1> HIDE DEF more
<1>4. /\ bytes' = Left(w, c + 1) /\ query' = query
      /\ IF more THEN UNCHANGED <<units, told, coming>>
         ELSE /\ units' = Append(units, coming.unit)
              /\ told' = IF Len(units) < 2 THEN told ELSE Append(told, coming.address)
  BY <1>1, Zenon DEF Feed, more
<1>5. IF head.state # "done"
       THEN head' = HeadFeed(head, x) /\ UNCHANGED dns
       ELSE /\ UNCHANGED head
            /\ \/ dns' = DnsFeed(dns, x)
               \/ /\ dns.state = "ancount" /\ dns.i = 1
                  /\ Store(dns, x).ancount > 0
                  /\ dns' = [Store(dns, x) EXCEPT !.state = "mem_alloc_error"]
  BY Zenon DEF Feed, x
<1>6. head.state # "done" => head' = HeadFeed(head, w[c + 1]) /\ dns' = dns
  BY <1>1, <1>5, Zenon
<1>7. head.state = "done" =>
        /\ head' = head
        /\ \/ dns' = DnsFeed(dns, w[c + 1])
           \/ /\ dns.state = "ancount" /\ dns.i = 1 /\ Store(dns, w[c + 1]).ancount > 0
              /\ dns' = [Store(dns, w[c + 1]) EXCEPT !.state = "mem_alloc_error"]
  BY <1>1, <1>5, Zenon
<1>8. c + 1 = N => ~more
  BY <1>3
<1>9. c + 1 # N => more /\ c + 1 \in 0 .. N - 1
  BY <1>3
<1>10. c + 1 = N => bytes' = <<>>
  BY <1>1, <1>4
<1>. QED BY <1>4, <1>6, <1>7, <1>8, <1>9, <1>10, Zenon DEF N, Eats

\* The query stays the one that was sent
LEMMA SameHost ==
  ASSUME query' = query
  PROVE  Host' = Host /\ (QueryOK => QueryOK') /\ (Readable(query))' = Readable(query)
BY DEF Host, QueryOK

\* A response goes on
LEMMA StillWithin ==
  ASSUME NEW w, NEW c, c + 1 \in 0 .. Len(w) - 1, bytes' = Left(w, c + 1), query # NoQuery,
         query' = query,
         \/ HeadComing(w, c + 1)' \/ HeaderComing(w, c + 1)' \/ AnswerComing(w, c + 1)'
  PROVE  Within'
<1> DEFINE e == c + 1
<1>1. /\ e \in 0 .. Len(w) - 1 /\ bytes' = Left(w, e) /\ query' # NoQuery
      /\ HeadComing(w, e)' \/ HeaderComing(w, e)' \/ AnswerComing(w, e)'
  OBVIOUS
<1> HIDE DEF e
<1>. QED BY <1>1 DEF Within

\* In the head
LEMMA HeadFed ==
  ASSUME QueryOK, query # NoQuery, NEW w, NEW c \in 0 .. Len(w) - 1, bytes = Left(w, c),
         HeadComing(w, c), Feed
  PROVE  (bytes' = <<>> /\ Idle') \/ Within'
<1>1. w \in Seq(Characters) /\ units = <<>> /\ told = <<>> /\ dns = NoDns
  BY DEF HeadComing
<1>2. PICK f : /\ HeadRun(w, f) /\ head = f[c]
               /\ \/ coming.unit = Plain("http") /\ f[Len(w)].state = "done"
                  \/ coming.unit = Plain("malformed") /\ f[Len(w)].state = "error"
               /\ \A n \in 0 .. Len(w) - 1 : f[n].state \notin {"done", "error"}
  BY Zenon DEF HeadComing
<1> DEFINE N == Len(w)
           e == c + 1
<1>3. N \in Nat /\ c \in Nat /\ c < N /\ e \in 0 .. N /\ e # 0 /\ e - 1 = c
  BY <1>1
<1>4. /\ bytes' = Left(w, e) /\ query' = query
      /\ e = N => /\ bytes' = <<>> /\ units' = Append(units, coming.unit)
                  /\ told' = IF Len(units) < 2 THEN told ELSE Append(told, coming.address)
      /\ e # N => e \in 0 .. N - 1 /\ units' = units /\ told' = told /\ coming' = coming
      /\ head.state # "done" => head' = HeadFeed(head, w[e]) /\ dns' = dns
  <2>1. Eats(w, c)
    BY <1>1, FeedIs
  <2>. QED BY <2>1, Zenon DEF Eats
<1> HIDE DEF N, e
<1>5. head.state # "done"
  BY <1>2
<1>6. f[e] = HeadFeed(f[c], w[e])
  <2>1. f[e] = IF e = 0 THEN At("version", 0) ELSE HeadFeed(f[e - 1], w[e])
    BY <1>2, <1>3, Zenon DEF HeadRun, N
  <2>. QED BY <1>3, <2>1
<1>7. head' = f[e] /\ dns' = NoDns
  BY <1>1, <1>2, <1>4, <1>5, <1>6
<1>8. CASE e = N
  <2>1. /\ units' = <<coming.unit>> /\ told' = <<>> /\ bytes' = <<>>
    BY <1>1, <1>4, <1>8
  <2>2. \/ coming.unit = Plain("http") /\ head'.state = "done"
        \/ coming.unit = Plain("malformed") /\ head'.state = "error"
    BY <1>2, <1>7, <1>8 DEF N
  <2>3. \/ units' = <<Plain("http")>> /\ head'.state = "done"
        \/ units' = <<Plain("malformed")>> /\ head'.state = "error"
    BY <2>1, <2>2
  <2>4. query' # NoQuery
    BY <1>4
  <2>5. Idle'
    BY <1>7, <2>1, <2>3, <2>4, Zenon DEF Idle
  <2>. QED BY <2>1, <2>5
<1>9. CASE e # N
  <2>1. units' = <<>> /\ told' = <<>> /\ coming' = coming
    BY <1>1, <1>4, <1>9
  <2>2. /\ HeadRun(w, f) /\ head' = f[e]
        /\ \/ coming'.unit = Plain("http") /\ f[Len(w)].state = "done"
           \/ coming'.unit = Plain("malformed") /\ f[Len(w)].state = "error"
        /\ \A n \in 0 .. Len(w) - 1 : f[n].state \notin {"done", "error"}
    BY <1>2, <1>7, <2>1
  <2>3. HeadComing(w, e)'
    BY <1>1, <1>7, <2>1, <2>2, Zenon DEF HeadComing
  <2>. QED BY <1>4, <1>9, <2>3, StillWithin DEF e, N
<1>. QED BY <1>8, <1>9

\* No memory for the table of answers
LEMMA NoMemory ==
  ASSUME query # NoQuery, query' = query, told = <<>>, told' = told,
         NEW n \in Nat, NEW high \in Nat, NEW c, HeaderAt(dns, n, high, c),
         NEW x, dns.state = "ancount", dns.i = 1,
         dns' = [Store(dns, x) EXCEPT !.state = "mem_alloc_error"]
  PROVE  Stuck'
<1>1. dns \in Dns /\ dns.answers = <<>> /\ dns.qname = <<>>
  BY DEF HeaderAt, Counts, Place
<1>2. Store(dns, x) = [dns EXCEPT !.ancount = dns.ancount + x]
  BY <1>1 DEF Store, Dns
<1>3. dns' = [[dns EXCEPT !.ancount = dns.ancount + x] EXCEPT !.state = "mem_alloc_error"]
  BY <1>2
<1>4. dns'.state = "mem_alloc_error" /\ dns'.answers = <<>> /\ dns'.qname = <<>>
  BY <1>1, <1>3 DEF Dns
<1>. QED BY <1>4 DEF Stuck

\* Two units
LEMMA TwoUnits ==
  ASSUME NEW x \in Unit, HeaderOK(x)
  PROVE  LET u == Append(<<Plain("http")>>, x) IN
         /\ u \in Seq(Unit) /\ Len(u) = 2 /\ u[1] = Plain("http") /\ u[2] = x
         /\ x.ancount > 0 => Answered(u, <<>>) /\ Filed(u, <<>>) = <<>>
<1> DEFINE s == <<Plain("http")>>
           u == Append(s, x)
<1>1. s \in Seq(Unit) /\ Len(s) = 1 /\ s[1] = Plain("http")
  BY PlainIs
<1> HIDE DEF s
<1>2. /\ u \in Seq(Unit) /\ Len(u) = Len(s) + 1 /\ u[Len(s) + 1] = x
      /\ \A i \in 1 .. Len(s) : u[i] = s[i]
  BY <1>1, UnitMore
<1> HIDE DEF u
<1>3. Len(u) = 2 /\ u[1] = Plain("http") /\ u[2] = x
  BY <1>1, <1>2
<1>4. 1 .. Len(<<>>) = {} /\ <<>> \in Seq(Seq(Nat)) /\ Len(<<>>) = 0
  OBVIOUS
<1>5. ASSUME x.ancount > 0
      PROVE  Answered(u, <<>>) /\ Filed(u, <<>>) = <<>>
  <2> DEFINE n == x.ancount
  <2>1. n \in Nat /\ n > 0
    BY <1>5 DEF HeaderOK
  <2> HIDE DEF n
  <2>2. Len(<<>>) <= n /\ Len(u) = 2 + Len(<<>>)
    BY <1>3, <1>4, <2>1
  <2>3. u[2].ancount = n
    BY <1>3 DEF n
  <2>4. \A i \in 1 .. Len(<<>>) : u[2 + i].kind \in {"A", "AAAA", "CNAME"}
    BY <1>4
  <2>5. HeaderOK(u[2])
    BY <1>3
  <2>6. Answered(u, <<>>)
    BY <1>2, <1>3, <1>4, <2>1, <2>2, <2>3, <2>4, <2>5 DEF Answered
  <2>7. Filed(u, <<>>) = <<>>
    <3>1. Filed(u, <<>>) \in Seq(Answer) /\ Len(Filed(u, <<>>)) = Len(<<>>)
      BY <2>6, FiledIs
    <3> DEFINE F == Filed(u, <<>>)
    <3>2. F \in Seq(Answer) /\ Len(F) = 0
      BY <1>4, <3>1
    <3> HIDE DEF F
    <3>3. F = <<>>
      BY <3>2
    <3>. QED BY <3>3 DEF F
  <2>. QED BY <2>6, <2>7
<1>. QED BY <1>2, <1>3, <1>5 DEF u, s

\* In a header without a question
LEMMA CountedFed ==
  ASSUME QueryOK, query # NoQuery, NEW w, NEW c \in 0 .. Len(w) - 1, bytes = Left(w, c),
         units = <<Plain("http")>>, told = <<>>, head.state = "done",
         coming.unit \in Unit, HeaderOK(coming.unit),
         coming.unit.ancount = 0, w = Counted(coming.unit), HeaderAt(dns, 0, High(0), c), Feed
  PROVE  \/ bytes' = <<>> /\ Idle'
         \/ Within'
         \/ Stuck'
<1> DEFINE x == w[c + 1]
           e == c + 1
           unit == coming.unit
<1>1. w \in Seq(Nat) /\ Len(w) = 8
  BY CountedIs
<1>2. /\ bytes' = Left(w, c + 1) /\ query' = query
      /\ c + 1 = Len(w) =>
           /\ bytes' = <<>> /\ units' = Append(units, coming.unit)
           /\ told' = IF Len(units) < 2 THEN told ELSE Append(told, coming.address)
      /\ c + 1 # Len(w) =>
           c + 1 \in 0 .. Len(w) - 1 /\ units' = units /\ told' = told /\ coming' = coming
      /\ head.state = "done" =>
           /\ head' = head
           /\ \/ dns' = DnsFeed(dns, w[c + 1])
              \/ /\ dns.state = "ancount" /\ dns.i = 1 /\ Store(dns, w[c + 1]).ancount > 0
                 /\ dns' = [Store(dns, w[c + 1]) EXCEPT !.state = "mem_alloc_error"]
  <2>1. Eats(w, c)
    BY <1>1, FeedIs
  <2>. QED BY <2>1, Zenon DEF Eats
<1>3. told' = <<>>
  <2>1. Len(units) < 2
    OBVIOUS
  <2>. QED BY <1>2, <2>1
<1>4. head'.state = "done" /\ query' # NoQuery
  BY <1>2
<1>5. c \in 0 .. 7 /\ (c + 1 = Len(w) <=> c = 7)
  BY <1>1
<1>6. CASE dns' = DnsFeed(dns, x)
  <2>1. IF c = 7 THEN Counts(dns', "no_answers", 0, 0, <<>>)
        ELSE HeaderAt(dns', 0, High(0), c + 1)
    <3>1. LET r == DnsFeed(dns, Counted(unit)[c + 1]) IN
          IF c = 7 THEN Counts(r, "no_answers", 0, 0, <<>>)
          ELSE HeaderAt(r, 0, High(0), c + 1)
      BY <1>5, CountedOctet
    <3>. QED BY <1>6, <3>1
  <2>2. CASE c = 7
    <3>1. units' = Append(<<Plain("http")>>, unit) /\ bytes' = <<>>
      BY <1>2, <1>5, <2>2
    <3>2. units' \in Seq(Unit) /\ Len(units') = 2 /\ units'[2] = unit
      BY <3>1, TwoUnits
    <3>3. HeaderOK(units'[2]) /\ units'[2].ancount = 0
      BY <3>2
    <3>4. Counts(dns', "no_answers", 0, 0, <<>>)
      BY <2>1, <2>2
    <3>5. Idle'
      <4>1. /\ query' # NoQuery /\ told' = <<>> /\ head'.state = "done"
            /\ units' \in Seq(Unit) /\ Len(units') = 2 /\ HeaderOK(units'[2])
            /\ units'[2].ancount = 0
            /\ Counts(dns', "no_answers", 0, 0, <<>>)
        BY <1>3, <1>4, <3>2, <3>3, <3>4
      <4>. QED BY <4>1, Zenon DEF Idle
    <3>. QED BY <3>1, <3>5
  <2>3. CASE c # 7
    <3>1. /\ c + 1 \in 0 .. Len(w) - 1 /\ units' = <<Plain("http")>> /\ coming' = coming
      BY <1>2, <1>5, <2>3
    <3>2. HeaderAt(dns', 0, High(0), e)
      BY <2>1, <2>3
    <3> HIDE DEF e
    <3>3. /\ units' = <<Plain("http")>> /\ told' = <<>> /\ head'.state = "done"
          /\ coming'.unit \in Unit /\ HeaderOK(coming'.unit)
          /\ coming'.unit.ancount = 0 /\ w = Counted(coming'.unit)
          /\ HeaderAt(dns', 0, High(0), e)
      BY <1>3, <1>4, <3>1, <3>2
    <3>4. HeaderComing(w, e)'
      BY <3>3, Zenon DEF HeaderComing
    <3>. QED BY <1>2, <3>1, <3>4, StillWithin DEF e
  <2>. QED BY <2>2, <2>3
<1>7. CASE /\ dns.state = "ancount" /\ dns.i = 1
           /\ dns' = [Store(dns, x) EXCEPT !.state = "mem_alloc_error"]
  <2>1. High(0) \in Nat /\ 0 \in Nat
    BY HighAndLow
  <2>2. query' = query /\ told' = told
    BY <1>2, <1>3
  <2> HIDE DEF x
  <2>3. Stuck'
    BY <1>7, <2>1, <2>2, NoMemory
  <2>. QED BY <2>3
<1>. QED BY <1>2, <1>6, <1>7

\* Answers have been filed, and the parser is in front of the next one or done
LEMMA IdleFilled ==
  ASSUME query # NoQuery, query' = query, head'.state = "done", Readable(query),
         NEW u, NEW t, Answered(u, t), units' = u, told' = t,
         Place(dns', IF Len(t) = u[2].ancount THEN "done" ELSE "name", 0),
         Holds(dns', u[2].ancount, Filed(u, t), BlankAnswer, Spelled(Host))
  PROVE  Idle'
<1>1. Host' = Host /\ (Readable(query))' = Readable(query)
  BY SameHost
<1>2. Filling(units, told, BlankAnswer)'
  BY <1>1 DEF Filling
<1>3. /\ query' # NoQuery /\ head'.state = "done"
      /\ Place(dns', IF Len(told') = units'[2].ancount THEN "done" ELSE "name", 0)
  OBVIOUS
<1>. QED BY <1>2, <1>3, Zenon DEF Idle

\* In a header with its question
LEMMA AskedFed ==
  ASSUME QueryOK, query # NoQuery, NEW w, NEW c \in 0 .. Len(w) - 1, bytes = Left(w, c),
         units = <<Plain("http")>>, told = <<>>, head.state = "done",
         coming.unit \in Unit, HeaderOK(coming.unit), coming.unit.ancount > 0,
         w = Asked(coming.unit, Host), Readable(query),
         HeadingAt(dns, coming.unit.ancount, Host, c), Feed
  PROVE  \/ bytes' = <<>> /\ Idle'
         \/ Within'
         \/ Stuck'
<1> DEFINE x == w[c + 1]
           e == c + 1
           unit == coming.unit
           n == coming.unit.ancount
           N == Len(Host)
<1>0. Host \in Seq(Int) /\ LabelsFit(Host)
  BY ReadableIs
<1>1. w \in Seq(Int) /\ Len(w) = N + 16 /\ N \in Nat
  BY <1>0, AskedOctetsAre
<1>2. /\ bytes' = Left(w, c + 1) /\ query' = query
      /\ c + 1 = Len(w) =>
           /\ bytes' = <<>> /\ units' = Append(units, coming.unit)
           /\ told' = IF Len(units) < 2 THEN told ELSE Append(told, coming.address)
      /\ c + 1 # Len(w) =>
           c + 1 \in 0 .. Len(w) - 1 /\ units' = units /\ told' = told /\ coming' = coming
      /\ head.state = "done" =>
           /\ head' = head
           /\ \/ dns' = DnsFeed(dns, w[c + 1])
              \/ /\ dns.state = "ancount" /\ dns.i = 1 /\ Store(dns, w[c + 1]).ancount > 0
                 /\ dns' = [Store(dns, w[c + 1]) EXCEPT !.state = "mem_alloc_error"]
  <2>1. Eats(w, c)
    BY <1>1, FeedIs
  <2>. QED BY <2>1, Zenon DEF Eats
<1>3. told' = <<>>
  <2>1. Len(units) < 2
    OBVIOUS
  <2>. QED BY <1>2, <2>1
<1>4. head'.state = "done" /\ query' # NoQuery
  BY <1>2
<1>5. n \in Nat \ {0}
  <2>1. n \in Nat /\ n > 0
    BY DEF HeaderOK
  <2> HIDE DEF n
  <2>. QED BY <2>1
<1>6. c \in 0 .. N + 15 /\ (c + 1 = Len(w) <=> c = N + 15)
  <2> HIDE DEF N
  <2>. QED BY <1>1
<1>7. CASE dns' = DnsFeed(dns, x)
  <2>1. IF c = N + 15 THEN QuestionFed(dns', n, Host)
        ELSE HeadingAt(dns', n, Host, c + 1)
    <3>1. n = unit.ancount /\ HeadingAt(dns, n, Host, c) /\ HeaderOK(unit)
      OBVIOUS
    <3>2. LET r == DnsFeed(dns, Asked(unit, Host)[c + 1]) IN
          IF c = Len(Host) + 15 THEN QuestionFed(r, n, Host)
          ELSE HeadingAt(r, n, Host, c + 1)
      <4> HIDE DEF n, unit
      <4>. QED BY <1>0, <1>5, <1>6, <3>1, HeadingOctet DEF N
    <3>. QED BY <1>7, <3>2
  <2>2. CASE c = N + 15
    <3>1. units' = Append(<<Plain("http")>>, unit) /\ bytes' = <<>>
      BY <1>2, <1>6, <2>2
    <3>2. units'[2] = unit /\ Answered(units', <<>>) /\ Filed(units', <<>>) = <<>>
      BY <3>1, TwoUnits
    <3>3. Place(dns', "name", 0) /\ Holds(dns', n, <<>>, BlankAnswer, Spelled(Host))
      BY <2>1, <2>2 DEF QuestionFed
    <3>4. Len(<<>>) # n
      <4> HIDE DEF n
      <4>. QED BY <1>5
    <3>5. /\ Answered(units', told')
          /\ Place(dns', IF Len(told') = units'[2].ancount THEN "done" ELSE "name", 0)
          /\ Holds(dns', units'[2].ancount, Filed(units', told'), BlankAnswer, Spelled(Host))
      BY <1>3, <3>2, <3>3, <3>4
    <3>6. Idle'
      BY <1>2, <1>4, <3>5, IdleFilled
    <3>. QED BY <3>1, <3>6
  <2>3. CASE c # N + 15
    <3>1. /\ c + 1 \in 0 .. Len(w) - 1 /\ units' = <<Plain("http")>> /\ coming' = coming
      BY <1>2, <1>6, <2>3
    <3>2. HeadingAt(dns', n, Host, e)
      BY <2>1, <2>3
    <3>3. Host' = Host /\ (Readable(query))' = Readable(query)
      BY <1>2, SameHost
    <3> HIDE DEF e
    <3>4. /\ units' = <<Plain("http")>> /\ told' = <<>> /\ head'.state = "done"
          /\ coming'.unit \in Unit /\ HeaderOK(coming'.unit)
          /\ coming'.unit.ancount > 0 /\ w = Asked(coming'.unit, Host') /\ (Readable(query))'
          /\ HeadingAt(dns', coming'.unit.ancount, Host', e)
      BY <1>3, <1>4, <3>1, <3>2, <3>3
    <3>5. HeaderComing(w, e)'
      BY <3>4, Zenon DEF HeaderComing
    <3>. QED BY <1>2, <3>1, <3>5, StillWithin DEF e
  <2>. QED BY <2>2, <2>3
<1>8. CASE /\ dns.state = "ancount" /\ dns.i = 1
           /\ dns' = [Store(dns, x) EXCEPT !.state = "mem_alloc_error"]
  <2>1. High(n) \in Nat /\ n \in Nat
    <3>1. n \in Nat
      BY <1>5
    <3> HIDE DEF n
    <3>. QED BY <3>1, HighAndLow
  <2>2. query' = query /\ told' = told
    BY <1>2, <1>3
  <2>3. HeaderAt(dns, n, High(n), c)
    <3>1. CASE c < 12
      BY <3>1 DEF HeadingAt
    <3>2. CASE ~(c < 12)
      <4>1. QuestionAt(dns, n, Host, c - 12)
        BY <3>2 DEF HeadingAt
      <4> DEFINE j == c - 12
      <4> HIDE DEF n, j
      <4>2. QuestionAt(dns, n, Host, j)
        BY <4>1 DEF j
      <4>3. dns.state \in {"qname", "qtype", "qclass"}
        BY <1>0, <2>1, <4>2, QuestionAtIs
      <4>. QED BY <1>8, <4>3
    <3>. QED BY <3>1, <3>2
  <2> HIDE DEF x, n
  <2>4. Stuck'
    BY <1>8, <2>1, <2>2, <2>3, NoMemory
  <2>. QED BY <2>4
<1>. QED BY <1>2, <1>7, <1>8

\* In a header
LEMMA HeaderFed ==
  ASSUME QueryOK, query # NoQuery, NEW w, NEW c \in 0 .. Len(w) - 1, bytes = Left(w, c),
         HeaderComing(w, c), Feed
  PROVE  \/ bytes' = <<>> /\ Idle'
         \/ Within'
         \/ Stuck'
<1>1. /\ units = <<Plain("http")>> /\ told = <<>> /\ head.state = "done"
      /\ coming.unit \in Unit /\ HeaderOK(coming.unit)
  BY Zenon DEF HeaderComing
<1>2. CASE /\ coming.unit.ancount = 0 /\ w = Counted(coming.unit)
           /\ HeaderAt(dns, 0, High(0), c)
  BY <1>1, <1>2, CountedFed
<1>3. CASE /\ coming.unit.ancount > 0 /\ w = Asked(coming.unit, Host) /\ Readable(query)
           /\ HeadingAt(dns, coming.unit.ancount, Host, c)
  BY <1>1, <1>3, AskedFed
<1>. QED BY <1>2, <1>3 DEF HeaderComing

\* In an answer
LEMMA AnswerFedOn ==
  ASSUME QueryOK, query # NoQuery, NEW w, NEW c \in 0 .. Len(w) - 1, bytes = Left(w, c),
         AnswerComing(w, c), Feed
  PROVE  (bytes' = <<>> /\ Idle') \/ Within'
<1> DEFINE n == units[2].ancount
           F == Filed(units, told)
           q == Spelled(Host)
           x == w[c + 1]
           e == c + 1
<1>0. PICK kind \in {"A", "AAAA", "CNAME", "malformed"} : \E name, data :
        /\ AnswerOK(name, CodeOf(kind), data)
        /\ w = AnswerOctets(name, CodeOf(kind), data)
        /\ coming = [unit |-> Plain(kind), address |-> IF kind \in {"A", "AAAA"} THEN data ELSE <<>>]
        /\ AnswerAt(dns, units[2].ancount, Filed(units, told), Spelled(Host), name,
                    CodeOf(kind), data, c)
  BY Zenon DEF AnswerComing
<1>1. PICK name, data :
        /\ AnswerOK(name, CodeOf(kind), data)
        /\ w = AnswerOctets(name, CodeOf(kind), data)
        /\ coming = [unit |-> Plain(kind), address |-> IF kind \in {"A", "AAAA"} THEN data ELSE <<>>]
        /\ AnswerAt(dns, units[2].ancount, Filed(units, told), Spelled(Host), name,
                    CodeOf(kind), data, c)
  BY <1>0
<1> DEFINE code == CodeOf(kind)
           a == IF kind \in {"A", "AAAA"} THEN data ELSE <<>>
<1>2. /\ Answered(units, told) /\ Len(told) < n /\ head.state = "done" /\ Readable(query)
  BY Zenon DEF AnswerComing
<1>3. Len(told) \in Nat /\ Len(units) = 2 + Len(told) /\ n \in Nat \ {0} /\ units \in Seq(Unit)
  BY <1>2, AnsweredLengths
<1>4. F \in Seq(Answer) /\ Len(F) = Len(told)
  BY <1>2, FiledIs
<1>5. w \in Seq(Nat)
  BY <1>1, AnswerOctetsAre
<1>6. /\ bytes' = Left(w, c + 1) /\ query' = query
      /\ c + 1 = Len(w) =>
           /\ bytes' = <<>> /\ units' = Append(units, coming.unit)
           /\ told' = IF Len(units) < 2 THEN told ELSE Append(told, coming.address)
      /\ c + 1 # Len(w) =>
           c + 1 \in 0 .. Len(w) - 1 /\ units' = units /\ told' = told /\ coming' = coming
      /\ head.state = "done" =>
           /\ head' = head
           /\ \/ dns' = DnsFeed(dns, w[c + 1])
              \/ /\ dns.state = "ancount" /\ dns.i = 1 /\ Store(dns, w[c + 1]).ancount > 0
                 /\ dns' = [Store(dns, w[c + 1]) EXCEPT !.state = "mem_alloc_error"]
  <2>1. Eats(w, c)
    BY <1>5, FeedIs
  <2>. QED BY <2>1, Zenon DEF Eats
<1>7. dns.state \in Answering
  <2>1. n \in Nat /\ AnswerAt(dns, n, F, q, name, code, data, c)
    BY <1>1, <1>3
  <2>2. name \in Seq(Nat) /\ code \in Nat /\ c \in Nat
    <3>1. name \in Seq(Nat) /\ code \in Nat
      BY <1>1, DataIs
    <3>2. Len(w) \in Nat
      BY <1>5
    <3>. QED BY <3>1, <3>2
  <2> HIDE DEF n, F, q, code
  <2>. QED BY <2>1, <2>2, AnswerAtIs
<1>8. dns' = DnsFeed(dns, x) /\ head'.state = "done" /\ query' # NoQuery
  BY <1>2, <1>6, <1>7 DEF Answering
<1>9. IF c + 1 = Len(w) THEN AnswerFed(dns', n, F, q, code, data)
      ELSE AnswerAt(dns', n, F, q, name, code, data, c + 1)
  <2>1. n \in Nat /\ Len(F) < n
    BY <1>2, <1>3, <1>4
  <2>2. /\ AnswerOK(name, code, data) /\ AnswerAt(dns, n, F, q, name, code, data, c)
        /\ c \in 0 .. Len(AnswerOctets(name, code, data)) - 1
        /\ w = AnswerOctets(name, code, data)
    BY <1>1
  <2>3. F \in Seq(Answer)
    BY <1>4
  <2> HIDE DEF n, F, q, code
  <2>4. LET v == AnswerOctets(name, code, data)
            r == DnsFeed(dns, v[c + 1])
        IN IF c + 1 = Len(v) THEN AnswerFed(r, n, F, q, code, data)
           ELSE AnswerAt(r, n, F, q, name, code, data, c + 1)
    BY <2>1, <2>2, <2>3, AnswerOctet
  <2>. QED BY <1>8, <2>2, <2>4
<1>10. CASE c + 1 # Len(w)
  <2>1. c + 1 \in 0 .. Len(w) - 1 /\ units' = units /\ told' = told /\ coming' = coming
    BY <1>6, <1>10
  <2>2. AnswerAt(dns', n, F, q, name, code, data, e)
    BY <1>9, <1>10
  <2>3. Host' = Host /\ (Readable(query))' = Readable(query)
    BY <1>6, SameHost
  <2> HIDE DEF e
  <2>4. /\ Answered(units', told') /\ Len(told') < units'[2].ancount
        /\ head'.state = "done" /\ (Readable(query))'
    BY <1>2, <1>8, <2>1, <2>3
  <2>5. /\ AnswerOK(name, CodeOf(kind), data)
        /\ w = AnswerOctets(name, CodeOf(kind), data)
        /\ coming' = [unit |-> Plain(kind),
                      address |-> IF kind \in {"A", "AAAA"} THEN data ELSE <<>>]
        /\ AnswerAt(dns', units'[2].ancount, Filed(units', told'), Spelled(Host'),
                    name, CodeOf(kind), data, e)
    BY <1>1, <2>1, <2>2, <2>3
  <2>6. AnswerComing(w, e)'
    BY <2>4, <2>5, Zenon DEF AnswerComing
  <2>. QED BY <1>6, <2>1, <2>6, StillWithin DEF e
<1>11. CASE c + 1 = Len(w)
  <2>1. bytes' = <<>> /\ units' = Append(units, Plain(kind)) /\ told' = Append(told, a)
    <3>1. ~(Len(units) < 2)
      BY <1>3
    <3>2. coming.unit = Plain(kind) /\ coming.address = a
      BY <1>1
    <3>. QED BY <1>6, <1>11, <3>1, <3>2
  <2>2. AnswerFed(dns', n, F, q, code, data)
    BY <1>9, <1>11
  <2>3. CASE kind = "malformed"
    <3>1. code = OtherType /\ a = <<>>
      BY <2>3, CodeIs
    <3>2. dns'.state = "error" /\ Holds(dns', n, F, Typed(OtherType), q)
      BY <2>2, <3>1, OtherIs DEF AnswerFed
    <3>3. Host' = Host /\ (Readable(query))' = Readable(query)
      BY <1>6, SameHost
    <3>4. Filling(units, told, Typed(OtherType)) = Filling(units, told, Typed(OtherType))
      OBVIOUS
    <3> DEFINE u == units
               t == told
    <3>5. /\ Answered(u, t) /\ (Readable(query))'
          /\ Holds(dns', u[2].ancount, Filed(u, t), Typed(OtherType), Spelled(Host'))
      BY <1>2, <3>2, <3>3
    <3>6. Len(t) < u[2].ancount /\ units' = Append(u, Plain("malformed"))
          /\ told' = Append(t, <<>>)
      BY <1>2, <2>1, <2>3, <3>1
    <3> HIDE DEF u, t
    <3>7. \E v, s : /\ Answered(v, s) /\ (Readable(query))'
                    /\ Holds(dns', v[2].ancount, Filed(v, s), Typed(OtherType), Spelled(Host'))
                    /\ Len(s) < v[2].ancount
                    /\ units' = Append(v, Plain("malformed")) /\ told' = Append(s, <<>>)
      BY <3>5, <3>6
    <3>8. Idle'
      BY <1>8, <3>2, <3>7, Zenon DEF Idle, Filling
    <3>. QED BY <2>1, <3>8
  <2>4. CASE kind # "malformed"
    <3>1. /\ code \in {1, 5, 28} /\ code = TypeCode[kind] /\ kind \in {"A", "AAAA", "CNAME"}
          /\ (code = 5 <=> kind = "CNAME")
      BY <2>4, CodeIs
    <3>2. a = IF code = 5 THEN <<>> ELSE data
      BY <3>1
    <3>3. a \in Seq(Nat)
      <4>1. data \in Seq(Nat) /\ <<>> \in Seq(Nat)
        BY <1>1, DataIs
      <4>. QED BY <4>1
    <3> DEFINE v == Append(units, Plain(kind))
               s == Append(told, a)
    <3>4. /\ Answered(v, s) /\ v[2] = units[2] /\ Len(s) = Len(told) + 1
          /\ Filed(v, s) = Append(F, [type |-> TypeCode[kind], address |-> a])
      <4>1. /\ kind \in {"A", "AAAA", "CNAME"} /\ Len(told) < units[2].ancount
            /\ Answered(units, told)
        BY <1>2, <3>1
      <4> HIDE DEF a
      <4>2. FiledMore(Append(units, Plain(kind)), Append(told, a), units, told, kind, a)
        BY <3>3, <4>1, FiledNext
      <4>. QED BY <4>2, Zenon DEF FiledMore
    <3> HIDE DEF v, s
    <3>5. /\ Place(dns', IF Len(F) + 1 = n THEN "done" ELSE "name", 0)
          /\ Holds(dns', n, Append(F, [type |-> code, address |-> a]), BlankAnswer, q)
      BY <2>2, <3>1, <3>2 DEF AnswerFed
    <3>6. /\ Place(dns', IF Len(s) = v[2].ancount THEN "done" ELSE "name", 0)
          /\ Holds(dns', v[2].ancount, Filed(v, s), BlankAnswer, Spelled(Host))
      BY <1>4, <3>1, <3>4, <3>5
    <3>7. units' = v /\ told' = s
      BY <2>1 DEF v, s
    <3>8. Idle'
      BY <1>2, <1>6, <1>8, <3>4, <3>6, <3>7, IdleFilled
    <3>. QED BY <2>1, <3>8
  <2>. QED BY <2>3, <2>4
<1>. QED BY <1>10, <1>11

\* One octet more of the response
LEMMA FeedKeeps ==
  ASSUME ResponseInv, Feed
  PROVE  ResponseInv'
<1>1. bytes # <<>> /\ dns.state # "mem_alloc_error" /\ query' = query
  BY DEF Feed
<1>2. QueryOK /\ Within
  BY <1>1 DEF ResponseInv, Stuck
<1>3. PICK w : \E c \in 0 .. Len(w) - 1 :
        /\ bytes = Left(w, c) /\ query # NoQuery
        /\ HeadComing(w, c) \/ HeaderComing(w, c) \/ AnswerComing(w, c)
  BY <1>2, Zenon DEF Within
<1>4. PICK c \in 0 .. Len(w) - 1 :
        /\ bytes = Left(w, c) /\ query # NoQuery
        /\ HeadComing(w, c) \/ HeaderComing(w, c) \/ AnswerComing(w, c)
  BY <1>3
<1>5. \/ bytes' = <<>> /\ Idle'
      \/ Within'
      \/ Stuck'
  BY <1>2, <1>4, HeadFed, HeaderFed, AnswerFedOn
<1>6. QueryOK'
  BY <1>1, <1>2, SameHost
<1>. QED BY <1>5, <1>6 DEF ResponseInv

-----------------------------------------------------------------------------
(* The server begins a unit *)

\* A response begins with the first octet of a unit
LEMMA BeginsWithin ==
  ASSUME NEW S, NEW w \in Seq(S), w # <<>>, bytes' = w, query # NoQuery, query' = query,
         HeadComing(w, 0)' \/ HeaderComing(w, 0)' \/ AnswerComing(w, 0)'
  PROVE  Within'
<1>1. Left(w, 0) = w
  BY AllLeft
<1>2. 0 \in 0 .. Len(w) - 1
  OBVIOUS
<1> DEFINE e == 0
<1>3. /\ e \in 0 .. Len(w) - 1 /\ bytes' = Left(w, e) /\ query' # NoQuery
      /\ HeadComing(w, e)' \/ HeaderComing(w, e)' \/ AnswerComing(w, e)'
  BY <1>1, <1>2
<1> HIDE DEF e
<1>. QED BY <1>3 DEF Within

\* The head
LEMMA HeadSent ==
  ASSUME NEW w \in Seq(Characters), NEW state, NEW kind,
         \/ kind = "http" /\ state = "done"
         \/ kind = "malformed" /\ state = "error",
         Decides(w, state), units = <<>>, told = <<>>, head = At("version", 0), dns = NoDns,
         coming' = [unit |-> Plain(kind), address |-> <<>>], bytes' = w, query # NoQuery,
         UNCHANGED <<units, told, head, dns, query>>
  PROVE  Within'
<1>1. Len(w) \in Nat
  OBVIOUS
<1>2. PICK f : /\ HeadRun(w, f) /\ f[Len(w)].state = state
               /\ \A n \in 0 .. Len(w) - 1 : f[n].state \notin {"done", "error"}
  BY <1>1, HeadRuns
<1>3. f[0] = At("version", 0)
  <2>1. 0 \in 0 .. Len(w)
    BY <1>1
  <2>. QED BY <1>2, <2>1, Zenon DEF HeadRun
<1>4. w # <<>>
  <2>1. At("version", 0).state = "version"
    BY DEF At
  <2>2. SUFFICES ASSUME w = <<>> PROVE FALSE
    OBVIOUS
  <2>3. Len(w) = 0
    BY <2>2
  <2>. QED BY <1>2, <1>3, <2>1, <2>3
<1>5. coming'.unit = Plain(kind)
  OBVIOUS
<1>6. /\ units' = <<>> /\ told' = <<>> /\ dns' = NoDns /\ head' = f[0]
      /\ \/ coming'.unit = Plain("http") /\ f[Len(w)].state = "done"
         \/ coming'.unit = Plain("malformed") /\ f[Len(w)].state = "error"
  BY <1>2, <1>3, <1>5
<1>7. HeadComing(w, 0)'
  BY <1>2, <1>6, Zenon DEF HeadComing
<1>. QED BY <1>4, <1>7, BeginsWithin

\* The header
LEMMA HeaderSent ==
  ASSUME QueryOK, units = <<Plain("http")>>, told = <<>>, head.state = "done", dns = NoDns,
         NEW unit \in Unit, HeaderOK(unit), NEW w \in HeaderBytes(unit),
         coming' = [unit |-> unit, address |-> <<>>], bytes' = w, query # NoQuery,
         UNCHANGED <<units, told, head, dns, query>>
  PROVE  Within'
<1>1. coming'.unit = unit
  OBVIOUS
<1>2. /\ units' = <<Plain("http")>> /\ told' = <<>> /\ head'.state = "done" /\ dns' = NoDns
      /\ query' = query
  OBVIOUS
<1>3. CASE unit.ancount = 0
  <2>1. w = Counted(unit)
    BY <1>3 DEF HeaderBytes, Counted
  <2>2. w \in Seq(Nat) /\ w # <<>>
    <3>1. w \in Seq(Nat) /\ Len(w) = 8
      BY <2>1, CountedIs
    <3>2. Len(w) # Len(<<>>)
      BY <3>1
    <3>. QED BY <3>1, <3>2, Zenon
  <2>3. HeaderAt(NoDns, 0, High(0), 0)
    BY NoDnsIs
  <2>4. HeaderComing(w, 0)'
    BY <1>1, <1>2, <1>3, <2>1, <2>3, Zenon DEF HeaderComing
  <2>. QED BY <1>2, <2>2, <2>4, BeginsWithin
<1>4. CASE unit.ancount # 0
  <2> DEFINE n == unit.ancount
  <2>1. \E name \in Question : w = Asked(unit, name)
    BY <1>4 DEF HeaderBytes, Counted, Asked
  <2>2. Readable(query) /\ Question = {Host}
    BY <2>1 DEF Question, Host
  <2>3. w = Asked(unit, Host)
    BY <2>1, <2>2
  <2>4. Host \in Seq(Int)
    BY <2>2, ReadableIs
  <2>5. w \in Seq(Int) /\ w # <<>>
    <3> DEFINE N == Len(Host)
    <3>1. w \in Seq(Int) /\ Len(w) = N + 16 /\ N \in Nat
      BY <2>3, <2>4, AskedOctetsAre
    <3>. QED BY <3>1
  <2>6. HeadingAt(NoDns, n, Host, 0)
    <3>1. HeaderAt(NoDns, n, High(n), 0)
      BY NoDnsIs
    <3>2. 0 < 12
      OBVIOUS
    <3> HIDE DEF n
    <3>. QED BY <3>1, <3>2 DEF HeadingAt
  <2>7. n > 0
    <3>1. n \in Nat /\ n # 0
      BY <1>4 DEF HeaderOK
    <3> HIDE DEF n
    <3>. QED BY <3>1
  <2>8. Host' = Host /\ (Readable(query))' = Readable(query)
    BY <1>2, SameHost
  <2>9. /\ coming'.unit.ancount > 0 /\ w = Asked(coming'.unit, Host') /\ (Readable(query))'
        /\ HeadingAt(dns', coming'.unit.ancount, Host', 0)
    BY <1>1, <1>2, <2>2, <2>3, <2>6, <2>7, <2>8
  <2>10. HeaderComing(w, 0)'
    BY <1>1, <1>2, <2>9, Zenon DEF HeaderComing
  <2>. QED BY <1>2, <2>5, <2>10, BeginsWithin
<1>. QED BY <1>3, <1>4

\* An answer
LEMMA AnswerSent ==
  ASSUME QueryOK, query # NoQuery, head.state = "done", Filling(units, told, BlankAnswer),
         Place(dns, "name", 0), Len(told) < units[2].ancount,
         NEW kind \in {"A", "AAAA", "CNAME", "malformed"}, NEW name, NEW data,
         AnswerOK(name, CodeOf(kind), data), NEW a,
         a = IF kind \in {"A", "AAAA"} THEN data ELSE <<>>,
         NEW w, w = AnswerOctets(name, CodeOf(kind), data),
         coming' = [unit |-> Plain(kind), address |-> a], bytes' = w,
         UNCHANGED <<units, told, head, dns, query>>
  PROVE  Within'
<1> DEFINE n == units[2].ancount
           F == Filed(units, told)
           q == Spelled(Host)
           code == CodeOf(kind)
<1>1. Answered(units, told) /\ Readable(query) /\ Holds(dns, n, F, BlankAnswer, q)
  BY DEF Filling
<1>2. w \in Seq(Nat) /\ w # <<>>
  <2> DEFINE N == Len(name)
             L == Len(data)
  <2>1. w \in Seq(Nat) /\ N \in Nat /\ L \in Nat /\ Len(w) = N + 10 + L
    BY AnswerOctetsAre
  <2> HIDE DEF N, L
  <2>2. Len(w) # 0
    BY <2>1
  <2>. QED BY <2>1, <2>2
<1>3. InName(dns, "name", name, 0)
  <2>1. name \in Seq(Int) /\ Len(name) >= 1
    <3>1. name \in Seq(Nat) /\ EncodedName(name)
      BY DEF AnswerOK
    <3>2. name # <<>>
      BY <3>1 DEF EncodedName
    <3>. QED BY <3>1, <3>2
  <2>2. Walk(name, 0, 0)
    BY <2>1, WalkBegins
  <2>3. dns.i = 0 /\ dns.state = "name" /\ dns.left = 0
    BY DEF Place
  <2>. QED BY <2>2, <2>3 DEF InName
<1>4. AnswerAt(dns, n, F, q, name, code, data, 0)
  <2>1. 0 < Len(name)
    <3>1. name \in Seq(Nat) /\ EncodedName(name)
      BY DEF AnswerOK
    <3>2. name # <<>>
      BY <3>1 DEF EncodedName
    <3>. QED BY <3>1, <3>2
  <2>2. dns.rdata = <<>>
    BY DEF Place
  <2> HIDE DEF n, F, q, code
  <2>. QED BY <1>1, <1>3, <2>1, <2>2 DEF AnswerAt
<1>5. Host' = Host /\ (Readable(query))' = Readable(query)
  BY SameHost
<1>6. /\ Answered(units', told') /\ Len(told') < units'[2].ancount
      /\ head'.state = "done" /\ (Readable(query))'
  BY <1>1, <1>5
<1>7. /\ AnswerOK(name, CodeOf(kind), data)
      /\ w = AnswerOctets(name, CodeOf(kind), data)
      /\ coming' = [unit |-> Plain(kind), address |-> IF kind \in {"A", "AAAA"} THEN data ELSE <<>>]
      /\ AnswerAt(dns', units'[2].ancount, Filed(units', told'), Spelled(Host'),
                  name, CodeOf(kind), data, 0)
  BY <1>4, <1>5
<1>8. AnswerComing(w, 0)'
  BY <1>6, <1>7, Zenon DEF AnswerComing
<1>. QED BY <1>2, <1>8, BeginsWithin

\* What comes after no unit, after the head and after the header
LEMMA WholeIs ==
  ASSUME NEW unit \in Whole
  PROVE  /\ Verdict(units) = "more"
              => /\ units = <<>> => unit \in {Plain("http"), Plain("malformed")}
                 /\ Len(units) = 1 => unit \in Unit /\ HeaderOK(unit)
                 /\ Len(units) \in Nat /\ Len(units) >= 2 =>
                      \E kind \in {"A", "AAAA", "CNAME", "malformed"} : unit = Plain(kind)
         /\ Verdict(units) # "malformed"
         /\ Verdict(units) = "no_answers" \/ Verdict(units) = "complete"
              => Len(units) < 2 + units[2].ancount + 0
<1>1. /\ unit \in NextUnits(units, Answers, 0)
      /\ unit.kind \notin {"cut_header", "cut_A", "cut_AAAA"}
  BY DEF Whole
<1>2. Verdict(units) # "malformed"
  BY <1>1 DEF NextUnits
<1>3. ASSUME Verdict(units) = "more"
      PROVE  unit \in CASE Len(units) = 0 -> {Plain("http"), Plain("malformed")}
                        [] Len(units) = 1 -> Headers(Answers)
                        [] OTHER -> {Plain(kind) : kind \in {"A", "AAAA", "CNAME", "cut_A",
                                                             "cut_AAAA", "malformed"}}
  BY <1>1, <1>3 DEF NextUnits
<1>4. ASSUME Verdict(units) = "more", units = <<>>
      PROVE  unit \in {Plain("http"), Plain("malformed")}
  <2>1. Len(units) = 0
    BY <1>4
  <2>. QED BY <1>3, <1>4, <2>1
<1>5. ASSUME Verdict(units) = "more", Len(units) = 1
      PROVE  unit \in Unit /\ HeaderOK(unit)
  <2>1. unit \in [kind : {"header"}, rcode : {0, 3}, ancount : 0 .. Answers]
    <3>1. unit \in Headers(Answers)
      BY <1>3, <1>5
    <3>. QED BY <1>1, <3>1 DEF Headers
  <2>2. \A n \in 0 .. Answers : n \in Nat
    BY ResponseAssumption
  <2>. QED BY <2>1, <2>2 DEF Unit, HeaderOK
<1>6. ASSUME Verdict(units) = "more", Len(units) \in Nat, Len(units) >= 2
      PROVE  \E kind \in {"A", "AAAA", "CNAME", "malformed"} : unit = Plain(kind)
  <2> DEFINE L == Len(units)
  <2>1. L # 0 /\ L # 1
    <3>1. L \in Nat /\ L >= 2
      BY <1>6
    <3> HIDE DEF L
    <3>. QED BY <3>1
  <2>2. PICK kind \in {"A", "AAAA", "CNAME", "cut_A", "cut_AAAA", "malformed"} :
          unit = Plain(kind)
    BY <1>3, <1>6, <2>1
  <2>3. unit.kind = kind
    BY <2>2, PlainIs
  <2>. QED BY <1>1, <2>2, <2>3
<1>7. ASSUME Verdict(units) = "no_answers" \/ Verdict(units) = "complete"
      PROVE  Len(units) < 2 + units[2].ancount + 0
  BY <1>1, <1>7 DEF NextUnits
<1>. QED BY <1>2, <1>4, <1>5, <1>6, <1>7, Zenon

\* The octets of an answer that is sent
LEMMA AnswerSendable ==
  ASSUME NEW kind \in {"A", "AAAA", "CNAME", "malformed"}, NEW s \in Sendable(Plain(kind)),
         units # <<>>
  PROVE  \E name, data :
           /\ AnswerOK(name, CodeOf(kind), data)
           /\ s.unit = Plain(kind)
           /\ s.address = IF kind \in {"A", "AAAA"} THEN data ELSE <<>>
           /\ s.bytes = AnswerOctets(name, CodeOf(kind), data)
<1>0. Plain(kind).kind = kind
  BY PlainIs
<1>1. \A name \in Names : name \in Seq(Nat) /\ EncodedName(name)
  BY SentAssumption
<1>2. /\ CodeOf("A") = 1 /\ CodeOf("AAAA") = 28 /\ CodeOf("CNAME") = 5
      /\ CodeOf("malformed") = OtherType
  BY CodeIs
<1>3. CASE kind \in {"A", "AAAA"}
  <2>1. PICK a \in Addresses[kind] : \E b \in AnswerBytes(kind, a) :
          s = [unit |-> Plain(kind), address |-> a, bytes |-> b]
    BY <1>0, <1>3 DEF Sendable
  <2>2. PICK b \in AnswerBytes(kind, a) : s = [unit |-> Plain(kind), address |-> a, bytes |-> b]
    BY <2>1
  <2>3. PICK name \in Names : b = name \o Middle(TypeCode[kind], Len(a)) \o a
    BY <2>2 DEF AnswerBytes
  <2>4. a \in Seq(Nat) /\ Len(a) = AddressLength[kind]
    BY <1>3, SentAssumption
  <2>5. CodeOf(kind) = TypeCode[kind]
    BY <1>3 DEF CodeOf
  <2>6. AnswerOK(name, CodeOf(kind), a)
    <3>1. AddressLength["A"] = 4 /\ AddressLength["AAAA"] = 16
      BY DEF AddressLength
    <3>. QED BY <1>1, <1>2, <1>3, <2>4, <3>1 DEF AnswerOK
  <2>7. b = AnswerOctets(name, CodeOf(kind), a)
    BY <2>3, <2>5 DEF AnswerOctets
  <2>. QED BY <1>3, <2>2, <2>6, <2>7
<1>4. CASE kind = "CNAME"
  <2>1. PICK a \in Names : \E b \in AnswerBytes("CNAME", a) :
          s = [unit |-> Plain(kind), address |-> <<>>, bytes |-> b]
    BY <1>0, <1>4 DEF Sendable
  <2>2. PICK b \in AnswerBytes("CNAME", a) : s = [unit |-> Plain(kind), address |-> <<>>, bytes |-> b]
    BY <2>1
  <2>3. PICK name \in Names : b = name \o Middle(TypeCode["CNAME"], Len(a)) \o a
    BY <2>2 DEF AnswerBytes
  <2>4. CodeOf(kind) = TypeCode["CNAME"]
    BY <1>4 DEF CodeOf
  <2>5. AnswerOK(name, CodeOf(kind), a)
    BY <1>1, <1>2, <1>4 DEF AnswerOK
  <2>6. b = AnswerOctets(name, CodeOf(kind), a)
    BY <2>3, <2>4 DEF AnswerOctets
  <2>. QED BY <1>4, <2>2, <2>5, <2>6
<1>5. CASE kind = "malformed"
  <2>1. PICK name \in Names :
          s = [unit |-> Plain(kind), address |-> <<>>, bytes |-> name \o Middle(OtherType, 0)]
    BY <1>0, <1>5 DEF Sendable
  <2>2. AnswerOK(name, CodeOf(kind), <<>>)
    <3>1. OtherType \in Nat /\ <<>> \in Seq(Nat)
      BY OtherIs
    <3>. QED BY <1>1, <1>2, <1>5, <3>1 DEF AnswerOK
  <2>3. AnswerOctets(name, OtherType, <<>>) = name \o Middle(OtherType, 0)
    <3> DEFINE m == Middle(OtherType, 0)
               v == name \o m
    <3>1. m \in Seq(Nat)
      BY OtherIs DEF Middle
    <3>2. name \in Seq(Nat)
      BY <1>1
    <3> HIDE DEF m
    <3>3. v \in Seq(Nat)
      BY <3>1, <3>2
    <3> HIDE DEF v
    <3>4. v \o <<>> = v
      BY <3>3
    <3>5. Len(<<>>) = 0
      OBVIOUS
    <3>. QED BY <3>4, <3>5 DEF AnswerOctets, v, m
  <2>. QED BY <1>2, <1>5, <2>1, <2>2, <2>3
<1>. QED BY <1>3, <1>4, <1>5

\* The server sends no more than a unit at a time, and in its turn
LEMMA SendKeeps ==
  ASSUME ResponseInv, ServerSends
  PROVE  ResponseInv'
<1>1. /\ query # NoQuery /\ bytes = <<>> /\ dns.state # "mem_alloc_error"
      /\ UNCHANGED <<units, told, head, dns, query>>
  BY DEF ServerSends
<1>2. PICK unit \in Whole : \E s \in Sendable(unit) :
        coming' = [unit |-> s.unit, address |-> s.address] /\ bytes' = s.bytes
  BY Zenon DEF ServerSends
<1>3. PICK s \in Sendable(unit) :
        coming' = [unit |-> s.unit, address |-> s.address] /\ bytes' = s.bytes
  BY <1>2
<1>4. QueryOK /\ QueryOK'
  BY <1>1, SameHost DEF ResponseInv
<1>5. Idle
  <2>1. ~Stuck
    BY <1>1 DEF Stuck
  <2>2. ASSUME Within
        PROVE  FALSE
    <3>1. PICK w : \E c \in 0 .. Len(w) - 1 :
            /\ bytes = Left(w, c) /\ query # NoQuery
            /\ HeadComing(w, c) \/ HeaderComing(w, c) \/ AnswerComing(w, c)
      BY <2>2, Zenon DEF Within
    <3>2. PICK c \in 0 .. Len(w) - 1 :
            /\ bytes = Left(w, c) /\ query # NoQuery
            /\ HeadComing(w, c) \/ HeaderComing(w, c) \/ AnswerComing(w, c)
      BY <3>1
    <3>3. \E S : w \in Seq(S)
      <4>1. CASE HeadComing(w, c)
        BY <4>1 DEF HeadComing
      <4>2. CASE HeaderComing(w, c)
        <5>1. HeaderOK(coming.unit)
          BY <4>2, Zenon DEF HeaderComing
        <5>2. CASE w = Counted(coming.unit)
          BY <5>1, <5>2, CountedIs
        <5>3. CASE w = Asked(coming.unit, Host) /\ Readable(query)
          <6>1. Host \in Seq(Int)
            BY <1>1, <1>4, <5>3, ReadableIs
          <6>2. w \in Seq(Int)
            BY <5>1, <5>3, <6>1, AskedOctetsAre
          <6>. QED BY <6>2
        <5>. QED BY <4>2, <5>2, <5>3, Zenon DEF HeaderComing
      <4>3. CASE AnswerComing(w, c)
        <5>1. \E kind, name, data :
                AnswerOK(name, CodeOf(kind), data) /\ w = AnswerOctets(name, CodeOf(kind), data)
          BY <4>3, Zenon DEF AnswerComing
        <5>2. w \in Seq(Nat)
          BY <5>1, AnswerOctetsAre
        <5>. QED BY <5>2
      <4>. QED BY <3>2, <4>1, <4>2, <4>3
    <3>4. PICK S : w \in Seq(S)
      BY <3>3
    <3>5. Left(w, c) # <<>>
      BY <3>4, NextLeft
    <3>. QED BY <1>1, <3>2, <3>5
  <2>. QED BY <2>1, <2>2 DEF ResponseInv
<1>6. /\ Verdict(units) = "more"
           => /\ units = <<>> => unit \in {Plain("http"), Plain("malformed")}
              /\ Len(units) = 1 => unit \in Unit /\ HeaderOK(unit)
              /\ Len(units) \in Nat /\ Len(units) >= 2 =>
                   \E kind \in {"A", "AAAA", "CNAME", "malformed"} : unit = Plain(kind)
      /\ Verdict(units) # "malformed"
      /\ Verdict(units) = "no_answers" \/ Verdict(units) = "complete"
           => Len(units) < 2 + units[2].ancount + 0
  BY WholeIs
<1>7. Within'
  <2>1. CASE units = <<>> /\ told = <<>> /\ head = At("version", 0) /\ dns = NoDns
    <3>1. unit \in {Plain("http"), Plain("malformed")}
      BY <1>6, <2>1, VerdictBefore
    <3>2. Plain("http").kind = "http" /\ Plain("malformed").kind = "malformed"
      BY PlainIs
    <3>3. CASE unit = Plain("http")
      <4>1. PICK b \in Heads : s = [unit |-> unit, address |-> <<>>, bytes |-> b]
        BY <3>2, <3>3 DEF Sendable
      <4>2. b \in Seq(Characters) /\ Decides(b, "done")
        BY SentAssumption
      <4>3. coming' = [unit |-> Plain("http"), address |-> <<>>] /\ bytes' = b
        BY <1>3, <3>3, <4>1
      <4>. QED BY <1>1, <2>1, <4>2, <4>3, HeadSent
    <3>4. CASE unit = Plain("malformed")
      <4>1. PICK b \in BadHeads : s = [unit |-> unit, address |-> <<>>, bytes |-> b]
        BY <2>1, <3>2, <3>4 DEF Sendable
      <4>2. b \in Seq(Characters) /\ Decides(b, "error")
        BY SentAssumption
      <4>3. coming' = [unit |-> Plain("malformed"), address |-> <<>>] /\ bytes' = b
        BY <1>3, <3>4, <4>1
      <4>. QED BY <1>1, <2>1, <4>2, <4>3, HeadSent
    <3>. QED BY <3>1, <3>3, <3>4
  <2>2. CASE told = <<>> /\ dns = NoDns /\ units = <<Plain("http")>> /\ head.state = "done"
    <3>1. Len(units) = 1
      BY <2>2
    <3>2. unit \in Unit /\ HeaderOK(unit)
      BY <1>6, <2>2, <3>1, VerdictBefore
    <3>3. PICK b \in HeaderBytes(unit) : s = [unit |-> unit, address |-> <<>>, bytes |-> b]
      <4>1. unit.kind = "header"
        BY <3>2 DEF HeaderOK
      <4>. QED BY <4>1 DEF Sendable
    <3>4. coming' = [unit |-> unit, address |-> <<>>] /\ bytes' = b
      BY <1>3, <3>3
    <3>. QED BY <1>1, <1>4, <2>2, <3>2, <3>4, HeaderSent
  <2>3. CASE units = <<Plain("malformed")>>
    BY <1>6, <2>3, VerdictBefore
  <2>4. CASE /\ units \in Seq(Unit) /\ Len(units) = 2 /\ HeaderOK(units[2])
             /\ units[2].ancount = 0
    <3>1. Verdict(units) = "no_answers"
      BY <2>4, VerdictNone
    <3>. QED BY <1>6, <2>4, <3>1
  <2>5. CASE /\ head.state = "done" /\ Filling(units, told, BlankAnswer)
             /\ Place(dns, IF Len(told) = units[2].ancount THEN "done" ELSE "name", 0)
    <3> DEFINE n == units[2].ancount
    <3>1. Answered(units, told)
      BY <2>5 DEF Filling
    <3>2. /\ Len(told) \in Nat /\ Len(units) = 2 + Len(told) /\ n \in Nat \ {0} /\ units # <<>>
      BY <3>1, AnsweredLengths
    <3>3. Verdict(units) = IF Len(told) = n THEN "complete" ELSE "more"
      BY <3>1, VerdictAnswered
    <3>4. Len(told) <= n
      BY <3>1 DEF Answered
    <3>5. Len(told) # n
      BY <1>6, <3>2, <3>3
    <3>6. Len(told) < n
      <4> HIDE DEF n
      <4>. QED BY <3>2, <3>4, <3>5
    <3>7. Len(units) \in Nat /\ Len(units) >= 2
      BY <3>2
    <3>8. PICK kind \in {"A", "AAAA", "CNAME", "malformed"} : unit = Plain(kind)
      BY <1>6, <3>3, <3>5, <3>7
    <3>9. PICK name, data :
            /\ AnswerOK(name, CodeOf(kind), data)
            /\ s.unit = Plain(kind)
            /\ s.address = IF kind \in {"A", "AAAA"} THEN data ELSE <<>>
            /\ s.bytes = AnswerOctets(name, CodeOf(kind), data)
      BY <3>2, <3>8, AnswerSendable
    <3>10. Place(dns, "name", 0)
      BY <2>5, <3>5
    <3> DEFINE a == s.address
               w == s.bytes
    <3>11. /\ a = IF kind \in {"A", "AAAA"} THEN data ELSE <<>>
           /\ w = AnswerOctets(name, CodeOf(kind), data)
           /\ coming' = [unit |-> Plain(kind), address |-> a] /\ bytes' = w
      BY <1>3, <3>9
    <3> HIDE DEF a, w, n
    <3>. QED BY <1>1, <1>4, <2>5, <3>6, <3>9, <3>10, <3>11, AnswerSent DEF n
  <2>6. ASSUME NEW u, NEW t, Filling(u, t, Typed(OtherType)),
               units = Append(u, Plain("malformed"))
        PROVE  FALSE
    <3>1. u \in Seq(Unit)
      BY <2>6, AnsweredLengths DEF Filling
    <3>2. Verdict(units) = "malformed"
      BY <2>6, <3>1, VerdictMalformed
    <3>. QED BY <1>6, <3>2
  <2>. QED BY <1>5, <2>1, <2>2, <2>3, <2>4, <2>5, <2>6, Zenon DEF Idle
<1>. QED BY <1>4, <1>7 DEF ResponseInv
-----------------------------------------------------------------------------
(* The line, as far as its host is concerned *)

LineStates ==
  {"method", "target_scheme", "target_host", "target_port", "target_ogform", "version",
   "version_major", "version_minor", "end", "done", "error", "error_unsupported_method",
   "error_unsupported_version"}

\* The characters a line may have
Char == DOMAIN Code

Lines ==
  [state : LineStates, i : Nat, method : Seq(Char), host_type : {"domain", "ipv4", "ipv6"},
   host : Seq(Char), port : Int, origin_form : Seq(Char)]

\* The host is empty until its turn and then as long as i says
HostOK(p) ==
  /\ p \in Lines
  /\ Len(p.host) <= MaxFqdnLength
  /\ p.state \in {"method", "target_scheme"} => p.host = <<>>
  /\ p.state = "target_host" => Len(p.host) = p.i

\* A character for another field, or for none
SameHostIn(q, p) ==
  /\ q \in Lines
  /\ q.host = p.host
  /\ q.state \in {"method", "target_scheme"} => p.state \in {"method", "target_scheme"}
  /\ q.state = "target_host" => p.state \in {"method", "target_scheme"} /\ q.i = 0

\* The host stays one when none of it changes
LEMMA HostStays ==
  ASSUME NEW p, HostOK(p), NEW q, SameHostIn(q, p)
  PROVE  HostOK(q)
<1>1. Len(<<>>) = 0
  OBVIOUS
<1>. QED BY <1>1 DEF HostOK, SameHostIn

\* What To leaves
LEMMA ToIs ==
  ASSUME NEW p \in Lines, NEW state \in LineStates
  PROVE  /\ To(p, state) \in Lines
         /\ To(p, state).state = state /\ To(p, state).i = 0 /\ To(p, state).host = p.host
BY DEF Lines, To

\* What Take leaves
LEMMA TakeIs ==
  ASSUME NEW p \in Lines, NEW c \in Char
  PROVE  /\ Take(p, "method", c) \in Lines /\ Take(p, "method", c).host = p.host
         /\ Take(p, "method", c).state = p.state
         /\ Take(p, "origin_form", c) \in Lines /\ Take(p, "origin_form", c).host = p.host
         /\ Take(p, "origin_form", c).state = p.state
         /\ Take(p, "host", c) \in Lines /\ Take(p, "host", c).host = Append(p.host, c)
         /\ Take(p, "host", c).state = p.state /\ Take(p, "host", c).i = p.i + 1
<1>1. /\ Append(p.host, c) \in Seq(Char)
      /\ Append(p.method, c) \in Seq(Char)
      /\ Append(p.origin_form, c) \in Seq(Char)
  BY DEF Lines
<1>2. p.i + 1 \in Nat
  BY DEF Lines
<1>3. /\ Take(p, "method", c) = [p EXCEPT !.method = Append(p.method, c), !.i = p.i + 1]
      /\ Take(p, "origin_form", c) = [p EXCEPT !.origin_form = Append(p.origin_form, c), !.i = p.i + 1]
      /\ Take(p, "host", c) = [p EXCEPT !.host = Append(p.host, c), !.i = p.i + 1]
  BY Zenon DEF Take
<1>. QED BY <1>1, <1>2, <1>3 DEF Lines

\* The character after the path has been begun or left out
LEMMA SlashIsChar ==
  <<"/">> \in Seq(Char)
<1>1. "/" \in Char
  BY ResolutionAssumption DEF Char
<1>. QED BY <1>1

\* The digits
LEMMA DigitIs ==
  Digit = {"0", "1", "2", "3", "4", "5", "6", "7", "8", "9"}
<1>1. /\ Digits[1] = "0" /\ Digits[2] = "1" /\ Digits[3] = "2" /\ Digits[4] = "3" /\ Digits[5] = "4"
      /\ Digits[6] = "5" /\ Digits[7] = "6" /\ Digits[8] = "7" /\ Digits[9] = "8" /\ Digits[10] = "9"
  BY DEF Digits
<1>2. \A n \in 1 .. 10 : \/ n = 1 \/ n = 2 \/ n = 3 \/ n = 4 \/ n = 5
                         \/ n = 6 \/ n = 7 \/ n = 8 \/ n = 9 \/ n = 10
  OBVIOUS
<1>3. /\ 1 \in 1 .. 10 /\ 2 \in 1 .. 10 /\ 3 \in 1 .. 10 /\ 4 \in 1 .. 10 /\ 5 \in 1 .. 10
      /\ 6 \in 1 .. 10 /\ 7 \in 1 .. 10 /\ 8 \in 1 .. 10 /\ 9 \in 1 .. 10 /\ 10 \in 1 .. 10
  OBVIOUS
<1>4. ASSUME NEW c \in Digit
      PROVE  c \in {"0", "1", "2", "3", "4", "5", "6", "7", "8", "9"}
  <2>1. PICK n \in 1 .. 10 : c = Digits[n]
    BY DEF Digit
  <2>. QED BY <2>1, <1>1, <1>2
<1>5. \A n \in 1 .. 10 : Digits[n] \in Digit
  BY DEF Digit
<1>6. {"0", "1", "2", "3", "4", "5", "6", "7", "8", "9"} \subseteq Digit
  <2>1. /\ "0" \in Digit /\ "1" \in Digit /\ "2" \in Digit /\ "3" \in Digit /\ "4" \in Digit
        /\ "5" \in Digit /\ "6" \in Digit /\ "7" \in Digit /\ "8" \in Digit /\ "9" \in Digit
    BY <1>1, <1>3, <1>5, Zenon
  <2>. QED BY <2>1
<1>. QED BY <1>4, <1>6

\* A blank is no part of a method
LEMMA BlankIsNoToken ==
  " " \notin TokenChar
BY DigitIs DEF TokenChar

\* The octets of a port are swapped
LEMMA SwappedIsInt ==
  ASSUME NEW n \in Int
  PROVE  Swapped(n) \in Int
BY DEF Swapped

\* The value of a digit
LEMMA ValueIs ==
  ASSUME NEW c \in Digit
  PROVE  Value(c) \in 0 .. 9
<1>1. \E n \in 1 .. 10 : Digits[n] = c
  BY DEF Digit
<1> DEFINE n == CHOOSE n \in 1 .. 10 : Digits[n] = c
<1>2. n \in 1 .. 10
  BY <1>1
<1>3. Value(c) = n - 1
  BY DEF Value
<1>. HIDE DEF n
<1>. QED BY <1>2, <1>3

\* What ends the host or the port
LEMMA AuthorityKeeps ==
  ASSUME NEW p \in Lines, NEW c \in Char
  PROVE  /\ AuthorityEnds(p, c) \in Lines
         /\ AuthorityEnds(p, c).state \in {"version", "target_ogform"}
         /\ AuthorityEnds(p, c).host = p.host
<1>1. {"version", "target_ogform"} \subseteq LineStates
  BY DEF LineStates
<1>2. CASE c = " "
  <2>1. AuthorityEnds(p, c) = NoPath(p)
    BY <1>2 DEF AuthorityEnds
  <2> DEFINE v == To(p, "version")
  <2>2. v \in Lines /\ v.state = "version" /\ v.host = p.host
    BY <1>1, ToIs
  <2>3. NoPath(p) = v \/ NoPath(p) = [v EXCEPT !.origin_form = <<"/">>]
    BY DEF NoPath
  <2>. HIDE DEF v
  <2>. QED BY <2>1, <2>2, <2>3, SlashIsChar DEF Lines
<1>3. CASE c # " "
  <2> DEFINE t == To(p, "target_ogform")
  <2>1. t \in Lines /\ t.state = "target_ogform" /\ t.host = p.host
    BY <1>1, ToIs
  <2>2. AuthorityEnds(p, c) = Take(t, "origin_form", c)
    BY <1>3 DEF AuthorityEnds
  <2>. HIDE DEF t
  <2>. QED BY <2>1, <2>2, TakeIs
<1>. QED BY <1>2, <1>3

\* The character after the host
LEMMA HostEndsKeeps ==
  ASSUME NEW p \in Lines, NEW c \in Char
  PROVE  /\ HostEnds(p, c) \in Lines
         /\ HostEnds(p, c).state \in {"version", "target_ogform", "target_port"}
         /\ HostEnds(p, c).host = p.host
<1> DEFINE known == [p EXCEPT !.port = Swapped(80)]
<1>1. known \in Lines /\ known.host = p.host
  BY SwappedIsInt DEF Lines
<1>2. HostEnds(p, c) = IF c = ":" THEN To(known, "target_port") ELSE AuthorityEnds(known, c)
  BY DEF HostEnds
<1>3. "target_port" \in LineStates
  BY DEF LineStates
<1>. HIDE DEF known
<1>4. CASE c = ":"
  BY <1>1, <1>2, <1>3, <1>4, ToIs
<1>5. CASE c # ":"
  BY <1>1, <1>2, <1>5, AuthorityKeeps
<1>. QED BY <1>4, <1>5

\* A field other than the host
LEMMA FieldKeepsHost ==
  ASSUME NEW p, HostOK(p), NEW c \in Char, p.state \notin {"target_host", "done"}, ErrorOf(p.state) = 0
  PROVE  SameHostIn(LineFeed(p, c), p)
<1>1. p \in Lines /\ p.i + 1 \in Nat /\ p.i \in Nat
  BY DEF HostOK, Lines
<1>0. p.state \in LineStates
  BY <1>1 DEF Lines
<1> DEFINE KeepsIt(q) == SameHostIn(q, p)
<1>2. \A state \in LineStates : 
        (state \in {"method", "target_scheme", "target_host"} => p.state \in {"method", "target_scheme"})
          => KeepsIt(To(p, state))
  BY <1>1, ToIs DEF SameHostIn
<1>12. KeepsIt([p EXCEPT !.i = @ + 1]) \/ p.state = "target_host"
  BY <1>1 DEF SameHostIn, Lines
<1>3. CASE p.state = "method"
  <2>1. LineFeed(p, c) = MethodFeed(p, c)
    BY <1>3 DEF LineFeed
  <2>2. KeepsIt(Take(p, "method", c))
    BY <1>1, <1>3, TakeIs DEF SameHostIn
  <2>3. \/ MethodFeed(p, c) = Take(p, "method", c)
        \/ MethodFeed(p, c) = To(p, IF p.method = Connect THEN "target_host" ELSE "target_scheme")
        \/ MethodFeed(p, c) = To(p, "error_unsupported_method")
    <3>1. CASE p.i < MaxMethodLength /\ c \in TokenChar
      <4>1. c # " "
        BY <3>1, BlankIsNoToken
      <4>. QED BY <3>1, <4>1, Zenon DEF MethodFeed
    <3>2. CASE p.i < MaxMethodLength /\ c \notin TokenChar /\ c = " "
      BY <3>2, Zenon DEF MethodFeed
    <3>3. CASE ~(p.i < MaxMethodLength /\ c \in TokenChar) /\ ~(p.i < MaxMethodLength /\ c = " ")
      BY <3>3, Zenon DEF MethodFeed
    <3>. QED BY <3>1, <3>2, <3>3
  <2>4. \/ MethodFeed(p, c) = Take(p, "method", c)
        \/ MethodFeed(p, c) = To(p, "target_host")
        \/ MethodFeed(p, c) = To(p, "target_scheme")
        \/ MethodFeed(p, c) = To(p, "error_unsupported_method")
    BY <2>3
  <2>. QED BY <2>1, <2>2, <2>4, <1>2, <1>3 DEF LineStates
<1>4. CASE p.state = "target_scheme"
  <2>1. LineFeed(p, c) = SchemeFeed(p, c)
    BY <1>4 DEF LineFeed
  <2>2. KeepsIt([p EXCEPT !.i = @ + 1])
    BY <1>12, <1>4
  <2>3. \/ SchemeFeed(p, c) = [p EXCEPT !.i = @ + 1]
        \/ \E state \in {"target_host", "error"} : SchemeFeed(p, c) = To(p, state)
    BY DEF SchemeFeed
  <2>. QED BY <2>1, <2>2, <2>3, <1>2, <1>4 DEF LineStates
<1>5. CASE p.state = "target_port"
  <2>1. LineFeed(p, c) = PortFeed(p, c)
    BY <1>5 DEF LineFeed
  <2> DEFINE swapped == [p EXCEPT !.port = Swapped(@)]
             port == ((IF p.i = 0 THEN 0 ELSE p.port * 10) + Value(c)) % PortModulus
             counted == [p EXCEPT !.i = @ + 1, !.port = port]
  <2>2. swapped \in Lines /\ swapped.host = p.host
    <3>1. p.port \in Int
      BY <1>1 DEF Lines
    <3>2. Swapped(p.port) \in Int
      BY <3>1, SwappedIsInt
    <3>3. swapped = [p EXCEPT !.port = Swapped(p.port)]
      BY <1>1 DEF Lines
    <3>. QED BY <3>2, <3>3, <1>1 DEF Lines
  <2>3. c \in Digit => KeepsIt(counted)
    <3>. SUFFICES ASSUME c \in Digit PROVE KeepsIt(counted)
      OBVIOUS
    <3>1. p.port \in Int /\ Value(c) \in Int
      BY <1>1, ValueIs DEF Lines
    <3>2. port \in Int
      BY <3>1 DEF PortModulus
    <3>. HIDE DEF port
    <3>3. counted \in Lines /\ counted.host = p.host /\ counted.state = p.state
      BY <3>2, <1>1 DEF Lines
    <3>. HIDE DEF counted
    <3>. QED BY <3>3, <1>5 DEF SameHostIn
  <2>4. \/ PortFeed(p, c) = To(p, "error")
        \/ PortFeed(p, c) = AuthorityEnds(swapped, c)
        \/ c \in Digit /\ PortFeed(p, c) = counted
    <3>1. CASE p.i >= MaxPortLength
      <4>1. ~(p.i < MaxPortLength)
        BY <1>1, <3>1 DEF MaxPortLength
      <4>. QED BY <3>1, <4>1, Zenon DEF PortFeed
    <3>2. CASE ~(p.i >= MaxPortLength) /\ c \in EndOfAuthority \union {" "}
      <4>1. c \notin Digit
        BY <3>2, DigitIs DEF EndOfAuthority
      <4>. QED BY <3>2, <4>1, Zenon DEF PortFeed
    <3>3. CASE ~(p.i >= MaxPortLength) /\ ~(c \in EndOfAuthority \union {" "}) /\ c \in Digit
      <4>0. ~(p.i >= MaxPortLength)
        BY <3>3
      <4>1. p.i < MaxPortLength
        BY <1>1, <4>0 DEF MaxPortLength
      <4>. QED BY <3>3, <4>1, Zenon DEF PortFeed
    <3>4. CASE ~(p.i >= MaxPortLength) /\ ~(c \in EndOfAuthority \union {" "}) /\ ~(c \in Digit)
      BY <3>4, Zenon DEF PortFeed
    <3>. QED BY <3>1, <3>2, <3>3, <3>4
  <2>. HIDE DEF swapped, counted
  <2>5. KeepsIt(AuthorityEnds(swapped, c))
    <3>1. /\ AuthorityEnds(swapped, c) \in Lines
          /\ AuthorityEnds(swapped, c).state \in {"version", "target_ogform"}
          /\ AuthorityEnds(swapped, c).host = p.host
      BY <2>2, AuthorityKeeps
    <3>. QED BY <3>1 DEF SameHostIn
  <2>. QED BY <2>1, <2>3, <2>4, <2>5, <1>2, <1>5 DEF LineStates
<1>6. CASE p.state = "target_ogform"
  <2>1. LineFeed(p, c) = OriginFormFeed(p, c)
    BY <1>6 DEF LineFeed
  <2>2. KeepsIt(Take(p, "origin_form", c))
    BY <1>1, <1>6, TakeIs DEF SameHostIn
  <2>3. \/ OriginFormFeed(p, c) = Take(p, "origin_form", c)
        \/ \E state \in {"version", "error"} : OriginFormFeed(p, c) = To(p, state)
    BY DEF OriginFormFeed
  <2>. QED BY <2>1, <2>2, <2>3, <1>2, <1>6 DEF LineStates
<1>7. CASE p.state = "version"
  <2>1. LineFeed(p, c) = VersionFeed(p, c)
    BY <1>7 DEF LineFeed
  <2>2. KeepsIt([p EXCEPT !.i = @ + 1])
    BY <1>12, <1>7
  <2>3. \/ VersionFeed(p, c) = [p EXCEPT !.i = @ + 1]
        \/ \E state \in {"version_major", "error"} : VersionFeed(p, c) = To(p, state)
    BY DEF VersionFeed
  <2>. QED BY <2>1, <2>2, <2>3, <1>2, <1>7 DEF LineStates
<1>8. CASE p.state \in {"version_major", "version_minor"}
  <2> DEFINE next == IF p.state = "version_major" THEN "version_minor" ELSE "end"
             stop == IF p.state = "version_major" THEN "." ELSE "\r"
  <2>1. LineFeed(p, c) = NumberFeed(p, c, stop, next)
    BY <1>8 DEF LineFeed
  <2>2. KeepsIt([p EXCEPT !.i = @ + 1])
    BY <1>12, <1>8
  <2>3. \/ NumberFeed(p, c, stop, next) = [p EXCEPT !.i = @ + 1]
        \/ \E state \in {next, "error", "error_unsupported_version"} : NumberFeed(p, c, stop, next) = To(p, state)
    BY DEF NumberFeed
  <2>4. next \in {"version_minor", "end"}
    OBVIOUS
  <2>. HIDE DEF next, stop
  <2>. QED BY <2>1, <2>2, <2>3, <2>4, <1>2, <1>8 DEF LineStates
<1>9. CASE p.state = "end"
  <2>1. LineFeed(p, c) = To(p, IF c = "\n" THEN "done" ELSE "error")
    BY <1>9 DEF LineFeed
  <2>. QED BY <2>1, <1>2, <1>9 DEF LineStates
<1>. QED BY <1>0, <1>3, <1>4, <1>5, <1>6, <1>7, <1>8, <1>9 DEF LineStates, ErrorOf

\* The host itself
LEMMA HostFeedKeeps ==
  ASSUME NEW p, HostOK(p), NEW c \in Char, p.state = "target_host"
  PROVE  HostOK(HostFeed(p, c))
<1>1. p \in Lines /\ Len(p.host) = p.i /\ p.i <= MaxFqdnLength
  BY DEF HostOK
<1>2. MaxFqdnLength \in Nat
  BY ResolutionAssumption
<1>0. p.i \in Nat /\ p.host \in Seq(Char)
  BY <1>1 DEF Lines
<1>3. \A q \in Lines : /\ q.state \in {"error", "version", "target_ogform", "target_port"}
                       /\ Len(q.host) <= MaxFqdnLength
             => HostOK(q)
  BY DEF HostOK
<1>4. HostOK(To(p, "error"))
  <2>1. To(p, "error") \in Lines /\ To(p, "error").state = "error" /\ To(p, "error").host = p.host
    BY <1>1, ToIs DEF LineStates
  <2>. QED BY <2>1, <1>1, <1>3
<1>5. HostOK([p EXCEPT !.host_type = "ipv6"])
  BY <1>1 DEF HostOK, Lines
<1>6. p.i < MaxFqdnLength => HostOK(Take(p, "host", c))
  <2>. SUFFICES ASSUME p.i < MaxFqdnLength PROVE HostOK(Take(p, "host", c))
    OBVIOUS
  <2> DEFINE q == Take(p, "host", c)
  <2>1. q \in Lines /\ q.state = p.state /\ q.i = p.i + 1 /\ q.host = Append(p.host, c)
    BY <1>1, TakeIs
  <2>. HIDE DEF q
  <2>2. Len(q.host) = p.i + 1
    BY <2>1, <1>0, <1>1, AppendProperties
  <2>3. p.i + 1 <= MaxFqdnLength
    BY <1>0, <1>2
  <2>4. HostOK(q)
    BY <2>1, <2>2, <2>3 DEF HostOK
  <2>. QED BY <2>4 DEF q
<1>7. ASSUME NEW q \in Lines, Len(q.host) <= MaxFqdnLength
      PROVE  HostOK(HostEnds(q, c))
  <2> DEFINE r == HostEnds(q, c)
  <2>1. r \in Lines /\ r.state \in {"version", "target_ogform", "target_port"} /\ r.host = q.host
    BY HostEndsKeeps
  <2>. HIDE DEF r
  <2>2. HostOK(r)
    BY <2>1, <1>7, <1>3
  <2>. QED BY <2>2 DEF r
<1>8. CASE p.i >= MaxFqdnLength
  <2>1. HostFeed(p, c) = To(p, "error")
    BY <1>8, <1>0, <1>2 DEF HostFeed
  <2>. QED BY <2>1, <1>4
<1>9. CASE p.i < MaxFqdnLength /\ p.i = 0 /\ c = "["
  <2>1. HostFeed(p, c) = [p EXCEPT !.host_type = "ipv6"]
    BY <1>9, <1>0, <1>2 DEF HostFeed
  <2>. QED BY <2>1, <1>5
<1>10. CASE p.i < MaxFqdnLength /\ ~(p.i = 0 /\ c = "[") /\ p.host_type = "ipv6"
  <2> DEFINE literal == SubSeq(p.host, 1, Len(p.host) - 1)
             q == [p EXCEPT !.host = literal]
  <2>1. HostFeed(p, c) = BracketedHostFeed(p, c)
    <3>1. ~(p.i >= MaxFqdnLength)
      BY <1>10, <1>0, <1>2
    <3>. QED BY <1>10, <3>1 DEF HostFeed
  <2>2. literal \in Seq(Char) /\ Len(literal) <= MaxFqdnLength
    <3>1. CASE p.i = 0
      <4>1. p.host = <<>>
        BY <3>1, <1>0, <1>1
      <4>2. SubSeq(<<>>, 1, 0 - 1) = <<>> /\ Len(<<>>) = 0 /\ <<>> \in Seq(Char)
        OBVIOUS
      <4>3. literal = SubSeq(<<>>, 1, 0 - 1)
        BY <4>1, <4>2
      <4>. HIDE DEF literal
      <4>. QED BY <4>2, <4>3, <1>2
    <3>2. CASE p.i > 0
      <4>1. literal \in Seq(Char) /\ Len(literal) = Len(p.host) - 1
        <5>1. \A h \in Seq(Char) : Len(h) > 0 => 
                SubSeq(h, 1, Len(h) - 1) \in Seq(Char) /\ Len(SubSeq(h, 1, Len(h) - 1)) = Len(h) - 1
          <6>. SUFFICES ASSUME NEW h \in Seq(Char), Len(h) > 0
                        PROVE  /\ SubSeq(h, 1, Len(h) - 1) \in Seq(Char)
                               /\ Len(SubSeq(h, 1, Len(h) - 1)) = Len(h) - 1
            OBVIOUS
          <6>1. Len(h) \in Nat
            OBVIOUS
          <6>2. 1 \in Int /\ Len(h) - 1 \in Int /\ \A i \in 1 .. Len(h) - 1 : h[i] \in Char
            BY <6>1
          <6>3. (IF 1 <= Len(h) - 1 THEN (Len(h) - 1) - 1 + 1 ELSE 0) = Len(h) - 1
            <7>1. \A k \in Nat : k > 0 => (IF 1 <= k - 1 THEN (k - 1) - 1 + 1 ELSE 0) = k - 1
              OBVIOUS
            <7>. QED BY <6>1, <7>1
          <6>. HIDE DEF Char
          <6>. QED BY <6>2, <6>3, SubSeqProperties
        <5>. QED BY <3>2, <1>0, <1>1, <5>1
      <4>. HIDE DEF literal
      <4>. QED BY <4>1, <1>0, <1>1, <1>2
    <3>. QED BY <3>1, <3>2, <1>0
  <2>3. q \in Lines /\ q.host = literal
    <3>. HIDE DEF literal
    <3>. QED BY <2>2, <1>1 DEF Lines
  <2>4. HostOK(HostEnds(q, c))
    <3>. HIDE DEF literal, q
    <3>. QED BY <2>2, <2>3, <1>7
  <2>5. \/ BracketedHostFeed(p, c) = HostEnds(q, c)
        \/ BracketedHostFeed(p, c) = To(p, "error")
        \/ BracketedHostFeed(p, c) = Take(p, "host", c)
    BY DEF BracketedHostFeed
  <2>. HIDE DEF literal, q
  <2>. QED BY <2>1, <2>4, <2>5, <1>4, <1>6, <1>10
<1>11. CASE p.i < MaxFqdnLength /\ ~(p.i = 0 /\ c = "[") /\ p.host_type # "ipv6"
  <2>1. HostFeed(p, c) = NamedHostFeed(p, c)
    <3>1. ~(p.i >= MaxFqdnLength)
      BY <1>11, <1>0, <1>2
    <3>. QED BY <1>11, <3>1 DEF HostFeed
  <2> DEFINE q == [p EXCEPT !.host_type = IF p.host \in Ipv4Literals THEN "ipv4" ELSE "domain"]
  <2>2. q \in Lines /\ q.host = p.host
    BY <1>1 DEF Lines
  <2>3. NamedHostFeed(p, c) = HostEnds(q, c) \/ NamedHostFeed(p, c) = Take(p, "host", c)
    BY DEF NamedHostFeed
  <2>. HIDE DEF q
  <2>4. HostOK(HostEnds(q, c))
    BY <2>2, <1>1, <1>7
  <2>. QED BY <2>1, <2>3, <2>4, <1>6, <1>11
<1>. QED BY <1>0, <1>2, <1>8, <1>9, <1>10, <1>11

\* One character of the line
LEMMA LineFeedKeepsHost ==
  ASSUME NEW p, HostOK(p), NEW c \in Char, p.state # "done", ErrorOf(p.state) = 0
  PROVE  HostOK(LineFeed(p, c))
<1>1. CASE p.state = "target_host"
  BY <1>1, HostFeedKeeps DEF LineFeed
<1>2. CASE p.state # "target_host"
  BY <1>2, FieldKeepsHost, HostStays
<1>. QED BY <1>1, <1>2
-----------------------------------------------------------------------------
(* The whole *)

\* The host that is parsed, kept and asked for
LineInv ==
  /\ HostOK(line)
  /\ said \in Seq([part : Parts, text : Seq(Char)])
  /\ rest \in Seq(Char)
  /\ request.host \in Seq(Char) /\ Len(request.host) < OctetModulus
  /\ query # NoQuery => line.state = "done"
  /\ QueryNamesHost

ResolutionInv == LineInv /\ ResponseInv

\* The bounds
LEMMA BoundsAre ==
  MaxFqdnLength \in Nat /\ OctetModulus \in Nat /\ MaxFqdnLength < OctetModulus
BY ResolutionAssumption, QueryAssumption

\* A part of the line as it is sent
LEMMA WrittenIs ==
  ASSUME NEW part \in Parts, NEW text \in Seq(Char)
  PROVE  Written(part, text) \in Seq(Char)
<1>1. " " \in Char /\ ":" \in Char /\ "." \in Char /\ "\r" \in Char
  BY ResolutionAssumption DEF Char
<1>. HIDE DEF Char
<1>0. \A c \in Char : Append(text, c) \in Seq(Char) /\ <<c>> \in Seq(Char)
  OBVIOUS
<1>2. /\ Append(text, " ") \in Seq(Char) /\ Append(text, ".") \in Seq(Char)
      /\ Append(text, "\r") \in Seq(Char)
  BY <1>0, <1>1, Zenon
<1>3. \A a, b \in Seq(Char) : a \o b \in Seq(Char)
  OBVIOUS
<1>4. <<":">> \in Seq(Char) /\ <<" ">> \in Seq(Char)
  BY <1>0, <1>1, Zenon
<1>5. <<":">> \o text \in Seq(Char) /\ <<" ">> \o text \in Seq(Char)
  BY <1>3, <1>4
<1>. QED BY <1>2, <1>5 DEF Written, Parts

\* The parts that follow are parts
LEMMA FollowingIs ==
  ASSUME LineInv
  PROVE  Following \subseteq Parts
<1>1. CASE said = <<>>
  BY <1>1 DEF Following, Parts
<1>2. CASE said # <<>>
  <2>1. said \in Seq([part : Parts, text : Seq(Char)])
    BY DEF LineInv
  <2>2. Len(said) \in 1 .. Len(said)
    BY <2>1, <1>2
  <2>3. Present.part \in Parts
    <3>. DEFINE R == [part : Parts, text : Seq(Char)]
    <3>1. said \in Seq(R) /\ Len(said) \in 1 .. Len(said)
      BY <2>1, <2>2
    <3>. HIDE DEF R
    <3>2. said[Len(said)] \in R
      BY <3>1
    <3>. QED BY <3>2 DEF R, Present
  <2>. DEFINE p == Present.part
              t == Present.text
  <2>4. Following =
          CASE p = "method" -> {IF t = Connect THEN "host" ELSE "scheme"}
            [] p = "scheme" -> {"host"}
            [] p = "host" -> {"path", "version"} \union
                               IF Bracketed(t) /\ t[Len(t)] # "]" THEN {} ELSE {"port"}
            [] p = "port" -> {"path", "version"}
            [] p = "path" -> {"version"}
            [] p = "version" -> {"major"}
            [] p = "major" -> {"minor"}
            [] p = "minor" -> {"end"}
            [] p = "end" -> {}
    BY <1>2, Zenon DEF Following, Follows
  <2>5. p \in Parts
    BY <2>3
  <2>6. {IF t = Connect THEN "host" ELSE "scheme"} \subseteq Parts
    BY DEF Parts
  <2>7. {"path", "version"} \union (IF Bracketed(t) /\ t[Len(t)] # "]" THEN {} ELSE {"port"})
          \subseteq Parts
    BY DEF Parts
  <2>. HIDE DEF p, t
  <2>. QED BY <2>4, <2>5, <2>6, <2>7 DEF Parts
<1>. QED BY <1>1, <1>2

\* The line before its first character
LEMMA NewLineIs ==
  NewLine \in Lines /\ NewLine.state = "method" /\ NewLine.i = 0 /\ NewLine.host = <<>>
<1>1. "method" \in LineStates
  BY DEF LineStates
<1>2. <<>> \in Seq(Char)
  OBVIOUS
<1>. HIDE DEF LineStates, Char
<1>. QED BY <1>1, <1>2 DEF NewLine, Lines

\* At the start
LEMMA InitIs ==
  ASSUME Init
  PROVE  ResolutionInv
<1>1. LineInit /\ ResponseInit
  BY DEF Init
<1>2. <<>> \in Seq(Char) /\ Len(<<>>) = 0
  OBVIOUS
<1>3. NewLine \in Lines /\ NewLine.state = "method" /\ NewLine.i = 0 /\ NewLine.host = <<>>
  BY NewLineIs
<1>4. HostOK(line)
  BY <1>1, <1>2, <1>3, BoundsAre DEF LineInit, HostOK
<1>5. NoRequest.host = <<>>
  BY DEF NoRequest
<1>6. query = NoQuery /\ bytes = <<>>
  BY <1>1 DEF ResponseInit
<1>7. said = <<>> /\ rest = <<>> /\ request = NoRequest
  BY <1>1 DEF LineInit
<1>8. Len(request.host) < OctetModulus
  BY <1>2, <1>5, <1>7, BoundsAre
<1>9. LineInv
  <2>1. said \in Seq([part : Parts, text : Seq(Char)])
    BY <1>7
  <2>2. rest \in Seq(Char) /\ request.host \in Seq(Char)
    BY <1>2, <1>5, <1>7
  <2>. QED BY <1>4, <1>6, <1>8, <2>1, <2>2 DEF LineInv, QueryNamesHost
<1>10. ResponseInv
  BY <1>1, <1>6 DEF ResponseInit, ResponseInv, QueryOK, Idle
<1>. QED BY <1>9, <1>10 DEF ResolutionInv

\* The response does not look at the line
LEMMA ResponseStays ==
  ASSUME ResponseInv, UNCHANGED <<responseVars, query>>
  PROVE  ResponseInv'
<1>1. /\ units' = units /\ told' = told /\ coming' = coming /\ bytes' = bytes /\ head' = head
      /\ dns' = dns /\ query' = query
  BY DEF responseVars
<1>2. QueryOK' /\ Host' = Host /\ (Readable(query))' = Readable(query)
  BY <1>1, SameHost DEF ResponseInv
<1>3. Idle => Idle'
  <2>1. \A u, t, cur : Filling(u, t, cur) => Filling(u, t, cur)'
    BY <1>1, <1>2, Zenon DEF Filling
  <2>2. Filling(units, told, BlankAnswer) => Filling(units, told, BlankAnswer)'
    BY <1>1, <1>2, Zenon DEF Filling
  <2>. QED BY <1>1, <2>1, <2>2, Zenon DEF Idle
<1>4. \A w, c : HeadComing(w, c) => HeadComing(w, c)'
  BY <1>1, Zenon DEF HeadComing
<1>5. \A w, c : HeaderComing(w, c) => HeaderComing(w, c)'
  BY <1>1, <1>2, Zenon DEF HeaderComing
<1>6. \A w, c : AnswerComing(w, c) => AnswerComing(w, c)'
  BY <1>1, <1>2, Zenon DEF AnswerComing
<1>7. Within => Within'
  BY <1>1, <1>4, <1>5, <1>6, Zenon DEF Within
<1>8. Stuck => Stuck'
  BY <1>1, Zenon DEF Stuck
<1>. QED BY <1>1, <1>2, <1>3, <1>7, <1>8, Zenon DEF ResponseInv

\* The client begins a part
LEMMA SaysKeeps ==
  ASSUME LineInv, ClientSays, query' = query
  PROVE  LineInv'
<1>0. PICK part \in Following : \E text \in Texts[part] :
        said' = Append(said, [part |-> part, text |-> text]) /\ rest' = Written(part, text)
  BY DEF ClientSays
<1>1. PICK text \in Texts[part] :
        said' = Append(said, [part |-> part, text |-> text]) /\ rest' = Written(part, text)
  BY <1>0
<1>2. part \in Parts
  BY FollowingIs
<1>3. text \in Seq(Char)
  BY <1>2, ResolutionAssumption DEF Char
<1>4. [part |-> part, text |-> text] \in [part : Parts, text : Seq(Char)]
  BY <1>2, <1>3
<1>5. said' \in Seq([part : Parts, text : Seq(Char)])
  BY <1>1, <1>4 DEF LineInv
<1>6. rest' \in Seq(Char)
  BY <1>1, <1>2, <1>3, WrittenIs
<1>7. line' = line /\ request' = request
  BY DEF ClientSays
<1>. QED BY <1>5, <1>6, <1>7 DEF LineInv, QueryNamesHost

\* One character of the line
LEMMA FeedLineKeeps ==
  ASSUME LineInv, FeedLine, query' = query
  PROVE  LineInv'
<1>1. /\ rest # <<>> /\ rest \in Seq(Char) /\ rest' = Tail(rest)
      /\ line.state # "done" /\ ErrorOf(line.state) = 0 /\ HostOK(line)
      /\ line' = LineFeed(line, Head(rest)) /\ said' = said
  BY DEF FeedLine, LineInv
<1>2. Head(rest) \in Char /\ rest' \in Seq(Char)
  BY <1>1, HeadTailProperties
<1>3. HostOK(line')
  BY <1>1, <1>2, LineFeedKeepsHost
<1>4. query = NoQuery
  BY <1>1 DEF LineInv
<1>5. request' = BuildConnectionRequest(line') \/ request' = request
  BY DEF FeedLine
<1>6. request'.host \in Seq(Char) /\ Len(request'.host) < OctetModulus
  <2>1. CASE request' = request
    BY <2>1 DEF LineInv
  <2>2. CASE request' = BuildConnectionRequest(line')
    <3>1. request'.host = line'.host
      BY <2>2 DEF BuildConnectionRequest
    <3>2. line'.host \in Seq(Char) /\ Len(line'.host) <= MaxFqdnLength
      BY <1>3 DEF HostOK, Lines
    <3>3. Len(line'.host) \in Nat
      BY <3>2
    <3>. QED BY <3>1, <3>2, <3>3, BoundsAre
  <2>. QED BY <1>5, <2>1, <2>2
<1>. QED BY <1>1, <1>2, <1>3, <1>4, <1>6 DEF LineInv, QueryNamesHost

\* The host is asked for
LEMMA QueryKeeps ==
  ASSUME ResolutionInv, SendDohRequest
  PROVE  ResolutionInv'
<1>1. LineInv /\ ResponseInv
  BY DEF ResolutionInv
<1>2. PICK type \in {"A", "AAAA"} : query' = BuildDohRequest(request.host, type)
  BY DEF SendDohRequest
<1>3. /\ query = NoQuery /\ rest' = rest /\ said' = <<>>
      /\ request' = [NoRequest EXCEPT !.host = request.host]
      /\ line' = [NewLine EXCEPT !.state = "done"]
      /\ units' = units /\ told' = told /\ bytes' = bytes /\ head' = head /\ dns' = dns
  BY DEF SendDohRequest
<1>4. request.host \in Seq(DOMAIN Code) /\ Len(request.host) < OctetModulus
  BY <1>1 DEF LineInv, Char
<1>5. /\ AsksForHost(request.host, query')
      /\ query'.body \in Seq(Int) /\ query'.content_length \in 0 .. OctetModulus - 1
  <2>. DEFINE h == request.host
  <2>1. h \in Seq(DOMAIN Code) /\ Len(h) < OctetModulus
    BY <1>4
  <2>. HIDE DEF h
  <2>2. /\ AsksForHost(h, BuildDohRequest(h, type))
        /\ BuildDohRequest(h, type).body \in Seq(Int)
        /\ BuildDohRequest(h, type).content_length \in 0 .. OctetModulus - 1
    BY <2>1, QueryAsksForHost
  <2>. QED BY <2>2, <1>2 DEF h
<1>6. request'.host = request.host
  BY <1>3 DEF NoRequest
<1>7. HostOK(line')
  <2>1. <<>> \in Seq(Char) /\ Len(<<>>) = 0
    OBVIOUS
  <2>2. line' \in Lines /\ line'.state = "done" /\ line'.host = <<>>
    <3>1. "done" \in LineStates
      BY DEF LineStates
    <3>. HIDE DEF LineStates
    <3>. QED BY <1>3, <3>1, NewLineIs DEF Lines
  <2>. QED BY <2>1, <2>2, BoundsAre DEF HostOK
<1>8. line'.state = "done"
  BY <1>3 DEF NewLine
<1>9. LineInv'
  <2>1. said' \in Seq([part : Parts, text : Seq(Char)])
    BY <1>3
  <2>. QED BY <1>1, <1>3, <1>4, <1>5, <1>6, <1>7, <1>8, <2>1 DEF LineInv, QueryNamesHost
<1>10. bytes = <<>> /\ units = <<>> /\ told = <<>> /\ head = At("version", 0) /\ dns = NoDns
  BY <1>1, <1>3 DEF ResponseInv, Idle, Within, Stuck
<1>11. QueryOK'
  BY <1>5 DEF QueryOK
<1>12. ResponseInv'
  BY <1>3, <1>10, <1>11 DEF ResponseInv, Idle
<1>. QED BY <1>9, <1>12 DEF ResolutionInv

\* Neither changes while the other does
LEMMA NextKeeps ==
  ASSUME ResolutionInv, [Next]_vars
  PROVE  ResolutionInv'
<1>1. LineInv /\ ResponseInv
  BY DEF ResolutionInv
<1>2. ASSUME UNCHANGED <<lineVars, query>>
      PROVE  LineInv'
  <2>1. said' = said /\ rest' = rest /\ line' = line /\ request' = request /\ query' = query
    BY <1>2 DEF lineVars
  <2>. QED BY <2>1, <1>1 DEF LineInv, QueryNamesHost
<1>3. CASE ParseLine
  <2>1. UNCHANGED <<responseVars, query>> /\ query' = query
    BY <1>3 DEF ParseLine
  <2>2. LineInv'
    BY <1>1, <1>3, <2>1, SaysKeeps, FeedLineKeeps DEF ParseLine
  <2>. QED BY <1>1, <2>1, <2>2, ResponseStays DEF ResolutionInv
<1>4. CASE SendDohRequest
  BY <1>4, QueryKeeps
<1>5. CASE ParseResponse
  <2>1. query' = query /\ UNCHANGED lineVars
    BY <1>5 DEF ParseResponse, ServerSends, Feed
  <2>2. ResponseInv'
    BY <1>1, <1>5, SendKeeps, FeedKeeps DEF ParseResponse
  <2>. QED BY <1>2, <2>1, <2>2 DEF ResolutionInv
<1>6. CASE Over \/ UNCHANGED vars
  <2>1. UNCHANGED vars
    BY <1>6 DEF Over
  <2>2. UNCHANGED <<responseVars, query>> /\ UNCHANGED <<lineVars, query>>
    BY <2>1 DEF vars, responseVars, lineVars
  <2>. QED BY <1>1, <1>2, <2>2, ResponseStays DEF ResolutionInv
<1>. QED BY <1>3, <1>4, <1>5, <1>6 DEF Next

\* What the parsers have made of the line and of the response is what its place in
\* the text it is fed says: the invariant on which the theorems below rest
THEOREM ResolutionInvariant == Spec => []ResolutionInv
<1>1. Init => ResolutionInv
  BY InitIs
<1>2. ResolutionInv /\ [Next]_vars => ResolutionInv'
  BY NextKeeps
<1>. QED BY <1>1, <1>2, PTL DEF Spec

\* build_doh_request after the parser of the request line: for every host it can
\* leave, what the query announces of itself asks for that host or, where the host
\* is none or too long for content_length, for no host; never for another one
THEOREM QueryIsForHost == Spec => []QueryNamesHost
<1>1. ResolutionInv => QueryNamesHost
  BY DEF ResolutionInv, LineInv
<1>. QED BY <1>1, ResolutionInvariant, PTL

\* doh_parser.c and its companions: after every byte of every response the parsers
\* have decided what Connection lets them decide on its units
THEOREM ParsersDecide == Spec => []DecisionsAgree
<1>1. ResolutionInv => DecisionsAgree
  BY InvAgrees DEF ResolutionInv
<1>. QED BY <1>1, ResolutionInvariant, PTL

\* doh_parser.c: the table of answers holds the addresses that were told, each in
\* its place, and the question is the one that was asked, within its 255 octets
THEOREM TableIsFaithful == Spec => []TableFaithful
<1>1. ResolutionInv => TableFaithful
  BY InvAgrees DEF ResolutionInv
<1>. QED BY <1>1, ResolutionInvariant, PTL
=============================================================================
