---------------------------- MODULE MCResolution ----------------------------
(***************************************************************************)
(* A TLC instance of Resolution: request lines with each part at fault in  *)
(* turn, hosts of all kinds up to the limits and beyond them; heads with   *)
(* and without a reason phrase, names compressed and not.                  *)
(***************************************************************************)
EXTENDS Resolution, TLC

Chars(string) == [i \in 1 .. Len(string) |-> SubSeq(string, i, i)]

Spellings(strings) == {Chars(string) : string \in strings}

\* Nine characters are the limit of a method and of a host, five of a path
LineTexts ==
  [method |-> Spellings({"GET", "OPTIONS", "CONNECT", "", "G(", "ABCDEFGHI", "ABCDEFGHIJ"}),
   scheme |-> Spellings({"http://", "https"}),
   host |-> Spellings({"a", "ab.c", "ab.", "ab..c", ".", "", "abc.efgh", "abcdef", "abcd.fghi", "abcd.fghij",
                      "1.2", "[::1]", "[[::1x", "[1]", "["}),
   port |-> Spellings({"", "8", "0080", "9999", "12345", "70000", "123456", "8x"}),
   path |-> Spellings({"/", "?q", "/abc", "/abcd"}),
   version |-> Spellings({"HTTP/", "HTP"}),
   major |-> Spellings({"1", "", "10", "x", "1x"}),
   minor |-> Spellings({"0", "", "11", "x"}),
   end |-> Spellings({"\n", "\r"})]

TheIpv4Literal == {Chars("1.2")}
TheIpv6Literal == {Chars("::1")}

\* The printable characters, but for the grave accent, and the two that end a line
FromSpace == Chars(" !\"#$%&'()*+,-./0123456789:;<=>?@ABCDEFGHIJKLMNOPQRSTUVWXYZ[\\]^_")
FromSmallA == Chars("abcdefghijklmnopqrstuvwxyz{|}~")

AsciiCode ==
  [c \in {FromSpace[n] : n \in 1 .. 64} |-> 31 + CHOOSE n \in 1 .. 64 : FromSpace[n] = c] @@
  [c \in {FromSmallA[n] : n \in 1 .. 30} |-> 96 + CHOOSE n \in 1 .. 30 : FromSmallA[n] = c] @@
  ("\n" :> 10) @@ ("\r" :> 13)

Status(reason) ==
  <<"H", "T", "T", "P", "/", "digit", ".", "digit", " ", "digit", "digit", "digit", " ">>
    \o reason \o <<"CR", "LF">>

Field == <<"letter", ":", " ", "letter", "CR", "LF">>

TwoHeads ==
  {Status(<<"letter", "letter">>) \o Field \o <<"CR", "LF">>,
   Status(<<>>) \o Field \o Field \o <<"CR", "LF">>}

\* No reason phrase and no space for it, a version too long, no header
ThreeBadHeads ==
  {<<"H", "T", "T", "P", "/", "digit", ".", "digit", " ", "digit", "digit", "digit", "CR">>,
   <<"H", "T", "T", "P", "/", "digit", "digit", ".">>,
   Status(<<>>) \o <<"CR">>}

\* A label's octets are not mistaken for lengths, nor a pointer's for a label
AnswerNames == {<<192, 12>>, <<2, 0, 192, 0>>, <<1, 97, 192, 0>>}

Octets(n, first) == [i \in 1 .. n |-> (first + i) % 256]

SomeAddresses ==
  [A |-> {<<1, 28, 5, 0>>, <<0, 0, 192, 1>>}, AAAA |-> {Octets(16, 250)}]
=============================================================================
