------------------------------- MODULE MCProxy -------------------------------
(***************************************************************************)
(* TLC instances of Proxy.                                                 *)
(***************************************************************************)
EXTENDS ProxyProperties, TLC

CONSTANTS c1, c2, c3

\* Any two connections, or three of which all name their hosts
TwoOrThree ==
  {[ip |-> i, domain |-> 2 - i] : i \in 0 .. 2} \union
  {[ip |-> 1, domain |-> 0], [ip |-> 0, domain |-> 1], [ip |-> 0, domain |-> 3]}

TwoDomains == {[ip |-> 0, domain |-> 1], [ip |-> 0, domain |-> 2]}

\* A relay with data on its way to both sides or to none
FewInterests ==
  {[client |-> {"READ", "WRITE"}, origin |-> {"READ", "WRITE"}],
   [client |-> {"READ"}, origin |-> {"READ"}]}

Symmetry == Permutations(Clients)
=============================================================================
