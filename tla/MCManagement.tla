---------------------------- MODULE MCManagement ----------------------------
(***************************************************************************)
(* TLC instances of Management.                                            *)
(***************************************************************************)
EXTENDS Management

Option(type, method) == [type |-> type, method |-> method]

\* The gauge, the sum of two counters, a setting and two changes
SomeOptions == {Option(0, 1), Option(0, 4), Option(0, 5), Option(1, 1), Option(1, 2)}

ModifyOptions == {Option(1, 0), Option(1, 1), Option(1, 2)}

\* An end of each range, which lies outside the other, and one that a uint16_t takes
\* for another
SomeValues == {4, 1024, 65536 + 4}

Request(passphrase, type, method, value) ==
  [ver |-> 1, passphrase |-> passphrase, type |-> type, method |-> method,
   hi |-> value \div 256, lo |-> value % 256]

\* Requests that change nothing
Harmless ==
  {Request("wrong", 1, 2, 5), Request("right", 0, 1, 0), Request("right", 2, 0, 0)}

Changing == {Request("right", 1, 2, 5), Request("right", 0, 1, 0)}
=============================================================================
