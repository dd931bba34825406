---------------------------- MODULE MCConnection ----------------------------
(***************************************************************************)
(* TLC instances of Connection.                                            *)
(***************************************************************************)
EXTENDS ConnectionLifecycle

Request(host, connect, valid) == [host |-> host, connect |-> connect, valid |-> valid]

\* A host named by its address, and requests the parser rejects
AddressRequests ==
  {Request("ip", FALSE, TRUE), Request("ip", TRUE, TRUE), Request("ip", FALSE, FALSE)}

\* A host to be resolved
DomainRequests == {Request("domain", FALSE, TRUE), Request("domain", TRUE, TRUE)}

AllRequests == AddressRequests \union DomainRequests

\* One of each kind for the liveness properties
ProgressRequests == AddressRequests \union {Request("domain", FALSE, TRUE)}
=============================================================================
