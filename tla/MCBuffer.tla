------------------------------ MODULE MCBuffer ------------------------------
(***************************************************************************)
(* TLC instance of Buffer.                                                 *)
(***************************************************************************)
EXTENDS Buffer
=============================================================================
