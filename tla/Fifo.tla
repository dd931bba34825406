-------------------------------- MODULE Fifo --------------------------------
(***************************************************************************)
(* What utils/buffer promises its users: a bounded first-in first-out      *)
(* queue of bytes.  q is the queue and out the bytes last taken from it.   *)
(***************************************************************************)
EXTENDS ByteQueue

CONSTANT Byte

VARIABLES q, out

vars == <<q, out>>

Init == q = EmptyQueue /\ out = <<>>

Put(s) ==
  /\ Len(s) <= Room(q)
  /\ q' = WriteAdv(q, s)
  /\ UNCHANGED out

Take(n) ==
  /\ n <= Length(q)
  /\ out' = SubSeq(q.bytes, 1, n)
  /\ q' = ReadAdv(q, n)

Squeeze ==
  /\ q' = Compact(q)
  /\ UNCHANGED out

Discard ==
  /\ q' = EmptyQueue
  /\ UNCHANGED out

Next ==
  \/ \E s \in Chunk(Byte) : Put(s)
  \/ \E n \in 0 .. Capacity : Take(n)
  \/ Squeeze
  \/ Discard

Spec == Init /\ [][Next]_vars
=============================================================================
