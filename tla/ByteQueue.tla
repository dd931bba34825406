----------------------------- MODULE ByteQueue -----------------------------
(***************************************************************************)
(* The byte buffer of utils/buffer as the rest of the proxy sees it.  A    *)
(* queue is a record: bytes, what was written and not yet read, and skip,  *)
(* the distance of the read pointer from the start of the memory.  A       *)
(* partial read moves the read pointer and gives no room back, so skip     *)
(* counts against the capacity until the queue empties or is compacted.    *)
(***************************************************************************)
EXTENDS Naturals, Sequences

CONSTANT Capacity  \* b->limit - b->data, the size given to buffer_init

ASSUME CapacityAssumption == Capacity \in Nat \ {0}

EmptyQueue == [skip |-> 0, bytes |-> <<>>]

Length(q) == Len(q.bytes)

CanRead(q) == Length(q) > 0

\* Mutant: the bytes already read are counted as free
Room_ForgetsSkip(q) == Capacity - Length(q)

Room(q) == Capacity - (q.skip + Length(q))

CanWrite(q) == Room(q) > 0

\* buffer_write_ptr, a copy of at most Room(q) bytes, buffer_write_adv
WriteAdv(q, s) == [skip |-> q.skip, bytes |-> q.bytes \o s]

\* Mutant: a partial read takes everything
ReadAdv_DropsRest(q, n) == EmptyQueue

\* buffer_read_adv: a queue that empties is compacted at once
ReadAdv(q, n) ==
  IF n = Length(q) THEN EmptyQueue
  ELSE [skip |-> q.skip + n, bytes |-> SubSeq(q.bytes, n + 1, Length(q))]

Compact(q) == [skip |-> 0, bytes |-> q.bytes]

\* What one call can add or take: at most a buffer full of bytes
Chunk(Byte) == UNION {[1 .. n -> Byte] : n \in 0 .. Capacity}

\* The queues that fit a buffer of this capacity
QueueOf(Byte) ==
  {q \in [skip : Nat, bytes : Seq(Byte)] : q.skip + Len(q.bytes) <= Capacity}
=============================================================================
