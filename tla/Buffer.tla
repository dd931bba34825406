------------------------------- MODULE Buffer -------------------------------
(***************************************************************************)
(* utils/buffer/buffer.c: a piece of memory with a read and a write        *)
(* pointer.  Pointers are offsets from b->data, the limit is Capacity, and *)
(* mem is the memory itself, so that compaction really moves bytes.  out   *)
(* is what the caller last copied out between buffer_read_ptr and          *)
(* buffer_read_adv, or the byte buffer_read returned.                      *)
(***************************************************************************)
EXTENDS ByteQueue

CONSTANT Byte

VARIABLES mem, read, write, out

vars == <<mem, read, write, out>>

Address == 0 .. Capacity - 1

\* buffer_init over memory that malloc leaves uninitialised
Init ==
  /\ mem \in [Address -> Byte]
  /\ read = 0
  /\ write = 0
  /\ out = <<>>

\* The bytes of memory m from address r up to w
Slice(m, r, w) == [i \in 1 .. w - r |-> m[r + (i - 1)]]

\* The bytes that buffer_read_ptr exposes
Contents == Slice(mem, read, write)

\* buffer_write_ptr, the caller's copy of the bytes s, buffer_write_adv
Fill(s) ==
  /\ Len(s) <= Capacity - write
  /\ mem' = [a \in Address |->
               IF a \in write .. write + Len(s) - 1 THEN s[a - write + 1] ELSE mem[a]]
  /\ write' = write + Len(s)
  /\ UNCHANGED <<read, out>>

\* The pointers after buffer_read_adv(b, n): an emptied buffer is compacted
Advance(n) ==
  IF read + n = write
    THEN read' = 0 /\ write' = 0
    ELSE read' = read + n /\ write' = write

\* buffer_read_ptr, the caller's copy of n bytes, buffer_read_adv
Drain(n) ==
  /\ n <= write - read
  /\ out' = SubSeq(Contents, 1, n)
  /\ Advance(n)
  /\ UNCHANGED mem

\* buffer_read: one byte, and 0 (here: no byte) from an empty buffer
ReadByte ==
  IF write > read
    THEN /\ out' = <<mem[read]>>
         /\ Advance(1)
         /\ UNCHANGED mem
    ELSE out' = <<>> /\ UNCHANGED <<mem, read, write>>

\* buffer_write: one byte, dropped when the buffer is full
WriteByte(c) ==
  IF Capacity > write
    THEN /\ mem' = [mem EXCEPT ![write] = c]
         /\ write' = write + 1
         /\ UNCHANGED <<read, out>>
    ELSE UNCHANGED vars

\* Mutant: the pointers are moved and the bytes are not
CompactMemory_KeepsMemory ==
  /\ read' = 0
  /\ write' = write - read
  /\ UNCHANGED <<mem, out>>

\* buffer_compact: memmove to the start of the memory
CompactMemory ==
  /\ mem' = [a \in Address |-> IF a < write - read THEN mem[read + a] ELSE mem[a]]
  /\ read' = 0
  /\ write' = write - read
  /\ UNCHANGED out

Reset ==
  /\ read' = 0
  /\ write' = 0
  /\ UNCHANGED <<mem, out>>

Next ==
  \/ \E s \in Chunk(Byte) : Fill(s)
  \/ \E n \in 0 .. Capacity : Drain(n)
  \/ ReadByte
  \/ \E c \in Byte : WriteByte(c)
  \/ CompactMemory
  \/ Reset

Spec == Init /\ [][Next]_vars

-----------------------------------------------------------------------------

\* Every variable has its type: the pointers are offsets into the memory.
TypeOK ==
  /\ mem \in [Address -> Byte]
  /\ read \in Nat
  /\ write \in Nat
  /\ out \in Seq(Byte)

\* The invariant buffer.h documents and buffer.c asserts: R <= W <= limit.
PointersOrdered == read <= write /\ write <= Capacity

\* An empty buffer has all its capacity back.  The callers rely on it: they
\* watch a descriptor for reading only while its buffer can be written, so a
\* buffer neither readable nor writable would stop the connection for good.
EmptyIsCompact == read = write => read = 0

Inv == TypeOK /\ PointersOrdered /\ EmptyIsCompact

\* The buffer behaves as the bounded queue its users are written against: what
\* is taken is what was put, in order, whatever compactions happen between.
Queue == [skip |-> read, bytes |-> Contents]

Abstract == INSTANCE Fifo WITH q <- Queue

RefinesFifo == Abstract!Spec
=============================================================================
