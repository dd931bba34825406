---------------------------- MODULE BufferProofs ----------------------------
(***************************************************************************)
(* Buffer keeps its invariant and implements Fifo, for every capacity and  *)
(* every set of bytes.                                                     *)
(***************************************************************************)
EXTENDS Buffer, TLAPS, SequenceTheorems

\* What Fill is given is a sequence of bytes that fits the memory
LEMMA ChunkSeq ==
  ASSUME NEW s \in Chunk(Byte)
  PROVE  s \in Seq(Byte) /\ Len(s) <= Capacity
<1>1. PICK n \in 0 .. Capacity : s \in [1 .. n -> Byte]
  BY DEF Chunk
<1>2. n \in Nat
  BY <1>1, CapacityAssumption
<1>. QED BY <1>1, <1>2, CapacityAssumption

\* A slice of the memory is a sequence of bytes
LEMMA SliceSeq ==
  ASSUME NEW m \in [Address -> Byte], NEW r \in Nat, NEW w \in Nat,
         r <= w, w <= Capacity
  PROVE  /\ Slice(m, r, w) \in Seq(Byte)
         /\ Len(Slice(m, r, w)) = w - r
         /\ \A i \in 1 .. w - r : Slice(m, r, w)[i] = m[r + (i - 1)]
<1>1. w - r \in Nat
  OBVIOUS
<1>2. Slice(m, r, w) \in [1 .. w - r -> Byte]
  BY CapacityAssumption DEF Slice, Address
<1>. QED BY <1>1, <1>2 DEF Slice

\* The contents are the bytes between the pointers
LEMMA ContentsSeq ==
  ASSUME Inv
  PROVE  Contents \in Seq(Byte) /\ Len(Contents) = write - read
BY SliceSeq DEF Inv, TypeOK, PointersOrdered, Contents

\* buffer_init establishes the invariant
LEMMA InitInv == Init => Inv
BY CapacityAssumption DEF Init, Inv, TypeOK, PointersOrdered, EmptyIsCompact

\* Every call keeps the invariant
LEMMA NextInv == Inv /\ [Next]_vars => Inv'
<1> SUFFICES ASSUME Inv, [Next]_vars PROVE Inv'
  OBVIOUS
<1> USE CapacityAssumption DEF Inv, TypeOK, PointersOrdered, EmptyIsCompact, Address
<1>1. CASE \E s \in Chunk(Byte) : Fill(s)
  <2>1. PICK s \in Chunk(Byte) : Fill(s)
    BY <1>1
  <2>2. s \in Seq(Byte)
    BY ChunkSeq
  <2>3. mem' \in [Address -> Byte]
    BY <2>1, <2>2 DEF Fill
  <2>. QED BY <2>1, <2>2, <2>3 DEF Fill
<1>2. CASE \E n \in 0 .. Capacity : Drain(n)
  <2>1. PICK n \in 0 .. Capacity : Drain(n)
    BY <1>2
  <2>2. out' \in Seq(Byte)
    BY <2>1, ContentsSeq DEF Drain
  <2>. QED BY <2>1, <2>2 DEF Drain, Advance
<1>3. CASE ReadByte
  <2>1. CASE write > read
    <3>1. mem[read] \in Byte
      BY <2>1
    <3>. QED BY <1>3, <2>1, <3>1 DEF ReadByte, Advance
  <2>2. CASE ~(write > read)
    BY <1>3, <2>2 DEF ReadByte
  <2>. QED BY <2>1, <2>2
<1>4. CASE \E c \in Byte : WriteByte(c)
  BY <1>4 DEF WriteByte, vars
<1>5. CASE CompactMemory
  <2>1. mem' \in [Address -> Byte]
    BY <1>5 DEF CompactMemory
  <2>. QED BY <1>5, <2>1 DEF CompactMemory
<1>6. CASE Reset
  BY <1>6 DEF Reset
<1>7. CASE UNCHANGED vars
  BY <1>7 DEF vars
<1>. QED BY <1>1, <1>2, <1>3, <1>4, <1>5, <1>6, <1>7 DEF Next

\* Whatever calls are made, buffer.c's pointers stay ordered offsets into its
\* memory, and an empty buffer has all its room.
THEOREM BufferInvariant == Spec => []Inv
BY InitInv, NextInv, PTL DEF Spec

-----------------------------------------------------------------------------
(* Implementation of the abstract queue *)

\* An element of a concatenation is one of its first part or of its second
LEMMA ConcatAt ==
  ASSUME NEW s \in Seq(Byte), NEW t \in Seq(Byte)
  PROVE  /\ s \o t \in Seq(Byte)
         /\ Len(s \o t) = Len(s) + Len(t)
         /\ \A i \in 1 .. Len(s) + Len(t) :
              (s \o t)[i] = IF i <= Len(s) THEN s[i] ELSE t[i - Len(s)]
BY ConcatProperties

\* The first element of a sequence, as a sequence of one
LEMMA FirstOfSeq ==
  ASSUME NEW s \in Seq(Byte), Len(s) >= 1
  PROVE  SubSeq(s, 1, 1) = <<s[1]>>
<1> DEFINE t == SubSeq(s, 1, 1)
<1> DEFINE u == <<s[1]>>
<1>1. s[1] \in Byte
  OBVIOUS
<1>2. t \in Seq(Byte) /\ Len(t) = 1 /\ t[1] = s[1]
  BY SubSeqProperties
<1>3. u \in Seq(Byte) /\ Len(u) = 1 /\ u[1] = s[1]
  BY <1>1
<1> HIDE DEF t, u
<1>4. \A i \in 1 .. Len(t) : t[i] = u[i]
  BY <1>2, <1>3
<1>5. t = u
  BY <1>2, <1>3, <1>4, SeqEqual
<1>. QED BY <1>5 DEF t, u

\* buffer_init leaves the abstract queue empty
LEMMA InitRefines == Init => Abstract!Init
<1> SUFFICES ASSUME Init PROVE Abstract!Init
  OBVIOUS
<1>1. Contents = <<>>
  BY DEF Init, Contents, Slice
<1>. QED BY <1>1 DEF Init, Queue, Abstract!Init, Abstract!EmptyQueue

\* What buffer_write_ptr and buffer_write_adv add is put into the queue
LEMMA FillRefines ==
  ASSUME Inv, Inv', NEW s \in Seq(Byte), Fill(s)
  PROVE  Abstract!Put(s)
<1> USE CapacityAssumption DEF Inv, TypeOK, PointersOrdered
<1>1. Contents' = Contents \o s
  <2>0. /\ write' = write + Len(s) /\ write' <= Capacity /\ read' = read
        /\ write' \in Nat /\ write' - read \in Nat /\ write - read \in Nat
        /\ mem' \in [Address -> Byte]
    BY DEF Fill
  <2>1. Slice(mem', read, write') \in Seq(Byte) /\ Len(Slice(mem', read, write')) = write' - read
    BY <2>0, SliceSeq
  <2>2. Slice(mem, read, write) \in Seq(Byte) /\ Len(Slice(mem, read, write)) = write - read
    BY SliceSeq
  <2>3. /\ Slice(mem, read, write) \o s \in Seq(Byte)
        /\ Len(Slice(mem, read, write) \o s) = (write - read) + Len(s)
        /\ \A i \in 1 .. (write - read) + Len(s) : (Slice(mem, read, write) \o s)[i] =
             IF i <= write - read THEN Slice(mem, read, write)[i] ELSE s[i - (write - read)]
    <3> DEFINE c == Slice(mem, read, write)
    <3>1. c \in Seq(Byte) /\ Len(c) = write - read
      BY <2>2
    <3> HIDE DEF c
    <3>2. /\ c \o s \in Seq(Byte)
          /\ Len(c \o s) = Len(c) + Len(s)
          /\ \A i \in 1 .. Len(c) + Len(s) :
               (c \o s)[i] = IF i <= Len(c) THEN c[i] ELSE s[i - Len(c)]
      BY <3>1, ConcatAt
    <3>3. /\ c \o s \in Seq(Byte)
          /\ Len(c \o s) = (write - read) + Len(s)
          /\ \A i \in 1 .. (write - read) + Len(s) :
               (c \o s)[i] = IF i <= write - read THEN c[i] ELSE s[i - (write - read)]
      BY <3>1, <3>2
    <3>. QED BY <3>3 DEF c
  <2>4. ASSUME NEW i \in 1 .. write' - read
        PROVE  Slice(mem', read, write')[i] = (Slice(mem, read, write) \o s)[i]
    <3>1. Slice(mem', read, write')[i] = mem'[read + (i - 1)]
      BY DEF Slice
    <3>2. CASE i <= write - read
      <4>1. mem'[read + (i - 1)] = mem[read + (i - 1)]
        BY <2>0, <3>2 DEF Fill, Address
      <4>2. Slice(mem, read, write)[i] = mem[read + (i - 1)]
        BY <2>0, <3>2 DEF Slice
      <4>. QED BY <2>0, <2>3, <3>1, <3>2, <4>1, <4>2
    <3>3. CASE ~(i <= write - read)
      <4>1. mem'[read + (i - 1)] = s[i - (write - read)]
        BY <2>0, <3>3 DEF Fill, Address
      <4>. QED BY <2>0, <2>3, <3>1, <3>3, <4>1
    <3>. QED BY <3>2, <3>3
  <2>5. Slice(mem', read, write') = Slice(mem, read, write) \o s
    <3>1. Len(Slice(mem', read, write')) = Len(Slice(mem, read, write) \o s)
      BY <2>0, <2>1, <2>3
    <3>. QED BY <2>1, <2>3, <2>4, <3>1, SeqEqual
  <2>. QED BY <2>0, <2>5 DEF Contents
<1>2. Len(Contents) = write - read
  BY ContentsSeq
<1>3. Len(s) <= Capacity - (read + (write - read))
  BY DEF Fill
<1>. QED BY <1>1, <1>2, <1>3 DEF Fill, Queue, Abstract!Put, Abstract!Room, Abstract!Length, Abstract!WriteAdv

\* The pointers Advance leaves, and nothing moved in memory: what is left of the
\* contents is their tail
LEMMA AdvanceRefines ==
  ASSUME Inv, Inv', NEW n \in Nat, n <= write - read, Advance(n), UNCHANGED mem
  PROVE  Queue' = Abstract!ReadAdv(Queue, n)
<1> USE CapacityAssumption DEF Inv, TypeOK, PointersOrdered
<1>1. Contents \in Seq(Byte) /\ Len(Contents) = write - read
  BY ContentsSeq
<1>2. CASE read + n = write
  <2>1. read' = 0 /\ Contents' = <<>>
    BY <1>2 DEF Advance, Contents, Slice
  <2>. QED BY <1>1, <1>2, <2>1
       DEF Queue, Abstract!ReadAdv, Abstract!Length, Abstract!EmptyQueue
<1>3. CASE read + n # write
  <2>1. /\ read' = read + n /\ write' = write /\ mem' = mem
        /\ read + n \in Nat /\ read + n <= write
    BY <1>3 DEF Advance
  <2>2. /\ Slice(mem, read + n, write) \in Seq(Byte)
        /\ Len(Slice(mem, read + n, write)) = write - (read + n)
    BY SliceSeq, <2>1
  <2>3. /\ SubSeq(Contents, n + 1, write - read) \in Seq(Byte)
        /\ Len(SubSeq(Contents, n + 1, write - read)) = write - (read + n)
        /\ \A i \in 1 .. write - (read + n) :
             SubSeq(Contents, n + 1, write - read)[i] = Contents[n + i]
    BY <1>1, <2>1
  <2>4. ASSUME NEW i \in 1 .. write - (read + n)
        PROVE  Slice(mem, read + n, write)[i] = SubSeq(Contents, n + 1, write - read)[i]
    <3>1. Slice(mem, read + n, write)[i] = mem[read + n + (i - 1)]
      BY DEF Slice
    <3>2. Contents[n + i] = mem[read + (n + i - 1)]
      BY <2>1 DEF Contents, Slice
    <3>. QED BY <2>1, <2>3, <3>1, <3>2
  <2>5. Slice(mem, read + n, write) = SubSeq(Contents, n + 1, write - read)
    BY <2>2, <2>3, <2>4, SeqEqual
  <2>6. Contents' = SubSeq(Contents, n + 1, write - read)
    BY <2>1, <2>5 DEF Contents
  <2>7. n # Len(Contents)
    BY <1>1, <1>3
  <2>8. Abstract!ReadAdv(Queue, n) =
          [skip |-> read + n, bytes |-> SubSeq(Contents, n + 1, Len(Contents))]
    BY <2>7 DEF Queue, Abstract!ReadAdv, Abstract!Length
  <2>. QED BY <1>1, <2>1, <2>6, <2>8 DEF Queue
<1>. QED BY <1>2, <1>3

\* What buffer_read_ptr shows and buffer_read_adv removes is taken from it
LEMMA DrainRefines ==
  ASSUME Inv, Inv', NEW n \in Nat, Drain(n)
  PROVE  Abstract!Take(n)
BY ContentsSeq, AdvanceRefines, CapacityAssumption
DEF Drain, Queue, Abstract!Take, Abstract!Length, Inv, TypeOK, PointersOrdered

\* buffer_read takes one byte, or none
LEMMA ReadByteRefines ==
  ASSUME Inv, Inv', ReadByte
  PROVE  \E n \in 0 .. 1 : Abstract!Take(n)
<1> USE CapacityAssumption DEF Inv, TypeOK, PointersOrdered
<1>1. Contents \in Seq(Byte) /\ Len(Contents) = write - read
  BY ContentsSeq
<1>2. CASE write > read
  <2>1. Queue' = Abstract!ReadAdv(Queue, 1)
    BY <1>2, AdvanceRefines DEF ReadByte
  <2>2. Contents[1] = mem[read]
    BY <1>2 DEF Contents, Slice
  <2>3. SubSeq(Contents, 1, 1) = <<Contents[1]>>
    BY <1>1, <1>2, FirstOfSeq
  <2>4. out' = SubSeq(Contents, 1, 1)
    BY <1>2, <2>2, <2>3 DEF ReadByte
  <2>5. Abstract!Take(1)
    BY <1>1, <1>2, <2>1, <2>4 DEF Queue, Abstract!Take, Abstract!Length
  <2>. QED BY <2>5
<1>3. CASE ~(write > read)
  <2>1. Contents = <<>> /\ read = 0
    BY <1>1, <1>3 DEF EmptyIsCompact
  <2>2. Contents' = <<>> /\ read' = 0 /\ out' = <<>>
    BY <1>3, <2>1 DEF ReadByte, Contents
  <2>3. Abstract!Take(0)
    BY <2>1, <2>2 DEF Queue, Abstract!Take, Abstract!Length, Abstract!ReadAdv, Abstract!EmptyQueue
  <2>. QED BY <2>3
<1>. QED BY <1>2, <1>3

\* buffer_write puts one byte, or nothing
LEMMA WriteByteRefines ==
  ASSUME Inv, Inv', NEW c \in Byte, WriteByte(c)
  PROVE  Abstract!Put(<<c>>) \/ UNCHANGED <<Queue, out>>
<1>1. CASE Capacity > write
  <2>1. <<c>> \in Seq(Byte) /\ Len(<<c>>) = 1 /\ <<c>>[1] = c
    OBVIOUS
  <2>2. \A a \in Address : (a \in write .. write + 1 - 1 <=> a = write)
    BY DEF Inv, TypeOK, Address
  <2>3. mem' = [a \in Address |->
                  IF a \in write .. write + Len(<<c>>) - 1 THEN <<c>>[a - write + 1] ELSE mem[a]]
    BY <1>1, <2>1, <2>2 DEF WriteByte, Inv, TypeOK
  <2>4. Fill(<<c>>)
    BY <1>1, <2>1, <2>3, CapacityAssumption DEF WriteByte, Fill, Inv, TypeOK
  <2>. QED BY <2>1, <2>4, FillRefines
<1>2. CASE ~(Capacity > write)
  BY <1>2 DEF WriteByte, vars, Queue, Contents
<1>. QED BY <1>1, <1>2

\* buffer_compact moves the contents and changes none of them
LEMMA CompactRefines ==
  ASSUME Inv, Inv', CompactMemory
  PROVE  Abstract!Squeeze
<1> USE CapacityAssumption DEF Inv, TypeOK, PointersOrdered
<1>1. Contents' = Contents
  <2>0. /\ read' = 0 /\ write' = write - read
        /\ write - read \in Nat /\ 0 <= write - read /\ write - read <= Capacity
        /\ mem' \in [Address -> Byte]
    BY DEF CompactMemory
  <2>1. Slice(mem', 0, write - read) \in Seq(Byte) /\ Len(Slice(mem', 0, write - read)) = write - read
    <3>1. (write - read) - 0 = write - read
      OBVIOUS
    <3>. QED BY <2>0, <3>1, SliceSeq
  <2>2. Slice(mem, read, write) \in Seq(Byte) /\ Len(Slice(mem, read, write)) = write - read
    BY SliceSeq
  <2>3. ASSUME NEW i \in 1 .. write - read
        PROVE  Slice(mem', 0, write - read)[i] = Slice(mem, read, write)[i]
    <3>1. mem'[0 + (i - 1)] = mem[read + (i - 1)]
      BY <2>0 DEF CompactMemory, Address
    <3>2. Slice(mem', 0, write - read)[i] = mem'[0 + (i - 1)]
      BY <2>0 DEF Slice
    <3>. QED BY <3>1, <3>2 DEF Slice
  <2>4. Slice(mem', 0, write - read) = Slice(mem, read, write)
    BY <2>1, <2>2, <2>3, SeqEqual
  <2>. QED BY <2>0, <2>4 DEF Contents
<1>. QED BY <1>1 DEF CompactMemory, Queue, Abstract!Squeeze, Abstract!Compact

\* Every call is a step of the abstract queue, or leaves it as it is
LEMMA NextRefines ==
  Inv /\ Inv' /\ [Next]_vars => [Abstract!Next]_(Abstract!vars)
<1> SUFFICES ASSUME Inv, Inv', [Next]_vars
             PROVE  Abstract!Next \/ UNCHANGED <<Queue, out>>
  BY DEF Abstract!vars
<1> USE CapacityAssumption
<1>1. CASE \E s \in Chunk(Byte) : Fill(s)
  BY <1>1, ChunkSeq, FillRefines DEF Abstract!Next, Chunk, Abstract!Chunk
<1>2. CASE \E n \in 0 .. Capacity : Drain(n)
  BY <1>2, DrainRefines DEF Abstract!Next
<1>3. CASE ReadByte
  BY <1>3, ReadByteRefines DEF Abstract!Next
<1>4. CASE \E c \in Byte : WriteByte(c)
  <2>1. PICK c \in Byte : WriteByte(c)
    BY <1>4
  <2>2. <<c>> \in Abstract!Chunk(Byte)
    BY DEF Abstract!Chunk
  <2>. QED BY <2>1, <2>2, WriteByteRefines DEF Abstract!Next
<1>5. CASE CompactMemory
  BY <1>5, CompactRefines DEF Abstract!Next
<1>6. CASE Reset
  BY <1>6 DEF Reset, Queue, Contents, Slice, Abstract!Next, Abstract!Discard, Abstract!EmptyQueue
<1>7. CASE UNCHANGED vars
  BY <1>7 DEF vars, Queue, Contents
<1>. QED BY <1>1, <1>2, <1>3, <1>4, <1>5, <1>6, <1>7 DEF Next

\* buffer.c implements the bounded queue its users are written against: each of
\* its calls is a put, a take, a squeeze or a discard of the whole contents.
THEOREM BufferRefinesFifo == Spec => RefinesFifo
BY BufferInvariant, InitRefines, NextRefines, PTL DEF Spec, RefinesFifo, Abstract!Spec
=============================================================================
