------------------------------- MODULE Logger -------------------------------
(***************************************************************************)
(* The logger of logger.c on one of its two streams: a line is written at  *)
(* once if the destination takes it, and waits in the stream's buffer for  *)
(* the selector otherwise.  A line is named by its number and consists of  *)
(* LineLength bytes.                                                       *)
(*                                                                         *)
(* The destination has room for so many bytes until its reader makes more. *)
(* A pipe takes the whole of a write or nothing, and is found writable     *)
(* only when it has room for a buffer; a terminal or a socket may take a   *)
(* part.                                                                   *)
(*                                                                         *)
(* The operators commented "Mutant" are plausible bugs that nothing uses.  *)
(***************************************************************************)
EXTENDS ByteQueue

CONSTANTS
  Streams,     \* "stdout", "stderr"
  Lines,       \* bound on the lines logged
  LineLength,  \* bytes of a line
  PipeSize,    \* bytes the destination holds
  Destinations \* which kinds of destination there are: "pipe", "terminal"

ASSUME LoggerAssumption ==
  /\ Streams \subseteq {"stdout", "stderr"}
  /\ Lines \in Nat
  /\ LineLength \in 1 .. Capacity
  /\ PipeSize \in Nat /\ PipeSize >= Capacity
  /\ Destinations \subseteq {"pipe", "terminal"}

VARIABLES
  stream,   \* which stream this is
  dest,     \* and where it goes
  buff,     \* stdout_buffer or stderr_buffer
  watched,  \* its descriptor's interest is OP_WRITE
  ready,    \* its bit in the snapshot of the selector, until it is visited
  room,     \* what the destination can take
  out,      \* what it took
  logged,   \* how many lines have been logged
  waited    \* those of them that were put into the buffer

vars == <<stream, dest, buff, watched, ready, room, out, logged, waited>>

Line(n) == [i \in 1 .. LineLength |-> [line |-> n, at |-> i]]

\* The destination takes so many of n bytes
Taken(n) == IF dest = "terminal" THEN 1 .. (IF n < room THEN n ELSE room)
            ELSE IF n <= room THEN {n} ELSE {}

Writes(bytes, n) ==
  /\ out' = out \o SubSeq(bytes, 1, n)
  /\ room' = room - n

\* Mutant: as much of the line waits as fits
Wait_Fitting(n) ==
  LET fits == IF LineLength <= Room(buff) THEN LineLength ELSE Room(buff) IN
  /\ buff' = WriteAdv(buff, SubSeq(Line(n), 1, fits))
  /\ waited' = waited \union {n}
  /\ watched' = TRUE

\* EAGAIN: the line waits if all of it fits, and is dropped otherwise
Wait(n) ==
  \/ /\ LineLength <= Room(buff)
     /\ buff' = WriteAdv(buff, Line(n))
     /\ waited' = waited \union {n}
     /\ watched' = TRUE
  \/ /\ LineLength > Room(buff)
     /\ UNCHANGED <<buff, waited, watched>>

\* What the destination does not take of a direct write is dropped.  The
\* callbacks that log run after the logger's own, whose descriptors are 1 and 2:
\* only the listening socket, which has the closed standard input's number, is
\* visited before, and it reports its errors on stderr.
logger_log ==
  /\ logged < Lines
  /\ ready => stream = "stderr"
  /\ logged' = logged + 1
  /\ \/ \E n \in Taken(LineLength) :
          Writes(Line(logged + 1), n) /\ UNCHANGED <<buff, watched, waited>>
     \/ /\ Taken(LineLength) = {}
        /\ Wait(logged + 1)
        /\ UNCHANGED <<out, room>>
  /\ UNCHANGED <<stream, dest, ready>>

\* pselect() finds the descriptor writable
Select ==
  /\ watched /\ ~ready
  /\ room >= (IF dest = "terminal" THEN 1 ELSE Capacity)
  /\ ready' = TRUE
  /\ UNCHANGED <<stream, dest, buff, watched, room, out, logged, waited>>

\* Mutant: the rest of the buffer is forgotten after a write of a part
Advance_All(n) == EmptyQueue

Advance(n) == ReadAdv(buff, n)

\* Mutant: one write is taken to be enough
StillWatched_Once(rest) == FALSE

StillWatched(rest) == CanRead(rest)

\* After an error, EAGAIN included, the descriptor is not watched any more
logger_on_write_ready ==
  /\ ready
  /\ ready' = FALSE
  /\ \/ \E n \in Taken(Length(buff)) :
          /\ Writes(buff.bytes, n)
          /\ buff' = Advance(n)
          /\ watched' = StillWatched(buff')
     \/ /\ Taken(Length(buff)) = {}
        /\ watched' = FALSE
        /\ UNCHANGED <<buff, out, room>>
  /\ UNCHANGED <<stream, dest, logged, waited>>

\* The destination's reader takes a byte
ReaderReads ==
  /\ room < PipeSize
  /\ room' = room + 1
  /\ UNCHANGED <<stream, dest, buff, watched, ready, out, logged, waited>>

\* init_logger
Init ==
  /\ stream \in Streams
  /\ dest \in Destinations
  /\ buff = EmptyQueue
  /\ watched = FALSE
  /\ ready = FALSE
  /\ room = PipeSize
  /\ out = <<>>
  /\ logged = 0
  /\ waited = {}

Next == logger_log \/ Select \/ logger_on_write_ready \/ ReaderReads

Spec == Init /\ [][Next]_vars

\* The selector's loop goes on, and someone reads the log
FairSpec ==
  Spec /\ WF_vars(Select) /\ WF_vars(logger_on_write_ready) /\ WF_vars(ReaderReads)

-----------------------------------------------------------------------------
\* httpd.8, REGISTRO DE ACCESO: one connection per line.  On a pipe a line is never
\* cut, by its own end or by another line.  (A terminal may: the rest of a write of
\* which it takes a part is dropped.)
OnePerLine ==
  dest = "pipe" =>
    /\ Len(out) % LineLength = 0
    /\ \A k \in 0 .. (Len(out) \div LineLength) - 1 :
         SubSeq(out, k * LineLength + 1, (k + 1) * LineLength) =
           Line(out[k * LineLength + 1].line)

\* A line is logged once, and those that had to wait come out in their order,
\* although others overtake them.
WaitedInOrder ==
  LET all == out \o buff.bytes
      places == {i \in 1 .. Len(all) : all[i].line \in waited}
  IN /\ \A n \in waited, at \in 1 .. LineLength : \E i \in places : all[i] = [line |-> n, at |-> at]
     /\ \A i, j \in places :
          i < j => \/ all[i].line < all[j].line
                   \/ all[i].line = all[j].line /\ all[i].at < all[j].at

\* What waits for stdout is written, as long as somebody reads it.  (The descriptor
\* is given up after any error, EAGAIN included; what is logged on stderr between
\* pselect() and the visit can cause one, and nothing is on stdout.)
EventuallyWritten ==
  \A n \in 1 .. Lines :
    stream = "stdout" /\ n \in waited ~> \E i \in 1 .. Len(out) : out[i].line = n
=============================================================================
