------------------------------ MODULE MCModbus ------------------------------
(* Instances of Modbus for TLC: a few frames, two registers. *)
EXTENDS Modbus

Frame(kind, to, first, count, value, len) ==
  [kind |-> kind, to |-> to, first |-> first, count |-> count, value |-> value,
   len |-> len, early |-> len, paced |-> FALSE]
Paced(f) == [f EXCEPT !.paced = TRUE]

Write == Frame("write", "us", 0, 2, 1, 3)
WriteTooFar == Frame("write", "us", 1, 2, 2, 3)
Read == Frame("read", "us", 0, 2, 0, 2)
\* A read request whose address has a high byte of 252 or more: its start is dropped
\* as that of a response too long for the buffer.
FarRead == [Frame("read", "us", 1, 1, 0, 4) EXCEPT !.early = 3]
ForeignResponse == Frame("response", "other", 0, 1, 3, 2)
\* A request longer than the buffer.
Overlong == [Frame("write", "other", 0, 1, 3, 6) EXCEPT !.early = 4]

\* Some requests wait for a quiet line, others follow closely on the frames
\* before them, while responses of other servers come at any time.
MixedFrames1 == {WriteTooFar, Paced(Read), FarRead, ForeignResponse}
MixedFrames == {Paced(WriteTooFar), Write, FarRead, ForeignResponse}
MixedFrames3 == {Paced(WriteTooFar), Paced(Read), Write, FarRead}
MixedFrames4 == {Paced(WriteTooFar), Read, Overlong, ForeignResponse}
FarFrames == {Paced(FarRead)}
SomeFrames == {Write, Read}
=============================================================================
