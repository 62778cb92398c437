------------------------------ MODULE FifoSpec ------------------------------
(* What src/fifo promises: a bounded stream of bytes, written at one end and *)
(* read at the other, a chunk at a time.                                     *)
EXTENDS Naturals, Sequences, SequencesExt

CONSTANT Size

VARIABLES
  contents,  \* bytes written and not yet read, the oldest first
  out        \* the last chunk read

vars == <<contents, out>>

Init == contents = << >> /\ out = << >>

Write ==
  /\ IsStrictPrefix(contents, contents')
  /\ Len(contents') <= Size
  /\ UNCHANGED out

Read ==
  /\ contents # << >>
  /\ \E n \in 1 .. Len(contents) :
       /\ out' = SubSeq(contents, 1, n)
       /\ contents' = SubSeq(contents, n + 1, Len(contents))

Clear ==
  /\ contents' = << >>
  /\ UNCHANGED out

Spec == Init /\ [][Write \/ Read \/ Clear]_vars
=============================================================================
