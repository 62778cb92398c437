----------------------------- MODULE QueueSpec ------------------------------
(* What src/queue promises: a bounded first-in first-out buffer.           *)
EXTENDS Naturals, Sequences

CONSTANTS Size, Pointers

VARIABLES
  contents,  \* the queued pointers, the oldest first
  out        \* the pointer the last successful pop returned

vars == <<contents, out>>

Init == contents = << >>

Push ==
  /\ Len(contents) < Size
  /\ \E m \in Pointers : contents' = Append(contents, m)
  /\ UNCHANGED out

Pop ==
  /\ contents # << >>
  /\ out' = Head(contents)
  /\ contents' = Tail(contents)

Spec == Init /\ [][Push \/ Pop]_vars
=============================================================================
