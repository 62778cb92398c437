----------------------------- MODULE Scheduler ------------------------------
(***************************************************************************)
(* The scheduler of src/task as its users see it, which is what TaskSpec   *)
(* promises: the tasks to run, in order, and the tasks that wait for a     *)
(* timeout.  For modules whose handlers are steps of one main loop.        *)
(***************************************************************************)
EXTENDS Sequences, SequencesExt

\* A schedule s: the pending tasks, and those with a timeout.

Scheduled(s, t) == t \in ToSet(s.pend)

\* A pending task stays where it is; a waiting one waits no more.
Exec(s, t) ==
  IF Scheduled(s, t) THEN s
  ELSE [pend |-> Append(s.pend, t), timed |-> s.timed \ {t}]

\* A pending task is not delayed.
ExecIn(s, t) == IF Scheduled(s, t) THEN s ELSE [s EXCEPT !.timed = @ \cup {t}]

\* The same if a condition of the caller holds.
ExecIf(test, s, t) == IF test THEN Exec(s, t) ELSE s
=============================================================================
