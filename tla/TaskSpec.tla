------------------------------ MODULE TaskSpec ------------------------------
(***************************************************************************)
(* What the scheduler of src/task promises its users, with no list, no     *)
(* alarm and no lock: pending tasks run in the order in which they became  *)
(* pending, a task is pending or has one deadline or neither, and a        *)
(* deadline makes its task pending only once it has passed.                *)
(***************************************************************************)
EXTENDS Integers, Sequences, FiniteSets, SequencesExt

CONSTANTS Tasks, NULL

None == -1

VARIABLES
  pend,     \* pending tasks, the next to run first
  due,      \* deadline of each task, None if it has none
  now,
  running   \* the task being run, NULL between tasks

vars == <<pend, due, now, running>>

Init ==
  /\ pend = << >>
  /\ due = [t \in Tasks |-> None]
  /\ now = 0
  /\ running = NULL

IsPending(t) == t \in ToSet(pend)

\* Run t as soon as possible; a task that is already pending stays in place.
Exec(t) ==
  /\ ~IsPending(t)
  /\ pend' = Append(pend, t)
  /\ due' = [due EXCEPT ![t] = None]
  /\ UNCHANGED <<now, running>>

\* (Re)arm t; a pending task is left alone.
ExecIn(t) ==
  /\ ~IsPending(t)
  /\ due'[t] \in Nat
  /\ due'[t] >= now
  /\ due' = [due EXCEPT ![t] = due'[t]]
  /\ UNCHANGED <<pend, now, running>>

\* The tasks due by some instant of the past become pending, in the order of
\* their deadlines.
Expire ==
  \E limit \in 0 .. now :
    LET late == {t \in Tasks : due[t] # None /\ due[t] <= limit} IN
    /\ \E order \in SetToSeqs(late) :
         /\ \A i, j \in DOMAIN order : i < j => due[order[i]] <= due[order[j]]
         /\ pend' = pend \o order
    /\ due' = [t \in Tasks |-> IF t \in late THEN None ELSE due[t]]
    /\ UNCHANGED <<now, running>>

Run ==
  /\ running = NULL
  /\ pend # << >>
  /\ running' = Head(pend)
  /\ pend' = Tail(pend)
  /\ UNCHANGED <<due, now>>

Finish ==
  /\ running' = NULL
  /\ UNCHANGED <<pend, due, now>>

Pass ==
  /\ now' = now + 1
  /\ UNCHANGED <<pend, due, running>>

Next ==
  \/ \E t \in Tasks : Exec(t) \/ ExecIn(t)
  \/ Expire
  \/ Run
  \/ Finish
  \/ Pass

Spec == Init /\ [][Next]_vars
=============================================================================
