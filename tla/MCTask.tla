------------------------------- MODULE MCTask -------------------------------
(* Instances of Task for TLC. *)
EXTENDS Task

CONSTANTS t1, t2, t3, irq1, irq2

Nobody == [t \in Tasks \cup {NULL} |-> {}]
Everybody == [t \in Tasks \cup {NULL} |-> Tasks]
\* main() starts a timed task, which rearms itself for ever.
SelfRearming == [t \in Tasks \cup {NULL} |-> IF t = NULL THEN {t1, t2} ELSE {t} \cap {t1, t2}]
\* The same with one timed task.
SelfFirst == [t \in Tasks \cup {NULL} |-> {t1} \cap {IF t = NULL THEN t1 ELSE t}]
\* One handler (a bus driver's) rearms the timeout task of another.
RearmsTimeout == [t \in Tasks \cup {NULL} |-> IF t = t1 THEN {t2} ELSE {}]
StartsFirst == [t \in Tasks \cup {NULL} |-> IF t = NULL THEN {t1} ELSE {}]

\* The walks end where a task has been put on both lists: the properties say nothing
\* of what comes after.
UntilRaced == ~raced

\* Nor, where contexts have cores of their own, of what comes after an alarm the pool
\* refused.
UntilRefused == UntilRaced /\ ~refused
=============================================================================
