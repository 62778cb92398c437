-------------------------------- MODULE Task --------------------------------
(***************************************************************************)
(* The task scheduler of picore (src/task): one task queue with a list of  *)
(* pending tasks, a list of waiting tasks sorted by deadline, and one      *)
(* alarm of the pico SDK's default pool that is meant to expire at the     *)
(* deadline of the first waiting task.                                     *)
(*                                                                         *)
(* The contexts that run the code are the main loop, the alarm interrupt   *)
(* and the device interrupts.  A section under the queue's spin lock is    *)
(* one step; every unlocked access to the queue is a step of its own, so   *)
(* the interleavings are those of the lock-free parts of the code.         *)
(***************************************************************************)
EXTENDS Integers, Sequences, FiniteSets

CONSTANTS
  Tasks,          \* the initialised tasks; each has a handler and this queue
  NULL,           \* the null pointer
  Irqs,           \* device interrupt service routines
  OneCore,        \* TRUE: interrupts preempt main and do not nest; FALSE: each context has a core
  Delays,         \* delays passed to pr_task_exec_in_us / _ms
  MaxTime,        \* bound: no deadline lies beyond it and time stops there
  AlarmIds,       \* alarm ids the SDK can return
  PoolSize,       \* alarms the SDK's pool has room for
  InitialAlarm,   \* what queue->alarm holds before anything is armed
  HandlerCalls,   \* bound: scheduler calls made by one run of a handler
  HandlerExec,    \* HandlerExec[t]: tasks that t's handler passes to pr_task_exec
  HandlerExecIn,  \* HandlerExecIn[t]: tasks that t's handler passes to pr_task_exec_in_*
  IrqExec,        \* tasks that service routines pass to pr_task_exec
  IrqExecIn       \* tasks that service routines pass to pr_task_exec_in_*

NoAlarm == -1
Times == 0 .. MaxTime
Locations == {"code", "loop", "idle", "fired", "drain", "enqueue",
              "load", "cancel", "clear", "check", "arm"}
Interrupts == Irqs \cup {"alarm"}
Contexts == Interrupts \cup {"main"}
Flags == {"PENDING", "WAITING"}

ASSUME TaskAssumption ==
  /\ NULL \notin Tasks
  /\ IsFiniteSet(Tasks)
  /\ Irqs \cap {"main", "alarm"} = {}
  /\ MaxTime \in Nat
  /\ Delays \subseteq Nat
  /\ AlarmIds \subseteq Nat \ {0}
  /\ PoolSize \in Nat
  /\ InitialAlarm \in Int
  /\ HandlerCalls \in Nat
  /\ OneCore \in BOOLEAN
  /\ HandlerExec \in [Tasks \cup {NULL} -> SUBSET Tasks]
  /\ HandlerExecIn \in [Tasks \cup {NULL} -> SUBSET Tasks]
  /\ IrqExec \subseteq Tasks
  /\ IrqExecIn \subseteq Tasks

VARIABLES
  q,        \* struct pr_task_queue's two lists, with the next, flags, exec_at of every task
  alarm,    \* queue->alarm
  armed,    \* the SDK's pool: alarm id -> expiry time
  refused,  \* whether the pool was ever too full to take an alarm
  now,      \* the microsecond timer
  running,  \* task whose handler main is in; NULL in main()'s own code
  calls,    \* scheduler calls the code main is in may still make
  pc,       \* where each context is
  arg,      \* each context's locals: task, delay, alarm id or time it holds
  raced     \* history: a task was delayed that had become pending since the unlocked test

vars == <<q, alarm, armed, refused, now, running, calls, pc, arg, raced>>
timer == <<alarm, armed, refused>>

NoArg == [task |-> NULL, value |-> 0]

----------------------------------------------------------------------------
(* The lists: the helpers of task.c, as functions of the queue's state.    *)

Init ==
  /\ q = [first |-> NULL, last |-> NULL, waiting |-> NULL,
          next |-> [t \in Tasks |-> NULL],
          flags |-> [t \in Tasks |-> {}],
          exec_at |-> [t \in Tasks |-> 0]]
  /\ alarm = InitialAlarm
  /\ armed = [id \in {} |-> 0]
  /\ refused = FALSE
  /\ now = 0
  /\ running = NULL
  /\ calls = HandlerCalls
  /\ pc = [c \in Contexts |-> IF c = "main" THEN "code" ELSE "idle"]
  /\ arg = [c \in Contexts |-> NoArg]
  /\ raced = FALSE

is_pending(t) == "PENDING" \in q.flags[t]
is_waiting(t) == "WAITING" \in q.flags[t]

\* Mutant: a list that was empty gets no first task.
pending_insert_no_first(s, t) ==
  [first   |-> s.first,
   last    |-> t,
   waiting |-> s.waiting,
   next    |-> [u \in Tasks |-> IF u = s.last THEN t ELSE IF u = t THEN NULL ELSE s.next[u]],
   flags   |-> [s.flags EXCEPT ![t] = @ \cup {"PENDING"}],
   exec_at |-> s.exec_at]

pending_insert(s, t) ==
  [first   |-> IF s.first = NULL THEN t ELSE s.first,
   last    |-> t,
   waiting |-> s.waiting,
   next    |-> [u \in Tasks |-> IF u = s.last THEN t ELSE IF u = t THEN NULL ELSE s.next[u]],
   flags   |-> [s.flags EXCEPT ![t] = @ \cup {"PENDING"}],
   exec_at |-> s.exec_at]

pending_pop(s) ==
  LET t == s.first IN
  [first   |-> s.next[t],
   last    |-> IF s.last = t THEN NULL ELSE s.last,
   waiting |-> s.waiting,
   next    |-> [s.next EXCEPT ![t] = NULL],
   flags   |-> [s.flags EXCEPT ![t] = @ \ {"PENDING"}],
   exec_at |-> s.exec_at]

\* The links of the waiting list: NULL names the head, a task its next field.
Linked(s, l) == IF l = NULL THEN s.waiting ELSE s.next[l]

\* The link at which a walk of the waiting list for one of the tasks of set stops.
WalkUntil(s, set) ==
  LET walk[n \in 0 .. Cardinality(Tasks)] ==
        IF n = 0 THEN NULL
        ELSE LET l == walk[n - 1]
             IN  IF Linked(s, l) = NULL \/ Linked(s, l) \in set THEN l ELSE Linked(s, l)
  IN walk[Cardinality(Tasks)]

Relink(s, l, t) ==
  IF l = NULL THEN [s EXCEPT !.waiting = t] ELSE [s EXCEPT !.next[l] = t]

\* Mutant: no deadline is recorded as -1, which is no time.
NoLongerWaiting_minus_one(s, t) ==
  [first |-> s.first, last |-> s.last, waiting |-> s.waiting,
   next    |-> [s.next EXCEPT ![t] = NULL],
   flags   |-> [s.flags EXCEPT ![t] = @ \ {"WAITING"}],
   exec_at |-> [s.exec_at EXCEPT ![t] = -1]]

\* Task t, no longer on the waiting list, is reset.
NoLongerWaiting(s, t) ==
  [first |-> s.first, last |-> s.last, waiting |-> s.waiting,
   next    |-> [s.next EXCEPT ![t] = NULL],
   flags   |-> [s.flags EXCEPT ![t] = @ \ {"WAITING"}],
   exec_at |-> [s.exec_at EXCEPT ![t] = 0]]

\* Mutant: the list is cut at the task, instead of closed over it.
wait_remove_cuts(s, t) ==
  LET l == WalkUntil(s, {t})
  IN  IF Linked(s, l) # t THEN s ELSE NoLongerWaiting(Relink(s, l, NULL), t)

wait_remove(s, t) ==
  LET l == WalkUntil(s, {t})
  IN  IF Linked(s, l) # t THEN s
      ELSE NoLongerWaiting(Relink(s, l, s.next[t]), t)

wait_pop(s) == NoLongerWaiting(Relink(s, NULL, s.next[s.waiting]), s.waiting)

wait_insert(s, t, at) ==
  LET l == WalkUntil(s, {u \in Tasks : s.exec_at[u] >= at})
  IN  Relink([first |-> s.first, last |-> s.last, waiting |-> s.waiting,
              next    |-> [s.next EXCEPT ![t] = Linked(s, l)],
              flags   |-> [s.flags EXCEPT ![t] = @ \cup {"WAITING"}],
              exec_at |-> [s.exec_at EXCEPT ![t] = at]], l, t)

\* Mutant: a task becomes pending one unit before its deadline.
waiting_process_early(s, at) ==
  LET drained[n \in 0 .. Cardinality(Tasks)] ==
        IF n = 0 THEN s
        ELSE LET d == drained[n - 1]
             IN  IF d.waiting # NULL /\ d.exec_at[d.waiting] <= at + 1
                 THEN pending_insert(wait_pop(d), d.waiting)
                 ELSE d
  IN drained[Cardinality(Tasks)]

\* Every waiting task due at time at becomes pending, earliest first.
waiting_process(s, at) ==
  LET drained[n \in 0 .. Cardinality(Tasks)] ==
        IF n = 0 THEN s
        ELSE LET d == drained[n - 1]
             IN  IF d.waiting # NULL /\ d.exec_at[d.waiting] <= at
                 THEN pending_insert(wait_pop(d), d.waiting)
                 ELSE d
  IN drained[Cardinality(Tasks)]

----------------------------------------------------------------------------
(* Control flow shared by the calls.                                       *)

\* On one core a context runs only while no other interrupt is being served.
MayRun(c) == OneCore => \A d \in Interrupts \ {c} : pc[d] = "idle"

At(c, l) == pc[c] = l /\ MayRun(c)
Goto(c, l, a) ==
  /\ pc' = [pc EXCEPT ![c] = l]
  /\ arg' = [arg EXCEPT ![c] = a]

\* Where a context is once its call into the scheduler has returned.
Caller(c) == IF c = "main" THEN "code" ELSE "idle"
Return(c) == Goto(c, Caller(c), NoArg)

pr_task_exec(c, t) ==
  /\ q' = IF is_pending(t) THEN q
          ELSE pending_insert(IF is_waiting(t) THEN wait_remove(q, t) ELSE q, t)
  /\ IF ~is_pending(t) /\ is_waiting(t) THEN Goto(c, "load", NoArg) ELSE Return(c)
  /\ UNCHANGED <<timer, now, running, raced>>

\* The test before the lock; the rest of the call is Enqueue.
pr_task_exec_in(c, t, delay) ==
  /\ now + delay <= MaxTime
  /\ IF is_pending(t) THEN Return(c) ELSE Goto(c, "enqueue", [task |-> t, value |-> delay])
  /\ UNCHANGED <<q, timer, now, running, raced>>

\* Mutant: nothing is rearmed for a task added to a list that has an alarm.
Enqueue_first_rearms(c) ==
  /\ At(c, "enqueue")
  /\ LET t == arg[c].task
     IN  q' = wait_insert(IF is_waiting(t) THEN wait_remove(q, t) ELSE q,
                          t, now + arg[c].value)
  /\ IF q.waiting = NULL THEN Goto(c, "load", NoArg) ELSE Return(c)
  /\ raced' = (raced \/ is_pending(arg[c].task))
  /\ UNCHANGED <<timer, now, running, calls>>

Enqueue(c) ==
  /\ At(c, "enqueue")
  /\ LET t == arg[c].task
     IN  q' = wait_insert(IF is_waiting(t) THEN wait_remove(q, t) ELSE q,
                          t, now + arg[c].value)
  /\ Goto(c, "load", NoArg)
  /\ raced' = (raced \/ is_pending(arg[c].task))
  /\ UNCHANGED <<timer, now, running, calls>>

(* queue_reschedule, the unlocked statements one at a time.                *)

LoadAlarm(c) ==
  /\ At(c, "load")
  /\ IF alarm >= 0 THEN Goto(c, "cancel", [task |-> NULL, value |-> alarm])
                   ELSE Goto(c, "check", NoArg)
  /\ UNCHANGED <<q, timer, now, running, calls, raced>>

CancelAlarm(c) ==
  /\ At(c, "cancel")
  /\ armed' = [id \in DOMAIN armed \ {arg[c].value} |-> armed[id]]
  /\ Goto(c, "clear", NoArg)
  /\ UNCHANGED <<q, alarm, refused, now, running, calls, raced>>

ClearAlarm(c) ==
  /\ At(c, "clear")
  /\ alarm' = NoAlarm
  /\ Goto(c, "check", NoArg)
  /\ UNCHANGED <<q, armed, refused, now, running, calls, raced>>

CheckWaiting(c) ==
  /\ At(c, "check")
  /\ IF q.waiting = NULL THEN Return(c) ELSE Goto(c, "arm", NoArg)
  /\ UNCHANGED <<q, timer, now, running, calls, raced>>

\* Ids the SDK may hand out: it does not reissue one somebody still holds.
FreshIds == AlarmIds \ (DOMAIN armed \cup {alarm} \cup {arg[c].value : c \in Contexts})

add_alarm_at(at) ==
  IF Cardinality(DOMAIN armed) < PoolSize
  THEN /\ FreshIds # {}
       /\ alarm' = CHOOSE id \in FreshIds : \A other \in FreshIds : id <= other
       /\ armed' = [id \in DOMAIN armed \cup {alarm'} |-> IF id = alarm' THEN at ELSE armed[id]]
       /\ UNCHANGED refused
  ELSE /\ alarm' = NoAlarm
       /\ refused' = TRUE
       /\ UNCHANGED armed

\* The head of the list is read again, under the lock; if it is gone by now the
\* code reads a deadline through a null pointer, and gets whatever is there.
ArmAlarm(c) ==
  /\ At(c, "arm")
  /\ IF q.waiting # NULL THEN add_alarm_at(q.exec_at[q.waiting])
                         ELSE \E garbage \in {0, MaxTime + 1} : add_alarm_at(garbage)
  /\ Return(c)
  /\ UNCHANGED <<q, now, running, calls, raced>>

----------------------------------------------------------------------------
(* The alarm interrupt.                                                    *)

\* The pool drops an alarm that is due and calls ptask_alarm.
FireAlarm ==
  /\ At("alarm", "idle")
  /\ \E id \in DOMAIN armed :
       /\ armed[id] <= now
       /\ armed' = [other \in DOMAIN armed \ {id} |-> armed[other]]
  /\ Goto("alarm", "fired", NoArg)
  /\ UNCHANGED <<q, alarm, refused, now, running, calls, raced>>

\* queue->alarm = -1; then the time is read, before the lock is taken.
ptask_alarm ==
  /\ At("alarm", "fired")
  /\ alarm' = NoAlarm
  /\ Goto("alarm", "drain", [task |-> NULL, value |-> now])
  /\ UNCHANGED <<q, armed, refused, now, running, calls, raced>>

\* Mutant: nothing is rearmed after the due tasks have become pending.
queue_waiting_process_no_rearm ==
  /\ At("alarm", "drain")
  /\ q' = waiting_process(q, arg["alarm"].value)
  /\ Return("alarm")
  /\ UNCHANGED <<timer, now, running, calls, raced>>

queue_waiting_process ==
  /\ At("alarm", "drain")
  /\ q' = waiting_process(q, arg["alarm"].value)
  /\ Goto("alarm", "load", NoArg)
  /\ UNCHANGED <<timer, now, running, calls, raced>>

----------------------------------------------------------------------------
(* The main loop, the handlers it runs and the device interrupts.          *)

\* main() calls pr_task_queue_run_until_empty, or a handler returns into it.
EnterLoop ==
  /\ At("main", "code")
  /\ running' = NULL
  /\ calls' = 0
  /\ Goto("main", "loop", NoArg)
  /\ UNCHANGED <<q, timer, now, raced>>

PopPending ==
  /\ At("main", "loop")
  /\ q.first # NULL
  /\ q' = pending_pop(q)
  /\ running' = q.first
  /\ calls' = HandlerCalls
  /\ Goto("main", "code", NoArg)
  /\ UNCHANGED <<timer, now, raced>>

LeaveLoop ==
  /\ At("main", "loop")
  /\ q.first = NULL
  /\ calls' = HandlerCalls
  /\ Goto("main", "code", NoArg)
  /\ UNCHANGED <<q, timer, now, running, raced>>

HandlerCallsExec ==
  /\ At("main", "code")
  /\ calls > 0
  /\ calls' = calls - 1
  /\ \E t \in HandlerExec[running] : pr_task_exec("main", t)

HandlerCallsExecIn ==
  /\ At("main", "code")
  /\ calls > 0
  /\ calls' = calls - 1
  /\ \E t \in HandlerExecIn[running], d \in Delays : pr_task_exec_in("main", t, d)

IrqCallsExec(c) ==
  /\ At(c, "idle")
  /\ \E t \in IrqExec : pr_task_exec(c, t)
  /\ UNCHANGED calls

IrqCallsExecIn(c) ==
  /\ At(c, "idle")
  /\ \E t \in IrqExecIn, d \in Delays : pr_task_exec_in(c, t, d)
  /\ UNCHANGED calls

\* The bound: time stops at MaxTime, and before a deadline would pass it.
Tick ==
  /\ now < MaxTime
  /\ \A c \in Contexts : pc[c] = "enqueue" => now + arg[c].value < MaxTime
  /\ now' = now + 1
  /\ UNCHANGED <<q, timer, running, calls, pc, arg, raced>>

----------------------------------------------------------------------------
Reschedule(c) == LoadAlarm(c) \/ CancelAlarm(c) \/ ClearAlarm(c) \/ CheckWaiting(c) \/ ArmAlarm(c)
MainStep == EnterLoop \/ PopPending \/ LeaveLoop
AlarmStep == FireAlarm \/ ptask_alarm \/ queue_waiting_process

Next ==
  \/ MainStep
  \/ AlarmStep
  \/ HandlerCallsExec
  \/ HandlerCallsExecIn
  \/ \E c \in Irqs : IrqCallsExec(c) \/ IrqCallsExecIn(c)
  \/ \E c \in Contexts : Enqueue(c) \/ Reschedule(c)
  \/ Tick

Spec == Init /\ [][Next]_vars

\* Handlers return, the timer runs, a pending interrupt is served and a routine
\* that has started ends.  No caller is obliged to call the scheduler.
Fairness ==
  /\ WF_vars(MainStep)
  /\ WF_vars(AlarmStep)
  /\ SF_vars(Tick)   \* strong only because the bound disables Tick in some states
  /\ \A c \in Contexts : WF_vars(Enqueue(c)) /\ WF_vars(Reschedule(c))

FairSpec == Spec /\ Fairness

----------------------------------------------------------------------------
(* Properties.                                                             *)

Pointers == Tasks \cup {NULL}
QueueStates == [first : Pointers, last : Pointers, waiting : Pointers,
                next : [Tasks -> Pointers],
                flags : [Tasks -> SUBSET Flags],
                exec_at : [Tasks -> Times]]

\* Every variable holds a value of its type.
TypeOK ==
  /\ q \in QueueStates
  /\ alarm \in AlarmIds \cup {NoAlarm, InitialAlarm}
  /\ DOMAIN armed \subseteq AlarmIds
  /\ \A id \in DOMAIN armed : armed[id] \in 0 .. MaxTime + 1
  /\ refused \in BOOLEAN
  /\ now \in Times
  /\ running \in Pointers
  /\ calls \in 0 .. HandlerCalls
  /\ pc \in [Contexts -> Locations]
  /\ arg \in [Contexts -> [task : Pointers, value : Int]]
  /\ raced \in BOOLEAN

\* The tasks on a list, in order, as the pointers from its head give them.
Extended(s, head, path) ==
  LET next == IF path = << >> THEN head ELSE s.next[path[Len(path)]]
  IN  IF next = NULL THEN path ELSE Append(path, next)

Walk(s, head) ==
  LET path[n \in 0 .. Cardinality(Tasks) + 1] ==
        IF n = 0 THEN << >> ELSE Extended(s, head, path[n - 1])
  IN path[Cardinality(Tasks) + 1]

Pending == Walk(q, q.first)
Waiting == Walk(q, q.waiting)
Members(list) == {list[i] : i \in DOMAIN list}

\* The lists, each followed through pointers that interrupts relink while main
\* uses them, hold exactly the tasks whose flag says so, none of them twice or
\* on both lists; queue->last is the end of the pending list, which the next
\* insertion appends to, and the waiting list is sorted by deadline, without
\* which the alarm expires too late for a task in its middle.  Tasks are delayed
\* while they wait, pend or run, from any context; the one thing that breaks the
\* lists is that a task becomes pending between the unlocked test and the lock of
\* pr_task_exec_in_*.
ListsSound == raced \/
  (/\ Members(Pending) = {t \in Tasks : is_pending(t)}
   /\ Members(Waiting) = {t \in Tasks : is_waiting(t)}
   /\ Members(Pending) \cap Members(Waiting) = {}
   /\ Len(Pending) = Cardinality(Members(Pending))
   /\ Len(Waiting) = Cardinality(Members(Waiting))
   /\ q.last = IF Pending = << >> THEN NULL ELSE Pending[Len(Pending)]
   /\ \A i, j \in DOMAIN Waiting : i < j => q.exec_at[Waiting[i]] <= q.exec_at[Waiting[j]])

\* Contexts that have still to reach the end of queue_reschedule.
Rescheduling == {"fired", "drain", "load", "cancel", "clear", "check", "arm"}

\* Unless some context is about to rearm, or the SDK's pool has been full, an
\* alarm will expire by the first deadline: the unlocked cancel, clear and
\* check of queue_reschedule in several contexts never leave a waiting task
\* with nothing to wake it.
AlarmCovers ==
  (q.waiting # NULL /\ ~refused /\ \A c \in Contexts : pc[c] \notin Rescheduling)
    => \E id \in DOMAIN armed : armed[id] <= q.exec_at[q.waiting]

\* "The queue uses spin locks for thread-safe operation" (task.h:116): no context is
\* about to read the deadline of a first waiting task that
\* another context has taken away since queue_reschedule saw it there.
NoNullDeref == \A c \in Contexts : pc[c] = "arm" => q.waiting # NULL

\* The queue never has two alarms in the SDK's pool of sixteen: rearming cancels
\* and replaces the alarm that was set before.
OneAlarm == Cardinality(DOMAIN armed) <= 1

Abstract == INSTANCE TaskSpec WITH
  pend <- Pending,
  due <- [t \in Tasks |-> IF is_waiting(t) THEN q.exec_at[t] ELSE -1]

\* Each step of the scheduler, with its lists, locks and alarms, is a step of
\* the abstract scheduler: tasks run in the order in which they became pending,
\* never before their deadline and once per time they become pending, and a task
\* delayed while it waits gets its new deadline; until a task is delayed that
\* became pending after the unlocked test, if that ever happens.
ImplementsSpec == Abstract!Init /\ [][raced' \/ Abstract!Next]_(Abstract!vars)

\* A task is never both pending and waiting.
OneList == \A t \in Tasks : ~(is_pending(t) /\ is_waiting(t))

\* Every task that becomes pending is run, however interrupts interleave.
PendingRuns == \A t \in Tasks : is_pending(t) ~> running = t \/ raced

\* "The task will be scheduled after the delay expires" (task.h:163): a waiting task
\* stops waiting.
WaitingEnds == \A t \in Tasks : is_waiting(t) ~> ~is_waiting(t) \/ raced
=============================================================================
