----------------------------- MODULE TaskProofs -----------------------------
(***************************************************************************)
(* Theorems about Task, for any tasks, interrupts, delays and alarm ids:   *)
(* the types, the alarm, and the linked lists; the pointers always make    *)
(* the two lists that the flags say, and the scheduler implements          *)
(* TaskSpec.                                                               *)
(***************************************************************************)
EXTENDS Task, BoundedRecursion, FiniteSetTheorems, FunctionTheorems, SequenceTheorems

----------------------------------------------------------------------------
(* The list operators map queue states to queue states.                    *)

\* Linking a task at the end of the pending list.
LEMMA PendingInsertType ==
  ASSUME NEW s \in QueueStates, NEW t \in Tasks
  PROVE  pending_insert(s, t) \in QueueStates
  BY DEF pending_insert, QueueStates, Pointers, Flags

\* Unlinking the first pending task.
LEMMA PendingPopType ==
  ASSUME NEW s \in QueueStates, s.first # NULL
  PROVE  pending_pop(s) \in QueueStates
  BY TaskAssumption DEF pending_pop, QueueStates, Pointers, Flags

\* What a link points to.
LEMMA LinkedType ==
  ASSUME NEW s \in QueueStates, NEW l \in Pointers
  PROVE  Linked(s, l) \in Pointers
  BY DEF Linked, QueueStates, Pointers

\* Pointing a link elsewhere.
LEMMA RelinkType ==
  ASSUME NEW s \in QueueStates, NEW l \in Pointers, NEW t \in Pointers
  PROVE  Relink(s, l, t) \in QueueStates
  BY DEF Relink, QueueStates, Pointers

\* One step of a walk of the waiting list.
Follow(s, set, l) ==
  IF Linked(s, l) = NULL \/ Linked(s, l) \in set THEN l ELSE Linked(s, l)

\* A walk of the waiting list goes from link to link.
LEMMA WalkSteps ==
  ASSUME NEW s \in QueueStates, NEW set
  PROVE  \E w \in [0 .. Cardinality(Tasks) -> Pointers] :
           /\ WalkUntil(s, set) = w[Cardinality(Tasks)]
           /\ \A n \in 0 .. Cardinality(Tasks) :
                w[n] = IF n = 0 THEN NULL ELSE Follow(s, set, w[n - 1])
<1> DEFINE N == Cardinality(Tasks)
           IsWalk(w) == w = [n \in 0 .. N |-> IF n = 0 THEN NULL
                                              ELSE LET l == w[n - 1] IN
                                                   IF Linked(s, l) = NULL \/ Linked(s, l) \in set
                                                   THEN l ELSE Linked(s, l)]
           W == CHOOSE w : IsWalk(w)
           step == [l \in Pointers |-> Follow(s, set, l)]
<1>1. N \in Nat
  BY TaskAssumption, FS_CardinalityType
<1>2. NULL \in Pointers /\ step \in [Pointers -> Pointers]
  BY LinkedType DEF Pointers, Follow
<1>3. PICK w \in [0 .. N -> Pointers] : Iterates(w, N, NULL, step)
  <2> HIDE DEF N, step
  <2> QED
    BY <1>1, <1>2, IteratesExist
<1>4. \A n \in 0 .. N : w[n] = IF n = 0 THEN NULL ELSE Follow(s, set, w[n - 1])
  <2> HIDE DEF N
  <2> SUFFICES ASSUME NEW n \in 0 .. N
               PROVE  w[n] = IF n = 0 THEN NULL ELSE Follow(s, set, w[n - 1])
    OBVIOUS
  <2>1. w[n] = IF n = 0 THEN NULL ELSE step[w[n - 1]]
    BY <1>3 DEF Iterates
  <2>2. n # 0 => w[n - 1] \in Pointers
    BY <1>1, <1>3
  <2> QED
    BY <2>1, <2>2
<1>5. IsWalk(w)
  <2> HIDE DEF N
  <2> QED
    BY <1>3, <1>4 DEF Follow
<1>6. IsWalk(W)
  BY <1>5
<1>7. \A n \in 0 .. N : W[n] = IF n = 0 THEN NULL ELSE Follow(s, set, W[n - 1])
  <2> HIDE DEF N, W
  <2> QED
    BY <1>6 DEF Follow
<1>8. \A n \in 0 .. N : W[n] \in Pointers
  <2>1. \A n \in 1 .. N : W[n - 1] \in Pointers => W[n] \in Pointers
    <3> HIDE DEF N, W
    <3> QED
      BY <1>1, <1>7, LinkedType DEF Follow
  <2>2. W[0] \in Pointers
    <3> HIDE DEF N, W
    <3> QED
      BY <1>1, <1>2, <1>7
  <2> HIDE DEF N, W
  <2> QED
    BY <1>1, <2>1, <2>2, IteratesStay
<1>9. W \in [0 .. N -> Pointers]
  <2>1. W = [n \in 0 .. N |-> IF n = 0 THEN NULL
                               ELSE LET l == W[n - 1] IN
                                    IF Linked(s, l) = NULL \/ Linked(s, l) \in set
                                    THEN l ELSE Linked(s, l)]
    BY <1>6
  <2> HIDE DEF N, W
  <2> QED
    BY <1>8, <2>1
<1>10. WalkUntil(s, set) = W[N]
  BY DEF WalkUntil
<1> HIDE DEF W
<1> QED
  BY <1>7, <1>9, <1>10

\* A walk of the waiting list ends at a link.
LEMMA WalkType ==
  ASSUME NEW s \in QueueStates, NEW set
  PROVE  WalkUntil(s, set) \in Pointers
<1>1. Cardinality(Tasks) \in Nat
  BY TaskAssumption, FS_CardinalityType
<1> QED
  BY <1>1, WalkSteps

\* Resetting a task that has left the waiting list.
LEMMA NoLongerWaitingType ==
  ASSUME NEW s \in QueueStates, NEW t \in Tasks
  PROVE  NoLongerWaiting(s, t) \in QueueStates
  BY TaskAssumption DEF NoLongerWaiting, QueueStates, Pointers, Flags, Times

\* Unlinking a task from the middle of the waiting list.
LEMMA WaitRemoveType ==
  ASSUME NEW s \in QueueStates, NEW t \in Tasks
  PROVE  wait_remove(s, t) \in QueueStates
<1>1. WalkUntil(s, {t}) \in Pointers
  BY WalkType
<1>2. s.next[t] \in Pointers
  BY DEF QueueStates
<1>3. NoLongerWaiting(Relink(s, WalkUntil(s, {t}), s.next[t]), t) \in QueueStates
  BY <1>1, <1>2, RelinkType, NoLongerWaitingType
<1>4. QED
  BY <1>3 DEF wait_remove

\* Unlinking the first waiting task.
LEMMA WaitPopType ==
  ASSUME NEW s \in QueueStates, s.waiting # NULL
  PROVE  wait_pop(s) \in QueueStates
<1>1. s.waiting \in Tasks /\ s.next[s.waiting] \in Pointers /\ NULL \in Pointers
  BY DEF QueueStates, Pointers
<1>2. QED
  BY <1>1, RelinkType, NoLongerWaitingType DEF wait_pop

\* Linking a task into the waiting list at its deadline's place.
LEMMA WaitInsertType ==
  ASSUME NEW s \in QueueStates, NEW t \in Tasks, NEW at \in Times
  PROVE  wait_insert(s, t, at) \in QueueStates
<1> DEFINE l == WalkUntil(s, {u \in Tasks : s.exec_at[u] >= at})
           r == [first |-> s.first, last |-> s.last, waiting |-> s.waiting,
                 next    |-> [s.next EXCEPT ![t] = Linked(s, l)],
                 flags   |-> [s.flags EXCEPT ![t] = @ \cup {"WAITING"}],
                 exec_at |-> [s.exec_at EXCEPT ![t] = at]]
<1>1. l \in Pointers
  BY WalkType
<1>2. Linked(s, l) \in Pointers
  BY <1>1, LinkedType
<1>3. r \in QueueStates
  <2> HIDE DEF l
  <2>1. QED
    BY <1>2 DEF QueueStates, Pointers, Flags
<1>4. t \in Pointers
  BY DEF Pointers
<1>5. Relink(r, l, t) \in QueueStates
  <2> HIDE DEF l, r
  <2>1. QED
    BY <1>1, <1>3, <1>4, RelinkType
<1>6. QED
  BY <1>5 DEF wait_insert

\* One turn of the loop that empties the waiting list.
MoveDue(d, at) ==
  IF d.waiting # NULL /\ d.exec_at[d.waiting] <= at
  THEN pending_insert(wait_pop(d), d.waiting) ELSE d

\* The waiting task is moved or left where it is.
LEMMA MoveDueType ==
  ASSUME NEW d \in QueueStates, NEW at
  PROVE  MoveDue(d, at) \in QueueStates
<1>1. CASE d.waiting # NULL
  <2>1. d.waiting \in Tasks
    BY <1>1 DEF QueueStates, Pointers
  <2>2. pending_insert(wait_pop(d), d.waiting) \in QueueStates
    BY <1>1, <2>1, WaitPopType, PendingInsertType
  <2> QED
    BY <2>2 DEF MoveDue
<1>2. CASE d.waiting = NULL
  BY <1>2 DEF MoveDue
<1> QED
  BY <1>1, <1>2

\* The loop goes from one queue state to the next.
LEMMA DrainSteps ==
  ASSUME NEW s \in QueueStates, NEW at
  PROVE  \E w \in [0 .. Cardinality(Tasks) -> QueueStates] :
           /\ waiting_process(s, at) = w[Cardinality(Tasks)]
           /\ \A n \in 0 .. Cardinality(Tasks) :
                w[n] = IF n = 0 THEN s ELSE MoveDue(w[n - 1], at)
<1> DEFINE N == Cardinality(Tasks)
           IsDrain(w) == w = [n \in 0 .. N |->
                                IF n = 0 THEN s
                                ELSE LET d == w[n - 1] IN
                                     IF d.waiting # NULL /\ d.exec_at[d.waiting] <= at
                                     THEN pending_insert(wait_pop(d), d.waiting) ELSE d]
           W == CHOOSE w : IsDrain(w)
           step == [d \in QueueStates |-> MoveDue(d, at)]
<1>1. N \in Nat
  BY TaskAssumption, FS_CardinalityType
<1>2. step \in [QueueStates -> QueueStates]
  BY MoveDueType
<1>3. PICK w \in [0 .. N -> QueueStates] : Iterates(w, N, s, step)
  <2> HIDE DEF N, step
  <2> QED
    BY <1>1, <1>2, IteratesExist
<1>4. \A n \in 0 .. N : w[n] = IF n = 0 THEN s ELSE MoveDue(w[n - 1], at)
  <2> HIDE DEF N
  <2> SUFFICES ASSUME NEW n \in 0 .. N
               PROVE  w[n] = IF n = 0 THEN s ELSE MoveDue(w[n - 1], at)
    OBVIOUS
  <2>1. w[n] = IF n = 0 THEN s ELSE step[w[n - 1]]
    BY <1>3 DEF Iterates
  <2>2. n # 0 => w[n - 1] \in QueueStates
    BY <1>1, <1>3
  <2> QED
    BY <2>1, <2>2
<1>5. IsDrain(w)
  <2> HIDE DEF N
  <2> QED
    BY <1>3, <1>4 DEF MoveDue
<1>6. IsDrain(W)
  BY <1>5
<1>7. \A n \in 0 .. N : W[n] = IF n = 0 THEN s ELSE MoveDue(W[n - 1], at)
  <2> HIDE DEF N, W
  <2> QED
    BY <1>6 DEF MoveDue
<1>8. \A n \in 0 .. N : W[n] \in QueueStates
  <2>1. \A n \in 1 .. N : W[n - 1] \in QueueStates => W[n] \in QueueStates
    <3> HIDE DEF N, W
    <3> QED
      BY <1>1, <1>7, MoveDueType
  <2>2. W[0] \in QueueStates
    <3> HIDE DEF N, W
    <3> QED
      BY <1>1, <1>7
  <2> HIDE DEF N, W
  <2> QED
    BY <1>1, <2>1, <2>2, IteratesStay
<1>9. W \in [0 .. N -> QueueStates]
  <2>1. W = [n \in 0 .. N |->
               IF n = 0 THEN s
               ELSE LET d == W[n - 1] IN
                    IF d.waiting # NULL /\ d.exec_at[d.waiting] <= at
                    THEN pending_insert(wait_pop(d), d.waiting) ELSE d]
    BY <1>6
  <2> HIDE DEF N, W
  <2> QED
    BY <1>8, <2>1
<1>10. waiting_process(s, at) = W[N]
  BY DEF waiting_process
<1> HIDE DEF W
<1> QED
  BY <1>7, <1>9, <1>10

\* Moving every due task from the waiting list to the pending list.
LEMMA DrainType ==
  ASSUME NEW s \in QueueStates, NEW at
  PROVE  waiting_process(s, at) \in QueueStates
<1>1. Cardinality(Tasks) \in Nat
  BY TaskAssumption, FS_CardinalityType
<1> QED
  BY <1>1, DrainSteps

----------------------------------------------------------------------------
(* Type correctness.                                                       *)

\* A context past the unlocked test of pr_task_exec_in_* holds a task and a
\* delay whose deadline is within the bound.
EnqueueArgs ==
  \A c \in Contexts : pc[c] = "enqueue" =>
    arg[c].task \in Tasks /\ arg[c].value \in Nat /\ now + arg[c].value <= MaxTime

TypeInv == TypeOK /\ EnqueueArgs

\* The parts of TypeOK about the timer and the SDK's pool.
TimerOK ==
  /\ alarm \in AlarmIds \cup {NoAlarm, InitialAlarm}
  /\ DOMAIN armed \subseteq AlarmIds
  /\ \A id \in DOMAIN armed : armed[id] \in 0 .. MaxTime + 1
  /\ refused \in BOOLEAN

\* A context moves to another location with typed locals.
LEMMA GotoType ==
  ASSUME TypeInv, NEW c \in Contexts, NEW l \in Locations, l # "enqueue",
         NEW a \in [task : Pointers, value : Int], Goto(c, l, a), now' = now
  PROVE  /\ pc' \in [Contexts -> Locations]
         /\ arg' \in [Contexts -> [task : Pointers, value : Int]]
         /\ EnqueueArgs'
  BY DEF TypeInv, TypeOK, EnqueueArgs, Goto

\* What a context with no locals holds.
LEMMA NoArgType == NoArg \in [task : Pointers, value : Int]
  BY DEF NoArg, Pointers

\* A context returns to its caller.
LEMMA ReturnType ==
  ASSUME TypeInv, NEW c \in Contexts, Return(c), now' = now
  PROVE  /\ pc' \in [Contexts -> Locations]
         /\ arg' \in [Contexts -> [task : Pointers, value : Int]]
         /\ EnqueueArgs'
<1>1. Caller(c) \in Locations /\ Caller(c) # "enqueue"
  BY DEF Caller, Locations
<1>2. QED
  BY <1>1, GotoType, NoArgType DEF Return

\* Scheduling for immediate execution.
LEMMA ExecType ==
  ASSUME TypeInv, NEW c \in Contexts, NEW t \in Tasks, pr_task_exec(c, t),
         calls' \in 0 .. HandlerCalls
  PROVE  TypeInv'
<1>1. q' \in QueueStates
  <2>1. q \in QueueStates
    BY DEF TypeInv, TypeOK
  <2>2. wait_remove(q, t) \in QueueStates
    BY <2>1, WaitRemoveType
  <2>3. pending_insert(IF is_waiting(t) THEN wait_remove(q, t) ELSE q, t) \in QueueStates
    BY <2>1, <2>2, PendingInsertType
  <2>4. QED
    BY <2>1, <2>3 DEF pr_task_exec
<1>2. now' = now
  BY DEF pr_task_exec
<1>3. /\ pc' \in [Contexts -> Locations]
      /\ arg' \in [Contexts -> [task : Pointers, value : Int]]
      /\ EnqueueArgs'
  <2>1. CASE Return(c)
    BY <2>1, <1>2, ReturnType
  <2>2. CASE Goto(c, "load", NoArg)
    BY <2>2, <1>2, GotoType, NoArgType DEF Locations
  <2>3. QED
    BY <2>1, <2>2 DEF pr_task_exec
<1>4. QED
  BY <1>1, <1>3 DEF pr_task_exec, timer, TypeInv, TypeOK

\* Scheduling with a delay, up to the lock.
LEMMA ExecInType ==
  ASSUME TypeInv, NEW c \in Contexts, NEW t \in Tasks, NEW d \in Delays,
         pr_task_exec_in(c, t, d), calls' \in 0 .. HandlerCalls
  PROVE  TypeInv'
<1>1. now' = now /\ d \in Nat /\ now + d <= MaxTime
  BY TaskAssumption DEF pr_task_exec_in
<1>2. /\ pc' \in [Contexts -> Locations]
      /\ arg' \in [Contexts -> [task : Pointers, value : Int]]
      /\ EnqueueArgs'
  <2>1. CASE Return(c)
    BY <2>1, <1>1, ReturnType
  <2>2. CASE Goto(c, "enqueue", [task |-> t, value |-> d])
    BY <2>2, <1>1 DEF Goto, TypeInv, TypeOK, EnqueueArgs, Locations, Pointers
  <2>3. QED
    BY <2>1, <2>2 DEF pr_task_exec_in
<1>3. QED
  BY <1>2 DEF pr_task_exec_in, timer, TypeInv, TypeOK

\* Arming keeps the pool's type.
LEMMA ArmType ==
  ASSUME TypeInv, NEW at \in 0 .. MaxTime + 1, add_alarm_at(at)
  PROVE  TimerOK'
<1>1. TimerOK
  BY DEF TypeInv, TypeOK, TimerOK
<1>2. CASE Cardinality(DOMAIN armed) < PoolSize
  <2> DEFINE First(id) == \A other \in FreshIds : id <= other
  <2>1. FreshIds \in SUBSET Nat /\ FreshIds # {} /\ FreshIds \subseteq AlarmIds
    BY <1>2, TaskAssumption DEF add_alarm_at, FreshIds
  <2>2. \E id \in FreshIds : First(id)
    BY <2>1, LeastNat
  <2>3. alarm' \in FreshIds
    BY <1>2, <2>2 DEF add_alarm_at
  <2>4. /\ armed' = [id \in DOMAIN armed \cup {alarm'} |-> IF id = alarm' THEN at ELSE armed[id]]
        /\ refused' = refused
    BY <1>2 DEF add_alarm_at
  <2>5. QED
    BY <1>1, <2>1, <2>3, <2>4 DEF TimerOK
<1>3. CASE ~(Cardinality(DOMAIN armed) < PoolSize)
  BY <1>1, <1>3 DEF add_alarm_at, TimerOK
<1>4. QED
  BY <1>2, <1>3

\* Every step preserves the types, one case per action.
LEMMA TypeInvInductive == TypeInv /\ [Next]_vars => TypeInv'
<1> SUFFICES ASSUME TypeInv, [Next]_vars
             PROVE  TypeInv'
  OBVIOUS
<1>main. "main" \in Contexts /\ "alarm" \in Contexts /\ Irqs \subseteq Contexts
  BY DEF Contexts, Interrupts
<1>calls. 0 \in 0 .. HandlerCalls /\ HandlerCalls \in 0 .. HandlerCalls
  BY TaskAssumption
<1>now. now \in Int /\ NULL \in Pointers
  BY DEF TypeInv, TypeOK, Times, Pointers
<1>1. CASE EnterLoop
  <2>1. EnqueueArgs' /\ pc' \in [Contexts -> Locations]
                     /\ arg' \in [Contexts -> [task : Pointers, value : Int]]
    BY <1>1, <1>main, GotoType, NoArgType DEF EnterLoop, Locations
  <2>2. QED
    BY <1>1, <2>1, <1>calls, <1>now DEF EnterLoop, timer, TypeInv, TypeOK
<1>2. CASE PopPending
  <2>1. EnqueueArgs' /\ pc' \in [Contexts -> Locations]
                     /\ arg' \in [Contexts -> [task : Pointers, value : Int]]
    BY <1>2, <1>main, GotoType, NoArgType DEF PopPending, Locations
  <2>2. q' \in QueueStates /\ q.first \in Pointers
    BY <1>2, PendingPopType DEF PopPending, TypeInv, TypeOK, QueueStates
  <2>3. QED
    BY <1>2, <2>1, <2>2, <1>calls DEF PopPending, timer, TypeInv, TypeOK
<1>3. CASE LeaveLoop
  <2>1. EnqueueArgs' /\ pc' \in [Contexts -> Locations]
                     /\ arg' \in [Contexts -> [task : Pointers, value : Int]]
    BY <1>3, <1>main, GotoType, NoArgType DEF LeaveLoop, Locations
  <2>2. QED
    BY <1>3, <2>1, <1>calls DEF LeaveLoop, timer, TypeInv, TypeOK
<1>4. CASE FireAlarm
  <2>1. EnqueueArgs' /\ pc' \in [Contexts -> Locations]
                     /\ arg' \in [Contexts -> [task : Pointers, value : Int]]
    BY <1>4, <1>main, GotoType, NoArgType DEF FireAlarm, Locations
  <2>2. QED
    BY <1>4, <2>1 DEF FireAlarm, TypeInv, TypeOK
<1>5. CASE ptask_alarm
  <2>1. [task |-> NULL, value |-> now] \in [task : Pointers, value : Int]
    BY <1>now
  <2>2. EnqueueArgs' /\ pc' \in [Contexts -> Locations]
                     /\ arg' \in [Contexts -> [task : Pointers, value : Int]]
    BY <1>5, <1>main, <2>1, GotoType DEF ptask_alarm, Locations
  <2>3. QED
    BY <1>5, <2>2 DEF ptask_alarm, TypeInv, TypeOK
<1>6. CASE queue_waiting_process
  <2>1. EnqueueArgs' /\ pc' \in [Contexts -> Locations]
                     /\ arg' \in [Contexts -> [task : Pointers, value : Int]]
    BY <1>6, <1>main, GotoType, NoArgType DEF queue_waiting_process, Locations
  <2>2. q' \in QueueStates
    BY <1>6, DrainType DEF queue_waiting_process, TypeInv, TypeOK
  <2>3. QED
    BY <1>6, <2>1, <2>2 DEF queue_waiting_process, timer, TypeInv, TypeOK
<1>7. CASE HandlerCallsExec
  <2>1. PICK t \in HandlerExec[running] : pr_task_exec("main", t)
    BY <1>7 DEF HandlerCallsExec
  <2>2. t \in Tasks
    BY TaskAssumption DEF TypeInv, TypeOK, Pointers
  <2>3. calls' \in 0 .. HandlerCalls
    BY <1>7, TaskAssumption DEF HandlerCallsExec, TypeInv, TypeOK
  <2>4. QED
    BY <1>main, <2>1, <2>2, <2>3, ExecType
<1>8. CASE HandlerCallsExecIn
  <2>1. PICK t \in HandlerExecIn[running], d \in Delays : pr_task_exec_in("main", t, d)
    BY <1>8 DEF HandlerCallsExecIn
  <2>2. t \in Tasks
    BY TaskAssumption DEF TypeInv, TypeOK, Pointers
  <2>3. calls' \in 0 .. HandlerCalls
    BY <1>8, TaskAssumption DEF HandlerCallsExecIn, TypeInv, TypeOK
  <2>4. QED
    BY <1>main, <2>1, <2>2, <2>3, ExecInType
<1>9. ASSUME NEW c \in Irqs, IrqCallsExec(c)
      PROVE  TypeInv'
  <2>1. calls' \in 0 .. HandlerCalls
    BY <1>9 DEF IrqCallsExec, TypeInv, TypeOK
  <2>2. QED
    BY <1>9, <1>main, <2>1, TaskAssumption, ExecType DEF IrqCallsExec
<1>10. ASSUME NEW c \in Irqs, IrqCallsExecIn(c)
       PROVE  TypeInv'
  <2>1. calls' \in 0 .. HandlerCalls
    BY <1>10 DEF IrqCallsExecIn, TypeInv, TypeOK
  <2>2. QED
    BY <1>10, <1>main, <2>1, TaskAssumption, ExecInType DEF IrqCallsExecIn
<1>11. ASSUME NEW c \in Contexts, Enqueue(c)
       PROVE  TypeInv'
  <2>1. EnqueueArgs' /\ pc' \in [Contexts -> Locations]
                     /\ arg' \in [Contexts -> [task : Pointers, value : Int]]
    BY <1>11, GotoType, NoArgType DEF Enqueue, Locations
  <2> DEFINE t == arg[c].task
  <2>2. t \in Tasks /\ now + arg[c].value \in Times
    BY <1>11 DEF Enqueue, At, TypeInv, TypeOK, EnqueueArgs, Times
  <2>3. q \in QueueStates /\ wait_remove(q, t) \in QueueStates
    BY <2>2, WaitRemoveType DEF TypeInv, TypeOK
  <2>4. q' \in QueueStates
    BY <1>11, <2>2, <2>3, WaitInsertType DEF Enqueue
  <2>5. QED
    BY <1>11, <2>1, <2>4 DEF Enqueue, timer, TypeInv, TypeOK
<1>12. ASSUME NEW c \in Contexts, LoadAlarm(c)
       PROVE  TypeInv'
  <2>1. [task |-> NULL, value |-> alarm] \in [task : Pointers, value : Int]
    BY <1>now, TaskAssumption DEF TypeInv, TypeOK, NoAlarm
  <2>2. EnqueueArgs' /\ pc' \in [Contexts -> Locations]
                     /\ arg' \in [Contexts -> [task : Pointers, value : Int]]
    BY <1>12, <2>1, GotoType, NoArgType DEF LoadAlarm, Locations
  <2>3. QED
    BY <1>12, <2>2 DEF LoadAlarm, timer, TypeInv, TypeOK
<1>13. ASSUME NEW c \in Contexts, CancelAlarm(c)
       PROVE  TypeInv'
  <2>1. EnqueueArgs' /\ pc' \in [Contexts -> Locations]
                     /\ arg' \in [Contexts -> [task : Pointers, value : Int]]
    BY <1>13, GotoType, NoArgType DEF CancelAlarm, Locations
  <2>2. QED
    BY <1>13, <2>1 DEF CancelAlarm, TypeInv, TypeOK
<1>14. ASSUME NEW c \in Contexts, ClearAlarm(c)
       PROVE  TypeInv'
  <2>1. EnqueueArgs' /\ pc' \in [Contexts -> Locations]
                     /\ arg' \in [Contexts -> [task : Pointers, value : Int]]
    BY <1>14, GotoType, NoArgType DEF ClearAlarm, Locations
  <2>2. QED
    BY <1>14, <2>1 DEF ClearAlarm, TypeInv, TypeOK
<1>15. ASSUME NEW c \in Contexts, CheckWaiting(c)
       PROVE  TypeInv'
  <2>1. EnqueueArgs' /\ pc' \in [Contexts -> Locations]
                     /\ arg' \in [Contexts -> [task : Pointers, value : Int]]
    BY <1>15, GotoType, ReturnType, NoArgType DEF CheckWaiting, Locations
  <2>2. QED
    BY <1>15, <2>1 DEF CheckWaiting, timer, TypeInv, TypeOK
<1>16. ASSUME NEW c \in Contexts, ArmAlarm(c)
       PROVE  TypeInv'
  <2>1. EnqueueArgs' /\ pc' \in [Contexts -> Locations]
                     /\ arg' \in [Contexts -> [task : Pointers, value : Int]]
    BY <1>16, ReturnType DEF ArmAlarm
  <2>2. \E at \in 0 .. MaxTime + 1 : add_alarm_at(at)
    <3>1. CASE q.waiting # NULL
      <4>1. q.exec_at[q.waiting] \in 0 .. MaxTime + 1
        BY <3>1, TaskAssumption DEF TypeInv, TypeOK, QueueStates, Pointers, Times
      <4>2. QED
        BY <1>16, <3>1, <4>1 DEF ArmAlarm
    <3>2. CASE q.waiting = NULL
      BY <1>16, <3>2, TaskAssumption DEF ArmAlarm
    <3>3. QED
      BY <3>1, <3>2
  <2>3. TimerOK'
    BY <2>2, ArmType
  <2>4. QED
    BY <1>16, <2>1, <2>3 DEF ArmAlarm, TimerOK, TypeInv, TypeOK
<1>17. CASE Tick
  <2>1. now' \in Times
    BY <1>17, TaskAssumption DEF Tick, TypeInv, TypeOK, Times
  <2>2. EnqueueArgs'
    BY <1>17, <1>now, TaskAssumption DEF Tick, TypeInv, TypeOK, EnqueueArgs
  <2>3. QED
    BY <1>17, <2>1, <2>2 DEF Tick, timer, TypeInv, TypeOK
<1>18. CASE UNCHANGED vars
  BY <1>18 DEF vars, TypeInv, TypeOK, EnqueueArgs
<1>19. QED
  BY <1>1, <1>2, <1>3, <1>4, <1>5, <1>6, <1>7, <1>8, <1>9, <1>10, <1>11, <1>12, <1>13,
     <1>14, <1>15, <1>16, <1>17, <1>18 DEF Next, MainStep, AlarmStep, Reschedule

\* The initial state is typed.
LEMMA TypeInvInit == Init => TypeInv
<1> SUFFICES ASSUME Init
             PROVE  TypeInv
  OBVIOUS
<1>1. q \in QueueStates
  BY TaskAssumption DEF Init, QueueStates, Pointers, Flags, Times
<1>2. TimerOK
  BY DEF Init, TimerOK
<1>3. now \in Times /\ running \in Pointers /\ calls \in 0 .. HandlerCalls
  BY TaskAssumption DEF Init, Times, Pointers
<1>4. pc \in [Contexts -> Locations] /\ \A c \in Contexts : pc[c] # "enqueue"
  BY DEF Init, Locations
<1>5. arg \in [Contexts -> [task : Pointers, value : Int]]
  BY NoArgType DEF Init
<1>6. raced \in BOOLEAN
  BY DEF Init
<1>7. QED
  BY <1>1, <1>2, <1>3, <1>4, <1>5, <1>6 DEF TimerOK, TypeInv, TypeOK, EnqueueArgs

\* Whatever the contexts and however they interleave, links point to tasks and
\* deadlines, alarms and program counters stay in range, even in the runs in
\* which the unlocked accesses corrupt the lists.
THEOREM TypeCorrect == Spec => []TypeOK
<1>1. TypeInv => TypeOK
  BY DEF TypeInv
<1>2. QED
  BY <1>1, TypeInvInit, TypeInvInductive, PTL DEF Spec

----------------------------------------------------------------------------
(* No waiting task is left without an alarm.                               *)

\* Linking a task into the pending list leaves the waiting list alone.
LEMMA PendingInsertKeepsWaiting ==
  ASSUME NEW s, NEW t
  PROVE  /\ pending_insert(s, t).waiting = s.waiting
         /\ pending_insert(s, t).exec_at = s.exec_at
  BY DEF pending_insert

\* Taking the first pending task off its list leaves the waiting list alone.
LEMMA PendingPopKeepsWaiting ==
  ASSUME NEW s
  PROVE  /\ pending_pop(s).waiting = s.waiting
         /\ pending_pop(s).exec_at = s.exec_at
  BY DEF pending_pop

\* If the pool takes the alarm, it will expire at the requested time.
LEMMA AlarmArmed ==
  ASSUME NEW at, add_alarm_at(at)
  PROVE  refused' \/ \E id \in DOMAIN armed' : armed'[id] = at
  BY DEF add_alarm_at

\* A step that leaves a context on its way to rearming.
LEMMA StillRescheduling ==
  ASSUME TypeInv, NEW c \in Contexts, NEW l \in Rescheduling, NEW a, Goto(c, l, a)
  PROVE  AlarmCovers'
  BY DEF TypeInv, TypeOK, AlarmCovers, Goto

\* A step that keeps the pool and the first deadline, by a context that was not
\* on its way to rearming.
LEMMA NoReschedulingNeeded ==
  ASSUME AlarmCovers, q'.waiting = q.waiting, q'.exec_at = q.exec_at,
         armed' = armed, refused' = refused,
         \A c \in Contexts : pc'[c] \notin Rescheduling => pc[c] \notin Rescheduling
  PROVE  AlarmCovers'
  BY DEF AlarmCovers

\* Scheduling a task for immediate execution: the first deadline changes only
\* if the caller goes on to rearm.
LEMMA ExecKeepsAlarm ==
  ASSUME TypeInv, AlarmCovers, NEW c \in Contexts, NEW t, pr_task_exec(c, t),
         pc[c] \notin Rescheduling
  PROVE  AlarmCovers'
<1>1. CASE ~is_pending(t) /\ is_waiting(t)
  BY <1>1, StillRescheduling DEF pr_task_exec, Rescheduling
<1>2. CASE ~(~is_pending(t) /\ is_waiting(t))
  <2>1. /\ q'.waiting = q.waiting
        /\ q'.exec_at = q.exec_at
    BY <1>2, PendingInsertKeepsWaiting DEF pr_task_exec
  <2>2. \A d \in Contexts : pc'[d] \notin Rescheduling => pc[d] \notin Rescheduling
    BY <1>2 DEF pr_task_exec, TypeInv, TypeOK, Return, Goto
  <2>3. armed' = armed /\ refused' = refused
    BY DEF pr_task_exec, timer
  <2>4. QED
    BY <2>1, <2>2, <2>3, NoReschedulingNeeded
<1>3. QED
  BY <1>1, <1>2

\* The unlocked part of scheduling a task with a delay changes no list.
LEMMA ExecInKeepsAlarm ==
  ASSUME TypeInv, AlarmCovers, NEW c \in Contexts, NEW t, NEW d,
         pr_task_exec_in(c, t, d), pc[c] \notin Rescheduling
  PROVE  AlarmCovers'
<1>1. \A b \in Contexts : pc'[b] \notin Rescheduling => pc[b] \notin Rescheduling
  BY DEF pr_task_exec_in, TypeInv, TypeOK, Return, Goto
<1>2. QED
  BY <1>1, NoReschedulingNeeded DEF pr_task_exec_in, timer

\* Every step preserves AlarmCovers, one case per action.
LEMMA AlarmCoversInductive == TypeInv /\ AlarmCovers /\ [Next]_vars => AlarmCovers'
<1> SUFFICES ASSUME TypeInv, AlarmCovers, [Next]_vars
             PROVE  AlarmCovers'
  OBVIOUS
<1>main. "main" \in Contexts /\ "alarm" \in Contexts /\ Irqs \subseteq Contexts
  BY DEF Contexts, Interrupts
<1>1. CASE EnterLoop
  BY <1>1, <1>main, NoReschedulingNeeded
     DEF EnterLoop, At, Goto, TypeInv, TypeOK, Rescheduling, timer
<1>2. CASE PopPending
  BY <1>2, <1>main, NoReschedulingNeeded, PendingPopKeepsWaiting
     DEF PopPending, At, Goto, TypeInv, TypeOK, Rescheduling, timer
<1>3. CASE LeaveLoop
  BY <1>3, <1>main, NoReschedulingNeeded
     DEF LeaveLoop, At, Goto, TypeInv, TypeOK, Rescheduling, timer
<1>4. CASE FireAlarm
  BY <1>4, <1>main, StillRescheduling DEF FireAlarm, Rescheduling
<1>5. CASE ptask_alarm
  BY <1>5, <1>main, StillRescheduling DEF ptask_alarm, Rescheduling
<1>6. CASE queue_waiting_process
  BY <1>6, <1>main, StillRescheduling DEF queue_waiting_process, Rescheduling
<1>7. CASE HandlerCallsExec
  <2>1. pc["main"] \notin Rescheduling
    BY <1>7 DEF HandlerCallsExec, At, Rescheduling
  <2>2. QED
    BY <1>7, <1>main, <2>1, ExecKeepsAlarm DEF HandlerCallsExec
<1>8. CASE HandlerCallsExecIn
  <2>1. pc["main"] \notin Rescheduling
    BY <1>8 DEF HandlerCallsExecIn, At, Rescheduling
  <2>2. QED
    BY <1>8, <1>main, <2>1, ExecInKeepsAlarm DEF HandlerCallsExecIn
<1>9. ASSUME NEW c \in Irqs, IrqCallsExec(c)
      PROVE  AlarmCovers'
  <2>1. pc[c] \notin Rescheduling
    BY <1>9 DEF IrqCallsExec, At, Rescheduling
  <2>2. QED
    BY <1>9, <1>main, <2>1, ExecKeepsAlarm DEF IrqCallsExec
<1>10. ASSUME NEW c \in Irqs, IrqCallsExecIn(c)
       PROVE  AlarmCovers'
  <2>1. pc[c] \notin Rescheduling
    BY <1>10 DEF IrqCallsExecIn, At, Rescheduling
  <2>2. QED
    BY <1>10, <1>main, <2>1, ExecInKeepsAlarm DEF IrqCallsExecIn
<1>11. ASSUME NEW c \in Contexts, Enqueue(c)
       PROVE  AlarmCovers'
  BY <1>11, StillRescheduling DEF Enqueue, Rescheduling
<1>12. ASSUME NEW c \in Contexts, LoadAlarm(c)
       PROVE  AlarmCovers'
  BY <1>12, StillRescheduling DEF LoadAlarm, Rescheduling
<1>13. ASSUME NEW c \in Contexts, CancelAlarm(c)
       PROVE  AlarmCovers'
  BY <1>13, StillRescheduling DEF CancelAlarm, Rescheduling
<1>14. ASSUME NEW c \in Contexts, ClearAlarm(c)
       PROVE  AlarmCovers'
  BY <1>14, StillRescheduling DEF ClearAlarm, Rescheduling
<1>15. ASSUME NEW c \in Contexts, CheckWaiting(c)
       PROVE  AlarmCovers'
  <2>1. CASE q.waiting = NULL
    BY <1>15, <2>1 DEF CheckWaiting, AlarmCovers
  <2>2. CASE q.waiting # NULL
    BY <1>15, <2>2, StillRescheduling DEF CheckWaiting, Rescheduling
  <2>3. QED
    BY <2>1, <2>2
<1>16. ASSUME NEW c \in Contexts, ArmAlarm(c)
       PROVE  AlarmCovers'
  <2>1. q' = q
    BY <1>16 DEF ArmAlarm
  <2>2. CASE q.waiting = NULL
    BY <2>1, <2>2 DEF AlarmCovers
  <2>3. CASE q.waiting # NULL
    <3>1. refused' \/ \E id \in DOMAIN armed' : armed'[id] = q.exec_at[q.waiting]
      BY <1>16, <2>3, AlarmArmed DEF ArmAlarm
    <3>2. q.exec_at[q.waiting] \in Int
      BY <2>3, TaskAssumption DEF TypeInv, TypeOK, QueueStates, Pointers, Times
    <3>3. QED
      BY <2>1, <3>1, <3>2 DEF AlarmCovers
  <2>4. QED
    BY <2>2, <2>3
<1>17. CASE Tick
  BY <1>17, NoReschedulingNeeded DEF Tick, timer
<1>18. CASE UNCHANGED vars
  BY <1>18, NoReschedulingNeeded DEF vars
<1>19. QED
  BY <1>1, <1>2, <1>3, <1>4, <1>5, <1>6, <1>7, <1>8, <1>9, <1>10, <1>11, <1>12, <1>13,
     <1>14, <1>15, <1>16, <1>17, <1>18 DEF Next, MainStep, AlarmStep, Reschedule

\* However many contexts interleave in the unlocked part of queue_reschedule,
\* and whatever their callers do to the lists, a waiting task has an alarm that
\* expires by its deadline as soon as nobody is rearming.
THEOREM AlarmAlwaysCovers == Spec => []AlarmCovers
<1>1. Init => AlarmCovers
  BY DEF Init, AlarmCovers
<1>2. QED
  BY <1>1, TypeInvInit, TypeInvInductive, AlarmCoversInductive, PTL DEF Spec

----------------------------------------------------------------------------
(* Lists.                                                                  *)

\* Where the link after the first k tasks of list is, and what it points to.
Link(list, k) == IF k = 0 THEN NULL ELSE list[k]
After(list, k) == IF k = Len(list) THEN NULL ELSE list[k + 1]

\* Following next from head gives list, in which no task is twice.
IsList(next, head, list) ==
  /\ list \in Seq(Tasks)
  /\ head = After(list, 0)
  /\ \A i \in 1 .. Len(list) : next[list[i]] = After(list, i)
  /\ \A i, j \in 1 .. Len(list) : list[i] = list[j] => i = j

In(t, list) == \E i \in 1 .. Len(list) : list[i] = t

Sorted(at, list) == \A i, j \in 1 .. Len(list) : i < j => at[list[i]] <= at[list[j]]

\* The queue's state s is that of pending list P and waiting list W.
Lists(s, P, W) ==
  /\ s \in QueueStates
  /\ IsList(s.next, s.first, P)
  /\ IsList(s.next, s.waiting, W)
  /\ s.last = Link(P, Len(P))
  /\ \A t \in Tasks : "PENDING" \in s.flags[t] <=> In(t, P)
  /\ \A t \in Tasks : "WAITING" \in s.flags[t] <=> In(t, W)
  /\ \A t \in Tasks : ~(In(t, P) /\ In(t, W))
  /\ Sorted(s.exec_at, W)

\* A function on 1 .. n is a sequence of length n.
LEMMA FunctionSeq ==
  ASSUME NEW S, NEW n \in Nat, NEW f \in [1 .. n -> S]
  PROVE  f \in Seq(S) /\ Len(f) = n
<1>1. f \in Seq(S)
  BY SeqDef
<1>2. Len(f) \in Nat /\ DOMAIN f = 1 .. Len(f)
  BY <1>1, LenProperties
<1> QED
  BY <1>1, <1>2

\* As many values as arguments.
LEMMA InjectiveImage ==
  ASSUME NEW n \in Nat, NEW S, NEW f \in [1 .. n -> S], \A t \in S : \E i \in 1 .. n : f[i] = t,
         \A i, j \in 1 .. n : f[i] = f[j] => i = j
  PROVE  IsFiniteSet(S) /\ Cardinality(S) = n
<1>1. f \in Bijection(1 .. n, S)
  BY Fun_IsBij
<1>2. IsFiniteSet(1 .. n) /\ Cardinality(1 .. n) = n
  <2>1. 1 \in Int /\ n \in Int
    OBVIOUS
  <2>2. Cardinality(1 .. n) = IF 1 > n THEN 0 ELSE n - 1 + 1
    BY <2>1, FS_Interval
  <2> QED
    BY <2>1, <2>2, FS_Interval
<1>3. ExistsBijection(1 .. n, S)
  BY <1>1 DEF ExistsBijection
<1> QED
  BY <1>2, <1>3, FS_Bijection

\* A list has no more members than there are tasks.
LEMMA ListLength ==
  ASSUME NEW next, NEW head, NEW list, IsList(next, head, list)
  PROVE  /\ Len(list) \in 0 .. Cardinality(Tasks)
         /\ Cardinality({list[i] : i \in 1 .. Len(list)}) = Len(list)
<1> DEFINE n == Len(list)
           S == {list[i] : i \in 1 .. n}
<1>1. n \in Nat /\ S \subseteq Tasks /\ list \in [1 .. n -> Tasks]
  BY LenProperties DEF IsList
<1>2. \A i, j \in 1 .. n : list[i] = list[j] => i = j
  BY DEF IsList
<1> HIDE DEF n
<1>3. IsFiniteSet(S) /\ Cardinality(S) = n
  <2>1. list \in [1 .. n -> S] /\ \A t \in S : \E i \in 1 .. n : list[i] = t
    BY <1>1
  <2> HIDE DEF S
  <2> QED
    BY <1>1, <1>2, <2>1, InjectiveImage
<1>4. Cardinality(S) <= Cardinality(Tasks) /\ Cardinality(Tasks) \in Nat
  BY <1>1, TaskAssumption, FS_Subset, FS_CardinalityType
<1>5. n \in 0 .. Cardinality(Tasks) /\ Cardinality(S) = n
  <2> HIDE DEF S
  <2> QED
    BY <1>1, <1>3, <1>4
<1> USE DEF n
<1> QED
  BY <1>5

\* A list without its k-th task, and with t after its first k tasks.
Without(list, k) == [i \in 1 .. Len(list) - 1 |-> IF i < k THEN list[i] ELSE list[i + 1]]
With(list, k, t) == [i \in 1 .. Len(list) + 1 |->
                       IF i <= k THEN list[i] ELSE IF i = k + 1 THEN t ELSE list[i - 1]]

\* A list is as long as a natural, and its elements are tasks.
LEMMA ListType ==
  ASSUME NEW list \in Seq(Tasks)
  PROVE  Len(list) \in Nat /\ \A i \in 1 .. Len(list) : list[i] \in Tasks
  BY LenProperties

\* A list without one of its members.
LEMMA WithoutType ==
  ASSUME NEW list \in Seq(Tasks), NEW k \in 1 .. Len(list)
  PROVE  /\ Without(list, k) \in Seq(Tasks)
         /\ Len(Without(list, k)) = Len(list) - 1
         /\ \A i \in 1 .. Len(list) - 1 :
              Without(list, k)[i] = IF i < k THEN list[i] ELSE list[i + 1]
<1>1. Len(list) - 1 \in Nat /\ Without(list, k) \in [1 .. Len(list) - 1 -> Tasks]
  BY ListType DEF Without
<1> QED
  BY <1>1, FunctionSeq DEF Without

\* A list with one more member.
LEMMA WithType ==
  ASSUME NEW list \in Seq(Tasks), NEW k \in 0 .. Len(list), NEW t \in Tasks
  PROVE  /\ With(list, k, t) \in Seq(Tasks)
         /\ Len(With(list, k, t)) = Len(list) + 1
         /\ \A i \in 1 .. Len(list) + 1 :
              With(list, k, t)[i] = IF i <= k THEN list[i]
                                    ELSE IF i = k + 1 THEN t ELSE list[i - 1]
<1>1. Len(list) + 1 \in Nat /\ With(list, k, t) \in [1 .. Len(list) + 1 -> Tasks]
  BY ListType DEF With
<1> QED
  BY <1>1, FunctionSeq DEF With

\* The tasks left when one is taken out, or present when one is put in.
LEMMA WithoutMembers ==
  ASSUME NEW list \in Seq(Tasks), NEW k \in 1 .. Len(list), NEW u,
         \A i, j \in 1 .. Len(list) : list[i] = list[j] => i = j
  PROVE  In(u, Without(list, k)) <=> In(u, list) /\ u # list[k]
<1> DEFINE n == Len(list)
           w == Without(list, k)
<1>1. n \in Nat /\ Len(w) = n - 1
      /\ \A i \in 1 .. n - 1 : w[i] = IF i < k THEN list[i] ELSE list[i + 1]
  BY ListType, WithoutType
<1>2. ASSUME In(u, w)
      PROVE  In(u, list) /\ u # list[k]
  <2>1. PICK i \in 1 .. n - 1 : w[i] = u
    BY <1>1, <1>2 DEF In
  <2>2. CASE i < k
    BY <1>1, <2>1, <2>2 DEF In
  <2>3. CASE ~(i < k)
    <3>1. u = list[i + 1] /\ i + 1 \in 1 .. n /\ i + 1 # k
      BY <1>1, <2>1, <2>3
    <3> QED
      BY <3>1 DEF In
  <2> QED
    BY <2>2, <2>3
<1>3. ASSUME In(u, list), u # list[k]
      PROVE  In(u, w)
  <2>1. PICK i \in 1 .. n : list[i] = u
    BY <1>3 DEF In
  <2>2. CASE i < k
    <3>1. i \in 1 .. n - 1 /\ w[i] = u
      BY <1>1, <2>1, <2>2
    <3> QED
      BY <1>1, <3>1 DEF In
  <2>3. CASE i > k
    <3>1. i - 1 \in 1 .. n - 1 /\ w[i - 1] = list[i - 1 + 1] /\ i - 1 + 1 = i
      BY <1>1, <2>1, <2>3
    <3> QED
      BY <1>1, <2>1, <3>1 DEF In
  <2> QED
    BY <1>3, <2>1, <2>2, <2>3
<1> QED
  BY <1>2, <1>3

\* It has those it had, and the new one.
LEMMA WithMembers ==
  ASSUME NEW list \in Seq(Tasks), NEW k \in 0 .. Len(list), NEW t \in Tasks, NEW u
  PROVE  In(u, With(list, k, t)) <=> In(u, list) \/ u = t
<1> DEFINE n == Len(list)
           w == With(list, k, t)
<1>1. n \in Nat /\ Len(w) = n + 1
      /\ \A i \in 1 .. n + 1 : w[i] = IF i <= k THEN list[i]
                                     ELSE IF i = k + 1 THEN t ELSE list[i - 1]
  BY ListType, WithType
<1>2. ASSUME In(u, w)
      PROVE  In(u, list) \/ u = t
  <2>1. PICK i \in 1 .. n + 1 : w[i] = u
    BY <1>1, <1>2 DEF In
  <2>2. i <= k => u = list[i] /\ i \in 1 .. n
    BY <1>1, <2>1
  <2>3. i > k + 1 => u = list[i - 1] /\ i - 1 \in 1 .. n
    BY <1>1, <2>1
  <2>4. i = k + 1 => u = t
    BY <1>1, <2>1
  <2> QED
    BY <1>1, <2>2, <2>3, <2>4 DEF In
<1>3. ASSUME In(u, list)
      PROVE  In(u, w)
  <2>1. PICK i \in 1 .. n : list[i] = u
    BY <1>3 DEF In
  <2>2. i <= k => i \in 1 .. n + 1 /\ w[i] = u
    BY <1>1, <2>1
  <2>3. i > k => i + 1 \in 1 .. n + 1 /\ w[i + 1] = list[i + 1 - 1] /\ i + 1 - 1 = i
    BY <1>1, <2>1
  <2> QED
    BY <1>1, <2>1, <2>2, <2>3 DEF In
<1>4. In(t, w)
  <2>1. k + 1 \in 1 .. n + 1 /\ w[k + 1] = t
    BY <1>1
  <2> QED
    BY <1>1, <2>1 DEF In
<1> QED
  BY <1>2, <1>3, <1>4

\* A list stays a list while none of its links changes.
LEMMA ListFrame ==
  ASSUME NEW next, NEW next2, NEW head, NEW list, IsList(next, head, list),
         \A i \in 1 .. Len(list) : next2[list[i]] = next[list[i]]
  PROVE  IsList(next2, head, list)
  BY DEF IsList

\* Closing a list over its k-th task.
LEMMA Unlinked ==
  ASSUME NEW next, NEW next2, NEW head, NEW head2, NEW list, NEW k \in 1 .. Len(list),
         IsList(next, head, list),
         head2 = IF k = 1 THEN next[list[k]] ELSE head,
         k > 1 => next2[list[k - 1]] = next[list[k]],
         \A i \in 1 .. Len(list) : i # k /\ i # k - 1 => next2[list[i]] = next[list[i]]
  PROVE  IsList(next2, head2, Without(list, k))
<1> DEFINE n == Len(list)
           w == Without(list, k)
<1>1. n \in Nat /\ w \in Seq(Tasks) /\ Len(w) = n - 1
      /\ \A i \in 1 .. n - 1 : w[i] = IF i < k THEN list[i] ELSE list[i + 1]
  BY ListType, WithoutType DEF IsList
<1>2. \A i \in 1 .. n : next[list[i]] = IF i = n THEN NULL ELSE list[i + 1]
  BY DEF IsList, After
<1>3. head = IF n = 0 THEN NULL ELSE list[1]
  BY DEF IsList, After
<1>4. \A i, j \in 1 .. n : list[i] = list[j] => i = j
  BY DEF IsList
<1> HIDE DEF n, w
<1>5. head2 = IF n - 1 = 0 THEN NULL ELSE w[1]
  BY <1>1, <1>2, <1>3 DEF n
<1>6. ASSUME NEW i \in 1 .. n - 1
      PROVE  next2[w[i]] = IF i = n - 1 THEN NULL ELSE w[i + 1]
  <2>1. CASE i < k - 1
    <3>1. w[i] = list[i] /\ w[i + 1] = list[i + 1] /\ next2[list[i]] = next[list[i]]
          /\ i \in 1 .. n /\ i # n /\ i # n - 1
      BY <1>1, <2>1 DEF n
    <3> QED
      BY <1>1, <1>2, <3>1
  <2>2. CASE i = k - 1
    <3>1. w[i] = list[i] /\ next2[list[i]] = next[list[k]] /\ k > 1 /\ i + 1 = k
      BY <1>1, <2>2 DEF n
    <3>2. i # n - 1 => w[i + 1] = list[k + 1]
      BY <1>1, <2>2 DEF n
    <3>3. i = n - 1 <=> k = n
      BY <1>1, <2>2
    <3> QED
      BY <1>2, <3>1, <3>2, <3>3 DEF n
  <2>3. CASE i >= k
    <3>0. i + 1 \in 1 .. n /\ i + 1 # k /\ i + 1 # k - 1
      BY <1>1, <2>3 DEF n
    <3>1. w[i] = list[i + 1] /\ next2[list[i + 1]] = next[list[i + 1]] /\ i + 1 \in 1 .. n
      BY <1>1, <2>3, <3>0 DEF n
    <3>2. i # n - 1 => w[i + 1] = list[i + 1 + 1] /\ i + 1 # n
      BY <1>1, <2>3 DEF n
    <3> QED
      BY <1>1, <1>2, <3>1, <3>2
  <2> QED
    BY <1>1, <2>1, <2>2, <2>3
<1>7. ASSUME NEW i \in 1 .. n - 1, NEW j \in 1 .. n - 1, w[i] = w[j]
      PROVE  i = j
  <2>1. w[i] = list[IF i < k THEN i ELSE i + 1] /\ w[j] = list[IF j < k THEN j ELSE j + 1]
    BY <1>1
  <2>2. (IF i < k THEN i ELSE i + 1) \in 1 .. n /\ (IF j < k THEN j ELSE j + 1) \in 1 .. n
    BY <1>1
  <2>3. (IF i < k THEN i ELSE i + 1) = (IF j < k THEN j ELSE j + 1)
    BY <1>4, <1>7, <2>1, <2>2, ZenonT(40)
  <2> QED
    BY <1>1, <2>3 DEF n
<1> QED
  BY <1>1, <1>5, <1>6, <1>7 DEF IsList, After, n, w

\* Linking t in after the first k tasks of a list.
LEMMA LinkedIn ==
  ASSUME NEW next, NEW next2, NEW head, NEW head2, NEW list, NEW k \in 0 .. Len(list),
         NEW t \in Tasks, IsList(next, head, list), ~In(t, list),
         head2 = IF k = 0 THEN t ELSE head,
         k > 0 => next2[list[k]] = t,
         next2[t] = After(list, k),
         \A i \in 1 .. Len(list) : i # k => next2[list[i]] = next[list[i]]
  PROVE  IsList(next2, head2, With(list, k, t))
<1> DEFINE n == Len(list)
           w == With(list, k, t)
<1>1. n \in Nat /\ w \in Seq(Tasks) /\ Len(w) = n + 1
      /\ \A i \in 1 .. n + 1 : w[i] = IF i <= k THEN list[i]
                                     ELSE IF i = k + 1 THEN t ELSE list[i - 1]
  <2>1. list \in Seq(Tasks)
    BY DEF IsList
  <2> QED
    BY <2>1, ListType, WithType, ZenonT(40)
<1>2. \A i \in 1 .. n : next[list[i]] = IF i = n THEN NULL ELSE list[i + 1]
  BY DEF IsList, After
<1>3. head = IF n = 0 THEN NULL ELSE list[1]
  BY DEF IsList, After
<1>4. (\A i, j \in 1 .. n : list[i] = list[j] => i = j) /\ \A i \in 1 .. n : list[i] # t
  BY DEF IsList, In
<1>0. next2[t] = IF k = n THEN NULL ELSE list[k + 1]
  BY DEF After
<1> HIDE DEF n, w
<1>5. head2 = IF n + 1 = 0 THEN NULL ELSE w[1]
  BY <1>1, <1>3 DEF n
<1>6. ASSUME NEW i \in 1 .. n + 1
      PROVE  next2[w[i]] = IF i = n + 1 THEN NULL ELSE w[i + 1]
  <2>1. CASE i < k
    <3>1. w[i] = list[i] /\ w[i + 1] = list[i + 1] /\ next2[list[i]] = next[list[i]]
          /\ i \in 1 .. n /\ i # n /\ i # n + 1
      BY <1>1, <2>1 DEF n
    <3> QED
      BY <1>1, <1>2, <3>1
  <2>2. CASE i = k
    <3>1. w[i] = list[k] /\ w[i + 1] = t /\ i # n + 1 /\ next2[list[k]] = t
      BY <1>1, <2>2 DEF n
    <3> QED
      BY <3>1
  <2>3. CASE i = k + 1
    <3>0. k + 1 \in 1 .. n + 1 /\ ~(k + 1 <= k) /\ (i = n + 1 <=> k = n)
      BY <1>1, <2>3 DEF n
    <3>1. w[i] = t /\ (i = n + 1 <=> k = n)
      BY <1>1, <2>3, <3>0
    <3>2. i # n + 1 => w[i + 1] = list[i + 1 - 1] /\ i + 1 - 1 = k + 1
      BY <1>1, <2>3 DEF n
    <3> QED
      BY <1>0, <3>1, <3>2
  <2>4. CASE i > k + 1
    <3>1. w[i] = list[i - 1] /\ next2[list[i - 1]] = next[list[i - 1]] /\ i - 1 \in 1 .. n
      BY <1>1, <2>4 DEF n
    <3>0. n \in Nat /\ k \in 0 .. n
      BY <1>1 DEF n
    <3>2. i # n + 1 => /\ i + 1 \in 1 .. n + 1 /\ i - 1 # n /\ i + 1 - 1 = i - 1 + 1
                       /\ ~(i + 1 <= k) /\ i + 1 # k + 1
      BY <2>4, <3>0
    <3>3. i # n + 1 => w[i + 1] = list[i + 1 - 1]
      BY <1>1, <3>2
    <3>4. i - 1 = n <=> i = n + 1
      BY <1>1
    <3> QED
      BY <1>2, <3>1, <3>2, <3>3, <3>4
  <2> QED
    BY <1>1, <2>1, <2>2, <2>3, <2>4
<1>7. ASSUME NEW i \in 1 .. n + 1, NEW j \in 1 .. n + 1, w[i] = w[j]
      PROVE  i = j
  <2>1. /\ i # k + 1 => w[i] = list[IF i <= k THEN i ELSE i - 1] 
                         /\ (IF i <= k THEN i ELSE i - 1) \in 1 .. n
        /\ j # k + 1 => w[j] = list[IF j <= k THEN j ELSE j - 1]
                         /\ (IF j <= k THEN j ELSE j - 1) \in 1 .. n
    BY <1>1 DEF n
  <2>2. w[k + 1] = t
    BY <1>1 DEF n
  <2>3. i # k + 1 /\ j # k + 1 => (IF i <= k THEN i ELSE i - 1) = (IF j <= k THEN j ELSE j - 1)
    BY <1>4, <1>7, <2>1
  <2> QED
    BY <1>1, <1>4, <1>7, <2>1, <2>2, <2>3
<1> QED
  BY <1>1, <1>5, <1>6, <1>7 DEF IsList, After, n, w

----------------------------------------------------------------------------
(* What the helpers of task.c do to the two lists.                         *)

\* A task in neither list becomes the last pending one.
LEMMA PendingInsertLists ==
  ASSUME NEW s, NEW P, NEW W, Lists(s, P, W), NEW t \in Tasks, ~In(t, P), ~In(t, W)
  PROVE  Lists(pending_insert(s, t), With(P, Len(P), t), W)
<1> DEFINE d == pending_insert(s, t)
           n == Len(P)
<1>1. s \in QueueStates /\ d \in QueueStates
  BY PendingInsertType DEF Lists
<1>2. /\ d.first = (IF s.first = NULL THEN t ELSE s.first) /\ d.last = t
      /\ d.waiting = s.waiting /\ d.exec_at = s.exec_at
      /\ \A u \in Tasks : d.next[u] = IF u = s.last THEN t ELSE IF u = t THEN NULL ELSE s.next[u]
      /\ \A u \in Tasks : d.flags[u] = IF u = t THEN s.flags[u] \cup {"PENDING"} ELSE s.flags[u]
  BY <1>1 DEF pending_insert, QueueStates
<1>3. /\ IsList(s.next, s.first, P) /\ IsList(s.next, s.waiting, W)
      /\ s.last = Link(P, n)
      /\ \A u \in Tasks : ~(In(u, P) /\ In(u, W))
  BY DEF Lists
<1>4. n \in Nat /\ (\A i \in 1 .. n : P[i] \in Tasks)
      /\ Len(W) \in Nat /\ (\A i \in 1 .. Len(W) : W[i] \in Tasks)
  BY <1>3, ListType DEF IsList
<1>5. s.last # t
  BY <1>3, <1>4, TaskAssumption DEF Link, In
<1>6. s.first = NULL <=> n = 0
  BY <1>3, <1>4, TaskAssumption DEF IsList, After
<1>7. IsList(d.next, d.first, With(P, n, t))
  <2>1. \A i \in 1 .. n : i # n => d.next[P[i]] = s.next[P[i]]
    <3> SUFFICES ASSUME NEW i \in 1 .. n, i # n
                 PROVE  d.next[P[i]] = s.next[P[i]]
      OBVIOUS
    <3>1. P[i] # t /\ P[i] # s.last /\ P[i] \in Tasks
      BY <1>3, <1>4 DEF Link, In, IsList
    <3> QED
      BY <1>2, <3>1
  <2>2. d.next[t] = After(P, n)
    BY <1>2, <1>5 DEF After
  <2>3. n > 0 => d.next[P[n]] = t
    BY <1>2, <1>3, <1>4 DEF Link
  <2>4. d.first = IF n = 0 THEN t ELSE s.first
    BY <1>2, <1>6
  <2>5. n \in 0 .. n
    BY <1>4
  <2> HIDE DEF d
  <2> QED
    BY <1>3, <2>1, <2>2, <2>3, <2>4, <2>5, LinkedIn
<1>8. IsList(d.next, d.waiting, W)
  <2>1. \A i \in 1 .. Len(W) : d.next[W[i]] = s.next[W[i]]
    <3> SUFFICES ASSUME NEW i \in 1 .. Len(W)
                 PROVE  d.next[W[i]] = s.next[W[i]]
      OBVIOUS
    <3>1. W[i] # t /\ W[i] \in Tasks /\ In(W[i], W)
      BY <1>4 DEF In
    <3>2. W[i] # s.last
      BY <1>3, <1>4, <3>1, TaskAssumption DEF Link, In
    <3> QED
      BY <1>2, <3>1, <3>2
  <2> QED
    BY <1>2, <1>3, <2>1, ListFrame
<1>9. /\ d.last = Link(With(P, n, t), n + 1) /\ Len(With(P, n, t)) = n + 1
      /\ \A u : In(u, With(P, n, t)) <=> In(u, P) \/ u = t
  <2> HIDE DEF d
  <2>1. P \in Seq(Tasks) /\ n \in 0 .. n /\ n + 1 \in 1 .. n + 1 /\ ~(n + 1 <= n)
    BY <1>3, <1>4 DEF IsList
  <2>2. Len(With(P, n, t)) = n + 1 /\ With(P, n, t)[n + 1] = t
    BY <2>1, WithType
  <2>3. \A u : In(u, With(P, n, t)) <=> In(u, P) \/ u = t
    BY <2>1, WithMembers
  <2>4. n + 1 # 0
    BY <1>4
  <2> QED
    BY <1>2, <2>2, <2>3, <2>4 DEF Link
<1> HIDE DEF d, n
<1>14. \A u \in Tasks : /\ "PENDING" \in s.flags[u] <=> In(u, P)
                        /\ "WAITING" \in s.flags[u] <=> In(u, W)
  BY DEF Lists
<1>10. \A u \in Tasks : "PENDING" \in d.flags[u] <=> In(u, With(P, n, t))
  BY <1>2, <1>9, <1>14
<1>11. \A u \in Tasks : "WAITING" \in d.flags[u] <=> In(u, W)
  <2>1. \A u \in Tasks : "WAITING" \in d.flags[u] <=> "WAITING" \in s.flags[u]
    <3>1. \A u \in Tasks : d.flags[u] \subseteq s.flags[u] \cup {"PENDING"}
                          /\ s.flags[u] \subseteq d.flags[u]
      BY <1>2, Zenon
    <3> QED
      BY <3>1
  <2> QED
    BY <1>14, <2>1
<1>12. \A u \in Tasks : ~(In(u, With(P, n, t)) /\ In(u, W))
  BY <1>3, <1>9
<1>13. Sorted(d.exec_at, W)
  BY <1>2 DEF Lists
<1> USE DEF d, n
<1> QED
  BY <1>1, <1>7, <1>8, <1>9, <1>10, <1>11, <1>12, <1>13 DEF Lists

\* The first pending task leaves its list.
LEMMA PendingPopLists ==
  ASSUME NEW s, NEW P, NEW W, Lists(s, P, W), s.first # NULL
  PROVE  /\ 1 \in 1 .. Len(P) /\ s.first = P[1]
         /\ Lists(pending_pop(s), Without(P, 1), W)
<1> DEFINE d == pending_pop(s)
           n == Len(P)
           t == s.first
<1>1. s \in QueueStates /\ d \in QueueStates /\ t \in Tasks
  BY PendingPopType DEF Lists, QueueStates, Pointers
<1>2. /\ d.first = s.next[t] /\ d.last = (IF s.last = t THEN NULL ELSE s.last)
      /\ d.waiting = s.waiting /\ d.exec_at = s.exec_at
      /\ \A u \in Tasks : d.next[u] = IF u = t THEN NULL ELSE s.next[u]
      /\ \A u \in Tasks : d.flags[u] = IF u = t THEN s.flags[u] \ {"PENDING"} ELSE s.flags[u]
  BY <1>1 DEF pending_pop, QueueStates
<1>3. /\ IsList(s.next, s.first, P) /\ IsList(s.next, s.waiting, W)
      /\ s.last = Link(P, n)
      /\ \A u \in Tasks : ~(In(u, P) /\ In(u, W))
  BY DEF Lists
<1>4. n \in Nat /\ (\A i \in 1 .. n : P[i] \in Tasks) /\ P \in Seq(Tasks)
      /\ Len(W) \in Nat /\ (\A i \in 1 .. Len(W) : W[i] \in Tasks)
  BY <1>3, ListType DEF IsList
<1>5. n # 0 /\ t = P[1] /\ 1 \in 1 .. n
  BY <1>3, <1>4 DEF IsList, After
<1>6. \A i, j \in 1 .. n : P[i] = P[j] => i = j
  BY <1>3 DEF IsList
<1>7. IsList(d.next, d.first, Without(P, 1))
  <2>1. \A i \in 1 .. n : i # 1 => d.next[P[i]] = s.next[P[i]]
    <3> HIDE DEF d, n, t
    <3> QED
      BY <1>2, <1>4, <1>5, <1>6
  <2>2. d.first = s.next[P[1]]
    BY <1>2, <1>5
  <2>3. /\ d.first = IF 1 = 1 THEN s.next[P[1]] ELSE s.first
        /\ 1 > 1 => d.next[P[1 - 1]] = s.next[P[1]]
        /\ \A i \in 1 .. n : i # 1 /\ i # 1 - 1 => d.next[P[i]] = s.next[P[i]]
    <3> HIDE DEF d, n
    <3> QED
      BY <2>1, <2>2
  <2> HIDE DEF d
  <2> QED
    BY <1>3, <1>5, <2>3, Unlinked
<1>8. IsList(d.next, d.waiting, W)
  <2>1. \A i \in 1 .. Len(W) : d.next[W[i]] = s.next[W[i]]
    <3> HIDE DEF d, t
    <3> QED
      BY <1>2, <1>3, <1>4, <1>5 DEF In
  <2> QED
    BY <1>2, <1>3, <2>1, ListFrame
<1>9. /\ Len(Without(P, 1)) = n - 1
      /\ \A i \in 1 .. n - 1 : Without(P, 1)[i] = P[i + 1]
      /\ \A u : In(u, Without(P, 1)) <=> In(u, P) /\ u # t
  <2> HIDE DEF d, t
  <2>1. /\ Len(Without(P, 1)) = n - 1
        /\ \A i \in 1 .. n - 1 : Without(P, 1)[i] = P[i + 1]
    BY <1>4, <1>5, WithoutType
  <2>2. \A u : In(u, Without(P, 1)) <=> In(u, P) /\ u # P[1]
    BY <1>4, <1>5, <1>6, WithoutMembers
  <2> QED
    BY <1>5, <2>1, <2>2
<1> HIDE DEF d, n, t
<1>14. d.last = Link(Without(P, 1), n - 1)
  <2>1. CASE n = 1
    <3>1. n - 1 = 0 /\ s.last = t
      BY <1>3, <1>5, <2>1 DEF Link
    <3> QED
      BY <1>2, <3>1 DEF Link
  <2>2. CASE n # 1
    <3>1. n - 1 \in 1 .. n - 1 /\ n \in 1 .. n /\ n - 1 # 0 /\ n - 1 + 1 = n
      BY <1>4, <1>5, <2>2
    <3>2. s.last = P[n] /\ P[n] # t
      BY <1>3, <1>5, <1>6, <2>2, <3>1 DEF Link
    <3> QED
      BY <1>2, <1>9, <3>1, <3>2 DEF Link
  <2> QED
    BY <2>1, <2>2
<1>15. \A u \in Tasks : /\ "PENDING" \in s.flags[u] <=> In(u, P)
                        /\ "WAITING" \in s.flags[u] <=> In(u, W)
  BY DEF Lists
<1>10. \A u \in Tasks : "PENDING" \in d.flags[u] <=> In(u, Without(P, 1))
  BY <1>2, <1>9, <1>15
<1>11. \A u \in Tasks : "WAITING" \in d.flags[u] <=> In(u, W)
  BY <1>2, <1>15
<1>12. \A u \in Tasks : ~(In(u, Without(P, 1)) /\ In(u, W))
  BY <1>3, <1>9
<1>13. Sorted(d.exec_at, W)
  BY <1>2 DEF Lists
<1> USE DEF d, n, t
<1> QED
  BY <1>1, <1>5, <1>7, <1>8, <1>9, <1>10, <1>11, <1>12, <1>13, <1>14 DEF Lists

\* The walk of the waiting list stops before its first task in set, or at the
\* end of the list.
LEMMA WalkStops ==
  ASSUME NEW s, NEW P, NEW W, Lists(s, P, W), NEW set
  PROVE  \E k \in 0 .. Len(W) :
           /\ WalkUntil(s, set) = Link(W, k) /\ Linked(s, Link(W, k)) = After(W, k)
           /\ \A i \in 1 .. k : W[i] \notin set
           /\ k # Len(W) => W[k + 1] \in set
<1> DEFINE N == Cardinality(Tasks)
           n == Len(W)
           Stop(k) == k = n \/ W[k + 1] \in set
<1>1. N \in Nat /\ n \in 0 .. N /\ \A i \in 1 .. n : W[i] \in Tasks
  <2>1. IsList(s.next, s.waiting, W)
    BY DEF Lists
  <2> QED
    BY <2>1, TaskAssumption, FS_CardinalityType, ListLength, ListType DEF IsList
<1>2. PICK w \in [0 .. N -> Pointers] :
        /\ WalkUntil(s, set) = w[N]
        /\ \A i \in 0 .. N : w[i] = IF i = 0 THEN NULL ELSE Follow(s, set, w[i - 1])
  BY WalkSteps DEF Lists
<1>3. ASSUME NEW k \in 0 .. n
      PROVE  Linked(s, Link(W, k)) = After(W, k)
  BY <1>1, TaskAssumption DEF Link, Linked, Lists, IsList, After
<1>4. ASSUME NEW k \in 0 .. n
      PROVE  Follow(s, set, Link(W, k)) = IF Stop(k) THEN Link(W, k) ELSE Link(W, k + 1)
  <2>1. k # n => k + 1 \in 1 .. n /\ W[k + 1] # NULL /\ k + 1 # 0
    BY <1>1, TaskAssumption
  <2> QED
    BY <1>3, <2>1 DEF Follow, After, Link
<1> DEFINE Stands(i, k) == /\ w[i] = Link(W, k)
                           /\ \A j \in 1 .. k : W[j] \notin set
                           /\ k = i \/ Stop(k)
           S == {i \in Nat : i <= N => \E k \in 0 .. n : Stands(i, k)}
<1> HIDE DEF N, n, Stop
<1>5. 0 \in S
  <2>1. 0 \in 0 .. n /\ Stands(0, 0)
    BY <1>1, <1>2 DEF Link
  <2> QED
    BY <2>1
<1>6. ASSUME NEW i \in Nat, i \in S
      PROVE  i + 1 \in S
  <2> SUFFICES ASSUME i + 1 <= N
               PROVE  \E k \in 0 .. n : Stands(i + 1, k)
    OBVIOUS
  <2>1. PICK k \in 0 .. n : Stands(i, k)
    BY <1>1, <1>6
  <2>2. w[i + 1] = Follow(s, set, Link(W, k))
    BY <1>1, <1>2, <2>1
  <2>3. CASE Stop(k)
    <3>1. Stands(i + 1, k)
      BY <1>4, <2>1, <2>2, <2>3
    <3> QED
      BY <3>1
  <2>4. CASE ~Stop(k)
    <3>1. k + 1 \in 0 .. n /\ W[k + 1] \notin set /\ k = i
      BY <1>1, <2>1, <2>4 DEF Stop
    <3>2. w[i + 1] = Link(W, k + 1)
      BY <1>4, <2>2, <2>4
    <3>3. Stands(i + 1, k + 1)
      BY <1>1, <2>1, <3>1, <3>2
    <3> QED
      BY <3>1, <3>3
  <2> QED
    BY <2>3, <2>4
<1>7. N \in S
  BY <1>1, <1>5, <1>6, SetInduction
<1>8. PICK k \in 0 .. n : Stands(N, k)
  BY <1>1, <1>7
<1>9. Stop(k)
  BY <1>1, <1>8 DEF Stop
<1> QED
  BY <1>2, <1>3, <1>8, <1>9 DEF Stop, n, N

\* The k-th waiting task, taken off the list through the link before it.
LEMMA UnlinkLists ==
  ASSUME NEW s, NEW P, NEW W, Lists(s, P, W), NEW k \in 1 .. Len(W)
  PROVE  LET d == NoLongerWaiting(Relink(s, Link(W, k - 1), s.next[W[k]]), W[k]) IN
         /\ Lists(d, P, Without(W, k))
         /\ W[k] \in Tasks /\ ~In(W[k], P) /\ ~In(W[k], Without(W, k))
         /\ \A u \in Tasks : u # W[k] => d.exec_at[u] = s.exec_at[u]
<1> DEFINE n == Len(W)
           t == W[k]
           l == Link(W, k - 1)
           r == Relink(s, l, s.next[t])
           d == NoLongerWaiting(r, t)
<1>1. /\ IsList(s.next, s.first, P) /\ IsList(s.next, s.waiting, W)
      /\ s.last = Link(P, Len(P)) /\ s \in QueueStates
      /\ \A u \in Tasks : ~(In(u, P) /\ In(u, W))
  BY DEF Lists
<1>2. /\ Len(P) \in Nat /\ (\A i \in 1 .. Len(P) : P[i] \in Tasks)
      /\ n \in Nat /\ (\A i \in 1 .. n : W[i] \in Tasks) /\ W \in Seq(Tasks)
  BY <1>1, ListType DEF IsList
<1>3. \A i, j \in 1 .. n : W[i] = W[j] => i = j
  BY <1>1 DEF IsList
<1>4. t \in Tasks /\ In(t, W) /\ ~In(t, P)
  BY <1>1, <1>2 DEF In
<1>5. /\ l \in Pointers /\ (l = NULL <=> k = 1) /\ (k > 1 => l = W[k - 1] /\ k - 1 \in 1 .. n)
      /\ l # t
  BY <1>2, <1>3, TaskAssumption DEF Link, Pointers
<1>6. s.next[t] \in Pointers
  BY <1>1, <1>4 DEF QueueStates
<1>7. r \in QueueStates /\ d \in QueueStates
  BY <1>1, <1>4, <1>5, <1>6, RelinkType, NoLongerWaitingType
<1> HIDE DEF n, t, l
<1>8. /\ r.first = s.first /\ r.last = s.last /\ r.exec_at = s.exec_at /\ r.flags = s.flags
      /\ r.waiting = (IF l = NULL THEN s.next[t] ELSE s.waiting)
      /\ \A u \in Tasks : r.next[u] = IF u = l THEN s.next[t] ELSE s.next[u]
  BY <1>1, <1>5, TaskAssumption DEF Relink, QueueStates, Pointers
<1> HIDE DEF r
<1>9. /\ d.first = s.first /\ d.last = s.last
      /\ d.waiting = (IF l = NULL THEN s.next[t] ELSE s.waiting)
      /\ \A u \in Tasks : d.next[u] = IF u = t THEN NULL ELSE IF u = l THEN s.next[t] ELSE s.next[u]
      /\ \A u \in Tasks : d.flags[u] = IF u = t THEN s.flags[u] \ {"WAITING"} ELSE s.flags[u]
      /\ \A u \in Tasks : u # t => d.exec_at[u] = s.exec_at[u]
  BY <1>4, <1>7, <1>8 DEF NoLongerWaiting, QueueStates
<1> HIDE DEF d
<1>10. IsList(d.next, d.first, P)
  <2>1. \A i \in 1 .. Len(P) : d.next[P[i]] = s.next[P[i]]
    <3> SUFFICES ASSUME NEW i \in 1 .. Len(P)
                 PROVE  d.next[P[i]] = s.next[P[i]]
      OBVIOUS
    <3>1. P[i] \in Tasks /\ In(P[i], P)
      BY <1>2 DEF In
    <3>2. ~In(P[i], W)
      BY <1>1, <3>1
    <3>3. P[i] # t /\ P[i] # l
      BY <1>4, <1>5, <3>1, <3>2, TaskAssumption DEF In, n
    <3> QED
      BY <1>9, <3>1, <3>3
  <2> QED
    BY <1>1, <1>9, <2>1, ListFrame
<1>11. IsList(d.next, d.waiting, Without(W, k))
  <2>1. \A i \in 1 .. n : i # k /\ i # k - 1 => d.next[W[i]] = s.next[W[i]]
    <3> SUFFICES ASSUME NEW i \in 1 .. n, i # k, i # k - 1
                 PROVE  d.next[W[i]] = s.next[W[i]]
      OBVIOUS
    <3>1. W[i] # t /\ W[i] # l /\ W[i] \in Tasks
      BY <1>2, <1>3, <1>5, TaskAssumption DEF n, t
    <3> QED
      BY <1>9, <3>1
  <2>2. k > 1 => d.next[W[k - 1]] = s.next[t]
    BY <1>2, <1>5, <1>9
  <2>3. d.waiting = IF k = 1 THEN s.next[t] ELSE s.waiting
    BY <1>5, <1>9
  <2> QED
    BY <1>1, <2>1, <2>2, <2>3, Unlinked DEF n, t
<1>12. /\ Len(Without(W, k)) = n - 1
       /\ \A i \in 1 .. n - 1 : Without(W, k)[i] = IF i < k THEN W[i] ELSE W[i + 1]
       /\ \A u : In(u, Without(W, k)) <=> In(u, W) /\ u # t
  BY <1>2, <1>3, WithoutType, WithoutMembers DEF n, t
<1>13. \A u \in Tasks : /\ "PENDING" \in s.flags[u] <=> In(u, P)
                        /\ "WAITING" \in s.flags[u] <=> In(u, W)
  BY DEF Lists
<1>14. \A u \in Tasks : /\ "PENDING" \in d.flags[u] <=> In(u, P)
                        /\ "WAITING" \in d.flags[u] <=> In(u, Without(W, k))
  BY <1>9, <1>12, <1>13
<1>15. \A u \in Tasks : ~(In(u, P) /\ In(u, Without(W, k)))
  BY <1>1, <1>12
<1>16. Sorted(d.exec_at, Without(W, k))
  <2> DEFINE at(i) == IF i < k THEN i ELSE i + 1
  <2>1. \A i \in 1 .. n - 1 : /\ at(i) \in 1 .. n /\ at(i) # k
                             /\ Without(W, k)[i] = W[at(i)]
    BY <1>2, <1>12 DEF n
  <2>2. \A i, j \in 1 .. n - 1 : i < j => at(i) < at(j)
    BY <1>2 DEF n
  <2>3. \A i \in 1 .. n - 1 : d.exec_at[Without(W, k)[i]] = s.exec_at[W[at(i)]]
    <3> SUFFICES ASSUME NEW i \in 1 .. n - 1
                 PROVE  d.exec_at[Without(W, k)[i]] = s.exec_at[W[at(i)]]
      OBVIOUS
    <3>1. W[at(i)] \in Tasks /\ W[at(i)] # t
      BY <1>2, <1>3, <2>1 DEF t, n
    <3> QED
      BY <1>9, <2>1, <3>1
  <2>4. \A i, j \in 1 .. n : i < j => s.exec_at[W[i]] <= s.exec_at[W[j]]
    BY SMTT(40) DEF Lists, Sorted, n
  <2> HIDE DEF at
  <2> QED
    BY <1>12, <2>1, <2>2, <2>3, <2>4, SMTT(40) DEF Sorted
<1>17. Lists(d, P, Without(W, k))
  BY <1>1, <1>7, <1>9, <1>10, <1>11, <1>14, <1>15, <1>16 DEF Lists
<1>18. ~In(t, Without(W, k))
  BY <1>12
<1> QED
  BY <1>4, <1>9, <1>17, <1>18 DEF d, r, l, t

\* A waiting task leaves the waiting list, wherever it is.
LEMMA WaitRemoveLists ==
  ASSUME NEW s, NEW P, NEW W, Lists(s, P, W), NEW t, In(t, W)
  PROVE  \E k \in 1 .. Len(W) :
           /\ W[k] = t /\ Lists(wait_remove(s, t), P, Without(W, k))
           /\ t \in Tasks /\ ~In(t, P) /\ ~In(t, Without(W, k))
           /\ \A u \in Tasks : u # t => wait_remove(s, t).exec_at[u] = s.exec_at[u]
<1>1. Len(W) \in Nat
  BY ListType DEF Lists, IsList
<1>2. PICK j \in 0 .. Len(W) :
        /\ WalkUntil(s, {t}) = Link(W, j) /\ Linked(s, Link(W, j)) = After(W, j)
        /\ \A i \in 1 .. j : W[i] \notin {t}
        /\ j # Len(W) => W[j + 1] \in {t}
  BY WalkStops
<1>3. j # Len(W)
  BY <1>2 DEF In
<1>4. j + 1 \in 1 .. Len(W) /\ W[j + 1] = t /\ j + 1 - 1 = j /\ Linked(s, Link(W, j)) = t
  BY <1>1, <1>2, <1>3 DEF After
<1>5. wait_remove(s, t) = NoLongerWaiting(Relink(s, Link(W, j + 1 - 1), s.next[W[j + 1]]), W[j + 1])
  BY <1>2, <1>4 DEF wait_remove
<1> DEFINE k == j + 1
<1>6. k \in 1 .. Len(W) /\ W[k] = t
      /\ wait_remove(s, t) = NoLongerWaiting(Relink(s, Link(W, k - 1), s.next[W[k]]), W[k])
  BY <1>4, <1>5
<1> HIDE DEF k
<1> QED
  BY <1>6, UnlinkLists

\* From s to d no deadline changes but that of t.
SameTimes(d, s, t) == \A u \in Tasks : u # t => d.exec_at[u] = s.exec_at[u]

\* The first waiting task leaves the waiting list.
LEMMA WaitPopLists ==
  ASSUME NEW s, NEW P, NEW W, Lists(s, P, W), s.waiting # NULL
  PROVE  /\ 1 \in 1 .. Len(W) /\ s.waiting = W[1] /\ Lists(wait_pop(s), P, Without(W, 1))
         /\ W[1] \in Tasks /\ ~In(W[1], P) /\ ~In(W[1], Without(W, 1))
         /\ SameTimes(wait_pop(s), s, W[1])
<1>1. Len(W) \in Nat /\ s.waiting = After(W, 0)
  BY ListType DEF Lists, IsList
<1>2. 1 \in 1 .. Len(W) /\ s.waiting = W[1]
  BY <1>1 DEF After
<1>3. Link(W, 1 - 1) = NULL
  BY DEF Link
<1>4. wait_pop(s) = NoLongerWaiting(Relink(s, Link(W, 1 - 1), s.next[W[1]]), W[1])
  BY <1>2, <1>3 DEF wait_pop
<1> QED
  BY <1>2, <1>4, UnlinkLists DEF SameTimes

\* A task in neither list is linked into the waiting list where its deadline
\* puts it.
LEMMA WaitInsertLists ==
  ASSUME NEW s, NEW P, NEW W, Lists(s, P, W), NEW t \in Tasks, ~In(t, P), ~In(t, W),
         NEW at \in Times
  PROVE  \E k \in 0 .. Len(W) :
           /\ Lists(wait_insert(s, t, at), P, With(W, k, t))
           /\ wait_insert(s, t, at).exec_at = [s.exec_at EXCEPT ![t] = at]
<1> DEFINE n == Len(W)
           set == {u \in Tasks : s.exec_at[u] >= at}
           l == WalkUntil(s, set)
           r == [first |-> s.first, last |-> s.last, waiting |-> s.waiting,
                 next    |-> [s.next EXCEPT ![t] = Linked(s, l)],
                 flags   |-> [s.flags EXCEPT ![t] = @ \cup {"WAITING"}],
                 exec_at |-> [s.exec_at EXCEPT ![t] = at]]
           d == Relink(r, l, t)
<1>d. wait_insert(s, t, at) = d
  BY DEF wait_insert
<1>1. /\ IsList(s.next, s.first, P) /\ IsList(s.next, s.waiting, W)
      /\ s.last = Link(P, Len(P)) /\ s \in QueueStates
      /\ \A u \in Tasks : ~(In(u, P) /\ In(u, W))
  BY DEF Lists
<1>2. /\ Len(P) \in Nat /\ (\A i \in 1 .. Len(P) : P[i] \in Tasks)
      /\ n \in Nat /\ (\A i \in 1 .. n : W[i] \in Tasks) /\ W \in Seq(Tasks)
  BY <1>1, ListType DEF IsList
<1>3. \A i, j \in 1 .. n : W[i] = W[j] => i = j
  BY <1>1 DEF IsList
<1>4. PICK k \in 0 .. n :
        /\ l = Link(W, k) /\ Linked(s, Link(W, k)) = After(W, k)
        /\ \A i \in 1 .. k : W[i] \notin set
        /\ k # n => W[k + 1] \in set
  BY WalkStops
<1>5. /\ l \in Pointers /\ (l = NULL <=> k = 0) /\ (k > 0 => l = W[k] /\ k \in 1 .. n)
      /\ l # t /\ Linked(s, l) = After(W, k)
  <2> HIDE DEF l, set
  <2> QED
    BY <1>2, <1>4, TaskAssumption DEF Link, Pointers, In
<1>6. Linked(s, l) \in Pointers
  BY <1>1, <1>5, LinkedType
<1>7. /\ \A i \in 1 .. k : s.exec_at[W[i]] < at
      /\ k # n => s.exec_at[W[k + 1]] >= at
      /\ \A i \in 1 .. n : s.exec_at[W[i]] \in Int
      /\ at \in Int
  <2>1. /\ \A i \in 1 .. n : s.exec_at[W[i]] \in Int
        /\ at \in Int
    BY <1>1, <1>2 DEF QueueStates, Times
  <2> HIDE DEF l
  <2> QED
    BY <1>2, <1>4, <2>1
<1>8. d \in QueueStates
  BY <1>d, <1>1, WaitInsertType
<1> HIDE DEF n, set, l
<1>r. r \in QueueStates
  BY <1>1, <1>6 DEF QueueStates, Pointers, Flags
<1>9. /\ r.first = s.first /\ r.last = s.last /\ r.waiting = s.waiting
      /\ r.exec_at = [s.exec_at EXCEPT ![t] = at]
      /\ \A u \in Tasks : r.next[u] = IF u = t THEN Linked(s, l) ELSE s.next[u]
      /\ \A u \in Tasks : r.flags[u] = IF u = t THEN s.flags[u] \cup {"WAITING"} ELSE s.flags[u]
  BY <1>1 DEF QueueStates
<1> HIDE DEF r
<1>10. /\ d.first = s.first /\ d.last = s.last /\ d.exec_at = [s.exec_at EXCEPT ![t] = at]
       /\ d.waiting = (IF l = NULL THEN t ELSE s.waiting)
       /\ \A u \in Tasks : d.next[u] = IF u = l THEN t ELSE IF u = t THEN Linked(s, l) ELSE s.next[u]
       /\ \A u \in Tasks : d.flags[u] = IF u = t THEN s.flags[u] \cup {"WAITING"} ELSE s.flags[u]
  <2>1. CASE l = NULL
    BY <1>r, <1>9, <2>1, TaskAssumption DEF Relink, QueueStates
  <2>2. CASE l # NULL
    BY <1>r, <1>5, <1>9, <2>2, TaskAssumption DEF Relink, QueueStates, Pointers
  <2> QED
    BY <2>1, <2>2
<1> HIDE DEF d
<1>11. IsList(d.next, d.first, P)
  <2>1. \A i \in 1 .. Len(P) : d.next[P[i]] = s.next[P[i]]
    <3> SUFFICES ASSUME NEW i \in 1 .. Len(P)
                 PROVE  d.next[P[i]] = s.next[P[i]]
      OBVIOUS
    <3>1. P[i] \in Tasks /\ In(P[i], P)
      BY <1>2 DEF In
    <3>2. ~In(P[i], W)
      BY <1>1, <3>1
    <3>3. P[i] # t /\ P[i] # l
      BY <1>5, <3>1, <3>2, TaskAssumption DEF In, n
    <3> QED
      BY <1>10, <3>1, <3>3
  <2> QED
    BY <1>1, <1>10, <2>1, ListFrame
<1>12. IsList(d.next, d.waiting, With(W, k, t))
  <2>1. \A i \in 1 .. n : i # k => d.next[W[i]] = s.next[W[i]]
    <3> SUFFICES ASSUME NEW i \in 1 .. n, i # k
                 PROVE  d.next[W[i]] = s.next[W[i]]
      OBVIOUS
    <3>1. W[i] \in Tasks /\ W[i] # t
      BY <1>2 DEF In, n
    <3>2. W[i] # l
      BY <1>2, <1>3, <1>5, <3>1, TaskAssumption
    <3> QED
      BY <1>10, <3>1, <3>2
  <2>2. k > 0 => d.next[W[k]] = t
    BY <1>2, <1>5, <1>10
  <2>3. d.waiting = IF k = 0 THEN t ELSE s.waiting
    BY <1>5, <1>10
  <2>4. d.next[t] = After(W, k)
    BY <1>5, <1>10
  <2> QED
    BY <1>1, <2>1, <2>2, <2>3, <2>4, LinkedIn DEF n
<1>13. /\ Len(With(W, k, t)) = n + 1
       /\ \A i \in 1 .. n + 1 : With(W, k, t)[i] = IF i <= k THEN W[i]
                                    ELSE IF i = k + 1 THEN t ELSE W[i - 1]
  BY <1>2, WithType, ZenonT(40) DEF n
<1>m. \A u : In(u, With(W, k, t)) <=> In(u, W) \/ u = t
  BY <1>2, WithMembers DEF n
<1>14. \A u \in Tasks : /\ "PENDING" \in s.flags[u] <=> In(u, P)
                        /\ "WAITING" \in s.flags[u] <=> In(u, W)
  BY DEF Lists
<1>15. \A u \in Tasks : /\ "PENDING" \in d.flags[u] <=> In(u, P)
                        /\ "WAITING" \in d.flags[u] <=> In(u, With(W, k, t))
  <2>1. \A u \in Tasks : d.flags[u] \subseteq s.flags[u] \cup {"WAITING"}
                        /\ s.flags[u] \subseteq d.flags[u]
    BY <1>10, Zenon
  <2>2. \A u \in Tasks : "PENDING" \in d.flags[u] <=> "PENDING" \in s.flags[u]
    BY <2>1
  <2>3. \A u \in Tasks : "WAITING" \in d.flags[u] <=> "WAITING" \in s.flags[u] \/ u = t
    BY <1>10
  <2> QED
    BY <1>14, <1>m, <2>2, <2>3
<1>16. \A u \in Tasks : ~(In(u, P) /\ In(u, With(W, k, t)))
  BY <1>1, <1>m
<1>17. Sorted(d.exec_at, With(W, k, t))
  <2> DEFINE x == With(W, k, t)
             e(i) == d.exec_at[x[i]]
  <2>1. \A i \in 1 .. n : d.exec_at[W[i]] = s.exec_at[W[i]]
    BY <1>1, <1>2, <1>10 DEF QueueStates, In, n
  <2>2. d.exec_at[t] = at
    BY <1>1, <1>10 DEF QueueStates
  <2>3. \A i, j \in 1 .. n : i < j => s.exec_at[W[i]] <= s.exec_at[W[j]]
    BY DEF Lists, Sorted, n
  <2>5. \A i \in 1 .. n : i > k => s.exec_at[W[i]] >= at
    <3> SUFFICES ASSUME NEW i \in 1 .. n, i > k
                 PROVE  s.exec_at[W[i]] >= at
      OBVIOUS
    <3>1. k + 1 \in 1 .. n /\ k # n /\ (k + 1 = i \/ k + 1 < i)
      BY <1>2 DEF n
    <3>2. s.exec_at[W[k + 1]] <= s.exec_at[W[i]]
      BY <1>7, <2>3, <3>1
    <3> QED
      BY <1>7, <3>1, <3>2
  <2> DEFINE o(i) == s.exec_at[W[i]]
  <2>4. \A i \in 1 .. n + 1 : x[i] = IF i <= k THEN W[i]
                                    ELSE IF i = k + 1 THEN t ELSE W[i - 1]
    BY <1>13
  <2> HIDE DEF x
  <2>6. ASSUME NEW i \in 1 .. n + 1
        PROVE  /\ i <= k => i \in 1 .. n /\ e(i) = o(i)
               /\ i = k + 1 => e(i) = at
               /\ i > k + 1 => i - 1 \in 1 .. n /\ e(i) = o(i - 1)
    <3>1. /\ i <= k => i \in 1 .. n /\ x[i] = W[i]
          /\ i = k + 1 => x[i] = t
          /\ i > k + 1 => i - 1 \in 1 .. n /\ x[i] = W[i - 1]
      BY <1>2, <2>4 DEF n
    <3> QED
      BY <2>1, <2>2, <3>1
  <2>7. \A i, j \in 1 .. n : i < j => o(i) <= o(j)
    BY <2>3
  <2>8. /\ \A i \in 1 .. k : o(i) < at
        /\ \A i \in 1 .. n : o(i) \in Int /\ (i > k => o(i) >= at)
    BY <1>7, <2>5
  <2>9. k \in 0 .. n /\ n \in Nat
    BY <1>2 DEF n
  <2> SUFFICES ASSUME NEW i \in 1 .. n + 1, NEW j \in 1 .. n + 1, i < j
               PROVE  e(i) <= e(j)
    BY <1>13 DEF Sorted, x
  <2> HIDE DEF e, o
  <2>10. CASE j <= k
    BY <2>6, <2>7, <2>9, <2>10
  <2>11. CASE j = k + 1
    <3>1. i \in 1 .. k /\ e(i) = o(i)
      BY <2>6, <2>9, <2>11
    <3> QED
      BY <1>7, <2>6, <2>8, <2>9, <2>11, <3>1
  <2>12. CASE j > k + 1
    <3>1. e(j) = o(j - 1) /\ j - 1 \in 1 .. n /\ j - 1 > k
      BY <2>6, <2>9, <2>12
    <3>2. CASE i <= k
      <4>1. e(i) = o(i) /\ i \in 1 .. n /\ i < j - 1
        BY <2>6, <2>9, <2>12, <3>2
      <4> QED
        BY <2>7, <3>1, <4>1
    <3>3. CASE i = k + 1
      BY <2>6, <2>8, <2>9, <3>1, <3>3
    <3>4. CASE i > k + 1
      <4>1. e(i) = o(i - 1) /\ i - 1 \in 1 .. n /\ i - 1 < j - 1
        BY <2>6, <2>9, <3>4
      <4> QED
        BY <2>7, <3>1, <4>1
    <3> QED
      BY <2>9, <3>2, <3>3, <3>4
  <2> QED
    BY <2>9, <2>10, <2>11, <2>12
<1>18. Lists(d, P, With(W, k, t))
  BY <1>1, <1>8, <1>10, <1>11, <1>12, <1>15, <1>16, <1>17 DEF Lists
<1> QED
  BY <1>d, <1>10, <1>18 DEF n

\* P2 and W2 are P and W after the first k tasks of W have been moved to the
\* end of P.
Moved(P, W, k, P2, W2) ==
  /\ Len(P2) = Len(P) + k
  /\ \A i \in 1 .. Len(P) : P2[i] = P[i]
  /\ \A i \in 1 .. k : P2[Len(P) + i] = W[i]
  /\ Len(W2) = Len(W) - k
  /\ \A i \in 1 .. Len(W) - k : W2[i] = W[k + i]

\* One turn of the loop moves one task, if the first one is due.
LEMMA MoveDueLists ==
  ASSUME NEW s, NEW P, NEW W, Lists(s, P, W), NEW at,
         s.waiting # NULL, s.exec_at[s.waiting] <= at
  PROVE  /\ 1 \in 1 .. Len(W) /\ Lists(MoveDue(s, at), With(P, Len(P), W[1]), Without(W, 1))
         /\ \A u \in Tasks : u # W[1] => MoveDue(s, at).exec_at[u] = s.exec_at[u]
<1>1. /\ 1 \in 1 .. Len(W) /\ s.waiting = W[1] /\ Lists(wait_pop(s), P, Without(W, 1))
      /\ W[1] \in Tasks /\ ~In(W[1], P) /\ ~In(W[1], Without(W, 1))
      /\ SameTimes(wait_pop(s), s, W[1])
  BY WaitPopLists
<1>2. MoveDue(s, at) = pending_insert(wait_pop(s), W[1])
  BY <1>1 DEF MoveDue
<1>3. Lists(MoveDue(s, at), With(P, Len(P), W[1]), Without(W, 1))
  BY <1>1, <1>2, PendingInsertLists
<1>4. MoveDue(s, at).exec_at = wait_pop(s).exec_at
  BY <1>2, PendingInsertKeepsWaiting
<1> QED
  BY <1>1, <1>3, <1>4 DEF SameTimes

\* Moving one more.
LEMMA MoveOneMore ==
  ASSUME NEW P \in Seq(Tasks), NEW W \in Seq(Tasks), NEW P2 \in Seq(Tasks), NEW W2 \in Seq(Tasks),
         NEW k \in 0 .. Len(W), Moved(P, W, k, P2, W2), 1 \in 1 .. Len(W2)
  PROVE  /\ k + 1 \in 1 .. Len(W) /\ W2[1] = W[k + 1]
         /\ Moved(P, W, k + 1, With(P2, Len(P2), W2[1]), Without(W2, 1))
<1> DEFINE p == With(P2, Len(P2), W2[1])
           w == Without(W2, 1)
           m == Len(P)
           n == Len(W)
<1>1. m \in Nat /\ n \in Nat /\ Len(P2) \in Nat /\ Len(W2) \in Nat /\ W2[1] \in Tasks
  BY ListType
<1>2. /\ Len(P2) = m + k /\ Len(W2) = n - k
      /\ \A i \in 1 .. m : P2[i] = P[i]
      /\ \A i \in 1 .. k : P2[m + i] = W[i]
      /\ \A i \in 1 .. n - k : W2[i] = W[k + i]
  BY DEF Moved
<1>3. /\ Len(p) = m + k + 1
      /\ \A i \in 1 .. m + k + 1 : p[i] = IF i <= m + k THEN P2[i]
                                        ELSE IF i = m + k + 1 THEN W2[1] ELSE P2[i - 1]
  <2>1. Len(P2) \in 0 .. Len(P2)
    BY <1>1
  <2>2. /\ Len(p) = Len(P2) + 1
        /\ \A i \in 1 .. Len(P2) + 1 : p[i] = IF i <= Len(P2) THEN P2[i]
                                          ELSE IF i = Len(P2) + 1 THEN W2[1] ELSE P2[i - 1]
    BY <1>1, <2>1, WithType, ZenonT(40)
  <2> HIDE DEF p
  <2> QED
    BY <1>2, <2>2
<1>4. /\ Len(w) = n - k - 1
      /\ \A i \in 1 .. n - k - 1 : w[i] = IF i < 1 THEN W2[i] ELSE W2[i + 1]
  BY <1>2, WithoutType, ZenonT(40)
<1> HIDE DEF p, w, m, n
<1>5. k \in 0 .. n /\ k + 1 \in 1 .. n /\ W2[1] = W[k + 1]
  BY <1>1, <1>2 DEF n
<1>6. \A i \in 1 .. m : p[i] = P[i]
  BY <1>1, <1>2, <1>3, <1>5
<1>7. ASSUME NEW i \in 1 .. k + 1
      PROVE  p[m + i] = W[i]
  <2>1. m + i \in 1 .. m + k + 1 /\ (i = k + 1 => ~(m + i <= m + k) /\ m + i = m + k + 1)
        /\ (i # k + 1 => m + i <= m + k /\ i \in 1 .. k)
    BY <1>1, <1>5
  <2> QED
    BY <1>2, <1>3, <1>5, <2>1
<1>8. ASSUME NEW i \in 1 .. n - (k + 1)
      PROVE  w[i] = W[k + 1 + i]
  <2>1. i \in 1 .. n - k - 1 /\ ~(i < 1) /\ i + 1 \in 1 .. n - k /\ k + (i + 1) = k + 1 + i
    BY <1>1, <1>5
  <2> QED
    BY <1>2, <1>4, <2>1
<1>9. Len(p) = m + (k + 1) /\ Len(w) = n - (k + 1)
  BY <1>1, <1>3, <1>4, <1>5
<1> QED
  BY <1>5, <1>6, <1>7, <1>8, <1>9 DEF Moved, m, n, p, w

\* From s, with lists P and W, to d, with P2 and W2: the first k waiting tasks
\* and no others are due, and have become pending.
Drained(s, P, W, at, d, k, P2, W2) ==
  /\ Lists(d, P2, W2) /\ Moved(P, W, k, P2, W2)
  /\ \A i \in 1 .. k : s.exec_at[W[i]] <= at
  /\ k # Len(W) => ~(s.exec_at[W[k + 1]] <= at)
  /\ \A u \in Tasks : In(u, W2) => d.exec_at[u] = s.exec_at[u]

\* The interrupt moves the due tasks, which are the first ones of the waiting
\* list, to the end of the pending list, in their order.
LEMMA DrainLists ==
  ASSUME NEW s, NEW P, NEW W, Lists(s, P, W), NEW at \in Int
  PROVE  \E k \in 0 .. Len(W) : \E P2, W2 : Drained(s, P, W, at, waiting_process(s, at), k, P2, W2)
<1> DEFINE N == Cardinality(Tasks)
           n == Len(W)
           Stop(k) == k = n \/ ~(s.exec_at[W[k + 1]] <= at)
<1>1. /\ N \in Nat /\ n \in 0 .. N /\ \A i \in 1 .. n : W[i] \in Tasks
      /\ P \in Seq(Tasks) /\ W \in Seq(Tasks) /\ Len(P) \in Nat
  <2>1. IsList(s.next, s.waiting, W) /\ IsList(s.next, s.first, P)
    BY DEF Lists
  <2> QED
    BY <2>1, TaskAssumption, FS_CardinalityType, ListLength, ListType DEF IsList
<1>2. PICK w \in [0 .. N -> QueueStates] :
        /\ waiting_process(s, at) = w[N]
        /\ \A i \in 0 .. N : w[i] = IF i = 0 THEN s ELSE MoveDue(w[i - 1], at)
  BY DrainSteps DEF Lists
<1> DEFINE Reached(d, k, P2, W2) ==
             /\ Lists(d, P2, W2) /\ Moved(P, W, k, P2, W2)
             /\ \A i \in 1 .. k : s.exec_at[W[i]] <= at
             /\ \A u \in Tasks : In(u, W2) => d.exec_at[u] = s.exec_at[u]
           S == {i \in Nat : i <= N => \E k \in 0 .. n : \E P2, W2 :
                                        Reached(w[i], k, P2, W2) /\ (k = i \/ Stop(k))}
<1> HIDE DEF N, n, Stop
<1>5. 0 \in S
  <2>1. w[0] = s /\ 0 \in 0 .. n
    BY <1>1, <1>2
  <2>2. Moved(P, W, 0, P, W)
    BY <1>1 DEF Moved, n
  <2>3. Reached(w[0], 0, P, W)
    BY <2>1, <2>2
  <2> QED
    BY <2>1, <2>3
<1>6. ASSUME NEW i \in Nat, i \in S
      PROVE  i + 1 \in S
  <2> SUFFICES ASSUME i + 1 <= N
               PROVE  \E k \in 0 .. n : \E P2, W2 :
                        Reached(w[i + 1], k, P2, W2) /\ (k = i + 1 \/ Stop(k))
    OBVIOUS
  <2>0. PICK k \in 0 .. n : \E P2, W2 : Reached(w[i], k, P2, W2) /\ (k = i \/ Stop(k))
    BY <1>1, <1>6
  <2>1. PICK P2, W2 : Reached(w[i], k, P2, W2) /\ (k = i \/ Stop(k))
    BY <2>0
  <2> DEFINE d == w[i]
  <2>2. w[i + 1] = MoveDue(d, at)
    BY <1>1, <1>2
  <2> HIDE DEF d
  <2>3. /\ P2 \in Seq(Tasks) /\ W2 \in Seq(Tasks) /\ Len(W2) = n - k
        /\ d.waiting = After(W2, 0) /\ \A j \in 1 .. n - k : W2[j] \in Tasks /\ W2[j] = W[k + j]
    <3>1. P2 \in Seq(Tasks) /\ W2 \in Seq(Tasks) /\ d.waiting = After(W2, 0)
      BY <2>1 DEF Lists, IsList, d
    <3>2. Len(W2) = n - k /\ \A j \in 1 .. n - k : W2[j] = W[k + j]
      BY <2>1 DEF Moved, n
    <3> QED
      BY <3>1, <3>2, ListType
  <2>4. k # n => 1 \in 1 .. n - k /\ d.waiting = W[k + 1] /\ d.waiting \in Tasks
                 /\ d.exec_at[d.waiting] = s.exec_at[W[k + 1]]
    <3> SUFFICES ASSUME k # n
                 PROVE  1 \in 1 .. n - k /\ d.waiting = W[k + 1] /\ d.waiting \in Tasks
                        /\ d.exec_at[d.waiting] = s.exec_at[W[k + 1]]
      OBVIOUS
    <3>1. 1 \in 1 .. n - k /\ 0 + 1 = 1 /\ 0 # n - k
      BY <1>1
    <3>2. d.waiting = W2[1] /\ d.waiting \in Tasks /\ W2[1] = W[k + 1] /\ In(W2[1], W2)
      BY <2>3, <3>1 DEF After, In
    <3>3. d.exec_at[W2[1]] = s.exec_at[W2[1]]
      BY <2>1, <3>2 DEF d
    <3> QED
      BY <3>1, <3>2, <3>3
  <2>5. CASE Stop(k)
    <3>1. MoveDue(d, at) = d
      <4>1. CASE k = n
        <5>1. d.waiting = NULL
          BY <1>1, <2>3, <4>1 DEF After
        <5> QED
          BY <5>1 DEF MoveDue
      <4>2. CASE k # n
        BY <2>4, <2>5, <4>2 DEF MoveDue, Stop
      <4> QED
        BY <4>1, <4>2
    <3>2. Reached(w[i + 1], k, P2, W2)
      BY <2>1, <2>2, <3>1 DEF d
    <3> QED
      BY <2>5, <3>2
  <2>6. CASE ~Stop(k)
    <3>1. k # n /\ s.exec_at[W[k + 1]] <= at
      BY <2>6 DEF Stop
    <3>2. d.waiting # NULL /\ d.exec_at[d.waiting] <= at /\ Lists(d, P2, W2)
      BY <2>1, <2>4, <3>1, TaskAssumption DEF d
    <3> DEFINE P3 == With(P2, Len(P2), W2[1])
               W3 == Without(W2, 1)
    <3>3. /\ 1 \in 1 .. Len(W2) /\ Lists(MoveDue(d, at), P3, W3)
          /\ \A u \in Tasks : u # W2[1] => MoveDue(d, at).exec_at[u] = d.exec_at[u]
      BY <3>2, MoveDueLists
    <3>4. k + 1 \in 1 .. n /\ Moved(P, W, k + 1, P3, W3)
      BY <1>1, <2>1, <2>3, <3>3, MoveOneMore DEF n
    <3>5. \A u : In(u, W3) <=> In(u, W2) /\ u # W2[1]
      <4>1. \A a, b \in 1 .. Len(W2) : W2[a] = W2[b] => a = b
        BY <3>2 DEF Lists, IsList
      <4> QED
        BY <2>3, <3>3, <4>1, WithoutMembers
    <3> HIDE DEF P3, W3
    <3>6. Reached(w[i + 1], k + 1, P3, W3)
      <4>1. \A j \in 1 .. k + 1 : s.exec_at[W[j]] <= at
        <5>1. \A j \in 1 .. k + 1 : j \in 1 .. k \/ j = k + 1
          BY <1>1
        <5> QED
          BY <2>1, <3>1, <5>1
      <4>2. \A u \in Tasks : In(u, W3) => MoveDue(d, at).exec_at[u] = s.exec_at[u]
        BY <2>1, <3>3, <3>5 DEF d
      <4> QED
        BY <2>2, <3>3, <3>4, <4>1, <4>2
    <3>7. k + 1 \in 0 .. n /\ k = i
      BY <1>1, <2>1, <2>6, <3>4
    <3> QED
      BY <3>6, <3>7
  <2> QED
    BY <2>5, <2>6
<1>7. N \in S
  BY <1>1, <1>5, <1>6, SetInduction
<1>0. PICK k \in 0 .. n : \E P2, W2 : Reached(w[N], k, P2, W2) /\ (k = N \/ Stop(k))
  <2>1. N <= N
    BY <1>1
  <2> HIDE DEF Reached
  <2> QED
    BY <1>7, <2>1
<1>8. PICK P2, W2 : Reached(w[N], k, P2, W2) /\ (k = N \/ Stop(k))
  BY <1>0
<1>9. Stop(k)
  BY <1>1, <1>8 DEF Stop
<1>10. k # n => ~(s.exec_at[W[k + 1]] <= at)
  BY <1>9 DEF Stop
<1> QED
  BY <1>2, <1>8, <1>10 DEF Drained, n, N

----------------------------------------------------------------------------
(* Walk reads a list off its pointers.                                     *)

\* A walk only meets tasks.
LEMMA ExtendedType ==
  ASSUME NEW s \in QueueStates, NEW head \in Pointers, NEW path \in Seq(Tasks)
  PROVE  Extended(s, head, path) \in Seq(Tasks)
<1>1. path # << >> => path[Len(path)] \in Tasks
  BY EmptySeq, ListType
<1> DEFINE next == IF path = << >> THEN head ELSE s.next[path[Len(path)]]
<1>2. next \in Pointers
  BY <1>1 DEF QueueStates
<1>3. Extended(s, head, path) = IF next = NULL THEN path ELSE Append(path, next)
  BY DEF Extended
<1> HIDE DEF next
<1>4. CASE next = NULL
  BY <1>3, <1>4
<1>5. CASE next # NULL
  <2>1. next \in Tasks
    BY <1>2, <1>5 DEF Pointers
  <2> QED
    BY <1>3, <1>5, <2>1, AppendProperties
<1> QED
  BY <1>4, <1>5

\* The walk extends its path by a task at a time.
LEMMA WalkPaths ==
  ASSUME NEW s \in QueueStates, NEW head \in Pointers
  PROVE  \E w : /\ Walk(s, head) = w[Cardinality(Tasks) + 1]
                /\ w[0] = << >>
                /\ \A n \in 1 .. Cardinality(Tasks) + 1 : w[n] = Extended(s, head, w[n - 1])
<1> DEFINE N == Cardinality(Tasks) + 1
           IsPath(w) == w = [n \in 0 .. Cardinality(Tasks) + 1 |->
                               IF n = 0 THEN << >> ELSE Extended(s, head, w[n - 1])]
           W == CHOOSE w : IsPath(w)
           step == [path \in Seq(Tasks) |-> Extended(s, head, path)]
<1>1. N \in Nat
  BY TaskAssumption, FS_CardinalityType
<1>2. << >> \in Seq(Tasks) /\ step \in [Seq(Tasks) -> Seq(Tasks)]
  BY ExtendedType
<1>3. PICK w \in [0 .. N -> Seq(Tasks)] : Iterates(w, N, << >>, step)
  <2> HIDE DEF N, step
  <2> QED
    BY <1>1, <1>2, IteratesExist
<1>4. \A n \in 0 .. N : w[n] = IF n = 0 THEN << >> ELSE Extended(s, head, w[n - 1])
  <2> HIDE DEF N
  <2> SUFFICES ASSUME NEW n \in 0 .. N
               PROVE  w[n] = IF n = 0 THEN << >> ELSE Extended(s, head, w[n - 1])
    OBVIOUS
  <2>1. w[n] = IF n = 0 THEN << >> ELSE step[w[n - 1]]
    BY <1>3 DEF Iterates
  <2>2. n # 0 => w[n - 1] \in Seq(Tasks)
    BY <1>1, <1>3
  <2> QED
    BY <2>1, <2>2
<1>5. IsPath(w)
  <2>1. w = [n \in 0 .. N |-> IF n = 0 THEN << >> ELSE Extended(s, head, w[n - 1])]
    <3> HIDE DEF N
    <3> QED
      BY <1>3, <1>4
  <2> QED
    BY <2>1
<1>6. IsPath(W)
  BY <1>5
<1>7. Walk(s, head) = W[Cardinality(Tasks) + 1]
  BY DEF Walk
<1>8. \A n \in 0 .. N : W[n] = IF n = 0 THEN << >> ELSE Extended(s, head, W[n - 1])
  <2>1. W = [n \in 0 .. N |-> IF n = 0 THEN << >> ELSE Extended(s, head, W[n - 1])]
    BY <1>6
  <2> HIDE DEF N, W
  <2> QED
    BY <2>1
<1>9. W[0] = << >> /\ \A n \in 1 .. N : W[n] = Extended(s, head, W[n - 1])
  <2> HIDE DEF N, W
  <2>1. 0 \in 0 .. N /\ \A n \in 1 .. N : n \in 0 .. N /\ n # 0
    BY <1>1
  <2> QED
    BY <1>8, <2>1
<1> HIDE DEF W
<1> QED
  BY <1>7, <1>9

\* Whatever list the pointers make, Walk finds it.
LEMMA WalkList ==
  ASSUME NEW s \in QueueStates, NEW head, NEW list, IsList(s.next, head, list)
  PROVE  Walk(s, head) = list
<1> DEFINE N == Cardinality(Tasks) + 1
           n == Len(list)
<1>1. /\ N \in Nat /\ n \in 0 .. N - 1 /\ list \in Seq(Tasks)
      /\ \A i \in 1 .. n : list[i] \in Tasks
  <2>1. list \in Seq(Tasks) /\ Cardinality(Tasks) \in Nat
    BY TaskAssumption, FS_CardinalityType DEF IsList
  <2>2. n \in 0 .. Cardinality(Tasks)
    BY ListLength
  <2> QED
    BY <2>1, <2>2, ListType
<1>2. head = After(list, 0) /\ \A i \in 1 .. n : s.next[list[i]] = After(list, i)
  BY DEF IsList
<1>3. head \in Pointers
  BY <1>1, <1>2 DEF After, Pointers
<1>4. PICK w : /\ Walk(s, head) = w[N] /\ w[0] = << >>
               /\ \A i \in 1 .. N : w[i] = Extended(s, head, w[i - 1])
  BY <1>3, WalkPaths
<1> DEFINE Upto(p, k) == p \in Seq(Tasks) /\ Len(p) = k /\ \A j \in 1 .. k : p[j] = list[j]
           S == {i \in Nat : i <= N => Upto(w[i], IF i <= n THEN i ELSE n)}
<1> HIDE DEF N, n
<1>5. ASSUME NEW k \in 0 .. n, NEW p, Upto(p, k)
      PROVE  Upto(Extended(s, head, p), IF k = n THEN n ELSE k + 1)
  <2> DEFINE next == IF p = << >> THEN head ELSE s.next[p[Len(p)]]
  <2>1. p = << >> <=> k = 0
    BY <1>1, <1>5, EmptySeq
  <2>2. next = After(list, k)
    <3>1. k # 0 => p[Len(p)] = list[k] /\ k \in 1 .. n
      BY <1>1, <1>5
    <3> QED
      BY <1>2, <2>1, <3>1
  <2>3. Extended(s, head, p) = IF next = NULL THEN p ELSE Append(p, next)
    BY DEF Extended
  <2> HIDE DEF next
  <2>4. CASE k = n
    BY <1>5, <2>2, <2>3, <2>4 DEF After, n
  <2>5. CASE k # n
    <3>1. next = list[k + 1] /\ k + 1 \in 1 .. n
      BY <1>1, <2>2, <2>5 DEF After, n
    <3>2. next \in Tasks /\ next # NULL
      BY <1>1, <3>1, TaskAssumption
    <3>3. Extended(s, head, p) = Append(p, next)
      BY <2>3, <3>2
    <3>4. /\ Append(p, next) \in Seq(Tasks) /\ Len(Append(p, next)) = k + 1
          /\ \A j \in 1 .. k : Append(p, next)[j] = p[j]
          /\ Append(p, next)[k + 1] = next
      BY <1>5, <3>2, AppendProperties
    <3>5. \A j \in 1 .. k + 1 : j \in 1 .. k \/ j = k + 1
      BY <1>1
    <3>6. Upto(Append(p, next), k + 1)
      BY <1>5, <3>1, <3>4, <3>5
    <3> QED
      BY <2>5, <3>3, <3>6
  <2> QED
    BY <2>4, <2>5
<1>6. 0 \in S
  <2>1. Upto(w[0], 0)
    BY <1>4
  <2>2. 0 <= n
    BY <1>1
  <2> HIDE DEF Upto
  <2> QED
    BY <2>1, <2>2
<1>7. ASSUME NEW i \in Nat, i \in S
      PROVE  i + 1 \in S
  <2> SUFFICES ASSUME i + 1 <= N
               PROVE  Upto(w[i + 1], IF i + 1 <= n THEN i + 1 ELSE n)
    OBVIOUS
  <2> DEFINE k == IF i <= n THEN i ELSE n
  <2>1. k \in 0 .. n /\ Upto(w[i], k)
    BY <1>1, <1>7
  <2>2. w[i + 1] = Extended(s, head, w[i])
    <3>1. i + 1 \in 1 .. N /\ i + 1 - 1 = i
      BY <1>1
    <3> QED
      BY <1>4, <3>1
  <2>3. (IF k = n THEN n ELSE k + 1) = IF i + 1 <= n THEN i + 1 ELSE n
    BY <1>1
  <2> HIDE DEF k, Upto
  <2>4. Upto(w[i + 1], IF k = n THEN n ELSE k + 1)
    BY <1>5, <2>1, <2>2
  <2> QED
    BY <2>3, <2>4
<1>8. N \in S
  BY <1>1, <1>6, <1>7, SetInduction
<1>9. Upto(w[N], n)
  <2>1. N <= N /\ ~(N <= n)
    BY <1>1
  <2> HIDE DEF Upto
  <2> QED
    BY <1>8, <2>1
<1>10. w[N] = list
  BY <1>1, <1>9, SeqEqual DEF n
<1> QED
  BY <1>4, <1>10

----------------------------------------------------------------------------
(* The lists in every reachable state.                                     *)

\* What the two lists are, as the pointers, the flags and Walk give them.
LEMMA ListsAre ==
  ASSUME NEW s, NEW P, NEW W, Lists(s, P, W)
  PROVE  /\ Walk(s, s.first) = P /\ Walk(s, s.waiting) = W
         /\ P \in Seq(Tasks) /\ W \in Seq(Tasks)
         /\ \A t \in Tasks : "PENDING" \in s.flags[t] <=> In(t, P)
         /\ \A t \in Tasks : "WAITING" \in s.flags[t] <=> In(t, W)
<1>1. s \in QueueStates /\ IsList(s.next, s.first, P) /\ IsList(s.next, s.waiting, W)
  BY DEF Lists
<1>2. Walk(s, s.first) = P /\ Walk(s, s.waiting) = W
  BY <1>1, WalkList
<1>3. P \in Seq(Tasks) /\ W \in Seq(Tasks)
  BY <1>1 DEF IsList
<1> QED
  BY <1>2, <1>3 DEF Lists

\* Scheduling a task that is not pending: it leaves the waiting list if it was
\* there, and becomes the last pending task.
LEMMA ExecLists ==
  ASSUME NEW s, NEW P, NEW W, Lists(s, P, W), NEW t \in Tasks, "PENDING" \notin s.flags[t]
  PROVE  LET d == pending_insert(IF "WAITING" \in s.flags[t] THEN wait_remove(s, t) ELSE s, t) IN
         \E W2 : /\ Lists(d, With(P, Len(P), t), W2)
                 /\ \A u : In(u, W2) <=> In(u, W) /\ u # t
                 /\ \A u \in Tasks : u # t => d.exec_at[u] = s.exec_at[u]
<1>1. ("WAITING" \in s.flags[t] <=> In(t, W)) /\ ~In(t, P)
      /\ W \in Seq(Tasks) /\ \A i, j \in 1 .. Len(W) : W[i] = W[j] => i = j
  BY DEF Lists, IsList
<1>2. CASE In(t, W)
  <2>1. PICK k \in 1 .. Len(W) :
          /\ W[k] = t /\ Lists(wait_remove(s, t), P, Without(W, k))
          /\ t \in Tasks /\ ~In(t, P) /\ ~In(t, Without(W, k))
          /\ \A u \in Tasks : u # t => wait_remove(s, t).exec_at[u] = s.exec_at[u]
    BY <1>2, WaitRemoveLists
  <2>2. Lists(pending_insert(wait_remove(s, t), t), With(P, Len(P), t), Without(W, k))
    BY <2>1, PendingInsertLists
  <2>3. pending_insert(wait_remove(s, t), t).exec_at = wait_remove(s, t).exec_at
    BY PendingInsertKeepsWaiting
  <2>4. \A u : In(u, Without(W, k)) <=> In(u, W) /\ u # t
    BY <1>1, <2>1, WithoutMembers
  <2> QED
    BY <1>1, <1>2, <2>1, <2>2, <2>3, <2>4
<1>3. CASE ~In(t, W)
  <2>1. Lists(pending_insert(s, t), With(P, Len(P), t), W)
    BY <1>1, <1>3, PendingInsertLists
  <2>2. pending_insert(s, t).exec_at = s.exec_at
    BY PendingInsertKeepsWaiting
  <2>3. \A u : In(u, W) <=> In(u, W) /\ u # t
    BY <1>3
  <2> QED
    BY <1>1, <1>3, <2>1, <2>2, <2>3
<1> QED
  BY <1>2, <1>3

\* Giving a deadline to a task that has none and is not pending.
LEMMA DelayLists ==
  ASSUME NEW s, NEW P, NEW W, Lists(s, P, W), NEW t \in Tasks, NEW at \in Times,
         "PENDING" \notin s.flags[t], "WAITING" \notin s.flags[t]
  PROVE  \E W2 : /\ Lists(wait_insert(s, t, at), P, W2)
                 /\ \A u : In(u, W2) <=> In(u, W) \/ u = t
                 /\ wait_insert(s, t, at).exec_at = [s.exec_at EXCEPT ![t] = at]
<1>1. ~In(t, P) /\ ~In(t, W) /\ W \in Seq(Tasks)
  BY DEF Lists, IsList
<1>2. PICK k \in 0 .. Len(W) :
        /\ Lists(wait_insert(s, t, at), P, With(W, k, t))
        /\ wait_insert(s, t, at).exec_at = [s.exec_at EXCEPT ![t] = at]
  BY <1>1, WaitInsertLists
<1>3. \A u : In(u, With(W, k, t)) <=> In(u, W) \/ u = t
  BY <1>1, WithMembers
<1> QED
  BY <1>2, <1>3

\* The due tasks change lists; none appears or disappears.
LEMMA MovedMembers ==
  ASSUME NEW P \in Seq(Tasks), NEW W \in Seq(Tasks), NEW P2, NEW W2, NEW k \in 0 .. Len(W),
         Moved(P, W, k, P2, W2), NEW u
  PROVE  /\ In(u, P2) <=> In(u, P) \/ \E i \in 1 .. k : W[i] = u
         /\ In(u, W2) => In(u, W)
         /\ In(u, W) => In(u, W2) \/ \E i \in 1 .. k : W[i] = u
<1>1. Len(P) \in Nat /\ Len(W) \in Nat
  BY ListType
<1>2. ASSUME In(u, P2)
      PROVE  In(u, P) \/ \E i \in 1 .. k : W[i] = u
  <2>1. PICK i \in 1 .. Len(P) + k : P2[i] = u
    BY <1>2 DEF In, Moved
  <2>2. i > Len(P) => i - Len(P) \in 1 .. k /\ Len(P) + (i - Len(P)) = i
    BY <1>1
  <2>3. i <= Len(P) => i \in 1 .. Len(P)
    BY <1>1
  <2>4. i > Len(P) \/ i <= Len(P)
    BY <1>1
  <2> QED
    BY <2>1, <2>2, <2>3, <2>4 DEF In, Moved
<1>3. ASSUME In(u, P)
      PROVE  In(u, P2)
  BY <1>1, <1>3 DEF In, Moved
<1>4. ASSUME NEW i \in 1 .. k, W[i] = u
      PROVE  In(u, P2)
  <2>1. Len(P) + i \in 1 .. Len(P2) /\ P2[Len(P) + i] = u
    BY <1>1, <1>4 DEF Moved
  <2> QED
    BY <2>1 DEF In
<1>5. ASSUME In(u, W2)
      PROVE  In(u, W)
  <2>1. PICK i \in 1 .. Len(W) - k : W2[i] = u
    BY <1>5 DEF In, Moved
  <2>2. k + i \in 1 .. Len(W) /\ W[k + i] = u
    BY <1>1, <2>1 DEF Moved
  <2> QED
    BY <2>2 DEF In
<1>6. ASSUME In(u, W), ~\E i \in 1 .. k : W[i] = u
      PROVE  In(u, W2)
  <2>1. PICK i \in 1 .. Len(W) : W[i] = u
    BY <1>6 DEF In
  <2>2. i - k \in 1 .. Len(W) - k /\ k + (i - k) = i
    BY <1>1, <1>6, <2>1
  <2> QED
    BY <2>1, <2>2 DEF In, Moved
<1> QED
  BY <1>2, <1>3, <1>4, <1>5, <1>6

\* The pointers, flags and deadlines are those of two lists, or a task was once put
\* on the waiting list while it was on the other.
ListInv == raced \/ \E P, W : Lists(q, P, W)

\* The loop is between two tasks, and the interrupt holds a time of the past.
Where == /\ pc["main"] = "loop" => running = NULL
         /\ pc["alarm"] = "drain" => arg["alarm"].value \in 0 .. now

ListsInv == TypeInv /\ ListInv /\ Where

\* A step that leaves the queue alone.
LEMMA QueueAlone ==
  ASSUME ListInv, q' = q, raced' = raced
  PROVE  ListInv'
  BY DEF ListInv

\* Scheduling for immediate execution, between two lists.
LEMMA ExecKeepsLists ==
  ASSUME ListInv, NEW c \in Contexts, NEW t \in Tasks, pr_task_exec(c, t)
  PROVE  ListInv'
<1>1. raced' = raced
  BY DEF pr_task_exec
<1>2. CASE is_pending(t)
  BY <1>1, <1>2, QueueAlone DEF pr_task_exec
<1>3. CASE ~is_pending(t) /\ ~raced
  <2>1. PICK P, W : Lists(q, P, W)
    BY <1>3 DEF ListInv
  <2>2. \E W2 : Lists(q', With(P, Len(P), t), W2)
    BY <1>3, <2>1, ExecLists DEF pr_task_exec, is_pending, is_waiting
  <2> QED
    BY <2>2 DEF ListInv
<1>4. CASE raced
  BY <1>1, <1>4 DEF ListInv
<1> QED
  BY <1>2, <1>3, <1>4

\* Delaying a task that is not pending: it leaves the waiting list if it was there,
\* and enters it at the place of its new deadline.
LEMMA EnqueueLists ==
  ASSUME TypeInv, NEW P, NEW W, Lists(q, P, W), NEW c \in Contexts, Enqueue(c),
         NEW t \in Tasks, NEW at \in Times, t = arg[c].task, at = now + arg[c].value,
         ~is_pending(t)
  PROVE  \E W2 : /\ Lists(q', P, W2)
                 /\ \A u \in Tasks : In(u, W2) <=> In(u, W) \/ u = t
                 /\ \A u \in Tasks : q'.exec_at[u] = IF u = t THEN at ELSE q.exec_at[u]
<1>1. ("WAITING" \in q.flags[t] <=> In(t, W)) /\ ~In(t, P) /\ "PENDING" \notin q.flags[t]
      /\ W \in Seq(Tasks) /\ \A i, j \in 1 .. Len(W) : W[i] = W[j] => i = j
  BY DEF Lists, IsList, is_pending
<1> DEFINE s == IF "WAITING" \in q.flags[t] THEN wait_remove(q, t) ELSE q
<1>2. q' = wait_insert(s, t, at)
  BY DEF Enqueue, is_waiting
<1>3. PICK W1 : /\ Lists(s, P, W1) /\ ~In(t, W1)
                /\ \A u \in Tasks : u # t => (In(u, W1) <=> In(u, W))
                /\ \A u \in Tasks : u # t => s.exec_at[u] = q.exec_at[u]
  <2>1. CASE In(t, W)
    <3>1. PICK k \in 1 .. Len(W) :
            /\ W[k] = t /\ Lists(wait_remove(q, t), P, Without(W, k))
            /\ t \in Tasks /\ ~In(t, P) /\ ~In(t, Without(W, k))
            /\ \A u \in Tasks : u # t => wait_remove(q, t).exec_at[u] = q.exec_at[u]
      BY <2>1, WaitRemoveLists
    <3>2. \A u : In(u, Without(W, k)) <=> In(u, W) /\ u # t
      BY <1>1, <3>1, WithoutMembers
    <3> QED
      BY <1>1, <2>1, <3>1, <3>2
  <2>2. CASE ~In(t, W)
    BY <1>1, <2>2
  <2> QED
    BY <2>1, <2>2
<1>4. "PENDING" \notin s.flags[t] /\ "WAITING" \notin s.flags[t]
  BY <1>1, <1>3 DEF Lists
<1> HIDE DEF s
<1>5. PICK W2 : /\ Lists(wait_insert(s, t, at), P, W2)
                /\ \A u : In(u, W2) <=> In(u, W1) \/ u = t
                /\ wait_insert(s, t, at).exec_at = [s.exec_at EXCEPT ![t] = at]
  BY <1>3, <1>4, DelayLists
<1>6. s.exec_at \in [Tasks -> Times]
  BY <1>3 DEF Lists, QueueStates
<1>7. \A u \in Tasks : q'.exec_at[u] = IF u = t THEN at ELSE q.exec_at[u]
  BY <1>2, <1>3, <1>5, <1>6
<1> QED
  BY <1>2, <1>3, <1>5, <1>7

\* Most steps neither enter the loop nor hold a new time.
LEMMA WhereKept ==
  ASSUME TypeInv, Where, NEW c \in Contexts, NEW l, NEW a, Goto(c, l, a),
         l \notin {"loop", "drain"}, now' = now, running' = running \/ c = "main"
  PROVE  Where'
<1>1. "main" \in Contexts /\ "alarm" \in Contexts
  BY DEF Contexts, Interrupts
<1> QED
  BY <1>1 DEF Where, Goto, TypeInv, TypeOK

\* Where a call that has returned leaves its context.
LEMMA CallerIs == \A c : Caller(c) \notin {"loop", "drain", "enqueue"}
  BY DEF Caller

\* Every step preserves the invariant, one case per action.
LEMMA ListsInvInductive == ListsInv /\ [Next]_vars => ListsInv'
<1> SUFFICES ASSUME ListsInv, [Next]_vars
             PROVE  ListsInv'
  OBVIOUS
<1>inv. TypeInv /\ ListInv /\ Where
  BY DEF ListsInv
<1>main. "main" \in Contexts /\ "alarm" \in Contexts /\ Irqs \subseteq Contexts
  BY DEF Contexts, Interrupts
<1>0. TypeInv'
  BY <1>inv, TypeInvInductive
<1> SUFFICES ListInv' /\ Where'
  BY <1>0 DEF ListsInv
<1>1. CASE EnterLoop
  <2>1. Goto("main", "loop", NoArg) /\ q' = q /\ raced' = raced /\ running' = NULL /\ now' = now
    BY <1>1 DEF EnterLoop
  <2>2. Where'
    BY <1>inv, <1>main, <2>1 DEF Where, Goto, TypeInv, TypeOK
  <2> QED
    BY <1>inv, <2>1, <2>2, QueueAlone
<1>2. CASE PopPending
  <2>1. /\ Goto("main", "code", NoArg) /\ q' = pending_pop(q) /\ q.first # NULL
        /\ now' = now /\ raced' = raced
    BY <1>2 DEF PopPending
  <2>2. Where'
    BY <1>inv, <1>main, <2>1, WhereKept
  <2>3. ASSUME NEW P, NEW W, Lists(q, P, W)
        PROVE  Lists(q', Without(P, 1), W)
    BY <2>1, <2>3, PendingPopLists
  <2> QED
    BY <1>inv, <2>1, <2>2, <2>3 DEF ListInv
<1>3. CASE LeaveLoop
  <2>1. Goto("main", "code", NoArg) /\ q' = q /\ raced' = raced /\ running' = running /\ now' = now
    BY <1>3 DEF LeaveLoop
  <2> QED
    BY <1>inv, <1>main, <2>1, QueueAlone, WhereKept
<1>4. CASE FireAlarm
  <2>1. Goto("alarm", "fired", NoArg) /\ q' = q /\ raced' = raced /\ running' = running /\ now' = now
    BY <1>4 DEF FireAlarm
  <2> QED
    BY <1>inv, <1>main, <2>1, QueueAlone, WhereKept
<1>5. CASE ptask_alarm
  <2>1. Goto("alarm", "drain", [task |-> NULL, value |-> now])
        /\ q' = q /\ raced' = raced /\ running' = running /\ now' = now
    BY <1>5 DEF ptask_alarm
  <2>2. Where'
    BY <1>inv, <1>main, <2>1 DEF Where, Goto, TypeInv, TypeOK, Times
  <2> QED
    BY <1>inv, <2>1, <2>2, QueueAlone
<1>6. CASE queue_waiting_process
  <2>1. /\ Goto("alarm", "load", NoArg) /\ q' = waiting_process(q, arg["alarm"].value)
        /\ raced' = raced /\ running' = running /\ now' = now
    BY <1>6 DEF queue_waiting_process
  <2>2. Where'
    BY <1>inv, <1>main, <2>1, WhereKept
  <2>3. arg["alarm"].value \in Int
    BY <1>inv, <1>main DEF TypeInv, TypeOK
  <2>4. ASSUME NEW P, NEW W, Lists(q, P, W)
        PROVE  \E P2, W2 : Lists(q', P2, W2)
    <3>1. PICK k \in 0 .. Len(W) : \E P2, W2 : Lists(q', P2, W2) /\ Moved(P, W, k, P2, W2)
      BY <2>1, <2>3, <2>4, DrainLists DEF Drained
    <3> QED
      BY <3>1
  <2> QED
    BY <1>inv, <2>1, <2>2, <2>4 DEF ListInv
<1>7. CASE HandlerCallsExec
  <2>1. PICK t \in HandlerExec[running] : pr_task_exec("main", t)
    BY <1>7 DEF HandlerCallsExec
  <2>2. t \in Tasks
    BY <1>inv, TaskAssumption DEF TypeInv, TypeOK, Pointers
  <2>3. now' = now /\ \E l \in {Caller("main"), "load"} : Goto("main", l, NoArg)
    BY <2>1 DEF pr_task_exec, Return
  <2>4. Where'
    BY <1>inv, <1>main, <2>3, CallerIs, WhereKept
  <2> QED
    BY <1>inv, <1>main, <2>1, <2>2, <2>4, ExecKeepsLists
<1>8. CASE HandlerCallsExecIn
  <2>1. PICK t \in HandlerExecIn[running], delay \in Delays : pr_task_exec_in("main", t, delay)
    BY <1>8 DEF HandlerCallsExecIn
  <2>2. now' = now /\ \E l \in {Caller("main"), "enqueue"} : \E a : Goto("main", l, a)
    BY <2>1 DEF pr_task_exec_in, Return
  <2>3. Where'
    BY <1>inv, <1>main, <2>2, CallerIs, WhereKept
  <2> QED
    BY <1>inv, <2>1, <2>3, QueueAlone DEF pr_task_exec_in
<1>9. ASSUME NEW c \in Irqs, IrqCallsExec(c)
      PROVE  ListInv' /\ Where'
  <2>1. PICK t \in IrqExec : pr_task_exec(c, t)
    BY <1>9 DEF IrqCallsExec
  <2>2. t \in Tasks
    BY TaskAssumption
  <2>3. now' = now /\ running' = running /\ \E l \in {Caller(c), "load"} : Goto(c, l, NoArg)
    BY <2>1 DEF pr_task_exec, Return
  <2>4. Where'
    BY <1>inv, <1>main, <2>3, CallerIs, WhereKept
  <2> QED
    BY <1>inv, <1>main, <2>1, <2>2, <2>4, ExecKeepsLists
<1>10. ASSUME NEW c \in Irqs, IrqCallsExecIn(c)
       PROVE  ListInv' /\ Where'
  <2>1. PICK t \in IrqExecIn, delay \in Delays : pr_task_exec_in(c, t, delay)
    BY <1>10 DEF IrqCallsExecIn
  <2>2. now' = now /\ running' = running /\ \E l \in {Caller(c), "enqueue"} : \E a : Goto(c, l, a)
    BY <2>1 DEF pr_task_exec_in, Return
  <2>3. Where'
    BY <1>inv, <1>main, <2>2, CallerIs, WhereKept
  <2> QED
    BY <1>inv, <2>1, <2>3, QueueAlone DEF pr_task_exec_in
<1>11. ASSUME NEW c \in Contexts, Enqueue(c)
       PROVE  ListInv' /\ Where'
  <2>1. /\ pc[c] = "enqueue" /\ Goto(c, "load", NoArg) /\ now' = now /\ running' = running
        /\ raced' = (raced \/ is_pending(arg[c].task))
    BY <1>11 DEF Enqueue, At
  <2>2. PICK t \in Tasks, at \in Times : t = arg[c].task /\ at = now + arg[c].value
    BY <1>inv, <2>1 DEF TypeInv, TypeOK, EnqueueArgs, Times
  <2>3. Where'
    BY <1>inv, <2>1, WhereKept
  <2>4. ASSUME NEW P, NEW W, Lists(q, P, W), ~is_pending(t)
        PROVE  \E W2 : Lists(q', P, W2)
    BY <1>inv, <1>11, <2>2, <2>4, EnqueueLists
  <2> QED
    BY <1>inv, <2>1, <2>2, <2>3, <2>4 DEF ListInv
<1>12. ASSUME NEW c \in Contexts, Reschedule(c)
       PROVE  ListInv' /\ Where'
  <2>1. /\ q' = q /\ raced' = raced /\ now' = now /\ running' = running
        /\ \E l \in {"cancel", "check", "clear", "arm", Caller(c)} : \E a : Goto(c, l, a)
    BY <1>12 DEF Reschedule, LoadAlarm, CancelAlarm, ClearAlarm, CheckWaiting, ArmAlarm, Return
  <2>2. PICK l, a : Goto(c, l, a) /\ l \notin {"loop", "drain", "enqueue"}
    BY <2>1, CallerIs
  <2> QED
    BY <1>inv, <2>1, <2>2, QueueAlone, WhereKept
<1>13. CASE Tick
  <2>1. /\ q' = q /\ raced' = raced /\ pc' = pc /\ arg' = arg /\ running' = running
        /\ now' = now + 1 /\ now \in Nat
    BY <1>13, <1>inv DEF Tick, TypeInv, TypeOK, Times
  <2>2. Where'
    BY <1>inv, <2>1 DEF Where
  <2> QED
    BY <1>inv, <2>1, <2>2, QueueAlone
<1>14. CASE UNCHANGED vars
  BY <1>14, <1>inv DEF vars, ListInv, Where
<1> QED
  BY <1>1, <1>2, <1>3, <1>4, <1>5, <1>6, <1>7, <1>8, <1>9, <1>10, <1>11, <1>12, <1>13, <1>14
     DEF Next, MainStep, AlarmStep

\* The queue starts with two empty lists.
LEMMA ListsInvInit == Init => ListsInv
<1> SUFFICES ASSUME Init
             PROVE  ListsInv
  OBVIOUS
<1>1. TypeInv
  BY TypeInvInit
<1>2. Lists(q, << >>, << >>)
  <2>1. q \in QueueStates
    BY <1>1 DEF TypeInv, TypeOK
  <2>2. << >> \in Seq(Tasks) /\ Len(<< >>) = 0
    BY EmptySeq
  <2>3. IsList(q.next, q.first, << >>) /\ IsList(q.next, q.waiting, << >>)
    BY <2>2 DEF Init, IsList, After
  <2>4. \A t : ~In(t, << >>)
    BY <2>2 DEF In
  <2>5. \A t \in Tasks : "PENDING" \notin q.flags[t] /\ "WAITING" \notin q.flags[t]
    BY DEF Init
  <2>6. q.last = Link(<< >>, Len(<< >>)) /\ Sorted(q.exec_at, << >>)
    BY <2>2 DEF Init, Link, Sorted
  <2> QED
    BY <2>1, <2>3, <2>4, <2>5, <2>6 DEF Lists
<1>3. Where
  <2>1. \A c \in Contexts : pc[c] \in {"code", "idle"}
    BY DEF Init
  <2>2. "main" \in Contexts /\ "alarm" \in Contexts
    BY DEF Contexts, Interrupts
  <2> QED
    BY <2>1, <2>2 DEF Where
<1> QED
  BY <1>1, <1>2, <1>3 DEF ListsInv, ListInv

\* Lists like these are sound.
LEMMA ListsAreSound == ListsInv => ListsSound
<1> SUFFICES ASSUME ListsInv, ~raced
             PROVE  ListsSound
  BY DEF ListsSound
<1>1. PICK P, W : Lists(q, P, W)
  BY DEF ListsInv, ListInv
<1>2. /\ Pending = P /\ Waiting = W /\ P \in Seq(Tasks) /\ W \in Seq(Tasks)
      /\ \A t \in Tasks : is_pending(t) <=> In(t, P)
      /\ \A t \in Tasks : is_waiting(t) <=> In(t, W)
  BY <1>1, ListsAre DEF Pending, Waiting, is_pending, is_waiting
<1>3. ASSUME NEW list \in Seq(Tasks), NEW next, NEW head, IsList(next, head, list)
      PROVE  /\ Members(list) = {t \in Tasks : In(t, list)}
             /\ Len(list) = Cardinality(Members(list)) /\ DOMAIN list = 1 .. Len(list)
             /\ Len(list) \in Nat /\ (list = << >> <=> Len(list) = 0)
  <2>1. /\ DOMAIN list = 1 .. Len(list) /\ Len(list) \in Nat
        /\ \A i \in 1 .. Len(list) : list[i] \in Tasks
    BY ListType, LenProperties
  <2>2. Members(list) = {list[i] : i \in 1 .. Len(list)}
    BY <2>1 DEF Members
  <2>3. Members(list) = {t \in Tasks : In(t, list)}
    BY <2>1, <2>2 DEF In
  <2>4. Len(list) = Cardinality(Members(list))
    BY <1>3, <2>2, ListLength
  <2> QED
    BY <2>1, <2>3, <2>4, EmptySeq
<1>4. IsList(q.next, q.first, P) /\ IsList(q.next, q.waiting, W) /\ q.last = Link(P, Len(P))
      /\ Sorted(q.exec_at, W) /\ \A t \in Tasks : ~(In(t, P) /\ In(t, W))
  BY <1>1 DEF Lists
<1>5. /\ Members(P) = {t \in Tasks : is_pending(t)} /\ Len(P) = Cardinality(Members(P))
      /\ Members(W) = {t \in Tasks : is_waiting(t)} /\ Len(W) = Cardinality(Members(W))
  BY <1>2, <1>3, <1>4
<1>6. Members(P) \cap Members(W) = {}
  BY <1>2, <1>4, <1>5
<1>7. q.last = IF P = << >> THEN NULL ELSE P[Len(P)]
  BY <1>2, <1>3, <1>4 DEF Link
<1>8. \A i, j \in DOMAIN W : i < j => q.exec_at[W[i]] <= q.exec_at[W[j]]
  BY <1>2, <1>3, <1>4 DEF Sorted
<1> QED
  BY <1>2, <1>5, <1>6, <1>7, <1>8 DEF ListsSound

\* Whatever handlers and interrupts schedule, delay and delay again, the two lists
\* survive every interleaving but the one that delays a task which became pending
\* between the unlocked test and the lock.
THEOREM ListsAlwaysSound == Spec => []ListsSound
  BY ListsInvInductive, ListsInvInit, ListsAreSound, PTL DEF Spec

----------------------------------------------------------------------------
(* The scheduler implements TaskSpec.                                      *)

\* Every task's deadline, as TaskSpec sees it.
Deadlines(s) == [t \in Tasks |-> IF "WAITING" \in s.flags[t] THEN s.exec_at[t] ELSE -1]

\* Linking after the last task appends; unlinking the first leaves the tail.
LEMMA WithLast ==
  ASSUME NEW list \in Seq(Tasks), NEW t \in Tasks
  PROVE  With(list, Len(list), t) = Append(list, t)
<1> DEFINE n == Len(list)
           w == With(list, n, t)
<1>1. n \in 0 .. n /\ n \in Nat
  BY ListType
<1>2. /\ w \in Seq(Tasks) /\ Len(w) = n + 1
      /\ \A i \in 1 .. n + 1 : w[i] = IF i <= n THEN list[i] ELSE IF i = n + 1 THEN t ELSE list[i - 1]
  BY <1>1, WithType
<1>3. /\ Append(list, t) \in Seq(Tasks) /\ Len(Append(list, t)) = n + 1
      /\ \A i \in 1 .. n : Append(list, t)[i] = list[i]
      /\ Append(list, t)[n + 1] = t
  BY AppendProperties
<1> HIDE DEF n, w
<1>4. \A i \in 1 .. n + 1 : w[i] = Append(list, t)[i]
  BY <1>1, <1>2, <1>3
<1>5. w = Append(list, t)
  BY <1>2, <1>3, <1>4, SeqEqual
<1> QED
  BY <1>5 DEF w, n

\* A list without its first is its tail.
LEMMA WithoutFirst ==
  ASSUME NEW list \in Seq(Tasks), 1 \in 1 .. Len(list)
  PROVE  list # << >> /\ list[1] = Head(list) /\ Without(list, 1) = Tail(list)
<1> DEFINE n == Len(list)
           w == Without(list, 1)
<1>1. n \in Nat /\ n # 0 /\ list # << >>
  BY ListType, EmptySeq
<1>2. w \in Seq(Tasks) /\ Len(w) = n - 1 /\ \A i \in 1 .. n - 1 : w[i] = list[i + 1]
  BY WithoutType
<1>3. /\ Head(list) = list[1] /\ Tail(list) \in Seq(Tasks) /\ Len(Tail(list)) = n - 1
      /\ \A i \in 1 .. n - 1 : Tail(list)[i] = list[i + 1]
  BY <1>1, HeadTailProperties
<1> HIDE DEF w, n
<1>4. w = Tail(list)
  BY <1>2, <1>3, SeqEqual
<1> QED
  BY <1>1, <1>3, <1>4 DEF w

\* The state of TaskSpec that a queue's state stands for.
LEMMA AbstractState ==
  ASSUME NEW P, NEW W, Lists(q, P, W)
  PROVE  /\ Pending = P
         /\ [t \in Tasks |-> IF is_waiting(t) THEN q.exec_at[t] ELSE -1] = Deadlines(q)
         /\ \A t \in Tasks : Abstract!IsPending(t) <=> In(t, P)
         /\ \A t \in Tasks : Deadlines(q)[t] = IF In(t, W) THEN q.exec_at[t] ELSE -1
         /\ \A t \in Tasks : q.exec_at[t] \in Nat
<1>1. Pending = P /\ P \in Seq(Tasks) /\ \A t \in Tasks : "WAITING" \in q.flags[t] <=> In(t, W)
  BY ListsAre DEF Pending
<1>2. DOMAIN P = 1 .. Len(P)
  BY <1>1, LenProperties
<1>3. \A t \in Tasks : Abstract!IsPending(t) <=> In(t, P)
  BY <1>1, <1>2 DEF Abstract!IsPending, Abstract!ToSet, In
<1>4. \A t \in Tasks : Deadlines(q)[t] = IF In(t, W) THEN q.exec_at[t] ELSE -1
  BY <1>1 DEF Deadlines
<1>5. \A t \in Tasks : q.exec_at[t] \in Nat
  BY DEF Lists, QueueStates, Times
<1> QED
  BY <1>1, <1>3, <1>4, <1>5 DEF Deadlines, is_waiting

\* The same of the next state.
LEMMA NextAbstractState ==
  ASSUME NEW P, NEW W, Lists(q', P, W)
  PROVE  /\ Pending' = P
         /\ [t \in Tasks |-> IF is_waiting(t) THEN q.exec_at[t] ELSE -1]' = Deadlines(q')
         /\ \A t \in Tasks : Deadlines(q')[t] = IF In(t, W) THEN q'.exec_at[t] ELSE -1
<1>1. Pending' = P /\ \A t \in Tasks : "WAITING" \in q'.flags[t] <=> In(t, W)
  BY ListsAre DEF Pending
<1> QED
  BY <1>1 DEF Deadlines, is_waiting

\* Scheduling for immediate execution is Exec, or nothing if already pending.
LEMMA ExecImplements ==
  ASSUME ListInv, ~raced, NEW c \in Contexts, NEW t \in Tasks, pr_task_exec(c, t)
  PROVE  [Abstract!Next]_(Abstract!vars)
<1>1. CASE is_pending(t)
  BY <1>1 DEF pr_task_exec, Abstract!vars, Pending, is_waiting
<1>2. CASE ~is_pending(t)
  <2>1. PICK P, W : Lists(q, P, W)
    BY DEF ListInv
  <2>2. PICK W2 : /\ Lists(q', With(P, Len(P), t), W2)
                  /\ \A u : In(u, W2) <=> In(u, W) /\ u # t
                  /\ \A u \in Tasks : u # t => q'.exec_at[u] = q.exec_at[u]
    BY <1>2, <2>1, ExecLists DEF pr_task_exec, is_pending, is_waiting
  <2>3. P \in Seq(Tasks) /\ ~In(t, P)
    BY <1>2, <2>1, ListsAre DEF is_pending
  <2>4. Pending' = Append(Pending, t)
    BY <2>1, <2>2, <2>3, AbstractState, NextAbstractState, WithLast
  <2>5. Deadlines(q') = [Deadlines(q) EXCEPT ![t] = -1]
    <3>1. \A u \in Tasks : Deadlines(q')[u] = IF u = t THEN -1 ELSE Deadlines(q)[u]
      BY <2>1, <2>2, AbstractState, NextAbstractState
    <3> QED
      BY <3>1 DEF Deadlines
  <2>6. ~Abstract!IsPending(t) /\ now' = now /\ running' = running
    BY <2>1, <2>3, AbstractState DEF pr_task_exec
  <2>7. Abstract!Exec(t)
    BY <2>1, <2>2, <2>4, <2>5, <2>6, AbstractState, NextAbstractState DEF Abstract!Exec, Abstract!None
  <2> QED
    BY <2>7 DEF Abstract!Next
<1> QED
  BY <1>1, <1>2

\* A step that changes neither the queue, the time nor the running task.
LEMMA Stutters ==
  ASSUME q' = q, now' = now, running' = running
  PROVE  [Abstract!Next]_(Abstract!vars)
  BY DEF Abstract!vars, Pending, is_waiting

\* The interrupt's loop is Expire, as of the time it read.
LEMMA DrainImplements ==
  ASSUME ListsInv, ~raced, queue_waiting_process
  PROVE  Abstract!Expire
<1>main. "alarm" \in Contexts
  BY DEF Contexts, Interrupts
<1> DEFINE at == arg["alarm"].value
<1>1. at \in 0 .. now /\ now \in Nat /\ q' = waiting_process(q, at) /\ now' = now /\ running' = running
  BY <1>main DEF queue_waiting_process, At, ListsInv, Where, TypeInv, TypeOK, Times
<1>2. PICK P, W : Lists(q, P, W)
  BY DEF ListsInv, ListInv
<1> HIDE DEF at
<1>a. at \in Int
  BY <1>1
<1>b. PICK k \in 0 .. Len(W) : \E P2, W2 : Drained(q, P, W, at, q', k, P2, W2)
  BY <1>1, <1>2, <1>a, DrainLists
<1>c. PICK P2, W2 : Drained(q, P, W, at, q', k, P2, W2)
  BY <1>b
<1>3. /\ Lists(q', P2, W2) /\ Moved(P, W, k, P2, W2)
      /\ \A i \in 1 .. k : q.exec_at[W[i]] <= at
      /\ k # Len(W) => ~(q.exec_at[W[k + 1]] <= at)
      /\ \A u \in Tasks : In(u, W2) => q'.exec_at[u] = q.exec_at[u]
  BY <1>c DEF Drained
<1> DEFINE n == Len(W)
           due == Deadlines(q)
           late == {t \in Tasks : due[t] # -1 /\ due[t] <= at}
           order == [i \in 1 .. k |-> W[i]]
<1>4. /\ n \in Nat /\ (\A i \in 1 .. n : W[i] \in Tasks) /\ P \in Seq(Tasks) /\ Len(P) \in Nat
      /\ W \in Seq(Tasks) /\ P2 \in Seq(Tasks)
      /\ \A i, j \in 1 .. n : W[i] = W[j] => i = j
      /\ \A i, j \in 1 .. n : i < j => q.exec_at[W[i]] <= q.exec_at[W[j]]
  <2>1. P \in Seq(Tasks) /\ W \in Seq(Tasks) /\ P2 \in Seq(Tasks)
    BY <1>2, <1>3, ListsAre
  <2>2. \A i, j \in 1 .. n : W[i] = W[j] => i = j
    BY <1>2 DEF Lists, IsList
  <2>3. \A i, j \in 1 .. n : i < j => q.exec_at[W[i]] <= q.exec_at[W[j]]
    BY <1>2 DEF Lists, Sorted
  <2> QED
    BY <2>1, <2>2, <2>3, ListType
<1>5. /\ \A t \in Tasks : due[t] = IF In(t, W) THEN q.exec_at[t] ELSE -1
      /\ \A t \in Tasks : q.exec_at[t] \in Nat
      /\ \A t \in Tasks : Deadlines(q')[t] = IF In(t, W2) THEN q'.exec_at[t] ELSE -1
  BY <1>2, <1>3, AbstractState, NextAbstractState
<1>6. /\ \A u : In(u, W2) => In(u, W)
      /\ \A u : In(u, W) => In(u, W2) \/ \E i \in 1 .. k : W[i] = u
  BY <1>3, <1>4, MovedMembers
<1> HIDE DEF n, due

\* The late tasks are the first k waiting ones.
<1>7. ASSUME NEW i \in 1 .. n
      PROVE  W[i] \in late <=> i <= k
  <2>1. In(W[i], W) /\ W[i] \in Tasks /\ q.exec_at[W[i]] \in Nat /\ due[W[i]] = q.exec_at[W[i]]
    BY <1>4, <1>5 DEF In, n
  <2>2. CASE i <= k
    <3>1. q.exec_at[W[i]] <= at
      BY <1>3, <1>4, <2>2
    <3> QED
      BY <2>1, <2>2, <3>1
  <2>3. CASE ~(i <= k)
    <3>1. k # n /\ k + 1 \in 1 .. n /\ (i = k + 1 \/ k + 1 < i)
      BY <1>3, <1>4, <2>3 DEF n
    <3>2. ~(q.exec_at[W[k + 1]] <= at) /\ W[k + 1] \in Tasks /\ q.exec_at[W[k + 1]] \in Nat
      BY <1>3, <1>4, <1>5, <3>1 DEF n
    <3>3. q.exec_at[W[k + 1]] <= q.exec_at[W[i]]
      BY <1>4, <3>1, <3>2
    <3>4. ~(q.exec_at[W[i]] <= at)
      BY <1>1, <2>1, <3>2, <3>3
    <3> QED
      BY <2>1, <2>3, <3>4
  <2> QED
    BY <2>2, <2>3
<1>8. late = {order[i] : i \in 1 .. k}
  <2>1. ASSUME NEW t \in late
        PROVE  \E i \in 1 .. k : order[i] = t
    <3>1. In(t, W)
      BY <1>5
    <3>2. PICK i \in 1 .. n : W[i] = t
      BY <3>1 DEF In, n
    <3>3. i \in 1 .. k
      BY <1>4, <1>7, <3>2
    <3> QED
      BY <3>2, <3>3
  <2>2. ASSUME NEW i \in 1 .. k
        PROVE  order[i] \in late
    <3>1. i \in 1 .. n /\ i <= k /\ order[i] = W[i]
      BY <1>4 DEF n
    <3> HIDE DEF order, late
    <3> QED
      BY <1>7, <3>1
  <2> HIDE DEF late, order
  <2> QED
    BY <2>1, <2>2
<1>9. /\ k \in Nat /\ order \in [1 .. k -> late]
      /\ \A i, j \in 1 .. k : order[i] = order[j] => i = j
  <2>1. k \in Nat /\ \A i \in 1 .. k : i \in 1 .. n /\ order[i] = W[i] /\ order[i] \in late
    BY <1>4, <1>8 DEF n
  <2>2. order \in [1 .. k -> late]
    <3> HIDE DEF late
    <3> QED
      BY <2>1
  <2> HIDE DEF late, order
  <2> QED
    BY <1>4, <2>1, <2>2
<1>10. Cardinality(late) = k
  <2> HIDE DEF late, order
  <2>1. \A t \in late : \E i \in 1 .. k : order[i] = t
    BY <1>8
  <2>2. IsFiniteSet(late) /\ Cardinality(late) = k
    BY <1>9, <2>1, InjectiveImage
  <2> QED
    BY <2>2
<1>11. order \in Abstract!SetToSeqs(late)
  <2> HIDE DEF late, order
  <2>1. order \in [1 .. Cardinality(late) -> late]
    BY <1>9, <1>10
  <2>2. \A i, j \in 1 .. Cardinality(late) : i # j => order[i] # order[j]
    BY <1>9, <1>10
  <2>3. Abstract!Cardinality(late) = Cardinality(late)
    BY DEF Abstract!Cardinality, Cardinality
  <2> QED
    BY <2>1, <2>2, <2>3, SMTT(40) DEF Abstract!SetToSeqs
<1>12. \A i, j \in DOMAIN order : i < j => due[order[i]] <= due[order[j]]
  <2>1. \A i \in 1 .. k : i \in 1 .. n /\ order[i] = W[i]
    BY <1>4 DEF n
  <2>2. \A i \in 1 .. k : due[order[i]] = q.exec_at[W[i]]
    <3> HIDE DEF order
    <3> QED
      BY <1>4, <1>5, <2>1, ZenonT(40) DEF In, n
  <2>3. DOMAIN order = 1 .. k
    OBVIOUS
  <2> HIDE DEF order, late
  <2> QED
    BY <1>4, <2>1, <2>2, <2>3
<1>13. P2 = P \o order
  <2>1. order \in Seq(Tasks) /\ Len(order) = k
    <3>1. order \in [1 .. k -> Tasks]
      BY <1>4, <1>9 DEF n
    <3> HIDE DEF order
    <3> QED
      BY <1>9, <3>1, FunctionSeq
  <2>2. \A i \in 1 .. k : order[i] = W[i]
    OBVIOUS
  <2> HIDE DEF order, late
  <2>3. /\ P \o order \in Seq(Tasks) /\ Len(P \o order) = Len(P) + k
        /\ \A i \in 1 .. Len(P) + k : (P \o order)[i] =
              IF i <= Len(P) THEN P[i] ELSE order[i - Len(P)]
    <3>1. P \in Seq(Tasks)
      BY <1>4
    <3>2. /\ P \o order \in Seq(Tasks) /\ Len(P \o order) = Len(P) + Len(order)
          /\ \A i \in 1 .. Len(P) + Len(order) : (P \o order)[i] =
                IF i <= Len(P) THEN P[i] ELSE order[i - Len(P)]
      BY <2>1, <3>1, ConcatProperties, Zenon
    <3> QED
      BY <2>1, <3>2, Zenon
  <2>4. ASSUME NEW i \in 1 .. Len(P) + k
        PROVE  P2[i] = (P \o order)[i]
    <3>1. CASE i <= Len(P)
      <4>1. i \in 1 .. Len(P)
        BY <1>4, <3>1
      <4> QED
        BY <1>3, <2>3, <3>1, <4>1 DEF Moved
    <3>2. CASE ~(i <= Len(P))
      <4>1. i - Len(P) \in 1 .. k /\ Len(P) + (i - Len(P)) = i
        BY <1>4, <1>9, <3>2
      <4>2. P2[Len(P) + (i - Len(P))] = W[i - Len(P)]
        BY <1>3, <4>1 DEF Moved
      <4> QED
        BY <2>2, <2>3, <3>2, <4>1, <4>2
    <3> QED
      BY <3>1, <3>2
  <2>5. Len(P2) = Len(P) + k
    BY <1>3 DEF Moved
  <2> QED
    BY <1>4, <2>3, <2>4, <2>5, SeqEqual
<1>14. Deadlines(q') = [t \in Tasks |-> IF t \in late THEN -1 ELSE due[t]]
  <2>1. ASSUME NEW t \in Tasks
        PROVE  Deadlines(q')[t] = IF t \in late THEN -1 ELSE due[t]
    <3>1. CASE In(t, W2)
      <4>1. In(t, W) /\ q'.exec_at[t] = q.exec_at[t]
        BY <1>3, <1>6, <3>1
      <4>2. t \notin late
        <5>1. PICK i \in 1 .. n - k : W2[i] = t
          BY <1>3, <3>1 DEF In, Moved, n
        <5>2. k + i \in 1 .. n /\ W[k + i] = t /\ ~(k + i <= k)
          BY <1>3, <1>4, <5>1 DEF Moved, n
        <5> HIDE DEF late
        <5> QED
          BY <1>7, <5>2
      <4> HIDE DEF late, order
      <4> QED
        BY <1>5, <3>1, <4>1, <4>2
    <3>2. CASE ~In(t, W2) /\ In(t, W)
      <4>1. PICK i \in 1 .. k : W[i] = t
        BY <1>6, <3>2
      <4>2. t \in late
        BY <1>8, <4>1
      <4> HIDE DEF late, order
      <4> QED
        BY <1>5, <3>2, <4>2
    <3>3. CASE ~In(t, W2) /\ ~In(t, W)
      BY <1>5, <3>3
    <3> QED
      BY <3>1, <3>2, <3>3
  <2> HIDE DEF late, order
  <2> QED
    BY <2>1 DEF Deadlines
<1>15. /\ Pending = P /\ Pending' = P2
       /\ [t \in Tasks |-> IF is_waiting(t) THEN q.exec_at[t] ELSE -1] = due
       /\ [t \in Tasks |-> IF is_waiting(t) THEN q.exec_at[t] ELSE -1]' = Deadlines(q')
  BY <1>2, <1>3, AbstractState, NextAbstractState DEF due
<1>16. \E limit \in 0 .. now :
         LET past == {t \in Tasks : due[t] # -1 /\ due[t] <= limit} IN
         /\ \E o \in Abstract!SetToSeqs(past) :
              /\ \A i, j \in DOMAIN o : i < j => due[o[i]] <= due[o[j]]
              /\ Pending' = Pending \o o
         /\ Deadlines(q') = [t \in Tasks |-> IF t \in past THEN -1 ELSE due[t]]
  <2>1. \E o \in Abstract!SetToSeqs(late) :
              /\ \A i, j \in DOMAIN o : i < j => due[o[i]] <= due[o[j]]
              /\ Pending' = Pending \o o
    <3> HIDE DEF late, order
    <3> QED
      BY <1>11, <1>12, <1>13, <1>15
  <2> QED
    BY <1>1, <1>14, <2>1
<1> QED
  BY <1>1, <1>15, <1>16 DEF Abstract!Expire, Abstract!None

\* A step that takes the first pending task off its list to run it.
LEMMA PopImplements ==
  ASSUME ListsInv, ~raced, PopPending
  PROVE  Abstract!Run
<1>1. q' = pending_pop(q) /\ q.first # NULL /\ running' = q.first /\ now' = now /\ running = NULL
  BY DEF PopPending, At, ListsInv, Where
<1>2. PICK P, W : Lists(q, P, W)
  BY DEF ListsInv, ListInv
<1>3. 1 \in 1 .. Len(P) /\ q.first = P[1] /\ Lists(q', Without(P, 1), W) /\ q'.exec_at = q.exec_at
  BY <1>1, <1>2, PendingPopLists, PendingPopKeepsWaiting
<1>4. P \in Seq(Tasks)
  BY <1>2, ListsAre
<1>5. P # << >> /\ P[1] = Head(P) /\ Without(P, 1) = Tail(P)
  BY <1>3, <1>4, WithoutFirst
<1>6. Pending = P /\ Pending' = Tail(P)
  BY <1>2, <1>3, <1>5, AbstractState, NextAbstractState
<1>7. Deadlines(q') = Deadlines(q)
  <2>1. \A t \in Tasks : Deadlines(q')[t] = Deadlines(q)[t]
    BY <1>2, <1>3, AbstractState, NextAbstractState
  <2> QED
    BY <2>1 DEF Deadlines
<1>8. /\ [t \in Tasks |-> IF is_waiting(t) THEN q.exec_at[t] ELSE -1] = Deadlines(q)
      /\ [t \in Tasks |-> IF is_waiting(t) THEN q.exec_at[t] ELSE -1]' = Deadlines(q')
  BY <1>2, <1>3, AbstractState, NextAbstractState
<1> QED
  BY <1>1, <1>3, <1>5, <1>6, <1>7, <1>8 DEF Abstract!Run

\* Linking a task that is not pending into the waiting list, which it may have to
\* leave first, gives it a deadline to come.
LEMMA EnqueueImplements ==
  ASSUME ListsInv, ~raced, NEW c \in Contexts, Enqueue(c), ~raced'
  PROVE  \E t \in Tasks : Abstract!ExecIn(t)
<1>1. pc[c] = "enqueue" /\ now' = now /\ running' = running /\ ~is_pending(arg[c].task)
  BY DEF Enqueue, At
<1>2. PICK t \in Tasks, at \in Times : t = arg[c].task /\ at = now + arg[c].value /\ at >= now
  BY <1>1 DEF ListsInv, TypeInv, TypeOK, EnqueueArgs, Times
<1>3. PICK P, W : Lists(q, P, W)
  BY DEF ListsInv, ListInv
<1>4. PICK W2 : /\ Lists(q', P, W2)
                /\ \A u \in Tasks : In(u, W2) <=> In(u, W) \/ u = t
                /\ \A u \in Tasks : q'.exec_at[u] = IF u = t THEN at ELSE q.exec_at[u]
  BY <1>1, <1>2, <1>3, EnqueueLists DEF ListsInv
<1>5. Pending' = Pending
  BY <1>3, <1>4, AbstractState, NextAbstractState
<1>6. /\ [u \in Tasks |-> IF is_waiting(u) THEN q.exec_at[u] ELSE -1] = Deadlines(q)
      /\ [u \in Tasks |-> IF is_waiting(u) THEN q.exec_at[u] ELSE -1]' = Deadlines(q')
  BY <1>3, <1>4, AbstractState, NextAbstractState
<1>7. Deadlines(q') = [Deadlines(q) EXCEPT ![t] = at]
  <2>1. \A u \in Tasks : Deadlines(q')[u] = IF u = t THEN at ELSE Deadlines(q)[u]
    BY <1>2, <1>3, <1>4, AbstractState, NextAbstractState
  <2> QED
    BY <2>1 DEF Deadlines
<1>8. Deadlines(q')[t] = at /\ at \in Nat
  BY <1>2, <1>7 DEF Deadlines, Times
<1>9. ~Abstract!IsPending(t)
  BY <1>1, <1>2, <1>3, AbstractState, ListsAre DEF is_pending
<1>10. Abstract!ExecIn(t)
  BY <1>1, <1>2, <1>5, <1>6, <1>7, <1>8, <1>9 DEF Abstract!ExecIn
<1> QED
  BY <1>10

\* What has happened stays so.
LEMMA RacedForGood == [Next]_vars /\ raced => raced'
<1> SUFFICES ASSUME [Next]_vars, raced
             PROVE  raced'
  OBVIOUS
<1>1. CASE MainStep \/ AlarmStep \/ Tick
  BY <1>1 DEF MainStep, AlarmStep, EnterLoop, PopPending, LeaveLoop, FireAlarm, ptask_alarm,
              queue_waiting_process, Tick
<1>2. CASE HandlerCallsExec \/ HandlerCallsExecIn
  BY <1>2 DEF HandlerCallsExec, HandlerCallsExecIn, pr_task_exec, pr_task_exec_in
<1>3. CASE \E c \in Irqs : IrqCallsExec(c) \/ IrqCallsExecIn(c)
  BY <1>3 DEF IrqCallsExec, IrqCallsExecIn, pr_task_exec, pr_task_exec_in
<1>4. CASE \E c \in Contexts : Enqueue(c) \/ Reschedule(c)
  BY <1>4 DEF Enqueue, Reschedule, LoadAlarm, CancelAlarm, ClearAlarm, CheckWaiting, ArmAlarm
<1>5. CASE UNCHANGED vars
  BY <1>5 DEF vars
<1> QED
  BY <1>1, <1>2, <1>3, <1>4, <1>5 DEF Next

\* Every step is a step of TaskSpec or leaves its variables alone, until the race.
LEMMA NextImplements == ListsInv /\ [Next]_vars => [raced' \/ Abstract!Next]_(Abstract!vars)
<1> SUFFICES ASSUME ListsInv, [Next]_vars, ~raced'
             PROVE  [Abstract!Next]_(Abstract!vars)
  OBVIOUS
<1>r. ~raced
  BY RacedForGood
<1>inv. TypeInv /\ ListInv
  BY DEF ListsInv
<1>main. "main" \in Contexts /\ "alarm" \in Contexts /\ Irqs \subseteq Contexts
  BY DEF Contexts, Interrupts
<1>1. CASE EnterLoop
  <2>1. Abstract!Finish
    BY <1>1 DEF EnterLoop, Abstract!Finish, Pending, is_waiting
  <2> QED
    BY <2>1 DEF Abstract!Next
<1>2. CASE PopPending
  BY <1>2, <1>r, PopImplements DEF Abstract!Next
<1>3. CASE LeaveLoop \/ FireAlarm \/ ptask_alarm
  BY <1>3, Stutters DEF LeaveLoop, FireAlarm, ptask_alarm
<1>4. CASE queue_waiting_process
  BY <1>4, <1>r, DrainImplements DEF Abstract!Next
<1>5. CASE HandlerCallsExec
  <2>1. PICK t \in HandlerExec[running] : pr_task_exec("main", t)
    BY <1>5 DEF HandlerCallsExec
  <2>2. t \in Tasks
    BY <1>inv, TaskAssumption DEF TypeInv, TypeOK, Pointers
  <2> QED
    BY <1>inv, <1>r, <1>main, <2>1, <2>2, ExecImplements
<1>6. CASE HandlerCallsExecIn
  BY <1>6, Stutters DEF HandlerCallsExecIn, pr_task_exec_in
<1>7. ASSUME NEW c \in Irqs, IrqCallsExec(c)
      PROVE  [Abstract!Next]_(Abstract!vars)
  BY <1>7, <1>inv, <1>r, <1>main, TaskAssumption, ExecImplements DEF IrqCallsExec
<1>8. ASSUME NEW c \in Irqs, IrqCallsExecIn(c)
      PROVE  [Abstract!Next]_(Abstract!vars)
  BY <1>8, Stutters DEF IrqCallsExecIn, pr_task_exec_in
<1>9. ASSUME NEW c \in Contexts, Enqueue(c)
      PROVE  [Abstract!Next]_(Abstract!vars)
  BY <1>9, <1>r, EnqueueImplements DEF Abstract!Next
<1>10. ASSUME NEW c \in Contexts, Reschedule(c)
       PROVE  [Abstract!Next]_(Abstract!vars)
  <2>1. q' = q /\ now' = now /\ running' = running
    BY <1>10 DEF Reschedule, LoadAlarm, CancelAlarm, ClearAlarm, CheckWaiting, ArmAlarm
  <2> QED
    BY <2>1, Stutters
<1>11. CASE Tick
  <2>1. Abstract!Pass
    BY <1>11 DEF Tick, Abstract!Pass, Pending, is_waiting
  <2> QED
    BY <2>1 DEF Abstract!Next
<1>12. CASE UNCHANGED vars
  BY <1>12, Stutters DEF vars
<1> QED
  BY <1>1, <1>2, <1>3, <1>4, <1>5, <1>6, <1>7, <1>8, <1>9, <1>10, <1>11, <1>12
     DEF Next, MainStep, AlarmStep

\* The empty queue is TaskSpec's initial state.
LEMMA InitImplements == Init => Abstract!Init
<1> SUFFICES ASSUME Init
             PROVE  Abstract!Init
  OBVIOUS
<1>1. q \in QueueStates
  BY TypeInvInit DEF TypeInv, TypeOK
<1>2. IsList(q.next, q.first, << >>)
  BY EmptySeq DEF Init, IsList, After
<1>3. Pending = << >>
  BY <1>1, <1>2, WalkList DEF Pending
<1>4. \A t \in Tasks : ~is_waiting(t)
  BY DEF Init, is_waiting
<1> QED
  BY <1>3, <1>4 DEF Init, Abstract!Init, Abstract!None

\* The scheduler of task.c, with its linked lists, its lock and its alarm, is an
\* implementation of TaskSpec, in every interleaving until a task is delayed that
\* became pending between the unlocked test and the lock.
THEOREM TaskImplementsSpec == Spec => ImplementsSpec
  BY ListsInvInductive, ListsInvInit, InitImplements, NextImplements, PTL DEF Spec, ImplementsSpec
=============================================================================
