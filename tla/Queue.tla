------------------------------- MODULE Queue --------------------------------
(***************************************************************************)
(* The pointer queue of picore (src/queue): a ring of pointers, filled by  *)
(* a producer task and by interrupts, emptied by a consumer task.  Each    *)
(* push and pop is one section under the module's spin lock; the task on   *)
(* the other side is scheduled after the lock is released, in a step of    *)
(* its own.                                                                *)
(***************************************************************************)
EXTENDS Integers

CONSTANTS
  Size,         \* number of pointers the ring holds
  Irqs,         \* interrupts that push; they drop a message the queue refuses
  MaxMessages,  \* bound: messages created
  Backlog,      \* messages the producer task has to send
  DrainsAll     \* TRUE: the consumer's handler pops until the queue is empty

ASSUME QueueAssumption ==
  /\ Size \in Nat \ {0}
  /\ "main" \notin Irqs
  /\ MaxMessages \in Nat
  /\ Backlog \in 0 .. MaxMessages
  /\ DrainsAll \in BOOLEAN

None == "none"
PR_OK == 0
PR_ERR_MEMORY == -2
PR_ERR_BUSY == -7
QueueTasks == {"consumer", "producer"}
Contexts == Irqs \cup {"main"}
Slots == 0 .. Size - 1

VARIABLES
  entry, wptr, rptr, free, used,  \* struct pr_queue
  out,       \* what the last successful pop stored through its argument
  tasks,     \* tasks pending in the scheduler
  running,   \* whose handler the main loop is in
  ret,       \* result of the last push or pop of each context
  notify,    \* task each context is about to pass to pr_task_exec
  sent,      \* messages created so far; also the last one's pointer
  backlog    \* messages the producer task has still to send

ring == <<entry, wptr, rptr, free, used>>
vars == <<ring, out, tasks, running, ret, notify, sent, backlog>>

Init ==
  /\ entry \in [Slots -> {0}]
  /\ wptr = 0 /\ rptr = 0
  /\ free = Size /\ used = 0
  /\ out = 0
  /\ tasks = {"producer"}
  /\ running = None
  /\ ret = [c \in Contexts |-> PR_OK]
  /\ notify = [c \in Contexts |-> None]
  /\ sent = 0
  /\ backlog = Backlog

Advance(ptr) == IF ptr + 1 >= Size THEN 0 ELSE ptr + 1

\* Mutant: the free count is not maintained.
Pushed_free_stays(c, message) ==
  /\ free # 0
  /\ used' = used + 1
  /\ entry' = [entry EXCEPT ![wptr] = message]
  /\ wptr' = Advance(wptr)
  /\ ret' = [ret EXCEPT ![c] = PR_OK]
  /\ notify' = [notify EXCEPT ![c] = "consumer"]
  /\ UNCHANGED <<rptr, out, free>>

\* Mutant: the consumer is told only of the entry that fills the queue.
Pushed_tells_when_full(c, message) ==
  /\ free # 0
  /\ free' = free - 1
  /\ used' = used + 1
  /\ entry' = [entry EXCEPT ![wptr] = message]
  /\ wptr' = Advance(wptr)
  /\ ret' = [ret EXCEPT ![c] = PR_OK]
  /\ notify' = [notify EXCEPT ![c] = IF free = 1 THEN "consumer" ELSE None]
  /\ UNCHANGED <<rptr, out>>

Pushed(c, message) ==
  /\ free # 0
  /\ free' = free - 1
  /\ used' = used + 1
  /\ entry' = [entry EXCEPT ![wptr] = message]
  /\ wptr' = Advance(wptr)
  /\ ret' = [ret EXCEPT ![c] = PR_OK]
  /\ notify' = [notify EXCEPT ![c] = "consumer"]
  /\ UNCHANGED <<rptr, out>>

PushRefused(c) ==
  /\ free = 0
  /\ ret' = [ret EXCEPT ![c] = PR_ERR_MEMORY]
  /\ UNCHANGED <<ring, out, notify>>

\* Mutant: the entry is read after the pointer has moved.
Popped_next(c) ==
  /\ used # 0
  /\ free' = free + 1
  /\ used' = used - 1
  /\ out' = entry[Advance(rptr)]
  /\ rptr' = Advance(rptr)
  /\ ret' = [ret EXCEPT ![c] = PR_OK]
  /\ notify' = [notify EXCEPT ![c] = "producer"]
  /\ UNCHANGED <<entry, wptr>>

\* Mutant: the producer is told only when the queue becomes empty.
Popped_tells_when_empty(c) ==
  /\ used # 0
  /\ free' = free + 1
  /\ used' = used - 1
  /\ out' = entry[rptr]
  /\ rptr' = Advance(rptr)
  /\ ret' = [ret EXCEPT ![c] = PR_OK]
  /\ notify' = [notify EXCEPT ![c] = IF used = 1 THEN "producer" ELSE None]
  /\ UNCHANGED <<entry, wptr>>

\* Mutant: the producer is never told.
Popped_silent(c) ==
  /\ used # 0
  /\ free' = free + 1
  /\ used' = used - 1
  /\ out' = entry[rptr]
  /\ rptr' = Advance(rptr)
  /\ ret' = [ret EXCEPT ![c] = PR_OK]
  /\ UNCHANGED <<entry, wptr, notify>>

Popped(c) ==
  /\ used # 0
  /\ free' = free + 1
  /\ used' = used - 1
  /\ out' = entry[rptr]
  /\ rptr' = Advance(rptr)
  /\ ret' = [ret EXCEPT ![c] = PR_OK]
  /\ notify' = [notify EXCEPT ![c] = "producer"]
  /\ UNCHANGED <<entry, wptr>>

PopRefused(c) ==
  /\ used = 0
  /\ ret' = [ret EXCEPT ![c] = PR_ERR_MEMORY]
  /\ UNCHANGED <<ring, out, notify>>

pr_queue_push(c, message) == Pushed(c, message) \/ PushRefused(c)
pr_queue_pop(c) == Popped(c) \/ PopRefused(c)

\* The call to pr_task_exec that follows the unlock.
Notify(c) ==
  /\ notify[c] # None
  /\ tasks' = tasks \cup {notify[c]}
  /\ notify' = [notify EXCEPT ![c] = None]
  /\ UNCHANGED <<ring, out, running, ret, sent, backlog>>

----------------------------------------------------------------------------
(* The handlers the main loop runs, and the interrupts.                    *)

RunTask(t) ==
  /\ running = None
  /\ t \in tasks
  /\ tasks' = tasks \ {t}
  /\ running' = t
  /\ ret' = [ret EXCEPT !["main"] = PR_OK]
  /\ UNCHANGED <<ring, out, notify, sent, backlog>>

\* A handler whose last call failed returns, as does one that calls once only.
Done == running = None \/ ret["main"] # PR_OK

ConsumerPops ==
  /\ running = "consumer" /\ ~Done /\ notify["main"] = None
  /\ pr_queue_pop("main")
  /\ running' = IF DrainsAll THEN running ELSE None
  /\ UNCHANGED <<tasks, sent, backlog>>

ProducerPushes ==
  /\ running = "producer" /\ ~Done /\ notify["main"] = None
  /\ backlog > 0
  /\ pr_queue_push("main", sent + 1)
  /\ IF free # 0 THEN sent' = sent + 1 /\ backlog' = backlog - 1 ELSE UNCHANGED <<sent, backlog>>
  /\ UNCHANGED <<tasks, running>>

HandlerReturns ==
  /\ running # None /\ notify["main"] = None
  /\ Done \/ (running = "producer" /\ backlog = 0)
  /\ running' = None
  /\ UNCHANGED <<ring, out, tasks, ret, notify, sent, backlog>>

\* An interrupt creates a message and pushes it, once.
IrqPushes(c) ==
  /\ notify[c] = None
  /\ sent + backlog < MaxMessages
  /\ pr_queue_push(c, sent + 1)
  /\ sent' = sent + 1
  /\ UNCHANGED <<tasks, running, backlog>>

MainStep ==
  \/ \E t \in QueueTasks : RunTask(t)
  \/ ConsumerPops
  \/ ProducerPushes
  \/ HandlerReturns
  \/ Notify("main")

Next ==
  \/ MainStep
  \/ \E c \in Irqs : IrqPushes(c) \/ Notify(c)

Spec == Init /\ [][Next]_vars

\* The main loop keeps running tasks, in the order in which they became pending
\* (so none is passed over for ever), and an interrupt that began ends.
Fairness ==
  /\ WF_vars(MainStep)
  /\ \A t \in QueueTasks : SF_vars(RunTask(t))
  /\ \A c \in Irqs : WF_vars(Notify(c))

FairSpec == Spec /\ Fairness

----------------------------------------------------------------------------
(* Properties.                                                             *)

\* Every variable holds a value of its type; no interleaving makes a counter or a
\* pointer of the ring leave its range.
TypeOK ==
  /\ entry \in [Slots -> Nat]
  /\ wptr \in Slots /\ rptr \in Slots
  /\ free \in 0 .. Size /\ used \in 0 .. Size
  /\ out \in Nat
  /\ tasks \subseteq QueueTasks
  /\ running \in QueueTasks \cup {None}
  /\ ret \in [Contexts -> {PR_OK, PR_ERR_MEMORY}]
  /\ notify \in [Contexts -> QueueTasks \cup {None}]
  /\ sent \in Nat /\ backlog \in Nat /\ sent + backlog <= MaxMessages

Wrap(i) == IF i >= Size THEN i - Size ELSE i

\* The four redundant fields of the ring agree after any interleaving of pushes
\* and pops: the counters add up to the size and the distance between the two
\* pointers is the number of entries, so that a push never overwrites a queued
\* entry and a pop never returns a slot that holds none.
RingConsistent ==
  /\ used + free = Size
  /\ wptr = Wrap(rptr + used)

\* The n pointers of a ring e from slot r on; the queued ones, the oldest first.
RingFrom(e, r, n) == [i \in 1 .. n |-> e[Wrap(r + i - 1)]]
Contents == RingFrom(entry, rptr, used)

Abstract == INSTANCE QueueSpec WITH contents <- Contents, Pointers <- 1 .. MaxMessages

\* Pointers come out in the order in which they went in, none lost or repeated.
ImplementsSpec == Abstract!Spec

Scheduled(t) == t \in tasks \/ \E c \in Contexts : notify[c] = t
InHandler(t) == running = t /\ ret["main"] = PR_OK

\* With a consumer that pops until the queue is empty, an entry is never left
\* behind by a notification that came while the consumer was pending, running
\* or about to return: it is scheduled, or will pop again in this run.
NoStrandedEntry == used > 0 => Scheduled("consumer") \/ InHandler("consumer")

\* Nor does the producer task sleep on a backlog while the queue has room.
NoStrandedProducer ==
  (backlog > 0 /\ free > 0) => Scheduled("producer") \/ InHandler("producer")

\* Every message accepted is eventually popped and every backlog sent.
AllDelivered == <>[](used = 0 /\ backlog = 0)

\* A push on a full queue and a pop from an empty one report PR_ERR_BUSY.
RefusalIsBusy == \A c \in Contexts : ret[c] \in {PR_OK, PR_ERR_BUSY}
=============================================================================
