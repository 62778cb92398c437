---------------------------- MODULE QueueProofs -----------------------------
(* Theorems about Queue, for rings of any size, any messages and interrupts. *)
EXTENDS Queue, Sequences, SequenceTheorems, TLAPS

\* The inductive invariant: the types, and the agreement of counters and pointers.
RingInv == TypeOK /\ RingConsistent

----------------------------------------------------------------------------
(* The ring.                                                               *)

\* What a push does to the ring keeps it consistent.
LEMMA PushedKeepsRing ==
  ASSUME RingInv, NEW c \in Contexts, NEW m \in Nat, Pushed(c, m)
  PROVE  /\ entry' \in [Slots -> Nat] /\ wptr' \in Slots /\ rptr' \in Slots
         /\ free' \in 0 .. Size /\ used' \in 0 .. Size
         /\ out' \in Nat
         /\ ret' \in [Contexts -> {PR_OK, PR_ERR_MEMORY}]
         /\ notify' \in [Contexts -> QueueTasks \cup {None}]
         /\ RingConsistent'
  BY QueueAssumption DEF Pushed, Advance, RingInv, TypeOK, RingConsistent, Wrap, Slots, QueueTasks

\* What a pop does to the ring keeps it consistent.
LEMMA PoppedKeepsRing ==
  ASSUME RingInv, NEW c \in Contexts, Popped(c)
  PROVE  /\ entry' \in [Slots -> Nat] /\ wptr' \in Slots /\ rptr' \in Slots
         /\ free' \in 0 .. Size /\ used' \in 0 .. Size
         /\ out' \in Nat
         /\ ret' \in [Contexts -> {PR_OK, PR_ERR_MEMORY}]
         /\ notify' \in [Contexts -> QueueTasks \cup {None}]
         /\ RingConsistent'
  BY QueueAssumption DEF Popped, Advance, RingInv, TypeOK, RingConsistent, Wrap, Slots, QueueTasks

\* A refused call changes only its result.
LEMMA RefusedKeepsRing ==
  ASSUME RingInv, NEW c \in Contexts, PushRefused(c) \/ PopRefused(c)
  PROVE  /\ UNCHANGED <<ring, out, notify>>
         /\ ret' \in [Contexts -> {PR_OK, PR_ERR_MEMORY}]
  BY DEF PushRefused, PopRefused, RingInv, TypeOK

\* Every step preserves the invariant, one case per action.
LEMMA RingInvInductive == RingInv /\ [Next]_vars => RingInv'
<1> SUFFICES ASSUME RingInv, [Next]_vars
             PROVE  RingInv'
  OBVIOUS
<1>main. "main" \in Contexts /\ Irqs \subseteq Contexts
  BY DEF Contexts
<1>1. ASSUME NEW t \in QueueTasks, RunTask(t)
      PROVE  RingInv'
  BY <1>1 DEF RunTask, ring, RingInv, TypeOK, RingConsistent
<1>2. CASE ConsumerPops
  <2>1. CASE Popped("main")
    BY <1>2, <1>main, <2>1, PoppedKeepsRing DEF ConsumerPops, RingInv, TypeOK
  <2>2. CASE PopRefused("main")
    BY <1>2, <1>main, <2>2, RefusedKeepsRing DEF ConsumerPops, ring, RingInv, TypeOK, RingConsistent
  <2>3. QED
    BY <1>2, <2>1, <2>2 DEF ConsumerPops, pr_queue_pop
<1>3. CASE ProducerPushes
  <2>1. CASE Pushed("main", sent + 1)
    <3>1. sent + 1 \in Nat
      BY DEF RingInv, TypeOK
    <3>2. free # 0
      BY <2>1 DEF Pushed
    <3>3. sent' = sent + 1 /\ backlog' = backlog - 1 /\ backlog > 0
      BY <1>3, <3>2 DEF ProducerPushes
    <3>4. sent' \in Nat /\ backlog' \in Nat /\ sent' + backlog' <= MaxMessages
      BY <3>3, QueueAssumption DEF RingInv, TypeOK
    <3>5. QED
      BY <1>3, <1>main, <2>1, <3>1, <3>4, PushedKeepsRing DEF ProducerPushes, RingInv, TypeOK
  <2>2. CASE PushRefused("main")
    <3>1. free = 0
      BY <2>2 DEF PushRefused
    <3>2. QED
      BY <1>3, <1>main, <2>2, <3>1, RefusedKeepsRing DEF ProducerPushes, ring, RingInv, TypeOK, RingConsistent
  <2>3. QED
    BY <1>3, <2>1, <2>2 DEF ProducerPushes, pr_queue_push
<1>4. CASE HandlerReturns
  BY <1>4 DEF HandlerReturns, ring, RingInv, TypeOK, RingConsistent
<1>5. ASSUME NEW c \in Contexts, Notify(c)
      PROVE  RingInv'
  BY <1>5 DEF Notify, ring, RingInv, TypeOK, RingConsistent
<1>6. ASSUME NEW c \in Irqs, IrqPushes(c)
      PROVE  RingInv'
  <2>1. /\ sent + 1 \in Nat
        /\ sent' \in Nat /\ backlog' \in Nat /\ sent' + backlog' <= MaxMessages
    BY <1>6, QueueAssumption DEF IrqPushes, RingInv, TypeOK
  <2>2. CASE Pushed(c, sent + 1)
    BY <1>6, <1>main, <2>1, <2>2, PushedKeepsRing DEF IrqPushes, RingInv, TypeOK
  <2>3. CASE PushRefused(c)
    BY <1>6, <1>main, <2>1, <2>3, RefusedKeepsRing DEF IrqPushes, ring, RingInv, TypeOK, RingConsistent
  <2>4. QED
    BY <1>6, <2>2, <2>3 DEF IrqPushes, pr_queue_push
<1>7. CASE UNCHANGED vars
  BY <1>7 DEF vars, ring, RingInv, TypeOK, RingConsistent
<1>8. QED
  BY <1>main, <1>1, <1>2, <1>3, <1>4, <1>5, <1>6, <1>7 DEF Next, MainStep

\* The empty ring is consistent.
LEMMA RingInvInit == Init => RingInv
  BY QueueAssumption DEF Init, RingInv, TypeOK, RingConsistent, Wrap, Slots, QueueTasks, PR_OK

\* The variables keep their types, whatever the size of the ring.
THEOREM TypeCorrect == Spec => []TypeOK
<1>1. RingInv => TypeOK
  BY DEF RingInv
<1>2. QED
  BY <1>1, RingInvInit, RingInvInductive, PTL DEF Spec

\* The counters and the pointers of the ring agree, whatever its size: no push
\* overwrites a queued entry.
THEOREM RingAlwaysConsistent == Spec => []RingConsistent
<1>1. RingInv => RingConsistent
  BY DEF RingInv
<1>2. QED
  BY <1>1, RingInvInit, RingInvInductive, PTL DEF Spec

----------------------------------------------------------------------------
(* The ring implements a bounded first-in first-out buffer.                *)

\* The slots of a ring read in order are a sequence.
LEMMA RingFromSeq ==
  ASSUME NEW e \in [Slots -> Nat], NEW r \in Slots, NEW n \in 0 .. Size
  PROVE  /\ RingFrom(e, r, n) \in Seq(Nat)
         /\ Len(RingFrom(e, r, n)) = n
         /\ \A i \in 1 .. n : RingFrom(e, r, n)[i] = e[Wrap(r + i - 1)]
<1>1. n \in Nat
  BY QueueAssumption
<1>2. \A i \in 1 .. n : e[Wrap(r + i - 1)] \in Nat
  BY QueueAssumption DEF Wrap, Slots
<1>3. RingFrom(e, r, n) \in [1 .. n -> Nat]
  BY <1>2 DEF RingFrom
<1>4. QED
  BY <1>1, <1>3, LenProperties DEF RingFrom

\* Filling the slot after the last one appends.
LEMMA RingFromAppend ==
  ASSUME NEW e \in [Slots -> Nat], NEW r \in Slots, NEW n \in 0 .. Size, n < Size,
         NEW m \in Nat
  PROVE  RingFrom([e EXCEPT ![Wrap(r + n)] = m], r, n + 1) = Append(RingFrom(e, r, n), m)
<1> DEFINE f == [e EXCEPT ![Wrap(r + n)] = m]
           old == RingFrom(e, r, n)
           new == RingFrom(f, r, n + 1)
<1>1. n + 1 \in 0 .. Size /\ n \in Nat
  BY QueueAssumption
<1>2. f \in [Slots -> Nat] /\ Wrap(r + n) \in Slots
  BY QueueAssumption DEF Wrap, Slots
<1>3. /\ old \in Seq(Nat) /\ Len(old) = n
      /\ \A i \in 1 .. n : old[i] = e[Wrap(r + i - 1)]
  BY RingFromSeq
<1>4. /\ new \in Seq(Nat) /\ Len(new) = n + 1
      /\ \A i \in 1 .. n + 1 : new[i] = f[Wrap(r + i - 1)]
  <2> HIDE DEF f
  <2>1. QED
    BY <1>1, <1>2, RingFromSeq
<1>5. /\ Append(old, m) \in Seq(Nat) /\ Len(Append(old, m)) = n + 1
      /\ \A i \in 1 .. n : Append(old, m)[i] = old[i]
      /\ Append(old, m)[n + 1] = m
  <2> HIDE DEF old
  <2>1. QED
    BY <1>3, AppendProperties
<1>6. ASSUME NEW i \in 1 .. n
      PROVE  new[i] = Append(old, m)[i]
  <2>1. Wrap(r + i - 1) # Wrap(r + n) /\ Wrap(r + i - 1) \in Slots
    BY QueueAssumption DEF Wrap, Slots
  <2>2. f[Wrap(r + i - 1)] = e[Wrap(r + i - 1)]
    BY <2>1
  <2>3. new[i] = f[Wrap(r + i - 1)]
    <3> HIDE DEF new, f
    <3>1. QED
      BY <1>1, <1>4
  <2>4. QED
    BY <1>3, <1>5, <2>2, <2>3
<1>7. new[n + 1] = m
  <2>1. new[n + 1] = f[Wrap(r + (n + 1) - 1)]
    <3> HIDE DEF new, f
    <3>1. QED
      BY <1>1, <1>4
  <2>2. r + (n + 1) - 1 = r + n
    BY <1>1 DEF Slots
  <2>3. QED
    BY <1>2, <2>1, <2>2
<1>8. \A i \in 1 .. n + 1 : new[i] = Append(old, m)[i]
  <2> HIDE DEF new, old, f
  <2>1. QED
    BY <1>1, <1>5, <1>6, <1>7
<1>9. QED
  <2> HIDE DEF new, old
  <2>1. new = Append(old, m)
    BY <1>4, <1>5, <1>8, SeqEqual
  <2>2. QED
    BY <2>1 DEF new, old

\* Reading from the next slot on is the tail.
LEMMA RingFromTail ==
  ASSUME NEW e \in [Slots -> Nat], NEW r \in Slots, NEW n \in 0 .. Size, n > 0
  PROVE  /\ RingFrom(e, r, n) # << >>
         /\ Head(RingFrom(e, r, n)) = e[r]
         /\ RingFrom(e, Wrap(r + 1), n - 1) = Tail(RingFrom(e, r, n))
<1> DEFINE old == RingFrom(e, r, n)
           new == RingFrom(e, Wrap(r + 1), n - 1)
<1>1. n - 1 \in 0 .. Size /\ n \in Nat /\ n - 1 \in Nat /\ Wrap(r + 1) \in Slots
  BY QueueAssumption DEF Wrap, Slots
<1>2. /\ old \in Seq(Nat) /\ Len(old) = n
      /\ \A i \in 1 .. n : old[i] = e[Wrap(r + i - 1)]
  BY RingFromSeq
<1>3. /\ new \in Seq(Nat) /\ Len(new) = n - 1
      /\ \A i \in 1 .. n - 1 : new[i] = e[Wrap(Wrap(r + 1) + i - 1)]
  BY <1>1, RingFromSeq
<1>4. old # << >>
  <2> HIDE DEF old
  <2>1. QED
    BY <1>2
<1>5. /\ Tail(old) \in Seq(Nat) /\ Len(Tail(old)) = n - 1
      /\ \A i \in 1 .. n - 1 : Tail(old)[i] = old[i + 1]
      /\ Head(old) = old[1]
  <2> HIDE DEF old
  <2>1. QED
    BY <1>2, <1>4, HeadTailProperties
<1>6. old[1] = e[r]
  <2>1. Wrap(r + 1 - 1) = r /\ 1 \in 1 .. n
    BY <1>1, QueueAssumption DEF Wrap, Slots
  <2>2. QED
    BY <1>2, <2>1
<1>7. ASSUME NEW i \in 1 .. n - 1
      PROVE  new[i] = Tail(old)[i]
  <2>1. Wrap(Wrap(r + 1) + i - 1) = Wrap(r + (i + 1) - 1) /\ i + 1 \in 1 .. n
    BY <1>1, QueueAssumption DEF Wrap, Slots
  <2>2. QED
    BY <1>2, <1>3, <1>5, <2>1
<1>8. new = Tail(old)
  <2> HIDE DEF new, old
  <2>1. QED
    BY <1>1, <1>3, <1>5, <1>7, SeqEqual
<1>9. QED
  BY <1>4, <1>5, <1>6, <1>8

\* A push appends to the contents.
LEMMA PushAppends ==
  ASSUME RingInv, NEW c \in Contexts, NEW m \in Nat, Pushed(c, m)
  PROVE  Len(Contents) < Size /\ Contents' = Append(Contents, m)
<1>1. used \in 0 .. Size /\ used < Size /\ rptr \in Slots /\ entry \in [Slots -> Nat]
  BY QueueAssumption DEF Pushed, RingInv, TypeOK, RingConsistent
<1>2. /\ used' = used + 1 /\ rptr' = rptr
      /\ entry' = [entry EXCEPT ![Wrap(rptr + used)] = m]
  BY DEF Pushed, RingInv, RingConsistent
<1>3. Contents' = RingFrom(entry', rptr', used')
  BY DEF Contents, RingFrom, Wrap
<1>4. Len(Contents) = used
  BY <1>1, RingFromSeq DEF Contents
<1>5. QED
  BY <1>1, <1>2, <1>3, <1>4, RingFromAppend DEF Contents

\* A pop returns the head of the contents and keeps the rest.
LEMMA PopTakesHead ==
  ASSUME RingInv, NEW c \in Contexts, Popped(c)
  PROVE  Contents # << >> /\ out' = Head(Contents) /\ Contents' = Tail(Contents)
<1>1. used \in 0 .. Size /\ used > 0 /\ rptr \in Slots /\ entry \in [Slots -> Nat]
  BY QueueAssumption DEF Popped, RingInv, TypeOK
<1>2. used' = used - 1 /\ rptr' = Wrap(rptr + 1) /\ entry' = entry /\ out' = entry[rptr]
  BY <1>1, QueueAssumption DEF Popped, Advance, Wrap, Slots
<1>3. Contents' = RingFrom(entry', rptr', used')
  BY DEF Contents, RingFrom, Wrap
<1>4. QED
  BY <1>1, <1>2, <1>3, RingFromTail DEF Contents

\* A step that leaves the ring alone leaves the contents alone.
LEMMA RingUnchanged ==
  ASSUME UNCHANGED <<ring, out>>
  PROVE  UNCHANGED Abstract!vars
  BY DEF ring, Contents, RingFrom, Wrap, Abstract!vars

\* Every step of the ring is a step of the abstract buffer, or none.
LEMMA StepImplements ==
  ASSUME RingInv, [Next]_vars
  PROVE  [Abstract!Push \/ Abstract!Pop]_(Abstract!vars)
<1>main. "main" \in Contexts /\ Irqs \subseteq Contexts
  BY DEF Contexts
<1>push. ASSUME NEW c \in Contexts, NEW m \in 1 .. MaxMessages, pr_queue_push(c, m)
         PROVE  Abstract!Push \/ UNCHANGED Abstract!vars
  <2>1. CASE Pushed(c, m)
    <3>1. m \in Nat /\ out' = out
      BY <2>1, QueueAssumption DEF Pushed
    <3>2. QED
      BY <2>1, <3>1, PushAppends DEF Abstract!Push
  <2>2. CASE PushRefused(c)
    BY <2>2, RingUnchanged DEF PushRefused
  <2>3. QED
    BY <1>push, <2>1, <2>2 DEF pr_queue_push
<1>1. ASSUME NEW t \in QueueTasks, RunTask(t)
      PROVE  UNCHANGED Abstract!vars
  BY <1>1, RingUnchanged DEF RunTask
<1>2. CASE ConsumerPops
  <2>1. CASE Popped("main")
    BY <1>main, <2>1, PopTakesHead DEF Abstract!Pop
  <2>2. CASE PopRefused("main")
    BY <2>2, RingUnchanged DEF PopRefused
  <2>3. QED
    BY <1>2, <2>1, <2>2 DEF ConsumerPops, pr_queue_pop
<1>3. CASE ProducerPushes
  <2>1. sent + 1 \in 1 .. MaxMessages
    BY <1>3, QueueAssumption DEF ProducerPushes, RingInv, TypeOK
  <2>2. QED
    BY <1>3, <1>main, <1>push, <2>1 DEF ProducerPushes
<1>4. CASE HandlerReturns
  BY <1>4, RingUnchanged DEF HandlerReturns
<1>5. ASSUME NEW c \in Contexts, Notify(c)
      PROVE  UNCHANGED Abstract!vars
  BY <1>5, RingUnchanged DEF Notify
<1>6. ASSUME NEW c \in Irqs, IrqPushes(c)
      PROVE  Abstract!Push \/ UNCHANGED Abstract!vars
  <2>1. sent + 1 \in 1 .. MaxMessages
    BY <1>6, QueueAssumption DEF IrqPushes, RingInv, TypeOK
  <2>2. QED
    BY <1>6, <1>main, <1>push, <2>1 DEF IrqPushes
<1>7. CASE UNCHANGED vars
  BY <1>7, RingUnchanged DEF vars
<1>8. QED
  BY <1>main, <1>1, <1>2, <1>3, <1>4, <1>5, <1>6, <1>7 DEF Next, MainStep

\* The empty ring is an empty buffer.
LEMMA InitImplements == Init => Abstract!Init
<1> SUFFICES ASSUME Init
             PROVE  Contents = << >>
  BY DEF Abstract!Init
<1>1. RingInv /\ used = 0
  BY RingInvInit DEF Init
<1>2. used \in 0 .. Size /\ rptr \in Slots /\ entry \in [Slots -> Nat]
  BY <1>1 DEF RingInv, TypeOK
<1>3. Contents \in Seq(Nat) /\ Len(Contents) = 0
  BY <1>1, <1>2, RingFromSeq DEF Contents
<1>4. QED
  BY <1>3, EmptySeq

\* The ring is a bounded first-in first-out buffer, whatever its size and
\* whoever pushes: pointers are popped in the order of the pushes, each once.
THEOREM QueueImplementsSpec == Spec => ImplementsSpec
<1>1. RingInv /\ [Next]_vars => [Abstract!Push \/ Abstract!Pop]_(Abstract!vars)
  BY StepImplements
<1>2. QED
  BY <1>1, RingInvInit, RingInvInductive, InitImplements, PTL
     DEF Spec, ImplementsSpec, Abstract!Spec

----------------------------------------------------------------------------
(* No wake-up is lost.                                                     *)

Wakes == NoStrandedEntry /\ NoStrandedProducer

\* A pending notification reaches the scheduler or stays pending.
LEMMA NotifySchedules ==
  ASSUME RingInv, NEW c \in Contexts, Notify(c), NEW t \in QueueTasks, Scheduled(t)
  PROVE  Scheduled(t)'
<1>1. CASE t \in tasks
  BY <1>1 DEF Notify, Scheduled
<1>2. CASE t \notin tasks
  <2>1. PICK d \in Contexts : notify[d] = t
    BY <1>2 DEF Scheduled
  <2>2. CASE d = c
    BY <2>1, <2>2 DEF Notify, Scheduled
  <2>3. CASE d # c
    BY <2>1, <2>3 DEF Notify, Scheduled, RingInv, TypeOK
  <2>4. QED
    BY <2>2, <2>3
<1>3. QED
  BY <1>1, <1>2

\* A successful call leaves its notification for the other side, and takes away
\* nobody else's.
LEMMA CallSchedules ==
  ASSUME RingInv, NEW c \in Contexts, notify[c] = None, UNCHANGED tasks,
         NEW t \in QueueTasks,
         \/ notify' = notify /\ Scheduled(t)
         \/ \E u \in QueueTasks : notify' = [notify EXCEPT ![c] = u] /\ (t = u \/ Scheduled(t))
  PROVE  Scheduled(t)'
  BY DEF Scheduled, RingInv, TypeOK, None, QueueTasks

\* Every step keeps the promise to the consumer and to the producer.
LEMMA WakesInductive ==
  ASSUME DrainsAll, RingInv, Wakes, [Next]_vars
  PROVE  Wakes'
<1>main. "main" \in Contexts /\ Irqs \subseteq Contexts /\ "main" \notin Irqs
  BY QueueAssumption DEF Contexts
<1>tasks. /\ "consumer" \in QueueTasks /\ "producer" \in QueueTasks
          /\ "consumer" # "producer" /\ None \notin QueueTasks
  BY DEF QueueTasks, None
<1>nat. free \in Nat /\ used \in Nat /\ backlog \in Nat /\ used + free = Size
  BY QueueAssumption DEF RingInv, TypeOK, RingConsistent
<1>1. ASSUME NEW t \in QueueTasks, RunTask(t)
      PROVE  Wakes'
  <2>1. \A u \in QueueTasks : Scheduled(u) => Scheduled(u)' \/ InHandler(u)'
    BY <1>1, <1>main DEF RunTask, Scheduled, InHandler, RingInv, TypeOK
  <2>2. \A u \in QueueTasks : ~InHandler(u)
    BY <1>1, <1>tasks DEF RunTask, InHandler
  <2>3. QED
    BY <1>1, <2>1, <2>2, <1>tasks DEF RunTask, ring, Wakes, NoStrandedEntry, NoStrandedProducer
<1>2. CASE ConsumerPops
  <2>1. CASE Popped("main")
    <3>1. Scheduled("producer")'
      BY <1>2, <2>1, <1>main, <1>tasks, CallSchedules DEF ConsumerPops, Popped
    <3>2. running' = "consumer" /\ ret'["main"] = PR_OK
      BY <1>2, <2>1, <1>main DEF ConsumerPops, Popped, RingInv, TypeOK
    <3>3. QED
      BY <3>1, <3>2 DEF InHandler, Wakes, NoStrandedEntry, NoStrandedProducer
  <2>2. CASE PopRefused("main")
    <3>1. \A u \in QueueTasks : Scheduled(u) => Scheduled(u)'
      BY <1>2, <2>2, <1>main, CallSchedules DEF ConsumerPops, PopRefused
    <3>2. ~InHandler("producer")
      BY <1>2, <1>tasks DEF ConsumerPops, InHandler
    <3>3. QED
      BY <1>2, <2>2, <3>1, <3>2, <1>tasks, <1>nat
         DEF ConsumerPops, PopRefused, ring, Wakes, NoStrandedEntry, NoStrandedProducer
  <2>3. QED
    BY <1>2, <2>1, <2>2 DEF ConsumerPops, pr_queue_pop
<1>3. CASE ProducerPushes
  <2>1. ~InHandler("consumer")
    BY <1>3, <1>tasks DEF ProducerPushes, InHandler
  <2>2. CASE Pushed("main", sent + 1)
    <3>1. Scheduled("consumer")'
      BY <1>3, <2>2, <1>main, <1>tasks, CallSchedules DEF ProducerPushes, Pushed
    <3>2. running' = "producer" /\ ret'["main"] = PR_OK
      BY <1>3, <2>2, <1>main DEF ProducerPushes, Pushed, RingInv, TypeOK
    <3>3. QED
      BY <3>1, <3>2 DEF InHandler, Wakes, NoStrandedEntry, NoStrandedProducer
  <2>3. CASE PushRefused("main")
    <3>1. \A u \in QueueTasks : Scheduled(u) => Scheduled(u)'
      BY <1>3, <2>3, <1>main, CallSchedules DEF ProducerPushes, PushRefused
    <3>2. QED
      BY <1>3, <2>1, <2>3, <3>1, <1>tasks, <1>nat
         DEF ProducerPushes, PushRefused, ring, Wakes, NoStrandedEntry, NoStrandedProducer
  <2>4. QED
    BY <1>3, <2>2, <2>3 DEF ProducerPushes, pr_queue_push
<1>4. CASE HandlerReturns
  <2>1. \A u \in QueueTasks : Scheduled(u) => Scheduled(u)'
    BY <1>4 DEF HandlerReturns, Scheduled
  <2>2. ~InHandler("consumer") /\ (InHandler("producer") => backlog = 0)
    BY <1>4, <1>tasks DEF HandlerReturns, Done, InHandler
  <2>3. QED
    BY <1>4, <2>1, <2>2, <1>tasks, <1>nat
       DEF HandlerReturns, ring, Wakes, NoStrandedEntry, NoStrandedProducer
<1>5. ASSUME NEW c \in Contexts, Notify(c)
      PROVE  Wakes'
  <2>1. \A u \in QueueTasks : Scheduled(u) => Scheduled(u)'
    BY <1>5, NotifySchedules
  <2>2. \A u \in QueueTasks : InHandler(u) => InHandler(u)'
    BY <1>5 DEF Notify, InHandler
  <2>3. QED
    BY <1>5, <2>1, <2>2, <1>tasks DEF Notify, ring, Wakes, NoStrandedEntry, NoStrandedProducer
<1>6. ASSUME NEW c \in Irqs, IrqPushes(c)
      PROVE  Wakes'
  <2>1. c \in Contexts /\ c # "main" /\ notify[c] = None
    BY <1>6, <1>main DEF IrqPushes
  <2>2. CASE Pushed(c, sent + 1)
    <3>1. Scheduled("consumer")'
      BY <1>6, <2>1, <2>2, <1>tasks, CallSchedules DEF IrqPushes, Pushed
    <3>2. Scheduled("producer") => Scheduled("producer")'
      BY <1>6, <2>1, <2>2, <1>tasks, CallSchedules DEF IrqPushes, Pushed
    <3>3. InHandler("producer") => InHandler("producer")'
      BY <1>6, <2>1, <2>2, <1>main DEF IrqPushes, Pushed, InHandler, RingInv, TypeOK
    <3>4. backlog' = backlog /\ free > 0
      BY <1>6, <2>2, <1>nat DEF IrqPushes, Pushed
    <3>5. QED
      BY <3>1, <3>2, <3>3, <3>4 DEF Wakes, NoStrandedEntry, NoStrandedProducer
  <2>3. CASE PushRefused(c)
    <3>1. \A u \in QueueTasks : Scheduled(u) => Scheduled(u)'
      BY <1>6, <2>1, <2>3, CallSchedules DEF IrqPushes, PushRefused
    <3>2. \A u \in QueueTasks : InHandler(u) => InHandler(u)'
      BY <1>6, <2>1, <2>3, <1>main DEF IrqPushes, PushRefused, InHandler, RingInv, TypeOK
    <3>3. QED
      BY <1>6, <2>3, <3>1, <3>2, <1>tasks
         DEF IrqPushes, PushRefused, ring, Wakes, NoStrandedEntry, NoStrandedProducer
  <2>4. QED
    BY <1>6, <2>2, <2>3 DEF IrqPushes, pr_queue_push
<1>7. CASE UNCHANGED vars
  BY <1>7 DEF vars, ring, Scheduled, InHandler, Wakes, NoStrandedEntry, NoStrandedProducer
<1>8. QED
  BY <1>main, <1>1, <1>2, <1>3, <1>4, <1>5, <1>6, <1>7 DEF Next, MainStep

\* Whatever the size, the messages and the interrupts, a consumer that empties
\* the queue in each run never leaves an entry nobody will come back for.
THEOREM NoEntryStranded ==
  ASSUME DrainsAll
  PROVE  Spec => []NoStrandedEntry
<1>1. Init => Wakes
  BY DEF Init, Wakes, NoStrandedEntry, NoStrandedProducer, Scheduled
<1>2. RingInv /\ Wakes /\ [Next]_vars => Wakes'
  BY WakesInductive
<1>3. Wakes => NoStrandedEntry
  BY DEF Wakes
<1>4. QED
  BY <1>1, <1>2, <1>3, RingInvInit, RingInvInductive, PTL DEF Spec

\* Nor does the producer task sleep on its backlog while the queue has room.
THEOREM NoProducerStranded ==
  ASSUME DrainsAll
  PROVE  Spec => []NoStrandedProducer
<1>1. Init => Wakes
  BY DEF Init, Wakes, NoStrandedEntry, NoStrandedProducer, Scheduled
<1>2. RingInv /\ Wakes /\ [Next]_vars => Wakes'
  BY WakesInductive
<1>3. Wakes => NoStrandedProducer
  BY DEF Wakes
<1>4. QED
  BY <1>1, <1>2, <1>3, RingInvInit, RingInvInductive, PTL DEF Spec
=============================================================================
