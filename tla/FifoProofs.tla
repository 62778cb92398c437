----------------------------- MODULE FifoProofs -----------------------------
(* Theorems about Fifo: the accounting of space and that nobody sleeps on    *)
(* work, for any number of writers and readers and any size; and the order of *)
(* the bytes that one writer and one reader move.                             *)
EXTENDS Fifo, SequenceTheorems, TLAPS

\* The least of two and of three numbers.
LEMMA LeastOfThree ==
  ASSUME NEW a \in Nat, NEW b \in Nat, NEW c \in Nat
  PROVE  /\ Least({a, b, c}) \in {a, b, c}
         /\ Least({a, b, c}) <= a /\ Least({a, b, c}) <= b /\ Least({a, b, c}) <= c
<1>1. \E n \in {a, b, c} : \A m \in {a, b, c} : n <= m
  <2>1. CASE a <= b /\ a <= c
    BY <2>1
  <2>2. CASE b <= a /\ b <= c
    BY <2>2
  <2>3. CASE c <= a /\ c <= b
    BY <2>3
  <2>4. QED
    BY <2>1, <2>2, <2>3
<1>2. /\ Least({a, b, c}) \in {a, b, c}
      /\ \A m \in {a, b, c} : Least({a, b, c}) <= m
  BY <1>1 DEF Least
<1>3. QED
  BY <1>2

----------------------------------------------------------------------------
(* Space, for any number of contexts that interleave.                      *)

ContextTypes == [pc : Locations, size : Nat, done : Nat,
                 off : Slots, len : 0 .. Size, num : Int]

\* A region is one of the bytes its call has still to transfer.
Transferring(c) == ctx[c].pc \in {"copy", "done", "notify"}
CallsBounded ==
  \A c \in Contexts :
    /\ ctx[c].done <= ctx[c].size
    /\ Transferring(c) => ctx[c].len >= 1 /\ ctx[c].done + ctx[c].len <= ctx[c].size

\* The inductive invariant: the types, without the bounds which only the sum of
\* all regions gives, and what they need to know of the calls in progress.
SpaceInv ==
  /\ free \in Nat /\ used \in Nat
  /\ wptr \in Slots /\ rptr \in Slots
  /\ writing \in Int /\ reading \in Int
  /\ reserved \in Int /\ fetched \in Int /\ backlog \in Int
  /\ ctx \in [Contexts -> ContextTypes]
  /\ CallsBounded
  /\ SpaceConserved

\* Constants of the types the invariant names.
LEMMA Labels ==
  /\ "idle" \in Locations /\ "prepare" \in Locations /\ "copy" \in Locations
  /\ "done" \in Locations /\ "notify" \in Locations /\ "test" \in Locations
  /\ 0 \in Slots /\ 0 \in 0 .. Size /\ 0 \in Nat
  BY FifoAssumption DEF Locations, Slots

\* One context changes its locals, the others keep theirs.
LEMMA UpdateKeepsCalls ==
  ASSUME SpaceInv, NEW c \in Contexts, NEW l \in ContextTypes,
         l.done <= l.size,
         l.pc \in {"copy", "done", "notify"} => l.len >= 1 /\ l.done + l.len <= l.size,
         ctx' = [ctx EXCEPT ![c] = l]
  PROVE  ctx' \in [Contexts -> ContextTypes] /\ CallsBounded'
<1>1. ctx' \in [Contexts -> ContextTypes]
  BY DEF SpaceInv
<1>2. \A d \in Contexts : ctx'[d] = IF d = c THEN l ELSE ctx[d]
  BY DEF SpaceInv
<1>3. QED
  BY <1>1, <1>2 DEF SpaceInv, CallsBounded, Transferring

\* A context that starts a call, and one that is idle again, meet the invariant.
LEMMA CallKeepsCalls ==
  ASSUME SpaceInv, NEW c \in Contexts, NEW n \in Nat, Call(c, n)
  PROVE  ctx' \in [Contexts -> ContextTypes] /\ CallsBounded'
<1> DEFINE l == [Idle EXCEPT !.pc = "prepare", !.size = n]
<1>1. Idle \in ContextTypes /\ Idle.done = 0
  BY Labels DEF Idle, ContextTypes
<1>3. l \in ContextTypes /\ l.pc = "prepare" /\ l.done = 0 /\ l.size = n
  BY <1>1, Labels DEF ContextTypes
<1>2. ctx' = [ctx EXCEPT ![c] = l]
  BY DEF Call
<1>4. l.done <= l.size
  BY <1>3
<1> HIDE DEF l
<1>5. QED
  BY <1>2, <1>3, <1>4, UpdateKeepsCalls

\* A call that returns keeps the calls bounded.
LEMMA IdleKeepsCalls ==
  ASSUME SpaceInv, NEW c \in Contexts, ctx' = [ctx EXCEPT ![c] = Idle]
  PROVE  ctx' \in [Contexts -> ContextTypes] /\ CallsBounded'
<1>1. Idle \in ContextTypes /\ Idle.pc = "idle" /\ Idle.done <= Idle.size
  BY FifoAssumption DEF Idle, ContextTypes, Locations, Slots
<1>2. QED
  BY <1>1, UpdateKeepsCalls

\* So does a step within a call.
LEMMA GotoKeepsCalls ==
  ASSUME SpaceInv, NEW c \in Contexts, NEW l \in Locations, Goto(c, l),
         l \in {"copy", "done", "notify"} => Transferring(c)
  PROVE  ctx' \in [Contexts -> ContextTypes] /\ CallsBounded'
  BY DEF SpaceInv, Goto, CallsBounded, Transferring, ContextTypes

\* A new FIFO satisfies the invariant.
LEMMA SpaceInvInit == Init => SpaceInv
  BY FifoAssumption DEF Init, SpaceInv, Idle, CallsBounded, Transferring, ContextTypes,
     Locations, Slots, SpaceConserved

\* Every step preserves the invariant, one case per action.
LEMMA SpaceInvInductive ==
  ASSUME ~PartialDone, ~ClearRaces
  PROVE  SpaceInv /\ [Next]_vars => SpaceInv'
<1> SUFFICES ASSUME SpaceInv, [Next]_vars
             PROVE  SpaceInv'
  OBVIOUS
<1>c. Writers \subseteq Contexts /\ Readers \subseteq Contexts /\ Producer \in Contexts /\ Irqs \subseteq Contexts
  BY DEF Contexts, Writers
<1>1. CASE ProducerRuns
  <2>1. ctx' \in [Contexts -> ContextTypes] /\ CallsBounded'
    <3>1. CASE backlog > 0
      <4>1. backlog \in Nat /\ Call(Producer, backlog)
        BY <1>1, <3>1 DEF ProducerRuns, SpaceInv
      <4>2. QED
        BY <1>c, <4>1, CallKeepsCalls
    <3>2. CASE ~(backlog > 0)
      BY <1>1, <3>2 DEF ProducerRuns, SpaceInv, CallsBounded, Transferring
    <3>3. QED
      BY <3>1, <3>2
  <2>2. QED
    BY <1>1, <2>1 DEF ProducerRuns, ring, ghosts, SpaceInv, SpaceConserved
<1>2. CASE pr_fifo_clear
  BY <1>2, FifoAssumption DEF pr_fifo_clear, SpaceInv, SpaceConserved, CallsBounded, Transferring, Slots
<1>3. ASSUME NEW c \in Irqs, IrqWrites(c)
      PROVE  SpaceInv'
  <2>1. PICK n \in IrqSizes : Call(c, n)
    BY <1>3 DEF IrqWrites
  <2>2. ctx' \in [Contexts -> ContextTypes] /\ CallsBounded'
    BY <1>c, <2>1, CallKeepsCalls, FifoAssumption
  <2>3. QED
    BY <1>3, <2>2 DEF IrqWrites, ring, ghosts, SpaceInv, SpaceConserved
<1>4. ASSUME NEW c \in Writers, WritePrepare(c)
      PROVE  SpaceInv'
  <2> DEFINE granted == Least({Left(c), free, Size - wptr})
  <2>0. c \in Contexts
    BY <1>c
  <2>1. Left(c) \in Nat /\ free \in Nat /\ Size - wptr \in Nat
    BY <2>0, FifoAssumption DEF Left, SpaceInv, CallsBounded, ContextTypes, Slots
  <2>2. /\ granted \in Nat
        /\ granted <= Left(c) /\ granted <= free /\ granted <= Size - wptr
    BY <2>1, LeastOfThree
  <2>3. /\ free' = free - granted /\ used' = used
        /\ wptr' = (IF wptr + granted = Size THEN 0 ELSE wptr + granted) /\ rptr' = rptr
        /\ writing' = writing + granted /\ reading' = reading
        /\ reserved' = reserved + granted /\ fetched' = fetched /\ backlog' = backlog
        /\ ctx' = [ctx EXCEPT ![c] = IF granted = 0 THEN Idle
              ELSE [@ EXCEPT !.pc = "copy", !.off = wptr, !.len = granted, !.num = reserved]]
    BY <1>4 DEF WritePrepare
  <2> HIDE DEF granted
  <2>4. /\ free' \in Nat /\ used' \in Nat /\ wptr' \in Slots /\ rptr' \in Slots
        /\ writing' \in Int /\ reading' \in Int /\ reserved' \in Int /\ fetched' \in Int
        /\ backlog' \in Int /\ SpaceConserved'
    BY <2>2, <2>3, FifoAssumption DEF SpaceInv, SpaceConserved, Slots
  <2>5. ctx' \in [Contexts -> ContextTypes] /\ CallsBounded'
    <3>1. CASE granted = 0
      BY <2>0, <2>3, <3>1, IdleKeepsCalls
    <3>2. CASE granted # 0
      <4>1. granted \in 1 .. Size /\ ctx[c].done + granted <= ctx[c].size
        BY <2>0, <2>2, <3>2, FifoAssumption DEF SpaceInv, Left, ContextTypes, Slots
      <4> DEFINE l == [ctx[c] EXCEPT !.pc = "copy", !.off = wptr, !.len = granted, !.num = reserved]
      <4>2. ctx' = [ctx EXCEPT ![c] = l]
        BY <2>3, <3>2
      <4>3. ctx[c] \in ContextTypes /\ wptr \in Slots /\ reserved \in Int
        BY <2>0 DEF SpaceInv
      <4>4. /\ l.len = granted
            /\ l.done = ctx[c].done /\ l.size = ctx[c].size
        BY <4>3 DEF ContextTypes
      <4>7. granted \in 0 .. Size /\ granted \in Nat
        BY <2>2, <4>1, FifoAssumption
      <4>8. l \in ContextTypes
        BY <4>3, <4>7, Labels DEF ContextTypes
      <4>5. l.done <= l.size /\ l.len >= 1 /\ l.done + l.len <= l.size
        BY <2>0, <4>1, <4>4 DEF SpaceInv, CallsBounded
      <4> HIDE DEF l
      <4>6. QED
        BY <2>0, <4>2, <4>5, <4>8, UpdateKeepsCalls
    <3>3. QED
      BY <3>1, <3>2
  <2>6. QED
    BY <2>4, <2>5 DEF SpaceInv
<1>5. ASSUME NEW c \in Writers, CopyIn(c)
      PROVE  SpaceInv'
  <2>1. ctx' \in [Contexts -> ContextTypes] /\ CallsBounded'
    BY <1>c, <1>5, GotoKeepsCalls DEF CopyIn, At, Transferring, Locations
  <2>2. QED
    BY <1>5, <2>1 DEF CopyIn, ghosts, SpaceInv, SpaceConserved
<1>6. ASSUME NEW c \in Writers, WriteDone(c)
      PROVE  SpaceInv'
  <2>1. ctx' \in [Contexts -> ContextTypes] /\ CallsBounded'
    BY <1>c, <1>6, GotoKeepsCalls DEF WriteDone, At, Transferring, Locations
  <2>2. used' = used + ctx[c].len /\ ctx[c].len \in Nat
    BY <1>c, <1>6, FifoAssumption DEF WriteDone, DoneSizes, SpaceInv, ContextTypes
  <2>3. QED
    BY <1>6, <2>1, <2>2 DEF WriteDone, SpaceInv, SpaceConserved
<1>7. ASSUME NEW c \in Writers, NotifyConsumer(c)
      PROVE  SpaceInv'
  <2>0. c \in Contexts
    BY <1>c
  <2>1. ctx' \in [Contexts -> ContextTypes] /\ CallsBounded'
    <3>1. CASE ctx' = [ctx EXCEPT ![c] = Idle]
      BY <2>0, <3>1, IdleKeepsCalls
    <3>2. CASE ctx' = [ctx EXCEPT ![c].pc = "prepare", ![c].done = @ + ctx[c].len]
      <4>1. ctx[c].done + ctx[c].len <= ctx[c].size
        BY <2>0, <1>7 DEF NotifyConsumer, At, SpaceInv, CallsBounded, Transferring
      <4> DEFINE l == [ctx[c] EXCEPT !.pc = "prepare", !.done = ctx[c].done + ctx[c].len]
      <4>2. ctx[c] \in ContextTypes
        BY <2>0 DEF SpaceInv
      <4>3. ctx' = [ctx EXCEPT ![c] = l]
        BY <2>0, <3>2, <4>2 DEF SpaceInv, ContextTypes
      <4>6. ctx[c].done + ctx[c].len \in Nat
        BY <4>2, FifoAssumption DEF ContextTypes
      <4>4. /\ l.pc = "prepare"
            /\ l.done = ctx[c].done + ctx[c].len /\ l.size = ctx[c].size
        BY <4>2 DEF ContextTypes
      <4>7. l \in ContextTypes
        BY <4>2, <4>6, Labels DEF ContextTypes
      <4> HIDE DEF l
      <4>5. QED
        BY <2>0, <4>1, <4>3, <4>4, <4>7, UpdateKeepsCalls
    <3>3. QED
      BY <1>7, <3>1, <3>2 DEF NotifyConsumer
  <2>2. QED
    BY <1>7, <2>1 DEF NotifyConsumer, ring, ghosts, SpaceInv, SpaceConserved
<1>8. ASSUME NEW c \in Readers, ConsumerRuns(c)
      PROVE  SpaceInv'
  <2>1. PICK n \in ReadSizes : Call(c, n)
    BY <1>8 DEF ConsumerRuns
  <2>2. ctx' \in [Contexts -> ContextTypes] /\ CallsBounded'
    BY <1>c, <2>1, CallKeepsCalls, FifoAssumption
  <2>3. QED
    BY <1>8, <2>2 DEF ConsumerRuns, ring, ghosts, SpaceInv, SpaceConserved
<1>9. ASSUME NEW c \in Readers, ReadPrepare(c)
      PROVE  SpaceInv'
  <2> DEFINE granted == Least({Left(c), used, Size - rptr})
  <2>0. c \in Contexts
    BY <1>c
  <2>1. Left(c) \in Nat /\ used \in Nat /\ Size - rptr \in Nat
    BY <2>0, FifoAssumption DEF Left, SpaceInv, CallsBounded, ContextTypes, Slots
  <2>2. /\ granted \in Nat
        /\ granted <= Left(c) /\ granted <= used /\ granted <= Size - rptr
    BY <2>1, LeastOfThree
  <2>3. /\ used' = used - granted /\ free' = free
        /\ rptr' = (IF rptr + granted = Size THEN 0 ELSE rptr + granted) /\ wptr' = wptr
        /\ reading' = reading + granted /\ writing' = writing
        /\ fetched' = fetched + granted /\ reserved' = reserved /\ backlog' = backlog
        /\ ctx' = [ctx EXCEPT ![c] =
             [@ EXCEPT !.pc = IF granted = 0 THEN "test" ELSE "copy",
                       !.off = rptr, !.len = granted, !.num = fetched]]
    BY <1>9 DEF ReadPrepare
  <2> HIDE DEF granted
  <2>4. /\ free' \in Nat /\ used' \in Nat /\ wptr' \in Slots /\ rptr' \in Slots
        /\ writing' \in Int /\ reading' \in Int /\ reserved' \in Int /\ fetched' \in Int
        /\ backlog' \in Int /\ SpaceConserved'
    BY <2>2, <2>3, FifoAssumption DEF SpaceInv, SpaceConserved, Slots
  <2>5. ctx' \in [Contexts -> ContextTypes] /\ CallsBounded'
    <3>1. granted \in 0 .. Size /\ ctx[c].done + granted <= ctx[c].size
      BY <2>0, <2>2, FifoAssumption DEF SpaceInv, Left, ContextTypes, Slots
    <3> DEFINE l == [ctx[c] EXCEPT !.pc = IF granted = 0 THEN "test" ELSE "copy",
                                   !.off = rptr, !.len = granted, !.num = fetched]
    <3>2. ctx' = [ctx EXCEPT ![c] = l]
      BY <2>3
    <3>3. ctx[c] \in ContextTypes /\ rptr \in Slots /\ fetched \in Int
      BY <2>0 DEF SpaceInv
    <3>4. /\ l \in ContextTypes /\ l.len = granted
          /\ l.pc = IF granted = 0 THEN "test" ELSE "copy"
          /\ l.done = ctx[c].done /\ l.size = ctx[c].size
      BY <3>1, <3>3, Labels DEF ContextTypes
    <3>5. l.done <= l.size /\ l.done + l.len <= l.size
      BY <2>0, <3>1, <3>4 DEF SpaceInv, CallsBounded
    <3>6. granted # 0 => l.len >= 1
      BY <3>1, <3>4
    <3>7. granted = 0 => l.pc = "test"
      BY <3>4
    <3> HIDE DEF l
    <3>8. QED
      BY <2>0, <3>2, <3>4, <3>5, <3>6, <3>7, UpdateKeepsCalls
  <2>6. QED
    BY <2>4, <2>5 DEF SpaceInv
<1>10. ASSUME NEW c \in Readers, CopyOut(c)
       PROVE  SpaceInv'
  <2>1. ctx' \in [Contexts -> ContextTypes] /\ CallsBounded'
    BY <1>c, <1>10, GotoKeepsCalls DEF CopyOut, At, Transferring, Locations
  <2>2. QED
    BY <1>10, <2>1 DEF CopyOut, ring, ghosts, SpaceInv, SpaceConserved
<1>11. ASSUME NEW c \in Readers, ReadDone(c)
       PROVE  SpaceInv'
  <2>1. ctx' \in [Contexts -> ContextTypes] /\ CallsBounded'
    BY <1>c, <1>11, GotoKeepsCalls DEF ReadDone, At, Transferring, Locations
  <2>2. free' = free + ctx[c].len /\ ctx[c].len \in Nat
    BY <1>c, <1>11, FifoAssumption DEF ReadDone, DoneSizes, SpaceInv, ContextTypes
  <2>3. QED
    BY <1>11, <2>1, <2>2 DEF ReadDone, SpaceInv, SpaceConserved
<1>12. ASSUME NEW c \in Readers, NotifyProducer(c)
       PROVE  SpaceInv'
  <2>0. c \in Contexts
    BY <1>c
  <2>1. ctx' \in [Contexts -> ContextTypes] /\ CallsBounded'
    <3>1. ctx[c].done + ctx[c].len <= ctx[c].size
      BY <2>0, <1>12 DEF NotifyProducer, At, SpaceInv, CallsBounded, Transferring
    <3> DEFINE l == [ctx[c] EXCEPT !.pc = "test", !.done = ctx[c].done + ctx[c].len]
    <3>2. ctx[c] \in ContextTypes
      BY <2>0 DEF SpaceInv
    <3>3. ctx' = [ctx EXCEPT ![c] = l]
      BY <1>12, <2>0, <3>2 DEF NotifyProducer, SpaceInv, ContextTypes
    <3>6. ctx[c].done + ctx[c].len \in Nat
      BY <3>2, FifoAssumption DEF ContextTypes
    <3>4. /\ l \in ContextTypes /\ l.pc = "test"
          /\ l.done = ctx[c].done + ctx[c].len /\ l.size = ctx[c].size
      BY <3>2, <3>6, Labels DEF ContextTypes
    <3> HIDE DEF l
    <3>5. QED
      BY <2>0, <3>1, <3>3, <3>4, UpdateKeepsCalls
  <2>2. QED
    BY <1>12, <2>1 DEF NotifyProducer, ring, ghosts, SpaceInv, SpaceConserved
<1>13. ASSUME NEW c \in Readers, ReadTest(c)
       PROVE  SpaceInv'
  <2>0. c \in Contexts
    BY <1>c
  <2>1. ctx' \in [Contexts -> ContextTypes] /\ CallsBounded'
    <3>1. CASE Goto(c, "prepare")
      BY <2>0, <3>1, GotoKeepsCalls DEF Locations
    <3>2. CASE Call(c, ctx[c].size)
      BY <2>0, <3>2, CallKeepsCalls DEF SpaceInv, ContextTypes
    <3>3. CASE ctx' = [ctx EXCEPT ![c] = Idle]
      BY <2>0, <3>3, IdleKeepsCalls
    <3>4. QED
      BY <1>13, <3>1, <3>2, <3>3 DEF ReadTest
  <2>2. QED
    BY <1>13, <2>1 DEF ReadTest, ring, ghosts, SpaceInv, SpaceConserved
<1>14. CASE UNCHANGED vars
  BY <1>14 DEF vars, ring, ghosts, SpaceInv, SpaceConserved, CallsBounded, Transferring
<1>15. \A c \in Writers : IrqWrites(c) => c \in Irqs
  BY DEF IrqWrites
<1>16. QED
  BY <1>1, <1>2, <1>3, <1>4, <1>5, <1>6, <1>7, <1>8, <1>9, <1>10, <1>11, <1>12, <1>13, <1>14, <1>15
  DEF Next, WriteStep, ReadStep

\* However many contexts interleave their transfers, on rings of any size, no
\* byte of space is lost or counted twice, as long as done is given what prepare
\* granted and the FIFO is cleared between transfers only.
THEOREM SpaceNeverLost ==
  ASSUME ~PartialDone, ~ClearRaces
  PROVE  Spec => []SpaceConserved
<1>1. SpaceInv => SpaceConserved
  BY DEF SpaceInv
<1>2. QED
  BY <1>1, SpaceInvInit, SpaceInvInductive, PTL DEF Spec
----------------------------------------------------------------------------
(* Wake-ups, for any number of contexts that interleave.                   *)

\* A reader that will look for bytes again: it is in a call, and not at the end of
\* one that got nothing.
Live(c) == ~At(c, "idle") /\ (At(c, "test") => ctx[c].done > 0)

\* The inductive invariant: NobodyStranded with live readers in the place of busy
\* ones, that calls read something, and that the producer writes all its backlog.
WakeInv ==
  /\ clears \in Nat
  /\ \A c \in Readers : ~At(c, "idle") => ctx[c].size > 0
  /\ ctx[Producer].pc \in {"prepare", "copy", "done"} => Left(Producer) = backlog
  /\ At(Producer, "notify") => Left(Producer) - ctx[Producer].len = backlog
  /\ used > 0 => Scheduled("consumer") \/ \E c \in Readers : Live(c)
  /\ NoStrandedProducer

\* Each step preserves the invariant, one case per action.
LEMMA WakeInvInductive ==
  ASSUME ~PartialDone, ReadsUntilEmpty, MaxClears = 0
  PROVE  SpaceInv /\ WakeInv /\ [Next]_vars => WakeInv'
<1> SUFFICES ASSUME SpaceInv, WakeInv, [Next]_vars
             PROVE  WakeInv'
  OBVIOUS
<1>c. /\ Writers \subseteq Contexts /\ Readers \subseteq Contexts /\ Producer \in Writers
      /\ Irqs \subseteq Writers /\ Producer \notin Irqs /\ Writers \cap Readers = {}
      /\ ~(clears < MaxClears)
  BY FifoAssumption DEF Contexts, Writers, WakeInv
<1>t. /\ ctx \in [Contexts -> ContextTypes]
      /\ free \in Nat /\ used \in Nat /\ backlog \in Int /\ rptr \in Slots /\ wptr \in Slots
      /\ \A c \in Contexts : ctx[c].size \in Nat /\ ctx[c].done \in Nat /\ ctx[c].len \in 0 .. Size
      /\ Size \in Nat \ {0} /\ ReadSizes \subseteq Nat \ {0}
  BY FifoAssumption DEF SpaceInv, ContextTypes
<1>1. CASE ProducerRuns
  <2>1. CASE backlog > 0
    <3>1. /\ ctx'[Producer].pc = "prepare" /\ ctx'[Producer].size = backlog
          /\ ctx'[Producer].done = 0
          /\ \A d \in Contexts \ {Producer} : ctx'[d] = ctx[d]
      BY <1>1, <1>c, <1>t, <2>1 DEF ProducerRuns, Call, Idle
    <3>2. /\ "consumer" \in tasks' <=> "consumer" \in tasks
          /\ UNCHANGED <<used, free, backlog, clears>>
      BY <1>1 DEF ProducerRuns, ring
    <3> QED
      BY <1>1, <1>c, <1>t, <3>1, <3>2
      DEF ProducerRuns, WakeInv, NoStrandedProducer, Scheduled, Live, At, Left
  <2>2. CASE ~(backlog > 0)
    BY <1>1, <1>c, <2>2
    DEF ProducerRuns, WakeInv, NoStrandedProducer, Scheduled, Live, At, Left, ring
  <2> QED
    BY <2>1, <2>2
<1>2. CASE pr_fifo_clear
  BY <1>2, <1>c DEF pr_fifo_clear
<1>3. ASSUME NEW c \in Irqs, IrqWrites(c)
      PROVE  WakeInv'
  <2>1. /\ ctx'[c].pc = "prepare" /\ \A d \in Contexts \ {c} : ctx'[d] = ctx[d]
        /\ At(c, "idle") /\ UNCHANGED <<used, free, backlog, tasks, clears>>
    BY <1>3, <1>c, <1>t DEF IrqWrites, Call, Idle, ring
  <2> QED
    BY <1>c, <1>t, <2>1 DEF WakeInv, NoStrandedProducer, Scheduled, Live, At, Left
<1>4. ASSUME NEW c \in Writers, WritePrepare(c)
      PROVE  WakeInv'
  <2> DEFINE granted == Least({Left(c), free, Size - wptr})
  <2>1. Left(c) \in Nat /\ Size - wptr \in Nat \ {0}
    BY <1>c, <1>t DEF SpaceInv, CallsBounded, Left, Slots
  <2>2. granted \in Nat /\ (granted = 0 => Left(c) = 0 \/ free = 0) /\ granted <= free
    BY <1>t, <2>1, LeastOfThree
  <2>3. /\ free' = free - granted /\ UNCHANGED <<used, backlog, tasks, clears>>
        /\ ctx' = [ctx EXCEPT ![c] = IF granted = 0 THEN Idle
              ELSE [@ EXCEPT !.pc = "copy", !.off = wptr, !.len = granted, !.num = reserved]]
        /\ At(c, "prepare")
    BY <1>4 DEF WritePrepare
  <2> HIDE DEF granted
  <2>4. /\ \A d \in Contexts \ {c} : ctx'[d] = ctx[d]
        /\ granted = 0 => ctx'[c].pc = "idle"
        /\ granted # 0 => /\ ctx'[c].pc = "copy"
                          /\ ctx'[c].size = ctx[c].size /\ ctx'[c].done = ctx[c].done
    BY <1>c, <1>t, <2>3 DEF Idle, ContextTypes
  <2> QED
    BY <1>c, <1>t, <2>2, <2>3, <2>4
    DEF WakeInv, NoStrandedProducer, Scheduled, Live, At, Left
<1>5. ASSUME NEW c \in Writers, CopyIn(c)
      PROVE  WakeInv'
  <2>1. /\ ctx'[c].pc = "done" /\ ctx'[c].size = ctx[c].size /\ ctx'[c].done = ctx[c].done
        /\ \A d \in Contexts \ {c} : ctx'[d] = ctx[d]
        /\ At(c, "copy") /\ UNCHANGED <<used, free, backlog, tasks, clears>>
    BY <1>5, <1>c, <1>t DEF CopyIn, Goto, ContextTypes
  <2> QED
    BY <1>c, <1>t, <2>1 DEF WakeInv, NoStrandedProducer, Scheduled, Live, At, Left
<1>6. ASSUME NEW c \in Writers, WriteDone(c)
      PROVE  WakeInv'
  <2>1. /\ ctx'[c].pc = "notify" /\ ctx'[c].size = ctx[c].size
        /\ ctx'[c].done = ctx[c].done /\ ctx'[c].len = ctx[c].len
        /\ \A d \in Contexts \ {c} : ctx'[d] = ctx[d]
        /\ At(c, "done") /\ UNCHANGED <<free, tasks, clears>>
        /\ backlog' = IF c = Producer THEN backlog - ctx[c].len ELSE backlog
    BY <1>6, <1>c, <1>t DEF WriteDone, Goto, ContextTypes
  <2> QED
    BY <1>c, <1>t, <2>1 DEF WakeInv, NoStrandedProducer, Scheduled, Live, At, Left
<1>7. ASSUME NEW c \in Writers, NotifyConsumer(c)
      PROVE  WakeInv'
  <2>1. /\ \/ /\ ctx'[c].pc = "prepare" /\ ctx'[c].size = ctx[c].size
              /\ ctx'[c].done = ctx[c].done + ctx[c].len
           \/ c # Producer /\ ctx'[c].pc = "idle"
        /\ \A d \in Contexts \ {c} : ctx'[d] = ctx[d]
        /\ At(c, "notify") /\ UNCHANGED <<used, free, backlog, clears>>
        /\ tasks' = tasks \cup {"consumer"}
    BY <1>7, <1>c, <1>t DEF NotifyConsumer, Idle, ContextTypes, ring
  <2> QED
    BY <1>c, <1>t, <2>1 DEF WakeInv, NoStrandedProducer, Scheduled, Live, At, Left
<1>8. ASSUME NEW c \in Readers, ConsumerRuns(c)
      PROVE  WakeInv'
  <2>1. /\ ctx'[c].pc = "prepare" /\ ctx'[c].size > 0
        /\ \A d \in Contexts \ {c} : ctx'[d] = ctx[d]
        /\ At(c, "idle") /\ UNCHANGED <<used, free, backlog, clears>>
        /\ tasks' = tasks \ {"consumer"}
    BY <1>8, <1>c, <1>t DEF ConsumerRuns, Call, Idle, ring
  <2> QED
    BY <1>c, <1>t, <2>1 DEF WakeInv, NoStrandedProducer, Scheduled, Live, At, Left
<1>9. ASSUME NEW c \in Readers, ReadPrepare(c)
      PROVE  WakeInv'
  <2> DEFINE granted == Least({Left(c), used, Size - rptr})
  <2>1. Left(c) \in Nat /\ Size - rptr \in Nat \ {0}
    BY <1>c, <1>t DEF SpaceInv, CallsBounded, Left, Slots
  <2>2. granted \in Nat /\ (granted = 0 => Left(c) = 0 \/ used = 0)
    BY <1>t, <2>1, LeastOfThree
  <2>3. /\ used' = used - granted /\ UNCHANGED <<free, backlog, tasks, clears>>
        /\ ctx' = [ctx EXCEPT ![c] =
              [@ EXCEPT !.pc = IF granted = 0 THEN "test" ELSE "copy",
                        !.off = rptr, !.len = granted, !.num = fetched]]
        /\ At(c, "prepare")
    BY <1>9 DEF ReadPrepare
  <2> HIDE DEF granted
  <2>4. /\ \A d \in Contexts \ {c} : ctx'[d] = ctx[d]
        /\ ctx'[c].pc = IF granted = 0 THEN "test" ELSE "copy"
        /\ ctx'[c].size = ctx[c].size /\ ctx'[c].done = ctx[c].done
    BY <1>c, <1>t, <2>3 DEF ContextTypes
  <2>5. Live(c)' \/ used' = 0
    BY <1>c, <1>t, <2>2, <2>3, <2>4 DEF Live, At, Left, WakeInv
  <2> QED
    BY <1>c, <1>t, <2>3, <2>4, <2>5
    DEF WakeInv, NoStrandedProducer, Scheduled, At, Left
<1>10. ASSUME NEW c \in Readers, CopyOut(c)
       PROVE  WakeInv'
  <2>1. /\ ctx'[c].pc = "done" /\ ctx'[c].size = ctx[c].size
        /\ \A d \in Contexts \ {c} : ctx'[d] = ctx[d]
        /\ At(c, "copy") /\ UNCHANGED <<used, free, backlog, tasks, clears>>
    BY <1>10, <1>c, <1>t DEF CopyOut, Goto, ContextTypes, ring
  <2> QED
    BY <1>c, <1>t, <2>1 DEF WakeInv, NoStrandedProducer, Scheduled, Live, At, Left
<1>11. ASSUME NEW c \in Readers, ReadDone(c)
       PROVE  WakeInv'
  <2>1. /\ ctx'[c].pc = "notify" /\ ctx'[c].size = ctx[c].size
        /\ \A d \in Contexts \ {c} : ctx'[d] = ctx[d]
        /\ At(c, "done") /\ UNCHANGED <<used, backlog, tasks, clears>>
    BY <1>11, <1>c, <1>t DEF ReadDone, Goto, ContextTypes
  <2> QED
    BY <1>c, <1>t, <2>1 DEF WakeInv, NoStrandedProducer, Scheduled, Live, At, Left
<1>12. ASSUME NEW c \in Readers, NotifyProducer(c)
       PROVE  WakeInv'
  <2>1. /\ ctx'[c].pc = "test" /\ ctx'[c].size = ctx[c].size
        /\ ctx'[c].done = ctx[c].done + ctx[c].len
        /\ \A d \in Contexts \ {c} : ctx'[d] = ctx[d]
        /\ At(c, "notify") /\ UNCHANGED <<used, free, backlog, clears>>
        /\ tasks' = tasks \cup {"producer"}
    BY <1>12, <1>c, <1>t DEF NotifyProducer, ContextTypes, ring
  <2>2. ctx[c].len >= 1
    BY <1>c, <2>1 DEF SpaceInv, CallsBounded, Transferring, At
  <2> QED
    BY <1>c, <1>t, <2>1, <2>2 DEF WakeInv, NoStrandedProducer, Scheduled, Live, At, Left
<1>13. ASSUME NEW c \in Readers, ReadTest(c)
       PROVE  WakeInv'
  <2>1. /\ \A d \in Contexts \ {c} : ctx'[d] = ctx[d]
        /\ \/ ctx'[c].pc = "prepare" /\ ctx'[c].size = ctx[c].size
           \/ ctx'[c].pc = "idle" /\ ~(ctx[c].done > 0)
        /\ At(c, "test") /\ UNCHANGED <<used, free, backlog, tasks, clears>>
    <3>1. CASE Goto(c, "prepare")
      BY <1>13, <1>c, <1>t, <3>1 DEF ReadTest, Goto, ContextTypes, ring
    <3>2. CASE ctx[c].done > 0 /\ Call(c, ctx[c].size)
      BY <1>13, <1>c, <1>t, <3>2 DEF ReadTest, Call, Idle, ring
    <3>3. CASE ~(ctx[c].done > 0) /\ ctx' = [ctx EXCEPT ![c] = Idle]
      BY <1>13, <1>c, <1>t, <3>3 DEF ReadTest, Idle, ring
    <3> QED
      BY <1>13, <3>1, <3>2, <3>3 DEF ReadTest
  <2> QED
    BY <1>c, <1>t, <2>1 DEF WakeInv, NoStrandedProducer, Scheduled, Live, At, Left
<1>14. CASE UNCHANGED vars
  BY <1>14 DEF vars, ring, WakeInv, NoStrandedProducer, Scheduled, Live, At, Left
<1>15. \A c \in Writers : IrqWrites(c) => c \in Irqs
  BY DEF IrqWrites
<1> QED
  BY <1>1, <1>2, <1>3, <1>4, <1>5, <1>6, <1>7, <1>8, <1>9, <1>10, <1>11, <1>12, <1>13, <1>14, <1>15
  DEF Next, WriteStep, ReadStep

\* Consumers that read until they get nothing leave no bytes behind, and the
\* producer task does not sleep while there is room: whatever the number of writers
\* and readers, the size and the order in which they lock, copy, unlock and notify,
\* and whatever the loop of pr_fifo_read makes of its test. As long as the FIFO is
\* never cleared, which makes room and tells nobody (fifo.c:31-41, 174-188).
THEOREM NobodyEverStranded ==
  ASSUME ~PartialDone, ~ClearRaces, ReadsUntilEmpty, MaxClears = 0
  PROVE  Spec => []NobodyStranded
<1>1. Init => WakeInv
  BY DEF Init, WakeInv, NoStrandedProducer, Scheduled, Live, At, Idle, Contexts, Writers
<1>2. WakeInv => NobodyStranded
  BY DEF WakeInv, NobodyStranded, NoStrandedData, Live
<1>3. QED
  BY <1>1, <1>2, SpaceInvInit, SpaceInvInductive, WakeInvInductive, PTL DEF Spec

----------------------------------------------------------------------------
(* One writer and one reader, on a ring of any size: regions are disjoint, *)
(* bytes stay in order, and the ring is the bounded stream of FifoSpec.    *)

\* Nobody but w writes: the producer task, or an interrupt beside a producer with
\* nothing to write.  Nobody but r reads.
OneWriter(w) == w \in Writers /\ Irqs \subseteq {w} /\ (w # Producer => Backlog = 0)
OneReader(r) == Readers = {r}

\* What a context has reserved and not given to the other side.
Held(c) == IF InFlight(c) THEN ctx[c].len ELSE 0

OthersIdle(w, r) ==
  /\ \A c \in Contexts \ {w, r} : At(c, "idle")
  /\ w # Producer => backlog = 0

\* The ring, from rptr on: the bytes used, then those being written, and wptr; the
\* bytes being read end at rptr.
Layout(w, r) ==
  /\ writing = Held(w) /\ reading = Held(r)
  /\ wptr = Wrap(rptr + used + writing)
  /\ reserved = fetched + used + writing
  /\ InFlight(w) => /\ ctx[w].off = Wrap(rptr + used)
                    /\ ctx[w].off + ctx[w].len <= Size
                    /\ ctx[w].num = fetched + used
  /\ InFlight(r) => /\ rptr = Wrap(ctx[r].off + ctx[r].len)
                    /\ ctx[r].off + ctx[r].len <= Size
                    /\ ctx[r].num = fetched - ctx[r].len

\* A region whose bytes are those of the stream.
Filled(c) == \A i \in 0 .. ctx[c].len - 1 : buffer[ctx[c].off + i] = ctx[c].num + i + 1

Data(w, r) ==
  /\ \A i \in 0 .. used - 1 : buffer[Wrap(rptr + i)] = fetched + i + 1
  /\ At(w, "done") => Filled(w)
  /\ InFlight(r) => Filled(r)

\* The inductive invariant.
StreamInv(w, r) == SpaceInv /\ OthersIdle(w, r) /\ Layout(w, r) /\ Data(w, r)

----------------------------------------------------------------------------
(* What the invariant implies.                                             *)

\* The types of a context's locals, and what is known of a region in flight.
LEMMA RegionTypes ==
  ASSUME SpaceInv, NEW c \in Contexts
  PROVE  /\ ctx[c].off \in 0 .. Size - 1 /\ ctx[c].len \in 0 .. Size /\ ctx[c].num \in Int
         /\ ctx[c].size \in Nat /\ ctx[c].done \in Nat /\ ctx[c].pc \in Locations
         /\ InFlight(c) => ctx[c].len >= 1
  BY DEF SpaceInv, ContextTypes, CallsBounded, Transferring, InFlight, Slots

\* The counters and pointers as integers.
LEMMA RingTypes ==
  ASSUME SpaceInv
  PROVE  /\ Size \in Nat /\ Size > 0
         /\ free \in Nat /\ used \in Nat
         /\ wptr \in 0 .. Size - 1 /\ rptr \in 0 .. Size - 1
         /\ writing \in Int /\ reading \in Int /\ reserved \in Int /\ fetched \in Int
         /\ used + free + writing + reading = Size
  BY FifoAssumption DEF SpaceInv, SpaceConserved, Slots

\* The writer and the reader are two contexts.
LEMMA TwoContexts ==
  ASSUME NEW w, NEW r, OneWriter(w), OneReader(r)
  PROVE  w \in Contexts /\ r \in Contexts /\ w # r /\ r \notin Writers /\ w \notin Readers
  BY FifoAssumption DEF OneWriter, OneReader, Contexts

\* No region overlaps another or the bytes that wait.
LEMMA LayoutDisjoint ==
  ASSUME NEW w, NEW r, OneWriter(w), OneReader(r), StreamInv(w, r)
  PROVE  RegionsDisjoint
<1>0. w \in Contexts /\ r \in Contexts /\ w # r
  BY TwoContexts
<1>1. \A c \in Contexts : InFlight(c) => c = w \/ c = r
  BY DEF StreamInv, OthersIdle, InFlight, At
<1>2. ASSUME InFlight(w), InFlight(r)
      PROVE  RegionSlots(w) \cap RegionSlots(r) = {}
  <2>1. SUFFICES ASSUME NEW i \in 0 .. ctx[w].len - 1, NEW j \in 0 .. ctx[r].len - 1,
                        ctx[w].off + i = ctx[r].off + j
                 PROVE  FALSE
    BY DEF RegionSlots
  <2>2. QED
    BY <1>0, <1>2, <2>1, RegionTypes, RingTypes DEF StreamInv, Layout, Held, Wrap
<1>3. ASSUME InFlight(w)
      PROVE  RegionSlots(w) \cap UsedSlots = {}
  <2>1. SUFFICES ASSUME NEW i \in 0 .. ctx[w].len - 1, NEW j \in 0 .. used - 1,
                        ctx[w].off + i = Wrap(rptr + j)
                 PROVE  FALSE
    BY DEF RegionSlots, UsedSlots
  <2>2. reading >= 0
    BY <1>0, RegionTypes DEF StreamInv, Layout, Held
  <2>3. QED
    BY <1>0, <1>3, <2>1, <2>2, RegionTypes, RingTypes DEF StreamInv, Layout, Held, Wrap
<1>4. ASSUME InFlight(r)
      PROVE  RegionSlots(r) \cap UsedSlots = {}
  <2>1. SUFFICES ASSUME NEW i \in 0 .. ctx[r].len - 1, NEW j \in 0 .. used - 1,
                        ctx[r].off + i = Wrap(rptr + j)
                 PROVE  FALSE
    BY DEF RegionSlots, UsedSlots
  <2>2. writing >= 0
    BY <1>0, RegionTypes DEF StreamInv, Layout, Held
  <2>3. /\ reading = ctx[r].len /\ rptr = Wrap(ctx[r].off + ctx[r].len)
        /\ ctx[r].off + ctx[r].len <= Size
    BY <1>4 DEF StreamInv, Layout, Held
  <2>4. used + ctx[r].len <= Size
    BY <1>0, <2>2, <2>3, RegionTypes, RingTypes DEF StreamInv
  <2>5. QED
    BY <1>0, <2>1, <2>3, <2>4, RegionTypes, RingTypes DEF StreamInv, Wrap
<1>5. QED
  BY <1>1, <1>2, <1>3, <1>4 DEF RegionsDisjoint

\* The bytes that wait are the next ones of the stream.
LEMMA DataInOrder ==
  ASSUME NEW w, NEW r, StreamInv(w, r)
  PROVE  StreamInOrder
<1>1. ASSUME NEW i \in 1 .. used
      PROVE  buffer[Wrap(rptr + i - 1)] = fetched + i
  <2>1. i - 1 \in 0 .. used - 1 /\ rptr + (i - 1) = rptr + i - 1 /\ fetched + (i - 1) + 1 = fetched + i
    BY RingTypes DEF StreamInv
  <2>2. buffer[Wrap(rptr + (i - 1))] = fetched + (i - 1) + 1
    BY <2>1 DEF StreamInv, Data
  <2>3. QED
    BY <2>1, <2>2
<1>2. QED
  BY <1>1 DEF StreamInOrder, Used

\* A new FIFO satisfies the invariant.
LEMMA StreamInvInit ==
  ASSUME NEW w, NEW r, OneWriter(w), OneReader(r)
  PROVE  Init => StreamInv(w, r)
<1> SUFFICES ASSUME Init
             PROVE  StreamInv(w, r)
  OBVIOUS
<1>0. w \in Contexts /\ r \in Contexts
  BY TwoContexts
<1>1. \A c \in Contexts : ctx[c].pc = "idle"
  BY DEF Init, Idle
<1>2. OthersIdle(w, r)
  BY <1>1 DEF OthersIdle, At, OneWriter, Init
<1>3. Layout(w, r)
  BY <1>0, <1>1, FifoAssumption DEF Layout, Held, InFlight, Init, Wrap
<1>4. Data(w, r)
  BY <1>0, <1>1 DEF Data, At, InFlight, Init
<1>5. QED
  BY <1>2, <1>3, <1>4, SpaceInvInit DEF StreamInv

----------------------------------------------------------------------------
(* Every step preserves it.                                                *)

\* A context that is not transferring changes its locals: nothing else changes.
LEMMA OutsideTransfers ==
  ASSUME NEW w, NEW r, OneWriter(w), OneReader(r), StreamInv(w, r), SpaceInv',
         UNCHANGED <<ring, ghosts, backlog>>,
         NEW c \in {w, r}, ~InFlight(c), ~InFlight(c)',
         \A d \in Contexts \ {c} : ctx'[d] = ctx[d]
  PROVE  StreamInv(w, r)'
<1>0. w \in Contexts /\ r \in Contexts /\ w # r
  BY TwoContexts
<1>1. /\ \A d \in {w, r} : InFlight(d)' = InFlight(d)
      /\ \A d \in {w, r} : InFlight(d) => ctx'[d] = ctx[d]
  BY <1>0 DEF InFlight
<1>2. OthersIdle(w, r)'
  BY DEF OthersIdle, At, StreamInv
<1>3. Layout(w, r)'
  BY <1>1 DEF Layout, Held, ring, ghosts, StreamInv, Wrap
<1>4. Data(w, r)'
  <2>1. At(w, "done")' => At(w, "done") /\ ctx'[w] = ctx[w]
    BY <1>1 DEF At, InFlight
  <2>2. QED
    BY <1>1, <2>1 DEF Data, Filled, ring, ghosts, StreamInv, Wrap
<1>5. QED
  BY <1>2, <1>3, <1>4 DEF StreamInv

\* The writer reserves a region after the bytes that wait.
LEMMA WritePrepareKeepsStream ==
  ASSUME NEW w, NEW r, OneWriter(w), OneReader(r), StreamInv(w, r), SpaceInv', WritePrepare(w)
  PROVE  StreamInv(w, r)'
<1>0. w \in Contexts /\ r \in Contexts /\ w # r
  BY TwoContexts
<1> DEFINE granted == Least({Left(w), free, Size - wptr})
<1>1. /\ granted \in Nat /\ granted <= free /\ granted <= Size - wptr
  <2>1. Left(w) \in Nat
    BY <1>0, RegionTypes DEF Left, SpaceInv, CallsBounded, StreamInv
  <2>2. free \in Nat /\ Size - wptr \in Nat
    BY RingTypes DEF StreamInv
  <2>3. QED
    BY <2>1, <2>2, LeastOfThree
<1>2. /\ used' = used /\ rptr' = rptr /\ buffer' = buffer /\ free' = free - granted
      /\ wptr' = (IF wptr + granted = Size THEN 0 ELSE wptr + granted)
      /\ writing' = writing + granted /\ reading' = reading
      /\ reserved' = reserved + granted /\ fetched' = fetched /\ backlog' = backlog
      /\ ctx' = [ctx EXCEPT ![w] = IF granted = 0 THEN Idle
            ELSE [@ EXCEPT !.pc = "copy", !.off = wptr, !.len = granted, !.num = reserved]]
      /\ ~InFlight(w)
  BY DEF WritePrepare, At, InFlight
<1> HIDE DEF granted
<1>3. \A d \in Contexts \ {w} : ctx'[d] = ctx[d]
  BY <1>0, <1>2 DEF StreamInv, SpaceInv
<1>4. CASE granted = 0
  <2>1. ctx'[w] = Idle /\ ~InFlight(w)'
    BY <1>0, <1>2, <1>4 DEF StreamInv, SpaceInv, InFlight, Idle
  <2>2. UNCHANGED <<ring, ghosts, backlog>>
    <3>1. wptr + granted # Size /\ wptr + granted = wptr /\ free - granted = free
          /\ writing + granted = writing /\ reserved + granted = reserved
      BY <1>4, RingTypes DEF StreamInv
    <3>2. QED
      BY <1>2, <3>1 DEF ring, ghosts
  <2>3. QED
    BY <1>2, <1>3, <2>1, <2>2, OutsideTransfers
<1>5. CASE granted # 0
  <2>1. /\ ctx'[w].pc = "copy" /\ ctx'[w].off = wptr /\ ctx'[w].len = granted
        /\ ctx'[w].num = reserved
    BY <1>0, <1>2, <1>5 DEF StreamInv, SpaceInv, ContextTypes
  <2>2. writing = 0 /\ InFlight(w)' /\ InFlight(r)' = InFlight(r) /\ ctx'[r] = ctx[r]
    BY <1>0, <1>2, <1>3, <2>1 DEF StreamInv, Layout, Held, InFlight
  <2>3. OthersIdle(w, r)'
    BY <1>2, <1>3 DEF OthersIdle, At, StreamInv
  <2>4. Layout(w, r)'
    <3>1. Held(w)' = granted /\ Held(r)' = Held(r)
      BY <2>1, <2>2 DEF Held
    <3>2. wptr = Wrap(rptr + used) /\ reserved = fetched + used
      BY <2>2, RingTypes DEF StreamInv, Layout
    <3>6. used + granted <= Size
      <4>1. reading >= 0
        BY <1>0, RegionTypes DEF StreamInv, Layout, Held
      <4>2. QED
        BY <1>1, <2>2, <4>1, RingTypes DEF StreamInv
    <3>3. wptr' = Wrap(rptr + used + granted)
      BY <1>1, <1>2, <3>2, <3>6, RingTypes DEF StreamInv, Wrap
    <3>4. writing' = granted /\ reserved' = fetched + used + granted /\ wptr + granted <= Size
      BY <1>1, <1>2, <2>2, <3>2, RingTypes DEF StreamInv
    <3>5. QED
      BY <1>2, <2>1, <2>2, <3>1, <3>2, <3>3, <3>4 DEF StreamInv, Layout, Wrap
  <2>5. Data(w, r)'
    BY <1>2, <2>1, <2>2 DEF StreamInv, Data, Filled, At, Wrap
  <2>6. QED
    BY <2>3, <2>4, <2>5 DEF StreamInv
<1>6. QED
  BY <1>4, <1>5

\* The copy fills the writer's region and touches no other byte of the stream.
LEMMA CopyInKeepsStream ==
  ASSUME NEW w, NEW r, OneWriter(w), OneReader(r), StreamInv(w, r), SpaceInv', CopyIn(w)
  PROVE  StreamInv(w, r)'
<1>0. w \in Contexts /\ r \in Contexts /\ w # r
  BY TwoContexts
<1>1. /\ UNCHANGED <<wptr, rptr, free, used, writing, reading, reserved, fetched, backlog>>
      /\ buffer' = [s \in Slots |->
           IF s \in ctx[w].off .. ctx[w].off + ctx[w].len - 1
           THEN ctx[w].num + (s - ctx[w].off) + 1 ELSE buffer[s]]
      /\ InFlight(w)
  BY DEF CopyIn, ghosts, At, InFlight
<1>2. /\ \A d \in Contexts \ {w} : ctx'[d] = ctx[d]
      /\ ctx'[w].pc = "done" /\ ctx'[w].off = ctx[w].off /\ ctx'[w].len = ctx[w].len
      /\ ctx'[w].num = ctx[w].num
  BY <1>0 DEF CopyIn, Goto, StreamInv, SpaceInv, ContextTypes
<1>3. InFlight(w)' /\ InFlight(r)' = InFlight(r) /\ ctx'[r] = ctx[r]
  BY <1>0, <1>2 DEF InFlight
<1>4. OthersIdle(w, r)'
  BY <1>1, <1>2 DEF OthersIdle, At, StreamInv
<1>5. Layout(w, r)'
  BY <1>1, <1>2, <1>3 DEF Layout, Held, StreamInv, Wrap
<1>6. Data(w, r)'
  <2>1. RegionsDisjoint
    BY LayoutDisjoint
  <2>2. \A s \in Slots : s \notin RegionSlots(w) => buffer'[s] = buffer[s]
    <3>1. SUFFICES ASSUME NEW s \in Slots, s \in ctx[w].off .. ctx[w].off + ctx[w].len - 1
                   PROVE  s \in RegionSlots(w)
      BY <1>1
    <3>2. s - ctx[w].off \in 0 .. ctx[w].len - 1 /\ s = ctx[w].off + (s - ctx[w].off)
      BY <1>0, <3>1, RegionTypes, RingTypes DEF StreamInv, Slots
    <3>3. QED
      BY <3>2 DEF RegionSlots
  <2>3. \A i \in 0 .. used - 1 : buffer'[Wrap(rptr + i)] = fetched + i + 1
    <3>1. SUFFICES ASSUME NEW i \in 0 .. used - 1
                   PROVE  buffer'[Wrap(rptr + i)] = buffer[Wrap(rptr + i)]
      BY DEF StreamInv, Data
    <3>2. Wrap(rptr + i) \in Slots
      <4>1. reading >= 0 /\ writing >= 0
        BY <1>0, RegionTypes DEF StreamInv, Layout, Held
      <4>2. QED
        BY <4>1, RingTypes DEF StreamInv, Wrap, Slots
    <3>3. Wrap(rptr + i) \in UsedSlots
      BY DEF UsedSlots
    <3>4. QED
      BY <1>0, <1>1, <2>1, <2>2, <3>2, <3>3 DEF RegionsDisjoint
  <2>4. Filled(w)'
    <3>1. SUFFICES ASSUME NEW i \in 0 .. ctx[w].len - 1
                   PROVE  buffer'[ctx[w].off + i] = ctx[w].num + i + 1
      BY <1>2 DEF Filled
    <3>2. /\ ctx[w].off \in Nat /\ ctx[w].len \in Nat
          /\ ctx[w].off + ctx[w].len <= Size /\ Size \in Nat
      BY <1>0, <1>1, RegionTypes, RingTypes DEF StreamInv, Layout
    <3>3. ctx[w].off + i \in Slots
      BY <3>2 DEF Slots
    <3>4. ctx[w].off + i \in ctx[w].off .. ctx[w].off + ctx[w].len - 1
      BY <3>2
    <3>5. (ctx[w].off + i) - ctx[w].off = i
      BY <3>2
    <3>6. QED
      BY <1>1, <3>3, <3>4, <3>5
  <2>5. InFlight(r) => Filled(r)'
    <3>1. SUFFICES ASSUME InFlight(r), NEW i \in 0 .. ctx[r].len - 1
                   PROVE  buffer'[ctx[r].off + i] = buffer[ctx[r].off + i]
      BY <1>3 DEF StreamInv, Data, Filled
    <3>2. ctx[r].off + i \in Slots
      BY <1>0, <3>1, RegionTypes, RingTypes DEF StreamInv, Layout, Slots
    <3>3. ctx[r].off + i \in RegionSlots(r)
      BY DEF RegionSlots
    <3>4. QED
      BY <1>0, <1>1, <2>1, <2>2, <3>1, <3>2, <3>3 DEF RegionsDisjoint
  <2>6. QED
    BY <1>1, <1>3, <2>3, <2>4, <2>5 DEF Data, Wrap
<1>7. QED
  BY <1>4, <1>5, <1>6 DEF StreamInv

\* The writer's region becomes the end of the bytes that wait.
LEMMA WriteDoneKeepsStream ==
  ASSUME ~PartialDone,
         NEW w, NEW r, OneWriter(w), OneReader(r), StreamInv(w, r), SpaceInv', WriteDone(w)
  PROVE  StreamInv(w, r)'
<1>0. w \in Contexts /\ r \in Contexts /\ w # r
  BY TwoContexts
<1>1. /\ used' = used + ctx[w].len /\ writing' = writing - ctx[w].len
      /\ UNCHANGED <<buffer, wptr, rptr, reading, reserved, fetched>>
      /\ (w # Producer => backlog' = backlog)
      /\ InFlight(w) /\ Filled(w)
  BY DEF WriteDone, DoneSizes, At, InFlight, StreamInv, Data
<1>2. /\ \A d \in Contexts \ {w} : ctx'[d] = ctx[d]
      /\ ctx'[w].pc = "notify"
  BY <1>0 DEF WriteDone, Goto, StreamInv, SpaceInv, ContextTypes
<1>3. ~InFlight(w)' /\ InFlight(r)' = InFlight(r) /\ ctx'[r] = ctx[r]
  BY <1>0, <1>2 DEF InFlight
<1>4. /\ writing = ctx[w].len /\ writing' = 0 /\ used' + writing' = used + writing
      /\ ctx[w].off = Wrap(rptr + used) /\ ctx[w].off + ctx[w].len <= Size
      /\ ctx[w].num = fetched + used /\ ctx[w].len \in Nat
  BY <1>0, <1>1, RegionTypes, RingTypes DEF StreamInv, Layout, Held
<1>5. OthersIdle(w, r)'
  BY <1>1, <1>2 DEF OthersIdle, At, StreamInv
<1>6. Layout(w, r)'
  <2>1. wptr' = Wrap(rptr' + used' + writing') /\ reserved' = fetched' + used' + writing'
    BY <1>1, <1>4, RingTypes DEF StreamInv, Layout, Wrap
  <2>2. Held(w)' = 0 /\ Held(r)' = Held(r)
    BY <1>3 DEF Held
  <2>3. QED
    BY <1>1, <1>3, <1>4, <2>1, <2>2 DEF Layout, StreamInv, Wrap
<1>7. \A i \in 0 .. used' - 1 : buffer[Wrap(rptr + i)] = fetched + i + 1
  <2>1. SUFFICES ASSUME NEW i \in 0 .. used' - 1, i >= used
                 PROVE  buffer[Wrap(rptr + i)] = fetched + i + 1
    BY RingTypes DEF StreamInv, Data
  <2>2. i - used \in 0 .. ctx[w].len - 1
    BY <1>1, <1>4, <2>1, RingTypes DEF StreamInv
  <2>3. buffer[ctx[w].off + (i - used)] = ctx[w].num + (i - used) + 1
    BY <1>1, <2>2 DEF Filled
  <2>4. Wrap(rptr + i) = ctx[w].off + (i - used)
    BY <1>4, <2>1, <2>2, RingTypes DEF StreamInv, Wrap
  <2>5. ctx[w].num + (i - used) + 1 = fetched + i + 1
    BY <1>4, <2>1, RingTypes DEF StreamInv
  <2>6. QED
    BY <2>3, <2>4, <2>5
<1>8. Data(w, r)'
  BY <1>1, <1>2, <1>3, <1>7 DEF StreamInv, Data, Filled, At, Wrap
<1>9. QED
  BY <1>5, <1>6, <1>8 DEF StreamInv

\* The reader reserves the first of the bytes that wait.
LEMMA ReadPrepareKeepsStream ==
  ASSUME NEW w, NEW r, OneWriter(w), OneReader(r), StreamInv(w, r), SpaceInv', ReadPrepare(r)
  PROVE  StreamInv(w, r)'
<1>0. w \in Contexts /\ r \in Contexts /\ w # r
  BY TwoContexts
<1> DEFINE granted == Least({Left(r), used, Size - rptr})
<1>1. /\ granted \in Nat /\ granted <= used /\ granted <= Size - rptr
  <2>1. Left(r) \in Nat
    BY <1>0, RegionTypes DEF Left, SpaceInv, CallsBounded, StreamInv
  <2>2. used \in Nat /\ Size - rptr \in Nat
    BY RingTypes DEF StreamInv
  <2>3. QED
    BY <2>1, <2>2, LeastOfThree
<1>2. /\ used' = used - granted /\ UNCHANGED <<free, wptr, buffer, writing, reserved, backlog>>
      /\ rptr' = (IF rptr + granted = Size THEN 0 ELSE rptr + granted)
      /\ reading' = reading + granted /\ fetched' = fetched + granted
      /\ ctx' = [ctx EXCEPT ![r] =
           [@ EXCEPT !.pc = IF granted = 0 THEN "test" ELSE "copy",
                     !.off = rptr, !.len = granted, !.num = fetched]]
      /\ ~InFlight(r)
  BY DEF ReadPrepare, At, InFlight
<1> HIDE DEF granted
<1>3. /\ \A d \in Contexts \ {r} : ctx'[d] = ctx[d]
      /\ ctx'[r].pc = IF granted = 0 THEN "test" ELSE "copy"
      /\ ctx'[r].off = rptr /\ ctx'[r].len = granted /\ ctx'[r].num = fetched
  BY <1>0, <1>2 DEF StreamInv, SpaceInv, ContextTypes
<1>4. CASE granted = 0
  <2>1. ~InFlight(r)'
    BY <1>3, <1>4 DEF InFlight
  <2>2. UNCHANGED <<ring, ghosts, backlog>>
    <3>1. rptr + granted # Size /\ rptr + granted = rptr /\ used - granted = used
          /\ reading + granted = reading /\ fetched + granted = fetched
      BY <1>4, RingTypes DEF StreamInv
    <3>2. QED
      BY <1>2, <3>1 DEF ring, ghosts
  <2>3. QED
    BY <1>2, <1>3, <2>1, <2>2, OutsideTransfers
<1>5. CASE granted # 0
  <2>1. reading = 0 /\ InFlight(r)' /\ InFlight(w)' = InFlight(w) /\ ctx'[w] = ctx[w]
    BY <1>0, <1>2, <1>3, <1>5 DEF StreamInv, Layout, Held, InFlight
  <2>2. OthersIdle(w, r)'
    BY <1>2, <1>3 DEF OthersIdle, At, StreamInv
  <2>3. writing >= 0 /\ used + writing <= Size
    BY <1>0, <2>1, RegionTypes, RingTypes DEF StreamInv, Layout, Held
  \* An offset from the new read pointer is one from the old.
  <2>4. \A k \in 0 .. Size - granted : Wrap(rptr' + k) = Wrap(rptr + (granted + k))
    <3>1. SUFFICES ASSUME NEW k \in 0 .. Size - granted
                   PROVE  Wrap(rptr' + k) = Wrap(rptr + (granted + k))
      OBVIOUS
    <3>2. CASE rptr + granted = Size
      <4>1. rptr' = 0
        BY <1>2, <3>2
      <4>2. granted \in Nat /\ granted >= 1 /\ rptr \in Nat /\ Size \in Nat
        BY <1>1, <1>5, RingTypes DEF StreamInv
      <4>3. k \in Nat /\ k < Size
        BY <4>2
      <4>4. rptr + (granted + k) = Size + k
        BY <3>2, <4>2, <4>3
      <4>5. QED
        BY <4>1, <4>2, <4>3, <4>4 DEF Wrap
    <3>3. CASE rptr + granted # Size
      <4>1. rptr' + k = rptr + (granted + k)
        BY <1>1, <1>2, <3>3, RingTypes DEF StreamInv
      <4>2. QED
        BY <4>1
    <3>4. QED
      BY <3>2, <3>3
  <2>5. Layout(w, r)'
    <3>1. Held(r)' = granted /\ Held(w)' = Held(w) /\ reading' = granted
      <4>1. Held(r)' = granted
        BY <1>3, <2>1 DEF Held
      <4>2. Held(w)' = Held(w)
        BY <2>1 DEF Held
      <4>3. reading' = granted
        BY <1>1, <1>2, <2>1
      <4>4. QED
        BY <4>1, <4>2, <4>3
    <3>2. wptr' = Wrap(rptr' + used' + writing')
      <4>1. used' + writing' \in 0 .. Size - granted
        BY <1>1, <1>2, <2>3, RingTypes DEF StreamInv
      <4>2. rptr + (granted + (used' + writing')) = rptr + used + writing
            /\ rptr' + (used' + writing') = rptr' + used' + writing'
        BY <1>1, <1>2, RingTypes DEF StreamInv
      <4>3. QED
        BY <1>2, <2>4, <4>1, <4>2 DEF StreamInv, Layout
    <3>3. reserved' = fetched' + used' + writing'
      BY <1>1, <1>2, RingTypes DEF StreamInv, Layout
    <3>4. Wrap(rptr' + used') = Wrap(rptr + used) /\ fetched' + used' = fetched + used
      <4>1. used' \in 0 .. Size - granted
        BY <1>1, <1>2, <2>3, RingTypes DEF StreamInv
      <4>2. rptr + (granted + used') = rptr + used /\ fetched' + used' = fetched + used
        BY <1>1, <1>2, RingTypes DEF StreamInv
      <4>3. QED
        BY <2>4, <4>1, <4>2
    <3>5. /\ rptr' = Wrap(rptr + granted) /\ rptr + granted <= Size
          /\ fetched = fetched' - granted
      BY <1>1, <1>2, RingTypes DEF StreamInv, Wrap
    <3>6. /\ InFlight(w)' => /\ ctx'[w].off = Wrap(rptr' + used')
                             /\ ctx'[w].off + ctx'[w].len <= Size
                             /\ ctx'[w].num = fetched' + used'
      BY <2>1, <3>4 DEF StreamInv, Layout
    <3>7. writing' = Held(w)' /\ reading' = Held(r)'
      BY <1>2, <3>1 DEF StreamInv, Layout
    <3>8. QED
      BY <1>3, <3>2, <3>3, <3>5, <3>6, <3>7 DEF Layout, Wrap
  <2>6. Data(w, r)'
    <3>1. \A i \in 0 .. used' - 1 : buffer[Wrap(rptr' + i)] = fetched' + i + 1
      <4>1. SUFFICES ASSUME NEW i \in 0 .. used' - 1
                     PROVE  buffer[Wrap(rptr' + i)] = fetched' + i + 1
        OBVIOUS
      <4>2. granted + i \in 0 .. used - 1 /\ i \in 0 .. Size - granted
            /\ fetched + (granted + i) + 1 = fetched' + i + 1
        BY <1>1, <1>2, <2>3, <4>1, RingTypes DEF StreamInv
      <4>3. QED
        BY <2>4, <4>2 DEF StreamInv, Data
    <3>2. \A i \in 0 .. granted - 1 : buffer[rptr + i] = fetched + i + 1
      <4>1. SUFFICES ASSUME NEW i \in 0 .. granted - 1
                     PROVE  buffer[rptr + i] = fetched + i + 1
        OBVIOUS
      <4>2. i \in 0 .. used - 1 /\ Wrap(rptr + i) = rptr + i
        BY <1>1, RingTypes DEF StreamInv, Wrap
      <4>3. QED
        BY <4>2 DEF StreamInv, Data
    <3>3. Filled(r)'
      BY <1>2, <1>3, <3>2 DEF Filled
    <3>4. At(w, "done")' => Filled(w)'
      BY <1>2, <2>1 DEF StreamInv, Data, Filled, At
    <3>5. QED
      BY <1>2, <3>1, <3>3, <3>4 DEF Data, Wrap
  <2>7. QED
    BY <2>2, <2>5, <2>6 DEF StreamInv
<1>6. QED
  BY <1>4, <1>5

\* The reader copies its region and keeps it.
LEMMA CopyOutKeepsStream ==
  ASSUME NEW w, NEW r, OneWriter(w), OneReader(r), StreamInv(w, r), SpaceInv', CopyOut(r)
  PROVE  StreamInv(w, r)'
<1>0. w \in Contexts /\ r \in Contexts /\ w # r
  BY TwoContexts
<1>1. UNCHANGED <<ring, ghosts, backlog>> /\ InFlight(r)
  BY DEF CopyOut, At, InFlight
<1>2. /\ \A d \in Contexts \ {r} : ctx'[d] = ctx[d]
      /\ ctx'[r].pc = "done" /\ ctx'[r].off = ctx[r].off /\ ctx'[r].len = ctx[r].len
      /\ ctx'[r].num = ctx[r].num
  BY <1>0 DEF CopyOut, Goto, StreamInv, SpaceInv, ContextTypes
<1>3. InFlight(r)' /\ InFlight(w)' = InFlight(w) /\ ctx'[w] = ctx[w]
  BY <1>0, <1>2 DEF InFlight
<1>4. OthersIdle(w, r)'
  BY <1>1, <1>2 DEF OthersIdle, At, StreamInv
<1>5. Layout(w, r)'
  BY <1>1, <1>2, <1>3 DEF Layout, Held, ring, ghosts, StreamInv, Wrap
<1>6. Data(w, r)'
  BY <1>1, <1>2, <1>3 DEF Data, Filled, At, ring, ghosts, StreamInv, Wrap
<1>7. QED
  BY <1>4, <1>5, <1>6 DEF StreamInv

\* The reader gives its region back.
LEMMA ReadDoneKeepsStream ==
  ASSUME ~PartialDone,
         NEW w, NEW r, OneWriter(w), OneReader(r), StreamInv(w, r), SpaceInv', ReadDone(r)
  PROVE  StreamInv(w, r)'
<1>0. w \in Contexts /\ r \in Contexts /\ w # r
  BY TwoContexts
<1>1. /\ UNCHANGED <<buffer, wptr, rptr, used, writing, reserved, fetched, backlog>>
      /\ reading' = reading - ctx[r].len /\ InFlight(r)
  BY DEF ReadDone, At, InFlight
<1>2. /\ \A d \in Contexts \ {r} : ctx'[d] = ctx[d]
      /\ ctx'[r].pc = "notify"
  BY <1>0 DEF ReadDone, Goto, StreamInv, SpaceInv, ContextTypes
<1>3. ~InFlight(r)' /\ InFlight(w)' = InFlight(w) /\ ctx'[w] = ctx[w]
  BY <1>0, <1>2 DEF InFlight
<1>4. OthersIdle(w, r)'
  BY <1>1, <1>2 DEF OthersIdle, At, StreamInv
<1>5. Layout(w, r)'
  <2>1. reading' = 0
    BY <1>0, <1>1, RegionTypes DEF StreamInv, Layout, Held
  <2>2. QED
    BY <1>1, <1>3, <2>1 DEF Layout, Held, StreamInv, Wrap
<1>6. Data(w, r)'
  BY <1>1, <1>3 DEF Data, Filled, At, StreamInv, Wrap
<1>7. QED
  BY <1>4, <1>5, <1>6 DEF StreamInv

\* With no region in use, the FIFO starts anew at the next byte of the stream.
LEMMA ClearKeepsStream ==
  ASSUME ~ClearRaces,
         NEW w, NEW r, OneWriter(w), OneReader(r), StreamInv(w, r), SpaceInv', pr_fifo_clear
  PROVE  StreamInv(w, r)'
<1>0. w \in Contexts /\ r \in Contexts /\ w # r
  BY TwoContexts
<1>1. /\ writing = 0 /\ reading = 0
      /\ used' = 0 /\ rptr' = 0 /\ wptr' = 0 /\ fetched' = reserved
      /\ UNCHANGED <<buffer, writing, reading, reserved, ctx, backlog>>
  BY DEF pr_fifo_clear
<1>2. ~InFlight(w) /\ ~InFlight(r)
  BY <1>0, <1>1, RegionTypes DEF StreamInv, Layout, Held
<1>3. ~InFlight(w)' /\ ~InFlight(r)' /\ ~At(w, "done")'
  BY <1>1, <1>2 DEF InFlight, At
<1>4. OthersIdle(w, r)'
  BY <1>1 DEF OthersIdle, At, StreamInv
<1>5. Layout(w, r)'
  BY <1>1, <1>3, RingTypes DEF Layout, Held, StreamInv, Wrap
<1>6. Data(w, r)'
  BY <1>1, <1>3 DEF Data
<1>7. QED
  BY <1>4, <1>5, <1>6 DEF StreamInv

\* The invariant is inductive, if done is given what prepare granted and the FIFO
\* is cleared between transfers.
LEMMA StreamInvInductive ==
  ASSUME ~PartialDone, ~ClearRaces, NEW w, NEW r, OneWriter(w), OneReader(r)
  PROVE  StreamInv(w, r) /\ [Next]_vars => StreamInv(w, r)'
<1> SUFFICES ASSUME StreamInv(w, r), [Next]_vars
             PROVE  StreamInv(w, r)'
  OBVIOUS
<1>0. w \in Contexts /\ r \in Contexts /\ w # r /\ r \notin Writers /\ w \notin Readers
  BY TwoContexts
<1>s. SpaceInv'
  BY SpaceInvInductive DEF StreamInv
<1>d. DOMAIN ctx = Contexts
  BY DEF StreamInv, SpaceInv
<1>i. \A c \in Contexts : c # w /\ c # r => At(c, "idle")
  BY DEF StreamInv, OthersIdle
\* A call that starts or ends.
<1>c. ASSUME NEW c \in {w, r}, NEW l, ctx' = [ctx EXCEPT ![c] = l],
             l.pc \notin {"copy", "done"}, ~InFlight(c), UNCHANGED <<ring, ghosts, backlog>>
      PROVE  StreamInv(w, r)'
  <2>1. ctx'[c] = l /\ \A d \in Contexts \ {c} : ctx'[d] = ctx[d]
    BY <1>0, <1>c, <1>d
  <2>2. ~InFlight(c)'
    BY <1>c, <2>1 DEF InFlight
  <2>3. QED
    BY <1>c, <1>s, <2>1, <2>2, OutsideTransfers
<1>1. CASE ProducerRuns
  <2>1. CASE w = Producer /\ backlog > 0
    <3> DEFINE l == [Idle EXCEPT !.pc = "prepare", !.size = backlog]
    <3>1. l.pc = "prepare"
      BY DEF Idle
    <3>2. ctx' = [ctx EXCEPT ![w] = l] /\ ~InFlight(w)
      BY <1>1, <2>1 DEF ProducerRuns, Call, At, InFlight
    <3> HIDE DEF l
    <3>3. UNCHANGED <<ring, ghosts, backlog>>
      BY <1>1 DEF ProducerRuns
    <3>4. QED
      BY <1>c, <3>1, <3>2, <3>3
  <2>2. CASE ~(w = Producer /\ backlog > 0)
    <3>1. UNCHANGED <<ring, ghosts, backlog, ctx>>
      BY <1>1, <2>2, RingTypes DEF ProducerRuns, StreamInv, OthersIdle
    <3>2. QED
      BY <1>s, <3>1 DEF StreamInv, OthersIdle, Layout, Data, Filled, Held, InFlight, At, Wrap, ring, ghosts
  <2>3. QED
    BY <2>1, <2>2
<1>2. CASE pr_fifo_clear
  BY <1>2, <1>s, ClearKeepsStream
<1>3. ASSUME NEW c \in Writers, IrqWrites(c)
      PROVE  StreamInv(w, r)'
  <2>1. c = w
    BY <1>3 DEF IrqWrites, OneWriter
  <2>2. PICK n \in IrqSizes : Call(w, n)
    BY <1>3, <2>1 DEF IrqWrites
  <2> DEFINE l == [Idle EXCEPT !.pc = "prepare", !.size = n]
  <2>3. l.pc = "prepare"
    BY DEF Idle
  <2>4. ctx' = [ctx EXCEPT ![w] = l] /\ ~InFlight(w)
    BY <1>3, <2>1, <2>2 DEF IrqWrites, Call, At, InFlight
  <2> HIDE DEF l
  <2>5. UNCHANGED <<ring, ghosts, backlog>>
    BY <1>3 DEF IrqWrites
  <2>6. QED
    BY <1>c, <2>3, <2>4, <2>5
<1>4. ASSUME NEW c \in Writers, WriteStep(c)
      PROVE  StreamInv(w, r)'
  <2>1. c = w
    <3>1. ~At(c, "idle") /\ c # r /\ c \in Contexts
      BY <1>0, <1>4 DEF WriteStep, WritePrepare, CopyIn, WriteDone, NotifyConsumer, At, Contexts
    <3>2. QED
      BY <1>i, <3>1
  <2>2. CASE WritePrepare(w)
    BY <2>2, <1>s, WritePrepareKeepsStream
  <2>3. CASE CopyIn(w)
    BY <2>3, <1>s, CopyInKeepsStream
  <2>4. CASE WriteDone(w)
    BY <2>4, <1>s, WriteDoneKeepsStream
  <2>5. CASE NotifyConsumer(w)
    <3>1. UNCHANGED <<ring, ghosts, backlog>> /\ ~InFlight(w)
      BY <2>5 DEF NotifyConsumer, At, InFlight
    <3>2. CASE ctx' = [ctx EXCEPT ![w] = Idle]
      <4>1. Idle.pc \notin {"copy", "done"}
        BY DEF Idle
      <4>2. QED
        BY <1>c, <3>1, <3>2, <4>1
    <3>3. CASE ctx' = [ctx EXCEPT ![w].pc = "prepare", ![w].done = @ + ctx[w].len]
      <4> DEFINE l == [ctx[w] EXCEPT !.pc = "prepare", !.done = ctx[w].done + ctx[w].len]
      <4>1. ctx[w] \in ContextTypes
        BY <1>0 DEF StreamInv, SpaceInv
      <4>2. ctx' = [ctx EXCEPT ![w] = l]
        BY <1>0, <1>d, <3>3, <4>1 DEF StreamInv, SpaceInv, ContextTypes
      <4>3. l.pc = "prepare"
        BY <4>1 DEF ContextTypes
      <4> HIDE DEF l
      <4>4. QED
        BY <1>c, <3>1, <4>2, <4>3
    <3>4. QED
      BY <2>5, <3>2, <3>3 DEF NotifyConsumer
  <2>6. QED
    BY <1>4, <2>1, <2>2, <2>3, <2>4, <2>5 DEF WriteStep
<1>5. ASSUME NEW c \in Readers, ReadStep(c)
      PROVE  StreamInv(w, r)'
  <2>1. c = r
    BY DEF OneReader
  <2>2. CASE ConsumerRuns(r)
    <3>1. PICK n \in ReadSizes : Call(r, n)
      BY <2>2 DEF ConsumerRuns
    <3> DEFINE l == [Idle EXCEPT !.pc = "prepare", !.size = n]
    <3>2. l.pc = "prepare"
      BY DEF Idle
    <3>3. ctx' = [ctx EXCEPT ![r] = l] /\ ~InFlight(r)
      BY <2>2, <3>1 DEF ConsumerRuns, Call, At, InFlight
    <3> HIDE DEF l
    <3>4. UNCHANGED <<ring, ghosts, backlog>>
      BY <2>2 DEF ConsumerRuns
    <3>5. QED
      BY <1>c, <3>2, <3>3, <3>4
  <2>3. CASE ReadPrepare(r)
    BY <2>3, <1>s, ReadPrepareKeepsStream
  <2>4. CASE CopyOut(r)
    BY <2>4, <1>s, CopyOutKeepsStream
  <2>5. CASE ReadDone(r)
    BY <2>5, <1>s, ReadDoneKeepsStream
  <2>6. CASE NotifyProducer(r)
    <3>1. UNCHANGED <<ring, ghosts, backlog>> /\ ~InFlight(r)
      BY <2>6 DEF NotifyProducer, At, InFlight
    <3> DEFINE l == [ctx[r] EXCEPT !.pc = "test", !.done = ctx[r].done + ctx[r].len]
    <3>2. ctx[r] \in ContextTypes
      BY <1>0 DEF StreamInv, SpaceInv
    <3>3. ctx' = [ctx EXCEPT ![r] = l]
      BY <1>0, <1>d, <2>6, <3>2 DEF NotifyProducer, StreamInv, SpaceInv, ContextTypes
    <3>4. l.pc = "test"
      BY <3>2 DEF ContextTypes
    <3> HIDE DEF l
    <3>5. QED
      BY <1>c, <3>1, <3>3, <3>4
  <2>7. CASE ReadTest(r)
    <3>1. UNCHANGED <<ring, ghosts, backlog>> /\ ~InFlight(r)
      BY <2>7 DEF ReadTest, At, InFlight
    <3>2. CASE Goto(r, "prepare")
      <4> DEFINE l == [ctx[r] EXCEPT !.pc = "prepare"]
      <4>1. ctx' = [ctx EXCEPT ![r] = l] /\ ctx[r] \in ContextTypes
        BY <1>0, <3>2 DEF Goto, StreamInv, SpaceInv
      <4>2. l.pc = "prepare"
        BY <4>1 DEF ContextTypes
      <4> HIDE DEF l
      <4>3. QED
        BY <1>c, <3>1, <4>1, <4>2
    <3>3. CASE Call(r, ctx[r].size)
      <4> DEFINE l == [Idle EXCEPT !.pc = "prepare", !.size = ctx[r].size]
      <4>1. ctx' = [ctx EXCEPT ![r] = l]
        BY <3>3 DEF Call
      <4>2. l.pc = "prepare"
        BY DEF Idle
      <4> HIDE DEF l
      <4>3. QED
        BY <1>c, <3>1, <4>1, <4>2
    <3>4. CASE ctx' = [ctx EXCEPT ![r] = Idle]
      <4>1. Idle.pc \notin {"copy", "done"}
        BY DEF Idle
      <4>2. QED
        BY <1>c, <3>1, <3>4, <4>1
    <3>5. QED
      BY <2>7, <3>2, <3>3, <3>4 DEF ReadTest
  <2>8. QED
    BY <1>5, <2>1, <2>2, <2>3, <2>4, <2>5, <2>6, <2>7 DEF ReadStep
<1>6. CASE UNCHANGED vars
  BY <1>6, <1>s DEF vars, StreamInv, OthersIdle, Layout, Data, Filled, Held, InFlight, At, Wrap, ring, ghosts
<1>7. QED
  BY <1>1, <1>2, <1>3, <1>4, <1>5, <1>6 DEF Next

\* With one writer and one reader nobody accesses a byte that somebody else does.
THEOREM RegionsAlwaysDisjoint ==
  ASSUME ~PartialDone, ~ClearRaces, NEW w, NEW r, OneWriter(w), OneReader(r)
  PROVE  Spec => []RegionsDisjoint
<1>1. Init => StreamInv(w, r)
  BY StreamInvInit
<1>2. StreamInv(w, r) /\ [Next]_vars => StreamInv(w, r)'
  BY StreamInvInductive
<1>3. StreamInv(w, r) => RegionsDisjoint
  BY LayoutDisjoint
<1>4. QED
  BY <1>1, <1>2, <1>3, PTL DEF Spec

\* With one writer and one reader the bytes that wait are always the next ones of
\* the stream: none is lost, repeated or out of order, wherever the ring wraps.
THEOREM StreamAlwaysInOrder ==
  ASSUME ~PartialDone, ~ClearRaces, NEW w, NEW r, OneWriter(w), OneReader(r)
  PROVE  Spec => []StreamInOrder
<1>1. Init => StreamInv(w, r)
  BY StreamInvInit
<1>2. StreamInv(w, r) /\ [Next]_vars => StreamInv(w, r)'
  BY StreamInvInductive
<1>3. StreamInv(w, r) => StreamInOrder
  BY DataInOrder
<1>4. QED
  BY <1>1, <1>2, <1>3, PTL DEF Spec

----------------------------------------------------------------------------
(* The ring is the stream of FifoSpec.                                     *)

\* n bytes of the stream, after the first b.
Stream(b, n) == [i \in 1 .. n |-> b + i]

\* What the reader has reserved and not copied yet.
Ahead(r) == IF At(r, "copy") THEN ctx[r].len ELSE 0

\* Parts of the stream are sequences, and follow each other.
LEMMA StreamParts ==
  ASSUME NEW b \in Int, NEW m \in Nat, NEW n \in Nat
  PROVE  /\ Stream(b, m) \in Seq(Int) /\ Len(Stream(b, m)) = m
         /\ Stream(b, m) \o Stream(b + m, n) = Stream(b, m + n)
         /\ SubSeq(Stream(b, m + n), 1, m) = Stream(b, m)
         /\ SubSeq(Stream(b, m + n), m + 1, m + n) = Stream(b + m, n)
<1>1. ASSUME NEW a \in Int, NEW k \in Nat
      PROVE  /\ Stream(a, k) \in Seq(Int) /\ Len(Stream(a, k)) = k
             /\ \A i \in 1 .. k : Stream(a, k)[i] = a + i
  BY DEF Stream
<1>2. Stream(b, m) \o Stream(b + m, n) = Stream(b, m + n)
  <2> DEFINE s == Stream(b, m)
             t == Stream(b + m, n)
             u == Stream(b, m + n)
  <2>1. /\ s \in Seq(Int) /\ Len(s) = m /\ t \in Seq(Int) /\ Len(t) = n
        /\ u \in Seq(Int) /\ Len(u) = m + n
        /\ \A i \in 1 .. m : s[i] = b + i
        /\ \A i \in 1 .. n : t[i] = b + m + i
        /\ \A i \in 1 .. m + n : u[i] = b + i
    BY <1>1
  <2> HIDE DEF s, t, u
  <2>2. s \o t \in Seq(Int) /\ Len(s \o t) = m + n
    BY <2>1, ConcatProperties
  <2>3. \A i \in 1 .. m + n : (s \o t)[i] = u[i]
    <3>1. SUFFICES ASSUME NEW i \in 1 .. m + n
                   PROVE  (s \o t)[i] = u[i]
      OBVIOUS
    <3>2. (s \o t)[i] = IF i <= Len(s) THEN s[i] ELSE t[i - Len(s)]
      BY <2>1, ConcatProperties
    <3>3. CASE i <= m
      BY <2>1, <3>2, <3>3
    <3>4. CASE i > m
      <4>1. i - m \in 1 .. n
        BY <3>4
      <4>2. b + m + (i - m) = b + i
        BY <3>4
      <4>3. QED
        BY <2>1, <3>2, <3>4, <4>1, <4>2
    <3>5. i <= m \/ i > m
      OBVIOUS
    <3>6. QED
      BY <3>3, <3>4, <3>5
  <2>4. s \o t = u
    BY <2>1, <2>2, <2>3, SeqEqual
  <2>5. QED
    BY <2>4 DEF s, t, u
<1>3. ASSUME NEW j \in 1 .. m + n + 1, NEW k \in 0 .. m + n, j <= k + 1
      PROVE  SubSeq(Stream(b, m + n), j, k) = Stream(b + j - 1, k - j + 1)
  <2> DEFINE u == Stream(b, m + n)
             v == Stream(b + j - 1, k - j + 1)
  <2>0. k - j + 1 \in Nat /\ b + j - 1 \in Int /\ m + n \in Nat
    BY <1>3
  <2>1. /\ u \in Seq(Int) /\ Len(u) = m + n /\ \A i \in 1 .. m + n : u[i] = b + i
        /\ v \in Seq(Int) /\ Len(v) = k - j + 1
        /\ \A i \in 1 .. k - j + 1 : v[i] = b + j - 1 + i
    BY <1>1, <2>0
  <2> HIDE DEF u, v
  <2>2. /\ SubSeq(u, j, k) \in Seq(Int)
        /\ Len(SubSeq(u, j, k)) = k - j + 1
        /\ \A i \in 1 .. k - j + 1 : SubSeq(u, j, k)[i] = u[j + i - 1]
    <3>1. \A i \in j .. k : u[i] \in Int
      BY <1>3, <2>1
    <3>2. j \in Int /\ k \in Int /\ (IF j <= k THEN k - j + 1 ELSE 0) = k - j + 1
      BY <1>3
    <3>3. \A i \in 1 .. k - j + 1 : j + i - 1 = i + j - 1
      BY <1>3
    <3>4. QED
      BY <3>1, <3>2, <3>3, SubSeqProperties
  <2>3. \A i \in 1 .. k - j + 1 : SubSeq(u, j, k)[i] = v[i]
    <3>1. ASSUME NEW i \in 1 .. k - j + 1
          PROVE  j + i - 1 \in 1 .. m + n /\ b + (j + i - 1) = b + j - 1 + i
      BY <1>3, <2>0
    <3>2. QED
      BY <2>1, <2>2, <3>1
  <2>4. SubSeq(u, j, k) = v
    BY <2>1, <2>2, <2>3, SeqEqual
  <2>5. QED
    BY <2>4 DEF u, v
<1>4. SubSeq(Stream(b, m + n), 1, m) = Stream(b, m)
  <2>1. b + 1 - 1 = b /\ m - 1 + 1 = m
    OBVIOUS
  <2>2. SubSeq(Stream(b, m + n), 1, m) = Stream(b + 1 - 1, m - 1 + 1)
    BY <1>3
  <2>3. QED
    BY <2>1, <2>2
<1>5. SubSeq(Stream(b, m + n), m + 1, m + n) = Stream(b + m, n)
  <2>1. b + (m + 1) - 1 = b + m /\ (m + n) - (m + 1) + 1 = n
    OBVIOUS
  <2>2. m + 1 \in 1 .. m + n + 1 /\ m + n \in 0 .. m + n /\ m + 1 <= (m + n) + 1
    OBVIOUS
  <2>4. SubSeq(Stream(b, m + n), m + 1, m + n) = Stream(b + (m + 1) - 1, (m + n) - (m + 1) + 1)
    BY <1>3, <2>2
  <2>3. QED
    BY <2>1, <2>4
<1>6. QED
  BY <1>1, <1>2, <1>4, <1>5

\* The abstract contents are the part of the stream from the reader's region on.
LEMMA ContentsAreStream ==
  ASSUME NEW w, NEW r, OneWriter(w), OneReader(r), StreamInv(w, r)
  PROVE  /\ Ahead(r) \in Nat /\ used \in Nat /\ fetched \in Int
         /\ Used = Stream(fetched, used)
         /\ At(r, "copy") => Region(r) = Stream(fetched - Ahead(r), Ahead(r))
         /\ Contents = Stream(fetched - Ahead(r), used + Ahead(r))
<1>0. r \in Contexts
  BY TwoContexts
<1>1. Ahead(r) \in Nat /\ used \in Nat /\ fetched \in Int
  BY <1>0, RegionTypes, RingTypes DEF StreamInv, Ahead
<1>2. Used = Stream(fetched, used)
  BY DataInOrder DEF StreamInOrder, Stream
<1>3. ASSUME At(r, "copy")
      PROVE  Region(r) = Stream(fetched - Ahead(r), Ahead(r))
  <2>1. Filled(r) /\ ctx[r].num = fetched - ctx[r].len /\ Ahead(r) = ctx[r].len
    BY <1>3 DEF StreamInv, Data, Layout, InFlight, At, Ahead
  <2>2. ASSUME NEW i \in 1 .. ctx[r].len
        PROVE  buffer[ctx[r].off + i - 1] = fetched - Ahead(r) + i
    <3>1. /\ i - 1 \in 0 .. ctx[r].len - 1 /\ ctx[r].off + (i - 1) = ctx[r].off + i - 1
          /\ ctx[r].num + (i - 1) + 1 = ctx[r].num + i
      BY <1>0, RegionTypes DEF StreamInv
    <3>2. buffer[ctx[r].off + (i - 1)] = ctx[r].num + (i - 1) + 1
      BY <2>1, <3>1 DEF Filled
    <3>3. QED
      BY <2>1, <3>1, <3>2
  <2>3. QED
    BY <2>1, <2>2 DEF Region, Stream
<1>4. Contents = Stream(fetched - Ahead(r), used + Ahead(r))
  <2>1. CASE At(r, "copy")
    <3>1. Uncopied = {r}
      BY <2>1 DEF Uncopied, OneReader
    <3>2. Contents = Region(r) \o Used
      BY <3>1 DEF Contents
    <3>3. /\ fetched - Ahead(r) \in Int /\ fetched - Ahead(r) + Ahead(r) = fetched
          /\ Ahead(r) + used = used + Ahead(r)
      BY <1>1
    <3>4. Stream(fetched - Ahead(r), Ahead(r)) \o Stream(fetched - Ahead(r) + Ahead(r), used)
            = Stream(fetched - Ahead(r), Ahead(r) + used)
      BY <1>1, <3>3, StreamParts
    <3>5. QED
      BY <1>2, <1>3, <2>1, <3>2, <3>3, <3>4
  <2>2. CASE ~At(r, "copy")
    <3>1. Uncopied = {}
      BY <2>2 DEF Uncopied, OneReader
    <3>2. Ahead(r) = 0 /\ fetched - 0 = fetched /\ used + 0 = used
      BY <1>1, <2>2 DEF Ahead
    <3>3. QED
      BY <1>2, <3>1, <3>2 DEF Contents
  <2>3. QED
    BY <2>1, <2>2
<1>5. QED
  BY <1>1, <1>2, <1>3, <1>4

\* A step that reserves or gives back a region, or is outside of transfers, is a
\* stutter of the stream.
LEMMA SameStream ==
  ASSUME NEW w, NEW r, OneWriter(w), OneReader(r), StreamInv(w, r), StreamInv(w, r)',
         fetched' - Ahead(r)' = fetched - Ahead(r), used' + Ahead(r)' = used + Ahead(r)
  PROVE  Contents' = Contents
<1>1. Contents = Stream(fetched - Ahead(r), used + Ahead(r))
  BY ContentsAreStream
<1>2. Contents' = Stream(fetched' - Ahead(r)', used' + Ahead(r)')
  <2>1. OneReader(r)'
    BY DEF OneReader
  <2>2. OneWriter(w)'
    BY DEF OneWriter, Writers
  <2>3. (StreamInv(w, r) => Contents = Stream(fetched - Ahead(r), used + Ahead(r)))'
    BY <2>1, <2>2, ContentsAreStream, PTL
  <2>4. QED
    BY <2>3 DEF Stream
<1>3. QED
  BY <1>1, <1>2

\* The stream after a step.
LEMMA ContentsAfter ==
  ASSUME NEW w, NEW r, OneWriter(w), OneReader(r), StreamInv(w, r)'
  PROVE  /\ Ahead(r)' \in Nat /\ used' \in Nat /\ fetched' \in Int
         /\ Contents' = Stream(fetched' - Ahead(r)', used' + Ahead(r)')
<1>1. OneReader(r)' /\ OneWriter(w)'
  BY DEF OneReader, OneWriter, Writers
<1>2. (StreamInv(w, r) => /\ Ahead(r) \in Nat /\ used \in Nat /\ fetched \in Int
                          /\ Contents = Stream(fetched - Ahead(r), used + Ahead(r)))'
  BY <1>1, ContentsAreStream, PTL
<1>3. QED
  BY <1>2 DEF Stream

\* Every step is a write, a read or a clear of the stream, or a stutter.
LEMMA StepIsAbstract ==
  ASSUME ~PartialDone, ~ClearRaces, NEW w, NEW r, OneWriter(w), OneReader(r),
         StreamInv(w, r), StreamInv(w, r)', [Next]_vars
  PROVE  [Abstract!Write \/ Abstract!Read \/ Abstract!Clear]_<<Contents, out>>
<1>0. w \in Contexts /\ r \in Contexts /\ w # r /\ r \notin Writers /\ w \notin Readers
  BY TwoContexts
<1>d. DOMAIN ctx = Contexts /\ ctx[r] \in ContextTypes
  BY <1>0 DEF StreamInv, SpaceInv
<1>t. /\ Ahead(r) \in Nat /\ used \in Nat /\ fetched \in Int
      /\ Contents = Stream(fetched - Ahead(r), used + Ahead(r))
  BY ContentsAreStream
<1>t2. /\ Ahead(r)' \in Nat /\ used' \in Nat /\ fetched' \in Int
       /\ Contents' = Stream(fetched' - Ahead(r)', used' + Ahead(r)')
  BY ContentsAfter
<1>i. \A c \in Contexts : c # w /\ c # r => At(c, "idle")
  BY DEF StreamInv, OthersIdle
\* Calls that start or end, and the steps of the writer before done.
<1>q. ASSUME UNCHANGED <<used, fetched, out>>, Ahead(r)' = Ahead(r)
      PROVE  UNCHANGED <<Contents, out>>
  BY <1>q, <1>t, <1>t2
<1>1. CASE ProducerRuns
  <2>1. UNCHANGED <<used, fetched, out>>
    BY <1>1 DEF ProducerRuns, ring, ghosts
  <2>2. ctx'[r] = ctx[r]
    BY <1>0, <1>1, <1>d DEF ProducerRuns, Call, Writers
  <2>3. QED
    BY <1>q, <2>1, <2>2 DEF Ahead, At
<1>2. CASE pr_fifo_clear
  <2>1. used' = 0 /\ out' = out /\ ctx' = ctx /\ reading = 0
    BY <1>2 DEF pr_fifo_clear
  <2>2. Ahead(r)' = 0
    BY <1>0, <2>1, RegionTypes DEF Ahead, At, StreamInv, Layout, Held, InFlight
  <2>3. Contents' = << >>
    BY <1>t2, <2>1, <2>2 DEF Stream
  <2>4. QED
    BY <2>1, <2>3 DEF Abstract!Clear
<1>3. ASSUME NEW c \in Writers, IrqWrites(c)
      PROVE  UNCHANGED <<Contents, out>>
  <2>1. UNCHANGED <<used, fetched, out>>
    BY <1>3 DEF IrqWrites, ring, ghosts
  <2>2. ctx'[r] = ctx[r]
    BY <1>0, <1>3, <1>d DEF IrqWrites, Call
  <2>3. QED
    BY <1>q, <2>1, <2>2 DEF Ahead, At
<1>4. ASSUME NEW c \in Writers, WritePrepare(c) \/ CopyIn(c) \/ NotifyConsumer(c)
      PROVE  UNCHANGED <<Contents, out>>
  <2>1. UNCHANGED <<used, fetched, out>>
    BY <1>4 DEF WritePrepare, CopyIn, NotifyConsumer, ring, ghosts
  <2>2. ctx'[r] = ctx[r]
    BY <1>0, <1>4, <1>d DEF WritePrepare, CopyIn, NotifyConsumer, Goto
  <2>3. QED
    BY <1>q, <2>1, <2>2 DEF Ahead, At
<1>5. ASSUME NEW c \in Writers, WriteDone(c)
      PROVE  Abstract!Write
  <2>1. c = w /\ InFlight(w)
    <3>1. At(c, "done") /\ c # r /\ c \in Contexts
      BY <1>0, <1>5 DEF WriteDone, Contexts
    <3>2. QED
      BY <1>i, <3>1 DEF At, InFlight
  <2>2. /\ used' = used + ctx[w].len /\ fetched' = fetched /\ out' = out
        /\ ctx[w].len \in Nat /\ ctx[w].len >= 1
    BY <1>0, <1>5, <2>1, RegionTypes DEF WriteDone, DoneSizes, StreamInv
  <2>3. Ahead(r)' = Ahead(r)
    BY <1>0, <1>5, <1>d, <2>1 DEF WriteDone, Goto, Ahead, At
  <2> DEFINE b == fetched - Ahead(r)
             m == used + Ahead(r)
             n == ctx[w].len
  <2>4. b \in Int /\ m \in Nat /\ n \in Nat /\ n >= 1 /\ used' + Ahead(r)' = m + n
    BY <1>t, <2>2, <2>3
  <2>5. Contents = Stream(b, m) /\ Contents' = Stream(b, m + n)
    BY <1>t, <1>t2, <2>2, <2>3, <2>4
  <2> HIDE DEF b, m, n
  <2>6. /\ Len(Contents) = m /\ Len(Contents') = m + n
        /\ SubSeq(Contents', 1, m) = Contents /\ SubSeq(Contents, 1, m) = Contents
    <3>1. m + 0 = m /\ 0 \in Nat /\ m + n \in Nat
      BY <2>4
    <3>2. Len(Stream(b, m)) = m /\ Len(Stream(b, m + n)) = m + n
      BY <2>4, <3>1, StreamParts
    <3>3. SubSeq(Stream(b, m + n), 1, m) = Stream(b, m)
      BY <2>4, StreamParts
    <3>4. SubSeq(Stream(b, m + 0), 1, m) = Stream(b, m)
      BY <2>4, <3>1, StreamParts
    <3>5. QED
      BY <2>5, <3>1, <3>2, <3>3, <3>4
  <2>7. m <= m + n /\ m # m + n /\ m + n <= Size
    <3>1. reading >= 0 /\ Ahead(r) <= reading
      BY <1>0, RegionTypes DEF StreamInv, Layout, Held, Ahead, At, InFlight
    <3>2. writing = n
      BY <2>1 DEF StreamInv, Layout, Held, n
    <3>3. m + n <= Size
      BY <1>t, <2>4, <3>1, <3>2, RingTypes DEF StreamInv, m
    <3>4. QED
      BY <2>4, <3>3
  <2>8. QED
    BY <2>2, <2>6, <2>7 DEF Abstract!Write, Abstract!IsStrictPrefix, Abstract!IsPrefix
<1>6. ASSUME NEW c \in Readers, ReadPrepare(c)
      PROVE  UNCHANGED <<Contents, out>>
  <2>1. c = r
    BY DEF OneReader
  <2> DEFINE granted == Least({Left(r), used, Size - rptr})
  <2>2. /\ used' = used - granted /\ fetched' = fetched + granted /\ out' = out
        /\ ctx' = [ctx EXCEPT ![r] =
             [@ EXCEPT !.pc = IF granted = 0 THEN "test" ELSE "copy",
                       !.off = rptr, !.len = granted, !.num = fetched]]
        /\ ~At(r, "copy")
    BY <1>6, <2>1 DEF ReadPrepare, At
  <2>3. granted \in Nat
    <3>1. Left(r) \in Nat
      BY <1>0, RegionTypes DEF Left, SpaceInv, CallsBounded, StreamInv
    <3>2. used \in Nat /\ Size - rptr \in Nat
      BY RingTypes DEF StreamInv
    <3>3. QED
      BY <3>1, <3>2, LeastOfThree
  <2> HIDE DEF granted
  <2>4. Ahead(r) = 0
    BY <2>2 DEF Ahead
  <2>5. ctx'[r].pc = (IF granted = 0 THEN "test" ELSE "copy") /\ ctx'[r].len = granted
    BY <1>0, <1>d, <2>2 DEF ContextTypes
  <2>6. Ahead(r)' = granted
    BY <2>5 DEF Ahead, At
  <2>7. fetched' - Ahead(r)' = fetched - Ahead(r) /\ used' + Ahead(r)' = used + Ahead(r)
    BY <1>t, <2>2, <2>3, <2>4, <2>6
  <2>8. QED
    BY <1>t, <1>t2, <2>2, <2>7
<1>7. ASSUME NEW c \in Readers, CopyOut(c)
      PROVE  Abstract!Read
  <2>1. c = r
    BY DEF OneReader
  <2>2. /\ used' = used /\ fetched' = fetched /\ out' = Region(r) /\ At(r, "copy")
        /\ ctx' = [ctx EXCEPT ![r].pc = "done"]
    BY <1>7, <2>1 DEF CopyOut, ring, ghosts, Goto
  <2>3. Ahead(r) = ctx[r].len /\ Ahead(r) >= 1 /\ Ahead(r)' = 0
    <3>1. ctx'[r].pc = "done"
      BY <1>0, <1>d, <2>2 DEF ContextTypes
    <3>2. QED
      BY <1>0, <2>2, <3>1, RegionTypes DEF Ahead, At, InFlight, StreamInv
  <2> DEFINE b == fetched - Ahead(r)
             m == Ahead(r)
  <2>4. b \in Int /\ m \in Nat /\ m >= 1 /\ b + m = fetched /\ used + m = m + used /\ used + 0 = used
        /\ fetched - 0 = fetched
    BY <1>t, <2>3
  <2>5. Contents = Stream(b, m + used) /\ Contents' = Stream(b + m, used) /\ out' = Stream(b, m)
    BY <1>t, <1>t2, <2>2, <2>3, <2>4, ContentsAreStream
  <2> HIDE DEF b, m
  <2>6. Len(Contents) = m + used /\ m + used \in Nat
    BY <1>t, <2>4, <2>5, StreamParts
  <2>7. out' = SubSeq(Contents, 1, m) /\ Contents' = SubSeq(Contents, m + 1, m + used)
    <3>1. /\ SubSeq(Stream(b, m + used), 1, m) = Stream(b, m)
          /\ SubSeq(Stream(b, m + used), m + 1, m + used) = Stream(b + m, used)
      BY <1>t, <2>4, StreamParts
    <3>2. QED
      BY <2>5, <3>1
  <2>8. Contents # << >> /\ m \in 1 .. Len(Contents)
    BY <1>t, <2>4, <2>6
  <2>9. QED
    BY <2>6, <2>7, <2>8 DEF Abstract!Read
<1>8. ASSUME NEW c \in Readers,
             ConsumerRuns(c) \/ ReadDone(c) \/ NotifyProducer(c) \/ ReadTest(c)
      PROVE  UNCHANGED <<Contents, out>>
  <2>1. c = r
    BY DEF OneReader
  <2>2. UNCHANGED <<used, fetched, out>>
    BY <1>8 DEF ConsumerRuns, ReadDone, NotifyProducer, ReadTest, ring, ghosts
  <2>3. ~At(r, "copy")
    BY <1>8, <2>1 DEF ConsumerRuns, ReadDone, NotifyProducer, ReadTest, At
  <2>4. ctx'[r].pc # "copy"
    <3>1. CASE ConsumerRuns(r)
      BY <1>0, <1>d, <3>1 DEF ConsumerRuns, Call, Idle
    <3>2. CASE ReadDone(r)
      BY <1>0, <1>d, <3>2 DEF ReadDone, Goto, ContextTypes
    <3>3. CASE NotifyProducer(r)
      BY <1>0, <1>d, <3>3 DEF NotifyProducer, ContextTypes
    <3>4. CASE ReadTest(r)
      <4>1. CASE Goto(r, "prepare")
        BY <1>0, <1>d, <4>1 DEF Goto, ContextTypes
      <4>2. CASE Call(r, ctx[r].size)
        BY <1>0, <1>d, <4>2 DEF Call, Idle
      <4>3. CASE ctx' = [ctx EXCEPT ![r] = Idle]
        BY <1>0, <1>d, <4>3 DEF Idle
      <4>4. QED
        BY <3>4, <4>1, <4>2, <4>3 DEF ReadTest
    <3>5. QED
      BY <1>8, <2>1, <3>1, <3>2, <3>3, <3>4
  <2>5. QED
    BY <1>q, <2>2, <2>3, <2>4 DEF Ahead, At
<1>9. CASE UNCHANGED vars
  BY <1>9, <1>q DEF vars, ring, ghosts, Ahead, At
<1>10. QED
  BY <1>1, <1>2, <1>3, <1>4, <1>5, <1>6, <1>7, <1>8, <1>9 DEF Next, WriteStep, ReadStep

\* With one writer and one reader, a ring of any size is a bounded stream of
\* bytes: each is read once, in the order of writing.
THEOREM FifoImplementsSpec ==
  ASSUME ~PartialDone, ~ClearRaces, NEW w, NEW r, OneWriter(w), OneReader(r)
  PROVE  Spec => ImplementsStream
<1>1. Init => StreamInv(w, r) /\ Abstract!Init
  <2>1. SUFFICES ASSUME Init
                 PROVE  StreamInv(w, r) /\ Abstract!Init
    OBVIOUS
  <2>2. StreamInv(w, r) /\ r \in Contexts
    BY <2>1, StreamInvInit, TwoContexts
  <2>3. used = 0 /\ Ahead(r) = 0 /\ out = << >>
    BY <2>1, <2>2 DEF Init, Ahead, At, Idle
  <2>4. Contents = << >>
    BY <2>2, <2>3, ContentsAreStream DEF Stream
  <2>5. QED
    BY <2>2, <2>3, <2>4 DEF Abstract!Init
<1>2. StreamInv(w, r) /\ [Next]_vars => StreamInv(w, r)'
  BY StreamInvInductive
<1>3. StreamInv(w, r) /\ StreamInv(w, r)' /\ [Next]_vars
        => [Abstract!Write \/ Abstract!Read \/ Abstract!Clear]_<<Contents, out>>
  BY StepIsAbstract
<1>4. QED
  BY <1>1, <1>2, <1>3, PTL DEF Spec, ImplementsStream, Abstract!Spec, Abstract!vars

----------------------------------------------------------------------------
(* Peek, for any number of writers and readers.                            *)

\* A peek is right in every state that accounts for its space.
LEMMA PeekInSpace == SpaceInv => PeekIsPrefix
<1> SUFFICES ASSUME SpaceInv, NEW size \in 0 .. Size
             PROVE  pr_fifo_peek(size) = SubSeq(Used, 1, Least({size, used}))
  BY DEF PeekIsPrefix
<1> DEFINE n == Least({used, size})
           s1 == Least({n, Size - rptr})
           peek == [i \in 1 .. n |-> IF i <= s1 THEN buffer[rptr + i - 1] ELSE buffer[i - s1 - 1]]
<1>1. /\ Size \in Nat /\ Size > 0 /\ used \in Nat /\ size \in Nat /\ size <= Size
      /\ rptr \in Nat /\ rptr < Size /\ Size - rptr \in Nat
  BY RingTypes
<1>2. n \in Nat /\ n <= used /\ n <= size
  <2>1. {used, size} = {used, size, size}
    OBVIOUS
  <2>2. QED
    BY <1>1, <2>1, LeastOfThree
<1> HIDE DEF n
<1>3. s1 \in {n, Size - rptr} /\ s1 <= n /\ s1 <= Size - rptr
  <2>1. {n, Size - rptr} = {n, Size - rptr, Size - rptr}
    OBVIOUS
  <2>2. QED
    BY <1>1, <1>2, <2>1, LeastOfThree
<1> HIDE DEF s1
\* The second part begins where the buffer does.
<1>4. ASSUME NEW i \in 1 .. n
      PROVE  peek[i] = buffer[Wrap(rptr + i - 1)]
  <2>1. i \in Nat /\ i >= 1 /\ i <= n
    BY <1>2
  <2>2. CASE i <= s1
    <3>1. Wrap(rptr + i - 1) = rptr + i - 1
      <4>1. i <= Size - rptr
        BY <1>1, <1>2, <1>3, <2>1, <2>2
      <4>2. QED
        BY <1>1, <2>1, <4>1 DEF Wrap
    <3>2. QED
      BY <2>2, <3>1
  <2>3. CASE ~(i <= s1)
    <3>1. s1 = Size - rptr
      BY <1>2, <1>3, <2>1, <2>3
    <3>2. Wrap(rptr + i - 1) = i - s1 - 1
      BY <1>1, <1>2, <2>1, <2>3, <3>1 DEF Wrap
    <3>3. QED
      BY <2>3, <3>2
  <2>4. QED
    BY <2>2, <2>3
<1>5. ASSUME NEW i \in 1 .. used
      PROVE  Used[i] = buffer[Wrap(rptr + i - 1)]
  BY DEF Used
<1> DEFINE S == {Used[i] : i \in 1 .. used}
<1>6. /\ SubSeq(Used, 1, n) \in Seq(S) /\ Len(SubSeq(Used, 1, n)) = n
      /\ \A i \in 1 .. n : SubSeq(Used, 1, n)[i] = Used[i]
  <2>1. \A i \in 1 .. n : Used[i] \in S
    BY <1>1, <1>2
  <2> HIDE DEF S
  <2>2. 1 \in Int /\ n \in Int /\ (IF 1 <= n THEN n - 1 + 1 ELSE 0) = n /\ n - 1 + 1 = n
        /\ \A i \in 1 .. n : 1 + i - 1 = i
    BY <1>2
  <2>3. QED
    BY <2>1, <2>2, SubSeqProperties
<1>7. \A i \in 1 .. n : peek[i] = Used[i] /\ Used[i] \in S
  BY <1>1, <1>2, <1>4, <1>5
<1>8. peek \in Seq(S) /\ Len(peek) = n
  <2>1. peek \in [1 .. n -> S]
    BY <1>7
  <2> HIDE DEF S, peek
  <2>2. QED
    BY <1>2, <2>1
<1> HIDE DEF peek, S
<1>9. peek = SubSeq(Used, 1, n)
  BY <1>6, <1>7, <1>8, SeqEqual
<1>10. pr_fifo_peek(size) = peek /\ Least({size, used}) = n
  <2>1. {size, used} = {used, size}
    OBVIOUS
  <2>2. QED
    BY <2>1 DEF pr_fifo_peek, peek, n, s1
<1>11. QED
  BY <1>9, <1>10

\* A peek of any size returns the next bytes of the stream, also across the end of
\* the buffer, whoever else transfers.
THEOREM PeekAlwaysPrefix ==
  ASSUME ~PartialDone, ~ClearRaces
  PROVE  Spec => []PeekIsPrefix
<1>1. Init => SpaceInv
  BY SpaceInvInit
<1>2. SpaceInv /\ [Next]_vars => SpaceInv'
  BY SpaceInvInductive
<1>3. SpaceInv => PeekIsPrefix
  BY PeekInSpace
<1>4. QED
  BY <1>1, <1>2, <1>3, PTL DEF Spec
=============================================================================
