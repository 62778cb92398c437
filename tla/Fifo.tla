-------------------------------- MODULE Fifo --------------------------------
(***************************************************************************)
(* The byte FIFO of picore (src/fifo).  A transfer is three steps: prepare *)
(* reserves a contiguous region under the lock, the region is copied with  *)
(* no lock, done gives it to the other side under the lock; the task on    *)
(* the other side is scheduled after that.  pr_fifo_write and pr_fifo_read *)
(* repeat these steps; a zero-copy user does them once.                    *)
(*                                                                         *)
(* Bytes are numbered in the order in which their place in the ring is     *)
(* reserved, so that the data read shows which bytes it is.                *)
(***************************************************************************)
EXTENDS Integers, Sequences

CONSTANTS
  Size,             \* bytes the ring holds
  Producer,         \* the producer task, woken when bytes have been read
  Irqs,             \* interrupts that write too; what does not fit they drop
  Readers,          \* consumer contexts, woken when bytes have been written
  Backlog,          \* bytes the producer task has to write
  IrqSizes,         \* sizes of the writes of interrupts
  ReadSizes,        \* sizes of the reads
  MaxBytes,         \* bound: bytes ever reserved
  MaxClears,        \* bound: calls of pr_fifo_clear
  ClearRaces,       \* TRUE: pr_fifo_clear may be called during a transfer
  PartialDone,      \* TRUE: done may be given fewer bytes than prepare granted
  LoopTests,        \* outcomes of pr_fifo_read's test of an uninitialised variable
  ReadsUntilEmpty   \* TRUE: the consumer's handler reads until it gets nothing

Writers == Irqs \cup {Producer}
Contexts == Writers \cup Readers
Slots == 0 .. Size - 1
NoTask == "none"

ASSUME FifoAssumption ==
  /\ Size \in Nat \ {0}
  /\ Producer \notin Irqs
  /\ Writers \cap Readers = {}
  /\ Backlog \in Nat /\ MaxBytes \in Nat /\ MaxClears \in Nat
  /\ IrqSizes \subseteq Nat \ {0} /\ ReadSizes \subseteq Nat \ {0}
  /\ ClearRaces \in BOOLEAN /\ PartialDone \in BOOLEAN /\ ReadsUntilEmpty \in BOOLEAN
  /\ LoopTests \subseteq BOOLEAN /\ LoopTests # {}

VARIABLES
  buffer, wptr, rptr, free, used,  \* struct pr_fifo; a slot holds a byte's number
  writing,   \* bytes reserved by write_prepare and not yet given to write_done
  reading,   \* bytes reserved by read_prepare and not yet given to read_done
  ctx,       \* where each context is, and its locals
  tasks,     \* tasks pending in the scheduler
  backlog,   \* bytes the producer task has still to write
  reserved,  \* bytes reserved by writers so far
  fetched,   \* bytes reserved by readers (or cleared) so far
  out,       \* the last chunk a reader copied
  clears     \* calls of pr_fifo_clear so far

ring == <<buffer, wptr, rptr, free, used>>
ghosts == <<writing, reading, reserved, fetched>>
vars == <<ring, ghosts, ctx, tasks, backlog, out, clears>>

\* size and done are the locals of pr_fifo_write and pr_fifo_read; off and len
\* the reserved region; num the number of the byte before the region's first.
Idle == [pc |-> "idle", size |-> 0, done |-> 0, off |-> 0, len |-> 0, num |-> 0]

Init ==
  /\ buffer = [s \in Slots |-> 0]
  /\ wptr = 0 /\ rptr = 0
  /\ free = Size /\ used = 0
  /\ writing = 0 /\ reading = 0
  /\ ctx = [c \in Contexts |-> Idle]
  /\ tasks = {"producer"}
  /\ backlog = Backlog
  /\ reserved = 0 /\ fetched = 0
  /\ out = << >>
  /\ clears = 0

Least(S) == CHOOSE n \in S : \A m \in S : n <= m
Wrap(i) == IF i >= Size THEN i - Size ELSE i
At(c, l) == ctx[c].pc = l
Call(c, n) == ctx' = [ctx EXCEPT ![c] = [Idle EXCEPT !.pc = "prepare", !.size = n]]
Goto(c, l) == ctx' = [ctx EXCEPT ![c].pc = l]
Left(c) == ctx[c].size - ctx[c].done

----------------------------------------------------------------------------
(* Writing.                                                                *)

\* Mutant: the bytes count as used before they have been copied.
WritePrepare_publishes(c) ==
  /\ c \in Writers /\ At(c, "prepare")
  /\ LET granted == Least({Left(c), free, Size - wptr}) IN
     /\ free' = free - granted
     /\ used' = used + granted
     /\ wptr' = IF wptr + granted = Size THEN 0 ELSE wptr + granted
     /\ writing' = writing + granted
     /\ reserved' = reserved + granted
     /\ ctx' = [ctx EXCEPT ![c] = IF granted = 0 THEN Idle
                ELSE [@ EXCEPT !.pc = "copy", !.off = wptr, !.len = granted, !.num = reserved]]
  /\ UNCHANGED <<buffer, rptr, reading, fetched, tasks, backlog, out, clears>>

\* The region pr_fifo_write_prepare grants ends at the end of the buffer.
WritePrepare(c) ==
  /\ c \in Writers /\ At(c, "prepare")
  /\ LET granted == Least({Left(c), free, Size - wptr}) IN
     /\ free' = free - granted
     /\ wptr' = IF wptr + granted = Size THEN 0 ELSE wptr + granted
     /\ writing' = writing + granted
     /\ reserved' = reserved + granted
     /\ ctx' = [ctx EXCEPT ![c] = IF granted = 0 THEN Idle
                ELSE [@ EXCEPT !.pc = "copy", !.off = wptr, !.len = granted, !.num = reserved]]
  /\ UNCHANGED <<buffer, rptr, used, reading, fetched, tasks, backlog, out, clears>>

CopyIn(c) ==
  /\ c \in Writers /\ At(c, "copy")
  /\ buffer' = [s \in Slots |->
       IF s \in ctx[c].off .. ctx[c].off + ctx[c].len - 1
       THEN ctx[c].num + (s - ctx[c].off) + 1 ELSE buffer[s]]
  /\ Goto(c, "done")
  /\ UNCHANGED <<wptr, rptr, free, used, ghosts, tasks, backlog, out, clears>>

\* How many bytes of a region its user hands to done.
DoneSizes(c) == IF PartialDone THEN 1 .. ctx[c].len ELSE {ctx[c].len}

\* Mutant: used is set to what has just been written.
WriteDone_assigns(c) ==
  /\ c \in Writers /\ At(c, "done")
  /\ \E n \in DoneSizes(c) : used' = n
  /\ writing' = writing - ctx[c].len
  /\ backlog' = IF c = Producer THEN backlog - ctx[c].len ELSE backlog
  /\ Goto(c, "notify")
  /\ UNCHANGED <<buffer, wptr, rptr, free, reading, reserved, fetched, tasks, out, clears>>

WriteDone(c) ==
  /\ c \in Writers /\ At(c, "done")
  /\ \E n \in DoneSizes(c) : used' = used + n
  /\ writing' = writing - ctx[c].len
  /\ backlog' = IF c = Producer THEN backlog - ctx[c].len ELSE backlog
  /\ Goto(c, "notify")
  /\ UNCHANGED <<buffer, wptr, rptr, free, reading, reserved, fetched, tasks, out, clears>>

\* Mutant: the consumer is scheduled only if nothing else is pending.
NotifyConsumer_if_quiet(c) ==
  /\ c \in Writers /\ At(c, "notify")
  /\ tasks' = IF tasks = {} THEN {"consumer"} ELSE tasks
  /\ \/ ctx' = [ctx EXCEPT ![c].pc = "prepare", ![c].done = @ + ctx[c].len]
     \/ c # Producer /\ ctx' = [ctx EXCEPT ![c] = Idle]
  /\ UNCHANGED <<ring, ghosts, backlog, out, clears>>

\* The consumer is scheduled; pr_fifo_write goes round its loop, a zero-copy
\* user has finished.
NotifyConsumer(c) ==
  /\ c \in Writers /\ At(c, "notify")
  /\ tasks' = tasks \cup {"consumer"}
  /\ \/ ctx' = [ctx EXCEPT ![c].pc = "prepare", ![c].done = @ + ctx[c].len]
     \/ c # Producer /\ ctx' = [ctx EXCEPT ![c] = Idle]
  /\ UNCHANGED <<ring, ghosts, backlog, out, clears>>

\* The producer task, each time it runs, writes all it still has to write.
ProducerRuns ==
  /\ At(Producer, "idle")
  /\ "producer" \in tasks
  /\ tasks' = tasks \ {"producer"}
  /\ IF backlog > 0 THEN Call(Producer, backlog) ELSE UNCHANGED ctx
  /\ UNCHANGED <<ring, ghosts, backlog, out, clears>>

IrqWrites(c) ==
  /\ c \in Irqs /\ At(c, "idle")
  /\ \E n \in IrqSizes :
       /\ reserved + backlog + n <= MaxBytes
       /\ Call(c, n)
  /\ UNCHANGED <<ring, ghosts, tasks, backlog, out, clears>>

----------------------------------------------------------------------------
(* Reading.                                                                *)

ConsumerRuns(c) ==
  /\ c \in Readers /\ At(c, "idle")
  /\ "consumer" \in tasks
  /\ tasks' = tasks \ {"consumer"}
  /\ \E n \in ReadSizes : Call(c, n)
  /\ UNCHANGED <<ring, ghosts, backlog, out, clears>>

\* Mutant: the space is free for writers before it has been read.
ReadPrepare_frees(c) ==
  /\ c \in Readers /\ At(c, "prepare")
  /\ LET granted == Least({Left(c), used, Size - rptr}) IN
     /\ used' = used - granted
     /\ free' = free + granted
     /\ rptr' = IF rptr + granted = Size THEN 0 ELSE rptr + granted
     /\ reading' = reading + granted
     /\ fetched' = fetched + granted
     /\ ctx' = [ctx EXCEPT ![c] =
                  [@ EXCEPT !.pc = IF granted = 0 THEN "test" ELSE "copy",
                            !.off = rptr, !.len = granted, !.num = fetched]]
  /\ UNCHANGED <<buffer, wptr, writing, reserved, tasks, backlog, out, clears>>

\* The bytes leave the used count here, not when they have been read.
ReadPrepare(c) ==
  /\ c \in Readers /\ At(c, "prepare")
  /\ LET granted == Least({Left(c), used, Size - rptr}) IN
     /\ used' = used - granted
     /\ rptr' = IF rptr + granted = Size THEN 0 ELSE rptr + granted
     /\ reading' = reading + granted
     /\ fetched' = fetched + granted
     /\ ctx' = [ctx EXCEPT ![c] =
                  [@ EXCEPT !.pc = IF granted = 0 THEN "test" ELSE "copy",
                            !.off = rptr, !.len = granted, !.num = fetched]]
  /\ UNCHANGED <<buffer, wptr, free, writing, reserved, tasks, backlog, out, clears>>

Region(c) == [i \in 1 .. ctx[c].len |-> buffer[ctx[c].off + i - 1]]

CopyOut(c) ==
  /\ c \in Readers /\ At(c, "copy")
  /\ out' = Region(c)
  /\ Goto(c, "done")
  /\ UNCHANGED <<ring, ghosts, tasks, backlog, clears>>

ReadDone(c) ==
  /\ c \in Readers /\ At(c, "done")
  /\ \E n \in DoneSizes(c) : free' = free + n
  /\ reading' = reading - ctx[c].len
  /\ Goto(c, "notify")
  /\ UNCHANGED <<buffer, wptr, rptr, used, writing, reserved, fetched, tasks, backlog, out, clears>>

\* Mutant: the producer is not scheduled.
NotifyProducer_silent(c) ==
  /\ c \in Readers /\ At(c, "notify")
  /\ ctx' = [ctx EXCEPT ![c].pc = "test", ![c].done = @ + ctx[c].len]
  /\ UNCHANGED <<ring, ghosts, tasks, backlog, out, clears>>

NotifyProducer(c) ==
  /\ c \in Readers /\ At(c, "notify")
  /\ tasks' = tasks \cup {"producer"}
  /\ ctx' = [ctx EXCEPT ![c].pc = "test", ![c].done = @ + ctx[c].len]
  /\ UNCHANGED <<ring, ghosts, backlog, out, clears>>

\* The loop of pr_fifo_read ends on a variable nothing has assigned: the one its
\* body assigns is another, of the same name.  When the call returns, a handler
\* that reads until the FIFO is empty calls again if it got anything.
ReadTest(c) ==
  /\ c \in Readers /\ At(c, "test")
  /\ \/ TRUE \in LoopTests /\ Goto(c, "prepare")
     \/ FALSE \in LoopTests
        /\ IF ReadsUntilEmpty /\ ctx[c].done > 0 THEN Call(c, ctx[c].size)
           ELSE ctx' = [ctx EXCEPT ![c] = Idle]
  /\ UNCHANGED <<ring, ghosts, tasks, backlog, out, clears>>

\* Mutant: the second part of the data is taken one byte too far.
pr_fifo_peek_off_by_one(size) ==
  LET n  == Least({used, size})
      s1 == Least({n, Size - rptr})
  IN  [i \in 1 .. n |-> IF i <= s1 THEN buffer[rptr + i - 1] ELSE buffer[i - s1]]

\* pr_fifo_peek: one section under the lock, in two parts when the data wraps.
pr_fifo_peek(size) ==
  LET n  == Least({used, size})
      s1 == Least({n, Size - rptr})
  IN  [i \in 1 .. n |-> IF i <= s1 THEN buffer[rptr + i - 1] ELSE buffer[i - s1 - 1]]

\* Mutant: the write pointer stays where it is.
pr_fifo_clear_keeps_wptr ==
  /\ clears < MaxClears
  /\ clears' = clears + 1
  /\ ClearRaces \/ (writing = 0 /\ reading = 0)
  /\ used' = 0 /\ free' = Size
  /\ rptr' = 0
  /\ fetched' = reserved
  /\ UNCHANGED <<buffer, wptr, writing, reading, reserved, ctx, tasks, backlog, out>>

pr_fifo_clear ==
  /\ clears < MaxClears
  /\ clears' = clears + 1
  /\ ClearRaces \/ (writing = 0 /\ reading = 0)
  /\ used' = 0 /\ free' = Size
  /\ rptr' = 0 /\ wptr' = 0
  /\ fetched' = reserved
  /\ UNCHANGED <<buffer, writing, reading, reserved, ctx, tasks, backlog, out>>

----------------------------------------------------------------------------
WriteStep(c) == WritePrepare(c) \/ CopyIn(c) \/ WriteDone(c) \/ NotifyConsumer(c)
ReadStep(c) ==
  ConsumerRuns(c) \/ ReadPrepare(c) \/ CopyOut(c) \/ ReadDone(c) \/ NotifyProducer(c) \/ ReadTest(c)

Next ==
  \/ ProducerRuns
  \/ pr_fifo_clear
  \/ \E c \in Writers : WriteStep(c) \/ IrqWrites(c)
  \/ \E c \in Readers : ReadStep(c)

Spec == Init /\ [][Next]_vars

\* Pending tasks are run, handlers and started interrupts run on.
Fairness ==
  /\ WF_vars(ProducerRuns)
  /\ \A c \in Writers : WF_vars(WriteStep(c))
  /\ \A c \in Readers : WF_vars(ReadStep(c))

FairSpec == Spec /\ Fairness

----------------------------------------------------------------------------
(* Properties.                                                             *)

Locations == {"idle", "prepare", "copy", "done", "notify", "test"}

\* Every variable holds a value of its type; the pointers and counters of the ring
\* stay in their range while several transfers are in progress.
TypeOK ==
  /\ buffer \in [Slots -> Nat]
  /\ wptr \in Slots /\ rptr \in Slots
  /\ free \in 0 .. Size /\ used \in 0 .. Size
  /\ writing \in 0 .. Size /\ reading \in 0 .. Size
  /\ ctx \in [Contexts -> [pc : Locations, size : Nat, done : Nat,
                           off : Slots, len : 0 .. Size, num : Nat]]
  /\ tasks \subseteq {"consumer", "producer"}
  /\ backlog \in Nat /\ reserved \in Nat /\ fetched \in Nat /\ clears \in Nat
  /\ out \in Seq(Nat)

\* Every byte of the ring is free, used, or reserved by exactly one transfer in
\* progress: prepare and done, called by contexts that interleave, never lose
\* or invent space ("Thread-safe operations", fifo.h:15).
SpaceConserved == used + free + writing + reading = Size

InFlight(c) == ctx[c].pc \in {"copy", "done"}
RegionSlots(c) == {ctx[c].off + i : i \in 0 .. ctx[c].len - 1}
UsedSlots == {Wrap(rptr + i) : i \in 0 .. used - 1}

\* No two contexts access one byte of the buffer at a time without the lock, and
\* nobody writes a byte that is waiting to be read.
RegionsDisjoint ==
  /\ \A c, d \in Contexts : c # d /\ InFlight(c) /\ InFlight(d) => RegionSlots(c) \cap RegionSlots(d) = {}
  /\ \A c \in Contexts : InFlight(c) => RegionSlots(c) \cap UsedSlots = {}

\* The bytes waiting to be read are the next ones of the stream, in order ("Ring
\* buffer for byte streams", "Thread-safe operations", fifo.h:12-15).
Used == [i \in 1 .. used |-> buffer[Wrap(rptr + i - 1)]]
StreamInOrder == Used = [i \in 1 .. used |-> fetched + i]

\* A peek of any size returns the next bytes of the stream, also across the end
\* of the buffer.
PeekIsPrefix == \A n \in 0 .. Size : pr_fifo_peek(n) = SubSeq(Used, 1, Least({n, used}))

\* The stream as FifoSpec sees it: what a reader has reserved but not copied yet
\* comes before what is waiting.
Uncopied == {c \in Readers : At(c, "copy")}
Contents == IF Uncopied = {} THEN Used ELSE Region(CHOOSE c \in Uncopied : TRUE) \o Used

Abstract == INSTANCE FifoSpec WITH contents <- Contents

\* Bytes are read once, in the order in which they were written.
ImplementsStream == Abstract!Spec

Scheduled(t) ==
  \/ t \in tasks
  \/ t = "consumer" /\ \E c \in Writers : At(c, "notify")
  \/ t = "producer" /\ \E c \in Readers : At(c, "notify")

\* Somebody comes back for the bytes that wait to be read.
NoStrandedData ==
  used > 0 => Scheduled("consumer") \/ \E c \in Readers : ~At(c, "idle")

\* The producer task does not sleep on bytes to write while there is room.
NoStrandedProducer ==
  (backlog > 0 /\ free > 0) => Scheduled("producer") \/ ~At(Producer, "idle")

\* Consumers that read until they get nothing never leave bytes behind, nor does the
\* producer task sleep on its own while there is room, with nobody to come back:
\* a notification that is sent after the lock is released is not lost.
NobodyStranded == NoStrandedData /\ NoStrandedProducer

\* Everything written is eventually read, and the backlog written.
AllDelivered == <>[](backlog = 0 /\ used = 0 /\ writing = 0 /\ reading = 0)

\* pr_fifo_read does not give up on bytes that wait: where it returns fewer than
\* requested and data is left, its last attempt to get more has found none.
ReadReturns(c) == At(c, "test") /\ ctx[c].done > 0 /\ ctx'[c].done = 0
ShortReadMeansEmpty ==
  [][\A c \in Readers :
       ReadReturns(c) /\ Left(c) > 0 /\ used > 0 => ctx[c].len = 0]_vars
=============================================================================
