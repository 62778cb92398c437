-------------------------------- MODULE MCFifo -------------------------------
(* Two FIFOs for TLC, one of which an application uses: that of Fifo's constants, and one *)
(* with several readers and a producer task beside interrupts.  They share no state.      *)
EXTENDS Fifo

CONSTANTS Readers2, Size2, Backlog2, Sizes2, MaxBytes2

VARIABLES
  use,                                                          \* "first" or "second"
  buffer2, wptr2, rptr2, free2, used2, writing2, reading2, reserved2, fetched2,
  ctx2, tasks2, backlog2, out2, clears2                         \* Fifo

\* Reads return at the end of the buffer, and nobody clears.
Second == INSTANCE Fifo WITH
  Readers <- Readers2, Size <- Size2, Backlog <- Backlog2, IrqSizes <- Sizes2,
  ReadSizes <- Sizes2, MaxBytes <- MaxBytes2, MaxClears <- 0, LoopTests <- {FALSE},
  buffer <- buffer2, wptr <- wptr2, rptr <- rptr2, free <- free2, used <- used2,
  writing <- writing2, reading <- reading2, reserved <- reserved2, fetched <- fetched2,
  ctx <- ctx2, tasks <- tasks2, backlog <- backlog2, out <- out2, clears <- clears2

second == <<buffer2, wptr2, rptr2, free2, used2, writing2, reading2, reserved2, fetched2,
            ctx2, tasks2, backlog2, out2, clears2>>

FifosInit == use \in {"first", "second"} /\ Init /\ Second!Init

FirstStep == use = "first" /\ Next /\ UNCHANGED <<use, second>>
SecondStep == use = "second" /\ Second!Next /\ UNCHANGED <<use, vars>>

\* The fairness of the second.
FifosSpec ==
  /\ FifosInit
  /\ [][FirstStep \/ SecondStep]_<<use, vars, second>>
  /\ WF_second(use = "second" /\ Second!ProducerRuns)
  /\ \A c \in Second!Writers : WF_second(use = "second" /\ Second!WriteStep(c))
  /\ \A c \in Readers2 : WF_second(use = "second" /\ Second!ReadStep(c))

\* With several readers and writers too, somebody comes back for the bytes that wait, and
\* the producer task does not sleep while there is room (fifo.c:139-143, 184-188).
SecondNobodyStranded == Second!NobodyStranded

\* Everything written is eventually read, and the backlog written (fifo.c, pr_fifo_read).
SecondDelivered == use = "second" => Second!AllDelivered
=============================================================================
