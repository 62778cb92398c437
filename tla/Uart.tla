-------------------------------- MODULE Uart --------------------------------
(***************************************************************************)
(* The UART bridge of picore (src/uart): two tasks move bytes between the  *)
(* peripheral's hardware queues and two FIFOs, each through a buffer of    *)
(* one byte, and the interrupt that schedules them disables itself until   *)
(* one of them has run.                                                    *)
(*                                                                         *)
(* The tasks run in the main loop, which the interrupt preempts: each turn *)
(* of their loops is a step, and so is the call that enables interrupts.   *)
(***************************************************************************)
EXTENDS Integers, Scheduler

CONSTANTS
  FifoSize,   \* bytes of each FIFO
  HwSize,     \* bytes of each hardware queue
  TxTrigger,  \* level of the transmit queue that raises its interrupt
  MaxHeard,   \* bound: bytes that arrive on the line
  Unset       \* contents of txbuf that an uninitialised txbuf_busy may announce

VARIABLES
  hwrx, hwtx,    \* the peripheral's queues
  raised,        \* whether the transmit interrupt is raised
  enables,       \* the interrupts that are enabled
  rxbuf, txbuf,  \* the byte on its way, if rxbuf_free is 0, if txbuf_busy is 1
  heard,         \* bytes that have arrived so far; also the last one's value
  said,          \* bytes sent on the line
  up, down,      \* the FIFOs from_port and to_port
  sched,         \* the scheduler
  running        \* the handler that the main loop is in, or "enable" at its end, or "none"

hw == <<hwrx, hwtx, raised, enables>>
bufs == <<rxbuf, txbuf>>
line == <<heard, said>>
uart == <<hw, bufs, line>>
vars == <<uart, up, down, sched, running>>

Off == [rx |-> FALSE, tx |-> FALSE]
Room(fifo) == Len(fifo) < FifoSize

\* pr_uart_init and pr_uart_attach.
Init ==
  /\ hwrx = << >> /\ hwtx = << >>
  /\ raised = FALSE
  /\ enables = [rx |-> TRUE, tx |-> TRUE]
  /\ rxbuf = << >> /\ txbuf \in Unset
  /\ heard = 0 /\ said = << >>

Runs(t) ==
  /\ running = "none"
  /\ sched.pend # << >> /\ Head(sched.pend) = t
  /\ running' = t
  /\ sched' = [sched EXCEPT !.pend = Tail(@)]
  /\ UNCHANGED <<uart, up, down>>

----------------------------------------------------------------------------
(* on_from_port: from the hardware to the FIFO.                            *)

WriteFifo ==
  /\ running = "from_port"
  /\ rxbuf # << >> /\ Room(up)
  /\ up' = up \o rxbuf
  /\ rxbuf' = << >>
  /\ sched' = Exec(sched, "handler")
  /\ UNCHANGED <<hw, txbuf, line, down, running>>

uart_getc ==
  /\ running = "from_port"
  /\ rxbuf = << >> /\ hwrx # << >>
  /\ rxbuf' = <<Head(hwrx)>>
  /\ hwrx' = Tail(hwrx)
  /\ UNCHANGED <<hwtx, raised, enables, txbuf, line, up, down, sched, running>>

FromPortBreaks ==
  /\ running = "from_port"
  /\ IF rxbuf # << >> THEN ~Room(up) ELSE hwrx = << >>
  /\ running' = "enable"
  /\ UNCHANGED <<uart, up, down, sched>>

on_from_port == Runs("from_port") \/ WriteFifo \/ uart_getc \/ FromPortBreaks

----------------------------------------------------------------------------
(* on_to_port: from the FIFO to the hardware.                              *)

ReadFifo ==
  /\ running = "to_port"
  /\ txbuf = << >> /\ down # << >>
  /\ txbuf' = <<Head(down)>>
  /\ down' = Tail(down)
  /\ sched' = Exec(sched, "handler")
  /\ UNCHANGED <<hw, rxbuf, line, up, running>>

\* Mutant: txbuf_busy stays set.
uart_putc_stays_busy ==
  /\ running = "to_port"
  /\ txbuf # << >> /\ Len(hwtx) < HwSize
  /\ hwtx' = hwtx \o txbuf
  /\ raised' = (raised /\ Len(hwtx') <= TxTrigger)
  /\ UNCHANGED <<hwrx, enables, bufs, line, up, down, sched, running>>

uart_putc ==
  /\ running = "to_port"
  /\ txbuf # << >> /\ Len(hwtx) < HwSize
  /\ hwtx' = hwtx \o txbuf
  /\ raised' = (raised /\ Len(hwtx') <= TxTrigger)
  /\ txbuf' = << >>
  /\ UNCHANGED <<hwrx, enables, rxbuf, line, up, down, sched, running>>

ToPortBreaks ==
  /\ running = "to_port"
  /\ IF txbuf = << >> THEN down = << >> ELSE Len(hwtx) = HwSize
  /\ running' = "enable"
  /\ UNCHANGED <<uart, up, down, sched>>

on_to_port == Runs("to_port") \/ ReadFifo \/ uart_putc \/ ToPortBreaks

\* Mutant: only the receive interrupt is enabled again.
set_irq_enables_rx_only ==
  /\ running = "enable"
  /\ enables' = [rx |-> rxbuf = << >>, tx |-> FALSE]
  /\ running' = "none"
  /\ UNCHANGED <<hwrx, hwtx, raised, bufs, line, up, down, sched>>

\* The last call of both handlers, from the state of both buffers.
set_irq_enables ==
  /\ running = "enable"
  /\ enables' = [rx |-> rxbuf = << >>, tx |-> txbuf # << >>]
  /\ running' = "none"
  /\ UNCHANGED <<hwrx, hwtx, raised, bufs, line, up, down, sched>>

\* The interrupt, at any point of the main loop.
on_uart_io ==
  /\ (enables.rx /\ hwrx # << >>) \/ (enables.tx /\ raised)
  /\ sched' = ExecIf(hwrx # << >>, ExecIf(Len(hwtx) < HwSize, sched, "to_port"), "from_port")
  /\ enables' = Off
  /\ UNCHANGED <<hwrx, hwtx, raised, bufs, line, up, down, running>>

----------------------------------------------------------------------------
(* The line.                                                               *)

ByteArrives ==
  /\ heard < MaxHeard /\ Len(hwrx) < HwSize
  /\ heard' = heard + 1
  /\ hwrx' = Append(hwrx, heard')
  /\ UNCHANGED <<hwtx, raised, enables, bufs, said, up, down, sched, running>>

\* The interrupt is raised when the queue falls through its trigger level.
ByteLeaves ==
  /\ hwtx # << >>
  /\ said' = Append(said, Head(hwtx))
  /\ hwtx' = Tail(hwtx)
  /\ raised' = (raised \/ Len(hwtx') = TxTrigger)
  /\ UNCHANGED <<hwrx, enables, bufs, heard, up, down, sched, running>>

MainStep == on_from_port \/ on_to_port \/ set_irq_enables

Next == MainStep \/ on_uart_io \/ ByteArrives \/ ByteLeaves
=============================================================================
