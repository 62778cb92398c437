------------------------------- MODULE Bridge -------------------------------
(***************************************************************************)
(* A USB serial adapter: the UART and the USB interface in one main loop,  *)
(* joined by two FIFOs.  What a FIFO does is taken from FifoSpec: both of  *)
(* its sides are tasks of this loop, so a transfer is one step.            *)
(***************************************************************************)
EXTENDS Integers, Scheduler

CONSTANTS FifoSize,
          HwSize, TxTrigger, MaxHeard, Unset,
          InSize, PacketSize, OutSize, MaxGiven, MaxToggles

ASSUME BridgeAssumption ==
  /\ FifoSize \in Nat \ {0} /\ HwSize \in Nat \ {0}
  /\ TxTrigger \in 0 .. HwSize - 1
  /\ Unset \subseteq Seq(Nat) /\ Unset # {}
  /\ InSize \in Nat \ {0} /\ PacketSize \in 1 .. InSize
  /\ OutSize \in Nat \ {0}
  /\ MaxHeard \in Nat /\ MaxGiven \in Nat /\ MaxToggles \in Nat

VARIABLES up, down, sched, running,
          hwrx, hwtx, raised, enables, rxbuf, txbuf, heard, said,
          in, out, flushed, connected, open, events, given, got, toggles

Uart == INSTANCE Uart
Cdc == INSTANCE Cdc

\* What belongs to one of the two alone.
uart == <<hwrx, hwtx, raised, enables, rxbuf, txbuf, heard, said>>
cdc == <<in, out, flushed, connected, open, events, given, got, toggles>>
vars == <<up, down, sched, running, uart, cdc>>

Tasks == {"from_port", "to_port", "handler", "on_event"}

\* pr_cdc_interface_init schedules the handler.
Init ==
  /\ Uart!Init /\ Cdc!Init
  /\ up = << >> /\ down = << >>
  /\ sched = [pend |-> <<"handler">>, timed |-> {}]
  /\ running = "none"

Next ==
  \/ Uart!Next /\ UNCHANGED cdc
  \/ Cdc!Next /\ UNCHANGED uart

Spec == Init /\ [][Next]_vars

\* The main loop is one process and runs on, in whichever component it is.  An
\* interrupt that is enabled and raised is taken, the line takes what it is given,
\* timeouts end.  The task that calls the USB stack is always pending, so the host's
\* turn comes again and again, if not at every step.
MainLoop ==
  \/ Uart!MainStep /\ UNCHANGED cdc
  \/ Cdc!MainStep /\ UNCHANGED uart
Interrupt == Uart!on_uart_io /\ UNCHANGED cdc
ByteLeaves == Uart!ByteLeaves /\ UNCHANGED cdc
TimeoutEnds == Cdc!TimeoutEnds /\ UNCHANGED uart
HostTakes == Cdc!tud_cdc_tx_complete_cb /\ UNCHANGED uart

FairSpec ==
  /\ Spec
  /\ WF_vars(MainLoop) /\ WF_vars(Interrupt)
  /\ WF_vars(ByteLeaves) /\ WF_vars(TimeoutEnds)
  /\ SF_vars(HostTakes)

----------------------------------------------------------------------------
(* Properties.                                                             *)

\* Bytes cross the bridge in order, none lost or repeated, through a hardware
\* queue, a one-byte buffer, a FIFO and an endpoint, whatever the order in which
\* tasks, interrupts and callbacks run.
BytesInOrder ==
  /\ got \o in \o up \o rxbuf \o hwrx = [i \in 1 .. heard |-> i]
  /\ said \o hwtx \o txbuf \o down \o out = [i \in 1 .. given |-> i]

Coming(t) == Scheduled(sched, t) \/ running = t
\* A handler of the UART that runs will set the enables again.
Enabling == running \in {"from_port", "to_port", "enable"}
         \/ Scheduled(sched, "from_port") \/ Scheduled(sched, "to_port")

\* A byte that waits in the hardware, or for room in it, has an interrupt or a task
\* to come for it.
PortAttended ==
  /\ hwrx # << >> /\ rxbuf = << >> => enables.rx \/ Enabling
  /\ txbuf # << >> => enables.tx \/ Enabling

\* A byte that waits for room in a FIFO, or in a FIFO for the port, has a task
\* scheduled for it as soon as it can move.
FifosAttended ==
  /\ rxbuf # << >> /\ Len(up) < FifoSize => Coming("from_port")
  /\ txbuf = << >> /\ down # << >> => Coming("to_port")

\* The task of an interface that has noticed that the port is open is to run again,
\* at once if there are bytes to send.
InterfaceAttended ==
  open => \/ Scheduled(sched, "handler")
          \/ "handler" \in sched.timed /\ (connected => up = << >>)

\* No byte is left with nobody to come for it, although the interrupt of the UART
\* disables both directions and each of its tasks enables both, and the USB task
\* polls only while it has seen the port open.
Attended == PortAttended /\ FifosAttended /\ InterfaceAttended

\* If the port stays open, and the interface has noticed, then all that the line
\* and the host have sent arrives at the other end.
AllDelivered ==
  <>[](connected /\ open) => <>[](Len(got) = heard /\ Len(said) = given)

\* The interface notices that the host has opened the port, and reports it.
OpenNoticed == connected ~> open \/ ~connected
=============================================================================
