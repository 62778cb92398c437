-------------------------------- MODULE Cdc ---------------------------------
(***************************************************************************)
(* The USB serial interface of picore (src/cdc_interface): one task moves  *)
(* bytes between two FIFOs and the endpoints of the USB stack, watches     *)
(* whether the host has opened the port, and polls every 100 ms while it   *)
(* has.  The stack's callbacks run in the main loop, between tasks, as     *)
(* does the task itself: each is one step.                                 *)
(***************************************************************************)
EXTENDS Integers, Scheduler

CONSTANTS
  FifoSize,    \* bytes of each FIFO
  InSize,      \* bytes the stack holds for the host
  PacketSize,  \* bytes that the stack sends without being told to flush
  OutSize,     \* bytes the stack holds from the host
  MaxGiven,    \* bound: bytes the host sends
  MaxToggles   \* bound: times the host opens or closes the port

VARIABLES
  in, out,    \* bytes the stack holds for the host, and from it
  flushed,    \* how many of the bytes for the host may leave
  connected,  \* whether the host has the port open
  open,       \* intf->open
  events,     \* intf->events
  given,      \* bytes the host has sent so far; also the last one's value
  got,        \* bytes the host has received
  toggles,    \* times the host has opened or closed the port so far
  up, down,   \* the FIFOs to_usb and from_usb
  sched, running

stack == <<in, out, flushed, connected>>
host == <<given, got, toggles>>
cdc == <<stack, open, events, host>>
vars == <<cdc, up, down, sched, running>>

Events == {"RX", "TX", "OPEN", "LINE"}

Init ==
  /\ in = << >> /\ out = << >> /\ flushed = 0
  /\ connected \in BOOLEAN
  /\ open = FALSE /\ events = {}
  /\ given = 0 /\ got = << >> /\ toggles = 0

Least(m, n) == IF m <= n THEN m ELSE n

\* What a FIFO grants of a request for at most n bytes: it is cut where the
\* buffer ends, wherever that is.
Granted(n) == IF n = 0 THEN {0} ELSE 1 .. n

Raise(test, event) == IF test THEN {event} ELSE {}

----------------------------------------------------------------------------
(* The task, on a schedule s from which it has been removed.               *)

\* Mutant: the last bytes are not flushed.
to_usb_try_send_no_flush(s, n) ==
  LET after == ExecIf(n > 0, s, "from_port") IN
  IF Len(in) = InSize
  THEN <<Exec(s, "handler"), flushed>>
  ELSE <<IF n = Len(up) THEN after ELSE Exec(after, "handler"),
         IF Len(in) + n >= PacketSize THEN Len(in) + n ELSE flushed>>

\* n bytes move from to_usb to the stack; the task runs again until the FIFO
\* is empty, and then flushes.
to_usb_try_send(s, n) ==
  LET after == ExecIf(n > 0, s, "from_port") IN
  IF Len(in) = InSize
  THEN <<Exec(s, "handler"), flushed>>
  ELSE IF n = Len(up) THEN <<after, Len(in) + n>>
  ELSE <<Exec(after, "handler"), IF Len(in) + n >= PacketSize THEN Len(in) + n ELSE flushed>>

\* m bytes move from the stack to from_usb.
from_usb_try_recv(s, m) == ExecIf(m > 0, s, "to_port")

Sending == Granted(Least(Len(up), InSize - Len(in)))
Receiving == Granted(Least(Len(out), FifoSize - Len(down)))

handler_up(s) ==
  \E n \in Sending, m \in Receiving :
    LET sent == to_usb_try_send(s, n) IN
    /\ open' = TRUE
    /\ events' = events \cup Raise(~open, "OPEN") \cup Raise(n > 0, "TX") \cup Raise(m > 0, "RX")
    /\ in' = in \o SubSeq(up, 1, n) /\ up' = SubSeq(up, n + 1, Len(up))
    /\ down' = down \o SubSeq(out, 1, m) /\ out' = SubSeq(out, m + 1, Len(out))
    /\ flushed' = sent[2]
    /\ sched' = ExecIf(events' # {}, ExecIn(from_usb_try_recv(sent[1], m), "handler"), "on_event")

handler_down(s) ==
  /\ open' = FALSE
  /\ events' = events \cup Raise(open, "OPEN")
  /\ sched' = ExecIf(events' # {}, s, "on_event")
  /\ UNCHANGED <<in, out, flushed, up, down>>

First(t) == running = "none" /\ sched.pend # << >> /\ Head(sched.pend) = t
Rest == [sched EXCEPT !.pend = Tail(@)]

handler ==
  /\ First("handler")
  /\ IF connected THEN handler_up(Rest) ELSE handler_down(Rest)
  /\ UNCHANGED <<connected, host, running>>

\* The application's task: it looks at the events and clears them.
on_event ==
  /\ First("on_event")
  /\ events' = {}
  /\ sched' = Rest
  /\ UNCHANGED <<stack, open, host, up, down, running>>

TimeoutEnds ==
  /\ "handler" \in sched.timed
  /\ sched' = Exec(sched, "handler")
  /\ UNCHANGED <<cdc, up, down, running>>

----------------------------------------------------------------------------
(* The callbacks of the stack.                                             *)

tud_cdc_tx_complete_cb ==
  /\ running = "none"
  /\ connected /\ flushed > 0
  /\ got' = got \o SubSeq(in, 1, flushed)
  /\ in' = SubSeq(in, flushed + 1, Len(in))
  /\ flushed' = 0
  /\ sched' = Exec(sched, "handler")
  /\ UNCHANGED <<out, connected, open, events, given, toggles, up, down, running>>

tud_cdc_rx_cb ==
  /\ running = "none"
  /\ connected /\ given < MaxGiven /\ Len(out) < OutSize
  /\ given' = given + 1
  /\ out' = Append(out, given')
  /\ sched' = Exec(sched, "handler")
  /\ UNCHANGED <<in, flushed, connected, open, events, got, toggles, up, down, running>>

\* Opening or closing the port is reported to the application only.
tud_cdc_line_state_cb ==
  /\ running = "none"
  /\ toggles < MaxToggles
  /\ toggles' = toggles + 1
  /\ connected' = ~connected
  /\ events' = events \cup {"LINE"}
  /\ sched' = Exec(sched, "on_event")
  /\ UNCHANGED <<in, out, flushed, open, given, got, up, down, running>>

tud_cdc_line_coding_cb ==
  /\ running = "none"
  /\ connected
  /\ events' = events \cup {"LINE"}
  /\ sched' = Exec(sched, "on_event")
  /\ UNCHANGED <<stack, open, host, up, down, running>>

MainStep == handler \/ on_event

Next ==
  \/ MainStep
  \/ TimeoutEnds
  \/ tud_cdc_tx_complete_cb \/ tud_cdc_rx_cb
  \/ tud_cdc_line_state_cb \/ tud_cdc_line_coding_cb
=============================================================================
