------------------------------ MODULE PixelLed -------------------------------
(***************************************************************************)
(* Addressable LED strips (src/pixel_led): a task starts a refresh, the    *)
(* interrupt of the PIO moves pixels to the transmit queue while it has    *)
(* room and a word of zeroes after them, and a second task, after a delay, *)
(* ends the refresh and starts another one if there is something new.      *)
(*                                                                         *)
(* The interrupt preempts the main loop between two of its steps.  A LED   *)
(* keeps the first word that it gets after a pause and hands the others    *)
(* on; the delay of 50 us is shorter than the time that a full queue takes *)
(* to leave, so the end of a refresh may come before that of the frame.    *)
(***************************************************************************)
EXTENDS Integers, Sequences, SequencesExt, FiniteSetsExt, Scheduler

CONSTANTS
  Strips,    \* the strips of one PIO
  Count,     \* LEDs of a strip
  Depth,     \* words of a joined transmit queue: 8
  MaxCalls   \* bound: calls of the application

StripsAssumption == Count \in Nat \ {0} /\ Depth \in Nat \ {0} /\ MaxCalls \in Nat

VARIABLES
  pixel_data,  \* the colours: the number of the call that set them
  pixel_offset,      \* pixels moved to the queue
  refreshing, dirty,
  source,      \* strips whose interrupt source is enabled
  txfifo,      \* the transmit queues
  line,        \* words sent since the last pause
  shown,       \* what the LEDs show
  tasks,       \* the scheduler
  doing,       \* where the main loop is: what it does and the strip, or Idle
  calls,       \* calls of the application so far
  hurried      \* strips that the application did not leave alone during a refresh

strip == <<pixel_data, pixel_offset, refreshing, dirty, source>>
wire == <<txfifo, line, shown>>
vars == <<strip, wire, tasks, doing, calls, hurried>>

Pixels == 1 .. Count
Idle == [does |-> "nothing"]
Task(name, s) == [name |-> name, strip |-> s]
Main(does, s) == [does |-> does, strip |-> s]

\* pr_pixel_led_strip_init of every strip.
Init ==
  /\ pixel_data = [s \in Strips |-> [p \in Pixels |-> 0]]
  /\ pixel_offset = [s \in Strips |-> 0]
  /\ refreshing = [s \in Strips |-> FALSE]
  /\ dirty = [s \in Strips |-> FALSE]
  /\ source = {}
  /\ txfifo = [s \in Strips |-> << >>]
  /\ line = [s \in Strips |-> << >>]
  /\ shown = [s \in Strips |-> [p \in Pixels |-> 0]]
  /\ tasks = [pend |-> SetToSeq({Task("refresh", s) : s \in Strips}), timed |-> {}]
  /\ doing = Idle
  /\ calls = 0
  /\ hurried = {}

----------------------------------------------------------------------------
(* The interrupt.                                                          *)

Word(p, colour) == [pixel |-> p, colour |-> colour]
Zero == Word(Count + 1, 0)

Room(s) == Depth - Len(txfifo[s])
Moved(s) == Min({Room(s), Count - pixel_offset[s]})
\* There is room for a word after the last pixel.
Done(s) == Moved(s) < Room(s)

Filled(s) ==
  txfifo[s]
    \o [i \in 1 .. Moved(s) |-> Word(pixel_offset[s] + i, pixel_data[s][pixel_offset[s] + i])]
    \o (IF Done(s) THEN <<Zero>> ELSE << >>)

\* Every strip of the PIO is served, whichever source is raised.
on_pio_irq ==
  /\ \E s \in source : Room(s) > 0
  /\ txfifo' = [s \in Strips |-> Filled(s)]
  /\ pixel_offset' = [s \in Strips |-> pixel_offset[s] + Moved(s)]
  /\ source' = {s \in Strips : ~Done(s)}
  /\ tasks' = FoldSet(LAMBDA s, ts : ExecIn(ts, Task("done", s)), tasks,
                      {s \in Strips : Done(s)})
  /\ UNCHANGED <<pixel_data, refreshing, dirty, line, shown, doing, calls, hurried>>

----------------------------------------------------------------------------
(* The two tasks.                                                          *)

Runs(t) ==
  /\ doing = Idle
  /\ tasks.pend # << >> /\ Head(tasks.pend) = t

\* Mutant: the offset stays where the last refresh left it.
on_refresh_no_rewind(s) ==
  /\ Runs(Task("refresh", s))
  /\ tasks' = [tasks EXCEPT !.pend = Tail(@)]
  /\ refreshing' = [refreshing EXCEPT ![s] = TRUE]
  /\ dirty' = [dirty EXCEPT ![s] = @ /\ refreshing[s]]
  /\ doing' = IF refreshing[s] THEN Idle ELSE Main("enable", s)
  /\ UNCHANGED <<pixel_data, pixel_offset, source, wire, calls, hurried>>

on_refresh(s) ==
  /\ Runs(Task("refresh", s))
  /\ tasks' = [tasks EXCEPT !.pend = Tail(@)]
  /\ IF refreshing[s] THEN UNCHANGED <<pixel_offset, refreshing, dirty, doing>>
     ELSE /\ refreshing' = [refreshing EXCEPT ![s] = TRUE]
          /\ dirty' = [dirty EXCEPT ![s] = FALSE]
          /\ pixel_offset' = [pixel_offset EXCEPT ![s] = 0]
          /\ doing' = Main("enable", s)
  /\ UNCHANGED <<pixel_data, source, wire, calls, hurried>>

\* The end of on_refresh.
EnableSource(s) ==
  /\ doing = Main("enable", s)
  /\ source' = source \cup {s}
  /\ doing' = Idle
  /\ UNCHANGED <<pixel_data, pixel_offset, refreshing, dirty, wire, tasks, calls, hurried>>

\* Mutant: what is dirty is forgotten.
on_done_forgets(s) ==
  /\ Runs(Task("done", s))
  /\ refreshing' = [refreshing EXCEPT ![s] = FALSE]
  /\ tasks' = [tasks EXCEPT !.pend = Tail(@)]
  /\ UNCHANGED <<pixel_data, pixel_offset, dirty, source, wire, doing, calls, hurried>>

on_done(s) ==
  /\ Runs(Task("done", s))
  /\ refreshing' = [refreshing EXCEPT ![s] = FALSE]
  /\ tasks' = ExecIf(dirty[s], [tasks EXCEPT !.pend = Tail(@)], Task("refresh", s))
  /\ UNCHANGED <<pixel_data, pixel_offset, dirty, source, wire, doing, calls, hurried>>

----------------------------------------------------------------------------
(* The application, in the main loop.                                      *)

\* Nothing of the strip is on its way.
Quiet(s) == ~refreshing[s] /\ txfifo[s] = << >> /\ line[s] = << >>
Hurried(s) == hurried' = IF Quiet(s) THEN hurried ELSE hurried \cup {s}

\* A call of pr_pixel_led_set_many, or pr_pixel_led_set, sets pixels from first to
\* last.
pr_pixel_led_set_many(s, first, last) ==
  /\ doing = Idle /\ calls < MaxCalls
  /\ doing' = [does |-> "set", strip |-> s, next |-> first, last |-> last]
  /\ calls' = calls + 1
  /\ UNCHANGED <<strip, wire, tasks, hurried>>

pr_pixel_led_set_norefresh ==
  /\ doing.does = "set" /\ doing.next <= doing.last
  /\ dirty' = [dirty EXCEPT ![doing.strip] = TRUE]
  /\ pixel_data' = [pixel_data EXCEPT ![doing.strip][doing.next] = calls]
  /\ doing' = [doing EXCEPT !.next = @ + 1]
  /\ Hurried(doing.strip)
  /\ UNCHANGED <<pixel_offset, refreshing, source, wire, tasks, calls>>

\* The end of pr_pixel_led_set_many.
SetEnds ==
  /\ doing.does = "set" /\ doing.next > doing.last
  /\ tasks' = Exec(tasks, Task("refresh", doing.strip))
  /\ doing' = Idle
  /\ Hurried(doing.strip)
  /\ UNCHANGED <<strip, wire, calls>>

pr_pixel_led_refresh(s) ==
  /\ doing = Idle /\ calls < MaxCalls
  /\ tasks' = Exec(tasks, Task("refresh", s))
  /\ calls' = calls + 1
  /\ Hurried(s)
  /\ UNCHANGED <<strip, wire, doing>>

----------------------------------------------------------------------------
(* The world.                                                              *)

WordLeaves(s) ==
  /\ txfifo[s] # << >>
  /\ line' = [line EXCEPT ![s] = Append(@, Head(txfifo[s]))]
  /\ txfifo' = [txfifo EXCEPT ![s] = Tail(@)]
  /\ UNCHANGED <<strip, shown, tasks, doing, calls, hurried>>

\* A pause on the line.  An interrupt is served before one can be.
Pause(s) ==
  /\ txfifo[s] = << >> /\ line[s] # << >> /\ s \notin source
  /\ shown' = [shown EXCEPT ![s] =
                 [p \in Pixels |-> IF p <= Len(line[s]) THEN line[s][p].colour ELSE @[p]]]
  /\ line' = [line EXCEPT ![s] = << >>]
  /\ UNCHANGED <<strip, txfifo, tasks, doing, calls, hurried>>

Timeout ==
  /\ \E t \in tasks.timed : tasks' = Exec(tasks, t)
  /\ UNCHANGED <<strip, wire, doing, calls, hurried>>

MainLoop ==
  \/ \E s \in Strips : on_refresh(s) \/ EnableSource(s) \/ on_done(s)
  \/ pr_pixel_led_set_norefresh \/ SetEnds
Application ==
  \E s \in Strips :
    \/ \E first, last \in Pixels : pr_pixel_led_set_many(s, first, last)
    \/ pr_pixel_led_refresh(s)
World == Timeout \/ \E s \in Strips : WordLeaves(s) \/ Pause(s)

Next == MainLoop \/ Application \/ on_pio_irq \/ World

Fairness == WF_vars(MainLoop) /\ WF_vars(on_pio_irq) /\ WF_vars(Timeout)
            /\ \A s \in Strips : WF_vars(WordLeaves(s)) /\ WF_vars(Pause(s))
FairSpec == Init /\ [][Next]_vars /\ Fairness

----------------------------------------------------------------------------
(* Properties.                                                             *)

\* What has left of a frame and what is still in the queue are the first pixels of
\* the strip, in order and as they are set, whatever room the interrupt finds: as
\* long as the application leaves the strip alone until its frame is out.  It holds of
\* the one strip of a PIO; "State machine index within PIO (0-3)" (pixel_led.h:91)
\* provides for four, and of two of them it does not hold.
FrameIntact ==
  \A s \in Strips \ hurried :
    IsPrefix(line[s] \o txfifo[s],
             [p \in Pixels |-> Word(p, pixel_data[s][p])] \o <<Zero>>)

\* "If a refresh is already in progress, it will be deferred until the current refresh
\* completes" (pixel_led.h:107-108): whenever the application sets pixels or asks for a
\* refresh, no pixel of a frame follows another frame without a pause.
RefreshDeferred ==
  \A s \in Strips :
    LET words == line[s] \o txfifo[s] IN \A i \in DOMAIN words : words[i].pixel = i

\* Nothing that is set is forgotten: pixels set at any time are sent by a refresh
\* that begins after them, and what the strip shows in the end is what was set last,
\* unless its application was in a hurry.
UpdatesSent ==
  \A s \in Strips :
    <>[](/\ ~dirty[s] /\ ~refreshing[s] /\ txfifo[s] = << >>
         /\ s \notin hurried => shown[s] = pixel_data[s])
=============================================================================
