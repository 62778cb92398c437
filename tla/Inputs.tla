------------------------------- MODULE Inputs --------------------------------
(***************************************************************************)
(* Inputs: a pin whose interrupt schedules a task (src/gpio_irq), and a    *)
(* button that a task polls (src/button), on one scheduler.                *)
(*                                                                         *)
(* The pin is the interrupt output of an expander: it is active while the  *)
(* expander's input differs from what was read of it last.  A task of the  *)
(* application reads the expander, and when the read fails tries again; if *)
(* the pin's mask has a level it then calls pr_gpio_irq_mask_set again,   *)
(* because the interrupt disables the events of a level.  An interrupt    *)
(* that is raised and enabled keeps the main loop from running.            *)
(***************************************************************************)
EXTENDS Integers, FiniteSets, Scheduler

CONSTANTS
  Masks,       \* the masks of events that the application may ask for
  MaxChanges,  \* bound: changes of the expander's input, and of the button
  MaxFaults    \* bound: reads that fail

InputsAssumption ==
  /\ Masks \subseteq SUBSET {"level", "edge"} /\ {} \notin Masks
  /\ MaxChanges \in Nat /\ MaxFaults \in Nat

VARIABLES
  mask,        \* the events the application asks for
  enabled,     \* those that are enabled
  edge,        \* whether an edge is latched
  input, read, \* the expander's input, and what was read of it last
  held,        \* whether the button is pressed
  last_value,  \* what the last poll has seen
  pressed,     \* a poll has seen a press that wake has not served yet
  inq,         \* the scheduler
  step,        \* where the main loop is
  changes, faults

pin == <<mask, enabled, edge>>
expander == <<input, read>>
button == <<held, last_value, pressed>>
vars == <<pin, expander, button, inq, step, changes, faults>>

Active == input # read
Raised == (IF Active THEN {"level"} ELSE {}) \cup (IF edge THEN {"edge"} ELSE {})

\* pr_gpio_irq_bind, pr_gpio_irq_mask_set and pr_button_init.
InitOf(masks, holds) ==
  /\ mask \in masks /\ enabled = mask /\ edge = FALSE
  /\ input = FALSE /\ read = FALSE
  /\ held \in holds /\ last_value = held /\ pressed = FALSE
  /\ inq = [pend |-> <<"worker">>, timed |-> {}]
  /\ step = "idle"
  /\ changes = 0 /\ faults = 0

Init == InitOf(Masks, BOOLEAN)

----------------------------------------------------------------------------
(* The interrupt.                                                          *)

\* The edge is acknowledged; when a level is among the events that are reported,
\* all of these are disabled.
gpio_irq_callback ==
  /\ enabled \cap Raised # {}
  /\ edge' = FALSE
  /\ enabled' = IF "level" \in enabled \cap Raised THEN enabled \ Raised ELSE enabled
  /\ inq' = Exec(inq, "reader")
  /\ UNCHANGED <<mask, expander, button, step, changes, faults>>

----------------------------------------------------------------------------
(* The main loop.                                                          *)

MayRun == enabled \cap Raised = {}

Runs(t) ==
  /\ MayRun /\ step = "idle"
  /\ inq.pend # << >> /\ Head(inq.pend) = t

\* The application's task reads the expander.
ReadInput ==
  /\ Runs("reader")
  /\ \/ /\ read' = input
        /\ inq' = [inq EXCEPT !.pend = Tail(@)]
        /\ UNCHANGED faults
     \/ /\ faults < MaxFaults /\ faults' = faults + 1
        /\ inq' = Exec([inq EXCEPT !.pend = Tail(@)], "reader")
        /\ UNCHANGED read
  /\ step' = IF "level" \in mask THEN "rearm" ELSE "idle"
  /\ UNCHANGED <<pin, input, button, changes>>

\* Mutant: a call that enables events again does nothing.
pr_gpio_irq_mask_set_once ==
  /\ MayRun /\ step = "rearm"
  /\ step' = "idle"
  /\ edge' = FALSE
  /\ UNCHANGED <<mask, enabled, expander, button, inq, changes, faults>>

\* The SDK acknowledges what is latched before it enables the events.
pr_gpio_irq_mask_set ==
  /\ MayRun /\ step = "rearm"
  /\ enabled' = enabled \cup mask
  /\ edge' = FALSE
  /\ step' = "idle"
  /\ UNCHANGED <<mask, expander, button, inq, changes, faults>>

on_work ==
  /\ Runs("worker")
  /\ last_value' = held
  /\ pressed' = (pressed \/ (held /\ ~last_value))
  /\ inq' = Exec(ExecIf(held /\ ~last_value, [inq EXCEPT !.pend = Tail(@)], "wake"),
                 "worker")
  /\ UNCHANGED <<pin, expander, held, step, changes, faults>>

Wake ==
  /\ Runs("wake")
  /\ pressed' = FALSE
  /\ inq' = [inq EXCEPT !.pend = Tail(@)]
  /\ UNCHANGED <<pin, expander, held, last_value, step, changes, faults>>

MainLoop == ReadInput \/ pr_gpio_irq_mask_set \/ on_work \/ Wake

----------------------------------------------------------------------------
(* The world.                                                              *)

InputChanges ==
  /\ changes < MaxChanges /\ changes' = changes + 1
  /\ input' = ~input
  /\ edge' = (edge \/ ~Active)
  /\ UNCHANGED <<mask, enabled, read, button, inq, step, faults>>

ButtonMoves ==
  /\ changes < MaxChanges /\ changes' = changes + 1
  /\ held' = ~held
  /\ UNCHANGED <<pin, expander, last_value, pressed, inq, step, faults>>

Next == gpio_irq_callback \/ MainLoop \/ InputChanges \/ ButtonMoves

Fairness == WF_vars(gpio_irq_callback) /\ WF_vars(MainLoop)
FairSpec == Init /\ [][Next]_vars /\ Fairness

----------------------------------------------------------------------------
(* Properties.                                                             *)

\* Whatever comes between the interrupt, the read and the call that enables the
\* interrupt again, the last change of the input is read in the end; and a button
\* that is pressed and held wakes its task, however busy the main loop is.
InputsNoticed ==
  /\ <>[](read = input)
  /\ []<>(held => last_value) /\ []<>~pressed

\* "The wake task is scheduled whenever the button state changes after debouncing"
\* (button.h:82): when a poll finds the button pressed, and when it finds it released.
EveryChangeWakes == [][last_value' # last_value => Scheduled(inq', "wake")]_vars
=============================================================================
