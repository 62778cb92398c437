------------------------------ MODULE MCEeprom ------------------------------
(* Instances of Eeprom for TLC. *)
EXTENDS Eeprom

MCLC08 == [page |-> 4, chunk |-> 4, drops |-> TRUE]
MCAA64 == [page |-> 8, chunk |-> 4, drops |-> FALSE]

AllCalls == [chip : Chips, addr : 0 .. Capacity + 1, size : 0 .. Capacity + 1]

\* Writes whose chunks, all as long as the first, stay within a page: those that
\* start at a page, those whose first chunk divides a page, and those that end
\* before a second page does.
SoundCalls ==
  {c \in AllCalls :
     LET into == c.addr % c.chip.page
         first == c.chip.page - into
     IN  into = 0 \/ c.chip.page % first = 0 \/ c.size <= first + c.chip.page}
=============================================================================
