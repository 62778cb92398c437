------------------------------- MODULE Eeprom -------------------------------
(***************************************************************************)
(* Writing to an I2C EEPROM and reading it back (src/i2c_eeprom): the data *)
(* is cut into chunks, a chunk the chip does not acknowledge because it is *)
(* still writing the one before is tried again after a millisecond, and a  *)
(* last poll waits for the end of the write.                               *)
(*                                                                         *)
(* The chip addresses a page with the high bits of the address of a write  *)
(* and counts the low bits up, back to the start of the page at its end.   *)
(***************************************************************************)
EXTENDS Integers

CONSTANTS
  Capacity,   \* bytes of a chip
  Retries,    \* attempts at one transfer: 128
  MaxBusy,    \* bound: milliseconds a chip takes to write
  Faults,     \* TRUE: a transfer may also fail on an idle chip
  LC08, AA64, \* the two chips; records of
              \*   page   bytes of a page: 16 and 32
              \*   chunk  bytes of a chunk that starts at a page: 16 for both
              \*   drops  TRUE: the last poll's error is dropped (24LC08)
  Calls       \* the writes to try: records of a chip, an address and a size

Chips == {LC08, AA64}

ASSUME EepromAssumption ==
  /\ Chips \subseteq [page : Nat \ {0}, chunk : Nat \ {0}, drops : BOOLEAN]
  /\ \A c \in Chips : Capacity % c.page = 0 /\ c.chunk <= c.page
  /\ Capacity \in Nat /\ Retries \in Nat \ {0} /\ MaxBusy \in Nat
  /\ Faults \in BOOLEAN
  /\ Calls \subseteq [chip : Chips, addr : Nat, size : Nat]

Cells == 0 .. Capacity - 1

VARIABLES
  mem,     \* the chip's bytes; 0 before they are written
  busy,    \* milliseconds the chip needs to end its write
  call,    \* the write asked for
  offset,  \* bytes of it acknowledged
  retry,   \* retry_count
  pc,      \* "write", "poll", "read" or "end"
  result,  \* what the write returned
  data     \* what the read after it returned

vars == <<mem, busy, call, offset, retry, pc, result, data>>

InRange(c) == c.addr <= Capacity /\ c.addr + c.size <= Capacity

InitOf(calls) ==
  /\ mem = [c \in Cells |-> 0]
  /\ busy = 0
  /\ call \in calls
  /\ offset = 0
  /\ retry = Retries
  /\ pc = IF ~InRange(call) THEN "end" ELSE IF call.size = 0 THEN "poll" ELSE "write"
  /\ result = IF InRange(call) THEN "none" ELSE "PR_ERR_INVAL"
  /\ data = << >>

Init == InitOf(Calls)

Least(m, n) == IF m <= n THEN m ELSE n

\* Mutant: every chunk is as long as one that starts at a page.
Chunk_unaligned == Least(call.chip.chunk, call.size - offset)

\* The test of the alignment is one of the address of the call, for every chunk.
Chunk ==
  LET into == call.addr % call.chip.page
  IN  Least(IF into = 0 THEN call.chip.chunk ELSE call.chip.page - into,
            call.size - offset)

\* The n-th byte of the data, counted from 0; so that no two are equal.
Byte(n) == n + 1

\* Cell of the chip to which the i-th byte of a transfer to address a goes.
CellOf(a, i) == (a - (a % call.chip.page)) + ((a + i) % call.chip.page)

\* A transfer that fails does so at the chip's address, before any byte of it.
Failing == busy > 0 \/ Faults
Wait == busy' = IF busy > 0 THEN busy - 1 ELSE 0

ChunkWritten ==
  /\ pc = "write"
  /\ busy = 0
  /\ mem' = [c \in Cells |->
       IF \E i \in 0 .. Chunk - 1 : CellOf(call.addr + offset, i) = c
       THEN Byte(offset + (CHOOSE i \in 0 .. Chunk - 1 : CellOf(call.addr + offset, i) = c))
       ELSE mem[c]]
  /\ busy' \in 0 .. MaxBusy
  /\ offset' = offset + Chunk
  /\ retry' = Retries
  /\ pc' = IF offset' < call.size THEN "write" ELSE "poll"
  /\ UNCHANGED <<call, result, data>>

\* Mutant: an error after the first chunk counts as success.
ChunkRefused_succeeds ==
  /\ pc = "write"
  /\ Failing
  /\ retry' = retry - 1
  /\ IF retry' = 0
     THEN pc' = "poll" /\ result' = "PR_OK" /\ UNCHANGED busy
     ELSE Wait /\ UNCHANGED <<pc, result>>
  /\ UNCHANGED <<mem, call, offset, data>>

\* Mutant: the attempts start over when they are used up.
ChunkRefused_starts_over ==
  /\ pc = "write"
  /\ Failing
  /\ retry' = IF retry = 1 THEN Retries ELSE retry - 1
  /\ Wait
  /\ UNCHANGED <<mem, call, offset, pc, result, data>>

ChunkRefused ==
  /\ pc = "write"
  /\ Failing
  /\ retry' = retry - 1
  /\ IF retry' = 0
     THEN pc' = "end" /\ result' = "error" /\ UNCHANGED busy
     ELSE Wait /\ UNCHANGED <<pc, result>>
  /\ UNCHANGED <<mem, call, offset, data>>

\* Nothing has set the chip's bus address when the size is 0.
PollAnswered ==
  /\ pc = "poll"
  /\ busy = 0
  /\ retry' = retry - 1
  /\ pc' = "read" /\ result' = "PR_OK"
  /\ UNCHANGED <<mem, busy, call, offset, data>>

PollRefused ==
  /\ pc = "poll"
  /\ Failing \/ call.size = 0
  /\ retry' = retry - 1
  /\ IF retry' = 0
     THEN /\ result' = IF call.chip.drops THEN "PR_OK" ELSE "error"
          /\ pc' = IF call.chip.drops THEN "read" ELSE "end"
          /\ UNCHANGED busy
     ELSE Wait /\ UNCHANGED <<pc, result>>
  /\ UNCHANGED <<mem, call, offset, data>>

\* The caller reads back what it has written.
pr_i2c_eeprom_read ==
  /\ pc = "read"
  /\ \/ busy = 0 /\ data' = [i \in 1 .. call.size |-> mem[call.addr + i - 1]]
     \/ Failing /\ UNCHANGED data
  /\ pc' = "end"
  /\ UNCHANGED <<mem, busy, call, offset, retry, result>>

Next == ChunkWritten \/ ChunkRefused \/ PollAnswered \/ PollRefused \/ pr_i2c_eeprom_read

Spec == Init /\ [][Next]_vars
FairSpec == Spec /\ WF_vars(Next)

----------------------------------------------------------------------------
(* Properties.                                                             *)

\* Every variable holds a value of its type; the offset never passes the size and
\* the unsigned retry counter never passes 0.
TypeOK ==
  /\ mem \in [Cells -> 0 .. Capacity]
  /\ busy \in 0 .. MaxBusy
  /\ call \in Calls
  /\ offset \in 0 .. call.size
  /\ retry \in 0 .. Retries
  /\ pc \in {"write", "poll", "read", "end"}
  /\ result \in {"none", "PR_OK", "error", "PR_ERR_INVAL"}

\* Whatever the alignment, page and size, and wherever a call fails, the chip
\* holds what has been acknowledged of the data and no other byte has changed.
WritesPrefix ==
  mem = [c \in Cells |-> IF c \in call.addr .. call.addr + offset - 1
                         THEN Byte(c - call.addr) ELSE 0]

\* A write that succeeds has written everything, and waited for the chip unless
\* the result of the poll is ignored; what is read back after it is what was
\* written.
SuccessIsStored ==
  /\ result = "PR_OK" => offset = call.size /\ (busy = 0 \/ call.chip.drops)
  /\ data # << >> => data = [i \in 1 .. call.size |-> Byte(i - 1)]

\* A write ends, also on a chip that never answers: the retries are bounded.
Returns == <>(pc = "end")
=============================================================================
