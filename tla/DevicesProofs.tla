--------------------------- MODULE DevicesProofs ----------------------------
(***************************************************************************)
(* Theorems about the smaller parts, each alone and on a board with the    *)
(* others: what a write leaves in an EEPROM, that an expander has what is  *)
(* cached of it, what an SPI transfer sends and hears, that a frame for    *)
(* the pixels of a strip leaves whole, what a search of the binary         *)
(* information finds, and the objects of a device identification.          *)
(***************************************************************************)
EXTENDS Devices, BoundedRecursion, SequenceTheorems, FiniteSetTheorems

----------------------------------------------------------------------------
(* Eeprom, for any chips, calls, retries and write cycles: the types, and  *)
(* what a write leaves in the chip, first as long as no chunk wraps in its *)
(* page, then for the two chips of the code and writes that start at a     *)
(* multiple of 16.                                                         *)

\* The next chunk does not reach past its page.
Straight ==
  \A i \in 0 .. Chunk - 1 : CellOf(call.addr + offset, i) = call.addr + offset + i

\* TypeOK, and what the places of the call say about it.
TypeInv ==
  /\ TypeOK
  /\ pc # "end" => InRange(call)
  /\ pc \in {"write", "poll"} => retry > 0
  /\ pc = "write" => offset < call.size
  /\ pc \in {"poll", "read"} => offset = call.size
  /\ pc # "end" => data = << >>

\* A chunk has a byte at least, and does not pass the end of the data.
LEMMA ChunkBounds ==
  ASSUME TypeInv, pc = "write"
  PROVE  Chunk \in 1 .. call.size - offset
<1>1. /\ call.chip.page \in Nat \ {0} /\ call.chip.chunk \in Nat \ {0}
      /\ call.addr \in Nat /\ call.size \in Nat /\ offset \in Nat
  BY EepromAssumption DEF TypeInv, TypeOK, Chips
<1>2. call.addr % call.chip.page \in 0 .. call.chip.page - 1
  BY <1>1
<1>3. offset < call.size
  BY DEF TypeInv
<1> QED
  BY <1>1, <1>2, <1>3 DEF Chunk, Least

\* A call that is in range starts at its first byte.
LEMMA InitTypes == Init => TypeInv
<1> SUFFICES ASSUME Init PROVE TypeInv
  OBVIOUS
<1>1. call \in [chip : Chips, addr : Nat, size : Nat]
  BY EepromAssumption DEF Init, InitOf
<1>2. mem \in [Cells -> 0 .. Capacity]
  BY EepromAssumption DEF Init, InitOf
<1> QED
  BY <1>1, <1>2, EepromAssumption DEF Init, InitOf, TypeInv, TypeOK, Cells, Chips

\* Each step preserves the types.
LEMMA NextTypes == TypeInv /\ [Next]_vars => TypeInv'
<1> SUFFICES ASSUME TypeInv, [Next]_vars PROVE TypeInv'
  OBVIOUS
<1>c. /\ call \in Calls /\ call \in [chip : Chips, addr : Nat, size : Nat]
      /\ Capacity \in Nat /\ Retries \in Nat \ {0} /\ MaxBusy \in Nat
      /\ offset \in 0 .. call.size /\ retry \in 0 .. Retries /\ busy \in 0 .. MaxBusy
      /\ call.chip.drops \in BOOLEAN
  BY EepromAssumption DEF TypeInv, TypeOK, Chips
<1>1. CASE ChunkWritten
  <2>1. Chunk \in 1 .. call.size - offset
    BY <1>1, ChunkBounds DEF ChunkWritten
  <2>2. mem' \in [Cells -> 0 .. Capacity]
    <3>1. \A i \in 0 .. Chunk - 1 : Byte(offset + i) \in 0 .. Capacity
      BY <1>c, <1>1, <2>1 DEF ChunkWritten, TypeInv, InRange, Byte
    <3>2. \A c \in Cells : mem[c] \in 0 .. Capacity
      BY DEF TypeInv, TypeOK
    <3> QED
      BY <1>1, <3>1, <3>2 DEF ChunkWritten
  <2>3. offset' \in 0 .. call.size /\ (offset' < call.size \/ offset' = call.size)
    BY <1>c, <1>1, <2>1 DEF ChunkWritten
  <2> QED
    BY <1>c, <1>1, <2>1, <2>2, <2>3, SMTT(40) DEF ChunkWritten, TypeInv, TypeOK, InRange
<1>2. CASE ChunkRefused
  BY <1>c, <1>2 DEF ChunkRefused, Wait, TypeInv, TypeOK, InRange
<1>3. CASE PollAnswered
  BY <1>c, <1>3 DEF PollAnswered, TypeInv, TypeOK, InRange
<1>4. CASE PollRefused
  <2>1. /\ retry > 0 /\ retry' = retry - 1 /\ retry' \in 0 .. Retries
        /\ busy' \in 0 .. MaxBusy
        /\ UNCHANGED <<mem, call, offset, data>>
    BY <1>c, <1>4 DEF PollRefused, Wait, TypeInv
  <2>2. CASE retry' = 0
    BY <1>c, <1>4, <2>1, <2>2 DEF PollRefused, TypeInv, TypeOK, InRange
  <2>3. CASE retry' # 0
    BY <1>c, <1>4, <2>1, <2>3 DEF PollRefused, TypeInv, TypeOK, InRange
  <2> QED
    BY <2>2, <2>3
<1>5. CASE pr_i2c_eeprom_read
  BY <1>c, <1>5 DEF pr_i2c_eeprom_read, TypeInv, TypeOK, InRange
<1>6. CASE UNCHANGED vars
  BY <1>6 DEF vars, TypeInv, TypeOK, InRange
<1> QED
  BY <1>1, <1>2, <1>3, <1>4, <1>5, <1>6 DEF Next

\* The types of Eeprom, with the places of a call: the unsigned retry counter never
\* passes 0, nor the offset the size (eeprom.c, the loops of both writes).
THEOREM EepromTypes == Spec => []TypeInv
<1> QED
  BY InitTypes, NextTypes, PTL DEF Spec

----------------------------------------------------------------------------
(* What a write leaves.                                                    *)

WritesInv ==
  /\ WritesPrefix
  /\ SuccessIsStored
  /\ pc \in {"write", "poll"} => result = "none"
  /\ pc = "read" => result = "PR_OK"

\* At first nothing is acknowledged and every byte is 0.
LEMMA InitWrites == Init => WritesInv
<1> SUFFICES ASSUME Init PROVE WritesInv
  OBVIOUS
<1>1. call.addr .. call.addr + offset - 1 = {}
  BY EepromAssumption DEF Init, InitOf
<1> QED
  BY <1>1 DEF Init, InitOf, WritesInv, WritesPrefix, SuccessIsStored

\* A chunk that stays within its page puts its bytes behind those before it.
LEMMA ChunkExtends ==
  ASSUME TypeInv, WritesPrefix, ChunkWritten, Straight
  PROVE  WritesPrefix'
<1>1. /\ Chunk \in 1 .. call.size - offset /\ offset' = offset + Chunk /\ call' = call
      /\ call.addr \in Nat /\ offset \in Nat /\ Chunk \in Nat
  BY ChunkBounds, EepromAssumption DEF ChunkWritten, TypeInv, TypeOK
<1> DEFINE start == call.addr + offset
<1>2. ASSUME NEW c \in Cells
      PROVE  mem'[c] = IF c \in call.addr .. call.addr + offset' - 1
                       THEN Byte(c - call.addr) ELSE 0
  <2>1. CASE c \in start .. start + Chunk - 1
    <3>1. c - start \in 0 .. Chunk - 1 /\ CellOf(start, c - start) = c
      BY <1>1, <2>1 DEF Straight
    <3>2. \A i \in 0 .. Chunk - 1 : CellOf(start, i) = c => i = c - start
      BY <1>1, <2>1 DEF Straight, Cells
    <3>3. (CHOOSE i \in 0 .. Chunk - 1 : CellOf(start, i) = c) = c - start
      BY <3>1, <3>2
    <3>4. mem'[c] = Byte(offset + (c - start))
      BY <1>2, <3>1, <3>3 DEF ChunkWritten
    <3>5. offset + (c - start) = c - call.addr /\ c \in call.addr .. call.addr + offset' - 1
      BY <1>1, <2>1
    <3> QED
      BY <3>4, <3>5
  <2>2. CASE c \notin start .. start + Chunk - 1
    <3>1. ~ \E i \in 0 .. Chunk - 1 : CellOf(start, i) = c
      BY <1>1, <2>2 DEF Straight, Cells
    <3>2. mem'[c] = mem[c]
      BY <1>2, <3>1 DEF ChunkWritten
    <3>3. c \in call.addr .. call.addr + offset' - 1 <=> c \in call.addr .. call.addr + offset - 1
      BY <1>1, <2>2 DEF Cells
    <3> QED
      BY <1>2, <3>2, <3>3 DEF WritesPrefix
  <2> QED
    BY <2>1, <2>2
<1>3. mem' = [c \in Cells |-> mem'[c]]
  BY DEF ChunkWritten
<1> QED
  BY <1>1, <1>2, <1>3 DEF WritesPrefix

\* What is read back is what was written.
LEMMA ReadBack ==
  ASSUME TypeInv, WritesInv, pr_i2c_eeprom_read
  PROVE  SuccessIsStored'
<1>1. /\ offset = call.size /\ InRange(call) /\ call' = call /\ busy' = busy
      /\ result' = result /\ offset' = offset /\ data = << >>
      /\ call.addr \in Nat /\ call.size \in Nat /\ Capacity \in Nat
  BY EepromAssumption DEF TypeInv, TypeOK, pr_i2c_eeprom_read
<1>2. CASE data' = [i \in 1 .. call.size |-> mem[call.addr + i - 1]]
  <2>0. \A c \in Cells :
          mem[c] = IF c \in call.addr .. call.addr + offset - 1 THEN Byte(c - call.addr) ELSE 0
    BY DEF WritesInv, WritesPrefix
  <2>1. \A i \in 1 .. call.size : mem[call.addr + i - 1] = Byte(i - 1)
    <3>1. ASSUME NEW i \in 1 .. call.size, NEW c \in Int, c = call.addr + i - 1
          PROVE  mem[c] = Byte(i - 1)
      <4>1. c \in Cells /\ c \in call.addr .. call.addr + offset - 1 /\ c - call.addr = i - 1
        BY <1>1, <3>1 DEF Cells, InRange
      <4>2. mem[c] = Byte(c - call.addr)
        BY <2>0, <4>1
      <4> QED
        BY <4>1, <4>2
    <3>2. \A i \in 1 .. call.size : call.addr + i - 1 \in Int
      BY <1>1
    <3> QED
      BY <3>1, <3>2
  <2> QED
    BY <1>1, <1>2, <2>1 DEF WritesInv, SuccessIsStored
<1>3. CASE UNCHANGED data
  BY <1>1, <1>3 DEF WritesInv, SuccessIsStored
<1> QED
  BY <1>2, <1>3 DEF pr_i2c_eeprom_read

\* Each step preserves what a write leaves, if its chunk stays within its page.
LEMMA NextWrites ==
  TypeInv /\ WritesInv /\ (pc = "write" => Straight) /\ [Next]_vars => WritesInv'
<1> SUFFICES ASSUME TypeInv, WritesInv, pc = "write" => Straight, [Next]_vars
             PROVE  WritesInv'
  OBVIOUS
<1>t. data = << >> \/ pc = "end"
  BY DEF TypeInv
<1>1. CASE ChunkWritten
  <2>1. WritesPrefix'
    BY <1>1, ChunkExtends DEF ChunkWritten, WritesInv
  <2> QED
    BY <1>1, <1>t, <2>1 DEF ChunkWritten, WritesInv, SuccessIsStored
<1>2. CASE ChunkRefused
  BY <1>2, <1>t DEF ChunkRefused, WritesInv, WritesPrefix, SuccessIsStored
<1>3. CASE PollAnswered
  BY <1>3, <1>t DEF PollAnswered, WritesInv, WritesPrefix, SuccessIsStored, TypeInv
<1>4. CASE PollRefused
  BY <1>4, <1>t DEF PollRefused, WritesInv, WritesPrefix, SuccessIsStored, TypeInv
<1>5. CASE pr_i2c_eeprom_read
  <2>1. SuccessIsStored'
    BY <1>5, ReadBack
  <2> QED
    BY <1>5, <2>1 DEF pr_i2c_eeprom_read, WritesInv, WritesPrefix
<1>6. CASE UNCHANGED vars
  BY <1>6 DEF vars, WritesInv, WritesPrefix, SuccessIsStored
<1> QED
  BY <1>1, <1>2, <1>3, <1>4, <1>5, <1>6 DEF Next

\* For any chip, call and faults: as long as no chunk reaches past its page, what
\* is acknowledged is in the chip and a success is a complete write (eeprom.c).
THEOREM StraightWrites ==
  Spec /\ [](pc = "write" => Straight) => []WritesPrefix /\ []SuccessIsStored
<1>1. WritesInv => WritesPrefix /\ SuccessIsStored
  BY DEF WritesInv
<1> QED
  BY <1>1, EepromTypes, InitWrites, NextWrites, PTL DEF Spec

----------------------------------------------------------------------------
(* The two chips, and writes that start at a multiple of 16.               *)

RealChips ==
  /\ LC08 = [page |-> 16, chunk |-> 16, drops |-> TRUE]
  /\ AA64 = [page |-> 32, chunk |-> 16, drops |-> FALSE]

\* At the start of a page of either chip, or in the middle of one of the 24AA64.
AlignedCalls == \A c \in Calls : c.addr % 16 = 0

\* Chunks follow each other at multiples of 16.
Aligned == pc = "write" => offset % 16 = 0

\* A chunk of 16 bytes at a multiple of 16 stays within a page of 16 or 32 bytes.
LEMMA AlignedStraight ==
  ASSUME RealChips, AlignedCalls, TypeInv, Aligned
  PROVE  pc = "write" => Straight /\ (Chunk = 16 \/ Chunk = call.size - offset)
<1> SUFFICES ASSUME pc = "write"
             PROVE  Straight /\ (Chunk = 16 \/ Chunk = call.size - offset)
  OBVIOUS
<1>1. /\ call.addr \in Nat /\ call.size \in Nat /\ offset \in Nat /\ offset % 16 = 0
      /\ call.addr % 16 = 0 /\ call.chip \in Chips
  BY EepromAssumption DEF TypeInv, TypeOK, AlignedCalls, Aligned
<1>2. call.chip.chunk = 16 /\ (call.chip.page = 16 \/ call.chip.page = 32)
  BY <1>1 DEF RealChips, Chips
<1>3. Chunk = Least(16, call.size - offset)
  <2>1. CASE call.chip.page = 16
    BY <1>1, <1>2, <2>1 DEF Chunk
  <2>2. CASE call.chip.page = 32
    <3>1. call.addr % 32 = 0 \/ (call.addr % 32 # 0 /\ 32 - (call.addr % 32) = 16)
      BY <1>1
    <3> QED
      BY <1>1, <1>2, <2>2, <3>1 DEF Chunk
  <2> QED
    BY <1>2, <2>1, <2>2
<1>4. Chunk \in 1 .. call.size - offset
  BY ChunkBounds
<1>5. Chunk <= 16 /\ (Chunk = 16 \/ Chunk = call.size - offset)
  BY <1>1, <1>3 DEF Least
<1>6. ASSUME NEW i \in 0 .. Chunk - 1
      PROVE  CellOf(call.addr + offset, i) = call.addr + offset + i
  <2>1. i \in 0 .. 15
    BY <1>1, <1>4, <1>5
  <2>2. CASE call.chip.page = 16
    <3>1. /\ (call.addr + offset) % 16 = 0 /\ call.addr + offset \in Nat
          /\ (call.addr + offset + i) % 16 = i
      BY <1>1, <2>1, <2>2
    <3> QED
      BY <1>1, <2>1, <2>2, <3>1 DEF CellOf
  <2>3. CASE call.chip.page = 32
    <3> DEFINE a == call.addr + offset
    <3>1. a \in Nat /\ a % 16 = 0
      BY <1>1
    <3> HIDE DEF a
    <3>2. a % 32 = 0 \/ a % 32 = 16
      BY <3>1
    <3>3. (a + i) % 32 = (a % 32) + i
      BY <2>1, <3>1, <3>2
    <3>4. (a - (a % 32)) + ((a + i) % 32) = a + i
      BY <2>1, <3>1, <3>3
    <3> QED
      BY <2>3, <3>4 DEF CellOf, a
  <2> QED
    BY <1>2, <2>2, <2>3
<1> QED
  BY <1>5, <1>6 DEF Straight

\* Only a last chunk is shorter than 16 bytes.
LEMMA NextAligned ==
  ASSUME RealChips, AlignedCalls
  PROVE  TypeInv /\ Aligned /\ [Next]_vars => Aligned'
<1> SUFFICES ASSUME TypeInv, Aligned, [Next]_vars PROVE Aligned'
  OBVIOUS
<1>1. CASE ChunkWritten
  <2>1. /\ offset' = offset + Chunk /\ (Chunk = 16 \/ Chunk = call.size - offset)
        /\ offset \in Nat /\ call.size \in Nat /\ offset % 16 = 0
    BY <1>1, AlignedStraight, EepromAssumption DEF ChunkWritten, TypeInv, TypeOK, Aligned
  <2>2. CASE Chunk = 16
    BY <2>1, <2>2 DEF Aligned
  <2>3. CASE Chunk = call.size - offset
    BY <1>1, <2>1, <2>3 DEF Aligned, ChunkWritten
  <2> QED
    BY <2>1, <2>2, <2>3
<1>2. CASE ChunkRefused
  BY <1>2 DEF ChunkRefused, Aligned
<1>3. CASE PollAnswered
  BY <1>3 DEF PollAnswered, Aligned
<1>4. CASE PollRefused
  BY <1>4 DEF PollRefused, Aligned
<1>5. CASE pr_i2c_eeprom_read
  BY <1>5 DEF pr_i2c_eeprom_read, Aligned
<1>6. CASE UNCHANGED vars
  BY <1>6 DEF vars, Aligned
<1> QED
  BY <1>1, <1>2, <1>3, <1>4, <1>5, <1>6 DEF Next

\* For the 24LC08 and the 24AA64, any capacity, retries and faults: what has
\* been acknowledged of a write that starts at a multiple of 16 is in the chip, all of
\* it when the write succeeds, and nothing else has changed (eeprom.c:64-90, 122-152).
THEOREM AlignedWrites ==
  ASSUME RealChips, AlignedCalls
  PROVE  Spec => []WritesPrefix /\ []SuccessIsStored
<1>1. Init => Aligned
  BY DEF Init, InitOf, Aligned
<1>2. TypeInv /\ Aligned => (pc = "write" => Straight)
  BY AlignedStraight
<1>3. Spec => [](pc = "write" => Straight)
  BY <1>1, <1>2, NextAligned, EepromTypes, PTL DEF Spec
<1> QED
  BY <1>3, StraightWrites, PTL

----------------------------------------------------------------------------
(* I2cGpio, for any two banks of pins, any calls and any number of failed  *)
(* transfers.                                                              *)

ExpanderTypes ==
  /\ chip \in G!Chip
  /\ cache \in [G!Registers -> SUBSET G!Pins]
  /\ onchip \in [G!Registers -> SUBSET G!Pins]
  /\ \A r \in G!Registers : chip = "tca9534" => cache[r] \subseteq Low /\ onchip[r] \subseteq Low
  /\ chip = "tca9534" => cache["pull_en"] = {}

ExpanderInv == ExpanderTypes /\ G!CachesAgree

\* What is sent in a transfer: a byte for a register and a bank at most.
Transfer(bytes) ==
  /\ bytes \in Seq([reg : G!Registers, bank : G!Banks, value : SUBSET G!Pins])
  /\ \A i \in 1 .. Len(bytes) : bytes[i].value \subseteq bytes[i].bank
  /\ \A i, j \in 1 .. Len(bytes) :
       bytes[i].reg = bytes[j].reg /\ bytes[i].bank = bytes[j].bank => i = j

Touches(bytes, r, b) == \E i \in 1 .. Len(bytes) : bytes[i].reg = r /\ bytes[i].bank = b

\* The bytes a chip takes change their own banks only, and an unfinished transfer
\* makes all of its banks unknown.
LEMMA BusWrites ==
  ASSUME G!BanksAssumption, onchip \in [G!Registers -> SUBSET G!Pins],
         NEW bytes, Transfer(bytes), G!pr_i2c_bus_write(bytes)
  PROVE  /\ onchip' \in [G!Registers -> SUBSET G!Pins]
         /\ \A r \in G!Registers, b \in G!Banks : ~Touches(bytes, r, b) =>
              /\ onchip'[r] \cap b = onchip[r] \cap b
              /\ <<r, b>> \in unknown' <=> <<r, b>> \in unknown
         /\ \A i \in 1 .. Len(bytes) : <<bytes[i].reg, bytes[i].bank>> \notin unknown' =>
              onchip'[bytes[i].reg] \cap bytes[i].bank = bytes[i].value
<1> DEFINE count == 1 + Len(bytes)
           touched == {<<d.reg, d.bank>> : d \in G!ToSet(bytes)}
<1>1. PICK e \in G!Returned(count) : \E taken \in G!Taken(e, count) :
        /\ onchip' = [r \in G!Registers |->
             {p \in onchip[r] : \A i \in 1 .. taken - 1 : bytes[i].reg = r => p \notin bytes[i].bank}
               \cup UNION {bytes[i].value : i \in {j \in 1 .. taken - 1 : bytes[j].reg = r}}]
        /\ unknown' = IF e = count THEN unknown \ touched ELSE unknown \cup touched
  BY DEF G!pr_i2c_bus_write
<1>2. PICK taken \in G!Taken(e, count) :
        /\ onchip' = [r \in G!Registers |->
             {p \in onchip[r] : \A i \in 1 .. taken - 1 : bytes[i].reg = r => p \notin bytes[i].bank}
               \cup UNION {bytes[i].value : i \in {j \in 1 .. taken - 1 : bytes[j].reg = r}}]
        /\ unknown' = IF e = count THEN unknown \ touched ELSE unknown \cup touched
  BY <1>1
<1>3. /\ Len(bytes) \in Nat /\ DOMAIN bytes = 1 .. Len(bytes)
      /\ \A i \in 1 .. Len(bytes) :
           bytes[i].reg \in G!Registers /\ bytes[i].bank \in G!Banks /\ bytes[i].value \subseteq G!Pins
  <2>1. bytes \in Seq([reg : G!Registers, bank : G!Banks, value : SUBSET G!Pins])
    BY DEF Transfer
  <2>2. \A i \in 1 .. Len(bytes) : bytes[i] \in [reg : G!Registers, bank : G!Banks, value : SUBSET G!Pins]
    BY <2>1, ElementOfSeq
  <2> QED
    BY <2>1, <2>2
<1>4. taken \in Int /\ taken <= count /\ (e = count => taken = count)
  BY <1>3 DEF G!Taken, G!Returned, G!PICO_ERROR_GENERIC
<1>5. \A r \in G!Registers, b \in G!Banks : <<r, b>> \in touched <=> Touches(bytes, r, b)
  BY <1>3 DEF G!ToSet, Touches
<1>6. \A i \in 1 .. taken - 1 : i \in 1 .. Len(bytes)
  BY <1>3, <1>4
<1>7. \A b, c \in G!Banks : \A p : p \in b /\ p \in c => b = c
  BY DEF G!BanksAssumption, G!Banks
<1>8. onchip' \in [G!Registers -> SUBSET G!Pins]
  BY <1>2, <1>3, <1>6
<1>9. ASSUME NEW r \in G!Registers, NEW b \in G!Banks, ~Touches(bytes, r, b)
      PROVE  /\ onchip'[r] \cap b = onchip[r] \cap b
             /\ <<r, b>> \in unknown' <=> <<r, b>> \in unknown
  <2>1. \A i \in 1 .. taken - 1 : bytes[i].reg = r => \A p \in b : p \notin bytes[i].bank
    BY <1>3, <1>6, <1>7, <1>9 DEF Touches
  <2>2. \A i \in 1 .. taken - 1 : bytes[i].value \subseteq bytes[i].bank
    BY <1>6 DEF Transfer
  <2>3. onchip'[r] \cap b = onchip[r] \cap b
    BY <1>2, <2>1, <2>2
  <2> QED
    BY <1>2, <1>5, <1>9, <2>3
<1>10. ASSUME NEW i \in 1 .. Len(bytes), <<bytes[i].reg, bytes[i].bank>> \notin unknown'
       PROVE  onchip'[bytes[i].reg] \cap bytes[i].bank = bytes[i].value
  <2>1. <<bytes[i].reg, bytes[i].bank>> \in touched
    BY <1>3, <1>5 DEF Touches
  <2>2. e = count /\ taken - 1 = Len(bytes)
    BY <1>2, <1>3, <1>4, <1>10, <2>1
  <2>3. \A j \in 1 .. Len(bytes) : bytes[j].reg = bytes[i].reg =>
          \A p \in bytes[i].bank : p \in bytes[j].bank => j = i
    BY <1>3, <1>7 DEF Transfer
  <2>4. onchip'[bytes[i].reg] =
          {p \in onchip[bytes[i].reg] :
             \A j \in 1 .. Len(bytes) : bytes[j].reg = bytes[i].reg => p \notin bytes[j].bank}
            \cup UNION {bytes[j].value : j \in {k \in 1 .. Len(bytes) : bytes[k].reg = bytes[i].reg}}
    BY <1>2, <1>3, <2>2
  <2>5. \A j \in 1 .. Len(bytes) : bytes[j].value \subseteq bytes[j].bank
    BY DEF Transfer
  <2>6. ASSUME NEW p \in bytes[i].bank
        PROVE  p \in onchip'[bytes[i].reg] <=> p \in bytes[i].value
    BY <2>3, <2>4, <2>5
  <2> QED
    BY <2>5, <2>6
<1> QED
  BY <1>8, <1>9, <1>10

\* A transfer of what is cached of its banks, when the cache of no other bank
\* changes, preserves the agreement.
LEMMA WriteAgrees ==
  ASSUME G!BanksAssumption, ExpanderInv, NEW bytes, Transfer(bytes), G!pr_i2c_bus_write(bytes),
         \A i \in 1 .. Len(bytes), r \in G!Registers :
           bytes[i].reg = r => bytes[i].value = G!Kept(r)' \cap bytes[i].bank,
         \A r \in G!Registers, b \in G!Banks :
           ~Touches(bytes, r, b) => G!Kept(r)' \cap b = G!Kept(r) \cap b
  PROVE  G!CachesAgree' /\ onchip' \in [G!Registers -> SUBSET G!Pins]
<1>1. onchip' \in [G!Registers -> SUBSET G!Pins]
  BY BusWrites DEF ExpanderInv, ExpanderTypes
<1>2. ASSUME NEW r \in G!Registers, NEW b \in G!Banks, <<r, b>> \notin unknown'
      PROVE  onchip'[r] \cap b = G!Kept(r)' \cap b
  <2>1. CASE Touches(bytes, r, b)
    <3>1. PICK i \in 1 .. Len(bytes) : bytes[i].reg = r /\ bytes[i].bank = b
      BY <2>1 DEF Touches
    <3>2. onchip'[r] \cap b = bytes[i].value
      BY <1>2, <3>1, BusWrites DEF ExpanderInv, ExpanderTypes
    <3>3. bytes[i].value = G!Kept(r)' \cap b
      BY <3>1
    <3> QED
      BY <3>2, <3>3
  <2>2. CASE ~Touches(bytes, r, b)
    <3>1. onchip'[r] \cap b = onchip[r] \cap b /\ <<r, b>> \notin unknown
      BY <1>2, <2>2, BusWrites DEF ExpanderInv, ExpanderTypes
    <3>2. onchip[r] \cap b = G!Kept(r) \cap b
      BY <3>1 DEF ExpanderInv, G!CachesAgree
    <3> QED
      BY <2>2, <3>1, <3>2
  <2> QED
    BY <2>1, <2>2
<1> QED
  BY <1>1, <1>2 DEF G!CachesAgree
----------------------------------------------------------------------------
(* The operations.                                                         *)

\* At first the chip has what is cached of the registers that are known.
LEMMA InitExpander == ASSUME G!BanksAssumption PROVE G!Init => ExpanderInv
<1> SUFFICES ASSUME G!Init PROVE ExpanderInv
  OBVIOUS
<1>1. /\ chip \in G!Chip /\ cache = [r \in G!Registers |-> {}]
      /\ onchip = [r \in G!Registers |-> IF r = "set" /\ chip = "tca9534" THEN Low ELSE {}]
      /\ unknown = (IF chip = "tca9534" THEN {"set"} ELSE {"pull_en", "pull_bias"}) \X G!Banks
  BY DEF G!Init, G!InitOf
<1>2. ExpanderTypes
  BY <1>1 DEF ExpanderTypes, G!Pins, G!Registers
<1>3. \A r \in G!Registers : G!Kept(r) = {}
  BY <1>1 DEF G!Kept, G!PullEnabled
<1>4. ASSUME NEW r \in G!Registers, NEW b \in G!Banks, <<r, b>> \notin unknown
      PROVE  onchip[r] = {}
  BY <1>1, <1>4
<1> QED
  BY <1>2, <1>3, <1>4 DEF ExpanderInv, G!CachesAgree

\* A byte, and two of different banks, are what a transfer may send.
LEMMA ByteBytes ==
  ASSUME G!BanksAssumption, NEW r \in G!Registers, NEW v \in SUBSET G!Pins, NEW bank \in G!Banks
  PROVE  /\ Transfer(<<G!Byte(r, bank, v)>>)
         /\ \A q \in G!Registers, b \in G!Banks :
              Touches(<<G!Byte(r, bank, v)>>, q, b) <=> q = r /\ b = bank
<1>1. G!Byte(r, bank, v) \in [reg : G!Registers, bank : G!Banks, value : SUBSET G!Pins]
  BY DEF G!Byte
<1> QED
  BY <1>1 DEF Transfer, G!Byte, Touches

\* The two bytes of a register.
LEMMA WordBytes ==
  ASSUME G!BanksAssumption, NEW r \in G!Registers, NEW v \in SUBSET G!Pins
  PROVE  /\ Transfer(<<G!Byte(r, Low, v), G!Byte(r, High, v)>>)
         /\ \A q \in G!Registers, b \in G!Banks :
              Touches(<<G!Byte(r, Low, v), G!Byte(r, High, v)>>, q, b) <=> q = r
<1>1. /\ G!Byte(r, Low, v) \in [reg : G!Registers, bank : G!Banks, value : SUBSET G!Pins]
      /\ G!Byte(r, High, v) \in [reg : G!Registers, bank : G!Banks, value : SUBSET G!Pins]
  BY DEF G!Byte, G!Banks
<1>2. Low # High
  BY DEF G!BanksAssumption
<1> DEFINE bytes == <<G!Byte(r, Low, v), G!Byte(r, High, v)>>
<1>3. /\ Len(bytes) = 2 /\ bytes[1] = G!Byte(r, Low, v) /\ bytes[2] = G!Byte(r, High, v)
      /\ bytes \in Seq([reg : G!Registers, bank : G!Banks, value : SUBSET G!Pins])
  BY <1>1
<1>4. \A i \in 1 .. 2 : i = 1 \/ i = 2
  OBVIOUS
<1> HIDE DEF bytes
<1>5. Transfer(bytes)
  BY <1>2, <1>3, <1>4 DEF Transfer, G!Byte
<1>6. \A q \in G!Registers, b \in G!Banks : Touches(bytes, q, b) <=> q = r
  BY <1>3, <1>4 DEF Touches, G!Byte, G!Banks
<1> QED
  BY <1>5, <1>6 DEF bytes

\* tca9534_set and tca9534_oe.
LEMMA TcaAgrees ==
  ASSUME G!BanksAssumption, ExpanderInv, chip = "tca9534", UNCHANGED chip,
         NEW r \in {"set", "oe"}, NEW pins \in SUBSET G!Pins, NEW value \in SUBSET G!Pins,
         G!tca9534_write(r, pins, value)
  PROVE  ExpanderInv'
<1> DEFINE new == G!Merged(r, pins, value)
           bytes == <<G!Byte(r, Low, new)>>
<1>1. /\ r \in G!Registers /\ r # "pull_en" /\ Low \in G!Banks /\ High \in G!Banks
      /\ G!Banks = {Low, High} /\ Low \cap High = {} /\ Low \subseteq G!Pins
  BY DEF G!Registers, G!Banks, G!BanksAssumption, G!Pins
<1>2. new \in SUBSET G!Pins
  BY <1>1 DEF G!Merged, ExpanderInv, ExpanderTypes
<1>3. /\ cache' = [cache EXCEPT ![r] = new \cap Low]
      /\ G!pr_i2c_bus_write(bytes)
  BY DEF G!tca9534_write
<1> HIDE DEF new
<1>4. /\ Transfer(bytes)
      /\ \A q \in G!Registers, b \in G!Banks : Touches(bytes, q, b) <=> q = r /\ b = Low
  BY <1>1, <1>2, ByteBytes
<1>5. cache' \in [G!Registers -> SUBSET G!Pins]
  BY <1>1, <1>2, <1>3 DEF ExpanderInv, ExpanderTypes
<1>6. cache'[r] = new \cap Low /\ \A q \in G!Registers \ {r} : cache'[q] = cache[q]
  BY <1>1, <1>3 DEF ExpanderInv, ExpanderTypes
<1>7. /\ G!Kept(r)' = new \cap Low /\ G!Kept(r) \cap High = {}
      /\ \A q \in G!Registers \ {r} : G!Kept(q)' = G!Kept(q)
  BY <1>1, <1>6 DEF G!Kept, G!PullEnabled, ExpanderInv, ExpanderTypes, G!Registers
<1>8. \A i \in 1 .. Len(bytes), q \in G!Registers :
        bytes[i].reg = q => bytes[i].value = G!Kept(q)' \cap bytes[i].bank
  BY <1>7 DEF G!Byte
<1>9. \A q \in G!Registers, b \in G!Banks :
        ~Touches(bytes, q, b) => G!Kept(q)' \cap b = G!Kept(q) \cap b
  BY <1>1, <1>4, <1>7
<1> HIDE DEF bytes
<1>10. G!CachesAgree' /\ onchip' \in [G!Registers -> SUBSET G!Pins]
  BY <1>3, <1>4, <1>8, <1>9, WriteAgrees
<1>11. \A q \in G!Registers : onchip'[q] \subseteq Low
  <2>1. \A q \in G!Registers : onchip'[q] \cap High = onchip[q] \cap High
    BY <1>1, <1>3, <1>4, BusWrites DEF ExpanderInv, ExpanderTypes
  <2>2. \A q \in G!Registers : onchip[q] \cap High = {} /\ onchip'[q] \subseteq G!Pins
    BY <1>1, <1>10 DEF ExpanderInv, ExpanderTypes
  <2> QED
    BY <2>1, <2>2 DEF G!Pins
<1>12. (\A q \in G!Registers : cache'[q] \subseteq Low) /\ cache'["pull_en"] = {}
  BY <1>1, <1>6 DEF ExpanderInv, ExpanderTypes, G!Registers
<1> QED
  BY <1>5, <1>10, <1>11, <1>12 DEF ExpanderInv, ExpanderTypes

\* pca9575_set and pca9575_oe: what is not written has not changed.
LEMMA PcaAgrees ==
  ASSUME G!BanksAssumption, ExpanderInv, chip = "pca9575", UNCHANGED chip,
         NEW r \in {"set", "oe"}, NEW pins \in SUBSET G!Pins, NEW value \in SUBSET G!Pins,
         G!pca9575_write(r, pins, value)
  PROVE  ExpanderInv'
<1> DEFINE new == G!Merged(r, pins, value)
           changed == (cache[r] \ new) \cup (new \ cache[r])
<1>1. /\ r \in G!Registers /\ r # "pull_en" /\ Low \in G!Banks /\ High \in G!Banks
      /\ G!Banks = {Low, High} /\ Low \cap High = {}
  BY DEF G!Registers, G!Banks, G!BanksAssumption
<1>2. new \in SUBSET G!Pins
  BY <1>1 DEF G!Merged, ExpanderInv, ExpanderTypes
<1>3. /\ cache' = [cache EXCEPT ![r] = new]
      /\ IF changed = {} THEN UNCHANGED <<onchip, unknown>>
         ELSE IF changed \cap High = {}
         THEN G!pr_i2c_bus_write(<<G!Byte(r, Low, new)>>)
         ELSE G!pr_i2c_bus_write(<<G!Byte(r, Low, new), G!Byte(r, High, new)>>)
  BY DEF G!pca9575_write
<1>4. cache' \in [G!Registers -> SUBSET G!Pins] /\ cache \in [G!Registers -> SUBSET G!Pins]
  BY <1>1, <1>2, <1>3 DEF ExpanderInv, ExpanderTypes
<1>5. cache'[r] = new /\ \A q \in G!Registers \ {r} : cache'[q] = cache[q]
  BY <1>1, <1>3, <1>4
<1>6. /\ G!Kept(r)' = new /\ G!Kept(r) = cache[r]
      /\ \A q \in G!Registers \ {r} : G!Kept(q)' = G!Kept(q)
  BY <1>1, <1>5 DEF G!Kept, G!PullEnabled, G!Registers
<1> HIDE DEF new
<1>7. CASE changed = {}
  <2>1. UNCHANGED <<onchip, unknown>> /\ cache' = cache
    BY <1>1, <1>3, <1>4, <1>7
  <2> QED
    BY <2>1 DEF ExpanderInv, ExpanderTypes, G!CachesAgree, G!Kept, G!PullEnabled
<1>8. CASE changed # {} /\ changed \cap High = {}
  <2> DEFINE bytes == <<G!Byte(r, Low, new)>>
  <2>1. /\ Transfer(bytes)
        /\ \A q \in G!Registers, b \in G!Banks : Touches(bytes, q, b) <=> q = r /\ b = Low
    BY <1>1, <1>2, ByteBytes
  <2>2. \A i \in 1 .. Len(bytes), q \in G!Registers :
          bytes[i].reg = q => bytes[i].value = G!Kept(q)' \cap bytes[i].bank
    BY <1>6 DEF G!Byte
  <2>3. new \cap High = cache[r] \cap High
    BY <1>8
  <2>4. \A q \in G!Registers, b \in G!Banks :
          ~Touches(bytes, q, b) => G!Kept(q)' \cap b = G!Kept(q) \cap b
    BY <1>1, <1>6, <2>1, <2>3
  <2>5. G!pr_i2c_bus_write(bytes)
    BY <1>3, <1>8
  <2> HIDE DEF bytes
  <2> QED
    BY <1>4, <2>1, <2>2, <2>4, <2>5, WriteAgrees DEF ExpanderInv, ExpanderTypes
<1>9. CASE changed # {} /\ changed \cap High # {}
  <2> DEFINE bytes == <<G!Byte(r, Low, new), G!Byte(r, High, new)>>
  <2>1. /\ Transfer(bytes)
        /\ \A q \in G!Registers, b \in G!Banks : Touches(bytes, q, b) <=> q = r
    BY <1>2, <1>1, WordBytes
  <2>2. \A i \in 1 .. Len(bytes), q \in G!Registers :
          bytes[i].reg = q => bytes[i].value = G!Kept(q)' \cap bytes[i].bank
    BY <1>6 DEF G!Byte
  <2>4. \A q \in G!Registers, b \in G!Banks :
          ~Touches(bytes, q, b) => G!Kept(q)' \cap b = G!Kept(q) \cap b
    BY <1>6, <2>1
  <2>5. G!pr_i2c_bus_write(bytes)
    BY <1>3, <1>9
  <2> HIDE DEF bytes
  <2> QED
    BY <1>4, <2>1, <2>2, <2>4, <2>5, WriteAgrees DEF ExpanderInv, ExpanderTypes
<1> QED
  BY <1>7, <1>8, <1>9

\* pca9575_pull_en: four bytes, of two registers.
LEMMA PullAgrees ==
  ASSUME G!BanksAssumption, ExpanderInv, chip = "pca9575", UNCHANGED chip,
         NEW pins \in SUBSET G!Pins, NEW enable \in SUBSET G!Pins, NEW bias \in SUBSET G!Pins,
         G!pca9575_pull_en(pins, enable, bias)
  PROVE  ExpanderInv'
<1> DEFINE en == G!Merged("pull_en", pins, enable)
           pull == G!Merged("pull_bias", pins, bias)
           bytes == <<G!Byte("pull_en", Low, G!PullEnabled(en)), G!Byte("pull_en", High, G!PullEnabled(en)),
                     G!Byte("pull_bias", Low, pull), G!Byte("pull_bias", High, pull)>>
<1>1. /\ Low \in G!Banks /\ High \in G!Banks /\ G!Banks = {Low, High} /\ Low # High
      /\ "pull_en" \in G!Registers /\ "pull_bias" \in G!Registers
  BY DEF G!Registers, G!Banks, G!BanksAssumption
<1>2. en \in SUBSET G!Pins /\ pull \in SUBSET G!Pins /\ G!PullEnabled(en) \in SUBSET G!Pins
  BY DEF G!Merged, G!PullEnabled, G!Banks, G!Pins, ExpanderInv, ExpanderTypes, G!Registers
<1>3. /\ cache' = [cache EXCEPT !["pull_en"] = en, !["pull_bias"] = pull]
      /\ G!pr_i2c_bus_write(bytes)
  BY DEF G!pca9575_pull_en
<1> HIDE DEF en, pull
<1>4. /\ cache' \in [G!Registers -> SUBSET G!Pins]
      /\ cache'["pull_en"] = en /\ cache'["pull_bias"] = pull
      /\ \A q \in G!Registers \ {"pull_en", "pull_bias"} : cache'[q] = cache[q]
  BY <1>1, <1>2, <1>3 DEF ExpanderInv, ExpanderTypes
<1>5. /\ G!Kept("pull_en")' = G!PullEnabled(en) /\ G!Kept("pull_bias")' = pull
      /\ \A q \in G!Registers \ {"pull_en", "pull_bias"} : G!Kept(q)' = G!Kept(q)
  BY <1>4 DEF G!Kept, G!PullEnabled
<1>6. /\ Len(bytes) = 4
      /\ bytes[1] = G!Byte("pull_en", Low, G!PullEnabled(en))
      /\ bytes[2] = G!Byte("pull_en", High, G!PullEnabled(en))
      /\ bytes[3] = G!Byte("pull_bias", Low, pull) /\ bytes[4] = G!Byte("pull_bias", High, pull)
  OBVIOUS
<1>7. \A i \in 1 .. 4 : i = 1 \/ i = 2 \/ i = 3 \/ i = 4
  OBVIOUS
<1>8. \A q \in G!Registers, b \in G!Banks, v \in SUBSET G!Pins :
        G!Byte(q, b, v) \in [reg : G!Registers, bank : G!Banks, value : SUBSET G!Pins]
  BY DEF G!Byte
<1>9. bytes \in Seq([reg : G!Registers, bank : G!Banks, value : SUBSET G!Pins])
  BY <1>1, <1>2, <1>8
<1> HIDE DEF bytes
<1>10. Transfer(bytes)
  BY <1>1, <1>6, <1>7, <1>9 DEF Transfer, G!Byte
<1>11. \A q \in G!Registers, b \in G!Banks :
         Touches(bytes, q, b) <=> q \in {"pull_en", "pull_bias"}
  BY <1>1, <1>6, <1>7 DEF Touches, G!Byte
<1>12. \A i \in 1 .. Len(bytes), q \in G!Registers :
         bytes[i].reg = q => bytes[i].value = G!Kept(q)' \cap bytes[i].bank
  BY <1>5, <1>6, <1>7 DEF G!Byte
<1>13. \A q \in G!Registers, b \in G!Banks :
         ~Touches(bytes, q, b) => G!Kept(q)' \cap b = G!Kept(q) \cap b
  BY <1>5, <1>11
<1>14. G!CachesAgree' /\ onchip' \in [G!Registers -> SUBSET G!Pins]
  BY <1>3, <1>10, <1>12, <1>13, WriteAgrees
<1> QED
  BY <1>4, <1>14 DEF ExpanderInv, ExpanderTypes

\* Each step preserves the invariant.
LEMMA NextExpander == ASSUME G!BanksAssumption PROVE ExpanderInv /\ [G!Next]_(G!vars) => ExpanderInv'
<1> SUFFICES ASSUME ExpanderInv, [G!Next]_(G!vars) PROVE ExpanderInv'
  OBVIOUS
<1>1. ASSUME NEW r \in {"set", "oe"}, G!pr_i2c_gpio_write(r) PROVE ExpanderInv'
  BY <1>1, TcaAgrees, PcaAgrees DEF G!pr_i2c_gpio_write, G!Request
<1>2. CASE G!pr_i2c_gpio_pull_en
  <2>1. CASE chip = "tca9534"
    <3>1. UNCHANGED <<chip, cache, onchip, unknown>>
      BY <1>2, <2>1 DEF G!pr_i2c_gpio_pull_en, G!Request
    <3> QED
      BY <3>1 DEF ExpanderInv, ExpanderTypes, G!CachesAgree, G!Kept, G!PullEnabled
  <2>2. CASE chip = "pca9575"
    <3>1. PICK pins, enable, bias \in {{}, Low, G!Pins} : G!pca9575_pull_en(pins, enable, bias)
      BY <1>2, <2>2 DEF G!pr_i2c_gpio_pull_en
    <3>2. pins \in SUBSET G!Pins /\ enable \in SUBSET G!Pins /\ bias \in SUBSET G!Pins
      BY DEF G!Pins
    <3> QED
      BY <1>2, <2>2, <3>1, <3>2, PullAgrees DEF G!pr_i2c_gpio_pull_en, G!Request
  <2> QED
    BY <2>1, <2>2 DEF ExpanderInv, ExpanderTypes, G!Chip
<1>3. CASE G!pr_i2c_gpio_get
  <2>1. UNCHANGED <<chip, cache, onchip, unknown>>
    BY <1>3 DEF G!pr_i2c_gpio_get, G!Request
  <2> QED
    BY <2>1 DEF ExpanderInv, ExpanderTypes, G!CachesAgree, G!Kept, G!PullEnabled
<1>4. CASE UNCHANGED G!vars
  BY <1>4 DEF G!vars, ExpanderInv, ExpanderTypes, G!CachesAgree, G!Kept, G!PullEnabled
<1> QED
  BY <1>1, <1>2, <1>3, <1>4 DEF G!Next, G!pr_i2c_gpio_set, G!pr_i2c_gpio_oe

\* Whatever the calls, the pins and the transfers that fail: a bank whose last
\* write went through is on the chip as it is cached, also when the call left it
\* out (i2c_gpio.c:22-40, 84-128).
THEOREM ExpanderAgrees == ASSUME G!BanksAssumption PROVE G!Spec => []G!CachesAgree
<1>1. ExpanderInv => G!CachesAgree
  BY DEF ExpanderInv
<1> QED
  BY <1>1, InitExpander, NextExpander, PTL DEF G!Spec

----------------------------------------------------------------------------
(* SpiMaster, for any devices, buffers, chunks and transfers.              *)

\* The device of a transfer is the only one selected, and what has gone through is
\* what was to go.
Moving ==
  /\ xfer.dev \in Devs
  /\ xfer.mosi \in Seq(S!Byte)
  /\ xfer.count \in 0 .. Len(Said)
  /\ xfer.mosi # << >> => xfer.count = Len(xfer.mosi)
  /\ xfer.reads \in BOOLEAN
  /\ done \in 0 .. xfer.count
  /\ keeper \in {S!None, xfer.dev}
  /\ {d \in Devs : S!Lowered(d)} = {xfer.dev}

\* A pushed chip select is always driven, and one in open drain never up.
Driven == \A d \in Devs : IF d.pp THEN d \in output ELSE level[d] = 0

SpiInv ==
  /\ level \in [Devs -> {0, 1}] /\ output \subseteq Devs
  /\ Driven
  /\ keeper \in Devs \cup {S!None}
  /\ xfer # S!None => Moving
  /\ S!TransfersExact

\* To turn bytes around twice is to leave them alone.
LEMMA OnWireTwice ==
  ASSUME S!SpiAssumption, NEW d \in Devs, NEW bytes \in Seq(S!Byte)
  PROVE  S!OnWire(d, S!OnWire(d, bytes)) = bytes
<1>1. \A b \in S!Byte : S!bitrev(b) \in S!Byte /\ S!bitrev(S!bitrev(b)) = b
  <2> TAKE b \in S!Byte
  <2>1. S!bitrev(b) = {7 - n : n \in b} /\ S!bitrev(S!bitrev(b)) = {7 - n : n \in S!bitrev(b)}
    BY DEF S!bitrev
  <2>2. \A n \in b : n \in 0 .. 7 /\ 7 - n \in 0 .. 7 /\ 7 - (7 - n) = n
    BY DEF S!Byte
  <2>3. \A n \in S!bitrev(b) : \E m \in b : n = 7 - m
    BY <2>1
  <2>4. \A m \in b : 7 - m \in S!bitrev(b)
    BY <2>1
  <2>5. S!bitrev(b) \in S!Byte
    BY <2>2, <2>3 DEF S!Byte
  <2>6. \A n \in S!bitrev(S!bitrev(b)) : n \in b
    BY <2>1, <2>2, <2>3
  <2>7. \A n \in b : n \in S!bitrev(S!bitrev(b))
    BY <2>1, <2>2, <2>4
  <2> QED
    BY <2>5, <2>6, <2>7
<1>2. CASE ~d.lsb_first
  BY <1>2 DEF S!OnWire
<1>3. CASE d.lsb_first
  <2>1. Len(bytes) \in Nat /\ DOMAIN bytes = 1 .. Len(bytes)
        /\ \A i \in DOMAIN bytes : bytes[i] \in S!Byte
    BY LenProperties, ElementOfSeq
  <2>2. /\ DOMAIN S!bitrev_buf(bytes) = DOMAIN bytes
        /\ \A i \in DOMAIN bytes : S!bitrev_buf(bytes)[i] = S!bitrev(bytes[i])
    BY DEF S!bitrev_buf
  <2>3. /\ DOMAIN S!bitrev_buf(S!bitrev_buf(bytes)) = DOMAIN bytes
        /\ \A i \in DOMAIN bytes : S!bitrev_buf(S!bitrev_buf(bytes))[i] = bytes[i]
    BY <1>1, <2>1, <2>2 DEF S!bitrev_buf
  <2>4. S!bitrev_buf(S!bitrev_buf(bytes)) = [i \in DOMAIN bytes |-> bytes[i]]
    BY <2>3 DEF S!bitrev_buf
  <2>5. bytes = [i \in DOMAIN bytes |-> bytes[i]]
    BY <2>1
  <2> QED
    BY <1>3, <2>4, <2>5 DEF S!OnWire
<1>4. d.lsb_first \in BOOLEAN
  BY DEF S!SpiAssumption
<1> QED
  BY <1>2, <1>3, <1>4

\* The next piece of a buffer goes on where the last has ended.
LEMMA PieceAdded ==
  ASSUME NEW bytes \in Seq(S!Byte), NEW m \in Nat, NEW n \in Nat, m + n <= Len(bytes)
  PROVE  /\ SubSeq(bytes, m + 1, m + n) \in Seq(S!Byte)
         /\ SubSeq(bytes, 1, m) \o SubSeq(bytes, m + 1, m + n) = SubSeq(bytes, 1, m + n)
<1>1. Len(bytes) \in Nat /\ \A i \in 1 .. Len(bytes) : bytes[i] \in S!Byte
  BY LenProperties, ElementOfSeq
<1>2. \A i \in m + 1 .. m + n : bytes[i] \in S!Byte
  BY <1>1
<1>3. SubSeq(bytes, m + 1, m + n) \in Seq(S!Byte)
  BY <1>2, SubSeqProperties
<1>4. 1 \in 1 .. Len(bytes) + 1 /\ m \in 1 - 1 .. Len(bytes) /\ m + n \in m .. Len(bytes)
  BY <1>1
<1> QED
  BY <1>3, <1>4, ConcatAdjacentSubSeq

\* Zeroes are zeroes from either end.
LEMMA ZeroesAdded ==
  ASSUME S!SpiAssumption, NEW d \in Devs, NEW m \in Nat, NEW n \in Nat
  PROVE  /\ S!OnWire(d, S!Zeroes(n)) = S!Zeroes(n)
         /\ S!Zeroes(m) \o S!Zeroes(n) = S!Zeroes(m + n)
<1>1. \A k \in Nat : /\ S!Zeroes(k) \in Seq(S!Byte) /\ Len(S!Zeroes(k)) = k
                     /\ \A i \in 1 .. k : S!Zeroes(k)[i] = {}
  BY DEF S!Zeroes, S!Byte
<1>2. S!bitrev({}) = {}
  BY DEF S!bitrev
<1>3. S!bitrev_buf(S!Zeroes(n)) = S!Zeroes(n)
  BY <1>2 DEF S!bitrev_buf, S!Zeroes
<1>4. S!Zeroes(m) \o S!Zeroes(n) = S!Zeroes(m + n)
  <2> DEFINE s == S!Zeroes(m)  t == S!Zeroes(n)
  <2>0. /\ s \in Seq(S!Byte) /\ Len(s) = m /\ \A i \in 1 .. m : s[i] = {}
        /\ t \in Seq(S!Byte) /\ Len(t) = n /\ \A i \in 1 .. n : t[i] = {}
    BY <1>1
  <2> HIDE DEF s, t
  <2>1. /\ s \o t \in Seq(S!Byte)
        /\ Len(s \o t) = m + n
        /\ \A i \in 1 .. m + n : (s \o t)[i] = IF i <= m THEN s[i] ELSE t[i - m]
    <3>1. s \in Seq(S!Byte) /\ t \in Seq(S!Byte)
      BY <2>0
    <3>2. /\ s \o t \in Seq(S!Byte)
          /\ Len(s \o t) = Len(s) + Len(t)
          /\ \A i \in 1 .. Len(s) + Len(t) :
               (s \o t)[i] = IF i <= Len(s) THEN s[i] ELSE t[i - Len(s)]
      BY <3>1, ConcatProperties, Zenon
    <3> QED
      BY <2>0, <3>2
  <2>2. \A i \in 1 .. m + n : (s \o t)[i] = {}
    BY <2>0, <2>1
  <2>3. m + n \in Nat
    OBVIOUS
  <2>4. s \o t = S!Zeroes(m + n)
    BY <1>1, <2>1, <2>2, <2>3, SeqEqual
  <2> QED
    BY <2>4 DEF s, t
<1> QED
  BY <1>3, <1>4 DEF S!OnWire

\* Nothing is transferred at first.
LEMMA InitSpi == ASSUME S!SpiAssumption PROVE S!Init => SpiInv
<1> SUFFICES ASSUME S!Init PROVE SpiInv
  OBVIOUS
<1>1. /\ level = [d \in Devs |-> IF d.pp THEN 1 ELSE 0]
      /\ output = {d \in Devs : d.pp}
      /\ keeper = S!None /\ xfer = S!None
  BY DEF S!Init
<1>2. Driven
  BY <1>1 DEF Driven
<1>3. {d \in Devs : S!Lowered(d)} = {}
  BY <1>1 DEF S!Lowered
<1>4. S!TransfersExact
  BY <1>1, <1>3 DEF S!TransfersExact
<1> QED
  BY <1>1, <1>2, <1>4 DEF SpiInv

\* A transfer starts with its device selected.
LEMMA BeginKeepsSpi ==
  ASSUME S!SpiAssumption, SpiInv, NEW d \in Devs, NEW mosi \in Seq(S!Byte),
         NEW reads \in BOOLEAN, NEW count \in 0 .. Len(Said),
         NEW asked \in S!Asks,
         mosi # << >> => count = Len(mosi), S!Begin(d, mosi, reads, count, asked)
  PROVE  SpiInv'
<1>1. /\ xfer = S!None /\ keeper \in {S!None, d} /\ keeper' = keeper
      /\ xfer' = [dev |-> d, mosi |-> mosi, reads |-> reads, count |-> count,
                   flags |-> S!FlagsOf[asked]]
      /\ done' = 0 /\ miso' = << >> /\ heard' = << >> /\ selected' = {}
  BY DEF S!Begin
<1>2. ~S!Has(S!FlagsOf[asked], S!PR_SPI_NO_CS)
  BY DEF S!Has, S!PR_SPI_NO_CS
<1>3. IF d.pp THEN level' = [level EXCEPT ![d] = 0] /\ output' = output
      ELSE output' = output \cup {d} /\ level' = level
  BY <1>2 DEF S!Begin
<1>4. \A e \in Devs : S!Lowered(e) => e = d
  BY <1>1 DEF SpiInv, S!TransfersExact
<1>5. d.pp \in BOOLEAN
  BY DEF S!SpiAssumption
<1>6. /\ level' \in [Devs -> {0, 1}] /\ output' \subseteq Devs
      /\ Driven'
      /\ \A e \in Devs : S!Lowered(e)' <=> e = d
  BY <1>3, <1>4, <1>5 DEF SpiInv, Driven, S!Lowered
<1>7. {e \in Devs : S!Lowered(e)}' = {d}
  BY <1>6
<1>8. xfer' # S!None
  <2>1. DOMAIN xfer' = {"dev", "mosi", "reads", "count", "flags"} /\ DOMAIN S!None = {"dev"}
    BY <1>1 DEF S!None
  <2> QED
    BY <2>1
<1>9. Moving'
  BY <1>1, <1>7 DEF Moving
<1>10. S!Zeroes(0) = << >> /\ SubSeq(mosi, 1, 0) = << >> /\ SubSeq(Said, 1, 0) = << >>
  BY SubSeqEmpty DEF S!Zeroes
<1>11. S!TransfersExact'
  BY <1>1, <1>8, <1>10 DEF S!TransfersExact
<1> QED
  BY <1>1, <1>6, <1>8, <1>9, <1>11 DEF SpiInv

\* A piece is not empty while bytes are left, and no longer than what is left.
LEMMA PieceBounds ==
  ASSUME S!SpiAssumption, Moving, done < xfer.count
  PROVE  S!Piece \in 1 .. xfer.count - done
<1>1. xfer.count \in Nat /\ done \in Nat
  <2>1. Len(Said) \in Nat
    BY LenProperties DEF S!SpiAssumption
  <2> QED
    BY <2>1 DEF Moving
<1>2. S!Left \in 1 .. xfer.count - done
  BY <1>1 DEF S!Left
<1>3. ASSUME NEW a \in Nat \ {0}, NEW b \in Nat \ {0}
      PROVE  S!Min({a, b}) \in Nat \ {0} /\ S!Min({a, b}) <= a
  <2>1. \E x \in {a, b} : \A y \in {a, b} : x <= y
    <3>1. a <= b \/ b <= a
      OBVIOUS
    <3> QED
      BY <3>1
  <2>2. S!Min({a, b}) \in {a, b} /\ \A y \in {a, b} : S!Min({a, b}) <= y
    BY <2>1 DEF S!Min
  <2> QED
    BY <2>2
<1> DEFINE chunk == IF xfer.dev.lsb_first THEN S!Min({S!Left, ChunkSize}) ELSE S!Left
<1>4. chunk \in 1 .. S!Left
  BY <1>2, <1>3 DEF S!SpiAssumption
<1> HIDE DEF chunk
<1>5. S!Min({chunk, ZeroSize}) \in 1 .. chunk
  BY <1>2, <1>3, <1>4 DEF S!SpiAssumption
<1>6. S!Piece = IF xfer.mosi = << >> /\ ~xfer.reads THEN S!Min({chunk, ZeroSize}) ELSE chunk
  BY DEF S!Piece, chunk
<1> QED
  BY <1>1, <1>2, <1>4, <1>5, <1>6

\* A piece of a transfer keeps the invariant of the SPI.
LEMMA PieceKeepsSpi ==
  ASSUME S!SpiAssumption, SpiInv, S!pr_spi_master_transfer
  PROVE  SpiInv'
<1> DEFINE n == S!Piece  d == xfer.dev
<1>1. /\ xfer # S!None /\ done < xfer.count
      /\ heard' = heard \o S!OnWire(d, IF xfer.mosi = << >> THEN S!Zeroes(n)
                                       ELSE S!OnWire(d, S!Sent(n)))
      /\ miso' = IF xfer.reads THEN miso \o S!OnWire(d, S!Answer(n)) ELSE miso
      /\ selected' = selected \cup {e \in Devs : S!Lowered(e)}
      /\ done' = done + n
      /\ UNCHANGED <<level, output, keeper, xfer>>
  BY DEF S!pr_spi_master_transfer, S!select
<1>2. Moving
  BY <1>1 DEF SpiInv
<1>3. n \in 1 .. xfer.count - done
  BY <1>1, <1>2, PieceBounds
<1>4. Len(Said) \in Nat /\ xfer.count \in Nat /\ done \in Nat /\ xfer.count <= Len(Said)
  <2>1. Len(Said) \in Nat
    BY LenProperties DEF S!SpiAssumption
  <2> QED
    BY <2>1, <1>2 DEF Moving
<1> HIDE DEF n
<1>5. d \in Devs
  BY <1>2 DEF Moving
<1>6. heard = (IF xfer.mosi = << >> THEN S!Zeroes(done) ELSE SubSeq(xfer.mosi, 1, done))
  BY <1>1 DEF SpiInv, S!TransfersExact
<1>7. heard' = (IF xfer.mosi = << >> THEN S!Zeroes(done + n) ELSE SubSeq(xfer.mosi, 1, done + n))
  <2>1. CASE xfer.mosi = << >>
    <3>1. done \in Nat /\ n \in Nat
      BY <1>3, <1>4
    <3>2. /\ S!OnWire(d, S!Zeroes(n)) = S!Zeroes(n)
          /\ S!Zeroes(done) \o S!Zeroes(n) = S!Zeroes(done + n)
      BY <1>5, <3>1, ZeroesAdded, Zenon
    <3> QED
      BY <1>1, <1>6, <2>1, <3>2
  <2>2. CASE xfer.mosi # << >>
    <3>1. xfer.mosi \in Seq(S!Byte) /\ done + n <= Len(xfer.mosi)
      BY <1>2, <1>3, <1>4, <2>2 DEF Moving
    <3>2. /\ S!Sent(n) \in Seq(S!Byte)
          /\ SubSeq(xfer.mosi, 1, done) \o S!Sent(n) = SubSeq(xfer.mosi, 1, done + n)
      BY <1>3, <1>4, <3>1, PieceAdded DEF S!Sent
    <3>3. heard' = heard \o S!Sent(n)
      BY <1>1, <1>5, <2>2, <3>2, OnWireTwice
    <3> QED
      BY <1>6, <2>2, <3>2, <3>3
  <2> QED
    BY <2>1, <2>2
<1>8. miso' = IF xfer.reads THEN SubSeq(Said, 1, done + n) ELSE << >>
  <2>1. miso = IF xfer.reads THEN SubSeq(Said, 1, done) ELSE << >>
    BY <1>1 DEF SpiInv, S!TransfersExact
  <2>2. /\ SubSeq(Said, done + 1, done + n) \in Seq(S!Byte)
        /\ SubSeq(Said, 1, done) \o SubSeq(Said, done + 1, done + n) = SubSeq(Said, 1, done + n)
    <3>1. Said \in Seq(S!Byte) /\ done + n <= Len(Said) /\ n \in Nat
      BY <1>3, <1>4 DEF S!SpiAssumption
    <3> QED
      BY <1>4, <3>1, PieceAdded
  <2>3. S!OnWire(d, S!Answer(n)) = SubSeq(Said, done + 1, done + n)
    <3>1. S!Answer(n) = S!OnWire(d, SubSeq(Said, done + 1, done + n))
      BY DEF S!Answer
    <3>2. S!OnWire(d, S!OnWire(d, SubSeq(Said, done + 1, done + n)))
            = SubSeq(Said, done + 1, done + n)
      <4>1. PICK bytes \in Seq(S!Byte) : bytes = SubSeq(Said, done + 1, done + n)
        BY <2>2
      <4>2. S!OnWire(d, S!OnWire(d, bytes)) = bytes
        BY <1>5, OnWireTwice, Zenon
      <4> QED
        BY <4>1, <4>2
    <3> QED
      BY <3>1, <3>2
  <2> QED
    BY <1>1, <1>2, <2>1, <2>2, <2>3 DEF Moving
<1>9. selected' = {d}
  <2>1. selected \subseteq {d} /\ {e \in Devs : S!Lowered(e)} = {d}
    BY <1>1, <1>2 DEF SpiInv, S!TransfersExact, Moving
  <2> QED
    BY <1>1, <2>1
<1>10. {e \in Devs : S!Lowered(e)}' = {e \in Devs : S!Lowered(e)} /\ Driven'
  BY <1>1 DEF S!Lowered, SpiInv, Driven
<1>11. Moving'
  BY <1>1, <1>2, <1>3, <1>4, <1>10 DEF Moving
<1>12. S!TransfersExact'
  BY <1>1, <1>7, <1>8, <1>9 DEF S!TransfersExact
<1> QED
  BY <1>1, <1>10, <1>11, <1>12 DEF SpiInv

\* So does the end of a transfer.
LEMMA EndKeepsSpi ==
  ASSUME S!SpiAssumption, SpiInv, S!End
  PROVE  SpiInv'
<1> DEFINE d == xfer.dev
<1>1. /\ xfer # S!None /\ xfer' = S!None
      /\ \/ keeper' = d /\ UNCHANGED <<level, output>>
         \/ /\ keeper' = S!None
            /\ IF d.pp THEN level' = [level EXCEPT ![d] = 1] /\ output' = output
               ELSE output' = output \ {d} /\ level' = level
  BY DEF S!End, S!select
<1>2. /\ d \in Devs /\ keeper \in {S!None, d}
      /\ \A e \in Devs : S!Lowered(e) <=> e = d
  <2>1. Moving
    BY <1>1 DEF SpiInv
  <2>2. {e \in Devs : S!Lowered(e)} = {d}
    BY <2>1 DEF Moving
  <2> QED
    BY <2>1, <2>2 DEF Moving
<1>3. d # S!None /\ d.pp \in BOOLEAN
  <2>1. d \in [csn : Nat, pp : BOOLEAN, lsb_first : BOOLEAN]
    BY <1>2 DEF S!SpiAssumption
  <2>2. DOMAIN d = {"csn", "pp", "lsb_first"} /\ DOMAIN S!None = {"dev"}
    BY <2>1 DEF S!None
  <2> QED
    BY <2>1, <2>2
<1> HIDE DEF d
<1>4. CASE keeper' = d /\ UNCHANGED <<level, output>>
  <2>1. {e \in Devs : S!Lowered(e)}' = {d} /\ Driven'
    BY <1>2, <1>4 DEF S!Lowered, SpiInv, Driven
  <2>2. S!TransfersExact'
    BY <1>1, <1>3, <1>4, <2>1 DEF S!TransfersExact
  <2> QED
    BY <1>1, <1>2, <1>4, <2>1, <2>2 DEF SpiInv
<1>5. CASE /\ keeper' = S!None
           /\ IF d.pp THEN level' = [level EXCEPT ![d] = 1] /\ output' = output
              ELSE output' = output \ {d} /\ level' = level
  <2>1. /\ level' \in [Devs -> {0, 1}] /\ output' \subseteq Devs
        /\ Driven'
        /\ \A e \in Devs : ~S!Lowered(e)'
    BY <1>2, <1>3, <1>5 DEF SpiInv, Driven, S!Lowered
  <2>2. {e \in Devs : S!Lowered(e)}' = {}
    BY <2>1
  <2>3. S!TransfersExact'
    BY <1>1, <1>5, <2>2 DEF S!TransfersExact
  <2> QED
    BY <1>1, <1>5, <2>1, <2>3 DEF SpiInv
<1> QED
  BY <1>1, <1>4, <1>5

\* So does each step.
LEMMA NextSpi == ASSUME S!SpiAssumption PROVE SpiInv /\ [S!Next]_(S!vars) => SpiInv'
<1> SUFFICES ASSUME SpiInv, [S!Next]_(S!vars) PROVE SpiInv'
  OBVIOUS
<1>1. ASSUME NEW d \in Devs, NEW reads \in BOOLEAN,
             NEW asked \in S!Asks,
             NEW mosi \in Contents, S!Begin(d, mosi, reads, Len(mosi), asked)
      PROVE  SpiInv'
  <2>1. mosi \in Seq(S!Byte) /\ Len(mosi) <= Len(Said) /\ Len(Said) \in Nat
    BY LenProperties DEF S!SpiAssumption
  <2>2. Len(mosi) \in 0 .. Len(Said)
    BY <2>1, LenProperties
  <2> QED
    BY <1>1, <2>1, <2>2, BeginKeepsSpi
<1>2. ASSUME NEW d \in Devs, NEW reads \in BOOLEAN,
             NEW asked \in S!Asks,
             NEW count \in 1 .. Len(Said), S!Begin(d, << >>, reads, count, asked)
      PROVE  SpiInv'
  <2>1. << >> \in Seq(S!Byte) /\ count \in 0 .. Len(Said)
    OBVIOUS
  <2> QED
    BY <1>2, <2>1, BeginKeepsSpi
<1>3. CASE UNCHANGED S!vars
  BY <1>3 DEF S!vars, S!select, SpiInv, Driven, Moving, S!Lowered, S!TransfersExact
<1> QED
  BY <1>1, <1>2, <1>3, PieceKeepsSpi, EndKeepsSpi DEF S!Next

----------------------------------------------------------------------------
(* PixelLed, for a strip of any length and a queue of any depth: a frame   *)
(* leaves whole and in order.                                              *)

Refresh(s) == P!Task("refresh", s)
Finish(s) == P!Task("done", s)

\* The schedule of a strip's two tasks, and which of them are to come.
StripSchedule(s, ts) ==
  /\ ts \in [pend : {<< >>, <<Refresh(s)>>, <<Finish(s)>>,
                     <<Refresh(s), Finish(s)>>, <<Finish(s), Refresh(s)>>},
             timed : {{}, {Finish(s)}}]
  /\ Finish(s) \in ts.timed => ts.pend \in {<< >>, <<Refresh(s)>>}

RefreshComes(s, ts) == \E i \in DOMAIN ts.pend : ts.pend[i] = Refresh(s)
FinishComes(s, ts) == (\E i \in DOMAIN ts.pend : ts.pend[i] = Finish(s)) \/ Finish(s) \in ts.timed

Words == [pixel : 1 .. Count + 1, colour : Nat]

\* The words of a frame, and those of it that are out or in the queue.
Frame(s) == [p \in P!Pixels |-> P!Word(p, pixel_data[s][p])] \o <<P!Zero>>
SentOf(s) == line[s] \o txfifo[s]

StripTypes(s) ==
  /\ pixel_data \in [Strips -> [P!Pixels -> Nat]]
  /\ pixel_offset \in [Strips -> 0 .. Count]
  /\ refreshing \in [Strips -> BOOLEAN] /\ dirty \in [Strips -> BOOLEAN]
  /\ source \in SUBSET Strips
  /\ txfifo \in [Strips -> Seq(Words)] /\ line \in [Strips -> Seq(Words)]
  /\ Len(txfifo[s]) <= Depth
  /\ StripSchedule(s, tasks)
  /\ doing \in {P!Idle, P!Main("enable", s)}
               \cup [does : {"set"}, strip : Strips, next : Nat, last : P!Pixels]
  /\ calls \in Nat

\* A refresh from its start, over the moving of words and the delay after them, to
\* where nothing of it is left.
Rests(s) ==
  /\ ~refreshing[s] /\ s \notin source /\ doing.does # "enable"
  /\ ~FinishComes(s, tasks) /\ SentOf(s) = << >>
Starts(s) ==
  /\ refreshing[s] /\ ~dirty[s] /\ s \notin source /\ doing.does = "enable"
  /\ ~RefreshComes(s, tasks) /\ ~FinishComes(s, tasks)
  /\ SentOf(s) = << >> /\ pixel_offset[s] = 0
Moves(s) ==
  /\ refreshing[s] /\ ~dirty[s] /\ s \in source /\ doing.does # "enable"
  /\ ~RefreshComes(s, tasks) /\ ~FinishComes(s, tasks)
  /\ SentOf(s) = SubSeq(Frame(s), 1, pixel_offset[s])
Leaves(s) ==
  /\ ~dirty[s] /\ s \notin source /\ doing.does # "enable"
  /\ ~RefreshComes(s, tasks) /\ (FinishComes(s, tasks) => refreshing[s])
  /\ SentOf(s) \in {Frame(s), << >>}

StripInv(s) ==
  /\ StripTypes(s)
  /\ s \notin hurried => Rests(s) \/ Starts(s) \/ Moves(s) \/ Leaves(s)

\* Appending to a sequence of one.
LEMMA AppendOne == ASSUME NEW a, NEW b PROVE Append(<<a>>, b) = <<a, b>>
<1> DEFINE set == {a, b}  u == Append(<<a>>, b)  v == <<a, b>>
<1>1. <<a>> \in Seq(set) /\ b \in set /\ Len(<<a>>) = 1 /\ <<a>>[1] = a
  OBVIOUS
<1>2. v \in Seq(set) /\ Len(v) = 2 /\ v[1] = a /\ v[2] = b
  OBVIOUS
<1>3. u \in Seq(set) /\ Len(u) = 2 /\ u[1] = a /\ u[2] = b
  BY <1>1, AppendProperties
<1> HIDE DEF u, v, set
<1>4. \A i \in 1 .. Len(u) : u[i] = v[i]
  <2>1. \A i \in 1 .. 2 : i = 1 \/ i = 2
    OBVIOUS
  <2> QED
    BY <1>2, <1>3, <2>1
<1>5. u = v
  BY <1>2, <1>3, <1>4, SeqEqual
<1> QED
  BY <1>5 DEF u, v

\* What becomes of the schedule.
LEMMA ExecStrip ==
  ASSUME NEW s, NEW ts, StripSchedule(s, ts), NEW t \in {Refresh(s), Finish(s)}
  PROVE  LET e == P!Exec(ts, t) IN
         /\ StripSchedule(s, e)
         /\ RefreshComes(s, e) <=> (RefreshComes(s, ts) \/ t = Refresh(s))
         /\ FinishComes(s, e) <=> (FinishComes(s, ts) \/ t = Finish(s))
<1>1. Refresh(s) # Finish(s)
  BY DEF Refresh, Finish, P!Task
<1>2. P!Scheduled(ts, t) <=> \E i \in DOMAIN ts.pend : ts.pend[i] = t
  BY DEF P!Scheduled, P!ToSet
<1> DEFINE r == Refresh(s)  f == Finish(s)  e == P!Exec(ts, t)
<1>3. /\ ts.pend \in {<< >>, <<r>>, <<f>>, <<r, f>>, <<f, r>>}
      /\ ts.timed \in {{}, {f}} /\ ts = [pend |-> ts.pend, timed |-> ts.timed]
      /\ f \in ts.timed => ts.pend \in {<< >>, <<r>>}
  BY DEF StripSchedule
<1>4. e = IF P!Scheduled(ts, t) THEN ts
          ELSE [pend |-> Append(ts.pend, t), timed |-> ts.timed \ {t}]
  BY DEF P!Exec
<1> HIDE DEF r, f, e
<1>5. t \in {r, f} /\ r # f
  BY <1>1 DEF r, f
<1>6. CASE P!Scheduled(ts, t)
  BY <1>2, <1>4, <1>6 DEF RefreshComes, FinishComes, e
<1>7. CASE ~P!Scheduled(ts, t)
  <2>1. e.pend = Append(ts.pend, t) /\ e.timed = ts.timed \ {t}
        /\ e = [pend |-> e.pend, timed |-> e.timed]
    BY <1>4, <1>7
  <2>2. CASE ts.pend = << >>
    <3>1. e.pend = <<t>>
      BY <2>1, <2>2
    <3> QED
      BY <1>3, <1>5, <2>1, <2>2, <3>1 DEF StripSchedule, RefreshComes, FinishComes, r, f, e
  <2>3. CASE ts.pend = <<r>>
    <3>1. ts.pend[1] = r /\ 1 \in DOMAIN ts.pend
      BY <2>3
    <3>2. t = f
      BY <1>2, <1>5, <1>7, <3>1
    <3>4. Append(<<r>>, f) = <<r, f>>
      BY AppendOne
    <3>3. e.pend = <<r, f>>
      BY <2>1, <2>3, <3>2, <3>4, Zenon
    <3> QED
      BY <1>3, <1>5, <2>1, <2>3, <3>2, <3>3 DEF StripSchedule, RefreshComes, FinishComes, r, f, e
  <2>4. CASE ts.pend = <<f>>
    <3>1. ts.pend[1] = f /\ 1 \in DOMAIN ts.pend
      BY <2>4
    <3>2. t = r
      BY <1>2, <1>5, <1>7, <3>1
    <3>4. Append(<<f>>, r) = <<f, r>>
      BY AppendOne
    <3>3. e.pend = <<f, r>>
      BY <2>1, <2>4, <3>2, <3>4, Zenon
    <3> QED
      BY <1>3, <1>5, <2>1, <2>4, <3>2, <3>3 DEF StripSchedule, RefreshComes, FinishComes, r, f, e
  <2>5. CASE ts.pend \in {<<r, f>>, <<f, r>>}
    BY <1>2, <1>5, <1>7, <2>5
  <2> QED
    BY <1>3, <2>2, <2>3, <2>4, <2>5
<1> QED
  BY <1>6, <1>7 DEF e

\* A timer set for the strip replaces the one there was.
LEMMA ExecInStrip ==
  ASSUME NEW s, NEW ts, StripSchedule(s, ts)
  PROVE  LET e == P!ExecIn(ts, Finish(s)) IN
         /\ StripSchedule(s, e)
         /\ RefreshComes(s, e) <=> RefreshComes(s, ts)
<1> DEFINE r == Refresh(s)  f == Finish(s)  e == P!ExecIn(ts, f)
<1>1. r # f
  BY DEF Refresh, Finish, P!Task
<1>2. P!Scheduled(ts, f) <=> \E i \in DOMAIN ts.pend : ts.pend[i] = f
  BY DEF P!Scheduled, P!ToSet
<1>3. /\ ts.pend \in {<< >>, <<r>>, <<f>>, <<r, f>>, <<f, r>>}
      /\ ts.timed \in {{}, {f}} /\ ts = [pend |-> ts.pend, timed |-> ts.timed]
      /\ f \in ts.timed => ts.pend \in {<< >>, <<r>>}
  BY DEF StripSchedule
<1>4. e = IF P!Scheduled(ts, f) THEN ts ELSE [ts EXCEPT !.timed = @ \cup {f}]
  BY DEF P!ExecIn
<1> HIDE DEF r, f, e
<1>5. CASE P!Scheduled(ts, f)
  BY <1>4, <1>5 DEF e, f
<1>6. CASE ~P!Scheduled(ts, f)
  <2>1. e.pend = ts.pend /\ e.timed = {f} /\ e = [pend |-> e.pend, timed |-> e.timed]
    BY <1>3, <1>4, <1>6
  <2>2. ts.pend \in {<< >>, <<r>>}
    BY <1>1, <1>2, <1>3, <1>6
  <2> QED
    BY <1>3, <2>1, <2>2 DEF StripSchedule, RefreshComes, r, f, e
<1> QED
  BY <1>5, <1>6 DEF e, f

\* A task taken to be run is no longer scheduled.
LEMMA PopStrip ==
  ASSUME NEW s, NEW ts, StripSchedule(s, ts), ts.pend # << >>
  PROVE  LET e == [ts EXCEPT !.pend = Tail(@)] IN
         /\ StripSchedule(s, e)
         /\ Head(ts.pend) = Refresh(s) => /\ RefreshComes(s, ts) /\ ~RefreshComes(s, e)
                                          /\ FinishComes(s, e) <=> FinishComes(s, ts)
         /\ Head(ts.pend) = Finish(s) => /\ FinishComes(s, ts) /\ ~FinishComes(s, e)
                                         /\ RefreshComes(s, e) <=> RefreshComes(s, ts)
<1> DEFINE r == Refresh(s)  f == Finish(s)  e == [ts EXCEPT !.pend = Tail(@)]
<1>1. r # f
  BY DEF Refresh, Finish, P!Task
<1>3. /\ ts.pend \in {<<r>>, <<f>>, <<r, f>>, <<f, r>>}
      /\ ts.timed \in {{}, {f}} /\ ts = [pend |-> ts.pend, timed |-> ts.timed]
      /\ f \in ts.timed => ts.pend = <<r>>
  BY DEF StripSchedule
<1>4. e = [pend |-> Tail(ts.pend), timed |-> ts.timed]
  BY <1>3
<1> HIDE DEF r, f, e
<1>5. CASE ts.pend = <<r>>
  <2>1. e.pend = << >> /\ Head(ts.pend) = r /\ e.timed = ts.timed
    BY <1>4, <1>5
  <2> QED
    BY <1>1, <1>3, <1>4, <1>5, <2>1 DEF StripSchedule, RefreshComes, FinishComes, r, f, e
<1>6. CASE ts.pend = <<f>>
  <2>1. e.pend = << >> /\ Head(ts.pend) = f /\ e.timed = {}
    BY <1>1, <1>3, <1>4, <1>6
  <2> QED
    BY <1>1, <1>3, <1>4, <1>6, <2>1 DEF StripSchedule, RefreshComes, FinishComes, r, f, e
<1>7. CASE ts.pend = <<r, f>>
  <2>1. e.pend = <<f>> /\ Head(ts.pend) = r /\ e.timed = {} /\ ts.timed = {}
    BY <1>1, <1>3, <1>4, <1>7
  <2> QED
    BY <1>1, <1>3, <1>4, <1>7, <2>1 DEF StripSchedule, RefreshComes, FinishComes, r, f, e
<1>8. CASE ts.pend = <<f, r>>
  <2>1. e.pend = <<r>> /\ Head(ts.pend) = f /\ e.timed = {} /\ ts.timed = {}
    BY <1>1, <1>3, <1>4, <1>8
  <2> QED
    BY <1>1, <1>3, <1>4, <1>8, <2>1 DEF StripSchedule, RefreshComes, FinishComes, r, f, e
<1> QED
  BY <1>3, <1>5, <1>6, <1>7, <1>8 DEF e

----------------------------------------------------------------------------

\* The words of a strip.

\* A frame has the words of the pixels, then a word of zeros.
LEMMA FrameType ==
  ASSUME P!StripsAssumption, NEW s \in Strips, StripTypes(s)
  PROVE  /\ Frame(s) \in Seq(Words) /\ Len(Frame(s)) = Count + 1
         /\ \A p \in 1 .. Count : Frame(s)[p] = P!Word(p, pixel_data[s][p])
         /\ Frame(s)[Count + 1] = P!Zero
<1> DEFINE pixels == [p \in P!Pixels |-> P!Word(p, pixel_data[s][p])]
           last == <<P!Zero>>
<1>1. Count \in Nat \ {0}
  BY DEF P!StripsAssumption
<1>2. \A p \in 1 .. Count : P!Word(p, pixel_data[s][p]) \in Words
  BY <1>1 DEF P!Word, Words, StripTypes, P!Pixels
<1>3. pixels \in Seq(Words) /\ Len(pixels) = Count
      /\ \A p \in 1 .. Count : pixels[p] = P!Word(p, pixel_data[s][p])
  BY <1>1, <1>2 DEF P!Pixels
<1>4. last \in Seq(Words) /\ Len(last) = 1 /\ last[1] = P!Zero
  BY <1>1 DEF P!Zero, P!Word, Words
<1>5. Frame(s) = pixels \o last
  BY DEF Frame
<1> HIDE DEF pixels, last
<1>0. /\ pixels \o last \in Seq(Words) /\ Len(pixels \o last) = Len(pixels) + Len(last)
      /\ \A i \in 1 .. Len(pixels) + Len(last) : (pixels \o last)[i] =
                     IF i <= Len(pixels) THEN pixels[i] ELSE last[i - Len(pixels)]
  BY <1>3, <1>4, ConcatProperties, Zenon
<1>6. /\ Frame(s) \in Seq(Words) /\ Len(Frame(s)) = Len(pixels) + Len(last)
      /\ \A i \in 1 .. Len(pixels) + Len(last) : Frame(s)[i] =
                     IF i <= Len(pixels) THEN pixels[i] ELSE last[i - Len(pixels)]
  BY <1>0, <1>5, Zenon
<1>7. Len(Frame(s)) = Count + 1
  BY <1>1, <1>3, <1>4, <1>6
<1>8. \A i \in 1 .. Count + 1 : Frame(s)[i] = IF i <= Count THEN pixels[i] ELSE last[i - Count]
  BY <1>3, <1>4, <1>6, Zenon
<1>9. \A p \in 1 .. Count : Frame(s)[p] = P!Word(p, pixel_data[s][p])
  BY <1>1, <1>3, <1>8
<1>10. Frame(s)[Count + 1] = P!Zero
  BY <1>1, <1>4, <1>8
<1> QED
  BY <1>6, <1>7, <1>9, <1>10

\* Joining words is associative.
LEMMA WordsJoined == \A a, b, c \in Seq(Words) : (a \o b) \o c = a \o (b \o c)
  BY ConcatAssociative

\* Nothing comes only of nothing and nothing.
LEMMA BothEmpty ==
  ASSUME NEW a \in Seq(Words), NEW b \in Seq(Words)
  PROVE  a \o b = << >> <=> a = << >> /\ b = << >>
  BY ConcatEqualIffEmpty, ConcatEmptySeq

\* The first word of the queue leaves.
LEMMA HeadLeaves ==
  ASSUME NEW a \in Seq(Words), NEW b \in Seq(Words), b # << >>
  PROVE  /\ Append(a, Head(b)) \in Seq(Words) /\ Tail(b) \in Seq(Words)
         /\ Len(Tail(b)) = Len(b) - 1
         /\ Append(a, Head(b)) \o Tail(b) = a \o b
<1>1. Head(b) \in Words /\ Tail(b) \in Seq(Words) /\ Len(Tail(b)) = Len(b) - 1
  BY HeadTailProperties
<1>2. Append(a, Head(b)) = a \o <<Head(b)>> /\ Append(a, Head(b)) \in Seq(Words)
      /\ <<Head(b)>> \in Seq(Words)
  BY <1>1, AppendIsConcat, AppendProperties
<1>3. <<Head(b)>> \o Tail(b) = b
  <2> DEFINE h == <<Head(b)>>
  <2>0. Len(b) \in Nat \ {0} /\ Head(b) = b[1] /\ \A i \in 1 .. Len(Tail(b)) : Tail(b)[i] = b[i + 1]
    BY EmptySeq, HeadTailProperties
  <2>1. h \in Seq(Words) /\ Len(h) = 1 /\ h[1] = b[1]
    BY <1>1, <2>0
  <2> HIDE DEF h
  <2>2. /\ h \o Tail(b) \in Seq(Words)
        /\ Len(h \o Tail(b)) = Len(h) + Len(Tail(b))
        /\ \A i \in 1 .. Len(h) + Len(Tail(b)) :
             (h \o Tail(b))[i] = IF i <= Len(h) THEN h[i] ELSE Tail(b)[i - Len(h)]
    BY <1>1, <2>1, ConcatProperties, Zenon
  <2>3. Len(h) + Len(Tail(b)) = Len(b)
    BY <1>1, <2>0, <2>1
  <2>4. /\ h \o Tail(b) \in Seq(Words) /\ Len(h \o Tail(b)) = Len(b)
        /\ \A i \in 1 .. Len(b) : (h \o Tail(b))[i] = IF i <= 1 THEN h[i] ELSE Tail(b)[i - 1]
    BY <2>1, <2>2, <2>3, Zenon
  <2>5. ASSUME NEW i \in 1 .. Len(b) PROVE (h \o Tail(b))[i] = b[i]
    <3>1. CASE i = 1
      BY <2>1, <2>4, <3>1
    <3>2. CASE i # 1
      <4>1. i - 1 \in 1 .. Len(Tail(b)) /\ (i - 1) + 1 = i
        BY <1>1, <2>0, <3>2
      <4> QED
        BY <2>0, <2>4, <3>2, <4>1
    <3> QED
      BY <3>1, <3>2
  <2> QED
    BY <2>4, <2>5, SeqEqual DEF h
<1>4. (a \o <<Head(b)>>) \o Tail(b) = a \o (<<Head(b)>> \o Tail(b))
  BY <1>1, <1>2, WordsJoined, Zenon
<1> QED
  BY <1>1, <1>2, <1>3, <1>4

\* The first o words of f, and the m that follow, are the first o + m.
LEMMA MoreOf ==
  ASSUME NEW f \in Seq(Words), NEW o \in Nat, NEW m \in Nat, o + m <= Len(f),
         NEW a \in Seq(Words), Len(a) = m, \A i \in 1 .. m : a[i] = f[o + i]
  PROVE  SubSeq(f, 1, o) \o a = SubSeq(f, 1, o + m)
<1>1. Len(f) \in Nat /\ \A i \in 1 .. Len(f) : f[i] \in Words
  BY LenProperties, ElementOfSeq
<1> DEFINE u == SubSeq(f, 1, o)  v == SubSeq(f, 1, o + m)
<1>2. u \in Seq(Words) /\ Len(u) = o /\ \A i \in 1 .. o : u[i] = f[i]
  BY <1>1
<1>3. v \in Seq(Words) /\ Len(v) = o + m /\ \A i \in 1 .. o + m : v[i] = f[i]
  BY <1>1
<1> HIDE DEF u, v
<1>4. /\ u \o a \in Seq(Words) /\ Len(u \o a) = Len(u) + Len(a)
      /\ \A i \in 1 .. Len(u) + Len(a) :
           (u \o a)[i] = IF i <= Len(u) THEN u[i] ELSE a[i - Len(u)]
  BY <1>2, ConcatProperties, Zenon
<1>5. /\ Len(u \o a) = o + m
      /\ \A i \in 1 .. o + m : (u \o a)[i] = IF i <= o THEN u[i] ELSE a[i - o]
  BY <1>2, <1>4, Zenon
<1>6. ASSUME NEW i \in 1 .. o + m PROVE (u \o a)[i] = v[i]
  <2>1. CASE i <= o
    <3>1. i \in 1 .. o
      BY <2>1
    <3> QED
      BY <1>2, <1>3, <1>5, <2>1, <3>1
  <2>2. CASE ~(i <= o)
    <3>1. i - o \in 1 .. m /\ o + (i - o) = i
      BY <2>2
    <3> QED
      BY <1>3, <1>5, <2>2, <3>1
  <2> QED
    BY <2>1, <2>2
<1>7. u \o a = v
  BY <1>3, <1>4, <1>5, <1>6, SeqEqual
<1> QED
  BY <1>7 DEF u, v

----------------------------------------------------------------------------

\* The steps.

\* The step leaves the words alone.
SameWords == pixel_data' = pixel_data /\ txfifo' = txfifo /\ line' = line

\* What leaves the words alone leaves the frame and what is sent of it.
LEMMA WordsKept ==
  ASSUME NEW s, SameWords
  PROVE  SentOf(s)' = SentOf(s) /\ Frame(s)' = Frame(s)
  BY DEF SameWords, SentOf, Frame

\* What the main loop is at, and a frame has its words.
LEMMA DoingKinds ==
  ASSUME NEW s, StripTypes(s)
  PROVE  /\ doing = P!Idle \/ doing = P!Main("enable", s) \/ doing.does = "set"
         /\ P!Idle.does = "nothing" /\ P!Main("enable", s).does = "enable"
         /\ doing.does = "set" => /\ doing \in [does : {"set"}, strip : Strips, next : Nat, last : P!Pixels]
                                  /\ doing.strip \in Strips
  BY DEF StripTypes, P!Idle, P!Main

\* A refresh starts from a strip that rests, or is turned away.
LEMMA RefreshKeeps ==
  ASSUME P!StripsAssumption, NEW s, Strips = {s}, StripInv(s), P!on_refresh(s)
  PROVE  StripInv(s)'
<1> DEFINE e == [tasks EXCEPT !.pend = Tail(@)]
<1>1. /\ doing = P!Idle /\ tasks.pend # << >> /\ Head(tasks.pend) = Refresh(s)
      /\ tasks' = e /\ SameWords /\ source' = source /\ calls' = calls /\ hurried' = hurried
  BY DEF P!on_refresh, P!Runs, P!wire, SameWords, Refresh
<1>2. StripSchedule(s, tasks)
  BY DEF StripInv, StripTypes
<1>3. /\ StripSchedule(s, e) /\ RefreshComes(s, tasks) /\ ~RefreshComes(s, e)
      /\ FinishComes(s, e) <=> FinishComes(s, tasks)
  BY <1>1, <1>2, PopStrip
<1> HIDE DEF e
<1>4. P!Idle.does = "nothing" /\ P!Main("enable", s).does = "enable"
  BY DoingKinds DEF StripInv
<1>5. SentOf(s)' = SentOf(s) /\ Frame(s)' = Frame(s)
  BY <1>1, WordsKept
<1>6. CASE refreshing[s]
  <2>1. UNCHANGED <<pixel_offset, refreshing, dirty, doing>>
    BY <1>6 DEF P!on_refresh
  <2>2. StripTypes(s)'
    BY <1>1, <1>3, <2>1 DEF StripInv, StripTypes, SameWords
  <2>3. s \in hurried
    BY <1>1, <1>3, <1>4, <1>6 DEF StripInv, Rests, Starts, Moves, Leaves
  <2> QED
    BY <1>1, <2>2, <2>3 DEF StripInv
<1>7. CASE ~refreshing[s]
  <2>1. /\ refreshing' = [refreshing EXCEPT ![s] = TRUE]
        /\ dirty' = [dirty EXCEPT ![s] = FALSE]
        /\ pixel_offset' = [pixel_offset EXCEPT ![s] = 0]
        /\ doing' = P!Main("enable", s)
    BY <1>7 DEF P!on_refresh
  <2>2. StripTypes(s)'
    BY <1>1, <1>3, <2>1 DEF StripInv, StripTypes, SameWords, P!StripsAssumption
  <2>3. refreshing'[s] /\ ~dirty'[s] /\ pixel_offset'[s] = 0
    BY <2>1 DEF StripInv, StripTypes
  <2>4. s \notin hurried => Rests(s)
    BY <1>3, <1>7 DEF StripInv, Starts, Moves, Leaves
  <2>5. s \notin hurried => Starts(s)'
    BY <1>1, <1>3, <1>4, <1>5, <2>1, <2>3, <2>4 DEF Rests, Starts
  <2> QED
    BY <1>1, <2>2, <2>5 DEF StripInv
<1> QED
  BY <1>6, <1>7

\* Its interrupt is enabled, and the words begin to move.
LEMMA EnableKeeps ==
  ASSUME P!StripsAssumption, NEW s, Strips = {s}, StripInv(s), P!EnableSource(s)
  PROVE  StripInv(s)'
<1>1. /\ doing = P!Main("enable", s) /\ source' = source \cup {s} /\ doing' = P!Idle
      /\ UNCHANGED <<pixel_offset, refreshing, dirty, tasks, calls, hurried>> /\ SameWords
  BY DEF P!EnableSource, P!wire, SameWords
<1>2. P!Idle.does = "nothing" /\ P!Main("enable", s).does = "enable"
  BY DoingKinds DEF StripInv
<1>3. SentOf(s)' = SentOf(s) /\ Frame(s)' = Frame(s)
  BY <1>1, WordsKept
<1>4. StripTypes(s)'
  BY <1>1 DEF StripInv, StripTypes, SameWords
<1>5. s \notin hurried => Starts(s)
  BY <1>1, <1>2 DEF StripInv, Rests, Moves, Leaves
<1>6. s \notin hurried => Moves(s)'
  <2>1. SubSeq(Frame(s), 1, 0) = << >>
    BY SubSeqEmpty
  <2> QED
    BY <1>1, <1>2, <1>3, <1>5, <2>1 DEF Starts, Moves, RefreshComes, FinishComes
<1> QED
  BY <1>1, <1>4, <1>6 DEF StripInv

\* The delay after a frame is over.
LEMMA FinishKeeps ==
  ASSUME P!StripsAssumption, NEW s, Strips = {s}, StripInv(s), P!on_done(s)
  PROVE  StripInv(s)'
<1> DEFINE e == [tasks EXCEPT !.pend = Tail(@)]
<1>1. /\ doing = P!Idle /\ tasks.pend # << >> /\ Head(tasks.pend) = Finish(s)
      /\ refreshing' = [refreshing EXCEPT ![s] = FALSE]
      /\ tasks' = IF dirty[s] THEN P!Exec(e, Refresh(s)) ELSE e
      /\ UNCHANGED <<pixel_offset, dirty, source, doing, calls, hurried>> /\ SameWords
  BY DEF P!on_done, P!ExecIf, P!Runs, P!wire, SameWords, Refresh, Finish
<1>2. StripSchedule(s, tasks)
  BY DEF StripInv, StripTypes
<1>3. /\ StripSchedule(s, e) /\ FinishComes(s, tasks) /\ ~FinishComes(s, e)
      /\ RefreshComes(s, e) <=> RefreshComes(s, tasks)
  BY <1>1, <1>2, PopStrip
<1> HIDE DEF e
<1>4. StripSchedule(s, P!Exec(e, Refresh(s)))
  BY <1>3, ExecStrip
<1>5. P!Idle.does = "nothing"
  BY DEF P!Idle
<1>6. SentOf(s)' = SentOf(s) /\ Frame(s)' = Frame(s)
  BY <1>1, WordsKept
<1>7. StripTypes(s)'
  BY <1>1, <1>3, <1>4 DEF StripInv, StripTypes, SameWords
<1>8. s \notin hurried => Leaves(s)
  BY <1>3 DEF StripInv, Rests, Starts, Moves
<1>9. s \notin hurried => Leaves(s)'
  BY <1>1, <1>3, <1>5, <1>6, <1>8 DEF Leaves
<1> QED
  BY <1>1, <1>7, <1>9 DEF StripInv

\* A strip that its application leaves alone until the frame is out rests.
LEMMA Unhurried ==
  ASSUME NEW s, NEW t, Strips = {s}, t \in Strips, StripInv(s), P!Hurried(t)
  PROVE  /\ t = s /\ hurried \subseteq hurried'
         /\ s \notin hurried' => ~refreshing[s] /\ SentOf(s) = << >> /\ s \notin hurried
<1>1. t = s
  OBVIOUS
<1>2. hurried' = IF P!Quiet(s) THEN hurried ELSE hurried \cup {s}
  BY <1>1 DEF P!Hurried
<1>3. << >> \o << >> = << >>
  OBVIOUS
<1> QED
  BY <1>1, <1>2, <1>3 DEF P!Quiet, SentOf

\* The application sets pixels, one at a time.
LEMMA SetBeginsKeeps ==
  ASSUME P!StripsAssumption, NEW s, Strips = {s}, StripInv(s),
         NEW a \in P!Pixels, NEW b \in P!Pixels, P!pr_pixel_led_set_many(s, a, b)
  PROVE  StripInv(s)'
<1>1. /\ doing = P!Idle /\ doing' = [does |-> "set", strip |-> s, next |-> a, last |-> b]
      /\ calls' = calls + 1
      /\ UNCHANGED <<pixel_offset, refreshing, dirty, source, tasks, hurried>> /\ SameWords
  BY DEF P!pr_pixel_led_set_many, P!strip, P!wire, SameWords
<1>2. P!Idle.does = "nothing" /\ doing'.does = "set"
  BY <1>1 DEF P!Idle
<1>3. SentOf(s)' = SentOf(s) /\ Frame(s)' = Frame(s)
  BY <1>1, WordsKept
<1>4. StripTypes(s)'
  <2>1. doing' \in [does : {"set"}, strip : Strips, next : Nat, last : P!Pixels]
    BY <1>1 DEF P!Pixels
  <2> QED
    BY <1>1, <2>1 DEF StripInv, StripTypes, SameWords
<1>5. s \notin hurried => Rests(s)' \/ Moves(s)' \/ Leaves(s)'
  BY <1>1, <1>2, <1>3 DEF StripInv, Rests, Starts, Moves, Leaves, RefreshComes, FinishComes
<1> QED
  BY <1>1, <1>4, <1>5 DEF StripInv

\* Setting pixels keeps the invariant of the strip.
LEMMA SetKeeps ==
  ASSUME P!StripsAssumption, NEW s, Strips = {s}, StripInv(s), P!pr_pixel_led_set_norefresh
  PROVE  StripInv(s)'
<1>1. doing.does = "set" /\ doing.strip = s
      /\ doing \in [does : {"set"}, strip : Strips, next : Nat, last : P!Pixels]
  BY DoingKinds DEF StripInv, P!pr_pixel_led_set_norefresh
<1>2. /\ doing.next <= doing.last
      /\ dirty' = [dirty EXCEPT ![s] = TRUE]
      /\ pixel_data' = [pixel_data EXCEPT ![s][doing.next] = calls]
      /\ doing' = [doing EXCEPT !.next = @ + 1]
      /\ UNCHANGED <<pixel_offset, refreshing, source, txfifo, line, tasks, calls>>
      /\ P!Hurried(s)
  BY <1>1 DEF P!pr_pixel_led_set_norefresh, P!wire
<1>3. s \notin hurried' => ~refreshing[s] /\ SentOf(s) = << >> /\ s \notin hurried
  BY <1>2, Unhurried
<1>4. doing' \in [does : {"set"}, strip : Strips, next : Nat, last : P!Pixels] /\ doing'.does = "set"
  BY <1>1, <1>2
<1>5. StripTypes(s)'
  BY <1>1, <1>2, <1>4 DEF StripInv, StripTypes
<1>6. SentOf(s)' = SentOf(s)
  BY <1>2 DEF SentOf
<1>7. s \notin hurried' => Rests(s)'
  BY <1>1, <1>2, <1>3, <1>4, <1>6
     DEF StripInv, Rests, Starts, Moves, Leaves, RefreshComes, FinishComes
<1> QED
  BY <1>5, <1>7 DEF StripInv

\* The application asks for a refresh.
LEMMA AskedKeeps ==
  ASSUME P!StripsAssumption, NEW s, Strips = {s}, StripInv(s),
         tasks' = P!Exec(tasks, Refresh(s)), P!Hurried(s), SameWords,
         UNCHANGED <<pixel_offset, refreshing, dirty, source>>, calls' \in Nat,
         doing.does # "enable", doing' = P!Idle
  PROVE  StripInv(s)'
<1>1. s \notin hurried' => ~refreshing[s] /\ SentOf(s) = << >> /\ s \notin hurried
  BY Unhurried
<1>2. StripSchedule(s, tasks)
  BY DEF StripInv, StripTypes
<1>3. StripSchedule(s, tasks') /\ (FinishComes(s, tasks') <=> FinishComes(s, tasks))
  <2>1. Refresh(s) # Finish(s)
    BY DEF Refresh, Finish, P!Task
  <2> QED
    BY <1>2, <2>1, ExecStrip
<1>4. StripTypes(s)'
  BY <1>3 DEF StripInv, StripTypes, SameWords
<1>5. SentOf(s)' = SentOf(s)
  BY WordsKept
<1>6. P!Idle.does = "nothing"
  BY DEF P!Idle
<1>7. s \notin hurried' => Rests(s)'
  BY <1>1, <1>3, <1>5, <1>6 DEF StripInv, Rests, Starts, Moves, Leaves
<1> QED
  BY <1>4, <1>7 DEF StripInv

\* What leaves the queue is out, and after a pause it is a frame of its own.
LEMMA LeavesKeeps ==
  ASSUME P!StripsAssumption, NEW s, Strips = {s}, StripInv(s), P!WordLeaves(s)
  PROVE  StripInv(s)'
<1>1. /\ txfifo[s] # << >>
      /\ line' = [line EXCEPT ![s] = Append(line[s], Head(txfifo[s]))]
      /\ txfifo' = [txfifo EXCEPT ![s] = Tail(txfifo[s])]
      /\ UNCHANGED <<pixel_data, pixel_offset, refreshing, dirty, source, tasks, doing, calls, hurried>>
  BY DEF P!WordLeaves, P!strip
<1>2. txfifo[s] \in Seq(Words) /\ line[s] \in Seq(Words) /\ Len(txfifo[s]) <= Depth
  BY DEF StripInv, StripTypes
<1>3. /\ Append(line[s], Head(txfifo[s])) \in Seq(Words) /\ Tail(txfifo[s]) \in Seq(Words)
      /\ Len(Tail(txfifo[s])) = Len(txfifo[s]) - 1
      /\ Append(line[s], Head(txfifo[s])) \o Tail(txfifo[s]) = line[s] \o txfifo[s]
  BY <1>1, <1>2, HeadLeaves
<1>4. txfifo'[s] = Tail(txfifo[s]) /\ line'[s] = Append(line[s], Head(txfifo[s]))
  BY <1>1 DEF StripInv, StripTypes
<1>5. Len(txfifo'[s]) <= Depth
  BY <1>2, <1>3, <1>4, LenProperties DEF P!StripsAssumption
<1>6. StripTypes(s)'
  BY <1>1, <1>3, <1>5 DEF StripInv, StripTypes
<1>7. SentOf(s)' = SentOf(s) /\ Frame(s)' = Frame(s)
  BY <1>1, <1>3, <1>4 DEF SentOf, Frame
<1>8. s \notin hurried => (Rests(s) \/ Starts(s) \/ Moves(s) \/ Leaves(s))'
  BY <1>1, <1>7 DEF StripInv, Rests, Starts, Moves, Leaves, RefreshComes, FinishComes
<1> QED
  BY <1>1, <1>6, <1>8 DEF StripInv

\* So does the pause that ends a frame.
LEMMA PauseKeeps ==
  ASSUME P!StripsAssumption, NEW s, Strips = {s}, StripInv(s), P!Pause(s)
  PROVE  StripInv(s)'
<1>1. /\ txfifo[s] = << >> /\ line[s] # << >> /\ s \notin source
      /\ line' = [line EXCEPT ![s] = << >>]
      /\ UNCHANGED <<pixel_data, pixel_offset, refreshing, dirty, source, txfifo, tasks, doing,
                     calls, hurried>>
  BY DEF P!Pause, P!strip
<1>2. txfifo[s] \in Seq(Words) /\ line[s] \in Seq(Words)
  BY DEF StripInv, StripTypes
<1>3. SentOf(s) # << >>
  BY <1>1, <1>2, BothEmpty DEF SentOf
<1>4. line'[s] = << >> /\ txfifo'[s] = << >>
  BY <1>1 DEF StripInv, StripTypes
<1>5. SentOf(s)' = << >>
  <2>1. << >> \o << >> = << >>
    OBVIOUS
  <2> QED
    BY <1>4, <2>1 DEF SentOf
<1>6. StripTypes(s)'
  BY <1>1 DEF StripInv, StripTypes
<1>7. s \notin hurried => Leaves(s)
  BY <1>1, <1>3 DEF StripInv, Rests, Starts, Moves
<1>8. s \notin hurried => Leaves(s)'
  BY <1>1, <1>5, <1>7 DEF Leaves, RefreshComes, FinishComes
<1> QED
  BY <1>1, <1>6, <1>8 DEF StripInv

\* So does a timer that expires.
LEMMA TimeoutKeeps ==
  ASSUME P!StripsAssumption, NEW s, Strips = {s}, StripInv(s), P!Timeout
  PROVE  StripInv(s)'
<1>1. StripSchedule(s, tasks)
  BY DEF StripInv, StripTypes
<1>2. /\ Finish(s) \in tasks.timed /\ tasks' = P!Exec(tasks, Finish(s)) /\ SameWords
      /\ UNCHANGED <<pixel_offset, refreshing, dirty, source, doing, calls, hurried>>
  BY <1>1 DEF P!Timeout, P!strip, P!wire, SameWords, StripSchedule
<1>3. /\ StripSchedule(s, tasks') /\ FinishComes(s, tasks)
      /\ RefreshComes(s, tasks') <=> RefreshComes(s, tasks)
  <2>1. Refresh(s) # Finish(s)
    BY DEF Refresh, Finish, P!Task
  <2> QED
    BY <1>1, <1>2, <2>1, ExecStrip DEF FinishComes
<1>4. StripTypes(s)'
  BY <1>2, <1>3 DEF StripInv, StripTypes, SameWords
<1>5. SentOf(s)' = SentOf(s) /\ Frame(s)' = Frame(s)
  BY <1>2, WordsKept
<1>6. s \notin hurried => Leaves(s) /\ refreshing[s]
  BY <1>3 DEF StripInv, Rests, Starts, Moves, Leaves
<1>7. s \notin hurried => Leaves(s)'
  BY <1>2, <1>3, <1>5, <1>6 DEF Leaves
<1> QED
  BY <1>2, <1>4, <1>7 DEF StripInv

\* What the interrupt does to a strip that is the only one of its PIO.
LEMMA InterruptSteps ==
  ASSUME P!StripsAssumption, NEW s, Strips = {s}, StripInv(s), P!on_pio_irq
  PROVE  /\ s \in source
         /\ txfifo'[s] = P!Filled(s) /\ txfifo' = [t \in Strips |-> P!Filled(t)]
         /\ pixel_offset' = [t \in Strips |-> pixel_offset[t] + P!Moved(t)]
         /\ P!Done(s) => source' = {} /\ tasks' = P!ExecIn(tasks, Finish(s))
         /\ ~P!Done(s) => source' = {s} /\ tasks' = tasks
         /\ UNCHANGED <<pixel_data, refreshing, dirty, line, doing, calls, hurried>>
<1> DEFINE set == {t \in Strips : P!Done(t)}
           fold == CHOOSE f : f = [u \in SUBSET set |->
                     IF u = {} THEN tasks
                     ELSE LET x == CHOOSE x \in u : TRUE
                          IN  P!ExecIn(f[u \ {x}], P!Task("done", x))]
<1>1. tasks' = fold[set]
  BY DEF P!on_pio_irq, P!FoldSet, P!MapThenFoldSet
<1>2. set = IF P!Done(s) THEN {s} ELSE {}
  OBVIOUS
<1> DEFINE finished == P!ExecIn(tasks, Finish(s))
           g == [u \in SUBSET set |-> IF u = {} THEN tasks ELSE finished]
<1> HIDE DEF set
<1>3. \A u \in SUBSET set : u = {} \/ (u = {s} /\ P!Done(s))
  BY <1>2
<1>4. g = [u \in SUBSET set |->
             IF u = {} THEN tasks
             ELSE LET x == CHOOSE x \in u : TRUE
                  IN  P!ExecIn(g[u \ {x}], P!Task("done", x))]
  <2>1. ASSUME NEW u \in SUBSET set, u # {}
        PROVE  LET x == CHOOSE x \in u : TRUE
               IN  P!ExecIn(g[u \ {x}], P!Task("done", x)) = finished
    <3>1. u = {s} /\ (CHOOSE x \in u : TRUE) = s /\ u \ {s} = {}
      BY <1>3, <2>1
    <3>2. g[{}] = tasks
      OBVIOUS
    <3> QED
      BY <3>1, <3>2 DEF Finish
  <2> QED
    BY <2>1
<1> HIDE DEF g, finished
<1>5. fold = [u \in SUBSET set |->
             IF u = {} THEN tasks
             ELSE LET x == CHOOSE x \in u : TRUE
                  IN  P!ExecIn(fold[u \ {x}], P!Task("done", x))]
  BY <1>4
<1> HIDE DEF fold
<1>6. fold[{}] = tasks
  BY <1>5
<1>7. P!Done(s) => fold[{s}] = finished
  <2> SUFFICES ASSUME P!Done(s) PROVE fold[{s}] = finished
    OBVIOUS
  <2>1. {s} \in SUBSET set /\ {s} # {} /\ (CHOOSE x \in {s} : TRUE) = s /\ {s} \ {s} = {}
    BY <1>2
  <2> QED
    BY <1>5, <1>6, <2>1 DEF finished, Finish
<1>8. P!Done(s) => tasks' = finished
  BY <1>1, <1>2, <1>7
<1>9. ~P!Done(s) => tasks' = tasks
  BY <1>1, <1>2, <1>6
<1>10. /\ s \in source
       /\ txfifo'[s] = P!Filled(s) /\ txfifo' = [t \in Strips |-> P!Filled(t)]
       /\ pixel_offset' = [t \in Strips |-> pixel_offset[t] + P!Moved(t)]
       /\ P!Done(s) => source' = {}
       /\ ~P!Done(s) => source' = {s}
       /\ UNCHANGED <<pixel_data, refreshing, dirty, line, doing, calls, hurried>>
  BY ZenonT(40) DEF P!on_pio_irq, StripInv, StripTypes
<1> QED
  BY <1>8, <1>9, <1>10 DEF finished

\* As many pixels as there is room for, and a word after the last if there is more.
LEMMA MovedIs ==
  ASSUME P!StripsAssumption, NEW s \in Strips, StripTypes(s)
  PROVE  /\ P!Moved(s) \in Nat /\ pixel_offset[s] \in Nat /\ pixel_offset[s] + P!Moved(s) <= Count
         /\ Len(txfifo[s]) \in Nat /\ Len(txfifo[s]) + P!Moved(s) <= Depth
         /\ P!Done(s) => /\ pixel_offset[s] + P!Moved(s) = Count
                         /\ Len(txfifo[s]) + P!Moved(s) + 1 <= Depth
<1> DEFINE o == pixel_offset[s]  k == Len(txfifo[s])  set == {Depth - k, Count - o}
<1>1. o \in 0 .. Count /\ k \in 0 .. Depth /\ Count \in Nat /\ Depth \in Nat
  <2>1. k \in Nat /\ k <= Depth
    BY LenProperties DEF StripTypes
  <2> QED
    BY <2>1 DEF StripTypes, P!StripsAssumption
<1>2. P!Room(s) = Depth - k /\ P!Moved(s) = CHOOSE m \in set : \A n \in set : m <= n
  BY DEF P!Room, P!Moved, P!Min
<1> HIDE DEF o, k
<1>3. \E m \in set : \A n \in set : m <= n
  <2>1. CASE Depth - k <= Count - o
    BY <1>1, <2>1
  <2>2. CASE Count - o <= Depth - k
    BY <1>1, <2>2
  <2> QED
    BY <1>1, <2>1, <2>2
<1>4. P!Moved(s) \in set /\ P!Moved(s) <= Depth - k /\ P!Moved(s) <= Count - o
  BY <1>2, <1>3
<1>5. P!Moved(s) \in Nat /\ o + P!Moved(s) <= Count /\ k + P!Moved(s) <= Depth
  BY <1>1, <1>4
<1>6. P!Done(s) => o + P!Moved(s) = Count /\ k + P!Moved(s) + 1 <= Depth
  BY <1>1, <1>2, <1>4 DEF P!Done
<1> QED
  BY <1>1, <1>5, <1>6 DEF o, k

\* The queue with what the interrupt adds: the next words of the frame.
LEMMA FilledIs ==
  ASSUME P!StripsAssumption, NEW s \in Strips, StripTypes(s)
  PROVE  /\ P!Filled(s) \in Seq(Words) /\ Len(P!Filled(s)) <= Depth
         /\ SentOf(s) = SubSeq(Frame(s), 1, pixel_offset[s]) =>
              line[s] \o P!Filled(s) =
                IF P!Done(s) THEN Frame(s)
                ELSE SubSeq(Frame(s), 1, pixel_offset[s] + P!Moved(s))
<1> DEFINE o == pixel_offset[s]  m == P!Moved(s)  f == Frame(s)  w == line[s]  x == txfifo[s]
           a == [i \in 1 .. m |-> P!Word(o + i, pixel_data[s][o + i])]
           z == IF P!Done(s) THEN <<P!Zero>> ELSE << >>
           c == IF P!Done(s) THEN 1 ELSE 0
<1>1. /\ m \in Nat /\ o \in Nat /\ o + m <= Count /\ Len(x) \in Nat /\ Len(x) + m <= Depth
      /\ P!Done(s) => o + m = Count /\ Len(x) + m + 1 <= Depth
  BY MovedIs
<1>2. /\ f \in Seq(Words) /\ Len(f) = Count + 1 /\ f[Count + 1] = P!Zero
      /\ \A p \in 1 .. Count : f[p] = P!Word(p, pixel_data[s][p])
  BY FrameType
<1>3. w \in Seq(Words) /\ x \in Seq(Words) /\ Count \in Nat \ {0}
  BY DEF StripTypes, P!StripsAssumption
<1>4. /\ a \in Seq(Words) /\ Len(a) = m
      /\ \A i \in 1 .. m : a[i] = f[o + i]
  <2>1. \A i \in 1 .. m : o + i \in 1 .. Count /\ o + i \in 1 .. Len(f)
    BY <1>1, <1>2, <1>3
  <2>2. \A i \in 1 .. m : a[i] = f[o + i] /\ a[i] \in Words
    BY <1>2, <2>1, ElementOfSeq
  <2>3. a = [i \in 1 .. m |-> a[i]]
    OBVIOUS
  <2> HIDE DEF a
  <2> QED
    BY <1>1, <2>2, <2>3
<1>5. z \in Seq(Words) /\ Len(z) = c /\ (P!Done(s) => z[1] = f[Count + 1])
  <2>1. P!Zero \in Words
    BY <1>3 DEF P!Zero, P!Word, Words
  <2> QED
    BY <1>2, <2>1
<1>6. P!Filled(s) = (x \o a) \o z
  BY DEF P!Filled
<1>7. SentOf(s) = w \o x
  BY DEF SentOf
<1>8. c \in Nat /\ Len(x) + m + c <= Depth /\ o + m + c <= Len(f)
      /\ (P!Done(s) => o + m + c = Len(f))
  BY <1>1, <1>2, <1>3
<1>9. P!Done(s) => \A i \in 1 .. c : z[i] = f[o + m + i]
  BY <1>1, <1>5
<1>10. ~P!Done(s) => c = 0
  OBVIOUS
<1> HIDE DEF a, z, c, o, m, f, w, x
<1>11. /\ x \o a \in Seq(Words) /\ Len(x \o a) = Len(x) + Len(a)
       /\ (x \o a) \o z \in Seq(Words) /\ Len((x \o a) \o z) = Len(x \o a) + Len(z)
  BY <1>3, <1>4, <1>5, ConcatProperties, Zenon
<1>12. Len((x \o a) \o z) <= Depth
  BY <1>1, <1>4, <1>5, <1>8, <1>11
<1>13. w \o ((x \o a) \o z) = ((w \o x) \o a) \o z
  <2>1. w \o x \in Seq(Words)
    BY <1>3, ConcatProperties, Zenon
  <2>2. w \o ((x \o a) \o z) = (w \o (x \o a)) \o z
    BY <1>3, <1>5, <1>11, WordsJoined, Zenon
  <2>3. w \o (x \o a) = (w \o x) \o a
    BY <1>3, <1>4, WordsJoined, Zenon
  <2> QED
    BY <2>2, <2>3
<1>14. SubSeq(f, 1, o) \o a = SubSeq(f, 1, o + m)
  <2>1. o + m <= Len(f)
    BY <1>1, <1>2, <1>3
  <2> QED
    BY <1>1, <1>2, <1>4, <2>1, MoreOf, ZenonT(40)
<1>15. SubSeq(f, 1, o + m) \o z = IF P!Done(s) THEN f ELSE SubSeq(f, 1, o + m)
  <2>1. CASE P!Done(s)
    <3>1. o + m \in Nat /\ o + m + c <= Len(f)
      BY <1>1, <1>8
    <3>2. SubSeq(f, 1, o + m) \o z = SubSeq(f, 1, o + m + c)
      BY <1>2, <1>5, <1>8, <1>9, <2>1, <3>1, MoreOf
    <3>3. SubSeq(f, 1, Len(f)) = f
      BY <1>2, SubSeqFull
    <3> QED
      BY <1>8, <2>1, <3>2, <3>3
  <2>2. CASE ~P!Done(s)
    <3>1. z = << >>
      BY <1>5, <1>10, <2>2, EmptySeq
    <3>2. SubSeq(f, 1, o + m) \in Seq(Words)
      <4>1. \A i \in 1 .. Len(f) : f[i] \in Words
        BY <1>2, ElementOfSeq
      <4> QED
        BY <1>1, <1>2, <1>3, <4>1, SubSeqProperties
    <3> QED
      BY <2>2, <3>1, <3>2, ConcatEmptySeq
  <2> QED
    BY <2>1, <2>2
<1>16. SentOf(s) = SubSeq(f, 1, o) =>
         w \o P!Filled(s) = IF P!Done(s) THEN f ELSE SubSeq(f, 1, o + m)
  BY <1>6, <1>7, <1>13, <1>14, <1>15
<1> QED
  BY <1>6, <1>11, <1>12, <1>16 DEF f, w, o, m

\* The interrupt leaves words moving, or the whole frame to leave.
LEMMA InterruptKeepsStrip ==
  ASSUME P!StripsAssumption, NEW s, Strips = {s}, StripInv(s), P!on_pio_irq
  PROVE  StripInv(s)'
<1>1. /\ s \in source
      /\ txfifo'[s] = P!Filled(s) /\ txfifo' = [t \in Strips |-> P!Filled(t)]
      /\ pixel_offset' = [t \in Strips |-> pixel_offset[t] + P!Moved(t)]
      /\ P!Done(s) => source' = {} /\ tasks' = P!ExecIn(tasks, Finish(s))
      /\ ~P!Done(s) => source' = {s} /\ tasks' = tasks
      /\ UNCHANGED <<pixel_data, refreshing, dirty, line, doing, calls, hurried>>
  BY InterruptSteps
<1>2. StripTypes(s) /\ StripSchedule(s, tasks)
  BY DEF StripInv, StripTypes
<1>3. /\ P!Moved(s) \in Nat /\ pixel_offset[s] \in Nat /\ pixel_offset[s] + P!Moved(s) <= Count
      /\ Count \in Nat
  BY <1>2, MovedIs DEF P!StripsAssumption
<1>4. /\ P!Filled(s) \in Seq(Words) /\ Len(P!Filled(s)) <= Depth
      /\ SentOf(s) = SubSeq(Frame(s), 1, pixel_offset[s]) =>
           line[s] \o P!Filled(s) =
             IF P!Done(s) THEN Frame(s)
             ELSE SubSeq(Frame(s), 1, pixel_offset[s] + P!Moved(s))
  BY <1>2, FilledIs
<1>5. /\ StripSchedule(s, P!ExecIn(tasks, Finish(s)))
      /\ RefreshComes(s, P!ExecIn(tasks, Finish(s))) <=> RefreshComes(s, tasks)
  BY <1>2, ExecInStrip
<1>6. pixel_offset'[s] = pixel_offset[s] + P!Moved(s) /\ pixel_offset'[s] \in 0 .. Count
  BY <1>1, <1>3
<1>7. StripTypes(s)'
  <2>1. txfifo' \in [Strips -> Seq(Words)] /\ Len(txfifo'[s]) <= Depth
    BY <1>1, <1>4
  <2>2. pixel_offset' \in [Strips -> 0 .. Count]
    BY <1>1, <1>6
  <2>3. StripSchedule(s, tasks') /\ source' \in SUBSET Strips
    BY <1>1, <1>2, <1>5
  <2> QED
    BY <1>1, <1>2, <2>1, <2>2, <2>3 DEF StripTypes
<1>8. s \notin hurried => Moves(s)
  BY <1>1 DEF StripInv, Rests, Starts, Leaves
<1>9. Frame(s)' = Frame(s) /\ SentOf(s)' = line[s] \o P!Filled(s)
  BY <1>1 DEF Frame, SentOf
<1>10. s \notin hurried /\ P!Done(s) => Leaves(s)'
  BY <1>1, <1>4, <1>5, <1>8, <1>9 DEF Moves, Leaves
<1>11. s \notin hurried /\ ~P!Done(s) => Moves(s)'
  BY <1>1, <1>4, <1>6, <1>8, <1>9 DEF Moves, RefreshComes, FinishComes
<1> QED
  BY <1>1, <1>7, <1>10, <1>11 DEF StripInv

\* A strip starts at rest with a refresh to come, and each step keeps it in a phase.
LEMMA InitStrip == ASSUME P!StripsAssumption, NEW s, Strips = {s}, P!Init PROVE StripInv(s)
<1> DEFINE set == {P!Task("refresh", t) : t \in Strips}
<1>1. set = {Refresh(s)}
  BY DEF Refresh
<1>2. tasks = [pend |-> P!SetToSeq(set), timed |-> {}]
  BY DEF P!Init
<1>3. P!SetToSeq(set) = <<Refresh(s)>>
  <2> DEFINE q == P!SetToSeq(set)
  <2>1. P!Cardinality(set) = 1
    <3> HIDE DEF set
    <3>1. P!Cardinality(set) = Cardinality(set)
      BY DEF P!Cardinality, Cardinality
    <3>2. Cardinality(set) = 1
      BY <1>1, FS_Singleton
    <3> QED
      BY <3>1, <3>2
  <2>2. q = CHOOSE f \in [1 .. P!Cardinality(set) -> set] : P!IsInjective(f)
    BY DEF P!SetToSeq
  <2>3. [i \in 1 .. 1 |-> Refresh(s)] \in [1 .. 1 -> set] /\ P!IsInjective([i \in 1 .. 1 |-> Refresh(s)])
    BY <1>1 DEF P!IsInjective
  <2>4. q \in [1 .. 1 -> set]
    BY <2>1, <2>2, <2>3
  <2> HIDE DEF q
  <2> QED
    BY <1>1, <2>4 DEF q
<1> HIDE DEF set
<1>4. StripSchedule(s, tasks) /\ ~FinishComes(s, tasks)
  <2>1. Refresh(s) # Finish(s)
    BY DEF Refresh, Finish, P!Task
  <2> QED
    BY <1>2, <1>3, <2>1 DEF StripSchedule, FinishComes
<1>5. StripTypes(s)
  BY <1>4 DEF P!Init, StripTypes, P!StripsAssumption, P!Pixels
<1>6. SentOf(s) = << >>
  <2>1. << >> \o << >> = << >>
    OBVIOUS
  <2> QED
    BY <2>1 DEF P!Init, SentOf
<1>7. doing.does # "enable" /\ s \notin source /\ ~refreshing[s]
  BY DEF P!Init, P!Idle
<1> QED
  BY <1>4, <1>5, <1>6, <1>7 DEF StripInv, Rests

\* So does each step.
LEMMA NextStrip ==
  ASSUME P!StripsAssumption, NEW s, Strips = {s}, StripInv(s), [P!Next]_(P!vars)
  PROVE  StripInv(s)'
<1>1. ASSUME P!MainLoop PROVE StripInv(s)'
  <2>1. CASE P!SetEnds
    <3>1. doing.does = "set" /\ doing.strip = s
      BY <2>1, DoingKinds DEF StripInv, P!SetEnds
    <3>2. /\ tasks' = P!Exec(tasks, Refresh(s)) /\ P!Hurried(s) /\ SameWords
          /\ UNCHANGED <<pixel_offset, refreshing, dirty, source, calls>> /\ doing' = P!Idle
      BY <2>1, <3>1 DEF P!SetEnds, P!strip, P!wire, SameWords, Refresh
    <3>3. calls' \in Nat
      BY <3>2 DEF StripInv, StripTypes
    <3> QED
      BY <3>1, <3>2, <3>3, AskedKeeps
  <2> QED
    BY <1>1, <2>1, RefreshKeeps, EnableKeeps, FinishKeeps, SetKeeps DEF P!MainLoop
<1>2. ASSUME P!Application PROVE StripInv(s)'
  <2>1. CASE P!pr_pixel_led_refresh(s)
    <3>1. /\ tasks' = P!Exec(tasks, Refresh(s)) /\ P!Hurried(s) /\ SameWords
          /\ UNCHANGED <<pixel_offset, refreshing, dirty, source, doing>>
          /\ doing = P!Idle /\ calls' = calls + 1
      BY <2>1 DEF P!pr_pixel_led_refresh, P!strip, P!wire, SameWords, Refresh
    <3>2. calls' \in Nat /\ doing.does # "enable"
      BY <3>1 DEF StripInv, StripTypes, P!Idle
    <3> QED
      BY <3>1, <3>2, AskedKeeps
  <2> QED
    BY <1>2, <2>1, SetBeginsKeeps DEF P!Application
<1>3. ASSUME P!World PROVE StripInv(s)'
  BY <1>3, TimeoutKeeps, LeavesKeeps, PauseKeeps DEF P!World
<1>4. ASSUME UNCHANGED P!vars PROVE StripInv(s)'
  BY <1>4 DEF P!vars, P!strip, P!wire, StripInv, StripTypes, StripSchedule, Rests, Starts,
     Moves, Leaves, SentOf, Frame, RefreshComes, FinishComes
<1> QED
  BY <1>1, <1>2, <1>3, <1>4, InterruptKeepsStrip DEF P!Next

\* What is out and in the queue is the beginning of a frame.
LEMMA StripIntact ==
  ASSUME P!StripsAssumption, NEW s, Strips = {s}, StripInv(s)
  PROVE  P!FrameIntact
<1> SUFFICES ASSUME s \notin hurried PROVE P!IsPrefix(SentOf(s), Frame(s))
  BY DEF P!FrameIntact, SentOf, Frame
<1>1. Frame(s) \in Seq(Words) /\ Len(Frame(s)) = Count + 1
  BY FrameType DEF StripInv
<1>2. pixel_offset[s] \in 0 .. Count /\ Count \in Nat
  BY DEF StripInv, StripTypes, P!StripsAssumption
<1> DEFINE f == Frame(s)  w == SentOf(s)
<1>3. w = << >> \/ w = f \/ w = SubSeq(f, 1, pixel_offset[s])
  BY DEF StripInv, Rests, Starts, Moves, Leaves
<1> HIDE DEF f, w
<1>4. CASE w = << >>
  <2>1. Len(w) = 0 /\ SubSeq(w, 1, 0) = << >> /\ SubSeq(f, 1, 0) = << >>
    BY <1>4, SubSeqEmpty
  <2> QED
    BY <1>1, <1>2, <2>1 DEF P!IsPrefix, f, w
<1>5. CASE w = f
  BY <1>1, <1>2, <1>5 DEF P!IsPrefix, f, w
<1>6. CASE w = SubSeq(f, 1, pixel_offset[s])
  <2>1. f \in Seq(Words) /\ Len(f) = Count + 1 /\ \A i \in 1 .. Len(f) : f[i] \in Words
    BY <1>1, ElementOfSeq DEF f
  <2>2. w \in Seq(Words) /\ Len(w) = pixel_offset[s]
    BY <1>2, <1>6, <2>1
  <2>3. SubSeq(w, 1, Len(w)) = w
    BY <2>2, SubSeqFull
  <2>4. Len(w) <= Len(f) /\ SubSeq(w, 1, Len(w)) = SubSeq(f, 1, Len(w))
    BY <1>2, <1>6, <2>1, <2>2, <2>3
  <2> QED
    BY <2>4 DEF P!IsPrefix, f, w
<1> QED
  BY <1>3, <1>4, <1>5, <1>6

----------------------------------------------------------------------------
(* A board: side by side with the other parts, each does what it does alone. *)

\* The expander starts as it does alone.
LEMMA InitPart == DevicesInit => G!Init
<1> SUFFICES ASSUME DevicesInit PROVE G!Init
  OBVIOUS
<1>1. PICK c \in SUBSET G!Chip : G!InitOf(c)
  <2>1. Given("expander", G!Chip) \in SUBSET G!Chip
    BY DEF Given, G!Chip
  <2>2. G!InitOf(Given("expander", G!Chip))
    BY DEF DevicesInit
  <2> QED
    BY <2>1, <2>2
<1> QED
  BY <1>1 DEF G!Init, G!InitOf

\* A step of the whole is one of the expander, or leaves it alone.
LEMMA StepPart == [DevicesNext]_all => [G!Next]_(G!vars)
<1> SUFFICES ASSUME [DevicesNext]_all PROVE G!Next \/ UNCHANGED expander
  BY DEF expander, G!vars
<1> QED
  BY DEF DevicesNext, all, EepromStep, StripStep, InputStep, ExpanderStep, SpiStep, InfoStep,
         DevIdStep, FramesStep

\* Whatever part of a board is in use, what is cached of an expander is on its chip,
\* unless the last write has failed (i2c_gpio.c:22-40, 84-128).
THEOREM BoardAgrees == DevicesSpec => []CachesAgree
<1>1. G!BanksAssumption
  BY DevicesAssumption
<1>2. DevicesInit => ExpanderInv
  BY <1>1, InitPart, InitExpander
<1>3. ExpanderInv /\ [DevicesNext]_all => ExpanderInv'
  BY <1>1, StepPart, NextExpander
<1>4. ExpanderInv => CachesAgree
  BY DEF ExpanderInv, CachesAgree
<1> QED
  BY <1>2, <1>3, <1>4, PTL DEF DevicesSpec

\* The bus starts as it does alone, and a step of the whole is one of the bus, or
\* leaves it alone.
LEMMA SpiPart == (DevicesInit => S!Init) /\ ([DevicesNext]_all => [S!Next]_(S!vars))
<1>1. DevicesInit => S!Init
  BY DEF DevicesInit
<1>2. ASSUME [DevicesNext]_all PROVE S!Next \/ UNCHANGED spi
  BY <1>2 DEF DevicesNext, all, EepromStep, StripStep, InputStep, ExpanderStep, SpiStep,
              InfoStep, DevIdStep, FramesStep
<1>3. UNCHANGED spi => UNCHANGED S!vars
  BY DEF spi, S!vars, S!select
<1> QED
  BY <1>1, <1>2, <1>3

\* Whatever the devices and the buffers, wherever chunks are cut, and whether a
\* device is kept selected between transfers or not: only the device of a transfer is
\* selected, and each side hears what the other sends (spi_master.c:92-219).
THEOREM BoardTransfers == DevicesSpec => []TransfersExact
<1>1. S!SpiAssumption
  BY DevicesAssumption
<1>2. DevicesInit => SpiInv
  BY <1>1, SpiPart, InitSpi
<1>3. SpiInv /\ [DevicesNext]_all => SpiInv'
  BY <1>1, SpiPart, NextSpi
<1>4. SpiInv => TransfersExact
  BY DEF SpiInv, TransfersExact, S!TransfersExact
<1> QED
  BY <1>2, <1>3, <1>4, PTL DEF DevicesSpec

\* The strips start as they do alone, and a step of the whole is one of theirs, or
\* leaves them alone.
LEMMA StripPart == (DevicesInit => P!Init) /\ ([DevicesNext]_all => [P!Next]_(P!vars))
<1>1. DevicesInit => P!Init
  BY DEF DevicesInit
<1>2. ASSUME [DevicesNext]_all PROVE P!Next \/ UNCHANGED strips
  BY <1>2 DEF DevicesNext, all, EepromStep, StripStep, InputStep, ExpanderStep, SpiStep,
              InfoStep, DevIdStep, FramesStep
<1>3. UNCHANGED strips => UNCHANGED P!vars
  BY DEF strips, P!vars, P!strip, P!wire
<1> QED
  BY <1>1, <1>2, <1>3

\* On a PIO with one strip, of any length and with a queue of any depth, a frame leaves
\* whole, in order and as it was set, whatever room the interrupt finds, if the
\* application leaves the strip alone until it is out (pixel_led.c:14-61, 75-112).
THEOREM BoardFrames == ASSUME NEW s, Strips = {s} PROVE DevicesSpec => []FrameIntact
<1>1. P!StripsAssumption
  BY DevicesAssumption
<1>2. DevicesInit => StripInv(s)
  BY <1>1, StripPart, InitStrip
<1>3. StripInv(s) /\ [DevicesNext]_all => StripInv(s)'
  BY <1>1, StripPart, NextStrip
<1>4. StripInv(s) => FrameIntact
  BY <1>1, StripIntact DEF FrameIntact
<1> QED
  BY <1>2, <1>3, <1>4, PTL DEF DevicesSpec

----------------------------------------------------------------------------
(* BiReader, for a flash and a table of any length.                        *)

BiValues == {e.value : e \in Entries} \cup {"NULL", "-1"}

Last == Len(table)

\* The descriptor is where the search for it has stopped, and not before.
DescInv ==
  /\ desc \in 0 .. Window
  /\ \A p \in 0 .. desc - 1 : ~B!Marked(p)
  /\ search \in {"idle", "find", "test", "walk"} => desc # Window
  /\ search # "locate" /\ desc # Window => B!Marked(desc)

\* The search has passed n entries, with what the caller has been given.
Passed(n, given) ==
  n \in 0 .. Last /\ given = B!ValuesOf[n] /\ (use = "one" => given = << >>)

\* What each place of the search says.
PlaceInv(place, state, e, given) ==
  /\ place \in {"locate", "idle", "find", "test", "walk", "end"}
  /\ place # "end" => state \in {0} \cup Start .. Start + Last
  /\ place = "locate" => state = 0 /\ given = << >>
  /\ place \in {"idle", "find", "test", "walk"} =>
       B!Descriptors # {} /\ (use = "walk" <=> place = "walk")
  /\ place = "idle" => Passed(IF state = 0 THEN 0 ELSE state - Start, given)
  /\ place = "find" => Passed(IF state = 0 THEN Last ELSE state - Start, given)
  /\ place = "test" =>
       \/ e = B!NoEntry /\ Passed(Last, given)
       \/ /\ state > Start /\ e = table[state - Start] /\ B!Matches(e)
          /\ Passed(state - Start - 1, given)
  /\ place = "walk" =>
       IF state = 0 THEN given = B!ValuesOf[Last] \o <<B!Nothing>>
       ELSE Passed(state - Start, given)
  /\ place = "end" =>
       LET values == B!ValuesOf[Last] \o <<B!Nothing>>
       IN  given = IF B!Descriptors = {} THEN <<"NULL">>
                   ELSE IF use = "one" THEN <<Head(values)>> ELSE values

InfoInv ==
  /\ table \in Seq(Entries)
  /\ use \in {"one", "all", "walk"}
  /\ DescInv
  /\ PlaceInv(search, iterator, entry, found)

\* A sequence that agrees with the start of another is a prefix of it.
LEMMA PrefixOf ==
  ASSUME NEW a \in Seq(BiValues), NEW b \in Seq(BiValues), Len(a) <= Len(b),
         \A i \in 1 .. Len(a) : b[i] = a[i]
  PROVE  B!IsPrefix(a, b)
<1>1. Len(a) \in Nat /\ Len(b) \in Nat
  BY LenProperties
<1>2. \A i \in 1 .. Len(b) : b[i] \in BiValues
  BY ElementOfSeq
<1> DEFINE c == SubSeq(b, 1, Len(a))
<1>3. c \in Seq(BiValues) /\ Len(c) = Len(a) /\ \A i \in 1 .. Len(a) : c[i] = b[i]
  BY <1>1, <1>2
<1>4. SubSeq(a, 1, Len(a)) = a
  BY SubSeqFull
<1> HIDE DEF c
<1>5. a = c
  BY <1>1, <1>3, SeqEqual
<1> QED
  BY <1>1, <1>4, <1>5 DEF c, B!IsPrefix

\* The values of the first entries, one entry at a time.
LEMMA ValuesOfIs ==
  ASSUME table \in Seq(Entries)
  PROVE  /\ B!ValuesOf \in [0 .. Last -> Seq(BiValues)]
         /\ B!ValuesOf[0] = << >>
         /\ \A n \in 1 .. Last :
              B!ValuesOf[n] = IF B!Asked(table[n]) THEN Append(B!ValuesOf[n - 1], table[n].value)
                              ELSE B!ValuesOf[n - 1]
<1> DEFINE Lists == Seq(BiValues)
           Step(n, v) == IF B!Asked(table[n]) THEN Append(v, table[n].value) ELSE v
           adds == [x \in (1 .. Last) \X Lists |-> Step(x[1], x[2])]
           Recursive(f) == f = [n \in 0 .. Last |-> IF n = 0 THEN << >> ELSE Step(n, f[n - 1])]
<1>1. Last \in Nat /\ << >> \in Lists /\ \A n \in 1 .. Last : table[n] \in Entries
  BY DEF Last
<1>2. \A n \in 1 .. Last : table[n].value \in BiValues
  BY <1>1 DEF BiValues
<1>3. \A n \in 1 .. Last : \A v \in Lists : Step(n, v) \in Lists
  BY <1>2
<1>4. adds \in [(1 .. Last) \X Lists -> Lists]
  BY <1>3
<1>5. PICK f \in [0 .. Last -> Lists] : Recurses(f, Last, << >>, adds)
  <2>1. Last \in Nat /\ << >> \in Lists
    BY <1>1
  <2> HIDE DEF adds, Lists, Last
  <2> QED
    BY <2>1, <1>4, RecursionExists
<1>6. ASSUME NEW n \in 1 .. Last PROVE adds[<<n, f[n - 1]>>] = Step(n, f[n - 1])
  <2>1. n - 1 \in 0 .. Last
    BY <1>1
  <2>2. f[n - 1] \in Lists
    BY <1>5, <2>1, Zenon
  <2> HIDE DEF Lists, Step
  <2> QED
    BY <2>2
<1>7. Recursive(f)
  <2> HIDE DEF adds, Step
  <2> QED
    BY <1>5, <1>6 DEF Recurses
<1>8. B!ValuesOf = CHOOSE g : Recursive(g)
  BY DEF B!ValuesOf, Last
<1>9. Recursive(B!ValuesOf)
  <2> HIDE DEF Recursive
  <2> QED
    BY <1>7, <1>8
<1> HIDE DEF Lists, adds
<1> DEFINE v == B!ValuesOf
<1>10. v = [n \in 0 .. Last |-> IF n = 0 THEN << >> ELSE Step(n, v[n - 1])]
  BY <1>9
<1> HIDE DEF v, Recursive, Step
<1>11. v[0] = << >> /\ \A n \in 1 .. Last : v[n] = Step(n, v[n - 1])
  BY <1>1, <1>10
<1>12. \A n \in 0 .. Last : v[n] \in Lists
  <2>1. \A n \in 1 .. Last : v[n - 1] \in Lists => v[n] \in Lists
    BY <1>3, <1>11
  <2> QED
    BY <1>1, <1>11, <2>1, IteratesStay
<1>13. v \in [0 .. Last -> Lists]
  BY <1>10, <1>12
<1> QED
  BY <1>11, <1>13 DEF v, Step, Lists

\* More of the table makes the values of more of it.
LEMMA ValuesGrow ==
  ASSUME table \in Seq(Entries), NEW n \in 0 .. Last
  PROVE  /\ B!ValuesOf[n] \in Seq(BiValues)
         /\ B!IsPrefix(B!ValuesOf[n], B!ValuesOf[Last])
<1> DEFINE v == B!ValuesOf
           W == Seq(BiValues)
           Grown == {k \in Nat : n + k <= Last =>
                   /\ Len(v[n]) <= Len(v[n + k])
                   /\ \A i \in 1 .. Len(v[n]) : v[n + k][i] = v[n][i]}
<1>1. Last \in Nat /\ v \in [0 .. Last -> W]
  BY ValuesOfIs DEF Last
<1>2. \A m \in 0 .. Last : v[m] \in W /\ Len(v[m]) \in Nat
  <2>1. \A m \in 0 .. Last : v[m] \in W
    BY <1>1
  <2> QED
    BY <2>1, LenProperties
<1>3. \A m \in 1 .. Last : \/ v[m] = v[m - 1]
                          \/ \E x \in BiValues : v[m] = Append(v[m - 1], x)
  <2>1. \A m \in 1 .. Last : table[m].value \in BiValues
    BY DEF BiValues, Last
  <2> QED
    BY <2>1, ValuesOfIs
<1> HIDE DEF v, W
<1>4. ASSUME NEW m \in 1 .. Last
      PROVE  /\ Len(v[m - 1]) <= Len(v[m])
             /\ \A i \in 1 .. Len(v[m - 1]) : v[m][i] = v[m - 1][i]
  <2>1. m - 1 \in 0 .. Last /\ v[m - 1] \in W /\ Len(v[m - 1]) \in Nat
    BY <1>1, <1>2
  <2>2. CASE v[m] = v[m - 1]
    BY <2>1, <2>2
  <2>3. ASSUME NEW x \in BiValues, v[m] = Append(v[m - 1], x)
        PROVE  /\ Len(v[m - 1]) <= Len(v[m])
               /\ \A i \in 1 .. Len(v[m - 1]) : v[m][i] = v[m - 1][i]
    BY <2>1, <2>3, AppendProperties DEF W
  <2> QED
    BY <1>3, <2>2, <2>3
<1>5. 0 \in Grown
  BY <1>2
<1>6. ASSUME NEW k \in Nat, k \in Grown PROVE k + 1 \in Grown
  <2> SUFFICES ASSUME n + (k + 1) <= Last
      PROVE  /\ Len(v[n]) <= Len(v[n + (k + 1)])
             /\ \A i \in 1 .. Len(v[n]) : v[n + (k + 1)][i] = v[n][i]
    OBVIOUS
  <2>1. n + (k + 1) \in 1 .. Last /\ (n + (k + 1)) - 1 = n + k /\ n + k \in 0 .. Last
    BY <1>1
  <2>2. /\ Len(v[n + k]) <= Len(v[n + (k + 1)])
        /\ \A i \in 1 .. Len(v[n + k]) : v[n + (k + 1)][i] = v[n + k][i]
    BY <1>4, <2>1
  <2>3. /\ Len(v[n]) <= Len(v[n + k])
        /\ \A i \in 1 .. Len(v[n]) : v[n + k][i] = v[n][i]
    BY <1>6, <2>1
  <2>4. Len(v[n]) \in Nat /\ Len(v[n + k]) \in Nat /\ Len(v[n + (k + 1)]) \in Nat
    BY <1>2, <2>1
  <2> QED
    BY <2>2, <2>3, <2>4
<1>7. Last - n \in Grown /\ n + (Last - n) = Last
  <2> HIDE DEF Grown
  <2>1. Nat \subseteq Grown
    BY <1>5, <1>6, SetInduction
  <2>2. Last - n \in Nat /\ n + (Last - n) = Last
    BY <1>1
  <2> QED
    BY <2>1, <2>2
<1>8. /\ Len(v[n]) <= Len(v[Last])
      /\ \A i \in 1 .. Len(v[n]) : v[Last][i] = v[n][i]
  BY <1>1, <1>7
<1>9. v[n] \in Seq(BiValues) /\ v[Last] \in Seq(BiValues)
  BY <1>1, <1>2 DEF W
<1>10. B!IsPrefix(v[n], v[Last])
  BY <1>8, <1>9, PrefixOf
<1> QED
  BY <1>9, <1>10 DEF v

\* A step of the search for the descriptor goes on, or stops where it is.
LEMMA DescSteps ==
  ASSUME B!BiAssumption, InfoInv, [B!Next]_(B!vars)
  PROVE  /\ DescInv'
         /\ search # "locate" => desc' = desc
<1>1. /\ DescInv /\ Window \in Nat
  BY DEF InfoInv, B!BiAssumption
<1>2. flash' = flash
  BY DEF B!Next, B!vars, B!pr_bi_desc_find, B!Seen, B!NoDescriptor, B!Call, B!pr_bi_find,
         B!NotFound, B!pr_bi_find_typed, B!Walk
<1>3. \A p : B!Marked(p)' <=> B!Marked(p)
  BY <1>2 DEF B!Marked
<1>4. CASE search = "locate"
  <2>1. CASE B!pr_bi_desc_find
    <3>1. CASE desc < Window /\ ~B!Marked(desc) /\ search' = "locate" /\ desc' = desc + 1
      <4>1. desc' \in 0 .. Window
        BY <1>1, <3>1 DEF DescInv
      <4>2. \A p \in 0 .. desc' - 1 : p \in 0 .. desc - 1 \/ p = desc
        BY <1>1, <3>1 DEF DescInv
      <4>3. \A p \in 0 .. desc' - 1 : ~B!Marked(p)'
        BY <1>1, <1>3, <3>1, <4>2 DEF DescInv
      <4> QED
        BY <1>4, <3>1, <4>1, <4>3 DEF DescInv
    <3>2. CASE desc < Window /\ B!Marked(desc) /\ desc' = desc
      <4>1. B!Marked(desc)' /\ \A p \in 0 .. desc - 1 : ~B!Marked(p)'
        BY <1>1, <1>3, <3>2 DEF DescInv
      <4> QED
        BY <1>1, <1>4, <3>2, <4>1 DEF DescInv
    <3> QED
      BY <2>1, <3>1, <3>2 DEF B!pr_bi_desc_find, B!Seen
  <2>2. CASE B!NoDescriptor
    <3>1. desc = Window /\ desc' = desc /\ search' = "end"
      BY <2>2 DEF B!NoDescriptor, B!Seen
    <3> QED
      BY <1>1, <1>3, <1>4, <3>1 DEF DescInv
  <2>3. CASE UNCHANGED B!vars
    BY <1>1, <1>3, <1>4, <2>3 DEF DescInv, B!vars
  <2> QED
    BY <1>4, <2>1, <2>2, <2>3 DEF B!Next, B!Call, B!pr_bi_find, B!NotFound, B!pr_bi_find_typed, B!Walk
<1>5. CASE search # "locate"
  <2>1. desc' = desc
    BY <1>5 DEF B!Next, B!vars, B!pr_bi_desc_find, B!Seen, B!NoDescriptor, B!Call, B!pr_bi_find,
                B!NotFound, B!pr_bi_find_typed, B!Walk
  <2>2. search' # "locate" /\ (search' \in {"idle", "find", "test", "walk"} =>
                                 search \in {"idle", "find", "test", "walk"})
    BY <1>5 DEF B!Next, B!vars, B!pr_bi_desc_find, B!Seen, B!NoDescriptor, B!Call, B!pr_bi_find,
                B!NotFound, B!pr_bi_find_typed, B!Walk, B!Given
  <2> QED
    BY <1>1, <1>3, <1>5, <2>1, <2>2 DEF DescInv
<1> QED
  BY <1>4, <1>5

\* There are descriptors if the search for one has stopped before the end.
LEMMA DescFound ==
  ASSUME B!BiAssumption, DescInv, search # "locate" \/ desc = Window \/ B!Marked(desc)
  PROVE  /\ B!Descriptors = {} <=> desc = Window
         /\ B!Descriptors # {} => desc \in B!Descriptors /\ \A p \in B!Descriptors : desc <= p
<1>1. Window \in Nat /\ desc \in 0 .. Window /\ \A p \in 0 .. desc - 1 : ~B!Marked(p)
  BY DEF DescInv, B!BiAssumption
<1>2. \A p \in B!Descriptors : p \in 0 .. Window - 1 /\ B!Marked(p)
  BY DEF B!Descriptors
<1>3. \A p \in B!Descriptors : desc <= p
  <2> SUFFICES ASSUME NEW p \in B!Descriptors, ~(desc <= p) PROVE FALSE
    OBVIOUS
  <2>1. p \in 0 .. desc - 1
    BY <1>1, <1>2
  <2> QED
    BY <1>1, <1>2, <2>1
<1>4. desc = Window => B!Descriptors = {}
  BY <1>1, <1>2, <1>3
<1>5. desc # Window => desc \in B!Descriptors
  <2> SUFFICES ASSUME desc # Window PROVE desc \in B!Descriptors
    OBVIOUS
  <2>1. desc \in 0 .. Window - 1 /\ B!Marked(desc)
    BY <1>1 DEF DescInv
  <2> QED
    BY <2>1 DEF B!Descriptors
<1> QED
  BY <1>3, <1>4, <1>5

\* A step of a search keeps what its place says.
LEMMA InfoSteps ==
  ASSUME B!BiAssumption, InfoInv, [B!Next]_(B!vars)
  PROVE  InfoInv'
<1> DEFINE v == B!ValuesOf
<1>0. /\ Last \in Nat /\ Start \in Nat \ {0} /\ v[0] = << >>
      /\ \A n \in 1 .. Last : table[n] \in Entries
      /\ \A n \in 1 .. Last :
           v[n] = IF B!Asked(table[n]) THEN Append(v[n - 1], table[n].value) ELSE v[n - 1]
      /\ \A n \in 0 .. Last : v[n] \in Seq(BiValues)
      /\ \A e \in Entries : e.value \in BiValues /\ e.value \notin {"NULL", "-1"}
      /\ B!Nothing \in {"NULL", "-1"} /\ B!Nothing \in BiValues
  <2>1. table \in Seq(Entries)
    BY DEF InfoInv
  <2>2. v \in [0 .. Last -> Seq(BiValues)]
    BY <2>1, ValuesOfIs
  <2>3. Last \in Nat /\ \A n \in 1 .. Last : table[n] \in Entries
    BY <2>1 DEF Last
  <2>4. \A n \in 0 .. Last : v[n] \in Seq(BiValues)
    BY <2>2
  <2> QED
    BY <2>1, <2>3, <2>4, ValuesOfIs DEF B!BiAssumption, BiValues, B!Nothing
<1> HIDE DEF v
<1>1. ASSUME UNCHANGED <<flash, table, want, use>>,
             PlaceInv(search', iterator', entry', found')
      PROVE  InfoInv'
  <2>1. /\ B!ValuesOf' = B!ValuesOf /\ table' = table /\ use' = use
        /\ B!Nothing' = B!Nothing
    BY <1>1 DEF B!ValuesOf, B!Asked, B!Matches, B!Nothing
  <2>2. B!Descriptors' = B!Descriptors /\ Last' = Last
    BY <1>1 DEF B!Descriptors, B!Marked, Last
  <2>3. B!Matches(entry)' = B!Matches(entry')
    BY <1>1 DEF B!Matches, B!NoEntry
  <2>4. DescInv'
    BY DescSteps
  <2> QED
    BY <1>1, <2>1, <2>2, <2>3, <2>4 DEF InfoInv, PlaceInv, Passed, B!NoEntry
<1>10. /\ table \in Seq(Entries) /\ use \in {"one", "all", "walk"}
       /\ PlaceInv(search, iterator, entry, found)
  BY DEF InfoInv
<1> DEFINE New == PlaceInv(search', iterator', entry', found')
<1>11. ASSUME B!pr_bi_desc_find PROVE New
  <2>1. search = "locate" /\ iterator = 0 /\ found = << >> /\ found' = found /\ DescInv
    BY <1>10, <1>11 DEF B!pr_bi_desc_find, B!Seen, PlaceInv, InfoInv
  <2>2. CASE search' = "locate" /\ iterator' = iterator
    BY <2>1, <2>2 DEF PlaceInv
  <2>3. CASE /\ desc < Window /\ B!Marked(desc)
             /\ IF use = "walk" THEN search' = "walk" /\ iterator' = Start
                ELSE search' = "idle" /\ iterator' = iterator
    <3>1. B!Descriptors # {}
      <4>1. desc # Window
        BY <2>1, <2>3 DEF DescInv, B!BiAssumption
      <4> QED
        BY <2>1, <2>3, <4>1, DescFound
    <3>2. Passed(0, found')
      BY <1>0, <2>1 DEF Passed, v
    <3>3. CASE use = "walk"
      <4>1. Start - Start = 0 /\ Start \in Start .. Start + Last /\ Start # 0
        BY <1>0
      <4> QED
        BY <1>0, <2>3, <3>1, <3>2, <3>3, <4>1 DEF PlaceInv
    <3>4. CASE use # "walk"
      BY <1>0, <2>1, <2>3, <3>1, <3>2, <3>4 DEF PlaceInv
    <3> QED
      BY <3>3, <3>4
  <2> QED
    BY <1>11, <2>2, <2>3 DEF B!pr_bi_desc_find, B!Seen
<1>2. ASSUME B!NoDescriptor PROVE New
  <2>1. desc = Window /\ search = "locate" /\ search' = "end" /\ found' = <<"NULL">> /\ DescInv
    BY <1>2 DEF B!NoDescriptor, B!Seen, InfoInv
  <2>2. B!Descriptors = {}
    BY <2>1, DescFound
  <2> QED
    BY <2>1, <2>2 DEF PlaceInv
<1>3. ASSUME B!Call PROVE New
  BY <1>0, <1>10, <1>3 DEF B!Call, PlaceInv, Passed
<1>4. ASSUME B!pr_bi_find PROVE New
  <2> DEFINE p == iterator - Start  e == B!pr_bi_get(iterator)
  <2>1. /\ search = "find" /\ iterator # 0 /\ iterator' = B!pr_bi_next(iterator)
        /\ IF B!Matches(e) THEN entry' = e /\ search' = "test"
           ELSE UNCHANGED <<entry, search>>
        /\ UNCHANGED <<flash, table, want, use, found>>
    BY <1>4 DEF B!pr_bi_find
  <2>2. p \in 0 .. Last /\ iterator \in Start .. Start + Last /\ B!End = Start + Last
        /\ B!Descriptors # {} /\ Passed(p, found) /\ table \in Seq(Entries) /\ use # "walk"
    BY <1>0, <1>10, <2>1 DEF PlaceInv, Passed, B!End, Last
  <2>3. CASE p = Last
    <3>1. iterator' = 0 /\ ~B!Matches(e)
      BY <1>0, <2>1, <2>2, <2>3 DEF B!pr_bi_next, B!pr_bi_get, B!Matches
    <3> QED
      BY <1>0, <1>10, <2>1, <2>2, <2>3, <3>1 DEF PlaceInv, Passed, v
  <2>4. CASE p # Last
    <3>1. iterator' = iterator + 1 /\ e = table[p + 1]
      BY <1>0, <2>1, <2>2, <2>4 DEF B!pr_bi_next, B!pr_bi_get
    <3>2. p + 1 \in 1 .. Last /\ (p + 1) - 1 = p /\ iterator' - Start = p + 1
          /\ iterator' \in Start .. Start + Last /\ iterator' > Start
          /\ iterator' - Start - 1 = p /\ iterator' # 0
      BY <1>0, <2>2, <2>4, <3>1
    <3>3. CASE B!Matches(e)
      <4>1. Passed(p, found')
        BY <1>10, <2>1, <2>2 DEF Passed, v
      <4>2. entry' = table[iterator' - Start] /\ B!Matches(entry') /\ search' = "test"
        BY <1>10, <2>1, <3>1, <3>2, <3>3 DEF B!Matches
      <4> HIDE DEF p
      <4> QED
        BY <1>10, <2>1, <2>2, <3>2, <4>1, <4>2 DEF PlaceInv
    <3>4. CASE ~B!Matches(e)
      <4>1. v[p + 1] = v[p]
        BY <1>0, <2>2, <3>1, <3>2, <3>4 DEF B!Asked
      <4>2. Passed(p + 1, found') /\ search' = "find"
        BY <1>10, <2>1, <2>2, <3>2, <3>4, <4>1 DEF Passed, v
      <4> HIDE DEF p
      <4> QED
        BY <1>10, <2>1, <2>2, <3>2, <4>2 DEF PlaceInv
    <3> QED
      BY <3>3, <3>4
  <2> QED
    BY <2>3, <2>4
<1>5. ASSUME B!NotFound PROVE New
  BY <1>0, <1>10, <1>5 DEF B!NotFound, PlaceInv, Passed
<1>6. ASSUME B!pr_bi_find_typed PROVE New
  <2>1. /\ search = "test" /\ UNCHANGED <<flash, table, want, use, entry, iterator>>
        /\ table \in Seq(Entries) /\ B!Descriptors # {} /\ use \in {"one", "all"}
        /\ iterator \in {0} \cup Start .. Start + Last
        /\ entry = B!NoEntry => B!Given(B!Nothing)
        /\ entry # B!NoEntry =>
             IF want.id \in {B!AnyId, entry.id} THEN B!Given(entry.value)
             ELSE IF iterator # 0 THEN search' = "find" /\ UNCHANGED found
             ELSE B!Given(B!Nothing)
    BY <1>6, <1>10 DEF B!pr_bi_find_typed, PlaceInv
  <2>2. CASE entry = B!NoEntry
    <3>1. /\ found' = Append(found, B!Nothing) /\ search' = "end" /\ iterator' = iterator
      BY <2>1, <2>2 DEF B!Given
    <3>2. Passed(Last, found)
      BY <1>10, <2>1, <2>2 DEF PlaceInv, B!Matches
    <3>3. v[Last] \in Seq(BiValues) /\ B!Nothing \in BiValues
      <4>1. Last \in 0 .. Last
        BY <1>0
      <4> QED
        BY <1>0, <4>1
    <3>4. Append(v[Last], B!Nothing) = v[Last] \o <<B!Nothing>>
      BY <3>3, AppendIsConcat
    <3>5. use = "one" => /\ v[Last] = << >> /\ found' = <<B!Nothing>>
                    /\ Head(v[Last] \o <<B!Nothing>>) = B!Nothing
      <4>1. found = << >> => Append(found, B!Nothing) = <<B!Nothing>>
        OBVIOUS
      <4> QED
        BY <3>1, <3>2, <3>4, <4>1 DEF Passed, v
    <3>6. found' = IF use = "one" THEN <<Head(v[Last] \o <<B!Nothing>>)>> ELSE v[Last] \o <<B!Nothing>>
      BY <3>1, <3>2, <3>4, <3>5 DEF Passed, v
    <3> QED
      BY <1>10, <2>1, <3>1, <3>6 DEF PlaceInv, v
  <2>3. CASE entry # B!NoEntry
    <3> DEFINE p == iterator - Start - 1
    <3>1. /\ iterator > Start /\ entry = table[iterator - Start] /\ B!Matches(entry)
          /\ Passed(p, found)
      BY <1>10, <2>1, <2>3 DEF PlaceInv
    <3>2. /\ p + 1 \in 1 .. Last /\ iterator - Start = p + 1 /\ (p + 1) - 1 = p
          /\ p \in 0 .. Last /\ iterator # 0 /\ entry = table[p + 1] /\ entry \in Entries
          /\ entry.value \in BiValues /\ entry.value # B!Nothing
      BY <1>0, <2>1, <3>1
    <3> HIDE DEF p
    <3>3. CASE want.id \in {B!AnyId, entry.id}
      <4>1. v[p + 1] = Append(v[p], entry.value)
        BY <1>0, <3>1, <3>2, <3>3 DEF B!Asked
      <4>2. found' = v[p + 1] /\ search' = (IF use = "all" THEN "idle" ELSE "end")
            /\ iterator' = iterator
        BY <2>1, <2>3, <3>1, <3>2, <3>3, <4>1 DEF B!Given, Passed, v
      <4>3. CASE use = "all"
        <5>1. Passed(p + 1, found') /\ search' = "idle"
          BY <1>10, <3>2, <4>2, <4>3 DEF Passed, v
        <5> QED
          BY <1>10, <2>1, <3>2, <4>2, <5>1 DEF PlaceInv
      <4>4. CASE use = "one"
        <5>1. v[p + 1] = <<entry.value>>
          <6>1. v[p] = << >>
            BY <3>1, <4>4 DEF Passed, v
          <6> QED
            BY <4>1, <6>1
        <5>2. Head(v[Last] \o <<B!Nothing>>) = entry.value
          <6>1. v[p + 1] \in Seq(BiValues) /\ v[Last] \in Seq(BiValues)
                /\ <<B!Nothing>> \in Seq(BiValues) /\ Len(<<B!Nothing>>) = 1
            BY <1>0, <3>2 DEF BiValues
          <6>2. B!IsPrefix(v[p + 1], v[Last])
            BY <2>1, <3>2, ValuesGrow DEF v
          <6>3. Len(v[Last]) \in Nat \ {0} /\ v[Last][1] = entry.value
            BY <5>1, <6>1, <6>2 DEF B!IsPrefix
          <6>4. /\ v[Last] \o <<B!Nothing>> \in Seq(BiValues)
                /\ Len(v[Last] \o <<B!Nothing>>) = Len(v[Last]) + 1
                /\ (v[Last] \o <<B!Nothing>>)[1] = v[Last][1]
            BY <6>1, <6>3, ConcatProperties
          <6> QED
            BY <6>3, <6>4
        <5> QED
          BY <1>10, <2>1, <4>2, <4>4, <5>1, <5>2 DEF PlaceInv, v
      <4> QED
        BY <2>1, <4>3, <4>4
    <3>4. CASE want.id \notin {B!AnyId, entry.id}
      <4>1. v[p + 1] = v[p] /\ search' = "find" /\ iterator' = iterator /\ found' = found
        BY <1>0, <2>1, <2>3, <3>2, <3>4 DEF B!Asked
      <4>2. Passed(p + 1, found')
        BY <1>10, <3>1, <3>2, <4>1 DEF Passed, v
      <4> QED
        BY <1>10, <2>1, <3>2, <4>1, <4>2 DEF PlaceInv
    <3> QED
      BY <3>3, <3>4
  <2> QED
    BY <2>2, <2>3
<1>12. ASSUME B!Walk PROVE New
  <2>1. search = "walk" /\ B!Descriptors # {} /\ use = "walk" /\ iterator \in {0} \cup Start .. Start + Last
    BY <1>10, <1>12 DEF B!Walk, PlaceInv
  <2>2. CASE iterator = 0
    <3>1. search' = "end" /\ found' = found /\ found = v[Last] \o <<B!Nothing>>
      BY <1>10, <1>12, <2>1, <2>2 DEF B!Walk, PlaceInv, v
    <3> QED
      BY <2>1, <3>1 DEF PlaceInv, v
  <2>3. CASE iterator # 0
    <3> DEFINE p == iterator - Start
    <3>1. /\ search' = "walk" /\ found' = Append(found, B!pr_bi_get(iterator).value)
          /\ iterator' = B!pr_bi_next(iterator)
      BY <1>12, <2>3 DEF B!Walk
    <3>2. p \in 0 .. Last /\ B!End = Start + Last /\ found = v[p]
      BY <1>0, <1>10, <2>1, <2>3 DEF PlaceInv, Passed, B!End, Last, v
    <3>3. CASE p = Last
      <4>1. iterator' = 0 /\ B!pr_bi_get(iterator) = B!NoEntry
        BY <1>0, <2>1, <2>3, <3>1, <3>2, <3>3 DEF B!pr_bi_next, B!pr_bi_get
      <4>2. found' = Append(v[Last], B!Nothing)
        BY <2>1, <3>1, <3>2, <3>3, <4>1 DEF B!NoEntry, B!Nothing
      <4>3. v[Last] \in Seq(BiValues) /\ B!Nothing \in BiValues
        BY <1>0
      <4>4. found' = v[Last] \o <<B!Nothing>>
        BY <4>2, <4>3, AppendIsConcat
      <4> QED
        BY <2>1, <3>1, <4>1, <4>4 DEF PlaceInv, v
    <3>4. CASE p # Last
      <4>0. /\ iterator \in Nat \ {0} /\ iterator < B!End /\ p + 1 \in 1 .. Last
            /\ (p + 1) - 1 = p /\ (iterator + 1) - Start = p + 1
            /\ iterator + 1 \in Start .. Start + Last /\ iterator + 1 # 0
        BY <1>0, <2>1, <2>3, <3>2, <3>4
      <4>5. iterator' = iterator + 1 /\ B!pr_bi_get(iterator) = table[p + 1]
        BY <3>1, <4>0 DEF B!pr_bi_next, B!pr_bi_get
      <4>1. /\ iterator' = iterator + 1 /\ B!pr_bi_get(iterator) = table[p + 1]
            /\ p + 1 \in 1 .. Last /\ (p + 1) - 1 = p /\ iterator' - Start = p + 1
            /\ iterator' \in Start .. Start + Last /\ iterator' # 0
        BY <4>0, <4>5
      <4> HIDE DEF p
      <4>2. v[p + 1] = Append(v[p], table[p + 1].value)
        BY <1>0, <2>1, <4>1 DEF B!Asked
      <4>3. Passed(iterator' - Start, found')
        BY <2>1, <3>1, <3>2, <4>1, <4>2 DEF Passed, v
      <4> QED
        BY <2>1, <3>1, <4>1, <4>3 DEF PlaceInv
    <3> QED
      BY <3>3, <3>4
  <2> QED
    BY <2>2, <2>3
<1>7. ASSUME UNCHANGED B!vars PROVE New
  BY <1>10, <1>7 DEF B!vars, PlaceInv, Passed
<1>8. UNCHANGED <<flash, table, want, use>>
  BY DEF B!Next, B!vars, B!pr_bi_desc_find, B!Seen, B!NoDescriptor, B!Call, B!pr_bi_find,
         B!NotFound, B!pr_bi_find_typed, B!Walk
<1>9. New
  BY <1>2, <1>3, <1>4, <1>5, <1>6, <1>7, <1>11, <1>12 DEF B!Next
<1> QED
  BY <1>1, <1>8, <1>9

\* Before its end, a search has given the values of the entries it has passed.
LEMMA InfoFinds == ASSUME B!BiAssumption, InfoInv PROVE B!EntriesFound
<1> DEFINE v == B!ValuesOf[Last]  values == v \o <<B!Nothing>>
<1>0. /\ table \in Seq(Entries) /\ DescInv /\ PlaceInv(search, iterator, entry, found)
      /\ Last \in Nat
  BY DEF InfoInv, Last
<1>1. search # "locate" /\ B!Descriptors # {} =>
        desc \in B!Descriptors /\ \A p \in B!Descriptors : desc <= p
  BY <1>0, DescFound
<1>2. search = "end" => found = IF B!Descriptors = {} THEN <<"NULL">>
                                ELSE IF use = "one" THEN <<Head(values)>> ELSE values
  BY <1>0 DEF PlaceInv
<1>3. v \in Seq(BiValues) /\ Len(v) \in Nat
  BY <1>0, ValuesGrow, LenProperties
<1>4. <<B!Nothing>> \in Seq(BiValues) /\ Len(<<B!Nothing>>) = 1
  BY DEF BiValues, B!Nothing
<1> HIDE DEF v
<1>5. /\ values \in Seq(BiValues) /\ Len(values) = Len(v) + 1
      /\ \A i \in 1 .. Len(v) : values[i] = v[i]
  BY <1>3, <1>4, ConcatProperties
<1> HIDE DEF values
<1>6. ASSUME NEW n \in 0 .. Last, found = B!ValuesOf[n] PROVE B!IsPrefix(found, values)
  <2>2. found \in Seq(BiValues) /\ B!IsPrefix(found, v)
    BY <1>0, <1>6, ValuesGrow DEF v
  <2>5. /\ Len(found) \in Nat /\ Len(found) <= Len(v)
        /\ \A i \in 1 .. Len(found) : v[i] = found[i]
    <3>1. SubSeq(found, 1, Len(found)) = found
      BY <2>2, SubSeqFull
    <3>2. Len(found) <= Len(v) /\ found = SubSeq(v, 1, Len(found))
      BY <2>2, <3>1 DEF B!IsPrefix
    <3>3. \A i \in 1 .. Len(v) : v[i] \in BiValues
      BY <1>3, ElementOfSeq
    <3>4. Len(found) \in Nat
      BY <2>2, LenProperties
    <3>5. \A i \in 1 .. Len(found) : SubSeq(v, 1, Len(found))[i] = v[i]
      BY <1>3, <3>2, <3>3, <3>4
    <3> QED
      BY <3>2, <3>4, <3>5
  <2> QED
    BY <1>3, <1>5, <2>2, <2>5, PrefixOf
<1>7. search # "end" => B!IsPrefix(found, values)
  <2>1. CASE search = "locate"
    <3>1. found = << >> /\ << >> \in Seq(BiValues) /\ Len(<< >>) = 0 /\ Len(values) \in Nat
      BY <1>0, <1>3, <1>5, <2>1 DEF PlaceInv
    <3>2. Len(found) <= Len(values) /\ \A i \in 1 .. Len(found) : values[i] = found[i]
      BY <3>1, <1>3, <1>5
    <3> QED
      BY <1>5, <3>1, <3>2, PrefixOf
  <2>2. CASE search = "walk" /\ iterator = 0
    <3>1. found = values
      BY <1>0, <2>2 DEF PlaceInv, values, v
    <3>2. Len(values) \in Nat
      BY <1>3, <1>5
    <3> QED
      BY <1>5, <3>1, <3>2, PrefixOf
  <2>3. CASE search \in {"idle", "find", "test"} \/ (search = "walk" /\ iterator # 0)
    <3>1. \E n \in 0 .. Last : found = B!ValuesOf[n]
      BY <1>0, <2>3 DEF PlaceInv, Passed
    <3> QED
      BY <1>6, <3>1
  <2> QED
    BY <1>0, <2>1, <2>2, <2>3 DEF PlaceInv
<1> QED
  BY <1>1, <1>2, <1>7 DEF B!EntriesFound, Last, v, values

\* The search starts as it does alone, and a step of the whole is one of it, or leaves
\* it alone.
LEMMA InfoPart ==
  ASSUME B!BiAssumption
  PROVE  (DevicesInit => InfoInv) /\ ([DevicesNext]_all => [B!Next]_(B!vars))
<1>1. ASSUME DevicesInit PROVE InfoInv
  <2>1. /\ table \in Given("info", B!Tables)
        /\ iterator = 0 /\ search = "locate" /\ desc = 0 /\ found = << >>
        /\ use \in Given("info", B!Uses)
    BY <1>1 DEF DevicesInit, B!InitOf
  <2>2. table \in B!Tables
    <3>1. << >> \in B!Tables
      <4>1. << >> \in [1 .. 0 -> Entries] /\ 0 \in 0 .. MaxTable
        BY DEF B!BiAssumption
      <4> QED
        BY <4>1 DEF B!Tables, B!BoundedSeq, B!SeqOf
    <3> QED
      BY <2>1, <3>1 DEF Given
  <2>3. table \in Seq(Entries)
    <3>1. PICK m \in 0 .. MaxTable : table \in [1 .. m -> Entries]
      BY <2>2 DEF B!Tables, B!BoundedSeq, B!SeqOf
    <3> QED
      BY <3>1 DEF B!BiAssumption
  <2>4. use \in {"one", "all", "walk"}
    BY <2>1 DEF Given, B!Uses
  <2>5. DescInv
    BY <2>1 DEF DescInv, B!BiAssumption
  <2>6. PlaceInv(search, iterator, entry, found)
    BY <2>1 DEF PlaceInv
  <2> QED
    BY <2>3, <2>4, <2>5, <2>6 DEF InfoInv
<1>2. ASSUME [DevicesNext]_all PROVE B!Next \/ UNCHANGED info
  BY <1>2 DEF DevicesNext, all, EepromStep, StripStep, InputStep, ExpanderStep, SpiStep,
              InfoStep, DevIdStep, FramesStep
<1>3. UNCHANGED info => UNCHANGED B!vars
  BY DEF info, B!vars
<1> QED
  BY <1>1, <1>2, <1>3

\* In a flash and a table of any length, whatever is asked for: the search for the
\* descriptor stops at the first that starts within the window, and passes over none;
\* without one nothing is found.  With one, a caller is given the entries that match,
\* each once and in their order, and then what says that there are no more: NULL, or
\* -1 from pr_bi_find_int (bi_reader.c:16-153).
THEOREM BoardFinds == DevicesSpec => []EntriesFound
<1>1. B!BiAssumption
  BY DevicesAssumption
<1>2. DevicesInit => InfoInv
  BY <1>1, InfoPart
<1>3. InfoInv /\ [DevicesNext]_all => InfoInv'
  BY <1>1, InfoPart, InfoSteps
<1>4. InfoInv => EntriesFound
  BY <1>1, InfoFinds DEF EntriesFound
<1> QED
  BY <1>2, <1>3, <1>4, PTL DEF DevicesSpec

----------------------------------------------------------------------------
(* ModbusDevId, for any buffer, codes and objects.                         *)

\* s has the numbers of set, in order.
InOrder(s, set) ==
  /\ s \in Seq(Nat)
  /\ \A i, j \in DOMAIN s : i < j => s[i] < s[j]
  /\ D!ToSet(s) = set

\* The objects that the application has, from the first that is asked for up to n.
Below(n) == {o \in DOMAIN lengths : first <= o /\ o < n}

LastId == LastOf[code]

IdTypes ==
  /\ DOMAIN lengths \subseteq Nat /\ \A i \in DOMAIN lengths : lengths[i] \in Nat
  /\ at \in {"asked", "loop", "respond", "end"}
  /\ ptr \in Nat /\ ptr + 2 <= BufferSize
  /\ got \in Seq(Nat) /\ objects \in Seq(Nat)

\* What each place of the loop says about the objects that are out: i is the counter,
\* n the next object, and given what has been given with what is in the response.
PlaceSays(place, i, n, o, given, p) ==
  /\ i \in first .. LastId + 1 /\ n \in 0 .. LastId + 1
  /\ place \in {"asked", "loop"} => InOrder(given, Below(i))
  /\ place = "asked" => o = << >> /\ i <= LastId
  /\ place = "loop" => /\ i > LastId => n = i
                       /\ o = << >> => p = D!Header
  /\ place = "respond" => /\ InOrder(given, Below(n)) /\ n >= first
                          /\ n < LastId => o # << >>
  /\ place = "end" => InOrder(given, Below(LastId + 1))

IdInv ==
  /\ IdTypes
  /\ IF D!Known
     THEN /\ LastId \in Nat /\ LastId < Wrap - 1 /\ first \in 0 .. LastId
          /\ PlaceSays(at, id, next, objects, got \o objects, ptr)
     ELSE at \in {"asked", "end"} /\ first = 0 /\ got = << >> /\ objects = << >>

\* The buffer has room for the head and the checksum of what is left, and it is not
\* the last object that does not fit.
Roomy ==
  /\ D!InLoop /\ id \in DOMAIN lengths => ptr <= BufferSize - 4
  /\ at = "respond" /\ D!Known => next # LastId

\* One more number, larger than the others.
LEMMA OneMore ==
  ASSUME NEW s, NEW set, InOrder(s, set), NEW x \in Nat, \A y \in set : y < x
  PROVE  InOrder(Append(s, x), set \cup {x})
<1> DEFINE t == Append(s, x)
<1>1. s \in Seq(Nat) /\ DOMAIN s = 1 .. Len(s) /\ Len(s) \in Nat
  BY LenProperties DEF InOrder
<1>2. /\ t \in Seq(Nat) /\ Len(t) = Len(s) + 1 /\ t[Len(s) + 1] = x
      /\ \A i \in 1 .. Len(s) : t[i] = s[i]
  BY <1>1, AppendProperties
<1> HIDE DEF t
<1>3. DOMAIN t = 1 .. Len(s) + 1
  BY <1>2, LenProperties
<1>4. \A i \in 1 .. Len(s) : s[i] \in Nat /\ s[i] \in set
  BY <1>1, ElementOfSeq DEF InOrder, D!ToSet
<1>5. ASSUME NEW i \in DOMAIN t, NEW j \in DOMAIN t, i < j PROVE t[i] < t[j]
  <2>1. i \in 1 .. Len(s)
    BY <1>1, <1>3, <1>5
  <2>2. CASE j = Len(s) + 1
    BY <1>2, <1>4, <2>1, <2>2
  <2>3. CASE j # Len(s) + 1
    <3>1. j \in 1 .. Len(s)
      BY <1>1, <1>3, <2>3
    <3> QED
      BY <1>1, <1>2, <1>5, <2>1, <3>1, SMTT(40) DEF InOrder
  <2> QED
    BY <2>2, <2>3
<1>6. D!ToSet(t) = set \cup {x}
  <2>1. ASSUME NEW i \in DOMAIN t PROVE t[i] \in set \cup {x}
    <3>1. CASE i = Len(s) + 1
      BY <1>2, <3>1
    <3>2. CASE i # Len(s) + 1
      <4>1. i \in 1 .. Len(s)
        BY <1>1, <1>3, <3>2
      <4> QED
        BY <1>2, <1>4, <4>1
    <3> QED
      BY <3>1, <3>2
  <2>2. \A y \in set : \E i \in DOMAIN t : t[i] = y
    BY <1>1, <1>2, <1>3 DEF InOrder, D!ToSet
  <2>3. Len(s) + 1 \in DOMAIN t
    BY <1>1, <1>3
  <2> QED
    BY <1>2, <2>1, <2>2, <2>3 DEF D!ToSet
<1> QED
  BY <1>2, <1>5, <1>6 DEF InOrder, t

\* An object is cut to MaxObject characters.
LEMMA SizeBounds ==
  ASSUME D!DevIdAssumption, IdTypes, NEW i \in DOMAIN lengths
  PROVE  D!Size(i) \in Nat /\ D!Size(i) <= MaxObject
<1> DEFINE set == {lengths[i], MaxObject}
<1>1. lengths[i] \in Nat /\ MaxObject \in Nat
  BY DEF IdTypes, D!DevIdAssumption
<1>2. \E x \in set : \A y \in set : x <= y
  BY <1>1
<1>3. D!Min(set) \in set /\ \A y \in set : D!Min(set) <= y
  <2> HIDE DEF set
  <2> QED
    BY <1>2 DEF D!Min
<1> QED
  BY <1>1, <1>3 DEF D!Size

\* Each step of the client and the server keeps the invariant of the identification, as
\* long as the response is roomy.
LEMMA IdSteps ==
  ASSUME D!DevIdAssumption, IdInv, Roomy, [D!Next]_(D!vars)
  PROVE  IdInv'
<1> DEFINE given == got \o objects
           New == PlaceSays(at', id', next', objects', got' \o objects', ptr')
<1>0. /\ Wrap \in Nat \ {0} /\ MaxObject \in Nat \ {0} /\ BufferSize \in Nat
      /\ BufferSize >= 12 + MaxObject /\ D!Header = 8
      /\ got \in Seq(Nat) /\ objects \in Seq(Nat) /\ ptr \in Nat /\ ptr + 2 <= BufferSize
      /\ at \in {"asked", "loop", "respond", "end"}
      /\ DOMAIN lengths \subseteq Nat /\ \A i \in DOMAIN lengths : lengths[i] \in Nat
  BY DEF D!DevIdAssumption, D!Header, IdInv, IdTypes
<1>1. UNCHANGED <<lengths, code, first>>
  BY DEF D!Next, D!vars, D!Ask, D!Refused, D!NoObject, D!AddObject, D!LoopEnds, D!Respond
<1>2. ASSUME at' \in {"asked", "loop", "respond", "end"}, ptr' \in Nat, ptr' + 2 <= BufferSize,
             got' \in Seq(Nat), objects' \in Seq(Nat)
      PROVE  IdTypes'
  BY <1>0, <1>1, <1>2 DEF IdTypes
<1>3. ASSUME D!Known PROVE
        /\ LastId \in Nat /\ LastId < Wrap - 1 /\ first \in 0 .. LastId
        /\ id \in first .. LastId + 1 /\ next \in 0 .. LastId + 1
        /\ PlaceSays(at, id, next, objects, given, ptr)
  BY <1>3 DEF IdInv, PlaceSays
<1>4. ASSUME D!Known, IdTypes', New PROVE IdInv'
  <2>1. D!Known' /\ LastId' = LastId /\ first' = first
    BY <1>1, <1>4 DEF D!Known, LastId
  <2>2. PlaceSays(at, id, next, objects, got \o objects, ptr)'
    <3>1. Below(id)' = Below(id') /\ Below(next)' = Below(next')
          /\ Below(LastId + 1)' = Below(LastId + 1)
      BY <1>1, <2>1 DEF Below
    <3>2. /\ InOrder(got \o objects, Below(id))' = InOrder(got' \o objects', Below(id'))
          /\ InOrder(got \o objects, Below(next))' = InOrder(got' \o objects', Below(next'))
          /\ InOrder(got \o objects, Below(LastId + 1))'
               = InOrder(got' \o objects', Below(LastId + 1))
      BY <3>1 DEF InOrder, D!ToSet
    <3> QED
      BY <1>4, <2>1, <3>2 DEF PlaceSays, D!Header
  <2> QED
    BY <1>3, <1>4, <2>1, <2>2 DEF IdInv
<1> HIDE DEF New, given
<1>5. CASE D!Ask
  <2>1. /\ at = "asked" /\ D!Known /\ at' = "loop" /\ ptr' = 8 /\ next' = 0
        /\ objects' = << >> /\ UNCHANGED <<id, got>>
    BY <1>0, <1>5 DEF D!Ask
  <2>2. objects = << >> /\ InOrder(given, Below(id)) /\ id <= LastId
    BY <1>3, <2>1 DEF PlaceSays
  <2>3. got' \o objects' = given
    BY <2>1, <2>2 DEF given
  <2>4. IdTypes'
    BY <1>0, <1>2, <2>1
  <2>5. New
    BY <1>0, <1>3, <2>1, <2>2, <2>3 DEF New, PlaceSays
  <2> QED
    BY <1>4, <2>1, <2>4, <2>5
<1>6. CASE D!Refused
  <2>1. ~D!Known /\ at' = "end" /\ UNCHANGED <<ptr, got, objects>>
    BY <1>6 DEF D!Refused
  <2>2. IdTypes'
    BY <1>0, <1>2, <2>1
  <2>3. ~D!Known' /\ first' = 0 /\ got = << >> /\ objects = << >>
    BY <1>1, <2>1 DEF IdInv, D!Known
  <2> QED
    BY <2>1, <2>2, <2>3 DEF IdInv
<1>7. ASSUME D!InLoop
      PROVE  /\ at = "loop" /\ D!Known /\ id <= LastId /\ (id + 1) % Wrap = id + 1
             /\ InOrder(given, Below(id)) /\ (objects = << >> => ptr = 8)
  <2>1. at = "loop" /\ id <= LastId
    BY <1>7 DEF D!InLoop, LastId
  <2>2. D!Known
    BY <2>1 DEF IdInv
  <2>3. id \in Nat /\ id + 1 < Wrap
    BY <1>0, <1>3, <2>1, <2>2
  <2>4. InOrder(given, Below(id)) /\ (objects = << >> => ptr = 8)
    BY <1>0, <1>3, <2>1, <2>2 DEF PlaceSays
  <2>5. (id + 1) % Wrap = id + 1
    <3>1. \A w \in Nat \ {0}, x \in Nat : x < w => x % w = x
      OBVIOUS
    <3>2. id + 1 \in Nat /\ id + 1 < Wrap
      BY <2>3
    <3> QED
      BY <1>0, <3>1, <3>2
  <2> QED
    BY <2>1, <2>2, <2>4, <2>5
<1>8. CASE D!NoObject
  <2>1. /\ D!InLoop /\ id \notin DOMAIN lengths /\ next' = (id + 1) % Wrap
        /\ id' = (id + 1) % Wrap /\ UNCHANGED <<ptr, objects, got, at>>
    BY <1>8 DEF D!NoObject
  <2>2. /\ id \in first .. LastId /\ first \in Nat /\ LastId \in Nat
        /\ at' = "loop" /\ id' = id + 1 /\ next' = id + 1 /\ got' \o objects' = given
        /\ (objects' = << >> => ptr' = 8)
    BY <1>3, <1>7, <2>1 DEF given
  <2>3. Below(id + 1) = Below(id)
    BY <1>0, <2>1, <2>2 DEF Below
  <2>4. IdTypes'
    BY <1>0, <1>2, <2>1
  <2>5. New
    BY <1>0, <1>7, <2>1, <2>2, <2>3 DEF New, PlaceSays
  <2> QED
    BY <1>4, <1>7, <2>1, <2>4, <2>5
<1>9. CASE D!AddObject
  <2>1. /\ D!InLoop /\ id \in DOMAIN lengths /\ got' = got
        /\ IF D!Room < D!Size(id)
           THEN next' = id /\ at' = "respond" /\ UNCHANGED <<id, ptr, objects>>
           ELSE /\ next' = (id + 1) % Wrap /\ id' = (id + 1) % Wrap
                /\ ptr' = ptr + D!Size(id) + 2 /\ objects' = Append(objects, id)
                /\ UNCHANGED at
    BY <1>9 DEF D!AddObject
  <2>2. D!Size(id) \in Nat /\ D!Size(id) <= MaxObject
    BY <2>1, SizeBounds DEF IdInv
  <2>3. ptr <= BufferSize - 4 /\ D!Room = BufferSize - 4 - ptr
    BY <2>1 DEF Roomy, D!Room
  <2>4. /\ id \in first .. LastId /\ first \in Nat /\ LastId \in Nat /\ at = "loop" /\ D!Known
        /\ InOrder(given, Below(id))
    BY <1>3, <1>7, <2>1
  <2>5. CASE D!Room < D!Size(id)
    <3>1. objects # << >>
      BY <1>0, <1>7, <2>1, <2>2, <2>3, <2>5
    <3>2. IdTypes'
      BY <1>0, <1>2, <2>1, <2>5
    <3>3. next' = id /\ id' = id /\ at' = "respond" /\ objects' = objects
          /\ got' \o objects' = given
      BY <2>1, <2>5 DEF given
    <3>4. New
      BY <2>4, <3>1, <3>3 DEF New, PlaceSays
    <3> QED
      BY <1>4, <2>4, <3>2, <3>4
  <2>6. CASE ~(D!Room < D!Size(id))
    <3>1. id \in Nat /\ Below(id + 1) = Below(id) \cup {id} /\ \A y \in Below(id) : y < id
      BY <1>0, <2>1, <2>4 DEF Below
    <3>2. InOrder(Append(given, id), Below(id + 1))
      BY <2>4, <3>1, OneMore
    <3>3. /\ got' \o objects' = Append(given, id) /\ objects' \in Seq(Nat) /\ objects' # << >>
          /\ got' = got
      <4>1. <<id>> \in Seq(Nat) /\ got \o objects \in Seq(Nat)
        BY <1>0, <3>1
      <4>2. Append(objects, id) = objects \o <<id>>
            /\ Append(got \o objects, id) = (got \o objects) \o <<id>>
        BY <1>0, <3>1, <4>1, AppendIsConcat
      <4>3. (got \o objects) \o <<id>> = got \o (objects \o <<id>>)
        BY <1>0, <4>1, ConcatAssociative
      <4>4. Append(objects, id) \in Seq(Nat) /\ Len(Append(objects, id)) = Len(objects) + 1
            /\ Len(objects) \in Nat
        BY <1>0, <3>1, AppendProperties
      <4>5. Append(objects, id) # << >>
        BY <4>4, EmptySeq
      <4> QED
        BY <2>1, <2>6, <4>2, <4>3, <4>4, <4>5, ZenonT(40) DEF given
    <3>4. ptr' \in Nat /\ ptr' + 2 <= BufferSize
      BY <1>0, <2>1, <2>2, <2>3, <2>6
    <3>5. at' = "loop" /\ id' = id + 1 /\ next' = id + 1
      BY <1>7, <2>1, <2>4, <2>6
    <3>6. IdTypes'
      BY <1>0, <1>2, <3>3, <3>4, <3>5
    <3>7. New
      BY <2>4, <3>2, <3>3, <3>5 DEF New, PlaceSays
    <3> QED
      BY <1>4, <2>4, <3>6, <3>7
  <2> QED
    BY <2>5, <2>6
<1>10. CASE D!LoopEnds
  <2>1. at = "loop" /\ id > LastId /\ at' = "respond" /\ UNCHANGED <<id, ptr, next, objects, got>>
    BY <1>10 DEF D!LoopEnds, LastId
  <2>2. D!Known
    BY <2>1 DEF IdInv
  <2>3. /\ next = id /\ id = LastId + 1 /\ InOrder(given, Below(id)) /\ LastId \in Nat
        /\ first \in 0 .. LastId
    BY <1>3, <2>1, <2>2 DEF PlaceSays
  <2>4. IdTypes'
    BY <1>0, <1>2, <2>1
  <2>5. New
    BY <2>1, <2>3 DEF New, PlaceSays, given
  <2> QED
    BY <1>4, <2>2, <2>4, <2>5
<1>11. CASE D!Respond
  <2>1. /\ at = "respond" /\ got' = got \o objects /\ objects' = << >>
        /\ IF next >= LastId THEN at' = "end" /\ UNCHANGED id ELSE at' = "asked" /\ id' = next
        /\ UNCHANGED <<ptr, next>>
    BY <1>11 DEF D!Respond, LastId
  <2>2. D!Known
    BY <2>1 DEF IdInv
  <2>3. /\ InOrder(given, Below(next)) /\ next >= first /\ next # LastId
        /\ LastId \in Nat /\ first \in 0 .. LastId /\ next \in 0 .. LastId + 1
        /\ id \in first .. LastId + 1
    BY <1>3, <2>1, <2>2 DEF PlaceSays, Roomy
  <2>4. got' \in Seq(Nat) /\ got' \o objects' = given
    <3>1. got \o objects \in Seq(Nat)
      BY <1>0
    <3> QED
      BY <2>1, <3>1, ConcatEmptySeq DEF given
  <2>5. IdTypes'
    <3>1. << >> \in Seq(Nat)
      OBVIOUS
    <3> QED
      BY <1>0, <1>2, <2>1, <2>4, <3>1
  <2>6. CASE next >= LastId
    <3>1. next = LastId + 1 /\ at' = "end" /\ id' = id /\ next' = next
      BY <2>1, <2>3, <2>6
    <3>2. New
      BY <2>3, <2>4, <3>1 DEF New, PlaceSays
    <3> QED
      BY <1>4, <2>2, <2>5, <3>2
  <2>7. CASE ~(next >= LastId)
    <3>1. next \in first .. LastId /\ at' = "asked" /\ id' = next /\ next' = next
      BY <2>1, <2>3, <2>7
    <3>2. /\ id' \in first .. LastId + 1 /\ next' \in 0 .. LastId + 1 /\ id' <= LastId
          /\ objects' = << >>
      BY <2>1, <2>3, <3>1
    <3>3. InOrder(got' \o objects', Below(id'))
      BY <2>3, <2>4, <3>1
    <3>4. New
      BY <3>1, <3>2, <3>3 DEF New, PlaceSays
    <3> QED
      BY <1>4, <2>2, <2>5, <3>4
  <2> QED
    BY <2>6, <2>7
<1>12. CASE UNCHANGED D!vars
  <2>1. UNCHANGED <<at, id, next, objects, got, ptr>>
    BY <1>12 DEF D!vars
  <2>2. IdTypes'
    BY <1>0, <1>2, <2>1
  <2>3. CASE D!Known
    <3>1. New
      BY <1>3, <2>1, <2>3 DEF New, given
    <3> QED
      BY <1>4, <2>2, <2>3, <3>1
  <2>4. CASE ~D!Known
    BY <1>1, <2>1, <2>2, <2>4 DEF IdInv, D!Known
  <2> QED
    BY <2>3, <2>4
<1> QED
  BY <1>5, <1>6, <1>8, <1>9, <1>10, <1>11, <1>12 DEF D!Next

\* What is out is what there is up to the place of the loop, so that each object is out
\* once and in order.
LEMMA IdOnce ==
  ASSUME D!DevIdAssumption, IdInv
  PROVE  D!ObjectsOnce
<1> DEFINE given == got \o objects
<1>1. ptr + 2 <= BufferSize /\ got \in Seq(Nat) /\ objects \in Seq(Nat)
      /\ DOMAIN lengths \subseteq Nat
  BY DEF IdInv, IdTypes
<1>2. CASE ~D!Known
  <2>1. got = << >> /\ objects = << >> /\ at \in {"asked", "end"}
    BY <1>2 DEF IdInv
  <2>2. given = << >>
    BY <2>1
  <2> HIDE DEF given
  <2>3. DOMAIN given = {} /\ D!ToSet(given) = {}
    BY <2>2 DEF D!ToSet
  <2>4. DOMAIN lengths \cap (first .. -1) = {}
    BY <1>2 DEF IdInv
  <2> QED
    BY <1>1, <1>2, <2>1, <2>3, <2>4 DEF D!ObjectsOnce, given
<1>3. CASE D!Known
  <2>1. /\ LastId \in Nat /\ first \in 0 .. LastId
        /\ PlaceSays(at, id, next, objects, given, ptr)
        /\ at \in {"asked", "loop", "respond", "end"}
    BY <1>3 DEF IdInv, IdTypes
  <2> HIDE DEF given
  <2>2. PICK m \in first .. LastId + 1 :
          InOrder(given, Below(m)) /\ (at = "end" => m = LastId + 1)
    <3>1. CASE at \in {"asked", "loop"}
      BY <2>1, <3>1 DEF PlaceSays
    <3>2. CASE at = "respond"
      BY <2>1, <3>2 DEF PlaceSays
    <3>3. CASE at = "end"
      BY <2>1, <3>3 DEF PlaceSays
    <3> QED
      BY <2>1, <3>1, <3>2, <3>3
  <2>3. /\ \A i, j \in DOMAIN given : i < j => given[i] < given[j]
        /\ D!ToSet(given) = Below(m) /\ \A i \in DOMAIN given : given[i] \in Below(m)
    BY <2>2 DEF InOrder, D!ToSet
  <2>4. Below(LastId + 1) = DOMAIN lengths \cap (first .. LastId)
    BY <1>1, <2>1 DEF Below
  <2>5. Below(m) \subseteq Below(LastId + 1)
    BY <2>1, <2>2, <1>1 DEF Below
  <2>6. ASSUME NEW o \in Below(LastId + 1), o \notin Below(m)
        PROVE  at # "end" /\ \A i \in DOMAIN given : given[i] < o
    <3>1. o >= m /\ o \in Nat /\ m \in Nat
      BY <1>1, <2>1, <2>2, <2>6 DEF Below
    <3>2. at # "end"
      BY <2>1, <2>2, <2>6
    <3>3. \A x \in Below(m) : x < o
      BY <1>1, <3>1 DEF Below
    <3> QED
      BY <2>3, <3>2, <3>3
  <2>7. at = "respond" /\ next < LastId => objects # << >>
    BY <2>1 DEF PlaceSays
  <2> QED
    BY <1>1, <1>3, <2>3, <2>4, <2>5, <2>6, <2>7 DEF D!ObjectsOnce, LastId, given
<1> QED
  BY <1>2, <1>3

\* The codes that the client may ask for end before the counter of the loop does: not
\* the code 3, of 0xff.
CodesEnd == \A c \in Codes \cap DOMAIN LastOf : LastOf[c] < Wrap - 1

\* All objects of a code fit in one response, however long they are.
CodesFit ==
  \A c \in Codes \cap DOMAIN LastOf : 8 + (LastOf[c] + 1) * (MaxObject + 2) <= BufferSize - 2

\* The identification is asked, or the part is not in use and is as it was at first.
IdBoard ==
  IF app = "devid" THEN IdInv /\ code \in Codes
  ELSE at = "asked" /\ got = << >> /\ objects = << >> /\ ptr = 0

\* There is room for the objects that are left, so that the reading ends with one
\* response.
Spare ==
  app = "devid" /\ D!Known =>
    /\ at = "loop" => ptr + (LastId + 1 - id) * (MaxObject + 2)
                        <= 8 + (LastId + 1) * (MaxObject + 2)
    /\ at = "respond" => next > LastId

\* The reading starts with no object, for each code and each first object.
LEMMA IdStarts == ASSUME D!DevIdAssumption, CodesEnd, DevicesInit PROVE IdBoard /\ Spare
<1>1. /\ lengths \in Given("devid", Identities) /\ code \in Given("devid", Codes)
      /\ first \in D!Askable /\ id = first /\ ptr = 0 /\ next = 0
      /\ objects = << >> /\ got = << >> /\ at = "asked"
      /\ (app = "devid" \/ first = 0)
  BY DEF DevicesInit, D!InitOf
<1>2. CASE app # "devid"
  BY <1>1, <1>2 DEF IdBoard, Spare
<1>3. CASE app = "devid"
  <2>1. lengths \in Identities /\ code \in Codes
    BY <1>1, <1>3 DEF Given
  <2>2. /\ DOMAIN lengths \subseteq 0 .. Wrap - 1 /\ \A i \in DOMAIN lengths : lengths[i] \in Nat
        /\ Wrap \in Nat /\ BufferSize \in Nat /\ BufferSize >= 12 + MaxObject /\ MaxObject \in Nat
    BY <2>1 DEF D!DevIdAssumption
  <2>3. IdTypes
    <3>1. << >> \in Seq(Nat)
      OBVIOUS
    <3> QED
      BY <1>1, <2>2, <3>1 DEF IdTypes
  <2>4. ASSUME D!Known
        PROVE  /\ LastId \in Nat /\ LastId < Wrap - 1 /\ first \in 0 .. LastId
               /\ PlaceSays(at, id, next, objects, got \o objects, ptr)
    <3>1. LastId \in 0 .. Wrap - 1 /\ LastId < Wrap - 1 /\ first \in 0 .. LastId
      BY <1>1, <2>1, <2>4 DEF D!DevIdAssumption, CodesEnd, D!Known, D!Askable, LastId
    <3>2. got \o objects = << >>
      BY <1>1
    <3>3. Below(first) = {}
      BY <2>2, <3>1 DEF Below
    <3>4. InOrder(<< >>, {})
      BY DEF InOrder, D!ToSet
    <3> QED
      BY <1>1, <2>2, <3>1, <3>2, <3>3, <3>4 DEF PlaceSays
  <2>5. ~D!Known => first = 0
    BY <1>1 DEF D!Askable
  <2>6. IdInv
    BY <1>1, <2>3, <2>4, <2>5 DEF IdInv
  <2> QED
    BY <1>1, <1>3, <2>1, <2>6 DEF IdBoard, Spare
<1> QED
  BY <1>2, <1>3

\* A step of the whole is one of the reading, or leaves it alone.
LEMMA IdPart ==
  ASSUME D!DevIdAssumption, IdBoard, Roomy, [DevicesNext]_all
  PROVE  IdBoard' /\ [D!Next]_(D!vars)
<1>1. (app = "devid" /\ D!Next /\ app' = app) \/ (UNCHANGED devid /\ app' = app)
  BY DEF DevicesNext, all, EepromStep, StripStep, InputStep, ExpanderStep, SpiStep,
         InfoStep, DevIdStep, FramesStep
<1>2. UNCHANGED devid => UNCHANGED D!vars
  BY DEF devid, D!vars
<1>3. [D!Next]_(D!vars)
  BY <1>1, <1>2
<1>4. CASE app = "devid"
  <2>1. code' = code
    BY <1>3 DEF D!Next, D!vars, D!Ask, D!Refused, D!NoObject, D!AddObject, D!LoopEnds, D!Respond
  <2>2. IdInv'
    BY <1>3, <1>4, IdSteps DEF IdBoard
  <2> QED
    BY <1>1, <1>3, <1>4, <2>1, <2>2 DEF IdBoard
<1>5. CASE app # "devid"
  BY <1>1, <1>3, <1>5 DEF IdBoard, devid
<1> QED
  BY <1>4, <1>5

\* What is out is in order, in use or not.
LEMMA IdBoardOnce == ASSUME D!DevIdAssumption, IdBoard PROVE D!ObjectsOnce
<1>1. CASE app = "devid"
  BY <1>1, IdOnce DEF IdBoard
<1>2. CASE app # "devid"
  <2>1. at = "asked" /\ got \o objects = << >> /\ ptr = 0
    BY <1>2 DEF IdBoard
  <2>2. DOMAIN (got \o objects) = {} /\ D!ToSet(got \o objects) = {}
    BY <2>1 DEF D!ToSet
  <2> QED
    BY <2>1, <2>2 DEF D!ObjectsOnce, D!DevIdAssumption
<1> QED
  BY <1>1, <1>2

\* Where all objects of a code fit, there is room at each step.
LEMMA IdFits ==
  ASSUME D!DevIdAssumption, CodesFit, IdBoard, Spare
  PROVE  Roomy
<1>1. CASE app # "devid"
  BY <1>1 DEF IdBoard, Roomy, D!InLoop
<1>2. CASE app = "devid" /\ ~D!Known
  BY <1>2 DEF IdBoard, IdInv, Roomy, D!InLoop
<1>3. CASE app = "devid" /\ D!Known
  <2> DEFINE K == MaxObject + 2
  <2>1. /\ MaxObject \in Nat /\ BufferSize \in Nat /\ LastId \in Nat /\ ptr \in Nat
        /\ id \in Nat /\ next \in Nat /\ first \in 0 .. LastId
        /\ 8 + (LastId + 1) * K <= BufferSize - 2
    BY <1>3 DEF IdBoard, IdInv, IdTypes, PlaceSays, D!DevIdAssumption, CodesFit, LastId, D!Known
  <2>2. ASSUME at = "loop", id <= LastId PROVE ptr <= BufferSize - 4
    <3>1. ptr + (LastId + 1 - id) * K <= BufferSize - 2
      BY <1>3, <2>1, <2>2 DEF Spare
    <3>2. PICK n \in Nat : LastId + 1 - id = n + 1
      <4>1. LastId - id \in Nat /\ LastId + 1 - id = (LastId - id) + 1
        BY <2>1, <2>2
      <4> QED
        BY <4>1
    <3>3. (n + 1) * K = n * K + K /\ n * K \in Nat
      BY <2>1
    <3> QED
      BY <2>1, <3>1, <3>2, <3>3
  <2> QED
    BY <1>3, <2>1, <2>2 DEF Roomy, Spare, D!InLoop, LastId
<1> QED
  BY <1>1, <1>2, <1>3

\* An object takes from what is left no more than was kept for it, so that none is
\* left for another response.
LEMMA IdSpares ==
  ASSUME D!DevIdAssumption, CodesFit, IdBoard, Spare, [DevicesNext]_all
  PROVE  Spare'
<1> DEFINE K == MaxObject + 2
           Left(i) == (LastId + 1 - i) * K
<1>1. (app = "devid" /\ D!Next /\ app' = app) \/ (UNCHANGED devid /\ app' = app)
  BY DEF DevicesNext, all, EepromStep, StripStep, InputStep, ExpanderStep, SpiStep,
         InfoStep, DevIdStep, FramesStep
<1>2. CASE UNCHANGED devid
  BY <1>1, <1>2 DEF devid, Spare, D!Known, LastId
<1>3. CASE app = "devid" /\ D!Known /\ D!Next
  <2>1. UNCHANGED <<code, lengths, app>>
    BY <1>1, <1>3 DEF devid, D!Next, D!Ask, D!Refused, D!NoObject, D!AddObject, D!LoopEnds,
                      D!Respond
  <2>2. /\ MaxObject \in Nat /\ BufferSize \in Nat /\ LastId \in Nat /\ ptr \in Nat
        /\ LastId < Wrap - 1 /\ Wrap \in Nat
        /\ id \in 0 .. LastId + 1 /\ first \in 0 .. LastId
        /\ 8 + (LastId + 1) * K <= BufferSize - 2 /\ D!Header = 8 /\ IdInv
    BY <1>3 DEF IdBoard, IdInv, IdTypes, PlaceSays, D!DevIdAssumption, CodesFit, LastId,
                D!Known, D!Header
  <2>3. /\ LastId' = LastId /\ D!Known' /\ app' = "devid"
    BY <1>3, <2>1 DEF LastId, D!Known
  <2>4. /\ at = "loop" => ptr + Left(id) <= 8 + (LastId + 1) * K
        /\ at = "respond" => next > LastId
        /\ at = "loop" /\ id > LastId => next = id
    BY <1>3, <2>2 DEF Spare, IdInv, PlaceSays
  <2>5. K \in Nat /\ Left(id) = (LastId - id) * K + K
    <3>1. LastId + 1 - id = (LastId - id) + 1 /\ LastId - id \in Int
      BY <2>2
    <3>2. \A n \in Int, k \in Nat : (n + 1) * k = n * k + k
      OBVIOUS
    <3> QED
      BY <2>2, <3>1, <3>2
  <2> HIDE DEF K
  <2>6. ASSUME D!InLoop
        PROVE  /\ (id + 1) % Wrap = id + 1 /\ Left(id + 1) = (LastId - id) * K
               /\ (LastId - id) * K \in Nat /\ at = "loop"
    <3>1. id <= LastId /\ at = "loop"
      BY <2>6 DEF D!InLoop, LastId
    <3>2. \A w \in Nat \ {0}, x \in Nat : x < w => x % w = x
      OBVIOUS
    <3>3. id + 1 \in Nat /\ id + 1 < Wrap /\ Wrap \in Nat \ {0}
      BY <2>2, <3>1
    <3>4. (id + 1) % Wrap = id + 1
      BY <3>2, <3>3
    <3>5. LastId + 1 - (id + 1) = LastId - id /\ LastId - id \in Nat
      BY <2>2, <3>1
    <3>6. (LastId - id) * K \in Nat
      BY <2>5, <3>5
    <3> QED
      BY <3>1, <3>4, <3>5, <3>6
  <2>7. CASE D!Ask
    <3>1. at' = "loop" /\ ptr' = 8 /\ id' = id /\ id <= LastId
      <4>1. at = "asked"
        BY <2>7 DEF D!Ask
      <4> QED
        BY <1>3, <2>2, <2>7, <4>1 DEF D!Ask, IdInv, PlaceSays
    <3>2. Left(id) <= (LastId + 1) * K
      <4>1. \A m, n, k \in Nat : m <= n => m * k <= n * k
        OBVIOUS
      <4>2. LastId + 1 - id \in Nat /\ LastId + 1 - id <= LastId + 1
        BY <2>2
      <4> QED
        BY <2>2, <2>5, <4>1, <4>2
    <3> QED
      BY <2>2, <2>3, <2>5, <3>1, <3>2 DEF Spare, K
  <2>8. CASE D!NoObject
    <3>1. D!InLoop /\ at' = "loop" /\ ptr' = ptr /\ id' = id + 1
      BY <2>6, <2>8 DEF D!NoObject
    <3>2. ptr' + Left(id') <= 8 + (LastId + 1) * K
      BY <2>2, <2>4, <2>5, <2>6, <3>1
    <3> QED
      BY <2>3, <3>1, <3>2 DEF Spare, K
  <2>9. CASE D!AddObject
    <3>1. D!InLoop /\ id \in DOMAIN lengths
      BY <2>9 DEF D!AddObject
    <3>2. D!Size(id) \in Nat /\ D!Size(id) <= MaxObject
      BY <2>2, <3>1, SizeBounds DEF IdInv
    <3>3. ptr + K <= BufferSize - 2
      BY <2>2, <2>4, <2>5, <2>6, <3>1
    <3>4. ~(D!Room < D!Size(id))
      BY <2>2, <3>2, <3>3 DEF D!Room, K
    <3>5. at' = "loop" /\ ptr' = ptr + D!Size(id) + 2 /\ id' = id + 1
      BY <2>6, <2>9, <3>1, <3>4 DEF D!AddObject
    <3>6. ptr' <= ptr + K
      BY <2>2, <3>2, <3>5 DEF K
    <3>7. ptr' + Left(id') <= 8 + (LastId + 1) * K
      BY <2>2, <2>4, <2>5, <2>6, <3>1, <3>2, <3>5, <3>6
    <3> QED
      BY <2>3, <3>5, <3>7 DEF Spare, K
  <2>10. CASE D!LoopEnds
    <3>1. at = "loop" /\ id > LastId /\ at' = "respond" /\ next' = next
      BY <2>10 DEF D!LoopEnds, LastId
    <3> QED
      BY <2>3, <2>4, <3>1 DEF Spare
  <2>11. CASE D!Respond
    <3>1. at' \in {"end", "asked"}
      BY <2>11 DEF D!Respond
    <3> QED
      BY <3>1 DEF Spare
  <2>12. CASE D!Refused
    BY <1>3, <2>12 DEF D!Refused
  <2> QED
    BY <1>3, <2>7, <2>8, <2>9, <2>10, <2>11, <2>12 DEF D!Next
<1>4. CASE app = "devid" /\ ~D!Known /\ D!Next
  <2>1. code' = code
    BY <1>4 DEF D!Next, D!Ask, D!Refused, D!NoObject, D!AddObject, D!LoopEnds, D!Respond
  <2> QED
    BY <1>4, <2>1 DEF Spare, D!Known
<1> QED
  BY <1>1, <1>2, <1>3, <1>4

\* Of an application with any objects, asked with a code that ends before the counter of
\* the loop does, from any object on: the client receives each object once and in order,
\* over as many responses as that takes, as long as the response keeps clear of its last
\* bytes and it is not the last object alone that does not fit (modbus.c:340-400).
THEOREM BoardIdentifies == ASSUME CodesEnd PROVE DevicesSpec /\ []Roomy => []ObjectsOnce
<1>1. D!DevIdAssumption
  BY DevicesAssumption
<1>2. DevicesInit => IdBoard
  BY <1>1, IdStarts
<1>3. IdBoard /\ Roomy /\ [DevicesNext]_all => IdBoard'
  BY <1>1, IdPart
<1>4. IdBoard => ObjectsOnce
  BY <1>1, IdBoardOnce DEF ObjectsOnce
<1> QED
  BY <1>2, <1>3, <1>4, PTL DEF DevicesSpec

\* Without a condition on what is sent, for codes all of whose objects fit in one
\* response, however long they are: the code 1 of the server is one, with three objects of
\* 64 characters in 256 bytes.
THEOREM BasicIdentifies == ASSUME CodesEnd, CodesFit PROVE DevicesSpec => []ObjectsOnce
<1>1. D!DevIdAssumption
  BY DevicesAssumption
<1>2. DevicesInit => IdBoard /\ Spare
  BY <1>1, IdStarts
<1>3. IdBoard /\ Spare => Roomy
  BY <1>1, IdFits
<1>4. IdBoard /\ Spare /\ [DevicesNext]_all => (IdBoard /\ Spare)'
  BY <1>1, <1>3, IdPart, IdSpares
<1>5. IdBoard => ObjectsOnce
  BY <1>1, IdBoardOnce DEF ObjectsOnce
<1> QED
  BY <1>2, <1>4, <1>5, PTL DEF DevicesSpec
=============================================================================
