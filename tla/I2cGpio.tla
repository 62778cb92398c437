------------------------------- MODULE I2cGpio -------------------------------
(***************************************************************************)
(* GPIO expanders (src/i2c_gpio) on an I2C bus (src/i2c_bus): calls change *)
(* some pins of a cached register and write what has changed, or all of    *)
(* it, to the chip.  A transfer may end at any byte.                       *)
(*                                                                         *)
(* A register is the set of its pins that are 1; a bank of pins is a byte. *)
(***************************************************************************)
EXTENDS Integers, Sequences, FiniteSets, SequencesExt

CONSTANTS
  Low, High,   \* the pins of the two banks; a TCA9534 has the first only
  MaxRequests, \* bound: calls
  MaxErrors    \* bound: transfers that fail

BanksAssumption == Low \cap High = {} /\ Low # {} /\ High # {}

Chip == {"tca9534", "pca9575"}
Registers == {"set", "oe", "pull_en", "pull_bias"}
Banks == {Low, High}
Pins == Low \cup High

VARIABLES
  chip,      \* the vtable in use
  cache,     \* set_cache, oe_cache, pull_en_cache and pull_bias_cache
  onchip,    \* the chip's registers
  unknown,   \* register and bank: never written, or their last write has failed
  err,       \* what the last call returned
  requests, errors

vars == <<chip, cache, onchip, unknown, err, requests, errors>>

\* pr_i2c_gpio_init of a chip that has just been powered: all its pins are inputs.
\* The caches are not what a TCA9534 drives at first, nor sure to be how a PCA9575
\* biases its pins.
InitOf(chips) ==
  /\ chip \in chips
  /\ cache = [r \in Registers |-> {}]
  /\ onchip = [r \in Registers |-> IF r = "set" /\ chip = "tca9534" THEN Low ELSE {}]
  /\ unknown = (IF chip = "tca9534" THEN {"set"} ELSE {"pull_en", "pull_bias"}) \X Banks
  /\ err = "PR_OK"
  /\ requests = 0 /\ errors = 0

Init == InitOf(Chip)

----------------------------------------------------------------------------
(* The bus.                                                                *)

PICO_ERROR_TIMEOUT == -1
PICO_ERROR_GENERIC == -2

pico_to_pr_err(e, count) ==
  CASE e = count -> "PR_OK"
    [] e >= 0 /\ e < count -> "PR_ERR_IO"
    [] e = PICO_ERROR_GENERIC -> "PR_ERR_ADDRESS"
    [] e = PICO_ERROR_TIMEOUT -> "PR_ERR_TIMEOUT"
    [] OTHER -> "PR_ERR_IO"

\* What the SDK may return for a transfer of count bytes; a short count is that of
\* the bytes that have gone through.
Returned(count) ==
  {count} \cup (IF errors < MaxErrors THEN (0 .. count - 1) \cup {PICO_ERROR_GENERIC} ELSE {})

\* A chip that does not acknowledge a byte has taken those before it.
Taken(e, count) == IF e >= 0 THEN {e} ELSE 0 .. count - 1

Counted(e, count) == errors' = errors + (IF e = count THEN 0 ELSE 1)

\* A command byte, then what each register has for each bank: a sequence of records
\* of a register, a bank and a value.
pr_i2c_bus_write(data) ==
  LET count == 1 + Len(data)
      touched == {<<d.reg, d.bank>> : d \in ToSet(data)}
  IN  \E e \in Returned(count) : \E taken \in Taken(e, count) :
        /\ onchip' = [r \in Registers |->
             {p \in onchip[r] : \A i \in 1 .. taken - 1 : data[i].reg = r => p \notin data[i].bank}
               \cup UNION {data[i].value : i \in {j \in 1 .. taken - 1 : data[j].reg = r}}]
        /\ err' = pico_to_pr_err(e, count)
        /\ unknown' = IF e = count THEN unknown \ touched ELSE unknown \cup touched
        /\ Counted(e, count)

\* Nothing is read when the command is not written.
pr_i2c_bus_write_read(wsize, rsize) ==
  \E e \in Returned(wsize) : \E f \in Returned(rsize) :
    /\ e # wsize => f = rsize
    /\ err' = IF e = wsize THEN pico_to_pr_err(f, rsize) ELSE pico_to_pr_err(e, wsize)
    /\ errors' = errors + (IF e = wsize /\ f = rsize THEN 0 ELSE 1)

----------------------------------------------------------------------------
(* The chips.                                                              *)

Merged(r, pins, value) == (cache[r] \ pins) \cup (value \cap pins)
Byte(r, bank, value) == [reg |-> r, bank |-> bank, value |-> value \cap bank]

\* tca9534_set and tca9534_oe: always written; the caches have 8 bits.  The chip's
\* configuration is the complement of oe; here it is oe.
tca9534_write(r, pins, value) ==
  /\ cache' = [cache EXCEPT ![r] = Merged(r, pins, value) \cap Low]
  /\ pr_i2c_bus_write(<<Byte(r, Low, Merged(r, pins, value))>>)

\* Mutant: when only the low bank has not changed, the low byte is written.
pca9575_write_swapped(r, pins, value) ==
  LET new == Merged(r, pins, value)
      changed == (cache[r] \ new) \cup (new \ cache[r])
  IN  /\ cache' = [cache EXCEPT ![r] = new]
      /\ IF changed = {}
         THEN err' = "PR_OK" /\ UNCHANGED <<onchip, unknown, errors>>
         ELSE IF changed \cap Low = {}
         THEN pr_i2c_bus_write(<<Byte(r, Low, new)>>)
         ELSE pr_i2c_bus_write(<<Byte(r, Low, new), Byte(r, High, new)>>)

\* pca9575_set and pca9575_oe: nothing is written if nothing changes, and one byte
\* if only the low bank does; the second test for one bank is the same as the
\* first and never holds.
pca9575_write(r, pins, value) ==
  LET new == Merged(r, pins, value)
      changed == (cache[r] \ new) \cup (new \ cache[r])
  IN  /\ cache' = [cache EXCEPT ![r] = new]
      /\ IF changed = {}
         THEN err' = "PR_OK" /\ UNCHANGED <<onchip, unknown, errors>>
         ELSE IF changed \cap High = {}
         THEN pr_i2c_bus_write(<<Byte(r, Low, new)>>)
         ELSE pr_i2c_bus_write(<<Byte(r, Low, new), Byte(r, High, new)>>)

\* The chip enables the resistors of a whole bank.
PullEnabled(pins) == UNION {b \in Banks : pins \cap b # {}}

pca9575_pull_en(pins, enable, bias) ==
  LET en == Merged("pull_en", pins, enable)
      pull == Merged("pull_bias", pins, bias)
  IN  /\ cache' = [cache EXCEPT !["pull_en"] = en, !["pull_bias"] = pull]
      /\ pr_i2c_bus_write(<<Byte("pull_en", Low, PullEnabled(en)),
                            Byte("pull_en", High, PullEnabled(en)),
                            Byte("pull_bias", Low, pull), Byte("pull_bias", High, pull)>>)

----------------------------------------------------------------------------
(* Calls.                                                                  *)

Request ==
  /\ requests < MaxRequests /\ requests' = requests + 1
  /\ UNCHANGED chip

pr_i2c_gpio_write(r) ==
  /\ Request
  /\ \E pins, value \in SUBSET Pins :
       \/ chip = "tca9534" /\ tca9534_write(r, pins, value)
       \/ chip = "pca9575" /\ pca9575_write(r, pins, value)

pr_i2c_gpio_set == pr_i2c_gpio_write("set")
pr_i2c_gpio_oe == pr_i2c_gpio_write("oe")

\* A chip without resistors has no such function in its vtable.
pr_i2c_gpio_pull_en ==
  /\ Request
  /\ \/ /\ chip = "tca9534" /\ err' = "PR_ERR_IMPL"
        /\ UNCHANGED <<cache, onchip, unknown, errors>>
     \/ /\ chip = "pca9575"
        /\ \E pins, enable, bias \in {{}, Low, Pins} : pca9575_pull_en(pins, enable, bias)

\* tca9534_get and pca9575_get: a command of one byte, and a byte for each bank.
pr_i2c_gpio_get ==
  /\ Request
  /\ pr_i2c_bus_write_read(1, IF chip = "tca9534" THEN 1 ELSE 2)
  /\ UNCHANGED <<cache, onchip, unknown>>

Next == pr_i2c_gpio_set \/ pr_i2c_gpio_oe \/ pr_i2c_gpio_pull_en \/ pr_i2c_gpio_get

Spec == Init /\ [][Next]_vars

----------------------------------------------------------------------------
(* Properties.                                                             *)

\* What the cache holds, as the chip has it.
Kept(r) == IF r = "pull_en" THEN PullEnabled(cache[r]) ELSE cache[r]

\* Pins that share a byte are written together from the cache: a bank whose last
\* write went through holds what is cached of it, also after writes that were left
\* out because nothing seemed to change, or that covered one bank only.
CachesAgree ==
  \A r \in Registers, b \in Banks :
    <<r, b>> \notin unknown => onchip[r] \cap b = Kept(r) \cap b

\* "PR_OK on success, error code on failure" (i2c_gpio.h:137): after a call of
\* pr_i2c_gpio_set that returns PR_OK, the pins of its mask are what it asked for, also
\* where the call before it has failed.
SetIsOnChip ==
  [][\A pins, value \in SUBSET Pins :
       Request /\ chip = "pca9575" /\ pca9575_write("set", pins, value) /\ err' = "PR_OK"
         => onchip'["set"] \cap pins = value \cap pins]_vars
=============================================================================
