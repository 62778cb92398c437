------------------------------- MODULE Devices -------------------------------
(***************************************************************************)
(* The smaller parts of picore side by side: an application that uses one  *)
(* of them.  They share no state, so that a behaviour is one of one part,  *)
(* and the others stay in an initial state.                                *)
(***************************************************************************)
EXTENDS Eeprom, Sequences, FiniteSets

CONSTANTS
  Apps,                                                      \* the parts
  Strips, Count, Depth, MaxCalls,                            \* PixelLed
  Masks, MaxChanges, MaxFaults,                              \* Inputs
  Low, High, MaxRequests, MaxErrors,                         \* I2cGpio
  Devs, ChunkSize, ZeroSize, Said, Contents, MaxTransfers,   \* SpiMaster
  Window, Flashes, Start, Entries, MaxTable,                 \* BiReader
  Wrap, LastOf, Codes, BufferSize, MaxObject, Identities,    \* ModbusDevId
  CoilCount, RegCount, Requests, MaxExchanges                \* ModbusFrames

VARIABLES
  app,                                                       \* the part in use
  pixel_data, pixel_offset, refreshing, dirty, source, txfifo, line, shown,
  tasks, doing, calls, hurried,                              \* PixelLed
  mask, enabled, edge, input, read, held, last_value, pressed, inq, step,
  changes, faults,                                           \* Inputs
  chip, cache, onchip, unknown, err, requests, errors,       \* I2cGpio
  level, output, keeper, xfer, done, miso, heard, selected, ask,
  transfers,                                                 \* SpiMaster
  flash, table, want, use, iterator, desc, search, entry, found, \* BiReader
  lengths, code, first, id, ptr, next, objects, got, at,     \* ModbusDevId
  coils, regs, request, before, frame, turn, exchanges       \* ModbusFrames

P == INSTANCE PixelLed
I == INSTANCE Inputs
G == INSTANCE I2cGpio
S == INSTANCE SpiMaster
B == INSTANCE BiReader
D == INSTANCE ModbusDevId
F == INSTANCE ModbusFrames

ASSUME DevicesAssumption ==
  /\ Apps \subseteq {"eeprom", "strips", "inputs", "expander", "spi", "info", "devid", "frames"}
  /\ P!StripsAssumption /\ I!InputsAssumption /\ G!BanksAssumption /\ S!SpiAssumption
  /\ B!BiAssumption /\ D!DevIdAssumption /\ F!FramesAssumption

strips == <<pixel_data, pixel_offset, refreshing, dirty, source, txfifo, line, shown,
            tasks, doing, calls, hurried>>
inputs == <<mask, enabled, edge, input, read, held, last_value, pressed, inq, step,
            changes, faults>>
expander == <<chip, cache, onchip, unknown, err, requests, errors>>
spi == <<level, output, keeper, xfer, done, miso, heard, selected, ask, transfers>>
info == <<flash, table, want, use, iterator, desc, search, entry, found>>
devid == <<lengths, code, first, id, ptr, next, objects, got, at>>
frames == <<coils, regs, request, before, frame, turn, exchanges>>
all == <<app, vars, strips, inputs, expander, spi, info, devid, frames>>

\* A part that is not in use has one input.
Given(part, choices) == IF app = part THEN choices ELSE {CHOOSE i \in choices : TRUE}

DevicesInit ==
  /\ app \in Apps
  /\ InitOf(Given("eeprom", Calls))
  /\ P!Init
  /\ I!InitOf(Given("inputs", Masks), Given("inputs", BOOLEAN))
  /\ G!InitOf(Given("expander", G!Chip))
  /\ S!Init
  /\ B!InitOf(Given("info", Flashes), Given("info", B!Tables), Given("info", B!Wants),
              Given("info", B!Uses))
  /\ D!InitOf(Given("devid", Identities), Given("devid", Codes))
           /\ (app = "devid" \/ first = 0)
  /\ F!Init

\* A step of a part, and of no other.
EepromStep ==
  app = "eeprom" /\ Next /\ UNCHANGED <<app, strips, inputs, expander, spi, info, devid, frames>>
StripStep ==
  app = "strips" /\ P!Next /\ UNCHANGED <<app, vars, inputs, expander, spi, info, devid, frames>>
InputStep ==
  app = "inputs" /\ I!Next /\ UNCHANGED <<app, vars, strips, expander, spi, info, devid, frames>>
ExpanderStep ==
  app = "expander" /\ G!Next /\ UNCHANGED <<app, vars, strips, inputs, spi, info, devid, frames>>
SpiStep ==
  app = "spi" /\ S!Next /\ UNCHANGED <<app, vars, strips, inputs, expander, info, devid, frames>>
InfoStep ==
  app = "info" /\ B!Next /\ UNCHANGED <<app, vars, strips, inputs, expander, spi, devid, frames>>
DevIdStep ==
  app = "devid" /\ D!Next /\ UNCHANGED <<app, vars, strips, inputs, expander, spi, info, frames>>
FramesStep ==
  app = "frames" /\ F!Next /\ UNCHANGED <<app, vars, strips, inputs, expander, spi, info, devid>>

DevicesNext ==
  \/ EepromStep \/ StripStep \/ InputStep \/ ExpanderStep \/ SpiStep \/ InfoStep
  \/ DevIdStep \/ FramesStep

\* The fairness of the parts that state one.
DevicesFairness ==
  /\ WF_vars(app = "eeprom" /\ Next)
  /\ WF_strips(app = "strips" /\ P!MainLoop)
  /\ WF_strips(app = "strips" /\ P!on_pio_irq)
  /\ WF_strips(app = "strips" /\ P!Timeout)
  /\ \A s \in Strips : /\ WF_strips(app = "strips" /\ P!WordLeaves(s))
                       /\ WF_strips(app = "strips" /\ P!Pause(s))
  /\ WF_inputs(app = "inputs" /\ I!gpio_irq_callback)
  /\ WF_inputs(app = "inputs" /\ I!MainLoop)

DevicesSpec == DevicesInit /\ [][DevicesNext]_all /\ DevicesFairness

----------------------------------------------------------------------------
(* The properties of the parts.                                            *)

\* What leaves for a strip is its pixels in order (pixel_led.c, on_pixel_led_irq):
\* PixelLed says for which strips.
FrameIntact == P!FrameIntact

\* A refresh waits for the one in progress (pixel_led.h:107).
RefreshDeferred == P!RefreshDeferred

\* What is set is sent, and shown (pixel_led.c, on_refresh and on_done).
UpdatesSent == P!UpdatesSent

\* The last change of an input is read, and a press wakes (gpio_irq.c, button.c).
InputsNoticed == I!InputsNoticed

\* A change of the button wakes (button.h:82).
EveryChangeWakes == I!EveryChangeWakes

\* An expander has what is cached of it (i2c_gpio.c, pca9575_set and the others).
CachesAgree == G!CachesAgree

\* A success is on the chip (i2c_gpio.h:137).
SetIsOnChip == G!SetIsOnChip

\* The right device hears what is sent (spi_master.c, pr_spi_device_transfer).
TransfersExact == S!TransfersExact

\* A transfer with PR_SPI_NO_CS leaves the chip selects to the caller (spi_master.h:159).
ManualUntouched == S!ManualUntouched

\* A search gives each entry that matches once (bi_reader.c, pr_bi_find).
EntriesFound == B!EntriesFound

\* A number that is not found is 0 (binary_info_reader.h:172), and an iterator that is
\* not 0 has an entry (binary_info_reader.h:36-42, 90).
IntegerOrZero == B!IntegerOrZero
WalkGivesEntries == B!WalkGivesEntries

\* A client is given each object once (modbus.c, MODBUS_READ_DEVICE_IDENTIFICATION).
ObjectsOnce == D!ObjectsOnce

\* The ends of frames are found and their errors too (modbus.c, modbus_req_frame_len).
FramesSound == F!FramesSound

\* The checksums are remainders (modbus_crc16.c, crc32.c), the second by the polynomial
\* of IEEE 802.3; crc32.h:6 says, of Castagnoli.
ChecksumIsRemainder == F!ChecksumIsRemainder
ChecksumIsCastagnoli == F!ChecksumIsCastagnoli

\* Coils and registers are packed and unpacked alike (modbus.c, bus_req_handle).
ExchangeTrue == F!ExchangeTrue

\* A write to an EEPROM returns, if there is one (eeprom.c).
WriteReturns == app = "eeprom" => Returns
=============================================================================
