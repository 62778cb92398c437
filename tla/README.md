# A verification development of picore

picore is a set of C modules for the Raspberry Pi Pico: a cooperative task
scheduler and, on top of it, FIFOs and queues, drivers and bridges (UART, USB CDC,
I2C, SPI, LEDs, a Modbus server). This directory holds TLA+ specifications of its
core, the TLC configurations that check them, and proofs checked by TLAPS.
`PROJECT.json` indexes all of it: which definition models which lines, which run
checks which property, which small change of the code breaks each property, where
the code disagrees with its documentation, and which hazards nothing covers yet.

To run something, in this directory:

    tlc -workers 2 -config task_timed.cfg MCTask.tla
    tlc -workers 2 -config devices.cfg MCDevices.tla
    tlapm TaskProofs.tla

## 1. The system

### How the parts interact

Everything runs in three kinds of context: the main loop
(`pr_task_queue_run_until_empty`), the timer interrupt of the SDK's alarm pool, and
device interrupts; on the RP2040 they may also run on two cores. Handlers never
block: a component does a bit of work in a task's handler and asks the scheduler to
be run again (`pr_task_exec`, `pr_task_exec_in_us/ms`). Components are connected by
byte FIFOs and pointer queues that carry *the task to wake* on either side:

    UART irq --exec--> from_port_task --write--> fifo --exec--> consumer's task
    USB callbacks --exec--> cdc handler <--read-- fifo <--write-- producer's task
    modbus worker: fifo -> buffer -> request -> response -> fifo, clear task in 50 ms

A notification is a bit (the PENDING flag of a task), so notifications merge; the
correctness of every bridge rests on "the bit is set after the data is visible and
cleared before the handler looks".

### Inventory

| component (under `src/src`) | state | operations | what is hard |
|---|---|---|---|
| `task` | pending list, waiting list sorted by deadline, one alarm id, flags and links of each task | `exec`, `exec_in_us/ms`, `run_until_empty`, alarm callback | lists are under a spin lock, but the alarm is cancelled, cleared and rearmed outside of it, in several contexts at once; a state test before the lock |
| `fifo` | ring of bytes, two pointers, `free` and `used`, two tasks | `read/write_prepare` and `_done`, `read`, `write`, `peek`, `clear` | regions reserved under the lock are copied without it; transfers split at the end of the ring; wake-ups after the unlock |
| `queue` | ring of pointers, as above | `push`, `pop` | full and empty look alike; wake-ups after the unlock |
| `modbus` | one buffer and position for requests *and* responses, `rsp_size`, worker and clear tasks | worker step, timeout, request execution, handlers of the application | framing from lengths and checksums, a response longer than the FIFO, a timeout that meets a response, partial execution |
| `i2c_eeprom` | chip contents, write cycle | `write`, `read`, `init` | page boundaries, retries of a busy chip, partial failure |
| `uart` | a byte each way, interrupt enables | two tasks, interrupt, `attach`, `init` | the interrupt disables both directions at any point of tasks that enable both from their own view; the transmit interrupt comes once per fall of the queue's level |
| `cdc_interface` | open flag, event mask, line state | handler, four callbacks, `init` | wake-ups from both a library and two FIFOs; bytes that nobody flushes; a port that opens and closes |
| `tiny_usb` | a serial number | a macro for the task that polls the library | the task schedules itself for ever |
| `pixel_led` | `refreshing`, `dirty`, `pixel_offset` per strip | refresh and done tasks, shared interrupt | the interrupt serves strips that are not refreshing; the end of a refresh is a delay shorter than the queue takes to leave |
| `gpio_irq`, `button` | a task per pin; last sample | callback, `bind`, `mask_set`; polling | one-shot level interrupts; two acknowledgements of an edge |
| `i2c_gpio` | caches of four registers | `set`, `oe`, `get`, `pull_en` | cache updated before a write that can fail; writes left out when nothing seems to change |
| `i2c_bus`, `spi_master`, `i2s_master_out` | last configuration; chip selects | blocking transfers | short transfers; a chip select kept beyond a transfer, and one in open drain; bit reversal in chunks |
| `stdio_fifo` | none | SDK stdio callbacks over a FIFO | as `fifo` |
| `crc32`, `endian`, `modbus_crc16` | none | pure functions | bits, and a checksum continued over pieces |
| `binary_info_reader`, `build_id`, `chip_uid32` | an iterator in the caller | searches | an iterator that is 0 before the first call and after the last |
| `error`, `struct_compose` | none | header only | none |

What makes each correct:

- **task**: the lists are well formed and disjoint; tasks run in the order in which
  they became pending, once per time; never before their deadline; a waiting task
  always has an alarm, or somebody about to arm one.
- **fifo**, **queue**: bytes (pointers) come out once, in order; space is conserved;
  nobody touches a region another context is copying; neither side sleeps on work.
- **modbus**: responses are whole and tell the truth; a request is executed once;
  a lost byte costs its frame and no more; a whole request is answered.
- **i2c_eeprom**: what was acknowledged is in the chip and nothing else changed;
  success means all of it; every call returns.
- **uart**, **cdc**: bytes cross the bridge once and in order, neither direction
  stalls, and what changes at the host's end is reported.
- **pixel_led**: a frame leaves whole, in order and once; what is set is shown in the
  end. **gpio_irq**, **button**: the last change of an input is read and a press wakes.
  **i2c_gpio**: the cache is what the chip holds. **spi_master**: the device that is
  meant, and no other, hears what is sent.
- **modbus** frames: their ends are found from any part of them, checksums notice a
  wrong bit, coils and registers are packed and unpacked alike, and each object of the
  identification comes once. **crc32**: a remainder, however the data is cut.
- **binary_info_reader**: each entry that matches is found once.

## 2. Modules

| module | models | remarks |
|---|---|---|
| `Task` | `task/task.c` | refines `TaskSpec`; instances in `MCTask` |
| `TaskSpec` | what the scheduler promises | a sequence of pending tasks and a deadline per task |
| `TaskProofs`, `BoundedRecursion` | theorems about `Task`: types and alarms, and the lists with the refinement; recursion over a segment of the naturals | the walks of the linked lists are recursive functions, whose values must be shown to exist; checksums and searches use the same facts |
| `Fifo`, `FifoSpec`, `FifoProofs`, `MCFifo` | `fifo/fifo.c` | a bounded stream; proofs for any users, and for one writer and one reader; `MCFifo` has a FIFO of each kind, one of which an application uses |
| `Queue`, `QueueSpec`, `QueueProofs` | `queue/queue.c` | a bounded first-in first-out buffer |
| `Modbus`, `MCModbus`, `ModbusProofs` | `modbus/modbus.c` over two FIFOs and the scheduler, both by what they promise | |
| `ModbusFrames` | the bytes of frames: lengths, checksums, packing (`modbus.c`, `modbus_crc16.c`) | `Modbus` takes a frame for its length |
| `ModbusDevId` | the loop of the device identification (`modbus.c:317-384`) and a client that asks for all | |
| `Eeprom`, `MCEeprom` | `i2c_eeprom/eeprom.c` and the chip | |
| `PixelLed` | `pixel_led/pixel_led.c`, the PIO and the LEDs | on a `Scheduler` |
| `Inputs` | `gpio_irq/gpio_irq.c` and `button/button.c`, an expander and a button | on a `Scheduler` |
| `I2cGpio` | `i2c_gpio/i2c_gpio.c` over `i2c_bus/i2c_bus.c`, and the chips | |
| `SpiMaster` | `spi_master/spi_master.c`, and the devices of a bus | |
| `BiReader` | `binary_info_reader/bi_reader.c`, with `build_id.c` as one of its callers | |
| `Crc`, `Endian` | `crc32.c`, `modbus_crc16.c`, the serial number of `tiny_usb.c`; `endian.h` | functions, used by `ModbusFrames` |
| `Devices`, `MCDevices`, `DevicesProofs` | the parts from `Eeprom` to `ModbusFrames` side by side | `app` says which one a behaviour is about; they share no state. `DevicesProofs` has the theorems about all parts but the frames: `Eeprom`, `PixelLed`, `I2cGpio`, `SpiMaster`, `BiReader` and `ModbusDevId` |
| `FramesProofs` | theorems about `ModbusFrames` and `Crc`, as a part of `Devices` | |
| `Uart` | `uart/uart.c` and the peripheral | used by `Bridge` |
| `Cdc` | `cdc_interface/cdc_interface.c` and the USB stack's buffers | used by `Bridge` |
| `Bridge`, `MCBridge`, `BridgeProofs` | a USB serial adapter: `Uart` and `Cdc` in one main loop, joined by two FIFOs | holds the properties of both |
| `Scheduler` | what `TaskSpec` promises, as operators on a schedule | used by `Uart`, `Cdc`, `Bridge`, `PixelLed` and `Inputs` |

Operators named `<definition>_<something>` after a comment `Mutant:` are variants of
the definition that follows them with one plausible bug. They are used by no
specification: `PROJECT.json` says which property each of them breaks.

### Task

`q` is the queue structure together with the link, flags and deadline of every task
(the lists are linked through the tasks, and the model keeps them so: `first`,
`last`, `waiting`, `next`). The helpers of `task.c` are functions from one value of
`q` to the next. A section under the spin lock is one action; each *unlocked* access
is an action of its own. `queue_reschedule`, which is not locked, is therefore five
steps for the context that runs it: `LoadAlarm`, `CancelAlarm`, `ClearAlarm`,
`CheckWaiting`, `ArmAlarm` (lines 194 to 204); `pr_task_exec_in_*` tests PENDING
(`pr_task_exec_in`) and inserts under the lock later (`Enqueue`); the alarm callback
clears the id and reads the time (`ptask_alarm`) before it takes the lock
(`queue_waiting_process`). `pc` and `arg` are where each context is and what its
locals hold. `OneCore` chooses between interrupts that preempt the main loop and run
to completion, and contexts that all interleave.

A task may be delayed while it waits, by its own handler or by another context, as
`modbus.c` does with its timeout at each part of a frame. `raced` is history: whether
`Enqueue` has ever met a task that became pending after the unlocked test. From then on
it is on two lists through one pointer, and the properties say nothing of what follows.

`main()` and the handlers are the environment: `running` is the task whose handler
runs, `HandlerCalls` bounds its calls of the scheduler, `HandlerExec` and
`HandlerExecIn` say which ones it may make.

What is assumed of the SDK: `add_alarm_at` returns a positive id not in use, or −1
when the pool is full; for a time that has passed it forces the timer interrupt
instead of calling back itself (the code passes `fire_if_past` and holds the queue's
spin lock, which the callback takes: an SDK that called back from within would
deadlock); cancelling an id that is not armed does nothing.

### Fifo

A transfer is `Prepare` (locked), a copy (not locked), `Done` (locked) and a
notification (after the unlock), each an action. Writers are a producer task with a
backlog, written until it is refused and continued when the task is woken, and
interrupts that drop what does not fit. After the notification a copying call goes
round its loop and a zero-copy user stops: both are alternatives of
`NotifyConsumer`. `writing` and `reading` are the bytes reserved and not yet done;
`reserved` and `fetched` number the bytes of the stream, so that the value in a slot
says which byte it is; these four are history that the C structure does not have.

The loop of `pr_fifo_read` ends on a variable that nothing initialises (the body
shadows it): `LoopTests` holds the outcomes the test may have.

### Queue

`Pushed` and `Popped` are the locked sections; the notification that follows the
unlock is `Notify`, one pending notification per context. The main loop runs the
consumer and the producer task (`RunTask`), interrupts push at any time.

### Modbus

A byte is a pair of the message it belongs to and its position in it, which stands
for what lengths and checksums establish: a frame is complete when the buffer starts
with all of its bytes in order. The worker tries what has come as a request and as a
response, and drops it when either length exceeds the buffer. For the start of a frame
where that happens is part of the frame: with `early` bytes of it, or `early = len` when
never (`Early`). A read request of an address of 0xfc00 or more is one, as the high byte of
the address is the count of a response (`modbus.c:62-70`, `:463-465`, `:487`). Two bytes
that begin no frame may announce any length, so the worker may wait or drop (`Misread`).
A frame that is `paced` comes after a quiet line (`Quiet`): the last answer is out and the
silence has been long enough for timeouts. Others follow on whatever comes before, so
that a timeout left from one frame may end under the next, or under a response; `recent`
says that the timeout was armed by the frame on the line, whose bytes are not 50 ms
apart. `skipped` says that the worker has dropped a frame and left bytes in the FIFO, for
which nobody is scheduled. `ShortReads` lets a read stop before the FIFO is empty, as
`pr_fifo_read` does at the end of its ring. FIFOs are bounded
sequences, the pending list of the scheduler is a sequence of "worker" and "clear".
A handler is one step, because an interrupt's only effect on it is on the two FIFOs,
and it reports that by scheduling the worker again. The application has cells for some
addresses, and an access to another address fails.
Registers and coils are one kind of cell; requests of one cell are requests with a
count of one.

What this leaves out is in two other modules. `ModbusFrames` has the bytes: a client
builds a request as the protocol says, the server (`bus_req_handle`) reads it out of
the buffer, changes the application and builds the answer, and the client looks at
that. `modbus_req_frame_len` and `modbus_rsp_frame_len` are functions of a buffer and
of how much of it is there. `ModbusDevId` has the one request whose answer does not
fit: `NoObject`, `AddObject` and `LoopEnds` are the turns of the loop, with a counter
of 8 bits (`Wrap`) and the unsigned room that is left, and `Respond` is the client that
asks again from the object the answer names. `Crc` computes the checksums as the code
does, by bits and by a table of nibbles, on bytes that are sets of bits.

### Eeprom

A call is a chip, an address and a size. `ChunkWritten` and `ChunkRefused` are one
attempt at a chunk, `PollAnswered` and `PollRefused` one of the last poll; the two
chips differ in page size, in the length of an aligned chunk relative to it, and in
that the 24LC08 code drops the result of the last poll (line 98). The chip is
external: it keeps the page of the address of a transfer and counts within it, and
refuses transfers while it writes.

### PixelLed

The tasks (`on_refresh`, `on_done`) run on a `Scheduler`, and `doing` is where the main
loop is inside one of them, because the interrupt (`on_pio_irq`, which serves all strips
of the PIO) comes between any two of its steps. A pixel's colour is the number of the
call that set it. The transmit queue, the words sent since the last pause and what the
LEDs show are external. A LED keeps the first word after a pause (`Pause`); the delay
that ends a refresh may be over before the queue has left, since 8 words take longer than it. `hurried` is
history: the strips whose application set pixels or asked for a refresh before the
frame was out.

### Inputs

The pin carries the interrupt output of an expander, which is active while its input
differs from what was read of it last; this is the use the module is made for. The
callback (`gpio_irq_callback`) acknowledges the edge, disables the events if a level is
among them, and schedules a task that reads the expander, may fail, and calls
`pr_gpio_irq_mask_set`, in which the SDK acknowledges once more. An interrupt that is
raised and enabled keeps the main loop out (`MayRun`). The button's `on_work` schedules
itself on the same queue.

### I2cGpio

A register is the set of its pins that are 1 and a bank of pins is a byte. A transfer
is a command and a byte for each register and bank; the chip has taken those before the
one it did not acknowledge. The SDK may return a short count or an error
(`Returned`), and `pico_to_pr_err` translates it. `unknown` is history: the banks whose
last write failed, or that were never written.

### SpiMaster, BiReader

A byte on the wire is the set of its bits. `Begin` drives the chip select,
`pr_spi_master_transfer` moves one chunk (reversed when the device wants the other end first, in
a buffer of the bus or in that of the caller, or from the block of zeroes), `End`
releases the chip select or keeps it. `ask` is what the caller wants of the chip select,
which the flags of the transfer may or may not say: the flag for leaving it alone is 0.
The caller that keeps a device selected goes on with this device. `selected` and `heard` are what the devices notice.

`BiReader` counts in words: an iterator is an address of the table, or 0.
`pr_bi_desc_find` is one turn of the loop that looks for two markers in the first `Window`
words of the flash, and `pr_bi_find` one of the loop over the table. A search that finds
nothing says so with NULL, or −1 if it is for a number (`Nothing`); entries hold neither
value, so that the caller can tell. `Walk` is the loop over all entries of the header's
example.

### Uart, Cdc and Bridge

`Bridge` instantiates `Uart` and `Cdc` on the same FIFOs (`up` towards the host,
`down` towards the line), the same schedule and the same main loop; its next state is
a step of one of them with the variables of the other unchanged.

A task of the UART is many steps, because the interrupt preempts it: `Runs` takes it
off the pending list, each turn of its loop is an action (`WriteFifo`, `uart_getc`,
`ReadFifo`, `uart_putc`), `FromPortBreaks` and `ToPortBreaks` are the ends of the
loops, and `set_irq_enables` is the call that ends the handlers, evaluated later than
the loop's last test. `running` says where the main loop is. `on_uart_io` may come
between any two of these. The flags `rxbuf_free` and `txbuf_busy` are "the buffer is
empty" and "the buffer holds a byte". The transmit interrupt of the peripheral is
raised when its queue *falls through* the trigger level, not while it is low: enabling
it with an empty queue brings no interrupt (`raised`). The receive interrupt is up
while there is something to receive; the time it waits for more is not modelled.

The handler of the USB interface is one step: the callbacks of the stack run in the
main loop too, between tasks, and the interrupt of the UART shares nothing with the
handler but the schedule, which orders single calls only. Its transfers end where a
ring ends, and where that is depends on all that went before: `Granted` is therefore
any number of bytes from one to all. `flushed` is what the stack may send: everything
after a flush, and everything once a packet is full. `connected` is the state the
host sets by `line_state`. The application's event task is the one of the
tests: it clears the mask.

A FIFO between two tasks of one main loop is a bounded sequence and a transfer is
atomic: neither side can be inside a transfer when the other starts, and `FifoSpec` is
what `Fifo` is shown to implement.

## 3. Runs

Every bound is a constant of the configuration. Passing runs:

| run | question | instance and why it is enough |
|---|---|---|
| `task_timed` | Do timed and untimed tasks all run, in order and on time? | 3 tasks (two on the waiting list make an order, the third comes from an interrupt), delays 1 and 2, time to 2, one core. Both timed tasks are delayed by main and by themselves, also while they wait. An early, a late and an equal deadline occur. |
| `task_cores` | Do the unlocked parts of `queue_reschedule` lose an alarm? | main, alarm and an interrupt each on a core, 2 tasks, each delayed by one of them and also while it waits, a pool of 2 alarms |
| `queue` | Is the ring a bounded FIFO whose sides always wake? | 3 slots, 6 messages: the pointers wrap twice; two interrupts push against each other and against main |
| `fifo` | Are bytes kept in order and regions apart? Does any side sleep on work? | first: 3 bytes, 6 written in sizes that do and do not fit, so that regions split at every offset; a clear between transfers. Second: 2 bytes, 3 written, two writers and two readers, so that four contexts interleave at each step |
| `modbus` | Is every response whole, truthful, unique and sent? | a write that fails and waits for a quiet line; a write, a read that is dropped early and a foreign response that follow on anything. Receive FIFO 6 against a buffer of 5, so that bytes are left behind; transmit FIFO 2 against responses of 2 and 3, which meet timeouts; one lost byte. The other mixes of `MCModbus` (reads, a read of a quiet line, a frame longer than the buffer) give the same result |
| `bridge` | Does a byte get through, in order, whatever preempts what? | FIFOs and the stack's buffer of 2 bytes, hardware queues of 1, three bytes up and two down, the port closed and opened again once: all buffers in a direction are full at the same time, and every flag and enable meets the interrupt |
| `devices` | Is each of the smaller parts right, whatever fails? | the parts of the next table, one at a time |

| part of `devices` | instance and why it is enough |
|---|---|
| EEPROM | both chips, the `SoundCalls` of a 16-byte chip (pages of 4 and 8, chunks of 4), 3 attempts, write cycles of up to 4 ms: longer than the attempts last |
| strips | one strip of 3 LEDs, a queue of 2 words, 2 calls at any time: the frame does not fit the queue, and calls meet each step of a refresh |
| inputs | edge, level and both, 4 changes of the input and the button, a read that fails |
| expander | both chips, banks of two pins and of one, all masks and values in two calls, a transfer that fails at any byte: the second call meets what the first has left |
| SPI | three devices (both kinds of chip select, both bit orders), chunks of 2, zeroes of 3, two transfers of 1 or 3 bytes, with each flag: one chunk that is not full, and a full one before it |
| information | a window of 3 words, and a descriptor that follows a lone marker and has another one inside, one that begins in the last word of the window, and one that begins after it; tables of up to two of five entries, every search, with and without an iterator, and the loop over all entries |
| identification | ids and counter of 8 values, codes 1, 2 and an illegal one, objects of 1 and 3 characters for any of five ids in a buffer of 24: identities that one answer holds, and that it does not, none of which ends at its last object for want of room |
| frames | 10 coils and 2 registers, two requests: every function, each reaching inside, up to and past the end, none at all and more than a response holds: the last byte of coils is not full, and every bit of every frame is inverted once |

The invariants of a part hold trivially in the behaviours of another, whose variables do
not move. `WriteReturns`, `UpdatesSent` and `InputsNoticed` are its liveness.

Two runs end where a state constraint of `MCTask` says: at the race of `task_rearm_race`
(`UntilRaced`), as a walk of broken lists has no end, and `task_cores` also at an alarm
that the pool refuses (`UntilRefused`): `AlarmCovers` says nothing of what comes after
one, and the refinement is a theorem without that bound.

Runs that find a counterexample, each for a statement of the documentation:

| run | the statement, and what happens |
|---|---|
| `task_rearm_race` | "If the task already has a pending alarm, it is cancelled and replaced" (`task.h`): if the alarm fires between the unlocked test and the lock, the task ends up on both lists |
| `fifo_short_read` | "may be less than requested if FIFO has less data" (`fifo.h`): a read of two bytes returns with the one at the end of the buffer, while the next waits at its start (`used` is 1) |
| `modbus_far_read` | "The instance will process incoming requests" (`modbus.h`): a read request of an address of 0xfc00 or more that comes in two parts is dropped as the start of a response that is too long, and never answered |
| `eeprom_pages` | "handles page boundaries [...] automatically" (`i2c_eeprom.h`): chunk lengths are computed from the address of the call |
| `bridge_open` | "OPEN: USB CDC connection state changed" is among the "Events that trigger notifications" (`cdc_interface.h`): the callback that hears of it schedules the event task, but only the handler looks at the connection, and nobody schedules that one on an idle interface |

Four more disagreements are properties of the passing run `devices`, which hold for what
the code does, beside one for what the header says. TLC refutes the second when it takes
the place of the first:

| the code | the documentation |
|---|---|
| `TransfersExact`: each transfer selects its device and releases it unless it is kept | `ManualUntouched`: with `PR_SPI_NO_CS` "caller manages CS manually" (`spi_master.h:159`, `:180`); the value of the flag is 0 |
| `EntriesFound`: a number that is not found is −1 | `IntegerOrZero`: "or 0 if not found" (`binary_info_reader.h:172`) |
| `EntriesFound`: a loop over the entries is given a NULL after the last one | `WalkGivesEntries`: the next state is "0 when iteration is complete" (`binary_info_reader.h:90`, and the example at 36-42) |
| `ChecksumIsRemainder`: the polynomial is that of IEEE 802.3 | `ChecksumIsCastagnoli`: "CRC32C (Castagnoli)" (`crc32.h:4`) |

The passing runs state the conditions under which the code is right, as constants:
done is given what prepare granted (`PartialDone = FALSE`), clear is not called
during a transfer (`ClearRaces = FALSE`), consumers read until they get nothing
(`ReadsUntilEmpty`, `DrainsAll`), the writes of the EEPROM are `SoundCalls`, reads of the
server empty the FIFO (`ShortReads = FALSE`, which `RequestsAnswered` alone needs), the
structure of the UART is zeroed (`Unset`), the applications of strips that are not
`hurried`, and identities of which no answer leaves one or two bytes (`MCIdentities`).

The rest of this section are experiments: change one constant, or check one
definition that no run checks, and TLC shows what the condition is for. The hazards of
`PROJECT.json` that no property covers have theirs here.

- `NoNullDeref` in `task_cores`: `queue_reschedule` tests the waiting list outside the lock
  and dereferences its head inside (`task.c:199-203`); the alarm may empty it in
  between. `task.h:116` promises "spin locks for thread-safe operation". The
  value read at address 0 becomes the time of an alarm that fires in vain.
- `PoolSize = 0` in `task_timed`: when the pool of the SDK is full, `add_alarm_at` fails, its
  result is stored as no alarm (`task.c:203`), and the tasks wait until somebody delays
  another one (`WaitingEnds`).
- `WholeResponses` in `modbus`: the timeout of a partial request is not cancelled
  when the request completes, and drops what is left of a response that did not fit
  the FIFO (`modbus.c:508-513`). `WholeUnlessCut` is what does hold.
- `RequestsAnswered` for frames that are not `paced`: the timeout left from one frame
  ends under the next and drops what has come of it.
- `Quiet` without `rx = << >>`: bytes left behind a frame that was dropped are glued to the
  next request, which makes no frame then and is lost, however long the line was quiet.
- `ShortReads = TRUE` in `modbus`: the rest of a request stays in the FIFO until its timeout
  drops the first part, and `RequestsAnswered` fails. The other properties hold.
- `Unset = {<< >>, <<0>>}` in `bridge`: `pr_uart_init` leaves `txbuf_busy` as it was,
  and a structure that is not zeroed sends a byte of its own (`BytesInOrder`).
- `DrainsAll = FALSE` in `queue`: the example of `queue.h:27-33` pops once per run,
  and merged notifications leave messages behind (`AllDelivered`).
- `RefusalIsBusy` in `queue`: `queue.h:153` and `:166` document `PR_ERR_BUSY`; the
  code returns `PR_ERR_MEMORY`.
- `OneAlarm` in `task_cores`: two contexts in `queue_reschedule` arm two alarms,
  of which the queue remembers one. The other fires once in vain; nothing is lost.
- `ReadsUntilEmpty = FALSE` in `fifo`: bytes stay with nobody scheduled.
- `PartialDone = TRUE` in `fifo`: `fifo.h:223` and `:260` allow done to be given less than
  prepare granted; the difference is lost to the ring for ever (`SpaceConserved`).
- `ClearRaces = TRUE` in `fifo`: a clear during a transfer breaks `SpaceConserved`. A clear
  never wakes the producer, so `SecondNobodyStranded` fails if the second is cleared.
- `Irqs` of two in `fifo`: `StreamInOrder` fails, because the first done publishes
  bytes of the other writer's region. One writer and one reader is what the FIFO
  supports, although `fifo.h:14` calls it thread safe.
- `NoStall` without the exception of `skipped`, with `RxSize > BufferSize`: when what fills
  the buffer is dropped, the bytes left in the FIFO wait for another one to come.
- `RefreshDeferred`, and `FrameIntact` and `UpdatesSent` without the exclusion of `hurried` strips: "deferred
  until the current refresh completes" (`pixel_led.h:107-108`), but a refresh completes
  50 us after the last pixel entered a queue of 8 words of 30 us, so the next one runs
  into the frame before it.
- `Strips` with two strips: both fail without any hurry, as the shared interrupt moves
  pixels for strips that do not refresh, and starts the delay of their end
  (`pixel_led.c:36-63`).
- `pr_gpio_irq_mask_set` called after each read also when the mask has no level: the
  edge that came in between is acknowledged and lost (`InputsNoticed`). With a mask of 0 the
  call disables nothing, although `gpio_irq.h` says "Use 0 to disable all interrupts".
- `CachesAgree` for all banks: after a write that failed, the same request changes
  nothing in the cache and returns `PR_OK` without a transfer (`i2c_gpio.c:84-128`;
  `SetIsOnChip`: `PR_OK` means that the chip holds what was set). The test
  for a write of the other bank alone is the same as the one before it (lines 101 and
  124) and never holds.
- `Codes = {3}`: the last object is 0xff, the 8-bit counter never passes it, and the loop
  does not end when objects fit. `MCIdentities` with objects that leave one or two bytes: the
  room that is left is negative and taken for a large one, and the response outgrows the
  buffer (`modbus.c:364-377`), with lengths of 64, 64, 64 and 46 and one more object in
  the real one. With identities whose last object alone does not fit, which in the real one
  takes an object 0x7f, the server names it as the next and, as that is not less
  than the last (line 377), ends the reading without it.
- `READ_DEVICE_IDENTIFICATION` in `modbus_rsp_frame_len`: the length leaves the checksum
  out, and the count is read before it is there (`modbus.c:78-91`), so the
  server loses track of such a response of another one. `FramesSound` is about the other functions.
- `EveryChangeWakes` in `devices`: the wake task is scheduled "whenever the button state
  changes" (`button.h:82`); the code schedules it for a press and not for a release
  (`button.c:21`). Nor does the
  time between two polls filter anything: each changed sample counts.
- a search that goes on after `NULL` starts over (`BiReader`), as the iterator is 0 then.

## 4. Fairness

- *Main loop*: weak fairness of its steps. `main()` calls `run_until_empty` for ever
  and handlers return. A task that is pending gets its turn because the list is
  first-in first-out: in `Task` this is the list itself, in `Queue`, where the pending
  tasks are a set, it is strong fairness of each `RunTask`.
- *Interrupts* that have started end, and the alarm fires when it is due: weak
  fairness of each step of a context. Nobody is obliged to *start* anything: device
  interrupts, and calls of the scheduler by handlers, may never happen.
- *Time* (`Tick`) passes. Strong fairness is needed only because the bound
  `MaxTime` disables the step in some states.
- `Modbus`: pending tasks run, a frame that has started ends, the timeout expires, the
  driver sends what it is given. The master need not send anything. In `fifo`
  only the steps of the second are fair, which has the liveness.
- `Bridge`: the main loop runs on; an interrupt that is enabled and raised is taken;
  the line takes what it is given; timeouts end. The host takes what is flushed while
  the port is open (strong fairness: its callback runs in the main loop, whose other
  tasks disable it at times, but the task that polls the stack schedules itself and so
  comes round for ever). Nobody need send a byte or touch the port.
- `Eeprom`: the call runs on. The chip may refuse for ever: the retries end the call.
- `PixelLed`: the main loop runs on, the interrupt is taken, timeouts end, and the PIO
  sends what is in its queue. `Inputs`: the main loop runs on and the interrupt is taken.
  The other parts of `Devices` need no fairness. Fairness of a part is stated over its own
  variables and only where it is the one in use.

`CHECK_DEADLOCK FALSE` is there where the system may come to rest: everything sent
and read (`Queue`, `Fifo`, `Modbus`, `Bridge`), or the call returned and the calls
used up (`Devices`). `Task` never
rests, as the main loop polls, and is checked for deadlock.

## 5. Proofs

All of them hold for every value of the constants that the `ASSUME` of the module
allows.

| theorem | says | argument |
|---|---|---|
| `TaskProofs!TypeCorrect` | every variable of `Task` has its type | `TypeInv` adds to `TypeOK` that a context about to insert holds a task and a delay that respects the bound of time. The walks of the waiting list are recursive functions: `BoundedRecursion` shows that they exist and stay among the tasks and NULL. |
| `TaskProofs!AlarmAlwaysCovers` | a waiting task has an alarm in time, or a context is about to arm one | `AlarmCovers` is inductive with `TypeInv`. A step that adds a waiting task, cancels an alarm or lets one fire puts its context into `Rescheduling`, or finds it there; a context leaves that only when it finds no waiting task, or when it arms, under the lock, an alarm for the first deadline. No bound on the number of contexts is used. |
| `TaskProofs!ListsAlwaysSound` | the linked lists hold the tasks whose flags say so, once, end where `last` points, and are in the order of deadlines, until a task is raced onto both | `ListsInv`: `q` is that of a pending list and a waiting list (`Lists`), whose neighbours are linked and whose members are flagged; each helper of `task.c` is shown to turn lists into lists, and `Walk` to find them. A task that is delayed while it waits is first taken out of its place (`wait_remove`), wherever that is, and put into another. The only step that breaks the lists is an insertion of a task that is pending by then, which sets `raced`. |
| `TaskProofs!TaskImplementsSpec` | the scheduler of linked lists is that of `TaskSpec`, until the same race | the sequence of pending tasks and the deadlines are read off the lists by the facts above: `pending_insert` is an append, `pending_pop` a tail, `wait_insert` sets a deadline or replaces it, the alarm moves what is due in the order of deadlines. |
| `QueueProofs!TypeCorrect`, `RingAlwaysConsistent` | counters and pointers stay in range and agree | `RingInv`, inductive |
| `QueueProofs!QueueImplementsSpec` | the ring is a bounded FIFO | each push maps to `Append`, each pop to `Tail`, all else to a stutter: facts about indices modulo the size |
| `QueueProofs!NoEntryStranded`, `NoProducerStranded` | no side sleeps on work, if the consumer drains the queue | `Wakes`: both at once, as the context that makes work for a side is the one that is about to notify it |
| `FifoProofs!SpaceNeverLost` | used, free and reserved bytes add up to the size, for any number of writers and readers | `SpaceInv` adds the types and that a region is never longer than what its call has left. Assumes `~PartialDone` and `~ClearRaces`, without which it is false. |
| `FifoProofs!NobodyEverStranded` | bytes that wait have somebody to come for them, and so has a producer task with room, for any number of writers and readers | `WakeInv`: a busy reader is not enough, as one whose last attempt found nothing is about to sleep; it takes a `Live` one. Assumes consumers that read until they get nothing and a FIFO that is never cleared. |
| `FifoProofs!PeekAlwaysPrefix` | a peek returns the first bytes that wait, for any number of writers and readers | `SpaceInv`: with `used <= Size` the second part of the copy begins at the start of the buffer |
| `FifoProofs!RegionsAlwaysDisjoint`, `StreamAlwaysInOrder` | no two contexts access a byte at once, and the bytes that wait are the next ones of the stream, with one writer and one reader | `StreamInv`: going round the ring from `rptr` there are the bytes used, those being written, and `wptr`, and the reader's bytes end at `rptr` (`Layout`); each region that has been filled holds its part of the stream (`Data`). `OneWriter` allows the producer task alone, or one interrupt beside a producer with nothing to write; with two writers the theorem is false. |
| `FifoProofs!FifoImplementsSpec` | the ring is the bounded stream of `FifoSpec` (`ImplementsStream`), under the same assumptions | `Contents` is a segment of the stream that starts at what the reader has not copied: done of a write appends to it, the copy of a read takes its front, prepare moves bytes within it |
| `DevicesProofs!StraightWrites` | the chip holds what was acknowledged of a write and nothing else has changed; a success is a complete write; what is read back was written. As long as no chunk reaches past its page, for any chip and any faults | `WritesInv` adds to both properties what the result is at each place of the call; `TypeInv` that the offset passes the size nowhere. `ChunkExtends` is the core: cells and bytes of a chunk in a straight line correspond one to one. |
| `DevicesProofs!AlignedWrites` | the same without that condition, for the chips of the code (pages of 16 and 32, chunks of 16) and writes that start at a multiple of 16 | `Aligned`: chunks follow at multiples of 16, so that none reaches past its page |
| `DevicesProofs!ExpanderAgrees` | a bank whose last write went through is on the chip as it is cached | `ExpanderInv` adds types, and that a TCA9534 has nothing in its second bank. `BusWrites` says what a transfer that ends anywhere leaves, `WriteAgrees` that it is enough to send what is cached of the banks that change. Assumes two disjoint banks. |
| `DevicesProofs!BoardAgrees` | the same, of the expander of a board (`Devices`), whichever parts it has | The expander of `Devices` starts as one alone does, and a step of the board is one of the expander or leaves it alone: then the invariant above applies. Assumes `DevicesAssumption`. |
| `DevicesProofs!BoardTransfers` | on a board with any SPI devices, only the device of a transfer is selected, whatever its flags, it is released when it ends unless it is kept, and both sides hear what the other sends | `SpiInv`: between transfers the chip selects that are low are those of the device kept selected; within one, what is through is a prefix of both sequences. Reversing the bits of a byte twice is the identity, and chunks join. Assumes that what a device says is as long as any transfer (`SpiAssumption`), as a bus has a bit for every clock. |
| `DevicesProofs!BoardFrames` | a frame leaves a strip whole, in order and as it was set, for any number of pixels, depth of the queue and room that the interrupt finds | `StripInv`: as long as its application leaves it alone until a frame is out, a strip `Rests`, `Starts`, `Moves` words or has all that remains `Leave` it, told apart by which of its tasks are to come and whether its interrupt is enabled. What is out and queued is nothing, nothing, the first `pixel_offset` words and the whole frame (or nothing, after the pause) in turn: only a refresh of a strip whose frame is out resets the offset, and only one interrupt adds the word of zeros. Assumes one strip on the PIO. |
| `DevicesProofs!BoardFinds` | the descriptor that is used is the first that begins in the window, and there is none when the loop gives up; a search finds the entries that match, each once and in order, then NULL or −1; the loop of the header's example is given each entry, then a NULL; in any flash and any table | `InfoInv`: the words that `pr_bi_desc_find` has passed begin no descriptor, and what has been found is `ValuesOf` of the table up to the iterator. `ValuesOf` is a recursive function; one turn of `pr_bi_find` is one turn of its recursion, and `pr_bi_next` stands at the end of the table exactly when the last entry has been seen. Assumes that no entry holds NULL or −1 (`BiAssumption`). |
| `DevicesProofs!BoardIdentifies` | a client that asks again until the server names no next object reads each object once and in order, whichever it starts from, over any number of responses | `IdInv`: at each place of the loop (`PlaceSays`) what has been given and what is in the response are the objects below the counter, in order, and the object named as the next is the first that is not. Assumes `CodesEnd`, and `Roomy` of each state. |
| `DevicesProofs!BasicIdentifies` | the same without `Roomy`, for codes whose objects always fit in one response | `Spare`: each turn of the loop uses at most `MaxObject + 2` bytes, so that `Roomy` is an invariant. Assumes `CodesEnd` and `CodesFit`: code 1 of the server has three objects of up to 64 characters in 256 bytes. |
| `FramesProofs!BoardFramesSound` | the length of a frame is computed from its first bytes or not yet known; the checksum of a frame is right; that of a frame with any one bit wrong is not | `FramesInv`: a frame says what was asked (`Sent`) or answered (`Response`). The register is 16 bits and what goes in only moves and adds (`Insert1Bits`), so two registers that differ differ after any byte, and two that are equal with bytes that differ do too. Appending the register takes it to 0. |
| `FramesProofs!BoardExchanges` | a client reads what the application has, writes what it asked for and nothing else, and gets an exception exactly when it asks for more than there is, or than fits | `FramesInv` again, with `Truth` of what was asked, what was there before and what is there now. Packing and unpacking bits of a byte and bytes of a word are inverse (`NumberOf`, `WordRead`), and the offset of a coil is a byte and a bit of it. |
| `FramesProofs!BoardChecksums` | both checksums are the remainders of the divisions by their polynomials, that of Modbus and that of IEEE 802.3, for data of any length; the CRC-32 may be continued over pieces; the serial number has its digits | `OneExponent`: when the register takes one bit, the long division removes one exponent, and `LeftOver` says where each bit of the register and of the message stands in what is left. A nibble of the table is four such steps (`NibbleIs`), and the bits of a byte may be added at once or one after the other (`ApartStep`). |
| `ModbusProofs!BytesAttended` | bytes in the receive FIFO have the worker scheduled, or the server is sending or waits for its timeout, or the worker has just dropped a frame and left them; for FIFOs and buffers of any size and reads that stop early | `NoStall` is inductive with the types (`Base`): a task that ends a wait or a response is followed by the worker, and the worker leaves bytes in the FIFO in three ways only: behind a frame that it answers or that waits for the rest, for which something is to come, and behind one that it drops, which is `skipped`. |
| `ModbusProofs!RequestsExecutedOnce` | a request is executed once at most, and not if a byte of it was lost | `Once`: a byte of a frame is in one place of line, FIFO and buffer (`Inbox`), those of an executed request are in none, and a frame that has lost a byte never has all of them there |
| `ModbusProofs!ResponsesWhole` | what was sent, waits and is left in the buffer are the responses one after the other, unless a timeout has cut one | moving bytes from the buffer to the FIFO and the line leaves their concatenation, and a request is executed only when nothing is left. Facts about `FlattenSeq` come from its definition by a fold. |
| `ModbusProofs!AnswersTrue` | an answer says what became of the request (an action property) | the definitions of the application and of the answer, with types |
| `BridgeProofs!BridgeInOrder` | in both directions the bytes at every place of the way make up what was sent, in order | a step moves bytes from one place to the next, which leaves their concatenation, or brings the next byte at the end (`Counted`). Assumes `Unset = {<< >>}`. |
| `BridgeProofs!BridgeAttended` | no byte of the bridge waits with nobody to come for it | `Watched`: `Attended` is not inductive, as the interrupt is to be enabled for a byte that has not come yet. `RxEnabled` and `TxEnabled` say that room has an enable whether or not there is a byte, `Asleep` that the FIFO to the host is empty while the task of the interface sleeps |

Hypotheses, and what justifies them:

- `Unset = {<< >>}`: the structure of the UART is zeroed before `pr_uart_init`, as a static one is.
- `CodesEnd`: the last object of a code is less than the counter can hold. The code 3 of
  the server, of 0xff, is not one, and its loop does not end (section 3).
- `Roomy`, of `BoardIdentifies` only: when an object is added, the head and the checksum
  still have room, and the object that does not fit is not the last. Outside, the
  response outgrows the buffer or the last object is never read (section 3). Every state of
  the run meets it.
- `FramesAssumption`: what is asked fits in the 256 bytes of a frame, words have 16 bits.
  The coils and registers of an application are as many as addresses reach.
- one strip on a PIO, in `BoardFrames`: with two, the interrupt of one moves words of the
  other, and the theorem is false (section 3).
- those of the FIFO (`OneWriter`, `~PartialDone`, `~ClearRaces`) and the queue (`DrainsAll`)
  are the conditions of section 3.

The passing runs meet all of them, but for the two writers of the second FIFO, whose invariant
has a theorem for any number; TLC evaluates the assumptions on constants.

Values of recursive functions over data of any length (the walks of the lists, the
checksums, the values of a table, the long division) are reasoned about without an
induction theorem that takes an operator: `SetInduction` says that a set of naturals
closed under successor holds them all, and `RecursionExists` that the function is there.

Only model-checked:

- all liveness (`PendingRuns`, `WaitingEnds`, `AllDelivered`, `SecondDelivered`, `RequestsAnswered`,
  `WriteReturns`, `UpdatesSent`, `InputsNoticed`), which is out of the prover's reach;
- `AnswersTruthful` has a theorem, but not `RequestsAnswered`; writes of the EEPROM that
  start elsewhere than at a multiple of 16 have none.

## 6. What is not modelled

`PROJECT.json` lists three components as not modelled: `stdio_fifo`, a loop of transfers
of `Fifo` under a driver of the SDK; `i2s_master_out`, a PIO program without logic in C;
and headers with error codes and a macro. Of the others:

- scheduler: `queue->alarm` before its first assignment, which the code leaves
  uninitialised and `Task` takes to be an id that belongs to nobody (`InitialAlarm`);
  `pr_task_cancel`, which is declared and never defined; the spin locks themselves,
  which are SDK code and stand for the atomicity of the sections they enclose;
- UART: attaching again while it is in use, and the setters of its format. USB: the line
  coding and control lines that the interface stores, several interfaces, NULL for one
  of the FIFOs, which the header permits and the handler dereferences, and the reset
  interface, which ends the program;
- strips: more than one on a PIO (an experiment of section 3), inverted strips, whose
  word of zeroes is not inverted, and a state machine other than 0, for which no
  interrupt is installed;
- expanders: the pins of more than two banks; I2C: plain reads and the setting up of
  pins; SPI: formats, bit rates and the choice of pins. `PR_SPI_NO_CS` is 0 in the code
  and so has no effect: the model keeps that, and section 3 has the disagreement;
- button: time between two polls, and so contacts that bounce faster than them (the code
  samples once per turn of the main loop and has no filter);
- endian: widths that no module of picore uses; `chip_uid32`, declared without a
  definition in these sources;
- queries that only read.

## 7. Plan

Done: the scheduler, the FIFO and the queue with their specifications and theorems; the
Modbus server, its frames and its identification with theorems; the USB serial adapter
with theorems; the EEPROM, the strips, the expanders, SPI, the binary information and the
checksums with a theorem each; inputs.

What is left:

1. `PixelLed` with several strips, if the interrupt comes to ask which of them refresh.
2. An application of two parts that share a bus (`I2cGpio` with `Inputs`: an expander
   whose interrupt is read over the bus that its outputs are written on).
