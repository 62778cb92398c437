------------------------------- MODULE Modbus -------------------------------
(***************************************************************************)
(* The Modbus server of picore (src/modbus), between its two byte FIFOs:   *)
(* a worker task collects bytes in a buffer until they make a frame,       *)
(* executes a request addressed to it and sends the response from the same *)
(* buffer; a second task, delayed by 50 ms, gives up on bytes that make no *)
(* frame.                                                                  *)
(*                                                                         *)
(* A byte is <<message, position>>: what the code finds out from lengths   *)
(* and checksums is whether bytes are those of one message, in order.      *)
(* Handlers are single steps: what an interrupt adds to rx or takes from   *)
(* tx meanwhile it reports by scheduling the worker again.                 *)
(***************************************************************************)
EXTENDS Integers, Sequences, FiniteSets, SequencesExt

CONSTANTS
  Frames,      \* frames the master and other servers send, each once
  BufferSize,  \* sizeof(bus->buffer)
  RxSize,      \* size of the FIFO of received bytes
  TxSize,      \* size of the FIFO of bytes to send
  Addresses,   \* registers the application has
  MaxLosses,   \* bound: frames that lose a byte on the line
  ShortReads   \* TRUE: pr_fifo_read may return less than there is

ASSUME ModbusAssumption ==
  /\ Frames \subseteq [kind : {"read", "write", "response"}, to : {"us", "other"},
                       first : Nat, count : Nat, value : Nat, len : Nat \ {0, 1}, early : Nat,
                       paced : BOOLEAN]
  /\ \A f \in Frames : f.early \in 2 .. f.len /\ (f.len > BufferSize => f.early <= BufferSize)
  /\ BufferSize \in Nat \ {0} /\ RxSize \in Nat \ {0} /\ TxSize \in Nat \ {0}
  /\ Addresses \subseteq Nat
  /\ MaxLosses \in Nat
  /\ ShortReads \in BOOLEAN

VARIABLES
  rx, tx,    \* contents of the FIFOs
  buffer,    \* bytes received, or the response being sent
  ptr,       \* bytes received into the buffer, or sent from it
  rsp_size,  \* length of the response being sent; 0 while receiving
  pend,      \* the scheduler's pending list: "worker", "clear"
  waiting,   \* TRUE: bus->clear waits for its timeout
  recent,    \* whether the timeout was last started while the frame on the line was received
  data,      \* the application's registers
  unsent,    \* frames not yet started on the line
  line,      \* bytes of the started frame still to come
  lost,      \* frames that lost a byte
  answers,   \* the responses built so far
  wire,      \* bytes sent so far
  cut,       \* history: whether a timeout has hit a response
  skipped    \* history: whether the worker last dropped a frame and left bytes in rx

bus == <<buffer, ptr, rsp_size>>
timer == <<waiting, recent>>
received == <<unsent, line, lost>>
vars == <<rx, tx, bus, pend, timer, data, received, answers, wire, cut, skipped>>

Init ==
  /\ rx = << >> /\ tx = << >>
  /\ buffer = << >> /\ ptr = 0 /\ rsp_size = 0
  /\ pend = << >>
  /\ waiting = FALSE /\ recent = FALSE
  /\ data = [a \in Addresses |-> 0]
  /\ unsent = Frames /\ line = << >> /\ lost = {}
  /\ answers = << >> /\ wire = << >>
  /\ cut = FALSE
  /\ skipped = FALSE

Bytes(m) == [i \in 1 .. m.len |-> <<m, i>>]
Least(m, n) == IF m <= n THEN m ELSE n

\* pr_task_exec: a pending task stays where it is in the list.
Exec(list, t) == IF t \in ToSet(list) THEN list ELSE Append(list, t)
Rest == Tail(pend)
Runs(t) == pend # << >> /\ Head(pend) = t

----------------------------------------------------------------------------
(* Requests.                                                               *)

Cells(f) == f.first .. f.first + f.count - 1
Accepted(f) == Cells(f) \subseteq Addresses

\* Mutant: the loop over the cells starts at the second one.
Reached_from_second(f) == {a \in Cells(f) : a # f.first}

\* The cells a request reaches: a setter that fails ends it where it is.
Reached(f) == {a \in Cells(f) : \A b \in Cells(f) : b <= a => b \in Addresses}

bus_req_write(f) ==
  IF f.kind = "write" THEN [a \in Addresses |-> IF a \in Reached(f) THEN f.value ELSE data[a]]
  ELSE data

\* An exception is shorter than other responses.
Response(f) ==
  [request |-> f, ok |-> Accepted(f), len |-> IF Accepted(f) THEN 3 ELSE 2,
   values |-> IF Accepted(f) /\ f.kind = "read" THEN [a \in Cells(f) |-> data[a]] ELSE << >>]

----------------------------------------------------------------------------
(* The two tasks.                                                          *)

\* Mutant: each attempt sends from the start of the response.
modbus_tx_try_restarts(bytes, p, size) ==
  LET n == Least(size - p, TxSize - Len(tx)) IN
  /\ tx' = tx \o SubSeq(bytes, 1, n)
  /\ IF p + n = size
     THEN /\ buffer' = << >> /\ ptr' = 0 /\ rsp_size' = 0
          /\ pend' = IF rx' # << >> THEN Exec(Rest, "worker") ELSE Rest
     ELSE /\ buffer' = bytes /\ ptr' = p + n /\ rsp_size' = size
          /\ pend' = Rest

\* Mutant: received bytes that wait are not looked at after a response.
modbus_tx_try_forgets_rx(bytes, p, size) ==
  LET n == Least(size - p, TxSize - Len(tx)) IN
  /\ tx' = tx \o SubSeq(bytes, p + 1, p + n)
  /\ IF p + n = size THEN buffer' = << >> /\ ptr' = 0 /\ rsp_size' = 0
                     ELSE buffer' = bytes /\ ptr' = p + n /\ rsp_size' = size
  /\ pend' = Rest

\* As much of response bytes from position p on as tx takes.
modbus_tx_try(bytes, p, size) ==
  LET n == Least(size - p, TxSize - Len(tx)) IN
  /\ tx' = tx \o SubSeq(bytes, p + 1, p + n)
  /\ IF p + n = size
     THEN /\ buffer' = << >> /\ ptr' = 0 /\ rsp_size' = 0
          /\ pend' = IF rx' # << >> THEN Exec(Rest, "worker") ELSE Rest
     ELSE /\ buffer' = bytes /\ ptr' = p + n /\ rsp_size' = size
          /\ pend' = Rest

bus_req_handle(f) ==
  /\ data' = bus_req_write(f)
  /\ answers' = Append(answers, Response(f))
  /\ modbus_tx_try(Bytes(Response(f)), 0, Response(f).len)
  /\ skipped' = FALSE
  /\ UNCHANGED timer

\* Everything in the buffer is dropped; nobody is scheduled for what is left in rx.
Drop ==
  /\ buffer' = << >> /\ ptr' = 0 /\ rsp_size' = 0
  /\ pend' = Rest
  /\ skipped' = (rx' # << >>)
  /\ UNCHANGED <<tx, timer, data, answers>>

\* Mutant: no timeout for a partial frame.
Wait_for_ever(bytes) ==
  /\ buffer' = bytes /\ ptr' = Len(bytes) /\ rsp_size' = 0
  /\ pend' = Rest
  /\ skipped' = FALSE
  /\ UNCHANGED <<tx, timer, data, answers>>

\* Bytes are kept, and the timeout starts again unless it has just ended.
Wait(bytes) ==
  /\ buffer' = bytes /\ ptr' = Len(bytes) /\ rsp_size' = 0
  /\ pend' = Rest
  /\ IF bytes # << >> /\ "clear" \notin ToSet(pend) THEN waiting' = TRUE /\ recent' = TRUE
                                                    ELSE UNCHANGED timer
  /\ skipped' = FALSE
  /\ UNCHANGED <<tx, data, answers>>

\* Mutant: the checksum is not verified.
Complete_no_crc(bytes) ==
  {f \in Frames : /\ f.len <= BufferSize /\ f.len <= Len(bytes)
                  /\ IsPrefix(SubSeq(Bytes(f), 1, 2), bytes)}

\* The frame at the start of the buffer, if there is a whole one.
Complete(bytes) == {f \in Frames : f.len <= BufferSize /\ IsPrefix(Bytes(f), bytes)}

\* Whether the start of a frame is dropped: its length as a request, or else as a
\* response, exceeds the buffer.  The second byte of the address of a read request is
\* its number of bytes as a response.
Early(bytes) ==
  \E f \in Frames : /\ IsPrefix(bytes, Bytes(f))
                    /\ f.early <= Len(bytes) /\ Len(bytes) < f.len

\* Two bytes or more that no frame starts with may announce any length.
Misread(bytes) == Len(bytes) >= 2 /\ \A f \in Frames : ~IsPrefix(bytes, Bytes(f))

ReadSizes ==
  LET n == Least(Len(rx), BufferSize - ptr) IN
  IF ShortReads /\ n > 0 THEN 1 .. n ELSE {n}

modbus_rx_try ==
  \E n \in ReadSizes :
    LET bytes == SubSeq(buffer, 1, ptr) \o SubSeq(rx, 1, n) IN
    /\ rx' = SubSeq(rx, n + 1, Len(rx))
    /\ \/ \E f \in Complete(bytes) :
            IF f.kind # "response" /\ f.to = "us" THEN bus_req_handle(f) ELSE Drop
       \/ Complete(bytes) = {} /\ ~Early(bytes) /\ Wait(bytes)
       \/ Complete(bytes) = {} /\ (Early(bytes) \/ Misread(bytes)) /\ Drop

on_work ==
  /\ Runs("worker")
  /\ \/ /\ rsp_size # 0
        /\ skipped' = FALSE
        /\ UNCHANGED <<rx, timer, data, answers>>
        /\ modbus_tx_try(buffer, ptr, rsp_size)
     \/ /\ rsp_size = 0
        /\ modbus_rx_try
  /\ UNCHANGED <<received, wire, cut>>

on_clear ==
  /\ Runs("clear")
  /\ buffer' = << >> /\ ptr' = 0 /\ rsp_size' = 0
  /\ pend' = IF rx # << >> THEN Exec(Rest, "worker") ELSE Rest
  /\ cut' = (cut \/ rsp_size # 0)
  /\ skipped' = FALSE
  /\ UNCHANGED <<rx, tx, timer, data, received, answers, wire>>

\* The alarm makes bus->clear pending.  Handlers, and the gaps between the bytes of a
\* frame, are short against 50 ms: what may end under the bytes of a frame is a timeout
\* left from the frame before, which nothing cancels.
TimeoutEnds ==
  /\ waiting
  /\ recent => pend = << >> /\ line = << >>
  /\ waiting' = FALSE
  /\ pend' = Exec(pend, "clear")
  /\ UNCHANGED <<rx, tx, bus, recent, data, received, answers, wire, cut, skipped>>

----------------------------------------------------------------------------
(* The line.                                                               *)

\* The last answer is out and the line has been quiet for 50 ms, so that tasks have run
\* and timeouts ended; no bytes are left in rx (NoStall says where some may be).
Quiet == tx = << >> /\ rsp_size = 0 /\ pend = << >> /\ ~waiting /\ rx = << >>

\* Before a paced frame the master waits for a quiet line, before another one for nothing.
FrameStarts ==
  /\ line = << >>
  /\ \E f \in unsent :
       /\ f.paced => Quiet
       /\ unsent' = unsent \ {f}
       /\ line' = Bytes(f)
  /\ recent' = FALSE
  /\ UNCHANGED <<rx, tx, bus, pend, waiting, data, lost, answers, wire, cut, skipped>>

ByteArrives ==
  /\ line # << >>
  /\ Len(rx) < RxSize
  /\ rx' = Append(rx, Head(line))
  /\ line' = Tail(line)
  /\ pend' = Exec(pend, "worker")
  /\ UNCHANGED <<tx, bus, timer, data, unsent, lost, answers, wire, cut, skipped>>

ByteLost ==
  /\ line # << >>
  /\ Cardinality(lost) < MaxLosses
  /\ lost' = lost \cup {Head(line)[1]}
  /\ line' = Tail(line)
  /\ UNCHANGED <<rx, tx, bus, pend, timer, data, unsent, answers, wire, cut, skipped>>

ByteSent ==
  /\ tx # << >>
  /\ wire' = Append(wire, Head(tx))
  /\ tx' = Tail(tx)
  /\ pend' = Exec(pend, "worker")
  /\ UNCHANGED <<rx, bus, timer, data, received, answers, cut, skipped>>

Next == on_work \/ on_clear \/ TimeoutEnds \/ FrameStarts \/ ByteArrives \/ ByteLost \/ ByteSent

Spec == Init /\ [][Next]_vars

\* Pending tasks are run, time passes, a started frame ends, bytes are sent.
Fairness ==
  /\ WF_vars(on_work) /\ WF_vars(on_clear)
  /\ WF_vars(TimeoutEnds)
  /\ WF_vars(ByteArrives \/ ByteLost)
  /\ WF_vars(ByteSent)

FairSpec == Spec /\ Fairness

----------------------------------------------------------------------------
(* Properties.                                                             *)

\* What has been sent, what waits in the FIFO and what is left in the buffer are
\* the responses one after the other, each whole, although requests and
\* responses share a buffer, its position and the worker.
Stream == wire \o tx \o (IF rsp_size = 0 THEN << >> ELSE SubSeq(buffer, ptr + 1, rsp_size))
WholeResponses == Stream = FlattenSeq([i \in DOMAIN answers |-> Bytes(answers[i])])

\* Responses are whole unless a timeout has hit one.
WholeUnlessCut == cut \/ WholeResponses

\* A request is executed once at most, and not if a byte of it was lost.
ExecutedOnce ==
  /\ \A i, j \in DOMAIN answers : answers[i].request = answers[j].request => i = j
  /\ \A i \in DOMAIN answers : answers[i].request \notin unsent \cup lost

\* A positive answer to a write means that every register holds the value, and
\* to a read that the values are those of the registers; a negative one that a
\* register does not exist.  No other register changes.
AnswersTruthful ==
  [][Len(answers') > Len(answers) =>
       LET r == Last(answers')  f == r.request IN
       /\ r.ok => /\ f.kind = "write" => \A a \in Cells(f) : data'[a] = f.value
                  /\ f.kind = "read" => \A a \in Cells(f) : r.values[a] = data'[a]
       /\ ~r.ok => ~(Cells(f) \subseteq Addresses)
       /\ \A a \in Addresses \ Cells(f) : data'[a] = data[a]]_vars

\* Received bytes wait with nobody to look at them only where the worker has dropped
\* a frame and left them in rx: it is not scheduled for them, as it is after a
\* response and after a timeout.
NoStall == rx # << >> => pend # << >> \/ waiting \/ rsp_size # 0 \/ skipped

Requests == {f \in Frames : f.kind # "response" /\ f.to = "us"}
Arrived(f) == f \notin unsent \cup lost /\ (line # << >> => Head(line)[1] # f)
Answered(f) == \E i \in DOMAIN answers : answers[i].request = f
                 /\ <<answers[i], answers[i].len>> \in ToSet(wire)

\* A request that comes after a quiet line and arrives whole, and whose start is never
\* taken for a response too long for the buffer, is answered in full whatever has come
\* before it and follows closely on it, unless a timeout hits its response.
RequestsAnswered ==
  \A f \in Requests : f.paced /\ f.early = f.len => (Arrived(f) ~> Answered(f) \/ cut)

\* "The instance will process incoming requests from the RX FIFO and send responses
\* to the TX FIFO" (modbus.h): every request that comes after a quiet line and
\* arrives whole.
EveryRequestAnswered == \A f \in Requests : f.paced => (Arrived(f) ~> Answered(f) \/ cut)
=============================================================================
