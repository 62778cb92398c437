---------------------------- MODULE ModbusFrames -----------------------------
(***************************************************************************)
(* The bytes of Modbus frames (src/modbus): how the server finds the end   *)
(* of a frame, what it reads out of a request and how it packs coils and   *)
(* registers in a response, each with its checksum.  The rest of the       *)
(* server is in Modbus, where a frame is its length.                       *)
(***************************************************************************)
EXTENDS Integers, Sequences, FiniteSetsExt, SequencesExt, Crc, Endian

CONSTANTS
  CoilCount,     \* coils of the application
  RegCount,      \* registers of it
  Requests,      \* what the client may ask for
  MaxExchanges   \* bound: requests

VARIABLES
  coils, regs,   \* the application: the coils that are 1, the registers
  request,       \* what the client has asked for last, or NoRequest
  before,        \* coils and registers when it did
  frame,         \* the request, or the response
  turn,          \* who is next: "client" or "server"
  exchanges

vars == <<coils, regs, request, before, frame, turn, exchanges>>

READ_COILS == 1
READ_DISCRETE_INPUTS == 2
READ_HOLDING_REGISTERS == 3
READ_INPUT_REGISTERS == 4
WRITE_SINGLE_COIL == 5
WRITE_SINGLE_REGISTER == 6
WRITE_MULTIPLE_COILS == 15
WRITE_MULTIPLE_REGISTERS == 16
READ_DEVICE_IDENTIFICATION == 43

ILLEGAL_DATA_ADDRESS == 2
ILLEGAL_DATA_VALUE == 3
SERVER_DEVICE_FAILURE == 4

Us == 17
NoRequest == [func |-> 0]

Word16 == {n \in Nat : n < 2 ^ 16}

\* A request has the words to write to registers in values, and the offsets of the coils
\* to write 1 to in on.  It fits in the 256 bytes of a frame; addresses do not pass their
\* last one, on which no coil or register is.
FramesAssumption ==
  /\ CoilCount \in Word16 \ {0} /\ RegCount \in Word16 \ {0}
  /\ \A r \in Requests :
       /\ r.func \in 1 .. 6 \cup {WRITE_MULTIPLE_COILS, WRITE_MULTIPLE_REGISTERS}
       /\ r.address \in Word16 /\ r.count \in Word16 /\ r.values \in Seq(Word16)
       /\ r.func \in {WRITE_SINGLE_COIL, WRITE_SINGLE_REGISTER} => r.count = 1 /\ Len(r.values) = 1
       /\ r.on \subseteq Nat
       /\ r.func = WRITE_MULTIPLE_COILS => r.count <= 1976
       /\ r.func = WRITE_MULTIPLE_REGISTERS => r.count <= 123 /\ Len(r.values) = r.count

Init ==
  /\ coils = {} /\ regs = [r \in 0 .. RegCount - 1 |-> 0]
  /\ request = NoRequest
  /\ before = [coils |-> coils, regs |-> regs]
  /\ frame = << >>
  /\ turn = "client"
  /\ exchanges = 0

----------------------------------------------------------------------------
(* Bytes.                                                                  *)

Bits(n) == {b \in 0 .. 7 : (n \div 2 ^ b) % 2 = 1}
Number(bits) ==
  LET bit(b) == IF b \in bits THEN 2 ^ b ELSE 0
  IN  bit(0) + bit(1) + bit(2) + bit(3) + bit(4) + bit(5) + bit(6) + bit(7)

\* Words one after the other.
BytesOf(words) ==
  [k \in 1 .. 2 * Len(words) |-> pr_be16_na_write(words[(k + 1) \div 2])[2 - (k % 2)]]
CrcOf(data) == modbus_crc16_update(modbus_crc16_init, [i \in DOMAIN data |-> Bits(data[i])])
Closed(data) ==
  data \o [i \in 1 .. 2 |-> Number(modbus_crc16_serialize(CrcOf(data))[i])]

----------------------------------------------------------------------------
(* Lengths of frames whose first size bytes are there; 0: not known yet.   *)

\* Mutant: the count is taken from where it is in a response.
modbus_req_frame_len_early(data, size) ==
  IF size < 2 THEN 0
  ELSE IF data[2] \in {1, 2, 3, 4, 5, 6} THEN 8
  ELSE IF data[2] \in {15, 16} THEN (IF size < 7 THEN 0 ELSE data[6] + 9)
  ELSE IF data[2] = 43 THEN 7
  ELSE 0

modbus_req_frame_len(data, size) ==
  IF size < 2 THEN 0
  ELSE IF data[2] \in 1 .. 6 THEN 8
  ELSE IF data[2] \in {WRITE_MULTIPLE_COILS, WRITE_MULTIPLE_REGISTERS}
  THEN IF size < 7 THEN 0 ELSE data[7] + 9
  ELSE IF data[2] = READ_DEVICE_IDENTIFICATION THEN 7
  ELSE 0

\* Where the objects of a device identification end, the checksum not counted.
ObjectsEnd(data, size) ==
  LET point[k \in 0 .. data[8]] ==
        IF k = 0 THEN 8
        ELSE IF point[k - 1] = 0 \/ size < point[k - 1] + 1 THEN 0
        ELSE point[k - 1] + data[point[k - 1] + 2] + 2
  IN  point[data[8]]

modbus_rsp_frame_len(data, size) ==
  IF size < 2 THEN 0
  ELSE IF data[2] >= 128 THEN 5
  ELSE IF data[2] \in 1 .. 4 THEN (IF size < 5 THEN 0 ELSE data[3] + 5)
  ELSE IF data[2] \in {5, 6, WRITE_MULTIPLE_COILS, WRITE_MULTIPLE_REGISTERS} THEN 8
  ELSE IF data[2] = READ_DEVICE_IDENTIFICATION
  THEN IF size < 7 THEN 0 ELSE ObjectsEnd(data, size)
  ELSE 0

----------------------------------------------------------------------------
(* The client.                                                             *)

Packed(on, count) ==
  [k \in 1 .. (count + 7) \div 8 |->
     Number({b \in 0 .. 7 : 8 * (k - 1) + b \in on /\ 8 * (k - 1) + b < count})]

BodyOf(r) ==
  CASE r.func \in READ_COILS .. READ_INPUT_REGISTERS -> pr_be16_na_write(r.count)
    [] r.func \in {WRITE_SINGLE_COIL, WRITE_SINGLE_REGISTER} -> pr_be16_na_write(r.values[1])
    [] r.func = WRITE_MULTIPLE_COILS ->
         LET bytes == Packed(r.on, r.count)
         IN  pr_be16_na_write(r.count) \o <<Len(bytes)>> \o bytes
    [] r.func = WRITE_MULTIPLE_REGISTERS ->
         pr_be16_na_write(r.count) \o <<2 * r.count>> \o BytesOf(r.values)

Ask ==
  /\ turn = "client" /\ exchanges < MaxExchanges
  /\ turn' = "server"
  /\ exchanges' = exchanges + 1
  /\ \E r \in Requests :
       /\ request' = r
       /\ frame' = Closed(<<Us, r.func>> \o pr_be16_na_write(r.address) \o BodyOf(r))
  /\ before' = [coils |-> coils, regs |-> regs]
  /\ UNCHANGED <<coils, regs>>

----------------------------------------------------------------------------
(* The server.                                                             *)

Coils == 0 .. CoilCount - 1
Regs == 0 .. RegCount - 1

\* What the application only lets be read: discrete inputs, input registers.
Discrete == {c \in Coils : c % 3 = 0}
Measured == [r \in Regs |-> (513 + r) % 2 ^ 16]

At(i) == SubSeq(frame, i + 1, Len(frame))

\* Where the request is in the buffer.
Address == pr_be16_na_read(At(2))
Word == pr_be16_na_read(At(4))
Reached(all, count) == {off \in 0 .. count - 1 : \A o \in 0 .. off : Address + o \in all}
Fails(all, count) == Reached(all, count) # 0 .. count - 1

Answer(bytes) == frame' = Closed(<<Us, frame[2]>> \o bytes)
Exception(err) == frame' = Closed(<<Us, frame[2] + 128, err>>)

\* Mutant: the bits of the last byte are packed from the other end.
bus_req_coils_get_many_msb(getter) ==
  LET bytes == (Word + 7) \div 8
  IN  IF bytes > 250 THEN Exception(SERVER_DEVICE_FAILURE)
      ELSE IF Fails(Coils, Word) THEN Exception(ILLEGAL_DATA_ADDRESS)
      ELSE Answer(<<bytes>> \o [k \in 1 .. bytes |->
             Number({7 - (off % 8) : off \in {o \in 0 .. Word - 1 :
                                                o \div 8 = k - 1 /\ Address + o \in getter}})])

bus_req_coils_get_many(getter) ==
  LET bytes == (Word + 7) \div 8
  IN  IF bytes > 250 THEN Exception(SERVER_DEVICE_FAILURE)
      ELSE IF Fails(Coils, Word) THEN Exception(ILLEGAL_DATA_ADDRESS)
      ELSE Answer(<<bytes>> \o [k \in 1 .. bytes |->
             Number({off % 8 : off \in {o \in 0 .. Word - 1 :
                                          o \div 8 = k - 1 /\ Address + o \in getter}})])

bus_req_regs_get_many(getter) ==
  IF Word * 2 > 250 THEN Exception(SERVER_DEVICE_FAILURE)
  ELSE IF Fails(Regs, Word) THEN Exception(ILLEGAL_DATA_ADDRESS)
  ELSE Answer(<<Word * 2>> \o BytesOf([i \in 1 .. Word |-> getter[Address + i - 1]]))

Reads ==
  /\ \/ frame[2] = READ_COILS /\ bus_req_coils_get_many(coils)
     \/ frame[2] = READ_DISCRETE_INPUTS /\ bus_req_coils_get_many(Discrete)
     \/ frame[2] = READ_HOLDING_REGISTERS /\ bus_req_regs_get_many(regs)
     \/ frame[2] = READ_INPUT_REGISTERS /\ bus_req_regs_get_many(Measured)
  /\ UNCHANGED <<coils, regs>>

WriteSingleCoil ==
  /\ frame[2] = WRITE_SINGLE_COIL
  /\ IF Address \notin Coils THEN Exception(ILLEGAL_DATA_ADDRESS) /\ UNCHANGED coils
     ELSE /\ coils' = IF Word # 0 THEN coils \cup {Address} ELSE coils \ {Address}
          /\ Answer(pr_be16_na_write(Address)
                      \o pr_be16_na_write(IF Word # 0 THEN 65280 ELSE 0))
  /\ UNCHANGED regs

WriteSingleRegister ==
  /\ frame[2] = WRITE_SINGLE_REGISTER
  /\ IF Address \notin Regs THEN Exception(ILLEGAL_DATA_ADDRESS) /\ UNCHANGED regs
     ELSE /\ regs' = [regs EXCEPT ![Address] = Word]
          /\ Answer(pr_be16_na_write(Address) \o pr_be16_na_write(Word))
  /\ UNCHANGED coils

\* The answer to a write of several: its start and count, or an exception; what it
\* reaches before it fails is written.
Written(all) ==
  IF Fails(all, Word) THEN Exception(ILLEGAL_DATA_ADDRESS)
  ELSE Answer(pr_be16_na_write(Address) \o pr_be16_na_write(Word))

WriteMultipleRegisters ==
  /\ frame[2] = WRITE_MULTIPLE_REGISTERS
  /\ IF Word # frame[7] \div 2 \/ frame[7] + 9 # Len(frame)
     THEN Exception(ILLEGAL_DATA_VALUE) /\ UNCHANGED regs
     ELSE /\ regs' = [r \in Regs |-> IF r - Address \in Reached(Regs, Word)
                                     THEN pr_be16_na_read(At(7 + 2 * (r - Address)))
                                     ELSE regs[r]]
          /\ Written(Regs)
  /\ UNCHANGED coils

WriteMultipleCoils ==
  /\ frame[2] = WRITE_MULTIPLE_COILS
  /\ IF (Word + 7) \div 8 # frame[7] \/ frame[7] + 9 # Len(frame)
     THEN Exception(ILLEGAL_DATA_VALUE) /\ UNCHANGED coils
     ELSE /\ coils' = {c \in Coils : IF c - Address \in Reached(Coils, Word)
                                     THEN (c - Address) % 8
                                            \in Bits(frame[8 + ((c - Address) \div 8)])
                                     ELSE c \in coils}
          /\ Written(Coils)
  /\ UNCHANGED regs

bus_req_handle ==
  /\ turn = "server" /\ turn' = "client"
  /\ Reads \/ WriteSingleCoil \/ WriteSingleRegister
     \/ WriteMultipleRegisters \/ WriteMultipleCoils
  /\ UNCHANGED <<request, before, exchanges>>

Next == Ask \/ bus_req_handle

Spec == Init /\ [][Next]_vars

----------------------------------------------------------------------------
(* Properties.                                                             *)

\* The parts of a frame have no length or that of the whole.
Delimited(len(_, _)) ==
  /\ \A size \in 0 .. Len(frame) : len(frame, size) \in {0, Len(frame)}
  /\ len(frame, Len(frame)) = Len(frame)

Flipped(i) ==
  [k \in DOMAIN frame |->
     IF k = 1 + (i \div 8) THEN Number(SymDiff(Bits(frame[k]), {i % 8})) ELSE frame[k]]

\* However a frame is cut by the FIFO, the server finds the end of a request, and
\* other servers that of its response, neither before it is there nor elsewhere; its
\* checksum is right, and is not when a bit is wrong.
FramesSound ==
  frame # << >> =>
    /\ IF turn = "server" THEN Delimited(modbus_req_frame_len) ELSE Delimited(modbus_rsp_frame_len)
    /\ Len(frame) <= 256 /\ \A i \in DOMAIN frame : frame[i] \in 0 .. 255
    /\ CrcOf(frame) = modbus_crc16_check_state
    /\ \A i \in 0 .. 8 * Len(frame) - 1 : CrcOf(Flipped(i)) # modbus_crc16_check_state

\* What the two checksums compute, bit by bit and by a table of nibbles, is the
\* remainder of a polynomial division, the second by the polynomial of IEEE 802.3 that
\* crc32.c:6 has; it may be continued over data in pieces, and the digits of the serial
\* number are those of it.
ChecksumIsRemainder ==
  LET data == [i \in DOMAIN frame |-> Bits(frame[i])]
      n == Len(frame) \div 2
      crc32 == pr_crc32c_update({}, data)
  IN  frame # << >> =>
      /\ CrcOf(frame) = Checksum(modbus_crc16_init, data, Polynomial16, 16)
      /\ crc32 = Complement(Checksum(0 .. 31, data, Polynomial32, 32), 32)
      /\ crc32 = pr_crc32c_update(pr_crc32c_update({}, SubSeq(data, 1, n)),
                                  SubSeq(data, n + 1, Len(data)))
      /\ crc32 = UNION {Left(pr_usb_serial_number(data)[d], 32 - 4 * d) : d \in 1 .. 8}

\* "CRC32C calculation using the Castagnoli polynomial" (crc32.h:6).
ChecksumIsCastagnoli ==
  LET data == [i \in DOMAIN frame |-> Bits(frame[i])]
  IN  frame # << >> =>
        pr_crc32c_update({}, data) = Complement(Checksum(0 .. 31, data, Castagnoli, 32), 32)

\* The coils and registers that a client finds in a response.
CoilIn(off) == off % 8 \in Bits(frame[4 + (off \div 8)])
RegIn(off) == pr_be16_na_read(At(3 + 2 * off))

\* What fits in a response: 250 bytes of coils or registers.
FitsIn(r) ==
  /\ r.func \in {READ_COILS, READ_DISCRETE_INPUTS} => r.count <= 8 * 250
  /\ r.func \in {READ_HOLDING_REGISTERS, READ_INPUT_REGISTERS} => 2 * r.count <= 250

\* A client that packs and unpacks coils and registers as the protocol says reads
\* what the application has and writes what it asked for, and nothing else, across
\* the ends of bytes; it gets an exception if and only if it asks for more than
\* there is, or than fits.
ExchangeTrue ==
  turn = "client" /\ request # NoRequest =>
    LET r == request
        all == IF r.func \in {READ_COILS, READ_DISCRETE_INPUTS,
                              WRITE_SINGLE_COIL, WRITE_MULTIPLE_COILS}
               THEN Coils ELSE Regs
        cells == {r.address + off : off \in 0 .. r.count - 1}
    IN  /\ (frame[2] < 128) <=> (cells \subseteq all /\ FitsIn(r))
        /\ frame[2] < 128 =>
             /\ r.func = READ_COILS => \A off \in 0 .. r.count - 1 :
                  CoilIn(off) <=> r.address + off \in before.coils
             /\ r.func = READ_DISCRETE_INPUTS => \A off \in 0 .. r.count - 1 :
                  CoilIn(off) <=> r.address + off \in Discrete
             /\ r.func = READ_HOLDING_REGISTERS => \A off \in 0 .. r.count - 1 :
                  RegIn(off) = before.regs[r.address + off]
             /\ r.func = READ_INPUT_REGISTERS => \A off \in 0 .. r.count - 1 :
                  RegIn(off) = Measured[r.address + off]
             /\ r.func = WRITE_SINGLE_COIL => (r.address \in coils <=> r.values[1] # 0)
             /\ r.func = WRITE_SINGLE_REGISTER => regs[r.address] = r.values[1]
             /\ r.func = WRITE_MULTIPLE_COILS =>
                  coils \cap cells = {r.address + o : o \in r.on} \cap cells
             /\ r.func = WRITE_MULTIPLE_REGISTERS => \A off \in 0 .. r.count - 1 :
                  regs[r.address + off] = r.values[off + 1]
        /\ coils \ cells = before.coils \ cells
        /\ \A a \in Regs \ cells : regs[a] = before.regs[a]
        /\ \A a \in DOMAIN regs : EndsMeet(regs[a] * 2 ^ 15 + r.address)
=============================================================================
