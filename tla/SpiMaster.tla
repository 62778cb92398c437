------------------------------ MODULE SpiMaster ------------------------------
(***************************************************************************)
(* Transfers to the devices of an SPI bus (src/spi_master): the chip       *)
(* select, pushed and pulled or in open drain, is held for the transfer    *)
(* and on demand beyond it; the peripheral sends the most significant bit  *)
(* first, and the bytes of a device that wants the other end first are     *)
(* turned around in chunks.                                                *)
(*                                                                         *)
(* A byte is the set of the numbers of its bits that are 1.                *)
(***************************************************************************)
EXTENDS Integers, Sequences, FiniteSets, SequencesExt, FiniteSetsExt

CONSTANTS
  Devs,       \* the devices: records of a number csn, and of BOOLEANs
              \*   pp         PR_SPI_DEVICE_MODE_CSN_PP
              \*   lsb_first  PR_SPI_DEVICE_MODE_LSB_FIRST
  ChunkSize,  \* BITREV_CHUNK_SIZE: 1600
  ZeroSize,   \* bytes of the block of zeroes: 16
  Said,       \* what a device says when it is selected: a sequence of bytes
  Contents,   \* what the caller may send: sequences of bytes
  MaxTransfers \* bound: transfers

\* The values of a byte: the bits that are 1.
Byte == SUBSET (0 .. 7)

SpiAssumption ==
  /\ Devs \subseteq [csn : Nat, pp : BOOLEAN, lsb_first : BOOLEAN]
  /\ ChunkSize \in Nat \ {0} /\ ZeroSize \in Nat \ {0}
  /\ Said \in Seq(Byte) /\ Contents \subseteq Seq(Byte)
  /\ \A c \in Contents : Len(c) <= Len(Said)

VARIABLES
  level,     \* what the chip selects are driven to by the master
  output,    \* those that the master drives
  keeper,    \* the device that the caller keeps selected, or none
  xfer,      \* the transfer: device, mosi, miso, count, flags; none
  done,      \* bytes of it that are through
  miso,      \* what the caller has received
  heard,     \* what the devices have received in it
  selected,  \* devices that were selected while a byte went through
  ask,       \* what the caller asks of the chip select, in this transfer or the last
  transfers

select == <<level, output>>
vars == <<select, keeper, xfer, done, miso, heard, selected, ask, transfers>>

None == [dev |-> "none"]

\* A chip select that nobody drives is pulled up.
Lowered(d) == d \in output /\ level[d] = 0

\* pr_spi_device_init of every device.
Init ==
  /\ level = [d \in Devs |-> IF d.pp THEN 1 ELSE 0]
  /\ output = {d \in Devs : d.pp}
  /\ keeper = None
  /\ xfer = None
  /\ done = 0
  /\ miso = << >> /\ heard = << >>
  /\ selected = {}
  /\ ask = "nothing"
  /\ transfers = 0

----------------------------------------------------------------------------
(* Flags.                                                                  *)

PR_SPI_NO_CS == 0
PR_SPI_KEEP_CS == 1

\* What a caller may ask for, and the flags it gives.
FlagsOf == [nothing |-> 0, no_cs |-> PR_SPI_NO_CS, keep_cs |-> PR_SPI_KEEP_CS]
Asks == DOMAIN FlagsOf

\* Whether flags and flag have the bit of flag in common.
Has(flags, flag) == flag # 0 /\ (flags \div flag) % 2 = 1

----------------------------------------------------------------------------
(* A transfer.                                                             *)

bitrev(byte) == {7 - b : b \in byte}
bitrev_buf(bytes) == [i \in DOMAIN bytes |-> bitrev(bytes[i])]

\* Between a device and the wire, and between a buffer and the wire: the least
\* significant bit first is the other way around.
OnWire(d, bytes) == IF d.lsb_first THEN bitrev_buf(bytes) ELSE bytes

\* A caller that keeps a device selected goes on with that device.
Begin(d, mosi, reads, count, asked) ==
  /\ xfer = None /\ transfers < MaxTransfers
  /\ keeper \in {None, d}
  /\ transfers' = transfers + 1
  /\ ask' = asked
  /\ IF Has(FlagsOf[asked], PR_SPI_NO_CS) THEN UNCHANGED select
     ELSE IF d.pp THEN level' = [level EXCEPT ![d] = 0] /\ UNCHANGED output
     ELSE output' = output \cup {d} /\ UNCHANGED level
  /\ xfer' = [dev |-> d, mosi |-> mosi, reads |-> reads, count |-> count,
              flags |-> FlagsOf[asked]]
  /\ done' = 0 /\ miso' = << >> /\ heard' = << >> /\ selected' = {}
  /\ UNCHANGED keeper

Left == xfer.count - done
Sent(n) == SubSeq(xfer.mosi, done + 1, done + n)
Zeroes(n) == [i \in 1 .. n |-> {}]
Answer(n) == OnWire(xfer.dev, SubSeq(Said, done + 1, done + n))

\* Bytes that go to pr_spi_master_transfer, or to the SDK, at once.
Piece ==
  LET chunk == IF xfer.dev.lsb_first THEN Min({Left, ChunkSize}) ELSE Left
  IN  IF xfer.mosi = << >> /\ ~xfer.reads THEN Min({chunk, ZeroSize}) ELSE chunk

\* pr_spi_master_transfer of a piece: zeroes when there is nothing to send.
pr_spi_master_transfer ==
  /\ xfer # None /\ done < xfer.count
  /\ LET wire == IF xfer.mosi = << >> THEN Zeroes(Piece) ELSE OnWire(xfer.dev, Sent(Piece))
     IN  heard' = heard \o OnWire(xfer.dev, wire)
  /\ miso' = IF xfer.reads THEN miso \o OnWire(xfer.dev, Answer(Piece)) ELSE miso
  /\ selected' = selected \cup {d \in Devs : Lowered(d)}
  /\ done' = done + Piece
  /\ UNCHANGED <<select, keeper, xfer, ask, transfers>>

\* Mutant: the chip select of an open drain is driven up.
End_drives ==
  /\ xfer # None /\ done = xfer.count
  /\ IF Has(xfer.flags, PR_SPI_NO_CS) \/ Has(xfer.flags, PR_SPI_KEEP_CS)
     THEN keeper' = xfer.dev /\ UNCHANGED select
     ELSE /\ keeper' = None
          /\ level' = [level EXCEPT ![xfer.dev] = 1] /\ UNCHANGED output
  /\ xfer' = None
  /\ UNCHANGED <<done, miso, heard, selected, ask, transfers>>

End ==
  /\ xfer # None /\ done = xfer.count
  /\ IF Has(xfer.flags, PR_SPI_NO_CS) \/ Has(xfer.flags, PR_SPI_KEEP_CS)
     THEN keeper' = xfer.dev /\ UNCHANGED select
     ELSE /\ keeper' = None
          /\ IF xfer.dev.pp
             THEN level' = [level EXCEPT ![xfer.dev] = 1] /\ UNCHANGED output
             ELSE output' = output \ {xfer.dev} /\ UNCHANGED level
  /\ xfer' = None
  /\ UNCHANGED <<done, miso, heard, selected, ask, transfers>>

\* A caller either sends a buffer as long as the transfer or none.
Next ==
  \/ \E d \in Devs, reads \in BOOLEAN, asked \in Asks :
       \/ \E mosi \in Contents : Begin(d, mosi, reads, Len(mosi), asked)
       \/ \E count \in 1 .. Len(Said) : Begin(d, << >>, reads, count, asked)
  \/ pr_spi_master_transfer \/ End

Spec == Init /\ [][Next]_vars

----------------------------------------------------------------------------
(* Properties.                                                             *)

\* The device of a transfer and no other is selected while bytes go through, and after
\* it at most the one that is kept so; the device hears what the caller sends, or
\* zeroes, and the caller what the device says, byte by byte, whichever end of a byte
\* comes first and wherever the chunks are cut.  So it is also in a transfer that is
\* asked to leave the chip select alone: PR_SPI_NO_CS is 0, which is no flag.
TransfersExact ==
  IF xfer = None THEN {d \in Devs : Lowered(d)} = {keeper} \ {None}
  ELSE /\ selected \subseteq {xfer.dev} /\ (done > 0 => selected # {})
       /\ heard = (IF xfer.mosi = << >> THEN Zeroes(done) ELSE SubSeq(xfer.mosi, 1, done))
       /\ miso = IF xfer.reads THEN SubSeq(Said, 1, done) ELSE << >>

\* "Do not touch CS (for manual control)" (spi_master.h:159): a transfer that is
\* asked so neither selects nor releases a device.  The code does both.
ManualUntouched == [][ask' = "no_cs" => UNCHANGED select]_vars
=============================================================================
