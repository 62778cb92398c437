--------------------------------- MODULE Crc ---------------------------------
(***************************************************************************)
(* The checksums of picore: the CRC-16 of Modbus frames                    *)
(* (src/modbus/modbus_crc16.c), bit by bit, and the CRC-32 (src/crc32) from *)
(* a table of nibbles, from which the USB serial number is made            *)
(* (src/tiny_usb).                                                         *)
(*                                                                         *)
(* A word is the set of the numbers of its bits that are 1; the least      *)
(* significant is 0.                                                       *)
(***************************************************************************)
EXTENDS Integers, Sequences, FiniteSetsExt, SequencesExt

Right(word, n) == {b - n : b \in {c \in word : c >= n}}
Left(word, n) == {b + n : b \in word}
Complement(word, width) == (0 .. width - 1) \ word
LowByte(word) == word \cap (0 .. 7)

----------------------------------------------------------------------------
(* CRC-16.                                                                 *)

modbus_crc16_init == 0 .. 15
modbus_crc16_check_state == {}

\* 0xa001 is {0, 13, 15}; word is one bit.
modbus_crc16_insert1(state, word) ==
  LET shifted == Right(state, 1)
  IN  IF (0 \in state) # (word # {}) THEN SymDiff(shifted, {0, 13, 15}) ELSE shifted

\* The bits of a byte, the least significant first.
Insert(start, word) ==
  LET After[n \in 0 .. 8] ==
        IF n = 0 THEN start ELSE modbus_crc16_insert1(After[n - 1], Right(word, n - 1) \cap {0})
  IN  After[8]

modbus_crc16_update(start, data) ==
  LET After[n \in 0 .. Len(data)] ==
        IF n = 0 THEN start ELSE Insert(After[n - 1], data[n])
  IN  After[Len(data)]

modbus_crc16_serialize(final) == <<LowByte(final), LowByte(Right(final, 8))>>

----------------------------------------------------------------------------
(* CRC-32.                                                                 *)

\* 0xEDB88320, reversed to the polynomial it stands for.
Poly32 == {5, 8, 9, 15, 19, 20, 21, 23, 24, 26, 27, 29, 30, 31}

\* Entry of the table for a nibble: each of its bits adds the polynomial, shifted.
T(x) == {b \in 0 .. 31 : Cardinality({sh \in x : b \in Right(Poly32, 3 - sh)}) % 2 = 1}

Nibble(crc) == SymDiff(Right(crc, 4), T(crc \cap (0 .. 3)))

\* The bytes of data one after the other, without the complements.
Update32(start, data) ==
  LET After[n \in 0 .. Len(data)] ==
        IF n = 0 THEN start ELSE Nibble(Nibble(SymDiff(After[n - 1], data[n])))
  IN  After[Len(data)]

\* Mutant: the complement is left out at the end, so that it is not undone when
\* the data continues.
pr_crc32c_update_raw(crc, data) == Update32(Complement(crc, 32), data)

pr_crc32c_update(crc, data) == Complement(Update32(Complement(crc, 32), data), 32)

\* The eight hexadecimal digits of the checksum of the chip's identifier, each a
\* set of bits, the most significant first.
pr_usb_serial_number(id) ==
  [n \in 1 .. 8 |-> Right(pr_crc32c_update({}, id), 32 - 4 * n) \cap (0 .. 3)]

----------------------------------------------------------------------------
(* What the checksums are: remainders of polynomials over GF(2), sets of   *)
(* exponents.                                                              *)

Polynomial16 == {16, 15, 2, 0}
\* Of IEEE 802.3, 0x04C11DB7, and of Castagnoli, 0x1EDC6F41.
Polynomial32 == {32, 26, 23, 22, 16, 12, 11, 10, 8, 7, 5, 4, 2, 1, 0}
Castagnoli == {32, 28, 27, 26, 25, 23, 22, 20, 19, 18, 14, 13, 11, 10, 9, 8, 6, 0}

\* Remainder of a polynomial of a degree less than width + 8 * n by one of degree
\* width: the greatest exponents are removed one after the other.
Remainder(p, n, divisor, width) ==
  LET Reduced[k \in 0 .. 8 * n] ==
        IF k = 0 THEN p
        ELSE LET r == Reduced[k - 1]
                 d == 8 * n - k
             IN  IF width + d \in r THEN SymDiff(r, Left(divisor, d)) ELSE r
  IN  Reduced[8 * n]

\* A message, and the state before it, as polynomials: what is sent first, the
\* least significant bit of a byte, has the greatest exponent.
MessagePolynomial(data) ==
  UNION {{8 * Len(data) - 1 - (8 * (i - 1) + b) : b \in data[i]} : i \in DOMAIN data}
Mirror(word, width) == {width - 1 - b : b \in word}

\* The checksum by long division, for a register of that width that held start.
Checksum(start, data, divisor, width) ==
  LET n == Len(data)
  IN  Mirror(Remainder(SymDiff(Left(MessagePolynomial(data), width),
                               Left(Mirror(start, width), 8 * n)),
                       n, divisor, width), width)
=============================================================================
