------------------------------- MODULE Endian --------------------------------
(***************************************************************************)
(* Numbers in buffers of bytes, either end first (src/endian); a buffer is *)
(* a sequence of numbers below 256.                                        *)
(***************************************************************************)
EXTENDS Integers, Sequences, SequencesExt

pr_be16_na_read(data) == data[1] * 2 ^ 8 + data[2]
pr_le16_na_read(data) == data[2] * 2 ^ 8 + data[1]
pr_be32_na_read(data) == data[1] * 2 ^ 24 + data[2] * 2 ^ 16 + data[3] * 2 ^ 8 + data[4]
pr_le32_na_read(data) == data[4] * 2 ^ 24 + data[3] * 2 ^ 16 + data[2] * 2 ^ 8 + data[1]

pr_be16_na_write(value) == <<(value \div 2 ^ 8) % 256, value % 256>>
pr_le16_na_write(value) == <<value % 256, (value \div 2 ^ 8) % 256>>
pr_be32_na_write(value) ==
  <<(value \div 2 ^ 24) % 256, (value \div 2 ^ 16) % 256, (value \div 2 ^ 8) % 256, value % 256>>
pr_le32_na_write(value) ==
  <<value % 256, (value \div 2 ^ 8) % 256, (value \div 2 ^ 16) % 256, (value \div 2 ^ 24) % 256>>

\* What is written is what is read back, and the other end first is the reverse.
EndsMeet(value) ==
  /\ pr_be32_na_read(pr_be32_na_write(value)) = value
  /\ pr_le32_na_read(pr_le32_na_write(value)) = value
  /\ pr_le32_na_write(value) = Reverse(pr_be32_na_write(value))
  /\ pr_be16_na_read(pr_be16_na_write(value)) = value % 2 ^ 16
  /\ pr_le16_na_read(Reverse(pr_be16_na_write(value))) = value % 2 ^ 16
  /\ pr_le16_na_write(value) = Reverse(pr_be16_na_write(value))
=============================================================================
