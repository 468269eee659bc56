---------------------------------- MODULE Pec ----------------------------------
(***************************************************************************)
(* The checksum (PEC) that the infra-red sensor computes over the address, *)
(* the command and the data: CRC-8 with the polynomial x^8 + x^2 + x + 1.  *)
(***************************************************************************)
EXTENDS Integers, Sequences, Bitwise

Shifted(c) == IF c >= 128 THEN ((2 * c) % 256) ^^ 7 ELSE 2 * c

Crc8(bytes) ==
  LET bits[n \in 0..8, c \in 0..255] == IF n = 0 THEN c ELSE bits[n - 1, Shifted(c)]
      crc[i \in 0..Len(bytes)] == IF i = 0 THEN 0 ELSE bits[8, crc[i - 1] ^^ bytes[i]]
  IN crc[Len(bytes)]
=============================================================================
