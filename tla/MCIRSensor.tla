------------------------------ MODULE MCIRSensor ------------------------------
(* A FIFO that holds neither the four bytes of a write nor the answer; the  *)
(* checksum is CRC-8, for which TLC evaluates the assumption PecTable.      *)
EXTENDS IRSensor, Pec

MCConfigs == {<<116, 177>>, <<117, 177>>, <<116, 183>>}
=============================================================================
