----------------------- MODULE MCInvalidRegisterRanges -----------------------
(* Six neighbouring registers, found invalid in any order.                   *)
EXTENDS InvalidRegisterRanges

MCRegisters == 1 .. 6
==============================================================================
