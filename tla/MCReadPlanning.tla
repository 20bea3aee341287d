--------------------------- MODULE MCReadPlanning ---------------------------
(* Every inverter, and five registers of every kind with adapters that read *)
(* 1, 3 or 4 at once.                                                       *)
EXTENDS InverterPlanning

MCRegisters == 1 .. 5
MCMaxReads == {1, 3, 4}
=============================================================================
