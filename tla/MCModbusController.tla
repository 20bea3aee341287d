--------------------------- MODULE MCModbusController ---------------------------
(* A small controller: "soc" and "power" share register 1, "power" also listens  *)
(* on register 4, and "version" on register 2, which is read when the connection *)
(* is established and otherwise a gap.  The profile declares register 3 invalid. *)
EXTENDS ModbusController, TLC

CONSTANTS soc, power, version

MCAddresses == 1 .. 4
MCEntities == {soc, power, version}
MCAddressesOf == soc :> {1} @@ power :> {1, 4} @@ version :> {2}
MCPollTypeOf == soc :> "PERIODICALLY" @@ power :> "PERIODICALLY" @@ version :> "ON_CONNECTION"
MCProfile == [invalid |-> {3}, individual |-> {}]
MCValues == {0}

PlainProfile == [invalid |-> {}, individual |-> {}]

(* For writes and liveness: one entity on two registers, of two values.          *)
PairAddresses == 1 .. 2
PairEntities == {power}
PairAddressesOf == power :> {1, 2}
PairPollTypeOf == [e \in PairEntities |-> "PERIODICALLY"]
PairValues == {0, 1}
=================================================================================
