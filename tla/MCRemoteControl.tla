---------------------------- MODULE MCRemoteControl ----------------------------
(* One user, who may still be waiting for a write when a poll ends.           *)
EXTENDS RemoteControl, TLC

CONSTANT user
MCUsers == {user}
MCReadings == {"full", "dark", "sunny"}

(* Liveness: without the regulation of import, whose powers are alike. *)
SteadyReadings == {"full", "dark"}
================================================================================
