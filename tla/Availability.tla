----------------------------- MODULE Availability -----------------------------
(***************************************************************************)
(* What the users of a controller are promised about a flaky connection:   *)
(* the entities stay available through a few failed polls, become          *)
(* unavailable with the last of Tolerated consecutive failures, and are    *)
(* available again with the first poll that succeeds.                      *)
(***************************************************************************)
EXTENDS Naturals

CONSTANT Tolerated   \* at least 1

VARIABLES
    available,  \* what is_connected answers, and what the entities show
    failures    \* consecutive failed polls, counted up to Tolerated

vars == <<available, failures>>

Init == available = TRUE /\ failures = 0

PollSucceeded == available' = TRUE /\ failures' = 0

PollFailed ==
    /\ failures' = IF failures < Tolerated THEN failures + 1 ELSE Tolerated
    /\ available' = (failures' < Tolerated)

Next == PollSucceeded \/ PollFailed

Spec == Init /\ [][Next]_vars
===============================================================================
