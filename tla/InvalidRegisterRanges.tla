------------------------- MODULE InvalidRegisterRanges -------------------------
(***************************************************************************)
(* InvalidRegisterRanges: the list in which the controller remembers the   *)
(* registers that answered IllegalAddress when read on their own.  It is   *)
(* consulted by every poll and printed in the issue shown to the user.     *)
(***************************************************************************)
EXTENDS Integers, Sequences

CONSTANT Registers
ASSUME RegistersAssumption == Registers \subseteq Nat

VARIABLES
    ranges,     \* _ranges: a list of [start, count]
    added       \* every register add() was called with (history)

vars == <<ranges, added>>

RegisterRange == [start : Nat, count : Nat]

Listed(range) == range.start .. range.start + range.count - 1

(* A slip: the register above a range counts as covered. *)
InThroughEnd(r, range) == r \in range.start .. range.start + range.count

In(r, range) == r \in Listed(range)

AtEnd(r, range) == r = range.start + range.count

(* The registers for which __contains__ answers yes. *)
Held == UNION {Listed(ranges[i]) : i \in DOMAIN ranges}

Init == ranges = <<>> /\ added = {}

(* add(register): the first range that holds the register, or ends just    *)
(* below it, decides; later ranges are not looked at.                      *)
Add(r) ==
    /\ \/ \E i \in DOMAIN ranges :
            /\ \A j \in 1 .. i - 1 : ~In(r, ranges[j]) /\ ~AtEnd(r, ranges[j])
            /\ \/ In(r, ranges[i]) /\ UNCHANGED ranges
               \/ AtEnd(r, ranges[i]) /\ ranges' = [ranges EXCEPT ![i].count = @ + 1]
       \/ /\ \A i \in DOMAIN ranges : ~In(r, ranges[i]) /\ ~AtEnd(r, ranges[i])
          /\ ranges' = Append(ranges, [start |-> r, count |-> 1])
    /\ added' = added \cup {r}

Next == \E r \in Registers : Add(r)

Spec == Init /\ [][Next]_vars

-------------------------------------------------------------------------------
TypeOK == ranges \in Seq(RegisterRange) /\ added \subseteq Registers

(* Whatever the order in which registers are found invalid, and however     *)
(* often, the list stands for exactly those registers: none is polled again *)
(* because a merge lost it, and no healthy neighbour is given up because a  *)
(* range grew too far (add, __contains__).                                  *)
Represents == Held = added
===============================================================================
