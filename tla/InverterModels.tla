---------------------------- MODULE InverterModels ----------------------------
(***************************************************************************)
(* What an inverter is to the entity descriptions: an Inv, a family of     *)
(* models with one register map, reached through one type of registers.    *)
(* The members of the source's Flag are strings here, and a flag is the    *)
(* set of its members, so that | is \cup and `in' is \in.                  *)
(*                                                                         *)
(* A specification (InverterModelSpec) says where something is found on    *)
(* some models: a record [type, models, registers].                        *)
(***************************************************************************)
EXTENDS Integers, Sequences, FiniteSets

H1_LAN == {"H1_LAN"}
H1_G1  == {"H1_G1"}
H1_G2_PRE144 == {"H1_G2_PRE144"}
H1_G2_144    == {"H1_G2_144"}
H1_G2_SET    == H1_G2_PRE144 \cup H1_G2_144

KH_PRE119 == {"KH_PRE119"}
KH_PRE133 == {"KH_PRE133"}
KH_133    == {"KH_133"}
KH_SET    == KH_PRE119 \cup KH_PRE133 \cup KH_133

H3_PRE180     == {"H3_PRE180"}
H3_180        == {"H3_180"}
AIO_H3_PRE101 == {"AIO_H3_PRE101"}
AIO_H3_101    == {"AIO_H3_101"}
KUARA_H3      == {"KUARA_H3"}
H3_SET == H3_PRE180 \cup H3_180 \cup AIO_H3_PRE101 \cup AIO_H3_101 \cup KUARA_H3

H3_PRO_PRE122 == {"H3_PRO_PRE122"}
H3_PRO_122    == {"H3_PRO_122"}
H3_PRO_SET    == H3_PRO_PRE122 \cup H3_PRO_122
H3_SMART      == {"H3_SMART"}
EVO           == {"EVO"}

AllInv == H1_LAN \cup H1_G1 \cup H1_G2_SET \cup KH_SET \cup H3_SET
            \cup H3_PRO_SET \cup H3_SMART \cup EVO

(* Unions that the descriptions keep writing out. *)
InputInv    == H1_G1 \cup KH_PRE119
KHHolding   == KH_PRE133 \cup KH_133
SinglePhase == H1_LAN \cup H1_G1 \cup H1_G2_SET \cup KHHolding
Totals      == H1_G1 \cup H1_G2_SET \cup KHHolding \cup H3_SET
ProSmart    == H3_PRO_SET \cup H3_SMART
ProEvo      == ProSmart \cup EVO
Pro122Up    == H3_PRO_122 \cup H3_SMART \cup EVO

-------------------------------------------------------------------------------
RegisterTypes == {"INPUT", "HOLDING"}

In(models, registers)   == [type |-> "INPUT", models |-> models, registers |-> registers]
Hold(models, registers) == [type |-> "HOLDING", models |-> models, registers |-> registers]

(* EntitySpec: supported, on no registers. *)
Virtual(models) == {In(models, <<>>), Hold(models, <<>>)}

(* addresses_for_inverter_model, over the specifications of a description:  *)
(* the factory asserts that there is at most one.                           *)
Matching(specs, inv, type) == {s \in specs : s.type = type /\ inv \in s.models}

Supports(specs, inv, type) == Matching(specs, inv, type) # {}

AddressesFor(specs, inv, type) ==
    (CHOOSE s \in Matching(specs, inv, type) : TRUE).registers
===============================================================================
