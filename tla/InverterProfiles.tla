--------------------------- MODULE InverterProfiles ---------------------------
(***************************************************************************)
(* From the model found by autodetection, the connection and the firmware  *)
(* version chosen in the options to an Inv, the type of its registers and  *)
(* the special registers of its profile.                                   *)
(*                                                                         *)
(* A profile is a record [type, special, versions].  Versions map a bound  *)
(* to an Inv: 144 for Version(1, 44), Latest for None.                     *)
(***************************************************************************)
EXTENDS Integers, FiniteSets

Special(invalid, individual) == [invalid |-> invalid, individual |-> individual]

NO_REGISTERS     == Special({}, {})
H1_AC1_REGISTERS == Special(11096 .. 39999, {})
H1_G2_REGISTERS  == Special({}, 41000 .. 41999)
H3_REGISTERS ==
    Special((41001 .. 41006) \cup (41012 .. 41013) \cup {41015}, 41000 .. 41999)
H3_PRO_REGISTERS ==
    Special((37633 .. 37699) \cup H3_REGISTERS.invalid, 41000 .. 41999)
H3_SMART_REGISTERS ==
    Special(H3_REGISTERS.invalid, (37609 .. 37620) \cup (37632 .. 37636))
KH_REGISTERS ==
    Special((41001 .. 41006) \cup {41012} \cup (41019 .. 43999) \cup (31055 .. 31999),
            41000 .. 41999)

-------------------------------------------------------------------------------
Latest == 1000000

Only(inv) == [bound \in {Latest} |-> inv]
UpTo(bound, inv, latest) == [b \in {bound, Latest} |-> IF b = bound THEN inv ELSE latest]

Profile(type, special, versions) ==
    [type |-> type, special |-> special, versions |-> versions]

G2Models  == {"H1_G2", "AC1_G2", "P1"}
LanModels == {"H1", "AC1", "AIO-H1"}
OemH3Models == {"SK-HWR", "STAR-H3", "SOLAVITA-SP", "ATRONIX_AX"}
SmartModels ==
    {"H3_SMART", "P3_SMART", "SK-HWR-SMART", "ATRONIX_AX_PLUS", "ENPAL_IX", "1KOMMA5", "VSN"}

Models == G2Models \cup LanModels \cup OemH3Models \cup SmartModels
            \cup {"AIO-AC1", "KH", "H3", "AC3", "AIO-H3", "KUARA-H3", "H3_PRO", "EVO"}

Connections == {"AUX", "LAN"}

AuxProfile(model) ==
    CASE model \in G2Models ->
           Profile("HOLDING", H1_G2_REGISTERS, UpTo(144, "H1_G2_PRE144", "H1_G2_144"))
      [] model \in LanModels \cup {"AIO-AC1"} ->
           Profile("INPUT", H1_AC1_REGISTERS, Only("H1_G1"))
      [] model = "KH" ->
           Profile("HOLDING", KH_REGISTERS, UpTo(133, "KH_PRE133", "KH_133"))
      [] model \in {"H3", "AC3"} ->
           Profile("HOLDING", H3_REGISTERS, UpTo(180, "H3_PRE180", "H3_180"))
      [] model = "AIO-H3" ->
           Profile("HOLDING", H3_REGISTERS, UpTo(101, "AIO_H3_PRE101", "AIO_H3_101"))
      [] model = "KUARA-H3" -> Profile("HOLDING", H3_REGISTERS, Only("KUARA_H3"))
      [] model \in OemH3Models -> Profile("HOLDING", H3_REGISTERS, Only("H3_PRE180"))
      [] model \in SmartModels -> Profile("HOLDING", H3_SMART_REGISTERS, Only("H3_SMART"))
      [] model = "H3_PRO" ->
           Profile("HOLDING", H3_PRO_REGISTERS, UpTo(122, "H3_PRO_PRE122", "H3_PRO_122"))
      [] model = "EVO" -> Profile("HOLDING", NO_REGISTERS, Only("EVO"))

(* Models that are the same over LAN and AUX only have an AUX profile.      *)
ProfileFor(model, connection) ==
    IF connection = "LAN" /\ model \in LanModels
    THEN Profile("HOLDING", NO_REGISTERS, Only("H1_LAN"))
    ELSE AuxProfile(model)

(* A slip: the bounds searched from the lowest upwards, so that Latest is   *)
(* never reached.                                                           *)
InvForVersionUpwards(versions, version) ==
    versions[CHOOSE b \in DOMAIN versions : \A c \in DOMAIN versions : b <= c]

(* get_inv_for_version: the highest bound that is not above the version,    *)
(* and the latest Inv when every bound is.                                  *)
InvForVersion(versions, version) ==
    LET below == {b \in DOMAIN versions : b <= version}
    IN  IF below = {} THEN versions[Latest]
        ELSE versions[CHOOSE b \in below : \A c \in below : c <= b]
===============================================================================
