---------------------------- MODULE SettingsProofs ----------------------------
(***************************************************************************)
(* Proofs about Settings, for every set of charges and numbers and every   *)
(* number of calls, changes and failures.                                  *)
(*                                                                         *)
(* Every value of a period that is anywhere on its way (held, read,        *)
(* written, or waiting to be) is one that somebody has set.  It stays so   *)
(* because what the service reads of the other period is written back as   *)
(* it was read: serialising a parsed time gives the same register again,   *)
(* and a disabled period is midnight to midnight already.                  *)
(***************************************************************************)
EXTENDS Settings, TLAPS

Values == Minimum .. Maximum
CallRecords ==
    [asks : Slots \cup {NoValue}, writes : [Periods -> Charges] \cup [{"number"} -> Values]]

(* A value of each slot, or none. *)
Fits(f) ==
    /\ \A p \in Periods : f[p] \in known[p] \cup {NoValue}
    /\ f["number"] \in Values \cup {NoValue}

Writing(writes) == \A p \in Periods \cap DOMAIN writes : writes[p] \in known[p]

WholeWindow(p, w) ==
    w # NoValue => \E charge \in known[p] : IsForceChargeEnabled(charge) /\ w = Window(charge)

KnownInv    == known \in [Periods -> SUBSET Charges]
SettingsInv ==
    /\ DOMAIN settings = Slots /\ settings = [s \in Slots |-> settings[s]]
    /\ \A p \in Periods : settings[p] \in known[p]
    /\ settings["number"] \in Values
FitsInv     == Fits(readValue) /\ Fits(written) /\ Fits(poll)
ShownInv    == pending \in Values \cup {NoValue} /\ shown \in Values \cup {NoValue}
CallsInv    ==
    calls \in Seq(CallRecords) /\ \A i \in DOMAIN calls : Writing(calls[i].writes)
BoundsInv   ==
    /\ used \in {Periods, {"number"}}
    /\ begun \in 0 .. MaxCalls /\ changes \in 0 .. MaxChanges /\ failures \in 0 .. MaxFailures

IInv ==
    /\ KnownInv /\ SettingsInv /\ FitsInv /\ ShownInv /\ CallsInv /\ BoundsInv
    /\ RemembersWhole

(* Nothing is forgotten of what was set. *)
Grows == KnownInv' /\ \A p \in Periods : known[p] \subseteq known'[p]

-------------------------------------------------------------------------------
(* Conversions.                                                             *)

LEMMA SerializesAsParsed ==
    ASSUME NEW t \in Registers
    PROVE  SerializeTimeToValue(ParseTimeValue(t)) = t
<1>1. t \in Int
  BY DEF Registers
<1>2. (t \div 256) * 256 + (t % 256) = t
  BY ONLY <1>1, SMTT(30)
<1>3. SerializeTimeToValue(ParseTimeValue(t)) = (t \div 256) * 256 + (t % 256)
  BY Zenon DEF SerializeTimeToValue, ParseTimeValue, Hours, Minutes
<1> QED BY <1>2, <1>3

LEMMA NoneIsMidnight ==
    ASSUME NEW t \in Registers
    PROVE  t > 0 \/ t = 0
BY DEF Registers

LEMMA WrittenAsRead ==
    ASSUME NEW charge \in Charges
    PROVE  AsWritten(charge) = charge
<1>1. charge \in [start : Registers, end : Registers, grid : {0, 1}]
  BY ChargesAssumption
<1>2. charge = [start |-> charge.start, end |-> charge.end, grid |-> charge.grid]
  BY <1>1
<1>3. CASE IsForceChargeEnabled(charge)
  BY <1>1, <1>2, <1>3, SerializesAsParsed DEF AsWritten
<1>4. CASE ~IsForceChargeEnabled(charge)
  <2>1. charge.start \in Registers /\ charge.end \in Registers
    BY <1>1
  <2>2. ~(charge.start > 0) /\ ~(charge.end > 0)
    BY <1>4 DEF IsForceChargeEnabled
  <2>3. charge.start = 0 /\ charge.end = 0
    BY <2>1, <2>2, NoneIsMidnight
  <2> QED BY <1>2, <1>4, <2>3 DEF AsWritten
<1> QED BY <1>3, <1>4

LEMMA ClampInRange ==
    ASSUME NEW value \in Int
    PROVE  Clamp(value) \in Values
BY NumbersAssumption DEF Clamp, Values

LEMMA SlotsSplit == Periods \subseteq Slots /\ "number" \in Slots /\ "number" \notin Periods
                    /\ Slots = Periods \cup {"number"}
BY DEF Slots, Periods

-------------------------------------------------------------------------------
(* What grows keeps.                                                        *)

LEMMA FitsKept ==
    ASSUME Grows, NEW f, Fits(f)
    PROVE  /\ \A p \in Periods : f[p] \in known'[p] \cup {NoValue}
           /\ f["number"] \in Values \cup {NoValue}
BY DEF Grows, Fits

LEMMA FitsInvKept ==
    ASSUME FitsInv, Grows, UNCHANGED <<controller, poll>>
    PROVE  FitsInv'
BY FitsKept DEF FitsInv, Fits, controller

LEMMA SettingsKept ==
    ASSUME SettingsInv, Grows, UNCHANGED settings
    PROVE  SettingsInv'
BY DEF SettingsInv, Grows

LEMMA CallsKept ==
    ASSUME CallsInv, Grows, UNCHANGED calls
    PROVE  CallsInv'
BY DEF CallsInv, Grows, Writing

LEMMA WindowKept ==
    ASSUME Grows, NEW p \in Periods, NEW w, WholeWindow(p, w)
    PROVE  w # NoValue =>
             \E charge \in known'[p] : IsForceChargeEnabled(charge) /\ w = Window(charge)
BY DEF Grows, WholeWindow

LEMMA RemembersKept ==
    ASSUME RemembersWhole, Grows, UNCHANGED <<remembered, stored>>
    PROVE  RemembersWhole'
BY DEF RemembersWhole, Grows

LEMMA Unknown ==
    ASSUME KnownInv, UNCHANGED known
    PROVE  Grows
BY DEF KnownInv, Grows

-------------------------------------------------------------------------------
(* What the entities are told.                                              *)

LEMMA Notified ==
    ASSUME RemembersWhole, ShownInv, Grows, FitsInv', pending' \in Values \cup {NoValue},
           NEW changed, NotifyUpdate(changed), UNCHANGED stored
    PROVE  ShownInv' /\ RemembersWhole'
<1>1. \A s \in Slots : Read(s)' = IF written'[s] # NoValue THEN written'[s] ELSE readValue'[s]
  BY DEF Read
<1>2. NativeValue \in Values \cup {NoValue}
  BY <1>1, SlotsSplit DEF NativeValue, FitsInv, Fits
<1>3. ShownInv'
  BY <1>2 DEF NotifyUpdate, ShownInv
<1>4. ASSUME NEW p \in Periods, remembered'[p] # NoValue
      PROVE  \E charge \in known'[p] :
               IsForceChargeEnabled(charge) /\ remembered'[p] = Window(charge)
  <2>1. CASE remembered'[p] = remembered[p]
    BY <1>4, <2>1 DEF RemembersWhole, Grows
  <2>2. CASE /\ Read(p)' # NoValue /\ IsForceChargeEnabled(Read(p)')
             /\ remembered'[p] = Window(Read(p)')
    <3>1. Read(p)' \in known'[p]
      BY <1>1, <2>2, SlotsSplit DEF FitsInv, Fits
    <3> QED BY <2>2, <3>1
  <2>3. remembered'[p] = IF p \in changed THEN AddressUpdated(p) ELSE remembered[p]
    BY DEF NotifyUpdate
  <2> QED BY <2>1, <2>2, <2>3 DEF AddressUpdated
<1>5. ASSUME NEW p \in Periods, stored'[p] # NoValue
      PROVE  \E charge \in known'[p] :
               IsForceChargeEnabled(charge) /\ stored'[p] = Window(charge)
  BY <1>5 DEF RemembersWhole, Grows
<1> QED BY <1>3, <1>4, <1>5 DEF RemembersWhole

-------------------------------------------------------------------------------
(* The calls.                                                               *)

(* A call joins the queue with values that are known by then.               *)
LEMMA StartsKeeps ==
    ASSUME CallsInv, BoundsInv, Grows, NEW slot \in Slots \cup {NoValue},
           NEW writes \in [Periods -> Charges] \cup [{"number"} -> Values],
           Starts(slot, writes), Writing(writes)',
           UNCHANGED <<changes, failures, used>>
    PROVE  CallsInv' /\ BoundsInv'
<1>1. BoundsInv'
  BY BoundsAssumption DEF Starts, BoundsInv
<1>2. Call(slot, writes) \in CallRecords
  BY DEF Call, CallRecords
<1>3. calls \in Seq(CallRecords) /\ calls' = Append(calls, Call(slot, writes))
  BY DEF CallsInv, Starts
<1>4. /\ calls' \in Seq(CallRecords) /\ DOMAIN calls' = 1 .. Len(calls) + 1
      /\ \A i \in 1 .. Len(calls) : i \in DOMAIN calls /\ calls'[i] = calls[i]
      /\ calls'[Len(calls) + 1] = Call(slot, writes)
  BY <1>2, <1>3
<1>5. ASSUME NEW i \in DOMAIN calls', NEW p \in Periods \cap DOMAIN calls'[i].writes
      PROVE  calls'[i].writes[p] \in known'[p]
  <2>1. CASE i \in 1 .. Len(calls)
    BY <1>4, <1>5, <2>1 DEF CallsInv, Writing, Grows
  <2>2. CASE i = Len(calls) + 1
    <3>1. calls'[i].writes = writes
      BY <1>4, <2>2 DEF Call
    <3> QED BY <1>5, <3>1 DEF Writing
  <2>3. Len(calls) \in Nat
    BY <1>3
  <2> QED BY <1>4, <2>1, <2>2, <2>3
<1> QED BY <1>1, <1>4, <1>5 DEF CallsInv, Writing

LEMMA HeadKnown ==
    ASSUME CallsInv, KnownInv, calls # <<>>
    PROVE  /\ Tail(calls) \in Seq(CallRecords)
           /\ \A i \in DOMAIN Tail(calls) : Writing(Tail(calls)[i].writes)
           /\ Head(calls).writes \in [Periods -> Charges] \cup [{"number"} -> Values]
           /\ Writing(Head(calls).writes)
<1>1. /\ calls \in Seq(CallRecords) /\ Len(calls) \in Nat \ {0} /\ 1 \in DOMAIN calls
      /\ Head(calls) = calls[1] /\ DOMAIN calls = 1 .. Len(calls)
  BY DEF CallsInv
<1>2. Tail(calls) \in Seq(CallRecords) /\ DOMAIN Tail(calls) = 1 .. Len(calls) - 1
  BY <1>1
<1>3. \A i \in 1 .. Len(calls) - 1 : Tail(calls)[i] = calls[i + 1] /\ i + 1 \in DOMAIN calls
  BY <1>1
<1>4. \A i \in DOMAIN Tail(calls) : Writing(Tail(calls)[i].writes)
  BY <1>2, <1>3 DEF CallsInv
<1>5. calls[1] \in CallRecords
  BY <1>1
<1>6. calls[1].writes \in [Periods -> Charges] \cup [{"number"} -> Values]
  BY <1>5 DEF CallRecords
<1> QED BY <1>1, <1>2, <1>4, <1>6 DEF CallsInv

(* What a write leaves in the inverter.                                     *)
LEMMA HoldKnown ==
    ASSUME SettingsInv, KnownInv, CallsInv, calls # <<>>, UNCHANGED known,
           settings' = Hold(Head(calls).writes)
    PROVE  SettingsInv'
<1> DEFINE w == Head(calls).writes
<1>1. w \in [Periods -> Charges] \cup [{"number"} -> Values] /\ Writing(w)
  BY HeadKnown
<1>2. settings' = [s \in Slots |-> IF s \in DOMAIN w THEN w[s] ELSE settings[s]]
  BY DEF Hold
<1> HIDE DEF w
<1>3. \A p \in Periods : settings'[p] \in known'[p]
  BY <1>1, <1>2, SlotsSplit DEF SettingsInv, Writing
<1>4. settings'["number"] \in Values
  <2>1. CASE w \in [Periods -> Charges]
    BY <1>2, <2>1, SlotsSplit DEF SettingsInv
  <2>2. CASE w \in [{"number"} -> Values]
    BY <1>2, <2>2, SlotsSplit
  <2> QED BY <1>1, <2>1, <2>2
<1>5. DOMAIN settings' = Slots /\ settings' = [s \in Slots |-> settings'[s]]
  BY <1>2
<1> QED BY <1>3, <1>4, <1>5 DEF SettingsInv

-------------------------------------------------------------------------------
(* The steps.                                                               *)

LEMMA InitInv == Init => IInv
<1> SUFFICES ASSUME Init PROVE IInv
  OBVIOUS
<1>1. /\ settings \in [Slots -> Charges \cup Values]
      /\ \A p \in Periods : settings[p] = Initial
      /\ settings["number"] = Minimum
  BY ChargesAssumption, NumbersAssumption, SlotsSplit DEF Init, Values
<1>2. Initial \in Charges /\ Minimum \in Values
  BY ChargesAssumption, NumbersAssumption DEF Values
<1>3. KnownInv
  BY <1>1, <1>2 DEF Init, KnownInv
<1>4. SettingsInv
  BY <1>1, <1>2 DEF Init, SettingsInv
<1>5. FitsInv
  BY SlotsSplit DEF Init, FitsInv, Fits, Nothing
<1>6. ShownInv /\ CallsInv
  BY DEF Init, ShownInv, CallsInv
<1>7. BoundsInv
  BY BoundsAssumption DEF Init, BoundsInv
<1>8. RemembersWhole
  BY DEF Init, RemembersWhole
<1> QED BY <1>3, <1>4, <1>5, <1>6, <1>7, <1>8 DEF IInv

LEMMA UpdateKeeps ==
    ASSUME IInv, NEW p \in Periods, NEW charge \in Requests, UpdateChargePeriod(p, charge)
    PROVE  IInv'
<1> DEFINE writes == [q \in Periods |-> AsWritten(IF q = p THEN charge ELSE Read(q))]
<1>1. charge \in Charges
  BY DEF Requests
<1>2. Grows /\ charge \in known'[p] /\ \A q \in Periods \ {p} : known'[q] = known[q]
  BY <1>1 DEF UpdateChargePeriod, IInv, KnownInv, Grows
<1>3. \A q \in Periods \ {p} : Read(q) \in known[q]
  BY SlotsSplit DEF UpdateChargePeriod, Read, IInv, FitsInv, Fits
<1>4. \A q \in Periods : known[q] \subseteq Charges
  BY DEF IInv, KnownInv
<1>5. \A q \in Periods : writes[q] = IF q = p THEN charge ELSE Read(q)
  BY <1>1, <1>3, <1>4, WrittenAsRead
<1>6. writes \in [Periods -> Charges]
  BY <1>1, <1>3, <1>4, <1>5
<1>7. \A q \in Periods : writes[q] \in known'[q]
  BY <1>2, <1>3, <1>5 DEF Grows
<1>8. Starts(p, writes) /\ UNCHANGED <<changes, failures, used>>
  BY DEF UpdateChargePeriod
<1> HIDE DEF writes
<1>9. DOMAIN writes = Periods
  BY <1>6
<1>10. CallsInv' /\ BoundsInv'
  BY <1>2, <1>6, <1>7, <1>8, <1>9, StartsKeeps, SlotsSplit DEF Writing, IInv
<1>11. UNCHANGED <<settings, controller, poll, entities, stored>>
  BY DEF UpdateChargePeriod
<1>12. SettingsInv' /\ FitsInv' /\ ShownInv' /\ RemembersWhole' /\ KnownInv'
  BY <1>2, <1>11, SettingsKept, FitsInvKept, RemembersKept
     DEF IInv, entities, ShownInv, Grows
<1> QED BY <1>10, <1>12 DEF IInv

LEMMA UpdateAllKeeps ==
    ASSUME IInv, NEW charges \in [Periods -> Requests], UpdateAllChargePeriods(charges)
    PROVE  IInv'
<1> DEFINE writes == [p \in Periods |-> AsWritten(charges[p])]
<1>1. \A p \in Periods : charges[p] \in Charges
  BY DEF Requests
<1>2. Grows /\ \A p \in Periods : charges[p] \in known'[p]
  BY <1>1 DEF UpdateAllChargePeriods, IInv, KnownInv, Grows
<1>3. \A p \in Periods : writes[p] = charges[p]
  BY <1>1, WrittenAsRead
<1>4. writes \in [Periods -> Charges] /\ \A p \in Periods : writes[p] \in known'[p]
  BY <1>1, <1>2, <1>3
<1>5. Starts(NoValue, writes) /\ UNCHANGED <<changes, failures, used>>
  BY DEF UpdateAllChargePeriods
<1> HIDE DEF writes
<1>6. CallsInv' /\ BoundsInv'
  BY <1>2, <1>4, <1>5, StartsKeeps DEF Writing, IInv
<1>7. UNCHANGED <<settings, controller, poll, entities, stored>>
  BY DEF UpdateAllChargePeriods
<1>8. SettingsInv' /\ FitsInv' /\ ShownInv' /\ RemembersWhole' /\ KnownInv'
  BY <1>2, <1>7, SettingsKept, FitsInvKept, RemembersKept
     DEF IInv, entities, ShownInv, Grows
<1> QED BY <1>6, <1>8 DEF IInv

LEMMA SetNumberKeeps ==
    ASSUME IInv, NEW value \in Numbers, SetNumber(value)
    PROVE  IInv'
<1> DEFINE writes == [s \in {"number"} |-> Clamp(value)]
<1>1. Clamp(value) \in Values
  BY NumbersAssumption, ClampInRange
<1>2. Grows
  BY Unknown DEF SetNumber, IInv
<1>3. writes \in [{"number"} -> Values] /\ DOMAIN writes = {"number"}
  BY <1>1
<1>4. Starts("number", writes) /\ UNCHANGED <<changes, failures, used>>
  BY DEF SetNumber
<1> HIDE DEF writes
<1>5. CallsInv' /\ BoundsInv'
  BY <1>2, <1>3, <1>4, StartsKeeps, SlotsSplit DEF Writing, IInv
<1>6. SettingsInv' /\ FitsInv' /\ RemembersWhole' /\ KnownInv'
  BY <1>2, SettingsKept, FitsInvKept, RemembersKept DEF SetNumber, IInv, Grows
<1>7. pending' = Clamp(value) /\ shown' = pending'
  BY <1>1, NoValueAssumption, NumbersAssumption DEF SetNumber, NativeValue, Values
<1>8. ShownInv'
  BY <1>1, <1>7 DEF ShownInv
<1> QED BY <1>5, <1>6, <1>8 DEF IInv

LEMMA ReturnsKeeps ==
    ASSUME CallsInv, ShownInv, KnownInv, UNCHANGED known, NEW failed, Returns(failed)
    PROVE  CallsInv' /\ pending' \in Values \cup {NoValue} /\ calls # <<>>
<1>1. calls # <<>> /\ calls' = Tail(calls)
  BY DEF Returns
<1>2. CallsInv'
  BY <1>1, HeadKnown DEF CallsInv, Writing
<1>3. pending' \in Values \cup {NoValue}
  BY DEF Returns, ShownInv
<1> QED BY <1>1, <1>2, <1>3

LEMMA WriteSucceedsKeeps ==
    ASSUME IInv, WriteSucceeds
    PROVE  IInv'
<1> DEFINE w == Head(calls).writes
<1>1. Grows /\ KnownInv' /\ UNCHANGED known
  BY Unknown DEF WriteSucceeds, IInv, KnownInv
<1>2. CallsInv' /\ pending' \in Values \cup {NoValue} /\ calls # <<>>
  BY <1>1, ReturnsKeeps DEF WriteSucceeds, IInv
<1>3. SettingsInv'
  BY <1>1, <1>2, HoldKnown DEF WriteSucceeds, IInv
<1>4. w \in [Periods -> Charges] \cup [{"number"} -> Values] /\ Writing(w)
  BY <1>2, HeadKnown DEF IInv
<1>5. written' = [s \in Slots |-> IF s \in DOMAIN w THEN w[s] ELSE written[s]]
  BY DEF WriteSucceeds
<1>6. NotifyUpdate(DOMAIN w) /\ UNCHANGED <<readValue, poll, stored, bounds>>
  BY DEF WriteSucceeds
<1> HIDE DEF w
<1>7. \A p \in Periods : written'[p] \in known'[p] \cup {NoValue}
  BY <1>1, <1>4, <1>5, SlotsSplit DEF Writing, IInv, FitsInv, Fits
<1>8. written'["number"] \in Values \cup {NoValue}
  <2>1. CASE w \in [Periods -> Charges]
    BY <1>5, <2>1, SlotsSplit DEF IInv, FitsInv, Fits
  <2>2. CASE w \in [{"number"} -> Values]
    BY <1>5, <2>2, SlotsSplit
  <2> QED BY <1>4, <2>1, <2>2
<1>9. FitsInv'
  BY <1>1, <1>6, <1>7, <1>8 DEF IInv, FitsInv, Fits
<1>10. ShownInv' /\ RemembersWhole'
  BY <1>1, <1>2, <1>6, <1>9, Notified DEF IInv
<1>11. BoundsInv'
  BY <1>6 DEF bounds, IInv, BoundsInv
<1> QED BY <1>1, <1>2, <1>3, <1>9, <1>10, <1>11 DEF IInv

LEMMA WriteFailsKeeps ==
    ASSUME IInv, WriteFails
    PROVE  IInv'
<1>1. Grows /\ KnownInv' /\ UNCHANGED known
  BY Unknown DEF WriteFails, IInv, KnownInv
<1>2. CallsInv' /\ pending' \in Values \cup {NoValue} /\ calls # <<>>
  BY <1>1, ReturnsKeeps DEF WriteFails, IInv
<1>3. SettingsInv'
  BY <1>1, <1>2, HoldKnown, SettingsKept DEF WriteFails, IInv
<1>4. FitsInv' /\ RemembersWhole'
  BY <1>1, FitsInvKept, RemembersKept DEF WriteFails, IInv
<1>5. ShownInv'
  BY <1>2 DEF WriteFails, IInv, ShownInv
<1>6. BoundsInv'
  BY BoundsAssumption DEF WriteFails, IInv, BoundsInv
<1> QED BY <1>1, <1>2, <1>3, <1>4, <1>5, <1>6 DEF IInv

LEMMA DelayKeeps ==
    ASSUME IInv, NEW slots, WriteDelayEnds(slots)
    PROVE  IInv'
<1>1. Grows /\ KnownInv'
  BY Unknown DEF WriteDelayEnds, bounds, IInv, KnownInv
<1>2. FitsInv'
  BY <1>1, SlotsSplit DEF WriteDelayEnds, IInv, FitsInv, Fits, Grows
<1>3. SettingsInv' /\ CallsInv' /\ RemembersWhole'
  BY <1>1, SettingsKept, CallsKept, RemembersKept DEF WriteDelayEnds, IInv, entities
<1>4. ShownInv' /\ BoundsInv'
  BY DEF WriteDelayEnds, IInv, entities, bounds, ShownInv, BoundsInv
<1> QED BY <1>1, <1>2, <1>3, <1>4 DEF IInv

LEMMA PollsKeep ==
    ASSUME IInv, PollReads \/ PollSucceeds \/ PollFails
    PROVE  IInv'
<1>1. Grows /\ KnownInv'
  BY Unknown DEF PollReads, PollSucceeds, PollFails, bounds, IInv, KnownInv
<1>2. SettingsInv' /\ CallsInv'
  BY <1>1, SettingsKept, CallsKept DEF PollReads, PollSucceeds, PollFails, IInv
<1>3. BoundsInv'
  BY BoundsAssumption DEF PollReads, PollSucceeds, PollFails, bounds, IInv, BoundsInv
<1>4. FitsInv'
  BY <1>1, SlotsSplit
     DEF PollReads, PollSucceeds, PollFails, controller, Nothing, IInv, SettingsInv,
         FitsInv, Fits, Grows
<1>5. CASE PollSucceeds
  <2>1. ShownInv' /\ RemembersWhole'
    BY <1>1, <1>4, <1>5, Notified DEF PollSucceeds, IInv, ShownInv
  <2> QED BY <1>1, <1>2, <1>3, <1>4, <2>1 DEF IInv
<1>6. CASE PollReads \/ PollFails
  <2>1. ShownInv' /\ RemembersWhole'
    BY <1>1, <1>6, RemembersKept DEF PollReads, PollFails, entities, IInv, ShownInv
  <2> QED BY <1>1, <1>2, <1>3, <1>4, <2>1 DEF IInv
<1> QED BY <1>5, <1>6

LEMMA SaveKeeps ==
    ASSUME IInv, SaveStates
    PROVE  IInv'
<1>1. Grows /\ KnownInv'
  BY Unknown DEF SaveStates, bounds, IInv, KnownInv
<1>2. SettingsInv' /\ CallsInv' /\ FitsInv'
  BY <1>1, SettingsKept, CallsKept, FitsInvKept DEF SaveStates, IInv
<1>3. ShownInv' /\ BoundsInv' /\ RemembersWhole'
  BY DEF SaveStates, entities, bounds, IInv, ShownInv, BoundsInv, RemembersWhole
<1> QED BY <1>1, <1>2, <1>3 DEF IInv

LEMMA RestartKeeps ==
    ASSUME IInv, Restart
    PROVE  IInv'
<1>1. Grows /\ KnownInv' /\ UNCHANGED known
  BY Unknown DEF Restart, IInv, KnownInv
<1>2. SettingsInv'
  BY <1>1, HoldKnown, SettingsKept DEF Restart, IInv
<1>3. FitsInv'
  BY SlotsSplit DEF Restart, Nothing, FitsInv, Fits
<1>4. ShownInv' /\ CallsInv'
  BY DEF Restart, ShownInv, CallsInv
<1>5. BoundsInv'
  BY BoundsAssumption DEF Restart, IInv, BoundsInv
<1>6. RemembersWhole'
  BY <1>1 DEF Restart, IInv, RemembersWhole
<1> QED BY <1>1, <1>2, <1>3, <1>4, <1>5, <1>6 DEF IInv

LEMMA AppKeeps ==
    ASSUME IInv, AppChanges
    PROVE  IInv'
<1>1. UNCHANGED <<controller, calls, poll, entities, stored, begun, failures, used>>
  BY DEF AppChanges
<1>2. BoundsInv'
  BY BoundsAssumption DEF AppChanges, IInv, BoundsInv
<1>3. CASE \E p \in Periods \cap used, charge \in AppCharges :
             /\ settings' = [settings EXCEPT ![p] = charge]
             /\ known' = [known EXCEPT ![p] = @ \cup {charge}]
  <2>1. PICK p \in Periods, charge \in Charges :
             /\ settings' = [settings EXCEPT ![p] = charge]
             /\ known' = [known EXCEPT ![p] = @ \cup {charge}]
    BY <1>3, ChargesAssumption
  <2>2. Grows
    BY <2>1 DEF IInv, KnownInv, Grows
  <2>3. SettingsInv'
    BY <2>1, <2>2, SlotsSplit DEF IInv, SettingsInv, KnownInv
  <2> QED BY <1>1, <1>2, <2>2, <2>3, CallsKept, FitsInvKept, RemembersKept
          DEF IInv, Grows, entities, ShownInv
<1>4. CASE \E value \in Numbers :
             /\ settings' = [settings EXCEPT !["number"] = Clamp(value)]
             /\ UNCHANGED known
  <2>1. PICK value \in Numbers :
             /\ settings' = [settings EXCEPT !["number"] = Clamp(value)]
             /\ UNCHANGED known
    BY <1>4
  <2>2. Clamp(value) \in Values
    BY ClampInRange, NumbersAssumption
  <2>3. Grows
    BY <2>1, Unknown DEF IInv
  <2>4. SettingsInv'
    BY <2>1, <2>2, SlotsSplit DEF IInv, SettingsInv
  <2> QED BY <1>1, <1>2, <2>3, <2>4, CallsKept, FitsInvKept, RemembersKept
          DEF IInv, Grows, entities, ShownInv
<1> QED BY <1>3, <1>4 DEF AppChanges

LEMMA NextInv == IInv /\ [Next]_vars => IInv'
<1> SUFFICES ASSUME IInv, [Next]_vars PROVE IInv'
  OBVIOUS
<1>1. CASE Starting
  BY <1>1, UpdateKeeps, UpdateAllKeeps, SetNumberKeeps DEF Starting
<1>2. CASE WriteSucceeds
  BY <1>2, WriteSucceedsKeeps
<1>3. CASE WriteFails
  BY <1>3, WriteFailsKeeps
<1>4. CASE WriteDelayEnds(Periods) \/ WriteDelayEnds({"number"})
  BY <1>4, DelayKeeps
<1>5. CASE PollReads \/ PollSucceeds \/ PollFails
  BY <1>5, PollsKeep
<1>6. CASE SaveStates
  BY <1>6, SaveKeeps
<1>7. CASE Restart
  BY <1>7, RestartKeeps
<1>8. CASE AppChanges
  BY <1>8, AppKeeps
<1>9. CASE UNCHANGED vars
  BY <1>9 DEF vars, controller, entities, bounds, IInv, KnownInv, SettingsInv, FitsInv, Fits,
              ShownInv, CallsInv, Writing, BoundsInv, RemembersWhole
<1> QED BY <1>1, <1>2, <1>3, <1>4, <1>5, <1>6, <1>7, <1>8, <1>9 DEF Next

-------------------------------------------------------------------------------
(* The results.                                                             *)

LEMMA InvTypeOK == IInv => TypeOK
<1> SUFFICES ASSUME IInv PROVE TypeOK
  OBVIOUS
<1>1. \A p \in Periods :
         /\ settings[p] \in Charges
         /\ {readValue[p], written[p], poll[p]} \subseteq Charges \cup {NoValue}
         /\ known[p] \subseteq Charges
  BY DEF IInv, KnownInv, SettingsInv, FitsInv, Fits
<1>2. /\ settings["number"] \in Minimum .. Maximum
      /\ \A v \in {readValue["number"], written["number"], poll["number"], pending, shown} :
           v = NoValue \/ v \in Minimum .. Maximum
  BY DEF IInv, SettingsInv, FitsInv, Fits, ShownInv, Values
<1>3. \A i \in DOMAIN calls : DOMAIN calls[i].writes \in {Periods, {"number"}}
  <2>1. calls \in Seq(CallRecords)
    BY DEF IInv, CallsInv
  <2>2. \A i \in DOMAIN calls : calls[i] \in CallRecords
    BY <2>1
  <2>3. \A c \in CallRecords : c.writes \in [Periods -> Charges] \cup [{"number"} -> Values]
    BY DEF CallRecords
  <2>4. \A w \in [Periods -> Charges] \cup [{"number"} -> Values] :
          DOMAIN w = Periods \/ DOMAIN w = {"number"}
    OBVIOUS
  <2> QED BY <2>2, <2>3, <2>4
<1> QED BY <1>1, <1>2, <1>3 DEF TypeOK, IInv, BoundsInv

(* Every value of a setting that is held, read, written or under way is one *)
(* that was set (the inductive invariant).                                  *)
THEOREM Invariant == Spec => []IInv
<1> QED BY InitInv, NextInv, PTL DEF Spec

(* The variables have their types: a number stays in its range, and a       *)
(* charge period is one of those that users or the app use.                 *)
THEOREM TypeCorrect == Spec => []TypeOK
<1> QED BY Invariant, InvTypeOK, PTL

(* The inverter never holds a charge period that nobody has set, whatever   *)
(* calls of the services overlap, fail or are cut off (_update_charge_period,*)
(* _set_charge_periods).                                                    *)
THEOREM HoldsWhatWasSet == Spec => []PeriodsWhole
<1>1. IInv => PeriodsWhole
  BY DEF IInv, SettingsInv, PeriodsWhole
<1> QED BY <1>1, Invariant, PTL

(* The start and end that the sensors remember of a disabled period belong  *)
(* to one enabled period that was set (_address_updated).                   *)
THEOREM RemembersOnePeriod == Spec => []RemembersWhole
<1>1. IInv => RemembersWhole
  BY DEF IInv
<1> QED BY <1>1, Invariant, PTL

-------------------------------------------------------------------------------
(* The number while it is set for the first time: no write was before it,   *)
(* so the queue is empty or holds this call alone.                          *)
FirstSetInv ==
    used = {"number"} =>
      /\ begun = 0 => calls = <<>>
      /\ begun = 1 /\ calls # <<>> =>
           /\ Len(calls) = 1 /\ calls[1].asks = "number"
           /\ pending # NoValue
           /\ pending = calls[1].writes["number"] /\ shown = pending

LEMMA StartKeepsFirst ==
    ASSUME IInv, FirstSetInv, Starting
    PROVE  FirstSetInv'
<1>1. CASE \/ \E p \in Periods, charge \in Requests : UpdateChargePeriod(p, charge)
           \/ \E charges \in [Periods -> Requests] : UpdateAllChargePeriods(charges)
  <2>1. ASSUME NEW p \in Periods, NEW charge \in Requests, UpdateChargePeriod(p, charge)
        PROVE  used' = Periods
    BY <2>1 DEF UpdateChargePeriod, Starts
  <2>2. ASSUME NEW charges \in [Periods -> Requests], UpdateAllChargePeriods(charges)
        PROVE  used' = Periods
    BY <2>2 DEF UpdateAllChargePeriods, Starts
  <2>3. used' = Periods
    BY <1>1, <2>1, <2>2
  <2> QED BY <2>3 DEF Periods, FirstSetInv
<1>2. CASE \E value \in Numbers : SetNumber(value)
  <2>1. PICK value \in Numbers : SetNumber(value)
    BY <1>2
  <2> DEFINE c == Call("number", [s \in {"number"} |-> Clamp(value)])
  <2>2. /\ calls' = Append(calls, c) /\ begun' = begun + 1 /\ used' = used
        /\ pending' = Clamp(value) /\ shown' = NativeValue
    BY <2>1 DEF SetNumber, Starts
  <2>3. Clamp(value) \in Values /\ Clamp(value) # NoValue
    BY NumbersAssumption, NoValueAssumption, ClampInRange DEF Values
  <2>4. shown' = pending'
    BY <2>2, <2>3 DEF NativeValue
  <2>5. c.asks = "number" /\ c.writes["number"] = Clamp(value)
    BY DEF Call
  <2>6. begun \in Nat
    BY DEF IInv, BoundsInv
  <2> HIDE DEF c
  <2>7. CASE begun = 0 /\ calls = <<>>
    <3>1. Len(calls') = 1 /\ calls'[1] = c
      BY <2>2, <2>7
    <3> QED BY <2>2, <2>3, <2>4, <2>5, <2>7, <3>1 DEF FirstSetInv
  <2>8. CASE begun > 0
    BY <2>2, <2>6, <2>8 DEF FirstSetInv
  <2> QED BY <2>2, <2>6, <2>7, <2>8 DEF FirstSetInv
<1> QED BY <1>1, <1>2 DEF Starting

LEMMA ReturnKeepsFirst ==
    ASSUME IInv, FirstSetInv, WriteSucceeds \/ WriteFails \/ Restart
    PROVE  FirstSetInv'
<1>1. begun' = begun /\ used' = used
  BY DEF WriteSucceeds, WriteFails, Restart, bounds
<1>2. CASE calls' = <<>>
  BY <1>1, <1>2 DEF FirstSetInv
<1>3. CASE calls # <<>> /\ calls' = Tail(calls)
  <2>1. calls \in Seq(CallRecords) /\ begun \in Nat
    BY DEF IInv, CallsInv, BoundsInv
  <2>2. Len(calls) = 1 => calls' = <<>>
    BY <1>3, <2>1
  <2> QED BY <1>1, <1>2, <1>3, <2>1, <2>2 DEF FirstSetInv
<1> QED BY <1>2, <1>3 DEF WriteSucceeds, WriteFails, Restart, Returns

LEMMA PollKeepsFirst ==
    ASSUME IInv, FirstSetInv, PollSucceeds
    PROVE  FirstSetInv'
<1>1. UNCHANGED <<calls, begun, used, pending>>
  BY DEF PollSucceeds, bounds
<1>2. pending # NoValue => shown' = pending
  BY DEF PollSucceeds, NotifyUpdate, NativeValue, Slots
<1> QED BY <1>1, <1>2 DEF FirstSetInv

(* While the number is set for the first time, its value is what users see, *)
(* whatever polls read and fail meanwhile (async_set_native_value).         *)
THEOREM ShowsWhatIsSet == Spec => []ShowsPending
<1>1. Init => FirstSetInv
  BY DEF Init, FirstSetInv
<1>2. IInv /\ FirstSetInv /\ [Next]_vars => FirstSetInv'
  <2> SUFFICES ASSUME IInv, FirstSetInv, [Next]_vars PROVE FirstSetInv'
    OBVIOUS
  <2>1. CASE Starting
    BY <2>1, StartKeepsFirst
  <2>2. CASE WriteSucceeds \/ WriteFails \/ Restart
    BY <2>2, ReturnKeepsFirst
  <2>3. CASE PollSucceeds
    BY <2>3, PollKeepsFirst
  <2>4. CASE \/ WriteDelayEnds(Periods) \/ WriteDelayEnds({"number"})
             \/ PollReads \/ PollFails \/ SaveStates \/ AppChanges
             \/ UNCHANGED vars
    <3>1. UNCHANGED <<calls, pending, shown, begun, used>>
      BY <2>4 DEF WriteDelayEnds, PollReads, PollFails, SaveStates, AppChanges,
                  vars, entities, bounds
    <3> QED BY <3>1 DEF FirstSetInv
  <2> QED BY <2>1, <2>2, <2>3, <2>4 DEF Next
<1>3. IInv /\ FirstSetInv => ShowsPending
  BY DEF FirstSetInv, ShowsPending
<1> QED BY <1>1, <1>2, <1>3, Invariant, PTL DEF Spec

===============================================================================
