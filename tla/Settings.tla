-------------------------------- MODULE Settings --------------------------------
(***************************************************************************)
(* Settings: what users write to the inverter through the charge period    *)
(* services and the number entities, and what the entities show of it.     *)
(*                                                                         *)
(* Every call ends in one write, which it awaits.  The service that        *)
(* updates one charge period first reads the others and writes all of them *)
(* back, so what a call writes is decided when it starts.  Meanwhile polls *)
(* record what they have read, other calls start, and the FoxESS app       *)
(* changes the same settings.                                              *)
(*                                                                         *)
(* The registers of a charge period are written by one request, are next   *)
(* to each other, and are here also polled by one request: a period is one *)
(* value, the record of its three registers.                               *)
(*                                                                         *)
(* Periods and numbers share no register.  To keep the runs small, a       *)
(* behaviour sets either the periods or the number.                        *)
(***************************************************************************)
EXTENDS Integers, FiniteSets, Sequences

CONSTANTS
    Charges,        \* the settings of a charge period that the runs use
    AppCharges,     \* those of them that the app sets
    Initial,        \* the one that both periods start with
    Numbers,        \* the values of the number, as the user gives them
    Minimum, Maximum,   \* native_min_value, native_max_value
    NoValue,        \* None
    MaxCalls, MaxChanges, MaxFailures   \* bounds on calls, app changes, failing writes

Periods == {"first", "second"}
Slots   == Periods \cup {"number"}

Registers == 0 .. 65535

ASSUME ChargesAssumption ==
    /\ Charges \subseteq [start : Registers, end : Registers, grid : {0, 1}]
    /\ AppCharges \subseteq Charges /\ Initial \in Charges
ASSUME NumbersAssumption ==
    Numbers \subseteq Int /\ Minimum \in Int /\ Maximum \in Int /\ Minimum <= Maximum
ASSUME NoValueAssumption ==
    NoValue \notin Charges /\ NoValue \notin Int /\ NoValue \notin Periods
ASSUME BoundsAssumption ==
    MaxCalls \in Nat /\ MaxChanges \in Nat /\ MaxFailures \in Nat

Hours(value)   == value \div 256
Minutes(value) == value % 256

IsTimeValueValid(value) == Hours(value) \in 0 .. 23 /\ Minutes(value) \in 0 .. 59

ParseTimeValue(value) == [hour |-> Hours(value), minute |-> Minutes(value)]

SerializeTimeToValue(time) == time.hour * 256 + time.minute

(* A slip: a period is enabled if it does not start at midnight. *)
IsForceChargeEnabledAfterMidnight(charge) == charge.start > 0

IsForceChargeEnabled(charge) == charge.start > 0 \/ charge.end > 0

IsValid(charge) == IsTimeValueValid(charge.start) /\ IsTimeValueValid(charge.end)

(* What the schema of the services lets through. *)
Requests ==
    {charge \in Charges : /\ IsValid(charge)
                          /\ IsForceChargeEnabled(charge) => charge.start # charge.end}

VARIABLES
    settings,       \* what the inverter holds (external)
    readValue,      \* read_value
    written,        \* written_value, until the write delay is over
    calls,          \* the calls under way, in the order of the client's lock: FIFO
    poll,           \* what the poll under way has read
    pending,        \* _pending_value of the number
    shown,          \* the state of the number in Home Assistant
    remembered,     \* _last_enabled_value of the start and end of each period
    stored,         \* what the restore state file holds of it
    begun, changes, failures,
    used,           \* the slots that this behaviour sets (bound)
    known           \* what users and the app have set each period to (history)

controller == <<readValue, written>>
entities   == <<pending, shown, remembered>>
bounds     == <<begun, changes, failures, used>>
vars == <<settings, controller, calls, poll, entities, stored, bounds, known>>

(* read: a written value stands for the read one until the delay is over. *)
Read(slot) == IF written[slot] # NoValue THEN written[slot] ELSE readValue[slot]

(* A slip: only the upper bound. *)
ClampTop(value) == IF value > Maximum THEN Maximum ELSE value

Clamp(value) ==
    IF value < Minimum THEN Minimum ELSE IF value > Maximum THEN Maximum ELSE value

Nothing == [s \in Slots |-> NoValue]
Window(charge) == [start |-> charge.start, end |-> charge.end]

(* A call: the setting it is about, and the values it writes. *)
Call(slot, writes) == [asks |-> slot, writes |-> writes]

Init ==
    /\ settings = [s \in Slots |-> IF s \in Periods THEN Initial ELSE Minimum]
    /\ readValue = Nothing /\ written = Nothing
    /\ calls = <<>> /\ poll = Nothing
    /\ pending = NoValue /\ shown = NoValue
    /\ remembered = [p \in Periods |-> NoValue] /\ stored = remembered
    /\ begun = 0 /\ changes = 0 /\ failures = 0 /\ used \in {Periods, {"number"}}
    /\ known = [p \in Periods |-> {settings[p]}]

-------------------------------------------------------------------------------
(* What the entities do when they are told of new values; the values are    *)
(* those of the step that tells them.                                       *)

NativeValue == IF pending' # NoValue THEN pending' ELSE Read("number")'

(* A slip: each sensor looks at its own register only. *)
AddressUpdatedAlone(p) ==
    LET charge == Read(p)'
        last   == remembered[p]
    IN  IF charge = NoValue \/ ~IsValid(charge) \/ ~IsForceChargeEnabled(charge) THEN last
        ELSE IF last = NoValue THEN Window(charge)
        ELSE [start |-> IF charge.start > 0 THEN charge.start ELSE last.start,
              end   |-> IF charge.end > 0 THEN charge.end ELSE last.end]

(* The sensors of the start and of the end, which have the same condition. *)
AddressUpdated(p) ==
    LET charge == Read(p)'
    IN  IF charge # NoValue /\ IsValid(charge) /\ IsForceChargeEnabled(charge)
        THEN Window(charge) ELSE remembered[p]

NotifyUpdate(changed) ==
    /\ shown' = IF "number" \in changed THEN NativeValue ELSE shown
    /\ remembered' = [p \in Periods |->
                        IF p \in changed THEN AddressUpdated(p) ELSE remembered[p]]

-------------------------------------------------------------------------------
(* The services.                                                            *)

(* A period that is not enabled is written as midnight to midnight. *)
AsWritten(charge) ==
    LET time(t) == IF IsForceChargeEnabled(charge)
                   THEN SerializeTimeToValue(ParseTimeValue(t)) ELSE 0
    IN  [start |-> time(charge.start), end |-> time(charge.end), grid |-> charge.grid]

Starts(slot, writes) ==
    /\ DOMAIN writes = used
    /\ begun < MaxCalls /\ begun' = begun + 1
    /\ calls' = Append(calls, Call(slot, writes))

(* The other periods are those of this moment; if they are not available,   *)
(* or not valid, the service gives up.                                      *)
UpdateChargePeriod(p, charge) ==
    LET others == Periods \ {p}
    IN  /\ \A q \in others : Read(q) # NoValue /\ IsValid(Read(q))
        /\ Starts(p, [q \in Periods |-> AsWritten(IF q = p THEN charge ELSE Read(q))])
        /\ known' = [known EXCEPT ![p] = @ \cup {charge}]
        /\ UNCHANGED <<settings, controller, poll, entities, stored, changes, failures, used>>

UpdateAllChargePeriods(charges) ==
    /\ Starts(NoValue, [p \in Periods |-> AsWritten(charges[p])])
    /\ known' = [p \in Periods |-> known[p] \cup {charges[p]}]
    /\ UNCHANGED <<settings, controller, poll, entities, stored, changes, failures, used>>

(* A slip: the value is not shown before it is written. *)
SetNumberQuietly(value) ==
    /\ Starts("number", [s \in {"number"} |-> Clamp(value)])
    /\ UNCHANGED <<settings, controller, poll, entities, stored, changes, failures, used, known>>

(* async_set_native_value, up to the write. *)
SetNumber(value) ==
    /\ Starts("number", [s \in {"number"} |-> Clamp(value)])
    /\ pending' = Clamp(value)
    /\ shown' = NativeValue
    /\ UNCHANGED <<settings, controller, poll, remembered, stored, changes, failures, used, known>>

-------------------------------------------------------------------------------
(* The write of the call at the head of the queue.                          *)

Hold(writes) == [s \in Slots |-> IF s \in DOMAIN writes THEN writes[s] ELSE settings[s]]

(* A slip: only a write that succeeds ends the pending value. *)
ReturnsWhenWritten(failed) ==
    /\ calls # <<>> /\ calls' = Tail(calls)
    /\ pending' = IF Head(calls).asks = "number" /\ ~failed THEN NoValue ELSE pending

(* The call returns; a set number has no pending value any more. *)
Returns(failed) ==
    /\ calls # <<>> /\ calls' = Tail(calls)
    /\ pending' = IF Head(calls).asks = "number" THEN NoValue ELSE pending

WriteSucceeds ==
    /\ Returns(FALSE)
    /\ LET writes == Head(calls).writes
       IN  /\ settings' = Hold(writes)
           /\ written' = [s \in Slots |-> IF s \in DOMAIN writes THEN writes[s] ELSE written[s]]
           /\ NotifyUpdate(DOMAIN writes)
    /\ UNCHANGED <<readValue, poll, stored, bounds, known>>

(* Nobody is notified; the inverter may have taken the write all the same.  *)
WriteFails ==
    /\ failures < MaxFailures /\ failures' = failures + 1
    /\ Returns(TRUE)
    /\ settings' \in {settings, Hold(Head(calls).writes)}
    /\ UNCHANGED <<controller, poll, shown, remembered, stored, begun, changes, used, known>>

(* What was written at once is over at once. *)
WriteDelayEnds(slots) ==
    /\ \E s \in slots : written[s] # NoValue
    /\ written' = [s \in Slots |-> IF s \in slots THEN NoValue ELSE written[s]]
    /\ UNCHANGED <<settings, readValue, calls, poll, entities, stored, bounds, known>>

-------------------------------------------------------------------------------
(* The polls: what one has read is recorded when it ends.                   *)

PollReads ==
    /\ poll = Nothing
    /\ poll' = settings
    /\ UNCHANGED <<settings, controller, calls, entities, stored, bounds, known>>

PollSucceeds ==
    /\ poll # Nothing
    /\ poll' = Nothing
    /\ readValue' = poll
    /\ UNCHANGED <<written, pending>>
    /\ NotifyUpdate(Slots)
    /\ UNCHANGED <<settings, calls, stored, bounds, known>>

PollFails ==
    /\ poll # Nothing /\ failures < MaxFailures
    /\ poll' = Nothing /\ failures' = failures + 1
    /\ UNCHANGED <<settings, controller, calls, entities, stored, begun, changes, used, known>>

-------------------------------------------------------------------------------
(* Home Assistant saves what the sensors remember now and then; a restart   *)
(* keeps nothing else, and what was being written may have arrived.         *)

SaveStates ==
    /\ stored # remembered
    /\ stored' = remembered
    /\ UNCHANGED <<settings, controller, calls, poll, entities, bounds, known>>

Restart ==
    /\ failures < MaxFailures /\ failures' = failures + 1
    /\ \/ UNCHANGED settings
       \/ calls # <<>> /\ settings' = Hold(Head(calls).writes)
    /\ readValue' = Nothing /\ written' = Nothing /\ poll' = Nothing
    /\ calls' = <<>>
    /\ pending' = NoValue /\ shown' = NoValue
    /\ remembered' = stored
    /\ UNCHANGED <<stored, begun, changes, used, known>>

(* The FoxESS app sets a period, or the number (external). *)
AppChanges ==
    /\ changes < MaxChanges /\ changes' = changes + 1
    /\ \/ \E p \in Periods \cap used, charge \in AppCharges :
            /\ settings' = [settings EXCEPT ![p] = charge]
            /\ known' = [known EXCEPT ![p] = @ \cup {charge}]
       \/ \E value \in Numbers :
            /\ "number" \in used
            /\ settings' = [settings EXCEPT !["number"] = Clamp(value)]
            /\ UNCHANGED known
    /\ UNCHANGED <<controller, calls, poll, entities, stored, begun, failures, used>>

-------------------------------------------------------------------------------
Starting ==
    \/ \E p \in Periods, charge \in Requests : UpdateChargePeriod(p, charge)
    \/ \E charges \in [Periods -> Requests] : UpdateAllChargePeriods(charges)
    \/ \E value \in Numbers : SetNumber(value)

Next ==
    \/ Starting
    \/ WriteSucceeds \/ WriteFails
    \/ WriteDelayEnds(Periods) \/ WriteDelayEnds({"number"})
    \/ PollReads \/ PollSucceeds \/ PollFails
    \/ SaveStates \/ Restart
    \/ AppChanges

Spec == Init /\ [][Next]_vars

(* The timer polls, the line comes back, the client answers or gives up,    *)
(* and time passes.                                                         *)
FairSpec ==
    Spec /\ WF_vars(PollReads) /\ WF_vars(PollSucceeds) /\ WF_vars(WriteSucceeds \/ WriteFails)
         /\ WF_vars(WriteDelayEnds(Periods)) /\ WF_vars(WriteDelayEnds({"number"}))

-------------------------------------------------------------------------------
TypeOK ==
    /\ \A p \in Periods :
         /\ settings[p] \in Charges
         /\ {readValue[p], written[p], poll[p]} \subseteq Charges \cup {NoValue}
         /\ known[p] \subseteq Charges
    /\ settings["number"] \in Minimum .. Maximum
    /\ \A v \in {readValue["number"], written["number"], poll["number"], pending, shown} :
         v = NoValue \/ v \in Minimum .. Maximum
    /\ \A i \in DOMAIN calls : DOMAIN calls[i].writes \in {Periods, {"number"}}
    /\ begun \in 0 .. MaxCalls /\ changes \in 0 .. MaxChanges /\ failures \in 0 .. MaxFailures

(* However calls, polls, failures and the app interleave, the inverter      *)
(* never holds a charge period that nobody has set as such: a period is     *)
(* never torn, moved, disabled or enabled by an update of the other one,    *)
(* which reads it and writes it back (_update_charge_period,                *)
(* _set_charge_periods).  It may be an older one, see UpdatesOnePeriod.     *)
PeriodsWhole == \A p \in Periods : settings[p] \in known[p]

(* The start and the end that the sensors remember of a disabled period are *)
(* those of one period that was set, also when one end is midnight, after a *)
(* restart, and when the period went by disabled, invalid or half written   *)
(* (_address_updated, async_added_to_hass).                                 *)
RemembersWhole ==
    \A p \in Periods : \A w \in {remembered[p], stored[p]} :
      w # NoValue => \E charge \in known[p] :
                        IsForceChargeEnabled(charge) /\ w = Window(charge)

(* While one set of the number is under way, and none was before it, its    *)
(* value is what users see, whatever polls read meanwhile: the number does  *)
(* not jump back (async_set_native_value).                                  *)
ShowsPending ==
    used = {"number"} /\ begun = 1 /\ calls # <<>> => shown = calls[1].writes["number"]

(* Once the users and the app are done, the number shows what the inverter  *)
(* holds, and the sensors remember no other period than the one it holds    *)
(* enabled, although writes failed without telling anyone, polls recorded   *)
(* values from before a write, or Home Assistant was restarted.             *)
ShowsSettings ==
    <>[](/\ shown = settings["number"]
         /\ \A p \in Periods : IsValid(settings[p]) /\ IsForceChargeEnabled(settings[p])
                                 => remembered[p] = Window(settings[p]))

(* A call that updates one period leaves the other as it is ("Updates one   *)
(* of the two charge periods", services.yaml).                              *)
UpdatesOnePeriod ==
    [][\A p \in Periods :
         calls # <<>> /\ Head(calls).asks \in Periods \ {p} /\ WriteSucceeds
           => settings'[p] = settings[p]]_vars
================================================================================
