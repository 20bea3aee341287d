--------------------------- MODULE ModbusController ---------------------------
(***************************************************************************)
(* ModbusController: the polling task of one inverter, the register values *)
(* it keeps for the entities, and what it tells them about the connection. *)
(*                                                                         *)
(* The event loop runs one handler at a time, so an action is what happens *)
(* between two awaits.  A poll awaits one Modbus request after the other;  *)
(* while it waits, entities come and go, the user writes registers and the *)
(* inverter changes.  ModbusClient's lock lets one request in at a time    *)
(* and its holder carries on, without awaiting again, to record the reply: *)
(* a request, its answer and what is recorded of it are one action.        *)
(*                                                                         *)
(* The inverter is external: link says whether it answers requests at all, *)
(* illegal which registers it answers with IllegalAddress, holds what its  *)
(* registers read, and accepted the values it has accepted but does not    *)
(* show yet.  budget bounds its changes and the writes.                    *)
(***************************************************************************)
EXTENDS ReadRanges

CONSTANTS
    Addresses,          \* the register addresses
    Values,             \* what a register can hold
    None,               \* Python's None
    Entities,           \* the entities that may listen
    AddressesOf,        \* their addresses
    PollTypeOf,         \* their register_poll_type
    Profile,            \* the special registers of the inverter's profile
    MaxRead,            \* max_read of the adapter
    FailedPollsForDisconnection,
    MaxChanges          \* bound on the changes of the environment

ASSUME AddressesAssumption ==
    Addresses \subseteq Nat /\ \A a, b \in Addresses : a .. b \subseteq Addresses
ASSUME ValuesAssumption == None \notin Values
ASSUME EntitiesAssumption ==
    /\ AddressesOf \in [Entities -> SUBSET Addresses]
    /\ PollTypeOf \in [Entities -> PollTypes]
ASSUME ProfileAssumption ==
    /\ Profile.invalid \subseteq Addresses
    /\ Profile.individual \subseteq Addresses
ASSUME MaxReadAssumption == MaxRead \in Nat \ {0}
ASSUME FailedPollsAssumption == FailedPollsForDisconnection \in Nat \ {0}
ASSUME MaxChangesAssumption == MaxChanges \in Nat

(* register_modbus_entity asserts both: nobody listens on a register that   *)
(* the profile declares invalid, and the entities that share a register     *)
(* agree on its poll type.                                                  *)
ASSUME ListenersAssumption ==
    \A e, f \in Entities :
      /\ AddressesOf[e] \cap Profile.invalid = {}
      /\ AddressesOf[e] \cap AddressesOf[f] # {} => PollTypeOf[e] = PollTypeOf[f]

VARIABLES
    listeners,      \* _update_listeners
    data,           \* _data: address -> [pollType, read, written, recent]
    detected,       \* _detected_invalid_ranges, as the set it stands for
    conn,           \* _connection_state
    failed,         \* _num_failed_poll_attempts
    error,          \* _current_connection_error is set
    issues,         \* Home Assistant's repair issues of this inverter, which outlive
                    \* the controller: see Init
    leftover,       \* connection_error was there at the start, and the controller has
                    \* not been disconnected since (history)
    shown,          \* the availability each entity last reported
    pc,             \* where the refresh task is; it holds _refresh_lock unless "idle"
    todo,           \* the poll's registers that no request was made for yet
    span,           \* the registers of a rejected request still to be read singly
    got,            \* read_values: the answers collected by the poll
    fresh,          \* registers recorded by the last successful poll (history)
    link, illegal, holds, accepted, budget

taskVars   == <<pc, todo, span, got>>
stateVars  == <<conn, failed, error, issues, leftover, shown, fresh>>
inverter   == <<illegal, holds, accepted, budget>>
vars == <<listeners, data, detected, stateVars, taskVars, link, inverter>>

RegisterValue == [pollType : PollTypes, read : Values \cup {None},
                  written : Values \cup {None}, recent : BOOLEAN]

EmptyFcn == [a \in {} |-> None]

(* A slip: the new dictionary replaces the old one. *)
Replace(f, g) == g

(* g wins where both are defined. *)
Override(f, g) ==
    [a \in DOMAIN f \cup DOMAIN g |-> IF a \in DOMAIN g THEN g[a] ELSE f[a]]

-------------------------------------------------------------------------------
(* What the entities ask of the controller.                                 *)

(* A slip: the state before the first poll counts as disconnected. *)
IsConnectedOnly == conn = "CONNECTED"

IsConnected == conn \in {"INITIAL", "CONNECTED"}

(* A slip: what was written is not looked at. *)
ReadPolled(a) == IF a \notin DOMAIN data THEN None ELSE data[a].read

(* A written value hides what the polls read for _INVERTER_WRITE_DELAY_SECS.*)
Read(a) ==
    IF a \notin DOMAIN data THEN None
    ELSE IF data[a].written # None /\ data[a].recent THEN data[a].written
    ELSE data[a].read

(* A slip: every register is read on connection only. *)
WantingOnConnection(isInitialConnection) ==
    IF isInitialConnection THEN DOMAIN data \ detected ELSE {}

Wanting(isInitialConnection) ==
    Wanted([a \in DOMAIN data |-> data[a].pollType], detected, isInitialConnection)

(* A slip: nobody is told. *)
AnnounceNothing(available) == shown

Announce(available) ==
    [e \in Entities |-> IF e \in listeners THEN available ELSE shown[e]]

(* A new controller takes back invalid_ranges, which an earlier one may     *)
(* have raised before a reload, but not connection_error.                   *)
Init ==
    /\ listeners = {} /\ data = EmptyFcn /\ detected = {}
    /\ conn = "INITIAL" /\ failed = 0 /\ error = FALSE
    /\ issues \in SUBSET {"connection_error"} /\ leftover = (issues # {})
    /\ shown = [e \in Entities |-> TRUE] /\ fresh = {}
    /\ pc = "idle" /\ todo = {} /\ span = {} /\ got = EmptyFcn
    /\ link \in BOOLEAN
    /\ illegal \in SUBSET Addresses /\ Profile.invalid \subseteq illegal
    /\ holds \in [Addresses -> Values] /\ accepted = [a \in Addresses |-> None]
    /\ budget = MaxChanges

-------------------------------------------------------------------------------
(* Entities come and go.                                                    *)

RegisterEntity(e) ==
    /\ e \notin listeners
    /\ listeners' = listeners \cup {e}
    /\ data' = Override([a \in AddressesOf[e] |->
                           [pollType |-> PollTypeOf[e], read |-> None,
                            written |-> None, recent |-> FALSE]], data)
    /\ shown' = [shown EXCEPT ![e] = IsConnected]
    /\ UNCHANGED <<detected, conn, failed, error, issues, leftover, fresh, taskVars, link, inverter>>

(* A slip: the entities that share a register are not looked at. *)
RemoveEntityAlone(e) ==
    /\ e \in listeners
    /\ listeners' = listeners \ {e}
    /\ data' = [a \in DOMAIN data \ AddressesOf[e] |-> data[a]]
    /\ UNCHANGED <<detected, stateVars, taskVars, link, inverter>>

RemoveEntity(e) ==
    /\ e \in listeners
    /\ listeners' = listeners \ {e}
    /\ LET others == UNION {AddressesOf[f] : f \in listeners'}
       IN  data' = [a \in DOMAIN data \ (AddressesOf[e] \ others) |-> data[a]]
    /\ UNCHANGED <<detected, stateVars, taskVars, link, inverter>>

-------------------------------------------------------------------------------
(* The refresh task.                                                        *)

(* The poll is over: it no longer needs its local variables. *)
LeavePoll(next) == pc' = next /\ todo' = {} /\ span' = {} /\ got' = EmptyFcn

(* A slip: both issues go by one id. *)
RaiseOverOther(found) ==
    issues' = IF found # {} THEN {"invalid_ranges"} ELSE issues

RaiseInvalidRanges(found) ==
    issues' = IF found # {} THEN issues \cup {"invalid_ranges"} ELSE issues

(* Every read succeeded: record the answers, all at once. *)
PollSucceeds(answers, found) ==
    /\ data' = [a \in DOMAIN data |->
                  IF a \in DOMAIN answers THEN [data[a] EXCEPT !.read = answers[a]]
                                          ELSE data[a]]
    /\ fresh' = DOMAIN answers
    /\ detected' = found
    /\ failed' = 0
    /\ conn' = "CONNECTED"
    /\ \/ /\ conn = "DISCONNECTED"
          /\ error' = FALSE
          /\ issues' = issues \ {"connection_error"}
          /\ shown' = Announce(TRUE)
          /\ LeavePoll("notifying")
       \/ /\ conn # "DISCONNECTED"
          /\ RaiseInvalidRanges(found)
          /\ LeavePoll("idle")
          /\ UNCHANGED <<error, shown>>
    /\ UNCHANGED leftover

(* A read failed otherwise than with IllegalAddress: nothing is recorded. *)
PollFails ==
    LET gaveUp == failed + 1 >= FailedPollsForDisconnection
        raised == IF gaveUp THEN {"connection_error"} ELSE {}
        found  == IF detected # {} THEN {"invalid_ranges"} ELSE {}
    IN  /\ LeavePoll("idle")
        /\ \/ /\ conn = "DISCONNECTED"
              /\ RaiseInvalidRanges(detected)
              /\ UNCHANGED <<conn, failed, error, leftover, shown>>
           \/ /\ conn # "DISCONNECTED"
              /\ failed' = failed + 1
              /\ conn' = IF gaveUp THEN "DISCONNECTED" ELSE conn
              /\ error' = IF gaveUp THEN TRUE ELSE error
              /\ issues' = issues \cup raised \cup found
              /\ leftover' = (leftover /\ ~gaveUp)
              /\ shown' = IF gaveUp THEN Announce(FALSE) ELSE shown
        /\ UNCHANGED <<data, detected, fresh>>

(* A slip: answers are recorded as they come in. *)
ProceedRecording(rest, answers, found) ==
    \/ /\ rest # {}
       /\ pc' = "reading" /\ todo' = rest /\ span' = {} /\ got' = answers
       /\ detected' = found
       /\ data' = [a \in DOMAIN data |->
                     IF a \in DOMAIN answers THEN [data[a] EXCEPT !.read = answers[a]]
                                             ELSE data[a]]
       /\ UNCHANGED stateVars
    \/ /\ rest = {}
       /\ PollSucceeds(answers, found)

(* Carry on with the rest of the poll, or finish it. *)
Proceed(rest, answers, found) ==
    \/ /\ rest # {}
       /\ pc' = "reading" /\ todo' = rest /\ span' = {} /\ got' = answers
       /\ detected' = found
       /\ UNCHANGED <<data, stateVars>>
    \/ /\ rest = {}
       /\ PollSucceeds(answers, found)

(* A slip: no polling once the connection was given up. *)
RefreshStartConnected ==
    /\ pc = "idle" /\ conn # "DISCONNECTED"
    /\ Proceed(Wanting(conn # "CONNECTED"), EmptyFcn, detected)
    /\ UNCHANGED <<listeners, link, inverter>>

(* The timer fires.  A tick that finds the lock taken returns at once.      *)
RefreshStart ==
    /\ pc = "idle"
    /\ Proceed(Wanting(conn # "CONNECTED"), EmptyFcn, detected)
    /\ UNCHANGED <<listeners, link, inverter>>

(* A slip: the profile is not looked at. *)
CurrentAnywhere == FirstRequest([invalid |-> {}, individual |-> {}], MaxRead, todo)

Current == FirstRequest(Profile, MaxRead, todo)

ReadRange ==
    /\ pc = "reading" /\ link
    /\ Covered(Current) \cap illegal = {}
    /\ Proceed(todo \ Covered(Current),
               Override(got, [a \in Covered(Current) |-> holds[a]]), detected)
    /\ UNCHANGED <<listeners, link, inverter>>

(* IllegalAddress: at least one register of the request is not to be read,  *)
(* so read them one by one.                                                 *)
ReadRangeIllegal ==
    /\ pc = "reading" /\ link
    /\ Covered(Current) \cap illegal # {}
    /\ pc' = "single"
    /\ span' = Covered(Current)
    /\ todo' = todo \ Covered(Current)
    /\ UNCHANGED <<listeners, data, detected, stateVars, got, link, inverter>>

ReadSingle ==
    /\ pc = "single" /\ link
    /\ LET a       == FirstOf(span)
           answers == Override(got, [x \in {a} |-> IF a \in illegal THEN None ELSE holds[a]])
           found   == IF a \in illegal THEN detected \cup {a} ELSE detected
       IN  \/ /\ span = {a}
              /\ Proceed(todo, answers, found)
           \/ /\ span # {a}
              /\ span' = span \ {a} /\ got' = answers /\ detected' = found
              /\ UNCHANGED <<data, stateVars, pc, todo>>
    /\ UNCHANGED <<listeners, link, inverter>>

(* A slip: the failure is swallowed. *)
RequestFailsQuietly ==
    /\ pc \in {"reading", "single"} /\ ~link
    /\ LeavePoll("idle")
    /\ UNCHANGED <<listeners, data, detected, stateVars, link, inverter>>

(* ConnectionException, a timeout, or any other error of the device. *)
RequestFails ==
    /\ pc \in {"reading", "single"} /\ ~link
    /\ PollFails
    /\ UNCHANGED <<listeners, link, inverter>>

(* A slip: the lock is not released when the manager raises. *)
BecameConnectedHangs == pc = "notifying" /\ UNCHANGED vars

(* The remote control manager returns from became_connected_callback; if a  *)
(* write of its failed, the exception ends the refresh there and then.      *)
BecameConnectedReturns ==
    /\ pc = "notifying"
    /\ pc' = "idle"
    /\ RaiseInvalidRanges(detected) \/ UNCHANGED issues
    /\ UNCHANGED <<listeners, data, detected, conn, failed, error, leftover, shown, fresh,
                   todo, span, got, link, inverter>>

-------------------------------------------------------------------------------
(* Writes, for the entities, the services and the remote control manager.   *)

WriteValues == {<<v>> : v \in Values} \cup (Values \X Values)

(* write_registers: the inverter accepts consecutive registers at once. The *)
(* ones that entities listen on remember what was written.                  *)
WriteRegisters(start, values) ==
    LET written == [a \in start .. start + Len(values) - 1 |-> values[a - start + 1]]
    IN  /\ budget > 0 /\ link
        /\ DOMAIN written \subseteq Addresses \ illegal
        /\ budget' = budget - 1
        /\ accepted' = Override(accepted, written)
        /\ \/ data' = [a \in DOMAIN data |->
                         IF a \in DOMAIN written
                         THEN [data[a] EXCEPT !.written = written[a], !.recent = TRUE]
                         ELSE data[a]]
           \/ UNCHANGED data       \* the reply was lost: HomeAssistantError
        /\ UNCHANGED <<listeners, detected, stateVars, taskVars, link, illegal, holds>>

(* _INVERTER_WRITE_DELAY_SECS have passed since the register was written,   *)
(* whether or not the inverter shows the value by now.                      *)
WriteDelayEnds(a) ==
    /\ a \in DOMAIN data /\ data[a].recent
    /\ data' = [data EXCEPT ![a].recent = FALSE]
    /\ UNCHANGED <<listeners, detected, stateVars, taskVars, link, inverter>>

-------------------------------------------------------------------------------
(* The inverter and the link (external).                                    *)

InverterApplies(a) ==
    /\ accepted[a] # None
    /\ holds' = [holds EXCEPT ![a] = accepted[a]]
    /\ accepted' = [accepted EXCEPT ![a] = None]
    /\ UNCHANGED <<listeners, data, detected, stateVars, taskVars, link, illegal, budget>>

InverterChanges ==
    /\ budget > 0 /\ budget' = budget - 1
    /\ \/ \E a \in Addresses, v \in Values :
            holds' = [holds EXCEPT ![a] = v] /\ UNCHANGED illegal
       \/ \E a \in Addresses :
            illegal' = illegal \cup {a} /\ UNCHANGED holds
    /\ UNCHANGED <<listeners, data, detected, stateVars, taskVars, link, accepted>>

LinkChanges ==
    /\ link' = ~link
    /\ UNCHANGED <<listeners, data, detected, stateVars, taskVars, inverter>>

-------------------------------------------------------------------------------
Refresh == RefreshStart \/ ReadRange \/ ReadRangeIllegal \/ ReadSingle
             \/ RequestFails \/ BecameConnectedReturns

Next ==
    \/ \E e \in Entities : RegisterEntity(e) \/ RemoveEntity(e)
    \/ Refresh
    \/ \E a \in Addresses, values \in WriteValues :
         WriteRegisters(a, values)
    \/ \E a \in Addresses : WriteDelayEnds(a) \/ InverterApplies(a)
    \/ InverterChanges
    \/ LinkChanges

Spec == Init /\ [][Next]_vars

(* The timer fires every poll_rate seconds, every request is answered or    *)
(* times out, time passes, and the inverter acts on what it accepted.       *)
FairSpec ==
    /\ Spec
    /\ WF_vars(Refresh)
    /\ \A a \in Addresses : WF_vars(WriteDelayEnds(a)) /\ WF_vars(InverterApplies(a))

-------------------------------------------------------------------------------
TypeOK ==
    /\ listeners \subseteq Entities
    /\ DOMAIN data \subseteq Addresses
    /\ data \in [DOMAIN data -> RegisterValue]
    /\ detected \subseteq Addresses
    /\ conn \in {"INITIAL", "CONNECTED", "DISCONNECTED"}
    /\ failed \in Nat
    /\ error \in BOOLEAN
    /\ issues \subseteq {"connection_error", "invalid_ranges"} /\ leftover \in BOOLEAN
    /\ shown \in [Entities -> BOOLEAN]
    /\ pc \in {"idle", "reading", "single", "notifying"}
    /\ todo \subseteq Addresses /\ span \subseteq Addresses
    /\ DOMAIN got \subseteq Addresses
    /\ got \in [DOMAIN got -> Values \cup {None}]
    /\ fresh \subseteq Addresses
    /\ link \in BOOLEAN /\ illegal \subseteq Addresses
    /\ holds \in [Addresses -> Values]
    /\ accepted \in [Addresses -> Values \cup {None}]
    /\ budget \in 0 .. MaxChanges

(* Registers that no entity listens on any more are forgotten, and none is  *)
(* forgotten while one of several entities sharing it still listens; a lost *)
(* register is never polled and its sensor never updates, a leaked one is   *)
(* polled for ever (register_modbus_entity, remove_modbus_entity).          *)
TracksListeners == DOMAIN data = UNION {AddressesOf[e] : e \in listeners}

(* The connection state, the failure counter, the error the status sensor   *)
(* shows and the repair issue change at different places of _refresh and    *)
(* tell the same story: a disconnected controller has its issue shown, and  *)
(* a controller that is not shows none but what an earlier one left, until  *)
(* its first reconnection takes that back too (_refresh, __init__).         *)
ConnectionConsistent ==
    /\ conn = "DISCONNECTED" <=> failed = FailedPollsForDisconnection
    /\ failed <= FailedPollsForDisconnection
    /\ conn = "DISCONNECTED" <=> error
    /\ "connection_error" \in issues <=> conn = "DISCONNECTED" \/ leftover
    /\ leftover => conn # "DISCONNECTED"

(* Every entity shows the availability that holds now, also one that was    *)
(* added, or removed and added again, while the connection was going up or  *)
(* down (_notify_is_connected_changed, available).                          *)
ShowsAvailability == \A e \in listeners : shown[e] = IsConnected

(* The values entities read come from one poll: a poll that failed half way *)
(* leaves no value behind ("ensuring that we don't record potentially       *)
(* inconsistent data", _refresh), whatever was registered, removed, written *)
(* or found invalid while it ran.  Registers polled only on connection and  *)
(* registers found invalid are left out.                                    *)
SnapshotConsistent ==
    \A a \in DOMAIN data \ detected :
      data[a].pollType = "PERIODICALLY" /\ data[a].read # None => a \in fresh

(* Every request a poll makes is one the adapter and the inverter take,     *)
(* whichever entities came and went since the poll was planned: not longer  *)
(* than max_read, over no register the profile declares invalid, and with   *)
(* individually read registers on their own (_create_read_ranges).          *)
RequestAdmissible ==
    pc = "reading" => AdmissibleRequest(Profile, MaxRead, todo, Current)

(* Within the delay of a write, no poll changes what entities read, not     *)
(* even one that read the register before it was written (read).            *)
WriteOutlivesPoll ==
    [][Refresh => \A a \in DOMAIN data : data[a].recent => Read(a)' = Read(a)]_vars

(* The availability the controller reports is the promised one.             *)
Promise == INSTANCE Availability WITH
    Tolerated <- FailedPollsForDisconnection,
    available <- IsConnected,
    failures  <- failed
KeepsPromise == Promise!Spec

(* A refresh never holds its lock for ever: every later tick would be       *)
(* dropped.                                                                 *)
RefreshEnds == pc # "idle" ~> pc = "idle"

(* A link that answers again makes the controller connected for good.       *)
ComesBack == <>[]link => <>[](conn = "CONNECTED")

(* A dead link is noticed as long as there is a register to poll.  With     *)
(* none (no entities, or all registers found invalid) a poll makes no       *)
(* request and succeeds.                                                    *)
GoesAway == <>[](~link /\ Wanting(FALSE) # {}) => <>[](conn = "DISCONNECTED")

(* Once writes and changes have stopped, a polled register reads what the   *)
(* inverter holds, whatever write delay or poll was under way.              *)
Polled(a) == /\ a \in DOMAIN data /\ a \notin detected
             /\ data[a].pollType = "PERIODICALLY"
Converges ==
    \A a \in Addresses :
      <>[](link /\ Polled(a)) => <>[](Polled(a) => Read(a) = holds[a])
===============================================================================
