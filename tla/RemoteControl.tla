----------------------------- MODULE RemoteControl -----------------------------
(***************************************************************************)
(* RemoteControl: the manager behind "Force Charge" and "Force Discharge". *)
(* It updates the inverter's remote control registers from two sides: the  *)
(* user's set_mode, and the callbacks of the polls.  Each update is a      *)
(* handful of writes, and awaits every one of them, so that the updates    *)
(* interleave.                                                             *)
(*                                                                         *)
(* A task is a user's call of set_mode, or "callback", the one callback    *)
(* that _is_updating lets through.  pc says which register the task awaits *)
(* the write of, "idle" that it runs no update.  queue is the FIFO of the  *)
(* client's lock; what a task does between two writes belongs to the       *)
(* completion of the first.                                                *)
(*                                                                         *)
(* Of what the polls read, reading keeps the case _update_charge makes of  *)
(* it, and seen the work mode.  Powers are kept by their origin.           *)
(***************************************************************************)
EXTENDS Naturals, Sequences

CONSTANTS
    Users,          \* the calls of set_mode that may be under way at a time
    Readings,       \* what the polls may read, see below
    Tolerated,      \* _NUM_FAILED_POLLS_FOR_DISCONNECTION
    MaxChanges,     \* bound on what users and the FoxESS app change
    MaxFailures     \* bound on failing writes

ASSUME UsersAssumption == "callback" \notin Users
ASSUME BoundsAssumption ==
    Tolerated \in Nat \ {0} /\ MaxChanges \in Nat /\ MaxFailures \in Nat

Tasks     == Users \cup {"callback"}
Modes     == {"DISABLE", "FORCE_CHARGE", "FORCE_DISCHARGE"}
WorkModes == {"SELF_USE", "BACK_UP", "FEED_IN_FIRST"}
Steps     == {"idle", "work_mode", "timeout_set", "remote_enable", "active_power",
              "remote_disable", "work_mode_off"}

(* full: SoC at Max SoC, or the BMS takes less than 50 W.                   *)
(* dark: no PV voltage, or no battery power to go by.                       *)
(* sunny: PV and import compete, so import is controlled.                   *)
ASSUME ReadingsAssumption ==
    Readings \subseteq {"full", "dark", "sunny"} /\ "dark" \in Readings

(* What an update writes: the fallback work mode and the active power.      *)
Goal == [fallback : WorkModes \cup {"none"},
         power    : {"max", "zero", "tuned", "export", "none"}]

VARIABLES
    mode, prevMode,     \* _mode, _prev_mode
    enabled,            \* _remote_control_enabled
    importPower,        \* _current_import_power: "zero" or "tuned"
    pc, goal,           \* per task
    due,                \* became_connected runs, poll_complete is to follow it
    queue,
    connected, failedPolls,
    reading, seen,
    remote,             \* remote control: "off", "ours", or "theirs" (strategy periods)
    workMode, power,    \* the inverter's registers
    starved,            \* poll periods without a write of active_power, up to 2
    changes, failures,
    disturbed           \* a write failed, the watchdog fired or a reconnection forgot (history)

managerVars == <<mode, prevMode, enabled, importPower>>
taskVars    == <<pc, goal, due, queue>>
pollVars    == <<connected, failedPolls, reading, seen>>
inverter    == <<remote, workMode, power, starved>>
vars == <<managerVars, taskVars, pollVars, inverter, changes, failures, disturbed>>

(* The controller's connection, as ModbusController implements it. *)
Connection == INSTANCE Availability WITH available <- connected, failures <- failedPolls

Init ==
    /\ mode = "DISABLE" /\ prevMode = "DISABLE" /\ enabled = FALSE /\ importPower = "zero"
    /\ pc = [t \in Tasks |-> "idle"]
    /\ goal = [t \in Tasks |-> [fallback |-> "none", power |-> "none"]]
    /\ due = FALSE /\ queue = <<>>
    /\ Connection!Init
    /\ reading = "dark" /\ seen = "none"
    /\ remote \in {"off", "ours"} /\ workMode \in WorkModes /\ power = "none" /\ starved = 0
    /\ changes = 0 /\ failures = 0 /\ disturbed = (remote = "ours")

-------------------------------------------------------------------------------
(* An update of task t, from one await to the next.  m is the manager's     *)
(* state that the step has made so far; what the polls read and the mode    *)
(* are read primed, as the step that calls the update may have set them.    *)

Manager == [prev |-> prevMode, on |-> enabled, import |-> importPower, queue |-> queue]

(* t awaits a write, or ends its update. *)
Awaits(t, step, g, m) ==
    /\ pc' = [pc EXCEPT ![t] = step]
    /\ goal' = [goal EXCEPT ![t] = IF step = "idle" THEN [fallback |-> "none", power |-> "none"]
                                                    ELSE g]
    /\ queue' = IF step = "idle" THEN m.queue ELSE Append(m.queue, t)
    /\ prevMode' = m.prev /\ enabled' = m.on /\ importPower' = m.import

(* The flag is raised before the registers are written. *)
SwitchOn(t, g, m) ==
    Awaits(t, IF m.on THEN "active_power" ELSE "timeout_set", g, [m EXCEPT !.on = TRUE])

(* A slip: the fallback is only looked at when remote control is off. *)
EnableRemoteControlOnce(t, g, m) ==
    IF ~m.on /\ seen' # g.fallback THEN Awaits(t, "work_mode", g, m) ELSE SwitchOn(t, g, m)

EnableRemoteControl(t, g, m) ==
    IF seen' # g.fallback THEN Awaits(t, "work_mode", g, m) ELSE SwitchOn(t, g, m)

(* _prev_mode is set to the mode of this moment. *)
Finish(t, m) == Awaits(t, "idle", goal[t], [m EXCEPT !.prev = mode'])

(* A slip: updates without a fallback are not told apart. *)
SetFallbackAlways(t, g, m) ==
    IF g.fallback # seen' THEN Awaits(t, "work_mode_off", g, m) ELSE Finish(t, m)

SetFallback(t, g, m) ==
    IF g.fallback \notin {"none", seen'} THEN Awaits(t, "work_mode_off", g, m)
                                         ELSE Finish(t, m)

(* Slips: the flag stays up; a power of 0 is written instead.               *)
DisableKeepingFlag(t, g, m) ==
    IF m.on THEN Awaits(t, "remote_disable", g, m) ELSE SetFallback(t, g, m)
DisableByZeroPower(t, g, m) ==
    Awaits(t, "active_power", [g EXCEPT !.power = "zero"], [m EXCEPT !.on = FALSE])

DisableRemoteControl(t, g, m) ==
    IF m.on THEN Awaits(t, "remote_disable", g, [m EXCEPT !.on = FALSE])
            ELSE SetFallback(t, g, m)

(* Import starts at 0, and is then controlled: it may come out at 0 again.  *)
Charge(t, m) ==
    \/ /\ reading' = "full"
       /\ DisableRemoteControl(t, [fallback |-> "BACK_UP", power |-> "none"], m)
    \/ /\ reading' = "dark"
       /\ EnableRemoteControl(t, [fallback |-> "BACK_UP", power |-> "max"], m)
    \/ /\ reading' = "sunny"
       /\ \/ /\ m.prev # "FORCE_CHARGE"
             /\ EnableRemoteControl(t, [fallback |-> "BACK_UP", power |-> "zero"],
                                    [m EXCEPT !.import = "zero"])
          \/ /\ m.prev = "FORCE_CHARGE"
             /\ \E p \in {"zero", "tuned"} :
                  EnableRemoteControl(t, [fallback |-> "BACK_UP", power |-> p],
                                      [m EXCEPT !.import = p])

Update(t, m) ==
    \/ /\ ~connected'
       /\ Awaits(t, "idle", goal[t], [m EXCEPT !.prev = "DISABLE"])
    \/ /\ connected' /\ mode' = "DISABLE"
       /\ DisableRemoteControl(t, [fallback |-> "none", power |-> "none"], m)
    \/ /\ connected' /\ mode' = "FORCE_CHARGE"
       /\ Charge(t, m)
    \/ /\ connected' /\ mode' = "FORCE_DISCHARGE"
       /\ EnableRemoteControl(t, [fallback |-> "FEED_IN_FIRST", power |-> "export"], m)

-------------------------------------------------------------------------------
(* Who calls for updates.                                                   *)

SetMode(u, new) ==
    /\ pc[u] = "idle" /\ mode # new /\ changes < MaxChanges
    /\ mode' = new /\ changes' = changes + 1
    /\ UNCHANGED <<due, pollVars, inverter, failures, disturbed>>
    /\ Update(u, Manager)

(* A slip: _is_updating is not looked at. *)
CallbackAlways(m) == Update("callback", m)

(* A callback that finds another one updating returns at once. *)
Callback(m) ==
    \/ pc["callback"] = "idle" /\ Update("callback", m)
    \/ /\ pc["callback"] # "idle"
       /\ prevMode' = m.prev /\ enabled' = m.on
       /\ UNCHANGED <<importPower, pc, goal, queue>>

Starve == starved' = IF remote # "ours" THEN 0 ELSE IF starved < 2 THEN starved + 1 ELSE 2

(* A poll has ended, well or badly, and calls poll_complete_callback, after *)
(* became_connected_callback if it ended a disconnection.                   *)
PollEnds ==
    /\ ~due
    /\ \/ Connection!PollSucceeded /\ reading' \in Readings /\ seen' = workMode
       \/ Connection!PollFailed /\ UNCHANGED <<reading, seen>>
    /\ Starve
    /\ UNCHANGED <<mode, remote, workMode, power, changes, failures>>
    /\ LET became == ~connected /\ connected'
       IN  /\ due' = (became /\ pc["callback"] = "idle")
           /\ disturbed' = (disturbed \/ (became /\ enabled))
           /\ Callback([Manager EXCEPT !.on = enabled /\ ~became])

(* became_connected_callback has returned, so the same refresh goes on. *)
PollComplete ==
    /\ due /\ pc["callback"] = "idle"
    /\ due' = FALSE
    /\ UNCHANGED <<mode, pollVars, inverter, changes, failures, disturbed>>
    /\ Update("callback", Manager)

-------------------------------------------------------------------------------
(* The writes.                                                              *)

(* What the write of task t does to the inverter. *)
Applies(t) ==
    LET step == pc[t]
    IN  /\ remote' = CASE step = "remote_enable"  -> "ours"
                       [] step = "remote_disable" -> "off"
                       [] OTHER                   -> remote
        /\ workMode' = IF step \in {"work_mode", "work_mode_off"} THEN goal[t].fallback
                                                                  ELSE workMode
        /\ power' = IF step = "active_power" THEN goal[t].power ELSE power
        /\ starved' = IF step \in {"remote_enable", "active_power"} THEN 0 ELSE starved

WriteSucceeds(t) ==
    LET g == goal[t]
        m == [Manager EXCEPT !.queue = Tail(queue)]
    IN  /\ queue # <<>> /\ t = Head(queue)
        /\ Applies(t)
        /\ seen' = IF pc[t] \in {"work_mode", "work_mode_off"} THEN g.fallback ELSE seen
        /\ UNCHANGED <<mode, due, connected, failedPolls, reading, changes, failures, disturbed>>
        /\ \/ pc[t] = "work_mode" /\ SwitchOn(t, g, m)
           \/ pc[t] = "timeout_set" /\ Awaits(t, "remote_enable", g, m)
           \/ pc[t] = "remote_enable" /\ Awaits(t, "active_power", g, m)
           \/ pc[t] = "remote_disable" /\ SetFallback(t, g, m)
           \/ pc[t] \in {"active_power", "work_mode_off"} /\ Finish(t, m)

(* A slip: an exception leaves _is_updating set. *)
WriteFailsHanging(t) ==
    /\ queue # <<>> /\ t = Head(queue)
    /\ failures < MaxFailures /\ failures' = failures + 1
    /\ queue' = Tail(queue) /\ disturbed' = TRUE
    /\ UNCHANGED <<managerVars, pc, goal, due, pollVars, inverter, changes>>

(* HomeAssistantError ends the update, and the refresh if became_connected  *)
(* runs it; the inverter may have taken the write all the same.             *)
WriteFails(t) ==
    /\ queue # <<>> /\ t = Head(queue)
    /\ failures < MaxFailures /\ failures' = failures + 1
    /\ Applies(t) \/ UNCHANGED inverter
    /\ Awaits(t, "idle", goal[t], [Manager EXCEPT !.queue = Tail(queue)])
    /\ due' = (due /\ t # "callback")
    /\ disturbed' = TRUE
    /\ UNCHANGED <<mode, pollVars, changes>>

Write == \E t \in Tasks : WriteSucceeds(t) \/ WriteFails(t)

-------------------------------------------------------------------------------
(* The inverter (external).                                                 *)

(* timeout_set is two poll periods. *)
WatchdogFires ==
    /\ remote = "ours" /\ starved = 2
    /\ remote' = "off" /\ starved' = 0
    /\ disturbed' = TRUE
    /\ UNCHANGED <<managerVars, taskVars, pollVars, workMode, power, changes, failures>>

(* Strategy periods of the FoxESS app use the same register; the work mode  *)
(* is changed there, or by another entity.                                  *)
AppChanges ==
    /\ changes < MaxChanges /\ changes' = changes + 1
    /\ \/ remote = "off" /\ remote' = "theirs" /\ UNCHANGED workMode
       \/ remote = "theirs" /\ remote' = "off" /\ UNCHANGED workMode
       \/ workMode' \in WorkModes \ {workMode} /\ UNCHANGED remote
    /\ UNCHANGED <<managerVars, taskVars, pollVars, power, starved, failures, disturbed>>

-------------------------------------------------------------------------------
Next ==
    \/ \E u \in Users, new \in Modes : SetMode(u, new)
    \/ PollEnds
    \/ PollComplete
    \/ Write
    \/ WatchdogFires
    \/ AppChanges

Spec == Init /\ [][Next]_vars

(* The timer polls, the client answers or gives up, and the watchdog counts.*)
FairSpec ==
    Spec /\ WF_vars(PollEnds) /\ WF_vars(PollComplete) /\ WF_vars(Write)
         /\ WF_vars(WatchdogFires)

-------------------------------------------------------------------------------
TypeOK ==
    /\ mode \in Modes /\ prevMode \in Modes
    /\ enabled \in BOOLEAN /\ importPower \in {"zero", "tuned"}
    /\ pc \in [Tasks -> Steps] /\ goal \in [Tasks -> Goal]
    /\ due \in BOOLEAN /\ queue \in Seq(Tasks)
    /\ connected \in BOOLEAN /\ failedPolls \in 0 .. Tolerated
    /\ reading \in Readings /\ seen \in WorkModes \cup {"none"}
    /\ remote \in {"off", "ours", "theirs"} /\ workMode \in WorkModes
    /\ power \in {"max", "zero", "tuned", "export", "none"} /\ starved \in 0 .. 2
    /\ changes \in 0 .. MaxChanges /\ failures \in 0 .. MaxFailures
    /\ disturbed \in BOOLEAN

Quiet == \A t \in Tasks : pc[t] = "idle"

(* The tasks that run an update are the ones waiting for the client, each   *)
(* once: an update that never got its turn would keep _is_updating set and  *)
(* every later callback away.                                               *)
EveryUpdateWaits ==
    /\ {t \in Tasks : pc[t] # "idle"} = {queue[i] : i \in DOMAIN queue}
    /\ \A i, j \in DOMAIN queue : queue[i] = queue[j] => i = j

(* However set_mode and the callbacks interleave, the manager never takes   *)
(* remote control for enabled when it is off: as long as no write failed    *)
(* and the watchdog kept still, force charge is not lost                    *)
(* (_enable_remote_control, _disable_remote_control).                       *)
EnabledMeansOn == Quiet /\ ~disturbed /\ enabled => remote = "ours"

(* Updates end, so that _is_updating is released, also by failing writes    *)
(* and after a reconnection (poll_complete_callback).                       *)
UpdatesEnd == \A t \in Tasks : pc[t] # "idle" ~> pc[t] = "idle"

(* Once the user leaves the mode at Disable, remote control ends for good,  *)
(* whatever raced, failed or was forgotten: at the latest by the watchdog,  *)
(* which no update may keep feeding.                                        *)
DisableHonoured == <>[](mode = "DISABLE") => <>[](remote # "ours")

(* Once the user leaves the mode at Force Charge or Force Discharge, the    *)
(* work mode and the power settle on those of that mode, whatever raced,    *)
(* failed or was changed in the app meanwhile.                              *)
Engages ==
    /\ <>[](connected /\ mode = "FORCE_CHARGE" /\ reading = "dark")
         => <>[](enabled /\ workMode = "BACK_UP" /\ power = "max")
    /\ <>[](connected /\ mode = "FORCE_DISCHARGE")
         => <>[](enabled /\ workMode = "FEED_IN_FIRST" /\ power = "export")

(* Remote control that the manager enabled, and nobody forgot, is one it    *)
(* will disable ("only disable remote control if we previously enabled it.  *)
(* If we did have it enabled, but then restarted, then we just need to let  *)
(* the watchdog catch it", _disable_remote_control).                        *)
OnMeansEnabled == Quiet /\ ~disturbed /\ remote = "ours" => enabled
===============================================================================
