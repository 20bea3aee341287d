----------------------------- MODULE EntryLifecycle -----------------------------
(***************************************************************************)
(* EntryLifecycle: setting up, unloading and reloading the configuration   *)
(* entry, against the refreshes and service calls that are under way.      *)
(*                                                                         *)
(* Every setup makes a generation: a client, and one controller with its   *)
(* timer for each inverter at it.  Nothing ties what the controllers have  *)
(* begun to the entry: a refresh goes on after its timer is gone, and the  *)
(* client connects again for whoever asks.                                 *)
(*                                                                         *)
(* Home Assistant calls the listener for changed options of every setup    *)
(* that is not unloaded, each in a task of its own, and loads and unloads  *)
(* the entities of a platform once at a time (external).                   *)
(***************************************************************************)
EXTENDS Naturals, FiniteSets, Sequences, SequencesExt

CONSTANTS
    Inverters,      \* the inverters of the entry, all at one host
    Requests,       \* the requests that a refresh makes
    MaxSetups, MaxChanges, MaxCalls, MaxRefusals     \* bounds

ASSUME InvertersAssumption == {"service", "close"} \cap Inverters = {}
ASSUME BoundsAssumption ==
    /\ Requests \in Nat \ {0} /\ MaxSetups \in Nat \ {0}
    /\ MaxChanges \in Nat /\ MaxCalls \in Nat /\ MaxRefusals \in Nat

Generations == 1 .. MaxSetups

None == 0

VARIABLES
    setups,         \* the generations made so far are 1 .. setups
    timers,         \* the inverters that a generation polls regularly
    refreshes,      \* requests left to each refresh of a generation, 0 if there is none
    queue,          \* per generation, who waits for the client's lock: FIFO
    connected,      \* the generations whose client is connected
    current,        \* the generation that hass.data holds for the entry
    listeners,      \* the generations whose update listener is registered
    services,       \* the generation that the services were registered with
    platforms,      \* the generation that the entities belong to
    tasks,          \* the reloads and unloads under way
    changes, calls, refusals,
    calm,           \* no platform refused, no two tasks overlapped (history)
    closed,         \* generations whose client was closed (history)
    caught          \* ... with a request to come, or that were called later (history)

entry   == <<current, listeners, services, platforms>>
client  == <<queue, connected>>
polling == <<timers, refreshes>>
bounds  == <<changes, calls, refusals>>
vars == <<setups, polling, client, entry, tasks, bounds, calm, closed, caught>>

Task(pc, kind, gen) == [pc |-> pc, kind |-> kind, gen |-> gen]

Init ==
    /\ setups = 0
    /\ timers = [g \in Generations |-> {}]
    /\ refreshes = [g \in Generations |-> [i \in Inverters |-> 0]]
    /\ queue = [g \in Generations |-> <<>>] /\ connected = {}
    /\ current = None /\ listeners = {} /\ services = None /\ platforms = None
    /\ tasks = <<>>
    /\ changes = 0 /\ calls = 0 /\ refusals = 0
    /\ calm = TRUE /\ closed = {} /\ caught = {}

-------------------------------------------------------------------------------
(* async_setup_entry, up to its only await.  The services are registered    *)
(* anew, and hass.data is overwritten.                                      *)

(* A slip: services are only registered once. *)
SetupKeepingServices(registered) ==
    /\ setups < MaxSetups /\ setups' = setups + 1
    /\ timers' = [timers EXCEPT ![setups'] = Inverters]
    /\ current' = setups' /\ listeners' = registered \cup {setups'}
    /\ services' = IF services = None THEN setups' ELSE services

(* registered: the listeners that are left. *)
Setup(registered) ==
    /\ setups < MaxSetups /\ setups' = setups + 1
    /\ timers' = [timers EXCEPT ![setups'] = Inverters]
    /\ current' = setups' /\ listeners' = registered \cup {setups'}
    /\ services' = setups'

(* Home Assistant sets the entry up. *)
SetupEntry ==
    /\ current = None /\ tasks = <<>>
    /\ Setup(listeners)
    /\ tasks' = <<Task("forwarding", "setup", setups')>>
    /\ UNCHANGED <<refreshes, client, platforms, bounds, calm, closed, caught>>

(* The platforms create the entities, for the controllers that hass.data    *)
(* holds by now; they do so once.                                           *)
ForwardReturns(t) ==
    /\ tasks[t].pc = "forwarding"
    /\ platforms' = IF platforms = None THEN current ELSE platforms
    /\ tasks' = RemoveAt(tasks, t)
    /\ UNCHANGED <<setups, polling, client, current, listeners, services, bounds, calm, closed, caught>>

-------------------------------------------------------------------------------
(* Options are changed: every listener reloads.                             *)
OptionsChanged ==
    /\ listeners # {} /\ changes < MaxChanges /\ changes' = changes + 1
    /\ setups + Len(tasks) + Cardinality(listeners) <= MaxSetups
    /\ LET one == Task("unloading", "reload", None)
       IN  tasks' = tasks \o [l \in 1 .. Cardinality(listeners) |-> one]
    /\ calm' = (calm /\ tasks = <<>>)
    /\ UNCHANGED <<setups, polling, client, entry, calls, refusals, closed, caught>>

(* The user disables or removes the entry, and Home Assistant unloads it.   *)
UnloadEntry ==
    /\ current # None /\ changes < MaxChanges /\ changes' = changes + 1
    /\ \A t \in DOMAIN tasks : tasks[t].kind = "reload"
    /\ tasks' = Append(tasks, Task("unloading", "unload", None))
    /\ calm' = (calm /\ tasks = <<>>)
    /\ UNCHANGED <<setups, polling, client, entry, calls, refusals, closed, caught>>

(* What a task does when its unload has returned, successful or not: a      *)
(* reload goes on to set up.                                                *)
Proceeds(t, registered, remaining) ==
    \/ /\ tasks[t].kind = "reload"
       /\ Setup(registered)
       /\ tasks' = [tasks EXCEPT ![t] = Task("forwarding", "reload", setups')]
    \/ /\ tasks[t].kind = "unload"
       /\ tasks' = RemoveAt(tasks, t)
       /\ current' = remaining /\ listeners' = registered
       /\ UNCHANGED <<setups, timers, services>>

Waiting(g) == queue[g] # <<>> \/ \E i \in Inverters : refreshes[g][i] > 0

(* A slip: the timers are left running. *)
UnloadWithTimers(t) ==
    /\ queue' = [queue EXCEPT ![current] = Append(@, "close")]
    /\ tasks' = [tasks EXCEPT ![t] = Task("closing", @.kind, current)]
    /\ UNCHANGED timers

(* async_unload_entry, from the entities to the closing of the clients.     *)
Unload(t) ==
    /\ timers' = [timers EXCEPT ![current] = {}]
    /\ queue' = [queue EXCEPT ![current] = Append(@, "close")]
    /\ tasks' = [tasks EXCEPT ![t] = Task("closing", @.kind, current)]

PlatformsUnloaded(t) ==
    /\ tasks[t].pc = "unloading" /\ platforms # None
    /\ platforms' = None
    /\ \/ current # None /\ Unload(t)
       \/ /\ current = None             \* a KeyError ends the task
          /\ tasks' = RemoveAt(tasks, t)
          /\ UNCHANGED <<timers, queue>>
    /\ caught' = caught \cup {g \in {current} \ {None} : Waiting(g)}
    /\ UNCHANGED <<setups, refreshes, connected, current, listeners, services, bounds, calm, closed>>

(* A platform does not unload, or has nothing to unload because another     *)
(* task did.                                                                *)
PlatformsRefuse(t) ==
    /\ tasks[t].pc = "unloading"
    /\ \/ platforms = None /\ UNCHANGED refusals
       \/ platforms # None /\ refusals < MaxRefusals /\ refusals' = refusals + 1
    /\ calm' = FALSE
    /\ Proceeds(t, listeners, current)
    /\ UNCHANGED <<refreshes, client, platforms, changes, calls, closed, caught>>

(* The clients are closed: the listener and the data that hass.data holds   *)
(* by now are dropped.                                                      *)
ClosedReturns(t) ==
    \/ current # None /\ Proceeds(t, listeners \ {current}, None)
    \/ /\ current = None                \* a KeyError ends the task
       /\ tasks' = RemoveAt(tasks, t)
       /\ UNCHANGED <<setups, timers, current, listeners, services>>

-------------------------------------------------------------------------------
(* The timers and the services.                                             *)

(* A slip: refreshes go on without a timer. *)
RefreshAlways(g, i) ==
    /\ g <= setups /\ refreshes[g][i] = 0
    /\ refreshes' = [refreshes EXCEPT ![g][i] = Requests]
    /\ queue' = [queue EXCEPT ![g] = Append(@, i)]
    /\ UNCHANGED <<setups, timers, connected, entry, tasks, bounds, calm, closed, caught>>

Refresh(g, i) ==
    /\ i \in timers[g] /\ refreshes[g][i] = 0
    /\ refreshes' = [refreshes EXCEPT ![g][i] = Requests]
    /\ queue' = [queue EXCEPT ![g] = Append(@, i)]
    /\ UNCHANGED <<setups, timers, connected, entry, tasks, bounds, calm, closed, caught>>

(* A service is called, of the controllers it was registered with. *)
CallService ==
    /\ services # None /\ calls < MaxCalls /\ calls' = calls + 1
    /\ queue' = [queue EXCEPT ![services] = Append(@, "service")]
    /\ caught' = IF timers[services] = {} THEN caught \cup {services} ELSE caught
    /\ UNCHANGED <<setups, polling, connected, entry, tasks, changes, refusals, calm, closed>>

-------------------------------------------------------------------------------
(* _async_pymodbus_call of the one at the head of the queue.                *)

(* A slip: the request just made is not counted. *)
MoreRequestsAtLast(g, i) == i \in Inverters

(* A refresh goes on to its next request. *)
MoreRequests(g, i) == i \in Inverters /\ refreshes[g][i] > 1

(* A request connects the client first; a refresh queues again for its next *)
(* one.                                                                     *)
RequestSucceeds(g) ==
    /\ queue[g] # <<>> /\ Head(queue[g]) # "close"
    /\ connected' = connected \cup {g}
    /\ LET i == Head(queue[g])
       IN  /\ refreshes' = IF i \in Inverters THEN [refreshes EXCEPT ![g][i] = @ - 1]
                                              ELSE refreshes
           /\ queue' = [queue EXCEPT ![g] = IF MoreRequests(g, i) THEN Append(Tail(@), i)
                                                ELSE Tail(@)]
    /\ UNCHANGED <<setups, timers, entry, tasks, bounds, calm, closed, caught>>

(* It may also fail to connect, or connect and time out. *)
RequestFails(g) ==
    /\ queue[g] # <<>> /\ Head(queue[g]) # "close"
    /\ connected' \in {connected \cup {g}, connected \ {g}}
    /\ LET i == Head(queue[g])
       IN  refreshes' = IF i \in Inverters THEN [refreshes EXCEPT ![g][i] = 0] ELSE refreshes
    /\ queue' = [queue EXCEPT ![g] = Tail(@)]
    /\ UNCHANGED <<setups, timers, entry, tasks, bounds, calm, closed, caught>>

(* A slip: a client that is not connected never answers a close. *)
CloseConnected(g) ==
    /\ g \in connected
    /\ queue[g] # <<>> /\ Head(queue[g]) = "close"
    /\ queue' = [queue EXCEPT ![g] = Tail(@)]
    /\ connected' = connected \ {g} /\ closed' = closed \cup {g}
    /\ \E t \in DOMAIN tasks : tasks[t].pc = "closing" /\ tasks[t].gen = g /\ ClosedReturns(t)
    /\ UNCHANGED <<refreshes, platforms, bounds, calm, caught>>

Close(g) ==
    /\ queue[g] # <<>> /\ Head(queue[g]) = "close"
    /\ queue' = [queue EXCEPT ![g] = Tail(@)]
    /\ connected' = connected \ {g} /\ closed' = closed \cup {g}
    /\ \E t \in DOMAIN tasks : tasks[t].pc = "closing" /\ tasks[t].gen = g /\ ClosedReturns(t)
    /\ UNCHANGED <<refreshes, platforms, bounds, calm, caught>>

-------------------------------------------------------------------------------
Answer(g) == RequestSucceeds(g) \/ RequestFails(g) \/ Close(g)

Advance(t) == ForwardReturns(t) \/ PlatformsUnloaded(t) \/ PlatformsRefuse(t)

Next ==
    \/ SetupEntry \/ OptionsChanged \/ UnloadEntry
    \/ \E t \in DOMAIN tasks : Advance(t)
    \/ \E g \in Generations, i \in Inverters : Refresh(g, i)
    \/ CallService
    \/ \E g \in Generations : Answer(g)

Spec == Init /\ [][Next]_vars

(* Home Assistant answers, and the executor answers or gives up.            *)
FairSpec ==
    Spec /\ WF_vars(\E t \in DOMAIN tasks : Advance(t))
         /\ \A g \in Generations : WF_vars(Answer(g))

-------------------------------------------------------------------------------
TypeOK ==
    /\ setups \in 0 .. MaxSetups
    /\ timers \in [Generations -> SUBSET Inverters]
    /\ refreshes \in [Generations -> [Inverters -> 0 .. Requests]]
    /\ \A g \in Generations : Range(queue[g]) \subseteq Inverters \cup {"service", "close"}
    /\ {current, services, platforms} \subseteq 0 .. setups
    /\ connected \cup listeners \cup closed \cup caught \subseteq 1 .. setups
    /\ \A t \in DOMAIN tasks : /\ tasks[t].pc \in {"forwarding", "unloading", "closing"}
                               /\ tasks[t].kind \in {"setup", "reload", "unload"}
                               /\ tasks[t].gen \in 0 .. setups

(* As long as platforms unload and reloads do not overlap, nothing is left  *)
(* of an earlier generation: only the one that hass.data holds polls and    *)
(* listens for changed options, and once the entry is set up, entities and  *)
(* services are those of the one that polls (async_setup_entry,             *)
(* async_unload_entry).                                                     *)
OneGeneration ==
    calm => /\ \A g \in Generations : timers[g] # {} => g = current
            /\ listeners \subseteq {current}
            /\ tasks = <<>> => /\ platforms = current
                               /\ current # None => /\ timers[current] = Inverters
                                                    /\ listeners = {current}
                                                    /\ services = current

(* A client that was closed stays closed, unless a request was to come when *)
(* its generation was unloaded, or a service called it later: no timer that *)
(* outlives its client connects it again (async_unload_entry,               *)
(* _async_pymodbus_call).                                                   *)
ClosedStaysClosed == closed \cap connected \subseteq caught

(* Every reload and unload ends, however many reloads overlap, whatever     *)
(* requests fail and however busy the client is that is to be closed.       *)
TasksEnd == []<>(tasks = <<>>)

(* A generation that has lost its timers makes no more requests after a     *)
(* while, also if it was never closed.                                      *)
FallsSilent ==
    \A g \in Generations : <>[](timers[g] = {}) => <>[](queue[g] = <<>>)
===============================================================================
