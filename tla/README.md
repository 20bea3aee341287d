# A verification development for foxess_modbus

`foxess_modbus` is a Home Assistant integration that polls FoxESS inverters over
Modbus, shows their registers as entities and writes settings back. This directory
holds TLA+ models of it, the TLC runs that check them and TLAPS proofs about them.
`src/...` paths are relative to the repository; `FM` stands for
`custom_components/foxess_modbus`.

All handlers run on one asyncio event loop. What makes the system hard is therefore
not parallel memory access but *awaits*: a poll awaits dozens of requests, an update of
the remote control registers up to four writes, a reload the closing of its clients, and
between any two of them other handlers run. The adapters are slow and unreliable,
inverters reject registers they do not have, and they show a written value only after a
while. What makes it large is the number of inverters: some twenty-five models with their
firmware versions, each with a register map of its own, spread over hundreds of lists.

## Inventory

| Component | State | Operations | Interacts with | What is hard |
|---|---|---|---|---|
| Read planning (`FM/modbus_controller.py` `_create_read_ranges`) | none | cut the wanted registers into requests | the profile's special registers, the detected registers, the adapter's `max_read` | gaps, limits and individual reads in one condition |
| Detected invalid registers (`InvalidRegisterRanges`) | list of ranges | `add`, `in` | read planning, the issue shown | merging of ranges, re-adding |
| Controller (`ModbusController`) | values per register, listeners, connection state, failure counter, refresh lock | `_refresh`, `register/remove_modbus_entity`, `read`, `write_registers` | client, entities (callbacks), remote control manager (callbacks), issue registry | polls interleaved with everything else, failing half way, stale reads after writes |
| Remote control manager (`FM/remote_control_manager.py`) | mode, previous mode, enabled flag, import power | `set_mode`, `poll_complete_callback`, `became_connected_callback` | controller, inverter watchdog | two sides updating the same registers, a flag that runs ahead of its writes |
| Modbus client (`FM/client/modbus_client.py`) | lock, connection | reads, writes, `close` | executor, pymodbus | FIFO order, reconnecting on demand, also after `close` |
| Entry life cycle (`FM/__init__.py`) | clients, controllers, listener and services of an entry | setup, unload, reload, migration | all of the above, Home Assistant | unloading while refreshes and other reloads are under way; entries of six older versions |
| Charge period service (`FM/services/update_charge_period_service.py`) | none | read all periods, replace one, write all | controller | periods that change between the read and the write |
| Number and select entities (`FM/entities/modbus_number.py`, `modbus_select.py`, ...) | pending value | set | controller | a poll or a second set during a slow write |
| Charge period entities (`FM/entities/modbus_charge_period_sensors.py`) | last enabled values | update callback, restore | controller | two sensors that must remember one period |
| Sensors (`FM/entities/modbus_sensor.py`, ...) | last rounded value | update callback | controller | numbers over two registers; sensors computed from others |
| Profiles and versions (`FM/inverter_profiles.py`) | none | choose the register map of a firmware version | entity factory | order of versions with `None` as the latest |
| Entity descriptions (`FM/entities/entity_descriptions.py`, ...) | none | which entity is where on which inverter | profiles, planning, energy dashboard | consistency of hundreds of lists |
| Adapters (`FM/inverter_adapters.py`) | none | connection, protocols, `max_read` | planning, configuration flow | - |
| Configuration flow (`FM/flow/`) | the dialogue, the inverters collected | set-up, options | adapters, detection, the entry | stale lists, several tabs, forms that outlive what they show |
| Register services, transports | none | - | controller | argument checks, I/O |

What makes each correct:

- *Read planning*: every wanted register in exactly one request, no request too long,
  none over a register known to be invalid, individual reads alone, few requests.
- *Detected registers*: the list stands for what was added, no more and no less.
- *Controller*: values from one poll at a time; availability, issues, error and state
  agree; a few failed polls are tolerated, the last tolerated one is not; written values
  are not overtaken by polls; the polling task survives everything.
- *Remote control*: the flag tells the truth about the inverter; *Disable* ends remote
  control; the modes settle on their work mode and power; updates end.
- *Settings*: no charge period that nobody has set, none remembered that never was; what
  the user sees while a write is under way; in the end what the inverter holds.
- *Entry life cycle*: one generation of controllers at work; what is unloaded falls
  silent; reloads end.
- *Entities*: no two entities of one id, no source missing, no register claimed twice
  with two meanings, no number torn between two requests.
- *Configuration*: inverters stay distinct and keep their identity; saving one thing does
  not undo another; no migration loses an inverter.

`PROJECT.json` lists the hazards, each at its line.

## Modules

| Module | Models | Used by |
|---|---|---|
| `ReadRanges` | operators: one turn of the loop of `_create_read_ranges`, and the same plan one request at a time | `ReadPlanning`, `ModbusController` |
| `ReadPlanning` | planning of one poll, a register per step, for every small controller | `InverterPlanning` |
| `InverterModels` | an inverter as the descriptions see it: `Inv`, register types, specifications of addresses, the factory's choice among them | `EntityDescriptions` |
| `InverterProfiles` | profiles of the models, special registers, `get_inv_for_version` | `InverterPlanning`, `Configuration` |
| `InverterAdapters` | the adapters | `InverterPlanning`, `Configuration` |
| `EntityDescriptions` | every entity with its registers on every inverter | `InverterPlanning` |
| `InverterPlanning`, `MCReadPlanning` | composition: the plan of every inverter that can be configured, with the registers its entities listen on | - |
| `InvalidRegisterRanges`, `MCInvalidRegisterRanges` | the list of detected ranges | - |
| `Availability` | abstract: what users are promised about a flaky connection | `ModbusController` (refined), `RemoteControl` (composed) |
| `ModbusController`, `MCModbusController` | the polling task, the values, the entities, writes | - |
| `RemoteControl`, `MCRemoteControl` | the remote control manager, its tasks and their writes | - |
| `Settings`, `MCSettings` | charge period services, charge period sensors, the number entity | - |
| `EntryLifecycle`, `MCEntryLifecycle` | setup, unload and reload against refreshes and service calls | - |
| `Configuration`, `MCConfiguration` | set-up, options dialogues, migration | - |
| `ReadRangesProofs`, `ReadPlanningProofs`, `InvalidRegisterRangesProofs`, `ModbusControllerProofs`, `RemoteControlProofs`, `SettingsProofs`, `EntryLifecycleProofs`, `ConfigurationProofs` | proofs | - |

Definitions called a *slip* in their comment are wrong on purpose: each replaces the
definition after it with one that a plausible mistake would give, and shows that a
property notices. No specification uses them.

### ReadRanges and ReadPlanning

A register is its address, a profile the sets of its invalid and individually read
registers. `Visit` is one turn of the source's loop, and `VisitRegister` takes one with
the lowest register of `todo`; `growing` holds the loop's local variables and what it has
yielded. (The source resumes its generator between the reads of a poll; the header of
`ReadRanges` says why that makes no difference.) `ReadPlanning` picks every
configuration of five registers (unused, periodic, on connection, detected; plain,
individual, invalid) and `max_read` of 1, 3 and 4, and holds the finished plan against
properties that do not know the loop. `StepwisePlan` says that taking `FirstRequest` of
what is left until nothing is left gives the same plan: that is what `ModbusController`
steps through. `LeanPlan` has three parts: `FewestRequests` compares the plan with every
way of cutting the registers; `AsLargeAsItCanBe` holds the loop to its comment ("just
makes each read as large as it can be"): no request could have reached to the start of
the next; `WholeUnlessFull` says that two adjacent registers that may be joined, as
those of one number, are read by different requests only where the first is full. All
four are also proved, for any registers, profile and `max_read`.

The comment in `_create_read_ranges` lists groupings "we want to achieve". Three of them
are evaluated as `CommentExamples`. The second and third (`1,2 / 5,6,7,8`) are not what
the greedy loop gives (it reads 1-5 and 6-8), in as many requests; the comment announces
"a fairly simple algorithm", so this is not listed as a finding.

### The inverters: InverterModels, InverterProfiles, InverterAdapters, EntityDescriptions, InverterPlanning

The members of the source's `Inv` flag are strings and a flag is a set of them. A
description is a record: platform, key, the specifications of its addresses (`specs`),
those of other registers it listens on (`also`), the sensors it is computed from
(`needs`), scale, sign, whether its registers are joined to one number, and poll type.
`EntityDescriptions` has one set per group of the source's generators; names, units,
icons and validation are left out. `Devices` are the inverters that can be configured:
each model over each connection, with each firmware version that the options offer.
`Listened` is what `register_modbus_entity` makes of their entities' registers, and a
device is then planned as the small controllers are, for each `max_read` of an adapter
of its connection.

The properties are about the tables together: `EntitiesComplete` (ids, sources, the
energy dashboard), `RegistersAgree` (one specification per inverter, only valid
registers, the order of the two words of a number, one meaning per register),
`WholeValues` (a number is read by one request on adapters that read 100 registers) and
`VersionsRoundTrip` (a version that is offered selects what the profile lists for it).

### InvalidRegisterRanges

`Add` looks at the ranges in order; the first that holds the register or ends just below
it decides. As registers can be added again (see *Known behaviour*), the ranges may come
to overlap; `Represents` holds all the same, and is proved.

### ModbusController

| Model | Code |
|---|---|
| `listeners`, `data`, `detected`, `conn`, `failed`, `error` | `_update_listeners`, `_data`, `_detected_invalid_ranges` (as a set), `_connection_state`, `_num_failed_poll_attempts`, `_current_connection_error` |
| `issues`, `shown` | the issue registry, which belongs to Home Assistant and outlives the controller; the availability each entity last reported |
| `pc`, `todo`, `span`, `got` | the refresh task: not running / awaiting a request / awaiting a single read after IllegalAddress / awaiting the manager; registers left; registers of the rejected request; `read_values` |
| `fresh` | history: the registers recorded by the last successful poll |
| `leftover` | history: an issue `connection_error` of an earlier controller is still there |
| `link`, `illegal`, `holds`, `accepted`, `budget` | the inverter and the line (external) |
| `RegisterEntity`, `RemoveEntity` | `register_modbus_entity`, `remove_modbus_entity` |
| `RefreshStart` | a tick that gets the lock, up to the first request; a tick that does not is a stuttering step |
| `ReadRange`, `ReadRangeIllegal`, `ReadSingle`, `RequestFails` | a request of `_read_all_registers` and its outcome |
| `PollSucceeds`, `PollFails` | the rest of `_refresh`, part of the step that ended the poll |
| `BecameConnectedReturns` | the await of the manager in `_notify_is_connected_changed`, with or without an exception |
| `WriteRegisters`, `WriteDelayEnds`, `Read` | `write_registers`, the passing of `_INVERTER_WRITE_DELAY_SECS`, `read` |

A request, its answer and what is recorded of it are one step: the client's lock lets one
request in, and its holder continues without another await to record the reply. Requests
and entity changes interleave freely between steps. `listeners` on invalid registers are
excluded by the assertions of `register_modbus_entity`, stated as `ListenersAssumption`;
`RegistersAgree` checks that no description violates them. The inverter rejects at least
the registers that the profile declares invalid.

A controller starts with or without a `connection_error` issue: `__init__` takes back
only `invalid_ranges`, and unloading takes back nothing. The first successful poll of a
controller leaves it there too (see *Known behaviour*), so `ConnectionConsistent`
says that the issue is shown exactly while the inverter is disconnected *or* while one
that was found at the start has not been taken back by a first reconnection.

Simplified: a register holds one value (how two are joined is left out), an update
callback never raises, and a write that the inverter rejects changes nothing. What
`poll_complete_callback` does after a refresh is `RemoteControl`'s; here it appears as
writes at any time.

### RemoteControl

A task is one call of `set_mode` or the one callback that `_is_updating` lets through.
`pc` is the write it awaits, `queue` the FIFO of the client's lock; the code between two
writes is part of the completion of the first, so each action is one stretch between
awaits. `Update` and its helpers follow `_update`, `_update_charge`,
`_update_discharge`, `_enable_remote_control` and `_disable_remote_control`; they take
the manager's state made so far (`m`) and prime what the caller may have changed. What
the polls read is the case that `_update_charge` makes of it (`reading`) and the work
mode (`seen`); powers are kept by their origin: the maximum, 0, regulated, or export. The
connection is `Availability`, which `ModbusController` is proved to implement.
`PollComplete` is a step of its own, which lets other tasks run between
`became_connected_callback` and `poll_complete_callback`: more than the event loop does.
The watchdog and the FoxESS app are external.

### Settings

| Model | Code |
|---|---|
| `readValue`, `written`, `Read` | `RegisterValue` and `read`: a written value stands for the read one for 5 seconds |
| `calls` | the calls waiting for the client's lock, with the values they will write |
| `UpdateChargePeriod`, `UpdateAllChargePeriods` | the services, up to the await of their write |
| `SetNumber`, `Returns`, `pending`, `shown` | `async_set_native_value`, its `finally`, `_pending_value`, the state users see |
| `WriteSucceeds`, `WriteFails` | the write: recorded and notified, or not (the inverter may have taken it) |
| `PollReads`, `PollSucceeds`, `PollFails` | the read of the registers, and the recording at the end of the poll |
| `AddressUpdated`, `remembered`, `stored`, `SaveStates`, `Restart` | `_address_updated`, `_last_enabled_value`, the restore state of Home Assistant |
| `known` | history: what users and the app have set each period to |

Between the read of a poll and its recording any number of calls may run, as between the
read of the other period and the write of both. Times are kept as the 16-bit registers
that hold them, and converted as the source does, so that invalid ones occur. The three
registers of a period are read and recorded together: they are next to each other, in
one request, unless the adapter reads 8 at once.

### EntryLifecycle

Each setup makes a *generation*: a client and controllers with their timers. `tasks` are
the setups, reloads and unloads under way, at their awaits: the forwarding to the
platforms, the unloading of the platforms, the closing of the clients. Between them,
`hass.data` may have been overwritten or dropped, and the code goes on with what it
finds: a `KeyError` ends the task. The queue of the client holds refreshes, service calls
and closings; whatever comes after a closing connects the client again. Home Assistant's
part (calling every listener that is left, refusing to unload what is not loaded) is
external.

### Configuration

One module for the two dialogues, the segment they share and the migration, since all
write the entry. A dialogue is its step, its draft and the list of other inverters it
compares with; what a form would show is what its step allows. A host stands for
`host:port` or for a serial device, and the detection gives the model that is attached
to it, or fails. `CombinedConfig` lays options over data as the source does; the options
are kept in three parts (what a detection writes, the version, the advanced settings),
which are the keys that the three branches of the options dialogue write. `Migrated`
applies the migrations from a version on; `OldEntries` are entries that version may have
saved.

Entries of older versions come with options too. Version 1 had common ones, which its
migration hands to each inverter it finds (it finds none, see *Findings*). What the
dialogues of versions 2 to 6 saved is not in the repository; they are taken to save what
this version's do, in the form of their version: a type of connection in capitals before
version 6, a prefix from version 4 on, no unique id (`OldOptions`). Migrations leave these
options as they are (`new_options` stays `UNDEFINED`), and `Laid` lays them over data that
was migrated. `TypeOK` therefore says what each of the two may hold, and what an
inverter's configuration may still hold of an older version: a type in capitals until the
adapter is changed, and the prefix as it was before version 7 for good. Where a saved
dialogue changed the connection, inverters are taken to have been apart with the options
laid over the data, as that version's check for duplicates saw them.

## Runs

| Run | Bounds | What it shows |
|---|---|---|
| `read_planning` | 5 registers, `max_read` 1, 3, 4; all models, connections, versions and adapters: 956,695 states | the plan is right, and the stepwise plan is the loop's; the tables agree |
| `invalid_ranges` | 6 neighbouring registers | the list stands for what was added |
| `controller` | 4 registers (one invalid), 3 entities with one shared register, 2 failed polls, 1 change or write | safety of polling and the refinement of `Availability` |
| `controller_liveness` | 2 registers, 1 entity, 2 values, 2 failed polls, 1 change or write | polls end, connection is noticed, values converge, writes outlive polls |
| `remote_control` | 1 user, 1 failed poll, 3 changes, 1 failing write | the flag and the queue under every interleaving |
| `remote_control_liveness` | 2 changes, 2 failed polls, without regulated import | updates end, Disable is honoured, modes engage |
| `settings` | 4 charges (from midnight, in the morning, disabled, invalid), 2 calls, 1 change by the app, 1 failure or restart | periods are never torn, entities converge |
| `lifecycle` | 1 inverter, 2 requests to a refresh, 4 setups, 2 changes, 1 service call, 1 refusing platform | one generation at work, unloaded ones fall silent, reloads end |
| `configuration` | 2 inverters, 2 hosts with models of different versions, 2 adapters, names that collide as prefixes, 2 tabs opened twice in all; entries of versions 1 to 6 with and without options, of protocol `tcp` | inverters stay distinct and keep their identity |
| `disable_overtaken`, `updates_one_period`, `migrate_v1` | as above, smaller | findings, see below |

Why the bounds are enough. Five registers hold two requests with a gap, an individual
read and a register on each side; the inverters themselves are not bounded at all. Two
failed polls distinguish "failing" from "given up" as five do, as the code only compares
with the limit; three entities cover sharing, removal and a register polled on connection
only; one write or change, at any moment of a poll, is what the races of a poll need,
since two polls are never under way at once.

In `RemoteControl`, a user and the callback are the two sides that interleave; three
changes let the user enable, disable and enable again. The safety run gives the connection
up with the first failed poll, the liveness run tolerates one. The manager never sees how
many polls have failed: every poll calls it back, with the old readings when it failed,
and what differs after a failure is only whether the next success counts as reconnecting.

In `Settings`, two calls are what overlaps; a third would wait behind them. The periods
and the number share no register, so a behaviour sets one or the other. The registers of
both periods are polled, written and expire together. The proofs do without these bounds.

In `EntryLifecycle`, two changes may be two overlapping reloads, or a reload and an
unload; each may have to reload several generations after a refusal, so up to four
setups occur; a refresh of two requests can be caught between them. Controllers at one
host share a client and differ in nothing else, so one is enough. In `Configuration` two
inverters can collide and two tabs can overlap; old entries are those of network adapters,
since the migration treats serial ones alike, except that version 1 infers the adapter.
`OldProtocols` bounds the types of connection in old entries and their options to `tcp`
(in capitals where they were); the other types go through the same branches, and the proofs
cover them all.

Deadlock is not checked in the runs of the planning (it plans once and stops), of the
controller, the settings, the life cycle and the configuration (calls, changes, setups and
openings are bounded, and with them used up a behaviour may come to rest). It is checked
in the others.

### Fairness

`ModbusController!FairSpec`: `Refresh` is weakly fair because the timer fires every poll
period and every request is answered or times out; `WriteDelayEnds` because time passes;
`InverterApplies` because the inverter acts on what it accepted (external). Nothing is
assumed about the link, the user or the entities. `RemoteControl!FairSpec`: polls end and
call back, the client answers or gives up on the write at the head of its queue, and the
watchdog counts. Users and the app owe nothing. `Settings!FairSpec`: the timer polls, the
client answers or gives up, and the write delay passes; polls succeed again after the
failures that the bound allows, which is what `ShowsSettings` speaks of.
`EntryLifecycle!FairSpec`: Home Assistant loads and unloads platforms, and each client
answers the head of its queue; a timer need not fire.

### Findings

| Run | Finding |
|---|---|
| `disable_overtaken` | a disable between the flag and the write of 1 is overtaken: remote control stays on, and the manager does not know |
| `updates_one_period` | the update of one charge period writes the other one back as it was when the call began, over what an overlapping call or the app has set |
| `migrate_v1` | the migration of version 1 looks for `tcp`, `udp` and `serial` where the entry says `TCP`, `UDP` and `SERIAL`: the inverters are gone |

### Known behaviour

What the models do because the code does, where nothing in the repository says otherwise
clearly enough for a finding:

- A register found invalid is not polled for itself, but a request for its neighbours
  still stretches over it (`FM/modbus_controller.py:470`): each poll repeats the rejected
  request and the single reads. When the poll that found it fails later, its `None` is
  dropped with the poll (line 556) and its entity keeps the last value.
- After a reload while disconnected, the first successful poll goes from `INITIAL` to
  `CONNECTED` without deleting the issue that the controller before raised
  (`FM/modbus_controller.py:353`): "Error connecting to inverter" stays next to a healthy
  connection until the inverter has been disconnected and connected again.
- Version 7 makes the prefixes in the data valid "once and for all" (`FM/__init__.py:240`),
  but not those in saved options, which stay in use (lines 250 and 91-102); this rests on
  what the dialogues of older versions are taken to have saved.
- On adapters that read 20 or 8 registers at once, requests end between the two
  registers of some numbers (line 481), which is why `WholeValues` is about the others.
- The remote control flag says that enabling was begun: if it failed, a later disable
  still writes 0, and may end a strategy period of the inverter. Likewise, the flag stays
  up when a write fails or the watchdog fires first, and remote control is then not
  enabled again before the inverter has been disconnected or the flag cleared:
  `EnabledMeansOn` excludes behaviours in which that happened. Import may be regulated on
  values read before the cycle with 0 import.
- When two sets of a number overlap, the end of the first shows the polled value until
  the second ends (`FM/entities/modbus_number.py:139`); `ShowsPending` is about one.
- A refresh or a service call that was under way at an unload connects the closed client
  again; a reload goes on to set up after an unload that failed, and two generations
  poll; overlapping reloads may do the same. `OneGeneration` and `ClosedStaysClosed`
  excuse these cases and say that nothing else leads there; `TasksEnd` and `FallsSilent`
  hold in them too.
- Two tabs can save the same connection for two inverters, since each looks for
  duplicates when it gets to the adapter; `InvertersDistinct` excuses tabs that overlapped,
  and says that nothing else leads there. Options saved before version 6 keep a type of
  connection in capitals, with which set-up ends in an assertion (`FM/__init__.py:113`)
  until the adapter is changed; duplicates are compared with it letter by letter. A chosen firmware version is kept when a
  different model is detected. An inverter without an entity id prefix loses its friendly
  name when its adapter is changed (`FM/flow/flow_handler_mixin.py:107`). Two prefixes
  may become one when version 7 makes them valid; their unique ids stay apart.
- `autodetect` wraps the error that says the model is not supported, so that the flow's
  message for it is never shown.

## Proofs

For every value of the constants (the assumptions are the named `ASSUME`s of the modules):

- `InvalidRegisterRangesProofs`: `Spec => []TypeOK` and `Spec => []Represents`. The
  invariant is inductive with the type: an addition either changes nothing, lets one
  range grow by the register, or appends it.
- `ReadRangesProofs`: a non-empty set of naturals has a first element and, when bounded, a
  last one, and `FirstRequestAdmissible`: the first request of any poll is
  one the adapter and the inverter take.
- `ReadPlanningProofs`: all four properties of a plan. One turn of the loop either
  stretches the last request of the plan to the visited register or appends a request
  for it alone; the invariant says that the plan made so far covers what was visited, in
  admissible requests that ascend, and that the last one is still growing or cannot
  grow. Its last part, `GreedyInv`, says that no admissible request serves the starts of
  two consecutive requests. `FewestRequests` follows: with fewer requests, one of them
  would serve two of these starts. So the "fairly simple algorithm" of the source is
  optimal, although its comment takes the problem to be NP-hard. `PlanStepwise` shows
  that each request of the plan is what `FirstRequest` makes of what the earlier ones
  left. `AsLargeAsItCanBe` is `GreedyInv` for neighbours, and `WholeUnlessFull` follows
  from it. All of this is then proved a second time for `InverterSpec`, that is, for the
  registers of every inverter that can be configured, for every adapter's `max_read`, on
  the first poll and on later ones; there `InverterFewest` says what TLC cannot, since
  there are too many ways to cut the registers of a whole inverter. What the tables have
  to supply is `ListenedAssumption` (an inverter's registers are natural numbers,
  finitely many, none of them declared invalid), which TLC evaluates over all of them in
  `read_planning`; `register_modbus_entity` asserts the last of the three.
  `VersionsFindTheirInv` proves `VersionsRoundTrip`: versions are numbers, and of those
  not above the one that was chosen, it is the highest.
- `ModbusControllerProofs`: type correctness, `TracksListeners`, `ConnectionConsistent`,
  `ShowsAvailability`, `SnapshotConsistent`, `RequestAdmissible`, the refinement
  `Spec => KeepsPromise` and `WriteOutlivesPoll`. The inductive invariant `IInv` adds
  `PollInv` to the properties: while a poll is under way, every periodically polled
  register that has a value is still to be read, being read, or answered, and what is
  left to read avoids the profile's invalid registers. Without it, a poll could end
  without having renewed all values, or come to an inadmissible request. There is one
  lemma for each action; `WriteOutlivesPoll` rests on a second, smaller invariant
  (`RecentIsWritten`). `ConnectionConsistent` carries `leftover` along, for any issue found at
  the start: it is inductive together with the failure counter, since only the step that
  gives the connection up ends it.
- `RemoteControlProofs`: type correctness, `EveryUpdateWaits` and `EnabledMeansOn`, for
  any number of users. `EnabledMeansOn` speaks of moments when nothing is under way; its
  inductive form `EnabledInv` says of every moment that a raised flag is either true
  already, with no disable queued, or that an enabling write is queued behind every
  disable. Since the code between two writes starts from a partly changed manager, the
  proof follows the helpers: each *advances* its task from the state it was given (same
  queue but for this task, a named next write), and the four ways in which an update can
  start or go on are then four uses of two lemmas.
- `SettingsProofs`: type correctness, `PeriodsWhole`, `RemembersWhole` and
  `ShowsPending`, for any charges, numbers of calls, failures and changes. The inductive
  invariant says of every place a period can be in - the inverter, what was read, what was
  written, the poll under way, every queued call - that its value is a known one; the
  step that needs an argument is the conversion: a valid period that is parsed, taken as
  enabled or not, and serialized again is the same period (`WrittenAsRead`).
  `ShowsPending` needs to know that the first set is still pending and has written nothing
  else (`FirstSetInv`).
- `EntryLifecycleProofs`: type correctness, `OneGeneration` and `ClosedStaysClosed`, for
  any number of inverters, requests, setups, changes and calls. The invariant adds that an
  inverter waits for its client at most once, and only with requests left (`QueueOK`);
  that only closings wait behind a client that is closed or about to be, unless it was
  caught at work (`ClosedOK`); and that, as long as nothing overlapped, there is at most
  one task and its place says which timers, listeners and services there are (`CalmInv`).
  `InvertersAssumption` keeps the names of inverters apart from those of the other waiters.
- `ConfigurationProofs`: type correctness, `InvertersDistinct` and `ChangesContained`,
  for any adapters, hosts, slaves, names, prefixes, slugs, tabs and number of inverters.
  An entry is in one of three phases: none, while the set-up collects inverters that
  already differ (`AddedInv`); one that an older version saved, options included
  (`OldInv`); one of this version (`SavedInv`, `DistinctInv`). To these the invariant
  adds what each form relies on: in a set-up that names an inverter, that nobody before
  it has its connection (`SetupInv`); in a tab that changes the adapter, that its draft
  is of the inverter it is about, and, as long as no tabs overlapped, that its list of
  others still holds the connections they are saved with (`Knows`). That list is made
  when the tab gets to the adapter and never brought up to date; `AloneInv`, that without
  an overlap one tab is open at most, is why that is right, and why it is not with two
  tabs. Options keep an inverter's ids because whatever is saved as its details went
  through `DictToInverterData` and back (`DataOf`), or is an older version's and has no
  unique id to lay over the data. `OptionsOK` and `DetailsOK` say what options may be,
  and `Knows` and `DistinctInv` speak of inverters with their options laid over the data;
  that a migration, which rewrites the types in the data only, makes no two connections
  alike that were apart is `MigratedApart`. For the migration, the steps of the source
  are followed on a single inverter (`OneMigrated`) and then on the sequence; that
  nothing is left of an entry of version 1 (the finding of `migrate_v1`) is the theorem
  `VersionOneIsLost`, and an entry without inverters satisfies the rest. A second
  invariant, `Shapes`, says which fields the records have: without it, a field that a
  step replaces might not be there. `NoneAssumption` and `TabsAssumption` keep None and
  the set-up apart from what is entered and from the tabs.

Model-checked only: all liveness (fairness is beyond the prover): `ShowsSettings`,
`TasksEnd`, `FallsSilent`, `UpdatesEnd`, `DisableHonoured`, `Engages`, and what
`controller_liveness` checks except `WriteOutlivesPoll`; the tables of the inverters
(`EntitiesComplete`, `RegistersAgree`, `WholeValues`), which have no parameters and are
checked in full; and what runs find violated.

## Not modelled

- How registers are joined, sign extended and checked against the ranges of written
  values, the scaling and rounding of sensors with its hysteresis, and the texts of
  faults, states and versions: functions of what `read` returns, which have no history
  but the last rounded value.
- The arithmetic of the regulation of import power: `RemoteControl` keeps where a power
  comes from, not its value.
- Update callbacks that raise, and entities that register after the first successful
  poll: both depend on Home Assistant's timing and internals.
- The repair of the energy dashboard on the way from version 2 to 3
  (`FM/__init__.py:188`), which sets missing keys in Home Assistant's preferences.
- The patterns of model names and the parser of capacities; the argument parsing of the
  register services and the queries of the websocket.
- The transports and the vendored pymodbus (input and output; seen through the external
  inverter), texts, logging and translations.
