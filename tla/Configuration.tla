----------------------------- MODULE Configuration -----------------------------
(***************************************************************************)
(* Configuration: the dialogues that set inverters up and change their     *)
(* options, and the migration of entries that older versions saved.        *)
(*                                                                         *)
(* The set-up dialogue (FlowHandler) collects inverters and saves them all *)
(* in the end.  An options dialogue (OptionsHandler) is about one of them, *)
(* may be open in several tabs, and saves in the entry's options what is   *)
(* laid over the data that the set-up saved.  Both ask for an adapter and  *)
(* a connection with an AdapterFlowSegment, which checks them against a    *)
(* list of the other inverters and then waits for the detection of the     *)
(* inverter.                                                               *)
(*                                                                         *)
(* What answers at a host is external, and so is slugify.  A host stands   *)
(* for host:port or for a serial device.                                   *)
(***************************************************************************)
EXTENDS InverterProfiles, InverterAdapters, Sequences, Functions

CONSTANTS
    None,
    Adapters,       \* the adapters that are chosen
    Hosts,          \* the hosts that are entered
    Slaves,
    Attached,       \* the model that answers at a host
    Names,          \* friendly names that are entered
    Prefixes,       \* entity id prefixes that are entered, all well-formed
    Slug,           \* slugify, on Names and ""
    Tabs,           \* options dialogues
    OldProtocols,   \* bound: the protocols of the entries that older versions saved
    MaxInverters, MaxOpened     \* bounds

ASSUME ConfigurationAssumption ==
    /\ Adapters \subseteq DOMAIN ADAPTERS
    /\ Attached \in [Hosts -> Models]
    /\ Slug \in [Names \cup {""} -> STRING] /\ Slug[""] = ""
    /\ OldProtocols \subseteq {"tcp", "udp", "rtu_over_tcp"}
    /\ MaxInverters \in Nat \ {0} /\ MaxOpened \in Nat

(* What may be saved of an inverter. *)
SavedInverters ==
    [adapter : Adapters, protocol : UNION {ADAPTERS[a].protocols : a \in Adapters},
     host : Hosts, slave : Slaves, model : Range(Attached),
     prefix : Prefixes \cup Range(Slug) \cup Names, uid : Names \cup {""},
     name : Names \cup {""}, advanced : {None}]

ASSUME NoneAssumption ==
    None \notin Names \cup Prefixes \cup Range(Slug) \cup SavedInverters

setup == "setup"

ASSUME TabsAssumption == setup \notin Tabs

Dialogues == {setup} \cup Tabs

VARIABLES
    version,        \* of the config entry, 0 if there is none
    data,           \* its inverters, as the set-up saved them
    options,        \* what the options dialogues saved, per inverter
    dialogue,       \* the state of each dialogue
    added,          \* FlowHandler._all_inverters
    energy,         \* prefixes of the sensors that the energy dashboard was given
    opened,         \* options dialogues opened so far
    overlapped,     \* two tabs were open at once (history)
    born            \* the version that made the entry (history)

entry   == <<version, data, options>>
history == <<overlapped, born>>
vars    == <<entry, dialogue, added, energy, opened, history>>

VERSION == 7

NoData == [type |-> None, adapter |-> None, protocol |-> None, host |-> None, slave |-> None,
           model |-> None, prefix |-> None, uid |-> None, name |-> None]

NoOptions == [details |-> None, version |-> None, advanced |-> None]

Fresh == [step |-> "closed", id |-> None, draft |-> NoData, others |-> {},
          offered |-> {}, trying |-> None]

Inverters == DOMAIN data

-------------------------------------------------------------------------------
(* Saved records and the InverterData of a dialogue.                        *)

OrEmpty(text) == IF text = None THEN "" ELSE text
OrNone(text)  == IF text = "" THEN None ELSE text

(* _inverter_data_to_dict *)
InverterDataToDict(d) ==
    [adapter |-> d.adapter, protocol |-> d.protocol, host |-> d.host, slave |-> d.slave,
     model |-> d.model, prefix |-> OrEmpty(d.prefix), uid |-> OrEmpty(d.uid),
     name |-> OrEmpty(d.name), advanced |-> None]

(* _dict_to_inverter_data: without a prefix, the name is dropped too.       *)
DictToInverterData(c) ==
    [type |-> ADAPTERS[c.adapter].type, adapter |-> c.adapter, protocol |-> c.protocol,
     host |-> c.host, slave |-> c.slave, model |-> c.model, prefix |-> OrNone(c.prefix),
     uid |-> OrNone(c.uid), name |-> IF c.prefix = "" THEN None ELSE c.name]

(* _config_for_inverter: options laid over the data.  Two keys are not in   *)
(* what older versions saved as options.                                    *)
Laid(o, c) ==
    LET details == IF o.details = None THEN c
                   ELSE [o.details EXCEPT !.prefix = IF @ = None THEN c.prefix ELSE @,
                                          !.uid    = IF @ = None THEN c.uid ELSE @]
    IN  [details EXCEPT !.advanced = IF o.advanced = None THEN c.advanced ELSE o.advanced]

CombinedConfig(i) == Laid(options[i], data[i])

SameConnection(a, b) == a.protocol = b.protocol /\ a.host = b.host /\ a.slave = b.slave

(* The bounds of firmware versions that can be chosen for an inverter.      *)
VersionsOf(c) == DOMAIN ProfileFor(c.model, ADAPTERS[c.adapter].connection).versions

-------------------------------------------------------------------------------
(* AdapterFlowSegment.                                                      *)

Show(d, step) == dialogue' = [dialogue EXCEPT ![d].step = step]

SelectAdapterType(d) ==
    /\ dialogue[d].step = "select_adapter_type"
    /\ \E type \in {ADAPTERS[a].type : a \in Adapters} :
         LET adapters == {a \in DOMAIN ADAPTERS : ADAPTERS[a].type = type}
             one == Cardinality(adapters) = 1
         IN  dialogue' = [dialogue EXCEPT ![d].draft.type = type,
                ![d].draft.adapter = IF one THEN CHOOSE a \in adapters : TRUE ELSE @,
                ![d].step = IF one THEN "adapter" ELSE "select_adapter_model"]
    /\ UNCHANGED <<entry, added, energy, opened, history>>

SelectAdapterModel(d) ==
    /\ dialogue[d].step = "select_adapter_model"
    /\ \E a \in Adapters :
         /\ ADAPTERS[a].type = dialogue[d].draft.type
         /\ dialogue' = [dialogue EXCEPT ![d].draft.adapter = a, ![d].step = "adapter"]
    /\ UNCHANGED <<entry, added, energy, opened, history>>

(* The others: the set-up dialogue hands over its own list, an options      *)
(* dialogue one that it made when it got to the adapter.                    *)
OtherInverters(d) == IF d = setup THEN Range(added) ELSE dialogue[d].others

(* A slip: only inverters at the same adapter are duplicates. *)
DuplicateConnectionByAdapter(d, c) ==
    \E o \in OtherInverters(d) : SameConnection(o, c) /\ o.adapter = dialogue[d].draft.adapter

DuplicateConnection(d, c) == \E o \in OtherInverters(d) : SameConnection(o, c)

(* Connection details are submitted: duplicates are turned down, which      *)
(* shows the form again, and for the rest the inverter is asked.            *)
SubmitConnection(d) ==
    /\ dialogue[d].step = "adapter"
    /\ \E p \in ADAPTERS[dialogue[d].draft.adapter].protocols, h \in Hosts, s \in Slaves :
         LET c == [protocol |-> p, host |-> h, slave |-> s]
         IN  /\ ~DuplicateConnection(d, c)
             /\ dialogue' = [dialogue EXCEPT ![d].step = "detecting", ![d].trying = c]
    /\ UNCHANGED <<entry, added, energy, opened, history>>

(* Nothing answered, or nothing that is supported: an error is shown.       *)
DetectionFails(d) ==
    /\ dialogue[d].step = "detecting"
    /\ dialogue' = [dialogue EXCEPT ![d].step = "adapter", ![d].trying = None]
    /\ UNCHANGED <<entry, added, energy, opened, history>>

(* A slip: the host was filled in earlier on, with the first one entered. *)
DetectedAtFirstHost(d) ==
    LET c == dialogue[d].trying
        host == dialogue[d].draft.host
    IN  [dialogue[d].draft EXCEPT !.model = Attached[c.host], !.protocol = c.protocol,
                         !.slave = c.slave, !.host = IF host = None THEN c.host ELSE host]

(* The draft with what was detected. *)
Detected(d) ==
    LET c == dialogue[d].trying
    IN  [dialogue[d].draft EXCEPT !.model = Attached[c.host], !.protocol = c.protocol,
                                  !.slave = c.slave, !.host = c.host]

-------------------------------------------------------------------------------
(* The set-up dialogue.                                                     *)

(* async_step_user: there is one entry, and one dialogue that sets it up.   *)
StartSetup ==
    /\ version = 0 /\ dialogue[setup].step = "closed"
    /\ Show(setup, "select_adapter_type")
    /\ UNCHANGED <<entry, added, energy, opened, history>>

SetupDetected ==
    /\ dialogue[setup].step = "detecting"
    /\ dialogue' = [dialogue EXCEPT ![setup].step = "friendly_name",
                       ![setup].draft = Detected(setup), ![setup].trying = None]
    /\ UNCHANGED <<entry, added, energy, opened, history>>

DuplicateName(name)     == \E x \in Range(added) : x.name = name
UniquePrefix(prefix)    == \A x \in Range(added) : x.prefix # prefix

(* The inverter joins the list, and the next one gets a new InverterData.   *)
AddInverter(name, prefix) ==
    /\ added' = Append(added, [dialogue[setup].draft EXCEPT
                                 !.prefix = prefix, !.uid = name, !.name = name])
    /\ dialogue' = [dialogue EXCEPT ![setup].draft = NoData, ![setup].step = "add_another"]

(* The form comes with or without an input for the prefix.  A duplicate     *)
(* name takes the input away.                                               *)
NameTaken(name) == DuplicateName(name) /\ Show(setup, "friendly_name") /\ UNCHANGED added

(* The prefix is generated from the name; if that is taken, the form asks   *)
(* for one.                                                                 *)
GeneratedPrefix(name) ==
    /\ ~DuplicateName(name)
    /\ IF UniquePrefix(Slug[name]) THEN AddInverter(name, Slug[name])
       ELSE Show(setup, "entity_id_prefix") /\ UNCHANGED added

(* The user unchecked the box, and has not seen the input yet.              *)
AskForPrefix(name) ==
    /\ ~DuplicateName(name) /\ dialogue[setup].step = "friendly_name"
    /\ Show(setup, "entity_id_prefix") /\ UNCHANGED added

EnteredPrefix(name) ==
    /\ ~DuplicateName(name) /\ dialogue[setup].step = "entity_id_prefix"
    /\ \E prefix \in Prefixes : UniquePrefix(prefix) /\ AddInverter(name, prefix)

(* async_step_friendly_name.  A prefix that is taken or ill-formed shows    *)
(* the form again.                                                          *)
SubmitName ==
    /\ dialogue[setup].step \in {"friendly_name", "entity_id_prefix"}
    /\ \E name \in Names :
         NameTaken(name) \/ GeneratedPrefix(name) \/ AskForPrefix(name) \/ EnteredPrefix(name)
    /\ UNCHANGED <<entry, energy, opened, history>>

AddAnother ==
    /\ dialogue[setup].step = "add_another" /\ Len(added) < MaxInverters
    /\ Show(setup, "select_adapter_type")
    /\ UNCHANGED <<entry, added, energy, opened, history>>

(* The prefixes of the sensors that the energy dashboard gets.              *)
DashboardSources == {x.prefix : x \in Range(added)}

(* async_step_energy: perhaps set the energy dashboard up, which replaces   *)
(* its sources, then save the entry.                                        *)
FinishSetup ==
    /\ dialogue[setup].step = "add_another"
    /\ energy' \in {energy, DashboardSources}
    /\ version' = VERSION
    /\ data' = [i \in DOMAIN added |-> InverterDataToDict(added[i])]
    /\ options' = [i \in DOMAIN added |-> NoOptions]
    /\ added' = <<>> /\ dialogue' = [dialogue EXCEPT ![setup] = Fresh]
    /\ born' = VERSION /\ UNCHANGED <<opened, overlapped>>

(* A dialogue is closed before it is done; the set-up loses what it         *)
(* collected.                                                               *)
Close(d) ==
    /\ dialogue[d].step # "closed"
    /\ dialogue' = [dialogue EXCEPT ![d] = Fresh]
    /\ added' = IF d = setup THEN <<>> ELSE added
    /\ UNCHANGED <<entry, energy, opened, history>>

-------------------------------------------------------------------------------
(* The options dialogues.                                                   *)

Open(t) == dialogue[t].step # "closed"

(* The menu offers the firmware version only where there is a choice.       *)
Categories(t, i) ==
    dialogue' = [dialogue EXCEPT ![t] = [Fresh EXCEPT !.step = "category", !.id = i,
                                           !.offered = VersionsOf(CombinedConfig(i))]]

(* async_step_init: a single inverter is selected at once.                  *)
OpenOptions(t) ==
    /\ version = VERSION /\ ~Open(t)
    /\ opened < MaxOpened /\ opened' = opened + 1
    /\ IF Len(data) = 1 THEN Categories(t, 1) ELSE Show(t, "select_inverter")
    /\ overlapped' = (overlapped \/ \E other \in Tabs \ {t} : Open(other))
    /\ UNCHANGED <<entry, added, energy, born>>

SelectInverter(t) ==
    /\ dialogue[t].step = "select_inverter"
    /\ \E i \in Inverters : Categories(t, i)
    /\ UNCHANGED <<entry, added, energy, opened, history>>

(* async_step_select_adapter_type, for the first time: the segment gets the *)
(* inverter and the others as they are saved now.                           *)
ChangeAdapter(t) ==
    /\ dialogue[t].step = "category"
    /\ LET i == dialogue[t].id
           data_of == [j \in Inverters |-> DictToInverterData(CombinedConfig(j))]
       IN  dialogue' = [dialogue EXCEPT ![t].step = "select_adapter_type",
              ![t].draft = data_of[i], ![t].offered = {},
              ![t].others = {data_of[j] : j \in Inverters \ {i}}]
    /\ UNCHANGED <<entry, added, energy, opened, history>>

(* _save_selected_inverter_options: the options of this inverter, amended,  *)
(* among those that are saved by now.                                       *)
Save(t, amended) ==
    /\ options' = [options EXCEPT ![dialogue[t].id] = amended]
    /\ dialogue' = [dialogue EXCEPT ![t] = Fresh]
    /\ UNCHANGED <<version, data, added, energy, opened, history>>

(* _config_for_inverter, as it is saved now. *)
OptionsOf(t) == options[dialogue[t].id]

(* A slip: what the dialogue detected replaces the other options. *)
ReplacedDetails(t) == [NoOptions EXCEPT !.details = InverterDataToDict(Detected(t))]

AmendedDetails(t) == [OptionsOf(t) EXCEPT !.details = InverterDataToDict(Detected(t))]

(* adapter_segment_complete *)
OptionsDetected(t) ==
    /\ dialogue[t].step = "detecting"
    /\ Save(t, AmendedDetails(t))

(* The version's form keeps offering what it did when it was shown, even if *)
(* another tab changes the inverter meanwhile.                              *)
ChangeVersion(t) ==
    /\ dialogue[t].step = "category" /\ Cardinality(dialogue[t].offered) > 1
    /\ LET now == VersionsOf(CombinedConfig(dialogue[t].id))
       IN  /\ Cardinality(now) > 1
           /\ dialogue' = [dialogue EXCEPT ![t].step = "version_settings", ![t].offered = now]
    /\ UNCHANGED <<entry, added, energy, opened, history>>

SubmitVersion(t) ==
    /\ dialogue[t].step = "version_settings"
    /\ Cardinality(VersionsOf(CombinedConfig(dialogue[t].id))) > 1
    /\ \E v \in dialogue[t].offered :
         Save(t, [OptionsOf(t) EXCEPT !.version = IF v = Latest THEN None ELSE v])

ChangeAdvanced(t) ==
    /\ dialogue[t].step = "category"
    /\ dialogue' = [dialogue EXCEPT ![t].step = "advanced_options", ![t].offered = {}]
    /\ UNCHANGED <<entry, added, energy, opened, history>>

(* The poll rate, the rounding and max_read stand for one value.            *)
SubmitAdvanced(t) ==
    /\ dialogue[t].step = "advanced_options"
    /\ \E a \in {None, "tuned"} : Save(t, [OptionsOf(t) EXCEPT !.advanced = a])

-------------------------------------------------------------------------------
(* async_migrate_entry, one version at a time, on a sequence of inverters.  *)

Lower(type) ==
    CASE type = "TCP"     -> "tcp"
      [] type = "UDP"     -> "udp"
      [] type = "SERIAL"  -> "serial"
      [] type = "TCP+RTU" -> "rtu_over_tcp"

(* From version 1, which kept inverters by type, host and name.  Only the   *)
(* types of today's constants are looked for, "null" stands for no name,    *)
(* and the adapter is inferred.                                             *)
AdoptsAdapter(c) ==
    [c EXCEPT !.adapter = CASE c.protocol = "tcp" /\ c.adapter = "LAN" -> "direct"
                            [] c.protocol = "tcp" /\ c.adapter # "LAN" -> "network_other"
                            [] c.protocol = "serial" -> "serial_other",
              !.name = IF c.name = "null" THEN "" ELSE c.name]

From1(cs) ==
    LET kept == {i \in DOMAIN cs : cs[i].protocol \in {"tcp", "udp", "serial"}}
        nth(n) == CHOOSE i \in kept : Cardinality({j \in kept : j < i}) = n - 1
    IN  [n \in 1 .. Cardinality(kept) |-> AdoptsAdapter(cs[nth(n)])]

From3(cs) == [i \in DOMAIN cs |-> [cs[i] EXCEPT !.prefix = cs[i].name]]

From4(cs) ==
    [i \in DOMAIN cs |-> [cs[i] EXCEPT !.advanced = None, !.name = OrEmpty(@),
                                       !.prefix = OrEmpty(@)]]

From5(cs) == [i \in DOMAIN cs |-> [cs[i] EXCEPT !.protocol = Lower(@)]]

From6(cs) == [i \in DOMAIN cs |-> [cs[i] EXCEPT !.uid = cs[i].prefix, !.prefix = Slug[@]]]

Migrated(v, cs) ==
    LET v2 == IF v = 1 THEN From1(cs) ELSE cs
        v4 == IF v <= 3 THEN From3(v2) ELSE v2
        v5 == IF v <= 4 THEN From4(v4) ELSE v4
        v6 == IF v <= 5 THEN From5(v5) ELSE v5
    IN  From6(v6)

(* The common options of version 1, which stand at each of its inverters,   *)
(* become those of each inverter that was found.  Those of later versions   *)
(* stay as they are.                                                        *)
MigratedOptions(v, os, n) == IF v = 1 THEN [i \in 1 .. n |-> os[1]] ELSE os

MigrateEntry ==
    /\ version \in 1 .. VERSION - 1
    /\ version' = VERSION
    /\ data' = Migrated(version, data)
    /\ options' = MigratedOptions(version, options, Len(data'))
    /\ UNCHANGED <<dialogue, added, energy, opened, history>>

-------------------------------------------------------------------------------
(* The types of connection, as version v called them. *)
OldTypes(v) ==
    IF v >= 6 THEN OldProtocols
    ELSE {type \in {"TCP", "UDP"} \cup (IF v = 1 THEN {} ELSE {"TCP+RTU"}) :
            Lower(type) \in OldProtocols}

(* What version v may have saved of an inverter.  In version 1 the type of  *)
(* the connection was kept where the adapter is now.                        *)
OldInverters(v) ==
    {c \in [adapter  : IF v = 1 THEN {"AUX"} ELSE {a \in Adapters : ADAPTERS[a].type = "network"},
            protocol : OldTypes(v),
            host     : Hosts, slave : Slaves, model : Range(Attached),
            prefix   : IF v <= 3 THEN {None} ELSE Names \cup {IF v = 4 THEN None ELSE ""},
            uid      : {None},
            name     : Names \cup {CASE v = 1 -> "null" [] v \in 2 .. 4 -> None [] OTHER -> ""},
            advanced : IF v <= 4 THEN {None, "tuned"} ELSE {None}] :
        /\ c.model = Attached[c.host]
        /\ v >= 4 => c.prefix = c.name
        /\ v >= 2 => (IF v <= 5 THEN Lower(c.protocol) ELSE c.protocol)
                       \in ADAPTERS[c.adapter].protocols}

(* The options dialogue of a version from 2 on is taken to save what this   *)
(* one's does, in that version's form: the prefix from version 4 on, and no *)
(* unique id.                                                               *)
OldDetails(v, c) ==
    {[o EXCEPT !.prefix = IF v <= 3 THEN None ELSE OrEmpty(c.prefix),
               !.name = OrEmpty(c.name), !.advanced = None] : o \in OldInverters(v)}

OldOptions(v, c) ==
    {[NoOptions EXCEPT !.details = d] : d \in {None} \cup OldDetails(v, c)}

Apart(cs) == \A i, j \in DOMAIN cs : i # j => ~SameConnection(cs[i], cs[j])

OldEntries(v) ==
    {cs \in UNION {[1 .. n -> OldInverters(v)] : n \in 1 .. MaxInverters} :
        /\ Apart(cs)
        /\ \A i, j \in DOMAIN cs : i # j => OrEmpty(cs[i].name) # OrEmpty(cs[j].name)}

(* What its version saved is an entry whose inverters are apart, also with  *)
(* the options laid over the data.                                          *)
InitEntry(v) ==
    /\ version = v /\ born = v
    /\ data \in OldEntries(v)
    /\ IF v = 1 THEN \E a \in {None, "tuned"} :
                       options = [i \in DOMAIN data |-> [NoOptions EXCEPT !.advanced = a]]
       ELSE /\ options \in [DOMAIN data -> UNION {OldOptions(v, c) : c \in Range(data)}]
            /\ \A i \in DOMAIN data : options[i] \in OldOptions(v, data[i])
    /\ Apart([i \in DOMAIN data |-> CombinedConfig(i)])

InitDialogues ==
    /\ dialogue = [d \in Dialogues |-> Fresh] /\ added = <<>>
    /\ energy = {} /\ opened = 0 /\ overlapped = FALSE

Init ==
    /\ InitDialogues
    /\ \/ version = 0 /\ data = <<>> /\ options = <<>> /\ born = 0
       \/ \E v \in 1 .. VERSION - 1 : InitEntry(v)

Segment(d) ==
    \/ SelectAdapterType(d) \/ SelectAdapterModel(d)
    \/ SubmitConnection(d) \/ DetectionFails(d) \/ Close(d)

OptionsDialogue(t) ==
    \/ OpenOptions(t) \/ SelectInverter(t)
    \/ ChangeAdapter(t) \/ OptionsDetected(t)
    \/ ChangeVersion(t) \/ SubmitVersion(t)
    \/ ChangeAdvanced(t) \/ SubmitAdvanced(t)

SetupDialogue ==
    StartSetup \/ SetupDetected \/ SubmitName \/ AddAnother \/ FinishSetup

Next ==
    \/ MigrateEntry \/ SetupDialogue
    \/ \E d \in Dialogues : Segment(d)
    \/ \E t \in Tabs : OptionsDialogue(t)

Spec == Init /\ [][Next]_vars

-------------------------------------------------------------------------------
Saved(c) ==
    /\ c.adapter \in Adapters /\ c.protocol \in ADAPTERS[c.adapter].protocols
    /\ c.host \in Hosts /\ c.slave \in Slaves /\ c.model = Attached[c.host]
    /\ c.prefix \in Prefixes \cup Range(Slug) /\ {c.uid, c.name} \subseteq Names \cup {""}
    /\ c.advanced \in {None, "tuned"}

(* Options that an older version saved, which migrations leave as they are. *)
Outdated(o) == o.details # None /\ o.details.uid = None

ValidPrefix(i) == CombinedConfig(i).prefix \in Prefixes \cup Range(Slug)
KeptPrefix(i)  == CombinedConfig(i).prefix = CombinedConfig(i).uid

(* An inverter's configuration, with the prefix and the type as they are    *)
(* migrated in the data.                                                    *)
Amended(i) ==
    [CombinedConfig(i) EXCEPT
       !.prefix   = data[i].prefix,
       !.protocol = IF Outdated(options[i]) /\ born < 6 THEN Lower(@) ELSE @]

(* What is saved of an inverter, options laid over data, has a model that   *)
(* answered at its connection, a protocol that its adapter speaks and valid *)
(* names, whichever dialogue or migration saved it last - but for what      *)
(* options of an older version say otherwise: a type in capitals, until the *)
(* adapter is changed, and for good the prefix as it was before version 7   *)
(* (async_migrate_entry, options_handler.py).                               *)
TypeOK ==
    /\ version \in 0 .. VERSION /\ Len(options) = Len(data) /\ opened \in 0 .. MaxOpened
    /\ version = VERSION => \A i \in Inverters :
         /\ Saved(data[i]) /\ data[i].advanced = None
         /\ Saved(Amended(i))
         /\ ValidPrefix(i) \/ (born \in 4 .. 6 /\ KeptPrefix(i))
    /\ \A x \in Range(added) : Saved(InverterDataToDict(x))
    /\ \A t \in Tabs : dialogue[t].step \notin {"closed", "select_inverter"} =>
         dialogue[t].id \in Inverters

(* Inverters of an entry differ in their unique ids, also those of an entry *)
(* that was migrated, and in their connections, unless options dialogues    *)
(* overlapped: each compares with inverters as they were when it began.     *)
(* Types are compared as the code does, letter by letter.                   *)
(* The prefixes of an entry that this version made differ too (the          *)
(* migration to version 7 may make two alike), and the energy dashboard,    *)
(* once set up, goes by them.                                               *)
InvertersDistinct ==
    version = VERSION =>
      LET now == [i \in Inverters |-> CombinedConfig(i)]
      IN  /\ \A i, j \in Inverters : i # j =>
               /\ now[i].uid # now[j].uid
               /\ SameConnection(now[i], now[j]) => overlapped
               /\ now[i].prefix = now[j].prefix => born < VERSION
          /\ energy # {} => energy = {now[i].prefix : i \in Inverters}

(* A migration from version 2 or later.  The unique id is the prefix that   *)
(* the entities' ids began with, which before version 4 was the name.  The  *)
(* options, which are not migrated, leave an inverter where it was and who  *)
(* it was.                                                                  *)
KeptByMigration ==
    LET former(c) == OrEmpty(IF version <= 3 THEN c.name ELSE c.prefix)
    IN  /\ DOMAIN data' = Inverters
        /\ \A i \in Inverters :
             LET before == CombinedConfig(i)
                 after  == CombinedConfig(i)'
             IN  /\ after.uid = former(before) /\ data'[i].prefix = Slug[former(before)]
                 /\ after.host = before.host /\ after.slave = before.slave
                 /\ after.name = OrEmpty(before.name)

(* Options that are saved: of one inverter, about one thing.                *)
KeptByOptions ==
    /\ UNCHANGED <<version, data>>
    /\ \A i \in Inverters :
         LET before == CombinedConfig(i)
             after  == CombinedConfig(i)'
         IN  /\ after.uid = before.uid /\ after.prefix = before.prefix
             /\ before.prefix # "" => after.name = before.name
    /\ \E i \in Inverters, what \in {"details", "version", "advanced"} :
         options' = [options EXCEPT ![i] = [@ EXCEPT ![what] = options'[i][what]]]

(* An inverter keeps its identity: no dialogue, and no migration but the    *)
(* one from version 1, loses an inverter or changes the unique id that its  *)
(* entities are known by.  Whatever is saved in one tab leaves alone what   *)
(* another tab saved about something else (options_handler.py, __init__.py).*)
ChangesContained ==
    [][/\ version \in 2 .. VERSION - 1 => KeptByMigration
       /\ version = VERSION => KeptByOptions]_entry

(* A migration, also from version 1, keeps all inverters (__init__.py).     *)
MigrationKeepsInverters ==
    [][version > 0 => DOMAIN data' = Inverters]_data
===============================================================================
