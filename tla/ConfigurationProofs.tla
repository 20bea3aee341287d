-------------------------- MODULE ConfigurationProofs --------------------------
(***************************************************************************)
(* Proofs about Configuration, for any adapters, hosts, names, prefixes,   *)
(* number of inverters and number of tabs.                                 *)
(*                                                                         *)
(* An entry goes through three phases: there is none, while the set-up     *)
(* collects inverters; there is one of an older version; there is one of   *)
(* this version, while tabs change its options.  The inductive invariant   *)
(* says for each phase what is known of the records (EntryInv, AddedInv),  *)
(* and for each step of a dialogue what its form relies on (SetupInv,      *)
(* TabsInv).  A tab knows the other inverters as they are saved only while *)
(* it is the only one (AloneInv).  Shapes says which fields the records    *)
(* have, so that what a step replaces in them is there to be replaced.     *)
(***************************************************************************)
EXTENDS Configuration, FiniteSetTheorems, SequenceTheorems, TLAPS

SegmentSteps == {"select_adapter_type", "select_adapter_model", "adapter", "detecting"}
NameSteps    == {"friendly_name", "entity_id_prefix"}

(* Where an inverter is connected and what answered there. *)
Settled(x) ==
    /\ x.adapter \in Adapters /\ x.protocol \in ADAPTERS[x.adapter].protocols
    /\ x.host \in Hosts /\ x.slave \in Slaves /\ x.model = Attached[x.host]

Named(x) == x.uid = x.name /\ x.name \in Names /\ x.prefix \in Prefixes \cup Range(Slug)

AddedInv ==
    /\ added \in Seq(Range(added))
    /\ \A k \in DOMAIN added : Settled(added[k]) /\ Named(added[k])
    /\ \A k, l \in DOMAIN added : k # l =>
         /\ added[k].name # added[l].name /\ added[k].prefix # added[l].prefix
         /\ ~SameConnection(added[k], added[l])
    /\ version # 0 => added = <<>> /\ dialogue[setup].step = "closed"

(* c is the inverter that was saved as b, under its ids. *)
SameIdentity(c, b) ==
    c.uid = b.uid /\ c.prefix = b.prefix /\ (b.prefix # "" => c.name = b.name)

(* Details that are saved for an inverter whose data is b: of the adapter   *)
(* and the connection, with the type in the form of the version that saved  *)
(* it; the unique id of the data, or none in what an older version saved;   *)
(* the prefix of the data, or none, or the one that an older version used,  *)
(* which the migration made the unique id from.                             *)
DetailsOK(d, b) ==
    /\ d.adapter \in Adapters
    /\ (IF d.uid = None /\ born < 6 THEN Lower(d.protocol) ELSE d.protocol)
         \in ADAPTERS[d.adapter].protocols
    /\ d.host \in Hosts /\ d.slave \in Slaves /\ d.model = Attached[d.host]
    /\ d.name \in Names \cup {""} /\ d.advanced = None
    /\ d.uid \in {None, b.uid}
    /\ d.prefix \in {None, b.prefix} \/ (born \in 4 .. 6 /\ d.prefix = b.uid)

OptionsOK(o, b) ==
    /\ o.advanced \in {None, "tuned"}
    /\ o.details # None => DetailsOK(o.details, b)

SavedInv ==
    \A i \in Inverters :
      Saved(data[i]) /\ data[i].advanced = None /\ OptionsOK(options[i], data[i])

DistinctInv ==
    /\ \A i, j \in Inverters : i # j =>
         /\ data[i].uid # data[j].uid
         /\ data[i].prefix = data[j].prefix => born < VERSION
         /\ SameConnection(CombinedConfig(i), CombinedConfig(j)) => overlapped
    /\ energy # {} => born = VERSION /\ energy = {data[i].prefix : i \in Inverters}

OldInv == InitEntry(version)

EntryInv ==
    /\ version \in 0 .. VERSION /\ opened \in 0 .. MaxOpened
    /\ Len(data) \in Nat /\ Len(options) = Len(data)
    /\ DOMAIN data = 1 .. Len(data) /\ DOMAIN options = 1 .. Len(data)
    /\ version # VERSION => energy = {}
    /\ version \in 1 .. VERSION - 1 => OldInv
    /\ version = VERSION => SavedInv /\ DistinctInv

(* What the segment has found out in dialogue d. *)
SegmentOK(d) ==
    LET r == dialogue[d]
    IN  /\ r.step \in {"adapter", "detecting"} => r.draft.adapter \in Adapters
        /\ r.step = "detecting" =>
             /\ r.trying.protocol \in ADAPTERS[r.draft.adapter].protocols
             /\ r.trying.host \in Hosts /\ r.trying.slave \in Slaves
             /\ \A o \in OtherInverters(d) : ~SameConnection(o, r.trying)

SetupInv ==
    LET r == dialogue[setup]
    IN  /\ r.step \in {"closed", "add_another"} \cup SegmentSteps \cup NameSteps
        /\ r.step \in NameSteps =>
             Settled(r.draft) /\ \A o \in Range(added) : ~SameConnection(o, r.draft)

(* The draft of a tab is of the inverter that it is about, and while it is  *)
(* the only tab, its list holds the connections of all others.              *)
Knows(t) ==
    LET r == dialogue[t]
    IN  /\ SameIdentity(InverterDataToDict(r.draft), CombinedConfig(r.id))
        /\ InverterDataToDict(r.draft).name \in Names \cup {""}
        /\ ~overlapped => \A j \in Inverters : j # r.id =>
             \E o \in r.others : SameConnection(o, CombinedConfig(j))

TabOK(t) ==
    LET r == dialogue[t]
    IN  /\ r.step # "closed" => version = VERSION
        /\ r.step \notin {"closed", "select_inverter"} => r.id \in Inverters
        /\ r.step \in SegmentSteps => Knows(t)

AloneInv == ~overlapped => \A t, u \in Tabs : Open(t) /\ Open(u) => t = u

DialogueInv ==
    /\ DOMAIN dialogue = Dialogues
    /\ \A d \in Dialogues : SegmentOK(d)
    /\ SetupInv /\ AloneInv /\ \A t \in Tabs : TabOK(t)

IInv == EntryInv /\ AddedInv /\ DialogueInv

(* The fields that the records have: EXCEPT replaces only what is there.    *)
SavedFields == {"adapter", "protocol", "host", "slave", "model", "prefix", "uid", "name", "advanced"}
DraftFields == {"type", "adapter", "protocol", "host", "slave", "model", "prefix", "uid", "name"}
FormFields  == {"step", "id", "draft", "others", "offered", "trying"}

IsSaved(c)   == DOMAIN c = SavedFields
IsOptions(o) == /\ DOMAIN o = {"details", "version", "advanced"}
                /\ o.details # None => IsSaved(o.details)
IsForm(r)    == DOMAIN r = FormFields /\ DOMAIN r.draft = DraftFields

Shapes ==
    /\ \A d \in Dialogues : IsForm(dialogue[d])
    /\ \A i \in Inverters : IsSaved(data[i]) /\ IsOptions(options[i])

-------------------------------------------------------------------------------
(* Records.                                                                 *)

LEMMA NoneIsNoText ==
    /\ None # "" /\ None \notin Names \cup Prefixes \cup Range(Slug)
    /\ "" \in Range(Slug) /\ \A name \in Names : Slug[name] \in Range(Slug)
    /\ \A h \in Hosts : Attached[h] \in Range(Attached)
<1>1. "" \in Range(Slug) /\ \A name \in Names : Slug[name] \in Range(Slug)
  BY ConfigurationAssumption DEF Range
<1>2. \A h \in Hosts : Attached[h] \in Range(Attached)
  BY ConfigurationAssumption DEF Range
<1> QED BY <1>1, <1>2, NoneAssumption

(* A saved inverter is not None. *)
LEMMA DictIsNotNone ==
    ASSUME NEW d, NEW c, c = InverterDataToDict(d),
           c.adapter \in Adapters, c.protocol \in ADAPTERS[c.adapter].protocols,
           c.host \in Hosts, c.slave \in Slaves, c.model = Attached[c.host],
           c.prefix \in Prefixes \cup Range(Slug) \cup Names,
           c.uid \in Names \cup {""}, c.name \in Names \cup {""}
    PROVE  c # None
<1>1. c.protocol \in UNION {ADAPTERS[a].protocols : a \in Adapters}
  OBVIOUS
<1>2. c.model \in Range(Attached) /\ c.advanced \in {None}
  BY NoneIsNoText DEF InverterDataToDict
<1>3. c = [adapter |-> c.adapter, protocol |-> c.protocol, host |-> c.host, slave |-> c.slave,
           model |-> c.model, prefix |-> c.prefix, uid |-> c.uid, name |-> c.name,
           advanced |-> c.advanced]
  BY DEF InverterDataToDict
<1>4. c \in SavedInverters
  BY ONLY <1>1, <1>2, <1>3, c.adapter \in Adapters, c.host \in Hosts, c.slave \in Slaves,
     c.prefix \in Prefixes \cup Range(Slug) \cup Names,
     c.uid \in Names \cup {""}, c.name \in Names \cup {""} DEF SavedInverters
<1> QED BY <1>4, NoneAssumption

(* The records that are made from nothing have all their fields. *)
LEMMA MadeWhole ==
    /\ IsForm(Fresh) /\ IsOptions(NoOptions) /\ DOMAIN NoData = DraftFields
    /\ \A d : IsSaved(InverterDataToDict(d))
    /\ \A c : DOMAIN DictToInverterData(c) = DraftFields
<1>1. DOMAIN NoData = DraftFields
  BY DEF NoData, DraftFields
<1>2. IsForm(Fresh)
  <2>1. DOMAIN Fresh = FormFields /\ Fresh.draft = NoData
    BY DEF Fresh, FormFields
  <2> QED BY <1>1, <2>1 DEF IsForm
<1>3. IsOptions(NoOptions)
  BY DEF NoOptions, IsOptions
<1>4. \A d : IsSaved(InverterDataToDict(d))
  BY DEF InverterDataToDict, IsSaved, SavedFields
<1>5. \A c : DOMAIN DictToInverterData(c) = DraftFields
  BY DEF DictToInverterData, DraftFields
<1> QED BY <1>1, <1>2, <1>3, <1>4, <1>5

(* An InverterData as it is saved. *)
LEMMA DictOf ==
    ASSUME NEW d, NEW c, c = InverterDataToDict(d)
    PROVE  /\ c.adapter = d.adapter /\ c.protocol = d.protocol /\ c.host = d.host
           /\ c.slave = d.slave /\ c.model = d.model /\ c.prefix = OrEmpty(d.prefix)
           /\ c.uid = OrEmpty(d.uid) /\ c.name = OrEmpty(d.name) /\ c.advanced = None
BY DEF InverterDataToDict

(* What was saved, as an InverterData, is the same inverter. *)
LEMMA DataOf ==
    ASSUME NEW c, c.uid # None, c.prefix # None, c.name \in Names \cup {""}
    PROVE  /\ SameIdentity(InverterDataToDict(DictToInverterData(c)), c)
           /\ InverterDataToDict(DictToInverterData(c)).name \in Names \cup {""}
           /\ SameConnection(DictToInverterData(c), c)
<1> DEFINE d == DictToInverterData(c)
<1>1. /\ d.uid = OrNone(c.uid) /\ d.prefix = OrNone(c.prefix)
      /\ d.name = IF c.prefix = "" THEN None ELSE c.name
      /\ d.protocol = c.protocol /\ d.host = c.host /\ d.slave = c.slave
  BY DEF DictToInverterData
<1> HIDE DEF d
<1>2. None # "" /\ c.name # None
  BY NoneIsNoText
<1>3. OrEmpty(OrNone(c.uid)) = c.uid /\ OrEmpty(OrNone(c.prefix)) = c.prefix
  BY <1>2 DEF OrEmpty, OrNone
<1>4. c.prefix # "" => OrEmpty(d.name) = c.name
  BY <1>1, <1>2 DEF OrEmpty
<1>5. /\ InverterDataToDict(d).uid = c.uid /\ InverterDataToDict(d).prefix = c.prefix
      /\ InverterDataToDict(d).name = OrEmpty(d.name)
  BY <1>1, <1>3 DEF InverterDataToDict
<1>6. SameIdentity(InverterDataToDict(d), c)
  BY <1>4, <1>5 DEF SameIdentity
<1>7. InverterDataToDict(d).name \in Names \cup {""}
  BY <1>1, <1>2, <1>5 DEF OrEmpty
<1> QED BY <1>1, <1>6, <1>7 DEF SameConnection, d

(* What the options say of an inverter, or if they say nothing the data. *)
Under(o, b) == IF o.details = None THEN b ELSE o.details

(* A text of the options, or if they have none that of the data. *)
Else(x, y) == IF x = None THEN y ELSE x

(* c is what o says laid over b. *)
LaidOn(c, o, b) ==
    LET u == Under(o, b)
    IN  /\ c.adapter = u.adapter /\ c.protocol = u.protocol /\ c.host = u.host
        /\ c.slave = u.slave /\ c.model = u.model /\ c.name = u.name
        /\ c.prefix = Else(u.prefix, b.prefix) /\ c.uid = Else(u.uid, b.uid)
        /\ c.advanced = Else(o.advanced, b.advanced)
        /\ SameConnection(c, u)

LEMMA LaidIs ==
    ASSUME NEW o, NEW b, NEW c, IsSaved(b), IsOptions(o), c = Laid(o, b)
    PROVE  LaidOn(c, o, b)
<1>1. PICK x : x = IF o.advanced = None THEN b.advanced ELSE o.advanced
  OBVIOUS
<1>2. ASSUME NEW d, DOMAIN d = SavedFields, c = [d EXCEPT !.advanced = x]
      PROVE  /\ c.adapter = d.adapter /\ c.protocol = d.protocol /\ c.host = d.host
             /\ c.slave = d.slave /\ c.model = d.model /\ c.name = d.name
             /\ c.prefix = d.prefix /\ c.uid = d.uid /\ c.advanced = x
  BY ONLY <1>2 DEF SavedFields
<1>3. x = Else(o.advanced, b.advanced)
  BY <1>1 DEF Else
<1>4. CASE o.details = None
  <2>1. c = [b EXCEPT !.advanced = x]
    BY <1>1, <1>4, Zenon DEF Laid
  <2>2. /\ c.adapter = b.adapter /\ c.protocol = b.protocol /\ c.host = b.host
        /\ c.slave = b.slave /\ c.model = b.model /\ c.name = b.name
        /\ c.prefix = b.prefix /\ c.uid = b.uid /\ c.advanced = x
    BY <1>2, <2>1 DEF IsSaved
  <2>3. Under(o, b) = b /\ Else(b.prefix, b.prefix) = b.prefix /\ Else(b.uid, b.uid) = b.uid
    BY <1>4 DEF Under, Else
  <2> QED BY <1>3, <2>2, <2>3 DEF LaidOn, SameConnection
<1>5. CASE o.details # None
  <2>1. PICK p, q : p = Else(o.details.prefix, b.prefix) /\ q = Else(o.details.uid, b.uid)
    OBVIOUS
  <2>2. PICK d : d = [o.details EXCEPT !.prefix = p, !.uid = q]
    OBVIOUS
  <2>3. c = [d EXCEPT !.advanced = x]
    BY <1>1, <1>5, <2>1, <2>2, Zenon DEF Laid, Else
  <2>4. PICK e : e = o.details /\ DOMAIN e = SavedFields
    BY <1>5 DEF IsOptions, IsSaved
  <2>5. /\ d.adapter = e.adapter /\ d.protocol = e.protocol /\ d.host = e.host
        /\ d.slave = e.slave /\ d.model = e.model /\ d.name = e.name
        /\ d.prefix = p /\ d.uid = q /\ DOMAIN d = SavedFields
    <3>1. d = [e EXCEPT !.prefix = p, !.uid = q] /\ DOMAIN e = SavedFields
      BY <2>2, <2>4
    <3> QED BY ONLY <3>1 DEF SavedFields
  <2>6. /\ c.adapter = d.adapter /\ c.protocol = d.protocol /\ c.host = d.host
        /\ c.slave = d.slave /\ c.model = d.model /\ c.name = d.name
        /\ c.prefix = d.prefix /\ c.uid = d.uid /\ c.advanced = x
    BY <1>2, <2>3, <2>5
  <2>7. Under(o, b) = e
    BY <1>5, <2>4 DEF Under
  <2> QED BY <1>3, <2>1, <2>4, <2>5, <2>6, <2>7 DEF LaidOn, SameConnection
<1> QED BY <1>4, <1>5

(* Options laid over data keep the unique id, and the prefix or the former  *)
(* one, and what they settle is settled.                                    *)
CombinedOK(c, o, b) ==
    /\ c.uid = b.uid /\ (c.prefix = b.prefix \/ (born \in 4 .. 6 /\ c.prefix = b.uid))
    /\ c.uid # None /\ c.prefix # None /\ c.name \in Names \cup {""}
    /\ c.advanced \in {None, "tuned"}
    /\ c.adapter \in Adapters
    /\ (IF Outdated(o) /\ born < 6 THEN Lower(c.protocol) ELSE c.protocol)
         \in ADAPTERS[c.adapter].protocols
    /\ c.host \in Hosts /\ c.slave \in Slaves /\ c.model = Attached[c.host]

LEMMA Combined ==
    ASSUME NEW b, NEW o, NEW c, Saved(b), b.advanced = None, OptionsOK(o, b), LaidOn(c, o, b)
    PROVE  CombinedOK(c, o, b)
<1>1. b.uid # None /\ b.prefix # None
  BY NoneIsNoText DEF Saved
<1>2. c.advanced \in {None, "tuned"}
  BY DEF LaidOn, Else, OptionsOK
<1>3. CASE o.details = None
  <2>1. Under(o, b) = b /\ ~Outdated(o)
    BY <1>3 DEF Under, Outdated
  <2>2. c.uid = b.uid /\ c.prefix = b.prefix
    BY <2>1 DEF LaidOn, Else
  <2> QED BY <1>1, <1>2, <2>1, <2>2 DEF LaidOn, Saved, CombinedOK
<1>4. CASE o.details # None
  <2>1. PICK d : d = o.details /\ DetailsOK(d, b) /\ d = Under(o, b)
    BY <1>4 DEF OptionsOK, Under
  <2>2. Outdated(o) <=> d.uid = None
    BY <1>4, <2>1 DEF Outdated
  <2>3. c.uid = b.uid
    BY <2>1 DEF LaidOn, Else, DetailsOK
  <2>4. c.prefix = b.prefix \/ (born \in 4 .. 6 /\ c.prefix = b.uid)
    BY <2>1 DEF LaidOn, Else, DetailsOK
  <2>5. /\ c.adapter = d.adapter /\ c.protocol = d.protocol /\ c.host = d.host
        /\ c.slave = d.slave /\ c.model = d.model /\ c.name = d.name
    BY <2>1 DEF LaidOn
  <2>6. (IF Outdated(o) /\ born < 6 THEN Lower(c.protocol) ELSE c.protocol)
          \in ADAPTERS[c.adapter].protocols
    BY <2>1, <2>2, <2>5 DEF DetailsOK
  <2> QED BY <1>1, <1>2, <2>1, <2>3, <2>4, <2>5, <2>6 DEF DetailsOK, CombinedOK
<1> QED BY <1>3, <1>4

(* An entry of this version. *)
LEMMA CombinedLaid ==
    ASSUME Shapes, NEW i \in Inverters
    PROVE  LaidOn(CombinedConfig(i), options[i], data[i])
<1>1. CombinedConfig(i) = Laid(options[i], data[i])
  BY Zenon DEF CombinedConfig
<1> QED BY <1>1, LaidIs DEF Shapes

LEMMA LaidFields ==
    ASSUME Shapes, NEW i \in Inverters
    PROVE  DOMAIN CombinedConfig(i) = SavedFields
BY DEF CombinedConfig, Laid, Shapes, IsSaved, IsOptions

LEMMA CombinedSaved ==
    ASSUME Shapes, EntryInv, version = VERSION, NEW i \in Inverters
    PROVE  /\ CombinedOK(CombinedConfig(i), options[i], data[i])
           /\ SameConnection(CombinedConfig(i), Under(options[i], data[i]))
           /\ Saved(data[i]) /\ data[i].advanced = None /\ OptionsOK(options[i], data[i])
<1>1. Saved(data[i]) /\ data[i].advanced = None /\ OptionsOK(options[i], data[i])
  BY DEF EntryInv, SavedInv
<1>2. LaidOn(CombinedConfig(i), options[i], data[i])
  BY CombinedLaid
<1>3. SameConnection(CombinedConfig(i), Under(options[i], data[i]))
  BY <1>2 DEF LaidOn
<1>4. CombinedOK(CombinedConfig(i), options[i], data[i])
  BY <1>1, <1>2, Combined
<1> QED BY <1>1, <1>3, <1>4

-------------------------------------------------------------------------------
(* Steps that only move one dialogue.                                       *)

(* What an older version saved as options, there is for each inverter.      *)
LEMMA OldOptionsOf ==
    ASSUME NEW v, InitEntry(v)
    PROVE  DOMAIN options = DOMAIN data /\ options = [i \in DOMAIN data |-> options[i]]
<1>1. CASE v = 1
  BY <1>1 DEF InitEntry
<1>2. CASE v # 1
  <2>1. PICK S : options \in [DOMAIN data -> S]
    BY <1>2, Zenon DEF InitEntry
  <2> QED BY <2>1
<1> QED BY <1>1, <1>2

(* While nothing is saved, an entry of an older version stays what it is.   *)
LEMMA OldStays ==
    ASSUME OldInv, UNCHANGED <<version, data, options, born>>
    PROVE  OldInv'
<1>1. \A j : CombinedConfig(j)' = CombinedConfig(j)
  BY DEF CombinedConfig
<1> QED BY <1>1 DEF OldInv, InitEntry

LEMMA InitInv == ASSUME Init PROVE IInv
<1>0. MaxInverters \in Nat \ {0} /\ MaxOpened \in Nat
  BY ConfigurationAssumption
<1>1. \A d \in Dialogues : dialogue[d] = Fresh
  BY DEF Init, InitDialogues
<1>2. \A d \in Dialogues : dialogue[d].step = "closed"
  BY <1>1 DEF Fresh
<1>3. DOMAIN dialogue = Dialogues /\ setup \in Dialogues /\ Tabs \subseteq Dialogues
  BY DEF Init, InitDialogues, Dialogues
<1>4. DialogueInv
  BY <1>2, <1>3 DEF DialogueInv, SegmentOK, SetupInv, TabOK, AloneInv, Open, SegmentSteps, NameSteps
<1>5. AddedInv
  <2>1. added = <<>> /\ added \in Seq(Range(added))
    BY DEF Init, InitDialogues
  <2> QED BY <1>2, <1>3, <2>1 DEF AddedInv
<1>6. opened \in 0 .. MaxOpened /\ energy = {}
  <2>1. opened = 0 /\ energy = {}
    BY DEF Init, InitDialogues
  <2> QED BY <1>0, <2>1
<1>7. ASSUME version = 0, data = <<>>, options = <<>>, born = 0
      PROVE  EntryInv
  <2>1. /\ Len(data) = 0 /\ Len(options) = 0
        /\ DOMAIN data = 1 .. 0 /\ DOMAIN options = 1 .. 0
    BY <1>7
  <2> QED BY <1>6, <1>7, <2>1 DEF EntryInv, VERSION
<1>8. ASSUME NEW v \in 1 .. VERSION - 1, InitEntry(v)
      PROVE  EntryInv
  <2>1. PICK n \in 1 .. MaxInverters : data \in [1 .. n -> OldInverters(v)]
    <3>1. data \in OldEntries(v)
      BY <1>8 DEF InitEntry
    <3> HIDE DEF OldInverters
    <3> QED BY <3>1 DEF OldEntries
  <2>2. DOMAIN data = 1 .. n /\ DOMAIN options = 1 .. n /\ n \in Nat
    <3>1. DOMAIN data = 1 .. n
      BY <2>1
    <3>2. DOMAIN options = DOMAIN data
      BY <1>8, OldOptionsOf
    <3> QED BY <1>0, <3>1, <3>2
  <2>3. Len(data) = n /\ Len(options) = n
    <3>1. options = [i \in 1 .. n |-> options[i]]
      BY <1>8, <2>2, OldOptionsOf
    <3> QED BY <2>1, <2>2, <3>1
  <2>4. version = v
    BY <1>8 DEF InitEntry
  <2> QED BY <1>6, <1>8, <2>2, <2>3, <2>4 DEF EntryInv, OldInv, VERSION
<1>9. EntryInv
  BY <1>6, <1>7, <1>8 DEF Init, EntryInv, VERSION
<1> QED BY <1>4, <1>5, <1>9 DEF IInv

(* Nothing is saved, but perhaps a tab is opened. *)
LEMMA EntryStays ==
    ASSUME EntryInv, UNCHANGED <<version, data, options, energy, born>>,
           opened' \in 0 .. MaxOpened, overlapped => overlapped'
    PROVE  EntryInv'
<1>1. \A j : CombinedConfig(j)' = CombinedConfig(j)
  BY DEF CombinedConfig
<1>2. version \in 1 .. VERSION - 1 => OldInv'
  BY OldStays DEF EntryInv
<1>3. version = VERSION => SavedInv'
  BY DEF EntryInv, SavedInv, OptionsOK, DetailsOK, Inverters
<1>4. version = VERSION => DistinctInv'
  BY <1>1 DEF EntryInv, DistinctInv, Inverters
<1> QED BY <1>2, <1>3, <1>4 DEF EntryInv, VERSION

(* There are no tabs before there is an entry of this version. *)
LEMMA TabsClosed ==
    ASSUME IInv, version # VERSION, NEW t \in Tabs
    PROVE  dialogue[t].step = "closed"
BY DEF IInv, DialogueInv, TabOK

(* One dialogue goes from one form to another. *)
LEMMA DialogueMoves ==
    ASSUME IInv, NEW d \in Dialogues, DOMAIN dialogue' = Dialogues,
           \A e \in Dialogues \ {d} : dialogue'[e] = dialogue[e],
           UNCHANGED <<entry, added, energy, opened, history>>,
           SegmentOK(d)',
           d = setup => SetupInv' /\ version = 0,
           d \in Tabs => TabOK(d)' /\ Open(d)
    PROVE  IInv'
<1>0. /\ UNCHANGED <<version, data, options, added, energy, opened, overlapped, born>>
      /\ setup \in Dialogues /\ Tabs \subseteq Dialogues /\ setup \notin Tabs
  BY TabsAssumption DEF entry, history, Dialogues
<1>1. \A j : CombinedConfig(j)' = CombinedConfig(j)
  BY <1>0 DEF CombinedConfig
<1>2. EntryInv'
  <2>1. opened' \in 0 .. MaxOpened
    BY <1>0 DEF IInv, EntryInv
  <2> QED BY <1>0, <2>1, EntryStays DEF IInv
<1>3. AddedInv'
  <2>1. version # 0 => d # setup
    OBVIOUS
  <2>2. version # 0 => dialogue'[setup] = dialogue[setup]
    BY <1>0, <2>1
  <2> QED BY <1>0, <2>2 DEF IInv, AddedInv
<1>4. ASSUME NEW e \in Dialogues, e # d
      PROVE  SegmentOK(e)' /\ (e \in Tabs => TabOK(e)') /\ (e = setup => SetupInv')
  <2>1. dialogue'[e] = dialogue[e] /\ SegmentOK(e)
    BY <1>4 DEF IInv, DialogueInv
  <2>2. OtherInverters(e)' = OtherInverters(e)
    BY <1>0, <2>1 DEF OtherInverters
  <2>3. SegmentOK(e)'
    BY <2>1, <2>2 DEF SegmentOK
  <2>4. ASSUME e \in Tabs PROVE TabOK(e)'
    <3>1. TabOK(e)
      BY <2>4 DEF IInv, DialogueInv
    <3> QED BY <1>0, <1>1, <2>1, <3>1 DEF TabOK, Knows, Inverters
  <2>5. e = setup => SetupInv'
    BY <1>0, <2>1 DEF IInv, DialogueInv, SetupInv
  <2> QED BY <2>3, <2>4, <2>5
<1>5. AloneInv'
  <2>1. \A t \in Tabs : Open(t)' => Open(t)
    BY <1>0 DEF Open
  <2> QED BY <1>0, <2>1 DEF IInv, DialogueInv, AloneInv
<1>6. DialogueInv'
  BY <1>0, <1>4, <1>5 DEF DialogueInv
<1> QED BY <1>2, <1>3, <1>6 DEF IInv

-------------------------------------------------------------------------------
(* The segment.                                                             *)

LEMMA FiniteAdapters == IsFiniteSet(DOMAIN ADAPTERS)
<1>1. \A S, a, b, c, e : IsFiniteSet(S) => IsFiniteSet(S \cup {a, b, c, e})
  <2>1. \A S, a : IsFiniteSet(S) => IsFiniteSet(S \cup {a})
    BY FS_AddElement
  <2>2. ASSUME NEW S, NEW a, NEW b, NEW c, NEW e, IsFiniteSet(S)
        PROVE  IsFiniteSet(S \cup {a, b, c, e})
    <3>1. IsFiniteSet(((S \cup {a}) \cup {b}) \cup {c})
      BY <2>1, <2>2
    <3>2. IsFiniteSet((((S \cup {a}) \cup {b}) \cup {c}) \cup {e})
      BY <2>1, <3>1
    <3>3. (((S \cup {a}) \cup {b}) \cup {c}) \cup {e} = S \cup {a, b, c, e}
      OBVIOUS
    <3> QED BY <3>2, <3>3
  <2> QED BY <2>2
<1> DEFINE A == {"direct", "dsd_tech_sh_u10", "runcci_yun_usb_to_rs485_converter",
                 "waveshare_usb_to_rs485_b"}
           B == {"serial_other", "elfin_ew11", "usr_tcp232_304", "usr_tcp232_410s"}
           C == {"usr_w610", "waveshare_rs485_to_eth_b", "ebyte_na111_series", "network_other"}
<1>2. IsFiniteSet((({} \cup A) \cup B) \cup C)
  BY <1>1, FS_EmptySet
<1>3. DOMAIN ADAPTERS = (({} \cup A) \cup B) \cup C
  BY DEF ADAPTERS
<1> QED BY <1>2, <1>3

(* If there is only one adapter of a type, it is the one that is meant.     *)
LEMMA OneAdapter ==
    ASSUME NEW x \in Adapters,
           NEW S, S = {a \in DOMAIN ADAPTERS : ADAPTERS[a].type = ADAPTERS[x].type},
           Cardinality(S) = 1
    PROVE  (CHOOSE a \in S : TRUE) \in Adapters
<1>1. x \in S
  BY ConfigurationAssumption
<1>2. IsFiniteSet(S)
  BY FiniteAdapters, FS_Subset
<1>3. PICK y : S = {y}
  BY <1>2, FS_Singleton
<1>4. (CHOOSE a \in S : TRUE) = x
  BY <1>1, <1>3
<1> QED BY <1>4

(* A step within the segment leaves the identity and the others alone.      *)
LEMMA SegmentMoves ==
    ASSUME IInv, NEW d \in Dialogues, DOMAIN dialogue' = Dialogues,
           \A e \in Dialogues \ {d} : dialogue'[e] = dialogue[e],
           UNCHANGED <<entry, added, energy, opened, history>>,
           dialogue[d].step \in SegmentSteps, dialogue'[d].step \in SegmentSteps,
           dialogue'[d].id = dialogue[d].id, dialogue'[d].others = dialogue[d].others,
           dialogue'[d].draft.uid = dialogue[d].draft.uid,
           dialogue'[d].draft.prefix = dialogue[d].draft.prefix,
           dialogue'[d].draft.name = dialogue[d].draft.name,
           SegmentOK(d)'
    PROVE  IInv'
<1>0. UNCHANGED <<version, data, options, overlapped>>
  BY DEF entry, history
<1>1. \A j : CombinedConfig(j)' = CombinedConfig(j)
  BY <1>0 DEF CombinedConfig
<1>2. d = setup => SetupInv' /\ version = 0
  BY DEF IInv, AddedInv, SetupInv, SegmentSteps, NameSteps
<1>3. ASSUME d \in Tabs PROVE TabOK(d)' /\ Open(d)
  <2>1. TabOK(d) /\ Open(d)
    BY <1>3 DEF IInv, DialogueInv, Open, SegmentSteps
  <2> DEFINE r == dialogue[d]
             c == InverterDataToDict(dialogue[d].draft)
             k == InverterDataToDict(dialogue'[d].draft)
  <2>2. /\ version = VERSION /\ r.id \in Inverters /\ SameIdentity(c, CombinedConfig(r.id))
        /\ c.name \in Names \cup {""}
        /\ ~overlapped => \A j \in Inverters : j # r.id =>
             \E o \in r.others : SameConnection(o, CombinedConfig(j))
    BY <2>1 DEF TabOK, Knows, SegmentSteps
  <2>3. k.uid = c.uid /\ k.prefix = c.prefix /\ k.name = c.name
    BY DEF InverterDataToDict
  <2> HIDE DEF c, k
  <2>4. SameIdentity(k, CombinedConfig(r.id)) /\ k.name \in Names \cup {""}
    BY <2>2, <2>3 DEF SameIdentity
  <2>5. TabOK(d)'
    BY <1>0, <1>1, <2>2, <2>4 DEF TabOK, Knows, SegmentSteps, k, Inverters
  <2> QED BY <2>1, <2>5
<1> QED BY <1>2, <1>3, DialogueMoves

LEMMA SelectAdapterTypeInv ==
    ASSUME Shapes, IInv, NEW d \in Dialogues, SelectAdapterType(d)
    PROVE  IInv'
<1>1. DOMAIN dialogue = Dialogues /\ dialogue[d].step = "select_adapter_type"
  BY DEF IInv, DialogueInv, SelectAdapterType
<1>2. PICK type \in {ADAPTERS[a].type : a \in Adapters} :
        LET adapters == {a \in DOMAIN ADAPTERS : ADAPTERS[a].type = type}
            one == Cardinality(adapters) = 1
        IN  dialogue' = [dialogue EXCEPT ![d].draft.type = type,
              ![d].draft.adapter = IF one THEN CHOOSE a \in adapters : TRUE ELSE @,
              ![d].step = IF one THEN "adapter" ELSE "select_adapter_model"]
  BY DEF SelectAdapterType
<1> DEFINE S == {a \in DOMAIN ADAPTERS : ADAPTERS[a].type = type}
           one == Cardinality(S) = 1
           adapter == IF one THEN CHOOSE a \in S : TRUE ELSE dialogue[d].draft.adapter
           step == IF one THEN "adapter" ELSE "select_adapter_model"
<1>3. one => adapter \in Adapters
  <2>1. PICK x \in Adapters : type = ADAPTERS[x].type
    OBVIOUS
  <2> QED BY <2>1, OneAdapter
<1>4. dialogue' = [dialogue EXCEPT ![d].draft.type = type,
                     ![d].draft.adapter = adapter, ![d].step = step]
  BY <1>2
<1>5. step \in SegmentSteps /\ step # "detecting" /\ (step = "adapter" => one)
  BY DEF SegmentSteps
<1> HIDE DEF S, one, adapter, step
<1>6. /\ DOMAIN dialogue' = Dialogues
      /\ \A e \in Dialogues \ {d} : dialogue'[e] = dialogue[e]
  BY <1>1, <1>4
<1>7. /\ dialogue'[d].id = dialogue[d].id /\ dialogue'[d].others = dialogue[d].others
      /\ dialogue'[d].step = step
  BY <1>1, <1>4 DEF Shapes, IsForm, FormFields
<1>8. /\ dialogue'[d].draft.uid = dialogue[d].draft.uid
      /\ dialogue'[d].draft.prefix = dialogue[d].draft.prefix
      /\ dialogue'[d].draft.name = dialogue[d].draft.name
      /\ dialogue'[d].draft.adapter = adapter
  BY <1>1, <1>4 DEF Shapes, IsForm, FormFields, DraftFields
<1>9. SegmentOK(d)'
  BY <1>3, <1>5, <1>7, <1>8 DEF SegmentOK
<1>10. UNCHANGED <<entry, added, energy, opened, history>>
  BY DEF SelectAdapterType
<1> QED BY <1>1, <1>5, <1>6, <1>7, <1>8, <1>9, <1>10, SegmentMoves DEF SegmentSteps

LEMMA SelectAdapterModelInv ==
    ASSUME Shapes, IInv, NEW d \in Dialogues, SelectAdapterModel(d)
    PROVE  IInv'
<1>1. DOMAIN dialogue = Dialogues /\ dialogue[d].step = "select_adapter_model"
  BY DEF IInv, DialogueInv, SelectAdapterModel
<1>2. PICK a \in Adapters :
        dialogue' = [dialogue EXCEPT ![d].draft.adapter = a, ![d].step = "adapter"]
  BY DEF SelectAdapterModel
<1>3. /\ DOMAIN dialogue' = Dialogues
      /\ \A e \in Dialogues \ {d} : dialogue'[e] = dialogue[e]
  BY <1>1, <1>2
<1>4. /\ dialogue'[d].id = dialogue[d].id /\ dialogue'[d].others = dialogue[d].others
      /\ dialogue'[d].draft.uid = dialogue[d].draft.uid
      /\ dialogue'[d].draft.prefix = dialogue[d].draft.prefix
      /\ dialogue'[d].draft.name = dialogue[d].draft.name
      /\ dialogue'[d].step = "adapter" /\ dialogue'[d].draft.adapter = a
  BY <1>1, <1>2 DEF Shapes, IsForm, FormFields, DraftFields
<1>5. SegmentOK(d)'
  BY <1>4 DEF SegmentOK
<1>6. UNCHANGED <<entry, added, energy, opened, history>>
  BY DEF SelectAdapterModel
<1> QED BY <1>1, <1>3, <1>4, <1>5, <1>6, SegmentMoves DEF SegmentSteps

LEMMA SubmitConnectionInv ==
    ASSUME Shapes, IInv, NEW d \in Dialogues, SubmitConnection(d)
    PROVE  IInv'
<1>1. /\ DOMAIN dialogue = Dialogues /\ dialogue[d].step = "adapter"
      /\ dialogue[d].draft.adapter \in Adapters
  BY DEF IInv, DialogueInv, SegmentOK, SubmitConnection
<1>2. PICK c : /\ c.protocol \in ADAPTERS[dialogue[d].draft.adapter].protocols
               /\ c.host \in Hosts /\ c.slave \in Slaves
               /\ ~DuplicateConnection(d, c)
               /\ dialogue' = [dialogue EXCEPT ![d].step = "detecting", ![d].trying = c]
  <2>1. PICK p \in ADAPTERS[dialogue[d].draft.adapter].protocols, h \in Hosts, s \in Slaves :
          LET c == [protocol |-> p, host |-> h, slave |-> s]
          IN  /\ ~DuplicateConnection(d, c)
              /\ dialogue' = [dialogue EXCEPT ![d].step = "detecting", ![d].trying = c]
    BY DEF SubmitConnection
  <2> DEFINE c == [protocol |-> p, host |-> h, slave |-> s]
  <2>2. c.protocol = p /\ c.host = h /\ c.slave = s
    OBVIOUS
  <2> HIDE DEF c
  <2>3. /\ ~DuplicateConnection(d, c)
        /\ dialogue' = [dialogue EXCEPT ![d].step = "detecting", ![d].trying = c]
    BY <2>1 DEF c
  <2> QED BY <2>2, <2>3
<1>3. /\ DOMAIN dialogue' = Dialogues
      /\ \A e \in Dialogues \ {d} : dialogue'[e] = dialogue[e]
  BY <1>1, <1>2
<1>4. /\ dialogue'[d].id = dialogue[d].id /\ dialogue'[d].others = dialogue[d].others
      /\ dialogue'[d].draft = dialogue[d].draft
      /\ dialogue'[d].step = "detecting" /\ dialogue'[d].trying = c
  BY <1>1, <1>2 DEF Shapes, IsForm, FormFields
<1>5. UNCHANGED <<entry, added, energy, opened, history>>
  BY DEF SubmitConnection
<1>6. \A o \in OtherInverters(d) : ~SameConnection(o, c)
  BY <1>2 DEF DuplicateConnection
<1>7. OtherInverters(d)' = OtherInverters(d)
  BY <1>4, <1>5 DEF OtherInverters
<1>8. SegmentOK(d)'
  BY <1>1, <1>2, <1>4, <1>6, <1>7 DEF SegmentOK
<1> QED BY <1>1, <1>3, <1>4, <1>5, <1>8, SegmentMoves DEF SegmentSteps

LEMMA DetectionFailsInv ==
    ASSUME Shapes, IInv, NEW d \in Dialogues, DetectionFails(d)
    PROVE  IInv'
<1>1. /\ DOMAIN dialogue = Dialogues /\ dialogue[d].step = "detecting"
      /\ dialogue[d].draft.adapter \in Adapters
      /\ dialogue' = [dialogue EXCEPT ![d].step = "adapter", ![d].trying = None]
  BY DEF IInv, DialogueInv, SegmentOK, DetectionFails
<1>2. /\ DOMAIN dialogue' = Dialogues
      /\ \A e \in Dialogues \ {d} : dialogue'[e] = dialogue[e]
  BY <1>1
<1>3. /\ dialogue'[d].id = dialogue[d].id /\ dialogue'[d].others = dialogue[d].others
      /\ dialogue'[d].draft = dialogue[d].draft /\ dialogue'[d].step = "adapter"
  BY <1>1 DEF Shapes, IsForm, FormFields
<1>4. SegmentOK(d)'
  BY <1>1, <1>3 DEF SegmentOK
<1>5. UNCHANGED <<entry, added, energy, opened, history>>
  BY DEF DetectionFails
<1> QED BY <1>1, <1>2, <1>3, <1>4, <1>5, SegmentMoves DEF SegmentSteps

LEMMA CloseInv ==
    ASSUME IInv, NEW d \in Dialogues, Close(d)
    PROVE  IInv'
<1>1. /\ DOMAIN dialogue = Dialogues /\ dialogue' = [dialogue EXCEPT ![d] = Fresh]
      /\ dialogue[d].step # "closed" /\ setup \in Dialogues /\ Tabs \subseteq Dialogues
      /\ UNCHANGED <<entry, energy, opened, history>> /\ Fresh.step = "closed"
  BY DEF IInv, DialogueInv, Close, Dialogues, Fresh
<1>2. /\ DOMAIN dialogue' = Dialogues /\ dialogue'[d].step = "closed"
      /\ \A e \in Dialogues \ {d} : dialogue'[e] = dialogue[e]
  BY <1>1
<1>3. SegmentOK(d)'
  BY <1>2 DEF SegmentOK
<1>4. CASE d # setup
  <2>1. d \in Tabs /\ UNCHANGED added /\ Open(d)
    BY <1>1, <1>4 DEF Close, Dialogues, Open
  <2>2. TabOK(d)'
    BY <1>2 DEF TabOK, SegmentSteps
  <2> QED BY <1>1, <1>2, <1>3, <1>4, <2>1, <2>2, DialogueMoves
<1>5. CASE d = setup
  <2>0. /\ added' = <<>> /\ version = 0
        /\ UNCHANGED <<version, data, options, energy, opened, overlapped, born>>
    BY <1>1, <1>5 DEF Close, IInv, AddedInv, entry, history
  <2>1. EntryInv'
    BY <2>0 DEF EntryInv, IInv, VERSION
  <2>2. AddedInv'
    <3>1. added' \in Seq(Range(added')) /\ DOMAIN added' = {}
      BY <2>0
    <3> QED BY <2>0, <3>1 DEF AddedInv
  <2>3. \A t \in Tabs : t # setup /\ dialogue'[t] = dialogue[t]
    BY <1>1, <1>2, <1>5, TabsAssumption
  <2>4. ASSUME NEW t \in Tabs PROVE SegmentOK(t)' /\ TabOK(t)'
    <3>1. dialogue[t].step = "closed"
      BY <2>0, TabsClosed DEF VERSION
    <3> QED BY <2>3, <3>1 DEF SegmentOK, TabOK, SegmentSteps
  <2>5. AloneInv'
    <3>1. \A t \in Tabs : Open(t)' => Open(t)
      BY <2>3 DEF Open
    <3> QED BY <2>0, <3>1 DEF IInv, DialogueInv, AloneInv
  <2>6. SetupInv'
    BY <1>2, <1>5 DEF SetupInv, NameSteps
  <2>7. DialogueInv'
    BY <1>2, <1>3, <1>5, <2>4, <2>5, <2>6 DEF DialogueInv, Dialogues
  <2> QED BY <2>1, <2>2, <2>7 DEF IInv
<1> QED BY <1>4, <1>5

-------------------------------------------------------------------------------
(* The set-up.                                                              *)

(* The set-up shows another form. *)
LEMMA SetupShows ==
    ASSUME Shapes, IInv, version = 0, NEW step, Show(setup, step),
           UNCHANGED <<entry, added, energy, opened, history>>,
           step \in {"select_adapter_type", "select_adapter_model"} \cup NameSteps,
           step \in NameSteps => dialogue[setup].step \in NameSteps
    PROVE  IInv'
<1>1. /\ DOMAIN dialogue = Dialogues /\ setup \in Dialogues /\ setup \notin Tabs
      /\ dialogue' = [dialogue EXCEPT ![setup].step = step]
  BY TabsAssumption DEF IInv, DialogueInv, Dialogues, Show
<1>2. /\ DOMAIN dialogue' = Dialogues /\ dialogue'[setup].step = step
      /\ dialogue'[setup].draft = dialogue[setup].draft
      /\ \A e \in Dialogues \ {setup} : dialogue'[e] = dialogue[e]
  BY <1>1 DEF Shapes, IsForm, FormFields
<1>3. SegmentOK(setup)'
  BY <1>2 DEF SegmentOK, NameSteps
<1>4. SetupInv'
  BY <1>2 DEF IInv, DialogueInv, SetupInv, SegmentSteps, NameSteps
<1> QED BY <1>1, <1>2, <1>3, <1>4, DialogueMoves

LEMMA SetupDetectedInv ==
    ASSUME Shapes, IInv, SetupDetected
    PROVE  IInv'
<1> DEFINE c == dialogue[setup].trying
           r == dialogue[setup].draft
           x == Detected(setup)
<1>1. /\ DOMAIN dialogue = Dialogues /\ setup \in Dialogues /\ setup \notin Tabs
      /\ dialogue[setup].step = "detecting" /\ version = 0
      /\ dialogue' = [dialogue EXCEPT ![setup].step = "friendly_name",
                        ![setup].draft = x, ![setup].trying = None]
  BY TabsAssumption DEF IInv, DialogueInv, AddedInv, Dialogues, SetupDetected
<1>2. /\ x.adapter = r.adapter /\ x.protocol = c.protocol /\ x.host = c.host
      /\ x.slave = c.slave /\ x.model = Attached[c.host]
  BY <1>1 DEF Detected, Shapes, IsForm, DraftFields
<1>3. /\ r.adapter \in Adapters /\ c.protocol \in ADAPTERS[r.adapter].protocols
      /\ c.host \in Hosts /\ c.slave \in Slaves
      /\ \A o \in Range(added) : ~SameConnection(o, c)
  <2>1. SegmentOK(setup) /\ OtherInverters(setup) = Range(added)
    BY <1>1 DEF IInv, DialogueInv, OtherInverters
  <2> QED BY <1>1, <2>1 DEF SegmentOK
<1> HIDE DEF x
<1>4. Settled(x) /\ \A o \in Range(added) : ~SameConnection(o, x)
  BY <1>2, <1>3 DEF Settled, SameConnection
<1>5. /\ DOMAIN dialogue' = Dialogues /\ dialogue'[setup].step = "friendly_name"
      /\ dialogue'[setup].draft = x
      /\ \A e \in Dialogues \ {setup} : dialogue'[e] = dialogue[e]
  BY <1>1 DEF Shapes, IsForm, FormFields
<1>6. UNCHANGED <<entry, added, energy, opened, history>>
  BY DEF SetupDetected
<1>7. SegmentOK(setup)' /\ SetupInv'
  BY <1>4, <1>5, <1>6 DEF SegmentOK, SetupInv, NameSteps
<1> QED BY <1>1, <1>5, <1>6, <1>7, DialogueMoves

LEMMA Appended ==
    \A s, x, a : s \in Seq(Range(s)) /\ a = Append(s, x) =>
      /\ a \in Seq(Range(a)) /\ Range(a) = Range(s) \cup {x}
      /\ Len(s) \in Nat /\ DOMAIN s = 1 .. Len(s) /\ DOMAIN a = 1 .. Len(s) + 1
      /\ a[Len(s) + 1] = x /\ \A k \in DOMAIN s : a[k] = s[k]
<1> SUFFICES ASSUME NEW s, NEW x, NEW a, s \in Seq(Range(s)), a = Append(s, x)
             PROVE  /\ a \in Seq(Range(a)) /\ Range(a) = Range(s) \cup {x}
                    /\ Len(s) \in Nat /\ DOMAIN s = 1 .. Len(s) /\ DOMAIN a = 1 .. Len(s) + 1
                    /\ a[Len(s) + 1] = x /\ \A k \in DOMAIN s : a[k] = s[k]
  OBVIOUS
<1> DEFINE R == Range(s)
           n == Len(s)
<1>0. s \in Seq(R)
  OBVIOUS
<1> HIDE DEF R
<1>1. s \in Seq(R \cup {x})
  BY <1>0, R \subseteq R \cup {x}
<1>2. n \in Nat /\ DOMAIN s = 1 .. n
  BY <1>0
<1>3. /\ a \in Seq(R \cup {x}) /\ Len(a) = n + 1 /\ DOMAIN a = 1 .. n + 1
      /\ a[n + 1] = x /\ \A k \in 1 .. n : a[k] = s[k]
  BY <1>1, <1>2
<1> HIDE DEF n
<1>4. Range(a) = R \cup {x}
  <2>1. ASSUME NEW y \in Range(a) PROVE y \in R \cup {x}
    BY <1>2, <1>3, <2>1 DEF Range, R
  <2>2. ASSUME NEW y \in R \cup {x} PROVE y \in Range(a)
    <3>1. CASE y = x
      <4>1. n + 1 \in DOMAIN a
        BY <1>2, <1>3
      <4> QED BY <1>3, <3>1, <4>1 DEF Range
    <3>2. CASE y \in R
      <4>1. PICK k \in 1 .. n : y = s[k]
        BY <1>2, <3>2 DEF Range, R
      <4>2. k \in DOMAIN a /\ y = a[k]
        BY <1>2, <1>3, <4>1
      <4> QED BY <4>2 DEF Range
    <3> QED BY <2>2, <3>1, <3>2
  <2> QED BY <2>1, <2>2
<1> QED BY <1>2, <1>3, <1>4 DEF n, R

(* The inverter that was detected joins the list, under a new name and a    *)
(* new prefix.                                                              *)
LEMMA AddInverterInv ==
    ASSUME Shapes, IInv, NEW name \in Names, NEW prefix \in Prefixes \cup Range(Slug),
           dialogue[setup].step \in NameSteps, ~DuplicateName(name), UniquePrefix(prefix),
           AddInverter(name, prefix), UNCHANGED <<entry, energy, opened, history>>
    PROVE  IInv'
<1> DEFINE r == dialogue[setup].draft
           x == [r EXCEPT !.prefix = prefix, !.uid = name, !.name = name]
           n == Len(added)
<1>0. /\ DOMAIN dialogue = Dialogues /\ setup \in Dialogues /\ setup \notin Tabs
      /\ version = 0 /\ added' = Append(added, x)
      /\ dialogue' = [dialogue EXCEPT ![setup].draft = NoData, ![setup].step = "add_another"]
      /\ UNCHANGED <<version, data, options, energy, opened, overlapped, born>>
  BY TabsAssumption DEF IInv, DialogueInv, AddedInv, Dialogues, AddInverter, NameSteps, entry, history
<1>1. /\ x.adapter = r.adapter /\ x.protocol = r.protocol /\ x.host = r.host
      /\ x.slave = r.slave /\ x.model = r.model
      /\ x.prefix = prefix /\ x.uid = name /\ x.name = name
  BY <1>0 DEF Shapes, IsForm, DraftFields
<1>2. Settled(r) /\ \A o \in Range(added) : ~SameConnection(o, r)
  BY DEF IInv, DialogueInv, SetupInv
<1> HIDE DEF x
<1>3. Settled(x) /\ Named(x) /\ \A o \in Range(added) : ~SameConnection(o, x)
  BY <1>1, <1>2 DEF Settled, Named, SameConnection
<1>4. /\ added' \in Seq(Range(added')) /\ Range(added') = Range(added) \cup {x}
      /\ n \in Nat /\ DOMAIN added = 1 .. n /\ DOMAIN added' = 1 .. n + 1
      /\ added'[n + 1] = x /\ \A k \in 1 .. n : added'[k] = added[k]
  <2>1. added \in Seq(Range(added))
    BY DEF IInv, AddedInv
  <2>2. added' = Append(added, x)
    BY <1>0
  <2>3. added' \in Seq(Range(added'))
    BY <2>1, <2>2, Appended
  <2>4. Range(added') = Range(added) \cup {x}
    BY <2>1, <2>2, Appended
  <2>5. n \in Nat /\ DOMAIN added = 1 .. n /\ DOMAIN added' = 1 .. n + 1
    BY <2>1, <2>2, Appended
  <2>6. added'[n + 1] = x
    BY <2>1, <2>2, Appended
  <2>7. \A k \in 1 .. n : added'[k] = added[k]
    BY <2>1, <2>2, <2>5, Appended
  <2> HIDE DEF n
  <2> QED BY <2>3, <2>4, <2>5, <2>6, <2>7
<1> HIDE DEF n
<1>5. \A k \in 1 .. n :
        /\ added[k].name # x.name /\ added[k].prefix # x.prefix
        /\ ~SameConnection(added[k], x)
  <2>1. \A k \in 1 .. n : added[k] \in Range(added)
    BY <1>4 DEF Range
  <2> QED BY <1>1, <1>3, <2>1 DEF DuplicateName, UniquePrefix
<1>6. AddedInv'
  <2>1. \A k \in DOMAIN added' : Settled(added'[k]) /\ Named(added'[k])
    BY <1>3, <1>4 DEF IInv, AddedInv
  <2>2. ASSUME NEW k \in 1 .. n + 1, NEW l \in 1 .. n + 1, k # l
        PROVE  /\ added'[k].name # added'[l].name /\ added'[k].prefix # added'[l].prefix
               /\ ~SameConnection(added'[k], added'[l])
    <3>1. CASE k \in 1 .. n /\ l \in 1 .. n
      BY <1>4, <2>2, <3>1 DEF IInv, AddedInv
    <3>2. CASE k \in 1 .. n /\ l = n + 1
      BY <1>4, <1>5, <3>2
    <3>3. CASE k = n + 1 /\ l \in 1 .. n
      BY <1>4, <1>5, <3>3 DEF SameConnection
    <3> QED BY <1>4, <2>2, <3>1, <3>2, <3>3
  <2> QED BY <1>0, <1>4, <2>1, <2>2 DEF AddedInv
<1>7. /\ DOMAIN dialogue' = Dialogues /\ dialogue'[setup].step = "add_another"
      /\ \A e \in Dialogues \ {setup} : dialogue'[e] = dialogue[e]
  BY <1>0 DEF Shapes, IsForm, FormFields
<1>8. EntryInv'
  BY <1>0 DEF IInv, EntryInv, VERSION
<1>9. ASSUME NEW t \in Tabs PROVE SegmentOK(t)' /\ TabOK(t)' /\ ~Open(t)'
  <2>1. dialogue[t].step = "closed" /\ dialogue'[t] = dialogue[t]
    BY <1>0, <1>7, TabsClosed DEF VERSION, Dialogues
  <2> QED BY <2>1 DEF SegmentOK, TabOK, SegmentSteps, Open
<1>10. SegmentOK(setup)' /\ SetupInv' /\ AloneInv'
  BY <1>7, <1>9 DEF SegmentOK, SetupInv, NameSteps, AloneInv
<1>11. DialogueInv'
  BY <1>7, <1>9, <1>10 DEF DialogueInv, Dialogues
<1> QED BY <1>6, <1>8, <1>11 DEF IInv

LEMMA SubmitNameInv ==
    ASSUME Shapes, IInv, SubmitName
    PROVE  IInv'
<1>1. dialogue[setup].step \in NameSteps /\ version = 0
  BY DEF SubmitName, NameSteps, IInv, AddedInv
<1>2. PICK name \in Names :
        NameTaken(name) \/ GeneratedPrefix(name) \/ AskForPrefix(name) \/ EnteredPrefix(name)
  BY DEF SubmitName
<1>3. UNCHANGED <<entry, energy, opened, history>>
  BY DEF SubmitName
<1>4. ASSUME NEW step \in NameSteps, Show(setup, step), UNCHANGED added
      PROVE  IInv'
  BY <1>1, <1>3, <1>4, SetupShows
<1>5. ASSUME NEW prefix \in Prefixes \cup Range(Slug),
             ~DuplicateName(name), UniquePrefix(prefix), AddInverter(name, prefix)
      PROVE  IInv'
  BY <1>1, <1>3, <1>5, AddInverterInv
<1>6. CASE NameTaken(name) \/ AskForPrefix(name)
  BY <1>4, <1>6 DEF NameTaken, AskForPrefix, NameSteps
<1>7. CASE GeneratedPrefix(name)
  BY <1>4, <1>5, <1>7, NoneIsNoText DEF GeneratedPrefix, NameSteps
<1>8. CASE EnteredPrefix(name)
  BY <1>5, <1>8 DEF EnteredPrefix
<1> QED BY <1>2, <1>6, <1>7, <1>8

(* What the set-up has collected is a good entry of this version. *)
LEMMA FinishSetupInv ==
    ASSUME IInv, FinishSetup
    PROVE  IInv'
<1> DEFINE n == Len(added)
<1>0. /\ setup \in Dialogues /\ setup \notin Tabs /\ DOMAIN dialogue = Dialogues
      /\ version = 0 /\ energy = {} /\ opened \in 0 .. MaxOpened
      /\ \A t \in Tabs : dialogue[t].step = "closed"
  <2>1. version = 0
    BY DEF IInv, AddedInv, FinishSetup
  <2>2. DOMAIN dialogue = Dialogues /\ energy = {} /\ opened \in 0 .. MaxOpened
    BY <2>1 DEF IInv, DialogueInv, EntryInv, VERSION
  <2> QED BY <2>1, <2>2, TabsClosed, TabsAssumption DEF Dialogues, VERSION
<1>1. /\ energy' \in {energy, DashboardSources} /\ version' = VERSION
      /\ data' = [i \in DOMAIN added |-> InverterDataToDict(added[i])]
      /\ options' = [i \in DOMAIN added |-> NoOptions]
      /\ added' = <<>> /\ dialogue' = [dialogue EXCEPT ![setup] = Fresh]
      /\ opened' = opened
  BY DEF FinishSetup
<1>2. n \in Nat /\ DOMAIN added = 1 .. n
  BY DEF IInv, AddedInv
<1> HIDE DEF n
<1>3. /\ DOMAIN data' = 1 .. n /\ DOMAIN options' = 1 .. n
      /\ Len(data') = n /\ Len(options') = n
  <2>1. DOMAIN data' = 1 .. n /\ DOMAIN options' = 1 .. n
    BY <1>1, <1>2
  <2>2. data' = [i \in 1 .. n |-> InverterDataToDict(added[i])]
    BY <1>1, <1>2
  <2>3. options' = [i \in 1 .. n |-> NoOptions]
    BY <1>1, <1>2
  <2> QED BY <1>2, <2>1, <2>2, <2>3
<1>4. ASSUME NEW i \in 1 .. n
      PROVE  /\ Saved(data'[i]) /\ data'[i].advanced = None
             /\ data'[i].uid = added[i].name /\ data'[i].prefix = added[i].prefix
             /\ SameConnection(data'[i], added[i])
             /\ options'[i].details = None /\ options'[i].advanced = None
             /\ IsSaved(data'[i])
  <2> DEFINE x == added[i]
             c == InverterDataToDict(added[i])
  <2>1. data'[i] = c /\ options'[i] = NoOptions
    BY <1>1, <1>2
  <2>2. Settled(x) /\ Named(x)
    BY <1>2 DEF IInv, AddedInv
  <2>3. /\ c.adapter = x.adapter /\ c.protocol = x.protocol /\ c.host = x.host
        /\ c.slave = x.slave /\ c.model = x.model /\ c.prefix = OrEmpty(x.prefix)
        /\ c.uid = OrEmpty(x.uid) /\ c.name = OrEmpty(x.name) /\ c.advanced = None
    BY DEF InverterDataToDict
  <2> HIDE DEF x, c
  <2>4. c.prefix = x.prefix /\ c.uid = x.name /\ c.name = x.name
    BY <2>2, <2>3, NoneIsNoText DEF Named, OrEmpty
  <2>5. Saved(c)
    BY <2>2, <2>3, <2>4 DEF Settled, Named, Saved
  <2>6. options'[i].details = None /\ options'[i].advanced = None
    BY <2>1 DEF NoOptions
  <2>7. IsSaved(data'[i])
    BY <2>1, MadeWhole DEF c
  <2> QED BY <2>1, <2>3, <2>4, <2>5, <2>6, <2>7 DEF x, SameConnection
<1>5. SavedInv'
  BY <1>3, <1>4 DEF SavedInv, OptionsOK, Inverters
<1>6. ASSUME NEW i \in 1 .. n PROVE SameConnection(CombinedConfig(i)', added[i])
  <2>1. CombinedConfig(i)' = Laid(options'[i], data'[i])
    BY Zenon DEF CombinedConfig
  <2>2. IsOptions(options'[i]) /\ Under(options'[i], data'[i]) = data'[i]
    BY <1>1, <1>2, <1>4, MadeWhole DEF Under
  <2>3. LaidOn(CombinedConfig(i)', options'[i], data'[i])
    BY <1>4, <2>1, <2>2, LaidIs
  <2>4. SameConnection(CombinedConfig(i)', data'[i])
    BY <2>2, <2>3 DEF LaidOn
  <2> QED BY <1>4, <2>4 DEF SameConnection
<1>7. DistinctInv'
  <2>1. ASSUME NEW i \in 1 .. n, NEW j \in 1 .. n, i # j
        PROVE  /\ data'[i].uid # data'[j].uid /\ data'[i].prefix # data'[j].prefix
               /\ ~SameConnection(CombinedConfig(i)', CombinedConfig(j)')
    <3>1. /\ added[i].name # added[j].name /\ added[i].prefix # added[j].prefix
          /\ ~SameConnection(added[i], added[j])
      BY <1>2, <2>1 DEF IInv, AddedInv
    <3>2. ~SameConnection(CombinedConfig(i)', CombinedConfig(j)')
      BY <1>6, <3>1 DEF SameConnection
    <3> QED BY <1>4, <3>1, <3>2
  <2>2. DashboardSources = {data'[i].prefix : i \in 1 .. n}
    BY <1>2, <1>4 DEF DashboardSources, Range
  <2>3. born' = VERSION
    BY DEF FinishSetup
  <2> QED BY <1>0, <1>1, <1>3, <2>1, <2>2, <2>3 DEF DistinctInv, Inverters, SameConnection, VERSION
<1>8. EntryInv'
  <2>1. UNCHANGED opened /\ version' \in 0 .. VERSION
    BY <1>1 DEF VERSION
  <2> QED BY <1>0, <1>1, <1>2, <1>3, <1>5, <1>7, <2>1 DEF EntryInv, VERSION
<1>9. /\ DOMAIN dialogue' = Dialogues
      /\ \A d \in Dialogues : dialogue'[d].step = "closed"
  <2>1. Fresh.step = "closed"
    BY DEF Fresh
  <2> QED BY <1>0, <1>1, <2>1 DEF Dialogues
<1>10. AddedInv'
  <2>1. added' \in Seq(Range(added')) /\ DOMAIN added' = {}
    BY <1>1
  <2> QED BY <1>0, <1>1, <1>9, <2>1 DEF AddedInv
<1>11. DialogueInv'
  BY <1>0, <1>9 DEF DialogueInv, SegmentOK, SetupInv, TabOK, AloneInv, Open, NameSteps, SegmentSteps, Dialogues
<1> QED BY <1>8, <1>10, <1>11 DEF IInv

-------------------------------------------------------------------------------
(* The options dialogues.                                                   *)

(* A tab shows a form that has nothing to do with the adapter. *)
LEMMA TabShows ==
    ASSUME IInv, NEW t \in Tabs, Open(t), DOMAIN dialogue' = Dialogues,
           \A e \in Dialogues \ {t} : dialogue'[e] = dialogue[e],
           UNCHANGED <<entry, added, energy, opened, history>>,
           dialogue'[t].step \in {"category", "version_settings", "advanced_options"},
           dialogue'[t].id \in Inverters
    PROVE  IInv'
<1>1. t \in Dialogues /\ t # setup /\ version' = VERSION /\ UNCHANGED data
  BY TabsAssumption DEF IInv, DialogueInv, TabOK, Open, Dialogues, entry
<1>2. SegmentOK(t)' /\ TabOK(t)'
  BY <1>1 DEF SegmentOK, TabOK, SegmentSteps, Inverters
<1> QED BY <1>1, <1>2, DialogueMoves

LEMMA SelectInverterInv ==
    ASSUME Shapes, IInv, NEW t \in Tabs, SelectInverter(t)
    PROVE  IInv'
<1>1. t \in Dialogues /\ DOMAIN dialogue = Dialogues /\ Open(t)
  BY DEF IInv, DialogueInv, SelectInverter, Open, Dialogues
<1>2. PICK i \in Inverters :
        dialogue' = [dialogue EXCEPT ![t] = [Fresh EXCEPT !.step = "category", !.id = i,
                                               !.offered = VersionsOf(CombinedConfig(i))]]
  BY DEF SelectInverter, Categories
<1>3. /\ DOMAIN dialogue' = Dialogues
      /\ \A e \in Dialogues \ {t} : dialogue'[e] = dialogue[e]
      /\ dialogue'[t].step = "category" /\ dialogue'[t].id = i
  BY <1>1, <1>2, MadeWhole DEF IsForm, FormFields
<1>4. UNCHANGED <<entry, added, energy, opened, history>>
  BY DEF SelectInverter
<1> QED BY <1>1, <1>3, <1>4, TabShows

LEMMA ChangeVersionInv ==
    ASSUME Shapes, IInv, NEW t \in Tabs, ChangeVersion(t)
    PROVE  IInv'
<1>1. /\ t \in Dialogues /\ DOMAIN dialogue = Dialogues /\ Open(t)
      /\ dialogue[t].id \in Inverters
      /\ dialogue' = [dialogue EXCEPT ![t].step = "version_settings",
                        ![t].offered = VersionsOf(CombinedConfig(dialogue[t].id))]
  BY DEF IInv, DialogueInv, TabOK, ChangeVersion, Open, Dialogues
<1>2. /\ DOMAIN dialogue' = Dialogues
      /\ \A e \in Dialogues \ {t} : dialogue'[e] = dialogue[e]
      /\ dialogue'[t].step = "version_settings" /\ dialogue'[t].id = dialogue[t].id
  BY <1>1 DEF Shapes, IsForm, FormFields
<1>3. UNCHANGED <<entry, added, energy, opened, history>>
  BY DEF ChangeVersion
<1> QED BY <1>1, <1>2, <1>3, TabShows

LEMMA ChangeAdvancedInv ==
    ASSUME Shapes, IInv, NEW t \in Tabs, ChangeAdvanced(t)
    PROVE  IInv'
<1>1. /\ t \in Dialogues /\ DOMAIN dialogue = Dialogues /\ Open(t)
      /\ dialogue[t].id \in Inverters
      /\ dialogue' = [dialogue EXCEPT ![t].step = "advanced_options", ![t].offered = {}]
  BY DEF IInv, DialogueInv, TabOK, ChangeAdvanced, Open, Dialogues
<1>2. /\ DOMAIN dialogue' = Dialogues
      /\ \A e \in Dialogues \ {t} : dialogue'[e] = dialogue[e]
      /\ dialogue'[t].step = "advanced_options" /\ dialogue'[t].id = dialogue[t].id
  BY <1>1 DEF Shapes, IsForm, FormFields
<1>3. UNCHANGED <<entry, added, energy, opened, history>>
  BY DEF ChangeAdvanced
<1> QED BY <1>1, <1>2, <1>3, TabShows

(* The list of the other inverters is right when it is made. *)
LEMMA ChangeAdapterInv ==
    ASSUME Shapes, IInv, NEW t \in Tabs, ChangeAdapter(t)
    PROVE  IInv'
<1> DEFINE i == dialogue[t].id
<1>1. /\ t \in Dialogues /\ t # setup /\ DOMAIN dialogue = Dialogues /\ Open(t)
      /\ i \in Inverters /\ version = VERSION
      /\ UNCHANGED <<entry, added, energy, opened, history>>
      /\ UNCHANGED <<version, data, options, overlapped>>
  BY TabsAssumption DEF IInv, DialogueInv, TabOK, ChangeAdapter, Open, Dialogues, entry, history
<1>2. PICK table : /\ table = [j \in Inverters |-> DictToInverterData(CombinedConfig(j))]
                   /\ dialogue' = [dialogue EXCEPT ![t].step = "select_adapter_type",
                                     ![t].draft = table[i], ![t].offered = {},
                                     ![t].others = {table[j] : j \in Inverters \ {i}}]
  BY DEF ChangeAdapter
<1> DEFINE others == {table[j] : j \in Inverters \ {i}}
           draft == table[i]
<1>3. /\ DOMAIN dialogue' = Dialogues
      /\ \A e \in Dialogues \ {t} : dialogue'[e] = dialogue[e]
      /\ dialogue'[t].step = "select_adapter_type" /\ dialogue'[t].id = i
      /\ dialogue'[t].draft = draft /\ dialogue'[t].others = others
  <2>1. dialogue' = [dialogue EXCEPT ![t].step = "select_adapter_type",
                       ![t].draft = draft, ![t].offered = {}, ![t].others = others]
    BY <1>2
  <2> HIDE DEF others, draft
  <2> QED BY <1>1, <2>1 DEF Shapes, IsForm, FormFields
<1>4. ASSUME NEW j \in Inverters
      PROVE  /\ SameIdentity(InverterDataToDict(table[j]), CombinedConfig(j))
             /\ InverterDataToDict(table[j]).name \in Names \cup {""}
             /\ SameConnection(table[j], CombinedConfig(j))
  <2>1. table[j] = DictToInverterData(CombinedConfig(j))
    BY <1>2
  <2>2. /\ CombinedConfig(j).uid # None /\ CombinedConfig(j).prefix # None
        /\ CombinedConfig(j).name \in Names \cup {""}
    BY <1>1, CombinedSaved DEF IInv, CombinedOK
  <2> QED BY <2>1, <2>2, DataOf
<1>5. \A j \in Inverters : j # i =>
        \E o \in dialogue'[t].others : SameConnection(o, CombinedConfig(j))
  BY <1>3, <1>4
<1>6. \A j : CombinedConfig(j)' = CombinedConfig(j)
  BY <1>1 DEF CombinedConfig
<1>7. TabOK(t)'
  BY <1>1, <1>3, <1>4, <1>5, <1>6 DEF TabOK, Knows, SegmentSteps, Inverters
<1>8. SegmentOK(t)'
  BY <1>3 DEF SegmentOK
<1> QED BY <1>1, <1>3, <1>7, <1>8, DialogueMoves

(* A second tab is remembered. *)
LEMMA OpenOptionsInv ==
    ASSUME Shapes, IInv, NEW t \in Tabs, OpenOptions(t)
    PROVE  IInv'
<1>1. /\ t \in Dialogues /\ t # setup /\ DOMAIN dialogue = Dialogues
      /\ setup \in Dialogues /\ Tabs \subseteq Dialogues
      /\ version = VERSION /\ ~Open(t) /\ opened < MaxOpened /\ opened' = opened + 1
      /\ overlapped' = (overlapped \/ \E other \in Tabs \ {t} : Open(other))
      /\ UNCHANGED <<version, data, options, added, energy, born>>
  BY TabsAssumption DEF IInv, DialogueInv, OpenOptions, Dialogues, entry
<1>2. /\ DOMAIN dialogue' = Dialogues
      /\ \A e \in Dialogues \ {t} : dialogue'[e] = dialogue[e]
      /\ \/ dialogue'[t].step = "select_inverter"
         \/ dialogue'[t].step = "category" /\ dialogue'[t].id \in Inverters
  <2>1. CASE Len(data) = 1
    <3>1. dialogue' = [dialogue EXCEPT ![t] = [Fresh EXCEPT !.step = "category", !.id = 1,
                         !.offered = VersionsOf(CombinedConfig(1))]]
      BY <2>1 DEF OpenOptions, Categories
    <3>2. 1 \in Inverters
      BY <2>1 DEF IInv, EntryInv, Inverters
    <3>3. /\ DOMAIN dialogue' = Dialogues
          /\ \A e \in Dialogues \ {t} : dialogue'[e] = dialogue[e]
          /\ dialogue'[t].step = "category" /\ dialogue'[t].id = 1
      BY <1>1, <3>1, MadeWhole DEF IsForm, FormFields
    <3> QED BY <3>2, <3>3
  <2>2. CASE Len(data) # 1
    <3>1. dialogue' = [dialogue EXCEPT ![t].step = "select_inverter"]
      BY <2>2 DEF OpenOptions, Show
    <3> QED BY <1>1, <3>1 DEF Shapes, IsForm, FormFields
  <2> QED BY <2>1, <2>2
<1>3. \A j : CombinedConfig(j)' = CombinedConfig(j)
  BY <1>1 DEF CombinedConfig
<1>4. EntryInv'
  <2>1. opened' \in 0 .. MaxOpened
    <3>1. opened \in 0 .. MaxOpened /\ MaxOpened \in Nat
      BY ConfigurationAssumption DEF IInv, EntryInv
    <3> QED BY <1>1, <3>1
  <2>2. overlapped => overlapped'
    BY <1>1
  <2> QED BY <1>1, <2>1, <2>2, EntryStays DEF IInv
<1>5. AddedInv'
  BY <1>1, <1>2 DEF IInv, AddedInv
<1>6. AloneInv'
  <2>1. \A u \in Tabs \ {t} : Open(u)' <=> Open(u)
    BY <1>1, <1>2 DEF Open
  <2> QED BY <1>1, <2>1 DEF IInv, DialogueInv, AloneInv
<1>7. ASSUME NEW e \in Dialogues
      PROVE  SegmentOK(e)' /\ (e \in Tabs => TabOK(e)') /\ (e = setup => SetupInv')
  <2>1. CASE e = t
    BY <1>1, <1>2, <2>1 DEF SegmentOK, TabOK, SegmentSteps, Inverters
  <2>2. CASE e # t
    <3>1. dialogue'[e] = dialogue[e] /\ OtherInverters(e)' = OtherInverters(e)
      BY <1>1, <1>2, <2>2 DEF OtherInverters
    <3>2. SegmentOK(e)'
      BY <3>1 DEF SegmentOK, IInv, DialogueInv
    <3>3. ASSUME e \in Tabs PROVE TabOK(e)'
      <4>1. TabOK(e) /\ (overlapped => overlapped')
        BY <1>1, <3>3 DEF IInv, DialogueInv
      <4> QED BY <1>1, <1>3, <3>1, <4>1 DEF TabOK, Knows, Inverters
    <3>4. e = setup => SetupInv'
      BY <1>1, <3>1 DEF IInv, DialogueInv, SetupInv
    <3> QED BY <3>2, <3>3, <3>4
  <2> QED BY <2>1, <2>2
<1>8. DialogueInv'
  BY <1>1, <1>2, <1>6, <1>7 DEF DialogueInv
<1> QED BY <1>4, <1>5, <1>8 DEF IInv

(* The same inverter twice over. *)
LEMMA StillSame ==
    ASSUME NEW a, NEW b, NEW c, SameIdentity(a, b), SameIdentity(c, b)
    PROVE  SameIdentity(a, c)
BY DEF SameIdentity

(* Options are saved that keep the identity and, if this is the only tab,   *)
(* a connection that no other inverter has.                                 *)
LEMMA SaveInv ==
    ASSUME Shapes, IInv, NEW t \in Tabs, dialogue[t].step \notin {"closed", "select_inverter"},
           NEW amended, Save(t, amended), IsOptions(amended),
           OptionsOK(amended, data[dialogue[t].id]),
           SameIdentity(Laid(amended, data[dialogue[t].id]), CombinedConfig(dialogue[t].id)),
           ~overlapped =>
             \A j \in Inverters : j # dialogue[t].id =>
               ~SameConnection(Under(amended, data[dialogue[t].id]), CombinedConfig(j))
    PROVE  IInv'
<1>0. PICK i : i = dialogue[t].id
  OBVIOUS
<1> DEFINE under == Under(amended, data[i])
<1>1. /\ t \in Dialogues /\ t # setup /\ DOMAIN dialogue = Dialogues
      /\ setup \in Dialogues /\ Tabs \subseteq Dialogues
      /\ i \in Inverters /\ version = VERSION /\ EntryInv
      /\ options' = [options EXCEPT ![i] = amended]
      /\ dialogue' = [dialogue EXCEPT ![t] = Fresh]
      /\ UNCHANGED <<version, data, added, energy, opened, overlapped, born>>
  BY <1>0, TabsAssumption DEF IInv, DialogueInv, TabOK, Save, Dialogues, history
<1>2. /\ DOMAIN dialogue' = Dialogues /\ dialogue'[t].step = "closed"
      /\ \A e \in Dialogues \ {t} : dialogue'[e] = dialogue[e]
  BY <1>1 DEF Fresh
<1>3. /\ Len(data) \in Nat /\ Inverters = 1 .. Len(data) /\ DOMAIN options = Inverters
      /\ Len(options) = Len(data)
  BY <1>1 DEF EntryInv, Inverters
<1>4. /\ DOMAIN options' = Inverters /\ options'[i] = amended
      /\ \A j \in Inverters \ {i} : options'[j] = options[j]
  BY <1>1, <1>3
<1>5. Len(options') = Len(data)
  <2>1. DOMAIN options' = 1 .. Len(data)
    BY <1>3, <1>4
  <2>2. options' = [j \in 1 .. Len(data) |-> options'[j]]
    BY <1>1, <1>3, <2>1
  <2> QED BY <1>3, <2>2
<1>6. \A j \in Inverters :
        Saved(data[j]) /\ data[j].advanced = None /\ OptionsOK(options[j], data[j])
  BY <1>1 DEF EntryInv, SavedInv
<1>7. SavedInv'
  BY <1>0, <1>1, <1>4, <1>6 DEF SavedInv, OptionsOK, DetailsOK, Inverters
<1>8. \A j \in Inverters \ {i} : CombinedConfig(j)' = CombinedConfig(j)
  BY <1>1, <1>4 DEF CombinedConfig
<1>9. /\ SameConnection(CombinedConfig(i)', under)
      /\ SameIdentity(CombinedConfig(i)', CombinedConfig(i))
  <2>1. CombinedConfig(i)' = Laid(options'[i], data'[i])
    BY Zenon DEF CombinedConfig
  <2>2. CombinedConfig(i)' = Laid(amended, data[i])
    BY <1>1, <1>4, <2>1
  <2>3. IsSaved(data[i])
    BY <1>1 DEF Shapes
  <2>4. LaidOn(CombinedConfig(i)', amended, data[i])
    BY <2>2, <2>3, LaidIs
  <2> QED BY <1>0, <2>2, <2>4 DEF LaidOn
<1> HIDE DEF under
<1>10. DistinctInv'
  <2>1. DistinctInv
    BY <1>1 DEF EntryInv
  <2>2. ASSUME NEW j \in Inverters, j # i, ~overlapped
        PROVE  /\ ~SameConnection(CombinedConfig(i)', CombinedConfig(j)')
               /\ ~SameConnection(CombinedConfig(j)', CombinedConfig(i)')
    <3>1. ~SameConnection(under, CombinedConfig(j))
      BY <1>0, <2>2 DEF under
    <3> QED BY <1>8, <1>9, <2>2, <3>1 DEF SameConnection
  <2>3. ASSUME NEW j \in Inverters, NEW k \in Inverters, j # k, ~overlapped
        PROVE  ~SameConnection(CombinedConfig(j)', CombinedConfig(k)')
    <3>1. CASE j = i \/ k = i
      BY <2>2, <2>3, <3>1
    <3>2. CASE j # i /\ k # i
      BY <1>8, <2>1, <2>3, <3>2 DEF DistinctInv
    <3> QED BY <3>1, <3>2
  <2>4. \A j, k \in Inverters : j # k =>
          /\ data[j].uid # data[k].uid
          /\ data[j].prefix = data[k].prefix => born < VERSION
    BY <2>1 DEF DistinctInv
  <2>5. energy # {} => born = VERSION /\ energy = {data[j].prefix : j \in Inverters}
    BY <2>1 DEF DistinctInv
  <2>6. Inverters' = Inverters /\ UNCHANGED <<data, energy, born, overlapped>>
    BY <1>1 DEF Inverters
  <2>7. \A j, k \in Inverters : j # k /\ ~overlapped =>
          ~SameConnection(CombinedConfig(j)', CombinedConfig(k)')
    BY <2>3
  <2>8. \A j, k \in Inverters' : j # k =>
          (SameConnection(CombinedConfig(j), CombinedConfig(k))' => overlapped')
    BY <2>6, <2>7 DEF SameConnection
  <2>9. energy' # {} => born' = VERSION /\ energy' = {data'[j].prefix : j \in Inverters'}
    BY <2>5, <2>6
  <2>10. VERSION' = VERSION
    BY DEF VERSION
  <2> QED BY <2>4, <2>6, <2>8, <2>9, <2>10 DEF DistinctInv
<1>11. EntryInv'
  BY <1>1, <1>3, <1>4, <1>5, <1>7, <1>10 DEF EntryInv, VERSION
<1>12. AddedInv'
  BY <1>1, <1>2 DEF IInv, AddedInv
<1>13. AloneInv'
  <2>1. \A u \in Tabs : Open(u)' => Open(u)
    BY <1>1, <1>2 DEF Open
  <2> QED BY <1>1, <2>1 DEF IInv, DialogueInv, AloneInv
<1>14. ASSUME NEW e \in Dialogues
       PROVE  SegmentOK(e)' /\ (e \in Tabs => TabOK(e)') /\ (e = setup => SetupInv')
  <2>1. CASE e = t
    BY <1>1, <1>2, <2>1 DEF SegmentOK, TabOK, SegmentSteps
  <2>2. CASE e # t
    <3>1. dialogue'[e] = dialogue[e] /\ OtherInverters(e)' = OtherInverters(e)
      BY <1>1, <1>2, <2>2 DEF OtherInverters
    <3>2. SegmentOK(e)'
      BY <3>1 DEF SegmentOK, IInv, DialogueInv
    <3>3. ASSUME e \in Tabs PROVE TabOK(e)'
      <4>1. TabOK(e)
        BY <3>3 DEF IInv, DialogueInv
      <4>2. dialogue[e].step # "closed" => overlapped
        <5>1. Open(t)
          BY DEF Open
        <5> QED BY <2>2, <3>3, <5>1 DEF IInv, DialogueInv, AloneInv, Open
      <4>3. ASSUME dialogue[e].step \in SegmentSteps PROVE Knows(e)'
        <5>0. PICK j : j = dialogue[e].id
          OBVIOUS
        <5> DEFINE k == InverterDataToDict(dialogue[e].draft)
        <5>1. overlapped /\ Knows(e) /\ j \in Inverters
          BY <4>1, <4>2, <4>3, <5>0 DEF TabOK, SegmentSteps
        <5>2. SameIdentity(k, CombinedConfig(j)) /\ k.name \in Names \cup {""}
          BY <5>0, <5>1 DEF Knows
        <5>3. SameIdentity(CombinedConfig(j)', CombinedConfig(j))
          <6>1. CASE j = i
            BY <1>9, <6>1
          <6>2. CASE j # i
            <7>1. CombinedConfig(j)' = CombinedConfig(j)
              BY <1>8, <5>1, <6>2
            <7> QED BY <7>1 DEF SameIdentity
          <6> QED BY <6>1, <6>2
        <5> HIDE DEF k
        <5>4. SameIdentity(k, CombinedConfig(j)')
          BY <5>2, <5>3, StillSame
        <5>5. SameIdentity(InverterDataToDict(dialogue'[e].draft), CombinedConfig(dialogue[e].id)')
          BY <3>1, <5>0, <5>4 DEF k
        <5> QED BY <1>1, <3>1, <5>1, <5>2, <5>5 DEF Knows, k
      <4> QED BY <1>1, <3>1, <4>1, <4>2, <4>3 DEF TabOK, SegmentSteps, Inverters
    <3>4. e = setup => SetupInv'
      BY <1>1, <3>1 DEF IInv, DialogueInv, SetupInv
    <3> QED BY <3>2, <3>3, <3>4
  <2> QED BY <2>1, <2>2
<1>15. DialogueInv'
  BY <1>1, <1>2, <1>13, <1>14 DEF DialogueInv
<1> QED BY <1>11, <1>12, <1>15 DEF IInv

(* What does not touch the details cannot collide. *)
LEMMA OtherOptionsInv ==
    ASSUME Shapes, IInv, NEW t \in Tabs, dialogue[t].step \notin {"closed", "select_inverter"},
           NEW amended, Save(t, amended), IsOptions(amended),
           amended.details = OptionsOf(t).details, amended.advanced \in {None, "tuned"}
    PROVE  /\ IInv'
           /\ SameIdentity(Laid(amended, data[dialogue[t].id]), CombinedConfig(dialogue[t].id))
<1>0. PICK i : i = dialogue[t].id
  OBVIOUS
<1> DEFINE o == options[i]
           under == Under(o, data[i])
<1>1. i \in Inverters /\ version = VERSION /\ EntryInv
  BY <1>0 DEF IInv, DialogueInv, TabOK
<1>2. /\ OptionsOK(o, data[i]) /\ SameConnection(CombinedConfig(i), under)
      /\ amended.details = o.details
  BY <1>0, <1>1, CombinedSaved DEF OptionsOf
<1>3. OptionsOK(amended, data[i])
  BY <1>2 DEF OptionsOK
<1>4. Under(amended, data[i]) = under
  BY <1>2 DEF Under
<1>5. SameIdentity(Laid(amended, data[i]), CombinedConfig(i))
  <2>1. IsSaved(data[i])
    BY <1>1 DEF Shapes
  <2>2. LaidOn(Laid(amended, data[i]), amended, data[i]) /\ LaidOn(CombinedConfig(i), o, data[i])
    BY <1>1, <2>1, LaidIs, CombinedLaid
  <2> HIDE DEF o
  <2> QED BY <1>4, <2>2 DEF LaidOn, SameIdentity
<1> HIDE DEF under
<1>6. ASSUME NEW j \in Inverters, j # i, ~overlapped
      PROVE  ~SameConnection(under, CombinedConfig(j))
  <2>1. ~SameConnection(CombinedConfig(i), CombinedConfig(j))
    BY <1>1, <1>6 DEF EntryInv, DistinctInv
  <2> QED BY <1>2, <2>1 DEF SameConnection
<1>7. IInv'
  BY <1>0, <1>3, <1>4, <1>5, <1>6, SaveInv
<1> QED BY <1>0, <1>5, <1>7

LEMMA SubmitVersionInv ==
    ASSUME Shapes, IInv, NEW t \in Tabs, SubmitVersion(t)
    PROVE  IInv'
<1>1. PICK v : Save(t, [OptionsOf(t) EXCEPT !.version = v])
  BY DEF SubmitVersion
<1> DEFINE amended == [OptionsOf(t) EXCEPT !.version = v]
<1>0. IsOptions(OptionsOf(t))
  BY DEF Shapes, OptionsOf, IInv, DialogueInv, TabOK, SubmitVersion
<1>2. /\ amended.details = OptionsOf(t).details /\ amended.advanced = OptionsOf(t).advanced
      /\ IsOptions(amended)
  BY <1>0 DEF IsOptions
<1> HIDE DEF amended
<1>3. OptionsOf(t).advanced \in {None, "tuned"}
  BY DEF IInv, DialogueInv, TabOK, EntryInv, SavedInv, OptionsOK, OptionsOf, SubmitVersion
<1>4. Save(t, amended) /\ dialogue[t].step \notin {"closed", "select_inverter"}
  BY <1>1 DEF SubmitVersion, amended
<1> QED BY <1>2, <1>3, <1>4, OtherOptionsInv

LEMMA SubmitAdvancedInv ==
    ASSUME Shapes, IInv, NEW t \in Tabs, SubmitAdvanced(t)
    PROVE  IInv'
<1>1. PICK a \in {None, "tuned"} : Save(t, [OptionsOf(t) EXCEPT !.advanced = a])
  BY DEF SubmitAdvanced
<1> DEFINE amended == [OptionsOf(t) EXCEPT !.advanced = a]
<1>0. IsOptions(OptionsOf(t))
  BY DEF Shapes, OptionsOf, IInv, DialogueInv, TabOK, SubmitAdvanced
<1>2. /\ amended.details = OptionsOf(t).details /\ amended.advanced = a
      /\ IsOptions(amended)
  BY <1>0 DEF IsOptions
<1> HIDE DEF amended
<1>3. Save(t, amended) /\ dialogue[t].step \notin {"closed", "select_inverter"}
  BY <1>1 DEF SubmitAdvanced, amended
<1> QED BY <1>2, <1>3, OtherOptionsInv

(* What a detection saves has been compared with the other inverters.       *)
LEMMA DetectedDetails ==
    ASSUME Shapes, IInv, NEW t \in Tabs, dialogue[t].step = "detecting",
           NEW c, c = InverterDataToDict(Detected(t))
    PROVE  /\ DetailsOK(c, data[dialogue[t].id]) /\ c # None
           /\ SameIdentity(c, CombinedConfig(dialogue[t].id))
           /\ c.uid # None /\ c.prefix # None
           /\ SameConnection(c, dialogue[t].trying)
<1>0. PICK i : i = dialogue[t].id
  OBVIOUS
<1> DEFINE r == dialogue[t].draft
           x == Detected(t)
           w == dialogue[t].trying
           d == InverterDataToDict(r)
<1>1. /\ t \in Dialogues /\ i \in Inverters /\ version = VERSION /\ EntryInv
      /\ SameIdentity(d, CombinedConfig(i)) /\ d.name \in Names \cup {""}
  BY <1>0 DEF IInv, DialogueInv, TabOK, Knows, SegmentSteps, Dialogues
<1>2. /\ r.adapter \in Adapters /\ w.protocol \in ADAPTERS[r.adapter].protocols
      /\ w.host \in Hosts /\ w.slave \in Slaves
  BY <1>1 DEF IInv, DialogueInv, SegmentOK
<1>3. /\ x.adapter = r.adapter /\ x.protocol = w.protocol /\ x.host = w.host
      /\ x.slave = w.slave /\ x.model = Attached[w.host]
      /\ x.prefix = r.prefix /\ x.uid = r.uid /\ x.name = r.name
  BY <1>1 DEF Detected, Shapes, IsForm, DraftFields
<1>4. CombinedOK(CombinedConfig(i), options[i], data[i]) /\ Saved(data[i])
  BY <1>1, CombinedSaved
<1> HIDE DEF x
<1>5. /\ c.adapter = x.adapter /\ c.protocol = x.protocol /\ c.host = x.host
      /\ c.slave = x.slave /\ c.model = x.model /\ c.prefix = OrEmpty(r.prefix)
      /\ c.uid = OrEmpty(r.uid) /\ c.name = OrEmpty(r.name) /\ c.advanced = None
  BY <1>3 DEF InverterDataToDict, x
<1>6. /\ d.prefix = OrEmpty(r.prefix) /\ d.uid = OrEmpty(r.uid) /\ d.name = OrEmpty(r.name)
  BY DEF InverterDataToDict
<1> HIDE DEF d
<1>7. /\ SameIdentity(c, CombinedConfig(i)) /\ c.uid # None /\ c.prefix # None
      /\ c.uid = CombinedConfig(i).uid /\ c.prefix = CombinedConfig(i).prefix
  BY <1>1, <1>4, <1>5, <1>6 DEF SameIdentity, CombinedOK
<1>8. DetailsOK(c, data[i])
  <2>1. c.uid = data[i].uid
    BY <1>4, <1>7 DEF CombinedOK
  <2>2. c.prefix = data[i].prefix \/ (born \in 4 .. 6 /\ c.prefix = data[i].uid)
    BY <1>4, <1>7 DEF CombinedOK
  <2>3. c.name \in Names \cup {""}
    BY <1>1, <1>5, <1>6
  <2>4. c.protocol \in ADAPTERS[c.adapter].protocols /\ c.adapter \in Adapters
    BY <1>2, <1>3, <1>5
  <2>5. c.host \in Hosts /\ c.slave \in Slaves /\ c.model = Attached[c.host] /\ c.advanced = None
    BY <1>2, <1>3, <1>5
  <2> QED BY <1>7, <2>1, <2>2, <2>3, <2>4, <2>5 DEF DetailsOK
<1>9. c # None
  <2>1. /\ c.adapter \in Adapters /\ c.protocol \in ADAPTERS[c.adapter].protocols
        /\ c.host \in Hosts /\ c.slave \in Slaves /\ c.model = Attached[c.host]
    BY <1>2, <1>3, <1>5
  <2>2. c.uid \in Names \cup {""} /\ c.name \in Names \cup {""}
    BY <1>4, <1>7, <1>8 DEF DetailsOK, Saved
  <2>3. c.prefix \in Prefixes \cup Range(Slug) \cup Names
    BY <1>4, <1>7, NoneIsNoText DEF CombinedOK, Saved
  <2> QED BY <2>1, <2>2, <2>3, DictIsNotNone
<1>10. SameConnection(c, w)
  BY <1>3, <1>5 DEF SameConnection
<1> QED BY <1>0, <1>7, <1>8, <1>9, <1>10

(* adapter_segment_complete *)
LEMMA OptionsDetectedInv ==
    ASSUME Shapes, IInv, NEW t \in Tabs, OptionsDetected(t)
    PROVE  /\ IInv'
           /\ SameIdentity(Laid(AmendedDetails(t), data[dialogue[t].id]),
                           CombinedConfig(dialogue[t].id))
<1>0. PICK i, w : i = dialogue[t].id /\ w = dialogue[t].trying
  OBVIOUS
<1> DEFINE amended == AmendedDetails(t)
           c == InverterDataToDict(Detected(t))
<1>1. /\ dialogue[t].step = "detecting" /\ Save(t, amended)
      /\ t \in Dialogues /\ i \in Inverters /\ version = VERSION /\ t # setup
  BY <1>0, TabsAssumption DEF OptionsDetected, IInv, DialogueInv, TabOK, Dialogues
<1>2. amended.details = c /\ amended.advanced = options[i].advanced /\ IsOptions(amended)
  <2>1. IsOptions(options[i]) /\ IsSaved(c)
    BY <1>1, MadeWhole DEF Shapes
  <2> HIDE DEF c
  <2>2. amended = [options[i] EXCEPT !.details = c]
    BY <1>0 DEF AmendedDetails, OptionsOf, c
  <2> HIDE DEF amended
  <2> QED BY <2>1, <2>2 DEF IsOptions
<1>3. /\ DetailsOK(c, data[i]) /\ c # None /\ c.uid # None /\ c.prefix # None
      /\ SameIdentity(c, CombinedConfig(i)) /\ SameConnection(c, w)
  BY <1>0, <1>1, DetectedDetails
<1>4. OptionsOK(options[i], data[i]) /\ IsSaved(data[i])
  BY <1>1 DEF IInv, EntryInv, SavedInv, Shapes
<1> HIDE DEF amended, c
<1>5. OptionsOK(amended, data[i])
  BY <1>2, <1>3, <1>4 DEF OptionsOK
<1>6. Under(amended, data[i]) = c
  BY <1>2, <1>3 DEF Under
<1>7. SameIdentity(Laid(amended, data[i]), CombinedConfig(i))
  <2>1. LaidOn(Laid(amended, data[i]), amended, data[i])
    BY <1>2, <1>4, LaidIs
  <2>2. /\ Laid(amended, data[i]).uid = c.uid /\ Laid(amended, data[i]).prefix = c.prefix
        /\ Laid(amended, data[i]).name = c.name
    BY <1>3, <1>6, <2>1 DEF LaidOn, Else
  <2> QED BY <1>3, <2>2 DEF SameIdentity
<1>8. ASSUME NEW j \in Inverters, j # i, ~overlapped
      PROVE  ~SameConnection(Under(amended, data[i]), CombinedConfig(j))
  <2>1. PICK o \in dialogue[t].others : SameConnection(o, CombinedConfig(j))
    BY <1>0, <1>1, <1>8 DEF IInv, DialogueInv, TabOK, Knows, SegmentSteps
  <2>2. ~SameConnection(o, w)
    BY <1>0, <1>1 DEF IInv, DialogueInv, SegmentOK, OtherInverters
  <2> QED BY <1>3, <1>6, <2>1, <2>2 DEF SameConnection
<1>9. IInv'
  BY <1>0, <1>1, <1>2, <1>5, <1>7, <1>8, SaveInv
<1> QED BY <1>0, <1>7, <1>9 DEF amended

-------------------------------------------------------------------------------
(* The migration.                                                           *)

Capitals == {"TCP", "UDP", "TCP+RTU"}
Smalls   == {"tcp", "udp", "rtu_over_tcp"}

LEMMA LowerIs ==
    Lower("TCP") = "tcp" /\ Lower("UDP") = "udp" /\ Lower("TCP+RTU") = "rtu_over_tcp"
BY DEF Lower

(* Lower keeps apart the types that older versions saved, and makes none of *)
(* them.                                                                    *)
LEMMA LowerApart ==
    ASSUME NEW x \in Capitals, NEW y \in Capitals
    PROVE  (Lower(x) = Lower(y) => x = y) /\ Lower(x) # y
BY LowerIs DEF Capitals

LEMMA OldTypesAre ==
    ASSUME NEW v \in 1 .. 6
    PROVE  OldTypes(v) \subseteq IF v <= 5 THEN Capitals ELSE Smalls
<1>1. CASE v = 6
  <2>1. OldTypes(v) = OldProtocols
    BY <1>1 DEF OldTypes
  <2>2. OldTypes(v) \subseteq Smalls
    BY <2>1, ConfigurationAssumption DEF Smalls
  <2>3. ~(v <= 5)
    BY <1>1
  <2> QED BY <2>2, <2>3
<1>2. CASE v <= 5
  <2>1. ~(v >= 6)
    BY <1>2
  <2>2. OldTypes(v) \subseteq Capitals
    BY <2>1 DEF OldTypes, Capitals
  <2> QED BY <1>2, <2>2
<1> QED BY <1>1, <1>2

(* Of any version. *)
LEMMA OldFields ==
    ASSUME NEW v \in 1 .. 6, NEW c \in OldInverters(v)
    PROVE  c.protocol \in (IF v <= 5 THEN Capitals ELSE Smalls) /\ IsSaved(c)
<1> DEFINE A == IF v = 1 THEN {"AUX"} ELSE {a \in Adapters : ADAPTERS[a].type = "network"}
           X == IF v <= 3 THEN {None} ELSE Names \cup {IF v = 4 THEN None ELSE ""}
           N == Names \cup {CASE v = 1 -> "null" [] v \in 2 .. 4 -> None [] OTHER -> ""}
           V == IF v <= 4 THEN {None, "tuned"} ELSE {None}
           R == [adapter : A, protocol : OldTypes(v), host : Hosts, slave : Slaves,
                 model : Range(Attached), prefix : X, uid : {None}, name : N, advanced : V]
           Good(b) ==
             /\ b.model = Attached[b.host]
             /\ v >= 4 => b.prefix = b.name
             /\ v >= 2 => (IF v <= 5 THEN Lower(b.protocol) ELSE b.protocol)
                            \in ADAPTERS[b.adapter].protocols
<1>1. c \in {b \in R : Good(b)}
  BY Zenon DEF OldInverters
<1>2. c \in R
  <2> HIDE DEF R, Good
  <2> QED BY <1>1
<1>3. c.protocol \in OldTypes(v)
  <2> HIDE DEF A, X, N, V
  <2> QED BY <1>2
<1>4. IsSaved(c)
  <2> HIDE DEF A, X, N, V
  <2> QED BY <1>2 DEF IsSaved, SavedFields
<1> QED BY <1>3, <1>4, OldTypesAre

(* What is known of an inverter that version v, at least 2, has saved.      *)
LEMMA OldInverter ==
    ASSUME NEW v \in 2 .. 6, NEW c \in OldInverters(v)
    PROVE  /\ c.adapter \in Adapters /\ c.host \in Hosts /\ c.slave \in Slaves
           /\ c.model = Attached[c.host]
           /\ c.protocol \in (IF v <= 5 THEN Capitals ELSE Smalls)
           /\ (IF v <= 5 THEN Lower(c.protocol) ELSE c.protocol) \in ADAPTERS[c.adapter].protocols
           /\ c.name \in Names \cup {None, ""} /\ (v >= 5 => c.name \in Names \cup {""})
           /\ v >= 4 => c.prefix = c.name
           /\ v >= 5 => c.advanced = None
           /\ c.uid = None /\ IsSaved(c)
<1>1. v \in Int /\ 2 <= v /\ v <= 6 /\ v # 1 /\ v >= 2 /\ v \in 1 .. 6
  OBVIOUS
<1> DEFINE A == IF v = 1 THEN {"AUX"} ELSE {a \in Adapters : ADAPTERS[a].type = "network"}
           X == IF v <= 3 THEN {None} ELSE Names \cup {IF v = 4 THEN None ELSE ""}
           N == Names \cup {CASE v = 1 -> "null" [] v \in 2 .. 4 -> None [] OTHER -> ""}
           V == IF v <= 4 THEN {None, "tuned"} ELSE {None}
           R == [adapter : A, protocol : OldTypes(v), host : Hosts, slave : Slaves,
                 model : Range(Attached), prefix : X, uid : {None}, name : N, advanced : V]
           Good(b) ==
             /\ b.model = Attached[b.host]
             /\ v >= 4 => b.prefix = b.name
             /\ v >= 2 => (IF v <= 5 THEN Lower(b.protocol) ELSE b.protocol)
                            \in ADAPTERS[b.adapter].protocols
<1>2. c \in {b \in R : Good(b)}
  BY Zenon DEF OldInverters
<1>3. c \in R /\ Good(c)
  <2> HIDE DEF R, Good
  <2> QED BY <1>2
<1>4. /\ c.adapter \in A /\ c.host \in Hosts /\ c.slave \in Slaves
      /\ c.uid \in {None} /\ c.name \in N /\ c.advanced \in V
  <2> HIDE DEF A, X, N, V, Good
  <2> QED BY <1>3
<1>5. c.adapter \in Adapters
  BY <1>1, <1>4
<1>6. N \subseteq Names \cup {None, ""} /\ (v >= 5 => N = Names \cup {""})
  <2>1. (CASE v = 1 -> "null" [] v \in 2 .. 4 -> None [] OTHER -> "") =
          (IF v <= 4 THEN None ELSE "")
    <3>1. CASE v <= 4
      <4>1. v # 1 /\ v \in 2 .. 4
        BY <1>1, <3>1
      <4> QED BY <3>1, <4>1, Zenon
    <3>2. CASE ~(v <= 4)
      <4>1. v # 1 /\ ~(v \in 2 .. 4)
        BY <1>1, <3>2
      <4> QED BY <3>2, <4>1, Zenon
    <3> QED BY <3>1, <3>2
  <2>2. v >= 5 => ~(v <= 4)
    BY <1>1
  <2> QED BY <2>1, <2>2
<1>7. v >= 5 => c.advanced = None
  <2>1. v >= 5 => V = {None}
    BY <1>1
  <2>2. c.advanced \in V
    BY <1>4
  <2> HIDE DEF V
  <2> QED BY <2>1, <2>2
<1>8. (IF v <= 5 THEN Lower(c.protocol) ELSE c.protocol) \in ADAPTERS[c.adapter].protocols
  <2> HIDE DEF R
  <2> QED BY <1>1, <1>3
<1>9. c.model = Attached[c.host] /\ (v >= 4 => c.prefix = c.name)
  <2> HIDE DEF R
  <2> QED BY <1>3
<1>10. c.name \in Names \cup {None, ""} /\ (v >= 5 => c.name \in Names \cup {""})
  <2> HIDE DEF N, R, Good
  <2> QED BY <1>4, <1>6
<1> HIDE DEF A, X, N, V, R, Good
<1> QED BY <1>1, <1>4, <1>5, <1>7, <1>8, <1>9, <1>10, OldFields

(* Records with some fields replaced. *)
LEMMA ReplacedPrefix ==
    ASSUME NEW c, NEW b, NEW x, IsSaved(c), b = [c EXCEPT !.prefix = x]
    PROVE  /\ b.adapter = c.adapter /\ b.protocol = c.protocol /\ b.host = c.host
           /\ b.slave = c.slave /\ b.model = c.model /\ b.name = c.name
           /\ b.advanced = c.advanced /\ b.prefix = x /\ IsSaved(b)
BY DEF IsSaved, SavedFields

LEMMA ReplacedProtocol ==
    ASSUME NEW c, NEW b, NEW x, IsSaved(c), b = [c EXCEPT !.protocol = x]
    PROVE  /\ b.adapter = c.adapter /\ b.protocol = x /\ b.host = c.host
           /\ b.slave = c.slave /\ b.model = c.model /\ b.name = c.name
           /\ b.advanced = c.advanced /\ b.prefix = c.prefix /\ IsSaved(b)
BY DEF IsSaved, SavedFields

(* What a migration does to each inverter. *)
One3(v, c) == IF v <= 3 THEN [c EXCEPT !.prefix = c.name] ELSE c

One4(v, c) ==
    IF v <= 4 THEN [c EXCEPT !.advanced = None, !.name = OrEmpty(c.name), !.prefix = OrEmpty(c.prefix)]
              ELSE c

One5(v, c) == IF v <= 5 THEN [c EXCEPT !.protocol = Lower(c.protocol)] ELSE c

One6(c) == [c EXCEPT !.uid = c.prefix, !.prefix = Slug[c.prefix]]

(* What the unique id is made from. *)
Former(v, c) == OrEmpty(IF v <= 3 THEN c.name ELSE c.prefix)

SamePlace(b, c) ==
    b.adapter = c.adapter /\ b.host = c.host /\ b.slave = c.slave /\ b.model = c.model

LEMMA One3Is ==
    ASSUME NEW v, NEW c, NEW b, IsSaved(c), b = One3(v, c)
    PROVE  /\ IsSaved(b) /\ SamePlace(b, c) /\ b.protocol = c.protocol /\ b.name = c.name
           /\ b.advanced = c.advanced /\ b.prefix = IF v <= 3 THEN c.name ELSE c.prefix
<1>1. CASE v <= 3
  <2>1. b = [c EXCEPT !.prefix = c.name]
    BY <1>1, Zenon DEF One3
  <2>2. /\ b.adapter = c.adapter /\ b.host = c.host /\ b.slave = c.slave /\ b.model = c.model
        /\ b.protocol = c.protocol /\ b.name = c.name /\ b.advanced = c.advanced
        /\ b.prefix = c.name /\ IsSaved(b)
    BY <2>1, ReplacedPrefix
  <2> QED BY <1>1, <2>2 DEF SamePlace
<1>2. CASE ~(v <= 3)
  <2>1. b = c
    BY <1>2, Zenon DEF One3
  <2> QED BY <1>2, <2>1 DEF SamePlace
<1> QED BY <1>1, <1>2

LEMMA One4Is ==
    ASSUME NEW v, NEW c, NEW b, IsSaved(c), b = One4(v, c)
    PROVE  /\ IsSaved(b) /\ SamePlace(b, c) /\ b.protocol = c.protocol
           /\ b.name = IF v <= 4 THEN OrEmpty(c.name) ELSE c.name
           /\ b.advanced = IF v <= 4 THEN None ELSE c.advanced
           /\ b.prefix = IF v <= 4 THEN OrEmpty(c.prefix) ELSE c.prefix
<1>1. CASE v <= 4
  <2>1. PICK x : x = OrEmpty(c.name)
    OBVIOUS
  <2>2. PICK y : y = OrEmpty(c.prefix)
    OBVIOUS
  <2>3. b = [c EXCEPT !.advanced = None, !.name = x, !.prefix = y]
    BY <1>1, <2>1, <2>2, Zenon DEF One4
  <2>4. /\ b.adapter = c.adapter /\ b.protocol = c.protocol /\ b.host = c.host
        /\ b.slave = c.slave /\ b.model = c.model /\ b.name = x
        /\ b.advanced = None /\ b.prefix = y /\ DOMAIN b = SavedFields
    <3>1. DOMAIN c = SavedFields
      BY DEF IsSaved
    <3> QED BY ONLY <2>3, <3>1 DEF SavedFields
  <2> QED BY <1>1, <2>1, <2>2, <2>4 DEF SamePlace, IsSaved
<1>2. CASE ~(v <= 4)
  <2>1. b = c
    BY <1>2, Zenon DEF One4
  <2> QED BY <1>2, <2>1 DEF SamePlace
<1> QED BY <1>1, <1>2

LEMMA One5Is ==
    ASSUME NEW v, NEW c, NEW b, IsSaved(c), b = One5(v, c)
    PROVE  /\ IsSaved(b) /\ SamePlace(b, c) /\ b.protocol = IF v <= 5 THEN Lower(c.protocol) ELSE c.protocol
           /\ b.name = c.name /\ b.advanced = c.advanced /\ b.prefix = c.prefix
<1>1. CASE v <= 5
  <2>1. b = [c EXCEPT !.protocol = Lower(c.protocol)]
    BY <1>1, Zenon DEF One5
  <2>2. /\ b.adapter = c.adapter /\ b.host = c.host /\ b.slave = c.slave /\ b.model = c.model
        /\ b.protocol = Lower(c.protocol) /\ b.name = c.name /\ b.advanced = c.advanced
        /\ b.prefix = c.prefix /\ IsSaved(b)
    BY <2>1, ReplacedProtocol
  <2> QED BY <1>1, <2>2 DEF SamePlace
<1>2. CASE ~(v <= 5)
  <2>1. b = c
    BY <1>2, Zenon DEF One5
  <2> QED BY <1>2, <2>1 DEF SamePlace
<1> QED BY <1>1, <1>2

LEMMA One6Is ==
    ASSUME NEW c, NEW b, IsSaved(c), b = One6(c)
    PROVE  /\ IsSaved(b) /\ SamePlace(b, c) /\ b.protocol = c.protocol /\ b.name = c.name
           /\ b.advanced = c.advanced /\ b.uid = c.prefix /\ b.prefix = Slug[c.prefix]
<1>1. PICK x : x = c.prefix
  OBVIOUS
<1>2. PICK y : y = Slug[x]
  OBVIOUS
<1>3. b = [c EXCEPT !.uid = x, !.prefix = y]
  BY <1>1, <1>2, Zenon DEF One6
<1>4. /\ b.adapter = c.adapter /\ b.protocol = c.protocol /\ b.host = c.host
      /\ b.slave = c.slave /\ b.model = c.model /\ b.name = c.name
      /\ b.advanced = c.advanced /\ b.uid = x /\ b.prefix = y /\ DOMAIN b = SavedFields
  <2>1. DOMAIN c = SavedFields
    BY DEF IsSaved
  <2> QED BY ONLY <1>3, <2>1 DEF SavedFields
<1> QED BY <1>1, <1>2, <1>4 DEF SamePlace, IsSaved

(* What a migration makes of a single inverter. *)
Becomes(v, c, b) ==
    /\ SamePlace(b, c) /\ b.protocol = IF v <= 5 THEN Lower(c.protocol) ELSE c.protocol
    /\ b.uid = Former(v, c) /\ b.prefix = Slug[Former(v, c)]
    /\ b.name = OrEmpty(c.name) /\ b.advanced = None /\ IsSaved(b)

LEMMA OneMigrated ==
    ASSUME NEW v \in 2 .. 6, NEW c \in OldInverters(v)
    PROVE  Becomes(v, c, One6(One5(v, One4(v, One3(v, c)))))
<1>1. PICK c3 : c3 = One3(v, c)
  OBVIOUS
<1>2. PICK c4 : c4 = One4(v, c3)
  OBVIOUS
<1>3. PICK c5 : c5 = One5(v, c4)
  OBVIOUS
<1>4. PICK b : b = One6(c5)
  OBVIOUS
<1>0. IsSaved(c)
  BY OldInverter
<1>5. /\ IsSaved(c3) /\ SamePlace(c3, c) /\ c3.protocol = c.protocol /\ c3.name = c.name
      /\ c3.advanced = c.advanced /\ c3.prefix = IF v <= 3 THEN c.name ELSE c.prefix
  BY <1>0, <1>1, One3Is
<1>6. /\ IsSaved(c4) /\ SamePlace(c4, c3) /\ c4.protocol = c3.protocol
      /\ c4.name = IF v <= 4 THEN OrEmpty(c3.name) ELSE c3.name
      /\ c4.advanced = IF v <= 4 THEN None ELSE c3.advanced
      /\ c4.prefix = IF v <= 4 THEN OrEmpty(c3.prefix) ELSE c3.prefix
  BY <1>2, <1>5, One4Is
<1>7. /\ IsSaved(c5) /\ SamePlace(c5, c4)
      /\ c5.protocol = IF v <= 5 THEN Lower(c4.protocol) ELSE c4.protocol
      /\ c5.name = c4.name /\ c5.advanced = c4.advanced /\ c5.prefix = c4.prefix
  BY <1>3, <1>6, One5Is
<1>8. /\ IsSaved(b) /\ SamePlace(b, c5) /\ b.protocol = c5.protocol /\ b.name = c5.name
      /\ b.advanced = c5.advanced /\ b.uid = c5.prefix /\ b.prefix = Slug[c5.prefix]
  BY <1>4, <1>7, One6Is
<1>9. c4.prefix = Former(v, c) /\ c4.name = OrEmpty(c.name) /\ c4.advanced = None
  <2>1. CASE v <= 4
    BY <1>5, <1>6, <2>1 DEF Former
  <2>2. CASE ~(v <= 4)
    <3>1. v >= 5 /\ v >= 4 /\ ~(v <= 3)
      BY <2>2
    <3>2. c.name \in Names \cup {""} /\ c.prefix = c.name /\ c.advanced = None
      BY <3>1, OldInverter
    <3>3. OrEmpty(c.name) = c.name
      BY <3>2, NoneIsNoText DEF OrEmpty
    <3> QED BY <1>5, <1>6, <2>2, <3>1, <3>2, <3>3 DEF Former
  <2> QED BY <2>1, <2>2
<1>10. SamePlace(b, c)
  BY <1>5, <1>6, <1>7, <1>8 DEF SamePlace
<1>11. b.protocol = IF v <= 5 THEN Lower(c.protocol) ELSE c.protocol
  BY <1>5, <1>6, <1>7, <1>8
<1>12. Becomes(v, c, b)
  BY <1>7, <1>8, <1>9, <1>10, <1>11 DEF Becomes
<1> QED BY <1>1, <1>2, <1>3, <1>4, <1>12

(* The steps of the migration, on a sequence. *)
LEMMA FromDomains ==
    ASSUME NEW cs
    PROVE  /\ DOMAIN From3(cs) = DOMAIN cs /\ DOMAIN From4(cs) = DOMAIN cs
           /\ DOMAIN From5(cs) = DOMAIN cs /\ DOMAIN From6(cs) = DOMAIN cs
<1>1. DOMAIN From3(cs) = DOMAIN cs
  BY Zenon DEF From3
<1>2. DOMAIN From4(cs) = DOMAIN cs
  BY Zenon DEF From4
<1>3. DOMAIN From5(cs) = DOMAIN cs
  BY Zenon DEF From5
<1>4. DOMAIN From6(cs) = DOMAIN cs
  BY Zenon DEF From6
<1> QED BY <1>1, <1>2, <1>3, <1>4

LEMMA FromOne ==
    ASSUME NEW cs, NEW i \in DOMAIN cs, NEW v
    PROVE  /\ v <= 3 => From3(cs)[i] = One3(v, cs[i])
           /\ v <= 4 => From4(cs)[i] = One4(v, cs[i])
           /\ v <= 5 => From5(cs)[i] = One5(v, cs[i])
           /\ From6(cs)[i] = One6(cs[i])
<1>1. v <= 3 => From3(cs)[i] = One3(v, cs[i])
  BY Zenon DEF From3, One3
<1>2. v <= 4 => From4(cs)[i] = One4(v, cs[i])
  BY Zenon DEF From4, One4
<1>3. v <= 5 => From5(cs)[i] = One5(v, cs[i])
  BY Zenon DEF From5, One5
<1>4. From6(cs)[i] = One6(cs[i])
  BY Zenon DEF From6, One6
<1> QED BY <1>1, <1>2, <1>3, <1>4

LEMMA MigratedIs ==
    ASSUME NEW v \in 2 .. 6, NEW n \in Nat, NEW cs \in [1 .. n -> OldInverters(v)]
    PROVE  /\ DOMAIN Migrated(v, cs) = 1 .. n
           /\ \A i \in 1 .. n : Becomes(v, cs[i], Migrated(v, cs)[i])
<1> DEFINE v4 == IF v <= 3 THEN From3(cs) ELSE cs
           v5 == IF v <= 4 THEN From4(v4) ELSE v4
           v6 == IF v <= 5 THEN From5(v5) ELSE v5
<1>1. v # 1
  OBVIOUS
<1>2. Migrated(v, cs) = From6(v6)
  BY <1>1, Zenon DEF Migrated
<1>3. DOMAIN cs = 1 .. n /\ \A i \in 1 .. n : cs[i] \in OldInverters(v)
  <2> HIDE DEF OldInverters
  <2> QED OBVIOUS
<1>4. DOMAIN v4 = 1 .. n /\ \A i \in 1 .. n : v4[i] = One3(v, cs[i])
  <2>1. CASE v <= 3
    <3>1. v4 = From3(cs)
      BY <2>1
    <3> HIDE DEF v4
    <3> QED BY <1>3, <2>1, <3>1, FromDomains, FromOne, Zenon
  <2>2. CASE ~(v <= 3)
    <3>1. v4 = cs
      BY <2>2
    <3>2. \A c : One3(v, c) = c
      BY <2>2, Zenon DEF One3
    <3> HIDE DEF v4
    <3> QED BY <1>3, <3>1, <3>2, Zenon
  <2> QED BY <2>1, <2>2
<1> HIDE DEF v4
<1>5. DOMAIN v5 = 1 .. n /\ \A i \in 1 .. n : v5[i] = One4(v, v4[i])
  <2>1. CASE v <= 4
    <3>1. v5 = From4(v4)
      BY <2>1
    <3> HIDE DEF v5
    <3> QED BY <1>4, <2>1, <3>1, FromDomains, FromOne, Zenon
  <2>2. CASE ~(v <= 4)
    <3>1. v5 = v4
      BY <2>2
    <3>2. \A c : One4(v, c) = c
      BY <2>2, Zenon DEF One4
    <3> HIDE DEF v5
    <3> QED BY <1>4, <3>1, <3>2, Zenon
  <2> QED BY <2>1, <2>2
<1> HIDE DEF v5
<1>6. DOMAIN v6 = 1 .. n /\ \A i \in 1 .. n : v6[i] = One5(v, v5[i])
  <2>1. CASE v <= 5
    <3>1. v6 = From5(v5)
      BY <2>1
    <3> HIDE DEF v6
    <3> QED BY <1>5, <2>1, <3>1, FromDomains, FromOne, Zenon
  <2>2. CASE ~(v <= 5)
    <3>1. v6 = v5
      BY <2>2
    <3>2. \A c : One5(v, c) = c
      BY <2>2, Zenon DEF One5
    <3> HIDE DEF v6
    <3> QED BY <1>5, <3>1, <3>2, Zenon
  <2> QED BY <2>1, <2>2
<1> HIDE DEF v6
<1>7. DOMAIN From6(v6) = 1 .. n
  BY <1>6, FromDomains, Zenon
<1>8. ASSUME NEW i \in 1 .. n
      PROVE  Becomes(v, cs[i], From6(v6)[i])
  <2>1. From6(v6)[i] = One6(v6[i])
    BY <1>6, FromOne, Zenon
  <2>2. From6(v6)[i] = One6(One5(v, One4(v, One3(v, cs[i]))))
    BY <1>4, <1>5, <1>6, <2>1, Zenon
  <2>3. cs[i] \in OldInverters(v)
    BY <1>3, Zenon
  <2> QED BY <2>2, <2>3, OneMigrated, Zenon
<1> QED BY <1>2, <1>7, <1>8, Zenon

LEMMA LenIs ==
    ASSUME NEW n \in Nat, NEW S, NEW f \in [1 .. n -> S]
    PROVE  Len(f) = n
OBVIOUS

LEMMA MigratedLen ==
    ASSUME NEW v, NEW os, NEW n \in Nat, DOMAIN Migrated(v, os) = 1 .. n
    PROVE  Len(Migrated(v, os)) = n
<1>1. PICK cs : Migrated(v, os) = From6(cs)
  BY Zenon DEF Migrated
<1>2. From6(cs) = [i \in DOMAIN cs |-> One6(cs[i])]
  BY Zenon DEF From6, One6
<1>3. DOMAIN cs = 1 .. n
  BY <1>1, FromDomains
<1>4. From6(cs) \in [1 .. n -> {One6(cs[i]) : i \in 1 .. n}]
  BY <1>2, <1>3
<1> QED BY <1>1, <1>4, LenIs

(* Inverters of which no two share a connection or a name. *)
ApartIn(n, cs) ==
    \A i, j \in 1 .. n : i # j =>
        ~SameConnection(cs[i], cs[j]) /\ OrEmpty(cs[i].name) # OrEmpty(cs[j].name)

(* A list of inverters as this version saves them. *)
SavedList(n, m) ==
    /\ DOMAIN m = 1 .. n
    /\ \A i \in 1 .. n : Saved(m[i]) /\ m[i].advanced = None /\ IsSaved(m[i])
    /\ \A i, j \in 1 .. n : i # j =>
         m[i].uid # m[j].uid /\ ~SameConnection(m[i], m[j])

(* Inverters of version 2 or later are saved as this version saves them. *)
LEMMA MigratedSaved ==
    ASSUME NEW v \in 2 .. 6, NEW n \in Nat, NEW cs \in [1 .. n -> OldInverters(v)],
           ApartIn(n, cs), NEW m, m = Migrated(v, cs)
    PROVE  SavedList(n, m)
<1>0. \A i, j \in 1 .. n : i # j =>
        ~SameConnection(cs[i], cs[j]) /\ OrEmpty(cs[i].name) # OrEmpty(cs[j].name)
  BY Zenon DEF ApartIn
<1>1. DOMAIN m = 1 .. n /\ \A i \in 1 .. n : Becomes(v, cs[i], m[i])
  BY MigratedIs, Zenon
<1>2. \A i \in 1 .. n : cs[i] \in OldInverters(v)
  <2> HIDE DEF OldInverters
  <2> QED OBVIOUS
<1>3. ASSUME NEW i \in 1 .. n
      PROVE  /\ cs[i].adapter \in Adapters /\ cs[i].host \in Hosts /\ cs[i].slave \in Slaves
             /\ cs[i].model = Attached[cs[i].host]
             /\ cs[i].protocol \in (IF v <= 5 THEN Capitals ELSE Smalls)
             /\ (IF v <= 5 THEN Lower(cs[i].protocol) ELSE cs[i].protocol)
                  \in ADAPTERS[cs[i].adapter].protocols
             /\ cs[i].name \in Names \cup {None, ""} /\ (v >= 4 => cs[i].prefix = cs[i].name)
  <2>1. PICK c : c = cs[i]
    OBVIOUS
  <2>2. c \in OldInverters(v)
    BY <1>2, <2>1
  <2> QED BY <2>1, <2>2, OldInverter
<1>4. ASSUME NEW i \in 1 .. n
      PROVE  Former(v, cs[i]) = OrEmpty(cs[i].name) /\ OrEmpty(cs[i].name) \in Names \cup {""}
  <2>1. v <= 3 \/ v >= 4
    OBVIOUS
  <2>2. (IF v <= 3 THEN cs[i].name ELSE cs[i].prefix) = cs[i].name
    BY <1>3, <2>1
  <2>3. OrEmpty(cs[i].name) \in Names \cup {""}
    BY <1>3 DEF OrEmpty
  <2> QED BY <2>2, <2>3 DEF Former
<1>5. ASSUME NEW i \in 1 .. n
      PROVE  /\ m[i].adapter = cs[i].adapter /\ m[i].host = cs[i].host /\ m[i].slave = cs[i].slave
             /\ m[i].model = cs[i].model
             /\ m[i].protocol = IF v <= 5 THEN Lower(cs[i].protocol) ELSE cs[i].protocol
             /\ m[i].uid = OrEmpty(cs[i].name) /\ m[i].prefix = Slug[OrEmpty(cs[i].name)]
             /\ m[i].name = OrEmpty(cs[i].name) /\ m[i].advanced = None /\ IsSaved(m[i])
  <2>1. Becomes(v, cs[i], m[i]) /\ Former(v, cs[i]) = OrEmpty(cs[i].name)
    BY <1>1, <1>4
  <2> QED BY ONLY <2>1 DEF Becomes, SamePlace
<1>6. ASSUME NEW i \in 1 .. n PROVE Saved(m[i]) /\ m[i].advanced = None
  <2>1. m[i].adapter \in Adapters /\ m[i].host \in Hosts /\ m[i].slave \in Slaves
    BY <1>3, <1>5
  <2>2. m[i].protocol \in ADAPTERS[m[i].adapter].protocols
    BY <1>3, <1>5
  <2>3. m[i].model = Attached[m[i].host]
    BY <1>3, <1>5
  <2>4. m[i].uid \in Names \cup {""} /\ m[i].name \in Names \cup {""}
    BY <1>4, <1>5, Zenon
  <2>5. m[i].prefix \in Range(Slug)
    <3>1. \A name \in Names \cup {""} : Slug[name] \in Range(Slug)
      BY ConfigurationAssumption DEF Range
    <3> QED BY <1>4, <1>5, <3>1, Zenon
  <2>6. m[i].advanced = None
    BY <1>5
  <2> QED BY ONLY <2>1, <2>2, <2>3, <2>4, <2>5, <2>6 DEF Saved
<1>7. ASSUME NEW i \in 1 .. n, NEW j \in 1 .. n, i # j
      PROVE  m[i].uid # m[j].uid /\ ~SameConnection(m[i], m[j])
  <2>1. m[i].uid # m[j].uid
    <3>1. m[i].uid = OrEmpty(cs[i].name) /\ m[j].uid = OrEmpty(cs[j].name)
      BY <1>5
    <3>2. OrEmpty(cs[i].name) # OrEmpty(cs[j].name)
      BY <1>0, <1>7
    <3> QED BY ONLY <3>1, <3>2
  <2>2. ASSUME SameConnection(m[i], m[j]) PROVE SameConnection(cs[i], cs[j])
    <3>1. m[i].protocol = m[j].protocol /\ m[i].host = m[j].host /\ m[i].slave = m[j].slave
      BY <2>2 DEF SameConnection
    <3>2. cs[i].host = cs[j].host /\ cs[i].slave = cs[j].slave
      BY <1>5, <3>1, Zenon
    <3>3. cs[i].protocol = cs[j].protocol
      <4>1. CASE v <= 5
        <5>1. cs[i].protocol \in Capitals /\ cs[j].protocol \in Capitals
          BY <1>3, <4>1, Zenon
        <5>2. Lower(cs[i].protocol) = Lower(cs[j].protocol)
          <6>1. m[i].protocol = Lower(cs[i].protocol) /\ m[j].protocol = Lower(cs[j].protocol)
            BY <1>5, <4>1
          <6> QED BY ONLY <3>1, <6>1
        <5> QED BY ONLY <5>1, <5>2, LowerApart
      <4>2. CASE ~(v <= 5)
        BY <1>5, <3>1, <4>2, Zenon
      <4> QED BY <4>1, <4>2
    <3> QED BY <3>2, <3>3 DEF SameConnection
  <2>3. ~SameConnection(cs[i], cs[j])
    BY <1>0, <1>7, Zenon
  <2> QED BY ONLY <2>1, <2>2, <2>3
<1>8. \A i \in 1 .. n : Saved(m[i]) /\ m[i].advanced = None /\ IsSaved(m[i])
  BY <1>5, <1>6, Zenon
<1>9. \A i, j \in 1 .. n : i # j => m[i].uid # m[j].uid /\ ~SameConnection(m[i], m[j])
  BY <1>7, Zenon
<1> QED BY <1>1, <1>8, <1>9, Zenon DEF SavedList

(* Of version 1 nothing is found. *)
LEMMA MigratedNone ==
    ASSUME NEW n \in Nat, NEW cs \in [1 .. n -> OldInverters(1)]
    PROVE  DOMAIN Migrated(1, cs) = 1 .. 0
<1> DEFINE kept == {i \in DOMAIN cs : cs[i].protocol \in {"tcp", "udp", "serial"}}
           v4 == From3(From1(cs))
           v5 == From4(v4)
           v6 == From5(v5)
<1>1. \A c \in OldInverters(1) : c.protocol \in Capitals
  BY OldFields
<1>2. kept = {}
  <2>1. \A i \in DOMAIN cs : cs[i] \in OldInverters(1)
    <3> HIDE DEF OldInverters
    <3> QED OBVIOUS
  <2> QED BY <1>1, <2>1 DEF Capitals
<1>3. Cardinality(kept) = 0
  BY <1>2, FS_EmptySet
<1>4. DOMAIN From1(cs) = 1 .. Cardinality(kept)
  BY Zenon DEF From1
<1>5. DOMAIN From1(cs) = 1 .. 0
  BY <1>3, <1>4, Zenon
<1>6. DOMAIN v4 = 1 .. 0
  BY <1>5, FromDomains, Zenon
<1>7. DOMAIN v5 = 1 .. 0
  <2> HIDE DEF v4
  <2> QED BY <1>6, FromDomains, Zenon
<1>8. DOMAIN v6 = 1 .. 0
  <2> HIDE DEF v5
  <2> QED BY <1>7, FromDomains, Zenon
<1>9. 1 <= 3 /\ 1 <= 4 /\ 1 <= 5
  OBVIOUS
<1>10. Migrated(1, cs) = From6(v6)
  BY <1>9, Zenon DEF Migrated
<1> HIDE DEF v6
<1> QED BY <1>8, <1>10, FromDomains, Zenon

(* What an options dialogue of version v, at least 2, has saved for an      *)
(* inverter whose data was c.                                               *)
OldDetailsAre(v, c, d) ==
    /\ d.adapter \in Adapters /\ d.host \in Hosts /\ d.slave \in Slaves
    /\ d.model = Attached[d.host]
    /\ d.protocol \in (IF v <= 5 THEN Capitals ELSE Smalls)
    /\ (IF v <= 5 THEN Lower(d.protocol) ELSE d.protocol) \in ADAPTERS[d.adapter].protocols
    /\ d.prefix = (IF v <= 3 THEN None ELSE OrEmpty(c.prefix)) /\ d.uid = None
    /\ d.name = OrEmpty(c.name) /\ d.advanced = None /\ IsSaved(d)

LEMMA OldDetailsKnown ==
    ASSUME NEW v \in 2 .. 6, NEW c, NEW d \in OldDetails(v, c)
    PROVE  OldDetailsAre(v, c, d)
<1>1. PICK p, n : p = (IF v <= 3 THEN None ELSE OrEmpty(c.prefix)) /\ n = OrEmpty(c.name)
  OBVIOUS
<1>2. PICK o \in OldInverters(v) :
        d = [o EXCEPT !.prefix = IF v <= 3 THEN None ELSE OrEmpty(c.prefix),
                      !.name = OrEmpty(c.name), !.advanced = None]
  <2> HIDE DEF OldInverters
  <2> QED BY Zenon DEF OldDetails
<1>3. d = [o EXCEPT !.prefix = p, !.name = n, !.advanced = None]
  BY <1>1, <1>2, Zenon
<1>4. /\ o.adapter \in Adapters /\ o.host \in Hosts /\ o.slave \in Slaves
      /\ o.model = Attached[o.host]
      /\ o.protocol \in (IF v <= 5 THEN Capitals ELSE Smalls)
      /\ (IF v <= 5 THEN Lower(o.protocol) ELSE o.protocol) \in ADAPTERS[o.adapter].protocols
      /\ o.uid = None /\ DOMAIN o = SavedFields
  BY OldInverter DEF IsSaved
<1>5. /\ d.adapter = o.adapter /\ d.protocol = o.protocol /\ d.host = o.host
      /\ d.slave = o.slave /\ d.model = o.model /\ d.uid = o.uid
      /\ d.prefix = p /\ d.name = n /\ d.advanced = None /\ DOMAIN d = SavedFields
  BY ONLY <1>3, <1>4 DEF SavedFields
<1> HIDE DEF OldInverters
<1> QED BY <1>1, <1>4, <1>5 DEF OldDetailsAre, IsSaved

(* Nothing else than details is in the options. *)
LEMMA OldOptionsKnown ==
    ASSUME NEW v \in 2 .. 6, NEW c, NEW o \in OldOptions(v, c)
    PROVE  /\ o.advanced = None /\ IsOptions(o)
           /\ o.details # None => OldDetailsAre(v, c, o.details)
<1>1. PICK d \in {None} \cup OldDetails(v, c) : o = [NoOptions EXCEPT !.details = d]
  <2> HIDE DEF OldDetails
  <2> QED BY DEF OldOptions
<1>2. o.details = d /\ o.advanced = None /\ DOMAIN o = {"details", "version", "advanced"}
  BY <1>1 DEF NoOptions
<1>3. d # None => OldDetailsAre(v, c, d)
  <2> HIDE DEF OldDetails, OldDetailsAre
  <2> QED BY <1>1, OldDetailsKnown
<1>4. OldDetailsAre(v, c, d) => IsSaved(d)
  BY DEF OldDetailsAre
<1> QED BY <1>2, <1>3, <1>4 DEF IsOptions

(* After the migration they are as OptionsOK has it, ...                    *)
LEMMA MigratedOptionsOK ==
    ASSUME NEW v \in 2 .. 6, born = v, NEW c \in OldInverters(v), NEW b, Becomes(v, c, b),
           NEW o \in OldOptions(v, c)
    PROVE  OptionsOK(o, b)
<1>1. o.advanced = None /\ (o.details # None => OldDetailsAre(v, c, o.details))
  BY OldOptionsKnown
<1>2. ASSUME o.details # None PROVE DetailsOK(o.details, b)
  <2>1. PICK d : d = o.details /\ OldDetailsAre(v, c, d)
    BY <1>1, <1>2
  <2>2. (d.uid = None /\ born < 6) <=> v <= 5
    BY <2>1 DEF OldDetailsAre
  <2>3. (IF d.uid = None /\ born < 6 THEN Lower(d.protocol) ELSE d.protocol)
          \in ADAPTERS[d.adapter].protocols
    BY <2>1, <2>2 DEF OldDetailsAre
  <2>4. d.name \in Names \cup {""}
    <3>1. c.name \in Names \cup {None, ""}
      BY OldInverter
    <3> QED BY <2>1, <3>1 DEF OldDetailsAre, OrEmpty
  <2>5. d.prefix \in {None, b.prefix} \/ (born \in 4 .. 6 /\ d.prefix = b.uid)
    <3>1. CASE v <= 3
      BY <2>1, <3>1 DEF OldDetailsAre
    <3>2. CASE ~(v <= 3)
      <4>1. d.prefix = OrEmpty(c.prefix) /\ born \in 4 .. 6
        BY <2>1, <3>2 DEF OldDetailsAre
      <4>2. b.uid = OrEmpty(c.prefix)
        BY <3>2 DEF Becomes, Former
      <4> QED BY <4>1, <4>2
    <3> QED BY <3>1, <3>2
  <2> QED BY <2>1, <2>3, <2>4, <2>5 DEF DetailsOK, OldDetailsAre
<1> QED BY <1>1, <1>2 DEF OptionsOK

(* ... and no two inverters come to share a connection, as it is written.   *)
LEMMA UnderMigrated ==
    ASSUME NEW v \in 2 .. 6, NEW c \in OldInverters(v), NEW b, Becomes(v, c, b),
           NEW o \in OldOptions(v, c),
           NEW u, u = Under(o, c), NEW w, w = Under(o, b)
    PROVE  /\ w.host = u.host /\ w.slave = u.slave
           /\ v <= 5 => u.protocol \in Capitals
           /\ w.protocol = IF v <= 5 /\ o.details = None THEN Lower(u.protocol) ELSE u.protocol
<1>1. CASE o.details = None
  <2>1. u = c /\ w = b
    BY <1>1 DEF Under
  <2>2. v <= 5 => c.protocol \in Capitals
    BY OldInverter
  <2>3. b.host = c.host /\ b.slave = c.slave
    BY DEF Becomes, SamePlace
  <2>4. b.protocol = IF v <= 5 THEN Lower(c.protocol) ELSE c.protocol
    BY DEF Becomes
  <2> HIDE DEF OldInverters
  <2> QED BY <1>1, <2>1, <2>2, <2>3, <2>4
<1>2. CASE o.details # None
  <2>1. u = o.details /\ w = o.details
    BY <1>2 DEF Under
  <2>2. OldDetailsAre(v, c, o.details)
    BY <1>2, OldOptionsKnown
  <2>3. v <= 5 => u.protocol \in Capitals
    BY <2>1, <2>2 DEF OldDetailsAre
  <2> HIDE DEF OldInverters
  <2> QED BY <1>2, <2>1, <2>3
<1> QED BY <1>1, <1>2

LEMMA MigratedApart ==
    ASSUME NEW v \in 2 .. 6,
           NEW c \in OldInverters(v), NEW b, Becomes(v, c, b), NEW o \in OldOptions(v, c),
           NEW e \in OldInverters(v), NEW a, Becomes(v, e, a), NEW q \in OldOptions(v, e),
           ~SameConnection(Under(o, c), Under(q, e))
    PROVE  ~SameConnection(Under(o, b), Under(q, a))
<1>1. PICK u, w : u = Under(o, c) /\ w = Under(o, b)
  OBVIOUS
<1>2. PICK x, y : x = Under(q, e) /\ y = Under(q, a)
  OBVIOUS
<1>3. /\ w.host = u.host /\ w.slave = u.slave
      /\ v <= 5 => u.protocol \in Capitals
      /\ w.protocol = IF v <= 5 /\ o.details = None THEN Lower(u.protocol) ELSE u.protocol
  BY <1>1, UnderMigrated
<1>4. /\ y.host = x.host /\ y.slave = x.slave
      /\ v <= 5 => x.protocol \in Capitals
      /\ y.protocol = IF v <= 5 /\ q.details = None THEN Lower(x.protocol) ELSE x.protocol
  BY <1>2, UnderMigrated
<1> HIDE DEF OldInverters
<1>5. w.protocol = y.protocol => u.protocol = x.protocol
  <2>1. CASE v <= 5
    <3>1. \A r, s \in Capitals : (Lower(r) = Lower(s) => r = s) /\ Lower(r) # s
      BY LowerApart
    <3> QED BY ONLY <1>3, <1>4, <2>1, <3>1
  <2>2. CASE ~(v <= 5)
    BY ONLY <1>3, <1>4, <2>2
  <2> QED BY <2>1, <2>2
<1> QED BY <1>1, <1>2, <1>3, <1>4, <1>5 DEF SameConnection

(* An entry of an older version. *)
LEMMA OldEntry ==
    ASSUME IInv, version \in 1 .. 6
    PROVE  \E n \in Nat :
             /\ DOMAIN data = 1 .. n /\ data \in [1 .. n -> OldInverters(version)]
             /\ DOMAIN options = 1 .. n /\ Len(options) = n
             /\ ApartIn(n, data) /\ born = version
<1>1. InitEntry(version) /\ Len(options) = Len(data)
  BY DEF IInv, EntryInv, OldInv, VERSION
<1>2. data \in OldEntries(version) /\ born = version
  BY <1>1 DEF InitEntry
<1>3. PICK n \in 1 .. MaxInverters : data \in [1 .. n -> OldInverters(version)]
  <2> HIDE DEF OldInverters
  <2> QED BY <1>2 DEF OldEntries
<1>4. /\ Apart(data)
      /\ \A i, j \in DOMAIN data : i # j => OrEmpty(data[i].name) # OrEmpty(data[j].name)
  <2> HIDE DEF OldInverters, Apart, OrEmpty
  <2> QED BY <1>2 DEF OldEntries
<1>5. DOMAIN data = 1 .. n /\ n \in Nat
  <2>1. DOMAIN data = 1 .. n
    BY <1>3
  <2>2. MaxInverters \in Nat
    BY ConfigurationAssumption
  <2> QED BY <2>1, <2>2
<1>6. ApartIn(n, data)
  <2> HIDE DEF OldInverters
  <2> QED BY <1>4, <1>5 DEF ApartIn, Apart
<1>7. DOMAIN options = 1 .. n
  BY <1>1, <1>5, OldOptionsOf
<1>8. Len(data) = n
  BY <1>3, <1>5, LenIs
<1> HIDE DEF OldInverters
<1> QED BY <1>1, <1>2, <1>3, <1>5, <1>6, <1>7, <1>8

(* An entry that a migration leaves. *)
MigratedOK(n, m, os) ==
    /\ DOMAIN m = 1 .. n /\ DOMAIN os = 1 .. n /\ Len(m) = n /\ Len(os) = n
    /\ \A i \in 1 .. n : Saved(m[i]) /\ m[i].advanced = None /\ IsSaved(m[i])
    /\ \A i \in 1 .. n : OptionsOK(os[i], m[i]) /\ IsOptions(os[i])
    /\ \A i, j \in 1 .. n : i # j =>
         m[i].uid # m[j].uid /\ ~SameConnection(Under(os[i], m[i]), Under(os[j], m[j]))

(* A migration leaves inverters that are saved as this version saves them,  *)
(* under the options that there were.                                       *)
LEMMA MigratedEntry ==
    ASSUME Shapes, IInv, MigrateEntry
    PROVE  \E n \in Nat : MigratedOK(n, data', options')
<1>1. version \in 1 .. 6
  BY DEF MigrateEntry, VERSION
<1>2. /\ data' = Migrated(version, data)
      /\ options' = MigratedOptions(version, options, Len(data'))
  BY DEF MigrateEntry
<1>3. PICK n \in Nat :
        /\ DOMAIN data = 1 .. n /\ data \in [1 .. n -> OldInverters(version)]
        /\ DOMAIN options = 1 .. n /\ Len(options) = n
        /\ ApartIn(n, data) /\ born = version
  <2> HIDE DEF OldInverters, ApartIn
  <2> QED BY <1>1, OldEntry
<1>4. CASE version = 1
  <2>1. DOMAIN data' = 1 .. 0
    BY <1>2, <1>3, <1>4, MigratedNone
  <2>2. Len(data') = 0
    BY <1>2, <2>1, MigratedLen
  <2>3. options' = [i \in 1 .. Len(data') |-> options[1]]
    BY <1>2, <1>4, Zenon DEF MigratedOptions
  <2>4. DOMAIN options' = 1 .. 0 /\ Len(options') = 0
    BY <2>2, <2>3
  <2>5. \A i \in 1 .. 0 : FALSE
    OBVIOUS
  <2>6. MigratedOK(0, data', options')
    BY <2>1, <2>2, <2>4, <2>5 DEF MigratedOK
  <2> QED BY <2>6
<1>5. CASE version # 1
  <2>0. PICK v, cs, m, os : v = version /\ cs = data /\ m = data' /\ os = options
    OBVIOUS
  <2>1. /\ v \in 2 .. 6 /\ born = v /\ m = Migrated(v, cs) /\ options' = os
        /\ DOMAIN os = 1 .. n /\ Len(os) = n /\ n \in Nat
    <3>1. options' = options
      BY <1>2, <1>5, Zenon DEF MigratedOptions
    <3> HIDE DEF OldInverters
    <3> QED BY <1>1, <1>2, <1>3, <1>5, <2>0, <3>1
  <2>2. cs \in [1 .. n -> OldInverters(v)] /\ ApartIn(n, cs)
    <3> HIDE DEF OldInverters
    <3> QED BY <1>3, <2>0
  <2>3. SavedList(n, m)
    <3> HIDE DEF OldInverters
    <3> QED BY ONLY <2>1, <2>2, MigratedSaved
  <2>4. \A i \in 1 .. n : cs[i] \in OldInverters(v) /\ Becomes(v, cs[i], m[i])
    <3>1. \A i \in 1 .. n : Becomes(v, cs[i], m[i])
      BY <2>1, <2>2, MigratedIs
    <3> HIDE DEF OldInverters
    <3> QED BY <2>2, <3>1
  <2>5. \A i \in 1 .. n : os[i] \in OldOptions(v, cs[i])
    <3>1. InitEntry(v) /\ DOMAIN data = 1 .. n
      <4> HIDE DEF OldInverters
      <4> QED BY <1>1, <1>3, <2>0 DEF IInv, EntryInv, OldInv, VERSION
    <3>2. v # 1
      BY <2>1
    <3> HIDE DEF OldInverters, OldOptions, OldEntries, Apart
    <3> QED BY <2>0, <3>1, <3>2 DEF InitEntry
  <2>6. \A i, j \in 1 .. n : i # j => ~SameConnection(Under(os[i], cs[i]), Under(os[j], cs[j]))
    <3>1. Apart([i \in DOMAIN data |-> CombinedConfig(i)]) /\ DOMAIN data = 1 .. n
      <4>1. InitEntry(v)
        <5> HIDE DEF OldInverters
        <5> QED BY <1>1, <2>0 DEF IInv, EntryInv, OldInv, VERSION
      <4> HIDE DEF OldInverters, OldOptions, OldEntries, Apart
      <4> QED BY <1>3, <4>1 DEF InitEntry
    <3>2. \A i, j \in 1 .. n : i # j => ~SameConnection(CombinedConfig(i), CombinedConfig(j))
      BY <3>1 DEF Apart
    <3>3. \A i \in 1 .. n : SameConnection(CombinedConfig(i), Under(os[i], cs[i]))
      BY <2>0, <3>1, CombinedLaid DEF LaidOn, Inverters
    <3> QED BY <3>2, <3>3 DEF SameConnection
  <2> HIDE DEF OldInverters, OldOptions
  <2>7. \A i \in 1 .. n : OptionsOK(os[i], m[i]) /\ IsOptions(os[i])
    BY <2>1, <2>4, <2>5, MigratedOptionsOK, OldOptionsKnown
  <2>8. \A i, j \in 1 .. n : i # j =>
          ~SameConnection(Under(os[i], m[i]), Under(os[j], m[j]))
    <3> SUFFICES ASSUME NEW i \in 1 .. n, NEW j \in 1 .. n, i # j
                 PROVE  ~SameConnection(Under(os[i], m[i]), Under(os[j], m[j]))
      OBVIOUS
    <3>1. /\ cs[i] \in OldInverters(v) /\ Becomes(v, cs[i], m[i])
          /\ os[i] \in OldOptions(v, cs[i])
          /\ cs[j] \in OldInverters(v) /\ Becomes(v, cs[j], m[j])
          /\ os[j] \in OldOptions(v, cs[j])
          /\ ~SameConnection(Under(os[i], cs[i]), Under(os[j], cs[j]))
      BY <2>4, <2>5, <2>6
    <3> QED BY <2>1, <3>1, MigratedApart
  <2>9. Len(m) = n
    BY <2>1, <2>3, MigratedLen DEF SavedList
  <2>10. MigratedOK(n, m, os)
    BY <2>1, <2>3, <2>7, <2>8, <2>9 DEF SavedList, MigratedOK
  <2> QED BY <2>0, <2>1, <2>10
<1> QED BY <1>4, <1>5

LEMMA MigrateEntryInv ==
    ASSUME Shapes, IInv, MigrateEntry
    PROVE  IInv'
<1>0. /\ version \in 1 .. 6 /\ version' = 7 /\ energy = {}
      /\ UNCHANGED <<dialogue, added, energy, opened, overlapped, born>>
      /\ born = version /\ opened \in 0 .. MaxOpened
      /\ added = <<>> /\ dialogue[setup].step = "closed"
  <2>1. version \in 1 .. 6 /\ version' = 7
    BY DEF MigrateEntry, VERSION
  <2>2. UNCHANGED <<dialogue, added, energy, opened, overlapped, born>>
    BY DEF MigrateEntry, history
  <2>3. energy = {} /\ born = version /\ opened \in 0 .. MaxOpened
    BY <2>1 DEF IInv, EntryInv, OldInv, InitEntry, VERSION
  <2>4. added = <<>> /\ dialogue[setup].step = "closed"
    BY <2>1 DEF IInv, AddedInv
  <2> QED BY <2>1, <2>2, <2>3, <2>4
<1>1. PICK n \in Nat : MigratedOK(n, data', options')
  BY MigratedEntry
<1>2. /\ DOMAIN data' = 1 .. n /\ DOMAIN options' = 1 .. n
      /\ Len(data') = n /\ Len(options') = n
      /\ \A i \in 1 .. n : Saved(data'[i]) /\ data'[i].advanced = None /\ IsSaved(data'[i])
      /\ \A i \in 1 .. n : OptionsOK(options'[i], data'[i]) /\ IsOptions(options'[i])
      /\ \A i, j \in 1 .. n : i # j =>
           /\ data'[i].uid # data'[j].uid
           /\ ~SameConnection(Under(options'[i], data'[i]), Under(options'[j], data'[j]))
  BY <1>1 DEF MigratedOK
<1>3. SavedInv'
  BY <1>0, <1>2 DEF SavedInv, OptionsOK, DetailsOK, Inverters
<1>4. ASSUME NEW i \in 1 .. n
      PROVE  SameConnection(CombinedConfig(i)', Under(options'[i], data'[i]))
  <2>1. CombinedConfig(i)' = Laid(options'[i], data'[i])
    BY Zenon DEF CombinedConfig
  <2>2. LaidOn(CombinedConfig(i)', options'[i], data'[i])
    BY <1>2, <2>1, LaidIs
  <2> QED BY <2>2 DEF LaidOn
<1>5. DistinctInv'
  <2>1. ASSUME NEW i \in 1 .. n, NEW j \in 1 .. n, i # j
        PROVE  /\ data'[i].uid # data'[j].uid
               /\ ~SameConnection(CombinedConfig(i)', CombinedConfig(j)')
    <3>1. /\ data'[i].uid # data'[j].uid
          /\ ~SameConnection(Under(options'[i], data'[i]), Under(options'[j], data'[j]))
      BY <1>2, <2>1
    <3>2. ~SameConnection(CombinedConfig(i)', CombinedConfig(j)')
      BY <1>4, <3>1 DEF SameConnection
    <3> QED BY <3>1, <3>2
  <2>2. born' < VERSION
    BY <1>0 DEF VERSION
  <2> QED BY <1>0, <1>2, <2>1, <2>2 DEF DistinctInv, Inverters, SameConnection
<1>6. EntryInv'
  BY <1>0, <1>2, <1>3, <1>5 DEF EntryInv, VERSION
<1>7. AddedInv'
  BY <1>0 DEF IInv, AddedInv
<1>8. DialogueInv'
  <2>1. \A d \in Dialogues : dialogue'[d].step = "closed"
    BY <1>0, TabsClosed DEF Dialogues, VERSION
  <2>2. DOMAIN dialogue' = Dialogues
    BY <1>0 DEF IInv, DialogueInv
  <2> QED BY <2>1, <2>2 DEF DialogueInv, SegmentOK, SetupInv, TabOK, AloneInv, Open, NameSteps,
                            SegmentSteps, Dialogues
<1> QED BY <1>6, <1>7, <1>8 DEF IInv

-------------------------------------------------------------------------------
(* The records keep their fields.                                           *)

LEMMA InitShapes == ASSUME Init PROVE Shapes
<1>1. \A d \in Dialogues : IsForm(dialogue[d])
  BY MadeWhole DEF Init, InitDialogues
<1>2. ASSUME NEW v \in 1 .. VERSION - 1, InitEntry(v), NEW i \in Inverters
      PROVE  IsSaved(data[i]) /\ IsOptions(options[i])
  <2>0. v \in 1 .. 6 /\ data \in OldEntries(v)
    BY <1>2 DEF VERSION, InitEntry
  <2>1. PICK n \in 1 .. MaxInverters : data \in [1 .. n -> OldInverters(v)]
    <3> HIDE DEF OldInverters
    <3> QED BY <2>0 DEF OldEntries
  <2>2. data[i] \in OldInverters(v)
    <3> HIDE DEF OldInverters
    <3> QED BY <2>1 DEF Inverters
  <2>3. IsSaved(data[i])
    BY <2>0, <2>2, OldFields
  <2>4. IsOptions(options[i])
    <3>1. CASE v = 1
      <4>1. PICK a : options = [j \in DOMAIN data |-> [NoOptions EXCEPT !.advanced = a]]
        BY <1>2, <3>1, Zenon DEF InitEntry
      <4>2. options[i] = [NoOptions EXCEPT !.advanced = a]
        BY <4>1 DEF Inverters
      <4> QED BY <4>2 DEF NoOptions, IsOptions
    <3>2. CASE v # 1
      <4>1. options[i] \in OldOptions(v, data[i]) /\ v \in 2 .. 6
        <5> HIDE DEF OldInverters, OldOptions, OldEntries, Apart
        <5> QED BY <1>2, <2>0, <3>2 DEF InitEntry, Inverters
      <4> QED BY <4>1, OldOptionsKnown
    <3> QED BY <3>1, <3>2
  <2> QED BY <2>3, <2>4
<1>3. data = <<>> => Inverters = {}
  BY DEF Inverters
<1> QED BY <1>1, <1>2, <1>3 DEF Init, Shapes

(* One dialogue goes on with another form. *)
LEMMA FormMoves ==
    ASSUME Shapes, NEW d \in Dialogues, IsForm(dialogue'[d]),
           \A e \in Dialogues \ {d} : dialogue'[e] = dialogue[e],
           UNCHANGED <<data, options>>
    PROVE  Shapes'
<1>1. \A e \in Dialogues : IsForm(dialogue'[e])
  BY DEF Shapes
<1> QED BY <1>1 DEF Shapes, Inverters, Dialogues

LEMMA SegmentShapes ==
    ASSUME Shapes, IInv, NEW d \in Dialogues, Segment(d)
    PROVE  Shapes'
<1>1. /\ DOMAIN dialogue = Dialogues /\ IsForm(dialogue[d])
      /\ UNCHANGED <<data, options>>
  BY DEF IInv, DialogueInv, Shapes, Segment, SelectAdapterType, SelectAdapterModel,
         SubmitConnection, DetectionFails, Close, entry
<1>2. CASE SelectAdapterType(d)
  <2>0. PICK type \in {ADAPTERS[a].type : a \in Adapters} :
          LET adapters == {a \in DOMAIN ADAPTERS : ADAPTERS[a].type = type}
              one == Cardinality(adapters) = 1
          IN  dialogue' = [dialogue EXCEPT ![d].draft.type = type,
                ![d].draft.adapter = IF one THEN CHOOSE a \in adapters : TRUE ELSE @,
                ![d].step = IF one THEN "adapter" ELSE "select_adapter_model"]
    BY <1>2 DEF SelectAdapterType
  <2> DEFINE S == {a \in DOMAIN ADAPTERS : ADAPTERS[a].type = type}
             one == Cardinality(S) = 1
             adapter == IF one THEN CHOOSE a \in S : TRUE ELSE dialogue[d].draft.adapter
             step == IF one THEN "adapter" ELSE "select_adapter_model"
  <2>1. dialogue' = [dialogue EXCEPT ![d].draft.type = type, ![d].draft.adapter = adapter,
                                     ![d].step = step]
    BY <2>0
  <2> HIDE DEF S, one, adapter, step
  <2>2. \A e \in Dialogues \ {d} : dialogue'[e] = dialogue[e]
    BY <1>1, <2>1
  <2>3. IsForm(dialogue'[d])
    BY <1>1, <2>1 DEF IsForm, FormFields, DraftFields
  <2> QED BY <1>1, <2>2, <2>3, FormMoves
<1>3. CASE SelectAdapterModel(d)
  <2>1. PICK a : dialogue' = [dialogue EXCEPT ![d].draft.adapter = a, ![d].step = "adapter"]
    BY <1>3 DEF SelectAdapterModel
  <2>2. \A e \in Dialogues \ {d} : dialogue'[e] = dialogue[e]
    BY <1>1, <2>1
  <2>3. IsForm(dialogue'[d])
    BY <1>1, <2>1 DEF IsForm, FormFields, DraftFields
  <2> QED BY <1>1, <2>2, <2>3, FormMoves
<1>4. CASE SubmitConnection(d) \/ DetectionFails(d)
  <2>1. PICK step, c : dialogue' = [dialogue EXCEPT ![d].step = step, ![d].trying = c]
    BY <1>4 DEF SubmitConnection, DetectionFails
  <2>2. \A e \in Dialogues \ {d} : dialogue'[e] = dialogue[e]
    BY <1>1, <2>1
  <2>3. IsForm(dialogue'[d])
    BY <1>1, <2>1 DEF IsForm, FormFields
  <2> QED BY <1>1, <2>2, <2>3, FormMoves
<1>5. CASE Close(d)
  <2>1. dialogue' = [dialogue EXCEPT ![d] = Fresh]
    BY <1>5 DEF Close
  <2>2. dialogue'[d] = Fresh /\ \A e \in Dialogues \ {d} : dialogue'[e] = dialogue[e]
    BY <1>1, <2>1
  <2> QED BY <1>1, <2>2, MadeWhole, FormMoves
<1> QED BY <1>2, <1>3, <1>4, <1>5 DEF Segment

(* A detection fills the draft in. *)
LEMMA DetectedFields ==
    ASSUME Shapes, NEW d \in Dialogues
    PROVE  DOMAIN Detected(d) = DraftFields
BY DEF Detected, Shapes, IsForm

LEMMA SetupShapes ==
    ASSUME Shapes, IInv, SetupDialogue
    PROVE  Shapes'
<1>1. /\ DOMAIN dialogue = Dialogues /\ setup \in Dialogues /\ IsForm(dialogue[setup])
  BY DEF IInv, DialogueInv, Shapes, Dialogues
<1>2. CASE ~FinishSetup
  <2>1. UNCHANGED <<data, options>>
    BY <1>2 DEF SetupDialogue, StartSetup, SetupDetected, SubmitName, AddAnother, entry
  <2>2. ASSUME NEW step, Show(setup, step) PROVE Shapes'
    <3>1. dialogue' = [dialogue EXCEPT ![setup].step = step]
      BY <2>2 DEF Show
    <3>2. \A e \in Dialogues \ {setup} : dialogue'[e] = dialogue[e]
      BY <1>1, <3>1
    <3>3. IsForm(dialogue'[setup])
      BY <1>1, <3>1 DEF IsForm, FormFields
    <3> QED BY <1>1, <2>1, <3>2, <3>3, FormMoves
  <2>3. CASE SetupDetected
    <3>1. PICK draft : draft = Detected(setup)
      OBVIOUS
    <3>2. dialogue' = [dialogue EXCEPT ![setup].step = "friendly_name", ![setup].draft = draft,
                                       ![setup].trying = None]
      BY <2>3, <3>1 DEF SetupDetected
    <3>3. \A e \in Dialogues \ {setup} : dialogue'[e] = dialogue[e]
      BY <1>1, <3>2
    <3>4. IsForm(dialogue'[setup])
      BY <1>1, <3>1, <3>2, DetectedFields DEF IsForm, FormFields
    <3> QED BY <1>1, <2>1, <3>3, <3>4, FormMoves
  <2>4. ASSUME NEW name, NEW prefix, AddInverter(name, prefix) PROVE Shapes'
    <3>1. dialogue' = [dialogue EXCEPT ![setup].draft = NoData, ![setup].step = "add_another"]
      BY <2>4 DEF AddInverter
    <3>2. \A e \in Dialogues \ {setup} : dialogue'[e] = dialogue[e]
      BY <1>1, <3>1
    <3>3. IsForm(dialogue'[setup])
      BY <1>1, <3>1, MadeWhole DEF IsForm, FormFields
    <3> QED BY <1>1, <2>1, <3>2, <3>3, FormMoves
  <2>5. CASE SubmitName
    BY <2>2, <2>4, <2>5 DEF SubmitName, NameTaken, GeneratedPrefix, AskForPrefix, EnteredPrefix
  <2>6. CASE StartSetup \/ AddAnother
    BY <2>2, <2>6 DEF StartSetup, AddAnother
  <2> QED BY <1>2, <2>3, <2>5, <2>6 DEF SetupDialogue
<1>3. CASE FinishSetup
  <2>1. /\ data' = [i \in DOMAIN added |-> InverterDataToDict(added[i])]
        /\ options' = [i \in DOMAIN added |-> NoOptions]
        /\ dialogue' = [dialogue EXCEPT ![setup] = Fresh]
    BY <1>3 DEF FinishSetup
  <2>2. \A d \in Dialogues : IsForm(dialogue'[d])
    BY <1>1, <2>1, MadeWhole DEF Shapes
  <2>3. \A i \in Inverters' : IsSaved(data'[i]) /\ IsOptions(options'[i])
    BY <2>1, MadeWhole DEF Inverters
  <2> QED BY <2>2, <2>3 DEF Shapes, Dialogues
<1> QED BY <1>2, <1>3

(* What a tab saves has the fields of options. *)
LEMMA SaveShapes ==
    ASSUME Shapes, IInv, NEW t \in Tabs, NEW amended, Save(t, amended), IsOptions(amended)
    PROVE  Shapes'
<1>1. /\ DOMAIN dialogue = Dialogues /\ t \in Dialogues /\ DOMAIN options = Inverters
      /\ options' = [options EXCEPT ![dialogue[t].id] = amended]
      /\ dialogue' = [dialogue EXCEPT ![t] = Fresh] /\ UNCHANGED data
  BY DEF IInv, EntryInv, DialogueInv, Dialogues, Inverters, Save
<1>2. \A d \in Dialogues : IsForm(dialogue'[d])
  BY <1>1, MadeWhole DEF Shapes
<1>3. \A i \in Inverters : IsSaved(data[i]) /\ IsOptions(options'[i])
  BY <1>1 DEF Shapes
<1> QED BY <1>1, <1>2, <1>3 DEF Shapes, Inverters, Dialogues

(* The options that a tab amends, and what it makes of them. *)
LEMMA AmendedFields ==
    ASSUME Shapes, IInv, NEW t \in Tabs, dialogue[t].step \notin {"closed", "select_inverter"}
    PROVE  /\ \A x : IsOptions([OptionsOf(t) EXCEPT !.version = x])
           /\ \A x : IsOptions([OptionsOf(t) EXCEPT !.advanced = x])
           /\ IsOptions(AmendedDetails(t))
<1>1. IsOptions(OptionsOf(t))
  BY DEF Shapes, OptionsOf, IInv, DialogueInv, TabOK
<1> DEFINE o == OptionsOf(t)
<1> HIDE DEF o
<1>2. \A x : IsOptions([o EXCEPT !.version = x]) /\ IsOptions([o EXCEPT !.advanced = x])
  BY <1>1 DEF IsOptions, o
<1>3. \A c : IsSaved(c) => IsOptions([o EXCEPT !.details = c])
  BY <1>1 DEF IsOptions, o
<1> QED BY <1>2, <1>3, MadeWhole DEF AmendedDetails, o

LEMMA OptionsShapes ==
    ASSUME Shapes, IInv, NEW t \in Tabs, OptionsDialogue(t)
    PROVE  Shapes'
<1>1. DOMAIN dialogue = Dialogues /\ t \in Dialogues /\ IsForm(dialogue[t])
  BY DEF IInv, DialogueInv, Shapes, Dialogues
<1>2. CASE OptionsDetected(t)
  BY <1>2, AmendedFields, SaveShapes DEF OptionsDetected
<1>3. CASE SubmitVersion(t)
  BY <1>3, AmendedFields, SaveShapes DEF SubmitVersion
<1>4. CASE SubmitAdvanced(t)
  BY <1>4, AmendedFields, SaveShapes DEF SubmitAdvanced
<1>5. ASSUME NEW i, Categories(t, i), UNCHANGED <<data, options>>
      PROVE  Shapes'
  <2>1. dialogue' = [dialogue EXCEPT ![t] = [Fresh EXCEPT !.step = "category", !.id = i,
                                               !.offered = VersionsOf(CombinedConfig(i))]]
    BY <1>5 DEF Categories
  <2>2. \A e \in Dialogues \ {t} : dialogue'[e] = dialogue[e]
    BY <1>1, <2>1
  <2>3. IsForm(dialogue'[t])
    BY <1>1, <2>1, MadeWhole DEF IsForm, FormFields
  <2> QED BY <1>5, <2>2, <2>3, <1>1, FormMoves
<1>6. CASE SelectInverter(t)
  BY <1>5, <1>6 DEF SelectInverter, entry
<1>7. ASSUME NEW step, NEW draft, NEW others, NEW offered, DOMAIN draft = DraftFields,
             dialogue' = [dialogue EXCEPT ![t].step = step, ![t].draft = draft,
                                          ![t].offered = offered, ![t].others = others],
             UNCHANGED <<data, options>>
      PROVE  Shapes'
  <2>1. \A e \in Dialogues \ {t} : dialogue'[e] = dialogue[e]
    BY <1>1, <1>7
  <2>2. IsForm(dialogue'[t])
    BY <1>1, <1>7 DEF IsForm, FormFields
  <2> QED BY <1>1, <1>7, <2>1, <2>2, FormMoves
<1>8. ASSUME NEW step, NEW offered,
             dialogue' = [dialogue EXCEPT ![t].step = step, ![t].offered = offered],
             UNCHANGED <<data, options>>
      PROVE  Shapes'
  <2>1. \A e \in Dialogues \ {t} : dialogue'[e] = dialogue[e]
    BY <1>1, <1>8
  <2>2. IsForm(dialogue'[t])
    BY <1>1, <1>8 DEF IsForm, FormFields
  <2> QED BY <1>1, <1>8, <2>1, <2>2, FormMoves
<1>9. CASE ChangeVersion(t) \/ ChangeAdvanced(t)
  BY <1>8, <1>9 DEF ChangeVersion, ChangeAdvanced, entry
<1>10. CASE ChangeAdapter(t)
  <2>1. dialogue[t].id \in Inverters
    BY <1>10 DEF ChangeAdapter, IInv, DialogueInv, TabOK
  <2>2. PICK table, others :
          /\ table = [j \in Inverters |-> DictToInverterData(CombinedConfig(j))]
          /\ dialogue' = [dialogue EXCEPT ![t].step = "select_adapter_type",
                            ![t].draft = table[dialogue[t].id], ![t].offered = {},
                            ![t].others = others]
    BY <1>10 DEF ChangeAdapter
  <2>3. DOMAIN table[dialogue[t].id] = DraftFields
    BY <2>1, <2>2, MadeWhole
  <2>4. PICK draft : draft = table[dialogue[t].id]
    OBVIOUS
  <2>5. dialogue' = [dialogue EXCEPT ![t].step = "select_adapter_type", ![t].draft = draft,
                                     ![t].offered = {}, ![t].others = others]
    BY <2>2, <2>4
  <2>6. UNCHANGED <<data, options>>
    BY <1>10 DEF ChangeAdapter, entry
  <2> QED BY <1>7, <2>3, <2>4, <2>5, <2>6
<1>11. CASE OpenOptions(t)
  <2>1. UNCHANGED <<data, options>>
    BY <1>11 DEF OpenOptions, entry
  <2>2. CASE Categories(t, 1)
    BY <1>5, <2>1, <2>2
  <2>3. CASE Show(t, "select_inverter")
    <3>1. dialogue' = [dialogue EXCEPT ![t].step = "select_inverter"]
      BY <2>3 DEF Show
    <3>2. \A e \in Dialogues \ {t} : dialogue'[e] = dialogue[e]
      BY <1>1, <3>1
    <3>3. IsForm(dialogue'[t])
      BY <1>1, <3>1 DEF IsForm, FormFields
    <3> QED BY <1>1, <2>1, <3>2, <3>3, FormMoves
  <2> QED BY <1>11, <2>2, <2>3 DEF OpenOptions
<1> QED BY <1>2, <1>3, <1>4, <1>6, <1>9, <1>10, <1>11 DEF OptionsDialogue

LEMMA MigrationShapes ==
    ASSUME Shapes, IInv, MigrateEntry
    PROVE  Shapes'
<1>1. PICK n \in Nat : MigratedOK(n, data', options')
  BY MigratedEntry
<1>2. \A i \in Inverters' : IsSaved(data'[i]) /\ IsOptions(options'[i])
  BY <1>1 DEF MigratedOK, Inverters
<1>3. UNCHANGED dialogue
  BY DEF MigrateEntry
<1> QED BY <1>2, <1>3 DEF Shapes, Dialogues

LEMMA NextShapes == ASSUME Shapes, IInv, [Next]_vars PROVE Shapes'
<1>1. CASE UNCHANGED vars
  BY <1>1 DEF vars, entry, Shapes, Inverters, Dialogues
<1> QED BY <1>1, MigrationShapes, SetupShapes, SegmentShapes, OptionsShapes DEF Next

-------------------------------------------------------------------------------
(* The theorems.                                                            *)

LEMMA SegmentInv ==
    ASSUME Shapes, IInv, NEW d \in Dialogues, Segment(d)
    PROVE  IInv'
BY SelectAdapterTypeInv, SelectAdapterModelInv, SubmitConnectionInv, DetectionFailsInv, CloseInv
   DEF Segment

LEMMA OptionsDialogueInv ==
    ASSUME Shapes, IInv, NEW t \in Tabs, OptionsDialogue(t)
    PROVE  IInv'
BY OpenOptionsInv, SelectInverterInv, ChangeAdapterInv, OptionsDetectedInv, ChangeVersionInv,
   SubmitVersionInv, ChangeAdvancedInv, SubmitAdvancedInv
   DEF OptionsDialogue

LEMMA SetupDialogueInv ==
    ASSUME Shapes, IInv, SetupDialogue
    PROVE  IInv'
<1>1. CASE StartSetup
  BY <1>1, SetupShows DEF StartSetup, NameSteps
<1>2. CASE AddAnother
  <2>1. version = 0
    BY <1>2 DEF IInv, AddedInv, AddAnother
  <2> QED BY <1>2, <2>1, SetupShows DEF AddAnother, NameSteps
<1> QED BY <1>1, <1>2, SetupDetectedInv, SubmitNameInv, FinishSetupInv DEF SetupDialogue

LEMMA StutterInv == ASSUME IInv, UNCHANGED vars PROVE IInv'
<1>1. UNCHANGED <<version, data, options, dialogue, added, energy, opened, overlapped, born>>
  BY DEF vars, entry, history
<1>2. \A j : CombinedConfig(j)' = CombinedConfig(j)
  BY <1>1 DEF CombinedConfig
<1>3. EntryInv'
  <2>1. opened' \in 0 .. MaxOpened
    BY <1>1 DEF IInv, EntryInv
  <2> QED BY <1>1, <2>1, EntryStays DEF IInv
<1>4. AddedInv'
  BY <1>1 DEF IInv, AddedInv
<1>5. DialogueInv'
  BY <1>1, <1>2 DEF IInv, DialogueInv, SegmentOK, OtherInverters, SetupInv, AloneInv, TabOK, Knows,
                    Open, Inverters
<1> QED BY <1>3, <1>4, <1>5 DEF IInv

LEMMA NextInv == ASSUME Shapes, IInv, [Next]_vars PROVE IInv'
BY MigrateEntryInv, SetupDialogueInv, SegmentInv, OptionsDialogueInv, StutterInv DEF Next

(* The inductive invariant: the records of the entry, what the set-up has   *)
(* collected, and what each form of a dialogue relies on.                   *)
THEOREM Invariant == Spec => [](Shapes /\ IInv)
<1>1. Init => Shapes /\ IInv
  BY InitShapes, InitInv
<1>2. Shapes /\ IInv /\ [Next]_vars => (Shapes /\ IInv)'
  BY NextShapes, NextInv
<1> QED BY <1>1, <1>2, PTL DEF Spec

LEMMA AddedSaved ==
    ASSUME NEW x, Settled(x), Named(x)
    PROVE  Saved(InverterDataToDict(x))
<1> DEFINE c == InverterDataToDict(x)
<1>1. /\ c.adapter = x.adapter /\ c.protocol = x.protocol /\ c.host = x.host
      /\ c.slave = x.slave /\ c.model = x.model /\ c.prefix = OrEmpty(x.prefix)
      /\ c.uid = OrEmpty(x.uid) /\ c.name = OrEmpty(x.name) /\ c.advanced = None
  BY DEF InverterDataToDict
<1> HIDE DEF c
<1>2. c.prefix = x.prefix /\ c.uid = x.name /\ c.name = x.name
  BY <1>1, NoneIsNoText DEF Named, OrEmpty
<1>3. Saved(c)
  BY <1>1, <1>2 DEF Settled, Named, Saved
<1> QED BY <1>3 DEF c

(* With the prefix and the type as the data has them, options laid over     *)
(* data are a saved inverter.                                               *)
LEMMA AmendedSaved ==
    ASSUME Shapes, EntryInv, version = VERSION, NEW i \in Inverters
    PROVE  /\ Saved(data[i]) /\ data[i].advanced = None /\ Saved(Amended(i))
           /\ ValidPrefix(i) \/ (born \in 4 .. 6 /\ KeptPrefix(i))
<1>1. PICK c : c = CombinedConfig(i)
  OBVIOUS
<1>2. /\ CombinedOK(c, options[i], data[i]) /\ LaidOn(c, options[i], data[i])
      /\ Saved(data[i]) /\ data[i].advanced = None
  BY <1>1, CombinedSaved, CombinedLaid
<1>3. PICK p, x : /\ p = data[i].prefix
                  /\ x = IF Outdated(options[i]) /\ born < 6 THEN Lower(c.protocol) ELSE c.protocol
  OBVIOUS
<1>4. Amended(i) = [c EXCEPT !.prefix = p, !.protocol = x]
  BY <1>1, <1>3, Zenon DEF Amended
<1>5. DOMAIN c = SavedFields
  BY <1>1, LaidFields
<1>6. /\ Amended(i).adapter = c.adapter /\ Amended(i).protocol = x /\ Amended(i).host = c.host
      /\ Amended(i).slave = c.slave /\ Amended(i).model = c.model /\ Amended(i).prefix = p
      /\ Amended(i).uid = c.uid /\ Amended(i).name = c.name /\ Amended(i).advanced = c.advanced
  BY ONLY <1>4, <1>5 DEF SavedFields
<1>7. Saved(Amended(i))
  BY <1>2, <1>3, <1>6 DEF CombinedOK, Saved
<1>8. ValidPrefix(i) \/ (born \in 4 .. 6 /\ KeptPrefix(i))
  BY <1>1, <1>2 DEF CombinedOK, Saved, ValidPrefix, KeptPrefix
<1> QED BY <1>2, <1>7, <1>8

(* Whichever dialogue or migration saved an inverter last, what is saved of *)
(* it is a valid connection, with the model that answered there, and valid  *)
(* names - but for the options of an older version, which keep a type in    *)
(* capitals until the adapter is changed, and a prefix as it was before     *)
(* version 7 (config_flow.py, options_handler.py, __init__.py).             *)
THEOREM TypeCorrect == Spec => []TypeOK
<1>1. Shapes /\ IInv => TypeOK
  <2> SUFFICES ASSUME Shapes, IInv PROVE TypeOK
    OBVIOUS
  <2>1. version \in 0 .. VERSION /\ Len(options) = Len(data) /\ opened \in 0 .. MaxOpened
    BY DEF IInv, EntryInv
  <2>2. ASSUME version = VERSION, NEW i \in Inverters
        PROVE  /\ Saved(data[i]) /\ data[i].advanced = None /\ Saved(Amended(i))
               /\ ValidPrefix(i) \/ (born \in 4 .. 6 /\ KeptPrefix(i))
    BY <2>2, AmendedSaved DEF IInv
  <2>3. ASSUME NEW x \in Range(added) PROVE Saved(InverterDataToDict(x))
    <3>1. PICK k \in DOMAIN added : x = added[k]
      BY DEF Range
    <3>2. Settled(x) /\ Named(x)
      BY <3>1 DEF IInv, AddedInv
    <3> QED BY <3>2, AddedSaved
  <2>4. ASSUME NEW t \in Tabs, dialogue[t].step \notin {"closed", "select_inverter"}
        PROVE  dialogue[t].id \in Inverters
    BY <2>4 DEF IInv, DialogueInv, TabOK
  <2> QED BY <2>1, <2>2, <2>3, <2>4 DEF TypeOK
<1> QED BY <1>1, Invariant, PTL

(* Inverters of an entry never share a unique id, nor a connection unless   *)
(* tabs overlapped, nor a prefix in an entry that this version made, whose  *)
(* prefixes the energy dashboard goes by (config_flow.py,                   *)
(* flow_handler.py, options_handler.py).                                    *)
THEOREM InvertersStayDistinct == Spec => []InvertersDistinct
<1>1. Shapes /\ IInv => InvertersDistinct
  <2> SUFFICES ASSUME Shapes, IInv, version = VERSION
               PROVE  LET now == [i \in Inverters |-> CombinedConfig(i)]
                      IN  /\ \A i, j \in Inverters : i # j =>
                               /\ now[i].uid # now[j].uid
                               /\ SameConnection(now[i], now[j]) => overlapped
                               /\ now[i].prefix = now[j].prefix => born < VERSION
                          /\ energy # {} => energy = {now[i].prefix : i \in Inverters}
    BY DEF InvertersDistinct
  <2> DEFINE now == [i \in Inverters |-> CombinedConfig(i)]
  <2>1. DistinctInv
    BY DEF IInv, EntryInv
  <2>2. ASSUME NEW i \in Inverters
        PROVE  /\ now[i] = CombinedConfig(i) /\ now[i].uid = data[i].uid
               /\ now[i].prefix = data[i].prefix \/ born \in 4 .. 6
    <3>1. CombinedOK(CombinedConfig(i), options[i], data[i])
      BY CombinedSaved DEF IInv
    <3> QED BY <3>1 DEF CombinedOK
  <2> HIDE DEF now
  <2>3. ASSUME NEW i \in Inverters, NEW j \in Inverters, i # j
        PROVE  /\ now[i].uid # now[j].uid
               /\ SameConnection(now[i], now[j]) => overlapped
               /\ now[i].prefix = now[j].prefix => born < VERSION
    <3>1. /\ data[i].uid # data[j].uid
          /\ data[i].prefix = data[j].prefix => born < VERSION
          /\ SameConnection(CombinedConfig(i), CombinedConfig(j)) => overlapped
      BY <2>1, <2>3 DEF DistinctInv
    <3>2. born \in 4 .. 6 => born < VERSION
      BY DEF VERSION
    <3> QED BY <2>2, <3>1, <3>2
  <2>4. energy # {} => energy = {now[i].prefix : i \in Inverters}
    <3>1. energy # {} => born = VERSION /\ energy = {data[i].prefix : i \in Inverters}
      BY <2>1 DEF DistinctInv
    <3>2. born = VERSION => born \notin 4 .. 6
      BY DEF VERSION
    <3>3. born = VERSION => {now[i].prefix : i \in Inverters} = {data[i].prefix : i \in Inverters}
      BY <2>2, <3>2
    <3> QED BY <3>1, <3>3
  <2> QED BY <2>3, <2>4 DEF now
<1> QED BY <1>1, Invariant, PTL

(* Options that are saved change one thing about one inverter. *)
LEMMA KeptBySave ==
    ASSUME Shapes, IInv, version = VERSION, NEW t \in Tabs,
           NEW what \in {"details", "version", "advanced"}, NEW x,
           Save(t, [OptionsOf(t) EXCEPT ![what] = x]), dialogue[t].id \in Inverters,
           SameIdentity(Laid([OptionsOf(t) EXCEPT ![what] = x], data[dialogue[t].id]),
                        CombinedConfig(dialogue[t].id))
    PROVE  KeptByOptions
<1>0. PICK i : i = dialogue[t].id
  OBVIOUS
<1>1. UNCHANGED <<version, data>> /\ DOMAIN options = Inverters
  BY DEF Save, IInv, EntryInv, Inverters
<1>2. ASSUME NEW j \in Inverters
      PROVE  SameIdentity(CombinedConfig(j)', CombinedConfig(j))
  <2>0. PICK amended : amended = [OptionsOf(t) EXCEPT ![what] = x]
    OBVIOUS
  <2>1. options' = [options EXCEPT ![i] = amended]
    BY <1>0, <2>0, Zenon DEF Save
  <2>2. CombinedConfig(j)' = Laid(options'[j], data[j]) /\ CombinedConfig(j) = Laid(options[j], data[j])
    BY <1>1, Zenon DEF CombinedConfig
  <2>3. CASE j = i
    <3>1. options'[j] = amended
      BY <1>0, <1>1, <2>1, <2>3
    <3>2. SameIdentity(Laid(amended, data[i]), CombinedConfig(i))
      BY <1>0, <2>0
    <3> QED BY <2>2, <2>3, <3>1, <3>2
  <2>4. CASE j # i
    <3>1. options'[j] = options[j]
      BY <1>1, <2>1, <2>4
    <3> QED BY <2>2, <3>1 DEF SameIdentity
  <2> QED BY <2>3, <2>4
<1>3. \A j \in Inverters :
        LET before == CombinedConfig(j)
            after  == CombinedConfig(j)'
        IN  /\ after.uid = before.uid /\ after.prefix = before.prefix
            /\ before.prefix # "" => after.name = before.name
  BY <1>2 DEF SameIdentity
<1>4. options' = [options EXCEPT ![i] = [options[i] EXCEPT ![what] = x]]
  BY <1>0, Zenon DEF Save, OptionsOf
<1>5. PICK r : r = options[i]
  OBVIOUS
<1>6. options'[i] = [r EXCEPT ![what] = x]
  BY <1>0, <1>1, <1>4, <1>5, Zenon
<1>7. [r EXCEPT ![what] = x] = [r EXCEPT ![what] = options'[i][what]]
  <2>1. CASE what \in DOMAIN r
    <3>1. [r EXCEPT ![what] = x][what] = x
      BY <2>1, Zenon
    <3> QED BY <1>6, <3>1, Zenon
  <2>2. CASE what \notin DOMAIN r
    <3>1. \A y, z : [r EXCEPT ![what] = y] = [r EXCEPT ![what] = z]
      BY <2>2
    <3> QED BY <3>1, Zenon
  <2> QED BY <2>1, <2>2
<1>8. options' = [options EXCEPT ![i] = [@ EXCEPT ![what] = options'[i][what]]]
  BY <1>4, <1>5, <1>7, Zenon
<1> QED BY <1>0, <1>1, <1>3, <1>8, Zenon DEF KeptByOptions

LEMMA KeptByDialogue ==
    ASSUME Shapes, IInv, NEW t \in Tabs, OptionsDialogue(t), ~UNCHANGED entry
    PROVE  version = VERSION /\ KeptByOptions
<1>1. ~(OpenOptions(t) \/ SelectInverter(t) \/ ChangeAdapter(t) \/ ChangeVersion(t) \/ ChangeAdvanced(t))
  BY DEF OpenOptions, SelectInverter, ChangeAdapter, ChangeVersion, ChangeAdvanced, entry
<1>2. dialogue[t].step \in {"detecting", "version_settings", "advanced_options"}
  BY <1>1 DEF OptionsDialogue, OptionsDetected, SubmitVersion, SubmitAdvanced
<1>3. /\ version = VERSION /\ dialogue[t].id \in Inverters
      /\ dialogue[t].step \notin {"closed", "select_inverter"}
  BY <1>2 DEF IInv, DialogueInv, TabOK
<1>4. CASE OptionsDetected(t)
  <2>1. PICK x : x = InverterDataToDict(Detected(t))
    OBVIOUS
  <2>2. AmendedDetails(t) = [OptionsOf(t) EXCEPT !["details"] = x]
    BY <2>1, Zenon DEF AmendedDetails
  <2>3. SameIdentity(Laid(AmendedDetails(t), data[dialogue[t].id]), CombinedConfig(dialogue[t].id))
    BY <1>4, OptionsDetectedInv
  <2>4. Save(t, AmendedDetails(t))
    BY <1>4 DEF OptionsDetected
  <2> QED BY <1>3, <2>2, <2>3, <2>4, KeptBySave
<1>5. ASSUME NEW what \in {"version", "advanced"}, NEW x,
             what = "advanced" => x \in {None, "tuned"},
             Save(t, [OptionsOf(t) EXCEPT ![what] = x])
      PROVE  KeptByOptions
  <2>0. PICK o : o = OptionsOf(t)
    OBVIOUS
  <2>1. IsOptions(o) /\ o.advanced \in {None, "tuned"}
    BY <1>3, <2>0 DEF Shapes, IInv, EntryInv, SavedInv, OptionsOK, OptionsOf
  <2>2. PICK amended : amended = [o EXCEPT ![what] = x]
    OBVIOUS
  <2>3. amended.details = o.details /\ IsOptions(amended) /\ amended.advanced \in {None, "tuned"}
    BY <1>5, <2>1, <2>2 DEF IsOptions
  <2>4. SameIdentity(Laid(amended, data[dialogue[t].id]), CombinedConfig(dialogue[t].id))
    BY <1>3, <1>5, <2>0, <2>2, <2>3, OtherOptionsInv
  <2> QED BY <1>3, <1>5, <2>0, <2>2, <2>4, KeptBySave
<1>6. CASE SubmitVersion(t)
  <2>1. PICK x : Save(t, [OptionsOf(t) EXCEPT !["version"] = x])
    BY <1>6, Zenon DEF SubmitVersion
  <2> QED BY <1>3, <1>5, <2>1
<1>7. CASE SubmitAdvanced(t)
  <2>1. PICK x \in {None, "tuned"} : Save(t, [OptionsOf(t) EXCEPT !["advanced"] = x])
    BY <1>7, Zenon DEF SubmitAdvanced
  <2> QED BY <1>3, <1>5, <2>1
<1> QED BY <1>1, <1>3, <1>4, <1>6, <1>7 DEF OptionsDialogue

(* Under options that stay, an inverter stays where it was and who it was.  *)
LEMMA KeptUnder ==
    ASSUME NEW v \in 2 .. 6, NEW c \in OldInverters(v), NEW b, Becomes(v, c, b),
           NEW o \in OldOptions(v, c), NEW k, NEW m, LaidOn(k, o, c), LaidOn(m, o, b)
    PROVE  /\ m.uid = OrEmpty(IF v <= 3 THEN k.name ELSE k.prefix)
           /\ b.prefix = Slug[OrEmpty(IF v <= 3 THEN k.name ELSE k.prefix)]
           /\ m.host = k.host /\ m.slave = k.slave /\ m.name = OrEmpty(k.name)
<1>0. PICK f : f = Former(v, c)
  OBVIOUS
<1>1. /\ b.uid = f /\ b.prefix = Slug[f] /\ b.name = OrEmpty(c.name)
      /\ b.host = c.host /\ b.slave = c.slave
      /\ f = OrEmpty(IF v <= 3 THEN c.name ELSE c.prefix)
  BY <1>0 DEF Becomes, SamePlace, Former
<1>2. \A x : OrEmpty(OrEmpty(x)) = OrEmpty(x)
  BY DEF OrEmpty
<1>3. \A x : OrEmpty(x) # None
  BY NoneIsNoText DEF OrEmpty
<1> HIDE DEF OldInverters
<1>4. CASE o.details = None
  <2>1. Under(o, c) = c /\ Under(o, b) = b
    BY <1>4 DEF Under
  <2>2. /\ k.name = c.name /\ k.prefix = c.prefix /\ k.host = c.host /\ k.slave = c.slave
        /\ m.name = b.name /\ m.uid = b.uid /\ m.host = b.host /\ m.slave = b.slave
    BY <2>1 DEF LaidOn, Else
  <2> QED BY <1>1, <2>2
<1>5. CASE o.details # None
  <2>1. PICK d : d = o.details /\ OldDetailsAre(v, c, d) /\ Under(o, c) = d /\ Under(o, b) = d
    BY <1>5, OldOptionsKnown DEF Under
  <2>2. /\ d.prefix = (IF v <= 3 THEN None ELSE OrEmpty(c.prefix)) /\ d.uid = None
        /\ d.name = OrEmpty(c.name)
    BY <2>1 DEF OldDetailsAre
  <2>3. /\ k.name = d.name /\ k.prefix = Else(d.prefix, c.prefix)
        /\ k.host = d.host /\ k.slave = d.slave
    BY <2>1 DEF LaidOn
  <2>4. m.name = d.name /\ m.uid = b.uid /\ m.host = d.host /\ m.slave = d.slave
    BY <2>1, <2>2 DEF LaidOn, Else
  <2>5. f = OrEmpty(IF v <= 3 THEN k.name ELSE k.prefix)
    <3>1. CASE v <= 3
      BY <1>1, <1>2, <2>2, <2>3, <3>1
    <3>2. CASE ~(v <= 3)
      <4>1. k.prefix = OrEmpty(c.prefix)
        BY <1>3, <2>2, <2>3, <3>2 DEF Else
      <4> QED BY <1>1, <1>2, <3>2, <4>1
    <3> QED BY <3>1, <3>2
  <2> QED BY <1>1, <1>2, <2>2, <2>3, <2>4, <2>5
<1> QED BY <1>4, <1>5

LEMMA KeptByMigrateEntry ==
    ASSUME Shapes, Shapes', IInv, MigrateEntry, version \in 2 .. VERSION - 1
    PROVE  KeptByMigration
<1>1. PICK v : v = version
  OBVIOUS
<1>2. v \in 2 .. 6 /\ v \in 1 .. 6 /\ v # 1
  BY <1>1 DEF VERSION
<1>3. data' = Migrated(v, data) /\ options' = options
  BY <1>1, <1>2, Zenon DEF MigrateEntry, MigratedOptions
<1>4. PICK n \in Nat : DOMAIN data = 1 .. n /\ data \in [1 .. n -> OldInverters(v)]
  <2> HIDE DEF OldInverters
  <2> QED BY <1>1, <1>2, OldEntry
<1>5. DOMAIN data' = 1 .. n /\ \A i \in 1 .. n : Becomes(v, data[i], data'[i])
  BY <1>2, <1>3, <1>4, MigratedIs
<1>6. InitEntry(v)
  <2>1. version \in 1 .. VERSION - 1
    BY <1>1, <1>2 DEF VERSION
  <2> QED BY <1>1, <2>1 DEF IInv, EntryInv, OldInv
<1>7. \A i \in 1 .. n : data[i] \in OldInverters(v) /\ options[i] \in OldOptions(v, data[i])
  <2> HIDE DEF OldInverters, OldOptions, OldEntries, Apart
  <2> QED BY <1>2, <1>4, <1>6 DEF InitEntry
<1>8. ASSUME NEW i \in Inverters
      PROVE  LET former(c) == OrEmpty(IF version <= 3 THEN c.name ELSE c.prefix)
                 before == CombinedConfig(i)
                 after  == CombinedConfig(i)'
             IN  /\ after.uid = former(before) /\ data'[i].prefix = Slug[former(before)]
                 /\ after.host = before.host /\ after.slave = before.slave
                 /\ after.name = OrEmpty(before.name)
  <2>1. PICK c, b, o : c = data[i] /\ b = data'[i] /\ o = options[i] /\ o = options'[i]
    BY <1>3
  <2>2. PICK k, m : k = CombinedConfig(i) /\ m = CombinedConfig(i)'
    OBVIOUS
  <2>3. i \in 1 .. n
    BY <1>4 DEF Inverters
  <2>4. c \in OldInverters(v) /\ o \in OldOptions(v, c) /\ Becomes(v, c, b)
    <3> HIDE DEF OldInverters, OldOptions
    <3> QED BY <1>5, <1>7, <2>1, <2>3
  <2> HIDE DEF OldInverters, OldOptions
  <2>5. LaidOn(k, o, c) /\ LaidOn(m, o, b)
    <3>1. m = Laid(o, b)
      BY <2>1, <2>2, Zenon DEF CombinedConfig
    <3>2. IsSaved(b) /\ IsOptions(o)
      BY <1>5, <2>1, <2>3 DEF Shapes, Inverters
    <3> QED BY <2>1, <2>2, <3>1, <3>2, CombinedLaid, LaidIs
  <2>6. /\ m.uid = OrEmpty(IF v <= 3 THEN k.name ELSE k.prefix)
        /\ b.prefix = Slug[OrEmpty(IF v <= 3 THEN k.name ELSE k.prefix)]
        /\ m.host = k.host /\ m.slave = k.slave /\ m.name = OrEmpty(k.name)
    BY <1>2, <2>4, <2>5, KeptUnder
  <2> QED BY <1>1, <2>1, <2>2, <2>6
<1>9. DOMAIN data' = Inverters
  BY <1>4, <1>5 DEF Inverters
<1> QED BY <1>8, <1>9, Zenon DEF KeptByMigration

(* No step of a dialogue, and no migration but the one from version 1,      *)
(* loses an inverter or changes the unique id that its entities are known   *)
(* by, and what a tab saves leaves alone all that the other tabs saved      *)
(* (options_handler.py, __init__.py).                                       *)
THEOREM ChangesStayContained == Spec => ChangesContained
<1>1. Shapes /\ Shapes' /\ IInv /\ IInv' /\ [Next]_vars =>
        [/\ version \in 2 .. VERSION - 1 => KeptByMigration
         /\ version = VERSION => KeptByOptions]_entry
  <2> SUFFICES ASSUME Shapes, Shapes', IInv, IInv', [Next]_vars, ~UNCHANGED entry
               PROVE  /\ version \in 2 .. VERSION - 1 => KeptByMigration
                      /\ version = VERSION => KeptByOptions
    OBVIOUS
  <2>1. CASE MigrateEntry
    <3>1. version # VERSION
      BY <2>1 DEF MigrateEntry, VERSION
    <3> QED BY <2>1, <3>1, KeptByMigrateEntry
  <2>2. CASE SetupDialogue
    <3>1. version = 0
      <4>1. ~(StartSetup \/ SetupDetected \/ SubmitName \/ AddAnother)
        BY DEF StartSetup, SetupDetected, SubmitName, AddAnother, entry
      <4>2. FinishSetup
        BY <2>2, <4>1 DEF SetupDialogue
      <4> QED BY <4>2 DEF FinishSetup, IInv, AddedInv
    <3> QED BY <3>1 DEF VERSION
  <2>3. ASSUME NEW d \in Dialogues, Segment(d) PROVE FALSE
    BY <2>3 DEF Segment, SelectAdapterType, SelectAdapterModel, SubmitConnection, DetectionFails,
                Close, entry
  <2>4. ASSUME NEW t \in Tabs, OptionsDialogue(t) PROVE version = VERSION /\ KeptByOptions
    BY <2>4, KeptByDialogue
  <2>5. ~UNCHANGED vars
    BY DEF vars
  <2>6. version = VERSION => version \notin 2 .. VERSION - 1
    BY DEF VERSION
  <2> QED BY <2>1, <2>2, <2>3, <2>4, <2>5, <2>6 DEF Next
<1>2. Init => Shapes /\ IInv
  BY InitShapes, InitInv
<1>3. Shapes /\ IInv /\ [Next]_vars => (Shapes /\ IInv)'
  BY NextShapes, NextInv
<1> QED BY <1>1, <1>2, <1>3, PTL DEF Spec, ChangesContained

(* Whatever an entry of version 1 held, its migration leaves no inverter:   *)
(* the types of its connections are looked for among those of today's       *)
(* constants, and written otherwise (__init__.py).                          *)
THEOREM VersionOneIsLost == Spec => [][version = 1 => Inverters' = {}]_version
<1>1. Shapes /\ IInv /\ [Next]_vars => [version = 1 => Inverters' = {}]_version
  <2> SUFFICES ASSUME Shapes, IInv, [Next]_vars, version = 1, version' # version
               PROVE  Inverters' = {}
    OBVIOUS
  <2>1. MigrateEntry
    <3>1. ~FinishSetup
      BY DEF FinishSetup, IInv, AddedInv
    <3>2. ~SetupDialogue
      BY <3>1 DEF SetupDialogue, StartSetup, SetupDetected, SubmitName, AddAnother, entry
    <3>3. \A d \in Dialogues : ~Segment(d)
      BY DEF Segment, SelectAdapterType, SelectAdapterModel, SubmitConnection, DetectionFails,
             Close, entry
    <3>4. \A t \in Tabs : ~OptionsDialogue(t)
      BY DEF OptionsDialogue, OpenOptions, SelectInverter, ChangeAdapter, OptionsDetected,
             ChangeVersion, SubmitVersion, ChangeAdvanced, SubmitAdvanced, Save, entry
    <3>5. ~UNCHANGED vars
      BY DEF vars, entry
    <3> QED BY <3>2, <3>3, <3>4, <3>5 DEF Next
  <2>2. data \in OldEntries(1)
    BY DEF IInv, EntryInv, OldInv, InitEntry, VERSION
  <2>3. PICK n \in 1 .. MaxInverters : data \in [1 .. n -> OldInverters(1)]
    <3> HIDE DEF OldInverters
    <3> QED BY <2>2 DEF OldEntries
  <2>4. n \in Nat
    <3>1. MaxInverters \in Nat
      BY ConfigurationAssumption
    <3> QED BY <3>1
  <2>5. DOMAIN Migrated(1, data) = 1 .. 0
    BY <2>3, <2>4, MigratedNone
  <2>6. data' = Migrated(1, data)
    BY <2>1 DEF MigrateEntry
  <2> QED BY <2>5, <2>6 DEF Inverters
<1>2. Init => Shapes /\ IInv
  BY InitShapes, InitInv
<1>3. Shapes /\ IInv /\ [Next]_vars => (Shapes /\ IInv)'
  BY NextShapes, NextInv
<1> QED BY <1>1, <1>2, <1>3, PTL DEF Spec
===============================================================================
