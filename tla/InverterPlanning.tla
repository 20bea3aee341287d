--------------------------- MODULE InverterPlanning ---------------------------
(***************************************************************************)
(* What is polled from the inverters there are: ReadPlanning's small       *)
(* controllers, and a controller for every inverter that can be configured *)
(* - each model, connection and firmware version that the options offer,   *)
(* on each adapter - with the registers its entities listen on.            *)
(***************************************************************************)
EXTENDS ReadPlanning, EntityDescriptions, InverterProfiles, InverterAdapters

VARIABLE device     \* the inverter, NoDevice for a small controller

NoDevice == [inv |-> "none"]

Devices ==
    UNION {LET p == ProfileFor(model, connection)
           IN  {[connection |-> connection, type |-> p.type, special |-> p.special,
                 versions |-> p.versions, version |-> v,
                 inv |-> InvForVersion(p.versions, v)] : v \in DOMAIN p.versions}
             : model \in Models, connection \in Connections}

Entities == [d \in Devices |-> EntitiesOf(d.inv, d.type)]

(* What a controller has been told to poll once its entities are registered *)
(* and the remote control manager, where there is one, has joined them      *)
(* (register_modbus_entity).                                                *)
Listened ==
    [d \in Devices |->
       LET remote == UNION {{s.registers[i] : i \in DOMAIN s.registers}
                              : s \in Matching(RemoteControlSpecs, d.inv, d.type)}
           once   == {e \in Entities[d] : e.pollType = "ON_CONNECTION"}
           registers(es) == UNION {RegistersOf(e, d.inv, d.type) : e \in es}
       IN  [a \in registers(Entities[d]) \cup remote |->
              IF a \in registers(once) THEN "ON_CONNECTION" ELSE "PERIODICALLY"]]

(* The entities ask for finitely many registers and for none that their     *)
(* inverter rejects (asserted by register_modbus_entity), the remote control *)
(* manager included.  It says something of the tables of descriptions and   *)
(* of profiles alone, and is evaluated for every inverter there is.         *)
ASSUME ListenedAssumption ==
    \A d \in Devices :
      /\ DOMAIN Listened[d] \subseteq Nat /\ IsFiniteSet(DOMAIN Listened[d])
      /\ DOMAIN Listened[d] \cap d.special.invalid = {}

AdapterReads(connection) ==
    {ADAPTERS[a].maxRead : a \in {b \in DOMAIN ADAPTERS : ADAPTERS[b].connection = connection}}

InitInverter ==
    /\ device \in Devices
    /\ pollType = Listened[device]
    /\ profile = device.special
    /\ detected = {}
    /\ maxRead \in AdapterReads(device.connection)
    /\ isInitial \in BOOLEAN
    /\ todo = wanted /\ growing = NoRequest

InverterInit == InitInverter \/ (Init /\ device = NoDevice)

InverterNext == VisitRegister /\ UNCHANGED device

InverterSpec == InverterInit /\ [][InverterNext]_<<vars, device>>

-------------------------------------------------------------------------------
real == device # NoDevice

(* What is said of the tables is looked at once per plan. *)
tabled == real /\ planned

Words(e) == AddressesFor(e.specs, device.inv, device.type)

(* The integration names the energy totals that the energy dashboard gets   *)
(* (FlowHandler._setup_energy_dashboard).                                   *)
DashboardKeys ==
    {"pv1_energy_total", "pv2_energy_total", "battery_charge_total",
     "battery_discharge_total", "feed_in_energy_total", "grid_consumption_energy_total"}

(* No inverter gets two entities of one id, which Home Assistant would      *)
(* refuse; every integration and lambda sensor has the sensors it is        *)
(* computed from, among those that are created before it; and the energy    *)
(* dashboard is only given sensors that exist.  The descriptions spread     *)
(* each inverter over dozens of lists of models (entity_descriptions.py,    *)
(* sensor.py, modbus_integration_sensor.py, flow_handler.py).               *)
EntitiesComplete ==
    tabled =>
      LET es == Entities[device]
          independent == {e.key : e \in {f \in es : f.platform = "sensor" /\ f.needs = {}}}
      IN  /\ \A e, f \in es : e.platform = f.platform /\ e.key = f.key => e = f
          /\ \A e \in es : e.needs \subseteq independent
          /\ DashboardKeys \subseteq {e.key : e \in {f \in es : f.platform = "sensor"}}

(* The descriptions of an inverter agree with each other and with its       *)
(* profile: one specification, never two, says where a value is and where   *)
(* the registers it depends on are; the registers are valid ones; numbers   *)
(* from two registers have the low word after the high one; entities that   *)
(* read a register read the same number, with the same scale, and poll it   *)
(* equally often (_addresses_for_inverter_model, register_modbus_entity).   *)
RegistersAgree ==
    tabled =>
      LET es    == Entities[device]
          one(specs) == Cardinality(Matching(specs, device.inv, device.type)) = 1
          regs  == [e \in es |-> RegistersOf(e, device.inv, device.type)]
          words == [e \in es |-> Words(e)]
      IN  /\ \A e \in es : one(e.specs) /\ \A specs \in e.also : one(specs)
          /\ \A e \in es : regs[e] \cap device.special.invalid = {}
          /\ \A e \in es : e.joined /\ Len(words[e]) > 1 =>
               Len(words[e]) = 2 /\ words[e][1] = words[e][2] + 1
          /\ \A e, f \in es : regs[e] \cap regs[f] # {} =>
               /\ e.pollType = f.pollType
               /\ (e.joined /\ f.joined /\ words[e] # words[f]) =>
                    {words[e][i] : i \in DOMAIN words[e]}
                      \cap {words[f][i] : i \in DOMAIN words[f]} = {}
               /\ (e.joined /\ f.joined /\ words[e] = words[f]) =>
                    e.scale = f.scale /\ (e.platform = f.platform => e.signed = f.signed)

(* A number that is spread over two registers is read by one request, so    *)
(* that a carry between the two reads cannot tear it - on the adapters that *)
(* read 100 registers at once.  On those that read 20 or 8 the plan does    *)
(* cut through some numbers (_create_read_ranges knows nothing of them).    *)
WholeValues ==
    tabled /\ maxRead >= 100 =>
      \A e \in Entities[device] : e.joined =>
        \E r \in requests : \A i \in DOMAIN Words(e) : Words(e)[i] \in Covered(r)

(* A firmware version chosen from the ones the options offer selects the    *)
(* Inv that the profile lists for it, although the bounds are searched for  *)
(* one below the version (get_inv_for_version).                             *)
VersionsRoundTrip == real => device.inv = device.versions[device.version]
===============================================================================
