-------------------------- MODULE EntityDescriptions --------------------------
(***************************************************************************)
(* The entities, and the registers each one listens on on each inverter:   *)
(* ENTITIES of entity_descriptions.py with the charge period and remote    *)
(* control entities of their own factories.                                *)
(*                                                                         *)
(* Of a description this keeps what decides which registers are polled and *)
(* how they are read: names, units, icons, rounding and validation are     *)
(* left out.  A scale is in units of 0.00001, no scale is Unscaled.        *)
(***************************************************************************)
EXTENDS InverterModels

Unscaled == 100000

(* What every description has: where its value is (specs), which other      *)
(* registers it listens on (also, one set of specifications for each), and  *)
(* which sensors it is computed from (needs).  A joined value is read as    *)
(* one number from all of its registers.                                    *)
Description(platform, key, specs) ==
    [platform |-> platform, key |-> key, specs |-> specs, also |-> {}, needs |-> {},
     scale |-> Unscaled, signed |-> FALSE, joined |-> FALSE, pollType |-> "PERIODICALLY"]

UnsignedSensor(key, scale, specs) ==
    [Description("sensor", key, specs) EXCEPT !.scale = scale, !.joined = TRUE]
Sensor(key, scale, specs) == [UnsignedSensor(key, scale, specs) EXCEPT !.signed = TRUE]

(* Unknown while the register at connect says that no battery is connected. *)
SIGNED   == TRUE
UNSIGNED == FALSE
BatterySensor(key, scale, signed, connect, specs) ==
    [UnsignedSensor(key, scale, specs) EXCEPT !.signed = signed, !.also = {connect}]

Number(key, scale, specs) ==
    [Description("number", key, specs) EXCEPT !.scale = scale, !.joined = TRUE]
Setting(key, scale, specs) == {Sensor(key, scale, specs), Number(key, scale, specs)}

Select(key, specs)  == Description("select", key, specs)
Fault(key, specs)   == Description("sensor", key, specs)
State(key, specs)   == Description("sensor", key, specs)
Version(key, specs) == [Description("sensor", key, specs) EXCEPT !.pollType = "ON_CONNECTION"]

Integration(key, source, specs) == [Description("sensor", key, specs) EXCEPT !.needs = {source}]
Lambda(key, sources, specs)     == [Description("sensor", key, specs) EXCEPT !.needs = sources]

(* A slip: the newer register map forgotten. *)
BmsConnectOldMaps ==
  {In(InputInv, <<11058>>), Hold(H1_LAN \cup H1_G1, <<31029>>),
   Hold(H1_G2_SET \cup KH_PRE133, <<31028>>), Hold(H3_SET, <<31042>>)}

BmsConnect ==
  {In(InputInv, <<11058>>), Hold(H1_LAN \cup H1_G1, <<31029>>),
   Hold(H1_G2_SET \cup KH_PRE133, <<31028>>), Hold(KH_133 \cup EVO, <<37002>>),
   Hold(H3_SET, <<31042>>)}
BmsConnect1 == {Hold(ProSmart, <<37002>>)}
BmsConnect2 == {Hold(ProSmart, <<37700>>)}

-------------------------------------------------------------------------------
(* Firmware versions and strings.                                            *)
VersionEntities ==
  { Version("master_version", {In(InputInv, <<10016>>),
        Hold(H3_SET \cup H1_LAN \cup H1_G1, <<30016>>), Hold(H3_PRO_PRE122, <<36001>>)}),
    Version("master_version", {Hold(KH_PRE133, <<30016>>),
        Hold(H1_G2_SET \cup Pro122Up \cup KH_133, <<36001>>)}),
    Version("slave_version", {In(InputInv, <<10017>>),
        Hold(H3_SET \cup H1_LAN \cup H1_G1, <<30017>>), Hold(H3_PRO_PRE122, <<36002>>)}),
    Version("slave_version", {Hold(KH_PRE133, <<30017>>),
        Hold(H1_G2_SET \cup Pro122Up \cup KH_133, <<36002>>)}),
    Version("manager_version", {In(InputInv, <<10018>>), Hold(H1_LAN \cup H1_G1, <<30018>>)}),
    Version("manager_version", {Hold(H3_SET \cup KH_PRE133, <<30018>>),
        Hold(ProEvo \cup H1_G2_SET \cup KH_133, <<36003>>)}) }

Pv1Entities ==
  { Sensor("pv1_voltage", 10000, {In(InputInv, <<11000>>),
        Hold(H3_SET \cup H1_LAN \cup H1_G1 \cup KH_PRE133, <<31000>>),
        Hold(ProEvo \cup H1_G2_SET \cup KH_133, <<39070>>)}),
    Sensor("pv1_current", 10000, {In(InputInv, <<11001>>),
        Hold(H3_SET \cup H1_LAN \cup H1_G1 \cup KH_PRE133, <<31001>>)}),
    Sensor("pv1_current", 1000, {Hold(ProEvo \cup H1_G2_SET \cup KH_133, <<39071>>)}),
    Sensor("pv1_power", 100, {In(InputInv, <<11002>>),
        Hold(H3_SET \cup H1_LAN \cup H1_G1 \cup KH_PRE133, <<31002>>), Hold(H1_G2_SET, <<39280>>),
        Hold(ProEvo \cup KH_133, <<39280, 39279>>)}),
    Integration("pv1_energy_total", "pv1_power", Virtual(AllInv)) }

Pv2And3Entities ==
  { Sensor("pv2_voltage", 10000, {In(InputInv, <<11003>>),
        Hold(H3_SET \cup H1_LAN \cup H1_G1 \cup KH_PRE133, <<31003>>),
        Hold(ProEvo \cup H1_G2_SET \cup KH_133, <<39072>>)}),
    Sensor("pv2_current", 10000, {In(InputInv, <<11004>>),
        Hold(H3_SET \cup H1_LAN \cup H1_G1 \cup KH_PRE133, <<31004>>)}),
    Sensor("pv2_current", 1000, {Hold(ProEvo \cup H1_G2_SET \cup KH_133, <<39073>>)}),
    Sensor("pv2_power", 100, {In(InputInv, <<11005>>),
        Hold(H3_SET \cup H1_LAN \cup H1_G1 \cup KH_PRE133, <<31005>>), Hold(H1_G2_SET, <<39282>>),
        Hold(ProEvo \cup KH_133, <<39282, 39281>>)}),
    Integration("pv2_energy_total", "pv2_power", Virtual(AllInv)),
    Sensor("pv3_voltage", 10000, {In(KH_PRE119, <<11096>>), Hold(KH_PRE133, <<31039>>),
        Hold(ProEvo \cup KH_133, <<39074>>)}),
    Sensor("pv3_current", 10000, {In(KH_PRE119, <<11097>>), Hold(KH_PRE133, <<31040>>)}),
    Sensor("pv3_current", 1000, {Hold(ProEvo \cup KH_133, <<39075>>)}),
    Sensor("pv3_power", 100, {In(KH_PRE119, <<11098>>), Hold(KH_PRE133, <<31041>>),
        Hold(KH_133, <<39284, 39283>>), Hold(ProEvo, <<39284, 39283>>)}),
    Integration("pv3_energy_total", "pv3_power", Virtual(ProSmart \cup KH_SET)) }

Pv4To6Entities ==
  { Sensor("pv4_voltage", 10000, {In(KH_PRE119, <<11099>>), Hold(KH_PRE133, <<31042>>),
        Hold(ProSmart \cup KH_133, <<39076>>)}),
    Sensor("pv4_current", 10000, {In(KH_PRE119, <<11100>>), Hold(KH_PRE133, <<31043>>)}),
    Sensor("pv4_current", 1000, {Hold(ProSmart \cup KH_133, <<39077>>)}),
    Sensor("pv4_power", 100, {In(KH_PRE119, <<11101>>), Hold(KH_PRE133, <<31044>>),
        Hold(ProSmart \cup KH_133, <<39286, 39285>>)}),
    Integration("pv4_energy_total", "pv4_power", Virtual(ProSmart \cup KH_SET)),
    Sensor("pv5_voltage", 10000, {Hold(H3_PRO_SET, <<39078>>)}),
    Sensor("pv5_current", 1000, {Hold(H3_PRO_SET, <<39079>>)}),
    Sensor("pv5_power", 100, {Hold(H3_PRO_SET, <<39288, 39287>>)}),
    Integration("pv5_energy_total", "pv5_power", Virtual(H3_PRO_SET)),
    Sensor("pv6_voltage", 10000, {Hold(H3_PRO_SET, <<39080>>)}),
    Sensor("pv6_current", 1000, {Hold(H3_PRO_SET, <<39081>>)}),
    Sensor("pv6_power", 100, {Hold(H3_PRO_SET, <<39290, 39289>>)}),
    Integration("pv6_energy_total", "pv6_power", Virtual(H3_PRO_SET)) }

(* A slip: one sum for all inverters. *)
PvPowerNowOfAll ==
  { Lambda("pv_power_now", {"pv1_power", "pv2_power", "pv3_power"}, Virtual(AllInv)) }

PvPowerNow ==
  { Lambda("pv_power_now", {"pv1_power", "pv2_power"},
        Virtual(H3_SET \cup H1_G2_SET \cup H1_LAN \cup H1_G1)),
    Lambda("pv_power_now", {"pv1_power", "pv2_power", "pv3_power"}, {Hold(EVO, <<>>)}),
    Lambda("pv_power_now", {"pv1_power", "pv2_power", "pv3_power", "pv4_power"},
        Virtual(KH_SET \cup H3_SMART)),
    Lambda("pv_power_now",
        {"pv1_power", "pv2_power", "pv3_power", "pv4_power", "pv5_power", "pv6_power"},
        Virtual(H3_PRO_SET)) }

-------------------------------------------------------------------------------
(* Single-phase inverters: grid, load and backup output.                     *)
H1PowerEntities ==
  { Sensor("load_power", 100, {In(InputInv, <<11023>>),
        Hold(H1_G2_SET \cup H1_LAN \cup H1_G1 \cup KH_133, <<31016>>),
        Hold(KH_PRE133, <<31054, 31053>>)}),
    UnsignedSensor("rvolt", 10000, {In(InputInv, <<11009>>), Hold(SinglePhase, <<31006>>)}),
    Sensor("rcurrent", 10000, {In(InputInv, <<11010>>), Hold(SinglePhase, <<31007>>)}),
    Sensor("rpower", 100, {In(InputInv, <<11011>>),
        Hold(H1_G2_SET \cup H1_LAN \cup H1_G1 \cup KH_133, <<31008>>),
        Hold(KH_PRE133, <<31046, 31045>>)}),
    Sensor("rpower_Q", 100, {In(InputInv, <<11012>>)}),
    Sensor("rpower_S", 100, {In(InputInv, <<11013>>)}),
    UnsignedSensor("eps_rvolt", 10000, {In(InputInv, <<11015>>), Hold(SinglePhase, <<31010>>)}),
    Sensor("eps_rcurrent", 10000, {In(InputInv, <<11016>>), Hold(SinglePhase, <<31011>>)}) }

H1EpsAndGridEntities ==
  { Sensor("eps_rpower", 100, {In(InputInv, <<11017>>),
        Hold(H1_G2_SET \cup H1_LAN \cup H1_G1 \cup KH_133, <<31012>>),
        Hold(KH_PRE133, <<31048, 31047>>)}),
    Sensor("eps_rpower_Q", 100, {In(InputInv, <<11018>>)}),
    Sensor("eps_rpower_S", 100, {In(InputInv, <<11019>>)}),
    Sensor("ct2_meter", 100, {In(H1_G1, <<11022>>),
        Hold(H1_G2_SET \cup H1_LAN \cup H1_G1, <<31015>>)}),
    Sensor("ct2_meter", -100, {In(KH_PRE119, <<11022>>), Hold(KH_PRE133, <<31052, 31051>>),
        Hold(KH_133, <<31015>>)}) }
  \cup {Sensor(k, 100, {In(H1_G1, <<11021>>), Hold(H1_G2_SET \cup H1_LAN \cup H1_G1, <<31014>>),
            Hold(KH_133 \cup EVO, <<39169, 39168>>)})
          : k \in {"grid_ct", "feed_in", "grid_consumption"}}
  \cup {Sensor(k, -100, {In(KH_PRE119, <<11021>>), Hold(KH_PRE133, <<31050, 31049>>)})
          : k \in {"grid_ct", "feed_in", "grid_consumption"}}

-------------------------------------------------------------------------------
(* Three-phase inverters.                                                    *)
H3VoltageCurrentEntities ==
  { UnsignedSensor("grid_voltage_R", 10000, {Hold(H3_SET, <<31006>>), Hold(ProEvo, <<39123>>)}),
    UnsignedSensor("grid_voltage_S", 10000, {Hold(H3_SET, <<31007>>), Hold(ProSmart, <<39124>>)}),
    UnsignedSensor("grid_voltage_T", 10000, {Hold(H3_SET, <<31008>>), Hold(ProSmart, <<39125>>)}),
    Sensor("inv_current_R", 10000, {Hold(H3_SET, <<31009>>)}),
    Sensor("inv_current_S", 10000, {Hold(H3_SET, <<31010>>)}),
    Sensor("inv_current_T", 10000, {Hold(H3_SET, <<31011>>)}),
    Sensor("inv_current_R", 100, {Hold(ProEvo, <<39127, 39126>>)}),
    Sensor("inv_current_S", 100, {Hold(ProSmart, <<39129, 39128>>)}),
    Sensor("inv_current_T", 100, {Hold(ProSmart, <<39131, 39130>>)}) }

H3PowerEntities ==
  { Sensor("inv_power", 100, {Hold(ProEvo, <<39135, 39134>>)}),
    Sensor("inv_power_R", 100, {Hold(H3_SET, <<31012>>), Hold(ProSmart, <<39249, 39248>>)}),
    Sensor("inv_power_S", 100, {Hold(H3_SET, <<31013>>), Hold(ProSmart, <<39251, 39250>>)}),
    Sensor("inv_power_T", 100, {Hold(H3_SET, <<31014>>), Hold(ProSmart, <<39253, 39252>>)}),
    Sensor("inv_power_Q", 100, {Hold(ProSmart, <<39137, 39136>>)}),
    Sensor("inv_power_Q_R", 100, {Hold(ProSmart, <<39257, 39256>>)}),
    Sensor("inv_power_Q_S", 100, {Hold(ProSmart, <<39259, 39258>>)}),
    Sensor("inv_power_Q_T", 100, {Hold(ProSmart, <<39261, 39260>>)}),
    Sensor("rpower_S_R", 100, {Hold(ProSmart, <<39265, 39264>>)}),
    Sensor("rpower_S_S", 100, {Hold(ProSmart, <<39267, 39266>>)}),
    Sensor("rpower_S_T", 100, {Hold(ProSmart, <<39269, 39268>>)}) }

H3EpsEntities ==
  { UnsignedSensor("eps_rvolt_R", 10000, {Hold(ProEvo, <<39201>>)}),
    UnsignedSensor("eps_rvolt_S", 10000, {Hold(ProSmart, <<39202>>)}),
    UnsignedSensor("eps_rvolt_T", 10000, {Hold(ProSmart, <<39203>>)}),
    Sensor("eps_rcurrent_R", 100, {Hold(ProEvo, <<39205, 39204>>)}),
    Sensor("eps_rcurrent_S", 100, {Hold(ProSmart, <<39207, 39206>>)}),
    Sensor("eps_rcurrent_T", 100, {Hold(ProSmart, <<39209, 39208>>)}),
    Sensor("eps_power_R", 100, {Hold(H3_SET, <<31022>>), Hold(ProSmart, <<39211, 39210>>)}),
    Sensor("eps_power_S", 100, {Hold(H3_SET, <<31023>>), Hold(ProSmart, <<39213, 39212>>)}),
    Sensor("eps_power_T", 100, {Hold(H3_SET, <<31024>>), Hold(ProSmart, <<39215, 39214>>)}) }

H3GridEntities ==
  {Sensor(k, 10, {Hold(ProSmart, <<38815, 38814>>)})
     : k \in {"grid_ct", "feed_in", "grid_consumption"}}
  \cup {Sensor(k, 100, {Hold(H3_SET, <<31026>>)})
          : k \in {"grid_ct_R", "feed_in_R", "grid_consumption_R"}}
  \cup {Sensor(k, 10, {Hold(ProSmart, <<38817, 38816>>)})
          : k \in {"grid_ct_R", "feed_in_R", "grid_consumption_R"}}
  \cup {Sensor(k, 100, {Hold(H3_SET, <<31027>>)})
          : k \in {"grid_ct_S", "feed_in_S", "grid_consumption_S"}}
  \cup {Sensor(k, 10, {Hold(ProSmart, <<38819, 38818>>)})
          : k \in {"grid_ct_S", "feed_in_S", "grid_consumption_S"}}
  \cup {Sensor(k, 100, {Hold(H3_SET, <<31028>>)})
          : k \in {"grid_ct_T", "feed_in_T", "grid_consumption_T"}}
  \cup {Sensor(k, 10, {Hold(ProSmart, <<38821, 38820>>)})
          : k \in {"grid_ct_T", "feed_in_T", "grid_consumption_T"}}

H3MeterEntities ==
  { Sensor("grid_ct_reactive", 10, {Hold(H3_PRO_122, <<38823, 38822>>)}),
    Sensor("grid_ct_reactive_R", 10, {Hold(H3_PRO_122, <<38825, 38824>>)}),
    Sensor("grid_ct_reactive_S", 10, {Hold(H3_PRO_122, <<38827, 38826>>)}),
    Sensor("grid_ct_reactive_T", 10, {Hold(H3_PRO_122, <<38829, 38828>>)}),
    Sensor("grid_ct_apparent", 10, {Hold(H3_PRO_122, <<38831, 38830>>)}),
    Sensor("grid_ct_apparent_R", 10, {Hold(H3_PRO_122, <<38833, 38832>>)}),
    Sensor("grid_ct_apparent_S", 10, {Hold(H3_PRO_122, <<38835, 38834>>)}),
    Sensor("grid_ct_apparent_T", 10, {Hold(H3_PRO_122, <<38837, 38836>>)}),
    Sensor("grid_ct_pf", 1, {Hold(H3_PRO_122, <<38839, 38838>>)}),
    Sensor("grid_ct_pf_R", 1, {Hold(H3_PRO_122, <<38841, 38840>>)}),
    Sensor("grid_ct_pf_S", 1, {Hold(H3_PRO_122, <<38843, 38842>>)}),
    Sensor("grid_ct_pf_T", 1, {Hold(H3_PRO_122, <<38845, 38844>>)}),
    Sensor("ct2_meter", 10, {Hold(ProSmart, <<38915, 38914>>)}),
    Sensor("ct2_meter_R", 10, {Hold(ProSmart, <<38917, 38916>>)}),
    Sensor("ct2_meter_S", 10, {Hold(ProSmart, <<38919, 38918>>)}),
    Sensor("ct2_meter_T", 10, {Hold(ProSmart, <<38921, 38920>>)}) }

H3LoadEntities ==
  { Sensor("load_power_R", 100, {Hold(H3_SET, <<31029>>), Hold(ProSmart, <<39220, 39219>>)}),
    Sensor("load_power_S", 100, {Hold(H3_SET, <<31030>>), Hold(ProSmart, <<39222, 39221>>)}),
    Sensor("load_power_T", 100, {Hold(H3_SET, <<31031>>), Hold(ProSmart, <<39224, 39223>>)}),
    Sensor("load_power", 100, {Hold(ProEvo, <<39226, 39225>>)}) }

-------------------------------------------------------------------------------
(* The inverter: battery terminals, temperatures, faults, state.             *)
BatteryTerminalEntities ==
  { Sensor("invbatvolt", 10000, {In(InputInv, <<11006>>), Hold(SinglePhase, <<31020>>)}),
    Sensor("invbatvolt_1", 10000, {Hold(ProEvo, <<39227>>)}),
    Sensor("invbatvolt_2", 10000, {Hold(ProSmart, <<39232>>)}),
    Sensor("invbatcurrent", 10000, {In(InputInv, <<11007>>), Hold(SinglePhase, <<31021>>)}),
    Sensor("invbatcurrent_1", 100, {Hold(ProEvo, <<39229, 39228>>)}),
    Sensor("invbatcurrent_2", 100, {Hold(ProSmart, <<39234, 39233>>)}) }
  \cup {Sensor(k, 100, {In(InputInv, <<11008>>), Hold(SinglePhase, <<31022>>),
        Hold(H3_SET, <<31036>>),
            Hold(ProEvo, <<39238, 39237>>)})
          : k \in {"invbatpower", "battery_discharge", "battery_charge"}}
  \cup {Sensor(k, 100, {Hold(ProEvo, <<39231, 39230>>)})
          : k \in {"invbatpower_1", "battery_discharge_1", "battery_charge_1"}}
  \cup {Sensor(k, 100, {Hold(ProSmart, <<39236, 39235>>)})
          : k \in {"invbatpower_2", "battery_discharge_2", "battery_charge_2"}}

TemperatureAndFrequencyEntities ==
  { UnsignedSensor("rfreq", 1000, {In(InputInv, <<11014>>), Hold(SinglePhase, <<31009>>),
        Hold(H3_SET, <<31015>>), Hold(H3_PRO_PRE122, <<38847, 38846>>),
        Hold(Pro122Up, <<39139>>)}),
    UnsignedSensor("eps_frequency", 1000, {In(InputInv, <<11020>>), Hold(SinglePhase, <<31013>>),
        Hold(H3_SET, <<31025>>), Hold(H3_SMART \cup EVO, <<39218>>)}),
    Sensor("invtemp", 10000, {In(InputInv, <<11024>>), Hold(SinglePhase, <<31018>>),
        Hold(H3_SET, <<31032>>), Hold(ProEvo, <<39141>>)}),
    Sensor("ambtemp", 10000, {In(InputInv, <<11025>>), Hold(SinglePhase, <<31019>>),
        Hold(H3_SET, <<31033>>), Hold(EVO, <<39142>>)}) }

H1BatteryEntities ==
  { BatterySensor("bms_charge_rate", 10000, UNSIGNED, BmsConnect, {In(InputInv, <<11041>>),
        Hold(SinglePhase, <<31025>>)}),
    BatterySensor("bms_discharge_rate", 10000, UNSIGNED, BmsConnect, {In(InputInv, <<11042>>),
        Hold(SinglePhase, <<31026>>)}),
    BatterySensor("bms_cycle_count", 100000, UNSIGNED, BmsConnect, {In(InputInv, <<11048>>)}),
    BatterySensor("bms_watthours_total", 100, UNSIGNED, BmsConnect, {In(InputInv, <<11049>>)}) }

StateEntities ==
  { Fault("inverter_fault_code", {In(H1_G1, <<11061, 11062, 11064, 11065, 11066, 11067, 11068>>),
        Hold(H1_LAN \cup H1_G1, <<31031, 31032, 31034, 31035, 31036, 31037, 31038>>),
        Hold(H3_SET, <<31044, 31045, 31047, 31048, 31049, 31050, 31051>>)}),
    Fault("inverter_fault_code", {
        Hold(ProSmart \cup H1_G2_144 \cup KH_133, <<39067, 39068, 39069>>)}),
    State("inverter_state", {In(H1_G1, <<11056>>), Hold(H1_LAN \cup H1_G1, <<31027>>)}),
    State("inverter_state", {In(KH_PRE119, <<11056>>), Hold(KHHolding, <<31027>>)}),
    State("inverter_state", {Hold(ProSmart \cup H1_G2_SET, <<39063, 39065>>)}),
    Sensor("state_code", 100000, {Hold(H3_SET, <<31041>>)}) }

-------------------------------------------------------------------------------
(* Energy counters.                                                          *)
SolarEnergyEntities ==
  { UnsignedSensor("solar_energy_total", 10000, {In(InputInv, <<11070, 11069>>),
        Hold(Totals, <<32001, 32000>>), Hold(H3_PRO_PRE122, <<39602, 39601>>)}),
    UnsignedSensor("solar_energy_total", 1000, {Hold(Pro122Up, <<39602, 39601>>)}),
    UnsignedSensor("solar_energy_today", 10000, {In(H1_G1, <<11071>>), Hold(H1_G1, <<32002>>)}),
    UnsignedSensor("solar_energy_today", 10000, {In(KH_PRE119, <<11071>>),
        Hold(Totals, <<32002>>), Hold(H3_PRO_PRE122, <<39604, 39603>>)}),
    UnsignedSensor("solar_energy_today", 1000, {Hold(Pro122Up, <<39604, 39603>>)}) }

BatteryChargeEntities ==
  { UnsignedSensor("battery_charge_total", 10000, {In(InputInv, <<11073, 11072>>),
        Hold(Totals, <<32004, 32003>>), Hold(H3_PRO_PRE122, <<39606, 39605>>)}),
    UnsignedSensor("battery_charge_total", 1000, {Hold(Pro122Up, <<39606, 39605>>)}),
    Integration("battery_charge_total", "battery_charge", {Hold(H1_LAN, <<>>)}),
    Sensor("battery_charge_today", 10000, {In(InputInv, <<11074>>),
        Hold(H3_SET \cup H1_G2_SET \cup H1_G1, <<32005>>), Hold(KHHolding, <<32005>>),
        Hold(H3_PRO_PRE122, <<39608, 39607>>)}),
    Sensor("battery_charge_today", 1000, {Hold(Pro122Up, <<39608, 39607>>)}) }

BatteryDischargeEntities ==
  { UnsignedSensor("battery_discharge_total", 10000, {In(InputInv, <<11076, 11075>>),
        Hold(Totals, <<32007, 32006>>), Hold(H3_PRO_PRE122, <<39610, 39609>>)}),
    UnsignedSensor("battery_discharge_total", 1000, {Hold(Pro122Up, <<39610, 39609>>)}),
    Integration("battery_discharge_total", "battery_discharge", {Hold(H1_LAN, <<>>)}),
    Sensor("battery_discharge_today", 10000, {In(InputInv, <<11077>>), Hold(Totals, <<32008>>),
        Hold(H3_PRO_PRE122, <<39612, 39611>>)}),
    Sensor("battery_discharge_today", 1000, {Hold(Pro122Up, <<39612, 39611>>)}) }

FeedInEntities ==
  { UnsignedSensor("feed_in_energy_total", 10000, {In(InputInv, <<11079, 11078>>),
        Hold(Totals, <<32010, 32009>>), Hold(H3_PRO_PRE122, <<39614, 39613>>)}),
    UnsignedSensor("feed_in_energy_total", 1000, {Hold(Pro122Up, <<39614, 39613>>)}),
    Integration("feed_in_energy_total", "feed_in", {Hold(H1_LAN, <<>>)}),
    Sensor("feed_in_energy_today", 10000, {In(InputInv, <<11080>>), Hold(Totals, <<32011>>),
        Hold(H3_PRO_PRE122, <<39616, 39615>>)}),
    Sensor("feed_in_energy_today", 1000, {Hold(Pro122Up, <<39616, 39615>>)}) }

GridConsumptionEntities ==
  { UnsignedSensor("grid_consumption_energy_total", 10000, {In(InputInv, <<11082, 11081>>),
        Hold(Totals, <<32013, 32012>>), Hold(H3_PRO_PRE122, <<39618, 39617>>)}),
    UnsignedSensor("grid_consumption_energy_total", 1000, {Hold(Pro122Up, <<39618, 39617>>)}),
    Integration("grid_consumption_energy_total", "grid_consumption", {Hold(H1_LAN, <<>>)}),
    Sensor("grid_consumption_energy_today", 10000, {In(InputInv, <<11083>>),
        Hold(Totals, <<32014>>), Hold(H3_PRO_PRE122, <<39620, 39619>>)}),
    Sensor("grid_consumption_energy_today", 1000, {Hold(Pro122Up, <<39620, 39619>>)}) }

YieldAndInputEnergyEntities ==
  { UnsignedSensor("total_yield_total", 10000, {In(InputInv, <<11085, 11084>>),
        Hold(Totals, <<32016, 32015>>), Hold(H3_PRO_PRE122, <<39622, 39621>>)}),
    UnsignedSensor("total_yield_total", 1000, {Hold(Pro122Up, <<39622, 39621>>)}),
    Sensor("total_yield_today", 10000, {In(InputInv, <<11086>>), Hold(Totals, <<32017>>),
        Hold(H3_PRO_PRE122, <<39624, 39623>>)}),
    Sensor("total_yield_today", 1000, {Hold(Pro122Up, <<39624, 39623>>)}),
    UnsignedSensor("input_energy_total", 10000, {In(InputInv, <<11088, 11087>>),
        Hold(Totals, <<32019, 32018>>), Hold(H3_PRO_PRE122, <<39626, 39625>>)}),
    UnsignedSensor("input_energy_total", 1000, {Hold(Pro122Up, <<39626, 39625>>)}),
    Sensor("input_energy_today", 10000, {In(InputInv, <<11089>>), Hold(Totals, <<32020>>),
        Hold(H3_PRO_PRE122, <<39628, 39627>>)}),
    Sensor("input_energy_today", 1000, {Hold(Pro122Up, <<39628, 39627>>)}) }

LoadEnergyEntities ==
  { UnsignedSensor("load_power_total", 10000, {In(KH_PRE119, <<11091, 11090>>),
        Hold(H3_SET \cup H1_G2_SET \cup KHHolding, <<32022, 32021>>),
        Hold(H3_PRO_PRE122, <<39630, 39629>>)}),
    UnsignedSensor("load_power_total", 1000, {Hold(Pro122Up, <<39630, 39629>>)}),
    Integration("load_power_total", "load_power", Virtual(H1_LAN \cup H1_G1)),
    Sensor("load_energy_today", 10000, {In(InputInv, <<11092>>), Hold(Totals, <<32023>>),
        Hold(H3_PRO_PRE122, <<39632, 39631>>)}),
    Sensor("load_energy_today", 1000, {Hold(Pro122Up, <<39632, 39631>>)}) }

-------------------------------------------------------------------------------
(* What the battery management systems report.                               *)
BmsEntities ==
  { Sensor("batvolt", 10000, {In(InputInv, <<11034>>), Hold(H1_G2_144, <<37609>>),
        Hold(H3_SET, <<31034>>)}),
    Sensor("bat_current", 10000, {In(InputInv, <<11035>>), Hold(H1_G2_144, <<37610>>),
        Hold(H3_SET, <<31035>>)}),
    BatterySensor("battery_soc", 100000, UNSIGNED, BmsConnect, {In(InputInv, <<11036>>),
        Hold(SinglePhase, <<31024>>), Hold(H3_SET, <<31038>>)}),
    BatterySensor("battery_soh", 100000, UNSIGNED, BmsConnect, {
        Hold(H1_G2_144 \cup KH_133, <<37624>>), Hold(H3_180, <<31090>>), Hold(EVO, <<39423>>)}),
    BatterySensor("battery_temp", 10000, SIGNED, BmsConnect, {In(InputInv, <<11038>>),
        Hold(SinglePhase, <<31023>>), Hold(H3_SET, <<31037>>)}),
    BatterySensor("bms_cell_temp_high", 10000, SIGNED, BmsConnect, {In(InputInv, <<11043>>),
        Hold(H1_G2_144 \cup KH_133, <<37617>>), Hold(H3_180, <<31102>>)}),
    BatterySensor("bms_cell_temp_low", 10000, SIGNED, BmsConnect, {In(InputInv, <<11044>>),
        Hold(H1_G2_144 \cup KH_133, <<37618>>), Hold(H3_180, <<31103>>)}),
    BatterySensor("bms_cell_mv_high", 100000, UNSIGNED, BmsConnect, {In(InputInv, <<11045>>),
        Hold(H1_G2_144 \cup KH_133, <<37619>>), Hold(H3_180, <<31134>>)}),
    BatterySensor("bms_cell_mv_low", 100000, UNSIGNED, BmsConnect, {In(InputInv, <<11046>>),
        Hold(H1_G2_144 \cup KH_133, <<37620>>), Hold(H3_180, <<31135>>)}),
    BatterySensor("bms_kwh_remaining", 1000, UNSIGNED, BmsConnect, {In(InputInv, <<11037>>),
        Hold(H1_G2_SET \cup KH_133, <<37632>>), Hold(H3_180, <<31123>>)}) }

SeparateBmsEntities ==
  { Sensor("batvolt_1", 10000, {Hold(ProSmart, <<37609>>)}),
    Sensor("bat_current_1", 10000, {Hold(ProSmart, <<37610>>)}),
    BatterySensor("battery_soc_1", 100000, UNSIGNED, BmsConnect1, {Hold(ProSmart, <<37612>>)}),
    BatterySensor("battery_soh_1", 100000, UNSIGNED, BmsConnect1, {Hold(H3_SMART, <<37624>>)}),
    BatterySensor("battery_temp_1", 10000, SIGNED, BmsConnect1, {Hold(ProSmart, <<37611>>)}),
    BatterySensor("bms_cell_temp_high_1", 10000, SIGNED, BmsConnect1, {
        Hold(ProSmart, <<37617>>)}),
    BatterySensor("bms_cell_temp_low_1", 10000, SIGNED, BmsConnect1, {Hold(ProSmart, <<37618>>)}),
    BatterySensor("bms_cell_mv_high_1", 100000, UNSIGNED, BmsConnect1, {
        Hold(ProSmart, <<37619>>)}),
    BatterySensor("bms_cell_mv_low_1", 100000, UNSIGNED, BmsConnect1, {
        Hold(ProSmart, <<37620>>)}),
    BatterySensor("bms_kwh_remaining_1", 1000, UNSIGNED, BmsConnect1, {
        Hold(ProSmart, <<37632>>)}),
    Sensor("batvolt_2", 10000, {Hold(ProSmart, <<38307>>)}),
    Sensor("bat_current_2", 10000, {Hold(ProSmart, <<38308>>)}),
    BatterySensor("battery_soc_2", 100000, UNSIGNED, BmsConnect2, {Hold(ProSmart, <<38310>>)}),
    BatterySensor("battery_soh_2", 100000, UNSIGNED, BmsConnect2, {Hold(H3_SMART, <<38322>>)}),
    BatterySensor("battery_temp_2", 10000, SIGNED, BmsConnect2, {Hold(ProSmart, <<38309>>)}),
    BatterySensor("bms_cell_temp_high_2", 10000, SIGNED, BmsConnect2, {
        Hold(ProSmart, <<38315>>)}),
    BatterySensor("bms_cell_temp_low_2", 10000, SIGNED, BmsConnect2, {Hold(ProSmart, <<38316>>)}),
    BatterySensor("bms_cell_mv_high_2", 100000, UNSIGNED, BmsConnect2, {
        Hold(ProSmart, <<38317>>)}),
    BatterySensor("bms_cell_mv_low_2", 100000, UNSIGNED, BmsConnect2, {
        Hold(ProSmart, <<38318>>)}),
    BatterySensor("bms_kwh_remaining_2", 1000, UNSIGNED, BmsConnect2, {
        Hold(ProSmart, <<38330>>)}) }

-------------------------------------------------------------------------------
(* Settings.                                                                 *)
WorkModeAndCurrentEntities ==
  { Select("work_mode", {In(InputInv, <<41000>>), Hold(KHHolding \cup H1_G1, <<41000>>)}),
    Select("work_mode", {Hold(ProEvo, <<49203>>)}),
    Select("work_mode", {Hold((H3_SET \cup H1_G2_SET) \ AIO_H3_PRE101, <<41000>>)}) }
  \cup Setting("max_charge_current", 10000, {In(InputInv, <<41007>>),
           Hold(Totals \ AIO_H3_PRE101, <<41007>>), Hold(ProEvo, <<46607>>)})
  \cup Setting("max_discharge_current", 10000, {In(InputInv, <<41008>>),
           Hold(Totals \ AIO_H3_PRE101, <<41008>>), Hold(ProEvo, <<46608>>)})

SocEntities ==
  Setting("min_soc", 100000, {In(InputInv, <<41009>>), Hold(Totals \ AIO_H3_PRE101, <<41009>>),
      Hold(ProEvo, <<46609>>)})
  \cup Setting("max_soc", 100000, {In(InputInv, <<41010>>),
         Hold(Totals \ AIO_H3_PRE101, <<41010>>),
           Hold(ProEvo, <<46610>>)})
  \cup Setting("min_soc_on_grid", 100000, {In(InputInv, <<41011>>),
           Hold(Totals \ AIO_H3_PRE101, <<41011>>), Hold(ProEvo, <<46611>>)})

PowerLimitEntities ==
  Setting("export_power_limit", 100000, {Hold(ProSmart \cup KH_133, <<46617, 46616>>)})
  \cup Setting("import_power_limit", 100000, {Hold(KH_133 \cup H3_SMART, <<46502, 46501>>)})

-------------------------------------------------------------------------------
(* Charge periods: two times, which are only valid together, whether they   *)
(* force a charge, and whether to charge from the grid.                     *)
PeriodSpecs(a) == {In(InputInv, <<a>>), Hold(H1_G2_SET \cup EVO, <<a>>)}

ChargePeriod(start, end, gridEnable, keys) ==
    LET time(platform, key, a, other) ==
          [Description(platform, key, PeriodSpecs(a)) EXCEPT !.also = {PeriodSpecs(other)}]
    IN  { time("sensor", keys.start, start, end), time("sensor", keys.end, end, start),
          time("binary_sensor", keys.force, start, end),
          Description("binary_sensor", keys.grid, PeriodSpecs(gridEnable)) }

ChargePeriodEntities ==
  ChargePeriod(41002, 41003, 41001,
    [start |-> "time_period_1_start", end |-> "time_period_1_end",
     force |-> "time_period_1_enable_force_charge",
     grid  |-> "time_period_1_enable_charge_from_grid"])
  \cup ChargePeriod(41005, 41006, 41004,
    [start |-> "time_period_2_start", end |-> "time_period_2_end",
     force |-> "time_period_2_enable_force_charge",
     grid  |-> "time_period_2_enable_charge_from_grid"])

(* Remote control: the registers that RemoteControlManager listens on:      *)
(* state of charge, work mode, maximum state of charge, battery power,      *)
(* charge limit and pv voltages, as far as the inverter has them.           *)
RemoteControlSpecs ==
  {In(H1_G1, <<11036, 41000, 41010, 11008, 44012, 11000, 11003>>),
   Hold(H1_LAN, <<31024, 31022, 31000, 31003>>),
   Hold(H1_G2_SET, <<31024, 41000, 41010, 31022, 39070, 39072>>),
   In(KH_PRE119, <<11036, 41000, 41010, 11008, 11000, 11003, 11096, 11099>>),
   Hold(KHHolding, <<31024, 41000, 41010, 31022, 31000, 31003, 31039, 31042>>),
   Hold(H3_PRE180 \cup H3_180, <<31038, 41000, 41010, 31036, 31000, 31003>>),
   Hold(ProSmart, <<37612, 38310, 49203, 46610, 39238, 39237, 46019, 46018,
                    39070, 39072, 39074, 39076, 39078, 39080>>)}

(* The H1 over LAN has neither a work mode nor a maximum state of charge.   *)
RemoteControlEntities ==
  {Description("number", k, {[s EXCEPT !.registers = <<>>] : s \in RemoteControlSpecs})
     : k \in {"force_charge_power", "force_discharge_power"}}
  \cup {Description("select", "force_charge_mode", {Hold(H1_LAN, <<>>)}),
        Description("number", "force_charge_max_soc", {Hold(H1_LAN, <<>>)})}

-------------------------------------------------------------------------------
PvEntities == Pv1Entities \cup Pv2And3Entities \cup Pv4To6Entities \cup PvPowerNow
H1CurrentVoltagePowerEntities == H1PowerEntities \cup H1EpsAndGridEntities
H3CurrentVoltagePowerEntities ==
    H3VoltageCurrentEntities \cup H3PowerEntities \cup H3EpsEntities \cup H3GridEntities
      \cup H3MeterEntities \cup H3LoadEntities
EnergyEntities ==
    SolarEnergyEntities \cup BatteryChargeEntities \cup BatteryDischargeEntities
      \cup FeedInEntities \cup GridConsumptionEntities \cup YieldAndInputEnergyEntities
      \cup LoadEnergyEntities
InverterEntities ==
    BatteryTerminalEntities \cup TemperatureAndFrequencyEntities \cup H1BatteryEntities
      \cup StateEntities \cup EnergyEntities
ConfigurationEntities ==
    WorkModeAndCurrentEntities \cup SocEntities \cup PowerLimitEntities

ENTITIES ==
    VersionEntities \cup PvEntities \cup H1CurrentVoltagePowerEntities
      \cup H3CurrentVoltagePowerEntities \cup InverterEntities
      \cup BmsEntities \cup SeparateBmsEntities \cup ConfigurationEntities
      \cup ChargePeriodEntities \cup RemoteControlEntities

(* create_entity_if_supported, for all of them. *)
EntitiesOf(inv, type) == {e \in ENTITIES : Supports(e.specs, inv, type)}

(* The registers that an entity listens on.                                 *)
RegistersOf(e, inv, type) ==
    LET found(specs) == UNION {{s.registers[i] : i \in DOMAIN s.registers}
                                 : s \in Matching(specs, inv, type)}
    IN  found(e.specs) \cup UNION {found(specs) : specs \in e.also}
===============================================================================
