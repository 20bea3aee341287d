--------------------------- MODULE InverterAdapters ---------------------------
(***************************************************************************)
(* The adapters an inverter can be connected through: how each connects,   *)
(* which protocols it offers and how many registers it reads at once.      *)
(***************************************************************************)
EXTENDS Integers

Protocols == {"tcp", "udp", "rtu_over_tcp", "serial"}

DEFAULT_MAX_READ == 20

Adapter(type, connection, protocols, maxRead) ==
    [type |-> type, connection |-> connection, protocols |-> protocols, maxRead |-> maxRead]

Direct             == Adapter("direct", "LAN", {"tcp"}, 100)
Serial(maxRead)    == Adapter("serial", "AUX", {"serial"}, maxRead)
Network(protocols, maxRead) == Adapter("network", "AUX", protocols, maxRead)

W610_MAX_READ == 8

(* The configurations of ADAPTERS, by the adapters that have them.          *)
ADAPTERS ==
    [direct               |-> Direct,
     dsd_tech_sh_u10      |-> Serial(100),
     runcci_yun_usb_to_rs485_converter |-> Serial(DEFAULT_MAX_READ),
     waveshare_usb_to_rs485_b |-> Serial(100),
     serial_other         |-> Serial(DEFAULT_MAX_READ),
     elfin_ew11           |-> Network({"tcp", "udp"}, 100),
     usr_tcp232_304       |-> Network({"rtu_over_tcp"}, 100),
     usr_tcp232_410s      |-> Network({"tcp", "udp"}, 100),
     usr_w610             |-> Network({"tcp", "udp"}, W610_MAX_READ),
     waveshare_rs485_to_eth_b |-> Network({"tcp", "udp"}, 100),
     ebyte_na111_series   |-> Network({"tcp", "udp"}, 100),
     network_other        |-> Network({"tcp", "udp", "rtu_over_tcp"}, W610_MAX_READ)]
===============================================================================
