----------------------------- MODULE OnuTables -----------------------------
(***************************************************************************)
(* What the code computes between the tables of an OLT, the form of a      *)
(* configuration and the commands it sends (src/apps/devices/device_config *)
(* /pon): the number of an ONU in SNMP, the first free number of a fiber,  *)
(* the VLANs of a configuration and the mode of each port.  No state.      *)
(***************************************************************************)
EXTENDS Integers, FiniteSets, Sequences

CONSTANTS Error,    \* the code raises
          Nothing   \* nothing is found

-----------------------------------------------------------------------------
(* The address of an ONU in SNMP: binary digits 10000, eight of the rack, eight
   of the fiber and eight zeros; then the number of the ONU. *)
ZteFiber(rack, fiber) == ((16 * 256 + rack) * 256 + fiber) * 256

(* zte_onu_conv_from_onu takes the digits by their place from the left, whatever
   the number of digits is. *)
Digits(x) == CHOOSE k \in 1 .. 31 : (IF k = 31 THEN TRUE ELSE x < 2 ^ k) /\ (k = 1 \/ 2 ^ (k - 1) <= x)
Slice(x, from, to) ==
  LET k == Digits(x)
      last == IF k < to THEN k ELSE to
  IN  IF from >= k THEN Error ELSE (x \div 2 ^ (k - last)) % 2 ^ (last - from)
FromZteFiber(x) ==
  LET rack == Slice(x, 5, 13)
      fiber == Slice(x, 13, 21)
  IN  IF rack = Error \/ fiber = Error THEN Error ELSE [rack |-> rack, fiber |-> fiber]

-----------------------------------------------------------------------------
(* get_free_registered_onu_number over the numbers the OLT lists, one by one:
   the place of the first that is larger than its place, or one after the last. *)
FirstFree(listed) ==
  LET gaps == {i \in DOMAIN listed : listed[i] > i} IN
  IF gaps # {} THEN CHOOSE i \in gaps : \A j \in gaps : i <= j
  ELSE IF listed = <<>> THEN 1 ELSE listed[Len(listed)] + 1

(* get_unregistered_onu: the place of the first line with the serial. *)
PlaceOf(lines, serial) ==
  LET own == {i \in DOMAIN lines : lines[i].serial = serial} IN
  IF own = {} THEN Nothing ELSE lines[CHOOSE i \in own : \A j \in own : i <= j].place

-----------------------------------------------------------------------------
(* A configuration: a sequence of ports [port, vids], a VLAN being [vid, native]. *)

(* get_all_vlans_from_config: a set, given as a list in no order of its own. *)
AllVids(config) ==
  {v.vid : v \in UNION {config[i].vids : i \in DOMAIN config}} \ {0}
(* register_onu: the VLAN of the subscriber is the first of that list. *)
UserVids(config) == AllVids(config)

Native(vids) == {v.vid : v \in {u \in vids : u.native}}
Trunk(vids)  == {v.vid : v \in {u \in vids : ~u.native}}

(* The command for a port. *)
PortMode(vids) ==
  LET native == Native(vids)
      trunk == Trunk(vids)
  IN  IF Cardinality(native) > 1 THEN Error
      ELSE IF native # {} /\ trunk # {} THEN [mode |-> "hybrid", native |-> native, trunk |-> trunk]
      ELSE IF native # {} THEN [mode |-> "tag", native |-> native, trunk |-> {}]
      ELSE IF trunk # {} THEN [mode |-> "trunk", native |-> {}, trunk |-> trunk]
      ELSE [mode |-> "tag", native |-> {1}, trunk |-> {}]

(* F660: each port of the configuration that has VLANs; one bad port spoils all. *)
F660Ports(config) ==
  LET used == {i \in DOMAIN config : config[i].vids # {}} IN
  IF \E i \in used : PortMode(config[i].vids) = Error THEN Error
  ELSE {[port |-> config[i].port, conf |-> PortMode(config[i].vids)] : i \in used}

(* F601 static: the first entry of the configuration is of port 1, whatever it says. *)
F601Ports(config) ==
  IF PortMode(config[1].vids) = Error THEN Error
  ELSE {[port |-> 1, conf |-> PortMode(config[1].vids)]}

(* The bridge templates (F601 dhcp, F660 router): one VLAN, in access; those of
   FD511G say nothing of ports. *)
BridgePorts(vid) == {[port |-> 1, conf |-> [mode |-> "tag", native |-> {vid}, trunk |-> {}]]}

(* What the templates put on the GPON side: the VLANs the ONU gets at all. *)
StaticUplink(config) == AllVids(config)
BridgeUplink(vid) == {vid}

(* The VLANs the ports of a configuration need. *)
PortVids(ports) == UNION {p.conf.native \cup p.conf.trunk : p \in ports}

(* What register_onu makes of a configuration and the code of its type. *)
Configured(code, config) ==
  IF AllVids(config) = {} THEN {Error}
  ELSE CASE code = "f660_static" -> {F660Ports(config)}
         [] code = "f601_static" -> {F601Ports(config)}
         [] code = "bridge" -> {BridgePorts(v) : v \in UserVids(config)}
         [] code = "fd511g" -> {{}}

-----------------------------------------------------------------------------
(* What is read back from an ONU. *)

(* _get_trunk_vlans: numbers and ranges; the end of a range is left out. *)
RangeVids(from, to) == from .. to - 1
TrunkVids(parts) ==
  UNION {IF p.to = p.from THEN {p.from} ELSE RangeVids(p.from, p.to) : p \in parts}

(* read_onu_vlan_info: the native VLAN and the trunk of each port; the VLANs of a
   device without a number are the default of its OLT. *)
ReadPorts(registered, default, portsLen, access, trunk) ==
  [i \in 1 .. portsLen |->
     IF registered THEN [native |-> access[i], trunk |-> TrunkVids(trunk[i])]
     ELSE [native |-> default, trunk |-> {}]]

(* conv_zte_signal, in thousandths. *)
Signal(level) ==
  IF level \in 1 .. 29999 THEN level * 2 - 30000
  ELSE IF level \in 60001 .. 65533 THEN (level - 65534) * 2 - 30000
  ELSE 0

-----------------------------------------------------------------------------
(* EPON (BDCOM). *)

(* find_onu: the number of the first entry that has the MAC. *)
EponNumber(macs, mac) ==
  LET own == {n \in DOMAIN macs : macs[n] = mac} IN
  IF own = {} THEN Nothing ELSE CHOOSE n \in own : \A m \in own : n <= m

(* remove_from_olt: the interface EPON0/<fiber>:<number>, numbers 1 to 64. *)
EponUnbinds(macs, interface, mac) ==
  LET n == EponNumber(macs, mac) IN
  IF n = Nothing \/ interface[n].onu \notin 1 .. 64 THEN Error ELSE interface[n]

(* scan_onu_list: how many ONUs the fibers count, and the ones the lists name; a
   list that is not whole leaves the answer shorter than it says. *)
Announced(counts) ==
  LET sum[S \in SUBSET DOMAIN counts] ==
        IF S = {} THEN 0
        ELSE LET f == CHOOSE f \in S : TRUE IN counts[f] + sum[S \ {f}]
  IN  sum[DOMAIN counts]
Listed(lists) ==
  UNION {{[fiber |-> f, onu |-> n] : n \in lists[f] \ {0}} : f \in DOMAIN lists}
=============================================================================
