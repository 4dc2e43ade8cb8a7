------------------------------ MODULE MCTables ------------------------------
(* The operators of the modules without state against what they should give, over
   bounded inputs.  Every statement here is evaluated before the run of MCNetwork,
   which EXTENDS this module. *)
EXTENDS Integers, FiniteSets, Sequences

CONSTANTS error, nothing

UpTo(S, k) == {T \in SUBSET S : Cardinality(T) <= k}

-----------------------------------------------------------------------------
(* Switches: tables of 4 VLANs, maps of 4 octets of 2 bits. *)
Switch == INSTANCE SwitchTables WITH
  TableBits <- 4, MaxVid <- 15, OctetBits <- 2, PortOctets <- 4, FirstPort <- 6,
  Nothing <- nothing, Error <- error

ASSUME Switch!TablesAssumption

(* Eltex: what is written in the tables is what is read from them, but a VLAN
   that ends a table cannot be written. *)
ASSUME \A vids \in SUBSET (1 .. 15) :
  LET map == Switch!EltexMap(vids) IN
  IF vids \cap {4, 8, 12} # {} THEN map = error
  ELSE /\ map # error
       /\ vids = UNION {Switch!EltexVids(map[t], t) : t \in DOMAIN map}

(* Of the VLANs of a port only the ones of the first table that is answered are
   read, and none of them is ever native: the port is sought among the VLANs. *)
Egress == [0 .. 1 -> {nothing} \cup UpTo(0 .. 3, 2)]
ASSUME \A port \in 1 .. 2, egress \in Egress, bare \in UpTo(0 .. 3, 2) :
  LET vlans == Switch!EltexPortVlans(port, 2, egress, [t \in 0 .. 1 |-> bare]) IN
  vlans # nothing =>
    /\ \A v \in vlans : ~v.native
    /\ egress[0] # nothing => \A v \in vlans : v.vid <= 4

(* The map of the ports and its octets are each other's inverse when all the
   octets are there; a shorter answer is read as the last ports. *)
Octet == SUBSET (0 .. 1)
ASSUME \A a, b, c, d \in Octet :
  /\ Switch!PortsBuf(Switch!PortsMap(<<a, b, c, d>>)) = <<a, b, c, d>>
  /\ Switch!PortsMap(<<a, b, c, d, a>>) = Switch!PortsMap(<<a, b, c, d>>)
  /\ Switch!PortsBuf(Switch!PortsMap(<<a>>)) = <<{}, {}, {}, a>>

(* The walk of DLink ends when the switch has VLAN 1; then every VLAN of the port
   is read.  The strategy of Huawei reads the VLANs of the next port. *)
Vlans == {1, 2, 5}
Members == [Vlans -> {<<{0}, {}, {}, {}>>, <<{1}, {}, {}, {}>>, <<{0, 1}, {}, {}, {}>>}]
InPort(m, p) == p - 1 \in m[1]
ASSUME \A vids \in SUBSET Vlans, m \in Members, port \in 1 .. 2 :
  LET dlink == Switch!DlinkPortVlans(port, 2, vids, m, m)
      huawei == Switch!HuaweiPortVlans(port, 2, vids, m)
  IN  /\ (dlink = error) <=> (vids # {} /\ 1 \notin vids)
      /\ dlink # error =>
           dlink = {[vid |-> v, native |-> TRUE] : v \in {u \in vids \ {1} : InPort(m[u], port)}}
      /\ huawei = {v \in vids \ {1} : InPort(m[v], port + 1)}

(* DGS-1100-06: the VLANs before the first one that is not answered. *)
ASSUME \A m \in [Vlans -> {nothing, <<{0}, {}, {}, {}>>}], text \in BOOLEAN :
  LET read == Switch!Dgs1100PortVlans(1, 2, Vlans, m, [text |-> text, vid |-> 2]) IN
  /\ \A v \in read : v.vid # 1 /\ m[v.vid] # nothing /\ (v.native <=> v.vid = 2 /\ ~text)
  /\ m[2] = nothing => read = {}

(* A MAC is told at the place its interface has in the list of interfaces. *)
Fdb == {[vid |-> 2, mac |-> "a", port |-> 51], [vid |-> 2, mac |-> "b", port |-> 49],
        [vid |-> 5, mac |-> "c", port |-> 51]}
ASSUME
  /\ Switch!EltexMacsOfPort(2, 3, <<49, 51, 0>>, Fdb)
       = {[vid |-> 2, mac |-> "a", port |-> 2], [vid |-> 5, mac |-> "c", port |-> 2]}
  /\ \A e \in Switch!EltexMacsOfVlan(2, <<51>>, Fdb) :
       e.port = IF e.mac = "a" THEN 1 ELSE nothing
  /\ Switch!DlinkMacsOfPort(51, 60, Fdb) \cap Switch!DlinkMacsOfVlan(2, Fdb)
       = {[vid |-> 2, mac |-> "a", port |-> 51]}
  /\ Switch!DlinkMacsOfVlan(16, Fdb) = error
  /\ Switch!EltexAllVids({100000, 100001, 100004, 104096}) = {2, 5}
  /\ Switch!OtherAllVids({0, 1, 2}) = {2}
  /\ Switch!PortSwitch(3, TRUE, TRUE) = [object |-> 9, value |-> 1]

-----------------------------------------------------------------------------
(* OLTs. *)
Onu == INSTANCE OnuTables WITH Nothing <- nothing, Error <- error

(* The SNMP number of a fiber leads back to its rack and its place, for racks and
   fibers of eight binary digits; a number of staff may lead nowhere. *)
ASSUME \A rack, fiber \in {0, 1, 2, 7, 128, 255} :
  Onu!FromZteFiber(Onu!ZteFiber(rack, fiber)) = [rack |-> rack, fiber |-> fiber]
ASSUME Onu!FromZteFiber(12) = error /\ Onu!FromZteFiber(8191) = error

(* The free number is the least that is not listed. *)
ASSUME \A S \in SUBSET (1 .. 6) :
  LET n == Onu!FirstFree(Switch!Ascending(S)) IN n \notin S /\ \A m \in 1 .. n - 1 : m \in S

ASSUME Onu!PlaceOf(<<[serial |-> "a", place |-> 3], [serial |-> "b", place |-> 4]>>, "b") = 4

(* A configuration: ports get the VLANs the uplink of the ONU carries, but a F601
   whose first entry has none gets VLAN 1, and more than one native VLAN on a port
   is refused, after the ONU was registered. *)
Vids == SUBSET [vid : {2, 3}, native : BOOLEAN]
Configs == {<<[port |-> 1, vids |-> a], [port |-> 2, vids |-> b]>> : <<a, b>> \in Vids \X Vids}
ASSUME \A config \in Configs :
  LET f660 == Onu!F660Ports(config)
      f601 == Onu!F601Ports(config)
  IN  /\ (f660 = error) <=> \E i \in 1 .. 2 : Cardinality(Onu!Native(config[i].vids)) > 1
      /\ f660 # error => Onu!PortVids(f660) = Onu!StaticUplink(config)
      /\ f601 # error =>
           (Onu!PortVids(f601) \subseteq Onu!StaticUplink(config) <=> config[1].vids # {})
      /\ \A ports \in Onu!Configured("bridge", config) \ {error} :
           Onu!PortVids(ports) \subseteq Onu!AllVids(config)
      /\ (error \in Onu!Configured("fd511g", config)) <=> Onu!AllVids(config) = {}

(* What is read back from an ONU is without the last VLAN of each range. *)
ASSUME \A a, b \in 2 .. 5 : a <= b =>
  /\ Onu!TrunkVids({[from |-> a, to |-> b]}) = IF a = b THEN {a} ELSE (a .. b) \ {b}
  /\ Onu!ReadPorts(FALSE, 7, 1, <<a>>, <<{}>>)[1].native = 7

(* The signal is told in the same thousandths on both sides of the sign. *)
ASSUME Onu!Signal(65535) = 0 /\ Onu!Signal(1) = -29998 /\ Onu!Signal(65533) = -30002
ASSUME \A l \in 1 .. 99 : Onu!Signal(l) - Onu!Signal(65534 - l) = 4 * l

(* EPON: the interface that is unbound is the one of the MAC. *)
Macs == [1 .. 3 -> {"a", "b"}]
Interface == [n \in 1 .. 3 |-> [fiber |-> 1, onu |-> IF n = 3 THEN 65 ELSE n]]
ASSUME \A macs \in Macs :
  LET cut == Onu!EponUnbinds(macs, Interface, "a") IN
  IF cut = error THEN \A n \in 1 .. 2 : macs[n] # "a" ELSE macs[cut.onu] = "a"
ASSUME LET lists == <<{0, 1, 2}, {4}>> IN Cardinality(Onu!Listed(lists)) = Onu!Announced(<<2, 1>>)

-----------------------------------------------------------------------------
(* Requests about devices. *)
Request == INSTANCE DeviceRequests

(* A device that does not answer is told to staff, with the reason, by every route
   its strategy provides, but for the three that answer with a generator: these
   fail as the server's own error, or end early. *)
ASSUME \A r \in DOMAIN Request!Routes, k \in Request!Kinds, begun \in BOOLEAN,
          e \in {"timeout", "connection", "locked"} :
  LET own == k # "unknown" /\ \A m \in Request!Routes[r].methods : Request!Provides(k, m) IN
  (Request!Answer(r, k, e, begun).code \in {200, 408, 452} /\ Request!Answer(r, k, e, begun).status # 1)
    <=> (own /\ r \notin {"scan_vlan", "scan_all_vlan_list"})

(* No request about a device of another family is refused: it is an error of the
   server, never the answer the views keep for it. *)
ASSUME \A r \in DOMAIN Request!Routes, k \in Request!Kinds :
  (\E m \in Request!Routes[r].methods : ~Request!Provides(k, m)) =>
    Request!Answer(r, k, "none", FALSE).code = 500

(* An event with no status, or a text for one, says that the device is up; who is
   told has the group of the device. *)
ASSUME \A n \in 0 .. 3, noticeable, group \in BOOLEAN :
  LET e == Request!MonitoringEvent("valid", TRUE, n, noticeable, group, {"a"}) IN
  /\ e.saved = "up" <=> n = 0
  /\ e.told # {} => noticeable /\ group
ASSUME Request!MonitoringEvent("bad", TRUE, 0, TRUE, TRUE, {"a"}).saved = "nothing"
ASSUME Request!MonitoringEvent("valid", FALSE, 0, TRUE, TRUE, {"a"}).code = 404

(* Staff see devices of their groups only, whatever they filter by; a filter by any
   address of a locality gives all of the locality. *)
Above == <<{1}, {1, 2}, {1, 2, 3}, {4}>>
Below == <<{1, 2, 3}, {2, 3}, {3}, {4}>>
ASSUME \A addr \in 0 .. 4, groups \in SUBSET {1, 2} :
  LET devices == [id : {1}, addr : 1 .. 4, group : {1, 2}]
      seen == Request!Listing(devices, FALSE, groups, 0, addr, 3, Above, Below, <<FALSE, TRUE, FALSE, FALSE>>)
  IN  /\ \A d \in seen : d.group \in groups
      /\ addr = 3 => {d.addr : d \in seen} = IF groups = {} THEN {} ELSE {2, 3}
      /\ addr = 4 => seen = {d \in devices : d.group \in groups}

ASSUME \A state \in {"up", "down", "x"}, n \in 0 .. 2 :
  LET t == Request!TogglePort(state, n, 7) IN
  /\ t.code = 200 => t.port = IF n = 0 THEN 7 ELSE n
  /\ (t.code = 200 /\ t.up) <=> state = "up"
ASSUME \A parent, extra \in BOOLEAN : Request!RemovalAllowed(FALSE, parent, extra) => extra
=============================================================================
