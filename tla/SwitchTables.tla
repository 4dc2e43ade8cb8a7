---------------------------- MODULE SwitchTables ----------------------------
(***************************************************************************)
(* What the strategies of switches read from the tables of a device        *)
(* (src/apps/devices/device_config/switch): the VLANs of a port, the MACs  *)
(* of a port, the bitmaps both are kept in.  No state: every operator is   *)
(* the answer a strategy makes of the tables, which are external.          *)
(*                                                                         *)
(* A bitmap is the set of its bits that are set, counted from 0 at the     *)
(* left.  A switch that does not answer a table gives Nothing, a strategy  *)
(* that raises gives Error.                                                *)
(***************************************************************************)
EXTENDS Integers, FiniteSets, Sequences

CONSTANTS
  TableBits,    \* VLANs in a table of Eltex: 1024
  MaxVid,       \* the largest VLAN id the strategies take: 4095
  OctetBits,    \* bits of an octet: 8
  PortOctets,   \* octets of a map of ports: 4
  FirstPort,    \* what Eltex adds to the number of a port: 48
  Nothing, Error

TablesAssumption ==
  /\ TableBits \in Nat \ {0} /\ MaxVid \in Nat
  /\ OctetBits \in Nat \ {0} /\ PortOctets \in Nat \ {0}
  /\ FirstPort \in Nat

PortBits == OctetBits * PortOctets
PortInRange(port, portsLen) == port \in 1 .. portsLen

-----------------------------------------------------------------------------
(* Eltex: four tables of VLANs, each with a bitmap. *)

Table(vid) == vid \div TableBits
(* make_eltex_map_vlan: the VLANs as bitmaps by table.  The bit of a VLAN is
   counted from the right end of TableBits, so that one that ends a table would
   be the bit before the first: the conversion to octets overflows. *)
EltexMap(vids) ==
  IF \E v \in vids : v > MaxVid \/ v < 1 \/ v % TableBits = 0
  THEN Error
  ELSE [t \in {Table(v) : v \in vids} |->
         {(v % TableBits) - 1 : v \in {u \in vids : Table(u) = t}}]

(* parse_eltex_vlan_map: back from the bits of one table. *)
EltexVids(bits, table) == {b + 1 + table * TableBits : b \in bits}

(* The elements of a set in rising order. *)
Ascending(S) ==
  CHOOSE s \in [1 .. Cardinality(S) -> S] : \A i, j \in DOMAIN s : i < j => s[i] < s[j]

(* read_port_vlan_info: of the tables the switch answers only the first is read.
   is_native looks at the first untagged VLAN whose place in the list is the
   number of the port or comes after it. *)
EltexNative(untagged, port) ==
  \E i \in DOMAIN untagged : i >= port + FirstPort
     /\ \A j \in DOMAIN untagged : j >= port + FirstPort => j >= i
     /\ untagged[i] = 1

EltexPortVlans(port, portsLen, egress, untagged) ==
  IF ~PortInRange(port, portsLen) THEN Error
  ELSE LET answered == {t \in DOMAIN egress : egress[t] # Nothing} IN
       IF answered = {} THEN Nothing
       ELSE LET t == CHOOSE t \in answered : \A u \in answered : t <= u
                bare == Ascending(EltexVids(untagged[t], t))
            IN  {[vid |-> v, native |-> EltexNative(bare, port)] :
                   v \in EltexVids(egress[t], t)}

-----------------------------------------------------------------------------
(* Maps of ports: the octets as one number, its binary digits padded with zeros
   at the left. *)

(* _make_ports_map of a sequence of octets, each the set of its bits. *)
PortsMap(octets) ==
  LET n == IF Len(octets) < PortOctets THEN Len(octets) ELSE PortOctets
      pad == (PortOctets - n) * OctetBits
  IN  {pad + (i - 1) * OctetBits + b : <<i, b>> \in
         {<<i, b>> \in (1 .. n) \X (0 .. OctetBits - 1) : b \in octets[i]}}

(* _make_buf_from_ports_map. *)
PortsBuf(map) ==
  [i \in 1 .. PortOctets |->
     {b \in 0 .. OctetBits - 1 : (i - 1) * OctetBits + b \in map}]

Has(map, index) == index \in map

-----------------------------------------------------------------------------
(* DLink DGS-3120: the table of VLANs is walked from VLAN 1 by "the next one".
   Past the last VLAN the switch answers from the column after this one, which
   begins with the first VLAN again; the walk ends at VLAN 1. *)
NextVid(vids, vid) ==
  LET later == {v \in vids : v > vid} IN
  IF later # {} THEN CHOOSE v \in later : \A u \in later : v <= u
  ELSE CHOOSE v \in vids : \A u \in vids : v <= u

(* The VLANs the walk meets, or that it never ends. *)
WalkEnds(vids) == vids = {} \/ NextVid(vids, MaxVid) = 1
DlinkWalk(vids) == IF WalkEnds(vids) THEN {v \in vids : v > 1} ELSE Error

DlinkPortVlans(port, portsLen, vids, members, untagged) ==
  IF ~PortInRange(port, portsLen) \/ DlinkWalk(vids) = Error THEN Error
  ELSE {[vid |-> v, native |-> Has(PortsMap(untagged[v]), port - 1)] :
          v \in {u \in DlinkWalk(vids) : Has(PortsMap(members[u]), port - 1)}}

(* DLink DGS-1100-06: nothing at all for a port without a native VLAN; a VLAN
   without members ends the list.  A number that comes as a text is compared as
   octets, and equals no VLAN. *)
Dgs1100PortVlans(port, portsLen, vids, members, native) ==
  IF ~PortInRange(port, portsLen) THEN Error
  ELSE IF native = Nothing THEN {}
  ELSE LET dumb == {v \in vids \ {0, 1} : members[v] = Nothing} IN
       {[vid |-> v, native |-> ~native.text /\ v = native.vid] :
          v \in {u \in vids \ {0, 1} :
                   /\ \A e \in dumb : u < e
                   /\ Has(PortsMap(members[u]), port - 1)}}

(* Huawei: the same table, read at the number of the port instead of the one before. *)
HuaweiPortVlans(port, portsLen, vids, members) ==
  IF ~PortInRange(port, portsLen) THEN Error
  ELSE LET dumb == {v \in vids \ {0, 1} : members[v] = Nothing} IN
       {v \in vids \ {0, 1} :
          /\ \A e \in dumb : v < e
          /\ Has(PortsMap(members[v]), port)}

-----------------------------------------------------------------------------
(* MAC addresses. *)

(* Eltex: the place of each interface in the list of interfaces is its port. *)
PortsOfInterfaces(ifs) ==
  [i \in {ifs[k] : k \in {j \in DOMAIN ifs : ifs[j] > 0}} |->
     CHOOSE k \in DOMAIN ifs : ifs[k] = i /\ \A j \in DOMAIN ifs : ifs[j] = i => j <= k]
PortOf(map, i) == IF i \in DOMAIN map THEN map[i] ELSE Nothing

(* read_mac_address_port; fdb is a set of entries [vid, mac, port]. *)
EltexMacsOfPort(port, portsLen, ifs, fdb) ==
  IF ~PortInRange(port, portsLen) THEN Error
  ELSE {[e EXCEPT !.port = port] :
          e \in {f \in fdb : PortOf(PortsOfInterfaces(ifs), f.port) = port}}
DlinkMacsOfPort(port, portsLen, fdb) ==
  IF ~PortInRange(port, portsLen) THEN Error ELSE {e \in fdb : e.port = port}

(* read_mac_address_vlan: Eltex gives any VLAN id to the switch. *)
EltexMacsOfVlan(vid, ifs, fdb) ==
  {[e EXCEPT !.port = PortOf(PortsOfInterfaces(ifs), e.port)] :
     e \in {f \in fdb : f.vid = vid}}
DlinkMacsOfVlan(vid, fdb) ==
  IF vid \in 1 .. MaxVid THEN {e \in fdb : e.vid = vid} ELSE Error

(* read_all_vlan_info: Eltex walks the interfaces of VLANs, numbered from 100000
   for VLAN 1; the others leave the default VLAN out. *)
EltexAllVids(ifIndexes) == {i - 100000 + 1 : i \in {j \in ifIndexes : j \in 100001 .. 104095}}
OtherAllVids(vids) == vids \ {0, 1}

(* port_enable, port_disable: the object that is set, and to what. *)
PortSwitch(port, up, eltex) ==
  [object |-> IF eltex THEN port + FirstPort ELSE port, value |-> IF up THEN 1 ELSE 2]
=============================================================================
