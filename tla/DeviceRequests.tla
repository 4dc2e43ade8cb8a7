--------------------------- MODULE DeviceRequests ---------------------------
(***************************************************************************)
(* How a request about a device is answered (src/apps/devices): which      *)
(* strategy serves it, what an error of the device becomes, what a         *)
(* monitoring event writes and whom it tells, which devices a list shows.  *)
(* No state: every operator gives an answer, or the row that is saved.     *)
(***************************************************************************)
EXTENDS Integers, FiniteSets, TLC

-----------------------------------------------------------------------------
(* Strategies.  The context a view asks for is built around the strategy of the
   number of the device, whatever family it is of: the tests of the views, that
   the context is of the family they want or has a method, are always true.  A
   method the strategy lacks raises AttributeError, an unknown number TypeError. *)

Common == {"read_all_vlan_info", "get_details", "get_uptime", "get_fiber_str"}
SwitchMethods ==
  Common \cup {"get_ports", "port_enable", "port_disable", "reboot", "get_vid_name",
               "read_port_vlan_info", "read_mac_address_port", "read_mac_address_vlan"}
OltMethods ==
  Common \cup {"scan_onu_list", "get_fibers", "get_units_unregistered", "get_ports_on_fiber"}
OnuMethods ==
  Common \cup {"remove_from_olt", "find_onu", "get_config_types", "read_onu_vlan_info",
               "default_vlan_info"}
Methods == [unknown |-> {}, switch |-> SwitchMethods, olt |-> OltMethods, onu |-> OnuMethods]
Kinds == DOMAIN Methods
Provides(kind, method) == method \in Methods[kind]

-----------------------------------------------------------------------------
(* Errors.  DeviceConnectionError and DeviceConfigurationError are kinds of
   DeviceImplementationError, so that the clause with 452 never sees them;
   ProcessLocked is an OSError. *)

Errors == {"implementation", "validation", "timeout", "snmp", "os", "system", "other"}
ErrorClass(e) ==
  CASE e \in {"connection", "configuration", "console", "unsupported"} -> "implementation"
    [] e \in {"locked", "reset", "refused"} -> "os"
    [] e \in {"type", "attribute"} -> "other"
    [] OTHER -> e

(* catch_dev_manager_err; another error is one of the server. *)
Caught(e) ==
  CASE ErrorClass(e) \in {"implementation", "validation"} -> [code |-> 200, status |-> 2]
    [] ErrorClass(e) = "timeout" -> [code |-> 408, status |-> 0]
    [] ErrorClass(e) \in {"snmp", "os"} -> [code |-> 452, status |-> 0]
    [] ErrorClass(e) = "system" -> [code |-> 453, status |-> 0]
    [] OTHER -> [code |-> 500, status |-> 0]

-----------------------------------------------------------------------------
(* Routes: the methods each calls, and whether it answers with a generator, that
   is run when the answer is rendered, outside of catch_dev_manager_err. *)

Route(methods, lazy) == [methods |-> methods, lazy |-> lazy]
PonRoutes ==
  [scan_units_unregistered |-> Route({"get_fibers", "get_units_unregistered"}, FALSE),
   scan_onu_list           |-> Route({"scan_onu_list"}, TRUE),
   scan_olt_fibers         |-> Route({"get_fibers"}, FALSE),
   scan_onu_on_fiber       |-> Route({"get_ports_on_fiber"}, FALSE),
   fix_onu                 |-> Route({"find_onu"}, FALSE),
   remove_from_olt         |-> Route({"remove_from_olt"}, FALSE),
   scan_pon_details        |-> Route({"get_details"}, FALSE),
   read_onu_vlan_info      |-> Route({"read_onu_vlan_info"}, FALSE)]
SwitchRoutes ==
  [scan_ports              |-> Route({"get_ports"}, FALSE),
   send_reboot             |-> Route({"reboot"}, FALSE),
   scan_mac_address_vlan   |-> Route({"read_mac_address_vlan"}, FALSE),
   scan_all_vlan_list      |-> Route({"read_all_vlan_info"}, TRUE)]
PortRoutes ==
  [scan_mac_address_port   |-> Route({"read_mac_address_port"}, FALSE),
   scan_vlan               |-> Route({"read_port_vlan_info"}, TRUE)]
Routes == PonRoutes @@ SwitchRoutes @@ PortRoutes

Fine == [code |-> 200, status |-> 1]

(* error is what the device does, "none" if it answers.  The list of ONUs gets its
   size before it is rendered: what fails once it has begun cuts the answer short. *)
Answer(route, kind, error, begun) ==
  LET r == Routes[route]
      lacking == \E m \in r.methods : ~Provides(kind, m)
  IN  CASE kind = "unknown" -> Caught("type")
        [] lacking /\ kind # "unknown" -> Caught("attribute")
        [] error = "none" -> Fine
        [] ~r.lazy /\ route = "read_onu_vlan_info" /\ error = "unsupported" -> Fine
        [] ~r.lazy \/ (route = "scan_onu_list" /\ ~begun) -> Caught(error)
        [] route = "scan_onu_list" /\ begun -> [Fine EXCEPT !.status = 0]
        [] OTHER -> Caught("other")

(* toggle_port: the number of SNMP in the request comes before the one of the row. *)
TogglePort(state, snmpNum, num) ==
  IF state \notin {"up", "down"} THEN [code |-> 400, port |-> 0, up |-> FALSE]
  ELSE [code |-> 200, port |-> IF snmpNum > 0 THEN snmpNum ELSE num, up |-> state = "up"]

(* What remove_from_olt asks of the rows before it asks the device. *)
RemovalAllowed(passed, parent, extra) == passed \/ (parent /\ extra)

-----------------------------------------------------------------------------
(* zbx_monitoring_event.  status is the number in the request; one that is missing,
   or is no number, counts as 0. *)

StatusOf(number) == CASE number = 0 -> "up" [] number = 1 -> "down" [] OTHER -> "undefined"
MonitoringEvent(ip, found, number, noticeable, group, profiles) ==
  CASE ip # "valid" -> [code |-> 400, saved |-> "nothing", told |-> {}]
    [] ip = "valid" /\ ~found -> [code |-> 404, saved |-> "nothing", told |-> {}]
    [] OTHER -> [code |-> 200, saved |-> StatusOf(number),
                 told |-> IF noticeable /\ group THEN profiles ELSE {}]

-----------------------------------------------------------------------------
(* Lists.  below and above give the addresses under one and over it, both with
   itself; devices is a set of [id, addr, group]. *)

(* filter_devices_by_addr: all devices of the locality of the address; an address
   in no locality does not filter. *)
ByAddress(devices, addr, above, below, isLocality) ==
  LET localities == {a \in above[addr] : isLocality[a]} IN
  IF localities = {} THEN devices
  ELSE LET l == CHOOSE l \in localities : TRUE IN {d \in devices : d.addr \in below[l]}

(* FilterQuerySetMixin: groups are the ones the user may see. *)
Visible(devices, superuser, groups) ==
  IF superuser THEN devices ELSE {d \in devices : d.group \in groups}
Wanted(house, street, address) ==
  IF house > 0 THEN house ELSE IF street > 0 THEN street ELSE IF address > 0 THEN address ELSE 0
Listing(devices, superuser, groups, house, street, address, above, below, isLocality) ==
  LET seen == Visible(devices, superuser, groups)
      addr == Wanted(house, street, address)
  IN  IF addr = 0 THEN seen ELSE ByAddress(seen, addr, above, below, isLocality)
=============================================================================
