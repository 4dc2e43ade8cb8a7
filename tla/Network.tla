------------------------------ MODULE Network ------------------------------
(***************************************************************************)
(* What talks to the equipment: the leases of subscribers with the RADIUS  *)
(* server between the access server and the billing, and the registration  *)
(* of ONUs on a fiber.  They share no state, so they are explored side by  *)
(* side, as Offices does: the one named by scene moves.  Leases is taken   *)
(* with a scene as its parameter: customers known by their ports, and      *)
(* guests.                                                                 *)
(***************************************************************************)
EXTENDS Integers, FiniteSets

CONSTANTS
  (* Leases; of each scene those of the second line. *)
  NoCustomer, Nobody, RadiusThreads, StaleAge, LeaseFaults, MaxTasks,
  CPE, Customers, Owner, Opt82, Inet, Guest, MaxPackets,
  (* ONUs. *)
  Devices, NoDevice, ZteSerial, Capacity, OltThreads, NoThread, Host, OltRequests, OnuFaults

VARIABLES scene,
  lease, active, served, bras, net, tasks, web, disturbed, heard, budget,
  olt, row, lock, oWeb, oTasks, crossed, doubtful, oBudget

-----------------------------------------------------------------------------
(* RADIUS requests are served one at a time: Leases says what may overlap. *)
RadiusScenes == {"leases", "guests"}
AtOnce == 1
Radius(sc) == INSTANCE Leases WITH
  CPE <- CPE[sc], Customers <- Customers[sc], Owner <- Owner[sc], Opt82 <- Opt82[sc],
  Inet <- Inet[sc], Guest <- Guest[sc], Web <- RadiusThreads, MaxFaults <- LeaseFaults,
  MaxInFlight <- AtOnce, MaxPackets <- MaxPackets[sc]

(* The threads that talk to the OLT are on one host, so that they share its lock. *)
HostOf == [t \in OltThreads |-> Host]
Fiber == INSTANCE OnuRegister WITH
  Web <- OltThreads, Hosts <- {Host}, MaxInFlight <- OltRequests,
  MaxFaults <- OnuFaults, web <- oWeb, tasks <- oTasks, budget <- oBudget

(* What the components assume of their constants. *)
ASSUME NetworkAssumption ==
  (\A sc \in RadiusScenes : Radius(sc)!LeaseAssumption) /\ Fiber!OnuAssumption

(* No customer has two devices on his ports. *)
OneDeviceEach ==
  \A sc \in RadiusScenes : \A x, y \in CPE[sc] :
    Radius(sc)!Known(x) /\ Radius(sc)!Known(y) /\ Owner[sc][x] = Owner[sc][y] => x = y

-----------------------------------------------------------------------------
leaseVars == <<lease, active, served, bras, net, tasks, web, disturbed, heard, budget>>
onuVars   == <<olt, row, lock, oWeb, oTasks, crossed, doubtful, oBudget>>
vars == <<scene, leaseVars, onuVars>>

Start(scenes) ==
  /\ scene \in scenes
  /\ IF scene = "guests" THEN Radius("guests")!Init ELSE Radius("leases")!Init
  /\ Fiber!Init
Init == Start(RadiusScenes \cup {"onus"})

Next ==
  \/ /\ \/ scene = "leases" /\ Radius("leases")!Next
        \/ scene = "guests" /\ Radius("guests")!Next
     /\ UNCHANGED <<scene, onuVars>>
  \/ scene = "onus" /\ Fiber!Next /\ UNCHANGED <<scene, leaseVars>>

Spec == Init /\ [][Next]_vars

(* Only the ONUs, for a run about them. *)
OnuSpec == Start({"onus"}) /\ [][Next]_vars

-----------------------------------------------------------------------------
(* The properties of the components, each of the scenes it is about. *)

(* Every variable of the component that moves keeps its type; a session without a
   customer is one of a guest address. *)
TypeOK ==
  /\ scene = "leases" => Radius("leases")!TypeOK
  /\ scene = "guests" => Radius("guests")!TypeOK
  /\ scene = "onus" => Fiber!TypeOK

(* An internet address is used by one customer only when requests are served
   one at a time, but for the records the ghost names. *)
OneCustomerPerAddress ==
  /\ scene = "leases" => Radius("leases")!OneCustomerPerAddress
  /\ scene = "guests" => Radius("guests")!OneCustomerPerAddress

(* Leases of sessions that were heard of are not released. *)
HeardIsNotReleased ==
  [][/\ scene = "leases" => Radius("leases")!HeardStep
     /\ scene = "guests" => Radius("guests")!HeardStep]_vars

(* ONUs, with threads on one host: an ONU has one number, and a row has the number of
   its own ONU, but for the rows the ghost names. *)
RecordIsOwn == scene = "onus" => Fiber!RecordIsOwn
(* A registration takes a free number, and a removal its own ONU, whatever staff typed and
   whatever falls between its check and its lock, but for another removal of the
   number it checked. *)
NumbersAreOwn == [][scene = "onus" => Fiber!RegisterStep /\ Fiber!RemoveStep]_vars

(* What the doc of unregister_device_task says of the ONU of a removed device. *)
RemovedIsUnregistered == Fiber!RemovedIsUnregistered
=============================================================================
