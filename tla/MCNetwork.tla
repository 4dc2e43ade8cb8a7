----------------------------- MODULE MCNetwork -----------------------------
(* The constants of Network: devices of two customers who want the same address, a
   guest, and a fiber; and what its small instances do not tell apart.  The modules
   without a state are checked by the assumptions of MCTables. *)
EXTENDS Network, TLC, MCTables

CONSTANTS x1, x2, g1, c1, c2, c3, \* devices, customers
          i1, h1, h2,            \* addresses of internet and guest pools
          d1, d2                 \* ONUs that are not told apart

MCCPE       == ("leases" :> {x1, x2} @@ "guests" :> {g1})
MCCustomers == ("leases" :> {c1, c2} @@ "guests" :> {c3})
MCOwner     == ("leases" :> (x1 :> c1 @@ x2 :> c2) @@ "guests" :> (g1 :> NoCustomer))
MCOpt82     == ("leases" :> {x1, x2} @@ "guests" :> {})
MCInet      == ("leases" :> {i1} @@ "guests" :> {i1})
MCGuest     == ("leases" :> {} @@ "guests" :> {h1, h2})
MCPackets   == ("leases" :> 2 @@ "guests" :> 1)

ASSUME OneDeviceEach

(* The two customers change places with their devices. *)
Exchange == x1 :> x2 @@ x2 :> x1 @@ c1 :> c2 @@ c2 :> c1
Symmetry == Permutations(OltThreads) \cup Permutations({d1, d2}) \cup {Exchange}
=============================================================================
