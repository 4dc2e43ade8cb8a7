------------------------------- MODULE Leases -------------------------------
(***************************************************************************)
(* IP leases: who holds which address, as the billing records it           *)
(* (src/apps/networks) and as the access server (BRAS) lives it, with the  *)
(* RADIUS requests between them (src/apps/radiusapp/views.py).             *)
(*                                                                         *)
(* The authorization handler picks a free lease with a query that locks    *)
(* nothing and writes it by its key: a thread keeps what it picked in      *)
(* web[w].  Accounting packets travel in net: they are delayed, overtake   *)
(* each other, get lost and arrive twice.  No handler compares the id of   *)
(* the session, only address, MAC and customer.  The BRAS is external: it  *)
(* has at most one session of a device.                                    *)
(***************************************************************************)
EXTENDS Integers, FiniteSets

CONSTANTS
  CPE,            \* subscriber devices: each has its MAC and its RADIUS User-Name
  Customers,
  NoCustomer,     \* NULL of a customer
  Nobody,         \* NULL of a MAC and of a User-Name
  Owner,          \* whose port a device is plugged into, or NoCustomer
  Opt82,          \* devices whose requests carry option 82
  Inet, Guest,    \* the addresses of the two kinds of pool
  Web,            \* web server threads
  StaleAge,       \* two days, in ticks
  MaxFaults,      \* bound: operator actions, packets lost or doubled, changes of access
  MaxInFlight,    \* bound: RADIUS requests served at one time
  MaxPackets,     \* bound: packets under way
  MaxTasks        \* bound: tasks queued by accounting

Addresses == Inet \cup Guest

LeaseAssumption ==
  /\ NoCustomer \notin Customers /\ Nobody \notin CPE
  /\ Owner \in [CPE -> Customers \cup {NoCustomer}] /\ Opt82 \subseteq CPE
  /\ Inet \cap Guest = {}
  /\ IsFiniteSet(Web)
  /\ StaleAge \in Nat \ {0} /\ MaxFaults \in Nat /\ MaxInFlight \in Nat
  /\ MaxPackets \in Nat /\ MaxTasks \in Nat

VARIABLES
  lease,      \* the table networks_ip_leases
  active, served,  \* customers: BaseAccount.is_active, and has a current service
  bras,       \* the session of each device
  net,        \* accounting packets under way
  tasks,      \* queued celery tasks <<kind, device>>
  web,        \* the RADIUS request each thread works on, with what it read
  disturbed,  \* ghost: addresses whose record was changed under a session
  heard,      \* ghost: ticks since a packet of the device was accepted
  budget

access == <<active, served>>
vars   == <<lease, access, bras, net, tasks, web, disturbed, heard, budget>>

-----------------------------------------------------------------------------
(* Leases, sessions, threads. *)

Never == -1
Released(l) == [l EXCEPT !.cust = NoCustomer, !.mac = Nobody, !.uname = Nobody,
                         !.up = FALSE, !.age = Never]
(* reserve_leases: the rows of a new pool. *)
Reserved == [cust |-> NoCustomer, mac |-> Nobody, uname |-> Nobody,
             up |-> FALSE, dyn |-> TRUE, age |-> Never]

Known(x) == x \in Opt82 /\ Owner[x] # NoCustomer
IsAccess(c) == active[c] /\ served[c]

NoSession == [on |-> FALSE]
Live(x) == bras[x].on
Free == [op |-> "free"]
InFlight == Cardinality({w \in Web : web[w] # Free})
End(w) == web' = [web EXCEPT ![w] = Free]

(* Customer c was given the address, by a session or an answer under way. *)
Uses(c, a) ==
  \/ \E x \in CPE : bras[x].on /\ bras[x].addr = a /\ bras[x].cust = c
  \/ \E w \in Web : web[w].op = "answer" /\ web[w].addr = a /\ web[w].cust = c
InUse(a) == \E c \in Customers \cup {NoCustomer} : Uses(c, a)
(* What a write that asks nobody does to the addresses in use. *)
Disturb(table) ==
  disturbed' = disturbed \cup {a \in Addresses : InUse(a) /\ table[a].cust # lease[a].cust}
Rewrite(table) == lease' = table /\ Disturb(table)

Spend == budget > 0 /\ budget' = budget - 1

-----------------------------------------------------------------------------
(* Authorization. *)

Ask(w, x) ==
  /\ web[w] = Free /\ InFlight < MaxInFlight
  /\ ~Live(x)
  /\ \A v \in Web \ {w} : web[v] # Free => web[v].x # x
  /\ UNCHANGED <<lease, access, bras, net, tasks, disturbed, heard, budget>>

Answering(w, x, c, a, inet) ==
  web' = [web EXCEPT ![w] = [op |-> "answer", x |-> x, cust |-> c, addr |-> a, inet |-> inet]]

Mine(c, x) == {a \in Addresses : lease[a].cust = c /\ lease[a].mac \in {x, Nobody}}

(* By the port of option 82: a lease of the customer, whatever its state. *)
AuthKnown(w, x) ==
  /\ Known(x)
  /\ \E a \in Mine(Owner[x], x) : Answering(w, x, Owner[x], a, served[Owner[x]])
  /\ Ask(w, x)

AuthNew(w, x) ==
  /\ Known(x)
  /\ Mine(Owner[x], x) = {}
  /\ web' = [web EXCEPT ![w] =
       [op |-> "pick", x |-> x, cust |-> Owner[x], from |-> Inet, inet |-> served[Owner[x]]]]
  /\ Ask(w, x)

(* Without option 82: the lease that has the MAC. *)
OfMac(x) == {a \in Addresses : lease[a].mac = x /\ lease[a].cust # NoCustomer}
AuthByMac(w, x) ==
  /\ x \notin Opt82
  /\ \E a \in OfMac(x) : Answering(w, x, lease[a].cust, a, served[lease[a].cust])
  /\ Ask(w, x)

BugAuthGuest(w, x) ==                                 \* of any pool
  /\ ~Known(x)
  /\ x \in Opt82 \/ OfMac(x) = {}
  /\ \E a \in Addresses :
       /\ ~lease[a].up
       /\ web' = [web EXCEPT ![w] = [op |-> "mark", x |-> x, addr |-> a]]
  /\ Ask(w, x)

(* Nobody is known at that port, or by that MAC. *)
AuthGuest(w, x) ==
  /\ ~Known(x)
  /\ x \in Opt82 \/ OfMac(x) = {}
  /\ \E a \in Guest :
       /\ ~lease[a].up
       /\ web' = [web EXCEPT ![w] = [op |-> "mark", x |-> x, addr |-> a]]
  /\ Ask(w, x)

(* A lease that may be assigned to device x of customer c. *)
BugIsFree(l, c, x) == ~l.up
IsFree(l, c, x) ==
  /\ ~l.up
  /\ <<l.cust, l.mac>> \in {<<c, x>>, <<NoCustomer, Nobody>>}

Thread(w, op) == web[w].op = op /\ UNCHANGED <<access, bras, net, tasks, heard, budget>>

(* _find_and_assign_lease: the query ... *)
Pick(w) ==
  LET q == web[w]
      free == {a \in q.from : lease[a].dyn /\ IsFree(lease[a], q.cust, q.x)} IN
  /\ Thread(w, "pick")
  /\ \/ \E a \in free : web' = [web EXCEPT ![w] =
          [op |-> "assign", x |-> q.x, cust |-> q.cust, addr |-> a, inet |-> q.inet]]
     \/ free = {} /\ q.from = Inet /\ web' = [web EXCEPT ![w].from = Guest]
     \/ free = {} /\ q.from = Guest /\ End(w)
  /\ UNCHANGED <<lease, disturbed>>

(* ... and the update, by the id it returned.  The state is left as it is. *)
Assign(w) ==
  LET q == web[w] IN
  /\ Thread(w, "assign")
  /\ lease' = [lease EXCEPT ![q.addr] =
       [@ EXCEPT !.cust = q.cust, !.mac = q.x, !.uname = q.x, !.age = 0]]
  /\ Answering(w, q.x, q.cust, q.addr, q.inet)
  /\ UNCHANGED disturbed

(* _assign_global_guest_lease: the update, which leaves the customer ... *)
MarkGuest(w) ==
  LET q == web[w] IN
  /\ Thread(w, "mark")
  /\ lease' = [lease EXCEPT ![q.addr] =
       [@ EXCEPT !.mac = q.x, !.uname = q.x, !.up = TRUE, !.age = 0]]
  /\ web' = [web EXCEPT ![w] = [op |-> "again", x |-> q.x]]
  /\ UNCHANGED disturbed

(* ... and first(), which asks for a free guest lease a second time. *)
Again(w) ==
  /\ Thread(w, "again")
  /\ LET free == {a \in Guest : ~lease[a].up} IN
     \/ \E a \in free : Answering(w, web[w].x, NoCustomer, a, FALSE)
     \/ free = {} /\ End(w)
  /\ UNCHANGED <<lease, disturbed>>

(* Only an update tells the service of the session. *)
Packet(kind, x, a, inet) == [kind |-> kind, x |-> x, addr |-> a, inet |-> inet]
Send(p) == Cardinality(net \cup {p}) <= MaxPackets /\ net' = net \cup {p}

(* The BRAS gets the answer, opens the session and reports its start. *)
Answer(w) ==
  LET q == web[w] IN
  /\ web[w].op = "answer"
  /\ bras' = [bras EXCEPT ![q.x] =
       [on |-> TRUE, cust |-> q.cust, addr |-> q.addr, inet |-> q.inet]]
  /\ Send(Packet("start", q.x, q.addr, FALSE))
  /\ heard' = [heard EXCEPT ![q.x] = Never]
  /\ End(w)
  /\ UNCHANGED <<lease, access, tasks, disturbed, budget>>

-----------------------------------------------------------------------------
(* Accounting. *)

(* A packet arrives; the BRAS may repeat it. *)
Take(p) ==
  /\ p \in net
  /\ \/ net' = net \ {p} /\ UNCHANGED budget
     \/ net' = net /\ Spend

Accepted(p) ==
  heard' = IF Live(p.x) /\ bras[p.x].addr = p.addr THEN [heard EXCEPT ![p.x] = 0] ELSE heard

AcctStart(p) ==
  /\ p.kind = "start" /\ Take(p)
  /\ \/ /\ Known(p.x) /\ lease[p.addr].cust = Owner[p.x]
        /\ lease' = [lease EXCEPT ![p.addr] =
             [@ EXCEPT !.mac = p.x, !.uname = p.x, !.up = TRUE, !.age = 0]]
        /\ Accepted(p)
     \/ /\ ~Known(p.x) \/ lease[p.addr].cust # Owner[p.x]
        /\ UNCHANGED <<lease, heard>>
  /\ UNCHANGED <<access, bras, tasks, web, disturbed>>

(* By the address alone. *)
AcctStop(p) ==
  /\ p.kind = "stop" /\ Take(p)
  /\ lease' = [lease EXCEPT ![p.addr] = [@ EXCEPT !.up = FALSE, !.age = 0]]
  /\ UNCHANGED <<access, bras, tasks, web, disturbed, heard>>

IsMine(l, x) == l.mac = x /\ l.cust = Owner[x]

(* exists(): the row is this device's, or it will be. *)
AcctUpdate(w, p) ==
  /\ p.kind = "update" /\ Take(p)
  /\ web[w] = Free /\ InFlight < MaxInFlight
  /\ Known(p.x)
  /\ web' = [web EXCEPT ![w] =
       [op |-> IF IsMine(lease[p.addr], p.x) THEN "counters" ELSE "adopt",
        x |-> p.x, addr |-> p.addr, inet |-> p.inet, active |-> active[Owner[p.x]]]]
  /\ UNCHANGED <<lease, access, bras, tasks, disturbed, heard>>

(* No customer is found: an error. *)
AcctUpdateFails(p) ==
  /\ p.kind = "update" /\ Take(p)
  /\ ~Known(p.x)
  /\ UNCHANGED <<lease, access, bras, tasks, web, disturbed, heard>>

BugSynchronize(q) ==                                  \* never back to guest
  (IF ~q.inet /\ q.active /\ served[Owner[q.x]] THEN {<<"toInet", q.x>>} ELSE {})
    \cup {<<"check", q.x>>}

(* The session on the BRAS against the services of the customer. *)
Synchronize(q) ==
  (IF q.inet # (q.active /\ served[Owner[q.x]])
     THEN {<<IF q.inet THEN "toGuest" ELSE "toInet", q.x>>} ELSE {})
    \cup {<<"check", q.x>>}

Updated(w, op) ==
  LET q == web[w] IN
  /\ q.op = op
  /\ tasks' = tasks \cup Synchronize(q) /\ Cardinality(tasks') <= MaxTasks
  /\ Accepted(q)
  /\ End(w)
  /\ UNCHANGED <<access, bras, net, budget>>

BugCounters(w) ==                                     \* forgets last_update
  Updated(w, "counters") /\ UNCHANGED <<lease, disturbed>>

(* _update_counters: the same filter again. *)
Counters(w) ==
  LET q == web[w] IN
  /\ Updated(w, "counters")
  /\ lease' = IF IsMine(lease[q.addr], q.x) THEN [lease EXCEPT ![q.addr].age = 0] ELSE lease
  /\ UNCHANGED disturbed

(* Whatever the row says, it is this device's now. *)
Adopt(w) ==
  LET q == web[w] IN
  /\ Updated(w, "adopt")
  /\ Rewrite([lease EXCEPT ![q.addr] =
       [@ EXCEPT !.cust = Owner[q.x], !.mac = q.x, !.uname = q.x, !.up = TRUE, !.age = 0]])

-----------------------------------------------------------------------------
(* Celery tasks, and what the BRAS does with their requests. *)

Drop(x) ==
  /\ bras' = [bras EXCEPT ![x] = NoSession]
  /\ Send(Packet("stop", x, bras[x].addr, FALSE))
Ran(kind, x) ==
  /\ <<kind, x>> \in tasks
  /\ tasks' = tasks \ {<<kind, x>>}
  /\ UNCHANGED <<lease, access, web, disturbed, heard>>

(* The requests to the BRAS: done, refused (no session, or the service is
   already there) or timed out. *)
Coa(kind, x) ==
  /\ Ran(kind, x)
  /\ \/ Live(x) /\ bras' = [bras EXCEPT ![x].inet = (kind = "toInet")] /\ UNCHANGED budget
     \/ ~Live(x) /\ UNCHANGED <<bras, budget>>
     \/ Spend /\ UNCHANGED bras
  /\ UNCHANGED net
ChangeToInet(x) == Coa("toInet", x)
ChangeToGuest(x) == Coa("toGuest", x)

BugCheckLease(x) == Ran("check", x) /\ UNCHANGED <<bras, net, budget>>

(* check_if_lease_have_id_db_task: an orphan session is finished. *)
CheckLease(x) ==
  /\ Ran("check", x)
  /\ LET orphan == Live(x) /\ \A a \in Addresses : lease[a].uname # x IN
     \/ orphan /\ Drop(x) /\ UNCHANGED budget
     \/ ~orphan /\ UNCHANGED <<bras, net, budget>>
     \/ orphan /\ Spend /\ UNCHANGED <<bras, net>>

BugIsStale(l) == l.dyn /\ l.cust # NoCustomer /\ l.age >= StaleAge   \* guests forgotten
(* periodically_checks_for_stale_leases: one update. *)
IsStale(l) == l.dyn /\ l.age >= StaleAge
ReleaseStale ==
  /\ \E a \in Addresses : IsStale(lease[a])
  /\ Rewrite([a \in Addresses |-> IF IsStale(lease[a]) THEN Released(lease[a]) ELSE lease[a]])
  /\ UNCHANGED <<access, bras, net, tasks, web, heard, budget>>

-----------------------------------------------------------------------------
(* Operators, the external DHCP server, the billing. *)

ByHand == Spend /\ UNCHANGED <<access, bras, net, tasks, web, heard>>

(* CustomerIpLeaseModelViewSet.release, and DhcpLever's expiry and release. *)
Release(a) ==
  /\ lease[a] # Released(lease[a])
  /\ Rewrite([lease EXCEPT ![a] = Released(@)])
  /\ ByHand

(* CustomerIpLeaseModelViewSet.create: a static lease. *)
MakeStatic(a, c, m) ==
  /\ Rewrite([lease EXCEPT ![a] =
       [@ EXCEPT !.cust = c, !.mac = m, !.dyn = FALSE, !.up = TRUE, !.age = 0]])
  /\ ByHand

(* lease_commit_add_update: the DHCP server gave the address to the device. *)
DhcpCommit(a, x) ==
  /\ Known(x) /\ lease[a].dyn
  /\ Rewrite([lease EXCEPT ![a] =
       IF @.cust = Owner[x] THEN [@ EXCEPT !.age = 0]
       ELSE [@ EXCEPT !.cust = Owner[x], !.mac = x, !.age = 0]])
  /\ ByHand

(* free_session; or the line is cut. *)
Disconnect(x) ==
  /\ Live(x)
  /\ Drop(x)
  /\ UNCHANGED <<lease, access, tasks, web, disturbed, heard, budget>>

Interim(x) ==
  /\ Live(x)
  /\ Send(Packet("update", x, bras[x].addr, bras[x].inet))
  /\ UNCHANGED <<lease, access, bras, tasks, web, disturbed, heard, budget>>

Lose(p) ==
  /\ p \in net /\ net' = net \ {p}
  /\ Spend
  /\ UNCHANGED <<lease, access, bras, tasks, web, disturbed, heard>>

(* customer_service_post_pick: sessions the table knows change to inet. *)
PickService(c) ==
  /\ ~served[c] /\ Spend
  /\ served' = [served EXCEPT ![c] = TRUE]
  /\ tasks' = tasks \cup
       {<<"toInet", x>> : x \in {y \in CPE :
          \E a \in Addresses : lease[a].cust = c /\ lease[a].up /\ lease[a].uname = y}}
  /\ UNCHANGED <<lease, active, bras, net, web, disturbed, heard>>

LoseService(c) ==
  /\ served[c] /\ Spend
  /\ served' = [served EXCEPT ![c] = FALSE]
  /\ UNCHANGED <<lease, active, bras, net, tasks, web, disturbed, heard>>

SetActive(c) ==
  /\ Spend
  /\ active' = [active EXCEPT ![c] = ~@]
  /\ UNCHANGED <<lease, served, bras, net, tasks, web, disturbed, heard>>

Older(n) == IF n = Never \/ n = StaleAge THEN n ELSE n + 1
Tick ==
  /\ lease' = [a \in Addresses |-> [lease[a] EXCEPT !.age = Older(@)]]
  /\ heard' = [x \in CPE |-> Older(heard[x])]
  /\ UNCHANGED <<access, bras, net, tasks, web, disturbed, budget>>

-----------------------------------------------------------------------------
Init ==
  /\ lease = [a \in Addresses |-> Reserved]
  /\ active = [c \in Customers |-> TRUE] /\ served = [c \in Customers |-> TRUE]
  /\ bras = [x \in CPE |-> NoSession]
  /\ net = {} /\ tasks = {} /\ disturbed = {}
  /\ web = [w \in Web |-> Free]
  /\ heard = [x \in CPE |-> Never]
  /\ budget = MaxFaults

Auth(w, x) == AuthKnown(w, x) \/ AuthNew(w, x) \/ AuthByMac(w, x) \/ AuthGuest(w, x)
Serve(w) ==
  Pick(w) \/ Assign(w) \/ MarkGuest(w) \/ Again(w) \/ Answer(w) \/ Counters(w) \/ Adopt(w)
Acct(p) == AcctStart(p) \/ AcctStop(p) \/ AcctUpdateFails(p) \/ \E w \in Web : AcctUpdate(w, p)
RunTask(x) == ChangeToInet(x) \/ ChangeToGuest(x) \/ CheckLease(x)
Operator ==
  \/ \E a \in Addresses :
       \/ Release(a)
       \/ \E c \in Customers, m \in CPE \cup {Nobody} : MakeStatic(a, c, m)
       \/ \E x \in CPE : DhcpCommit(a, x)
  \/ \E c \in Customers : PickService(c) \/ LoseService(c) \/ SetActive(c)

Next ==
  \/ \E w \in Web : (\E x \in CPE : Auth(w, x)) \/ Serve(w)
  \/ \E p \in net : Acct(p) \/ Lose(p)
  \/ \E x \in CPE : RunTask(x) \/ Disconnect(x) \/ Interim(x)
  \/ ReleaseStale \/ Tick \/ Operator

(* Threads, workers and the clock go on, a session goes on reporting, and of
   the packets of a device one is taken in the end. *)
Fairness ==
  /\ WF_vars(Tick) /\ WF_vars(ReleaseStale)
  /\ \A w \in Web : WF_vars(Serve(w))
  /\ \A x \in CPE :
       /\ WF_vars(ChangeToInet(x)) /\ WF_vars(ChangeToGuest(x)) /\ SF_vars(CheckLease(x))
       /\ SF_vars(Interim(x)) /\ SF_vars(\E p \in net : p.x = x /\ Acct(p))

Spec == Init /\ [][Next]_vars
FairSpec == Spec /\ Fairness

-----------------------------------------------------------------------------
(* Properties. *)

LeaseRecord ==
  [cust : Customers \cup {NoCustomer}, mac : CPE \cup {Nobody}, uname : CPE \cup {Nobody},
   up : BOOLEAN, dyn : BOOLEAN, age : {Never} \cup (0..StaleAge)]
Session ==
  {NoSession} \cup
  [on : {TRUE}, cust : Customers \cup {NoCustomer}, addr : Addresses, inet : BOOLEAN]
Request ==
  {Free}
  \cup [op : {"pick"}, x : CPE, cust : Customers, from : {Inet, Guest}, inet : BOOLEAN]
  \cup [op : {"assign"}, x : CPE, cust : Customers, addr : Addresses, inet : BOOLEAN]
  \cup [op : {"mark"}, x : CPE, addr : Guest] \cup [op : {"again"}, x : CPE]
  \cup [op : {"answer"}, x : CPE, cust : Customers \cup {NoCustomer},
        addr : Addresses, inet : BOOLEAN]
  \cup [op : {"counters", "adopt"}, x : {y \in CPE : Known(y)}, addr : Addresses,
        inet : BOOLEAN, active : BOOLEAN]

(* The types of all variables; a request that goes on to write has found its
   customer (_find_customer), and a session without customer is one of
   a guest address (_assign_global_guest_lease). *)
TypeOK ==
  /\ lease \in [Addresses -> LeaseRecord]
  /\ active \in [Customers -> BOOLEAN] /\ served \in [Customers -> BOOLEAN]
  /\ bras \in [CPE -> Session]
  /\ net \subseteq [kind : {"start", "stop", "update"}, x : CPE, addr : Addresses, inet : BOOLEAN]
  /\ tasks \subseteq {"toInet", "toGuest", "check"} \X CPE
  /\ web \in [Web -> Request]
  /\ disturbed \subseteq Addresses
  /\ heard \in [CPE -> {Never} \cup (0..StaleAge)]
  /\ budget \in Nat
  /\ \A a \in Inet : ~Uses(NoCustomer, a)

(* With requests served one at a time, however packets are delayed, repeated
   or lost, an internet address is used by one customer only, unless its
   record was rewritten under a session: by an operator, by the DHCP server,
   by the release of stale leases or by a packet of an earlier session
   (_find_and_assign_lease, _acct_stop, _acct_update). *)
OneCustomerPerAddress ==
  \A a \in Inet \ disturbed : \A c, d \in Customers : Uses(c, a) /\ Uses(d, a) => c = d

(* The release of stale leases never takes the lease of a session a packet of
   which was accepted in the last two days (periodically_checks_for_stale_leases),
   whichever way it was accepted (_acct_start, _acct_update), if the record was
   not rewritten since. *)
HeardStep ==
  ReleaseStale =>
    \A x \in CPE : Live(x) /\ heard[x] \in 0..(StaleAge - 1) =>
      \/ bras[x].addr \in disturbed
      \/ lease'[bras[x].addr] = lease[bras[x].addr]
HeardIsNotReleased == [][HeardStep]_vars

(* The service of a session follows the access of its customer again and
   again, although a packet or a task of before may still say otherwise, a new
   session of a disabled customer starts with his service, and a request to the
   BRAS may time out (_acct_update, the receiver of post_pick in radiusapp/signals.py). *)
InSync(x) == Live(x) => bras[x].inet = IsAccess(Owner[x])
ServiceFollows == \A x \in CPE : Known(x) => []<>InSync(x)

(* A session that goes on is one the table knows by its User-Name, or it is
   dropped (check_if_lease_have_id_db_task). *)
NoOrphanSession ==
  \A x \in CPE : Known(x) =>
    (Live(x) ~> ~Live(x) \/ \E a \in Addresses : lease[a].uname = x)

(* A dynamic lease that is used by nobody is free again in the end, also one
   that was marked for a guest who was told another address or none, or whose
   stop was lost (_assign_global_guest_lease, the release of stale leases). *)
UnusedReturns ==
  \A a \in Addresses :
    lease[a].dyn ~> lease[a] = Reserved \/ InUse(a) \/ ~lease[a].dyn
=============================================================================
