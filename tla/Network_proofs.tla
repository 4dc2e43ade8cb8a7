--------------------------- MODULE Network_proofs ---------------------------
(***************************************************************************)
(* The properties of Network for every value of its constants.             *)
(*                                                                         *)
(* In a behaviour the component named by scene behaves as its own          *)
(* specification says and the other does not move.  The leases are proved  *)
(* about for any scene they may be taken with.                             *)
(***************************************************************************)
EXTENDS Network, FiniteSetTheorems, TLAPS

-----------------------------------------------------------------------------
(* Leases. *)

(* The sets and numbers of Leases are those of this module. *)
LEMMA RadiusOnFiniteSets ==
  ASSUME NEW sc \in RadiusScenes, NEW S
  PROVE  (Radius(sc)!IsFiniteSet(S) <=> IsFiniteSet(S)) /\ Radius(sc)!Cardinality(S) = Cardinality(S)
<1>1. Radius(sc)!IsFiniteSet(S) <=> IsFiniteSet(S)
  BY Zenon DEF Radius!IsFiniteSet, IsFiniteSet
<1>2. Radius(sc)!Cardinality(S) = Cardinality(S)
  BY Zenon DEF Radius!Cardinality, Cardinality
<1> QED BY <1>1, <1>2

(* What the requests of the threads are. *)
Ages(sc) == {Radius(sc)!Never} \cup (0..StaleAge)
NoOrCustomers(sc) == Customers[sc] \cup {NoCustomer}

LEMMA AgesAre ==
  ASSUME NEW sc \in RadiusScenes, Radius(sc)!LeaseAssumption
  PROVE  /\ Radius(sc)!Never \in Ages(sc) /\ 0 \in Ages(sc)
         /\ \A n \in Ages(sc) : Radius(sc)!Older(n) \in Ages(sc)
<1>1. StaleAge \in Nat \ {0}
  BY DEF Radius!LeaseAssumption
<1> QED BY <1>1 DEF Ages, Radius!Never, Radius!Older

LEMMA LeaseFields ==
  ASSUME NEW sc \in RadiusScenes PROVE
  Radius(sc)!LeaseRecord = [cust : NoOrCustomers(sc), mac : CPE[sc] \cup {Nobody},
                 uname : CPE[sc] \cup {Nobody},
                 up : BOOLEAN, dyn : BOOLEAN, age : Ages(sc)]
BY DEF Radius!LeaseRecord, Ages, NoOrCustomers
Rows(sc) == [cust : NoOrCustomers(sc), mac : CPE[sc] \cup {Nobody}, uname : CPE[sc] \cup {Nobody},
         up : BOOLEAN, dyn : BOOLEAN, age : Ages(sc)]
LEMMA RowsAre ==
  ASSUME NEW sc \in RadiusScenes PROVE
  Radius(sc)!LeaseRecord = Rows(sc)
BY LeaseFields DEF Rows

(* The request of each operation has its fields. *)
LEMMA RequestShape ==
  ASSUME NEW sc \in RadiusScenes PROVE
  /\ Radius(sc)!Free \in Radius(sc)!Request /\ Radius(sc)!Free.op = "free"
  /\ \A q \in Radius(sc)!Request : q.op = "pick" =>
       q \in [op : {"pick"}, x : CPE[sc], cust : Customers[sc], from : {Inet[sc], Guest[sc]},
           inet : BOOLEAN]
  /\ \A q \in Radius(sc)!Request : q.op = "assign" =>
       q \in [op : {"assign"}, x : CPE[sc], cust : Customers[sc], addr : Radius(sc)!Addresses,
           inet : BOOLEAN]
  /\ \A q \in Radius(sc)!Request : q.op = "mark" => q \in [op : {"mark"}, x : CPE[sc], addr : Guest[sc]]
  /\ \A q \in Radius(sc)!Request : q.op = "again" => q \in [op : {"again"}, x : CPE[sc]]
  /\ \A q \in Radius(sc)!Request : q.op = "answer" =>
       q \in [op : {"answer"}, x : CPE[sc], cust : Customers[sc] \cup {NoCustomer},
           addr : Radius(sc)!Addresses,
              inet : BOOLEAN]
  /\ \A q \in Radius(sc)!Request : q.op \in {"counters", "adopt"} =>
       q \in [op : {"counters", "adopt"}, x : {y \in CPE[sc] : Radius(sc)!Known(y)},
           addr : Radius(sc)!Addresses,
              inet : BOOLEAN, active : BOOLEAN]
<1>1. Radius(sc)!Free \in Radius(sc)!Request /\ Radius(sc)!Free.op = "free"
  BY DEF Radius!Request, Radius!Free
<1>2. \A q \in Radius(sc)!Request : q.op = "pick" =>
       q \in [op : {"pick"}, x : CPE[sc], cust : Customers[sc], from : {Inet[sc], Guest[sc]},
           inet : BOOLEAN]
  BY DEF Radius!Request, Radius!Free
<1>3. \A q \in Radius(sc)!Request : q.op = "assign" =>
       q \in [op : {"assign"}, x : CPE[sc], cust : Customers[sc], addr : Radius(sc)!Addresses,
           inet : BOOLEAN]
  BY DEF Radius!Request, Radius!Free
<1>4. \A q \in Radius(sc)!Request : q.op = "mark"
          => q \in [op : {"mark"}, x : CPE[sc], addr : Guest[sc]]
  BY DEF Radius!Request, Radius!Free
<1>5. \A q \in Radius(sc)!Request : q.op = "again" => q \in [op : {"again"}, x : CPE[sc]]
  BY DEF Radius!Request, Radius!Free
<1>6. \A q \in Radius(sc)!Request : q.op = "answer" =>
       q \in [op : {"answer"}, x : CPE[sc], cust : Customers[sc] \cup {NoCustomer},
           addr : Radius(sc)!Addresses,
              inet : BOOLEAN]
  BY DEF Radius!Request, Radius!Free
<1>7. \A q \in Radius(sc)!Request : q.op \in {"counters", "adopt"} =>
       q \in [op : {"counters", "adopt"}, x : {y \in CPE[sc] : Radius(sc)!Known(y)},
           addr : Radius(sc)!Addresses,
              inet : BOOLEAN, active : BOOLEAN]
  BY DEF Radius!Request, Radius!Free
<1> QED BY <1>1, <1>2, <1>3, <1>4, <1>5, <1>6, <1>7

LEMMA LeasesInit ==
  ASSUME NEW sc \in RadiusScenes, Radius(sc)!LeaseAssumption, Radius(sc)!Init
  PROVE  Radius(sc)!TypeOK
<1>l. Radius(sc)!LeaseRecord = [cust : NoOrCustomers(sc), mac : CPE[sc] \cup {Nobody},
                              uname : CPE[sc] \cup {Nobody}, up : BOOLEAN, dyn : BOOLEAN,
                                  age : Ages(sc)]
  BY LeaseFields
<1>1. lease \in [Radius(sc)!Addresses -> Radius(sc)!LeaseRecord]
  BY AgesAre, <1>l DEF Radius!Init, Radius!Reserved, NoOrCustomers
<1>2. /\ active \in [Customers[sc] -> BOOLEAN] /\ served \in [Customers[sc] -> BOOLEAN]
      /\ bras \in [CPE[sc] -> Radius(sc)!Session]
      /\ net = {} /\ tasks = {} /\ disturbed = {}
  BY DEF Radius!Init, Radius!Session
<1>3. web \in [RadiusThreads -> Radius(sc)!Request]
  BY DEF Radius!Init, Radius!Request
<1>4. heard \in [CPE[sc] -> {Radius(sc)!Never} \cup (0..StaleAge)] /\ budget \in Nat
  BY DEF Radius!Init, Radius!LeaseAssumption
<1>5. \A a \in Inet[sc] : ~Radius(sc)!Uses(NoCustomer, a)
  BY DEF Radius!Init, Radius!Uses, Radius!NoSession, Radius!Free
<1> QED BY <1>1, <1>2, <1>3, <1>4, <1>5 DEF Radius!TypeOK

(* Who uses an address is told by the sessions and the answers under way. *)
LEMMA UsesKept ==
  ASSUME NEW sc \in RadiusScenes, \A x \in CPE[sc] : bras'[x].on =>
           bras[x].on /\ bras'[x].addr = bras[x].addr /\ bras'[x].cust = bras[x].cust,
         \A w \in RadiusThreads : web'[w].op = "answer" => web'[w] = web[w],
         NEW c, NEW a
  PROVE  Radius(sc)!Uses(c, a)' => Radius(sc)!Uses(c, a)
BY DEF Radius!Uses

(* What TypeOK says, with a name for each part a step may disturb. *)
LeasesTyped(sc, l) == l \in [Radius(sc)!Addresses -> Radius(sc)!LeaseRecord]
AccessTyped(sc, ac, se) == ac \in [Customers[sc] -> BOOLEAN] /\ se \in [Customers[sc] -> BOOLEAN]
SessionsTyped(sc, b) == b \in [CPE[sc] -> Radius(sc)!Session]
NetTyped(sc, n) ==
  n \subseteq [kind : {"start", "stop", "update"}, x : CPE[sc], addr : Radius(sc)!Addresses,
      inet : BOOLEAN]
TasksTyped(sc, t) == t \subseteq {"toInet", "toGuest", "check"} \X CPE[sc]
RequestsTyped(sc, w) == w \in [RadiusThreads -> Radius(sc)!Request]
HeardTyped(sc, h) == h \in [CPE[sc] -> Ages(sc)]
NoneOnInet(sc) == \A a \in Inet[sc] : ~Radius(sc)!Uses(NoCustomer, a)

LEMMA TypeParts ==
  ASSUME NEW sc \in RadiusScenes PROVE
  Radius(sc)!TypeOK <=>
    /\ LeasesTyped(sc, lease) /\ AccessTyped(sc, active, served) /\ SessionsTyped(sc, bras)
    /\ NetTyped(sc, net) /\ TasksTyped(sc, tasks) /\ RequestsTyped(sc, web)
    /\ disturbed \subseteq Radius(sc)!Addresses /\ HeardTyped(sc, heard) /\ budget \in Nat
    /\ NoneOnInet(sc)
BY DEF Radius!TypeOK, LeasesTyped, AccessTyped, SessionsTyped, NetTyped, TasksTyped, RequestsTyped,
       HeardTyped, NoneOnInet, Ages

LEMMA TypePartsNext ==
  ASSUME NEW sc \in RadiusScenes PROVE
  Radius(sc)!TypeOK' <=>
    /\ LeasesTyped(sc, lease') /\ AccessTyped(sc, active', served') /\ SessionsTyped(sc, bras')
    /\ NetTyped(sc, net') /\ TasksTyped(sc, tasks') /\ RequestsTyped(sc, web')
    /\ disturbed' \subseteq Radius(sc)!Addresses /\ HeardTyped(sc, heard') /\ budget' \in Nat
    /\ NoneOnInet(sc)'
BY DEF Radius!TypeOK, LeasesTyped, AccessTyped, SessionsTyped, NetTyped, TasksTyped, RequestsTyped,
       HeardTyped, NoneOnInet, Ages

(* Helpers of the actions. *)
LEMMA Spent == ASSUME NEW sc \in RadiusScenes, budget \in Nat, Radius(sc)!Spend PROVE budget' \in Nat
BY DEF Radius!Spend

LEMMA Ended ==
  ASSUME NEW sc \in RadiusScenes, RequestsTyped(sc, web), NEW w \in RadiusThreads, Radius(sc)!End(w)
  PROVE  /\ RequestsTyped(sc, web') /\ web'[w] = Radius(sc)!Free
         /\ \A v \in RadiusThreads \ {w} : web'[v] = web[v]
         /\ \A v \in RadiusThreads : web'[v].op = "answer" => web'[v] = web[v]
BY RequestShape DEF RequestsTyped, Radius!End

LEMMA Requested ==
  ASSUME NEW sc \in RadiusScenes, RequestsTyped(sc, web), NEW w \in RadiusThreads,
         NEW q \in Radius(sc)!Request, web' = [web EXCEPT ![w] = q]
  PROVE  /\ RequestsTyped(sc, web') /\ web'[w] = q
         /\ \A v \in RadiusThreads \ {w} : web'[v] = web[v]
         /\ ~(q.op = "answer") => \A v \in RadiusThreads : web'[v].op = "answer" => web'[v] = web[v]
BY DEF RequestsTyped

(* The actions that answer a device: to a customer, or with a guest address. *)
LEMMA AnsweringTyped ==
  ASSUME NEW sc \in RadiusScenes, RequestsTyped(sc, web), NoneOnInet(sc), bras' = bras,
         NEW w \in RadiusThreads, NEW x \in CPE[sc],
         NEW c \in NoOrCustomers(sc), NEW a \in Radius(sc)!Addresses, NEW inet \in BOOLEAN,
         Radius(sc)!Answering(w, x, c, a, inet), Radius(sc)!LeaseAssumption, c = NoCustomer
             => a \in Guest[sc]
  PROVE  RequestsTyped(sc, web') /\ NoneOnInet(sc)'
<1> DEFINE q == [op |-> "answer", x |-> x, cust |-> c, addr |-> a, inet |-> inet]
<1>1. q \in Radius(sc)!Request
  BY DEF Radius!Request, NoOrCustomers
<1>2. web' = [web EXCEPT ![w] = q]
  BY DEF Radius!Answering
<1> HIDE DEF q
<1>3. RequestsTyped(sc, web') /\ web'[w] = q /\ \A v \in RadiusThreads \ {w} : web'[v] = web[v]
  BY <1>1, <1>2, Requested
<1>4. ASSUME NEW b \in Inet[sc], Radius(sc)!Uses(NoCustomer, b)' PROVE FALSE
  <2>1. ~Radius(sc)!Uses(NoCustomer, b)
    BY DEF NoneOnInet
  <2>2. PICK v \in RadiusThreads : web'[v].op = "answer" /\ web'[v].addr = b
            /\ web'[v].cust = NoCustomer
    BY <1>4, <2>1 DEF Radius!Uses
  <2>3. v = w
    BY <1>3, <2>1, <2>2 DEF Radius!Uses
  <2>4. a = b /\ c = NoCustomer
    BY <1>3, <2>2, <2>3 DEF q
  <2> QED BY <2>4 DEF Radius!LeaseAssumption
<1> QED BY <1>3, <1>4 DEF NoneOnInet

LEMMA NoneOnInetKept ==
  ASSUME NEW sc \in RadiusScenes, NoneOnInet(sc),
         \A x \in CPE[sc] : bras'[x].on =>
           bras[x].on /\ bras'[x].addr = bras[x].addr /\ bras'[x].cust = bras[x].cust,
         \A w \in RadiusThreads : web'[w].op = "answer" => web'[w] = web[w]
  PROVE  NoneOnInet(sc)'
<1>1. \A a \in Inet[sc] : Radius(sc)!Uses(NoCustomer, a)' => Radius(sc)!Uses(NoCustomer, a)
  BY UsesKept
<1> QED BY <1>1 DEF NoneOnInet

LEMMA AuthTypes ==
  ASSUME NEW sc \in RadiusScenes, Radius(sc)!LeaseAssumption, Radius(sc)!TypeOK,
         NEW w \in RadiusThreads,
         NEW x \in CPE[sc], Radius(sc)!Auth(w, x)
  PROVE  Radius(sc)!TypeOK'
<1>l. Radius(sc)!LeaseRecord = [cust : NoOrCustomers(sc), mac : CPE[sc] \cup {Nobody},
                              uname : CPE[sc] \cup {Nobody}, up : BOOLEAN, dyn : BOOLEAN,
                                  age : Ages(sc)]
  BY LeaseFields
<1>0. /\ LeasesTyped(sc, lease) /\ AccessTyped(sc, active, served) /\ RequestsTyped(sc, web)
             /\ NoneOnInet(sc)
  BY TypeParts
<1>1. Radius(sc)!Ask(w, x)
  BY DEF Radius!Auth, Radius!AuthKnown, Radius!AuthNew, Radius!AuthByMac, Radius!AuthGuest
<1>2. /\ lease' = lease /\ active' = active /\ served' = served /\ bras' = bras /\ net' = net
      /\ tasks' = tasks /\ disturbed' = disturbed /\ heard' = heard /\ budget' = budget
  BY <1>1 DEF Radius!Ask, Radius!access
<1>3. Radius(sc)!Known(x) => Owner[sc][x] \in Customers[sc] /\ served[Owner[sc][x]] \in BOOLEAN
  BY <1>0 DEF Radius!Known, Radius!LeaseAssumption, AccessTyped
<1>4. RequestsTyped(sc, web') /\ NoneOnInet(sc)'
  <2>1. CASE Radius(sc)!AuthKnown(w, x)
    <3>1. PICK a \in Radius(sc)!Mine(Owner[sc][x], x) :
              Radius(sc)!Answering(w, x, Owner[sc][x], a, served[Owner[sc][x]])
      BY <2>1 DEF Radius!AuthKnown
    <3>2. a \in Radius(sc)!Addresses /\ Owner[sc][x] \in NoOrCustomers(sc)
              /\ ~(Owner[sc][x] = NoCustomer)
      BY <1>3, <2>1 DEF Radius!AuthKnown, Radius!Mine, NoOrCustomers, Radius!Known
    <3> QED BY <1>0, <1>2, <1>3, <2>1, <3>1, <3>2, AnsweringTyped DEF Radius!AuthKnown
  <2>2. CASE Radius(sc)!AuthNew(w, x)
    <3> DEFINE q == [op |-> "pick", x |-> x, cust |-> Owner[sc][x], from |-> Inet[sc],
                     inet |-> served[Owner[sc][x]]]
    <3>1. q \in Radius(sc)!Request /\ ~(q.op = "answer") /\ web' = [web EXCEPT ![w] = q]
      BY <1>3, <2>2 DEF Radius!AuthNew, Radius!Request
    <3> HIDE DEF q
    <3>2. RequestsTyped(sc, web') /\ \A v \in RadiusThreads : web'[v].op = "answer" => web'[v] = web[v]
      BY <1>0, <3>1, Requested
    <3> QED BY <1>0, <1>2, <3>2, NoneOnInetKept
  <2>3. CASE Radius(sc)!AuthByMac(w, x)
    <3>1. PICK a \in Radius(sc)!OfMac(x) :
            Radius(sc)!Answering(w, x, lease[a].cust, a, served[lease[a].cust])
      BY <2>3 DEF Radius!AuthByMac
    <3>2. a \in Radius(sc)!Addresses /\ lease[a] \in Radius(sc)!LeaseRecord
              /\ ~(lease[a].cust = NoCustomer)
      BY <1>0, <3>1 DEF Radius!OfMac, LeasesTyped
    <3>3. lease[a].cust \in Customers[sc] /\ lease[a].cust \in NoOrCustomers(sc)
      BY <3>2, <1>l DEF NoOrCustomers
    <3>4. served[lease[a].cust] \in BOOLEAN
      BY <1>0, <3>3 DEF AccessTyped
    <3> QED BY <1>0, <1>2, <3>1, <3>2, <3>3, <3>4, AnsweringTyped
  <2>4. CASE Radius(sc)!AuthGuest(w, x)
    <3>1. PICK a \in Guest[sc] : web' = [web EXCEPT ![w] = [op |-> "mark", x |-> x, addr |-> a]]
      BY <2>4 DEF Radius!AuthGuest
    <3> DEFINE q == [op |-> "mark", x |-> x, addr |-> a]
    <3>2. q \in Radius(sc)!Request /\ ~(q.op = "answer") /\ web' = [web EXCEPT ![w] = q]
      BY <3>1 DEF Radius!Request
    <3> HIDE DEF q
    <3>3. RequestsTyped(sc, web') /\ \A v \in RadiusThreads : web'[v].op = "answer" => web'[v] = web[v]
      BY <1>0, <3>2, Requested
    <3> QED BY <1>0, <1>2, <3>3, NoneOnInetKept
  <2> QED BY <2>1, <2>2, <2>3, <2>4 DEF Radius!Auth
<1> QED BY <1>2, <1>4, TypeParts, TypePartsNext

(* A lease that is released. *)
LEMMA ReleasedFields ==
  ASSUME NEW sc \in RadiusScenes, Radius(sc)!LeaseAssumption, NEW l \in Radius(sc)!LeaseRecord
  PROVE  /\ Radius(sc)!Released(l) \in Radius(sc)!LeaseRecord
         /\ Radius(sc)!Released(l).cust = NoCustomer /\ Radius(sc)!Released(l).dyn = l.dyn
                /\ Radius(sc)!Released(l).age = Radius(sc)!Never
<1>1. Radius(sc)!Never \in Ages(sc) /\ NoCustomer \in NoOrCustomers(sc)
  BY AgesAre DEF NoOrCustomers
<1>2. Radius(sc)!LeaseRecord = Rows(sc)
  BY RowsAre
<1>3. l \in Rows(sc)
  BY <1>2
<1> DEFINE r == [l EXCEPT !.cust = NoCustomer, !.mac = Nobody, !.uname = Nobody,
                          !.up = FALSE, !.age = Radius(sc)!Never]
<1>4. r \in Rows(sc) /\ r.cust = NoCustomer /\ r.dyn = l.dyn /\ r.age = Radius(sc)!Never
  BY <1>1, <1>3 DEF Rows
<1>5. Radius(sc)!Released(l) = r
  BY DEF Radius!Released
<1> HIDE DEF r
<1> QED BY <1>2, <1>4, <1>5

(* A row of the table after the writes of the handlers. *)
LEMMA Written ==
  ASSUME NEW sc \in RadiusScenes, Radius(sc)!LeaseAssumption, LeasesTyped(sc, lease),
         NEW a \in Radius(sc)!Addresses, NEW c \in NoOrCustomers(sc),
         NEW m \in CPE[sc] \cup {Nobody}, NEW u \in CPE[sc] \cup {Nobody}
  PROVE  /\ LeasesTyped(sc, [lease EXCEPT ![a] = [@ EXCEPT !.cust = c, !.mac = m, !.uname = u, !.age = 0]])
         /\ LeasesTyped(sc, [lease EXCEPT ![a] =
              [@ EXCEPT !.cust = c, !.mac = m, !.uname = u, !.up = TRUE, !.age = 0]])
         /\ LeasesTyped(sc, [lease EXCEPT ![a] = [@ EXCEPT !.mac = m, !.uname = u, !.up = TRUE, !.age = 0]])
         /\ LeasesTyped(sc, [lease EXCEPT ![a] = [@ EXCEPT !.up = FALSE, !.age = 0]])
         /\ LeasesTyped(sc, [lease EXCEPT ![a].age = 0])
         /\ LeasesTyped(sc, [lease EXCEPT ![a] =
              [@ EXCEPT !.cust = c, !.mac = m, !.dyn = FALSE, !.up = TRUE, !.age = 0]])
         /\ LeasesTyped(sc, [lease EXCEPT ![a] = [@ EXCEPT !.age = 0]])
         /\ LeasesTyped(sc, [lease EXCEPT ![a] = [@ EXCEPT !.cust = c, !.mac = m, !.age = 0]])
         /\ LeasesTyped(sc, [lease EXCEPT ![a] = Radius(sc)!Released(@)])
<1>1. lease[a] \in Radius(sc)!LeaseRecord
  BY DEF LeasesTyped
<1>2. /\ 0 \in Ages(sc) /\ Radius(sc)!Never \in Ages(sc) /\ NoCustomer \in NoOrCustomers(sc)
  BY AgesAre DEF NoOrCustomers
<1> DEFINE l == lease[a]
<1>3. \A r \in Radius(sc)!LeaseRecord : LeasesTyped(sc, [lease EXCEPT ![a] = r])
  BY DEF LeasesTyped
<1>6. Radius(sc)!LeaseRecord = Rows(sc) /\ l \in Rows(sc)
  BY <1>1, RowsAre
<1>4. /\ [l EXCEPT !.cust = c, !.mac = m, !.uname = u, !.age = 0] \in Rows(sc)
      /\ [l EXCEPT !.cust = c, !.mac = m, !.uname = u, !.up = TRUE, !.age = 0] \in Rows(sc)
      /\ [l EXCEPT !.mac = m, !.uname = u, !.up = TRUE, !.age = 0] \in Rows(sc)
      /\ [l EXCEPT !.up = FALSE, !.age = 0] \in Rows(sc)
      /\ [l EXCEPT !.age = 0] \in Rows(sc)
      /\ [l EXCEPT !.cust = c, !.mac = m, !.dyn = FALSE, !.up = TRUE, !.age = 0] \in Rows(sc)
      /\ [l EXCEPT !.cust = c, !.mac = m, !.age = 0] \in Rows(sc)
  BY <1>2, <1>6 DEF Rows
<1>5. Radius(sc)!Released(l) \in Radius(sc)!LeaseRecord
  BY <1>1, ReleasedFields
<1> QED BY <1>3, <1>4, <1>5, <1>6

(* A session opens with what it was answered. *)
LEMMA AnswerUses ==
  ASSUME NEW sc \in RadiusScenes, Radius(sc)!TypeOK, NEW w \in RadiusThreads, Radius(sc)!Answer(w),
         NEW c,
         NEW a, Radius(sc)!Uses(c, a)'
  PROVE  Radius(sc)!Uses(c, a)
<1> DEFINE q == web[w]
<1>0. bras \in [CPE[sc] -> Radius(sc)!Session] /\ web \in [RadiusThreads -> Radius(sc)!Request]
  BY DEF Radius!TypeOK
<1>1. q.op = "answer" /\ q.x \in CPE[sc]
  BY <1>0, RequestShape DEF Radius!Answer
<1>2. /\ bras' = [bras EXCEPT ![q.x] = [on |-> TRUE, cust |-> q.cust, addr |-> q.addr, inet |-> q.inet]]
      /\ web' = [web EXCEPT ![w] = Radius(sc)!Free]
  BY DEF Radius!Answer, Radius!End
<1>3. web'[w].op = "free" /\ \A v \in RadiusThreads \ {w} : web'[v] = web[v]
  BY <1>0, <1>2, RequestShape
<1>4. \A y \in CPE[sc] \ {q.x} : bras'[y] = bras[y]
  BY <1>0, <1>2
<1>5. bras'[q.x].addr = q.addr /\ bras'[q.x].cust = q.cust
  BY <1>0, <1>1, <1>2
<1>6. CASE \E y \in CPE[sc] : bras'[y].on /\ bras'[y].addr = a /\ bras'[y].cust = c
  <2>1. PICK y \in CPE[sc] : bras'[y].on /\ bras'[y].addr = a /\ bras'[y].cust = c
    BY <1>6
  <2>2. CASE y = q.x
    BY <1>1, <1>5, <2>1, <2>2 DEF Radius!Uses
  <2>3. CASE y \in CPE[sc] \ {q.x}
    BY <1>4, <2>1, <2>3 DEF Radius!Uses
  <2> QED BY <2>2, <2>3
<1>7. CASE \E v \in RadiusThreads : web'[v].op = "answer" /\ web'[v].addr = a /\ web'[v].cust = c
  BY <1>3, <1>7 DEF Radius!Uses
<1> QED BY <1>6, <1>7 DEF Radius!Uses

LEMMA SendTyped ==
  ASSUME NEW sc \in RadiusScenes, NetTyped(sc, net), NEW kind \in {"start", "stop", "update"},
         NEW x \in CPE[sc],
         NEW a \in Radius(sc)!Addresses, NEW inet \in BOOLEAN,
             Radius(sc)!Send(Radius(sc)!Packet(kind, x, a, inet))
  PROVE  NetTyped(sc, net')
BY DEF NetTyped, Radius!Send, Radius!Packet

LEMMA AcceptedTyped ==
  ASSUME NEW sc \in RadiusScenes, HeardTyped(sc, heard), Radius(sc)!LeaseAssumption, NEW p,
         Radius(sc)!Accepted(p)
  PROVE  HeardTyped(sc, heard')
<1>1. 0 \in Ages(sc)
  BY AgesAre
<1> QED BY <1>1 DEF HeardTyped, Radius!Accepted

LEMMA SyncTyped ==
  ASSUME NEW sc \in RadiusScenes, TasksTyped(sc, tasks), NEW q, q.x \in CPE[sc],
         tasks' = tasks \cup Radius(sc)!Synchronize(q)
  PROVE  TasksTyped(sc, tasks')
<1>1. Radius(sc)!Synchronize(q) \subseteq {"toInet", "toGuest", "check"} \X CPE[sc]
  BY DEF Radius!Synchronize
<1> QED BY <1>1 DEF TasksTyped

LEMMA DisturbTyped ==
  ASSUME NEW sc \in RadiusScenes, disturbed \subseteq Radius(sc)!Addresses, NEW table,
         Radius(sc)!Disturb(table)
  PROVE  disturbed' \subseteq Radius(sc)!Addresses /\ disturbed \subseteq disturbed'
BY DEF Radius!Disturb

LEMMA ServeTypes ==
  ASSUME NEW sc \in RadiusScenes, Radius(sc)!LeaseAssumption, Radius(sc)!TypeOK,
         NEW w \in RadiusThreads,
         Radius(sc)!Serve(w)
  PROVE  Radius(sc)!TypeOK'
<1> DEFINE q == web[w]
<1>0. /\ LeasesTyped(sc, lease) /\ AccessTyped(sc, active, served) /\ SessionsTyped(sc, bras)
      /\ NetTyped(sc, net) /\ TasksTyped(sc, tasks) /\ RequestsTyped(sc, web)
      /\ disturbed \subseteq Radius(sc)!Addresses /\ HeardTyped(sc, heard) /\ budget \in Nat
      /\ NoneOnInet(sc)
  BY TypeParts
<1>q. q \in Radius(sc)!Request
  BY <1>0 DEF RequestsTyped
<1>1. CASE Radius(sc)!Pick(w)
  <2>1. q \in [op : {"pick"}, x : CPE[sc], cust : Customers[sc], from : {Inet[sc], Guest[sc]},
            inet : BOOLEAN]
    BY <1>1, <1>q, RequestShape DEF Radius!Pick, Radius!Thread
  <2>2. /\ lease' = lease /\ active' = active /\ served' = served /\ bras' = bras /\ net' = net
        /\ tasks' = tasks /\ disturbed' = disturbed /\ heard' = heard /\ budget' = budget
    BY <1>1 DEF Radius!Pick, Radius!Thread, Radius!access
  <2>3. RequestsTyped(sc, web') /\ \A v \in RadiusThreads : web'[v].op = "answer" => web'[v] = web[v]
    <3>1. CASE \E a \in q.from : web' = [web EXCEPT ![w] =
                [op |-> "assign", x |-> q.x, cust |-> q.cust, addr |-> a, inet |-> q.inet]]
      <4>1. PICK a \in q.from : web' = [web EXCEPT ![w] =
                [op |-> "assign", x |-> q.x, cust |-> q.cust, addr |-> a, inet |-> q.inet]]
        BY <3>1
      <4> DEFINE r == [op |-> "assign", x |-> q.x, cust |-> q.cust, addr |-> a, inet |-> q.inet]
      <4>2. r \in Radius(sc)!Request /\ ~(r.op = "answer") /\ web' = [web EXCEPT ![w] = r]
        BY <2>1, <4>1 DEF Radius!Request, Radius!Addresses
      <4> HIDE DEF r
      <4> QED BY <1>0, <4>2, Requested
    <3>2. CASE web' = [web EXCEPT ![w].from = Guest[sc]]
      <4> DEFINE r == [q EXCEPT !.from = Guest[sc]]
      <4>1. r \in Radius(sc)!Request /\ ~(r.op = "answer") /\ web' = [web EXCEPT ![w] = r]
        BY <2>1, <3>2 DEF Radius!Request
      <4> HIDE DEF r
      <4> QED BY <1>0, <4>1, Requested
    <3>3. CASE Radius(sc)!End(w)
      BY <1>0, <3>3, Ended
    <3> QED BY <1>1, <3>1, <3>2, <3>3 DEF Radius!Pick
  <2>4. NoneOnInet(sc)'
    BY <1>0, <2>2, <2>3, NoneOnInetKept
  <2> QED BY <1>0, <2>2, <2>3, <2>4, TypePartsNext
<1>2. CASE Radius(sc)!Assign(w)
  <2>1. q \in [op : {"assign"}, x : CPE[sc], cust : Customers[sc], addr : Radius(sc)!Addresses,
            inet : BOOLEAN]
    BY <1>2, <1>q, RequestShape DEF Radius!Assign, Radius!Thread
  <2>2. /\ active' = active /\ served' = served /\ bras' = bras /\ net' = net
        /\ tasks' = tasks /\ disturbed' = disturbed /\ heard' = heard /\ budget' = budget
    BY <1>2 DEF Radius!Assign, Radius!Thread, Radius!access
  <2>3. q.cust \in NoOrCustomers(sc) /\ ~(q.cust = NoCustomer) /\ q.x \in CPE[sc]
            /\ q.addr \in Radius(sc)!Addresses
    BY <2>1 DEF NoOrCustomers, Radius!LeaseAssumption
  <2>4. LeasesTyped(sc, lease')
    BY <1>0, <1>2, <2>3, Written DEF Radius!Assign
  <2>5. RequestsTyped(sc, web') /\ NoneOnInet(sc)'
    BY <1>0, <1>2, <2>1, <2>2, <2>3, AnsweringTyped DEF Radius!Assign
  <2> QED BY <1>0, <2>2, <2>4, <2>5, TypePartsNext
<1>3. CASE Radius(sc)!MarkGuest(w)
  <2>1. q \in [op : {"mark"}, x : CPE[sc], addr : Guest[sc]]
    BY <1>3, <1>q, RequestShape DEF Radius!MarkGuest, Radius!Thread
  <2>2. /\ active' = active /\ served' = served /\ bras' = bras /\ net' = net
        /\ tasks' = tasks /\ disturbed' = disturbed /\ heard' = heard /\ budget' = budget
    BY <1>3 DEF Radius!MarkGuest, Radius!Thread, Radius!access
  <2>3. LeasesTyped(sc, lease')
    <3>1. q.x \in CPE[sc] /\ q.addr \in Radius(sc)!Addresses /\ NoCustomer \in NoOrCustomers(sc)
      BY <2>1 DEF Radius!Addresses, NoOrCustomers
    <3> QED BY <1>0, <1>3, <3>1, Written DEF Radius!MarkGuest
  <2> DEFINE r == [op |-> "again", x |-> q.x]
  <2>4. r \in Radius(sc)!Request /\ ~(r.op = "answer") /\ web' = [web EXCEPT ![w] = r]
    BY <1>3, <2>1 DEF Radius!MarkGuest, Radius!Request
  <2> HIDE DEF r
  <2>5. RequestsTyped(sc, web') /\ \A v \in RadiusThreads : web'[v].op = "answer" => web'[v] = web[v]
    BY <1>0, <2>4, Requested
  <2>6. NoneOnInet(sc)'
    BY <1>0, <2>2, <2>5, NoneOnInetKept
  <2> QED BY <1>0, <2>2, <2>3, <2>5, <2>6, TypePartsNext
<1>4. CASE Radius(sc)!Again(w)
  <2>1. q \in [op : {"again"}, x : CPE[sc]]
    BY <1>4, <1>q, RequestShape DEF Radius!Again, Radius!Thread
  <2>2. /\ lease' = lease /\ active' = active /\ served' = served /\ bras' = bras /\ net' = net
        /\ tasks' = tasks /\ disturbed' = disturbed /\ heard' = heard /\ budget' = budget
    BY <1>4 DEF Radius!Again, Radius!Thread, Radius!access
  <2>3. RequestsTyped(sc, web') /\ NoneOnInet(sc)'
    <3>1. CASE \E a \in Guest[sc] : Radius(sc)!Answering(w, q.x, NoCustomer, a, FALSE)
      <4>1. PICK a \in Guest[sc] : Radius(sc)!Answering(w, q.x, NoCustomer, a, FALSE)
        BY <3>1
      <4>2. a \in Radius(sc)!Addresses /\ NoCustomer \in NoOrCustomers(sc) /\ q.x \in CPE[sc]
        BY <2>1 DEF Radius!Addresses, NoOrCustomers
      <4> QED BY <1>0, <2>2, <4>1, <4>2, AnsweringTyped
    <3>2. CASE Radius(sc)!End(w)
      <4>1. RequestsTyped(sc, web') /\ \A v \in RadiusThreads : web'[v].op = "answer"
                => web'[v] = web[v]
        BY <1>0, <3>2, Ended
      <4> QED BY <1>0, <2>2, <4>1, NoneOnInetKept
    <3> QED BY <1>4, <3>1, <3>2 DEF Radius!Again
  <2> QED BY <1>0, <2>2, <2>3, TypePartsNext
<1>5. CASE Radius(sc)!Answer(w)
  <2>1. q \in [op : {"answer"}, x : CPE[sc], cust : Customers[sc] \cup {NoCustomer},
            addr : Radius(sc)!Addresses,
               inet : BOOLEAN]
    BY <1>5, <1>q, RequestShape DEF Radius!Answer
  <2>2. /\ lease' = lease /\ active' = active /\ served' = served
        /\ tasks' = tasks /\ disturbed' = disturbed /\ budget' = budget
    BY <1>5 DEF Radius!Answer, Radius!access
  <2>3. SessionsTyped(sc, bras')
    BY <1>0, <1>5, <2>1 DEF Radius!Answer, SessionsTyped, Radius!Session
  <2>4. NetTyped(sc, net')
    BY <1>0, <1>5, <2>1, SendTyped DEF Radius!Answer
  <2>5. HeardTyped(sc, heard')
    BY <1>0, <1>5, <2>1, AgesAre DEF Radius!Answer, HeardTyped
  <2>6. RequestsTyped(sc, web')
    BY <1>0, <1>5, Ended DEF Radius!Answer
  <2>7. NoneOnInet(sc)'
    BY <1>0, <1>5, AnswerUses DEF NoneOnInet
  <2> QED BY <1>0, <2>2, <2>3, <2>4, <2>5, <2>6, <2>7, TypePartsNext
<1>6. CASE Radius(sc)!Counters(w) \/ Radius(sc)!Adopt(w)
  <2>1. Radius(sc)!Updated(w, "counters") \/ Radius(sc)!Updated(w, "adopt")
    BY <1>6 DEF Radius!Counters, Radius!Adopt
  <2>2. q.op \in {"counters", "adopt"} /\ q.x \in CPE[sc] /\ q.addr \in Radius(sc)!Addresses
            /\ Radius(sc)!Known(q.x)
    <3>1. q.op \in {"counters", "adopt"}
      BY <2>1 DEF Radius!Updated
    <3>2. q \in [op : {"counters", "adopt"}, x : {y \in CPE[sc] : Radius(sc)!Known(y)},
              addr : Radius(sc)!Addresses,
              inet : BOOLEAN, active : BOOLEAN]
      BY <1>q, <3>1, RequestShape
    <3> QED BY <3>1, <3>2
  <2>3. /\ active' = active /\ served' = served /\ bras' = bras /\ net' = net /\ budget' = budget
        /\ tasks' = tasks \cup Radius(sc)!Synchronize(q) /\ Radius(sc)!Accepted(q) /\ Radius(sc)!End(w)
    BY <2>1 DEF Radius!Updated, Radius!access
  <2>4. LeasesTyped(sc, lease') /\ disturbed' \subseteq Radius(sc)!Addresses
    <3>1. CASE Radius(sc)!Counters(w)
      BY <1>0, <2>2, <3>1, Written DEF Radius!Counters, NoOrCustomers
    <3>2. CASE Radius(sc)!Adopt(w)
      <4>1. Owner[sc][q.x] \in NoOrCustomers(sc)
        BY <2>2 DEF Radius!LeaseAssumption, NoOrCustomers
      <4> DEFINE table == [lease EXCEPT ![q.addr] =
            [@ EXCEPT !.cust = Owner[sc][q.x], !.mac = q.x, !.uname = q.x, !.up = TRUE, !.age = 0]]
      <4>2. Radius(sc)!Rewrite(table)
        BY <3>2 DEF Radius!Adopt
      <4>3. LeasesTyped(sc, table)
        BY <1>0, <2>2, <4>1, Written
      <4> HIDE DEF table
      <4> QED BY <1>0, <4>2, <4>3, DisturbTyped DEF Radius!Rewrite
    <3> QED BY <1>6, <3>1, <3>2
  <2>5. HeardTyped(sc, heard') /\ TasksTyped(sc, tasks')
    BY <1>0, <2>2, <2>3, AcceptedTyped, SyncTyped
  <2>6. RequestsTyped(sc, web') /\ \A v \in RadiusThreads : web'[v].op = "answer" => web'[v] = web[v]
    BY <1>0, <2>3, Ended
  <2>7. NoneOnInet(sc)'
    BY <1>0, <2>3, <2>6, NoneOnInetKept
  <2> QED BY <1>0, <2>3, <2>4, <2>5, <2>6, <2>7, TypePartsNext
<1> QED BY <1>1, <1>2, <1>3, <1>4, <1>5, <1>6 DEF Radius!Serve

LEMMA TakeTyped ==
  ASSUME NEW sc \in RadiusScenes, NetTyped(sc, net), budget \in Nat, NEW p, Radius(sc)!Take(p)
  PROVE  NetTyped(sc, net') /\ budget' \in Nat /\ p.x \in CPE[sc] /\ p.addr \in Radius(sc)!Addresses
             /\ p.inet \in BOOLEAN
<1>1. p \in net /\ net' \subseteq net /\ (budget' = budget \/ (budget' = budget - 1 /\ budget > 0))
  BY DEF Radius!Take, Radius!Spend
<1>2. p \in [kind : {"start", "stop", "update"}, x : CPE[sc], addr : Radius(sc)!Addresses,
          inet : BOOLEAN]
  BY <1>1 DEF NetTyped
<1>3. budget' \in Nat
  BY <1>1
<1> QED BY <1>1, <1>2, <1>3 DEF NetTyped

LEMMA AcctTypes ==
  ASSUME NEW sc \in RadiusScenes, Radius(sc)!LeaseAssumption, Radius(sc)!TypeOK, NEW p \in net,
         Radius(sc)!Acct(p) \/ Radius(sc)!Lose(p)
  PROVE  Radius(sc)!TypeOK'
<1>0. /\ LeasesTyped(sc, lease) /\ AccessTyped(sc, active, served) /\ SessionsTyped(sc, bras)
      /\ NetTyped(sc, net) /\ TasksTyped(sc, tasks) /\ RequestsTyped(sc, web)
      /\ disturbed \subseteq Radius(sc)!Addresses /\ HeardTyped(sc, heard) /\ budget \in Nat
      /\ NoneOnInet(sc)
  BY TypeParts
<1>1. CASE Radius(sc)!AcctStart(p) \/ Radius(sc)!AcctStop(p) \/ Radius(sc)!AcctUpdateFails(p)
  <2>1. /\ Radius(sc)!Take(p) /\ active' = active /\ served' = served /\ bras' = bras
        /\ tasks' = tasks /\ web' = web /\ disturbed' = disturbed
    BY <1>1 DEF Radius!AcctStart, Radius!AcctStop, Radius!AcctUpdateFails, Radius!access
  <2>2. NetTyped(sc, net') /\ budget' \in Nat /\ p.x \in CPE[sc] /\ p.addr \in Radius(sc)!Addresses
    BY <1>0, <2>1, TakeTyped
  <2>3. LeasesTyped(sc, lease')
    <3>1. NoCustomer \in NoOrCustomers(sc)
      BY DEF NoOrCustomers
    <3>2. CASE Radius(sc)!AcctStart(p)
      <4>1. LeasesTyped(sc, [lease EXCEPT ![p.addr] =
              [@ EXCEPT !.mac = p.x, !.uname = p.x, !.up = TRUE, !.age = 0]])
        BY <1>0, <2>2, <3>1, Written
      <4> QED BY <1>0, <3>2, <4>1 DEF Radius!AcctStart
    <3>3. CASE Radius(sc)!AcctStop(p)
      BY <1>0, <2>2, <3>1, <3>3, Written DEF Radius!AcctStop
    <3>4. CASE Radius(sc)!AcctUpdateFails(p)
      BY <1>0, <3>4 DEF Radius!AcctUpdateFails
    <3> QED BY <1>1, <3>2, <3>3, <3>4
  <2>4. HeardTyped(sc, heard')
    <3>1. heard' = heard \/ Radius(sc)!Accepted(p)
      BY <1>1 DEF Radius!AcctStart, Radius!AcctStop, Radius!AcctUpdateFails
    <3> QED BY <1>0, <3>1, AcceptedTyped
  <2>5. NoneOnInet(sc)'
    BY <1>0, <2>1, NoneOnInetKept
  <2> QED BY <1>0, <2>1, <2>2, <2>3, <2>4, <2>5, TypePartsNext
<1>2. ASSUME NEW w \in RadiusThreads, Radius(sc)!AcctUpdate(w, p) PROVE Radius(sc)!TypeOK'
  <2>1. /\ Radius(sc)!Take(p) /\ lease' = lease /\ active' = active /\ served' = served /\ bras' = bras
        /\ tasks' = tasks /\ disturbed' = disturbed /\ heard' = heard /\ Radius(sc)!Known(p.x)
    BY <1>2 DEF Radius!AcctUpdate, Radius!access
  <2>2. NetTyped(sc, net') /\ budget' \in Nat /\ p.x \in CPE[sc] /\ p.addr \in Radius(sc)!Addresses
            /\ p.inet \in BOOLEAN
    BY <1>0, <2>1, TakeTyped
  <2>3. active[Owner[sc][p.x]] \in BOOLEAN
    BY <1>0, <2>1, <2>2 DEF AccessTyped, Radius!Known, Radius!LeaseAssumption
  <2> DEFINE r == [op |-> IF Radius(sc)!IsMine(lease[p.addr], p.x) THEN "counters" ELSE "adopt",
                   x |-> p.x, addr |-> p.addr, inet |-> p.inet, active |-> active[Owner[sc][p.x]]]
  <2>4. r \in Radius(sc)!Request /\ ~(r.op = "answer") /\ web' = [web EXCEPT ![w] = r]
    <3>1. Radius(sc)!IsMine(lease[p.addr], p.x) \in BOOLEAN
      BY DEF Radius!IsMine
    <3> HIDE DEF Radius!IsMine
    <3> QED BY <1>2, <2>1, <2>2, <2>3, <3>1 DEF Radius!AcctUpdate, Radius!Request
  <2> HIDE DEF r
  <2>5. RequestsTyped(sc, web') /\ \A v \in RadiusThreads : web'[v].op = "answer" => web'[v] = web[v]
    BY <1>0, <2>4, Requested
  <2>6. NoneOnInet(sc)'
    BY <1>0, <2>1, <2>5, NoneOnInetKept
  <2> QED BY <1>0, <2>1, <2>2, <2>5, <2>6, TypePartsNext
<1>3. CASE Radius(sc)!Lose(p)
  <2>1. /\ lease' = lease /\ active' = active /\ served' = served /\ bras' = bras
        /\ tasks' = tasks /\ web' = web /\ disturbed' = disturbed /\ heard' = heard
        /\ net' = net \ {p} /\ Radius(sc)!Spend
    BY <1>3 DEF Radius!Lose, Radius!access
  <2>2. NetTyped(sc, net') /\ budget' \in Nat
    BY <1>0, <2>1, Spent DEF NetTyped
  <2>3. NoneOnInet(sc)'
    BY <1>0, <2>1, NoneOnInetKept
  <2> QED BY <1>0, <2>1, <2>2, <2>3, TypePartsNext
<1> QED BY <1>1, <1>2, <1>3 DEF Radius!Acct

LEMMA LiveHasAddress ==
  ASSUME NEW sc \in RadiusScenes, SessionsTyped(sc, bras), NEW x \in CPE[sc], Radius(sc)!Live(x)
  PROVE  bras[x] \in [on : {TRUE}, cust : Customers[sc] \cup {NoCustomer}, addr : Radius(sc)!Addresses,
                      inet : BOOLEAN]
<1>1. bras[x] \in Radius(sc)!Session /\ bras[x].on
  BY DEF SessionsTyped, Radius!Live
<1>2. ~(bras[x] = Radius(sc)!NoSession)
  <2>1. ~Radius(sc)!NoSession.on
    BY DEF Radius!NoSession
  <2> QED BY <1>1, <2>1
<1> QED BY <1>1, <1>2 DEF Radius!Session

LEMMA DropTyped ==
  ASSUME NEW sc \in RadiusScenes, SessionsTyped(sc, bras), NetTyped(sc, net), NEW x \in CPE[sc],
         Radius(sc)!Live(x), Radius(sc)!Drop(x)
  PROVE  /\ SessionsTyped(sc, bras') /\ NetTyped(sc, net')
         /\ \A y \in CPE[sc] : bras'[y].on => bras'[y] = bras[y]
<1>1. bras[x].addr \in Radius(sc)!Addresses
  BY LiveHasAddress
<1>2. NetTyped(sc, net')
  BY <1>1, SendTyped DEF Radius!Drop
<1>3. /\ SessionsTyped(sc, bras')
      /\ \A y \in CPE[sc] : bras'[y].on => bras'[y] = bras[y]
  BY DEF Radius!Drop, SessionsTyped, Radius!Session, Radius!NoSession
<1> QED BY <1>2, <1>3

(* What a change of the service leaves of the session. *)
LEMMA CoaSession ==
  ASSUME NEW sc \in RadiusScenes, SessionsTyped(sc, bras), NEW x \in CPE[sc],
         NEW kind \in {"toInet", "toGuest"}, Radius(sc)!Coa(kind, x)
  PROVE  /\ SessionsTyped(sc, bras')
         /\ \A y \in CPE[sc] : bras'[y].on =>
              bras[y].on /\ bras'[y].addr = bras[y].addr /\ bras'[y].cust = bras[y].cust
<1>1. CASE Radius(sc)!Live(x) /\ bras' = [bras EXCEPT ![x].inet = (kind = "toInet")]
  <2>1. bras[x] \in [on : {TRUE}, cust : Customers[sc] \cup {NoCustomer}, addr : Radius(sc)!Addresses,
                      inet : BOOLEAN]
    BY <1>1, LiveHasAddress
  <2>2. (kind = "toInet") \in BOOLEAN
    OBVIOUS
  <2> DEFINE s == [bras[x] EXCEPT !.inet = (kind = "toInet")]
  <2>3. /\ s \in Radius(sc)!Session /\ s.addr = bras[x].addr /\ s.cust = bras[x].cust /\ s.on
               /\ bras[x].on
    BY <2>1, <2>2 DEF Radius!Session
  <2>4. bras' = [bras EXCEPT ![x] = s]
    BY <1>1
  <2> HIDE DEF s
  <2>5. bras'[x] = s /\ SessionsTyped(sc, bras') /\ \A y \in CPE[sc] \ {x} : bras'[y] = bras[y]
    BY <2>3, <2>4 DEF SessionsTyped
  <2> QED BY <2>3, <2>5
<1>2. CASE bras' = bras
  BY <1>2
<1> QED BY <1>1, <1>2 DEF Radius!Coa

LEMMA SessionTypes ==
  ASSUME NEW sc \in RadiusScenes, Radius(sc)!LeaseAssumption, Radius(sc)!TypeOK, NEW x \in CPE[sc],
         Radius(sc)!RunTask(x) \/ Radius(sc)!Disconnect(x) \/ Radius(sc)!Interim(x)
  PROVE  Radius(sc)!TypeOK'
<1>0. /\ LeasesTyped(sc, lease) /\ AccessTyped(sc, active, served) /\ SessionsTyped(sc, bras)
      /\ NetTyped(sc, net) /\ TasksTyped(sc, tasks) /\ RequestsTyped(sc, web)
      /\ disturbed \subseteq Radius(sc)!Addresses /\ HeardTyped(sc, heard) /\ budget \in Nat
      /\ NoneOnInet(sc)
  BY TypeParts
<1>1. ASSUME NEW kind \in {"toInet", "toGuest"}, Radius(sc)!Coa(kind, x) PROVE Radius(sc)!TypeOK'
  <2>1. /\ lease' = lease /\ active' = active /\ served' = served /\ net' = net
        /\ web' = web /\ disturbed' = disturbed /\ heard' = heard
        /\ tasks' = tasks \ {<<kind, x>>} /\ (Radius(sc)!Spend \/ budget' = budget)
    BY <1>1 DEF Radius!Coa, Radius!Ran, Radius!access
  <2>2. TasksTyped(sc, tasks') /\ budget' \in Nat
    BY <1>0, <2>1, Spent DEF TasksTyped
  <2>3. SessionsTyped(sc, bras') /\ NoneOnInet(sc)'
    BY <1>0, <1>1, <2>1, CoaSession, NoneOnInetKept
  <2> QED BY <1>0, <2>1, <2>2, <2>3, TypePartsNext
<1>2. CASE Radius(sc)!CheckLease(x)
  <2>1. /\ lease' = lease /\ active' = active /\ served' = served
        /\ web' = web /\ disturbed' = disturbed /\ heard' = heard
        /\ tasks' = tasks \ {<<"check", x>>} /\ (Radius(sc)!Spend \/ budget' = budget)
        /\ ((bras' = bras /\ net' = net) \/ (Radius(sc)!Live(x) /\ Radius(sc)!Drop(x)))
    BY <1>2 DEF Radius!CheckLease, Radius!Ran, Radius!access
  <2>2. TasksTyped(sc, tasks') /\ budget' \in Nat
    BY <1>0, <2>1, Spent DEF TasksTyped
  <2>3. SessionsTyped(sc, bras') /\ NetTyped(sc, net') /\ \A y \in CPE[sc] : bras'[y].on
            => bras'[y] = bras[y]
    BY <1>0, <2>1, DropTyped
  <2>4. NoneOnInet(sc)'
    BY <1>0, <2>1, <2>3, NoneOnInetKept
  <2> QED BY <1>0, <2>1, <2>2, <2>3, <2>4, TypePartsNext
<1>3. CASE Radius(sc)!Disconnect(x)
  <2>1. /\ lease' = lease /\ active' = active /\ served' = served
        /\ web' = web /\ disturbed' = disturbed /\ heard' = heard
        /\ tasks' = tasks /\ budget' = budget /\ Radius(sc)!Live(x) /\ Radius(sc)!Drop(x)
    BY <1>3 DEF Radius!Disconnect, Radius!access
  <2>3. SessionsTyped(sc, bras') /\ NetTyped(sc, net') /\ \A y \in CPE[sc] : bras'[y].on
            => bras'[y] = bras[y]
    BY <1>0, <2>1, DropTyped
  <2>4. NoneOnInet(sc)'
    BY <1>0, <2>1, <2>3, NoneOnInetKept
  <2> QED BY <1>0, <2>1, <2>3, <2>4, TypePartsNext
<1>4. CASE Radius(sc)!Interim(x)
  <2>1. /\ lease' = lease /\ active' = active /\ served' = served /\ bras' = bras
        /\ web' = web /\ disturbed' = disturbed /\ heard' = heard
        /\ tasks' = tasks /\ budget' = budget
        /\ Radius(sc)!Live(x) /\ Radius(sc)!Send(Radius(sc)!Packet("update", x, bras[x].addr, bras[x].inet))
    BY <1>4 DEF Radius!Interim, Radius!access
  <2>2. bras[x].addr \in Radius(sc)!Addresses /\ bras[x].inet \in BOOLEAN
    BY <1>0, <2>1, LiveHasAddress
  <2>3. NetTyped(sc, net')
    BY <1>0, <2>1, <2>2, SendTyped
  <2>4. NoneOnInet(sc)'
    BY <1>0, <2>1, NoneOnInetKept
  <2> QED BY <1>0, <2>1, <2>3, <2>4, TypePartsNext
<1> QED BY <1>1, <1>2, <1>3, <1>4 DEF Radius!RunTask, Radius!ChangeToInet, Radius!ChangeToGuest

(* A whole table that is rewritten row by row. *)
LEMMA StaleTyped ==
  ASSUME NEW sc \in RadiusScenes, Radius(sc)!LeaseAssumption, LeasesTyped(sc, lease)
  PROVE  /\ LeasesTyped(sc, [a \in Radius(sc)!Addresses |->
              IF Radius(sc)!IsStale(lease[a]) THEN Radius(sc)!Released(lease[a]) ELSE lease[a]])
         /\ LeasesTyped(sc, [a \in Radius(sc)!Addresses |-> [lease[a] EXCEPT !.age = Radius(sc)!Older(@)]])
<1>l. Radius(sc)!LeaseRecord = [cust : NoOrCustomers(sc), mac : CPE[sc] \cup {Nobody},
                              uname : CPE[sc] \cup {Nobody}, up : BOOLEAN, dyn : BOOLEAN,
                                  age : Ages(sc)]
  BY LeaseFields
<1>1. ASSUME NEW a \in Radius(sc)!Addresses
      PROVE  Radius(sc)!Released(lease[a]) \in Radius(sc)!LeaseRecord
                 /\ [lease[a] EXCEPT !.age = Radius(sc)!Older(@)] \in Radius(sc)!LeaseRecord
  <2>1. lease[a] \in Radius(sc)!LeaseRecord
    BY DEF LeasesTyped
  <2>2. /\ Radius(sc)!Never \in Ages(sc) /\ NoCustomer \in NoOrCustomers(sc)
               /\ Radius(sc)!Older(lease[a].age) \in Ages(sc)
    BY <2>1, AgesAre, <1>l DEF NoOrCustomers
  <2> QED BY <2>1, <2>2, <1>l DEF Radius!Released
<1> QED BY <1>1 DEF LeasesTyped

LEMMA OtherTypes ==
  ASSUME NEW sc \in RadiusScenes, Radius(sc)!LeaseAssumption, Radius(sc)!TypeOK,
         Radius(sc)!ReleaseStale \/ Radius(sc)!Tick \/ Radius(sc)!Operator
  PROVE  Radius(sc)!TypeOK'
<1>0. /\ LeasesTyped(sc, lease) /\ AccessTyped(sc, active, served) /\ SessionsTyped(sc, bras)
      /\ NetTyped(sc, net) /\ TasksTyped(sc, tasks) /\ RequestsTyped(sc, web)
      /\ disturbed \subseteq Radius(sc)!Addresses /\ HeardTyped(sc, heard) /\ budget \in Nat
      /\ NoneOnInet(sc)
  BY TypeParts
<1>1. CASE Radius(sc)!ReleaseStale
  <2> DEFINE table == [a \in Radius(sc)!Addresses |->
                     IF Radius(sc)!IsStale(lease[a]) THEN Radius(sc)!Released(lease[a]) ELSE lease[a]]
  <2>1. /\ active' = active /\ served' = served /\ bras' = bras /\ net' = net
        /\ web' = web /\ heard' = heard /\ tasks' = tasks /\ budget' = budget
               /\ Radius(sc)!Rewrite(table)
    BY <1>1 DEF Radius!ReleaseStale, Radius!access
  <2>2. LeasesTyped(sc, table)
    BY <1>0, StaleTyped
  <2> HIDE DEF table
  <2>3. LeasesTyped(sc, lease') /\ disturbed' \subseteq Radius(sc)!Addresses
    BY <1>0, <2>1, <2>2, DisturbTyped DEF Radius!Rewrite
  <2>4. NoneOnInet(sc)'
    BY <1>0, <2>1, NoneOnInetKept
  <2> QED BY <1>0, <2>1, <2>3, <2>4, TypePartsNext
<1>2. CASE Radius(sc)!Tick
  <2>1. /\ active' = active /\ served' = served /\ bras' = bras /\ net' = net
        /\ web' = web /\ disturbed' = disturbed /\ tasks' = tasks /\ budget' = budget
    BY <1>2 DEF Radius!Tick, Radius!access
  <2>2. LeasesTyped(sc, lease')
    BY <1>0, <1>2, StaleTyped DEF Radius!Tick
  <2>3. HeardTyped(sc, heard')
    BY <1>0, <1>2, AgesAre DEF Radius!Tick, HeardTyped
  <2>4. NoneOnInet(sc)'
    BY <1>0, <2>1, NoneOnInetKept
  <2> QED BY <1>0, <2>1, <2>2, <2>3, <2>4, TypePartsNext
<1>3. ASSUME Radius(sc)!ByHand, NEW table, LeasesTyped(sc, table),
                 Radius(sc)!Rewrite(table) PROVE Radius(sc)!TypeOK'
  <2>1. /\ active' = active /\ served' = served /\ bras' = bras /\ net' = net
        /\ web' = web /\ heard' = heard /\ tasks' = tasks /\ Radius(sc)!Spend
    BY <1>3 DEF Radius!ByHand, Radius!access
  <2>2. LeasesTyped(sc, lease') /\ disturbed' \subseteq Radius(sc)!Addresses /\ budget' \in Nat
    BY <1>0, <1>3, <2>1, DisturbTyped, Spent DEF Radius!Rewrite
  <2>3. NoneOnInet(sc)'
    BY <1>0, <2>1, NoneOnInetKept
  <2> QED BY <1>0, <2>1, <2>2, <2>3, TypePartsNext
<1>4. ASSUME NEW a \in Radius(sc)!Addresses, Radius(sc)!Release(a) PROVE Radius(sc)!TypeOK'
  <2>1. LeasesTyped(sc, [lease EXCEPT ![a] = Radius(sc)!Released(@)])
    BY <1>0, Written DEF NoOrCustomers
  <2> QED BY <1>3, <1>4, <2>1 DEF Radius!Release
<1>5. ASSUME NEW a \in Radius(sc)!Addresses, NEW c \in Customers[sc], NEW m \in CPE[sc] \cup {Nobody},
             Radius(sc)!MakeStatic(a, c, m)
      PROVE  Radius(sc)!TypeOK'
  <2>1. c \in NoOrCustomers(sc)
    BY DEF NoOrCustomers
  <2>2. LeasesTyped(sc, [lease EXCEPT ![a] =
          [@ EXCEPT !.cust = c, !.mac = m, !.dyn = FALSE, !.up = TRUE, !.age = 0]])
    BY <1>0, <2>1, Written
  <2> QED BY <1>3, <1>5, <2>2 DEF Radius!MakeStatic
<1>6. ASSUME NEW a \in Radius(sc)!Addresses, NEW x \in CPE[sc],
                 Radius(sc)!DhcpCommit(a, x) PROVE Radius(sc)!TypeOK'
  <2>1. Owner[sc][x] \in NoOrCustomers(sc)
    BY DEF NoOrCustomers, Radius!LeaseAssumption
  <2>2. /\ LeasesTyped(sc, [lease EXCEPT ![a] = [@ EXCEPT !.age = 0]])
        /\ LeasesTyped(sc, [lease EXCEPT ![a] = [@ EXCEPT !.cust = Owner[sc][x], !.mac = x, !.age = 0]])
    BY <1>0, <2>1, Written
  <2>3. LeasesTyped(sc, [lease EXCEPT ![a] =
          IF @.cust = Owner[sc][x] THEN [@ EXCEPT !.age = 0]
          ELSE [@ EXCEPT !.cust = Owner[sc][x], !.mac = x, !.age = 0]])
    BY <2>2
  <2> QED BY <1>3, <1>6, <2>3 DEF Radius!DhcpCommit
<1>7. ASSUME NEW c \in Customers[sc],
             Radius(sc)!PickService(c) \/ Radius(sc)!LoseService(c)
                 \/ Radius(sc)!SetActive(c) PROVE Radius(sc)!TypeOK'
  <2>1. /\ lease' = lease /\ bras' = bras /\ net' = net
        /\ web' = web /\ heard' = heard /\ disturbed' = disturbed /\ Radius(sc)!Spend
    BY <1>7 DEF Radius!PickService, Radius!LoseService, Radius!SetActive
  <2>2. budget' \in Nat
    BY <1>0, <2>1, Spent
  <2>3. AccessTyped(sc, active', served')
    BY <1>0, <1>7 DEF Radius!PickService, Radius!LoseService, Radius!SetActive, AccessTyped
  <2>4. TasksTyped(sc, tasks')
    BY <1>0, <1>7 DEF Radius!PickService, Radius!LoseService, Radius!SetActive, TasksTyped
  <2>5. NoneOnInet(sc)'
    BY <1>0, <2>1, NoneOnInetKept
  <2> QED BY <1>0, <2>1, <2>2, <2>3, <2>4, <2>5, TypePartsNext
<1> QED BY <1>1, <1>2, <1>4, <1>5, <1>6, <1>7 DEF Radius!Operator

LEMMA LeasesTypeStep ==
  ASSUME NEW sc \in RadiusScenes, Radius(sc)!LeaseAssumption, Radius(sc)!TypeOK,
         [Radius(sc)!Next]_(Radius(sc)!vars)
  PROVE  Radius(sc)!TypeOK'
<1>1. ASSUME Radius(sc)!Next PROVE Radius(sc)!TypeOK'
  BY <1>1, AuthTypes, ServeTypes, AcctTypes, SessionTypes, OtherTypes DEF Radius!Next
<1>2. ASSUME UNCHANGED Radius(sc)!vars PROVE Radius(sc)!TypeOK'
  <2>1. /\ lease' = lease /\ active' = active /\ served' = served /\ bras' = bras /\ net' = net
        /\ web' = web /\ heard' = heard /\ disturbed' = disturbed /\ tasks' = tasks
        /\ budget' = budget
    BY <1>2 DEF Radius!vars, Radius!access
  <2>2. NoneOnInet(sc)'
    BY <2>1, TypeParts, NoneOnInetKept
  <2> QED BY <2>1, <2>2, TypeParts, TypePartsNext
<1> QED BY <1>1, <1>2

(* When requests are served one at a time, an address in use that was not disturbed
   has the customer who uses it in its record, and a thread that is about to write
   a customer finds no other who uses the address. *)
OneAtATime(sc) == \A v, w \in RadiusThreads : web[v].op # "free" /\ web[w].op # "free" => v = w
Recorded(sc) ==
  \A a \in Radius(sc)!Addresses \ disturbed, c \in Customers[sc] : Radius(sc)!Uses(c, a)
      => lease[a].cust = c
Chosen(sc) ==
  \A w \in RadiusThreads : web[w].op = "assign" =>
    \A a \in Radius(sc)!Addresses \ disturbed, c \in Customers[sc] :
      a = web[w].addr /\ Radius(sc)!Uses(c, a) => c = web[w].cust
CustInv(sc) == OneAtATime(sc) /\ Recorded(sc) /\ Chosen(sc)

LEMMA NoneInFlight ==
  ASSUME NEW sc \in RadiusScenes, Radius(sc)!LeaseAssumption, AtOnce = 1, Radius(sc)!InFlight < AtOnce,
         RequestsTyped(sc, web)
  PROVE  \A v \in RadiusThreads : web[v] = Radius(sc)!Free /\ web[v].op = "free"
<1> DEFINE B == {w \in RadiusThreads : web[w] # Radius(sc)!Free}
<1>1. IsFiniteSet(B)
  BY FS_Subset, RadiusOnFiniteSets DEF Radius!LeaseAssumption
<1>2. Cardinality(B) < 1
  BY RadiusOnFiniteSets DEF Radius!InFlight
<1> HIDE DEF B
<1>3. Cardinality(B) = 0
  BY <1>1, <1>2, FS_CardinalityType
<1>4. B = {}
  BY <1>1, <1>3, FS_EmptySet
<1> QED BY <1>4, RequestShape DEF B

LEMMA RecordedKept ==
  ASSUME NEW sc \in RadiusScenes, Recorded(sc), \A a \in Radius(sc)!Addresses,
         c \in Customers[sc] : Radius(sc)!Uses(c, a)' => Radius(sc)!Uses(c, a),
         disturbed \subseteq disturbed',
         \A a \in Radius(sc)!Addresses \ disturbed' : Radius(sc)!InUse(a)
             => lease'[a].cust = lease[a].cust
  PROVE  Recorded(sc)'
<1> SUFFICES ASSUME NEW a \in Radius(sc)!Addresses \ disturbed', NEW c \in Customers[sc],
                    Radius(sc)!Uses(c, a)'
             PROVE  lease'[a].cust = c
  BY DEF Recorded
<1>1. Radius(sc)!Uses(c, a) /\ a \in Radius(sc)!Addresses \ disturbed
  OBVIOUS
<1>2. Radius(sc)!InUse(a)
  BY <1>1 DEF Radius!InUse
<1> QED BY <1>1, <1>2 DEF Recorded

LEMMA ChosenKept ==
  ASSUME NEW sc \in RadiusScenes, Radius(sc)!TypeOK, Chosen(sc),
         \A w \in RadiusThreads : web'[w].op = "assign" => web'[w] = web[w],
         \A a \in Radius(sc)!Addresses, c \in Customers[sc] : Radius(sc)!Uses(c, a)'
             => Radius(sc)!Uses(c, a),
         disturbed \subseteq disturbed'
  PROVE  Chosen(sc)'
<1> SUFFICES ASSUME NEW w \in RadiusThreads, web'[w].op = "assign", NEW c \in Customers[sc],
                    NEW a \in Radius(sc)!Addresses \ disturbed', a = web'[w].addr,
                        Radius(sc)!Uses(c, a)'
             PROVE  c = web'[w].cust
  BY DEF Chosen
<1>1. web'[w] = web[w]
  OBVIOUS
<1>2. Radius(sc)!Uses(c, a) /\ a \in Radius(sc)!Addresses \ disturbed
  OBVIOUS
<1> QED BY <1>1, <1>2 DEF Chosen

(* A write that asks nobody says which of the addresses in use it disturbs. *)
LEMMA RewriteTells ==
  ASSUME NEW sc \in RadiusScenes, NEW table, Radius(sc)!Rewrite(table)
  PROVE  /\ disturbed \subseteq disturbed' /\ lease' = table
         /\ \A a \in Radius(sc)!Addresses \ disturbed' : Radius(sc)!InUse(a)
                => lease'[a].cust = lease[a].cust
BY DEF Radius!Rewrite, Radius!Disturb

LEMMA QuietUses ==
  ASSUME NEW sc \in RadiusScenes, \A x \in CPE[sc] : bras'[x].on =>
           bras[x].on /\ bras'[x].addr = bras[x].addr /\ bras'[x].cust = bras[x].cust,
         \A w \in RadiusThreads : web'[w].op = "answer" => web'[w] = web[w]
  PROVE  \A a \in Radius(sc)!Addresses, c \in Customers[sc] : Radius(sc)!Uses(c, a)'
             => Radius(sc)!Uses(c, a)
BY UsesKept

LEMMA AuthCust ==
  ASSUME NEW sc \in RadiusScenes, Radius(sc)!LeaseAssumption, AtOnce = 1, Radius(sc)!TypeOK,
             CustInv(sc),
         NEW w \in RadiusThreads, NEW x \in CPE[sc], Radius(sc)!Auth(w, x)
  PROVE  CustInv(sc)'
<1>0. RequestsTyped(sc, web) /\ LeasesTyped(sc, lease)
  BY TypeParts
<1>1. Radius(sc)!Ask(w, x)
  BY DEF Radius!Auth, Radius!AuthKnown, Radius!AuthNew, Radius!AuthByMac, Radius!AuthGuest
<1>2. \A v \in RadiusThreads : web[v] = Radius(sc)!Free /\ web[v].op = "free"
  BY <1>0, <1>1, NoneInFlight DEF Radius!Ask
<1>3. lease' = lease /\ bras' = bras /\ disturbed' = disturbed
  BY <1>1 DEF Radius!Ask
<1>4. /\ \A v \in RadiusThreads \ {w} : web'[v] = web[v]
      /\ ~(web'[w].op = "assign")
      /\ web'[w].op = "answer" => lease[web'[w].addr].cust = web'[w].cust
  <2>1. CASE Radius(sc)!AuthKnown(w, x)
    BY <1>0, <2>1 DEF Radius!AuthKnown, Radius!Mine, Radius!Answering, RequestsTyped
  <2>2. CASE Radius(sc)!AuthNew(w, x)
    BY <1>0, <2>2 DEF Radius!AuthNew, RequestsTyped
  <2>3. CASE Radius(sc)!AuthByMac(w, x)
    BY <1>0, <2>3 DEF Radius!AuthByMac, Radius!Answering, RequestsTyped
  <2>4. CASE Radius(sc)!AuthGuest(w, x)
    BY <1>0, <2>4 DEF Radius!AuthGuest, RequestsTyped
  <2> QED BY <2>1, <2>2, <2>3, <2>4 DEF Radius!Auth
<1>5. OneAtATime(sc)'
  BY <1>2, <1>4 DEF OneAtATime
<1>6. Recorded(sc)'
  <2> SUFFICES ASSUME NEW a \in Radius(sc)!Addresses \ disturbed', NEW c \in Customers[sc],
                      Radius(sc)!Uses(c, a)'
               PROVE  lease'[a].cust = c
    BY DEF Recorded
  <2>1. CASE \E y \in CPE[sc] : bras'[y].on /\ bras'[y].addr = a /\ bras'[y].cust = c
    <3>1. Radius(sc)!Uses(c, a)
      BY <1>3, <2>1 DEF Radius!Uses
    <3> QED BY <1>3, <3>1 DEF CustInv, Recorded
  <2>2. CASE \E v \in RadiusThreads : web'[v].op = "answer" /\ web'[v].addr = a /\ web'[v].cust = c
    BY <1>2, <1>3, <1>4, <2>2
  <2> QED BY <2>1, <2>2 DEF Radius!Uses
<1>7. Chosen(sc)'
  BY <1>2, <1>4 DEF Chosen
<1> QED BY <1>5, <1>6, <1>7 DEF CustInv

(* What a thread that works leaves to the others. *)
LEMMA ServeAlone ==
  ASSUME NEW sc \in RadiusScenes, Radius(sc)!TypeOK, OneAtATime(sc), NEW w \in RadiusThreads,
         Radius(sc)!Serve(w)
  PROVE  /\ ~(web[w].op = "free")
         /\ \A v \in RadiusThreads \ {w} : web'[v] = web[v] /\ web[v].op = "free"
         /\ OneAtATime(sc)'
<1>0. web \in [RadiusThreads -> Radius(sc)!Request]
  BY DEF Radius!TypeOK
<1>1. web[w].op \in {"pick", "assign", "mark", "again", "answer", "counters", "adopt"}
  BY DEF Radius!Serve, Radius!Pick, Radius!Assign, Radius!MarkGuest, Radius!Again, Radius!Answer,
     Radius!Counters, Radius!Adopt, Radius!Thread, Radius!Updated
<1>2. \A v \in RadiusThreads \ {w} : web[v].op = "free"
  BY <1>1 DEF OneAtATime
<1>3. \A v \in RadiusThreads \ {w} : web'[v] = web[v]
  <2>1. CASE Radius(sc)!Pick(w)
    BY <1>0, <2>1 DEF Radius!Pick, Radius!End
  <2>2. CASE Radius(sc)!Assign(w)
    BY <1>0, <2>2 DEF Radius!Assign, Radius!Answering
  <2>3. CASE Radius(sc)!MarkGuest(w)
    BY <1>0, <2>3 DEF Radius!MarkGuest
  <2>4. CASE Radius(sc)!Again(w)
    BY <1>0, <2>4 DEF Radius!Again, Radius!Answering, Radius!End
  <2>5. CASE Radius(sc)!Answer(w)
    BY <1>0, <2>5 DEF Radius!Answer, Radius!End
  <2>6. CASE Radius(sc)!Counters(w) \/ Radius(sc)!Adopt(w)
    BY <1>0, <2>6 DEF Radius!Counters, Radius!Adopt, Radius!Updated, Radius!End
  <2> QED BY <2>1, <2>2, <2>3, <2>4, <2>5, <2>6 DEF Radius!Serve
<1> QED BY <1>1, <1>2, <1>3 DEF OneAtATime

(* The lease a thread picks is of the customer already, or of nobody. *)
LEMMA PickCust ==
  ASSUME NEW sc \in RadiusScenes, Radius(sc)!LeaseAssumption, Radius(sc)!TypeOK, CustInv(sc),
         NEW w \in RadiusThreads, Radius(sc)!Pick(w)
  PROVE  Recorded(sc)' /\ Chosen(sc)'
<1> DEFINE q == web[w]
<1>0. web \in [RadiusThreads -> Radius(sc)!Request] /\ q \in Radius(sc)!Request
  BY DEF Radius!TypeOK
<1>1. q \in [op : {"pick"}, x : CPE[sc], cust : Customers[sc], from : {Inet[sc], Guest[sc]},
          inet : BOOLEAN]
  BY <1>0, RequestShape DEF Radius!Pick, Radius!Thread
<1>2. lease' = lease /\ bras' = bras /\ disturbed' = disturbed
  BY DEF Radius!Pick, Radius!Thread
<1>3. \A v \in RadiusThreads \ {w} : web'[v] = web[v] /\ web[v].op = "free"
  BY ServeAlone DEF CustInv, Radius!Serve
<1>4. /\ ~(web'[w].op = "answer")
      /\ web'[w].op = "assign" =>
           web'[w].cust = q.cust /\ Radius(sc)!IsFree(lease[web'[w].addr], q.cust, q.x)
  <2>1. ASSUME NEW a \in Radius(sc)!Addresses, Radius(sc)!IsFree(lease[a], q.cust, q.x),
               web' = [web EXCEPT ![w] =
               [op |-> "assign", x |-> q.x, cust |-> q.cust, addr |-> a, inet |-> q.inet]]
        PROVE  /\ ~(web'[w].op = "answer")
               /\ web'[w].cust = q.cust /\ Radius(sc)!IsFree(lease[web'[w].addr], q.cust, q.x)
    BY <1>0, <2>1
  <2>2. CASE web' = [web EXCEPT ![w].from = Guest[sc]]
    BY <1>0, <1>1, <2>2
  <2>3. CASE Radius(sc)!End(w)
    BY <1>0, <2>3, RequestShape DEF Radius!End
  <2>4. q.from \subseteq Radius(sc)!Addresses
    BY <1>1 DEF Radius!Addresses
  <2> QED BY <2>1, <2>2, <2>3, <2>4 DEF Radius!Pick
<1>5. \A a \in Radius(sc)!Addresses, c \in Customers[sc] : Radius(sc)!Uses(c, a)'
          => Radius(sc)!Uses(c, a)
  <2>1. \A v \in RadiusThreads : web'[v].op = "answer" => web'[v] = web[v]
    BY <1>3, <1>4
  <2> QED BY <1>2, <2>1, QuietUses
<1>6. Recorded(sc)'
  BY <1>2, <1>5, RecordedKept DEF CustInv
<1>7. Chosen(sc)'
  <2> SUFFICES ASSUME NEW v \in RadiusThreads, web'[v].op = "assign",
                      NEW a \in Radius(sc)!Addresses \ disturbed,
                      NEW c \in Customers[sc], a = web'[v].addr, Radius(sc)!Uses(c, a)'
               PROVE  c = web'[v].cust
    BY <1>2 DEF Chosen
  <2>1. v = w
    BY <1>3
  <2>2. lease[a].cust = c
    BY <1>5 DEF CustInv, Recorded
  <2>3. lease[a].cust \in {q.cust, NoCustomer}
    BY <1>4, <2>1 DEF Radius!IsFree
  <2> QED BY <1>4, <2>1, <2>2, <2>3 DEF Radius!LeaseAssumption
<1> QED BY <1>6, <1>7

LEMMA AssignCust ==
  ASSUME NEW sc \in RadiusScenes, Radius(sc)!LeaseAssumption, Radius(sc)!TypeOK, CustInv(sc),
         NEW w \in RadiusThreads, Radius(sc)!Assign(w)
  PROVE  Recorded(sc)' /\ Chosen(sc)'
<1>l. Radius(sc)!LeaseRecord = [cust : NoOrCustomers(sc), mac : CPE[sc] \cup {Nobody},
                              uname : CPE[sc] \cup {Nobody}, up : BOOLEAN, dyn : BOOLEAN,
                                  age : Ages(sc)]
  BY LeaseFields
<1> DEFINE q == web[w]
<1>0. web \in [RadiusThreads -> Radius(sc)!Request] /\ q \in Radius(sc)!Request
          /\ lease \in [Radius(sc)!Addresses -> Radius(sc)!LeaseRecord]
  BY DEF Radius!TypeOK
<1>1. q.op = "assign" /\ q \in [op : {"assign"}, x : CPE[sc], cust : Customers[sc], addr : Radius(sc)!Addresses,
                                   inet : BOOLEAN]
  BY <1>0, RequestShape DEF Radius!Assign, Radius!Thread
<1>2. bras' = bras /\ disturbed' = disturbed
  BY DEF Radius!Assign, Radius!Thread
<1>3. \A v \in RadiusThreads \ {w} : web'[v] = web[v] /\ web[v].op = "free"
  BY ServeAlone DEF CustInv, Radius!Serve
<1>4. web'[w].op = "answer" /\ web'[w].cust = q.cust /\ web'[w].addr = q.addr
  BY <1>0 DEF Radius!Assign, Radius!Answering
<1>5. /\ lease'[q.addr].cust = q.cust
      /\ \A a \in Radius(sc)!Addresses \ {q.addr} : lease'[a] = lease[a]
  <2>1. lease' = [lease EXCEPT ![q.addr] =
          [lease[q.addr] EXCEPT !.cust = q.cust, !.mac = q.x, !.uname = q.x, !.age = 0]]
    BY DEF Radius!Assign
  <2>2. lease[q.addr] \in Radius(sc)!LeaseRecord
    BY <1>0, <1>1
  <2> QED BY <1>0, <1>1, <2>1, <2>2, <1>l
<1>6. Recorded(sc)'
  <2> SUFFICES ASSUME NEW a \in Radius(sc)!Addresses \ disturbed, NEW c \in Customers[sc],
                      Radius(sc)!Uses(c, a)'
               PROVE  lease'[a].cust = c
    BY <1>2 DEF Recorded
  <2>1. CASE \E y \in CPE[sc] : bras'[y].on /\ bras'[y].addr = a /\ bras'[y].cust = c
    <3>1. Radius(sc)!Uses(c, a)
      BY <1>2, <2>1 DEF Radius!Uses
    <3>2. CASE a = q.addr
      BY <1>1, <1>5, <3>1, <3>2 DEF CustInv, Chosen
    <3>3. CASE a # q.addr
      BY <1>5, <3>1, <3>3 DEF CustInv, Recorded
    <3> QED BY <3>2, <3>3
  <2>2. CASE \E v \in RadiusThreads : web'[v].op = "answer" /\ web'[v].addr = a /\ web'[v].cust = c
    BY <1>3, <1>4, <1>5, <2>2
  <2> QED BY <2>1, <2>2 DEF Radius!Uses
<1>7. Chosen(sc)'
  BY <1>3, <1>4 DEF Chosen
<1> QED BY <1>6, <1>7

LEMMA ServeCust ==
  ASSUME NEW sc \in RadiusScenes, Radius(sc)!LeaseAssumption, Radius(sc)!TypeOK, CustInv(sc),
         NEW w \in RadiusThreads, Radius(sc)!Serve(w)
  PROVE  CustInv(sc)'
<1>l. Radius(sc)!LeaseRecord = [cust : NoOrCustomers(sc), mac : CPE[sc] \cup {Nobody},
                              uname : CPE[sc] \cup {Nobody}, up : BOOLEAN, dyn : BOOLEAN,
                                  age : Ages(sc)]
  BY LeaseFields
<1> DEFINE q == web[w]
<1>0. web \in [RadiusThreads -> Radius(sc)!Request] /\ q \in Radius(sc)!Request
          /\ lease \in [Radius(sc)!Addresses -> Radius(sc)!LeaseRecord]
  BY DEF Radius!TypeOK
<1>1. /\ \A v \in RadiusThreads \ {w} : web'[v] = web[v] /\ web[v].op = "free"
      /\ OneAtATime(sc)'
  BY ServeAlone DEF CustInv
<1>2. ASSUME ~(web'[w].op = "assign"), disturbed \subseteq disturbed',
             \A a \in Radius(sc)!Addresses, c \in Customers[sc] : Radius(sc)!Uses(c, a)'
                 => Radius(sc)!Uses(c, a),
             \A a \in Radius(sc)!Addresses \ disturbed' : Radius(sc)!InUse(a)
                 => lease'[a].cust = lease[a].cust
      PROVE  Recorded(sc)' /\ Chosen(sc)'
  <2>1. Recorded(sc)'
    BY <1>2, RecordedKept DEF CustInv
  <2>2. \A v \in RadiusThreads : web'[v].op = "assign" => web'[v] = web[v]
    BY <1>1, <1>2
  <2>3. Chosen(sc)'
    BY <1>2, <2>2, ChosenKept DEF CustInv
  <2> QED BY <2>1, <2>3
<1>3. CASE Radius(sc)!Pick(w)
  BY <1>1, <1>3, PickCust DEF CustInv
<1>4. CASE Radius(sc)!Assign(w)
  BY <1>1, <1>4, AssignCust DEF CustInv
<1>5. CASE Radius(sc)!MarkGuest(w)
  <2>1. web'[w].op = "again" /\ bras' = bras /\ disturbed' = disturbed
    BY <1>0, <1>5 DEF Radius!MarkGuest, Radius!Thread
  <2>2. \A a \in Radius(sc)!Addresses : lease'[a].cust = lease[a].cust
    <3>1. lease' = [lease EXCEPT ![q.addr] =
            [lease[q.addr] EXCEPT !.mac = q.x, !.uname = q.x, !.up = TRUE, !.age = 0]]
      BY <1>5 DEF Radius!MarkGuest
    <3>2. \A a \in Radius(sc)!Addresses : lease[a] \in Radius(sc)!LeaseRecord
      BY <1>0
    <3> QED BY <1>0, <3>1, <3>2, <1>l
  <2>3. \A a \in Radius(sc)!Addresses, c \in Customers[sc] : Radius(sc)!Uses(c, a)'
            => Radius(sc)!Uses(c, a)
    BY <1>1, <2>1, QuietUses
  <2> QED BY <1>1, <1>2, <2>1, <2>2, <2>3 DEF CustInv
<1>6. CASE Radius(sc)!Again(w)
  <2>1. bras' = bras /\ disturbed' = disturbed /\ lease' = lease
    BY <1>6 DEF Radius!Again, Radius!Thread
  <2>2. ~(web'[w].op = "assign") /\ (web'[w].op = "answer" => web'[w].cust = NoCustomer)
    BY <1>0, <1>6, RequestShape DEF Radius!Again, Radius!Answering, Radius!End
  <2>3. \A a \in Radius(sc)!Addresses, c \in Customers[sc] : Radius(sc)!Uses(c, a)'
            => Radius(sc)!Uses(c, a)
    <3> SUFFICES ASSUME NEW a \in Radius(sc)!Addresses, NEW c \in Customers[sc],
                            Radius(sc)!Uses(c, a)' PROVE Radius(sc)!Uses(c, a)
      OBVIOUS
    <3>1. ~(c = NoCustomer)
      BY DEF Radius!LeaseAssumption
    <3> QED BY <1>1, <2>1, <2>2, <3>1 DEF Radius!Uses
  <2> QED BY <1>1, <1>2, <2>1, <2>2, <2>3 DEF CustInv
<1>7. CASE Radius(sc)!Answer(w)
  <2>1. lease' = lease /\ disturbed' = disturbed /\ web'[w].op = "free"
    BY <1>0, <1>7, RequestShape DEF Radius!Answer, Radius!End
  <2>2. \A a \in Radius(sc)!Addresses, c \in Customers[sc] : Radius(sc)!Uses(c, a)'
            => Radius(sc)!Uses(c, a)
    BY <1>7, AnswerUses
  <2> QED BY <1>1, <1>2, <2>1, <2>2 DEF CustInv
<1>8. CASE Radius(sc)!Counters(w) \/ Radius(sc)!Adopt(w)
  <2>1. bras' = bras /\ web'[w].op = "free"
    BY <1>0, <1>8, RequestShape DEF Radius!Counters, Radius!Adopt, Radius!Updated, Radius!End
  <2>2. \A a \in Radius(sc)!Addresses, c \in Customers[sc] : Radius(sc)!Uses(c, a)'
            => Radius(sc)!Uses(c, a)
    BY <1>1, <2>1, QuietUses
  <2>3. CASE Radius(sc)!Counters(w)
    <3>1. disturbed' = disturbed /\ lease' \in {lease, [lease EXCEPT ![q.addr].age = 0]}
      BY <2>3 DEF Radius!Counters
    <3>2. \A a \in Radius(sc)!Addresses : lease'[a].cust = lease[a].cust
      <4>1. \A a \in Radius(sc)!Addresses : lease[a] \in Radius(sc)!LeaseRecord
        BY <1>0
      <4> QED BY <1>0, <3>1, <4>1, <1>l
    <3> QED BY <1>1, <1>2, <2>1, <2>2, <3>1, <3>2 DEF CustInv
  <2>4. CASE Radius(sc)!Adopt(w)
    BY <1>1, <1>2, <2>1, <2>2, <2>4, RewriteTells DEF CustInv, Radius!Adopt
  <2> QED BY <1>8, <2>3, <2>4
<1> QED BY <1>3, <1>4, <1>5, <1>6, <1>7, <1>8 DEF Radius!Serve

(* Steps that write no request of a thread. *)
LEMMA QuietCust ==
  ASSUME NEW sc \in RadiusScenes, Radius(sc)!TypeOK, CustInv(sc), web' = web,
         disturbed \subseteq disturbed',
         \A x \in CPE[sc] : bras'[x].on =>
           bras[x].on /\ bras'[x].addr = bras[x].addr /\ bras'[x].cust = bras[x].cust,
         \A a \in Radius(sc)!Addresses \ disturbed' : Radius(sc)!InUse(a)
             => lease'[a].cust = lease[a].cust
  PROVE  CustInv(sc)'
<1>1. \A a \in Radius(sc)!Addresses, c \in Customers[sc] : Radius(sc)!Uses(c, a)'
          => Radius(sc)!Uses(c, a)
  BY QuietUses
<1>2. Recorded(sc)'
  BY <1>1, RecordedKept DEF CustInv
<1>3. Chosen(sc)'
  BY <1>1, ChosenKept DEF CustInv
<1> QED BY <1>2, <1>3 DEF CustInv, OneAtATime

LEMMA AcctCust ==
  ASSUME NEW sc \in RadiusScenes, Radius(sc)!LeaseAssumption, AtOnce = 1, Radius(sc)!TypeOK,
             CustInv(sc),
         NEW p \in net, Radius(sc)!Acct(p) \/ Radius(sc)!Lose(p)
  PROVE  CustInv(sc)'
<1>l. Radius(sc)!LeaseRecord = [cust : NoOrCustomers(sc), mac : CPE[sc] \cup {Nobody},
                              uname : CPE[sc] \cup {Nobody}, up : BOOLEAN, dyn : BOOLEAN,
                                  age : Ages(sc)]
  BY LeaseFields
<1>0. web \in [RadiusThreads -> Radius(sc)!Request]
          /\ lease \in [Radius(sc)!Addresses -> Radius(sc)!LeaseRecord] /\ RequestsTyped(sc, web)
  BY DEF Radius!TypeOK, RequestsTyped
<1>r. \A a \in Radius(sc)!Addresses : lease[a] \in Radius(sc)!LeaseRecord
  BY <1>0
<1>1. bras' = bras /\ disturbed' = disturbed
  BY DEF Radius!Acct, Radius!AcctStart, Radius!AcctStop, Radius!AcctUpdateFails, Radius!AcctUpdate,
     Radius!Lose
<1>2. \A a \in Radius(sc)!Addresses : lease'[a].cust = lease[a].cust
  <2>1. CASE Radius(sc)!AcctStart(p)
    <3>1. CASE lease' = [lease EXCEPT ![p.addr] =
            [lease[p.addr] EXCEPT !.mac = p.x, !.uname = p.x, !.up = TRUE, !.age = 0]]
      BY <1>0, <1>r, <3>1, <1>l
    <3> QED BY <2>1, <3>1 DEF Radius!AcctStart
  <2>2. CASE Radius(sc)!AcctStop(p)
    <3>1. lease' = [lease EXCEPT ![p.addr] = [lease[p.addr] EXCEPT !.up = FALSE, !.age = 0]]
      BY <2>2 DEF Radius!AcctStop
    <3> QED BY <1>0, <1>r, <3>1, <1>l
  <2>3. CASE Radius(sc)!AcctUpdateFails(p) \/ Radius(sc)!Lose(p)
            \/ \E w \in RadiusThreads : Radius(sc)!AcctUpdate(w, p)
    BY <2>3 DEF Radius!AcctUpdateFails, Radius!Lose, Radius!AcctUpdate
  <2> QED BY <2>1, <2>2, <2>3 DEF Radius!Acct
<1>3. CASE web' = web
  BY <1>1, <1>2, <1>3, QuietCust
<1>4. ASSUME NEW w \in RadiusThreads, Radius(sc)!AcctUpdate(w, p) PROVE CustInv(sc)'
  <2>1. \A v \in RadiusThreads : web[v] = Radius(sc)!Free /\ web[v].op = "free"
    BY <1>0, <1>4, NoneInFlight DEF Radius!AcctUpdate
  <2>2. web'[w].op \in {"counters", "adopt"} /\ \A v \in RadiusThreads \ {w} : web'[v] = web[v]
    BY <1>0, <1>4 DEF Radius!AcctUpdate
  <2>3. \A a \in Radius(sc)!Addresses, c \in Customers[sc] : Radius(sc)!Uses(c, a)'
            => Radius(sc)!Uses(c, a)
    <3>1. \A v \in RadiusThreads : web'[v].op = "answer" => web'[v] = web[v]
      BY <2>2
    <3> QED BY <1>1, <3>1, QuietUses
  <2>4. OneAtATime(sc)' /\ Chosen(sc)'
    BY <2>1, <2>2 DEF OneAtATime, Chosen
  <2>5. Recorded(sc)'
    BY <1>1, <1>2, <2>3, RecordedKept DEF CustInv
  <2> QED BY <2>4, <2>5 DEF CustInv
<1> QED BY <1>3, <1>4 DEF Radius!Acct, Radius!AcctStart, Radius!AcctStop, Radius!AcctUpdateFails,
           Radius!Lose

LEMMA SessionCust ==
  ASSUME NEW sc \in RadiusScenes, Radius(sc)!LeaseAssumption, Radius(sc)!TypeOK, CustInv(sc),
         NEW x \in CPE[sc], Radius(sc)!RunTask(x) \/ Radius(sc)!Disconnect(x) \/ Radius(sc)!Interim(x)
  PROVE  CustInv(sc)'
<1>0. SessionsTyped(sc, bras) /\ NetTyped(sc, net)
  BY TypeParts
<1>1. web' = web /\ disturbed' = disturbed /\ lease' = lease
  BY DEF Radius!RunTask, Radius!ChangeToInet, Radius!ChangeToGuest, Radius!Coa, Radius!CheckLease,
     Radius!Ran, Radius!Disconnect, Radius!Interim
<1>2. \A y \in CPE[sc] : bras'[y].on =>
        bras[y].on /\ bras'[y].addr = bras[y].addr /\ bras'[y].cust = bras[y].cust
  <2>1. CASE Radius(sc)!ChangeToInet(x) \/ Radius(sc)!ChangeToGuest(x)
    BY <1>0, <2>1, CoaSession DEF Radius!ChangeToInet, Radius!ChangeToGuest
  <2>2. CASE Radius(sc)!CheckLease(x) \/ Radius(sc)!Disconnect(x)
    BY <1>0, <2>2, DropTyped DEF Radius!CheckLease, Radius!Disconnect
  <2>3. CASE Radius(sc)!Interim(x)
    BY <2>3 DEF Radius!Interim
  <2> QED BY <2>1, <2>2, <2>3 DEF Radius!RunTask
<1> QED BY <1>1, <1>2, QuietCust

(* What operators, the DHCP server and the release write, they write with the ghost. *)
LEMMA OperatorRewrites ==
  ASSUME NEW sc \in RadiusScenes, Radius(sc)!Operator \/ Radius(sc)!ReleaseStale
  PROVE  /\ web' = web /\ bras' = bras /\ heard' = heard
         /\ (\E table : Radius(sc)!Rewrite(table)) \/ (lease' = lease /\ disturbed' = disturbed)
BY DEF Radius!Operator, Radius!ReleaseStale, Radius!Release, Radius!MakeStatic, Radius!DhcpCommit,
   Radius!ByHand, Radius!PickService, Radius!LoseService,
       Radius!SetActive

LEMMA OtherCust ==
  ASSUME NEW sc \in RadiusScenes, Radius(sc)!LeaseAssumption, Radius(sc)!TypeOK, CustInv(sc),
         Radius(sc)!ReleaseStale \/ Radius(sc)!Tick \/ Radius(sc)!Operator
  PROVE  CustInv(sc)'
<1>l. Radius(sc)!LeaseRecord = [cust : NoOrCustomers(sc), mac : CPE[sc] \cup {Nobody},
                              uname : CPE[sc] \cup {Nobody}, up : BOOLEAN, dyn : BOOLEAN,
                                  age : Ages(sc)]
  BY LeaseFields
<1>1. CASE Radius(sc)!Operator \/ Radius(sc)!ReleaseStale
  BY <1>1, OperatorRewrites, RewriteTells, QuietCust
<1>2. CASE Radius(sc)!Tick
  <2>1. lease \in [Radius(sc)!Addresses -> Radius(sc)!LeaseRecord]
    BY DEF Radius!TypeOK
  <2>2. \A a \in Radius(sc)!Addresses : lease'[a].cust = lease[a].cust
    BY <1>2, <2>1, <1>l DEF Radius!Tick
  <2> QED BY <1>2, <2>2, QuietCust DEF Radius!Tick
<1> QED BY <1>1, <1>2

LEMMA CustStep ==
  ASSUME NEW sc \in RadiusScenes, Radius(sc)!LeaseAssumption, AtOnce = 1, Radius(sc)!TypeOK,
             CustInv(sc),
         [Radius(sc)!Next]_(Radius(sc)!vars)
  PROVE  CustInv(sc)'
<1>1. CASE UNCHANGED Radius(sc)!vars
  BY <1>1, QuietCust DEF Radius!vars
<1> QED BY <1>1, AuthCust, ServeCust, AcctCust, SessionCust, OtherCust DEF Radius!Next

LEMMA CustInit ==
  ASSUME NEW sc \in RadiusScenes, Radius(sc)!Init
  PROVE  CustInv(sc)
BY DEF Radius!Init, CustInv, OneAtATime, Recorded, Chosen, Radius!Uses, Radius!NoSession, Radius!Free

LEMMA CustSays ==
  ASSUME NEW sc \in RadiusScenes, Radius(sc)!LeaseAssumption, CustInv(sc)
  PROVE  Radius(sc)!OneCustomerPerAddress
<1>1. Inet[sc] \subseteq Radius(sc)!Addresses
  BY DEF Radius!Addresses
<1> QED BY <1>1 DEF Radius!OneCustomerPerAddress, CustInv, Recorded

(* No two devices are plugged into the ports of one customer. *)
ApartDevices(sc) == \A x, y \in CPE[sc] : Radius(sc)!Known(x) /\ Radius(sc)!Known(y)
    /\ Owner[sc][x] = Owner[sc][y] => x = y

(* The lease of a session that was heard of is as fresh as what was heard, and an
   update that found the row of its device finds it still. *)
Fresh(sc) ==
  \A x \in CPE[sc] :
    Radius(sc)!Live(x) /\ heard[x] # Radius(sc)!Never /\ bras[x].addr \notin disturbed
        /\ lease[bras[x].addr].dyn =>
      lease[bras[x].addr].age <= heard[x]
Counted(sc) ==
  \A w \in RadiusThreads : web[w].op = "counters" =>
    \A x \in CPE[sc], a \in Radius(sc)!Addresses \ disturbed :
      x = web[w].x /\ a = web[w].addr /\ Radius(sc)!Live(x) /\ bras[x].addr = a /\ lease[a].dyn =>
        Radius(sc)!IsMine(lease[a], x)

LEMMA FreshKept ==
  ASSUME NEW sc \in RadiusScenes, Radius(sc)!LeaseAssumption, Radius(sc)!TypeOK, Fresh(sc),
         HeardTyped(sc, heard'), disturbed \subseteq disturbed',
         \A x \in CPE[sc] : bras'[x].on /\ heard'[x] # Radius(sc)!Never =>
           bras[x].on /\ bras'[x].addr = bras[x].addr,
         \A a \in Radius(sc)!Addresses : lease'[a].dyn =>
           lease[a].dyn /\ (lease'[a].age \in {Radius(sc)!Never, 0} \/ lease'[a].age = lease[a].age),
         \A x \in CPE[sc] : bras'[x].on /\ heard'[x] # Radius(sc)!Never /\ heard'[x] # heard[x] =>
           (bras[x].addr \notin disturbed' /\ lease'[bras[x].addr].dyn =>
              lease'[bras[x].addr].age = 0)
  PROVE  Fresh(sc)'
<1> SUFFICES ASSUME NEW x \in CPE[sc], bras'[x].on, heard'[x] # Radius(sc)!Never,
                    bras'[x].addr \notin disturbed',
                    lease'[bras'[x].addr].dyn
             PROVE  lease'[bras'[x].addr].age <= heard'[x]
  BY DEF Fresh, Radius!Live
<1> DEFINE a == bras[x].addr
<1>1. Radius(sc)!Live(x) /\ bras'[x].addr = a /\ a \notin disturbed
  BY DEF Radius!Live
<1>2. a \in Radius(sc)!Addresses
  BY <1>1, TypeParts, LiveHasAddress
<1>3. heard'[x] \in Nat
  BY DEF HeardTyped, Ages, Radius!LeaseAssumption
<1> HIDE DEF a
<1>4. lease[a].dyn /\ (lease'[a].age \in {Radius(sc)!Never, 0} \/ lease'[a].age = lease[a].age)
  BY <1>1, <1>2
<1>5. CASE heard'[x] = heard[x]
  <2>1. lease[a].age <= heard[x]
    BY <1>1, <1>4, <1>5 DEF Fresh, a
  <2> QED BY <1>1, <1>3, <1>4, <1>5, <2>1 DEF Radius!Never
<1>6. CASE heard'[x] # heard[x]
  <2>1. lease'[a].age = 0
    BY <1>1, <1>6 DEF a
  <2> QED BY <1>1, <1>3, <2>1
<1> QED BY <1>5, <1>6

LEMMA CountedKept ==
  ASSUME NEW sc \in RadiusScenes, Radius(sc)!TypeOK, Counted(sc), disturbed \subseteq disturbed',
         \A w \in RadiusThreads : web'[w].op = "counters" => web'[w] = web[w],
         \A x \in CPE[sc] : bras'[x].on => bras[x].on /\ bras'[x].addr = bras[x].addr,
         \A a \in Radius(sc)!Addresses : lease'[a].dyn => lease[a].dyn,
         \A x \in CPE[sc], a \in Radius(sc)!Addresses \ disturbed' :
           Radius(sc)!Known(x) /\ Radius(sc)!InUse(a) /\ lease'[a].dyn
               /\ Radius(sc)!IsMine(lease[a], x) => Radius(sc)!IsMine(lease'[a], x)
  PROVE  Counted(sc)'
<1> SUFFICES ASSUME NEW w \in RadiusThreads, web'[w].op = "counters", NEW x \in CPE[sc],
                    NEW a \in Radius(sc)!Addresses \ disturbed',
                    x = web'[w].x, a = web'[w].addr, bras'[x].on, bras'[x].addr = a, lease'[a].dyn
             PROVE  Radius(sc)!IsMine(lease'[a], x)
  BY DEF Counted, Radius!Live
<1>1. web'[w] = web[w] /\ web[w] \in Radius(sc)!Request
  BY DEF Radius!TypeOK
<1>2. Radius(sc)!Known(x)
  BY <1>1, RequestShape
<1>3. Radius(sc)!Live(x) /\ bras[x].addr = a /\ lease[a].dyn /\ a \notin disturbed
  BY DEF Radius!Live
<1>4. Radius(sc)!IsMine(lease[a], x)
  BY <1>1, <1>3 DEF Counted
<1>5. Radius(sc)!InUse(a)
  <2>1. bras[x].cust \in Customers[sc] \cup {NoCustomer}
    BY <1>3, TypeParts, LiveHasAddress
  <2> QED BY <1>3, <2>1 DEF Radius!InUse, Radius!Uses, Radius!Live
<1> QED BY <1>2, <1>4, <1>5

HeardInv(sc) == OneAtATime(sc) /\ Fresh(sc) /\ Counted(sc)

LEMMA HeardInit ==
  ASSUME NEW sc \in RadiusScenes, Radius(sc)!Init
  PROVE  HeardInv(sc)
BY DEF Radius!Init, HeardInv, OneAtATime, Fresh, Counted, Radius!Live, Radius!NoSession, Radius!Free

LEMMA AuthHeard ==
  ASSUME NEW sc \in RadiusScenes, Radius(sc)!LeaseAssumption, AtOnce = 1, Radius(sc)!TypeOK,
         Radius(sc)!TypeOK', HeardInv(sc),
         NEW w \in RadiusThreads, NEW x \in CPE[sc], Radius(sc)!Auth(w, x)
  PROVE  HeardInv(sc)'
<1>0. RequestsTyped(sc, web) /\ HeardTyped(sc, heard')
  BY TypeParts, TypePartsNext
<1>1. Radius(sc)!Ask(w, x)
  BY DEF Radius!Auth, Radius!AuthKnown, Radius!AuthNew, Radius!AuthByMac, Radius!AuthGuest
<1>2. \A v \in RadiusThreads : web[v] = Radius(sc)!Free /\ web[v].op = "free"
  BY <1>0, <1>1, NoneInFlight DEF Radius!Ask
<1>3. lease' = lease /\ bras' = bras /\ disturbed' = disturbed /\ heard' = heard
  BY <1>1 DEF Radius!Ask
<1>4. /\ \A v \in RadiusThreads \ {w} : web'[v] = web[v]
      /\ ~(web'[w].op = "counters")
  BY <1>0 DEF Radius!Auth, Radius!AuthKnown, Radius!AuthNew, Radius!AuthByMac, Radius!AuthGuest,
     Radius!Answering, RequestsTyped
<1>5. OneAtATime(sc)'
  BY <1>2, <1>4 DEF OneAtATime
<1>6. Fresh(sc)'
  BY <1>0, <1>3, FreshKept DEF HeardInv
<1>7. Counted(sc)'
  BY <1>2, <1>4 DEF Counted
<1> QED BY <1>5, <1>6, <1>7 DEF HeardInv

LEMMA ServeHeard ==
  ASSUME NEW sc \in RadiusScenes, Radius(sc)!LeaseAssumption, Radius(sc)!TypeOK, Radius(sc)!TypeOK',
         HeardInv(sc), NEW w \in RadiusThreads, Radius(sc)!Serve(w)
  PROVE  HeardInv(sc)'
<1>l. Radius(sc)!LeaseRecord = [cust : NoOrCustomers(sc), mac : CPE[sc] \cup {Nobody},
                              uname : CPE[sc] \cup {Nobody}, up : BOOLEAN, dyn : BOOLEAN,
                                  age : Ages(sc)]
  BY LeaseFields
<1> DEFINE q == web[w]
<1>0. /\ web \in [RadiusThreads -> Radius(sc)!Request] /\ q \in Radius(sc)!Request
             /\ lease \in [Radius(sc)!Addresses -> Radius(sc)!LeaseRecord]
      /\ HeardTyped(sc, heard') /\ heard \in [CPE[sc] -> Ages(sc)]
             /\ bras \in [CPE[sc] -> Radius(sc)!Session]
  BY TypeParts, TypePartsNext DEF Radius!TypeOK, HeardTyped
<1>r. \A a \in Radius(sc)!Addresses : lease[a] \in Radius(sc)!LeaseRecord
  BY <1>0
<1>1. \A v \in RadiusThreads \ {w} : web'[v] = web[v] /\ web[v].op = "free"
  BY ServeAlone DEF HeardInv
<1>2. OneAtATime(sc)'
  BY ServeAlone DEF HeardInv
<1>3. ~(web'[w].op = "counters")
  <2>1. CASE Radius(sc)!Pick(w)
    <3>1. q \in [op : {"pick"}, x : CPE[sc], cust : Customers[sc], from : {Inet[sc], Guest[sc]},
              inet : BOOLEAN]
      BY <1>0, <2>1, RequestShape DEF Radius!Pick, Radius!Thread
    <3> QED BY <1>0, <2>1, <3>1, RequestShape DEF Radius!Pick, Radius!End
  <2>2. CASE Radius(sc)!Assign(w)
    BY <1>0, <2>2 DEF Radius!Assign, Radius!Answering
  <2>3. CASE Radius(sc)!MarkGuest(w)
    BY <1>0, <2>3 DEF Radius!MarkGuest
  <2>4. CASE Radius(sc)!Again(w)
    BY <1>0, <2>4, RequestShape DEF Radius!Again, Radius!Answering, Radius!End
  <2>5. CASE Radius(sc)!Answer(w) \/ Radius(sc)!Counters(w) \/ Radius(sc)!Adopt(w)
    BY <1>0, <2>5, RequestShape DEF Radius!Answer, Radius!Counters, Radius!Adopt, Radius!Updated, Radius!End
  <2> QED BY <2>1, <2>2, <2>3, <2>4, <2>5 DEF Radius!Serve
<1>4. Counted(sc)'
  BY <1>1, <1>3 DEF Counted
<1>5. Fresh(sc)'
  <2>1. CASE Radius(sc)!Pick(w) \/ Radius(sc)!Again(w)
    <3>1. lease' = lease /\ bras' = bras /\ disturbed' = disturbed /\ heard' = heard
      BY <2>1 DEF Radius!Pick, Radius!Again, Radius!Thread
    <3> QED BY <1>0, <3>1, FreshKept DEF HeardInv
  <2>2. CASE Radius(sc)!Assign(w) \/ Radius(sc)!MarkGuest(w)
    <3>1. bras' = bras /\ disturbed' = disturbed /\ heard' = heard
      BY <2>2 DEF Radius!Assign, Radius!MarkGuest, Radius!Thread
    <3>2. \/ lease' = [lease EXCEPT ![q.addr] =
               [lease[q.addr] EXCEPT !.cust = q.cust, !.mac = q.x, !.uname = q.x, !.age = 0]]
          \/ lease' = [lease EXCEPT ![q.addr] =
               [lease[q.addr] EXCEPT !.mac = q.x, !.uname = q.x, !.up = TRUE, !.age = 0]]
      BY <2>2 DEF Radius!Assign, Radius!MarkGuest
    <3>3. \A a \in Radius(sc)!Addresses :
            lease'[a].dyn = lease[a].dyn /\ (lease'[a].age = 0 \/ lease'[a].age = lease[a].age)
      <4>1. CASE lease' = [lease EXCEPT ![q.addr] =
               [lease[q.addr] EXCEPT !.cust = q.cust, !.mac = q.x, !.uname = q.x, !.age = 0]]
        BY <1>0, <1>r, <4>1, <1>l
      <4>2. CASE lease' = [lease EXCEPT ![q.addr] =
               [lease[q.addr] EXCEPT !.mac = q.x, !.uname = q.x, !.up = TRUE, !.age = 0]]
        BY <1>0, <1>r, <4>2, <1>l
      <4> QED BY <3>2, <4>1, <4>2
    <3> QED BY <1>0, <3>1, <3>3, FreshKept DEF HeardInv
  <2>3. CASE Radius(sc)!Answer(w)
    <3>1. q.x \in CPE[sc]
      BY <1>0, <2>3, RequestShape DEF Radius!Answer
    <3>2. /\ lease' = lease /\ disturbed' = disturbed
          /\ heard'[q.x] = Radius(sc)!Never
          /\ \A y \in CPE[sc] \ {q.x} : bras'[y] = bras[y] /\ heard'[y] = heard[y]
      BY <1>0, <2>3, <3>1 DEF Radius!Answer
    <3>3. \A y \in CPE[sc] : heard'[y] # Radius(sc)!Never => bras'[y] = bras[y] /\ heard'[y] = heard[y]
      BY <3>2
    <3> QED BY <1>0, <3>2, <3>3, FreshKept DEF HeardInv
  <2>4. CASE Radius(sc)!Counters(w) \/ Radius(sc)!Adopt(w)
    <3>1. q.op \in {"counters", "adopt"} /\ Radius(sc)!Accepted(q) /\ bras' = bras
      BY <2>4 DEF Radius!Counters, Radius!Adopt, Radius!Updated
    <3>2. q.x \in CPE[sc] /\ q.addr \in Radius(sc)!Addresses
      BY <1>0, <3>1, RequestShape
    <3>3. \A y \in CPE[sc] : heard'[y] # heard[y] => y = q.x /\ Radius(sc)!Live(y)
              /\ bras[y].addr = q.addr
      BY <1>0, <3>1, <3>2 DEF Radius!Accepted
    <3>4. disturbed \subseteq disturbed'
      BY <2>4, RewriteTells DEF Radius!Counters, Radius!Adopt
    <3>5. \A a \in Radius(sc)!Addresses :
            lease'[a].dyn = lease[a].dyn /\ (lease'[a].age = 0 \/ lease'[a].age = lease[a].age)
      <4>1. CASE lease' = lease
        BY <4>1
      <4>2. CASE lease' = [lease EXCEPT ![q.addr].age = 0]
        BY <1>0, <1>r, <4>2, <1>l
      <4>3. CASE lease' = [lease EXCEPT ![q.addr] =
              [lease[q.addr] EXCEPT !.cust = Owner[sc][q.x], !.mac = q.x, !.uname = q.x, !.up = TRUE,
                  !.age = 0]]
        BY <1>0, <1>r, <4>3, <1>l
      <4> QED BY <2>4, <4>1, <4>2, <4>3 DEF Radius!Counters, Radius!Adopt, Radius!Rewrite
    <3>6. ASSUME q.addr \notin disturbed', lease'[q.addr].dyn, Radius(sc)!Live(q.x),
                     bras[q.x].addr = q.addr
          PROVE  lease'[q.addr].age = 0
      <4>1. lease[q.addr].dyn /\ q.addr \in Radius(sc)!Addresses \ disturbed
        BY <3>2, <3>4, <3>5, <3>6
      <4>2. CASE Radius(sc)!Counters(w)
        <5>1. q.op = "counters"
          BY <4>2 DEF Radius!Counters, Radius!Updated
        <5>2. Radius(sc)!IsMine(lease[q.addr], q.x)
          BY <3>2, <3>6, <4>1, <5>1 DEF HeardInv, Counted
        <5>3. lease' = [lease EXCEPT ![q.addr].age = 0]
          BY <4>2, <5>2 DEF Radius!Counters
        <5> QED BY <1>0, <1>r, <3>2, <5>3, <1>l
      <4>3. CASE Radius(sc)!Adopt(w)
        <5>1. lease' = [lease EXCEPT ![q.addr] =
              [lease[q.addr] EXCEPT !.cust = Owner[sc][q.x], !.mac = q.x, !.uname = q.x, !.up = TRUE,
                  !.age = 0]]
          BY <4>3 DEF Radius!Adopt, Radius!Rewrite
        <5> QED BY <1>0, <1>r, <3>2, <5>1, <1>l
      <4> QED BY <2>4, <4>2, <4>3
    <3>7. \A y \in CPE[sc] : bras'[y].on /\ heard'[y] # Radius(sc)!Never /\ heard'[y] # heard[y] =>
            (bras[y].addr \notin disturbed' /\ lease'[bras[y].addr].dyn => lease'[bras[y].addr].age = 0)
      BY <3>3, <3>6
    <3> QED BY <1>0, <3>1, <3>4, <3>5, <3>7, FreshKept DEF HeardInv
  <2> QED BY <2>1, <2>2, <2>3, <2>4 DEF Radius!Serve
<1> QED BY <1>2, <1>4, <1>5 DEF HeardInv

LEMMA AcctHeard ==
  ASSUME NEW sc \in RadiusScenes, Radius(sc)!LeaseAssumption, ApartDevices(sc), AtOnce = 1,
         Radius(sc)!TypeOK, Radius(sc)!TypeOK', HeardInv(sc), NEW p \in net,
         Radius(sc)!Acct(p) \/ Radius(sc)!Lose(p)
  PROVE  HeardInv(sc)'
<1>l. Radius(sc)!LeaseRecord = [cust : NoOrCustomers(sc), mac : CPE[sc] \cup {Nobody},
                              uname : CPE[sc] \cup {Nobody}, up : BOOLEAN, dyn : BOOLEAN,
                                  age : Ages(sc)]
  BY LeaseFields
<1>0. /\ web \in [RadiusThreads -> Radius(sc)!Request]
             /\ lease \in [Radius(sc)!Addresses -> Radius(sc)!LeaseRecord] /\ RequestsTyped(sc, web)
      /\ HeardTyped(sc, heard') /\ heard \in [CPE[sc] -> Ages(sc)]
  BY TypeParts, TypePartsNext DEF Radius!TypeOK, HeardTyped, RequestsTyped
<1>r. \A a \in Radius(sc)!Addresses : lease[a] \in Radius(sc)!LeaseRecord
  BY <1>0
<1>p. p.x \in CPE[sc] /\ p.addr \in Radius(sc)!Addresses
  BY DEF Radius!TypeOK
<1>1. bras' = bras /\ disturbed' = disturbed
  BY DEF Radius!Acct, Radius!AcctStart, Radius!AcctStop, Radius!AcctUpdateFails, Radius!AcctUpdate,
     Radius!Lose
<1>2. ASSUME web' = web,
             \A a \in Radius(sc)!Addresses :
               lease'[a].dyn = lease[a].dyn /\ (lease'[a].age = 0 \/ lease'[a].age = lease[a].age),
             \A x \in CPE[sc] : heard'[x] # heard[x] =>
               bras[x].addr = p.addr /\ lease'[p.addr].age = 0,
             \A x \in CPE[sc], a \in Radius(sc)!Addresses :
               Radius(sc)!Known(x) /\ Radius(sc)!IsMine(lease[a], x) => Radius(sc)!IsMine(lease'[a], x)
      PROVE  HeardInv(sc)'
  <2>1. Fresh(sc)'
    <3>1. \A x \in CPE[sc] : bras'[x].on /\ heard'[x] # Radius(sc)!Never /\ heard'[x] # heard[x] =>
           (bras[x].addr \notin disturbed' /\ lease'[bras[x].addr].dyn =>
              lease'[bras[x].addr].age = 0)
      BY <1>2
    <3> QED BY <1>0, <1>1, <1>2, <3>1, FreshKept DEF HeardInv
  <2>2. Counted(sc)'
    BY <1>0, <1>1, <1>2, CountedKept DEF HeardInv
  <2> QED BY <1>2, <2>1, <2>2 DEF HeardInv, OneAtATime
<1>3. CASE Radius(sc)!AcctStart(p)
  <2>1. CASE lease' = lease /\ heard' = heard
    BY <1>2, <1>3, <2>1 DEF Radius!AcctStart
  <2>2. CASE ~(lease' = lease /\ heard' = heard)
    <3>1. /\ Radius(sc)!Known(p.x) /\ lease[p.addr].cust = Owner[sc][p.x] /\ Radius(sc)!Accepted(p)
                 /\ web' = web
          /\ lease' = [lease EXCEPT ![p.addr] =
               [lease[p.addr] EXCEPT !.mac = p.x, !.uname = p.x, !.up = TRUE, !.age = 0]]
      BY <1>3, <2>2 DEF Radius!AcctStart
    <3>2. /\ \A a \in Radius(sc)!Addresses :
               lease'[a].dyn = lease[a].dyn /\ (lease'[a].age = 0 \/ lease'[a].age = lease[a].age)
          /\ lease'[p.addr].age = 0
          /\ \A a \in Radius(sc)!Addresses \ {p.addr} : lease'[a] = lease[a]
          /\ lease'[p.addr].cust = lease[p.addr].cust /\ lease'[p.addr].mac = p.x
      BY <1>0, <1>r, <1>p, <3>1, <1>l
    <3>3. \A x \in CPE[sc] : heard'[x] # heard[x] => bras[x].addr = p.addr
      BY <1>0, <1>p, <3>1 DEF Radius!Accepted
    <3>4. \A x \in CPE[sc], a \in Radius(sc)!Addresses :
               Radius(sc)!Known(x) /\ Radius(sc)!IsMine(lease[a], x) => Radius(sc)!IsMine(lease'[a], x)
      BY <1>p, <3>1, <3>2 DEF Radius!IsMine, ApartDevices
    <3> QED BY <1>2, <3>1, <3>2, <3>3, <3>4
  <2> QED BY <2>1, <2>2
<1>4. CASE Radius(sc)!AcctStop(p)
  <2>1. /\ lease' = [lease EXCEPT ![p.addr] = [lease[p.addr] EXCEPT !.up = FALSE, !.age = 0]]
        /\ web' = web /\ heard' = heard
    BY <1>4 DEF Radius!AcctStop
  <2>2. \A a \in Radius(sc)!Addresses :
             /\ lease'[a].dyn = lease[a].dyn /\ (lease'[a].age = 0 \/ lease'[a].age = lease[a].age)
             /\ lease'[a].cust = lease[a].cust /\ lease'[a].mac = lease[a].mac
    BY <1>0, <1>r, <1>p, <2>1, <1>l
  <2> QED BY <1>2, <2>1, <2>2 DEF Radius!IsMine
<1>5. CASE Radius(sc)!AcctUpdateFails(p) \/ Radius(sc)!Lose(p)
  BY <1>2, <1>5 DEF Radius!AcctUpdateFails, Radius!Lose
<1>6. ASSUME NEW w \in RadiusThreads, Radius(sc)!AcctUpdate(w, p) PROVE HeardInv(sc)'
  <2>1. \A v \in RadiusThreads : web[v] = Radius(sc)!Free /\ web[v].op = "free"
    BY <1>0, <1>6, NoneInFlight DEF Radius!AcctUpdate
  <2>2. /\ \A v \in RadiusThreads \ {w} : web'[v] = web[v]
        /\ web'[w].x = p.x /\ web'[w].addr = p.addr
        /\ web'[w].op = IF Radius(sc)!IsMine(lease[p.addr], p.x) THEN "counters" ELSE "adopt"
        /\ lease' = lease /\ heard' = heard
    BY <1>0, <1>6 DEF Radius!AcctUpdate
  <2>3. OneAtATime(sc)'
    BY <2>1, <2>2 DEF OneAtATime
  <2>4. Fresh(sc)'
    BY <1>0, <1>1, <2>2, FreshKept DEF HeardInv
  <2>5. Counted(sc)'
    <3>1. web'[w].op = "counters" => Radius(sc)!IsMine(lease'[p.addr], p.x)
      BY <2>2
    <3> HIDE DEF Radius!IsMine
    <3> QED BY <2>1, <2>2, <3>1 DEF Counted
  <2> QED BY <2>3, <2>4, <2>5 DEF HeardInv
<1> QED BY <1>3, <1>4, <1>5, <1>6 DEF Radius!Acct

LEMMA SessionHeard ==
  ASSUME NEW sc \in RadiusScenes, Radius(sc)!LeaseAssumption, Radius(sc)!TypeOK, Radius(sc)!TypeOK',
         HeardInv(sc), NEW x \in CPE[sc],
         Radius(sc)!RunTask(x) \/ Radius(sc)!Disconnect(x) \/ Radius(sc)!Interim(x)
  PROVE  HeardInv(sc)'
<1>0. SessionsTyped(sc, bras) /\ NetTyped(sc, net) /\ HeardTyped(sc, heard')
  BY TypeParts, TypePartsNext
<1>1. web' = web /\ disturbed' = disturbed /\ lease' = lease /\ heard' = heard
  BY DEF Radius!RunTask, Radius!ChangeToInet, Radius!ChangeToGuest, Radius!Coa, Radius!CheckLease,
     Radius!Ran, Radius!Disconnect, Radius!Interim
<1>2. \A y \in CPE[sc] : bras'[y].on => bras[y].on /\ bras'[y].addr = bras[y].addr
  <2>1. CASE Radius(sc)!ChangeToInet(x) \/ Radius(sc)!ChangeToGuest(x)
    BY <1>0, <2>1, CoaSession DEF Radius!ChangeToInet, Radius!ChangeToGuest
  <2>2. CASE Radius(sc)!CheckLease(x) \/ Radius(sc)!Disconnect(x)
    BY <1>0, <2>2, DropTyped DEF Radius!CheckLease, Radius!Disconnect
  <2>3. CASE Radius(sc)!Interim(x)
    BY <2>3 DEF Radius!Interim
  <2> QED BY <2>1, <2>2, <2>3 DEF Radius!RunTask
<1>3. Fresh(sc)'
  BY <1>0, <1>1, <1>2, FreshKept DEF HeardInv
<1>4. Counted(sc)'
  BY <1>1, <1>2, CountedKept DEF HeardInv
<1> QED BY <1>1, <1>3, <1>4 DEF HeardInv, OneAtATime

(* What operators, the DHCP server and the release leave of a row in use. *)
LEMMA RewrittenRows ==
  ASSUME NEW sc \in RadiusScenes, Radius(sc)!LeaseAssumption, Radius(sc)!TypeOK,
         Radius(sc)!Operator \/ Radius(sc)!ReleaseStale
  PROVE  /\ web' = web /\ bras' = bras /\ heard' = heard /\ disturbed \subseteq disturbed'
         /\ \A a \in Radius(sc)!Addresses :
              lease'[a].dyn => lease[a].dyn
                  /\ (lease'[a].age \in {Radius(sc)!Never, 0} \/ lease'[a].age = lease[a].age)
         /\ \A x \in CPE[sc], a \in Radius(sc)!Addresses \ disturbed' :
              Radius(sc)!Known(x) /\ Radius(sc)!InUse(a) /\ lease'[a].dyn
                  /\ Radius(sc)!IsMine(lease[a], x) => Radius(sc)!IsMine(lease'[a], x)
<1>l. Radius(sc)!LeaseRecord = [cust : NoOrCustomers(sc), mac : CPE[sc] \cup {Nobody},
                              uname : CPE[sc] \cup {Nobody}, up : BOOLEAN, dyn : BOOLEAN,
                                  age : Ages(sc)]
  BY LeaseFields
<1>0. lease \in [Radius(sc)!Addresses -> Radius(sc)!LeaseRecord]
          /\ \A a \in Radius(sc)!Addresses : lease[a] \in Radius(sc)!LeaseRecord
  BY DEF Radius!TypeOK
<1>1. web' = web /\ bras' = bras /\ heard' = heard /\ disturbed \subseteq disturbed'
  BY OperatorRewrites, RewriteTells
<1>2. \A a \in Radius(sc)!Addresses \ disturbed' : Radius(sc)!InUse(a) => lease'[a].cust = lease[a].cust
  BY OperatorRewrites, RewriteTells
<1> DEFINE Unlike(a, l) ==
             /\ \E x \in CPE[sc] : l = [lease[a] EXCEPT !.cust = Owner[sc][x], !.mac = x, !.age = 0]
             /\ l.cust # lease[a].cust
           Becomes(a, l) == \/ l = lease[a]
                            \/ l = Radius(sc)!Released(lease[a])
                            \/ l.dyn = FALSE
                            \/ l = [lease[a] EXCEPT !.age = 0]
                            \/ Unlike(a, l)
<1>3. ASSUME NEW a \in Radius(sc)!Addresses
      PROVE  Becomes(a, lease'[a])
  <2>1. ASSUME NEW b \in Radius(sc)!Addresses, Radius(sc)!Release(b) PROVE Becomes(a, lease'[a])
    <3>1. lease'[a] \in {lease[a], Radius(sc)!Released(lease[a])}
      BY <1>0, <2>1 DEF Radius!Release, Radius!Rewrite
    <3> QED BY <3>1
  <2>2. ASSUME Radius(sc)!ReleaseStale PROVE Becomes(a, lease'[a])
    <3>1. lease'[a] \in {lease[a], Radius(sc)!Released(lease[a])}
      BY <1>0, <2>2 DEF Radius!ReleaseStale, Radius!Rewrite
    <3> QED BY <3>1
  <2>3. ASSUME NEW b \in Radius(sc)!Addresses, NEW c \in Customers[sc], NEW m \in CPE[sc] \cup {Nobody},
               Radius(sc)!MakeStatic(b, c, m)
        PROVE  Becomes(a, lease'[a])
    <3>1. lease' = [lease EXCEPT ![b] =
            [lease[b] EXCEPT !.cust = c, !.mac = m, !.dyn = FALSE, !.up = TRUE, !.age = 0]]
      BY <2>3 DEF Radius!MakeStatic, Radius!Rewrite
    <3>2. lease'[a] = lease[a] \/ lease'[a].dyn = FALSE
      BY <1>0, <3>1, <1>l
    <3> QED BY <3>2
  <2>4. ASSUME NEW b \in Radius(sc)!Addresses, NEW x \in CPE[sc], Radius(sc)!DhcpCommit(b, x)
        PROVE  Becomes(a, lease'[a])
    <3>1. lease' = [lease EXCEPT ![b] =
            IF lease[b].cust = Owner[sc][x] THEN [lease[b] EXCEPT !.age = 0]
            ELSE [lease[b] EXCEPT !.cust = Owner[sc][x], !.mac = x, !.age = 0]]
      BY <2>4 DEF Radius!DhcpCommit, Radius!Rewrite
    <3>2. CASE lease[b].cust = Owner[sc][x]
      <4>1. lease'[a] = lease[a] \/ lease'[a] = [lease[a] EXCEPT !.age = 0]
        BY <1>0, <3>1, <3>2
      <4> QED BY <4>1
    <3>3. CASE lease[b].cust # Owner[sc][x]
      <4>1. lease' = [lease EXCEPT ![b] = [lease[b] EXCEPT !.cust = Owner[sc][x], !.mac = x, !.age = 0]]
        BY <3>1, <3>3
      <4>2. CASE a = b
        <5>1. lease'[a] = [lease[a] EXCEPT !.cust = Owner[sc][x], !.mac = x, !.age = 0]
          BY <1>0, <4>1, <4>2
        <5>2. lease[a] \in Radius(sc)!LeaseRecord
          BY <1>0
        <5>3. lease'[a].cust = Owner[sc][x]
          BY <5>1, <5>2, <1>l
        <5> QED BY <3>3, <4>2, <5>1, <5>3
      <4>3. CASE a # b
        BY <1>0, <4>1, <4>3
      <4> QED BY <4>2, <4>3
    <3> QED BY <3>2, <3>3
  <2>5. ASSUME NEW c \in Customers[sc],
               Radius(sc)!PickService(c) \/ Radius(sc)!LoseService(c) \/ Radius(sc)!SetActive(c)
        PROVE  Becomes(a, lease'[a])
    BY <2>5 DEF Radius!PickService, Radius!LoseService, Radius!SetActive
  <2> HIDE DEF Becomes
  <2> QED BY <2>1, <2>2, <2>3, <2>4, <2>5 DEF Radius!Operator
<1>4. ASSUME NEW a \in Radius(sc)!Addresses, lease'[a].dyn
      PROVE  lease[a].dyn /\ (lease'[a].age \in {Radius(sc)!Never, 0} \/ lease'[a].age = lease[a].age)
  <2>1. lease[a] \in Radius(sc)!LeaseRecord
    BY <1>0
  <2>2. ASSUME lease'[a] = Radius(sc)!Released(lease[a]) PROVE lease'[a].dyn = lease[a].dyn
                   /\ lease'[a].age = Radius(sc)!Never
    BY <2>1, <2>2, ReleasedFields
  <2>3. ASSUME Unlike(a, lease'[a]) PROVE lease'[a].dyn = lease[a].dyn /\ lease'[a].age = 0
    BY <2>1, <2>3, <1>l
  <2>4. ASSUME lease'[a] = [lease[a] EXCEPT !.age = 0] PROVE lease'[a].dyn = lease[a].dyn
                   /\ lease'[a].age = 0
    BY <2>1, <2>4, <1>l
  <2>5. \/ lease'[a] = lease[a] \/ lease'[a] = Radius(sc)!Released(lease[a])
        \/ lease'[a] = [lease[a] EXCEPT !.age = 0] \/ Unlike(a, lease'[a])
    <3> HIDE DEF Unlike
    <3> QED BY <1>3, <1>4
  <2>6. lease'[a].dyn = lease[a].dyn
            /\ (lease'[a].age \in {Radius(sc)!Never, 0} \/ lease'[a].age = lease[a].age)
    <3> HIDE DEF Unlike
    <3> QED BY <2>2, <2>3, <2>4, <2>5
  <2> QED BY <1>4, <2>6
<1>5. ASSUME NEW x \in CPE[sc], NEW a \in Radius(sc)!Addresses \ disturbed',
             Radius(sc)!Known(x), Radius(sc)!InUse(a), lease'[a].dyn, Radius(sc)!IsMine(lease[a], x)
      PROVE  Radius(sc)!IsMine(lease'[a], x)
  <2>1. lease'[a].cust = lease[a].cust
    BY <1>2, <1>5
  <2>2. ~(lease[a].cust = NoCustomer)
    BY <1>5 DEF Radius!IsMine, Radius!Known
  <2>3. ~(lease'[a] = Radius(sc)!Released(lease[a]))
    BY <1>0, <2>1, <2>2, ReleasedFields
  <2>4. lease'[a] = lease[a] \/ lease'[a] = [lease[a] EXCEPT !.age = 0]
    BY <1>3, <1>5, <2>1, <2>3
  <2> QED BY <1>0, <1>5, <2>4, <1>l DEF Radius!IsMine
<1> QED BY <1>1, <1>4, <1>5

LEMMA OtherHeard ==
  ASSUME NEW sc \in RadiusScenes, Radius(sc)!LeaseAssumption, Radius(sc)!TypeOK, Radius(sc)!TypeOK',
         HeardInv(sc), Radius(sc)!ReleaseStale \/ Radius(sc)!Tick \/ Radius(sc)!Operator
  PROVE  HeardInv(sc)'
<1>l. Radius(sc)!LeaseRecord = [cust : NoOrCustomers(sc), mac : CPE[sc] \cup {Nobody},
                              uname : CPE[sc] \cup {Nobody}, up : BOOLEAN, dyn : BOOLEAN,
                                  age : Ages(sc)]
  BY LeaseFields
<1>0. /\ HeardTyped(sc, heard') /\ lease \in [Radius(sc)!Addresses -> Radius(sc)!LeaseRecord]
             /\ heard \in [CPE[sc] -> Ages(sc)]
      /\ SessionsTyped(sc, bras) /\ \A a \in Radius(sc)!Addresses : lease[a] \in Radius(sc)!LeaseRecord
  BY TypeParts, TypePartsNext DEF Radius!TypeOK, HeardTyped
<1>1. CASE Radius(sc)!Operator \/ Radius(sc)!ReleaseStale
  <2>1. Fresh(sc)'
    BY <1>0, <1>1, RewrittenRows, FreshKept DEF HeardInv
  <2>2. Counted(sc)'
    BY <1>0, <1>1, RewrittenRows, CountedKept DEF HeardInv
  <2>3. web' = web
    BY <1>1, RewrittenRows
  <2> QED BY <2>1, <2>2, <2>3 DEF HeardInv, OneAtATime
<1>2. CASE Radius(sc)!Tick
  <2>1. web' = web /\ bras' = bras /\ disturbed' = disturbed
    BY <1>2 DEF Radius!Tick
  <2>2. \A a \in Radius(sc)!Addresses :
          /\ lease'[a].dyn = lease[a].dyn /\ lease'[a].age = Radius(sc)!Older(lease[a].age)
          /\ lease'[a].cust = lease[a].cust /\ lease'[a].mac = lease[a].mac
    BY <1>0, <1>2, <1>l DEF Radius!Tick
  <2>3. \A x \in CPE[sc] : heard'[x] = Radius(sc)!Older(heard[x])
    BY <1>2 DEF Radius!Tick
  <2>4. Counted(sc)'
    <3>1. \A x \in CPE[sc], a \in Radius(sc)!Addresses : Radius(sc)!IsMine(lease[a], x)
              => Radius(sc)!IsMine(lease'[a], x)
      BY <2>2 DEF Radius!IsMine
    <3> QED BY <2>1, <2>2, <3>1, CountedKept DEF HeardInv
  <2>5. Fresh(sc)'
    <3>1. \A m, n \in Ages(sc) : m <= n /\ Radius(sc)!Older(n) # Radius(sc)!Never
              => n # Radius(sc)!Never /\ Radius(sc)!Older(m) <= Radius(sc)!Older(n)
      BY DEF Ages, Radius!Older, Radius!Never, Radius!LeaseAssumption
    <3>n. \A m, n \in Ages(sc) : Radius(sc)!Older(n) # Radius(sc)!Never => n # Radius(sc)!Never
      BY DEF Radius!Older
    <3> SUFFICES ASSUME NEW x \in CPE[sc], bras[x].on, heard'[x] # Radius(sc)!Never,
                        bras[x].addr \notin disturbed,
                        lease'[bras[x].addr].dyn
                 PROVE  lease'[bras[x].addr].age <= heard'[x]
      BY <2>1 DEF Fresh, Radius!Live
    <3> DEFINE a == bras[x].addr
    <3>2. a \in Radius(sc)!Addresses
      BY <1>0, LiveHasAddress DEF Radius!Live
    <3>3. heard[x] \in Ages(sc) /\ lease[a].age \in Ages(sc)
      BY <1>0, <3>2, <1>l
    <3>4. heard[x] # Radius(sc)!Never
      BY <2>3, <3>3, <3>n
    <3>5. lease[a].age <= heard[x]
      BY <2>2, <3>2, <3>4 DEF HeardInv, Fresh, Radius!Live
    <3>6. lease'[a].age = Radius(sc)!Older(lease[a].age) /\ heard'[x] = Radius(sc)!Older(heard[x])
      BY <2>2, <2>3, <3>2
    <3> QED BY <3>1, <3>3, <3>5, <3>6
  <2> QED BY <2>1, <2>4, <2>5 DEF HeardInv, OneAtATime
<1> QED BY <1>1, <1>2

LEMMA HeardInvStep ==
  ASSUME NEW sc \in RadiusScenes, Radius(sc)!LeaseAssumption, ApartDevices(sc), AtOnce = 1,
         Radius(sc)!TypeOK, Radius(sc)!TypeOK', HeardInv(sc), [Radius(sc)!Next]_(Radius(sc)!vars)
  PROVE  HeardInv(sc)'
<1>1. ASSUME UNCHANGED Radius(sc)!vars PROVE HeardInv(sc)'
  BY <1>1 DEF Radius!vars, HeardInv, OneAtATime, Fresh, Counted, Radius!Live
<1> QED BY <1>1, AuthHeard, ServeHeard, AcctHeard, SessionHeard, OtherHeard DEF Radius!Next

LEMMA HeardSays ==
  ASSUME NEW sc \in RadiusScenes, Radius(sc)!LeaseAssumption, Radius(sc)!TypeOK, HeardInv(sc)
  PROVE  Radius(sc)!HeardStep
<1>l. Radius(sc)!LeaseRecord = [cust : NoOrCustomers(sc), mac : CPE[sc] \cup {Nobody},
                              uname : CPE[sc] \cup {Nobody}, up : BOOLEAN, dyn : BOOLEAN,
                                  age : Ages(sc)]
  BY LeaseFields
<1> SUFFICES ASSUME Radius(sc)!ReleaseStale, NEW x \in CPE[sc], Radius(sc)!Live(x),
                    heard[x] \in 0..(StaleAge - 1),
                    bras[x].addr \notin disturbed
             PROVE  lease'[bras[x].addr] = lease[bras[x].addr]
  BY DEF Radius!HeardStep
<1> DEFINE a == bras[x].addr
<1>1. a \in Radius(sc)!Addresses
  BY TypeParts, LiveHasAddress
<1>2. lease[a].age \in Ages(sc)
  BY <1>1, <1>l DEF Radius!TypeOK
<1>3. heard[x] # Radius(sc)!Never
  BY DEF Radius!Never
<1>4. lease[a].dyn => lease[a].age <= heard[x]
  BY <1>3 DEF HeardInv, Fresh
<1> HIDE DEF a
<1>5. ~Radius(sc)!IsStale(lease[a])
  BY <1>2, <1>4 DEF Radius!IsStale, Ages, Radius!Never, Radius!LeaseAssumption
<1>6. lease'[a] = lease[a]
  BY <1>1, <1>5 DEF Radius!ReleaseStale, Radius!Rewrite
<1> QED BY <1>6 DEF a

-----------------------------------------------------------------------------
(* ONUs. *)

(* The sets and numbers of OnuRegister are those of this module. *)
LEMMA FiberOnFiniteSets ==
  ASSUME NEW S
  PROVE  (Fiber!IsFiniteSet(S) <=> IsFiniteSet(S)) /\ Fiber!Cardinality(S) = Cardinality(S)
<1>1. Fiber!IsFiniteSet(S) <=> IsFiniteSet(S)
  BY Zenon DEF Fiber!IsFiniteSet, IsFiniteSet
<1>2. Fiber!Cardinality(S) = Cardinality(S)
  BY Zenon DEF Fiber!Cardinality, Cardinality
<1> QED BY <1>1, <1>2

(* A set of numbers with 0, and with the successor of each of its members. *)
LEMMA SetInduction ==
  ASSUME NEW S, 0 \in S, \A n \in Nat : n \in S => n + 1 \in S
  PROVE  Nat \subseteq S
<1> SUFFICES ASSUME NEW x \in Nat, x \notin S PROVE FALSE
  OBVIOUS
<1> DEFINE C == {k \in 0 .. x : k \in S}
           next == [k \in C |-> k + 1]
<1>1. IsFiniteSet(C) /\ Cardinality(C) \in Nat
  <2>1. IsFiniteSet(0 .. x) BY FS_Interval
  <2>2. C \subseteq 0 .. x OBVIOUS
  <2> QED BY <2>1, <2>2, FS_Subset, FS_CardinalityType
<1>2. 0 \in C BY DEF C
<1>3. IsFiniteSet(C \ {0}) /\ Cardinality(C \ {0}) = Cardinality(C) - 1
  BY <1>1, <1>2, FS_RemoveElement
<1>4. next \in Injection(C, C \ {0})
  <2>1. \A k \in C : k + 1 \in C \ {0}
    OBVIOUS
  <2> QED BY <2>1 DEF Injection, IsInjective
<1>5. Cardinality(C) <= Cardinality(C \ {0})
  BY <1>1, <1>3, <1>4, FS_Injection DEF ExistsInjection
<1> QED BY <1>1, <1>3, <1>5

(* The number that is looked for exists, and is free. *)
LEMMA FreeNumberIsFree ==
  ASSUME Fiber!OnuAssumption
  PROVE  Fiber!FreeNumber \notin Fiber!Taken
<1> DEFINE Good(n) == n \notin Fiber!Taken /\ \A m \in 1 .. n - 1 : m \in Fiber!Taken
<1>1. \E n \in 1 .. Capacity + 1 : Good(n)
  <2> SUFFICES ASSUME \A n \in 1 .. Capacity + 1 : ~Good(n) PROVE FALSE
    OBVIOUS
  <2> DEFINE S == {n \in Nat : \A m \in 1 .. n : m <= Capacity + 1 => m \in Fiber!Taken}
  <2>0. Capacity \in Nat
    BY DEF Fiber!OnuAssumption
  <2>1. 0 \in S
    OBVIOUS
  <2>2. ASSUME NEW n \in Nat, n \in S PROVE n + 1 \in S
    <3>1. ASSUME n + 1 <= Capacity + 1 PROVE n + 1 \in Fiber!Taken
      <4>1. ~Good(n + 1)
        BY <2>0, <2>2, <3>1
      <4>2. \A m \in 1 .. n : m \in Fiber!Taken
        BY <2>0, <2>2, <3>1
      <4> QED BY <4>1, <4>2
    <3> QED BY <2>2, <3>1
  <2> HIDE DEF S
  <2>3. Nat \subseteq S
    BY <2>1, <2>2, SetInduction
  <2>4. Capacity + 1 \in S /\ Capacity + 1 \in 1 .. Capacity + 1
    BY <2>0, <2>3
  <2>5. Capacity + 1 \in Fiber!Taken
    BY <2>4, <2>0 DEF S
  <2> QED BY <2>0, <2>5 DEF Fiber!Taken, Fiber!Numbers
<1>2. Fiber!FreeNumber = CHOOSE n \in 1 .. Capacity + 1 : Good(n)
  BY DEF Fiber!FreeNumber
<1> HIDE DEF Good
<1>3. Good(Fiber!FreeNumber)
  BY <1>1, <1>2
<1> QED BY <1>3 DEF Good

(* Whose number is whose, does not depend on the rest. *)
LEMMA SameNumber ==
  ASSUME olt' = olt
  PROVE  Fiber!FreeNumber' = Fiber!FreeNumber /\ \A d : Fiber!NumbersOf(d)' = Fiber!NumbersOf(d)
BY DEF Fiber!FreeNumber, Fiber!Taken, Fiber!NumbersOf

LEMMA OnuTypeStep ==
  ASSUME Fiber!OnuAssumption, Fiber!TypeOK, [Fiber!Next]_(Fiber!vars)
  PROVE  Fiber!TypeOK'
<1> DEFINE Count == Fiber!Numbers \cup {0}
           Row == [state : {"there", "leaving", "gone"}, n : Count]
           Asked == [op : {"look", "write", "configure", "save", "check", "enter", "cut",
                           "leave", "forget", "fix"}, d : Devices, n : Count]
<1>0. /\ olt \in [Fiber!Numbers -> Devices \cup {NoDevice}]
      /\ row \in [Devices -> Row]
      /\ lock \in [{Host} -> OltThreads \cup {NoThread}]
      /\ oWeb \in [OltThreads -> Fiber!Requests]
      /\ oTasks \subseteq Devices /\ crossed \subseteq OltThreads /\ doubtful \subseteq Devices
      /\ oBudget \in 0 .. OnuFaults
      /\ OnuFaults \in Nat
  BY DEF Fiber!TypeOK, Fiber!OnuAssumption
<1>a. Fiber!Requests = {Fiber!Free} \cup Asked /\ 0 \in Count
  BY DEF Fiber!Requests
<1>b. ASSUME NEW r \in Asked PROVE r.d \in Devices /\ r.n \in Count
  BY <1>b
<1>c. \A r \in Fiber!Requests : r.op # "free" => r \in Asked
  BY <1>a DEF Fiber!Free
<1>d. Fiber!Numbers \subseteq Count
  OBVIOUS
<1> HIDE DEF Count, Asked
<1>moves. ASSUME NEW w \in OltThreads, NEW q \in Fiber!Requests,
                     Fiber!Moves(w, q) PROVE oWeb' \in [OltThreads -> Fiber!Requests]
  BY <1>0, <1>moves DEF Fiber!Moves
<1>goes. ASSUME NEW w \in OltThreads, NEW q \in Fiber!Requests, Fiber!Goes(w, q)
         PROVE  oWeb' \in [OltThreads -> Fiber!Requests] /\ crossed' \subseteq OltThreads
  BY <1>0, <1>moves, <1>goes DEF Fiber!Goes
<1>end. ASSUME NEW w \in OltThreads, Fiber!End(w) PROVE oWeb' \in [OltThreads -> Fiber!Requests]
                   /\ crossed' \subseteq OltThreads
  BY <1>0, <1>a, <1>moves, <1>end DEF Fiber!End
<1>on. ASSUME NEW w \in OltThreads, oWeb[w].op # "free",
              NEW op \in {"look", "write", "configure", "save", "check", "enter", "cut",
                           "leave", "forget", "fix"}, Fiber!On(w, op)
       PROVE  oWeb' \in [OltThreads -> Fiber!Requests] /\ crossed' \subseteq OltThreads
  <2>1. oWeb[w] \in Asked
    BY <1>0, <1>c, <1>on
  <2>2. [oWeb[w] EXCEPT !.op = op] \in Asked
    BY <2>1 DEF Asked
  <2> QED BY <1>a, <1>goes, <1>on, <2>2 DEF Fiber!On
<1>lock. ASSUME NEW w \in OltThreads, Fiber!Lock(w)
                    \/ Fiber!Unlock(w) PROVE lock' \in [{Host} -> OltThreads \cup {NoThread}]
  BY <1>0, <1>lock DEF Fiber!Lock, Fiber!Unlock
<1>1. ASSUME NEW w \in OltThreads, NEW d \in Devices, Fiber!Apply(w, d) PROVE Fiber!TypeOK'
  <2>1. [op |-> "look", d |-> d, n |-> 0] \in Fiber!Requests
    BY <1>a DEF Asked
  <2> QED BY <1>0, <1>1, <1>goes, <1>lock, <2>1 DEF Fiber!Apply, Fiber!TypeOK
<1>2. ASSUME NEW w \in OltThreads, NEW d \in Devices, Fiber!Remove(w, d) PROVE Fiber!TypeOK'
  <2>1. [op |-> "check", d |-> d, n |-> row[d].n] \in Fiber!Requests
    BY <1>0, <1>a DEF Asked
  <2> QED BY <1>0, <1>2, <1>goes, <2>1 DEF Fiber!Remove, Fiber!TypeOK
<1>3. ASSUME NEW w \in OltThreads, NEW d \in Devices, Fiber!Fix(w, d) PROVE Fiber!TypeOK'
  <2>1. \A n \in Fiber!NumbersOf(d) : [op |-> "fix", d |-> d, n |-> n] \in Fiber!Requests
    BY <1>a, <1>d DEF Asked, Fiber!NumbersOf
  <2> QED BY <1>0, <1>3, <1>goes, <2>1 DEF Fiber!Fix, Fiber!TypeOK
<1>4. ASSUME NEW w \in OltThreads, Fiber!Look(w) PROVE Fiber!TypeOK'
  <2>1. CASE Fiber!FreeNumber \in Fiber!Numbers
            /\ Fiber!Goes(w, [oWeb[w] EXCEPT !.op = "write", !.n = Fiber!FreeNumber])
    <3>1. oWeb[w] \in Asked
      BY <1>0, <1>c, <1>4 DEF Fiber!Look
    <3>2. [oWeb[w] EXCEPT !.op = "write", !.n = Fiber!FreeNumber] \in Asked
      BY <1>d, <2>1, <3>1 DEF Asked
    <3>3. oWeb' \in [OltThreads -> Fiber!Requests] /\ crossed' \subseteq OltThreads
      BY <1>a, <1>goes, <2>1, <3>2
    <3>4. lock' \in [{Host} -> OltThreads \cup {NoThread}]
      BY <1>0, <1>4, <1>lock DEF Fiber!Look
    <3> QED BY <1>0, <1>4, <3>3, <3>4 DEF Fiber!Look, Fiber!TypeOK
  <2>2. CASE Fiber!End(w) /\ Fiber!Unlock(w)
    BY <1>0, <1>4, <1>end, <1>lock, <2>2 DEF Fiber!Look, Fiber!TypeOK
  <2> QED BY <1>4, <2>1, <2>2 DEF Fiber!Look
<1>5. ASSUME NEW w \in OltThreads, Fiber!Write(w) PROVE Fiber!TypeOK'
  <2>1. oWeb[w].d \in Devices
    BY <1>0, <1>b, <1>c, <1>5 DEF Fiber!Write
  <2>2. olt' \in [Fiber!Numbers -> Devices \cup {NoDevice}]
    BY <1>0, <1>5, <2>1 DEF Fiber!Write
  <2>3. oWeb' \in [OltThreads -> Fiber!Requests] /\ crossed' \subseteq OltThreads
    BY <1>5, <1>on DEF Fiber!Write
  <2> QED BY <1>0, <1>5, <2>2, <2>3 DEF Fiber!Write, Fiber!TypeOK
<1>6. ASSUME NEW w \in OltThreads, Fiber!Configure(w) PROVE Fiber!TypeOK'
  <2>1. oWeb' \in [OltThreads -> Fiber!Requests] /\ crossed' \subseteq OltThreads
    BY <1>6, <1>on DEF Fiber!Configure
  <2> QED BY <1>0, <1>6, <1>lock, <2>1 DEF Fiber!Configure, Fiber!TypeOK
<1>row. ASSUME NEW d \in Devices, NEW n \in Count PROVE [row EXCEPT ![d].n = n] \in [Devices -> Row]
  BY <1>0, <1>row
<1>writes. ASSUME NEW w \in OltThreads, oWeb[w].d \in Devices, NEW n \in Count, Fiber!Writes(w, n)
           PROVE  row' \in [Devices -> Row]
  <2>1. row[oWeb[w].d] \in Row
    BY <1>0, <1>writes
  <2>2. [row EXCEPT ![oWeb[w].d].n = row[oWeb[w].d].n] = row
    BY <1>0, <1>writes, <2>1
  <2> QED BY <1>0, <1>row, <1>writes, <2>2 DEF Fiber!Writes
<1>trusts. ASSUME NEW w \in OltThreads, oWeb[w].d \in Devices,
                      Fiber!Trusts(w) PROVE doubtful' \subseteq Devices
  BY <1>0, <1>trusts DEF Fiber!Trusts
<1>7. ASSUME NEW w \in OltThreads, Fiber!Save(w) PROVE Fiber!TypeOK'
  <2>1. oWeb[w].d \in Devices /\ oWeb[w].n \in Count
    BY <1>0, <1>b, <1>c, <1>7 DEF Fiber!Save
  <2>2. row' \in [Devices -> Row] /\ doubtful' \subseteq Devices
    BY <1>7, <1>writes, <1>trusts, <2>1 DEF Fiber!Save
  <2> QED BY <1>0, <1>7, <1>end, <2>2 DEF Fiber!Save, Fiber!TypeOK, Count
<1>8. ASSUME NEW w \in OltThreads, Fiber!Check(w) PROVE Fiber!TypeOK'
  <2>1. oWeb' \in [OltThreads -> Fiber!Requests] /\ crossed' \subseteq OltThreads
    BY <1>8, <1>on, <1>end DEF Fiber!Check
  <2> QED BY <1>0, <1>8, <2>1 DEF Fiber!Check, Fiber!TypeOK
<1>9. ASSUME NEW w \in OltThreads, Fiber!Enter(w) PROVE Fiber!TypeOK'
  <2>1. oWeb' \in [OltThreads -> Fiber!Requests] /\ crossed' \subseteq OltThreads
    BY <1>9, <1>on, <1>end DEF Fiber!Enter
  <2>2. lock' \in [{Host} -> OltThreads \cup {NoThread}]
    BY <1>0, <1>9, <1>lock DEF Fiber!Enter
  <2> QED BY <1>0, <1>9, <2>1, <2>2 DEF Fiber!Enter, Fiber!TypeOK
<1>10. ASSUME NEW w \in OltThreads, Fiber!Cut(w) PROVE Fiber!TypeOK'
  <2>1. oWeb[w] \in Asked
    BY <1>0, <1>c, <1>10 DEF Fiber!Cut
  <2>2. [oWeb[w] EXCEPT !.op = "leave"] \in Fiber!Requests
    BY <1>a, <2>1 DEF Asked
  <2>3. oWeb' \in [OltThreads -> Fiber!Requests]
    BY <1>10, <1>moves, <2>2 DEF Fiber!Cut
  <2>4. crossed' \subseteq OltThreads
    BY <1>0, <1>10 DEF Fiber!Cut, Fiber!RelyOn
  <2>5. olt' \in [Fiber!Numbers -> Devices \cup {NoDevice}]
    BY <1>0, <1>10 DEF Fiber!Cut
  <2>6. doubtful' \subseteq Devices
    BY <1>0, <1>10 DEF Fiber!Cut, Fiber!Kept
  <2> QED BY <1>0, <1>10, <2>3, <2>4, <2>5, <2>6 DEF Fiber!Cut, Fiber!TypeOK
<1>11. ASSUME NEW w \in OltThreads, Fiber!Leave(w) PROVE Fiber!TypeOK'
  <2>1. oWeb' \in [OltThreads -> Fiber!Requests] /\ crossed' \subseteq OltThreads
    BY <1>11, <1>on DEF Fiber!Leave
  <2> QED BY <1>0, <1>11, <1>lock, <2>1 DEF Fiber!Leave, Fiber!TypeOK
<1>12. ASSUME NEW w \in OltThreads, Fiber!Forget(w) PROVE Fiber!TypeOK'
  <2>1. oWeb[w].d \in Devices
    BY <1>0, <1>b, <1>c, <1>12 DEF Fiber!Forget
  <2>2. row' \in [Devices -> Row] /\ doubtful' \subseteq Devices
    BY <1>0, <1>a, <1>12, <1>writes, <2>1 DEF Fiber!Forget
  <2> QED BY <1>0, <1>12, <1>end, <2>2 DEF Fiber!Forget, Fiber!TypeOK, Count
<1>13. ASSUME NEW w \in OltThreads, Fiber!Found(w) PROVE Fiber!TypeOK'
  <2>1. oWeb[w].d \in Devices /\ oWeb[w].n \in Count
    BY <1>0, <1>b, <1>c, <1>13 DEF Fiber!Found
  <2>2. row' \in [Devices -> Row] /\ doubtful' \subseteq Devices
    BY <1>13, <1>writes, <1>trusts, <2>1 DEF Fiber!Found
  <2> QED BY <1>0, <1>13, <1>end, <2>2 DEF Fiber!Found, Fiber!TypeOK, Count
<1>14. ASSUME NEW w \in OltThreads, Fiber!Fail(w) PROVE Fiber!TypeOK'
  <2>1. oBudget' \in 0 .. OnuFaults
    BY <1>0, <1>14 DEF Fiber!Fail
  <2> QED BY <1>0, <1>14, <1>end, <1>lock, <2>1 DEF Fiber!Fail, Fiber!TypeOK
<1>15. ASSUME NEW d \in Devices, NEW n \in Count, Fiber!Type(d, n) PROVE Fiber!TypeOK'
  <2>1. oBudget' \in 0 .. OnuFaults
    BY <1>0, <1>15 DEF Fiber!Type
  <2>2. row' \in [Devices -> Row] /\ doubtful' \subseteq Devices
    BY <1>0, <1>15, <1>row DEF Fiber!Type
  <2> QED BY <1>0, <1>15, <2>1, <2>2 DEF Fiber!Type, Fiber!TypeOK, Count
<1>16. ASSUME NEW d \in Devices, Fiber!Delete(d) \/ Fiber!Commit(d)
                  \/ Fiber!Unregister(d) PROVE Fiber!TypeOK'
  <2>1. row' \in [Devices -> Row] /\ oTasks' \subseteq Devices /\ doubtful' \subseteq Devices
    BY <1>0, <1>16 DEF Fiber!Delete, Fiber!Commit, Fiber!Unregister
  <2>2. olt' = olt /\ lock' = lock /\ oWeb' = oWeb /\ crossed' = crossed /\ oBudget' = oBudget
    BY <1>16 DEF Fiber!Delete, Fiber!Commit, Fiber!Unregister
  <2> QED BY <1>0, <2>1, <2>2 DEF Fiber!TypeOK, Count
<1>17. CASE UNCHANGED Fiber!vars
  BY <1>0, <1>17 DEF Fiber!vars, Fiber!TypeOK, Count
<1>18. ASSUME NEW w \in OltThreads,
              Fiber!Request(w) \/ Fiber!Register(w) \/ Fiber!Unbind(w) \/ Fiber!Found(w)
                  \/ Fiber!Fail(w)
       PROVE  Fiber!TypeOK'
  BY <1>1, <1>2, <1>3, <1>4, <1>5, <1>6, <1>7, <1>8, <1>9, <1>10, <1>11, <1>12, <1>13, <1>14, <1>18
     DEF Fiber!Request, Fiber!Register, Fiber!Unbind
<1>19. ASSUME NEW d \in Devices, Fiber!Rows(d) PROVE Fiber!TypeOK'
  BY <1>15, <1>16, <1>19 DEF Fiber!Rows, Count
<1> QED BY <1>17, <1>18, <1>19 DEF Fiber!Next

LEMMA OnuInitTypes ==
  ASSUME Fiber!OnuAssumption, Fiber!Init
  PROVE  Fiber!TypeOK
BY DEF Fiber!OnuAssumption, Fiber!Init, Fiber!TypeOK, Fiber!Requests

(* All the threads are on one host, so its lock is the lock. *)
OneHost == \A v, w \in OltThreads : HostOf[v] = HostOf[w]

(* Who writes to the OLT has the lock; what a thread has read of the OLT is so until it
   uses it, unless the thread is crossed. *)
Locking == \A w \in OltThreads :
  oWeb[w].op \in {"look", "write", "configure", "cut", "leave"} => lock[HostOf[w]] = w
FreeIsKnown == \A w \in OltThreads :
  oWeb[w].op = "write" =>
    /\ oWeb[w].n = Fiber!FreeNumber /\ oWeb[w].n \in Fiber!Numbers
    /\ \A m \in Fiber!Numbers : olt[m] # oWeb[w].d
OwnIsKnown == \A w \in OltThreads :
  /\ oWeb[w].op = "check" => oWeb[w].n \in Fiber!Numbers
  /\ oWeb[w].op \in {"configure", "save", "enter", "cut", "fix"} =>
       oWeb[w].n \in Fiber!Numbers /\ (w \notin crossed => olt[oWeb[w].n] = oWeb[w].d)
OneNumber == \A d \in Devices, m, n \in Fiber!Numbers : olt[m] = d /\ olt[n] = d => m = n
RowsAreOwn == \A d \in Devices :
  row[d].state # "gone" /\ row[d].n # 0 /\ d \notin doubtful => olt[row[d].n] = d
OnuInv == Locking /\ FreeIsKnown /\ OwnIsKnown /\ OneNumber /\ RowsAreOwn

LEMMA OnuInvInit ==
  ASSUME Fiber!OnuAssumption, Fiber!Init
  PROVE  OnuInv
<1>1. \A w \in OltThreads : oWeb[w].op = "free"
  BY DEF Fiber!Init, Fiber!Free
<1> QED BY <1>1 DEF Fiber!Init, OnuInv, Locking, FreeIsKnown, OwnIsKnown, OneNumber, RowsAreOwn,
               Fiber!OnuAssumption

(* What the next operation of a thread is. *)
Operations == {"look", "write", "configure", "save", "check", "enter", "cut", "leave", "forget", "fix"}
LEMMA ThreadMoves ==
  ASSUME Fiber!TypeOK, NEW w \in OltThreads
  PROVE  /\ \A q : Fiber!Moves(w, q) => oWeb'[w] = q
         /\ \A q : Fiber!Goes(w, q) => oWeb'[w] = q
         /\ Fiber!End(w) => oWeb'[w].op = "free"
         /\ \A op \in Operations : Fiber!On(w, op) /\ oWeb[w].op # "free" =>
              oWeb'[w].op = op /\ oWeb'[w].d = oWeb[w].d /\ oWeb'[w].n = oWeb[w].n
         /\ \A n : Fiber!Goes(w, [oWeb[w] EXCEPT !.op = "write", !.n = n]) /\ oWeb[w].op # "free" =>
              oWeb'[w].op = "write" /\ oWeb'[w].d = oWeb[w].d /\ oWeb'[w].n = n
<1>0. oWeb \in [OltThreads -> Fiber!Requests]
  BY DEF Fiber!TypeOK
<1>6. \A q : Fiber!Moves(w, q) => oWeb'[w] = q
  BY <1>0 DEF Fiber!Moves
<1>1. \A q : Fiber!Goes(w, q) => oWeb'[w] = q
  BY <1>6 DEF Fiber!Goes
<1>2. oWeb[w].op # "free" => oWeb[w] \in [op : Operations, d : Devices, n : Fiber!Numbers \cup {0}]
  BY <1>0 DEF Fiber!Requests, Fiber!Free, Operations
<1>3. Fiber!End(w) => oWeb'[w].op = "free"
  BY <1>6 DEF Fiber!End, Fiber!Free
<1>4. ASSUME NEW op, Fiber!On(w, op), oWeb[w].op # "free"
      PROVE  oWeb'[w].op = op /\ oWeb'[w].d = oWeb[w].d /\ oWeb'[w].n = oWeb[w].n
  <2>1. oWeb'[w] = [oWeb[w] EXCEPT !.op = op]
    BY <1>1, <1>4 DEF Fiber!On
  <2> QED BY <1>2, <1>4, <2>1
<1>5. ASSUME NEW n, Fiber!Goes(w, [oWeb[w] EXCEPT !.op = "write", !.n = n]), oWeb[w].op # "free"
      PROVE  oWeb'[w].op = "write" /\ oWeb'[w].d = oWeb[w].d /\ oWeb'[w].n = n
  <2>1. oWeb'[w] = [oWeb[w] EXCEPT !.op = "write", !.n = n]
    BY <1>1, <1>5
  <2> QED BY <1>2, <1>5, <2>1
<1> QED BY <1>1, <1>3, <1>4, <1>5, <1>6

LEMMA RequestMoves ==
  ASSUME Fiber!TypeOK, NEW w \in OltThreads, NEW d \in Devices
  PROVE  /\ Fiber!Apply(w, d) => oWeb'[w].op = "look" /\ oWeb'[w].d = d
         /\ Fiber!Remove(w, d) => oWeb'[w].op = "check" /\ oWeb'[w].d = d
                /\ oWeb'[w].n \in Fiber!Numbers
         /\ Fiber!Fix(w, d) =>
              /\ oWeb'[w].op = "fix" /\ oWeb'[w].d = d
              /\ oWeb'[w].n \in Fiber!Numbers /\ olt[oWeb'[w].n] = d
<1>0. oWeb \in [OltThreads -> Fiber!Requests]
  BY DEF Fiber!TypeOK
<1>1. Fiber!Apply(w, d) => oWeb'[w].op = "look" /\ oWeb'[w].d = d
  BY <1>0 DEF Fiber!Apply, Fiber!Goes, Fiber!Moves
<1>2. row[d].n \in Fiber!Numbers \cup {0}
  BY DEF Fiber!TypeOK
<1>3. Fiber!Remove(w, d) => oWeb'[w].op = "check" /\ oWeb'[w].d = d /\ oWeb'[w].n \in Fiber!Numbers
  BY <1>0, <1>2 DEF Fiber!Remove, Fiber!Goes, Fiber!Moves
<1>4. Fiber!Fix(w, d) =>
        oWeb'[w].op = "fix" /\ oWeb'[w].d = d /\ oWeb'[w].n \in Fiber!Numbers /\ olt[oWeb'[w].n] = d
  BY <1>0 DEF Fiber!Fix, Fiber!Goes, Fiber!Moves, Fiber!NumbersOf
<1> QED BY <1>1, <1>3, <1>4

(* A step of a request is of one thread, and crosses others only. *)
LEMMA ThreadSteps ==
  ASSUME Fiber!TypeOK, NEW w \in OltThreads,
         Fiber!Request(w) \/ Fiber!Register(w) \/ Fiber!Unbind(w) \/ Fiber!Found(w) \/ Fiber!Fail(w)
  PROVE  /\ \A v \in OltThreads \ {w} : oWeb'[v] = oWeb[v]
         /\ \A v \in OltThreads \ {w} : v \in crossed => v \in crossed'
         /\ w \in crossed => w \in crossed' \/ oWeb'[w].op = "free"
<1>0. oWeb \in [OltThreads -> Fiber!Requests]
  BY DEF Fiber!TypeOK
<1>1. \A q : Fiber!Moves(w, q) => \A v \in OltThreads \ {w} : oWeb'[v] = oWeb[v]
  BY <1>0 DEF Fiber!Moves
<1>2. \/ \E q : Fiber!Goes(w, q)
      \/ Fiber!End(w)
      \/ \E op : Fiber!On(w, op)
      \/ Fiber!Cut(w)
  BY DEF Fiber!Request, Fiber!Register, Fiber!Unbind, Fiber!Found, Fiber!Fail, Fiber!Apply, Fiber!Remove,
     Fiber!Fix, Fiber!Look, Fiber!Write, Fiber!Configure, Fiber!Save, Fiber!Check,
         Fiber!Enter, Fiber!Leave, Fiber!Forget
<1>3. \A v \in OltThreads \ {w} : oWeb'[v] = oWeb[v]
  BY <1>1, <1>2 DEF Fiber!Goes, Fiber!End, Fiber!On, Fiber!Cut
<1>4. \/ crossed \subseteq crossed'
      \/ Fiber!End(w) /\ crossed' = crossed \ {w}
  BY <1>2 DEF Fiber!Goes, Fiber!End, Fiber!On, Fiber!Cut
<1>5. Fiber!End(w) => oWeb'[w].op = "free"
  BY ThreadMoves
<1> QED BY <1>3, <1>4, <1>5

(* Once a removal has taken a number off the OLT, it goes on, and whoever relies on the
   number is crossed. *)
LEMMA CutMoves ==
  ASSUME Fiber!TypeOK, NEW w \in OltThreads, Fiber!Cut(w)
  PROVE  /\ oWeb'[w].op = "leave"
         /\ \A v \in OltThreads \ {w} :
              oWeb[v].op \in {"configure", "save", "enter", "cut", "fix"} /\ oWeb[v].n = oWeb[w].n
                => v \in crossed'
<1>1. Fiber!Moves(w, [oWeb[w] EXCEPT !.op = "leave"])
  BY DEF Fiber!Cut
<1>2. oWeb'[w] = [oWeb[w] EXCEPT !.op = "leave"]
  BY <1>1, ThreadMoves
<1>3. oWeb[w] \in [op : Operations, d : Devices, n : Fiber!Numbers \cup {0}]
  BY DEF Fiber!TypeOK, Fiber!Cut, Fiber!Requests, Fiber!Free, Operations
<1>4. oWeb'[w].op = "leave"
  BY <1>2, <1>3
<1> QED BY <1>4 DEF Fiber!Cut, Fiber!RelyOn

LEMMA LockingStep ==
  ASSUME Fiber!OnuAssumption, Fiber!TypeOK, Locking, NEW w \in OltThreads,
         Fiber!Request(w) \/ Fiber!Register(w) \/ Fiber!Unbind(w) \/ Fiber!Found(w) \/ Fiber!Fail(w)
  PROVE  Locking'
<1> DEFINE Ops == {"look", "write", "configure", "cut", "leave"}
<1>0. lock \in [{Host} -> OltThreads \cup {NoThread}] /\ HostOf \in [OltThreads -> {Host}]
          /\ NoThread \notin OltThreads
  BY DEF Fiber!TypeOK, Fiber!OnuAssumption
<1>1. \A v \in OltThreads \ {w} : oWeb'[v] = oWeb[v]
  BY ThreadSteps
<1>2. ASSUME Fiber!Lock(w) PROVE Locking'
  BY <1>0, <1>1, <1>2 DEF Fiber!Lock, Fiber!Locked, Locking
<1>3. ASSUME Fiber!Unlock(w), oWeb'[w].op \notin Ops PROVE Locking'
  BY <1>0, <1>1, <1>3 DEF Fiber!Unlock, Locking
<1>4. ASSUME lock' = lock, oWeb'[w].op \in Ops => oWeb[w].op \in Ops PROVE Locking'
  BY <1>1, <1>4 DEF Locking
<1>m. /\ \A q : Fiber!Goes(w, q) => oWeb'[w] = q
      /\ Fiber!End(w) => oWeb'[w].op = "free"
      /\ \A op \in Operations : Fiber!On(w, op) /\ oWeb[w].op # "free" => oWeb'[w].op = op
      /\ \A n : Fiber!Goes(w, [oWeb[w] EXCEPT !.op = "write", !.n = n]) /\ oWeb[w].op # "free" =>
           oWeb'[w].op = "write"
  BY ThreadMoves
<1>5. ASSUME NEW d \in Devices, Fiber!Apply(w, d) \/ Fiber!Remove(w, d)
                 \/ Fiber!Fix(w, d) PROVE Locking'
  <2>1. CASE Fiber!Apply(w, d)
    BY <1>2, <2>1 DEF Fiber!Apply
  <2>2. CASE Fiber!Remove(w, d) \/ Fiber!Fix(w, d)
    <3>1. lock' = lock
      BY <2>2 DEF Fiber!Remove, Fiber!Fix
    <3>2. oWeb'[w].op \in {"check", "fix"}
      BY <2>2, RequestMoves
    <3> QED BY <1>4, <3>1, <3>2
  <2> QED BY <1>5, <2>1, <2>2
<1>6. CASE Fiber!Look(w)
  <2>1. CASE Fiber!Goes(w, [oWeb[w] EXCEPT !.op = "write", !.n = Fiber!FreeNumber]) /\ lock' = lock
    <3>1. oWeb[w].op = "look"
      BY <1>6 DEF Fiber!Look
    <3> QED BY <1>4, <2>1, <3>1
  <2>2. CASE Fiber!End(w) /\ Fiber!Unlock(w)
    BY <1>3, <1>m, <2>2
  <2> QED BY <1>6, <2>1, <2>2 DEF Fiber!Look
<1>7. CASE Fiber!Write(w)
  BY <1>4, <1>7 DEF Fiber!Write
<1>8. CASE Fiber!Configure(w)
  <2>1. oWeb'[w].op = "save"
    BY <1>m, <1>8 DEF Fiber!Configure, Operations
  <2> QED BY <1>3, <1>8, <2>1 DEF Fiber!Configure
<1>l. CASE Fiber!Leave(w)
  <2>1. oWeb'[w].op = "forget"
    BY <1>m, <1>l DEF Fiber!Leave, Operations
  <2> QED BY <1>3, <1>l, <2>1 DEF Fiber!Leave
<1>9. CASE Fiber!Save(w) \/ Fiber!Forget(w) \/ Fiber!Found(w)
  <2>1. lock' = lock /\ oWeb'[w].op = "free"
    BY <1>m, <1>9 DEF Fiber!Save, Fiber!Forget, Fiber!Found
  <2> QED BY <1>4, <2>1
<1>10. CASE Fiber!Check(w)
  <2>1. lock' = lock /\ oWeb'[w].op \in {"free", "enter"}
    BY <1>m, <1>10 DEF Fiber!Check, Operations
  <2> QED BY <1>4, <2>1
<1>11. CASE Fiber!Enter(w)
  <2>1. CASE Fiber!Locked(w)
    <3>1. lock' = lock /\ oWeb'[w].op = "free"
      BY <1>m, <1>11, <2>1 DEF Fiber!Enter
    <3> QED BY <1>4, <3>1
  <2>2. CASE ~Fiber!Locked(w)
    BY <1>2, <1>11, <2>2 DEF Fiber!Enter
  <2> QED BY <2>1, <2>2
<1>12. CASE Fiber!Cut(w)
  BY <1>4, <1>12, CutMoves DEF Fiber!Cut
<1>13. CASE Fiber!Fail(w)
  BY <1>3, <1>m, <1>13 DEF Fiber!Fail
<1> QED BY <1>5, <1>6, <1>7, <1>8, <1>l, <1>9, <1>10, <1>11, <1>12, <1>13 DEF Fiber!Request, Fiber!Register,
           Fiber!Unbind

(* What a thread does to the OLT, and with which request. *)
LEMMA OltSteps ==
  ASSUME Fiber!TypeOK, NEW w \in OltThreads,
         Fiber!Request(w) \/ Fiber!Register(w) \/ Fiber!Unbind(w) \/ Fiber!Found(w) \/ Fiber!Fail(w)
  PROVE  \/ olt' = olt
         \/ Fiber!Write(w) \/ Fiber!Cut(w)
BY DEF Fiber!Request, Fiber!Register, Fiber!Unbind, Fiber!Found, Fiber!Fail, Fiber!Apply, Fiber!Remove,
   Fiber!Fix, Fiber!Look, Fiber!Write, Fiber!Configure, Fiber!Save, Fiber!Check,
       Fiber!Enter, Fiber!Cut, Fiber!Leave, Fiber!Forget

LEMMA FreeIsKnownStep ==
  ASSUME Fiber!OnuAssumption, OneHost, Fiber!TypeOK, Locking, FreeIsKnown, NEW w \in OltThreads,
         Fiber!Request(w) \/ Fiber!Register(w) \/ Fiber!Unbind(w) \/ Fiber!Found(w) \/ Fiber!Fail(w)
  PROVE  FreeIsKnown'
<1>1. \A v \in OltThreads \ {w} : oWeb'[v] = oWeb[v]
  BY ThreadSteps
<1>2. CASE olt' = olt
  <2>1. Fiber!FreeNumber' = Fiber!FreeNumber
    BY <1>2, SameNumber
  <2>2. oWeb'[w].op = "write" =>
          /\ oWeb'[w].n = Fiber!FreeNumber /\ oWeb'[w].n \in Fiber!Numbers
          /\ \A m \in Fiber!Numbers : olt[m] # oWeb'[w].d
    <3>m. /\ \A q : Fiber!Goes(w, q) => oWeb'[w] = q
          /\ Fiber!End(w) => oWeb'[w].op = "free"
          /\ \A op \in Operations : Fiber!On(w, op) /\ oWeb[w].op # "free" => oWeb'[w].op = op
          /\ \A n : Fiber!Goes(w, [oWeb[w] EXCEPT !.op = "write", !.n = n]) /\ oWeb[w].op # "free" =>
               oWeb'[w].op = "write" /\ oWeb'[w].d = oWeb[w].d /\ oWeb'[w].n = n
      BY ThreadMoves
    <3>1. CASE Fiber!Look(w)
      <4>1. oWeb[w].op # "free"
        BY <3>1 DEF Fiber!Look
      <4>2. CASE Fiber!End(w)
        BY <3>m, <4>2
      <4>3. CASE ~Fiber!End(w)
        <5>1. /\ Fiber!NumbersOf(oWeb[w].d) = {} /\ Fiber!FreeNumber \in Fiber!Numbers
              /\ Fiber!Goes(w, [oWeb[w] EXCEPT !.op = "write", !.n = Fiber!FreeNumber])
          BY <3>1, <4>3 DEF Fiber!Look
        <5>2. oWeb'[w].d = oWeb[w].d /\ oWeb'[w].n = Fiber!FreeNumber
          BY <3>m, <4>1, <5>1
        <5> QED BY <5>1, <5>2 DEF Fiber!NumbersOf
      <4> QED BY <4>2, <4>3
    <3>2. CASE Fiber!Request(w)
      <4>1. oWeb'[w].op \in {"look", "check", "fix"}
        BY <3>2, RequestMoves DEF Fiber!Request
      <4> QED BY <4>1
    <3>3. CASE Fiber!Write(w) \/ Fiber!Configure(w) \/ Fiber!Check(w) \/ Fiber!Enter(w)
              \/ Fiber!Leave(w)
      <4>1. oWeb[w].op # "free" /\
              (Fiber!End(w) \/ \E op \in Operations \ {"write"} : Fiber!On(w, op))
        BY <3>3 DEF Fiber!Write, Fiber!Configure, Fiber!Check, Fiber!Enter, Fiber!Leave, Operations
      <4> QED BY <3>m, <4>1
    <3>5. CASE Fiber!Cut(w)
      BY <3>5, CutMoves
    <3>4. CASE Fiber!Save(w) \/ Fiber!Forget(w) \/ Fiber!Found(w) \/ Fiber!Fail(w)
      <4>1. Fiber!End(w)
        BY <3>4 DEF Fiber!Save, Fiber!Forget, Fiber!Found, Fiber!Fail
      <4> QED BY <3>m, <4>1
    <3> QED BY <3>1, <3>2, <3>3, <3>4, <3>5 DEF Fiber!Register, Fiber!Unbind
  <2> QED BY <1>1, <1>2, <2>1, <2>2 DEF FreeIsKnown
<1>3. CASE Fiber!Write(w) \/ Fiber!Cut(w)
  <2>1. oWeb[w].op \in {"write", "cut"}
    BY <1>3 DEF Fiber!Write, Fiber!Cut
  <2>2. oWeb'[w].op \in {"configure", "leave"}
    BY <1>3, ThreadMoves, CutMoves DEF Fiber!Write, Operations
  <2>3. \A v \in OltThreads \ {w} : oWeb[v].op # "write"
    BY <2>1 DEF Locking, OneHost
  <2> QED BY <1>1, <2>2, <2>3 DEF FreeIsKnown
<1> QED BY <1>2, <1>3, OltSteps

(* A registration takes a free number; a removal frees its own. *)
LEMMA OltWrites ==
  ASSUME Fiber!OnuAssumption, Fiber!TypeOK, FreeIsKnown, OwnIsKnown, NEW w \in OltThreads
  PROVE  /\ Fiber!Write(w) =>
              /\ oWeb[w].n \in Fiber!Numbers /\ oWeb[w].d \in Devices
              /\ olt[oWeb[w].n] = NoDevice /\ olt'[oWeb[w].n] = oWeb[w].d
              /\ \A m \in Fiber!Numbers \ {oWeb[w].n} : olt'[m] = olt[m]
         /\ Fiber!Cut(w) =>
              /\ oWeb[w].n \in Fiber!Numbers /\ oWeb[w].d \in Devices
              /\ olt'[oWeb[w].n] = NoDevice
              /\ \A m \in Fiber!Numbers \ {oWeb[w].n} : olt'[m] = olt[m]
<1>0. olt \in [Fiber!Numbers -> Devices \cup {NoDevice}] /\ oWeb \in [OltThreads -> Fiber!Requests]
  BY DEF Fiber!TypeOK
<1>1. oWeb[w].op # "free" => oWeb[w].d \in Devices
  BY <1>0 DEF Fiber!Requests, Fiber!Free
<1>2. ASSUME Fiber!Write(w)
      PROVE  /\ oWeb[w].n \in Fiber!Numbers /\ oWeb[w].d \in Devices
             /\ olt[oWeb[w].n] = NoDevice /\ olt'[oWeb[w].n] = oWeb[w].d
             /\ \A m \in Fiber!Numbers \ {oWeb[w].n} : olt'[m] = olt[m]
  <2>1. oWeb[w].op = "write"
    BY <1>2 DEF Fiber!Write
  <2>2. oWeb[w].n = Fiber!FreeNumber /\ oWeb[w].n \in Fiber!Numbers
    BY <2>1 DEF FreeIsKnown
  <2>3. olt[oWeb[w].n] = NoDevice
    BY <2>2, FreeNumberIsFree DEF Fiber!Taken
  <2> QED BY <1>0, <1>1, <1>2, <2>1, <2>2, <2>3 DEF Fiber!Write
<1>3. ASSUME Fiber!Cut(w)
      PROVE  /\ oWeb[w].n \in Fiber!Numbers /\ oWeb[w].d \in Devices
             /\ olt'[oWeb[w].n] = NoDevice
             /\ \A m \in Fiber!Numbers \ {oWeb[w].n} : olt'[m] = olt[m]
  <2>1. oWeb[w].op = "cut"
    BY <1>3 DEF Fiber!Cut
  <2>2. oWeb[w].n \in Fiber!Numbers
    BY <2>1 DEF OwnIsKnown
  <2> QED BY <1>0, <1>1, <1>3, <2>1, <2>2 DEF Fiber!Cut
<1> QED BY <1>2, <1>3

LEMMA OwnIsKnownStep ==
  ASSUME Fiber!OnuAssumption, Fiber!TypeOK, FreeIsKnown, OwnIsKnown, NEW w \in OltThreads,
         Fiber!Request(w) \/ Fiber!Register(w) \/ Fiber!Unbind(w) \/ Fiber!Found(w) \/ Fiber!Fail(w)
  PROVE  OwnIsKnown'
<1>1. /\ \A v \in OltThreads \ {w} : oWeb'[v] = oWeb[v] /\ (v \in crossed => v \in crossed')
      /\ w \in crossed => w \in crossed' \/ oWeb'[w].op = "free"
  BY ThreadSteps
<1>0. oWeb \in [OltThreads -> Fiber!Requests]
          /\ row \in [Devices -> [state : {"there", "leaving", "gone"}, n : Fiber!Numbers \cup {0}]]
  BY DEF Fiber!TypeOK
<1>d. \A v \in OltThreads : oWeb[v].op # "free" => oWeb[v].d \in Devices /\ ~(oWeb[v].d = NoDevice)
  BY <1>0 DEF Fiber!Requests, Fiber!Free, Fiber!OnuAssumption
<1>m. /\ \A q : Fiber!Goes(w, q) => oWeb'[w] = q
      /\ Fiber!End(w) => oWeb'[w].op = "free"
      /\ \A op \in Operations : Fiber!On(w, op) /\ oWeb[w].op # "free" =>
           oWeb'[w].op = op /\ oWeb'[w].d = oWeb[w].d /\ oWeb'[w].n = oWeb[w].n
      /\ \A n : Fiber!Goes(w, [oWeb[w] EXCEPT !.op = "write", !.n = n]) /\ oWeb[w].op # "free" =>
           oWeb'[w].op = "write"
  BY ThreadMoves
<1> DEFINE Uses(b, o, c, v) ==
             /\ b[v].op = "check" => b[v].n \in Fiber!Numbers
             /\ b[v].op \in {"configure", "save", "enter", "cut", "fix"} =>
                  b[v].n \in Fiber!Numbers /\ (v \notin c => o[b[v].n] = b[v].d)
<1>2. \A v \in OltThreads : Uses(oWeb, olt, crossed, v)
  BY DEF OwnIsKnown
<1>3. ASSUME NEW v \in OltThreads \ {w} PROVE Uses(oWeb', olt', crossed', v)
  <2>1. Uses(oWeb, olt, crossed, v)
    BY <1>2
  <2>2. CASE olt' = olt
    BY <1>1, <2>1, <2>2
  <2>3. CASE Fiber!Write(w)
    BY <1>1, <1>d, <2>1, <2>3, OltWrites
  <2>4. CASE Fiber!Cut(w)
    <3>1. /\ \A m \in Fiber!Numbers \ {oWeb[w].n} : olt'[m] = olt[m]
          /\ oWeb[v].op \in {"configure", "save", "enter", "cut", "fix"} /\ oWeb[v].n = oWeb[w].n
               => v \in crossed'
      BY <2>4, OltWrites, CutMoves
    <3> QED BY <1>1, <2>1, <3>1
  <2> QED BY <2>2, <2>3, <2>4, OltSteps
<1>4. Uses(oWeb', olt', crossed', w)
  <2>1. CASE Fiber!Request(w)
    <3>0. olt' = olt
      BY <2>1 DEF Fiber!Request, Fiber!Apply, Fiber!Remove, Fiber!Fix
    <3>1. PICK d \in Devices : Fiber!Apply(w, d) \/ Fiber!Remove(w, d) \/ Fiber!Fix(w, d)
      BY <2>1 DEF Fiber!Request
    <3> QED BY <3>0, <3>1, RequestMoves
  <2>2. CASE Fiber!Look(w)
    <3>1. oWeb'[w].op \in {"free", "write"}
      BY <1>m, <2>2 DEF Fiber!Look
    <3> QED BY <3>1
  <2>3. CASE Fiber!Write(w)
    <3>1. oWeb'[w].n = oWeb[w].n /\ oWeb'[w].d = oWeb[w].d /\ oWeb'[w].op = "configure"
      BY <1>m, <2>3 DEF Fiber!Write, Operations
    <3> QED BY <2>3, <3>1, OltWrites
  <2>4. CASE Fiber!Configure(w) \/ Fiber!Leave(w)
    <3>1. /\ oWeb[w].op \in {"configure", "leave"} /\ olt' = olt
          /\ oWeb[w].op = "configure" => Fiber!On(w, "save")
          /\ oWeb[w].op = "leave" => Fiber!On(w, "forget")
      BY <2>4 DEF Fiber!Configure, Fiber!Leave
    <3>2. /\ oWeb[w].op = "configure" => oWeb'[w].op = "save" /\ oWeb'[w].n = oWeb[w].n
                 /\ oWeb'[w].d = oWeb[w].d
          /\ oWeb[w].op = "leave" => oWeb'[w].op = "forget"
      BY <1>m, <3>1 DEF Operations
    <3> QED BY <1>1, <1>2, <3>1, <3>2
  <2>5. CASE Fiber!Check(w)
    <3>1. /\ oWeb[w].op = "check" /\ olt' = olt
          /\ (Fiber!End(w) \/ (Fiber!On(w, "enter") /\ olt[oWeb[w].n] = oWeb[w].d))
      BY <2>5 DEF Fiber!Check
    <3>2. oWeb'[w].op = "free" \/
            (oWeb'[w].op = "enter" /\ oWeb'[w].n = oWeb[w].n /\ oWeb'[w].d = oWeb[w].d
                /\ olt[oWeb[w].n] = oWeb[w].d)
      BY <1>m, <3>1 DEF Operations
    <3> QED BY <1>1, <1>2, <3>1, <3>2
  <2>6. CASE Fiber!Enter(w)
    <3>1. oWeb[w].op = "enter" /\ olt' = olt /\ (Fiber!End(w) \/ Fiber!On(w, "cut"))
      BY <2>6 DEF Fiber!Enter
    <3>2. oWeb'[w].op = "free"
              \/ (oWeb'[w].op = "cut" /\ oWeb'[w].n = oWeb[w].n /\ oWeb'[w].d = oWeb[w].d)
      BY <1>m, <3>1 DEF Operations
    <3> QED BY <1>1, <1>2, <3>1, <3>2
  <2>7. CASE Fiber!Cut(w)
    <3>1. oWeb'[w].op = "leave"
      BY <2>7, CutMoves
    <3> QED BY <3>1
  <2>8. CASE Fiber!Save(w) \/ Fiber!Forget(w) \/ Fiber!Found(w) \/ Fiber!Fail(w)
    <3>1. Fiber!End(w)
      BY <2>8 DEF Fiber!Save, Fiber!Forget, Fiber!Found, Fiber!Fail
    <3> QED BY <1>m, <3>1
  <2> QED BY <2>1, <2>2, <2>3, <2>4, <2>5, <2>6, <2>7, <2>8 DEF Fiber!Register, Fiber!Unbind
<1> HIDE DEF Uses
<1>5. \A v \in OltThreads : Uses(oWeb', olt', crossed', v)
  BY <1>3, <1>4
<1> USE DEF Uses
<1> QED BY <1>5 DEF OwnIsKnown

LEMMA OneNumberStep ==
  ASSUME Fiber!OnuAssumption, Fiber!TypeOK, FreeIsKnown, OwnIsKnown, OneNumber, NEW w \in OltThreads,
         Fiber!Request(w) \/ Fiber!Register(w) \/ Fiber!Unbind(w) \/ Fiber!Found(w) \/ Fiber!Fail(w)
  PROVE  OneNumber'
<1>1. CASE olt' = olt
  BY <1>1 DEF OneNumber
<1>2. CASE Fiber!Write(w)
  <2>1. \A m \in Fiber!Numbers : olt[m] # oWeb[w].d
    BY <1>2 DEF Fiber!Write, FreeIsKnown
  <2> QED BY <1>2, <2>1, OltWrites DEF OneNumber
<1>3. CASE Fiber!Cut(w)
  <2>1. \A d \in Devices : ~(d = NoDevice)
    BY DEF Fiber!OnuAssumption
  <2> QED BY <1>3, <2>1, OltWrites DEF OneNumber
<1> QED BY <1>1, <1>2, <1>3, OltSteps

(* The rows of the devices, after a step of a thread. *)
LEMMA RowsAreOwnStep ==
  ASSUME Fiber!OnuAssumption, Fiber!TypeOK, FreeIsKnown, OwnIsKnown, RowsAreOwn, NEW w \in OltThreads,
         Fiber!Request(w) \/ Fiber!Register(w) \/ Fiber!Unbind(w) \/ Fiber!Found(w) \/ Fiber!Fail(w)
  PROVE  RowsAreOwn'
<1>0. /\ row \in [Devices -> [state : {"there", "leaving", "gone"}, n : Fiber!Numbers \cup {0}]]
      /\ oWeb \in [OltThreads -> Fiber!Requests]
  BY DEF Fiber!TypeOK
<1>d. oWeb[w].op # "free" => oWeb[w].d \in Devices
  BY <1>0 DEF Fiber!Requests, Fiber!Free
<1>n. \A d \in Devices : ~(d = NoDevice)
  BY DEF Fiber!OnuAssumption
<1>1. CASE row' = row /\ doubtful' = doubtful /\ olt' = olt
  BY <1>1 DEF RowsAreOwn
<1>2. CASE Fiber!Write(w)
  <2>1. row' = row /\ doubtful' = doubtful
    BY <1>2 DEF Fiber!Write
  <2>2. \A d \in Devices : row[d].n \in Fiber!Numbers \cup {0}
    BY <1>0
  <2> QED BY <1>2, <1>n, <2>1, <2>2, OltWrites DEF RowsAreOwn
<1>3. CASE Fiber!Cut(w)
  <2>1. row' = row /\ doubtful' = doubtful \cup {d \in Fiber!Kept : olt[oWeb[w].n] = d}
    BY <1>3 DEF Fiber!Cut
  <2>2. \A m \in Fiber!Numbers \ {oWeb[w].n} : olt'[m] = olt[m]
    BY <1>3, OltWrites
  <2>3. ASSUME NEW d \in Devices, row[d].state # "gone", row[d].n # 0, d \notin doubtful'
        PROVE  olt'[row[d].n] = d
    <3>1. row[d].n \in Fiber!Numbers /\ olt[row[d].n] = d
      BY <1>0, <2>1, <2>3 DEF RowsAreOwn
    <3>2. row[d].n # oWeb[w].n
      BY <2>1, <2>3, <3>1 DEF Fiber!Kept
    <3> QED BY <2>2, <3>1, <3>2
  <2> QED BY <2>1, <2>3 DEF RowsAreOwn
<1>writes. ASSUME NEW n, Fiber!Writes(w, n), oWeb[w].d \in Devices
           PROVE  /\ \A d \in Devices \ {oWeb[w].d} : row'[d] = row[d]
                  /\ row'[oWeb[w].d].state = "gone" \/ row'[oWeb[w].d].n = n
                  /\ row'[oWeb[w].d].state = row[oWeb[w].d].state
  <2>1. row[oWeb[w].d] \in [state : {"there", "leaving", "gone"}, n : Fiber!Numbers \cup {0}]
    BY <1>0, <1>writes
  <2> QED BY <1>0, <1>writes, <2>1 DEF Fiber!Writes, Fiber!Kept
<1>4. CASE Fiber!Save(w) \/ Fiber!Found(w)
  <2>1. /\ oWeb[w].op \in {"save", "fix"} /\ olt' = olt
        /\ Fiber!Writes(w, oWeb[w].n) /\ Fiber!Trusts(w)
    BY <1>4 DEF Fiber!Save, Fiber!Found
  <2>2. oWeb[w].d \in Devices /\ (w \notin crossed => olt[oWeb[w].n] = oWeb[w].d)
    BY <1>d, <2>1 DEF OwnIsKnown
  <2>3. /\ doubtful \ {oWeb[w].d} \subseteq doubtful'
        /\ w \in crossed => oWeb[w].d \in doubtful' \/ row[oWeb[w].d].state = "gone"
    BY <2>1, <2>2 DEF Fiber!Trusts, Fiber!Kept
  <2>4. /\ \A d \in Devices \ {oWeb[w].d} : row'[d] = row[d]
        /\ row'[oWeb[w].d].state = "gone" \/ row'[oWeb[w].d].n = oWeb[w].n
        /\ row'[oWeb[w].d].state = row[oWeb[w].d].state
    BY <1>writes, <2>1, <2>2
  <2> QED BY <2>1, <2>2, <2>3, <2>4 DEF RowsAreOwn
<1>5. CASE Fiber!Forget(w)
  <2>1. oWeb[w].op = "forget" /\ olt' = olt /\ Fiber!Writes(w, 0)
    BY <1>5 DEF Fiber!Forget
  <2>2. oWeb[w].d \in Devices
    BY <1>d, <2>1
  <2>3. /\ doubtful' = doubtful \ {oWeb[w].d}
        /\ \A d \in Devices \ {oWeb[w].d} : row'[d] = row[d]
        /\ row'[oWeb[w].d].state = "gone" \/ row'[oWeb[w].d].n = 0
    BY <1>5, <1>writes, <2>1, <2>2 DEF Fiber!Forget
  <2> QED BY <2>1, <2>2, <2>3 DEF RowsAreOwn
<1> QED BY <1>1, <1>2, <1>3, <1>4, <1>5
    DEF Fiber!Request, Fiber!Register, Fiber!Unbind, Fiber!Fail, Fiber!Apply, Fiber!Remove, Fiber!Fix,
        Fiber!Look, Fiber!Configure, Fiber!Check, Fiber!Enter, Fiber!Leave

(* A step of a row is not one of a thread or of the OLT. *)
LEMMA RowSteps ==
  ASSUME Fiber!TypeOK, RowsAreOwn, NEW d \in Devices, Fiber!Rows(d)
  PROVE  olt' = olt /\ oWeb' = oWeb /\ lock' = lock /\ crossed' = crossed /\ RowsAreOwn'
<1>0. row \in [Devices -> [state : {"there", "leaving", "gone"}, n : Fiber!Numbers \cup {0}]]
  BY DEF Fiber!TypeOK
<1>r. row[d] \in [state : {"there", "leaving", "gone"}, n : Fiber!Numbers \cup {0}]
  BY <1>0
<1>1. olt' = olt /\ oWeb' = oWeb /\ lock' = lock /\ crossed' = crossed
  BY DEF Fiber!Rows, Fiber!Type, Fiber!Delete, Fiber!Commit, Fiber!Unregister
<1>2. ASSUME NEW n, Fiber!Type(d, n) PROVE RowsAreOwn'
  BY <1>0, <1>1, <1>2 DEF Fiber!Type, RowsAreOwn
<1>3. CASE Fiber!Delete(d)
  <2>1. /\ \A c \in Devices : row'[c].n = row[c].n /\ (row'[c].state # "gone" => row[c].state # "gone")
        /\ doubtful' = doubtful
    BY <1>0, <1>r, <1>3 DEF Fiber!Delete
  <2> QED BY <1>1, <2>1 DEF RowsAreOwn
<1>4. CASE Fiber!Commit(d)
  <2>1. /\ \A c \in Devices \ {d} : row'[c] = row[c]
        /\ row'[d].state = "gone" /\ doubtful' = doubtful \ {d}
    BY <1>0, <1>r, <1>4 DEF Fiber!Commit
  <2> QED BY <1>1, <2>1 DEF RowsAreOwn
<1>5. CASE Fiber!Unregister(d)
  BY <1>1, <1>5 DEF Fiber!Unregister, RowsAreOwn
<1> QED BY <1>1, <1>2, <1>3, <1>4, <1>5 DEF Fiber!Rows

LEMMA OnuInvStep ==
  ASSUME Fiber!OnuAssumption, OneHost, Fiber!TypeOK, OnuInv, [Fiber!Next]_(Fiber!vars)
  PROVE  OnuInv'
<1>1. ASSUME NEW w \in OltThreads,
             Fiber!Request(w) \/ Fiber!Register(w) \/ Fiber!Unbind(w) \/ Fiber!Found(w) \/ Fiber!Fail(w)
      PROVE  OnuInv'
  BY <1>1, LockingStep, FreeIsKnownStep, OwnIsKnownStep, OneNumberStep, RowsAreOwnStep
     DEF OnuInv
<1>2. ASSUME olt' = olt, oWeb' = oWeb, lock' = lock, crossed' = crossed, RowsAreOwn' PROVE OnuInv'
  <2>1. Fiber!FreeNumber' = Fiber!FreeNumber
    BY <1>2, SameNumber
  <2> QED BY <1>2, <2>1 DEF OnuInv, Locking, FreeIsKnown, OwnIsKnown, OneNumber
<1>3. ASSUME NEW d \in Devices, Fiber!Rows(d) PROVE OnuInv'
  BY <1>2, <1>3, RowSteps DEF OnuInv
<1>4. CASE UNCHANGED Fiber!vars
  BY <1>2, <1>4 DEF Fiber!vars, OnuInv, RowsAreOwn
<1> QED BY <1>1, <1>3, <1>4 DEF Fiber!Next

LEMMA OnuSays ==
  ASSUME Fiber!OnuAssumption, Fiber!TypeOK, OnuInv
  PROVE  Fiber!RecordIsOwn /\ Fiber!RegisterStep /\ Fiber!RemoveStep
<1>1. ASSUME NEW d \in Devices PROVE Cardinality(Fiber!NumbersOf(d)) <= 1
  <2>1. CASE Fiber!NumbersOf(d) = {}
    BY <2>1, FS_EmptySet
  <2>2. CASE Fiber!NumbersOf(d) # {}
    <3>1. PICK n : n \in Fiber!NumbersOf(d)
      BY <2>2
    <3>3. Fiber!NumbersOf(d) = {n}
      BY <3>1 DEF Fiber!NumbersOf, OnuInv, OneNumber
    <3>2. Cardinality({n}) = 1
      BY FS_Singleton
    <3> QED BY <3>2, <3>3
  <2> QED BY <2>1, <2>2
<1>2. Fiber!RegisterStep /\ Fiber!RemoveStep
  BY DEF Fiber!RegisterStep, Fiber!RemoveStep, OnuInv, FreeIsKnown, OwnIsKnown
<1> QED BY <1>1, <1>2, FiberOnFiniteSets DEF Fiber!RecordIsOwn, OnuInv, RowsAreOwn

-----------------------------------------------------------------------------
(* The scene of a behaviour does not change. *)
LEMMA SceneStays ==
  /\ Spec => ([](scene = "leases") \/ []~(scene = "leases"))
  /\ Spec => ([](scene = "guests") \/ []~(scene = "guests"))
  /\ Spec => ([](scene = "onus") \/ []~(scene = "onus"))
<1>1. [Next]_vars =>
        /\ (scene = "leases")' <=> (scene = "leases")
        /\ (scene = "guests")' <=> (scene = "guests")
        /\ (scene = "onus")' <=> (scene = "onus")
  <2>1. [Next]_vars => scene' = scene
    BY DEF Next, vars
  <2> QED BY <2>1
<1>2. Spec => ([](scene = "leases") \/ []~(scene = "leases"))
  BY <1>1, PTL DEF Spec
<1>3. Spec => ([](scene = "guests") \/ []~(scene = "guests"))
  BY <1>1, PTL DEF Spec
<1>4. Spec => ([](scene = "onus") \/ []~(scene = "onus"))
  BY <1>1, PTL DEF Spec
<1> QED BY <1>2, <1>3, <1>4

(* In its scene, each component behaves as its specification says. *)
LEMMA ComponentsRun ==
  /\ Spec /\ [](scene = "leases") => Radius("leases")!Spec
  /\ Spec /\ [](scene = "guests") => Radius("guests")!Spec
  /\ Spec /\ [](scene = "onus") => Fiber!Spec
<1>1. Init /\ scene = "leases" => Radius("leases")!Init
  BY DEF Init, Start
<1>2. Init /\ scene = "guests" => Radius("guests")!Init
  BY DEF Init, Start
<1>3. Init => Fiber!Init
  BY DEF Init, Start
<1>4. scene = "leases" /\ [Next]_vars => [Radius("leases")!Next]_(Radius("leases")!vars)
  BY DEF Next, vars, leaseVars, Radius!vars, Radius!access
<1>5. scene = "guests" /\ [Next]_vars => [Radius("guests")!Next]_(Radius("guests")!vars)
  BY DEF Next, vars, leaseVars, Radius!vars, Radius!access
<1>6. scene = "onus" /\ [Next]_vars => [Fiber!Next]_(Fiber!vars)
  BY DEF Next, vars, onuVars, Fiber!vars
<1>7. Spec /\ [](scene = "leases") => Radius("leases")!Spec
  BY <1>1, <1>4, PTL DEF Spec, Radius!Spec
<1>8. Spec /\ [](scene = "guests") => Radius("guests")!Spec
  BY <1>2, <1>5, PTL DEF Spec, Radius!Spec
<1>9. Spec /\ [](scene = "onus") => Fiber!Spec
  BY <1>3, <1>6, PTL DEF Spec, Fiber!Spec
<1> QED BY <1>7, <1>8, <1>9

(* What each of them promises. *)
LEMMA LeasesKeep ==
  Radius("leases")!Spec => []Radius("leases")!TypeOK /\ []Radius("leases")!OneCustomerPerAddress
<1>1. "leases" \in RadiusScenes /\ AtOnce = 1
  BY DEF RadiusScenes, AtOnce
<1>2. Radius("leases")!LeaseAssumption
  BY <1>1, NetworkAssumption DEF NetworkAssumption
<1>3. Radius("leases")!Init => Radius("leases")!TypeOK /\ CustInv("leases")
  BY <1>1, <1>2, LeasesInit, CustInit
<1>4. Radius("leases")!TypeOK /\ CustInv("leases") /\ [Radius("leases")!Next]_(Radius("leases")!vars)
        => Radius("leases")!TypeOK' /\ CustInv("leases")'
  <2> SUFFICES ASSUME Radius("leases")!TypeOK, CustInv("leases"),
                      [Radius("leases")!Next]_(Radius("leases")!vars)
               PROVE  Radius("leases")!TypeOK' /\ CustInv("leases")'
    OBVIOUS
  <2>1. Radius("leases")!TypeOK'
    BY <1>1, <1>2, LeasesTypeStep
  <2>2. CustInv("leases")'
    BY <1>1, <1>2, CustStep
  <2> QED BY <2>1, <2>2
<1>5. CustInv("leases") => Radius("leases")!OneCustomerPerAddress
  BY <1>1, <1>2, CustSays
<1> QED BY <1>3, <1>4, <1>5, PTL DEF Radius!Spec

LEMMA LeasesHeard ==
  ASSUME OneDeviceEach
  PROVE  Radius("leases")!Spec => [](Radius("leases")!TypeOK /\ HeardInv("leases"))
<1>1. "leases" \in RadiusScenes /\ AtOnce = 1 /\ ApartDevices("leases")
  BY DEF RadiusScenes, AtOnce, OneDeviceEach, ApartDevices
<1>2. Radius("leases")!LeaseAssumption
  BY <1>1, NetworkAssumption DEF NetworkAssumption
<1>3. Radius("leases")!Init => Radius("leases")!TypeOK /\ HeardInv("leases")
  BY <1>1, <1>2, LeasesInit, HeardInit
<1>4. Radius("leases")!TypeOK /\ HeardInv("leases") /\ [Radius("leases")!Next]_(Radius("leases")!vars)
        => Radius("leases")!TypeOK' /\ HeardInv("leases")'
  <2> SUFFICES ASSUME Radius("leases")!TypeOK, HeardInv("leases"),
                      [Radius("leases")!Next]_(Radius("leases")!vars)
               PROVE  Radius("leases")!TypeOK' /\ HeardInv("leases")'
    OBVIOUS
  <2>1. Radius("leases")!TypeOK'
    BY <1>1, <1>2, LeasesTypeStep
  <2>2. HeardInv("leases")'
    BY <1>1, <1>2, <2>1, HeardInvStep
  <2> QED BY <2>1, <2>2
<1> QED BY <1>3, <1>4, PTL DEF Radius!Spec

LEMMA GuestsKeep ==
  Radius("guests")!Spec => []Radius("guests")!TypeOK /\ []Radius("guests")!OneCustomerPerAddress
<1>1. "guests" \in RadiusScenes /\ AtOnce = 1
  BY DEF RadiusScenes, AtOnce
<1>2. Radius("guests")!LeaseAssumption
  BY <1>1, NetworkAssumption DEF NetworkAssumption
<1>3. Radius("guests")!Init => Radius("guests")!TypeOK /\ CustInv("guests")
  BY <1>1, <1>2, LeasesInit, CustInit
<1>4. Radius("guests")!TypeOK /\ CustInv("guests") /\ [Radius("guests")!Next]_(Radius("guests")!vars)
        => Radius("guests")!TypeOK' /\ CustInv("guests")'
  <2> SUFFICES ASSUME Radius("guests")!TypeOK, CustInv("guests"),
                      [Radius("guests")!Next]_(Radius("guests")!vars)
               PROVE  Radius("guests")!TypeOK' /\ CustInv("guests")'
    OBVIOUS
  <2>1. Radius("guests")!TypeOK'
    BY <1>1, <1>2, LeasesTypeStep
  <2>2. CustInv("guests")'
    BY <1>1, <1>2, CustStep
  <2> QED BY <2>1, <2>2
<1>5. CustInv("guests") => Radius("guests")!OneCustomerPerAddress
  BY <1>1, <1>2, CustSays
<1> QED BY <1>3, <1>4, <1>5, PTL DEF Radius!Spec

LEMMA GuestsHeard ==
  ASSUME OneDeviceEach
  PROVE  Radius("guests")!Spec => [](Radius("guests")!TypeOK /\ HeardInv("guests"))
<1>1. "guests" \in RadiusScenes /\ AtOnce = 1 /\ ApartDevices("guests")
  BY DEF RadiusScenes, AtOnce, OneDeviceEach, ApartDevices
<1>2. Radius("guests")!LeaseAssumption
  BY <1>1, NetworkAssumption DEF NetworkAssumption
<1>3. Radius("guests")!Init => Radius("guests")!TypeOK /\ HeardInv("guests")
  BY <1>1, <1>2, LeasesInit, HeardInit
<1>4. Radius("guests")!TypeOK /\ HeardInv("guests") /\ [Radius("guests")!Next]_(Radius("guests")!vars)
        => Radius("guests")!TypeOK' /\ HeardInv("guests")'
  <2> SUFFICES ASSUME Radius("guests")!TypeOK, HeardInv("guests"),
                      [Radius("guests")!Next]_(Radius("guests")!vars)
               PROVE  Radius("guests")!TypeOK' /\ HeardInv("guests")'
    OBVIOUS
  <2>1. Radius("guests")!TypeOK'
    BY <1>1, <1>2, LeasesTypeStep
  <2>2. HeardInv("guests")'
    BY <1>1, <1>2, <2>1, HeardInvStep
  <2> QED BY <2>1, <2>2
<1> QED BY <1>3, <1>4, PTL DEF Radius!Spec

LEMMA FiberKeeps ==
  Fiber!Spec => [](Fiber!TypeOK /\ OnuInv)
<1>1. OneHost
  BY DEF OneHost, HostOf
<1>2. Fiber!OnuAssumption
  BY NetworkAssumption DEF NetworkAssumption
<1>3. Fiber!Init => Fiber!TypeOK /\ OnuInv
  BY <1>2, OnuInitTypes, OnuInvInit
<1>4. Fiber!TypeOK /\ OnuInv /\ [Fiber!Next]_(Fiber!vars) => Fiber!TypeOK' /\ OnuInv'
  BY <1>1, <1>2, OnuTypeStep, OnuInvStep
<1> QED BY <1>3, <1>4, PTL DEF Fiber!Spec

-----------------------------------------------------------------------------
(* The theorems. *)

(* Neither the leases nor the ONUs leave their types, in any scene; nobody without a
   customer uses an internet address. *)
THEOREM NetworkKeepsTypes == Spec => []TypeOK
<1>1. Fiber!Spec => []Fiber!TypeOK
  BY FiberKeeps, PTL
<1> QED BY <1>1, LeasesKeep, GuestsKeep, ComponentsRun, SceneStays, PTL DEF TypeOK

(* However packets are delayed, repeated and lost and tasks wait, an internet address is
   used by one customer only while requests are served one at a time, but for an
   address whose record somebody rewrote under a session. *)
THEOREM AddressesAreOfOneCustomer == Spec => []OneCustomerPerAddress
BY LeasesKeep, GuestsKeep, ComponentsRun, SceneStays, PTL DEF OneCustomerPerAddress

(* The release of stale leases leaves the lease of a session a packet of which was
   accepted in the last two days, when no customer has two devices. *)
THEOREM HeardLeasesStay ==
  ASSUME OneDeviceEach
  PROVE  Spec => HeardIsNotReleased
<1>1. Radius("leases")!TypeOK /\ HeardInv("leases") => Radius("leases")!HeardStep
  BY NetworkAssumption, HeardSays DEF NetworkAssumption, RadiusScenes
<1>2. Radius("guests")!TypeOK /\ HeardInv("guests") => Radius("guests")!HeardStep
  BY NetworkAssumption, HeardSays DEF NetworkAssumption, RadiusScenes
<1>3. Spec => [](scene = "leases" => Radius("leases")!TypeOK /\ HeardInv("leases"))
  BY LeasesHeard, ComponentsRun, SceneStays, PTL
<1>4. Spec => [](scene = "guests" => Radius("guests")!TypeOK /\ HeardInv("guests"))
  BY GuestsHeard, ComponentsRun, SceneStays, PTL
<1> QED BY <1>1, <1>2, <1>3, <1>4, PTL DEF HeardIsNotReleased

(* An ONU has one number of the fiber, whatever requests overlap on the host, about one
   device or many, and wherever they fail.  The number of a row is its own ONU's,
   unless staff typed it in, a removal that took the ONU did not write its row, or a
   removal took the number off the OLT under the request that wrote the row. *)
THEOREM OnuRecordsAreOwn == Spec => []RecordIsOwn
<1>1. Fiber!TypeOK /\ OnuInv => Fiber!RecordIsOwn
  BY OnuSays, NetworkAssumption DEF NetworkAssumption
<1> QED BY <1>1, FiberKeeps, ComponentsRun, SceneStays, PTL DEF RecordIsOwn

(* With threads on one host, a registration writes the first number that is free when it
   writes.  A removal takes the ONU of its own device whatever fell between its check
   and its lock, unless that was the removal of the same number by another request. *)
THEOREM OnuNumbersAreOwn == Spec => NumbersAreOwn
<1>1. Fiber!TypeOK /\ OnuInv => Fiber!RegisterStep /\ Fiber!RemoveStep
  BY OnuSays, NetworkAssumption DEF NetworkAssumption
<1>2. Spec => [](scene = "onus" => Fiber!TypeOK /\ OnuInv)
  BY FiberKeeps, ComponentsRun, SceneStays, PTL
<1> QED BY <1>1, <1>2, PTL DEF NumbersAreOwn
=============================================================================
