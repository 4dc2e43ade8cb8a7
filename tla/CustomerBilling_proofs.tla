----------------------- MODULE CustomerBilling_proofs -----------------------
(***************************************************************************)
(* What is proved of CustomerBilling, for any customers, services, threads,*)
(* workers and bounds: first its types, then the safety properties that    *)
(* hold however requests and tasks overlap, then those of a single worker, *)
(* and last what it promises when requests and tasks never overlap and no  *)
(* customer has two periodic pays: no write is from an outdated copy, no   *)
(* row of customer_service is left behind, and every step is one of        *)
(* AccountBook.  The invariants of that last part say that the one running *)
(* request or task holds copies of distinct customers, and that each       *)
(* agrees with the tables.                                                 *)
(***************************************************************************)
EXTENDS CustomerBilling, FiniteSetTheorems, TLAPS

-----------------------------------------------------------------------------
(* Types. *)

(* What the calendar and the prices compute. *)
LEMMA MonthTypes ==
  ASSUME NEW t \in Nat
  PROVE  MonthStart(t) \in Nat /\ MonthEnd(t) \in Nat /\ NextMonth(t) \in Nat
<1>1. MonthOf(t) \in Nat
  BY MonthAssumption DEF MonthOf
<1>2. MonthStart(t) \in Nat
  BY <1>1, MonthAssumption DEF MonthStart
<1> QED
  BY <1>2, MonthAssumption DEF MonthEnd, NextMonth

LEMMA DeadlineType ==
  ASSUME NEW s \in Services, NEW t \in Nat
  PROVE  CalcDeadline(s, t) \in Nat
<1>1. Kind[s] \in {"Default", "Dp", "Cp", "Daily"}
  BY ServiceAssumption
<1> QED
  BY <1>1, MonthTypes, MonthAssumption DEF CalcDeadline

(* A refund is never negative. *)
LEMMA RefundType ==
  ASSUME NEW s \in Services, NEW start \in Nat, NEW t \in Nat
  PROVE  CostToReturn(s, start, t) \in Nat
<1>1. Cost[s] \in Nat
  BY ServiceAssumption
<1>2. (t - start) * Cost[s] \in Int
  BY <1>1
<1>3. ((t - start) * Cost[s]) \div Month \in Int
  BY <1>2, MonthAssumption
<1>4. CalcCost(s, start, t) \in Int
  BY <1>1, <1>3 DEF CalcCost
<1> QED
  BY <1>1, <1>4 DEF CostToReturn

-----------------------------------------------------------------------------
(* The shared writers keep the types of what they write. *)

LEMMA SaveTypes ==
  ASSUME MoneyTypes, NEW x, x.c \in Customers, x.seen \in Int, NEW d \in Int,
         Save(x, d)
  PROVE  balance' \in [Customers -> Int] /\ overtaken' \subseteq Customers
<1> DEFINE c == x.c
           n == x.seen + d
<1>1. c \in Customers /\ n \in Int
  OBVIOUS
<1>2. /\ balance' = [balance EXCEPT ![c] = n]
      /\ overtaken' \in {overtaken, overtaken \cup {c}}
  BY DEF Save
<1> HIDE DEF c, n
<1> QED BY <1>1, <1>2 DEF MoneyTypes

LEMMA PostTypes ==
  ASSUME MoneyTypes, NEW x, x.c \in Customers, x.seen \in Int, NEW d \in Int,
         Post(x, d)
  PROVE  /\ balance' \in [Customers -> Int] /\ ledger' \in [Customers -> Int]
         /\ unsaved' \in [Customers -> Int] /\ overtaken' \subseteq Customers
<1> DEFINE c == x.c
<1>1. balance' \in [Customers -> Int] /\ overtaken' \subseteq Customers
  BY SaveTypes DEF Post
<1>2. /\ c \in Customers /\ unsaved' = unsaved
      /\ ledger' = [ledger EXCEPT ![c] = @ + d]
  BY DEF Post
<1> HIDE DEF c
<1> QED BY <1>1, <1>2 DEF MoneyTypes

LEMMA FreshKeyType ==
  ASSUME FreshKeys # {}
  PROVE  NewKey \in RowIds /\ rows[NewKey] = NoRecord
<1>1. NewKey \in FreshKeys
  BY DEF NewKey
<1> QED
  BY <1>1 DEF FreshKeys

LEMMA RowIdsAreKeys == NoRow \notin RowIds
BY BoundAssumption DEF NoRow, RowIds

LEMMA ConnectTypes ==
  ASSUME MoneyTypes, ServiceTypes, References, EnvTypes,
         NEW x, x.c \in Customers, x.seen \in Int, NEW s \in Services,
         NEW setLast \in BOOLEAN, NEW deadline \in Nat \cup {NoDeadline},
         Connect(x, s, setLast, deadline),
         granted' \subseteq Customers \X Services
  PROVE  /\ balance' \in [Customers -> Int] /\ ledger' \in [Customers -> Int]
         /\ unsaved' \in [Customers -> Int] /\ overtaken' \subseteq Customers
         /\ ServiceTypes' /\ References'
<1>1. NewKey \in RowIds /\ rows[NewKey] = NoRecord
  BY FreshKeyType DEF Connect
<1>2. clock \in Nat
  BY BoundAssumption DEF EnvTypes
<1> DEFINE dl == IF deadline = NoDeadline THEN CalcDeadline(s, clock) ELSE deadline
<1>3. dl \in Nat
  BY <1>2, DeadlineType
<1>4. rows' = [rows EXCEPT ![NewKey] = [srv |-> s, start |-> clock, deadline |-> dl]]
  BY DEF Connect
<1>5. rows' \in [RowIds -> [srv : Services \cup {NoService}, start : Nat, deadline : Nat]]
  <2> HIDE DEF dl
  <2> QED BY <1>1, <1>2, <1>3, <1>4 DEF ServiceTypes
<1> DEFINE c == x.c
<1>6. /\ current' = [current EXCEPT ![c] = NewKey]
      /\ last' = [last EXCEPT ![c] = IF setLast THEN s ELSE @]
      /\ c \in Customers
  BY DEF Connect
<1> HIDE DEF c
<1>7. ServiceTypes'
  BY <1>1, <1>5, <1>6 DEF ServiceTypes
<1>8. References'
  <2> SUFFICES ASSUME NEW e \in Customers, current'[e] # NoRow
               PROVE  rows'[current'[e]].srv \in Services
    BY DEF References
  <2>1. CASE e = c
    <3>1. current'[e] = NewKey
      BY <2>1, <1>6 DEF ServiceTypes
    <3>2. rows'[NewKey].srv = s
      BY <1>1, <1>4 DEF ServiceTypes
    <3> QED BY <3>1, <3>2
  <2>2. CASE e # c
    <3>1. current'[e] = current[e]
      BY <2>2, <1>6 DEF ServiceTypes
    <3>2. rows[current[e]].srv \in Services
      BY <3>1 DEF References
    <3>3. current[e] # NewKey
      BY <3>2, <1>1, ServiceAssumption DEF NoRecord
    <3>4. rows'[current[e]] = rows[current[e]]
      <4> HIDE DEF dl
      <4> QED BY <3>1, <3>3, <1>4 DEF ServiceTypes
    <3> QED BY <3>1, <3>2, <3>4
  <2> QED BY <2>1, <2>2
<1>9. Cost[s] \in Nat /\ Post(x, -Cost[s])
  BY ServiceAssumption DEF Connect
<1> QED
  BY <1>7, <1>8, <1>9, PostTypes

LEMMA DropTypes ==
  ASSUME ServiceTypes, References, NEW R \in SUBSET (RowIds \cup {NoRow}), Drop(R)
  PROVE  ServiceTypes' /\ References'
<1>1. NoRecord \in [srv : Services \cup {NoService}, start : Nat, deadline : Nat]
  BY DEF NoRecord
<1>2. ServiceTypes'
  BY <1>1 DEF ServiceTypes, Drop
<1>3. References'
  <2> SUFFICES ASSUME NEW e \in Customers, current'[e] # NoRow
               PROVE  rows'[current'[e]].srv \in Services
    BY DEF References
  <2>1. current[e] \notin R /\ current'[e] = current[e]
    BY DEF Drop
  <2>2. current[e] \in RowIds
    BY <2>1 DEF ServiceTypes
  <2>3. rows'[current[e]] = rows[current[e]]
    BY <2>1, <2>2 DEF Drop
  <2> QED BY <2>1, <2>3 DEF References
<1> QED BY <1>2, <1>3

LEMMA StopTypes ==
  ASSUME MoneyTypes, ServiceTypes, References,
         NEW x, x.c \in Customers, x.seen \in Int, x.row \in RowIds \cup {NoRow},
         NEW refund \in Int, Stop(x, refund), forced' = forced
  PROVE  MoneyTypes' /\ ServiceTypes' /\ References'
<1>1. MoneyTypes'
  <2>1. CASE refund > 0
    BY <2>1, PostTypes DEF Stop, MoneyTypes
  <2>2. CASE ~(refund > 0)
    BY <2>2 DEF Stop, MoneyTypes
  <2> QED BY <2>1, <2>2
<1>2. ServiceTypes' /\ References'
  BY DropTypes DEF Stop
<1> QED BY <1>1, <1>2

-----------------------------------------------------------------------------
(* Type correctness. *)

LEMMA FreeIsNoRequest == Free \notin RequestType /\ Free.op = "free"
<1>1. \A q \in RequestType : q.op \in RequestOps
  BY DEF RequestType
<1> QED BY <1>1 DEF Free, RequestOps

LEMMA RequestTyped ==
  ASSUME MoneyTypes, ServiceTypes, NEW op \in RequestOps, NEW c \in Customers,
         NEW amount \in Int
  PROVE  Request(op, c, amount) \in RequestType
BY DEF Request, RequestType, MoneyTypes, ServiceTypes

LEMMA CopyTyped ==
  ASSUME MoneyTypes, ServiceTypes, NEW c \in Customers, NEW s \in Services
  PROVE  Copy(c, s) \in CopyType
<1>1. (IF current[c] = NoRow THEN 0 ELSE rows[current[c]].start) \in Nat
  <2>1. CASE current[c] = NoRow
    BY <2>1
  <2>2. CASE current[c] # NoRow
    <3>1. current[c] \in RowIds
      BY <2>2 DEF ServiceTypes
    <3> QED BY <2>2, <3>1 DEF ServiceTypes
  <2> QED BY <2>1, <2>2
<1> QED
  BY <1>1 DEF Copy, CopyType, MoneyTypes, ServiceTypes

LEMMA DueTyped ==
  ASSUME MoneyTypes, NEW p \in PPays
  PROVE  Due(p) \in DueType
BY PayAssumption DEF Due, DueType, MoneyTypes

LEMMA IdleJobTyped == IdleJob \in JobType
BY DEF IdleJob, JobType, Stages

LEMMA ThenTyped ==
  ASSUME NEW j \in JobType, NEW stage \in Stages
  PROVE  Then(j, stage) \in JobType
<1>1. [IdleJob EXCEPT !.stage = stage] \in JobType
  BY IdleJobTyped DEF JobType
<1> QED BY <1>1, IdleJobTyped DEF Then

LEMMA RestTyped ==
  ASSUME NEW j \in JobType, NEW x, NEW stage \in Stages
  PROVE  Rest(j, x, stage) \in JobType
<1>1. [j EXCEPT !.subs = @ \ {x}] \in JobType
  BY DEF JobType
<1> QED BY <1>1, ThenTyped DEF Rest

LEMMA BeginTypes ==
  ASSUME TypeOK, NEW w \in Web, NEW handler, NEW request \in RequestType,
         request.op = "pick" => request.srv \in Services,
         request.op = "pay" => request.ref \in PayIds,
         request.op = "debt" => request.ref \in Debts,
         Begin(w, handler, request)
  PROVE  TypeOK'
<1>1. WebTypes'
  <2>1. web' = [web EXCEPT ![w] = request]
    BY DEF Begin
  <2>2. web' \in [Web -> RequestType \cup {Free}]
    BY <2>1 DEF TypeOK, WebTypes
  <2>3. ASSUME NEW v \in Web
        PROVE  /\ web'[v].op = "pick" => web'[v].srv \in Services
               /\ web'[v].op = "pay" => web'[v].ref \in PayIds
               /\ web'[v].op = "debt" => web'[v].ref \in Debts
    BY <2>1 DEF TypeOK, WebTypes
  <2> QED BY <2>2, <2>3 DEF WebTypes
<1>2. EnvTypes'
  BY BoundAssumption DEF Begin, Spend, TypeOK, EnvTypes
<1>3. UNCHANGED <<money, services, flags, pays, external, job>>
  BY DEF Begin
<1>4. MoneyTypes' /\ ServiceTypes' /\ References' /\ FlagTypes' /\ PaysTypes' /\ ExternalTypes' /\ JobTypes'
  BY <1>3 DEF TypeOK, money, services, flags, pays, external, MoneyTypes, ServiceTypes,
              References, FlagTypes, PaysTypes, ExternalTypes, JobTypes
<1> QED BY <1>1, <1>2, <1>4 DEF TypeOK

LEMMA BeginStepTypes ==
  ASSUME TypeOK, NEW w \in Web, BeginStep(w)
  PROVE  TypeOK'
<1> USE DEF TypeOK
<1>a. ASSUME NEW op \in RequestOps, NEW c \in Customers, NEW amount \in Int
      PROVE  Request(op, c, amount) \in RequestType
  BY RequestTyped
<1>b. \A s \in Services : Cost[s] \in Nat
  BY ServiceAssumption
<1>c. \A q \in RequestType : q.op \in RequestOps
  BY DEF RequestType
<1>1. ASSUME NEW c \in Customers, BuyService(w, c) PROVE TypeOK'
  <2>1. PICK s \in Services \ AdminOnly :
          Begin(w, "BuyService", [Request("pick", c, -Cost[s]) EXCEPT
            !.srv = s, !.setLast = (last[c] # s)])
    BY <1>1 DEF BuyService
  <2>2. Request("pick", c, -Cost[s]) \in RequestType
    BY <1>a, <1>b DEF RequestOps
  <2> DEFINE q == [Request("pick", c, -Cost[s]) EXCEPT !.srv = s, !.setLast = (last[c] # s)]
  <2>3. q \in RequestType /\ q.srv = s /\ q.op = "pick"
    BY <2>2 DEF RequestType, Request
  <2> QED BY <2>1, <2>3, BeginTypes
<1>2. ASSUME NEW c \in Customers, PickService(w, c) PROVE TypeOK'
  <2>1. PICK s \in Services, d \in StaffDeadlines \cup {NoDeadline} :
          Begin(w, "PickService", [Request("pick", c, -Cost[s]) EXCEPT
            !.srv = s, !.setLast = (last[c] # s), !.deadline = d, !.staff = TRUE])
    BY <1>2 DEF PickService
  <2>2. Request("pick", c, -Cost[s]) \in RequestType
    BY <1>a, <1>b DEF RequestOps
  <2> DEFINE q == [Request("pick", c, -Cost[s]) EXCEPT
                     !.srv = s, !.setLast = (last[c] # s), !.deadline = d, !.staff = TRUE]
  <2>3. q \in RequestType /\ q.srv = s /\ q.op = "pick"
    BY <2>2, AmountAssumption DEF RequestType, Request
  <2> QED BY <2>1, <2>3, BeginTypes
<1>3. ASSUME NEW c \in Customers, StopService(w, c) PROVE TypeOK'
  <2>1. /\ current[c] # NoRow
        /\ Begin(w, "StopService", Request("stop", c,
             CostToReturn(rows[current[c]].srv, rows[current[c]].start, clock)))
    BY <1>3 DEF StopService
  <2>2. rows[current[c]].srv \in Services /\ rows[current[c]].start \in Nat /\ clock \in Nat
    BY <2>1, BoundAssumption DEF References, ServiceTypes, EnvTypes
  <2>3. CostToReturn(rows[current[c]].srv, rows[current[c]].start, clock) \in Nat
    BY <2>2, RefundType
  <2> DEFINE q == Request("stop", c,
                    CostToReturn(rows[current[c]].srv, rows[current[c]].start, clock))
  <2>4. q \in RequestType
    BY <2>3, <1>a DEF RequestOps
  <2>5. q.op = "stop"
    BY DEF Request
  <2> QED BY <2>1, <2>4, <2>5, BeginTypes
<1>4. ASSUME NEW c \in Customers, MakeShot(w, c) PROVE TypeOK'
  <2>1. PICK n \in ShotCosts :
          Begin(w, "MakeShot", [Request("shot", c, -n) EXCEPT !.staff = TRUE])
    BY <1>4 DEF MakeShot
  <2>2. Request("shot", c, -n) \in RequestType
    BY <1>a, AmountAssumption DEF RequestOps
  <2> DEFINE q == [Request("shot", c, -n) EXCEPT !.staff = TRUE]
  <2>3. q \in RequestType /\ q.op = "shot"
    BY <2>2 DEF RequestType, Request
  <2> QED BY <2>1, <2>3, BeginTypes
<1>5. ASSUME NEW c \in Customers, BuyDebt(w, c) PROVE TypeOK'
  <2>1. PICK d \in Debts :
          Begin(w, "BuyDebt", [Request("debt", c, -DebtCost[d]) EXCEPT !.ref = d])
    BY <1>5 DEF BuyDebt
  <2>2. Request("debt", c, -DebtCost[d]) \in RequestType
    BY <1>a, PayAssumption DEF RequestOps
  <2> DEFINE q == [Request("debt", c, -DebtCost[d]) EXCEPT !.ref = d]
  <2>3. q \in RequestType /\ q.op = "debt" /\ q.ref \in Debts
    BY <2>2 DEF RequestType, Request
  <2> QED BY <2>1, <2>3, BeginTypes
<1>6. ASSUME NEW c \in Customers, AddBalance(w, c) PROVE TypeOK'
  <2>1. PICK n \in TopUps :
          /\ Spend
          /\ web' = [web EXCEPT ![w] = [Request("topup", c, n) EXCEPT !.staff = (n < 0)]]
          /\ ledger' = [ledger EXCEPT ![c] = @ + n]
          /\ unsaved' = [unsaved EXCEPT ![c] = @ + n]
          /\ UNCHANGED <<balance, overtaken, forced, services, flags, pays, external, job, queue, clock>>
    BY <1>6 DEF AddBalance
  <2>2. n \in Int
    BY AmountAssumption
  <2>3. Request("topup", c, n) \in RequestType
    BY <2>2, <1>a DEF RequestOps
  <2> DEFINE q == [Request("topup", c, n) EXCEPT !.staff = (n < 0)]
  <2>4. q \in RequestType /\ q.op = "topup"
    <3>1. (n < 0) \in BOOLEAN
      OBVIOUS
    <3>2. ASSUME NEW b \in BOOLEAN
          PROVE  /\ [Request("topup", c, n) EXCEPT !.staff = b] \in RequestType
                 /\ [Request("topup", c, n) EXCEPT !.staff = b].op = "topup"
      BY <2>3 DEF RequestType, Request
    <3> QED BY <3>1, <3>2
  <2>5. WebTypes'
    <3> HIDE DEF q
    <3>1. web' = [web EXCEPT ![w] = q]
      BY <2>1 DEF q
    <3> QED BY <3>1, <2>4 DEF WebTypes
  <2>6. MoneyTypes'
    BY <2>1, <2>2 DEF MoneyTypes
  <2>7. EnvTypes'
    BY <2>1, BoundAssumption DEF EnvTypes, Spend
  <2>8. ServiceTypes' /\ References' /\ FlagTypes' /\ PaysTypes' /\ ExternalTypes' /\ JobTypes'
    BY <2>1 DEF services, flags, pays, external, ServiceTypes, References, FlagTypes,
                PaysTypes, ExternalTypes, JobTypes
  <2> QED BY <2>5, <2>6, <2>7, <2>8
<1>7. ASSUME NEW id \in PayIds, ReceivePay(w, id) PROVE TypeOK'
  <2>1. Begin(w, "ReceivePay", [Request("pay", PayFor[id], PayAmount[id]) EXCEPT !.ref = id])
    BY <1>7 DEF ReceivePay
  <2>2. Request("pay", PayFor[id], PayAmount[id]) \in RequestType
    BY <1>a, PayAssumption DEF RequestOps
  <2> DEFINE q == [Request("pay", PayFor[id], PayAmount[id]) EXCEPT !.ref = id]
  <2>3. q \in RequestType /\ q.op = "pay" /\ q.ref \in PayIds
    BY <2>2 DEF RequestType, Request
  <2> QED BY <2>1, <2>3, BeginTypes
<1> QED
  BY <1>1, <1>2, <1>3, <1>4, <1>5, <1>6, <1>7 DEF BeginStep

LEMMA EndTypes ==
  ASSUME WebTypes, NEW w \in Web, End(w)
  PROVE  WebTypes'
<1>1. Free.op \notin {"pick", "pay", "debt"}
  BY FreeIsNoRequest
<1> QED BY <1>1 DEF End, WebTypes

LEMMA MarkForcedTypes ==
  ASSUME MoneyTypes, WebTypes, NEW w \in Web, web[w].op # "free", MarkForced(w)
  PROVE  forced' \subseteq Customers
<1>1. web[w] \in RequestType
  BY FreeIsNoRequest DEF WebTypes
<1> QED BY <1>1 DEF MarkForced, MoneyTypes, RequestType

LEMMA CommitStepTypes ==
  ASSUME TypeOK, NEW w \in Web, CommitStep(w)
  PROVE  TypeOK'
<1> USE DEF TypeOK
<1> DEFINE q == web[w]
<1>a. ASSUME q.op # "free" PROVE q \in RequestType
  BY <1>a, FreeIsNoRequest DEF WebTypes
<1>b. ASSUME q.op # "free"
      PROVE  /\ q.c \in Customers /\ q.seen \in Int /\ q.amount \in Int
             /\ q.row \in RowIds \cup {NoRow} /\ q.setLast \in BOOLEAN
             /\ q.deadline \in Nat \cup {NoDeadline}
             /\ q.ref \in PayIds \cup Debts \cup {"none"}
  BY <1>a, <1>b DEF RequestType
<1>1. CASE CommitPick(w)
  <2>1. q.op = "pick" /\ q.srv \in Services
    BY <1>1 DEF CommitPick, WebTypes
  <2>2. granted' \subseteq Customers \X Services
    BY <1>1, <1>b, <2>1 DEF CommitPick, ServiceTypes
  <2>3. Connect(q, q.srv, q.setLast, q.deadline)
    BY <1>1 DEF CommitPick
  <2>4. /\ balance' \in [Customers -> Int] /\ ledger' \in [Customers -> Int]
        /\ unsaved' \in [Customers -> Int] /\ overtaken' \subseteq Customers
        /\ ServiceTypes' /\ References'
    <3> HIDE DEF q
    <3> QED BY <2>1, <2>2, <2>3, <1>b, ConnectTypes
  <2>5. forced' \subseteq Customers /\ WebTypes'
    BY <1>1, <2>1, EndTypes, MarkForcedTypes DEF CommitPick
  <2>6. FlagTypes' /\ PaysTypes' /\ ExternalTypes' /\ JobTypes' /\ EnvTypes'
    BY <1>1 DEF CommitPick, flags, pays, external, FlagTypes, PaysTypes, ExternalTypes,
                JobTypes, EnvTypes
  <2> QED BY <2>4, <2>5, <2>6 DEF MoneyTypes
<1>2. CASE CommitStop(w)
  <2>1. q.op = "stop" /\ Stop(q, q.amount) /\ forced' = forced
    BY <1>2 DEF CommitStop
  <2>2. MoneyTypes' /\ ServiceTypes' /\ References'
    <3> HIDE DEF q
    <3> QED BY <2>1, <1>b, StopTypes
  <2>3. WebTypes'
    BY <1>2, EndTypes DEF CommitStop
  <2>4. FlagTypes' /\ PaysTypes' /\ ExternalTypes' /\ JobTypes' /\ EnvTypes'
    BY <1>2 DEF CommitStop, flags, pays, external, FlagTypes, PaysTypes, ExternalTypes,
                JobTypes, EnvTypes
  <2> QED BY <2>2, <2>3, <2>4
<1>3. CASE CommitShot(w)
  <2>1. q.op = "shot" /\ Post(q, q.amount)
    BY <1>3 DEF CommitShot
  <2>2. forced' \subseteq Customers /\ WebTypes'
    BY <1>3, <2>1, EndTypes, MarkForcedTypes DEF CommitShot
  <2>3. MoneyTypes'
    BY <2>1, <2>2, <1>b, PostTypes DEF MoneyTypes
  <2>4. /\ ServiceTypes' /\ References' /\ FlagTypes' /\ PaysTypes' /\ ExternalTypes'
        /\ JobTypes' /\ EnvTypes'
    BY <1>3 DEF CommitShot, services, flags, pays, external, ServiceTypes, References,
                FlagTypes, PaysTypes, ExternalTypes, JobTypes, EnvTypes
  <2> QED BY <2>2, <2>3, <2>4
<1>4. CASE CommitDebt(w)
  <2>1. q.op = "debt" /\ Post(q, q.amount) /\ forced' = forced
    BY <1>4 DEF CommitDebt
  <2>2. WebTypes'
    BY <1>4, EndTypes DEF CommitDebt
  <2>3. MoneyTypes'
    BY <2>1, <1>b, PostTypes DEF MoneyTypes
  <2>4. ExternalTypes'
    <3>1. settled' = settled \cup {q.ref} /\ paid' = paid /\ credits' = credits
      BY <1>4 DEF CommitDebt
    <3>2. q.ref \in Debts
      BY <2>1 DEF WebTypes
    <3> QED BY <3>1, <3>2 DEF ExternalTypes
  <2>5. /\ ServiceTypes' /\ References' /\ FlagTypes' /\ PaysTypes'
        /\ JobTypes' /\ EnvTypes'
    BY <1>4 DEF CommitDebt, services, flags, pays, ServiceTypes, References,
                FlagTypes, PaysTypes, JobTypes, EnvTypes
  <2> QED BY <2>2, <2>3, <2>4, <2>5
<1>5. CASE SaveBalance(w)
  <2>1. /\ q.op = "topup" /\ ledger' = ledger /\ Save(q, q.amount)
        /\ unsaved' = [unsaved EXCEPT ![q.c] = @ - q.amount]
    BY <1>5 DEF SaveBalance
  <2>2. forced' \subseteq Customers /\ WebTypes'
    BY <1>5, <2>1, EndTypes, MarkForcedTypes DEF SaveBalance
  <2>3. MoneyTypes'
    <3>1. unsaved' \in [Customers -> Int]
      BY <2>1, <1>b DEF MoneyTypes
    <3> HIDE DEF q
    <3> QED BY <2>1, <2>2, <3>1, <1>b, SaveTypes DEF MoneyTypes
  <2>4. /\ ServiceTypes' /\ References' /\ FlagTypes' /\ PaysTypes' /\ ExternalTypes'
        /\ JobTypes' /\ EnvTypes'
    BY <1>5 DEF SaveBalance, services, flags, pays, external, ServiceTypes, References,
                FlagTypes, PaysTypes, ExternalTypes, JobTypes, EnvTypes
  <2> QED BY <2>2, <2>3, <2>4
<1>6. CASE CommitPay(w)
  <2>1. /\ q.op = "pay" /\ Post(q, q.amount) /\ forced' = forced
        /\ web' = [web EXCEPT ![w].op = "notify"]
    BY <1>6 DEF CommitPay
  <2>2. MoneyTypes'
    BY <2>1, <1>b, PostTypes DEF MoneyTypes
  <2>3. WebTypes'
    <3>1. [q EXCEPT !.op = "notify"] \in RequestType
      BY <2>1, <1>a DEF RequestType, RequestOps
    <3>2. [q EXCEPT !.op = "notify"].op = "notify"
      BY <2>1, <1>a DEF RequestType
    <3>3. web' = [web EXCEPT ![w] = [q EXCEPT !.op = "notify"]]
      BY <2>1
    <3> QED BY <3>1, <3>2, <3>3 DEF WebTypes
  <2>4. ExternalTypes'
    <3>1. /\ paid' = paid \cup {q.ref} /\ settled' = settled
          /\ credits' = [credits EXCEPT ![q.ref] = @ + 1]
      BY <1>6 DEF CommitPay
    <3>2. q.ref \in PayIds
      BY <2>1 DEF WebTypes
    <3> QED BY <3>1, <3>2 DEF ExternalTypes
  <2>5. /\ ServiceTypes' /\ References' /\ FlagTypes' /\ PaysTypes'
        /\ JobTypes' /\ EnvTypes'
    BY <1>6 DEF CommitPay, services, flags, pays, ServiceTypes, References,
                FlagTypes, PaysTypes, JobTypes, EnvTypes
  <2> QED BY <2>2, <2>3, <2>4, <2>5
<1>7. CASE RejectPay(w)
  <2>1. WebTypes'
    BY <1>7, EndTypes DEF RejectPay
  <2>2. /\ MoneyTypes' /\ ServiceTypes' /\ References' /\ FlagTypes' /\ PaysTypes'
        /\ ExternalTypes' /\ JobTypes' /\ EnvTypes'
    BY <1>7 DEF RejectPay, money, services, flags, pays, external, MoneyTypes, ServiceTypes,
                References, FlagTypes, PaysTypes, ExternalTypes, JobTypes, EnvTypes
  <2> QED BY <2>1, <2>2
<1>8. CASE NotifyPay(w)
  <2>1. WebTypes'
    BY <1>8, EndTypes DEF NotifyPay
  <2>2. EnvTypes'
    <3>1. web[w].op = "notify" /\ queue' = [queue EXCEPT ![q.c] = @ + 1]
      BY <1>8 DEF NotifyPay
    <3> QED BY <1>8, <3>1, <1>b DEF NotifyPay, EnvTypes
  <2>3. /\ MoneyTypes' /\ ServiceTypes' /\ References' /\ FlagTypes' /\ PaysTypes'
        /\ ExternalTypes' /\ JobTypes'
    BY <1>8 DEF NotifyPay, money, services, flags, pays, external, MoneyTypes, ServiceTypes,
                References, FlagTypes, PaysTypes, ExternalTypes, JobTypes
  <2> QED BY <2>1, <2>2, <2>3
<1> QED
  BY <1>1, <1>2, <1>3, <1>4, <1>5, <1>6, <1>7, <1>8 DEF CommitStep

LEMMA ProfileStepTypes ==
  ASSUME TypeOK, ProfileStep
  PROVE  TypeOK'
<1> USE DEF TypeOK
<1>a. ASSUME Spend PROVE budget' \in 0..MaxRequests
  BY <1>a, BoundAssumption DEF Spend, EnvTypes
<1>1. ASSUME NEW c \in Customers, SetAuto(c) PROVE TypeOK'
  <2>1. FlagTypes'
    BY <1>1 DEF SetAuto, FlagTypes
  <2>2. EnvTypes'
    BY <1>1, <1>a DEF SetAuto, EnvTypes
  <2>3. /\ MoneyTypes' /\ ServiceTypes' /\ References' /\ PaysTypes' /\ ExternalTypes'
        /\ WebTypes' /\ JobTypes'
    BY <1>1 DEF SetAuto, money, services, pays, external, MoneyTypes, ServiceTypes,
                References, PaysTypes, ExternalTypes, WebTypes, JobTypes
  <2> QED BY <2>1, <2>2, <2>3
<1>2. ASSUME NEW c \in Customers, UpdateProfile(c) PROVE TypeOK'
  <2>1. FlagTypes' /\ last' \in [Customers -> Services \cup {NoService}]
    <3>1. CASE /\ \E b \in BOOLEAN : b # auto[c] /\ auto' = [auto EXCEPT ![c] = b]
               /\ UNCHANGED <<active, last>>
      BY <3>1 DEF FlagTypes, ServiceTypes
    <3>2. CASE active' = [active EXCEPT ![c] = ~@] /\ UNCHANGED <<auto, last>>
      BY <3>2 DEF FlagTypes, ServiceTypes
    <3>3. CASE /\ \E s \in Services \cup {NoService} :
                    s # last[c] /\ last' = [last EXCEPT ![c] = s]
               /\ UNCHANGED flags
      BY <3>3 DEF FlagTypes, ServiceTypes, flags
    <3> QED BY <1>2, <3>1, <3>2, <3>3 DEF UpdateProfile
  <2>2. ServiceTypes' /\ References'
    BY <1>2, <2>1 DEF UpdateProfile, ServiceTypes, References
  <2>3. EnvTypes'
    BY <1>2, <1>a DEF UpdateProfile, EnvTypes
  <2>4. MoneyTypes' /\ PaysTypes' /\ ExternalTypes' /\ WebTypes' /\ JobTypes'
    BY <1>2 DEF UpdateProfile, money, pays, external, MoneyTypes, PaysTypes, ExternalTypes,
                WebTypes, JobTypes
  <2> QED BY <2>1, <2>2, <2>3, <2>4
<1>3. ASSUME NEW p \in PPays, MakePeriodicPay(p) \/ DeletePeriodicPay(p) PROVE TypeOK'
  <2>1. PaysTypes'
    BY <1>3, PayAssumption DEF MakePeriodicPay, DeletePeriodicPay, PaysTypes
  <2>2. EnvTypes'
    BY <1>3, <1>a DEF MakePeriodicPay, DeletePeriodicPay, EnvTypes
  <2>3. /\ MoneyTypes' /\ ServiceTypes' /\ References' /\ FlagTypes' /\ ExternalTypes'
        /\ WebTypes' /\ JobTypes'
    BY <1>3 DEF MakePeriodicPay, DeletePeriodicPay, money, services, flags, external,
                MoneyTypes, ServiceTypes, References, FlagTypes, ExternalTypes, WebTypes,
                JobTypes
  <2> QED BY <2>1, <2>2, <2>3
<1> QED BY <1>1, <1>2, <1>3 DEF ProfileStep

(* A step of a task that only moves the task on. *)
LEMMA JobMovesTypes ==
  ASSUME TypeOK, NEW k \in Celery, NEW j \in JobType, job' = [job EXCEPT ![k] = j],
         UNCHANGED <<money, services, flags, pays, external, web, queue, clock>>,
         budget' \in 0..MaxRequests
  PROVE  TypeOK'
<1>1. JobTypes'
  BY DEF TypeOK, JobTypes
<1>2. EnvTypes'
  BY DEF TypeOK, EnvTypes
<1> QED
  BY <1>1, <1>2 DEF TypeOK, money, services, flags, pays, external, MoneyTypes, ServiceTypes,
     References, FlagTypes, PaysTypes, ExternalTypes, WebTypes

LEMMA StartStepTypes ==
  ASSUME TypeOK, NEW k \in Celery, StartStep(k)
  PROVE  TypeOK'
<1>1. CASE ManageStart(k)
  <2>1. job' = [job EXCEPT ![k] = [job[k] EXCEPT !.stage = "toRenew"]]
    BY <1>1 DEF ManageStart
  <2>2. [job[k] EXCEPT !.stage = "toRenew"] \in JobType
    BY DEF TypeOK, JobTypes, JobType, Stages
  <2> QED
    BY <1>1, <2>1, <2>2, JobMovesTypes DEF ManageStart, TypeOK, EnvTypes
<1>2. ASSUME NEW c \in Customers, CheckStart(k, c) PROVE TypeOK'
  <2> DEFINE check == [IdleJob EXCEPT !.scope = c]
  <2>1. check \in JobType
    BY IdleJobTyped DEF JobType
  <2>2. [check EXCEPT !.stage = "toRenew"] \in JobType /\ [check EXCEPT !.stage = "toFinish"] \in JobType
    BY <2>1 DEF JobType, Stages
  <2>3. ASSUME CanConnect(c)
        PROVE  [check EXCEPT !.stage = "connecting", !.subs = {Copy(c, last[c])}] \in JobType
    <3>1. last[c] \in Services
      BY <2>3 DEF CanConnect
    <3>2. Copy(c, last[c]) \in CopyType
      BY <3>1, CopyTyped DEF TypeOK
    <3> HIDE DEF check
    <3> QED BY <2>1, <3>2 DEF JobType, Stages
  <2>4. JobTypes'
    <3>1. CASE job' = [job EXCEPT ![k] = [check EXCEPT !.stage = "toRenew"]]
      BY <3>1, <2>2 DEF TypeOK, JobTypes
    <3>2. CASE /\ CanConnect(c)
               /\ job' = [job EXCEPT ![k] = [check EXCEPT !.stage = "connecting",
                                                          !.subs = {Copy(c, last[c])}]]
      BY <3>2, <2>3 DEF TypeOK, JobTypes
    <3>3. CASE UNCHANGED job
      BY <3>3 DEF TypeOK, JobTypes
    <3>4. CASE job' = [job EXCEPT ![k] = [check EXCEPT !.stage = "toFinish"]]
      BY <3>4, <2>2 DEF TypeOK, JobTypes
    <3> QED BY <1>2, <3>1, <3>2, <3>3, <3>4 DEF CheckStart
  <2>5. EnvTypes'
    BY <1>2 DEF CheckStart, TypeOK, EnvTypes
  <2>6. /\ MoneyTypes' /\ ServiceTypes' /\ References' /\ FlagTypes' /\ PaysTypes'
        /\ ExternalTypes' /\ WebTypes'
    BY <1>2 DEF CheckStart, TypeOK, money, services, flags, pays, external, MoneyTypes,
       ServiceTypes, References, FlagTypes, PaysTypes, ExternalTypes, WebTypes
  <2> QED BY <2>4, <2>5, <2>6 DEF TypeOK
<1> QED BY <1>1, <1>2 DEF StartStep

LEMMA JobStepTypes ==
  ASSUME TypeOK, NEW k \in Celery, JobStep(k)
  PROVE  TypeOK'
<1> USE DEF TypeOK
<1> DEFINE j == job[k]
<1>a. /\ j \in JobType /\ j.now \in Nat
      /\ j.subs \subseteq CopyType /\ j.due \subseteq DueType
  BY DEF JobTypes, JobType
<1>b. clock \in Nat
  BY BoundAssumption DEF EnvTypes
<1>c. \A x \in j.subs : /\ x.c \in Customers /\ x.seen \in Int /\ x.row \in RowIds \cup {NoRow}
                        /\ x.srv \in Services /\ x.start \in Nat
                        /\ Cost[x.srv] \in Nat
  BY <1>a, ServiceAssumption DEF CopyType
<1>d. ASSUME NEW jj \in JobType, job' = [job EXCEPT ![k] = jj] PROVE JobTypes'
  BY <1>d DEF JobTypes
<1>1. CASE RenewQuery(k)
  <2> DEFINE expired == {c \in InScope(k) : Owes(c) /\ auto[c]}
             copies == {Copy(c, rows[current[c]].srv) : c \in expired}
             next == IF expired = {} THEN Then(j, "toFinish")
                     ELSE [j EXCEPT !.stage = "renewing", !.now = clock, !.subs = copies]
  <2>1. expired \subseteq Customers
    BY <1>a DEF InScope, JobType
  <2>2. copies \subseteq CopyType
    <3>1. ASSUME NEW c \in expired PROVE Copy(c, rows[current[c]].srv) \in CopyType
      <4>1. c \in Customers /\ current[c] # NoRow
        BY <2>1 DEF Owes
      <4>2. rows[current[c]].srv \in Services
        BY <4>1 DEF References
      <4> QED BY <4>1, <4>2, CopyTyped
    <3> QED BY <3>1
  <2>3. next \in JobType
    <3>1. [j EXCEPT !.stage = "renewing", !.now = clock, !.subs = copies] \in JobType
      <4> HIDE DEF copies, j
      <4> QED BY <2>2, <1>a, <1>b DEF JobType, Stages
    <3> QED BY <3>1, <1>a, ThenTyped DEF Stages
  <2>4. /\ job' = [job EXCEPT ![k] = next]
        /\ UNCHANGED <<money, services, flags, pays, external, web, queue, clock, budget>>
    BY <1>1 DEF RenewQuery
  <2> HIDE DEF next
  <2> QED BY <2>3, <2>4, JobMovesTypes DEF EnvTypes
<1>2. CASE Renew(k)
  <2>1. PICK x \in j.subs :
          /\ Stored(x.row)
          /\ rows' = [rows EXCEPT ![x.row].start = j.now,
                                  ![x.row].deadline = CalcDeadline(x.srv, clock)]
          /\ Post(x, -Cost[x.srv])
          /\ job' = [job EXCEPT ![k] = Rest(j, x, "toFinish")]
    BY <1>2 DEF Renew
  <2>2. x.row \in RowIds /\ CalcDeadline(x.srv, clock) \in Nat
    BY <2>1, <1>b, <1>c, DeadlineType DEF Stored
  <2>3. UNCHANGED <<forced, current, last, granted, flags, pays, external, web, queue, clock, budget>>
    BY <1>2 DEF Renew
  <2>4. MoneyTypes'
    BY <2>1, <2>3, <1>c, PostTypes DEF MoneyTypes
  <2>5. rows' \in [RowIds -> [srv : Services \cup {NoService}, start : Nat, deadline : Nat]]
    BY <2>1, <2>2, <1>a DEF ServiceTypes
  <2>6. \A r \in RowIds : rows'[r].srv = rows[r].srv
    BY <2>1, <2>2 DEF ServiceTypes
  <2>7. ServiceTypes' /\ References'
    BY <2>3, <2>5, <2>6 DEF ServiceTypes, References
  <2>8. JobTypes'
    <3>1. Rest(j, x, "toFinish") \in JobType
      BY <1>a, RestTyped DEF Stages
    <3> QED BY <2>1, <3>1, <1>d
  <2>9. FlagTypes' /\ PaysTypes' /\ ExternalTypes' /\ WebTypes' /\ EnvTypes'
    BY <2>3 DEF flags, pays, external, FlagTypes, PaysTypes, ExternalTypes, WebTypes, EnvTypes
  <2> QED BY <2>4, <2>7, <2>8, <2>9
<1>3. CASE RenewFails(k)
  BY <1>3, IdleJobTyped, JobMovesTypes DEF RenewFails, EnvTypes
<1>4. CASE RefuseRenewal(k)
  <2>1. PICK x \in j.subs :
          /\ Stop(x, CostToReturn(x.srv, x.start, clock))
          /\ job' = [job EXCEPT ![k] = Rest(j, x, "toFinish")]
    BY <1>4 DEF RefuseRenewal
  <2>2. UNCHANGED <<forced, flags, pays, external, web, queue, clock, budget>>
    BY <1>4 DEF RefuseRenewal
  <2>3. CostToReturn(x.srv, x.start, clock) \in Nat
    BY <1>b, <1>c, RefundType
  <2>4. MoneyTypes' /\ ServiceTypes' /\ References'
    BY <2>1, <2>2, <2>3, <1>c, StopTypes
  <2>5. JobTypes'
    <3>1. Rest(j, x, "toFinish") \in JobType
      BY <1>a, RestTyped DEF Stages
    <3> QED BY <2>1, <3>1, <1>d
  <2>6. FlagTypes' /\ PaysTypes' /\ ExternalTypes' /\ WebTypes' /\ EnvTypes'
    BY <2>2 DEF flags, pays, external, FlagTypes, PaysTypes, ExternalTypes, WebTypes, EnvTypes
  <2> QED BY <2>4, <2>5, <2>6
<1>5. CASE FinishQuery(k)
  <2> DEFINE next == IF ExpiredRows(k, clock) = {} THEN Then(j, "toConnect")
                     ELSE [j EXCEPT !.stage = "finishing", !.now = clock]
  <2>1. next \in JobType
    <3>1. [j EXCEPT !.stage = "finishing", !.now = clock] \in JobType
      <4> HIDE DEF j
      <4> QED BY <1>a, <1>b DEF JobType, Stages
    <3> QED BY <3>1, <1>a, ThenTyped DEF Stages
  <2>2. /\ job' = [job EXCEPT ![k] = next]
        /\ UNCHANGED <<money, services, flags, pays, external, web, queue, clock, budget>>
    BY <1>5 DEF FinishQuery
  <2> HIDE DEF next
  <2> QED BY <2>1, <2>2, JobMovesTypes DEF EnvTypes
<1>6. CASE FinishDelete(k)
  <2>1. /\ Drop(ExpiredRows(k, j.now))
        /\ job' = [job EXCEPT ![k] = Then(j, "toConnect")]
        /\ UNCHANGED <<money, flags, pays, external, web, queue, clock, budget>>
    BY <1>6 DEF FinishDelete
  <2>2. InScope(k) \subseteq Customers
    BY <1>a DEF InScope, JobType
  <2>3. ExpiredRows(k, j.now) \subseteq RowIds \cup {NoRow}
    BY <2>2 DEF ExpiredRows, ServiceTypes
  <2>4. ServiceTypes' /\ References'
    BY <2>1, <2>3, DropTypes
  <2>5. JobTypes'
    <3>1. Then(j, "toConnect") \in JobType
      BY <1>a, ThenTyped DEF Stages
    <3> QED BY <2>1, <3>1, <1>d
  <2>6. MoneyTypes' /\ FlagTypes' /\ PaysTypes' /\ ExternalTypes' /\ WebTypes' /\ EnvTypes'
    BY <2>1 DEF money, flags, pays, external, MoneyTypes, FlagTypes, PaysTypes, ExternalTypes,
       WebTypes, EnvTypes
  <2> QED BY <2>4, <2>5, <2>6
<1>7. CASE ConnectQuery(k)
  <2> DEFINE waiting == {c \in Customers : CanConnect(c)}
             copies == {Copy(c, last[c]) : c \in waiting}
             next == IF waiting = {} THEN Then(j, "toCharge")
                     ELSE [j EXCEPT !.stage = "connecting", !.subs = copies]
  <2>1. copies \subseteq CopyType
    <3>1. ASSUME NEW c \in waiting PROVE Copy(c, last[c]) \in CopyType
      BY CopyTyped DEF CanConnect
    <3> QED BY <3>1
  <2>2. next \in JobType
    <3>1. [j EXCEPT !.stage = "connecting", !.subs = copies] \in JobType
      <4> HIDE DEF copies, j
      <4> QED BY <2>1, <1>a DEF JobType, Stages
    <3> QED BY <3>1, <1>a, ThenTyped DEF Stages
  <2>3. /\ job' = [job EXCEPT ![k] = next]
        /\ UNCHANGED <<money, services, flags, pays, external, web, queue, clock, budget>>
    BY <1>7 DEF ConnectQuery
  <2> HIDE DEF next
  <2> QED BY <2>2, <2>3, JobMovesTypes DEF EnvTypes
<1>8. CASE AutoConnect(k)
  <2>1. PICK x \in j.subs :
          /\ Connect(x, x.srv, FALSE, NoDeadline)
          /\ job' = [job EXCEPT ![k] = Rest(j, x, "toCharge")]
    BY <1>8 DEF AutoConnect
  <2>2. UNCHANGED <<forced, granted, flags, pays, external, web, queue, clock, budget>>
    BY <1>8 DEF AutoConnect
  <2>3. granted' \subseteq Customers \X Services
    BY <2>2 DEF ServiceTypes
  <2>4. /\ balance' \in [Customers -> Int] /\ ledger' \in [Customers -> Int]
        /\ unsaved' \in [Customers -> Int] /\ overtaken' \subseteq Customers
        /\ ServiceTypes' /\ References'
    BY <2>1, <2>3, <1>c, ConnectTypes
  <2>5. JobTypes'
    <3>1. Rest(j, x, "toCharge") \in JobType
      BY <1>a, RestTyped DEF Stages
    <3> QED BY <2>1, <3>1, <1>d
  <2>6. FlagTypes' /\ PaysTypes' /\ ExternalTypes' /\ WebTypes' /\ EnvTypes'
    BY <2>2 DEF flags, pays, external, FlagTypes, PaysTypes, ExternalTypes, WebTypes, EnvTypes
  <2> QED BY <2>2, <2>4, <2>5, <2>6 DEF MoneyTypes
<1>9. CASE SkipConnect(k)
  <2>1. PICK x \in j.subs : job' = [job EXCEPT ![k] = Rest(j, x, "toCharge")]
    BY <1>9 DEF SkipConnect
  <2>2. Rest(j, x, "toCharge") \in JobType
    BY <1>a, RestTyped DEF Stages
  <2> QED BY <1>9, <2>1, <2>2, JobMovesTypes DEF SkipConnect, EnvTypes
<1>10. CASE ChargeQuery(k)
  <2> DEFINE due == {p \in PPays : nextPay[p] >= 0 /\ nextPay[p] < clock}
             copies == {Due(p) : p \in due}
             next == IF due = {} THEN IdleJob
                     ELSE [j EXCEPT !.stage = "charging", !.now = clock, !.due = copies]
  <2>1. copies \subseteq DueType
    BY DueTyped
  <2>2. next \in JobType
    <3>1. [j EXCEPT !.stage = "charging", !.now = clock, !.due = copies] \in JobType
      <4> HIDE DEF copies, j
      <4> QED BY <2>1, <1>a, <1>b DEF JobType, Stages
    <3> QED BY <3>1, IdleJobTyped
  <2>3. /\ job' = [job EXCEPT ![k] = next]
        /\ UNCHANGED <<money, services, flags, pays, external, web, queue, clock, budget>>
    BY <1>10 DEF ChargeQuery
  <2> HIDE DEF next
  <2> QED BY <2>2, <2>3, JobMovesTypes DEF EnvTypes
<1>11. CASE Charge(k)
  <2>1. PICK x \in j.due :
          /\ Post(x, -PPAmount[x.pay])
          /\ forced' = forced \cup {x.c}
          /\ nextPay' = [nextPay EXCEPT ![x.pay] = NextMonth(clock)]
          /\ lastPay' = [lastPay EXCEPT ![x.pay] = j.now]
          /\ times' = [times EXCEPT ![x.pay] = @ + 1]
          /\ job' = [job EXCEPT ![k] = IF j.due = {x} THEN IdleJob
                                       ELSE [j EXCEPT !.due = @ \ {x}]]
    BY <1>11 DEF Charge
  <2>2. /\ x.pay \in PPays /\ x.c \in Customers /\ x.seen \in Int
        /\ PPAmount[x.pay] \in Nat
    BY <1>a, PayAssumption DEF DueType
  <2>3. MoneyTypes'
    BY <2>1, <2>2, PostTypes DEF MoneyTypes
  <2>4. NextMonth(clock) \in Nat
    BY <1>b, MonthTypes
  <2>5. PaysTypes'
    BY <2>1, <2>2, <2>4, <1>a DEF PaysTypes
  <2>6. JobTypes'
    <3>1. [j EXCEPT !.due = @ \ {x}] \in JobType
      <4> HIDE DEF j
      <4> QED BY <1>a DEF JobType
    <3> QED BY <2>1, <3>1, <1>d, IdleJobTyped
  <2>7. /\ ServiceTypes' /\ References' /\ FlagTypes' /\ ExternalTypes' /\ WebTypes' /\ EnvTypes'
    BY <1>11 DEF Charge, services, flags, external, ServiceTypes, References, FlagTypes,
       ExternalTypes, WebTypes, EnvTypes
  <2> QED BY <2>3, <2>5, <2>6, <2>7
<1>12. CASE ChargeFails(k)
  BY <1>12, IdleJobTyped, JobMovesTypes DEF ChargeFails, EnvTypes
<1> QED
  BY <1>1, <1>2, <1>3, <1>4, <1>5, <1>6, <1>7, <1>8, <1>9, <1>10, <1>11, <1>12 DEF JobStep

LEMMA TypeInit == Init => TypeOK
<1> SUFFICES ASSUME Init PROVE TypeOK
  OBVIOUS
<1>1. MoneyTypes /\ FlagTypes /\ PaysTypes /\ ExternalTypes
  <2>1. MoneyTypes
    <3>1. balance \in [Customers -> StartBalances] /\ ledger = balance
      BY DEF Init
    <3>2. balance \in [Customers -> Int] /\ ledger \in [Customers -> Int]
      <4>1. StartBalances \subseteq Int
        BY AmountAssumption
      <4>2. \A c \in Customers : balance[c] \in Int
        BY <3>1, <4>1
      <4>3. balance = [c \in Customers |-> balance[c]]
        BY <3>1
      <4> QED BY <3>1, <4>2, <4>3
    <3>3. unsaved = [c \in Customers |-> 0] /\ overtaken = {} /\ forced = {}
      BY DEF Init
    <3>4. unsaved \in [Customers -> Int]
      BY <3>3
    <3> QED BY <3>2, <3>3, <3>4 DEF MoneyTypes
  <2>2. FlagTypes
    BY DEF Init, FlagTypes
  <2>3. PaysTypes
    BY PayAssumption DEF Init, PaysTypes
  <2>4. ExternalTypes
    BY DEF Init, ExternalTypes
  <2> QED BY <2>1, <2>2, <2>3, <2>4
<1>2. ServiceTypes /\ References
  BY DEF Init, ServiceTypes, References, NoRecord
<1>3. WebTypes
  BY FreeIsNoRequest DEF Init, WebTypes
<1>4. JobTypes
  BY IdleJobTyped DEF Init, JobTypes
<1>5. EnvTypes
  BY BoundAssumption DEF Init, EnvTypes
<1> QED BY <1>1, <1>2, <1>3, <1>4, <1>5 DEF TypeOK

LEMMA TypeNext == TypeOK /\ [Next]_vars => TypeOK'
<1> SUFFICES ASSUME TypeOK, [Next]_vars PROVE TypeOK'
  OBVIOUS
<1>1. ASSUME NEW w \in Web, BeginStep(w) PROVE TypeOK'
  BY <1>1, BeginStepTypes
<1>2. ASSUME NEW w \in Web, CommitStep(w) PROVE TypeOK'
  BY <1>2, CommitStepTypes
<1>3. ASSUME NEW w \in Web, WebCrash(w) PROVE TypeOK'
  <2>1. WebTypes'
    BY <1>3, EndTypes DEF WebCrash, TypeOK
  <2>2. EnvTypes'
    BY <1>3, BoundAssumption DEF WebCrash, Spend, TypeOK, EnvTypes
  <2>3. /\ MoneyTypes' /\ ServiceTypes' /\ References' /\ FlagTypes' /\ PaysTypes'
        /\ ExternalTypes' /\ JobTypes'
    BY <1>3 DEF WebCrash, TypeOK, money, services, flags, pays, external, MoneyTypes,
       ServiceTypes, References, FlagTypes, PaysTypes, ExternalTypes, JobTypes
  <2> QED BY <2>1, <2>2, <2>3 DEF TypeOK
<1>4. ASSUME ProfileStep PROVE TypeOK'
  BY <1>4, ProfileStepTypes
<1>5. ASSUME Tick PROVE TypeOK'
  <2>1. EnvTypes'
    BY <1>5, BoundAssumption DEF Tick, TypeOK, EnvTypes
  <2> QED
    BY <1>5, <2>1 DEF Tick, TypeOK, money, services, flags, pays, external, MoneyTypes,
       ServiceTypes, References, FlagTypes, PaysTypes, ExternalTypes, WebTypes, JobTypes
<1>6. ASSUME NEW k \in Celery, JobStep(k) PROVE TypeOK'
  BY <1>6, JobStepTypes
<1>7. ASSUME NEW k \in Celery, StartStep(k) PROVE TypeOK'
  BY <1>7, StartStepTypes
<1>8. ASSUME NEW k \in Celery, JobCrash(k) PROVE TypeOK'
  <2>1. budget' \in 0..MaxRequests
    BY <1>8, BoundAssumption DEF JobCrash, Spend, TypeOK, EnvTypes
  <2> QED BY <1>8, <2>1, IdleJobTyped, JobMovesTypes DEF JobCrash
<1>9. ASSUME UNCHANGED vars PROVE TypeOK'
  BY <1>9 DEF vars, TypeOK, money, services, flags, pays, external, MoneyTypes, ServiceTypes,
     References, FlagTypes, PaysTypes, ExternalTypes, WebTypes, JobTypes, EnvTypes
<1> QED
  BY <1>1, <1>2, <1>3, <1>4, <1>5, <1>6, <1>7, <1>8, <1>9 DEF Next

(* Every variable keeps its type, and no customer's reference to a service
   dangles, for any number of customers, requests and tasks. *)
THEOREM TypeCorrect == Spec => []TypeOK
BY TypeInit, TypeNext, PTL DEF Spec

-----------------------------------------------------------------------------
(* The log explains the balance. *)

(* A write from an up-to-date copy changes the balance by what it posts; any
   other write marks the customer. *)
LEMMA SaveMoves ==
  ASSUME MoneyTypes, NEW x, x.c \in Customers, x.seen \in Int, NEW d \in Int,
         Save(x, d)
  PROVE  /\ overtaken \subseteq overtaken'
         /\ x.c \notin overtaken' => balance'[x.c] = balance[x.c] + d
         /\ \A e \in Customers \ {x.c} : balance'[e] = balance[e]
<1> DEFINE c == x.c
           n == x.seen + d
<1>1. /\ balance' = [balance EXCEPT ![c] = n] /\ c \in Customers
      /\ \/ x.seen = balance[c] /\ overtaken' = overtaken
         \/ overtaken' = overtaken \cup {c}
  BY DEF Save
<1>2. balance'[c] = n /\ \A e \in Customers \ {c} : balance'[e] = balance[e]
  <2> HIDE DEF c, n
  <2> QED BY <1>1 DEF MoneyTypes
<1> QED BY <1>1, <1>2

LEMMA PostAccounted ==
  ASSUME MoneyTypes, LedgerAccounted,
         NEW x, x.c \in Customers, x.seen \in Int, NEW d \in Int, Post(x, d)
  PROVE  LedgerAccounted'
<1> DEFINE c == x.c
<1>1. /\ overtaken \subseteq overtaken'
      /\ c \notin overtaken' => balance'[c] = balance[c] + d
      /\ \A e \in Customers \ {c} : balance'[e] = balance[e]
  BY SaveMoves DEF Post
<1>2. ledger' = [ledger EXCEPT ![c] = @ + d] /\ unsaved' = unsaved /\ c \in Customers
  BY DEF Post
<1> HIDE DEF c
<1> SUFFICES ASSUME NEW e \in Customers \ overtaken'
             PROVE  ledger'[e] = balance'[e] + unsaved'[e]
  BY DEF LedgerAccounted
<1>3. ledger[e] = balance[e] + unsaved[e]
  BY <1>1 DEF LedgerAccounted
<1> QED BY <1>1, <1>2, <1>3 DEF MoneyTypes

LEMMA StopAccounted ==
  ASSUME MoneyTypes, LedgerAccounted, NEW x, x.c \in Customers, x.seen \in Int,
         NEW refund \in Int, Stop(x, refund)
  PROVE  LedgerAccounted'
<1>1. CASE refund > 0
  BY <1>1, PostAccounted DEF Stop
<1>2. CASE ~(refund > 0)
  BY <1>2 DEF Stop, LedgerAccounted
<1> QED BY <1>1, <1>2

(* What a request in flight is made of, by TypeOK. *)
LEMMA InFlightRequest ==
  ASSUME TypeOK, NEW w \in Web, web[w].op # "free"
  PROVE  /\ web[w] \in RequestType
         /\ web[w].c \in Customers /\ web[w].seen \in Int /\ web[w].amount \in Int
         /\ web[w].staff \in BOOLEAN
<1>1. web[w] \in RequestType
  BY FreeIsNoRequest DEF TypeOK, WebTypes
<1> QED BY <1>1 DEF RequestType

LEMMA HeldCopies ==
  ASSUME TypeOK, NEW k \in Celery
  PROVE  /\ job[k] \in JobType
         /\ \A x \in job[k].subs :
              /\ x.c \in Customers /\ x.seen \in Int /\ x.row \in RowIds \cup {NoRow}
              /\ x.srv \in Services /\ x.start \in Nat /\ Cost[x.srv] \in Nat
         /\ \A x \in job[k].due :
              /\ x.pay \in PPays /\ x.c \in Customers /\ x.seen \in Int
              /\ PPAmount[x.pay] \in Nat
<1>1. job[k] \in JobType
  BY DEF TypeOK, JobTypes
<1>2. job[k].subs \subseteq CopyType /\ job[k].due \subseteq DueType
  BY <1>1 DEF JobType
<1> QED
  BY <1>1, <1>2, ServiceAssumption, PayAssumption DEF CopyType, DueType

LEMMA AccountedInit == Init => LedgerAccounted
<1> SUFFICES ASSUME Init, NEW c \in Customers
             PROVE  ledger[c] = balance[c] + unsaved[c]
  BY DEF LedgerAccounted
<1>1. balance[c] \in Int /\ ledger = balance
  BY TypeInit DEF Init, TypeOK, MoneyTypes
<1>2. unsaved[c] = 0
  BY DEF Init
<1> QED BY <1>1, <1>2

LEMMA AccountedNext == TypeOK /\ LedgerAccounted /\ [Next]_vars => LedgerAccounted'
<1> SUFFICES ASSUME TypeOK, LedgerAccounted, [Next]_vars PROVE LedgerAccounted'
  OBVIOUS
<1>a. MoneyTypes
  BY DEF TypeOK
<1>b. ASSUME UNCHANGED money PROVE LedgerAccounted'
  BY <1>b DEF money, LedgerAccounted
<1>1. ASSUME NEW w \in Web, BeginStep(w) PROVE LedgerAccounted'
  <2>1. ASSUME NEW handler, NEW request, Begin(w, handler, request) PROVE LedgerAccounted'
    BY <2>1, <1>b DEF Begin
  <2>2. ASSUME NEW c \in Customers, AddBalance(w, c) PROVE LedgerAccounted'
    <3>1. PICK n \in TopUps :
            /\ ledger' = [ledger EXCEPT ![c] = @ + n]
            /\ unsaved' = [unsaved EXCEPT ![c] = @ + n]
            /\ balance' = balance /\ overtaken' = overtaken
      BY <2>2 DEF AddBalance
    <3>2. n \in Int
      BY AmountAssumption
    <3> SUFFICES ASSUME NEW e \in Customers \ overtaken'
                 PROVE  ledger'[e] = balance'[e] + unsaved'[e]
      BY DEF LedgerAccounted
    <3>3. ledger[e] = balance[e] + unsaved[e]
      BY <3>1 DEF LedgerAccounted
    <3> QED BY <3>1, <3>2, <3>3, <1>a DEF MoneyTypes
  <2>3. ASSUME NEW c \in Customers,
               \/ BuyService(w, c) \/ PickService(w, c) \/ StopService(w, c)
               \/ MakeShot(w, c) \/ BuyDebt(w, c)
        PROVE  LedgerAccounted'
    BY <2>1, <2>3 DEF BuyService, PickService, StopService, MakeShot, BuyDebt
  <2>4. ASSUME NEW id \in PayIds, ReceivePay(w, id) PROVE LedgerAccounted'
    BY <2>1, <2>4 DEF ReceivePay
  <2> QED BY <1>1, <2>2, <2>3, <2>4 DEF BeginStep
<1>2. ASSUME NEW w \in Web, CommitStep(w) PROVE LedgerAccounted'
  <2> DEFINE q == web[w]
  <2>a. ASSUME q.op # "free" PROVE q.c \in Customers /\ q.seen \in Int /\ q.amount \in Int
    BY <2>a, InFlightRequest
  <2>1. CASE CommitPick(w)
    <3>1. q.op = "pick" /\ Post(q, -Cost[q.srv])
      BY <2>1 DEF CommitPick, Connect
    <3>2. Cost[q.srv] \in Nat
      BY <3>1, ServiceAssumption DEF TypeOK, WebTypes
    <3> QED BY <3>1, <3>2, <2>a, <1>a, PostAccounted
  <2>2. CASE CommitStop(w)
    BY <2>2, <2>a, <1>a, StopAccounted DEF CommitStop
  <2>3. CASE CommitShot(w) \/ CommitDebt(w) \/ CommitPay(w)
    <3>1. q.op # "free" /\ Post(q, q.amount)
      BY <2>3 DEF CommitShot, CommitDebt, CommitPay
    <3> QED BY <3>1, <2>a, <1>a, PostAccounted
  <2>4. CASE SaveBalance(w)
    <3>1. /\ q.op # "free" /\ ledger' = ledger /\ Save(q, q.amount)
          /\ unsaved' = [unsaved EXCEPT ![q.c] = @ - q.amount]
      BY <2>4 DEF SaveBalance
    <3> HIDE DEF q
    <3>2. /\ overtaken \subseteq overtaken'
          /\ q.c \notin overtaken' => balance'[q.c] = balance[q.c] + q.amount
          /\ \A e \in Customers \ {q.c} : balance'[e] = balance[e]
      BY <3>1, <2>a, <1>a, SaveMoves DEF q
    <3> SUFFICES ASSUME NEW e \in Customers \ overtaken'
                 PROVE  ledger'[e] = balance'[e] + unsaved'[e]
      BY DEF LedgerAccounted
    <3>3. ledger[e] = balance[e] + unsaved[e]
      BY <3>2 DEF LedgerAccounted
    <3>4. q.c \in Customers /\ q.amount \in Int
      BY <3>1, <2>a DEF q
    <3> QED BY <3>1, <3>2, <3>3, <3>4, <1>a DEF MoneyTypes
  <2>5. CASE RejectPay(w) \/ NotifyPay(w)
    BY <2>5, <1>b DEF RejectPay, NotifyPay
  <2> QED BY <1>2, <2>1, <2>2, <2>3, <2>4, <2>5 DEF CommitStep
<1>3. ASSUME NEW k \in Celery, JobStep(k) PROVE LedgerAccounted'
  <2>1. CASE Renew(k) \/ AutoConnect(k)
    <3>1. PICK x \in job[k].subs : Post(x, -Cost[x.srv])
      BY <2>1 DEF Renew, AutoConnect, Connect
    <3> QED BY <3>1, <1>a, HeldCopies, PostAccounted
  <2>2. CASE RefuseRenewal(k)
    <3>1. PICK x \in job[k].subs : Stop(x, CostToReturn(x.srv, x.start, clock))
      BY <2>2 DEF RefuseRenewal
    <3>2. clock \in Nat
      BY BoundAssumption DEF TypeOK, EnvTypes
    <3>3. CostToReturn(x.srv, x.start, clock) \in Nat
      BY <3>2, HeldCopies, RefundType
    <3> QED BY <3>1, <3>3, <1>a, HeldCopies, StopAccounted
  <2>3. CASE Charge(k)
    <3>1. PICK x \in job[k].due : Post(x, -PPAmount[x.pay])
      BY <2>3 DEF Charge
    <3> QED BY <3>1, <1>a, HeldCopies, PostAccounted
  <2>4. CASE \/ RenewQuery(k) \/ RenewFails(k) \/ FinishQuery(k) \/ FinishDelete(k)
             \/ ConnectQuery(k) \/ SkipConnect(k) \/ ChargeQuery(k) \/ ChargeFails(k)
    BY <2>4, <1>b DEF RenewQuery, RenewFails, FinishQuery, FinishDelete, ConnectQuery,
       SkipConnect, ChargeQuery, ChargeFails
  <2> QED BY <1>3, <2>1, <2>2, <2>3, <2>4 DEF JobStep
<1>4. ASSUME \/ \E w \in Web : WebCrash(w)
             \/ \E k \in Celery : StartStep(k) \/ JobCrash(k)
             \/ ProfileStep \/ Tick \/ UNCHANGED vars
      PROVE  LedgerAccounted'
  <2>1. UNCHANGED money
    BY <1>4 DEF WebCrash, StartStep, ManageStart, CheckStart, JobCrash, ProfileStep, SetAuto,
       UpdateProfile, MakePeriodicPay, DeletePeriodicPay, Tick, vars
  <2> QED BY <2>1, <1>b
<1> QED BY <1>1, <1>2, <1>3, <1>4 DEF Next

(* However requests and tasks overlap, what a customer's log adds up to is
   his balance and the top-ups logged and not saved, unless a write came from
   an outdated copy: no other path changes the balance silently. *)
THEOREM LedgerIsAccounted == Spec => []LedgerAccounted
BY AccountedInit, AccountedNext, TypeCorrect, PTL DEF Spec

-----------------------------------------------------------------------------
(* A payment is credited once. *)

LEMMA CreditedInit == Init => PaymentCreditedOnce
BY DEF Init, PaymentCreditedOnce

LEMMA CreditedNext == TypeOK /\ PaymentCreditedOnce /\ [Next]_vars => PaymentCreditedOnce'
<1> SUFFICES ASSUME TypeOK, PaymentCreditedOnce, [Next]_vars PROVE PaymentCreditedOnce'
  OBVIOUS
<1>a. ASSUME UNCHANGED <<paid, credits>> PROVE PaymentCreditedOnce'
  BY <1>a DEF PaymentCreditedOnce
<1>1. ASSUME NEW w \in Web, CommitPay(w) PROVE PaymentCreditedOnce'
  <2>1. /\ web[w].ref \notin paid /\ paid' = paid \cup {web[w].ref}
        /\ credits' = [credits EXCEPT ![web[w].ref] = @ + 1]
    BY <1>1 DEF CommitPay
  <2>2. web[w].ref \in PayIds /\ credits \in [PayIds -> Nat]
    BY <1>1 DEF CommitPay, TypeOK, WebTypes, ExternalTypes
  <2> QED BY <2>1, <2>2 DEF PaymentCreditedOnce
<1>2. ASSUME NEW w \in Web, BeginStep(w) PROVE PaymentCreditedOnce'
  BY <1>2, <1>a DEF BeginStep, BuyService, PickService, StopService, MakeShot, BuyDebt,
     AddBalance, ReceivePay, Begin, external
<1>3. ASSUME NEW w \in Web, CommitStep(w), ~CommitPay(w) PROVE PaymentCreditedOnce'
  BY <1>3, <1>a DEF CommitStep, CommitPick, CommitStop, CommitShot, CommitDebt, SaveBalance,
     RejectPay, NotifyPay, external
<1>4. ASSUME NEW k \in Celery, JobStep(k) PROVE PaymentCreditedOnce'
  BY <1>4, <1>a DEF JobStep, RenewQuery, Renew, RenewFails, RefuseRenewal, FinishQuery,
     FinishDelete, ConnectQuery, AutoConnect, SkipConnect, ChargeQuery, Charge, ChargeFails,
     external
<1>5. ASSUME \/ \E w \in Web : WebCrash(w)
             \/ \E k \in Celery : StartStep(k) \/ JobCrash(k)
             \/ ProfileStep \/ Tick \/ UNCHANGED vars
      PROVE  PaymentCreditedOnce'
  BY <1>5, <1>a DEF WebCrash, StartStep, ManageStart, CheckStart, JobCrash, ProfileStep,
     SetAuto, UpdateProfile, MakePeriodicPay, DeletePeriodicPay, Tick, vars, external
<1> QED BY <1>1, <1>2, <1>3, <1>4, <1>5 DEF Next

(* However often a payment system repeats a request, and however its requests
   overlap, each id in the payment log has credited the account once. *)
THEOREM CreditedOnce == Spec => []PaymentCreditedOnce
BY CreditedInit, CreditedNext, TypeCorrect, PTL DEF Spec

-----------------------------------------------------------------------------
(* No interleaving takes a customer into debt.  The balance alone is not
   inductive: what a request or a task is going to write comes from the copy it
   holds, so the copies must keep the promise as well. *)

RequestsSolvent ==
  \A w \in Web : web[w].op # "free" /\ ~web[w].staff /\ web[w].c \notin forced
                   => web[w].seen + web[w].amount >= 0
CopiesSolvent ==
  \A k \in Celery : \A x \in job[k].subs : x.c \notin forced => x.seen >= 0
RequestsPriced ==
  \A w \in Web : /\ web[w].op = "pick" => web[w].amount = -Cost[web[w].srv]
                 /\ web[w].op = "stop" => web[w].amount \in Nat
                 /\ web[w].op \in {"stop", "debt", "pay"} => ~web[w].staff
SolventInv == Solvent /\ RequestsSolvent /\ CopiesSolvent /\ RequestsPriced

(* A write that leaves the customer solvent, or marks him as forced. *)
LEMMA SaveSolvent ==
  ASSUME MoneyTypes, Solvent, NEW x, x.c \in Customers, x.seen \in Int, NEW d \in Int,
         Save(x, d), forced \subseteq forced',
         x.c \notin forced' => x.seen + d >= 0
  PROVE  Solvent'
<1> DEFINE c == x.c
           n == x.seen + d
<1>1. /\ balance' = [balance EXCEPT ![c] = n] /\ c \in Customers
      /\ c \notin forced' => n >= 0
  BY DEF Save
<1> SUFFICES ASSUME NEW e \in Customers, e \notin forced' PROVE balance'[e] >= 0
  BY DEF Solvent
<1> HIDE DEF c, n
<1> QED BY <1>1 DEF MoneyTypes, Solvent

LEMMA StopSolvent ==
  ASSUME MoneyTypes, Solvent, NEW x, x.c \in Customers, x.seen \in Int,
         NEW refund \in Nat, Stop(x, refund), forced' = forced,
         x.c \notin forced => x.seen + refund >= 0
  PROVE  Solvent'
<1>1. CASE refund > 0
  BY <1>1, SaveSolvent DEF Stop, Post
<1>2. CASE ~(refund > 0)
  BY <1>2 DEF Stop, Solvent
<1> QED BY <1>1, <1>2

(* Copies taken now are as solvent as the balances. *)
LEMMA CopySolvent ==
  ASSUME Solvent, NEW c \in Customers, NEW s, c \notin forced
  PROVE  Copy(c, s).c = c /\ Copy(c, s).seen >= 0
BY DEF Copy, Solvent

LEMMA KeepRequests ==
  ASSUME RequestsSolvent, RequestsPriced, UNCHANGED web, forced \subseteq forced'
  PROVE  RequestsSolvent' /\ RequestsPriced'
BY DEF RequestsSolvent, RequestsPriced

LEMMA KeepCopies ==
  ASSUME CopiesSolvent, UNCHANGED job, forced \subseteq forced'
  PROVE  CopiesSolvent'
BY DEF CopiesSolvent

LEMMA FewerCopies ==
  ASSUME TypeOK, CopiesSolvent, NEW k \in Celery, NEW j, job' = [job EXCEPT ![k] = j],
         j.subs \subseteq job[k].subs, forced \subseteq forced'
  PROVE  CopiesSolvent'
BY DEF CopiesSolvent, TypeOK, JobTypes

LEMMA RestFewer ==
  ASSUME NEW j \in JobType, NEW x, NEW stage
  PROVE  Rest(j, x, stage).subs \subseteq j.subs
<1>1. [j EXCEPT !.subs = @ \ {x}].subs = j.subs \ {x}
  BY DEF JobType
<1>2. Then(j, stage).subs = {}
  BY DEF Then, IdleJob
<1> QED BY <1>1, <1>2 DEF Rest

LEMMA EndSolvent ==
  ASSUME TypeOK, RequestsSolvent, RequestsPriced, NEW w \in Web, End(w), forced \subseteq forced'
  PROVE  RequestsSolvent' /\ RequestsPriced'
<1>1. \A v \in Web : web'[v].op = "free" \/ web'[v] = web[v]
  BY FreeIsNoRequest DEF End, TypeOK, WebTypes
<1> QED BY <1>1 DEF RequestsSolvent, RequestsPriced

LEMMA BeginSolvent ==
  ASSUME TypeOK, SolventInv, NEW w \in Web, NEW request,
         web' = [web EXCEPT ![w] = request],
         ~request.staff /\ request.c \notin forced => request.seen + request.amount >= 0,
         request.op = "pick" => request.amount = -Cost[request.srv],
         request.op = "stop" => request.amount \in Nat,
         request.op \in {"stop", "debt", "pay"} => ~request.staff,
         UNCHANGED <<balance, forced, job>>
  PROVE  SolventInv'
<1>1. RequestsSolvent'
  <2> SUFFICES ASSUME NEW v \in Web, web'[v].op # "free", ~web'[v].staff, web'[v].c \notin forced'
               PROVE  web'[v].seen + web'[v].amount >= 0
    BY DEF RequestsSolvent
  <2>1. CASE v = w
    BY <2>1 DEF TypeOK, WebTypes
  <2>2. CASE v # w
    BY <2>2 DEF TypeOK, WebTypes, SolventInv, RequestsSolvent
  <2> QED BY <2>1, <2>2
<1>2. RequestsPriced'
  <2> SUFFICES ASSUME NEW v \in Web
               PROVE  /\ web'[v].op = "pick" => web'[v].amount = -Cost[web'[v].srv]
                      /\ web'[v].op = "stop" => web'[v].amount \in Nat
                      /\ web'[v].op \in {"stop", "debt", "pay"} => ~web'[v].staff
    BY DEF RequestsPriced
  <2>1. CASE v = w
    BY <2>1 DEF TypeOK, WebTypes
  <2>2. CASE v # w
    BY <2>2 DEF TypeOK, WebTypes, SolventInv, RequestsPriced
  <2> QED BY <2>1, <2>2
<1>3. Solvent' /\ CopiesSolvent'
  BY DEF SolventInv, Solvent, CopiesSolvent
<1> QED BY <1>1, <1>2, <1>3 DEF SolventInv

LEMMA BeginStepSolvent ==
  ASSUME TypeOK, SolventInv, NEW w \in Web, BeginStep(w)
  PROVE  SolventInv'
<1>a. ASSUME NEW c \in Customers
      PROVE  balance[c] \in Int /\ (c \notin forced => balance[c] >= 0)
  BY DEF TypeOK, MoneyTypes, SolventInv, Solvent
<1>b. ASSUME NEW handler, NEW request, Begin(w, handler, request)
      PROVE  web' = [web EXCEPT ![w] = request] /\ UNCHANGED <<balance, forced, job>>
  BY <1>b DEF Begin, money
<1>1. ASSUME NEW c \in Customers, BuyService(w, c) PROVE SolventInv'
  <2>1. PICK s \in Services \ AdminOnly :
          /\ balance[c] >= Cost[s]
          /\ Begin(w, "BuyService", [Request("pick", c, -Cost[s]) EXCEPT
               !.srv = s, !.setLast = (last[c] # s)])
    BY <1>1 DEF BuyService
  <2> DEFINE q == [Request("pick", c, -Cost[s]) EXCEPT !.srv = s, !.setLast = (last[c] # s)]
  <2>2. q.seen = balance[c] /\ q.amount = -Cost[s] /\ q.srv = s /\ q.op = "pick"
    BY DEF Request
  <2>3. Cost[s] \in Nat
    BY ServiceAssumption
  <2>4. q.seen + q.amount >= 0
    <3> HIDE DEF q
    <3> QED BY <2>1, <2>2, <2>3, <1>a
  <2> QED BY <2>1, <2>2, <2>4, <1>b, BeginSolvent
<1>2. ASSUME NEW c \in Customers, PickService(w, c) PROVE SolventInv'
  <2>1. PICK s \in Services, d \in StaffDeadlines \cup {NoDeadline} :
          Begin(w, "PickService", [Request("pick", c, -Cost[s]) EXCEPT
            !.srv = s, !.setLast = (last[c] # s), !.deadline = d, !.staff = TRUE])
    BY <1>2 DEF PickService
  <2> DEFINE q == [Request("pick", c, -Cost[s]) EXCEPT
                     !.srv = s, !.setLast = (last[c] # s), !.deadline = d, !.staff = TRUE]
  <2>2. q.staff /\ q.amount = -Cost[s] /\ q.srv = s /\ q.op = "pick"
    BY DEF Request
  <2>3. web' = [web EXCEPT ![w] = q] /\ UNCHANGED <<balance, forced, job>>
    BY <2>1, <1>b
  <2> HIDE DEF q
  <2> QED BY <2>2, <2>3, BeginSolvent
<1>3. ASSUME NEW c \in Customers, StopService(w, c) PROVE SolventInv'
  <2> DEFINE refund == CostToReturn(rows[current[c]].srv, rows[current[c]].start, clock)
             q == Request("stop", c, refund)
  <2>1. current[c] # NoRow /\ Begin(w, "StopService", q)
    BY <1>3 DEF StopService
  <2>2. rows[current[c]].srv \in Services /\ rows[current[c]].start \in Nat /\ clock \in Nat
    BY <2>1, BoundAssumption DEF TypeOK, References, ServiceTypes, EnvTypes
  <2>3. refund \in Nat
    BY <2>2, RefundType
  <2>4. q.c = c /\ q.seen = balance[c] /\ q.amount = refund /\ q.op = "stop" /\ ~q.staff
    BY DEF Request
  <2>5. q.c \notin forced => q.seen + q.amount >= 0
    <3> HIDE DEF q, refund
    <3> QED BY <2>3, <2>4, <1>a
  <2> QED BY <2>1, <2>3, <2>4, <2>5, <1>b, BeginSolvent
<1>4. ASSUME NEW c \in Customers, MakeShot(w, c) PROVE SolventInv'
  <2>1. PICK n \in ShotCosts :
          Begin(w, "MakeShot", [Request("shot", c, -n) EXCEPT !.staff = TRUE])
    BY <1>4 DEF MakeShot
  <2> DEFINE q == [Request("shot", c, -n) EXCEPT !.staff = TRUE]
  <2>2. q.staff /\ q.op = "shot"
    BY DEF Request
  <2> QED BY <2>1, <2>2, <1>b, BeginSolvent
<1>5. ASSUME NEW c \in Customers, BuyDebt(w, c) PROVE SolventInv'
  <2>1. PICK d \in Debts :
          /\ balance[c] >= DebtCost[d]
          /\ Begin(w, "BuyDebt", [Request("debt", c, -DebtCost[d]) EXCEPT !.ref = d])
    BY <1>5 DEF BuyDebt
  <2> DEFINE q == [Request("debt", c, -DebtCost[d]) EXCEPT !.ref = d]
  <2>2. q.seen = balance[c] /\ q.amount = -DebtCost[d] /\ DebtCost[d] \in Nat
        /\ q.op = "debt" /\ ~q.staff
    BY PayAssumption DEF Request
  <2>3. q.seen + q.amount >= 0
    <3> HIDE DEF q
    <3> QED BY <2>1, <2>2, <1>a
  <2> QED BY <2>1, <2>2, <2>3, <1>b, BeginSolvent
<1>6. ASSUME NEW c \in Customers, AddBalance(w, c) PROVE SolventInv'
  <2>1. PICK n \in TopUps :
          /\ web' = [web EXCEPT ![w] = [Request("topup", c, n) EXCEPT !.staff = (n < 0)]]
          /\ UNCHANGED <<balance, forced, job>>
    BY <1>6 DEF AddBalance
  <2> DEFINE q == [Request("topup", c, n) EXCEPT !.staff = (n < 0)]
  <2>2. q.c = c /\ q.seen = balance[c] /\ q.amount = n /\ q.op = "topup"
    BY DEF Request
  <2>3. q.staff = (n < 0)
    BY DEF Request
  <2>4. n \in Int
    BY AmountAssumption
  <2>5. ~q.staff /\ q.c \notin forced => q.seen + q.amount >= 0
    <3> HIDE DEF q
    <3>1. ASSUME ~q.staff PROVE ~(n < 0)
      BY <3>1, <2>3
    <3> QED BY <3>1, <2>2, <2>4, <1>a
  <2> QED BY <2>1, <2>2, <2>5, BeginSolvent
<1>7. ASSUME NEW id \in PayIds, ReceivePay(w, id) PROVE SolventInv'
  <2>1. Begin(w, "ReceivePay", [Request("pay", PayFor[id], PayAmount[id]) EXCEPT !.ref = id])
    BY <1>7 DEF ReceivePay
  <2> DEFINE q == [Request("pay", PayFor[id], PayAmount[id]) EXCEPT !.ref = id]
  <2>2. q.c = PayFor[id] /\ q.seen = balance[PayFor[id]] /\ q.amount = PayAmount[id]
        /\ q.op = "pay" /\ ~q.staff
    BY DEF Request
  <2>3. PayFor[id] \in Customers /\ PayAmount[id] \in Nat
    BY PayAssumption
  <2>4. q.c \notin forced => q.seen + q.amount >= 0
    <3> HIDE DEF q
    <3> QED BY <2>2, <2>3, <1>a
  <2> QED BY <2>1, <2>2, <2>4, <1>b, BeginSolvent
<1> QED
  BY <1>1, <1>2, <1>3, <1>4, <1>5, <1>6, <1>7 DEF BeginStep

LEMMA CommitStepSolvent ==
  ASSUME TypeOK, SolventInv, NEW w \in Web, CommitStep(w)
  PROVE  SolventInv'
<1> DEFINE q == web[w]
<1>a. ASSUME q.op # "free"
      PROVE  /\ q.c \in Customers /\ q.seen \in Int /\ q.amount \in Int /\ q.staff \in BOOLEAN
             /\ ~q.staff /\ q.c \notin forced => q.seen + q.amount >= 0
  BY <1>a, InFlightRequest DEF SolventInv, RequestsSolvent
<1>b. MoneyTypes /\ Solvent /\ RequestsSolvent /\ CopiesSolvent /\ RequestsPriced
  BY DEF TypeOK, SolventInv
<1>c. ASSUME forced' = forced \/ MarkForced(w) PROVE forced \subseteq forced'
  BY <1>c DEF MarkForced
<1>d. ASSUME End(w), UNCHANGED job, Solvent', forced \subseteq forced' PROVE SolventInv'
  BY <1>b, <1>d, EndSolvent, KeepCopies DEF SolventInv
(* A posting that is the customer's own, or marks him. *)
<1>e. ASSUME q.op # "free", Post(q, q.amount), MarkForced(w) PROVE Solvent'
  <2>1. q.c \notin forced' => q.seen + q.amount >= 0
    BY <1>a, <1>e DEF MarkForced
  <2>2. forced \subseteq forced'
    BY <1>c, <1>e
  <2> HIDE DEF q
  <2> QED BY <2>1, <2>2, <1>a, <1>b, <1>e, SaveSolvent DEF Post
<1>1. CASE CommitPick(w)
  <2>1. q.op = "pick" /\ Post(q, -Cost[q.srv])
    BY <1>1 DEF CommitPick, Connect
  <2>2. q.amount = -Cost[q.srv]
    BY <2>1, <1>b DEF RequestsPriced
  <2>3. MarkForced(w) /\ End(w) /\ UNCHANGED job
    BY <1>1 DEF CommitPick
  <2>4. Solvent'
    BY <2>1, <2>2, <2>3, <1>e
  <2> QED BY <2>3, <2>4, <1>c, <1>d
<1>2. CASE CommitStop(w)
  <2>1. /\ q.op = "stop" /\ Stop(q, q.amount)
        /\ forced' = forced /\ End(w) /\ UNCHANGED job
    BY <1>2 DEF CommitStop
  <2>2. q.amount \in Nat /\ ~q.staff
    BY <2>1, <1>b DEF RequestsPriced
  <2>3. Solvent'
    <3> HIDE DEF q
    <3> QED BY <2>1, <2>2, <1>a, <1>b, StopSolvent
  <2> QED BY <2>1, <2>3, <1>c, <1>d
<1>3. CASE CommitShot(w)
  BY <1>3, <1>c, <1>d, <1>e DEF CommitShot
<1>4. CASE SaveBalance(w)
  <2>1. /\ q.op = "topup" /\ MarkForced(w) /\ End(w) /\ UNCHANGED job
        /\ Save(q, q.amount)
    BY <1>4 DEF SaveBalance
  <2>2. q.c \notin forced' => q.seen + q.amount >= 0
    BY <2>1, <1>a DEF MarkForced
  <2>3. forced \subseteq forced'
    BY <2>1, <1>c
  <2>4. Solvent'
    <3> HIDE DEF q
    <3> QED BY <2>1, <2>2, <2>3, <1>a, <1>b, SaveSolvent
  <2> QED BY <2>1, <2>3, <2>4, <1>d
<1>5. ASSUME q.op \in {"debt", "pay"}, Post(q, q.amount), forced' = forced
      PROVE  Solvent'
  <2>1. ~q.staff
    BY <1>5, <1>b DEF RequestsPriced
  <2> HIDE DEF q
  <2> QED BY <2>1, <1>5, <1>a, <1>b, SaveSolvent DEF Post
<1>6. CASE CommitDebt(w)
  BY <1>6, <1>5, <1>c, <1>d DEF CommitDebt
<1>7. CASE CommitPay(w)
  <2>1. /\ q.op = "pay" /\ Post(q, q.amount) /\ forced' = forced
        /\ web' = [web EXCEPT ![w].op = "notify"] /\ UNCHANGED job
    BY <1>7 DEF CommitPay
  <2>2. Solvent' /\ CopiesSolvent'
    BY <2>1, <1>5, <1>b, KeepCopies
  <2>3. web'[w].op = "notify" /\ \A v \in Web \ {w} : web'[v] = web[v]
    BY <2>1, InFlightRequest DEF TypeOK, WebTypes, RequestType
  <2>4. web'[w].c = q.c /\ web'[w].seen = q.seen /\ web'[w].amount = q.amount /\ web'[w].staff = q.staff
    BY <2>1, InFlightRequest DEF TypeOK, WebTypes, RequestType
  <2>5. RequestsPriced'
    BY <2>3, <1>b DEF RequestsPriced
  <2>6. RequestsSolvent'
    <3> SUFFICES ASSUME NEW v \in Web, web'[v].op # "free", ~web'[v].staff, web'[v].c \notin forced'
                 PROVE  web'[v].seen + web'[v].amount >= 0
      BY DEF RequestsSolvent
    <3>1. CASE v = w
      BY <3>1, <2>1, <2>4, <1>a
    <3>2. CASE v # w
      BY <3>2, <2>1, <2>3, <1>b DEF RequestsSolvent
    <3> QED BY <3>1, <3>2
  <2> QED BY <2>2, <2>5, <2>6 DEF SolventInv
<1>8. CASE RejectPay(w) \/ NotifyPay(w)
  <2>1. End(w) /\ UNCHANGED <<balance, forced, job>>
    BY <1>8 DEF RejectPay, NotifyPay, money
  <2>2. Solvent'
    BY <2>1, <1>b DEF Solvent
  <2> QED BY <2>1, <2>2, <1>d
<1> QED
  BY <1>1, <1>2, <1>3, <1>4, <1>6, <1>7, <1>8 DEF CommitStep

LEMMA JobStepSolvent ==
  ASSUME TypeOK, SolventInv, NEW k \in Celery, JobStep(k)
  PROVE  SolventInv'
<1> DEFINE j == job[k]
<1>a. MoneyTypes /\ Solvent /\ RequestsSolvent /\ CopiesSolvent /\ RequestsPriced
  BY DEF TypeOK, SolventInv
<1>b. /\ j \in JobType
      /\ \A x \in j.subs : /\ x.c \in Customers /\ x.seen \in Int /\ x.srv \in Services
                           /\ x.start \in Nat /\ Cost[x.srv] \in Nat
                           /\ x.c \notin forced => x.seen >= 0
  BY HeldCopies, <1>a DEF CopiesSolvent
<1>c. ASSUME UNCHANGED <<web, forced>>, Solvent', CopiesSolvent' PROVE SolventInv'
  BY <1>a, <1>c, KeepRequests DEF SolventInv
<1>d. ASSUME NEW x \in j.subs, NEW stage, job' = [job EXCEPT ![k] = Rest(j, x, stage)],
             forced' = forced
      PROVE  CopiesSolvent'
  <2>1. Rest(j, x, stage).subs \subseteq j.subs
    BY <1>b, RestFewer
  <2> QED BY <2>1, <1>a, <1>d, FewerCopies
<1>e. ASSUME UNCHANGED <<balance, forced>> PROVE Solvent'
  BY <1>a, <1>e DEF Solvent
<1>1. CASE RenewQuery(k)
  <2> DEFINE expired == {c \in InScope(k) : Owes(c) /\ auto[c]}
             copies == {Copy(c, rows[current[c]].srv) : c \in expired}
             next == IF expired = {} THEN Then(j, "toFinish")
                     ELSE [j EXCEPT !.stage = "renewing", !.now = clock, !.subs = copies]
  <2>1. job' = [job EXCEPT ![k] = next] /\ UNCHANGED <<balance, forced, web>>
    BY <1>1 DEF RenewQuery, money
  <2>2. expired \subseteq Customers
    BY <1>b DEF InScope, JobType
  <2>3. \A x \in copies : x.c \notin forced => x.seen >= 0
    BY <2>2, <1>a DEF Copy, Solvent
  <2>4. next.subs \subseteq copies
    <3>1. Then(j, "toFinish").subs = {}
      BY DEF Then, IdleJob
    <3>2. [j EXCEPT !.stage = "renewing", !.now = clock, !.subs = copies].subs = copies
      BY <1>b DEF JobType
    <3> QED BY <3>1, <3>2
  <2>5. CopiesSolvent'
    <3> HIDE DEF next, copies
    <3> QED BY <2>1, <2>3, <2>4, <1>a DEF CopiesSolvent, TypeOK, JobTypes
  <2> QED BY <2>1, <2>5, <1>c, <1>e
<1>2. CASE ConnectQuery(k)
  <2> DEFINE waiting == {c \in Customers : CanConnect(c)}
             copies == {Copy(c, last[c]) : c \in waiting}
             next == IF waiting = {} THEN Then(j, "toCharge")
                     ELSE [j EXCEPT !.stage = "connecting", !.subs = copies]
  <2>1. job' = [job EXCEPT ![k] = next] /\ UNCHANGED <<balance, forced, web>>
    BY <1>2 DEF ConnectQuery, money
  <2>2. \A x \in copies : x.c \notin forced => x.seen >= 0
    BY <1>a DEF Copy, Solvent
  <2>3. next.subs \subseteq copies
    <3>1. Then(j, "toCharge").subs = {}
      BY DEF Then, IdleJob
    <3>2. [j EXCEPT !.stage = "connecting", !.subs = copies].subs = copies
      BY <1>b DEF JobType
    <3> QED BY <3>1, <3>2
  <2>4. CopiesSolvent'
    <3> HIDE DEF next, copies
    <3> QED BY <2>1, <2>2, <2>3, <1>a DEF CopiesSolvent, TypeOK, JobTypes
  <2> QED BY <2>1, <2>4, <1>c, <1>e
<1>3. CASE Renew(k) \/ AutoConnect(k)
  <2>1. PICK x \in j.subs, stage \in {"toFinish", "toCharge"} :
          /\ x.seen >= Cost[x.srv] /\ Post(x, -Cost[x.srv])
          /\ job' = [job EXCEPT ![k] = Rest(j, x, stage)]
    BY <1>3 DEF Renew, AutoConnect, Connect
  <2>2. UNCHANGED <<web, forced>>
    BY <1>3 DEF Renew, AutoConnect
  <2>3. Solvent'
    <3>1. x.seen + (-Cost[x.srv]) >= 0
      BY <2>1, <1>b
    <3> HIDE DEF j
    <3> QED BY <2>1, <2>2, <3>1, <1>a, <1>b, SaveSolvent DEF Post
  <2> QED BY <2>1, <2>2, <2>3, <1>c, <1>d
<1>4. CASE RefuseRenewal(k)
  <2>1. PICK x \in j.subs :
          /\ Stop(x, CostToReturn(x.srv, x.start, clock))
          /\ job' = [job EXCEPT ![k] = Rest(j, x, "toFinish")]
    BY <1>4 DEF RefuseRenewal
  <2>2. UNCHANGED <<web, forced>>
    BY <1>4 DEF RefuseRenewal
  <2>3. clock \in Nat
    BY BoundAssumption DEF TypeOK, EnvTypes
  <2>4. CostToReturn(x.srv, x.start, clock) \in Nat
    BY <2>3, <1>b, RefundType
  <2>5. Solvent'
    <3> HIDE DEF j
    <3> QED BY <2>1, <2>2, <2>4, <1>a, <1>b, StopSolvent
  <2> QED BY <2>1, <2>2, <2>5, <1>c, <1>d
<1>5. CASE SkipConnect(k)
  <2>1. PICK x \in j.subs : job' = [job EXCEPT ![k] = Rest(j, x, "toCharge")]
    BY <1>5 DEF SkipConnect
  <2>2. UNCHANGED <<balance, web, forced>>
    BY <1>5 DEF SkipConnect, money
  <2> QED BY <2>1, <2>2, <1>c, <1>d, <1>e
(* The remaining steps hold no copies afterwards, or the same ones. *)
<1>f. ASSUME NEW next, job' = [job EXCEPT ![k] = next], next.subs \subseteq j.subs,
             forced \subseteq forced'
      PROVE  CopiesSolvent'
  BY <1>a, <1>f, FewerCopies
<1>6. CASE RenewFails(k) \/ ChargeFails(k)
  <2>1. job' = [job EXCEPT ![k] = IdleJob] /\ UNCHANGED <<balance, web, forced>>
    BY <1>6 DEF RenewFails, ChargeFails, money
  <2>2. IdleJob.subs = {}
    BY DEF IdleJob
  <2> QED BY <2>1, <2>2, <1>c, <1>e, <1>f
<1>7. CASE FinishQuery(k)
  <2> DEFINE next == IF ExpiredRows(k, clock) = {} THEN Then(j, "toConnect")
                     ELSE [j EXCEPT !.stage = "finishing", !.now = clock]
  <2>1. job' = [job EXCEPT ![k] = next] /\ UNCHANGED <<balance, web, forced>>
    BY <1>7 DEF FinishQuery, money
  <2>2. next.subs \subseteq j.subs
    <3>1. Then(j, "toConnect").subs = {}
      BY DEF Then, IdleJob
    <3>2. [j EXCEPT !.stage = "finishing", !.now = clock].subs = j.subs
      BY <1>b DEF JobType
    <3> QED BY <3>1, <3>2
  <2> HIDE DEF next
  <2> QED BY <2>1, <2>2, <1>c, <1>e, <1>f
<1>8. CASE FinishDelete(k)
  <2>1. job' = [job EXCEPT ![k] = Then(j, "toConnect")] /\ UNCHANGED <<balance, web, forced>>
    BY <1>8 DEF FinishDelete, money
  <2>2. Then(j, "toConnect").subs = {}
    BY DEF Then, IdleJob
  <2> QED BY <2>1, <2>2, <1>c, <1>e, <1>f
<1>9. CASE ChargeQuery(k)
  <2> DEFINE due == {p \in PPays : nextPay[p] >= 0 /\ nextPay[p] < clock}
             next == IF due = {} THEN IdleJob
                     ELSE [j EXCEPT !.stage = "charging", !.now = clock, !.due = {Due(p) : p \in due}]
  <2>1. job' = [job EXCEPT ![k] = next] /\ UNCHANGED <<balance, web, forced>>
    BY <1>9 DEF ChargeQuery, money
  <2>2. next.subs \subseteq j.subs
    <3>1. IdleJob.subs = {}
      BY DEF IdleJob
    <3>2. [j EXCEPT !.stage = "charging", !.now = clock, !.due = {Due(p) : p \in due}].subs = j.subs
      BY <1>b DEF JobType
    <3> QED BY <3>1, <3>2
  <2> HIDE DEF next
  <2> QED BY <2>1, <2>2, <1>c, <1>e, <1>f
<1>10. CASE Charge(k)
  <2>1. PICK x \in j.due :
          /\ Post(x, -PPAmount[x.pay]) /\ forced' = forced \cup {x.c}
          /\ job' = [job EXCEPT ![k] = IF j.due = {x} THEN IdleJob
                                       ELSE [j EXCEPT !.due = @ \ {x}]]
    BY <1>10 DEF Charge
  <2>2. x.c \in Customers /\ x.seen \in Int /\ PPAmount[x.pay] \in Nat
    BY HeldCopies
  <2>3. Solvent'
    <3> HIDE DEF j
    <3> QED BY <2>1, <2>2, <1>a, SaveSolvent DEF Post
  <2>4. CopiesSolvent'
    <3>1. IdleJob.subs = {}
      BY DEF IdleJob
    <3>2. [j EXCEPT !.due = @ \ {x}].subs = j.subs
      BY <1>b DEF JobType
    <3>3. forced \subseteq forced'
      BY <2>1
    <3> DEFINE next == IF j.due = {x} THEN IdleJob ELSE [j EXCEPT !.due = @ \ {x}]
    <3>4. next.subs \subseteq j.subs
      BY <3>1, <3>2
    <3>5. job' = [job EXCEPT ![k] = next]
      BY <2>1
    <3> HIDE DEF next
    <3> QED BY <3>3, <3>4, <3>5, <1>f
  <2>5. RequestsSolvent' /\ RequestsPriced'
    BY <1>10, <2>1, <1>a, KeepRequests DEF Charge
  <2> QED BY <2>3, <2>4, <2>5 DEF SolventInv
<1> QED
  BY <1>1, <1>2, <1>3, <1>4, <1>5, <1>6, <1>7, <1>8, <1>9, <1>10 DEF JobStep

LEMMA StartStepSolvent ==
  ASSUME TypeOK, SolventInv, NEW k \in Celery, StartStep(k)
  PROVE  SolventInv'
<1>a. UNCHANGED <<balance, forced, web>>
  BY DEF StartStep, ManageStart, CheckStart, money
<1>b. Solvent' /\ RequestsSolvent' /\ RequestsPriced'
  BY <1>a DEF SolventInv, Solvent, RequestsSolvent, RequestsPriced
<1>c. IdleJob \in JobType /\ IdleJob.subs = {} /\ job[k] \in JobType /\ CopiesSolvent
  BY IdleJobTyped DEF IdleJob, TypeOK, JobTypes, SolventInv
<1>1. CASE ManageStart(k)
  <2>1. job' = [job EXCEPT ![k] = [job[k] EXCEPT !.stage = "toRenew"]]
    BY <1>1 DEF ManageStart
  <2>2. [job[k] EXCEPT !.stage = "toRenew"].subs = job[k].subs
    BY <1>c DEF JobType
  <2>3. CopiesSolvent'
    BY <2>1, <2>2, <1>a, <1>c, FewerCopies
  <2> QED BY <2>3, <1>b DEF SolventInv
<1>2. ASSUME NEW c \in Customers, CheckStart(k, c) PROVE SolventInv'
  <2> DEFINE check == [IdleJob EXCEPT !.scope = c]
  <2>0. check \in JobType /\ check.subs = {}
    BY <1>c DEF JobType
  <2>a. ASSUME NEW next, job' = [job EXCEPT ![k] = next],
               \A x \in next.subs : x.c \notin forced => x.seen >= 0
        PROVE  CopiesSolvent'
    BY <1>a, <1>c, <2>a DEF CopiesSolvent, TypeOK, JobTypes
  <2>1. ASSUME NEW stage, job' = [job EXCEPT ![k] = [check EXCEPT !.stage = stage]]
        PROVE  CopiesSolvent'
    <3>1. [check EXCEPT !.stage = stage].subs = {}
      <4> HIDE DEF check
      <4> QED BY <2>0 DEF JobType
    <3> QED BY <3>1, <2>1, <2>a
  <2>2. ASSUME job' = [job EXCEPT ![k] = [check EXCEPT !.stage = "connecting",
                                                       !.subs = {Copy(c, last[c])}]]
        PROVE  CopiesSolvent'
    <3>1. [check EXCEPT !.stage = "connecting", !.subs = {Copy(c, last[c])}].subs = {Copy(c, last[c])}
      <4> HIDE DEF check
      <4> QED BY <2>0 DEF JobType
    <3>2. \A x \in {Copy(c, last[c])} : x.c \notin forced => x.seen >= 0
      BY CopySolvent DEF SolventInv, Copy
    <3> HIDE DEF check
    <3> QED BY <3>1, <3>2, <2>2, <2>a
  <2>3. ASSUME UNCHANGED job PROVE CopiesSolvent'
    BY <2>3, <1>a, <1>c, KeepCopies
  <2>4. CopiesSolvent'
    BY <1>2, <2>1, <2>2, <2>3 DEF CheckStart
  <2> QED BY <2>4, <1>b DEF SolventInv
<1> QED BY <1>1, <1>2 DEF StartStep

LEMMA SolventInit == Init => SolventInv
<1> SUFFICES ASSUME Init PROVE SolventInv
  OBVIOUS
<1>1. Solvent
  <2>1. StartBalances \subseteq Nat /\ balance \in [Customers -> StartBalances]
    BY AmountAssumption DEF Init
  <2>2. \A c \in Customers : balance[c] \in Nat
    BY <2>1
  <2> QED BY <2>2 DEF Solvent
<1>2. RequestsSolvent /\ RequestsPriced
  BY FreeIsNoRequest DEF Init, RequestsSolvent, RequestsPriced
<1>3. CopiesSolvent
  BY DEF Init, CopiesSolvent, IdleJob
<1> QED BY <1>1, <1>2, <1>3 DEF SolventInv

LEMMA SolventNext == TypeOK /\ SolventInv /\ [Next]_vars => SolventInv'
<1> SUFFICES ASSUME TypeOK, SolventInv, [Next]_vars PROVE SolventInv'
  OBVIOUS
<1>1. ASSUME NEW w \in Web, BeginStep(w) PROVE SolventInv'
  BY <1>1, BeginStepSolvent
<1>2. ASSUME NEW w \in Web, CommitStep(w) PROVE SolventInv'
  BY <1>2, CommitStepSolvent
<1>3. ASSUME NEW w \in Web, WebCrash(w) PROVE SolventInv'
  <2>1. End(w) /\ UNCHANGED <<balance, forced, job>>
    BY <1>3 DEF WebCrash, money
  <2> QED BY <2>1, EndSolvent, KeepCopies DEF SolventInv, Solvent
<1>4. ASSUME NEW k \in Celery, JobStep(k) PROVE SolventInv'
  BY <1>4, JobStepSolvent
<1>5. ASSUME NEW k \in Celery, StartStep(k) PROVE SolventInv'
  BY <1>5, StartStepSolvent
<1>6. ASSUME NEW k \in Celery, JobCrash(k) PROVE SolventInv'
  <2>1. job' = [job EXCEPT ![k] = IdleJob] /\ UNCHANGED <<balance, forced, web>>
    BY <1>6 DEF JobCrash, money
  <2>2. IdleJob.subs = {}
    BY DEF IdleJob
  <2> QED BY <2>1, <2>2, FewerCopies, KeepRequests DEF SolventInv, Solvent
<1>7. ASSUME ProfileStep \/ Tick \/ UNCHANGED vars PROVE SolventInv'
  <2>1. UNCHANGED <<balance, forced, web, job>>
    BY <1>7 DEF ProfileStep, SetAuto, UpdateProfile, MakePeriodicPay, DeletePeriodicPay, Tick,
       vars, money
  <2> QED BY <2>1, KeepCopies, KeepRequests DEF SolventInv, Solvent
<1> QED BY <1>1, <1>2, <1>3, <1>4, <1>5, <1>6, <1>7 DEF Next

(* A customer whom neither staff nor a periodic pay charged is never in debt,
   although every comparison with his balance is made on a copy. *)
THEOREM NeverInDebt == Spec => []Solvent
<1>1. TypeOK /\ SolventInv /\ [Next]_vars => SolventInv'
  BY SolventNext
<1>2. SolventInv => Solvent
  BY DEF SolventInv
<1> QED
  BY <1>1, <1>2, SolventInit, TypeCorrect, PTL DEF Spec

-----------------------------------------------------------------------------
(* A service for staff to give comes from staff.  The tables alone are not
   inductive: a request or a task may hold a service it is about to connect. *)

RequestsGranted ==
  \A w \in Web : web[w].op = "pick" /\ ~web[w].staff => web[w].srv \notin AdminOnly
CopiesGranted ==
  \A k \in Celery : job[k].stage = "connecting" =>
    \A x \in job[k].subs : x.srv \notin AdminOnly
GrantInv == AdminServiceFromStaff /\ RequestsGranted /\ CopiesGranted

(* Customers keep their services or lose them. *)
LEMMA KeepPlans ==
  ASSUME AdminServiceFromStaff, granted \subseteq granted',
         \A c \in Customers : PlanOf(c)' \in {PlanOf(c), NoService}
  PROVE  AdminServiceFromStaff'
BY ServiceAssumption DEF AdminServiceFromStaff

LEMMA SamePlans ==
  ASSUME AdminServiceFromStaff, UNCHANGED <<current, rows, granted>>
  PROVE  AdminServiceFromStaff'
BY DEF AdminServiceFromStaff, PlanOf

LEMMA DropPlans ==
  ASSUME ServiceTypes, AdminServiceFromStaff, NEW R, Drop(R)
  PROVE  AdminServiceFromStaff'
<1> SUFFICES ASSUME NEW c \in Customers PROVE PlanOf(c)' \in {PlanOf(c), NoService}
  BY KeepPlans DEF Drop
<1>1. current'[c] = IF current[c] \in R THEN NoRow ELSE current[c]
  BY DEF Drop
<1>2. current[c] \in RowIds /\ current[c] \notin R => rows'[current[c]] = rows[current[c]]
  BY DEF Drop
<1> QED BY <1>1, <1>2 DEF PlanOf, ServiceTypes

(* Only the customer who is connected changes his service: the new row was
   nobody's. *)
LEMMA ConnectPlans ==
  ASSUME TypeOK, NEW x, x.c \in Customers, NEW s, NEW setLast, NEW deadline,
         Connect(x, s, setLast, deadline)
  PROVE  /\ PlanOf(x.c)' = s
         /\ \A e \in Customers \ {x.c} : PlanOf(e)' = PlanOf(e)
<1> DEFINE c == x.c
           r == [srv |-> s, start |-> clock,
                 deadline |-> IF deadline = NoDeadline THEN CalcDeadline(s, clock) ELSE deadline]
<1>1. NewKey \in RowIds /\ rows[NewKey] = NoRecord
  BY FreshKeyType DEF Connect
<1>2. /\ rows' = [rows EXCEPT ![NewKey] = r]
      /\ current' = [current EXCEPT ![c] = NewKey]
      /\ r.srv = s /\ c \in Customers
  BY DEF Connect
<1>3. ServiceTypes /\ References
  BY DEF TypeOK
<1> SUFFICES PlanOf(c)' = s /\ \A e \in Customers \ {c} : PlanOf(e)' = PlanOf(e)
  OBVIOUS
<1> HIDE DEF c, r
<1>4. rows'[NewKey] = r /\ current'[c] = NewKey
  BY <1>1, <1>2, <1>3 DEF ServiceTypes
<1>5. NewKey # NoRow
  BY <1>1, RowIdsAreKeys
<1>6. ASSUME NEW e \in Customers \ {c} PROVE PlanOf(e)' = PlanOf(e)
  <2>1. current'[e] = current[e] /\ current[e] \in RowIds \cup {NoRow}
    BY <1>2, <1>3 DEF ServiceTypes
  <2>2. CASE current[e] = NoRow
    BY <2>1, <2>2 DEF PlanOf
  <2>3. CASE current[e] # NoRow
    <3>1. current[e] # NewKey
      BY <2>3, <1>1, <1>3, ServiceAssumption DEF References, NoRecord
    <3>2. rows'[current[e]] = rows[current[e]]
      BY <2>1, <2>3, <3>1, <1>1, <1>2, <1>3 DEF ServiceTypes
    <3> QED BY <2>1, <2>3, <3>2 DEF PlanOf
  <2> QED BY <2>2, <2>3
<1> QED BY <1>2, <1>4, <1>5, <1>6 DEF PlanOf

(* A connection of a service staff may give, or that needs no staff. *)
LEMMA ConnectGranted ==
  ASSUME TypeOK, AdminServiceFromStaff, NEW x, x.c \in Customers, NEW s, NEW setLast,
         NEW deadline, Connect(x, s, setLast, deadline), granted \subseteq granted',
         s \in AdminOnly => <<x.c, s>> \in granted'
  PROVE  AdminServiceFromStaff'
<1>1. PlanOf(x.c)' = s /\ \A e \in Customers \ {x.c} : PlanOf(e)' = PlanOf(e)
  BY ConnectPlans
<1> SUFFICES ASSUME NEW e \in Customers, PlanOf(e)' \in AdminOnly
             PROVE  <<e, PlanOf(e)'>> \in granted'
  BY DEF AdminServiceFromStaff
<1>2. CASE e = x.c
  BY <1>1, <1>2
<1>3. CASE e # x.c
  BY <1>1, <1>3 DEF AdminServiceFromStaff
<1> QED BY <1>2, <1>3

LEMMA WebGranted ==
  ASSUME TypeOK, RequestsGranted, NEW w \in Web, NEW q, web' = [web EXCEPT ![w] = q],
         q.op = "pick" /\ ~q.staff => q.srv \notin AdminOnly
  PROVE  RequestsGranted'
BY DEF RequestsGranted, TypeOK, WebTypes

LEMMA JobGranted ==
  ASSUME TypeOK, CopiesGranted, NEW k \in Celery, NEW j, job' = [job EXCEPT ![k] = j],
         j.stage = "connecting" => \A x \in j.subs : x.srv \notin AdminOnly
  PROVE  CopiesGranted'
BY DEF CopiesGranted, TypeOK, JobTypes

LEMMA BeginGranted ==
  ASSUME TypeOK, GrantInv, NEW w \in Web, BeginStep(w)
  PROVE  GrantInv'
<1>a. UNCHANGED <<current, rows, granted, job>>
  BY DEF BeginStep, BuyService, PickService, StopService, MakeShot, BuyDebt, AddBalance,
     ReceivePay, Begin, services
<1>b. AdminServiceFromStaff' /\ CopiesGranted'
  BY <1>a, SamePlans DEF GrantInv, CopiesGranted
<1>c. ASSUME NEW q, web' = [web EXCEPT ![w] = q],
             q.op = "pick" /\ ~q.staff => q.srv \notin AdminOnly
      PROVE  GrantInv'
  BY <1>b, <1>c, WebGranted DEF GrantInv
<1>d. ASSUME NEW op, NEW c, NEW n, op # "pick" PROVE Request(op, c, n).op # "pick"
  BY <1>d DEF Request
<1>1. ASSUME NEW c \in Customers, BuyService(w, c) PROVE GrantInv'
  <2>1. PICK s \in Services \ AdminOnly :
          web' = [web EXCEPT ![w] = [Request("pick", c, -Cost[s]) EXCEPT
            !.srv = s, !.setLast = (last[c] # s)]]
    BY <1>1 DEF BuyService, Begin
  <2> DEFINE q == [Request("pick", c, -Cost[s]) EXCEPT !.srv = s, !.setLast = (last[c] # s)]
  <2>2. q.srv = s
    BY DEF Request
  <2> HIDE DEF q
  <2> QED BY <2>1, <2>2, <1>c DEF q
<1>2. ASSUME NEW c \in Customers, PickService(w, c) PROVE GrantInv'
  <2>1. PICK s \in Services, d \in StaffDeadlines \cup {NoDeadline} :
          web' = [web EXCEPT ![w] = [Request("pick", c, -Cost[s]) EXCEPT
            !.srv = s, !.setLast = (last[c] # s), !.deadline = d, !.staff = TRUE]]
    BY <1>2 DEF PickService, Begin
  <2> DEFINE q == [Request("pick", c, -Cost[s]) EXCEPT
                     !.srv = s, !.setLast = (last[c] # s), !.deadline = d, !.staff = TRUE]
  <2>2. q.staff = TRUE
    BY DEF Request
  <2> HIDE DEF q
  <2> QED BY <2>1, <2>2, <1>c DEF q
<1>3. ASSUME NEW c \in Customers, StopService(w, c) PROVE GrantInv'
  <2> DEFINE q == Request("stop", c,
                    CostToReturn(rows[current[c]].srv, rows[current[c]].start, clock))
  <2>1. web' = [web EXCEPT ![w] = q]
    BY <1>3 DEF StopService, Begin
  <2>2. q.op # "pick"
    BY <1>d
  <2> HIDE DEF q
  <2> QED BY <2>1, <2>2, <1>c
<1>4. ASSUME NEW c \in Customers, MakeShot(w, c) PROVE GrantInv'
  <2>1. PICK n \in ShotCosts :
          web' = [web EXCEPT ![w] = [Request("shot", c, -n) EXCEPT !.staff = TRUE]]
    BY <1>4 DEF MakeShot, Begin
  <2> DEFINE q == [Request("shot", c, -n) EXCEPT !.staff = TRUE]
  <2>2. q.op # "pick"
    BY DEF Request
  <2> HIDE DEF q
  <2> QED BY <2>1, <2>2, <1>c DEF q
<1>5. ASSUME NEW c \in Customers, BuyDebt(w, c) PROVE GrantInv'
  <2>1. PICK d \in Debts :
          web' = [web EXCEPT ![w] = [Request("debt", c, -DebtCost[d]) EXCEPT !.ref = d]]
    BY <1>5 DEF BuyDebt, Begin
  <2> DEFINE q == [Request("debt", c, -DebtCost[d]) EXCEPT !.ref = d]
  <2>2. q.op # "pick"
    BY DEF Request
  <2> HIDE DEF q
  <2> QED BY <2>1, <2>2, <1>c DEF q
<1>6. ASSUME NEW c \in Customers, AddBalance(w, c) PROVE GrantInv'
  <2>1. PICK n \in TopUps :
          web' = [web EXCEPT ![w] = [Request("topup", c, n) EXCEPT !.staff = (n < 0)]]
    BY <1>6 DEF AddBalance
  <2> DEFINE q == [Request("topup", c, n) EXCEPT !.staff = (n < 0)]
  <2>2. q.op # "pick"
    BY DEF Request
  <2> HIDE DEF q
  <2> QED BY <2>1, <2>2, <1>c DEF q
<1>7. ASSUME NEW id \in PayIds, ReceivePay(w, id) PROVE GrantInv'
  <2> DEFINE q == [Request("pay", PayFor[id], PayAmount[id]) EXCEPT !.ref = id]
  <2>1. web' = [web EXCEPT ![w] = q]
    BY <1>7 DEF ReceivePay, Begin
  <2>2. q.op # "pick"
    BY DEF Request
  <2> HIDE DEF q
  <2> QED BY <2>1, <2>2, <1>c
<1> QED
  BY <1>1, <1>2, <1>3, <1>4, <1>5, <1>6, <1>7 DEF BeginStep

LEMMA CommitGranted ==
  ASSUME TypeOK, GrantInv, NEW w \in Web, CommitStep(w) \/ WebCrash(w)
  PROVE  GrantInv'
<1> DEFINE q == web[w]
<1>a. AdminServiceFromStaff /\ RequestsGranted /\ CopiesGranted /\ ServiceTypes
  BY DEF GrantInv, TypeOK
<1>b. UNCHANGED job
  BY DEF CommitStep, CommitPick, CommitStop, CommitShot, CommitDebt, SaveBalance, CommitPay,
     RejectPay, NotifyPay, WebCrash
<1>c. CopiesGranted'
  BY <1>a, <1>b DEF CopiesGranted
<1>1. AdminServiceFromStaff'
  <2>1. CASE CommitPick(w)
    <3>1. /\ q.op = "pick" /\ Connect(q, q.srv, q.setLast, q.deadline)
          /\ granted' = IF q.staff /\ q.srv \in AdminOnly
                          THEN granted \cup {<<q.c, q.srv>>} ELSE granted
      BY <2>1 DEF CommitPick
    <3>2. q.c \in Customers
      BY <3>1, InFlightRequest
    <3>3. q.srv \in AdminOnly => <<q.c, q.srv>> \in granted'
      BY <3>1, <1>a DEF RequestsGranted
    <3>4. granted \subseteq granted'
      BY <3>1
    <3> HIDE DEF q
    <3> QED BY <3>1, <3>2, <3>3, <3>4, <1>a, ConnectGranted
  <2>2. CASE CommitStop(w)
    <3>1. Drop({q.row})
      BY <2>2 DEF CommitStop, Stop
    <3> QED BY <3>1, <1>a, DropPlans
  <2>3. CASE ~CommitPick(w) /\ ~CommitStop(w)
    <3>1. UNCHANGED <<current, rows, granted>>
      BY <2>3 DEF CommitStep, CommitShot, CommitDebt, SaveBalance, CommitPay, RejectPay,
         NotifyPay, WebCrash, services
    <3> QED BY <3>1, <1>a, SamePlans
  <2> QED BY <2>1, <2>2, <2>3
<1>2. RequestsGranted'
  <2>1. CASE CommitPay(w)
    <3> DEFINE r == [q EXCEPT !.op = "notify"]
    <3>1. q \in RequestType /\ web' = [web EXCEPT ![w] = r]
      BY <2>1, InFlightRequest DEF CommitPay
    <3>2. r.op = "notify"
      BY <3>1 DEF RequestType
    <3> HIDE DEF r, q
    <3> QED BY <3>1, <3>2, <1>a, WebGranted
  <2>2. CASE ~CommitPay(w)
    <3>1. web' = [web EXCEPT ![w] = Free]
      BY <2>2 DEF CommitStep, CommitPick, CommitStop, CommitShot, CommitDebt, SaveBalance,
         RejectPay, NotifyPay, WebCrash, End
    <3> QED BY <3>1, <1>a, FreeIsNoRequest, WebGranted
  <2> QED BY <2>1, <2>2
<1> QED BY <1>1, <1>2, <1>c DEF GrantInv

LEMMA TaskGranted ==
  ASSUME TypeOK, GrantInv, NEW k \in Celery, JobStep(k)
  PROVE  GrantInv'
<1> DEFINE j == job[k]
<1>a. AdminServiceFromStaff /\ RequestsGranted /\ CopiesGranted /\ ServiceTypes
  BY DEF GrantInv, TypeOK
<1>b. j \in JobType /\ \A x \in j.subs : x.c \in Customers
  BY HeldCopies
<1>c. RequestsGranted'
  <2>1. UNCHANGED web
    BY DEF JobStep, RenewQuery, Renew, RenewFails, RefuseRenewal, FinishQuery, FinishDelete,
       ConnectQuery, AutoConnect, SkipConnect, ChargeQuery, Charge, ChargeFails
  <2> QED BY <2>1, <1>a DEF RequestsGranted
<1>1. AdminServiceFromStaff'
  <2>1. CASE Renew(k)
    <3>1. PICK x \in j.subs :
            rows' = [rows EXCEPT ![x.row].start = j.now,
                                 ![x.row].deadline = CalcDeadline(x.srv, clock)]
      BY <2>1 DEF Renew
    <3> DEFINE i == x.row
               t == j.now
               d == CalcDeadline(x.srv, clock)
    <3>2. rows' = [rows EXCEPT ![i].start = t, ![i].deadline = d]
      BY <3>1
    <3>3. UNCHANGED <<current, granted>>
      BY <2>1 DEF Renew
    <3>4. \A r \in RowIds : rows'[r].srv = rows[r].srv
      <4> HIDE DEF i, t, d
      <4> QED BY <3>2, <1>a DEF ServiceTypes
    <3>5. \A c \in Customers : PlanOf(c)' = PlanOf(c)
      BY <3>3, <3>4, <1>a DEF PlanOf, ServiceTypes
    <3> QED BY <3>3, <3>5, <1>a, KeepPlans
  <2>2. CASE RefuseRenewal(k)
    <3>1. PICK x \in j.subs : Drop({x.row})
      BY <2>2 DEF RefuseRenewal, Stop
    <3> QED BY <3>1, <1>a, DropPlans
  <2>3. CASE FinishDelete(k)
    BY <2>3, <1>a, DropPlans DEF FinishDelete
  <2>4. CASE AutoConnect(k)
    <3>1. PICK x \in j.subs : Connect(x, x.srv, FALSE, NoDeadline)
      BY <2>4 DEF AutoConnect
    <3>2. granted' = granted /\ x.srv \notin AdminOnly
      BY <2>4, <1>a DEF AutoConnect, CopiesGranted
    <3> HIDE DEF j
    <3> QED BY <3>1, <3>2, <1>a, <1>b, ConnectGranted
  <2>5. CASE ~(Renew(k) \/ RefuseRenewal(k) \/ FinishDelete(k) \/ AutoConnect(k))
    <3>1. UNCHANGED <<current, rows, granted>>
      BY <2>5 DEF JobStep, RenewQuery, RenewFails, FinishQuery, ConnectQuery, SkipConnect,
         ChargeQuery, Charge, ChargeFails, services
    <3> QED BY <3>1, <1>a, SamePlans
  <2> QED BY <2>1, <2>2, <2>3, <2>4, <2>5
<1>2. CopiesGranted'
  <2>a. ASSUME NEW next, job' = [job EXCEPT ![k] = next],
               next.stage = "connecting" => \A x \in next.subs : x.srv \notin AdminOnly
        PROVE  CopiesGranted'
    BY <2>a, <1>a, JobGranted
  <2>b. ASSUME NEW stage PROVE Then(j, stage).subs = {}
    BY DEF Then, IdleJob
  <2>1. CASE ConnectQuery(k)
    <3> DEFINE waiting == {c \in Customers : CanConnect(c)}
               copies == {Copy(c, last[c]) : c \in waiting}
               held == [j EXCEPT !.stage = "connecting", !.subs = copies]
    <3>1. job' = [job EXCEPT ![k] = IF waiting = {} THEN Then(j, "toCharge") ELSE held]
      BY <2>1 DEF ConnectQuery
    <3>2. held.subs = copies /\ \A x \in copies : x.srv \notin AdminOnly
      BY <1>b DEF JobType, Copy, CanConnect
    <3> HIDE DEF held, copies, waiting, j
    <3> QED BY <3>1, <3>2, <2>a, <2>b
  <2>2. CASE \/ Renew(k) \/ RefuseRenewal(k) \/ AutoConnect(k) \/ SkipConnect(k)
    <3>1. PICK x \in j.subs, stage \in {"toFinish", "toCharge"} :
            job' = [job EXCEPT ![k] = Rest(j, x, stage)]
      BY <2>2 DEF Renew, RefuseRenewal, AutoConnect, SkipConnect
    <3> DEFINE next == Rest(j, x, stage)
    <3>2. next.subs \subseteq j.subs
      BY <1>b, RestFewer
    <3>3. next.stage = "connecting" => j.stage = "connecting"
      BY <1>b DEF Rest, Then, IdleJob, JobType
    <3>4. next.stage = "connecting" => \A y \in next.subs : y.srv \notin AdminOnly
      BY <3>2, <3>3, <1>a DEF CopiesGranted
    <3>5. job' = [job EXCEPT ![k] = next]
      BY <3>1
    <3> HIDE DEF next
    <3> QED BY <3>4, <3>5, <2>a
  <2>3. CASE RenewQuery(k)
    <3> DEFINE expired == {c \in InScope(k) : Owes(c) /\ auto[c]}
               copies == {Copy(c, rows[current[c]].srv) : c \in expired}
               held == [j EXCEPT !.stage = "renewing", !.now = clock, !.subs = copies]
    <3>1. job' = [job EXCEPT ![k] = IF expired = {} THEN Then(j, "toFinish") ELSE held]
      BY <2>3 DEF RenewQuery
    <3>2. held.stage # "connecting"
      BY <1>b DEF JobType
    <3> HIDE DEF held, expired, j
    <3> QED BY <3>1, <3>2, <2>a, <2>b
  <2>4. CASE FinishQuery(k)
    <3> DEFINE held == [j EXCEPT !.stage = "finishing", !.now = clock]
    <3>1. job' = [job EXCEPT ![k] =
                    IF ExpiredRows(k, clock) = {} THEN Then(j, "toConnect") ELSE held]
      BY <2>4 DEF FinishQuery
    <3>2. held.stage # "connecting"
      BY <1>b DEF JobType
    <3> HIDE DEF held, j
    <3> QED BY <3>1, <3>2, <2>a, <2>b
  <2>5. CASE FinishDelete(k)
    BY <2>5, <2>a, <2>b DEF FinishDelete
  <2>6. CASE ChargeQuery(k)
    <3> DEFINE due == {p \in PPays : nextPay[p] >= 0 /\ nextPay[p] < clock}
               held == [j EXCEPT !.stage = "charging", !.now = clock, !.due = {Due(p) : p \in due}]
    <3>1. job' = [job EXCEPT ![k] = IF due = {} THEN IdleJob ELSE held]
      BY <2>6 DEF ChargeQuery
    <3>2. held.stage # "connecting" /\ IdleJob.stage # "connecting"
      BY <1>b DEF JobType, IdleJob
    <3> HIDE DEF held, due, j
    <3> QED BY <3>1, <3>2, <2>a
  <2>7. CASE Charge(k)
    <3>1. PICK x \in j.due :
            job' = [job EXCEPT ![k] = IF j.due = {x} THEN IdleJob ELSE [j EXCEPT !.due = @ \ {x}]]
      BY <2>7 DEF Charge
    <3> DEFINE held == [j EXCEPT !.due = @ \ {x}]
    <3>2. held.stage = "charging" /\ IdleJob.stage # "connecting"
      BY <2>7, <1>b DEF Charge, JobType, IdleJob
    <3>3. job' = [job EXCEPT ![k] = IF j.due = {x} THEN IdleJob ELSE held]
      BY <3>1
    <3> HIDE DEF held, j
    <3> QED BY <3>2, <3>3, <2>a
  <2>8. CASE RenewFails(k) \/ ChargeFails(k)
    <3>1. job' = [job EXCEPT ![k] = IdleJob] /\ IdleJob.stage # "connecting"
      BY <2>8 DEF RenewFails, ChargeFails, IdleJob
    <3> QED BY <3>1, <2>a
  <2> QED BY <2>1, <2>2, <2>3, <2>4, <2>5, <2>6, <2>7, <2>8 DEF JobStep
<1> QED BY <1>1, <1>2, <1>c DEF GrantInv

LEMMA StartGranted ==
  ASSUME TypeOK, GrantInv, NEW k \in Celery, StartStep(k)
  PROVE  GrantInv'
<1>a. UNCHANGED <<current, rows, granted, web>>
  BY DEF StartStep, ManageStart, CheckStart, services
<1>b. AdminServiceFromStaff' /\ RequestsGranted'
  BY <1>a, SamePlans DEF GrantInv, RequestsGranted
<1>c. ASSUME NEW next, job' = [job EXCEPT ![k] = next],
             next.stage = "connecting" => \A x \in next.subs : x.srv \notin AdminOnly
      PROVE  GrantInv'
  BY <1>b, <1>c, JobGranted DEF GrantInv
<1>d. job[k] \in JobType /\ IdleJob \in JobType
  BY HeldCopies, IdleJobTyped
<1>1. CASE ManageStart(k)
  <2> DEFINE held == [job[k] EXCEPT !.stage = "toRenew"]
  <2>1. job' = [job EXCEPT ![k] = held]
    BY <1>1 DEF ManageStart
  <2>2. held.stage # "connecting"
    BY <1>d DEF JobType
  <2> HIDE DEF held
  <2> QED BY <2>1, <2>2, <1>c
<1>2. ASSUME NEW c \in Customers, CheckStart(k, c) PROVE GrantInv'
  <2> DEFINE check == [IdleJob EXCEPT !.scope = c]
  <2>0. check \in JobType
    BY <1>d DEF JobType
  <2>1. ASSUME NEW stage \in {"toRenew", "toFinish"},
               job' = [job EXCEPT ![k] = [check EXCEPT !.stage = stage]]
        PROVE  GrantInv'
    <3> DEFINE held == [check EXCEPT !.stage = stage]
    <3>1. held.stage # "connecting"
      <4> HIDE DEF check
      <4> QED BY <2>0 DEF JobType
    <3> HIDE DEF held
    <3> QED BY <3>1, <2>1, <1>c DEF held
  <2>2. ASSUME CanConnect(c),
               job' = [job EXCEPT ![k] = [check EXCEPT !.stage = "connecting",
                                                       !.subs = {Copy(c, last[c])}]]
        PROVE  GrantInv'
    <3> DEFINE held == [check EXCEPT !.stage = "connecting", !.subs = {Copy(c, last[c])}]
    <3>1. held.subs = {Copy(c, last[c])}
      <4> HIDE DEF check
      <4> QED BY <2>0 DEF JobType
    <3>2. Copy(c, last[c]).srv \notin AdminOnly
      BY <2>2 DEF CanConnect, Copy
    <3> HIDE DEF held
    <3> QED BY <3>1, <3>2, <2>2, <1>c DEF held
  <2>3. ASSUME UNCHANGED job PROVE GrantInv'
    BY <2>3, <1>b DEF GrantInv, CopiesGranted
  <2> QED BY <1>2, <2>1, <2>2, <2>3 DEF CheckStart
<1> QED BY <1>1, <1>2 DEF StartStep

LEMMA GrantInit == Init => GrantInv
<1> SUFFICES ASSUME Init PROVE GrantInv
  OBVIOUS
<1>1. AdminServiceFromStaff
  BY ServiceAssumption DEF Init, AdminServiceFromStaff, PlanOf
<1>2. RequestsGranted /\ CopiesGranted
  BY FreeIsNoRequest DEF Init, RequestsGranted, CopiesGranted, IdleJob
<1> QED BY <1>1, <1>2 DEF GrantInv

LEMMA GrantNext == TypeOK /\ GrantInv /\ [Next]_vars => GrantInv'
<1> SUFFICES ASSUME TypeOK, GrantInv, [Next]_vars PROVE GrantInv'
  OBVIOUS
<1>1. ASSUME NEW w \in Web, BeginStep(w) \/ CommitStep(w) \/ WebCrash(w) PROVE GrantInv'
  BY <1>1, BeginGranted, CommitGranted
<1>2. ASSUME NEW k \in Celery, JobStep(k) \/ StartStep(k) PROVE GrantInv'
  BY <1>2, TaskGranted, StartGranted
<1>3. ASSUME NEW k \in Celery, JobCrash(k) PROVE GrantInv'
  <2>1. job' = [job EXCEPT ![k] = IdleJob] /\ UNCHANGED <<current, rows, granted, web>>
    BY <1>3 DEF JobCrash, services
  <2>2. IdleJob.stage # "connecting"
    BY DEF IdleJob
  <2> QED BY <2>1, <2>2, JobGranted, SamePlans DEF GrantInv, RequestsGranted
<1>4. ASSUME ProfileStep \/ Tick \/ UNCHANGED vars PROVE GrantInv'
  <2>1. UNCHANGED <<current, rows, granted, web, job>>
    BY <1>4 DEF ProfileStep, SetAuto, UpdateProfile, MakePeriodicPay, DeletePeriodicPay, Tick,
       vars, services
  <2> QED BY <2>1, SamePlans DEF GrantInv, RequestsGranted, CopiesGranted
<1> QED BY <1>1, <1>2, <1>3, <1>4 DEF Next

(* Whatever customers buy, staff set as the service to connect again, and
   however requests and tasks overlap, a service for staff to give is had only
   by customers staff gave it to. *)
THEOREM AdminServicesAreGiven == Spec => []AdminServiceFromStaff
<1>1. GrantInv => AdminServiceFromStaff
  BY DEF GrantInv
<1> QED
  BY <1>1, GrantInit, GrantNext, TypeCorrect, PTL DEF Spec

-----------------------------------------------------------------------------
(* With one worker a task ends expired services only.  The copies it holds are
   of rows that have expired or are gone: a key is not given again while a copy
   holds it, and no other task renews the row. *)

OneWorker == \A k, l \in Celery : k = l
RowsSound ==
  /\ \A c, d \in Customers : current[c] = current[d] /\ current[c] # NoRow => c = d
  /\ \A r \in RowIds : rows[r] # NoRecord => rows[r].srv \in Services
BatchExpired(j, tbl, t) ==
  /\ j.now <= t
  /\ j.stage = "renewing" =>
       /\ \A x \in j.subs : /\ x.row # NoRow
                            /\ tbl[x.row] = NoRecord \/ tbl[x.row].deadline <= t
       /\ \A x, y \in j.subs : x.row = y.row => x = y
BatchesExpired == \A k \in Celery : BatchExpired(job[k], rows, clock)
CronInv == RowsSound /\ BatchesExpired

LEMMA ClockIs ==
  ASSUME TypeOK
  PROVE  clock \in Nat /\ \A r \in RowIds : rows[r].deadline \in Nat /\ rows[r].start \in Nat
BY BoundAssumption DEF TypeOK, EnvTypes, ServiceTypes

(* What a step that holds on to the copies may do to the rows they name. *)
LEMMA KeepExpired ==
  ASSUME TypeOK, BatchesExpired, UNCHANGED job, clock' \in Nat, clock <= clock',
         \A k \in Celery : \A x \in job[k].subs :
           x.row # NoRow => rows'[x.row] \in {rows[x.row], NoRecord}
  PROVE  BatchesExpired'
<1> SUFFICES ASSUME NEW k \in Celery PROVE BatchExpired(job[k], rows', clock')
  BY DEF BatchesExpired
<1>1. BatchExpired(job[k], rows, clock)
  BY DEF BatchesExpired
<1>2. job[k].now \in Nat /\ \A x \in job[k].subs : x.row \in RowIds \cup {NoRow}
  BY HeldCopies DEF JobType
<1> QED BY <1>1, <1>2, ClockIs DEF BatchExpired

LEMMA TaskExpired ==
  ASSUME OneWorker, TypeOK, NEW k \in Celery, NEW j, job' = [job EXCEPT ![k] = j],
         BatchExpired(j, rows', clock')
  PROVE  BatchesExpired'
BY DEF OneWorker, BatchesExpired, TypeOK, JobTypes

LEMMA ConnectRows ==
  ASSUME TypeOK, RowsSound, NEW x, x.c \in Customers, NEW s \in Services, NEW setLast,
         NEW deadline, Connect(x, s, setLast, deadline)
  PROVE  /\ RowsSound'
         /\ \A r \in RowIds : rows[r] # NoRecord => rows'[r] = rows[r]
         /\ \A k \in Celery : \A y \in job[k].subs : y.row # NoRow => rows'[y.row] = rows[y.row]
<1> DEFINE c == x.c
           n == [srv |-> s, start |-> clock,
                 deadline |-> IF deadline = NoDeadline THEN CalcDeadline(s, clock) ELSE deadline]
<1>1. NewKey \in FreshKeys
  BY DEF Connect, NewKey
<1>2. /\ rows' = [rows EXCEPT ![NewKey] = n] /\ current' = [current EXCEPT ![c] = NewKey]
      /\ c \in Customers
  BY DEF Connect
<1>3. ServiceTypes /\ References
  BY DEF TypeOK
<1> HIDE DEF c, n
<1>4. \A r \in RowIds \ {NewKey} : rows'[r] = rows[r]
  BY <1>2, <1>3 DEF ServiceTypes
<1>5. rows[NewKey] = NoRecord /\ \A k \in Celery : \A y \in job[k].subs : y.row # NewKey
  BY <1>1 DEF FreshKeys
<1>6. \A e \in Customers : current[e] # NoRow => current[e] # NewKey
  BY <1>3, <1>5, ServiceAssumption DEF References, NoRecord
<1>7. NewKey # NoRow
  BY <1>1, RowIdsAreKeys DEF FreshKeys
<1>8. RowsSound'
  <2>1. \A d, e \in Customers : current'[d] = current'[e] /\ current'[d] # NoRow => d = e
    BY <1>2, <1>3, <1>6, <1>7 DEF RowsSound, ServiceTypes
  <2>2. rows'[NewKey].srv = s
    BY <1>1, <1>2, <1>3 DEF ServiceTypes, FreshKeys, n
  <2> QED BY <2>1, <2>2, <1>4 DEF RowsSound
<1>9. \A k \in Celery : \A y \in job[k].subs : y.row \in RowIds \cup {NoRow}
  BY HeldCopies
<1> QED BY <1>4, <1>5, <1>8, <1>9

LEMMA DropRows ==
  ASSUME TypeOK, RowsSound, NEW R, Drop(R)
  PROVE  /\ RowsSound'
         /\ \A r \in RowIds : rows'[r] = IF r \in R THEN NoRecord ELSE rows[r]
         /\ \A k \in Celery : \A y \in job[k].subs :
              y.row # NoRow => rows'[y.row] \in {rows[y.row], NoRecord}
<1>1. \A r \in RowIds : rows'[r] = IF r \in R THEN NoRecord ELSE rows[r]
  BY DEF Drop
<1>2. RowsSound'
  BY <1>1 DEF Drop, RowsSound
<1>3. \A k \in Celery : \A y \in job[k].subs : y.row \in RowIds \cup {NoRow}
  BY HeldCopies
<1> QED BY <1>1, <1>2, <1>3

(* The rest of a loop holds fewer copies. *)
LEMMA RestExpired ==
  ASSUME NEW j \in JobType, NEW x \in j.subs, NEW stage \in {"toFinish", "toCharge"},
         NEW tbl, NEW t \in Nat, j.now <= t,
         j.stage = "renewing" =>
           /\ \A y \in j.subs \ {x} : /\ y.row # NoRow
                                      /\ tbl[y.row] = NoRecord \/ tbl[y.row].deadline <= t
           /\ \A y, z \in j.subs : y.row = z.row => y = z
  PROVE  BatchExpired(Rest(j, x, stage), tbl, t)
<1>1. CASE j.subs = {x}
  BY <1>1 DEF Rest, Then, IdleJob, BatchExpired
<1>2. CASE j.subs # {x}
  <2> DEFINE r == [j EXCEPT !.subs = @ \ {x}]
  <2>1. r.stage = j.stage /\ r.now = j.now /\ r.subs = j.subs \ {x}
    BY DEF JobType
  <2>2. Rest(j, x, stage) = r
    BY <1>2 DEF Rest
  <2> HIDE DEF r
  <2> QED BY <2>1, <2>2 DEF BatchExpired
<1> QED BY <1>1, <1>2

(* What a step may do to the rows: CronEndsExpiredOnly of one step. *)
EndsExpired ==
  \A r \in RowIds :
    rows[r] # NoRecord /\ rows'[r] = NoRecord /\ job' # job => rows[r].deadline <= clock

LEMMA CronTask ==
  ASSUME OneWorker, TypeOK, CronInv, NEW k \in Celery, JobStep(k)
  PROVE  CronInv' /\ EndsExpired
<1> DEFINE j == job[k]
<1>a. /\ RowsSound /\ BatchExpired(j, rows, clock) /\ ServiceTypes
      /\ j \in JobType /\ j.now \in Nat
      /\ \A x \in j.subs : x.c \in Customers /\ x.row \in RowIds \cup {NoRow} /\ x.srv \in Services
  <2>1. j \in JobType
    BY HeldCopies
  <2> QED BY <2>1, HeldCopies DEF CronInv, BatchesExpired, TypeOK, JobType
<1>b. clock \in Nat /\ clock' = clock
  <2>1. clock' = clock
    BY DEF JobStep, RenewQuery, Renew, RenewFails, RefuseRenewal, FinishQuery, FinishDelete,
       ConnectQuery, AutoConnect, SkipConnect, ChargeQuery, Charge, ChargeFails
  <2> QED BY <2>1, ClockIs
<1>c. ASSUME NEW next, job' = [job EXCEPT ![k] = next], BatchExpired(next, rows', clock)
      PROVE  BatchesExpired'
  BY <1>b, <1>c, TaskExpired
<1>d. ASSUME NEW next, job' = [job EXCEPT ![k] = next], BatchExpired(next, rows, clock),
             UNCHANGED <<current, rows>>
      PROVE  CronInv' /\ EndsExpired
  BY <1>a, <1>c, <1>d DEF CronInv, RowsSound, EndsExpired
<1>e. ASSUME NEW stage PROVE BatchExpired(Then(j, stage), rows, clock) /\ BatchExpired(Then(j, stage), rows', clock)
  BY <1>b DEF Then, IdleJob, BatchExpired
<1>f. BatchExpired(IdleJob, rows, clock)
  BY <1>b DEF IdleJob, BatchExpired
<1>1. CASE RenewQuery(k)
  <2> DEFINE expired == {c \in InScope(k) : Owes(c) /\ auto[c]}
             copies == {Copy(c, rows[current[c]].srv) : c \in expired}
             held == [j EXCEPT !.stage = "renewing", !.now = clock, !.subs = copies]
  <2>1. /\ job' = [job EXCEPT ![k] = IF expired = {} THEN Then(j, "toFinish") ELSE held]
        /\ UNCHANGED <<current, rows>>
    BY <1>1 DEF RenewQuery, services
  <2>2. held.stage = "renewing" /\ held.now = clock /\ held.subs = copies
    BY <1>a DEF JobType
  <2>3. \A c \in expired : c \in Customers /\ current[c] # NoRow /\ rows[current[c]].deadline <= clock
    BY <1>a DEF InScope, JobType, Owes
  <2>4. \A x \in copies : x.row # NoRow /\ rows[x.row].deadline <= clock
    BY <2>3 DEF Copy
  <2>5. \A x, y \in copies : x.row = y.row => x = y
    BY <2>3, <1>a DEF Copy, RowsSound
  <2>6. BatchExpired(held, rows, clock)
    <3> HIDE DEF held, copies
    <3> QED BY <2>2, <2>4, <2>5, <1>b DEF BatchExpired
  <2> HIDE DEF held, expired, j
  <2> QED BY <2>1, <2>6, <1>d, <1>e
<1>2. CASE Renew(k)
  <2>1. PICK x \in j.subs :
          /\ Stored(x.row)
          /\ rows' = [rows EXCEPT ![x.row].start = j.now,
                                  ![x.row].deadline = CalcDeadline(x.srv, clock)]
          /\ job' = [job EXCEPT ![k] = Rest(j, x, "toFinish")]
    BY <1>2 DEF Renew
  <2>2. j.stage = "renewing" /\ current' = current
    BY <1>2 DEF Renew
  <2> DEFINE i == x.row
             t == j.now
             d == CalcDeadline(x.srv, clock)
  <2>3. /\ \A r \in RowIds \ {i} : rows'[r] = rows[r]
        /\ i \in RowIds => rows'[i].srv = rows[i].srv
    <3>1. rows' = [rows EXCEPT ![i].start = t, ![i].deadline = d]
      BY <2>1
    <3> HIDE DEF i, t, d
    <3> QED BY <3>1, <1>a DEF ServiceTypes
  <2>4. /\ j.now <= clock
        /\ \A y \in j.subs : y.row \in RowIds /\ (rows[y.row] = NoRecord \/ rows[y.row].deadline <= clock)
        /\ \A y, z \in j.subs : y.row = z.row => y = z
    BY <2>2, <1>a DEF BatchExpired
  <2>5. \A y \in j.subs \ {x} : /\ y.row # NoRow
                                /\ rows'[y.row] = NoRecord \/ rows'[y.row].deadline <= clock
    BY <2>3, <2>4, RowIdsAreKeys
  <2>6. BatchExpired(Rest(j, x, "toFinish"), rows', clock)
    <3> HIDE DEF j
    <3> QED BY <2>2, <2>4, <2>5, <1>a, <1>b, RestExpired
  <2>7. i \in RowIds /\ rows[i] # NoRecord /\ rows[i].srv \in Services
    BY <2>1, <2>4, <1>a DEF Stored, RowsSound
  <2>8. EndsExpired
    <3> SUFFICES ASSUME NEW r \in RowIds, rows[r] # NoRecord, rows'[r] = NoRecord PROVE FALSE
      BY DEF EndsExpired
    <3>1. r = i
      BY <2>3
    <3>2. rows[i].srv = NoService
      BY <3>1, <2>3 DEF NoRecord
    <3> QED BY <3>2, <2>7, ServiceAssumption
  <2>9. RowsSound'
    BY <2>2, <2>3, <2>7, <1>a DEF RowsSound
  <2> HIDE DEF j
  <2> QED BY <2>1, <2>6, <2>8, <2>9, <1>c DEF CronInv
<1>3. CASE RefuseRenewal(k)
  <2>1. PICK x \in j.subs : /\ Drop({x.row})
                            /\ job' = [job EXCEPT ![k] = Rest(j, x, "toFinish")]
    BY <1>3 DEF RefuseRenewal, Stop
  <2>2. /\ j.stage = "renewing" /\ j.now <= clock
        /\ \A y \in j.subs : /\ y.row \in RowIds /\ y.row # NoRow
                             /\ rows[y.row] = NoRecord \/ rows[y.row].deadline <= clock
        /\ \A y, z \in j.subs : y.row = z.row => y = z
    BY <1>3, <1>a DEF RefuseRenewal, BatchExpired
  <2>3. /\ RowsSound'
        /\ \A r \in RowIds : rows'[r] = IF r \in {x.row} THEN NoRecord ELSE rows[r]
    <3> HIDE DEF j
    <3> QED BY <2>1, <1>a, DropRows
  <2>4. BatchExpired(Rest(j, x, "toFinish"), rows', clock)
    <3>1. \A y \in j.subs \ {x} : /\ y.row # NoRow
                                  /\ rows'[y.row] = NoRecord \/ rows'[y.row].deadline <= clock
      BY <2>2, <2>3
    <3> HIDE DEF j
    <3> QED BY <3>1, <2>1, <2>2, <1>a, <1>b, RestExpired
  <2>5. EndsExpired
    BY <2>2, <2>3 DEF EndsExpired
  <2> HIDE DEF j
  <2> QED BY <2>1, <2>3, <2>4, <2>5, <1>c DEF CronInv
<1>4. CASE FinishDelete(k)
  <2>1. Drop(ExpiredRows(k, j.now)) /\ job' = [job EXCEPT ![k] = Then(j, "toConnect")]
    BY <1>4 DEF FinishDelete
  <2>2. /\ RowsSound'
        /\ \A r \in RowIds : rows'[r] = IF r \in ExpiredRows(k, j.now) THEN NoRecord ELSE rows[r]
    BY <2>1, <1>a, DropRows
  <2>3. EndsExpired
    <3> SUFFICES ASSUME NEW r \in RowIds, rows[r] # NoRecord, rows'[r] = NoRecord
                 PROVE  rows[r].deadline <= clock
      BY DEF EndsExpired
    <3>1. rows[r].deadline < j.now
      BY <2>2 DEF ExpiredRows
    <3>2. j.now <= clock /\ rows[r].deadline \in Nat
      BY <1>a, ClockIs DEF BatchExpired
    <3> QED BY <3>1, <3>2, <1>a, <1>b
  <2> QED BY <2>1, <2>2, <2>3, <1>c, <1>e DEF CronInv
<1>5. CASE AutoConnect(k)
  <2>1. PICK x \in j.subs : /\ Connect(x, x.srv, FALSE, NoDeadline)
                            /\ job' = [job EXCEPT ![k] = Rest(j, x, "toCharge")]
    BY <1>5 DEF AutoConnect
  <2>2. j.stage = "connecting" /\ j.now <= clock
    BY <1>5, <1>a DEF AutoConnect, BatchExpired
  <2>3. RowsSound' /\ \A r \in RowIds : rows[r] # NoRecord => rows'[r] = rows[r]
    <3> HIDE DEF j
    <3> QED BY <2>1, <1>a, ConnectRows
  <2>4. BatchExpired(Rest(j, x, "toCharge"), rows', clock)
    <3> HIDE DEF j
    <3> QED BY <2>1, <2>2, <1>a, <1>b, RestExpired
  <2>5. EndsExpired
    BY <2>3 DEF EndsExpired
  <2> HIDE DEF j
  <2> QED BY <2>1, <2>3, <2>4, <2>5, <1>c DEF CronInv
<1>6. CASE SkipConnect(k)
  <2>1. PICK x \in j.subs : job' = [job EXCEPT ![k] = Rest(j, x, "toCharge")]
    BY <1>6 DEF SkipConnect
  <2>2. j.stage = "connecting" /\ j.now <= clock /\ UNCHANGED <<current, rows>>
    BY <1>6, <1>a DEF SkipConnect, BatchExpired, services
  <2>3. BatchExpired(Rest(j, x, "toCharge"), rows, clock)
    <3> HIDE DEF j
    <3> QED BY <2>1, <2>2, <1>a, <1>b, RestExpired
  <2> HIDE DEF j
  <2> QED BY <2>1, <2>2, <2>3, <1>d
<1>7. CASE FinishQuery(k)
  <2> DEFINE held == [j EXCEPT !.stage = "finishing", !.now = clock]
  <2>1. /\ job' = [job EXCEPT ![k] = IF ExpiredRows(k, clock) = {} THEN Then(j, "toConnect") ELSE held]
        /\ UNCHANGED <<current, rows>>
    BY <1>7 DEF FinishQuery, services
  <2>2. held.stage = "finishing" /\ held.now = clock
    BY <1>a DEF JobType
  <2> HIDE DEF held, j
  <2>3. BatchExpired(held, rows, clock)
    BY <2>2, <1>b DEF BatchExpired
  <2> QED BY <2>1, <2>3, <1>d, <1>e
<1>8. CASE ConnectQuery(k)
  <2> DEFINE waiting == {c \in Customers : CanConnect(c)}
             held == [j EXCEPT !.stage = "connecting", !.subs = {Copy(c, last[c]) : c \in waiting}]
  <2>1. /\ job' = [job EXCEPT ![k] = IF waiting = {} THEN Then(j, "toCharge") ELSE held]
        /\ UNCHANGED <<current, rows>>
    BY <1>8 DEF ConnectQuery, services
  <2>2. held.stage = "connecting" /\ held.now = j.now /\ j.now <= clock
    BY <1>a DEF JobType, BatchExpired
  <2> HIDE DEF held, waiting, j
  <2>3. BatchExpired(held, rows, clock)
    BY <2>2 DEF BatchExpired
  <2> QED BY <2>1, <2>3, <1>d, <1>e
<1>9. CASE ChargeQuery(k)
  <2> DEFINE due == {p \in PPays : nextPay[p] >= 0 /\ nextPay[p] < clock}
             held == [j EXCEPT !.stage = "charging", !.now = clock, !.due = {Due(p) : p \in due}]
  <2>1. job' = [job EXCEPT ![k] = IF due = {} THEN IdleJob ELSE held] /\ UNCHANGED <<current, rows>>
    BY <1>9 DEF ChargeQuery, services
  <2>2. held.stage = "charging" /\ held.now = clock
    BY <1>a DEF JobType
  <2> HIDE DEF held, due, j
  <2>3. BatchExpired(held, rows, clock)
    BY <2>2, <1>b DEF BatchExpired
  <2> QED BY <2>1, <2>3, <1>d, <1>f
<1>10. CASE Charge(k)
  <2>1. PICK x \in j.due :
          job' = [job EXCEPT ![k] = IF j.due = {x} THEN IdleJob ELSE [j EXCEPT !.due = @ \ {x}]]
    BY <1>10 DEF Charge
  <2> DEFINE held == [j EXCEPT !.due = @ \ {x}]
  <2>2. /\ held.stage = "charging" /\ held.now = j.now /\ j.now <= clock
        /\ UNCHANGED <<current, rows>>
    BY <1>10, <1>a DEF Charge, services, JobType, BatchExpired
  <2>3. job' = [job EXCEPT ![k] = IF j.due = {x} THEN IdleJob ELSE held]
    BY <2>1
  <2> HIDE DEF held, j
  <2>4. BatchExpired(held, rows, clock)
    BY <2>2 DEF BatchExpired
  <2> QED BY <2>2, <2>3, <2>4, <1>d, <1>f
<1>11. CASE RenewFails(k) \/ ChargeFails(k)
  <2>1. job' = [job EXCEPT ![k] = IdleJob] /\ UNCHANGED <<current, rows>>
    BY <1>11 DEF RenewFails, ChargeFails, services
  <2> QED BY <2>1, <1>d, <1>f
<1> QED
  BY <1>1, <1>2, <1>3, <1>4, <1>5, <1>6, <1>7, <1>8, <1>9, <1>10, <1>11 DEF JobStep

LEMMA CronStart ==
  ASSUME OneWorker, TypeOK, CronInv, NEW k \in Celery, StartStep(k) \/ JobCrash(k)
  PROVE  CronInv' /\ EndsExpired
<1>1. UNCHANGED <<current, rows, clock>> /\ clock \in Nat
  BY ClockIs DEF StartStep, ManageStart, CheckStart, JobCrash, services
<1>2. RowsSound' /\ EndsExpired
  BY <1>1 DEF CronInv, RowsSound, EndsExpired
<1>a. ASSUME NEW next, job' = [job EXCEPT ![k] = next], next.stage # "renewing", next.now <= clock
      PROVE  CronInv' /\ EndsExpired
  <2>1. BatchExpired(next, rows', clock')
    BY <1>1, <1>a DEF BatchExpired
  <2> QED BY <2>1, <1>2, <1>a, TaskExpired DEF CronInv
<1>b. IdleJob \in JobType /\ IdleJob.stage # "renewing" /\ IdleJob.now = 0
  BY IdleJobTyped DEF IdleJob
<1>3. CASE JobCrash(k)
  <2>1. job' = [job EXCEPT ![k] = IdleJob]
    BY <1>3 DEF JobCrash
  <2>2. IdleJob.now <= clock
    BY <1>1, <1>b
  <2> QED BY <2>1, <2>2, <1>a, <1>b
<1>4. CASE ManageStart(k)
  <2> DEFINE held == [IdleJob EXCEPT !.stage = "toRenew"]
  <2>1. job' = [job EXCEPT ![k] = held]
    BY <1>4 DEF ManageStart, TypeOK, JobTypes
  <2>2. held.stage # "renewing" /\ held.now <= clock
    BY <1>1, <1>b DEF JobType
  <2> HIDE DEF held
  <2> QED BY <2>1, <2>2, <1>a
<1>5. ASSUME NEW c \in Customers, CheckStart(k, c) PROVE CronInv' /\ EndsExpired
  <2> DEFINE check == [IdleJob EXCEPT !.scope = c]
             held == [check EXCEPT !.stage = "connecting", !.subs = {Copy(c, last[c])}]
  <2>0. check \in JobType /\ check.now <= clock
    BY <1>1, <1>b DEF JobType
  <2>1. held.stage # "renewing" /\ held.now <= clock
    <3> HIDE DEF check
    <3> QED BY <2>0 DEF JobType
  <2>2. ASSUME NEW stage \in {"toRenew", "toFinish"},
               job' = [job EXCEPT ![k] = [check EXCEPT !.stage = stage]]
        PROVE  CronInv' /\ EndsExpired
    <3> DEFINE next == [check EXCEPT !.stage = stage]
    <3>1. next.stage # "renewing" /\ next.now <= clock
      <4> HIDE DEF check
      <4> QED BY <2>0 DEF JobType
    <3> HIDE DEF next
    <3> QED BY <3>1, <2>2, <1>a DEF next
  <2>3. CASE job' = [job EXCEPT ![k] = held]
    <3> HIDE DEF held
    <3> QED BY <2>1, <2>3, <1>a
  <2>4. CASE UNCHANGED job
    BY <2>4, <1>1, <1>2 DEF CronInv, BatchesExpired
  <2> QED BY <1>5, <2>2, <2>3, <2>4 DEF CheckStart
<1> QED BY <1>3, <1>4, <1>5 DEF StartStep

LEMMA CronNext == OneWorker /\ TypeOK /\ CronInv /\ [Next]_vars => CronInv' /\ EndsExpired
<1> SUFFICES ASSUME OneWorker, TypeOK, CronInv, [Next]_vars PROVE CronInv' /\ EndsExpired
  OBVIOUS
<1>a. clock \in Nat /\ RowsSound /\ BatchesExpired
  BY ClockIs DEF CronInv
<1>b. ASSUME UNCHANGED job PROVE EndsExpired
  BY <1>b DEF EndsExpired
<1>c. ASSUME UNCHANGED <<current, rows, job>>, clock' = clock \/ clock' = clock + 1
      PROVE  CronInv' /\ EndsExpired
  <2>1. BatchesExpired'
    BY <1>a, <1>c, KeepExpired
  <2> QED BY <2>1, <1>a, <1>b, <1>c DEF CronInv, RowsSound
<1>1. ASSUME NEW k \in Celery, JobStep(k) \/ StartStep(k) \/ JobCrash(k) PROVE CronInv' /\ EndsExpired
  BY <1>1, CronTask, CronStart
<1>2. ASSUME NEW w \in Web, CommitPick(w) PROVE CronInv' /\ EndsExpired
  <2> DEFINE q == web[w]
  <2>1. q.op = "pick" /\ Connect(q, q.srv, q.setLast, q.deadline) /\ UNCHANGED <<job, clock>>
    BY <1>2 DEF CommitPick
  <2>2. q.c \in Customers /\ q.srv \in Services
    BY <2>1, InFlightRequest DEF TypeOK, WebTypes
  <2>3. /\ RowsSound'
        /\ \A k \in Celery : \A y \in job[k].subs : y.row # NoRow => rows'[y.row] = rows[y.row]
    <3> HIDE DEF q
    <3> QED BY <2>1, <2>2, <1>a, ConnectRows
  <2>4. BatchesExpired'
    BY <2>1, <2>3, <1>a, KeepExpired
  <2> QED BY <2>1, <2>3, <2>4, <1>b DEF CronInv
<1>3. ASSUME NEW w \in Web, CommitStop(w) PROVE CronInv' /\ EndsExpired
  <2>1. Drop({web[w].row}) /\ UNCHANGED <<job, clock>>
    BY <1>3 DEF CommitStop, Stop
  <2>2. /\ RowsSound'
        /\ \A k \in Celery : \A y \in job[k].subs :
             y.row # NoRow => rows'[y.row] \in {rows[y.row], NoRecord}
    BY <2>1, <1>a, DropRows
  <2>3. BatchesExpired'
    BY <2>1, <2>2, <1>a, KeepExpired
  <2> QED BY <2>1, <2>2, <2>3, <1>b DEF CronInv
<1>4. ASSUME NEW w \in Web,
             BeginStep(w) \/ WebCrash(w) \/ (CommitStep(w) /\ ~CommitPick(w) /\ ~CommitStop(w))
      PROVE  CronInv' /\ EndsExpired
  <2>1. UNCHANGED <<current, rows, job, clock>>
    BY <1>4 DEF BeginStep, BuyService, PickService, StopService, MakeShot, BuyDebt, AddBalance,
       ReceivePay, Begin, WebCrash, CommitStep, CommitShot, CommitDebt, SaveBalance, CommitPay,
       RejectPay, NotifyPay, services
  <2> QED BY <2>1, <1>c
<1>5. ASSUME ProfileStep \/ Tick \/ UNCHANGED vars PROVE CronInv' /\ EndsExpired
  <2>1. UNCHANGED <<current, rows, job>> /\ (clock' = clock \/ clock' = clock + 1)
    BY <1>5 DEF ProfileStep, SetAuto, UpdateProfile, MakePeriodicPay, DeletePeriodicPay, Tick,
       vars, services
  <2> QED BY <2>1, <1>c
<1> QED BY <1>1, <1>2, <1>3, <1>4, <1>5 DEF Next

LEMMA CronInit == Init => CronInv
<1> SUFFICES ASSUME Init PROVE CronInv
  OBVIOUS
<1>1. RowsSound
  BY DEF Init, RowsSound
<1>2. BatchesExpired
  BY DEF Init, BatchesExpired, BatchExpired, IdleJob
<1> QED BY <1>1, <1>2 DEF CronInv

(* With one worker, whatever requests do between the query of a task and its
   writes, a task takes a service away only when its deadline has come. *)
THEOREM OneWorkerEndsExpired ==
  ASSUME OneWorker
  PROVE  Spec => CronEndsExpiredOnly
<1>1. TypeOK /\ CronInv /\ [Next]_vars =>
        /\ CronInv'
        /\ \A r \in RowIds :
             rows[r] # NoRecord /\ rows'[r] = NoRecord /\ job' # job => rows[r].deadline <= clock
  BY CronNext DEF EndsExpired
<1> QED
  BY <1>1, CronInit, TypeCorrect, PTL DEF Spec, CronEndsExpiredOnly

-----------------------------------------------------------------------------
(* With one worker a periodic pay is charged at most once in a calendar month:
   its next time lies after the month it was charged in, and what the task
   holds was due by that. *)

LEMMA MonthBounds ==
  ASSUME NEW t \in Nat
  PROVE  /\ MonthOf(t) \in Nat
         /\ MonthOf(t) * Month <= t
         /\ t < MonthOf(t) * Month + Month
<1> DEFINE q == t \div Month
<1>1. q \in Nat /\ q * Month <= t /\ t < q * Month + Month
  BY MonthAssumption
<1> QED BY <1>1 DEF MonthOf

LEMMA Scaled ==
  ASSUME NEW a \in Nat, NEW b \in Nat, a * Month < b * Month + Month
  PROVE  a <= b
<1> SUFFICES ASSUME b + 1 <= a PROVE FALSE
  OBVIOUS
<1>1. PICK d \in Nat : a = b + 1 + d
  <2> DEFINE d == a - b - 1
  <2>1. d \in Nat /\ a = b + 1 + d
    OBVIOUS
  <2> QED BY <2>1
<1>2. a * Month = b * Month + Month + d * Month
  BY <1>1, MonthAssumption
<1>3. d * Month \in Nat /\ b * Month \in Nat
  BY MonthAssumption
<1> QED BY <1>2, <1>3, MonthAssumption

LEMMA MonthsOrdered ==
  ASSUME NEW s \in Nat, NEW t \in Nat, s <= t
  PROVE  MonthOf(s) <= MonthOf(t)
<1>1. MonthOf(s) * Month <= s /\ t < MonthOf(t) * Month + Month /\ MonthOf(s) \in Nat /\ MonthOf(t) \in Nat
  BY MonthBounds
<1>2. MonthOf(s) * Month < MonthOf(t) * Month + Month
  BY <1>1, MonthAssumption
<1> QED BY <1>1, <1>2, Scaled

(* A time at or after the start of the month that follows s is of a later month. *)
LEMMA LaterMonth ==
  ASSUME NEW s \in Nat, NEW t \in Nat, NextMonth(s) <= t
  PROVE  MonthOf(t) > MonthOf(s)
<1>1. MonthOf(s) \in Nat /\ MonthOf(t) \in Nat /\ t < MonthOf(t) * Month + Month
  BY MonthBounds
<1>2. (MonthOf(s) + 1) * Month = NextMonth(s)
  BY <1>1, MonthAssumption DEF NextMonth, MonthStart
<1>3. (MonthOf(s) + 1) * Month < MonthOf(t) * Month + Month
  BY <1>1, <1>2, MonthAssumption DEF NextMonth, MonthStart
<1>4. MonthOf(s) + 1 <= MonthOf(t)
  BY <1>1, <1>3, Scaled
<1> QED BY <1>1, <1>4

LEMMA NextOrdered ==
  ASSUME NEW s \in Nat, NEW t \in Nat, s <= t
  PROVE  NextMonth(s) <= NextMonth(t)
<1>1. MonthOf(s) <= MonthOf(t) /\ MonthOf(s) \in Nat /\ MonthOf(t) \in Nat
  BY MonthsOrdered, MonthBounds
<1> DEFINE m == MonthOf(s)
           n == MonthOf(t)
<1>2. m * Month <= n * Month
  <2>1. PICK d \in Nat : n = m + d
    <3>1. n - m \in Nat /\ n = m + (n - m)
      BY <1>1
    <3> QED BY <3>1
  <2>2. n * Month = m * Month + d * Month /\ d * Month \in Nat /\ m * Month \in Nat
    BY <2>1, <1>1, MonthAssumption
  <2> QED BY <2>2
<1> HIDE DEF m, n
<1>3. m * Month \in Nat /\ n * Month \in Nat
  BY <1>1, MonthAssumption DEF m, n
<1> QED BY <1>2, <1>3, MonthAssumption DEF NextMonth, MonthStart, m, n

NextAfterLast ==
  \A p \in PPays : lastPay[p] # Unmade =>
    nextPay[p] = Gone \/ (nextPay[p] \in Nat /\ NextMonth(lastPay[p]) <= nextPay[p])
BatchDue(j) ==
  j.stage = "charging" =>
    /\ \A x \in j.due : lastPay[x.pay] # Unmade => NextMonth(lastPay[x.pay]) <= j.now
    /\ \A x, y \in j.due : x.pay = y.pay => x = y
MonthInv == NextAfterLast /\ \A k \in Celery : BatchDue(job[k])

(* What a step may do to the pays: PeriodicOncePerMonth of one step. *)
ChargesLater ==
  \A p \in PPays : times'[p] # times[p] /\ lastPay[p] # Unmade
    => MonthOf(lastPay'[p]) > MonthOf(lastPay[p])

(* A step that charges nothing: a batch is as it was, or is none. *)
LEMMA MonthKeep ==
  ASSUME TypeOK, MonthInv, UNCHANGED <<lastPay, times>>,
         UNCHANGED nextPay \/ \E p \in PPays : /\ nextPay[p] # Gone /\ nextPay'[p] # Unmade
                                               /\ nextPay[p] = Unmade \/ nextPay'[p] = Gone
                                               /\ \A q \in PPays \ {p} : nextPay'[q] = nextPay[q],
         \A k \in Celery : job'[k] = job[k] \/ job'[k].stage # "charging"
  PROVE  MonthInv' /\ ChargesLater
<1>1. NextAfterLast'
  <2>1. CASE UNCHANGED nextPay
    BY <2>1 DEF MonthInv, NextAfterLast
  <2>2. ASSUME NEW p \in PPays, nextPay[p] # Gone, nextPay[p] = Unmade \/ nextPay'[p] = Gone,
               \A q \in PPays \ {p} : nextPay'[q] = nextPay[q]
        PROVE  NextAfterLast'
    <3>1. lastPay[p] # Unmade => nextPay'[p] = Gone
      BY <2>2 DEF MonthInv, NextAfterLast, Unmade
    <3>2. lastPay' = lastPay /\ NextAfterLast
      BY DEF MonthInv
    <3>3. ASSUME NEW q \in PPays, lastPay[q] # Unmade
          PROVE  nextPay'[q] = Gone \/ (nextPay'[q] \in Nat /\ NextMonth(lastPay[q]) <= nextPay'[q])
      BY <2>2, <3>1, <3>2, <3>3 DEF NextAfterLast
    <3> QED BY <3>2, <3>3 DEF NextAfterLast
  <2> QED BY <2>1, <2>2
<1>2. ASSUME NEW k \in Celery PROVE BatchDue(job[k])'
  BY DEF MonthInv, BatchDue
<1>3. ChargesLater
  BY DEF ChargesLater
<1> QED BY <1>1, <1>2, <1>3 DEF MonthInv

LEMMA MonthIdle ==
  ASSUME TypeOK, MonthInv, UNCHANGED pays, NEW k \in Celery, NEW j, j.stage # "charging",
         job' = [job EXCEPT ![k] = j]
  PROVE  MonthInv' /\ ChargesLater
<1>1. \A l \in Celery : job'[l] = job[l] \/ job'[l].stage # "charging"
  BY DEF TypeOK, JobTypes
<1> QED BY <1>1, MonthKeep DEF pays

LEMMA MonthQuery ==
  ASSUME TypeOK, MonthInv, NEW k \in Celery, ChargeQuery(k)
  PROVE  MonthInv' /\ ChargesLater
<1> DEFINE due == {p \in PPays : nextPay[p] >= 0 /\ nextPay[p] < clock}
           held == [job[k] EXCEPT !.stage = "charging", !.now = clock, !.due = {Due(p) : p \in due}]
<1>1. UNCHANGED pays /\ job' = [job EXCEPT ![k] = IF due = {} THEN IdleJob ELSE held]
  BY DEF ChargeQuery
<1>2. CASE due = {}
  BY <1>1, <1>2, MonthIdle DEF IdleJob
<1>3. CASE due # {}
  <2>1. job[k] \in JobType /\ clock \in Nat
    BY HeldCopies, ClockIs
  <2>2. held.now = clock /\ held.due = {Due(p) : p \in due}
    BY <2>1 DEF JobType
  <2>3. ASSUME NEW p \in due, lastPay[p] # Unmade PROVE NextMonth(lastPay[p]) <= clock
    <3>1. p \in PPays /\ nextPay[p] >= 0 /\ nextPay[p] < clock
      OBVIOUS
    <3>2. nextPay[p] \in Nat /\ NextMonth(lastPay[p]) <= nextPay[p] /\ lastPay[p] \in Nat
      BY <2>3, <3>1 DEF MonthInv, NextAfterLast, TypeOK, PaysTypes, Gone, Unmade
    <3>3. NextMonth(lastPay[p]) \in Nat
      BY <3>2, MonthTypes
    <3> QED BY <3>1, <3>2, <3>3, <2>1
  <2>4. BatchDue(held)
    <3>1. \A x \in held.due : lastPay[x.pay] # Unmade => NextMonth(lastPay[x.pay]) <= clock
      <4> HIDE DEF held
      <4> QED BY <2>2, <2>3 DEF Due
    <3>2. \A x, y \in held.due : x.pay = y.pay => x = y
      <4> HIDE DEF held
      <4> QED BY <2>2 DEF Due
    <3> HIDE DEF held
    <3> QED BY <3>1, <3>2, <2>2 DEF BatchDue
  <2> HIDE DEF due, held
  <2>5. job' = [job EXCEPT ![k] = held]
    BY <1>1, <1>3
  <2>6. \A l \in Celery : BatchDue(job'[l])
    BY <2>4, <2>5 DEF MonthInv, TypeOK, JobTypes
  <2>7. UNCHANGED <<lastPay, nextPay, times>>
    BY <1>1 DEF pays
  <2>8. \A l \in Celery : BatchDue(job[l])'
    BY <2>6, <2>7 DEF BatchDue
  <2>9. NextAfterLast' /\ ChargesLater
    BY <2>7 DEF MonthInv, NextAfterLast, ChargesLater
  <2> QED BY <2>8, <2>9 DEF MonthInv
<1> QED BY <1>2, <1>3

LEMMA MonthCharge ==
  ASSUME OneWorker, TypeOK, CronInv, MonthInv, NEW k \in Celery, Charge(k)
  PROVE  MonthInv' /\ ChargesLater
<1> DEFINE j == job[k]
<1>1. PICK x \in j.due :
        /\ nextPay' = [nextPay EXCEPT ![x.pay] = NextMonth(clock)]
        /\ lastPay' = [lastPay EXCEPT ![x.pay] = j.now]
        /\ times' = [times EXCEPT ![x.pay] = @ + 1]
        /\ job' = [job EXCEPT ![k] = IF j.due = {x} THEN IdleJob ELSE [j EXCEPT !.due = @ \ {x}]]
  BY DEF Charge
<1>2. /\ j.stage = "charging" /\ j \in JobType /\ x.pay \in PPays
      /\ j.now \in Nat /\ clock \in Nat /\ j.now <= clock
      /\ lastPay[x.pay] \in Nat \cup {Unmade}
      /\ \A y \in j.due : y.pay \in PPays
  <2>1. j \in JobType /\ (\A y \in j.due : y.pay \in PPays) /\ clock \in Nat
    BY HeldCopies, ClockIs
  <2>2. j.now \in Nat /\ j.now <= clock /\ j.stage = "charging"
    BY <2>1 DEF JobType, Charge, CronInv, BatchesExpired, BatchExpired
  <2> QED BY <2>1, <2>2 DEF TypeOK, PaysTypes
<1>3. /\ \A y \in j.due : lastPay[y.pay] # Unmade => NextMonth(lastPay[y.pay]) <= j.now
      /\ \A y, z \in j.due : y.pay = z.pay => y = z
  BY <1>2 DEF MonthInv, BatchDue
<1>4. /\ lastPay'[x.pay] = j.now /\ nextPay'[x.pay] = NextMonth(clock)
      /\ \A p \in PPays \ {x.pay} : /\ lastPay'[p] = lastPay[p] /\ nextPay'[p] = nextPay[p]
                                    /\ times'[p] = times[p]
  <2> HIDE DEF j
  <2> QED BY <1>1, <1>2 DEF TypeOK, PaysTypes
<1>5. ChargesLater
  <2>1. lastPay[x.pay] # Unmade => MonthOf(j.now) > MonthOf(lastPay[x.pay])
    <3> HIDE DEF j
    <3> QED BY <1>2, <1>3, LaterMonth
  <2> HIDE DEF j
  <2> QED BY <2>1, <1>4 DEF ChargesLater
<1>6. NextAfterLast'
  <2>1. NextMonth(clock) \in Nat /\ NextMonth(j.now) <= NextMonth(clock)
    <3> HIDE DEF j
    <3> QED BY <1>2, MonthTypes, NextOrdered
  <2> HIDE DEF j
  <2> QED BY <2>1, <1>4 DEF MonthInv, NextAfterLast
<1>7. ASSUME NEW l \in Celery PROVE BatchDue(job[l])'
  <2>1. l = k
    BY DEF OneWorker
  <2>2. CASE j.due = {x}
    <3>1. job'[k] = IdleJob
      BY <2>2, <1>1 DEF TypeOK, JobTypes
    <3> QED BY <3>1, <2>1 DEF BatchDue, IdleJob
  <2>3. CASE j.due # {x}
    <3> DEFINE r == [j EXCEPT !.due = @ \ {x}]
    <3>1. r.now = j.now /\ r.due = j.due \ {x}
      BY <1>2 DEF JobType
    <3>2. job'[k] = r
      BY <2>3, <1>1 DEF TypeOK, JobTypes
    <3> HIDE DEF r, j
    <3>3. \A y \in r.due : y.pay \in PPays \ {x.pay}
      BY <3>1, <1>2, <1>3
    <3>4. \A y \in r.due : lastPay'[y.pay] # Unmade => NextMonth(lastPay'[y.pay]) <= r.now
      BY <3>1, <3>3, <1>3, <1>4
    <3>5. \A y, z \in r.due : y.pay = z.pay => y = z
      BY <3>1, <1>3
    <3> QED BY <2>1, <3>2, <3>4, <3>5 DEF BatchDue
  <2> QED BY <2>2, <2>3
<1> QED BY <1>5, <1>6, <1>7 DEF MonthInv

LEMMA MonthTask ==
  ASSUME OneWorker, TypeOK, CronInv, MonthInv, NEW k \in Celery,
         JobStep(k) \/ StartStep(k) \/ JobCrash(k)
  PROVE  MonthInv' /\ ChargesLater
<1> DEFINE j == job[k]
<1>0. j \in JobType
  BY HeldCopies
<1>a. \A stage \in Stages \ {"charging"} : Then(j, stage).stage # "charging"
  BY <1>0 DEF Then, IdleJob, JobType
<1>b. ASSUME j.stage # "charging", NEW x, NEW stage \in Stages \ {"charging"}
      PROVE  Rest(j, x, stage).stage # "charging"
  BY <1>0, <1>a, <1>b DEF Rest, JobType
<1>1. CASE ChargeQuery(k)
  BY <1>1, MonthQuery
<1>2. CASE Charge(k)
  BY <1>2, MonthCharge
<1>3. CASE RenewQuery(k) \/ FinishQuery(k) \/ ConnectQuery(k) \/ FinishDelete(k)
  <2>1. UNCHANGED pays
    BY <1>3 DEF RenewQuery, FinishQuery, ConnectQuery, FinishDelete
  <2>2. PICK next : job' = [job EXCEPT ![k] = next] /\ next.stage # "charging"
    <3>1. CASE RenewQuery(k)
      <4> DEFINE expired == {c \in InScope(k) : Owes(c) /\ auto[c]}
                 held == [j EXCEPT !.stage = "renewing", !.now = clock,
                                   !.subs = {Copy(c, rows[current[c]].srv) : c \in expired}]
      <4>1. job' = [job EXCEPT ![k] = IF expired = {} THEN Then(j, "toFinish") ELSE held]
        BY <3>1 DEF RenewQuery
      <4>2. held.stage # "charging"
        BY <1>0 DEF JobType
      <4> HIDE DEF held, expired, j
      <4> QED BY <4>1, <4>2, <1>a DEF Stages
    <3>2. CASE FinishQuery(k)
      <4> DEFINE held == [j EXCEPT !.stage = "finishing", !.now = clock]
      <4>1. job' = [job EXCEPT ![k] =
                     IF ExpiredRows(k, clock) = {} THEN Then(j, "toConnect") ELSE held]
        BY <3>2 DEF FinishQuery
      <4>2. held.stage # "charging"
        BY <1>0 DEF JobType
      <4> HIDE DEF held, j
      <4> QED BY <4>1, <4>2, <1>a DEF Stages
    <3>3. CASE ConnectQuery(k)
      <4> DEFINE waiting == {c \in Customers : CanConnect(c)}
                 held == [j EXCEPT !.stage = "connecting",
                                   !.subs = {Copy(c, last[c]) : c \in waiting}]
      <4>1. job' = [job EXCEPT ![k] = IF waiting = {} THEN Then(j, "toCharge") ELSE held]
        BY <3>3 DEF ConnectQuery
      <4>2. held.stage # "charging"
        BY <1>0 DEF JobType
      <4> HIDE DEF held, waiting, j
      <4> QED BY <4>1, <4>2, <1>a DEF Stages
    <3>4. CASE FinishDelete(k)
      BY <3>4, <1>a DEF FinishDelete, Stages
    <3> QED BY <1>3, <3>1, <3>2, <3>3, <3>4
  <2> HIDE DEF j
  <2> QED BY <2>1, <2>2, MonthIdle
<1>4. CASE Renew(k) \/ RefuseRenewal(k) \/ AutoConnect(k) \/ SkipConnect(k)
  <2>1. UNCHANGED pays /\ j.stage # "charging"
    BY <1>4 DEF Renew, RefuseRenewal, AutoConnect, SkipConnect
  <2>2. PICK x \in j.subs, stage \in {"toFinish", "toCharge"} :
          job' = [job EXCEPT ![k] = Rest(j, x, stage)]
    BY <1>4 DEF Renew, RefuseRenewal, AutoConnect, SkipConnect
  <2>3. Rest(j, x, stage).stage # "charging"
    BY <2>1, <1>b DEF Stages
  <2> HIDE DEF j
  <2> QED BY <2>1, <2>2, <2>3, MonthIdle
<1>5. CASE RenewFails(k) \/ ChargeFails(k) \/ JobCrash(k)
  <2>1. UNCHANGED pays /\ job' = [job EXCEPT ![k] = IdleJob]
    BY <1>5 DEF RenewFails, ChargeFails, JobCrash
  <2> QED BY <2>1, MonthIdle DEF IdleJob
<1>6. CASE StartStep(k)
  <2>1. UNCHANGED pays
    BY <1>6 DEF StartStep, ManageStart, CheckStart
  <2>2. UNCHANGED job \/ (\E next : job' = [job EXCEPT ![k] = next] /\ next.stage # "charging")
    <3>1. CASE ManageStart(k)
      <4> DEFINE next == [job[k] EXCEPT !.stage = "toRenew"]
      <4>1. job' = [job EXCEPT ![k] = next]
        BY <3>1 DEF ManageStart
      <4>2. next.stage # "charging"
        BY <1>0 DEF JobType
      <4> QED BY <4>1, <4>2
    <3>2. ASSUME NEW c \in Customers, CheckStart(k, c)
          PROVE  UNCHANGED job \/ (\E next : job' = [job EXCEPT ![k] = next] /\ next.stage # "charging")
      <4> DEFINE check == [IdleJob EXCEPT !.scope = c]
                 renew == [check EXCEPT !.stage = "toRenew"]
                 connect == [check EXCEPT !.stage = "connecting", !.subs = {Copy(c, last[c])}]
                 finish == [check EXCEPT !.stage = "toFinish"]
      <4>1. \/ UNCHANGED job
            \/ job' = [job EXCEPT ![k] = renew]
            \/ job' = [job EXCEPT ![k] = connect]
            \/ job' = [job EXCEPT ![k] = finish]
        BY <3>2 DEF CheckStart
      <4>2. renew.stage # "charging" /\ connect.stage # "charging" /\ finish.stage # "charging"
        BY DEF IdleJob
      <4> HIDE DEF renew, connect, finish
      <4> QED BY <4>1, <4>2
    <3> QED BY <1>6, <3>1, <3>2 DEF StartStep
  <2>3. CASE UNCHANGED job
    BY <2>1, <2>3, MonthKeep DEF pays
  <2> QED BY <2>1, <2>2, <2>3, MonthIdle
<1> QED BY <1>1, <1>2, <1>3, <1>4, <1>5, <1>6 DEF JobStep

LEMMA MonthNext ==
  ASSUME OneWorker, TypeOK, CronInv, MonthInv, [Next]_vars
  PROVE  MonthInv' /\ ChargesLater
<1>1. ASSUME NEW p \in PPays, MakePeriodicPay(p) \/ DeletePeriodicPay(p)
      PROVE  MonthInv' /\ ChargesLater
  <2>1. UNCHANGED <<lastPay, times, job>>
    BY <1>1 DEF MakePeriodicPay, DeletePeriodicPay
  <2>2. nextPay \in [PPays -> Nat \cup {Unmade, Gone}]
    BY DEF TypeOK, PaysTypes
  <2>3. /\ nextPay[p] # Gone /\ nextPay'[p] # Unmade
        /\ nextPay[p] = Unmade \/ nextPay'[p] = Gone
        /\ \A q \in PPays \ {p} : nextPay'[q] = nextPay[q]
    <3>1. CASE MakePeriodicPay(p)
      BY <3>1, <2>2, PayAssumption DEF MakePeriodicPay, Unmade, Gone
    <3>2. CASE DeletePeriodicPay(p)
      BY <3>2, <2>2 DEF DeletePeriodicPay, Unmade, Gone
    <3> QED BY <1>1, <3>1, <3>2
  <2> QED BY <2>1, <2>3, MonthKeep
<1>2. ASSUME NEW w \in Web, BeginStep(w) \/ CommitStep(w) \/ WebCrash(w)
      PROVE  MonthInv' /\ ChargesLater
  <2>1. UNCHANGED <<pays, job>>
    BY <1>2 DEF BeginStep, BuyService, PickService, StopService, MakeShot, BuyDebt, AddBalance,
       ReceivePay, Begin, WebCrash, CommitStep, CommitPick, CommitStop, CommitShot, CommitDebt,
       SaveBalance, CommitPay, RejectPay, NotifyPay
  <2> QED BY <2>1, MonthKeep DEF pays
<1>3. ASSUME NEW c \in Customers, SetAuto(c) \/ UpdateProfile(c) PROVE MonthInv' /\ ChargesLater
  <2>1. UNCHANGED <<pays, job>>
    BY <1>3 DEF SetAuto, UpdateProfile
  <2> QED BY <2>1, MonthKeep DEF pays
<1>4. ASSUME Tick \/ UNCHANGED vars PROVE MonthInv' /\ ChargesLater
  <2>1. UNCHANGED <<pays, job>>
    BY <1>4 DEF Tick, vars
  <2> QED BY <2>1, MonthKeep DEF pays
<1> QED BY <1>1, <1>2, <1>3, <1>4, MonthTask DEF Next, ProfileStep

LEMMA MonthInit == Init => MonthInv
BY DEF Init, MonthInv, NextAfterLast, BatchDue, IdleJob

(* With one worker, whenever the tasks run, are killed and run again, a periodic
   pay is charged at most once in a calendar month. *)
THEOREM OneWorkerChargesOnce ==
  ASSUME OneWorker
  PROVE  Spec => PeriodicOncePerMonth
<1>1. TypeOK /\ CronInv /\ [Next]_vars => CronInv'
  BY CronNext
<1>2. TypeOK /\ CronInv /\ MonthInv /\ [Next]_vars =>
        /\ MonthInv'
        /\ \A p \in PPays : times'[p] # times[p] /\ lastPay[p] # Unmade
             => MonthOf(lastPay'[p]) > MonthOf(lastPay[p])
  BY MonthNext DEF ChargesLater
<1> QED
  BY <1>1, <1>2, CronInit, MonthInit, TypeCorrect, PTL DEF Spec, PeriodicOncePerMonth

-----------------------------------------------------------------------------
(* Nothing overlaps. *)

(* One request or task at a time, one periodic pay per customer. *)
Serial ==
  /\ MaxInFlight = 1
  /\ IsFiniteSet(Web) /\ IsFiniteSet(Celery)
  /\ \A p, q \in PPays : PPOwner[p] = PPOwner[q] => p = q

OneAtATime ==
  /\ \A v, w \in Web : web[v] # Free /\ web[w] # Free => v = w
  /\ \A k, l \in Celery : job[k] # IdleJob /\ job[l] # IdleJob => k = l
  /\ \A w \in Web, k \in Celery : web[w] = Free \/ job[k] = IdleJob
RequestsFresh ==
  \A w \in Web : web[w].op \notin {"free", "notify"} => web[w].seen = balance[web[w].c]
(* The copies a task j still has to write from, when the balances are b. *)
FreshBatch(j, b) ==
  /\ j.stage \notin {"renewing", "connecting"} => j.subs = {}
  /\ j.stage # "charging" => j.due = {}
  /\ \A x \in j.subs : x.seen = b[x.c] /\ \A y \in j.subs : x.c = y.c => x = y
  /\ \A x \in j.due : x.seen = b[x.c] /\ \A y \in j.due : x.c = y.c => x = y
CopiesFresh == \A k \in Celery : FreshBatch(job[k], balance)
SerialInv == OneAtATime /\ RequestsFresh /\ CopiesFresh /\ NothingLost

-----------------------------------------------------------------------------
(* Nothing runs when another request or task may begin. *)
LEMMA NothingRuns ==
  ASSUME Serial, InFlight < MaxInFlight
  PROVE  /\ \A w \in Web : web[w] = Free
         /\ \A k \in Celery : job[k] = IdleJob
<1> DEFINE W == {w \in Web : web[w] # Free}
           K == {k \in Celery : job[k] # IdleJob}
<1>1. IsFiniteSet(W) /\ IsFiniteSet(K)
  BY FS_Subset DEF Serial
<1>2. Cardinality(W) \in Nat /\ Cardinality(K) \in Nat
  BY <1>1, FS_CardinalityType
<1>3. Cardinality(W) + Cardinality(K) < 1
  BY DEF InFlight, Serial
<1>4. Cardinality(W) = 0 /\ Cardinality(K) = 0
  <2> HIDE DEF W, K
  <2> QED BY <1>2, <1>3
<1>5. W = {} /\ K = {}
  BY <1>1, <1>4, FS_EmptySet
<1> QED BY <1>5

(* A running task is alone. *)
LEMMA TaskAlone ==
  ASSUME SerialInv, NEW k \in Celery, job[k].stage # "idle"
  PROVE  /\ \A w \in Web : web[w] = Free
         /\ \A l \in Celery \ {k} : job[l] = IdleJob
<1>1. job[k] # IdleJob
  BY DEF IdleJob
<1> QED BY <1>1 DEF SerialInv, OneAtATime

(* A write from a copy that agrees with the table erases nothing. *)
LEMMA WriteFresh ==
  ASSUME MoneyTypes, NothingLost, NEW x, x.c \in Customers, x.seen = balance[x.c],
         NEW d, Save(x, d) \/ UNCHANGED <<balance, overtaken>>
  PROVE  /\ NothingLost'
         /\ \A e \in Customers \ {x.c} : balance'[e] = balance[e]
<1>1. CASE Save(x, d)
  <2> DEFINE c == x.c
             n == x.seen + d
  <2>1. balance' = [balance EXCEPT ![c] = n] /\ overtaken' = overtaken
    BY <1>1 DEF Save
  <2>2. \A e \in Customers \ {c} : balance'[e] = balance[e]
    <3> HIDE DEF c, n
    <3> QED BY <2>1 DEF MoneyTypes
  <2> QED BY <2>1, <2>2 DEF NothingLost
<1>2. CASE UNCHANGED <<balance, overtaken>>
  BY <1>2 DEF NothingLost
<1> QED BY <1>1, <1>2

-----------------------------------------------------------------------------
(* How requests and tasks move. *)

LEMMA IdleFresh ==
  ASSUME NEW b
  PROVE  FreshBatch(IdleJob, b)
BY DEF IdleJob, FreshBatch

LEMMA ThenFresh ==
  ASSUME NEW j, NEW b, NEW stage \in {"toRenew", "toFinish", "toConnect", "toCharge"}
  PROVE  FreshBatch(Then(j, stage), b) /\ FreshBatch([IdleJob EXCEPT !.stage = stage], b)
BY DEF Then, IdleJob, FreshBatch

(* The element just written is taken from the batch; the others are of other
   customers. *)
LEMMA RestFresh ==
  ASSUME TypeOK, NEW j \in JobType, FreshBatch(j, balance), NEW x \in j.subs,
         NEW stage \in {"toFinish", "toCharge"},
         \A e \in Customers \ {x.c} : balance'[e] = balance[e]
  PROVE  FreshBatch(Rest(j, x, stage), balance')
<1>1. CASE j.subs = {x}
  BY <1>1, ThenFresh DEF Rest
<1>2. CASE j.subs # {x}
  <2> DEFINE r == [j EXCEPT !.subs = @ \ {x}]
  <2>1. r.stage = j.stage /\ r.due = j.due /\ r.subs = j.subs \ {x} /\ j.subs \subseteq CopyType
    BY DEF JobType
  <2>2. j.stage \in {"renewing", "connecting"} /\ j.due = {}
    BY DEF FreshBatch
  <2>3. \A y \in j.subs \ {x} : y.c \in Customers /\ y.c # x.c
    BY <2>1 DEF CopyType, FreshBatch
  <2>4. \A y \in j.subs \ {x} : y.seen = balance'[y.c]
    BY <2>3 DEF FreshBatch
  <2>5. Rest(j, x, stage) = r
    BY <1>2 DEF Rest
  <2> HIDE DEF r
  <2> QED BY <2>1, <2>2, <2>4, <2>5 DEF FreshBatch
<1> QED BY <1>1, <1>2

(* The only running process is web thread w, which now holds q. *)
LEMMA WebMoves ==
  ASSUME TypeOK, NEW w \in Web, NEW q, web' = [web EXCEPT ![w] = q], UNCHANGED job,
         \A v \in Web \ {w} : web[v] = Free,
         \A k \in Celery : job[k] = IdleJob,
         q.op \in {"free", "notify"} \/ q.seen = balance'[q.c],
         NothingLost'
  PROVE  SerialInv'
<1>1. \A v \in Web : IF v = w THEN web'[v] = q ELSE web'[v] = Free
  BY DEF TypeOK, WebTypes
<1>2. OneAtATime'
  BY <1>1 DEF OneAtATime
<1>3. RequestsFresh'
  BY <1>1, FreeIsNoRequest DEF RequestsFresh
<1>4. CopiesFresh'
  BY IdleFresh DEF CopiesFresh
<1> QED BY <1>2, <1>3, <1>4 DEF SerialInv

(* The only running process is the worker k, whose task is now j. *)
LEMMA TaskMoves ==
  ASSUME TypeOK, NEW k \in Celery, NEW j, job' = [job EXCEPT ![k] = j], UNCHANGED web,
         \A l \in Celery \ {k} : job[l] = IdleJob,
         \A w \in Web : web[w] = Free,
         FreshBatch(j, balance'),
         NothingLost'
  PROVE  SerialInv'
<1>1. \A l \in Celery : IF l = k THEN job'[l] = j ELSE job'[l] = IdleJob
  BY DEF TypeOK, JobTypes
<1>2. OneAtATime'
  BY <1>1 DEF OneAtATime
<1>3. RequestsFresh'
  BY FreeIsNoRequest DEF RequestsFresh
<1>4. CopiesFresh'
  BY <1>1, IdleFresh DEF CopiesFresh
<1> QED BY <1>2, <1>3, <1>4 DEF SerialInv

-----------------------------------------------------------------------------
(* Every action keeps the invariant. *)

LEMMA SerialBegin ==
  ASSUME Serial, TypeOK, SerialInv, NEW w \in Web, BeginStep(w)
  PROVE  SerialInv'
<1>a. ASSUME NEW q, web' = [web EXCEPT ![w] = q], q.seen = balance[q.c],
             InFlight < MaxInFlight, UNCHANGED <<balance, overtaken, job>>
      PROVE  SerialInv'
  <2>1. (\A v \in Web : web[v] = Free) /\ (\A k \in Celery : job[k] = IdleJob)
    BY <1>a, NothingRuns
  <2>2. NothingLost'
    BY <1>a DEF SerialInv, NothingLost
  <2> QED BY <1>a, <2>1, <2>2, WebMoves
<1>b. ASSUME NEW h, NEW q, Begin(w, h, q), q.seen = balance[q.c]
      PROVE  SerialInv'
  BY <1>a, <1>b DEF Begin, money
<1>1. ASSUME NEW c \in Customers, BuyService(w, c) PROVE SerialInv'
  <2>1. PICK s \in Services \ AdminOnly :
          Begin(w, "BuyService", [Request("pick", c, -Cost[s]) EXCEPT
            !.srv = s, !.setLast = (last[c] # s)])
    BY <1>1 DEF BuyService
  <2> DEFINE q == [Request("pick", c, -Cost[s]) EXCEPT !.srv = s, !.setLast = (last[c] # s)]
  <2>2. q.seen = balance[q.c]
    BY DEF Request
  <2> HIDE DEF q
  <2> QED BY <2>1, <2>2, <1>b DEF q
<1>2. ASSUME NEW c \in Customers, PickService(w, c) PROVE SerialInv'
  <2>1. PICK s \in Services, d \in StaffDeadlines \cup {NoDeadline} :
          Begin(w, "PickService", [Request("pick", c, -Cost[s]) EXCEPT
            !.srv = s, !.setLast = (last[c] # s), !.deadline = d, !.staff = TRUE])
    BY <1>2 DEF PickService
  <2> DEFINE q == [Request("pick", c, -Cost[s]) EXCEPT
                     !.srv = s, !.setLast = (last[c] # s), !.deadline = d, !.staff = TRUE]
  <2>2. q.seen = balance[q.c]
    BY DEF Request
  <2> QED BY <2>1, <2>2, <1>b
<1>3. ASSUME NEW c \in Customers, StopService(w, c) PROVE SerialInv'
  <2> DEFINE q == Request("stop", c,
                    CostToReturn(rows[current[c]].srv, rows[current[c]].start, clock))
  <2>1. Begin(w, "StopService", q)
    BY <1>3 DEF StopService
  <2>2. q.seen = balance[q.c]
    BY DEF Request
  <2> QED BY <2>1, <2>2, <1>b
<1>4. ASSUME NEW c \in Customers, MakeShot(w, c) PROVE SerialInv'
  <2>1. PICK n \in ShotCosts :
          Begin(w, "MakeShot", [Request("shot", c, -n) EXCEPT !.staff = TRUE])
    BY <1>4 DEF MakeShot
  <2> DEFINE q == [Request("shot", c, -n) EXCEPT !.staff = TRUE]
  <2>2. q.seen = balance[q.c]
    BY DEF Request
  <2> QED BY <2>1, <2>2, <1>b
<1>5. ASSUME NEW c \in Customers, BuyDebt(w, c) PROVE SerialInv'
  <2>1. PICK d \in Debts :
          Begin(w, "BuyDebt", [Request("debt", c, -DebtCost[d]) EXCEPT !.ref = d])
    BY <1>5 DEF BuyDebt
  <2> DEFINE q == [Request("debt", c, -DebtCost[d]) EXCEPT !.ref = d]
  <2>2. q.seen = balance[q.c]
    BY DEF Request
  <2> QED BY <2>1, <2>2, <1>b
<1>6. ASSUME NEW c \in Customers, AddBalance(w, c) PROVE SerialInv'
  <2>1. PICK n \in TopUps :
          /\ web' = [web EXCEPT ![w] = [Request("topup", c, n) EXCEPT !.staff = (n < 0)]]
          /\ InFlight < MaxInFlight
          /\ UNCHANGED <<balance, overtaken, job>>
    BY <1>6 DEF AddBalance
  <2> DEFINE q == [Request("topup", c, n) EXCEPT !.staff = (n < 0)]
  <2>2. q.seen = balance[q.c]
    BY DEF Request
  <2> QED BY <2>1, <2>2, <1>a
<1>7. ASSUME NEW id \in PayIds, ReceivePay(w, id) PROVE SerialInv'
  <2> DEFINE q == [Request("pay", PayFor[id], PayAmount[id]) EXCEPT !.ref = id]
  <2>1. Begin(w, "ReceivePay", q)
    BY <1>7 DEF ReceivePay
  <2>2. q.seen = balance[q.c]
    BY DEF Request
  <2> QED BY <2>1, <2>2, <1>b
<1> QED
  BY <1>1, <1>2, <1>3, <1>4, <1>5, <1>6, <1>7 DEF BeginStep

LEMMA SerialEnd ==
  ASSUME TypeOK, SerialInv, NEW w \in Web, CommitStep(w) \/ WebCrash(w)
  PROVE  SerialInv'
<1> DEFINE q == web[w]
<1>1. q # Free
  BY FreeIsNoRequest DEF CommitStep, CommitPick, CommitStop, CommitShot, CommitDebt,
     SaveBalance, CommitPay, RejectPay, NotifyPay, WebCrash
<1>2. q \in RequestType /\ q.c \in Customers
  BY <1>1 DEF TypeOK, WebTypes, RequestType
<1>3. (\A v \in Web \ {w} : web[v] = Free) /\ (\A k \in Celery : job[k] = IdleJob)
  BY <1>1 DEF SerialInv, OneAtATime
<1>4. NothingLost'
  <2>a. MoneyTypes /\ NothingLost
    BY DEF TypeOK, SerialInv
  <2>1. ASSUME q.op \notin {"free", "notify"}, NEW d, Save(q, d) PROVE NothingLost'
    <3>1. q.seen = balance[q.c]
      BY <2>1 DEF SerialInv, RequestsFresh
    <3> HIDE DEF q
    <3> QED BY <2>1, <2>a, <3>1, <1>2, WriteFresh
  <2>2. ASSUME UNCHANGED overtaken PROVE NothingLost'
    BY <2>2, <2>a DEF NothingLost
  <2>3. CASE CommitPick(w)
    BY <2>3, <2>1 DEF CommitPick, Connect, Post
  <2>4. CASE CommitStop(w)
    BY <2>4, <2>1, <2>2 DEF CommitStop, Stop, Post
  <2>5. CASE CommitShot(w) \/ CommitDebt(w) \/ CommitPay(w)
    BY <2>5, <2>1 DEF CommitShot, CommitDebt, CommitPay, Post
  <2>6. CASE SaveBalance(w)
    BY <2>6, <2>1 DEF SaveBalance
  <2>7. CASE RejectPay(w) \/ NotifyPay(w) \/ WebCrash(w)
    BY <2>7, <2>2 DEF RejectPay, NotifyPay, WebCrash, money
  <2> QED BY <2>3, <2>4, <2>5, <2>6, <2>7 DEF CommitStep
<1>5. CASE CommitPay(w)
  <2> DEFINE r == [q EXCEPT !.op = "notify"]
  <2>1. r.op = "notify"
    BY <1>2 DEF RequestType
  <2>2. web' = [web EXCEPT ![w] = r] /\ UNCHANGED job
    BY <1>5 DEF CommitPay
  <2> HIDE DEF r, q
  <2> QED BY <2>1, <2>2, <1>3, <1>4, WebMoves
<1>6. CASE ~CommitPay(w)
  <2>1. End(w) /\ UNCHANGED job
    BY <1>6 DEF CommitStep, CommitPick, CommitStop, CommitShot, CommitDebt,
       SaveBalance, RejectPay, NotifyPay, WebCrash
  <2>2. Free.op = "free" /\ web' = [web EXCEPT ![w] = Free]
    BY <2>1, FreeIsNoRequest DEF End
  <2> HIDE DEF q
  <2> QED BY <2>1, <2>2, <1>3, <1>4, WebMoves
<1> QED BY <1>5, <1>6

LEMMA SerialTask ==
  ASSUME Serial, TypeOK, SerialInv, NEW k \in Celery, JobStep(k)
  PROVE  SerialInv'
<1> DEFINE j == job[k]
<1>a. MoneyTypes /\ NothingLost /\ FreshBatch(j, balance) /\ j \in JobType
  BY DEF TypeOK, JobTypes, SerialInv, CopiesFresh
<1>b. j.stage # "idle" /\ UNCHANGED web
  BY DEF JobStep, RenewQuery, Renew, RenewFails, RefuseRenewal, FinishQuery, FinishDelete,
     ConnectQuery, AutoConnect, SkipConnect, ChargeQuery, Charge, ChargeFails
<1>c. (\A w \in Web : web[w] = Free) /\ (\A l \in Celery \ {k} : job[l] = IdleJob)
  BY <1>b, TaskAlone
<1>d. ASSUME NEW next, job' = [job EXCEPT ![k] = next], FreshBatch(next, balance), UNCHANGED money
      PROVE  SerialInv'
  <2>1. NothingLost' /\ FreshBatch(next, balance')
    BY <1>a, <1>d DEF money, NothingLost
  <2> QED BY <2>1, <1>b, <1>c, <1>d, TaskMoves
<1>e. ASSUME NEW x \in j.subs, NEW stage \in {"toFinish", "toCharge"}, NEW d,
             Save(x, d) \/ UNCHANGED <<balance, overtaken>>,
             job' = [job EXCEPT ![k] = Rest(j, x, stage)]
      PROVE  SerialInv'
  <2>1. x.c \in Customers /\ x.seen = balance[x.c]
    BY <1>a DEF JobType, CopyType, FreshBatch
  <2>2. NothingLost' /\ \A e \in Customers \ {x.c} : balance'[e] = balance[e]
    <3> HIDE DEF j
    <3> QED BY <2>1, <1>a, <1>e, WriteFresh
  <2>3. FreshBatch(Rest(j, x, stage), balance')
    <3> HIDE DEF j
    <3> QED BY <2>2, <1>a, <1>e, RestFresh
  <2> HIDE DEF j
  <2> QED BY <2>2, <2>3, <1>b, <1>c, <1>e, TaskMoves
<1>1. CASE RenewQuery(k)
  <2> DEFINE expired == {c \in InScope(k) : Owes(c) /\ auto[c]}
             copies == {Copy(c, rows[current[c]].srv) : c \in expired}
             held == [j EXCEPT !.stage = "renewing", !.now = clock, !.subs = copies]
  <2>1. FreshBatch(held, balance)
    <3>1. held.stage = "renewing" /\ held.subs = copies /\ held.due = {}
      BY <1>1, <1>a DEF RenewQuery, JobType, FreshBatch
    <3>2. \A x \in copies : x.seen = balance[x.c] /\ \A y \in copies : x.c = y.c => x = y
      BY DEF Copy
    <3> HIDE DEF held, copies
    <3> QED BY <3>1, <3>2 DEF FreshBatch
  <2>2. /\ job' = [job EXCEPT ![k] = IF expired = {} THEN Then(j, "toFinish") ELSE held]
        /\ UNCHANGED money
    BY <1>1 DEF RenewQuery
  <2> HIDE DEF held, expired, j
  <2> QED BY <2>1, <2>2, <1>d, ThenFresh
<1>2. CASE Renew(k)
  <2>1. PICK x \in j.subs : Save(x, -Cost[x.srv]) /\ job' = [job EXCEPT ![k] = Rest(j, x, "toFinish")]
    BY <1>2 DEF Renew, Post
  <2> QED BY <2>1, <1>e
<1>3. CASE RenewFails(k) \/ ChargeFails(k)
  BY <1>3, <1>d, IdleFresh DEF RenewFails, ChargeFails
<1>4. CASE RefuseRenewal(k)
  <2>1. PICK x \in j.subs : /\ Stop(x, CostToReturn(x.srv, x.start, clock))
                            /\ job' = [job EXCEPT ![k] = Rest(j, x, "toFinish")]
    BY <1>4 DEF RefuseRenewal
  <2>2. Save(x, CostToReturn(x.srv, x.start, clock)) \/ UNCHANGED <<balance, overtaken>>
    BY <2>1 DEF Stop, Post
  <2> QED BY <2>1, <2>2, <1>e
<1>5. CASE FinishQuery(k)
  <2> DEFINE held == [j EXCEPT !.stage = "finishing", !.now = clock]
  <2>1. FreshBatch(held, balance)
    <3>1. held.stage = "finishing" /\ held.subs = {} /\ held.due = {}
      BY <1>5, <1>a DEF FinishQuery, JobType, FreshBatch
    <3> HIDE DEF held
    <3> QED BY <3>1 DEF FreshBatch
  <2>2. /\ job' = [job EXCEPT ![k] = IF ExpiredRows(k, clock) = {} THEN Then(j, "toConnect") ELSE held]
        /\ UNCHANGED money
    BY <1>5 DEF FinishQuery
  <2> HIDE DEF held, j
  <2> QED BY <2>1, <2>2, <1>d, ThenFresh
<1>6. CASE FinishDelete(k)
  BY <1>6, <1>d, ThenFresh DEF FinishDelete
<1>7. CASE ConnectQuery(k)
  <2> DEFINE waiting == {c \in Customers : CanConnect(c)}
             copies == {Copy(c, last[c]) : c \in waiting}
             held == [j EXCEPT !.stage = "connecting", !.subs = copies]
  <2>1. FreshBatch(held, balance)
    <3>1. held.stage = "connecting" /\ held.subs = copies /\ held.due = {}
      BY <1>7, <1>a DEF ConnectQuery, JobType, FreshBatch
    <3>2. \A x \in copies : x.seen = balance[x.c] /\ \A y \in copies : x.c = y.c => x = y
      BY DEF Copy
    <3> HIDE DEF held, copies
    <3> QED BY <3>1, <3>2 DEF FreshBatch
  <2>2. /\ job' = [job EXCEPT ![k] = IF waiting = {} THEN Then(j, "toCharge") ELSE held]
        /\ UNCHANGED money
    BY <1>7 DEF ConnectQuery
  <2> HIDE DEF held, waiting, j
  <2> QED BY <2>1, <2>2, <1>d, ThenFresh
<1>8. CASE AutoConnect(k)
  <2>1. PICK x \in j.subs : Save(x, -Cost[x.srv]) /\ job' = [job EXCEPT ![k] = Rest(j, x, "toCharge")]
    BY <1>8 DEF AutoConnect, Connect, Post
  <2> QED BY <2>1, <1>e
<1>9. CASE SkipConnect(k)
  <2>1. PICK x \in j.subs : job' = [job EXCEPT ![k] = Rest(j, x, "toCharge")]
    BY <1>9 DEF SkipConnect
  <2>2. UNCHANGED <<balance, overtaken>>
    BY <1>9 DEF SkipConnect, money
  <2> QED BY <2>1, <2>2, <1>e
<1>10. CASE ChargeQuery(k)
  <2> DEFINE due == {p \in PPays : nextPay[p] >= 0 /\ nextPay[p] < clock}
             copies == {Due(p) : p \in due}
             held == [j EXCEPT !.stage = "charging", !.now = clock, !.due = copies]
  <2>1. FreshBatch(held, balance)
    <3>1. held.stage = "charging" /\ held.due = copies /\ held.subs = {}
      BY <1>10, <1>a DEF ChargeQuery, JobType, FreshBatch
    <3>2. \A x \in copies : x.seen = balance[x.c] /\ \A y \in copies : x.c = y.c => x = y
      BY DEF Due, Serial
    <3> HIDE DEF held, copies
    <3> QED BY <3>1, <3>2 DEF FreshBatch
  <2>2. /\ job' = [job EXCEPT ![k] = IF due = {} THEN IdleJob ELSE held]
        /\ UNCHANGED money
    BY <1>10 DEF ChargeQuery
  <2> HIDE DEF held, due, j
  <2> QED BY <2>1, <2>2, <1>d, IdleFresh
<1>11. CASE Charge(k)
  <2>1. PICK x \in j.due :
          /\ Save(x, -PPAmount[x.pay])
          /\ job' = [job EXCEPT ![k] = IF j.due = {x} THEN IdleJob
                                       ELSE [j EXCEPT !.due = @ \ {x}]]
    BY <1>11 DEF Charge, Post
  <2>2. j.due \subseteq DueType /\ j.stage = "charging"
    BY <1>11, <1>a DEF Charge, JobType
  <2>3. NothingLost' /\ \A e \in Customers \ {x.c} : balance'[e] = balance[e]
    <3>1. x.c \in Customers /\ x.seen = balance[x.c]
      BY <2>2, <1>a DEF DueType, FreshBatch
    <3> HIDE DEF j
    <3> QED BY <2>1, <3>1, <1>a, WriteFresh
  <2> DEFINE rest == [j EXCEPT !.due = @ \ {x}]
  <2>4. FreshBatch(rest, balance')
    <3>1. rest.stage = "charging" /\ rest.due = j.due \ {x} /\ rest.subs = {}
      BY <2>2, <1>a DEF JobType, FreshBatch
    <3>2. \A y \in j.due \ {x} : y.c \in Customers /\ y.c # x.c
      BY <2>2, <1>a DEF DueType, FreshBatch
    <3>3. \A y \in j.due \ {x} : y.seen = balance'[y.c]
      BY <3>2, <2>3, <1>a DEF FreshBatch
    <3> HIDE DEF rest
    <3> QED BY <3>1, <3>3, <1>a DEF FreshBatch
  <2>5. job' = [job EXCEPT ![k] = IF j.due = {x} THEN IdleJob ELSE rest]
    BY <2>1
  <2> HIDE DEF rest, j
  <2> QED BY <2>3, <2>4, <2>5, <1>b, <1>c, IdleFresh, TaskMoves
<1> QED
  BY <1>1, <1>2, <1>3, <1>4, <1>5, <1>6, <1>7, <1>8, <1>9, <1>10, <1>11 DEF JobStep

LEMMA SerialStart ==
  ASSUME Serial, TypeOK, SerialInv, NEW k \in Celery, StartStep(k)
  PROVE  SerialInv'
<1>1. InFlight < MaxInFlight /\ UNCHANGED <<web, money>>
  BY DEF StartStep, ManageStart, CheckStart
<1>2. (\A w \in Web : web[w] = Free) /\ (\A l \in Celery : job[l] = IdleJob)
  BY <1>1, NothingRuns
<1>3. NothingLost' /\ balance' = balance
  BY <1>1 DEF money, SerialInv, NothingLost
<1>a. ASSUME NEW next, job' = [job EXCEPT ![k] = next], FreshBatch(next, balance)
      PROVE  SerialInv'
  BY <1>a, <1>1, <1>2, <1>3, TaskMoves
<1>4. CASE ManageStart(k)
  <2>1. job' = [job EXCEPT ![k] = [IdleJob EXCEPT !.stage = "toRenew"]]
    BY <1>4, <1>2 DEF ManageStart
  <2> QED BY <2>1, <1>a, ThenFresh
<1>5. ASSUME NEW c \in Customers, CheckStart(k, c) PROVE SerialInv'
  <2> DEFINE check == [IdleJob EXCEPT !.scope = c]
             held == [check EXCEPT !.stage = "connecting", !.subs = {Copy(c, last[c])}]
  <2>1. FreshBatch(held, balance)
    BY DEF IdleJob, FreshBatch, Copy
  <2>2. ASSUME NEW stage \in {"toRenew", "toFinish"}
        PROVE  FreshBatch([check EXCEPT !.stage = stage], balance)
    BY DEF IdleJob, FreshBatch
  <2>3. CASE UNCHANGED job
    <3>1. OneAtATime' /\ RequestsFresh' /\ CopiesFresh'
      BY <2>3, <1>1, <1>3 DEF SerialInv, OneAtATime, RequestsFresh, CopiesFresh
    <3> QED BY <3>1, <1>3 DEF SerialInv
  <2>4. CASE job' = [job EXCEPT ![k] = held]
    <3> HIDE DEF held
    <3> QED BY <2>4, <2>1, <1>a
  <2>5. ASSUME NEW stage \in {"toRenew", "toFinish"},
               job' = [job EXCEPT ![k] = [check EXCEPT !.stage = stage]]
        PROVE  SerialInv'
    <3> HIDE DEF check
    <3> QED BY <2>2, <2>5, <1>a
  <2> QED BY <1>5, <2>3, <2>4, <2>5 DEF CheckStart
<1> QED BY <1>4, <1>5 DEF StartStep

LEMMA SerialInit == Init => SerialInv
<1> SUFFICES ASSUME Init PROVE SerialInv
  OBVIOUS
<1>1. OneAtATime /\ NothingLost
  BY DEF Init, OneAtATime, NothingLost
<1>2. RequestsFresh /\ CopiesFresh
  BY FreeIsNoRequest, IdleFresh DEF Init, RequestsFresh, CopiesFresh
<1> QED BY <1>1, <1>2 DEF SerialInv

LEMMA SerialNext ==
  ASSUME Serial
  PROVE  TypeOK /\ SerialInv /\ [Next]_vars => SerialInv'
<1> SUFFICES ASSUME TypeOK, SerialInv, [Next]_vars PROVE SerialInv'
  OBVIOUS
<1>1. ASSUME NEW w \in Web, BeginStep(w) PROVE SerialInv'
  BY <1>1, SerialBegin
<1>2. ASSUME NEW w \in Web, CommitStep(w) \/ WebCrash(w) PROVE SerialInv'
  BY <1>2, SerialEnd
<1>3. ASSUME NEW k \in Celery, JobStep(k) PROVE SerialInv'
  BY <1>3, SerialTask
<1>4. ASSUME NEW k \in Celery, StartStep(k) PROVE SerialInv'
  BY <1>4, SerialStart
<1>5. ASSUME NEW k \in Celery, JobCrash(k) PROVE SerialInv'
  <2>1. job[k] # IdleJob /\ job' = [job EXCEPT ![k] = IdleJob] /\ UNCHANGED <<web, money>>
    BY <1>5 DEF JobCrash
  <2>2. (\A w \in Web : web[w] = Free) /\ (\A l \in Celery \ {k} : job[l] = IdleJob)
    BY <2>1 DEF SerialInv, OneAtATime
  <2>3. NothingLost'
    BY <2>1 DEF money, SerialInv, NothingLost
  <2> QED BY <2>1, <2>2, <2>3, IdleFresh, TaskMoves
<1>6. ASSUME ProfileStep \/ Tick \/ UNCHANGED vars PROVE SerialInv'
  <2>1. UNCHANGED <<balance, overtaken, web, job>>
    BY <1>6 DEF ProfileStep, SetAuto, UpdateProfile, MakePeriodicPay, DeletePeriodicPay, Tick,
       vars, money
  <2>2. OneAtATime' /\ RequestsFresh' /\ CopiesFresh' /\ NothingLost'
    BY <2>1 DEF SerialInv, OneAtATime, RequestsFresh, CopiesFresh, NothingLost
  <2> QED BY <2>2 DEF SerialInv
<1> QED BY <1>1, <1>2, <1>3, <1>4, <1>5, <1>6 DEF Next

(* If requests and tasks run one at a time and no customer has two periodic
   pays, no write ever erases money: the batches of the periodic task, which
   are read in one query and written one by one, are safe by themselves. *)
THEOREM SerialLosesNothing ==
  ASSUME Serial
  PROVE  Spec => []NothingLost
<1>1. TypeOK /\ SerialInv /\ [Next]_vars => SerialInv'
  BY SerialNext
<1>2. SerialInv => NothingLost
  BY DEF SerialInv
<1> QED
  BY <1>1, <1>2, SerialInit, TypeCorrect, PTL DEF Spec

-----------------------------------------------------------------------------
(* Rows of customer_service belong to one customer each.  What keeps it so is
   that a request or task which is about to connect or to stop a service still
   sees the customer as its copy does. *)

RowsOwned ==
  /\ NoOrphan
  /\ \A c, d \in Customers : current[c] = current[d] /\ current[c] # NoRow => c = d
StartsPast == \A r \in RowIds : rows[r].start <= clock
(* What a request q and a task j will do fits the tables cur and tbl. *)
FitRequest(q, cur, tbl) ==
  /\ q.op = "pick" => cur[q.c] = NoRow
  /\ q.op = "stop" => /\ q.row = cur[q.c] /\ q.row # NoRow
                      /\ q.amount \in 0..Cost[tbl[q.row].srv]
FitBatch(j, cur, tbl, now) ==
  /\ j.now <= now
  /\ j.stage = "connecting" => \A x \in j.subs : cur[x.c] = NoRow
  /\ j.stage = "renewing" => \A x \in j.subs :
       /\ x.row = cur[x.c] /\ x.row # NoRow
       /\ x.srv = tbl[x.row].srv /\ x.start <= now
RequestsFit == \A w \in Web : FitRequest(web[w], current, rows)
BatchesFit  == \A k \in Celery : FitBatch(job[k], current, rows, clock)
OwnInv == RowsOwned /\ StartsPast /\ RequestsFit /\ BatchesFit

(* A refund is at most the price. *)
LEMMA RefundBound ==
  ASSUME NEW s \in Services, NEW start \in Nat, NEW t \in Nat, start <= t
  PROVE  CostToReturn(s, start, t) \in 0..Cost[s]
<1>1. Cost[s] \in Nat /\ t - start \in Nat
  BY ServiceAssumption
<1>2. (t - start) * Cost[s] \in Nat
  BY <1>1
<1>3. ((t - start) * Cost[s]) \div Month \in Nat
  <2> DEFINE n == (t - start) * Cost[s]
  <2>1. n \in Nat
    BY <1>2
  <2> HIDE DEF n
  <2>2. n \div Month \in Nat
    BY <2>1, MonthAssumption
  <2> QED BY <2>2 DEF n
<1>4. CalcCost(s, start, t) \in Nat
  BY <1>1, <1>3 DEF CalcCost
<1> QED BY <1>1, <1>4 DEF CostToReturn

LEMMA SameOwned ==
  ASSUME TypeOK, RowsOwned, StartsPast, UNCHANGED <<current, rows>>,
         clock' \in Nat, clock <= clock'
  PROVE  RowsOwned' /\ StartsPast'
<1>1. RowsOwned'
  BY DEF RowsOwned, NoOrphan, Stored
<1>2. clock \in Nat /\ \A r \in RowIds : rows[r].start \in Nat
  BY BoundAssumption DEF TypeOK, ServiceTypes, EnvTypes
<1> QED BY <1>1, <1>2 DEF StartsPast

(* A new row belongs to a customer who had none. *)
LEMMA ConnectOwned ==
  ASSUME TypeOK, RowsOwned, StartsPast, NEW x, x.c \in Customers, current[x.c] = NoRow,
         NEW s, NEW setLast, NEW deadline, Connect(x, s, setLast, deadline), clock' = clock
  PROVE  /\ RowsOwned' /\ StartsPast'
         /\ \A e \in Customers \ {x.c} : current'[e] = current[e]
<1> DEFINE c == x.c
           r == [srv |-> s, start |-> clock,
                 deadline |-> IF deadline = NoDeadline THEN CalcDeadline(s, clock) ELSE deadline]
<1>1. NewKey \in RowIds /\ rows[NewKey] = NoRecord /\ NewKey # NoRow
  BY FreshKeyType, RowIdsAreKeys DEF Connect
<1>2. /\ rows' = [rows EXCEPT ![NewKey] = r]
      /\ current' = [current EXCEPT ![c] = NewKey]
      /\ r.start = clock /\ c \in Customers /\ current[c] = NoRow
  BY DEF Connect
<1>3. ServiceTypes /\ References /\ clock \in Nat
  BY BoundAssumption DEF TypeOK, EnvTypes
<1> HIDE DEF c, r
<1>4. /\ current'[c] = NewKey
      /\ \A e \in Customers \ {c} : current'[e] = current[e] /\ current[e] # NewKey
  BY <1>1, <1>2, <1>3, ServiceAssumption DEF ServiceTypes, References, NoRecord
<1>5. \A i \in RowIds \ {NewKey} : rows'[i] = rows[i]
  BY <1>2, <1>3 DEF ServiceTypes
<1>6. NoOrphan'
  <2> SUFFICES ASSUME NEW i \in RowIds, i # NoRow, rows'[i] # NoRecord
               PROVE  \E e \in Customers : current'[e] = i
    BY DEF NoOrphan, Stored
  <2>1. CASE i = NewKey
    BY <2>1, <1>2, <1>4
  <2>2. CASE i # NewKey
    <3>1. PICK e \in Customers : current[e] = i
      BY <2>2, <1>5 DEF RowsOwned, NoOrphan, Stored
    <3>2. e # c
      BY <3>1, <1>2
    <3> QED BY <3>1, <3>2, <1>4
  <2> QED BY <2>1, <2>2
<1>7. RowsOwned'
  BY <1>2, <1>4, <1>6 DEF RowsOwned
<1>8. StartsPast'
  <2> SUFFICES ASSUME NEW i \in RowIds PROVE rows'[i].start <= clock
    BY DEF StartsPast
  <2>1. CASE i = NewKey
    BY <2>1, <1>2, <1>3 DEF ServiceTypes
  <2>2. CASE i # NewKey
    BY <2>2, <1>5 DEF StartsPast
  <2> QED BY <2>1, <2>2
<1> QED BY <1>4, <1>7, <1>8 DEF c

LEMMA DropOwned ==
  ASSUME TypeOK, RowsOwned, StartsPast, NEW R, Drop(R), clock' = clock
  PROVE  /\ RowsOwned' /\ StartsPast'
         /\ \A e \in Customers : current'[e] = IF current[e] \in R THEN NoRow ELSE current[e]
         /\ \A r \in RowIds \ R : rows'[r] = rows[r]
<1>1. /\ \A e \in Customers : current'[e] = IF current[e] \in R THEN NoRow ELSE current[e]
      /\ \A r \in RowIds : rows'[r] = IF r \in R THEN NoRecord ELSE rows[r]
  BY DEF Drop
<1>2. NoOrphan'
  BY <1>1 DEF RowsOwned, NoOrphan, Stored
<1>3. RowsOwned'
  BY <1>1, <1>2 DEF RowsOwned
<1>4. clock \in Nat /\ NoRecord.start = 0
  BY BoundAssumption DEF TypeOK, EnvTypes, NoRecord
<1>5. StartsPast'
  BY <1>1, <1>4 DEF StartsPast
<1> QED BY <1>1, <1>3, <1>5

LEMMA RenewOwned ==
  ASSUME TypeOK, RowsOwned, StartsPast, NEW i \in RowIds, Stored(i), NEW t \in Nat, t <= clock,
         NEW d, rows' = [rows EXCEPT ![i].start = t, ![i].deadline = d],
         UNCHANGED <<current, clock>>
  PROVE  RowsOwned' /\ StartsPast' /\ \A r \in RowIds : rows'[r].srv = rows[r].srv
<1>1. ServiceTypes /\ clock \in Nat
  BY BoundAssumption DEF TypeOK, EnvTypes
<1>2. /\ \A r \in RowIds \ {i} : rows'[r] = rows[r]
      /\ rows'[i].srv = rows[i].srv /\ rows'[i].start = t
  BY <1>1 DEF ServiceTypes
<1>3. RowsOwned'
  BY <1>2 DEF RowsOwned, NoOrphan, Stored
<1>4. StartsPast'
  BY <1>2 DEF StartsPast
<1> QED BY <1>2, <1>3, <1>4

LEMMA IdleFits ==
  ASSUME NEW cur, NEW tbl, NEW now \in Nat
  PROVE  FitBatch(IdleJob, cur, tbl, now)
BY DEF IdleJob, FitBatch

LEMMA ThenFits ==
  ASSUME NEW j, NEW cur, NEW tbl, NEW now \in Nat,
         NEW stage \in {"toRenew", "toFinish", "toConnect", "toCharge"}
  PROVE  /\ FitBatch(Then(j, stage), cur, tbl, now)
         /\ FitBatch([IdleJob EXCEPT !.stage = stage], cur, tbl, now)
BY DEF Then, IdleJob, FitBatch

LEMMA FreeFits ==
  ASSUME NEW q, q.op \notin {"pick", "stop"}, NEW cur, NEW tbl
  PROVE  FitRequest(q, cur, tbl)
BY DEF FitRequest

LEMMA ClockIsNat ==
  ASSUME TypeOK, [Next]_vars
  PROVE  clock \in Nat /\ clock' \in Nat
<1>1. TypeOK'
  BY TypeNext
<1> QED BY <1>1, BoundAssumption DEF TypeOK, EnvTypes

(* The only running process is web thread w, which now holds q. *)
LEMMA WebFits ==
  ASSUME TypeOK, NEW w \in Web, NEW q, web' = [web EXCEPT ![w] = q], UNCHANGED job,
         \A v \in Web \ {w} : web[v] = Free,
         \A k \in Celery : job[k] = IdleJob,
         clock' \in Nat, FitRequest(q, current', rows'), RowsOwned', StartsPast'
  PROVE  OwnInv'
<1>1. \A v \in Web : IF v = w THEN web'[v] = q ELSE web'[v] = Free
  BY DEF TypeOK, WebTypes
<1>2. FitRequest(Free, current', rows')
  BY FreeIsNoRequest, FreeFits
<1>3. RequestsFit'
  BY <1>1, <1>2 DEF RequestsFit
<1>4. FitBatch(IdleJob, current', rows', clock')
  BY IdleFits
<1>5. BatchesFit'
  BY <1>4 DEF BatchesFit
<1> QED BY <1>3, <1>5 DEF OwnInv

(* The only running process is the worker k, whose task is now j. *)
LEMMA TaskFits ==
  ASSUME TypeOK, NEW k \in Celery, NEW j, job' = [job EXCEPT ![k] = j], UNCHANGED web,
         \A l \in Celery \ {k} : job[l] = IdleJob,
         \A w \in Web : web[w] = Free,
         clock' \in Nat, FitBatch(j, current', rows', clock'), RowsOwned', StartsPast'
  PROVE  OwnInv'
<1>1. \A l \in Celery : IF l = k THEN job'[l] = j ELSE job'[l] = IdleJob
  BY DEF TypeOK, JobTypes
<1>2. FitRequest(Free, current', rows')
  BY FreeIsNoRequest, FreeFits
<1>3. RequestsFit'
  BY <1>2 DEF RequestsFit
<1>4. FitBatch(IdleJob, current', rows', clock')
  BY IdleFits
<1>5. BatchesFit'
  BY <1>1, <1>4 DEF BatchesFit
<1> QED BY <1>3, <1>5 DEF OwnInv

-----------------------------------------------------------------------------
(* What the steps are in AccountBook. *)

Booked == [c \in Customers |-> ledger[c] - unsaved[c]]
Plan   == [c \in Customers |-> PlanOf(c)]

(* Neither money nor services. *)
LEMMA BookStutters ==
  ASSUME UNCHANGED <<balance, current, rows>>,
         \A c \in Customers : ledger'[c] - unsaved'[c] = ledger[c] - unsaved[c]
  PROVE  UNCHANGED Book!book
<1>1. Booked' = Booked
  BY DEF Booked
<1>2. Plan' = Plan
  BY DEF Plan, PlanOf
<1> QED BY <1>1, <1>2 DEF Book!book, Booked, Plan

LEMMA MoveIs ==
  ASSUME NEW c, NEW d, balance' = [balance EXCEPT ![c] = @ + d], Booked' = [Booked EXCEPT ![c] = @ + d]
  PROVE  Book!Move(c, d)
BY DEF Book!Move, Booked

(* A write from an up-to-date copy moves the balance. *)
LEMMA SaveIs ==
  ASSUME MoneyTypes, NEW x, x.c \in Customers, x.seen = balance[x.c], NEW d \in Int, Save(x, d)
  PROVE  balance' = [balance EXCEPT ![x.c] = @ + d]
<1> DEFINE c == x.c
           n == x.seen + d
<1>1. balance' = [balance EXCEPT ![c] = n] /\ c \in Customers /\ n = balance[c] + d
  BY DEF Save
<1>2. balance' = [balance EXCEPT ![c] = @ + d]
  <2> HIDE DEF c, n
  <2> QED BY <1>1
<1> QED BY <1>2

(* A balance and its log line move by the same amount. *)
LEMMA PostMoves ==
  ASSUME MoneyTypes, NEW x, x.c \in Customers, x.seen = balance[x.c], NEW d \in Int, Post(x, d)
  PROVE  Book!Move(x.c, d)
<1> DEFINE c == x.c
<1>1. balance' = [balance EXCEPT ![c] = @ + d] /\ c \in Customers
  BY SaveIs DEF Post
<1>2. ledger' = [ledger EXCEPT ![c] = @ + d] /\ unsaved' = unsaved
  BY DEF Post
<1>3. Booked' = [Booked EXCEPT ![c] = @ + d]
  <2> HIDE DEF c
  <2>1. \A e \in Customers : ledger'[e] - unsaved'[e] =
          IF e = c THEN (ledger[e] - unsaved[e]) + d ELSE ledger[e] - unsaved[e]
    BY <1>1, <1>2 DEF MoneyTypes
  <2> QED BY <2>1, <1>1 DEF Booked
<1>4. Book!Move(c, d)
  <2> HIDE DEF c
  <2> QED BY <1>1, <1>3, MoveIs
<1> QED BY <1>4

(* An amount that was logged before. *)
LEMMA SavedMoves ==
  ASSUME MoneyTypes, NEW x, x.c \in Customers, x.seen = balance[x.c], NEW d \in Int, Save(x, d),
         ledger' = ledger, unsaved' = [unsaved EXCEPT ![x.c] = @ - d]
  PROVE  Book!Move(x.c, d)
<1> DEFINE c == x.c
<1>1. balance' = [balance EXCEPT ![c] = @ + d] /\ c \in Customers
  BY SaveIs
<1>2. ledger' = ledger /\ unsaved' = [unsaved EXCEPT ![c] = @ - d]
  OBVIOUS
<1>3. Booked' = [Booked EXCEPT ![c] = @ + d]
  <2> HIDE DEF c
  <2>1. \A e \in Customers : ledger'[e] - unsaved'[e] =
          IF e = c THEN (ledger[e] - unsaved[e]) + d ELSE ledger[e] - unsaved[e]
    BY <1>1, <1>2 DEF MoneyTypes
  <2> QED BY <2>1, <1>1 DEF Booked
<1>4. Book!Move(c, d)
  <2> HIDE DEF c
  <2> QED BY <1>1, <1>3, MoveIs
<1> QED BY <1>4

LEMMA MoveIsEntry ==
  ASSUME MoneyTypes, NEW c \in Customers, NEW d \in Int, Book!Move(c, d), Plan' = Plan
  PROVE  Book!Next
<1>1. balance'[c] - balance[c] = d
  BY DEF Book!Move, MoneyTypes
<1>2. Book!Entry(c)
  BY <1>1 DEF Book!Entry, Book!Move, Plan
<1> QED BY <1>2 DEF Book!Next

(* A line of the log that connects or ends no service. *)
LEMMA EntryIs ==
  ASSUME MoneyTypes, NEW x, x.c \in Customers, x.seen = balance[x.c], NEW d \in Int,
         \/ Post(x, d)
         \/ /\ Save(x, d) /\ ledger' = ledger
            /\ unsaved' = [unsaved EXCEPT ![x.c] = @ - d],
         Plan' = Plan
  PROVE  Book!Next
BY PostMoves, SavedMoves, MoveIsEntry

LEMMA ConnectIs ==
  ASSUME TypeOK, NEW x, x.c \in Customers, x.seen = balance[x.c], current[x.c] = NoRow,
         NEW s \in Services, NEW setLast, NEW deadline, Connect(x, s, setLast, deadline)
  PROVE  Book!Next
<1> DEFINE c == x.c
<1>1. PlanOf(c)' = s /\ \A e \in Customers \ {c} : PlanOf(e)' = PlanOf(e)
  BY ConnectPlans
<1>2. -Cost[s] \in Int /\ Post(x, -Cost[s]) /\ MoneyTypes
  BY ServiceAssumption DEF Connect, TypeOK
<1>3. Book!Move(c, -Cost[s])
  BY <1>2, PostMoves
<1>4. PlanOf(c) = NoService /\ c \in Customers
  BY DEF PlanOf
<1> HIDE DEF c
<1>5. Plan' = [Plan EXCEPT ![c] = s]
  BY <1>1, <1>4 DEF Plan
<1>6. Book!Connect(c, s)
  BY <1>3, <1>4, <1>5 DEF Book!Connect, Plan
<1> QED BY <1>4, <1>6 DEF Book!Next

(* A stop through the row the customer still has ends his service only. *)
LEMMA StopIs ==
  ASSUME TypeOK, RowsOwned, NEW x, x.c \in Customers, x.seen = balance[x.c],
         x.row = current[x.c], x.row # NoRow,
         NEW refund \in Nat, refund <= Cost[rows[x.row].srv], Stop(x, refund)
  PROVE  Book!Next
<1> DEFINE c == x.c
           r == x.row
<1>1. Drop({r}) /\ c \in Customers /\ r = current[c] /\ r # NoRow
  BY DEF Stop
<1>2. MoneyTypes /\ ServiceTypes /\ References
  BY DEF TypeOK
<1>3. Book!Move(c, refund)
  <2>1. CASE refund > 0
    BY <2>1, <1>2, PostMoves DEF Stop
  <2>2. CASE ~(refund > 0)
    <3>1. refund = 0 /\ balance' = balance /\ ledger' = ledger /\ unsaved' = unsaved
      BY <2>2 DEF Stop
    <3> HIDE DEF c
    <3>2. balance' = [balance EXCEPT ![c] = @ + refund]
      BY <3>1, <1>1, <1>2 DEF MoneyTypes
    <3>3. Booked' = [Booked EXCEPT ![c] = @ + refund]
      BY <3>1, <1>1, <1>2 DEF MoneyTypes, Booked
    <3> QED BY <3>2, <3>3, MoveIs
  <2> QED BY <2>1, <2>2
<1> HIDE DEF c, r
<1>4. /\ \A e \in Customers : current'[e] = IF current[e] \in {r} THEN NoRow ELSE current[e]
      /\ \A i \in RowIds : rows'[i] = IF i \in {r} THEN NoRecord ELSE rows[i]
  BY <1>1 DEF Drop
<1>5. PlanOf(c)' = NoService /\ PlanOf(c) = rows[r].srv
  BY <1>1, <1>4 DEF PlanOf
<1>6. \A e \in Customers \ {c} : PlanOf(e)' = PlanOf(e)
  <2> SUFFICES ASSUME NEW e \in Customers \ {c} PROVE PlanOf(e)' = PlanOf(e)
    OBVIOUS
  <2>1. current[e] # r
    BY <1>1 DEF RowsOwned
  <2>2. current'[e] = current[e] /\ current[e] \in RowIds \cup {NoRow}
    BY <2>1, <1>2, <1>4 DEF ServiceTypes
  <2> QED BY <2>1, <2>2, <1>4 DEF PlanOf
<1>7. Plan' = [Plan EXCEPT ![c] = NoService]
  BY <1>1, <1>5, <1>6 DEF Plan
<1>8. Plan[c] # NoService /\ refund \in 0..Cost[Plan[c]]
  <2>1. Plan[c] = rows[r].srv /\ rows[r].srv \in Services
    BY <1>1, <1>2, <1>5 DEF Plan, References
  <2>2. refund \in Nat /\ refund <= Cost[rows[r].srv] /\ Cost[rows[r].srv] \in Nat
    BY <2>1, ServiceAssumption DEF r
  <2> QED BY <2>1, <2>2, ServiceAssumption
<1>9. Book!End(c)
  BY <1>3, <1>7, <1>8 DEF Book!End, Plan
<1> QED BY <1>1, <1>9 DEF Book!Next

(* A delete of rows ends the services of the customers who had them. *)
LEMMA DropIs ==
  ASSUME TypeOK, NEW R, Drop(R), UNCHANGED money
  PROVE  Book!Next
<1> DEFINE C == {c \in Customers : current[c] \in R}
<1>1. /\ \A e \in Customers : current'[e] = IF current[e] \in R THEN NoRow ELSE current[e]
      /\ \A i \in RowIds : rows'[i] = IF i \in R THEN NoRecord ELSE rows[i]
  BY DEF Drop
<1>2. ServiceTypes
  BY DEF TypeOK
<1>3. \A c \in Customers : PlanOf(c)' = IF c \in C THEN NoService ELSE PlanOf(c)
  BY <1>1, <1>2 DEF PlanOf, ServiceTypes
<1>4. Plan' = [c \in Customers |-> IF c \in C THEN NoService ELSE Plan[c]]
  BY <1>3 DEF Plan
<1>5. balance' = balance /\ Booked' = Booked
  BY DEF money, Booked
<1>6. Book!Expire(C)
  BY <1>4, <1>5 DEF Book!Expire, Plan, Booked
<1>7. C \in SUBSET Customers
  OBVIOUS
<1> QED BY <1>6, <1>7 DEF Book!Next

-----------------------------------------------------------------------------
(* Every action keeps what it needs and is a step of AccountBook or none. *)

BookStep == Book!Next \/ UNCHANGED Book!book

LEMMA OwnBegin ==
  ASSUME Serial, TypeOK, TypeOK', OwnInv, NEW w \in Web, BeginStep(w)
  PROVE  OwnInv' /\ BookStep
<1>a. /\ UNCHANGED <<balance, current, rows, job, clock>>
      /\ InFlight < MaxInFlight
  BY DEF BeginStep, BuyService, PickService, StopService, MakeShot, BuyDebt, AddBalance,
     ReceivePay, Begin, money, services
<1>b. (\A v \in Web : web[v] = Free) /\ (\A k \in Celery : job[k] = IdleJob)
  BY <1>a, NothingRuns
<1>c. clock \in Nat /\ clock' = clock
  BY <1>a, BoundAssumption DEF TypeOK, EnvTypes
<1>d. RowsOwned' /\ StartsPast'
  BY <1>a, <1>c, SameOwned DEF OwnInv
<1>e. ASSUME NEW q, web' = [web EXCEPT ![w] = q], FitRequest(q, current, rows) PROVE OwnInv'
  BY <1>a, <1>b, <1>c, <1>d, <1>e, WebFits
<1>f. ASSUME NEW h, NEW q, Begin(w, h, q), FitRequest(q, current, rows) PROVE OwnInv' /\ BookStep
  <2>1. UNCHANGED Book!book
    BY <1>f, <1>a, BookStutters DEF Begin, money
  <2> QED BY <2>1, <1>e, <1>f DEF Begin, BookStep
<1>1. ASSUME NEW c \in Customers, BuyService(w, c) PROVE OwnInv' /\ BookStep
  <2>1. PICK s \in Services \ AdminOnly :
          /\ current[c] = NoRow
          /\ Begin(w, "BuyService", [Request("pick", c, -Cost[s]) EXCEPT
               !.srv = s, !.setLast = (last[c] # s)])
    BY <1>1 DEF BuyService
  <2> DEFINE q == [Request("pick", c, -Cost[s]) EXCEPT !.srv = s, !.setLast = (last[c] # s)]
  <2>2. q.op = "pick" /\ q.c = c
    BY DEF Request
  <2>3. Begin(w, "BuyService", q)
    BY <2>1
  <2> HIDE DEF q
  <2> QED BY <2>1, <2>2, <2>3, <1>f DEF FitRequest
<1>2. ASSUME NEW c \in Customers, PickService(w, c) PROVE OwnInv' /\ BookStep
  <2>1. PICK s \in Services, d \in StaffDeadlines \cup {NoDeadline} :
          /\ current[c] = NoRow
          /\ Begin(w, "PickService", [Request("pick", c, -Cost[s]) EXCEPT
               !.srv = s, !.setLast = (last[c] # s), !.deadline = d, !.staff = TRUE])
    BY <1>2 DEF PickService
  <2> DEFINE q == [Request("pick", c, -Cost[s]) EXCEPT
                     !.srv = s, !.setLast = (last[c] # s), !.deadline = d, !.staff = TRUE]
  <2>2. q.op = "pick" /\ q.c = c
    BY DEF Request
  <2>3. Begin(w, "PickService", q)
    BY <2>1
  <2> HIDE DEF q
  <2> QED BY <2>1, <2>2, <2>3, <1>f DEF FitRequest
<1>3. ASSUME NEW c \in Customers, StopService(w, c) PROVE OwnInv' /\ BookStep
  <2> DEFINE r == rows[current[c]]
             n == CostToReturn(r.srv, r.start, clock)
             q == Request("stop", c, n)
  <2>1. current[c] # NoRow /\ Begin(w, "StopService", q)
    BY <1>3 DEF StopService
  <2>2. r.srv \in Services /\ r.start \in Nat /\ r.start <= clock
    BY <2>1 DEF TypeOK, ServiceTypes, References, OwnInv, StartsPast
  <2>3. n \in 0..Cost[r.srv]
    BY <2>2, <1>c, RefundBound
  <2>4. q.op = "stop" /\ q.c = c /\ q.row = current[c] /\ q.amount = n
    BY DEF Request
  <2>5. FitRequest(q, current, rows)
    <3> HIDE DEF q, n
    <3> QED BY <2>1, <2>3, <2>4 DEF FitRequest
  <2> HIDE DEF q, n, r
  <2> QED BY <2>1, <2>5, <1>f
<1>g. ASSUME NEW q, q.op \notin {"pick", "stop"} PROVE FitRequest(q, current, rows)
  BY <1>g, FreeFits
<1>4. ASSUME NEW c \in Customers, MakeShot(w, c) PROVE OwnInv' /\ BookStep
  <2>1. PICK n \in ShotCosts :
          Begin(w, "MakeShot", [Request("shot", c, -n) EXCEPT !.staff = TRUE])
    BY <1>4 DEF MakeShot
  <2> DEFINE q == [Request("shot", c, -n) EXCEPT !.staff = TRUE]
  <2>2. q.op = "shot" /\ Begin(w, "MakeShot", q)
    BY <2>1 DEF Request
  <2> HIDE DEF q
  <2> QED BY <2>2, <1>f, <1>g
<1>5. ASSUME NEW c \in Customers, BuyDebt(w, c) PROVE OwnInv' /\ BookStep
  <2>1. PICK d \in Debts :
          Begin(w, "BuyDebt", [Request("debt", c, -DebtCost[d]) EXCEPT !.ref = d])
    BY <1>5 DEF BuyDebt
  <2> DEFINE q == [Request("debt", c, -DebtCost[d]) EXCEPT !.ref = d]
  <2>2. q.op = "debt" /\ Begin(w, "BuyDebt", q)
    BY <2>1 DEF Request
  <2> HIDE DEF q
  <2> QED BY <2>2, <1>f, <1>g
<1>6. ASSUME NEW c \in Customers, AddBalance(w, c) PROVE OwnInv' /\ BookStep
  <2>1. PICK n \in TopUps :
          /\ web' = [web EXCEPT ![w] = [Request("topup", c, n) EXCEPT !.staff = (n < 0)]]
          /\ ledger' = [ledger EXCEPT ![c] = @ + n]
          /\ unsaved' = [unsaved EXCEPT ![c] = @ + n]
    BY <1>6 DEF AddBalance
  <2> DEFINE q == [Request("topup", c, n) EXCEPT !.staff = (n < 0)]
  <2>2. q.op = "topup" /\ web' = [web EXCEPT ![w] = q]
    BY <2>1 DEF Request
  <2>3. \A e \in Customers : ledger'[e] - unsaved'[e] = ledger[e] - unsaved[e]
    BY <2>1, AmountAssumption DEF TypeOK, MoneyTypes
  <2>4. UNCHANGED Book!book
    BY <2>3, <1>a, BookStutters
  <2> HIDE DEF q
  <2> QED BY <2>2, <2>4, <1>e, <1>g DEF BookStep
<1>7. ASSUME NEW id \in PayIds, ReceivePay(w, id) PROVE OwnInv' /\ BookStep
  <2> DEFINE q == [Request("pay", PayFor[id], PayAmount[id]) EXCEPT !.ref = id]
  <2>1. Begin(w, "ReceivePay", q)
    BY <1>7 DEF ReceivePay
  <2>2. q.op = "pay"
    BY DEF Request
  <2> HIDE DEF q
  <2> QED BY <2>1, <2>2, <1>f, <1>g
<1> QED
  BY <1>1, <1>2, <1>3, <1>4, <1>5, <1>6, <1>7 DEF BeginStep

LEMMA OwnEnd ==
  ASSUME TypeOK, TypeOK', SerialInv, OwnInv, NEW w \in Web, CommitStep(w) \/ WebCrash(w)
  PROVE  OwnInv' /\ BookStep
<1> DEFINE q == web[w]
<1>1. q # Free
  BY FreeIsNoRequest DEF CommitStep, CommitPick, CommitStop, CommitShot, CommitDebt,
     SaveBalance, CommitPay, RejectPay, NotifyPay, WebCrash
<1>2. q \in RequestType /\ q.c \in Customers /\ q.seen \in Int /\ q.amount \in Int
  BY <1>1 DEF TypeOK, WebTypes, RequestType
<1>3. (\A v \in Web \ {w} : web[v] = Free) /\ (\A k \in Celery : job[k] = IdleJob)
  BY <1>1 DEF SerialInv, OneAtATime
<1>4. q.op \notin {"free", "notify"} => q.seen = balance[q.c]
  BY DEF SerialInv, RequestsFresh
<1>5. FitRequest(q, current, rows) /\ RowsOwned /\ StartsPast /\ MoneyTypes
  BY DEF OwnInv, RequestsFit, TypeOK
<1>6. clock \in Nat /\ clock' = clock /\ UNCHANGED job
  BY BoundAssumption DEF CommitStep, CommitPick, CommitStop, CommitShot, CommitDebt,
     SaveBalance, CommitPay, RejectPay, NotifyPay, WebCrash, TypeOK, EnvTypes
<1>a. ASSUME RowsOwned', StartsPast' PROVE OwnInv'
  <2>1. ASSUME NEW r, web' = [web EXCEPT ![w] = r], r.op \notin {"pick", "stop"} PROVE OwnInv'
    <3>1. FitRequest(r, current', rows')
      BY <2>1, FreeFits
    <3> QED BY <3>1, <2>1, <1>a, <1>3, <1>6, WebFits
  <2>2. CASE CommitPay(w)
    <3> DEFINE r == [q EXCEPT !.op = "notify"]
    <3>1. r.op = "notify" /\ web' = [web EXCEPT ![w] = r]
      BY <2>2, <1>2 DEF CommitPay, RequestType
    <3> HIDE DEF r
    <3> QED BY <3>1, <2>1
  <2>3. CASE ~CommitPay(w)
    <3>1. web' = [web EXCEPT ![w] = Free] /\ Free.op = "free"
      BY <2>3, FreeIsNoRequest DEF CommitStep, CommitPick, CommitStop, CommitShot, CommitDebt,
         SaveBalance, RejectPay, NotifyPay, WebCrash, End
    <3> QED BY <3>1, <2>1
  <2> QED BY <2>2, <2>3
<1>b. ASSUME UNCHANGED <<current, rows>> PROVE OwnInv' /\ Plan' = Plan
  <2>1. RowsOwned' /\ StartsPast'
    BY <1>b, <1>5, <1>6, SameOwned
  <2> QED BY <2>1, <1>a, <1>b DEF Plan, PlanOf
<1>7. CASE CommitPick(w)
  <2>1. q.op = "pick" /\ Connect(q, q.srv, q.setLast, q.deadline)
    BY <1>7 DEF CommitPick
  <2>2. q.srv \in Services /\ current[q.c] = NoRow
    BY <2>1, <1>5 DEF TypeOK, WebTypes, FitRequest
  <2>3. RowsOwned' /\ StartsPast'
    <3> HIDE DEF q
    <3> QED BY <2>1, <2>2, <1>2, <1>5, <1>6, ConnectOwned
  <2>4. Book!Next
    <3> HIDE DEF q
    <3> QED BY <2>1, <2>2, <1>2, <1>4, ConnectIs
  <2> QED BY <2>3, <2>4, <1>a DEF BookStep
<1>8. CASE CommitStop(w)
  <2>1. q.op = "stop" /\ Stop(q, q.amount) /\ Drop({q.row})
    BY <1>8 DEF CommitStop, Stop
  <2>2. /\ q.row = current[q.c] /\ q.row # NoRow /\ rows[q.row].srv \in Services
        /\ q.amount \in 0..Cost[rows[q.row].srv]
    BY <2>1, <1>2, <1>5 DEF FitRequest, TypeOK, References
  <2>3. q.amount \in Nat /\ q.amount <= Cost[rows[q.row].srv]
    BY <2>2, ServiceAssumption
  <2>4. RowsOwned' /\ StartsPast'
    <3> HIDE DEF q
    <3> QED BY <2>1, <1>5, <1>6, DropOwned
  <2>5. Book!Next
    <3> HIDE DEF q
    <3> QED BY <2>1, <2>2, <2>3, <1>2, <1>4, <1>5, StopIs
  <2> QED BY <2>4, <2>5, <1>a DEF BookStep
<1>9. CASE CommitShot(w) \/ CommitDebt(w) \/ CommitPay(w)
  <2>1. q.op \notin {"free", "notify"} /\ Post(q, q.amount) /\ UNCHANGED <<current, rows>>
    BY <1>9 DEF CommitShot, CommitDebt, CommitPay, services
  <2>2. Book!Next
    <3> HIDE DEF q
    <3> QED BY <2>1, <1>2, <1>4, <1>5, <1>b, EntryIs
  <2> QED BY <2>1, <2>2, <1>b DEF BookStep
<1>10. CASE SaveBalance(w)
  <2>1. /\ q.op \notin {"free", "notify"} /\ Save(q, q.amount) /\ ledger' = ledger
        /\ unsaved' = [unsaved EXCEPT ![q.c] = @ - q.amount] /\ UNCHANGED <<current, rows>>
    BY <1>10 DEF SaveBalance, services
  <2>2. Book!Next
    <3> HIDE DEF q
    <3> QED BY <2>1, <1>2, <1>4, <1>5, <1>b, EntryIs
  <2> QED BY <2>1, <2>2, <1>b DEF BookStep
<1>11. CASE RejectPay(w) \/ NotifyPay(w) \/ WebCrash(w)
  <2>1. UNCHANGED <<balance, ledger, unsaved, current, rows>>
    BY <1>11 DEF RejectPay, NotifyPay, WebCrash, money, services
  <2>2. UNCHANGED Book!book
    BY <2>1, BookStutters
  <2> QED BY <2>1, <2>2, <1>b DEF BookStep
<1> QED BY <1>7, <1>8, <1>9, <1>10, <1>11 DEF CommitStep

(* The rest of a loop fits the tables when what was written for x changes
   nothing the other copies are compared with. *)
LEMMA RestFits ==
  ASSUME NEW j \in JobType, NEW x \in j.subs, NEW stage \in {"toFinish", "toCharge"},
         NEW cur, NEW tbl, NEW now \in Nat, j.now <= now,
         j.stage \in {"connecting", "renewing"},
         j.stage = "connecting" => \A y \in j.subs \ {x} : cur[y.c] = NoRow,
         j.stage = "renewing" => \A y \in j.subs \ {x} :
           /\ y.row = cur[y.c] /\ y.row # NoRow
           /\ y.srv = tbl[y.row].srv /\ y.start <= now
  PROVE  FitBatch(Rest(j, x, stage), cur, tbl, now)
<1>1. CASE j.subs = {x}
  BY <1>1, ThenFits DEF Rest
<1>2. CASE j.subs # {x}
  <2> DEFINE r == [j EXCEPT !.subs = @ \ {x}]
  <2>1. r.stage = j.stage /\ r.now = j.now /\ r.subs = j.subs \ {x}
    BY DEF JobType
  <2>2. Rest(j, x, stage) = r
    BY <1>2 DEF Rest
  <2> HIDE DEF r
  <2> QED BY <2>1, <2>2 DEF FitBatch
<1> QED BY <1>1, <1>2

LEMMA OwnTask ==
  ASSUME Serial, TypeOK, TypeOK', SerialInv, OwnInv, NEW k \in Celery, JobStep(k)
  PROVE  OwnInv' /\ BookStep
<1> DEFINE j == job[k]
<1>a. /\ RowsOwned /\ StartsPast /\ FitBatch(j, current, rows, clock)
      /\ FreshBatch(j, balance) /\ MoneyTypes /\ ServiceTypes
  BY DEF OwnInv, BatchesFit, SerialInv, CopiesFresh, TypeOK
<1>b. /\ j \in JobType /\ j.now \in Nat
      /\ \A x \in j.subs : /\ x.c \in Customers /\ x.row \in RowIds \cup {NoRow}
                           /\ x.srv \in Services /\ x.start \in Nat
      /\ \A x \in j.due : x.c \in Customers /\ PPAmount[x.pay] \in Nat
  <2>1. j \in JobType
    BY HeldCopies
  <2> QED BY <2>1, HeldCopies DEF JobType
<1>c. clock \in Nat /\ clock' = clock /\ UNCHANGED web /\ j.stage # "idle"
  <2>1. clock \in Nat
    BY BoundAssumption DEF TypeOK, EnvTypes
  <2>2. clock' = clock /\ UNCHANGED web /\ j.stage # "idle"
    BY DEF JobStep, RenewQuery, Renew, RenewFails, RefuseRenewal, FinishQuery, FinishDelete,
       ConnectQuery, AutoConnect, SkipConnect, ChargeQuery, Charge, ChargeFails
  <2> QED BY <2>1, <2>2
<1>d. (\A w \in Web : web[w] = Free) /\ (\A l \in Celery \ {k} : job[l] = IdleJob)
  BY <1>c, TaskAlone
<1>e. ASSUME NEW next, job' = [job EXCEPT ![k] = next], RowsOwned', StartsPast',
             FitBatch(next, current', rows', clock)
      PROVE  OwnInv'
  BY <1>c, <1>d, <1>e, TaskFits
(* A query changes no table. *)
<1>f. ASSUME NEW next, job' = [job EXCEPT ![k] = next], FitBatch(next, current, rows, clock),
             UNCHANGED <<balance, ledger, unsaved, current, rows>>
      PROVE  OwnInv' /\ BookStep
  <2>1. RowsOwned' /\ StartsPast'
    BY <1>a, <1>c, <1>f, SameOwned
  <2>2. UNCHANGED Book!book
    BY <1>f, BookStutters
  <2> QED BY <2>1, <2>2, <1>e, <1>f DEF BookStep
<1>1. CASE RenewQuery(k)
  <2> DEFINE expired == {c \in InScope(k) : Owes(c) /\ auto[c]}
             copies == {Copy(c, rows[current[c]].srv) : c \in expired}
             held == [j EXCEPT !.stage = "renewing", !.now = clock, !.subs = copies]
  <2>1. /\ job' = [job EXCEPT ![k] = IF expired = {} THEN Then(j, "toFinish") ELSE held]
        /\ UNCHANGED <<balance, ledger, unsaved, current, rows>>
    BY <1>1 DEF RenewQuery, money, services
  <2>2. held.stage = "renewing" /\ held.now = clock /\ held.subs = copies
    BY <1>b DEF JobType
  <2>3. \A x \in copies : /\ x.row = current[x.c] /\ x.row # NoRow
                          /\ x.srv = rows[x.row].srv /\ x.start <= clock
    <3> SUFFICES ASSUME NEW c \in expired
                 PROVE  LET x == Copy(c, rows[current[c]].srv) IN
                        /\ x.row = current[x.c] /\ x.row # NoRow
                        /\ x.srv = rows[x.row].srv /\ x.start <= clock
      OBVIOUS
    <3>1. c \in Customers /\ current[c] # NoRow
      BY <1>b DEF InScope, JobType, Owes
    <3>2. rows[current[c]].start <= clock
      BY <3>1, <1>a DEF ServiceTypes, StartsPast
    <3> QED BY <3>1, <3>2 DEF Copy
  <2>4. FitBatch(held, current, rows, clock)
    <3> HIDE DEF held, copies
    <3> QED BY <2>2, <2>3, <1>c DEF FitBatch
  <2> HIDE DEF held, expired, j
  <2> QED BY <2>1, <2>4, <1>c, <1>f, ThenFits
<1>2. CASE Renew(k)
  <2>1. PICK x \in j.subs :
          /\ Stored(x.row) /\ Post(x, -Cost[x.srv])
          /\ rows' = [rows EXCEPT ![x.row].start = j.now,
                                  ![x.row].deadline = CalcDeadline(x.srv, clock)]
          /\ job' = [job EXCEPT ![k] = Rest(j, x, "toFinish")]
    BY <1>2 DEF Renew
  <2>2. j.stage = "renewing" /\ current' = current
    BY <1>2 DEF Renew
  <2>3. j.now <= clock /\ \A y \in j.subs : /\ y.row = current[y.c] /\ y.row \in RowIds
                                           /\ y.srv = rows[y.row].srv /\ y.start <= clock
    BY <2>2, <1>a, <1>b DEF FitBatch
  <2> DEFINE i == x.row
             t == j.now
             d == CalcDeadline(x.srv, clock)
  <2>4. RowsOwned' /\ StartsPast' /\ \A r \in RowIds : rows'[r].srv = rows[r].srv
    <3>1. rows' = [rows EXCEPT ![i].start = t, ![i].deadline = d]
      BY <2>1
    <3>2. i \in RowIds /\ Stored(i) /\ t \in Nat /\ t <= clock
      BY <2>1, <2>3, <1>b
    <3> HIDE DEF i, t, d
    <3> QED BY <3>1, <3>2, <2>2, <1>a, <1>c, RenewOwned
  <2>5. FitBatch(Rest(j, x, "toFinish"), current', rows', clock)
    <3>1. \A y \in j.subs : /\ y.row = current'[y.c] /\ y.row # NoRow
                            /\ y.srv = rows'[y.row].srv /\ y.start <= clock
      BY <2>2, <2>3, <2>4, RowIdsAreKeys
    <3> HIDE DEF j
    <3> QED BY <3>1, <2>2, <2>3, <1>b, <1>c, RestFits
  <2>6. Plan' = Plan
    <3>1. \A c \in Customers : PlanOf(c)' = PlanOf(c)
      BY <2>2, <2>4, <1>a DEF PlanOf, ServiceTypes
    <3> QED BY <3>1 DEF Plan
  <2>7. Book!Next
    <3>1. x.c \in Customers /\ x.seen = balance[x.c] /\ -Cost[x.srv] \in Int
      BY <1>a, <1>b, ServiceAssumption DEF FreshBatch
    <3> HIDE DEF j
    <3> QED BY <3>1, <2>1, <2>6, <1>a, EntryIs
  <2> HIDE DEF j
  <2> QED BY <2>1, <2>4, <2>5, <2>7, <1>e DEF BookStep
<1>3. CASE RenewFails(k) \/ ChargeFails(k)
  <2>1. job' = [job EXCEPT ![k] = IdleJob] /\ UNCHANGED <<balance, ledger, unsaved, current, rows>>
    BY <1>3 DEF RenewFails, ChargeFails, money, services
  <2> QED BY <2>1, <1>c, <1>f, IdleFits
<1>4. CASE RefuseRenewal(k)
  <2>1. PICK x \in j.subs : /\ Stop(x, CostToReturn(x.srv, x.start, clock))
                            /\ job' = [job EXCEPT ![k] = Rest(j, x, "toFinish")]
    BY <1>4 DEF RefuseRenewal
  <2>2. j.stage = "renewing" /\ Drop({x.row})
    BY <1>4, <2>1 DEF RefuseRenewal, Stop
  <2>3. j.now <= clock /\ \A y \in j.subs : /\ y.row = current[y.c] /\ y.row # NoRow
                                           /\ y.srv = rows[y.row].srv /\ y.start <= clock
    BY <2>2, <1>a DEF FitBatch
  <2>4. /\ RowsOwned' /\ StartsPast'
        /\ \A e \in Customers : current'[e] = IF current[e] \in {x.row} THEN NoRow ELSE current[e]
        /\ \A r \in RowIds \ {x.row} : rows'[r] = rows[r]
    <3> HIDE DEF j
    <3> QED BY <2>2, <1>a, <1>c, DropOwned
  <2>5. \A y \in j.subs \ {x} : y.row # x.row
    <3> SUFFICES ASSUME NEW y \in j.subs, y.row = x.row PROVE y = x
      OBVIOUS
    <3>1. y.c = x.c
      BY <2>3, <1>a, <1>b DEF RowsOwned
    <3> QED BY <3>1, <1>a DEF FreshBatch
  <2>6. FitBatch(Rest(j, x, "toFinish"), current', rows', clock)
    <3>1. \A y \in j.subs \ {x} : /\ y.row = current'[y.c] /\ y.row # NoRow
                                  /\ y.srv = rows'[y.row].srv /\ y.start <= clock
      BY <2>3, <2>4, <2>5, <1>b
    <3> HIDE DEF j
    <3> QED BY <3>1, <2>1, <2>2, <2>3, <1>b, <1>c, RestFits
  <2>7. Book!Next
    <3> DEFINE n == CostToReturn(x.srv, x.start, clock)
    <3>1. n \in 0..Cost[x.srv] /\ Cost[x.srv] \in Nat
      BY <2>1, <2>3, <1>b, <1>c, RefundBound, ServiceAssumption
    <3>2. /\ x.c \in Customers /\ x.seen = balance[x.c]
          /\ x.row = current[x.c] /\ x.row # NoRow /\ Cost[rows[x.row].srv] = Cost[x.srv]
      BY <2>3, <1>a, <1>b DEF FreshBatch
    <3>3. n \in Nat /\ n <= Cost[rows[x.row].srv] /\ Stop(x, n)
      BY <3>1, <3>2, <2>1
    <3> HIDE DEF j, n
    <3> QED BY <3>2, <3>3, <1>a, StopIs
  <2> HIDE DEF j
  <2> QED BY <2>1, <2>4, <2>6, <2>7, <1>e DEF BookStep
<1>5. CASE FinishQuery(k)
  <2> DEFINE held == [j EXCEPT !.stage = "finishing", !.now = clock]
  <2>1. /\ job' = [job EXCEPT ![k] = IF ExpiredRows(k, clock) = {} THEN Then(j, "toConnect") ELSE held]
        /\ UNCHANGED <<balance, ledger, unsaved, current, rows>>
    BY <1>5 DEF FinishQuery, money, services
  <2>2. held.stage = "finishing" /\ held.now = clock
    BY <1>b DEF JobType
  <2>3. FitBatch(held, current, rows, clock)
    <3> HIDE DEF held
    <3> QED BY <2>2, <1>c DEF FitBatch
  <2> HIDE DEF held, j
  <2> QED BY <2>1, <2>3, <1>c, <1>f, ThenFits
<1>6. CASE FinishDelete(k)
  <2>1. /\ Drop(ExpiredRows(k, j.now)) /\ job' = [job EXCEPT ![k] = Then(j, "toConnect")]
        /\ UNCHANGED money
    BY <1>6 DEF FinishDelete
  <2>2. RowsOwned' /\ StartsPast' /\ Book!Next
    BY <2>1, <1>a, <1>c, DropOwned, DropIs
  <2>3. FitBatch(Then(j, "toConnect"), current', rows', clock)
    BY <1>c, ThenFits
  <2> QED BY <2>1, <2>2, <2>3, <1>e DEF BookStep
<1>7. CASE ConnectQuery(k)
  <2> DEFINE waiting == {c \in Customers : CanConnect(c)}
             copies == {Copy(c, last[c]) : c \in waiting}
             held == [j EXCEPT !.stage = "connecting", !.subs = copies]
  <2>1. /\ job' = [job EXCEPT ![k] = IF waiting = {} THEN Then(j, "toCharge") ELSE held]
        /\ UNCHANGED <<balance, ledger, unsaved, current, rows>>
    BY <1>7 DEF ConnectQuery, money, services
  <2>2. held.stage = "connecting" /\ held.now = j.now /\ held.subs = copies
    BY <1>b DEF JobType
  <2>3. \A x \in copies : current[x.c] = NoRow
    BY DEF Copy, CanConnect
  <2>4. j.now <= clock
    BY <1>a DEF FitBatch
  <2>5. FitBatch(held, current, rows, clock)
    <3> HIDE DEF held, copies
    <3> QED BY <2>2, <2>3, <2>4 DEF FitBatch
  <2> HIDE DEF held, waiting, j
  <2> QED BY <2>1, <2>5, <1>c, <1>f, ThenFits
<1>8. CASE AutoConnect(k)
  <2>1. PICK x \in j.subs : /\ Connect(x, x.srv, FALSE, NoDeadline)
                            /\ job' = [job EXCEPT ![k] = Rest(j, x, "toCharge")]
    BY <1>8 DEF AutoConnect
  <2>2. j.stage = "connecting"
    BY <1>8 DEF AutoConnect
  <2>3. j.now <= clock /\ \A y \in j.subs : current[y.c] = NoRow
    BY <2>2, <1>a DEF FitBatch
  <2>4. /\ x.c \in Customers /\ x.seen = balance[x.c] /\ x.srv \in Services
        /\ \A y \in j.subs \ {x} : y.c \in Customers \ {x.c}
    BY <1>a, <1>b DEF FreshBatch
  <2>5. /\ RowsOwned' /\ StartsPast'
        /\ \A e \in Customers \ {x.c} : current'[e] = current[e]
    <3> HIDE DEF j
    <3> QED BY <2>1, <2>3, <2>4, <1>a, <1>c, ConnectOwned
  <2>6. FitBatch(Rest(j, x, "toCharge"), current', rows', clock)
    <3>1. \A y \in j.subs \ {x} : current'[y.c] = NoRow
      BY <2>3, <2>4, <2>5
    <3> HIDE DEF j
    <3> QED BY <3>1, <2>1, <2>2, <2>3, <1>b, <1>c, RestFits
  <2>7. Book!Next
    <3> HIDE DEF j
    <3> QED BY <2>1, <2>3, <2>4, <1>a, ConnectIs
  <2> HIDE DEF j
  <2> QED BY <2>1, <2>5, <2>6, <2>7, <1>e DEF BookStep
<1>9. CASE SkipConnect(k)
  <2>1. PICK x \in j.subs : job' = [job EXCEPT ![k] = Rest(j, x, "toCharge")]
    BY <1>9 DEF SkipConnect
  <2>2. j.stage = "connecting" /\ UNCHANGED <<balance, ledger, unsaved, current, rows>>
    BY <1>9 DEF SkipConnect, money, services
  <2>3. j.now <= clock /\ \A y \in j.subs : current[y.c] = NoRow
    BY <2>2, <1>a DEF FitBatch
  <2>4. FitBatch(Rest(j, x, "toCharge"), current, rows, clock)
    <3> HIDE DEF j
    <3> QED BY <2>1, <2>2, <2>3, <1>b, <1>c, RestFits
  <2> HIDE DEF j
  <2> QED BY <2>1, <2>2, <2>4, <1>f
<1>10. CASE ChargeQuery(k)
  <2> DEFINE due == {p \in PPays : nextPay[p] >= 0 /\ nextPay[p] < clock}
             held == [j EXCEPT !.stage = "charging", !.now = clock, !.due = {Due(p) : p \in due}]
  <2>1. /\ job' = [job EXCEPT ![k] = IF due = {} THEN IdleJob ELSE held]
        /\ UNCHANGED <<balance, ledger, unsaved, current, rows>>
    BY <1>10 DEF ChargeQuery, money, services
  <2>2. held.stage = "charging" /\ held.now = clock
    BY <1>b DEF JobType
  <2>3. FitBatch(held, current, rows, clock)
    <3> HIDE DEF held
    <3> QED BY <2>2, <1>c DEF FitBatch
  <2> HIDE DEF held, due, j
  <2> QED BY <2>1, <2>3, <1>c, <1>f, IdleFits
<1>11. CASE Charge(k)
  <2>1. PICK x \in j.due :
          /\ Post(x, -PPAmount[x.pay])
          /\ job' = [job EXCEPT ![k] = IF j.due = {x} THEN IdleJob
                                       ELSE [j EXCEPT !.due = @ \ {x}]]
    BY <1>11 DEF Charge
  <2>2. j.stage = "charging" /\ UNCHANGED <<current, rows>>
    BY <1>11 DEF Charge, services
  <2> DEFINE rest == [j EXCEPT !.due = @ \ {x}]
  <2>3. rest.stage = "charging" /\ rest.now = j.now /\ j.now <= clock
    BY <2>2, <1>a, <1>b DEF JobType, FitBatch
  <2>4. FitBatch(rest, current', rows', clock)
    <3> HIDE DEF rest
    <3> QED BY <2>3 DEF FitBatch
  <2>5. RowsOwned' /\ StartsPast'
    BY <2>2, <1>a, <1>c, SameOwned
  <2>6. OwnInv'
    <3>1. job' = [job EXCEPT ![k] = IF j.due = {x} THEN IdleJob ELSE rest]
      BY <2>1
    <3>2. FitBatch(IdleJob, current', rows', clock)
      BY <1>c, IdleFits
    <3> HIDE DEF rest, j
    <3> QED BY <3>1, <3>2, <2>4, <2>5, <1>e
  <2>7. Book!Next
    <3>1. x.c \in Customers /\ x.seen = balance[x.c] /\ -PPAmount[x.pay] \in Int
      BY <1>a, <1>b DEF FreshBatch
    <3>2. Plan' = Plan
      BY <2>2 DEF Plan, PlanOf
    <3> HIDE DEF j
    <3> QED BY <3>1, <3>2, <2>1, <1>a, EntryIs
  <2> QED BY <2>6, <2>7 DEF BookStep
<1> QED
  BY <1>1, <1>2, <1>3, <1>4, <1>5, <1>6, <1>7, <1>8, <1>9, <1>10, <1>11 DEF JobStep

LEMMA OwnStart ==
  ASSUME Serial, TypeOK, TypeOK', OwnInv, NEW k \in Celery, StartStep(k)
  PROVE  OwnInv' /\ BookStep
<1>1. /\ InFlight < MaxInFlight
      /\ UNCHANGED <<web, balance, ledger, unsaved, current, rows, clock>>
  BY DEF StartStep, ManageStart, CheckStart, money, services
<1>2. (\A w \in Web : web[w] = Free) /\ (\A l \in Celery : job[l] = IdleJob)
  BY <1>1, NothingRuns
<1>3. clock \in Nat /\ clock' = clock
  BY <1>1, BoundAssumption DEF TypeOK, EnvTypes
<1>4. RowsOwned' /\ StartsPast' /\ UNCHANGED Book!book
  BY <1>1, <1>3, SameOwned, BookStutters DEF OwnInv
<1>a. ASSUME NEW next, job' = [job EXCEPT ![k] = next], FitBatch(next, current, rows, clock)
      PROVE  OwnInv'
  BY <1>a, <1>1, <1>2, <1>3, <1>4, TaskFits
<1>5. CASE ManageStart(k)
  <2>1. job' = [job EXCEPT ![k] = [IdleJob EXCEPT !.stage = "toRenew"]]
    BY <1>5, <1>2 DEF ManageStart
  <2> QED BY <2>1, <1>3, <1>4, <1>a, ThenFits DEF BookStep
<1>6. ASSUME NEW c \in Customers, CheckStart(k, c) PROVE OwnInv' /\ BookStep
  <2> DEFINE check == [IdleJob EXCEPT !.scope = c]
             held == [check EXCEPT !.stage = "connecting", !.subs = {Copy(c, last[c])}]
  <2>1. CanConnect(c) => FitBatch(held, current, rows, clock)
    BY <1>3 DEF IdleJob, FitBatch, Copy, CanConnect
  <2>2. ASSUME NEW stage \in {"toRenew", "toFinish"}
        PROVE  FitBatch([check EXCEPT !.stage = stage], current, rows, clock)
    BY <1>3 DEF IdleJob, FitBatch
  <2>3. CASE UNCHANGED job
    <3>1. RequestsFit' /\ BatchesFit'
      BY <2>3, <1>1 DEF OwnInv, RequestsFit, BatchesFit
    <3> QED BY <3>1, <1>4 DEF OwnInv, BookStep
  <2>4. CASE CanConnect(c) /\ job' = [job EXCEPT ![k] = held]
    <3> HIDE DEF held
    <3> QED BY <2>4, <2>1, <1>4, <1>a DEF BookStep
  <2>5. ASSUME NEW stage \in {"toRenew", "toFinish"},
               job' = [job EXCEPT ![k] = [check EXCEPT !.stage = stage]]
        PROVE  OwnInv' /\ BookStep
    <3> HIDE DEF check
    <3> QED BY <2>2, <2>5, <1>4, <1>a DEF BookStep
  <2> QED BY <1>6, <2>3, <2>4, <2>5 DEF CheckStart
<1> QED BY <1>5, <1>6 DEF StartStep

LEMMA OwnInit == Init => OwnInv /\ Book!Init
<1> SUFFICES ASSUME Init PROVE OwnInv /\ Book!Init
  OBVIOUS
<1>1. TypeOK
  BY TypeInit
<1>2. RowsOwned /\ StartsPast
  BY DEF Init, RowsOwned, NoOrphan, Stored, StartsPast, NoRecord
<1>3. RequestsFit
  BY FreeIsNoRequest, FreeFits DEF Init, RequestsFit
<1>4. BatchesFit
  BY IdleFits DEF Init, BatchesFit
<1>5. Booked = balance
  BY <1>1 DEF Init, Booked, TypeOK, MoneyTypes
<1>6. Plan = [c \in Customers |-> NoService]
  BY DEF Init, Plan, PlanOf
<1>7. Book!Init
  BY <1>1, <1>5, <1>6 DEF Book!Init, Booked, Plan, TypeOK, MoneyTypes
<1> QED BY <1>2, <1>3, <1>4, <1>7 DEF OwnInv

LEMMA OwnNext ==
  ASSUME Serial
  PROVE  TypeOK /\ SerialInv /\ OwnInv /\ [Next]_vars => OwnInv' /\ BookStep
<1> SUFFICES ASSUME TypeOK, SerialInv, OwnInv, [Next]_vars PROVE OwnInv' /\ BookStep
  OBVIOUS
<1>a. TypeOK'
  BY TypeNext
<1>b. clock \in Nat /\ clock' \in Nat
  BY ClockIsNat
<1>1. ASSUME NEW w \in Web, BeginStep(w) PROVE OwnInv' /\ BookStep
  BY <1>1, <1>a, OwnBegin
<1>2. ASSUME NEW w \in Web, CommitStep(w) \/ WebCrash(w) PROVE OwnInv' /\ BookStep
  BY <1>2, <1>a, OwnEnd
<1>3. ASSUME NEW k \in Celery, JobStep(k) PROVE OwnInv' /\ BookStep
  BY <1>3, <1>a, OwnTask
<1>4. ASSUME NEW k \in Celery, StartStep(k) PROVE OwnInv' /\ BookStep
  BY <1>4, <1>a, OwnStart
<1>c. ASSUME UNCHANGED <<balance, ledger, unsaved, current, rows>>, clock <= clock'
      PROVE  RowsOwned' /\ StartsPast' /\ UNCHANGED Book!book
  BY <1>b, <1>c, SameOwned, BookStutters DEF OwnInv
<1>5. ASSUME NEW k \in Celery, JobCrash(k) PROVE OwnInv' /\ BookStep
  <2>1. /\ job[k] # IdleJob /\ job' = [job EXCEPT ![k] = IdleJob]
        /\ UNCHANGED <<web, balance, ledger, unsaved, current, rows, clock>>
    BY <1>5 DEF JobCrash, money, services
  <2>2. (\A w \in Web : web[w] = Free) /\ (\A l \in Celery \ {k} : job[l] = IdleJob)
    BY <2>1 DEF SerialInv, OneAtATime
  <2>3. RowsOwned' /\ StartsPast' /\ UNCHANGED Book!book
    BY <2>1, <1>b, <1>c
  <2>4. FitBatch(IdleJob, current', rows', clock')
    BY <1>b, IdleFits
  <2> QED BY <2>1, <2>2, <2>3, <2>4, <1>b, TaskFits DEF BookStep
<1>6. ASSUME ProfileStep \/ Tick \/ UNCHANGED vars PROVE OwnInv' /\ BookStep
  <2>1. /\ UNCHANGED <<balance, ledger, unsaved, current, rows, web, job>>
        /\ clock' = clock \/ clock' = clock + 1
    BY <1>6 DEF ProfileStep, SetAuto, UpdateProfile, MakePeriodicPay, DeletePeriodicPay, Tick,
       vars, money, services
  <2>2. clock <= clock'
    BY <2>1, <1>b
  <2>3. RequestsFit'
    BY <2>1 DEF OwnInv, RequestsFit
  <2>4. BatchesFit'
    <3> SUFFICES ASSUME NEW k \in Celery PROVE FitBatch(job[k], current, rows, clock')
      BY <2>1 DEF BatchesFit
    <3>1. FitBatch(job[k], current, rows, clock)
      BY DEF OwnInv, BatchesFit
    <3>2. job[k].now \in Nat /\ \A x \in job[k].subs : x.start \in Nat
      BY HeldCopies DEF JobType
    <3> QED BY <3>1, <3>2, <2>2, <1>b DEF FitBatch
  <2> QED BY <2>1, <2>2, <2>3, <2>4, <1>c DEF OwnInv, BookStep
<1> QED BY <1>1, <1>2, <1>3, <1>4, <1>5, <1>6 DEF Next

(* If requests and tasks run one at a time, every row of customer_service
   belongs to a customer: no change of service, stop, renewal or failure
   leaves one behind. *)
THEOREM SerialLeavesNoOrphan ==
  ASSUME Serial
  PROVE  Spec => []NoOrphan
<1>1. TypeOK /\ SerialInv /\ [Next]_vars => SerialInv'
  BY SerialNext
<1>2. TypeOK /\ SerialInv /\ OwnInv /\ [Next]_vars => OwnInv'
  BY OwnNext
<1>3. OwnInv => NoOrphan
  BY DEF OwnInv, RowsOwned
<1>4. Init => OwnInv
  BY OwnInit
<1> QED
  BY <1>1, <1>2, <1>3, <1>4, SerialInit, TypeCorrect, PTL DEF Spec

(* Then billing implements AccountBook: the balance moves with the log, a
   connection costs its price, an ended service gives back at most its price,
   and the tasks end expired services without touching money. *)
THEOREM SerialKeepsBook ==
  ASSUME Serial
  PROVE  Spec => KeepsBook
<1>1. TypeOK /\ SerialInv /\ [Next]_vars => SerialInv'
  BY SerialNext
<1>2. TypeOK /\ SerialInv /\ OwnInv /\ [Next]_vars => OwnInv' /\ [Book!Next]_(Book!book)
  BY OwnNext DEF BookStep
<1>3. Init => OwnInv /\ Book!Init
  BY OwnInit
<1> QED
  BY <1>1, <1>2, <1>3, SerialInit, TypeCorrect, PTL DEF Spec, KeepsBook, Book!Spec

=============================================================================
