-------------------------- MODULE CustomerBilling --------------------------
(***************************************************************************)
(* Customer accounts of djing2: the prepaid balance, the connected         *)
(* service and its CustomerService row, and everything that reads and      *)
(* writes them concurrently: web requests of customers, staff and payment  *)
(* systems (src/apps/customers/views, src/apps/fin_app/views) and the      *)
(* Celery tasks of src/apps/customers/tasks.py.                            *)
(*                                                                         *)
(* A request reads the customer with one query, decides on that copy and   *)
(* writes in one transaction; nothing is locked in between (PostgreSQL     *)
(* READ COMMITTED, no select_for_update, no F() expressions).  So each     *)
(* handler is a reading action, which stores the copy in web[w] or job[k], *)
(* and a committing action, which writes from the copy.  One transaction,  *)
(* or one statement outside a transaction, is one step.  A request the     *)
(* code refuses changes nothing and is not represented.                    *)
(*                                                                         *)
(* Money is counted in whole units, time in ticks, every month has Month   *)
(* ticks.                                                                  *)
(*                                                                         *)
(* An operator whose name begins with Bug is no part of the specification: *)
(* it is what the definition after it becomes with a plausible mistake,    *)
(* kept to show that a property would notice.                              *)
(***************************************************************************)
EXTENDS Integers, FiniteSets

CONSTANTS
  Customers, Services,
  NoService,      \* the NULL of a service reference
  Kind,           \* Service.calc_type: "Default", "Dp", "Cp" or "Daily"
  Cost,           \* Service.cost
  AdminOnly,      \* the services with is_admin set
  Month, Day, TenYears,
  StartBalances,  \* balances an account may open with
  TopUps,         \* amounts staff enter by hand, negative ones included
  ShotCosts,      \* costs of the one-shot pays
  StaffDeadlines, \* deadlines staff may give when they connect a service
  PPays, PPOwner, PPAmount, NextPays,  \* rows of PeriodicPayForId
  Debts, DebtCost,                     \* rows of InvoiceForPayment
  PayIds, PayFor, PayAmount,           \* payments the payment systems report
  Prechecked,     \* the payments whose handler looks the id up first (RNCB)
  Web, Celery,    \* web server threads and Celery worker processes
  Everyone,       \* the scope of the periodic task: all customers
  Handlers,       \* the handlers of this instance
  MaxRows,        \* bound: CustomerService rows in the table at one time
  MaxTime,        \* bound: the clock
  MaxRequests,    \* bound: requests, crashes of workers
  MaxInFlight     \* bound: requests and tasks running at one time

ASSUME MonthAssumption == Month \in Nat \ {0} /\ Day \in Nat /\ TenYears \in Nat
ASSUME ServiceAssumption ==
  /\ NoService \notin Services
  /\ AdminOnly \subseteq Services
  /\ Cost \in [Services -> Nat]
  /\ Kind \in [Services -> {"Default", "Dp", "Cp", "Daily"}]
ASSUME AmountAssumption ==
  /\ StartBalances \subseteq Nat
  /\ TopUps \subseteq Int
  /\ ShotCosts \subseteq Nat
  /\ StaffDeadlines \subseteq Nat
ASSUME PayAssumption ==
  /\ PPOwner \in [PPays -> Customers] /\ PPAmount \in [PPays -> Nat]
  /\ NextPays \subseteq Nat
  /\ DebtCost \in [Debts -> Nat]
  /\ PayFor \in [PayIds -> Customers] /\ PayAmount \in [PayIds -> Nat]
ASSUME ScopeAssumption == Everyone \notin Customers
ASSUME BoundAssumption ==
  /\ MaxRows \in Nat /\ MaxTime \in Nat
  /\ MaxRequests \in Nat /\ MaxInFlight \in Nat

VARIABLES
  (* columns of the table of customers *)
  balance, current, last, auto, active,
  (* the table customer_service *)
  rows,
  (* PeriodicPayForId.next_pay and last_pay, InvoiceForPayment.status, and
     the payment log, whose key is the id the payment system gave *)
  nextPay, lastPay, settled, paid,
  (* processes: the request of each web thread, the task of each Celery
     worker, and the number of check tasks queued for each customer *)
  web, job, queue,
  (* the sum of CustomerLog.cost of each customer *)
  ledger,
  (* ghosts: the customers some of whose money was erased by a write from an
     outdated copy, top-ups logged and not (yet) saved, how often a payment
     was credited and a periodic pay charged, the customers charged without
     asking for their money, the admin services staff gave *)
  overtaken, unsaved, credits, times, forced, granted,
  clock, budget

money    == <<balance, ledger, overtaken, unsaved, forced>>
services == <<current, last, rows, granted>>
flags    == <<auto, active>>
pays     == <<nextPay, lastPay, times>>
external == <<settled, paid, credits>>
vars == <<money, services, flags, pays, external, web, job, queue, clock, budget>>

-----------------------------------------------------------------------------
(* Rows and calendar. *)

RowIds == 1..MaxRows
NoRow  == 0
NoRecord == [srv |-> NoService, start |-> 0, deadline |-> 0]
NoDeadline == -1  \* no deadline given: it is computed when the row is made
Stored(r) == r # NoRow /\ rows[r] # NoRecord

MonthOf(t)   == t \div Month
MonthStart(t) == MonthOf(t) * Month
MonthEnd(t)  == MonthStart(t) + Month - 1
BugNextMonth(t) == MonthStart(t)                      \* the first of this month
NextMonth(t) == MonthStart(t) + Month

(* The deadline a service connected or renewed at t gets. *)
CalcDeadline(s, t) ==
  CASE Kind[s] \in {"Default", "Dp"} -> MonthEnd(t)
    [] Kind[s] = "Cp"    -> MonthStart(t) + TenYears
    [] Kind[s] = "Daily" -> t + Day

(* What is charged for a service used from start to t. *)
CalcCost(s, start, t) ==
  IF Kind[s] = "Default" THEN ((t - start) * Cost[s]) \div Month ELSE Cost[s]

BugCostToReturn(s, start, t) ==                       \* the sign is wrong
  LET left == Cost[s] - CalcCost(s, t, start) IN IF left > 0 THEN left ELSE 0
CostToReturn(s, start, t) ==
  LET left == Cost[s] - CalcCost(s, start, t) IN IF left > 0 THEN left ELSE 0

-----------------------------------------------------------------------------
(* Processes.  A request keeps the copy it read: the customer's balance in
   seen, the row it will delete, and what it will post to the account. *)

Free == [op |-> "free"]
RequestOps == {"pick", "stop", "shot", "topup", "pay", "notify", "debt"}
Request(op, c, amount) ==
  [op |-> op, c |-> c, seen |-> balance[c], amount |-> amount, row |-> current[c],
   srv |-> NoService, deadline |-> NoDeadline, setLast |-> FALSE,
   staff |-> FALSE, ref |-> "none"]

(* The copy a Celery task holds of a customer and the service it works on. *)
Copy(c, s) ==
  [c |-> c, seen |-> balance[c], row |-> current[c], srv |-> s,
   start |-> IF current[c] = NoRow THEN 0 ELSE rows[current[c]].start]
(* The copy it holds of a due periodic pay and, by select_related, of its
   account: each pay carries a copy of its own. *)
Due(p) == [pay |-> p, c |-> PPOwner[p], seen |-> balance[PPOwner[p]]]

IdleJob == [stage |-> "idle", scope |-> Everyone, now |-> 0, subs |-> {}, due |-> {}]
Stages == {"idle", "toRenew", "renewing", "toFinish", "finishing",
           "toConnect", "connecting", "toCharge", "charging"}
(* The stage that follows in manage_services; the check of one customer
   takes one stage only. *)
Then(j, stage) == IF j.scope = Everyone THEN [IdleJob EXCEPT !.stage = stage] ELSE IdleJob

InFlight == Cardinality({w \in Web : web[w] # Free})
              + Cardinality({k \in Celery : job[k] # IdleJob})
InScope(k) == IF job[k].scope = Everyone THEN Customers ELSE {job[k].scope}

Owes(c)     == current[c] # NoRow /\ rows[current[c]].deadline <= clock
PlanOf(c)   == IF current[c] = NoRow THEN NoService ELSE rows[current[c]].srv

-----------------------------------------------------------------------------
(* What the writers share. *)

(* Customer.save(update_fields=["balance"]) of a copy x: the column becomes
   the copy's balance plus d, whatever it holds now. *)
Save(x, d) ==
  /\ balance' = [balance EXCEPT ![x.c] = x.seen + d]
  /\ overtaken' = IF x.seen = balance[x.c] THEN overtaken ELSE overtaken \cup {x.c}

BugPost(x, d) ==                                      \* charges are not logged
  /\ Save(x, d)
  /\ ledger' = [ledger EXCEPT ![x.c] = IF d > 0 THEN @ + d ELSE @]
  /\ UNCHANGED unsaved

(* The balance and its log line, in one transaction. *)
Post(x, d) ==
  /\ Save(x, d)
  /\ ledger' = [ledger EXCEPT ![x.c] = @ + d]
  /\ UNCHANGED unsaved

(* The key of the next row.  The database never gives a key twice; a key no
   row has and no copy holds is as good as a new one. *)
FreshKeys ==
  {r \in RowIds : /\ rows[r] = NoRecord
                  /\ \A w \in Web : web[w] # Free => web[w].row # r
                  /\ \A k \in Celery : \A x \in job[k].subs : x.row # r}
NewKey == CHOOSE r \in FreshKeys : TRUE

(* The transaction of Customer.pick_service. *)
Connect(x, s, setLast, deadline) ==
  /\ FreshKeys # {}
  /\ rows' = [rows EXCEPT ![NewKey] =
                [srv |-> s, start |-> clock,
                 deadline |-> IF deadline = NoDeadline THEN CalcDeadline(s, clock) ELSE deadline]]
  /\ current' = [current EXCEPT ![x.c] = NewKey]
  /\ last' = [last EXCEPT ![x.c] = IF setLast THEN s ELSE @]
  /\ Post(x, -Cost[s])

BugDrop(R) ==                                         \* references dangle
  /\ rows' = [r \in RowIds |-> IF r \in R THEN NoRecord ELSE rows[r]]
  /\ UNCHANGED <<current, last, granted>>

(* Deleting rows clears the references to them (on_delete=SET_NULL); a row
   that is already gone is no error. *)
Drop(R) ==
  /\ rows' = [r \in RowIds |-> IF r \in R THEN NoRecord ELSE rows[r]]
  /\ current' = [c \in Customers |-> IF current[c] \in R THEN NoRow ELSE current[c]]
  /\ UNCHANGED <<last, granted>>

(* The transaction of Customer.stop_service: refund, then delete the row. *)
Stop(x, refund) ==
  /\ IF refund > 0
       THEN Post(x, refund)
       ELSE UNCHANGED <<balance, ledger, overtaken, unsaved>>
  /\ Drop({x.row})

-----------------------------------------------------------------------------
(* Web requests: the reading half. *)

Spend == budget > 0 /\ budget' = budget - 1

Begin(w, handler, request) ==
  /\ handler \in Handlers
  /\ web[w] = Free
  /\ InFlight < MaxInFlight
  /\ Spend
  /\ web' = [web EXCEPT ![w] = request]
  /\ UNCHANGED <<money, services, flags, pays, external, job, queue, clock>>

BugBuyService(w, c) ==                                \* the balance is not compared
  \E s \in Services \ AdminOnly :
    /\ current[c] = NoRow
    /\ Begin(w, "BuyService", [Request("pick", c, -Cost[s]) EXCEPT
         !.srv = s, !.setLast = (last[c] # s)])

(* POST /me/buy_service/: the customer buys, on no credit. *)
BuyService(w, c) ==
  \E s \in Services \ AdminOnly :
    /\ current[c] = NoRow
    /\ balance[c] >= Cost[s]
    /\ Begin(w, "BuyService", [Request("pick", c, -Cost[s]) EXCEPT
         !.srv = s, !.setLast = (last[c] # s)])

BugPickService(w, c) ==                               \* over a connected service
  \E s \in Services : \E d \in StaffDeadlines \cup {NoDeadline} :
    Begin(w, "PickService", [Request("pick", c, -Cost[s]) EXCEPT
      !.srv = s, !.setLast = (last[c] # s), !.deadline = d, !.staff = TRUE])

(* POST /{customer_id}/pick_service/: staff connect, on credit if need be. *)
PickService(w, c) ==
  \E s \in Services : \E d \in StaffDeadlines \cup {NoDeadline} :
    /\ current[c] = NoRow
    /\ Begin(w, "PickService", [Request("pick", c, -Cost[s]) EXCEPT
         !.srv = s, !.setLast = (last[c] # s), !.deadline = d, !.staff = TRUE])

(* GET /{customer_id}/stop_service/: the refund is computed from the copy. *)
StopService(w, c) ==
  /\ current[c] # NoRow
  /\ LET r == rows[current[c]] IN
       Begin(w, "StopService", Request("stop", c, CostToReturn(r.srv, r.start, clock)))

(* POST /{customer_id}/make_shot/: staff, on credit if need be. *)
MakeShot(w, c) ==
  \E n \in ShotCosts :
    Begin(w, "MakeShot", [Request("shot", c, -n) EXCEPT !.staff = TRUE])

(* POST /me/debts/{debt_id}/buy/: any debt the customer names, paid or not. *)
BuyDebt(w, c) ==
  \E d \in Debts :
    /\ balance[c] >= DebtCost[d]
    /\ Begin(w, "BuyDebt", [Request("debt", c, -DebtCost[d]) EXCEPT !.ref = d])

(* The pay request of AllTime and RNCB: one payment of one id, possibly sent
   again; RNCB looks the id up before it begins. *)
ReceivePay(w, id) ==
  /\ active[PayFor[id]]
  /\ id \in Prechecked => id \notin paid
  /\ Begin(w, "ReceivePay", [Request("pay", PayFor[id], PayAmount[id]) EXCEPT !.ref = id])

(* POST /{customer_id}/add_balance/: Customer.add_balance commits the log
   line on its own; the balance is saved by a second statement. *)
AddBalance(w, c) ==
  \E n \in TopUps :
    /\ "AddBalance" \in Handlers
    /\ web[w] = Free
    /\ InFlight < MaxInFlight
    /\ Spend
    /\ web' = [web EXCEPT ![w] = [Request("topup", c, n) EXCEPT !.staff = (n < 0)]]
    /\ ledger' = [ledger EXCEPT ![c] = @ + n]
    /\ unsaved' = [unsaved EXCEPT ![c] = @ + n]
    /\ UNCHANGED <<balance, overtaken, forced, services, flags, pays, external,
                   job, queue, clock>>

-----------------------------------------------------------------------------
(* Web requests: the committing half. *)

End(w) == web' = [web EXCEPT ![w] = Free]
MarkForced(w) == forced' = IF web[w].staff THEN forced \cup {web[w].c} ELSE forced

CommitPick(w) ==
  LET q == web[w] IN
  /\ q.op = "pick"
  /\ Connect(q, q.srv, q.setLast, q.deadline)
  /\ granted' = IF q.staff /\ q.srv \in AdminOnly
                  THEN granted \cup {<<q.c, q.srv>>} ELSE granted
  /\ MarkForced(w)
  /\ End(w)
  /\ UNCHANGED <<flags, pays, external, job, queue, clock, budget>>

CommitStop(w) ==
  LET q == web[w] IN
  /\ q.op = "stop"
  /\ Stop(q, q.amount)
  /\ End(w)
  /\ UNCHANGED <<forced, flags, pays, external, job, queue, clock, budget>>

CommitShot(w) ==
  LET q == web[w] IN
  /\ q.op = "shot"
  /\ Post(q, q.amount)
  /\ MarkForced(w)
  /\ End(w)
  /\ UNCHANGED <<services, flags, pays, external, job, queue, clock, budget>>

CommitDebt(w) ==
  LET q == web[w] IN
  /\ q.op = "debt"
  /\ Post(q, q.amount)
  /\ settled' = settled \cup {q.ref}
  /\ End(w)
  /\ UNCHANGED <<forced, services, flags, pays, paid, credits, job, queue, clock, budget>>

SaveBalance(w) ==
  LET q == web[w] IN
  /\ q.op = "topup"
  /\ Save(q, q.amount)
  /\ unsaved' = [unsaved EXCEPT ![q.c] = @ - q.amount]
  /\ MarkForced(w)
  /\ End(w)
  /\ UNCHANGED <<ledger, services, flags, pays, external, job, queue, clock, budget>>

BugCommitPay(w) ==                                    \* the key is not unique
  LET q == web[w] IN
  /\ q.op = "pay"
  /\ Post(q, q.amount)
  /\ paid' = paid \cup {q.ref}
  /\ credits' = [credits EXCEPT ![q.ref] = @ + 1]
  /\ web' = [web EXCEPT ![w].op = "notify"]
  /\ UNCHANGED <<forced, services, flags, pays, settled, job, queue, clock, budget>>

(* The payment log row is created last, in the same transaction: if the id
   is there already, everything rolls back and the request ends. *)
CommitPay(w) ==
  LET q == web[w] IN
  /\ q.op = "pay"
  /\ q.ref \notin paid
  /\ Post(q, q.amount)
  /\ paid' = paid \cup {q.ref}
  /\ credits' = [credits EXCEPT ![q.ref] = @ + 1]
  /\ web' = [web EXCEPT ![w].op = "notify"]
  /\ UNCHANGED <<forced, services, flags, pays, settled, job, queue, clock, budget>>

RejectPay(w) ==
  /\ web[w].op = "pay"
  /\ web[w].ref \in paid
  /\ End(w)
  /\ UNCHANGED <<money, services, flags, pays, external, job, queue, clock, budget>>

(* After the transaction: customer_check_service_for_expiration_task.delay *)
NotifyPay(w) ==
  /\ web[w].op = "notify"
  /\ queue' = [queue EXCEPT ![web[w].c] = @ + 1]
  /\ End(w)
  /\ UNCHANGED <<money, services, flags, pays, external, job, clock, budget>>

(* The worker dies (or the database connection does) before the next write. *)
WebCrash(w) ==
  /\ web[w] # Free
  /\ Spend
  /\ End(w)
  /\ UNCHANGED <<money, services, flags, pays, external, job, queue, clock>>

-----------------------------------------------------------------------------
(* Requests that write what they were given, in one statement. *)

(* PUT /me/set_auto_new_service/ *)
SetAuto(c) ==
  /\ "SetAuto" \in Handlers
  /\ Spend
  /\ \E b \in BOOLEAN : b # auto[c] /\ auto' = [auto EXCEPT ![c] = b]
  /\ UNCHANGED <<money, services, active, pays, external, web, job, queue, clock>>

(* PATCH /{customer_id}/: the given fields only, never the balance. *)
UpdateProfile(c) ==
  /\ "UpdateProfile" \in Handlers
  /\ Spend
  /\ \/ \E b \in BOOLEAN : b # auto[c] /\ auto' = [auto EXCEPT ![c] = b] /\ UNCHANGED <<active, last>>
     \/ active' = [active EXCEPT ![c] = ~@] /\ UNCHANGED <<auto, last>>
     \/ \E s \in Services \cup {NoService} :
          s # last[c] /\ last' = [last EXCEPT ![c] = s] /\ UNCHANGED flags
  /\ UNCHANGED <<money, current, rows, granted, pays, external, web, job, queue, clock>>

(* POST /{customer_id}/make_periodic_pay/, and the deletion of such a row.
   -1 is a row not made yet, -2 one deleted: keys are not used again. *)
Unmade == -1
Gone   == -2
MakePeriodicPay(p) ==
  /\ "MakePeriodicPay" \in Handlers
  /\ nextPay[p] = Unmade
  /\ Spend
  /\ \E t \in NextPays : nextPay' = [nextPay EXCEPT ![p] = t]
  /\ UNCHANGED <<money, services, flags, lastPay, times, external, web, job, queue, clock>>

DeletePeriodicPay(p) ==
  /\ "DeletePeriodicPay" \in Handlers
  /\ nextPay[p] >= 0
  /\ Spend
  /\ nextPay' = [nextPay EXCEPT ![p] = Gone]
  /\ UNCHANGED <<money, services, flags, lastPay, times, external, web, job, queue, clock>>

Tick ==
  /\ clock < MaxTime
  /\ clock' = clock + 1
  /\ UNCHANGED <<money, services, flags, pays, external, web, job, queue, budget>>

-----------------------------------------------------------------------------
(* The Celery tasks.  A queryset iterates over the rows its query returned;
   what happens to them meanwhile is not seen. *)

(* The beat sends manage_services every 30 minutes: from the model's point of
   view, whenever a worker is idle. *)
ManageStart(k) ==
  /\ job[k] = IdleJob
  /\ InFlight < MaxInFlight
  /\ job' = [job EXCEPT ![k].stage = "toRenew"]
  /\ UNCHANGED <<money, services, flags, pays, external, web, queue, clock, budget>>

BugCanConnect(c) ==                                   \* admin services as well
  /\ active[c] /\ auto[c] /\ current[c] = NoRow
  /\ last[c] \in Services

(* customer_check_service_for_expiration: which way it takes is decided on
   one read of the customer, which is also the copy that connects. *)
CanConnect(c) ==
  /\ active[c] /\ auto[c] /\ current[c] = NoRow
  /\ last[c] \in Services \ AdminOnly

CheckStart(k, c) ==
  /\ job[k] = IdleJob
  /\ InFlight < MaxInFlight
  /\ queue[c] > 0
  /\ queue' = [queue EXCEPT ![c] = @ - 1]
  /\ LET check == [IdleJob EXCEPT !.scope = c] IN
     \/ /\ auto[c] /\ current[c] # NoRow
        /\ job' = [job EXCEPT ![k] = [check EXCEPT !.stage = "toRenew"]]
     \/ /\ CanConnect(c)
        /\ job' = [job EXCEPT ![k] = [check EXCEPT !.stage = "connecting",
                                                   !.subs = {Copy(c, last[c])}]]
     \/ /\ auto[c] /\ current[c] = NoRow /\ ~CanConnect(c)
        /\ UNCHANGED job
     \/ /\ ~auto[c]
        /\ job' = [job EXCEPT ![k] = [check EXCEPT !.stage = "toFinish"]]
  /\ UNCHANGED <<money, services, flags, pays, external, web, clock, budget>>

(* continue_services_if_autoconnect: the query, then one transaction per row. *)
RenewQuery(k) ==
  LET j == job[k]
      expired == {c \in InScope(k) : Owes(c) /\ auto[c]}
      copies == {Copy(c, rows[current[c]].srv) : c \in expired}
  IN
  /\ j.stage = "toRenew"
  /\ job' = [job EXCEPT ![k] =
       IF expired = {} THEN Then(j, "toFinish")
       ELSE [j EXCEPT !.stage = "renewing", !.now = clock, !.subs = copies]]
  /\ UNCHANGED <<money, services, flags, pays, external, web, queue, clock, budget>>

BugRest(j, x, stage) == j                             \* a row returned twice
(* The rest of a loop: the next element, or the next stage. *)
Rest(j, x, stage) ==
  IF j.subs = {x} THEN Then(j, stage) ELSE [j EXCEPT !.subs = @ \ {x}]

Renew(k) ==
  /\ job[k].stage = "renewing"
  /\ \E x \in job[k].subs :
       /\ x.seen >= Cost[x.srv]
       /\ Stored(x.row)
       /\ rows' = [rows EXCEPT ![x.row].start = job[k].now,
                               ![x.row].deadline = CalcDeadline(x.srv, clock)]
       /\ Post(x, -Cost[x.srv])
       /\ job' = [job EXCEPT ![k] = Rest(job[k], x, "toFinish")]
  /\ UNCHANGED <<forced, current, last, granted, flags, pays, external,
                 web, queue, clock, budget>>

(* save(update_fields) of a row that is gone raises: the transaction rolls
   back and the task ends, with everything it had still to do. *)
RenewFails(k) ==
  /\ job[k].stage = "renewing"
  /\ \E x \in job[k].subs : x.seen >= Cost[x.srv] /\ ~Stored(x.row)
  /\ job' = [job EXCEPT ![k] = IdleJob]
  /\ UNCHANGED <<money, services, flags, pays, external, web, queue, clock, budget>>

BugRefuseRenewal(k) ==                                \* the service is kept
  /\ job[k].stage = "renewing"
  /\ \E x \in job[k].subs :
       /\ x.seen < Cost[x.srv]
       /\ job' = [job EXCEPT ![k] = Rest(job[k], x, "toFinish")]
  /\ UNCHANGED <<money, services, flags, pays, external, web, queue, clock, budget>>

(* No money for another term: stop_service(force_cost=0.0).  0.0 is false in
   "if force_cost", so the unused part of the service is refunded. *)
RefuseRenewal(k) ==
  /\ job[k].stage = "renewing"
  /\ \E x \in job[k].subs :
       /\ x.seen < Cost[x.srv]
       /\ Stop(x, CostToReturn(x.srv, x.start, clock))
       /\ job' = [job EXCEPT ![k] = Rest(job[k], x, "toFinish")]
  /\ UNCHANGED <<forced, flags, pays, external, web, queue, clock, budget>>

BugExpiredRows(k, now) ==                             \* the deadline is not compared
  {current[c] : c \in {d \in InScope(k) : current[d] # NoRow /\ ~auto[d]}}

(* finish_services_if_expired: the query and the log lines, then a delete
   that evaluates the query again, with the same now. *)
ExpiredRows(k, now) ==
  {current[c] : c \in {d \in InScope(k) :
     current[d] # NoRow /\ ~auto[d] /\ rows[current[d]].deadline < now}}

BugFinishQuery(k) ==                                  \* nothing expired: return
  /\ job[k].stage = "toFinish"
  /\ job' = [job EXCEPT ![k] =
       IF ExpiredRows(k, clock) = {} THEN IdleJob
       ELSE [@ EXCEPT !.stage = "finishing", !.now = clock]]
  /\ UNCHANGED <<money, services, flags, pays, external, web, queue, clock, budget>>

FinishQuery(k) ==
  /\ job[k].stage = "toFinish"
  /\ job' = [job EXCEPT ![k] =
       IF ExpiredRows(k, clock) = {} THEN Then(@, "toConnect")
       ELSE [@ EXCEPT !.stage = "finishing", !.now = clock]]
  /\ UNCHANGED <<money, services, flags, pays, external, web, queue, clock, budget>>

FinishDelete(k) ==
  /\ job[k].stage = "finishing"
  /\ Drop(ExpiredRows(k, job[k].now))
  /\ job' = [job EXCEPT ![k] = Then(@, "toConnect")]
  /\ UNCHANGED <<money, flags, pays, external, web, queue, clock, budget>>

(* _manage_post_connect_services, and the connecting check task. *)
ConnectQuery(k) ==
  LET j == job[k]
      waiting == {c \in Customers : CanConnect(c)}
  IN
  /\ j.stage = "toConnect"
  /\ job' = [job EXCEPT ![k] =
       IF waiting = {} THEN Then(j, "toCharge")
       ELSE [j EXCEPT !.stage = "connecting", !.subs = {Copy(c, last[c]) : c \in waiting}]]
  /\ UNCHANGED <<money, services, flags, pays, external, web, queue, clock, budget>>

AutoConnect(k) ==
  /\ job[k].stage = "connecting"
  /\ \E x \in job[k].subs :
       /\ x.seen >= Cost[x.srv]
       /\ Connect(x, x.srv, FALSE, NoDeadline)
       /\ job' = [job EXCEPT ![k] = Rest(job[k], x, "toCharge")]
  /\ UNCHANGED <<forced, granted, flags, pays, external, web, queue, clock, budget>>

(* NotEnoughMoney is a LogicError: logged, and the loop goes on. *)
SkipConnect(k) ==
  /\ job[k].stage = "connecting"
  /\ \E x \in job[k].subs :
       /\ x.seen < Cost[x.srv]
       /\ job' = [job EXCEPT ![k] = Rest(job[k], x, "toCharge")]
  /\ UNCHANGED <<money, services, flags, pays, external, web, queue, clock, budget>>

(* _manage_periodic_pays_run: a pay whose time is exactly now is returned by
   the query and passed over by payment_for_service. *)
ChargeQuery(k) ==
  LET due == {p \in PPays : nextPay[p] >= 0 /\ nextPay[p] < clock} IN
  /\ job[k].stage = "toCharge"
  /\ job' = [job EXCEPT ![k] =
       IF due = {} THEN IdleJob
       ELSE [@ EXCEPT !.stage = "charging", !.now = clock, !.due = {Due(p) : p \in due}]]
  /\ UNCHANGED <<money, services, flags, pays, external, web, queue, clock, budget>>

Charge(k) ==
  LET j == job[k] IN
  /\ j.stage = "charging"
  /\ \E x \in j.due :
       /\ nextPay[x.pay] # Gone
       /\ Post(x, -PPAmount[x.pay])
       /\ forced' = forced \cup {x.c}
       /\ nextPay' = [nextPay EXCEPT ![x.pay] = NextMonth(clock)]
       /\ lastPay' = [lastPay EXCEPT ![x.pay] = j.now]
       /\ times' = [times EXCEPT ![x.pay] = @ + 1]
       /\ job' = [job EXCEPT ![k] = IF j.due = {x} THEN IdleJob
                                    ELSE [j EXCEPT !.due = @ \ {x}]]
  /\ UNCHANGED <<services, flags, external, web, queue, clock, budget>>

ChargeFails(k) ==
  /\ job[k].stage = "charging"
  /\ \E x \in job[k].due : nextPay[x.pay] = Gone
  /\ job' = [job EXCEPT ![k] = IdleJob]
  /\ UNCHANGED <<money, services, flags, pays, external, web, queue, clock, budget>>

(* The task is killed: by its time limit of 30 minutes, or with its worker. *)
JobCrash(k) ==
  /\ job[k] # IdleJob
  /\ Spend
  /\ job' = [job EXCEPT ![k] = IdleJob]
  /\ UNCHANGED <<money, services, flags, pays, external, web, queue, clock>>

-----------------------------------------------------------------------------
Init ==
  /\ balance \in [Customers -> StartBalances]
  /\ ledger = balance
  /\ unsaved = [c \in Customers |-> 0]
  /\ overtaken = {}
  /\ forced = {} /\ granted = {}
  /\ current = [c \in Customers |-> NoRow]
  /\ last = [c \in Customers |-> NoService]
  /\ auto \in [Customers -> BOOLEAN]
  /\ active = [c \in Customers |-> TRUE]
  /\ rows = [r \in RowIds |-> NoRecord]
  /\ nextPay \in [PPays -> NextPays \cup {Unmade}]
  /\ lastPay = [p \in PPays |-> Unmade] /\ times = [p \in PPays |-> 0]
  /\ settled = {} /\ paid = {}
  /\ credits = [id \in PayIds |-> 0]
  /\ web = [w \in Web |-> Free]
  /\ job = [k \in Celery |-> IdleJob]
  /\ queue = [c \in Customers |-> 0]
  /\ clock = 0
  /\ budget = MaxRequests

BeginStep(w) ==
  \/ \E c \in Customers : \/ BuyService(w, c) \/ PickService(w, c) \/ StopService(w, c)
                          \/ MakeShot(w, c) \/ BuyDebt(w, c) \/ AddBalance(w, c)
  \/ \E id \in PayIds : ReceivePay(w, id)
CommitStep(w) ==
  \/ CommitPick(w) \/ CommitStop(w) \/ CommitShot(w) \/ CommitDebt(w)
  \/ SaveBalance(w) \/ CommitPay(w) \/ RejectPay(w) \/ NotifyPay(w)
ProfileStep ==
  \/ \E c \in Customers : SetAuto(c) \/ UpdateProfile(c)
  \/ \E p \in PPays : MakePeriodicPay(p) \/ DeletePeriodicPay(p)
JobStep(k) ==
  \/ RenewQuery(k) \/ Renew(k) \/ RenewFails(k) \/ RefuseRenewal(k)
  \/ FinishQuery(k) \/ FinishDelete(k)
  \/ ConnectQuery(k) \/ AutoConnect(k) \/ SkipConnect(k)
  \/ ChargeQuery(k) \/ Charge(k) \/ ChargeFails(k)
StartStep(k) == ManageStart(k) \/ \E c \in Customers : CheckStart(k, c)

Next ==
  \/ \E w \in Web : BeginStep(w) \/ CommitStep(w) \/ WebCrash(w)
  \/ ProfileStep
  \/ Tick
  \/ \E k \in Celery : JobStep(k) \/ StartStep(k) \/ JobCrash(k)

Spec == Init /\ [][Next]_vars

(* A running task goes on, and the beat sends manage_services for ever. *)
Fairness ==
  \A k \in Celery : WF_vars(JobStep(k)) /\ WF_vars(StartStep(k))
FairSpec == Spec /\ Fairness

-----------------------------------------------------------------------------
(* Types. *)

RequestType ==
  [op : RequestOps, c : Customers, seen : Int, amount : Int, row : RowIds \cup {NoRow},
   srv : Services \cup {NoService}, deadline : Nat \cup {NoDeadline},
   setLast : BOOLEAN, staff : BOOLEAN, ref : PayIds \cup Debts \cup {"none"}]
CopyType == [c : Customers, seen : Int, row : RowIds \cup {NoRow}, srv : Services, start : Nat]
DueType  == [pay : PPays, c : Customers, seen : Int]
JobType  == [stage : Stages, scope : Customers \cup {Everyone}, now : Nat,
             subs : SUBSET CopyType, due : SUBSET DueType]

MoneyTypes ==
  /\ balance \in [Customers -> Int] /\ ledger \in [Customers -> Int]
  /\ unsaved \in [Customers -> Int]
  /\ overtaken \subseteq Customers /\ forced \subseteq Customers
ServiceTypes ==
  /\ current \in [Customers -> RowIds \cup {NoRow}]
  /\ last \in [Customers -> Services \cup {NoService}]
  /\ rows \in [RowIds -> [srv : Services \cup {NoService}, start : Nat, deadline : Nat]]
  /\ granted \subseteq Customers \X Services
(* The foreign key of current_service: the row a customer names exists. *)
References == \A c \in Customers : current[c] # NoRow => rows[current[c]].srv \in Services
FlagTypes == auto \in [Customers -> BOOLEAN] /\ active \in [Customers -> BOOLEAN]
PaysTypes ==
  /\ nextPay \in [PPays -> Nat \cup {Unmade, Gone}]
  /\ lastPay \in [PPays -> Nat \cup {Unmade}]
  /\ times \in [PPays -> Nat]
ExternalTypes == settled \subseteq Debts /\ paid \subseteq PayIds /\ credits \in [PayIds -> Nat]
WebTypes ==
  /\ web \in [Web -> RequestType \cup {Free}]
  /\ \A w \in Web :
       /\ web[w].op = "pick" => web[w].srv \in Services
       /\ web[w].op = "pay" => web[w].ref \in PayIds
       /\ web[w].op = "debt" => web[w].ref \in Debts
JobTypes == job \in [Celery -> JobType]
EnvTypes == queue \in [Customers -> Nat] /\ clock \in 0..MaxTime /\ budget \in 0..MaxRequests

(* The values each variable takes, with the foreign key the database keeps. *)
TypeOK ==
  /\ MoneyTypes /\ ServiceTypes /\ References /\ FlagTypes /\ PaysTypes
  /\ ExternalTypes /\ WebTypes /\ JobTypes /\ EnvTypes

-----------------------------------------------------------------------------
(* Safety. *)

(* However requests and tasks interleave, and whichever of them die, the log
   explains the balance: the lines of a customer add up to it and to the
   top-ups logged but not saved (customers/models.py add_balance, pick_service,
   make_shot, continue_for_customer, payment_for_service).  Only a write from
   an outdated copy can make the two differ. *)
LedgerAccounted ==
  \A c \in Customers \ overtaken : ledger[c] = balance[c] + unsaved[c]

(* The check "balance < cost" is made on a copy, yet no interleaving takes a
   customer into debt through what he does or what is renewed for him: only
   staff, who may connect on credit, and periodic pays do that. *)
Solvent == \A c \in Customers \ forced : balance[c] >= 0

(* A payment system repeats a request it got no answer to, and two of them
   may run at once: the account is credited once for every id in the log. *)
PaymentCreditedOnce ==
  \A id \in PayIds : credits[id] = IF id \in paid THEN 1 ELSE 0

(* A service for staff to give is connected only to customers staff gave it
   to: not by the customer, nor by a connection from last_connected_service,
   which staff may set to any service. *)
AdminServiceFromStaff ==
  \A c \in Customers : PlanOf(c) \in AdminOnly => <<c, PlanOf(c)>> \in granted

(* With one worker for the tasks, whatever web requests do meanwhile, a task
   takes a service away only when its deadline has come. *)
CronEndsExpiredOnly ==
  [][\A r \in RowIds :
       rows[r] # NoRecord /\ rows'[r] = NoRecord /\ job' # job => rows[r].deadline <= clock]_vars

(* With one worker for the tasks, a periodic pay is charged at most once in a
   calendar month, whenever the tasks run. *)
PeriodicOncePerMonth ==
  [][\A p \in PPays : times'[p] # times[p] /\ lastPay[p] # Unmade
       => MonthOf(lastPay'[p]) > MonthOf(lastPay[p])]_vars

(* When only one request or task runs at a time, no write is from a copy that
   another write has overtaken, those of a batch included ... *)
NothingLost == overtaken = {}

(* ... and every row of customer_service is some customer's service: none is
   left behind by a change of service, a stop, a renewal or a failure. *)
NoOrphan == \A r \in RowIds : Stored(r) => \E c \in Customers : current[c] = r

(* What AccountBook promises, while one request or task runs at a time. *)
Book == INSTANCE AccountBook WITH
  money <- balance,
  booked <- [c \in Customers |-> ledger[c] - unsaved[c]],
  plan <- [c \in Customers |-> PlanOf(c)]
KeepsBook == Book!Spec

-----------------------------------------------------------------------------
(* Liveness, of FairSpec. *)

(* A service past its deadline is renewed or taken away, although tasks may be
   killed, connections lost and rows deleted under the running task. *)
Overdue(c) == current[c] # NoRow /\ rows[current[c]].deadline < clock
ExpiredIsHandled == \A c \in Customers : Overdue(c) ~> ~Overdue(c)

(* A customer who asked for automatic renewal and can pay is connected. *)
Waiting(c) == CanConnect(c) /\ balance[c] >= Cost[last[c]]
WaitingIsConnected == \A c \in Customers : Waiting(c) ~> ~Waiting(c)

-----------------------------------------------------------------------------
(* What the code says of itself, and does not keep. *)

(* stop_service: "force_cost: if not None then not calculate cost to return,
   use force_cost value instead", and the renewal that is refused passes 0.0. *)
RefusalRefundsNothing ==
  [][\A k \in Celery : RefuseRenewal(k) => UNCHANGED balance]_vars

(* payment_for_service: "Charge for the service and leave a log about it":
   what is logged was charged. *)
LoggedIsCharged == \A c \in Customers : ledger[c] = balance[c]

=============================================================================
