------------------------------- MODULE Payme -------------------------------
(***************************************************************************)
(* The transactions of the payment system Payme: start, perform, cancel,   *)
(* check (src/apps/fin_app/models/payme.py, called from views/payme.py).   *)
(* The payment system repeats a call whose answer it has not seen, and may *)
(* send a cancel while a perform is being served.                          *)
(*                                                                         *)
(* A handler reads the transaction with one query and decides on that      *)
(* copy; it writes the columns it sets with another statement, without     *)
(* looking at the row again and without a lock.  So each handler is an     *)
(* action that reads into web[w] and one that writes.  Calls that only     *)
(* read, and calls that are refused, are one step or none.                 *)
(***************************************************************************)
EXTENDS Integers, FiniteSets

CONSTANTS
  Transactions,   \* the ids the payment system gives (external_id)
  Customers,
  NoCustomer,     \* the NULL of PaymeTransactionModel.customer
  Amount,         \* the amount of a transaction
  Web,            \* web server threads
  TimeOut,        \* a day: how long a started transaction may be performed
  MaxTime,        \* bound: the clock
  MaxFaults,      \* bound: crashes, customers disabled, enabled or removed
  MaxInFlight     \* bound: requests served at one time

CustomerAssumption == NoCustomer \notin Customers
AmountAssumption == Amount \in [Transactions -> Nat]
PaymeBoundAssumption ==
  /\ IsFiniteSet(Web) /\ TimeOut \in Nat \ {0}
  /\ MaxTime \in Nat /\ MaxFaults \in Nat /\ MaxInFlight \in Nat

VARIABLES
  trans,      \* the table of transactions
  account,    \* customers: active, disabled or gone
  balance, ledger,  \* Customer.balance and the sum of CustomerLog.cost
  web,        \* the request each thread works on, with its copies
  checks,     \* customers a check task is queued for
  credits,    \* ghost: how often the amount of a transaction was credited
  told,       \* ghost: <<t, s>>, an answer said that t is in state s
  clock, budget

money == <<balance, ledger, credits>>
env   == <<account, clock, budget>>
vars  == <<trans, money, web, checks, told, env>>

-----------------------------------------------------------------------------
(* Transactions and requests. *)

Never == -1
States  == {"none", "start", "performed", "cancelled"}
Reasons == {"none", "asked", "timeout"}
NoTrans == [state |-> "none", customer |-> NoCustomer, added |-> 0,
            performTime |-> Never, cancelTime |-> Never, reason |-> "none"]

BugIsTimedOut(x) == FALSE                             \* never too late
IsTimedOut(x) == clock >= x.added + TimeOut

Free == [op |-> "free"]
InFlight == Cardinality({w \in Web : web[w] # Free})
(* One query: the request gets a copy of the transaction. *)
Reading(w, request) ==
  /\ web[w] = Free
  /\ InFlight < MaxInFlight
  /\ web' = [web EXCEPT ![w] = request]
  /\ UNCHANGED <<trans, money, checks, told, env>>
End(w) == web' = [web EXCEPT ![w] = Free]
Answer(t, s) == told' = told \cup {<<t, s>>}

(* A call answered from what it reads, with nothing to write. *)
Answered(t, s) ==
  /\ trans[t].state = s
  /\ Answer(t, s)
  /\ UNCHANGED <<trans, money, web, checks, env>>

-----------------------------------------------------------------------------
(* CreateTransaction. *)

(* get_or_create of an id not seen before: the id is unique, so one of two
   concurrent calls makes the row and the other one finds it. *)
Create(t) ==
  \E c \in Customers :
    /\ account[c] = "active"
    /\ trans[t].state = "none"
    /\ trans' = [trans EXCEPT ![t] = [NoTrans EXCEPT
         !.state = "start", !.customer = c, !.added = clock]]
    /\ Answer(t, "start")
    /\ UNCHANGED <<money, web, checks, env>>

SomeoneActive == \E c \in Customers : account[c] = "active"

(* The same id again: answered while it may still be performed ... *)
CreateAgain(t) == SomeoneActive /\ ~IsTimedOut(trans[t]) /\ Answered(t, "start")

(* ... and cancelled when it is too late for that. *)
CreateLate(w, t) ==
  /\ SomeoneActive
  /\ trans[t].state = "start"
  /\ IsTimedOut(trans[t])
  /\ Reading(w, [op |-> "expire", t |-> t])

-----------------------------------------------------------------------------
(* PerformTransaction. *)

PerformLate(w, t) ==
  /\ trans[t].state = "start"
  /\ IsTimedOut(trans[t])
  /\ Reading(w, [op |-> "expire", t |-> t])

Perform(w, t) ==
  /\ trans[t].state = "start"
  /\ ~IsTimedOut(trans[t])
  /\ trans[t].customer # NoCustomer
  /\ Reading(w, [op |-> "perform", t |-> t, c |-> trans[t].customer])

PerformAgain(t) == Answered(t, "performed")

(* trans.customer: a query of its own. *)
ReadCustomer(w) ==
  /\ web[w].op = "perform"
  /\ account[web[w].c] # "gone"
  /\ web' = [web EXCEPT ![w] =
       [op |-> "credit", t |-> web[w].t, c |-> web[w].c, seen |-> balance[web[w].c]]]
  /\ UNCHANGED <<trans, money, checks, told, env>>

BugCredit(w) ==                                       \* no transaction.atomic()
  LET q == web[w] IN
  /\ q.op = "credit"
  /\ account[q.c] # "gone"
  /\ ledger' = [ledger EXCEPT ![q.c] = @ + Amount[q.t]]
  /\ \/ UNCHANGED <<balance, credits>>                 \* stops after the log line
     \/ /\ balance' = [balance EXCEPT ![q.c] = q.seen + Amount[q.t]]
        /\ credits' = [credits EXCEPT ![q.t] = @ + 1]  \* or after the balance
  /\ End(w)
  /\ UNCHANGED <<trans, checks, told, env>>

(* The transaction: log, balance, payment log and the new state. *)
Credit(w) ==
  LET q == web[w] IN
  /\ q.op = "credit"
  /\ account[q.c] # "gone"
  /\ balance' = [balance EXCEPT ![q.c] = q.seen + Amount[q.t]]
  /\ ledger' = [ledger EXCEPT ![q.c] = @ + Amount[q.t]]
  /\ credits' = [credits EXCEPT ![q.t] = @ + 1]
  /\ trans' = [trans EXCEPT ![q.t].state = "performed", ![q.t].performTime = clock]
  /\ web' = [web EXCEPT ![w] = [op |-> "notify", t |-> q.t, c |-> q.c]]
  /\ UNCHANGED <<checks, told, env>>

(* The customer is removed before he is read, or before the transaction
   writes: DoesNotExist, or a rollback. *)
PerformFails(w) ==
  /\ web[w].op \in {"perform", "credit"}
  /\ account[web[w].c] = "gone"
  /\ End(w)
  /\ UNCHANGED <<trans, money, checks, told, env>>

(* The check task, then the answer, from the copy. *)
Notify(w) ==
  /\ web[w].op = "notify"
  /\ checks' = checks \cup {web[w].c}
  /\ Answer(web[w].t, "performed")
  /\ End(w)
  /\ UNCHANGED <<trans, money, env>>

-----------------------------------------------------------------------------
(* CancelTransaction and the cancellation of what is too late. *)

BugCancel(w, t) ==                                    \* of anything not cancelled
  /\ trans[t].state \in {"start", "performed"}
  /\ Reading(w, [op |-> "cancel", t |-> t])

Cancel(w, t) ==
  /\ trans[t].state = "start"
  /\ Reading(w, [op |-> "cancel", t |-> t])

CancelAgain(t) == Answered(t, "cancelled")

(* cancel() looks at the copy's state only, which was START. *)
Written(t, reason) ==
  trans' = [trans EXCEPT ![t].state = "cancelled", ![t].cancelTime = clock, ![t].reason = reason]

WriteCancel(w) ==
  /\ web[w].op = "cancel"
  /\ Written(web[w].t, "asked")
  /\ Answer(web[w].t, "cancelled")
  /\ End(w)
  /\ UNCHANGED <<money, checks, env>>

(* The answer is an error: the transaction is timed out. *)
WriteExpire(w) ==
  /\ web[w].op = "expire"
  /\ Written(web[w].t, "timeout")
  /\ End(w)
  /\ UNCHANGED <<money, checks, told, env>>

(* CheckTransaction, and a line of GetStatement. *)
Check(t) == trans[t].state # "none" /\ Answered(t, trans[t].state)

-----------------------------------------------------------------------------
(* The rest of the system, and faults. *)

Spend == budget > 0 /\ budget' = budget - 1

(* A worker takes the check task: CustomerBilling models what it does. *)
CheckTaken(c) ==
  /\ c \in checks
  /\ checks' = checks \ {c}
  /\ UNCHANGED <<trans, money, web, told, env>>

SetActive(c) ==
  /\ account[c] # "gone"
  /\ Spend
  /\ account' = [account EXCEPT ![c] = IF @ = "active" THEN "disabled" ELSE "active"]
  /\ UNCHANGED <<trans, money, web, checks, told, clock>>

(* customer = ForeignKey(on_delete=SET_DEFAULT, default=None) *)
RemoveCustomer(c) ==
  /\ account[c] # "gone"
  /\ Spend
  /\ account' = [account EXCEPT ![c] = "gone"]
  /\ trans' = [t \in Transactions |->
       IF trans[t].customer = c THEN [trans[t] EXCEPT !.customer = NoCustomer] ELSE trans[t]]
  /\ UNCHANGED <<money, web, checks, told, clock>>

Crash(w) ==
  /\ web[w] # Free
  /\ Spend
  /\ End(w)
  /\ UNCHANGED <<trans, money, checks, told, account, clock>>

Tick ==
  /\ clock < MaxTime
  /\ clock' = clock + 1
  /\ UNCHANGED <<trans, money, web, checks, told, account, budget>>

-----------------------------------------------------------------------------
Init ==
  /\ trans = [t \in Transactions |-> NoTrans]
  /\ account = [c \in Customers |-> "active"]
  /\ balance = [c \in Customers |-> 0] /\ ledger = [c \in Customers |-> 0]
  /\ web = [w \in Web |-> Free]
  /\ checks = {} /\ told = {}
  /\ credits = [t \in Transactions |-> 0]
  /\ clock = 0 /\ budget = MaxFaults

Call(w, t) ==
  \/ Create(t) \/ CreateAgain(t) \/ CreateLate(w, t)
  \/ Perform(w, t) \/ PerformLate(w, t) \/ PerformAgain(t)
  \/ Cancel(w, t) \/ CancelAgain(t)
  \/ Check(t)

Serve(w) ==
  \/ ReadCustomer(w) \/ Credit(w) \/ PerformFails(w) \/ Notify(w)
  \/ WriteCancel(w) \/ WriteExpire(w)

Next ==
  \/ \E w \in Web : (\E t \in Transactions : Call(w, t)) \/ Serve(w) \/ Crash(w)
  \/ \E c \in Customers : CheckTaken(c) \/ SetActive(c) \/ RemoveCustomer(c)
  \/ Tick

(* A request being served goes on; the clock goes on; and the payment system
   asks again to perform what it started and has no final answer about. *)
Fairness ==
  /\ WF_vars(Tick)
  /\ \A w \in Web : WF_vars(Serve(w))
  /\ \A t \in Transactions : SF_vars(\E w \in Web : Perform(w, t) \/ PerformLate(w, t))

Spec == Init /\ [][Next]_vars
FairSpec == Spec /\ Fairness

-----------------------------------------------------------------------------
(* Properties. *)

Requests ==
  {Free} \cup [op : {"expire", "cancel"}, t : Transactions]
         \cup [op : {"perform", "notify"}, t : Transactions, c : Customers]
         \cup [op : {"credit"}, t : Transactions, c : Customers, seen : Nat]

TransRecord ==
  [state : States, customer : Customers \cup {NoCustomer}, added : Nat,
   performTime : Nat \cup {Never}, cancelTime : Nat \cup {Never}, reason : Reasons]

(* The types of all variables; a transaction refers to an existing customer or
   to none (PaymeTransactionModel.customer). *)
TypeOK ==
  /\ trans \in [Transactions -> TransRecord]
  /\ account \in [Customers -> {"active", "disabled", "gone"}]
  /\ balance \in [Customers -> Nat] /\ ledger \in [Customers -> Nat]
  /\ web \in [Web -> Requests]
  /\ checks \subseteq Customers
  /\ credits \in [Transactions -> Nat]
  /\ told \subseteq Transactions \X States
  /\ clock \in Nat /\ budget \in Nat
  /\ \A t \in Transactions :
       trans[t].customer # NoCustomer => account[trans[t].customer] # "gone"

(* However perform calls are repeated and overlap (provide_payment reads the
   state once and does not lock the row), an amount is credited at most as
   often as there are requests served at one time: only those that read START
   before the first of them commits.  With one at a time, at most once. *)
CreditedInFlight == \A t \in Transactions : credits[t] <= MaxInFlight

(* The money and the state of a transaction are one decision (provide_payment):
   perform_time is set if and only if the amount was credited, and neither
   the table nor an answer says performed of what was not. *)
PerformedIsCredited ==
  \A t \in Transactions :
    /\ trans[t].performTime # Never <=> credits[t] > 0
    /\ trans[t].state = "performed" \/ <<t, "performed">> \in told => credits[t] > 0

(* With requests served one at a time the log explains the balance, although
   perform may fail or die between its queries (the transaction of provide_payment). *)
BalanceIsLog == \A c \in Customers : balance[c] = ledger[c]

(* With requests served one at a time, what was performed stays performed and
   what was cancelled stays cancelled, an amount is credited exactly when the
   transaction is performed, and answers do not contradict each other
   (PaymeTransactionModelManager). *)
Promise == INSTANCE PaymentPromise WITH
  state <- [t \in Transactions |-> trans[t].state], credited <- credits
KeepsPromise == Promise!Spec

(* A transaction that was started is performed or cancelled in the end, by the
   time-out if nothing else, even when its customer was removed or a thread
   dies (start_transaction, provide_payment).  Only one whose time-out is within the
   bound of the clock is asked about. *)
StartedIsSettled ==
  \A t \in Transactions :
    trans[t].state = "start" /\ trans[t].added + TimeOut <= MaxTime
      ~> trans[t].state \in {"performed", "cancelled"}
=============================================================================
