-------------------------- MODULE PaymentRequests --------------------------
(***************************************************************************)
(* What the payment systems are answered (src/apps/fin_app): the requests  *)
(* of RNCB, AllTime and Payme with their codes, and the report by payments. *)
(* A request is served from beginning to end; Payme and CustomerBilling     *)
(* have those that overlap.                                                *)
(*                                                                         *)
(* db is [accounts, gateways, logs, trans]: accounts by their username, the *)
(* set of gateways, the payment logs in their order, transactions of Payme *)
(* by the id it gave them, state "none" for one it has not started.        *)
(***************************************************************************)
EXTENDS Integers, FiniteSets, SequencesExt

CONSTANT nothing                            \* a parameter that is not there

ServerError == 500
MaxPayId    == 2147483647                   \* RNCBPaymentLog.pay_id

(* The code of the first test that holds. *)
FirstOf(tests, otherwise) ==
  LET held == {i \in DOMAIN tests : tests[i][1]}
  IN  IF held = {} THEN otherwise ELSE tests[CHOOSE i \in held : \A j \in held : i <= j][2]

Answer(db, code, success, after) == [code |-> code, db |-> IF code = success THEN after ELSE db]
Unchanged(db, code) == [code |-> code, db |-> db]

(* fetch_customer_profile: of this site and turned on. *)
Known(db, r) ==
  r.account \in DOMAIN db.accounts
    /\ db.accounts[r.account].active /\ r.site \in db.accounts[r.account].sites

(* Managers of gateways show those of one type; a slug may be given twice, with
   another title. *)
Gateways(db, type, r)       == {g \in db.gateways : g.type = type /\ g.slug = r.slug}
GatewaysOfSite(db, type, r) == {g \in Gateways(db, type, r) : r.site \in g.sites}

Paid(db, type, pay) == \E i \in DOMAIN db.logs : db.logs[i].type = type /\ db.logs[i].pay = pay

(* add_balance, the balance and the payment log: one transaction. *)
Credit(db, type, r, who, amount) ==
  [db EXCEPT !.accounts[who].balance = @ + amount,
             !.logs = Append(@, [type |-> type, pay |-> r.pay, who |-> who,
                                 amount |-> amount, day |-> r.day, slug |-> r.slug])]

Total(logs) == FoldLeft(LAMBDA sum, l : sum + l.amount, 0, logs)

-----------------------------------------------------------------------------
(* RNCB.  OK 0, CUSTOMER_NOT_FOUND 1, DUPLICATE_TRANSACTION 10, UNKNOWN_CODE 100.
   payment_wrapper answers 1 to a request, and to an answer, that is not valid;
   maxSum is the first sum its answers have no digits for. *)

RncbCheck(db, r, maxSum) == Unchanged(db, FirstOf(<<
  <<~r.valid \/ ~Known(db, r), 1>>,
  <<Known(db, r) /\ db.accounts[r.account].balance >= maxSum, 1>> >>, 0))

(* The gateway is looked for by its title, in the transaction, on any site. *)
RncbPay(db, r) ==
  LET code == FirstOf(<<
        <<~r.valid \/ ~Known(db, r), 1>>,
        <<Paid(db, "rncb", r.pay), 10>>,
        <<Cardinality(Gateways(db, "rncb", r)) # 1 \/ r.pay > MaxPayId, ServerError>> >>, 0)
  IN  Answer(db, code, 0, Credit(db, "rncb", r, r.account, r.amount))

(* Payments of an interval, all gateways of RNCB; one of a removed customer has no
   name to show. *)
RncbPays(db, r) == SelectSeq(db.logs, LAMBDA l : l.type = "rncb" /\ l.day \in r.from .. r.to)
RncbBalance(db, r, maxSum) ==
  LET pays == RncbPays(db, r)
      code == FirstOf(<<
        <<~r.valid, 1>>,
        <<r.from >= r.to, 100>>,
        <<\E i \in DOMAIN pays : pays[i].who = nothing, ServerError>>,
        <<Total(pays) >= maxSum, 1>> >>, 0)
  IN  [code |-> code, db |-> db, sum |-> Total(pays), count |-> Len(pays)]

Rncb(db, r, maxSum) ==
  CASE r.query = "check"   -> RncbCheck(db, r, maxSum)
    [] r.query = "pay"     -> RncbPay(db, r)
    [] r.query = "balance" -> RncbBalance(db, r, maxSum)
    [] OTHER               -> Unchanged(db, 400)

-----------------------------------------------------------------------------
(* AllTime: ACT 1 asks who is there, 4 pays, 7 asks for a payment.  sign is right,
   wrong or nothing; fits, that the columns of the log can hold the request.  A sum
   that is no number is taken for zero. *)

Acts == {1, 4, 7}
AllTime(db, r) ==
  LET found == GatewaysOfSite(db, "alltime", r)
      sum   == IF r.amount = nothing THEN 0 ELSE r.amount
      code  == FirstOf(<<
        <<r.act \notin Acts \/ r.sign = nothing, -101>>,
        <<Cardinality(found) > 1, ServerError>>,
        <<found = {} \/ r.sign # TRUE, -101>>,
        <<r.act # 7 /\ ~Known(db, r), -40>>,
        <<r.act = 1, 21>>,
        <<r.act = 7, IF Paid(db, "alltime", r.pay) THEN 11 ELSE -10>>,
        <<r.pay = nothing, -101>>,
        <<~r.fits, -90>>,
        <<Paid(db, "alltime", r.pay), -100>> >>, 22)
  IN  Answer(db, code, 22, Credit(db, "alltime", r, r.account, sum))

-----------------------------------------------------------------------------
(* Payme.  trans[id] is [state, who, amount, late, time]; late, that a day is over
   since it was started. *)

Expired(t) == t.state = "start" /\ t.late
Cancelled(db, id) == [db EXCEPT !.trans[id].state = "cancelled"]
Endpoint(db, r) == GatewaysOfSite(db, "payme", r)

CheckPerform(db, r) == Unchanged(db, FirstOf(<<
  <<~r.valid, -32700>>,
  <<Cardinality(Endpoint(db, r)) > 1, ServerError>>,
  <<Endpoint(db, r) = {} \/ ~Known(db, r), -31050>> >>, 0))

(* No gateway is asked for.  A new one without a time has the number 0 for it,
   which the column refuses. *)
CreateTransaction(db, r) ==
  LET t == db.trans[r.id]
      code == FirstOf(<<
        <<~r.valid, -32700>>,
        <<~Known(db, r), -31050>>,
        <<t.state \in {"performed", "cancelled"} \/ Expired(t), -31008>>,
        <<t.state = "none" /\ r.time = nothing, ServerError>> >>, 0)
      new  == [state |-> "start", who |-> r.account, amount |-> r.amount,
               late |-> FALSE, time |-> r.time]
  IN  [code |-> code,
       db |-> IF code = 0 /\ t.state = "none" THEN [db EXCEPT !.trans[r.id] = new]
              ELSE IF code = -31008 /\ Expired(t) THEN Cancelled(db, r.id) ELSE db]

PerformTransaction(db, r) ==
  LET t == db.trans[r.id]
      code == FirstOf(<<
        <<~r.valid, -32700>>,
        <<Cardinality(Endpoint(db, r)) > 1, ServerError>>,
        <<Endpoint(db, r) = {}, -31050>>,
        <<t.state = "none", -31003>>,
        <<t.state = "cancelled" \/ Expired(t), -31008>>,
        <<t.state = "start" /\ t.who \notin DOMAIN db.accounts, -31050>> >>, 0)
  IN  [code |-> code,
       db |-> IF code = 0 /\ t.state = "start"
              THEN [Credit(db, "payme", r, t.who, t.amount) EXCEPT !.trans[r.id].state = "performed"]
              ELSE IF code = -31008 /\ Expired(t) THEN Cancelled(db, r.id) ELSE db]

CancelTransaction(db, r) ==
  LET t == db.trans[r.id]
      code == FirstOf(<<
        <<~r.valid, -32700>>,
        <<t.state = "none", -31003>>,
        <<t.state = "performed", -31007>> >>, 0)
  IN  Answer(db, code, 0, Cancelled(db, r.id))

CheckTransaction(db, r) == Unchanged(db, FirstOf(<<
  <<~r.valid, -32700>>,
  <<db.trans[r.id].state = "none", -31003>> >>, 0))

(* An end that is not given is the number 0, not a time: two of them are equal,
   one and a time cannot be compared.  A statement has all sites and gateways. *)
GetStatement(db, r) ==
  LET given == {r.from, r.to} \ {nothing}
      both  == r.from # nothing /\ r.to # nothing
      code  == FirstOf(<<
        <<~r.valid, -32700>>,
        <<given # {} /\ ~both, ServerError>>,
        <<given = {} \/ (both /\ r.from >= r.to), -31051>> >>, 0)
  IN  [code |-> code, db |-> db,
       ids |-> IF code # 0 THEN {}
               ELSE {id \in DOMAIN db.trans : /\ db.trans[id].state # "none"
                                              /\ db.trans[id].time \in r.from .. r.to}]

(* post: who calls, how, and what. *)
Payme(db, r) ==
  CASE ~r.auth -> Unchanged(db, -32504)
    [] r.auth /\ ~r.post -> Unchanged(db, -32300)
    [] r.auth /\ r.post ->
       (CASE r.method = "CheckPerformTransaction" -> CheckPerform(db, r)
          [] r.method = "CreateTransaction"  -> CreateTransaction(db, r)
          [] r.method = "PerformTransaction" -> PerformTransaction(db, r)
          [] r.method = "CancelTransaction"  -> CancelTransaction(db, r)
          [] r.method = "CheckTransaction"   -> CheckTransaction(db, r)
          [] r.method = "GetStatement"       -> GetStatement(db, r)
          [] OTHER -> Unchanged(db, -32601))

(* MilisecTimestampField: a number, in hours here, from 2000 to 2500. *)
TimeValid(hours) == 262966 < hours /\ hours < 4645893

-----------------------------------------------------------------------------
(* report_by_pays: sums by day, week, month or customer.  key gives the group of a
   log; of more groups than the limit any are shown. *)

Reported(db, r) == SelectSeq(db.logs, LAMBDA l :
  /\ l.day >= r.from
  /\ r.to # nothing => l.day <= r.to
  /\ (r.slug # nothing) => l.slug = r.slug)

GroupKey(l, groupBy) ==
  CASE groupBy = 1 -> l.day [] groupBy = 2 -> l.day \div 7
    [] groupBy = 3 -> l.day \div 30 [] groupBy = 4 -> l.who

Report(db, r) ==
  IF r.groupBy \notin 1 .. 4 THEN {}
  ELSE LET logs == Reported(db, r)
           keys == {GroupKey(logs[i], r.groupBy) : i \in DOMAIN logs}
           of(k) == SelectSeq(logs, LAMBDA l : GroupKey(l, r.groupBy) = k)
       IN  {[key |-> k, sum |-> Total(of(k)), count |-> Len(of(k))] : k \in keys}

ShownGroups(groups, limit) ==
  IF Cardinality(groups) <= limit THEN {groups}
  ELSE {shown \in SUBSET groups : Cardinality(shown) = limit}
=============================================================================
