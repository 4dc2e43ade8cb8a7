---------------------------- MODULE Payme_proofs ----------------------------
(***************************************************************************)
(* The transactions of Payme, for any customers, transactions, threads and *)
(* bounds: what holds however calls are repeated and overlap, and that the *)
(* handlers implement PaymentPromise when they do not overlap.             *)
(***************************************************************************)
EXTENDS Payme, FiniteSetTheorems, TLAPS

Assumptions == CustomerAssumption /\ AmountAssumption /\ PaymeBoundAssumption

-----------------------------------------------------------------------------
(* What a request in flight is made of, and what its steps do to the table. *)

LEMMA RequestShape ==
  ASSUME TypeOK, NEW w \in Web
  PROVE  /\ web[w].op \in {"expire", "cancel"} =>
              web[w] \in [op : {"expire", "cancel"}, t : Transactions]
         /\ web[w].op \in {"perform", "notify"} =>
              web[w] \in [op : {"perform", "notify"}, t : Transactions, c : Customers]
         /\ web[w].op = "credit" =>
              web[w] \in [op : {"credit"}, t : Transactions, c : Customers, seen : Nat]
<1>1. web[w] \in Requests
  BY DEF TypeOK
<1>2. Free.op = "free"
  BY DEF Free
<1> QED BY <1>1, <1>2 DEF Requests

LEMMA WebGoes ==
  ASSUME TypeOK, NEW w \in Web, NEW q \in Requests, web' = [web EXCEPT ![w] = q]
  PROVE  /\ web' \in [Web -> Requests]
         /\ web'[w] = q
         /\ \A v \in Web \ {w} : web'[v] = web[v]
BY DEF TypeOK

LEMMA WebEnds ==
  ASSUME TypeOK, NEW w \in Web, End(w)
  PROVE  /\ web' \in [Web -> Requests]
         /\ web'[w] = Free /\ web'[w].op = "free"
         /\ \A v \in Web \ {w} : web'[v] = web[v]
<1>1. Free \in Requests /\ Free.op = "free"
  BY DEF Requests, Free
<1> QED BY <1>1, WebGoes DEF End

LEMMA RowStarted ==
  ASSUME TypeOK, NEW t \in Transactions, NEW c \in Customers,
         trans' = [trans EXCEPT ![t] = [NoTrans EXCEPT
           !.state = "start", !.customer = c, !.added = clock]]
  PROVE  /\ trans' \in [Transactions -> TransRecord]
         /\ trans'[t].state = "start" /\ trans'[t].customer = c /\ trans'[t].performTime = Never
         /\ \A u \in Transactions \ {t} : trans'[u] = trans[u]
<1> DEFINE r == [NoTrans EXCEPT !.state = "start", !.customer = c, !.added = clock]
<1>1. /\ r.state = "start" /\ r.customer = c /\ r.performTime = Never
      /\ r \in TransRecord
  BY DEF NoTrans, TransRecord, TypeOK, States, Reasons
<1> HIDE DEF r
<1>2. trans' = [trans EXCEPT ![t] = r]
  BY DEF r
<1>3. trans \in [Transactions -> TransRecord]
  BY DEF TypeOK
<1>4. /\ trans' \in [Transactions -> TransRecord]
      /\ trans'[t] = r
      /\ \A u \in Transactions \ {t} : trans'[u] = trans[u]
  BY ONLY <1>1, <1>2, <1>3
<1> QED BY <1>1, <1>4

LEMMA RowCancelled ==
  ASSUME TypeOK, NEW t \in Transactions, NEW reason \in Reasons, Written(t, reason)
  PROVE  /\ trans' \in [Transactions -> TransRecord]
         /\ trans'[t].state = "cancelled"
         /\ trans'[t].customer = trans[t].customer
         /\ trans'[t].performTime = trans[t].performTime
         /\ \A u \in Transactions \ {t} : trans'[u] = trans[u]
<1> DEFINE r == [[[trans[t] EXCEPT !.state = "cancelled"] EXCEPT !.cancelTime = clock]
                   EXCEPT !.reason = reason]
<1>1. trans[t] \in TransRecord /\ clock \in Nat
  BY DEF TypeOK
<1>2. /\ r \in TransRecord /\ r.state = "cancelled" /\ r.customer = trans[t].customer
      /\ r.performTime = trans[t].performTime
  BY <1>1 DEF TransRecord, States, Reasons
<1>3. trans' = [trans EXCEPT ![t] = r]
  BY DEF Written, TypeOK
<1>4. trans \in [Transactions -> TransRecord]
  BY DEF TypeOK
<1> HIDE DEF r
<1>5. /\ trans' \in [Transactions -> TransRecord]
      /\ trans'[t] = r
      /\ \A u \in Transactions \ {t} : trans'[u] = trans[u]
  BY ONLY <1>2, <1>3, <1>4
<1> QED BY <1>2, <1>5

LEMMA RowPerformed ==
  ASSUME TypeOK, NEW t \in Transactions,
         trans' = [trans EXCEPT ![t].state = "performed", ![t].performTime = clock]
  PROVE  /\ trans' \in [Transactions -> TransRecord]
         /\ trans'[t].state = "performed"
         /\ trans'[t].customer = trans[t].customer
         /\ trans'[t].performTime = clock
         /\ \A u \in Transactions \ {t} : trans'[u] = trans[u]
<1> DEFINE r == [[trans[t] EXCEPT !.state = "performed"] EXCEPT !.performTime = clock]
<1>1. trans[t] \in TransRecord /\ clock \in Nat
  BY DEF TypeOK
<1>2. /\ r \in TransRecord /\ r.state = "performed" /\ r.customer = trans[t].customer
      /\ r.performTime = clock
  BY <1>1 DEF TransRecord, States
<1>3. trans' = [trans EXCEPT ![t] = r]
  BY DEF TypeOK
<1>4. trans \in [Transactions -> TransRecord]
  BY DEF TypeOK
<1> HIDE DEF r
<1>5. /\ trans' \in [Transactions -> TransRecord]
      /\ trans'[t] = r
      /\ \A u \in Transactions \ {t} : trans'[u] = trans[u]
  BY ONLY <1>2, <1>3, <1>4
<1> QED BY <1>2, <1>5

(* The key of the customer is all that a removal takes away. *)
LEMMA RowOrphaned ==
  ASSUME TypeOK, NEW c \in Customers, RemoveCustomer(c), NEW t \in Transactions
  PROVE  /\ trans'[t] \in TransRecord
         /\ trans'[t].state = trans[t].state /\ trans'[t].performTime = trans[t].performTime
         /\ trans'[t].customer # NoCustomer =>
              trans'[t].customer = trans[t].customer /\ trans[t].customer # c
<1>1. trans[t] \in TransRecord
  BY DEF TypeOK
<1>2. [trans[t] EXCEPT !.customer = NoCustomer] \in TransRecord
      /\ [trans[t] EXCEPT !.customer = NoCustomer].state = trans[t].state
      /\ [trans[t] EXCEPT !.customer = NoCustomer].performTime = trans[t].performTime
      /\ [trans[t] EXCEPT !.customer = NoCustomer].customer = NoCustomer
  BY <1>1 DEF TransRecord
<1>3. trans'[t] = IF trans[t].customer = c
                  THEN [trans[t] EXCEPT !.customer = NoCustomer] ELSE trans[t]
  BY DEF RemoveCustomer
<1> QED BY <1>1, <1>2, <1>3

-----------------------------------------------------------------------------
(* Types. *)

Referred == \A t \in Transactions :
  trans[t].customer # NoCustomer => account[trans[t].customer] # "gone"

(* A call: what it reads, and the row it may make. *)
LEMMA CallTypes ==
  ASSUME TypeOK, NEW w \in Web, NEW t \in Transactions, Call(w, t)
  PROVE  TypeOK'
<1>1. CASE Create(t)
  <2>1. PICK c \in Customers :
          /\ account[c] = "active"
          /\ trans' = [trans EXCEPT ![t] = [NoTrans EXCEPT
               !.state = "start", !.customer = c, !.added = clock]]
    BY <1>1 DEF Create
  <2>2. UNCHANGED <<money, web, checks, env>> /\ Answer(t, "start")
    BY <1>1 DEF Create
  <2>3. /\ trans' \in [Transactions -> TransRecord]
        /\ trans'[t].customer = c
        /\ \A u \in Transactions \ {t} : trans'[u] = trans[u]
    BY <2>1, RowStarted
  <2>4. Referred'
    BY <2>1, <2>2, <2>3 DEF Referred, TypeOK, env
  <2> QED BY <2>2, <2>3, <2>4 DEF TypeOK, Referred, Answer, States, money, env
<1>2. ASSUME NEW q \in Requests, Reading(w, q) PROVE TypeOK'
  <2>1. web' \in [Web -> Requests]
    BY <1>2, WebGoes DEF Reading
  <2> QED BY <1>2, <2>1 DEF Reading, TypeOK, money, env
<1>3. ASSUME NEW s \in States, Answered(t, s) PROVE TypeOK'
  BY <1>3 DEF Answered, Answer, TypeOK, money, env
<1>4. CASE CreateLate(w, t) \/ PerformLate(w, t)
  <2>1. [op |-> "expire", t |-> t] \in Requests
    BY DEF Requests
  <2> QED BY <1>2, <1>4, <2>1 DEF CreateLate, PerformLate
<1>5. CASE Cancel(w, t)
  <2>1. [op |-> "cancel", t |-> t] \in Requests
    BY DEF Requests
  <2> QED BY <1>2, <1>5, <2>1 DEF Cancel
<1>6. CASE Perform(w, t)
  <2>1. trans[t].customer \in Customers
    BY <1>6 DEF Perform, TypeOK, TransRecord
  <2>2. [op |-> "perform", t |-> t, c |-> trans[t].customer] \in Requests
    BY <2>1 DEF Requests
  <2> QED BY <1>2, <1>6, <2>2 DEF Perform
<1>7. CASE CreateAgain(t) \/ PerformAgain(t) \/ CancelAgain(t) \/ Check(t)
  <2>1. trans[t].state \in States
    BY DEF TypeOK, TransRecord
  <2> QED BY <1>3, <1>7, <2>1 DEF CreateAgain, PerformAgain, CancelAgain, Check, States
<1> QED BY <1>1, <1>4, <1>5, <1>6, <1>7 DEF Call

LEMMA ServeTypes ==
  ASSUME Assumptions, TypeOK, NEW w \in Web, Serve(w)
  PROVE  TypeOK'
<1> DEFINE q == web[w]
<1>1. CASE ReadCustomer(w)
  <2>1. q \in [op : {"perform", "notify"}, t : Transactions, c : Customers]
    BY <1>1, RequestShape DEF ReadCustomer
  <2>2. [op |-> "credit", t |-> q.t, c |-> q.c, seen |-> balance[q.c]] \in Requests
    BY <2>1 DEF Requests, TypeOK
  <2>3. web' \in [Web -> Requests]
    BY <1>1, <2>2, WebGoes DEF ReadCustomer
  <2> QED BY <1>1, <2>3 DEF ReadCustomer, TypeOK, money, env
<1>2. CASE Credit(w)
  <2>1. q \in [op : {"credit"}, t : Transactions, c : Customers, seen : Nat]
    BY <1>2, RequestShape DEF Credit
  <2>2. Amount[q.t] \in Nat
    BY <2>1 DEF Assumptions, AmountAssumption
  <2>3. /\ balance' \in [Customers -> Nat] /\ ledger' \in [Customers -> Nat]
        /\ credits' \in [Transactions -> Nat]
    BY <1>2, <2>1, <2>2 DEF Credit, TypeOK
  <2>4. [op |-> "notify", t |-> q.t, c |-> q.c] \in Requests
    BY <2>1 DEF Requests
  <2>5. web' \in [Web -> Requests]
    BY <1>2, <2>4, WebGoes DEF Credit
  <2>6. /\ trans' \in [Transactions -> TransRecord]
        /\ \A u \in Transactions : trans'[u].customer = trans[u].customer
    BY <1>2, <2>1, RowPerformed DEF Credit
  <2> QED BY <1>2, <2>3, <2>5, <2>6 DEF Credit, TypeOK, env
<1>3. CASE PerformFails(w)
  <2>1. web' \in [Web -> Requests]
    BY <1>3, WebEnds DEF PerformFails
  <2> QED BY <1>3, <2>1 DEF PerformFails, TypeOK, money, env
<1>4. CASE Notify(w)
  <2>1. q \in [op : {"perform", "notify"}, t : Transactions, c : Customers]
    BY <1>4, RequestShape DEF Notify
  <2>2. web' \in [Web -> Requests]
    BY <1>4, WebEnds DEF Notify
  <2> QED BY <1>4, <2>1, <2>2 DEF Notify, Answer, TypeOK, States, money, env
<1>5. CASE WriteCancel(w) \/ WriteExpire(w)
  <2>1. q \in [op : {"expire", "cancel"}, t : Transactions]
    BY <1>5, RequestShape DEF WriteCancel, WriteExpire
  <2>2. web' \in [Web -> Requests]
    BY <1>5, WebEnds DEF WriteCancel, WriteExpire
  <2>3. PICK reason \in Reasons : Written(q.t, reason)
    BY <1>5 DEF WriteCancel, WriteExpire, Reasons
  <2>4. q.t \in Transactions
    BY <2>1
  <2> HIDE DEF q
  <2>5. /\ trans' \in [Transactions -> TransRecord]
        /\ \A u \in Transactions : trans'[u].customer = trans[u].customer
    BY <2>3, <2>4, RowCancelled
  <2>6. told' \subseteq Transactions \X States
    BY <1>5, <2>4 DEF q, WriteCancel, WriteExpire, Answer, TypeOK, States
  <2> QED BY <1>5, <2>2, <2>5, <2>6 DEF WriteCancel, WriteExpire, TypeOK, money, env
<1> QED BY <1>1, <1>2, <1>3, <1>4, <1>5 DEF Serve

LEMMA OtherTypes ==
  ASSUME TypeOK,
         \/ \E w \in Web : Crash(w)
         \/ \E c \in Customers : CheckTaken(c) \/ SetActive(c) \/ RemoveCustomer(c)
         \/ Tick
         \/ UNCHANGED vars
  PROVE  TypeOK'
<1>1. CASE \E w \in Web : Crash(w)
  BY <1>1, WebEnds DEF Crash, Spend, TypeOK, money
<1>2. CASE \E c \in Customers : CheckTaken(c)
  BY <1>2 DEF CheckTaken, TypeOK, money, env
<1>3. CASE \E c \in Customers : SetActive(c)
  <2>1. PICK c \in Customers : SetActive(c)
    BY <1>3
  <2>2. /\ account' \in [Customers -> {"active", "disabled", "gone"}]
        /\ \A e \in Customers : account[e] # "gone" => account'[e] # "gone"
    BY <2>1 DEF SetActive, TypeOK
  <2>3. \A t \in Transactions : trans[t].customer \in Customers \cup {NoCustomer}
    BY DEF TypeOK, TransRecord
  <2> QED BY <2>1, <2>2, <2>3 DEF SetActive, Spend, TypeOK, money
<1>4. CASE \E c \in Customers : RemoveCustomer(c)
  <2>1. PICK c \in Customers : RemoveCustomer(c)
    BY <1>4
  <2>2. account' \in [Customers -> {"active", "disabled", "gone"}]
        /\ \A e \in Customers \ {c} : account'[e] = account[e]
    BY <2>1 DEF RemoveCustomer, TypeOK
  <2>3. \A t \in Transactions : trans'[t] \in TransRecord
    BY <2>1, RowOrphaned
  <2>4. trans' \in [Transactions -> TransRecord]
    BY <2>1, <2>3 DEF RemoveCustomer
  <2>5. \A t \in Transactions : trans'[t].customer # NoCustomer => account'[trans'[t].customer] # "gone"
    BY <2>1, <2>2, <2>4, RowOrphaned DEF TypeOK, TransRecord
  <2> QED BY <2>1, <2>2, <2>4, <2>5 DEF RemoveCustomer, Spend, TypeOK, money
<1>5. CASE Tick
  BY <1>5 DEF Tick, TypeOK, money
<1>6. CASE UNCHANGED vars
  BY <1>6 DEF vars, TypeOK, money, env
<1> QED BY <1>1, <1>2, <1>3, <1>4, <1>5, <1>6

LEMMA TypeStep ==
  ASSUME Assumptions, TypeOK, [Next]_vars
  PROVE  TypeOK'
BY CallTypes, ServeTypes, OtherTypes DEF Next

LEMMA TypeInit ==
  ASSUME Assumptions, Init
  PROVE  TypeOK
BY DEF Assumptions, PaymeBoundAssumption, Init, TypeOK, NoTrans, TransRecord, States, Reasons, Never,
       Requests, CustomerAssumption

(* The types are kept, and no transaction refers to a customer who is gone,
   although he may be removed between any two queries of a request. *)
THEOREM PaymeKeepsTypes ==
  ASSUME Assumptions
  PROVE  Spec => []TypeOK
<1>1. Init => TypeOK
  BY TypeInit
<1>2. TypeOK /\ [Next]_vars => TypeOK'
  BY TypeStep
<1> QED BY <1>1, <1>2, PTL DEF Spec

-----------------------------------------------------------------------------
(* Performed is credited. *)

(* Besides the property: the thread that answers has credited, and no
   transaction goes back to a state in which it may be performed. *)
CreditInv ==
  /\ PerformedIsCredited
  /\ \A w \in Web : web[w].op = "notify" => credits[web[w].t] > 0
  /\ \A t \in Transactions : trans[t].state \in {"none", "start"} => trans[t].performTime = Never

(* A step that credits nothing, performs nothing and says performed only of
   what the table says it of. *)
LEMMA QuietCredit ==
  ASSUME TypeOK, CreditInv, credits' = credits,
         \A t \in Transactions :
           /\ trans'[t].performTime = trans[t].performTime
           /\ trans'[t].state \in {"performed", "none", "start"} =>
                trans'[t].state = trans[t].state \/ (trans'[t].state = "start" /\ trans[t].state = "none"),
         \A t \in Transactions : <<t, "performed">> \in told' =>
           <<t, "performed">> \in told \/ credits[t] > 0,
         \A w \in Web : web'[w] = web[w] \/ web'[w].op # "notify"
  PROVE  CreditInv'
<1>1. PerformedIsCredited'
  BY DEF CreditInv, PerformedIsCredited
<1>2. \A w \in Web : web'[w].op = "notify" => credits'[web'[w].t] > 0
  BY DEF CreditInv
<1>3. \A t \in Transactions : trans'[t].state \in {"none", "start"} => trans'[t].performTime = Never
  BY DEF CreditInv
<1> QED BY <1>1, <1>2, <1>3 DEF CreditInv

LEMMA CallCredit ==
  ASSUME TypeOK, CreditInv, NEW w \in Web, NEW t \in Transactions, Call(w, t)
  PROVE  CreditInv'
<1>1. CASE Create(t)
  <2>1. PICK c \in Customers :
          trans' = [trans EXCEPT ![t] = [NoTrans EXCEPT
            !.state = "start", !.customer = c, !.added = clock]]
    BY <1>1 DEF Create
  <2>2. /\ trans'[t].state = "start" /\ trans'[t].performTime = Never
        /\ \A u \in Transactions \ {t} : trans'[u] = trans[u]
    BY <2>1, RowStarted
  <2>3. trans[t].state = "none" /\ trans[t].performTime = Never
    BY <1>1 DEF Create, CreditInv
  <2>4. credits' = credits /\ web' = web /\ told' = told \cup {<<t, "start">>}
    BY <1>1 DEF Create, Answer, money
  <2> QED BY <2>2, <2>3, <2>4, QuietCredit
<1>2. ASSUME NEW q \in Requests, q.op # "notify", Reading(w, q) PROVE CreditInv'
  <2>1. web'[w] = q /\ \A v \in Web \ {w} : web'[v] = web[v]
    BY <1>2, WebGoes DEF Reading
  <2> QED BY <1>2, <2>1, QuietCredit DEF Reading, money
<1>3. ASSUME NEW s, Answered(t, s) PROVE CreditInv'
  <2>1. s = "performed" => credits[t] > 0
    BY <1>3 DEF Answered, CreditInv, PerformedIsCredited
  <2> QED BY <1>3, <2>1, QuietCredit DEF Answered, Answer, money
<1>4. CASE CreateLate(w, t) \/ PerformLate(w, t)
  <2>1. [op |-> "expire", t |-> t] \in Requests
    BY DEF Requests
  <2> QED BY <1>2, <1>4, <2>1 DEF CreateLate, PerformLate
<1>5. CASE Cancel(w, t)
  <2>1. [op |-> "cancel", t |-> t] \in Requests
    BY DEF Requests
  <2> QED BY <1>2, <1>5, <2>1 DEF Cancel
<1>6. CASE Perform(w, t)
  <2>1. trans[t].customer \in Customers
    BY <1>6 DEF Perform, TypeOK, TransRecord
  <2>2. [op |-> "perform", t |-> t, c |-> trans[t].customer] \in Requests
    BY <2>1 DEF Requests
  <2> QED BY <1>2, <1>6, <2>2 DEF Perform
<1> QED BY <1>1, <1>3, <1>4, <1>5, <1>6
        DEF Call, CreateAgain, PerformAgain, CancelAgain, Check

LEMMA CreditCredit ==
  ASSUME Assumptions, TypeOK, CreditInv, NEW w \in Web, Credit(w)
  PROVE  CreditInv'
<1> DEFINE q == web[w]
           t == q.t
           n == [op |-> "notify", t |-> q.t, c |-> q.c]
<1>1. q \in [op : {"credit"}, t : Transactions, c : Customers, seen : Nat]
  BY RequestShape DEF Credit
<1>2. t \in Transactions /\ n \in Requests
  BY <1>1 DEF Requests
<1>3. /\ trans'[t].state = "performed" /\ trans'[t].performTime = clock
      /\ \A u \in Transactions \ {t} : trans'[u] = trans[u]
  BY <1>2, RowPerformed DEF Credit
<1>4. web'[w] = n /\ \A v \in Web \ {w} : web'[v] = web[v]
  BY <1>2, WebGoes DEF Credit
<1>5. credits' = [credits EXCEPT ![t] = @ + 1] /\ told' = told
  BY DEF Credit
<1>6. web'[w].t = t
  BY <1>4
<1> HIDE DEF q, t, n
<1>7. /\ credits'[t] = credits[t] + 1 /\ credits[t] \in Nat
      /\ \A u \in Transactions \ {t} : credits'[u] = credits[u]
  BY <1>2, <1>5 DEF TypeOK
<1>8. clock # Never
  BY DEF TypeOK, Never
<1>9. PerformedIsCredited'
  <2>1. told' = told /\ credits'[t] > 0
    BY <1>5, <1>7
  <2> SUFFICES ASSUME NEW u \in Transactions
               PROVE  /\ trans'[u].performTime # Never <=> credits'[u] > 0
                      /\ trans'[u].state = "performed" \/ <<u, "performed">> \in told' => credits'[u] > 0
    BY DEF PerformedIsCredited
  <2>2. CASE u = t
    BY <1>3, <1>8, <2>1, <2>2
  <2>3. CASE u # t
    BY <1>3, <1>7, <2>1, <2>3 DEF CreditInv, PerformedIsCredited
  <2> QED BY <2>2, <2>3
<1>10. \A v \in Web : web'[v].op = "notify" => credits'[web'[v].t] > 0
  <2>1. \A v \in Web : web[v].op = "notify" => web[v].t \in Transactions /\ credits[web[v].t] > 0
    BY RequestShape DEF CreditInv
  <2> QED BY <1>4, <1>6, <1>7, <2>1
<1>11. \A u \in Transactions : trans'[u].state \in {"none", "start"} => trans'[u].performTime = Never
  BY <1>3 DEF CreditInv
<1> QED BY <1>9, <1>10, <1>11 DEF CreditInv

LEMMA ServeCredit ==
  ASSUME Assumptions, TypeOK, CreditInv, NEW w \in Web, Serve(w)
  PROVE  CreditInv'
<1> DEFINE q == web[w]
<1>1. CASE ReadCustomer(w)
  <2>1. q \in [op : {"perform", "notify"}, t : Transactions, c : Customers]
    BY <1>1, RequestShape DEF ReadCustomer
  <2>2. [op |-> "credit", t |-> q.t, c |-> q.c, seen |-> balance[q.c]] \in Requests
    BY <2>1 DEF Requests, TypeOK
  <2>3. web'[w].op = "credit" /\ \A v \in Web \ {w} : web'[v] = web[v]
    BY <1>1, <2>2, WebGoes DEF ReadCustomer
  <2> QED BY <1>1, <2>3, QuietCredit DEF ReadCustomer, money
<1>2. CASE Credit(w)
  BY <1>2, CreditCredit
<1>3. CASE PerformFails(w)
  BY <1>3, WebEnds, QuietCredit DEF PerformFails, money
<1>4. CASE Notify(w)
  <2>1. credits[q.t] > 0
    BY <1>4 DEF Notify, CreditInv
  <2>2. told' = told \cup {<<q.t, "performed">>} /\ credits' = credits /\ trans' = trans
    BY <1>4 DEF Notify, Answer, money
  <2>3. web'[w].op = "free" /\ \A v \in Web \ {w} : web'[v] = web[v]
    BY <1>4, WebEnds DEF Notify
  <2> QED BY <2>1, <2>2, <2>3, QuietCredit
<1>5. CASE WriteCancel(w) \/ WriteExpire(w)
  <2>1. q.t \in Transactions
    BY <1>5, RequestShape DEF WriteCancel, WriteExpire
  <2>2. PICK reason \in Reasons : Written(q.t, reason)
    BY <1>5 DEF WriteCancel, WriteExpire, Reasons
  <2>3. web'[w].op = "free" /\ \A v \in Web \ {w} : web'[v] = web[v]
    BY <1>5, WebEnds DEF WriteCancel, WriteExpire
  <2>4. told' \in {told, told \cup {<<q.t, "cancelled">>}} /\ credits' = credits
    BY <1>5 DEF WriteCancel, WriteExpire, Answer, money
  <2> HIDE DEF q
  <2>5. /\ trans'[q.t].state = "cancelled" /\ trans'[q.t].performTime = trans[q.t].performTime
        /\ \A u \in Transactions \ {q.t} : trans'[u] = trans[u]
    BY <2>1, <2>2, RowCancelled
  <2> QED BY <2>3, <2>4, <2>5, QuietCredit
<1> QED BY <1>1, <1>2, <1>3, <1>4, <1>5 DEF Serve

LEMMA CreditStep ==
  ASSUME Assumptions, TypeOK, CreditInv, [Next]_vars
  PROVE  CreditInv'
<1>1. CASE \E w \in Web : Crash(w)
  BY <1>1, WebEnds, QuietCredit DEF Crash, money
<1>2. CASE \E c \in Customers : RemoveCustomer(c)
  <2>1. PICK c \in Customers : RemoveCustomer(c)
    BY <1>2
  <2>2. \A t \in Transactions :
          trans'[t].state = trans[t].state /\ trans'[t].performTime = trans[t].performTime
    BY <2>1, RowOrphaned
  <2> QED BY <2>1, <2>2, QuietCredit DEF RemoveCustomer, money
<1>3. CASE UNCHANGED <<trans, credits, told, web>>
  BY <1>3, QuietCredit
<1>4. ASSUME NEW c \in Customers, CheckTaken(c) \/ SetActive(c) PROVE CreditInv'
  BY <1>3, <1>4 DEF CheckTaken, SetActive, money
<1>5. CASE Tick \/ UNCHANGED vars
  BY <1>3, <1>5 DEF Tick, vars, money
<1> QED BY <1>1, <1>2, <1>4, <1>5, CallCredit, ServeCredit DEF Next

(* The money and the state of a transaction are one decision, and no answer
   says performed of what was not, however calls overlap and threads die. *)
THEOREM PerformedMeansCredited ==
  ASSUME Assumptions
  PROVE  Spec => []PerformedIsCredited
<1>1. Init => CreditInv
  BY DEF Init, CreditInv, PerformedIsCredited, NoTrans, Free
<1>2. TypeOK /\ CreditInv /\ [Next]_vars => CreditInv'
  BY CreditStep
<1>3. Spec => []CreditInv
  BY <1>1, <1>2, PaymeKeepsTypes, PTL DEF Spec
<1>4. CreditInv => PerformedIsCredited
  BY DEF CreditInv
<1> QED BY <1>3, <1>4, PTL

-----------------------------------------------------------------------------
(* An amount is credited at most as often as there are requests at one time. *)

Performing(t) == {w \in Web : web[w].op \in {"perform", "credit"} /\ web[w].t = t}

(* Every request that will credit a transaction counts as a credit of it: their
   number grows only while nothing has been credited. *)
CountInv == \A t \in Transactions : credits[t] + Cardinality(Performing(t)) <= MaxInFlight

LEMMA PerformingFinite ==
  ASSUME Assumptions, NEW t
  PROVE  IsFiniteSet(Performing(t)) /\ Cardinality(Performing(t)) \in Nat
<1>1. IsFiniteSet(Performing(t))
  BY FS_Subset DEF Performing, Assumptions, PaymeBoundAssumption
<1> QED BY <1>1, FS_CardinalityType

LEMMA NotYetCredited ==
  ASSUME TypeOK, CreditInv, NEW t \in Transactions, trans[t].state = "start"
  PROVE  credits[t] = 0
<1>1. trans[t].performTime = Never
  BY DEF CreditInv
<1>2. ~(credits[t] > 0)
  BY <1>1 DEF CreditInv, PerformedIsCredited
<1> QED BY <1>2 DEF TypeOK

LEMMA QuietCount ==
  ASSUME Assumptions, TypeOK, CountInv, credits' = credits,
         \A w \in Web : web'[w] = web[w] \/ web'[w].op \notin {"perform", "credit"}
                    \/ (web[w].op = "perform" /\ web'[w].t = web[w].t)
  PROVE  CountInv'
<1> SUFFICES ASSUME NEW t \in Transactions
             PROVE  credits[t] + Cardinality(Performing(t)') <= MaxInFlight
  BY DEF CountInv
<1>1. Performing(t)' \subseteq Performing(t)
  BY DEF Performing
<1>2. Cardinality(Performing(t)') <= Cardinality(Performing(t))
  BY <1>1, PerformingFinite, FS_Subset
<1>3. IsFiniteSet(Performing(t)') /\ Cardinality(Performing(t)') \in Nat
  BY <1>1, PerformingFinite, FS_Subset, FS_CardinalityType
<1> QED BY <1>2, <1>3, PerformingFinite DEF CountInv, TypeOK, Assumptions, PaymeBoundAssumption

LEMMA PerformCount ==
  ASSUME Assumptions, TypeOK, CreditInv, CountInv,
         NEW w \in Web, NEW t \in Transactions, Perform(w, t)
  PROVE  CountInv'
<1> DEFINE q == [op |-> "perform", t |-> t, c |-> trans[t].customer]
           Busy == {v \in Web : web[v] # Free}
<1>1. trans[t].customer \in Customers
  BY DEF Perform, TypeOK, TransRecord
<1>2. q \in Requests
  BY <1>1 DEF Requests
<1>3. web'[w] = q /\ \A v \in Web \ {w} : web'[v] = web[v]
  BY <1>2, WebGoes DEF Perform, Reading
<1>4. credits' = credits /\ credits[t] = 0 /\ InFlight < MaxInFlight
  BY NotYetCredited DEF Perform, Reading, money
<1>5. IsFiniteSet(Busy) /\ Cardinality(Busy) \in Nat /\ Cardinality(Busy) < MaxInFlight
  BY <1>4, FS_Subset, FS_CardinalityType DEF InFlight, Assumptions, PaymeBoundAssumption
<1>6. ASSUME NEW u \in Transactions, u # t
      PROVE  credits'[u] + Cardinality(Performing(u)') <= MaxInFlight
  <2>1. Performing(u)' = Performing(u)
    <3>1. w \notin Performing(u)
      BY DEF Performing, Perform, Reading, Free
    <3> QED BY <1>3, <1>6, <3>1 DEF Performing
  <2> QED BY <1>4, <2>1 DEF CountInv
<1>7. Performing(t)' \subseteq Busy \cup {w}
  <2>1. Free.op = "free"
    BY DEF Free
  <2> QED BY <1>3, <2>1 DEF Performing
<1> HIDE DEF Busy
<1>8. /\ IsFiniteSet(Busy \cup {w})
      /\ Cardinality(Busy \cup {w}) <= Cardinality(Busy) + 1
      /\ Cardinality(Busy \cup {w}) \in Nat
  BY <1>5, FS_AddElement, FS_CardinalityType
<1>9. Cardinality(Performing(t)') <= Cardinality(Busy \cup {w}) /\ Cardinality(Performing(t)') \in Nat
  BY <1>7, <1>8, FS_Subset, FS_CardinalityType
<1>10. Cardinality(Performing(t)') <= MaxInFlight
  BY <1>5, <1>8, <1>9 DEF Assumptions, PaymeBoundAssumption
<1> QED BY <1>4, <1>6, <1>9, <1>10 DEF CountInv

LEMMA CreditCount ==
  ASSUME Assumptions, TypeOK, CountInv, NEW w \in Web, Credit(w)
  PROVE  CountInv'
<1> DEFINE q == web[w]
           t == q.t
           n == [op |-> "notify", t |-> q.t, c |-> q.c]
<1>1. q \in [op : {"credit"}, t : Transactions, c : Customers, seen : Nat]
  BY RequestShape DEF Credit
<1>2. n \in Requests /\ t \in Transactions
  BY <1>1 DEF Requests
<1>3. web'[w] = n /\ \A v \in Web \ {w} : web'[v] = web[v]
  BY <1>2, WebGoes DEF Credit
<1>4. credits' = [credits EXCEPT ![t] = @ + 1]
  BY DEF Credit
<1>5. web'[w].op = "notify" /\ web[w].op = "credit" /\ web[w].t = t
  BY <1>1, <1>3
<1> HIDE DEF q, t, n
<1>6. ASSUME NEW u \in Transactions
      PROVE  Performing(u)' = Performing(u) \ {w} /\ (w \in Performing(u) <=> u = t)
  BY <1>3, <1>5 DEF Performing
<1>7. ASSUME NEW u \in Transactions, NEW P, P = Performing(u)
      PROVE  credits'[u] + Cardinality(P \ {w}) <= MaxInFlight
  <2>1. IsFiniteSet(P) /\ Cardinality(P) \in Nat /\ credits[u] \in Nat
        /\ credits[u] + Cardinality(P) <= MaxInFlight
    BY <1>7, PerformingFinite DEF CountInv, TypeOK
  <2>2. CASE u = t
    <3>1. w \in P /\ credits'[u] = credits[u] + 1
      BY <1>2, <1>4, <1>6, <1>7, <2>2 DEF TypeOK
    <3>2. Cardinality(P \ {w}) = Cardinality(P) - 1
      BY <2>1, <3>1, FS_RemoveElement
    <3> QED BY <2>1, <3>1, <3>2 DEF Assumptions, PaymeBoundAssumption
  <2>3. CASE u # t
    <3>1. w \notin P /\ credits'[u] = credits[u]
      BY <1>2, <1>4, <1>6, <1>7, <2>3 DEF TypeOK
    <3>2. P \ {w} = P
      BY <3>1
    <3> QED BY <2>1, <3>1, <3>2
  <2> QED BY <2>2, <2>3
<1> QED BY <1>6, <1>7 DEF CountInv

LEMMA CountStep ==
  ASSUME Assumptions, TypeOK, CreditInv, CountInv, [Next]_vars
  PROVE  CountInv'
<1>1. CASE UNCHANGED <<credits, web>>
  BY <1>1, QuietCount
<1>2. ASSUME NEW w \in Web, NEW t \in Transactions, Call(w, t)
      PROVE  CountInv'
  <2>1. ASSUME NEW q \in Requests, q.op \in {"expire", "cancel"}, Reading(w, q) PROVE CountInv'
    <3>1. web'[w] = q /\ \A v \in Web \ {w} : web'[v] = web[v]
      BY <2>1, WebGoes DEF Reading
    <3> QED BY <2>1, <3>1, QuietCount DEF Reading, money
  <2>2. CASE CreateLate(w, t) \/ PerformLate(w, t)
    <3>1. [op |-> "expire", t |-> t] \in Requests
      BY DEF Requests
    <3> QED BY <2>1, <2>2, <3>1 DEF CreateLate, PerformLate
  <2>3. CASE Cancel(w, t)
    <3>1. [op |-> "cancel", t |-> t] \in Requests
      BY DEF Requests
    <3> QED BY <2>1, <2>3, <3>1 DEF Cancel
  <2> QED BY <1>1, <1>2, <2>2, <2>3, PerformCount
          DEF Call, Create, CreateAgain, PerformAgain, CancelAgain, Check, Answered, money
<1>3. ASSUME NEW w \in Web, Serve(w)
      PROVE  CountInv'
  <2>1. CASE ReadCustomer(w)
    <3>1. web[w] \in [op : {"perform", "notify"}, t : Transactions, c : Customers]
      BY <2>1, RequestShape DEF ReadCustomer
    <3>2. [op |-> "credit", t |-> web[w].t, c |-> web[w].c, seen |-> balance[web[w].c]] \in Requests
      BY <3>1 DEF Requests, TypeOK
    <3>3. web'[w].t = web[w].t /\ web[w].op = "perform" /\ \A v \in Web \ {w} : web'[v] = web[v]
      BY <2>1, <3>2, WebGoes DEF ReadCustomer
    <3> QED BY <2>1, <3>3, QuietCount DEF ReadCustomer, money
  <2>2. CASE PerformFails(w) \/ Notify(w) \/ WriteCancel(w) \/ WriteExpire(w)
    <3>1. web'[w].op = "free" /\ \A v \in Web \ {w} : web'[v] = web[v]
      BY <2>2, WebEnds DEF PerformFails, Notify, WriteCancel, WriteExpire
    <3>2. credits' = credits
      BY <2>2 DEF PerformFails, Notify, WriteCancel, WriteExpire, money
    <3> QED BY <3>1, <3>2, QuietCount
  <2> QED BY <1>3, <2>1, <2>2, CreditCount DEF Serve
<1>4. CASE \E w \in Web : Crash(w)
  BY <1>4, WebEnds, QuietCount DEF Crash, money
<1>5. CASE \/ \E c \in Customers : CheckTaken(c) \/ SetActive(c) \/ RemoveCustomer(c)
           \/ Tick
           \/ UNCHANGED vars
  BY <1>1, <1>5 DEF CheckTaken, SetActive, RemoveCustomer, Tick, vars, money
<1> QED BY <1>2, <1>3, <1>4, <1>5 DEF Next

(* However often perform is repeated and overlaps, an amount is credited at most
   as often as requests are served at one time; with one at a time, once. *)
THEOREM CreditedAtMostInFlight ==
  ASSUME Assumptions
  PROVE  Spec => []CreditedInFlight
<1>1. Init => CreditInv /\ CountInv
  <2> SUFFICES ASSUME Init PROVE CreditInv /\ CountInv
    OBVIOUS
  <2>1. CreditInv
    BY DEF Init, CreditInv, PerformedIsCredited, NoTrans, Free
  <2>2. \A t \in Transactions : Performing(t) = {} /\ credits[t] = 0
    BY DEF Init, Performing, Free
  <2> QED BY <2>1, <2>2, FS_EmptySet DEF CountInv, Assumptions, PaymeBoundAssumption
<1>2. TypeOK /\ CreditInv /\ [Next]_vars => CreditInv'
  BY CreditStep
<1>3. TypeOK /\ CreditInv /\ CountInv /\ [Next]_vars => CountInv'
  BY CountStep
<1>4. Spec => [](TypeOK /\ CountInv)
  BY <1>1, <1>2, <1>3, PaymeKeepsTypes, PTL DEF Spec
<1>5. TypeOK /\ CountInv => CreditedInFlight
  BY PerformingFinite DEF TypeOK, CountInv, CreditedInFlight, Assumptions, PaymeBoundAssumption
<1> QED BY <1>4, <1>5, PTL

-----------------------------------------------------------------------------
(* One request at a time: the log explains the balance, and the handlers do
   what PaymentPromise promises. *)

Serial == MaxInFlight = 1

(* The only request in flight works on copies that are still true. *)
SerialInv ==
  /\ \A v, w \in Web : web[v] # Free /\ web[w] # Free => v = w
  /\ \A w \in Web : web[w].op \in {"perform", "credit", "cancel", "expire"} =>
       trans[web[w].t].state = "start"
  /\ \A w \in Web : web[w].op = "notify" => trans[web[w].t].state = "performed"
  /\ \A w \in Web : web[w].op = "credit" => web[w].seen = balance[web[w].c]
  /\ BalanceIsLog

LEMMA NothingRuns ==
  ASSUME Assumptions, Serial, InFlight < MaxInFlight
  PROVE  \A w \in Web : web[w] = Free
<1> DEFINE Busy == {w \in Web : web[w] # Free}
<1>1. IsFiniteSet(Busy)
  BY FS_Subset DEF Assumptions, PaymeBoundAssumption
<1>2. Cardinality(Busy) \in Nat /\ Cardinality(Busy) < 1
  BY <1>1, FS_CardinalityType DEF InFlight, Serial
<1>3. Cardinality(Busy) = 0
  <2> HIDE DEF Busy
  <2> QED BY <1>2
<1>4. Busy = {}
  BY <1>1, <1>3, FS_EmptySet
<1> QED BY <1>4

LEMMA OthersFree ==
  ASSUME SerialInv, NEW w \in Web, web[w].op # "free"
  PROVE  \A v \in Web \ {w} : web[v] = Free
<1>1. web[w] # Free
  BY DEF Free
<1> QED BY <1>1 DEF SerialInv

(* After a step all threads are free, but perhaps w, at q. *)
LEMMA SerialFrom ==
  ASSUME NEW w \in Web, NEW q, web'[w] = q, \A v \in Web \ {w} : web'[v] = Free,
         q.op \in {"perform", "credit", "cancel", "expire"} => trans'[q.t].state = "start",
         q.op = "notify" => trans'[q.t].state = "performed",
         q.op = "credit" => q.seen = balance'[q.c],
         BalanceIsLog'
  PROVE  SerialInv'
<1>1. Free.op = "free"
  BY DEF Free
<1> QED BY <1>1 DEF SerialInv

LEMMA SerialKept ==
  ASSUME TypeOK, SerialInv, UNCHANGED <<web, balance, ledger>>,
         \A t \in Transactions : trans'[t].state = trans[t].state \/ trans[t].state = "none"
  PROVE  SerialInv'
<1>1. \A w \in Web : web[w].op \in {"perform", "credit", "cancel", "expire", "notify"} =>
        web[w].t \in Transactions
  BY RequestShape
<1> QED BY <1>1 DEF SerialInv, BalanceIsLog

(* The step of a thread that answers and ends. *)
LEMMA SerialEnds ==
  ASSUME TypeOK, SerialInv, NEW w \in Web, web[w].op # "free", End(w), BalanceIsLog'
  PROVE  SerialInv'
<1>1. \A v \in Web \ {w} : web'[v] = Free
  BY OthersFree, WebEnds
<1>2. web'[w] = Free /\ Free.op = "free"
  BY WebEnds DEF Free
<1> QED BY <1>1, <1>2, SerialFrom

Promised == Promise!Next \/ UNCHANGED Promise!vars

LEMMA Stutter ==
  ASSUME told' = told, credits' = credits,
         \A t \in Transactions : trans'[t].state = trans[t].state
  PROVE  Promised
BY DEF Promised, Promise!vars

LEMMA AnswerPromised ==
  ASSUME NEW t \in Transactions, NEW s, trans[t].state = s, s # "none",
         UNCHANGED <<trans, credits>>, Answer(t, s)
  PROVE  Promised
<1>1. Promise!Answer(t)
  BY DEF Promise!Answer, Promise!MayAnswer, Answer
<1> QED BY <1>1 DEF Promised, Promise!Next

LEMMA CallSerial ==
  ASSUME Assumptions, Serial, TypeOK, SerialInv, NEW w \in Web, NEW t \in Transactions, Call(w, t)
  PROVE  SerialInv' /\ Promised
<1>1. CASE Create(t)
  <2>1. PICK c \in Customers :
          trans' = [trans EXCEPT ![t] = [NoTrans EXCEPT
            !.state = "start", !.customer = c, !.added = clock]]
    BY <1>1 DEF Create
  <2>2. /\ trans'[t].state = "start" /\ trans[t].state = "none"
        /\ \A u \in Transactions \ {t} : trans'[u] = trans[u]
    BY <1>1, <2>1, RowStarted DEF Create
  <2>3. UNCHANGED <<web, balance, ledger, credits>> /\ told' = told \cup {<<t, "start">>}
    BY <1>1 DEF Create, Answer, money
  <2>4. SerialInv'
    BY <2>2, <2>3, SerialKept
  <2>5. Promise!Start(t)
    BY <2>2, <2>3 DEF Promise!Start, Promise!MayAnswer
  <2> QED BY <2>4, <2>5 DEF Promised, Promise!Next
<1>2. ASSUME NEW q \in Requests, q.op \in {"perform", "cancel", "expire"},
             trans[q.t].state = "start", Reading(w, q)
      PROVE  SerialInv' /\ Promised
  <2>1. UNCHANGED <<trans, balance, ledger, credits, told>>
    BY <1>2 DEF Reading, money
  <2>2. web'[w] = q /\ \A v \in Web \ {w} : web'[v] = Free
    BY <1>2, NothingRuns, WebGoes DEF Reading
  <2>3. BalanceIsLog'
    BY <2>1 DEF SerialInv, BalanceIsLog
  <2>4. SerialInv'
    BY <1>2, <2>1, <2>2, <2>3, SerialFrom
  <2> QED BY <2>1, <2>4, Stutter
<1>3. ASSUME NEW s, s # "none", Answered(t, s)
      PROVE  SerialInv' /\ Promised
  <2>1. SerialInv'
    BY <1>3, SerialKept DEF Answered, money
  <2>2. Promised
    BY <1>3, AnswerPromised DEF Answered, money
  <2> QED BY <2>1, <2>2
<1>4. CASE CreateLate(w, t) \/ PerformLate(w, t)
  <2> DEFINE q == [op |-> "expire", t |-> t]
  <2>1. q \in Requests /\ q.op = "expire" /\ q.t = t
    BY DEF Requests
  <2>2. Reading(w, q) /\ trans[t].state = "start"
    BY <1>4 DEF CreateLate, PerformLate
  <2> HIDE DEF q
  <2> QED BY <1>2, <2>1, <2>2
<1>5. CASE Cancel(w, t)
  <2> DEFINE q == [op |-> "cancel", t |-> t]
  <2>1. q \in Requests /\ q.op = "cancel" /\ q.t = t
    BY DEF Requests
  <2>2. Reading(w, q) /\ trans[t].state = "start"
    BY <1>5 DEF Cancel
  <2> HIDE DEF q
  <2> QED BY <1>2, <2>1, <2>2
<1>6. CASE Perform(w, t)
  <2> DEFINE q == [op |-> "perform", t |-> t, c |-> trans[t].customer]
  <2>1. trans[t].customer \in Customers
    BY <1>6 DEF Perform, TypeOK, TransRecord
  <2>2. q \in Requests /\ q.op = "perform" /\ q.t = t
    BY <2>1 DEF Requests
  <2>3. Reading(w, q) /\ trans[t].state = "start"
    BY <1>6 DEF Perform
  <2> HIDE DEF q
  <2> QED BY <1>2, <2>2, <2>3
<1>7. CASE CreateAgain(t) \/ PerformAgain(t) \/ CancelAgain(t) \/ Check(t)
  BY <1>3, <1>7 DEF CreateAgain, PerformAgain, CancelAgain, Check
<1> QED BY <1>1, <1>4, <1>5, <1>6, <1>7 DEF Call

LEMMA CreditSerial ==
  ASSUME Assumptions, TypeOK, SerialInv, NEW w \in Web, Credit(w)
  PROVE  SerialInv' /\ Promised
<1> DEFINE q == web[w]
           t == q.t
           c == q.c
           n == [op |-> "notify", t |-> q.t, c |-> q.c]
<1>1. q \in [op : {"credit"}, t : Transactions, c : Customers, seen : Nat]
  BY RequestShape DEF Credit
<1>2. n \in Requests /\ n.op = "notify" /\ n.t = t /\ t \in Transactions /\ c \in Customers
  BY <1>1 DEF Requests
<1>3. web'[w] = n /\ \A v \in Web \ {w} : web'[v] = Free
  BY <1>2, WebGoes, OthersFree DEF Credit
<1>4. q.seen = balance[c] /\ trans[t].state = "start"
  BY DEF Credit, SerialInv
<1>5. /\ balance' = [balance EXCEPT ![c] = q.seen + Amount[t]]
      /\ ledger' = [ledger EXCEPT ![c] = @ + Amount[t]]
      /\ credits' = [credits EXCEPT ![t] = @ + 1] /\ told' = told
  BY DEF Credit
<1>6. /\ trans'[t].state = "performed"
      /\ \A u \in Transactions \ {t} : trans'[u] = trans[u]
  BY <1>2, RowPerformed DEF Credit
<1> HIDE DEF q, t, c, n
<1>7. BalanceIsLog'
  BY <1>2, <1>4, <1>5 DEF TypeOK, SerialInv, BalanceIsLog
<1>8. SerialInv'
  BY <1>2, <1>3, <1>6, <1>7, SerialFrom
<1>9. PICK u \in Transactions : u = t
  BY <1>2
<1>10. Promise!Perform(u)
  BY <1>2, <1>4, <1>5, <1>6, <1>9 DEF Promise!Perform, Promise!MayAnswer
<1> QED BY <1>8, <1>10 DEF Promised, Promise!Next

LEMMA ServeSerial ==
  ASSUME Assumptions, TypeOK, SerialInv, NEW w \in Web, Serve(w)
  PROVE  SerialInv' /\ Promised
<1> DEFINE q == web[w]
<1>1. CASE ReadCustomer(w)
  <2> DEFINE n == [op |-> "credit", t |-> q.t, c |-> q.c, seen |-> balance[q.c]]
  <2>1. q \in [op : {"perform", "notify"}, t : Transactions, c : Customers]
    BY <1>1, RequestShape DEF ReadCustomer
  <2>2. n \in Requests /\ n.op = "credit" /\ n.t = q.t /\ n.seen = balance[n.c]
    BY <2>1 DEF Requests, TypeOK
  <2>3. web'[w] = n /\ \A v \in Web \ {w} : web'[v] = Free
    BY <1>1, <2>2, WebGoes, OthersFree DEF ReadCustomer
  <2>4. UNCHANGED <<trans, balance, ledger, credits, told>> /\ trans[q.t].state = "start"
    BY <1>1 DEF ReadCustomer, money, SerialInv
  <2> HIDE DEF n
  <2>5. BalanceIsLog'
    BY <2>4 DEF SerialInv, BalanceIsLog
  <2>6. SerialInv'
    BY <2>2, <2>3, <2>4, <2>5, SerialFrom
  <2> QED BY <2>4, <2>6, Stutter
<1>2. CASE Credit(w)
  BY <1>2, CreditSerial
<1>3. CASE PerformFails(w)
  <2>1. UNCHANGED <<trans, balance, ledger, credits, told>> /\ End(w) /\ web[w].op # "free"
    BY <1>3 DEF PerformFails, money
  <2>2. BalanceIsLog'
    BY <2>1 DEF SerialInv, BalanceIsLog
  <2> QED BY <2>1, <2>2, SerialEnds, Stutter
<1>4. CASE Notify(w)
  <2>1. /\ UNCHANGED <<trans, balance, ledger, credits>> /\ End(w) /\ web[w].op # "free"
        /\ Answer(q.t, "performed") /\ trans[q.t].state = "performed"
        /\ q.t \in Transactions
    BY <1>4, RequestShape DEF Notify, money, SerialInv
  <2>2. BalanceIsLog'
    BY <2>1 DEF SerialInv, BalanceIsLog
  <2>3. Promised
    BY <2>1, AnswerPromised
  <2> QED BY <2>1, <2>2, <2>3, SerialEnds
<1>5. CASE WriteCancel(w) \/ WriteExpire(w)
  <2> DEFINE t == q.t
  <2>1. t \in Transactions /\ trans[t].state = "start"
    BY <1>5, RequestShape DEF WriteCancel, WriteExpire, SerialInv
  <2>2. PICK reason \in Reasons : Written(t, reason)
    BY <1>5 DEF WriteCancel, WriteExpire, Reasons
  <2>3. /\ told' \in {told, told \cup {<<t, "cancelled">>}}
        /\ UNCHANGED <<balance, ledger, credits>> /\ End(w) /\ web[w].op # "free"
    BY <1>5 DEF WriteCancel, WriteExpire, Answer, money
  <2> HIDE DEF q, t
  <2>4. trans'[t].state = "cancelled" /\ \A u \in Transactions \ {t} : trans'[u] = trans[u]
    BY <2>1, <2>2, RowCancelled
  <2>5. BalanceIsLog'
    BY <2>3 DEF SerialInv, BalanceIsLog
  <2>6. SerialInv'
    BY <2>3, <2>5, SerialEnds
  <2>7. PICK u \in Transactions : u = t
    BY <2>1
  <2>8. Promise!Cancel(u)
    BY <2>1, <2>3, <2>4, <2>7 DEF Promise!Cancel, Promise!MayAnswer
  <2> QED BY <2>6, <2>8 DEF Promised, Promise!Next
<1> QED BY <1>1, <1>2, <1>3, <1>4, <1>5 DEF Serve

LEMMA SerialStep ==
  ASSUME Assumptions, Serial, TypeOK, SerialInv, [Next]_vars
  PROVE  SerialInv' /\ Promised
<1>1. ASSUME NEW w \in Web, Crash(w) PROVE SerialInv' /\ Promised
  <2>1. UNCHANGED <<trans, balance, ledger, credits, told>> /\ End(w) /\ web[w] # Free
    BY <1>1 DEF Crash, money
  <2>2. BalanceIsLog'
    BY <2>1 DEF SerialInv, BalanceIsLog
  <2>3. web[w].op # "free"
    BY <2>1, RequestShape DEF TypeOK, Requests
  <2> QED BY <2>1, <2>2, <2>3, SerialEnds, Stutter
<1>2. CASE \E c \in Customers : RemoveCustomer(c)
  <2>1. PICK c \in Customers : RemoveCustomer(c)
    BY <1>2
  <2>2. \A t \in Transactions : trans'[t].state = trans[t].state
    BY <2>1, RowOrphaned
  <2>3. UNCHANGED <<web, balance, ledger, credits, told>>
    BY <2>1 DEF RemoveCustomer, money
  <2> QED BY <2>2, <2>3, SerialKept, Stutter
<1>3. CASE UNCHANGED <<trans, web, balance, ledger, credits, told>>
  BY <1>3, SerialKept, Stutter
<1>4. CASE \/ \E c \in Customers : CheckTaken(c) \/ SetActive(c)
           \/ Tick
           \/ UNCHANGED vars
  BY <1>3, <1>4 DEF CheckTaken, SetActive, Tick, vars, money
<1> QED BY <1>1, <1>2, <1>4, CallSerial, ServeSerial DEF Next

LEMMA SerialInit ==
  ASSUME Init
  PROVE  SerialInv
BY DEF Init, SerialInv, BalanceIsLog, Free

(* One request at a time: the log explains the balance, although a perform may
   fail or die between its queries. *)
THEOREM LogIsBalance ==
  ASSUME Assumptions, Serial
  PROVE  Spec => []BalanceIsLog
<1>1. TypeOK /\ SerialInv /\ [Next]_vars => SerialInv'
  BY SerialStep
<1>2. Spec => []SerialInv
  BY <1>1, SerialInit, PaymeKeepsTypes, PTL DEF Spec
<1>3. SerialInv => BalanceIsLog
  BY DEF SerialInv
<1> QED BY <1>2, <1>3, PTL

(* One request at a time: the handlers implement PaymentPromise. *)
THEOREM PromiseKept ==
  ASSUME Assumptions, Serial
  PROVE  Spec => KeepsPromise
<1>1. Init => Promise!Init
  BY DEF Init, Promise!Init, NoTrans
<1>2. TypeOK /\ SerialInv /\ [Next]_vars => SerialInv' /\ [Promise!Next]_(Promise!vars)
  BY SerialStep DEF Promised
<1> QED BY <1>1, <1>2, SerialInit, PaymeKeepsTypes, PTL DEF Spec, KeepsPromise, Promise!Spec
=============================================================================
