----------------------------- MODULE Contracts -----------------------------
(***************************************************************************)
(* Contracts of customers, the accounts they keep enabled, and the legal   *)
(* entities whose branches customers may be (src/apps/customer_contract,   *)
(* Customer.save and the profile requests of src/apps/customers,           *)
(* src/apps/customers_legal, and the checks that src/apps/sorm_export      *)
(* hangs on their signals).                                                *)
(*                                                                         *)
(* None of these requests runs in a transaction.  To finish a contract     *)
(* takes three statements, and to enable an account three: they are        *)
(* actions of their own, and the copies a request works on are in web[w].  *)
(***************************************************************************)
EXTENDS Integers, FiniteSets

CONSTANTS
  Contracts,
  Customers,
  Legals,        \* legal entities
  Dates,         \* the start of a contract, with its number
  Web,           \* web server threads
  Sorm,          \* the application sorm_export is installed
  MaxFaults,     \* bound: threads that die
  MaxChanges,    \* bound: contracts and legal entities changed by staff
  MaxInFlight    \* bound: requests served at one time

SormAssumption == Sorm \in BOOLEAN
ContractBoundAssumption ==
  /\ IsFiniteSet(Web)
  /\ MaxFaults \in Nat /\ MaxChanges \in Nat /\ MaxInFlight \in Nat

VARIABLES
  account,     \* Customer.is_active: "on" or "off"; "none" before, "gone" after
  contract,    \* the table of contracts
  legal,       \* actual_start_time of a legal entity, {} before it is made
  branches,    \* CustomerLegalModel.branches
  web,         \* the request each thread works on
  raced,       \* ghost: enabled while a contract of theirs was being finished
  moved,       \* ghost: were given a finished contract by a change
  waived,      \* ghost: enabled without a check, or lost what was checked
  budget

ghosts == <<raced, moved, waived>>
firms  == <<legal, branches>>
vars   == <<account, contract, firms, web, ghosts, budget>>

-----------------------------------------------------------------------------
(* Contracts of a customer, and the requests at work on them. *)

Missing == [state |-> "none"]
Gone    == [state |-> "gone"]      \* an id is given once
Is(c)   == account[c] \in {"on", "off"}
Has(k)  == contract[k] \notin {Missing, Gone}
Signed(state, c, d) == [state |-> state, customer |-> c, start |-> d]
Of(c) == {k \in Contracts : Has(k) /\ contract[k].customer = c}
Finished(c) == {k \in Of(c) : contract[k].state = "finished"}
IsBranch(c) == \E l \in Legals : c \in branches[l]

Free == [op |-> "free"]
InFlight == Cardinality({w \in Web : web[w] # Free})
Begin(w, request) ==
  /\ web[w] = Free
  /\ InFlight < MaxInFlight
  /\ web' = [web EXCEPT ![w] = request]
Goes(w, request) == web' = [web EXCEPT ![w] = request]
End(w) == Goes(w, Free)
Enabling(c)  == \E w \in Web : web[w].op = "enable" /\ web[w].c = c
Finishing(k) == \E w \in Web : web[w].op \in {"finish", "save"} /\ web[w].k = k
Closing(c)   == \E w \in Web : web[w].op = "save" /\ web[w].seen.customer = c

Spend(what) == budget[what] > 0 /\ budget' = [budget EXCEPT ![what] = @ - 1]

-----------------------------------------------------------------------------
(* Contracts: made, changed by a query that calls no save, removed. *)

NewContract(k, c, d) ==
  /\ contract[k] = Missing /\ Is(c)
  /\ contract' = [contract EXCEPT ![k] = Signed("active", c, d)]
  /\ UNCHANGED <<account, firms, web, ghosts, budget>>

(* The PATCH is queryset.update: it meets neither save() nor a signal. *)
ChangeContract(k, c, d) ==
  LET old == contract[k] IN
  /\ Has(k) /\ Is(c)
  /\ Spend("changes")
  /\ contract' = [contract EXCEPT ![k] = Signed(old.state, c, d)]
  /\ moved' = IF old.customer # c /\ (old.state = "finished" \/ Finishing(k))
              THEN moved \cup {c} ELSE moved
  /\ waived' = IF old.customer # c THEN waived \cup {old.customer} ELSE waived
  /\ UNCHANGED <<account, firms, web, raced>>

(* sorm_export refuses it: its pre_delete raises LogicError. *)
DeleteContract(k) ==
  /\ ~Sorm
  /\ Has(k)
  /\ contract' = [contract EXCEPT ![k] = Gone]
  /\ UNCHANGED <<account, firms, web, ghosts, budget>>

(* CustomerContractModel.finish: the contract is read ... *)
Finish(w, k) ==
  /\ Has(k)
  /\ Begin(w, [op |-> "finish", k |-> k, seen |-> contract[k]])
  /\ UNCHANGED <<account, contract, firms, ghosts, budget>>

(* ... the signal disables the customer of that copy ... *)
DisableCustomer(w) ==
  LET q == web[w] IN
  /\ q.op = "finish"
  /\ Is(q.seen.customer)
  /\ account' = [account EXCEPT ![q.seen.customer] = "off"]
  /\ Goes(w, [q EXCEPT !.op = "save"])
  /\ UNCHANGED <<contract, firms, ghosts, budget>>

(* What the pre_save of sorm_export compares, and the row must be there. *)
MaySave(q) == Has(q.k) /\ (Sorm => contract[q.k].start = q.seen.start)

(* ... and the contract is saved, two columns of it. *)
SaveFinished(w) ==
  LET q == web[w] IN
  /\ q.op = "save"
  /\ MaySave(q)
  /\ contract' = [contract EXCEPT ![q.k].state = "finished"]
  /\ raced' = raced \cup {c \in Customers : contract[q.k].customer = c /\ Enabling(c)}
  /\ End(w)
  /\ UNCHANGED <<account, firms, moved, waived, budget>>

(* LogicError, a customer or a row that has gone: the first half stays. *)
FinishFails(w) ==
  /\ \/ web[w].op = "save" /\ ~MaySave(web[w])
     \/ web[w].op = "finish" /\ ~Is(web[w].seen.customer)
  /\ End(w)
  /\ UNCHANGED <<account, contract, firms, ghosts, budget>>

-----------------------------------------------------------------------------
(* Accounts: made, enabled, disabled, removed by staff. *)

(* A customer may be made enabled: __init__ takes is_active for what it was
   before, so save() sees no change and sends no customer_turns_on. *)
NewCustomer(c, state) ==
  /\ account[c] = "none"
  /\ account' = [account EXCEPT ![c] = state]
  /\ waived' = IF state = "on" THEN waived \cup {c} ELSE waived
  /\ UNCHANGED <<contract, firms, web, raced, moved, budget>>

ReadCustomer(w, c) ==
  /\ Is(c)
  /\ Begin(w, [op |-> "check", c |-> c, was |-> account[c]])
  /\ UNCHANGED <<account, contract, firms, ghosts, budget>>

(* customer_checks and customer_legal_branch_checks, if he was disabled. *)
BugTurnsOn(q) == Sorm /\ q.was = "off" /\ IsBranch(q.c) => Of(q.c) = {}  \* no customer_checks
TurnsOn(q) == Sorm /\ q.was = "off" => (IsBranch(q.c) <=> Of(q.c) = {})

BugCheckOn(w) ==                                   \* no test of the contracts
  LET q == web[w] IN
  /\ q.op = "check"
  /\ IF TurnsOn(q) THEN Goes(w, [op |-> "enable", c |-> q.c]) ELSE End(w)
  /\ UNCHANGED <<account, contract, firms, ghosts, budget>>

(* The signal and pre_save pass, or the request is refused. *)
CheckOn(w) ==
  LET q == web[w] IN
  /\ q.op = "check"
  /\ IF TurnsOn(q) /\ Finished(q.c) = {}
     THEN Goes(w, [op |-> "enable", c |-> q.c])
     ELSE End(w)
  /\ UNCHANGED <<account, contract, firms, ghosts, budget>>

Enable(w) ==
  LET c == web[w].c IN
  /\ web[w].op = "enable"
  /\ account' = [account EXCEPT ![c] = IF Is(c) THEN "on" ELSE @]
  /\ raced' = IF Closing(c) THEN raced \cup {c} ELSE raced
  /\ End(w)
  /\ UNCHANGED <<contract, firms, moved, waived, budget>>

Disable(c) ==
  /\ account[c] = "on"
  /\ account' = [account EXCEPT ![c] = "off"]
  /\ UNCHANGED <<contract, firms, web, ghosts, budget>>

BugRemoveCustomer(c) ==                            \* contracts are left behind
  /\ ~Sorm
  /\ Is(c)
  /\ account' = [account EXCEPT ![c] = "gone"]
  /\ branches' = [l \in Legals |-> branches[l] \ {c}]
  /\ UNCHANGED <<contract, legal, web, ghosts, budget>>

(* Contracts and memberships go with the customer; sorm_export refuses it. *)
RemoveCustomer(c) ==
  /\ ~Sorm
  /\ Is(c)
  /\ account' = [account EXCEPT ![c] = "gone"]
  /\ contract' = [k \in Contracts |-> IF k \in Of(c) THEN Gone ELSE contract[k]]
  /\ branches' = [l \in Legals |-> branches[l] \ {c}]
  /\ UNCHANGED <<legal, web, ghosts, budget>>

-----------------------------------------------------------------------------
(* Legal entities: the row is saved first, then its branches are set; the
   check of sorm_export looks at the branches that are added. *)

DatesMatch(added, d) == \A c \in added, k \in Contracts :
  k \in Of(c) => contract[k].start = d

SaveLegal(l, d, members) ==
  /\ \A c \in members : Is(c)
  /\ Spend("changes")
  /\ legal' = [legal EXCEPT ![l] = {d}]
  /\ branches' = IF Sorm /\ ~DatesMatch(members \ branches[l], d)
                 THEN branches
                 ELSE [branches EXCEPT ![l] = members]
  /\ waived' = waived \cup (branches[l] \ branches'[l])
  /\ UNCHANGED <<account, contract, web, raced, moved>>

-----------------------------------------------------------------------------

(* A thread dies: what it has written stays. *)
Die(w) ==
  /\ web[w] # Free
  /\ Spend("faults")
  /\ End(w)
  /\ UNCHANGED <<account, contract, firms, ghosts>>

Init ==
  /\ account = [c \in Customers |-> "none"]
  /\ contract = [k \in Contracts |-> Missing]
  /\ legal = [l \in Legals |-> {}]
  /\ branches = [l \in Legals |-> {}]
  /\ web = [w \in Web |-> Free]
  /\ raced = {} /\ moved = {} /\ waived = {}
  /\ budget = [faults |-> MaxFaults, changes |-> MaxChanges]

Next ==
  \/ \E k \in Contracts, c \in Customers, d \in Dates :
       NewContract(k, c, d) \/ ChangeContract(k, c, d)
  \/ \E k \in Contracts : DeleteContract(k)
  \/ \E w \in Web, k \in Contracts : Finish(w, k)
  \/ \E c \in Customers :
       \/ NewCustomer(c, "on") \/ NewCustomer(c, "off")
       \/ Disable(c) \/ RemoveCustomer(c)
  \/ \E w \in Web, c \in Customers : ReadCustomer(w, c)
  \/ \E l \in Legals, d \in Dates, members \in SUBSET Customers : SaveLegal(l, d, members)
  \/ \E w \in Web : \/ DisableCustomer(w) \/ SaveFinished(w) \/ FinishFails(w)
                    \/ CheckOn(w) \/ Enable(w) \/ Die(w)

Spec == Init /\ [][Next]_vars

-----------------------------------------------------------------------------
(* Properties. *)

ContractRecord == [state : {"active", "finished"}, customer : Customers, start : Dates]
Request == {Free}
  \cup [op : {"finish", "save"}, k : Contracts, seen : ContractRecord]
  \cup [op : {"check"}, c : Customers, was : {"on", "off"}]
  \cup [op : {"enable"}, c : Customers]

(* Types, and a contract and a branch belong to a customer who is there:
   the foreign keys hold through every order of creation and removal. *)
TypeOK ==
  /\ account \in [Customers -> {"none", "on", "off", "gone"}]
  /\ contract \in [Contracts -> {Missing, Gone} \cup ContractRecord]
  /\ legal \in [Legals -> SUBSET Dates]
  /\ branches \in [Legals -> SUBSET Customers]
  /\ web \in [Web -> Request]
  /\ raced \subseteq Customers /\ moved \subseteq Customers /\ waived \subseteq Customers
  /\ budget \in [{"faults", "changes"} -> Nat]
  /\ \A k \in Contracts : Has(k) => Is(contract[k].customer)
  /\ \A l \in Legals : \A c \in branches[l] : Is(c)

(* A customer whose contract is finished stays disabled, through every
   interleaving of requests and every thread that dies, unless he was
   enabled within the two statements of a finish of his own contract, or
   was given a finished contract by a change that no save() sees. *)
FinishedIsOff == \A c \in Customers \ (raced \cup moved) :
  Finished(c) # {} => account[c] = "off"

(* With sorm_export, an enabled customer who is no branch of a legal entity
   has a contract: the check made when he was enabled cannot become untrue,
   unless staff move his contract or his membership away. *)
IndividualHasContract ==
  Sorm => \A c \in Customers \ waived :
            account[c] = "on" /\ ~IsBranch(c) => Of(c) # {}
=============================================================================
