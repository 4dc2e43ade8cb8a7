-------------------------- MODULE Contracts_proofs --------------------------
(***************************************************************************)
(* What is kept by every order of the statements of contracts and          *)
(* accounts, for any customers, contracts, legal entities, threads and     *)
(* bounds, with the signals of sorm_export and without them.               *)
(***************************************************************************)
EXTENDS Contracts, TLAPS

-----------------------------------------------------------------------------
(* What a request in flight is made of. *)

LEMMA RequestShape ==
  ASSUME TypeOK, NEW w \in Web
  PROVE  /\ web[w].op \in {"finish", "save"} =>
              web[w] \in [op : {"finish", "save"}, k : Contracts, seen : ContractRecord]
         /\ web[w].op = "check" => web[w] \in [op : {"check"}, c : Customers, was : {"on", "off"}]
         /\ web[w].op = "enable" => web[w] \in [op : {"enable"}, c : Customers]
<1>1. web[w] \in Request
  BY DEF TypeOK
<1>2. Free.op = "free"
  BY DEF Free
<1> QED BY <1>1, <1>2 DEF Request

LEMMA ContractShape ==
  ASSUME TypeOK, NEW k \in Contracts, Has(k)
  PROVE  contract[k] \in ContractRecord /\ Is(contract[k].customer)
BY DEF TypeOK, Has

LEMMA RecordIsNoMark ==
  ASSUME NEW r \in ContractRecord
  PROVE  r # Missing /\ r # Gone
BY DEF ContractRecord, Missing, Gone

(* A step of one thread. *)
LEMMA WebStep ==
  ASSUME TypeOK, NEW w \in Web, NEW q \in Request, Goes(w, q)
  PROVE  /\ web' \in [Web -> Request]
         /\ web'[w] = q
         /\ \A v \in Web \ {w} : web'[v] = web[v]
BY DEF TypeOK, Goes

LEMMA WebEnds ==
  ASSUME TypeOK, NEW w \in Web, End(w)
  PROVE  /\ web' \in [Web -> Request]
         /\ web'[w].op = "free"
         /\ \A v \in Web \ {w} : web'[v] = web[v]
<1>1. Free \in Request /\ Free.op = "free"
  BY DEF Request, Free
<1> QED BY <1>1, WebStep DEF End

LEMMA WebBegins ==
  ASSUME TypeOK, NEW w \in Web, NEW q \in Request, Begin(w, q)
  PROVE  /\ web' \in [Web -> Request]
         /\ web'[w] = q
         /\ \A v \in Web \ {w} : web'[v] = web[v]
BY WebStep DEF Begin, Goes

-----------------------------------------------------------------------------
(* Types. *)

(* What the actions do to the tables of contracts, and the keys they refer to. *)
TableTypes ==
  /\ account \in [Customers -> {"none", "on", "off", "gone"}]
  /\ contract \in [Contracts -> {Missing, Gone} \cup ContractRecord]
  /\ \A k \in Contracts : Has(k) => Is(contract[k].customer)

LEMMA WriteTypes ==
  ASSUME TypeOK, NEW k \in Contracts, NEW r \in ContractRecord, Is(r.customer),
         contract' = [contract EXCEPT ![k] = r], account' = account
  PROVE  TableTypes'
<1>1. contract' \in [Contracts -> {Missing, Gone} \cup ContractRecord]
  BY DEF TypeOK
<1>2. contract'[k] = r /\ \A j \in Contracts \ {k} : contract'[j] = contract[j]
  BY DEF TypeOK
<1> QED BY <1>1, <1>2 DEF TableTypes, TypeOK, Has, Is

LEMMA AccountTypes ==
  ASSUME TypeOK, NEW c \in Customers, NEW s \in {"on", "off"},
         account' = [account EXCEPT ![c] = s], contract' = contract, branches' = branches
  PROVE  TableTypes' /\ \A l \in Legals : \A e \in branches'[l] : Is(e)'
BY DEF TypeOK, TableTypes, Has, Is

LEMMA ContractWrites ==
  ASSUME TypeOK, NEW k \in Contracts, NEW c \in Customers, NEW d \in Dates,
         NewContract(k, c, d) \/ ChangeContract(k, c, d)
  PROVE  TypeOK'
<1>1. TableTypes'
  <2>1. PICK state \in {"active", "finished"} :
          contract' = [contract EXCEPT ![k] = Signed(state, c, d)]
    BY ContractShape DEF NewContract, ChangeContract, ContractRecord
  <2>2. Signed(state, c, d) \in ContractRecord /\ Signed(state, c, d).customer = c
    BY DEF Signed, ContractRecord
  <2>3. Is(c) /\ account' = account
    BY DEF NewContract, ChangeContract
  <2> QED BY <2>1, <2>2, <2>3, WriteTypes
<1>2. UNCHANGED <<legal, branches, web, raced>>
  BY DEF NewContract, ChangeContract, firms, ghosts
<1>3. moved' \subseteq Customers /\ waived' \subseteq Customers
  <2>1. CASE NewContract(k, c, d)
    BY <2>1 DEF NewContract, ghosts, TypeOK
  <2>2. CASE ChangeContract(k, c, d)
    <3>1. contract[k].customer \in Customers
      BY <2>2, ContractShape DEF ChangeContract, ContractRecord
    <3> QED BY <2>2, <3>1 DEF ChangeContract, TypeOK
  <2> QED BY <2>1, <2>2
<1>4. budget' \in [{"faults", "changes"} -> Nat]
  BY DEF NewContract, ChangeContract, Spend, TypeOK
<1>5. account' = account
  BY DEF NewContract, ChangeContract
<1> QED BY <1>1, <1>2, <1>3, <1>4, <1>5 DEF TypeOK, TableTypes, Is

LEMMA DeleteTypes ==
  ASSUME TypeOK, NEW k \in Contracts, DeleteContract(k)
  PROVE  TypeOK'
BY DEF DeleteContract, TypeOK, Has, Is, firms, ghosts

LEMMA ReadTypes ==
  ASSUME TypeOK, NEW w \in Web,
         \/ \E k \in Contracts : Finish(w, k)
         \/ \E c \in Customers : ReadCustomer(w, c)
  PROVE  TypeOK'
<1>1. web' \in [Web -> Request]
  <2>1. CASE \E k \in Contracts : Finish(w, k)
    <3>1. PICK k \in Contracts : Finish(w, k)
      BY <2>1
    <3>2. [op |-> "finish", k |-> k, seen |-> contract[k]] \in Request
      BY <3>1, ContractShape DEF Finish, Request
    <3> QED BY <3>1, <3>2, WebBegins DEF Finish
  <2>2. CASE \E c \in Customers : ReadCustomer(w, c)
    <3>1. PICK c \in Customers : ReadCustomer(w, c)
      BY <2>2
    <3>2. [op |-> "check", c |-> c, was |-> account[c]] \in Request
      BY <3>1 DEF ReadCustomer, Is, Request
    <3> QED BY <3>1, <3>2, WebBegins DEF ReadCustomer
  <2> QED BY <2>1, <2>2
<1>2. UNCHANGED <<account, contract, firms, ghosts, budget>>
  BY DEF Finish, ReadCustomer
<1> QED BY <1>1, <1>2 DEF TypeOK, Has, Is, firms, ghosts

LEMMA DisableTypes ==
  ASSUME TypeOK, NEW w \in Web, DisableCustomer(w)
  PROVE  TypeOK'
<1> DEFINE q == web[w]
<1>1. q \in [op : {"finish", "save"}, k : Contracts, seen : ContractRecord]
  BY RequestShape DEF DisableCustomer
<1>2. [q EXCEPT !.op = "save"] \in Request
  BY <1>1 DEF Request
<1>3. web' \in [Web -> Request]
  BY <1>2, WebStep DEF DisableCustomer
<1>4. q.seen.customer \in Customers
  BY <1>1 DEF ContractRecord
<1>5. TableTypes' /\ \A l \in Legals : \A e \in branches'[l] : Is(e)'
  BY <1>4, AccountTypes DEF DisableCustomer, firms
<1> QED BY <1>3, <1>5 DEF DisableCustomer, TypeOK, TableTypes, firms, ghosts

LEMMA SaveTypes ==
  ASSUME TypeOK, NEW w \in Web, SaveFinished(w)
  PROVE  TypeOK'
<1> DEFINE k == web[w].k
           r == [contract[k] EXCEPT !.state = "finished"]
<1>1. k \in Contracts
  BY RequestShape DEF SaveFinished
<1>2. contract[k] \in ContractRecord /\ Is(contract[k].customer)
  BY <1>1, ContractShape DEF SaveFinished, MaySave
<1>3. r \in ContractRecord /\ r.customer = contract[k].customer
  BY <1>2 DEF ContractRecord
<1>4. contract' = [contract EXCEPT ![k] = r] /\ account' = account
  BY DEF SaveFinished
<1>5. TableTypes'
  <2> HIDE DEF r, k
  <2> QED BY <1>1, <1>2, <1>3, <1>4, WriteTypes
<1>6. web' \in [Web -> Request]
  BY WebEnds DEF SaveFinished
<1>7. raced' \subseteq Customers
  BY DEF SaveFinished, TypeOK
<1> QED BY <1>5, <1>6, <1>7 DEF SaveFinished, TypeOK, TableTypes, Is, firms

LEMMA CheckTypes ==
  ASSUME TypeOK, NEW w \in Web, CheckOn(w)
  PROVE  TypeOK'
<1>1. web[w] \in [op : {"check"}, c : Customers, was : {"on", "off"}]
  BY RequestShape DEF CheckOn
<1>2. [op |-> "enable", c |-> web[w].c] \in Request
  BY <1>1 DEF Request
<1>3. web' \in [Web -> Request]
  BY <1>2, WebStep, WebEnds DEF CheckOn
<1> QED BY <1>3 DEF CheckOn, TypeOK, Has, Is, firms, ghosts

LEMMA EnableTypes ==
  ASSUME TypeOK, NEW w \in Web, Enable(w)
  PROVE  TypeOK'
<1>1. web[w].c \in Customers
  BY RequestShape DEF Enable
<1>2. web' \in [Web -> Request]
  BY WebEnds DEF Enable
<1>3. raced' \subseteq Customers
  BY <1>1 DEF Enable, TypeOK
<1>4. UNCHANGED <<contract, legal, branches, moved, waived, budget>>
  BY DEF Enable, firms
<1>5. TableTypes' /\ \A l \in Legals : \A e \in branches'[l] : Is(e)'
  <2>1. CASE Is(web[w].c)
    BY <1>1, <1>4, <2>1, AccountTypes DEF Enable
  <2>2. CASE ~Is(web[w].c)
    <3>1. account' = account
      BY <1>1, <2>2 DEF Enable, TypeOK
    <3> QED BY <1>4, <3>1 DEF TypeOK, TableTypes, Has, Is
  <2> QED BY <2>1, <2>2
<1> QED BY <1>2, <1>3, <1>4, <1>5 DEF TypeOK, TableTypes

LEMMA AccountWrites ==
  ASSUME TypeOK, NEW c \in Customers,
         NewCustomer(c, "on") \/ NewCustomer(c, "off") \/ Disable(c)
  PROVE  TypeOK'
<1>1. PICK s \in {"on", "off"} : account' = [account EXCEPT ![c] = s]
  BY DEF NewCustomer, Disable
<1>2. UNCHANGED <<contract, legal, branches, web, raced, moved, budget>>
  BY DEF NewCustomer, Disable, firms, ghosts
<1>3. TableTypes' /\ \A l \in Legals : \A e \in branches'[l] : Is(e)'
  BY <1>1, <1>2, AccountTypes
<1>4. waived' \subseteq Customers
  BY DEF NewCustomer, Disable, ghosts, TypeOK
<1> QED BY <1>2, <1>3, <1>4 DEF TypeOK, TableTypes

(* What refers to the customer goes with him. *)
LEMMA RemoveTypes ==
  ASSUME TypeOK, NEW c \in Customers, RemoveCustomer(c)
  PROVE  TypeOK'
<1>1. \A k \in Contracts : Has(k)' => Has(k) /\ contract'[k] = contract[k] /\ contract[k].customer # c
  BY DEF RemoveCustomer, TypeOK, Has, Of
<1>2. \A k \in Contracts : (Has(k) => Is(contract[k].customer))'
  <2> SUFFICES ASSUME NEW k \in Contracts, Has(k)'
               PROVE  Is(contract[k].customer)'
    OBVIOUS
  <2>1. contract'[k] = contract[k] /\ contract[k].customer # c /\ Is(contract[k].customer)
    BY <1>1 DEF TypeOK
  <2>2. contract[k].customer \in Customers
    BY <1>1 DEF TypeOK, Has, ContractRecord
  <2> QED BY <2>1, <2>2 DEF RemoveCustomer, TypeOK, Is
<1>3. \A l \in Legals : \A e \in branches'[l] : Is(e)'
  BY DEF RemoveCustomer, TypeOK, Is
<1>4. account' \in [Customers -> {"none", "on", "off", "gone"}]
  BY DEF RemoveCustomer, TypeOK
<1>5. contract' \in [Contracts -> {Missing, Gone} \cup ContractRecord]
  BY DEF RemoveCustomer, TypeOK
<1>6. branches' \in [Legals -> SUBSET Customers]
  BY DEF RemoveCustomer, TypeOK
<1> QED BY <1>2, <1>3, <1>4, <1>5, <1>6 DEF RemoveCustomer, TypeOK, ghosts

LEMMA LegalTypes ==
  ASSUME TypeOK, NEW l \in Legals, NEW d \in Dates, NEW members \in SUBSET Customers,
         SaveLegal(l, d, members)
  PROVE  TypeOK'
<1>1. \/ branches' = branches
      \/ branches' = [branches EXCEPT ![l] = members]
  BY DEF SaveLegal
<1>2. branches' \in [Legals -> SUBSET Customers]
  BY <1>1 DEF TypeOK
<1>3. \A m \in Legals : \A e \in branches'[m] : Is(e)'
  BY <1>1 DEF SaveLegal, TypeOK, Is
<1>4. legal' \in [Legals -> SUBSET Dates]
  BY DEF SaveLegal, TypeOK
<1>5. waived' \subseteq Customers
  BY DEF SaveLegal, TypeOK
<1>6. budget' \in [{"faults", "changes"} -> Nat]
  BY DEF SaveLegal, Spend, TypeOK
<1> QED BY <1>2, <1>3, <1>4, <1>5, <1>6 DEF SaveLegal, TypeOK, Has, Is

LEMMA EndTypes ==
  ASSUME TypeOK, NEW w \in Web, FinishFails(w) \/ Die(w)
  PROVE  TypeOK'
<1>1. web' \in [Web -> Request]
  BY WebEnds DEF FinishFails, Die
<1>2. budget' \in [{"faults", "changes"} -> Nat]
  BY DEF FinishFails, Die, Spend, TypeOK
<1>3. UNCHANGED <<account, contract, legal, branches, ghosts>>
  BY DEF FinishFails, Die, firms
<1> QED BY <1>1, <1>2, <1>3 DEF TypeOK, Has, Is, ghosts

LEMMA TypeStep ==
  ASSUME TypeOK, [Next]_vars
  PROVE  TypeOK'
<1>1. CASE UNCHANGED vars
  BY <1>1 DEF vars, TypeOK, Has, Is, firms, ghosts
<1> QED BY <1>1, ContractWrites, DeleteTypes, ReadTypes, DisableTypes, SaveTypes, CheckTypes,
           EnableTypes, AccountWrites, RemoveTypes, LegalTypes, EndTypes DEF Next

(* Contracts and branches belong to customers who are there, whatever is
   created and removed between the statements of a request. *)
THEOREM ContractsKeepTypes ==
  ASSUME ContractBoundAssumption
  PROVE  Spec => []TypeOK
<1>1. Init => TypeOK
  BY DEF ContractBoundAssumption, Init, TypeOK, Request, Has
<1>2. TypeOK /\ [Next]_vars => TypeOK'
  BY TypeStep
<1> QED BY <1>1, <1>2, PTL DEF Spec

-----------------------------------------------------------------------------
(* A customer whose contract is finished stays disabled. *)

Ghosts == raced \cup moved

(* Besides the property, for the requests in flight.  The customer of a
   contract that is being finished is the one the request read, or was given it
   by a change; once disabled he is off when the contract is saved, or was
   enabled in between; and who is about to be enabled has no finished contract,
   or one was finished since he was checked. *)
FinishKnown == \A w \in Web : web[w].op \in {"finish", "save"} =>
  /\ contract[web[w].k] # Missing
  /\ Has(web[w].k) => \/ contract[web[w].k].customer = web[w].seen.customer
                      \/ contract[web[w].k].customer \in moved
SavesDisabled == \A w \in Web : web[w].op = "save" /\ Has(web[w].k) =>
  \/ account[contract[web[w].k].customer] = "off"
  \/ contract[web[w].k].customer \in Ghosts
EnablesUnfinished == \A w \in Web : web[w].op = "enable" =>
  web[w].c \in Ghosts \/ Finished(web[w].c) = {}
FinishInv == FinishedIsOff /\ FinishKnown /\ SavesDisabled /\ EnablesUnfinished

(* A step that leaves contracts and ghosts alone, switches nobody on, and
   begins neither the saving of a finish nor an enabling. *)
LEMMA QuietFinish ==
  ASSUME TypeOK, FinishInv, contract' = contract, raced \subseteq raced', moved \subseteq moved',
         \A c \in Customers : account[c] = "off" => account'[c] = "off",
         \A w \in Web : web'[w] = web[w] \/ web'[w].op \in {"free", "check"}
  PROVE  FinishInv'
<1>1. \A k \in Contracts : Has(k) => contract[k].customer \in Customers
  BY ContractShape DEF ContractRecord
<1>2. \A w \in Web : web[w].op \in {"finish", "save"} => web[w].k \in Contracts
  BY RequestShape
<1>3. \A c : Finished(c)' = Finished(c)
  BY DEF Finished, Of, Has
<1>4. FinishedIsOff'
  BY <1>3 DEF FinishInv, FinishedIsOff
<1>5. FinishKnown'
  BY DEF FinishInv, FinishKnown, Has
<1>6. SavesDisabled'
  BY <1>1, <1>2 DEF FinishInv, SavesDisabled, Has, Ghosts
<1>7. EnablesUnfinished'
  BY <1>3 DEF FinishInv, EnablesUnfinished, Ghosts
<1> QED BY <1>4, <1>5, <1>6, <1>7 DEF FinishInv

LEMMA NewContractFinish ==
  ASSUME TypeOK, FinishInv, NEW k \in Contracts, NEW c \in Customers, NEW d \in Dates,
         NewContract(k, c, d)
  PROVE  FinishInv'
<1>1. /\ contract[k] = Missing /\ contract'[k] = Signed("active", c, d)
      /\ \A j \in Contracts \ {k} : contract'[j] = contract[j]
      /\ UNCHANGED <<account, web, raced, moved>>
  BY DEF NewContract, TypeOK, ghosts
<1>2. contract'[k].state = "active" /\ Has(k)'
  BY <1>1 DEF Signed, Has, Missing, Gone
<1>3. \A e : Finished(e)' \subseteq Finished(e)
  BY <1>1, <1>2 DEF Finished, Of, Has
<1>4. \A w \in Web : web[w].op \in {"finish", "save"} => web[w].k \in Contracts \ {k}
  BY <1>1, RequestShape DEF FinishInv, FinishKnown
<1>5. FinishedIsOff'
  BY <1>1, <1>3 DEF FinishInv, FinishedIsOff
<1>6. FinishKnown'
  BY <1>1, <1>4 DEF FinishInv, FinishKnown, Has
<1>7. SavesDisabled'
  BY <1>1, <1>4 DEF FinishInv, SavesDisabled, Has, Ghosts
<1>8. EnablesUnfinished'
  BY <1>1, <1>3 DEF FinishInv, EnablesUnfinished, Ghosts
<1> QED BY <1>5, <1>6, <1>7, <1>8 DEF FinishInv

(* Who is given a contract that is finished, or is being finished, is moved. *)
LEMMA ChangeFinish ==
  ASSUME TypeOK, FinishInv, NEW k \in Contracts, NEW c \in Customers, NEW d \in Dates,
         ChangeContract(k, c, d)
  PROVE  FinishInv'
<1> DEFINE old == contract[k]
<1>1. /\ Has(k) /\ old \in ContractRecord
      /\ contract'[k] = Signed(old.state, c, d)
      /\ \A j \in Contracts \ {k} : contract'[j] = contract[j]
      /\ UNCHANGED <<account, web, raced>>
      /\ moved \subseteq moved'
      /\ old.customer # c /\ (old.state = "finished" \/ Finishing(k)) => c \in moved'
  BY ContractShape DEF ChangeContract, TypeOK
<1>2. /\ contract'[k].state = old.state /\ contract'[k].customer = c /\ Has(k)'
  BY <1>1 DEF Signed, Has, Missing, Gone, ContractRecord
<1> HIDE DEF old
<1>3. \A e \in Customers : e \notin moved' => Finished(e)' \subseteq Finished(e)
  <2> SUFFICES ASSUME NEW e \in Customers, e \notin moved', NEW j \in Finished(e)'
               PROVE  j \in Finished(e)
    OBVIOUS
  <2>1. CASE j = k
    BY <1>1, <1>2, <2>1 DEF old, Finished, Of, Has
  <2>2. CASE j # k
    BY <1>1, <2>2 DEF Finished, Of, Has
  <2> QED BY <2>1, <2>2
<1>4. \A w \in Web : web[w].op \in {"finish", "save"} => web[w].k \in Contracts
  BY RequestShape
<1>5. \A w \in Web : web[w].op = "enable" => web[w].c \in Customers
  BY RequestShape
<1>6. FinishedIsOff'
  BY <1>1, <1>3 DEF FinishInv, FinishedIsOff
<1>7. FinishKnown'
  <2> SUFFICES ASSUME NEW w \in Web, web[w].op \in {"finish", "save"}
               PROVE  /\ contract'[web[w].k] # Missing
                      /\ Has(web[w].k)' => \/ contract'[web[w].k].customer = web[w].seen.customer
                                           \/ contract'[web[w].k].customer \in moved'
    BY <1>1 DEF FinishKnown, Has
  <2>1. CASE web[w].k = k
    BY <1>1, <1>2, <2>1 DEF old, FinishInv, FinishKnown, Has, Finishing
  <2>2. CASE web[w].k # k
    BY <1>1, <1>4, <2>2 DEF FinishInv, FinishKnown, Has
  <2> QED BY <2>1, <2>2
<1>8. SavesDisabled'
  <2> SUFFICES ASSUME NEW w \in Web, web[w].op = "save", Has(web[w].k)'
               PROVE  \/ account[contract'[web[w].k].customer] = "off"
                      \/ contract'[web[w].k].customer \in raced \cup moved'
    BY <1>1 DEF SavesDisabled, Has, Ghosts
  <2>1. CASE web[w].k = k
    BY <1>1, <1>2, <2>1 DEF old, FinishInv, SavesDisabled, Finishing, Ghosts
  <2>2. CASE web[w].k # k
    BY <1>1, <1>4, <2>2 DEF FinishInv, SavesDisabled, Has, Ghosts
  <2> QED BY <2>1, <2>2
<1>9. EnablesUnfinished'
  BY <1>1, <1>3, <1>5 DEF FinishInv, EnablesUnfinished, Ghosts
<1> QED BY <1>6, <1>7, <1>8, <1>9 DEF FinishInv

(* Contracts that are removed, one or all of a customer. *)
LEMMA GoneFinish ==
  ASSUME TypeOK, FinishInv, UNCHANGED <<web, raced, moved>>,
         \A k \in Contracts : contract'[k] = contract[k] \/ contract'[k] = Gone,
         \A k \in Contracts : Has(k)' => account'[contract[k].customer] = account[contract[k].customer],
         \A c \in Customers : account'[c] = account[c] \/ Of(c)' = {}
  PROVE  FinishInv'
<1>1. \A k \in Contracts : Has(k)' => Has(k) /\ contract'[k] = contract[k]
  BY DEF Has
<1>2. \A e : Finished(e)' \subseteq Finished(e) /\ (Of(e)' = {} => Finished(e)' = {})
  BY <1>1 DEF Finished, Of
<1>3. \A w \in Web : web[w].op \in {"finish", "save"} => web[w].k \in Contracts
  BY RequestShape
<1>4. FinishedIsOff'
  BY <1>2 DEF FinishInv, FinishedIsOff
<1>5. Gone # Missing
  BY DEF Gone, Missing
<1>6. FinishKnown'
  BY <1>1, <1>3, <1>5 DEF FinishInv, FinishKnown, Has
<1>7. SavesDisabled'
  BY <1>1, <1>3 DEF FinishInv, SavesDisabled, Has, Ghosts
<1>8. EnablesUnfinished'
  BY <1>2 DEF FinishInv, EnablesUnfinished, Ghosts
<1> QED BY <1>4, <1>6, <1>7, <1>8 DEF FinishInv

LEMMA DeleteFinish ==
  ASSUME TypeOK, FinishInv, NEW k \in Contracts, DeleteContract(k)
  PROVE  FinishInv'
<1>1. \A j \in Contracts : contract'[j] = contract[j] \/ contract'[j] = Gone
  BY DEF DeleteContract, TypeOK
<1> QED BY <1>1, GoneFinish DEF DeleteContract, ghosts

LEMMA RemoveFinish ==
  ASSUME TypeOK, FinishInv, NEW c \in Customers, RemoveCustomer(c)
  PROVE  FinishInv'
<1>1. \A k \in Contracts : contract'[k] = contract[k] \/ contract'[k] = Gone
  BY DEF RemoveCustomer
<1>2. \A k \in Contracts : Has(k)' => Has(k) /\ contract'[k] = contract[k] /\ contract[k].customer # c
  BY DEF RemoveCustomer, Has, Of
<1>3. \A e \in Customers \ {c} : account'[e] = account[e]
  BY DEF RemoveCustomer, TypeOK
<1>4. Of(c)' = {}
  BY <1>2 DEF Of
<1>5. \A k \in Contracts : Has(k)' => contract[k].customer \in Customers
  BY <1>2, ContractShape DEF ContractRecord
<1> QED BY <1>1, <1>2, <1>3, <1>4, <1>5, GoneFinish DEF RemoveCustomer, ghosts

LEMMA FinishReads ==
  ASSUME TypeOK, FinishInv, NEW w \in Web, NEW k \in Contracts, Finish(w, k)
  PROVE  FinishInv'
<1> DEFINE q == [op |-> "finish", k |-> k, seen |-> contract[k]]
<1>1. Has(k) /\ q \in Request /\ Begin(w, q)
  BY ContractShape DEF Finish, Request
<1>2. web'[w] = q /\ \A v \in Web \ {w} : web'[v] = web[v]
  BY <1>1, WebBegins
<1>3. UNCHANGED <<account, contract, raced, moved>>
  BY DEF Finish, ghosts
<1>4. FinishedIsOff' /\ EnablesUnfinished'
  BY <1>2, <1>3 DEF FinishInv, FinishedIsOff, EnablesUnfinished, Finished, Of, Has, Ghosts
<1>5. FinishKnown' /\ SavesDisabled'
  BY <1>1, <1>2, <1>3 DEF FinishInv, FinishKnown, SavesDisabled, Has, Ghosts
<1> QED BY <1>4, <1>5 DEF FinishInv

LEMMA DisableFinish ==
  ASSUME TypeOK, FinishInv, NEW w \in Web, DisableCustomer(w)
  PROVE  FinishInv'
<1> DEFINE q == web[w]
           c == q.seen.customer
<1>1. q \in [op : {"finish", "save"}, k : Contracts, seen : ContractRecord] /\ q.op = "finish"
  BY RequestShape DEF DisableCustomer
<1>2. c \in Customers
  BY <1>1 DEF ContractRecord
<1>3. /\ web'[w] = [q EXCEPT !.op = "save"] /\ \A v \in Web \ {w} : web'[v] = web[v]
      /\ UNCHANGED <<contract, raced, moved>>
      /\ account'[c] = "off" /\ \A e \in Customers \ {c} : account'[e] = account[e]
  BY <1>2 DEF DisableCustomer, Goes, TypeOK, ghosts
<1>4. web'[w].op = "save" /\ web'[w].k = q.k /\ web'[w].seen.customer = c
  BY <1>1, <1>3
<1>5. \A k \in Contracts : Has(k) => contract[k].customer \in Customers
  BY ContractShape DEF ContractRecord
<1>6. \A v \in Web : web[v].op \in {"finish", "save"} => web[v].k \in Contracts
  BY RequestShape
<1> HIDE DEF q, c
<1>7. FinishedIsOff' /\ EnablesUnfinished'
  <2>1. \A e : Finished(e)' = Finished(e)
    BY <1>3 DEF Finished, Of, Has
  <2>2. FinishedIsOff'
    BY <1>3, <2>1 DEF FinishInv, FinishedIsOff
  <2>3. EnablesUnfinished'
    BY <1>3, <1>4, <2>1 DEF FinishInv, EnablesUnfinished, Ghosts
  <2> QED BY <2>2, <2>3
<1>8. FinishKnown'
  BY <1>1, <1>3, <1>4, <1>6 DEF q, c, FinishInv, FinishKnown, Has
<1>9. SavesDisabled'
  BY <1>1, <1>3, <1>4, <1>5, <1>6 DEF q, c, FinishInv, FinishKnown, SavesDisabled, Has, Ghosts
<1> QED BY <1>7, <1>8, <1>9 DEF FinishInv

LEMMA SaveFinish ==
  ASSUME TypeOK, FinishInv, NEW w \in Web, SaveFinished(w)
  PROVE  FinishInv'
<1> DEFINE k == web[w].k
           c == contract[k].customer
<1>1. k \in Contracts /\ Has(k) /\ c \in Customers /\ contract[k] \in ContractRecord
  BY RequestShape, ContractShape DEF SaveFinished, MaySave, ContractRecord
<1>2. /\ contract'[k] = [contract[k] EXCEPT !.state = "finished"]
      /\ \A j \in Contracts \ {k} : contract'[j] = contract[j]
      /\ account' = account /\ moved' = moved
      /\ raced' = raced \cup {e \in Customers : c = e /\ Enabling(e)}
  BY <1>1 DEF SaveFinished, TypeOK
<1>3. contract'[k].customer = c /\ contract'[k] \notin {Missing, Gone}
  BY <1>1, <1>2 DEF ContractRecord, Has, Missing, Gone
<1>4. web'[w].op = "free" /\ \A v \in Web \ {w} : web'[v] = web[v]
  BY WebEnds DEF SaveFinished
<1>5. account[c] = "off" \/ c \in Ghosts
  BY <1>1 DEF FinishInv, SavesDisabled, SaveFinished
<1> HIDE DEF k, c
<1>6. \A e : e # c => Finished(e)' \subseteq Finished(e)
  BY <1>1, <1>2, <1>3 DEF Finished, Of, Has
<1>7. \A v \in Web : web[v].op \in {"finish", "save"} => web[v].k \in Contracts
  BY RequestShape
<1>8. \A v \in Web : web[v].op = "enable" => web[v].c \in Customers
  BY RequestShape
<1>9. FinishedIsOff'
  BY <1>2, <1>5, <1>6 DEF FinishInv, FinishedIsOff, Ghosts
<1>10. FinishKnown'
  <2> SUFFICES ASSUME NEW v \in Web, v # w, web[v].op \in {"finish", "save"}
               PROVE  /\ contract'[web[v].k] # Missing
                      /\ contract'[web[v].k] \notin {Missing, Gone} => \/ contract'[web[v].k].customer = web[v].seen.customer
                                           \/ contract'[web[v].k].customer \in moved'
    BY <1>4 DEF FinishKnown, Has
  <2>1. CASE web[v].k = k
    BY <1>1, <1>2, <1>3, <2>1 DEF FinishInv, FinishKnown, c
  <2>2. CASE web[v].k # k
    BY <1>2, <1>7, <2>2 DEF FinishInv, FinishKnown, Has
  <2> QED BY <2>1, <2>2
<1>11. SavesDisabled'
  <2> SUFFICES ASSUME NEW v \in Web, v # w, web[v].op = "save", contract'[web[v].k] \notin {Missing, Gone}
               PROVE  \/ account'[contract'[web[v].k].customer] = "off"
                      \/ contract'[web[v].k].customer \in raced' \cup moved'
    BY <1>4 DEF SavesDisabled, Has, Ghosts
  <2>1. CASE web[v].k = k
    BY <1>2, <1>3, <1>5, <2>1 DEF Ghosts
  <2>2. CASE web[v].k # k
    BY <1>2, <1>7, <2>2 DEF FinishInv, SavesDisabled, Has, Ghosts
  <2> QED BY <2>1, <2>2
<1>12. EnablesUnfinished'
  <2>1. ASSUME NEW v \in Web, v # w, web[v].op = "enable", NEW e, e = web[v].c
        PROVE  e \in raced' \cup moved' \/ Finished(e)' = {}
    <3>1. CASE e = c
      BY <1>1, <1>2, <2>1, <3>1 DEF Enabling
    <3>2. CASE e # c
      BY <1>2, <1>6, <2>1, <3>2 DEF FinishInv, EnablesUnfinished, Ghosts
    <3> QED BY <3>1, <3>2
  <2> QED BY <1>4, <2>1 DEF EnablesUnfinished, Ghosts
<1> QED BY <1>9, <1>10, <1>11, <1>12 DEF FinishInv

LEMMA CheckFinish ==
  ASSUME TypeOK, FinishInv, NEW w \in Web, CheckOn(w)
  PROVE  FinishInv'
<1> DEFINE q == web[w]
<1>1. UNCHANGED <<account, contract, raced, moved>>
  BY DEF CheckOn, ghosts
<1>2. q \in [op : {"check"}, c : Customers, was : {"on", "off"}]
  BY RequestShape DEF CheckOn
<1>3. CASE TurnsOn(q) /\ Finished(q.c) = {}
  <2>1. [op |-> "enable", c |-> q.c] \in Request
    BY <1>2 DEF Request
  <2>2. web'[w] = [op |-> "enable", c |-> q.c] /\ \A v \in Web \ {w} : web'[v] = web[v]
    BY <1>3, <2>1, WebStep DEF CheckOn
  <2>3. FinishedIsOff' /\ FinishKnown' /\ SavesDisabled'
    BY <1>1, <2>2 DEF FinishInv, FinishedIsOff, FinishKnown, SavesDisabled, Finished, Of, Has, Ghosts
  <2>4. EnablesUnfinished'
    BY <1>1, <1>3, <2>2 DEF FinishInv, EnablesUnfinished, Finished, Of, Has, Ghosts
  <2> QED BY <2>3, <2>4 DEF FinishInv
<1>4. CASE ~(TurnsOn(q) /\ Finished(q.c) = {})
  <2>1. web'[w].op = "free" /\ \A v \in Web \ {w} : web'[v] = web[v]
    BY <1>4, WebEnds DEF CheckOn
  <2> QED BY <1>1, <2>1, QuietFinish
<1> QED BY <1>3, <1>4

LEMMA EnableFinish ==
  ASSUME TypeOK, FinishInv, NEW w \in Web, Enable(w)
  PROVE  FinishInv'
<1> DEFINE c == web[w].c
<1>1. c \in Customers /\ web[w].op = "enable"
  BY RequestShape DEF Enable
<1>2. /\ UNCHANGED <<contract, moved>> /\ raced \subseteq raced'
      /\ Closing(c) => c \in raced'
      /\ \A e \in Customers \ {c} : account'[e] = account[e]
  BY <1>1 DEF Enable, TypeOK
<1>3. web'[w].op = "free" /\ \A v \in Web \ {w} : web'[v] = web[v]
  BY WebEnds DEF Enable
<1>4. c \in Ghosts \/ Finished(c) = {}
  BY <1>1 DEF FinishInv, EnablesUnfinished
<1>5. \A v \in Web : web[v].op \in {"finish", "save"} => web[v].k \in Contracts
  BY RequestShape
<1>6. \A k \in Contracts : Has(k) => contract[k].customer \in Customers
  BY ContractShape DEF ContractRecord
<1> HIDE DEF c
<1>7. \A e : Finished(e)' = Finished(e)
  BY <1>2 DEF Finished, Of, Has
<1>8. FinishedIsOff'
  BY <1>2, <1>4, <1>7 DEF FinishInv, FinishedIsOff, Ghosts
<1>9. FinishKnown'
  BY <1>2, <1>3 DEF FinishInv, FinishKnown, Has
<1>10. SavesDisabled'
  <2> SUFFICES ASSUME NEW v \in Web, v # w, web[v].op = "save", Has(web[v].k)
               PROVE  \/ account'[contract[web[v].k].customer] = "off"
                      \/ contract[web[v].k].customer \in raced' \cup moved'
    BY <1>2, <1>3 DEF SavesDisabled, Has, Ghosts
  <2>1. CASE contract[web[v].k].customer = c
    BY <1>2, <2>1 DEF FinishInv, FinishKnown, Closing
  <2>2. CASE contract[web[v].k].customer # c
    BY <1>2, <1>5, <1>6, <2>2 DEF FinishInv, SavesDisabled, Ghosts
  <2> QED BY <2>1, <2>2
<1>11. EnablesUnfinished'
  BY <1>2, <1>3, <1>7 DEF FinishInv, EnablesUnfinished, Ghosts
<1> QED BY <1>8, <1>9, <1>10, <1>11 DEF FinishInv

LEMMA FinishStep ==
  ASSUME TypeOK, FinishInv, [Next]_vars
  PROVE  FinishInv'
<1>1. CASE \E w \in Web, c \in Customers : ReadCustomer(w, c)
  <2>1. PICK w \in Web, c \in Customers : ReadCustomer(w, c)
    BY <1>1
  <2>2. [op |-> "check", c |-> c, was |-> account[c]] \in Request
    BY <2>1 DEF ReadCustomer, Is, Request
  <2>3. web'[w].op = "check" /\ \A v \in Web \ {w} : web'[v] = web[v]
    BY <2>1, <2>2, WebBegins DEF ReadCustomer
  <2> QED BY <2>1, <2>3, QuietFinish DEF ReadCustomer, ghosts
<1>2. CASE \E w \in Web : FinishFails(w) \/ Die(w)
  <2>1. PICK w \in Web : FinishFails(w) \/ Die(w)
    BY <1>2
  <2>2. web'[w].op = "free" /\ \A v \in Web \ {w} : web'[v] = web[v]
    BY <2>1, WebEnds DEF FinishFails, Die
  <2> QED BY <2>1, <2>2, QuietFinish DEF FinishFails, Die, ghosts
<1>3. CASE \E c \in Customers : NewCustomer(c, "on") \/ NewCustomer(c, "off") \/ Disable(c)
  <2>1. PICK c \in Customers : NewCustomer(c, "on") \/ NewCustomer(c, "off") \/ Disable(c)
    BY <1>3
  <2>2. \A e \in Customers : account[e] = "off" => account'[e] = "off"
    BY <2>1 DEF NewCustomer, Disable, TypeOK
  <2> QED BY <2>1, <2>2, QuietFinish DEF NewCustomer, Disable, ghosts
<1>4. CASE \E l \in Legals, d \in Dates, members \in SUBSET Customers : SaveLegal(l, d, members)
  BY <1>4, QuietFinish DEF SaveLegal
<1>5. CASE UNCHANGED vars
  BY <1>5, QuietFinish DEF vars, ghosts
<1> QED BY <1>1, <1>2, <1>3, <1>4, <1>5, NewContractFinish, ChangeFinish, DeleteFinish,
           RemoveFinish, FinishReads, DisableFinish, SaveFinish, CheckFinish, EnableFinish DEF Next

(* A customer with a finished contract is disabled, whatever overlaps and
   whoever dies between the statements of a finish, but for the two races the
   ghosts name. *)
THEOREM FinishedStaysOff ==
  ASSUME ContractBoundAssumption
  PROVE  Spec => []FinishedIsOff
<1>1. Init => FinishInv
  BY DEF Init, FinishInv, FinishedIsOff, FinishKnown, SavesDisabled, EnablesUnfinished,
         Finished, Of, Has, Free
<1>2. TypeOK /\ FinishInv /\ [Next]_vars => FinishInv'
  BY FinishStep
<1>3. Spec => []FinishInv
  BY <1>1, <1>2, ContractsKeepTypes, PTL DEF Spec
<1>4. FinishInv => FinishedIsOff
  BY DEF FinishInv
<1> QED BY <1>3, <1>4, PTL

-----------------------------------------------------------------------------
(* With sorm_export, an enabled customer has a contract or is a branch. *)

Bound(c) == c \in waived \/ IsBranch(c) \/ Of(c) # {}

(* Whoever is bound stays so: contracts and customers are not removed, and
   who loses a contract or a membership to a change is marked. *)
LEMMA BoundStays ==
  ASSUME Sorm, TypeOK, [Next]_vars, NEW c, Bound(c)
  PROVE  Bound(c)'
<1>1. CASE \E k \in Contracts, e \in Customers, d \in Dates : NewContract(k, e, d)
  <2>1. PICK k \in Contracts, e \in Customers, d \in Dates : NewContract(k, e, d)
    BY <1>1
  <2>2. contract[k] = Missing /\ \A j \in Contracts \ {k} : contract'[j] = contract[j]
    BY <2>1 DEF NewContract, TypeOK
  <2>3. Of(c) \subseteq Of(c)'
    BY <2>2 DEF Of, Has
  <2> QED BY <2>1, <2>3 DEF NewContract, Bound, IsBranch, firms, ghosts
<1>2. CASE \E k \in Contracts, e \in Customers, d \in Dates : ChangeContract(k, e, d)
  <2>1. PICK k \in Contracts, e \in Customers, d \in Dates : ChangeContract(k, e, d)
    BY <1>2
  <2>2. /\ \A j \in Contracts \ {k} : contract'[j] = contract[j]
        /\ contract'[k] = Signed(contract[k].state, e, d)
    BY <2>1 DEF ChangeContract, TypeOK
  <2>3. Has(k)' /\ contract'[k].customer = e
    BY <2>1, <2>2, ContractShape DEF ChangeContract, ContractRecord, Has, Signed, Missing, Gone
  <2>4. c \in waived' \/ Of(c) \subseteq Of(c)'
    BY <2>1, <2>2, <2>3 DEF ChangeContract, Of, Has
  <2>5. waived \subseteq waived' /\ branches' = branches
    BY <2>1 DEF ChangeContract, firms
  <2> QED BY <2>4, <2>5 DEF Bound, IsBranch
<1>3. CASE \E w \in Web : SaveFinished(w)
  <2>1. PICK w \in Web : SaveFinished(w)
    BY <1>3
  <2> DEFINE k == web[w].k
  <2>2. k \in Contracts /\ contract[k] \in ContractRecord
    BY <2>1, RequestShape, ContractShape DEF SaveFinished, MaySave
  <2>3. contract'[k] = [contract[k] EXCEPT !.state = "finished"]
        /\ \A j \in Contracts \ {k} : contract'[j] = contract[j]
    BY <2>1, <2>2 DEF SaveFinished, TypeOK
  <2>4. contract'[k].customer = contract[k].customer /\ contract'[k] \notin {Missing, Gone}
    BY <2>2, <2>3 DEF ContractRecord, Missing, Gone
  <2> HIDE DEF k
  <2>5. Of(c) \subseteq Of(c)'
    BY <2>3, <2>4 DEF Of, Has
  <2> QED BY <2>1, <2>5 DEF SaveFinished, Bound, IsBranch, firms
<1>4. CASE \E l \in Legals, d \in Dates, members \in SUBSET Customers : SaveLegal(l, d, members)
  <2>1. PICK l \in Legals, d \in Dates, members \in SUBSET Customers : SaveLegal(l, d, members)
    BY <1>4
  <2>2. \A m \in Legals \ {l} : branches'[m] = branches[m]
    BY <2>1 DEF SaveLegal, TypeOK
  <2>3. c \in waived' \/ (IsBranch(c) => IsBranch(c)')
    BY <2>1, <2>2 DEF SaveLegal, IsBranch
  <2>4. waived \subseteq waived' /\ Of(c)' = Of(c)
    BY <2>1 DEF SaveLegal, Of, Has
  <2> QED BY <2>3, <2>4 DEF Bound
<1>5. CASE UNCHANGED <<contract, branches>> /\ waived \subseteq waived'
  BY <1>5 DEF Bound, IsBranch, Of, Has
<1>6. CASE \E w \in Web, k \in Contracts : Finish(w, k)
  BY <1>5, <1>6 DEF Finish, firms, ghosts
<1>7. CASE \E e \in Customers : \/ NewCustomer(e, "on") \/ NewCustomer(e, "off")
                                \/ Disable(e)
  BY <1>5, <1>7 DEF NewCustomer, Disable, firms, ghosts
<1>8. CASE \E w \in Web, e \in Customers : ReadCustomer(w, e)
  BY <1>5, <1>8 DEF ReadCustomer, firms, ghosts
<1>9. CASE \E w \in Web : \/ DisableCustomer(w) \/ FinishFails(w)
                           \/ CheckOn(w) \/ Enable(w) \/ Die(w)
  BY <1>5, <1>9 DEF DisableCustomer, FinishFails, CheckOn, Enable, Die, firms, ghosts
<1>10. CASE UNCHANGED vars
  BY <1>5, <1>10 DEF vars, firms, ghosts
<1> QED BY <1>1, <1>2, <1>3, <1>4, <1>6, <1>7, <1>8, <1>9, <1>10
        DEF Next, DeleteContract, RemoveCustomer

(* Besides the property: whoever is about to be enabled is bound, and so is
   whoever was enabled when he was read, for he is not checked again. *)
Enables(q) == q.op = "enable" \/ (q.op = "check" /\ q.was = "on")
BoundInv ==
  /\ \A c \in Customers : account[c] = "on" => Bound(c)
  /\ \A w \in Web : Enables(web[w]) => Bound(web[w].c)

LEMMA BoundStep ==
  ASSUME Sorm, TypeOK, BoundInv, [Next]_vars
  PROVE  BoundInv'
<1>1. ASSUME NEW c, Bound(c) PROVE Bound(c)'
  BY <1>1, BoundStays
<1>2. \A c : Bound(c) => Bound(c)'
  BY <1>1
<1>3. ASSUME \A c \in Customers : account'[c] = "on" => account[c] = "on" \/ c \in waived',
             \A w \in Web : \/ web'[w] = web[w]
                           \/ web'[w].op \notin {"enable", "check"}
      PROVE  BoundInv'
  <2>1. \A c \in Customers : account'[c] = "on" => Bound(c)'
    BY <1>2, <1>3 DEF BoundInv, Bound
  <2>2. \A w \in Web : \A c : Enables(web'[w]) /\ c = web'[w].c => Bound(c)'
    BY <1>2, <1>3 DEF BoundInv, Enables
  <2> QED BY <2>1, <2>2 DEF BoundInv, Enables
<1>4. CASE \E w \in Web, c \in Customers : ReadCustomer(w, c)
  <2>1. PICK w \in Web, c \in Customers : ReadCustomer(w, c)
    BY <1>4
  <2> DEFINE q == [op |-> "check", c |-> c, was |-> account[c]]
  <2>2. q \in Request
    BY <2>1 DEF ReadCustomer, Is, Request
  <2>3. web'[w] = q /\ \A v \in Web \ {w} : web'[v] = web[v]
    BY <2>1, <2>2, WebBegins DEF ReadCustomer
  <2>4. account' = account
    BY <2>1 DEF ReadCustomer
  <2>5. \A v \in Web : \A e : Enables(web'[v]) /\ e = web'[v].c => Bound(e)'
    BY <1>2, <2>3 DEF BoundInv, Enables
  <2> QED BY <1>2, <2>4, <2>5 DEF BoundInv, Enables
<1>5. CASE \E w \in Web : CheckOn(w)
  <2>1. PICK w \in Web : CheckOn(w)
    BY <1>5
  <2>2. web[w] \in [op : {"check"}, c : Customers, was : {"on", "off"}]
    BY <2>1, RequestShape DEF CheckOn
  <2> DEFINE q == [op |-> "enable", c |-> web[w].c]
  <2>3. CASE TurnsOn(web[w]) /\ Finished(web[w].c) = {}
    <3>1. q \in Request
      BY <2>2 DEF Request
    <3>2. web'[w] = q /\ \A v \in Web \ {w} : web'[v] = web[v]
      BY <2>1, <2>3, <3>1, WebStep DEF CheckOn
    <3>3. Bound(web[w].c)
      BY <2>1, <2>2, <2>3 DEF TurnsOn, BoundInv, Enables, Bound, CheckOn
    <3>4. account' = account
      BY <2>1 DEF CheckOn
    <3>5. \A v \in Web : \A e : Enables(web'[v]) /\ e = web'[v].c => Bound(e)'
      BY <1>2, <3>2, <3>3 DEF BoundInv, Enables
    <3> QED BY <1>2, <3>4, <3>5 DEF BoundInv, Enables
  <2>4. CASE ~(TurnsOn(web[w]) /\ Finished(web[w].c) = {})
    <3>1. web'[w].op = "free" /\ \A v \in Web \ {w} : web'[v] = web[v]
      BY <2>1, <2>4, WebEnds DEF CheckOn
    <3> QED BY <1>3, <2>1, <3>1 DEF CheckOn
  <2> QED BY <2>3, <2>4
<1>6. CASE \E w \in Web : Enable(w)
  <2>1. PICK w \in Web : Enable(w)
    BY <1>6
  <2>2. web'[w].op = "free" /\ \A v \in Web \ {w} : web'[v] = web[v]
    BY <2>1, WebEnds DEF Enable
  <2>3. Bound(web[w].c) /\ web[w].c \in Customers
    BY <2>1, RequestShape DEF BoundInv, Enables, Enable
  <2>4. \A e \in Customers : account'[e] = "on" => account[e] = "on" \/ e = web[w].c
    BY <2>1, <2>3 DEF Enable, TypeOK
  <2>5. \A e \in Customers : account'[e] = "on" => Bound(e)'
    BY <1>2, <2>3, <2>4 DEF BoundInv, Enables
  <2>6. \A v \in Web : \A e : Enables(web'[v]) /\ e = web'[v].c => Bound(e)'
    BY <1>2, <2>2 DEF BoundInv, Enables
  <2> QED BY <2>5, <2>6 DEF BoundInv, Enables
<1>7. CASE \E w \in Web, k \in Contracts : Finish(w, k)
  <2>1. PICK w \in Web, k \in Contracts : Finish(w, k)
    BY <1>7
  <2> DEFINE q == [op |-> "finish", k |-> k, seen |-> contract[k]]
  <2>2. q \in Request
    BY <2>1, ContractShape DEF Finish, Request
  <2>3. web'[w].op = "finish" /\ \A v \in Web \ {w} : web'[v] = web[v]
    BY <2>1, <2>2, WebBegins DEF Finish
  <2> QED BY <1>3, <2>1, <2>3 DEF Finish
<1>8. CASE \E w \in Web : DisableCustomer(w)
  <2>1. PICK w \in Web : DisableCustomer(w)
    BY <1>8
  <2>2. web[w] \in [op : {"finish", "save"}, k : Contracts, seen : ContractRecord]
    BY <2>1, RequestShape DEF DisableCustomer
  <2>3. web'[w].op = "save" /\ \A v \in Web \ {w} : web'[v] = web[v]
    BY <2>1, <2>2 DEF DisableCustomer, Goes, TypeOK
  <2>4. \A e \in Customers : account'[e] = "on" => account[e] = "on"
    BY <2>1 DEF DisableCustomer, TypeOK
  <2> QED BY <1>3, <2>3, <2>4
<1>9. CASE \E w \in Web : SaveFinished(w) \/ FinishFails(w) \/ Die(w)
  <2>1. PICK w \in Web : SaveFinished(w) \/ FinishFails(w) \/ Die(w)
    BY <1>9
  <2>2. web'[w].op = "free" /\ \A v \in Web \ {w} : web'[v] = web[v]
    BY <2>1, WebEnds DEF SaveFinished, FinishFails, Die
  <2>3. account' = account
    BY <2>1 DEF SaveFinished, FinishFails, Die
  <2> QED BY <1>3, <2>2, <2>3
<1>10. CASE \E c \in Customers : NewCustomer(c, "on") \/ NewCustomer(c, "off") \/ Disable(c)
  <2>1. PICK c \in Customers : NewCustomer(c, "on") \/ NewCustomer(c, "off") \/ Disable(c)
    BY <1>10
  <2>2. \A e \in Customers : account'[e] = "on" => account[e] = "on" \/ e \in waived'
    BY <2>1 DEF NewCustomer, Disable, TypeOK
  <2> QED BY <1>3, <2>1, <2>2 DEF NewCustomer, Disable
<1>11. CASE UNCHANGED <<account, web>>
  BY <1>3, <1>11
<1> QED BY <1>4, <1>5, <1>6, <1>7, <1>8, <1>9, <1>10, <1>11
        DEF Next, NewContract, ChangeContract, DeleteContract, RemoveCustomer, SaveLegal, vars

(* With sorm_export, nobody is enabled without a contract or a legal entity,
   although the check and the save are two statements, and one who was enabled
   when he was read is not checked at all. *)
THEOREM EnabledIsBound ==
  ASSUME ContractBoundAssumption
  PROVE  Spec => []IndividualHasContract
<1>1. CASE ~Sorm
  <2>1. IndividualHasContract
    BY <1>1 DEF IndividualHasContract
  <2> QED BY <2>1, PTL
<1>2. CASE Sorm
  <2>1. Init => BoundInv
    BY DEF Init, BoundInv, Enables, Free
  <2>2. TypeOK /\ BoundInv /\ [Next]_vars => BoundInv'
    BY <1>2, BoundStep
  <2>3. Spec => []BoundInv
    BY <2>1, <2>2, ContractsKeepTypes, PTL DEF Spec
  <2>4. BoundInv => IndividualHasContract
    BY DEF BoundInv, Bound, IndividualHasContract
  <2> QED BY <2>3, <2>4, PTL
<1> QED BY <1>1, <1>2
=============================================================================
