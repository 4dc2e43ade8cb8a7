------------------------------ MODULE Offices ------------------------------
(***************************************************************************)
(* The components that serve requests: transactions of Payme, contracts,   *)
(* tasks of technicians, addresses, tokens and bots.  None of them reads   *)
(* the state of another, so they are explored side by side: all begin in   *)
(* their initial state, and in each behaviour the one named by scene       *)
(* moves.  The state space is the sum of theirs, not the product.  A       *)
(* component has two scenes where two instances of it ask different        *)
(* questions.                                                              *)
(*                                                                         *)
(* A component with theorems of its own is taken with them, so that        *)
(* Offices_proofs can cite them of each instance.                          *)
(***************************************************************************)
EXTENDS Integers, FiniteSets

CONSTANTS
  Web,                 \* threads of the web server
  Together,            \* bound: requests at one time, where they overlap
  Transactions, Payers, NoCustomer, Amount, TimeOut,  \* Payme
  Contracts, FewContracts, Clients, Legals, Dates,    \* contracts
  Tasks, FewTasks, Readers, Staff, FewStaff, Superusers,  \* tasks
  Addrs, Levels, Types, Kinds, Titles, Asked,         \* addresses, some of each scene
  Accounts, Others, CacheTTL,                         \* tokens: of staff, of customers
  Chats, Bots, Subs, Profiles, NoProfile, Phone,      \* bots
  (* Bounds: clocks, changes, failures, lines of logs, and those of the second scene. *)
  PaymeClock, PaymeFaults, PaymeSerialFaults, ContractFaults, ContractChanges,
  LogLines, TaskFaults, TaskSerialFaults, TreeWrites,
  TokenClock, TokenChanges, MaxWait, Updates, SerialUpdates

VARIABLES scene,
  trans, pAccount, balance, ledger, pWeb, checks, credits, told, clock, pBudget,
  account, contract, legal, branches, web, raced, moved, waived, budget,
  task, log, tWeb, torn, refused, tFaults,
  addr, used, aWeb, cache, relevelled, writes,
  person, token, redis, accountWeb, changed, now, changes,
  subs, handler, doubled, updates

-----------------------------------------------------------------------------
(* Payme: transactions of customers, by overlapping requests and one at a time. *)

PaymeOverlap == INSTANCE Payme_proofs WITH
  Customers <- Payers, MaxTime <- PaymeClock, MaxFaults <- PaymeFaults, MaxInFlight <- Together,
  account <- pAccount, web <- pWeb, budget <- pBudget
PaymeSerial == INSTANCE Payme_proofs WITH
  Customers <- Payers, MaxTime <- PaymeClock, MaxFaults <- PaymeSerialFaults, MaxInFlight <- 1,
  account <- pAccount, web <- pWeb, budget <- pBudget

(* Contracts, with the signals of the export and without. *)
ContractsExported == INSTANCE Contracts_proofs WITH
  Customers <- Clients, Sorm <- TRUE,
  MaxFaults <- ContractFaults, MaxChanges <- ContractChanges, MaxInFlight <- Together
ContractsAlone == INSTANCE Contracts_proofs WITH
  Contracts <- FewContracts, Customers <- Clients, Sorm <- FALSE,
  MaxFaults <- 0, MaxChanges <- ContractChanges, MaxInFlight <- Together

(* Tasks: few by overlapping requests, more by one request at a time. *)
TasksOverlap == INSTANCE TechTasks_proofs WITH
  Tasks <- FewTasks, Staff <- FewStaff, Customers <- Readers,
  MaxLog <- LogLines, MaxFaults <- TaskFaults, MaxInFlight <- Together,
  web <- tWeb, faults <- tFaults
TasksSerial == INSTANCE TechTasks_proofs WITH
  Customers <- Readers, MaxLog <- LogLines, MaxFaults <- TaskSerialFaults, MaxInFlight <- 1,
  web <- tWeb, faults <- tFaults

(* Addresses: levels of many, and all that few have. *)
TreeScenes == {"levels", "addresses"}
Tree(s) == INSTANCE AddressTree WITH
  Addrs <- Addrs[s], Types <- Types[s], Kinds <- Kinds[s], Asked <- Asked[s],
  MaxWrites <- TreeWrites[s], Threads <- Web, MaxInFlight <- Together, web <- aWeb

(* Tokens: of staff, and of customers, by overlapping requests. *)
TokensOfStaff == INSTANCE AccountAccess_proofs WITH
  Staff <- Accounts, MaxTime <- TokenClock, MaxChanges <- TokenChanges, aweb <- accountWeb
TokensOfCustomer == INSTANCE AccountAccess_proofs WITH
  Accounts <- Others, Staff <- {}, MaxTime <- TokenClock, MaxChanges <- TokenChanges,
  aweb <- accountWeb

(* Bots: updates that overlap, and one at a time. *)
Bot(n, m) == INSTANCE Bots WITH Threads <- Web, MaxInFlight <- n, MaxUpdates <- m

(* What the components assume of their constants. *)
ASSUME OfficesAssumption ==
  /\ PaymeOverlap!Assumptions /\ PaymeSerial!Assumptions
  /\ ContractsExported!ContractBoundAssumption /\ ContractsAlone!ContractBoundAssumption
  /\ TasksOverlap!StaffAssumption /\ TasksOverlap!TaskBoundAssumption
  /\ TasksSerial!StaffAssumption /\ TasksSerial!TaskBoundAssumption
  /\ \A s \in TreeScenes : Tree(s)!AddressAssumption /\ Tree(s)!AddressBoundAssumption
  /\ TokensOfStaff!AccessAssumption /\ TokensOfCustomer!AccessAssumption
  /\ Bot(Together, Updates)!BotAssumption /\ Bot(1, SerialUpdates)!BotAssumption

-----------------------------------------------------------------------------
paymeVars    == <<trans, pAccount, balance, ledger, pWeb, checks, credits, told, clock, pBudget>>
contractVars == <<account, contract, legal, branches, web, raced, moved, waived, budget>>
taskVars     == <<task, log, tWeb, torn, refused, tFaults>>
addressVars  == <<addr, used, aWeb, cache, relevelled, writes>>
accountVars  == <<person, token, redis, accountWeb, changed, now, changes>>
botVars      == <<subs, handler, doubled, updates>>
vars == <<scene, paymeVars, contractVars, taskVars, addressVars, accountVars, botVars>>

Scenes == {"payme", "one payme", "contracts", "contracts alone", "tasks", "one task",
           "levels", "addresses", "staff token", "customer token", "bots", "one update"}

Init ==
  /\ scene \in Scenes
  /\ IF scene = "one payme" THEN PaymeSerial!Init ELSE PaymeOverlap!Init
  /\ IF scene = "contracts alone" THEN ContractsAlone!Init ELSE ContractsExported!Init
  /\ IF scene = "one task" THEN TasksSerial!Init ELSE TasksOverlap!Init
  /\ IF scene = "addresses" THEN Tree("addresses")!Init ELSE Tree("levels")!Init
  /\ IF scene = "customer token" THEN TokensOfCustomer!Init ELSE TokensOfStaff!Init
  /\ IF scene = "one update" THEN Bot(1, SerialUpdates)!Init ELSE Bot(Together, Updates)!Init

Next ==
  \/ /\ \/ scene = "payme" /\ PaymeOverlap!Next
        \/ scene = "one payme" /\ PaymeSerial!Next
     /\ UNCHANGED <<scene, contractVars, taskVars, addressVars, accountVars, botVars>>
  \/ /\ \/ scene = "contracts" /\ ContractsExported!Next
        \/ scene = "contracts alone" /\ ContractsAlone!Next
     /\ UNCHANGED <<scene, paymeVars, taskVars, addressVars, accountVars, botVars>>
  \/ /\ \/ scene = "tasks" /\ TasksOverlap!Next
        \/ scene = "one task" /\ TasksSerial!Next
     /\ UNCHANGED <<scene, paymeVars, contractVars, addressVars, accountVars, botVars>>
  \/ /\ \/ scene = "levels" /\ Tree("levels")!Next
        \/ scene = "addresses" /\ Tree("addresses")!Next
     /\ UNCHANGED <<scene, paymeVars, contractVars, taskVars, accountVars, botVars>>
  \/ /\ \/ scene = "staff token" /\ TokensOfStaff!Next
        \/ scene = "customer token" /\ TokensOfCustomer!Next
     /\ UNCHANGED <<scene, paymeVars, contractVars, taskVars, addressVars, botVars>>
  \/ /\ \/ scene = "bots" /\ Bot(Together, Updates)!Next
        \/ scene = "one update" /\ Bot(1, SerialUpdates)!Next
     /\ UNCHANGED <<scene, paymeVars, contractVars, taskVars, addressVars, accountVars>>

Spec == Init /\ [][Next]_vars

-----------------------------------------------------------------------------
(* The properties of the components, each of the scenes it is about. *)

(* Every variable of the component that moves keeps its type, and what refers to a
   row refers to one that exists. *)
TypeOK ==
  CASE scene \in {"payme", "one payme"} -> PaymeOverlap!TypeOK
    [] scene = "contracts"       -> ContractsExported!TypeOK
    [] scene = "contracts alone" -> ContractsAlone!TypeOK
    [] scene = "tasks"           -> TasksOverlap!TypeOK
    [] scene = "one task"        -> TasksSerial!TypeOK
    [] scene = "levels"          -> Tree("levels")!TypeOK
    [] scene = "addresses"       -> Tree("addresses")!TypeOK
    [] scene = "staff token"     -> TokensOfStaff!TypeOK
    [] scene = "customer token"  -> TokensOfCustomer!TypeOK
    [] scene = "bots"            -> Bot(Together, Updates)!TypeOK
    [] scene = "one update"      -> Bot(1, SerialUpdates)!TypeOK /\ Bot(1, SerialUpdates)!OnePerChat

(* Payme, with overlapping requests: an amount is credited at most as often as
   there are requests at one time, and performed means credited. *)
PerformedIsCredited ==
  /\ scene = "payme" => PaymeOverlap!PerformedIsCredited /\ PaymeOverlap!CreditedInFlight
  /\ scene = "one payme" => PaymeSerial!PerformedIsCredited /\ PaymeSerial!CreditedInFlight

(* Payme, one request at a time: the log explains the balance, and the
   handlers do what PaymentPromise promises. *)
BalanceIsLog == scene = "one payme" => PaymeSerial!BalanceIsLog
KeepsPromise ==
  /\ PaymeSerial!Promise!Init
  /\ [][scene = "one payme" => PaymeSerial!Promise!Next]_(PaymeSerial!Promise!vars)

(* Contracts: a customer with a finished contract stays off, and one who is on
   has a contract, but for the races and changes the ghosts name. *)
FinishedIsOff ==
  /\ scene = "contracts" => ContractsExported!FinishedIsOff
  /\ scene = "contracts alone" => ContractsAlone!FinishedIsOff
IndividualHasContract == scene = "contracts" => ContractsExported!IndividualHasContract

(* Tasks: the log tells of the state of a task, whatever overlaps; and is
   its history, when nothing does. *)
LogTellsState ==
  /\ scene = "one task" => TasksSerial!StateIsLogged /\ TasksSerial!LogIsHistory
  /\ scene = "tasks" => TasksOverlap!StateIsLogged

(* Addresses: levels fall on the way up, but for rows whose level was changed. *)
LevelsFall == scene = "levels" => Tree("levels")!LevelsFall

(* Tokens: the answer to a request follows a change of its account within the
   time the copy lives and two requests take. *)
AnswersFollow ==
  [][/\ scene = "staff token" => TokensOfStaff!AnswerStep
     /\ scene = "customer token" => TokensOfCustomer!AnswerStep]_vars

(* Bots: a chat is unsubscribed by its own update, unless some chat had two subscribers. *)
SubscriptionsAreKept == [][(scene \in {"bots", "one update"}) => Bot(Together, Updates)!KeptStep]_vars
=============================================================================
