--------------------------- MODULE CustomerExport ---------------------------
(***************************************************************************)
(* The command that exports all customers to the authority                 *)
(* (src/apps/sorm_export/management/commands/export_all.py and             *)
(* hier_export/customer.py): one file after the other, each read from the  *)
(* database when its turn comes, while customers change.                   *)
(*                                                                         *)
(* A record of a customer in any file needs the record of the same         *)
(* customer in the file of roots, which goes first.                        *)
(***************************************************************************)
EXTENDS Integers, FiniteSets, Sequences

CONSTANTS
  Customers,
  Legals,        \* rows of CustomerLegalModel
  Start,         \* the records a customer may have at first
  MaxChanges,    \* bound: changes of customers during the command
  MaxFaults      \* bound: failures of FTP

CustomerRecord ==
  [active : BOOLEAN,
   contracts : {"none", "ended", "one", "two"},  \* "ended": has one, not active;
                                                 \* "one", "two": that many active
   legals : SUBSET Legals,                       \* customerlegalmodel_set
   address : {"none", "loose", "street", "house"},
       \* "loose": not in a street, "street": in one, but no house or office
   passport : BOOLEAN,                           \* its address is in a street
   static : BOOLEAN,                             \* has a static lease
   service : BOOLEAN]

StartAssumption == Start \subseteq CustomerRecord
ExportBoundAssumption == MaxChanges \in Nat /\ MaxFaults \in Nat

VARIABLES
  customer,  \* rows of the customers
  located,   \* legals whose address is in a street
  homeless,  \* legals without an address
  at,        \* the file whose turn it is, as a number of Order
  files,     \* customers in each file that was sent
  failed,    \* files whose stamp says FAILED
  aborted,   \* why the command has died, "" when it has not
  changed,   \* ghost: customers changed since the roots were read
  changes, faults

legalVars == <<located, homeless>>
vars == <<customer, legalVars, at, files, failed, aborted, changed, changes, faults>>

-----------------------------------------------------------------------------
(* Which customers a file has a record of. *)

Active == {c \in Customers : customer[c].active}
HasContract(c) == customer[c].contracts # "none"
IsLegal(c) == customer[c].legals # {}

BugAll == {c \in Active : HasContract(c)}            \* no legal ones
(* general_customer_all_filter_queryset and general_customer_filter_queryset *)
All == {c \in Active : HasContract(c) \/ IsLegal(c)}
Individuals == {c \in Active : HasContract(c) /\ ~IsLegal(c)}

Root == All
Contracts == {c \in Active : HasContract(c)}
AccessPoint == {c \in Individuals : customer[c].address = "house"}

InStreet(c) == customer[c].address \in {"street", "house"}

(* customer_checks, which on_customer_turns_on makes as well. *)
Checked(c) ==
  /\ customer[c].passport /\ HasContract(c) /\ ~IsLegal(c)
  /\ InStreet(c)

Branch(c) == IsLegal(c) /\ InStreet(c)
Person(c) == Checked(c) /\ customer[c].contracts \in {"one", "two"}
Individual == {c \in Active : Branch(c) \/ Person(c)}

Legal == {c \in Active : customer[c].legals \cap located # {}}
Contacts == Individuals
Leases == {c \in All : customer[c].static}
Services == {c \in Individuals : customer[c].service}

Order == <<"root", "binds", "contracts", "access", "individual", "legal",
           "contacts", "leases", "services">>

Records(file) ==
  CASE file = "root" -> Root
    [] file = "binds" -> {}             \* has no customer ids
    [] file = "contracts" -> Contracts
    [] file = "access" -> AccessPoint
    [] file = "individual" -> Individual
    [] file = "legal" -> Legal
    [] file = "contacts" -> Contacts
    [] file = "leases" -> Leases
    [] file = "services" -> Services

(* Rows that end the command, as what they raise is caught nowhere: the
   subquery for the one legal, or the one active contract, of a customer
   who has two; and an address that is None, since hasattr finds it. *)
Homeless(c) == customer[c].address = "none"
Breaks(file, why) ==
  CASE why = "address" ->
         \/ file = "access" /\ \E c \in Individuals : Homeless(c)
         \/ file = "individual" /\ \E c \in Active : Homeless(c) /\
              (IsLegal(c) \/ (HasContract(c) /\ customer[c].passport))
    [] why = "two" ->
         \/ file = "root" /\ \E c \in All : Cardinality(customer[c].legals) > 1
         \/ file = "individual" /\ \E c \in Active : customer[c].contracts = "two"
    [] why = "legal" -> file = "legal" /\ homeless # {}

-----------------------------------------------------------------------------

Turn == Order[at]
Goes == at <= Len(Order) /\ aborted = ""
Reads == changed' = IF Turn = "root" THEN {} ELSE changed

(* One file: read from the database and sent. *)
Send ==
  /\ Goes
  /\ \A why \in {"address", "two", "legal"} : ~Breaks(Turn, why)
  /\ files' = [files EXCEPT ![Turn] = Records(Turn)]
  /\ at' = at + 1
  /\ Reads
  /\ UNCHANGED <<customer, legalVars, failed, aborted, changes, faults>>

(* An FTP error: task_export notes it and the command goes on, but the file
   of binds is sent without task_export, and its error ends the command. *)
SendFails ==
  /\ Goes /\ faults < MaxFaults
  /\ Turn = "binds" \/ Records(Turn) # {}       \* nothing is sent for no rows
  /\ \A why \in {"address", "two", "legal"} : ~Breaks(Turn, why)
  /\ faults' = faults + 1
  /\ IF Turn = "binds" THEN aborted' = "ftp" /\ UNCHANGED <<failed, at>>
     ELSE failed' = failed \cup {Turn} /\ at' = at + 1 /\ UNCHANGED aborted
  /\ Reads
  /\ UNCHANGED <<customer, legalVars, files, changes>>

Abort(why) ==
  /\ Goes /\ Breaks(Turn, why)
  /\ aborted' = why
  /\ UNCHANGED <<customer, legalVars, at, files, failed, changed, changes, faults>>

(* Staff change something of a customer. *)
Change(c) ==
  /\ changes < MaxChanges /\ changes' = changes + 1
  /\ Goes
  /\ \/ customer' = [customer EXCEPT ![c].active = ~@]
     \/ \E v \in {"none", "ended", "one", "two"} :
          customer' = [customer EXCEPT ![c].contracts = v]
     \/ \E ls \in SUBSET Legals : customer' = [customer EXCEPT ![c].legals = ls]
     \/ \E v \in {"none", "loose", "street", "house"} :
          customer' = [customer EXCEPT ![c].address = v]
     \/ customer' = [customer EXCEPT ![c].passport = ~@]
     \/ customer' = [customer EXCEPT ![c].static = ~@]
     \/ customer' = [customer EXCEPT ![c].service = ~@]
  /\ changed' = changed \cup {c}
  /\ UNCHANGED <<legalVars, at, files, failed, aborted, faults>>

Init ==
  /\ customer \in [Customers -> Start]
  /\ located \in SUBSET Legals /\ homeless \in SUBSET (Legals \ located)
  /\ at = 1
  /\ files = [f \in {Order[i] : i \in 1 .. Len(Order)} |-> {}]
  /\ failed = {} /\ aborted = "" /\ changed = {}
  /\ changes = 0 /\ faults = 0

Next ==
  \/ Send \/ SendFails
  \/ \E why \in {"address", "two", "legal"} : Abort(why)
  \/ \E c \in Customers : Change(c)

Spec == Init /\ [][Next]_vars

-----------------------------------------------------------------------------
(* Properties. *)

Files == {Order[i] : i \in 1 .. Len(Order)}

(* Every record has its root: the filters of the later files are never wider
   than that of the first.  It is missing only for a customer who was
   changed in between, or when the file of roots itself could not be sent. *)
HasRoot == "root" \notin failed =>
  \A f \in Files : files[f] \subseteq files["root"] \cup changed

(* A customer who passes the check and has a house and one active contract,
   or is a branch with an address of one legal with an address. *)
Complete(c) ==
  /\ customer[c].address = "house"
  /\ \/ Checked(c) /\ customer[c].contracts = "one"
     \/ customer[c].contracts = "none" /\ Cardinality(customer[c].legals) = 1

(* When all customers are complete or disabled and nothing fails, the command
   reaches its end and each of them is in the files about him. *)
CompleteIsExported ==
  (/\ faults = 0 /\ changes = 0 /\ homeless = {}
   /\ \A c \in Active : Complete(c)) =>
    /\ aborted = ""
    /\ at > Len(Order) => \A c \in Active :
         /\ c \in files["root"] \cap files["individual"]
         /\ IF IsLegal(c) THEN customer[c].legals \subseteq located => c \in files["legal"]
            ELSE c \in files["access"] \cap files["contacts"] \cap files["contracts"]
=============================================================================
