--------------------------- MODULE PaymentExport ---------------------------
(***************************************************************************)
(* The export of payments to the authority: a nightly Celery task, and a   *)
(* command that exports everything (src/apps/sorm_export/tasks/payment.py, *)
(* tasks/task_export.py, hier_export/base.py and payment.py).              *)
(*                                                                         *)
(* What was exported is not marked: a run takes the payments added since   *)
(* the time stamp of the last successful run, and stamps its own time when *)
(* the file has been sent.  Time is counted in events: a payment and a     *)
(* stamp each have a time of their own, as microseconds make sure.         *)
(***************************************************************************)
EXTENDS Integers, FiniteSets

CONSTANTS
  Pays,          \* rows of AllTimePaymentLog
  Customers,
  Payer,         \* who made a payment
  Workers,       \* processes that run the task or the command
  MaxRuns,       \* bound: runs of the export
  MaxFull,       \* bound: runs of the command that exports everything
  MaxFaults,     \* bound: failures of FTP, workers that die
  MaxToggles,    \* bound: customers disabled or enabled
  MaxInFlight    \* bound: runs at one time

PayerAssumption == Payer \in [Pays -> Customers]
ExportBoundAssumption ==
  /\ IsFiniteSet(Workers)
  /\ MaxRuns \in Nat /\ MaxFull \in Nat /\ MaxFaults \in Nat
  /\ MaxToggles \in Nat /\ MaxInFlight \in Nat

VARIABLES
  pay,      \* date_add of a payment, 0 before; and whether it is committed
  active,   \* Customer.is_active
  made,     \* how many rows of ExportStampModel there are
  stamp,    \* the last successful one of them: its id and last_attempt_time
  run,      \* the export each worker is at
  sent,     \* how many files a payment is in
  late,     \* ghost: what successful runs did not see, see Notice
  lost,     \* ghost: workers that died between upload and stamp
  clock, budget

ghosts == <<late, lost>>
stamps == <<made, stamp>>
vars == <<pay, active, stamps, run, sent, ghosts, clock, budget>>

-----------------------------------------------------------------------------

Never == 0
Idle == [op |-> "idle"]
Running == Cardinality({w \in Workers : run[w] # Idle})
(* Ghost: p is added or committed after a run has read the rows. *)
Notice(p) == run' = [w \in Workers |->
  IF run[w].op \in {"upload", "stamp"} THEN [run[w] EXCEPT !.missed = @ \cup {p}] ELSE run[w]]

Spend(what) == budget[what] > 0 /\ budget' = [budget EXCEPT ![what] = @ - 1]
Goes(w, next) == run' = [run EXCEPT ![w] = next]

(* The payment is logged in the transaction that credits it ... *)
Add(p) ==
  /\ pay[p].at = Never
  /\ clock' = clock + 1
  /\ pay' = [pay EXCEPT ![p].at = clock + 1]
  /\ Notice(p)
  /\ UNCHANGED <<active, stamps, sent, ghosts, budget>>

(* ... and can be seen when that commits. *)
Commit(p) ==
  /\ pay[p].at # Never /\ ~pay[p].seen
  /\ pay' = [pay EXCEPT ![p].seen = TRUE]
  /\ Notice(p)
  /\ UNCHANGED <<active, stamps, sent, ghosts, clock, budget>>

Toggle(c) ==
  /\ Spend("toggles")
  /\ active' = IF c \in active THEN active \ {c} ELSE active \cup {c}
  /\ UNCHANGED <<pay, stamps, run, sent, ghosts, clock>>

(* The task takes the payments since the last successful run, and none at
   all before the command has been run once; the command takes all. *)
Begin(w, since) ==
  /\ run[w] = Idle /\ Running < MaxInFlight
  /\ Goes(w, [op |-> "read", since |-> since])
  /\ UNCHANGED <<pay, active, stamps, sent, ghosts, clock>>

Nightly(w) == stamp.at # Never /\ Spend("runs") /\ Begin(w, stamp.at)
ExportAll(w) == Spend("full") /\ Begin(w, Never)

BugRows(since) == {p \in Pays :
  pay[p].seen /\ Payer[p] \in active /\ pay[p].at > since + 1}     \* begins late
Rows(since) == {p \in Pays :
  pay[p].seen /\ Payer[p] \in active /\ pay[p].at >= since}

(* A stamp NOT_EXPORTED is made, and the rows are read as they are written
   to the buffer. *)
ReadRows(w) ==
  LET r == run[w] IN
  /\ r.op = "read"
  /\ made' = made + 1
  /\ Goes(w, [op |-> "upload", id |-> made + 1, rows |-> Rows(r.since), missed |->
       {p \in Pays : pay[p].at # Never /\ (~pay[p].seen \/ Payer[p] \notin active)}])
  /\ UNCHANGED <<pay, active, stamp, sent, ghosts, clock, budget>>

(* STOR; nothing is sent for no rows. *)
Upload(w) ==
  LET r == run[w] IN
  /\ r.op = "upload"
  /\ sent' = [p \in Pays |-> IF p \in r.rows THEN sent[p] + 1 ELSE sent[p]]
  /\ Goes(w, [op |-> "stamp", id |-> r.id, missed |-> r.missed])
  /\ UNCHANGED <<pay, active, stamps, ghosts, clock, budget>>

(* An FTP error: the stamp says FAILED, and the next run starts where this
   one did. *)
UploadFails(w) ==
  /\ run[w].op = "upload" /\ run[w].rows # {}
  /\ Spend("faults")
  /\ Goes(w, Idle)
  /\ UNCHANGED <<pay, active, stamps, sent, ghosts, clock>>

(* The stamp says SUCCESSFUL, and now. *)
Stamp(w) ==
  /\ run[w].op = "stamp"
  /\ clock' = clock + 1
  /\ stamp' = IF run[w].id > stamp.id THEN [id |-> run[w].id, at |-> clock + 1] ELSE stamp
  /\ late' = late \cup run[w].missed
  /\ Goes(w, Idle)
  /\ UNCHANGED <<pay, active, made, sent, lost, budget>>

Die(w) ==
  /\ run[w] # Idle
  /\ Spend("faults")
  /\ lost' = IF run[w].op = "stamp" THEN lost + 1 ELSE lost
  /\ Goes(w, Idle)
  /\ UNCHANGED <<pay, active, stamps, sent, late, clock>>

-----------------------------------------------------------------------------

Init ==
  /\ pay = [p \in Pays |-> [at |-> Never, seen |-> FALSE]]
  /\ active = Customers
  /\ made = 0 /\ stamp = [id |-> 0, at |-> Never]
  /\ run = [w \in Workers |-> Idle]
  /\ sent = [p \in Pays |-> 0]
  /\ late = {} /\ lost = 0
  /\ clock = 1
  /\ budget = [runs |-> MaxRuns, full |-> MaxFull, faults |-> MaxFaults, toggles |-> MaxToggles]

Step(w) == ReadRows(w) \/ Upload(w) \/ Stamp(w)
Next ==
  \/ \E p \in Pays : Add(p) \/ Commit(p)
  \/ \E c \in Customers : Toggle(c)
  \/ \E w \in Workers : \/ Nightly(w) \/ ExportAll(w) \/ Step(w)
                        \/ UploadFails(w) \/ Die(w)

Spec == Init /\ [][Next]_vars

-----------------------------------------------------------------------------
(* Properties. *)

Run == {Idle} \cup [op : {"read"}, since : Nat] \cup
       [op : {"upload"}, id : 1 .. made, rows : SUBSET Pays, missed : SUBSET Pays] \cup
       [op : {"stamp"}, id : 1 .. made, missed : SUBSET Pays]

(* Types; nothing is dated after the clock. *)
TypeOK ==
  /\ pay \in [Pays -> [at : 0 .. clock, seen : BOOLEAN]]
  /\ active \subseteq Customers
  /\ made \in Nat /\ stamp \in [id : 0 .. made, at : 0 .. clock]
  /\ run \in [Workers -> Run]
  /\ sent \in [Pays -> Nat]
  /\ late \subseteq Pays /\ lost \in Nat
  /\ clock \in Nat
  /\ budget \in [{"runs", "full", "faults", "toggles"} -> Nat]

(* With one run at a time, a payment is exported once, and once more only
   for a worker that died between sending and stamping, or for another run
   of the command that exports everything. *)
FullRuns == MaxFull - budget.full
ExportedOnce == \A p \in Pays :
  sent[p] <= (IF FullRuns > 1 THEN FullRuns ELSE 1) + lost

(* No payment falls between two runs, but for those that a successful run
   could not see: added or committed after it read the rows, or of a
   customer who was disabled then.  Failures and deaths lose none. *)
OnlyLateAreMissed == \A p \in Pays \ late :
  pay[p].seen /\ pay[p].at < stamp.at => sent[p] > 0
=============================================================================
