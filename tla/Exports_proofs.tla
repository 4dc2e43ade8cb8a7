--------------------------- MODULE Exports_proofs ---------------------------
(***************************************************************************)
(* The properties of Exports for every value of its constants.             *)
(*                                                                         *)
(* In a behaviour the component named by scene behaves as its own          *)
(* specification says and the others do not move.  The invariants of the   *)
(* components are proved here, each for any scene it may be taken with.    *)
(***************************************************************************)
EXTENDS Exports, Sequences, FiniteSetTheorems, TLAPS

-----------------------------------------------------------------------------
(* Payments. *)

(* The sets and numbers of PaymentExport are those of this module. *)
LEMMA PaymentsOnFiniteSets ==
  ASSUME NEW sc \in PayScenes, NEW S
  PROVE  (Payments(sc)!IsFiniteSet(S) <=> IsFiniteSet(S)) /\ Payments(sc)!Cardinality(S) = Cardinality(S)
<1>1. Payments(sc)!IsFiniteSet(S) <=> IsFiniteSet(S)
  BY Zenon DEF Payments!IsFiniteSet, IsFiniteSet
<1>2. Payments(sc)!Cardinality(S) = Cardinality(S)
  BY Zenon DEF Payments!Cardinality, Cardinality
<1> QED BY <1>1, <1>2

(* What a run is at, and what it knows. *)
LEMMA RunShape ==
  ASSUME NEW sc \in PayScenes PROVE
  /\ Payments(sc)!Idle \in Payments(sc)!Run /\ Payments(sc)!Idle.op = "idle"
  /\ \A r \in Payments(sc)!Run : r.op = "read" => r # Payments(sc)!Idle /\ r.since \in Nat
  /\ \A r \in Payments(sc)!Run : r.op = "upload" => r # Payments(sc)!Idle /\ r.id \in 1 .. made /\ r.rows \in SUBSET Pays /\ r.missed \in SUBSET Pays
  /\ \A r \in Payments(sc)!Run : r.op = "stamp" => r # Payments(sc)!Idle /\ r.id \in 1 .. made /\ r.missed \in SUBSET Pays
  /\ \A r \in Payments(sc)!Run : r.op \in {"idle", "read", "upload", "stamp"} /\ (r.op = "idle" => r = Payments(sc)!Idle)
<1>1. Payments(sc)!Idle \in Payments(sc)!Run /\ Payments(sc)!Idle.op = "idle"
  BY DEF Payments!Run, Payments!Idle
<1>2. \A r \in Payments(sc)!Run : r.op = "read" => r # Payments(sc)!Idle /\ r.since \in Nat
  BY DEF Payments!Run, Payments!Idle
<1>3. \A r \in Payments(sc)!Run : r.op = "upload" => r # Payments(sc)!Idle /\ r.id \in 1 .. made /\ r.rows \in SUBSET Pays /\ r.missed \in SUBSET Pays
  BY DEF Payments!Run, Payments!Idle
<1>4. \A r \in Payments(sc)!Run : r.op = "stamp" => r # Payments(sc)!Idle /\ r.id \in 1 .. made /\ r.missed \in SUBSET Pays
  BY DEF Payments!Run, Payments!Idle
<1>5. \A r \in Payments(sc)!Run : r.op \in {"idle", "read", "upload", "stamp"} /\ (r.op = "idle" => r = Payments(sc)!Idle)
  BY DEF Payments!Run, Payments!Idle
<1> QED BY <1>1, <1>2, <1>3, <1>4, <1>5

(* A payment that no run noticed too late is in the rows of the run, or was sent
   before it; and once a run has stamped the later ones need not look for it. *)
ReadSinceStamp(sc) == \A w \in Workers : run[w].op = "read" => run[w].since <= stamp.at
RunSees(sc) == \A w \in Workers, p \in Pays :
  /\ (run[w].op = "upload" /\ p \notin late \cup run[w].missed /\ pay[p].at # Payments(sc)!Never) => p \in run[w].rows \/ pSent[p] > 0
  /\ (run[w].op = "stamp" /\ p \notin late \cup run[w].missed /\ pay[p].at # Payments(sc)!Never) => pSent[p] > 0
SentBefore(sc) == \A p \in Pays \ late : (pay[p].at # Payments(sc)!Never /\ pay[p].at < stamp.at) => pSent[p] > 0
PaymentsDated(sc) == \A p \in Pays : pay[p].seen => pay[p].at # Payments(sc)!Never
MissedInv(sc) == ReadSinceStamp(sc) /\ RunSees(sc) /\ SentBefore(sc) /\ PaymentsDated(sc)

(* Adding or committing a payment is noticed by the runs that have read. *)
LEMMA PaymentNoticed ==
  ASSUME NEW sc \in PayScenes, Payments(sc)!TypeOK, NEW p \in Pays, Payments(sc)!Notice(p)
  PROVE  \A w \in Workers :
    /\ run'[w].op = run[w].op /\ (run[w] = Payments(sc)!Idle <=> run'[w] = Payments(sc)!Idle)
    /\ run[w].op = "read" => run'[w] = run[w]
    /\ run[w].op \in {"upload", "stamp"} => run'[w].missed = run[w].missed \cup {p} /\ run'[w].id = run[w].id
    /\ run[w].op = "upload" => run'[w].rows = run[w].rows
    /\ run'[w] \in Payments(sc)!Run
<1> SUFFICES ASSUME NEW w \in Workers
    PROVE  /\ run'[w].op = run[w].op /\ (run[w] = Payments(sc)!Idle <=> run'[w] = Payments(sc)!Idle)
           /\ run[w].op = "read" => run'[w] = run[w]
           /\ run[w].op \in {"upload", "stamp"} => run'[w].missed = run[w].missed \cup {p} /\ run'[w].id = run[w].id
           /\ run[w].op = "upload" => run'[w].rows = run[w].rows
           /\ run'[w] \in Payments(sc)!Run
  OBVIOUS
<1> DEFINE r == run[w]
<1>0. r \in Payments(sc)!Run
  BY DEF Payments!TypeOK
<1>1. run'[w] = IF r.op \in {"upload", "stamp"} THEN [r EXCEPT !.missed = @ \cup {p}] ELSE r
  BY DEF Payments!Notice
<1> HIDE DEF r
<1>2. CASE r.op = "upload"
  <2>1. r \in [op : {"upload"}, id : 1 .. made, rows : SUBSET Pays, missed : SUBSET Pays]
    BY <1>0, <1>2 DEF Payments!Run, Payments!Idle
  <2> QED BY <1>1, <2>1 DEF Payments!Run, Payments!Idle, r
<1>3. CASE r.op = "stamp"
  <2>1. r \in [op : {"stamp"}, id : 1 .. made, missed : SUBSET Pays]
    BY <1>0, <1>3 DEF Payments!Run, Payments!Idle
  <2> QED BY <1>1, <2>1 DEF Payments!Run, Payments!Idle, r
<1>4. CASE r.op \notin {"upload", "stamp"}
  BY <1>0, <1>1, <1>4 DEF r
<1> QED BY <1>2, <1>3, <1>4

PayBudget(sc) == [{"runs", "full", "faults", "toggles"} -> Nat]
LEMMA BudgetSpent ==
  ASSUME NEW sc \in PayScenes, Payments(sc)!TypeOK, NEW what \in {"runs", "full", "faults", "toggles"},
         Payments(sc)!Spend(what)
  PROVE  /\ budget' \in PayBudget(sc) /\ budget'[what] = budget[what] - 1
         /\ \A x \in {"runs", "full", "faults", "toggles"} \ {what} : budget'[x] = budget[x]
BY DEF Payments!TypeOK, Payments!Spend, PayBudget

LEMMA PaymentsInit ==
  ASSUME NEW sc \in PayScenes, Payments(sc)!ExportBoundAssumption, Payments(sc)!Init
  PROVE  Payments(sc)!TypeOK /\ MissedInv(sc)
<1>1. Payments(sc)!TypeOK
  <2>1. budget \in [{"runs", "full", "faults", "toggles"} -> Nat]
    BY DEF Payments!Init, Payments!ExportBoundAssumption
  <2> QED BY <2>1 DEF Payments!Init, Payments!TypeOK, Payments!Never, Payments!Run
<1>2. \A w \in Workers : run[w].op = "idle"
  BY DEF Payments!Init, Payments!Idle
<1>3. MissedInv(sc)
  BY <1>2 DEF Payments!Init, MissedInv, ReadSinceStamp, RunSees, SentBefore, PaymentsDated
<1> QED BY <1>1, <1>3

LEMMA PaymentsTypeStep ==
  ASSUME NEW sc \in PayScenes, Payments(sc)!TypeOK, [Payments(sc)!Next]_(Payments(sc)!vars)
  PROVE  Payments(sc)!TypeOK'
<1>0. /\ pay \in [Pays -> [at : 0 .. pClock, seen : BOOLEAN]]
      /\ active \subseteq Payers
      /\ made \in Nat /\ stamp \in [id : 0 .. made, at : 0 .. pClock]
      /\ run \in [Workers -> Payments(sc)!Run]
      /\ pSent \in [Pays -> Nat]
      /\ late \subseteq Pays /\ lost \in Nat
      /\ pClock \in Nat
      /\ budget \in PayBudget(sc)
  BY DEF Payments!TypeOK, PayBudget
<1>a. Payments(sc)!Run' = {Payments(sc)!Idle} \cup [op : {"read"}, since : Nat] \cup
         [op : {"upload"}, id : 1 .. made', rows : SUBSET Pays, missed : SUBSET Pays] \cup
         [op : {"stamp"}, id : 1 .. made', missed : SUBSET Pays]
  BY DEF Payments!Run
<1>b. ASSUME made' \in Nat, made' >= made PROVE Payments(sc)!Run \subseteq Payments(sc)!Run'
  BY <1>0, <1>a, <1>b DEF Payments!Run
<1>c. Payments(sc)!Idle \in Payments(sc)!Run'
  BY <1>a
<1>1. ASSUME NEW p \in Pays, Payments(sc)!Add(p) \/ Payments(sc)!Commit(p)
      PROVE  Payments(sc)!TypeOK'
  <2>1. run' \in [Workers -> Payments(sc)!Run]
    <3>1. Payments(sc)!Notice(p)
      BY <1>1 DEF Payments!Add, Payments!Commit
    <3>2. run' = [w \in Workers |-> run'[w]]
      BY <3>1 DEF Payments!Notice
    <3>3. \A w \in Workers : run'[w] \in Payments(sc)!Run
      BY <3>1, PaymentNoticed
    <3> HIDE DEF Payments!Notice
    <3> QED BY <3>2, <3>3
  <2>2. pClock' \in Nat /\ pClock' >= pClock /\ made' = made /\ stamp' = stamp
    BY <1>0, <1>1 DEF Payments!Add, Payments!Commit, Payments!stamps
  <2>3. pay' \in [Pays -> [at : 0 .. pClock', seen : BOOLEAN]]
    <3>1. ASSUME NEW q \in Pays PROVE pay[q] \in [at : 0 .. pClock', seen : BOOLEAN]
      BY <1>0, <2>2
    <3>2. CASE Payments(sc)!Add(p)
      <4>1. pay' = [pay EXCEPT ![p] = [pay[p] EXCEPT !.at = pClock + 1]] /\ pClock' = pClock + 1
        BY <3>2 DEF Payments!Add
      <4>2. [pay[p] EXCEPT !.at = pClock + 1] \in [at : 0 .. pClock', seen : BOOLEAN]
        BY <1>0, <3>1, <4>1
      <4> QED BY <1>0, <3>1, <4>1, <4>2
    <3>3. CASE Payments(sc)!Commit(p)
      <4>1. pay' = [pay EXCEPT ![p] = [pay[p] EXCEPT !.seen = TRUE]]
        BY <3>3 DEF Payments!Commit
      <4>2. [pay[p] EXCEPT !.seen = TRUE] \in [at : 0 .. pClock', seen : BOOLEAN]
        BY <3>1
      <4> QED BY <1>0, <3>1, <4>1, <4>2
    <3> QED BY <1>1, <3>2, <3>3
  <2>4. stamp' \in [id : 0 .. made', at : 0 .. pClock']
    BY <1>0, <2>2
  <2>5. UNCHANGED <<active, made, pSent, late, lost, budget>>
    BY <1>1 DEF Payments!Add, Payments!Commit, Payments!stamps, Payments!ghosts
  <2> QED BY <1>0, <1>b, <2>1, <2>2, <2>3, <2>4, <2>5 DEF Payments!TypeOK, PayBudget
<1>2. ASSUME NEW c \in Payers, Payments(sc)!Toggle(c)
      PROVE  Payments(sc)!TypeOK'
  <2>1. budget' \in PayBudget(sc)
    BY <1>2, BudgetSpent DEF Payments!Toggle
  <2> QED BY <1>0, <1>b, <1>2, <2>1 DEF Payments!Toggle, Payments!TypeOK, PayBudget, Payments!stamps,
             Payments!ghosts
<1>3. ASSUME NEW w \in Workers, Payments(sc)!Nightly(w) \/ Payments(sc)!ExportAll(w)
      PROVE  Payments(sc)!TypeOK'
  <2>1. PICK since \in Nat : Payments(sc)!Begin(w, since)
    BY <1>0, <1>3 DEF Payments!Nightly, Payments!ExportAll, Payments!Never
  <2>2. budget' \in PayBudget(sc)
    BY <1>3, BudgetSpent DEF Payments!Nightly, Payments!ExportAll
  <2>3. [op |-> "read", since |-> since] \in Payments(sc)!Run'
    BY <1>a
  <2> QED BY <1>0, <1>b, <2>1, <2>2, <2>3 DEF Payments!Begin, Payments!Goes, Payments!TypeOK, PayBudget,
             Payments!stamps, Payments!ghosts
<1>4. ASSUME NEW w \in Workers, Payments(sc)!ReadRows(w)
      PROVE  Payments(sc)!TypeOK'
  <2> DEFINE n == [op |-> "upload", id |-> made + 1, rows |-> Payments(sc)!Rows(run[w].since), missed |->
       {p \in Pays : pay[p].at # Payments(sc)!Never /\ (~pay[p].seen \/ Payer[p] \notin active)}]
  <2>1. made' = made + 1 /\ run' = [run EXCEPT ![w] = n] /\ UNCHANGED <<pay, active, stamp, pSent, Payments(sc)!ghosts, pClock, budget>>
    BY <1>4 DEF Payments!ReadRows, Payments!Goes
  <2>2. n \in Payments(sc)!Run'
    BY <1>0, <1>a, <2>1 DEF Payments!Rows
  <2>3. Payments(sc)!Run \subseteq Payments(sc)!Run'
    BY <1>0, <1>b, <2>1
  <2> HIDE DEF n
  <2>4. run' \in [Workers -> Payments(sc)!Run']
    BY <1>0, <2>1, <2>2, <2>3
  <2> QED BY <1>0, <2>1, <2>4 DEF Payments!TypeOK, PayBudget, Payments!ghosts
<1>5. ASSUME NEW w \in Workers, Payments(sc)!Upload(w)
      PROVE  Payments(sc)!TypeOK'
  <2> DEFINE n == [op |-> "stamp", id |-> run[w].id, missed |-> run[w].missed]
  <2>1. run' = [run EXCEPT ![w] = n] /\ UNCHANGED <<pay, active, made, stamp, Payments(sc)!ghosts, pClock, budget>>
    BY <1>5 DEF Payments!Upload, Payments!Goes, Payments!stamps
  <2>2. n \in Payments(sc)!Run'
    <3>1. run[w].id \in 1 .. made /\ run[w].missed \in SUBSET Pays
      BY <1>0, <1>5, RunShape DEF Payments!Upload
    <3> QED BY <1>a, <2>1, <3>1
  <2>3. pSent' \in [Pays -> Nat]
    BY <1>0, <1>5 DEF Payments!Upload
  <2> HIDE DEF n
  <2>4. run' \in [Workers -> Payments(sc)!Run']
    BY <1>0, <1>b, <2>1, <2>2
  <2> QED BY <1>0, <2>1, <2>3, <2>4 DEF Payments!TypeOK, PayBudget, Payments!ghosts
<1>6. ASSUME NEW w \in Workers, Payments(sc)!UploadFails(w)
      PROVE  Payments(sc)!TypeOK'
  <2>1. budget' \in PayBudget(sc)
    BY <1>6, BudgetSpent DEF Payments!UploadFails
  <2> QED BY <1>0, <1>b, <1>c, <1>6, <2>1 DEF Payments!UploadFails, Payments!Goes, Payments!TypeOK,
             PayBudget, Payments!stamps, Payments!ghosts
<1>7. ASSUME NEW w \in Workers, Payments(sc)!Stamp(w)
      PROVE  Payments(sc)!TypeOK'
  <2>1. run[w].id \in 1 .. made /\ run[w].missed \in SUBSET Pays
    BY <1>0, <1>7, RunShape DEF Payments!Stamp
  <2>2. pClock' = pClock + 1 /\ run' = [run EXCEPT ![w] = Payments(sc)!Idle] /\ UNCHANGED <<pay, active, made, pSent, lost, budget>>
    BY <1>7 DEF Payments!Stamp, Payments!Goes
  <2>3. stamp' \in [id : 0 .. made', at : 0 .. pClock']
    BY <1>0, <1>7, <2>1, <2>2 DEF Payments!Stamp
  <2>4. pay' \in [Pays -> [at : 0 .. pClock', seen : BOOLEAN]]
    BY <1>0, <2>2
  <2>5. late' \subseteq Pays
    BY <1>0, <1>7, <2>1 DEF Payments!Stamp
  <2> QED BY <1>0, <1>b, <1>c, <2>2, <2>3, <2>4, <2>5 DEF Payments!TypeOK, PayBudget
<1>8. ASSUME NEW w \in Workers, Payments(sc)!Die(w)
      PROVE  Payments(sc)!TypeOK'
  <2>1. budget' \in PayBudget(sc)
    BY <1>8, BudgetSpent DEF Payments!Die
  <2> QED BY <1>0, <1>b, <1>c, <1>8, <2>1 DEF Payments!Die, Payments!Goes, Payments!TypeOK, PayBudget,
             Payments!stamps
<1>9. CASE UNCHANGED Payments(sc)!vars
  BY <1>9 DEF Payments!vars, Payments!stamps, Payments!ghosts, Payments!TypeOK, Payments!Run
<1> QED BY <1>1, <1>2, <1>3, <1>4, <1>5, <1>6, <1>7, <1>8, <1>9 DEF Payments!Next, Payments!Step

(* The step of one worker. *)
LEMMA WorkerGoes ==
  ASSUME NEW sc \in PayScenes, Payments(sc)!TypeOK, NEW w \in Workers, NEW n, Payments(sc)!Goes(w, n)
  PROVE  run'[w] = n /\ \A v \in Workers \ {w} : run'[v] = run[v]
BY DEF Payments!TypeOK, Payments!Goes

(* A step that leaves the payments, the files and what successful runs have
   missed as they are, while a run ends or begins where it may. *)
RunEndsOrBegins(sc, r, date) == r.op = "idle" \/ (r.op = "read" /\ r.since <= date)
LEMMA QuietRuns ==
  ASSUME NEW sc \in PayScenes, MissedInv(sc), UNCHANGED <<pay, stamp, pSent, late>>,
         \A w \in Workers : run'[w] = run[w] \/ RunEndsOrBegins(sc, run'[w], stamp.at)
  PROVE  MissedInv(sc)'
<1>1. ReadSinceStamp(sc)'
  BY DEF MissedInv, ReadSinceStamp, RunEndsOrBegins
<1>2. RunSees(sc)'
  BY DEF MissedInv, RunSees, RunEndsOrBegins
<1>3. SentBefore(sc)' /\ PaymentsDated(sc)'
  BY DEF MissedInv, SentBefore, PaymentsDated
<1> QED BY <1>1, <1>2, <1>3 DEF MissedInv

LEMMA MissedStep ==
  ASSUME NEW sc \in PayScenes, Payments(sc)!PayerAssumption, Payments(sc)!TypeOK, Payments(sc)!TypeOK',
         MissedInv(sc), [Payments(sc)!Next]_(Payments(sc)!vars)
  PROVE  MissedInv(sc)'
<1>0. /\ pay \in [Pays -> [at : 0 .. pClock, seen : BOOLEAN]]
      /\ made \in Nat /\ stamp.id \in 0 .. made /\ stamp.at \in 0 .. pClock
      /\ pSent \in [Pays -> Nat] /\ pClock \in Nat
  BY DEF Payments!TypeOK
<1>a. \A p \in Pays : pay[p].at \in 0 .. pClock /\ pay[p].seen \in BOOLEAN
  BY <1>0
<1>b. Payments(sc)!Never = 0 /\ Payments(sc)!Idle.op = "idle"
  BY DEF Payments!Never, Payments!Idle
<1>c. \A w \in Workers : run[w].op = "read" => run[w].since \in Nat
  BY RunShape DEF Payments!TypeOK
<1>1. ASSUME NEW p \in Pays, Payments(sc)!Add(p) \/ Payments(sc)!Commit(p)
      PROVE  MissedInv(sc)'
  <2>1. Payments(sc)!Notice(p) /\ UNCHANGED <<stamp, pSent, late>>
    BY <1>1 DEF Payments!Add, Payments!Commit, Payments!stamps, Payments!ghosts
  <2>2. /\ \A q \in Pays \ {p} : pay'[q] = pay[q]
        /\ pay'[p].at # Payments(sc)!Never /\ (pay'[p].at = pay[p].at \/ pay'[p].at = pClock + 1)
    <3>1. CASE Payments(sc)!Add(p)
      <4>1. pay' = [pay EXCEPT ![p] = [pay[p] EXCEPT !.at = pClock + 1]]
        BY <3>1 DEF Payments!Add
      <4>2. [pay[p] EXCEPT !.at = pClock + 1].at = pClock + 1
        BY <1>0
      <4> QED BY <1>0, <1>b, <4>1, <4>2
    <3>2. CASE Payments(sc)!Commit(p)
      <4>1. pay' = [pay EXCEPT ![p] = [pay[p] EXCEPT !.seen = TRUE]] /\ pay[p].at # Payments(sc)!Never
        BY <3>2 DEF Payments!Commit
      <4>2. [pay[p] EXCEPT !.seen = TRUE].at = pay[p].at
        BY <1>0
      <4> QED BY <1>0, <1>b, <4>1, <4>2
    <3> QED BY <1>1, <3>1, <3>2
  <2>3. \A w \in Workers :
          /\ run'[w].op = run[w].op
          /\ run[w].op = "read" => run'[w] = run[w]
          /\ run[w].op \in {"upload", "stamp"} => run'[w].missed = run[w].missed \cup {p}
          /\ run[w].op = "upload" => run'[w].rows = run[w].rows
    BY <2>1, PaymentNoticed
  <2>4. ReadSinceStamp(sc)'
    BY <2>1, <2>3 DEF MissedInv, ReadSinceStamp
  <2>5. RunSees(sc)'
    BY <2>1, <2>2, <2>3 DEF MissedInv, RunSees
  <2>6. SentBefore(sc)'
    BY <1>0, <1>a, <2>1, <2>2 DEF MissedInv, SentBefore
  <2>7. PaymentsDated(sc)'
    BY <2>2 DEF MissedInv, PaymentsDated
  <2> QED BY <2>4, <2>5, <2>6, <2>7 DEF MissedInv
<1>2. ASSUME NEW c \in Payers, Payments(sc)!Toggle(c)
      PROVE  MissedInv(sc)'
  BY <1>2, QuietRuns DEF Payments!Toggle, Payments!stamps, Payments!ghosts
<1>3. ASSUME NEW w \in Workers, Payments(sc)!Nightly(w) \/ Payments(sc)!ExportAll(w)
      PROVE  MissedInv(sc)'
  <2>1. PICK since \in Nat : Payments(sc)!Begin(w, since) /\ since <= stamp.at
    BY <1>0, <1>3 DEF Payments!Nightly, Payments!ExportAll, Payments!Never
  <2>2. Payments(sc)!Goes(w, [op |-> "read", since |-> since]) /\ UNCHANGED <<pay, stamp, pSent, late>>
    BY <2>1 DEF Payments!Begin, Payments!stamps, Payments!ghosts
  <2>3. /\ run'[w] = [op |-> "read", since |-> since]
        /\ \A v \in Workers \ {w} : run'[v] = run[v]
    BY <2>2, WorkerGoes
  <2>4. RunEndsOrBegins(sc, run'[w], stamp.at)
    BY <2>1, <2>3 DEF RunEndsOrBegins
  <2> QED BY QuietRuns, <2>2, <2>3, <2>4
<1>4. ASSUME NEW w \in Workers, Payments(sc)!ReadRows(w)
      PROVE  MissedInv(sc)'
  <2> DEFINE m == {p \in Pays : pay[p].at # Payments(sc)!Never /\ (~pay[p].seen \/ Payer[p] \notin active)}
             n == [op |-> "upload", id |-> made + 1, rows |-> Payments(sc)!Rows(run[w].since), missed |-> m]
  <2>1. Payments(sc)!Goes(w, n) /\ run[w].op = "read" /\ UNCHANGED <<pay, stamp, pSent, late>>
    BY <1>4 DEF Payments!ReadRows, Payments!ghosts
  <2>2. n.op = "upload" /\ n.rows = Payments(sc)!Rows(run[w].since) /\ n.missed = m
    OBVIOUS
  <2>3. ASSUME NEW p \in Pays, p \notin late \cup m, pay[p].at # Payments(sc)!Never
        PROVE  p \in Payments(sc)!Rows(run[w].since) \/ pSent[p] > 0
    <3>1. pay[p].seen /\ Payer[p] \in active
      BY <2>3
    <3>2. run[w].since \in Nat /\ run[w].since <= stamp.at
      BY <1>c, <2>1 DEF MissedInv, ReadSinceStamp
    <3>3. CASE pay[p].at >= run[w].since
      BY <3>1, <3>3 DEF Payments!Rows
    <3>4. CASE ~(pay[p].at >= run[w].since)
      BY <1>0, <1>a, <2>3, <3>2, <3>4 DEF MissedInv, SentBefore
    <3> QED BY <3>3, <3>4
  <2> HIDE DEF n, m
  <2>4. run'[w] = n /\ \A v \in Workers \ {w} : run'[v] = run[v]
    BY <2>1, WorkerGoes
  <2>5. ReadSinceStamp(sc)'
    BY <2>1, <2>2, <2>4 DEF MissedInv, ReadSinceStamp
  <2>6. RunSees(sc)'
    BY <2>1, <2>2, <2>3, <2>4 DEF MissedInv, RunSees
  <2>7. SentBefore(sc)' /\ PaymentsDated(sc)'
    BY <2>1 DEF MissedInv, SentBefore, PaymentsDated
  <2> QED BY <2>5, <2>6, <2>7 DEF MissedInv
<1>5. ASSUME NEW w \in Workers, Payments(sc)!Upload(w)
      PROVE  MissedInv(sc)'
  <2> DEFINE n == [op |-> "stamp", id |-> run[w].id, missed |-> run[w].missed]
  <2>1. Payments(sc)!Goes(w, n) /\ run[w].op = "upload" /\ UNCHANGED <<pay, stamp, late>>
    BY <1>5 DEF Payments!Upload, Payments!stamps, Payments!ghosts
  <2>2. n.op = "stamp" /\ n.missed = run[w].missed
    OBVIOUS
  <2> HIDE DEF n
  <2>3. run'[w] = n /\ \A v \in Workers \ {w} : run'[v] = run[v]
    BY <2>1, WorkerGoes
  <2>4. \A p \in Pays : (pSent[p] > 0 => pSent'[p] > 0) /\ (p \in run[w].rows => pSent'[p] > 0)
    BY <1>0, <1>5 DEF Payments!Upload
  <2>5. ReadSinceStamp(sc)'
    BY <2>1, <2>2, <2>3 DEF MissedInv, ReadSinceStamp
  <2>6. RunSees(sc)'
    BY <2>1, <2>2, <2>3, <2>4 DEF MissedInv, RunSees
  <2>7. SentBefore(sc)' /\ PaymentsDated(sc)'
    BY <2>1, <2>4 DEF MissedInv, SentBefore, PaymentsDated
  <2> QED BY <2>5, <2>6, <2>7 DEF MissedInv
<1>6. ASSUME NEW w \in Workers, Payments(sc)!UploadFails(w)
      PROVE  MissedInv(sc)'
  BY <1>6, <1>b, QuietRuns, WorkerGoes DEF Payments!UploadFails, Payments!stamps, Payments!ghosts,
     RunEndsOrBegins
<1>7. ASSUME NEW w \in Workers, Payments(sc)!Stamp(w)
      PROVE  MissedInv(sc)'
  <2>1. /\ Payments(sc)!Goes(w, Payments(sc)!Idle) /\ run[w].op = "stamp" /\ late' = late \cup run[w].missed
        /\ UNCHANGED <<pay, pSent>> /\ (stamp'.at = stamp.at \/ stamp'.at = pClock + 1)
    BY <1>7 DEF Payments!Stamp
  <2>2. run'[w] = Payments(sc)!Idle /\ \A v \in Workers \ {w} : run'[v] = run[v]
    BY <2>1, WorkerGoes
  <2>3. ReadSinceStamp(sc)'
    BY <1>0, <1>b, <1>c, <2>1, <2>2 DEF MissedInv, ReadSinceStamp
  <2>4. RunSees(sc)'
    BY <1>b, <2>1, <2>2 DEF MissedInv, RunSees
  <2>5. SentBefore(sc)'
    BY <2>1 DEF MissedInv, RunSees, SentBefore
  <2>6. PaymentsDated(sc)'
    BY <2>1 DEF MissedInv, PaymentsDated
  <2> QED BY <2>3, <2>4, <2>5, <2>6 DEF MissedInv
<1>8. ASSUME NEW w \in Workers, Payments(sc)!Die(w)
      PROVE  MissedInv(sc)'
  BY <1>8, <1>b, QuietRuns, WorkerGoes DEF Payments!Die, Payments!stamps, RunEndsOrBegins
<1>9. CASE UNCHANGED Payments(sc)!vars
  BY <1>9, QuietRuns DEF Payments!vars, Payments!stamps, Payments!ghosts
<1> QED BY <1>1, <1>2, <1>3, <1>4, <1>5, <1>6, <1>7, <1>8, <1>9 DEF Payments!Next, Payments!Step

LEMMA MissedSays ==
  ASSUME NEW sc \in PayScenes, MissedInv(sc)
  PROVE  Payments(sc)!OnlyLateAreMissed
BY DEF MissedInv, SentBefore, PaymentsDated, Payments!OnlyLateAreMissed

(* With one run at a time: how often a payment that was made at "date" is in a file,
   when the last successful run stamped st, f runs of the command have begun and l
   workers died between upload and stamp.  A run that may send it again is counted
   before it does. *)
RunCounts(sc, date, st, s, f, l, stamping, again) ==
  /\ date = Payments(sc)!Never => s = 0
  /\ date # Payments(sc)!Never /\ date >= st => s <= l + 1 /\ (~stamping => s <= l)
  /\ date # Payments(sc)!Never /\ date < st => s <= f + l /\ (again => s + 1 <= f + l)
RunReadsAll(sc, r) == r.op = "read" /\ r.since = Payments(sc)!Never
RunSends(sc, r, p) == r.op = "upload" /\ p \in r.rows
(* What a run knows, when the last stamp was st. *)
RunKnows(sc, r, st) ==
  /\ r.op = "read" => r.since \in {Payments(sc)!Never, st.at}
  /\ r.op \in {"upload", "stamp"} => r.id > st.id
Stamping(sc, R) == \E w \in Workers : R[w].op = "stamp"
Again(sc, R, p) == \E w \in Workers : RunReadsAll(sc, R[w]) \/ RunSends(sc, R[w], p)
OneRun(sc, R) == \A v, w \in Workers : R[v] # Payments(sc)!Idle /\ R[w] # Payments(sc)!Idle => v = w

OnceInv(sc) ==
  /\ OneRun(sc, run) /\ (\A w \in Workers : RunKnows(sc, run[w], stamp))
  /\ Payments(sc)!FullRuns >= 0
  /\ (stamp.at # Payments(sc)!Never \/ (\E w \in Workers : run[w] # Payments(sc)!Idle)) => Payments(sc)!FullRuns >= 1
  /\ \A w \in Workers, p \in Pays : RunSends(sc, run[w], p) => pay[p].at # Payments(sc)!Never
  /\ \A p \in Pays :
       RunCounts(sc, pay[p].at, stamp.at, pSent[p], Payments(sc)!FullRuns, lost, Stamping(sc, run), Again(sc, run, p))

(* Nothing runs when a run may begin. *)
LEMMA RunsBeginAlone ==
  ASSUME NEW sc \in PayScenes, Payments(sc)!ExportBoundAssumption, AtOnce(sc) = 1,
         Payments(sc)!Running < AtOnce(sc), NEW v \in Workers
  PROVE  run[v] = Payments(sc)!Idle
<1> SUFFICES ASSUME run[v] # Payments(sc)!Idle PROVE FALSE
  OBVIOUS
<1> DEFINE B == {w \in Workers : run[w] # Payments(sc)!Idle}
<1>1. IsFiniteSet(Workers) /\ B \subseteq Workers
  BY PaymentsOnFiniteSets DEF Payments!ExportBoundAssumption
<1>2. IsFiniteSet(B) /\ Cardinality(B) \in Nat
  BY <1>1, FS_Subset, FS_CardinalityType
<1>3. v \in B
  OBVIOUS
<1>4. Cardinality(B) # 0
  BY <1>2, <1>3, FS_EmptySet
<1>5. Cardinality(B) < 1
  BY PaymentsOnFiniteSets DEF Payments!Running
<1> QED BY <1>2, <1>4, <1>5

(* The run of w is the only one. *)
LEMMA OnlyRun ==
  ASSUME NEW sc \in PayScenes, NEW R, NEW w \in Workers, \A v \in Workers \ {w} : R[v] = Payments(sc)!Idle
  PROVE  /\ OneRun(sc, R)
         /\ Stamping(sc, R) <=> R[w].op = "stamp"
         /\ \A p : Again(sc, R, p) <=> RunReadsAll(sc, R[w]) \/ RunSends(sc, R[w], p)
<1>1. Payments(sc)!Idle.op = "idle"
  BY DEF Payments!Idle
<1> QED BY <1>1 DEF OneRun, Stamping, Again, RunReadsAll, RunSends

(* A step of the only run, by which the payments stay as they are. *)
LEMMA OnceGoes ==
  ASSUME NEW sc \in PayScenes, Payments(sc)!TypeOK, OnceInv(sc), NEW w \in Workers,
         \A v \in Workers \ {w} : run[v] = Payments(sc)!Idle,
         NEW n, Payments(sc)!Goes(w, n), pay' = pay, RunKnows(sc, n, stamp'),
         Payments(sc)!FullRuns' >= 0, stamp'.at # Payments(sc)!Never \/ n # Payments(sc)!Idle => Payments(sc)!FullRuns' >= 1,
         \A p \in Pays : RunSends(sc, n, p) => pay[p].at # Payments(sc)!Never,
         \A p \in Pays :
           RunCounts(sc, pay[p].at, stamp.at, pSent[p], Payments(sc)!FullRuns, lost,
                  run[w].op = "stamp", RunReadsAll(sc, run[w]) \/ RunSends(sc, run[w], p)) =>
           RunCounts(sc, pay[p].at, stamp'.at, pSent'[p], Payments(sc)!FullRuns', lost',
                  n.op = "stamp", RunReadsAll(sc, n) \/ RunSends(sc, n, p))
  PROVE  OnceInv(sc)'
<1>1. run'[w] = n /\ \A v \in Workers \ {w} : run'[v] = Payments(sc)!Idle
  BY WorkerGoes
<1>2. /\ OneRun(sc, run')
      /\ Stamping(sc, run') <=> n.op = "stamp"
      /\ \A p : Again(sc, run', p) <=> RunReadsAll(sc, n) \/ RunSends(sc, n, p)
  BY <1>1, OnlyRun
<1>3. /\ Stamping(sc, run) <=> run[w].op = "stamp"
      /\ \A p : Again(sc, run, p) <=> RunReadsAll(sc, run[w]) \/ RunSends(sc, run[w], p)
  BY OnlyRun
<1>4. ~RunSends(sc, Payments(sc)!Idle, 0) /\ RunKnows(sc, Payments(sc)!Idle, stamp') /\ \A p : ~RunSends(sc, Payments(sc)!Idle, p)
  BY DEF RunSends, RunKnows, Payments!Idle
<1>5. \A v \in Workers : RunKnows(sc, run'[v], stamp')
  BY <1>1, <1>4
<1>6. (stamp'.at # Payments(sc)!Never \/ (\E v \in Workers : run'[v] # Payments(sc)!Idle)) => Payments(sc)!FullRuns' >= 1
  BY <1>1
<1>7. \A v \in Workers, p \in Pays : RunSends(sc, run'[v], p) => pay'[p].at # Payments(sc)!Never
  BY <1>1, <1>4
<1>8. ASSUME NEW p \in Pays
      PROVE  RunCounts(sc, pay'[p].at, stamp'.at, pSent'[p], Payments(sc)!FullRuns', lost', Stamping(sc, run'), Again(sc, run', p))
  <2>1. RunCounts(sc, pay[p].at, stamp.at, pSent[p], Payments(sc)!FullRuns, lost, run[w].op = "stamp",
               RunReadsAll(sc, run[w]) \/ RunSends(sc, run[w], p))
    BY <1>3 DEF OnceInv, RunCounts
  <2>2. RunCounts(sc, pay[p].at, stamp'.at, pSent'[p], Payments(sc)!FullRuns', lost', n.op = "stamp",
               RunReadsAll(sc, n) \/ RunSends(sc, n, p))
    BY <2>1
  <2> QED BY <1>2, <2>2 DEF RunCounts
<1> QED BY <1>2, <1>5, <1>6, <1>7, <1>8 DEF OnceInv

LEMMA OnceInit ==
  ASSUME NEW sc \in PayScenes, Payments(sc)!ExportBoundAssumption, Payments(sc)!Init
  PROVE  OnceInv(sc)
<1>1. \A w \in Workers : run[w] = Payments(sc)!Idle
  BY DEF Payments!Init
<1>2. \A w \in Workers : RunKnows(sc, run[w], stamp) /\ (\A p : ~RunSends(sc, run[w], p)) /\ ~RunReadsAll(sc, run[w])
  BY <1>1 DEF RunKnows, RunSends, RunReadsAll, Payments!Idle
<1>3. Payments(sc)!FullRuns = 0 /\ stamp.at = Payments(sc)!Never
  BY DEF Payments!Init, Payments!FullRuns, Payments!ExportBoundAssumption
<1>4. \A p \in Pays : pay[p].at = Payments(sc)!Never /\ pSent[p] = 0
  BY DEF Payments!Init
<1> QED BY <1>1, <1>2, <1>3, <1>4 DEF OnceInv, OneRun, RunCounts

LEMMA OnceStep ==
  ASSUME NEW sc \in PayScenes, Payments(sc)!ExportBoundAssumption, AtOnce(sc) = 1, Payments(sc)!TypeOK,
         Payments(sc)!TypeOK', MissedInv(sc), OnceInv(sc), [Payments(sc)!Next]_(Payments(sc)!vars)
  PROVE  OnceInv(sc)'
<1>0. /\ pay \in [Pays -> [at : 0 .. pClock, seen : BOOLEAN]]
      /\ made \in Nat /\ stamp.id \in 0 .. made /\ stamp.at \in 0 .. pClock
      /\ pSent \in [Pays -> Nat] /\ pClock \in Nat /\ lost \in Nat
      /\ Payments(sc)!Never = 0 /\ Payments(sc)!Idle.op = "idle" /\ run \in [Workers -> Payments(sc)!Run]
  BY DEF Payments!TypeOK, Payments!Never, Payments!Idle
<1>a. \A p \in Pays : pay[p].at \in 0 .. pClock /\ pSent[p] \in Nat
  BY <1>0
<1>b. Payments(sc)!FullRuns \in Nat /\ (stamp.at # Payments(sc)!Never => Payments(sc)!FullRuns >= 1)
  BY DEF OnceInv, Payments!FullRuns, Payments!TypeOK, Payments!ExportBoundAssumption
<1>c. ASSUME NEW w \in Workers, run[w] # Payments(sc)!Idle
      PROVE  (\A v \in Workers \ {w} : run[v] = Payments(sc)!Idle) /\ Payments(sc)!FullRuns >= 1
  BY <1>c DEF OnceInv, OneRun
<1>d. ASSUME NEW x \in {"runs", "faults", "toggles"}, Payments(sc)!Spend(x)
      PROVE  Payments(sc)!FullRuns' = Payments(sc)!FullRuns
  BY <1>d, BudgetSpent DEF Payments!FullRuns
<1>e. ASSUME budget' = budget
      PROVE  Payments(sc)!FullRuns' = Payments(sc)!FullRuns
  BY <1>e DEF Payments!FullRuns
<1>f. /\ \A st : RunKnows(sc, Payments(sc)!Idle, st)
      /\ \A p : ~RunSends(sc, Payments(sc)!Idle, p)
      /\ ~RunReadsAll(sc, Payments(sc)!Idle)
  BY <1>0 DEF RunKnows, RunSends, RunReadsAll
<1>1. ASSUME NEW p \in Pays, Payments(sc)!Add(p) \/ Payments(sc)!Commit(p)
      PROVE  OnceInv(sc)'
  <2>1. Payments(sc)!Notice(p) /\ UNCHANGED <<stamp, pSent, lost, budget>> /\ Payments(sc)!FullRuns' = Payments(sc)!FullRuns
    BY <1>1, <1>e DEF Payments!Add, Payments!Commit, Payments!stamps, Payments!ghosts
  <2>2. /\ \A q \in Pays \ {p} : pay'[q] = pay[q]
        /\ \/ pay'[p].at = pay[p].at /\ pay'[p].at # Payments(sc)!Never
           \/ pay[p].at = Payments(sc)!Never /\ pay'[p].at = pClock + 1
    <3>1. CASE Payments(sc)!Add(p)
      <4>1. pay' = [pay EXCEPT ![p] = [pay[p] EXCEPT !.at = pClock + 1]] /\ pay[p].at = Payments(sc)!Never
        BY <3>1 DEF Payments!Add
      <4>2. [pay[p] EXCEPT !.at = pClock + 1].at = pClock + 1
        BY <1>0
      <4> QED BY <1>0, <4>1, <4>2
    <3>2. CASE Payments(sc)!Commit(p)
      <4>1. pay' = [pay EXCEPT ![p] = [pay[p] EXCEPT !.seen = TRUE]] /\ pay[p].at # Payments(sc)!Never
        BY <3>2 DEF Payments!Commit
      <4>2. [pay[p] EXCEPT !.seen = TRUE].at = pay[p].at
        BY <1>0
      <4> QED BY <1>0, <4>1, <4>2
    <3> QED BY <1>1, <3>1, <3>2
  <2>3. \A w \in Workers :
          /\ run'[w].op = run[w].op /\ (run[w] = Payments(sc)!Idle <=> run'[w] = Payments(sc)!Idle)
          /\ run[w].op = "read" => run'[w] = run[w]
          /\ run[w].op \in {"upload", "stamp"} => run'[w].id = run[w].id
          /\ run[w].op = "upload" => run'[w].rows = run[w].rows
    BY <2>1, PaymentNoticed
  <2>4. /\ OneRun(sc, run') /\ (Stamping(sc, run') <=> Stamping(sc, run))
        /\ \A w \in Workers : RunKnows(sc, run[w], stamp) => RunKnows(sc, run'[w], stamp)
        /\ \A w \in Workers : \A q : RunSends(sc, run'[w], q) <=> RunSends(sc, run[w], q)
        /\ \A w \in Workers : RunReadsAll(sc, run'[w]) <=> RunReadsAll(sc, run[w])
    <3>1. OneRun(sc, run') /\ (Stamping(sc, run') <=> Stamping(sc, run))
      BY <2>3 DEF OnceInv, OneRun, Stamping
    <3>2. \A w \in Workers : RunKnows(sc, run[w], stamp) => RunKnows(sc, run'[w], stamp)
      BY <2>3 DEF RunKnows
    <3>3. \A w \in Workers : \A q : RunSends(sc, run'[w], q) <=> RunSends(sc, run[w], q)
      BY <2>3 DEF RunSends
    <3>4. \A w \in Workers : RunReadsAll(sc, run'[w]) <=> RunReadsAll(sc, run[w])
      BY <2>3 DEF RunReadsAll
    <3> QED BY <3>1, <3>2, <3>3, <3>4
  <2>5. \A q : Again(sc, run', q) <=> Again(sc, run, q)
    BY <2>4 DEF Again
  <2>6. ASSUME NEW q \in Pays
        PROVE  RunCounts(sc, pay'[q].at, stamp'.at, pSent'[q], Payments(sc)!FullRuns', lost', Stamping(sc, run'), Again(sc, run', q))
    <3>1. RunCounts(sc, pay[q].at, stamp.at, pSent[q], Payments(sc)!FullRuns, lost, Stamping(sc, run), Again(sc, run, q))
      BY DEF OnceInv
    <3>2. CASE pay'[q].at = pay[q].at
      BY <2>1, <2>4, <2>5, <3>1, <3>2 DEF RunCounts
    <3>3. CASE pay'[q].at # pay[q].at
      <4>1. pay[q].at = Payments(sc)!Never /\ pay'[q].at = pClock + 1
        BY <2>2, <3>3
      <4>2. pSent'[q] = 0 /\ pClock + 1 > stamp.at /\ lost' \in Nat /\ stamp' = stamp
        BY <1>0, <2>1, <3>1, <4>1 DEF RunCounts
      <4>3. pay'[q].at # Payments(sc)!Never /\ pay'[q].at >= stamp.at /\ ~(pay'[q].at < stamp.at)
        BY <1>0, <4>1, <4>2
      <4>4. pSent'[q] <= lost' /\ pSent'[q] <= lost' + 1
        <5>1. \A i \in Nat : 0 <= i /\ 0 <= i + 1
          OBVIOUS
        <5> QED BY <4>2, <5>1
      <4> QED BY <4>2, <4>3, <4>4 DEF RunCounts
    <3> QED BY <3>2, <3>3
  <2>7. \A w \in Workers, q \in Pays : RunSends(sc, run'[w], q) => pay'[q].at # Payments(sc)!Never
    BY <1>0, <2>2, <2>4 DEF OnceInv
  <2>8. (stamp'.at # Payments(sc)!Never \/ (\E w \in Workers : run'[w] # Payments(sc)!Idle)) => Payments(sc)!FullRuns' >= 1
    BY <2>1, <2>3 DEF OnceInv
  <2> QED BY <2>1, <2>4, <2>6, <2>7, <2>8, <1>b DEF OnceInv
<1>2. ASSUME NEW c \in Payers, Payments(sc)!Toggle(c)
      PROVE  OnceInv(sc)'
  <2>1. UNCHANGED <<pay, stamp, run, pSent, lost>> /\ Payments(sc)!FullRuns' = Payments(sc)!FullRuns
    BY <1>2, <1>d DEF Payments!Toggle, Payments!stamps, Payments!ghosts
  <2> QED BY <2>1 DEF OnceInv
<1>3. ASSUME NEW w \in Workers, Payments(sc)!Nightly(w) \/ Payments(sc)!ExportAll(w)
      PROVE  OnceInv(sc)'
  <2>1. \A v \in Workers : run[v] = Payments(sc)!Idle
    BY <1>3, RunsBeginAlone DEF Payments!Nightly, Payments!ExportAll, Payments!Begin
  <2>2. CASE Payments(sc)!Nightly(w)
    <3> DEFINE n == [op |-> "read", since |-> stamp.at]
    <3>1. Payments(sc)!Goes(w, n) /\ UNCHANGED <<pay, stamp, pSent, lost>> /\ Payments(sc)!FullRuns' = Payments(sc)!FullRuns /\ stamp.at # Payments(sc)!Never
      BY <1>d, <2>2 DEF Payments!Nightly, Payments!Begin, Payments!stamps, Payments!ghosts
    <3>2. ~RunReadsAll(sc, n) /\ (\A p : ~RunSends(sc, n, p)) /\ ~(n.op = "stamp") /\ RunKnows(sc, n, stamp) /\ n # Payments(sc)!Idle
      BY <3>1, <1>0 DEF RunReadsAll, RunSends, RunKnows
    <3> HIDE DEF n
    <3>3. \A p \in Pays :
           RunCounts(sc, pay[p].at, stamp.at, pSent[p], Payments(sc)!FullRuns, lost,
                  run[w].op = "stamp", RunReadsAll(sc, run[w]) \/ RunSends(sc, run[w], p)) =>
           RunCounts(sc, pay[p].at, stamp'.at, pSent'[p], Payments(sc)!FullRuns', lost',
                  n.op = "stamp", RunReadsAll(sc, n) \/ RunSends(sc, n, p))
      BY <1>0, <2>1, <3>1, <3>2 DEF RunCounts
    <3> QED BY <1>b, <2>1, <3>1, <3>2, <3>3, OnceGoes
  <2>3. CASE Payments(sc)!ExportAll(w)
    <3> DEFINE n == [op |-> "read", since |-> Payments(sc)!Never]
    <3>1. Payments(sc)!Goes(w, n) /\ UNCHANGED <<pay, stamp, pSent, lost>> /\ Payments(sc)!FullRuns' = Payments(sc)!FullRuns + 1
      <4>1. budget'["full"] = budget["full"] - 1 /\ budget["full"] \in Nat /\ PayFull[sc] \in Nat
        BY <2>3, BudgetSpent DEF Payments!ExportAll, Payments!TypeOK, Payments!ExportBoundAssumption
      <4>2. Payments(sc)!FullRuns' = Payments(sc)!FullRuns + 1
        BY <4>1 DEF Payments!FullRuns
      <4> QED BY <2>3, <4>2 DEF Payments!ExportAll, Payments!Begin, Payments!stamps, Payments!ghosts
    <3>2. (\A p : ~RunSends(sc, n, p)) /\ ~(n.op = "stamp") /\ RunKnows(sc, n, stamp)
      BY DEF RunSends, RunKnows
    <3> HIDE DEF n
    <3>3. \A p \in Pays :
           RunCounts(sc, pay[p].at, stamp.at, pSent[p], Payments(sc)!FullRuns, lost,
                  run[w].op = "stamp", RunReadsAll(sc, run[w]) \/ RunSends(sc, run[w], p)) =>
           RunCounts(sc, pay[p].at, stamp'.at, pSent'[p], Payments(sc)!FullRuns', lost',
                  n.op = "stamp", RunReadsAll(sc, n) \/ RunSends(sc, n, p))
      BY <1>0, <1>a, <1>b, <2>1, <3>1, <3>2 DEF RunCounts
    <3>4. Payments(sc)!FullRuns' >= 1 /\ Payments(sc)!FullRuns' >= 0
      BY <1>b, <3>1
    <3> QED BY <2>1, <3>1, <3>2, <3>3, <3>4, OnceGoes
  <2> QED BY <1>3, <2>2, <2>3
<1>4. ASSUME NEW w \in Workers, Payments(sc)!ReadRows(w)
      PROVE  OnceInv(sc)'
  <2> DEFINE m == {p \in Pays : pay[p].at # Payments(sc)!Never /\ (~pay[p].seen \/ Payer[p] \notin active)}
             n == [op |-> "upload", id |-> made + 1, rows |-> Payments(sc)!Rows(run[w].since), missed |-> m]
  <2>1. Payments(sc)!Goes(w, n) /\ run[w].op = "read" /\ UNCHANGED <<pay, stamp, pSent, lost, budget>>
    BY <1>4 DEF Payments!ReadRows, Payments!ghosts
  <2>2. /\ \A v \in Workers \ {w} : run[v] = Payments(sc)!Idle
        /\ Payments(sc)!FullRuns >= 1 /\ Payments(sc)!FullRuns' = Payments(sc)!FullRuns
    BY <1>0, <1>c, <1>e, <2>1
  <2>3. n.op = "upload" /\ n.rows = Payments(sc)!Rows(run[w].since) /\ n.id = made + 1
    OBVIOUS
  <2> HIDE DEF n, m
  <2>4. ~RunReadsAll(sc, n) /\ ~(n.op = "stamp") /\ RunKnows(sc, n, stamp)
    BY <1>0, <2>3 DEF RunReadsAll, RunKnows
  <2>5. ASSUME NEW p \in Pays, RunSends(sc, n, p)
        PROVE  pay[p].at # Payments(sc)!Never /\ (RunReadsAll(sc, run[w]) \/ pay[p].at >= stamp.at)
    <3>1. p \in Payments(sc)!Rows(run[w].since) /\ run[w].since \in {Payments(sc)!Never, stamp.at}
      BY <2>1, <2>3, <2>5 DEF RunSends, OnceInv, RunKnows
    <3> QED BY <2>1, <3>1 DEF Payments!Rows, RunReadsAll, MissedInv, PaymentsDated
  <2>6. \A p \in Pays :
         RunCounts(sc, pay[p].at, stamp.at, pSent[p], Payments(sc)!FullRuns, lost,
                run[w].op = "stamp", RunReadsAll(sc, run[w]) \/ RunSends(sc, run[w], p)) =>
         RunCounts(sc, pay[p].at, stamp'.at, pSent'[p], Payments(sc)!FullRuns', lost',
                n.op = "stamp", RunReadsAll(sc, n) \/ RunSends(sc, n, p))
    BY <1>0, <1>a, <2>1, <2>2, <2>4, <2>5 DEF RunCounts
  <2> QED BY <2>1, <2>2, <2>4, <2>5, <2>6, OnceGoes, <1>b
<1>5. ASSUME NEW w \in Workers, Payments(sc)!Upload(w)
      PROVE  OnceInv(sc)'
  <2> DEFINE n == [op |-> "stamp", id |-> run[w].id, missed |-> run[w].missed]
  <2>1. Payments(sc)!Goes(w, n) /\ run[w].op = "upload" /\ UNCHANGED <<pay, stamp, lost, budget>>
    BY <1>5 DEF Payments!Upload, Payments!stamps, Payments!ghosts
  <2>2. /\ \A v \in Workers \ {w} : run[v] = Payments(sc)!Idle
        /\ Payments(sc)!FullRuns >= 1 /\ Payments(sc)!FullRuns' = Payments(sc)!FullRuns
    BY <1>0, <1>c, <1>e, <2>1
  <2>3. n.op = "stamp" /\ n.id = run[w].id
    OBVIOUS
  <2> HIDE DEF n
  <2>4. ~RunReadsAll(sc, n) /\ (\A p : ~RunSends(sc, n, p)) /\ RunKnows(sc, n, stamp)
    BY <2>1, <2>3 DEF RunReadsAll, RunSends, RunKnows, OnceInv
  <2>5. \A p \in Pays : \/ RunSends(sc, run[w], p) /\ pSent'[p] = pSent[p] + 1
                      \/ pSent'[p] = pSent[p]
    BY <1>0, <1>5 DEF Payments!Upload, RunSends
  <2>6. \A p \in Pays :
         RunCounts(sc, pay[p].at, stamp.at, pSent[p], Payments(sc)!FullRuns, lost,
                run[w].op = "stamp", RunReadsAll(sc, run[w]) \/ RunSends(sc, run[w], p)) =>
         RunCounts(sc, pay[p].at, stamp'.at, pSent'[p], Payments(sc)!FullRuns', lost',
                n.op = "stamp", RunReadsAll(sc, n) \/ RunSends(sc, n, p))
    <3> SUFFICES ASSUME NEW p \in Pays,
                        RunCounts(sc, pay[p].at, stamp.at, pSent[p], Payments(sc)!FullRuns, lost,
                               run[w].op = "stamp", RunReadsAll(sc, run[w]) \/ RunSends(sc, run[w], p))
                 PROVE  RunCounts(sc, pay[p].at, stamp'.at, pSent'[p], Payments(sc)!FullRuns', lost',
                               n.op = "stamp", RunReadsAll(sc, n) \/ RunSends(sc, n, p))
      OBVIOUS
    <3>1. RunSends(sc, run[w], p) => pay[p].at # Payments(sc)!Never
      BY DEF OnceInv
    <3>2. ~(run[w].op = "stamp")
      BY <2>1
    <3> QED BY <1>0, <1>a, <1>b, <2>1, <2>2, <2>3, <2>4, <2>5, <3>1, <3>2 DEF RunCounts
  <2> QED BY <2>1, <2>2, <2>4, <2>6, OnceGoes, <1>b
<1>6. ASSUME NEW w \in Workers, Payments(sc)!UploadFails(w)
      PROVE  OnceInv(sc)'
  <2>1. Payments(sc)!Goes(w, Payments(sc)!Idle) /\ run[w].op = "upload" /\ UNCHANGED <<pay, stamp, pSent, lost>>
    BY <1>6 DEF Payments!UploadFails, Payments!stamps, Payments!ghosts
  <2>2. /\ \A v \in Workers \ {w} : run[v] = Payments(sc)!Idle
        /\ Payments(sc)!FullRuns' = Payments(sc)!FullRuns
    BY <1>0, <1>c, <1>d, <1>6, <2>1 DEF Payments!UploadFails
  <2>3. \A p \in Pays :
         RunCounts(sc, pay[p].at, stamp.at, pSent[p], Payments(sc)!FullRuns, lost,
                run[w].op = "stamp", RunReadsAll(sc, run[w]) \/ RunSends(sc, run[w], p)) =>
         RunCounts(sc, pay[p].at, stamp'.at, pSent'[p], Payments(sc)!FullRuns', lost',
                Payments(sc)!Idle.op = "stamp", RunReadsAll(sc, Payments(sc)!Idle) \/ RunSends(sc, Payments(sc)!Idle, p))
    BY <1>f, <2>1, <2>2 DEF RunCounts
  <2> QED BY <1>b, <1>f, <2>1, <2>2, <2>3, OnceGoes
<1>7. ASSUME NEW w \in Workers, Payments(sc)!Stamp(w)
      PROVE  OnceInv(sc)'
  <2>1. /\ Payments(sc)!Goes(w, Payments(sc)!Idle) /\ run[w].op = "stamp" /\ UNCHANGED <<pay, pSent, lost, budget>>
        /\ stamp'.at = pClock + 1
    <3>1. run[w].id > stamp.id
      BY <1>7 DEF Payments!Stamp, OnceInv, RunKnows
    <3> QED BY <1>7, <3>1 DEF Payments!Stamp
  <2>2. /\ \A v \in Workers \ {w} : run[v] = Payments(sc)!Idle
        /\ Payments(sc)!FullRuns >= 1 /\ Payments(sc)!FullRuns' = Payments(sc)!FullRuns
    BY <1>0, <1>c, <1>e, <2>1
  <2>3. \A p \in Pays :
         RunCounts(sc, pay[p].at, stamp.at, pSent[p], Payments(sc)!FullRuns, lost,
                run[w].op = "stamp", RunReadsAll(sc, run[w]) \/ RunSends(sc, run[w], p)) =>
         RunCounts(sc, pay[p].at, stamp'.at, pSent'[p], Payments(sc)!FullRuns', lost',
                Payments(sc)!Idle.op = "stamp", RunReadsAll(sc, Payments(sc)!Idle) \/ RunSends(sc, Payments(sc)!Idle, p))
    BY <1>0, <1>a, <1>b, <1>f, <2>1, <2>2 DEF RunCounts
  <2> QED BY <1>b, <1>f, <2>1, <2>2, <2>3, OnceGoes
<1>8. ASSUME NEW w \in Workers, Payments(sc)!Die(w)
      PROVE  OnceInv(sc)'
  <2>1. /\ Payments(sc)!Goes(w, Payments(sc)!Idle) /\ run[w] # Payments(sc)!Idle /\ UNCHANGED <<pay, stamp, pSent>>
        /\ lost' = IF run[w].op = "stamp" THEN lost + 1 ELSE lost
    BY <1>8 DEF Payments!Die, Payments!stamps
  <2>2. /\ \A v \in Workers \ {w} : run[v] = Payments(sc)!Idle
        /\ Payments(sc)!FullRuns' = Payments(sc)!FullRuns
    BY <1>c, <1>d, <1>8, <2>1 DEF Payments!Die
  <2>3. \A p \in Pays :
         RunCounts(sc, pay[p].at, stamp.at, pSent[p], Payments(sc)!FullRuns, lost,
                run[w].op = "stamp", RunReadsAll(sc, run[w]) \/ RunSends(sc, run[w], p)) =>
         RunCounts(sc, pay[p].at, stamp'.at, pSent'[p], Payments(sc)!FullRuns', lost',
                Payments(sc)!Idle.op = "stamp", RunReadsAll(sc, Payments(sc)!Idle) \/ RunSends(sc, Payments(sc)!Idle, p))
    BY <1>0, <1>a, <1>b, <1>f, <2>1, <2>2 DEF RunCounts
  <2> QED BY <1>b, <1>f, <2>1, <2>2, <2>3, OnceGoes
<1>9. CASE UNCHANGED Payments(sc)!vars
  <2>1. UNCHANGED <<pay, stamp, run, pSent, lost>> /\ Payments(sc)!FullRuns' = Payments(sc)!FullRuns
    BY <1>9, <1>e DEF Payments!vars, Payments!stamps, Payments!ghosts
  <2> QED BY <2>1 DEF OnceInv
<1> QED BY <1>1, <1>2, <1>3, <1>4, <1>5, <1>6, <1>7, <1>8, <1>9 DEF Payments!Next, Payments!Step

LEMMA OnceSays ==
  ASSUME NEW sc \in PayScenes, Payments(sc)!ExportBoundAssumption, Payments(sc)!TypeOK, OnceInv(sc)
  PROVE  Payments(sc)!ExportedOnce
<1> SUFFICES ASSUME NEW p \in Pays
             PROVE  pSent[p] <= (IF Payments(sc)!FullRuns > 1 THEN Payments(sc)!FullRuns ELSE 1) + lost
  BY DEF Payments!ExportedOnce
<1>1. /\ pay[p].at \in Int /\ stamp.at \in Int /\ pSent[p] \in Nat /\ lost \in Nat /\ Payments(sc)!FullRuns \in Int
  BY DEF Payments!TypeOK, Payments!FullRuns, Payments!ExportBoundAssumption
<1>2. RunCounts(sc, pay[p].at, stamp.at, pSent[p], Payments(sc)!FullRuns, lost, Stamping(sc, run), Again(sc, run, p))
  BY DEF OnceInv
<1> QED BY <1>1, <1>2 DEF RunCounts

-----------------------------------------------------------------------------
(* Accounting. *)

(* The sets and numbers of AaaExport are those of this module. *)
LEMMA AccountingOnFiniteSets ==
  ASSUME NEW sc \in AaaScenes, NEW S
  PROVE  (Accounting(sc)!IsFiniteSet(S) <=> IsFiniteSet(S)) /\ Accounting(sc)!Cardinality(S) = Cardinality(S)
<1>1. Accounting(sc)!IsFiniteSet(S) <=> IsFiniteSet(S)
  BY Zenon DEF Accounting!IsFiniteSet, IsFiniteSet
<1>2. Accounting(sc)!Cardinality(S) = Cardinality(S)
  BY Zenon DEF Accounting!Cardinality, Cardinality
<1> QED BY <1>1, <1>2

-----------------------------------------------------------------------------

LossReasons(sc) == {"replaced", "unsent", "dead"}

LEMMA TaskShape ==
  ASSUME NEW sc \in AaaScenes, Accounting(sc)!TypeOK, NEW w \in Workers
  PROVE  /\ aTask[w].op = "append" => aTask[w] \in [op : {"append"}, row : Entries]
         /\ aTask[w].op = "stor" => aTask[w] \in [op : {"stor"}, name : 1 .. AaaSeconds]
         /\ aTask[w].op = "erase" => aTask[w] \in [op : {"erase"}, unsent : SUBSET Entries]
<1>1. aTask[w] \in Accounting(sc)!Task
  BY DEF Accounting!TypeOK
<1>2. Accounting(sc)!Idle.op = "idle"
  BY DEF Accounting!Idle
<1> QED BY <1>1, <1>2 DEF Accounting!Task

LEMMA TaskGoes ==
  ASSUME NEW sc \in AaaScenes, Accounting(sc)!TypeOK, NEW w \in Workers, NEW n \in Accounting(sc)!Task,
         Accounting(sc)!Goes(w, n)
  PROVE  /\ aTask' \in [Workers -> Accounting(sc)!Task] /\ aTask'[w] = n
         /\ \A v \in Workers \ {w} : aTask'[v] = aTask[v]
BY DEF Accounting!TypeOK, Accounting!Goes

LEMMA IdleGoes ==
  ASSUME NEW sc \in AaaScenes, Accounting(sc)!TypeOK, NEW w \in Workers,
         Accounting(sc)!Goes(w, Accounting(sc)!Idle)
  PROVE  /\ aTask' \in [Workers -> Accounting(sc)!Task] /\ aTask'[w].op = "idle"
         /\ \A v \in Workers \ {w} : aTask'[v] = aTask[v]
<1>1. Accounting(sc)!Idle \in Accounting(sc)!Task /\ Accounting(sc)!Idle.op = "idle"
  BY DEF Accounting!Task, Accounting!Idle
<1> QED BY <1>1, TaskGoes

-----------------------------------------------------------------------------
(* Besides the types and the property: the row of an append has left the queue,
   and who is about to erase the file has sent all of it but what was written
   to it since. *)

RowSettled(sc, r) == (\E s \in 1 .. AaaSeconds : r \in aRemote[s]) \/ (\E why \in LossReasons(sc) : r \in gone[why])
RowCarried(sc, r) == \E w \in Workers : aTask[w].op = "append" /\ aTask[w].row = r

RowsTakenOnce(sc) == \A w \in Workers : aTask[w].op = "append" => aTask[w].row \in logged \ aQueue
RowsKept(sc) == \A r \in logged : r \in aQueue \/ RowCarried(sc, r) \/ r \in file \/ RowSettled(sc, r)
RowsSentBeforeErased(sc) == \A w \in Workers : aTask[w].op = "erase" =>
  \A r \in file : r \in aTask[w].unsent \/ RowSettled(sc, r)
RowInv(sc) == Accounting(sc)!TypeOK /\ RowsTakenOnce(sc) /\ RowsKept(sc) /\ RowsSentBeforeErased(sc)

LEMMA RowInvImplies ==
  ASSUME NEW sc \in AaaScenes, RowInv(sc)
  PROVE  Accounting(sc)!RowIsKept
<1> SUFFICES ASSUME NEW r \in logged
             PROVE  Accounting(sc)!Waits(r) \/ r \in file \/ r \in Accounting(sc)!Arrived \/ r \in Accounting(sc)!Lost
  BY DEF Accounting!RowIsKept
<1>1. RowCarried(sc, r) => Accounting(sc)!Waits(r)
  <2> SUFFICES ASSUME NEW w \in Workers, aTask[w].op = "append", aTask[w].row = r
               PROVE  aTask[w] = [op |-> "append", row |-> r]
    BY DEF RowCarried, Accounting!Waits
  <2>1. aTask[w] \in [op : {"append"}, row : Entries]
    BY TaskShape DEF RowInv
  <2> QED BY <2>1
<1>2. RowSettled(sc, r) => r \in Accounting(sc)!Arrived \/ r \in Accounting(sc)!Lost
  BY DEF RowSettled, Accounting!Arrived, Accounting!Lost, LossReasons
<1> QED BY <1>1, <1>2 DEF RowInv, RowsKept, Accounting!Waits

(* A step that moves no row: of what is queued, carried, written or settled
   nothing is taken away, and who comes to erase finds nothing unsent. *)
LEMMA QuietRows ==
  ASSUME NEW sc \in AaaScenes, RowInv(sc), Accounting(sc)!TypeOK', UNCHANGED <<aQueue, file, logged>>,
         \A r : RowSettled(sc, r) => RowSettled(sc, r)',
         \A w \in Workers :
           \/ aTask'[w] = aTask[w]
           \/ /\ \A r : aTask[w].op = "append" /\ r = aTask[w].row => RowSettled(sc, r)'
              /\ aTask'[w].op # "append"
              /\ aTask'[w].op = "erase" => \A r \in file : RowSettled(sc, r)'
  PROVE  RowInv(sc)'
<1>1. RowsTakenOnce(sc)'
  BY DEF RowInv, RowsTakenOnce
<1>2. RowsKept(sc)'
  BY DEF RowInv, RowsKept, RowCarried
<1>3. RowsSentBeforeErased(sc)'
  BY DEF RowInv, RowsSentBeforeErased
<1> QED BY <1>1, <1>2, <1>3 DEF RowInv

LEMMA StoreSettles ==
  ASSUME NEW sc \in AaaScenes, Accounting(sc)!TypeOK, NEW name \in 1 .. AaaSeconds,
         NEW rows \in SUBSET Entries, Accounting(sc)!Store(name, rows)
  PROVE  /\ \A r : RowSettled(sc, r) => RowSettled(sc, r)'
         /\ \A r \in rows : RowSettled(sc, r)'
         /\ aRemote' \in [1 .. AaaSeconds -> SUBSET Entries]
         /\ aSent' \in [Entries -> Nat]
         /\ gone' \in [LossReasons(sc) -> SUBSET Entries]
<1>1. /\ aRemote' = [aRemote EXCEPT ![name] = rows]
      /\ gone' = [gone EXCEPT !["replaced"] = @ \cup (aRemote[name] \ rows)]
      /\ aRemote \in [1 .. AaaSeconds -> SUBSET Entries] /\ gone \in [LossReasons(sc) -> SUBSET Entries]
      /\ aSent \in [Entries -> Nat]
  BY DEF Accounting!Store, Accounting!Lose, Accounting!TypeOK, LossReasons
<1>2. /\ aRemote'[name] = rows /\ \A s \in 1 .. AaaSeconds : s # name => aRemote'[s] = aRemote[s]
      /\ gone'["replaced"] = gone["replaced"] \cup (aRemote[name] \ rows)
      /\ \A why \in LossReasons(sc) : gone[why] \subseteq gone'[why]
      /\ "replaced" \in LossReasons(sc)
  BY <1>1 DEF LossReasons
<1>3. \A r \in rows : RowSettled(sc, r)'
  BY <1>2 DEF RowSettled
<1>4. ASSUME NEW r, RowSettled(sc, r) PROVE RowSettled(sc, r)'
  <2>1. CASE \E why \in LossReasons(sc) : r \in gone[why]
    BY <1>2, <2>1 DEF RowSettled
  <2>2. CASE \E s \in 1 .. AaaSeconds : r \in aRemote[s]
    <3>1. PICK s \in 1 .. AaaSeconds : r \in aRemote[s]
      BY <2>2
    <3>2. CASE s # name
      BY <1>2, <3>1, <3>2 DEF RowSettled
    <3>3. CASE s = name /\ r \in rows
      BY <1>3, <3>3
    <3>4. CASE s = name /\ r \notin rows
      <4>1. r \in gone'["replaced"]
        BY <1>2, <3>1, <3>4
      <4> QED BY <1>2, <4>1 DEF RowSettled
    <3> QED BY <3>2, <3>3, <3>4
  <2> QED BY <1>4, <2>1, <2>2 DEF RowSettled
<1>5. gone' \in [LossReasons(sc) -> SUBSET Entries]
  BY <1>1
<1>6. aSent' \in [Entries -> Nat]
  BY <1>1 DEF Accounting!Store
<1> QED BY <1>1, <1>3, <1>4, <1>5, <1>6

-----------------------------------------------------------------------------
(* The steps. *)

LEMMA LogRows ==
  ASSUME NEW sc \in AaaScenes, RowInv(sc), NEW r \in Entries, Accounting(sc)!Log(r)
  PROVE  RowInv(sc)'
<1>1. Accounting(sc)!TypeOK'
  BY DEF RowInv, Accounting!TypeOK, Accounting!Log
<1>2. RowsTakenOnce(sc)' /\ RowsKept(sc)' /\ RowsSentBeforeErased(sc)'
  BY DEF RowInv, Accounting!TypeOK, RowsTakenOnce, RowsKept, RowsSentBeforeErased, RowCarried, RowSettled,
     Accounting!Log
<1> QED BY <1>1, <1>2 DEF RowInv

LEMMA TakeAppendRows ==
  ASSUME NEW sc \in AaaScenes, RowInv(sc), NEW w \in Workers, NEW r \in Entries,
         Accounting(sc)!TakeAppend(w, r)
  PROVE  RowInv(sc)'
<1> DEFINE n == [op |-> "append", row |-> r]
<1>1. n \in Accounting(sc)!Task /\ n.op = "append" /\ n.row = r
  BY DEF Accounting!Task
<1> HIDE DEF n
<1>2. /\ aTask' \in [Workers -> Accounting(sc)!Task] /\ aTask'[w] = n
      /\ \A v \in Workers \ {w} : aTask'[v] = aTask[v]
  BY <1>1, TaskGoes DEF RowInv, Accounting!TakeAppend, n
<1>3. /\ r \in aQueue /\ aQueue' = aQueue \ {r} /\ aTask[w] = Accounting(sc)!Idle
      /\ UNCHANGED <<due, file, aRemote, aClock, logged, aSent, gone, aFaults>>
  BY DEF Accounting!TakeAppend, Accounting!ghosts
<1>4. Accounting(sc)!TypeOK'
  BY <1>2, <1>3 DEF RowInv, Accounting!TypeOK
<1>5. \A v \in Workers : aTask[v].op = "append" => v # w
  BY <1>3 DEF Accounting!Idle
<1>6. \A q : RowSettled(sc, q)' <=> RowSettled(sc, q)
  BY <1>3 DEF RowSettled
<1>7. RowsTakenOnce(sc)'
  BY <1>1, <1>2, <1>3 DEF RowInv, Accounting!TypeOK, RowsTakenOnce
<1>8. RowsKept(sc)'
  BY <1>1, <1>2, <1>3, <1>5, <1>6 DEF RowInv, RowsKept, RowCarried
<1>9. RowsSentBeforeErased(sc)'
  BY <1>1, <1>2, <1>3, <1>6 DEF RowInv, RowsSentBeforeErased
<1> QED BY <1>4, <1>7, <1>8, <1>9 DEF RowInv

LEMMA AppendRows ==
  ASSUME NEW sc \in AaaScenes, RowInv(sc), NEW w \in Workers, Accounting(sc)!Append(w)
  PROVE  RowInv(sc)'
<1> DEFINE r == aTask[w].row
<1>1. /\ aTask[w] \in [op : {"append"}, row : Entries] /\ aTask[w].op = "append"
      /\ r \in Entries /\ r \in logged \ aQueue
  BY TaskShape DEF RowInv, RowsTakenOnce, Accounting!Append
<1>2. /\ file' = file \cup {r}
      /\ UNCHANGED <<aQueue, due, aRemote, aClock, logged, aSent, gone, aFaults>>
  BY DEF Accounting!Append, Accounting!ghosts
<1> HIDE DEF r
<1>3. ASSUME NEW v \in Workers
      PROVE  /\ aTask'[v] \in Accounting(sc)!Task
             /\ v = w => aTask'[v].op = "idle"
             /\ v # w /\ aTask[v].op # "erase" => aTask'[v] = aTask[v]
             /\ v # w /\ aTask[v].op = "erase" =>
                  aTask'[v].op = "erase" /\ aTask'[v].unsent = aTask[v].unsent \cup {r}
  <2>1. aTask'[v] = IF v = w THEN Accounting(sc)!Idle
                   ELSE IF v \in Accounting(sc)!Erasing THEN [aTask[v] EXCEPT !.unsent = @ \cup {r}]
                   ELSE aTask[v]
    BY DEF Accounting!Append, r
  <2>2. Accounting(sc)!Idle \in Accounting(sc)!Task /\ Accounting(sc)!Idle.op = "idle"
    BY DEF Accounting!Task, Accounting!Idle
  <2>3. v \in Accounting(sc)!Erasing <=> aTask[v].op = "erase"
    BY DEF Accounting!Erasing
  <2>4. CASE v # w /\ v \in Accounting(sc)!Erasing
    <3>1. aTask[v] \in [op : {"erase"}, unsent : SUBSET Entries]
      BY <2>3, <2>4, TaskShape DEF RowInv
    <3>2. /\ [aTask[v] EXCEPT !.unsent = @ \cup {r}] \in Accounting(sc)!Task
          /\ [aTask[v] EXCEPT !.unsent = @ \cup {r}].op = "erase"
          /\ [aTask[v] EXCEPT !.unsent = @ \cup {r}].unsent = aTask[v].unsent \cup {r}
      BY <1>1, <3>1 DEF Accounting!Task
    <3> QED BY <2>1, <2>3, <2>4, <3>2
  <2>5. CASE v # w /\ v \notin Accounting(sc)!Erasing
    BY <2>1, <2>3, <2>5 DEF RowInv, Accounting!TypeOK
  <2>6. CASE v = w
    BY <2>1, <2>2, <2>6
  <2> QED BY <2>4, <2>5, <2>6
<1>4. aTask' \in [Workers -> Accounting(sc)!Task]
  <2>1. aTask' = [v \in Workers |-> aTask'[v]]
    BY DEF Accounting!Append
  <2> QED BY <1>3, <2>1
<1>5. Accounting(sc)!TypeOK'
  BY <1>1, <1>2, <1>4 DEF RowInv, Accounting!TypeOK
<1>6. \A q : RowSettled(sc, q)' <=> RowSettled(sc, q)
  BY <1>2 DEF RowSettled
<1>7. RowsTakenOnce(sc)'
  BY <1>2, <1>3 DEF RowInv, RowsTakenOnce
<1>8. RowsKept(sc)'
  <2>1. \A v \in Workers : aTask[v].op = "append" /\ aTask[v].row # r => aTask'[v] = aTask[v]
    BY <1>3 DEF r
  <2> QED BY <1>2, <1>6, <2>1 DEF RowInv, RowsKept, RowCarried
<1>9. RowsSentBeforeErased(sc)'
  BY <1>1, <1>2, <1>3, <1>6 DEF RowInv, RowsSentBeforeErased
<1> QED BY <1>5, <1>7, <1>8, <1>9 DEF RowInv

LEMMA TakeUploadRows ==
  ASSUME NEW sc \in AaaScenes, Accounting(sc)!AaaBoundAssumption, RowInv(sc), NEW w \in Workers,
         Accounting(sc)!TakeUpload(w)
  PROVE  RowInv(sc)'
<1> DEFINE n == IF file = {} THEN [op |-> "erase", unsent |-> {}] ELSE [op |-> "stor", name |-> aClock]
<1>1. n \in Accounting(sc)!Task /\ n.op \in {"erase", "stor"} /\ (n.op = "erase" => file = {})
  BY DEF RowInv, Accounting!TypeOK, Accounting!Task
<1> HIDE DEF n
<1>2. /\ aTask' \in [Workers -> Accounting(sc)!Task] /\ aTask'[w] = n
      /\ \A v \in Workers \ {w} : aTask'[v] = aTask[v]
  BY <1>1, TaskGoes DEF RowInv, Accounting!TakeUpload, n
<1>3. /\ UNCHANGED <<aQueue, file, aRemote, aClock, logged, aSent, gone, aFaults>>
      /\ due > 0 /\ due' = due - 1 /\ aTask[w].op = "idle"
  BY DEF Accounting!TakeUpload, Accounting!ghosts, Accounting!Idle
<1>4. Accounting(sc)!TypeOK'
  <2>1. due' \in 0 .. AaaDue
    BY <1>3 DEF RowInv, Accounting!TypeOK, Accounting!AaaBoundAssumption
  <2> QED BY <1>2, <1>3, <2>1 DEF RowInv, Accounting!TypeOK
<1>5. \A q : RowSettled(sc, q) => RowSettled(sc, q)'
  BY <1>3 DEF RowSettled
<1> QED BY <1>1, <1>2, <1>3, <1>4, <1>5, QuietRows

LEMMA StorRows ==
  ASSUME NEW sc \in AaaScenes, RowInv(sc), NEW w \in Workers, Accounting(sc)!Stor(w)
  PROVE  RowInv(sc)'
<1> DEFINE n == [op |-> "erase", unsent |-> {}]
<1>1. n \in Accounting(sc)!Task /\ n.op = "erase"
  BY DEF Accounting!Task
<1> HIDE DEF n
<1>2. /\ aTask' \in [Workers -> Accounting(sc)!Task] /\ aTask'[w] = n
      /\ \A v \in Workers \ {w} : aTask'[v] = aTask[v]
  BY <1>1, TaskGoes DEF RowInv, Accounting!Stor, n
<1>3. UNCHANGED <<aQueue, due, file, aClock, logged, aFaults>> /\ aTask[w].op = "stor"
  BY DEF Accounting!Stor
<1>4. /\ \A r : RowSettled(sc, r) => RowSettled(sc, r)'
      /\ \A r \in file : RowSettled(sc, r)'
      /\ aRemote' \in [1 .. AaaSeconds -> SUBSET Entries]
      /\ aSent' \in [Entries -> Nat] /\ gone' \in [LossReasons(sc) -> SUBSET Entries]
  <2>1. aTask[w].name \in 1 .. AaaSeconds
    BY TaskShape DEF RowInv, Accounting!Stor
  <2>2. file \in SUBSET Entries /\ Accounting(sc)!Store(aTask[w].name, file)
    BY DEF RowInv, Accounting!TypeOK, Accounting!Stor
  <2> QED BY <2>1, <2>2, StoreSettles DEF RowInv
<1>5. Accounting(sc)!TypeOK'
  BY <1>2, <1>3, <1>4 DEF RowInv, Accounting!TypeOK, LossReasons
<1> QED BY <1>1, <1>2, <1>3, <1>4, <1>5, QuietRows

LEMMA StorFailsRows ==
  ASSUME NEW sc \in AaaScenes, Accounting(sc)!AaaBoundAssumption, RowInv(sc), NEW w \in Workers,
         Accounting(sc)!StorFails(w)
  PROVE  RowInv(sc)'
<1>1. /\ aTask' \in [Workers -> Accounting(sc)!Task] /\ aTask'[w].op = "idle"
      /\ \A v \in Workers \ {w} : aTask'[v] = aTask[v]
  BY IdleGoes DEF RowInv, Accounting!StorFails
<1>2. /\ UNCHANGED <<aQueue, due, file, aClock, logged>> /\ aTask[w].op = "stor"
      /\ aFaults' \in 0 .. AaaFaults[sc]
  BY DEF Accounting!StorFails, Accounting!Fault, RowInv, Accounting!TypeOK, Accounting!AaaBoundAssumption
<1>3. /\ \A r : RowSettled(sc, r) => RowSettled(sc, r)'
      /\ aRemote' \in [1 .. AaaSeconds -> SUBSET Entries]
      /\ aSent' \in [Entries -> Nat] /\ gone' \in [LossReasons(sc) -> SUBSET Entries]
  <2>1. CASE \E part \in SUBSET file : Accounting(sc)!Store(aTask[w].name, part)
    <3>1. PICK part \in SUBSET file : Accounting(sc)!Store(aTask[w].name, part)
      BY <2>1
    <3>2. aTask[w].name \in 1 .. AaaSeconds /\ part \in SUBSET Entries
      BY <1>2, TaskShape DEF RowInv, Accounting!TypeOK
    <3> QED BY <3>1, <3>2, StoreSettles DEF RowInv
  <2>2. CASE UNCHANGED <<aRemote, aSent, gone>>
    BY <2>2 DEF RowSettled, RowInv, Accounting!TypeOK, LossReasons
  <2> QED BY <2>1, <2>2 DEF Accounting!StorFails
<1>4. Accounting(sc)!TypeOK'
  BY <1>1, <1>2, <1>3 DEF RowInv, Accounting!TypeOK, LossReasons
<1> QED BY <1>1, <1>2, <1>3, <1>4, QuietRows

LEMMA EraseRows ==
  ASSUME NEW sc \in AaaScenes, RowInv(sc), NEW w \in Workers, Accounting(sc)!Erase(w)
  PROVE  RowInv(sc)'
<1>1. /\ aTask' \in [Workers -> Accounting(sc)!Task] /\ aTask'[w].op = "idle"
      /\ \A v \in Workers \ {w} : aTask'[v] = aTask[v]
  BY IdleGoes DEF RowInv, Accounting!Erase
<1>2. /\ UNCHANGED <<aQueue, due, aRemote, aClock, logged, aSent, aFaults>> /\ file' = {}
      /\ aTask[w].op = "erase"
      /\ gone' = [gone EXCEPT !["unsent"] = @ \cup (aTask[w].unsent \cap file)]
  BY DEF Accounting!Erase, Accounting!Lose
<1>3. gone \in [LossReasons(sc) -> SUBSET Entries] /\ file \subseteq Entries
  BY DEF RowInv, Accounting!TypeOK, LossReasons
<1>4. /\ gone' \in [LossReasons(sc) -> SUBSET Entries] /\ "unsent" \in LossReasons(sc)
      /\ gone'["unsent"] = gone["unsent"] \cup (aTask[w].unsent \cap file)
      /\ \A why \in LossReasons(sc) : gone[why] \subseteq gone'[why]
  BY <1>2, <1>3 DEF LossReasons
<1>5. \A r : RowSettled(sc, r) => RowSettled(sc, r)'
  BY <1>2, <1>4 DEF RowSettled
<1>6. \A r \in file : RowSettled(sc, r)'
  <2> SUFFICES ASSUME NEW r \in file PROVE RowSettled(sc, r)'
    OBVIOUS
  <2>1. r \in aTask[w].unsent \/ RowSettled(sc, r)
    BY <1>2 DEF RowInv, RowsSentBeforeErased
  <2> QED BY <1>4, <1>5, <2>1 DEF RowSettled
<1>7. Accounting(sc)!TypeOK'
  BY <1>1, <1>2, <1>4 DEF RowInv, Accounting!TypeOK, LossReasons
<1>8. RowsTakenOnce(sc)'
  BY <1>1, <1>2 DEF RowInv, RowsTakenOnce
<1>9. RowsKept(sc)'
  BY <1>1, <1>2, <1>5, <1>6 DEF RowInv, RowsKept, RowCarried
<1>10. RowsSentBeforeErased(sc)'
  BY <1>2 DEF RowsSentBeforeErased
<1> QED BY <1>7, <1>8, <1>9, <1>10 DEF RowInv

LEMMA DieRows ==
  ASSUME NEW sc \in AaaScenes, Accounting(sc)!AaaBoundAssumption, RowInv(sc), NEW w \in Workers,
         Accounting(sc)!Die(w)
  PROVE  RowInv(sc)'
<1>1. /\ aTask' \in [Workers -> Accounting(sc)!Task] /\ aTask'[w].op = "idle"
      /\ \A v \in Workers \ {w} : aTask'[v] = aTask[v]
  BY IdleGoes DEF RowInv, Accounting!Die
<1>2. /\ UNCHANGED <<aQueue, due, file, aRemote, aClock, logged, aSent>>
      /\ aFaults' \in 0 .. AaaFaults[sc]
  BY DEF Accounting!Die, Accounting!Fault, RowInv, Accounting!TypeOK, Accounting!AaaBoundAssumption
<1>3. /\ gone' \in [LossReasons(sc) -> SUBSET Entries]
      /\ \A why \in LossReasons(sc) : gone[why] \subseteq gone'[why]
      /\ aTask[w].op = "append" => aTask[w].row \in gone'["dead"] /\ "dead" \in LossReasons(sc)
  BY TaskShape DEF Accounting!Die, Accounting!Lose, RowInv, Accounting!TypeOK, LossReasons
<1>4. /\ \A r : RowSettled(sc, r) => RowSettled(sc, r)'
      /\ \A r : aTask[w].op = "append" /\ r = aTask[w].row => RowSettled(sc, r)'
  <2>1. \A r : RowSettled(sc, r) => RowSettled(sc, r)'
    BY <1>2, <1>3 DEF RowSettled
  <2>2. \A r : aTask[w].op = "append" /\ r = aTask[w].row => RowSettled(sc, r)'
    BY <1>3 DEF RowSettled
  <2> QED BY <2>1, <2>2
<1>5. Accounting(sc)!TypeOK'
  BY <1>1, <1>2, <1>3 DEF RowInv, Accounting!TypeOK, LossReasons
<1> QED BY <1>1, <1>2, <1>4, <1>5, QuietRows

LEMMA RowStep ==
  ASSUME NEW sc \in AaaScenes, Accounting(sc)!AaaBoundAssumption, RowInv(sc),
         [Accounting(sc)!Next]_(Accounting(sc)!vars)
  PROVE  RowInv(sc)'
<1>1. ASSUME UNCHANGED <<aQueue, file, aRemote, aTask, logged, aSent, gone>>,
             due' \in 0 .. AaaDue, aClock' \in 1 .. AaaSeconds, aFaults' \in 0 .. AaaFaults[sc]
      PROVE  RowInv(sc)'
  <2>1. Accounting(sc)!TypeOK'
    BY <1>1 DEF RowInv, Accounting!TypeOK
  <2> QED BY <1>1, <2>1, QuietRows DEF RowSettled
<1>2. CASE Accounting(sc)!Schedule
  BY <1>1, <1>2 DEF Accounting!Schedule, Accounting!ghosts, RowInv, Accounting!TypeOK,
     Accounting!AaaBoundAssumption
<1>3. CASE Accounting(sc)!Tick
  BY <1>1, <1>3 DEF Accounting!Tick, Accounting!ghosts, RowInv, Accounting!TypeOK,
     Accounting!AaaBoundAssumption
<1>4. CASE UNCHANGED Accounting(sc)!vars
  BY <1>1, <1>4 DEF Accounting!vars, Accounting!ghosts, RowInv, Accounting!TypeOK
<1> QED BY <1>2, <1>3, <1>4, LogRows, TakeAppendRows, AppendRows, TakeUploadRows, StorRows,
           StorFailsRows, EraseRows, DieRows DEF Accounting!Next, Accounting!Take, Accounting!Step

LEMMA RowInit ==
  ASSUME NEW sc \in AaaScenes, Accounting(sc)!AaaBoundAssumption, Accounting(sc)!Init
  PROVE  RowInv(sc)
<1>1. Accounting(sc)!TypeOK
  BY DEF Accounting!AaaBoundAssumption, Accounting!Init, Accounting!TypeOK, Accounting!Task
<1>2. RowsTakenOnce(sc) /\ RowsKept(sc) /\ RowsSentBeforeErased(sc)
  BY DEF Accounting!Init, RowsTakenOnce, RowsKept, RowsSentBeforeErased, Accounting!Idle
<1> QED BY <1>1, <1>2 DEF RowInv

(* With one task at a time: how often a row is sent, after f faults. *)
SentFor(sc, s, f, written, erasing, waiting) ==
  s <= 1 + f /\ (written /\ ~erasing => s <= f) /\ (waiting => s = 0)
Appends(sc, t, r) == t.op = "append" /\ t.row = r
OneTask(sc, T) == \A v, w \in Workers : T[v] # Accounting(sc)!Idle /\ T[w] # Accounting(sc)!Idle => v = w
Erases(sc, T) == \E w \in Workers : T[w].op = "erase"
Waiting(sc, T, q, l, r) == r \in q \/ r \notin l \/ \E w \in Workers : Appends(sc, T[w], r)
NoneUnsent(sc, t) == t.op = "erase" => t.unsent = {}
SerialRows(sc) ==
  /\ OneTask(sc, aTask) /\ (\A w \in Workers : NoneUnsent(sc, aTask[w])) /\ gone["unsent"] = {}
  /\ \A r \in Entries :
       SentFor(sc, aSent[r], aFaults, r \in file, Erases(sc, aTask), Waiting(sc, aTask, aQueue, logged, r))

(* Nothing runs when a task may begin. *)
LEMMA TasksBeginAlone ==
  ASSUME NEW sc \in AaaScenes, Accounting(sc)!AaaBoundAssumption, AtOnce(sc) = 1,
         Accounting(sc)!Busy < AtOnce(sc), NEW v \in Workers
  PROVE  aTask[v] = Accounting(sc)!Idle
<1> SUFFICES ASSUME aTask[v] # Accounting(sc)!Idle PROVE FALSE
  OBVIOUS
<1> DEFINE B == {w \in Workers : aTask[w] # Accounting(sc)!Idle}
<1>1. IsFiniteSet(Workers) /\ B \subseteq Workers
  BY AccountingOnFiniteSets DEF Accounting!AaaBoundAssumption
<1>2. IsFiniteSet(B) /\ Cardinality(B) \in Nat
  BY <1>1, FS_Subset, FS_CardinalityType
<1>3. v \in B
  OBVIOUS
<1>4. Cardinality(B) # 0
  BY <1>2, <1>3, FS_EmptySet
<1>5. Cardinality(B) < 1
  BY AccountingOnFiniteSets DEF Accounting!Busy
<1> QED BY <1>2, <1>4, <1>5

(* The task of w is the only one. *)
LEMMA OnlyTask ==
  ASSUME NEW sc \in AaaScenes, NEW T, NEW w \in Workers, \A v \in Workers \ {w} : T[v] = Accounting(sc)!Idle
  PROVE  /\ OneTask(sc, T)
         /\ Erases(sc, T) <=> T[w].op = "erase"
         /\ \A q, l, r : Waiting(sc, T, q, l, r) <=> r \in q \/ r \notin l \/ Appends(sc, T[w], r)
<1>1. Accounting(sc)!Idle.op = "idle"
  BY DEF Accounting!Idle
<1> QED BY <1>1 DEF OneTask, Erases, Waiting, Appends

(* A step of the only task, after which it is at n. *)
LEMMA SerialGoes ==
  ASSUME NEW sc \in AaaScenes, SerialRows(sc), NEW w \in Workers,
         \A v \in Workers \ {w} : aTask[v] = Accounting(sc)!Idle,
         NEW n, aTask'[w] = n, \A v \in Workers \ {w} : aTask'[v] = Accounting(sc)!Idle,
         NoneUnsent(sc, n), gone'["unsent"] = {},
         \A r \in Entries :
           SentFor(sc, aSent[r], aFaults, r \in file, aTask[w].op = "erase",
                   r \in aQueue \/ r \notin logged \/ Appends(sc, aTask[w], r)) =>
           SentFor(sc, aSent'[r], aFaults', r \in file', n.op = "erase",
                   r \in aQueue' \/ r \notin logged' \/ Appends(sc, n, r))
  PROVE  SerialRows(sc)'
<1>1. /\ OneTask(sc, aTask')
      /\ Erases(sc, aTask') <=> n.op = "erase"
      /\ \A q, l, r : Waiting(sc, aTask', q, l, r) <=> r \in q \/ r \notin l \/ Appends(sc, n, r)
  BY OnlyTask
<1>2. /\ Erases(sc, aTask) <=> aTask[w].op = "erase"
      /\ \A q, l, r : Waiting(sc, aTask, q, l, r) <=> r \in q \/ r \notin l \/ Appends(sc, aTask[w], r)
  BY OnlyTask
<1>3. \A v \in Workers : NoneUnsent(sc, aTask'[v])
  BY DEF NoneUnsent, Accounting!Idle
<1>4. ASSUME NEW r \in Entries
      PROVE  SentFor(sc, aSent'[r], aFaults', r \in file', Erases(sc, aTask'), Waiting(sc, aTask', aQueue', logged', r))
  <2>1. SentFor(sc, aSent[r], aFaults, r \in file, aTask[w].op = "erase",
                r \in aQueue \/ r \notin logged \/ Appends(sc, aTask[w], r))
    BY <1>2 DEF SerialRows, SentFor
  <2>2. SentFor(sc, aSent'[r], aFaults', r \in file', n.op = "erase",
                r \in aQueue' \/ r \notin logged' \/ Appends(sc, n, r))
    BY <2>1
  <2> QED BY <1>1, <2>2 DEF SentFor
<1> QED BY <1>1, <1>3, <1>4 DEF SerialRows

LEMMA SerialRowsInit ==
  ASSUME NEW sc \in AaaScenes, Accounting(sc)!AaaBoundAssumption, Accounting(sc)!Init
  PROVE  SerialRows(sc)
<1>1. \A w \in Workers : aTask[w] = Accounting(sc)!Idle /\ Accounting(sc)!Idle.op = "idle"
  BY DEF Accounting!Init, Accounting!Idle
<1>2. gone["unsent"] = {} /\ aFaults = 0 /\ file = {} /\ \A r \in Entries : aSent[r] = 0
  BY DEF Accounting!Init
<1> QED BY <1>1, <1>2 DEF SerialRows, OneTask, NoneUnsent, SentFor

LEMMA SerialRowsStep ==
  ASSUME NEW sc \in AaaScenes, Accounting(sc)!AaaBoundAssumption, AtOnce(sc) = 1, RowInv(sc), RowInv(sc)',
         SerialRows(sc), [Accounting(sc)!Next]_(Accounting(sc)!vars)
  PROVE  SerialRows(sc)'
<1>0. /\ aQueue \subseteq logged /\ logged \subseteq Entries /\ file \subseteq logged
      /\ aFaults \in Nat /\ aTask \in [Workers -> Accounting(sc)!Task]
      /\ aSent \in [Entries -> Nat] /\ gone \in [LossReasons(sc) -> SUBSET Entries]
      /\ aQueue \cap file = {} /\ Accounting(sc)!Idle.op = "idle"
      /\ aRemote \in [1 .. AaaSeconds -> SUBSET Entries]
  BY DEF RowInv, Accounting!TypeOK, LossReasons, Accounting!Idle
<1>a. ASSUME NEW w \in Workers, aTask[w] # Accounting(sc)!Idle
      PROVE  \A v \in Workers \ {w} : aTask[v] = Accounting(sc)!Idle
  BY <1>a DEF SerialRows, OneTask
<1>b. \A r \in Entries : aSent[r] \in Nat
  BY <1>0
<1>c. NoneUnsent(sc, Accounting(sc)!Idle) /\ \A r : ~Appends(sc, Accounting(sc)!Idle, r)
  BY <1>0 DEF NoneUnsent, Appends
<1>d. ASSUME NEW name, NEW rows \in SUBSET file, Accounting(sc)!Store(name, rows)
      PROVE  /\ gone'["unsent"] = gone["unsent"]
             /\ \A r \in Entries : aSent'[r] = IF r \in rows THEN aSent[r] + 1 ELSE aSent[r]
  BY <1>0, <1>d DEF Accounting!Store, Accounting!Lose, LossReasons
<1>1. CASE Accounting(sc)!Schedule \/ Accounting(sc)!Tick \/ UNCHANGED Accounting(sc)!vars
  <2>1. UNCHANGED <<aQueue, file, aTask, logged, aSent, gone, aFaults>>
    BY <1>1 DEF Accounting!Schedule, Accounting!Tick, Accounting!vars, Accounting!ghosts
  <2> QED BY <2>1 DEF SerialRows
<1>2. ASSUME NEW r \in Entries, Accounting(sc)!Log(r)
      PROVE  SerialRows(sc)'
  <2>1. /\ UNCHANGED <<file, aTask, aSent, gone, aFaults>>
        /\ aQueue' = aQueue \cup {r} /\ logged' = logged \cup {r} /\ r \notin logged
    BY <1>2 DEF Accounting!Log
  <2>2. ASSUME NEW q \in Entries
        PROVE  SentFor(sc, aSent'[q], aFaults', q \in file', Erases(sc, aTask'), Waiting(sc, aTask', aQueue', logged', q))
    <3>1. SentFor(sc, aSent[q], aFaults, q \in file, Erases(sc, aTask), Waiting(sc, aTask, aQueue, logged, q))
      BY DEF SerialRows
    <3>2. Waiting(sc, aTask', aQueue', logged', q) => Waiting(sc, aTask, aQueue, logged, q)
      BY <2>1 DEF Waiting
    <3> QED BY <2>1, <3>1, <3>2 DEF SentFor
  <2> QED BY <2>1, <2>2 DEF SerialRows
<1>3. ASSUME NEW w \in Workers, NEW r \in Entries, Accounting(sc)!TakeAppend(w, r)
      PROVE  SerialRows(sc)'
  <2> DEFINE n == [op |-> "append", row |-> r]
  <2>1. /\ n.op = "append" /\ n.row = r /\ n \in Accounting(sc)!Task
        /\ NoneUnsent(sc, n) /\ \A q : Appends(sc, n, q) <=> q = r
    BY DEF NoneUnsent, Appends, Accounting!Task
  <2> HIDE DEF n
  <2>2. /\ Accounting(sc)!Goes(w, n) /\ r \in aQueue /\ aQueue' = aQueue \ {r}
        /\ UNCHANGED <<file, logged, aSent, gone, aFaults>>
    BY <1>3 DEF Accounting!TakeAppend, Accounting!ghosts, n
  <2>3. \A v \in Workers : aTask[v] = Accounting(sc)!Idle
    BY <1>3, TasksBeginAlone DEF Accounting!TakeAppend
  <2>4. aTask'[w] = n /\ \A v \in Workers \ {w} : aTask'[v] = Accounting(sc)!Idle
    BY <2>1, <2>2, <2>3, TaskGoes DEF RowInv
  <2>5. \A q \in Entries :
           SentFor(sc, aSent[q], aFaults, q \in file, aTask[w].op = "erase",
                   q \in aQueue \/ q \notin logged \/ Appends(sc, aTask[w], q)) =>
           SentFor(sc, aSent'[q], aFaults', q \in file', n.op = "erase",
                   q \in aQueue' \/ q \notin logged' \/ Appends(sc, n, q))
    BY <1>0, <2>1, <2>2, <2>3 DEF SentFor
  <2> QED BY <2>1, <2>2, <2>3, <2>4, <2>5, SerialGoes DEF SerialRows
<1>4. ASSUME NEW w \in Workers, Accounting(sc)!Append(w)
      PROVE  SerialRows(sc)'
  <2>1. /\ aTask[w].op = "append" /\ file' = file \cup {aTask[w].row}
        /\ UNCHANGED <<aQueue, logged, aSent, gone, aFaults>>
        /\ \A v \in Workers \ {w} : aTask[v] = Accounting(sc)!Idle
    BY <1>0, <1>4, <1>a DEF Accounting!Append, Accounting!ghosts
  <2>2. aTask'[w] = Accounting(sc)!Idle /\ \A v \in Workers \ {w} : aTask'[v] = Accounting(sc)!Idle
    <3>1. \A v \in Workers \ {w} : v \notin Accounting(sc)!Erasing
      BY <1>0, <2>1 DEF Accounting!Erasing
    <3> QED BY <1>4, <2>1, <3>1 DEF Accounting!Append
  <2>3. Appends(sc, aTask[w], aTask[w].row)
    BY <2>1 DEF Appends
  <2>4. ASSUME NEW q \in Entries,
           SentFor(sc, aSent[q], aFaults, q \in file, aTask[w].op = "erase",
                   q \in aQueue \/ q \notin logged \/ Appends(sc, aTask[w], q))
        PROVE
           SentFor(sc, aSent'[q], aFaults', q \in file', Accounting(sc)!Idle.op = "erase",
                   q \in aQueue' \/ q \notin logged' \/ Appends(sc, Accounting(sc)!Idle, q))
    <3>1. CASE q = aTask[w].row
      <4>1. aSent[q] = 0
        BY <2>3, <2>4, <3>1 DEF SentFor
      <4> QED BY <1>0, <2>1, <4>1 DEF SentFor
    <3>2. CASE q # aTask[w].row
      BY <1>0, <1>c, <2>1, <2>4, <3>2 DEF SentFor
    <3> QED BY <3>1, <3>2
  <2> QED BY <1>c, <2>1, <2>2, <2>4, SerialGoes DEF SerialRows
<1>5. ASSUME NEW w \in Workers, Accounting(sc)!TakeUpload(w)
      PROVE  SerialRows(sc)'
  <2> DEFINE n == IF file = {} THEN [op |-> "erase", unsent |-> {}] ELSE [op |-> "stor", name |-> aClock]
  <2>1. /\ NoneUnsent(sc, n) /\ (n.op = "erase" => file = {}) /\ (\A q : ~Appends(sc, n, q)) /\ n \in Accounting(sc)!Task
    BY DEF NoneUnsent, Appends, RowInv, Accounting!TypeOK, Accounting!Task
  <2> HIDE DEF n
  <2>2. Accounting(sc)!Goes(w, n) /\ UNCHANGED <<aQueue, file, logged, aSent, gone, aFaults>>
    BY <1>5 DEF Accounting!TakeUpload, Accounting!ghosts, n
  <2>3. \A v \in Workers : aTask[v] = Accounting(sc)!Idle
    BY <1>5, TasksBeginAlone DEF Accounting!TakeUpload
  <2>4. aTask'[w] = n /\ \A v \in Workers \ {w} : aTask'[v] = Accounting(sc)!Idle
    BY <2>1, <2>2, <2>3, TaskGoes DEF RowInv
  <2>5. \A q \in Entries :
           SentFor(sc, aSent[q], aFaults, q \in file, aTask[w].op = "erase",
                   q \in aQueue \/ q \notin logged \/ Appends(sc, aTask[w], q)) =>
           SentFor(sc, aSent'[q], aFaults', q \in file', n.op = "erase",
                   q \in aQueue' \/ q \notin logged' \/ Appends(sc, n, q))
    BY <1>0, <2>1, <2>2, <2>3 DEF SentFor
  <2> QED BY <2>1, <2>2, <2>3, <2>4, <2>5, SerialGoes DEF SerialRows
<1>6. ASSUME NEW w \in Workers, Accounting(sc)!Stor(w)
      PROVE  SerialRows(sc)'
  <2> DEFINE n == [op |-> "erase", unsent |-> {}]
  <2>1. n.op = "erase" /\ NoneUnsent(sc, n) /\ (\A q : ~Appends(sc, n, q)) /\ n \in Accounting(sc)!Task
    BY DEF NoneUnsent, Appends, Accounting!Task
  <2> HIDE DEF n
  <2>2. /\ Accounting(sc)!Goes(w, n) /\ aTask[w].op = "stor" /\ Accounting(sc)!Store(aTask[w].name, file)
        /\ UNCHANGED <<aQueue, file, logged, aFaults>>
    BY <1>6 DEF Accounting!Stor, n
  <2>3. \A v \in Workers \ {w} : aTask[v] = Accounting(sc)!Idle
    BY <1>0, <1>a, <2>2
  <2>4. aTask'[w] = n /\ \A v \in Workers \ {w} : aTask'[v] = Accounting(sc)!Idle
    BY <2>1, <2>2, <2>3, TaskGoes DEF RowInv
  <2>5. ASSUME NEW q \in Entries,
           SentFor(sc, aSent[q], aFaults, q \in file, aTask[w].op = "erase",
                   q \in aQueue \/ q \notin logged \/ Appends(sc, aTask[w], q))
        PROVE
           SentFor(sc, aSent'[q], aFaults', q \in file', n.op = "erase",
                   q \in aQueue' \/ q \notin logged' \/ Appends(sc, n, q))
    <3>1. aSent'[q] = IF q \in file THEN aSent[q] + 1 ELSE aSent[q]
      BY <1>d, <2>2
    <3>2. /\ aSent[q] <= 1 + aFaults /\ (q \in file => aSent[q] <= aFaults)
          /\ (q \in aQueue \/ q \notin logged) => aSent[q] = 0
      BY <2>2, <2>5 DEF SentFor
    <3>3. /\ aSent'[q] <= 1 + aFaults
          /\ (q \in aQueue \/ q \notin logged) => aSent'[q] = 0
      BY <1>0, <1>b, <3>1, <3>2
    <3> QED BY <2>1, <2>2, <3>3 DEF SentFor
  <2>6. gone'["unsent"] = {}
    BY <1>d, <2>2 DEF SerialRows
  <2> QED BY <2>1, <2>3, <2>4, <2>5, <2>6, SerialGoes
<1>7. ASSUME NEW w \in Workers, Accounting(sc)!StorFails(w)
      PROVE  SerialRows(sc)'
  <2>1. /\ Accounting(sc)!Goes(w, Accounting(sc)!Idle) /\ aTask[w].op = "stor" /\ aFaults' = aFaults + 1
        /\ UNCHANGED <<aQueue, file, logged>>
    BY <1>7 DEF Accounting!StorFails, Accounting!Fault
  <2>2. \A v \in Workers \ {w} : aTask[v] = Accounting(sc)!Idle
    BY <1>0, <1>a, <2>1
  <2>3. aTask'[w] = Accounting(sc)!Idle /\ \A v \in Workers \ {w} : aTask'[v] = Accounting(sc)!Idle
    BY <2>1, <2>2 DEF Accounting!Goes, RowInv, Accounting!TypeOK
  <2>4. PICK part \in SUBSET file :
          /\ gone'["unsent"] = gone["unsent"]
          /\ \A r \in Entries : aSent'[r] = IF r \in part THEN aSent[r] + 1 ELSE aSent[r]
    <3>1. CASE \E part \in SUBSET file : Accounting(sc)!Store(aTask[w].name, part)
      <4>1. PICK part \in SUBSET file : Accounting(sc)!Store(aTask[w].name, part)
        BY <3>1
      <4> QED BY <1>d, <4>1
    <3>2. CASE UNCHANGED <<aRemote, aSent, gone>>
      <4>1. {} \in SUBSET file
        OBVIOUS
      <4> QED BY <3>2, <4>1
    <3> QED BY <1>7, <3>1, <3>2 DEF Accounting!StorFails
  <2>5. ASSUME NEW q \in Entries,
           SentFor(sc, aSent[q], aFaults, q \in file, aTask[w].op = "erase",
                   q \in aQueue \/ q \notin logged \/ Appends(sc, aTask[w], q))
        PROVE
           SentFor(sc, aSent'[q], aFaults', q \in file', Accounting(sc)!Idle.op = "erase",
                   q \in aQueue' \/ q \notin logged' \/ Appends(sc, Accounting(sc)!Idle, q))
    <3>1. aSent'[q] = IF q \in part THEN aSent[q] + 1 ELSE aSent[q]
      BY <2>4
    <3>2. /\ aSent[q] <= 1 + aFaults /\ (q \in file => aSent[q] <= aFaults)
          /\ (q \in aQueue \/ q \notin logged) => aSent[q] = 0
      BY <2>1, <2>5 DEF SentFor
    <3>3. /\ aSent'[q] <= aFaults + 1 /\ aFaults + 1 <= 1 + (aFaults + 1)
          /\ aSent'[q] <= 1 + (aFaults + 1)
          /\ (q \in aQueue \/ q \notin logged) => aSent'[q] = 0
      BY <1>0, <1>b, <3>1, <3>2
    <3> QED BY <1>c, <2>1, <3>3 DEF SentFor
  <2>6. gone'["unsent"] = {}
    BY <2>4 DEF SerialRows
  <2> QED BY <1>c, <2>2, <2>3, <2>5, <2>6, SerialGoes
<1>8. ASSUME NEW w \in Workers, Accounting(sc)!Erase(w)
      PROVE  SerialRows(sc)'
  <2>1. /\ Accounting(sc)!Goes(w, Accounting(sc)!Idle) /\ aTask[w].op = "erase" /\ file' = {}
        /\ UNCHANGED <<aQueue, logged, aSent, aFaults>>
        /\ gone' = [gone EXCEPT !["unsent"] = @ \cup (aTask[w].unsent \cap file)]
    BY <1>8 DEF Accounting!Erase, Accounting!Lose
  <2>2. \A v \in Workers \ {w} : aTask[v] = Accounting(sc)!Idle
    BY <1>0, <1>a, <2>1
  <2>3. aTask'[w] = Accounting(sc)!Idle /\ \A v \in Workers \ {w} : aTask'[v] = Accounting(sc)!Idle
    BY <2>1, <2>2 DEF Accounting!Goes, RowInv, Accounting!TypeOK
  <2>4. gone'["unsent"] = {}
    <3>1. aTask[w].unsent = {} /\ gone["unsent"] = {}
      BY <2>1 DEF SerialRows, NoneUnsent
    <3> QED BY <1>0, <2>1, <3>1 DEF LossReasons
  <2>5. \A q \in Entries :
           SentFor(sc, aSent[q], aFaults, q \in file, aTask[w].op = "erase",
                   q \in aQueue \/ q \notin logged \/ Appends(sc, aTask[w], q)) =>
           SentFor(sc, aSent'[q], aFaults', q \in file', Accounting(sc)!Idle.op = "erase",
                   q \in aQueue' \/ q \notin logged' \/ Appends(sc, Accounting(sc)!Idle, q))
    BY <1>c, <2>1 DEF SentFor
  <2> QED BY <1>c, <2>2, <2>3, <2>4, <2>5, SerialGoes
<1>9. ASSUME NEW w \in Workers, Accounting(sc)!Die(w)
      PROVE  SerialRows(sc)'
  <2>1. /\ Accounting(sc)!Goes(w, Accounting(sc)!Idle) /\ aTask[w] # Accounting(sc)!Idle /\ aFaults' = aFaults + 1
        /\ UNCHANGED <<aQueue, file, logged, aSent>>
        /\ gone'["unsent"] = gone["unsent"]
    BY <1>0, <1>9 DEF Accounting!Die, Accounting!Fault, Accounting!Lose, LossReasons
  <2>2. \A v \in Workers \ {w} : aTask[v] = Accounting(sc)!Idle
    BY <1>0, <1>a, <2>1
  <2>3. aTask'[w] = Accounting(sc)!Idle /\ \A v \in Workers \ {w} : aTask'[v] = Accounting(sc)!Idle
    BY <2>1, <2>2 DEF Accounting!Goes, RowInv, Accounting!TypeOK
  <2>4. \A q \in Entries :
           SentFor(sc, aSent[q], aFaults, q \in file, aTask[w].op = "erase",
                   q \in aQueue \/ q \notin logged \/ Appends(sc, aTask[w], q)) =>
           SentFor(sc, aSent'[q], aFaults', q \in file', Accounting(sc)!Idle.op = "erase",
                   q \in aQueue' \/ q \notin logged' \/ Appends(sc, Accounting(sc)!Idle, q))
    BY <1>0, <1>b, <1>c, <2>1 DEF SentFor
  <2> QED BY <1>c, <2>1, <2>2, <2>3, <2>4, SerialGoes DEF SerialRows
<1> QED BY <1>1, <1>2, <1>3, <1>4, <1>5, <1>6, <1>7, <1>8, <1>9 DEF Accounting!Next, Accounting!Take,
           Accounting!Step

LEMMA SerialRowsSay ==
  ASSUME NEW sc \in AaaScenes, SerialRows(sc)
  PROVE  Accounting(sc)!SentOnce
BY DEF SerialRows, SentFor, Accounting!SentOnce

-----------------------------------------------------------------------------
(* Events. *)

(* A waiting task, a running one and a file, each of o, of second s and version n. *)
Note(sc, o, s, n, e) == [n |-> n, op |-> IF e THEN "stop" ELSE "update", o |-> o, at |-> s]
EventSent(sc, o, s, n, e) == [op |-> "send", o |-> o, v |-> n, end |-> e, at |-> s]
Filed(sc, o, n, e) == [o |-> o, v |-> n, end |-> e]

OfTask(sc, t, o) == t.op = "send" /\ t.o = o
Has(sc, R, o, z) == R[<<Kind[sc][o], z>>] # Events(sc)!NoFile /\ R[<<Kind[sc][o], z>>].o = o

Queued(sc, t, o, s, n) == t.o = o => t.at <= s /\ t.n <= n
Ran(sc, t, o, s, n) == OfTask(sc, t, o) => t.at <= s /\ t.v <= n
Wrote(sc, R, o, z, s, n) == Has(sc, R, o, z) => z <= s /\ R[<<Kind[sc][o], z>>].v <= n
(* Nothing of o is later than the second s or newer than version n. *)
Within(sc, Q, T, R, o, s, n) ==
  /\ \A t \in Q : Queued(sc, t, o, s, n)
  /\ \A w \in Workers : Ran(sc, T[w], o, s, n)
  /\ \A z \in Events(sc)!Seconds : Wrote(sc, R, o, z, s, n)
(* Nothing tells of an end of o. *)
NoEnd(sc, Q, T, R, o) ==
  /\ \A t \in Q : t.o = o => t.op = "update"
  /\ \A w \in Workers : OfTask(sc, T[w], o) => ~T[w].end
  /\ \A z \in Events(sc)!Seconds : Has(sc, R, o, z) => ~R[<<Kind[sc][o], z>>].end
(* Version n of o, or its end, is queued, on its way or filed at second s. *)
Carried(sc, Q, T, R, o, s, n, e) ==
  \/ Note(sc, o, s, n, e) \in Q
  \/ \E w \in Workers : T[w] = EventSent(sc, o, s, n, e)
  \/ R[<<Kind[sc][o], s>>] = Filed(sc, o, n, e)

(* What holds of the object o, whose row is r and whose end was queued at en. *)
Alive(sc, Q, T, R, c, r, en, o) ==
  ~r.removed => Within(sc, Q, T, R, o, c, r.v) /\ NoEnd(sc, Q, T, R, o) /\ en = 0
Live(sc, Q, T, R, r, S, o) ==
  r.v > 0 /\ Events(sc)!Tells(o, r) /\ o \notin S \cup Events(sc)!Leases =>
    \E s \in Events(sc)!Seconds : Within(sc, Q, T, R, o, s, r.v) /\ Carried(sc, Q, T, R, o, s, r.v, FALSE)
Dead(sc, Q, T, R, en, S, o) ==
  en > 0 /\ o \notin S =>
    \E n \in Events(sc)!Version : Within(sc, Q, T, R, o, en, n) /\ Carried(sc, Q, T, R, o, en, n, TRUE)
RowOf(sc, r, sv) == r.v <= sv /\ (r.removed => r.v = 0)

EventInv(sc) == \A o \in Objects[sc] :
  /\ RowOf(sc, row[o], saves)
  /\ Alive(sc, queue, task, remote, clock, row[o], ended[o], o)
  /\ Live(sc, queue, task, remote, row[o], spoilt, o)
  /\ Dead(sc, queue, task, remote, ended[o], spoilt, o)

LEMMA EventTypes ==
  ASSUME NEW sc \in EventScenes, Events(sc)!EventBoundAssumption, Events(sc)!TypeOK
  PROVE  /\ \A o \in Objects[sc] : row[o].v \in Nat /\ row[o].v \in Events(sc)!Version /\ row[o].place \in BOOLEAN /\ row[o].removed \in BOOLEAN
         /\ clock \in Nat /\ clock \in Events(sc)!Seconds /\ saves \in Nat
         /\ \A o \in Objects[sc] : ended[o] \in Nat /\ ended[o] <= clock
         /\ \A t \in queue : t.o \in Objects[sc] /\ t.n \in Events(sc)!Version /\ t.at \in Events(sc)!Seconds /\ t.at <= clock
         /\ Events(sc)!Seconds \subseteq Nat /\ Events(sc)!Version \subseteq Nat
<1>1. Events(sc)!Seconds \subseteq Nat /\ Events(sc)!Version \subseteq Nat
  BY DEF Events!EventBoundAssumption, Events!Seconds, Events!Version
<1>2. \A o \in Objects[sc] : row[o].v \in Events(sc)!Version /\ row[o].place \in BOOLEAN /\ row[o].removed \in BOOLEAN
  BY DEF Events!TypeOK
<1>3. clock \in Events(sc)!Seconds /\ saves \in Events(sc)!Version
  BY DEF Events!TypeOK
<1>4. \A o \in Objects[sc] : ended[o] \in Nat /\ ended[o] <= clock
  <2>1. clock \in Nat
    BY <1>1, <1>3
  <2>2. ended \in [Objects[sc] -> 0 .. clock]
    BY DEF Events!TypeOK
  <2> QED BY <2>1, <2>2
<1>5. \A t \in queue : t.o \in Objects[sc] /\ t.n \in Events(sc)!Version /\ t.at \in Events(sc)!Seconds /\ t.at <= clock
  BY DEF Events!TypeOK
<1>6. \A o \in Objects[sc] : row[o].v \in Nat
  BY <1>1, <1>2
<1>7. clock \in Nat /\ saves \in Nat
  BY <1>1, <1>3
<1> QED BY <1>1, <1>2, <1>3, <1>4, <1>5, <1>6, <1>7

TaskOf(sc) == [op : {"send"}, o : Objects[sc], v : Events(sc)!Version, end : BOOLEAN, at : Events(sc)!Seconds]
FileOf(sc) == [o : Objects[sc], v : Events(sc)!Version, end : BOOLEAN]
LEMMA TasksAre ==
  ASSUME NEW sc \in EventScenes, Events(sc)!TypeOK, NEW w \in Workers
  PROVE  /\ task[w] = Events(sc)!Idle \/ task[w] \in TaskOf(sc)
         /\ task[w].op = "send" => task[w] \in TaskOf(sc)
         /\ task[w] \in TaskOf(sc) => task[w] # Events(sc)!Idle /\ task[w].op = "send"
         /\ \A o : ~OfTask(sc, Events(sc)!Idle, o)
<1>1. task[w] = Events(sc)!Idle \/ task[w] \in TaskOf(sc)
  BY DEF Events!TypeOK, TaskOf
<1>2. \A t \in TaskOf(sc) : t # Events(sc)!Idle /\ t.op = "send"
  BY DEF Events!Idle, TaskOf
<1>3. Events(sc)!Idle.op = "idle"
  BY DEF Events!Idle
<1> QED BY <1>1, <1>2, <1>3 DEF OfTask

(* A notice, a running task and a file are what they are called. *)
LEMMA NoteFields ==
  ASSUME NEW sc \in EventScenes, NEW o, NEW s, NEW n, NEW e \in BOOLEAN
  PROVE  /\ OfTask(sc, EventSent(sc, o, s, n, e), o) /\ \A p : OfTask(sc, EventSent(sc, o, s, n, e), p) => p = o
         /\ EventSent(sc, o, s, n, e).o = o /\ EventSent(sc, o, s, n, e).at = s /\ EventSent(sc, o, s, n, e).v = n /\ EventSent(sc, o, s, n, e).end = e
         /\ Note(sc, o, s, n, e).o = o /\ Note(sc, o, s, n, e).at = s /\ Note(sc, o, s, n, e).n = n
         /\ Note(sc, o, s, n, e).op = (IF e THEN "stop" ELSE "update")
         <1>1. OfTask(sc, EventSent(sc, o, s, n, e), o) /\ \A p : OfTask(sc, EventSent(sc, o, s, n, e), p) => p = o
  BY DEF OfTask, EventSent
<1>2. EventSent(sc, o, s, n, e).o = o /\ EventSent(sc, o, s, n, e).at = s /\ EventSent(sc, o, s, n, e).v = n /\ EventSent(sc, o, s, n, e).end = e
  BY DEF EventSent
<1>3. /\ Note(sc, o, s, n, e).o = o /\ Note(sc, o, s, n, e).at = s /\ Note(sc, o, s, n, e).n = n
      /\ Note(sc, o, s, n, e).op = (IF e THEN "stop" ELSE "update")
  BY DEF Note
<1> QED BY <1>1, <1>2, <1>3

LEMMA FileFields ==
  ASSUME NEW sc \in EventScenes, NEW o, NEW n, NEW e
  PROVE  Filed(sc, o, n, e).o = o /\ Filed(sc, o, n, e).v = n /\ Filed(sc, o, n, e).end = e /\ Filed(sc, o, n, e) # Events(sc)!NoFile
<1>1. Filed(sc, o, n, e).o = o /\ Filed(sc, o, n, e).v = n /\ Filed(sc, o, n, e).end = e
  BY DEF Filed
<1>2. Filed(sc, o, n, e) # Events(sc)!NoFile
  BY DEF Filed, Events!NoFile
<1> QED BY <1>1, <1>2

(* Later seconds and newer versions bound as well. *)
LEMMA WithinGrows ==
  ASSUME NEW sc \in EventScenes, NEW Q,
         Q \subseteq [n : Events(sc)!Version, op : {"update", "stop"}, o : Objects[sc], at : Events(sc)!Seconds],
         NEW T \in [Workers -> {Events(sc)!Idle} \cup TaskOf(sc)], NEW R \in [Events(sc)!Files -> {Events(sc)!NoFile} \cup FileOf(sc)],
         Events(sc)!EventBoundAssumption, Events(sc)!KindAssumption, NEW o \in Objects[sc],
         NEW s \in Nat, NEW u \in Nat, NEW n \in Nat, NEW m \in Nat, s <= u, n <= m,
         Within(sc, Q, T, R, o, s, n)
  PROVE  Within(sc, Q, T, R, o, u, m)
<1>0. Events(sc)!Seconds \subseteq Nat /\ Events(sc)!Version \subseteq Nat
  BY DEF Events!EventBoundAssumption, Events!Seconds, Events!Version
<1>1. ASSUME NEW t \in Q PROVE Queued(sc, t, o, u, m)
  <2>1. Queued(sc, t, o, s, n) /\ t.at \in Nat /\ t.n \in Nat
    BY <1>0 DEF Within
  <2> QED BY <2>1 DEF Queued
<1>2. ASSUME NEW w \in Workers PROVE Ran(sc, T[w], o, u, m)
  <2>1. Ran(sc, T[w], o, s, n)
    BY DEF Within
  <2>2. OfTask(sc, T[w], o) => T[w].at \in Nat /\ T[w].v \in Nat
    <3>1. T[w] = Events(sc)!Idle \/ T[w] \in TaskOf(sc)
      OBVIOUS
    <3>2. ~OfTask(sc, Events(sc)!Idle, o)
      BY DEF OfTask, Events!Idle
    <3>3. \A x \in TaskOf(sc) : x.at \in Nat /\ x.v \in Nat
      BY <1>0 DEF TaskOf
    <3> QED BY <3>1, <3>2, <3>3
  <2> QED BY <2>1, <2>2 DEF Ran
<1>3. ASSUME NEW z \in Events(sc)!Seconds PROVE Wrote(sc, R, o, z, u, m)
  <2> DEFINE f == <<Kind[sc][o], z>>
  <2>1. Wrote(sc, R, o, z, s, n)
    BY DEF Within
  <2>2. f \in Events(sc)!Files
    BY DEF Events!KindAssumption, Events!Files, Events!Seconds
  <2>3. R[f] = Events(sc)!NoFile \/ R[f].v \in Nat
    <3>1. \A x \in FileOf(sc) : x.v \in Nat
      BY <1>0 DEF FileOf
    <3> QED BY <2>2, <3>1
  <2>4. z \in Nat
    BY <1>0
  <2> QED BY <2>1, <2>3, <2>4 DEF Wrote, Has
<1> QED BY <1>1, <1>2, <1>3 DEF Within

QueueOf(sc) == [n : Events(sc)!Version, op : {"update", "stop"}, o : Objects[sc], at : Events(sc)!Seconds]
LEMMA EventTaskGoes ==
  ASSUME NEW sc \in EventScenes, Events(sc)!TypeOK, NEW w \in Workers,
         NEW n \in {Events(sc)!Idle} \cup TaskOf(sc), Events(sc)!Goes(w, n)
  PROVE  /\ task' \in [Workers -> {Events(sc)!Idle} \cup TaskOf(sc)] /\ task'[w] = n
         /\ \A v \in Workers \ {w} : task'[v] = task[v]
BY DEF Events!TypeOK, Events!Goes, TaskOf

LEMMA EventTypeStep ==
  ASSUME NEW sc \in EventScenes, Events(sc)!KindAssumption, Events(sc)!EventBoundAssumption,
         Events(sc)!TypeOK, [Events(sc)!Next]_(Events(sc)!vars)
  PROVE  Events(sc)!TypeOK'
<1>0. /\ row \in [Objects[sc] -> [v : Events(sc)!Version, place : BOOLEAN, removed : BOOLEAN]]
      /\ queue \subseteq QueueOf(sc)
      /\ task \in [Workers -> {Events(sc)!Idle} \cup TaskOf(sc)]
      /\ remote \in [Events(sc)!Files -> {Events(sc)!NoFile} \cup FileOf(sc)]
      /\ clock \in Events(sc)!Seconds /\ saves \in Events(sc)!Version /\ faults \in 0 .. EventFaults
      /\ ended \in [Objects[sc] -> 0 .. clock] /\ spoilt \subseteq Objects[sc]
      /\ \A t \in queue : t.at <= clock
  BY DEF Events!TypeOK, QueueOf, TaskOf, FileOf
<1>a. clock \in Nat /\ saves \in Nat /\ EventSaves \in Nat /\ EventSeconds[sc] \in Nat
  BY EventTypes DEF Events!EventBoundAssumption
<1>b. ASSUME NEW w \in Workers, NEW n \in {Events(sc)!Idle} \cup TaskOf(sc), Events(sc)!Goes(w, n)
      PROVE  task' \in [Workers -> {Events(sc)!Idle} \cup TaskOf(sc)]
  BY <1>b, EventTaskGoes
<1>c. Events(sc)!Idle \in {Events(sc)!Idle} \cup TaskOf(sc)
  OBVIOUS
<1>1. CASE Events(sc)!Tick
  <2>1. clock' = clock + 1 /\ clock' \in Events(sc)!Seconds
    BY <1>0, <1>a, <1>1 DEF Events!Tick, Events!Seconds
  <2>2. ASSUME NEW t \in queue PROVE t.at <= clock'
    <3>1. t.at \in Nat /\ t.at <= clock
      BY EventTypes
    <3> QED BY <1>a, <2>1, <3>1
  <2>3. ended \in [Objects[sc] -> 0 .. clock']
    BY <1>0, <1>a, <2>1
  <2> QED BY <1>0, <1>1, <2>1, <2>2, <2>3 DEF Events!Tick, Events!TypeOK, QueueOf, TaskOf, FileOf
<1>2. ASSUME NEW o \in Objects[sc], Events(sc)!LoseAddress(o) PROVE Events(sc)!TypeOK'
  <2>1. row' \in [Objects[sc] -> [v : Events(sc)!Version, place : BOOLEAN, removed : BOOLEAN]]
    BY <1>0, <1>2 DEF Events!LoseAddress
  <2> QED BY <1>0, <1>2, <2>1 DEF Events!LoseAddress, Events!TypeOK, QueueOf, TaskOf, FileOf
<1>3. ASSUME NEW objects \in SUBSET Objects[sc], Events(sc)!Remove(objects) PROVE Events(sc)!TypeOK'
  <2> DEFINE told == {o \in objects : Events(sc)!Tells(o, row[o])}
             new == {[n |-> row[o].v, op |-> "stop", o |-> o, at |-> clock] : o \in told}
  <2>1. /\ row' = [o \in Objects[sc] |-> IF o \in objects THEN Events(sc)!Removed ELSE row[o]]
        /\ queue' = queue \cup new
        /\ ended' = [o \in Objects[sc] |-> IF o \in told THEN clock ELSE ended[o]]
        /\ UNCHANGED <<task, remote, clock, saves, spoilt, faults>>
    BY <1>3 DEF Events!Remove
  <2>2. \A t \in new : t \in QueueOf(sc) /\ t.at = clock
    <3> SUFFICES ASSUME NEW o \in told
                 PROVE  /\ [n |-> row[o].v, op |-> "stop", o |-> o, at |-> clock] \in QueueOf(sc)
                        /\ [n |-> row[o].v, op |-> "stop", o |-> o, at |-> clock].at = clock
      OBVIOUS
    <3>1. o \in Objects[sc] /\ row[o].v \in Events(sc)!Version
      BY EventTypes
    <3> QED BY <1>0, <3>1 DEF QueueOf
  <2> HIDE DEF told, new
  <2>3. queue' \subseteq QueueOf(sc) /\ \A t \in queue' : t.at <= clock
    BY <1>0, <1>a, <2>1, <2>2
  <2>4. Events(sc)!Removed \in [v : Events(sc)!Version, place : BOOLEAN, removed : BOOLEAN]
    BY <1>a DEF Events!Removed, Events!Version
  <2>5. row' \in [Objects[sc] -> [v : Events(sc)!Version, place : BOOLEAN, removed : BOOLEAN]]
    BY <1>0, <2>1, <2>4
  <2>6. ended' \in [Objects[sc] -> 0 .. clock]
    BY <1>0, <1>a, <2>1
  <2> QED BY <1>0, <2>1, <2>3, <2>5, <2>6 DEF Events!TypeOK, QueueOf, TaskOf, FileOf
<1>4. ASSUME NEW o \in Objects[sc], NEW place \in BOOLEAN, Events(sc)!Save(o, place) PROVE Events(sc)!TypeOK'
  <2> DEFINE r == [v |-> saves + 1, place |-> place, removed |-> FALSE]
             q == [n |-> saves + 1, op |-> "update", o |-> o, at |-> clock]
  <2>1. /\ saves < EventSaves /\ saves' = saves + 1 /\ row' = [row EXCEPT ![o] = r]
        /\ queue' = queue \/ queue' = queue \cup {q}
        /\ UNCHANGED <<task, remote, clock, ended, spoilt, faults>>
    BY <1>4 DEF Events!Save
  <2>2. saves + 1 \in Events(sc)!Version
    BY <1>a, <2>1 DEF Events!Version
  <2>3. r \in [v : Events(sc)!Version, place : BOOLEAN, removed : BOOLEAN]
    BY <2>2
  <2>4. q \in QueueOf(sc) /\ q.at = clock
    BY <1>0, <2>2 DEF QueueOf
  <2> HIDE DEF r, q
  <2>5. queue' \subseteq QueueOf(sc) /\ \A t \in queue' : t.at <= clock
    BY <1>0, <1>a, <2>1, <2>4
  <2>6. row' \in [Objects[sc] -> [v : Events(sc)!Version, place : BOOLEAN, removed : BOOLEAN]]
    BY <1>0, <2>1, <2>3
  <2> QED BY <1>0, <2>1, <2>2, <2>5, <2>6 DEF Events!TypeOK, QueueOf, TaskOf, FileOf
<1>5. ASSUME NEW w \in Workers, NEW t \in queue, Events(sc)!TakeUpdate(w, t) \/ Events(sc)!TakeStop(w, t) PROVE Events(sc)!TypeOK'
  <2>1. t.o \in Objects[sc] /\ t.n \in Events(sc)!Version /\ t.at \in Events(sc)!Seconds /\ row[t.o].v \in Events(sc)!Version
    BY EventTypes
  <2>2. PICK n \in {Events(sc)!Idle} \cup TaskOf(sc) : Events(sc)!Goes(w, n)
    <3>1. /\ [op |-> "send", o |-> t.o, v |-> row[t.o].v, end |-> FALSE, at |-> t.at] \in TaskOf(sc)
          /\ [op |-> "send", o |-> t.o, v |-> t.n, end |-> TRUE, at |-> t.at] \in TaskOf(sc)
      BY <2>1 DEF TaskOf
    <3> QED BY <1>5, <3>1 DEF Events!TakeUpdate, Events!TakeStop
  <2>3. task' \in [Workers -> {Events(sc)!Idle} \cup TaskOf(sc)]
    BY <1>b, <2>2
  <2>4. queue' \subseteq queue /\ UNCHANGED <<row, remote, clock, saves, ended, spoilt, faults>>
    BY <1>5 DEF Events!TakeUpdate, Events!TakeStop
  <2> QED BY <1>0, <2>3, <2>4 DEF Events!TypeOK, QueueOf, TaskOf, FileOf
<1>6. ASSUME NEW w \in Workers, Events(sc)!Stor(w) PROVE Events(sc)!TypeOK'
  <2> DEFINE r == task[w]
             f == <<Kind[sc][r.o], r.at>>
             rec == [o |-> r.o, v |-> r.v, end |-> r.end]
  <2>1. r \in TaskOf(sc)
    BY <1>6, TasksAre DEF Events!Stor
  <2>2. r.o \in Objects[sc] /\ r.at \in Events(sc)!Seconds /\ rec \in FileOf(sc)
    BY <2>1 DEF TaskOf, FileOf
  <2>3. f \in Events(sc)!Files
    BY <2>2 DEF Events!KindAssumption, Events!Files, Events!Seconds
  <2>4. /\ remote' = [remote EXCEPT ![f] = rec]
        /\ Events(sc)!Goes(w, Events(sc)!Idle) /\ UNCHANGED <<row, queue, clock, saves, ended, faults>>
        /\ spoilt' = spoilt \cup (IF remote[f] = Events(sc)!NoFile \/ (remote[f].o = r.o /\ Events(sc)!Older(remote[f], r)) THEN {} ELSE {remote[f].o})
    BY <1>6 DEF Events!Stor, Events!Spoil
  <2>5. remote[f] # Events(sc)!NoFile => remote[f].o \in Objects[sc]
    BY <1>0, <2>3 DEF FileOf
  <2> HIDE DEF f, r, rec
  <2>6. remote' \in [Events(sc)!Files -> {Events(sc)!NoFile} \cup FileOf(sc)]
    BY <1>0, <2>2, <2>4
  <2>7. spoilt' \subseteq Objects[sc]
    BY <1>0, <2>4, <2>5
  <2>8. task' \in [Workers -> {Events(sc)!Idle} \cup TaskOf(sc)]
    BY <1>b, <1>c, <2>4
  <2> QED BY <1>0, <2>4, <2>6, <2>7, <2>8 DEF Events!TypeOK, QueueOf, TaskOf, FileOf
<1>7. ASSUME NEW w \in Workers, Events(sc)!StorFails(w) PROVE Events(sc)!TypeOK'
  <2>1. task[w] \in TaskOf(sc)
    BY <1>7, TasksAre DEF Events!StorFails
  <2>2. task[w].o \in Objects[sc]
    BY <2>1 DEF TaskOf
  <2>3. task' \in [Workers -> {Events(sc)!Idle} \cup TaskOf(sc)]
    BY <1>7, <1>b, <1>c DEF Events!StorFails
  <2>4. faults' \in 0 .. EventFaults
    BY <1>0, <1>7 DEF Events!StorFails, Events!Fault, Events!EventBoundAssumption
  <2> QED BY <1>0, <1>7, <2>2, <2>3, <2>4 DEF Events!StorFails, Events!Spoil, Events!TypeOK, QueueOf,
             TaskOf, FileOf
<1>8. CASE UNCHANGED Events(sc)!vars
  BY <1>0, <1>8 DEF Events!vars, Events!TypeOK, QueueOf, TaskOf, FileOf
<1>9. Events(sc)!Leases \subseteq Objects[sc] /\ \A o \in Objects[sc] : {o} \in SUBSET Objects[sc]
  BY DEF Events!Leases
<1> QED BY <1>1, <1>2, <1>3, <1>4, <1>5, <1>6, <1>7, <1>8, <1>9 DEF Events!Next, Events!Take

(* Whose record must be there: of an object that is told of, the last save,
   and of a removed one its end. *)
Due(sc, r, Q, T, R, o, n, e) ==
  \/ e = TRUE /\ r.removed
  \/ /\ e = FALSE /\ ~r.removed /\ n = r.v /\ r.v > 0 /\ Events(sc)!Tells(o, r) /\ o \notin Events(sc)!Leases
     /\ NoEnd(sc, Q, T, R, o)

(* A step that leaves the row of o and its end as they are. *)
LEMMA SameObject ==
  ASSUME NEW sc \in EventScenes, Events(sc)!EventBoundAssumption, Events(sc)!TypeOK, Events(sc)!TypeOK',
         NEW o \in Objects[sc], EventInv(sc),
         row'[o] = row[o], ended'[o] = ended[o], saves' >= saves, spoilt \subseteq spoilt',
         clock' = clock,
         NoEnd(sc, queue, task, remote, o) => NoEnd(sc, queue', task', remote', o),
         \A s \in Nat, n \in Nat :
           (Within(sc, queue, task, remote, o, s, n) /\ (~row[o].removed => n = row[o].v /\ NoEnd(sc, queue, task, remote, o))) =>
           Within(sc, queue', task', remote', o, s, n),
         \A s \in Events(sc)!Seconds, n \in Events(sc)!Version, e \in BOOLEAN :
           (o \notin spoilt' /\ Within(sc, queue, task, remote, o, s, n)
            /\ Due(sc, row[o], queue, task, remote, o, n, e) /\ Carried(sc, queue, task, remote, o, s, n, e)) =>
           Carried(sc, queue', task', remote', o, s, n, e)
  PROVE  /\ RowOf(sc, row'[o], saves')
         /\ Alive(sc, queue', task', remote', clock', row'[o], ended'[o], o)
         /\ Live(sc, queue', task', remote', row'[o], spoilt', o)
         /\ Dead(sc, queue', task', remote', ended'[o], spoilt', o)
<1> DEFINE r == row[o]
<1>0. /\ r.v \in Nat /\ r.v \in Events(sc)!Version /\ r.removed \in BOOLEAN /\ clock \in Nat /\ saves \in Nat /\ ended[o] \in Nat
      /\ Events(sc)!Seconds \subseteq Nat /\ Events(sc)!Version \subseteq Nat /\ saves' \in Nat /\ ended[o] <= clock /\ clock \in Events(sc)!Seconds
  <2>1. saves' \in Events(sc)!Version
    BY DEF Events!TypeOK
  <2> QED BY <2>1, EventTypes
<1>1. /\ RowOf(sc, r, saves)
      /\ Alive(sc, queue, task, remote, clock, r, ended[o], o)
      /\ Live(sc, queue, task, remote, r, spoilt, o)
      /\ Dead(sc, queue, task, remote, ended[o], spoilt, o)
  BY DEF EventInv
<1>2. RowOf(sc, r, saves')
  BY <1>0, <1>1 DEF RowOf
<1>3. Alive(sc, queue', task', remote', clock', r, ended[o], o)
  BY <1>0, <1>1 DEF Alive
<1>4. Live(sc, queue', task', remote', r, spoilt', o)
  <2> SUFFICES ASSUME r.v > 0, Events(sc)!Tells(o, r), o \notin spoilt', o \notin Events(sc)!Leases
               PROVE  \E s \in Events(sc)!Seconds : Within(sc, queue', task', remote', o, s, r.v) /\ Carried(sc, queue', task', remote', o, s, r.v, FALSE)
    BY DEF Live
  <2>1. PICK s \in Events(sc)!Seconds : Within(sc, queue, task, remote, o, s, r.v) /\ Carried(sc, queue, task, remote, o, s, r.v, FALSE)
    BY <1>1 DEF Live
  <2>2. ~r.removed
    BY <1>0, <1>1 DEF RowOf
  <2>3. NoEnd(sc, queue, task, remote, o)
    BY <1>1, <2>2 DEF Alive
  <2>4. Within(sc, queue', task', remote', o, s, r.v)
    BY <1>0, <2>1, <2>2, <2>3
  <2>5. Due(sc, r, queue, task, remote, o, r.v, FALSE)
    BY <2>2, <2>3 DEF Due
  <2>6. Carried(sc, queue', task', remote', o, s, r.v, FALSE)
    BY <1>0, <2>1, <2>5
  <2> QED BY <2>4, <2>6
<1>5. Dead(sc, queue', task', remote', ended[o], spoilt', o)
  <2> SUFFICES ASSUME ended[o] > 0, o \notin spoilt'
               PROVE  \E n \in Events(sc)!Version : Within(sc, queue', task', remote', o, ended[o], n) /\ Carried(sc, queue', task', remote', o, ended[o], n, TRUE)
    BY DEF Dead
  <2>1. PICK n \in Events(sc)!Version : Within(sc, queue, task, remote, o, ended[o], n) /\ Carried(sc, queue, task, remote, o, ended[o], n, TRUE)
    BY <1>1 DEF Dead
  <2>2. r.removed
    BY <1>0, <1>1 DEF Alive
  <2>3. ended[o] \in Events(sc)!Seconds
    BY <1>0 DEF Events!Seconds, Events!EventBoundAssumption
  <2>4. Within(sc, queue', task', remote', o, ended[o], n)
    BY <1>0, <2>1, <2>2
  <2>5. Due(sc, r, queue, task, remote, o, n, TRUE)
    BY <2>2 DEF Due
  <2>6. Carried(sc, queue', task', remote', o, ended[o], n, TRUE)
    BY <1>0, <2>1, <2>3, <2>5
  <2> QED BY <2>4, <2>6
<1> QED BY <1>0, <1>2, <1>3, <1>4, <1>5

(* A record of p added to the queue is not one of another object. *)
LEMMA NotOfOthers ==
  ASSUME NEW sc \in EventScenes, NEW Q, NEW T, NEW R, NEW o, NEW N, \A t \in N : t.o # o
  PROVE  /\ NoEnd(sc, Q, T, R, o) => NoEnd(sc, Q \cup N, T, R, o)
         /\ \A s, n : Within(sc, Q, T, R, o, s, n) => Within(sc, Q \cup N, T, R, o, s, n)
         /\ \A s, n, e : Carried(sc, Q, T, R, o, s, n, e) => Carried(sc, Q \cup N, T, R, o, s, n, e)
<1>1. NoEnd(sc, Q, T, R, o) => NoEnd(sc, Q \cup N, T, R, o)
  BY DEF NoEnd
<1>2. \A s, n : Within(sc, Q, T, R, o, s, n) => Within(sc, Q \cup N, T, R, o, s, n)
  BY DEF Within, Queued
<1>3. \A s, n, e : Carried(sc, Q, T, R, o, s, n, e) => Carried(sc, Q \cup N, T, R, o, s, n, e)
  BY DEF Carried
<1> QED BY <1>1, <1>2, <1>3

(* Nothing but the queue changes for o, and that only by records of others. *)
LEMMA OtherObject ==
  ASSUME NEW sc \in EventScenes, Events(sc)!EventBoundAssumption, Events(sc)!TypeOK, Events(sc)!TypeOK',
         NEW o \in Objects[sc], EventInv(sc),
         row'[o] = row[o], ended'[o] = ended[o], saves' >= saves,
         UNCHANGED <<task, remote, clock, spoilt>>,
         NEW N, queue' = queue \cup N, \A t \in N : t.o # o
  PROVE  /\ RowOf(sc, row'[o], saves')
         /\ Alive(sc, queue', task', remote', clock', row'[o], ended'[o], o)
         /\ Live(sc, queue', task', remote', row'[o], spoilt', o)
         /\ Dead(sc, queue', task', remote', ended'[o], spoilt', o)
<1>1. /\ NoEnd(sc, queue, task, remote, o) => NoEnd(sc, queue', task', remote', o)
      /\ \A s, n : Within(sc, queue, task, remote, o, s, n) => Within(sc, queue', task', remote', o, s, n)
      /\ \A s, n, e : Carried(sc, queue, task, remote, o, s, n, e) => Carried(sc, queue', task', remote', o, s, n, e)
  <2>1. /\ NoEnd(sc, queue, task, remote, o) => NoEnd(sc, queue \cup N, task, remote, o)
        /\ \A s, n : Within(sc, queue, task, remote, o, s, n) => Within(sc, queue \cup N, task, remote, o, s, n)
        /\ \A s, n, e : Carried(sc, queue, task, remote, o, s, n, e) => Carried(sc, queue \cup N, task, remote, o, s, n, e)
    BY NotOfOthers
  <2> QED BY <2>1
<1> QED BY <1>1, SameObject

LEMMA TickEvents ==
  ASSUME NEW sc \in EventScenes, Events(sc)!KindAssumption, Events(sc)!EventBoundAssumption,
         Events(sc)!TypeOK, Events(sc)!TypeOK', EventInv(sc), Events(sc)!Tick
  PROVE  EventInv(sc)'
<1>1. UNCHANGED <<row, queue, task, remote, saves, ended, spoilt>> /\ clock' = clock + 1 /\ clock \in Nat
  BY EventTypes DEF Events!Tick
<1>2. ASSUME NEW o \in Objects[sc]
      PROVE  Alive(sc, queue, task, remote, clock + 1, row[o], ended[o], o)
  <2>1. Alive(sc, queue, task, remote, clock, row[o], ended[o], o)
    BY DEF EventInv
  <2>2. queue \subseteq [n : Events(sc)!Version, op : {"update", "stop"}, o : Objects[sc], at : Events(sc)!Seconds]
    BY DEF Events!TypeOK
  <2>3. task \in [Workers -> {Events(sc)!Idle} \cup TaskOf(sc)] /\ remote \in [Events(sc)!Files -> {Events(sc)!NoFile} \cup FileOf(sc)]
    BY DEF Events!TypeOK, TaskOf, FileOf
  <2>4. row[o].v \in Nat
    BY EventTypes
  <2>5. Within(sc, queue, task, remote, o, clock, row[o].v) => Within(sc, queue, task, remote, o, clock + 1, row[o].v)
    <3>1. clock <= clock + 1 /\ row[o].v <= row[o].v /\ clock + 1 \in Nat
      BY <1>1, <2>4
    <3> QED BY <1>1, <2>2, <2>3, <2>4, <3>1, WithinGrows
  <2> QED BY <2>1, <2>5 DEF Alive
<1> QED BY <1>1, <1>2 DEF EventInv

LEMMA LoseAddressEvents ==
  ASSUME NEW sc \in EventScenes, Events(sc)!EventBoundAssumption, Events(sc)!TypeOK, Events(sc)!TypeOK',
         EventInv(sc), NEW p \in Objects[sc], Events(sc)!LoseAddress(p)
  PROVE  EventInv(sc)'
<1>1. /\ Kind[sc][p] = "switch" /\ row' = [row EXCEPT ![p] = [row[p] EXCEPT !.place = FALSE]]
      /\ UNCHANGED <<queue, task, remote, clock, saves, ended, spoilt>>
  BY DEF Events!LoseAddress
<1>2. row[p] \in [v : Events(sc)!Version, place : BOOLEAN, removed : BOOLEAN] /\ row \in [Objects[sc] -> [v : Events(sc)!Version, place : BOOLEAN, removed : BOOLEAN]]
  BY DEF Events!TypeOK
<1>3. row'[p].v = row[p].v /\ row'[p].removed = row[p].removed /\ row'[p].place = FALSE
  BY <1>1, <1>2
<1>4. \A o \in Objects[sc] \ {p} : row'[o] = row[o]
  BY <1>1, <1>2
<1>5. ~Events(sc)!Tells(p, row'[p])
  BY <1>1, <1>3 DEF Events!Tells, Events!DeviceTells
<1>6. /\ RowOf(sc, row'[p], saves') /\ Alive(sc, queue', task', remote', clock', row'[p], ended'[p], p)
      /\ Live(sc, queue', task', remote', row'[p], spoilt', p)
      /\ Dead(sc, queue', task', remote', ended'[p], spoilt', p)
  <2>1. /\ RowOf(sc, row[p], saves) /\ Alive(sc, queue, task, remote, clock, row[p], ended[p], p)
        /\ Dead(sc, queue, task, remote, ended[p], spoilt, p)
    BY DEF EventInv
  <2>2. RowOf(sc, row'[p], saves')
    BY <1>1, <1>3, <2>1 DEF RowOf
  <2>3. Alive(sc, queue', task', remote', clock', row'[p], ended'[p], p)
    BY <1>1, <1>3, <2>1 DEF Alive
  <2>4. Live(sc, queue', task', remote', row'[p], spoilt', p)
    BY <1>5 DEF Live
  <2>5. Dead(sc, queue', task', remote', ended'[p], spoilt', p)
    BY <1>1, <2>1
  <2> QED BY <2>2, <2>3, <2>4, <2>5
<1>7. ASSUME NEW o \in Objects[sc], o # p
      PROVE  /\ RowOf(sc, row'[o], saves')
             /\ Alive(sc, queue', task', remote', clock', row'[o], ended'[o], o)
             /\ Live(sc, queue', task', remote', row'[o], spoilt', o)
             /\ Dead(sc, queue', task', remote', ended'[o], spoilt', o)
  <2>1. row'[o] = row[o]
    BY <1>4, <1>7
  <2> QED BY <1>1, <2>1 DEF EventInv
<1> QED BY <1>6, <1>7 DEF EventInv

LEMMA SaveEvents ==
  ASSUME NEW sc \in EventScenes, Events(sc)!KindAssumption, Events(sc)!EventBoundAssumption,
         Events(sc)!TypeOK, Events(sc)!TypeOK', EventInv(sc),
         NEW p \in Objects[sc], NEW place \in BOOLEAN, Events(sc)!Save(p, place)
  PROVE  EventInv(sc)'
<1> DEFINE r == [v |-> saves + 1, place |-> place, removed |-> FALSE]
           q == Note(sc, p, clock, saves + 1, FALSE)
           N == IF p \notin Events(sc)!Leases /\ Events(sc)!Tells(p, r) THEN {q} ELSE {}
<1>1. /\ ~row[p].removed /\ saves' = saves + 1 /\ row' = [row EXCEPT ![p] = r]
      /\ queue' = queue \cup N
      /\ UNCHANGED <<task, remote, clock, ended, spoilt>>
  BY DEF Events!Save, Note
<1>2. r.v = saves + 1 /\ r.removed = FALSE /\ q.o = p /\ q.at = clock /\ q.n = saves + 1 /\ q.op = "update"
  <2>1. r.v = saves + 1 /\ r.removed = FALSE
    OBVIOUS
  <2>2. q.o = p /\ q.at = clock /\ q.n = saves + 1 /\ q.op = "update"
    BY DEF Note
  <2> QED BY <2>1, <2>2
<1>3. /\ saves \in Nat /\ clock \in Nat /\ clock \in Events(sc)!Seconds /\ row[p].v \in Nat /\ ended[p] \in Nat
      /\ row \in [Objects[sc] -> [v : Events(sc)!Version, place : BOOLEAN, removed : BOOLEAN]]
  BY EventTypes DEF Events!TypeOK
<1>4. \A t \in N : t = q
  OBVIOUS
<1>5. p \notin Events(sc)!Leases /\ Events(sc)!Tells(p, r) => q \in N
  OBVIOUS
<1> HIDE DEF r, q, N
<1>6. row'[p] = r /\ \A o \in Objects[sc] \ {p} : row'[o] = row[o]
  BY <1>1, <1>3
<1>7. /\ RowOf(sc, row'[p], saves')
      /\ Alive(sc, queue', task', remote', clock', row'[p], ended'[p], p)
      /\ Live(sc, queue', task', remote', row'[p], spoilt', p)
      /\ Dead(sc, queue', task', remote', ended'[p], spoilt', p)
  <2>1. RowOf(sc, row[p], saves) /\ Alive(sc, queue, task, remote, clock, row[p], ended[p], p)
    BY DEF EventInv
  <2>2. /\ row[p].v <= saves /\ ended[p] = 0
        /\ Within(sc, queue, task, remote, p, clock, row[p].v) /\ NoEnd(sc, queue, task, remote, p)
    BY <1>1, <2>1 DEF RowOf, Alive
  <2>3. Within(sc, queue, task, remote, p, clock, saves + 1)
    <3>1. queue \subseteq [n : Events(sc)!Version, op : {"update", "stop"}, o : Objects[sc], at : Events(sc)!Seconds]
      BY DEF Events!TypeOK
    <3>2. task \in [Workers -> {Events(sc)!Idle} \cup TaskOf(sc)] /\ remote \in [Events(sc)!Files -> {Events(sc)!NoFile} \cup FileOf(sc)]
      BY DEF Events!TypeOK, TaskOf, FileOf
    <3>3. clock <= clock /\ row[p].v <= saves + 1 /\ saves + 1 \in Nat
      BY <1>3, <2>2
    <3> QED BY <1>3, <2>2, <3>1, <3>2, <3>3, WithinGrows
  <2>4. Within(sc, queue', task', remote', p, clock, saves + 1)
    <3>1. Queued(sc, q, p, clock, saves + 1)
      BY <1>2, <1>3 DEF Queued
    <3> QED BY <1>1, <1>4, <2>3, <3>1 DEF Within
  <2>5. NoEnd(sc, queue', task', remote', p)
    BY <1>1, <1>2, <1>4, <2>2 DEF NoEnd
  <2>6. RowOf(sc, row'[p], saves')
    BY <1>1, <1>2, <1>3, <1>6 DEF RowOf
  <2>7. Alive(sc, queue', task', remote', clock', row'[p], ended'[p], p)
    BY <1>1, <1>2, <1>6, <2>2, <2>4, <2>5 DEF Alive
  <2>8. Live(sc, queue', task', remote', row'[p], spoilt', p)
    <3> SUFFICES ASSUME Events(sc)!Tells(p, r), p \notin Events(sc)!Leases
                 PROVE  Within(sc, queue', task', remote', p, clock, saves + 1) /\ Carried(sc, queue', task', remote', p, clock, saves + 1, FALSE)
      BY <1>2, <1>3, <1>6 DEF Live
    <3>1. Note(sc, p, clock, saves + 1, FALSE) \in queue'
      BY <1>1, <1>5 DEF q
    <3> QED BY <2>4, <3>1 DEF Carried
  <2>9. Dead(sc, queue', task', remote', ended'[p], spoilt', p)
    BY <1>1, <2>2 DEF Dead
  <2> QED BY <2>6, <2>7, <2>8, <2>9
<1>8. ASSUME NEW o \in Objects[sc], o # p
      PROVE  /\ RowOf(sc, row'[o], saves')
             /\ Alive(sc, queue', task', remote', clock', row'[o], ended'[o], o)
             /\ Live(sc, queue', task', remote', row'[o], spoilt', o)
             /\ Dead(sc, queue', task', remote', ended'[o], spoilt', o)
  <2>1. row'[o] = row[o] /\ ended'[o] = ended[o] /\ saves' >= saves /\ \A t \in N : t.o # o
    BY <1>1, <1>2, <1>3, <1>4, <1>6, <1>8
  <2> QED BY <1>1, <2>1, OtherObject
<1> QED BY <1>7, <1>8 DEF EventInv

LEMMA RemoveEvents ==
  ASSUME NEW sc \in EventScenes, Events(sc)!KindAssumption, Events(sc)!EventBoundAssumption,
         Events(sc)!TypeOK, Events(sc)!TypeOK', EventInv(sc),
         NEW objects \in SUBSET Objects[sc], Events(sc)!Remove(objects)
  PROVE  EventInv(sc)'
<1> DEFINE told == {o \in objects : Events(sc)!Tells(o, row[o])}
           new == {Note(sc, o, clock, row[o].v, TRUE) : o \in told}
<1>1. /\ \A o \in objects : Events(sc)!Exists(o)
      /\ row' = [o \in Objects[sc] |-> IF o \in objects THEN Events(sc)!Removed ELSE row[o]]
      /\ queue' = queue \cup new
      /\ ended' = [o \in Objects[sc] |-> IF o \in told THEN clock ELSE ended[o]]
      /\ UNCHANGED <<task, remote, clock, saves, spoilt>>
  BY DEF Events!Remove, Note
<1>2. Events(sc)!Removed.v = 0 /\ Events(sc)!Removed.removed = TRUE
  BY DEF Events!Removed
<1>3. clock \in Nat /\ clock \in Events(sc)!Seconds /\ saves \in Nat
  BY EventTypes
<1>4. \A t \in new : \E o \in told : t = Note(sc, o, clock, row[o].v, TRUE)
  OBVIOUS
<1>5. \A o \in told : Note(sc, o, clock, row[o].v, TRUE) \in new
  OBVIOUS
<1>6. told \subseteq objects
  OBVIOUS
<1> HIDE DEF told, new
<1>7. \A t \in new : t.o \in told /\ t.at = clock /\ t.n = row[t.o].v
  BY <1>4 DEF Note
<1>8. ASSUME NEW p \in objects
      PROVE  /\ RowOf(sc, row'[p], saves')
             /\ Alive(sc, queue', task', remote', clock', row'[p], ended'[p], p)
             /\ Live(sc, queue', task', remote', row'[p], spoilt', p)
             /\ Dead(sc, queue', task', remote', ended'[p], spoilt', p)
  <2>0. row'[p] = Events(sc)!Removed /\ ended'[p] = (IF p \in told THEN clock ELSE ended[p])
    BY <1>1
  <2>1. RowOf(sc, row[p], saves) /\ Alive(sc, queue, task, remote, clock, row[p], ended[p], p)
    BY DEF EventInv
  <2>2. row[p].v \in Nat /\ row[p].v > 0 /\ row[p].v \in Events(sc)!Version
    BY <1>1, EventTypes DEF Events!Exists
  <2>3. ~row[p].removed
    BY <2>1, <2>2 DEF RowOf
  <2>4. ended[p] = 0 /\ Within(sc, queue, task, remote, p, clock, row[p].v)
    BY <2>1, <2>3 DEF Alive
  <2>5. RowOf(sc, row'[p], saves')
    BY <1>1, <1>2, <1>3, <2>0 DEF RowOf
  <2>6. Alive(sc, queue', task', remote', clock', row'[p], ended'[p], p)
    BY <1>2, <2>0 DEF Alive
  <2>7. Live(sc, queue', task', remote', row'[p], spoilt', p)
    BY <1>2, <2>0 DEF Live
  <2>8. Dead(sc, queue', task', remote', ended'[p], spoilt', p)
    <3>1. CASE p \notin told
      BY <2>0, <2>4, <3>1 DEF Dead
    <3>2. CASE p \in told
      <4>1. ASSUME NEW t \in new PROVE Queued(sc, t, p, clock, row[p].v)
        <5>1. t.at = clock /\ t.n = row[t.o].v
          BY <1>7
        <5> QED BY <1>3, <2>2, <5>1 DEF Queued
      <4>2. Within(sc, queue', task', remote', p, clock, row[p].v)
        BY <1>1, <2>4, <4>1 DEF Within
      <4>3. Carried(sc, queue', task', remote', p, clock, row[p].v, TRUE)
        BY <1>1, <1>5, <3>2 DEF Carried
      <4> QED BY <2>0, <2>2, <3>2, <4>2, <4>3 DEF Dead
    <3> QED BY <3>1, <3>2
  <2> QED BY <2>5, <2>6, <2>7, <2>8
<1>9. ASSUME NEW o \in Objects[sc], o \notin objects
      PROVE  /\ RowOf(sc, row'[o], saves')
             /\ Alive(sc, queue', task', remote', clock', row'[o], ended'[o], o)
             /\ Live(sc, queue', task', remote', row'[o], spoilt', o)
             /\ Dead(sc, queue', task', remote', ended'[o], spoilt', o)
  <2>1. row'[o] = row[o] /\ ended'[o] = ended[o] /\ saves' >= saves /\ \A t \in new : t.o # o
    BY <1>1, <1>3, <1>6, <1>7, <1>9
  <2> QED BY <1>1, <2>1, OtherObject
<1> QED BY <1>8, <1>9 DEF EventInv

(* What a worker takes from the queue it carries on. *)
LEMMA FoundWhenDue ==
  ASSUME NEW sc \in EventScenes, Events(sc)!KindAssumption, NEW o \in Objects[sc],
         o \notin Events(sc)!Leases, row[o].v > 0, Events(sc)!Tells(o, row[o])
  PROVE  Events(sc)!Found(o)
<1>1. Kind[sc][o] \in {"switch", "gateway", "pool"}
  BY DEF Events!KindAssumption, Events!Kinds, Events!Leases
<1> QED BY <1>1 DEF Events!Tells, Events!DeviceTells, Events!GatewayTells, Events!Found, Events!ReadDevice,
           Events!ReadGateway, Events!ReadPool, Events!Exists

LEMMA TakeEvents ==
  ASSUME NEW sc \in EventScenes, Events(sc)!KindAssumption, Events(sc)!EventBoundAssumption,
         Events(sc)!TypeOK, Events(sc)!TypeOK', EventInv(sc),
         NEW w \in Workers, NEW t \in queue, Events(sc)!TakeUpdate(w, t) \/ Events(sc)!TakeStop(w, t)
  PROVE  EventInv(sc)'
<1>1. /\ task[w] = Events(sc)!Idle /\ queue' = queue \ {t}
      /\ UNCHANGED <<row, remote, clock, saves, ended, spoilt>>
  BY DEF Events!TakeUpdate, Events!TakeStop
<1>2. t.o \in Objects[sc] /\ t.n \in Events(sc)!Version /\ t.at \in Events(sc)!Seconds /\ row[t.o].v \in Events(sc)!Version /\ t.at \in Nat /\ t.n \in Nat
      /\ row[t.o].v \in Nat /\ t.at <= clock /\ saves \in Nat
  BY EventTypes
<1>3. t \in [n : Events(sc)!Version, op : {"update", "stop"}, o : Objects[sc], at : Events(sc)!Seconds]
  BY DEF Events!TypeOK
<1>4. ASSUME NEW n, NEW o \in Objects[sc], task' = [task EXCEPT ![w] = n]
      PROVE  task'[w] = n /\ \A v \in Workers \ {w} : task'[v] = task[v]
  BY <1>4 DEF Events!TypeOK
<1>5. ASSUME NEW n, task'[w] = n, \A v \in Workers \ {w} : task'[v] = task[v],
             NEW o \in Objects[sc],
             (OfTask(sc, n, o) /\ NoEnd(sc, queue, task, remote, o)) => ~n.end,
             \A s \in Nat, m \in Nat :
               (Within(sc, queue, task, remote, o, s, m) /\ (~row[o].removed => m = row[o].v /\ NoEnd(sc, queue, task, remote, o))) => Ran(sc, n, o, s, m),
             \A s \in Events(sc)!Seconds, m \in Events(sc)!Version, e \in BOOLEAN :
               (t = Note(sc, o, s, m, e) /\ Due(sc, row[o], queue, task, remote, o, m, e)) => n = EventSent(sc, o, s, m, e)
      PROVE  /\ RowOf(sc, row'[o], saves')
             /\ Alive(sc, queue', task', remote', clock', row'[o], ended'[o], o)
             /\ Live(sc, queue', task', remote', row'[o], spoilt', o)
             /\ Dead(sc, queue', task', remote', ended'[o], spoilt', o)
  <2>1. NoEnd(sc, queue, task, remote, o) => NoEnd(sc, queue', task', remote', o)
    BY <1>1, <1>5 DEF NoEnd
  <2>2. \A s \in Nat, m \in Nat :
          (Within(sc, queue, task, remote, o, s, m) /\ (~row[o].removed => m = row[o].v /\ NoEnd(sc, queue, task, remote, o))) =>
          Within(sc, queue', task', remote', o, s, m)
    BY <1>1, <1>5 DEF Within
  <2>3. ASSUME NEW s \in Events(sc)!Seconds, NEW m \in Events(sc)!Version, NEW e \in BOOLEAN,
               Due(sc, row[o], queue, task, remote, o, m, e), Carried(sc, queue, task, remote, o, s, m, e)
        PROVE  Carried(sc, queue', task', remote', o, s, m, e)
    <3>1. CASE Note(sc, o, s, m, e) \in queue
      <4>1. CASE t = Note(sc, o, s, m, e)
        <5>1. n = EventSent(sc, o, s, m, e)
          BY <1>5, <2>3, <4>1
        <5> QED BY <1>5, <5>1 DEF Carried
      <4>2. CASE t # Note(sc, o, s, m, e)
        BY <1>1, <3>1, <4>2 DEF Carried
      <4> QED BY <4>1, <4>2
    <3>2. CASE \E v \in Workers : task[v] = EventSent(sc, o, s, m, e)
      <4>1. PICK v \in Workers : task[v] = EventSent(sc, o, s, m, e)
        BY <3>2
      <4>2. v # w
        BY <1>1, <4>1, NoteFields, TasksAre
      <4> QED BY <1>5, <4>1, <4>2 DEF Carried
    <3>3. CASE remote[<<Kind[sc][o], s>>] = Filed(sc, o, m, e)
      BY <1>1, <3>3 DEF Carried
    <3> QED BY <2>3, <3>1, <3>2, <3>3 DEF Carried
  <2>4. row'[o] = row[o] /\ ended'[o] = ended[o] /\ saves' >= saves /\ spoilt \subseteq spoilt' /\ clock' = clock
    BY <1>1, <1>2
  <2> QED BY <2>1, <2>2, <2>3, <2>4, SameObject
<1>6. CASE Events(sc)!TakeUpdate(w, t)
  <2> DEFINE n == IF Events(sc)!Found(t.o) THEN EventSent(sc, t.o, t.at, row[t.o].v, FALSE) ELSE Events(sc)!Idle
  <2>1. t.op = "update" /\ task' = [task EXCEPT ![w] = n]
    BY <1>6 DEF Events!TakeUpdate, Events!Goes, EventSent
  <2>2. task'[w] = n /\ \A v \in Workers \ {w} : task'[v] = task[v]
    <3> HIDE DEF n
    <3> QED BY <1>2, <1>4, <2>1
  <2>3. ASSUME NEW o \in Objects[sc]
        PROVE  /\ OfTask(sc, n, o) => ~n.end
               /\ OfTask(sc, n, o) => Events(sc)!Found(o) /\ o = t.o /\ n.at = t.at /\ n.v = row[o].v
    <3>1. CASE ~Events(sc)!Found(t.o)
      <4>1. n = Events(sc)!Idle /\ ~OfTask(sc, Events(sc)!Idle, o)
        BY <3>1 DEF OfTask, Events!Idle
      <4> HIDE DEF n
      <4> QED BY <4>1
    <3>2. CASE Events(sc)!Found(t.o)
      <4>1. n = EventSent(sc, t.o, t.at, row[t.o].v, FALSE)
        BY <3>2
      <4>2. /\ n.o = t.o /\ n.end = FALSE /\ n.at = t.at /\ n.v = row[t.o].v
        BY <4>1 DEF EventSent
      <4>3. OfTask(sc, n, o) => n.o = o
        BY DEF OfTask
      <4> HIDE DEF n
      <4> QED BY <3>2, <4>2, <4>3
    <3> QED BY <3>1, <3>2
  <2>4. ASSUME NEW o \in Objects[sc], NEW s \in Nat, NEW m \in Nat,
               Within(sc, queue, task, remote, o, s, m),
               ~row[o].removed => m = row[o].v
        PROVE  Ran(sc, n, o, s, m)
    <3> SUFFICES ASSUME OfTask(sc, n, o) PROVE n.at <= s /\ n.v <= m
      BY DEF Ran
    <3>1. Events(sc)!Found(o) /\ o = t.o /\ n.at = t.at /\ n.v = row[o].v
      BY <2>3
    <3>2. RowOf(sc, row[o], saves) /\ row[o].v > 0
      BY <3>1 DEF EventInv, Events!Found, Events!ReadDevice, Events!ReadGateway, Events!ReadPool,
         Events!Exists
    <3>3. m = row[o].v
      BY <2>4, <3>2 DEF RowOf
    <3>4. Queued(sc, t, o, s, m)
      BY <2>4 DEF Within
    <3>5. t.at <= s
      BY <3>1, <3>4 DEF Queued
    <3> HIDE DEF n
    <3> QED BY <1>2, <3>1, <3>3, <3>5
  <2>5. ASSUME NEW o \in Objects[sc], NEW s \in Events(sc)!Seconds, NEW m \in Events(sc)!Version,
               NEW e \in BOOLEAN,
               t = Note(sc, o, s, m, e), Due(sc, row[o], queue, task, remote, o, m, e)
        PROVE  n = EventSent(sc, o, s, m, e)
    <3>1. t.o = o /\ t.at = s /\ e = FALSE
      BY <2>1, <2>5, NoteFields
    <3>2. m = row[o].v /\ Events(sc)!Found(o)
      BY <2>5, <3>1, FoundWhenDue DEF Due
    <3> QED BY <3>1, <3>2
  <2> HIDE DEF n
  <2> QED BY <1>5, <2>2, <2>3, <2>4, <2>5 DEF EventInv
<1>7. CASE Events(sc)!TakeStop(w, t)
  <2> DEFINE n == EventSent(sc, t.o, t.at, t.n, TRUE)
  <2>1. t.op = "stop" /\ task' = [task EXCEPT ![w] = n]
    BY <1>7 DEF Events!TakeStop, Events!Goes, EventSent
  <2>2. task'[w] = n /\ \A v \in Workers \ {w} : task'[v] = task[v]
    <3> HIDE DEF n
    <3> QED BY <1>2, <1>4, <2>1
  <2>3. ASSUME NEW o \in Objects[sc], OfTask(sc, n, o)
        PROVE  o = t.o /\ n.at = t.at /\ n.v = t.n /\ ~NoEnd(sc, queue, task, remote, o)
    <3>1. o = t.o /\ n.at = t.at /\ n.v = t.n
      <4>1. n.o = t.o /\ n.at = t.at /\ n.v = t.n
        BY DEF EventSent
      <4> HIDE DEF n
      <4> QED BY <2>3, <4>1 DEF OfTask
    <3> QED BY <2>1, <3>1 DEF NoEnd
  <2>4. ASSUME NEW o \in Objects[sc], NEW s \in Nat, NEW m \in Nat, Within(sc, queue, task, remote, o, s, m)
        PROVE  Ran(sc, n, o, s, m)
    <3> SUFFICES ASSUME OfTask(sc, n, o) PROVE n.at <= s /\ n.v <= m
      BY DEF Ran
    <3>1. o = t.o /\ n.at = t.at /\ n.v = t.n
      BY <2>3
    <3>2. Queued(sc, t, o, s, m)
      BY <2>4 DEF Within
    <3> QED BY <3>1, <3>2 DEF Queued
  <2>5. ASSUME NEW o \in Objects[sc], NEW s \in Events(sc)!Seconds, NEW m \in Events(sc)!Version,
               NEW e \in BOOLEAN,
               t = Note(sc, o, s, m, e), Due(sc, row[o], queue, task, remote, o, m, e)
        PROVE  n = EventSent(sc, o, s, m, e)
    <3>1. t.o = o /\ t.at = s /\ t.n = m /\ e = TRUE
      BY <2>1, <2>5, NoteFields
    <3> QED BY <3>1
  <2> HIDE DEF n
  <2> QED BY <1>5, <2>2, <2>3, <2>4, <2>5 DEF EventInv
<1> QED BY <1>6, <1>7

(* A task that ends without a file takes nothing away but what it spoils. *)
LEMMA FailEvents ==
  ASSUME NEW sc \in EventScenes, Events(sc)!EventBoundAssumption, Events(sc)!TypeOK, Events(sc)!TypeOK',
         EventInv(sc), NEW w \in Workers, Events(sc)!StorFails(w)
  PROVE  EventInv(sc)'
<1>1. /\ task[w].op = "send" /\ Events(sc)!Goes(w, Events(sc)!Idle) /\ spoilt' = spoilt \cup {task[w].o}
      /\ UNCHANGED <<row, queue, remote, clock, saves, ended>>
  BY DEF Events!StorFails, Events!Spoil
<1>2. task'[w] = Events(sc)!Idle /\ \A v \in Workers \ {w} : task'[v] = task[v]
  BY <1>1 DEF Events!Goes, Events!TypeOK
<1>3. \A o : ~OfTask(sc, Events(sc)!Idle, o)
  BY DEF OfTask, Events!Idle
<1>4. ASSUME NEW o \in Objects[sc]
      PROVE  /\ RowOf(sc, row'[o], saves')
             /\ Alive(sc, queue', task', remote', clock', row'[o], ended'[o], o)
             /\ Live(sc, queue', task', remote', row'[o], spoilt', o)
             /\ Dead(sc, queue', task', remote', ended'[o], spoilt', o)
  <2>1. NoEnd(sc, queue, task, remote, o) => NoEnd(sc, queue', task', remote', o)
    BY <1>1, <1>2, <1>3 DEF NoEnd
  <2>2. \A s \in Nat, n \in Nat : Within(sc, queue, task, remote, o, s, n) => Within(sc, queue', task', remote', o, s, n)
    BY <1>1, <1>2, <1>3 DEF Within, Ran
  <2>3. ASSUME NEW s \in Events(sc)!Seconds, NEW n \in Events(sc)!Version, NEW e \in BOOLEAN,
               o \notin spoilt',
               Carried(sc, queue, task, remote, o, s, n, e)
        PROVE  Carried(sc, queue', task', remote', o, s, n, e)
    <3>1. \A v \in Workers : task[v] = EventSent(sc, o, s, n, e) => v # w
      BY <1>1, <2>3, NoteFields
    <3> QED BY <1>1, <1>2, <2>3, <3>1 DEF Carried
  <2>4. row'[o] = row[o] /\ ended'[o] = ended[o] /\ saves' >= saves /\ spoilt \subseteq spoilt' /\ clock' = clock
    BY <1>1, EventTypes
  <2> QED BY <2>1, <2>2, <2>3, <2>4, SameObject
<1> QED BY <1>4 DEF EventInv

(* A file of o replaces what has its name: that is an older record of o, or spoilt. *)
LEMMA StorEvents ==
  ASSUME NEW sc \in EventScenes, Events(sc)!KindAssumption, Events(sc)!EventBoundAssumption,
         Events(sc)!TypeOK, Events(sc)!TypeOK', EventInv(sc), NEW w \in Workers, Events(sc)!Stor(w)
  PROVE  EventInv(sc)'
<1> DEFINE r == task[w]
           f == <<Kind[sc][r.o], r.at>>
           rec == Filed(sc, r.o, r.v, r.end)
           old == remote[f]
<1>0. r \in TaskOf(sc) /\ r.op = "send"
  BY TasksAre DEF Events!Stor
<1>1. r.o \in Objects[sc] /\ r.at \in Events(sc)!Seconds /\ r.v \in Events(sc)!Version /\ r.end \in BOOLEAN /\ r.v \in Nat /\ r.at \in Nat
  BY <1>0, EventTypes DEF TaskOf
<1>2. f \in Events(sc)!Files /\ r = EventSent(sc, r.o, r.at, r.v, r.end)
  BY <1>0, <1>1 DEF Events!KindAssumption, Events!Files, Events!Seconds, EventSent, TaskOf
<1>3. /\ remote' = [remote EXCEPT ![f] = rec] /\ Events(sc)!Goes(w, Events(sc)!Idle)
      /\ UNCHANGED <<row, queue, clock, saves, ended>>
      /\ spoilt' = spoilt \cup (IF old = Events(sc)!NoFile \/ (old.o = r.o /\ Events(sc)!Older(old, r)) THEN {} ELSE {old.o})
  BY DEF Events!Stor, Events!Spoil, Filed
<1>4. task'[w] = Events(sc)!Idle /\ \A v \in Workers \ {w} : task'[v] = task[v]
  BY <1>3 DEF Events!Goes, Events!TypeOK
<1>5. remote'[f] = rec /\ \A g \in Events(sc)!Files : g # f => remote'[g] = remote[g]
  BY <1>2, <1>3 DEF Events!TypeOK
<1>6. \A o : ~OfTask(sc, Events(sc)!Idle, o)
  BY DEF OfTask, Events!Idle
<1>7. rec.o = r.o /\ rec.v = r.v /\ rec.end = r.end /\ rec # Events(sc)!NoFile
  <2> HIDE DEF r
  <2> QED BY FileFields
<1>8. OfTask(sc, r, r.o)
  BY <1>0 DEF OfTask
<1>9. \A o \in Objects[sc], z \in Events(sc)!Seconds : <<Kind[sc][o], z>> \in Events(sc)!Files /\ (<<Kind[sc][o], z>> = f <=> Kind[sc][o] = Kind[sc][r.o] /\ z = r.at)
  BY <1>1 DEF Events!KindAssumption, Events!Files, Events!Seconds
<1>10. ASSUME NEW o \in Objects[sc]
       PROVE  /\ RowOf(sc, row'[o], saves')
              /\ Alive(sc, queue', task', remote', clock', row'[o], ended'[o], o)
              /\ Live(sc, queue', task', remote', row'[o], spoilt', o)
              /\ Dead(sc, queue', task', remote', ended'[o], spoilt', o)
  <2> HIDE DEF f, r, rec, old
  <2>0. \A z \in Events(sc)!Seconds : Has(sc, remote', o, z) =>
          \/ Has(sc, remote, o, z) /\ remote'[<<Kind[sc][o], z>>] = remote[<<Kind[sc][o], z>>]
          \/ o = r.o /\ z = r.at /\ remote'[<<Kind[sc][o], z>>] = rec
    BY <1>5, <1>7, <1>9 DEF Has
  <2>1. NoEnd(sc, queue, task, remote, o) => NoEnd(sc, queue', task', remote', o)
    <3> SUFFICES ASSUME NoEnd(sc, queue, task, remote, o) PROVE NoEnd(sc, queue', task', remote', o)
      OBVIOUS
    <3>1. o = r.o => ~r.end
      BY <1>8 DEF NoEnd, r
    <3>2. \A z \in Events(sc)!Seconds : Has(sc, remote', o, z) => ~remote'[<<Kind[sc][o], z>>].end
      BY <1>7, <2>0, <3>1 DEF NoEnd
    <3>3. /\ \A t \in queue' : t.o = o => t.op = "update"
          /\ \A v \in Workers : OfTask(sc, task'[v], o) => ~task'[v].end
      BY <1>3, <1>4, <1>6 DEF NoEnd
    <3> QED BY <3>2, <3>3 DEF NoEnd
  <2>2. ASSUME NEW s \in Nat, NEW n \in Nat, Within(sc, queue, task, remote, o, s, n)
        PROVE  Within(sc, queue', task', remote', o, s, n)
    <3>1. o = r.o => r.at <= s /\ r.v <= n
      <4>1. Ran(sc, r, o, s, n)
        BY <2>2 DEF Within, r
      <4> QED BY <1>8, <4>1 DEF Ran
    <3>2. ASSUME NEW z \in Events(sc)!Seconds PROVE Wrote(sc, remote', o, z, s, n)
      <4> SUFFICES ASSUME Has(sc, remote', o, z) PROVE z <= s /\ remote'[<<Kind[sc][o], z>>].v <= n
        BY DEF Wrote
      <4>1. CASE Has(sc, remote, o, z) /\ remote'[<<Kind[sc][o], z>>] = remote[<<Kind[sc][o], z>>]
        <5>1. Wrote(sc, remote, o, z, s, n)
          BY <2>2 DEF Within
        <5>2. z <= s /\ remote[<<Kind[sc][o], z>>].v <= n
          BY <4>1, <5>1 DEF Wrote
        <5> QED BY <4>1, <5>2
      <4>2. CASE o = r.o /\ z = r.at /\ remote'[<<Kind[sc][o], z>>] = rec
        BY <1>7, <3>1, <4>2
      <4> QED BY <2>0, <4>1, <4>2
    <3>3. \A v \in Workers : Ran(sc, task'[v], o, s, n)
      BY <1>4, <1>6, <2>2 DEF Within, Ran
    <3> QED BY <1>3, <2>2, <3>2, <3>3 DEF Within
  <2>3. ASSUME NEW s \in Events(sc)!Seconds, NEW n \in Events(sc)!Version, NEW e \in BOOLEAN,
               o \notin spoilt',
               Within(sc, queue, task, remote, o, s, n),
               Due(sc, row[o], queue, task, remote, o, n, e), Carried(sc, queue, task, remote, o, s, n, e)
        PROVE  Carried(sc, queue', task', remote', o, s, n, e)
    <3>1. CASE Note(sc, o, s, n, e) \in queue
      BY <1>3, <3>1 DEF Carried
    <3>2. CASE \E v \in Workers : task[v] = EventSent(sc, o, s, n, e)
      <4>1. PICK v \in Workers : task[v] = EventSent(sc, o, s, n, e)
        BY <3>2
      <4>2. CASE v = w
        <5>1. r.o = o /\ r.at = s /\ r.v = n /\ r.end = e
          BY <4>1, <4>2, NoteFields DEF r
        <5>2. remote'[<<Kind[sc][o], s>>] = Filed(sc, o, n, e)
          BY <1>5, <5>1 DEF rec, f
        <5> QED BY <5>2 DEF Carried
      <4>3. CASE v # w
        BY <1>4, <4>1, <4>3 DEF Carried
      <4> QED BY <4>2, <4>3
    <3>3. CASE remote[<<Kind[sc][o], s>>] = Filed(sc, o, n, e)
      <4>1. CASE <<Kind[sc][o], s>> # f
        BY <1>5, <1>9, <3>3, <4>1 DEF Carried
      <4>2. CASE <<Kind[sc][o], s>> = f
        <5>1. old = Filed(sc, o, n, e) /\ old # Events(sc)!NoFile /\ old.o = o /\ old.v = n /\ old.end = e
          <6>1. old = Filed(sc, o, n, e)
            BY <3>3, <4>2 DEF old
          <6> QED BY <6>1, FileFields
        <5>2. r.o = o /\ Events(sc)!Older(old, r)
          BY <1>3, <2>3, <5>1
        <5>3. r.v <= n
          <6>1. Ran(sc, r, o, s, n)
            BY <2>3 DEF Within, r
          <6> QED BY <1>8, <5>2, <6>1 DEF Ran
        <5>4. n \in Nat
          BY EventTypes
        <5>5. r.v = n /\ (r.end \/ ~e)
          BY <1>1, <5>1, <5>2, <5>3, <5>4 DEF Events!Older
        <5>6. ~e => ~r.end
          BY <1>8, <2>3, <5>2 DEF Due, NoEnd, r
        <5>7. r.end = e
          BY <1>1, <5>5, <5>6
        <5>8. remote'[<<Kind[sc][o], s>>] = Filed(sc, o, n, e)
          BY <1>5, <4>2, <5>2, <5>5, <5>7 DEF rec
        <5> QED BY <5>8 DEF Carried
      <4> QED BY <4>1, <4>2
    <3> QED BY <2>3, <3>1, <3>2, <3>3 DEF Carried
  <2>4. row'[o] = row[o] /\ ended'[o] = ended[o] /\ saves' >= saves /\ spoilt \subseteq spoilt' /\ clock' = clock
    BY <1>3, EventTypes
  <2> QED BY <2>1, <2>2, <2>3, <2>4, SameObject
<1> QED BY <1>10 DEF EventInv

LEMMA EventStep ==
  ASSUME NEW sc \in EventScenes, Events(sc)!KindAssumption, Events(sc)!EventBoundAssumption,
         Events(sc)!TypeOK, EventInv(sc), [Events(sc)!Next]_(Events(sc)!vars)
  PROVE  Events(sc)!TypeOK' /\ EventInv(sc)'
<1>1. Events(sc)!TypeOK'
  BY EventTypeStep
<1>2. CASE UNCHANGED Events(sc)!vars
  BY <1>1, <1>2 DEF Events!vars, EventInv
<1>3. Events(sc)!Leases \subseteq Objects[sc] /\ \A o \in Objects[sc] : {o} \in SUBSET Objects[sc]
  BY DEF Events!Leases
<1>4. CASE Events(sc)!Next
  <2>1. CASE Events(sc)!Tick
    BY <1>1, <2>1, TickEvents
  <2>2. ASSUME NEW o \in Objects[sc], Events(sc)!LoseAddress(o) PROVE EventInv(sc)'
    BY <1>1, <2>2, LoseAddressEvents
  <2>3. ASSUME NEW objects \in SUBSET Objects[sc], Events(sc)!Remove(objects) PROVE EventInv(sc)'
    BY <1>1, <2>3, RemoveEvents
  <2>4. ASSUME NEW o \in Objects[sc], NEW place \in BOOLEAN, Events(sc)!Save(o, place) PROVE EventInv(sc)'
    BY <1>1, <2>4, SaveEvents
  <2>5. ASSUME NEW w \in Workers, Events(sc)!Take(w) PROVE EventInv(sc)'
    BY <1>1, <2>5, TakeEvents DEF Events!Take
  <2>6. ASSUME NEW w \in Workers, Events(sc)!Stor(w) PROVE EventInv(sc)'
    BY <1>1, <2>6, StorEvents
  <2>7. ASSUME NEW w \in Workers, Events(sc)!StorFails(w) PROVE EventInv(sc)'
    BY <1>1, <2>7, FailEvents
  <2> QED BY <1>1, <1>3, <1>4, <2>1, <2>2, <2>3, <2>4, <2>5, <2>6, <2>7 DEF Events!Next
<1> QED BY <1>1, <1>2, <1>4

LEMMA EventsInit ==
  ASSUME NEW sc \in EventScenes, Events(sc)!KindAssumption, Events(sc)!EventBoundAssumption, Events(sc)!Init
  PROVE  Events(sc)!TypeOK /\ EventInv(sc)
<1>1. Events(sc)!TypeOK
  <2>1. 1 \in Events(sc)!Seconds /\ 0 \in Events(sc)!Version /\ 0 \in 0 .. EventFaults
    BY DEF Events!EventBoundAssumption, Events!Seconds, Events!Version
  <2>2. Events(sc)!NoRow \in [v : Events(sc)!Version, place : BOOLEAN, removed : BOOLEAN]
    BY <2>1 DEF Events!NoRow
  <2> QED BY <2>1, <2>2 DEF Events!Init, Events!TypeOK
<1>2. ASSUME NEW o \in Objects[sc]
      PROVE  /\ RowOf(sc, row[o], saves)
             /\ Alive(sc, queue, task, remote, clock, row[o], ended[o], o)
             /\ Live(sc, queue, task, remote, row[o], spoilt, o)
             /\ Dead(sc, queue, task, remote, ended[o], spoilt, o)
  <2>1. row[o].v = 0 /\ row[o].removed = FALSE /\ saves = 0 /\ ended[o] = 0 /\ queue = {}
    BY DEF Events!Init, Events!NoRow
  <2>2. \A w \in Workers : ~OfTask(sc, task[w], o)
    BY DEF Events!Init, Events!Idle, OfTask
  <2>3. \A z \in Events(sc)!Seconds : <<Kind[sc][o], z>> \in Events(sc)!Files => ~Has(sc, remote, o, z)
    BY DEF Events!Init, Has
  <2>4. RowOf(sc, row[o], saves)
    BY <2>1 DEF RowOf
  <2>5. Live(sc, queue, task, remote, row[o], spoilt, o) /\ Dead(sc, queue, task, remote, ended[o], spoilt, o)
    BY <2>1 DEF Live, Dead
  <2>6. \A z \in Events(sc)!Seconds : ~Has(sc, remote, o, z)
    BY <2>3 DEF Events!KindAssumption, Events!Files, Events!Seconds
  <2>7. Alive(sc, queue, task, remote, clock, row[o], ended[o], o)
    BY <2>1, <2>2, <2>6 DEF Alive, Within, NoEnd, Ran, Wrote
  <2> QED BY <2>4, <2>5, <2>7
<1> QED BY <1>1, <1>2 DEF EventInv

(* What is not pending any more is the newest file. *)
LEMMA CarriedIsNewest ==
  ASSUME NEW sc \in EventScenes, Events(sc)!EventBoundAssumption, Events(sc)!TypeOK, NEW o \in Objects[sc],
         ~Events(sc)!Pending(o), NEW s \in Events(sc)!Seconds, NEW n, NEW e \in BOOLEAN,
         Within(sc, queue, task, remote, o, s, n), Carried(sc, queue, task, remote, o, s, n, e)
  PROVE  Events(sc)!Told(o) # {} /\ Events(sc)!Newest(o).v = n /\ Events(sc)!Newest(o).end = e
<1>1. Note(sc, o, s, n, e) \notin queue
  BY NoteFields DEF Events!Pending
<1>2. ASSUME NEW w \in Workers PROVE task[w] # EventSent(sc, o, s, n, e)
  <2>1. EventSent(sc, o, s, n, e).o = o /\ EventSent(sc, o, s, n, e).op = "send" /\ Events(sc)!Idle.op = "idle"
    BY DEF EventSent, Events!Idle
  <2>2. EventSent(sc, o, s, n, e) # Events(sc)!Idle
    BY <2>1
  <2> QED BY <2>1, <2>2 DEF Events!Pending
<1>3. remote[<<Kind[sc][o], s>>] = Filed(sc, o, n, e)
  BY <1>1, <1>2 DEF Carried
<1>4. Filed(sc, o, n, e).o = o /\ Filed(sc, o, n, e).v = n /\ Filed(sc, o, n, e).end = e /\ Filed(sc, o, n, e) # Events(sc)!NoFile
  BY FileFields
<1>5. s \in Events(sc)!Told(o) /\ Events(sc)!Told(o) \subseteq Events(sc)!Seconds
  BY <1>3, <1>4 DEF Events!Told
<1>6. \A z \in Events(sc)!Told(o) : z <= s
  BY DEF Within, Wrote, Events!Told, Has
<1>7. Events(sc)!Seconds \subseteq Nat
  BY DEF Events!Seconds, Events!EventBoundAssumption
<1>8. Events(sc)!Max(Events(sc)!Told(o)) = s
  <2> DEFINE S == Events(sc)!Told(o)
  <2> HIDE DEF S
  <2>1. s \in S /\ S \subseteq Nat /\ \A z \in S : z <= s
    BY <1>5, <1>6, <1>7 DEF S
  <2>2. \A y \in S : s >= y
    BY <2>1
  <2>3. \A x \in S : (\A y \in S : x >= y) => x = s
    BY <2>1
  <2>4. Events(sc)!Max(S) = s
    BY <2>1, <2>2, <2>3 DEF Events!Max
  <2> QED BY <2>4 DEF S
<1> QED BY <1>3, <1>4, <1>5, <1>8 DEF Events!Newest

LEMMA EventSays ==
  ASSUME NEW sc \in EventScenes, Events(sc)!EventBoundAssumption, Events(sc)!TypeOK, EventInv(sc)
  PROVE  Events(sc)!LatestIsTold /\ Events(sc)!RemovedIsEnded
<1>1. ASSUME NEW o \in Objects[sc] \ (spoilt \cup Events(sc)!Leases), Events(sc)!Exists(o),
             Events(sc)!Tells(o, row[o]), ~Events(sc)!Pending(o)
      PROVE  Events(sc)!Told(o) # {} /\ Events(sc)!Newest(o).v = row[o].v /\ ~Events(sc)!Newest(o).end
  <2>1. Live(sc, queue, task, remote, row[o], spoilt, o)
    BY DEF EventInv
  <2>2. PICK s \in Events(sc)!Seconds : Within(sc, queue, task, remote, o, s, row[o].v) /\ Carried(sc, queue, task, remote, o, s, row[o].v, FALSE)
    BY <1>1, <2>1 DEF Live, Events!Exists
  <2>3. FALSE \in BOOLEAN /\ o \in Objects[sc]
    OBVIOUS
  <2>4. Events(sc)!Told(o) # {} /\ Events(sc)!Newest(o).v = row[o].v /\ Events(sc)!Newest(o).end = FALSE
    BY <1>1, <2>2, <2>3, CarriedIsNewest
  <2> QED BY <2>4
<1>2. ASSUME NEW o \in Objects[sc] \ spoilt, ended[o] > 0, ~Events(sc)!Pending(o)
      PROVE  Events(sc)!Told(o) # {} /\ Events(sc)!Newest(o).end
  <2>1. Dead(sc, queue, task, remote, ended[o], spoilt, o)
    BY DEF EventInv
  <2>2. PICK n \in Events(sc)!Version : Within(sc, queue, task, remote, o, ended[o], n) /\ Carried(sc, queue, task, remote, o, ended[o], n, TRUE)
    BY <1>2, <2>1 DEF Dead
  <2>3. ended[o] \in Events(sc)!Seconds /\ TRUE \in BOOLEAN /\ o \in Objects[sc]
    <3>1. ended[o] \in Nat /\ ended[o] <= clock /\ clock \in Nat /\ clock \in Events(sc)!Seconds
      BY EventTypes
    <3> QED BY <1>2, <3>1 DEF Events!Seconds, Events!EventBoundAssumption
  <2>4. Events(sc)!Newest(o).end = TRUE /\ Events(sc)!Told(o) # {}
    BY <1>2, <2>2, <2>3, CarriedIsNewest
  <2> QED BY <2>4
<1>3. Events(sc)!LatestIsTold
  BY <1>1 DEF Events!LatestIsTold
<1>4. Events(sc)!RemovedIsEnded
  BY <1>2 DEF Events!RemovedIsEnded
<1> QED BY <1>3, <1>4

-----------------------------------------------------------------------------
(* The command that exports all customers. *)

(* The sets and numbers of CustomerExport are those of this module. *)
LEMMA CommandOnFiniteSets ==
  ASSUME NEW sc \in CommandScenes, NEW S
  PROVE  (Command(sc)!IsFiniteSet(S) <=> IsFiniteSet(S)) /\ Command(sc)!Cardinality(S) = Cardinality(S)
<1>1. Command(sc)!IsFiniteSet(S) <=> IsFiniteSet(S)
  BY Zenon DEF Command!IsFiniteSet, IsFiniteSet
<1>2. Command(sc)!Cardinality(S) = Cardinality(S)
  BY Zenon DEF Command!Cardinality, Cardinality
<1> QED BY <1>1, <1>2

LEMMA OrderIs ==
  ASSUME NEW sc \in CommandScenes PROVE
  /\ Len(Command(sc)!Order) = 9
  /\ Command(sc)!Order[1] = "root" /\ Command(sc)!Order[2] = "binds" /\ Command(sc)!Order[3] = "contracts" /\ Command(sc)!Order[4] = "access"
  /\ Command(sc)!Order[5] = "individual" /\ Command(sc)!Order[6] = "legal" /\ Command(sc)!Order[7] = "contacts" /\ Command(sc)!Order[8] = "leases"
  /\ Command(sc)!Order[9] = "services"
  BY DEF Command!Order

LEMMA FilesAre ==
  ASSUME NEW sc \in CommandScenes PROVE
  /\ Command(sc)!Files = {"root", "binds", "contracts", "access", "individual", "legal", "contacts", "leases", "services"}
  /\ \A i \in 1 .. 9 : Command(sc)!Order[i] \in Command(sc)!Files
  /\ \A i, j \in 1 .. 9 : Command(sc)!Order[i] = Command(sc)!Order[j] => i = j
<1>1. \A i \in 1 .. 9 : i \in {1, 2, 3, 4, 5, 6, 7, 8, 9}
  OBVIOUS
<1>2. \A i \in {1, 2, 3, 4, 5, 6, 7, 8, 9} : i \in 1 .. 9
  OBVIOUS
<1>3. \A i \in 1 .. 9 : Command(sc)!Order[i] \in Command(sc)!Files
  BY OrderIs DEF Command!Files
<1>4. Command(sc)!Files \subseteq {"root", "binds", "contracts", "access", "individual", "legal", "contacts", "leases", "services"}
  BY <1>1, OrderIs DEF Command!Files
<1>5. {"root", "binds", "contracts", "access", "individual", "legal", "contacts", "leases", "services"} \subseteq Command(sc)!Files
  BY <1>2, <1>3, OrderIs
<1>6. \A i, j \in 1 .. 9 : Command(sc)!Order[i] = Command(sc)!Order[j] => i = j
  BY <1>1, OrderIs
<1> QED BY <1>3, <1>4, <1>5, <1>6

(* The filters of the later files are never wider than that of the first. *)
LEMMA RecordsAreRoots ==
  ASSUME NEW sc \in CommandScenes, NEW f \in Command(sc)!Files
  PROVE  Command(sc)!Records(f) \subseteq Command(sc)!Root /\ (f = "root" => Command(sc)!Records(f) = Command(sc)!Root)
<1>1. f \in {"root", "binds", "contracts", "access", "individual", "legal", "contacts", "leases", "services"}
  BY FilesAre
<1>2. Command(sc)!Contracts \subseteq Command(sc)!Root /\ Command(sc)!Individuals \subseteq Command(sc)!Root
  BY DEF Command!Contracts, Command!Individuals, Command!Root, Command!All
<1>3. Command(sc)!AccessPoint \subseteq Command(sc)!Root /\ Command(sc)!Contacts \subseteq Command(sc)!Root /\ Command(sc)!Services \subseteq Command(sc)!Root
  BY <1>2 DEF Command!AccessPoint, Command!Contacts, Command!Services
<1>4. Command(sc)!Leases \subseteq Command(sc)!Root
  BY DEF Command!Leases, Command!Root
<1>5. Command(sc)!Individual \subseteq Command(sc)!Root
  BY DEF Command!Individual, Command!Branch, Command!Person, Command!Checked, Command!Root, Command!All
<1>6. Command(sc)!Legal \subseteq Command(sc)!Root
  BY DEF Command!Legal, Command!Root, Command!All, Command!IsLegal
<1> QED BY <1>1, <1>2, <1>3, <1>4, <1>5, <1>6 DEF Command!Records

(* Whoever is not changed has the root that was read. *)
RootInv(sc) ==
  /\ customer = [c \in Subjects[sc] |-> customer[c]] /\ files = [f \in Command(sc)!Files |-> files[f]]
  /\ at \in Nat /\ at >= 1
  /\ at = 1 => \A f \in Command(sc)!Files : files[f] = {}
  /\ at > 1 /\ "root" \notin failed => Command(sc)!Root \ changed \subseteq files["root"]
  /\ Command(sc)!HasRoot
(* When nothing has failed and nobody was changed the files that were sent are
   complete, and the command died of a row only. *)
Broken(sc) == at \in 1 .. 9 /\ aborted \in {"address", "two", "legal"} /\ Command(sc)!Breaks(Command(sc)!Turn, aborted)
DoneInv(sc) == cFaults = 0 /\ changes = 0 =>
  /\ \A i \in 1 .. 9 : i < at => files[Command(sc)!Order[i]] = Command(sc)!Records(Command(sc)!Order[i])
  /\ aborted # "" => Broken(sc)
CommandInv(sc) == RootInv(sc) /\ DoneInv(sc) /\ cFaults \in Nat /\ changes \in Nat

LEMMA CommandInit ==
  ASSUME NEW sc \in CommandScenes, Command(sc)!Init
  PROVE  CommandInv(sc)
<1>1. customer = [c \in Subjects[sc] |-> customer[c]]
  BY DEF Command!Init
<1>2. files = [f \in Command(sc)!Files |-> {}]
  BY DEF Command!Init, Command!Files
<1>3. Command(sc)!HasRoot
  BY <1>2 DEF Command!HasRoot
<1>4. RootInv(sc)
  <2>1. files = [f \in Command(sc)!Files |-> files[f]] /\ \A f \in Command(sc)!Files : files[f] = {}
    BY <1>2
  <2>2. at = 1
    BY DEF Command!Init
  <2>3. at \in Nat /\ at >= 1 /\ ~(at > 1)
    BY <2>2
  <2> QED BY <1>1, <1>3, <2>1, <2>3 DEF RootInv
<1>5. DoneInv(sc) /\ cFaults \in Nat /\ changes \in Nat
  <2>1. at = 1 /\ aborted = "" /\ cFaults = 0 /\ changes = 0
    BY DEF Command!Init
  <2>2. \A i \in 1 .. 9 : ~(i < at)
    <3>1. at = 1
      BY <2>1
    <3> QED BY <3>1
  <2> QED BY <2>1, <2>2 DEF DoneInv
<1> QED BY <1>4, <1>5 DEF CommandInv

(* Which turn it is. *)
LEMMA TurnIs ==
  ASSUME NEW sc \in CommandScenes, CommandInv(sc), Command(sc)!Goes
  PROVE  at \in 1 .. 9 /\ Command(sc)!Turn \in Command(sc)!Files /\ (Command(sc)!Turn = "root" <=> at = 1) /\ aborted = ""
<1>1. at \in 1 .. 9 /\ aborted = ""
  <2>1. at \in Nat /\ at >= 1
    BY DEF CommandInv, RootInv
  <2>2. at <= Len(Command(sc)!Order) /\ aborted = "" /\ Len(Command(sc)!Order) = 9
    BY OrderIs DEF Command!Goes
  <2>3. at <= 9
    BY <2>2
  <2>4. at \in 1 .. 9
    BY <2>1, <2>3
  <2> QED BY <2>2, <2>4
<1>2. Command(sc)!Turn \in Command(sc)!Files
  BY <1>1, FilesAre DEF Command!Turn
<1>3. Command(sc)!Turn = "root" <=> at = 1
  <2>1. Command(sc)!Order[1] = "root" /\ 1 \in 1 .. 9
    BY OrderIs
  <2>2. \A i \in 1 .. 9 : Command(sc)!Order[i] = Command(sc)!Order[1] <=> i = 1
    BY <2>1, FilesAre
  <2>3. Command(sc)!Turn = Command(sc)!Order[at]
    BY DEF Command!Turn
  <2>4. Command(sc)!Turn = Command(sc)!Order[1] <=> at = 1
    BY <1>1, <2>2, <2>3
  <2> QED BY <2>1, <2>4
<1> QED BY <1>1, <1>2, <1>3

(* What the files have depends on the customers only. *)
LEMMA SameRecords ==
  ASSUME NEW sc \in CommandScenes, UNCHANGED <<customer, located, homeless>>
  PROVE  /\ Command(sc)!Root' = Command(sc)!Root /\ \A f \in Command(sc)!Files : Command(sc)!Records(f)' = Command(sc)!Records(f)
         /\ \A f \in Command(sc)!Files, why \in {"address", "two", "legal"} : Command(sc)!Breaks(f, why)' = Command(sc)!Breaks(f, why)
BY DEF Command!Root, Command!Records, Command!Breaks, Command!All, Command!Active, Command!HasContract,
   Command!IsLegal, Command!Contracts, Command!AccessPoint, Command!Individuals,
       Command!Individual, Command!Branch, Command!Person, Command!Checked, Command!InStreet, Command!Legal, Command!Contacts, Command!Leases, Command!Services, Command!Homeless

LEMMA CommandStep ==
  ASSUME NEW sc \in CommandScenes, CommandInv(sc), [Command(sc)!Next]_(Command(sc)!vars)
  PROVE  CommandInv(sc)'
<1>0. /\ customer = [c \in Subjects[sc] |-> customer[c]] /\ files = [f \in Command(sc)!Files |-> files[f]]
      /\ at \in Nat /\ at >= 1 /\ Command(sc)!HasRoot /\ cFaults \in Nat /\ changes \in Nat
      /\ at = 1 => \A f \in Command(sc)!Files : files[f] = {}
      /\ at > 1 /\ "root" \notin failed => Command(sc)!Root \ changed \subseteq files["root"]
  BY DEF CommandInv, RootInv
<1>a. "root" \in Command(sc)!Files
  BY FilesAre
(* A step that changes no customer. *)
<1>b. ASSUME UNCHANGED <<customer, located, homeless>>
      PROVE  /\ Command(sc)!Root' = Command(sc)!Root /\ \A f \in Command(sc)!Files : Command(sc)!Records(f)' = Command(sc)!Records(f)
             /\ \A f \in Command(sc)!Files, why \in {"address", "two", "legal"} : Command(sc)!Breaks(f, why)' = Command(sc)!Breaks(f, why)
  BY <1>b, SameRecords
<1>1. CASE Command(sc)!Send
  <2>1. /\ Command(sc)!Goes /\ files' = [files EXCEPT ![Command(sc)!Turn] = Command(sc)!Records(Command(sc)!Turn)] /\ at' = at + 1
        /\ changed' = IF Command(sc)!Turn = "root" THEN {} ELSE changed
        /\ UNCHANGED <<customer, located, homeless, failed, aborted, changes, cFaults>>
    BY <1>1 DEF Command!Send, Command!Reads, Command!legalVars
  <2>2. at \in 1 .. 9 /\ Command(sc)!Turn \in Command(sc)!Files /\ (Command(sc)!Turn = "root" <=> at = 1) /\ aborted = ""
    BY <2>1, TurnIs
  <2>3. Command(sc)!Root' = Command(sc)!Root /\ Command(sc)!Records(Command(sc)!Turn) \subseteq Command(sc)!Root /\ (Command(sc)!Turn = "root" => Command(sc)!Records(Command(sc)!Turn) = Command(sc)!Root)
    BY <1>b, <2>1, <2>2, RecordsAreRoots
  <2>4. /\ files' = [f \in Command(sc)!Files |-> files'[f]] /\ files'[Command(sc)!Turn] = Command(sc)!Records(Command(sc)!Turn)
        /\ \A f \in Command(sc)!Files : f # Command(sc)!Turn => files'[f] = files[f]
    BY <1>0, <2>1, <2>2
  <2>5. "root" \notin failed' => Command(sc)!Root' \ changed' \subseteq files'["root"]
    <3>1. CASE Command(sc)!Turn = "root"
      BY <2>3, <2>4, <3>1
    <3>2. CASE Command(sc)!Turn # "root"
      <4>1. at > 1
        <5>1. at \in 1 .. 9
          BY <2>2
        <5>2. at # 1
          BY <2>2, <3>2
        <5> QED BY <5>1, <5>2
      <4> QED BY <1>0, <1>a, <2>1, <2>3, <2>4, <3>2, <4>1
    <3> QED BY <3>1, <3>2
  <2>6. Command(sc)!HasRoot'
    <3> SUFFICES ASSUME "root" \notin failed', NEW f \in Command(sc)!Files PROVE files'[f] \subseteq files'["root"] \cup changed'
      BY DEF Command!HasRoot, Command!Files
    <3>1. CASE Command(sc)!Turn = "root"
      <4>1. f # Command(sc)!Turn => files'[f] = {}
        BY <1>0, <2>2, <2>4, <3>1
      <4> QED BY <3>1, <4>1
    <3>2. CASE Command(sc)!Turn # "root"
      <4>1. files'["root"] = files["root"] /\ changed' = changed
        BY <1>a, <2>1, <2>4, <3>2
      <4>2. CASE f = Command(sc)!Turn
        BY <2>3, <2>4, <2>5, <4>2
      <4>3. CASE f # Command(sc)!Turn
        BY <1>0, <2>1, <2>4, <4>1, <4>3 DEF Command!HasRoot
      <4> QED BY <4>2, <4>3
    <3> QED BY <3>1, <3>2
  <2>7. customer' = [c \in Subjects[sc] |-> customer'[c]]
    BY <1>0, <2>1
  <2>8. at' \in Nat /\ at' >= 1 /\ at' # 1
    <3>1. at \in 1 .. 9 /\ at' = at + 1
      BY <2>1, <2>2
    <3> QED BY <3>1
  <2>9. RootInv(sc)'
    BY <2>4, <2>5, <2>6, <2>7, <2>8 DEF RootInv, Command!Files
  <2>10. DoneInv(sc)'
    <3> SUFFICES ASSUME cFaults = 0, changes = 0
                 PROVE  (\A i \in 1 .. 9 : i < at' => files'[Command(sc)!Order[i]] = Command(sc)!Records(Command(sc)!Order[i])') /\ aborted' = ""
      BY <2>1 DEF DoneInv
    <3>1. ASSUME NEW i \in 1 .. 9, i < at' PROVE files'[Command(sc)!Order[i]] = Command(sc)!Records(Command(sc)!Order[i])
      <4>1. Command(sc)!Order[i] \in Command(sc)!Files /\ (Command(sc)!Order[i] = Command(sc)!Turn <=> i = at)
        BY <2>2, FilesAre DEF Command!Turn
      <4>2. CASE i = at
        BY <2>4, <4>1, <4>2
      <4>3. CASE i # at
        <5>1. i < at
          <6>1. at \in 1 .. 9 /\ at' = at + 1 /\ i < at'
            BY <2>1, <2>2, <3>1
          <6> QED BY <4>3, <6>1
        <5> QED BY <2>4, <4>1, <4>3, <5>1 DEF CommandInv, DoneInv
      <4> QED BY <4>2, <4>3
    <3>2. \A i \in 1 .. 9 : Command(sc)!Records(Command(sc)!Order[i])' = Command(sc)!Records(Command(sc)!Order[i])
      BY <1>b, <2>1, FilesAre DEF Command!Order
    <3> QED BY <2>1, <2>2, <3>1, <3>2
  <2> QED BY <1>0, <2>1, <2>9, <2>10 DEF CommandInv
<1>2. CASE Command(sc)!SendFails
  <2>1. /\ Command(sc)!Goes /\ cFaults' = cFaults + 1
        /\ changed' = IF Command(sc)!Turn = "root" THEN {} ELSE changed
        /\ UNCHANGED <<customer, located, homeless, files, changes>>
    BY <1>2 DEF Command!SendFails, Command!Reads, Command!legalVars
  <2>2. at \in 1 .. 9 /\ Command(sc)!Turn \in Command(sc)!Files /\ (Command(sc)!Turn = "root" <=> at = 1)
    BY <2>1, TurnIs
  <2>3. \/ Command(sc)!Turn = "binds" /\ at' = at /\ failed' = failed
        \/ at' = at + 1 /\ failed' = failed \cup {Command(sc)!Turn}
    BY <1>2 DEF Command!SendFails
  <2>4. Command(sc)!Root' = Command(sc)!Root
    BY <1>b, <2>1
  <2>5. Command(sc)!Turn # "root" => changed' = changed
    BY <2>1
  <2>6. Command(sc)!Turn = "root" => "root" \in failed'
    BY <2>3
  <2>7. "root" \notin failed' => "root" \notin failed /\ changed' = changed /\ at > 1
    <3> SUFFICES ASSUME "root" \notin failed' PROVE "root" \notin failed /\ changed' = changed /\ at > 1
      OBVIOUS
    <3>1. Command(sc)!Turn # "root" /\ "root" \notin failed
      BY <2>3, <2>6
    <3> QED BY <2>2, <2>5, <3>1
  <2>8. "root" \notin failed' => Command(sc)!Root' \ changed' \subseteq files'["root"]
    BY <1>0, <2>1, <2>4, <2>7
  <2>9. Command(sc)!HasRoot'
    BY <1>0, <2>1, <2>7 DEF Command!HasRoot, Command!Files
  <2>10. at' \in Nat /\ at' >= 1 /\ (at' = 1 => at = 1)
    BY <2>2, <2>3
  <2>11. at' = 1 => \A f \in Command(sc)!Files : files'[f] = {}
    BY <1>0, <2>1, <2>10
  <2>12. customer' = [c \in Subjects[sc] |-> customer'[c]] /\ files' = [f \in Command(sc)!Files |-> files'[f]]
    BY <1>0, <2>1
  <2>13. RootInv(sc)'
    BY <2>8, <2>9, <2>10, <2>11, <2>12 DEF RootInv, Command!Files
  <2>14. cFaults' \in Nat /\ changes' \in Nat /\ cFaults' # 0
    BY <1>0, <2>1
  <2> QED BY <2>13, <2>14 DEF CommandInv, DoneInv
<1>3. ASSUME NEW why \in {"address", "two", "legal"}, Command(sc)!Abort(why)
      PROVE  CommandInv(sc)'
  <2>1. /\ Command(sc)!Goes /\ Command(sc)!Breaks(Command(sc)!Turn, why) /\ aborted' = why
        /\ UNCHANGED <<customer, located, homeless, at, files, failed, changed, changes, cFaults>>
    BY <1>3 DEF Command!Abort, Command!legalVars
  <2>2. at \in 1 .. 9 /\ Command(sc)!Turn \in Command(sc)!Files
    BY <2>1, TurnIs
  <2>3. /\ Command(sc)!Root' = Command(sc)!Root /\ \A f \in Command(sc)!Files : Command(sc)!Records(f)' = Command(sc)!Records(f)
        /\ Command(sc)!Breaks(Command(sc)!Turn, why)' = Command(sc)!Breaks(Command(sc)!Turn, why)
    <3>1. Command(sc)!Turn' = Command(sc)!Turn
      BY <2>1 DEF Command!Turn
    <3>2. \A f \in Command(sc)!Files, w \in {"address", "two", "legal"} : Command(sc)!Breaks(f, w)' = Command(sc)!Breaks(f, w)
      BY <1>b, <2>1
    <3> QED BY <1>b, <2>1, <2>2, <3>1, <3>2 DEF Command!Breaks, Command!Turn, Command!All, Command!Active,
               Command!HasContract, Command!IsLegal, Command!Individuals, Command!Homeless
  <2>4. RootInv(sc)'
    BY <1>0, <2>1, <2>3 DEF RootInv, Command!HasRoot, Command!Files
  <2>5. Broken(sc)'
    BY <2>1, <2>2, <2>3 DEF Broken
  <2>6. \A i \in 1 .. 9 : Command(sc)!Records(Command(sc)!Order[i])' = Command(sc)!Records(Command(sc)!Order[i])
    BY <2>3, FilesAre DEF Command!Order
  <2>7. DoneInv(sc)'
    BY <1>0, <2>1, <2>5, <2>6 DEF CommandInv, DoneInv
  <2> QED BY <1>0, <2>1, <2>4, <2>7 DEF CommandInv
<1>4. ASSUME NEW c \in Subjects[sc], Command(sc)!Change(c)
      PROVE  CommandInv(sc)'
  <2>1. /\ changes' = changes + 1 /\ changed' = changed \cup {c}
        /\ UNCHANGED <<located, homeless, at, files, failed, aborted, cFaults>>
    BY <1>4 DEF Command!Change, Command!legalVars
  <2>2. \E r : customer' = [customer EXCEPT ![c] = r]
    <3>1. ASSUME customer' = [customer EXCEPT ![c].active = ~@] PROVE \E r : customer' = [customer EXCEPT ![c] = r]
      <4>1. customer' = [customer EXCEPT ![c] = [customer[c] EXCEPT !.active = ~customer[c].active]]
        BY <3>1
      <4> QED BY <4>1
    <3>2. ASSUME NEW v, customer' = [customer EXCEPT ![c].contracts = v] PROVE \E r : customer' = [customer EXCEPT ![c] = r]
      <4>1. customer' = [customer EXCEPT ![c] = [@ EXCEPT !.contracts = v]]
        BY <3>2
      <4> QED BY <4>1
    <3>3. ASSUME NEW v, customer' = [customer EXCEPT ![c].legals = v] PROVE \E r : customer' = [customer EXCEPT ![c] = r]
      <4>1. customer' = [customer EXCEPT ![c] = [@ EXCEPT !.legals = v]]
        BY <3>3
      <4> QED BY <4>1
    <3>4. ASSUME NEW v, customer' = [customer EXCEPT ![c].address = v] PROVE \E r : customer' = [customer EXCEPT ![c] = r]
      <4>1. customer' = [customer EXCEPT ![c] = [@ EXCEPT !.address = v]]
        BY <3>4
      <4> QED BY <4>1
    <3>5. ASSUME customer' = [customer EXCEPT ![c].passport = ~@] PROVE \E r : customer' = [customer EXCEPT ![c] = r]
      <4>1. customer' = [customer EXCEPT ![c] = [customer[c] EXCEPT !.passport = ~customer[c].passport]]
        BY <3>5
      <4> QED BY <4>1
    <3>6. ASSUME customer' = [customer EXCEPT ![c].static = ~@] PROVE \E r : customer' = [customer EXCEPT ![c] = r]
      <4>1. customer' = [customer EXCEPT ![c] = [customer[c] EXCEPT !.static = ~customer[c].static]]
        BY <3>6
      <4> QED BY <4>1
    <3>7. ASSUME customer' = [customer EXCEPT ![c].service = ~@] PROVE \E r : customer' = [customer EXCEPT ![c] = r]
      <4>1. customer' = [customer EXCEPT ![c] = [customer[c] EXCEPT !.service = ~customer[c].service]]
        BY <3>7
      <4> QED BY <4>1
    <3> QED BY <1>4, <3>1, <3>2, <3>3, <3>4, <3>5, <3>6, <3>7 DEF Command!Change
  <2>3. PICK r : customer' = [customer EXCEPT ![c] = r]
    BY <2>2
  <2>4. customer' = [d \in Subjects[sc] |-> customer'[d]] /\ \A d \in Subjects[sc] : d # c => customer'[d] = customer[d]
    BY <1>0, <2>3
  <2>5. \A d \in Command(sc)!Root' : d # c => d \in Command(sc)!Root
    BY <2>4 DEF Command!Root, Command!All, Command!Active, Command!HasContract, Command!IsLegal
  <2>6. Command(sc)!Root' \ changed' \subseteq Command(sc)!Root \ changed
    BY <2>1, <2>5
  <2>7. "root" \notin failed' /\ at' > 1 => Command(sc)!Root' \ changed' \subseteq files'["root"]
    BY <1>0, <2>1, <2>6
  <2>8. Command(sc)!HasRoot'
    BY <1>0, <2>1 DEF Command!HasRoot, Command!Files
  <2>9. files' = [f \in Command(sc)!Files |-> files'[f]] /\ at' \in Nat /\ at' >= 1
    BY <1>0, <2>1
  <2>10. at' = 1 => \A f \in Command(sc)!Files : files'[f] = {}
    BY <1>0, <2>1
  <2>11. RootInv(sc)'
    BY <2>4, <2>7, <2>8, <2>9, <2>10 DEF RootInv, Command!Files
  <2>12. changes' \in Nat /\ cFaults' \in Nat /\ changes' # 0
    BY <1>0, <2>1
  <2> QED BY <2>11, <2>12 DEF CommandInv, DoneInv
<1>5. CASE UNCHANGED Command(sc)!vars
  <2>1. UNCHANGED <<customer, located, homeless, at, files, failed, aborted, changed, changes, cFaults>>
    BY <1>5 DEF Command!vars, Command!legalVars
  <2>2. /\ Command(sc)!Root' = Command(sc)!Root /\ \A f \in Command(sc)!Files : Command(sc)!Records(f)' = Command(sc)!Records(f)
        /\ \A f \in Command(sc)!Files, w \in {"address", "two", "legal"} : Command(sc)!Breaks(f, w)' = Command(sc)!Breaks(f, w)
    BY <1>b, <2>1
  <2>3. RootInv(sc)'
    BY <1>0, <2>1, <2>2 DEF RootInv, Command!HasRoot, Command!Files
  <2>4. \A i \in 1 .. 9 : Command(sc)!Records(Command(sc)!Order[i])' = Command(sc)!Records(Command(sc)!Order[i])
    BY <2>2, FilesAre DEF Command!Order
  <2>5. ASSUME Broken(sc) PROVE Broken(sc)'
    <3>1. at \in 1 .. 9 /\ aborted \in {"address", "two", "legal"} /\ Command(sc)!Breaks(Command(sc)!Turn, aborted)
      BY <2>5 DEF Broken
    <3>2. Command(sc)!Breaks(Command(sc)!Turn, aborted)'
      BY <2>1, <3>1 DEF Command!Breaks, Command!Turn, Command!All, Command!Active, Command!HasContract,
         Command!IsLegal, Command!Individuals, Command!Homeless
    <3> QED BY <2>1, <3>1, <3>2 DEF Broken
  <2>6. DoneInv(sc)'
    BY <1>0, <2>1, <2>4, <2>5 DEF CommandInv, DoneInv
  <2> QED BY <1>0, <2>1, <2>3, <2>6 DEF CommandInv
<1> QED BY <1>1, <1>2, <1>3, <1>4, <1>5 DEF Command!Next

LEMMA OneIsNotMore == ~(1 > 1) /\ ~(0 > 1)
  BY SMT

(* A row that ends the command is of a customer who is not complete. *)
LEMMA CommandSays ==
  ASSUME NEW sc \in CommandScenes, CommandInv(sc)
  PROVE  Command(sc)!HasRoot /\ Command(sc)!CompleteIsExported
<1>1. Command(sc)!HasRoot
  BY DEF CommandInv, RootInv
<1>2. ASSUME cFaults = 0, changes = 0, homeless = {}, \A c \in Command(sc)!Active : Command(sc)!Complete(c)
      PROVE  /\ aborted = ""
             /\ at > Len(Command(sc)!Order) => \A c \in Command(sc)!Active :
                  /\ c \in files["root"] \cap files["individual"]
                  /\ IF Command(sc)!IsLegal(c) THEN customer[c].legals \subseteq located => c \in files["legal"]
                     ELSE c \in files["access"] \cap files["contacts"] \cap files["contracts"]
  <2>1. /\ \A i \in 1 .. 9 : i < at => files[Command(sc)!Order[i]] = Command(sc)!Records(Command(sc)!Order[i])
        /\ aborted # "" => Broken(sc)
    BY <1>2 DEF CommandInv, DoneInv
  <2>2. /\ \A c \in Command(sc)!Active : customer[c].address = "house"
        /\ \A c \in Command(sc)!Active :
             \/ Command(sc)!Checked(c) /\ customer[c].contracts = "one"
             \/ customer[c].contracts = "none" /\ Command(sc)!Cardinality(customer[c].legals) = 1
    BY <1>2 DEF Command!Complete
  <2>3. aborted = ""
    <3> SUFFICES ASSUME aborted # "" PROVE FALSE
      OBVIOUS
    <3>1. aborted \in {"address", "two", "legal"} /\ Command(sc)!Breaks(Command(sc)!Turn, aborted)
      BY <2>1 DEF Broken
    <3>2. CASE aborted = "address"
      <4>1. PICK c \in Command(sc)!Active : Command(sc)!Homeless(c)
        BY <3>1, <3>2 DEF Command!Breaks, Command!Individuals
      <4> QED BY <2>2, <4>1 DEF Command!Homeless
    <3>3. CASE aborted = "two"
      <4>1. \/ \E c \in Command(sc)!All : Command(sc)!Cardinality(customer[c].legals) > 1
            \/ \E c \in Command(sc)!Active : customer[c].contracts = "two"
        BY <3>1, <3>3 DEF Command!Breaks
      <4>2. CASE \E c \in Command(sc)!Active : customer[c].contracts = "two"
        BY <2>2, <4>2
      <4>3. CASE \E c \in Command(sc)!All : Command(sc)!Cardinality(customer[c].legals) > 1
        <5>1. PICK c \in Command(sc)!All : Command(sc)!Cardinality(customer[c].legals) > 1
          BY <4>3
        <5>2. c \in Command(sc)!Active
          BY DEF Command!All
        <5>3. CASE Command(sc)!Cardinality(customer[c].legals) = 1
          <6>1. ~(1 > 1)
            BY OneIsNotMore
          <6> QED BY <5>1, <5>3, <6>1, Zenon
        <5>4. CASE Command(sc)!Checked(c)
          <6>1. customer[c].legals = {}
            BY <5>4 DEF Command!Checked, Command!IsLegal
          <6>2. Command(sc)!Cardinality(customer[c].legals) = 0
            BY <6>1, FS_EmptySet, CommandOnFiniteSets
          <6>3. ~(0 > 1)
            BY OneIsNotMore
          <6> QED BY <5>1, <6>2, <6>3, Zenon
        <5> QED BY <2>2, <5>2, <5>3, <5>4
      <4> QED BY <4>1, <4>2, <4>3
    <3>4. CASE aborted = "legal"
      BY <1>2, <3>1, <3>4 DEF Command!Breaks
    <3> QED BY <3>1, <3>2, <3>3, <3>4
  <2>4. ASSUME at > Len(Command(sc)!Order), NEW c \in Command(sc)!Active
        PROVE  /\ c \in files["root"] \cap files["individual"]
               /\ IF Command(sc)!IsLegal(c) THEN customer[c].legals \subseteq located => c \in files["legal"]
                  ELSE c \in files["access"] \cap files["contacts"] \cap files["contracts"]
    <3>1. \A i \in 1 .. 9 : files[Command(sc)!Order[i]] = Command(sc)!Records(Command(sc)!Order[i])
      <4>1. at > 9
        BY <2>4, OrderIs
      <4>2. at \in Nat
        BY DEF CommandInv, RootInv
      <4>3. \A i \in 1 .. 9 : i < at
        BY <4>1, <4>2
      <4> QED BY <2>1, <4>3
    <3>2. /\ files["root"] = Command(sc)!Root /\ files["individual"] = Command(sc)!Individual /\ files["legal"] = Command(sc)!Legal
          /\ files["access"] = Command(sc)!AccessPoint /\ files["contacts"] = Command(sc)!Contacts /\ files["contracts"] = Command(sc)!Contracts
      <4>1. /\ 1 \in 1 .. 9 /\ 5 \in 1 .. 9 /\ 6 \in 1 .. 9 /\ 4 \in 1 .. 9 /\ 7 \in 1 .. 9 /\ 3 \in 1 .. 9
        OBVIOUS
      <4>2. files["root"] = Command(sc)!Root /\ files["individual"] = Command(sc)!Individual /\ files["legal"] = Command(sc)!Legal
        BY <3>1, <4>1, OrderIs DEF Command!Records
      <4>3. files["access"] = Command(sc)!AccessPoint /\ files["contacts"] = Command(sc)!Contacts /\ files["contracts"] = Command(sc)!Contracts
        BY <3>1, <4>1, OrderIs DEF Command!Records
      <4> QED BY <4>2, <4>3
    <3>3. customer[c].address = "house"
      BY <2>2
    <3>4. CASE Command(sc)!Checked(c) /\ customer[c].contracts = "one"
      <4>1. c \in Command(sc)!Individuals /\ ~Command(sc)!IsLegal(c)
        BY <3>4 DEF Command!Checked, Command!Individuals
      <4>2. c \in Command(sc)!Root /\ c \in Command(sc)!Individual /\ c \in Command(sc)!AccessPoint /\ c \in Command(sc)!Contacts /\ c \in Command(sc)!Contracts
        BY <3>3, <3>4, <4>1 DEF Command!Root, Command!All, Command!Individual, Command!Person,
           Command!AccessPoint, Command!Contacts, Command!Contracts, Command!Checked
      <4> QED BY <3>2, <4>1, <4>2
    <3>5. CASE customer[c].contracts = "none" /\ Command(sc)!Cardinality(customer[c].legals) = 1
      <4>1. customer[c].legals # {}
        BY <3>5, FS_EmptySet, CommandOnFiniteSets
      <4>2. Command(sc)!IsLegal(c)
        BY <4>1 DEF Command!IsLegal
      <4>3. c \in Command(sc)!Root /\ c \in Command(sc)!Individual
        BY <3>3, <4>2 DEF Command!Root, Command!All, Command!Individual, Command!Branch, Command!InStreet
      <4>4. customer[c].legals \subseteq located => c \in Command(sc)!Legal
        BY <4>1 DEF Command!Legal
      <4> QED BY <3>2, <4>2, <4>3, <4>4
    <3> QED BY <2>2, <3>4, <3>5
  <2> QED BY <2>3, <2>4
<1>3. Command(sc)!CompleteIsExported
  BY <1>2 DEF Command!CompleteIsExported
<1> QED BY <1>1, <1>3

-----------------------------------------------------------------------------
(* The scene of a behaviour does not change. *)
LEMMA SceneStays ==
  /\ Spec => ([](scene = "payments") \/ []~(scene = "payments"))
  /\ Spec => ([](scene = "one payment run") \/ []~(scene = "one payment run"))
  /\ Spec => ([](scene = "accounting") \/ []~(scene = "accounting"))
  /\ Spec => ([](scene = "one accounting task") \/ []~(scene = "one accounting task"))
  /\ Spec => ([](scene = "switches") \/ []~(scene = "switches"))
  /\ Spec => ([](scene = "other events") \/ []~(scene = "other events"))
  /\ Spec => ([](scene = "roots") \/ []~(scene = "roots"))
  /\ Spec => ([](scene = "complete") \/ []~(scene = "complete"))
<1>1. [Next]_vars =>
        /\ (scene = "payments")' <=> (scene = "payments")
        /\ (scene = "one payment run")' <=> (scene = "one payment run")
        /\ (scene = "accounting")' <=> (scene = "accounting")
        /\ (scene = "one accounting task")' <=> (scene = "one accounting task")
        /\ (scene = "switches")' <=> (scene = "switches")
        /\ (scene = "other events")' <=> (scene = "other events")
        /\ (scene = "roots")' <=> (scene = "roots")
        /\ (scene = "complete")' <=> (scene = "complete")
  <2>1. [Next]_vars => scene' = scene
    BY DEF Next, vars
  <2> QED BY <2>1
<1>2. Spec => ([](scene = "payments") \/ []~(scene = "payments"))
  BY <1>1, PTL DEF Spec
<1>3. Spec => ([](scene = "one payment run") \/ []~(scene = "one payment run"))
  BY <1>1, PTL DEF Spec
<1>4. Spec => ([](scene = "accounting") \/ []~(scene = "accounting"))
  BY <1>1, PTL DEF Spec
<1>5. Spec => ([](scene = "one accounting task") \/ []~(scene = "one accounting task"))
  BY <1>1, PTL DEF Spec
<1>6. Spec => ([](scene = "switches") \/ []~(scene = "switches"))
  BY <1>1, PTL DEF Spec
<1>7. Spec => ([](scene = "other events") \/ []~(scene = "other events"))
  BY <1>1, PTL DEF Spec
<1>8. Spec => ([](scene = "roots") \/ []~(scene = "roots"))
  BY <1>1, PTL DEF Spec
<1>9. Spec => ([](scene = "complete") \/ []~(scene = "complete"))
  BY <1>1, PTL DEF Spec
<1> QED BY <1>2, <1>3, <1>4, <1>5, <1>6, <1>7, <1>8, <1>9

(* In its scene, each component behaves as its specification says. *)
LEMMA PaymentsRuns ==
  /\ Spec /\ [](scene = "payments") => Payments("payments")!Spec
  /\ Spec /\ [](scene = "one payment run") => Payments("one payment run")!Spec
<1>1. Init /\ scene = "payments" => Payments("payments")!Init
  BY DEF Init
<1>2. scene = "payments" /\ [Next]_vars => [Payments("payments")!Next]_(Payments("payments")!vars)
  BY DEF Next, vars, paymentVars, Payments!vars, Payments!ghosts, Payments!stamps
<1>3. Init /\ scene = "one payment run" => Payments("one payment run")!Init
  BY DEF Init
<1>4. scene = "one payment run" /\ [Next]_vars => [Payments("one payment run")!Next]_(Payments("one payment run")!vars)
  BY DEF Next, vars, paymentVars, Payments!vars, Payments!ghosts, Payments!stamps
<1> QED BY <1>1, <1>2, <1>3, <1>4, PTL DEF Spec, Payments!Spec

LEMMA AccountingRuns ==
  /\ Spec /\ [](scene = "accounting") => Accounting("accounting")!Spec
  /\ Spec /\ [](scene = "one accounting task") => Accounting("one accounting task")!Spec
<1>1. Init /\ scene = "accounting" => Accounting("accounting")!Init
  BY DEF Init
<1>2. scene = "accounting" /\ [Next]_vars => [Accounting("accounting")!Next]_(Accounting("accounting")!vars)
  BY DEF Next, vars, aaaVars, Accounting!vars, Accounting!ghosts
<1>3. Init /\ scene = "one accounting task" => Accounting("one accounting task")!Init
  BY DEF Init
<1>4. scene = "one accounting task" /\ [Next]_vars => [Accounting("one accounting task")!Next]_(Accounting("one accounting task")!vars)
  BY DEF Next, vars, aaaVars, Accounting!vars, Accounting!ghosts
<1> QED BY <1>1, <1>2, <1>3, <1>4, PTL DEF Spec, Accounting!Spec

LEMMA EventsRuns ==
  /\ Spec /\ [](scene = "switches") => Events("switches")!Spec
  /\ Spec /\ [](scene = "other events") => Events("other events")!Spec
<1>1. Init /\ scene = "switches" => Events("switches")!Init
  BY DEF Init
<1>2. scene = "switches" /\ [Next]_vars => [Events("switches")!Next]_(Events("switches")!vars)
  BY DEF Next, vars, eventVars, Events!vars
<1>3. Init /\ scene = "other events" => Events("other events")!Init
  BY DEF Init
<1>4. scene = "other events" /\ [Next]_vars => [Events("other events")!Next]_(Events("other events")!vars)
  BY DEF Next, vars, eventVars, Events!vars
<1> QED BY <1>1, <1>2, <1>3, <1>4, PTL DEF Spec, Events!Spec

LEMMA CommandRuns ==
  /\ Spec /\ [](scene = "roots") => Command("roots")!Spec
  /\ Spec /\ [](scene = "complete") => Command("complete")!Spec
<1>1. Init /\ scene = "roots" => Command("roots")!Init
  BY DEF Init
<1>2. scene = "roots" /\ [Next]_vars => [Command("roots")!Next]_(Command("roots")!vars)
  BY DEF Next, vars, customerVars, Command!vars, Command!legalVars
<1>3. Init /\ scene = "complete" => Command("complete")!Init
  BY DEF Init
<1>4. scene = "complete" /\ [Next]_vars => [Command("complete")!Next]_(Command("complete")!vars)
  BY DEF Next, vars, customerVars, Command!vars, Command!legalVars
<1> QED BY <1>1, <1>2, <1>3, <1>4, PTL DEF Spec, Command!Spec

(* What each of them promises. *)
LEMMA PaymentsKeep ==
  Payments("payments")!Spec => []Payments("payments")!TypeOK /\ []Payments("payments")!OnlyLateAreMissed
<1>1. "payments" \in PayScenes
  BY DEF PayScenes
<1>2. Payments("payments")!PayerAssumption /\ Payments("payments")!ExportBoundAssumption
  BY <1>1, ExportsAssumption DEF ExportsAssumption
<1>3. Payments("payments")!Init => Payments("payments")!TypeOK /\ MissedInv("payments")
  BY <1>1, <1>2, PaymentsInit
<1>4. Payments("payments")!TypeOK /\ MissedInv("payments") /\ [Payments("payments")!Next]_(Payments("payments")!vars) => Payments("payments")!TypeOK' /\ MissedInv("payments")'
  <2> SUFFICES ASSUME Payments("payments")!TypeOK, MissedInv("payments"),
                      [Payments("payments")!Next]_(Payments("payments")!vars)
               PROVE  Payments("payments")!TypeOK' /\ MissedInv("payments")'
    OBVIOUS
  <2>1. Payments("payments")!TypeOK'
    BY <1>1, <1>2, PaymentsTypeStep
  <2>2. MissedInv("payments")'
    BY <1>1, <1>2, <2>1, MissedStep
  <2> QED BY <2>1, <2>2
<1>5. Payments("payments")!TypeOK /\ MissedInv("payments") => Payments("payments")!TypeOK /\ Payments("payments")!OnlyLateAreMissed
  BY <1>1, <1>2, MissedSays
<1> QED BY <1>3, <1>4, <1>5, PTL DEF Payments!Spec

LEMMA OnePaymentRunKeeps ==
  Payments("one payment run")!Spec => []Payments("one payment run")!TypeOK /\ []Payments("one payment run")!OnlyLateAreMissed /\ []Payments("one payment run")!ExportedOnce
<1>1. "one payment run" \in PayScenes /\ AtOnce("one payment run") = 1
  BY DEF PayScenes, AtOnce
<1>2. Payments("one payment run")!PayerAssumption /\ Payments("one payment run")!ExportBoundAssumption
  BY <1>1, ExportsAssumption DEF ExportsAssumption
<1>3. Payments("one payment run")!Init => Payments("one payment run")!TypeOK /\ MissedInv("one payment run") /\ OnceInv("one payment run")
  BY <1>1, <1>2, PaymentsInit, OnceInit
<1>4. Payments("one payment run")!TypeOK /\ MissedInv("one payment run") /\ OnceInv("one payment run") /\ [Payments("one payment run")!Next]_(Payments("one payment run")!vars) => Payments("one payment run")!TypeOK' /\ MissedInv("one payment run")' /\ OnceInv("one payment run")'
  <2> SUFFICES ASSUME Payments("one payment run")!TypeOK, MissedInv("one payment run"),
                      OnceInv("one payment run"),
                      [Payments("one payment run")!Next]_(Payments("one payment run")!vars)
               PROVE  Payments("one payment run")!TypeOK' /\ MissedInv("one payment run")' /\ OnceInv("one payment run")'
    OBVIOUS
  <2>1. Payments("one payment run")!TypeOK'
    BY <1>1, <1>2, PaymentsTypeStep
  <2>2. MissedInv("one payment run")'
    BY <1>1, <1>2, <2>1, MissedStep
  <2>3. OnceInv("one payment run")'
    BY <1>1, <1>2, <2>1, <2>2, OnceStep
  <2> QED BY <2>1, <2>2, <2>3
<1>5. Payments("one payment run")!TypeOK /\ MissedInv("one payment run") /\ OnceInv("one payment run") => Payments("one payment run")!TypeOK /\ Payments("one payment run")!OnlyLateAreMissed /\ Payments("one payment run")!ExportedOnce
  BY <1>1, <1>2, MissedSays, OnceSays
<1> QED BY <1>3, <1>4, <1>5, PTL DEF Payments!Spec

LEMMA AccountingKeeps ==
  Accounting("accounting")!Spec => []Accounting("accounting")!TypeOK /\ []Accounting("accounting")!RowIsKept
<1>1. "accounting" \in AaaScenes
  BY DEF AaaScenes
<1>2. Accounting("accounting")!AaaBoundAssumption
  BY <1>1, ExportsAssumption DEF ExportsAssumption
<1>3. Accounting("accounting")!Init => RowInv("accounting")
  BY <1>1, <1>2, RowInit
<1>4. RowInv("accounting") /\ [Accounting("accounting")!Next]_(Accounting("accounting")!vars) => RowInv("accounting")'
  BY <1>1, <1>2, RowStep
<1>5. RowInv("accounting") => Accounting("accounting")!TypeOK /\ Accounting("accounting")!RowIsKept
  BY <1>1, <1>2, RowInvImplies DEF RowInv
<1> QED BY <1>3, <1>4, <1>5, PTL DEF Accounting!Spec

LEMMA OneTaskKeeps ==
  Accounting("one accounting task")!Spec => []Accounting("one accounting task")!TypeOK /\ []Accounting("one accounting task")!RowIsKept /\ []Accounting("one accounting task")!SentOnce
<1>1. "one accounting task" \in AaaScenes /\ AtOnce("one accounting task") = 1
  BY DEF AaaScenes, AtOnce
<1>2. Accounting("one accounting task")!AaaBoundAssumption
  BY <1>1, ExportsAssumption DEF ExportsAssumption
<1>3. Accounting("one accounting task")!Init => RowInv("one accounting task") /\ SerialRows("one accounting task")
  BY <1>1, <1>2, RowInit, SerialRowsInit
<1>4. RowInv("one accounting task") /\ SerialRows("one accounting task") /\ [Accounting("one accounting task")!Next]_(Accounting("one accounting task")!vars) => RowInv("one accounting task")' /\ SerialRows("one accounting task")'
  <2> SUFFICES ASSUME RowInv("one accounting task"), SerialRows("one accounting task"),
                      [Accounting("one accounting task")!Next]_(Accounting("one accounting task")!vars)
               PROVE  RowInv("one accounting task")' /\ SerialRows("one accounting task")'
    OBVIOUS
  <2>1. RowInv("one accounting task")'
    BY <1>1, <1>2, RowStep
  <2>2. SerialRows("one accounting task")'
    BY <1>1, <1>2, <2>1, SerialRowsStep
  <2> QED BY <2>1, <2>2
<1>5. RowInv("one accounting task") /\ SerialRows("one accounting task") => Accounting("one accounting task")!TypeOK /\ Accounting("one accounting task")!RowIsKept /\ Accounting("one accounting task")!SentOnce
  BY <1>1, <1>2, RowInvImplies, SerialRowsSay DEF RowInv
<1> QED BY <1>3, <1>4, <1>5, PTL DEF Accounting!Spec

LEMMA SwitchesKeep ==
  Events("switches")!Spec => []Events("switches")!TypeOK /\ []Events("switches")!LatestIsTold /\ []Events("switches")!RemovedIsEnded
<1>1. "switches" \in EventScenes
  BY DEF EventScenes
<1>2. Events("switches")!KindAssumption /\ Events("switches")!EventBoundAssumption
  BY <1>1, ExportsAssumption DEF ExportsAssumption
<1>3. Events("switches")!Init => Events("switches")!TypeOK /\ EventInv("switches")
  BY <1>1, <1>2, EventsInit
<1>4. Events("switches")!TypeOK /\ EventInv("switches") /\ [Events("switches")!Next]_(Events("switches")!vars) => Events("switches")!TypeOK' /\ EventInv("switches")'
  BY <1>1, <1>2, EventStep
<1>5. Events("switches")!TypeOK /\ EventInv("switches") => Events("switches")!TypeOK /\ Events("switches")!LatestIsTold /\ Events("switches")!RemovedIsEnded
  BY <1>1, <1>2, EventSays
<1> QED BY <1>3, <1>4, <1>5, PTL DEF Events!Spec

LEMMA OtherEventsKeep ==
  Events("other events")!Spec => []Events("other events")!TypeOK /\ []Events("other events")!LatestIsTold /\ []Events("other events")!RemovedIsEnded
<1>1. "other events" \in EventScenes
  BY DEF EventScenes
<1>2. Events("other events")!KindAssumption /\ Events("other events")!EventBoundAssumption
  BY <1>1, ExportsAssumption DEF ExportsAssumption
<1>3. Events("other events")!Init => Events("other events")!TypeOK /\ EventInv("other events")
  BY <1>1, <1>2, EventsInit
<1>4. Events("other events")!TypeOK /\ EventInv("other events") /\ [Events("other events")!Next]_(Events("other events")!vars) => Events("other events")!TypeOK' /\ EventInv("other events")'
  BY <1>1, <1>2, EventStep
<1>5. Events("other events")!TypeOK /\ EventInv("other events") => Events("other events")!TypeOK /\ Events("other events")!LatestIsTold /\ Events("other events")!RemovedIsEnded
  BY <1>1, <1>2, EventSays
<1> QED BY <1>3, <1>4, <1>5, PTL DEF Events!Spec

LEMMA RootsKeep ==
  Command("roots")!Spec => []Command("roots")!HasRoot
<1>1. "roots" \in CommandScenes
  BY DEF CommandScenes
<1>2. TRUE
  OBVIOUS
<1>3. Command("roots")!Init => CommandInv("roots")
  BY <1>1, <1>2, CommandInit
<1>4. CommandInv("roots") /\ [Command("roots")!Next]_(Command("roots")!vars) => CommandInv("roots")'
  BY <1>1, <1>2, CommandStep
<1>5. CommandInv("roots") => Command("roots")!HasRoot
  BY <1>1, <1>2, CommandSays
<1> QED BY <1>3, <1>4, <1>5, PTL DEF Command!Spec

LEMMA CompleteKeeps ==
  Command("complete")!Spec => []Command("complete")!CompleteIsExported
<1>1. "complete" \in CommandScenes
  BY DEF CommandScenes
<1>2. TRUE
  OBVIOUS
<1>3. Command("complete")!Init => CommandInv("complete")
  BY <1>1, <1>2, CommandInit
<1>4. CommandInv("complete") /\ [Command("complete")!Next]_(Command("complete")!vars) => CommandInv("complete")'
  BY <1>1, <1>2, CommandStep
<1>5. CommandInv("complete") => Command("complete")!CompleteIsExported
  BY <1>1, <1>2, CommandSays
<1> QED BY <1>3, <1>4, <1>5, PTL DEF Command!Spec

-----------------------------------------------------------------------------
(* The theorems. *)

(* No component leaves its types, in any scene. *)
THEOREM ExportsKeepTypes == Spec => []TypeOK
<1>1. /\ Spec => [](scene = "payments" => Payments("payments")!TypeOK)
      /\ Spec => [](scene = "one payment run" => Payments("one payment run")!TypeOK)
  BY PaymentsKeep, OnePaymentRunKeeps, PaymentsRuns, SceneStays, PTL
<1>2. /\ Spec => [](scene = "accounting" => Accounting("accounting")!TypeOK)
      /\ Spec => [](scene = "one accounting task" => Accounting("one accounting task")!TypeOK)
  BY AccountingKeeps, OneTaskKeeps, AccountingRuns, SceneStays, PTL
<1>3. /\ Spec => [](scene = "switches" => Events("switches")!TypeOK)
      /\ Spec => [](scene = "other events" => Events("other events")!TypeOK)
  BY SwitchesKeep, OtherEventsKeep, EventsRuns, SceneStays, PTL
<1> QED BY <1>1, <1>2, <1>3, PTL DEF TypeOK

(* Payments: however runs of the export overlap, fail and die, a payment the stamp has
   passed and that is in no file is one a run could not see, since it was dated
   or committed behind the run's back; and when runs do not overlap a payment
   is in one file, but for full exports and workers that died before the stamp. *)
THEOREM PaymentsReachTheAuthority == Spec => []PaymentsAreExported
BY PaymentsKeep, OnePaymentRunKeeps, PaymentsRuns, SceneStays, PTL DEF PaymentsAreExported

(* Accounting: a row is on its way, or in the file, or it has arrived, or it was lost
   in one of three ways: failures of FTP and workers that die in an upload
   lose none. *)
THEOREM RowsAreKept == Spec => []RowIsKept
BY AccountingKeeps, OneTaskKeeps, AccountingRuns, SceneStays, PTL DEF RowIsKept

(* Accounting: no row is sent twice when tasks run one at a time, but for a worker that
   dies between the upload and emptying the file. *)
THEOREM RowsAreSentOnce == Spec => []SentOnce
BY OneTaskKeeps, AccountingRuns, SceneStays, PTL DEF SentOnce

(* Events: when none of its tasks waits, the newest record the authority has of an object
   is of its last save, or its end, but for what the ghosts name. *)
THEOREM EventsReachTheAuthority == Spec => []EventsAreTold
BY SwitchesKeep, OtherEventsKeep, EventsRuns, SceneStays, PTL DEF EventsAreTold

(* Customers: no file has a record of a customer without a root, unless he was changed
   meanwhile, and the customers who are complete are in the files about them. *)
THEOREM CustomersReachTheAuthority == Spec => []CustomersAreExported
BY RootsKeep, CompleteKeeps, CommandRuns, SceneStays, PTL DEF CustomersAreExported
=============================================================================
