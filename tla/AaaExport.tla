----------------------------- MODULE AaaExport -----------------------------
(***************************************************************************)
(* The export of RADIUS accounting to the authority.  A signal of          *)
(* radiusapp queues a task that appends one row to a local file            *)
(* (src/apps/sorm_export/signals/aaa.py, save_radius_acct in tasks/aaa.py);*)
(* every 15 minutes another task sends that file by FTP under the name of  *)
(* the current second and then erases it (upload_aaa_2_ftp).               *)
(*                                                                         *)
(* Nothing locks the file, and nothing links what was sent with what is    *)
(* erased.                                                                 *)
(***************************************************************************)
EXTENDS Integers, FiniteSets

CONSTANTS
  Rows,          \* accounting events
  Workers,       \* Celery processes
  MaxInFlight,   \* bound: tasks that run at one time
  MaxDue,        \* bound: uploads that wait in the queue
  MaxSeconds,    \* bound of the clock
  MaxFaults      \* bound: failures of FTP, workers that die

AaaBoundAssumption ==
  /\ IsFiniteSet(Workers) /\ MaxInFlight \in Nat /\ MaxDue \in Nat
  /\ MaxSeconds \in Nat \ {0} /\ MaxFaults \in Nat

VARIABLES
  queue,   \* rows whose append task waits
  due,     \* uploads that wait
  file,    \* rows of AAA_EXPORT_FNAME
  remote,  \* rows of the remote file of each second
  task,    \* what each worker is at
  clock,   \* the current second
  logged,  \* ghost: rows the signals have queued
  sent,    \* ghost: how often a row was sent
  gone,    \* ghost: rows lost, by reason
  faults

ghosts == <<logged, sent, gone>>
vars == <<queue, due, file, remote, task, clock, ghosts, faults>>

-----------------------------------------------------------------------------

Idle == [op |-> "idle"]
Busy == Cardinality({w \in Workers : task[w] # Idle})
Goes(w, next) == task' = [task EXCEPT ![w] = next]
Lose(why, rows) == gone' = [gone EXCEPT ![why] = @ \cup rows]
Fault == faults < MaxFaults /\ faults' = faults + 1

(* A session starts, is updated or stops. *)
Log(r) ==
  /\ r \notin logged
  /\ logged' = logged \cup {r} /\ queue' = queue \cup {r}
  /\ UNCHANGED <<due, file, remote, task, clock, sent, gone, faults>>

(* The beat. *)
Schedule ==
  /\ due < MaxDue /\ due' = due + 1
  /\ UNCHANGED <<queue, file, remote, task, clock, ghosts, faults>>

Tick ==
  /\ clock < MaxSeconds /\ clock' = clock + 1
  /\ UNCHANGED <<queue, due, file, remote, task, ghosts, faults>>

BugTakeAppend(w, r) ==
  /\ task[w] = Idle /\ Busy < MaxInFlight
  /\ r \in queue                              \* never acknowledged
  /\ Goes(w, [op |-> "append", row |-> r])
  /\ UNCHANGED <<queue, due, file, remote, clock, ghosts, faults>>

TakeAppend(w, r) ==
  /\ task[w] = Idle /\ Busy < MaxInFlight
  /\ r \in queue /\ queue' = queue \ {r}
  /\ Goes(w, [op |-> "append", row |-> r])
  /\ UNCHANGED <<due, file, remote, clock, ghosts, faults>>

Erasing == {w \in Workers : task[w].op = "erase"}

(* open(..., "a") and one row; ghost: a row written while another worker is
   between STOR and the erasing will be erased unsent. *)
Append(w) ==
  /\ task[w].op = "append"
  /\ file' = file \cup {task[w].row}
  /\ task' = [v \in Workers |-> IF v = w THEN Idle
               ELSE IF v \in Erasing
               THEN [task[v] EXCEPT !.unsent = @ \cup {task[w].row}] ELSE task[v]]
  /\ UNCHANGED <<queue, due, remote, clock, ghosts, faults>>

(* getsize: nothing is sent of an empty file, but it is erased as well. *)
TakeUpload(w) ==
  /\ task[w] = Idle /\ Busy < MaxInFlight
  /\ due > 0 /\ due' = due - 1
  /\ Goes(w, IF file = {} THEN [op |-> "erase", unsent |-> {}]
                          ELSE [op |-> "stor", name |-> clock])
  /\ UNCHANGED <<queue, file, remote, clock, ghosts, faults>>

(* STOR replaces what has the name. *)
Store(name, rows) ==
  /\ remote' = [remote EXCEPT ![name] = rows]
  /\ sent' = [r \in Rows |-> IF r \in rows THEN sent[r] + 1 ELSE sent[r]]
  /\ Lose("replaced", remote[name] \ rows)

BugStor(w) ==
  /\ task[w].op = "stor"
  /\ Store(task[w].name, file)
  /\ Goes(w, Idle)                             \* the file is not erased
  /\ UNCHANGED <<queue, due, file, clock, logged, faults>>

Stor(w) ==
  /\ task[w].op = "stor"
  /\ Store(task[w].name, file)
  /\ Goes(w, [op |-> "erase", unsent |-> {}])
  /\ UNCHANGED <<queue, due, file, clock, logged, faults>>

BugStorFails(w) ==
  /\ task[w].op = "stor"                       \* except all_errors: pass
  /\ Fault
  /\ Goes(w, [op |-> "erase", unsent |-> {}])
  /\ UNCHANGED <<queue, due, file, remote, clock, ghosts>>

(* An FTP error is no FileNotFoundError: the task fails and the file stays.
   A part of it, or all of it, may have arrived. *)
StorFails(w) ==
  /\ task[w].op = "stor"
  /\ Fault
  /\ \/ \E part \in SUBSET file : Store(task[w].name, part)
     \/ UNCHANGED <<remote, sent, gone>>
  /\ Goes(w, Idle)
  /\ UNCHANGED <<queue, due, file, clock, logged>>

Erase(w) ==
  /\ task[w].op = "erase"
  /\ file' = {}
  /\ Lose("unsent", task[w].unsent \cap file)
  /\ Goes(w, Idle)
  /\ UNCHANGED <<queue, due, remote, clock, logged, sent, faults>>

(* The task of a worker that dies is not run again. *)
Die(w) ==
  /\ task[w] # Idle
  /\ Fault
  /\ IF task[w].op = "append" THEN Lose("dead", {task[w].row}) ELSE UNCHANGED gone
  /\ Goes(w, Idle)
  /\ UNCHANGED <<queue, due, file, remote, clock, logged, sent>>

-----------------------------------------------------------------------------

Init ==
  /\ queue = {} /\ due = 0 /\ file = {}
  /\ remote = [s \in 1 .. MaxSeconds |-> {}]
  /\ task = [w \in Workers |-> Idle]
  /\ clock = 1
  /\ logged = {} /\ sent = [r \in Rows |-> 0]
  /\ gone = [why \in {"replaced", "unsent", "dead"} |-> {}]
  /\ faults = 0

Take(w) == TakeUpload(w) \/ \E r \in Rows : TakeAppend(w, r)
Step(w) == Append(w) \/ Stor(w) \/ Erase(w)

Next ==
  \/ Schedule \/ Tick
  \/ \E r \in Rows : Log(r)
  \/ \E w \in Workers : Take(w) \/ Step(w) \/ StorFails(w) \/ Die(w)

Spec == Init /\ [][Next]_vars

(* The beat goes on, and a worker takes what waits and ends it. *)
FairSpec ==
  /\ Spec
  /\ WF_vars(Schedule)
  /\ \A w \in Workers : WF_vars(Step(w))
  /\ SF_vars(\E w \in Workers : TakeUpload(w))
  /\ \A r \in Rows : SF_vars(\E w \in Workers : TakeAppend(w, r))

-----------------------------------------------------------------------------
(* Properties. *)

Task == {Idle} \cup [op : {"append"}, row : Rows]
               \cup [op : {"stor"}, name : 1 .. MaxSeconds]
               \cup [op : {"erase"}, unsent : SUBSET Rows]

(* Types; a row of the file no longer waits in the queue. *)
TypeOK ==
  /\ queue \subseteq logged /\ logged \subseteq Rows /\ file \subseteq logged
  /\ due \in 0 .. MaxDue /\ clock \in 1 .. MaxSeconds /\ faults \in 0 .. MaxFaults
  /\ remote \in [1 .. MaxSeconds -> SUBSET Rows]
  /\ task \in [Workers -> Task]
  /\ sent \in [Rows -> Nat]
  /\ gone \in [{"replaced", "unsent", "dead"} -> SUBSET Rows]
  /\ queue \cap file = {}

Waits(r) == r \in queue \/ \E w \in Workers : task[w] = [op |-> "append", row |-> r]
Arrived == UNION {remote[s] : s \in 1 .. MaxSeconds}
Lost == UNION {gone[why] : why \in {"replaced", "unsent", "dead"}}

(* A row is lost in three ways only: its worker died, it was written to the
   file between the STOR and the erasing of another worker, or its remote
   file was replaced by one of the same second.  Failures of FTP, and
   workers that die in an upload, lose none. *)
RowIsKept == \A r \in logged :
  Waits(r) \/ r \in file \/ r \in Arrived \/ r \in Lost

(* When tasks run one at a time nothing is erased unsent, and a row is sent
   a second time only after an upload that failed or died halfway. *)
SentOnce ==
  /\ gone["unsent"] = {}
  /\ \A r \in Rows : sent[r] <= 1 + faults

(* Each row is sent in the end, unless its worker died or it was written
   between a STOR and an erasing. *)
RowIsSent == \A r \in Rows :
  r \in logged ~> (sent[r] > 0 \/ r \in gone["dead"] \/ r \in gone["unsent"])
=============================================================================
