----------------------------- MODULE TechTasks -----------------------------
(***************************************************************************)
(* The tasks of technicians and the log of their state changes             *)
(* (src/apps/tasks/models.py and views.py).                                *)
(*                                                                         *)
(* A request reads a task, logs the change it makes, and saves the column: *)
(* finish and do_fail in two statements, the log first; the edit form in   *)
(* one transaction, the row first.  A task is created after a look for an  *)
(* unfinished task of the same customer, by a query of its own.            *)
(***************************************************************************)
EXTENDS Integers, FiniteSets, Sequences

CONSTANTS
  Tasks,         \* ids of tasks
  Customers,
  Staff,         \* who may remove tasks
  Superusers,
  Web,           \* web server threads
  MaxLog,        \* bound: log lines of a task
  MaxFaults,     \* bound: threads that die
  MaxInFlight    \* bound: requests served at one time

StaffAssumption == Superusers \subseteq Staff
TaskBoundAssumption ==
  /\ IsFiniteSet(Web)
  /\ MaxLog \in Nat /\ MaxFaults \in Nat /\ MaxInFlight \in Nat

VARIABLES
  task,      \* the table of tasks
  log,       \* TaskStateChangeLogModel: the state changes of each task
  web,       \* the request each thread works on
  torn,      \* ghost: tasks whose change was logged by a thread that died
  refused,   \* ghost: the answers to requests that remove a task
  faults

vars == <<task, log, web, torn, refused, faults>>

-----------------------------------------------------------------------------

States  == {"new", "confused", "completed"}
Absent  == [state |-> "none"]
Removed == [state |-> "removed"]
Exists(t) == task[t] \notin {Absent, Removed}
Change(old, new) == [from |-> old, to |-> new]

Free == [op |-> "free"]
InFlight == Cardinality({w \in Web : web[w] # Free})
Begin(w, request) ==
  /\ web[w] = Free
  /\ InFlight < MaxInFlight
  /\ web' = [web EXCEPT ![w] = request]
  /\ UNCHANGED <<task, log, torn, refused, faults>>
End(w) == web' = [web EXCEPT ![w] = Free]
Logged(t, change) == log' = [log EXCEPT ![t] = Append(@, change)]
Room(t) == Len(log[t]) < MaxLog

-----------------------------------------------------------------------------
(* create_new_task: refused when the customer has a new task ... *)

HasNew(c) == \E t \in Tasks : Exists(t) /\ task[t].state = "new" /\ task[t].customer = c

(* The request may leave out the name of the customer: then nobody looks. *)
LookForNew(w, c, named) ==
  /\ named => ~HasNew(c)
  /\ Begin(w, [op |-> "create", c |-> c, named |-> named])

(* ... and inserted, with its recipients, in a transaction. *)
Create(w, t) ==
  LET q == web[w] IN
  /\ q.op = "create"
  /\ task[t] = Absent
  /\ task' = [task EXCEPT ![t] = [state |-> "new", customer |-> q.c, named |-> q.named]]
  /\ End(w)
  /\ UNCHANGED <<log, torn, refused, faults>>

-----------------------------------------------------------------------------
(* finish and do_fail: nothing to do if the copy is in that state. *)

ReadToSet(w, t, new) ==
  /\ Exists(t) /\ task[t].state # new
  /\ Room(t)
  /\ Begin(w, [op |-> "log", t |-> t, from |-> task[t].state, to |-> new])

LogChange(w) ==
  LET q == web[w] IN
  /\ q.op = "log"
  /\ Exists(q.t)
  /\ Logged(q.t, Change(q.from, q.to))
  /\ web' = [web EXCEPT ![w].op = "save"]
  /\ UNCHANGED <<task, torn, refused, faults>>

SaveChange(w) ==
  LET q == web[w] IN
  /\ q.op = "save"
  /\ Exists(q.t)
  /\ task' = [task EXCEPT ![q.t].state = q.to]
  /\ End(w)
  /\ UNCHANGED <<log, torn, refused, faults>>

-----------------------------------------------------------------------------
(* update_task_info: the form always carries a state; the log takes it when
   it differs from the state of the copy. *)

ReadToUpdate(w, t, new, c) ==
  /\ Exists(t)
  /\ Room(t)
  /\ Begin(w, [op |-> "update", t |-> t, from |-> task[t].state, to |-> new, c |-> c])

BugUpdate(w) ==                               \* old_data taken after setattr
  LET q == web[w] IN
  /\ q.op = "update"
  /\ Exists(q.t)
  /\ task' = [task EXCEPT ![q.t].state = q.to, ![q.t].customer = q.c]
  /\ UNCHANGED <<log, torn, refused, faults>>
  /\ End(w)

Update(w) ==
  LET q == web[w] IN
  /\ q.op = "update"
  /\ Exists(q.t)
  /\ task' = [task EXCEPT ![q.t].state = q.to, ![q.t].customer = q.c]
  /\ IF q.from # q.to THEN Logged(q.t, Change(q.from, q.to)) ELSE UNCHANGED log
  /\ End(w)
  /\ UNCHANGED <<torn, refused, faults>>

-----------------------------------------------------------------------------
(* The task has been removed meanwhile: the statement raises an error. *)
Fails(w) ==
  /\ web[w].op \in {"log", "save", "update"}
  /\ ~Exists(web[w].t)
  /\ End(w)
  /\ UNCHANGED <<task, log, torn, refused, faults>>

(* The log goes with the task. *)
Remove(u, t) ==
  /\ u \in Superusers /\ Exists(t)
  /\ task' = [task EXCEPT ![t] = Removed]
  /\ log' = [log EXCEPT ![t] = << >>]
  /\ torn' = torn \ {t}
  /\ refused' = refused \cup {"removed"}
  /\ UNCHANGED <<web, faults>>

(* Anyone else is to be told that he may not remove a task assigned to him,
   but recipients_agg is an annotation that the query no longer makes. *)
RemoveByStaff(u, t) ==
  /\ u \in Staff \ Superusers /\ Exists(t)
  /\ refused' = refused \cup {"AttributeError"}
  /\ UNCHANGED <<task, log, web, torn, faults>>

Die(w) ==
  LET q == web[w] IN
  /\ q # Free
  /\ faults < MaxFaults
  /\ faults' = faults + 1
  /\ torn' = IF q.op = "save" THEN torn \cup {q.t} ELSE torn
  /\ End(w)
  /\ UNCHANGED <<task, log, refused>>

-----------------------------------------------------------------------------

Init ==
  /\ task = [t \in Tasks |-> Absent]
  /\ log = [t \in Tasks |-> << >>]
  /\ web = [w \in Web |-> Free]
  /\ torn = {} /\ refused = {} /\ faults = 0

Next ==
  \/ \E w \in Web, c \in Customers, named \in BOOLEAN : LookForNew(w, c, named)
  \/ \E w \in Web, t \in Tasks : Create(w, t)
  \/ \E w \in Web, t \in Tasks : ReadToSet(w, t, "completed") \/ ReadToSet(w, t, "confused")
  \/ \E w \in Web, t \in Tasks, s \in States, c \in Customers : ReadToUpdate(w, t, s, c)
  \/ \E w \in Web : LogChange(w) \/ SaveChange(w) \/ Update(w) \/ Fails(w) \/ Die(w)
  \/ \E u \in Staff, t \in Tasks : Remove(u, t) \/ RemoveByStaff(u, t)

Spec == Init /\ [][Next]_vars

-----------------------------------------------------------------------------
(* Properties. *)

TaskRecord == [state : States, customer : Customers, named : BOOLEAN]
ChangeRecord == [from : States, to : States]
Request == {Free}
  \cup [op : {"create"}, c : Customers, named : BOOLEAN]
  \cup [op : {"log", "save"}, t : Tasks, from : States, to : States]
  \cup [op : {"update"}, t : Tasks, from : States, to : States, c : Customers]

(* Types, and a log line belongs to a task that exists. *)
TypeOK ==
  /\ task \in [Tasks -> {Absent, Removed} \cup TaskRecord]
  /\ log \in [Tasks -> Seq(ChangeRecord)]
  /\ web \in [Web -> Request]
  /\ torn \subseteq Tasks
  /\ refused \subseteq {"removed", "AttributeError"}
  /\ faults \in 0 .. MaxFaults
  /\ \A t \in Tasks : ~Exists(t) => log[t] = << >>

(* However requests overlap and wherever a thread dies, a task is in no
   state that the log does not tell of: it is still new, or some line says
   that it was set so. *)
StateIsLogged == \A t \in Tasks : Exists(t) /\ task[t].state # "new" =>
  \E i \in DOMAIN log[t] : log[t][i].to = task[t].state

(* When requests do not overlap, the log is a history: it starts at new,
   each line starts where the one before it ended, and the last one ends at
   the state of the task; but for a thread that died between log and save,
   and the request that is between them now. *)
Saving(t) == \E w \in Web : web[w].op = "save" /\ web[w].t = t
Present(t) == IF log[t] = << >> THEN "new" ELSE log[t][Len(log[t])].to
LogIsHistory == \A t \in Tasks \ torn : Exists(t) =>
  /\ \A i \in DOMAIN log[t] :
       log[t][i].from = IF i = 1 THEN "new" ELSE log[t][i - 1].to
  /\ ~Saving(t) => task[t].state = Present(t)
=============================================================================
