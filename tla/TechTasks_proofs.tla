-------------------------- MODULE TechTasks_proofs --------------------------
(***************************************************************************)
(* The tasks of technicians keep their types, and a task is in no state    *)
(* its log does not tell of, for any tasks, staff, threads and bounds, and *)
(* however many requests overlap; its log is a history when none do.       *)
(***************************************************************************)
EXTENDS TechTasks, FiniteSetTheorems, TLAPS

-----------------------------------------------------------------------------
(* What a request in flight is made of. *)

LEMMA RequestShape ==
  ASSUME TypeOK, NEW w \in Web
  PROVE  /\ web[w].op = "create" => web[w] \in [op : {"create"}, c : Customers, named : BOOLEAN]
         /\ web[w].op \in {"log", "save"} =>
              web[w] \in [op : {"log", "save"}, t : Tasks, from : States, to : States]
         /\ web[w].op = "update" =>
              web[w] \in [op : {"update"}, t : Tasks, from : States, to : States, c : Customers]
<1>1. web[w] \in Request
  BY DEF TypeOK
<1>2. Free.op = "free"
  BY DEF Free
<1> QED BY <1>1, <1>2 DEF Request

LEMMA TaskShape ==
  ASSUME TypeOK, NEW t \in Tasks, Exists(t)
  PROVE  task[t] \in TaskRecord
BY DEF TypeOK, Exists

(* A thread takes a new request, or goes on, or ends: the others keep theirs. *)
LEMMA WebKept ==
  ASSUME TypeOK, NEW w \in Web, NEW q \in Request, web' = [web EXCEPT ![w] = q]
  PROVE  web' \in [Web -> Request]
BY DEF TypeOK

LEMMA LogGrows ==
  ASSUME TypeOK, NEW t \in Tasks, Exists(t), NEW change \in ChangeRecord, Logged(t, change)
  PROVE  /\ log' \in [Tasks -> Seq(ChangeRecord)]
         /\ \A u \in Tasks : u # t => log'[u] = log[u]
         /\ DOMAIN log[t] \subseteq DOMAIN log'[t]
         /\ \A i \in DOMAIN log[t] : log'[t][i] = log[t][i]
         /\ \E i \in DOMAIN log'[t] : log'[t][i] = change
<1>1. log \in [Tasks -> Seq(ChangeRecord)] /\ log[t] \in Seq(ChangeRecord)
  BY DEF TypeOK
<1>2. log' = [log EXCEPT ![t] = Append(log[t], change)]
  BY DEF Logged
<1>3. Append(log[t], change) \in Seq(ChangeRecord)
  BY <1>1
<1>4. log'[t] = Append(log[t], change)
  BY <1>1, <1>2
<1>5. /\ Len(log'[t]) = Len(log[t]) + 1
      /\ log'[t][Len(log[t]) + 1] = change
      /\ \A i \in 1 .. Len(log[t]) : log'[t][i] = log[t][i]
      /\ DOMAIN log[t] = 1 .. Len(log[t]) /\ DOMAIN log'[t] = 1 .. Len(log[t]) + 1
      /\ Len(log[t]) \in Nat
  BY <1>1, <1>4
<1>6. DOMAIN log[t] \subseteq DOMAIN log'[t]
  BY <1>5
<1>7. \E i \in DOMAIN log'[t] : log'[t][i] = change
  BY <1>5
<1> QED BY <1>1, <1>2, <1>3, <1>5, <1>6, <1>7

-----------------------------------------------------------------------------
(* Types. *)

LEMMA TypeInit ==
  ASSUME TaskBoundAssumption, Init
  PROVE  TypeOK
BY DEF TaskBoundAssumption, Init, TypeOK, Request, Exists, Absent

(* A request that is begun changes nothing but the thread. *)
LEMMA BeginTypes ==
  ASSUME TypeOK, NEW w \in Web, NEW q \in Request, Begin(w, q)
  PROVE  TypeOK'
<1>1. web' \in [Web -> Request]
  BY WebKept DEF Begin
<1> QED BY <1>1 DEF Begin, TypeOK, Exists

(* A request that ends leaves its thread free. *)
LEMMA EndTypes ==
  ASSUME TypeOK, NEW w \in Web, End(w)
  PROVE  web' \in [Web -> Request]
<1>1. Free \in Request
  BY DEF Request
<1> QED BY <1>1, WebKept DEF End

LEMMA CreateTypes ==
  ASSUME TypeOK, NEW w \in Web, NEW t \in Tasks, Create(w, t)
  PROVE  TypeOK'
<1>1. web' \in [Web -> Request]
  BY EndTypes DEF Create
<1>2. web[w] \in [op : {"create"}, c : Customers, named : BOOLEAN]
  BY RequestShape DEF Create
<1> DEFINE r == [state |-> "new", customer |-> web[w].c, named |-> web[w].named]
<1>3. r \in TaskRecord
  BY <1>2 DEF TaskRecord, States
<1>4. task' = [task EXCEPT ![t] = r]
  BY DEF Create
<1>5. \A u \in Tasks : ~Exists(u)' => log'[u] = << >>
  <2> HIDE DEF r
  <2> QED BY <1>4, <1>3 DEF Create, TypeOK, Exists
<1> HIDE DEF r
<1> QED BY <1>1, <1>3, <1>4, <1>5 DEF Create, TypeOK

LEMMA LogTypes ==
  ASSUME TypeOK, NEW w \in Web, LogChange(w)
  PROVE  TypeOK'
<1> DEFINE q == web[w]
<1>1. q \in [op : {"log", "save"}, t : Tasks, from : States, to : States]
  BY RequestShape DEF LogChange
<1>2. Change(q.from, q.to) \in ChangeRecord
  BY <1>1 DEF Change, ChangeRecord
<1>3. /\ log' \in [Tasks -> Seq(ChangeRecord)]
      /\ \A u \in Tasks : u # q.t => log'[u] = log[u]
  BY <1>1, <1>2, LogGrows DEF LogChange
<1>4. [q EXCEPT !.op = "save"] \in Request
  BY <1>1 DEF Request
<1>5. web' \in [Web -> Request]
  <2>1. web' = [web EXCEPT ![w] = [q EXCEPT !.op = "save"]]
    BY DEF LogChange
  <2> QED BY <1>4, <2>1, WebKept
<1>6. \A u \in Tasks : ~Exists(u)' => log'[u] = << >>
  BY <1>3 DEF LogChange, TypeOK, Exists
<1> QED BY <1>3, <1>5, <1>6 DEF LogChange, TypeOK

(* The row a request writes over keeps its type. *)
LEMMA StateSetTypes ==
  ASSUME TypeOK, NEW t \in Tasks, Exists(t), NEW s \in States,
         \/ task' = [task EXCEPT ![t].state = s]
         \/ \E c \in Customers : task' = [task EXCEPT ![t].state = s, ![t].customer = c]
  PROVE  /\ task' \in [Tasks -> {Absent, Removed} \cup TaskRecord]
         /\ \A u \in Tasks : u # t => task'[u] = task[u]
         /\ task'[t] \in TaskRecord /\ task'[t].state = s
         /\ \A u \in Tasks : Exists(u)' <=> Exists(u)
<1>1. task[t] \in TaskRecord
  BY TaskShape
<1>2. \E r \in TaskRecord : r.state = s /\ task' = [task EXCEPT ![t] = r]
  <2>1. CASE task' = [task EXCEPT ![t].state = s]
    <3>1. [task[t] EXCEPT !.state = s] \in TaskRecord /\ [task[t] EXCEPT !.state = s].state = s
      BY <1>1 DEF TaskRecord
    <3>2. task' = [task EXCEPT ![t] = [task[t] EXCEPT !.state = s]]
      BY <2>1
    <3> QED BY <3>1, <3>2
  <2>2. CASE \E c \in Customers : task' = [task EXCEPT ![t].state = s, ![t].customer = c]
    <3>1. PICK c \in Customers : task' = [task EXCEPT ![t].state = s, ![t].customer = c]
      BY <2>2
    <3> DEFINE r == [[task[t] EXCEPT !.state = s] EXCEPT !.customer = c]
    <3>2. r \in TaskRecord /\ r.state = s
      BY <1>1 DEF TaskRecord
    <3>3. task' = [task EXCEPT ![t] = r]
      BY <3>1 DEF TypeOK
    <3> QED BY <3>2, <3>3
  <2> QED BY <2>1, <2>2
<1>3. \A r \in TaskRecord : r # Absent /\ r # Removed
  BY DEF TaskRecord, Absent, Removed, States
<1>4. \A u \in Tasks : Exists(u)' <=> Exists(u)
  BY <1>2, <1>3 DEF TypeOK, Exists
<1> QED BY <1>2, <1>4 DEF TypeOK

LEMMA SaveTypes ==
  ASSUME TypeOK, NEW w \in Web, SaveChange(w)
  PROVE  TypeOK'
<1> DEFINE q == web[w]
<1>1. q \in [op : {"log", "save"}, t : Tasks, from : States, to : States]
  BY RequestShape DEF SaveChange
<1>2. /\ task' \in [Tasks -> {Absent, Removed} \cup TaskRecord]
      /\ \A u \in Tasks : Exists(u)' <=> Exists(u)
  BY <1>1, StateSetTypes DEF SaveChange
<1>3. web' \in [Web -> Request]
  BY EndTypes DEF SaveChange
<1> QED BY <1>2, <1>3 DEF SaveChange, TypeOK

LEMMA UpdateTypes ==
  ASSUME TypeOK, NEW w \in Web, Update(w)
  PROVE  TypeOK'
<1> DEFINE q == web[w]
<1>1. q \in [op : {"update"}, t : Tasks, from : States, to : States, c : Customers]
  BY RequestShape DEF Update
<1>2. /\ task' \in [Tasks -> {Absent, Removed} \cup TaskRecord]
      /\ \A u \in Tasks : Exists(u)' <=> Exists(u)
  <2>1. task' = [task EXCEPT ![q.t].state = q.to, ![q.t].customer = q.c] /\ Exists(q.t)
    BY DEF Update
  <2> HIDE DEF q
  <2> QED BY <1>1, <2>1, StateSetTypes
<1>3. web' \in [Web -> Request]
  BY EndTypes DEF Update
<1>4. /\ log' \in [Tasks -> Seq(ChangeRecord)]
      /\ \A u \in Tasks : u # q.t => log'[u] = log[u]
  <2>1. CASE q.from # q.to
    <3>1. Change(q.from, q.to) \in ChangeRecord
      BY <1>1 DEF Change, ChangeRecord
    <3> QED BY <1>1, <2>1, <3>1, LogGrows DEF Update
  <2>2. CASE q.from = q.to
    BY <2>2 DEF Update, TypeOK
  <2> QED BY <2>1, <2>2
<1>5. \A u \in Tasks : ~Exists(u)' => log'[u] = << >>
  BY <1>2, <1>4 DEF Update, TypeOK
<1> QED BY <1>2, <1>3, <1>4, <1>5 DEF Update, TypeOK

LEMMA RemoveTypes ==
  ASSUME TypeOK, NEW u \in Staff, NEW t \in Tasks, Remove(u, t)
  PROVE  TypeOK'
<1>1. \A v \in Tasks : ~Exists(v)' => log'[v] = << >>
  BY DEF Remove, TypeOK, Exists
<1>2. log' \in [Tasks -> Seq(ChangeRecord)]
  <2>1. << >> \in Seq(ChangeRecord)
    OBVIOUS
  <2> QED BY <2>1 DEF Remove, TypeOK
<1> QED BY <1>1, <1>2 DEF Remove, TypeOK

LEMMA TypeStep ==
  ASSUME TaskBoundAssumption, TypeOK, [Next]_vars
  PROVE  TypeOK'
<1>1. CASE \E w \in Web, c \in Customers, named \in BOOLEAN : LookForNew(w, c, named)
  <2>1. PICK w \in Web, c \in Customers, named \in BOOLEAN : LookForNew(w, c, named)
    BY <1>1
  <2>2. [op |-> "create", c |-> c, named |-> named] \in Request
    BY DEF Request
  <2> QED BY <2>1, <2>2, BeginTypes DEF LookForNew
<1>2. CASE \E w \in Web, t \in Tasks : Create(w, t)
  BY <1>2, CreateTypes
<1>3. CASE \E w \in Web, t \in Tasks, s \in {"completed", "confused"} : ReadToSet(w, t, s)
  <2>1. PICK w \in Web, t \in Tasks, s \in {"completed", "confused"} : ReadToSet(w, t, s)
    BY <1>3
  <2>2. task[t].state \in States
    BY <2>1, TaskShape DEF ReadToSet, TaskRecord
  <2>3. [op |-> "log", t |-> t, from |-> task[t].state, to |-> s] \in Request
    BY <2>2 DEF Request, States
  <2> QED BY <2>1, <2>3, BeginTypes DEF ReadToSet
<1>4. CASE \E w \in Web, t \in Tasks, s \in States, c \in Customers : ReadToUpdate(w, t, s, c)
  <2>1. PICK w \in Web, t \in Tasks, s \in States, c \in Customers : ReadToUpdate(w, t, s, c)
    BY <1>4
  <2>2. task[t].state \in States
    BY <2>1, TaskShape DEF ReadToUpdate, TaskRecord
  <2>3. [op |-> "update", t |-> t, from |-> task[t].state, to |-> s, c |-> c] \in Request
    BY <2>2 DEF Request
  <2> QED BY <2>1, <2>3, BeginTypes DEF ReadToUpdate
<1>5. CASE \E w \in Web : LogChange(w) \/ SaveChange(w) \/ Update(w)
  BY <1>5, LogTypes, SaveTypes, UpdateTypes
<1>6. CASE \E w \in Web : Fails(w) \/ Die(w)
  <2>1. PICK w \in Web : Fails(w) \/ Die(w)
    BY <1>6
  <2>2. web' \in [Web -> Request]
    BY <2>1, EndTypes DEF Fails, Die
  <2>3. torn' \subseteq Tasks /\ faults' \in 0 .. MaxFaults
    BY <2>1, RequestShape DEF Fails, Die, TypeOK, TaskBoundAssumption
  <2> QED BY <2>1, <2>2, <2>3 DEF Fails, Die, TypeOK, Exists
<1>7. CASE \E u \in Staff, t \in Tasks : Remove(u, t) \/ RemoveByStaff(u, t)
  <2>1. PICK u \in Staff, t \in Tasks : Remove(u, t) \/ RemoveByStaff(u, t)
    BY <1>7
  <2>2. CASE RemoveByStaff(u, t)
    BY <2>2 DEF RemoveByStaff, TypeOK, Exists
  <2> QED BY <2>1, <2>2, RemoveTypes
<1>8. CASE UNCHANGED vars
  BY <1>8 DEF vars, TypeOK, Exists
<1> QED BY <1>1, <1>2, <1>3, <1>4, <1>5, <1>6, <1>7, <1>8 DEF Next

(* The types are kept, and a log line belongs to a task that exists: neither
   a statement that comes after the removal of its task, nor the cascade of the
   removal, leaves a line behind. *)
THEOREM TasksKeepTypes ==
  ASSUME TaskBoundAssumption
  PROVE  Spec => []TypeOK
<1>1. Init => TypeOK
  BY TypeInit
<1>2. TypeOK /\ [Next]_vars => TypeOK'
  BY TypeStep
<1> QED BY <1>1, <1>2, PTL DEF Spec

-----------------------------------------------------------------------------
(* The log tells of the state. *)

Told(lines, s) == s = "new" \/ \E i \in DOMAIN lines : lines[i].to = s

(* Besides the property: what a request is about to set has been logged, by it
   or, when it read the state it is to set, by whoever set that.  A thread that
   dies leaves a line too many, never one too few. *)
LogInv ==
  /\ \A t \in Tasks : Exists(t) => Told(log[t], task[t].state)
  /\ \A w \in Web : web[w].op \in {"save", "update"} => task[web[w].t] # Absent
  /\ \A w \in Web : web[w].op = "save" /\ Exists(web[w].t) => Told(log[web[w].t], web[w].to)
  /\ \A w \in Web : web[w].op = "update" /\ Exists(web[w].t) => Told(log[web[w].t], web[w].from)

LEMMA LogInvImplies ==
  ASSUME LogInv
  PROVE  StateIsLogged
BY DEF LogInv, StateIsLogged, Told

(* A step that writes no task and no log, and begins no request that sets one. *)
LEMMA QuietTold ==
  ASSUME LogInv, UNCHANGED <<task, log>>,
         \A v \in Web : web'[v] = web[v] \/ web'[v].op \notin {"save", "update"}
  PROVE  LogInv'
BY DEF LogInv, Exists

LEMMA ReadTold ==
  ASSUME TypeOK, LogInv, NEW w \in Web, NEW t \in Tasks, NEW s \in States, NEW c \in Customers,
         ReadToUpdate(w, t, s, c)
  PROVE  LogInv'
<1> DEFINE q == [op |-> "update", t |-> t, from |-> task[t].state, to |-> s, c |-> c]
<1>1. /\ web' = [web EXCEPT ![w] = q] /\ UNCHANGED <<task, log>>
      /\ Exists(t) /\ Told(log[t], task[t].state)
  BY DEF ReadToUpdate, Begin, LogInv
<1>2. web'[w] = q /\ \A v \in Web \ {w} : web'[v] = web[v]
  BY <1>1 DEF TypeOK
<1>3. task[t] # Absent
  BY <1>1 DEF Exists
<1> QED BY <1>1, <1>2, <1>3 DEF LogInv, Exists

(* A task that is made is new, and no request has seen its id. *)
LEMMA CreateTold ==
  ASSUME TypeOK, LogInv, NEW w \in Web, NEW t \in Tasks, Create(w, t)
  PROVE  LogInv'
<1> DEFINE r == [state |-> "new", customer |-> web[w].c, named |-> web[w].named]
<1>1. /\ task[t] = Absent /\ task' = [task EXCEPT ![t] = r] /\ log' = log
      /\ web' = [web EXCEPT ![w] = Free]
  BY DEF Create, End
<1>2. task'[t].state = "new" /\ \A u \in Tasks \ {t} : task'[u] = task[u]
  BY <1>1 DEF TypeOK
<1>3. web'[w].op = "free" /\ \A v \in Web \ {w} : web'[v] = web[v]
  BY <1>1 DEF TypeOK, Free
<1>4. \A v \in Web : web[v].op \in {"save", "update"} => web[v].t # t /\ web[v].t \in Tasks
  BY <1>1, RequestShape DEF LogInv
<1> HIDE DEF r
<1>5. \A u \in Tasks : Exists(u)' => Told(log'[u], task'[u].state)
  BY <1>1, <1>2 DEF LogInv, Told, Exists
<1>6. \A v \in Web : web'[v].op \in {"save", "update"} =>
        /\ web'[v] = web[v]
        /\ task'[web[v].t] = task[web[v].t]
  BY <1>2, <1>3, <1>4
<1> QED BY <1>1, <1>5, <1>6 DEF LogInv, Exists

LEMMA LogTold ==
  ASSUME TypeOK, LogInv, NEW w \in Web, LogChange(w)
  PROVE  LogInv'
<1> DEFINE q == web[w]
<1>1. q \in [op : {"log", "save"}, t : Tasks, from : States, to : States]
  BY RequestShape DEF LogChange
<1>2. Change(q.from, q.to) \in ChangeRecord /\ Change(q.from, q.to).to = q.to
  BY <1>1 DEF Change, ChangeRecord
<1>3. Exists(q.t) /\ Logged(q.t, Change(q.from, q.to)) /\ task' = task
  BY DEF LogChange
<1>4. /\ \A u \in Tasks : u # q.t => log'[u] = log[u]
      /\ DOMAIN log[q.t] \subseteq DOMAIN log'[q.t]
      /\ \A i \in DOMAIN log[q.t] : log'[q.t][i] = log[q.t][i]
      /\ \E i \in DOMAIN log'[q.t] : log'[q.t][i] = Change(q.from, q.to)
  BY <1>1, <1>2, <1>3, LogGrows
<1>5. \A u \in Tasks : \A s : Told(log[u], s) => Told(log'[u], s)
  BY <1>1, <1>4 DEF Told
<1>6. Told(log'[q.t], q.to)
  BY <1>2, <1>4 DEF Told
<1>7. /\ web'[w].t = q.t /\ web'[w].to = q.to /\ web'[w].op = "save"
      /\ \A v \in Web \ {w} : web'[v] = web[v]
  BY <1>1 DEF LogChange, TypeOK
<1>8. task[q.t] # Absent
  BY <1>3 DEF Exists
<1>9. \A v \in Web : web[v].op \in {"save", "update"} => web[v].t \in Tasks
  BY RequestShape
<1> QED BY <1>3, <1>5, <1>6, <1>7, <1>8, <1>9 DEF LogInv, Exists

(* The request ends; the state it sets is told of. *)
LEMMA SetTold ==
  ASSUME TypeOK, TypeOK', LogInv, NEW w \in Web, NEW t \in Tasks, NEW s \in States, Exists(t), End(w),
         \/ task' = [task EXCEPT ![t].state = s]
         \/ \E c \in Customers : task' = [task EXCEPT ![t].state = s, ![t].customer = c],
         \A u \in Tasks : \A x : Told(log[u], x) => Told(log'[u], x),
         Told(log'[t], s)
  PROVE  LogInv'
<1>1. /\ \A u \in Tasks : u # t => task'[u] = task[u]
      /\ task'[t] \in TaskRecord /\ task'[t].state = s
      /\ \A u \in Tasks : Exists(u)' <=> Exists(u)
  BY StateSetTypes
<1>2. \A u \in Tasks : Exists(u)' => Told(log'[u], task'[u].state)
  BY <1>1 DEF LogInv
<1>3. web'[w].op = "free" /\ \A v \in Web \ {w} : web'[v] = web[v]
  BY DEF End, TypeOK, Free
<1>4. \A v \in Web : web[v].op \in {"save", "update"} => web[v].t \in Tasks
  BY RequestShape
<1>5. \A u \in Tasks : task[u] # Absent => task'[u] # Absent
  BY <1>1 DEF TaskRecord, Absent
<1>6. \A v \in Web : web'[v].op \in {"save", "update"} => task'[web'[v].t] # Absent
  BY <1>3, <1>4, <1>5 DEF LogInv
<1>7. \A v \in Web : web'[v].op = "save" /\ task'[web'[v].t] \notin {Absent, Removed} => Told(log'[web'[v].t], web'[v].to)
  BY <1>1, <1>3, <1>4 DEF LogInv, Exists
<1>8. \A v \in Web : web'[v].op = "update" /\ task'[web'[v].t] \notin {Absent, Removed} => Told(log'[web'[v].t], web'[v].from)
  BY <1>1, <1>3, <1>4 DEF LogInv, Exists
<1> QED BY <1>2, <1>6, <1>7, <1>8 DEF LogInv, Exists

LEMMA SaveTold ==
  ASSUME TypeOK, TypeOK', LogInv, NEW w \in Web, SaveChange(w)
  PROVE  LogInv'
<1> DEFINE q == web[w]
<1>1. q \in [op : {"log", "save"}, t : Tasks, from : States, to : States]
  BY RequestShape DEF SaveChange
<1>2. /\ Exists(q.t) /\ log' = log /\ End(w) /\ task' = [task EXCEPT ![q.t].state = q.to]
      /\ Told(log[q.t], q.to)
  BY DEF SaveChange, LogInv
<1> HIDE DEF q
<1> QED BY <1>1, <1>2, SetTold

LEMMA UpdateTold ==
  ASSUME TypeOK, TypeOK', LogInv, NEW w \in Web, Update(w)
  PROVE  LogInv'
<1> DEFINE q == web[w]
<1>1. q \in [op : {"update"}, t : Tasks, from : States, to : States, c : Customers]
  BY RequestShape DEF Update
<1>2. /\ Exists(q.t) /\ End(w)
      /\ task' = [task EXCEPT ![q.t].state = q.to, ![q.t].customer = q.c]
      /\ Told(log[q.t], q.from)
      /\ IF q.from # q.to THEN Logged(q.t, Change(q.from, q.to)) ELSE log' = log
  BY DEF Update, LogInv
<1> HIDE DEF q
<1>3. /\ \A u \in Tasks : \A x : Told(log[u], x) => Told(log'[u], x)
      /\ Told(log'[q.t], q.to)
  <2>1. CASE q.from = q.to
    BY <1>2, <2>1
  <2>2. CASE q.from # q.to
    <3>1. Change(q.from, q.to) \in ChangeRecord /\ Change(q.from, q.to).to = q.to
      BY <1>1 DEF Change, ChangeRecord
    <3>2. /\ \A u \in Tasks : u # q.t => log'[u] = log[u]
          /\ DOMAIN log[q.t] \subseteq DOMAIN log'[q.t]
          /\ \A i \in DOMAIN log[q.t] : log'[q.t][i] = log[q.t][i]
          /\ \E i \in DOMAIN log'[q.t] : log'[q.t][i] = Change(q.from, q.to)
      BY <1>1, <1>2, <2>2, <3>1, LogGrows
    <3> QED BY <1>1, <3>1, <3>2 DEF Told
  <2> QED BY <2>1, <2>2
<1> QED BY <1>1, <1>2, <1>3, SetTold

(* The log goes with the task, and the statements that come later fail. *)
LEMMA RemoveTold ==
  ASSUME TypeOK, LogInv, NEW u \in Staff, NEW t \in Tasks, Remove(u, t)
  PROVE  LogInv'
<1>1. /\ \A v \in Tasks \ {t} : task'[v] = task[v] /\ log'[v] = log[v]
      /\ task'[t] = Removed /\ ~Exists(t)' /\ web' = web
  BY DEF Remove, TypeOK, Exists
<1>2. \A v \in Web : web[v].op \in {"save", "update"} => web[v].t \in Tasks
  BY RequestShape
<1>3. Removed # Absent
  BY DEF Removed, Absent
<1> QED BY <1>1, <1>2, <1>3 DEF LogInv, Exists

LEMMA LogStep ==
  ASSUME TypeOK, TypeOK', LogInv, [Next]_vars
  PROVE  LogInv'
<1>1. CASE \E w \in Web, c \in Customers, named \in BOOLEAN : LookForNew(w, c, named)
  BY <1>1, QuietTold DEF LookForNew, Begin, TypeOK
<1>2. CASE \E w \in Web, t \in Tasks : Create(w, t)
  BY <1>2, CreateTold
<1>3. CASE \E w \in Web, t \in Tasks, s \in {"completed", "confused"} : ReadToSet(w, t, s)
  BY <1>3, QuietTold DEF ReadToSet, Begin, TypeOK
<1>4. CASE \E w \in Web, t \in Tasks, s \in States, c \in Customers : ReadToUpdate(w, t, s, c)
  BY <1>4, ReadTold
<1>5. CASE \E w \in Web : LogChange(w) \/ SaveChange(w) \/ Update(w)
  BY <1>5, LogTold, SaveTold, UpdateTold
<1>6. CASE \E w \in Web : Fails(w) \/ Die(w)
  BY <1>6, QuietTold DEF Fails, Die, End, Free, TypeOK
<1>7. CASE \E u \in Staff, t \in Tasks : Remove(u, t) \/ RemoveByStaff(u, t)
  <2>1. PICK u \in Staff, t \in Tasks : Remove(u, t) \/ RemoveByStaff(u, t)
    BY <1>7
  <2>2. CASE RemoveByStaff(u, t)
    BY <2>2, QuietTold DEF RemoveByStaff
  <2> QED BY <2>1, <2>2, RemoveTold
<1>8. CASE UNCHANGED vars
  BY <1>8, QuietTold DEF vars
<1> QED BY <1>1, <1>2, <1>3, <1>4, <1>5, <1>6, <1>7, <1>8 DEF Next

(* A task is in no state that its log does not tell of, with any number of
   threads, and wherever they die. *)
THEOREM StateAlwaysLogged ==
  ASSUME TaskBoundAssumption
  PROVE  Spec => []StateIsLogged
<1>1. Init => LogInv
  BY DEF Init, LogInv, Exists, Absent, Free
<1>2. TypeOK /\ TypeOK' /\ LogInv /\ [Next]_vars => LogInv'
  BY LogStep
<1>3. Spec => []LogInv
  BY <1>1, <1>2, TasksKeepTypes, PTL DEF Spec
<1>4. LogInv => StateIsLogged
  BY LogInvImplies
<1> QED BY <1>3, <1>4, PTL

-----------------------------------------------------------------------------
(* With one request at a time the log is a history. *)

History(lines) ==
  \A i \in DOMAIN lines : lines[i].from = IF i = 1 THEN "new" ELSE lines[i - 1].to
Ends(lines) == IF lines = << >> THEN "new" ELSE lines[Len(lines)].to

(* Besides the property: the copy a request holds agrees with the table, and what
   it is about to save is the end of the log; all this of tasks whose change no
   thread left half made. *)
Alone == \A v, w \in Web : web[v] # Free /\ web[w] # Free => v = w
Fits(q, tbl, lg, tn) ==
  q.op \in {"log", "save", "update"} /\ q.t \notin tn /\ tbl[q.t] \notin {Absent, Removed} =>
    IF q.op = "save" THEN q.to = Ends(lg[q.t]) ELSE q.from = tbl[q.t].state
HistoryInv ==
  /\ Alone
  /\ LogIsHistory
  /\ \A w \in Web : Fits(web[w], task, log, torn)

LEMMA HistoryGrows ==
  ASSUME NEW lines \in Seq(ChangeRecord), NEW c \in ChangeRecord, History(lines), c.from = Ends(lines)
  PROVE  History(Append(lines, c)) /\ Ends(Append(lines, c)) = c.to
<1> DEFINE n == Len(lines)
           more == Append(lines, c)
<1>1. /\ n \in Nat /\ DOMAIN lines = 1 .. n /\ DOMAIN more = 1 .. n + 1 /\ Len(more) = n + 1
      /\ more[n + 1] = c /\ \A i \in 1 .. n : more[i] = lines[i]
      /\ more # << >> /\ (lines = << >> <=> n = 0)
  OBVIOUS
<1>2. more[n + 1].from = IF n + 1 = 1 THEN "new" ELSE more[n].to
  <2> HIDE DEF more, n
  <2>1. CASE n = 0
    BY <2>1, <1>1 DEF Ends
  <2>2. CASE n # 0
    <3>1. n \in 1 .. n /\ n + 1 # 1
      BY <2>2, <1>1
    <3>2. Ends(lines) = lines[n].to
      BY <2>2, <1>1 DEF Ends, n
    <3> QED BY <3>1, <3>2, <1>1
  <2> QED BY <2>1, <2>2
<1>3. ASSUME NEW i \in 1 .. n PROVE more[i].from = IF i = 1 THEN "new" ELSE more[i - 1].to
  <2>1. i # 1 => i - 1 \in 1 .. n
    BY <1>1
  <2> HIDE DEF more, n
  <2> QED BY <1>1, <2>1 DEF History
<1>4. Ends(more) = c.to
  <2> HIDE DEF more, n
  <2> QED BY <1>1 DEF Ends
<1> HIDE DEF more, n
<1>5. ASSUME NEW i \in DOMAIN more PROVE more[i].from = IF i = 1 THEN "new" ELSE more[i - 1].to
  <2>1. i \in 1 .. n \/ i = n + 1
    BY <1>1
  <2>2. CASE i = n + 1
    <3>1. i - 1 = n /\ (i = 1 <=> n + 1 = 1)
      BY <1>1, <2>2
    <3> QED BY <1>2, <2>2, <3>1
  <2> QED BY <1>3, <2>1, <2>2
<1>6. History(more)
  BY <1>5 DEF History
<1> QED BY <1>4, <1>6 DEF more

LEMMA NobodyIn ==
  ASSUME TaskBoundAssumption, MaxInFlight = 1, InFlight < MaxInFlight
  PROVE  \A v \in Web : web[v] = Free
<1> DEFINE Busy == {v \in Web : web[v] # Free}
<1>1. IsFiniteSet(Busy)
  BY FS_Subset DEF TaskBoundAssumption
<1>2. Cardinality(Busy) \in Nat /\ Cardinality(Busy) < 1
  BY <1>1, FS_CardinalityType DEF InFlight
<1>3. Busy = {}
  BY <1>1, <1>2, FS_EmptySet
<1> QED BY <1>3

(* What LogIsHistory says of a task nobody is saving. *)
LEMMA HistoryOf ==
  ASSUME HistoryInv, NEW t \in Tasks \ torn, Exists(t)
  PROVE  /\ History(log[t])
         /\ ~Saving(t) => task[t].state = Ends(log[t])
BY DEF HistoryInv, LogIsHistory, History, Ends, Present

LEMMA NoneLeft ==
  ASSUME TypeOK, Alone, NEW w \in Web, web[w] # Free, End(w)
  PROVE  \A v \in Web : web'[v] = Free
BY DEF Alone, End, TypeOK

(* Nobody is at work after the step. *)
LEMMA HistoryAtRest ==
  ASSUME \A v \in Web : web'[v] = Free,
         \A t \in Tasks \ torn' : Exists(t)' => History(log'[t]) /\ task'[t].state = Ends(log'[t])
  PROVE  HistoryInv'
<1>1. Alone'
  BY DEF Alone
<1>2. LogIsHistory'
  BY DEF LogIsHistory, History, Ends, Present
<1>3. \A w \in Web : Fits(web'[w], task', log', torn')
  BY DEF Fits, Free
<1> QED BY <1>1, <1>2, <1>3 DEF HistoryInv, Fits

LEMMA HistoryBegin ==
  ASSUME TaskBoundAssumption, MaxInFlight = 1, TypeOK, HistoryInv, NEW w \in Web,
         NEW q, Begin(w, q), q.op # "save", Fits(q, task, log, torn)
  PROVE  HistoryInv'
<1>1. /\ \A v \in Web : web[v] = Free
      /\ web'[w] = q /\ (\A v \in Web \ {w} : web'[v] = Free)
      /\ UNCHANGED <<task, log, torn>>
  BY NobodyIn DEF Begin, TypeOK
<1>2. \A t : ~Saving(t) /\ ~Saving(t)'
  BY <1>1 DEF Saving, Free
<1>3. Alone'
  BY <1>1 DEF Alone
<1>4. LogIsHistory'
  BY <1>1, <1>2 DEF HistoryInv, LogIsHistory, Present, Exists
<1>5. \A v \in Web : Fits(web'[v], task', log', torn')
  BY <1>1 DEF Fits, Free
<1> QED BY <1>3, <1>4, <1>5 DEF HistoryInv, Fits

LEMMA HistoryReads ==
  ASSUME TaskBoundAssumption, MaxInFlight = 1, TypeOK, HistoryInv, NEW w \in Web, NEW t \in Tasks,
         NEW s, \/ ReadToSet(w, t, s)
                \/ \E c \in Customers : ReadToUpdate(w, t, s, c)
  PROVE  HistoryInv'
<1>1. PICK q : /\ Begin(w, q) /\ q.op \in {"log", "update"}
               /\ q.t = t /\ q.from = task[t].state
  <2>1. CASE ReadToSet(w, t, s)
    BY <2>1 DEF ReadToSet
  <2>2. CASE \E c \in Customers : ReadToUpdate(w, t, s, c)
    BY <2>2 DEF ReadToUpdate
  <2> QED BY <2>1, <2>2
<1>2. Fits(q, task, log, torn)
  BY <1>1 DEF Fits
<1> QED BY <1>1, <1>2, HistoryBegin

LEMMA HistoryCreate ==
  ASSUME TypeOK, HistoryInv, NEW w \in Web, NEW t \in Tasks, Create(w, t)
  PROVE  HistoryInv'
<1> DEFINE r == [state |-> "new", customer |-> web[w].c, named |-> web[w].named]
<1>1. /\ task[t] = Absent /\ task' = [task EXCEPT ![t] = r] /\ UNCHANGED <<log, torn>>
      /\ End(w) /\ web[w].op = "create" /\ web[w] # Free
  BY DEF Create, Free
<1>2. task'[t].state = "new" /\ \A u \in Tasks \ {t} : task'[u] = task[u]
  BY <1>1 DEF TypeOK
<1>3. log[t] = << >>
  BY <1>1 DEF TypeOK, Exists
<1>4. History(log[t]) /\ Ends(log[t]) = "new"
  BY <1>3 DEF History, Ends
<1>5. \A u : ~Saving(u)
  BY <1>1 DEF HistoryInv, Alone, Saving, Free
<1>6. \A v \in Web : web'[v] = Free
  BY <1>1, NoneLeft DEF HistoryInv
<1> HIDE DEF r
<1>7. ASSUME NEW u \in Tasks \ torn', Exists(u)'
      PROVE  History(log'[u]) /\ task'[u].state = Ends(log'[u])
  <2>1. CASE u = t
    BY <2>1, <1>1, <1>2, <1>4
  <2>2. CASE u # t
    <3>1. Exists(u) /\ u \in Tasks \ torn
      BY <2>2, <1>1, <1>2, <1>7 DEF Exists
    <3> QED BY <3>1, <2>2, <1>1, <1>2, <1>5, HistoryOf
  <2> QED BY <2>1, <2>2
<1> QED BY <1>6, <1>7, HistoryAtRest

LEMMA HistoryLogs ==
  ASSUME TypeOK, HistoryInv, NEW w \in Web, LogChange(w)
  PROVE  HistoryInv'
<1> DEFINE q == web[w]
           c == Change(q.from, q.to)
<1>1. q \in [op : {"log", "save"}, t : Tasks, from : States, to : States]
  BY RequestShape DEF LogChange
<1>2. /\ q.op = "log" /\ q # Free /\ Exists(q.t) /\ Logged(q.t, c) /\ UNCHANGED <<task, torn>>
      /\ web' = [web EXCEPT ![w].op = "save"]
  BY DEF LogChange, Free
<1>3. c \in ChangeRecord /\ c.from = q.from /\ c.to = q.to
  BY <1>1 DEF Change, ChangeRecord
<1>4. \A v \in Web \ {w} : web[v] = Free
  BY <1>2 DEF HistoryInv, Alone
<1>5. /\ web'[w].op = "save" /\ web'[w].t = q.t /\ web'[w].to = q.to
      /\ \A v \in Web \ {w} : web'[v] = Free
  BY <1>1, <1>2, <1>4 DEF TypeOK
<1>6. \A u : ~Saving(u)
  BY <1>2, <1>4 DEF Saving, Free
<1>7. \A u : u # q.t => ~Saving(u)'
  BY <1>5 DEF Saving, Free
<1>8. \A u : u = q.t => Saving(u)'
  BY <1>5 DEF Saving
<1>9. /\ log[q.t] \in Seq(ChangeRecord) /\ log'[q.t] = Append(log[q.t], c)
      /\ \A u \in Tasks \ {q.t} : log'[u] = log[u]
  BY <1>1, <1>2 DEF Logged, TypeOK
<1>10. q.t \notin torn => History(log'[q.t]) /\ Ends(log'[q.t]) = q.to
  <2> SUFFICES ASSUME q.t \notin torn PROVE History(log'[q.t]) /\ Ends(log'[q.t]) = q.to
    OBVIOUS
  <2>1. q.from = task[q.t].state
    BY <1>2 DEF HistoryInv, Fits, Exists
  <2>2. History(log[q.t]) /\ task[q.t].state = Ends(log[q.t])
    BY <1>1, <1>2, <1>6, HistoryOf
  <2> HIDE DEF q, c
  <2> QED BY <2>1, <2>2, <1>3, <1>9, HistoryGrows
<1> HIDE DEF q, c
<1>11. Alone'
  BY <1>5 DEF Alone
<1>12. ASSUME NEW u \in Tasks \ torn', Exists(u)'
       PROVE  History(log'[u]) /\ (~Saving(u)' => task'[u].state = Ends(log'[u]))
  <2>1. Exists(u) /\ u \in Tasks \ torn
    BY <1>2, <1>12 DEF Exists
  <2>2. CASE u = q.t
    <3>1. Saving(u)'
      BY <2>2, <1>8
    <3>2. History(log'[u])
      BY <2>1, <2>2, <1>10
    <3> QED BY <3>1, <3>2
  <2>3. CASE u # q.t
    <3>1. History(log[u]) /\ task[u].state = Ends(log[u])
      BY <2>1, <1>6, HistoryOf
    <3>2. log'[u] = log[u] /\ task'[u] = task[u]
      BY <2>3, <1>2, <1>9
    <3> QED BY <3>1, <3>2
  <2> QED BY <2>2, <2>3
<1>13. LogIsHistory'
  BY <1>12 DEF LogIsHistory, History, Ends, Present
<1>14. \A v \in Web : Fits(web'[v], task', log', torn')
  BY <1>2, <1>5, <1>10 DEF Fits, Free
<1> QED BY <1>11, <1>13, <1>14 DEF HistoryInv, Fits

(* The request that saved a state ends. *)
LEMMA HistorySets ==
  ASSUME TypeOK, HistoryInv, NEW w \in Web, web[w] # Free, End(w),
         NEW t \in Tasks, Exists(t), NEW s \in States, torn' = torn,
         \/ task' = [task EXCEPT ![t].state = s]
         \/ \E c \in Customers : task' = [task EXCEPT ![t].state = s, ![t].customer = c],
         \A u \in Tasks \ {t} : log'[u] = log[u] /\ ~Saving(u),
         t \notin torn => History(log'[t]) /\ Ends(log'[t]) = s
  PROVE  HistoryInv'
<1>1. /\ \A u \in Tasks : u # t => task'[u] = task[u]
      /\ task'[t].state = s
      /\ \A u \in Tasks : Exists(u)' <=> Exists(u)
  BY StateSetTypes
<1>2. \A v \in Web : web'[v] = Free
  BY NoneLeft DEF HistoryInv
<1>3. ASSUME NEW u \in Tasks \ torn', Exists(u)'
      PROVE  History(log'[u]) /\ task'[u].state = Ends(log'[u])
  <2>1. Exists(u) /\ u \in Tasks \ torn
    BY <1>1, <1>3
  <2>2. CASE u = t
    BY <2>1, <2>2, <1>1
  <2>3. CASE u # t
    BY <2>1, <2>3, <1>1, HistoryOf
  <2> QED BY <2>2, <2>3
<1> QED BY <1>2, <1>3, HistoryAtRest

LEMMA HistorySaves ==
  ASSUME TypeOK, HistoryInv, NEW w \in Web, SaveChange(w)
  PROVE  HistoryInv'
<1> DEFINE q == web[w]
<1>1. q \in [op : {"log", "save"}, t : Tasks, from : States, to : States]
  BY RequestShape DEF SaveChange
<1>2. /\ q.op = "save" /\ q # Free /\ Exists(q.t) /\ End(w)
      /\ task' = [task EXCEPT ![q.t].state = q.to]
      /\ log' = log /\ torn' = torn
  BY DEF SaveChange, Free
<1>3. \A v \in Web \ {w} : web[v] = Free
  BY <1>2 DEF HistoryInv, Alone
<1>4. \A u \in Tasks \ {q.t} : log'[u] = log[u] /\ ~Saving(u)
  BY <1>2, <1>3 DEF Saving, Free
<1>5. q.t \notin torn => History(log'[q.t]) /\ Ends(log'[q.t]) = q.to
  BY <1>1, <1>2, HistoryOf DEF HistoryInv, Fits, Exists
<1> HIDE DEF q
<1> QED BY <1>1, <1>2, <1>4, <1>5, HistorySets DEF q

LEMMA HistoryUpdates ==
  ASSUME TypeOK, HistoryInv, NEW w \in Web, Update(w)
  PROVE  HistoryInv'
<1> DEFINE q == web[w]
           c == Change(q.from, q.to)
<1>1. q \in [op : {"update"}, t : Tasks, from : States, to : States, c : Customers]
  BY RequestShape DEF Update
<1>2. /\ q.op = "update" /\ q # Free /\ Exists(q.t) /\ End(w) /\ torn' = torn
      /\ task' = [task EXCEPT ![q.t].state = q.to, ![q.t].customer = q.c]
      /\ IF q.from # q.to THEN Logged(q.t, c) ELSE log' = log
  BY DEF Update, Free
<1>3. \A v \in Web \ {w} : web[v] = Free
  BY <1>2 DEF HistoryInv, Alone
<1>4. \A u : ~Saving(u)
  BY <1>2, <1>3 DEF Saving, Free
<1>5. c \in ChangeRecord /\ c.from = q.from /\ c.to = q.to
  BY <1>1 DEF Change, ChangeRecord
<1>6. /\ log[q.t] \in Seq(ChangeRecord)
      /\ q.from # q.to => log'[q.t] = Append(log[q.t], c)
      /\ \A u \in Tasks \ {q.t} : log'[u] = log[u]
  BY <1>1, <1>2 DEF Logged, TypeOK
<1>7. q.t \notin torn => History(log'[q.t]) /\ Ends(log'[q.t]) = q.to
  <2> SUFFICES ASSUME q.t \notin torn PROVE History(log'[q.t]) /\ Ends(log'[q.t]) = q.to
    OBVIOUS
  <2>1. q.from = task[q.t].state
    BY <1>2 DEF HistoryInv, Fits, Exists
  <2>2. History(log[q.t]) /\ task[q.t].state = Ends(log[q.t])
    BY <1>1, <1>2, <1>4, HistoryOf
  <2> HIDE DEF q, c
  <2>3. CASE q.from = q.to
    BY <2>1, <2>2, <2>3, <1>2
  <2>4. CASE q.from # q.to
    BY <2>1, <2>2, <2>4, <1>5, <1>6, HistoryGrows
  <2> QED BY <2>3, <2>4
<1> HIDE DEF c
<1>8. \A u \in Tasks \ {q.t} : log'[u] = log[u] /\ ~Saving(u)
  BY <1>4, <1>6
<1> HIDE DEF q
<1> QED BY <1>1, <1>2, <1>7, <1>8, HistorySets DEF q

(* A request ends without a write; a death between log and save is in torn. *)
LEMMA HistoryEnds ==
  ASSUME TypeOK, HistoryInv, NEW w \in Web, Fails(w) \/ Die(w)
  PROVE  HistoryInv'
<1>1. /\ web[w] # Free /\ End(w) /\ UNCHANGED <<task, log>> /\ torn \subseteq torn'
      /\ web[w].op = "save" => web[w].t \in torn' \/ ~Exists(web[w].t)
  BY DEF Fails, Die, Free
<1>2. \A v \in Web : web'[v] = Free
  BY <1>1, NoneLeft DEF HistoryInv
<1>3. ASSUME NEW u \in Tasks \ torn', Exists(u)'
      PROVE  History(log'[u]) /\ task'[u].state = Ends(log'[u])
  <2>1. Exists(u) /\ u \in Tasks \ torn
    BY <1>1, <1>3 DEF Exists
  <2>2. ~Saving(u)
    BY <2>1, <1>1, <1>3 DEF Saving, HistoryInv, Alone, Free
  <2> QED BY <2>1, <2>2, <1>1, HistoryOf
<1> QED BY <1>2, <1>3, HistoryAtRest

(* A removal may come at any time, and takes the log along. *)
LEMMA HistoryRemove ==
  ASSUME TypeOK, HistoryInv, NEW t \in Tasks,
         web' = web, task'[t] = Removed, torn' \in {torn, torn \ {t}},
         \A u \in Tasks \ {t} : task'[u] = task[u] /\ log'[u] = log[u]
  PROVE  HistoryInv'
<1>1. Alone'
  BY DEF HistoryInv, Alone
<1>2. \A u : Saving(u)' <=> Saving(u)
  BY DEF Saving
<1>3. ASSUME NEW u \in Tasks \ torn', Exists(u)'
      PROVE  History(log'[u]) /\ (~Saving(u)' => task'[u].state = Ends(log'[u]))
  <2>1. u # t /\ Exists(u) /\ u \in Tasks \ torn
    BY <1>3 DEF Exists
  <2> QED BY <2>1, <1>2, HistoryOf
<1>4. LogIsHistory'
  BY <1>3 DEF LogIsHistory, History, Ends, Present
<1>5. ASSUME NEW v \in Web PROVE Fits(web'[v], task', log', torn')
  <2>1. Fits(web[v], task, log, torn) /\ (web[v].op \in {"log", "save", "update"} => web[v].t \in Tasks)
    BY RequestShape DEF HistoryInv
  <2> QED BY <2>1 DEF Fits
<1> QED BY <1>1, <1>4, <1>5 DEF HistoryInv, Fits

LEMMA HistoryStep ==
  ASSUME TaskBoundAssumption, MaxInFlight = 1, TypeOK, HistoryInv, [Next]_vars
  PROVE  HistoryInv'
<1>1. ASSUME NEW w \in Web, NEW c \in Customers, NEW named \in BOOLEAN, LookForNew(w, c, named)
      PROVE  HistoryInv'
  BY <1>1, HistoryBegin DEF LookForNew, Fits
<1>2. ASSUME NEW u \in Staff, NEW t \in Tasks, Remove(u, t) PROVE HistoryInv'
  BY <1>2, HistoryRemove DEF Remove, TypeOK
<1>3. ASSUME \/ \E u \in Staff, t \in Tasks : RemoveByStaff(u, t)
             \/ UNCHANGED vars
      PROVE  HistoryInv'
  <2>1. UNCHANGED <<task, log, web, torn>>
    BY <1>3 DEF RemoveByStaff, vars
  <2> QED BY <2>1 DEF HistoryInv, Alone, LogIsHistory, Saving, Present, Exists, Fits
<1> QED
  BY <1>1, <1>2, <1>3, HistoryReads, HistoryCreate, HistoryLogs, HistorySaves, HistoryUpdates,
     HistoryEnds DEF Next

(* With one request at a time the log of a task tells its whole history, although
   a task may be removed between the statements of a request. *)
THEOREM LogTellsHistory ==
  ASSUME TaskBoundAssumption, MaxInFlight = 1
  PROVE  Spec => []LogIsHistory
<1>1. Init => HistoryInv
  BY DEF Init, HistoryInv, Alone, LogIsHistory, Exists, Absent, Fits, Free
<1>2. TypeOK /\ HistoryInv /\ [Next]_vars => HistoryInv'
  BY HistoryStep
<1>3. HistoryInv => LogIsHistory
  BY DEF HistoryInv
<1> QED BY <1>1, <1>2, <1>3, TasksKeepTypes, PTL DEF Spec
=============================================================================
