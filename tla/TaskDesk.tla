------------------------------ MODULE TaskDesk ------------------------------
(***************************************************************************)
(* What technicians are shown of their tasks and may do beside changing    *)
(* their state (src/apps/tasks/views.py): lists, comments, files, finish   *)
(* documents, reminders, reports, the text of a change.  TechTasks has the *)
(* tasks themselves.                                                       *)
(*                                                                         *)
(* tasks are by their number: [state, author, recipients, customer, site,  *)
(* mode, comments, files], the last two numbers of rows; granted are rows  *)
(* that rights leave (AccessRules.ByRights).                               *)
(***************************************************************************)
EXTENDS Integers, FiniteSets, SequencesExt

CONSTANT nothing                            \* a column or a parameter without a value

New == 0  Confused == 1  Completed == 2     \* TaskStates
States == {New, Confused, Completed}

Done(status, after) == [status |-> status, after |-> after]

-----------------------------------------------------------------------------
(* Lists of tasks. *)

(* get_all_tasks_dependency: rights, filters, and the site unless the user is a
   superuser. *)
All(tasks, granted, user, site, filters) ==
  {t \in granted : /\ filters.state # nothing => tasks[t].state = filters.state
                   /\ filters.recipient # nothing => filters.recipient \in tasks[t].recipients
                   /\ filters.customer # nothing => tasks[t].customer = filters.customer
                   /\ ~user.superuser => tasks[t].site = site}

Listed(tasks, rows, user, which) ==
  CASE which = "get_all"      -> rows
    [] which = "get_all_new"  -> {t \in rows : tasks[t].state = New}
    [] which = "get_new"      -> {t \in rows : user.id \in tasks[t].recipients /\ tasks[t].state = New}
    [] which = "get_failed"   -> {t \in rows : user.id \in tasks[t].recipients /\ tasks[t].state = Confused}
    [] which = "get_finished" -> {t \in rows : user.id \in tasks[t].recipients /\ tasks[t].state = Completed}
    [] which = "get_my"       -> {t \in rows : user.id \in tasks[t].recipients}
    [] which = "get_own"      -> {t \in rows : tasks[t].author = user.id /\ tasks[t].state # Completed}

OfCustomer(tasks, rows, customer) == {t \in rows : tasks[t].customer = customer}
ActiveCount(tasks, user) ==
  Cardinality({t \in DOMAIN tasks : user.id \in tasks[t].recipients /\ tasks[t].state = New})

(* A customer's own history, and one task by its number, whatever the site; the
   form of one must have a group of the customer, the forms of a list need not. *)
History(tasks, customer) == {t \in DOMAIN tasks : tasks[t].customer = customer}
Details(tasks, granted, task, groups) ==
  IF task \notin granted THEN 404 ELSE IF groups[tasks[task].customer] = nothing THEN 500 ELSE 200

(* Two counts over one join of both tables: each row of one is counted with each
   row of the other. *)
Counts(task) ==
  LET AtLeastOne(n) == IF n = 0 THEN 1 ELSE n
  IN  [comments |-> task.comments * AtLeastOne(task.files), files |-> task.files * AtLeastOne(task.comments)]

-----------------------------------------------------------------------------
(* Comments and changes of a task, the latest first. *)

MayRemove(comment, user) == comment.author = user.id
Combined(comments, changes, granted, task, user) ==
  LET shown == SelectSeq(comments, LAMBDA c : c.id \in granted /\ c.task = task)
      rows  == [i \in DOMAIN shown |-> [type |-> "comment", at |-> shown[i].at,
                                        remove |-> MayRemove(shown[i], user)]]
      logs  == SelectSeq(changes, LAMBDA l : l.task = task)
  IN  SortSeq(rows \o [i \in DOMAIN logs |-> [type |-> "log", at |-> logs[i].at]],
              LAMBDA a, b : a.at > b.at)

DeleteComment(comments, granted, comment, user) ==
  IF comment \notin DOMAIN comments \cap granted THEN Done(404, comments)
  ELSE IF ~MayRemove(comments[comment], user) THEN Done(403, comments)
  ELSE Done(204, [c \in DOMAIN comments \ {comment} |-> comments[c]])

(* The list of comments filters its own number with the number of the task, and
   reads from a comment the columns of a task: there are two that both have. *)
Shared == {"id", "author_id"}
Comments(comments, granted, task, author, columns) ==
  LET rows == {c \in granted : /\ task \notin {nothing, 0} => c = task
                               /\ author \notin {nothing, 0} => comments[c].author = author}
  IN  IF rows # {} /\ ~(columns # {} /\ columns \subseteq Shared) THEN [status |-> 500, rows |-> {}]
      ELSE [status |-> 200, rows |-> rows]

(* A comment, a file: of a task that is there. *)
AddOf(rows, new, tasks) == IF new.task \in DOMAIN tasks THEN Done(200, rows \cup {new}) ELSE Done(500, rows)
FilesOf(files, task) == {f \in files : f.task = task}
DeleteFile(files, granted, file, user) ==
  IF file \in files \cap granted /\ file.author = user.id THEN Done(204, files \ {file}) ELSE Done(404, files)

(* One finish document of a task, made with its recipients. *)
FinishDocument(docs, new, tasks, profiles) ==
  IF \/ new.task \notin DOMAIN tasks \/ \E d \in docs : d.task = new.task
     \/ ~(new.recipients \subseteq profiles)
  THEN Done(500, docs) ELSE Done(201, docs \cup {new})

-----------------------------------------------------------------------------
(* Before a task is made: one that is new of the same customer, else who answers
   for the group. *)
Initial(tasks, profiles, group, customer) ==
  LET new == {t \in DOMAIN tasks : tasks[t].customer = customer /\ tasks[t].state = New}
  IN  IF new # {} THEN [status |-> 0, task |-> CHOOSE t \in new : TRUE]
      ELSE [status |-> 1, recipients |->
              {p \in DOMAIN profiles : profiles[p].active /\ profiles[p].admin /\ group \in profiles[p].groups}]

(* remind_task asks for the right "tasks.tasks.can_remind", which nobody is given;
   the text reads a customer by a name that tasks have not, unless the author is
   among those who are told, and then nobody is. *)
Remind(tasks, task, user, notified) ==
  IF ~user.superuser THEN 403
  ELSE IF task \notin DOMAIN tasks THEN 404
  ELSE IF tasks[task].author \in tasks[task].recipients \cap notified THEN 204 ELSE 500

-----------------------------------------------------------------------------
(* Reports.  Percents have six digits, rounded; with no tasks the division is by
   zero, and an error. *)
StatePercent(tasks) ==
  LET Of(s) == Cardinality({t \in DOMAIN tasks : tasks[t].state = s})
      all   == Cardinality(DOMAIN tasks)
  IN  IF all = 0 THEN nothing
      ELSE [s \in States |-> [count |-> Of(s), percent |-> (2 * Of(s) * 100000000 + all) \div (2 * all)]]
ModeReport(tasks, titles) ==
  [m \in {tasks[t].mode : t \in DOMAIN tasks} |->
     [mode  |-> IF m \in DOMAIN titles THEN titles[m] ELSE "Not Found",
      count |-> Cardinality({t \in DOMAIN tasks : tasks[t].mode = m})]]

(* The text of a change: its own for a change of the state alone, a general one when
   other columns changed as well, none when nothing did. *)
ChangeText(change) ==
  IF DOMAIN change = {} THEN nothing
  ELSE IF DOMAIN change # {"task_state"} \/ change.task_state.from = change.task_state.to THEN "general"
  ELSE CASE change.task_state.from = New /\ change.task_state.to = Completed       -> "completing"
         [] change.task_state.from = New /\ change.task_state.to = Confused        -> "failing"
         [] change.task_state.from = Confused /\ change.task_state.to = New        -> "restored from confused"
         [] change.task_state.from = Confused /\ change.task_state.to = Completed  -> "confused to completed"
         [] change.task_state.from = Completed /\ change.task_state.to = New       -> "restored from completed"
         [] change.task_state.from = Completed /\ change.task_state.to = Confused  -> "completed to confused"
         [] OTHER -> "unknown"

(* A task is expired after its date; one without a date never. *)
Expired(outDate, today)  == outDate # nothing /\ outDate < today
TimeLeft(outDate, today) ==
  IF outDate = nothing THEN nothing
  ELSE IF outDate > today THEN [left |-> outDate - today] ELSE [over |-> today - outDate]

(* The columns that show another row are empty without it. *)
ShownOf(relation, row) == IF relation = nothing THEN "" ELSE row
=============================================================================
