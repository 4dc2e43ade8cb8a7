---------------------------- MODULE EventExport ----------------------------
(***************************************************************************)
(* The export of switches, gateways, pools of addresses and static leases, *)
(* one event at a time (src/apps/sorm_export/signals, tasks, hier_export   *)
(* and tasks/task_export.py).                                              *)
(*                                                                         *)
(* A signal queues a Celery task with the second of the event.  The task   *)
(* of a save carries the id and reads the row when it runs; the task of a  *)
(* removal carries the data itself.  Each sends one file, named after the  *)
(* kind of the object and that second; a file with the same name is        *)
(* replaced.  An upload that fails is noted and never repeated.            *)
(***************************************************************************)
EXTENDS Integers, FiniteSets, FiniteSetsExt

CONSTANTS
  Objects,       \* rows of Device, Gateway, NetworkIpPool, CustomerIpLeaseModel
  Kind,          \* which of them a row is of
  Workers,       \* Celery processes
  MaxSaves,      \* bound: saves
  MaxSeconds,    \* bound of the clock
  MaxFaults      \* bound: failures of FTP, workers that die

Kinds == {"switch", "gateway", "pool", "lease"}

KindAssumption == Kind \in [Objects -> Kinds]
EventBoundAssumption ==
  /\ MaxSaves \in Nat /\ MaxSeconds \in Nat \ {0} /\ MaxFaults \in Nat

VARIABLES
  row,     \* the row of each object
  queue,   \* tasks that wait
  task,    \* what each worker is at
  remote,  \* the remote file of each kind and second
  clock,   \* the current second
  saves,   \* how many saves there were: a version is the number of its save
  ended,   \* ghost: the second at which an object's end was queued
  spoilt,  \* ghost: objects with a record that was lost, see Spoil
  faults

vars == <<row, queue, task, remote, clock, saves, ended, spoilt, faults>>

-----------------------------------------------------------------------------

NoRow == [v |-> 0, place |-> FALSE, removed |-> FALSE]
Removed == [v |-> 0, place |-> FALSE, removed |-> TRUE]
Exists(o) == row[o].v > 0
Idle == [op |-> "idle"]
NoFile == [v |-> 0]
Goes(w, next) == task' = [task EXCEPT ![w] = next]
Fault == faults < MaxFaults /\ faults' = faults + 1
Spoil(objects) == spoilt' = spoilt \cup objects
Leases == {o \in Objects : Kind[o] = "lease"}

(* Which changes a signal queues a task for: a switch or gateway when it has
   a place, a pool always, a lease when it is static (its "place") and only
   when it is removed. *)
DeviceTells(r) == r.place
GatewayTells(r) == r.place
PoolTells(r) == TRUE
LeaseTells(r) == r.place

Tells(o, r) ==
  CASE Kind[o] = "switch" -> DeviceTells(r)
    [] Kind[o] = "gateway" -> GatewayTells(r)
    [] Kind[o] = "pool" -> PoolTells(r)
    [] Kind[o] = "lease" -> LeaseTells(r)

Save(o, place) ==
  LET r == [v |-> saves + 1, place |-> place, removed |-> FALSE] IN
  /\ ~row[o].removed /\ saves < MaxSaves
  /\ saves' = saves + 1
  /\ row' = [row EXCEPT ![o] = r]
  /\ queue' = IF o \notin Leases /\ Tells(o, r)
              THEN queue \cup {[n |-> saves + 1, op |-> "update", o |-> o, at |-> clock]}
              ELSE queue
  /\ UNCHANGED <<task, remote, clock, ended, spoilt, faults>>

(* The removal of an address clears the one of a switch by a query: no
   signal is sent. *)
LoseAddress(o) ==
  /\ Kind[o] = "switch" /\ row[o].place
  /\ row' = [row EXCEPT ![o].place = FALSE]
  /\ UNCHANGED <<queue, task, remote, clock, saves, ended, spoilt, faults>>

(* One removal; that of a pool removes its leases, and each sends a signal. *)
Remove(objects) ==
  LET told == {o \in objects : Tells(o, row[o])} IN
  /\ objects # {} /\ \A o \in objects : Exists(o)
  /\ row' = [o \in Objects |-> IF o \in objects THEN Removed ELSE row[o]]
  /\ queue' = queue \cup
       {[n |-> row[o].v, op |-> "stop", o |-> o, at |-> clock] : o \in told}
  /\ ended' = [o \in Objects |-> IF o \in told THEN clock ELSE ended[o]]
  /\ UNCHANGED <<task, remote, clock, saves, spoilt, faults>>

Tick ==
  /\ clock < MaxSeconds /\ clock' = clock + 1
  /\ UNCHANGED <<row, queue, task, remote, saves, ended, spoilt, faults>>

(* What the task of a save finds: no file is sent of a row that is gone or
   has lost its place. *)
ReadDevice(o) == Exists(o) /\ row[o].place
ReadGateway(o) == Exists(o) /\ row[o].place
ReadPool(o) == Exists(o)
Found(o) ==
  \/ Kind[o] = "switch" /\ ReadDevice(o)
  \/ Kind[o] = "gateway" /\ ReadGateway(o)
  \/ Kind[o] = "pool" /\ ReadPool(o)

BugTakeUpdate(w, t) ==
  /\ task[w] = Idle /\ t \in queue /\ t.op = "update"
  /\ queue' = queue \ {t}
  /\ Goes(w, IF Found(t.o)                     \* the version that was saved
             THEN [op |-> "send", o |-> t.o, v |-> t.n - 1, end |-> FALSE, at |-> t.at]
             ELSE Idle)
  /\ UNCHANGED <<row, remote, clock, saves, ended, spoilt, faults>>

TakeUpdate(w, t) ==
  /\ task[w] = Idle /\ t \in queue /\ t.op = "update"
  /\ queue' = queue \ {t}
  /\ Goes(w, IF Found(t.o)
             THEN [op |-> "send", o |-> t.o, v |-> row[t.o].v, end |-> FALSE, at |-> t.at]
             ELSE Idle)
  /\ UNCHANGED <<row, remote, clock, saves, ended, spoilt, faults>>

BugTakeStop(w, t) ==                           \* no end_usage_time
  /\ task[w] = Idle /\ t \in queue /\ t.op = "stop"
  /\ queue' = queue \ {t}
  /\ Goes(w, [op |-> "send", o |-> t.o, v |-> t.n, end |-> FALSE, at |-> t.at])
  /\ UNCHANGED <<row, remote, clock, saves, ended, spoilt, faults>>

(* The task of a removal has all it needs. *)
TakeStop(w, t) ==
  /\ task[w] = Idle /\ t \in queue /\ t.op = "stop"
  /\ queue' = queue \ {t}
  /\ Goes(w, [op |-> "send", o |-> t.o, v |-> t.n, end |-> TRUE, at |-> t.at])
  /\ UNCHANGED <<row, remote, clock, saves, ended, spoilt, faults>>

(* STOR.  Ghost: what a record replaces is spoilt, unless it is an older one
   of the same object. *)
Older(a, b) == a.v < b.v \/ (a.v = b.v /\ (b.end \/ ~a.end))

Stor(w) ==
  LET r == task[w]
      f == <<Kind[r.o], r.at>>
      old == remote[f] IN
  /\ r.op = "send"
  /\ remote' = [remote EXCEPT ![f] = [o |-> r.o, v |-> r.v, end |-> r.end]]
  /\ Spoil(IF old = NoFile \/ (old.o = r.o /\ Older(old, r)) THEN {} ELSE {old.o})
  /\ Goes(w, Idle)
  /\ UNCHANGED <<row, queue, clock, saves, ended, faults>>

(* The stamp says FAILED, or the worker dies. *)
StorFails(w) ==
  /\ task[w].op = "send"
  /\ Fault
  /\ Spoil({task[w].o})
  /\ Goes(w, Idle)
  /\ UNCHANGED <<row, queue, remote, clock, saves, ended>>

-----------------------------------------------------------------------------

Files == Kinds \X (1 .. MaxSeconds)

Init ==
  /\ row = [o \in Objects |-> NoRow]
  /\ queue = {} /\ task = [w \in Workers |-> Idle]
  /\ remote = [f \in Files |-> NoFile]
  /\ clock = 1 /\ saves = 0
  /\ ended = [o \in Objects |-> 0] /\ spoilt = {}
  /\ faults = 0

Take(w) == \E t \in queue : TakeUpdate(w, t) \/ TakeStop(w, t)

Next ==
  \/ Tick
  \/ \E o \in Objects : LoseAddress(o) \/ Remove({o}) \/ \E place \in BOOLEAN : Save(o, place)
  \/ \E objects \in SUBSET Leases : Remove(objects)
  \/ \E w \in Workers : Take(w) \/ Stor(w) \/ StorFails(w)

Spec == Init /\ [][Next]_vars

(* A worker takes what waits and ends it; the queue is served in turn. *)
FairSpec ==
  /\ Spec
  /\ \A w \in Workers : WF_vars(Take(w)) /\ WF_vars(Stor(w))

-----------------------------------------------------------------------------
(* Properties. *)

Version == 0 .. MaxSaves
Seconds == 1 .. MaxSeconds

(* Types; a task that waits, or is run, is of an event that has happened. *)
TypeOK ==
  /\ row \in [Objects -> [v : Version, place : BOOLEAN, removed : BOOLEAN]]
  /\ queue \subseteq [n : Version, op : {"update", "stop"}, o : Objects, at : Seconds]
  /\ task \in [Workers ->
       {Idle} \cup [op : {"send"}, o : Objects, v : Version, end : BOOLEAN, at : Seconds]]
  /\ remote \in [Files -> {NoFile} \cup [o : Objects, v : Version, end : BOOLEAN]]
  /\ clock \in Seconds /\ saves \in Version /\ faults \in 0 .. MaxFaults
  /\ ended \in [Objects -> 0 .. clock] /\ spoilt \subseteq Objects
  /\ \A t \in queue : t.at <= clock

Pending(o) == \/ \E t \in queue : t.o = o
              \/ \E w \in Workers : task[w] # Idle /\ task[w].o = o

(* The newest record that the authority has of an object. *)
Told(o) == {s \in Seconds : remote[<<Kind[o], s>>] # NoFile /\ remote[<<Kind[o], s>>].o = o}
Newest(o) == remote[<<Kind[o], Max(Told(o))>>]

(* What was saved last is what the authority has read last, however tasks
   overlap, unless an upload failed or a file was replaced by one of the same
   second. *)
LatestIsTold == \A o \in Objects \ (spoilt \cup Leases) :
  Exists(o) /\ Tells(o, row[o]) /\ ~Pending(o) =>
    Told(o) # {} /\ Newest(o).v = row[o].v /\ ~Newest(o).end

(* An object whose removal a signal saw stays ended: no late task of an
   earlier save brings it back, unless its file is of the very same second. *)
RemovedIsEnded == \A o \in Objects \ spoilt :
  ended[o] > 0 /\ ~Pending(o) => Told(o) # {} /\ Newest(o).end

(* Every task ends, so the authority is told of each end, or the record was
   lost. *)
EndIsTold == \A o \in Objects :
  ended[o] > 0 ~> ((Told(o) # {} /\ Newest(o).end) \/ o \in spoilt)
=============================================================================
