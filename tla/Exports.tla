------------------------------ MODULE Exports ------------------------------
(***************************************************************************)
(* The exports to the authority: payments, RADIUS accounting, single       *)
(* events, and the command that exports all customers.  Each has its own   *)
(* tables, files and stamps, so they are explored side by side, as Offices *)
(* does: the one named by scene moves, the others stay in an initial       *)
(* state.  Each of them is taken with a scene as its parameter, which      *)
(* gives it its bounds.                                                    *)
(***************************************************************************)
EXTENDS Integers, FiniteSets

CONSTANTS
  Workers,                     \* processes that run the tasks
  Together,                    \* bound: tasks at one time, where they overlap
  Pays, Payers, Payer,         \* payments, of customers
  Entries,                     \* accounting events
  (* Bounds of payments and of accounting, some of each scene. *)
  PayRuns, PayFull, PayFaults, PayToggles, AaaDue, AaaSeconds, AaaFaults,
  (* Of each scene of the events, and of the command. *)
  Objects, Kind, EventSaves, EventSeconds, EventFaults,
  Subjects, Legals, Start, CommandChanges, CommandFaults

VARIABLES scene,
  pay, active, made, stamp, run, pSent, late, lost, pClock, budget,
  aQueue, due, file, aRemote, aTask, aClock, logged, aSent, gone, aFaults,
  row, queue, task, remote, clock, saves, ended, spoilt, faults,
  customer, located, homeless, at, files, failed, aborted, changed, changes, cFaults

-----------------------------------------------------------------------------
(* Payments and accounting by tasks that overlap, and by one at a time. *)

PayScenes == {"payments", "one payment run"}
AaaScenes == {"accounting", "one accounting task"}
AtOnce(sc) == IF sc \in {"one payment run", "one accounting task"} THEN 1 ELSE Together

Payments(sc) == INSTANCE PaymentExport WITH
  Customers <- Payers, MaxRuns <- PayRuns[sc], MaxFull <- PayFull[sc],
  MaxFaults <- PayFaults[sc], MaxToggles <- PayToggles[sc], MaxInFlight <- AtOnce(sc),
  sent <- pSent, clock <- pClock
Accounting(sc) == INSTANCE AaaExport WITH
  Rows <- Entries, MaxInFlight <- AtOnce(sc), MaxDue <- AaaDue, MaxSeconds <- AaaSeconds,
  MaxFaults <- AaaFaults[sc],
  queue <- aQueue, remote <- aRemote, task <- aTask, clock <- aClock, sent <- aSent,
  faults <- aFaults

(* Events of switches, and of all the other kinds. *)
EventScenes == {"switches", "other events"}
Events(sc) == INSTANCE EventExport WITH
  Objects <- Objects[sc], Kind <- Kind[sc], MaxSaves <- EventSaves,
  MaxSeconds <- EventSeconds[sc], MaxFaults <- EventFaults

(* Customers: some who are changed meanwhile; some who are not, told apart by what
   the command depends on; and those of the scenes that are not about them. *)
CommandScenes == {"roots", "complete", "still"}
Command(sc) == INSTANCE CustomerExport WITH
  Customers <- Subjects[sc], Legals <- Legals[sc], Start <- Start[sc],
  MaxChanges <- CommandChanges[sc], MaxFaults <- CommandFaults[sc], faults <- cFaults

(* What the components assume of their constants. *)
ASSUME ExportsAssumption ==
  /\ \A sc \in PayScenes : Payments(sc)!PayerAssumption /\ Payments(sc)!ExportBoundAssumption
  /\ \A sc \in AaaScenes : Accounting(sc)!AaaBoundAssumption
  /\ \A sc \in EventScenes : Events(sc)!KindAssumption /\ Events(sc)!EventBoundAssumption
  /\ \A sc \in CommandScenes : Command(sc)!StartAssumption /\ Command(sc)!ExportBoundAssumption

-----------------------------------------------------------------------------
paymentVars  == <<pay, active, made, stamp, run, pSent, late, lost, pClock, budget>>
aaaVars      == <<aQueue, due, file, aRemote, aTask, aClock, logged, aSent, gone, aFaults>>
eventVars    == <<row, queue, task, remote, clock, saves, ended, spoilt, faults>>
customerVars == <<customer, located, homeless, at, files, failed, aborted, changed, changes, cFaults>>
vars == <<scene, paymentVars, aaaVars, eventVars, customerVars>>

Scenes == PayScenes \cup AaaScenes \cup EventScenes \cup {"roots", "complete"}

Init ==
  /\ scene \in Scenes
  /\ IF scene = "one payment run" THEN Payments("one payment run")!Init
     ELSE Payments("payments")!Init
  /\ IF scene = "one accounting task" THEN Accounting("one accounting task")!Init
     ELSE Accounting("accounting")!Init
  /\ IF scene = "other events" THEN Events("other events")!Init ELSE Events("switches")!Init
  /\ CASE scene = "roots" -> Command("roots")!Init
       [] scene = "complete" -> Command("complete")!Init
       [] OTHER -> Command("still")!Init

Next ==
  \/ /\ \/ scene = "payments" /\ Payments("payments")!Next
        \/ scene = "one payment run" /\ Payments("one payment run")!Next
     /\ UNCHANGED <<scene, aaaVars, eventVars, customerVars>>
  \/ /\ \/ scene = "accounting" /\ Accounting("accounting")!Next
        \/ scene = "one accounting task" /\ Accounting("one accounting task")!Next
     /\ UNCHANGED <<scene, paymentVars, eventVars, customerVars>>
  \/ /\ \/ scene = "switches" /\ Events("switches")!Next
        \/ scene = "other events" /\ Events("other events")!Next
     /\ UNCHANGED <<scene, paymentVars, aaaVars, customerVars>>
  \/ /\ \/ scene = "roots" /\ Command("roots")!Next
        \/ scene = "complete" /\ Command("complete")!Next
     /\ UNCHANGED <<scene, paymentVars, aaaVars, eventVars>>

Spec == Init /\ [][Next]_vars

-----------------------------------------------------------------------------
(* The properties of the components, each of the scenes it is about. *)

(* Every variable of the component that moves keeps its type, and nothing is dated,
   queued or sent that has not happened. *)
TypeOK ==
  /\ scene = "payments" => Payments("payments")!TypeOK
  /\ scene = "one payment run" => Payments("one payment run")!TypeOK
  /\ scene = "accounting" => Accounting("accounting")!TypeOK
  /\ scene = "one accounting task" => Accounting("one accounting task")!TypeOK
  /\ scene = "switches" => Events("switches")!TypeOK
  /\ scene = "other events" => Events("other events")!TypeOK

(* Payments: exported once when runs do not overlap, and missed only when
   a run could not see them, whatever overlaps. *)
PaymentsAreExported ==
  /\ scene = "payments" => Payments("payments")!OnlyLateAreMissed
  /\ scene = "one payment run" =>
       Payments("one payment run")!ExportedOnce /\ Payments("one payment run")!OnlyLateAreMissed

(* Accounting: a row is somewhere or lost for a known reason, and sent once
   when tasks do not overlap. *)
RowIsKept ==
  /\ scene = "accounting" => Accounting("accounting")!RowIsKept
  /\ scene = "one accounting task" => Accounting("one accounting task")!RowIsKept
SentOnce == scene = "one accounting task" => Accounting("one accounting task")!SentOnce

(* Events: the newest record of an object is of its last save, and of a removed
   one its end, but for what collides or was spoilt as the ghosts say. *)
EventsAreTold ==
  /\ scene = "switches" => Events("switches")!LatestIsTold /\ Events("switches")!RemovedIsEnded
  /\ scene = "other events" => Events("other events")!LatestIsTold /\ Events("other events")!RemovedIsEnded

(* Customers: every record has its root although a customer is changed while the
   files are written, and complete customers are in all the files about them. *)
CustomersAreExported ==
  /\ scene = "roots" => Command("roots")!HasRoot
  /\ scene = "complete" => Command("complete")!CompleteIsExported
=============================================================================
