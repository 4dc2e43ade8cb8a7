----------------------------- MODULE MCProgress -----------------------------
(* Small instances for what must happen in the end: transactions of Payme are
   settled, sessions follow the services of their customers, unused leases
   return, and the authority is told of accounting and of events.  As in
   MCOffices, the instance named by scene moves. *)
EXTENDS Integers, TLC

CONSTANTS w1, w2,          \* threads, or workers
          t1, buyer,       \* Payme
          x1, g1, c1, i1, h1, h2, none, nobody,  \* devices, a customer, addresses
          r1, r2,          \* rows of accounting
          s1, p1           \* a switch and a pool

VARIABLES scene,
  trans, account, balance, ledger, pWeb, checks, credits, told, pClock, pBudget,
  lease, active, served, bras, net, tasks, web, disturbed, heard, budget,
  gLease, gActive, gServed, gBras, gNet, gTasks, gWeb, gDisturbed, gHeard, gBudget,
  aQueue, due, file, aRemote, aTask, aClock, logged, sent, gone, aFaults,
  row, queue, task, remote, clock, saves, ended, spoilt, faults

Both == {w1, w2}

-----------------------------------------------------------------------------
Amounts == (t1 :> 1)
Payme == INSTANCE Payme WITH
  Transactions <- {t1}, Customers <- {buyer}, NoCustomer <- none, Amount <- Amounts,
  Web <- Both, TimeOut <- 1, MaxTime <- 2, MaxFaults <- 2, MaxInFlight <- 2,
  web <- pWeb, clock <- pClock, budget <- pBudget

(* A device of a customer, and one of nobody. *)
SyncOwner == (x1 :> c1)
Sync == INSTANCE Leases WITH
  CPE <- {x1}, Customers <- {c1}, NoCustomer <- none, Nobody <- nobody, Owner <- SyncOwner,
  Opt82 <- {x1}, Inet <- {i1}, Guest <- {h1}, Web <- {w1},
  StaleAge <- 1, MaxFaults <- 1, MaxInFlight <- 1, MaxPackets <- 1, MaxTasks <- 2
ReturnOwner == (g1 :> none)
Return == INSTANCE Leases WITH
  CPE <- {g1}, Customers <- {c1}, NoCustomer <- none, Nobody <- nobody, Owner <- ReturnOwner,
  Opt82 <- {}, Inet <- {i1}, Guest <- {h1, h2}, Web <- {w1},
  StaleAge <- 1, MaxFaults <- 1, MaxInFlight <- 1, MaxPackets <- 1, MaxTasks <- 1,
  lease <- gLease, active <- gActive, served <- gServed, bras <- gBras, net <- gNet,
  tasks <- gTasks, web <- gWeb, disturbed <- gDisturbed, heard <- gHeard, budget <- gBudget

Aaa == INSTANCE AaaExport WITH
  Rows <- {r1, r2}, Workers <- Both, MaxInFlight <- 2, MaxDue <- 1, MaxSeconds <- 1,
  MaxFaults <- 1,
  queue <- aQueue, remote <- aRemote, task <- aTask, clock <- aClock, faults <- aFaults

Kind == (s1 :> "switch" @@ p1 :> "pool")
Events == INSTANCE EventExport WITH
  Objects <- {s1, p1}, Workers <- Both, MaxSaves <- 2, MaxSeconds <- 2, MaxFaults <- 1

-----------------------------------------------------------------------------
paymeVars == <<trans, account, balance, ledger, pWeb, checks, credits, told, pClock, pBudget>>
leaseVars == <<lease, active, served, bras, net, tasks, web, disturbed, heard, budget>>
guestVars == <<gLease, gActive, gServed, gBras, gNet, gTasks, gWeb, gDisturbed, gHeard, gBudget>>
aaaVars   == <<aQueue, due, file, aRemote, aTask, aClock, logged, sent, gone, aFaults>>
eventVars == <<row, queue, task, remote, clock, saves, ended, spoilt, faults>>
vars == <<scene, paymeVars, leaseVars, guestVars, aaaVars, eventVars>>

InPayme(A) == scene = "payme" /\ A /\ UNCHANGED <<scene, leaseVars, guestVars, aaaVars, eventVars>>
InSync(A)   == scene = "sync" /\ A /\ UNCHANGED <<scene, paymeVars, guestVars, aaaVars, eventVars>>
InReturn(A) == scene = "return" /\ A /\ UNCHANGED <<scene, paymeVars, leaseVars, aaaVars, eventVars>>
InAaa(A)    == scene = "accounting" /\ A /\ UNCHANGED <<scene, paymeVars, leaseVars, guestVars, eventVars>>
InEvents(A) == scene = "events" /\ A /\ UNCHANGED <<scene, paymeVars, leaseVars, guestVars, aaaVars>>

Init ==
  /\ scene \in {"payme", "sync", "return", "accounting", "events"}
  /\ Payme!Init /\ Sync!Init /\ Return!Init /\ Aaa!Init /\ Events!Init

Next ==
  \/ InPayme(Payme!Next) \/ InSync(Sync!Next) \/ InReturn(Return!Next)
  \/ InAaa(Aaa!Next) \/ InEvents(Events!Next)

(* The fairness of the components, one action of each at a time: in a behaviour
   one component moves, so that fairness of a disjunction of actions of
   different components is fairness of each. *)
Fairness ==
  /\ WF_vars(\/ InPayme(Payme!Tick) \/ InSync(Sync!Tick) \/ InReturn(Return!Tick)
             \/ InAaa(Aaa!Schedule) \/ InEvents(Events!Take(w1)))
  /\ WF_vars(\/ InPayme(Payme!Serve(w1)) \/ InSync(Sync!Serve(w1)) \/ InReturn(Return!Serve(w1))
             \/ InAaa(Aaa!Step(w1)) \/ InEvents(Events!Stor(w1)))
  /\ WF_vars(\/ InPayme(Payme!Serve(w2))
             \/ InSync(Sync!ReleaseStale) \/ InReturn(Return!ReleaseStale)
             \/ InAaa(Aaa!Step(w2)) \/ InEvents(Events!Stor(w2)))
  /\ WF_vars(InSync(Sync!ChangeToInet(x1)) \/ InReturn(Return!ChangeToInet(g1))
             \/ InEvents(Events!Take(w2)))
  /\ WF_vars(InSync(Sync!ChangeToGuest(x1)) \/ InReturn(Return!ChangeToGuest(g1)))
  /\ SF_vars(\/ InPayme(\E w \in Both : Payme!Perform(w, t1) \/ Payme!PerformLate(w, t1))
             \/ InSync(Sync!CheckLease(x1)) \/ InReturn(Return!CheckLease(g1))
             \/ InAaa(\E w \in Both : Aaa!TakeUpload(w)))
  /\ SF_vars(\/ InSync(Sync!Interim(x1)) \/ InReturn(Return!Interim(g1))
             \/ InAaa(\E w \in Both : Aaa!TakeAppend(w, r1)))
  /\ SF_vars(\/ InSync(\E p \in net : p.x = x1 /\ Sync!Acct(p))
             \/ InReturn(\E p \in gNet : p.x = g1 /\ Return!Acct(p))
             \/ InAaa(\E w \in Both : Aaa!TakeAppend(w, r2)))

FairSpec == Init /\ [][Next]_vars /\ Fairness

-----------------------------------------------------------------------------
(* What happens in the end. *)

(* A transaction that was started is performed or cancelled. *)
StartedIsSettled == Payme!StartedIsSettled

(* A session follows the access of its customer, and one the table has
   forgotten is dropped. *)
ServiceFollows == Sync!ServiceFollows
NoOrphanSession == Sync!NoOrphanSession

(* A dynamic lease that nobody uses returns. *)
UnusedReturns == Return!UnusedReturns

(* A row of accounting is sent or lost for a known reason. *)
RowIsSent == Aaa!RowIsSent

(* The authority is told of the end of an object. *)
EndIsTold == Events!EndIsTold
=============================================================================
