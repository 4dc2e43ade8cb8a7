---------------------------- MODULE OnuRegister ----------------------------
(***************************************************************************)
(* ONUs on one fiber of a ZTE OLT (src/apps/devices): registering one from *)
(* the web interface, removing it, finding its number again, and what the  *)
(* row of the device says meanwhile.                                       *)
(*                                                                         *)
(* Every request talks to the OLT over telnet, command after command.      *)
(* Registrations and removals take the lock "zte_olt", which is never      *)
(* waited for: a request that finds it taken is refused.  The lock is a    *)
(* socket of the host the web thread runs on.  What a removal checks, it   *)
(* checks before it has the lock; what a registration returns, it writes   *)
(* to the row after it gave the lock back.  Any number of requests may be  *)
(* about one device.  The OLT is external: it keeps the serial of each     *)
(* number, and refuses a number that is taken, which nobody reads from its *)
(* answer.                                                                 *)
(***************************************************************************)
EXTENDS Integers, FiniteSets

CONSTANTS
  Devices,        \* ONUs, each with its MAC, its serial and its row
  NoDevice,
  ZteSerial,      \* devices whose serial begins with ZTEG, as find_onu believes of all
  Capacity,       \* numbers of a fiber: 127
  Web,            \* web server threads
  Hosts, HostOf,  \* the host of a thread
  NoThread,
  MaxInFlight,    \* bound: requests served at one time
  MaxFaults       \* bound: requests that fail half-way, numbers typed by staff

OnuAssumption ==
  /\ NoDevice \notin Devices /\ NoThread \notin Web
  /\ ZteSerial \subseteq Devices
  /\ Capacity \in Nat \ {0}
  /\ IsFiniteSet(Web)
  /\ HostOf \in [Web -> Hosts]
  /\ MaxInFlight \in Nat /\ MaxFaults \in Nat

VARIABLES
  olt,       \* the device registered at each number of the fiber
  row,       \* the devices: is the row there, and the number in snmp_extra, 0 for NULL;
             \* of a row that is gone, the number it had
  lock,      \* the thread that holds the lock, on each host
  web,       \* the request each thread works on, with what it read
  tasks,     \* devices with a queued unregister_device_task
  crossed,   \* ghost: threads that hold a number which the removal of another request
             \* took off the OLT after they had seen it there
  doubtful,  \* ghost: devices whose stored number was typed in, outlived a removal, or
             \* was written by a thread that is crossed
  budget

vars == <<olt, row, lock, web, tasks, crossed, doubtful, budget>>

Numbers == 1 .. Capacity

-----------------------------------------------------------------------------
(* Threads, the lock, the numbers of the fiber. *)

Free == [op |-> "free"]
InFlight == Cardinality({w \in Web : web[w] # Free})
Moves(w, q) == web' = [web EXCEPT ![w] = q]
Goes(w, q) == Moves(w, q) /\ UNCHANGED crossed
End(w) == Moves(w, Free) /\ crossed' = crossed \ {w}
On(w, op) == Goes(w, [web[w] EXCEPT !.op = op])

Kept == {d \in Devices : row[d].state # "gone"}
MayAsk(w, d) ==
  /\ web[w] = Free /\ InFlight < MaxInFlight
  /\ d \in Kept

Locked(w) == lock[HostOf[w]] # NoThread
Lock(w)   == ~Locked(w) /\ lock' = [lock EXCEPT ![HostOf[w]] = w]
Unlock(w) == lock' = [h \in Hosts |-> IF lock[h] = w THEN NoThread ELSE lock[h]]

Taken == {n \in Numbers : olt[n] # NoDevice}
NumbersOf(d) == {n \in Numbers : olt[n] = d}
(* Threads that rely on number n: they saw their device at it, or put it there. *)
RelyOn(n) ==
  {w \in Web : web[w].op \in {"configure", "save", "enter", "cut", "fix"} /\ web[w].n = n}
(* get_free_registered_onu_number: the first gap, or the one after the last.  *)
FreeNumber == CHOOSE n \in 1 .. Capacity + 1 :
                n \notin Taken /\ \A m \in 1 .. n - 1 : m \in Taken

-----------------------------------------------------------------------------
(* apply_onu_config: the code of the configuration is saved, then the ONU is
   looked for among the unregistered ones of the OLT. *)

Apply(w, d) ==
  /\ MayAsk(w, d)
  /\ Lock(w)
  /\ Goes(w, [op |-> "look", d |-> d, n |-> 0])
  /\ UNCHANGED <<olt, row, tasks, doubtful, budget>>

(* An ONU that is registered is not among them; above Capacity the fiber is full. *)
Look(w) ==
  /\ web[w].op = "look"
  /\ IF NumbersOf(web[w].d) = {} /\ FreeNumber \in Numbers
     THEN Goes(w, [web[w] EXCEPT !.op = "write", !.n = FreeNumber]) /\ UNCHANGED lock
     ELSE End(w) /\ Unlock(w)
  /\ UNCHANGED <<olt, row, tasks, doubtful, budget>>

(* The command onu <n> type <t> sn <serial>. *)
Write(w) ==
  /\ web[w].op = "write"
  /\ olt' = [olt EXCEPT ![web[w].n] = IF @ = NoDevice THEN web[w].d ELSE @]
  /\ On(w, "configure")
  /\ UNCHANGED <<row, lock, tasks, doubtful, budget>>

(* The templates of the configuration; one that is refused here (two native
   VLANs on a port) is a Fail, with the ONU registered. *)
Configure(w) ==
  /\ web[w].op = "configure"
  /\ Unlock(w)
  /\ On(w, "save")
  /\ UNCHANGED <<olt, row, tasks, doubtful, budget>>

(* What a thread writes to a row that is still there. *)
Writes(w, n) ==
  row' = [row EXCEPT ![web[w].d].n = IF web[w].d \in Kept THEN n ELSE @]
(* The row has a number that was seen on the OLT, and was not taken off since. *)
Trusts(w) ==
  doubtful' = IF w \in crossed THEN doubtful \cup ({web[w].d} \cap Kept)
                              ELSE doubtful \ {web[w].d}

(* The row may be gone: the save fails and the ONU stays on the OLT. *)
Save(w) ==
  /\ web[w].op = "save"
  /\ Writes(w, web[w].n) /\ Trusts(w)
  /\ End(w)
  /\ UNCHANGED <<olt, lock, tasks, budget>>

-----------------------------------------------------------------------------
(* remove_from_olt: the serial at the stored number must be the device's own. *)

Remove(w, d) ==
  /\ MayAsk(w, d)
  /\ row[d].n # 0
  /\ Goes(w, [op |-> "check", d |-> d, n |-> row[d].n])
  /\ UNCHANGED <<olt, row, lock, tasks, doubtful, budget>>

BugCheck(w) ==                                        \* without the check
  /\ web[w].op = "check"
  /\ On(w, "enter")
  /\ UNCHANGED <<olt, row, lock, tasks, doubtful, budget>>

Check(w) ==
  /\ web[w].op = "check"
  /\ IF olt[web[w].n] = web[w].d THEN On(w, "enter") ELSE End(w)
  /\ UNCHANGED <<olt, row, lock, tasks, doubtful, budget>>

Enter(w) ==
  /\ web[w].op = "enter"
  /\ IF Locked(w)
     THEN End(w) /\ UNCHANGED lock
     ELSE On(w, "cut") /\ Lock(w)
  /\ UNCHANGED <<olt, row, tasks, doubtful, budget>>

(* The command no onu <n>: from here on the row of the ONU that had the number is
   behind, and so is every other thread that relies on the number. *)
Cut(w) ==
  /\ web[w].op = "cut"
  /\ LET n == web[w].n IN
     /\ olt' = [olt EXCEPT ![n] = NoDevice]
     /\ doubtful' = doubtful \cup {d \in Kept : olt[n] = d}
     /\ crossed' = crossed \cup (RelyOn(n) \ {w})
  /\ Moves(w, [web[w] EXCEPT !.op = "leave"])
  /\ UNCHANGED <<row, lock, tasks, budget>>

Leave(w) ==
  /\ web[w].op = "leave"
  /\ Unlock(w)
  /\ On(w, "forget")
  /\ UNCHANGED <<olt, row, tasks, doubtful, budget>>

BugForget(w) ==                                       \* the answer is all it gives
  /\ web[w].op = "forget"
  /\ doubtful' = doubtful \ {web[w].d}
  /\ End(w)
  /\ UNCHANGED <<olt, row, lock, tasks, budget>>

Forget(w) ==
  /\ web[w].op = "forget"
  /\ Writes(w, 0)
  /\ doubtful' = doubtful \ {web[w].d}
  /\ End(w)
  /\ UNCHANGED <<olt, lock, tasks, budget>>

-----------------------------------------------------------------------------
(* fix_onu: the number is asked from the OLT, without the lock. *)

Fix(w, d) ==
  /\ MayAsk(w, d)
  /\ d \in ZteSerial
  /\ \E n \in NumbersOf(d) : Goes(w, [op |-> "fix", d |-> d, n |-> n])
  /\ UNCHANGED <<olt, row, lock, tasks, doubtful, budget>>

Found(w) ==
  /\ web[w].op = "fix"
  /\ Writes(w, web[w].n) /\ Trusts(w)
  /\ End(w)
  /\ UNCHANGED <<olt, lock, tasks, budget>>

-----------------------------------------------------------------------------
(* Rows. *)

(* The form of a device shows snmp_extra to staff, and takes any number. *)
Type(d, n) ==
  /\ budget > 0 /\ budget' = budget - 1
  /\ d \in Kept
  /\ row' = [row EXCEPT ![d].n = n]
  /\ doubtful' = doubtful \cup {d}
  /\ UNCHANGED <<olt, lock, web, tasks, crossed>>

(* The signal of the removal queues the task before the removal is committed. *)
Delete(d) ==
  /\ row[d].state = "there"
  /\ row' = [row EXCEPT ![d].state = "leaving"]
  /\ tasks' = tasks \cup {d}
  /\ UNCHANGED <<olt, lock, web, crossed, doubtful, budget>>

Commit(d) ==
  /\ row[d].state = "leaving"
  /\ row' = [row EXCEPT ![d].state = "gone"]
  /\ doubtful' = doubtful \ {d}
  /\ UNCHANGED <<olt, lock, web, tasks, crossed, budget>>

(* unregister_device_task: a row that is still seen is compared with
   DEVICE_ONU_TYPES, a list of classes, by the number of its type: no number is
   in it, and the task ends without a word to the OLT. *)
Unregister(d) ==
  /\ d \in tasks
  /\ tasks' = tasks \ {d}
  /\ UNCHANGED <<olt, row, lock, web, crossed, doubtful, budget>>

(* A command times out, the OLT or the network is away, the configuration is
   refused, the process dies: the lock is freed, what was done stays. *)
Fail(w) ==
  /\ budget > 0 /\ budget' = budget - 1
  /\ web[w] # Free
  /\ End(w) /\ Unlock(w)
  /\ UNCHANGED <<olt, row, tasks, doubtful>>

-----------------------------------------------------------------------------
Init ==
  /\ olt = [n \in Numbers |-> NoDevice]
  /\ row = [d \in Devices |-> [state |-> "there", n |-> 0]]
  /\ lock = [h \in Hosts |-> NoThread]
  /\ web = [w \in Web |-> Free]
  /\ tasks = {} /\ crossed = {} /\ doubtful = {} /\ budget = MaxFaults

Request(w) == \E d \in Devices : Apply(w, d) \/ Remove(w, d) \/ Fix(w, d)
Register(w) == Look(w) \/ Write(w) \/ Configure(w) \/ Save(w)
Unbind(w) == Check(w) \/ Enter(w) \/ Cut(w) \/ Leave(w) \/ Forget(w)
Rows(d) ==
  \/ \E n \in Numbers \cup {0} : Type(d, n)
  \/ Delete(d) \/ Commit(d) \/ Unregister(d)

Next ==
  \/ \E w \in Web : Request(w) \/ Register(w) \/ Unbind(w) \/ Found(w) \/ Fail(w)
  \/ \E d \in Devices : Rows(d)

Spec == Init /\ [][Next]_vars

-----------------------------------------------------------------------------
(* Properties. *)

Requests ==
  {Free} \cup [op : {"look", "write", "configure", "save", "check", "enter", "cut",
                     "leave", "forget", "fix"}, d : Devices, n : Numbers \cup {0}]

(* Every variable keeps its type. *)
TypeOK ==
  /\ olt \in [Numbers -> Devices \cup {NoDevice}]
  /\ row \in [Devices -> [state : {"there", "leaving", "gone"}, n : Numbers \cup {0}]]
  /\ lock \in [Hosts -> Web \cup {NoThread}]
  /\ web \in [Web -> Requests]
  /\ tasks \subseteq Devices /\ crossed \subseteq Web /\ doubtful \subseteq Devices
  /\ budget \in 0 .. MaxFaults

(* The number a registration writes is still free, the first one that is: the
   look and the command are one step for every other request of the host. *)
RegisterStep ==
  \A w \in Web : (web[w].op = "write" /\ web'[w].op = "configure") =>
    web[w].n = FreeNumber

(* The check of a removal comes before the lock, and staff may type in any number, ask
   twice of one device, and meet a removal with a registration or a repair: still
   what a removal takes from the OLT is the ONU of its own device.  The exception is
   a number that the removal of another request took off after this one had checked
   it: nothing in the code keeps the number from having gone to another ONU since,
   and that ONU is taken. *)
RemoveStep ==
  \A w \in Web : (web[w].op = "cut" /\ web'[w].op = "leave" /\ w \notin crossed) =>
    olt[web[w].n] = web[w].d

(* Whatever overlaps on one host, an ONU has one number at most.  The number its row has
   is its own, unless it was typed in, a removal that took the ONU has not written its
   row, or the request that wrote the row was crossed by a removal. *)
RecordIsOwn ==
  \A d \in Devices :
    /\ Cardinality(NumbersOf(d)) <= 1
    /\ (row[d].state # "gone" /\ row[d].n # 0 /\ d \notin doubtful) => olt[row[d].n] = d

(* What the doc of unregister_device_task says: the task takes the ONU of a
   removed device from the OLT. *)
RemovedIsUnregistered ==
  \A d \in Devices :
    (row[d].state = "gone" /\ row[d].n # 0 /\ d \notin tasks) => olt[row[d].n] # d
=============================================================================
