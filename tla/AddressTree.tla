---------------------------- MODULE AddressTree ----------------------------
(***************************************************************************)
(* The tree of addresses (src/apps/addresses/models.py), kept through the  *)
(* generic routes of src/apps/djing2/lib/fastapi/crud.py.                  *)
(*                                                                         *)
(* AddressModel.save compares the level with that of the parent to be, but *)
(* looks for the ancestors in the database, where the row still has its    *)
(* old parent, or is not there yet.  Between its queries and the write     *)
(* other requests may write.                                               *)
(***************************************************************************)
EXTENDS Integers, FiniteSets

CONSTANTS
  Addrs,         \* ids, given in order
  Levels,        \* fias_address_level
  Types,         \* fias_address_type
  Kinds,         \* address_type: "street", "other", or "plain" for the rest
  Titles,
  Threads,       \* web requests
  MaxInFlight,   \* bound: requests at one time
  MaxWrites,     \* bound: requests to create or change
  Asked          \* bound: addresses whose full title is asked for

AddressAssumption ==
  /\ IsFiniteSet(Addrs) /\ Addrs \subseteq Nat \ {0} /\ Levels \subseteq Nat \ {0}
  /\ Kinds \subseteq {"street", "other", "plain"}
AddressBoundAssumption == MaxInFlight \in Nat /\ MaxWrites \in Nat

VARIABLES
  addr,       \* the table
  used,       \* ids given out: none is used again
  web,        \* what each thread is at
  cache,      \* lru_cache of get_address_full_title, one process
  relevelled, \* ghost: rows whose level was changed
  writes

table == <<addr, used>>
vars == <<table, web, cache, relevelled, writes>>

-----------------------------------------------------------------------------

Top == 0                       \* parent_addr is NULL
Row == [parent : Addrs \cup {Top}, level : Levels, type : Types, kind : Kinds, title : Titles]
NoAddr == [parent |-> Top, level |-> 0]
Exists(a) == addr[a] # NoAddr
Idle == [op |-> "idle"]
Running == Cardinality({w \in Threads : web[w] # Idle})
Goes(w, next) == web' = [web EXCEPT ![w] = next]

(* The recursive query with direction_down=False, in rounds: UNION drops
   what was found before, so that it ends on a cycle as well. *)
get_address_recursive_ids(a) ==
  LET Round[n \in 0 .. Cardinality(Addrs)] ==
        IF n = 0 THEN {a}
        ELSE Round[n - 1] \cup ({addr[b].parent : b \in Round[n - 1]} \ {Top})
  IN IF Exists(a) THEN Round[Cardinality(Addrs)] ELSE {}

get_address_by_type(a, kind) ==
  {b \in get_address_recursive_ids(a) : addr[b].kind = kind}

FullTitle(a) == {<<b, addr[b].title>> : b \in get_address_recursive_ids(a)}

(* POST: the row that objects.create is to save; it has no id yet. *)
Create(w, a, row) ==
  /\ web[w] = Idle /\ Running < MaxInFlight /\ writes < MaxWrites
  /\ a \in Addrs \ used /\ \A b \in Addrs \ used : a <= b
  /\ used' = used \cup {a}
  /\ Goes(w, [op |-> "level", a |-> a, row |-> row, fields |-> DOMAIN row])
  /\ writes' = writes + 1
  /\ UNCHANGED <<addr, cache, relevelled>>

(* PATCH: the row is read, and one field set. *)
Update(w, a, field, value) ==
  /\ web[w] = Idle /\ Running < MaxInFlight /\ writes < MaxWrites
  /\ Exists(a)
  /\ Goes(w, [op |-> "level", a |-> a, row |-> [addr[a] EXCEPT ![field] = value],
              fields |-> {field}])
  /\ writes' = writes + 1
  /\ UNCHANGED <<table, cache, relevelled>>

Refuse(w) == Goes(w, Idle)
Then(w, op) == Goes(w, [web[w] EXCEPT !.op = op])

BugCheckLevel(w) ==
  /\ web[w].op = "level"                    \* the comparison is turned round
  /\ LET r == web[w].row IN
     IF r.parent = Top \/ (Exists(r.parent) /\ addr[r.parent].level >= r.level)
     THEN Then(w, "above") ELSE Refuse(w)
  /\ UNCHANGED <<table, cache, relevelled, writes>>

(* AddressModel.save: the level of the parent to be. *)
CheckLevel(w) ==
  /\ web[w].op = "level"
  /\ LET r == web[w].row IN
     IF r.parent = Top \/ (Exists(r.parent) /\ addr[r.parent].level <= r.level)
     THEN Then(w, "above") ELSE Refuse(w)
  /\ UNCHANGED <<table, cache, relevelled, writes>>

(* Then the ancestors that the database knows; a row that is created has no
   id, and so none. *)
CheckAbove(w) ==
  /\ web[w].op = "above"
  /\ LET a == web[w].a
         r == web[w].row IN
     IF \/ \E b \in get_address_recursive_ids(a) \ {a} : addr[b].type = r.type
        \/ r.kind = "other" /\ get_address_by_type(a, "street") # {}
     THEN Refuse(w) ELSE Then(w, "write")
  /\ UNCHANGED <<table, cache, relevelled, writes>>

(* INSERT, or UPDATE of the fields of the request: refused by the foreign
   key, or for a row that is gone. *)
Write(w) ==
  LET x == web[w]
      new == x.fields = DOMAIN x.row
      fits == (x.row.parent \in {Top, x.a} \/ Exists(x.row.parent)) /\ (new \/ Exists(x.a)) IN
  /\ x.op = "write"
  /\ IF fits
     THEN /\ addr' = [addr EXCEPT ![x.a] =
               IF new THEN x.row
               ELSE [f \in DOMAIN x.row |-> IF f \in x.fields THEN x.row[f] ELSE @[f]]]
          /\ relevelled' = IF ~new /\ "level" \in x.fields
                           THEN relevelled \cup {x.a} ELSE relevelled
     ELSE UNCHANGED <<addr, relevelled>>
  /\ Goes(w, Idle)
  /\ UNCHANGED <<used, cache, writes>>

(* Children lose their parent, on_delete=SET_DEFAULT. *)
Delete(a) ==
  /\ Exists(a)
  /\ addr' = [b \in Addrs |-> IF b = a THEN NoAddr
                ELSE IF addr[b].parent = a THEN [addr[b] EXCEPT !.parent = Top] ELSE addr[b]]
  /\ UNCHANGED <<used, web, cache, relevelled, writes>>

(* full_title, and the route get_full_title. *)
AskTitle(a) ==
  /\ a \in Asked /\ Exists(a) /\ cache[a] = {}
  /\ cache' = [cache EXCEPT ![a] = FullTitle(a)]
  /\ UNCHANGED <<table, web, relevelled, writes>>

-----------------------------------------------------------------------------

Init ==
  /\ addr = [a \in Addrs |-> NoAddr] /\ used = {}
  /\ web = [w \in Threads |-> Idle]
  /\ cache = [a \in Addrs |-> {}]
  /\ relevelled = {} /\ writes = 0

Begin(w, a) ==
  \/ \E row \in Row : Create(w, a, row)
  \/ \E p \in Addrs \cup {Top} : Update(w, a, "parent", p)
  \/ \E l \in Levels : Update(w, a, "level", l)
  \/ \E t \in Types : Update(w, a, "type", t)
  \/ \E k \in Kinds : Update(w, a, "kind", k)
  \/ \E t \in Titles : Update(w, a, "title", t)

Next ==
  \/ \E w \in Threads : \/ \E a \in Addrs : Begin(w, a)
                        \/ CheckLevel(w) \/ CheckAbove(w) \/ Write(w)
  \/ \E a \in Addrs : Delete(a) \/ AskTitle(a)

Spec == Init /\ [][Next]_vars

-----------------------------------------------------------------------------
(* Properties. *)

(* Types; a parent is a row that is there. *)
TypeOK ==
  /\ \A a \in Addrs : Exists(a) =>
       addr[a] \in Row /\ addr[a].parent \in {b \in Addrs : Exists(b)} \cup {Top}
  /\ \A w \in Threads : web[w] # Idle =>
       /\ web[w].op \in {"level", "above", "write"} /\ web[w].a \in Addrs
       /\ web[w].row \in Row
       /\ web[w].fields \subseteq {"parent", "level", "type", "kind", "title"}
  /\ used \subseteq Addrs /\ \A a \in Addrs : Exists(a) => a \in used
  /\ cache \in [Addrs -> SUBSET (Addrs \X Titles)]
  /\ relevelled \subseteq Addrs /\ writes \in 0 .. MaxWrites

(* Levels fall on the way up, whatever requests overlap, as long as no level
   is changed: a row is never below one of a higher level.  So a cycle, which
   nothing forbids, is made of rows of one level. *)
LevelsFall == \A a \in Addrs : Exists(a) =>
  \/ \A b \in get_address_recursive_ids(a) : addr[b].level <= addr[a].level
  \/ get_address_recursive_ids(a) \cap relevelled # {}
=============================================================================
