--------------------------- MODULE AccountAccess ---------------------------
(***************************************************************************)
(* Who is let in by a token (src/apps/djing2/lib/fastapi/auth.py,          *)
(* src/apps/djing2/lib/authenticators.py, src/apps/profiles): the routes   *)
(* of FastAPI keep the token with a copy of its account in Redis for an    *)
(* hour and look at the copy; the views of Django ask the database every   *)
(* time.  Both read the row of the account once more to serve it.          *)
(*                                                                         *)
(* An account has one token at most, made with it or at the first login.   *)
(* Redis is external: it forgets an entry when its time has come, and may  *)
(* forget all of them at any time.                                         *)
(***************************************************************************)
EXTENDS Integers, FiniteSets

CONSTANTS
  Accounts,
  Staff,         \* accounts with a row of UserProfile, the others have one of Customer
  Web,           \* web server threads
  CacheTTL,      \* REDIS_AUTH_CACHE_TTL
  MaxWait,       \* bound: how long a request may take
  MaxTime,       \* bound: the clock
  MaxChanges     \* bound: changes of accounts, losses of Redis

AccessAssumption ==
  /\ Staff \subseteq Accounts
  /\ CacheTTL \in Nat \ {0} /\ MaxWait \in Nat
  /\ MaxTime \in Nat /\ MaxChanges \in Nat

VARIABLES
  person,     \* the rows of accounts: are they there, active, administrators
  token,      \* accounts that have a token
  redis,      \* entries: the copy of the account, and when they are forgotten
  aweb,       \* the request of each thread, with what it has read
  changed,    \* ghost: when active was changed last
  now,
  changes

vars == <<person, token, redis, aweb, changed, now, changes>>

-----------------------------------------------------------------------------
Never == -1 - CacheTTL - MaxWait          \* longer ago than anything is remembered
Free == [op |-> "free"]
NoEntry == [until |-> 0]
Idle(w) == aweb[w].op \in {"free", "user", "inactive", "nobody"}
Goes(w, q) == aweb' = [aweb EXCEPT ![w] = q]

Copy(a) == [active |-> person[a].active, admin |-> person[a].admin]
Kept(a) == redis[a] # NoEntry /\ now < redis[a].until

(* get_right_user: the copy says of which kind the account is; the row of that
   kind may be missing. *)
RightUser(a, copy) == person[a].there /\ copy.admin = (a \in Staff)

(* What a request is answered: the copy is looked at before the row. *)
Verdict(a, copy) ==
  IF ~copy.active THEN "inactive" ELSE IF RightUser(a, copy) THEN "user" ELSE "nobody"

-----------------------------------------------------------------------------
(* get_token: the entry, or the token and its account from the database. *)

Ask(w, a) ==
  /\ Idle(w)
  /\ Goes(w, IF Kept(a)
             THEN [op |-> "look", a |-> a, copy |-> redis[a].copy, since |-> now]
             ELSE [op |-> "query", a |-> a, since |-> now])
  /\ UNCHANGED <<person, token, redis, changed, now, changes>>

Query(w) ==
  /\ aweb[w].op = "query"
  /\ LET a == aweb[w].a IN
     Goes(w, IF a \in token
             THEN [op |-> "keep", a |-> a, copy |-> Copy(a), since |-> aweb[w].since]
             ELSE Free)
  /\ UNCHANGED <<person, token, redis, changed, now, changes>>

BugKeep(w) ==                             \* the time begins anew with every request
  /\ aweb[w].op \in {"keep", "look"}
  /\ redis' = [redis EXCEPT ![aweb[w].a] = [copy |-> aweb[w].copy, until |-> now + CacheTTL]]
  /\ Goes(w, [aweb[w] EXCEPT !.op = "answer"])
  /\ UNCHANGED <<person, token, changed, now, changes>>

(* The hour begins when the entry is written, whatever has happened since the query. *)
Keep(w) ==
  /\ aweb[w].op = "keep"
  /\ redis' = [redis EXCEPT ![aweb[w].a] = [copy |-> aweb[w].copy, until |-> now + CacheTTL]]
  /\ Goes(w, [aweb[w] EXCEPT !.op = "answer"])
  /\ UNCHANGED <<person, token, changed, now, changes>>

(* TokenAPIKeyHeader: what the row says of rights is fresh, what the copy says
   of the account may be old. *)
Answer(w) ==
  /\ aweb[w].op \in {"look", "answer"}
  /\ Goes(w, [op |-> Verdict(aweb[w].a, aweb[w].copy)])
  /\ UNCHANGED <<person, token, redis, changed, now, changes>>

(* CustomTokenAuthentication: the views of Django. *)
AskView(w, a) ==
  /\ Idle(w)
  /\ a \in token
  /\ Goes(w, [op |-> "answer", a |-> a, copy |-> Copy(a), since |-> now])
  /\ UNCHANGED <<person, token, redis, changed, now, changes>>

-----------------------------------------------------------------------------
(* Accounts.  Staff get a token with their row, customers when they log in. *)

Create(a) ==
  /\ ~person[a].there
  /\ changed[a] = Never                   \* keys are not used again
  /\ \E active \in BOOLEAN :
       person' = [person EXCEPT ![a] = [there |-> TRUE, active |-> active, admin |-> a \in Staff]]
  /\ token' = IF a \in Staff THEN token \cup {a} ELSE token
  /\ UNCHANGED <<redis, aweb, changed, now, changes>>

(* A login needs an active account; it takes the token that is there.  The entry
   in Redis stays what it was. *)
Login(a) ==
  /\ person[a].there /\ person[a].active
  /\ token' = token \cup {a}
  /\ UNCHANGED <<person, redis, aweb, changed, now, changes>>

SetActive(a, active) ==
  /\ changes > 0 /\ changes' = changes - 1
  /\ person[a].there /\ person[a].active # active
  /\ person' = [person EXCEPT ![a].active = active]
  /\ changed' = [changed EXCEPT ![a] = now]
  /\ UNCHANGED <<token, redis, aweb, now>>

SetAdmin(a) ==
  /\ changes > 0 /\ changes' = changes - 1
  /\ person[a].there
  /\ person' = [person EXCEPT ![a].admin = ~@]
  /\ UNCHANGED <<token, redis, aweb, changed, now>>

(* The token goes with its account. *)
Remove(a) ==
  /\ person[a].there
  /\ person' = [person EXCEPT ![a] = [@ EXCEPT !.there = FALSE]]
  /\ token' = token \ {a}
  /\ changed' = [changed EXCEPT ![a] = now]
  /\ UNCHANGED <<redis, aweb, now, changes>>

-----------------------------------------------------------------------------
Flush ==
  /\ changes > 0 /\ changes' = changes - 1
  /\ redis' = [a \in Accounts |-> NoEntry]
  /\ UNCHANGED <<person, token, aweb, changed, now>>

Tick ==
  /\ now < MaxTime
  /\ \A w \in Web : ~Idle(w) => now - aweb[w].since < MaxWait
  /\ now' = now + 1
  /\ redis' = [a \in Accounts |->
                 IF redis[a] # NoEntry /\ redis[a].until <= now + 1 THEN NoEntry ELSE redis[a]]
  /\ UNCHANGED <<person, token, aweb, changed, changes>>

-----------------------------------------------------------------------------
Init ==
  /\ person = [a \in Accounts |-> [there |-> FALSE, active |-> FALSE, admin |-> FALSE]]
  /\ token = {}
  /\ redis = [a \in Accounts |-> NoEntry]
  /\ aweb = [w \in Web |-> Free]
  /\ changed = [a \in Accounts |-> Never]
  /\ now = 0 /\ changes = MaxChanges

Serve(w) ==
  \/ \E a \in Accounts : Ask(w, a) \/ AskView(w, a)
  \/ Query(w) \/ Keep(w) \/ Answer(w)
Manage(a) ==
  \/ Create(a) \/ Login(a) \/ SetAdmin(a) \/ Remove(a)
  \/ \E active \in BOOLEAN : SetActive(a, active)

Next ==
  \/ \E w \in Web : Serve(w)
  \/ \E a \in Accounts : Manage(a)
  \/ Flush \/ Tick

Spec == Init /\ [][Next]_vars

-----------------------------------------------------------------------------
(* Properties. *)

Copies == [active : BOOLEAN, admin : BOOLEAN]
Requests ==
  [op : {"free", "user", "inactive", "nobody"}]
    \cup [op : {"query"}, a : Accounts, since : 0 .. MaxTime]
    \cup [op : {"look", "keep", "answer"}, a : Accounts, copy : Copies, since : 0 .. MaxTime]

(* Every variable keeps its type; who has a token has a row. *)
TypeOK ==
  /\ person \in [Accounts -> [there : BOOLEAN, active : BOOLEAN, admin : BOOLEAN]]
  /\ token \subseteq {a \in Accounts : person[a].there}
  /\ redis \in [Accounts -> {NoEntry} \cup [copy : Copies, until : 0 .. MaxTime + CacheTTL]]
  /\ aweb \in [Web -> Requests]
  /\ changed \in [Accounts -> {Never} \cup 0 .. MaxTime]
  /\ now \in 0 .. MaxTime /\ changes \in 0 .. MaxChanges

(* An account that was turned off, or on, is taken for what it was no longer than
   the copy lives and two requests take: one that read it before, one that answers.
   A request that serves an account has seen its row. *)
AnswerStep ==
  \A w \in Web :
    (aweb[w].op \in {"look", "answer"} /\ aweb'[w].op \in {"user", "inactive"}) =>
      LET a == aweb[w].a IN
      /\ aweb'[w].op = "user" => person[a].there
      /\ (aweb'[w].op = "user") # person[a].active
           => now - changed[a] < CacheTTL + 2 * MaxWait
=============================================================================
