------------------------ MODULE AccountAccess_proofs ------------------------
(***************************************************************************)
(* How long an account is taken for what it was, for any accounts,         *)
(* threads and bounds, with any life of the entries in Redis.              *)
(***************************************************************************)
EXTENDS AccountAccess, TLAPS

-----------------------------------------------------------------------------
(* What a request and an entry are made of. *)

Holds(q) == q.op \in {"look", "keep", "answer"}

LEMMA RequestShape ==
  ASSUME TypeOK, NEW w \in Web
  PROVE  /\ aweb[w].op \in {"free", "user", "inactive", "nobody", "query", "look", "keep", "answer"}
         /\ aweb[w].op = "query" => aweb[w].a \in Accounts /\ aweb[w].since \in 0 .. MaxTime
         /\ Holds(aweb[w]) => /\ aweb[w].a \in Accounts /\ aweb[w].since \in 0 .. MaxTime
                              /\ aweb[w].copy \in Copies
<1>1. aweb[w] \in Requests
  BY DEF TypeOK
<1> QED BY <1>1 DEF Requests, Holds

LEMMA CopyTyped ==
  ASSUME TypeOK, NEW a \in Accounts
  PROVE  Copy(a) \in Copies
BY DEF TypeOK, Copy, Copies

LEMMA EntryShape ==
  ASSUME TypeOK, NEW a \in Accounts, redis[a] # NoEntry
  PROVE  redis[a].copy \in Copies /\ redis[a].until \in 0 .. MaxTime + CacheTTL
BY DEF TypeOK

LEMMA FreeTyped ==
  /\ Free \in Requests
  /\ \A op \in {"user", "inactive", "nobody"} : [op |-> op] \in Requests
BY DEF Free, Requests

LEMMA VerdictIs ==
  ASSUME NEW a, NEW copy
  PROVE  /\ Verdict(a, copy) \in {"user", "inactive", "nobody"}
         /\ Verdict(a, copy) = "user" => copy.active /\ person[a].there
         /\ Verdict(a, copy) = "inactive" => ~copy.active
BY DEF Verdict, RightUser

(* The requests after thread w moved on to q. *)
LEMMA WebTyped ==
  ASSUME TypeOK, NEW w \in Web, NEW q \in Requests, Goes(w, q)
  PROVE  aweb' \in [Web -> Requests]
BY DEF TypeOK, Goes

-----------------------------------------------------------------------------
(* Types. *)

LEMMA AccessInitTypes == AccessAssumption /\ Init => TypeOK
BY FreeTyped DEF AccessAssumption, Init, TypeOK

LEMMA ServeTypes ==
  ASSUME AccessAssumption, TypeOK, NEW w \in Web, Serve(w)
  PROVE  TypeOK'
<1>a. now \in 0 .. MaxTime /\ CacheTTL \in Nat /\ MaxTime \in Nat
  BY DEF TypeOK, AccessAssumption
<1>b. ASSUME NEW q \in Requests, Goes(w, q), UNCHANGED <<person, token, redis, changed, now, changes>>
      PROVE  TypeOK'
  BY <1>b, WebTyped DEF TypeOK
<1>1. ASSUME NEW a \in Accounts, Ask(w, a) PROVE TypeOK'
  <2>1. CASE Kept(a)
    <3> DEFINE q == [op |-> "look", a |-> a, copy |-> redis[a].copy, since |-> now]
    <3>1. q \in Requests
      BY <2>1, <1>a, EntryShape DEF Kept, Requests
    <3>2. Goes(w, q)
      BY <2>1, <1>1 DEF Ask
    <3> HIDE DEF q
    <3> QED BY <3>1, <3>2, <1>1, <1>b DEF Ask
  <2>2. CASE ~Kept(a)
    <3> DEFINE q == [op |-> "query", a |-> a, since |-> now]
    <3>1. q \in Requests
      BY <1>a DEF Requests
    <3>2. Goes(w, q)
      BY <2>2, <1>1 DEF Ask
    <3> HIDE DEF q
    <3> QED BY <3>1, <3>2, <1>1, <1>b DEF Ask
  <2> QED BY <2>1, <2>2
<1>2. ASSUME NEW a \in Accounts, AskView(w, a) PROVE TypeOK'
  <2> DEFINE q == [op |-> "answer", a |-> a, copy |-> Copy(a), since |-> now]
  <2>1. q \in Requests
    BY <1>a, CopyTyped DEF Requests
  <2>2. Goes(w, q)
    BY <1>2 DEF AskView
  <2> HIDE DEF q
  <2> QED BY <2>1, <2>2, <1>2, <1>b DEF AskView
<1>3. CASE Query(w)
  <2> DEFINE q == [op |-> "keep", a |-> aweb[w].a, copy |-> Copy(aweb[w].a), since |-> aweb[w].since]
  <2>1. aweb[w].a \in Accounts /\ aweb[w].since \in 0 .. MaxTime
    BY <1>3, RequestShape DEF Query
  <2>2. q \in Requests
    BY <2>1, CopyTyped DEF Requests
  <2>3. Goes(w, q) \/ Goes(w, Free)
    BY <1>3 DEF Query
  <2> HIDE DEF q
  <2> QED BY <2>2, <2>3, <1>3, <1>b, FreeTyped DEF Query
<1>4. CASE Keep(w)
  <2> DEFINE a == aweb[w].a
             e == [copy |-> aweb[w].copy, until |-> now + CacheTTL]
             q == [aweb[w] EXCEPT !.op = "answer"]
  <2>1. aweb[w] \in [op : {"look", "keep", "answer"}, a : Accounts, copy : Copies, since : 0 .. MaxTime]
    BY <1>4 DEF Keep, TypeOK, Requests
  <2>2. q \in Requests
    BY <2>1 DEF Requests
  <2>3. a \in Accounts /\ e \in [copy : Copies, until : 0 .. MaxTime + CacheTTL]
    BY <2>1, <1>a
  <2>4. Goes(w, q) /\ redis' = [redis EXCEPT ![a] = e]
    BY <1>4 DEF Keep
  <2> HIDE DEF a, e, q
  <2>5. redis' \in [Accounts -> {NoEntry} \cup [copy : Copies, until : 0 .. MaxTime + CacheTTL]]
    BY <2>3, <2>4 DEF TypeOK
  <2> QED BY <2>2, <2>4, <2>5, <1>4, WebTyped DEF Keep, TypeOK
<1>5. CASE Answer(w)
  <2> DEFINE q == [op |-> Verdict(aweb[w].a, aweb[w].copy)]
  <2>1. q \in Requests
    BY VerdictIs, FreeTyped
  <2>2. Goes(w, q)
    BY <1>5 DEF Answer
  <2> HIDE DEF q
  <2> QED BY <2>1, <2>2, <1>5, <1>b DEF Answer
<1> QED BY <1>1, <1>2, <1>3, <1>4, <1>5 DEF Serve

LEMMA ManageTypes ==
  ASSUME AccessAssumption, TypeOK, NEW a \in Accounts, Manage(a)
  PROVE  TypeOK'
<1>a. UNCHANGED <<redis, aweb, now>>
  BY DEF Manage, Create, Login, SetActive, SetAdmin, Remove
<1>b. changes' \in 0 .. MaxChanges
  BY DEF Manage, Create, Login, SetActive, SetAdmin, Remove, TypeOK, AccessAssumption
<1>c. changed' \in [Accounts -> {Never} \cup 0 .. MaxTime]
  BY DEF Manage, Create, Login, SetActive, SetAdmin, Remove, TypeOK
<1>d. person' \in [Accounts -> [there : BOOLEAN, active : BOOLEAN, admin : BOOLEAN]]
  <2>1. CASE Create(a)
    <3>1. PICK active \in BOOLEAN :
            person' = [person EXCEPT ![a] = [there |-> TRUE, active |-> active, admin |-> a \in Staff]]
      BY <2>1 DEF Create
    <3>2. [there |-> TRUE, active |-> active, admin |-> a \in Staff]
            \in [there : BOOLEAN, active : BOOLEAN, admin : BOOLEAN]
      OBVIOUS
    <3> QED BY <3>1, <3>2 DEF TypeOK
  <2>2. CASE Login(a)
    BY <2>2 DEF Login, TypeOK
  <2>3. ASSUME NEW active \in BOOLEAN, SetActive(a, active)
        PROVE  person' \in [Accounts -> [there : BOOLEAN, active : BOOLEAN, admin : BOOLEAN]]
    BY <2>3 DEF SetActive, TypeOK
  <2>4. CASE SetAdmin(a)
    BY <2>4 DEF SetAdmin, TypeOK
  <2>5. CASE Remove(a)
    BY <2>5 DEF Remove, TypeOK
  <2> QED BY <2>1, <2>2, <2>3, <2>4, <2>5 DEF Manage
<1>e. token' \subseteq {b \in Accounts : person'[b].there}
  <2>1. CASE Create(a)
    BY <2>1 DEF Create, TypeOK
  <2>2. CASE Login(a)
    BY <2>2 DEF Login, TypeOK
  <2>3. ASSUME NEW active \in BOOLEAN, SetActive(a, active)
        PROVE  token' \subseteq {b \in Accounts : person'[b].there}
    BY <2>3 DEF SetActive, TypeOK
  <2>4. CASE SetAdmin(a)
    BY <2>4 DEF SetAdmin, TypeOK
  <2>5. CASE Remove(a)
    BY <2>5 DEF Remove, TypeOK
  <2> QED BY <2>1, <2>2, <2>3, <2>4, <2>5 DEF Manage
<1> QED BY <1>a, <1>b, <1>c, <1>d, <1>e DEF TypeOK

LEMMA AccessTypesStep == AccessAssumption /\ TypeOK /\ [Next]_vars => TypeOK'
<1> SUFFICES ASSUME AccessAssumption, TypeOK, [Next]_vars PROVE TypeOK'
  OBVIOUS
<1>1. CASE Flush
  BY <1>1 DEF Flush, TypeOK, AccessAssumption
<1>2. CASE Tick
  BY <1>2 DEF Tick, TypeOK, AccessAssumption
<1>3. CASE UNCHANGED vars
  BY <1>3 DEF vars, TypeOK
<1> QED BY <1>1, <1>2, <1>3, ServeTypes, ManageTypes DEF Next

(* Every variable keeps its type, and only who has a row has a token. *)
THEOREM AccessKeepsTypes ==
  ASSUME AccessAssumption
  PROVE  Spec => []TypeOK
BY AccessInitTypes, AccessTypesStep, PTL DEF Spec

-----------------------------------------------------------------------------
(* A copy that differs from its row was made before the row was changed: a
   request read it before the change, or took it from an entry that was written
   by such a request.  p is the row, when the time of its last change. *)

Old(copy, p) == copy.active # p.active
Born(p, when) == p.there \/ when # Never
TimelyRequest(q, t) == ~(q.op \in {"free", "user", "inactive", "nobody"}) =>
  q.since <= t /\ t <= q.since + MaxWait
SoundRequest(q, p, when) == Holds(q) =>
  /\ Born(p, when)
  /\ Old(q.copy, p) => q.since < when + CacheTTL + MaxWait
  /\ Old(q.copy, p) /\ q.op = "keep" => q.since <= when
SoundEntry(e, p, when, t) == e # NoEntry =>
  /\ Born(p, when)
  /\ e.until <= t + CacheTTL
  /\ Old(e.copy, p) => e.until <= when + CacheTTL + MaxWait
RequestsTimely == \A w \in Web : TimelyRequest(aweb[w], now)
RequestsSound ==
  \A w \in Web : SoundRequest(aweb[w], person[aweb[w].a], changed[aweb[w].a])
EntriesSound == \A a \in Accounts : SoundEntry(redis[a], person[a], changed[a], now)
AccessInv == RequestsTimely /\ RequestsSound /\ EntriesSound

LEMMA TimesAre ==
  ASSUME AccessAssumption, TypeOK
  PROVE  /\ now \in Int /\ CacheTTL \in Nat /\ CacheTTL >= 1 /\ MaxWait \in Nat
         /\ \A a \in Accounts : changed[a] \in Int
         /\ Never \in Int /\ Never + CacheTTL + MaxWait = -1
BY DEF AccessAssumption, TypeOK, Never

(* Thread w moves on to q, and no row is written. *)
LEMMA RequestSound ==
  ASSUME TypeOK, AccessInv, NEW w \in Web, NEW q, Goes(w, q),
         UNCHANGED <<person, changed, now>>, TimelyRequest(q, now),
         SoundRequest(q, person[q.a], changed[q.a]), EntriesSound'
  PROVE  AccessInv'
<1>1. \A v \in Web : aweb'[v] = q \/ aweb'[v] = aweb[v]
  BY DEF Goes, TypeOK
<1>2. RequestsTimely'
  BY <1>1 DEF AccessInv, RequestsTimely
<1>3. RequestsSound'
  BY <1>1 DEF AccessInv, RequestsSound
<1> QED BY <1>2, <1>3 DEF AccessInv

LEMMA SameEntries ==
  ASSUME AccessInv, UNCHANGED <<redis, person, changed, now>>
  PROVE  EntriesSound'
BY DEF AccessInv, EntriesSound

LEMMA ServeSound ==
  ASSUME AccessAssumption, TypeOK, AccessInv, NEW w \in Web, Serve(w)
  PROVE  AccessInv'
<1>a. UNCHANGED <<person, changed, now>>
  BY DEF Serve, Ask, Query, Keep, Answer, AskView
<1>b. /\ now \in Int /\ CacheTTL \in Nat /\ CacheTTL >= 1 /\ MaxWait \in Nat
      /\ \A a \in Accounts : changed[a] \in Int
  BY TimesAre
<1>c. TimelyRequest(aweb[w], now) /\ SoundRequest(aweb[w], person[aweb[w].a], changed[aweb[w].a])
  BY DEF AccessInv, RequestsTimely, RequestsSound
<1>1. ASSUME NEW a \in Accounts, Ask(w, a) PROVE AccessInv'
  <2>a. EntriesSound'
    BY <1>1, <1>a, SameEntries DEF Ask
  <2>1. CASE Kept(a)
    <3> DEFINE q == [op |-> "look", a |-> a, copy |-> redis[a].copy, since |-> now]
    <3>1. Goes(w, q) /\ q.op = "look" /\ q.a = a /\ q.copy = redis[a].copy /\ q.since = now
      BY <2>1, <1>1 DEF Ask
    <3>2. redis[a] # NoEntry /\ now < redis[a].until /\ redis[a].until \in Int
      BY <2>1, <1>b, EntryShape DEF Kept
    <3>3. SoundEntry(redis[a], person[a], changed[a], now)
      BY DEF AccessInv, EntriesSound
    <3> HIDE DEF q
    <3>4. SoundRequest(q, person[q.a], changed[q.a])
      BY <3>1, <3>2, <3>3, <1>b DEF SoundEntry, SoundRequest
    <3>5. TimelyRequest(q, now)
      BY <3>1, <1>b DEF TimelyRequest
    <3> QED BY <3>1, <3>4, <3>5, <2>a, <1>a, RequestSound
  <2>2. CASE ~Kept(a)
    <3> DEFINE q == [op |-> "query", a |-> a, since |-> now]
    <3>1. Goes(w, q) /\ q.op = "query" /\ q.since = now
      BY <2>2, <1>1 DEF Ask
    <3> HIDE DEF q
    <3>2. SoundRequest(q, person[q.a], changed[q.a]) /\ TimelyRequest(q, now)
      BY <3>1, <1>b DEF SoundRequest, TimelyRequest, Holds
    <3> QED BY <3>1, <3>2, <2>a, <1>a, RequestSound
  <2> QED BY <2>1, <2>2
<1>2. ASSUME NEW a \in Accounts, AskView(w, a) PROVE AccessInv'
  <2> DEFINE q == [op |-> "answer", a |-> a, copy |-> Copy(a), since |-> now]
  <2>1. Goes(w, q) /\ q.op = "answer" /\ q.a = a /\ q.since = now /\ q.copy.active = person[a].active
    BY <1>2 DEF AskView, Copy
  <2>2. person[a].there /\ EntriesSound'
    BY <1>2, <1>a, SameEntries DEF AskView, TypeOK
  <2> HIDE DEF q
  <2>3. SoundRequest(q, person[q.a], changed[q.a]) /\ TimelyRequest(q, now)
    BY <2>1, <2>2, <1>b DEF SoundRequest, TimelyRequest, Old, Born
  <2> QED BY <2>1, <2>2, <2>3, <1>a, RequestSound
<1>3. CASE Query(w)
  <2> DEFINE a == aweb[w].a
             q == [op |-> "keep", a |-> a, copy |-> Copy(a), since |-> aweb[w].since]
  <2>1. EntriesSound'
    BY <1>3, <1>a, SameEntries DEF Query
  <2>2. CASE a \in token
    <3>1. /\ Goes(w, q) /\ q.op = "keep" /\ q.a = a /\ q.since = aweb[w].since
          /\ q.copy.active = person[a].active
      BY <2>2, <1>3 DEF Query, Copy
    <3>2. person[a].there
      BY <2>2 DEF TypeOK
    <3>3. TimelyRequest(q, now)
      BY <3>1, <1>3, <1>c DEF Query, TimelyRequest
    <3> HIDE DEF q, a
    <3>4. SoundRequest(q, person[q.a], changed[q.a])
      BY <3>1, <3>2 DEF SoundRequest, Old, Born
    <3> QED BY <3>1, <3>3, <3>4, <2>1, <1>a, RequestSound
  <2>3. CASE a \notin token
    <3>1. Goes(w, Free) /\ Free.op = "free"
      BY <2>3, <1>3 DEF Query, Free
    <3>2. SoundRequest(Free, person[Free.a], changed[Free.a]) /\ TimelyRequest(Free, now)
      BY <3>1 DEF SoundRequest, TimelyRequest, Holds
    <3> QED BY <3>1, <3>2, <2>1, <1>a, RequestSound
  <2> QED BY <2>2, <2>3
<1>4. CASE Keep(w)
  <2> DEFINE r == aweb[w]
             a == r.a
             e == [copy |-> r.copy, until |-> now + CacheTTL]
             q == [r EXCEPT !.op = "answer"]
  <2>1. r.op = "keep" /\ Holds(r) /\ a \in Accounts /\ r.since \in Int
    BY <1>4, RequestShape DEF Keep, Holds
  <2>2. r \in [op : {"look", "keep", "answer"}, a : Accounts, copy : Copies, since : 0 .. MaxTime]
    BY <1>4 DEF Keep, TypeOK, Requests
  <2>3. q.op = "answer" /\ q.a = a /\ q.since = r.since /\ q.copy = r.copy
    BY <2>2
  <2>4. Goes(w, q) /\ redis' = [redis EXCEPT ![a] = e] /\ e.copy = r.copy /\ e.until = now + CacheTTL
    BY <1>4 DEF Keep
  <2>5. r.since <= now /\ now <= r.since + MaxWait
    BY <2>1, <1>c DEF TimelyRequest
  <2>6. /\ Born(person[a], changed[a])
        /\ Old(r.copy, person[a]) => r.since <= changed[a]
    BY <2>1, <1>c DEF SoundRequest
  <2> HIDE DEF a, e, q, r
  <2>7. SoundEntry(e, person[a], changed[a], now)
    BY <2>1, <2>4, <2>5, <2>6, <1>b DEF SoundEntry
  <2>8. EntriesSound'
    BY <2>4, <2>7, <1>a DEF AccessInv, EntriesSound, TypeOK
  <2>9. SoundRequest(q, person[q.a], changed[q.a])
    BY <2>1, <2>3, <2>6, <1>b DEF SoundRequest, Holds
  <2>10. TimelyRequest(q, now)
    BY <2>3, <2>5 DEF TimelyRequest
  <2> QED BY <2>4, <2>8, <2>9, <2>10, <1>a, RequestSound
<1>5. CASE Answer(w)
  <2> DEFINE q == [op |-> Verdict(aweb[w].a, aweb[w].copy)]
  <2>1. Goes(w, q) /\ q.op \in {"user", "inactive", "nobody"}
    BY <1>5, VerdictIs DEF Answer
  <2>2. EntriesSound'
    BY <1>5, <1>a, SameEntries DEF Answer
  <2> HIDE DEF q
  <2>3. SoundRequest(q, person[q.a], changed[q.a]) /\ TimelyRequest(q, now)
    BY <2>1 DEF SoundRequest, TimelyRequest, Holds
  <2> QED BY <2>1, <2>2, <2>3, <1>a, RequestSound
<1> QED BY <1>1, <1>2, <1>3, <1>4, <1>5 DEF Serve

(* The row of a is written: either its active column stays, or the time of the
   change is now, or nothing held a copy of it. *)
LEMMA RowSound ==
  ASSUME AccessAssumption, TypeOK, AccessInv, NEW a \in Accounts,
         UNCHANGED <<redis, aweb, now>>,
         \A b \in Accounts \ {a} : person'[b] = person[b] /\ changed'[b] = changed[b],
         \/ changed'[a] = now
         \/ /\ changed'[a] = changed[a] /\ person'[a].active = person[a].active
            /\ person[a].there => person'[a].there
         \/ ~Born(person[a], changed[a])
  PROVE  AccessInv'
<1>a. /\ now \in Int /\ now >= 0 /\ CacheTTL \in Nat /\ CacheTTL >= 1 /\ MaxWait \in Nat
      /\ changed[a] \in Int /\ Never < 0
  BY TimesAre DEF TypeOK
<1>b. ASSUME changed'[a] = now PROVE Born(person'[a], changed'[a])
  BY <1>a, <1>b DEF Born
<1>1. RequestsTimely'
  BY DEF AccessInv, RequestsTimely
<1>2. RequestsSound'
  <2> SUFFICES ASSUME NEW w \in Web, Holds(aweb[w])
               PROVE  SoundRequest(aweb[w], person'[aweb[w].a], changed'[aweb[w].a])
    BY DEF RequestsSound, SoundRequest
  <2> DEFINE q == aweb[w]
  <2>1. q.a \in Accounts /\ q.since \in Int /\ q.since <= now
    BY RequestShape DEF AccessInv, RequestsTimely, TimelyRequest, Holds
  <2>2. SoundRequest(q, person[q.a], changed[q.a])
    BY DEF AccessInv, RequestsSound
  <2>3. Holds(q)
    OBVIOUS
  <2> SUFFICES SoundRequest(q, person'[q.a], changed'[q.a])
    OBVIOUS
  <2> HIDE DEF q
  <2>4. CASE q.a # a
    BY <2>1, <2>2, <2>4
  <2>5. CASE q.a = a
    <3>1. CASE changed'[a] = now
      BY <3>1, <2>1, <2>5, <1>a, <1>b DEF SoundRequest
    <3>2. CASE /\ changed'[a] = changed[a] /\ person'[a].active = person[a].active
               /\ person[a].there => person'[a].there
      BY <3>2, <2>2, <2>5 DEF SoundRequest, Old, Born
    <3>3. CASE ~Born(person[a], changed[a])
      BY <3>3, <2>2, <2>3, <2>5 DEF SoundRequest
    <3> QED BY <3>1, <3>2, <3>3
  <2> QED BY <2>4, <2>5
<1>3. EntriesSound'
  <2> SUFFICES ASSUME NEW b \in Accounts, redis[b] # NoEntry
               PROVE  SoundEntry(redis[b], person'[b], changed'[b], now)
    BY DEF EntriesSound, SoundEntry
  <2>1. SoundEntry(redis[b], person[b], changed[b], now) /\ redis[b].until \in Int
    BY EntryShape, <1>a DEF AccessInv, EntriesSound
  <2>2. CASE b # a
    BY <2>1, <2>2
  <2>3. CASE b = a
    <3>1. CASE changed'[a] = now
      BY <3>1, <2>1, <2>3, <1>a, <1>b DEF SoundEntry
    <3>2. CASE /\ changed'[a] = changed[a] /\ person'[a].active = person[a].active
               /\ person[a].there => person'[a].there
      BY <3>2, <2>1, <2>3 DEF SoundEntry, Old, Born
    <3>3. CASE ~Born(person[a], changed[a])
      BY <3>3, <2>1, <2>3 DEF SoundEntry
    <3> QED BY <3>1, <3>2, <3>3
  <2> QED BY <2>2, <2>3
<1> QED BY <1>1, <1>2, <1>3 DEF AccessInv

LEMMA ManageSound ==
  ASSUME AccessAssumption, TypeOK, AccessInv, NEW a \in Accounts, Manage(a)
  PROVE  AccessInv'
<1>1. UNCHANGED <<redis, aweb, now>>
  BY DEF Manage, Create, Login, SetActive, SetAdmin, Remove
<1>2. \A b \in Accounts \ {a} : person'[b] = person[b] /\ changed'[b] = changed[b]
  BY DEF Manage, Create, Login, SetActive, SetAdmin, Remove, TypeOK
<1>3. CASE Create(a)
  BY <1>1, <1>2, <1>3, RowSound DEF Create, Born
<1>4. CASE Login(a)
  BY <1>1, <1>2, <1>4, RowSound DEF Login
<1>5. CASE SetAdmin(a)
  <2>1. changed'[a] = changed[a] /\ person'[a].active = person[a].active /\ person'[a].there = person[a].there
    BY <1>5 DEF SetAdmin, TypeOK
  <2> QED BY <2>1, <1>1, <1>2, RowSound
<1>6. CASE Remove(a) \/ \E active \in BOOLEAN : SetActive(a, active)
  <2>1. changed'[a] = now
    BY <1>6 DEF Remove, SetActive, TypeOK
  <2> QED BY <2>1, <1>1, <1>2, RowSound
<1> QED BY <1>3, <1>4, <1>5, <1>6 DEF Manage

LEMMA AccessStep == AccessAssumption /\ TypeOK /\ AccessInv /\ [Next]_vars => AccessInv'
<1> SUFFICES ASSUME AccessAssumption, TypeOK, AccessInv, [Next]_vars PROVE AccessInv'
  OBVIOUS
<1>1. CASE Flush
  BY <1>1 DEF Flush, AccessInv, RequestsTimely, RequestsSound, EntriesSound, SoundEntry
<1>2. CASE Tick
  <2>1. now' = now + 1 /\ now \in Int /\ CacheTTL \in Nat /\ MaxWait \in Nat
    BY <1>2, TimesAre DEF Tick
  <2>2. RequestsTimely'
    <3> SUFFICES ASSUME NEW w \in Web PROVE TimelyRequest(aweb[w], now')
      BY <1>2 DEF Tick, RequestsTimely
    <3>1. CASE Idle(w)
      BY <3>1 DEF Idle, TimelyRequest
    <3>2. CASE ~Idle(w)
      <4>1. now - aweb[w].since < MaxWait /\ aweb[w].since \in Int
        BY <1>2, <3>2, RequestShape DEF Tick, Idle, Holds
      <4>2. aweb[w].since <= now
        BY <3>2 DEF AccessInv, RequestsTimely, TimelyRequest, Idle
      <4> QED BY <4>1, <4>2, <2>1 DEF TimelyRequest
    <3> QED BY <3>1, <3>2
  <2>3. RequestsSound'
    BY <1>2 DEF Tick, AccessInv, RequestsSound
  <2>4. EntriesSound'
    <3> SUFFICES ASSUME NEW a \in Accounts PROVE SoundEntry(redis'[a], person[a], changed[a], now')
      BY <1>2 DEF Tick, EntriesSound
    <3>1. redis'[a] = NoEntry \/ redis'[a] = redis[a]
      BY <1>2 DEF Tick
    <3>2. CASE redis[a] # NoEntry
      <4>1. SoundEntry(redis[a], person[a], changed[a], now) /\ redis[a].until \in Int
        BY <3>2, <2>1, EntryShape DEF AccessInv, EntriesSound
      <4> QED BY <3>1, <4>1, <2>1 DEF SoundEntry
    <3>3. CASE redis[a] = NoEntry
      BY <3>1, <3>3 DEF SoundEntry
    <3> QED BY <3>2, <3>3
  <2> QED BY <2>2, <2>3, <2>4 DEF AccessInv
<1>3. CASE UNCHANGED vars
  BY <1>3 DEF vars, AccessInv, RequestsTimely, RequestsSound, EntriesSound
<1> QED BY <1>1, <1>2, <1>3, ServeSound, ManageSound DEF Next

LEMMA AccessInit == Init => AccessInv
BY DEF Init, AccessInv, RequestsTimely, RequestsSound, EntriesSound, TimelyRequest, SoundRequest,
   SoundEntry, Free, Holds

(* Only Answer gives an answer. *)
LEMMA AnswerIs ==
  ASSUME AccessAssumption, TypeOK, AccessInv, [Next]_vars
  PROVE  AnswerStep
<1> SUFFICES ASSUME NEW w \in Web, aweb[w].op \in {"look", "answer"},
                    aweb'[w].op \in {"user", "inactive"}
             PROVE  LET a == aweb[w].a IN
                    /\ aweb'[w].op = "user" => person[a].there
                    /\ (aweb'[w].op = "user") # person[a].active
                         => now - changed[a] < CacheTTL + 2 * MaxWait
  BY DEF AnswerStep
<1> DEFINE r == aweb[w]
           a == r.a
<1>1. Answer(w)
  <2>1. aweb'[w] # aweb[w]
    OBVIOUS
  <2>2. PICK v \in Web : Serve(v)
    BY <2>1 DEF Next, Manage, Create, Login, SetActive, SetAdmin, Remove, Flush, Tick, vars
  <2>3. v = w
    BY <2>1, <2>2 DEF Serve, Ask, Query, Keep, Answer, AskView, Goes, TypeOK
  <2> QED BY <2>2, <2>3 DEF Serve, Ask, Query, Keep, AskView, Idle
<1>2. aweb'[w].op = Verdict(a, r.copy)
  BY <1>1 DEF Answer, Goes, TypeOK
<1>3. /\ aweb'[w].op = "user" => r.copy.active /\ person[a].there
      /\ aweb'[w].op = "inactive" => ~r.copy.active
  BY <1>2, VerdictIs
<1>4. Holds(r) /\ a \in Accounts /\ r.since \in Int /\ r.copy.active \in BOOLEAN
  BY RequestShape DEF Holds, Copies
<1>5. now <= r.since + MaxWait /\ SoundRequest(r, person[a], changed[a])
  BY DEF AccessInv, RequestsTimely, RequestsSound, TimelyRequest
<1>6. /\ now \in Int /\ CacheTTL \in Nat /\ MaxWait \in Nat /\ changed[a] \in Int
      /\ person[a].active \in BOOLEAN
  BY <1>4, TimesAre DEF TypeOK
<1>7. ASSUME (aweb'[w].op = "user") # person[a].active PROVE now - changed[a] < CacheTTL + 2 * MaxWait
  <2>1. Old(r.copy, person[a])
    BY <1>3, <1>4, <1>6, <1>7 DEF Old
  <2>2. r.since < changed[a] + CacheTTL + MaxWait
    BY <2>1, <1>4, <1>5 DEF SoundRequest
  <2> HIDE DEF r, a
  <2> QED BY <2>2, <1>4, <1>5, <1>6
<1> QED BY <1>3, <1>7

(* However requests overlap, whatever Redis forgets and whenever accounts are
   turned off and on, an account is taken for what it was for less than the life
   of an entry and two requests after the change; who is served has a row. *)
THEOREM OldAnswersEnd ==
  ASSUME AccessAssumption
  PROVE  Spec => [][AnswerStep]_vars
<1>1. TypeOK /\ AccessInv /\ [Next]_vars => AccessInv' /\ AnswerStep
  BY AccessStep, AnswerIs
<1>2. Spec => []TypeOK
  BY AccessKeepsTypes
<1> QED
  BY <1>1, <1>2, AccessInit, PTL DEF Spec

=============================================================================
