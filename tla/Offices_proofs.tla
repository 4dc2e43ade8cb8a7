--------------------------- MODULE Offices_proofs ---------------------------
(***************************************************************************)
(* The properties of Offices for every value of its constants.             *)
(*                                                                         *)
(* In a behaviour the component named by scene behaves as its own          *)
(* specification says and the others do not move, so that the theorems of  *)
(* the component hold of it.  The theorems of the larger components are in *)
(* modules of their own; those of the tree of addresses and of the bots,   *)
(* which are taken with a parameter, are proved here.                      *)
(***************************************************************************)
EXTENDS Offices, FiniteSetTheorems, TLAPS

-----------------------------------------------------------------------------
(* Induction over a set of numbers.  A number outside of the set is refuted by
   counting: adding one maps the numbers below it that are inside into the same
   numbers without 0, which are fewer. *)
LEMMA SetInduction ==
  ASSUME NEW S, 0 \in S, \A n \in Nat : n \in S => n + 1 \in S
  PROVE  Nat \subseteq S
<1> SUFFICES ASSUME NEW x \in Nat, x \notin S PROVE FALSE
  OBVIOUS
<1> DEFINE C == {k \in 0 .. x : k \in S}
           next == [k \in C |-> k + 1]
<1>1. IsFiniteSet(C) /\ Cardinality(C) \in Nat
  <2>1. IsFiniteSet(0 .. x) BY FS_Interval
  <2>2. C \subseteq 0 .. x OBVIOUS
  <2> QED BY <2>1, <2>2, FS_Subset, FS_CardinalityType
<1>2. 0 \in C BY DEF C
<1>3. IsFiniteSet(C \ {0}) /\ Cardinality(C \ {0}) = Cardinality(C) - 1
  BY <1>1, <1>2, FS_RemoveElement
<1>4. next \in Injection(C, C \ {0})
  <2>1. \A k \in C : k + 1 \in C \ {0}
    OBVIOUS
  <2> QED BY <2>1 DEF Injection, IsInjective
<1>5. Cardinality(C) <= Cardinality(C \ {0})
  BY <1>1, <1>3, <1>4, FS_Injection DEF ExistsInjection
<1> QED BY <1>1, <1>3, <1>5

(* A function that is defined by its first value and the step from each value to
   the next. *)
Iterates(f, N, A, g) == \A n \in 0 .. N : f[n] = IF n = 0 THEN A ELSE g[f[n - 1]]
LEMMA Iteration ==
  ASSUME NEW X, NEW A \in X, NEW g \in [X -> X], NEW N \in Nat
  PROVE  \E f \in [0 .. N -> X] : Iterates(f, N, A, g)
<1> DEFINE Good(n, f) == \A k \in 0 .. n : f[k] = IF k = 0 THEN A ELSE g[f[k - 1]]
           S == {n \in Nat : \E f \in [0 .. n -> X] : Good(n, f)}
<1>1. 0 \in S
  <2> DEFINE f == [k \in 0 .. 0 |-> A]
  <2>1. f \in [0 .. 0 -> X] /\ Good(0, f) OBVIOUS
  <2> QED BY <2>1
<1>2. ASSUME NEW n \in Nat, n \in S PROVE n + 1 \in S
  <2>1. PICK f \in [0 .. n -> X] : Good(n, f)
    BY <1>2
  <2> DEFINE h == [k \in 0 .. n + 1 |-> IF k = n + 1 THEN g[f[n]] ELSE f[k]]
  <2>2. h \in [0 .. n + 1 -> X]
    OBVIOUS
  <2>3. ASSUME NEW k \in 0 .. n + 1 PROVE h[k] = IF k = 0 THEN A ELSE g[h[k - 1]]
    <3>1. CASE k = n + 1
      <4>1. k # 0 /\ k - 1 = n /\ n \in 0 .. n + 1 BY <3>1
      <4> QED BY <3>1, <4>1
    <3>2. CASE k \in 0 .. n
      <4>1. f[k] = IF k = 0 THEN A ELSE g[f[k - 1]] BY <2>1, <3>2
      <4>2. k # 0 => k - 1 \in 0 .. n BY <3>2
      <4>3. h[k] = f[k] /\ (k # 0 => h[k - 1] = f[k - 1]) BY <3>2, <4>2
      <4> QED BY <4>1, <4>3
    <3> QED BY <3>1, <3>2
  <2>4. Good(n + 1, h)
    BY <2>3
  <2> HIDE DEF h, Good
  <2> QED BY <2>2, <2>4
<1>3. N \in S
  <2> HIDE DEF S
  <2> QED BY <1>1, <1>2, SetInduction
<1>4. PICK f \in [0 .. N -> X] : Good(N, f)
  BY <1>3
<1> QED BY <1>4 DEF Iterates

-----------------------------------------------------------------------------
(* The tree of addresses. *)

(* The sets and numbers of AddressTree are those of this module. *)
LEMMA TreeOnFiniteSets ==
  ASSUME NEW s \in TreeScenes, NEW S
  PROVE  (Tree(s)!IsFiniteSet(S) <=> IsFiniteSet(S)) /\ Tree(s)!Cardinality(S) = Cardinality(S)
<1>1. Tree(s)!IsFiniteSet(S) <=> IsFiniteSet(S)
  BY Zenon DEF Tree!IsFiniteSet, IsFiniteSet
<1>2. Tree(s)!Cardinality(S) = Cardinality(S)
  BY Zenon DEF Tree!Cardinality, Cardinality
<1> QED BY <1>1, <1>2

(* The ancestors of an address are found in rounds. *)
Ascent(s, a, N, f) ==
  /\ f[0] = {a}
  /\ \A n \in 1 .. N : f[n] = f[n - 1] \cup ({addr[b].parent : b \in f[n - 1]} \ {Tree(s)!Top})
  /\ Tree(s)!get_address_recursive_ids(a) = f[N]
LEMMA Rounds ==
  ASSUME NEW s \in TreeScenes, NEW N \in Nat, NEW a \in Addrs[s], N = Cardinality(Addrs[s]), Tree(s)!Exists(a),
         \A b \in Addrs[s] : addr[b].parent \in Addrs[s] \cup {Tree(s)!Top}
  PROVE  \E f \in [0 .. N -> SUBSET Addrs[s]] : Ascent(s, a, N, f)
<1> DEFINE Up(S) == S \cup ({addr[b].parent : b \in S} \ {Tree(s)!Top})
           g == [S \in SUBSET Addrs[s] |-> Up(S)]
           Is(f) == f = [n \in 0 .. N |-> IF n = 0 THEN {a} ELSE f[n - 1] \cup ({addr[b].parent : b \in f[n - 1]} \ {Tree(s)!Top})]
<1>1. g \in [SUBSET Addrs[s] -> SUBSET Addrs[s]] /\ {a} \in SUBSET Addrs[s]
  OBVIOUS
<1>2. \E f \in [0 .. N -> SUBSET Addrs[s]] : \A n \in 0 .. N : f[n] = IF n = 0 THEN {a} ELSE g[f[n - 1]]
  <2> DEFINE X == SUBSET Addrs[s]
             A == {a}
  <2>1. g \in [X -> X] /\ A \in X
    BY <1>1
  <2> HIDE DEF g, X, A
  <2>2. \E f \in [0 .. N -> X] : Iterates(f, N, A, g)
    BY <2>1, Iteration
  <2> QED BY <2>2 DEF X, A, Iterates
<1>3. PICK f \in [0 .. N -> SUBSET Addrs[s]] : \A n \in 0 .. N : f[n] = IF n = 0 THEN {a} ELSE g[f[n - 1]]
  BY <1>2
<1>4. \A n \in 0 .. N : n # 0 => g[f[n - 1]] = Up(f[n - 1])
  <2> HIDE DEF Up
  <2> SUFFICES ASSUME NEW n \in 0 .. N, n # 0 PROVE g[f[n - 1]] = Up(f[n - 1])
    OBVIOUS
  <2>a. n - 1 \in 0 .. N
    OBVIOUS
  <2>1. f[n - 1] \in SUBSET Addrs[s]
    BY <2>a
  <2> QED BY <2>1
<1>5. Is(f)
  BY <1>3, <1>4
<1>6. Is(CHOOSE h : Is(h))
  <2> HIDE DEF Is
  <2> QED BY <1>5
<1>7. Tree(s)!get_address_recursive_ids(a) = (CHOOSE h : Is(h))[N]
  <2>1. Tree(s)!Cardinality(Addrs[s]) = N
    BY TreeOnFiniteSets
  <2> QED BY Zenon, <2>1 DEF Tree!get_address_recursive_ids
<1> DEFINE h == CHOOSE e : Is(e)
<1>8. /\ h = [n \in 0 .. N |-> h[n]]
      /\ h[0] = {a}
      /\ \A n \in 1 .. N : h[n] = h[n - 1] \cup ({addr[b].parent : b \in h[n - 1]} \ {Tree(s)!Top})
  <2> HIDE DEF h
  <2>1. h = [n \in 0 .. N |-> IF n = 0 THEN {a} ELSE h[n - 1] \cup ({addr[b].parent : b \in h[n - 1]} \ {Tree(s)!Top})]
    BY <1>6 DEF h
  <2>2. DOMAIN h = 0 .. N /\ h = [n \in 0 .. N |-> h[n]]
    BY <2>1
  <2>3. h[0] = {a}
    BY <2>1
  <2>4. ASSUME NEW n \in 1 .. N
        PROVE  h[n] = h[n - 1] \cup ({addr[b].parent : b \in h[n - 1]} \ {Tree(s)!Top})
    <3>1. n \in 0 .. N /\ n # 0
      OBVIOUS
    <3> QED BY <2>1, <3>1
  <2> QED BY <2>2, <2>3, <2>4
<1>9. \A n \in 0 .. N : h[n] \in SUBSET Addrs[s]
  <2> HIDE DEF h
  <2> DEFINE S == {n \in Nat : n \in 0 .. N => h[n] \in SUBSET Addrs[s]}
  <2>1. 0 \in S
    BY <1>8
  <2>2. ASSUME NEW n \in Nat, n \in S PROVE n + 1 \in S
    <3>1. CASE n + 1 \in 0 .. N
      <4>1. n \in 0 .. N /\ n + 1 \in 1 .. N /\ (n + 1) - 1 = n
        BY <3>1
      <4>2. h[n + 1] = h[n] \cup ({addr[b].parent : b \in h[n]} \ {Tree(s)!Top})
        BY <1>8, <4>1
      <4> QED BY <2>2, <4>1, <4>2
    <3> QED BY <3>1
  <2>3. Nat \subseteq S
    <3> HIDE DEF S
    <3> QED BY <2>1, <2>2, SetInduction
  <2> QED BY <2>3
<1>10. h \in [0 .. N -> SUBSET Addrs[s]]
  <2> HIDE DEF h
  <2> QED BY <1>8, <1>9
<1> HIDE DEF h
<1>11. Ascent(s, a, N, h)
  BY <1>7, <1>8 DEF h, Ascent
<1> QED BY <1>10, <1>11

Fields == {"parent", "level", "type", "kind", "title"}
Requests(s) == {Tree(s)!Idle} \cup
  [op : {"level", "above", "write"}, a : Addrs[s], row : Tree(s)!Row, fields : SUBSET Fields]
(* A request that makes a row, and one that changes a field. *)
Makes(s, q) == q # Tree(s)!Idle /\ q.fields = Fields

TreeTypes(s) ==
  /\ addr \in [Addrs[s] -> Tree(s)!Row \cup {Tree(s)!NoAddr}]
  /\ aWeb \in [Web -> Requests(s)]
  /\ cache \in [Addrs[s] -> SUBSET (Addrs[s] \X Titles)]
  /\ used \subseteq Addrs[s] /\ relevelled \subseteq Addrs[s] /\ writes \in 0 .. TreeWrites[s]
  /\ \A a \in Addrs[s] : Tree(s)!Exists(a) => a \in used /\ addr[a].parent \in {b \in Addrs[s] : Tree(s)!Exists(b)} \cup {Tree(s)!Top}
  /\ \A w \in Web : aWeb[w] # Tree(s)!Idle => aWeb[w].a \in used

LEMMA RowFacts ==
  ASSUME NEW s \in TreeScenes, Tree(s)!AddressAssumption
  PROVE  /\ Tree(s)!NoAddr \notin Tree(s)!Row
         /\ \A r \in Tree(s)!Row : DOMAIN r = Fields /\ r.parent \in Addrs[s] \cup {Tree(s)!Top} /\ r.level \in Levels
         /\ Tree(s)!Top \notin Addrs[s]
         /\ \A q \in Requests(s) : q # Tree(s)!Idle => q \in [op : {"level", "above", "write"}, a : Addrs[s], row : Tree(s)!Row, fields : SUBSET Fields]
         /\ \A q \in [op : {"level", "above", "write"}, a : Addrs[s], row : Tree(s)!Row, fields : SUBSET Fields] : q # Tree(s)!Idle
<1>1. Tree(s)!NoAddr \notin Tree(s)!Row
  BY DEF Tree!NoAddr, Tree!Row, Tree!AddressAssumption
<1>2. \A r \in Tree(s)!Row : DOMAIN r = Fields /\ r.parent \in Addrs[s] \cup {Tree(s)!Top} /\ r.level \in Levels
  BY DEF Tree!Row, Fields
<1>3. Tree(s)!Top \notin Addrs[s]
  BY DEF Tree!Top, Tree!AddressAssumption
<1>4. \A q \in Requests(s) : q # Tree(s)!Idle => q \in [op : {"level", "above", "write"}, a : Addrs[s], row : Tree(s)!Row, fields : SUBSET Fields]
  BY DEF Requests
<1>5. \A q \in [op : {"level", "above", "write"}, a : Addrs[s], row : Tree(s)!Row, fields : SUBSET Fields] : q # Tree(s)!Idle
  BY DEF Tree!Idle
<1> QED BY <1>1, <1>2, <1>3, <1>4, <1>5

LEMMA TreeInit ==
  ASSUME NEW s \in TreeScenes, Tree(s)!Init, Tree(s)!AddressBoundAssumption PROVE TreeTypes(s)
BY DEF Tree!Init, TreeTypes, Tree!AddressBoundAssumption, Requests, Tree!Exists

(* The ancestors of a row are rows. *)
LEMMA AncestorsExist ==
  ASSUME NEW s \in TreeScenes, Tree(s)!AddressAssumption, TreeTypes(s), NEW a \in Addrs[s], Tree(s)!Exists(a)
  PROVE  \A b \in Tree(s)!get_address_recursive_ids(a) : b \in Addrs[s] /\ Tree(s)!Exists(b)
<1> DEFINE N == Cardinality(Addrs[s])
<1>1. N \in Nat
  BY FS_CardinalityType, TreeOnFiniteSets DEF Tree!AddressAssumption
<1>2. \A b \in Addrs[s] : Tree(s)!Exists(b) => addr[b].parent \in {e \in Addrs[s] : Tree(s)!Exists(e)} \cup {Tree(s)!Top}
  BY DEF TreeTypes
<1>3. \A b \in Addrs[s] : addr[b].parent \in Addrs[s] \cup {Tree(s)!Top}
  BY <1>2 DEF Tree!Exists, Tree!NoAddr
<1> HIDE DEF N
<1>a. PICK f \in [0 .. N -> SUBSET Addrs[s]] : Ascent(s, a, N, f)
  BY <1>1, <1>3, Rounds DEF N
<1>4. /\ f[0] = {a}
      /\ \A n \in 1 .. N : f[n] = f[n - 1] \cup ({addr[b].parent : b \in f[n - 1]} \ {Tree(s)!Top})
      /\ Tree(s)!get_address_recursive_ids(a) = f[N]
  BY <1>a DEF Ascent
<1> DEFINE S == {n \in Nat : n \in 0 .. N => \A b \in f[n] : Tree(s)!Exists(b)}
<1>5. 0 \in S
  BY <1>4
<1>6. ASSUME NEW n \in Nat, n \in S PROVE n + 1 \in S
  <2> SUFFICES ASSUME n + 1 \in 0 .. N, NEW b \in f[n + 1] PROVE Tree(s)!Exists(b)
    OBVIOUS
  <2>1. n \in 0 .. N /\ n + 1 \in 1 .. N /\ (n + 1) - 1 = n
    BY <1>1
  <2>2. f[n] \in SUBSET Addrs[s] /\ \A e \in f[n] : Tree(s)!Exists(e)
    BY <1>6, <2>1
  <2>3. b \in f[n] \/ \E e \in f[n] : b = addr[e].parent /\ b # Tree(s)!Top
    BY <1>4, <2>1
  <2> QED BY <1>2, <2>2, <2>3
<1>7. Nat \subseteq S
  <2> HIDE DEF S
  <2> QED BY <1>5, <1>6, SetInduction
<1>8. N \in 0 .. N /\ N \in S
  BY <1>1, <1>7
<1> QED BY <1>4, <1>8

(* What a request that is carried out writes. *)
Written(x, r) == IF x.fields = DOMAIN x.row THEN x.row
                 ELSE [f \in DOMAIN x.row |-> IF f \in x.fields THEN x.row[f] ELSE r[f]]
LEMMA WrittenIsRow ==
  ASSUME NEW s \in TreeScenes, Tree(s)!AddressAssumption, NEW x, x.row \in Tree(s)!Row, x.fields \in SUBSET Fields,
         NEW r, r \in Tree(s)!Row \/ x.fields = DOMAIN x.row
  PROVE  /\ Written(x, r) \in Tree(s)!Row
         /\ Written(x, r).parent = IF "parent" \in x.fields THEN x.row.parent ELSE r.parent
         /\ Written(x, r).level = IF "level" \in x.fields THEN x.row.level ELSE r.level
<1>1. DOMAIN x.row = Fields
  BY RowFacts
<1>2. CASE x.fields = DOMAIN x.row
  BY <1>1, <1>2 DEF Written, Fields
<1>3. CASE x.fields # DOMAIN x.row
  <2> DEFINE y == [f \in Fields |-> IF f \in x.fields THEN x.row[f] ELSE r[f]]
  <2>1. Written(x, r) = y
    BY <1>1, <1>3 DEF Written
  <2>2. r \in Tree(s)!Row
    BY <1>3
  <2>3. /\ y.parent = (IF "parent" \in x.fields THEN x.row.parent ELSE r.parent)
        /\ y.level = (IF "level" \in x.fields THEN x.row.level ELSE r.level)
    BY DEF Fields
  <2>4. /\ y.parent \in Addrs[s] \cup {Tree(s)!Top} /\ y.level \in Levels /\ y.type \in Types[s]
        /\ y.kind \in Kinds[s] /\ y.title \in Titles
    BY <2>2 DEF Tree!Row, Fields
  <2>5. y = [parent |-> y.parent, level |-> y.level, type |-> y.type, kind |-> y.kind, title |-> y.title]
    BY DEF Fields
  <2>6. y \in Tree(s)!Row
    <3> HIDE DEF y
    <3> QED BY <2>4, <2>5 DEF Tree!Row
  <2> QED BY <2>1, <2>3, <2>6
<1> QED BY <1>2, <1>3

LEMMA TreeTypeStep ==
  ASSUME NEW s \in TreeScenes, Tree(s)!AddressAssumption, Tree(s)!AddressBoundAssumption, TreeTypes(s), [Tree(s)!Next]_(Tree(s)!vars)
  PROVE  TreeTypes(s)'
<1> USE DEF TreeTypes
<1>0. \A q \in Requests(s) : q # Tree(s)!Idle =>
        q \in [op : {"level", "above", "write"}, a : Addrs[s], row : Tree(s)!Row, fields : SUBSET Fields]
  BY RowFacts
<1>i. Tree(s)!Idle \in Requests(s)
  BY DEF Requests
<1>1. ASSUME NEW w \in Web, NEW a \in Addrs[s], NEW row \in Tree(s)!Row, Tree(s)!Create(w, a, row)
      PROVE  TreeTypes(s)'
  <2>1. [op |-> "level", a |-> a, row |-> row, fields |-> DOMAIN row] \in Requests(s)
    BY RowFacts DEF Requests
  <2> QED BY <1>1, <2>1 DEF Tree!Create, Tree!Goes, Tree!Exists, Tree!AddressBoundAssumption
<1>2. ASSUME NEW w \in Web, NEW a \in Addrs[s], NEW f \in Fields, NEW v, Tree(s)!Update(w, a, f, v),
             \A r \in Tree(s)!Row : [r EXCEPT ![f] = v] \in Tree(s)!Row
      PROVE  TreeTypes(s)'
  <2>1. addr[a] \in Tree(s)!Row
    BY <1>2 DEF Tree!Update, Tree!Exists
  <2>2. [op |-> "level", a |-> a, row |-> [addr[a] EXCEPT ![f] = v], fields |-> {f}] \in Requests(s)
    BY <1>2, <2>1 DEF Requests
  <2> QED BY <1>2, <2>2 DEF Tree!Update, Tree!Goes, Tree!Exists, Tree!AddressBoundAssumption, Tree!table
<1>3. ASSUME NEW w \in Web, Tree(s)!CheckLevel(w) \/ Tree(s)!CheckAbove(w)
      PROVE  TreeTypes(s)'
  <2>1. aWeb[w].op \in {"level", "above"}
    BY <1>3 DEF Tree!CheckLevel, Tree!CheckAbove
  <2>2. aWeb[w] # Tree(s)!Idle
    BY <2>1 DEF Tree!Idle
  <2>3. \A op \in {"above", "write"} : [aWeb[w] EXCEPT !.op = op] \in Requests(s)
                                     /\ [aWeb[w] EXCEPT !.op = op].a = aWeb[w].a
    BY <1>0, <2>2 DEF Requests
  <2>4. PICK q \in Requests(s) : aWeb' = [aWeb EXCEPT ![w] = q] /\ (q # Tree(s)!Idle => q.a = aWeb[w].a)
    BY <1>3, <1>i, <2>3 DEF Tree!CheckLevel, Tree!CheckAbove, Tree!Then, Tree!Refuse, Tree!Goes
  <2> QED BY <1>3, <2>2, <2>4 DEF Tree!CheckLevel, Tree!CheckAbove, Tree!Exists, Tree!table
<1>4. ASSUME NEW w \in Web, Tree(s)!Write(w)
      PROVE  TreeTypes(s)'
  <2> DEFINE x == aWeb[w]
  <2>1. x # Tree(s)!Idle /\ x.op = "write"
    BY <1>4 DEF Tree!Write, Tree!Idle
  <2>2. x.a \in Addrs[s] /\ x.a \in used /\ x.row \in Tree(s)!Row /\ x.fields \in SUBSET Fields
    BY <1>0, <2>1
  <2>3. aWeb' = [aWeb EXCEPT ![w] = Tree(s)!Idle] /\ UNCHANGED <<used, cache, writes>>
    BY <1>4 DEF Tree!Write, Tree!Goes
  <2>4. CASE UNCHANGED <<addr, relevelled>>
    BY <1>i, <2>3, <2>4 DEF Tree!Exists
  <2>5. CASE ~(UNCHANGED <<addr, relevelled>>)
    <3> DEFINE y == Written(x, addr[x.a])
    <3>1. /\ addr' = [addr EXCEPT ![x.a] = y]
          /\ relevelled' \subseteq relevelled \cup {x.a}
          /\ x.row.parent \in {Tree(s)!Top, x.a} \/ Tree(s)!Exists(x.row.parent)
          /\ x.fields = DOMAIN x.row \/ Tree(s)!Exists(x.a)
      BY <1>4, <2>5 DEF Tree!Write, Written
    <3>2. x.fields = DOMAIN x.row \/ addr[x.a] \in Tree(s)!Row
      BY <2>2, <3>1 DEF Tree!Exists
    <3>3. y \in Tree(s)!Row /\ y.parent = IF "parent" \in x.fields THEN x.row.parent ELSE addr[x.a].parent
      BY <2>2, <3>2, WrittenIsRow
    <3>4. y.parent \in {b \in Addrs[s] : Tree(s)!Exists(b)} \cup {Tree(s)!Top, x.a}
      <4>1. x.row.parent \in Addrs[s] \cup {Tree(s)!Top}
        BY <2>2, RowFacts
      <4>2. CASE "parent" \in x.fields
        BY <3>1, <3>3, <4>1, <4>2
      <4>3. CASE "parent" \notin x.fields
        BY <2>2, <3>1, <3>3, <4>3, RowFacts DEF Fields
      <4> QED BY <4>2, <4>3
    <3>5. y # Tree(s)!NoAddr
      BY <3>3, RowFacts
    <3> HIDE DEF x, y
    <3>6. addr'[x.a] = y /\ \A b \in Addrs[s] \ {x.a} : addr'[b] = addr[b]
      BY <2>2, <3>1
    <3>7. \A b \in Addrs[s] : Tree(s)!Exists(b)' <=> (b = x.a \/ Tree(s)!Exists(b))
      BY <3>5, <3>6 DEF Tree!Exists
    <3>8. ASSUME NEW b \in Addrs[s], Tree(s)!Exists(b)'
          PROVE  b \in used' /\ addr'[b].parent \in {e \in Addrs[s] : Tree(s)!Exists(e)'} \cup {Tree(s)!Top}
      BY <2>2, <2>3, <3>4, <3>6, <3>7, <3>8
    <3>9. addr' \in [Addrs[s] -> Tree(s)!Row \cup {Tree(s)!NoAddr}] /\ relevelled' \subseteq Addrs[s]
      BY <2>2, <3>1, <3>3
    <3> QED BY <1>i, <2>3, <3>8, <3>9 DEF Tree!Exists
  <2> QED BY <2>4, <2>5
<1>5. ASSUME NEW a \in Addrs[s], Tree(s)!Delete(a)
      PROVE  TreeTypes(s)'
  <2>1. ASSUME NEW b \in Addrs[s], Tree(s)!Exists(b)
        PROVE  /\ [addr[b] EXCEPT !.parent = Tree(s)!Top] \in Tree(s)!Row
               /\ [addr[b] EXCEPT !.parent = Tree(s)!Top].parent = Tree(s)!Top
    BY <2>1 DEF Tree!Exists, Tree!Row
  <2>2. ASSUME NEW b \in Addrs[s]
        PROVE  /\ addr'[b] \in Tree(s)!Row \cup {Tree(s)!NoAddr}
               /\ Tree(s)!Exists(b)' => (Tree(s)!Exists(b) /\ b # a /\ addr'[b].parent \in {addr[b].parent, Tree(s)!Top} \ {a})
    <3>1. CASE b = a
      BY <1>5, <3>1 DEF Tree!Delete, Tree!Exists
    <3>2. CASE b # a /\ ~Tree(s)!Exists(b)
      <4>1. addr[b].parent = Tree(s)!Top /\ a # Tree(s)!Top
        BY <3>2, RowFacts DEF Tree!Exists, Tree!NoAddr
      <4> QED BY <1>5, <3>2, <4>1 DEF Tree!Delete, Tree!Exists
    <3>3. CASE b # a /\ Tree(s)!Exists(b) /\ addr[b].parent = a
      BY <1>5, <2>1, <3>3, RowFacts DEF Tree!Delete
    <3>4. CASE b # a /\ Tree(s)!Exists(b) /\ addr[b].parent # a
      BY <1>5, <3>4 DEF Tree!Delete
    <3> QED BY <3>1, <3>2, <3>3, <3>4
  <2>3. \A b \in Addrs[s] : b # a /\ Tree(s)!Exists(b) => Tree(s)!Exists(b)'
    <3> SUFFICES ASSUME NEW b \in Addrs[s], b # a, Tree(s)!Exists(b) PROVE addr'[b] # Tree(s)!NoAddr
      BY DEF Tree!Exists
    <3>1. addr'[b] \in {addr[b], [addr[b] EXCEPT !.parent = Tree(s)!Top]}
      BY <1>5 DEF Tree!Delete
    <3> QED BY <2>1, <3>1, RowFacts DEF Tree!Exists
  <2>4. addr' \in [Addrs[s] -> Tree(s)!Row \cup {Tree(s)!NoAddr}]
    BY <1>5, <2>2 DEF Tree!Delete
  <2>5. ASSUME NEW b \in Addrs[s], Tree(s)!Exists(b)'
        PROVE  b \in used /\ addr'[b].parent \in {e \in Addrs[s] : Tree(s)!Exists(e)'} \cup {Tree(s)!Top}
    BY <2>2, <2>3, <2>5
  <2> QED BY <1>5, <2>4, <2>5 DEF Tree!Delete
<1>6. ASSUME NEW a \in Addrs[s], Tree(s)!AskTitle(a)
      PROVE  TreeTypes(s)'
  <2>1. Tree(s)!FullTitle(a) \in SUBSET (Addrs[s] \X Titles)
    <3>1. \A b \in Tree(s)!get_address_recursive_ids(a) : b \in Addrs[s] /\ addr[b] \in Tree(s)!Row
      BY <1>6, AncestorsExist DEF Tree!AskTitle, Tree!Exists
    <3> QED BY <3>1 DEF Tree!FullTitle, Tree!Row
  <2> QED BY <1>6, <2>1 DEF Tree!AskTitle, Tree!Exists, Tree!table
<1>7. CASE UNCHANGED Tree(s)!vars
  BY <1>7 DEF Tree!vars, Tree!table, Tree!Exists
<1> QED
  <2>1. ASSUME NEW w \in Web, NEW a \in Addrs[s], Tree(s)!Begin(w, a) PROVE TreeTypes(s)'
    <3>1. \A r \in Tree(s)!Row :
                         /\ \A p \in Addrs[s] \cup {Tree(s)!Top} : [r EXCEPT !["parent"] = p] \in Tree(s)!Row
                         /\ \A l \in Levels : [r EXCEPT !["level"] = l] \in Tree(s)!Row
                         /\ \A t \in Types[s] : [r EXCEPT !["type"] = t] \in Tree(s)!Row
                         /\ \A k \in Kinds[s] : [r EXCEPT !["kind"] = k] \in Tree(s)!Row
                         /\ \A t \in Titles : [r EXCEPT !["title"] = t] \in Tree(s)!Row
      BY DEF Tree!Row
    <3>2. {"parent", "level", "type", "kind", "title"} = Fields
      BY DEF Fields
    <3> QED BY <1>1, <1>2, <2>1, <3>1, <3>2 DEF Tree!Begin
  <2> QED BY <1>3, <1>4, <1>5, <1>6, <1>7, <2>1 DEF Tree!Next

(* What keeps the levels falling: a row whose level did not change is not below its
   parent's; a request that passed the check of levels knows of its parent what the
   database knows; what a change read of its row is still so; nothing refers to a
   row that is being made. *)
Making(s, a) == \E w \in Web : Makes(s, aWeb[w]) /\ aWeb[w].a = a
Edge(s, a) == addr[a].parent # Tree(s)!Top =>
  addr[addr[a].parent].level <= addr[a].level \/ {a, addr[a].parent} \cap relevelled # {}
Checked(s, q) == q.op \in {"above", "write"} =>
  LET p == q.row.parent IN
  p # Tree(s)!Top =>
    /\ p \in used /\ ~Making(s, p)
    /\ Tree(s)!Exists(p) => addr[p].level <= q.row.level \/ p \in relevelled
Fresh(s, q) == ~Makes(s, q) =>
  /\ \E f \in Fields : q.fields = {f}
  /\ (Tree(s)!Exists(q.a) /\ q.fields # {"level"}) => q.row.level = addr[q.a].level \/ q.a \in relevelled
TreeInv(s) ==
  /\ \A a \in Addrs[s] : Tree(s)!Exists(a) => Edge(s, a)
  /\ \A w \in Web : aWeb[w] # Tree(s)!Idle => Checked(s, aWeb[w]) /\ Fresh(s, aWeb[w])
  /\ \A w \in Web : Makes(s, aWeb[w]) => ~Tree(s)!Exists(aWeb[w].a)
  /\ \A v, w \in Web : (v # w /\ Makes(s, aWeb[w]) /\ aWeb[v] # Tree(s)!Idle) => aWeb[v].a # aWeb[w].a

LEMMA TreeInvInit ==
  ASSUME NEW s \in TreeScenes, Tree(s)!Init PROVE TreeInv(s)
BY DEF Tree!Init, TreeInv, Tree!Exists, Makes

(* A step that changes no row keeps what is known of the rows, if the request it is
   a step of keeps its part. *)
LEMMA RequestGoes ==
  ASSUME NEW s \in TreeScenes, Tree(s)!AddressAssumption, TreeTypes(s), TreeInv(s), NEW w \in Web, NEW q \in Requests(s),
         aWeb' = [aWeb EXCEPT ![w] = q], UNCHANGED <<addr, relevelled>>, used \subseteq used',
         q # Tree(s)!Idle =>
           /\ Checked(s, q) /\ Fresh(s, q)
           /\ Makes(s, q) => (Makes(s, aWeb[w]) /\ aWeb[w].a = q.a) \/ q.a \notin used
           /\ ~Makes(s, q) => Tree(s)!Exists(q.a) \/ (aWeb[w] # Tree(s)!Idle /\ ~Makes(s, aWeb[w]) /\ aWeb[w].a = q.a)
  PROVE  TreeInv(s)'
<1> USE DEF TreeTypes
<1>1. \A a \in Addrs[s] : Tree(s)!Exists(a)' <=> Tree(s)!Exists(a)
  BY DEF Tree!Exists
<1>2. aWeb'[w] = q /\ \A v \in Web \ {w} : aWeb'[v] = aWeb[v]
  OBVIOUS
<1>3. \A v \in Web : aWeb[v] # Tree(s)!Idle => aWeb[v].a \in Addrs[s] /\ aWeb[v].a \in used
  BY RowFacts
<1>q. q # Tree(s)!Idle => q.a \in Addrs[s] /\ q.row.parent \in Addrs[s] \cup {Tree(s)!Top} /\ q.fields \subseteq Fields
  BY RowFacts
<1>4. ASSUME NEW p \in used, ~Making(s, p) PROVE ~Making(s, p)'
  <2> SUFFICES ASSUME NEW v \in Web, Makes(s, aWeb'[v]), aWeb'[v].a = p PROVE FALSE
    BY DEF Making, Makes
  <2>1. v = w
    BY <1>2, <1>4 DEF Making
  <2>2. Makes(s, q) /\ q.a = p /\ q # Tree(s)!Idle
    BY <1>2, <2>1 DEF Makes
  <2> QED BY <1>4, <2>2 DEF Making
<1>5. (\A a \in Addrs[s] : Tree(s)!Exists(a) => Edge(s, a))'
  BY <1>1 DEF TreeInv, Edge, Tree!Exists
<1>6. ASSUME NEW v \in Web, aWeb'[v] # Tree(s)!Idle
      PROVE  (Checked(s, aWeb[v]) /\ Fresh(s, aWeb[v]))'
  <2>1. Checked(s, aWeb'[v]) /\ Fresh(s, aWeb'[v])
    BY <1>2, <1>6 DEF TreeInv
  <2> DEFINE r == aWeb'[v]
  <2>2. \A u : u = r => (Checked(s, u)' /\ Fresh(s, u)')
    <3> SUFFICES ASSUME NEW u, u = r PROVE Checked(s, u)' /\ Fresh(s, u)'
      OBVIOUS
    <3>1. Checked(s, u) /\ Fresh(s, u)
      BY <2>1
    <3>2. u.a \in Addrs[s] /\ u.row.parent \in Addrs[s] \cup {Tree(s)!Top}
      BY <1>2, <1>6, <1>3, <1>q, RowFacts
    <3> HIDE DEF r
    <3>3. Checked(s, u)'
      BY <3>1, <3>2, <1>1, <1>4 DEF Checked, Tree!Exists
    <3>4. Fresh(s, u)'
      BY <3>1, <3>2, <1>1 DEF Fresh, Makes, Tree!Exists
    <3> QED BY <3>3, <3>4
  <2> QED BY <2>2
<1>7. \A v \in Web : Makes(s, aWeb'[v]) => ~Tree(s)!Exists(aWeb'[v].a)
  <2> SUFFICES ASSUME NEW v \in Web, Makes(s, aWeb'[v]) PROVE ~Tree(s)!Exists(aWeb'[v].a)
    OBVIOUS
  <2>1. CASE v # w
    BY <1>2, <2>1 DEF TreeInv
  <2>2. CASE v = w
    <3>1. Makes(s, q) /\ q # Tree(s)!Idle
      BY <1>2, <2>2 DEF Makes
    <3>2. CASE Makes(s, aWeb[w]) /\ aWeb[w].a = q.a
      BY <1>2, <2>2, <3>2 DEF TreeInv
    <3>3. CASE q.a \notin used
      BY <1>2, <1>q, <2>2, <3>1, <3>3
    <3> QED BY <3>1, <3>2, <3>3
  <2> QED BY <2>1, <2>2
<1>8. \A u, v \in Web : (u # v /\ Makes(s, aWeb'[v]) /\ aWeb'[u] # Tree(s)!Idle) => aWeb'[u].a # aWeb'[v].a
  <2> SUFFICES ASSUME NEW u \in Web, NEW v \in Web, u # v, Makes(s, aWeb'[v]), aWeb'[u] # Tree(s)!Idle,
                      aWeb'[u].a = aWeb'[v].a
               PROVE  FALSE
    OBVIOUS
  <2>1. CASE u # w /\ v # w
    BY <1>2, <2>1 DEF TreeInv
  <2>2. CASE v = w
    <3>1. Makes(s, q) /\ q # Tree(s)!Idle /\ aWeb'[u] = aWeb[u]
      BY <1>2, <2>2 DEF Makes
    <3>2. CASE Makes(s, aWeb[w]) /\ aWeb[w].a = q.a
      BY <1>2, <2>2, <3>1, <3>2 DEF TreeInv
    <3>3. CASE q.a \notin used
      BY <1>2, <1>3, <2>2, <3>1, <3>3
    <3> QED BY <3>1, <3>2, <3>3
  <2>3. CASE u = w
    <3>1. q # Tree(s)!Idle /\ aWeb'[v] = aWeb[v] /\ Makes(s, aWeb[v]) /\ q.a = aWeb[v].a /\ ~Tree(s)!Exists(q.a) /\ aWeb[v].a \in used
      BY <1>2, <1>3, <2>3 DEF TreeInv, Makes
    <3>2. aWeb[w] # Tree(s)!Idle => aWeb[w].a # q.a
      BY <2>3, <3>1 DEF TreeInv
    <3> QED BY <3>1, <3>2 DEF Makes
  <2> QED BY <2>1, <2>2, <2>3
<1>9. (\A v \in Web : Makes(s, aWeb[v]) => ~Tree(s)!Exists(aWeb[v].a))'
  BY <1>7 DEF Tree!Exists, Makes
<1>10. (\A u, v \in Web : (u # v /\ Makes(s, aWeb[v]) /\ aWeb[u] # Tree(s)!Idle) => aWeb[u].a # aWeb[v].a)'
  BY <1>8 DEF Makes
<1> QED BY <1>5, <1>6, <1>9, <1>10 DEF TreeInv

LEMMA TreeInvStep ==
  ASSUME NEW s \in TreeScenes, Tree(s)!AddressAssumption, Tree(s)!AddressBoundAssumption, TreeTypes(s), TreeTypes(s)', TreeInv(s), [Tree(s)!Next]_(Tree(s)!vars)
  PROVE  TreeInv(s)'
<1>0. \A w \in Web : aWeb[w] # Tree(s)!Idle =>
        /\ aWeb[w] \in [op : {"level", "above", "write"}, a : Addrs[s], row : Tree(s)!Row, fields : SUBSET Fields]
        /\ aWeb[w].a \in used
  BY RowFacts DEF TreeTypes
<1>i. Tree(s)!Idle \in Requests(s)
  BY DEF Requests
<1>1. ASSUME NEW w \in Web, NEW a \in Addrs[s], NEW row \in Tree(s)!Row, Tree(s)!Create(w, a, row)
      PROVE  TreeInv(s)'
  <2> DEFINE q == [op |-> "level", a |-> a, row |-> row, fields |-> DOMAIN row]
  <2>1. q \in Requests(s) /\ Checked(s, q) /\ Fresh(s, q) /\ Makes(s, q)
    BY RowFacts DEF Requests, Checked, Fresh, Makes
  <2>2. q.a \notin used
    BY <1>1 DEF Tree!Create
  <2>3. aWeb' = [aWeb EXCEPT ![w] = q] /\ UNCHANGED <<addr, relevelled>> /\ used \subseteq used'
    BY <1>1 DEF Tree!Create, Tree!Goes
  <2> HIDE DEF q
  <2> QED BY <2>1, <2>2, <2>3, RequestGoes
<1>2. ASSUME NEW w \in Web, NEW a \in Addrs[s], NEW f \in Fields, NEW v, Tree(s)!Update(w, a, f, v),
             \A r \in Tree(s)!Row : [r EXCEPT ![f] = v] \in Tree(s)!Row
      PROVE  TreeInv(s)'
  <2> DEFINE q == [op |-> "level", a |-> a, row |-> [addr[a] EXCEPT ![f] = v], fields |-> {f}]
  <2>1. addr[a] \in Tree(s)!Row /\ Tree(s)!Exists(a)
    BY <1>2 DEF Tree!Update, Tree!Exists, TreeTypes
  <2>2. q \in Requests(s)
    BY <1>2, <2>1 DEF Requests
  <2>3. ~Makes(s, q) /\ Checked(s, q)
    BY DEF Makes, Checked, Fields
  <2>4. Fresh(s, q)
    <3>1. f # "level" => [addr[a] EXCEPT ![f] = v].level = addr[a].level
      BY <2>1 DEF Tree!Row
    <3> QED BY <3>1 DEF Fresh
  <2>5. aWeb' = [aWeb EXCEPT ![w] = q] /\ UNCHANGED <<addr, relevelled>> /\ used \subseteq used' /\ q.a = a
    BY <1>2 DEF Tree!Update, Tree!Goes, Tree!table
  <2> HIDE DEF q
  <2> QED BY <2>1, <2>2, <2>3, <2>4, <2>5, RequestGoes
<1>3. ASSUME NEW w \in Web, Tree(s)!CheckLevel(w) \/ Tree(s)!CheckAbove(w)
      PROVE  TreeInv(s)'
  <2> DEFINE x == aWeb[w]
  <2>1. x # Tree(s)!Idle /\ x.op \in {"level", "above"} /\ Checked(s, x) /\ Fresh(s, x)
    BY <1>3 DEF Tree!CheckLevel, Tree!CheckAbove, Tree!Idle, TreeInv
  <2>2. UNCHANGED <<addr, used, relevelled>>
    BY <1>3 DEF Tree!CheckLevel, Tree!CheckAbove, Tree!table
  <2>3. CASE aWeb' = [aWeb EXCEPT ![w] = Tree(s)!Idle]
    BY <1>i, <2>2, <2>3, RequestGoes
  <2>4. CASE aWeb' # [aWeb EXCEPT ![w] = Tree(s)!Idle]
    <3>1. PICK op \in {"above", "write"} : aWeb' = [aWeb EXCEPT ![w] = [x EXCEPT !.op = op]]
      BY <1>3, <2>4 DEF Tree!CheckLevel, Tree!CheckAbove, Tree!Then, Tree!Refuse, Tree!Goes
    <3> DEFINE q == [x EXCEPT !.op = op]
    <3>2. q.a = x.a /\ q.row = x.row /\ q.fields = x.fields /\ q.op = op
      BY <1>0, <2>1
    <3>3. q \in Requests(s)
      BY <1>0, <2>1 DEF Requests
    <3>4. Fresh(s, q) /\ (Makes(s, q) <=> Makes(s, x))
      BY <2>1, <3>2, <3>3, RowFacts DEF Fresh, Makes, Tree!Idle
    <3>5. Checked(s, q)
      <4>1. CASE Tree(s)!CheckAbove(w)
        <5>1. x.op = "above" BY <4>1 DEF Tree!CheckAbove
        <5> QED BY <2>1, <3>2, <5>1 DEF Checked
      <4>2. CASE Tree(s)!CheckLevel(w)
        <5> DEFINE p == x.row.parent
        <5>1. p = Tree(s)!Top \/ (Tree(s)!Exists(p) /\ addr[p].level <= x.row.level)
          BY <4>2, <2>4 DEF Tree!CheckLevel, Tree!Refuse, Tree!Goes
        <5>2. p # Tree(s)!Top => p \in Addrs[s]
          BY <1>0, <2>1, RowFacts
        <5>3. p # Tree(s)!Top => p \in used
          BY <5>1, <5>2 DEF TreeTypes
        <5>4. p # Tree(s)!Top => ~Making(s, p)
          BY <5>1, <5>2 DEF Making, TreeInv
        <5> QED BY <3>2, <5>1, <5>3, <5>4 DEF Checked
      <4> QED BY <1>3, <4>1, <4>2
    <3>6. q.a = x.a
      BY <3>2
    <3> HIDE DEF q
    <3> QED BY <2>1, <2>2, <3>1, <3>3, <3>4, <3>5, <3>6, RequestGoes DEF q
  <2> QED BY <2>3, <2>4
<1>4. ASSUME NEW w \in Web, Tree(s)!Write(w)
      PROVE  TreeInv(s)'
  <2> DEFINE x == aWeb[w]
             y == Written(x, addr[x.a])
  <2>1. x # Tree(s)!Idle /\ x.op = "write" /\ Checked(s, x) /\ Fresh(s, x)
    BY <1>4 DEF Tree!Write, Tree!Idle, TreeInv
  <2>2. x.a \in Addrs[s] /\ x.a \in used /\ x.row \in Tree(s)!Row /\ x.fields \in SUBSET Fields
    BY <1>0, <2>1
  <2>3. aWeb' = [aWeb EXCEPT ![w] = Tree(s)!Idle] /\ UNCHANGED used
    BY <1>4 DEF Tree!Write, Tree!Goes
  <2>4. CASE UNCHANGED <<addr, relevelled>>
    BY <1>i, <2>3, <2>4, RequestGoes
  <2>5. CASE ~(UNCHANGED <<addr, relevelled>>)
    <3>1. /\ addr' = [addr EXCEPT ![x.a] = y]
          /\ relevelled' = IF ~Makes(s, x) /\ "level" \in x.fields THEN relevelled \cup {x.a} ELSE relevelled
          /\ x.row.parent \in {Tree(s)!Top, x.a} \/ Tree(s)!Exists(x.row.parent)
          /\ ~Makes(s, x) => Tree(s)!Exists(x.a)
      BY <1>4, <2>1, <2>2, <2>5, RowFacts DEF Tree!Write, Written, Makes
    <3>2. ~Makes(s, x) => x.fields # DOMAIN x.row /\ addr[x.a] \in Tree(s)!Row
      BY <2>1, <2>2, <3>1, RowFacts DEF Makes, Tree!Exists, TreeTypes
    <3>3. /\ y \in Tree(s)!Row
          /\ y.parent = IF "parent" \in x.fields THEN x.row.parent ELSE addr[x.a].parent
          /\ y.level = IF "level" \in x.fields THEN x.row.level ELSE addr[x.a].level
      <4>1. Makes(s, x) => x.fields = DOMAIN x.row
        BY <2>2, RowFacts DEF Makes
      <4> QED BY <2>2, <3>2, <4>1, WrittenIsRow
    <3>4. Makes(s, x) => ~Tree(s)!Exists(x.a) /\ Making(s, x.a)
      BY DEF TreeInv, Making
    <3> HIDE DEF y
    <3>5. addr'[x.a] = y /\ \A b \in Addrs[s] \ {x.a} : addr'[b] = addr[b]
      BY <2>2, <3>1 DEF TreeTypes
    <3>6. \A b \in Addrs[s] : Tree(s)!Exists(b)' <=> (b = x.a \/ Tree(s)!Exists(b))
      BY <3>3, <3>5, RowFacts DEF Tree!Exists
    <3>7. relevelled \subseteq relevelled'
      BY <3>1
    <3>8. \A b \in Addrs[s] : Tree(s)!Exists(b) => addr'[b].level = addr[b].level \/ b \in relevelled'
      BY <3>1, <3>3, <3>4, <3>5
    <3>9. \A v \in Web : aWeb'[v] # Tree(s)!Idle => v # w /\ aWeb'[v] = aWeb[v]
      BY <2>3 DEF TreeTypes
    <3>10. \A b \in Addrs[s] : Tree(s)!Exists(b) /\ addr[b].parent # Tree(s)!Top => addr[b].parent \in Addrs[s] /\ Tree(s)!Exists(addr[b].parent)
      BY DEF TreeTypes
    <3>11. ASSUME NEW b \in Addrs[s] \ {x.a}, Tree(s)!Exists(b) PROVE Edge(s, b)'
      BY <3>5, <3>7, <3>8, <3>10, <3>11 DEF Edge, TreeInv
    <3>12. \A a \in Addrs[s] : a = x.a => Edge(s, a)'
      <4> SUFFICES ASSUME NEW a \in Addrs[s], a = x.a PROVE Edge(s, a)'
        OBVIOUS
      <4> SUFFICES ASSUME y.parent # Tree(s)!Top, y.parent # x.a
                   PROVE  addr'[y.parent].level <= y.level \/ {x.a, y.parent} \cap relevelled' # {}
        <5>1. y.level \in Nat
          BY <3>3 DEF Tree!Row, Tree!AddressAssumption
        <5> QED BY <3>5, <5>1 DEF Edge
      <4>1. y.parent \in Addrs[s] /\ addr'[y.parent] = addr[y.parent]
        BY <3>3, <3>5, RowFacts
      <4>2. CASE Makes(s, x)
        <5>1. y.parent = x.row.parent /\ y.level = x.row.level /\ Tree(s)!Exists(y.parent)
          BY <3>1, <3>3, <4>2 DEF Makes, Fields
        <5> QED BY <2>1, <3>7, <4>1, <5>1 DEF Checked
      <4>3. CASE ~Makes(s, x)
        <5>1. PICK f \in Fields : x.fields = {f}
          BY <2>1, <4>3 DEF Fresh
        <5>2. CASE f = "level"
          BY <3>1, <4>3, <5>1, <5>2
        <5>3. CASE f = "parent"
          <6>1. y.parent = x.row.parent /\ y.level = addr[x.a].level /\ Tree(s)!Exists(y.parent)
            BY <3>1, <3>3, <5>1, <5>3
          <6>2. x.row.level = y.level \/ x.a \in relevelled
            BY <2>1, <3>1, <4>3, <5>1, <5>3, <6>1 DEF Fresh
          <6> QED BY <2>1, <3>7, <4>1, <6>1, <6>2 DEF Checked
        <5>4. CASE f \notin {"level", "parent"}
          <6>1. y.parent = addr[x.a].parent /\ y.level = addr[x.a].level /\ Tree(s)!Exists(x.a)
            BY <3>1, <3>3, <4>3, <5>1, <5>4
          <6> QED BY <2>2, <3>7, <4>1, <6>1 DEF TreeInv, Edge
        <5> QED BY <5>2, <5>3, <5>4
      <4> QED BY <4>2, <4>3
    <3>13. \A v \in Web : Makes(s, aWeb'[v]) => v # w /\ aWeb'[v] = aWeb[v] /\ Makes(s, aWeb[v])
      BY <3>9 DEF Makes
    <3>14. \A p : ~Making(s, p) => ~Making(s, p)'
      <4> SUFFICES ASSUME NEW p, NEW v \in Web, Makes(s, aWeb'[v]), aWeb'[v].a = p PROVE Making(s, p)
        BY DEF Making, Makes
      <4> QED BY <3>13 DEF Making
    <3>15. ASSUME NEW v \in Web, aWeb'[v] # Tree(s)!Idle PROVE (Checked(s, aWeb[v]) /\ Fresh(s, aWeb[v]))'
      <4> DEFINE r == aWeb'[v]
      <4>1. v # w /\ r = aWeb[v] /\ Checked(s, r) /\ Fresh(s, r)
        BY <3>9, <3>15 DEF TreeInv
      <4>2. r # Tree(s)!Idle /\ r.a \in Addrs[s] /\ r.row.parent \in Addrs[s] \cup {Tree(s)!Top}
        BY <1>0, <3>15, <4>1, RowFacts
      <4>3. (Makes(s, x) \/ Makes(s, r)) => r.a # x.a
        BY <2>1, <4>1, <4>2 DEF TreeInv
      <4> HIDE DEF r, x
      <4>4. \A u : u = r => Checked(s, u)'
        <5> SUFFICES ASSUME NEW u, u = r PROVE Checked(s, u)'
          OBVIOUS
        <5>1. Checked(s, u) /\ u.row.parent \in Addrs[s] \cup {Tree(s)!Top}
          BY <4>1, <4>2
        <5>2. ASSUME u.op \in {"above", "write"}, u.row.parent # Tree(s)!Top
              PROVE  /\ u.row.parent \in used' /\ ~Making(s, u.row.parent)'
                     /\ Tree(s)!Exists(u.row.parent)' => addr'[u.row.parent].level <= u.row.level \/ u.row.parent \in relevelled'
          <6>1. /\ u.row.parent \in Addrs[s] /\ u.row.parent \in used /\ ~Making(s, u.row.parent)
                /\ Tree(s)!Exists(u.row.parent) => addr[u.row.parent].level <= u.row.level \/ u.row.parent \in relevelled
            BY <5>1, <5>2 DEF Checked
          <6>2. Tree(s)!Exists(u.row.parent)' => Tree(s)!Exists(u.row.parent)
            BY <3>1, <3>4, <3>6, <6>1
          <6> QED BY <2>3, <3>7, <3>8, <3>14, <6>1, <6>2
        <5> QED BY <5>2 DEF Checked
      <4>5. \A u : u = r => Fresh(s, u)'
        <5> SUFFICES ASSUME NEW u, u = r PROVE Fresh(s, u)'
          OBVIOUS
        <5>1. Fresh(s, u) /\ u.a \in Addrs[s] /\ ((Makes(s, x) \/ Makes(s, u)) => u.a # x.a)
          BY <4>1, <4>2, <4>3
        <5>2. (Tree(s)!Exists(u.a))' => Tree(s)!Exists(u.a)
          BY <3>1, <3>6, <5>1
        <5>3. Tree(s)!Exists(u.a) => addr'[u.a].level = addr[u.a].level \/ u.a \in relevelled'
          BY <3>8, <5>1
        <5> QED BY <3>7, <5>1, <5>2, <5>3 DEF Fresh, Makes
      <4> QED BY <4>4, <4>5 DEF r
    <3>16. (\A a \in Addrs[s] : Tree(s)!Exists(a) => Edge(s, a))'
      <4> SUFFICES ASSUME NEW a \in Addrs[s], Tree(s)!Exists(a)' PROVE Edge(s, a)'
        OBVIOUS
      <4> QED BY <3>6, <3>11, <3>12
    <3>17. ASSUME NEW v \in Web, Makes(s, aWeb'[v]) PROVE addr'[aWeb'[v].a] = Tree(s)!NoAddr
      <4>1. v # w /\ aWeb'[v] = aWeb[v] /\ Makes(s, aWeb[v]) /\ aWeb[v] # Tree(s)!Idle
        BY <3>13, <3>17 DEF Makes
      <4>2. aWeb[v].a # x.a /\ aWeb[v].a \in Addrs[s] /\ ~Tree(s)!Exists(aWeb[v].a)
        BY <1>0, <2>1, <4>1 DEF TreeInv
      <4> QED BY <3>5, <4>1, <4>2 DEF Tree!Exists
    <3>18. (\A v \in Web : Makes(s, aWeb[v]) => ~Tree(s)!Exists(aWeb[v].a))'
      BY <3>17 DEF Makes, Tree!Exists
    <3>19. (\A u, v \in Web : (u # v /\ Makes(s, aWeb[v]) /\ aWeb[u] # Tree(s)!Idle) => aWeb[u].a # aWeb[v].a)'
      <4>1. \A u, v \in Web : (u # v /\ Makes(s, aWeb'[v]) /\ aWeb'[u] # Tree(s)!Idle) => aWeb'[u].a # aWeb'[v].a
        BY <3>9, <3>13 DEF TreeInv
      <4> QED BY <4>1 DEF Makes
    <3> QED BY <3>15, <3>16, <3>18, <3>19 DEF TreeInv
  <2> QED BY <2>4, <2>5
<1>5. ASSUME NEW a \in Addrs[s], Tree(s)!Delete(a)
      PROVE  TreeInv(s)'
  <2>0. UNCHANGED <<used, aWeb, relevelled>>
    BY <1>5 DEF Tree!Delete
  <2>1. ASSUME NEW b \in Addrs[s], Tree(s)!Exists(b)
        PROVE  /\ [addr[b] EXCEPT !.parent = Tree(s)!Top].parent = Tree(s)!Top
               /\ [addr[b] EXCEPT !.parent = Tree(s)!Top].level = addr[b].level
    BY <2>1 DEF Tree!Exists, Tree!Row, TreeTypes
  <2>2. ASSUME NEW b \in Addrs[s], Tree(s)!Exists(b)'
        PROVE  /\ Tree(s)!Exists(b) /\ b # a
               /\ addr'[b].parent \in {addr[b].parent, Tree(s)!Top} /\ addr'[b].level = addr[b].level
    <3>1. b # a
      BY <1>5, <2>2 DEF Tree!Delete, Tree!Exists
    <3>2. Tree(s)!Exists(b)
      <4> SUFFICES ASSUME addr[b] = Tree(s)!NoAddr PROVE FALSE
        BY DEF Tree!Exists
      <4>1. addr[b].parent = Tree(s)!Top /\ a # Tree(s)!Top
        BY RowFacts DEF Tree!NoAddr
      <4> QED BY <1>5, <2>2, <3>1, <4>1 DEF Tree!Delete, Tree!Exists
    <3>3. addr'[b] \in {addr[b], [addr[b] EXCEPT !.parent = Tree(s)!Top]}
      BY <1>5, <3>1 DEF Tree!Delete
    <3> QED BY <2>1, <3>1, <3>2, <3>3
  <2>3. ASSUME NEW b \in Addrs[s], Tree(s)!Exists(b)' PROVE Edge(s, b)'
    <3>1. addr'[b].parent # Tree(s)!Top => addr'[b].parent = addr[b].parent
      BY <2>2, <2>3
    <3>2. addr'[b].parent # Tree(s)!Top => addr'[b].parent \in Addrs[s] /\ addr'[addr'[b].parent] # Tree(s)!NoAddr
      BY <2>3 DEF TreeTypes, Tree!Exists
    <3>3. addr'[b].parent # Tree(s)!Top => addr'[addr'[b].parent].level = addr[addr[b].parent].level
      BY <2>2, <3>1, <3>2 DEF Tree!Exists
    <3>4. Edge(s, b) /\ addr'[b].level = addr[b].level
      BY <2>2, <2>3 DEF TreeInv
    <3> QED BY <2>0, <3>1, <3>3, <3>4 DEF Edge
  <2>4. ASSUME NEW v \in Web, aWeb[v] # Tree(s)!Idle PROVE Checked(s, aWeb[v])' /\ Fresh(s, aWeb[v])'
    <3> DEFINE u == aWeb[v]
    <3>1. Checked(s, u) /\ Fresh(s, u) /\ u.a \in Addrs[s] /\ u.row.parent \in Addrs[s] \cup {Tree(s)!Top}
      BY <1>0, <2>4, RowFacts DEF TreeInv
    <3>2. ASSUME u.op \in {"above", "write"}, u.row.parent # Tree(s)!Top
          PROVE  /\ u.row.parent \in used' /\ ~Making(s, u.row.parent)'
                 /\ Tree(s)!Exists(u.row.parent)' => addr'[u.row.parent].level <= u.row.level \/ u.row.parent \in relevelled'
      BY <2>0, <2>2, <3>1, <3>2 DEF Checked, Making, Makes
    <3>3. Checked(s, u)'
      BY <2>0, <3>2 DEF Checked
    <3>4. addr'[u.a] # Tree(s)!NoAddr => Tree(s)!Exists(u.a) /\ addr'[u.a].level = addr[u.a].level
      BY <2>2, <3>1 DEF Tree!Exists
    <3>5. Fresh(s, u)'
      BY <2>0, <3>1, <3>4 DEF Fresh, Makes, Tree!Exists
    <3> QED BY <3>3, <3>5
  <2>5. (\A v \in Web : Makes(s, aWeb[v]) => ~Tree(s)!Exists(aWeb[v].a))'
    <3> SUFFICES ASSUME NEW v \in Web, Makes(s, aWeb[v]) PROVE addr'[aWeb[v].a] = Tree(s)!NoAddr
      BY <2>0 DEF Makes, Tree!Exists
    <3>1. aWeb[v].a \in Addrs[s] /\ ~Tree(s)!Exists(aWeb[v].a)
      BY <1>0 DEF TreeInv, Makes
    <3> QED BY <2>2, <3>1 DEF Tree!Exists
  <2>6. (\A u, v \in Web : (u # v /\ Makes(s, aWeb[v]) /\ aWeb[u] # Tree(s)!Idle) => aWeb[u].a # aWeb[v].a)'
    BY <2>0 DEF TreeInv, Makes
  <2>7. (\A v \in Web : aWeb[v] # Tree(s)!Idle => Checked(s, aWeb[v]) /\ Fresh(s, aWeb[v]))'
    BY <2>0, <2>4
  <2> QED BY <2>3, <2>5, <2>6, <2>7 DEF TreeInv
<1>6. ASSUME NEW a \in Addrs[s], Tree(s)!AskTitle(a)
      PROVE  TreeInv(s)'
  BY <1>6 DEF Tree!AskTitle, TreeInv, Tree!table, Tree!Exists, Edge, Checked, Fresh, Makes, Making
<1>7. CASE UNCHANGED Tree(s)!vars
  BY <1>7 DEF Tree!vars, Tree!table, Tree!Exists, TreeInv, Edge, Checked, Fresh, Makes, Making
<1> QED
  <2>1. ASSUME NEW w \in Web, NEW a \in Addrs[s], Tree(s)!Begin(w, a) PROVE TreeInv(s)'
    <3>1. \A r \in Tree(s)!Row :
                         /\ \A p \in Addrs[s] \cup {Tree(s)!Top} : [r EXCEPT !["parent"] = p] \in Tree(s)!Row
                         /\ \A l \in Levels : [r EXCEPT !["level"] = l] \in Tree(s)!Row
                         /\ \A t \in Types[s] : [r EXCEPT !["type"] = t] \in Tree(s)!Row
                         /\ \A k \in Kinds[s] : [r EXCEPT !["kind"] = k] \in Tree(s)!Row
                         /\ \A t \in Titles : [r EXCEPT !["title"] = t] \in Tree(s)!Row
      BY DEF Tree!Row
    <3>2. {"parent", "level", "type", "kind", "title"} = Fields
      BY DEF Fields
    <3> QED BY <1>1, <1>2, <2>1, <3>1, <3>2 DEF Tree!Begin
  <2> QED BY <1>3, <1>4, <1>5, <1>6, <1>7, <2>1 DEF Tree!Next

LEMMA LevelsFollow ==
  ASSUME NEW s \in TreeScenes, Tree(s)!AddressAssumption, TreeTypes(s), TreeInv(s)
  PROVE  Tree(s)!LevelsFall
<1> SUFFICES ASSUME NEW a \in Addrs[s], Tree(s)!Exists(a)
             PROVE  \/ \A b \in Tree(s)!get_address_recursive_ids(a) : addr[b].level <= addr[a].level
                    \/ Tree(s)!get_address_recursive_ids(a) \cap relevelled # {}
  BY DEF Tree!LevelsFall
<1> DEFINE N == Cardinality(Addrs[s])
<1>1. N \in Nat
  BY FS_CardinalityType, TreeOnFiniteSets DEF Tree!AddressAssumption
<1>2. \A b \in Addrs[s] : Tree(s)!Exists(b) => /\ addr[b].parent \in {e \in Addrs[s] : Tree(s)!Exists(e)} \cup {Tree(s)!Top}
                                   /\ addr[b].level \in Nat
  BY DEF TreeTypes, Tree!Exists, Tree!Row, Tree!AddressAssumption
<1>3. \A b \in Addrs[s] : addr[b].parent \in Addrs[s] \cup {Tree(s)!Top}
  BY <1>2 DEF Tree!Exists, Tree!NoAddr
<1> HIDE DEF N
<1>a. PICK f \in [0 .. N -> SUBSET Addrs[s]] : Ascent(s, a, N, f)
  BY <1>1, <1>3, Rounds DEF N
<1>4. /\ f[0] = {a}
      /\ \A n \in 1 .. N : f[n] = f[n - 1] \cup ({addr[b].parent : b \in f[n - 1]} \ {Tree(s)!Top})
      /\ Tree(s)!get_address_recursive_ids(a) = f[N]
  BY <1>a DEF Ascent
<1> DEFINE Low(S) == \/ S \cap relevelled # {}
                     \/ \A b \in S : Tree(s)!Exists(b) /\ addr[b].level <= addr[a].level
           M == {n \in Nat : n \in 0 .. N => Low(f[n])}
<1>5. 0 \in M
  BY <1>2, <1>4
<1>6. ASSUME NEW n \in Nat, n \in M PROVE n + 1 \in M
  <2> SUFFICES ASSUME n + 1 \in 0 .. N, f[n + 1] \cap relevelled = {}, NEW b \in f[n + 1]
               PROVE  Tree(s)!Exists(b) /\ addr[b].level <= addr[a].level
    OBVIOUS
  <2>1. n \in 0 .. N /\ n + 1 \in 1 .. N /\ (n + 1) - 1 = n
    BY <1>1
  <2>2. f[n + 1] = f[n] \cup ({addr[e].parent : e \in f[n]} \ {Tree(s)!Top}) /\ f[n] \in SUBSET Addrs[s]
    BY <1>4, <2>1
  <2>3. \A e \in f[n] : e \in Addrs[s] /\ Tree(s)!Exists(e) /\ addr[e].level <= addr[a].level /\ e \notin relevelled
    BY <1>6, <2>1, <2>2
  <2>4. CASE b \in f[n]
    BY <2>3, <2>4
  <2>5. CASE b \notin f[n]
    <3>1. PICK e \in f[n] : b = addr[e].parent /\ b # Tree(s)!Top
      BY <2>2, <2>5
    <3>2. Tree(s)!Exists(b) /\ b \in Addrs[s]
      BY <1>2, <2>3, <3>1
    <3>3. addr[b].level <= addr[e].level
      BY <2>3, <3>1 DEF TreeInv, Edge
    <3> QED BY <1>2, <2>3, <3>1, <3>2, <3>3
  <2> QED BY <2>4, <2>5
<1>7. Nat \subseteq M
  <2> HIDE DEF M
  <2> QED BY <1>5, <1>6, SetInduction
<1>8. N \in 0 .. N /\ N \in M
  BY <1>1, <1>7
<1> QED BY <1>4, <1>8

LEMMA TreeTypesSay ==
  ASSUME NEW s \in TreeScenes, Tree(s)!AddressAssumption, TreeTypes(s) PROVE Tree(s)!TypeOK
<1>1. \A a \in Addrs[s] : Tree(s)!Exists(a) => addr[a] \in Tree(s)!Row
  BY DEF TreeTypes, Tree!Exists
<1> QED BY <1>1, RowFacts DEF TreeTypes, Tree!TypeOK, Fields

LEMMA TreeKeeps ==
  ASSUME NEW s \in TreeScenes, Tree(s)!AddressAssumption, Tree(s)!AddressBoundAssumption
  PROVE  /\ Tree(s)!Init => TreeTypes(s) /\ TreeInv(s)
         /\ TreeTypes(s) /\ TreeInv(s) /\ [Tree(s)!Next]_(Tree(s)!vars) => (TreeTypes(s) /\ TreeInv(s))'
         /\ TreeTypes(s) /\ TreeInv(s) => Tree(s)!TypeOK /\ Tree(s)!LevelsFall
<1>1. Tree(s)!Init => TreeTypes(s) /\ TreeInv(s)
  BY TreeInit, TreeInvInit
<1>2. TreeTypes(s) /\ TreeInv(s) /\ [Tree(s)!Next]_(Tree(s)!vars) => (TreeTypes(s) /\ TreeInv(s))'
  BY TreeTypeStep, TreeInvStep
<1>3. TreeTypes(s) /\ TreeInv(s) => Tree(s)!TypeOK /\ Tree(s)!LevelsFall
  BY TreeTypesSay, LevelsFollow
<1> QED BY <1>1, <1>2, <1>3

-----------------------------------------------------------------------------
(* The bots. *)

(* What the threads that serve Telegram can be at. *)
Handlings(n, m) ==
  {Bot(n, m)!Free} \cup [op : {"get", "create", "leave", "count"}, c : Chats, b : Bots]
         \cup [op : {"sweep", "attach"}, c : Chats, s : Subs]
Subscription(n, m) == [chat : Chats, bot : Bots, account : Profiles \cup {NoProfile}]
BotTypes(n, m) ==
  /\ subs \in [Subs -> {Bot(n, m)!NoSub} \cup Subscription(n, m)]
  /\ handler \in [Web -> Handlings(n, m)]
  /\ doubled \subseteq Chats /\ updates \in 0 .. m

(* The accounts are attached once; the ghost names the chats with two subscribers,
   and nobody sweeps before there is one; one update at a time, for one bot,
   makes none. *)
AttachedOnce(n, m) == \A r, s \in Bot(n, m)!Rows : (r # s /\ subs[r].account # NoProfile) => subs[r].account # subs[s].account
DoubledKnown(n, m) == \A r, s \in Bot(n, m)!Rows : (r # s /\ subs[r].chat = subs[s].chat) => subs[r].chat \in doubled
SweepDoubled(n, m) == \A t \in Web : handler[t].op = "sweep" => doubled # {}
OneByOne(n, m) ==
  (n = 1 /\ Cardinality(Bots) = 1) =>
    /\ doubled = {}
    /\ \A t, u \in Web : t # u => handler[t] = Bot(n, m)!Free \/ handler[u] = Bot(n, m)!Free
    /\ \A t \in Web, c \in Chats : (handler[t].op = "create" /\ handler[t].c = c) => Bot(n, m)!Of(c) = {}
BotInv(n, m) == AttachedOnce(n, m) /\ DoubledKnown(n, m) /\ SweepDoubled(n, m) /\ OneByOne(n, m)

LEMMA BotRows ==
  ASSUME NEW n, NEW m PROVE
  /\ Bot(n, m)!NoSub \notin Subscription(n, m)
  /\ \A x \in Subscription(n, m) : x.chat \in Chats /\ x.bot \in Bots /\ x.account \in Profiles \cup {NoProfile}
<1>1. Bot(n, m)!NoSub \notin Subscription(n, m)
  BY DEF Bot!NoSub, Subscription
<1>2. \A x \in Subscription(n, m) : x.chat \in Chats /\ x.bot \in Bots /\ x.account \in Profiles \cup {NoProfile}
  BY DEF Subscription
<1> QED BY <1>1, <1>2

LEMMA BotRecords ==
  ASSUME NEW n, NEW m PROVE
  /\ \A q \in Handlings(n, m) : q.op \in {"get", "create", "leave", "count"} => q # Bot(n, m)!Free /\ q.c \in Chats /\ q.b \in Bots
  /\ \A q \in Handlings(n, m) : q.op \in {"sweep", "attach"} => q # Bot(n, m)!Free /\ q.c \in Chats /\ q.s \in Subs
  /\ Bot(n, m)!Free.op = "free" /\ Bot(n, m)!Free \in Handlings(n, m)
<1>1. \A q \in Handlings(n, m) : q.op \in {"get", "create", "leave", "count"} => q # Bot(n, m)!Free /\ q.c \in Chats /\ q.b \in Bots
  BY DEF Handlings, Bot!Free
<1>2. \A q \in Handlings(n, m) : q.op \in {"sweep", "attach"} => q # Bot(n, m)!Free /\ q.c \in Chats /\ q.s \in Subs
  BY DEF Handlings, Bot!Free
<1>3. Bot(n, m)!Free.op = "free" /\ Bot(n, m)!Free \in Handlings(n, m)
  BY DEF Handlings, Bot!Free
<1> QED BY <1>1, <1>2, <1>3

LEMMA BotMoves ==
  ASSUME NEW n, NEW m PROVE
  /\ \A c \in Chats, b \in Bots : \A o \in {"get", "create", "leave", "count"} : [op |-> o, c |-> c, b |-> b] \in Handlings(n, m)
  /\ \A c \in Chats, s \in Subs : \A o \in {"sweep", "attach"} : [op |-> o, c |-> c, s |-> s] \in Handlings(n, m)
BY DEF Handlings

LEMMA BotsBegin ==
  ASSUME NEW n, NEW m, Bot(n, m)!BotAssumption, Bot(n, m)!Init PROVE BotTypes(n, m) /\ BotInv(n, m)
<1>1. BotTypes(n, m)
  BY BotRecords DEF Bot!Init, BotTypes, Bot!BotAssumption
<1>2. Bot(n, m)!Rows = {}
  BY DEF Bot!Init, Bot!Rows
<1>3. \A t \in Web : handler[t] = Bot(n, m)!Free /\ handler[t].op = "free"
  BY BotRecords DEF Bot!Init
<1> QED BY <1>1, <1>2, <1>3 DEF Bot!Init, BotInv, AttachedOnce, DoubledKnown, SweepDoubled, OneByOne

(* The sets and numbers of Bots are those of this module. *)
LEMMA BotsOnFiniteSets ==
  ASSUME NEW n, NEW m, NEW S
  PROVE  (Bot(n, m)!IsFiniteSet(S) <=> IsFiniteSet(S)) /\ Bot(n, m)!Cardinality(S) = Cardinality(S)
<1>1. Bot(n, m)!IsFiniteSet(S) <=> IsFiniteSet(S)
  BY Zenon DEF Bot!IsFiniteSet, IsFiniteSet
<1>2. Bot(n, m)!Cardinality(S) = Cardinality(S)
  BY Zenon DEF Bot!Cardinality, Cardinality
<1> QED BY <1>1, <1>2

(* With at most one request at a time, one that begins is alone. *)
LEMMA BeginsAlone ==
  ASSUME NEW n, NEW m, Bot(n, m)!BotAssumption, n = 1, Bot(n, m)!InFlight < n, NEW v \in Web
  PROVE  handler[v] = Bot(n, m)!Free
<1> SUFFICES ASSUME handler[v] # Bot(n, m)!Free PROVE FALSE
  OBVIOUS
<1> DEFINE B == {t \in Web : handler[t] # Bot(n, m)!Free}
<1>1. IsFiniteSet(Web) /\ B \subseteq Web
  BY BotsOnFiniteSets DEF Bot!BotAssumption
<1>2. IsFiniteSet(B) /\ Cardinality(B) \in Nat
  BY <1>1, FS_Subset, FS_CardinalityType
<1>3. v \in B
  OBVIOUS
<1>4. Cardinality(B) # 0
  BY <1>2, <1>3, FS_EmptySet
<1>5. Cardinality(B) < 1
  BY BotsOnFiniteSets DEF Bot!InFlight
<1> QED BY <1>2, <1>4, <1>5

(* Several of a chat are two. *)
LEMMA Several ==
  ASSUME NEW n, NEW m, Bot(n, m)!BotAssumption, NEW c, NEW s \in Bot(n, m)!Of(c), Bot(n, m)!Cardinality(Bot(n, m)!Of(c)) > 1
  PROVE  \E r \in Bot(n, m)!Of(c) : r # s
<1> SUFFICES ASSUME \A r \in Bot(n, m)!Of(c) : r = s PROVE FALSE
  OBVIOUS
<1>1. Bot(n, m)!Of(c) = {s}
  OBVIOUS
<1>2. Cardinality({s}) = 1
  BY FS_Singleton
<1> QED BY <1>1, <1>2, BotsOnFiniteSets

(* The only bot there is. *)
LEMMA OnlyBot ==
  ASSUME NEW n, NEW m, Bot(n, m)!BotAssumption, Cardinality(Bots) = 1, NEW b \in Bots, NEW e \in Bots
  PROVE  b = e
BY FS_Singleton, BotsOnFiniteSets DEF Bot!BotAssumption

(* A step of a thread that leaves the subscribers alone, or takes some away. *)
LEMMA RowsStay ==
  ASSUME NEW n, NEW m, BotTypes(n, m), BotInv(n, m), NEW t \in Web, NEW q \in Handlings(n, m),
         handler' = [handler EXCEPT ![t] = q], subs' \in [Subs -> {Bot(n, m)!NoSub} \cup Subscription(n, m)],
         \A r \in Subs : subs'[r] \in {Bot(n, m)!NoSub, subs[r]},
         doubled' = doubled, updates' \in 0 .. m,
         q.op = "sweep" => doubled # {},
         (n = 1 /\ Cardinality(Bots) = 1) =>
           /\ q = Bot(n, m)!Free \/ \A u \in Web \ {t} : handler[u] = Bot(n, m)!Free
           /\ \A c \in Chats : (q.op = "create" /\ q.c = c) => Bot(n, m)!Of(c) = {}
  PROVE  BotTypes(n, m)' /\ BotInv(n, m)'
<1>1. BotTypes(n, m)'
  BY DEF BotTypes
<1>2. Bot(n, m)!Rows' \subseteq Bot(n, m)!Rows /\ \A r \in Bot(n, m)!Rows' : subs'[r] = subs[r]
  BY DEF Bot!Rows
<1>3. AttachedOnce(n, m)' /\ DoubledKnown(n, m)'
  BY <1>2 DEF AttachedOnce, DoubledKnown, BotInv
<1>4. SweepDoubled(n, m)'
  BY DEF SweepDoubled, BotInv, BotTypes
<1>5. OneByOne(n, m)'
  <2> SUFFICES ASSUME n = 1, Cardinality(Bots) = 1 PROVE OneByOne(n, m)'
    BY DEF OneByOne
  <2>1. \A v \in Web : handler'[v] = IF v = t THEN q ELSE handler[v]
    BY DEF BotTypes
  <2>2. \A c : Bot(n, m)!Of(c)' \subseteq Bot(n, m)!Of(c)
    BY <1>2 DEF Bot!Of
  <2>3. ASSUME NEW v \in Web, NEW c \in Chats, handler'[v].op = "create", handler'[v].c = c PROVE Bot(n, m)!Of(c)' = {}
    BY <2>1, <2>2, <2>3 DEF BotInv, OneByOne
  <2>4. \A v, u \in Web : v # u => handler'[v] = Bot(n, m)!Free \/ handler'[u] = Bot(n, m)!Free
    BY <2>1 DEF BotInv, OneByOne
  <2> QED BY <2>3, <2>4 DEF BotInv, OneByOne
<1> QED BY <1>1, <1>3, <1>4, <1>5 DEF BotInv

LEMMA BotsStep ==
  ASSUME NEW n, NEW m, Bot(n, m)!BotAssumption, BotTypes(n, m), BotInv(n, m), [Bot(n, m)!Next]_(Bot(n, m)!vars)
  PROVE  BotTypes(n, m)' /\ BotInv(n, m)'
<1>0. /\ handler \in [Web -> Handlings(n, m)] /\ subs \in [Subs -> {Bot(n, m)!NoSub} \cup Subscription(n, m)]
      /\ updates \in 0 .. m
  BY DEF BotTypes
<1>1. ASSUME NEW t \in Web, NEW c \in Chats, NEW b \in Bots,
             NEW o \in {"get", "leave", "count"}, Bot(n, m)!Begin(t, [op |-> o, c |-> c, b |-> b]),
             UNCHANGED <<subs, doubled>>
      PROVE  BotTypes(n, m)' /\ BotInv(n, m)'
  <2> DEFINE q == [op |-> o, c |-> c, b |-> b]
  <2>1. q \in Handlings(n, m) /\ q.op \notin {"sweep", "create"}
    BY BotMoves
  <2>2. updates' \in 0 .. m
    BY <1>0, <1>1 DEF Bot!Begin, Bot!BotAssumption
  <2>3. n = 1 => \A u \in Web : handler[u] = Bot(n, m)!Free
    BY <1>1, BeginsAlone DEF Bot!Begin
  <2>4. handler' = [handler EXCEPT ![t] = q]
    BY <1>1 DEF Bot!Begin, Bot!Goes
  <2> HIDE DEF q
  <2> QED BY <1>0, <1>1, <2>1, <2>2, <2>3, <2>4, RowsStay
<1>a. ASSUME NEW t \in Web, handler[t] # Bot(n, m)!Free
      PROVE  (n = 1 /\ Cardinality(Bots) = 1) => \A u \in Web \ {t} : handler[u] = Bot(n, m)!Free
  BY <1>a DEF BotInv, OneByOne
<1>2. ASSUME NEW t \in Web, Bot(n, m)!Get(t)
      PROVE  BotTypes(n, m)' /\ BotInv(n, m)'
  <2> DEFINE h == handler[t]
             q == IF Bot(n, m)!SubsOf(h.c, h.b) = {} THEN [h EXCEPT !.op = "create"] ELSE Bot(n, m)!Free
  <2>1. h \in Handlings(n, m) /\ h.op = "get" /\ h # Bot(n, m)!Free /\ h.c \in Chats /\ h.b \in Bots
    BY <1>0, <1>2, BotRecords DEF Bot!Get
  <2>2. /\ [h EXCEPT !.op = "create"] = [op |-> "create", c |-> h.c, b |-> h.b]
        /\ [op |-> "create", c |-> h.c, b |-> h.b] \in Handlings(n, m)
    <3>1. [h EXCEPT !.op = "create"] = [op |-> "create", c |-> h.c, b |-> h.b]
      BY <2>1 DEF Handlings, Bot!Free
    <3> QED BY <2>1, <3>1, BotMoves
  <2>3. q \in Handlings(n, m) /\ q.op # "sweep" /\ handler' = [handler EXCEPT ![t] = q]
    BY <1>2, <2>1, <2>2, BotRecords DEF Bot!Get, Bot!Goes
  <2>4. Cardinality(Bots) = 1 => \A c \in Chats : (q.op = "create" /\ q.c = c) => Bot(n, m)!Of(c) = {}
    <3> SUFFICES ASSUME Cardinality(Bots) = 1, Bot(n, m)!SubsOf(h.c, h.b) = {}, NEW s \in Bot(n, m)!Of(h.c) PROVE FALSE
      BY <2>2, BotRecords
    <3>1. s \in Subs /\ subs[s].bot \in Bots
      BY <1>0, BotRows DEF Bot!Of, Bot!Rows
    <3>2. subs[s].bot = h.b
      BY <2>1, <3>1, OnlyBot
    <3> QED BY <3>2 DEF Bot!SubsOf
  <2>5. n = 1 /\ Cardinality(Bots) = 1 => \A u \in Web \ {t} : handler[u] = Bot(n, m)!Free
    BY <1>a, <2>1
  <2>6. UNCHANGED <<subs, doubled, updates>>
    BY <1>2 DEF Bot!Get
  <2> HIDE DEF q
  <2> QED BY <1>0, <2>3, <2>4, <2>5, <2>6, RowsStay
<1>3. ASSUME NEW t \in Web, Bot(n, m)!Create(t)
      PROVE  BotTypes(n, m)' /\ BotInv(n, m)'
  <2> DEFINE h == handler[t]
  <2>1. h \in Handlings(n, m) /\ h.op = "create" /\ h # Bot(n, m)!Free /\ h.c \in Chats /\ h.b \in Bots
    BY <1>0, <1>3, BotRecords DEF Bot!Create
  <2>2. PICK s \in Bot(n, m)!Unused : subs' = [subs EXCEPT ![s] = [chat |-> h.c, bot |-> h.b, account |-> NoProfile]]
    BY <1>3 DEF Bot!Create
  <2> DEFINE x == [chat |-> h.c, bot |-> h.b, account |-> NoProfile]
  <2>3. x \in Subscription(n, m) /\ x.chat = h.c /\ x.account = NoProfile
    BY <2>1 DEF Subscription
  <2> HIDE DEF x
  <2>4. /\ s \in Subs /\ s \notin Bot(n, m)!Rows /\ subs'[s] = x
        /\ \A r \in Subs \ {s} : subs'[r] = subs[r]
        /\ Bot(n, m)!Rows' = Bot(n, m)!Rows \cup {s}
    <3>1. s \in Subs /\ s \notin Bot(n, m)!Rows /\ x # Bot(n, m)!NoSub /\ subs' = [subs EXCEPT ![s] = x]
      BY <2>2, <2>3, BotRows DEF x, Bot!Unused, Bot!Rows
    <3>2. subs'[s] = x /\ \A r \in Subs \ {s} : subs'[r] = subs[r]
      BY <1>0, <3>1
    <3> QED BY <3>1, <3>2 DEF Bot!Rows
  <2>5. /\ doubled' = IF Bot(n, m)!Of(h.c) = {} THEN doubled ELSE doubled \cup {h.c}
        /\ handler' = [handler EXCEPT ![t] = Bot(n, m)!Free] /\ updates' = updates
    BY <1>3 DEF Bot!Create, Bot!Goes
  <2>6. BotTypes(n, m)'
    BY <1>0, <2>1, <2>2, <2>3, <2>5, BotRecords DEF BotTypes, x
  <2>7. AttachedOnce(n, m)'
    <3>1. \A r \in Bot(n, m)!Rows : r # s /\ r \in Subs /\ subs'[r] = subs[r]
      BY <2>4 DEF Bot!Rows
    <3>2. \A r, e \in Bot(n, m)!Rows : (r # e /\ subs[r].account # NoProfile) => subs[r].account # subs[e].account
      BY DEF BotInv, AttachedOnce
    <3>3. \A r, e \in Bot(n, m)!Rows \cup {s} : (r # e /\ subs'[r].account # NoProfile) => subs'[r].account # subs'[e].account
      BY <2>3, <2>4, <3>1, <3>2
    <3> QED BY <2>4, <3>3 DEF AttachedOnce
  <2>8. DoubledKnown(n, m)'
    <3>1. \A r \in Bot(n, m)!Rows : r # s /\ r \in Subs /\ subs'[r] = subs[r]
      BY <2>4 DEF Bot!Rows
    <3>2. \A r, e \in Bot(n, m)!Rows : (r # e /\ subs[r].chat = subs[e].chat) => subs[r].chat \in doubled'
      BY <2>5 DEF BotInv, DoubledKnown
    <3>3. \A r \in Bot(n, m)!Rows : subs[r].chat = h.c => h.c \in doubled'
      BY <2>5 DEF Bot!Of
    <3>4. \A r, e \in Bot(n, m)!Rows \cup {s} : (r # e /\ subs'[r].chat = subs'[e].chat) => subs'[r].chat \in doubled'
      BY <2>3, <2>4, <3>1, <3>2, <3>3
    <3> QED BY <2>4, <3>4 DEF DoubledKnown
  <2>9. SweepDoubled(n, m)'
    BY <1>0, <2>5, BotRecords DEF SweepDoubled, BotInv
  <2>10. OneByOne(n, m)'
    <3> SUFFICES ASSUME n = 1, Cardinality(Bots) = 1 PROVE OneByOne(n, m)'
      BY DEF OneByOne
    <3>1. doubled' = {}
      BY <2>1, <2>5 DEF BotInv, OneByOne
    <3>2. \A u \in Web : handler'[u] = Bot(n, m)!Free
      BY <1>0, <1>a, <2>1, <2>5
    <3> QED BY <3>1, <3>2, BotRecords DEF OneByOne
  <2> QED BY <2>6, <2>7, <2>8, <2>9, <2>10 DEF BotInv
<1>4. ASSUME NEW t \in Web, Bot(n, m)!Leave(t)
      PROVE  BotTypes(n, m)' /\ BotInv(n, m)'
  <2>1. /\ \A r \in Subs : subs'[r] \in {Bot(n, m)!NoSub, subs[r]} 
        /\ subs' \in [Subs -> {Bot(n, m)!NoSub} \cup Subscription(n, m)]
    BY <1>0, <1>4 DEF Bot!Leave
  <2>2. handler' = [handler EXCEPT ![t] = Bot(n, m)!Free] /\ UNCHANGED <<doubled, updates>>
    BY <1>4 DEF Bot!Leave, Bot!Goes
  <2> QED BY <1>0, <2>1, <2>2, RowsStay, BotRecords
<1>5. ASSUME NEW t \in Web, Bot(n, m)!Count(t)
      PROVE  BotTypes(n, m)' /\ BotInv(n, m)'
  <2> DEFINE h == handler[t]
  <2>1. h \in Handlings(n, m) /\ h.op = "count" /\ h # Bot(n, m)!Free /\ h.c \in Chats /\ h.b \in Bots
    BY <1>0, <1>5, BotRecords DEF Bot!Count
  <2>2. /\ [h EXCEPT !.op = "get"] = [op |-> "get", c |-> h.c, b |-> h.b]
        /\ [op |-> "get", c |-> h.c, b |-> h.b] \in Handlings(n, m)
    <3>1. [h EXCEPT !.op = "get"] = [op |-> "get", c |-> h.c, b |-> h.b]
      BY <2>1 DEF Handlings, Bot!Free
    <3> QED BY <2>1, <3>1, BotMoves
  <2>3. PICK q : /\ handler' = [handler EXCEPT ![t] = q]
                 /\ \/ q = Bot(n, m)!Free \/ q = [h EXCEPT !.op = "get"]
                    \/ \E s \in Bot(n, m)!Of(h.c) :
                         q = [op |-> IF Bot(n, m)!Cardinality(Bot(n, m)!Of(h.c)) > 1 THEN "sweep" ELSE "attach", c |-> h.c, s |-> s]
    BY <1>5 DEF Bot!Count, Bot!Goes
  <2>4. q \in Handlings(n, m) /\ q.op # "create"
    <3>1. \A s \in Bot(n, m)!Of(h.c) : s \in Subs
      BY DEF Bot!Of, Bot!Rows
    <3>2. CASE q = Bot(n, m)!Free \/ q = [h EXCEPT !.op = "get"]
      BY <2>2, <3>2, BotRecords
    <3>3. CASE ~(q = Bot(n, m)!Free \/ q = [h EXCEPT !.op = "get"])
      <4>1. PICK s \in Subs, o \in {"sweep", "attach"} : q = [op |-> o, c |-> h.c, s |-> s]
        BY <2>3, <3>1, <3>3
      <4> QED BY <2>1, <4>1, BotMoves
    <3> QED BY <3>2, <3>3
  <2>5. q.op = "sweep" => doubled # {}
    <3> SUFFICES ASSUME q.op = "sweep" PROVE doubled # {}
      OBVIOUS
    <3>1. PICK s \in Bot(n, m)!Of(h.c) : Bot(n, m)!Cardinality(Bot(n, m)!Of(h.c)) > 1
      BY <2>2, <2>3, BotRecords
    <3>2. PICK r \in Bot(n, m)!Of(h.c) : r # s
      BY <3>1, Several
    <3> QED BY <3>2 DEF BotInv, DoubledKnown, Bot!Of
  <2>6. n = 1 /\ Cardinality(Bots) = 1 => \A u \in Web \ {t} : handler[u] = Bot(n, m)!Free
    BY <1>a, <2>1
  <2>7. UNCHANGED <<subs, doubled, updates>>
    BY <1>5 DEF Bot!Count
  <2> QED BY <1>0, <2>3, <2>4, <2>5, <2>6, <2>7, RowsStay
<1>6. ASSUME NEW t \in Web, Bot(n, m)!Sweep(t)
      PROVE  BotTypes(n, m)' /\ BotInv(n, m)'
  <2> DEFINE h == handler[t]
             q == [h EXCEPT !.op = "attach"]
  <2>1. h \in Handlings(n, m) /\ h.op = "sweep" /\ h # Bot(n, m)!Free /\ h.c \in Chats /\ h.s \in Subs
    BY <1>0, <1>6, BotRecords DEF Bot!Sweep
  <2>2. q = [op |-> "attach", c |-> h.c, s |-> h.s]
    BY <2>1 DEF Handlings, Bot!Free
  <2>x. [op |-> "attach", c |-> h.c, s |-> h.s] \in Handlings(n, m)
    BY <2>1, BotMoves
  <2>3. q \in Handlings(n, m) /\ q.op = "attach" /\ handler' = [handler EXCEPT ![t] = q]
    BY <1>6, <2>2, <2>x DEF Bot!Sweep, Bot!Goes
  <2>4. /\ \A r \in Subs : subs'[r] \in {Bot(n, m)!NoSub, subs[r]} 
        /\ subs' \in [Subs -> {Bot(n, m)!NoSub} \cup Subscription(n, m)]
        /\ UNCHANGED <<doubled, updates>>
    BY <1>0, <1>6 DEF Bot!Sweep
  <2>5. n = 1 /\ Cardinality(Bots) = 1 => \A u \in Web \ {t} : handler[u] = Bot(n, m)!Free
    BY <1>a, <2>1
  <2> HIDE DEF q
  <2> QED BY <1>0, <2>3, <2>4, <2>5, RowsStay
<1>7. ASSUME NEW t \in Web, Bot(n, m)!Attach(t)
      PROVE  BotTypes(n, m)' /\ BotInv(n, m)'
  <2> DEFINE s == handler[t].s
             p == Phone[handler[t].c]
  <2>1. s \in Subs /\ handler[t].c \in Chats /\ p \in Profiles \cup {NoProfile}
    BY <1>0, <1>7, BotRecords DEF Bot!Attach, Bot!BotAssumption
  <2>2. handler' = [handler EXCEPT ![t] = Bot(n, m)!Free] /\ UNCHANGED <<doubled, updates>>
    BY <1>7 DEF Bot!Attach, Bot!Goes
  <2>3. CASE subs' = subs
    BY <1>0, <2>2, <2>3, RowsStay, BotRecords
  <2>4. CASE subs' # subs
    <3>1. subs[s] # Bot(n, m)!NoSub /\ (\A r \in Bot(n, m)!Rows \ {s} : subs[r].account # p) /\ subs' = [subs EXCEPT ![s].account = p]
      BY <1>7, <2>4 DEF Bot!Attach
    <3> DEFINE x == [subs[s] EXCEPT !.account = p]
    <3>2. x \in Subscription(n, m) /\ x.chat = subs[s].chat /\ x.account = p
      <4>1. subs[s] \in Subscription(n, m)
        BY <1>0, <2>1, <3>1
      <4> QED BY <2>1, <4>1 DEF Subscription
    <3> HIDE DEF s, p
    <3>3. subs' = [subs EXCEPT ![s] = x]
      BY <3>1
    <3> HIDE DEF x
    <3>4. subs'[s] = x /\ \A r \in Subs \ {s} : subs'[r] = subs[r]
      BY <1>0, <2>1, <3>3
    <3>5. Bot(n, m)!Rows' = Bot(n, m)!Rows /\ s \in Bot(n, m)!Rows
      BY <2>1, <3>1, <3>2, <3>4, BotRows DEF Bot!Rows
    <3>6. \A r \in Bot(n, m)!Rows : r \in Subs
      BY DEF Bot!Rows
    <3>7. AttachedOnce(n, m)'
      <4>1. \A r, e \in Bot(n, m)!Rows : (r # e /\ subs[r].account # NoProfile) => subs[r].account # subs[e].account
        BY DEF BotInv, AttachedOnce
      <4>2. \A r, e \in Bot(n, m)!Rows : (r # e /\ subs'[r].account # NoProfile) => subs'[r].account # subs'[e].account
        BY <3>1, <3>2, <3>4, <3>6, <4>1
      <4> QED BY <3>5, <4>2 DEF AttachedOnce
    <3>8. DoubledKnown(n, m)'
      <4>1. \A r \in Bot(n, m)!Rows : subs'[r].chat = subs[r].chat
        BY <3>2, <3>4, <3>6
      <4> QED BY <2>2, <3>5, <4>1 DEF BotInv, DoubledKnown
    <3>9. BotTypes(n, m)'
      BY <1>0, <2>1, <2>2, <3>2, <3>3, BotRecords DEF BotTypes
    <3>10. SweepDoubled(n, m)'
      BY <1>0, <2>2, BotRecords DEF SweepDoubled, BotInv
    <3>11. OneByOne(n, m)'
      <4>1. \A c : Bot(n, m)!Of(c)' = Bot(n, m)!Of(c)
        <5>1. \A r \in Bot(n, m)!Rows : subs'[r].chat = subs[r].chat
          BY <3>2, <3>4, <3>6
        <5> QED BY <3>5, <5>1 DEF Bot!Of
      <4>2. \A v \in Web : handler'[v] = IF v = t THEN Bot(n, m)!Free ELSE handler[v]
        BY <1>0, <2>2
      <4>3. \A v \in Web : handler'[v].op = "create" => handler'[v] = handler[v]
        BY <4>2, BotRecords
      <4>4. \A v \in Web : handler'[v] # Bot(n, m)!Free => handler'[v] = handler[v]
        BY <4>2
      <4>5. ASSUME n = 1, Cardinality(Bots) = 1,
                   NEW v \in Web, NEW c \in Chats, handler'[v].op = "create", handler'[v].c = c
            PROVE  Bot(n, m)!Of(c)' = {}
        <5>1. Bot(n, m)!Of(c) = {}
          BY <4>3, <4>5 DEF BotInv, OneByOne
        <5> QED BY <4>1, <5>1
      <4>6. ASSUME n = 1, Cardinality(Bots) = 1
            PROVE  \A u, v \in Web : v # u => handler'[v] = Bot(n, m)!Free \/ handler'[u] = Bot(n, m)!Free
        BY <4>4, <4>6 DEF BotInv, OneByOne
      <4> QED BY <2>2, <4>5, <4>6 DEF BotInv, OneByOne
    <3> QED BY <3>7, <3>8, <3>9, <3>10, <3>11 DEF BotInv
  <2> QED BY <2>3, <2>4
<1>8. ASSUME NEW t \in Web, Bot(n, m)!Crash(t)
      PROVE  BotTypes(n, m)' /\ BotInv(n, m)'
  <2>1. updates' \in 0 .. m
    BY <1>0, <1>8 DEF Bot!Crash, Bot!BotAssumption
  <2>2. handler' = [handler EXCEPT ![t] = Bot(n, m)!Free] /\ UNCHANGED <<subs, doubled>>
    BY <1>8 DEF Bot!Crash, Bot!Goes
  <2> QED BY <1>0, <2>1, <2>2, RowsStay, BotRecords
<1>9. CASE UNCHANGED Bot(n, m)!vars
  BY <1>9 DEF Bot!vars, BotTypes, BotInv, AttachedOnce, DoubledKnown, SweepDoubled, OneByOne, Bot!Rows, Bot!Of
<1>10. ASSUME NEW t \in Web, Bot(n, m)!Update(t)
      PROVE  BotTypes(n, m)' /\ BotInv(n, m)'
  BY <1>1, <1>10 DEF Bot!Update, Bot!Member, Bot!Kicked, Bot!Contact
<1> QED BY <1>2, <1>3, <1>4, <1>5, <1>6, <1>7, <1>8, <1>9, <1>10 DEF Bot!Next, Bot!Handle

(* A subscription ends by a sweep, where there were two, or because the chat left. *)
LEMMA BotsKeep ==
  ASSUME NEW n, NEW m, BotTypes(n, m), BotInv(n, m), Bot(n, m)!Next
  PROVE  Bot(n, m)!KeptStep
<1> SUFFICES ASSUME NEW r \in Bot(n, m)!Rows, subs'[r] = Bot(n, m)!NoSub
             PROVE  \/ doubled # {}
                    \/ \E t \in Web : handler[t].op = "leave" /\ handler[t].c = subs[r].chat
  BY DEF Bot!KeptStep
<1>0. r \in Subs /\ subs[r] # Bot(n, m)!NoSub /\ subs \in [Subs -> {Bot(n, m)!NoSub} \cup Subscription(n, m)] /\ handler \in [Web -> Handlings(n, m)]
  BY DEF Bot!Rows, BotTypes
<1>1. PICK t \in Web : Bot(n, m)!Update(t) \/ Bot(n, m)!Handle(t) \/ Bot(n, m)!Crash(t)
  BY DEF Bot!Next
<1>2. subs' # subs
  BY <1>0
<1>3. Bot(n, m)!Create(t) \/ Bot(n, m)!Leave(t) \/ Bot(n, m)!Sweep(t) \/ Bot(n, m)!Attach(t)
  BY <1>1, <1>2 DEF Bot!Update, Bot!Handle, Bot!Member, Bot!Kicked, Bot!Contact, Bot!Get, Bot!Count, Bot!Crash
<1>4. ASSUME Bot(n, m)!Create(t) PROVE FALSE
  <2>1. PICK s \in Bot(n, m)!Unused, x \in Subscription(n, m) : subs' = [subs EXCEPT ![s] = x]
    <3>1. handler[t].c \in Chats /\ handler[t].b \in Bots
      BY <1>0, <1>4, BotRecords DEF Bot!Create
    <3>2. [chat |-> handler[t].c, bot |-> handler[t].b, account |-> NoProfile] \in Subscription(n, m)
      BY <3>1 DEF Subscription
    <3> QED BY <1>4, <3>2 DEF Bot!Create
  <2> QED BY <1>0, <2>1 DEF Bot!Unused
<1>5. CASE Bot(n, m)!Leave(t)
  BY <1>0, <1>5 DEF Bot!Leave, Bot!Of
<1>6. CASE Bot(n, m)!Sweep(t)
  BY <1>6 DEF Bot!Sweep, BotInv, SweepDoubled
<1>7. ASSUME Bot(n, m)!Attach(t) PROVE FALSE
  <2> DEFINE s == handler[t].s
             p == Phone[handler[t].c]
  <2>1. subs[s] # Bot(n, m)!NoSub /\ s \in Subs /\ subs' = [subs EXCEPT ![s].account = p]
    BY <1>0, <1>2, <1>7 DEF Bot!Attach
  <2>2. [subs[s] EXCEPT !.account = p] # Bot(n, m)!NoSub
    BY <1>0, <2>1 DEF Subscription, Bot!NoSub
  <2> HIDE DEF s, p
  <2> QED BY <1>0, <2>1, <2>2
<1> QED BY <1>3, <1>4, <1>5, <1>6, <1>7

LEMMA BotTypesSay ==
  ASSUME NEW n, NEW m, BotTypes(n, m), BotInv(n, m) PROVE Bot(n, m)!TypeOK /\ Bot(n, m)!OnePerChat
<1>1. \A t \in Web : handler[t] \in Handlings(n, m)
  BY DEF BotTypes
<1>2. \A t \in Web : handler[t].op \in {"sweep", "attach"} => handler[t].s \in Subs
  BY <1>1, BotRecords
<1> QED BY <1>2, BotsOnFiniteSets DEF Bot!TypeOK, Bot!OnePerChat, BotTypes, BotInv, AttachedOnce, OneByOne, Subscription

-----------------------------------------------------------------------------
(* The scene of a behaviour does not change. *)
LEMMA SceneStays ==
  /\ Spec => [](scene \in Scenes)
  /\ Spec => ([](scene = "payme") \/ []~(scene = "payme"))
  /\ Spec => ([](scene = "one payme") \/ []~(scene = "one payme"))
  /\ Spec => ([](scene = "contracts") \/ []~(scene = "contracts"))
  /\ Spec => ([](scene = "contracts alone") \/ []~(scene = "contracts alone"))
  /\ Spec => ([](scene = "tasks") \/ []~(scene = "tasks"))
  /\ Spec => ([](scene = "one task") \/ []~(scene = "one task"))
  /\ Spec => ([](scene = "levels") \/ []~(scene = "levels"))
  /\ Spec => ([](scene = "addresses") \/ []~(scene = "addresses"))
  /\ Spec => ([](scene = "staff token") \/ []~(scene = "staff token"))
  /\ Spec => ([](scene = "customer token") \/ []~(scene = "customer token"))
  /\ Spec => ([](scene = "bots") \/ []~(scene = "bots"))
  /\ Spec => ([](scene = "one update") \/ []~(scene = "one update"))
<1>1. Init => scene \in Scenes
  BY DEF Init
<1>2. [Next]_vars => scene' = scene
  BY DEF Next, vars
<1>3. scene \in Scenes /\ [Next]_vars => (scene \in Scenes)'
  BY <1>2
<1>4. [Next]_vars =>
        /\ (scene = "payme")' <=> (scene = "payme")
        /\ (scene = "one payme")' <=> (scene = "one payme")
        /\ (scene = "contracts")' <=> (scene = "contracts")
        /\ (scene = "contracts alone")' <=> (scene = "contracts alone")
        /\ (scene = "tasks")' <=> (scene = "tasks")
        /\ (scene = "one task")' <=> (scene = "one task")
        /\ (scene = "levels")' <=> (scene = "levels")
        /\ (scene = "addresses")' <=> (scene = "addresses")
        /\ (scene = "staff token")' <=> (scene = "staff token")
        /\ (scene = "customer token")' <=> (scene = "customer token")
        /\ (scene = "bots")' <=> (scene = "bots")
        /\ (scene = "one update")' <=> (scene = "one update")
  BY <1>2
<1>5. Spec => ([](scene = "payme") \/ []~(scene = "payme"))
  BY <1>4, PTL DEF Spec
<1>6. Spec => ([](scene = "one payme") \/ []~(scene = "one payme"))
  BY <1>4, PTL DEF Spec
<1>7. Spec => ([](scene = "contracts") \/ []~(scene = "contracts"))
  BY <1>4, PTL DEF Spec
<1>8. Spec => ([](scene = "contracts alone") \/ []~(scene = "contracts alone"))
  BY <1>4, PTL DEF Spec
<1>9. Spec => ([](scene = "tasks") \/ []~(scene = "tasks"))
  BY <1>4, PTL DEF Spec
<1>10. Spec => ([](scene = "one task") \/ []~(scene = "one task"))
  BY <1>4, PTL DEF Spec
<1>11. Spec => ([](scene = "levels") \/ []~(scene = "levels"))
  BY <1>4, PTL DEF Spec
<1>12. Spec => ([](scene = "addresses") \/ []~(scene = "addresses"))
  BY <1>4, PTL DEF Spec
<1>13. Spec => ([](scene = "staff token") \/ []~(scene = "staff token"))
  BY <1>4, PTL DEF Spec
<1>14. Spec => ([](scene = "customer token") \/ []~(scene = "customer token"))
  BY <1>4, PTL DEF Spec
<1>15. Spec => ([](scene = "bots") \/ []~(scene = "bots"))
  BY <1>4, PTL DEF Spec
<1>16. Spec => ([](scene = "one update") \/ []~(scene = "one update"))
  BY <1>4, PTL DEF Spec
<1>17. Spec => [](scene \in Scenes)
  BY <1>1, <1>3, PTL DEF Spec
<1> QED BY <1>5, <1>6, <1>7, <1>8, <1>9, <1>10, <1>11, <1>12, <1>13, <1>14, <1>15, <1>16, <1>17

(* In its scene, each component behaves as its specification says. *)
LEMMA PaymeRuns ==
  /\ Spec /\ [](scene = "payme") => PaymeOverlap!Spec
  /\ Spec /\ [](scene = "one payme") => PaymeSerial!Spec
<1>1. Init /\ scene = "payme" => PaymeOverlap!Init
  BY DEF Init
<1>2. scene = "payme" /\ [Next]_vars => [PaymeOverlap!Next]_(PaymeOverlap!vars)
  BY DEF Next, vars, paymeVars, PaymeOverlap!vars, PaymeOverlap!money, PaymeOverlap!env
<1>3. Init /\ scene = "one payme" => PaymeSerial!Init
  BY DEF Init
<1>4. scene = "one payme" /\ [Next]_vars => [PaymeSerial!Next]_(PaymeSerial!vars)
  BY DEF Next, vars, paymeVars, PaymeSerial!vars, PaymeSerial!money, PaymeSerial!env
<1> QED BY <1>1, <1>2, <1>3, <1>4, PTL DEF Spec, PaymeOverlap!Spec, PaymeSerial!Spec

LEMMA ContractsRuns ==
  /\ Spec /\ [](scene = "contracts") => ContractsExported!Spec
  /\ Spec /\ [](scene = "contracts alone") => ContractsAlone!Spec
<1>1. Init /\ scene = "contracts" => ContractsExported!Init
  BY DEF Init
<1>2. scene = "contracts" /\ [Next]_vars => [ContractsExported!Next]_(ContractsExported!vars)
  BY DEF Next, vars, contractVars, ContractsExported!vars, ContractsExported!ghosts, ContractsExported!firms
<1>3. Init /\ scene = "contracts alone" => ContractsAlone!Init
  BY DEF Init
<1>4. scene = "contracts alone" /\ [Next]_vars => [ContractsAlone!Next]_(ContractsAlone!vars)
  BY DEF Next, vars, contractVars, ContractsAlone!vars, ContractsAlone!ghosts, ContractsAlone!firms
<1> QED BY <1>1, <1>2, <1>3, <1>4, PTL DEF Spec, ContractsExported!Spec, ContractsAlone!Spec

LEMMA TasksRuns ==
  /\ Spec /\ [](scene = "tasks") => TasksOverlap!Spec
  /\ Spec /\ [](scene = "one task") => TasksSerial!Spec
<1>1. Init /\ scene = "tasks" => TasksOverlap!Init
  BY DEF Init
<1>2. scene = "tasks" /\ [Next]_vars => [TasksOverlap!Next]_(TasksOverlap!vars)
  BY DEF Next, vars, taskVars, TasksOverlap!vars
<1>3. Init /\ scene = "one task" => TasksSerial!Init
  BY DEF Init
<1>4. scene = "one task" /\ [Next]_vars => [TasksSerial!Next]_(TasksSerial!vars)
  BY DEF Next, vars, taskVars, TasksSerial!vars
<1> QED BY <1>1, <1>2, <1>3, <1>4, PTL DEF Spec, TasksOverlap!Spec, TasksSerial!Spec

LEMMA TreeRuns ==
  /\ Spec /\ [](scene = "levels") => Tree("levels")!Spec
  /\ Spec /\ [](scene = "addresses") => Tree("addresses")!Spec
<1>1. Init /\ scene = "levels" => Tree("levels")!Init
  BY DEF Init
<1>2. scene = "levels" /\ [Next]_vars => [Tree("levels")!Next]_(Tree("levels")!vars)
  BY DEF Next, vars, addressVars, Tree!vars, Tree!table
<1>3. Init /\ scene = "addresses" => Tree("addresses")!Init
  BY DEF Init
<1>4. scene = "addresses" /\ [Next]_vars => [Tree("addresses")!Next]_(Tree("addresses")!vars)
  BY DEF Next, vars, addressVars, Tree!vars, Tree!table
<1> QED BY <1>1, <1>2, <1>3, <1>4, PTL DEF Spec, Tree!Spec

LEMMA TokensRuns ==
  /\ Spec /\ [](scene = "staff token") => TokensOfStaff!Spec
  /\ Spec /\ [](scene = "customer token") => TokensOfCustomer!Spec
<1>1. Init /\ scene = "staff token" => TokensOfStaff!Init
  BY DEF Init
<1>2. scene = "staff token" /\ [Next]_vars => [TokensOfStaff!Next]_(TokensOfStaff!vars)
  BY DEF Next, vars, accountVars, TokensOfStaff!vars
<1>3. Init /\ scene = "customer token" => TokensOfCustomer!Init
  BY DEF Init
<1>4. scene = "customer token" /\ [Next]_vars => [TokensOfCustomer!Next]_(TokensOfCustomer!vars)
  BY DEF Next, vars, accountVars, TokensOfCustomer!vars
<1> QED BY <1>1, <1>2, <1>3, <1>4, PTL DEF Spec, TokensOfStaff!Spec, TokensOfCustomer!Spec

LEMMA BotRuns ==
  /\ Spec /\ [](scene = "bots") => Bot(Together, Updates)!Spec
  /\ Spec /\ [](scene = "one update") => Bot(1, SerialUpdates)!Spec
<1>1. Init /\ scene = "bots" => Bot(Together, Updates)!Init
  BY DEF Init
<1>2. scene = "bots" /\ [Next]_vars => [Bot(Together, Updates)!Next]_(Bot(Together, Updates)!vars)
  BY DEF Next, vars, botVars, Bot!vars
<1>3. Init /\ scene = "one update" => Bot(1, SerialUpdates)!Init
  BY DEF Init
<1>4. scene = "one update" /\ [Next]_vars => [Bot(1, SerialUpdates)!Next]_(Bot(1, SerialUpdates)!vars)
  BY DEF Next, vars, botVars, Bot!vars
<1> QED BY <1>1, <1>2, <1>3, <1>4, PTL DEF Spec, Bot!Spec

(* What the instances with a parameter promise. *)
LEMMA LevelsKeep ==
  Tree("levels")!Spec => []Tree("levels")!TypeOK /\ []Tree("levels")!LevelsFall
<1>1. /\ Tree("levels")!Init => TreeTypes("levels") /\ TreeInv("levels")
      /\ TreeTypes("levels") /\ TreeInv("levels") /\ [Tree("levels")!Next]_(Tree("levels")!vars) => (TreeTypes("levels") /\ TreeInv("levels"))'
      /\ TreeTypes("levels") /\ TreeInv("levels") => Tree("levels")!TypeOK /\ Tree("levels")!LevelsFall
  <2>1. "levels" \in TreeScenes
    BY DEF TreeScenes
  <2> QED BY <2>1, OfficesAssumption, TreeKeeps DEF OfficesAssumption
<1> QED BY <1>1, PTL DEF Tree!Spec

LEMMA AddressesKeep ==
  Tree("addresses")!Spec => []Tree("addresses")!TypeOK /\ []Tree("addresses")!LevelsFall
<1>1. /\ Tree("addresses")!Init => TreeTypes("addresses") /\ TreeInv("addresses")
      /\ TreeTypes("addresses") /\ TreeInv("addresses") /\ [Tree("addresses")!Next]_(Tree("addresses")!vars) => (TreeTypes("addresses") /\ TreeInv("addresses"))'
      /\ TreeTypes("addresses") /\ TreeInv("addresses") => Tree("addresses")!TypeOK /\ Tree("addresses")!LevelsFall
  <2>1. "addresses" \in TreeScenes
    BY DEF TreeScenes
  <2> QED BY <2>1, OfficesAssumption, TreeKeeps DEF OfficesAssumption
<1> QED BY <1>1, PTL DEF Tree!Spec

LEMMA BotsKeepAll ==
  Bot(Together, Updates)!Spec => []Bot(Together, Updates)!TypeOK /\ []Bot(Together, Updates)!OnePerChat /\ [][Bot(Together, Updates)!KeptStep]_(Bot(Together, Updates)!vars)
<1>1. Bot(Together, Updates)!BotAssumption
  BY OfficesAssumption DEF OfficesAssumption
<1>2. Bot(Together, Updates)!Init => BotTypes(Together, Updates) /\ BotInv(Together, Updates)
  BY <1>1, BotsBegin
<1>3. BotTypes(Together, Updates) /\ BotInv(Together, Updates) /\ [Bot(Together, Updates)!Next]_(Bot(Together, Updates)!vars) => (BotTypes(Together, Updates) /\ BotInv(Together, Updates))'
  BY <1>1, BotsStep
<1>4. BotTypes(Together, Updates) /\ BotInv(Together, Updates) => Bot(Together, Updates)!TypeOK /\ Bot(Together, Updates)!OnePerChat
  BY BotTypesSay
<1>5. BotTypes(Together, Updates) /\ BotInv(Together, Updates) /\ [Bot(Together, Updates)!Next]_(Bot(Together, Updates)!vars) => [Bot(Together, Updates)!KeptStep]_(Bot(Together, Updates)!vars)
  BY BotsKeep
<1> QED BY <1>2, <1>3, <1>4, <1>5, PTL DEF Bot!Spec

LEMMA OneUpdateKeeps ==
  Bot(1, SerialUpdates)!Spec => []Bot(1, SerialUpdates)!TypeOK /\ []Bot(1, SerialUpdates)!OnePerChat /\ [][Bot(1, SerialUpdates)!KeptStep]_(Bot(1, SerialUpdates)!vars)
<1>1. Bot(1, SerialUpdates)!BotAssumption
  BY OfficesAssumption DEF OfficesAssumption
<1>2. Bot(1, SerialUpdates)!Init => BotTypes(1, SerialUpdates) /\ BotInv(1, SerialUpdates)
  BY <1>1, BotsBegin
<1>3. BotTypes(1, SerialUpdates) /\ BotInv(1, SerialUpdates) /\ [Bot(1, SerialUpdates)!Next]_(Bot(1, SerialUpdates)!vars) => (BotTypes(1, SerialUpdates) /\ BotInv(1, SerialUpdates))'
  BY <1>1, BotsStep
<1>4. BotTypes(1, SerialUpdates) /\ BotInv(1, SerialUpdates) => Bot(1, SerialUpdates)!TypeOK /\ Bot(1, SerialUpdates)!OnePerChat
  BY BotTypesSay
<1>5. BotTypes(1, SerialUpdates) /\ BotInv(1, SerialUpdates) /\ [Bot(1, SerialUpdates)!Next]_(Bot(1, SerialUpdates)!vars) => [Bot(1, SerialUpdates)!KeptStep]_(Bot(1, SerialUpdates)!vars)
  BY BotsKeep
<1> QED BY <1>2, <1>3, <1>4, <1>5, PTL DEF Bot!Spec

-----------------------------------------------------------------------------
(* The theorems. *)
(* No component leaves its types, in any scene. *)
THEOREM OfficesKeepTypes == Spec => []TypeOK
<1>1. PaymeOverlap!Spec => []PaymeOverlap!TypeOK
  BY OfficesAssumption, PaymeOverlap!PaymeKeepsTypes DEF OfficesAssumption
<1>2. PaymeSerial!Spec => []PaymeSerial!TypeOK
  BY OfficesAssumption, PaymeSerial!PaymeKeepsTypes DEF OfficesAssumption
<1>3. PaymeSerial!TypeOK <=> PaymeOverlap!TypeOK
  BY DEF PaymeSerial!TypeOK, PaymeOverlap!TypeOK, PaymeSerial!TransRecord, PaymeOverlap!TransRecord,
         PaymeSerial!Requests, PaymeOverlap!Requests, PaymeSerial!States, PaymeOverlap!States,
         PaymeSerial!Reasons, PaymeOverlap!Reasons, PaymeSerial!Never, PaymeOverlap!Never, PaymeSerial!Free, PaymeOverlap!Free
<1>4. ContractsExported!Spec => []ContractsExported!TypeOK
  BY OfficesAssumption, ContractsExported!ContractsKeepTypes DEF OfficesAssumption
<1>5. ContractsAlone!Spec => []ContractsAlone!TypeOK
  BY OfficesAssumption, ContractsAlone!ContractsKeepTypes DEF OfficesAssumption
<1>6. TasksOverlap!Spec => []TasksOverlap!TypeOK
  BY OfficesAssumption, TasksOverlap!TasksKeepTypes DEF OfficesAssumption
<1>7. TasksSerial!Spec => []TasksSerial!TypeOK
  BY OfficesAssumption, TasksSerial!TasksKeepTypes DEF OfficesAssumption
<1>8. TokensOfStaff!Spec => []TokensOfStaff!TypeOK
  BY OfficesAssumption, TokensOfStaff!AccessKeepsTypes DEF OfficesAssumption
<1>9. TokensOfCustomer!Spec => []TokensOfCustomer!TypeOK
  BY OfficesAssumption, TokensOfCustomer!AccessKeepsTypes DEF OfficesAssumption
<1>10. Spec => [](scene = "payme" \/ scene = "one payme" => PaymeOverlap!TypeOK)
  BY <1>1, <1>2, <1>3, PaymeRuns, SceneStays, PTL
<1>11. /\ Spec => [](scene = "contracts" => ContractsExported!TypeOK)
       /\ Spec => [](scene = "contracts alone" => ContractsAlone!TypeOK)
  BY <1>4, <1>5, ContractsRuns, SceneStays, PTL
<1>12. /\ Spec => [](scene = "tasks" => TasksOverlap!TypeOK)
       /\ Spec => [](scene = "one task" => TasksSerial!TypeOK)
  BY <1>6, <1>7, TasksRuns, SceneStays, PTL
<1>13. /\ Spec => [](scene = "levels" => Tree("levels")!TypeOK)
       /\ Spec => [](scene = "addresses" => Tree("addresses")!TypeOK)
  BY LevelsKeep, AddressesKeep, TreeRuns, SceneStays, PTL
<1>14. /\ Spec => [](scene = "staff token" => TokensOfStaff!TypeOK)
       /\ Spec => [](scene = "customer token" => TokensOfCustomer!TypeOK)
  BY <1>8, <1>9, TokensRuns, SceneStays, PTL
<1>15. /\ Spec => [](scene = "bots" => Bot(Together, Updates)!TypeOK)
       /\ Spec => [](scene = "one update" => Bot(1, SerialUpdates)!TypeOK /\ Bot(1, SerialUpdates)!OnePerChat)
  BY BotsKeepAll, OneUpdateKeeps, BotRuns, SceneStays, PTL
<1> DEFINE Kept ==
  /\ scene = "payme" \/ scene = "one payme" => PaymeOverlap!TypeOK
  /\ scene = "contracts" => ContractsExported!TypeOK
  /\ scene = "contracts alone" => ContractsAlone!TypeOK
  /\ scene = "tasks" => TasksOverlap!TypeOK
  /\ scene = "one task" => TasksSerial!TypeOK
  /\ scene = "levels" => Tree("levels")!TypeOK
  /\ scene = "addresses" => Tree("addresses")!TypeOK
  /\ scene = "staff token" => TokensOfStaff!TypeOK
  /\ scene = "customer token" => TokensOfCustomer!TypeOK
  /\ scene = "bots" => Bot(Together, Updates)!TypeOK
  /\ scene = "one update" => Bot(1, SerialUpdates)!TypeOK /\ Bot(1, SerialUpdates)!OnePerChat
<1>16. scene \in Scenes /\ Kept => TypeOK
  BY DEF Scenes, TypeOK
<1> QED BY <1>10, <1>11, <1>12, <1>13, <1>14, <1>15, <1>16, SceneStays, PTL

(* Payme: an amount is credited at most as often as requests overlap, and a
   transaction that is performed was credited. *)
THEOREM PerformedAreCredited == Spec => []PerformedIsCredited
<1>1. PaymeOverlap!Spec => []PaymeOverlap!PerformedIsCredited /\ []PaymeOverlap!CreditedInFlight
  BY OfficesAssumption, PaymeOverlap!PerformedMeansCredited, PaymeOverlap!CreditedAtMostInFlight DEF OfficesAssumption
<1>2. PaymeSerial!Spec => []PaymeSerial!PerformedIsCredited /\ []PaymeSerial!CreditedInFlight
  BY OfficesAssumption, PaymeSerial!PerformedMeansCredited, PaymeSerial!CreditedAtMostInFlight DEF OfficesAssumption
<1> QED BY <1>1, <1>2, PaymeRuns, SceneStays, PTL DEF PerformedIsCredited

(* Payme, one request at a time: the log explains the balance. *)
THEOREM BalanceIsExplained == Spec => []BalanceIsLog
<1>1. PaymeSerial!Spec => []PaymeSerial!BalanceIsLog
  BY OfficesAssumption, PaymeSerial!LogIsBalance DEF OfficesAssumption, PaymeSerial!Serial
<1> QED BY <1>1, PaymeRuns, SceneStays, PTL DEF BalanceIsLog

(* Payme, one request at a time, implements PaymentPromise. *)
THEOREM PromiseIsKept == Spec => KeepsPromise
<1>1. PaymeSerial!Spec => PaymeSerial!KeepsPromise
  BY OfficesAssumption, PaymeSerial!PromiseKept DEF OfficesAssumption, PaymeSerial!Serial
<1>2. Init => PaymeSerial!Promise!Init
  <2>1. PaymeOverlap!Init => PaymeSerial!Promise!Init
    BY DEF PaymeOverlap!Init, PaymeSerial!Promise!Init, PaymeOverlap!NoTrans
  <2>2. PaymeSerial!Init => PaymeSerial!Promise!Init
    BY DEF PaymeSerial!Init, PaymeSerial!Promise!Init, PaymeSerial!NoTrans
  <2> QED BY <2>1, <2>2 DEF Init
<1>3. scene = "one payme" /\ [PaymeSerial!Promise!Next]_(PaymeSerial!Promise!vars) =>
        [scene = "one payme" => PaymeSerial!Promise!Next]_(PaymeSerial!Promise!vars)
  OBVIOUS
<1>4. ~(scene = "one payme") => [scene = "one payme" => PaymeSerial!Promise!Next]_(PaymeSerial!Promise!vars)
  OBVIOUS
<1> QED BY <1>1, <1>2, <1>3, <1>4, PaymeRuns, SceneStays, PTL
        DEF Spec, KeepsPromise, PaymeSerial!KeepsPromise, PaymeSerial!Promise!Spec

(* Contracts: a customer whose contract is finished stays off, and one who is on has
   a contract, but for the races and changes the ghosts name. *)
THEOREM FinishedAreOff == Spec => []FinishedIsOff
<1>1. ContractsExported!Spec => []ContractsExported!FinishedIsOff
  BY OfficesAssumption, ContractsExported!FinishedStaysOff DEF OfficesAssumption
<1>2. ContractsAlone!Spec => []ContractsAlone!FinishedIsOff
  BY OfficesAssumption, ContractsAlone!FinishedStaysOff DEF OfficesAssumption
<1> QED BY <1>1, <1>2, ContractsRuns, SceneStays, PTL DEF FinishedIsOff

THEOREM IndividualsHaveContracts == Spec => []IndividualHasContract
<1>1. ContractsExported!Spec => []ContractsExported!IndividualHasContract
  BY OfficesAssumption, ContractsExported!EnabledIsBound DEF OfficesAssumption
<1> QED BY <1>1, ContractsRuns, SceneStays, PTL DEF IndividualHasContract

(* Tasks: the log tells of the state of each task, however requests overlap, and is
   its history when they do not. *)
THEOREM LogsTellStates == Spec => []LogTellsState
<1>1. TasksOverlap!Spec => []TasksOverlap!StateIsLogged
  BY OfficesAssumption, TasksOverlap!StateAlwaysLogged DEF OfficesAssumption
<1>2. TasksSerial!Spec => []TasksSerial!StateIsLogged /\ []TasksSerial!LogIsHistory
  BY OfficesAssumption, TasksSerial!StateAlwaysLogged, TasksSerial!LogTellsHistory DEF OfficesAssumption
<1> QED BY <1>1, <1>2, TasksRuns, SceneStays, PTL DEF LogTellsState

(* Addresses: levels fall on the way up from every row, unless the level of a row on
   the way was changed. *)
THEOREM LevelsAlwaysFall == Spec => []LevelsFall
BY LevelsKeep, TreeRuns, SceneStays, PTL DEF LevelsFall

(* Tokens: an answer that goes by what an account was comes within the time the copy
   lives and two requests take. *)
THEOREM AnswersAlwaysFollow == Spec => AnswersFollow
<1>1. TokensOfStaff!Spec => [][TokensOfStaff!AnswerStep]_(TokensOfStaff!vars)
  BY OfficesAssumption, TokensOfStaff!OldAnswersEnd DEF OfficesAssumption
<1>2. TokensOfCustomer!Spec => [][TokensOfCustomer!AnswerStep]_(TokensOfCustomer!vars)
  BY OfficesAssumption, TokensOfCustomer!OldAnswersEnd DEF OfficesAssumption
<1> DEFINE Step == /\ scene = "staff token" => TokensOfStaff!AnswerStep
                   /\ scene = "customer token" => TokensOfCustomer!AnswerStep
<1>3. [Next]_vars /\ scene = "staff token" /\ [TokensOfStaff!AnswerStep]_(TokensOfStaff!vars) => [Step]_vars
  BY DEF Next, vars, accountVars, TokensOfStaff!vars
<1>4. [Next]_vars /\ scene = "customer token" /\ [TokensOfCustomer!AnswerStep]_(TokensOfCustomer!vars) => [Step]_vars
  BY DEF Next, vars, accountVars, TokensOfCustomer!vars
<1>5. ~(scene = "staff token") /\ ~(scene = "customer token") => [Step]_vars
  OBVIOUS
<1>6. Spec => [][Step]_vars
  <2> HIDE DEF Step
  <2> QED BY <1>1, <1>2, <1>3, <1>4, <1>5, TokensRuns, SceneStays, PTL DEF Spec
<1> QED BY <1>6 DEF AnswersFollow

(* Bots: a subscription ends by its own chat, unless some chat had two. *)
THEOREM SubscriptionsStay == Spec => SubscriptionsAreKept
<1> DEFINE Step == (scene \in {"bots", "one update"}) => Bot(Together, Updates)!KeptStep
<1>1. Bot(1, SerialUpdates)!KeptStep => Bot(Together, Updates)!KeptStep
  BY DEF Bot!KeptStep, Bot!Rows, Bot!NoSub
<1>2. [Next]_vars /\ scene = "bots" /\ [Bot(Together, Updates)!KeptStep]_(Bot(Together, Updates)!vars) => [Step]_vars
  BY DEF Next, vars, botVars, Bot!vars
<1>3. [Next]_vars /\ scene = "one update" /\ [Bot(1, SerialUpdates)!KeptStep]_(Bot(1, SerialUpdates)!vars) => [Step]_vars
  BY <1>1 DEF Next, vars, botVars, Bot!vars
<1>4. ~(scene = "bots") /\ ~(scene = "one update") => [Step]_vars
  OBVIOUS
<1>5. Spec => [][Step]_vars
  <2> HIDE DEF Step
  <2> QED BY <1>2, <1>3, <1>4, BotRuns, BotsKeepAll, OneUpdateKeeps, SceneStays, PTL DEF Spec
<1> QED BY <1>5 DEF SubscriptionsAreKept
=============================================================================
