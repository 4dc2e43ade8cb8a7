----------------------------- MODULE MCExports -----------------------------
(* The constants of Exports, and what its small instances do not tell apart. *)
EXTENDS Exports, TLC

CONSTANTS pay1, pay2, c1, c2,       \* payments of customers
          s1, s2, g1, p1, n1, n2,   \* switches, a gateway, a pool, its leases
          l1, l2                    \* legal entities

MCPayer      == (pay1 :> c1 @@ pay2 :> c2)
MCPayRuns    == ("payments" :> 2 @@ "one payment run" :> 3)
MCPayFull    == ("payments" :> 2 @@ "one payment run" :> 2)
MCPayFaults  == ("payments" :> 1 @@ "one payment run" :> 2)
MCPayToggles == ("payments" :> 1 @@ "one payment run" :> 2)

MCAaaFaults  == ("accounting" :> 1 @@ "one accounting task" :> 2)

MCObjects == ("switches" :> {s1, s2} @@ "other events" :> {g1, p1, n1, n2})
MCKind ==
  ("switches" :> (s1 :> "switch" @@ s2 :> "switch")
   @@ "other events" :> (g1 :> "gateway" @@ p1 :> "pool" @@ n1 :> "lease" @@ n2 :> "lease"))
MCEventSeconds == ("switches" :> 3 @@ "other events" :> 2)

(* One of any kind who is changed meanwhile, and two who are not, told apart by
   what the command depends on. *)
MCSubjects == [roots |-> {c1}, complete |-> {c1, c2}, still |-> {c1}]
MCLegals   == [roots |-> {l1, l2}, complete |-> {l1}, still |-> {}]
MCStart ==
  [roots |->
     [active : BOOLEAN, contracts : {"none", "ended", "one", "two"},
      legals : SUBSET {l1, l2}, address : {"none", "loose", "street", "house"},
      passport : BOOLEAN, static : BOOLEAN, service : BOOLEAN],
   complete |->
     [active : BOOLEAN, contracts : {"none", "ended", "one", "two"},
      legals : SUBSET {l1}, address : {"none", "street", "house"},
      passport : BOOLEAN, static : {TRUE}, service : {TRUE}],
   still |->
     {[active |-> TRUE, contracts |-> "one", legals |-> {}, address |-> "house",
       passport |-> TRUE, static |-> TRUE, service |-> TRUE]}]
MCCommandChanges == [roots |-> 1, complete |-> 0, still |-> 0]
MCCommandFaults  == [roots |-> 1, complete |-> 0, still |-> 0]

Symmetry == Permutations(Workers)
=============================================================================
