----------------------------- MODULE MCOffices -----------------------------
(* The constants of Offices, and what its small instances do not tell apart.  The
   modules without a state are checked by the assumptions of MCForms. *)
EXTENDS Offices, TLC, MCForms

CONSTANTS t1, t2,   \* transactions
          h1, h2, p1  \* chats and an account

(* Three addresses of a kind, and two of several; the title of one is asked for. *)
MCAddrs  == [levels |-> {1, 2, 3}, addresses |-> {1, 2}]
MCTypes  == [levels |-> {1},       addresses |-> {1, 2}]
MCKinds  == [levels |-> {"plain"}, addresses |-> {"street", "other"}]
MCAsked  == [levels |-> {},        addresses |-> {1}]
MCWrites == [levels |-> 4,         addresses |-> 3]

(* Two payments of different amounts; two chats have one telephone. *)
MCAmount == (t1 :> 1 @@ t2 :> 2)
MCPhone  == (h1 :> p1 @@ h2 :> p1)

Symmetry == Permutations(Web)
=============================================================================
