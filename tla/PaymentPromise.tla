--------------------------- MODULE PaymentPromise ---------------------------
(***************************************************************************)
(* What djing2 promises a payment system that works with transactions:     *)
(* a transaction is started once, then performed or cancelled once and for *)
(* all, its amount is credited when it is performed and never otherwise,   *)
(* and an answer says what the transaction is at that moment.  Payme       *)
(* implements it when requests are served one at a time.                   *)
(***************************************************************************)
EXTENDS Naturals

CONSTANT Transactions

VARIABLES
  state,     \* state of a transaction
  credited,  \* how often its amount was credited
  told       \* <<t, s>>: an answer said that t is in state s

vars == <<state, credited, told>>

Init ==
  /\ state = [t \in Transactions |-> "none"]
  /\ credited = [t \in Transactions |-> 0]
  /\ told = {}

(* An answer, if one is given in this step, speaks of the new state. *)
MayAnswer(t) == told' \in {told, told \cup {<<t, state'[t]>>}}

Start(t) ==
  /\ state[t] = "none"
  /\ state' = [state EXCEPT ![t] = "start"]
  /\ MayAnswer(t)
  /\ UNCHANGED credited

Perform(t) ==
  /\ state[t] = "start"
  /\ state' = [state EXCEPT ![t] = "performed"]
  /\ credited' = [credited EXCEPT ![t] = @ + 1]
  /\ MayAnswer(t)

Cancel(t) ==
  /\ state[t] = "start"
  /\ state' = [state EXCEPT ![t] = "cancelled"]
  /\ MayAnswer(t)
  /\ UNCHANGED credited

Answer(t) ==
  /\ state[t] # "none"
  /\ UNCHANGED <<state, credited>>
  /\ MayAnswer(t)

Next == \E t \in Transactions : Start(t) \/ Perform(t) \/ Cancel(t) \/ Answer(t)

Spec == Init /\ [][Next]_vars
=============================================================================
