---------------------------- MODULE AccountBook ----------------------------
(***************************************************************************)
(* What the billing core promises about one account when nothing overlaps: *)
(* the balance and the log move together, connecting a service costs its   *)
(* price, ending one gives back at most its price, and the periodic task   *)
(* ends expired services without touching money.                           *)
(***************************************************************************)
EXTENDS Integers

CONSTANTS Customers, Services, NoService, Cost

VARIABLES
  money,   \* the balance of each customer
  booked,  \* the sum of the customer's log lines
  plan     \* the service connected, or NoService

book == <<money, booked, plan>>

Init ==
  /\ money \in [Customers -> Int]
  /\ booked = money
  /\ plan = [c \in Customers |-> NoService]

Move(c, d) ==
  /\ money' = [money EXCEPT ![c] = @ + d]
  /\ booked' = [booked EXCEPT ![c] = @ + d]

(* Any line of the log: a top-up, a payment, a renewal, a charge. *)
Entry(c) ==
  /\ Move(c, money'[c] - money[c])
  /\ UNCHANGED plan

Connect(c, s) ==
  /\ plan[c] = NoService
  /\ plan' = [plan EXCEPT ![c] = s]
  /\ Move(c, -Cost[s])

End(c) ==
  /\ plan[c] # NoService
  /\ plan' = [plan EXCEPT ![c] = NoService]
  /\ \E refund \in 0..Cost[plan[c]] : Move(c, refund)

Expire(C) ==
  /\ plan' = [c \in Customers |-> IF c \in C THEN NoService ELSE plan[c]]
  /\ UNCHANGED <<money, booked>>

Next ==
  \/ \E c \in Customers : \/ Entry(c)
                          \/ End(c)
                          \/ \E s \in Services : Connect(c, s)
  \/ \E C \in SUBSET Customers : Expire(C)

Spec == Init /\ [][Next]_book

=============================================================================
