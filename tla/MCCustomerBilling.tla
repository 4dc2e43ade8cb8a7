------------------------- MODULE MCCustomerBilling -------------------------
(* Small instances of CustomerBilling.  Months have 3 ticks; "mon" is a      *)
(* monthly service whose unused part is refunded, "day" a daily one, "gift"  *)
(* one that only staff connect.                                              *)
EXTENDS CustomerBilling, TLC

CONSTANTS c1, c2, mon, day, gift, p1, p2, d1, id1, id2, w1, w2, k1, k2

MCCost == [s \in Services |-> IF s = mon THEN 3 ELSE IF s = day THEN 2 ELSE 1]
MCKind == [s \in Services |-> IF s = mon THEN "Default" ELSE IF s = day THEN "Daily" ELSE "Cp"]
MCPPOwner   == [p \in PPays |-> c1]
PPOwnerEach == [p \in PPays |-> IF p = p1 THEN c1 ELSE c2]
MCPPAmount  == [p \in PPays |-> IF p = p1 THEN 1 ELSE 2]
MCDebtCost  == [d \in Debts |-> 2]
MCPayFor    == [id \in PayIds |-> c1]
MCPayAmount == [id \in PayIds |-> IF id = id1 THEN 3 ELSE 4]
CreditAndCharge == {2, -1}
WebSymmetry == Permutations(Web)
=============================================================================
