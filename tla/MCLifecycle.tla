----------------------------- MODULE MCLifecycle -----------------------------
(* Instances of PaymentLifecycle: a debit and a credit, two credits of one  *)
(* account, two payments of one business date.                              *)
EXTENDS PaymentLifecycle, TLC

CONSTANTS p1, p2, m1, d1, d2

OneMerchant == [p \in Payments |-> m1]
SameDay == [p \in Payments |-> d1]
OwnDay == [p \in Payments |-> IF p = p2 THEN d2 ELSE d1]
Credits == [p \in Payments |-> "CREDIT"]
DebitAndCredit == [p \in Payments |-> IF p = p2 THEN "CREDIT" ELSE "DEBIT"]
Unit == [p \in Payments |-> 1]
One == [m \in Merchants |-> 1]
Two == [m \in Merchants |-> 2]

Symmetry == Permutations(Callers)

(* Two payments that differ only in their dates are exchanged with them. *)
Exchange == p1 :> p2 @@ p2 :> p1 @@ d1 :> d2 @@ d2 :> d1
SymmetryOfDates == Symmetry \cup {Exchange}
=============================================================================
