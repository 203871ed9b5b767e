------------------------------- MODULE MCPortal -------------------------------
(* The pages of the portal for TLC: four lists of at most three rows, two   *)
(* endpoints, two merchants, and two requests at a time.                    *)
EXTENDS Portal, TLC

CONSTANTS p1, p2, e1, t1, c1, c2, h1, m1, m2, pay

Clicks == [payments |-> 2, ledger |-> 2, files |-> 2, deliveries |-> 1]
Texts == {Endpoints}
Faults == [payments |-> 0, ledger |-> 1, files |-> 1, deliveries |-> 1]
Opened == {b \in [Rows -> 0..2] : {b[1], b[2]} \in {{1}, {1, 2}} /\ b[3] = 0}
Amounts == [r \in Rows |-> (2 * r) % 3]

Symmetry == Permutations(Endpoints) \cup Permutations(Callers)
=============================================================================
