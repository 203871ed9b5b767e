---------------------------- MODULE MCIdempotency ----------------------------
(* Instances of PaymentRequests: bodies b1 and b2 differ only in what the    *)
(* fingerprint ignores, a currency left out or in lower case; all requests   *)
(* are those of one merchant.                                                *)
EXTENDS PaymentRequests, TLC

CONSTANTS b1, b2, b3, f1, f2

TwoPrints == [b \in Bodies |-> IF b = b3 THEN f2 ELSE f1]
OneMerchant == [r \in Requests |-> 1]

Symmetry == Permutations(Requests) \cup Permutations(Keys)
=============================================================================
