------------------------------ MODULE MCOutbox ------------------------------
(* Instances of Outbox: a PAYMENT_RECEIVED event beside a lifecycle event, *)
(* one or two workers.                                                      *)
EXTENDS Outbox, TLC

Symmetry == Permutations(Workers)
=============================================================================
