----------------------------- MODULE MCDelivery ------------------------------
(***************************************************************************)
(* Two deployments of WebhookDelivery, chosen in the initial state: one    *)
(* worker whose batches hold two deliveries, and two workers whose claims  *)
(* of a single delivery overlap.                                           *)
(***************************************************************************)
EXTENDS WebhookDelivery

CONSTANTS Replicas, ReplicaFaults, ReplicaShutdowns, Single

VARIABLE deployment

Replicated == INSTANCE WebhookDelivery
                WITH Workers <- Replicas, MaxFaults <- ReplicaFaults,
                     MaxShutdowns <- ReplicaShutdowns

MCInit ==
  \/ deployment = "one" /\ Init
  \/ deployment = "replicated" /\ Replicated!Init

MCNext ==
  /\ UNCHANGED deployment
  /\ \/ deployment = "one" /\ Next
     \/ /\ deployment = "replicated"
        /\ Replicated!Next
        /\ \A d \in Deliveries \ {Single} : status'[d] = "ABSENT"

One(A) == deployment = "one" /\ A
Many(A) == deployment = "replicated" /\ A

MCFairness ==
  /\ \A w \in Workers : WF_vars(One(Poll(w)))
  /\ \A b \in Batches, d \in Deliveries : WF_vars(One(Process(b, d)))
  /\ \A w \in Replicas : WF_vars(Many(Replicated!Poll(w)))
  /\ \A b \in Replicated!Batches : WF_vars(Many(Replicated!Process(b, Single)))
  /\ \A d \in Deliveries : WF_vars(BackoffElapses(d)) /\ WF_vars(ClaimTimesOut(d))

MCSpec == MCInit /\ [][MCNext]_<<vars, deployment>> /\ MCFairness
=============================================================================
