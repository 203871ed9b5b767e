--------------------------- MODULE WebhookDelivery ---------------------------
(***************************************************************************)
(* The delivery processor: workers that claim due deliveries, and those    *)
(* whose claim is stale, send all of a batch at once and record each       *)
(* outcome by the id of its row alone, on the attempt count they claimed   *)
(* it with.  That a delivery finds its endpoint is shown of                *)
(* WebhookEndpoints; whether the endpoint is active may change at any time,*)
(* so that every read of it may find either.                               *)
(***************************************************************************)
EXTENDS Integers, FiniteSets

CONSTANTS
  Deliveries,    \* WebhookDelivery rows
  Workers,       \* worker processes
  MaxAttempts,   \* WEBHOOK_MAX_ATTEMPTS
  BatchSize,     \* WEBHOOK_BATCH_SIZE
  MaxFaults,     \* bound on crashes and on failed calls to the database
  MaxShutdowns   \* bound on graceful shutdowns

ASSUME DeliveryAssumption ==
  /\ IsFiniteSet(Deliveries) /\ IsFiniteSet(Workers)
  /\ MaxAttempts \in Nat \ {0}
  /\ BatchSize \in Nat \ {0}
  /\ MaxFaults \in Nat /\ MaxShutdowns \in Nat

VARIABLES
  status,        \* WebhookDelivery.status, "ABSENT" before the row exists
  attemptCount,  \* WebhookDelivery.attemptCount
  due,           \* the PENDING deliveries whose nextAttemptAt has come
  stale,         \* the PROCESSING deliveries claimed too long ago
  accepted,      \* the deliveries their endpoint has answered with success
  refused,       \* those it has answered with an error that is not retried
  mode,          \* what the poll loop of a worker is doing
  batch,         \* the number of the batch that the poll loop of w awaits
  task,          \* task[b][d]: how far batch b has come with delivery d
  claimedCount,  \* claimedCount[b][d]: attemptCount in the row that b claimed
  faults,        \* crashes and failed calls so far
  shutdowns      \* graceful shutdowns so far

rows     == <<status, attemptCount, due, stale>>
receiver == <<accepted, refused>>
local    == <<mode, batch, task, claimedCount>>
bounds   == <<faults, shutdowns>>
vars     == <<rows, receiver, local, bounds>>

Status == {"ABSENT", "PENDING", "PROCESSING", "DELIVERED", "FAILED"}
Mode == {"idle", "busy", "stopping", "down"}
Stage == {"none", "ready", "sending", "success", "refused", "retry"}

(* The batches of the workers.  One that is rejected is no longer awaited   *)
(* and goes on beside the next, at most once for every fault.               *)
Numbers == 1..(MaxFaults + 1)
Batches == Workers \X Numbers
Current(w) == <<w, batch[w]>>

Tasks(b) == {d \in Deliveries : task[b][d] # "none"}

TypeOK ==
  /\ status \in [Deliveries -> Status]
  /\ attemptCount \in [Deliveries -> Nat]
  /\ due \subseteq {d \in Deliveries : status[d] = "PENDING"}
  /\ stale \subseteq {d \in Deliveries : status[d] = "PROCESSING"}
  /\ accepted \subseteq Deliveries
  /\ refused \subseteq Deliveries
  /\ mode \in [Workers -> Mode]
  /\ batch \in [Workers -> Numbers]
  /\ task \in [Batches -> [Deliveries -> Stage]]
  /\ claimedCount \in [Batches -> [Deliveries -> Nat]]
  /\ faults \in 0..MaxFaults
  /\ shutdowns \in 0..MaxShutdowns
  /\ \A w \in Workers : batch[w] <= faults + 1

NoTask == [d \in Deliveries |-> "none"]
NoCount == [d \in Deliveries |-> 0]

Init ==
  /\ status = [d \in Deliveries |-> "ABSENT"]
  /\ attemptCount = [d \in Deliveries |-> 0]
  /\ due = {}
  /\ stale = {}
  /\ accepted = {}
  /\ refused = {}
  /\ mode = [w \in Workers |-> "idle"]
  /\ batch = [w \in Workers |-> 1]
  /\ task = [b \in Batches |-> NoTask]
  /\ claimedCount = [b \in Batches |-> NoCount]
  /\ faults = 0
  /\ shutdowns = 0

-----------------------------------------------------------------------------
(* The rows, the endpoints and the time. *)

Materialize(d) ==
  /\ status[d] = "ABSENT"
  /\ status' = [status EXCEPT ![d] = "PENDING"]
  /\ due' = due \cup {d}
  /\ UNCHANGED <<attemptCount, stale, receiver, local, bounds>>

BackoffElapses(d) ==
  /\ status[d] = "PENDING" /\ d \notin due
  /\ due' = due \cup {d}
  /\ UNCHANGED <<status, attemptCount, stale, receiver, local, bounds>>

ClaimTimesOut(d) ==
  /\ status[d] = "PROCESSING" /\ d \notin stale
  /\ stale' = stale \cup {d}
  /\ UNCHANGED <<status, attemptCount, due, receiver, local, bounds>>

-----------------------------------------------------------------------------
(* The poll. *)

(* Mutation: stale claims are not taken over. *)
Claimable_PendingOnly == due

Claimable == due \cup stale

(* The first BatchSize claimable deliveries; which these are is left open. *)
Claims == {c \in SUBSET Claimable \ {{}} :
  IF Cardinality(Claimable) <= BatchSize THEN c = Claimable ELSE Cardinality(c) = BatchSize}

TakeRows(claimed) ==
  /\ status' = [d \in Deliveries |-> IF d \in claimed THEN "PROCESSING" ELSE status[d]]
  /\ due' = due \ claimed
  /\ stale' = stale \ claimed
  /\ UNCHANGED attemptCount

Claim(w) == \E claimed \in Claims :
  /\ mode[w] = "idle"
  /\ TakeRows(claimed)
  /\ mode' = [mode EXCEPT ![w] = "busy"]
  /\ task' = [task EXCEPT ![Current(w)] =
       [d \in Deliveries |-> IF d \in claimed THEN "ready" ELSE "none"]]
  /\ claimedCount' = [claimedCount EXCEPT ![Current(w)] =
       [d \in Deliveries |-> IF d \in claimed THEN attemptCount[d] ELSE 0]]
  /\ UNCHANGED <<receiver, batch, bounds>>

(* A process that stops takes all its tasks with it. *)
Forgets(w) ==
  /\ mode' = [mode EXCEPT ![w] = "down"]
  /\ batch' = [batch EXCEPT ![w] = 1]
  /\ task' = [b \in Batches |-> IF b[1] = w THEN NoTask ELSE task[b]]
  /\ claimedCount' = [b \in Batches |-> IF b[1] = w THEN NoCount ELSE claimedCount[b]]

(* The batch settles; a worker that was told to stop stops. *)
BatchEnds(w) ==
  /\ Tasks(Current(w)) = {}
  /\ \/ /\ mode[w] = "busy"
        /\ mode' = [mode EXCEPT ![w] = "idle"]
        /\ UNCHANGED <<batch, task, claimedCount>>
     \/ mode[w] = "stopping" /\ Forgets(w)
  /\ UNCHANGED <<rows, receiver, bounds>>

-----------------------------------------------------------------------------
(* process: each delivery of a batch concurrently. *)

GoesTo(b, d, stage) == task' = [task EXCEPT ![b][d] = stage]

(* The endpoint is read; a disabled one is a failure to be retried. *)
ReadEndpoint(b, d) ==
  /\ task[b][d] = "ready"
  /\ GoesTo(b, d, "sending") \/ GoesTo(b, d, "retry")
  /\ UNCHANGED <<rows, receiver, mode, batch, claimedCount, bounds>>

(* Mutation: any answer is a success. *)
Answer_AnyStatus(b, d) ==
  /\ task[b][d] = "sending"
  /\ GoesTo(b, d, "success")
  /\ refused' = refused \cup {d}
  /\ UNCHANGED <<rows, accepted, mode, batch, claimedCount, bounds>>

(* The endpoint answers, and the answer arrives or not. *)
Answer(b, d) ==
  /\ task[b][d] = "sending"
  /\ \/ /\ accepted' = accepted \cup {d}
        /\ GoesTo(b, d, "success") \/ GoesTo(b, d, "retry")
        /\ UNCHANGED refused
     \/ /\ refused' = refused \cup {d}
        /\ GoesTo(b, d, "refused")
        /\ UNCHANGED accepted
     \/ /\ GoesTo(b, d, "retry")
        /\ UNCHANGED <<accepted, refused>>
  /\ UNCHANGED <<rows, mode, batch, claimedCount, bounds>>

(* An update by id that increments the count and clears the claim. *)
RecordOutcome(d, new) ==
  /\ status' = [status EXCEPT ![d] = new]
  /\ attemptCount' = [attemptCount EXCEPT ![d] = @ + 1]
  /\ due' = due \ {d}
  /\ stale' = stale \ {d}

(* Mutation: the last attempt is not made. *)
AfterFailure_OffByOne(b, d) ==
  IF task[b][d] = "retry" /\ claimedCount[b][d] + 2 < MaxAttempts THEN "PENDING" ELSE "FAILED"

(* Whether attempts are left is judged by the row as it was claimed. *)
AfterFailure(b, d) ==
  IF task[b][d] = "retry" /\ claimedCount[b][d] + 1 < MaxAttempts THEN "PENDING" ELSE "FAILED"

Ends(b, d) ==
  /\ GoesTo(b, d, "none")
  /\ claimedCount' = [claimedCount EXCEPT ![b][d] = 0]

Complete(b, d) ==
  /\ task[b][d] = "success"
  /\ RecordOutcome(d, "DELIVERED")
  /\ Ends(b, d)
  /\ UNCHANGED <<receiver, mode, batch, bounds>>

(* complete() throws, its update done or not: caught as a network error. *)
CompleteThrows(b, d) ==
  /\ faults < MaxFaults
  /\ faults' = faults + 1
  /\ task[b][d] = "success"
  /\ RecordOutcome(d, "DELIVERED") \/ UNCHANGED rows
  /\ GoesTo(b, d, "retry")
  /\ UNCHANGED <<receiver, mode, batch, claimedCount, shutdowns>>

Fail(b, d) ==
  /\ task[b][d] \in {"refused", "retry"}
  /\ RecordOutcome(d, AfterFailure(b, d))
  /\ Ends(b, d)
  /\ UNCHANGED <<receiver, mode, batch, bounds>>

(* fail() throws, its update done or not: Promise.all rejects, and the      *)
(* other tasks of the batch go on without the poll loop.                    *)
FailThrows(b, d) ==
  /\ faults < MaxFaults
  /\ faults' = faults + 1
  /\ task[b][d] \in {"refused", "retry"}
  /\ RecordOutcome(d, AfterFailure(b, d)) \/ UNCHANGED rows
  /\ Ends(b, d)
  /\ batch' = [batch EXCEPT ![b[1]] =
       IF b = Current(b[1]) /\ Tasks(b) # {d} THEN @ + 1 ELSE @]
  /\ UNCHANGED <<receiver, mode, shutdowns>>

-----------------------------------------------------------------------------
(* Crashes and shutdowns. *)

Crash(w) ==
  /\ faults < MaxFaults
  /\ faults' = faults + 1
  /\ mode[w] # "down"
  /\ Forgets(w)
  /\ UNCHANGED <<rows, receiver, shutdowns>>

(* The claim commits and its result is lost. *)
ClaimLost(w) == \E claimed \in Claims :
  /\ faults < MaxFaults
  /\ faults' = faults + 1
  /\ mode[w] = "idle"
  /\ TakeRows(claimed)
  /\ UNCHANGED <<receiver, local, shutdowns>>

(* onApplicationShutdown: the active batch is awaited. *)
Shutdown(w) ==
  /\ shutdowns < MaxShutdowns
  /\ shutdowns' = shutdowns + 1
  /\ \/ mode[w] = "idle" /\ Forgets(w)
     \/ /\ mode[w] = "busy"
        /\ mode' = [mode EXCEPT ![w] = "stopping"]
        /\ UNCHANGED <<batch, task, claimedCount>>
  /\ UNCHANGED <<rows, receiver, faults>>

Start(w) ==
  /\ mode[w] = "down"
  /\ mode' = [mode EXCEPT ![w] = "idle"]
  /\ UNCHANGED <<rows, receiver, batch, task, claimedCount, bounds>>

-----------------------------------------------------------------------------
Poll(w) == Claim(w) \/ BatchEnds(w) \/ Start(w)

Process(b, d) ==
  ReadEndpoint(b, d) \/ Answer(b, d) \/ Complete(b, d) \/ Fail(b, d)

Next ==
  \/ \E d \in Deliveries :
       Materialize(d) \/ BackoffElapses(d) \/ ClaimTimesOut(d)
  \/ \E w \in Workers : Poll(w) \/ Crash(w) \/ ClaimLost(w) \/ Shutdown(w)
  \/ \E b \in Batches, d \in Deliveries :
       Process(b, d) \/ CompleteThrows(b, d) \/ FailThrows(b, d)

(* Processes run and are restarted, requests time out, time passes.         *)
Fairness ==
  /\ \A w \in Workers : WF_vars(Poll(w))
  /\ \A b \in Batches, d \in Deliveries : WF_vars(Process(b, d))
  /\ \A d \in Deliveries : WF_vars(BackoffElapses(d)) /\ WF_vars(ClaimTimesOut(d))

Spec == Init /\ [][Next]_vars
FairSpec == Spec /\ Fairness

-----------------------------------------------------------------------------
(* Properties. *)

(* A delivery is DELIVERED only if its endpoint has answered with success.  *)
DeliveredIsAccepted == \A d \in Deliveries :
  status[d] = "DELIVERED" => d \in accepted

(* A delivery is given up only if its endpoint has refused it or all its    *)
(* attempts were made, although outcomes are judged by the row as it was    *)
(* claimed and several workers may count attempts of one row.               *)
GivenUpExhausted == \A d \in Deliveries :
  status[d] = "FAILED" => d \in refused \/ attemptCount[d] >= MaxAttempts

(* A graceful shutdown abandons no claim: without faults a claimed delivery *)
(* is always in the hands of a worker.                                      *)
NothingAbandoned ==
  faults = 0 => \A d \in Deliveries : status[d] = "PROCESSING" =>
                  \E b \in Batches : task[b][d] # "none"

(* Every delivery is DELIVERED or FAILED in the end, and then stays so,     *)
(* although a late outcome may reopen it.                                   *)
EveryDeliveryEnds == \A d \in Deliveries :
  status[d] # "ABSENT" ~> [](status[d] \in {"DELIVERED", "FAILED"})
=============================================================================
