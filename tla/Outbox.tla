------------------------------- MODULE Outbox --------------------------------
(***************************************************************************)
(* The transactional outbox: worker processes that poll the OutboxEvent    *)
(* table, claim a batch under FOR UPDATE SKIP LOCKED, handle its events    *)
(* one after the other and record the outcome.  A claim carries a lease;   *)
(* whatever ends a lease, the next poll of any worker recovers the event.  *)
(*                                                                         *)
(* Nothing ties an outcome to the claim that led to it: markProcessed and  *)
(* markFailed look at the status only, and the validation of a payment     *)
(* completes its PAYMENT_RECEIVED event inside its own transaction.        *)
(***************************************************************************)
EXTENDS Integers, FiniteSets

CONSTANTS
  Events,        \* OutboxEvent rows
  Received,      \* those of type PAYMENT_RECEIVED
  Workers,       \* worker processes
  MaxAttempts,   \* OUTBOX_MAX_ATTEMPTS
  BatchSize,     \* OUTBOX_BATCH_SIZE
  MaxFaults,     \* bound on crashes and on failed calls to the database
  MaxShutdowns,  \* bound on graceful shutdowns
  NoEvent        \* the null value of the event at hand

ASSUME OutboxAssumption ==
  /\ IsFiniteSet(Events) /\ Received \subseteq Events
  /\ IsFiniteSet(Workers)
  /\ MaxAttempts \in Nat \ {0}
  /\ BatchSize \in Nat \ {0}
  /\ MaxFaults \in Nat
  /\ MaxShutdowns \in Nat
  /\ NoEvent \notin Events

VARIABLES
  status,        \* OutboxEvent.status, "ABSENT" before the row exists
  attempts,      \* OutboxEvent.attempts
  due,           \* the PENDING events whose availableAt has come
  expired,       \* the PROCESSING events whose claimedAt is past the lease
  decided,       \* the Received events whose payment has left RECEIVED
  materialized,  \* the events whose webhook deliveries exist
  step,          \* what a worker is doing
  held,          \* held[w][e]: attempts of the claimed row w holds, or 0
  current,       \* the event a worker has at hand
  stopping,      \* the workers with acceptingPolls = false
  faults,        \* crashes and failed calls so far
  shutdowns      \* graceful shutdowns so far

rows   == <<status, attempts, due, expired>>
effect == <<decided, materialized>>
local  == <<step, held, current, stopping>>
bounds == <<faults, shutdowns>>
vars   == <<rows, effect, local, bounds>>

OutboxStatus == {"ABSENT", "PENDING", "PROCESSING", "PROCESSED", "FAILED"}
Step == {"down", "waiting", "claiming", "next", "validating", "materializing",
         "done", "failing"}

TypeOK ==
  /\ status \in [Events -> OutboxStatus]
  /\ attempts \in [Events -> Nat]
  /\ due \subseteq {e \in Events : status[e] = "PENDING"}
  /\ expired \subseteq {e \in Events : status[e] = "PROCESSING"}
  /\ decided \subseteq Received
  /\ materialized \subseteq Events
  /\ step \in [Workers -> Step]
  /\ held \in [Workers -> [Events -> Nat]]
  /\ current \in [Workers -> Events \cup {NoEvent}]
  /\ stopping \subseteq Workers
  /\ faults \in 0..MaxFaults
  /\ shutdowns \in 0..MaxShutdowns
  /\ \A w \in Workers :
       /\ step[w] \in {"validating", "materializing", "done", "failing"}
            => current[w] \in Events /\ held[w][current[w]] > 0
       /\ step[w] = "validating" => current[w] \in Received

Nothing == [e \in Events |-> 0]

Init ==
  /\ status = [e \in Events |-> "ABSENT"]
  /\ attempts = [e \in Events |-> 0]
  /\ due = {}
  /\ expired = {}
  /\ decided = {}
  /\ materialized = {}
  /\ step = [w \in Workers |-> "waiting"]
  /\ held = [w \in Workers |-> Nothing]
  /\ current = [w \in Workers |-> NoEvent]
  /\ stopping = {}
  /\ faults = 0
  /\ shutdowns = 0

Goes(w, next) == step' = [step EXCEPT ![w] = next]
Holds(w) == {e \in Events : held[w][e] > 0}

-----------------------------------------------------------------------------
(* The rows, and what changes them without a worker. *)

(* A domain transaction commits with its event, available at once. *)
Append(e) ==
  /\ status[e] = "ABSENT"
  /\ status' = [status EXCEPT ![e] = "PENDING"]
  /\ due' = due \cup {e}
  /\ UNCHANGED <<attempts, expired, effect, local, bounds>>

(* The API validates the payment itself. *)
DecidedByApi(e) ==
  /\ e \in Received \ decided
  /\ status[e] # "ABSENT"
  /\ decided' = decided \cup {e}
  /\ UNCHANGED <<rows, materialized, local, bounds>>

(* Time passes: the delay of a retry, the lease of a claim. *)
BackoffElapses(e) ==
  /\ status[e] = "PENDING"
  /\ e \notin due
  /\ due' = due \cup {e}
  /\ UNCHANGED <<status, attempts, expired, effect, local, bounds>>

LeaseExpires(e) ==
  /\ status[e] = "PROCESSING"
  /\ e \notin expired
  /\ expired' = expired \cup {e}
  /\ UNCHANGED <<status, attempts, due, effect, local, bounds>>

(* Mutation: the outcome is written whatever became of the claim. *)
UpdateClaimedEvent_Unguarded(e, new) ==
  /\ status' = [status EXCEPT ![e] = new]
  /\ expired' = expired \ {e}

(* updateClaimedEvent: a conditional update that may update nothing. *)
UpdateClaimedEvent(e, new) ==
  /\ status' = [status EXCEPT ![e] = IF @ = "PROCESSING" THEN new ELSE @]
  /\ expired' = expired \ {e}

-----------------------------------------------------------------------------
(* processOnce: recover, claim, then handle the batch. *)

(* Mutation: exhausted events are not recovered. *)
RecoverExpiredClaims_SkipsExhausted(w) ==
  /\ step[w] = "waiting"
  /\ status' = [e \in Events |->
       IF e \in expired /\ attempts[e] < MaxAttempts THEN "PENDING" ELSE status[e]]
  /\ due' = due \cup {e \in expired : attempts[e] < MaxAttempts}
  /\ expired' = {e \in expired : attempts[e] >= MaxAttempts}
  /\ Goes(w, "claiming")
  /\ UNCHANGED <<attempts, effect, held, current, stopping, bounds>>

RecoverExpiredClaims(w) ==
  /\ step[w] = "waiting"
  /\ status' = [e \in Events |->
       IF e \notin expired THEN status[e]
       ELSE IF attempts[e] >= MaxAttempts THEN "FAILED" ELSE "PENDING"]
  /\ due' = due \cup {e \in expired : attempts[e] < MaxAttempts}
  /\ expired' = {}
  /\ Goes(w, "claiming")
  /\ UNCHANGED <<attempts, effect, held, current, stopping, bounds>>

(* The claim takes the first BatchSize due events.  Which ones these are,  *)
(* the oldest, and the order in which UPDATE returns them is left open.    *)
ClaimPending(w) ==
  \E batch \in SUBSET due :
    /\ step[w] = "claiming"
    /\ \/ batch = due /\ Cardinality(due) <= BatchSize
       \/ Cardinality(batch) = BatchSize
    /\ status' = [e \in Events |-> IF e \in batch THEN "PROCESSING" ELSE status[e]]
    /\ attempts' = [e \in Events |-> attempts[e] + (IF e \in batch THEN 1 ELSE 0)]
    /\ due' = due \ batch
    /\ held' = [held EXCEPT ![w] = [e \in Events |->
                  IF e \in batch THEN attempts[e] + 1 ELSE 0]]
    /\ Goes(w, "next")
    /\ UNCHANGED <<expired, effect, current, stopping, bounds>>

TakeNext(w) ==
  /\ step[w] = "next"
  /\ \E e \in Holds(w) :
       /\ current' = [current EXCEPT ![w] = e]
       /\ Goes(w, IF e \in Received THEN "validating" ELSE "materializing")
  /\ UNCHANGED <<rows, effect, held, stopping, bounds>>

(* The next poll is scheduled, unless the process was told to stop. *)
FinishBatch(w) ==
  /\ step[w] = "next"
  /\ Holds(w) = {}
  /\ Goes(w, IF w \in stopping THEN "down" ELSE "waiting")
  /\ current' = [current EXCEPT ![w] = NoEvent]
  /\ stopping' = stopping \ {w}
  /\ UNCHANGED <<rows, effect, held, bounds>>

-----------------------------------------------------------------------------
(* handle: validate the payment of a PAYMENT_RECEIVED event, then          *)
(* materialize the event's deliveries.                                     *)

(* Mutation: the event is completed ahead of the decision. *)
ReserveDailyUsageAndTransition_Early(w) ==
  /\ step[w] = "validating"
  /\ status[current[w]] = "PROCESSING"
  /\ UpdateClaimedEvent(current[w], "PROCESSED")
  /\ Goes(w, "materializing")
  /\ UNCHANGED <<attempts, due, effect, held, current, stopping, bounds>>

(* The payment is decided, or found decided, and the event completed in    *)
(* one transaction that rolls back unless the event is PROCESSING.         *)
ReserveDailyUsageAndTransition(w) ==
  /\ step[w] = "validating"
  /\ status[current[w]] = "PROCESSING"
  /\ UpdateClaimedEvent(current[w], "PROCESSED")
  /\ decided' = decided \cup {current[w]}
  /\ Goes(w, "materializing")
  /\ UNCHANGED <<attempts, due, materialized, held, current, stopping, bounds>>

(* A payment that fails a basic check is failed without touching the event. *)
TransitionFromReceived(w) ==
  /\ step[w] = "validating"
  /\ decided' = decided \cup {current[w]}
  /\ Goes(w, "materializing")
  /\ UNCHANGED <<rows, materialized, held, current, stopping, bounds>>

Materialize(w) ==
  /\ step[w] = "materializing"
  /\ materialized' = materialized \cup {current[w]}
  /\ Goes(w, "done")
  /\ UNCHANGED <<rows, decided, held, current, stopping, bounds>>

(* The handler throws: a bad payload, a payment not eligible, an event no  *)
(* longer claimed, a failed transaction or the lost reply of one.          *)
HandlerFails(w) ==
  /\ step[w] \in {"validating", "materializing", "done"}
  /\ Goes(w, "failing")
  /\ UNCHANGED <<rows, effect, held, current, stopping, bounds>>

Release(w) == held' = [held EXCEPT ![w][current[w]] = 0]

MarkProcessed(w) ==
  /\ step[w] = "done"
  /\ UpdateClaimedEvent(current[w], "PROCESSED")
  /\ Release(w)
  /\ Goes(w, "next")
  /\ UNCHANGED <<attempts, due, effect, current, stopping, bounds>>

(* Whether attempts are left is judged by the row as it was claimed. *)
AfterFailure(count) == IF count >= MaxAttempts THEN "FAILED" ELSE "PENDING"

MarkFailed(w) ==
  /\ step[w] = "failing"
  /\ UpdateClaimedEvent(current[w], AfterFailure(held[w][current[w]]))
  /\ Release(w)
  /\ Goes(w, "next")
  /\ UNCHANGED <<attempts, due, effect, current, stopping, bounds>>

-----------------------------------------------------------------------------
(* Faults and shutdowns. *)

Forgets(w, next) ==
  /\ Goes(w, next)
  /\ held' = [held EXCEPT ![w] = Nothing]
  /\ current' = [current EXCEPT ![w] = NoEvent]

(* A call of the polling service fails, or only its reply is lost: the     *)
(* rest of the batch is dropped and left to its lease.                     *)
DatabaseFails(w) ==
  /\ faults < MaxFaults
  /\ faults' = faults + 1
  /\ step[w] \in {"claiming", "next", "done", "failing"}
  /\ Forgets(w, IF w \in stopping THEN "down" ELSE "waiting")
  /\ stopping' = stopping \ {w}
  /\ UNCHANGED <<rows, effect, shutdowns>>

Crash(w) ==
  /\ faults < MaxFaults
  /\ faults' = faults + 1
  /\ step[w] # "down"
  /\ Forgets(w, "down")
  /\ stopping' = stopping \ {w}
  /\ UNCHANGED <<rows, effect, shutdowns>>

(* Mutation: the batch at hand is not awaited. *)
Shutdown_Abrupt(w) ==
  /\ shutdowns < MaxShutdowns
  /\ shutdowns' = shutdowns + 1
  /\ step[w] # "down" /\ w \notin stopping
  /\ Forgets(w, "down")
  /\ UNCHANGED <<rows, effect, stopping, faults>>

(* onApplicationShutdown: the timer is cleared, a batch at hand awaited. *)
Shutdown(w) ==
  /\ shutdowns < MaxShutdowns
  /\ shutdowns' = shutdowns + 1
  /\ w \notin stopping
  /\ \/ /\ step[w] = "waiting"
        /\ Goes(w, "down")
        /\ UNCHANGED stopping
     \/ /\ step[w] \notin {"waiting", "down"}
        /\ stopping' = stopping \cup {w}
        /\ UNCHANGED step
  /\ UNCHANGED <<rows, effect, held, current, faults>>

Start(w) ==
  /\ step[w] = "down"
  /\ Goes(w, "waiting")
  /\ UNCHANGED <<rows, effect, held, current, stopping, bounds>>

-----------------------------------------------------------------------------
Handle(w) ==
  \/ ReserveDailyUsageAndTransition(w) \/ TransitionFromReceived(w)
  \/ Materialize(w) \/ HandlerFails(w)

WorkerStep(w) ==
  \/ Start(w) \/ RecoverExpiredClaims(w) \/ ClaimPending(w)
  \/ TakeNext(w) \/ FinishBatch(w) \/ Handle(w)
  \/ MarkProcessed(w) \/ MarkFailed(w)

Next ==
  \/ \E e \in Events :
       Append(e) \/ DecidedByApi(e) \/ BackoffElapses(e) \/ LeaseExpires(e)
  \/ \E w \in Workers :
       WorkerStep(w) \/ DatabaseFails(w) \/ Crash(w) \/ Shutdown(w)

(* Processes run and are restarted (restart: unless-stopped), time passes. *)
Fairness ==
  /\ \A w \in Workers : WF_vars(WorkerStep(w))
  /\ \A e \in Events : WF_vars(BackoffElapses(e)) /\ WF_vars(LeaseExpires(e))

Spec == Init /\ [][Next]_vars
FairSpec == Spec /\ Fairness

-----------------------------------------------------------------------------
(* Properties. *)

Ended(e) == status[e] \in {"PROCESSED", "FAILED"}

(* A terminal event stays as it is, whatever stale handlers and recoveries  *)
(* still do to it (updateClaimedEvent's guard is the status alone).         *)
TerminalIsFinal ==
  [][\A e \in Events : Ended(e) => status'[e] = status[e]]_status

(* An event is given up only after all its attempts, although markFailed    *)
(* judges by the row as it was claimed and recovery by the row as it is.    *)
GivenUpExhausted == \A e \in Events :
  status[e] = "FAILED" => attempts[e] >= MaxAttempts

(* No two claims of an event are the same attempt, so that two workers that *)
(* hold one event could tell who claimed it last.                           *)
ClaimsDiffer == \A v, w \in Workers, e \in Events :
  /\ held[w][e] <= attempts[e]
  /\ v # w /\ held[w][e] > 0 => held[v][e] # held[w][e]

(* A stale failure gives an exhausted event back once more, yet each worker *)
(* does so at most once for an event.                                       *)
AttemptsBounded == \A e \in Events :
  attempts[e] < MaxAttempts + Cardinality(Workers)

(* A graceful shutdown abandons no claim: without faults a claimed event is *)
(* always in the hands of a worker.                                         *)
NothingAbandoned ==
  faults = 0 => \A e \in Events : status[e] = "PROCESSING" =>
                  \E w \in Workers : held[w][e] = attempts[e]

(* Every event is completed or given up in the end. *)
EveryEventEnds == \A e \in Events : status[e] = "PENDING" ~> Ended(e)

(* The outbox is a queue of work done at least once: the payment of a       *)
(* PAYMENT_RECEIVED event is decided, the deliveries of another event       *)
(* exist, before it is PROCESSED.                                           *)
Fate == [e \in Events |-> CASE status[e] = "ABSENT"    -> "absent"
                            [] status[e] = "PROCESSED" -> "done"
                            [] status[e] = "FAILED"    -> "dropped"
                            [] OTHER                   -> "open"]

Performed == decided \cup (materialized \ Received)

Queue == INSTANCE WorkQueue WITH fate <- Fate, performed <- Performed

KeepsQueue == Queue!SafeSpec
ImplementsQueue == Queue!Spec

(* A statement of the documentation that the code does not keep. *)

(* docs/architecture.md: "Claimed event is returned to PENDING with         *)
(* availableAt retry time and safe error message, or becomes FAILED".       *)
FailureIsRecorded ==
  [][\A w \in Workers : step[w] = "failing" /\ step'[w] = "next"
       => status'[current[w]] \in {"PENDING", "FAILED"}]_vars
=============================================================================
