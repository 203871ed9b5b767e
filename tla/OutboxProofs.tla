---------------------------- MODULE OutboxProofs -----------------------------
(***************************************************************************)
(* Theorems about Outbox, for every finite set of events and of workers    *)
(* and every bound on attempts, batches, faults and shutdowns.             *)
(***************************************************************************)
EXTENDS Outbox, FiniteSetTheorems, TLAPS

-----------------------------------------------------------------------------
(* Type correctness. *)

(* What an outcome written to a claimed row leaves of the table's typing. *)
LEMMA UpdateTyped ==
  ASSUME TypeOK, NEW e \in Events, NEW new \in {"PENDING", "PROCESSED", "FAILED"},
         UpdateClaimedEvent(e, new), UNCHANGED due
  PROVE  /\ status' \in [Events -> OutboxStatus]
         /\ due' \subseteq {f \in Events : status'[f] = "PENDING"}
         /\ expired' \subseteq {f \in Events : status'[f] = "PROCESSING"}
  BY DEF TypeOK, UpdateClaimedEvent, OutboxStatus

LEMMA AfterFailureTyped ==
  ASSUME NEW count \in Nat
  PROVE  AfterFailure(count) \in {"PENDING", "FAILED"}
  BY DEF AfterFailure

LEMMA TypeInductive == TypeOK /\ [Next]_vars => TypeOK'
<1> SUFFICES ASSUME TypeOK, [Next]_vars PROVE TypeOK'
  OBVIOUS
<1> USE OutboxAssumption
<1>1. CASE UNCHANGED vars
  BY <1>1 DEF TypeOK, vars, rows, effect, local, bounds
<1>2. ASSUME NEW e \in Events, Append(e) PROVE TypeOK'
  BY <1>2 DEF TypeOK, Append, OutboxStatus, effect, local, bounds
<1>3. ASSUME NEW e \in Events, DecidedByApi(e) PROVE TypeOK'
  BY <1>3 DEF TypeOK, DecidedByApi, rows, local, bounds
<1>4. ASSUME NEW e \in Events, BackoffElapses(e) PROVE TypeOK'
  BY <1>4 DEF TypeOK, BackoffElapses, effect, local, bounds
<1>5. ASSUME NEW e \in Events, LeaseExpires(e) PROVE TypeOK'
  BY <1>5 DEF TypeOK, LeaseExpires, effect, local, bounds
<1>6. ASSUME NEW w \in Workers, Start(w) PROVE TypeOK'
  BY <1>6 DEF TypeOK, Start, Goes, Step, rows, effect, bounds
<1>7. ASSUME NEW w \in Workers, RecoverExpiredClaims(w) PROVE TypeOK'
  BY <1>7 DEF TypeOK, RecoverExpiredClaims, Goes, Step, OutboxStatus, effect, bounds
<1>8. ASSUME NEW w \in Workers, ClaimPending(w) PROVE TypeOK'
  <2>1. PICK batch \in SUBSET due :
          /\ step[w] = "claiming"
          /\ status' = [e \in Events |->
                          IF e \in batch THEN "PROCESSING" ELSE status[e]]
          /\ attempts' = [e \in Events |->
                            attempts[e] + (IF e \in batch THEN 1 ELSE 0)]
          /\ due' = due \ batch
          /\ held' = [held EXCEPT ![w] = [e \in Events |->
                        IF e \in batch THEN attempts[e] + 1 ELSE 0]]
          /\ Goes(w, "next")
          /\ UNCHANGED <<expired, effect, current, stopping, bounds>>
    BY <1>8 DEF ClaimPending
  <2>2. /\ status' \in [Events -> OutboxStatus]
        /\ attempts' \in [Events -> Nat]
        /\ due' \subseteq {e \in Events : status'[e] = "PENDING"}
        /\ expired' \subseteq {e \in Events : status'[e] = "PROCESSING"}
    BY <2>1 DEF TypeOK, OutboxStatus
  <2>3. held' \in [Workers -> [Events -> Nat]]
    <3>1. [e \in Events |-> IF e \in batch THEN attempts[e] + 1 ELSE 0]
            \in [Events -> Nat]
      BY DEF TypeOK
    <3> QED BY <2>1, <3>1 DEF TypeOK
  <2>4. /\ step' \in [Workers -> Step]
        /\ step'[w] = "next"
        /\ \A v \in Workers \ {w} : step'[v] = step[v] /\ held'[v] = held[v]
    BY <2>1 DEF TypeOK, Goes, Step
  <2>5. UNCHANGED <<decided, materialized, current, stopping, faults, shutdowns>>
    BY <2>1 DEF effect, bounds
  <2>6. \A v \in Workers :
          /\ step'[v] \in {"validating", "materializing", "done", "failing"}
               => current'[v] \in Events /\ held'[v][current'[v]] > 0
          /\ step'[v] = "validating" => current'[v] \in Received
    BY <2>4, <2>5 DEF TypeOK
  <2> QED BY <2>2, <2>3, <2>4, <2>5, <2>6 DEF TypeOK
<1>9. ASSUME NEW w \in Workers, TakeNext(w) PROVE TypeOK'
  BY <1>9 DEF TypeOK, TakeNext, Holds, Goes, Step, rows, effect, bounds
<1>10. ASSUME NEW w \in Workers, FinishBatch(w) PROVE TypeOK'
  BY <1>10 DEF TypeOK, FinishBatch, Goes, Step, rows, effect, bounds
<1>11. ASSUME NEW w \in Workers, Handle(w) PROVE TypeOK'
  <2>1. CASE ReserveDailyUsageAndTransition(w)
    <3>1. /\ status' \in [Events -> OutboxStatus]
          /\ due' \subseteq {f \in Events : status'[f] = "PENDING"}
          /\ expired' \subseteq {f \in Events : status'[f] = "PROCESSING"}
      BY <2>1, UpdateTyped DEF ReserveDailyUsageAndTransition, TypeOK
    <3> QED BY <2>1, <3>1 DEF TypeOK, ReserveDailyUsageAndTransition, Goes, Step, bounds
  <2>2. CASE TransitionFromReceived(w)
    BY <2>2 DEF TypeOK, TransitionFromReceived, Goes, Step, rows, bounds
  <2>3. CASE Materialize(w)
    BY <2>3 DEF TypeOK, Materialize, Goes, Step, rows, bounds
  <2>4. CASE HandlerFails(w)
    BY <2>4 DEF TypeOK, HandlerFails, Goes, Step, rows, effect, bounds
  <2> QED BY <1>11, <2>1, <2>2, <2>3, <2>4 DEF Handle
<1>12. ASSUME NEW w \in Workers, MarkProcessed(w) PROVE TypeOK'
  <2>1. /\ status' \in [Events -> OutboxStatus]
        /\ due' \subseteq {f \in Events : status'[f] = "PENDING"}
        /\ expired' \subseteq {f \in Events : status'[f] = "PROCESSING"}
    BY <1>12, UpdateTyped DEF MarkProcessed, TypeOK
  <2> QED BY <1>12, <2>1 DEF TypeOK, MarkProcessed, Release, Goes, Step, effect, bounds
<1>13. ASSUME NEW w \in Workers, MarkFailed(w) PROVE TypeOK'
  <2>1. current[w] \in Events /\ held[w][current[w]] \in Nat
    BY <1>13 DEF MarkFailed, TypeOK
  <2>2. AfterFailure(held[w][current[w]]) \in {"PENDING", "FAILED"}
    BY <2>1, AfterFailureTyped
  <2>3. /\ UpdateClaimedEvent(current[w], AfterFailure(held[w][current[w]]))
        /\ UNCHANGED due
    BY <1>13 DEF MarkFailed
  <2>4. /\ status' \in [Events -> OutboxStatus]
        /\ due' \subseteq {f \in Events : status'[f] = "PENDING"}
        /\ expired' \subseteq {f \in Events : status'[f] = "PROCESSING"}
    BY <2>1, <2>2, <2>3, UpdateTyped
  <2> QED BY <1>13, <2>4 DEF TypeOK, MarkFailed, Release, Goes, Step, effect, bounds
<1>14. ASSUME NEW w \in Workers, DatabaseFails(w) \/ Crash(w) PROVE TypeOK'
  <2>1. Nothing \in [Events -> Nat]
    BY DEF Nothing
  <2>2. faults' \in 0..MaxFaults /\ stopping' \subseteq Workers
    BY <1>14 DEF DatabaseFails, Crash, TypeOK
  <2>3. UNCHANGED <<status, attempts, due, expired, decided, materialized, shutdowns>>
    BY <1>14 DEF DatabaseFails, Crash, rows, effect
  <2>4. PICK next \in {"down", "waiting"} : Forgets(w, next)
    BY <1>14 DEF DatabaseFails, Crash
  <2>5. /\ step' \in [Workers -> Step] /\ step'[w] = next
        /\ held' \in [Workers -> [Events -> Nat]]
        /\ current' \in [Workers -> Events \cup {NoEvent}]
        /\ \A v \in Workers \ {w} :
             step'[v] = step[v] /\ held'[v] = held[v] /\ current'[v] = current[v]
    BY <2>1, <2>4 DEF TypeOK, Forgets, Goes, Step
  <2>6. \A v \in Workers :
          /\ step'[v] \in {"validating", "materializing", "done", "failing"}
               => current'[v] \in Events /\ held'[v][current'[v]] > 0
          /\ step'[v] = "validating" => current'[v] \in Received
    BY <2>5 DEF TypeOK
  <2> QED BY <2>2, <2>3, <2>5, <2>6 DEF TypeOK
<1>15. ASSUME NEW w \in Workers, Shutdown(w) PROVE TypeOK'
  BY <1>15 DEF TypeOK, Shutdown, Goes, Step, rows, effect
<1> QED BY <1>1, <1>2, <1>3, <1>4, <1>5, <1>6, <1>7, <1>8, <1>9, <1>10, <1>11,
           <1>12, <1>13, <1>14, <1>15 DEF Next, WorkerStep

(* Every reachable state of the outbox is well typed. *)
THEOREM TypeCorrect == Spec => []TypeOK
<1>1. Init => TypeOK
  BY OutboxAssumption DEF Init, TypeOK, Nothing, Step, OutboxStatus
<1>2. TypeOK /\ [Next]_vars => TypeOK'
  BY TypeInductive
<1> QED BY <1>1, <1>2, PTL DEF Spec

-----------------------------------------------------------------------------
(* Terminal events. *)

(* No terminal event changes, whatever handlers, recoveries and polls still *)
(* do to it.                                                                *)
THEOREM TerminalStays == Spec => TerminalIsFinal
<1>1. TypeOK /\ [Next]_vars => [\A e \in Events : Ended(e) => status'[e] = status[e]]_status
  <2> SUFFICES ASSUME TypeOK, Next, NEW e \in Events, Ended(e)
               PROVE  status'[e] = status[e]
    BY DEF vars, rows
  <2>1. ASSUME NEW f \in Events, Append(f) \/ DecidedByApi(f) \/ BackoffElapses(f)
                                  \/ LeaseExpires(f)
        PROVE  status'[e] = status[e]
    BY <2>1 DEF TypeOK, Ended, Append, DecidedByApi, BackoffElapses, LeaseExpires, rows
  <2>2. ASSUME NEW f \in Events, NEW new, UpdateClaimedEvent(f, new)
        PROVE  status'[e] = status[e]
    BY <2>2 DEF TypeOK, Ended, UpdateClaimedEvent
  <2>3. ASSUME NEW w \in Workers, WorkerStep(w) PROVE status'[e] = status[e]
    <3>1. CASE Start(w) \/ TakeNext(w) \/ FinishBatch(w) \/ TransitionFromReceived(w)
                 \/ Materialize(w) \/ HandlerFails(w)
      BY <3>1 DEF Start, TakeNext, FinishBatch, TransitionFromReceived, Materialize,
                  HandlerFails, rows
    <3>2. CASE RecoverExpiredClaims(w) \/ ClaimPending(w)
      BY <3>2 DEF RecoverExpiredClaims, ClaimPending, TypeOK, Ended
    <3>3. CASE ReserveDailyUsageAndTransition(w) \/ MarkProcessed(w) \/ MarkFailed(w)
      <4>1. current[w] \in Events
        BY <3>3 DEF TypeOK, ReserveDailyUsageAndTransition, MarkProcessed, MarkFailed
      <4> QED BY <2>2, <3>3, <4>1
              DEF ReserveDailyUsageAndTransition, MarkProcessed, MarkFailed
    <3> QED BY <2>3, <3>1, <3>2, <3>3 DEF WorkerStep, Handle
  <2>4. ASSUME NEW w \in Workers, DatabaseFails(w) \/ Crash(w) \/ Shutdown(w)
        PROVE  status'[e] = status[e]
    BY <2>4 DEF DatabaseFails, Crash, Shutdown, rows
  <2> QED BY <2>1, <2>3, <2>4 DEF Next
<1> QED BY <1>1, TypeCorrect, PTL DEF Spec, TerminalIsFinal

-----------------------------------------------------------------------------
(* What one step does to an event and to the claims on it. *)

Claimed(w, batch) ==
  /\ step[w] = "claiming" /\ step' = [step EXCEPT ![w] = "next"]
  /\ status' = [e \in Events |-> IF e \in batch THEN "PROCESSING" ELSE status[e]]
  /\ attempts' = [e \in Events |-> attempts[e] + (IF e \in batch THEN 1 ELSE 0)]
  /\ held' = [held EXCEPT ![w] = [e \in Events |->
                IF e \in batch THEN attempts[e] + 1 ELSE 0]]
  /\ UNCHANGED <<decided, materialized, current, faults>>

LEMMA ClaimShape ==
  ASSUME NEW w \in Workers, ClaimPending(w)
  PROVE  \E batch \in SUBSET due : Claimed(w, batch)
  BY DEF ClaimPending, Claimed, Goes, effect, bounds

(* An outcome is written to the event at hand, which is then let go. *)
Concluded(w, new) ==
  /\ step[w] \in {"done", "failing"} /\ step' = [step EXCEPT ![w] = "next"]
  /\ current[w] \in Events
  /\ status' = [status EXCEPT ![current[w]] = IF @ = "PROCESSING" THEN new ELSE @]
  /\ held' = [held EXCEPT ![w][current[w]] = 0]
  /\ step[w] = "done" => new = "PROCESSED"
  /\ step[w] = "failing" => new = AfterFailure(held[w][current[w]])
  /\ UNCHANGED <<attempts, decided, materialized, current, faults>>

LEMMA ConcludeShape ==
  ASSUME TypeOK, NEW w \in Workers, MarkProcessed(w) \/ MarkFailed(w)
  PROVE  \E new : Concluded(w, new)
<1>1. current[w] \in Events
  BY DEF TypeOK, MarkProcessed, MarkFailed
<1>2. CASE MarkProcessed(w)
  BY <1>1, <1>2 DEF MarkProcessed, Concluded, UpdateClaimedEvent, Release, Goes, effect, bounds
<1>3. CASE MarkFailed(w)
  BY <1>1, <1>3 DEF MarkFailed, Concluded, UpdateClaimedEvent, Release, Goes, effect, bounds
<1> QED BY <1>2, <1>3

(* A fault makes a worker forget what it held. *)
Faulted(w) ==
  /\ faults' = faults + 1
  /\ \E next \in {"down", "waiting"} : step' = [step EXCEPT ![w] = next]
  /\ held' = [held EXCEPT ![w] = Nothing]
  /\ current' = [current EXCEPT ![w] = NoEvent]
  /\ UNCHANGED <<status, attempts, decided, materialized>>

LEMMA FaultShape ==
  ASSUME NEW w \in Workers, DatabaseFails(w) \/ Crash(w)
  PROVE  Faulted(w)
  BY DEF DatabaseFails, Crash, Forgets, Faulted, Goes, rows, effect

Recovered(w) ==
  /\ step[w] = "waiting" /\ step' = [step EXCEPT ![w] = "claiming"]
  /\ status' = [e \in Events |->
       IF e \notin expired THEN status[e]
       ELSE IF attempts[e] >= MaxAttempts THEN "FAILED" ELSE "PENDING"]
  /\ UNCHANGED <<attempts, decided, materialized, held, current, faults>>

(* A worker moves on and leaves rows and claims alone. *)
Proceeded(w) ==
  /\ \/ step[w] = "down" /\ step' = [step EXCEPT ![w] = "waiting"]
           /\ UNCHANGED <<decided, materialized, current>>
     \/ step[w] = "waiting" /\ step' = [step EXCEPT ![w] = "down"]
           /\ UNCHANGED <<decided, materialized, current>>
     \/ /\ step[w] = "next" /\ Holds(w) = {}
        /\ \E next \in {"down", "waiting"} : step' = [step EXCEPT ![w] = next]
        /\ current' = [current EXCEPT ![w] = NoEvent]
        /\ UNCHANGED <<decided, materialized>>
     \/ /\ step[w] = "next"
        /\ \E e \in Holds(w) :
             /\ current' = [current EXCEPT ![w] = e]
             /\ step' = [step EXCEPT ![w] =
                           IF e \in Received THEN "validating" ELSE "materializing"]
        /\ UNCHANGED <<decided, materialized>>
     \/ /\ step[w] = "validating" /\ step' = [step EXCEPT ![w] = "materializing"]
        /\ decided' = decided \cup {current[w]}
        /\ UNCHANGED <<materialized, current>>
     \/ /\ step[w] = "materializing" /\ step' = [step EXCEPT ![w] = "done"]
        /\ materialized' = materialized \cup {current[w]}
        /\ UNCHANGED <<decided, current>>
     \/ /\ step[w] \in {"validating", "materializing", "done"}
        /\ step' = [step EXCEPT ![w] = "failing"]
        /\ UNCHANGED <<decided, materialized, current>>
     \/ UNCHANGED <<step, decided, materialized, current>>
  /\ UNCHANGED <<status, attempts, held, faults>>

LEMMA ProceedShape ==
  ASSUME NEW w \in Workers,
         \/ Start(w) \/ TakeNext(w) \/ FinishBatch(w) \/ TransitionFromReceived(w)
         \/ Materialize(w) \/ HandlerFails(w) \/ Shutdown(w)
  PROVE  Proceeded(w)
<1>1. CASE Start(w)
  BY <1>1 DEF Start, Proceeded, Goes, rows, effect, bounds
<1>2. CASE TakeNext(w)
  BY <1>2 DEF TakeNext, Proceeded, Goes, rows, effect, bounds
<1>3. CASE FinishBatch(w)
  BY <1>3 DEF FinishBatch, Proceeded, Goes, rows, effect, bounds
<1>4. CASE TransitionFromReceived(w)
  BY <1>4 DEF TransitionFromReceived, Proceeded, Goes, rows, bounds
<1>5. CASE Materialize(w)
  BY <1>5 DEF Materialize, Proceeded, Goes, rows, bounds
<1>6. CASE HandlerFails(w)
  BY <1>6 DEF HandlerFails, Proceeded, Goes, rows, effect, bounds
<1>7. CASE Shutdown(w)
  BY <1>7 DEF Shutdown, Proceeded, Goes, rows, effect
<1> QED BY <1>1, <1>2, <1>3, <1>4, <1>5, <1>6, <1>7

(* A payment is decided and its event completed in one transaction. *)
Committed(w) ==
  /\ step[w] = "validating" /\ step' = [step EXCEPT ![w] = "materializing"]
  /\ status[current[w]] = "PROCESSING"
  /\ status' = [status EXCEPT ![current[w]] = "PROCESSED"]
  /\ decided' = decided \cup {current[w]}
  /\ UNCHANGED <<attempts, materialized, held, current, faults>>

LEMMA CommitShape ==
  ASSUME TypeOK, NEW w \in Workers, ReserveDailyUsageAndTransition(w)
  PROVE  Committed(w)
  BY DEF TypeOK, ReserveDailyUsageAndTransition, UpdateClaimedEvent, Committed,
         Goes, bounds

(* The table changes with no worker. *)
Elsewhere ==
  /\ \/ \E e \in Events : /\ status[e] = "ABSENT"
                           /\ status' = [status EXCEPT ![e] = "PENDING"]
                           /\ UNCHANGED decided
     \/ \E e \in Received : /\ status[e] # "ABSENT"
                             /\ decided' = decided \cup {e}
                             /\ UNCHANGED status
     \/ UNCHANGED <<status, decided>>
  /\ UNCHANGED <<attempts, materialized, held, current, step, faults>>

LEMMA StepShape ==
  ASSUME TypeOK, [Next]_vars
  PROVE  \/ Elsewhere
         \/ \E w \in Workers : \/ Proceeded(w) \/ Recovered(w) \/ Committed(w)
                               \/ Faulted(w)
                               \/ \E batch \in SUBSET due : Claimed(w, batch)
                               \/ \E new : Concluded(w, new)
<1>1. CASE UNCHANGED vars
  BY <1>1 DEF vars, rows, effect, local, bounds, Elsewhere
<1>2. ASSUME NEW e \in Events,
             Append(e) \/ DecidedByApi(e) \/ BackoffElapses(e) \/ LeaseExpires(e)
      PROVE  Elsewhere
  BY <1>2 DEF Append, DecidedByApi, BackoffElapses, LeaseExpires, rows, effect,
              local, bounds, Elsewhere
<1>3. ASSUME NEW w \in Workers, RecoverExpiredClaims(w) PROVE Recovered(w)
  BY <1>3 DEF RecoverExpiredClaims, Recovered, Goes, effect, bounds
<1> QED BY <1>1, <1>2, <1>3, ClaimShape, ConcludeShape, FaultShape, ProceedShape,
           CommitShape DEF Next, WorkerStep, Handle

-----------------------------------------------------------------------------
(* Claims and attempts. *)

ClaimInv == GivenUpExhausted /\ ClaimsDiffer

LEMMA ClaimInductive == TypeOK /\ ClaimInv /\ [Next]_vars => ClaimInv'
<1> SUFFICES ASSUME TypeOK, ClaimInv, [Next]_vars PROVE ClaimInv'
  OBVIOUS
<1> USE OutboxAssumption DEF ClaimInv, GivenUpExhausted, ClaimsDiffer
<1>1. CASE Elsewhere
  BY <1>1 DEF Elsewhere, TypeOK
<1>2. ASSUME NEW w \in Workers, Proceeded(w) PROVE ClaimInv'
  BY <1>2 DEF Proceeded, TypeOK
<1>3. ASSUME NEW w \in Workers, Recovered(w) PROVE ClaimInv'
  BY <1>3 DEF Recovered, TypeOK
<1>4. ASSUME NEW w \in Workers, Committed(w) PROVE ClaimInv'
  BY <1>4 DEF Committed, TypeOK
<1>5. ASSUME NEW w \in Workers, Faulted(w) PROVE ClaimInv'
  <2>1. UNCHANGED <<status, attempts>>
    BY <1>5 DEF Faulted
  <2>2. \A v \in Workers, e \in Events : held'[v][e] \in {0, held[v][e]}
    BY <1>5 DEF Faulted, Nothing, TypeOK
  <2> QED BY <2>1, <2>2 DEF TypeOK
<1>6. ASSUME NEW w \in Workers, NEW batch \in SUBSET due, Claimed(w, batch)
      PROVE  ClaimInv'
  <2>1. \A e \in Events : /\ attempts'[e] >= attempts[e]
                          /\ attempts'[e] \in Nat
                          /\ status'[e] = "FAILED" => status[e] = "FAILED"
    BY <1>6 DEF Claimed, TypeOK
  <2>2. \A v \in Workers \ {w} : held'[v] = held[v]
    BY <1>6 DEF Claimed, TypeOK
  <2>3. \A e \in Events : held'[w][e] \in {0, attempts[e] + 1}
    BY <1>6 DEF Claimed, TypeOK
  <2>4. \A e \in Events : held'[w][e] > 0 => attempts'[e] = attempts[e] + 1
    BY <1>6 DEF Claimed, TypeOK
  <2>5. GivenUpExhausted'
    BY <2>1 DEF TypeOK
  <2>6. ASSUME NEW u \in Workers, NEW v \in Workers, NEW e \in Events
        PROVE  /\ held'[v][e] <= attempts'[e]
               /\ u # v /\ held'[v][e] > 0 => held'[u][e] # held'[v][e]
    <3>1. /\ held[u][e] \in Nat /\ held[v][e] \in Nat /\ attempts[e] \in Nat
          /\ held[u][e] <= attempts[e] /\ held[v][e] <= attempts[e]
      BY DEF TypeOK
    <3> QED BY <2>1, <2>2, <2>3, <2>4, <3>1
  <2> QED BY <2>5, <2>6
<1>7. ASSUME NEW w \in Workers, NEW new, Concluded(w, new) PROVE ClaimInv'
  <2>1. \A v \in Workers, e \in Events : held'[v][e] \in {0, held[v][e]}
    BY <1>7 DEF Concluded, TypeOK
  <2>2. held[w][current[w]] \in Nat /\ attempts[current[w]] \in Nat
    BY <1>7 DEF Concluded, TypeOK
  <2>3. \A e \in Events : status'[e] = "FAILED" /\ status[e] # "FAILED"
          => e = current[w] /\ held[w][e] >= MaxAttempts
    BY <1>7, <2>2 DEF Concluded, AfterFailure, TypeOK
  <2> QED BY <1>7, <2>1, <2>2, <2>3 DEF Concluded, TypeOK
<1> QED BY <1>1, <1>2, <1>3, <1>4, <1>5, <1>6, <1>7, StepShape

(* An event is given up only when its attempts are exhausted. *)
THEOREM GivenUpLast == Spec => []GivenUpExhausted
<1>1. Init => ClaimInv
  BY OutboxAssumption DEF Init, ClaimInv, GivenUpExhausted, ClaimsDiffer, Nothing
<1>2. TypeOK /\ ClaimInv /\ [Next]_vars => ClaimInv'
  BY ClaimInductive
<1>3. ClaimInv => GivenUpExhausted
  BY DEF ClaimInv
<1> QED BY <1>1, <1>2, <1>3, TypeCorrect, PTL DEF Spec

(* Every claim of an event is an attempt of its own. *)
THEOREM ClaimsAreAttempts == Spec => []ClaimsDiffer
<1>1. Init => ClaimInv
  BY OutboxAssumption DEF Init, ClaimInv, GivenUpExhausted, ClaimsDiffer, Nothing
<1>2. TypeOK /\ ClaimInv /\ [Next]_vars => ClaimInv'
  BY ClaimInductive
<1>3. ClaimInv => ClaimsDiffer
  BY DEF ClaimInv
<1> QED BY <1>1, <1>2, <1>3, TypeCorrect, PTL DEF Spec

-----------------------------------------------------------------------------
(* No claim is abandoned without a fault. *)

HeldInv ==
  /\ \A w \in Workers : step[w] \in {"down", "waiting", "claiming"}
       => \A e \in Events : held[w][e] = 0
  /\ faults = 0 => \A e \in Events : status[e] = "PROCESSING" =>
                     \E w \in Workers : held[w][e] = attempts[e] /\ held[w][e] > 0

LEMMA HeldInductive == TypeOK /\ HeldInv /\ [Next]_vars => HeldInv'
<1> SUFFICES ASSUME TypeOK, HeldInv, [Next]_vars PROVE HeldInv'
  OBVIOUS
<1> USE DEF HeldInv
<1>1. CASE Elsewhere
  BY <1>1 DEF Elsewhere, TypeOK
<1>2. ASSUME NEW w \in Workers, Proceeded(w) PROVE HeldInv'
  BY <1>2 DEF Proceeded, Holds, TypeOK
<1>3. ASSUME NEW w \in Workers, Recovered(w) PROVE HeldInv'
  BY <1>3 DEF Recovered, TypeOK
<1>4. ASSUME NEW w \in Workers, Committed(w) PROVE HeldInv'
  BY <1>4 DEF Committed, TypeOK
<1>5. ASSUME NEW w \in Workers, Faulted(w) PROVE HeldInv'
  <2>1. faults' # 0
    BY <1>5 DEF Faulted, TypeOK
  <2>2. \A e \in Events : held'[w][e] = 0
    BY <1>5 DEF Faulted, Nothing, TypeOK
  <2>3. \A v \in Workers \ {w} : held'[v] = held[v] /\ step'[v] = step[v]
    BY <1>5 DEF Faulted, TypeOK
  <2> QED BY <2>1, <2>2, <2>3
<1>6. ASSUME NEW w \in Workers, NEW batch \in SUBSET due, Claimed(w, batch)
      PROVE  HeldInv'
  <2>1. /\ \A v \in Workers \ {w} : held'[v] = held[v] /\ step'[v] = step[v]
        /\ step'[w] = "next" /\ faults' = faults
        /\ \A e \in Events : held[w][e] = 0
    BY <1>6 DEF Claimed, TypeOK
  <2>2. \A e \in batch : /\ held'[w][e] = attempts'[e] /\ held'[w][e] > 0
                         /\ e \in Events
    BY <1>6 DEF Claimed, TypeOK
  <2>3. \A e \in Events \ batch : status'[e] = status[e] /\ attempts'[e] = attempts[e]
    BY <1>6 DEF Claimed, TypeOK
  <2>4. ASSUME faults' = 0, NEW e \in Events, status'[e] = "PROCESSING"
        PROVE  \E v \in Workers : held'[v][e] = attempts'[e] /\ held'[v][e] > 0
    <3>1. CASE e \in batch
      BY <2>2, <3>1
    <3>2. CASE e \notin batch
      <4>1. PICK v \in Workers : held[v][e] = attempts[e] /\ held[v][e] > 0
        BY <2>1, <2>3, <2>4, <3>2
      <4>2. v # w
        BY <2>1, <4>1
      <4> QED BY <2>1, <2>3, <3>2, <4>1, <4>2
    <3> QED BY <3>1, <3>2
  <2> QED BY <2>1, <2>4
<1>7. ASSUME NEW w \in Workers, NEW new, Concluded(w, new) PROVE HeldInv'
  <2>1. new # "PROCESSING"
    BY <1>7 DEF Concluded, AfterFailure, TypeOK, Step
  <2>2. /\ step'[w] = "next" /\ UNCHANGED <<attempts, faults>>
        /\ \A v \in Workers \ {w} : held'[v] = held[v] /\ step'[v] = step[v]
        /\ status'[current[w]] # "PROCESSING"
        /\ \A e \in Events \ {current[w]} :
             status'[e] = status[e] /\ held'[w][e] = held[w][e]
    BY <1>7, <2>1 DEF Concluded, TypeOK
  <2> QED BY <2>2
<1> QED BY <1>1, <1>2, <1>3, <1>4, <1>5, <1>6, <1>7, StepShape

(* A claimed event is in the hands of a worker until a fault happens: a     *)
(* graceful shutdown abandons nothing.                                      *)
THEOREM ShutdownAbandonsNothing == Spec => []NothingAbandoned
<1>1. Init => HeldInv
  BY DEF Init, HeldInv, Nothing
<1>2. TypeOK /\ HeldInv /\ [Next]_vars => HeldInv'
  BY HeldInductive
<1>3. HeldInv => NothingAbandoned
  BY DEF HeldInv, NothingAbandoned
<1> QED BY <1>1, <1>2, <1>3, TypeCorrect, PTL DEF Spec

-----------------------------------------------------------------------------
(* The bound on attempts.  An exhausted event that waits to be claimed once *)
(* more was given back by a worker with an earlier claim, and that worker   *)
(* holds the event no longer.                                               *)

Stale(e) == {w \in Workers : held[w][e] \in 1 .. MaxAttempts - 1}

AttemptInv == \A e \in Events :
  /\ status[e] = "ABSENT" => attempts[e] = 0
  /\ attempts[e] >= MaxAttempts =>
       attempts[e] + Cardinality(Stale(e)) + (IF status[e] = "PENDING" THEN 1 ELSE 0)
         < MaxAttempts + Cardinality(Workers)

LEMMA StaleFinite ==
  ASSUME NEW e \in Events
  PROVE  IsFiniteSet(Stale(e)) /\ Cardinality(Stale(e)) \in Nat
  BY OutboxAssumption, FS_Subset, FS_CardinalityType DEF Stale

LEMMA StaleFiniteNext ==
  ASSUME NEW e \in Events
  PROVE  IsFiniteSet(Stale(e)') /\ Cardinality(Stale(e)') \in Nat
  BY OutboxAssumption, FS_Subset, FS_CardinalityType DEF Stale

(* Where claims are only dropped, fewer workers hold an earlier claim. *)
LEMMA StaleShrinks ==
  ASSUME TypeOK, NEW e \in Events,
         \A v \in Workers : held'[v][e] \in {0, held[v][e]}
  PROVE  Cardinality(Stale(e)') <= Cardinality(Stale(e))
<1>1. Stale(e)' \subseteq Stale(e)
  BY DEF Stale, TypeOK
<1> QED BY <1>1, StaleFinite, FS_Subset

LEMMA AttemptInductive == TypeOK /\ AttemptInv /\ [Next]_vars => AttemptInv'
<1> SUFFICES ASSUME TypeOK, AttemptInv, [Next]_vars, NEW e \in Events
             PROVE  /\ status'[e] = "ABSENT" => attempts'[e] = 0
                    /\ attempts'[e] >= MaxAttempts =>
                         attempts'[e] + Cardinality(Stale(e)')
                           + (IF status'[e] = "PENDING" THEN 1 ELSE 0)
                           < MaxAttempts + Cardinality(Workers)
  BY DEF AttemptInv
<1> DEFINE Goal == /\ status'[e] = "ABSENT" => attempts'[e] = 0
                   /\ attempts'[e] >= MaxAttempts =>
                        attempts'[e] + Cardinality(Stale(e)')
                          + (IF status'[e] = "PENDING" THEN 1 ELSE 0)
                          < MaxAttempts + Cardinality(Workers)
<1>0. /\ attempts[e] \in Nat /\ MaxAttempts \in Nat \ {0}
      /\ Cardinality(Workers) \in Nat
      /\ Cardinality(Stale(e)) \in Nat /\ Cardinality(Stale(e)') \in Nat
  BY OutboxAssumption, FS_CardinalityType, StaleFinite, StaleFiniteNext DEF TypeOK
<1>00. /\ status[e] = "ABSENT" => attempts[e] = 0
       /\ attempts[e] >= MaxAttempts =>
            attempts[e] + Cardinality(Stale(e)) + (IF status[e] = "PENDING" THEN 1 ELSE 0)
              < MaxAttempts + Cardinality(Workers)
  BY DEF AttemptInv
(* Most steps count no attempt and give no exhausted event back. *)
<1>1. ASSUME attempts'[e] = attempts[e],
             \A v \in Workers : held'[v][e] \in {0, held[v][e]},
             status'[e] = "ABSENT" => status[e] = "ABSENT",
             status'[e] = "PENDING" => status[e] = "PENDING" \/ attempts[e] < MaxAttempts
      PROVE  Goal
  <2>1. Cardinality(Stale(e)') <= Cardinality(Stale(e))
    BY <1>1, StaleShrinks
  <2> QED BY <1>0, <1>00, <1>1, <2>1
<1>2. CASE Elsewhere
  <2>1. status[e] = "ABSENT" => attempts[e] < MaxAttempts
    BY <1>0, <1>00
  <2>2. /\ attempts' = attempts /\ held' = held
        /\ status'[e] = "ABSENT" => status[e] = "ABSENT"
        /\ status'[e] = "PENDING" => status[e] \in {"PENDING", "ABSENT"}
    BY <1>2 DEF Elsewhere, TypeOK
  <2> QED BY <1>1, <2>1, <2>2
<1>3. ASSUME NEW w \in Workers, Proceeded(w) \/ Committed(w) PROVE Goal
  BY <1>1, <1>3 DEF Proceeded, Committed, TypeOK
<1>4. ASSUME NEW w \in Workers, Recovered(w) PROVE Goal
  <2>1. /\ attempts' = attempts /\ held' = held
        /\ status'[e] = "ABSENT" => status[e] = "ABSENT"
        /\ status'[e] = "PENDING" => status[e] = "PENDING" \/ ~(attempts[e] >= MaxAttempts)
    BY <1>4 DEF Recovered, TypeOK
  <2> QED BY <1>0, <1>1, <2>1
<1>5. ASSUME NEW w \in Workers, Faulted(w) PROVE Goal
  <2>1. UNCHANGED <<status, attempts>>
    BY <1>5 DEF Faulted
  <2>2. \A v \in Workers : held'[v][e] \in {0, held[v][e]}
    BY <1>5 DEF Faulted, Nothing, TypeOK
  <2> QED BY <1>1, <2>1, <2>2
<1>6. ASSUME NEW w \in Workers, NEW batch \in SUBSET due, Claimed(w, batch) PROVE Goal
  <2>1. CASE e \notin batch
    <3>1. attempts'[e] = attempts[e] /\ status'[e] = status[e]
      BY <1>6, <2>1 DEF Claimed, TypeOK
    <3>2. \A v \in Workers : held'[v][e] \in {0, held[v][e]}
      BY <1>6, <2>1 DEF Claimed, TypeOK
    <3> QED BY <1>1, <3>1, <3>2
  <2>2. CASE e \in batch
    <3>1. /\ status[e] = "PENDING" /\ status'[e] = "PROCESSING"
          /\ attempts'[e] = attempts[e] + 1 /\ held'[w][e] = attempts[e] + 1
          /\ \A v \in Workers \ {w} : held'[v][e] = held[v][e]
      BY <1>6, <2>2 DEF Claimed, TypeOK
    <3>2. CASE attempts[e] >= MaxAttempts
      <4>1. Stale(e)' \subseteq Stale(e)
        BY <1>0, <3>1, <3>2 DEF Stale
      <4>2. Cardinality(Stale(e)') <= Cardinality(Stale(e))
        BY <4>1, StaleFinite, FS_Subset
      <4> QED BY <1>0, <1>00, <3>1, <3>2, <4>2
    <3>3. CASE attempts[e] + 1 = MaxAttempts
      <4>1. Stale(e)' \subseteq Workers \ {w}
        BY <1>0, <3>1, <3>3 DEF Stale
      <4>2. /\ IsFiniteSet(Workers \ {w})
            /\ Cardinality(Workers \ {w}) = Cardinality(Workers) - 1
        BY OutboxAssumption, FS_RemoveElement
      <4>3. Cardinality(Stale(e)') <= Cardinality(Workers) - 1
        BY <4>1, <4>2, FS_Subset
      <4> QED BY <1>0, <3>1, <3>3, <4>3
    <3>4. CASE attempts[e] + 1 < MaxAttempts
      BY <1>0, <3>1, <3>4
    <3> QED BY <1>0, <3>2, <3>3, <3>4
  <2> QED BY <2>1, <2>2
<1>7. ASSUME NEW w \in Workers, NEW new, Concluded(w, new) PROVE Goal
  <2>1. /\ attempts' = attempts
        /\ \A v \in Workers : held'[v][e] \in {0, held[v][e]}
        /\ e # current[w] => status'[e] = status[e]
        /\ current[w] \in Events
        /\ e = current[w] => held'[w][e] = 0
        /\ status'[e] = IF e = current[w] /\ status[e] = "PROCESSING" THEN new ELSE status[e]
    BY <1>7 DEF Concluded, TypeOK
  <2>2. held[w][current[w]] \in Nat \ {0}
    BY <1>7 DEF Concluded, TypeOK
  <2>3. new \in {"PROCESSED", "PENDING", "FAILED"}
    BY <1>7, <2>2, AfterFailureTyped DEF Concluded
  <2>4. CASE e # current[w] \/ status[e] # "PROCESSING" \/ new # "PENDING"
    BY <1>1, <2>1, <2>3, <2>4
  <2>5. CASE e = current[w] /\ status[e] = "PROCESSING" /\ new = "PENDING"
    <3>1. held[w][e] < MaxAttempts
      BY <1>0, <1>7, <2>2, <2>5 DEF Concluded, AfterFailure
    <3>2. w \in Stale(e) /\ Stale(e)' \subseteq Stale(e) \ {w}
      BY <1>0, <2>1, <2>2, <2>5, <3>1 DEF Stale, TypeOK
    <3>3. /\ IsFiniteSet(Stale(e) \ {w})
          /\ Cardinality(Stale(e) \ {w}) = Cardinality(Stale(e)) - 1
      BY <3>2, StaleFinite, FS_RemoveElement
    <3>4. Cardinality(Stale(e)') <= Cardinality(Stale(e)) - 1
      BY <3>2, <3>3, FS_Subset
    <3> QED BY <1>0, <1>00, <2>1, <2>5, <3>4
  <2> QED BY <2>4, <2>5
<1> QED BY <1>2, <1>3, <1>4, <1>5, <1>6, <1>7, StepShape

(* A stale failure gives an exhausted event back, yet its attempts stay     *)
(* within those allowed and one for each other worker.                      *)
THEOREM AttemptsStayBounded == Workers # {} => (Spec => []AttemptsBounded)
<1> SUFFICES ASSUME Workers # {} PROVE Spec => []AttemptsBounded
  OBVIOUS
<1>1. Init => AttemptInv
  BY OutboxAssumption DEF Init, AttemptInv
<1>2. TypeOK /\ AttemptInv /\ [Next]_vars => AttemptInv'
  BY AttemptInductive
<1>3. TypeOK /\ AttemptInv => AttemptsBounded
  <2> SUFFICES ASSUME TypeOK, AttemptInv, NEW e \in Events
               PROVE  attempts[e] < MaxAttempts + Cardinality(Workers)
    BY DEF AttemptsBounded
  <2>1. /\ attempts[e] \in Nat /\ MaxAttempts \in Nat /\ Cardinality(Workers) \in Nat
        /\ Cardinality(Stale(e)) \in Nat
    BY OutboxAssumption, FS_CardinalityType, StaleFinite DEF TypeOK
  <2>2. Cardinality(Workers) # 0
    BY OutboxAssumption, FS_EmptySet
  <2> QED BY <2>1, <2>2 DEF AttemptInv
<1> QED BY <1>1, <1>2, <1>3, TypeCorrect, PTL DEF Spec

-----------------------------------------------------------------------------
(* The outbox is a queue of work done at least once. *)

(* What a worker has done for the event at hand, and that it exists. *)
HandledInv == \A w \in Workers :
  /\ \A e \in Events : held[w][e] > 0 => status[e] # "ABSENT"
  /\ step[w] \in {"materializing", "done"} /\ current[w] \in Received
       => current[w] \in decided
  /\ step[w] = "done" /\ current[w] \notin Received => current[w] \in materialized

LEMMA HandledInductive == TypeOK /\ HandledInv /\ [Next]_vars => HandledInv'
<1> SUFFICES ASSUME TypeOK, HandledInv, [Next]_vars PROVE HandledInv'
  OBVIOUS
<1> USE OutboxAssumption DEF HandledInv
<1>1. CASE Elsewhere
  BY <1>1 DEF Elsewhere, TypeOK
<1>2. ASSUME NEW w \in Workers, Proceeded(w) PROVE HandledInv'
  BY <1>2 DEF Proceeded, TypeOK
<1>3. ASSUME NEW w \in Workers, Recovered(w) PROVE HandledInv'
  BY <1>3 DEF Recovered, TypeOK
<1>4. ASSUME NEW w \in Workers, Committed(w) PROVE HandledInv'
  BY <1>4 DEF Committed, TypeOK
<1>5. ASSUME NEW w \in Workers, Faulted(w) PROVE HandledInv'
  <2>1. UNCHANGED <<status, decided, materialized>>
    BY <1>5 DEF Faulted
  <2>2. \A v \in Workers, e \in Events : held'[v][e] \in {0, held[v][e]}
    BY <1>5 DEF Faulted, Nothing, TypeOK
  <2>3. /\ step'[w] \in {"down", "waiting"}
        /\ \A v \in Workers \ {w} : step'[v] = step[v] /\ current'[v] = current[v]
    BY <1>5 DEF Faulted, TypeOK
  <2> QED BY <2>1, <2>2, <2>3
<1>6. ASSUME NEW w \in Workers, NEW batch \in SUBSET due, Claimed(w, batch)
      PROVE  HandledInv'
  <2>1. UNCHANGED <<decided, materialized, current>>
    BY <1>6 DEF Claimed
  <2>2. step'[w] = "next" /\ \A v \in Workers \ {w} : step'[v] = step[v]
    BY <1>6 DEF Claimed, TypeOK
  <2>3. \A e \in Events :
          /\ e \in batch => status'[e] = "PROCESSING"
          /\ e \notin batch => status'[e] = status[e] /\ held'[w][e] = 0
          /\ \A v \in Workers \ {w} : held'[v][e] = held[v][e]
    BY <1>6 DEF Claimed, TypeOK
  <2> QED BY <2>1, <2>2, <2>3
<1>7. ASSUME NEW w \in Workers, NEW new, Concluded(w, new) PROVE HandledInv'
  <2>1. held[w][current[w]] \in Nat
    BY <1>7 DEF Concluded, TypeOK
  <2>2. new \in {"PROCESSED", "PENDING", "FAILED"}
    BY <1>7, <2>1, AfterFailureTyped DEF Concluded
  <2>3. \A e \in Events : status'[e] = "ABSENT" => status[e] = "ABSENT"
    BY <1>7, <2>2 DEF Concluded, TypeOK
  <2>4. \A v \in Workers, e \in Events : held'[v][e] \in {0, held[v][e]}
    BY <1>7 DEF Concluded, TypeOK
  <2>5. /\ UNCHANGED <<decided, materialized, current>>
        /\ step'[w] = "next" /\ \A v \in Workers \ {w} : step'[v] = step[v]
    BY <1>7 DEF Concluded, TypeOK
  <2> QED BY <2>3, <2>4, <2>5
<1> QED BY <1>1, <1>2, <1>3, <1>4, <1>5, <1>6, <1>7, StepShape

(* The fate of an event follows from its status. *)
LEMMA FateOf ==
  ASSUME NEW e \in Events
  PROVE  /\ Fate[e] = CASE status[e] = "ABSENT"    -> "absent"
                        [] status[e] = "PROCESSED" -> "done"
                        [] status[e] = "FAILED"    -> "dropped"
                        [] OTHER                   -> "open"
         /\ Fate'[e] = CASE status'[e] = "ABSENT"    -> "absent"
                         [] status'[e] = "PROCESSED" -> "done"
                         [] status'[e] = "FAILED"    -> "dropped"
                         [] OTHER                    -> "open"
  BY DEF Fate

(* A step that leaves the statuses, or moves them among the open ones. *)
LEMMA FateSame ==
  ASSUME \A e \in Events : \/ status'[e] = status[e]
                           \/ status[e] \in {"PENDING", "PROCESSING"}
                                /\ status'[e] \in {"PENDING", "PROCESSING"}
  PROVE  Fate' = Fate
<1>1. \A e \in Events : Fate'[e] = Fate[e]
  BY FateOf
<1> QED BY <1>1 DEF Fate

(* Where one event changes. *)
LEMMA FateExcept ==
  ASSUME NEW e \in Events, NEW fate, Fate'[e] = fate,
         \A f \in Events \ {e} : status'[f] = status[f]
  PROVE  Fate' = [Fate EXCEPT ![e] = fate]
<1>1. \A f \in Events \ {e} : Fate'[f] = Fate[f]
  BY FateOf
<1>2. Fate = [f \in Events |-> Fate[f]] /\ Fate' = [f \in Events |-> Fate'[f]]
  BY DEF Fate
<1> QED BY <1>1, <1>2

LEMMA QueueStep ==
  ASSUME TypeOK, HandledInv, [Next]_vars
  PROVE  [Queue!Next]_(Queue!queue)
<1> USE OutboxAssumption
<1> DEFINE Goal == [Queue!Next]_(Queue!queue)
<1>0. \A e \in Events : status[e] # "ABSENT" => Fate[e] # "absent"
  BY FateOf
<1>a. ASSUME Fate' = Fate, Performed' = Performed PROVE Goal
  BY <1>a DEF Queue!queue
<1>b. ASSUME NEW e \in Events, status[e] # "ABSENT", Fate' = Fate,
             Performed' = Performed \cup {e}
      PROVE  Goal
  BY <1>0, <1>b DEF Queue!Next, Queue!Perform
<1>c. ASSUME UNCHANGED status PROVE Fate' = Fate
  BY <1>c DEF Fate
<1>1. CASE Elsewhere
  <2>1. ASSUME NEW e \in Events, status[e] = "ABSENT",
               status' = [status EXCEPT ![e] = "PENDING"], UNCHANGED decided
        PROVE  Goal
    <3>1. /\ status'[e] = "PENDING"
          /\ \A f \in Events \ {e} : status'[f] = status[f]
      BY <2>1 DEF TypeOK
    <3>2. Fate[e] = "absent" /\ Fate'[e] = "open"
      BY <2>1, <3>1, FateOf
    <3>3. Fate' = [Fate EXCEPT ![e] = "open"]
      BY <3>1, <3>2, FateExcept
    <3>4. Performed' = Performed
      BY <1>1, <2>1 DEF Elsewhere, Performed
    <3> QED BY <3>2, <3>3, <3>4 DEF Queue!Next, Queue!HandOver
  <2>2. ASSUME NEW e \in Received, status[e] # "ABSENT", decided' = decided \cup {e},
               UNCHANGED status
        PROVE  Goal
    <3>1. Performed' = Performed \cup {e}
      BY <1>1, <2>2 DEF Elsewhere, Performed
    <3> QED BY <1>b, <1>c, <2>2, <3>1
  <2>3. CASE UNCHANGED <<status, decided>>
    BY <1>1, <1>a, <1>c, <2>3 DEF Elsewhere, Performed
  <2> QED BY <1>1, <2>1, <2>2, <2>3 DEF Elsewhere
<1>2. ASSUME NEW w \in Workers, Proceeded(w) PROVE Goal
  <2>1. Fate' = Fate
    BY <1>2, <1>c DEF Proceeded
  <2>2. CASE UNCHANGED <<decided, materialized>>
    BY <1>a, <2>1, <2>2 DEF Performed
  <2>3. CASE /\ step[w] = "validating" /\ decided' = decided \cup {current[w]}
             /\ UNCHANGED materialized
    <3>1. current[w] \in Events /\ status[current[w]] # "ABSENT"
      BY <2>3 DEF TypeOK, HandledInv
    <3>2. Performed' = Performed \cup {current[w]}
      BY <2>3 DEF Performed
    <3> QED BY <1>b, <2>1, <3>1, <3>2
  <2>4. CASE /\ step[w] = "materializing" /\ materialized' = materialized \cup {current[w]}
             /\ UNCHANGED decided
    <3>1. current[w] \in Events /\ status[current[w]] # "ABSENT"
      BY <2>4 DEF TypeOK, HandledInv
    <3>2. CASE current[w] \in Received
      <4>1. Performed' = Performed
        BY <2>4, <3>2 DEF Performed
      <4> QED BY <1>a, <2>1, <4>1
    <3>3. CASE current[w] \notin Received
      <4>1. Performed' = Performed \cup {current[w]}
        BY <2>4, <3>3 DEF Performed
      <4> QED BY <1>b, <2>1, <3>1, <4>1
    <3> QED BY <3>2, <3>3
  <2> QED BY <1>2, <2>2, <2>3, <2>4 DEF Proceeded
<1>3. ASSUME NEW w \in Workers, Recovered(w) PROVE Goal
  <2> DEFINE dropped == {e \in expired : attempts[e] >= MaxAttempts}
  <2>1. \A e \in dropped : status[e] = "PROCESSING" /\ status'[e] = "FAILED"
    BY <1>3 DEF Recovered, TypeOK
  <2>2. \A e \in Events \ dropped : \/ status'[e] = status[e]
                                    \/ status[e] = "PROCESSING" /\ status'[e] = "PENDING"
    BY <1>3 DEF Recovered, TypeOK
  <2>3. dropped \subseteq Events
    BY DEF TypeOK
  <2>4. \A e \in dropped : Fate[e] = "open" /\ Fate'[e] = "dropped"
    BY <2>1, <2>3, FateOf
  <2>5. \A e \in Events \ dropped : Fate'[e] = Fate[e]
    BY <2>2, FateOf
  <2>6. Fate' = [e \in Events |-> IF e \in dropped THEN "dropped" ELSE Fate[e]]
    <3> HIDE DEF dropped
    <3> QED BY <2>3, <2>4, <2>5 DEF Fate
  <2>7. dropped \in SUBSET {e \in Events : Fate[e] = "open"}
    BY <2>3, <2>4
  <2>8. Performed' = Performed
    BY <1>3 DEF Recovered, Performed
  <2>9. Queue!Drop
    <3> HIDE DEF dropped
    <3> QED BY <2>6, <2>7, <2>8 DEF Queue!Drop
  <2> QED BY <2>9 DEF Queue!Next
<1>4. ASSUME NEW w \in Workers, Committed(w) PROVE Goal
  <2>1. current[w] \in Events /\ current[w] \in Received
    BY <1>4 DEF Committed, TypeOK
  <2>2. /\ status[current[w]] = "PROCESSING" /\ status'[current[w]] = "PROCESSED"
        /\ \A f \in Events \ {current[w]} : status'[f] = status[f]
    BY <1>4, <2>1 DEF Committed, TypeOK
  <2>3. Fate[current[w]] = "open" /\ Fate'[current[w]] = "done"
    BY <2>1, <2>2, FateOf
  <2>4. Fate' = [Fate EXCEPT ![current[w]] = "done"]
    BY <2>1, <2>2, <2>3, FateExcept
  <2>5. Performed' = Performed \cup {current[w]}
    BY <1>4 DEF Committed, Performed
  <2> QED BY <2>1, <2>3, <2>4, <2>5 DEF Queue!Next, Queue!Finish
<1>5. ASSUME NEW w \in Workers, Faulted(w) PROVE Goal
  BY <1>5, <1>a, <1>c DEF Faulted, Performed
<1>6. ASSUME NEW w \in Workers, NEW batch \in SUBSET due, Claimed(w, batch) PROVE Goal
  <2>1. \A e \in Events : \/ status'[e] = status[e]
                          \/ status[e] = "PENDING" /\ status'[e] = "PROCESSING"
    BY <1>6 DEF Claimed, TypeOK
  <2>2. Fate' = Fate
    BY <2>1, FateSame
  <2>3. Performed' = Performed
    BY <1>6 DEF Claimed, Performed
  <2> QED BY <1>a, <2>2, <2>3
<1>7. ASSUME NEW w \in Workers, NEW new, Concluded(w, new) PROVE Goal
  <2> DEFINE e == current[w]
  <2>1. /\ e \in Events /\ held[w][e] \in Nat
        /\ \A f \in Events \ {e} : status'[f] = status[f]
        /\ status'[e] = IF status[e] = "PROCESSING" THEN new ELSE status[e]
    BY <1>7 DEF Concluded, TypeOK
  <2>2. Performed' = Performed
    BY <1>7 DEF Concluded, Performed
  <2>3. new \in {"PROCESSED", "PENDING", "FAILED"}
    BY <1>7, <2>1, AfterFailureTyped DEF Concluded
  <2>4. CASE status[e] # "PROCESSING" \/ new = "PENDING"
    <3>1. Fate' = Fate
      BY <2>1, <2>4, FateSame
    <3> QED BY <1>a, <2>2, <3>1
  <2>5. CASE status[e] = "PROCESSING" /\ new = "PROCESSED"
    <3>1. Fate[e] = "open" /\ Fate'[e] = "done"
      BY <2>1, <2>5, FateOf
    <3>2. Fate' = [Fate EXCEPT ![e] = "done"]
      BY <2>1, <3>1, FateExcept
    <3>3. step[w] = "done"
      BY <1>7, <2>1, <2>5, AfterFailureTyped DEF Concluded
    <3>4. e \in Performed
      BY <2>1, <3>3 DEF HandledInv, Performed
    <3>5. Performed' = Performed \cup {e}
      BY <2>2, <3>4
    <3>6. Queue!Finish(e)
      BY <3>1, <3>2, <3>5 DEF Queue!Finish
    <3> QED BY <2>1, <3>6 DEF Queue!Next
  <2>6. CASE status[e] = "PROCESSING" /\ new = "FAILED"
    <3>1. Fate[e] = "open" /\ Fate'[e] = "dropped"
      BY <2>1, <2>6, FateOf
    <3>2. Fate' = [Fate EXCEPT ![e] = "dropped"]
      BY <2>1, <3>1, FateExcept
    <3>3. Fate' = [f \in Events |-> IF f \in {e} THEN "dropped" ELSE Fate[f]]
      BY <2>1, <3>2 DEF Fate
    <3>4. {e} \in SUBSET {f \in Events : Fate[f] = "open"}
      BY <2>1, <3>1
    <3>5. Queue!Drop
      BY <2>2, <3>3, <3>4 DEF Queue!Drop
    <3> QED BY <3>5 DEF Queue!Next
  <2> QED BY <2>3, <2>4, <2>5, <2>6
<1> QED BY <1>1, <1>2, <1>3, <1>4, <1>5, <1>6, <1>7, StepShape

(* The worker implements the safety of the queue: no event is PROCESSED     *)
(* before its work is done, and none that was lost is found again.          *)
THEOREM OutboxIsQueue == Spec => KeepsQueue
<1>1. Init => HandledInv
  BY DEF Init, HandledInv, Nothing
<1>2. TypeOK /\ HandledInv /\ [Next]_vars => HandledInv'
  BY HandledInductive
<1>3. Init => Queue!Init
  BY DEF Init, Queue!Init, Fate, Performed
<1>4. TypeOK /\ HandledInv /\ [Next]_vars => [Queue!Next]_(Queue!queue)
  BY QueueStep
<1> QED BY <1>1, <1>2, <1>3, <1>4, TypeCorrect, PTL
        DEF Spec, KeepsQueue, Queue!SafeSpec
=============================================================================
