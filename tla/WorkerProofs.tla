---------------------------- MODULE WorkerProofs -----------------------------
(***************************************************************************)
(* Theorems about two parts of the worker that share nothing: the          *)
(* deliveries of WebhookDelivery, for every finite set of deliveries and   *)
(* of workers and every bound on attempts, batches, faults and shutdowns;  *)
(* and the heartbeat of WorkerProcess, for every set of processes and      *)
(* every interval, write time and limit that WorkerAssumption admits.      *)
(***************************************************************************)
EXTENDS WebhookDelivery, WorkerProcess, TLAPS

-----------------------------------------------------------------------------
(* Shapes of the actions: what each does to the rows and the tasks.         *)

LEMMA CurrentIs ==
  ASSUME TypeOK, NEW w \in Workers
  PROVE  /\ Current(w) \in Batches /\ Current(w)[1] = w
         /\ \A v \in Workers : Current(v) = Current(w) => v = w
  BY DEF TypeOK, Current, Batches

LEMMA ClaimShape ==
  ASSUME TypeOK, NEW w \in Workers, Claim(w)
  PROVE  \E claimed \in SUBSET Deliveries :
           /\ claimed \subseteq due \cup stale
           /\ mode[w] = "idle"
           /\ status' = [d \in Deliveries |-> IF d \in claimed THEN "PROCESSING" ELSE status[d]]
           /\ due' = due \ claimed /\ stale' = stale \ claimed
           /\ mode' = [mode EXCEPT ![w] = "busy"]
           /\ task' = [task EXCEPT ![Current(w)] =
                [d \in Deliveries |-> IF d \in claimed THEN "ready" ELSE "none"]]
           /\ claimedCount' = [claimedCount EXCEPT ![Current(w)] =
                [d \in Deliveries |-> IF d \in claimed THEN attemptCount[d] ELSE 0]]
           /\ UNCHANGED <<attemptCount, receiver, batch, bounds>>
<1>1. \A claimed \in Claims : claimed \subseteq due \cup stale /\ claimed \subseteq Deliveries
  BY DEF Claims, Claimable, TypeOK
<1> QED BY <1>1 DEF Claim, TakeRows

LEMMA ClaimLostShape ==
  ASSUME TypeOK, NEW w \in Workers, ClaimLost(w)
  PROVE  \E claimed \in SUBSET Deliveries :
           /\ faults < MaxFaults /\ faults' = faults + 1
           /\ status' = [d \in Deliveries |-> IF d \in claimed THEN "PROCESSING" ELSE status[d]]
           /\ due' = due \ claimed /\ stale' = stale \ claimed
           /\ UNCHANGED <<attemptCount, receiver, local, shutdowns>>
<1>1. \A claimed \in Claims : claimed \subseteq Deliveries
  BY DEF Claims, Claimable, TypeOK
<1> QED BY <1>1 DEF ClaimLost, TakeRows

(* The stage a task goes to when it does not end. *)
LEMMA ProcessShape ==
  ASSUME TypeOK, NEW b \in Batches, NEW d \in Deliveries,
         ReadEndpoint(b, d) \/ Answer(b, d)
  PROVE  \E stage \in {"sending", "success", "refused", "retry"} :
           /\ task[b][d] # "none"
           /\ task' = [task EXCEPT ![b][d] = stage]
           /\ accepted \subseteq accepted' /\ accepted' \subseteq accepted \cup {d}
           /\ refused \subseteq refused' /\ refused' \subseteq refused \cup {d}
           /\ stage = "success" => d \in accepted'
           /\ stage = "refused" => d \in refused'
           /\ UNCHANGED <<rows, mode, batch, claimedCount, bounds>>
  BY DEF ReadEndpoint, Answer, GoesTo, receiver

LEMMA AfterFailureIs ==
  ASSUME NEW b \in Batches, NEW d \in Deliveries
  PROVE  AfterFailure(b, d) \in {"PENDING", "FAILED"}
  BY DEF AfterFailure

(* An outcome is recorded, or not, and the task ends or is to be retried.   *)
LEMMA OutcomeShape ==
  ASSUME TypeOK, NEW b \in Batches, NEW d \in Deliveries,
         \/ Complete(b, d) \/ CompleteThrows(b, d)
         \/ Fail(b, d) \/ FailThrows(b, d)
  PROVE  \E new \in {"PENDING", "DELIVERED", "FAILED"}, stage \in {"none", "retry"} :
           /\ task[b][d] \in {"success", "refused", "retry"}
           /\ new = "DELIVERED" => task[b][d] = "success"
           /\ new = "FAILED" => \/ task[b][d] = "refused"
                                \/ claimedCount[b][d] + 1 >= MaxAttempts
           /\ task' = [task EXCEPT ![b][d] = stage]
           /\ claimedCount' = IF stage = "none" THEN [claimedCount EXCEPT ![b][d] = 0]
                              ELSE claimedCount
           /\ \/ RecordOutcome(d, new)
              \/ UNCHANGED rows /\ faults' = faults + 1
           /\ \/ faults' = faults /\ UNCHANGED batch
              \/ /\ faults < MaxFaults /\ faults' = faults + 1
                 /\ \/ batch' = [batch EXCEPT ![b[1]] = batch[b[1]] + 1]
                    \/ UNCHANGED batch
           /\ UNCHANGED <<receiver, mode, shutdowns>>
<1>1. CASE Complete(b, d)
  BY <1>1 DEF Complete, Ends, GoesTo, bounds
<1>2. CASE CompleteThrows(b, d)
  BY <1>2 DEF CompleteThrows, GoesTo
<1>3. AfterFailure(b, d) = "FAILED" =>
        task[b][d] # "retry" \/ claimedCount[b][d] + 1 >= MaxAttempts
  <2>1. claimedCount[b][d] \in Nat /\ MaxAttempts \in Nat
    BY DeliveryAssumption DEF TypeOK
  <2> QED BY <2>1 DEF AfterFailure
<1>4. CASE Fail(b, d)
  BY <1>3, <1>4, AfterFailureIs DEF Fail, Ends, GoesTo, bounds
<1>5. CASE FailThrows(b, d)
  <2>1. batch = [batch EXCEPT ![b[1]] = batch[b[1]]]
    BY DEF TypeOK
  <2>2. \/ batch' = [batch EXCEPT ![b[1]] = batch[b[1]] + 1]
        \/ UNCHANGED batch
    BY <1>5, <2>1 DEF FailThrows
  <2> QED BY <1>3, <1>5, <2>2, AfterFailureIs DEF FailThrows, Ends, GoesTo
<1> QED BY <1>1, <1>2, <1>4, <1>5

-----------------------------------------------------------------------------
(* Type correctness. *)

LEMMA Blank ==
  /\ NoTask \in [Deliveries -> Stage]
  /\ NoCount \in [Deliveries -> Nat]
BY DEF NoTask, NoCount, Stage

LEMMA ForgetsTyped ==
  ASSUME TypeOK, NEW w \in Workers, Forgets(w), UNCHANGED <<rows, receiver>>,
         faults' \in faults..MaxFaults, shutdowns' \in 0..MaxShutdowns
  PROVE  TypeOK'
<1>1. /\ task' \in [Batches -> [Deliveries -> Stage]]
      /\ claimedCount' \in [Batches -> [Deliveries -> Nat]]
  BY Blank DEF Forgets, TypeOK
<1>2. /\ mode' \in [Workers -> Mode]
      /\ batch' \in [Workers -> Numbers]
      /\ faults' \in 0..MaxFaults
      /\ \A v \in Workers : batch'[v] <= faults' + 1
  BY DeliveryAssumption DEF Forgets, TypeOK, Mode, Numbers
<1> QED BY <1>1, <1>2 DEF TypeOK, rows, receiver

LEMMA TypeInductive == TypeOK /\ [Next]_vars => TypeOK'
<1> SUFFICES ASSUME TypeOK, [Next]_vars PROVE TypeOK'
  OBVIOUS
<1> USE DeliveryAssumption
<1>f. faults \in faults..MaxFaults /\ shutdowns \in 0..MaxShutdowns
  BY DEF TypeOK
<1>1. CASE UNCHANGED vars
  BY <1>1 DEF TypeOK, vars, rows, receiver, local, bounds
<1>2. ASSUME NEW d \in Deliveries, Materialize(d) PROVE TypeOK'
  BY <1>2 DEF Materialize, TypeOK, Status, receiver, local, bounds
<1>3. ASSUME NEW d \in Deliveries, BackoffElapses(d) PROVE TypeOK'
  BY <1>3 DEF BackoffElapses, TypeOK, receiver, local, bounds
<1>4. ASSUME NEW d \in Deliveries, ClaimTimesOut(d) PROVE TypeOK'
  BY <1>4 DEF ClaimTimesOut, TypeOK, receiver, local, bounds
<1>5. ASSUME NEW w \in Workers, Claim(w) PROVE TypeOK'
  <2>1. PICK claimed \in SUBSET Deliveries :
          /\ status' = [d \in Deliveries |-> IF d \in claimed THEN "PROCESSING" ELSE status[d]]
          /\ due' = due \ claimed /\ stale' = stale \ claimed
          /\ mode' = [mode EXCEPT ![w] = "busy"]
          /\ task' = [task EXCEPT ![Current(w)] =
               [d \in Deliveries |-> IF d \in claimed THEN "ready" ELSE "none"]]
          /\ claimedCount' = [claimedCount EXCEPT ![Current(w)] =
               [d \in Deliveries |-> IF d \in claimed THEN attemptCount[d] ELSE 0]]
          /\ UNCHANGED <<attemptCount, receiver, batch, bounds>>
    BY <1>5, ClaimShape
  <2>2. /\ status' \in [Deliveries -> Status]
        /\ due' \subseteq {d \in Deliveries : status'[d] = "PENDING"}
        /\ stale' \subseteq {d \in Deliveries : status'[d] = "PROCESSING"}
    BY <2>1 DEF TypeOK, Status
  <2>3. task' \in [Batches -> [Deliveries -> Stage]]
    <3>1. [d \in Deliveries |-> IF d \in claimed THEN "ready" ELSE "none"]
            \in [Deliveries -> Stage]
      BY DEF Stage
    <3> QED BY <2>1, <3>1 DEF TypeOK
  <2>4. claimedCount' \in [Batches -> [Deliveries -> Nat]]
    <3>1. [d \in Deliveries |-> IF d \in claimed THEN attemptCount[d] ELSE 0]
            \in [Deliveries -> Nat]
      BY DEF TypeOK
    <3> QED BY <2>1, <3>1 DEF TypeOK
  <2>5. mode' \in [Workers -> Mode]
    BY <2>1 DEF TypeOK, Mode
  <2> QED BY <2>1, <2>2, <2>3, <2>4, <2>5 DEF TypeOK, receiver, bounds
<1>6. ASSUME NEW w \in Workers, BatchEnds(w) PROVE TypeOK'
  <2>1. CASE mode[w] = "busy" /\ mode' = [mode EXCEPT ![w] = "idle"]
             /\ UNCHANGED <<batch, task, claimedCount>>
    BY <1>6, <2>1 DEF BatchEnds, TypeOK, Mode, rows, receiver, bounds
  <2>2. CASE Forgets(w)
    BY <1>6, <1>f, <2>2, ForgetsTyped DEF BatchEnds, bounds
  <2> QED BY <1>6, <2>1, <2>2 DEF BatchEnds
<1>7. ASSUME NEW w \in Workers, Start(w) PROVE TypeOK'
  BY <1>7 DEF Start, TypeOK, Mode, rows, receiver, bounds
<1>8. ASSUME NEW w \in Workers, Crash(w) PROVE TypeOK'
  <2>1. faults' \in faults..MaxFaults /\ shutdowns' \in 0..MaxShutdowns
    BY <1>8 DEF Crash, TypeOK
  <2> QED BY <1>8, <2>1, ForgetsTyped DEF Crash
<1>9. ASSUME NEW w \in Workers, ClaimLost(w) PROVE TypeOK'
  <2>1. PICK claimed \in SUBSET Deliveries :
          /\ faults < MaxFaults /\ faults' = faults + 1
          /\ status' = [d \in Deliveries |-> IF d \in claimed THEN "PROCESSING" ELSE status[d]]
          /\ due' = due \ claimed /\ stale' = stale \ claimed
          /\ UNCHANGED <<attemptCount, receiver, local, shutdowns>>
    BY <1>9, ClaimLostShape
  <2>2. faults' \in 0..MaxFaults /\ \A v \in Workers : batch[v] <= faults' + 1
    BY <2>1 DEF TypeOK, Numbers
  <2> QED BY <2>1, <2>2 DEF TypeOK, Status, receiver, local
<1>10. ASSUME NEW w \in Workers, Shutdown(w) PROVE TypeOK'
  <2>1. faults' \in faults..MaxFaults /\ shutdowns' \in 0..MaxShutdowns
    BY <1>10 DEF Shutdown, TypeOK
  <2>2. CASE Forgets(w)
    BY <1>10, <2>1, <2>2, ForgetsTyped DEF Shutdown
  <2>3. CASE mode' = [mode EXCEPT ![w] = "stopping"] /\ UNCHANGED <<batch, task, claimedCount>>
    BY <1>10, <2>1, <2>3 DEF Shutdown, TypeOK, Mode, rows, receiver
  <2> QED BY <1>10, <2>2, <2>3 DEF Shutdown
<1>11. ASSUME NEW b \in Batches, NEW d \in Deliveries, ReadEndpoint(b, d) \/ Answer(b, d)
       PROVE  TypeOK'
  <2>1. PICK stage \in {"sending", "success", "refused", "retry"} :
          /\ task' = [task EXCEPT ![b][d] = stage]
          /\ accepted' \subseteq accepted \cup {d}
          /\ refused' \subseteq refused \cup {d}
          /\ UNCHANGED <<rows, mode, batch, claimedCount, bounds>>
    BY <1>11, ProcessShape
  <2>2. task' \in [Batches -> [Deliveries -> Stage]]
    BY <2>1 DEF TypeOK, Stage
  <2> QED BY <2>1, <2>2 DEF TypeOK, rows, bounds
<1>12. ASSUME NEW b \in Batches, NEW d \in Deliveries,
              \/ Complete(b, d) \/ CompleteThrows(b, d)
              \/ Fail(b, d) \/ FailThrows(b, d)
       PROVE  TypeOK'
  <2>1. PICK new \in {"PENDING", "DELIVERED", "FAILED"}, stage \in {"none", "retry"} :
          /\ task' = [task EXCEPT ![b][d] = stage]
          /\ claimedCount' = IF stage = "none" THEN [claimedCount EXCEPT ![b][d] = 0]
                             ELSE claimedCount
          /\ RecordOutcome(d, new) \/ UNCHANGED rows
          /\ \/ faults' = faults /\ UNCHANGED batch
             \/ /\ faults < MaxFaults /\ faults' = faults + 1
                /\ \/ batch' = [batch EXCEPT ![b[1]] = batch[b[1]] + 1]
                   \/ UNCHANGED batch
          /\ UNCHANGED <<receiver, mode, shutdowns>>
    BY <1>12, OutcomeShape
  <2>2. /\ task' \in [Batches -> [Deliveries -> Stage]]
        /\ claimedCount' \in [Batches -> [Deliveries -> Nat]]
    BY <2>1 DEF TypeOK, Stage
  <2>3. /\ status' \in [Deliveries -> Status]
        /\ attemptCount' \in [Deliveries -> Nat]
        /\ due' \subseteq {e \in Deliveries : status'[e] = "PENDING"}
        /\ stale' \subseteq {e \in Deliveries : status'[e] = "PROCESSING"}
    <3>1. CASE UNCHANGED rows
      BY <3>1 DEF TypeOK, rows
    <3>2. CASE RecordOutcome(d, new)
      BY <3>2 DEF TypeOK, RecordOutcome, Status
    <3> QED BY <2>1, <3>1, <3>2
  <2>4. /\ faults' \in 0..MaxFaults
        /\ batch' \in [Workers -> Numbers]
        /\ \A v \in Workers : batch'[v] <= faults' + 1
    <3>1. b[1] \in Workers
      BY DEF Batches
    <3>2. /\ faults \in 0..MaxFaults /\ batch \in [Workers -> Nat \ {0}]
          /\ \A v \in Workers : batch[v] <= faults + 1
      BY DEF TypeOK, Numbers
    <3>3. /\ faults' \in 0..MaxFaults /\ batch' \in [Workers -> Nat \ {0}]
          /\ \A v \in Workers : batch'[v] <= faults' + 1
      BY <2>1, <3>1, <3>2
    <3>4. \A v \in Workers : batch'[v] \in Numbers
      BY <3>3 DEF Numbers
    <3> QED BY <3>3, <3>4
  <2> QED BY <2>1, <2>2, <2>3, <2>4 DEF TypeOK, receiver
<1> QED BY <1>1, <1>2, <1>3, <1>4, <1>5, <1>6, <1>7, <1>8, <1>9, <1>10, <1>11, <1>12
        DEF Next, Poll, Process

(* Every reachable state of deliveries and workers is well typed.           *)
THEOREM TypeCorrect == Spec => []TypeOK
<1>1. Init => TypeOK
  BY DeliveryAssumption, Blank DEF Init, TypeOK, Status, Mode, Numbers
<1> QED BY <1>1, TypeInductive, PTL DEF Spec

-----------------------------------------------------------------------------
(* Outcomes. *)

(* What a worker knows of its delivery is so, and it was claimed on a count *)
(* of attempts that only grows.                                             *)
TaskInv == \A b \in Batches, d \in Deliveries :
  /\ task[b][d] = "success" => d \in accepted
  /\ task[b][d] = "refused" => d \in refused
  /\ task[b][d] # "none" => claimedCount[b][d] <= attemptCount[d]

OutcomeInv == TaskInv /\ DeliveredIsAccepted /\ GivenUpExhausted

LEMMA OutcomeInductive == TypeOK /\ OutcomeInv /\ [Next]_vars => OutcomeInv'
<1> SUFFICES ASSUME TypeOK, OutcomeInv, [Next]_vars PROVE OutcomeInv'
  OBVIOUS
<1> USE DeliveryAssumption DEF OutcomeInv, TaskInv, DeliveredIsAccepted, GivenUpExhausted
<1>1. ASSUME UNCHANGED <<status, attemptCount, receiver, task, claimedCount>> PROVE OutcomeInv'
  BY <1>1 DEF receiver
<1>2. ASSUME NEW w \in Workers, Forgets(w), UNCHANGED <<rows, receiver>>
      PROVE  OutcomeInv'
  <2>1. \A b \in Batches, d \in Deliveries :
          \/ task'[b][d] = "none"
          \/ task'[b][d] = task[b][d] /\ claimedCount'[b][d] = claimedCount[b][d]
    BY <1>2 DEF Forgets, NoTask
  <2> QED BY <1>2, <2>1 DEF rows, receiver
<1>3. ASSUME NEW d \in Deliveries, Materialize(d) PROVE OutcomeInv'
  BY <1>3 DEF Materialize, TypeOK, receiver, local
<1>4. ASSUME NEW w \in Workers, Claim(w) PROVE OutcomeInv'
  <2>1. PICK claimed \in SUBSET Deliveries :
          /\ status' = [d \in Deliveries |-> IF d \in claimed THEN "PROCESSING" ELSE status[d]]
          /\ task' = [task EXCEPT ![Current(w)] =
               [d \in Deliveries |-> IF d \in claimed THEN "ready" ELSE "none"]]
          /\ claimedCount' = [claimedCount EXCEPT ![Current(w)] =
               [d \in Deliveries |-> IF d \in claimed THEN attemptCount[d] ELSE 0]]
          /\ UNCHANGED <<attemptCount, receiver>>
    BY <1>4, ClaimShape
  <2>2. \A b \in Batches, d \in Deliveries :
          \/ task'[b][d] = task[b][d] /\ claimedCount'[b][d] = claimedCount[b][d]
          \/ task'[b][d] = "ready" /\ claimedCount'[b][d] = attemptCount[d]
          \/ task'[b][d] = "none"
    BY <2>1 DEF TypeOK
  <2>3. \A d \in Deliveries : status'[d] \in {"PROCESSING", status[d]} /\ attemptCount[d] \in Nat
    BY <2>1 DEF TypeOK
  <2> QED BY <2>1, <2>2, <2>3 DEF receiver
<1>5. ASSUME NEW w \in Workers, BatchEnds(w) PROVE OutcomeInv'
  BY <1>1, <1>2, <1>5 DEF BatchEnds, rows
<1>6. ASSUME NEW w \in Workers, ClaimLost(w) PROVE OutcomeInv'
  <2>1. PICK claimed \in SUBSET Deliveries :
          /\ status' = [d \in Deliveries |-> IF d \in claimed THEN "PROCESSING" ELSE status[d]]
          /\ UNCHANGED <<attemptCount, receiver, local>>
    BY <1>6, ClaimLostShape
  <2> QED BY <2>1 DEF TypeOK, receiver, local
<1>7. ASSUME NEW w \in Workers, Shutdown(w) PROVE OutcomeInv'
  BY <1>1, <1>2, <1>7 DEF Shutdown, rows
<1>8. ASSUME NEW b \in Batches, NEW d \in Deliveries, ReadEndpoint(b, d) \/ Answer(b, d)
      PROVE  OutcomeInv'
  <2>1. PICK stage \in {"sending", "success", "refused", "retry"} :
          /\ task[b][d] # "none"
          /\ task' = [task EXCEPT ![b][d] = stage]
          /\ accepted \subseteq accepted' /\ refused \subseteq refused'
          /\ stage = "success" => d \in accepted'
          /\ stage = "refused" => d \in refused'
          /\ UNCHANGED <<rows, claimedCount>>
    BY <1>8, ProcessShape
  <2>2. \A c \in Batches, e \in Deliveries :
          task'[c][e] = IF c = b /\ e = d THEN stage ELSE task[c][e]
    BY <2>1 DEF TypeOK
  <2> QED BY <2>1, <2>2 DEF rows
<1>9. ASSUME NEW b \in Batches, NEW d \in Deliveries,
             \/ Complete(b, d) \/ CompleteThrows(b, d)
             \/ Fail(b, d) \/ FailThrows(b, d)
      PROVE  OutcomeInv'
  <2>1. PICK new \in {"PENDING", "DELIVERED", "FAILED"}, stage \in {"none", "retry"} :
          /\ task[b][d] \in {"success", "refused", "retry"}
          /\ new = "DELIVERED" => task[b][d] = "success"
          /\ new = "FAILED" => \/ task[b][d] = "refused"
                               \/ claimedCount[b][d] + 1 >= MaxAttempts
          /\ task' = [task EXCEPT ![b][d] = stage]
          /\ claimedCount' = IF stage = "none" THEN [claimedCount EXCEPT ![b][d] = 0]
                             ELSE claimedCount
          /\ RecordOutcome(d, new) \/ UNCHANGED rows
          /\ UNCHANGED receiver
    BY <1>9, OutcomeShape
  <2>2. /\ \A e \in Deliveries : attemptCount[e] \in Nat
        /\ \A c \in Batches, e \in Deliveries : claimedCount[c][e] \in Nat
    BY DEF TypeOK
  <2>3. \A c \in Batches, e \in Deliveries :
          /\ task'[c][e] = IF c = b /\ e = d THEN stage ELSE task[c][e]
          /\ \/ claimedCount'[c][e] = claimedCount[c][e]
             \/ task'[c][e] = "none"
    BY <2>1 DEF TypeOK
  <2>4. CASE UNCHANGED rows
    BY <2>1, <2>2, <2>3, <2>4 DEF rows, receiver
  <2>5. CASE RecordOutcome(d, new)
    <3>1. \A e \in Deliveries :
            /\ status'[e] = IF e = d THEN new ELSE status[e]
            /\ attemptCount'[e] = IF e = d THEN attemptCount[e] + 1 ELSE attemptCount[e]
      BY <2>5 DEF RecordOutcome, TypeOK
    <3>2. TaskInv'
      BY <2>1, <2>2, <2>3, <3>1 DEF receiver
    <3>3. DeliveredIsAccepted'
      BY <2>1, <3>1 DEF receiver
    <3>4. GivenUpExhausted'
      BY <2>1, <2>2, <3>1 DEF receiver
    <3> QED BY <3>2, <3>3, <3>4
  <2> QED BY <2>1, <2>4, <2>5
<1> QED BY <1>1, <1>2, <1>3, <1>4, <1>5, <1>6, <1>7, <1>8, <1>9
        DEF Next, Poll, Process, BackoffElapses, ClaimTimesOut, Start, Crash,
            vars, rows, local

LEMMA OutcomeAlways == Spec => []OutcomeInv
<1>1. Init => OutcomeInv
  BY DEF Init, NoTask, OutcomeInv, TaskInv, DeliveredIsAccepted, GivenUpExhausted
<1> QED BY <1>1, OutcomeInductive, TypeCorrect, PTL DEF Spec

(* A delivery is DELIVERED only if its endpoint answered with success,      *)
(* whichever of the workers that hold it records its outcome.               *)
THEOREM DeliveredWasAccepted == Spec => []DeliveredIsAccepted
<1>1. OutcomeInv => DeliveredIsAccepted
  BY DEF OutcomeInv
<1> QED BY <1>1, OutcomeAlways, PTL

(* A delivery is given up only when it was refused or all its attempts were *)
(* made, although fail() judges by a stale count.                           *)
THEOREM GivenUpLast == Spec => []GivenUpExhausted
<1>1. OutcomeInv => GivenUpExhausted
  BY DEF OutcomeInv
<1> QED BY <1>1, OutcomeAlways, PTL

-----------------------------------------------------------------------------
(* Shutdowns. *)

(* Without faults no batch is rejected: a worker has the tasks of the batch *)
(* that it awaits.                                                          *)
HeldInv == faults = 0 =>
  /\ \A w \in Workers : batch[w] = 1
  /\ \A b \in Batches : b[2] # 1 \/ mode[b[1]] \in {"idle", "down"} => Tasks(b) = {}
  /\ NothingAbandoned

LEMMA HeldInductive == TypeOK /\ HeldInv /\ [Next]_vars => HeldInv'
<1> SUFFICES ASSUME TypeOK, HeldInv, [Next]_vars, faults' = 0 PROVE HeldInv'
  BY DEF HeldInv
<1>f. faults \in Nat /\ (faults' = faults \/ faults' = faults + 1)
  <2>1. faults \in Nat
    BY DeliveryAssumption DEF TypeOK
  <2>2. ASSUME NEW w \in Workers, Claim(w) PROVE faults' = faults
    BY <2>2, ClaimShape DEF bounds
  <2>3. ASSUME NEW w \in Workers, ClaimLost(w) PROVE faults' = faults + 1
    BY <2>3, ClaimLostShape
  <2>4. ASSUME NEW b \in Batches, NEW d \in Deliveries,
               \/ Complete(b, d) \/ CompleteThrows(b, d)
               \/ Fail(b, d) \/ FailThrows(b, d)
        PROVE  faults' = faults \/ faults' = faults + 1
    BY <2>4, OutcomeShape
  <2> QED BY <2>1, <2>2, <2>3, <2>4
      DEF Next, Poll, Process, Materialize, BackoffElapses, ClaimTimesOut, BatchEnds, Start,
          Crash, Shutdown, ReadEndpoint, Answer, vars, bounds
<1>0. /\ faults = 0 /\ NothingAbandoned
      /\ \A w \in Workers : batch[w] = 1
      /\ \A b \in Batches : b[2] # 1 \/ mode[b[1]] \in {"idle", "down"} => Tasks(b) = {}
  BY <1>f DEF HeldInv
<1> USE <1>0 DEF HeldInv, NothingAbandoned
<1>1. ASSUME UNCHANGED <<status, mode, batch, task>> PROVE HeldInv'
  BY <1>1 DEF Tasks
<1>2. ASSUME NEW w \in Workers, Forgets(w), UNCHANGED status,
             \A b \in Batches : b[1] = w => Tasks(b) = {}
      PROVE  HeldInv'
  <2>1. /\ \A v \in Workers : batch'[v] = 1
        /\ \A b \in Batches : task'[b] = IF b[1] = w THEN NoTask ELSE task[b]
        /\ \A b \in Batches : b[1] # w => mode'[b[1]] = mode[b[1]]
    BY <1>2 DEF Forgets, TypeOK, Batches
  <2>2. \A b \in Batches : Tasks(b)' = Tasks(b)
    BY <1>2, <2>1 DEF Tasks, NoTask
  <2>3. \A b \in Batches, d \in Deliveries : task[b][d] # "none" => task'[b][d] # "none"
    BY <2>2 DEF Tasks
  <2> QED BY <1>2, <2>1, <2>2, <2>3
<1>3. ASSUME NEW d \in Deliveries, Materialize(d) PROVE HeldInv'
  BY <1>3 DEF Materialize, TypeOK, Tasks, local
<1>4. ASSUME NEW w \in Workers, Claim(w) PROVE HeldInv'
  <2>1. PICK claimed \in SUBSET Deliveries :
          /\ mode[w] = "idle"
          /\ status' = [d \in Deliveries |-> IF d \in claimed THEN "PROCESSING" ELSE status[d]]
          /\ mode' = [mode EXCEPT ![w] = "busy"]
          /\ task' = [task EXCEPT ![Current(w)] =
               [d \in Deliveries |-> IF d \in claimed THEN "ready" ELSE "none"]]
          /\ UNCHANGED batch
    BY <1>4, ClaimShape
  <2>2. /\ Current(w) \in Batches /\ Current(w)[1] = w /\ Current(w)[2] = 1
        /\ \A b \in Batches : b # Current(w) => task'[b] = task[b]
        /\ \A d \in Deliveries : task[Current(w)][d] = "none"
        /\ \A d \in claimed : task'[Current(w)][d] = "ready"
    BY <2>1, CurrentIs DEF TypeOK, Current, Tasks
  <2>3. \A b \in Batches, d \in Deliveries : task[b][d] # "none" => task'[b][d] # "none"
    BY <2>2
  <2>4. \A b \in Batches : b # Current(w) => /\ Tasks(b)' = Tasks(b)
                                             /\ b[1] = w => b[2] # 1
                                             /\ b[1] # w => mode'[b[1]] = mode[b[1]]
    BY <2>1, <2>2 DEF Tasks, Batches, TypeOK, Current
  <2>5. \A b \in Batches : b[2] # 1 \/ mode'[b[1]] \in {"idle", "down"} => Tasks(b)' = {}
    BY <2>1, <2>2, <2>4 DEF TypeOK
  <2> QED BY <2>1, <2>2, <2>3, <2>5
<1>5. ASSUME NEW w \in Workers, Tasks(Current(w)) = {}
      PROVE  \A b \in Batches : b[1] = w => Tasks(b) = {}
  BY <1>5 DEF Current, Batches
<1>6. ASSUME NEW w \in Workers, BatchEnds(w) PROVE HeldInv'
  <2>1. \A b \in Batches : b[1] = w => Tasks(b) = {}
    BY <1>5, <1>6 DEF BatchEnds
  <2>2. CASE mode' = [mode EXCEPT ![w] = "idle"] /\ UNCHANGED <<batch, task>>
    BY <1>6, <2>1, <2>2 DEF BatchEnds, Tasks, TypeOK, Batches, rows
  <2> QED BY <1>2, <1>6, <2>1, <2>2 DEF BatchEnds, rows
<1>7. ASSUME NEW w \in Workers, Shutdown(w) PROVE HeldInv'
  <2>1. CASE mode[w] = "idle" /\ Forgets(w)
    BY <1>2, <1>7, <2>1 DEF Shutdown, rows
  <2>2. CASE mode' = [mode EXCEPT ![w] = "stopping"] /\ UNCHANGED <<batch, task>>
    BY <1>7, <2>2 DEF Shutdown, Tasks, TypeOK, Batches, rows
  <2> QED BY <1>7, <2>1, <2>2 DEF Shutdown
<1>8. ASSUME NEW w \in Workers, Start(w) PROVE HeldInv'
  <2>1. \A b \in Batches : b[1] = w => Tasks(b) = {}
    BY <1>8 DEF Start
  <2> QED BY <1>8, <2>1 DEF Start, Tasks, TypeOK, Batches, rows
<1>9. ASSUME NEW b \in Batches, NEW d \in Deliveries, ReadEndpoint(b, d) \/ Answer(b, d)
      PROVE  HeldInv'
  <2>1. PICK stage \in {"sending", "success", "refused", "retry"} :
          /\ task[b][d] # "none"
          /\ task' = [task EXCEPT ![b][d] = stage]
          /\ UNCHANGED <<rows, mode, batch>>
    BY <1>9, ProcessShape
  <2>2. \A c \in Batches, e \in Deliveries : task[c][e] # "none" <=> task'[c][e] # "none"
    BY <2>1 DEF TypeOK
  <2>3. \A c \in Batches : Tasks(c)' = Tasks(c)
    BY <2>2 DEF Tasks
  <2> QED BY <2>1, <2>2, <2>3 DEF rows
<1>10. ASSUME NEW b \in Batches, NEW d \in Deliveries,
              \/ Complete(b, d) \/ CompleteThrows(b, d)
              \/ Fail(b, d) \/ FailThrows(b, d)
       PROVE  HeldInv'
  <2>1. PICK new \in {"PENDING", "DELIVERED", "FAILED"}, stage \in {"none", "retry"} :
          /\ task[b][d] \in {"success", "refused", "retry"}
          /\ task' = [task EXCEPT ![b][d] = stage]
          /\ RecordOutcome(d, new) \/ faults' = faults + 1
          /\ UNCHANGED batch \/ faults' = faults + 1
          /\ UNCHANGED mode
    BY <1>10, OutcomeShape
  <2>2. RecordOutcome(d, new) /\ UNCHANGED batch
    BY <1>f, <2>1
  <2>3. \A c \in Batches, e \in Deliveries :
          /\ e # d => task'[c][e] = task[c][e]
          /\ task'[c][e] # "none" => task[c][e] # "none"
    BY <2>1 DEF TypeOK
  <2>4. \A e \in Deliveries : status'[e] = IF e = d THEN new ELSE status[e]
    BY <2>2 DEF RecordOutcome, TypeOK
  <2>5. \A c \in Batches : Tasks(c)' \subseteq Tasks(c)
    BY <2>3 DEF Tasks
  <2> QED BY <2>1, <2>2, <2>3, <2>4, <2>5
<1>11. ASSUME NEW w \in Workers, Crash(w) \/ ClaimLost(w) PROVE FALSE
  <2>1. faults' = faults + 1
    BY <1>11, ClaimLostShape DEF Crash
  <2> QED BY <2>1, <1>f
<1> QED BY <1>1, <1>3, <1>4, <1>6, <1>7, <1>8, <1>9, <1>10, <1>11
        DEF Next, Poll, Process, BackoffElapses, ClaimTimesOut, vars, rows, local

(* Without faults a claimed delivery is always in the hands of a worker,    *)
(* graceful shutdowns included (onApplicationShutdown).                     *)
THEOREM ShutdownAbandonsNothing == Spec => []NothingAbandoned
<1>1. Init => HeldInv
  BY DEF Init, HeldInv, NothingAbandoned, Tasks, NoTask
<1>2. HeldInv => NothingAbandoned
  BY DEF HeldInv, NothingAbandoned
<1> QED BY <1>1, <1>2, HeldInductive, TypeCorrect, PTL DEF Spec

-----------------------------------------------------------------------------
(* The heartbeat. *)

(* The longest a timer stays in a step. *)
Lasts(step) == IF step = "armed" THEN HeartbeatEvery ELSE WriteTime

(* How old the row may be when a timer has just entered a step.            *)
AgeAtEntry(step) == IF step = "armed" THEN WriteTime ELSE HeartbeatEvery + WriteTime

Timer == [step : {"armed", "writing"}, seconds : Nat]

(* No timer is late, and the row is not older than the last heartbeat of   *)
(* any process that beats, whichever process has written it.               *)
HeartInv ==
  /\ heart \in [Processes -> Timer \cup {Off}]
  /\ lastSeen \in Nat \cup {Off}
  /\ beating \subseteq {w \in Processes : process[w] = "up" /\ heart[w] # Off}
  /\ DOMAIN process = Processes
  /\ \A w \in Processes : heart[w] # Off => heart[w].seconds <= Lasts(heart[w].step)
  /\ \A w \in beating :
       lastSeen # Off /\ lastSeen <= heart[w].seconds + AgeAtEntry(heart[w].step)

LEMMA OffIsNoTimer ==
  /\ Off \notin Nat /\ Off \notin Timer
  /\ HeartbeatEvery \in Nat /\ WriteTime \in Nat /\ StaleAfter \in Nat
  /\ HeartbeatEvery + 2 * WriteTime <= StaleAfter
BY WorkerAssumption DEF Timer

LEMMA HeartInit == ProcessInit => HeartInv
BY OffIsNoTimer DEF ProcessInit, HeartInv

(* A process that starts, or whose timers are cleared, does not beat.      *)
LEMMA TimerReset ==
  ASSUME HeartInv, NEW w \in Processes, w \notin beating',
         NEW t \in {Off, heart[w], [step |-> "armed", seconds |-> HeartbeatEvery]},
         NEW up \in {"up", "closing", "down"},
         process' = [process EXCEPT ![w] = up],
         heart' = [heart EXCEPT ![w] = t],
         beating' \subseteq beating, lastSeen' = lastSeen
  PROVE  HeartInv'
<1>1. /\ \A v \in Processes \ {w} : heart'[v] = heart[v] /\ process'[v] = process[v]
      /\ heart'[w] = t
      /\ \A v \in beating' : v # w /\ v \in beating
  BY DEF HeartInv
<1>2. t # Off => t \in Timer /\ t.seconds <= Lasts(t.step)
  BY OffIsNoTimer DEF HeartInv, Timer, Lasts
<1>3. heart' \in [Processes -> Timer \cup {Off}] /\ DOMAIN process' = Processes
  BY <1>2 DEF HeartInv
<1>4. \A v \in Processes : heart'[v] # Off => heart'[v].seconds <= Lasts(heart'[v].step)
  BY <1>1, <1>2 DEF HeartInv
<1>5. \A v \in beating' :
        /\ v \in Processes /\ process'[v] = "up" /\ heart'[v] # Off
        /\ lastSeen' # Off /\ lastSeen' <= heart'[v].seconds + AgeAtEntry(heart'[v].step)
  BY <1>1 DEF HeartInv
<1> QED BY <1>3, <1>4, <1>5 DEF HeartInv

LEMMA ResetsKeepHeart ==
  ASSUME HeartInv, NEW w \in Processes,
         \/ StartProcess(w) \/ StopProcess(w) \/ Exit(w) \/ KillProcess(w) \/ EndScript(w)
  PROVE  HeartInv'
<1>1. heart = [heart EXCEPT ![w] = heart[w]]
  BY DEF HeartInv
<1>2. CASE StartProcess(w)
  <2>1. w \notin beating
    BY <1>2 DEF StartProcess, HeartInv
  <2> QED BY <1>2, <2>1, TimerReset DEF StartProcess
<1>3. CASE Exit(w)
  <2>1. w \notin beating
    BY <1>3 DEF Exit, HeartInv
  <2> QED BY <1>1, <1>3, <2>1, TimerReset DEF Exit, timers
<1>4. CASE KillProcess(w)
  BY <1>4, TimerReset DEF KillProcess
<1>5. CASE Close(w)
  <2> DEFINE t == IF heart[w] # Off /\ heart[w].step = "armed" THEN Off ELSE heart[w]
  <2>1. t \in {Off, heart[w]} /\ heart' = [heart EXCEPT ![w] = t]
    BY <1>5 DEF Close
  <2> HIDE DEF t
  <2> QED BY <1>5, <2>1, TimerReset DEF Close
<1> QED BY <1>2, <1>3, <1>4, <1>5 DEF StopProcess, EndScript

LEMMA BeatsKeepHeart ==
  ASSUME HeartInv, NEW w \in Processes,
         Heartbeat(w) \/ WriteHeartbeat(w) \/ MissHeartbeat(w)
  PROVE  HeartInv'
<1>1. /\ heart[w] # Off /\ heart[w] \in Timer
      /\ process' = process
  BY DEF HeartInv, Heartbeat, WriteHeartbeat, MissHeartbeat, Beating
<1>2. CASE Heartbeat(w)
  <2> DEFINE t == [step |-> "writing", seconds |-> 0]
  <2>1. /\ heart' = [heart EXCEPT ![w] = t] /\ t \in Timer /\ t.seconds = 0 /\ t.step = "writing"
        /\ heart[w].step = "armed" /\ heart[w].seconds = HeartbeatEvery
        /\ UNCHANGED <<lastSeen, beating>>
    BY <1>1, <1>2, OffIsNoTimer DEF Heartbeat, Beating, HeartInv, Timer, Lasts
  <2> HIDE DEF t
  <2>2. \A v \in Processes : heart'[v] = IF v = w THEN t ELSE heart[v]
    BY <2>1 DEF HeartInv
  <2>3. \A v \in Processes : heart'[v] # Off => heart'[v].seconds <= Lasts(heart'[v].step)
    BY <2>1, <2>2, OffIsNoTimer DEF HeartInv, Lasts
  <2>4. \A v \in beating' :
          /\ process'[v] = "up" /\ heart'[v] # Off /\ v \in Processes
          /\ lastSeen' # Off /\ lastSeen' <= heart'[v].seconds + AgeAtEntry(heart'[v].step)
    BY <1>1, <2>1, <2>2, OffIsNoTimer DEF HeartInv, AgeAtEntry
  <2> QED BY <1>1, <2>1, <2>3, <2>4 DEF HeartInv
<1>3. CASE WriteHeartbeat(w) \/ MissHeartbeat(w)
  <2>1. PICK t \in {Off, [step |-> "armed", seconds |-> 0]} :
          /\ heart' = [heart EXCEPT ![w] = t]
          /\ process[w] = "up" => t # Off
    BY <1>3, OffIsNoTimer DEF WriteHeartbeat, MissHeartbeat, NextHeartbeat, Timer
  <2>2. t # Off => t \in Timer /\ t.seconds = 0 /\ t.step = "armed"
    BY OffIsNoTimer DEF Timer
  <2>3. \A v \in Processes : heart'[v] = IF v = w THEN t ELSE heart[v]
    BY <2>1 DEF HeartInv
  <2>4. heart' \in [Processes -> Timer \cup {Off}]
    BY <2>1, <2>2 DEF HeartInv
  <2>5. \A v \in Processes : heart'[v] # Off => heart'[v].seconds <= Lasts(heart'[v].step)
    BY <2>2, <2>3, OffIsNoTimer DEF HeartInv, Lasts
  <2>6. CASE WriteHeartbeat(w)
    <3>1. /\ lastSeen' \in Nat /\ lastSeen' <= WriteTime
          /\ beating' \subseteq beating \cup {w}
          /\ w \in beating' => process[w] = "up"
      BY <1>1, <2>6, OffIsNoTimer DEF WriteHeartbeat, Beating, HeartInv, Timer, Lasts
    <3>2. \A v \in beating' : v \in Processes /\ process'[v] = "up" /\ heart'[v] # Off
      BY <1>1, <2>1, <2>3, <3>1 DEF HeartInv
    <3>3. \A v \in beating' : heart'[v] \in Timer
      BY <2>4, <3>2
    <3>4. \A v \in beating' : lastSeen' <= heart'[v].seconds + AgeAtEntry(heart'[v].step)
      BY <3>1, <3>3, OffIsNoTimer DEF AgeAtEntry, Timer
    <3> QED BY <1>1, <2>4, <2>5, <3>1, <3>2, <3>4, OffIsNoTimer DEF HeartInv
  <2>7. CASE MissHeartbeat(w)
    <3>1. lastSeen' = lastSeen /\ beating' = beating \ {w}
      BY <2>7 DEF MissHeartbeat
    <3> QED BY <1>1, <2>3, <2>4, <2>5, <3>1 DEF HeartInv
  <2> QED BY <1>3, <2>6, <2>7
<1> QED BY <1>2, <1>3

LEMMA SecondKeepsHeart == HeartInv /\ Second => HeartInv'
<1> SUFFICES ASSUME HeartInv, Second PROVE HeartInv'
  OBVIOUS
<1>1. /\ \A w \in Processes : heart[w] # Off => heart[w].seconds < Lasts(heart[w].step)
      /\ lastSeen' = IF lastSeen \in 0..StaleAfter THEN lastSeen + 1 ELSE lastSeen
      /\ heart' = [w \in Processes |-> IF heart[w] = Off THEN Off
                                       ELSE [heart[w] EXCEPT !.seconds = heart[w].seconds + 1]]
      /\ UNCHANGED <<process, beating>>
  BY DEF Second, Lasts
<1>2. \A w \in Processes : heart[w] # Off =>
        /\ heart[w] \in Timer /\ heart'[w] \in Timer
        /\ heart'[w].seconds = heart[w].seconds + 1
        /\ heart'[w].step = heart[w].step
  BY <1>1 DEF HeartInv, Timer
<1>3. \A w \in Processes : heart[w] = Off <=> heart'[w] = Off
  BY <1>1, <1>2, OffIsNoTimer
<1>4. heart' \in [Processes -> Timer \cup {Off}]
  BY <1>1, <1>2
<1>5. lastSeen # Off => lastSeen' \in Nat /\ lastSeen' <= lastSeen + 1
  BY <1>1, OffIsNoTimer DEF HeartInv
<1>6. lastSeen' \in Nat \cup {Off}
  BY <1>1, <1>5 DEF HeartInv
<1>7. \A w \in Processes : heart'[w] # Off => heart'[w].seconds <= Lasts(heart'[w].step)
  BY <1>1, <1>2, <1>3, OffIsNoTimer DEF Timer, Lasts
<1>8. \A w \in beating' :
        /\ w \in Processes /\ process'[w] = "up" /\ heart'[w] # Off
        /\ lastSeen' # Off /\ lastSeen' <= heart'[w].seconds + AgeAtEntry(heart'[w].step)
  <2> SUFFICES ASSUME NEW w \in beating
               PROVE  /\ w \in Processes /\ process'[w] = "up" /\ heart'[w] # Off
                      /\ lastSeen' # Off
                      /\ lastSeen' <= heart'[w].seconds + AgeAtEntry(heart'[w].step)
    BY <1>1
  <2>1. /\ w \in Processes /\ process[w] = "up" /\ heart[w] # Off
        /\ lastSeen \in Nat /\ lastSeen # Off
        /\ lastSeen <= heart[w].seconds + AgeAtEntry(heart[w].step)
    BY DEF HeartInv
  <2> QED BY <1>1, <1>2, <1>3, <1>5, <2>1, OffIsNoTimer DEF Timer, AgeAtEntry
<1> QED BY <1>1, <1>4, <1>6, <1>7, <1>8 DEF HeartInv

LEMMA HeartInductive == HeartInv /\ [ProcessNext]_processVars => HeartInv'
<1> SUFFICES ASSUME HeartInv, [ProcessNext]_processVars PROVE HeartInv'
  OBVIOUS
<1>1. CASE UNCHANGED <<process, heart, lastSeen, beating>>
  BY <1>1 DEF HeartInv
<1>2. CASE Second
  BY <1>2, SecondKeepsHeart
<1>3. ASSUME NEW m \in Merchants, Arrive(m) PROVE HeartInv'
  BY <1>1, <1>3 DEF Arrive, timers
<1>4. ASSUME NEW w \in Processes,
             \/ FireScheduler(w) \/ GenerateFile(w) \/ EndRun(w) \/ FailRun(w)
      PROVE  HeartInv'
  BY <1>1, <1>4 DEF FireScheduler, GenerateFile, EndRun, FailRun, timers
<1>5. ASSUME NEW w \in Processes,
             \/ StartProcess(w) \/ StopProcess(w) \/ Exit(w) \/ KillProcess(w) \/ EndScript(w)
      PROVE  HeartInv'
  BY <1>5, ResetsKeepHeart
<1>6. ASSUME NEW w \in Processes, Heartbeat(w) \/ WriteHeartbeat(w) \/ MissHeartbeat(w)
      PROVE  HeartInv'
  BY <1>6, BeatsKeepHeart
<1>7. CASE UNCHANGED processVars
  BY <1>1, <1>7 DEF processVars, timers
<1> QED BY <1>2, <1>3, <1>4, <1>5, <1>6, <1>7 DEF ProcessNext

(* The system status shows HEALTHY as long as some process beats: the      *)
(* interval from the end of a write, the writes at both its ends and the   *)
(* heartbeats of other processes never make the row (workerHealth) older   *)
(* than its limit.                                                         *)
THEOREM BeatingIsHealthy == ProcessSpec => []LiveWorkerIsHealthy
<1>1. HeartInv => LiveWorkerIsHealthy
  <2> SUFFICES ASSUME HeartInv, NEW w \in beating PROVE workerHealth = "HEALTHY"
    BY DEF LiveWorkerIsHealthy
  <2>1. /\ heart[w] \in Timer /\ lastSeen \in Nat /\ lastSeen # Off
        /\ heart[w].seconds <= Lasts(heart[w].step)
        /\ lastSeen <= heart[w].seconds + AgeAtEntry(heart[w].step)
    BY DEF HeartInv
  <2>2. lastSeen <= StaleAfter
    BY <2>1, OffIsNoTimer DEF Timer, Lasts, AgeAtEntry
  <2> QED BY <2>1, <2>2 DEF workerHealth
<1> QED BY <1>1, HeartInit, HeartInductive, PTL DEF ProcessSpec
=============================================================================
