--------------------------- MODULE SimulatorProofs ---------------------------
(***************************************************************************)
(* Theorems about SimulatorRun, for any number of payments, loops and      *)
(* requests.                                                               *)
(***************************************************************************)
EXTENDS SimulatorRun, FiniteSetTheorems, TLAPS

(* A loop counts one success or failure for each index that it leaves       *)
(* behind, so that whoever completes the run, or has completed it, found    *)
(* enough of them; what a loop has read of generatedCount is not more.      *)
CountInv ==
  /\ generated <= successful + failed
  /\ status = "COMPLETED" => successful + failed >= Count
  /\ \A l \in Loops :
       /\ at[l] = "unused" => index[l] = 0
       /\ seen[l] <= successful + failed
       /\ index[l] <= successful + failed
       /\ at[l] = "sleeping" => index[l] + 1 <= successful + failed
       /\ at[l] = "completing" => successful + failed >= Count

(* A loop that is about to create a payment has created none since the stop.*)
LateInv == status = "STOPPED" => \A l \in Loops :
  late[l] <= 1 /\ (at[l] = "creating" => late[l] = 0)

(* At most one loop was ever launched. *)
Alone == \A k, l \in Loops : at[k] # "unused" /\ at[l] # "unused" => k = l

(* A loop that is alone has read what it will write one more than.          *)
AloneInv == Alone =>
  /\ generated = successful + failed
  /\ \A l \in Loops : at[l] \in {"creating", "repeating", "counting"} => seen[l] = generated

RunInv ==
  /\ TypeOK
  /\ CountInv
  /\ LateInv
  /\ AloneInv
  /\ RunningIsExecuted

LEMMA RunInit == Init => RunInv
  BY SimulatorAssumption
  DEF Init, RunInv, TypeOK, CountInv, LateInv, AloneInv, Alone, RunningIsExecuted,
      Status, Stage, Working, NoRequest, Indexes

LEMMA RunStep == RunInv /\ [Next]_vars => RunInv'
<1> SUFFICES ASSUME RunInv, [Next]_vars
             PROVE  RunInv'
  OBVIOUS
<1> USE SimulatorAssumption
    DEF RunInv, TypeOK, CountInv, LateInv, AloneInv, Alone, RunningIsExecuted,
        Status, Stage, Working, Running, NoRequest, Indexes, counters, loop, tried, GoesTo, Fault, SetStatus
<1>1. ASSUME NEW l \in Loops, CreateRun(l)
      PROVE  RunInv'
  BY <1>1 DEF CreateRun, Launch
<1>2. ASSUME NEW l \in Loops, ReadRun(l)
      PROVE  RunInv'
  BY <1>2 DEF ReadRun, Halted
<1>3. ASSUME NEW l \in Loops, CreatePayment(l)
      PROVE  RunInv'
  <2>1. /\ at' \in [Loops -> Stage] /\ late' \in [Loops -> Nat] /\ payments' \subseteq Merchants \X Indexes
        /\ \A k \in Loops \ {l} : at'[k] = at[k] /\ late'[k] = late[k]
        /\ at'[l] \in {"repeating", "counting", "failing"}
        /\ status = "STOPPED" => late'[l] <= 1
    BY <1>3 DEF CreatePayment
  <2> QED BY <1>3, <2>1 DEF CreatePayment
<1>4. ASSUME NEW l \in Loops, RepeatPayment(l)
      PROVE  RunInv'
  BY <1>4 DEF RepeatPayment
<1>5. ASSUME NEW l \in Loops, CountAttempt(l)
      PROVE  RunInv'
  BY <1>5 DEF CountAttempt, AddAttempt
<1>6. ASSUME NEW l \in Loops, CountRejects(l)
      PROVE  RunInv'
  BY <1>6 DEF CountRejects, AddAttempt
<1>7. ASSUME NEW l \in Loops, CountFailure(l)
      PROVE  RunInv'
  BY <1>7 DEF CountFailure, AddFailure
<1>8. ASSUME NEW l \in Loops, NextIndex(l)
      PROVE  RunInv'
  BY <1>8 DEF NextIndex, More
<1>9. ASSUME NEW l \in Loops, Complete(l)
      PROVE  RunInv'
  BY <1>9 DEF Complete
<1>10. ASSUME NEW l \in Loops, Rejects(l)
       PROVE  RunInv'
  <2>1. CASE at[l] = "reading"
    BY <1>10, <2>1 DEF Rejects
  <2>2. CASE at[l] = "failing"
    <3>1. CASE AddFailure
      BY <1>10, <2>2, <3>1 DEF Rejects, AddFailure
    <3>2. CASE UNCHANGED counters
      BY <1>10, <2>2, <3>2 DEF Rejects
    <3> QED BY <1>10, <2>2, <3>1, <3>2 DEF Rejects
  <2>3. CASE at[l] = "completing"
    BY <1>10, <2>3 DEF Rejects
  <2> QED BY <1>10, <2>1, <2>2, <2>3 DEF Rejects
<1>11. ASSUME NEW l \in Loops, FailRun(l)
       PROVE  RunInv'
  BY <1>11 DEF FailRun
<1>12. ASSUME NEW c \in Callers, CheckStatus(c)
       PROVE  RunInv'
  BY <1>12 DEF CheckStatus, Expected
<1>13. ASSUME NEW c \in Callers, Transition(c)
       PROVE  RunInv'
  BY <1>13 DEF Transition, Launch
<1>14. ASSUME NEW c \in Callers, RequestFails(c)
       PROVE  RunInv'
  <2>1. CASE UNCHANGED <<status, late, faults>>
    BY <1>14, <2>1 DEF RequestFails
  <2>2. CASE Fault /\ SetStatus(request[c].to)
    <3>1. request[c].to \in {"RUNNING", "PAUSED", "STOPPED"}
      BY <1>14 DEF RequestFails
    <3>2. UNCHANGED <<generated, successful, failed, payments, at, index, seen, selected,
                     attempts, recounted>>
      BY <1>14 DEF RequestFails, tried
    <3>3. faults' \in 0 .. MaxFaults /\ faults' # 0
      BY <2>2
    <3>4. /\ status' \in {"RUNNING", "PAUSED", "STOPPED"}
          /\ late' \in [Loops -> Nat]
          /\ LateInv'
      BY <2>2, <3>1, <3>2
    <3>5. TypeOK'
      BY <1>14, <3>2, <3>3, <3>4 DEF RequestFails
    <3> QED BY <3>2, <3>3, <3>4, <3>5
  <2> QED BY <1>14, <2>1, <2>2 DEF RequestFails
<1>15. CASE Crash
  BY <1>15 DEF Crash
<1>16. CASE UNCHANGED vars
  BY <1>16 DEF vars
<1> QED BY <1>1, <1>2, <1>3, <1>4, <1>5, <1>6, <1>7, <1>8, <1>9, <1>10, <1>11, <1>12,
           <1>13, <1>14, <1>15, <1>16 DEF Next, Execute

-----------------------------------------------------------------------------
(* Attempts.  A loop that has tried a payment and has not counted it yet    *)
(* owes a success or a failure: with those, successes and failures are no   *)
(* more than the attempts and the updates that are made a second time.      *)
Owing == {l \in Loops : at[l] \in {"repeating", "counting", "failing"}}

AttemptInv == successful + failed + Cardinality(Owing) <= attempts + recounted

LEMMA OwingIsFinite == IsFiniteSet(Owing) /\ Cardinality(Owing) \in Nat
  BY FS_Subset, FS_CardinalityType, SimulatorAssumption DEF Owing

LEMMA AttemptInit == Init => AttemptInv
<1> SUFFICES ASSUME Init PROVE AttemptInv
  OBVIOUS
<1>1. Owing = {}
  BY DEF Init, Owing
<1> QED BY <1>1, FS_EmptySet DEF Init, AttemptInv

(* No loop comes to owe, and none counts. *)
LEMMA NoneOwesMore ==
  ASSUME TypeOK, AttemptInv, Owing' \subseteq Owing,
         UNCHANGED <<successful, failed, attempts, recounted>>
  PROVE  AttemptInv'
<1>1. IsFiniteSet(Owing') /\ Cardinality(Owing') <= Cardinality(Owing)
  BY OwingIsFinite, FS_Subset
<1>2. Cardinality(Owing') \in Nat
  BY <1>1, FS_CardinalityType
<1> QED BY <1>1, <1>2, OwingIsFinite DEF AttemptInv, TypeOK

(* A loop that owes counts at most once and owes no more. *)
LEMMA OneCounts ==
  ASSUME TypeOK, AttemptInv, NEW l \in Owing, Owing' = Owing \ {l},
         successful' + failed' \in {successful + failed, successful + failed + 1},
         UNCHANGED tried
  PROVE  AttemptInv'
<1>1. Cardinality(Owing') = Cardinality(Owing) - 1
  BY OwingIsFinite, FS_RemoveElement
<1> QED BY <1>1, OwingIsFinite DEF AttemptInv, TypeOK, tried

LEMMA AttemptStep == TypeOK /\ AttemptInv /\ [Next]_vars => AttemptInv'
<1> SUFFICES ASSUME TypeOK, AttemptInv, [Next]_vars
             PROVE  AttemptInv'
  OBVIOUS
<1>1. ASSUME NEW l \in Loops, CreatePayment(l)
      PROVE  AttemptInv'
  <2>1. l \notin Owing /\ Owing' = Owing \cup {l}
    BY <1>1 DEF CreatePayment, GoesTo, Owing, TypeOK
  <2>2. Cardinality(Owing') = Cardinality(Owing) + 1
    BY <2>1, OwingIsFinite, FS_AddElement
  <2>3. /\ UNCHANGED <<successful, failed, recounted>>
        /\ attempts' = attempts + 1
    BY <1>1 DEF CreatePayment, counters
  <2> QED BY <2>2, <2>3, OwingIsFinite DEF AttemptInv, TypeOK
<1>2. ASSUME NEW l \in Loops, CountAttempt(l) \/ CountFailure(l)
      PROVE  AttemptInv'
  <2>1. l \in Owing /\ Owing' = Owing \ {l}
    BY <1>2 DEF CountAttempt, CountFailure, GoesTo, Owing, TypeOK
  <2>2. successful' + failed' = successful + failed + 1 /\ UNCHANGED tried
    BY <1>2 DEF CountAttempt, CountFailure, AddAttempt, AddFailure, TypeOK, tried
  <2> QED BY <2>1, <2>2, OneCounts
<1>3. ASSUME NEW l \in Loops, CountRejects(l)
      PROVE  AttemptInv'
  <2>1. Owing' = Owing
    BY <1>3 DEF CountRejects, GoesTo, Owing, TypeOK
  <2>2. CASE AddAttempt(l) /\ recounted' = recounted + 1
    <3>1. successful' + failed' = successful + failed + 1 /\ attempts' = attempts
      BY <1>3, <2>2 DEF CountRejects, AddAttempt, TypeOK
    <3> QED BY <2>1, <2>2, <3>1, OwingIsFinite DEF AttemptInv, TypeOK
  <2>3. CASE UNCHANGED <<counters, recounted>>
    BY <1>3, <2>1, <2>3, NoneOwesMore DEF CountRejects, counters
  <2> QED BY <1>3, <2>2, <2>3 DEF CountRejects
<1>4. ASSUME NEW l \in Loops, Rejects(l), at[l] = "failing"
      PROVE  AttemptInv'
  <2>1. l \in Owing /\ Owing' = Owing \ {l}
    BY <1>4 DEF Rejects, GoesTo, Owing, TypeOK
  <2>2. /\ successful' + failed' \in {successful + failed, successful + failed + 1}
        /\ UNCHANGED tried
    BY <1>4 DEF Rejects, AddFailure, TypeOK, counters
  <2> QED BY <2>1, <2>2, OneCounts
<1>5. ASSUME NEW l \in Loops,
             \/ CreateRun(l) \/ ReadRun(l) \/ RepeatPayment(l) \/ NextIndex(l)
             \/ Complete(l) \/ FailRun(l)
             \/ (Rejects(l) /\ at[l] # "failing")
      PROVE  AttemptInv'
  <2>1. Owing' \subseteq Owing /\ UNCHANGED <<successful, failed, attempts, recounted>>
    BY <1>5 DEF CreateRun, Launch, ReadRun, RepeatPayment, NextIndex, Complete, FailRun,
                Rejects, GoesTo, Owing, TypeOK, counters, tried, loop
  <2> QED BY <2>1, NoneOwesMore
<1>6. ASSUME \/ \E c \in Callers : CheckStatus(c) \/ Transition(c) \/ RequestFails(c)
             \/ Crash
             \/ UNCHANGED vars
      PROVE  AttemptInv'
  <2>1. Owing' \subseteq Owing /\ UNCHANGED <<successful, failed, attempts, recounted>>
    BY <1>6 DEF CheckStatus, Transition, Launch, RequestFails, Crash, GoesTo, Owing, TypeOK,
                counters, tried, loop, vars
  <2> QED BY <2>1, NoneOwesMore
<1>7. ASSUME NEW l \in Loops, Rejects(l)
      PROVE  AttemptInv'
  BY <1>4, <1>5, <1>7
<1>8. ASSUME NEW l \in Loops, Execute(l)
      PROVE  AttemptInv'
  BY <1>1, <1>2, <1>5, <1>8 DEF Execute
<1> QED BY <1>3, <1>5, <1>6, <1>7, <1>8 DEF Next

LEMMA CountedIsTried ==
  ASSUME TypeOK, AttemptInv PROVE successful + failed <= attempts + recounted
  BY OwingIsFinite DEF AttemptInv, TypeOK

-----------------------------------------------------------------------------
(* Successes and payments.  Each loop that has created a payment and has    *)
(* not yet counted it owes a success: with those, successes are no more     *)
(* than payments.                                                           *)
Uncounted == {l \in Loops : at[l] \in {"repeating", "counting"}}

SuccessInv ==
  /\ IsFiniteSet(payments)
  /\ successful + Cardinality(Uncounted) <= Cardinality(payments)

LEMMA SuccessInit == Init => SuccessInv
<1> SUFFICES ASSUME Init PROVE SuccessInv
  OBVIOUS
<1>1. Uncounted = {} /\ payments = {} /\ successful = 0
  BY DEF Init, Uncounted
<1> QED BY <1>1, FS_EmptySet DEF SuccessInv

(* No loop comes to owe a success, and none is counted. *)
LEMMA OweNoMore ==
  ASSUME TypeOK, SuccessInv, Uncounted' \subseteq Uncounted, UNCHANGED successful,
         payments \subseteq payments', IsFiniteSet(payments')
  PROVE  SuccessInv'
<1>1. IsFiniteSet(Uncounted)
  BY FS_Subset, SimulatorAssumption DEF Uncounted
<1>2. Cardinality(Uncounted') <= Cardinality(Uncounted)
  BY <1>1, FS_Subset
<1>3. Cardinality(payments) <= Cardinality(payments')
  BY FS_Subset
<1>4. /\ Cardinality(Uncounted) \in Nat /\ Cardinality(Uncounted') \in Nat
      /\ Cardinality(payments) \in Nat /\ Cardinality(payments') \in Nat
  BY <1>1, FS_Subset, FS_CardinalityType DEF SuccessInv
<1> QED BY <1>2, <1>3, <1>4 DEF SuccessInv, TypeOK

(* A loop that owes a success counts at most that one, and owes it no more. *)
LEMMA PayOff ==
  ASSUME TypeOK, SuccessInv, NEW l \in Uncounted, Uncounted' = Uncounted \ {l},
         successful' \in {successful, successful + 1}, UNCHANGED payments
  PROVE  SuccessInv'
<1>1. IsFiniteSet(Uncounted)
  BY FS_Subset, SimulatorAssumption DEF Uncounted
<1>2. Cardinality(Uncounted') = Cardinality(Uncounted) - 1
  BY <1>1, FS_RemoveElement
<1>3. Cardinality(Uncounted) \in Nat /\ Cardinality(payments) \in Nat
  BY <1>1, FS_CardinalityType DEF SuccessInv
<1> QED BY <1>2, <1>3 DEF SuccessInv, TypeOK

LEMMA SuccessStep == TypeOK /\ SuccessInv /\ [Next]_vars => SuccessInv'
<1> SUFFICES ASSUME TypeOK, SuccessInv, [Next]_vars
             PROVE  SuccessInv'
  OBVIOUS
<1>0. IsFiniteSet(payments)
  BY DEF SuccessInv
<1>1. ASSUME NEW l \in Loops, CreatePayment(l)
      PROVE  SuccessInv'
  <2>1. CASE UNCHANGED payments /\ GoesTo(l, "failing")
    <3>1. Uncounted' \subseteq Uncounted
      BY <2>1 DEF GoesTo, Uncounted, TypeOK
    <3>2. UNCHANGED successful
      BY <1>1 DEF CreatePayment, counters
    <3> QED BY <2>1, <3>1, <3>2, <1>0, OweNoMore
  <2>2. ASSUME NEW m \in selected[l], Fresh(m, index[l]),
               payments' = payments \cup {<<m, index[l]>>}
        PROVE  SuccessInv'
    <3>1. /\ IsFiniteSet(payments')
          /\ Cardinality(payments') = Cardinality(payments) + 1
      BY <1>0, <2>2, FS_AddElement DEF Fresh
    <3>2. Uncounted' \subseteq Uncounted \cup {l} /\ UNCHANGED successful
      BY <1>1 DEF CreatePayment, GoesTo, Uncounted, TypeOK, counters
    <3>3. IsFiniteSet(Uncounted)
      BY FS_Subset, SimulatorAssumption DEF Uncounted
    <3>4. /\ IsFiniteSet(Uncounted \cup {l})
          /\ Cardinality(Uncounted \cup {l}) <= Cardinality(Uncounted) + 1
      BY <3>3, FS_AddElement, FS_CardinalityType
    <3>5. /\ IsFiniteSet(Uncounted')
          /\ Cardinality(Uncounted') <= Cardinality(Uncounted \cup {l})
      BY <3>2, <3>4, FS_Subset
    <3>6. /\ Cardinality(Uncounted) \in Nat /\ Cardinality(Uncounted') \in Nat
          /\ Cardinality(Uncounted \cup {l}) \in Nat /\ Cardinality(payments) \in Nat
      BY <1>0, <3>3, <3>4, <3>5, FS_CardinalityType
    <3> QED BY <3>1, <3>2, <3>4, <3>5, <3>6 DEF SuccessInv, TypeOK
  <2>3. \/ \E m \in selected[l] : Fresh(m, index[l]) /\ payments' = payments \cup {<<m, index[l]>>}
        \/ UNCHANGED payments /\ GoesTo(l, "failing")
    BY <1>1 DEF CreatePayment
  <2> QED BY <2>1, <2>2, <2>3
<1>2. ASSUME NEW l \in Loops, CountAttempt(l) \/ CountRejects(l)
      PROVE  SuccessInv'
  <2>1. l \in Uncounted /\ Uncounted' = Uncounted \ {l}
    BY <1>2 DEF CountAttempt, CountRejects, GoesTo, Uncounted, TypeOK
  <2>2. successful' \in {successful, successful + 1} /\ UNCHANGED payments
    BY <1>2 DEF CountAttempt, CountRejects, AddAttempt, counters
  <2> QED BY <2>1, <2>2, PayOff
<1>3. ASSUME NEW l \in Loops,
             \/ CreateRun(l) \/ ReadRun(l) \/ RepeatPayment(l) \/ CountFailure(l)
             \/ NextIndex(l) \/ Complete(l) \/ FailRun(l) \/ Rejects(l)
      PROVE  SuccessInv'
  <2>1. Uncounted' \subseteq Uncounted /\ UNCHANGED <<successful, payments>>
    BY <1>3 DEF CreateRun, Launch, ReadRun, RepeatPayment, CountFailure, NextIndex, Complete,
                FailRun, Rejects, AddFailure, GoesTo, Uncounted, TypeOK, counters, loop, tried
  <2> QED BY <1>0, <2>1, OweNoMore
<1>4. ASSUME \/ \E c \in Callers : CheckStatus(c) \/ Transition(c) \/ RequestFails(c)
             \/ Crash
             \/ UNCHANGED vars
      PROVE  SuccessInv'
  <2>1. Uncounted' \subseteq Uncounted /\ UNCHANGED <<successful, payments>>
    BY <1>4 DEF CheckStatus, Transition, Launch, RequestFails, Crash, GoesTo, Uncounted, TypeOK,
                counters, loop, vars
  <2> QED BY <1>0, <2>1, OweNoMore
<1> QED BY <1>1, <1>2, <1>3, <1>4 DEF Next, Execute

-----------------------------------------------------------------------------
(* Every state of a run is well typed: execute, lines 251 to 345, and the   *)
(* requests keep it so.                                                     *)
THEOREM TypeCorrect == Spec => []TypeOK
<1>1. RunInv => TypeOK
  BY DEF RunInv
<1> QED BY <1>1, RunInit, RunStep, PTL DEF Spec

(* A run is completed by execute, line 328, only after as many payments     *)
(* were tried as asked for, updates that are made again being attempts too. *)
THEOREM CompletedRunsAreFull == Spec => []CompletedIsFull
<1>1. RunInv /\ AttemptInv => CompletedIsFull
  <2> SUFFICES ASSUME RunInv, AttemptInv, status = "COMPLETED"
               PROVE  attempts + recounted >= Count
    BY DEF CompletedIsFull
  <2>1. successful + failed <= attempts + recounted /\ successful + failed >= Count
    BY CountedIsTried DEF RunInv, CountInv
  <2> QED BY <2>1, SimulatorAssumption DEF RunInv, TypeOK
<1>2. RunInv /\ AttemptInv /\ [Next]_vars => AttemptInv'
  BY AttemptStep DEF RunInv
<1> QED BY <1>1, <1>2, RunInit, RunStep, AttemptInit, PTL DEF Spec

(* generatedCount, which execute writes from what it has read, line 302, is *)
(* never more than the payments tried and the updates made again, and is    *)
(* the sum of the others without a resume.                                  *)
THEOREM GeneratedCounts == Spec => []GeneratedIsAttempted
<1>1. RunInv /\ AttemptInv => GeneratedIsAttempted
  <2>0. ASSUME RunInv, AttemptInv
        PROVE  generated <= attempts + recounted
    BY <2>0, CountedIsTried DEF RunInv, CountInv, TypeOK
  <2> SUFFICES ASSUME RunInv,
                      Cardinality({l \in Loops : at[l] # "unused"}) <= 1
               PROVE  Alone
    BY <2>0 DEF RunInv, AloneInv, GeneratedIsAttempted
  <2> DEFINE launched == {l \in Loops : at[l] # "unused"}
  <2>1. IsFiniteSet(launched)
    BY FS_Subset, SimulatorAssumption
  <2>2. SUFFICES ASSUME NEW k \in launched, NEW l \in launched, k # l
                 PROVE  FALSE
    BY DEF Alone
  <2>3. IsFiniteSet({k, l}) /\ Cardinality({k, l}) = 2
    <3>1. IsFiniteSet({k}) /\ Cardinality({k}) = 1 /\ l \notin {k}
      BY <2>2, FS_Singleton
    <3>2. /\ IsFiniteSet({k} \cup {l})
          /\ Cardinality({k} \cup {l}) = Cardinality({k}) + 1
      BY ONLY <3>1, FS_AddElement
    <3>3. {k, l} = {k} \cup {l}
      OBVIOUS
    <3> QED BY <3>1, <3>2, <3>3
  <2>4. Cardinality({k, l}) <= Cardinality(launched)
    BY <2>1, FS_Subset
  <2> QED BY <2>1, <2>3, <2>4, FS_CardinalityType
<1>2. RunInv /\ AttemptInv /\ [Next]_vars => AttemptInv'
  BY AttemptStep DEF RunInv
<1> QED BY <1>1, <1>2, RunInit, RunStep, AttemptInit, PTL DEF Spec

(* What execute counts as successful, line 308, has its own payment.        *)
THEOREM SuccessesHavePayments == Spec => []SuccessesArePayments
<1>1. TypeOK /\ SuccessInv => SuccessesArePayments
  <2> SUFFICES ASSUME TypeOK, SuccessInv
               PROVE  SuccessesArePayments
    OBVIOUS
  <2>1. IsFiniteSet(Uncounted)
    BY FS_Subset, SimulatorAssumption DEF Uncounted
  <2>2. Cardinality(Uncounted) \in Nat /\ Cardinality(payments) \in Nat
    BY <2>1, FS_CardinalityType DEF SuccessInv
  <2> QED BY <2>2 DEF SuccessInv, SuccessesArePayments, TypeOK
<1> QED BY <1>1, TypeCorrect, SuccessInit, SuccessStep, PTL DEF Spec

(* After stop a loop creates at most the payment it had begun, lines 259 to *)
(* 263.                                                                     *)
THEOREM StopsPromptly == Spec => []StopIsPrompt
<1>1. RunInv => StopIsPrompt
  BY DEF RunInv, LateInv, StopIsPrompt
<1> QED BY <1>1, RunInit, RunStep, PTL DEF Spec

(* However transition, lines 455 to 477, overwrites the status, a RUNNING   *)
(* run has a loop unless a call failed or the process died.                 *)
THEOREM RunningHasLoop == Spec => []RunningIsExecuted
<1>1. RunInv => RunningIsExecuted
  BY DEF RunInv
<1> QED BY <1>1, RunInit, RunStep, PTL DEF Spec
=============================================================================
