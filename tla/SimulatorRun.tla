---------------------------- MODULE SimulatorRun -----------------------------
(***************************************************************************)
(* One run of the transaction simulator: its row, the loops that execute   *)
(* it, one for its creation and one for each resume, and the requests that *)
(* pause, resume and stop it.  A loop looks at the row between payments; a *)
(* request reads the status and later writes another by id alone.          *)
(***************************************************************************)
EXTENDS Integers, FiniteSets

CONSTANTS
  Count,        \* transactionCount
  Loops,        \* calls of execute, each made once
  Callers,      \* concurrent requests
  Merchants,    \* merchantIds
  Invalid,      \* the indexes that are to fail validation
  Duplicated,   \* the indexes that are sent twice
  MaxFaults     \* bound on failed calls to the database and on crashes

Indexes == 0 .. Count - 1

ASSUME SimulatorAssumption ==
  /\ Count \in Nat \ {0}
  /\ IsFiniteSet(Loops) /\ IsFiniteSet(Merchants)
  /\ Invalid \subseteq Indexes /\ Duplicated \subseteq Indexes
  /\ MaxFaults \in Nat

VARIABLES
  status,       \* SimulatorRun.status, "ABSENT" before the row exists
  generated,    \* generatedCount
  successful,   \* successfulCount
  failed,       \* failedCount
  payments,     \* the merchant and index of each payment of the run
  at,           \* where each loop stands
  index,        \* its index
  seen,         \* the generatedCount that it has read
  selected,     \* its merchants
  request,      \* the status a request is about to write, and the merchants it read
  late,         \* late[l]: the payments l has created since the run was STOPPED
  attempts,     \* the payments tried: for each loop, the indexes that it has begun
  recounted,    \* updates that were made although they rejected, and are made again
  faults        \* failed calls and crashes so far

counters == <<generated, successful, failed>>
tried    == <<attempts, recounted>>
loop     == <<at, index, seen, selected>>
vars     == <<status, counters, payments, loop, request, late, tried, faults>>

Status == {"ABSENT", "RUNNING", "PAUSED", "STOPPED", "COMPLETED", "FAILED"}
Working == {"reading", "creating", "repeating", "counting", "failing", "sleeping"}
Stage == Working \cup {"unused", "completing", "fatal", "ended"}
NoRequest == [to |-> "none", merchants |-> {}]

Running(l) == at[l] \notin {"unused", "ended"}

TypeOK ==
  /\ status \in Status
  /\ generated \in Nat /\ successful \in Nat /\ failed \in Nat
  /\ payments \subseteq Merchants \X Indexes
  /\ at \in [Loops -> Stage]
  /\ index \in [Loops -> 0 .. Count]
  /\ seen \in [Loops -> Nat]
  /\ selected \in [Loops -> SUBSET Merchants]
  /\ request \in [Callers -> [to : {"none", "RUNNING", "PAUSED", "STOPPED"},
                              merchants : SUBSET Merchants]]
  /\ late \in [Loops -> Nat]
  /\ attempts \in Nat /\ recounted \in Nat
  /\ faults \in 0 .. MaxFaults
  /\ \A l \in Loops : at[l] \in Working => index[l] < Count

Init ==
  /\ status = "ABSENT"
  /\ generated = 0 /\ successful = 0 /\ failed = 0
  /\ payments = {}
  /\ at = [l \in Loops |-> "unused"]
  /\ index = [l \in Loops |-> 0]
  /\ seen = [l \in Loops |-> 0]
  /\ selected = [l \in Loops |-> {}]
  /\ request = [c \in Callers |-> NoRequest]
  /\ late = [l \in Loops |-> 0]
  /\ attempts = 0 /\ recounted = 0
  /\ faults = 0

GoesTo(l, stage) == at' = [at EXCEPT ![l] = stage]

Fault == faults < MaxFaults /\ faults' = faults + 1

-----------------------------------------------------------------------------
(* Requests. *)

(* execute is called, and runs until its first await.                       *)
Launch(l, merchants) ==
  /\ at[l] = "unused"
  /\ GoesTo(l, "reading")
  /\ selected' = [selected EXCEPT ![l] = merchants]
  /\ UNCHANGED <<index, seen>>

(* If the answer of the insertion is lost nothing is executed. *)
CreateRun(l) ==
  /\ status = "ABSENT"
  /\ status' = "RUNNING"
  /\ \/ Launch(l, Merchants) /\ UNCHANGED faults
     \/ Fault /\ UNCHANGED loop
  /\ UNCHANGED <<counters, payments, request, late, tried>>

Expected(to) == CASE to = "PAUSED"  -> {"RUNNING"}
                  [] to = "RUNNING" -> {"PAUSED"}
                  [] to = "STOPPED" -> {"RUNNING", "PAUSED"}

(* transition: the status is checked.  Before, resume has read which of the *)
(* merchants are active, and any may be.                                    *)
CheckStatus(c) == \E to \in {"PAUSED", "RUNNING", "STOPPED"}, merchants \in SUBSET Merchants :
  /\ request[c] = NoRequest
  /\ status \in Expected(to)
  /\ to # "RUNNING" => merchants = {}
  /\ request' = [request EXCEPT ![c] = [to |-> to, merchants |-> merchants]]
  /\ UNCHANGED <<status, counters, payments, loop, late, tried, faults>>

(* Payments are late from the moment of the stop. *)
SetStatus(new) ==
  /\ status' = new
  /\ late' = IF new = "STOPPED" /\ status # "STOPPED" THEN [l \in Loops |-> 0] ELSE late

(* Mutation: resume leaves the run to a loop that may have ended. *)
Transition_NoLoop(c) ==
  /\ request[c].to # "none"
  /\ SetStatus(request[c].to)
  /\ request' = [request EXCEPT ![c] = NoRequest]
  /\ UNCHANGED <<counters, payments, loop, tried, faults>>

(* transition: the status is written by id, whatever it is by now; resume   *)
(* then calls execute.                                                      *)
Transition(c) ==
  /\ request[c].to # "none"
  /\ SetStatus(request[c].to)
  /\ IF request[c].to = "RUNNING"
     THEN \E l \in Loops : Launch(l, request[c].merchants)
     ELSE UNCHANGED loop
  /\ request' = [request EXCEPT ![c] = NoRequest]
  /\ UNCHANGED <<counters, payments, tried, faults>>

-----------------------------------------------------------------------------
(* execute. *)

(* Mutation: a loop ends when the run is paused, not when it is stopped.    *)
Halted_OnlyPaused == status = "PAUSED"

(* COMPLETED and FAILED do not end a loop. *)
Halted == status \in {"STOPPED", "PAUSED"}

(* The row is read and looked at. *)
ReadRun(l) ==
  /\ at[l] = "reading"
  /\ GoesTo(l, IF Halted THEN "ended"
               ELSE IF generated >= Count THEN "completing" ELSE "creating")
  /\ seen' = [seen EXCEPT ![l] = generated]
  /\ UNCHANGED <<status, counters, payments, index, selected, request, late, tried, faults>>

(* A key that was used before is refused, since the receiver is random.     *)
Fresh(m, i) == <<m, i>> \notin payments

(* PaymentsService.create with the key of the index.  Which merchant an     *)
(* index goes to is left open, as the order of the selected merchants is.   *)
(* Any payment may be refused, and an answer may be lost.                   *)
CreatePayment(l) ==
  /\ at[l] = "creating"
  /\ \/ \E m \in selected[l] :
          /\ Fresh(m, index[l])
          /\ payments' = payments \cup {<<m, index[l]>>}
          /\ late' = [late EXCEPT ![l] = @ + (IF status = "STOPPED" THEN 1 ELSE 0)]
          /\ \/ GoesTo(l, IF index[l] \in Duplicated THEN "repeating" ELSE "counting")
             \/ GoesTo(l, "failing")
     \/ GoesTo(l, "failing") /\ UNCHANGED <<payments, late>>
  /\ attempts' = attempts + 1
  /\ UNCHANGED <<status, counters, index, seen, selected, request, recounted, faults>>

(* The duplicate has the same key and the same request: it is replayed.     *)
RepeatPayment(l) ==
  /\ at[l] = "repeating"
  /\ GoesTo(l, "counting") \/ GoesTo(l, "failing")
  /\ UNCHANGED <<status, counters, payments, index, seen, selected, request, late, tried, faults>>

(* generatedCount is written from what was read, the others incremented.    *)
AddAttempt(l) ==
  /\ generated' = seen[l] + 1
  /\ IF index[l] \in Invalid
     THEN failed' = failed + 1 /\ UNCHANGED successful
     ELSE successful' = successful + 1 /\ UNCHANGED failed

CountAttempt(l) ==
  /\ at[l] = "counting"
  /\ AddAttempt(l)
  /\ GoesTo(l, "sleeping")
  /\ UNCHANGED <<status, payments, index, seen, selected, request, late, tried, faults>>

(* The update rejects, done or not, and the attempt counts as failed.       *)
CountRejects(l) ==
  /\ Fault
  /\ at[l] = "counting"
  /\ \/ AddAttempt(l) /\ recounted' = recounted + 1
     \/ UNCHANGED <<counters, recounted>>
  /\ GoesTo(l, "failing")
  /\ UNCHANGED <<status, payments, index, seen, selected, request, late, attempts>>

AddFailure ==
  /\ generated' = generated + 1
  /\ failed' = failed + 1
  /\ UNCHANGED successful

CountFailure(l) ==
  /\ at[l] = "failing"
  /\ AddFailure
  /\ GoesTo(l, "sleeping")
  /\ UNCHANGED <<status, payments, index, seen, selected, request, late, tried, faults>>

(* Mutation: the last index is left out. *)
More_OffByOne(l) == index[l] + 2 < Count

More(l) == index[l] + 1 < Count

NextIndex(l) ==
  /\ at[l] = "sleeping"
  /\ index' = [index EXCEPT ![l] = @ + 1]
  /\ GoesTo(l, IF More(l) THEN "reading" ELSE "completing")
  /\ UNCHANGED <<status, counters, payments, seen, selected, request, late, tried, faults>>

(* updateMany of a run that is RUNNING. *)
Complete(l) ==
  /\ at[l] = "completing"
  /\ SetStatus(IF status = "RUNNING" THEN "COMPLETED" ELSE status)
  /\ GoesTo(l, "ended")
  /\ UNCHANGED <<counters, payments, index, seen, selected, request, tried, faults>>

(* A call outside the inner try rejects, done or not. *)
Rejects(l) ==
  /\ Fault
  /\ \/ at[l] = "reading" /\ UNCHANGED <<status, counters>>
     \/ /\ at[l] = "failing"
        /\ AddFailure \/ UNCHANGED counters
        /\ UNCHANGED status
     \/ /\ at[l] = "completing"
        /\ status' \in {status, IF status = "RUNNING" THEN "COMPLETED" ELSE status}
        /\ UNCHANGED counters
  /\ GoesTo(l, "fatal")
  /\ UNCHANGED <<payments, index, seen, selected, request, late, tried>>

(* The outer catch: FAILED is written by id, whatever the status is.        *)
FailRun(l) ==
  /\ at[l] = "fatal"
  /\ SetStatus("FAILED")
  /\ GoesTo(l, "ended")
  /\ UNCHANGED <<counters, payments, index, seen, selected, request, tried, faults>>

-----------------------------------------------------------------------------
(* A request fails before it writes the status, or after. *)
RequestFails(c) ==
  /\ request[c].to # "none"
  /\ request' = [request EXCEPT ![c] = NoRequest]
  /\ \/ UNCHANGED <<status, late, faults>>
     \/ Fault /\ SetStatus(request[c].to)
  /\ UNCHANGED <<counters, payments, loop, tried>>

(* The API process dies, of an unhandled rejection in the outer catch too.  *)
Crash ==
  /\ Fault
  /\ at' = [l \in Loops |-> IF Running(l) THEN "ended" ELSE at[l]]
  /\ request' = [c \in Callers |-> NoRequest]
  /\ UNCHANGED <<status, counters, payments, index, seen, selected, late, tried>>

Execute(l) ==
  \/ ReadRun(l) \/ CreatePayment(l) \/ RepeatPayment(l) \/ CountAttempt(l)
  \/ CountFailure(l) \/ NextIndex(l) \/ Complete(l) \/ FailRun(l)

Next ==
  \/ \E l \in Loops : CreateRun(l) \/ Execute(l) \/ CountRejects(l) \/ Rejects(l)
  \/ \E c \in Callers : CheckStatus(c) \/ Transition(c) \/ RequestFails(c)
  \/ Crash

Spec == Init /\ [][Next]_vars

-----------------------------------------------------------------------------
(* Properties. *)

(* A run is COMPLETED only after as many payments were tried as were asked  *)
(* for, although the loops of a resumed run overwrite each other's count.   *)
(* It falls short by the updates that were made although they rejected: the *)
(* inner catch counts their index a second time.                            *)
CompletedIsFull == status = "COMPLETED" => attempts + recounted >= Count

(* generatedCount never runs ahead of the payments that were tried by more  *)
(* than such updates, and as long as the run was not resumed it is the sum  *)
(* of the other two counters.                                               *)
GeneratedIsAttempted ==
  /\ generated <= attempts + recounted
  /\ Cardinality({l \in Loops : at[l] # "unused"}) <= 1 => generated = successful + failed

(* What counts as successful has a payment of its own.                      *)
SuccessesArePayments == successful <= Cardinality(payments)

(* Once a run is stopped each of its loops creates at most the payment it   *)
(* was about to create.                                                     *)
StopIsPrompt == status = "STOPPED" => \A l \in Loops : late[l] <= 1

(* Without faults a RUNNING run is being executed, whatever requests and    *)
(* loops overwrite.                                                         *)
RunningIsExecuted ==
  faults = 0 /\ status = "RUNNING" => \E l \in Loops : Running(l)
=============================================================================
