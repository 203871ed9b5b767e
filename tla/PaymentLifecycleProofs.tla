----------------------- MODULE PaymentLifecycleProofs -----------------------
(***************************************************************************)
(* Theorems about PaymentLifecycle, for every set of payments, merchants,  *)
(* dates and callers.                                                      *)
(***************************************************************************)
EXTENDS PaymentLifecycle, SumTheorems, TLAPS

-----------------------------------------------------------------------------
(* What the records of call hold. *)

LEMMA WorkingIsCall ==
  ASSUME NEW op \in Ops, NEW p \in Payments, NEW u \in Nat, NEW v \in Verdict
  PROVE  /\ Working(op, p, u, v) \in Call
         /\ Working(op, p, u, v).op = op
         /\ Working(op, p, u, v).payment = p
         /\ Working(op, p, u, v).utilized = u
         /\ Working(op, p, u, v).verdict = v
         /\ Working(op, p, u, v).batch = {}
  BY DEF Working, Call

LEMMA DoingIsCall ==
  ASSUME NEW op \in Ops, NEW p \in Payments
  PROVE  /\ Doing(op, p) \in Call
         /\ Doing(op, p).op = op
         /\ Doing(op, p).payment = p
         /\ Doing(op, p).utilized = 0
         /\ Doing(op, p).verdict = "VALIDATED"
         /\ Doing(op, p).batch = {}
  BY WorkingIsCall DEF Doing, Verdict

LEMMA IdleIsCall == Idle \in Call /\ Idle.op = "idle" /\ Idle.batch = {}
  BY DEF Idle, Doing, Working, Call, Ops, Verdict

LEMMA GeneratingIsCall ==
  ASSUME NEW S \in SUBSET Payments
  PROVE  /\ Generating(S) \in Call
         /\ Generating(S).op = "nacha"
         /\ Generating(S).batch = S
  BY DEF Generating, Call, Ops, Verdict

LEMMA OpsNamed ==
  Ops = {"idle", "validate", "reserve", "settle", "return", "nacha", "fail",
         "daily", "funding", "decide", "complete", "error", "settleDebit",
         "settleRead",
         "workerSettle", "workerReturn", "returnDebit", "release",
         "reserveFunding", "reserveCommit"}
  BY DEF Ops, WorkerOps, PaymentLockOps, DailyLockOps

(* The typing of call alone. *)
CallsOK ==
  /\ call \in [Callers -> Call]
  /\ \A c \in Callers : call[c].op \notin {"idle", "nacha"} => P(c) \in Payments

(* The typing of the rows alone. *)
RowsOK ==
  /\ status \in [Payments -> PaymentStatus]
  /\ exported \subseteq Payments
  /\ reservation \in [Payments -> ReservationStatus]
  /\ ledger \in [Payments -> SUBSET EntryType]
  /\ events \in [Payments -> SUBSET EventType]
  /\ claim \in [Payments -> OutboxStatus]

OthersOK ==
  /\ usage \in [Merchants \X Dates -> Nat]
  /\ active \subseteq Merchants
  /\ funded \subseteq Merchants
  /\ bankEvents \in [BankEvents -> Payments \cup {NoPayment}]

LEMMA TypeParts == TypeOK <=> CallsOK /\ RowsOK /\ OthersOK
  BY DEF TypeOK, CallsOK, RowsOK, OthersOK

LEMMA TypePartsNext == CallsOK' /\ RowsOK' /\ OthersOK' => TypeOK'
  BY DEF TypeOK, CallsOK, RowsOK, OthersOK

(* A step that moves one caller to a well-formed record keeps call typed.  *)
LEMMA GoesTyped ==
  ASSUME CallsOK, NEW c \in Callers, NEW r \in Call, Goes(c, r),
         r.op \notin {"idle", "nacha"} => r.payment \in Payments
  PROVE  /\ CallsOK'
         /\ call'[c] = r
         /\ \A d \in Callers \ {c} : call'[d] = call[d]
  BY DEF CallsOK, Goes, P

LEMMA GoesIdle ==
  ASSUME CallsOK, NEW c \in Callers, Goes(c, Idle)
  PROVE  /\ CallsOK'
         /\ call'[c] = Idle
         /\ \A d \in Callers \ {c} : call'[d] = call[d]
  BY IdleIsCall, GoesTyped

LEMMA GoesDoing ==
  ASSUME CallsOK, NEW c \in Callers, NEW op \in Ops, NEW p \in Payments,
         Goes(c, Doing(op, p))
  PROVE  /\ CallsOK'
         /\ call'[c] = Doing(op, p)
         /\ \A d \in Callers \ {c} : call'[d] = call[d]
  BY DoingIsCall, GoesTyped

LEMMA GoesWorking ==
  ASSUME CallsOK, NEW c \in Callers, NEW op \in Ops, NEW p \in Payments,
         NEW u \in Nat, NEW v \in Verdict, Goes(c, Working(op, p, u, v))
  PROVE  /\ CallsOK'
         /\ call'[c] = Working(op, p, u, v)
         /\ \A d \in Callers \ {c} : call'[d] = call[d]
  BY WorkingIsCall, GoesTyped

-----------------------------------------------------------------------------
(* Type correctness. *)

LEMMA StutterTyped ==
  ASSUME RowsOK, OthersOK, UNCHANGED <<rows, env>>
  PROVE  RowsOK' /\ OthersOK'
  BY DEF RowsOK, OthersOK, rows, env

(* What a step that only starts a call, or moves it on, does to call. *)
MovesTo(c, p, op) == Goes(c, Doing(op, p)) /\ UNCHANGED <<rows, env>>

LEMMA BeginShape ==
  ASSUME NEW c \in Callers, NEW p \in Payments,
         ApiBegin(c, p) \/ LockedBegin(c, p)
  PROVE  \E op \in {"validate", "reserve", "settleRead", "return",
                    "workerSettle", "workerReturn", "release",
                    "settleDebit", "returnDebit"} : MovesTo(c, p, op)
<1>1. CASE ReadForValidate(c, p)
  BY <1>1 DEF ReadForValidate, MovesTo
<1>2. CASE ReadForReserve(c, p)
  BY <1>2 DEF ReadForReserve, MovesTo
<1>3. CASE ReadForSettle(c, p)
  BY <1>3 DEF ReadForSettle, MovesTo
<1>4. CASE ReadForReturn(c, p)
  BY <1>4 DEF ReadForReturn, MovesTo
<1>5. CASE LockForSettle(c, p)
  BY <1>5 DEF LockForSettle, MovesTo
<1>6. CASE LockForReturn(c, p)
  BY <1>6 DEF LockForReturn, MovesTo
<1>7. CASE LockForRelease(c, p)
  BY <1>7 DEF LockForRelease, MovesTo
<1>8. CASE LockForSettleDebit(c, p)
  BY <1>8 DEF LockForSettleDebit, MovesTo
<1>9. CASE LockForReturnDebit(c, p)
  BY <1>9 DEF LockForReturnDebit, MovesTo
<1> QED BY <1>1, <1>2, <1>3, <1>4, <1>5, <1>6, <1>7, <1>8, <1>9
        DEF ApiBegin, LockedBegin

LEMMA MovesTyped ==
  ASSUME TypeOK, NEW c \in Callers, NEW p \in Payments, NEW op \in Ops,
         MovesTo(c, p, op)
  PROVE  TypeOK'
  BY GoesDoing, StutterTyped, TypeParts, TypePartsNext DEF MovesTo

LEMMA BeginTyped ==
  ASSUME TypeOK, NEW c \in Callers, NEW p \in Payments,
         ApiBegin(c, p) \/ LockedBegin(c, p)
  PROVE  TypeOK'
  BY BeginShape, MovesTyped, OpsNamed

(* A caller with an operation under way works on a payment. *)
LEMMA PaymentOfCall ==
  ASSUME CallsOK, OthersOK, NEW c \in Callers, ~At(c, "idle"), ~At(c, "nacha")
  PROVE  /\ P(c) \in Payments
         /\ call[c].utilized \in Nat
         /\ call[c].verdict \in Verdict
         /\ Day(P(c)) \in Merchants \X Dates
         /\ usage[Day(P(c))] \in Nat
         /\ Amount[P(c)] \in Nat
<1>1. P(c) \in Payments /\ call[c].utilized \in Nat /\ call[c].verdict \in Verdict
  BY DEF CallsOK, Call, At
<1>2. Day(P(c)) \in Merchants \X Dates /\ Amount[P(c)] \in Nat
  BY <1>1, LifecycleAssumption DEF Day
<1> QED BY <1>1, <1>2 DEF OthersOK

Relocks(c) ==
  \E op \in Ops, u \in Nat, v \in Verdict :
    Goes(c, Working(op, P(c), u, v)) /\ UNCHANGED <<rows, env>>

LEMMA RelocksTyped ==
  ASSUME TypeOK, NEW c \in Callers, ~At(c, "idle"), ~At(c, "nacha"), Relocks(c)
  PROVE  TypeOK'
<1>1. P(c) \in Payments
  BY PaymentOfCall, TypeParts
<1>2. PICK op \in Ops, u \in Nat, v \in Verdict :
        Goes(c, Working(op, P(c), u, v)) /\ UNCHANGED <<rows, env>>
  BY DEF Relocks
<1> QED BY <1>1, <1>2, GoesWorking, StutterTyped, TypeParts, TypePartsNext

(* The steps that take a further lock under a daily lock. *)
LEMMA LockTyped ==
  ASSUME TypeOK, NEW c \in Callers,
         \/ ReserveLockDay(c) \/ ReserveLockFunding(c) \/ LockDay(c)
         \/ LacksAccount(c) \/ LockFunding(c)
  PROVE  TypeOK'
<1>1. ~At(c, "idle") /\ ~At(c, "nacha")
  BY DEF ReserveLockDay, ReserveLockFunding, LockDay, LacksAccount, LockFunding, At
<1>2. /\ call[c].utilized \in Nat
      /\ usage[Day(P(c))] \in Nat
  BY <1>1, PaymentOfCall, TypeParts
<1> SUFFICES Relocks(c) BY <1>1, RelocksTyped
<1>3. CASE ReserveLockDay(c)
  BY <1>2, <1>3, OpsNamed DEF ReserveLockDay, Relocks, Verdict
<1>4. CASE ReserveLockFunding(c)
  BY <1>2, <1>4, OpsNamed DEF ReserveLockFunding, Relocks, Verdict
<1>5. CASE LockDay(c)
  <2> DEFINE within == WithinDailyLimit(P(c), usage[Day(P(c))])
             op == IF within /\ Direction[P(c)] = "CREDIT" THEN "funding" ELSE "decide"
             v == IF within THEN "VALIDATED" ELSE "EXCEEDS_DAILY_AMOUNT_LIMIT"
  <2>1. op \in Ops /\ v \in Verdict
    BY OpsNamed DEF Verdict
  <2>2. Goes(c, Working(op, P(c), usage[Day(P(c))], v)) /\ UNCHANGED <<rows, env>>
    BY <1>5 DEF LockDay
  <2> QED BY <1>2, <2>1, <2>2 DEF Relocks
<1>6. CASE LacksAccount(c)
  BY <1>2, <1>6, OpsNamed DEF LacksAccount, Relocks, Verdict
<1>7. CASE LockFunding(c)
  <2> DEFINE v == IF Available(MerchantOf[P(c)]) < Amount[P(c)]
                  THEN "INSUFFICIENT_FUNDS" ELSE "VALIDATED"
  <2>1. Goes(c, Working("decide", P(c), call[c].utilized, v))
        /\ UNCHANGED <<rows, env>>
    BY <1>7 DEF LockFunding
  <2>2. v \in Verdict /\ "decide" \in Ops
    BY OpsNamed DEF Verdict
  <2> QED BY <1>2, <2>1, <2>2 DEF Relocks
<1> QED BY <1>3, <1>4, <1>5, <1>6, <1>7

(* The steps of a call that change no row. *)
LEMMA StepsOnTyped ==
  ASSUME TypeOK, NEW c \in Callers,
         \/ ReadSubmitted(c) \/ FailAlreadyDecided(c) \/ WorkerError(c)
  PROVE  TypeOK'
<1>1. ~At(c, "idle") /\ ~At(c, "nacha")
  BY DEF ReadSubmitted, FailAlreadyDecided, WorkerError, At, WorkerOps
<1>2. P(c) \in Payments
  BY <1>1, PaymentOfCall, TypeParts
<1>3. CASE ReadSubmitted(c)
  BY <1>2, <1>3, MovesTyped, OpsNamed DEF ReadSubmitted, MovesTo
<1>4. CASE FailAlreadyDecided(c)
  <2> DEFINE op == IF status[P(c)] \in {"VALIDATED", "VALIDATION_FAILED"}
                   THEN "complete" ELSE "error"
  <2>1. op \in Ops BY OpsNamed
  <2>2. MovesTo(c, P(c), op) BY <1>4 DEF FailAlreadyDecided, MovesTo
  <2> QED BY <1>2, <2>1, <2>2, MovesTyped
<1>5. CASE WorkerError(c)
  BY <1>2, <1>5, MovesTyped, OpsNamed DEF WorkerError, MovesTo
<1> QED BY <1>3, <1>4, <1>5

LEMMA EndTyped ==
  ASSUME TypeOK, NEW c \in Callers, Abort(c)
  PROVE  TypeOK'
  BY GoesIdle, StutterTyped, TypeParts, TypePartsNext DEF Abort

(* What the writes of a transaction put in the rows. *)
LEMMA StatusTyped ==
  ASSUME RowsOK, NEW p \in Payments, NEW new \in PaymentStatus, SetStatus(p, new)
  PROVE  status' \in [Payments -> PaymentStatus]
  BY DEF RowsOK, SetStatus

LEMMA TransitionTyped ==
  ASSUME RowsOK, NEW p \in Payments, NEW new \in PaymentStatus,
         TransitionIfReceived(p, new)
  PROVE  status' \in [Payments -> PaymentStatus]
  BY DEF RowsOK, TransitionIfReceived

LEMMA ReservationTyped ==
  ASSUME RowsOK, NEW p \in Payments, NEW new \in ReservationStatus,
         SetReservation(p, new)
  PROVE  reservation' \in [Payments -> ReservationStatus]
  BY DEF RowsOK, SetReservation

LEMMA EntryTyped ==
  ASSUME RowsOK, NEW p \in Payments, NEW type \in EntryType, AddEntry(p, type)
  PROVE  ledger' \in [Payments -> SUBSET EntryType]
  BY DEF RowsOK, AddEntry

LEMMA EventTyped ==
  ASSUME RowsOK, NEW p \in Payments, NEW type \in EventType, AddEvent(p, type)
  PROVE  events' \in [Payments -> SUBSET EventType]
  BY DEF RowsOK, AddEvent

LEMMA UsageTyped ==
  ASSUME CallsOK, OthersOK, NEW c \in Callers, ~At(c, "idle"), ~At(c, "nacha"),
         AddUsage(c)
  PROVE  usage' \in [Merchants \X Dates -> Nat]
<1>1. /\ Day(P(c)) \in Merchants \X Dates
      /\ call[c].utilized + Amount[P(c)] \in Nat
  BY PaymentOfCall
<1> QED BY <1>1 DEF AddUsage, OthersOK

(* The commits of the API. *)
LEMMA ApiCommitTyped ==
  ASSUME TypeOK, NEW c \in Callers,
         CommitValidate(c) \/ CommitReserve(c) \/ CommitSettle(c) \/ CommitReturn(c)
  PROVE  TypeOK'
<1>1. ~At(c, "idle") /\ ~At(c, "nacha") /\ Goes(c, Idle)
  BY DEF CommitValidate, CommitReserve, CommitSettle, CommitReturn, At
<1>2. P(c) \in Payments
  BY <1>1, PaymentOfCall, TypeParts
<1>3. CallsOK'
  BY <1>1, GoesIdle, TypeParts
<1>4. RowsOK /\ CallsOK /\ OthersOK
  BY TypeParts
<1> SUFFICES RowsOK' /\ OthersOK' BY <1>3, TypePartsNext
<1>5. CASE CommitValidate(c)
  <2>1. status' \in [Payments -> PaymentStatus]
    BY <1>2, <1>4, <1>5, StatusTyped DEF CommitValidate, PaymentStatus
  <2>2. events' \in [Payments -> SUBSET EventType]
    BY <1>2, <1>4, <1>5, EventTyped DEF CommitValidate, EventType
  <2> QED BY <1>4, <1>5, <2>1, <2>2 DEF CommitValidate, RowsOK, OthersOK, env
<1>6. CASE CommitReserve(c)
  <2>1. reservation' \in [Payments -> ReservationStatus]
    BY <1>2, <1>4, <1>6, ReservationTyped
       DEF CommitReserve, InsertReservation, ReservationStatus
  <2>2. ledger' \in [Payments -> SUBSET EntryType]
    BY <1>2, <1>4, <1>6, EntryTyped DEF CommitReserve, InsertReservation, EntryType
  <2>3. events' \in [Payments -> SUBSET EventType]
    BY <1>2, <1>4, <1>6, EventTyped DEF CommitReserve, EventType
  <2>4. usage' \in [Merchants \X Dates -> Nat]
    BY <1>1, <1>4, <1>6, UsageTyped DEF CommitReserve
  <2> QED BY <1>4, <1>6, <2>1, <2>2, <2>3, <2>4
          DEF CommitReserve, RowsOK, OthersOK, env
<1>7. CASE CommitSettle(c)
  <2>1. SettleCredit(P(c)) BY <1>7 DEF CommitSettle
  <2>2. status' \in [Payments -> PaymentStatus]
    BY <1>2, <1>4, <2>1, StatusTyped DEF SettleCredit, PaymentStatus
  <2>3. reservation' \in [Payments -> ReservationStatus]
    BY <1>2, <1>4, <2>1, ReservationTyped DEF SettleCredit, ReservationStatus
  <2>4. ledger' \in [Payments -> SUBSET EntryType]
    BY <1>2, <1>4, <2>1, EntryTyped DEF SettleCredit, EntryType
  <2>5. events' \in [Payments -> SUBSET EventType]
    BY <1>2, <1>4, <2>1, EventTyped DEF SettleCredit, EventType
  <2> QED BY <1>4, <1>7, <2>2, <2>3, <2>4, <2>5
          DEF CommitSettle, RowsOK, OthersOK, env
<1>8. CASE CommitReturn(c)
  <2>1. ReturnCredit(P(c)) BY <1>8 DEF CommitReturn
  <2>2. status' \in [Payments -> PaymentStatus]
    BY <1>2, <1>4, <2>1, StatusTyped DEF ReturnCredit, PaymentStatus
  <2>3. reservation' \in [Payments -> ReservationStatus]
    BY <1>2, <1>4, <2>1, ReservationTyped DEF ReturnCredit, ReservationStatus
  <2>4. ledger' \in [Payments -> SUBSET EntryType]
    BY <1>2, <1>4, <2>1, EntryTyped DEF ReturnCredit, EntryType
  <2>5. events' \in [Payments -> SUBSET EventType]
    BY <1>2, <1>4, <2>1, EventTyped DEF ReturnCredit, EventType
  <2> QED BY <1>4, <1>8, <2>2, <2>3, <2>4, <2>5
          DEF CommitReturn, RowsOK, OthersOK, env
<1> QED BY <1>5, <1>6, <1>7, <1>8

(* The commits under the payment's advisory lock. *)
LEMMA LockedTyped ==
  ASSUME TypeOK, NEW c \in Callers, LockedStep(c)
  PROVE  TypeOK'
<1>1. ~At(c, "idle") /\ ~At(c, "nacha") /\ Goes(c, Idle)
  BY DEF LockedStep, CommitWorkerSettle, CommitWorkerReturn, CommitRelease,
         CommitSettleDebit, CommitReturnDebit, At
<1>2. P(c) \in Payments
  BY <1>1, PaymentOfCall, TypeParts
<1>3. CallsOK'
  BY <1>1, GoesIdle, TypeParts
<1>4. RowsOK /\ OthersOK
  BY TypeParts
<1> SUFFICES RowsOK' /\ OthersOK' BY <1>3, TypePartsNext
<1>5. CASE CommitWorkerSettle(c)
  <2>1. SettleCredit(P(c)) BY <1>5 DEF CommitWorkerSettle
  <2>2. status' \in [Payments -> PaymentStatus]
    BY <1>2, <1>4, <2>1, StatusTyped DEF SettleCredit, PaymentStatus
  <2>3. reservation' \in [Payments -> ReservationStatus]
    BY <1>2, <1>4, <2>1, ReservationTyped DEF SettleCredit, ReservationStatus
  <2>4. ledger' \in [Payments -> SUBSET EntryType]
    BY <1>2, <1>4, <2>1, EntryTyped DEF SettleCredit, EntryType
  <2>5. events' \in [Payments -> SUBSET EventType]
    BY <1>2, <1>4, <2>1, EventTyped DEF SettleCredit, EventType
  <2> QED BY <1>4, <1>5, <2>2, <2>3, <2>4, <2>5
          DEF CommitWorkerSettle, RowsOK, OthersOK, env
<1>6. CASE CommitWorkerReturn(c)
  <2>1. ReturnCredit(P(c)) BY <1>6 DEF CommitWorkerReturn
  <2>2. status' \in [Payments -> PaymentStatus]
    BY <1>2, <1>4, <2>1, StatusTyped DEF ReturnCredit, PaymentStatus
  <2>3. reservation' \in [Payments -> ReservationStatus]
    BY <1>2, <1>4, <2>1, ReservationTyped DEF ReturnCredit, ReservationStatus
  <2>4. ledger' \in [Payments -> SUBSET EntryType]
    BY <1>2, <1>4, <2>1, EntryTyped DEF ReturnCredit, EntryType
  <2>5. events' \in [Payments -> SUBSET EventType]
    BY <1>2, <1>4, <2>1, EventTyped DEF ReturnCredit, EventType
  <2> QED BY <1>4, <1>6, <2>2, <2>3, <2>4, <2>5
          DEF CommitWorkerReturn, RowsOK, OthersOK, env
<1>7. CASE CommitRelease(c)
  <2>1. reservation' \in [Payments -> ReservationStatus]
    BY <1>2, <1>4, <1>7, ReservationTyped DEF CommitRelease, ReservationStatus
  <2>2. ledger' \in [Payments -> SUBSET EntryType]
    BY <1>2, <1>4, <1>7, EntryTyped DEF CommitRelease, EntryType
  <2> QED BY <1>4, <1>7, <2>1, <2>2 DEF CommitRelease, RowsOK, OthersOK, env
<1>8. CASE CommitSettleDebit(c)
  <2>1. status' \in [Payments -> PaymentStatus]
    BY <1>2, <1>4, <1>8, StatusTyped DEF CommitSettleDebit, PaymentStatus
  <2>2. ledger' \in [Payments -> SUBSET EntryType]
    BY <1>2, <1>4, <1>8, EntryTyped DEF CommitSettleDebit, EntryType
  <2>3. events' \in [Payments -> SUBSET EventType]
    BY <1>2, <1>4, <1>8, EventTyped DEF CommitSettleDebit, EventType
  <2> QED BY <1>4, <1>8, <2>1, <2>2, <2>3
          DEF CommitSettleDebit, RowsOK, OthersOK, env
<1>9. CASE CommitReturnDebit(c)
  <2>1. status' \in [Payments -> PaymentStatus]
    BY <1>2, <1>4, <1>9, StatusTyped DEF CommitReturnDebit, PaymentStatus
  <2>2. ledger' \in [Payments -> SUBSET EntryType]
    BY <1>2, <1>4, <1>9, EntryTyped DEF CommitReturnDebit, EntryType
  <2>3. events' \in [Payments -> SUBSET EventType]
    BY <1>2, <1>4, <1>9, EventTyped DEF CommitReturnDebit, EventType
  <2> QED BY <1>4, <1>9, <2>1, <2>2, <2>3
          DEF CommitReturnDebit, RowsOK, OthersOK, env
<1> QED BY <1>5, <1>6, <1>7, <1>8, <1>9 DEF LockedStep

(* The worker's commits, the outbox updates and the claim. *)
LEMMA ClaimTyped ==
  ASSUME RowsOK, NEW p \in Payments, NEW new \in OutboxStatus,
         \/ claim' = [claim EXCEPT ![p] = new]
         \/ claim' = [claim EXCEPT ![p] = IF @ = "PROCESSING" THEN new ELSE @]
  PROVE  claim' \in [Payments -> OutboxStatus]
  BY DEF RowsOK

LEMMA ClaimReceivedTyped ==
  ASSUME TypeOK, NEW c \in Callers, NEW p \in Payments, ClaimReceived(c, p)
  PROVE  TypeOK'
<1>1. claim' \in [Payments -> OutboxStatus]
  BY ClaimTyped, TypeParts DEF ClaimReceived, OutboxStatus
<1>2. PICK op \in Ops : Goes(c, Doing(op, p))
  BY OpsNamed DEF ClaimReceived
<1>3. CallsOK'
  BY <1>2, GoesDoing, TypeParts
<1> QED BY <1>1, <1>3, TypeParts, TypePartsNext DEF ClaimReceived, RowsOK, OthersOK, env

LEMMA OutboxTyped ==
  ASSUME TypeOK, NEW c \in Callers,
         LockDayAlreadyDecided(c) \/ MarkProcessed(c) \/ MarkFailed(c)
  PROVE  TypeOK'
<1>1. ~At(c, "idle") /\ ~At(c, "nacha")
  BY DEF LockDayAlreadyDecided, MarkProcessed, MarkFailed, At
<1>2. P(c) \in Payments
  BY <1>1, PaymentOfCall, TypeParts
<1>3. CallsOK'
  BY <1>2, GoesDoing, GoesIdle, OpsNamed, TypeParts
     DEF LockDayAlreadyDecided, MarkProcessed, MarkFailed
<1>4. claim' \in [Payments -> OutboxStatus]
  <2>1. CASE LockDayAlreadyDecided(c)
    BY <1>2, <2>1, ClaimTyped, TypeParts
       DEF LockDayAlreadyDecided, CompleteOutbox, OutboxStatus
  <2>2. CASE MarkProcessed(c)
    BY <1>2, <2>2, ClaimTyped, TypeParts DEF MarkProcessed, OutboxStatus
  <2>3. CASE MarkFailed(c)
    BY <1>2, <2>3, ClaimTyped, TypeParts DEF MarkFailed, OutboxStatus
  <2> QED BY <2>1, <2>2, <2>3
<1>5. UNCHANGED <<status, exported, reservation, ledger, events, usage, env>>
  BY DEF LockDayAlreadyDecided, MarkProcessed, MarkFailed
<1> QED BY <1>3, <1>4, <1>5, TypeParts, TypePartsNext DEF RowsOK, OthersOK, env

LEMMA DecisionTyped ==
  ASSUME TypeOK, NEW c \in Callers,
         FailFromReceived(c) \/ CommitAccept(c) \/ CommitReject(c)
  PROVE  TypeOK'
<1>1. /\ ~At(c, "idle") /\ ~At(c, "nacha")
      /\ Goes(c, Doing("complete", P(c)))
  BY DEF FailFromReceived, CommitAccept, CommitReject, At
<1>2. P(c) \in Payments
  BY <1>1, PaymentOfCall, TypeParts
<1>3. CallsOK'
  BY <1>1, <1>2, GoesDoing, OpsNamed, TypeParts
<1>4. RowsOK /\ CallsOK /\ OthersOK
  BY TypeParts
<1> SUFFICES RowsOK' /\ OthersOK' BY <1>3, TypePartsNext
<1>5. CASE FailFromReceived(c)
  <2>1. status' \in [Payments -> PaymentStatus]
    BY <1>2, <1>4, <1>5, StatusTyped DEF FailFromReceived, PaymentStatus
  <2>2. events' \in [Payments -> SUBSET EventType]
    BY <1>2, <1>4, <1>5, EventTyped DEF FailFromReceived, EventType
  <2> QED BY <1>4, <1>5, <2>1, <2>2 DEF FailFromReceived, RowsOK, OthersOK, env
<1>6. CASE CommitReject(c)
  <2>1. status' \in [Payments -> PaymentStatus]
    BY <1>2, <1>4, <1>6, TransitionTyped DEF CommitReject, PaymentStatus
  <2>2. events' \in [Payments -> SUBSET EventType]
    BY <1>2, <1>4, <1>6, EventTyped DEF CommitReject, EventType
  <2>3. claim' \in [Payments -> OutboxStatus]
    BY <1>2, <1>4, <1>6, ClaimTyped DEF CommitReject, CompleteOutbox, OutboxStatus
  <2> QED BY <1>4, <1>6, <2>1, <2>2, <2>3 DEF CommitReject, RowsOK, OthersOK, env
<1>7. CASE CommitAccept(c)
  <2>1. status' \in [Payments -> PaymentStatus]
    BY <1>2, <1>4, <1>7, TransitionTyped DEF CommitAccept, PaymentStatus
  <2>2. events' \in [Payments -> SUBSET EventType]
    BY <1>2, <1>4, <1>7 DEF CommitAccept, EventType, RowsOK
  <2>3. claim' \in [Payments -> OutboxStatus]
    BY <1>2, <1>4, <1>7, ClaimTyped DEF CommitAccept, CompleteOutbox, OutboxStatus
  <2>4. usage' \in [Merchants \X Dates -> Nat]
    BY <1>1, <1>4, <1>7, UsageTyped DEF CommitAccept
  <2>5. /\ reservation' \in [Payments -> ReservationStatus]
        /\ ledger' \in [Payments -> SUBSET EntryType]
    <3>1. CASE UNCHANGED <<reservation, ledger>>
      BY <1>4, <3>1 DEF RowsOK
    <3>2. CASE InsertReservation(P(c))
      BY <1>2, <1>4, <3>2, ReservationTyped, EntryTyped
         DEF InsertReservation, ReservationStatus, EntryType
    <3> QED BY <1>7, <3>1, <3>2 DEF CommitAccept
  <2> QED BY <1>4, <1>7, <2>1, <2>2, <2>3, <2>4, <2>5
          DEF CommitAccept, RowsOK, OthersOK, env
<1> QED BY <1>5, <1>6, <1>7

LEMMA NachaTyped ==
  ASSUME TypeOK, NEW c \in Callers,
         CommitNacha(c) \/ \E m \in Merchants : SelectForNacha(c, m)
  PROVE  TypeOK'
<1>1. CASE CommitNacha(c)
  <2>1. CallsOK'
    BY <1>1, GoesIdle, TypeParts DEF CommitNacha
  <2>2. call[c].batch \subseteq Payments
    BY TypeParts DEF CallsOK, Call
  <2>3. RowsOK' /\ OthersOK'
    BY <1>1, <2>2, TypeParts
       DEF CommitNacha, RowsOK, OthersOK, PaymentStatus, EventType, env
  <2> QED BY <2>1, <2>3, TypePartsNext
<1>2. CASE \E m \in Merchants : SelectForNacha(c, m)
  <2>1. PICK S \in SUBSET Payments : Goes(c, Generating(S)) /\ UNCHANGED <<rows, env>>
    BY <1>2 DEF SelectForNacha, OfMerchant
  <2>2. CallsOK'
    BY <2>1, GeneratingIsCall, GoesTyped, TypeParts
  <2> QED BY <2>1, <2>2, StutterTyped, TypeParts, TypePartsNext
<1> QED BY <1>1, <1>2

(* The steps outside every call. *)
LEMMA OutsideTyped ==
  ASSUME TypeOK,
         \/ \E p \in Payments : Create(p) \/ RecoverExpired(p)
         \/ \E m \in Merchants : UpdateMerchantStatus(m) \/ ProvisionDemoFunding(m)
         \/ \E e \in BankEvents, p \in Payments : ProcessBankSettlementEvent(e, p)
  PROVE  TypeOK'
<1>1. ASSUME NEW p \in Payments, Create(p) PROVE TypeOK'
  <2>1. status' \in [Payments -> PaymentStatus]
    BY <1>1, StatusTyped, TypeParts DEF Create, PaymentStatus
  <2>2. events' \in [Payments -> SUBSET EventType]
    BY <1>1, EventTyped, TypeParts DEF Create, EventType
  <2>3. claim' \in [Payments -> OutboxStatus]
    BY <1>1, ClaimTyped, TypeParts DEF Create, OutboxStatus
  <2> QED BY <1>1, <2>1, <2>2, <2>3 DEF Create, TypeOK, env, P
<1>2. ASSUME NEW p \in Payments, RecoverExpired(p) PROVE TypeOK'
  <2>1. claim' \in [Payments -> OutboxStatus]
    BY <1>2, ClaimTyped, TypeParts DEF RecoverExpired, OutboxStatus
  <2> QED BY <1>2, <2>1 DEF RecoverExpired, TypeOK, env, P
<1>3. ASSUME NEW m \in Merchants, UpdateMerchantStatus(m) \/ ProvisionDemoFunding(m)
      PROVE  TypeOK'
  BY <1>3 DEF UpdateMerchantStatus, ProvisionDemoFunding, TypeOK, P
<1>4. ASSUME NEW e \in BankEvents, NEW p \in Payments,
             ProcessBankSettlementEvent(e, p)
      PROVE  TypeOK'
  BY <1>4 DEF ProcessBankSettlementEvent, TypeOK, P
<1> QED BY <1>1, <1>2, <1>3, <1>4

LEMMA StepTyped ==
  ASSUME TypeOK, [Next]_vars
  PROVE  TypeOK'
<1>1. CASE UNCHANGED vars
  BY <1>1 DEF vars, TypeOK, P
<1>2. ASSUME NEW c \in Callers, ApiStep(c) \/ LockedStep(c) \/ HandlerStep(c)
                               \/ CommitNacha(c) \/ WorkerError(c) \/ Abort(c)
      PROVE  TypeOK'
  BY <1>2, ApiCommitTyped, LockTyped, StepsOnTyped, LockedTyped, OutboxTyped,
     DecisionTyped, NachaTyped, EndTyped DEF ApiStep, HandlerStep
<1>3. ASSUME NEW c \in Callers, NEW p \in Payments,
             ApiBegin(c, p) \/ LockedBegin(c, p) \/ ClaimReceived(c, p)
      PROVE  TypeOK'
  BY <1>3, BeginTyped, ClaimReceivedTyped
<1>4. ASSUME NEW c \in Callers, NEW m \in Merchants, SelectForNacha(c, m)
      PROVE  TypeOK'
  BY <1>4, NachaTyped
<1> QED BY <1>1, <1>2, <1>3, <1>4, OutsideTyped DEF Next

(* The rows, the usage and what the calls remember keep their types in     *)
(* every behaviour.                                                        *)
THEOREM TypeCorrect == Spec => []TypeOK
<1>1. Init => TypeOK
  BY IdleIsCall, LifecycleAssumption
     DEF Init, TypeOK, PaymentStatus, ReservationStatus, OutboxStatus
<1>2. TypeOK /\ [Next]_vars => TypeOK'
  BY StepTyped
<1> QED BY <1>1, <1>2, PTL DEF Spec

-----------------------------------------------------------------------------
(* The inductive invariant.  Beside what the runs check, the rows of a      *)
(* payment determine each other as PaymentInv says, and what a call read of *)
(* its payment is still true when it commits, as CallInv says: every fact   *)
(* CallInv needs is one that no step can undo.                              *)

Decided(p) == status[p] \notin {"ABSENT", "RECEIVED"}

PaymentInv(p) ==
  /\ status[p] \in {"SETTLED", "RETURNED"} <=> ledger[p] \cap Posting # {}
  /\ status[p] \in {"SETTLED", "RETURNED"} <=> "PAYMENT_SETTLED" \in events[p]
  /\ status[p] = "RETURNED" <=> "RETURN" \in ledger[p]
  /\ status[p] = "RETURNED" <=> "PAYMENT_RETURNED" \in events[p]
  /\ p \in exported <=> status[p] \in {"SUBMITTED", "SETTLED", "RETURNED"}
  /\ p \in exported <=> "PAYMENT_SUBMITTED" \in events[p]
  /\ status[p] \in {"VALIDATED", "SUBMITTED", "SETTLED", "RETURNED"}
       => "PAYMENT_VALIDATED" \in events[p]
  /\ reservation[p] = "ACTIVE" => ledger[p] \cap (Posting \cup {"RETURN"}) = {}
  /\ "SETTLEMENT" \in ledger[p] => reservation[p] # "NONE"
  /\ reservation[p] \in {"SETTLED", "RETURNED"} => "SETTLEMENT" \in ledger[p]
  /\ "DEBIT_POSTED" \in ledger[p] => Direction[p] = "DEBIT"
  /\ Direction[p] = "DEBIT" => reservation[p] = "NONE"
  /\ status[p] = "ABSENT" => claim[p] = "ABSENT" /\ reservation[p] = "NONE"
  /\ claim[p] = "PROCESSED" => Decided(p)

OnHeld == {"settleRead", "settle", "return", "workerSettle", "workerReturn",
           "release"}
OnCredit == {"reserve", "reserveFunding", "reserveCommit", "funding"}

CallInv(c) ==
  /\ call[c].op \notin {"idle", "nacha"} => status[P(c)] # "ABSENT"
  /\ call[c].op \in OnCredit => Direction[P(c)] = "CREDIT"
  /\ call[c].op \in OnHeld => reservation[P(c)] # "NONE"
  /\ call[c].op \in {"settleDebit", "returnDebit"} => Direction[P(c)] = "DEBIT"
  /\ call[c].op \in {"settle", "settleDebit"} => P(c) \in exported
  /\ call[c].op \in {"return", "workerReturn"} => "SETTLEMENT" \in ledger[P(c)]
  /\ call[c].op = "complete" => Decided(P(c))

RowInv ==
  /\ TypeOK
  /\ \A p \in Payments : PaymentInv(p)
  /\ \A c \in Callers : CallInv(c)
  /\ BankEventsAreSettled

(* One generator at a time, and its batch stays eligible. *)
NachaInv ==
  /\ \A c \in Callers : call[c].batch # {} => At(c, "nacha")
  /\ \A c, d \in Callers : At(c, "nacha") /\ At(d, "nacha") => c = d
  /\ NachaBatchUndisturbed

(* The daily lock excludes, so that what was read of the usage under it is  *)
(* the usage still, and the limit was checked against it.                   *)
Checked(c) ==
  \/ call[c].op \in {"reserveFunding", "reserveCommit", "funding"}
  \/ At(c, "decide") /\ call[c].verdict = "VALIDATED"

UsageInv ==
  /\ \A c, d \in Callers :
       /\ c # d
       /\ call[c].op \in DailyLockOps
       /\ call[d].op \in DailyLockOps
       => Day(P(c)) # Day(P(d))
  /\ \A c \in Callers :
       call[c].op \in DailyLockOps => call[c].utilized = usage[Day(P(c))]
  /\ \A c \in Callers :
       Checked(c) => call[c].utilized + Amount[P(c)] <= DailyLimit[MerchantOf[P(c)]]
  /\ UsageWithinLimit

-----------------------------------------------------------------------------
(* RowInv is inductive.  A step changes the rows of at most one payment,    *)
(* but for a NACHA commit; what it may do to them is Keeps.                 *)

Settled(p) == status[p] \in {"SETTLED", "RETURNED"}

Keeps(p) ==
  /\ status[p] # "ABSENT" => status'[p] # "ABSENT"
  /\ Decided(p) => Decided(p)'
  /\ Settled(p) => Settled(p)'
  /\ reservation[p] # "NONE" => reservation'[p] # "NONE"
  /\ p \in exported => p \in exported'
  /\ ledger[p] \subseteq ledger'[p]

Same(p) ==
  /\ status'[p] = status[p]
  /\ p \in exported' <=> p \in exported
  /\ reservation'[p] = reservation[p]
  /\ ledger'[p] = ledger[p]
  /\ events'[p] = events[p]
  /\ claim'[p] = claim[p]

LEMMA SameKeeps ==
  ASSUME NEW p \in Payments, Same(p), PaymentInv(p)
  PROVE  PaymentInv(p)' /\ Keeps(p)
  BY DEF Same, Keeps, PaymentInv, Decided, Settled

LEMMA RowsSame ==
  ASSUME UNCHANGED rows
  PROVE  \A p \in Payments : Same(p)
  BY DEF rows, Same

(* What a write does to the row of p and to the others. *)
LEMMA StatusAt ==
  ASSUME TypeOK, NEW p \in Payments, NEW new, SetStatus(p, new)
  PROVE  status'[p] = new /\ \A q \in Payments \ {p} : status'[q] = status[q]
  BY DEF TypeOK, SetStatus

LEMMA TransitionAt ==
  ASSUME TypeOK, NEW p \in Payments, NEW new, TransitionIfReceived(p, new)
  PROVE  /\ status'[p] = IF status[p] = "RECEIVED" THEN new ELSE status[p]
         /\ \A q \in Payments \ {p} : status'[q] = status[q]
  BY DEF TypeOK, TransitionIfReceived

LEMMA ReservationAt ==
  ASSUME TypeOK, NEW p \in Payments, NEW new, SetReservation(p, new)
  PROVE  /\ reservation'[p] = new
         /\ \A q \in Payments \ {p} : reservation'[q] = reservation[q]
  BY DEF TypeOK, SetReservation

LEMMA EntryAt ==
  ASSUME TypeOK, NEW p \in Payments, NEW type, AddEntry(p, type)
  PROVE  /\ type \notin ledger[p] /\ ledger'[p] = ledger[p] \cup {type}
         /\ \A q \in Payments \ {p} : ledger'[q] = ledger[q]
  BY DEF TypeOK, AddEntry

LEMMA EventAt ==
  ASSUME TypeOK, NEW p \in Payments, NEW type, AddEvent(p, type)
  PROVE  /\ type \notin events[p] /\ events'[p] = events[p] \cup {type}
         /\ \A q \in Payments \ {p} : events'[q] = events[q]
  BY DEF TypeOK, AddEvent

LEMMA ClaimAt ==
  ASSUME TypeOK, NEW p \in Payments, NEW new,
         \/ claim' = [claim EXCEPT ![p] = new]
         \/ claim' = [claim EXCEPT ![p] = IF @ = "PROCESSING" THEN new ELSE @]
  PROVE  /\ claim'[p] \in {claim[p], new}
         /\ \A q \in Payments \ {p} : claim'[q] = claim[q]
  BY DEF TypeOK

(* A step that leaves the rows of all payments but p alone. *)
LEMMA OnePayment ==
  ASSUME \A q \in Payments : PaymentInv(q), NEW p \in Payments,
         \A q \in Payments \ {p} : Same(q), PaymentInv(p)', Keeps(p)
  PROVE  \A q \in Payments : PaymentInv(q)' /\ Keeps(q)
  BY SameKeeps

LEMMA CallKept ==
  ASSUME CallsOK, NEW d \in Callers, CallInv(d), call'[d] = call[d],
         \A p \in Payments : Keeps(p)
  PROVE  CallInv(d)'
<1>1. CASE At(d, "idle") \/ At(d, "nacha")
  BY <1>1 DEF CallInv, At, OnCredit, OnHeld
<1>2. CASE ~At(d, "idle") /\ ~At(d, "nacha")
  <2>1. P(d) \in Payments /\ P(d)' = P(d)
    BY <1>2 DEF CallsOK, At, P
  <2> QED BY <2>1 DEF CallInv, Keeps, P
<1> QED BY <1>1, <1>2

LEMMA BankKept ==
  ASSUME TypeOK, BankEventsAreSettled, UNCHANGED bankEvents,
         \A p \in Payments : Keeps(p)
  PROVE  BankEventsAreSettled'
  BY DEF TypeOK, BankEventsAreSettled, Keeps, Settled

(* The step of caller c keeps RowInv if what it does to the payments and    *)
(* to its own call does.                                                    *)
LEMMA CallerStep ==
  ASSUME RowInv, TypeOK', NEW c \in Callers,
         \A d \in Callers \ {c} : call'[d] = call[d], UNCHANGED bankEvents,
         \A p \in Payments : PaymentInv(p)' /\ Keeps(p), CallInv(c)'
  PROVE  RowInv'
<1>1. ASSUME NEW d \in Callers PROVE CallInv(d)'
  BY <1>1, CallKept, TypeParts DEF RowInv
<1>2. BankEventsAreSettled'
  BY BankKept DEF RowInv
<1> QED BY <1>1, <1>2 DEF RowInv

LEMMA GoesElsewhere ==
  ASSUME NEW c \in Callers, NEW r, Goes(c, r), TypeOK
  PROVE  call'[c] = r /\ \A d \in Callers \ {c} : call'[d] = call[d]
  BY DEF Goes, TypeOK

LEMMA IdleCallInv ==
  ASSUME NEW c \in Callers, call'[c] = Idle
  PROVE  CallInv(c)'
  BY IdleIsCall DEF CallInv, OnCredit, OnHeld

LEMMA CommitStep ==
  ASSUME RowInv, TypeOK', NEW c \in Callers, Goes(c, Idle), UNCHANGED bankEvents,
         NEW p \in Payments, \A q \in Payments \ {p} : Same(q),
         PaymentInv(p)', Keeps(p)
  PROVE  RowInv'
<1>1. \A q \in Payments : PaymentInv(q)' /\ Keeps(q)
  BY OnePayment DEF RowInv
<1>2. CallInv(c)' /\ \A d \in Callers \ {c} : call'[d] = call[d]
  BY GoesElsewhere, IdleCallInv DEF RowInv
<1> QED BY <1>1, <1>2, CallerStep

(* The steps that commit a credit's settlement or return. *)
LEMMA SettleCreditKeeps ==
  ASSUME TypeOK, NEW p \in Payments, PaymentInv(p), SettleCredit(p),
         reservation[p] # "NONE", p \in exported, UNCHANGED <<exported, claim>>
  PROVE  /\ PaymentInv(p)' /\ Keeps(p)
         /\ \A q \in Payments \ {p} : Same(q)
<1>1. /\ reservation'[p] = "SETTLED"
      /\ \A q \in Payments \ {p} : reservation'[q] = reservation[q]
  BY ReservationAt DEF SettleCredit
<1>2. status'[p] = "SETTLED" /\ \A q \in Payments \ {p} : status'[q] = status[q]
  BY StatusAt DEF SettleCredit
<1>3. /\ ledger'[p] = ledger[p] \cup {"SETTLEMENT"}
      /\ \A q \in Payments \ {p} : ledger'[q] = ledger[q]
  BY EntryAt DEF SettleCredit
<1>4. /\ "PAYMENT_SETTLED" \notin events[p]
      /\ events'[p] = events[p] \cup {"PAYMENT_SETTLED"}
      /\ \A q \in Payments \ {p} : events'[q] = events[q]
  BY EventAt DEF SettleCredit
<1>5. PaymentInv(p)'
  BY <1>1, <1>2, <1>3, <1>4 DEF PaymentInv, Posting, Decided
<1>6. Keeps(p)
  BY <1>1, <1>2, <1>3 DEF Keeps, Decided, Settled
<1> QED BY <1>1, <1>2, <1>3, <1>4, <1>5, <1>6 DEF Same

LEMMA ReturnCreditKeeps ==
  ASSUME TypeOK, NEW p \in Payments, PaymentInv(p), ReturnCredit(p),
         reservation[p] # "NONE", "SETTLEMENT" \in ledger[p],
         UNCHANGED <<exported, claim>>
  PROVE  /\ PaymentInv(p)' /\ Keeps(p)
         /\ \A q \in Payments \ {p} : Same(q)
<1>1. /\ reservation'[p] = "RETURNED"
      /\ \A q \in Payments \ {p} : reservation'[q] = reservation[q]
  BY ReservationAt DEF ReturnCredit
<1>2. status'[p] = "RETURNED" /\ \A q \in Payments \ {p} : status'[q] = status[q]
  BY StatusAt DEF ReturnCredit
<1>3. /\ ledger'[p] = ledger[p] \cup {"RETURN"}
      /\ \A q \in Payments \ {p} : ledger'[q] = ledger[q]
  BY EntryAt DEF ReturnCredit
<1>4. /\ events'[p] = events[p] \cup {"PAYMENT_RETURNED"}
      /\ \A q \in Payments \ {p} : events'[q] = events[q]
  BY EventAt DEF ReturnCredit
<1>5. PaymentInv(p)'
  BY <1>1, <1>2, <1>3, <1>4 DEF PaymentInv, Posting, Decided
<1>6. Keeps(p)
  BY <1>1, <1>2, <1>3 DEF Keeps, Decided, Settled
<1> QED BY <1>1, <1>2, <1>3, <1>4, <1>5, <1>6 DEF Same

LEMMA InsertReservationKeeps ==
  ASSUME TypeOK, NEW p \in Payments, PaymentInv(p), InsertReservation(p),
         Direction[p] = "CREDIT"
  PROVE  /\ reservation[p] = "NONE" /\ reservation'[p] = "ACTIVE"
         /\ ledger'[p] = ledger[p] \cup {"RESERVATION"}
         /\ ledger'[p] \cap (Posting \cup {"RETURN"}) = {}
         /\ \A q \in Payments \ {p} : /\ reservation'[q] = reservation[q]
                                      /\ ledger'[q] = ledger[q]
<1>1. /\ reservation[p] = "NONE" /\ reservation'[p] = "ACTIVE"
      /\ \A q \in Payments \ {p} : reservation'[q] = reservation[q]
  BY ReservationAt DEF InsertReservation
<1>2. /\ ledger'[p] = ledger[p] \cup {"RESERVATION"}
      /\ \A q \in Payments \ {p} : ledger'[q] = ledger[q]
  BY EntryAt DEF InsertReservation
<1>3. ledger[p] \cap Posting = {}
  BY <1>1 DEF PaymentInv, Posting
<1>4. "RETURN" \notin ledger[p]
  BY <1>3 DEF PaymentInv
<1> QED BY <1>1, <1>2, <1>3, <1>4 DEF Posting

(* The API's commits. *)
LEMMA ApiCommitInv ==
  ASSUME RowInv, TypeOK', NEW c \in Callers,
         CommitValidate(c) \/ CommitReserve(c) \/ CommitSettle(c) \/ CommitReturn(c)
  PROVE  RowInv'
<1>1. ~At(c, "idle") /\ ~At(c, "nacha") /\ Goes(c, Idle) /\ UNCHANGED bankEvents
  BY DEF CommitValidate, CommitReserve, CommitSettle, CommitReturn, At, env
<1>p. PICK p \in Payments : p = P(c)
  BY <1>1, PaymentOfCall, TypeParts DEF RowInv
<1>2. p \in Payments /\ p = P(c) /\ PaymentInv(p) /\ CallInv(c) /\ TypeOK
  BY <1>p DEF RowInv
<1> SUFFICES /\ PaymentInv(p)' /\ Keeps(p)
             /\ \A q \in Payments \ {p} : Same(q)
  BY <1>1, <1>2, CommitStep
<1>3. CASE CommitValidate(c)
  <2>1. status'[p] = "VALIDATED" /\ \A q \in Payments \ {p} : status'[q] = status[q]
    BY <1>2, <1>3, StatusAt DEF CommitValidate
  <2>2. /\ "PAYMENT_VALIDATED" \notin events[p]
        /\ events'[p] = events[p] \cup {"PAYMENT_VALIDATED"}
        /\ \A q \in Payments \ {p} : events'[q] = events[q]
    BY <1>2, <1>3, EventAt DEF CommitValidate
  <2>3. UNCHANGED <<exported, reservation, ledger, claim>>
    BY <1>3 DEF CommitValidate
  <2>4. status[p] \notin {"ABSENT", "VALIDATED", "SUBMITTED", "SETTLED", "RETURNED"}
    BY <1>2, <1>3, <2>2 DEF PaymentInv, CallInv, CommitValidate, At
  <2>5. PaymentInv(p)'
    BY <1>2, <2>1, <2>2, <2>3, <2>4 DEF PaymentInv, Decided
  <2> QED BY <2>1, <2>2, <2>3, <2>4, <2>5 DEF Keeps, Same, Decided, Settled
<1>4. CASE CommitReserve(c)
  <2>1. Direction[p] = "CREDIT" /\ status[p] # "ABSENT"
    BY <1>2, <1>4 DEF CallInv, CommitReserve, At, OnCredit
  <2>2. /\ reservation[p] = "NONE" /\ reservation'[p] = "ACTIVE"
        /\ ledger'[p] = ledger[p] \cup {"RESERVATION"}
        /\ ledger'[p] \cap (Posting \cup {"RETURN"}) = {}
        /\ \A q \in Payments \ {p} : /\ reservation'[q] = reservation[q]
                                     /\ ledger'[q] = ledger[q]
    BY <1>2, <1>4, <2>1, InsertReservationKeeps DEF CommitReserve
  <2>3. /\ events'[p] = events[p] \cup {"PAYMENT_RESERVED"}
        /\ \A q \in Payments \ {p} : events'[q] = events[q]
    BY <1>2, <1>4, EventAt DEF CommitReserve
  <2>4. UNCHANGED <<status, exported, claim>>
    BY <1>4 DEF CommitReserve
  <2>5. PaymentInv(p)'
    BY <1>2, <2>1, <2>2, <2>3, <2>4 DEF PaymentInv, Decided, Posting
  <2> QED BY <2>1, <2>2, <2>3, <2>4, <2>5 DEF Keeps, Same, Decided, Settled
<1>5. CASE CommitSettle(c)
  BY <1>2, <1>5, SettleCreditKeeps DEF CommitSettle, CallInv, OnHeld, At
<1>6. CASE CommitReturn(c)
  BY <1>2, <1>6, ReturnCreditKeeps DEF CommitReturn, CallInv, OnHeld, At
<1> QED BY <1>3, <1>4, <1>5, <1>6

(* The commits under the payment's lock. *)
LEMMA LockedInv ==
  ASSUME RowInv, TypeOK', NEW c \in Callers, LockedStep(c)
  PROVE  RowInv'
<1>1. ~At(c, "idle") /\ ~At(c, "nacha") /\ Goes(c, Idle) /\ UNCHANGED bankEvents
  BY DEF LockedStep, CommitWorkerSettle, CommitWorkerReturn, CommitRelease,
         CommitSettleDebit, CommitReturnDebit, At, env
<1>p. PICK p \in Payments : p = P(c)
  BY <1>1, PaymentOfCall, TypeParts DEF RowInv
<1>2. p \in Payments /\ p = P(c) /\ PaymentInv(p) /\ CallInv(c) /\ TypeOK
  BY <1>p DEF RowInv
<1> SUFFICES /\ PaymentInv(p)' /\ Keeps(p)
             /\ \A q \in Payments \ {p} : Same(q)
  BY <1>1, <1>2, CommitStep
<1>3. CASE CommitWorkerSettle(c)
  <2>1. p \in exported
    BY <1>2, <1>3 DEF CommitWorkerSettle, PaymentInv
  <2> QED BY <1>2, <1>3, <2>1, SettleCreditKeeps
          DEF CommitWorkerSettle, CallInv, OnHeld, At
<1>4. CASE CommitWorkerReturn(c)
  BY <1>2, <1>4, ReturnCreditKeeps DEF CommitWorkerReturn, CallInv, OnHeld, At
<1>5. CASE CommitRelease(c)
  <2>1. /\ reservation'[p] = "RELEASED"
        /\ \A q \in Payments \ {p} : reservation'[q] = reservation[q]
    BY <1>2, <1>5, ReservationAt DEF CommitRelease
  <2>2. /\ ledger'[p] = ledger[p] \cup {"RESERVATION_RELEASE"}
        /\ \A q \in Payments \ {p} : ledger'[q] = ledger[q]
    BY <1>2, <1>5, EntryAt DEF CommitRelease
  <2>3. UNCHANGED <<status, exported, events, claim>>
    BY <1>5 DEF CommitRelease
  <2>4. reservation[p] # "NONE" /\ status[p] # "ABSENT"
    BY <1>2, <1>5 DEF CommitRelease, CallInv, OnHeld, At
  <2>5. PaymentInv(p)'
    BY <1>2, <2>1, <2>2, <2>3, <2>4 DEF PaymentInv, Decided, Posting
  <2> QED BY <2>1, <2>2, <2>3, <2>5 DEF Keeps, Same, Decided, Settled
<1>6. CASE CommitSettleDebit(c)
  <2>1. status'[p] = "SETTLED" /\ \A q \in Payments \ {p} : status'[q] = status[q]
    BY <1>2, <1>6, StatusAt DEF CommitSettleDebit
  <2>2. /\ ledger'[p] = ledger[p] \cup {"DEBIT_POSTED"}
        /\ \A q \in Payments \ {p} : ledger'[q] = ledger[q]
    BY <1>2, <1>6, EntryAt DEF CommitSettleDebit
  <2>3. /\ "PAYMENT_SETTLED" \notin events[p]
        /\ events'[p] = events[p] \cup {"PAYMENT_SETTLED"}
        /\ \A q \in Payments \ {p} : events'[q] = events[q]
    BY <1>2, <1>6, EventAt DEF CommitSettleDebit
  <2>4. UNCHANGED <<exported, reservation, claim>>
    BY <1>6 DEF CommitSettleDebit
  <2>5. p \in exported /\ Direction[p] = "DEBIT"
    BY <1>2, <1>6 DEF CommitSettleDebit, CallInv, At
  <2>6. PaymentInv(p)'
    BY <1>2, <2>1, <2>2, <2>3, <2>4, <2>5 DEF PaymentInv, Decided, Posting
  <2> QED BY <2>1, <2>2, <2>3, <2>4, <2>6 DEF Keeps, Same, Decided, Settled
<1>7. CASE CommitReturnDebit(c)
  <2>1. /\ status[p] = "SETTLED" /\ status'[p] = "RETURNED"
        /\ \A q \in Payments \ {p} : status'[q] = status[q]
    BY <1>2, <1>7, StatusAt DEF CommitReturnDebit
  <2>2. /\ ledger'[p] = ledger[p] \cup {"RETURN"}
        /\ \A q \in Payments \ {p} : ledger'[q] = ledger[q]
    BY <1>2, <1>7, EntryAt DEF CommitReturnDebit
  <2>3. /\ events'[p] = events[p] \cup {"PAYMENT_RETURNED"}
        /\ \A q \in Payments \ {p} : events'[q] = events[q]
    BY <1>2, <1>7, EventAt DEF CommitReturnDebit
  <2>4. UNCHANGED <<exported, reservation, claim>>
    BY <1>7 DEF CommitReturnDebit
  <2>5. Direction[p] = "DEBIT"
    BY <1>2, <1>7 DEF CommitReturnDebit, CallInv, At
  <2>6. PaymentInv(p)'
    BY <1>2, <2>1, <2>2, <2>3, <2>4, <2>5 DEF PaymentInv, Decided, Posting
  <2> QED BY <2>1, <2>2, <2>3, <2>4, <2>6 DEF Keeps, Same, Decided, Settled
<1> QED BY <1>3, <1>4, <1>5, <1>6, <1>7 DEF LockedStep

(* The steps that leave the rows alone need only say what the call they     *)
(* move to assumes.                                                         *)
LEMMA MoveStep ==
  ASSUME RowInv, TypeOK', NEW c \in Callers, NEW r, Goes(c, r),
         UNCHANGED <<rows, env>>, CallInv(c)'
  PROVE  RowInv'
<1>1. \A p \in Payments : PaymentInv(p)' /\ Keeps(p)
  BY RowsSame, SameKeeps DEF RowInv, rows
<1>2. \A d \in Callers \ {c} : call'[d] = call[d]
  BY GoesElsewhere DEF RowInv
<1> QED BY <1>1, <1>2, CallerStep DEF env

LEMMA BeginInv ==
  ASSUME RowInv, TypeOK', NEW c \in Callers, NEW p \in Payments,
         ApiBegin(c, p) \/ LockedBegin(c, p)
  PROVE  RowInv'
<1>1. PICK op \in {"validate", "reserve", "settleRead", "return", "workerSettle",
                   "workerReturn", "release", "settleDebit", "returnDebit"} :
        MovesTo(c, p, op)
  BY BeginShape
<1>2. PaymentInv(p) /\ TypeOK
  BY DEF RowInv
<1>3. /\ status'[p] = status[p] /\ reservation'[p] = reservation[p]
      /\ exported' = exported /\ ledger'[p] = ledger[p]
  BY <1>1 DEF MovesTo, rows
<1>4. call'[c] = Doing(op, p) /\ op \in Ops
  BY <1>1, <1>2, GoesElsewhere, OpsNamed DEF MovesTo
<1>5. call'[c].op = op /\ P(c)' = p
  BY <1>4, DoingIsCall DEF P
<1> SUFFICES CallInv(c)'
  BY <1>1, MoveStep DEF MovesTo
<1>6. CASE ReadForValidate(c, p)
  <2>1. op = "validate"
    BY <1>2, <1>4, <1>5, <1>6, GoesElsewhere, DoingIsCall, OpsNamed DEF ReadForValidate
  <2> QED BY <1>3, <1>5, <1>6, <2>1 DEF CallInv, ReadForValidate, OnHeld, OnCredit
<1>7. CASE ReadForReserve(c, p)
  <2>1. op = "reserve"
    BY <1>2, <1>4, <1>5, <1>7, GoesElsewhere, DoingIsCall, OpsNamed DEF ReadForReserve
  <2> QED BY <1>3, <1>5, <1>7, <2>1 DEF CallInv, ReadForReserve, OnHeld, OnCredit
<1>8. CASE ReadForSettle(c, p)
  <2>1. op = "settleRead"
    BY <1>2, <1>4, <1>5, <1>8, GoesElsewhere, DoingIsCall, OpsNamed DEF ReadForSettle
  <2> QED BY <1>2, <1>3, <1>5, <1>8, <2>1
          DEF CallInv, ReadForSettle, OnHeld, OnCredit, PaymentInv
<1>9. CASE ReadForReturn(c, p)
  <2>1. op = "return"
    BY <1>2, <1>4, <1>5, <1>9, GoesElsewhere, DoingIsCall, OpsNamed DEF ReadForReturn
  <2> QED BY <1>2, <1>3, <1>5, <1>9, <2>1
          DEF CallInv, ReadForReturn, OnHeld, OnCredit, PaymentInv
<1>10. CASE LockForSettle(c, p)
  <2>1. op = "workerSettle"
    BY <1>2, <1>4, <1>5, <1>10, GoesElsewhere, DoingIsCall, OpsNamed DEF LockForSettle
  <2> QED BY <1>2, <1>3, <1>5, <1>10, <2>1
          DEF CallInv, LockForSettle, OnHeld, OnCredit, PaymentInv
<1>11. CASE LockForReturn(c, p)
  <2>1. op = "workerReturn"
    BY <1>2, <1>4, <1>5, <1>11, GoesElsewhere, DoingIsCall, OpsNamed DEF LockForReturn
  <2> QED BY <1>2, <1>3, <1>5, <1>11, <2>1
          DEF CallInv, LockForReturn, OnHeld, OnCredit, PaymentInv
<1>12. CASE LockForRelease(c, p)
  <2>1. op = "release"
    BY <1>2, <1>4, <1>5, <1>12, GoesElsewhere, DoingIsCall, OpsNamed DEF LockForRelease
  <2> QED BY <1>2, <1>3, <1>5, <1>12, <2>1
          DEF CallInv, LockForRelease, OnHeld, OnCredit, PaymentInv
<1>13. CASE LockForSettleDebit(c, p)
  <2>1. op = "settleDebit"
    BY <1>2, <1>4, <1>5, <1>13, GoesElsewhere, DoingIsCall, OpsNamed
       DEF LockForSettleDebit
  <2> QED BY <1>2, <1>3, <1>5, <1>13, <2>1
          DEF CallInv, LockForSettleDebit, OnHeld, OnCredit, PaymentInv
<1>14. CASE LockForReturnDebit(c, p)
  <2>1. op = "returnDebit"
    BY <1>2, <1>4, <1>5, <1>14, GoesElsewhere, DoingIsCall, OpsNamed
       DEF LockForReturnDebit
  <2> QED BY <1>2, <1>3, <1>5, <1>14, <2>1
          DEF CallInv, LockForReturnDebit, OnHeld, OnCredit, PaymentInv
<1> QED BY <1>6, <1>7, <1>8, <1>9, <1>10, <1>11, <1>12, <1>13, <1>14
        DEF ApiBegin, LockedBegin

(* A call that goes on with its payment, the rows being left alone. *)
LEMMA GoesOn ==
  ASSUME TypeOK, NEW c \in Callers, NEW p \in Payments, NEW op \in Ops,
         NEW u \in Nat, NEW v \in Verdict, Goes(c, Working(op, p, u, v))
  PROVE  /\ At(c, op)' /\ P(c)' = p /\ call'[c].op = op
         /\ call'[c].utilized = u /\ call'[c].verdict = v /\ call'[c].batch = {}
<1>1. call'[c] = Working(op, p, u, v)
  BY GoesElsewhere
<1> QED BY <1>1, WorkingIsCall DEF At, P

LEMMA LockInv ==
  ASSUME RowInv, TypeOK', NEW c \in Callers,
         \/ ReserveLockDay(c) \/ ReserveLockFunding(c) \/ LockDay(c)
         \/ LacksAccount(c) \/ LockFunding(c)
  PROVE  RowInv'
<1>1. ~At(c, "idle") /\ ~At(c, "nacha") /\ UNCHANGED <<rows, env>>
  BY DEF ReserveLockDay, ReserveLockFunding, LockDay, LacksAccount, LockFunding, At
<1>p. PICK p \in Payments : p = P(c)
  BY <1>1, PaymentOfCall, TypeParts DEF RowInv
<1>2. /\ CallInv(c) /\ TypeOK /\ status[p] # "ABSENT" /\ status' = status
      /\ call[c].utilized \in Nat /\ usage[Day(p)] \in Nat
  BY <1>1, <1>p, PaymentOfCall, TypeParts DEF RowInv, CallInv, At, rows
<1>3. \A op \in Ops, u \in Nat, v \in Verdict :
        Goes(c, Working(op, p, u, v)) => P(c)' = p /\ call'[c].op = op
  BY <1>2, GoesOn
<1>4. \E r : Goes(c, r)
  BY DEF ReserveLockDay, ReserveLockFunding, LockDay, LacksAccount, LockFunding
<1> SUFFICES CallInv(c)'
  BY <1>1, <1>4, MoveStep
<1>5. CASE ReserveLockDay(c)
  <2>1. P(c)' = p /\ call'[c].op = "reserveFunding"
    BY <1>p, <1>2, <1>3, <1>5, OpsNamed DEF ReserveLockDay, Verdict
  <2> QED BY <1>p, <1>2, <1>5, <2>1 DEF CallInv, ReserveLockDay, At, OnCredit, OnHeld
<1>6. CASE ReserveLockFunding(c)
  <2>1. P(c)' = p /\ call'[c].op = "reserveCommit"
    BY <1>p, <1>2, <1>3, <1>6, OpsNamed DEF ReserveLockFunding, Verdict
  <2> QED BY <1>p, <1>2, <1>6, <2>1
          DEF CallInv, ReserveLockFunding, At, OnCredit, OnHeld
<1>7. CASE LockDay(c)
  <2> DEFINE within == WithinDailyLimit(P(c), usage[Day(P(c))])
             op == IF within /\ Direction[P(c)] = "CREDIT" THEN "funding" ELSE "decide"
             v == IF within THEN "VALIDATED" ELSE "EXCEEDS_DAILY_AMOUNT_LIMIT"
  <2>1. op \in Ops /\ v \in Verdict
    BY OpsNamed DEF Verdict
  <2>2. Goes(c, Working(op, P(c), usage[Day(P(c))], v))
    BY <1>7 DEF LockDay
  <2>3. P(c)' = p /\ call'[c].op = op
    BY <1>p, <1>2, <1>3, <2>1, <2>2
  <2>4. \/ call'[c].op = "decide"
        \/ call'[c].op = "funding" /\ Direction[p] = "CREDIT"
    BY <1>p, <2>3
  <2> QED BY <1>2, <2>3, <2>4 DEF CallInv, OnCredit, OnHeld
<1>8. CASE LacksAccount(c)
  <2>1. P(c)' = p /\ call'[c].op = "decide"
    BY <1>p, <1>2, <1>3, <1>8, OpsNamed DEF LacksAccount, Verdict
  <2> QED BY <1>2, <2>1 DEF CallInv, OnCredit, OnHeld
<1>9. CASE LockFunding(c)
  <2>1. P(c)' = p /\ call'[c].op = "decide"
    <3> DEFINE v == IF Available(MerchantOf[P(c)]) < Amount[P(c)]
                    THEN "INSUFFICIENT_FUNDS" ELSE "VALIDATED"
    <3>1. Goes(c, Working("decide", P(c), call[c].utilized, v))
      BY <1>9 DEF LockFunding
    <3>2. v \in Verdict /\ "decide" \in Ops
      BY OpsNamed DEF Verdict
    <3> HIDE DEF v
    <3> QED BY <1>p, <1>2, <1>3, <3>1, <3>2
  <2> QED BY <1>2, <2>1 DEF CallInv, OnCredit, OnHeld
<1> QED BY <1>5, <1>6, <1>7, <1>8, <1>9

LEMMA StepsOnInv ==
  ASSUME RowInv, TypeOK', NEW c \in Callers,
         ReadSubmitted(c) \/ FailAlreadyDecided(c) \/ WorkerError(c) \/ Abort(c)
  PROVE  RowInv'
<1>1. UNCHANGED <<rows, env>> /\ ~At(c, "idle") /\ TypeOK
  BY DEF ReadSubmitted, FailAlreadyDecided, WorkerError, Abort, At, WorkerOps, RowInv
<1>2. CASE Abort(c)
  <2>1. Goes(c, Idle) /\ CallInv(c)'
    BY <1>1, <1>2, GoesElsewhere, IdleCallInv DEF Abort
  <2> QED BY <1>1, <2>1, MoveStep
<1>3. CASE ReadSubmitted(c) \/ FailAlreadyDecided(c) \/ WorkerError(c)
  <2>1. ~At(c, "nacha")
    BY <1>3 DEF ReadSubmitted, FailAlreadyDecided, WorkerError, At, WorkerOps
  <2>p. PICK p \in Payments : p = P(c)
    BY <1>1, <2>1, PaymentOfCall, TypeParts
  <2>2. /\ CallInv(c) /\ PaymentInv(p) /\ status[p] # "ABSENT"
        /\ status' = status /\ exported' = exported /\ reservation' = reservation
    BY <1>1, <2>1, <2>p DEF RowInv, CallInv, At, rows
  <2>3. \A op \in Ops : Goes(c, Doing(op, p)) => P(c)' = p /\ call'[c].op = op
    BY <1>1, GoesElsewhere, DoingIsCall DEF P
  <2>4. CASE ReadSubmitted(c)
    <3>1. P(c)' = p /\ call'[c].op = "settle" /\ Goes(c, Doing("settle", p))
      BY <2>p, <2>3, <2>4, OpsNamed DEF ReadSubmitted
    <3>2. reservation[p] # "NONE" /\ p \in exported
      BY <2>p, <2>2, <2>4 DEF ReadSubmitted, CallInv, PaymentInv, OnHeld, At
    <3>3. CallInv(c)'
      BY <2>2, <3>1, <3>2 DEF CallInv, OnHeld, OnCredit
    <3> QED BY <1>1, <3>1, <3>3, MoveStep
  <2>5. CASE FailAlreadyDecided(c)
    <3> DEFINE op == IF status[P(c)] \in {"VALIDATED", "VALIDATION_FAILED"}
                     THEN "complete" ELSE "error"
    <3>1. op \in Ops /\ Goes(c, Doing(op, p))
      BY <2>p, <2>5, OpsNamed DEF FailAlreadyDecided
    <3>2. P(c)' = p /\ call'[c].op = op
      BY <2>3, <3>1
    <3>3. CallInv(c)'
      BY <2>p, <2>2, <3>2 DEF CallInv, OnHeld, OnCredit, Decided
    <3> QED BY <1>1, <3>1, <3>3, MoveStep
  <2>6. CASE WorkerError(c)
    <3>1. P(c)' = p /\ call'[c].op = "error" /\ Goes(c, Doing("error", p))
      BY <2>p, <2>3, <2>6, OpsNamed DEF WorkerError
    <3>2. CallInv(c)'
      BY <2>2, <3>1 DEF CallInv, OnHeld, OnCredit
    <3> QED BY <1>1, <3>1, <3>2, MoveStep
  <2> QED BY <1>3, <2>4, <2>5, <2>6
<1> QED BY <1>2, <1>3

(* The outbox: an event is completed only when its payment is decided. *)
LEMMA ClaimOnly ==
  ASSUME RowInv, NEW p \in Payments,
         UNCHANGED <<status, exported, reservation, ledger, events>>,
         \A q \in Payments \ {p} : claim'[q] = claim[q],
         claim'[p] \in {claim[p], "PENDING", "PROCESSING", "FAILED", "PROCESSED"},
         status[p] = "ABSENT" => claim'[p] = claim[p],
         claim'[p] = "PROCESSED" => Decided(p)
  PROVE  \A q \in Payments : PaymentInv(q)' /\ Keeps(q)
<1>1. ASSUME NEW q \in Payments \ {p} PROVE Same(q)
  BY <1>1 DEF Same
<1>2. PaymentInv(p)
  BY DEF RowInv
<1>3. PaymentInv(p)'
  BY <1>2 DEF PaymentInv, Decided
<1>4. Keeps(p)
  BY DEF Keeps, Decided, Settled
<1> QED BY <1>1, <1>3, <1>4, OnePayment DEF RowInv

LEMMA OutboxInv ==
  ASSUME RowInv, TypeOK', NEW c \in Callers,
         LockDayAlreadyDecided(c) \/ MarkProcessed(c) \/ MarkFailed(c)
  PROVE  RowInv'
<1>1. /\ ~At(c, "idle") /\ ~At(c, "nacha") /\ UNCHANGED bankEvents
      /\ UNCHANGED <<status, exported, reservation, ledger, events>>
  BY DEF LockDayAlreadyDecided, MarkProcessed, MarkFailed, At, env
<1>p. PICK p \in Payments : p = P(c)
  BY <1>1, PaymentOfCall, TypeParts DEF RowInv
<1>2. CallInv(c) /\ TypeOK /\ status[p] # "ABSENT"
  BY <1>1, <1>p DEF RowInv, CallInv, At
<1>3. CASE LockDayAlreadyDecided(c)
  <2>1. Decided(p) /\ claim' = [claim EXCEPT ![p] = "PROCESSED"]
    BY <1>p, <1>2, <1>3 DEF LockDayAlreadyDecided, CompleteOutbox, Decided
  <2>2. \A q \in Payments : PaymentInv(q)' /\ Keeps(q)
    BY <1>1, <1>2, <2>1, ClaimAt, ClaimOnly
  <2>3. P(c)' = p /\ call'[c].op = "complete"
        /\ \A d \in Callers \ {c} : call'[d] = call[d]
    BY <1>p, <1>2, <1>3, GoesElsewhere, DoingIsCall, OpsNamed
       DEF LockDayAlreadyDecided, P
  <2>4. CallInv(c)'
    BY <1>1, <1>2, <2>1, <2>3 DEF CallInv, Decided, OnHeld, OnCredit
  <2> QED BY <1>1, <2>2, <2>3, <2>4, CallerStep
<1>4. CASE MarkProcessed(c)
  <2>1. Decided(p)
    BY <1>p, <1>2, <1>4 DEF MarkProcessed, CallInv, At
  <2>2. claim' = [claim EXCEPT ![p] = IF @ = "PROCESSING" THEN "PROCESSED" ELSE @]
    BY <1>p, <1>4 DEF MarkProcessed
  <2>3. \A q \in Payments : PaymentInv(q)' /\ Keeps(q)
    BY <1>1, <1>2, <2>1, <2>2, ClaimAt, ClaimOnly
  <2>4. CallInv(c)' /\ \A d \in Callers \ {c} : call'[d] = call[d]
    BY <1>2, <1>4, GoesElsewhere, IdleCallInv DEF MarkProcessed
  <2> QED BY <1>1, <2>3, <2>4, CallerStep
<1>5. CASE MarkFailed(c)
  <2>1. PICK next \in {"PENDING", "FAILED"} :
          claim' = [claim EXCEPT ![p] = IF @ = "PROCESSING" THEN next ELSE @]
    BY <1>p, <1>5 DEF MarkFailed
  <2>2. claim[p] = "PROCESSED" => Decided(p)
    BY DEF RowInv, PaymentInv
  <2>3. \A q \in Payments : PaymentInv(q)' /\ Keeps(q)
    BY <1>1, <1>2, <2>1, <2>2, ClaimAt, ClaimOnly
  <2>4. CallInv(c)' /\ \A d \in Callers \ {c} : call'[d] = call[d]
    BY <1>2, <1>5, GoesElsewhere, IdleCallInv DEF MarkFailed
  <2> QED BY <1>1, <2>3, <2>4, CallerStep
<1> QED BY <1>3, <1>4, <1>5

LEMMA ClaimReceivedInv ==
  ASSUME RowInv, TypeOK', NEW c \in Callers, NEW p \in Payments, ClaimReceived(c, p)
  PROVE  RowInv'
<1>1. /\ UNCHANGED <<status, exported, reservation, ledger, events>>
      /\ UNCHANGED bankEvents /\ TypeOK
      /\ claim' = [claim EXCEPT ![p] = "PROCESSING"]
  BY DEF ClaimReceived, env, RowInv
<1>2. status[p] # "ABSENT"
  BY DEF ClaimReceived, RowInv, PaymentInv
<1>3. claim'[p] = "PROCESSING" /\ \A q \in Payments \ {p} : claim'[q] = claim[q]
  BY <1>1 DEF TypeOK
<1>4. \A q \in Payments : PaymentInv(q)' /\ Keeps(q)
  BY <1>1, <1>2, <1>3, ClaimOnly
<1>5. PICK op \in {"daily", "fail"} : Goes(c, Doing(op, p))
  BY DEF ClaimReceived
<1>6. P(c)' = p /\ call'[c].op = op /\ \A d \in Callers \ {c} : call'[d] = call[d]
  BY <1>1, <1>5, GoesElsewhere, DoingIsCall, OpsNamed DEF P
<1>7. CallInv(c)'
  BY <1>1, <1>2, <1>6 DEF CallInv, OnHeld, OnCredit
<1> QED BY <1>1, <1>4, <1>6, <1>7, CallerStep

(* The worker's decisions. *)
LEMMA DecisionInv ==
  ASSUME RowInv, TypeOK', NEW c \in Callers,
         FailFromReceived(c) \/ CommitAccept(c) \/ CommitReject(c)
  PROVE  RowInv'
<1>1. /\ ~At(c, "idle") /\ ~At(c, "nacha") /\ UNCHANGED <<exported, bankEvents>>
      /\ Goes(c, Doing("complete", P(c)))
  BY DEF FailFromReceived, CommitAccept, CommitReject, At, env
<1>p. PICK p \in Payments : p = P(c)
  BY <1>1, PaymentOfCall, TypeParts DEF RowInv
<1>2. /\ CallInv(c) /\ TypeOK /\ PaymentInv(p) /\ status[p] # "ABSENT"
      /\ status[p] \in PaymentStatus
  BY <1>1, <1>p DEF RowInv, CallInv, At, TypeOK
<1>3. P(c)' = p /\ call'[c].op = "complete"
      /\ \A d \in Callers \ {c} : call'[d] = call[d]
  BY <1>p, <1>1, <1>2, GoesElsewhere, DoingIsCall, OpsNamed DEF P
<1> SUFFICES /\ PaymentInv(p)' /\ Keeps(p) /\ Decided(p)'
             /\ \A q \in Payments \ {p} : Same(q)
  <2>1. \A q \in Payments : PaymentInv(q)' /\ Keeps(q)
    BY OnePayment DEF RowInv
  <2>2. CallInv(c)'
    BY <1>3 DEF CallInv, Decided, OnHeld, OnCredit
  <2> QED BY <1>1, <1>3, <2>1, <2>2, CallerStep
<1>4. CASE FailFromReceived(c)
  <2>1. /\ status[p] = "RECEIVED" /\ status'[p] = "VALIDATION_FAILED"
        /\ \A q \in Payments \ {p} : status'[q] = status[q]
    BY <1>p, <1>2, <1>4, StatusAt DEF FailFromReceived
  <2>2. /\ events'[p] = events[p] \cup {"PAYMENT_VALIDATION_FAILED"}
        /\ \A q \in Payments \ {p} : events'[q] = events[q]
    BY <1>p, <1>2, <1>4, EventAt DEF FailFromReceived
  <2>3. UNCHANGED <<reservation, ledger, claim>>
    BY <1>4 DEF FailFromReceived
  <2>4. PaymentInv(p)'
    BY <1>1, <1>2, <2>1, <2>2, <2>3 DEF PaymentInv, Decided
  <2> QED BY <1>1, <2>1, <2>2, <2>3, <2>4 DEF Keeps, Same, Decided, Settled
<1>5. CASE CommitReject(c)
  <2>1. /\ status'[p] = IF status[p] = "RECEIVED" THEN "VALIDATION_FAILED"
                                                  ELSE status[p]
        /\ \A q \in Payments \ {p} : status'[q] = status[q]
    BY <1>p, <1>2, <1>5, TransitionAt DEF CommitReject
  <2>2. /\ events'[p] = events[p] \cup {"PAYMENT_VALIDATION_FAILED"}
        /\ \A q \in Payments \ {p} : events'[q] = events[q]
    BY <1>p, <1>2, <1>5, EventAt DEF CommitReject
  <2>3. UNCHANGED <<reservation, ledger>> /\ claim' = [claim EXCEPT ![p] = "PROCESSED"]
    BY <1>p, <1>5 DEF CommitReject, CompleteOutbox
  <2>4. \A q \in Payments \ {p} : claim'[q] = claim[q]
    BY <1>2, <2>3, ClaimAt
  <2>5. PaymentInv(p)'
    BY <1>1, <1>2, <2>1, <2>2, <2>3 DEF PaymentInv, Decided
  <2> QED BY <1>1, <1>2, <2>1, <2>2, <2>3, <2>4, <2>5 DEF Keeps, Same, Decided, Settled
<1>6. CASE CommitAccept(c)
  <2>1. /\ status'[p] = IF status[p] = "RECEIVED" THEN "VALIDATED" ELSE status[p]
        /\ \A q \in Payments \ {p} : status'[q] = status[q]
    BY <1>p, <1>2, <1>6, TransitionAt DEF CommitAccept
  <2>2. /\ claim' = [claim EXCEPT ![p] = "PROCESSED"]
        /\ \A q \in Payments \ {p} : claim'[q] = claim[q]
    BY <1>p, <1>2, <1>6, ClaimAt DEF CommitAccept, CompleteOutbox
  <2>3. /\ events'[p] \in {events[p] \cup {"PAYMENT_VALIDATED"},
                           events[p] \cup {"PAYMENT_VALIDATED", "PAYMENT_RESERVED"}}
        /\ \A q \in Payments \ {p} : events'[q] = events[q]
    BY <1>p, <1>2, <1>6 DEF CommitAccept, TypeOK
  <2>4. status[p] \in {"RECEIVED", "VALIDATION_FAILED"}
    BY <1>p, <1>2, <1>6 DEF CommitAccept, PaymentInv, PaymentStatus
  <2>5. CASE UNCHANGED <<reservation, ledger>>
    <3>1. PaymentInv(p)'
      BY <1>1, <1>2, <2>1, <2>2, <2>3, <2>4, <2>5 DEF PaymentInv, Decided
    <3> QED BY <1>1, <2>1, <2>2, <2>3, <2>4, <2>5, <3>1 DEF Keeps, Same, Decided, Settled
  <2>6. CASE Direction[p] = "CREDIT" /\ InsertReservation(p)
    <3>1. /\ reservation[p] = "NONE" /\ reservation'[p] = "ACTIVE"
          /\ ledger'[p] = ledger[p] \cup {"RESERVATION"}
          /\ ledger'[p] \cap (Posting \cup {"RETURN"}) = {}
          /\ \A q \in Payments \ {p} : /\ reservation'[q] = reservation[q]
                                       /\ ledger'[q] = ledger[q]
      BY <1>2, <2>6, InsertReservationKeeps
    <3>2. PaymentInv(p)'
      BY <1>1, <1>2, <2>1, <2>2, <2>3, <2>4, <2>6, <3>1 DEF PaymentInv, Decided, Posting
    <3> QED BY <1>1, <2>1, <2>2, <2>3, <2>4, <3>1, <3>2 DEF Keeps, Same, Decided, Settled
  <2> QED BY <1>p, <1>6, <2>5, <2>6 DEF CommitAccept
<1> QED BY <1>4, <1>5, <1>6

(* A NACHA generation moves validated payments only. *)
LEMMA NachaRowsInv ==
  ASSUME RowInv, TypeOK', NEW c \in Callers,
         CommitNacha(c) \/ \E m \in Merchants : SelectForNacha(c, m)
  PROVE  RowInv'
<1>1. CASE CommitNacha(c)
  <2>1. ASSUME NEW p \in Payments PROVE PaymentInv(p)' /\ Keeps(p)
    <3>1. UNCHANGED <<reservation, ledger, claim>>
      BY <1>1 DEF CommitNacha
    <3>2. CASE p \in call[c].batch
      <4>1. /\ status[p] = "VALIDATED" /\ status'[p] = "SUBMITTED"
            /\ p \in exported'
            /\ events'[p] = events[p] \cup {"PAYMENT_SUBMITTED"}
        BY <1>1, <3>2 DEF CommitNacha, Eligible
      <4>2. PaymentInv(p)
        BY DEF RowInv
      <4>3. PaymentInv(p)'
        BY <3>1, <4>1, <4>2 DEF PaymentInv, Decided
      <4> QED BY <3>1, <4>1, <4>3 DEF Keeps, Decided, Settled
    <3>3. CASE p \notin call[c].batch
      <4>1. Same(p)
        BY <1>1, <3>1, <3>3 DEF CommitNacha, Same
      <4> QED BY <4>1, SameKeeps DEF RowInv
    <3> QED BY <3>2, <3>3
  <2>2. CallInv(c)' /\ \A d \in Callers \ {c} : call'[d] = call[d]
    BY <1>1, GoesElsewhere, IdleCallInv DEF CommitNacha, RowInv
  <2> QED BY <1>1, <2>1, <2>2, CallerStep DEF CommitNacha, env
<1>2. CASE \E m \in Merchants : SelectForNacha(c, m)
  <2>1. PICK S \in SUBSET Payments : Goes(c, Generating(S)) /\ UNCHANGED <<rows, env>>
    BY <1>2 DEF SelectForNacha, OfMerchant
  <2>2. call'[c].op = "nacha"
    BY <2>1, GoesElsewhere, GeneratingIsCall DEF RowInv
  <2>3. CallInv(c)'
    BY <2>2 DEF CallInv, OnHeld, OnCredit
  <2> QED BY <2>1, <2>3, MoveStep
<1> QED BY <1>1, <1>2

LEMMA OutsideInv ==
  ASSUME RowInv, TypeOK',
         \/ \E p \in Payments : Create(p) \/ RecoverExpired(p)
         \/ \E m \in Merchants : UpdateMerchantStatus(m) \/ ProvisionDemoFunding(m)
         \/ \E e \in BankEvents, p \in Payments : ProcessBankSettlementEvent(e, p)
  PROVE  RowInv'
<1>1. UNCHANGED call
  BY DEF Create, RecoverExpired, UpdateMerchantStatus, ProvisionDemoFunding,
         ProcessBankSettlementEvent
<1>2. (\A p \in Payments : PaymentInv(p)' /\ Keeps(p)) => \A c \in Callers : CallInv(c)'
  BY <1>1, CallKept, TypeParts DEF RowInv
<1>3. ASSUME NEW p \in Payments, Create(p)
      PROVE  (\A q \in Payments : PaymentInv(q)' /\ Keeps(q)) /\ UNCHANGED bankEvents
  <2>1. TypeOK /\ PaymentInv(p)
    BY DEF RowInv
  <2>2. /\ status[p] = "ABSENT" /\ status'[p] = "RECEIVED"
        /\ \A q \in Payments \ {p} : status'[q] = status[q]
    BY <1>3, <2>1, StatusAt DEF Create
  <2>3. /\ events'[p] = events[p] \cup {"PAYMENT_RECEIVED"}
        /\ \A q \in Payments \ {p} : events'[q] = events[q]
    BY <1>3, <2>1, EventAt DEF Create
  <2>4. claim'[p] = "PENDING" /\ \A q \in Payments \ {p} : claim'[q] = claim[q]
    BY <1>3, <2>1 DEF Create, TypeOK
  <2>5. UNCHANGED <<exported, reservation, ledger, bankEvents>>
    BY <1>3 DEF Create, env
  <2>6. PaymentInv(p)'
    BY <2>1, <2>2, <2>3, <2>4, <2>5 DEF PaymentInv, Decided
  <2>7. Keeps(p) /\ \A q \in Payments \ {p} : Same(q)
    BY <2>2, <2>3, <2>4, <2>5 DEF Keeps, Same, Decided, Settled
  <2> QED BY <2>5, <2>6, <2>7, OnePayment DEF RowInv
<1>4. ASSUME NEW p \in Payments, RecoverExpired(p)
      PROVE  (\A q \in Payments : PaymentInv(q)' /\ Keeps(q)) /\ UNCHANGED bankEvents
  <2>1. PICK next \in {"PENDING", "FAILED"} : claim' = [claim EXCEPT ![p] = next]
    BY <1>4 DEF RecoverExpired
  <2>2. status[p] # "ABSENT" /\ claim'[p] = next
        /\ \A q \in Payments \ {p} : claim'[q] = claim[q]
    BY <1>4, <2>1 DEF RecoverExpired, RowInv, TypeOK, PaymentInv
  <2> QED BY <1>4, <2>2, ClaimOnly DEF RecoverExpired, env
<1>5. ASSUME NEW m \in Merchants, UpdateMerchantStatus(m) \/ ProvisionDemoFunding(m)
      PROVE  (\A q \in Payments : PaymentInv(q)' /\ Keeps(q)) /\ UNCHANGED bankEvents
  <2>1. UNCHANGED rows /\ UNCHANGED bankEvents
    BY <1>5 DEF UpdateMerchantStatus, ProvisionDemoFunding, rows
  <2> QED BY <2>1, RowsSame, SameKeeps DEF RowInv
<1>6. ASSUME NEW e \in BankEvents, NEW p \in Payments,
             ProcessBankSettlementEvent(e, p)
      PROVE  RowInv'
  <2>1. UNCHANGED rows
    BY <1>6 DEF ProcessBankSettlementEvent, rows
  <2>2. \A q \in Payments : PaymentInv(q)' /\ Keeps(q)
    BY <2>1, RowsSame, SameKeeps DEF RowInv
  <2>3. BankEventsAreSettled'
    BY <1>6 DEF ProcessBankSettlementEvent, BankEventsAreSettled, RowInv, TypeOK
  <2> QED BY <1>2, <2>2, <2>3 DEF RowInv
<1> QED BY <1>2, <1>3, <1>4, <1>5, <1>6, BankKept DEF RowInv

LEMMA RowInvStep ==
  ASSUME RowInv, [Next]_vars
  PROVE  RowInv'
<1>0. TypeOK'
  BY StepTyped DEF RowInv
<1>1. CASE UNCHANGED vars
  <2>1. UNCHANGED rows /\ UNCHANGED <<call, bankEvents>>
    BY <1>1 DEF vars, rows
  <2>2. \A p \in Payments : PaymentInv(p)' /\ Keeps(p)
    BY <2>1, RowsSame, SameKeeps DEF RowInv
  <2> QED BY <1>0, <2>1, <2>2, CallKept, BankKept, TypeParts DEF RowInv
<1>2. ASSUME NEW c \in Callers, ApiStep(c) \/ LockedStep(c) \/ HandlerStep(c)
                               \/ CommitNacha(c) \/ WorkerError(c) \/ Abort(c)
      PROVE  RowInv'
  BY <1>0, <1>2, ApiCommitInv, LockInv, StepsOnInv, LockedInv, OutboxInv,
     DecisionInv, NachaRowsInv DEF ApiStep, HandlerStep
<1>3. ASSUME NEW c \in Callers, NEW p \in Payments,
             ApiBegin(c, p) \/ LockedBegin(c, p) \/ ClaimReceived(c, p)
      PROVE  RowInv'
  BY <1>0, <1>3, BeginInv, ClaimReceivedInv
<1>4. ASSUME NEW c \in Callers, NEW m \in Merchants, SelectForNacha(c, m)
      PROVE  RowInv'
  BY <1>0, <1>4, NachaRowsInv
<1> QED BY <1>0, <1>1, <1>2, <1>3, <1>4, OutsideInv DEF Next

THEOREM RowsConsistent == Spec => []RowInv
<1>1. Init => RowInv
  <2> SUFFICES ASSUME Init PROVE RowInv
    OBVIOUS
  <2>1. TypeOK
    BY IdleIsCall, LifecycleAssumption
       DEF Init, TypeOK, PaymentStatus, ReservationStatus, OutboxStatus
  <2>2. ASSUME NEW p \in Payments PROVE PaymentInv(p)
    BY <2>2 DEF Init, PaymentInv, Posting, Decided
  <2>3. ASSUME NEW c \in Callers PROVE CallInv(c)
    BY <2>3, IdleIsCall DEF Init, CallInv, OnHeld, OnCredit
  <2>4. BankEventsAreSettled
    BY DEF Init, BankEventsAreSettled
  <2> QED BY <2>1, <2>2, <2>3, <2>4 DEF RowInv
<1>2. RowInv /\ [Next]_vars => RowInv'
  BY RowInvStep
<1> QED BY <1>1, <1>2, PTL DEF Spec

(* A payment settles once and returns once: status, ledger entries and      *)
(* events agree whatever requests and handlers interleave.                  *)
THEOREM LedgerAgrees == Spec => []StatusMatchesLedger
<1>1. RowInv => StatusMatchesLedger
  BY DEF RowInv, PaymentInv, StatusMatchesLedger
<1> QED BY <1>1, RowsConsistent, PTL

(* No payment is exported to a second ACH file.                             *)
THEOREM NeverExportedTwice == Spec => []ExportedOnce
<1>1. RowInv => ExportedOnce
  BY DEF RowInv, PaymentInv, ExportedOnce
<1> QED BY <1>1, RowsConsistent, PTL

(* A settlement or return leaves no ACTIVE reservation behind.              *)
THEOREM HoldsEnd == Spec => []NoHoldAfterSettlement
<1>1. RowInv => NoHoldAfterSettlement
  BY DEF RowInv, PaymentInv, NoHoldAfterSettlement
<1> QED BY <1>1, RowsConsistent, PTL

(* A PAYMENT_RECEIVED event is never lost: it is completed only when its    *)
(* payment is decided.                                                      *)
THEOREM NoLostPayment == Spec => []CompletedMeansDecided
<1>1. RowInv => CompletedMeansDecided
  BY DEF RowInv, PaymentInv, Decided, CompletedMeansDecided
<1> QED BY <1>1, RowsConsistent, PTL

(* The bank's settlement events stay about settled payments.                *)
THEOREM BankAgrees == Spec => []BankEventsAreSettled
<1>1. RowInv => BankEventsAreSettled
  BY DEF RowInv
<1> QED BY <1>1, RowsConsistent, PTL

-----------------------------------------------------------------------------
(* The NACHA lock: a batch that was selected is still eligible when the     *)
(* generator commits it.                                                    *)

(* No step but a generator's takes a payment out of Eligible: validation    *)
(* repeats no event, settlement needs an exported payment, a return needs a *)
(* SETTLEMENT entry.                                                        *)
LEMMA EligibleKept ==
  ASSUME RowInv, Next, NEW p \in Payments, Eligible(p),
         \A c \in Callers : CommitNacha(c) => p \notin call[c].batch
  PROVE  Eligible(p)'
<1>1. PaymentInv(p) /\ TypeOK
  BY DEF RowInv
<1>2. /\ status[p] = "VALIDATED" /\ p \notin exported
      /\ "PAYMENT_VALIDATED" \in events[p] /\ "SETTLEMENT" \notin ledger[p]
  BY <1>1 DEF Eligible, PaymentInv, Posting
<1>3. ASSUME NEW c \in Callers, ApiStep(c) PROVE Eligible(p)'
  <2>1. CASE CommitValidate(c)
    BY <1>1, <1>2, <2>1 DEF CommitValidate, SetStatus, AddEvent, TypeOK, Eligible
  <2>2. CASE CommitSettle(c)
    <3>1. P(c) # p
      BY <1>2, <1>3, <2>2 DEF CommitSettle, RowInv, CallInv, At
    <3> QED BY <1>1, <1>2, <2>2, <3>1
            DEF CommitSettle, SettleCredit, SetStatus, TypeOK, Eligible
  <2>3. CASE CommitReturn(c)
    <3>1. P(c) # p
      BY <1>2, <1>3, <2>3 DEF CommitReturn, RowInv, CallInv, At
    <3> QED BY <1>1, <1>2, <2>3, <3>1
            DEF CommitReturn, ReturnCredit, SetStatus, TypeOK, Eligible
  <2>4. CASE CommitReserve(c) \/ ReserveLockDay(c) \/ ReserveLockFunding(c)
             \/ ReadSubmitted(c)
    BY <1>2, <2>4 DEF CommitReserve, ReserveLockDay, ReserveLockFunding,
                      ReadSubmitted, rows, Eligible
  <2> QED BY <1>3, <2>1, <2>2, <2>3, <2>4 DEF ApiStep
<1>4. ASSUME NEW c \in Callers, LockedStep(c) PROVE Eligible(p)'
  <2>1. CASE CommitWorkerSettle(c)
    BY <1>1, <1>2, <2>1
       DEF CommitWorkerSettle, SettleCredit, SetStatus, TypeOK, Eligible
  <2>2. CASE CommitWorkerReturn(c)
    <3>1. P(c) # p
      BY <1>2, <1>4, <2>2 DEF CommitWorkerReturn, RowInv, CallInv, At
    <3> QED BY <1>1, <1>2, <2>2, <3>1
            DEF CommitWorkerReturn, ReturnCredit, SetStatus, TypeOK, Eligible
  <2>3. CASE CommitRelease(c)
    BY <1>2, <2>3 DEF CommitRelease, Eligible
  <2>4. CASE CommitSettleDebit(c)
    <3>1. P(c) # p
      BY <1>2, <1>4, <2>4 DEF CommitSettleDebit, RowInv, CallInv, At
    <3> QED BY <1>1, <1>2, <2>4, <3>1 DEF CommitSettleDebit, SetStatus, TypeOK, Eligible
  <2>5. CASE CommitReturnDebit(c)
    BY <1>1, <1>2, <2>5 DEF CommitReturnDebit, SetStatus, TypeOK, Eligible
  <2> QED BY <1>4, <2>1, <2>2, <2>3, <2>4, <2>5 DEF LockedStep
<1>5. ASSUME NEW c \in Callers, HandlerStep(c) PROVE Eligible(p)'
  <2>1. CASE FailFromReceived(c)
    BY <1>1, <1>2, <2>1 DEF FailFromReceived, SetStatus, TypeOK, Eligible
  <2>2. CASE CommitAccept(c) \/ CommitReject(c)
    BY <1>1, <1>2, <2>2
       DEF CommitAccept, CommitReject, TransitionIfReceived, TypeOK, Eligible, env
  <2>3. CASE FailAlreadyDecided(c) \/ LockDayAlreadyDecided(c) \/ LockDay(c)
             \/ LacksAccount(c) \/ LockFunding(c) \/ MarkProcessed(c) \/ MarkFailed(c)
    BY <1>2, <2>3 DEF FailAlreadyDecided, LockDayAlreadyDecided, LockDay, LacksAccount,
                      LockFunding, MarkProcessed, MarkFailed, rows, Eligible
  <2> QED BY <1>5, <2>1, <2>2, <2>3 DEF HandlerStep
<1>6. ASSUME NEW c \in Callers, CommitNacha(c) \/ WorkerError(c) \/ Abort(c)
      PROVE  Eligible(p)'
  BY <1>2, <1>6 DEF CommitNacha, WorkerError, Abort, rows, Eligible
<1>7. ASSUME NEW c \in Callers, NEW q \in Payments,
             ApiBegin(c, q) \/ LockedBegin(c, q) \/ ClaimReceived(c, q)
      PROVE  Eligible(p)'
  <2>1. UNCHANGED <<status, exported>>
    BY <1>7, BeginShape DEF MovesTo, rows, ClaimReceived
  <2> QED BY <1>2, <2>1 DEF Eligible
<1>8. ASSUME NEW c \in Callers, NEW m \in Merchants, SelectForNacha(c, m)
      PROVE  Eligible(p)'
  BY <1>2, <1>8 DEF SelectForNacha, rows, Eligible
<1>9. ASSUME NEW q \in Payments, Create(q) \/ RecoverExpired(q)
      PROVE  Eligible(p)'
  BY <1>1, <1>2, <1>9 DEF Create, RecoverExpired, SetStatus, TypeOK, Eligible
<1>10. ASSUME NEW m \in Merchants, UpdateMerchantStatus(m) \/ ProvisionDemoFunding(m)
       PROVE  Eligible(p)'
  BY <1>2, <1>10 DEF UpdateMerchantStatus, ProvisionDemoFunding, Eligible
<1>11. ASSUME NEW e \in BankEvents, NEW q \in Payments,
              ProcessBankSettlementEvent(e, q)
       PROVE  Eligible(p)'
  BY <1>2, <1>11 DEF ProcessBankSettlementEvent, Eligible
<1> QED BY <1>3, <1>4, <1>5, <1>6, <1>7, <1>8, <1>9, <1>10, <1>11 DEF Next

(* How a step moves the calls, as far as the NACHA and daily locks go: it   *)
(* touches none, or one caller that ends without either lock, or it is one  *)
(* of the steps that hold them.                                             *)
MovesOff(c) ==
  /\ \A d \in Callers \ {c} : call'[d] = call[d]
  /\ call'[c].batch = {}
  /\ call'[c].op \notin DailyLockOps \cup {"nacha"}

DailyStep(c) ==
  \/ ReserveLockDay(c) \/ LockDay(c) \/ ReserveLockFunding(c) \/ LacksAccount(c)
  \/ LockFunding(c) \/ CommitReserve(c) \/ CommitAccept(c)

LEMMA OffDoing ==
  ASSUME TypeOK, NEW c \in Callers, NEW p \in Payments,
         NEW op \in Ops \ (DailyLockOps \cup {"nacha"}), Goes(c, Doing(op, p))
  PROVE  MovesOff(c)
  BY GoesElsewhere, DoingIsCall DEF MovesOff

LEMMA OffIdle ==
  ASSUME TypeOK, NEW c \in Callers, Goes(c, Idle)
  PROVE  MovesOff(c)
  BY GoesElsewhere, IdleIsCall DEF MovesOff, DailyLockOps

LEMMA CallShape ==
  ASSUME TypeOK, Next
  PROVE  \/ UNCHANGED <<call, usage>>
         \/ \E c \in Callers : MovesOff(c) /\ UNCHANGED usage
         \/ \E c \in Callers, m \in Merchants : SelectForNacha(c, m)
         \/ \E c \in Callers : DailyStep(c)
<1>0. Ops \ (DailyLockOps \cup {"nacha"}) =
        {"idle", "validate", "reserve", "settle", "return", "fail", "daily",
         "complete", "error", "settleDebit", "settleRead", "workerSettle",
         "workerReturn", "returnDebit", "release"}
  BY OpsNamed DEF DailyLockOps
<1>1. ASSUME NEW c \in Callers, NEW p \in Payments,
             ApiBegin(c, p) \/ LockedBegin(c, p)
      PROVE  MovesOff(c) /\ UNCHANGED usage
  BY <1>0, <1>1, BeginShape, OffDoing DEF MovesTo, rows
<1>2. ASSUME NEW c \in Callers, NEW p \in Payments, ClaimReceived(c, p)
      PROVE  MovesOff(c) /\ UNCHANGED usage
  <2>1. PICK op \in {"daily", "fail"} : Goes(c, Doing(op, p))
    BY <1>2 DEF ClaimReceived
  <2> QED BY <1>0, <1>2, <2>1, OffDoing DEF ClaimReceived
<1>3. ASSUME NEW c \in Callers, ApiStep(c)
      PROVE  (MovesOff(c) /\ UNCHANGED usage) \/ DailyStep(c)
  <2>1. CASE CommitValidate(c) \/ CommitSettle(c) \/ CommitReturn(c)
    BY <2>1, OffIdle DEF CommitValidate, CommitSettle, CommitReturn
  <2>2. CASE ReadSubmitted(c)
    <3>1. P(c) \in Payments
      BY <2>2, PaymentOfCall, TypeParts DEF ReadSubmitted, At
    <3> QED BY <1>0, <2>2, <3>1, OffDoing DEF ReadSubmitted, rows
  <2> QED BY <1>3, <2>1, <2>2 DEF ApiStep, DailyStep
<1>4. ASSUME NEW c \in Callers, LockedStep(c) PROVE MovesOff(c) /\ UNCHANGED usage
  BY <1>4, OffIdle DEF LockedStep, CommitWorkerSettle, CommitWorkerReturn,
     CommitRelease, CommitSettleDebit, CommitReturnDebit
<1>5. ASSUME NEW c \in Callers, HandlerStep(c)
      PROVE  (MovesOff(c) /\ UNCHANGED usage) \/ DailyStep(c)
  <2>1. CASE MarkProcessed(c) \/ MarkFailed(c)
    BY <2>1, OffIdle DEF MarkProcessed, MarkFailed
  <2>2. CASE FailFromReceived(c) \/ FailAlreadyDecided(c) \/ LockDayAlreadyDecided(c)
             \/ CommitReject(c)
    <3>1. P(c) \in Payments
      BY <2>2, PaymentOfCall, TypeParts
         DEF FailFromReceived, FailAlreadyDecided, LockDayAlreadyDecided, CommitReject, At
    <3>2. PICK op \in {"complete", "error"} : Goes(c, Doing(op, P(c)))
      BY <2>2 DEF FailFromReceived, FailAlreadyDecided, LockDayAlreadyDecided, CommitReject
    <3>3. UNCHANGED usage
      BY <2>2 DEF FailFromReceived, FailAlreadyDecided, LockDayAlreadyDecided,
                  CommitReject, rows
    <3> QED BY <1>0, <3>1, <3>2, <3>3, OffDoing
  <2> QED BY <1>5, <2>1, <2>2 DEF HandlerStep, DailyStep
<1>6. ASSUME NEW c \in Callers, CommitNacha(c) \/ Abort(c)
      PROVE  MovesOff(c) /\ UNCHANGED usage
  BY <1>6, OffIdle DEF CommitNacha, Abort, rows
<1>7. ASSUME NEW c \in Callers, WorkerError(c) PROVE MovesOff(c) /\ UNCHANGED usage
  <2>1. P(c) \in Payments
    BY <1>7, PaymentOfCall, TypeParts DEF WorkerError, WorkerOps, At
  <2> QED BY <1>0, <1>7, <2>1, OffDoing DEF WorkerError, rows
<1>8. (\E p \in Payments : Create(p) \/ RecoverExpired(p))
      \/ (\E m \in Merchants : UpdateMerchantStatus(m) \/ ProvisionDemoFunding(m))
      \/ (\E e \in BankEvents, p \in Payments : ProcessBankSettlementEvent(e, p))
      => UNCHANGED <<call, usage>>
  BY DEF Create, RecoverExpired, UpdateMerchantStatus, ProvisionDemoFunding,
         ProcessBankSettlementEvent
<1> QED BY <1>1, <1>2, <1>3, <1>4, <1>5, <1>6, <1>7, <1>8 DEF Next

(* The record a daily step leaves behind. *)
LEMMA DailyShape ==
  ASSUME TypeOK, NEW c \in Callers, DailyStep(c)
  PROVE  /\ \A d \in Callers \ {c} : call'[d] = call[d]
         /\ call'[c].batch = {} /\ call'[c].op # "nacha" /\ ~At(c, "nacha")
         /\ P(c) \in Payments
         /\ \/ /\ UNCHANGED usage
               /\ DailyLockFree(P(c))
               /\ P(c)' = P(c)
               /\ call'[c].utilized = usage[Day(P(c))]
               /\ Checked(c)' => WithinDailyLimit(P(c), usage[Day(P(c))])
            \/ /\ UNCHANGED usage
               /\ call[c].op \in DailyLockOps /\ Checked(c)
               /\ P(c)' = P(c)
               /\ call'[c].utilized = call[c].utilized
            \/ /\ call[c].op \in DailyLockOps /\ Checked(c)
               /\ AddUsage(c)
               /\ call'[c].op \notin DailyLockOps
<1>1. ~At(c, "idle") /\ ~At(c, "nacha")
  BY DEF DailyStep, ReserveLockDay, LockDay, ReserveLockFunding, LacksAccount,
         LockFunding, CommitReserve, CommitAccept, At
<1>2. /\ P(c) \in Payments /\ call[c].utilized \in Nat /\ call[c].verdict \in Verdict
      /\ usage[Day(P(c))] \in Nat
  BY <1>1, PaymentOfCall, TypeParts
<1>3. ASSUME NEW op \in Ops, NEW u \in Nat, NEW v \in Verdict,
             Goes(c, Working(op, P(c), u, v))
      PROVE  /\ \A d \in Callers \ {c} : call'[d] = call[d]
             /\ P(c)' = P(c) /\ call'[c].op = op /\ call'[c].utilized = u
             /\ call'[c].verdict = v /\ call'[c].batch = {}
  BY <1>2, <1>3, GoesElsewhere, GoesOn
<1>4. CASE ReserveLockDay(c)
  BY <1>1, <1>2, <1>3, <1>4, OpsNamed DEF ReserveLockDay, Verdict, rows
<1>5. CASE LockDay(c)
  <2> DEFINE within == WithinDailyLimit(P(c), usage[Day(P(c))])
             op == IF within /\ Direction[P(c)] = "CREDIT" THEN "funding" ELSE "decide"
             v == IF within THEN "VALIDATED" ELSE "EXCEEDS_DAILY_AMOUNT_LIMIT"
  <2>1. op \in Ops /\ v \in Verdict /\ op # "nacha"
    BY OpsNamed DEF Verdict
  <2>2. Goes(c, Working(op, P(c), usage[Day(P(c))], v)) /\ UNCHANGED usage
        /\ DailyLockFree(P(c))
    BY <1>5 DEF LockDay, rows
  <2>3. /\ \A d \in Callers \ {c} : call'[d] = call[d]
        /\ P(c)' = P(c) /\ call'[c].op = op /\ call'[c].utilized = usage[Day(P(c))]
        /\ call'[c].verdict = v /\ call'[c].batch = {}
    BY <1>2, <1>3, <2>1, <2>2
  <2>4. Checked(c)' => within
    BY <2>3 DEF Checked, At
  <2> QED BY <1>1, <1>2, <2>1, <2>2, <2>3, <2>4
<1>6. CASE ReserveLockFunding(c)
  BY <1>1, <1>2, <1>3, <1>6, OpsNamed
     DEF ReserveLockFunding, Verdict, rows, Checked, At, DailyLockOps
<1>7. CASE LacksAccount(c)
  BY <1>1, <1>2, <1>3, <1>7, OpsNamed
     DEF LacksAccount, Verdict, rows, Checked, At, DailyLockOps
<1>8. CASE LockFunding(c)
  <2> DEFINE v == IF Available(MerchantOf[P(c)]) < Amount[P(c)]
                  THEN "INSUFFICIENT_FUNDS" ELSE "VALIDATED"
  <2>1. Goes(c, Working("decide", P(c), call[c].utilized, v)) /\ UNCHANGED usage
    BY <1>8 DEF LockFunding, rows
  <2>2. v \in Verdict /\ "decide" \in Ops
    BY OpsNamed DEF Verdict
  <2> HIDE DEF v
  <2>3. Checked(c) /\ call[c].op \in DailyLockOps
    BY <1>8 DEF LockFunding, Checked, At, DailyLockOps
  <2> QED BY <1>1, <1>2, <1>3, <2>1, <2>2, <2>3
<1>9. CASE CommitReserve(c)
  BY <1>1, <1>2, <1>9, GoesElsewhere, IdleIsCall
     DEF CommitReserve, Checked, At, DailyLockOps
<1>10. CASE CommitAccept(c)
  BY <1>1, <1>2, <1>10, GoesElsewhere, DoingIsCall, OpsNamed
     DEF CommitAccept, Checked, At, DailyLockOps
<1> QED BY <1>4, <1>5, <1>6, <1>7, <1>8, <1>9, <1>10 DEF DailyStep

LEMMA NachaInvStep ==
  ASSUME RowInv, NachaInv, Next
  PROVE  NachaInv'
<1>0. TypeOK
  BY DEF RowInv
<1>1. ASSUME NEW c \in Callers, \A d \in Callers \ {c} : call'[d] = call[d],
             call'[c].batch = {}, call'[c].op # "nacha"
      PROVE  NachaInv'
  <2>1. ASSUME NEW d \in Callers, NEW p \in call'[d].batch PROVE Eligible(p)'
    <3>1. d # c /\ call'[d] = call[d] /\ p \in call[d].batch
      BY <1>1, <2>1
    <3>2. Eligible(p) /\ At(d, "nacha")
      BY <2>1, <3>1 DEF NachaInv, NachaBatchUndisturbed
    <3>3. p \in Payments
      BY <1>0, <2>1, <3>1, TypeParts DEF CallsOK, Call
    <3>4. ASSUME NEW e \in Callers, CommitNacha(e) PROVE p \notin call[e].batch
      <4>1. e = d
        BY <3>2, <3>4 DEF NachaInv, CommitNacha
      <4>2. call'[e] = Idle
        BY <1>0, <3>4, GoesElsewhere DEF CommitNacha
      <4> QED BY <3>1, <3>2, <4>1, <4>2, IdleIsCall DEF At
    <3> QED BY <3>2, <3>3, <3>4, EligibleKept
  <2>2. \A d \in Callers : call'[d].batch # {} => At(d, "nacha")'
    BY <1>1 DEF NachaInv, At
  <2>3. \A d, e \in Callers : At(d, "nacha")' /\ At(e, "nacha")' => d = e
    BY <1>1 DEF NachaInv, At
  <2> QED BY <2>1, <2>2, <2>3 DEF NachaInv, NachaBatchUndisturbed
<1>2. CASE UNCHANGED <<call, usage>>
  <2>1. ASSUME NEW d \in Callers, NEW p \in call'[d].batch PROVE Eligible(p)'
    <3>1. p \in call[d].batch /\ Eligible(p) /\ At(d, "nacha") /\ p \in Payments
      BY <1>0, <1>2, <2>1, TypeParts
         DEF NachaInv, NachaBatchUndisturbed, CallsOK, Call
    <3>2. ASSUME NEW e \in Callers, CommitNacha(e) PROVE FALSE
      <4>1. call'[e] = Idle /\ At(e, "nacha")
        BY <1>0, <3>2, GoesElsewhere DEF CommitNacha
      <4> QED BY <1>2, <4>1, IdleIsCall DEF At
    <3> QED BY <3>1, <3>2, EligibleKept
  <2> QED BY <1>2, <2>1 DEF NachaInv, NachaBatchUndisturbed, At
<1>3. ASSUME NEW c \in Callers, NEW m \in Merchants, SelectForNacha(c, m)
      PROVE  NachaInv'
  <2> DEFINE S == {p \in OfMerchant(m) : Eligible(p)}
  <2>1. Goes(c, Generating(S)) /\ NachaLockFree /\ UNCHANGED <<status, exported>>
    BY <1>3 DEF SelectForNacha, rows
  <2>2. S \in SUBSET Payments /\ \A p \in S : Eligible(p)'
    BY <2>1 DEF OfMerchant, Eligible
  <2> HIDE DEF S
  <2>3. /\ call'[c].op = "nacha" /\ call'[c].batch = S
        /\ \A d \in Callers \ {c} : call'[d] = call[d]
    BY <1>0, <2>1, <2>2, GoesElsewhere, GeneratingIsCall
  <2>4. \A d \in Callers \ {c} : call'[d].op # "nacha" /\ call'[d].batch = {}
    BY <2>1, <2>3 DEF NachaInv, NachaLockFree, At
  <2> QED BY <2>2, <2>3, <2>4 DEF NachaInv, NachaBatchUndisturbed, At
<1>4. ASSUME NEW c \in Callers, MovesOff(c) \/ DailyStep(c) PROVE NachaInv'
  BY <1>0, <1>1, <1>4, DailyShape DEF MovesOff
<1> QED BY <1>0, <1>2, <1>3, <1>4, CallShape

(* A NACHA generation never has to give up because a payment it selected    *)
(* changed: the check on the row count always succeeds.                     *)
THEOREM BatchStaysEligible == Spec => []NachaBatchUndisturbed
<1>1. Init => NachaInv
  BY IdleIsCall DEF Init, NachaInv, NachaBatchUndisturbed, At
<1>2. RowInv /\ NachaInv /\ [Next]_vars => NachaInv'
  <2>1. ASSUME RowInv, NachaInv, UNCHANGED vars PROVE NachaInv'
    BY <2>1 DEF vars, NachaInv, NachaBatchUndisturbed, Eligible, At
  <2> QED BY <2>1, NachaInvStep
<1>3. NachaInv => NachaBatchUndisturbed
  BY DEF NachaInv
<1> QED BY <1>1, <1>2, <1>3, RowsConsistent, PTL DEF Spec

-----------------------------------------------------------------------------
(* The daily lock: the limit is checked against a usage that nobody else    *)
(* changes until it is written back.                                        *)

LEMMA UsageInvStep ==
  ASSUME TypeOK, UsageInv, Next
  PROVE  UsageInv'
<1>t. \A c \in Callers : call[c].op \in DailyLockOps => P(c) \in Payments
  BY OpsNamed, TypeParts DEF CallsOK, DailyLockOps
<1>1. CASE UNCHANGED <<call, usage>>
  BY <1>1 DEF UsageInv, UsageWithinLimit, Checked, At, P, Day
<1>2. ASSUME NEW c \in Callers, \A d \in Callers \ {c} : call'[d] = call[d],
             call'[c].op \notin DailyLockOps, UNCHANGED usage
      PROVE  UsageInv'
  <2>1. ~Checked(c)'
    BY <1>2 DEF Checked, At, DailyLockOps
  <2>2. \A d \in Callers \ {c} : /\ P(d)' = P(d)
                                 /\ call'[d] = call[d]
                                 /\ Checked(d)' <=> Checked(d)
    BY <1>2 DEF P, Checked, At
  <2> QED BY <1>2, <2>1, <2>2 DEF UsageInv, UsageWithinLimit, Day
<1>3. ASSUME NEW c \in Callers, DailyStep(c) PROVE UsageInv'
  <2>p. PICK p \in Payments : p = P(c)
    BY <1>3, DailyShape
  <2>1. \A d \in Callers \ {c} : /\ P(d)' = P(d)
                                 /\ call'[d] = call[d]
                                 /\ Checked(d)' <=> Checked(d)
    BY <1>3, DailyShape DEF P, Checked, At
  <2>2. CASE /\ UNCHANGED usage
             /\ DailyLockFree(P(c))
             /\ P(c)' = P(c)
             /\ call'[c].utilized = usage[Day(P(c))]
             /\ Checked(c)' => WithinDailyLimit(P(c), usage[Day(P(c))])
    <3>1. \A d \in Callers \ {c} : call[d].op \in DailyLockOps => Day(P(d)) # Day(P(c))
      BY <2>2 DEF DailyLockFree
    <3>2. Checked(c)' => call'[c].utilized + Amount[p] <= DailyLimit[MerchantOf[p]]
      BY <2>p, <2>2 DEF WithinDailyLimit
    <3> QED BY <2>p, <2>1, <2>2, <3>1, <3>2 DEF UsageInv, UsageWithinLimit, Day
  <2>3. CASE /\ UNCHANGED usage
             /\ call[c].op \in DailyLockOps /\ Checked(c)
             /\ P(c)' = P(c)
             /\ call'[c].utilized = call[c].utilized
    BY <2>p, <2>1, <2>3 DEF UsageInv, UsageWithinLimit, Day
  <2>4. CASE /\ call[c].op \in DailyLockOps /\ Checked(c)
             /\ AddUsage(c)
             /\ call'[c].op \notin DailyLockOps
    <3>1. /\ usage' = [usage EXCEPT ![Day(p)] = call[c].utilized + Amount[p]]
          /\ call[c].utilized + Amount[p] <= DailyLimit[MerchantOf[p]]
      BY <2>p, <2>4 DEF AddUsage, UsageInv
    <3>2. \A d \in Callers \ {c} :
            call'[d].op \in DailyLockOps => P(d) \in Payments /\ Day(P(d)) # Day(p)
      BY <1>t, <2>p, <2>1, <2>4 DEF UsageInv
    <3>3. \A d \in Callers \ {c} :
            call'[d].op \in DailyLockOps => call'[d].utilized = usage'[Day(P(d))]
      BY <2>1, <3>1, <3>2, LifecycleAssumption DEF UsageInv, Day, TypeOK
    <3>4. UsageWithinLimit'
      BY <3>1, LifecycleAssumption DEF UsageInv, UsageWithinLimit, Day, TypeOK
    <3>5. ~Checked(c)'
      BY <2>4 DEF Checked, At, DailyLockOps
    <3> QED BY <2>1, <2>4, <3>2, <3>3, <3>4, <3>5 DEF UsageInv, Day
  <2> QED BY <1>3, <2>2, <2>3, <2>4, DailyShape
<1>4. ASSUME NEW c \in Callers, NEW m \in Merchants, SelectForNacha(c, m)
      PROVE  UsageInv'
  <2>1. PICK S \in SUBSET Payments : Goes(c, Generating(S)) /\ UNCHANGED usage
    BY <1>4 DEF SelectForNacha, OfMerchant, rows
  <2>2. call'[c].op = "nacha" /\ \A d \in Callers \ {c} : call'[d] = call[d]
    BY <2>1, GoesElsewhere, GeneratingIsCall
  <2> QED BY <1>2, <2>1, <2>2 DEF DailyLockOps
<1>5. ASSUME NEW c \in Callers, MovesOff(c), UNCHANGED usage PROVE UsageInv'
  BY <1>2, <1>5 DEF MovesOff
<1> QED BY <1>1, <1>3, <1>4, <1>5, CallShape

LEMMA UsageKept == Spec => [](TypeOK /\ UsageInv)
<1>1. Init => UsageInv
  BY IdleIsCall, LifecycleAssumption
     DEF Init, UsageInv, UsageWithinLimit, Checked, At, DailyLockOps
<1>2. TypeOK /\ UsageInv /\ [Next]_vars => UsageInv'
  <2>1. ASSUME UsageInv, UNCHANGED vars PROVE UsageInv'
    BY <2>1 DEF vars, UsageInv, UsageWithinLimit, Checked, At, P, Day
  <2> QED BY <2>1, UsageInvStep
<1> QED BY <1>1, <1>2, TypeCorrect, PTL DEF Spec

(* The payments a merchant has accepted for a date never exceed its daily   *)
(* limit, whichever workers and requests accept them concurrently.          *)
THEOREM LimitKept == Spec => []UsageWithinLimit
<1>1. UsageInv => UsageWithinLimit
  BY DEF UsageInv
<1> QED BY <1>1, UsageKept, PTL

(* Only the two commits under the daily lock count a payment.               *)
LEMMA CountingStep ==
  ASSUME TypeOK, Next, NEW p \in Payments, Counts(p)
  PROVE  \E c \in Callers : P(c) = p /\ call[c].op \in DailyLockOps /\ AddUsage(c)
<1>1. ~UNCHANGED <<reservation, status>> /\ ~UNCHANGED <<reservation, claim>>
  BY DEF Counts
<1>2. ASSUME NEW q \in Payments, Create(q) PROVE FALSE
  <2>1. status[q] = "ABSENT" /\ claim'[q] = "PENDING" /\ UNCHANGED reservation
        /\ \A r \in Payments \ {q} : claim'[r] = claim[r]
    BY <1>2 DEF Create, TypeOK
  <2> QED BY <2>1 DEF Counts
<1>3. ASSUME NEW q \in Payments, SetReservation(q, "SETTLED")
                                 \/ SetReservation(q, "RETURNED")
                                 \/ SetReservation(q, "RELEASED"),
             UNCHANGED claim
      PROVE  FALSE
  <2>1. ~(reservation[p] = "NONE" /\ reservation'[p] = "ACTIVE")
    BY <1>3, ReservationAt
  <2> QED BY <1>3, <2>1 DEF Counts
<1>4. ASSUME NEW c \in Callers, CommitReject(c) PROVE FALSE
  <2>1. P(c) \in Payments
    BY <1>4, PaymentOfCall, TypeParts DEF CommitReject, At
  <2>2. status[p] = "RECEIVED" => status'[p] # "VALIDATED"
    BY <1>4, <2>1, TransitionAt DEF CommitReject
  <2> QED BY <1>4, <2>2 DEF CommitReject, Counts
<1>5. ASSUME NEW c \in Callers, CommitReserve(c) \/ CommitAccept(c)
      PROVE  P(c) = p /\ call[c].op \in DailyLockOps /\ AddUsage(c)
  <2>1. P(c) \in Payments
    BY <1>5, PaymentOfCall, TypeParts DEF CommitReserve, CommitAccept, At
  <2>2. \A q \in Payments \ {P(c)} : reservation'[q] = reservation[q]
    BY <1>5, <2>1, ReservationAt DEF CommitReserve, CommitAccept, InsertReservation
  <2>3. \A q \in Payments \ {P(c)} : status'[q] = status[q]
    BY <1>5, <2>1, TransitionAt DEF CommitReserve, CommitAccept
  <2> QED BY <1>5, <2>2, <2>3
          DEF Counts, CommitReserve, CommitAccept, DailyLockOps, At
<1>6. ASSUME NEW c \in Callers,
             CommitSettle(c) \/ CommitReturn(c) \/ CommitWorkerSettle(c)
             \/ CommitWorkerReturn(c) \/ CommitRelease(c)
      PROVE  FALSE
  <2>1. P(c) \in Payments
    BY <1>6, PaymentOfCall, TypeParts
       DEF CommitSettle, CommitReturn, CommitWorkerSettle, CommitWorkerReturn,
           CommitRelease, At
  <2> QED BY <1>3, <1>6, <2>1
          DEF CommitSettle, CommitReturn, CommitWorkerSettle, CommitWorkerReturn,
              CommitRelease, SettleCredit, ReturnCredit
<1>7. ASSUME NEW c \in Callers, NEW q \in Payments,
             ApiBegin(c, q) \/ LockedBegin(c, q) \/ ClaimReceived(c, q)
      PROVE  FALSE
  BY <1>1, <1>7, BeginShape DEF MovesTo, ClaimReceived, rows
<1>8. ASSUME NEW c \in Callers, ApiStep(c) PROVE CommitReserve(c)
  BY <1>1, <1>6, <1>8
     DEF ApiStep, CommitValidate, ReserveLockDay, ReserveLockFunding, ReadSubmitted,
         rows
<1>9. ASSUME NEW c \in Callers, LockedStep(c) PROVE FALSE
  BY <1>1, <1>6, <1>9 DEF LockedStep, CommitSettleDebit, CommitReturnDebit
<1>10. ASSUME NEW c \in Callers, HandlerStep(c) PROVE CommitAccept(c)
  BY <1>1, <1>4, <1>10
     DEF HandlerStep, FailFromReceived, FailAlreadyDecided, LockDayAlreadyDecided,
         LockDay, LacksAccount, LockFunding, MarkProcessed, MarkFailed, rows
<1>11. ASSUME NEW c \in Callers, CommitNacha(c) \/ WorkerError(c) \/ Abort(c)
       PROVE  FALSE
  BY <1>1, <1>11 DEF CommitNacha, WorkerError, Abort, rows
<1>12. ASSUME NEW c \in Callers, NEW m \in Merchants, SelectForNacha(c, m)
       PROVE  FALSE
  BY <1>1, <1>12 DEF SelectForNacha, rows
<1>13. ~ \/ \E q \in Payments : RecoverExpired(q)
         \/ \E m \in Merchants : UpdateMerchantStatus(m) \/ ProvisionDemoFunding(m)
         \/ \E e \in BankEvents, q \in Payments : ProcessBankSettlementEvent(e, q)
  BY <1>1 DEF RecoverExpired, UpdateMerchantStatus, ProvisionDemoFunding,
              ProcessBankSettlementEvent
<1> QED BY <1>2, <1>5, <1>7, <1>8, <1>9, <1>10, <1>11, <1>12, <1>13 DEF Next

(* No accepted payment is lost from the usage of its date: what is written  *)
(* is what the usage is at the commit, plus the payment's amount.           *)
THEOREM UsageCounted == Spec => UsageCountsEach
<1>1. ASSUME TypeOK, UsageInv, Next, NEW p \in Payments, Counts(p)
      PROVE  usage'[Day(p)] = usage[Day(p)] + Amount[p]
  <2>1. PICK c \in Callers : P(c) = p /\ call[c].op \in DailyLockOps /\ AddUsage(c)
    BY <1>1, CountingStep
  <2>2. call[c].utilized = usage[Day(p)] /\ Day(p) \in Merchants \X Dates
    BY <1>1, <2>1, LifecycleAssumption DEF UsageInv, Day
  <2> QED BY <1>1, <2>1, <2>2 DEF AddUsage, TypeOK
<1>2. TypeOK /\ UsageInv /\ [Next]_vars
        => [\A p \in Payments :
              Counts(p) => usage'[Day(p)] = usage[Day(p)] + Amount[p]]_vars
  BY <1>1
<1> QED BY <1>2, UsageKept, PTL DEF Spec, UsageCountsEach

-----------------------------------------------------------------------------
(* The funding lock: what an account was ever credited covers what its      *)
(* ACTIVE reservations hold.                                                *)

HeldBy(m) == {p \in OfMerchant(m) : reservation[p] = "ACTIVE"}
ReturnedTo(m) == {p \in OfMerchant(m) : "RETURN" \in ledger[p]}
Credited(m) == InitialCredit[m] + SumOf(Amount, ReturnedTo(m))

(* The callers about to insert a reservation. *)
Inserts(c) ==
  \/ At(c, "reserveCommit")
  \/ At(c, "decide") /\ call[c].verdict = "VALIDATED" /\ Direction[P(c)] = "CREDIT"

FundingInv ==
  /\ \A c, d \in Callers :
       c # d /\ HoldsFundingLock(c) /\ HoldsFundingLock(d)
         => MerchantOf[P(c)] # MerchantOf[P(d)]
  /\ \A c \in Callers, m \in Merchants :
       Inserts(c) /\ MerchantOf[P(c)] = m
         => SumOf(Amount, HeldBy(m)) + Amount[P(c)] <= Credited(m)
  /\ \A m \in Merchants : SumOf(Amount, HeldBy(m)) <= Credited(m)

(* What a merchant holds, as a sum of amounts.                              *)
LEMMA HeldIsSum == ASSUME NEW m PROVE Held(m) = SumOf(Amount, HeldBy(m))
  BY DEF Held, HeldBy, SumOf

(* The invariant of the runs, as a comparison of two sums.                  *)
LEMMA WithinIsSum ==
  HoldsWithinCredits <=> \A m \in Merchants : SumOf(Amount, HeldBy(m)) <= Credited(m)
  BY HeldIsSum DEF HoldsWithinCredits, Credited, ReturnedTo, SumOf

(* Amounts of payments sum to a natural number, and to more for more of     *)
(* them.                                                                    *)
LEMMA AmountsGrow ==
  ASSUME NEW S \in SUBSET Payments, NEW A \in SUBSET S
  PROVE  /\ SumOf(Amount, A) \in Int /\ SumOf(Amount, S) \in Int
         /\ SumOf(Amount, A) <= SumOf(Amount, S)
<1>1. IsFiniteSet(S) /\ IsFiniteSet(A)
  BY FS_Subset, LifecycleAssumption
<1>2. \A p \in S : Amount[p] \in Int /\ Amount[p] >= 0 /\ Amount[p] <= Amount[p]
  BY LifecycleAssumption
<1> QED BY <1>1, <1>2, SumTyped, SumBounded

(* One payment more adds its amount.                                        *)
LEMMA AmountsAdd ==
  ASSUME NEW S \in SUBSET Payments, NEW p \in Payments \ S
  PROVE  SumOf(Amount, S \cup {p}) = Amount[p] + SumOf(Amount, S)
<1>1. IsFiniteSet(S) /\ \A q \in Payments : Amount[q] \in Int
  BY FS_Subset, LifecycleAssumption
<1> QED BY <1>1, SumAdd

(* There are finitely many kinds of entries.                                *)
LEMMA EntryTypesFinite == IsFiniteSet(EntryType)
<1>1. IsFiniteSet({"RESERVATION"} \cup {"RESERVATION_RELEASE"})
  BY FS_Singleton, FS_Union
<1>2. IsFiniteSet({"SETTLEMENT"} \cup {"DEBIT_POSTED"})
  BY FS_Singleton, FS_Union
<1>3. IsFiniteSet(({"RESERVATION"} \cup {"RESERVATION_RELEASE"})
                  \cup ({"SETTLEMENT"} \cup {"DEBIT_POSTED"}))
  BY <1>1, <1>2, FS_Union
<1>4. IsFiniteSet((({"RESERVATION"} \cup {"RESERVATION_RELEASE"})
                   \cup ({"SETTLEMENT"} \cup {"DEBIT_POSTED"})) \cup {"RETURN"})
  BY <1>3, FS_Singleton, FS_Union
<1> QED BY <1>4 DEF EntryType

(* What a payment's entries add to the balance, as a sum over its entries.  *)
LEMMA PostedIsSum ==
  ASSUME NEW p \in Payments, ledger[p] \in SUBSET EntryType
  PROVE  Posted(p) = SumOf([t \in EntryType |-> Impact(t) * Amount[p]], ledger[p])
<1> DEFINE f == [t \in EntryType |-> Impact(t) * Amount[p]]
           L == ledger[p]
<1>1. IsFiniteSet(L)
  BY EntryTypesFinite, FS_Subset
<1> DEFINE Of(h) == h = [s \in SUBSET L |-> IF s = {} THEN 0
                 ELSE Impact(Pick(s)) * Amount[p] + h[s \ {Pick(s)}]]
<1>2. Posted(p) = (CHOOSE h : Of(h))[L]
  BY DEF Posted, MapThenSumSet, MapThenFoldSet, Pick
<1>3. ASSUME NEW s \in SUBSET L, s # {}
      PROVE  f[Pick(s)] = Impact(Pick(s)) * Amount[p]
  BY <1>3, PickIn
<1>4. ASSUME NEW h PROVE Of(h) <=> IsSum(h, f, L)
  <2>1. ASSUME NEW s \in SUBSET L
        PROVE  (IF s = {} THEN 0 ELSE Impact(Pick(s)) * Amount[p] + h[s \ {Pick(s)}])
               = IF s = {} THEN 0 ELSE f[Pick(s)] + h[s \ {Pick(s)}]
    BY <1>3, <2>1
  <2> HIDE DEF f
  <2>2. [s \in SUBSET L |-> IF s = {} THEN 0
             ELSE Impact(Pick(s)) * Amount[p] + h[s \ {Pick(s)}]]
        = [s \in SUBSET L |-> IF s = {} THEN 0 ELSE f[Pick(s)] + h[s \ {Pick(s)}]]
    BY <2>1
  <2> QED BY <2>2 DEF IsSum
<1>5. PICK h : Of(h)
  BY <1>1, <1>4, SumExists
<1> DEFINE k == CHOOSE h2 : Of(h2)
<1>6. Of(k)
  BY <1>5
<1> HIDE DEF Of, k, f
<1>7. IsSum(k, f, L)
  BY <1>4, <1>6
<1>8. k[L] = SumOf(f, L)
  BY <1>1, <1>7, SumSolves
<1> QED BY <1>2, <1>8 DEF k, f

(* Only a return adds to the balance, and no more than its amount.           *)
LEMMA PostedBounded ==
  ASSUME NEW p \in Payments, ledger[p] \in SUBSET EntryType
  PROVE  /\ Posted(p) \in Int
         /\ Posted(p) <= IF "RETURN" \in ledger[p] THEN Amount[p] ELSE 0
<1> DEFINE f == [t \in EntryType |-> Impact(t) * Amount[p]]
           L == ledger[p]
           R == L \ {"RETURN"}
<1>1. IsFiniteSet(L) /\ IsFiniteSet(R)
  BY EntryTypesFinite, FS_Subset
<1>2. ASSUME NEW t \in EntryType PROVE f[t] \in Int
  BY LifecycleAssumption DEF Impact
<1>3. ASSUME NEW t \in EntryType, t # "RETURN" PROVE f[t] <= 0
  BY <1>3, LifecycleAssumption DEF Impact
<1>4. f["RETURN"] = Amount[p] /\ Amount[p] \in Int
  BY LifecycleAssumption DEF Impact, EntryType
<1>5. Posted(p) = SumOf(f, L)
  BY PostedIsSum
<1> HIDE DEF f
<1>6. SumOf(f, L) \in Int /\ SumOf(f, R) \in Int /\ SumOf(f, R) <= 0
  BY <1>1, <1>2, <1>3, SumTyped, SumNotPositive
<1>7. CASE "RETURN" \in L
  <2>1. SumOf(f, L) = f["RETURN"] + SumOf(f, R)
    BY <1>1, <1>2, <1>7, SumRemove
  <2> QED BY <1>4, <1>5, <1>6, <1>7, <2>1
<1>8. CASE "RETURN" \notin L
  <2>1. R = L
    BY <1>8
  <2> QED BY <1>5, <1>6, <1>8, <2>1
<1> QED BY <1>7, <1>8

(* The posted balance, as a sum over the payments of the merchant.          *)
LEMMA BalanceIsSum ==
  ASSUME NEW m
  PROVE  PostedBalance(m) =
           InitialCredit[m] + SumOf([p \in OfMerchant(m) |-> Posted(p)], OfMerchant(m))
<1> DEFINE S == OfMerchant(m)
           f == [p \in S |-> Posted(p)]
<1>1. IsFiniteSet(S)
  BY FS_Subset, LifecycleAssumption DEF OfMerchant
<1> DEFINE Of(h) == h = [s \in SUBSET S |-> IF s = {} THEN 0
                 ELSE Posted(Pick(s)) + h[s \ {Pick(s)}]]
<1>2. PostedBalance(m) = InitialCredit[m] + (CHOOSE h : Of(h))[S]
  BY DEF PostedBalance, MapThenSumSet, MapThenFoldSet, Pick
<1> HIDE DEF S
<1>3. ASSUME NEW s \in SUBSET S, s # {}
      PROVE  f[Pick(s)] = Posted(Pick(s))
  BY <1>3, PickIn
<1>4. ASSUME NEW h PROVE Of(h) <=> IsSum(h, f, S)
  <2>1. ASSUME NEW s \in SUBSET S
        PROVE  (IF s = {} THEN 0 ELSE Posted(Pick(s)) + h[s \ {Pick(s)}])
               = IF s = {} THEN 0 ELSE f[Pick(s)] + h[s \ {Pick(s)}]
    BY <1>3, <2>1
  <2> HIDE DEF f
  <2>2. [s \in SUBSET S |-> IF s = {} THEN 0
             ELSE Posted(Pick(s)) + h[s \ {Pick(s)}]]
        = [s \in SUBSET S |-> IF s = {} THEN 0 ELSE f[Pick(s)] + h[s \ {Pick(s)}]]
    BY <2>1
  <2> QED BY <2>2 DEF IsSum
<1>5. PICK h : Of(h)
  BY <1>1, <1>4, SumExists
<1> DEFINE k == CHOOSE h2 : Of(h2)
<1>6. Of(k)
  BY <1>5
<1> HIDE DEF Of, k, f
<1>7. IsSum(k, f, S)
  BY <1>4, <1>6
<1>8. k[S] = SumOf(f, S)
  BY <1>1, <1>7, SumSolves
<1> QED BY <1>2, <1>8 DEF k, f, S

(* What is available, whatever was debited, was credited and is not held.   *)
LEMMA AvailableBounded ==
  ASSUME TypeOK, NEW m \in Merchants
  PROVE  /\ Available(m) \in Int
         /\ Available(m) <= Credited(m) - SumOf(Amount, HeldBy(m))
<1> DEFINE S == OfMerchant(m)
           R == ReturnedTo(m)
           f == [p \in S |-> Posted(p)]
           e == [p \in S |-> IF p \in R THEN Amount[p] ELSE 0]
<1>1. IsFiniteSet(S) /\ S \in SUBSET Payments /\ R \in SUBSET S
  BY FS_Subset, LifecycleAssumption DEF OfMerchant, ReturnedTo
<1>2. ASSUME NEW p \in S PROVE f[p] \in Int /\ e[p] \in Int /\ f[p] <= e[p]
  <2>1. p \in Payments /\ ledger[p] \in SUBSET EntryType /\ Amount[p] \in Int
    BY <1>1, LifecycleAssumption DEF TypeOK
  <2>2. p \in R <=> "RETURN" \in ledger[p]
    BY DEF ReturnedTo
  <2> QED BY <2>1, <2>2, PostedBounded
<1>3. /\ \A p \in R : e[p] = Amount[p] /\ Amount[p] \in Int
      /\ \A p \in S \ R : e[p] = 0
  BY <1>1, LifecycleAssumption
<1>4. PostedBalance(m) = InitialCredit[m] + SumOf(f, S)
  BY BalanceIsSum
<1>5. SumOf(Amount, HeldBy(m)) \in Int /\ SumOf(Amount, R) \in Int
  BY AmountsGrow DEF HeldBy, ReturnedTo, OfMerchant
<1> HIDE DEF f, e, S, R
<1>6. SumOf(f, S) <= SumOf(e, S) /\ SumOf(f, S) \in Int /\ SumOf(e, S) \in Int
  BY <1>1, <1>2, SumBounded, SumTyped
<1>7. SumOf(e, S) = SumOf(Amount, R)
  <2>1. SumOf(e, R) = SumOf(Amount, R)
    BY <1>1, <1>3, FS_Subset, SumEqual
  <2>2. SumOf(e, S) = SumOf(e, R)
    BY <1>1, <1>2, <1>3, SumPadded
  <2> QED BY <2>1, <2>2
<1>8. InitialCredit[m] \in Int
  BY LifecycleAssumption
<1> QED BY <1>4, <1>5, <1>6, <1>7, <1>8, HeldIsSum DEF Available, Credited, R

(* No entry of the ledger is ever taken back.                               *)
LEMMA LedgerGrows ==
  ASSUME TypeOK, Next
  PROVE  \A p \in Payments : ledger[p] \subseteq ledger'[p]
<1>1. ASSUME NEW p \in Payments, NEW type, AddEntry(p, type)
      PROVE  \A q \in Payments : ledger[q] \subseteq ledger'[q]
  BY <1>1, EntryAt
<1>2. ASSUME NEW c \in Callers, ApiStep(c) PROVE \A p \in Payments : ledger[p] \subseteq ledger'[p]
  <2>1. CASE CommitReserve(c) \/ CommitSettle(c) \/ CommitReturn(c)
    <3>1. P(c) \in Payments
      BY <2>1, PaymentOfCall, TypeParts DEF CommitReserve, CommitSettle, CommitReturn, At
    <3> QED BY <1>1, <2>1, <3>1 DEF CommitReserve, CommitSettle, CommitReturn,
               InsertReservation, SettleCredit, ReturnCredit
  <2>2. CASE CommitValidate(c) \/ ReserveLockDay(c) \/ ReserveLockFunding(c) \/ ReadSubmitted(c)
    BY <2>2 DEF CommitValidate, ReserveLockDay, ReserveLockFunding, ReadSubmitted, rows
  <2> QED BY <1>2, <2>1, <2>2 DEF ApiStep
<1>3. ASSUME NEW c \in Callers, LockedStep(c) PROVE \A p \in Payments : ledger[p] \subseteq ledger'[p]
  <2>1. P(c) \in Payments
    BY <1>3, PaymentOfCall, TypeParts
       DEF LockedStep, CommitWorkerSettle, CommitWorkerReturn, CommitRelease,
           CommitSettleDebit, CommitReturnDebit, At
  <2> QED BY <1>1, <1>3, <2>1
          DEF LockedStep, CommitWorkerSettle, CommitWorkerReturn, CommitRelease,
              CommitSettleDebit, CommitReturnDebit, SettleCredit, ReturnCredit
<1>4. ASSUME NEW c \in Callers, HandlerStep(c) PROVE \A p \in Payments : ledger[p] \subseteq ledger'[p]
  <2>1. CASE CommitAccept(c)
    <3>1. P(c) \in Payments
      BY <2>1, PaymentOfCall, TypeParts DEF CommitAccept, At
    <3> QED BY <1>1, <2>1, <3>1 DEF CommitAccept, InsertReservation
  <2>2. CASE ~CommitAccept(c)
    BY <1>4, <2>2
       DEF HandlerStep, FailFromReceived, FailAlreadyDecided, LockDayAlreadyDecided,
           LockDay, LacksAccount, LockFunding, CommitReject, MarkProcessed, MarkFailed, rows
  <2> QED BY <2>1, <2>2
<1>5. ASSUME NEW c \in Callers, CommitNacha(c) \/ WorkerError(c) \/ Abort(c)
      PROVE  UNCHANGED ledger
  BY <1>5 DEF CommitNacha, WorkerError, Abort, rows
<1>6. ASSUME NEW c \in Callers, NEW q \in Payments,
             ApiBegin(c, q) \/ LockedBegin(c, q) \/ ClaimReceived(c, q)
      PROVE  UNCHANGED ledger
  BY <1>6, BeginShape DEF MovesTo, ClaimReceived, rows
<1>7. ASSUME NEW c \in Callers, NEW m \in Merchants, SelectForNacha(c, m)
      PROVE  UNCHANGED ledger
  BY <1>7 DEF SelectForNacha, rows
<1>8. (\E p \in Payments : Create(p) \/ RecoverExpired(p))
      \/ (\E m \in Merchants : UpdateMerchantStatus(m) \/ ProvisionDemoFunding(m))
      \/ (\E e \in BankEvents, p \in Payments : ProcessBankSettlementEvent(e, p))
      => UNCHANGED ledger
  BY DEF Create, RecoverExpired, UpdateMerchantStatus, ProvisionDemoFunding,
         ProcessBankSettlementEvent
<1> QED BY <1>2, <1>3, <1>4, <1>5, <1>6, <1>7, <1>8 DEF Next

(* Only a caller with the funding lock puts a reservation up.               *)
LEMMA HoldingStep ==
  ASSUME TypeOK, Next, NEW p \in Payments,
         reservation'[p] = "ACTIVE", reservation[p] # "ACTIVE"
  PROVE  \E c \in Callers :
           /\ P(c) = p /\ Inserts(c)
           /\ CommitReserve(c) \/ CommitAccept(c)
           /\ \A q \in Payments \ {p} : reservation'[q] = reservation[q]
<1>1. ~UNCHANGED reservation
  OBVIOUS
<1>2. ASSUME NEW q \in Payments, SetReservation(q, "SETTLED")
                                 \/ SetReservation(q, "RETURNED")
                                 \/ SetReservation(q, "RELEASED")
      PROVE  FALSE
  BY <1>2, ReservationAt
<1>3. ASSUME NEW c \in Callers,
             CommitSettle(c) \/ CommitReturn(c) \/ CommitWorkerSettle(c)
             \/ CommitWorkerReturn(c) \/ CommitRelease(c)
      PROVE  FALSE
  <2>1. P(c) \in Payments
    BY <1>3, PaymentOfCall, TypeParts
       DEF CommitSettle, CommitReturn, CommitWorkerSettle, CommitWorkerReturn,
           CommitRelease, At
  <2> QED BY <1>2, <1>3, <2>1
          DEF CommitSettle, CommitReturn, CommitWorkerSettle, CommitWorkerReturn,
              CommitRelease, SettleCredit, ReturnCredit
<1>4. ASSUME NEW c \in Callers, CommitReserve(c) \/ CommitAccept(c)
      PROVE  /\ P(c) = p /\ Inserts(c)
             /\ \A q \in Payments \ {p} : reservation'[q] = reservation[q]
  <2>1. P(c) \in Payments
    BY <1>4, PaymentOfCall, TypeParts DEF CommitReserve, CommitAccept, At
  <2>2. InsertReservation(P(c)) /\ Inserts(c)
    BY <1>1, <1>4 DEF CommitReserve, CommitAccept, Inserts
  <2> QED BY <2>1, <2>2, ReservationAt DEF InsertReservation
<1>5. ASSUME NEW c \in Callers, ApiStep(c) PROVE CommitReserve(c)
  BY <1>1, <1>3, <1>5
     DEF ApiStep, CommitValidate, ReserveLockDay, ReserveLockFunding, ReadSubmitted,
         rows
<1>6. ASSUME NEW c \in Callers, LockedStep(c) PROVE FALSE
  BY <1>1, <1>3, <1>6 DEF LockedStep, CommitSettleDebit, CommitReturnDebit
<1>7. ASSUME NEW c \in Callers, HandlerStep(c) PROVE CommitAccept(c)
  BY <1>1, <1>7
     DEF HandlerStep, FailFromReceived, FailAlreadyDecided, LockDayAlreadyDecided,
         LockDay, LacksAccount, LockFunding, CommitReject, MarkProcessed, MarkFailed, rows
<1>8. ASSUME NEW c \in Callers, CommitNacha(c) \/ WorkerError(c) \/ Abort(c)
      PROVE  FALSE
  BY <1>1, <1>8 DEF CommitNacha, WorkerError, Abort, rows
<1>9. ASSUME NEW c \in Callers, NEW q \in Payments,
             ApiBegin(c, q) \/ LockedBegin(c, q) \/ ClaimReceived(c, q)
      PROVE  FALSE
  BY <1>1, <1>9, BeginShape DEF MovesTo, ClaimReceived, rows
<1>10. ASSUME NEW c \in Callers, NEW m \in Merchants, SelectForNacha(c, m)
       PROVE  FALSE
  BY <1>1, <1>10 DEF SelectForNacha, rows
<1>11. ~ \/ \E q \in Payments : Create(q) \/ RecoverExpired(q)
         \/ \E m \in Merchants : UpdateMerchantStatus(m) \/ ProvisionDemoFunding(m)
         \/ \E e \in BankEvents, q \in Payments : ProcessBankSettlementEvent(e, q)
  BY <1>1 DEF Create, RecoverExpired, UpdateMerchantStatus, ProvisionDemoFunding,
              ProcessBankSettlementEvent
<1> QED BY <1>4, <1>5, <1>6, <1>7, <1>8, <1>9, <1>10, <1>11 DEF Next

(* How a step moves the callers, as far as the funding lock goes.           *)
LEMMA FundingShape ==
  ASSUME TypeOK, Next
  PROVE  \/ UNCHANGED call
         \/ \E c \in Callers : /\ \A d \in Callers \ {c} : call'[d] = call[d]
                               /\ ~HoldsFundingLock(c)'
         \/ \E c \in Callers : ReserveLockFunding(c) \/ LockFunding(c)
<1>1. ASSUME NEW c \in Callers, \A d \in Callers \ {c} : call'[d] = call[d],
             call'[c].op \notin {"reserveCommit", "decide"}
      PROVE  \E b \in Callers : /\ \A d \in Callers \ {b} : call'[d] = call[d]
                                /\ ~HoldsFundingLock(b)'
  BY <1>1 DEF HoldsFundingLock, At
<1>2. ASSUME NEW c \in Callers, MovesOff(c)
      PROVE  /\ \A d \in Callers \ {c} : call'[d] = call[d]
             /\ call'[c].op \notin {"reserveCommit", "decide"}
  BY <1>2 DEF MovesOff, DailyLockOps
<1>3. ASSUME NEW c \in Callers, NEW m \in Merchants, SelectForNacha(c, m)
      PROVE  /\ \A d \in Callers \ {c} : call'[d] = call[d]
             /\ call'[c].op \notin {"reserveCommit", "decide"}
  <2>1. PICK S \in SUBSET Payments : Goes(c, Generating(S))
    BY <1>3 DEF SelectForNacha, OfMerchant
  <2> QED BY <2>1, GoesElsewhere, GeneratingIsCall
<1>4. ASSUME NEW c \in Callers, CommitReserve(c) \/ CommitAccept(c)
      PROVE  /\ \A d \in Callers \ {c} : call'[d] = call[d]
             /\ call'[c].op \notin {"reserveCommit", "decide"}
  <2>1. P(c) \in Payments
    BY <1>4, PaymentOfCall, TypeParts DEF CommitReserve, CommitAccept, At
  <2> QED BY <1>4, <2>1, GoesElsewhere, IdleIsCall, DoingIsCall, OpsNamed
          DEF CommitReserve, CommitAccept
<1>5. ASSUME NEW c \in Callers, ReserveLockDay(c) \/ LockDay(c) \/ LacksAccount(c)
      PROVE  (\A d \in Callers \ {c} : call'[d] = call[d]) /\ ~HoldsFundingLock(c)'
  <2>0. ~At(c, "idle") /\ ~At(c, "nacha")
    BY <1>5 DEF ReserveLockDay, LockDay, LacksAccount, At
  <2>p. PICK p \in Payments : p = P(c)
    BY <2>0, PaymentOfCall, TypeParts
  <2>1. call[c].utilized \in Nat /\ usage[Day(p)] \in Nat
    BY <2>0, <2>p, PaymentOfCall, TypeParts
  <2>2. ASSUME NEW op \in Ops, NEW u \in Nat, NEW v \in Verdict, Goes(c, Working(op, p, u, v))
        PROVE  /\ \A d \in Callers \ {c} : call'[d] = call[d]
               /\ P(c)' = p /\ call'[c].op = op /\ call'[c].verdict = v
    BY <2>2, GoesElsewhere, GoesOn
  <2>3. CASE ReserveLockDay(c)
    BY <2>p, <2>1, <2>2, <2>3, OpsNamed
       DEF ReserveLockDay, Verdict, HoldsFundingLock, At
  <2>4. CASE LockDay(c)
    <3> DEFINE within == WithinDailyLimit(p, usage[Day(p)])
               op == IF within /\ Direction[p] = "CREDIT" THEN "funding" ELSE "decide"
               v == IF within THEN "VALIDATED" ELSE "EXCEEDS_DAILY_AMOUNT_LIMIT"
    <3>1. op \in Ops /\ v \in Verdict
      BY OpsNamed DEF Verdict
    <3>2. Goes(c, Working(op, p, usage[Day(p)], v))
      BY <2>p, <2>4 DEF LockDay
    <3>3. /\ \A d \in Callers \ {c} : call'[d] = call[d]
          /\ P(c)' = p /\ call'[c].op = op /\ call'[c].verdict = v
      BY <2>1, <2>2, <3>1, <3>2
    <3> QED BY <3>3 DEF HoldsFundingLock, At
  <2>5. CASE LacksAccount(c)
    BY <2>p, <2>1, <2>2, <2>5, OpsNamed
       DEF LacksAccount, Verdict, HoldsFundingLock, At
  <2> QED BY <1>5, <2>3, <2>4, <2>5
<1> QED BY <1>1, <1>2, <1>3, <1>4, <1>5, CallShape DEF DailyStep

(* What a step leaves of a merchant's holds and credits, unless it is the   *)
(* one that puts a reservation up.                                          *)
LEMMA CreditsGrow ==
  ASSUME TypeOK, Next, NEW m \in Merchants
  PROVE  /\ Credited(m) <= Credited(m)' /\ Credited(m) \in Int /\ Credited(m)' \in Int
         /\ SumOf(Amount, HeldBy(m)) \in Int /\ SumOf(Amount, HeldBy(m)') \in Int
<1>1. ReturnedTo(m) \in SUBSET ReturnedTo(m)'
  BY LedgerGrows DEF ReturnedTo, OfMerchant
<1>2. /\ ReturnedTo(m)' \in SUBSET Payments
      /\ HeldBy(m) \in SUBSET Payments /\ HeldBy(m)' \in SUBSET Payments
  BY DEF ReturnedTo, HeldBy, OfMerchant
<1>3. /\ SumOf(Amount, ReturnedTo(m)) \in Int /\ SumOf(Amount, ReturnedTo(m)') \in Int
      /\ SumOf(Amount, ReturnedTo(m)) <= SumOf(Amount, ReturnedTo(m)')
  BY <1>1, <1>2, AmountsGrow
<1>4. SumOf(Amount, HeldBy(m)) \in Int /\ SumOf(Amount, HeldBy(m)') \in Int
  BY <1>2, AmountsGrow
<1>5. InitialCredit[m] \in Int
  BY LifecycleAssumption
<1>6. /\ Credited(m) = InitialCredit[m] + SumOf(Amount, ReturnedTo(m))
      /\ Credited(m)' = InitialCredit[m] + SumOf(Amount, ReturnedTo(m)')
  BY DEF Credited
<1> QED BY <1>3, <1>4, <1>5, <1>6

(* The funding lock keeps what was available when it was taken available    *)
(* until its holder inserts the reservation.                                *)
LEMMA FundingInvStep ==
  ASSUME TypeOK, FundingInv, Next
  PROVE  FundingInv'
<1> DEFINE Total(S) == SumOf(Amount, S)
<1>1. \A c \in Callers : HoldsFundingLock(c) \/ Inserts(c)
        => P(c) \in Payments /\ MerchantOf[P(c)] \in Merchants /\ Amount[P(c)] \in Int
  BY PaymentOfCall, TypeParts, LifecycleAssumption DEF HoldsFundingLock, Inserts, At
<1>2. \A c \in Callers : Inserts(c) => HoldsFundingLock(c)
  BY DEF Inserts, HoldsFundingLock
<1>3. \A c \in Callers : call'[c] = call[c] =>
        /\ P(c)' = P(c)
        /\ HoldsFundingLock(c)' = HoldsFundingLock(c)
        /\ Inserts(c)' = Inserts(c)
  BY DEF P, At, HoldsFundingLock, Inserts
<1>4. \A m \in Merchants :
        /\ Credited(m) <= Credited(m)' /\ Credited(m) \in Int /\ Credited(m)' \in Int
        /\ Total(HeldBy(m)) \in Int /\ Total(HeldBy(m)') \in Int
  BY CreditsGrow
<1>5. ASSUME NEW c \in Callers, Inserts(c), CommitReserve(c) \/ CommitAccept(c),
             \A q \in Payments \ {P(c)} : reservation'[q] = reservation[q]
      PROVE  FundingInv'
  <2>p. PICK p \in Payments : p = P(c)
    BY <1>1, <1>5
  <2>n. PICK n \in Merchants : n = MerchantOf[p]
    BY <1>1, <1>5, <2>p
  <2>1. Amount[p] \in Int
    BY LifecycleAssumption
  <2>2. (\A d \in Callers \ {c} : call'[d] = call[d]) /\ ~HoldsFundingLock(c)'
    BY <1>5, <2>p, GoesElsewhere, IdleIsCall, DoingIsCall, OpsNamed
       DEF CommitReserve, CommitAccept, HoldsFundingLock, At
  <2>3. ~Inserts(c)'
    BY <2>2 DEF Inserts, HoldsFundingLock, At
  <2>4. Total(HeldBy(n)') <= Total(HeldBy(n)) + Amount[p]
    <3>1. PICK S \in SUBSET Payments : S = HeldBy(n) \ {p}
      BY DEF HeldBy, OfMerchant
    <3>2. S \in SUBSET HeldBy(n) /\ HeldBy(n) \in SUBSET Payments
      BY <3>1 DEF HeldBy, OfMerchant
    <3>3. S \cup {p} \in SUBSET Payments
      OBVIOUS
    <3>4. HeldBy(n)' \in SUBSET (S \cup {p})
      BY <1>5, <2>p, <3>1 DEF HeldBy, OfMerchant
    <3>5. Total(S \cup {p}) = Amount[p] + Total(S)
      BY <3>1, AmountsAdd
    <3>6. Total(S) <= Total(HeldBy(n)) /\ Total(S) \in Int
      BY <3>2, AmountsGrow
    <3>7. Total(HeldBy(n)') <= Total(S \cup {p})
      BY <3>3, <3>4, AmountsGrow
    <3> QED BY <1>4, <2>1, <3>5, <3>6, <3>7
  <2>5. ASSUME NEW m \in Merchants, m # n PROVE HeldBy(m)' = HeldBy(m)
    BY <1>5, <2>p, <2>n, <2>5 DEF HeldBy, OfMerchant
  <2>6. Total(HeldBy(n)) + Amount[p] <= Credited(n)
    BY <1>5, <2>p, <2>n DEF FundingInv
  <2>7. ASSUME NEW m \in Merchants PROVE Total(HeldBy(m)') <= Credited(m)'
    <3>1. CASE m = n
      <4>1. Total(HeldBy(n)') <= Credited(n)'
        BY <1>4, <2>1, <2>4, <2>6
      <4> QED BY <3>1, <4>1
    <3>2. CASE m # n
      <4>1. Total(HeldBy(m)) <= Credited(m)
        BY DEF FundingInv
      <4> QED BY <1>4, <2>5, <3>2, <4>1
    <3> QED BY <3>1, <3>2
  <2>8. ASSUME NEW d \in Callers, Inserts(d)', NEW m \in Merchants, MerchantOf[P(d)'] = m
        PROVE  Total(HeldBy(m)') + Amount[P(d)'] <= Credited(m)'
    <3>1. /\ d # c /\ Inserts(d) /\ HoldsFundingLock(d) /\ HoldsFundingLock(c)
          /\ P(d)' = P(d)
      BY <1>2, <1>3, <1>5, <2>2, <2>3, <2>8
    <3>2. m # n /\ Amount[P(d)] \in Int
      BY <1>1, <2>8, <2>p, <2>n, <3>1 DEF FundingInv
    <3>3. Total(HeldBy(m)) + Amount[P(d)] <= Credited(m)
      BY <2>8, <3>1 DEF FundingInv
    <3> QED BY <1>4, <2>5, <3>1, <3>2, <3>3
  <2>9. \A d \in Callers : HoldsFundingLock(d)' => HoldsFundingLock(d) /\ P(d)' = P(d)
    BY <1>3, <2>2
  <2> QED BY <2>7, <2>8, <2>9 DEF FundingInv
<1>6. ASSUME \A m \in Merchants : HeldBy(m)' \in SUBSET HeldBy(m)
      PROVE  FundingInv'
  <2>1. ASSUME NEW m \in Merchants PROVE Total(HeldBy(m)') <= Total(HeldBy(m))
    BY <1>6, AmountsGrow DEF HeldBy, OfMerchant
  <2>2. ASSUME NEW m \in Merchants PROVE Total(HeldBy(m)') <= Credited(m)'
    <3>1. Total(HeldBy(m)) <= Credited(m)
      BY DEF FundingInv
    <3> QED BY <1>4, <2>1, <3>1
  <2>3. ASSUME NEW c \in Callers, Inserts(c), P(c)' = P(c),
               NEW m \in Merchants, MerchantOf[P(c)'] = m
        PROVE  Total(HeldBy(m)') + Amount[P(c)'] <= Credited(m)'
    <3>1. Amount[P(c)] \in Int
      BY <1>1, <2>3
    <3>2. Total(HeldBy(m)) + Amount[P(c)] <= Credited(m)
      BY <2>3 DEF FundingInv
    <3> QED BY <1>4, <2>1, <2>3, <3>1, <3>2
  <2>4. CASE \/ UNCHANGED call
             \/ \E c \in Callers : /\ \A d \in Callers \ {c} : call'[d] = call[d]
                                   /\ ~HoldsFundingLock(c)'
    <3>1. \A d \in Callers : HoldsFundingLock(d)' =>
            /\ P(d)' = P(d) /\ HoldsFundingLock(d)
            /\ Inserts(d)' => Inserts(d)
      BY <1>3, <2>4
    <3>2. \A d \in Callers : Inserts(d)' => HoldsFundingLock(d)'
      BY DEF Inserts, HoldsFundingLock, At
    <3>3. \A d \in Callers, m \in Merchants : Inserts(d)' /\ MerchantOf[P(d)'] = m =>
            Total(HeldBy(m)') + Amount[P(d)'] <= Credited(m)'
      BY <2>3, <3>1, <3>2
    <3> QED BY <2>2, <3>1, <3>3 DEF FundingInv
  <2>5. ASSUME NEW c \in Callers, ReserveLockFunding(c) \/ LockFunding(c)
        PROVE  FundingInv'
    <3>1. /\ FundingLockFree(P(c)) /\ UNCHANGED <<reservation, ledger>>
          /\ ~At(c, "idle") /\ ~At(c, "nacha")
      BY <2>5 DEF ReserveLockFunding, LockFunding, rows, At
    <3>2. /\ P(c) \in Payments /\ MerchantOf[P(c)] \in Merchants
          /\ Amount[P(c)] \in Int /\ call[c].utilized \in Nat
      BY <3>1, PaymentOfCall, TypeParts, LifecycleAssumption
    <3>p. PICK p \in Payments : p = P(c)
      BY <3>2
    <3>n. PICK n \in Merchants : n = MerchantOf[p]
      BY <3>2, <3>p
    <3>3. PICK op \in Ops, v \in Verdict :
            /\ Goes(c, Working(op, p, call[c].utilized, v))
            /\ v = "VALIDATED" => Available(n) >= Amount[p]
            /\ op = "reserveCommit" => v = "VALIDATED"
      <4>1. CASE ReserveLockFunding(c)
        BY <3>p, <3>n, <4>1, OpsNamed DEF ReserveLockFunding, Verdict
      <4>2. CASE LockFunding(c)
        <5> DEFINE w == IF Available(n) < Amount[p]
                        THEN "INSUFFICIENT_FUNDS" ELSE "VALIDATED"
        <5>1. Goes(c, Working("decide", p, call[c].utilized, w))
          BY <3>p, <3>n, <4>2 DEF LockFunding
        <5>2. w \in Verdict /\ "decide" \in Ops
          BY OpsNamed DEF Verdict
        <5>3. w = "VALIDATED" => Available(n) >= Amount[p]
          BY <3>2, <3>p, AvailableBounded
        <5> HIDE DEF w
        <5> QED BY <5>1, <5>2, <5>3
      <4> QED BY <2>5, <4>1, <4>2
    <3>4. /\ P(c)' = p /\ call'[c].op = op /\ call'[c].verdict = v
          /\ \A d \in Callers \ {c} : call'[d] = call[d]
      BY <3>2, <3>3, GoesElsewhere, GoesOn
    <3>5. ASSUME Inserts(c)' PROVE Total(HeldBy(n)') + Amount[p] <= Credited(n)'
      <4>1. Available(n) >= Amount[p] /\ Amount[p] \in Int
        BY <3>2, <3>p, <3>3, <3>4, <3>5 DEF Inserts, At
      <4>2. Available(n) \in Int /\ Available(n) <= Credited(n) - Total(HeldBy(n))
        BY AvailableBounded
      <4>3. Total(HeldBy(n)) + Amount[p] <= Credited(n)
        BY <1>4, <4>1, <4>2
      <4> QED BY <1>4, <2>1, <4>1, <4>3
    <3>6. \A d \in Callers \ {c} : HoldsFundingLock(d)' =>
            HoldsFundingLock(d) /\ P(d)' = P(d) /\ MerchantOf[P(d)] # n
      BY <1>3, <3>1, <3>p, <3>n, <3>4 DEF FundingLockFree
    <3>7. \A d \in Callers, m \in Merchants : Inserts(d)' /\ MerchantOf[P(d)'] = m =>
            Total(HeldBy(m)') + Amount[P(d)'] <= Credited(m)'
      BY <1>3, <2>3, <3>n, <3>4, <3>5
    <3> QED BY <2>2, <3>n, <3>4, <3>6, <3>7 DEF FundingInv
  <2> QED BY <2>4, <2>5, FundingShape
<1>7. CASE \E p \in Payments : reservation'[p] = "ACTIVE" /\ reservation[p] # "ACTIVE"
  BY <1>5, <1>7, HoldingStep
<1>8. CASE ~ \E p \in Payments : reservation'[p] = "ACTIVE" /\ reservation[p] # "ACTIVE"
  BY <1>6, <1>8 DEF HeldBy, OfMerchant
<1> QED BY <1>7, <1>8

(* Concurrent credits never hold more than the account was credited: the    *)
(* balance that was checked under the funding lock is still enough when the *)
(* reservation is inserted, whoever settles, returns or releases meanwhile. *)
THEOREM CreditsCoverHolds == Spec => []HoldsWithinCredits
<1>1. Init => FundingInv
  <2> SUFFICES ASSUME Init PROVE FundingInv
    OBVIOUS
  <2>1. \A c \in Callers : ~HoldsFundingLock(c) /\ ~Inserts(c)
    BY IdleIsCall DEF Init, HoldsFundingLock, Inserts, At
  <2>2. ASSUME NEW m \in Merchants PROVE SumOf(Amount, HeldBy(m)) <= Credited(m)
    <3>1. HeldBy(m) = {} /\ ReturnedTo(m) = {}
      BY DEF Init, HeldBy, ReturnedTo, OfMerchant
    <3>2. InitialCredit[m] \in Nat
      BY LifecycleAssumption
    <3> QED BY <3>1, <3>2, SumEmpty DEF Credited
  <2> QED BY <2>1, <2>2 DEF FundingInv
<1>2. TypeOK /\ FundingInv /\ [Next]_vars => FundingInv'
  <2>1. ASSUME FundingInv, UNCHANGED vars PROVE FundingInv'
    <3>1. \A c \in Callers : /\ P(c)' = P(c)
                             /\ HoldsFundingLock(c)' = HoldsFundingLock(c)
                             /\ Inserts(c)' = Inserts(c)
      BY <2>1 DEF vars, P, At, HoldsFundingLock, Inserts
    <3>2. \A m : HeldBy(m)' = HeldBy(m) /\ Credited(m)' = Credited(m)
      BY <2>1 DEF vars, HeldBy, Credited, ReturnedTo, OfMerchant
    <3> QED BY <2>1, <3>1, <3>2 DEF FundingInv
  <2> QED BY <2>1, FundingInvStep
<1>3. FundingInv => HoldsWithinCredits
  BY WithinIsSum DEF FundingInv
<1> QED BY <1>1, <1>2, <1>3, TypeCorrect, PTL DEF Spec
=============================================================================
