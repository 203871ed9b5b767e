-------------------------- MODULE PaymentLifecycle --------------------------
(***************************************************************************)
(* The life of ACH payments in the database: the API's payment engine, the *)
(* worker's validation and settlement repository and the NACHA generator,  *)
(* all running concurrently against the same PostgreSQL rows.              *)
(*                                                                         *)
(* Every operation is an interactive READ COMMITTED transaction.  It is    *)
(* modelled by a step that reads (and takes the advisory locks the code    *)
(* takes), remembering what it read in call[c], and a step that writes and *)
(* commits, which re-evaluates the conditional updates and the unique keys *)
(* against the rows as they are then.  A write that a unique key or a      *)
(* row-count check refuses is a step that is not enabled: the transaction  *)
(* can then only roll back (Abort, WorkerError).                           *)
(***************************************************************************)
EXTENDS Integers, FiniteSets, FiniteSetsExt

CONSTANTS
  Payments,       \* payment rows
  Merchants,      \* merchants, each with at most one USD funding account
  Dates,          \* UTC business dates
  BankEvents,     \* bankEventId values
  Callers,        \* concurrent requests, worker handlers and operator jobs
  MerchantOf,     \* the merchant of a payment
  DateOf,         \* the business date a payment was created on
  Direction,      \* "DEBIT" or "CREDIT"
  Amount,         \* amountCents
  WellFormed,     \* payments whose own fields pass every basic check
  DailyLimit,     \* dailyAmountLimit of a merchant
  InitialCredit,  \* the INITIAL_CREDIT a merchant's account is opened with
  NoPayment       \* the null value of payment fields

(* A database holds finitely many rows. *)
ASSUME LifecycleAssumption ==
  /\ IsFiniteSet(Payments)
  /\ MerchantOf \in [Payments -> Merchants]
  /\ DateOf \in [Payments -> Dates]
  /\ Direction \in [Payments -> {"DEBIT", "CREDIT"}]
  /\ Amount \in [Payments -> Nat \ {0}]
  /\ WellFormed \subseteq Payments
  /\ DailyLimit \in [Merchants -> Nat]
  /\ InitialCredit \in [Merchants -> Nat]
  /\ NoPayment \notin Payments

VARIABLES
  status,       \* Payment.status, "ABSENT" before the row exists
  exported,     \* the payments with exportedAt and achFileId set
  reservation,  \* Reservation.status, "NONE" without a row
  ledger,       \* the LedgerEntry types written for a payment, one per entryKey
  events,       \* the lifecycle OutboxEvent types written, one per eventKey
  usage,        \* MerchantDailyUsage.utilizedAmount
  active,       \* the merchants with status ACTIVE
  funded,       \* the merchants with an (ACTIVE) funding account
  claim,        \* OutboxEvent.status of the payment's PAYMENT_RECEIVED event
  bankEvents,   \* ProcessedBankEvent: the payment each bank event settled
  call          \* what each caller is doing and what it has read

vars == <<status, exported, reservation, ledger, events, usage, active,
          funded, claim, bankEvents, call>>
rows == <<status, exported, reservation, ledger, events, usage, claim>>
env  == <<active, funded, bankEvents>>

PaymentStatus == {"ABSENT", "RECEIVED", "VALIDATED", "VALIDATION_FAILED",
                  "SUBMITTED", "SETTLED", "RETURNED"}
ReservationStatus == {"NONE", "ACTIVE", "RELEASED", "SETTLED", "RETURNED"}
EntryType == {"RESERVATION", "RESERVATION_RELEASE", "SETTLEMENT",
              "DEBIT_POSTED", "RETURN"}
EventType == {"PAYMENT_RECEIVED", "PAYMENT_VALIDATED",
              "PAYMENT_VALIDATION_FAILED", "PAYMENT_RESERVED",
              "PAYMENT_SUBMITTED", "PAYMENT_SETTLED", "PAYMENT_RETURNED"}
OutboxStatus == {"ABSENT", "PENDING", "PROCESSING", "PROCESSED", "FAILED"}
Verdict == {"VALIDATED", "EXCEEDS_DAILY_AMOUNT_LIMIT",
            "FUNDING_ACCOUNT_UNAVAILABLE", "INSUFFICIENT_FUNDS"}

(* The places at which a call can be interrupted by others. *)
WorkerOps == {"fail", "daily", "funding", "decide", "complete", "error"}
PaymentLockOps == {"settleDebit", "workerSettle", "workerReturn",
                   "returnDebit", "release"}
DailyLockOps == {"reserveFunding", "reserveCommit", "funding", "decide"}
Ops == WorkerOps \cup PaymentLockOps \cup DailyLockOps
         \cup {"idle", "validate", "reserve", "settleRead", "settle", "return",
               "nacha"}

Call == [op: Ops, payment: Payments \cup {NoPayment}, utilized: Nat,
         verdict: Verdict, batch: SUBSET Payments]

Working(op, p, utilized, verdict) ==
  [op |-> op, payment |-> p, utilized |-> utilized, verdict |-> verdict,
   batch |-> {}]
Doing(op, p) == Working(op, p, 0, "VALIDATED")
Idle == Doing("idle", NoPayment)
Generating(payments) ==
  [op |-> "nacha", payment |-> NoPayment, utilized |-> 0,
   verdict |-> "VALIDATED", batch |-> payments]

Goes(c, next) == call' = [call EXCEPT ![c] = next]
At(c, op) == call[c].op = op
P(c) == call[c].payment

TypeOK ==
  /\ status \in [Payments -> PaymentStatus]
  /\ exported \subseteq Payments
  /\ reservation \in [Payments -> ReservationStatus]
  /\ ledger \in [Payments -> SUBSET EntryType]
  /\ events \in [Payments -> SUBSET EventType]
  /\ usage \in [Merchants \X Dates -> Nat]
  /\ active \subseteq Merchants
  /\ funded \subseteq Merchants
  /\ claim \in [Payments -> OutboxStatus]
  /\ bankEvents \in [BankEvents -> Payments \cup {NoPayment}]
  /\ call \in [Callers -> Call]
  /\ \A c \in Callers : call[c].op \notin {"idle", "nacha"} => P(c) \in Payments

Init ==
  /\ status = [p \in Payments |-> "ABSENT"]
  /\ exported = {}
  /\ reservation = [p \in Payments |-> "NONE"]
  /\ ledger = [p \in Payments |-> {}]
  /\ events = [p \in Payments |-> {}]
  /\ usage = [k \in Merchants \X Dates |-> 0]
  /\ active = Merchants
  /\ funded = {}
  /\ claim = [p \in Payments |-> "ABSENT"]
  /\ bankEvents = [e \in BankEvents |-> NoPayment]
  /\ call = [c \in Callers |-> Idle]

-----------------------------------------------------------------------------
(* Rows, keys and locks. *)

Day(p) == <<MerchantOf[p], DateOf[p]>>

(* pg_advisory_xact_lock is free when no transaction that took it is open. *)
PaymentLockFree(p) == \A c \in Callers :
  ~(call[c].op \in PaymentLockOps /\ P(c) = p)

(* Mutation: the merchant's day is not locked. *)
DailyLockFree_Unlocked(p) == TRUE

DailyLockFree(p) == \A c \in Callers :
  ~(call[c].op \in DailyLockOps /\ Day(P(c)) = Day(p))

HoldsFundingLock(c) ==
  \/ At(c, "reserveCommit")
  \/ /\ At(c, "decide")
     /\ Direction[P(c)] = "CREDIT"
     /\ call[c].verdict \in {"VALIDATED", "INSUFFICIENT_FUNDS"}

(* Mutation: the funding account is not locked. *)
FundingLockFree_Unlocked(p) == TRUE

FundingLockFree(p) == \A c \in Callers :
  ~(HoldsFundingLock(c) /\ MerchantOf[P(c)] = MerchantOf[p])

(* Mutation: two generators may run at once. *)
NachaLockFree_Unlocked == TRUE

NachaLockFree == \A c \in Callers : ~At(c, "nacha")

(* What an entry of the ledger adds to the posted balance of its account. *)
Impact(type) == CASE type = "RETURN"       -> 1
                  [] type = "DEBIT_POSTED" -> -1
                  [] OTHER                 -> 0

Posted(p) == MapThenSumSet(LAMBDA type : Impact(type) * Amount[p], ledger[p])

OfMerchant(m) == {p \in Payments : MerchantOf[p] = m}

PostedBalance(m) == InitialCredit[m] + MapThenSumSet(Posted, OfMerchant(m))

Held(m) == MapThenSumSet(LAMBDA p : Amount[p],
                         {p \in OfMerchant(m) : reservation[p] = "ACTIVE"})

Available(m) == PostedBalance(m) - Held(m)

(* The checks on a payment that look at no other row than its merchant's.  *)
PassesBasicChecks(p) == p \in WellFormed /\ MerchantOf[p] \in active

(* Insert a ledger entry and an outbox event; both keys are unique. *)
AddEntry(p, type) ==
  /\ type \notin ledger[p]
  /\ ledger' = [ledger EXCEPT ![p] = @ \cup {type}]

AddEvent(p, type) ==
  /\ type \notin events[p]
  /\ events' = [events EXCEPT ![p] = @ \cup {type}]

SetStatus(p, new) == status' = [status EXCEPT ![p] = new]
SetReservation(p, new) == reservation' = [reservation EXCEPT ![p] = new]

-----------------------------------------------------------------------------
(* Payment creation, and what operators change beside the payments. *)

Create(p) ==
  /\ status[p] = "ABSENT"
  /\ SetStatus(p, "RECEIVED")
  /\ AddEvent(p, "PAYMENT_RECEIVED")
  /\ claim' = [claim EXCEPT ![p] = "PENDING"]
  /\ UNCHANGED <<exported, reservation, ledger, usage, env, call>>

UpdateMerchantStatus(m) ==
  /\ \/ active' = active \cup {m}
     \/ active' = active \ {m}
  /\ UNCHANGED <<status, exported, reservation, ledger, events, usage, funded,
                 claim, bankEvents, call>>

ProvisionDemoFunding(m) ==
  /\ funded' = funded \cup {m}
  /\ UNCHANGED <<status, exported, reservation, ledger, events, usage, active,
                 claim, bankEvents, call>>

(* Mutation: a submitted payment is accepted as settled. *)
ProcessBankSettlementEvent_Early(e, p) ==
  /\ bankEvents[e] = NoPayment
  /\ status[p] \in {"SUBMITTED", "SETTLED", "RETURNED"}
  /\ bankEvents' = [bankEvents EXCEPT ![e] = p]
  /\ UNCHANGED <<status, exported, reservation, ledger, events, usage, active,
                 funded, claim, call>>

ProcessBankSettlementEvent(e, p) ==
  /\ bankEvents[e] = NoPayment
  /\ status[p] \in {"SETTLED", "RETURNED"}
  /\ bankEvents' = [bankEvents EXCEPT ![e] = p]
  /\ UNCHANGED <<status, exported, reservation, ledger, events, usage, active,
                 funded, claim, call>>

-----------------------------------------------------------------------------
(* API: POST /payments/:id/validate.  The status is read outside the       *)
(* transaction that overwrites it.                                         *)

ReadForValidate(c, p) ==
  /\ At(c, "idle")
  /\ status[p] = "RECEIVED"
  /\ PassesBasicChecks(p)
  /\ Goes(c, Doing("validate", p))
  /\ UNCHANGED <<rows, env>>

(* Mutation: an event that exists already is skipped, not refused. *)
CommitValidate_SkipsDuplicate(c) ==
  /\ At(c, "validate")
  /\ SetStatus(P(c), "VALIDATED")
  /\ events' = [events EXCEPT ![P(c)] = @ \cup {"PAYMENT_VALIDATED"}]
  /\ Goes(c, Idle)
  /\ UNCHANGED <<exported, reservation, ledger, usage, claim, env>>

CommitValidate(c) ==
  /\ At(c, "validate")
  /\ SetStatus(P(c), "VALIDATED")
  /\ AddEvent(P(c), "PAYMENT_VALIDATED")
  /\ Goes(c, Idle)
  /\ UNCHANGED <<exported, reservation, ledger, usage, claim, env>>

(* API: POST /payments/:id/reserve.  Payment and reservation are read      *)
(* before the daily lock, usage under it, the account and, under its lock, *)
(* the balance last.  An account is never closed: reading it as the lock   *)
(* is granted is reading it before waiting.                                *)

ReadForReserve(c, p) ==
  /\ At(c, "idle")
  /\ reservation[p] = "NONE"
  /\ status[p] = "VALIDATED"
  /\ Direction[p] = "CREDIT"
  /\ Goes(c, Doing("reserve", p))
  /\ UNCHANGED <<rows, env>>

(* Mutation: the limit is compared with the usage before this payment. *)
WithinDailyLimit_Before(p, utilized) ==
  utilized < DailyLimit[MerchantOf[p]] + Amount[p]

WithinDailyLimit(p, utilized) ==
  utilized + Amount[p] <= DailyLimit[MerchantOf[p]]

ReserveLockDay(c) ==
  /\ At(c, "reserve")
  /\ DailyLockFree(P(c))
  /\ WithinDailyLimit(P(c), usage[Day(P(c))])
  /\ Goes(c, Working("reserveFunding", P(c), usage[Day(P(c))], "VALIDATED"))
  /\ UNCHANGED <<rows, env>>

ReserveLockFunding(c) ==
  /\ At(c, "reserveFunding")
  /\ MerchantOf[P(c)] \in funded
  /\ FundingLockFree(P(c))
  /\ Available(MerchantOf[P(c)]) >= Amount[P(c)]
  /\ Goes(c, Working("reserveCommit", P(c), call[c].utilized, "VALIDATED"))
  /\ UNCHANGED <<rows, env>>

(* Insert the reservation (its paymentId is unique) and its ledger entry.  *)
InsertReservation(p) ==
  /\ reservation[p] = "NONE"
  /\ SetReservation(p, "ACTIVE")
  /\ AddEntry(p, "RESERVATION")

AddUsage(c) ==
  usage' = [usage EXCEPT ![Day(P(c))] = call[c].utilized + Amount[P(c)]]

CommitReserve(c) ==
  /\ At(c, "reserveCommit")
  /\ InsertReservation(P(c))
  /\ AddUsage(c)
  /\ AddEvent(P(c), "PAYMENT_RESERVED")
  /\ Goes(c, Idle)
  /\ UNCHANGED <<status, exported, claim, env>>

-----------------------------------------------------------------------------
(* API: settle and return of a credit, with no advisory lock and           *)
(* unconditional updates after the reads.                                  *)

ReadForSettle(c, p) ==
  /\ At(c, "idle")
  /\ reservation[p] = "ACTIVE"
  /\ Goes(c, Doing("settleRead", p))
  /\ UNCHANGED <<rows, env>>

ReadSubmitted(c) ==
  /\ At(c, "settleRead")
  /\ status[P(c)] = "SUBMITTED"
  /\ Goes(c, Doing("settle", P(c)))
  /\ UNCHANGED <<rows, env>>

(* Mutation: the reservation is left as it is. *)
SettleCredit_KeepsHold(p) ==
  /\ UNCHANGED reservation
  /\ SetStatus(p, "SETTLED")
  /\ AddEntry(p, "SETTLEMENT")
  /\ AddEvent(p, "PAYMENT_SETTLED")

SettleCredit(p) ==
  /\ SetReservation(p, "SETTLED")
  /\ SetStatus(p, "SETTLED")
  /\ AddEntry(p, "SETTLEMENT")
  /\ AddEvent(p, "PAYMENT_SETTLED")

CommitSettle(c) ==
  /\ At(c, "settle")
  /\ SettleCredit(P(c))
  /\ Goes(c, Idle)
  /\ UNCHANGED <<exported, usage, claim, env>>

ReadForReturn(c, p) ==
  /\ At(c, "idle")
  /\ reservation[p] = "SETTLED"
  /\ Goes(c, Doing("return", p))
  /\ UNCHANGED <<rows, env>>

ReturnCredit(p) ==
  /\ SetReservation(p, "RETURNED")
  /\ SetStatus(p, "RETURNED")
  /\ AddEntry(p, "RETURN")
  /\ AddEvent(p, "PAYMENT_RETURNED")

CommitReturn(c) ==
  /\ At(c, "return")
  /\ ReturnCredit(P(c))
  /\ Goes(c, Idle)
  /\ UNCHANGED <<exported, usage, claim, env>>

-----------------------------------------------------------------------------
(* Worker repository: settle, return and release of a credit under the     *)
(* payment's advisory lock.  Release does not look at the payment, and     *)
(* refuses no reservation but a RELEASED one.                              *)

LockForSettle(c, p) ==
  /\ At(c, "idle")
  /\ PaymentLockFree(p)
  /\ reservation[p] = "ACTIVE"
  /\ Goes(c, Doing("workerSettle", p))
  /\ UNCHANGED <<rows, env>>

CommitWorkerSettle(c) ==
  /\ At(c, "workerSettle")
  /\ status[P(c)] = "SUBMITTED"
  /\ SettleCredit(P(c))
  /\ Goes(c, Idle)
  /\ UNCHANGED <<exported, usage, claim, env>>

LockForReturn(c, p) ==
  /\ At(c, "idle")
  /\ PaymentLockFree(p)
  /\ reservation[p] = "SETTLED"
  /\ Goes(c, Doing("workerReturn", p))
  /\ UNCHANGED <<rows, env>>

CommitWorkerReturn(c) ==
  /\ At(c, "workerReturn")
  /\ status[P(c)] \in {"SETTLED", "VALIDATED"}
  /\ ReturnCredit(P(c))
  /\ Goes(c, Idle)
  /\ UNCHANGED <<exported, usage, claim, env>>

LockForRelease(c, p) ==
  /\ At(c, "idle")
  /\ PaymentLockFree(p)
  /\ reservation[p] \notin {"NONE", "RELEASED"}
  /\ Goes(c, Doing("release", p))
  /\ UNCHANGED <<rows, env>>

CommitRelease(c) ==
  /\ At(c, "release")
  /\ SetReservation(P(c), "RELEASED")
  /\ AddEntry(P(c), "RESERVATION_RELEASE")
  /\ Goes(c, Idle)
  /\ UNCHANGED <<status, exported, events, usage, claim, env>>

(* Debits have no reservation: the API and the worker both settle and      *)
(* return them under the payment's advisory lock.                          *)

LockForSettleDebit(c, p) ==
  /\ At(c, "idle")
  /\ reservation[p] = "NONE"
  /\ PaymentLockFree(p)
  /\ Direction[p] = "DEBIT"
  /\ status[p] = "SUBMITTED"
  /\ MerchantOf[p] \in funded
  /\ Goes(c, Doing("settleDebit", p))
  /\ UNCHANGED <<rows, env>>

CommitSettleDebit(c) ==
  /\ At(c, "settleDebit")
  /\ SetStatus(P(c), "SETTLED")
  /\ AddEntry(P(c), "DEBIT_POSTED")
  /\ AddEvent(P(c), "PAYMENT_SETTLED")
  /\ Goes(c, Idle)
  /\ UNCHANGED <<exported, reservation, usage, claim, env>>

LockForReturnDebit(c, p) ==
  /\ At(c, "idle")
  /\ reservation[p] = "NONE"
  /\ PaymentLockFree(p)
  /\ Direction[p] = "DEBIT"
  /\ status[p] = "SETTLED"
  /\ "DEBIT_POSTED" \in ledger[p]
  /\ Goes(c, Doing("returnDebit", p))
  /\ UNCHANGED <<rows, env>>

(* Mutation: a debit is returned without its ledger entry. *)
CommitReturnDebit_NoEntry(c) ==
  /\ At(c, "returnDebit")
  /\ status[P(c)] = "SETTLED"
  /\ SetStatus(P(c), "RETURNED")
  /\ AddEvent(P(c), "PAYMENT_RETURNED")
  /\ Goes(c, Idle)
  /\ UNCHANGED <<exported, reservation, ledger, usage, claim, env>>

CommitReturnDebit(c) ==
  /\ At(c, "returnDebit")
  /\ status[P(c)] = "SETTLED"
  /\ SetStatus(P(c), "RETURNED")
  /\ AddEntry(P(c), "RETURN")
  /\ AddEvent(P(c), "PAYMENT_RETURNED")
  /\ Goes(c, Idle)
  /\ UNCHANGED <<exported, reservation, usage, claim, env>>

-----------------------------------------------------------------------------
(* NACHA generation: the eligible payments of one merchant, under a global *)
(* lock.  The commit checks that none of them changed.                     *)

Eligible(p) == status[p] = "VALIDATED" /\ p \notin exported

SelectForNacha(c, m) ==
  LET eligible == {p \in OfMerchant(m) : Eligible(p)} IN
  /\ At(c, "idle")
  /\ NachaLockFree
  /\ eligible # {}
  /\ Goes(c, Generating(eligible))
  /\ UNCHANGED <<rows, env>>

CommitNacha(c) ==
  LET batch == call[c].batch IN
  /\ At(c, "nacha")
  /\ \A p \in batch : Eligible(p) /\ "PAYMENT_SUBMITTED" \notin events[p]
  /\ status' = [p \in Payments |-> IF p \in batch THEN "SUBMITTED" ELSE status[p]]
  /\ exported' = exported \cup batch
  /\ events' = [p \in Payments |-> IF p \in batch
                                   THEN events[p] \cup {"PAYMENT_SUBMITTED"}
                                   ELSE events[p]]
  /\ Goes(c, Idle)
  /\ UNCHANGED <<reservation, ledger, usage, claim, env>>

-----------------------------------------------------------------------------
(* Worker: handling of the PAYMENT_RECEIVED event.                         *)

(* Claim the event and load the payment with its merchant.  The basic      *)
(* checks are made on this snapshot, outside every transaction; of all     *)
(* they read only the merchant's status changes, and that at any time, so  *)
(* that loading with the claim loses no outcome.                           *)
ClaimReceived(c, p) ==
  /\ At(c, "idle")
  /\ claim[p] = "PENDING"
  /\ claim' = [claim EXCEPT ![p] = "PROCESSING"]
  /\ Goes(c, Doing(IF PassesBasicChecks(p) THEN "daily" ELSE "fail", p))
  /\ UNCHANGED <<status, exported, reservation, ledger, events, usage, env>>

(* transitionFromReceived: a conditional update. *)
FailFromReceived(c) ==
  /\ At(c, "fail")
  /\ status[P(c)] = "RECEIVED"
  /\ SetStatus(P(c), "VALIDATION_FAILED")
  /\ AddEvent(P(c), "PAYMENT_VALIDATION_FAILED")
  /\ Goes(c, Doing("complete", P(c)))
  /\ UNCHANGED <<exported, reservation, ledger, usage, claim, env>>

FailAlreadyDecided(c) ==
  /\ At(c, "fail")
  /\ status[P(c)] # "RECEIVED"
  /\ Goes(c, Doing(IF status[P(c)] \in {"VALIDATED", "VALIDATION_FAILED"}
                   THEN "complete" ELSE "error", P(c)))
  /\ UNCHANGED <<rows, env>>

(* completeOutbox: the claimed event is completed in the transaction that  *)
(* decides the payment.                                                    *)
CompleteOutbox(p) ==
  /\ claim[p] = "PROCESSING"
  /\ claim' = [claim EXCEPT ![p] = "PROCESSED"]

(* Mutation: the event is completed before the status is looked at. *)
LockDayAlreadyDecided_Unread(c) ==
  /\ At(c, "daily")
  /\ DailyLockFree(P(c))
  /\ CompleteOutbox(P(c))
  /\ Goes(c, Doing("complete", P(c)))
  /\ UNCHANGED <<status, exported, reservation, ledger, events, usage, env>>

LockDayAlreadyDecided(c) ==
  /\ At(c, "daily")
  /\ DailyLockFree(P(c))
  /\ status[P(c)] # "RECEIVED"
  /\ CompleteOutbox(P(c))
  /\ Goes(c, Doing("complete", P(c)))
  /\ UNCHANGED <<status, exported, reservation, ledger, events, usage, env>>

(* Status and usage are read under the daily lock; a credit goes on to its *)
(* funding account.                                                        *)
LockDay(c) ==
  LET within == WithinDailyLimit(P(c), usage[Day(P(c))]) IN
  /\ At(c, "daily")
  /\ DailyLockFree(P(c))
  /\ status[P(c)] = "RECEIVED"
  /\ Goes(c, Working(IF within /\ Direction[P(c)] = "CREDIT"
                     THEN "funding" ELSE "decide",
                     P(c), usage[Day(P(c))],
                     IF within THEN "VALIDATED" ELSE "EXCEEDS_DAILY_AMOUNT_LIMIT"))
  /\ UNCHANGED <<rows, env>>

LacksAccount(c) ==
  /\ At(c, "funding")
  /\ MerchantOf[P(c)] \notin funded
  /\ Goes(c, Working("decide", P(c), call[c].utilized,
                     "FUNDING_ACCOUNT_UNAVAILABLE"))
  /\ UNCHANGED <<rows, env>>

LockFunding(c) ==
  /\ At(c, "funding")
  /\ MerchantOf[P(c)] \in funded
  /\ FundingLockFree(P(c))
  /\ Goes(c, Working("decide", P(c), call[c].utilized,
                     IF Available(MerchantOf[P(c)]) < Amount[P(c)]
                     THEN "INSUFFICIENT_FUNDS" ELSE "VALIDATED"))
  /\ UNCHANGED <<rows, env>>

(* The transition out of RECEIVED is a conditional update whose row count  *)
(* is not checked.                                                         *)
TransitionIfReceived(p, new) ==
  status' = [status EXCEPT ![p] = IF @ = "RECEIVED" THEN new ELSE @]

CommitAccept(c) ==
  /\ At(c, "decide")
  /\ call[c].verdict = "VALIDATED"
  /\ TransitionIfReceived(P(c), "VALIDATED")
  /\ AddUsage(c)
  /\ "PAYMENT_VALIDATED" \notin events[P(c)]
  /\ \/ /\ Direction[P(c)] = "DEBIT"
        /\ events' = [events EXCEPT ![P(c)] = @ \cup {"PAYMENT_VALIDATED"}]
        /\ UNCHANGED <<reservation, ledger>>
     \/ /\ Direction[P(c)] = "CREDIT"
        /\ InsertReservation(P(c))
        /\ "PAYMENT_RESERVED" \notin events[P(c)]
        /\ events' = [events EXCEPT ![P(c)] =
                        @ \cup {"PAYMENT_VALIDATED", "PAYMENT_RESERVED"}]
  /\ CompleteOutbox(P(c))
  /\ Goes(c, Doing("complete", P(c)))
  /\ UNCHANGED <<exported, env>>

CommitReject(c) ==
  /\ At(c, "decide")
  /\ call[c].verdict # "VALIDATED"
  /\ TransitionIfReceived(P(c), "VALIDATION_FAILED")
  /\ AddEvent(P(c), "PAYMENT_VALIDATION_FAILED")
  /\ CompleteOutbox(P(c))
  /\ Goes(c, Doing("complete", P(c)))
  /\ UNCHANGED <<exported, reservation, ledger, usage, env>>

(* processClaimedEvent ends with markProcessed or markFailed, which look   *)
(* at the event's status and not at who claimed it.                        *)
MarkProcessed(c) ==
  /\ At(c, "complete")
  /\ claim' = [claim EXCEPT ![P(c)] = IF @ = "PROCESSING" THEN "PROCESSED" ELSE @]
  /\ Goes(c, Idle)
  /\ UNCHANGED <<status, exported, reservation, ledger, events, usage, env>>

MarkFailed(c) ==
  /\ At(c, "error")
  /\ \E next \in {"PENDING", "FAILED"} :
       claim' = [claim EXCEPT ![P(c)] = IF @ = "PROCESSING" THEN next ELSE @]
  /\ Goes(c, Idle)
  /\ UNCHANGED <<status, exported, reservation, ledger, events, usage, env>>

(* recoverExpiredClaims: the lease ran out, whether or not a handler is    *)
(* still at work.                                                          *)
RecoverExpired(p) ==
  /\ claim[p] = "PROCESSING"
  /\ \E next \in {"PENDING", "FAILED"} : claim' = [claim EXCEPT ![p] = next]
  /\ UNCHANGED <<status, exported, reservation, ledger, events, usage, env, call>>

(* The handler throws, or its transaction rolls back. *)
WorkerError(c) ==
  /\ call[c].op \in WorkerOps \ {"error"}
  /\ Goes(c, Doing("error", P(c)))
  /\ UNCHANGED <<rows, env>>

(* A request fails and rolls back, or the process of any caller dies. *)
Abort(c) ==
  /\ ~At(c, "idle")
  /\ Goes(c, Idle)
  /\ UNCHANGED <<rows, env>>

-----------------------------------------------------------------------------
ApiBegin(c, p) ==
  \/ ReadForValidate(c, p) \/ ReadForReserve(c, p)
  \/ ReadForSettle(c, p) \/ ReadForReturn(c, p)

LockedBegin(c, p) ==
  \/ LockForSettle(c, p) \/ LockForReturn(c, p) \/ LockForRelease(c, p)
  \/ LockForSettleDebit(c, p) \/ LockForReturnDebit(c, p)

ApiStep(c) ==
  \/ CommitValidate(c) \/ ReserveLockDay(c) \/ ReserveLockFunding(c)
  \/ CommitReserve(c) \/ ReadSubmitted(c) \/ CommitSettle(c) \/ CommitReturn(c)

LockedStep(c) ==
  \/ CommitWorkerSettle(c) \/ CommitWorkerReturn(c) \/ CommitRelease(c)
  \/ CommitSettleDebit(c) \/ CommitReturnDebit(c)

HandlerStep(c) ==
  \/ FailFromReceived(c) \/ FailAlreadyDecided(c)
  \/ LockDayAlreadyDecided(c) \/ LockDay(c) \/ LacksAccount(c) \/ LockFunding(c)
  \/ CommitAccept(c) \/ CommitReject(c) \/ MarkProcessed(c) \/ MarkFailed(c)

Next ==
  \/ \E p \in Payments : Create(p) \/ RecoverExpired(p)
  \/ \E m \in Merchants : UpdateMerchantStatus(m) \/ ProvisionDemoFunding(m)
  \/ \E e \in BankEvents, p \in Payments : ProcessBankSettlementEvent(e, p)
  \/ \E c \in Callers, p \in Payments :
       ApiBegin(c, p) \/ LockedBegin(c, p) \/ ClaimReceived(c, p)
  \/ \E c \in Callers, m \in Merchants : SelectForNacha(c, m)
  \/ \E c \in Callers :
       \/ ApiStep(c) \/ LockedStep(c) \/ HandlerStep(c) \/ CommitNacha(c)
       \/ WorkerError(c) \/ Abort(c)

Spec == Init /\ [][Next]_vars

-----------------------------------------------------------------------------
(* Properties. *)

Posting == {"SETTLEMENT", "DEBIT_POSTED"}

(* A payment is posted at most once and returned at most once, however     *)
(* settle and return requests interleave: its status, its ledger entries   *)
(* and its events tell the same story.  The API's unconditional updates    *)
(* rely on the unique entryKey and eventKey for this                       *)
(* (payment-engine.service.ts, settle and returnSettlement).               *)
StatusMatchesLedger == \A p \in Payments :
  /\ status[p] \in {"SETTLED", "RETURNED"} <=> ledger[p] \cap Posting # {}
  /\ status[p] \in {"SETTLED", "RETURNED"} <=> "PAYMENT_SETTLED" \in events[p]
  /\ status[p] = "RETURNED" <=> "RETURN" \in ledger[p]
  /\ status[p] = "RETURNED" <=> "PAYMENT_RETURNED" \in events[p]

(* A payment accepted for submission has its PAYMENT_VALIDATED event and an *)
(* exported one its PAYMENT_SUBMITTED event: no stale validation brings a   *)
(* payment back for a second export (engine validate, lines 47-67, writes   *)
(* VALIDATED without looking at the status it overwrites).                  *)
ExportedOnce == \A p \in Payments :
  /\ p \in exported <=> status[p] \in {"SUBMITTED", "SETTLED", "RETURNED"}
  /\ p \in exported <=> "PAYMENT_SUBMITTED" \in events[p]
  /\ status[p] \in {"VALIDATED", "SUBMITTED", "SETTLED", "RETURNED"}
       => "PAYMENT_VALIDATED" \in events[p]

(* A payment that settled or was returned keeps no ACTIVE hold, however     *)
(* settlements, returns and releases interleave.                            *)
NoHoldAfterSettlement == \A p \in Payments :
  reservation[p] = "ACTIVE" => ledger[p] \cap (Posting \cup {"RETURN"}) = {}

(* The payments a NACHA generation selected stay eligible until it commits, *)
(* so that it never fails on "Eligible payments changed".                   *)
NachaBatchUndisturbed == \A c \in Callers : \A p \in call[c].batch : Eligible(p)

(* Daily usage never exceeds the merchant's limit, whichever of the worker  *)
(* and the API counts a payment.                                            *)
UsageWithinLimit == \A m \in Merchants, d \in Dates :
  usage[<<m, d>>] <= DailyLimit[m]

(* No update of the daily usage is lost: the step that counts a payment, by *)
(* the worker's decision or by a hold of the API, adds its amount to what   *)
(* the usage of its date is by then, although both write a sum that they    *)
(* computed earlier.                                                        *)
Counts(p) ==
  \/ reservation[p] = "NONE" /\ reservation'[p] = "ACTIVE"
  \/ /\ status[p] = "RECEIVED" /\ status'[p] = "VALIDATED"
     /\ claim[p] # "PROCESSED" /\ claim'[p] = "PROCESSED"

UsageCountsEach == [][\A p \in Payments :
  Counts(p) => usage'[Day(p)] = usage[Day(p)] + Amount[p]]_vars

(* Concurrent credits never hold more than an account was ever credited.    *)
HoldsWithinCredits == \A m \in Merchants :
  Held(m) <= InitialCredit[m]
             + MapThenSumSet(LAMBDA p : Amount[p],
                             {p \in OfMerchant(m) : "RETURN" \in ledger[p]})

(* A PAYMENT_RECEIVED event is completed only once its payment is decided,  *)
(* whoever claimed it and whoever completes it.                             *)
CompletedMeansDecided == \A p \in Payments :
  claim[p] = "PROCESSED" => status[p] \notin {"ABSENT", "RECEIVED"}

(* A recorded bank settlement event is about a payment that is settled, and *)
(* stays so.                                                                *)
BankEventsAreSettled == \A e \in BankEvents :
  bankEvents[e] # NoPayment => status[bankEvents[e]] \in {"SETTLED", "RETURNED"}

(* A statement of the documentation that the code does not keep. *)

(* docs/architecture.md: "ACH credits reserve prefunded funds before        *)
(* submission".                                                             *)
SubmittedCreditIsReserved == \A p \in Payments :
  Direction[p] = "CREDIT" /\ status[p] = "SUBMITTED" => reservation[p] # "NONE"
=============================================================================
