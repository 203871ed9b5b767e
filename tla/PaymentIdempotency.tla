------------------------- MODULE PaymentIdempotency --------------------------
(***************************************************************************)
(* PaymentsService.create: one transaction inserts the payment, its        *)
(* PAYMENT_RECEIVED event and its idempotency record; a request that meets *)
(* a unique key looks the record up, again after short delays when it does *)
(* not see it, and replays the payment or refuses another payload.         *)
(*                                                                         *)
(* A request is one HTTP call and a payment is named by the call that      *)
(* inserted it: a client that retries makes another request.               *)
(***************************************************************************)
EXTENDS Naturals

CONSTANTS
  Requests,   \* calls of POST /payments
  Keys,       \* Idempotency-Key headers, trimmed, each with its merchant
  Bodies,     \* request bodies
  Prints,     \* fingerprints
  PrintOf,    \* the fingerprint of a body
  Lookups,    \* attempts to see the record: one, and one for each delay
  None        \* the null value

Reply == {"created", "replayed", "refused", "unreadable", "error"}

ASSUME IdempotencyAssumption ==
  /\ PrintOf \in [Bodies -> Prints]
  /\ Lookups \in Nat \ {0}
  /\ None \notin Requests \cup Keys \cup Bodies \cup Reply
  /\ None \notin [key : Keys, print : Prints] \cup [print : Prints, writer : Requests]

VARIABLES
  step,       \* how far a request has come
  key, body,  \* what it asks for, None before it arrives
  lookups,    \* the lookups that found nothing
  reply,      \* what it is answered, None until then
  payments,   \* the payments committed
  events,     \* those whose PAYMENT_RECEIVED event exists
  record      \* record[k]: the payment of the idempotency record of k, or None

rows    == <<payments, events, record>>
request == <<step, key, body, lookups, reply>>
vars    == <<rows, request>>

Step == {"new", "arrived", "inserted", "conflict", "answered"}

TypeOK ==
  /\ step \in [Requests -> Step]
  /\ key \in [Requests -> Keys \cup {None}]
  /\ body \in [Requests -> Bodies \cup {None}]
  /\ lookups \in [Requests -> 0..Lookups]
  /\ reply \in [Requests -> Reply \cup {None}]
  /\ payments \subseteq Requests
  /\ events \subseteq payments
  /\ record \in [Keys -> payments \cup {None}]
  /\ \A r \in Requests :
       /\ step[r] # "new" => key[r] \in Keys /\ body[r] \in Bodies
       /\ step[r] = "answered" <=> reply[r] # None

Init ==
  /\ step = [r \in Requests |-> "new"]
  /\ key = [r \in Requests |-> None]
  /\ body = [r \in Requests |-> None]
  /\ lookups = [r \in Requests |-> 0]
  /\ reply = [r \in Requests |-> None]
  /\ payments = {}
  /\ events = {}
  /\ record = [k \in Keys |-> None]

Fingerprint(r) == PrintOf[body[r]]

Goes(r, next) == step' = [step EXCEPT ![r] = next]

Answer(r, answer) ==
  /\ Goes(r, "answered")
  /\ reply' = [reply EXCEPT ![r] = answer]

-----------------------------------------------------------------------------
Arrive(r, k, b) ==
  /\ step[r] = "new"
  /\ Goes(r, "arrived")
  /\ key' = [key EXCEPT ![r] = k]
  /\ body' = [body EXCEPT ![r] = b]
  /\ UNCHANGED <<lookups, reply, rows>>

(* The insertion of a unique key that an open transaction has inserted      *)
(* waits until that transaction ends.                                       *)
KeyIsFree(r) == \A q \in Requests : step[q] = "inserted" => key[q] # key[r]

(* Mutation: an insertion does not wait, and an open one is a conflict.     *)
InsertPayment_Unwaited(r) ==
  /\ step[r] = "arrived"
  /\ Goes(r, IF (\E p \in payments : key[p] = key[r]) \/ ~KeyIsFree(r)
             THEN "conflict" ELSE "inserted")
  /\ UNCHANGED <<key, body, lookups, reply, rows>>

InsertPayment(r) ==
  /\ step[r] = "arrived"
  /\ KeyIsFree(r)
  /\ Goes(r, IF \E p \in payments : key[p] = key[r] THEN "conflict" ELSE "inserted")
  /\ UNCHANGED <<key, body, lookups, reply, rows>>

(* Mutation: the transaction that writes no record (createWithOutbox).      *)
CommitCreate_NoRecord(r) ==
  /\ step[r] = "inserted"
  /\ payments' = payments \cup {r}
  /\ events' = events \cup {r}
  /\ \E answer \in {"created", "error"} : Answer(r, answer)
  /\ UNCHANGED <<key, body, lookups, record>>

(* Payment, event and record are committed, and the answer may be lost; or  *)
(* the key of the record is taken, and everything is rolled back.           *)
CommitCreate(r) ==
  /\ step[r] = "inserted"
  /\ IF record[key[r]] = None
     THEN /\ payments' = payments \cup {r}
          /\ events' = events \cup {r}
          /\ record' = [record EXCEPT ![key[r]] = r]
          /\ \E answer \in {"created", "error"} : Answer(r, answer)
     ELSE Goes(r, "conflict") /\ UNCHANGED <<reply, rows>>
  /\ UNCHANGED <<key, body, lookups>>

(* Mutation: the fingerprint is not compared. *)
FindRecord_AnyPayload(r) ==
  /\ step[r] = "conflict"
  /\ record[key[r]] # None
  /\ Answer(r, "replayed")
  /\ UNCHANGED <<key, body, lookups, rows>>

(* One lookup of findPaymentWithVisibilityRetry, and the last one's outcome. *)
FindRecord(r) ==
  /\ step[r] = "conflict"
  /\ IF record[key[r]] # None
     THEN /\ Answer(r, IF Fingerprint(record[key[r]]) = Fingerprint(r) THEN "replayed" ELSE "refused")
          /\ UNCHANGED lookups
     ELSE /\ lookups' = [lookups EXCEPT ![r] = @ + 1]
          /\ IF lookups'[r] = Lookups THEN Answer(r, "unreadable")
                                      ELSE UNCHANGED <<step, reply>>
  /\ UNCHANGED <<key, body, rows>>

(* The process dies, the database fails or the transaction times out: what  *)
(* is not committed is rolled back.                                         *)
Fail(r) ==
  /\ step[r] \in {"arrived", "inserted", "conflict"}
  /\ Answer(r, "error")
  /\ UNCHANGED <<key, body, lookups, rows>>

Create(r) == InsertPayment(r) \/ CommitCreate(r) \/ FindRecord(r)

Next == \E r \in Requests :
  \/ \E k \in Keys, b \in Bodies : Arrive(r, k, b)
  \/ Create(r) \/ Fail(r)

Spec == Init /\ [][Next]_vars

-----------------------------------------------------------------------------
(* Properties. *)

(* A payment is never without its event and its record, and no two payments *)
(* share a key: the three inserts are one transaction.                      *)
PaymentsAreRecorded == \A p \in payments :
  p \in events /\ record[key[p]] = p

(* A conflict is reported only when the payment that holds the key is       *)
(* committed, so that the first lookup already finds its record: the delays *)
(* of the visibility retry, and its failure, never come about.              *)
ConflictIsReadable == \A r \in Requests :
  step[r] = "conflict" => record[key[r]] # None

(* Calls of one key behave as a register that is written once, atomically,  *)
(* whatever the order of inserts, commits, lookups and failures.            *)
Written == [k \in Keys |->
  IF record[k] = None THEN None
  ELSE [print |-> Fingerprint(record[k]), writer |-> record[k]]]

Open == [r \in Requests |->
  IF step[r] \in {"new", "answered"} THEN None
  ELSE [key |-> key[r], print |-> Fingerprint(r)]]

Register == INSTANCE KeyRegister WITH written <- Written, open <- Open

KeepsRegister == Register!Spec
=============================================================================
