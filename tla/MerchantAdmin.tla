---------------------------- MODULE MerchantAdmin -----------------------------
(***************************************************************************)
(* What the administrators' API does to merchants, and what it means for   *)
(* them: the key they authenticate with, and whether their payments are    *)
(* validated.  A payment is checked against what was read of its merchant, *)
(* by the API and by the worker, and its status is written later.          *)
(***************************************************************************)
EXTENDS Naturals

CONSTANTS
  Merchants,   \* Merchant rows
  Existing,    \* the one that is there when the page is opened
  Statuses,    \* the statuses in use: a subset of MerchantStatus
  Payments,    \* Payment rows
  NoMerchant,  \* the null value, of payments too
  MaxKeys      \* bound on the keys generated when no page is open

MerchantStatus == {"ACTIVE", "SUSPENDED", "CLOSED"}

ASSUME MerchantsAssumption ==
  /\ NoMerchant \notin Merchants \cup Payments
  /\ Existing \in Merchants
  /\ Statuses \subseteq MerchantStatus

VARIABLES
  status,      \* of a merchant, "absent" until it is created
  hashed,      \* the key whose hash is stored, 0 for none
  issued,      \* the number of keys that were generated
  funded,      \* the merchants with demo funding
  payment,     \* the merchant and the status of a payment
  checking,    \* the payment a validator has read, and whether it passed
  wasActive    \* the payments whose merchant was active since they exist

merchantRows == <<status, hashed, issued, funded>>
paymentRows  == <<payment, checking>>
merchantVars == <<merchantRows, paymentRows, wasActive>>

Validators == {"api", "worker"}
NotChecking == [payment |-> NoMerchant, passes |-> FALSE]

(* A merchant that was created has a key, one that was seeded has none.    *)
MerchantsBegin ==
  /\ status = [m \in Merchants |-> IF m = Existing THEN "ACTIVE" ELSE "absent"]
  /\ \E k \in {0, 1} : hashed = [m \in Merchants |-> IF m = Existing THEN k ELSE 0]
  /\ issued = 1 /\ funded = {}
  /\ payment = [p \in Payments |-> [of |-> NoMerchant, status |-> "absent"]]
  /\ checking = [v \in Validators |-> NotChecking]
  /\ wasActive = {}

-----------------------------------------------------------------------------
(* The administrators' API. *)

SetStatus(m, s) ==
  /\ status' = [status EXCEPT ![m] = s]
  /\ wasActive' = IF s = "ACTIVE"
                  THEN wasActive \cup {p \in Payments : payment[p].of = m}
                  ELSE wasActive

(* Mutation: what is returned is generated again. *)
newKey_Twice == [stored |-> issued + 1, returned |-> issued + 2]

(* newKey, hashApiKey: the key that is stored and the one that is returned. *)
newKey == [stored |-> issued + 1, returned |-> issued + 1]

StoreKey(m) ==
  /\ hashed' = [hashed EXCEPT ![m] = newKey.stored]
  /\ issued' = newKey.returned

create(m, s) ==
  /\ status[m] = "absent"
  /\ SetStatus(m, s)
  /\ StoreKey(m)
  /\ UNCHANGED <<funded, paymentRows>>

updateStatus(m, s) ==
  /\ status[m] # "absent"
  /\ SetStatus(m, s)
  /\ UNCHANGED <<hashed, issued, funded, paymentRows>>

(* ensure() looks for the merchant, but the key is what is updated.         *)
rotate(m) ==
  /\ hashed[m] # 0
  /\ StoreKey(m)
  /\ UNCHANGED <<status, funded, paymentRows, wasActive>>

provisionDemoFunding(m) ==
  /\ status[m] # "absent"
  /\ funded' = funded \cup {m}
  /\ UNCHANGED <<status, hashed, issued, paymentRows, wasActive>>

(* What the list and the details show of a merchant.                       *)
Row(m) == [status |-> status[m], funded |-> m \in funded]

-----------------------------------------------------------------------------
(* Merchants and their payments. *)

authenticate(m, key) == key # 0 /\ hashed[m] = key

(* A payment is created by whoever has the merchant's key, whatever the    *)
(* merchant's status.                                                      *)
CreatePayment(p, m, key) ==
  /\ payment[p].status = "absent"
  /\ authenticate(m, key)
  /\ payment' = [payment EXCEPT ![p] = [of |-> m, status |-> "RECEIVED"]]
  /\ wasActive' = IF status[m] = "ACTIVE" THEN wasActive \cup {p} ELSE wasActive
  /\ UNCHANGED <<merchantRows, checking>>

(* Mutation: the merchant's status is left to the bank. *)
ReadForValidation_AnyStatus(v, p) ==
  /\ checking[v] = NotChecking
  /\ payment[p].status = "RECEIVED"
  /\ checking' = [checking EXCEPT ![v] = [payment |-> p, passes |-> TRUE]]
  /\ UNCHANGED <<merchantRows, payment, wasActive>>

ReadForValidation(v, p) ==
  /\ checking[v] = NotChecking
  /\ payment[p].status = "RECEIVED"
  /\ checking' = [checking EXCEPT ![v] =
       [payment |-> p, passes |-> status[payment[p].of] = "ACTIVE"]]
  /\ UNCHANGED <<merchantRows, payment, wasActive>>

(* The worker writes to a payment that is still received; the API writes   *)
(* if it passes, and refuses otherwise.                                    *)
Writes(v) ==
  IF v = "worker" THEN payment[checking[v].payment].status = "RECEIVED"
                  ELSE checking[v].passes

CommitValidation(v) ==
  /\ checking[v] # NotChecking
  /\ payment' = IF Writes(v)
       THEN [payment EXCEPT ![checking[v].payment].status =
               IF checking[v].passes THEN "VALIDATED" ELSE "VALIDATION_FAILED"]
       ELSE payment
  /\ checking' = [checking EXCEPT ![v] = NotChecking]
  /\ UNCHANGED <<merchantRows, wasActive>>

(* A validator that dies, or whose transaction fails, has written nothing. *)
ValidationFails(v) ==
  /\ checking[v] # NotChecking
  /\ checking' = [checking EXCEPT ![v] = NotChecking]
  /\ UNCHANGED <<merchantRows, payment, wasActive>>

(* What administrators, merchants and validators do while no page is open. *)
AdminNext ==
  \/ \E m \in Merchants :
       \/ issued < MaxKeys /\ rotate(m)
       \/ provisionDemoFunding(m)
       \/ \E s \in Statuses : (issued < MaxKeys /\ create(m, s)) \/ updateStatus(m, s)
  \/ \E p \in Payments, m \in Merchants, key \in 1..issued : CreatePayment(p, m, key)
  \/ \E v \in Validators :
       \/ CommitValidation(v) \/ ValidationFails(v)
       \/ \E p \in Payments : ReadForValidation(v, p)

-----------------------------------------------------------------------------
(* Properties. *)

(* "Suspended merchants cannot initiate payment operations": a merchant    *)
(* that is not active since before a payment was created never sees it     *)
(* validated.  (One suspended while a validator is about to write does,    *)
(* for the status is read before the transaction that validates.)          *)
SuspensionStops == \A p \in Payments :
  payment[p].status = "VALIDATED" => p \in wasActive
=============================================================================
