--------------------------- MODULE PaymentRequests ---------------------------
(***************************************************************************)
(* A POST to /payments: the guards of the controller, of which the rate    *)
(* limiter keeps state, and then the idempotent creation of the payment.   *)
(* Requests that are refused or not answered are sent again as new ones.   *)
(***************************************************************************)
EXTENDS PaymentIdempotency, RateLimit

allVars == <<vars, gate>>

RequestsInit == Init /\ GateInit

(* Only an admitted request reaches the handler.                           *)
Handle(r, k, b) ==
  /\ call[r].step = "admitted"
  /\ Arrive(r, k, b)

RequestsNext ==
  \/ GateNext /\ UNCHANGED vars
  \/ /\ \E r \in Requests :
          \/ \E k \in Keys, b \in Bodies : Handle(r, k, b)
          \/ Create(r) \/ Fail(r)
     /\ UNCHANGED gate

RequestsSpec == RequestsInit /\ [][RequestsNext]_allVars
=============================================================================
