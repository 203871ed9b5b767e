---------------------------- MODULE KeyRegister ------------------------------
(***************************************************************************)
(* What an idempotency key promises: it is a register that is written once *)
(* and atomically.  The first request with a key writes it, every other is *)
(* answered by what was written: replayed or refused.  Any request may     *)
(* fail, its writing done or not.  A retry is a request of its own.        *)
(***************************************************************************)
CONSTANTS Keys, Requests, Prints, None

VARIABLES
  written,  \* written[k]: the fingerprint and the writer of key k, or None
  open,     \* open[r]: the key and the fingerprint that r asks for, or None
  reply     \* reply[r]: what r was told, or None

register == <<written, open, reply>>

Init ==
  /\ written = [k \in Keys |-> None]
  /\ open = [r \in Requests |-> None]
  /\ reply = [r \in Requests |-> None]

(* A request asks once. *)
Ask(r, k, f) ==
  /\ open[r] = None /\ reply[r] = None
  /\ open' = [open EXCEPT ![r] = [key |-> k, print |-> f]]
  /\ UNCHANGED <<written, reply>>

Told(r, answer) ==
  /\ open' = [open EXCEPT ![r] = None]
  /\ reply' = [reply EXCEPT ![r] = answer]

(* The key is written: r is told so, or the answer is lost. *)
Write(r) ==
  /\ open[r] # None
  /\ written[open[r].key] = None
  /\ written' = [written EXCEPT ![open[r].key] = [print |-> open[r].print, writer |-> r]]
  /\ Told(r, "created") \/ Told(r, "error")

Read(r) ==
  /\ open[r] # None
  /\ written[open[r].key] # None
  /\ Told(r, IF written[open[r].key].print = open[r].print THEN "replayed" ELSE "refused")
  /\ UNCHANGED written

Fail(r) ==
  /\ open[r] # None
  /\ Told(r, "error")
  /\ UNCHANGED written

Next == \E r \in Requests :
  \/ \E k \in Keys, f \in Prints : Ask(r, k, f)
  \/ Write(r) \/ Read(r) \/ Fail(r)

Spec == Init /\ [][Next]_register
=============================================================================
