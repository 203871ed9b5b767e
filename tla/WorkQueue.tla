------------------------------ MODULE WorkQueue ------------------------------
(***************************************************************************)
(* What the outbox promises: the work of an event that was handed over is  *)
(* performed at least once before the event counts as done, an event that  *)
(* is done or dropped stays so, and every event becomes one of the two.    *)
(* Work may be repeated, and may still be performed after a drop.          *)
(***************************************************************************)
CONSTANT Events

VARIABLES
  fate,       \* "absent", "open", "done" or "dropped"
  performed   \* the events whose work was performed

queue == <<fate, performed>>

Init ==
  /\ fate = [e \in Events |-> "absent"]
  /\ performed = {}

HandOver(e) ==
  /\ fate[e] = "absent"
  /\ fate' = [fate EXCEPT ![e] = "open"]
  /\ UNCHANGED performed

Perform(e) ==
  /\ fate[e] # "absent"
  /\ performed' = performed \cup {e}
  /\ UNCHANGED fate

(* The last piece of the work may be performed with the completion. *)
Finish(e) ==
  /\ fate[e] = "open"
  /\ fate' = [fate EXCEPT ![e] = "done"]
  /\ performed' = performed \cup {e}

(* A recovery gives up all exhausted events at once. *)
Drop ==
  /\ \E dropped \in SUBSET {e \in Events : fate[e] = "open"} :
       fate' = [e \in Events |-> IF e \in dropped THEN "dropped" ELSE fate[e]]
  /\ UNCHANGED performed

Next ==
  \/ \E e \in Events : HandOver(e) \/ Perform(e) \/ Finish(e)
  \/ Drop

Ends(e) ==
  \/ Finish(e)
  \/ Drop /\ fate[e] = "open" /\ fate'[e] = "dropped"

SafeSpec == Init /\ [][Next]_queue
Spec == SafeSpec /\ \A e \in Events : WF_queue(Ends(e))
=============================================================================
