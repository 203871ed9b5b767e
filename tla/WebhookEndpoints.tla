-------------------------- MODULE WebhookEndpoints ---------------------------
(***************************************************************************)
(* The endpoints a merchant subscribes with and the deliveries that the    *)
(* outbox handler materializes for them.  The API reads an endpoint and    *)
(* then changes, disables or deletes it; the handler reads the active      *)
(* endpoints and then inserts a delivery for each.  Neither locks, so only *)
(* the foreign key of a delivery keeps its endpoint.                       *)
(***************************************************************************)
CONSTANTS
  Endpoints,   \* MerchantWebhookEndpoint rows of one merchant
  Events,      \* OutboxEvent rows
  Tests,       \* those of type WEBHOOK_TEST
  Callers,     \* concurrent API requests
  Handlers,    \* concurrent handlers of outbox events
  None         \* the null value

ASSUME EndpointsAssumption ==
  /\ Tests \subseteq Events
  /\ None \notin Endpoints \cup Events

VARIABLES
  endpoint,    \* "absent", "active", "disabled" or "deleted"
  deliveries,  \* the WebhookDelivery rows, pairs of an event and an endpoint
  event,       \* "absent", "open", or "handled" once materialize has returned
  subscribed,  \* the endpoints active since the event was appended
  eligible,    \* the endpoints active at some time since then
  request,     \* what an API request is about to do, and to which endpoint
  handling     \* the event of a handler and the endpoints it has read

rows    == <<endpoint, deliveries, event>>
history == <<subscribed, eligible>>
vars    == <<rows, history, request, handling>>

Operation == {"none", "found", "disable", "delete", "test"}
NoRequest == [op |-> "none", endpoint |-> None]
NotHandling == [event |-> None, read |-> {}]

Active == {p \in Endpoints : endpoint[p] = "active"}
DeliveriesTo(p) == {d \in deliveries : d[2] = p}

TypeOK ==
  /\ endpoint \in [Endpoints -> {"absent", "active", "disabled", "deleted"}]
  /\ deliveries \subseteq Events \X Endpoints
  /\ event \in [Events -> {"absent", "open", "handled"}]
  /\ subscribed \in [Events -> SUBSET Endpoints]
  /\ eligible \in [Events -> SUBSET Endpoints]
  /\ request \in [Callers -> [op : Operation, endpoint : Endpoints \cup {None}]]
  /\ \A c \in Callers : request[c].op # "none" => request[c].endpoint \in Endpoints
  /\ handling \in [Handlers -> [event : Events \cup {None}, read : SUBSET Endpoints]]
  /\ \A d \in deliveries : event[d[1]] # "absent"

Init ==
  /\ endpoint = [p \in Endpoints |-> "absent"]
  /\ deliveries = {}
  /\ event = [e \in Events |-> "absent"]
  /\ subscribed = [e \in Events |-> {}]
  /\ eligible = [e \in Events |-> {}]
  /\ request = [c \in Callers |-> NoRequest]
  /\ handling = [h \in Handlers |-> NotHandling]

(* An endpoint that becomes active is eligible for the open events, one     *)
(* that ceases to be active is subscribed to none.                          *)
SetEndpoint(p, state) ==
  /\ endpoint' = [endpoint EXCEPT ![p] = state]
  /\ IF state = "active"
     THEN /\ eligible' = [e \in Events |->
                IF event[e] = "absent" THEN {} ELSE eligible[e] \cup {p}]
          /\ UNCHANGED subscribed
     ELSE /\ subscribed' = [e \in Events |-> subscribed[e] \ {p}]
          /\ UNCHANGED eligible

AppendEvent(e) ==
  /\ event[e] = "absent"
  /\ event' = [event EXCEPT ![e] = "open"]
  /\ subscribed' = [subscribed EXCEPT ![e] = Active]
  /\ eligible' = [eligible EXCEPT ![e] = Active]

-----------------------------------------------------------------------------
(* The API. *)

CreateEndpoint(p) ==
  /\ endpoint[p] = "absent"
  /\ SetEndpoint(p, "active")
  /\ UNCHANGED <<deliveries, event, request, handling>>

(* scopedEndpoint: the endpoint exists when the request reads it. *)
ScopedEndpoint(c, p) ==
  /\ request[c] = NoRequest
  /\ endpoint[p] \in {"active", "disabled"}
  /\ \E op \in {"found"} \cup (IF endpoint[p] = "active" THEN {"test"} ELSE {}) :
       request' = [request EXCEPT ![c] = [op |-> op, endpoint |-> p]]
  /\ UNCHANGED <<rows, history, handling>>

Done(c) == request' = [request EXCEPT ![c] = NoRequest]

(* update: an update by id, of a row that must still exist. *)
UpdateEndpoint(c) ==
  LET p == request[c].endpoint IN
  /\ request[c].op = "found"
  /\ endpoint[p] \in {"active", "disabled"}
  /\ \E state \in {"active", "disabled"} : SetEndpoint(p, state)
  /\ Done(c)
  /\ UNCHANGED <<deliveries, event, handling>>

(* remove: what to do is decided by the count. *)
CountDeliveries(c) ==
  LET p == request[c].endpoint IN
  /\ request[c].op = "found"
  /\ request' = [request EXCEPT ![c].op = IF DeliveriesTo(p) # {} THEN "disable" ELSE "delete"]
  /\ UNCHANGED <<rows, history, handling>>

DisableEndpoint(c) ==
  LET p == request[c].endpoint IN
  /\ request[c].op = "disable"
  /\ endpoint[p] \in {"active", "disabled"}
  /\ SetEndpoint(p, "disabled")
  /\ Done(c)
  /\ UNCHANGED <<deliveries, event, handling>>

(* The foreign key refuses the deletion if a delivery was inserted since.   *)
DeleteEndpoint(c) ==
  LET p == request[c].endpoint IN
  /\ request[c].op = "delete"
  /\ endpoint[p] \in {"active", "disabled"}
  /\ DeliveriesTo(p) = {}
  /\ SetEndpoint(p, "deleted")
  /\ Done(c)
  /\ UNCHANGED <<deliveries, event, handling>>

(* enqueueTest: event and delivery in one transaction. *)
EnqueueTest(c, e) ==
  LET p == request[c].endpoint IN
  /\ e \in Tests
  /\ request[c].op = "test"
  /\ endpoint[p] \in {"active", "disabled"}
  /\ AppendEvent(e)
  /\ deliveries' = deliveries \cup {<<e, p>>}
  /\ Done(c)
  /\ UNCHANGED <<endpoint, handling>>

(* A request that fails, or whose process dies, has changed nothing yet. *)
RequestFails(c) ==
  /\ request[c] # NoRequest
  /\ Done(c)
  /\ UNCHANGED <<rows, history, handling>>

-----------------------------------------------------------------------------
(* The outbox. *)

(* A payment transaction appends a lifecycle event. *)
AppendPaymentEvent(e) ==
  /\ e \notin Tests
  /\ AppendEvent(e)
  /\ UNCHANGED <<endpoint, deliveries, request, handling>>

(* An event is handled at least once, and perhaps by several at a time. *)
ReadEndpoints(h, e) ==
  /\ handling[h] = NotHandling
  /\ event[e] # "absent" /\ e \notin Tests
  /\ handling' = [handling EXCEPT ![h] = [event |-> e, read |-> Active]]
  /\ UNCHANGED <<rows, history, request>>

(* Mutation: a refused insertion is swallowed. *)
InsertDeliveries_Swallows(h) ==
  LET e == handling[h].event
      new == {e} \X handling[h].read
  IN
  /\ e # None
  /\ event' = [event EXCEPT ![e] = "handled"]
  /\ deliveries' = IF \A p \in handling[h].read : endpoint[p] \in {"active", "disabled"}
                   THEN deliveries \cup new ELSE deliveries
  /\ handling' = [handling EXCEPT ![h] = NotHandling]
  /\ UNCHANGED <<endpoint, history, request>>

(* createMany skips the deliveries that exist and inserts all others, or    *)
(* none if an endpoint was deleted since it was read.                       *)
InsertDeliveries(h) ==
  LET e == handling[h].event IN
  /\ e # None
  /\ \A p \in handling[h].read : endpoint[p] \in {"active", "disabled"}
  /\ deliveries' = deliveries \cup ({e} \X handling[h].read)
  /\ event' = [event EXCEPT ![e] = "handled"]
  /\ handling' = [handling EXCEPT ![h] = NotHandling]
  /\ UNCHANGED <<endpoint, history, request>>

(* A test event has its delivery: its handler finds it and returns. *)
HandleTest(e) ==
  /\ e \in Tests
  /\ event[e] = "open"
  /\ event' = [event EXCEPT ![e] = "handled"]
  /\ UNCHANGED <<endpoint, deliveries, history, request, handling>>

HandlerFails(h) ==
  /\ handling[h] # NotHandling
  /\ handling' = [handling EXCEPT ![h] = NotHandling]
  /\ UNCHANGED <<rows, history, request>>

-----------------------------------------------------------------------------
Api(c) ==
  \/ \E p \in Endpoints : ScopedEndpoint(c, p)
  \/ UpdateEndpoint(c) \/ CountDeliveries(c) \/ DisableEndpoint(c)
  \/ DeleteEndpoint(c) \/ RequestFails(c)
  \/ \E e \in Events : EnqueueTest(c, e)

Materialize(h) ==
  \/ \E e \in Events : ReadEndpoints(h, e)
  \/ InsertDeliveries(h) \/ HandlerFails(h)

Next ==
  \/ \E p \in Endpoints : CreateEndpoint(p)
  \/ \E c \in Callers : Api(c)
  \/ \E e \in Events : AppendPaymentEvent(e) \/ HandleTest(e)
  \/ \E h \in Handlers : Materialize(h)

Spec == Init /\ [][Next]_vars

-----------------------------------------------------------------------------
(* Properties. *)

(* A delivery always finds its endpoint, although remove() counts first and *)
(* deletes later, and the handler inserts for endpoints it read before: the *)
(* processor's findUniqueOrThrow never throws.                              *)
DeliveriesHaveEndpoints == \A d \in deliveries :
  endpoint[d[2]] \in {"active", "disabled"}

(* An endpoint that was active all the time from an event to its handling   *)
(* has a delivery of the event, whatever happens to other endpoints between *)
(* the reading of endpoints and the insertion.                              *)
NothingMissed == \A e \in Events \ Tests :
  event[e] = "handled" => \A p \in subscribed[e] : <<e, p>> \in deliveries

(* Nothing is delivered to an endpoint that was at no time active since the *)
(* event.                                                                   *)
NothingUnsubscribed == \A d \in deliveries :
  d[1] \notin Tests => d[2] \in eligible[d[1]]

(* A test event has exactly one delivery, from the start.                   *)
TestsAreDelivered == \A e \in Tests :
  event[e] # "absent" => \E p \in Endpoints : {d \in deliveries : d[1] = e} = {<<e, p>>}
=============================================================================
