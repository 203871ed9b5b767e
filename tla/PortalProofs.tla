----------------------------- MODULE PortalProofs -----------------------------
(***************************************************************************)
(* Theorems about the portal and the parts of the API behind its pages,    *)
(* for any rows, endpoints, events, merchants, payments and requests.      *)
(***************************************************************************)
EXTENDS Portal, SumTheorems, TLAPS

(* Whatever page is open, a step of the portal is one of each page or leaves *)
(* it alone, and each page begins as it is opened or as it was never opened. *)
LEMMA PortalInit ==
  Init_Portal => /\ ListOpened \/ ListsClosed
                 /\ WebhooksOpened \/ Init
                 /\ PageOpened /\ MerchantsBegin /\ MerchantsOpened
  BY DEF Init_Portal

LEMMA PortalStep ==
  [Next_Portal]_portalVars => /\ [ListNext]_listVars
                              /\ [PageNext]_<<vars, pageVars>>
                              /\ [MerchantsNext \/ OtherClients]_<<merchantVars, merchantPageVars>>
  BY DEF Next_Portal, portalVars

(* No page shows anything while none is open. *)
LEMMA NoPageStep ==
  [Next_Portal]_portalVars =>
    /\ page' = page
    /\ page = "none" => UNCHANGED reading
    /\ page # "none" => [MerchantsNext]_<<merchantVars, merchantPageVars>>
  BY DEF Next_Portal, portalVars, OtherClients, merchantPageVars, queries

-----------------------------------------------------------------------------
(* The endpoints behind the webhooks page. *)

LiveStates == {"active", "disabled"}

(* What a handler has read: its event exists and is not a test, and its     *)
(* endpoints lie between those subscribed all along and those eligible.     *)
HandlingInv == \A h \in Handlers : handling[h].event # None =>
  /\ handling[h].event \notin Tests
  /\ event[handling[h].event] # "absent"
  /\ subscribed[handling[h].event] \subseteq handling[h].read
  /\ handling[h].read \subseteq eligible[handling[h].event]

(* Of an event that exists, those subscribed are active and those active    *)
(* are eligible.                                                            *)
ActiveInv == \A e \in Events :
  /\ subscribed[e] \subseteq Active
  /\ event[e] # "absent" => Active \subseteq eligible[e]

EndpointInv ==
  /\ TypeOK
  /\ HandlingInv
  /\ ActiveInv
  /\ DeliveriesHaveEndpoints
  /\ NothingMissed
  /\ NothingUnsubscribed
  /\ TestsAreDelivered

LEMMA EndpointInit == Init => EndpointInv
  BY EndpointsAssumption
  DEF Init, EndpointInv, TypeOK, HandlingInv, ActiveInv, Active, Operation, NoRequest, NotHandling,
      DeliveriesHaveEndpoints, NothingMissed, NothingUnsubscribed, TestsAreDelivered

(* A step of a request that touches no row keeps the invariant. *)
LEMMA RequestOnly ==
  ASSUME EndpointInv, UNCHANGED <<rows, history, handling>>,
         request' \in [Callers -> [op : Operation, endpoint : Endpoints \cup {None}]],
         \A c \in Callers : request'[c].op # "none" => request'[c].endpoint \in Endpoints
  PROVE  EndpointInv'
  BY DEF EndpointInv, TypeOK, HandlingInv, ActiveInv, Active, rows, history,
         DeliveriesHaveEndpoints, NothingMissed, NothingUnsubscribed, TestsAreDelivered

LEMMA DoneTyped ==
  ASSUME TypeOK, NEW c \in Callers, Done(c)
  PROVE  /\ request' \in [Callers -> [op : Operation, endpoint : Endpoints \cup {None}]]
         /\ \A b \in Callers : request'[b].op # "none" => request'[b].endpoint \in Endpoints
<1>1. NoRequest \in [op : Operation, endpoint : Endpoints \cup {None}]
  BY DEF NoRequest, Operation
<1>2. request' = [request EXCEPT ![c] = NoRequest]
  BY DEF Done
<1>3. NoRequest.op = "none"
  BY DEF NoRequest
<1> QED BY <1>1, <1>2, <1>3 DEF TypeOK

(* An endpoint that becomes active or disabled keeps the invariant.         *)
LEMMA SetKeeps ==
  ASSUME EndpointInv, NEW p \in Endpoints, NEW state \in LiveStates, SetEndpoint(p, state),
         UNCHANGED <<deliveries, event, handling>>,
         request' \in [Callers -> [op : Operation, endpoint : Endpoints \cup {None}]],
         \A c \in Callers : request'[c].op # "none" => request'[c].endpoint \in Endpoints
  PROVE  EndpointInv'
<1> USE DEF EndpointInv, SetEndpoint, LiveStates
<1>1. endpoint' = [endpoint EXCEPT ![p] = state]
  OBVIOUS
<1>2. \A e \in Events : subscribed'[e] \subseteq subscribed[e] /\ subscribed'[e] \subseteq Active'
  BY <1>1 DEF TypeOK, Active, ActiveInv
<1>3. \A e \in Events : event[e] # "absent" => eligible[e] \subseteq eligible'[e]
  BY DEF TypeOK
<1>4. TypeOK'
  BY <1>1 DEF TypeOK
<1>a. ActiveInv'
  BY <1>1, <1>2 DEF ActiveInv, Active, TypeOK
<1>5. HandlingInv'
  BY <1>2, <1>3 DEF HandlingInv, TypeOK
<1>6. DeliveriesHaveEndpoints'
  BY <1>1 DEF DeliveriesHaveEndpoints, TypeOK
<1>7. NothingMissed'
  BY <1>2 DEF NothingMissed
<1>8. NothingUnsubscribed'
  BY <1>3 DEF NothingUnsubscribed, TypeOK
<1>9. TestsAreDelivered'
  BY DEF TestsAreDelivered
<1> QED BY <1>a, <1>4, <1>5, <1>6, <1>7, <1>8, <1>9

(* A deletion keeps it because no delivery and no subscription is left.     *)
LEMMA DeleteKeeps ==
  ASSUME EndpointInv, NEW c \in Callers, DeleteEndpoint(c)
  PROVE  EndpointInv'
<1> USE DEF EndpointInv
<1> DEFINE p == request[c].endpoint
<1>1. /\ p \in Endpoints
      /\ DeliveriesTo(p) = {}
      /\ endpoint' = [endpoint EXCEPT ![p] = "deleted"]
      /\ subscribed' = [e \in Events |-> subscribed[e] \ {p}]
      /\ UNCHANGED <<eligible, deliveries, event, handling>>
      /\ Done(c)
  BY DEF DeleteEndpoint, SetEndpoint, TypeOK
<1> HIDE DEF p
<1>2. TypeOK'
  BY <1>1, DoneTyped DEF TypeOK
<1>3. \A e \in Events : subscribed'[e] \subseteq subscribed[e] /\ subscribed'[e] \subseteq Active'
  BY <1>1 DEF TypeOK, Active, ActiveInv
<1>a. ActiveInv'
  BY <1>1, <1>3 DEF TypeOK, Active, ActiveInv
<1>4. HandlingInv'
  BY <1>1, <1>3 DEF HandlingInv, TypeOK
<1>5. DeliveriesHaveEndpoints'
  BY <1>1 DEF DeliveriesHaveEndpoints, DeliveriesTo, TypeOK
<1>6. NothingMissed'
  BY <1>1, <1>3 DEF NothingMissed
<1>7. NothingUnsubscribed' /\ TestsAreDelivered'
  BY <1>1 DEF NothingUnsubscribed, TestsAreDelivered
<1> QED BY <1>a, <1>2, <1>4, <1>5, <1>6, <1>7

(* An event that is appended has no delivery and no handler yet.            *)
LEMMA AppendKeeps ==
  ASSUME EndpointInv, NEW e \in Events, AppendEvent(e), UNCHANGED <<endpoint, handling>>,
         \/ e \notin Tests /\ deliveries' = deliveries
         \/ e \in Tests /\ \E p \in Endpoints :
              endpoint[p] \in LiveStates /\ deliveries' = deliveries \cup {<<e, p>>},
         request' \in [Callers -> [op : Operation, endpoint : Endpoints \cup {None}]],
         \A c \in Callers : request'[c].op # "none" => request'[c].endpoint \in Endpoints
  PROVE  EndpointInv'
<1> USE DEF EndpointInv, AppendEvent, LiveStates
<1>1. event[e] = "absent" /\ \A d \in deliveries : d[1] # e
  BY DEF TypeOK
<1>2. /\ event' = [event EXCEPT ![e] = "open"]
      /\ subscribed' = [subscribed EXCEPT ![e] = Active]
      /\ eligible' = [eligible EXCEPT ![e] = Active]
  OBVIOUS
<1>3. Active' = Active /\ Active \subseteq Endpoints
  BY DEF Active
<1>4. TypeOK'
  BY <1>2, <1>3 DEF TypeOK
<1>5. HandlingInv'
  BY <1>1, <1>2 DEF HandlingInv, TypeOK
<1>6. ActiveInv'
  BY <1>2, <1>3 DEF TypeOK, ActiveInv
<1>7. DeliveriesHaveEndpoints'
  BY DEF DeliveriesHaveEndpoints
<1>8. NothingMissed'
  BY <1>1, <1>2 DEF NothingMissed, TypeOK
<1>9. NothingUnsubscribed'
  BY <1>1, <1>2 DEF NothingUnsubscribed, TypeOK
<1>10. TestsAreDelivered'
  <2> SUFFICES ASSUME NEW f \in Tests, event'[f] # "absent"
               PROVE  \E p \in Endpoints : {d \in deliveries' : d[1] = f} = {<<f, p>>}
    BY DEF TestsAreDelivered
  <2> f \in Events
    BY EndpointsAssumption
  <2>1. CASE f = e
    BY <1>1, <2>1
  <2>2. CASE f # e
    <3>1. event[f] # "absent"
      BY <1>2, <2>2 DEF TypeOK
    <3>2. {d \in deliveries' : d[1] = f} = {d \in deliveries : d[1] = f}
      BY <2>2
    <3> QED BY <3>1, <3>2 DEF TestsAreDelivered
  <2> QED BY <2>1, <2>2
<1> QED BY <1>4, <1>5, <1>6, <1>7, <1>8, <1>9, <1>10

(* A handler inserts a delivery for each endpoint it has read.              *)
LEMMA InsertKeeps ==
  ASSUME EndpointInv, NEW h \in Handlers, InsertDeliveries(h)
  PROVE  EndpointInv'
<1> USE EndpointsAssumption DEF EndpointInv
<1> DEFINE e == handling[h].event  read == handling[h].read
<1>1. /\ e \in Events /\ read \subseteq Endpoints
      /\ \A p \in read : endpoint[p] \in {"active", "disabled"}
      /\ deliveries' = deliveries \cup ({e} \X read)
      /\ event' = [event EXCEPT ![e] = "handled"]
      /\ handling' = [handling EXCEPT ![h] = NotHandling]
      /\ UNCHANGED <<endpoint, history, request>>
  BY DEF InsertDeliveries, TypeOK
<1>2. /\ e \notin Tests /\ event[e] # "absent"
      /\ subscribed[e] \subseteq read /\ read \subseteq eligible[e]
  BY <1>1 DEF HandlingInv
<1> HIDE DEF e, read
<1>3. NotHandling \in [event : Events \cup {None}, read : SUBSET Endpoints]
      /\ NotHandling.event = None
  BY DEF NotHandling
<1>4. TypeOK'
  BY <1>1, <1>3 DEF TypeOK, history
<1>5. HandlingInv'
  BY <1>1, <1>3 DEF HandlingInv, TypeOK, history
<1>6. ActiveInv'
  BY <1>1, <1>2 DEF TypeOK, history, ActiveInv, Active
<1>7. DeliveriesHaveEndpoints'
  BY <1>1 DEF DeliveriesHaveEndpoints
<1>8. NothingMissed'
  BY <1>1, <1>2 DEF NothingMissed, TypeOK, history
<1>9. NothingUnsubscribed'
  BY <1>1, <1>2 DEF NothingUnsubscribed, history
<1>10. TestsAreDelivered'
  <2> SUFFICES ASSUME NEW f \in Tests, event'[f] # "absent"
               PROVE  \E p \in Endpoints : {d \in deliveries' : d[1] = f} = {<<f, p>>}
    BY DEF TestsAreDelivered
  <2>1. f # e /\ event[f] # "absent"
    BY <1>1, <1>2 DEF TypeOK
  <2>2. {d \in deliveries' : d[1] = f} = {d \in deliveries : d[1] = f}
    BY <1>1, <2>1
  <2> QED BY <2>1, <2>2 DEF TestsAreDelivered
<1> QED BY <1>4, <1>5, <1>6, <1>7, <1>8, <1>9, <1>10

LEMMA EndpointInductive == EndpointInv /\ [Next]_vars => EndpointInv'
<1> SUFFICES ASSUME EndpointInv, [Next]_vars PROVE EndpointInv'
  OBVIOUS
<1>t. TypeOK
  BY DEF EndpointInv
<1>r. /\ request \in [Callers -> [op : Operation, endpoint : Endpoints \cup {None}]]
      /\ \A c \in Callers : request[c].op # "none" => request[c].endpoint \in Endpoints
  BY <1>t DEF TypeOK
<1>1. CASE UNCHANGED vars
  BY <1>1, <1>r, RequestOnly DEF vars
<1>2. ASSUME NEW p \in Endpoints, CreateEndpoint(p) PROVE EndpointInv'
  BY <1>2, <1>r, SetKeeps DEF CreateEndpoint, LiveStates
<1>3. ASSUME NEW c \in Callers, NEW p \in Endpoints, ScopedEndpoint(c, p) PROVE EndpointInv'
  <2>1. PICK op \in {"found", "test"} : request' = [request EXCEPT ![c] = [op |-> op, endpoint |-> p]]
    BY <1>3 DEF ScopedEndpoint
  <2>2. [op |-> op, endpoint |-> p] \in [op : Operation, endpoint : Endpoints \cup {None}]
    BY DEF Operation
  <2> QED BY <1>3, <1>r, <2>1, <2>2, RequestOnly DEF ScopedEndpoint
<1>4. ASSUME NEW c \in Callers, UpdateEndpoint(c) PROVE EndpointInv'
  <2>1. request[c].endpoint \in Endpoints
    BY <1>4, <1>r DEF UpdateEndpoint
  <2> QED BY <1>4, <1>t, <2>1, DoneTyped, SetKeeps DEF UpdateEndpoint, LiveStates
<1>5. ASSUME NEW c \in Callers, CountDeliveries(c) PROVE EndpointInv'
  <2>1. \E op \in {"disable", "delete"} : request' = [request EXCEPT ![c].op = op]
    BY <1>5 DEF CountDeliveries
  <2>2. request[c].endpoint \in Endpoints
    BY <1>5, <1>r DEF CountDeliveries
  <2> QED BY <1>5, <1>r, <2>1, <2>2, RequestOnly DEF CountDeliveries, Operation
<1>6. ASSUME NEW c \in Callers, DisableEndpoint(c) PROVE EndpointInv'
  <2>1. request[c].endpoint \in Endpoints
    BY <1>6, <1>r DEF DisableEndpoint
  <2> QED BY <1>6, <1>t, <2>1, DoneTyped, SetKeeps DEF DisableEndpoint, LiveStates
<1>7. ASSUME NEW c \in Callers, DeleteEndpoint(c) PROVE EndpointInv'
  BY <1>7, DeleteKeeps
<1>8. ASSUME NEW c \in Callers, NEW e \in Events, EnqueueTest(c, e) PROVE EndpointInv'
  <2>1. request[c].endpoint \in Endpoints
    BY <1>8, <1>r DEF EnqueueTest
  <2> QED BY <1>8, <1>t, <2>1, DoneTyped, AppendKeeps DEF EnqueueTest, LiveStates
<1>9. ASSUME NEW c \in Callers, RequestFails(c) PROVE EndpointInv'
  BY <1>9, <1>t, DoneTyped, RequestOnly DEF RequestFails
<1>10. ASSUME NEW e \in Events, AppendPaymentEvent(e) PROVE EndpointInv'
  BY <1>10, <1>r, AppendKeeps DEF AppendPaymentEvent
<1>11. ASSUME NEW h \in Handlers, NEW e \in Events, ReadEndpoints(h, e) PROVE EndpointInv'
  BY <1>11 DEF ReadEndpoints, rows, history, EndpointInv, TypeOK, HandlingInv, ActiveInv, Active,
       DeliveriesHaveEndpoints, NothingMissed, NothingUnsubscribed, TestsAreDelivered
<1>12. ASSUME NEW h \in Handlers, InsertDeliveries(h) PROVE EndpointInv'
  BY <1>12, InsertKeeps
<1>13. ASSUME NEW e \in Events, HandleTest(e) PROVE EndpointInv'
  BY <1>13, EndpointsAssumption
  DEF HandleTest, history, EndpointInv, TypeOK, HandlingInv, ActiveInv, Active,
      DeliveriesHaveEndpoints, NothingMissed, NothingUnsubscribed, TestsAreDelivered
<1>14. ASSUME NEW h \in Handlers, HandlerFails(h) PROVE EndpointInv'
  BY <1>14 DEF HandlerFails, NotHandling, rows, history, EndpointInv, TypeOK, HandlingInv, ActiveInv, Active,
       DeliveriesHaveEndpoints, NothingMissed, NothingUnsubscribed, TestsAreDelivered
<1> QED BY <1>1, <1>2, <1>3, <1>4, <1>5, <1>6, <1>7, <1>8, <1>9, <1>10, <1>11, <1>12, <1>13,
           <1>14 DEF Next, Api, Materialize

(* The inductive invariant of rows and handlers. *)
THEOREM EndpointsConsistent == Spec => []EndpointInv
  BY EndpointInit, EndpointInductive, PTL DEF Spec

-----------------------------------------------------------------------------
(* Every reachable state of endpoints, events and deliveries is well typed. *)
THEOREM TypeCorrect == Spec => []TypeOK
<1>1. EndpointInv => TypeOK
  BY DEF EndpointInv
<1> QED BY <1>1, EndpointsConsistent, PTL

(* A delivery always finds its endpoint (remove against materialize).       *)
THEOREM DeliveriesKeepEndpoints == Spec => []DeliveriesHaveEndpoints
<1>1. EndpointInv => DeliveriesHaveEndpoints
  BY DEF EndpointInv
<1> QED BY <1>1, EndpointsConsistent, PTL

(* Who subscribed before an event and stayed has its delivery (materialize).*)
THEOREM SubscribersAreServed == Spec => []NothingMissed
<1>1. EndpointInv => NothingMissed
  BY DEF EndpointInv
<1> QED BY <1>1, EndpointsConsistent, PTL

(* Nothing goes to an endpoint that was at no time active since the event.  *)
THEOREM OnlySubscribersAreServed == Spec => []NothingUnsubscribed
<1>1. EndpointInv => NothingUnsubscribed
  BY DEF EndpointInv
<1> QED BY <1>1, EndpointsConsistent, PTL

(* A test event has exactly one delivery from the start (enqueueTest).      *)
THEOREM TestsKeepDelivery == Spec => []TestsAreDelivered
<1>1. EndpointInv => TestsAreDelivered
  BY DEF EndpointInv
<1> QED BY <1>1, EndpointsConsistent, PTL

-----------------------------------------------------------------------------
(* The webhooks page. *)

Questions == [what : {"none", "test", "active", "disabled", "remove", "create"},
              endpoint : Endpoints \cup {None},
              stage : {"none", "sent", "answered", "failed", "refreshing", "refreshed",
                       "given up"},
              list : Selections]

AskedInv ==
  /\ selection \in Selections
  /\ asked \in [Callers -> Questions]
  /\ \A c \in Callers : asked[c].what # "none" => asked[c].endpoint \in Endpoints
  /\ \A c \in Callers : asked[c].stage # "none" => asked[c].what # "none"

(* An endpoint whose removal is waiting for its answer is in flight.       *)
RemovalInv ==
  /\ AskedInv
  /\ \A c \in Callers : Removing(c) => asked[c].endpoint \in deleteInFlight
  /\ DeletedOnceAtATime

LEMMA EverythingSelected == Everything \in Selections
  BY WebhooksPageAssumption DEF Everything, Selections

LEMMA NothingAsked == Nothing \in Questions /\ Nothing.what = "none" /\ Nothing.stage = "none"
  BY EverythingSelected DEF Nothing, Questions

LEMMA RemovalInit == PageOpened => RemovalInv
  BY NothingAsked, EverythingSelected DEF PageOpened, RemovalInv, AskedInv, Removing, DeletedOnceAtATime

LEMMA RemovalSame ==
  ASSUME RemovalInv, UNCHANGED <<asked, deleteInFlight>>, selection' \in Selections
  PROVE  RemovalInv'
  BY DEF RemovalInv, AskedInv, Removing, DeletedOnceAtATime

(* A request that is not a removal, or one of an endpoint not in flight. *)
LEMMA AskKeeps ==
  ASSUME RemovalInv, NEW c \in Callers, NEW p \in Endpoints,
         NEW what \in {"test", "active", "disabled", "remove", "create"}, Ask(c, what, p),
         \/ what # "remove" /\ deleteInFlight' = deleteInFlight
         \/ p \notin deleteInFlight /\ deleteInFlight' = deleteInFlight \cup {p}
  PROVE  RemovalInv'
<1> DEFINE q == [what |-> what, endpoint |-> p, stage |-> "sent", list |-> Everything]
<1>1. q \in Questions /\ q.what = what /\ q.endpoint = p /\ q.stage = "sent"
  BY EverythingSelected DEF Questions
<1>2. /\ asked' \in [Callers -> Questions]
      /\ asked'[c] = q
      /\ \A d \in Callers \ {c} : asked'[d] = asked[d]
      /\ selection' = selection
  BY <1>1 DEF Ask, RemovalInv, AskedInv
<1> HIDE DEF q
<1>3. AskedInv'
  BY <1>1, <1>2 DEF RemovalInv, AskedInv
<1>4. /\ \A d \in Callers \ {c} : Removing(d)' <=> Removing(d)
      /\ Removing(c)' <=> what = "remove"
  BY <1>1, <1>2 DEF Removing
<1>5. CASE what # "remove"
  <2>1. \A d \in Callers : Removing(d)' =>
          d # c /\ Removing(d) /\ asked'[d] = asked[d]
    BY <1>2, <1>4, <1>5
  <2> QED BY <1>3, <1>5, <2>1 DEF RemovalInv, DeletedOnceAtATime
<1>6. CASE what = "remove"
  <2>1. p \notin deleteInFlight /\ deleteInFlight' = deleteInFlight \cup {p}
    BY <1>6
  <2>2. \A d \in Callers \ {c} : Removing(d)' => Removing(d) /\ asked'[d] = asked[d]
    BY <1>1, <1>2, <1>4
  <2>3. \A d \in Callers \ {c} : Removing(d)' =>
          asked'[d].endpoint \in deleteInFlight /\ asked'[d].endpoint # p
    BY <2>1, <2>2 DEF RemovalInv
  <2> QED BY <1>1, <1>2, <1>3, <2>1, <2>2, <2>3 DEF RemovalInv, DeletedOnceAtATime
<1> QED BY <1>5, <1>6

(* The end of a request, whatever it asked. *)
LEMMA ToldKeeps ==
  ASSUME RemovalInv, NEW c \in Callers,
         asked' = [asked EXCEPT ![c] = Nothing]
           \/ asked' = [asked EXCEPT ![c] = [@ EXCEPT !.stage = "given up"]],
         deleteInFlight' = IF asked[c].what = "remove"
                           THEN deleteInFlight \ {asked[c].endpoint} ELSE deleteInFlight,
         asked[c].stage \notin {"none", "given up"}, UNCHANGED selection
  PROVE  RemovalInv'
<1>0. asked[c] \in Questions /\ [asked[c] EXCEPT !.stage = "given up"] \in Questions
      /\ [asked[c] EXCEPT !.stage = "given up"].stage = "given up"
      /\ [asked[c] EXCEPT !.stage = "given up"].what = asked[c].what
      /\ [asked[c] EXCEPT !.stage = "given up"].endpoint = asked[c].endpoint
  BY DEF RemovalInv, AskedInv, Questions
<1>1. /\ asked' \in [Callers -> Questions]
      /\ \A d \in Callers \ {c} : asked'[d] = asked[d]
      /\ \/ asked'[c] = Nothing
         \/ /\ asked'[c].stage = "given up" /\ asked'[c].what = asked[c].what
            /\ asked'[c].endpoint = asked[c].endpoint
  BY <1>0, NothingAsked DEF RemovalInv, AskedInv
<1>2. asked[c].what # "none" /\ (asked[c].what = "remove" => Removing(c))
  BY DEF RemovalInv, AskedInv, Removing
<1>3. ~Removing(c)'
  BY <1>1, NothingAsked DEF Removing
<1>4. AskedInv'
  BY <1>1, <1>2, NothingAsked DEF RemovalInv, AskedInv
<1>5. \A d \in Callers \ {c} : Removing(d)' <=> Removing(d)
  BY <1>1 DEF Removing
<1>6. \A d \in Callers : Removing(d)' =>
        d # c /\ Removing(d) /\ asked'[d] = asked[d] /\ asked[d].endpoint \in deleteInFlight
  BY <1>1, <1>3, <1>5 DEF RemovalInv
<1>7. \A d \in Callers : Removing(d)' => asked[d].endpoint \in deleteInFlight'
  <2>1. CASE asked[c].what = "remove"
    BY <1>2, <1>6, <2>1 DEF RemovalInv, DeletedOnceAtATime
  <2>2. CASE asked[c].what # "remove"
    BY <1>6, <2>2
  <2> QED BY <2>1, <2>2
<1> QED BY <1>4, <1>6, <1>7 DEF RemovalInv, DeletedOnceAtATime

(* The API's answer to a request. *)
LEMMA EndsKeeps ==
  ASSUME RemovalInv, NEW c \in Callers, UnderWay(c), NEW stage \in {"answered", "failed"},
         Ends(c, stage), UNCHANGED <<deleteInFlight, selection>>
  PROVE  RemovalInv'
<1>1. asked[c] \in Questions /\ asked[c].what # "none"
  BY DEF RemovalInv, AskedInv, UnderWay
<1>2. [asked[c] EXCEPT !.stage = stage] \in Questions
      /\ [asked[c] EXCEPT !.stage = stage].what = asked[c].what
      /\ [asked[c] EXCEPT !.stage = stage].endpoint = asked[c].endpoint
  BY <1>1 DEF Questions
<1>3. /\ asked' \in [Callers -> Questions]
      /\ \A d \in Callers \ {c} : asked'[d] = asked[d]
      /\ \/ asked'[c] = Nothing
         \/ /\ asked[c].stage # "given up"
            /\ asked'[c].what = asked[c].what /\ asked'[c].endpoint = asked[c].endpoint
  BY <1>1, <1>2, NothingAsked DEF Ends, RemovalInv, AskedInv
<1>4. ASSUME NEW d \in Callers
      PROVE  Removing(d)' => Removing(d) /\ asked'[d].what = asked[d].what
                             /\ asked'[d].endpoint = asked[d].endpoint
  BY <1>3, NothingAsked DEF Removing
<1>5. AskedInv'
  BY <1>1, <1>3, NothingAsked DEF RemovalInv, AskedInv
<1> QED BY <1>4, <1>5 DEF RemovalInv, DeletedOnceAtATime

(* A change of the page, whose list is read again. *)
LEMMA SucceededKeeps ==
  ASSUME RemovalInv, NEW c \in Callers, Succeeded(c)
  PROVE  RemovalInv'
<1>1. \A d \in Callers : asked[d] \in Questions
  BY DEF RemovalInv, AskedInv
<1>2. ASSUME NEW q \in Questions
      PROVE  /\ [q EXCEPT !.stage = "refreshed"] \in Questions
             /\ [q EXCEPT !.stage = "refreshed"].what = q.what
             /\ [q EXCEPT !.stage = "refreshed"].endpoint = q.endpoint
             /\ [q EXCEPT !.stage = "refreshing", !.list = selection] \in Questions
             /\ [q EXCEPT !.stage = "refreshing", !.list = selection].what = q.what
             /\ [q EXCEPT !.stage = "refreshing", !.list = selection].endpoint = q.endpoint
  BY DEF Questions, RemovalInv, AskedInv
<1>3. ASSUME NEW d \in Callers
      PROVE  /\ asked'[d] \in Questions
             /\ \/ asked'[d] = Nothing
                \/ asked'[d] = asked[d]
                \/ /\ asked[d].stage \in {"answered", "refreshing"}
                   /\ asked'[d].what = asked[d].what /\ asked'[d].endpoint = asked[d].endpoint
  <2> DEFINE q == asked[d]
  <2>1. q \in Questions
    BY <1>1
  <2>2. asked'[d] = IF d # c THEN Refreshing(d)
                    ELSE IF q.what = "remove"
                    THEN [q EXCEPT !.stage = "refreshing", !.list = selection] ELSE Nothing
    BY DEF Succeeded
  <2>3. Refreshing(d) = IF q.stage = "refreshing" /\ Dropped(q.list)
                        THEN [q EXCEPT !.stage = "refreshed"] ELSE q
    BY DEF Refreshing
  <2>4. d = c => q.stage = "answered"
    BY DEF Succeeded
  <2> HIDE DEF q
  <2>5. /\ asked'[d] \in Questions
        /\ \/ asked'[d] = Nothing
           \/ asked'[d] = q
           \/ /\ q.stage \in {"answered", "refreshing"}
              /\ asked'[d].what = q.what /\ asked'[d].endpoint = q.endpoint
    <3>1. CASE d = c /\ q.what = "remove"
      BY <1>2, <2>1, <2>2, <2>4, <3>1
    <3>2. CASE d = c /\ q.what # "remove"
      BY <2>2, <3>2, NothingAsked
    <3>3. CASE d # c /\ q.stage = "refreshing" /\ Dropped(q.list)
      <4>1. asked'[d] = [q EXCEPT !.stage = "refreshed"]
        BY <2>2, <2>3, <3>3
      <4> QED BY <1>2, <2>1, <3>3, <4>1
    <3>4. CASE d # c /\ ~(q.stage = "refreshing" /\ Dropped(q.list))
      BY <2>1, <2>2, <2>3, <3>4
    <3> QED BY <3>1, <3>2, <3>3, <3>4
  <2> QED BY <2>5 DEF q
<1>4. asked' \in [Callers -> Questions]
  BY <1>3 DEF Succeeded
<1>5. \A d \in Callers : Removing(d)' => Removing(d) /\ asked'[d].endpoint = asked[d].endpoint
  BY <1>3, NothingAsked DEF Removing
<1>7. deleteInFlight' = deleteInFlight /\ selection' = selection
  BY DEF Succeeded, removals
<1>6. AskedInv'
  BY <1>3, <1>4, <1>7, NothingAsked DEF RemovalInv, AskedInv
<1> QED BY <1>5, <1>6, <1>7 DEF RemovalInv, DeletedOnceAtATime

-----------------------------------------------------------------------------
LEMMA RemovalStep == RemovalInv /\ [PageNext]_<<vars, pageVars>> => RemovalInv'
<1> SUFFICES ASSUME RemovalInv, [PageNext]_<<vars, pageVars>> PROVE RemovalInv'
  OBVIOUS
<1>s. selection \in Selections
  BY DEF RemovalInv, AskedInv
<1>1. CASE UNCHANGED <<vars, pageVars>>
  BY <1>1, <1>s, RemovalSame DEF pageVars, removals
<1>2. CASE RetryList \/ \E k \in Selections : ReadList(k) \/ ListAnswered(k) \/ ListFails(k) \/ Select(k)
  BY <1>2, <1>s, RemovalSame DEF ReadList, ListAnswered, ListFails, RetryList, Select, removals
<1>3. ASSUME NEW c \in Callers, NEW p \in Endpoints,
             AskTest(c, p) \/ AskToggle(c, p) \/ removeEndpoint(c, p) \/ AskCreate(c, p)
      PROVE  RemovalInv'
  <2>1. CASE AskTest(c, p)
    BY <2>1, AskKeeps DEF AskTest, removals
  <2>2. CASE AskToggle(c, p)
    <3>1. CASE known[selection][p] = "active"
      BY <2>2, <3>1, AskKeeps DEF AskToggle, removals
    <3>2. CASE known[selection][p] # "active"
      BY <2>2, <3>2, AskKeeps DEF AskToggle, removals
    <3> QED BY <3>1, <3>2
  <2>3. CASE removeEndpoint(c, p)
    BY <2>3, AskKeeps DEF removeEndpoint
  <2>4. CASE AskCreate(c, p)
    BY <2>4, AskKeeps DEF AskCreate, removals
  <2> QED BY <1>3, <2>1, <2>2, <2>3, <2>4
<1>4. ASSUME NEW c \in Callers,
             Succeeded(c) \/ RemovalEnds(c) \/ ToldOfRefusal(c) \/ TimesOut(c)
      PROVE  RemovalInv'
  <2>1. CASE Succeeded(c)
    BY <2>1, SucceededKeeps
  <2>2. CASE RemovalEnds(c)
    BY <2>2, ToldKeeps DEF RemovalEnds, Told
  <2>3. CASE ToldOfRefusal(c)
    BY <2>3, ToldKeeps DEF ToldOfRefusal, Told
  <2>4. CASE TimesOut(c)
    <3>1. CASE asked[c].stage = "sent"
      BY <2>4, <3>1, ToldKeeps DEF TimesOut
    <3>2. CASE asked[c].stage = "answered"
      BY <2>4, <3>2, ToldKeeps DEF TimesOut
    <3> QED BY <2>4, <3>1, <3>2 DEF TimesOut
  <2> QED BY <1>4, <2>1, <2>2, <2>3, <2>4
<1>5. ASSUME NEW c \in Callers, UnderWay(c), Proceeds(c) \/ Commits(c) \/ ApiFails(c)
      PROVE  RemovalInv'
  <2>1. CASE Proceeds(c)
    BY <2>1, <1>s, RemovalSame DEF Proceeds, pageVars, removals
  <2>2. CASE Commits(c)
    BY <1>5, <2>2, EndsKeeps DEF Commits, removals
  <2>3. CASE ApiFails(c)
    BY <1>5, <2>3, EndsKeeps DEF ApiFails, removals
  <2> QED BY <1>5, <2>1, <2>2, <2>3
<1>6. CASE UNCHANGED <<selection, asked, removals>>
  BY <1>6, <1>s, RemovalSame DEF removals
<1> QED BY <1>1, <1>2, <1>3, <1>4, <1>5, <1>6
     DEF PageNext, WebhooksPageSteps, Backend, pageVars

(* The page never has two removals of an endpoint waiting for an answer:   *)
(* what removeEndpoint of the webhooks page keeps by deleteInFlight.       *)
THEOREM RemovedOnce == PortalSpec => []DeletedOnceAtATime
<1>1. RemovalInv => DeletedOnceAtATime
  BY DEF RemovalInv
<1> QED BY <1>1, PortalInit, PortalStep, RemovalInit, RemovalStep, PTL DEF PortalSpec

-----------------------------------------------------------------------------
(* Every step of the page and its API is one of WebhookEndpoints, or leaves *)
(* the endpoints alone.                                                     *)
LEMMA PageRefines == RemovalInv /\ [PageNext]_<<vars, pageVars>> => [Next]_vars
<1> SUFFICES ASSUME RemovalInv, [PageNext]_<<vars, pageVars>> PROVE [Next]_vars
  OBVIOUS
<1>1. CASE \/ UNCHANGED <<vars, pageVars>> \/ RetryList
           \/ \E k \in Selections : ReadList(k) \/ ListAnswered(k) \/ ListFails(k) \/ Select(k)
  BY <1>1 DEF ReadList, ListAnswered, ListFails, RetryList, Select
<1>2. ASSUME NEW c \in Callers, NEW p \in Endpoints,
             AskTest(c, p) \/ AskToggle(c, p) \/ removeEndpoint(c, p) \/ AskCreate(c, p)
      PROVE  UNCHANGED vars
  BY <1>2 DEF AskTest, AskToggle, removeEndpoint, AskCreate, Ask
<1>3. ASSUME NEW c \in Callers,
             Succeeded(c) \/ RemovalEnds(c) \/ ToldOfRefusal(c) \/ TimesOut(c)
      PROVE  UNCHANGED vars
  BY <1>3 DEF Succeeded, RemovalEnds, ToldOfRefusal, TimesOut
<1>4. ASSUME NEW c \in Callers, UnderWay(c), Proceeds(c) \/ Commits(c) \/ ApiFails(c)
      PROVE  [Next]_vars
  <2>1. asked[c].endpoint \in Endpoints
    BY <1>4 DEF RemovalInv, AskedInv, UnderWay
  <2>2. CASE Proceeds(c)
    BY <2>1, <2>2 DEF Proceeds, Next, Api
  <2>3. CASE Commits(c)
    BY <2>1, <2>3 DEF Commits, Next, Api
  <2>4. CASE ApiFails(c)
    BY <2>4 DEF ApiFails, Next, Api
  <2> QED BY <1>4, <2>2, <2>3, <2>4
<1>5. CASE \/ \E e \in Events : AppendPaymentEvent(e) \/ HandleTest(e)
           \/ \E h \in Handlers : Materialize(h)
  BY <1>5 DEF Next
<1> QED BY <1>1, <1>2, <1>3, <1>4, <1>5 DEF PageNext, WebhooksPageSteps, Backend

LEMMA OpenedInv == WebhooksOpened => EndpointInv
  BY EndpointsAssumption
  DEF WebhooksOpened, EndpointInv, TypeOK, HandlingInv, ActiveInv, Active, Operation, NoRequest,
      NotHandling, DeliveriesHaveEndpoints, NothingMissed, NothingUnsubscribed, TestsAreDelivered

(* What a merchant subscribes to, changes and removes on the page never     *)
(* costs a delivery: an endpoint active from an event to its handling has   *)
(* one, also when it was there before the page was opened.                  *)
THEOREM PageMissesNothing == PortalSpec => []NothingMissed
<1> DEFINE Both == EndpointInv /\ RemovalInv
<1>1. Init_Portal => Both
  BY PortalInit, OpenedInv, EndpointInit, RemovalInit
<1>2. Both /\ [PageNext]_<<vars, pageVars>> => Both'
  BY RemovalStep, PageRefines, EndpointInductive
<1>3. Both => NothingMissed
  BY DEF EndpointInv
<1> QED BY <1>1, <1>2, <1>3, PortalStep, PTL DEF PortalSpec

-----------------------------------------------------------------------------
(* A list that was read is what the server has unless a write is about to   *)
(* be answered, after which it is to be read again, or it was overtaken;    *)
(* and the list on the page is being read if it has to be.                  *)
Telling == \E c \in Callers : asked[c].stage = "answered"

QuietOf(k) == k \notin behind /\ ~Telling =>
  /\ fetch[k] = Idle /\ HasList(k) /\ k \notin invalidated => known[k] = Listed(k)
  /\ fetch[k].stage = "read" => fetch[k].list = Listed(k)

QuietInv ==
  /\ known = [k \in Selections |-> known[k]] /\ fetch = [k \in Selections |-> fetch[k]]
  /\ \A k \in Selections : QuietOf(k)
  /\ \A k \in Selections : fetch[k].stage = "read" => fetch[k].list # Unread
  /\ ~HasList(selection) \/ selection \in invalidated
       => fetch[selection] # Idle \/ selection \in failed

LEMMA StagesDiffer == /\ Idle.stage = "none" /\ ListSent.stage = "sent" /\ Idle # ListSent
                      /\ \A l : [stage |-> "read", list |-> l].stage = "read"
                                /\ [stage |-> "read", list |-> l].list = l
  BY DEF Idle, ListSent

LEMMA ReadIsNotUnread == ASSUME TypeOK, NEW k \in Selections PROVE Listed(k) # Unread
<1>1. PICK p \in Endpoints : TRUE
  BY WebhooksPageAssumption
<1>2. endpoint[p] # "unread"
  BY DEF TypeOK
<1>3. Listed(k)[p] # Unread[p]
  BY <1>2 DEF Listed, Unread
<1> QED BY <1>3

LEMMA QuietInit == PageOpened => QuietInv
  BY StagesDiffer, EverythingSelected DEF PageOpened, QuietInv, QuietOf, HasList

(* A step that leaves the endpoints alone and answers no request. *)
LEMMA QuietSame ==
  ASSUME QuietInv, UNCHANGED <<endpoint, selection, lists>>, Telling => Telling'
  PROVE  QuietInv'
<1>1. UNCHANGED <<known, fetch, invalidated, failed, behind>>
  BY DEF lists
<1>2. \A k \in Selections : Listed(k)' = Listed(k)
  BY DEF Listed
<1>3. ASSUME NEW k \in Selections PROVE QuietOf(k)'
  <2>1. QuietOf(k)
    BY DEF QuietInv
  <2> QED BY <1>1, <1>2, <2>1 DEF QuietOf, HasList
<1> QED BY <1>1, <1>3 DEF QuietInv, HasList

(* A request that is not answered, or no longer, keeps the others' answers. *)
LEMMA TellingKept ==
  ASSUME AskedInv, NEW c \in Callers, asked[c].stage # "answered", NEW q,
         asked' = [asked EXCEPT ![c] = q]
  PROVE  Telling => Telling'
<1>1. \A d \in Callers \ {c} : asked'[d] = asked[d]
  BY DEF AskedInv
<1> QED BY <1>1 DEF Telling

(* A step of one list, which is read, answered, failing or selected. *)
LEMMA QuietListStep ==
  ASSUME TypeOK, AskedInv, QuietInv, NEW k \in Selections,
         ReadList(k) \/ ListAnswered(k) \/ ListFails(k) \/ Select(k)
  PROVE  QuietInv'
<1>0. /\ UNCHANGED <<endpoint, asked>> /\ selection \in Selections
      /\ \A j \in Selections : Listed(j)' = Listed(j)
      /\ Telling' <=> Telling
  BY DEF ReadList, ListAnswered, ListFails, Select, vars, rows, Listed, AskedInv, Telling
<1>1. \A j \in Selections : QuietOf(j)
  BY DEF QuietInv
<1>2. CASE ReadList(k)
  <2>1. /\ fetch' = [fetch EXCEPT ![k] = [stage |-> "read", list |-> Listed(k)]]
        /\ behind' = behind \ {k}
        /\ UNCHANGED <<selection, known, invalidated, failed>>
    BY <1>2 DEF ReadList
  <2>2. /\ fetch'[k].stage = "read" /\ fetch'[k].list = Listed(k) /\ fetch'[k] # Idle
        /\ \A j \in Selections \ {k} : fetch'[j] = fetch[j]
    BY <2>1, StagesDiffer DEF QuietInv
  <2>3. \A j \in Selections : QuietOf(j)'
    BY <1>0, <1>1, <2>1, <2>2 DEF QuietOf, HasList
  <2>4. \A j \in Selections : fetch'[j].stage = "read" => fetch'[j].list # Unread'
    BY <2>2, ReadIsNotUnread DEF QuietInv, Unread
  <2> QED BY <1>0, <2>1, <2>2, <2>3, <2>4 DEF QuietInv, HasList
<1>3. CASE ListAnswered(k)
  <2>1. /\ known' = [known EXCEPT ![k] = fetch[k].list]
        /\ fetch' = [fetch EXCEPT ![k] = Idle]
        /\ invalidated' = invalidated \ {k} /\ failed' = failed \ {k}
        /\ fetch[k].stage = "read"
        /\ UNCHANGED <<selection, behind>>
    BY <1>3 DEF ListAnswered
  <2>2. /\ known'[k] = fetch[k].list /\ fetch'[k].stage # "read"
        /\ \A j \in Selections \ {k} : fetch'[j] = fetch[j] /\ known'[j] = known[j]
    BY <2>1, StagesDiffer DEF QuietInv
  <2>3. ASSUME NEW j \in Selections PROVE QuietOf(j)'
    <3>1. CASE j = k
      BY <1>0, <1>1, <2>1, <2>2, <3>1 DEF QuietOf
    <3>2. CASE j # k
      BY <1>0, <1>1, <2>1, <2>2, <3>2 DEF QuietOf, HasList
    <3> QED BY <3>1, <3>2
  <2>4. /\ known' = [j \in Selections |-> known'[j]] /\ fetch' = [j \in Selections |-> fetch'[j]]
        /\ \A j \in Selections : fetch'[j].stage = "read" => fetch'[j].list # Unread'
    BY <2>1, <2>2 DEF QuietInv, Unread
  <2>5. ~HasList(selection)' \/ selection' \in invalidated'
          => fetch'[selection'] # Idle \/ selection' \in failed'
    <3>1. CASE selection = k
      BY <2>1, <2>2, <3>1 DEF QuietInv, HasList, Unread
    <3>2. CASE selection # k
      BY <1>0, <2>1, <2>2, <3>2 DEF QuietInv, HasList, Unread
    <3> QED BY <3>1, <3>2
  <2> QED BY <2>3, <2>4, <2>5 DEF QuietInv, Idle, Unread
<1>4. CASE ListFails(k)
  <2>1. /\ UNCHANGED <<selection, known, behind>>
        /\ \/ fetch' = [fetch EXCEPT ![k] = ListSent] /\ UNCHANGED <<invalidated, failed>>
           \/ /\ fetch' = [fetch EXCEPT ![k] = Idle]
              /\ invalidated' = invalidated \cup {k} /\ failed' = failed \cup {k}
    BY <1>4 DEF ListFails
  <2>2. /\ \A j \in Selections \ {k} : fetch'[j] = fetch[j]
        /\ fetch'[k] = ListSent \/ (fetch'[k] = Idle /\ k \in invalidated' /\ k \in failed')
        /\ invalidated \subseteq invalidated' /\ failed \subseteq failed'
        /\ invalidated' \subseteq invalidated \cup {k}
        /\ fetch' = [j \in Selections |-> fetch'[j]]
    BY <2>1 DEF QuietInv
  <2>3. \A j \in Selections : QuietOf(j)'
    BY <1>0, <1>1, <2>1, <2>2, StagesDiffer DEF QuietOf, HasList
  <2> QED BY <1>0, <2>1, <2>2, <2>3, StagesDiffer DEF QuietInv, HasList
<1>5. CASE Select(k)
  <2>1. /\ UNCHANGED <<known, invalidated, failed, behind>> /\ selection' = k
        /\ \/ fetch' = [fetch EXCEPT ![k] = IF @ = Idle THEN ListSent ELSE @]
           \/ HasList(k) /\ k \notin invalidated /\ fetch' = fetch
    BY <1>5 DEF Select
  <2>2. /\ \A j \in Selections \ {k} : fetch'[j] = fetch[j]
        /\ fetch'[k] \in {fetch[k], ListSent}
        /\ fetch'[k] # Idle \/ (HasList(k) /\ k \notin invalidated)
        /\ fetch' = [j \in Selections |-> fetch'[j]]
    BY <2>1, StagesDiffer DEF QuietInv
  <2>3. \A j \in Selections : QuietOf(j)'
    BY <1>0, <1>1, <2>1, <2>2, StagesDiffer DEF QuietOf, HasList
  <2>4. \A j \in Selections : fetch'[j].stage = "read" => fetch'[j].list # Unread'
    BY <2>2, StagesDiffer DEF QuietInv, Unread
  <2>5. ~HasList(selection)' \/ selection' \in invalidated'
          => fetch'[selection'] # Idle \/ selection' \in failed'
    BY <2>1, <2>2 DEF HasList, Unread
  <2> QED BY <2>1, <2>2, <2>3, <2>4, <2>5 DEF QuietInv, Idle, Unread
<1> QED BY <1>2, <1>3, <1>4, <1>5

LEMMA QuietPageStep ==
  ASSUME TypeOK, AskedInv, QuietInv, WebhooksPageSteps
  PROVE  QuietInv'
<1>0. endpoint' = endpoint
  BY DEF WebhooksPageSteps, ReadList, ListAnswered, ListFails, RetryList, Select, AskTest,
         AskToggle, removeEndpoint, AskCreate, Ask, Succeeded, RemovalEnds, ToldOfRefusal,
         TimesOut, vars, rows
<1>1. ASSUME NEW k \in Selections,
             ReadList(k) \/ ListAnswered(k) \/ ListFails(k) \/ Select(k)
      PROVE  QuietInv'
  BY <1>1, QuietListStep
<1>3. CASE RetryList
  <2>1. /\ fetch' = [fetch EXCEPT ![selection] = ListSent] /\ selection \in Selections
        /\ UNCHANGED <<selection, known, invalidated, failed, behind, asked>>
    BY <1>3 DEF RetryList, AskedInv
  <2>2. /\ \A j \in Selections \ {selection} : fetch'[j] = fetch[j]
        /\ fetch'[selection] = ListSent /\ fetch' = [j \in Selections |-> fetch'[j]]
    BY <2>1 DEF QuietInv
  <2>3. \A j \in Selections : Listed(j)' = Listed(j) /\ QuietOf(j)
    BY <1>0 DEF Listed, QuietInv
  <2>4. \A j \in Selections : QuietOf(j)'
    BY <2>1, <2>2, <2>3, StagesDiffer DEF QuietOf, HasList, Telling
  <2> QED BY <2>1, <2>2, <2>4, StagesDiffer DEF QuietInv, HasList
<1>4. ASSUME NEW c \in Callers, NEW p \in Endpoints,
             AskTest(c, p) \/ AskToggle(c, p) \/ removeEndpoint(c, p) \/ AskCreate(c, p)
      PROVE  QuietInv'
  <2>1. PICK what : Ask(c, what, p)
    BY <1>4 DEF AskTest, AskToggle, removeEndpoint, AskCreate
  <2>2. asked[c].stage # "answered"
    BY <2>1 DEF Ask, Nothing
  <2> QED BY <1>0, <2>1, <2>2, TellingKept, QuietSame DEF Ask
<1>5. ASSUME NEW c \in Callers, Succeeded(c) PROVE QuietInv'
  <2>1. /\ selection \in Selections
        /\ UNCHANGED <<selection, known, failed>>
        /\ invalidated' = Selections
        /\ fetch' = [fetch EXCEPT ![selection] =
                       IF @ = Idle \/ Dropped(selection) THEN ListSent ELSE @]
        /\ behind' = behind \cup {k \in Selections : fetch[k].stage = "read" /\ ~Dropped(k)}
    BY <1>5 DEF Succeeded, refresh, AskedInv
  <2>2. /\ \A j \in Selections \ {selection} : fetch'[j] = fetch[j]
        /\ fetch'[selection] \in {fetch[selection], ListSent}
        /\ fetch'[selection] # Idle
        /\ Dropped(selection) => fetch'[selection] = ListSent
        /\ fetch' = [j \in Selections |-> fetch'[j]]
    BY <2>1, StagesDiffer DEF QuietInv
  <2>3. ASSUME NEW j \in Selections, j \notin behind' PROVE fetch'[j].stage # "read"
    BY <2>1, <2>2, <2>3, StagesDiffer DEF Dropped
  <2>4. \A j \in Selections : QuietOf(j)'
    BY <2>1, <2>3 DEF QuietOf
  <2>5. \A j \in Selections : fetch'[j].stage = "read" => fetch'[j].list # Unread'
    BY <2>1, <2>2, StagesDiffer DEF QuietInv, Unread
  <2> QED BY <2>1, <2>2, <2>4, <2>5 DEF QuietInv, Idle
<1>6. ASSUME NEW c \in Callers, RemovalEnds(c) \/ ToldOfRefusal(c) PROVE QuietInv'
  <2>1. asked' = [asked EXCEPT ![c] = Nothing] /\ asked[c].stage # "answered"
    BY <1>6 DEF RemovalEnds, ToldOfRefusal, Told
  <2> QED BY <1>0, <1>6, <2>1, TellingKept, QuietSame DEF RemovalEnds, ToldOfRefusal
<1>7. ASSUME NEW c \in Callers, TimesOut(c) PROVE QuietInv'
  <2>0. UNCHANGED <<selection, known, fetch, invalidated, failed>>
    BY <1>7 DEF TimesOut
  <2>1. CASE asked[c].stage = "answered"
    <3>1. behind' = Selections
      BY <1>7, <2>1 DEF TimesOut
    <3> QED BY <2>0, <3>1 DEF QuietInv, QuietOf, HasList
  <2>2. CASE asked[c].stage # "answered"
    <3>1. PICK q : asked' = [asked EXCEPT ![c] = q]
      BY <1>7 DEF TimesOut
    <3>2. behind' = behind
      BY <1>7, <2>2 DEF TimesOut
    <3> QED BY <1>0, <2>0, <2>2, <3>1, <3>2, TellingKept, QuietSame DEF lists
  <2> QED BY <2>1, <2>2
<1> QED BY <1>1, <1>3, <1>4, <1>5, <1>6, <1>7 DEF WebhooksPageSteps

LEMMA QuietBackend ==
  ASSUME AskedInv, QuietInv, Backend
  PROVE  QuietInv'
<1>1. ASSUME NEW c \in Callers, UnderWay(c), Proceeds(c) PROVE QuietInv'
  BY <1>1, QuietSame DEF Proceeds, ScopedEndpoint, CountDeliveries, rows, pageVars, Telling
<1>2. ASSUME NEW c \in Callers, UnderWay(c), Commits(c) PROVE QuietInv'
  <2>0. UNCHANGED <<selection, known, fetch, invalidated, failed>>
    BY <1>2 DEF Commits
  <2>1. CASE asked[c].stage = "given up"
    <3>1. behind' = Selections
      BY <1>2, <2>1 DEF Commits
    <3> QED BY <2>0, <3>1 DEF QuietInv, QuietOf, HasList
  <2>2. CASE asked[c].stage = "sent"
    <3>1. asked'[c].stage = "answered"
      BY <1>2, <2>2 DEF Commits, Ends, AskedInv, Questions
    <3> QED BY <2>0, <3>1 DEF QuietInv, QuietOf, Telling, HasList
  <2> QED BY <1>2, <2>1, <2>2 DEF UnderWay
<1>3. ASSUME NEW c \in Callers, UnderWay(c), ApiFails(c) PROVE QuietInv'
  <2>1. PICK q : asked' = [asked EXCEPT ![c] = q]
    BY <1>3 DEF ApiFails, Ends
  <2>2. endpoint' = endpoint
    BY <1>3 DEF ApiFails, RequestFails, vars, rows
  <2> QED BY <1>3, <2>1, <2>2, TellingKept, QuietSame DEF ApiFails, UnderWay
<1>4. ASSUME NEW e \in Events, AppendPaymentEvent(e) \/ HandleTest(e),
             UNCHANGED <<selection, lists, asked>>
      PROVE  QuietInv'
  BY <1>4, QuietSame DEF AppendPaymentEvent, HandleTest, Telling
<1>5. ASSUME NEW h \in Handlers, Materialize(h), UNCHANGED pageVars
      PROVE  QuietInv'
  BY <1>5, QuietSame
  DEF Materialize, ReadEndpoints, InsertDeliveries, HandlerFails, rows, pageVars, Telling
<1> QED BY <1>1, <1>2, <1>3, <1>4, <1>5 DEF Backend, pageVars

(* Once nothing is under way the list on the page is the server's, in      *)
(* whatever order requests and reads were answered, unless it was overtaken *)
(* (invalidateQueries after each answer, one query for each selection).     *)
THEOREM QuietPageHolds == PortalSpec => []QuietPageIsCurrent
<1> DEFINE Both == EndpointInv /\ RemovalInv /\ QuietInv
<1>1. Init_Portal => Both
  BY PortalInit, OpenedInv, EndpointInit, RemovalInit, QuietInit
<1>2. Both /\ [PageNext]_<<vars, pageVars>> => Both'
  <2>1. UNCHANGED <<vars, pageVars>> /\ QuietInv => QuietInv'
    BY QuietSame DEF vars, rows, pageVars, Telling
  <2>2. EndpointInv /\ RemovalInv /\ [PageNext]_<<vars, pageVars>> => EndpointInv'
    BY PageRefines, EndpointInductive
  <2>3. EndpointInv /\ RemovalInv => TypeOK /\ AskedInv
    BY DEF EndpointInv, RemovalInv
  <2> QED BY <2>1, <2>2, <2>3, RemovalStep, QuietPageStep, QuietBackend DEF PageNext
<1>3. Both => QuietPageIsCurrent
  BY NothingAsked DEF RemovalInv, AskedInv, QuietInv, QuietOf, QuietPageIsCurrent, Telling
<1> QED BY <1>1, <1>2, <1>3, PortalStep, PTL DEF PortalSpec

-----------------------------------------------------------------------------
(* The merchants page and the API behind it. *)

PaymentState == {"absent", "RECEIVED", "VALIDATED", "VALIDATION_FAILED"}

TypeInv ==
  /\ status \in [Merchants -> MerchantStatus \cup {"absent"}]
  /\ payment \in [Payments -> [of : Merchants \cup {NoMerchant}, status : PaymentState]]
  /\ checking \in [Validators ->
                     [payment : Payments \cup {NoMerchant}, passes : BOOLEAN]]
  /\ \A p \in Payments : payment[p].status # "absent" => payment[p].of \in Merchants
  /\ \A v \in Validators : checking[v] # NotChecking =>
       /\ checking[v].payment \in Payments
       /\ payment[checking[v].payment].status # "absent"

(* A payment whose merchant is active is among those whose merchant was;   *)
(* so is one that a validator has let pass.                                *)
SuspensionInv ==
  /\ TypeInv
  /\ \A p \in Payments :
       /\ payment[p].status # "absent"
       /\ status[payment[p].of] = "ACTIVE"
       => p \in wasActive
  /\ \A v \in Validators : checking[v].passes => checking[v].payment \in wasActive
  /\ SuspensionStops

LEMMA SuspensionInit == MerchantsBegin => SuspensionInv
<1> SUFFICES ASSUME MerchantsBegin PROVE SuspensionInv
  OBVIOUS
<1>1. /\ status = [m \in Merchants |-> IF m = Existing THEN "ACTIVE" ELSE "absent"]
      /\ payment = [p \in Payments |-> [of |-> NoMerchant, status |-> "absent"]]
      /\ checking = [v \in Validators |-> NotChecking]
  BY DEF MerchantsBegin
<1>2. NotChecking \in [payment : Payments \cup {NoMerchant}, passes : BOOLEAN]
      /\ ~NotChecking.passes
  BY DEF NotChecking
<1>3. status \in [Merchants -> MerchantStatus \cup {"absent"}]
  BY <1>1 DEF MerchantStatus
<1>4. \A p \in Payments : payment[p].status = "absent" /\ payment[p].of = NoMerchant
  BY <1>1
<1>5. payment \in [Payments -> [of : Merchants \cup {NoMerchant}, status : PaymentState]]
  BY <1>1 DEF PaymentState
<1> QED BY <1>1, <1>2, <1>3, <1>4, <1>5 DEF SuspensionInv, TypeInv, SuspensionStops

(* A step that changes neither statuses nor payments. *)
LEMMA SuspensionSame ==
  ASSUME SuspensionInv, UNCHANGED <<status, paymentRows, wasActive>>
  PROVE  SuspensionInv'
  BY DEF SuspensionInv, TypeInv, SuspensionStops, paymentRows

LEMMA StatusKeeps ==
  ASSUME SuspensionInv, NEW m \in Merchants, NEW s \in MerchantStatus,
         SetStatus(m, s), UNCHANGED paymentRows
  PROVE  SuspensionInv'
<1>1. /\ payment' = payment /\ checking' = checking
      /\ status' = [status EXCEPT ![m] = s]
      /\ wasActive \subseteq wasActive'
      /\ s = "ACTIVE" => \A p \in Payments : payment[p].of = m => p \in wasActive'
  BY DEF SetStatus, paymentRows
<1>2. TypeInv'
  BY <1>1 DEF SuspensionInv, TypeInv, NotChecking
<1>3. ASSUME NEW p \in Payments, payment'[p].status # "absent",
             status'[payment'[p].of] = "ACTIVE"
      PROVE  p \in wasActive'
  BY <1>1, <1>3 DEF SuspensionInv, TypeInv
<1> QED BY <1>1, <1>2, <1>3 DEF SuspensionInv, SuspensionStops

LEMMA CreationKeeps ==
  ASSUME SuspensionInv, NEW p \in Payments, NEW m \in Merchants, NEW k,
         CreatePayment(p, m, k)
  PROVE  SuspensionInv'
<1>1. /\ payment' = [payment EXCEPT ![p] = [of |-> m, status |-> "RECEIVED"]]
      /\ wasActive' = IF status[m] = "ACTIVE" THEN wasActive \cup {p} ELSE wasActive
      /\ status' = status /\ checking' = checking
  BY DEF CreatePayment, merchantRows
<1>2. TypeInv'
  BY <1>1 DEF SuspensionInv, TypeInv, PaymentState, NotChecking
<1> QED BY <1>1, <1>2 DEF SuspensionInv, TypeInv, SuspensionStops

LEMMA ReadingKeeps ==
  ASSUME SuspensionInv, NEW v \in Validators, NEW p \in Payments,
         ReadForValidation(v, p)
  PROVE  SuspensionInv'
<1>1. /\ checking' = [checking EXCEPT ![v] =
            [payment |-> p, passes |-> status[payment[p].of] = "ACTIVE"]]
      /\ payment[p].status # "absent"
      /\ UNCHANGED <<status, payment, wasActive>>
  BY DEF ReadForValidation, merchantRows
<1>2. TypeInv'
  BY <1>1 DEF SuspensionInv, TypeInv, NotChecking
<1> QED BY <1>1, <1>2 DEF SuspensionInv, TypeInv, SuspensionStops

LEMMA VerdictKeeps ==
  ASSUME SuspensionInv, NEW v \in Validators, CommitValidation(v) \/ ValidationFails(v)
  PROVE  SuspensionInv'
<1> DEFINE p == checking[v].payment
<1>1. /\ p \in Payments
      /\ checking' = [checking EXCEPT ![v] = NotChecking]
      /\ UNCHANGED <<status, wasActive>>
  BY DEF CommitValidation, ValidationFails, SuspensionInv, TypeInv, merchantRows
<1>2. NotChecking \in [payment : Payments \cup {NoMerchant}, passes : BOOLEAN]
      /\ ~NotChecking.passes
  BY DEF NotChecking
<1>3. PICK new \in {"VALIDATED", "VALIDATION_FAILED"} :
        /\ new = "VALIDATED" => checking[v].passes
        /\ payment' \in {payment, [payment EXCEPT ![p].status = new]}
  BY DEF CommitValidation, ValidationFails
<1>4. /\ payment' \in [Payments -> [of : Merchants \cup {NoMerchant}, status : PaymentState]]
      /\ \A q \in Payments : payment'[q].of = payment[q].of
      /\ \A q \in Payments : \/ payment'[q].status = payment[q].status
                             \/ q = p /\ payment'[q].status = new
  <2> DEFINE PaymentRow == [of : Merchants \cup {NoMerchant}, status : PaymentState]
  <2>1. payment \in [Payments -> PaymentRow] /\ new \in PaymentState
    BY DEF SuspensionInv, TypeInv, PaymentState
  <2>2. \A q \in Payments : payment[q] \in PaymentRow
    BY <2>1
  <2>3. CASE payment' = payment
    BY <2>1, <2>3
  <2>4. CASE payment' = [payment EXCEPT ![p].status = new]
    <3>1. [payment[p] EXCEPT !.status = new] \in PaymentRow
      BY <1>1, <2>1, <2>2
    <3>2. \A q \in Payments :
            payment'[q] = IF q = p THEN [payment[p] EXCEPT !.status = new] ELSE payment[q]
      BY <2>1, <2>4
    <3>3. payment' \in [Payments -> PaymentRow]
      BY <2>1, <2>4, <3>1
    <3> QED BY <1>1, <2>2, <3>2, <3>3
  <2> QED BY <1>3, <2>3, <2>4
<1>5. /\ checking' \in [Validators -> [payment : Payments \cup {NoMerchant}, passes : BOOLEAN]]
      /\ ~checking'[v].passes /\ checking'[v] = NotChecking
      /\ \A u \in Validators \ {v} : checking'[u] = checking[u]
  BY <1>1, <1>2 DEF SuspensionInv, TypeInv
<1>6. payment[p].status # "absent" /\ new # "absent"
  BY DEF CommitValidation, ValidationFails, SuspensionInv, TypeInv
<1>7. TypeInv'
  <2>1. \A q \in Payments : payment'[q].status # "absent" => payment[q].status # "absent"
    BY <1>4, <1>6
  <2>2. \A q \in Payments : payment[q].status # "absent" => payment'[q].status # "absent"
    BY <1>4, <1>6
  <2>3. \A q \in Payments : payment'[q].status # "absent" => payment'[q].of \in Merchants
    BY <1>4, <2>1 DEF SuspensionInv, TypeInv
  <2>4. \A u \in Validators : checking'[u] # NotChecking =>
          /\ checking'[u].payment \in Payments
          /\ payment'[checking'[u].payment].status # "absent"
    BY <1>5, <2>2 DEF SuspensionInv, TypeInv
  <2> QED BY <1>1, <1>4, <1>5, <2>3, <2>4 DEF SuspensionInv, TypeInv
<1> QED BY <1>1, <1>3, <1>4, <1>5, <1>6, <1>7 DEF SuspensionInv, TypeInv, SuspensionStops

(* What the administrators' API does, to whichever merchant. *)
LEMMA AdminKeeps ==
  ASSUME SuspensionInv, NEW m,
         \/ \E s \in Statuses : create(m, s) \/ updateStatus(m, s)
         \/ rotate(m) \/ provisionDemoFunding(m)
  PROVE  SuspensionInv'
<1>1. CASE UNCHANGED <<status, paymentRows, wasActive>>
  BY <1>1, SuspensionSame
<1>2. CASE \E s \in Statuses : create(m, s) \/ updateStatus(m, s)
  <2>1. PICK s \in Statuses : SetStatus(m, s) /\ UNCHANGED paymentRows
    BY <1>2 DEF create, updateStatus
  <2>2. s \in MerchantStatus
    BY MerchantsAssumption
  <2>3. CASE m \in Merchants
    BY <2>1, <2>2, <2>3, StatusKeeps
  <2>4. CASE m \notin Merchants
    <3>1. status' = status
      BY <2>1, <2>4 DEF SetStatus, SuspensionInv, TypeInv
    <3>2. wasActive \subseteq wasActive' /\ payment' = payment /\ checking' = checking
      BY <2>1 DEF SetStatus, paymentRows
    <3> QED BY <3>1, <3>2 DEF SuspensionInv, TypeInv, SuspensionStops
  <2> QED BY <2>3, <2>4
<1>3. rotate(m) \/ provisionDemoFunding(m)
        => UNCHANGED <<status, paymentRows, wasActive>>
  BY DEF rotate, provisionDemoFunding
<1> QED BY <1>1, <1>2, <1>3

LEMMA SuspensionStep ==
  ASSUME SuspensionInv, MerchantsNext \/ OtherClients
  PROVE  SuspensionInv'
<1>1. CASE MerchantsPageSteps
  BY <1>1, SuspensionSame
  DEF MerchantsPageSteps, ReadMerchants, MerchantsAnswered, MerchantsUnavailable, RetryMerchants,
      submit, rotateKey, AskFunding, AskStatus, Request, OpenDrawer, OpenForm, close,
      MerchantCreated, DemoFundingEnds, Changed, merchantVars, merchantRows
<1>2. ASSUME NEW c \in Slots, Executes(c) PROVE SuspensionInv'
  BY <1>2, AdminKeeps DEF Executes
<1>3. ASSUME NEW c \in Slots,
             Refuses(c) \/ TimesOutUndone(c) \/ TimesOutDone(c) \/ NeverArrives(c)
      PROVE  SuspensionInv'
  BY <1>3, SuspensionSame
  DEF Refuses, TimesOutUndone, TimesOutDone, NeverArrives, merchantVars, merchantRows
<1>4. CASE OtherClients
  BY <1>4, AdminKeeps, CreationKeeps, ReadingKeeps, VerdictKeeps DEF OtherClients, AdminNext
<1> QED BY <1>1, <1>2, <1>3, <1>4 DEF MerchantsNext, MerchantsApi

(* A merchant that is not active since before a payment was created never  *)
(* sees it validated, however its requests, its administrators and the two *)
(* validators interleave (VAL and engine validate read the status first).  *)
THEOREM SuspensionHolds == PortalSpec => []SuspensionStops
<1>1. SuspensionInv /\ UNCHANGED <<merchantVars, merchantPageVars>> => SuspensionInv'
  BY SuspensionSame DEF merchantVars, merchantRows
<1>2. SuspensionInv => SuspensionStops
  BY DEF SuspensionInv
<1> QED BY <1>1, <1>2, PortalInit, PortalStep, SuspensionInit, SuspensionStep, PTL DEF PortalSpec

-----------------------------------------------------------------------------
(* Keys.  A key that was generated is in the answer under way until it is  *)
(* kept to be shown, told or lost; only an answer holds one.               *)

Doings == {d \in [what : {"none", "create", "demo", "rotate", "fund"} \cup MerchantStatus,
                  merchant : Merchants \cup {NoMerchant},
                  stage : {"none", "sent", "answered", "given up"}, key : Nat,
                  heard : BOOLEAN] :
             /\ d.what # "none" => d.merchant \in Merchants
             /\ d.stage # "none" => d.what # "none"}

KeyInv ==
  /\ hashed \in [Merchants -> Nat] /\ issued \in Nat
  /\ doing \in [Slots -> Doings]
  /\ secret \in [Places -> Nat]
  /\ \A c \in Slots : doing[c].key # 0 =>
       doing[c].stage = "answered" /\ doing[c].what \in {"create", "rotate"}
  /\ WorkingKeyIsTold

LEMMA NewKeyIs == newKey.returned = issued + 1 /\ newKey.stored = issued + 1
  BY DEF newKey

LEMMA NothingDone == NoDoing \in Doings /\ NoDoing.key = 0 /\ NoDoing.stage = "none"
  BY DEF NoDoing, Doings

LEMMA KeyInit == MerchantsBegin /\ MerchantsOpened => KeyInv
<1> SUFFICES ASSUME MerchantsBegin, MerchantsOpened PROVE KeyInv
  OBVIOUS
<1>1. PICK k \in {0, 1} : hashed = [m \in Merchants |-> IF m = Existing THEN k ELSE 0]
  BY DEF MerchantsBegin
<1>2. hashed \in [Merchants -> Nat] /\ \A m \in Merchants : hashed[m] \in {0, 1}
  BY <1>1
<1>3. /\ issued = 1 /\ told = {1} /\ doing = [c \in Slots |-> NoDoing]
      /\ secret \in [Places -> Nat]
  BY DEF MerchantsBegin, MerchantsOpened
<1> QED BY <1>2, <1>3, NothingDone DEF KeyInv, WorkingKeyIsTold

(* No step that leaves the stored keys alone forgets one. *)
LEMMA KeysKeep ==
  ASSUME KeyInv, UNCHANGED <<hashed, issued>>,
         told \subseteq told', lost \subseteq lost',
         secret' \in [Places -> Nat], doing' \in [Slots -> Doings],
         \A c \in Slots : doing'[c].key # 0 =>
           doing'[c].stage = "answered" /\ doing'[c].what \in {"create", "rotate"},
         \A place \in Places : secret[place] \in {0, secret'[place]} \cup told' \cup lost',
         \A c \in Slots : \/ doing[c].key \in {0, doing'[c].key} \cup told' \cup lost'
                          \/ \E place \in Places : doing[c].key = secret'[place]
  PROVE  KeyInv'
<1>1. ASSUME NEW m \in Merchants
      PROVE  \/ hashed'[m] \in {0} \cup told' \cup lost'
             \/ \E place \in Places : hashed'[m] = secret'[place]
             \/ \E c \in Slots : hashed'[m] = doing'[c].key
  <2>1. \/ hashed[m] \in {0} \cup told \cup lost
        \/ \E place \in Places : hashed[m] = secret[place]
        \/ \E c \in Slots : hashed[m] = doing[c].key
    BY DEF KeyInv, WorkingKeyIsTold
  <2> QED BY <2>1
<1> QED BY <1>1 DEF KeyInv, WorkingKeyIsTold

LEMMA KeysSame ==
  ASSUME KeyInv, UNCHANGED <<hashed, issued, doing, secret>>,
         told \subseteq told', lost \subseteq lost'
  PROVE  KeyInv'
  BY DEF KeyInv, WorkingKeyIsTold

(* What a slot was doing ends, or it starts to do something. *)
LEMMA SlotKeeps ==
  ASSUME KeyInv, UNCHANGED <<hashed, issued>>, NEW c \in Slots, NEW d \in Doings,
         doing' = [doing EXCEPT ![c] = d], d.key = 0,
         told \subseteq told', lost \subseteq lost',
         secret' \in [Places -> Nat],
         \A place \in Places : secret[place] \in {0, secret'[place]} \cup told' \cup lost',
         \/ doing[c].key \in {0} \cup told' \cup lost'
         \/ \E place \in Places : doing[c].key = secret'[place]
  PROVE  KeyInv'
<1>1. /\ doing' \in [Slots -> Doings]
      /\ doing'[c] = d
      /\ \A e \in Slots \ {c} : doing'[e] = doing[e]
  BY DEF KeyInv
<1>2. \A e \in Slots : doing'[e].key # 0 =>
        doing'[e].stage = "answered" /\ doing'[e].what \in {"create", "rotate"}
  BY <1>1 DEF KeyInv
<1>3. \A e \in Slots : \/ doing[e].key \in {0, doing'[e].key} \cup told' \cup lost'
                       \/ \E place \in Places : doing[e].key = secret'[place]
  BY <1>1
<1> QED BY <1>1, <1>2, <1>3, KeysKeep

LEMMA SetSecretKeeps ==
  ASSUME KeyInv, NEW where \in Places, NEW key \in Nat, SetSecret(where, key)
  PROVE  /\ lost \subseteq lost'
         /\ secret' \in [Places -> Nat] /\ secret'[where] = key
         /\ \A place \in Places : secret[place] \in {0, secret'[place]} \cup told \cup lost'
  BY DEF KeyInv, SetSecret, Unseen

(* An answer is kept to be shown, or lost. *)
LEMMA DeliverKeeps ==
  ASSUME KeyInv, NEW c \in Slots, NEW where \in Places, Deliver(c, where)
  PROVE  /\ lost \subseteq lost'
         /\ secret' \in [Places -> Nat]
         /\ \A place \in Places : secret[place] \in {0, secret'[place]} \cup told \cup lost'
         /\ \/ doing[c].key \in {0} \cup told \cup lost'
            \/ \E place \in Places : doing[c].key = secret'[place]
<1>1. doing[c].key \in Nat
  BY DEF KeyInv, Doings
<1>2. CASE doing[c].heard
  BY <1>1, <1>2, SetSecretKeeps DEF Deliver
<1>3. CASE ~doing[c].heard
  BY <1>1, <1>3 DEF Deliver, Unseen, KeyInv
<1> QED BY <1>2, <1>3

(* A key that is stored is in the answer of the slot, told or lost. *)
LEMMA StoredKeeps ==
  ASSUME KeyInv, NEW m, StoreKey(m), UNCHANGED secret,
         told \subseteq told', lost \subseteq lost',
         doing' \in [Slots -> Doings],
         \A c \in Slots : doing'[c].key # 0 =>
           doing'[c].stage = "answered" /\ doing'[c].what \in {"create", "rotate"},
         \A c \in Slots : doing[c].key \in {0, doing'[c].key},
         newKey.returned \in told' \cup lost' \cup {doing'[c].key : c \in Slots}
  PROVE  KeyInv'
<1>1. /\ hashed' = [hashed EXCEPT ![m] = issued + 1] /\ issued' = issued + 1
      /\ newKey.returned = issued + 1
  BY NewKeyIs DEF StoreKey
<1>2. /\ hashed' \in [Merchants -> Nat] /\ issued' \in Nat
      /\ \A n \in Merchants : hashed'[n] \in {hashed[n], issued + 1}
  <2>1. hashed \in [Merchants -> Nat] /\ issued \in Nat /\ issued + 1 \in Nat
    BY DEF KeyInv
  <2>2. PICK k \in Nat : k = issued + 1
    BY <2>1
  <2>3. hashed' = [hashed EXCEPT ![m] = k] /\ issued' = k
    BY <1>1, <2>2
  <2> QED BY <2>1, <2>2, <2>3
<1>3. ASSUME NEW n \in Merchants
      PROVE  \/ hashed'[n] \in {0} \cup told' \cup lost'
             \/ \E place \in Places : hashed'[n] = secret'[place]
             \/ \E c \in Slots : hashed'[n] = doing'[c].key
  <2>1. \/ hashed[n] \in {0} \cup told \cup lost
        \/ \E place \in Places : hashed[n] = secret[place]
        \/ \E c \in Slots : hashed[n] = doing[c].key
    BY DEF KeyInv, WorkingKeyIsTold
  <2>2. CASE hashed'[n] = issued + 1
    BY <1>1, <2>2
  <2>3. CASE hashed'[n] = hashed[n]
    BY <2>1, <2>3
  <2> QED BY <1>2, <2>2, <2>3
<1>4. WorkingKeyIsTold'
  BY <1>3 DEF WorkingKeyIsTold
<1>5. secret' \in [Places -> Nat]
  BY DEF KeyInv
<1> QED BY <1>2, <1>4, <1>5 DEF KeyInv

LEMMA ExecutesKeeps ==
  ASSUME KeyInv, NEW c \in Slots, Executes(c), told \subseteq told'
  PROVE  KeyInv'
<1> DEFINE m == doing[c].merchant
           what == doing[c].what
           key == IF what \in {"create", "rotate"} THEN newKey.returned ELSE 0
           answer == [doing[c] EXCEPT !.stage = "answered", !.key = key]
<1>1. /\ doing[c] \in Doings /\ doing[c].key = 0
      /\ doing[c].stage \in {"sent", "given up"}
  BY DEF KeyInv, Executes
<1>2. UNCHANGED secret /\ lost \subseteq lost'
  BY DEF Executes, screen
<1>3. key \in Nat
  BY NewKeyIs DEF KeyInv
<1>4. /\ answer \in Doings /\ answer.stage = "answered" /\ answer.what = what
      /\ answer.key = key
  BY <1>1, <1>3 DEF Doings
<1>5. \/ doing' = [doing EXCEPT ![c] = answer]
      \/ doing' = [doing EXCEPT ![c] = NoDoing] /\ key \in {0} \cup told \cup lost'
  BY <1>1 DEF Executes, KeyInv, Unseen
<1> HIDE DEF answer
<1>6. PICK d \in {answer, NoDoing} :
        /\ doing' = [doing EXCEPT ![c] = d]
        /\ d = answer \/ key \in {0} \cup told \cup lost'
  BY <1>5
<1>7. d \in Doings /\ (d.key # 0 => d.key = key /\ d.stage = "answered" /\ d.what = what)
      /\ (d.key = key \/ key \in {0} \cup told \cup lost')
  BY <1>4, <1>6, NothingDone
<1>8. /\ doing' \in [Slots -> Doings] /\ doing'[c] = d
      /\ \A e \in Slots \ {c} : doing'[e] = doing[e]
  BY <1>6, <1>7 DEF KeyInv
<1>9. CASE what \in {"create", "rotate"}
  <2>1. StoreKey(m)
    BY <1>9, MerchantsAssumption DEF Executes, create, rotate, MerchantStatus
  <2>2. key = newKey.returned /\ key # 0
    BY <1>9, NewKeyIs DEF KeyInv
  <2>3. newKey.returned \in told' \cup lost' \cup {doing'[e].key : e \in Slots}
    BY <1>7, <1>8, <2>2
  <2>4. \A e \in Slots : doing'[e].key # 0 =>
          doing'[e].stage = "answered" /\ doing'[e].what \in {"create", "rotate"}
    BY <1>7, <1>8, <1>9 DEF KeyInv
  <2>5. \A e \in Slots : doing[e].key \in {0, doing'[e].key}
    BY <1>1, <1>8
  <2> QED BY <1>2, <1>8, <2>1, <2>3, <2>4, <2>5, StoredKeeps
<1>10. CASE what \notin {"create", "rotate"}
  <2>1. UNCHANGED <<hashed, issued>>
    BY <1>10 DEF Executes, updateStatus, provisionDemoFunding
  <2>2. d.key = 0
    BY <1>7, <1>10
  <2>3. secret' \in [Places -> Nat]
    BY <1>2 DEF KeyInv
  <2> QED BY <1>1, <1>2, <1>6, <1>7, <2>1, <2>2, <2>3, SlotKeeps
<1> QED BY <1>9, <1>10

(* The list that cannot be read takes what was kept with it. *)
LEMMA UnavailableKeepsKeys ==
  ASSUME KeyInv, NEW q \in Queries, MerchantsUnavailable(q), told \subseteq told'
  PROVE  KeyInv'
<1>1. UNCHANGED <<hashed, issued>>
  BY DEF MerchantsUnavailable, merchantVars, merchantRows
<1>2. CASE UNCHANGED <<secret, lost, doing>>
  BY <1>1, <1>2, KeysSame
<1>3. CASE /\ secret' = [place \in Places |-> 0]
           /\ lost' = lost \cup UNION {Unseen(secret[place]) : place \in Places}
           /\ doing' = [c \in Slots |->
                IF doing[c] = NoDoing THEN NoDoing ELSE [doing[c] EXCEPT !.heard = FALSE]]
  <2>1. ASSUME NEW c \in Slots
        PROVE  /\ doing'[c] \in Doings
               /\ doing'[c].key = doing[c].key /\ doing'[c].stage = doing[c].stage
               /\ doing'[c].what = doing[c].what
    <3>1. doing[c] \in Doings
      BY DEF KeyInv
    <3>2. /\ [doing[c] EXCEPT !.heard = FALSE] \in Doings
          /\ [doing[c] EXCEPT !.heard = FALSE].key = doing[c].key
          /\ [doing[c] EXCEPT !.heard = FALSE].stage = doing[c].stage
          /\ [doing[c] EXCEPT !.heard = FALSE].what = doing[c].what
      BY <3>1 DEF Doings
    <3>3. CASE doing[c] = NoDoing
      BY <1>3, <3>1, <3>3
    <3>4. CASE doing[c] # NoDoing
      BY <1>3, <3>2, <3>4
    <3> QED BY <3>3, <3>4
  <2>2. doing' \in [Slots -> Doings]
    BY <1>3, <2>1
  <2>3. \A place \in Places : secret[place] \in {0} \cup told \cup lost'
    BY <1>3 DEF Unseen
  <2>4. secret' \in [Places -> Nat] /\ lost \subseteq lost'
    BY <1>3
  <2>5. \A c \in Slots : doing'[c].key # 0 =>
          doing'[c].stage = "answered" /\ doing'[c].what \in {"create", "rotate"}
    BY <2>1 DEF KeyInv
  <2> QED BY <1>1, <2>1, <2>2, <2>3, <2>4, <2>5, KeysKeep
<1> QED BY <1>2, <1>3 DEF MerchantsUnavailable

LEMMA KeyStep ==
  ASSUME KeyInv, MerchantsNext
  PROVE  KeyInv'
<1>0. told \subseteq told'
  BY DEF MerchantsNext
<1>1. ASSUME NEW c \in Slots, NEW m \in Merchants,
             NEW what \in {"create", "rotate", "fund"} \cup Statuses, Request(c, what, m)
      PROVE  KeyInv'
  <2> DEFINE d == [what |-> what, merchant |-> m, stage |-> "sent", key |-> 0, heard |-> TRUE]
  <2>1. d \in Doings /\ d.key = 0
    BY MerchantsAssumption DEF Doings, MerchantStatus
  <2>2. /\ doing[c].key = 0 /\ doing' = [doing EXCEPT ![c] = d]
        /\ UNCHANGED <<hashed, issued, secret, lost>>
    BY <1>1, NothingDone DEF Request, merchantVars, merchantRows, screen
  <2>3. secret' \in [Places -> Nat]
    BY <2>2 DEF KeyInv
  <2> HIDE DEF d
  <2> QED BY <1>0, <2>1, <2>2, <2>3, SlotKeeps
<1>2. ASSUME NEW c \in Slots, MerchantCreated(c) PROVE KeyInv'
  <2> DEFINE d == [doing[c] EXCEPT !.what = "demo", !.stage = "sent", !.key = 0]
  <2>1. d \in Doings /\ d.key = 0
    BY <1>2 DEF MerchantCreated, KeyInv, Doings
  <2>2. /\ \/ doing' = [doing EXCEPT ![c] = d]
           \/ doing' = [doing EXCEPT ![c] = NoDoing]
        /\ Deliver(c, "form") /\ UNCHANGED <<hashed, issued>>
    BY <1>2 DEF MerchantCreated, KeyInv, merchantVars, merchantRows
  <2> HIDE DEF d
  <2>3. PICK e \in {d, NoDoing} : doing' = [doing EXCEPT ![c] = e]
    BY <2>2
  <2>4. e \in Doings /\ e.key = 0
    BY <2>1, <2>3, NothingDone
  <2>5. "form" \in Places
    BY DEF Places
  <2>6. /\ lost \subseteq lost' /\ secret' \in [Places -> Nat]
        /\ \A place \in Places : secret[place] \in {0, secret'[place]} \cup told \cup lost'
        /\ \/ doing[c].key \in {0} \cup told \cup lost'
           \/ \E place \in Places : doing[c].key = secret'[place]
    BY <2>2, <2>5, DeliverKeeps
  <2> QED BY <1>0, <2>2, <2>3, <2>4, <2>6, SlotKeeps
<1>3. ASSUME NEW c \in Slots, Changed(c) PROVE KeyInv'
  <2>1. doing' = [doing EXCEPT ![c] = NoDoing] /\ UNCHANGED <<hashed, issued>>
    BY <1>3 DEF Changed, merchantVars, merchantRows
  <2>2. CASE doing[c].what = "rotate"
    <3>1. "drawer" \in Places /\ Deliver(c, "drawer")
      BY <1>3, <2>2 DEF Changed, Places
    <3>2. /\ lost \subseteq lost' /\ secret' \in [Places -> Nat]
          /\ \A place \in Places : secret[place] \in {0, secret'[place]} \cup told \cup lost'
          /\ \/ doing[c].key \in {0} \cup told \cup lost'
             \/ \E place \in Places : doing[c].key = secret'[place]
      BY <3>1, DeliverKeeps
    <3> QED BY <1>0, <2>1, <3>2, NothingDone, SlotKeeps
  <2>3. CASE doing[c].what # "rotate"
    <3>1. UNCHANGED <<secret, lost>> /\ doing[c].key = 0
      BY <1>3, <2>3 DEF Changed, KeyInv
    <3>2. secret' \in [Places -> Nat]
      BY <3>1 DEF KeyInv
    <3> QED BY <1>0, <2>1, <3>1, <3>2, NothingDone, SlotKeeps
  <2> QED BY <2>2, <2>3
<1>4. ASSUME NEW c \in Slots,
             DemoFundingEnds(c) \/ Refuses(c) \/ TimesOutDone(c) \/ NeverArrives(c)
      PROVE  KeyInv'
  <2>1. doing' = [doing EXCEPT ![c] = NoDoing] /\ UNCHANGED <<hashed, issued, secret>>
        /\ lost \subseteq lost'
    BY <1>4 DEF DemoFundingEnds, Refuses, TimesOutDone, NeverArrives,
                merchantVars, merchantRows, screen
  <2>2. doing[c].key \in {0} \cup told \cup lost'
    BY <1>4 DEF DemoFundingEnds, Refuses, TimesOutDone, NeverArrives, Unseen, KeyInv
  <2>3. secret' \in [Places -> Nat]
    BY <2>1 DEF KeyInv
  <2> QED BY <1>0, <2>1, <2>2, <2>3, NothingDone, SlotKeeps
<1>5. ASSUME NEW c \in Slots, TimesOutUndone(c) PROVE KeyInv'
  <2> DEFINE d == [doing[c] EXCEPT !.stage = "given up"]
  <2>1. d \in Doings /\ doing[c].key = 0 /\ d.key = 0
    BY <1>5 DEF TimesOutUndone, KeyInv, Doings
  <2>2. doing' = [doing EXCEPT ![c] = d] /\ UNCHANGED <<hashed, issued, secret, lost>>
    BY <1>5 DEF TimesOutUndone, KeyInv, merchantVars, merchantRows, screen
  <2>3. secret' \in [Places -> Nat]
    BY <2>2 DEF KeyInv
  <2> HIDE DEF d
  <2> QED BY <1>0, <2>1, <2>2, <2>3, SlotKeeps
<1>6. ASSUME UNCHANGED <<hashed, issued, doing, secret, lost>> PROVE KeyInv'
  BY <1>0, <1>6, KeysSame
<1>7. ASSUME NEW place \in Places, close(place) PROVE KeyInv'
  <2>1. SetSecret(place, 0) /\ UNCHANGED <<hashed, issued, doing>>
    BY <1>7 DEF close, merchantVars, merchantRows
  <2>2. /\ lost \subseteq lost' /\ secret' \in [Places -> Nat]
        /\ \A other \in Places : secret[other] \in {0, secret'[other]} \cup told \cup lost'
    BY <2>1, SetSecretKeeps
  <2>3. doing' \in [Slots -> Doings] /\ \A c \in Slots : doing'[c].key # 0 =>
          doing'[c].stage = "answered" /\ doing'[c].what \in {"create", "rotate"}
    BY <2>1 DEF KeyInv
  <2> QED BY <1>0, <2>1, <2>2, <2>3, KeysKeep
<1>8. CASE MerchantsPageSteps
  BY <1>0, <1>1, <1>2, <1>3, <1>4, <1>6, <1>7, <1>8, UnavailableKeepsKeys
  DEF MerchantsPageSteps, ReadMerchants, MerchantsAnswered, RetryMerchants,
      submit, rotateKey, AskFunding, AskStatus, OpenDrawer, OpenForm,
      merchantVars, merchantRows, screen
<1>9. CASE MerchantsApi
  BY <1>0, <1>4, <1>5, <1>9, ExecutesKeeps DEF MerchantsApi
<1> QED BY <1>8, <1>9 DEF MerchantsNext

(* The keys of others are told as they are returned. *)
LEMMA OtherKeys ==
  ASSUME KeyInv, OtherClients
  PROVE  KeyInv'
<1>1. /\ told' = told \cup {issued'} /\ UNCHANGED <<lost, secret, doing>>
  BY DEF OtherClients, screen
<1>2. ASSUME NEW m \in Merchants, StoreKey(m) PROVE KeyInv'
  <2>1. newKey.returned \in told'
    BY <1>1, <1>2 DEF StoreKey
  <2>2. /\ doing' \in [Slots -> Doings]
        /\ \A c \in Slots : doing'[c].key # 0 =>
             doing'[c].stage = "answered" /\ doing'[c].what \in {"create", "rotate"}
    BY <1>1 DEF KeyInv
  <2> QED BY <1>1, <1>2, <2>1, <2>2, StoredKeeps
<1>3. CASE UNCHANGED <<hashed, issued>>
  BY <1>1, <1>3, KeysSame
<1> QED BY <1>2, <1>3
    DEF OtherClients, AdminNext, create, updateStatus, rotate, provisionDemoFunding,
        CreatePayment, ReadForValidation, CommitValidation, ValidationFails, merchantRows

(* The one key that works for a merchant is told, kept or under way, or was *)
(* lost as WorkingKeyIsTold says, whatever rotations and creations overlap  *)
(* (rotate, newKey, and the newKey and apiKey of drawer and form).          *)
THEOREM KeysReachTheUser == PortalSpec => []WorkingKeyIsTold
<1>1. KeyInv /\ UNCHANGED <<merchantVars, merchantPageVars>> => KeyInv'
  BY KeysSame DEF merchantVars, merchantRows, merchantPageVars, screen
<1>2. KeyInv => WorkingKeyIsTold
  BY DEF KeyInv
<1> QED BY <1>1, <1>2, PortalInit, PortalStep, KeyInit, KeyStep, OtherKeys, PTL DEF PortalSpec

-----------------------------------------------------------------------------
(* A query that nothing has overtaken shows what the server has, unless a   *)
(* change of it is about to be answered, after which it is read again.      *)
ShownRow == [status : MerchantStatus \cup {"absent"}, funded : BOOLEAN]
Tables == UNION {[S -> ShownRow] : S \in SUBSET Merchants}
Readings == [stage : {"none", "sent", "read"}, rows : Tables]

(* An answer under way that will have the query read again. *)
Announced(c, q) ==
  IF q = "list" THEN \/ doing[c].stage = "answered"
                     \/ doing[c].what = "demo" /\ doing[c].stage = "sent"
  ELSE doing[c].stage = "answered" /\ doing[c].merchant = q
       /\ doing[c].what \notin {"create", "demo"}

Pending(q) == \E c \in Slots : Announced(c, q)

UpToDate(q) ==
  /\ reading[q].stage = "read" => reading[q].rows = Answer(q)
  /\ reading[q] = Resting /\ q \in current => cached[q] = Answer(q)
  /\ reading[q] = Resting /\ Observed(q) => q \in current \cup failing

(* A query is read before it is shown or current, or has failed. *)
QueryInv(q) ==
  /\ Observed(q) /\ ~Displayed(q) => reading[q] # Resting \/ q \in failing
  /\ reading[q].stage = "read" => reading[q].rows # Unfetched
  /\ q \in current => Displayed(q)

(* What the page knows of a merchant was read since it was created. *)
HasMerchant(table, m) == table # Unfetched /\ table[m].status # "absent"

Known(m) ==
  \/ reading[m] # Resting \/ m \in current \/ drawer = m
  \/ HasMerchant(cached["list"], m) \/ HasMerchant(reading["list"].rows, m)

DrawerTypes ==
  /\ reading \in [Queries -> Readings] /\ cached \in [Queries -> Tables]
  /\ drawer \in Merchants \cup {NoMerchant}

DrawerInv ==
  /\ \A q \in Queries : q \in overtaken \/ Pending(q) \/ UpToDate(q)
  /\ \A q \in Queries : QueryInv(q)
  /\ \A m \in Merchants : Known(m) => status[m] # "absent"

LEMMA UnfetchedTyped == Unfetched \in Tables
<1>1. Unfetched \in [{} -> ShownRow]
  BY DEF Unfetched
<1> QED BY <1>1 DEF Tables

LEMMA AnswerTyped ==
  ASSUME TypeInv, NEW q \in Queries
  PROVE  /\ Answer(q) \in Tables
         /\ Answer(q) # Unfetched
         /\ q = "list" => \A m \in Merchants : HasMerchant(Answer(q), m) => status[m] # "absent"
<1> DEFINE S == IF q = "list" THEN Merchants ELSE {q}
<1>1. S \subseteq Merchants /\ S # {}
  BY MerchantsAssumption DEF Queries
<1>2. \A m \in Merchants : Row(m) \in ShownRow /\ Row(m).status = status[m]
  BY DEF TypeInv, Row, ShownRow
<1>3. Answer(q) = [m \in S |-> Row(m)] /\ DOMAIN Answer(q) = S
  BY DEF Answer
<1> HIDE DEF S
<1>4. Answer(q) \in [S -> ShownRow]
  BY <1>1, <1>2, <1>3
<1>5. DOMAIN Unfetched = {}
  BY DEF Unfetched
<1>6. Answer(q) \in Tables /\ Answer(q) # Unfetched
  BY <1>1, <1>3, <1>4, <1>5 DEF Tables
<1>7. q = "list" => \A m \in Merchants : Answer(q)[m].status = status[m]
  BY <1>2 DEF Answer
<1> QED BY <1>6, <1>7 DEF HasMerchant

LEMMA RestingTyped ==
  /\ Resting \in Readings /\ Started \in Readings /\ Resting # Started
  /\ Resting.stage = "none" /\ Started.stage = "sent"
  /\ \A m : ~HasMerchant(Resting.rows, m) /\ ~HasMerchant(Started.rows, m) /\ ~HasMerchant(Unfetched, m)
BY UnfetchedTyped DEF Resting, Started, Readings, HasMerchant

LEMMA DrawerInit == MerchantsBegin /\ MerchantsOpened => DrawerTypes /\ DrawerInv
<1> SUFFICES ASSUME MerchantsBegin, MerchantsOpened PROVE DrawerTypes /\ DrawerInv
  OBVIOUS
<1>1. /\ drawer = NoMerchant /\ current = {} /\ overtaken = {}
      /\ cached = [q \in Queries |-> Unfetched]
      /\ reading = [q \in Queries |-> IF q = "list" THEN Started ELSE Resting]
  BY DEF MerchantsOpened
<1>2. DrawerTypes
  BY <1>1, RestingTyped, UnfetchedTyped DEF DrawerTypes
<1>3. \A m \in Merchants : ~Known(m)
  BY <1>1, RestingTyped, MerchantsPageAssumption, MerchantsAssumption DEF Known, Queries
<1>4. \A q \in Queries : UpToDate(q) /\ QueryInv(q)
  BY <1>1, RestingTyped, MerchantsAssumption
  DEF UpToDate, QueryInv, Observed, Queries
<1> QED BY <1>2, <1>3, <1>4 DEF DrawerInv

(* A step that changes neither rows nor queries, and whose requests are     *)
(* still to be answered or have overtaken the queries.                      *)
LEMMA DrawerSame ==
  ASSUME DrawerInv, UNCHANGED <<status, funded, drawer, reading, cached, current, failing>>,
         overtaken \subseteq overtaken',
         \A q \in Queries : Pending(q) => q \in overtaken' \/ Pending(q)'
  PROVE  DrawerInv'
<1>0. \A q \in Queries : (Observed(q)' <=> Observed(q)) /\ (Displayed(q)' <=> Displayed(q))
  BY DEF Observed, Mounted, Displayed
<1>1. \A q \in Queries : UpToDate(q) => UpToDate(q)'
  BY <1>0 DEF UpToDate, Answer, Row
<1>2. \A q \in Queries : QueryInv(q) => QueryInv(q)'
  BY <1>0 DEF QueryInv
<1>3. \A m \in Merchants : Known(m)' => Known(m)
  BY DEF Known
<1> QED BY <1>1, <1>2, <1>3 DEF DrawerInv

(* Queries that are read again, or are overtaken, or off the screen.        *)
LEMMA InvalidateKeeps ==
  ASSUME DrawerTypes, DrawerInv, NEW S \in SUBSET Queries, Invalidate(S),
         UNCHANGED <<status, funded, drawer>>,
         \A q \in Queries \ S : Pending(q) => Pending(q)'
  PROVE  DrawerInv'
<1>0. /\ UNCHANGED <<cached, failing>>
      /\ \A q \in Queries : (Observed(q)' <=> Observed(q)) /\ (Displayed(q)' <=> Displayed(q))
  BY DEF Invalidate, Observed, Mounted, Displayed
<1>1. ASSUME NEW q \in Queries
      PROVE  /\ q \in current' <=> q \in current /\ q \notin S
             /\ \/ /\ reading'[q] = reading[q]
                   /\ q \in S /\ Observed(q) => ~Displayed(q) /\ reading[q] # Resting
                   /\ q \in S /\ reading[q].stage = "read" => q \in overtaken'
                \/ reading'[q] = Started /\ Observed(q)
             /\ q \notin S => reading'[q] = reading[q]
             /\ q \in overtaken => q \in overtaken'
  BY DEF Invalidate
<1>2. ASSUME NEW q \in Queries
      PROVE  q \in overtaken' \/ Pending(q)' \/ UpToDate(q)'
  <2>1. CASE q \in S
    BY <1>0, <1>1, <2>1, RestingTyped DEF UpToDate
  <2>2. CASE q \notin S
    <3>1. UpToDate(q) => UpToDate(q)'
      BY <1>0, <1>1, <2>2 DEF UpToDate, Answer, Row
    <3> QED BY <1>1, <2>2, <3>1 DEF DrawerInv
  <2> QED BY <2>1, <2>2
<1>3. ASSUME NEW q \in Queries PROVE QueryInv(q)'
  BY <1>0, <1>1, RestingTyped DEF DrawerInv, QueryInv
<1>4. ASSUME NEW m \in Merchants, Known(m)' PROVE status'[m] # "absent"
  <2>1. m \in Queries /\ "list" \in Queries /\ m # "list"
    BY MerchantsPageAssumption DEF Queries
  <2>2. HasMerchant(reading'["list"].rows, m) => HasMerchant(reading["list"].rows, m)
    BY <1>1, <2>1, RestingTyped
  <2>3. reading'[m] # Resting => reading[m] # Resting \/ drawer = m
    BY <1>1, <2>1 DEF Observed
  <2>4. Known(m)
    BY <1>0, <1>1, <1>4, <2>1, <2>2, <2>3 DEF Known
  <2> QED BY <2>4 DEF DrawerInv
<1> QED BY <1>2, <1>3, <1>4 DEF DrawerInv

(* The rows of a merchant change while the answer to it is under way, or    *)
(* has been given up; one that is created is not known yet.                 *)
LEMMA RowsKeep ==
  ASSUME DrawerInv, NEW m \in Merchants,
         UNCHANGED <<drawer, reading, cached, current, failing>>,
         overtaken \subseteq overtaken',
         \A n \in Merchants \ {m} : Row(n)' = Row(n),
         \A n \in Merchants : status[n] # "absent" => status'[n] # "absent",
         "list" \in overtaken' \/ Pending("list")',
         m \in overtaken' \/ Pending(m)' \/ ~Known(m),
         \A q \in Queries : Pending(q) => q \in overtaken' \/ Pending(q)'
  PROVE  DrawerInv'
<1>0. \A q \in Queries : (Observed(q)' <=> Observed(q)) /\ (Displayed(q)' <=> Displayed(q))
  BY DEF Observed, Mounted, Displayed
<1>1. ASSUME NEW q \in Queries, q # m, q # "list"
      PROVE  UpToDate(q) => UpToDate(q)'
  <2>1. q \in Merchants /\ Row(q)' = Row(q)
    BY <1>1 DEF Queries
  <2>2. Answer(q) = [n \in {q} |-> Row(q)] /\ Answer(q)' = [n \in {q} |-> Row(q)']
    BY <1>1 DEF Answer
  <2> QED BY <1>0, <2>1, <2>2 DEF UpToDate
<1>2. ~Known(m) => UpToDate(m)'
  BY <1>0, RestingTyped, MerchantsPageAssumption DEF Known, UpToDate, Observed
<1>3. \A q \in Queries : QueryInv(q) => QueryInv(q)'
  BY <1>0 DEF QueryInv
<1>4. \A n \in Merchants : Known(n)' => Known(n)
  BY DEF Known
<1>5. \A q \in Queries : q \in overtaken' \/ Pending(q)' \/ UpToDate(q)'
  BY <1>1, <1>2 DEF DrawerInv
<1> QED BY <1>3, <1>4, <1>5 DEF DrawerInv

-----------------------------------------------------------------------------
LEMMA DrawerTypesStep ==
  ASSUME TypeInv, DrawerTypes, MerchantsNext
  PROVE  DrawerTypes'
<1>1. ASSUME UNCHANGED <<reading, cached, drawer>> PROVE DrawerTypes'
  BY <1>1 DEF DrawerTypes
<1>2. ASSUME NEW S, Invalidate(S), UNCHANGED drawer PROVE DrawerTypes'
  BY <1>2, RestingTyped DEF Invalidate, DrawerTypes
<1>3. ASSUME NEW q \in Queries, ReadMerchants(q) PROVE DrawerTypes'
  <2>1. [stage |-> "read", rows |-> Answer(q)] \in Readings
    BY AnswerTyped DEF Readings
  <2> QED BY <1>3, <2>1 DEF ReadMerchants, DrawerTypes, screen
<1>4. ASSUME NEW q \in Queries, MerchantsUnavailable(q) PROVE DrawerTypes'
  BY <1>4, RestingTyped DEF MerchantsUnavailable, DrawerTypes
<1>r. ASSUME NEW q \in Queries, RetryMerchants(q) PROVE DrawerTypes'
  BY <1>r, RestingTyped DEF RetryMerchants, DrawerTypes, screen
<1>a. ASSUME NEW q \in Queries, MerchantsAnswered(q) PROVE DrawerTypes'
  <2> DEFINE read == [reading EXCEPT ![q] = Resting]
  <2>1. reading[q].rows \in Tables /\ read \in [Queries -> Readings]
    BY RestingTyped DEF DrawerTypes, Readings
  <2>2. reading' = read \/ Mount(drawer, read)
    BY <1>a DEF MerchantsAnswered
  <2>3. cached' = [cached EXCEPT ![q] = reading[q].rows] /\ drawer' = drawer
    BY <1>a DEF MerchantsAnswered, screen
  <2> HIDE DEF read
  <2>4. reading' \in [Queries -> Readings]
    BY <2>1, <2>2, RestingTyped DEF Mount
  <2> QED BY <2>1, <2>3, <2>4 DEF DrawerTypes
<1>5. ASSUME NEW m \in Merchants, OpenDrawer(m) PROVE DrawerTypes'
  BY <1>5, RestingTyped DEF OpenDrawer, Mount, DrawerTypes
<1>6. ASSUME NEW place \in Places, close(place) PROVE DrawerTypes'
  BY <1>6 DEF close, DrawerTypes, queries
<1>7. CASE MerchantsPageSteps
  BY <1>1, <1>2, <1>3, <1>4, <1>r, <1>a, <1>5, <1>6, <1>7
  DEF MerchantsPageSteps, submit, rotateKey, AskFunding, AskStatus, Request, OpenForm,
      MerchantCreated, DemoFundingEnds, Changed, onChanged, screen, queries
<1>8. CASE MerchantsApi
  BY <1>1, <1>2, <1>8
  DEF MerchantsApi, Executes, Refuses, TimesOutUndone, TimesOutDone, NeverArrives,
      screen, queries
<1> QED BY <1>7, <1>8 DEF MerchantsNext

(* The steps of the two queries and of the drawer. *)
LEMMA ReadKeeps ==
  ASSUME TypeInv, DrawerTypes, DrawerInv, NEW q \in Queries, ReadMerchants(q)
  PROVE  DrawerInv'
<1> DEFINE read == [stage |-> "read", rows |-> Answer(q)]
<1>1. /\ reading[q] = Started
      /\ reading' = [reading EXCEPT ![q] = read]
      /\ overtaken' = overtaken \ {q}
      /\ UNCHANGED <<status, funded, drawer, cached, current, failing, doing>>
  BY DEF ReadMerchants, merchantVars, merchantRows, screen
<1>o. \A r \in Queries : (Observed(r)' <=> Observed(r)) /\ (Displayed(r)' <=> Displayed(r))
  BY <1>1 DEF Observed, Mounted, Displayed
<1>2. /\ reading'[q] = read /\ read.stage = "read" /\ read.rows = Answer(q) /\ read # Resting
      /\ \A r \in Queries \ {q} : reading'[r] = reading[r]
  BY <1>1, RestingTyped DEF DrawerTypes
<1>3. /\ Answer(q) # Unfetched
      /\ q = "list" => \A m \in Merchants : HasMerchant(Answer(q), m) => status[m] # "absent"
  BY AnswerTyped
<1> HIDE DEF read
<1>4. /\ UpToDate(q)'
      /\ \A r \in Queries \ {q} : UpToDate(r) => UpToDate(r)'
  BY <1>1, <1>o, <1>2 DEF UpToDate, Answer, Row
<1>5. \A r \in Queries : Pending(r)' <=> Pending(r)
  BY <1>1 DEF Pending, Announced
<1>6. \A r \in Queries : QueryInv(r)'
  BY <1>1, <1>o, <1>2, <1>3 DEF DrawerInv, QueryInv
<1>7. ASSUME NEW m \in Merchants, Known(m)' PROVE status'[m] # "absent"
  <2>1. m \in Queries /\ "list" \in Queries /\ m # "list"
    BY MerchantsPageAssumption DEF Queries
  <2>2. Known(m) \/ (q = "list" /\ HasMerchant(Answer(q), m))
    BY <1>1, <1>2, <1>7, <2>1, RestingTyped DEF Known
  <2> QED BY <1>1, <1>3, <2>2 DEF DrawerInv
<1> QED BY <1>1, <1>4, <1>5, <1>6, <1>7 DEF DrawerInv

LEMMA AnsweredKeeps ==
  ASSUME DrawerTypes, DrawerInv, NEW q \in Queries, MerchantsAnswered(q)
  PROVE  DrawerInv'
<1>0. \A m \in Merchants : m \in Queries /\ "list" \in Queries /\ m # "list"
  BY MerchantsPageAssumption DEF Queries
<1>1. /\ reading[q].stage = "read"
      /\ cached' = [cached EXCEPT ![q] = reading[q].rows]
      /\ current' = current \cup {q} /\ failing' = failing \ {q}
      /\ UNCHANGED <<status, funded, drawer, overtaken, doing>>
  BY DEF MerchantsAnswered, merchantVars, merchantRows, screen
<1>2. /\ cached'[q] = reading[q].rows /\ reading[q] # Resting
      /\ \A r \in Queries \ {q} : cached'[r] = cached[r]
  BY <1>1, RestingTyped DEF DrawerTypes
<1>3. /\ reading'[q] = Resting
      /\ \A r \in Queries \ {q} :
           \/ reading'[r] = reading[r]
           \/ r = drawer /\ reading'[r] = Started /\ r \notin current
      /\ \A r \in Queries \ {q} : Observed(r)' =>
           Observed(r) \/ (r = drawer /\ (reading'[r] # Resting \/ r \in current))
  <2>1. CASE q = "list" /\ ~Mounted /\ drawer # NoMerchant
    <3>1. /\ drawer \in Merchants /\ drawer # q
          /\ Mount(drawer, [reading EXCEPT ![q] = Resting])
      BY <1>0, <2>1 DEF MerchantsAnswered, DrawerTypes
    <3>2. PICK d \in Merchants : d = drawer
      BY <3>1
    <3>3. /\ reading'[q] = Resting
          /\ \A r \in Queries \ {q, d} : reading'[r] = reading[r]
          /\ reading'[d] = IF d \in current \/ reading[d] # Resting THEN reading[d] ELSE Started
      BY <1>0, <3>1, <3>2 DEF Mount, DrawerTypes
    <3> QED BY <1>1, <2>1, <3>2, <3>3, RestingTyped DEF Observed
  <2>2. CASE ~(q = "list" /\ ~Mounted /\ drawer # NoMerchant)
    <3>1. reading' = [reading EXCEPT ![q] = Resting]
      BY <2>2 DEF MerchantsAnswered
    <3>2. ASSUME NEW r \in Queries \ {q}, Observed(r)' PROVE Observed(r)
      <4>1. CASE q # "list"
        <5>1. Mounted' => Mounted
          BY <1>0, <1>1, <1>2, <4>1 DEF Mounted, Displayed, Queries
        <5> QED BY <1>1, <3>2, <5>1 DEF Observed
      <4>2. CASE q = "list"
        BY <1>1, <2>2, <3>2, <4>2, MerchantsAssumption DEF Observed, Queries
      <4> QED BY <4>1, <4>2
    <3> QED BY <3>1, <3>2 DEF DrawerTypes
  <2> QED BY <2>1, <2>2
<1>4. ASSUME NEW r \in Queries PROVE UpToDate(r) => UpToDate(r)'
  <2>1. CASE r = q
    BY <1>1, <1>2, <1>3, <2>1, RestingTyped DEF UpToDate, Answer, Row
  <2>2. CASE r # q
    BY <1>1, <1>2, <1>3, <2>2, RestingTyped DEF UpToDate, Answer, Row
  <2> QED BY <2>1, <2>2
<1>5. \A r \in Queries : Pending(r)' <=> Pending(r)
  BY <1>1 DEF Pending, Announced
<1>6. ASSUME NEW r \in Queries PROVE QueryInv(r)'
  <2>1. QueryInv(r) /\ QueryInv(q)
    BY DEF DrawerInv
  <2>2. CASE r = q
    BY <1>1, <1>2, <1>3, <2>1, <2>2, RestingTyped DEF QueryInv, Displayed
  <2>3. CASE r # q
    <3>1. Displayed(r)' <=> Displayed(r)
      BY <1>2, <2>3 DEF Displayed
    <3> QED BY <1>1, <1>2, <1>3, <2>1, <2>3, <3>1, RestingTyped DEF QueryInv
  <2> QED BY <2>2, <2>3
<1>7. ASSUME NEW m \in Merchants, Known(m)' PROVE status'[m] # "absent"
  <2>1. HasMerchant(reading'["list"].rows, m) => HasMerchant(reading["list"].rows, m)
    BY <1>0, <1>3, RestingTyped
  <2>2. HasMerchant(cached'["list"], m)
          => HasMerchant(cached["list"], m) \/ HasMerchant(reading["list"].rows, m)
    BY <1>0, <1>2
  <2>3. reading'[m] # Resting => reading[m] # Resting \/ drawer = m
    BY <1>0, <1>3
  <2>4. Known(m)
    BY <1>0, <1>1, <1>2, <1>7, <2>1, <2>2, <2>3 DEF Known
  <2> QED BY <1>1, <2>4 DEF DrawerInv
<1> QED BY <1>1, <1>4, <1>5, <1>6, <1>7 DEF DrawerInv

LEMMA UnavailableKeeps ==
  ASSUME KeyInv, DrawerTypes, DrawerInv, NEW q \in Queries, MerchantsUnavailable(q)
  PROVE  DrawerInv'
<1>0. \A m \in Merchants : m \in Queries /\ "list" \in Queries /\ m # "list"
  BY MerchantsPageAssumption DEF Queries
<1>1. /\ reading[q].stage = "read"
      /\ UNCHANGED <<status, funded, drawer, cached, overtaken>>
      /\ \/ reading' = [reading EXCEPT ![q] = Started] /\ UNCHANGED <<current, failing>>
         \/ /\ reading' = [reading EXCEPT ![q] = Resting]
            /\ current' = current \ {q} /\ failing' = failing \cup {q}
  BY DEF MerchantsUnavailable, merchantVars, merchantRows
<1>2. /\ reading[q] # Resting
      /\ \A r \in Queries \ {q} : reading'[r] = reading[r] /\ (r \in current' <=> r \in current)
                                  /\ (r \in failing' <=> r \in failing)
      /\ \/ reading'[q] = Started /\ (q \in current' <=> q \in current)
                                  /\ (q \in failing' <=> q \in failing)
         \/ reading'[q] = Resting /\ q \notin current' /\ q \in failing'
  BY <1>1, RestingTyped DEF DrawerTypes
<1>3. \A r \in Queries : (Displayed(r)' <=> Displayed(r)) /\ (Observed(r)' => Observed(r))
  BY <1>1 DEF Observed, Mounted, Displayed
<1>4. \A r \in Queries : UpToDate(r) => UpToDate(r)'
  BY <1>1, <1>2, <1>3, RestingTyped DEF UpToDate, Answer, Row
<1>5. \A r \in Queries : Pending(r)' <=> Pending(r)
  <2>1. CASE doing' = doing
    BY <2>1 DEF Pending, Announced
  <2>2. CASE doing' = [c \in Slots |->
               IF doing[c] = NoDoing THEN NoDoing ELSE [doing[c] EXCEPT !.heard = FALSE]]
    <3>1. ASSUME NEW c \in Slots
          PROVE  /\ doing'[c].stage = doing[c].stage /\ doing'[c].what = doing[c].what
                 /\ doing'[c].merchant = doing[c].merchant
      <4>1. doing[c] \in Doings
        BY DEF KeyInv
      <4>2. /\ [doing[c] EXCEPT !.heard = FALSE].stage = doing[c].stage
            /\ [doing[c] EXCEPT !.heard = FALSE].what = doing[c].what
            /\ [doing[c] EXCEPT !.heard = FALSE].merchant = doing[c].merchant
        BY <4>1 DEF Doings
      <4> QED BY <2>2, <4>2
    <3> QED BY <3>1 DEF Pending, Announced
  <2> QED BY <2>1, <2>2 DEF MerchantsUnavailable
<1>6. \A r \in Queries : QueryInv(r)'
  BY <1>1, <1>2, <1>3, RestingTyped DEF DrawerInv, QueryInv
<1>7. ASSUME NEW m \in Merchants, Known(m)' PROVE status'[m] # "absent"
  <2>1. HasMerchant(reading'["list"].rows, m) => HasMerchant(reading["list"].rows, m)
    BY <1>0, <1>2, RestingTyped
  <2>2. Known(m)
    BY <1>0, <1>1, <1>2, <1>7, <2>1 DEF Known
  <2> QED BY <1>1, <2>2 DEF DrawerInv
<1> QED BY <1>1, <1>4, <1>5, <1>6, <1>7 DEF DrawerInv

LEMMA RetryKeeps ==
  ASSUME DrawerTypes, DrawerInv, NEW q \in Queries, RetryMerchants(q)
  PROVE  DrawerInv'
<1>0. \A m \in Merchants : m \in Queries /\ "list" \in Queries /\ m # "list"
  BY MerchantsPageAssumption DEF Queries
<1>1. /\ reading' = [reading EXCEPT ![q] = Started] /\ Observed(q)
      /\ UNCHANGED <<status, funded, drawer, cached, current, failing, overtaken, doing>>
  BY DEF RetryMerchants, merchantVars, merchantRows, screen
<1>2. /\ reading'[q] = Started
      /\ \A r \in Queries \ {q} : reading'[r] = reading[r]
  BY <1>1 DEF DrawerTypes
<1>3. \A r \in Queries : (Displayed(r)' <=> Displayed(r)) /\ (Observed(r)' <=> Observed(r))
  BY <1>1 DEF Observed, Mounted, Displayed
<1>4. \A r \in Queries : UpToDate(r) => UpToDate(r)'
  BY <1>1, <1>2, <1>3, RestingTyped DEF UpToDate, Answer, Row
<1>5. \A r \in Queries : Pending(r)' <=> Pending(r)
  BY <1>1 DEF Pending, Announced
<1>6. \A r \in Queries : QueryInv(r)'
  BY <1>1, <1>2, <1>3, RestingTyped DEF DrawerInv, QueryInv
<1>7. ASSUME NEW m \in Merchants, Known(m)' PROVE status'[m] # "absent"
  <2>1. HasMerchant(reading'["list"].rows, m) => HasMerchant(reading["list"].rows, m)
    BY <1>0, <1>2, RestingTyped
  <2>2. reading'[m] # Resting => reading[m] # Resting \/ drawer = m
    BY <1>0, <1>1, <1>2 DEF Observed
  <2>3. Known(m)
    BY <1>0, <1>1, <1>2, <1>7, <2>1, <2>2 DEF Known
  <2> QED BY <1>1, <2>3 DEF DrawerInv
<1> QED BY <1>1, <1>4, <1>5, <1>6, <1>7 DEF DrawerInv

LEMMA OpenDrawerKeeps ==
  ASSUME DrawerTypes, DrawerInv, NEW m \in Merchants, OpenDrawer(m)
  PROVE  DrawerInv'
<1>0. \A n \in Merchants : n \in Queries /\ "list" \in Queries /\ n # "list"
  BY MerchantsPageAssumption DEF Queries
<1>1. /\ drawer = NoMerchant /\ drawer' = m /\ Displayed("list")
      /\ reading' = [reading EXCEPT ![m] = IF m \in current \/ @ # Resting THEN @ ELSE Started]
      /\ UNCHANGED <<status, funded, cached, current, failing, overtaken, doing>>
  BY DEF OpenDrawer, Closed, Mounted, Mount, merchantVars, merchantRows
<1>2. /\ reading'[m] = IF m \in current \/ reading[m] # Resting THEN reading[m] ELSE Started
      /\ \A r \in Queries \ {m} : reading'[r] = reading[r]
  BY <1>0, <1>1 DEF DrawerTypes
<1>3. status[m] # "absent"
  <2>1. HasMerchant(cached["list"], m)
    BY <1>1 DEF OpenDrawer, Displayed, HasMerchant
  <2> QED BY <2>1 DEF DrawerInv, Known
<1>o. /\ \A r \in Queries : Displayed(r)' <=> Displayed(r)
      /\ \A r \in Queries \ {m} : Observed(r)' => Observed(r)
  BY <1>1 DEF Observed, Displayed
<1>4. ASSUME NEW r \in Queries PROVE UpToDate(r) => UpToDate(r)'
  BY <1>1, <1>2, <1>o, RestingTyped DEF UpToDate, Answer, Row
<1>5. \A r \in Queries : Pending(r)' <=> Pending(r)
  BY <1>1 DEF Pending, Announced
<1>6. ASSUME NEW r \in Queries PROVE QueryInv(r)'
  BY <1>1, <1>2, <1>o, RestingTyped DEF DrawerInv, QueryInv
<1>7. ASSUME NEW n \in Merchants, Known(n)' PROVE status'[n] # "absent"
  <2>1. Known(n) \/ n = m
    BY <1>0, <1>1, <1>2, <1>7, RestingTyped DEF Known
  <2> QED BY <1>1, <1>3, <2>1 DEF DrawerInv
<1> QED BY <1>1, <1>4, <1>5, <1>6, <1>7 DEF DrawerInv

LEMMA CloseKeeps ==
  ASSUME DrawerInv, NEW place \in Places, close(place)
  PROVE  DrawerInv'
<1>1. /\ drawer' \in {drawer, NoMerchant}
      /\ UNCHANGED <<status, funded, reading, cached, current, failing, overtaken, doing>>
  BY DEF close, merchantVars, merchantRows, queries
<1>2. \A r \in Queries : (Observed(r)' => Observed(r)) /\ (Displayed(r)' <=> Displayed(r))
  BY <1>1, MerchantsAssumption DEF Observed, Mounted, Displayed, Queries
<1>3. \A r \in Queries : UpToDate(r) => UpToDate(r)'
  BY <1>1, <1>2 DEF UpToDate, Answer, Row
<1>4. \A r \in Queries : Pending(r)' <=> Pending(r)
  BY <1>1 DEF Pending, Announced
<1>5. \A r \in Queries : QueryInv(r)'
  BY <1>1, <1>2 DEF DrawerInv, QueryInv
<1>6. \A n \in Merchants : Known(n)' => Known(n)
  BY <1>1, MerchantsAssumption DEF Known
<1> QED BY <1>1, <1>3, <1>4, <1>5, <1>6 DEF DrawerInv

(* What a slot does is announced by what it is doing alone. *)
LEMMA PendingKept ==
  ASSUME KeyInv, NEW c \in Slots, NEW d, doing' = [doing EXCEPT ![c] = d],
         NEW q, ~Announced(c, q)
  PROVE  Pending(q) => Pending(q)'
<1>1. \A e \in Slots \ {c} : doing'[e] = doing[e]
  BY DEF KeyInv
<1>2. \A e \in Slots \ {c} : Announced(e, q) => Announced(e, q)'
  BY <1>1 DEF Announced
<1> QED BY <1>2 DEF Pending

LEMMA DrawerPageStep ==
  ASSUME KeyInv, TypeInv, DrawerTypes, DrawerInv, MerchantsPageSteps
  PROVE  DrawerInv'
<1>0. "list" \notin Merchants /\ \A m \in Merchants : {"list", m} \subseteq Queries
  BY MerchantsPageAssumption DEF Queries
<1>1. ASSUME NEW c \in Slots, NEW what, NEW m \in Merchants, Request(c, what, m)
      PROVE  DrawerInv'
  <2>1. \A q \in Queries : ~Announced(c, q)
    BY <1>1 DEF Request, NoDoing, Announced
  <2>2. \A q \in Queries : Pending(q) => Pending(q)'
    BY <1>1, <2>1, PendingKept DEF Request
  <2> QED BY <1>1, <2>2, DrawerSame DEF Request, merchantVars, merchantRows, screen, queries
<1>2. ASSUME NEW c \in Slots, MerchantCreated(c) PROVE DrawerInv'
  <2>1. doing[c].what = "create" /\ doing[c].stage = "answered"
    BY <1>2 DEF MerchantCreated
  <2>2. \A q \in Queries \ {"list"} : ~Announced(c, q)
    BY <2>1 DEF Announced
  <2>3. PICK d : doing' = [doing EXCEPT ![c] = d]
    BY <1>2 DEF MerchantCreated
  <2>4. \A q \in Queries \ {"list"} : Pending(q) => Pending(q)'
    BY <2>2, <2>3, PendingKept
  <2>5. CASE Invalidate({"list"})
    BY <1>2, <2>4, <2>5, InvalidateKeeps
    DEF MerchantCreated, merchantVars, merchantRows, Queries
  <2>6. CASE /\ doing' = [doing EXCEPT ![c] = [@ EXCEPT !.what = "demo", !.stage = "sent", !.key = 0]]
             /\ UNCHANGED queries
    <3>1. doing[c] \in Doings /\ doing'[c].what = "demo" /\ doing'[c].stage = "sent"
      BY <2>6 DEF KeyInv, Doings
    <3>2. Pending("list")'
      BY <3>1 DEF Pending, Announced
    <3> QED BY <1>2, <2>4, <2>6, <3>2, DrawerSame
            DEF MerchantCreated, merchantVars, merchantRows, queries
  <2> QED BY <1>2, <2>5, <2>6 DEF MerchantCreated
<1>3. ASSUME NEW c \in Slots, DemoFundingEnds(c) PROVE DrawerInv'
  <2>1. \A q \in Queries \ {"list"} : ~Announced(c, q)
    BY <1>3 DEF DemoFundingEnds, Announced
  <2>2. \A q \in Queries \ {"list"} : Pending(q) => Pending(q)'
    BY <1>3, <2>1, PendingKept DEF DemoFundingEnds
  <2> QED BY <1>3, <2>2, InvalidateKeeps
          DEF DemoFundingEnds, merchantVars, merchantRows, Queries, screen
<1>4. ASSUME NEW c \in Slots, Changed(c) PROVE DrawerInv'
  <2>1. doing[c].merchant \in Merchants
    BY <1>4 DEF Changed, KeyInv, Doings
  <2>2. \A q \in Queries \ {"list", doing[c].merchant} : ~Announced(c, q)
    BY <1>4 DEF Changed, Announced
  <2>3. \A q \in Queries \ {"list", doing[c].merchant} : Pending(q) => Pending(q)'
    BY <1>4, <2>2, PendingKept DEF Changed
  <2> QED BY <1>0, <1>4, <2>1, <2>3, InvalidateKeeps
          DEF Changed, onChanged, merchantVars, merchantRows
<1>5. CASE OpenForm
  BY <1>5, DrawerSame DEF OpenForm, merchantVars, merchantRows, queries, Pending, Announced
<1> QED BY <1>1, <1>2, <1>3, <1>4, <1>5, ReadKeeps, AnsweredKeeps, UnavailableKeeps,
           RetryKeeps, OpenDrawerKeeps, CloseKeeps
        DEF MerchantsPageSteps, submit, rotateKey, AskFunding, AskStatus

(* A merchant that was created stays one, and no other changes.            *)
LEMMA RowsOf ==
  ASSUME TypeInv, NEW m, NEW s \in MerchantStatus,
         \/ create(m, s) \/ updateStatus(m, s) \/ rotate(m) \/ provisionDemoFunding(m)
  PROVE  /\ \A n \in Merchants \ {m} : Row(n)' = Row(n)
         /\ \A n \in Merchants : status[n] # "absent" => status'[n] # "absent"
<1>1. /\ \A n \in Merchants \ {m} : status'[n] = status[n]
      /\ \A n \in Merchants \ {m} : n \in funded' <=> n \in funded
      /\ \A n \in Merchants : status'[n] \in {status[n], s}
  BY DEF create, updateStatus, rotate, provisionDemoFunding, SetStatus, TypeInv
<1> QED BY <1>1 DEF Row, MerchantStatus

LEMMA DrawerExecutes ==
  ASSUME KeyInv, TypeInv, DrawerInv, NEW c \in Slots, Executes(c)
  PROVE  DrawerInv'
<1>0. /\ doing[c] \in Doings /\ doing[c].merchant \in Merchants
      /\ doing[c].stage \in {"sent", "given up"}
  BY DEF Executes, KeyInv, Doings
<1>m. PICK m \in Merchants : m = doing[c].merchant
  BY <1>0
<1>1. PICK what \in {"create", "demo", "rotate", "fund"} \cup Statuses : what = doing[c].what
  BY DEF Executes
<1>2. PICK s \in MerchantStatus :
        create(m, s) \/ updateStatus(m, s) \/ rotate(m) \/ provisionDemoFunding(m)
  BY <1>m, MerchantsAssumption DEF Executes, MerchantStatus
<1>3. /\ \A n \in Merchants \ {m} : Row(n)' = Row(n)
      /\ \A n \in Merchants : status[n] # "absent" => status'[n] # "absent"
  BY <1>2, RowsOf
<1>4. what = "create" => ~Known(m)
  BY <1>m, <1>1, MerchantsAssumption DEF Executes, create, DrawerInv, MerchantStatus
<1>5. /\ UNCHANGED <<drawer, reading, cached, current, failing>>
      /\ overtaken \subseteq overtaken'
  BY DEF Executes, screen
<1>6. CASE doing[c].stage = "sent"
  <2>1. PICK k : doing' = [doing EXCEPT ![c] =
                             [doing[c] EXCEPT !.stage = "answered", !.key = k]]
    BY <1>0, <1>6 DEF Executes, KeyInv
  <2>2. /\ doing'[c].stage = "answered" /\ doing'[c].what = what /\ doing'[c].merchant = m
        /\ \A e \in Slots \ {c} : doing'[e] = doing[e]
    BY <1>0, <1>m, <1>1, <2>1 DEF KeyInv, Doings
  <2>3. Pending("list")'
    BY <2>2 DEF Pending, Announced
  <2>4. what \notin {"create", "demo"} => Pending(m)'
    BY <2>2, MerchantsPageAssumption DEF Pending, Announced
  <2>5. what = "demo" => m \in overtaken'
    BY <1>m, <1>1, <1>6 DEF Executes
  <2>6. \A q \in Queries \ {"list"} : ~Announced(c, q)
    BY <1>6 DEF Announced
  <2>7. \A q \in Queries : Pending(q) => Pending(q)'
    BY <2>1, <2>3, <2>6, PendingKept
  <2> QED BY <1>3, <1>4, <1>5, <2>3, <2>4, <2>5, <2>7, RowsKeep
<1>7. CASE doing[c].stage = "given up"
  <2>1. doing' = [doing EXCEPT ![c] = NoDoing] /\ {"list", m} \subseteq overtaken'
    BY <1>m, <1>1, <1>7 DEF Executes, Affected
  <2>2. \A q \in Queries : ~Announced(c, q)
    BY <1>7 DEF Announced
  <2>3. \A q \in Queries : Pending(q) => Pending(q)'
    BY <2>1, <2>2, PendingKept
  <2> QED BY <1>1, <1>3, <1>4, <1>5, <2>1, <2>3, RowsKeep
<1> QED BY <1>0, <1>6, <1>7

LEMMA DrawerApiStep ==
  ASSUME KeyInv, TypeInv, DrawerTypes, DrawerInv, MerchantsApi
  PROVE  DrawerInv'
<1>1. ASSUME NEW c \in Slots, Refuses(c) \/ NeverArrives(c) PROVE DrawerInv'
  <2>1. \A q \in Queries : ~Announced(c, q)
    BY <1>1 DEF Refuses, NeverArrives, Announced
  <2>2. \A q \in Queries : Pending(q) => Pending(q)'
    BY <1>1, <2>1, PendingKept DEF Refuses, NeverArrives
  <2> QED BY <1>1, <2>2, DrawerSame
          DEF Refuses, NeverArrives, merchantVars, merchantRows, screen, queries
<1>2. ASSUME NEW c \in Slots, TimesOutUndone(c) PROVE DrawerInv'
  <2>1. PICK d : doing' = [doing EXCEPT ![c] = d]
    BY <1>2 DEF TimesOutUndone, KeyInv
  <2>2. \A q \in Queries : doing[c].what # "demo" \/ q # "list" => ~Announced(c, q)
    BY <1>2 DEF TimesOutUndone, Announced
  <2>3. \A q \in Queries : doing[c].what # "demo" \/ q # "list" => (Pending(q) => Pending(q)')
    BY <2>1, <2>2, PendingKept
  <2>4. CASE doing[c].what = "demo"
    BY <1>2, <2>3, <2>4, InvalidateKeeps
    DEF TimesOutUndone, merchantVars, merchantRows, Queries, screen
  <2>5. CASE doing[c].what # "demo"
    BY <1>2, <2>3, <2>5, DrawerSame
    DEF TimesOutUndone, merchantVars, merchantRows, screen, queries
  <2> QED BY <2>4, <2>5
<1>3. ASSUME NEW c \in Slots, TimesOutDone(c) PROVE DrawerInv'
  <2>1. doing' = [doing EXCEPT ![c] = NoDoing]
    BY <1>3 DEF TimesOutDone
  <2>2. \A q \in Queries \ {"list", doing[c].merchant} : ~Announced(c, q)
    BY DEF Announced
  <2>3. doing[c].what = "demo" => \A q \in Queries \ {"list"} : ~Announced(c, q)
    BY DEF Announced
  <2>4. CASE doing[c].what = "demo"
    <3>1. \A q \in Queries \ {"list"} : Pending(q) => Pending(q)'
      BY <2>1, <2>3, <2>4, PendingKept
    <3> QED BY <1>3, <2>4, <3>1, InvalidateKeeps
            DEF TimesOutDone, merchantVars, merchantRows, Queries, screen
  <2>5. CASE doing[c].what # "demo"
    <3>1. \A q \in Queries : Pending(q) => q \in overtaken' \/ Pending(q)'
      BY <1>3, <2>1, <2>2, <2>5, PendingKept DEF TimesOutDone, Affected
    <3> QED BY <1>3, <2>5, <3>1, DrawerSame DEF TimesOutDone, merchantVars, merchantRows, screen
  <2> QED BY <2>4, <2>5
<1> QED BY <1>1, <1>2, <1>3, DrawerExecutes DEF MerchantsApi

(* Once nothing is under way, the list and the drawer of the merchants page *)
(* show what the server has, unless a write overtook them unnoticed, or the *)
(* page says that they could not be read (invalidateQueries in onChanged    *)
(* and onCreated, and the retry of providers.tsx).                          *)
THEOREM DrawerHolds == PortalSpec => []DrawerIsCurrent
<1> DEFINE AtRest == DrawerTypes /\ DrawerInv
           All == /\ SuspensionInv /\ KeyInv
                  /\ page = "none" => reading["list"] = Started
                  /\ page # "none" => AtRest
<1>1. Init_Portal => All
  <2>1. Init_Portal => SuspensionInv /\ KeyInv /\ AtRest
    BY PortalInit, SuspensionInit, KeyInit, DrawerInit
  <2>2. Init_Portal => reading["list"] = Started
    BY DEF Init_Portal, MerchantsOpened, Queries
  <2> QED BY <2>1, <2>2
<1>2. All /\ [Next_Portal]_portalVars => All'
  <2> SUFFICES ASSUME All, [Next_Portal]_portalVars PROVE All'
    OBVIOUS
  <2>1. TypeInv
    BY DEF SuspensionInv
  <2>2. CASE UNCHANGED <<merchantVars, merchantPageVars>>
    <3>1. UNCHANGED <<status, funded, drawer, reading, cached, current, failing, overtaken, doing>>
      BY <2>2 DEF merchantVars, merchantRows, merchantPageVars, screen, queries
    <3>2. SuspensionInv' /\ KeyInv'
      BY <2>2, SuspensionSame, KeysSame
      DEF merchantVars, merchantRows, merchantPageVars, screen
    <3>3. AtRest => AtRest'
      BY <3>1, DrawerSame DEF DrawerTypes, Pending, Announced
    <3> QED BY <3>1, <3>2, <3>3, NoPageStep
  <2>3. CASE MerchantsNext \/ OtherClients
    <3>1. SuspensionInv' /\ KeyInv'
      BY <2>3, SuspensionStep, KeyStep, OtherKeys
    <3>2. CASE page = "none"
      BY <3>1, <3>2, NoPageStep
    <3>3. CASE page # "none"
      <4>1. MerchantsNext \/ UNCHANGED <<merchantVars, merchantPageVars>>
        BY <3>3, NoPageStep
      <4>2. MerchantsNext => AtRest'
        BY <2>1, <3>3, DrawerTypesStep, DrawerPageStep, DrawerApiStep DEF MerchantsNext
      <4> QED BY <2>2, <3>1, <3>3, <4>1, <4>2, NoPageStep
    <3> QED BY <3>2, <3>3
  <2> QED BY <2>2, <2>3, PortalStep
<1>3. All => DrawerIsCurrent
  <2> SUFFICES ASSUME All, \A c \in Slots : doing[c] = NoDoing,
                      \A r \in Queries : reading[r] = Resting,
                      NEW q \in Queries \ (overtaken \cup failing), Observed(q)
               PROVE  cached[q] = Answer(q)
    BY DEF DrawerIsCurrent
  <2>1. page # "none"
    BY RestingTyped DEF Queries
  <2>2. ~Pending(q)
    BY DEF Pending, Announced, NoDoing
  <2> QED BY <2>1, <2>2 DEF DrawerInv, UpToDate
<1> QED BY <1>1, <1>2, <1>3, PTL DEF PortalSpec

-----------------------------------------------------------------------------
(* The list pages. *)

(* An answer to a query is a page of the rows that the query selects in    *)
(* its order, of rows that were there and with some that have left.        *)
Fits(k, answer) ==
  /\ answer.of \subseteq Created
  /\ \E gone \in SUBSET left : \E s \in Ordered(k, answer.of, gone) :
       answer.rows = Page(s, k.page, PageSize)

(* Its total counts these rows at least, for no row is ever deleted. *)
Counts(k, answer) == k.status = "all" =>
  /\ answer.total \in Nat
  /\ Cardinality(Selected(k, answer.of, {})) <= answer.total

QueryKeys == [search : {"", "text"}, status : {"all", "open"}, dateRange : {"30d", "custom"},
              sortBy : SortColumns, order : {"asc", "desc"}, page : Nat \ {0}]

Screens == [typed : {"", "text"}, search : {"", "text"}, status : {"all", "open"},
            dateRange : {"30d", "custom"}, sortBy : SortColumns, order : {"asc", "desc"},
            page : Nat \ {0}]

Whole(answer) ==
  answer \in [rows : {answer.rows}, total : {answer.total}, of : {answer.of}]

IsFetch(f, k) ==
  /\ f \in [asked : {k}, stage : {"sent", "read"}, retried : BOOLEAN, answer : {f.answer}]
  /\ Whole(f.answer) /\ k \in QueryKeys
  /\ f.stage = "read" => Fits(k, f.answer) /\ Counts(k, f.answer)

IsCached(e, k) ==
  /\ e \in [data : BOOLEAN, answer : {e.answer}, fresh : BOOLEAN, failed : BOOLEAN]
  /\ k \in QueryKeys
  /\ e.data => Fits(k, e.answer) /\ Counts(k, e.answer)

ListInv ==
  /\ born \in [Rows -> Int] /\ ui \in Screens
  /\ \A k \in DOMAIN flight : IsFetch(flight[k], k)
  /\ \A k \in DOMAIN cache : IsCached(cache[k], k)

LEMMA KeyTyped ==
  ASSUME NEW u \in Screens
  PROVE  QueryKey(u) \in QueryKeys
  BY DEF Screens, QueryKeys, QueryKey, SearchParams

LEMMA SentIs ==
  ASSUME NEW q \in QueryKeys
  PROVE  /\ Sent(q) \in [asked : {q}, stage : {"sent"}, retried : {FALSE}, answer : {NoRows}]
         /\ IsFetch(Sent(q), q)
         /\ IsFetch([Sent(q) EXCEPT !.retried = TRUE], q)
<1>1. Sent(q) \in [asked : {q}, stage : {"sent"}, retried : {FALSE}, answer : {NoRows}]
  BY DEF Sent
<1>2. [Sent(q) EXCEPT !.retried = TRUE]
        \in [asked : {q}, stage : {"sent"}, retried : {TRUE}, answer : {NoRows}]
  BY <1>1
<1>3. Whole(NoRows)
  BY DEF Whole, NoRows
<1>4. \A f : \A b \in BOOLEAN :
        f \in [asked : {q}, stage : {"sent"}, retried : {b}, answer : {NoRows}] => IsFetch(f, q)
  BY <1>3 DEF IsFetch
<1> QED BY <1>1, <1>2, <1>4

LEMMA WithIs ==
  ASSUME NEW f, NEW k, NEW v
  PROVE  /\ DOMAIN With(f, k, v) = {k} \cup DOMAIN f
         /\ With(f, k, v)[k] = v
         /\ \A j \in DOMAIN f \ {k} : With(f, k, v)[j] = f[j]
         /\ DOMAIN Without(f, k) = DOMAIN f \ {k}
         /\ \A j \in DOMAIN f \ {k} : Without(f, k)[j] = f[j]
  BY DEF With, Without

LEMMA FiltersTyped == initialFilters \in Screens
<1>1. 1 \in Nat \ {0}
  OBVIOUS
<1> QED BY <1>1 DEF initialFilters, Screens, SortColumns

LEMMA ListInit == ListOpened \/ ListsClosed => ListInv
<1>0. DOMAIN <<>> = {}
  OBVIOUS
<1>1. PICK empty : empty = <<>> /\ DOMAIN empty = {}
  BY <1>0
<1>2. ASSUME ListsClosed PROVE ListInv
  <2>1. cache = empty /\ flight = empty
    BY <1>1, <1>2 DEF ListsClosed
  <2>2. born \in [Rows -> Int] /\ ui \in Screens
    BY <1>2, FiltersTyped DEF ListsClosed
  <2> QED BY <1>1, <2>1, <2>2 DEF ListInv
<1>3. ASSUME ListOpened PROVE ListInv
  <2> DEFINE k == QueryKey(ui)
  <2>1. cache = empty /\ flight = With(empty, k, Sent(k))
    BY <1>1, <1>3 DEF ListOpened, QueryKey
  <2>6. born \in [Rows -> Int] /\ ui \in Screens
    <3>1. born \in [Rows -> Nat] /\ Nat \subseteq Int
      BY <1>3, ListPagesAssumption DEF ListOpened
    <3> QED BY <1>3, <3>1, FiltersTyped DEF ListOpened
  <2>7. k \in QueryKeys
    BY <2>6, KeyTyped
  <2> HIDE DEF k
  <2>2. DOMAIN flight = {k} /\ flight[k] = Sent(k)
    BY <1>1, <2>1 DEF With
  <2>3. IsFetch(flight[k], k)
    BY <2>2, <2>7, SentIs
  <2>4. \A j \in DOMAIN flight : j = k
    BY <2>2
  <2>5. DOMAIN cache = {}
    BY <1>1, <2>1
  <2> QED BY <2>3, <2>4, <2>5, <2>6 DEF ListInv
<1> QED BY <1>2, <1>3

(* The order of the rows of an answer is that of their instants. *)
LEMMA FitsKept ==
  ASSUME NEW k, NEW answer, Fits(k, answer), UNCHANGED list,
         \A r \in Created : born'[r] = born[r],
         Created \subseteq Created', left \subseteq left'
  PROVE  Fits(k, answer)'
<1>0. PICK gone \in SUBSET left : \E s \in Ordered(k, answer.of, gone) :
        answer.rows = Page(s, k.page, PageSize)
  BY DEF Fits
<1>1. PICK s \in Ordered(k, answer.of, gone) : answer.rows = Page(s, k.page, PageSize)
  BY <1>0
<1> DEFINE S == Selected(k, answer.of, gone)
<1>2. S \subseteq answer.of /\ answer.of \subseteq Created
  BY DEF Selected, Fits
<1>3. s \in SetToSeqs(S) /\ \A i \in DOMAIN s : s[i] \in S
  BY <1>1 DEF Ordered, Orders, SetToSeqs
<1>4. \A i \in DOMAIN s : Column(k, gone)'[s[i]] = Column(k, gone)[s[i]]
  <2> SUFFICES ASSUME NEW i \in DOMAIN s
               PROVE  Column(k, gone)'[s[i]] = Column(k, gone)[s[i]]
    OBVIOUS
  <2>1. s[i] \in Rows /\ born'[s[i]] = born[s[i]]
    BY <1>2, <1>3 DEF Created
  <2> QED BY <2>1 DEF Column
<1> HIDE DEF S
<1>5. s \in Orders(list, S, Column(k, gone)', k.order)
  BY <1>1, <1>3, <1>4 DEF Ordered, Orders, S
<1>6. s \in Ordered(k, answer.of, gone)'
  BY <1>5 DEF Ordered, S, Selected
<1> QED BY <1>1, <1>2, <1>6 DEF Fits

(* A step that creates no row and lets none leave moves only answers. *)
LEMMA FitsSame ==
  ASSUME UNCHANGED <<list, born, left>>
  PROVE  \A k, answer : Fits(k, answer)' <=> Fits(k, answer)
  BY DEF Fits, Created, Ordered, Orders, Selected, Column

LEMMA FlightKept ==
  ASSUME ListInv, UNCHANGED <<list, born, left, cache>>, NEW k, NEW f, IsFetch(f, k),
         ui' \in Screens,
         \/ flight' = With(flight, k, f)
         \/ k \in DOMAIN flight /\ flight' = [flight EXCEPT ![k] = f]
         \/ flight' = flight
  PROVE  ListInv'
<1>0. \A j \in DOMAIN flight : IsFetch(flight[j], j)
  BY DEF ListInv
<1>1. \A j \in DOMAIN flight' : IsFetch(flight'[j], j)
  <2>1. CASE flight' = With(flight, k, f)
    BY <1>0, <2>1 DEF With
  <2>2. CASE k \in DOMAIN flight /\ flight' = [flight EXCEPT ![k] = f]
    BY <1>0, <2>2
  <2>3. CASE flight' = flight
    BY <1>0, <2>3
  <2> QED BY <2>1, <2>2, <2>3
<1>2. \A j, g : IsFetch(g, j)' <=> IsFetch(g, j)
  BY FitsSame DEF IsFetch, Counts, Selected
<1>3. \A j, g : IsCached(g, j)' <=> IsCached(g, j)
  BY FitsSame DEF IsCached, Counts, Selected
<1> QED BY <1>1, <1>2, <1>3 DEF ListInv

LEMMA CacheKept ==
  ASSUME ListInv, UNCHANGED <<list, born, left, ui>>, NEW k, NEW e, IsCached(e, k),
         flight' \in {flight, Without(flight, k)},
         \/ cache' = With(cache, k, e)
         \/ k \in DOMAIN cache /\ cache' = [cache EXCEPT ![k] = e]
  PROVE  ListInv'
<1>0. /\ \A j \in DOMAIN flight : IsFetch(flight[j], j)
      /\ \A j \in DOMAIN cache : IsCached(cache[j], j)
  BY DEF ListInv
<1>1. \A j \in DOMAIN cache' : IsCached(cache'[j], j)
  <2>1. CASE cache' = With(cache, k, e)
    BY <1>0, <2>1 DEF With
  <2>2. CASE k \in DOMAIN cache /\ cache' = [cache EXCEPT ![k] = e]
    BY <1>0, <2>2
  <2> QED BY <2>1, <2>2
<1>2. \A j \in DOMAIN flight' : IsFetch(flight'[j], j)
  BY <1>0 DEF Without
<1>3. \A j, g : IsFetch(g, j)' <=> IsFetch(g, j)
  BY FitsSame DEF IsFetch, Counts, Selected
<1>4. \A j, g : IsCached(g, j)' <=> IsCached(g, j)
  BY FitsSame DEF IsCached, Counts, Selected
<1> QED BY <1>1, <1>2, <1>3, <1>4 DEF ListInv

(* A fetch that begins, for a query that comes on the screen or again. *)
LEMMA ObserveKeeps ==
  ASSUME ListInv, UNCHANGED <<list, born, left, cache>>, NEW u \in Screens, ui' \in Screens,
         flight' = Observe(u)
  PROVE  ListInv'
<1>1. flight' = flight \/ flight' = With(flight, QueryKey(u), Sent(QueryKey(u)))
  BY DEF Observe, QueryKey
<1>2. IsFetch(Sent(QueryKey(u)), QueryKey(u))
  BY KeyTyped, SentIs
<1> QED BY <1>1, <1>2, FlightKept

LEMMA SelectedFinite ==
  ASSUME NEW q, NEW S \in SUBSET Rows, NEW gone
  PROVE  /\ Selected(q, S, gone) \in SUBSET S /\ IsFiniteSet(Selected(q, S, gone))
         /\ Cardinality(Selected(q, S, gone)) \in Nat
<1>1. Selected(q, S, gone) \subseteq S
  BY DEF Selected
<1>2. IsFiniteSet(Selected(q, S, gone))
  BY <1>1, ListPagesAssumption, FS_Subset
<1> QED BY <1>1, <1>2, FS_CardinalityType

LEMMA CountedSequence ==
  ASSUME NEW q, NEW gone, NEW s \in Ordered(q, Created, gone)
  PROVE  Len(s) \in Nat /\ Cardinality(Selected(q, Created, gone)) <= Len(s)
<1>1. Created \in SUBSET Rows
  BY DEF Created
<1> DEFINE S == Selected(q, Created, gone)
<1>2. Cardinality(S) \in Nat
  BY <1>1, SelectedFinite
<1>3. s \in [1..Cardinality(S) -> S]
  BY DEF Ordered, Orders, SetToSeqs
<1> HIDE DEF S
<1>4. Len(s) = Cardinality(S)
  BY <1>2, <1>3
<1> QED BY <1>2, <1>4 DEF S

LEMMA ReadRowsKeeps ==
  ASSUME ListInv, NEW k \in DOMAIN flight, ReadRows(k)
  PROVE  ListInv'
<1>1. IsFetch(flight[k], k)
  BY DEF ListInv
<1>2. flight[k].asked = k /\ k \in QueryKeys
  BY <1>1 DEF IsFetch
<1>3. PICK s \in Ordered(k, Created, left) :
        flight' = [flight EXCEPT ![k].stage = "read", ![k].answer =
          [rows |-> Page(s, k.page, PageSize), total |-> Len(s), of |-> Created]]
  BY <1>2 DEF ReadRows
<1> DEFINE a == [rows |-> Page(s, k.page, PageSize), total |-> Len(s), of |-> Created]
           f == [flight[k] EXCEPT !.stage = "read", !.answer = a]
<1>4. Whole(a) /\ a.of = Created /\ a.rows = Page(s, k.page, PageSize) /\ a.total = Len(s)
  BY DEF Whole
<1>5. Fits(k, a)
  BY <1>4 DEF Fits
<1>c. Counts(k, a)
  <2>1. k.status = "all" => Selected(k, Created, left) = Selected(k, Created, {})
    BY DEF Selected
  <2>2. Len(s) \in Nat /\ Cardinality(Selected(k, Created, left)) <= Len(s)
    BY CountedSequence
  <2> QED BY <1>4, <2>1, <2>2 DEF Counts
<1> HIDE DEF a
<1>6. f \in [asked : {k}, stage : {"sent", "read"}, retried : BOOLEAN, answer : {a}]
      /\ f.answer = a
  BY <1>1 DEF IsFetch
<1>7. flight' = [flight EXCEPT ![k] = f]
  BY <1>3 DEF a
<1> HIDE DEF f
<1>8. IsFetch(f, k)
  BY <1>2, <1>4, <1>5, <1>c, <1>6 DEF IsFetch
<1> QED BY <1>7, <1>8, FlightKept DEF ReadRows, server, ListInv

LEMMA ListAnsweredKeeps ==
  ASSUME ListInv, NEW k \in DOMAIN flight, Answered(k)
  PROVE  ListInv'
<1>1. IsFetch(flight[k], k) /\ flight[k].stage = "read"
  BY DEF ListInv, Answered
<1> DEFINE a == flight[k].answer  b == CountedAnswer(k)
           e == [data |-> TRUE, answer |-> b, fresh |-> TRUE, failed |-> FALSE]
<1>2. Whole(a) /\ Fits(k, a) /\ Counts(k, a) /\ k \in QueryKeys /\ flight[k].asked = k
  BY <1>1 DEF IsFetch
<1>3. /\ b.rows = a.rows /\ b.of = a.of
      /\ b.total \in {a.total, Cardinality(Selected(k, Created, left))}
  BY <1>2 DEF Whole, CountedAnswer
<1> HIDE DEF b
<1>c. Counts(k, b)
  <2> SUFFICES ASSUME k.status = "all"
               PROVE  b.total \in Nat /\ Cardinality(Selected(k, a.of, {})) <= b.total
    BY <1>3 DEF Counts
  <2>1. a.of \subseteq Created /\ Created \in SUBSET Rows
    BY <1>2 DEF Fits, Created
  <2>2. Selected(k, a.of, {}) \in SUBSET Selected(k, Created, left)
    BY <2>1 DEF Selected
  <2>3. /\ IsFiniteSet(Selected(k, Created, left))
        /\ Cardinality(Selected(k, Created, left)) \in Nat
    BY <2>1, SelectedFinite
  <2>4. Cardinality(Selected(k, a.of, {})) <= Cardinality(Selected(k, Created, left))
    BY <2>2, <2>3, FS_Subset
  <2> QED BY <1>2, <1>3, <2>3, <2>4 DEF Counts
<1>4. Fits(k, b)
  BY <1>2, <1>3 DEF Fits
<1>5. IsCached(e, k)
  BY <1>2, <1>4, <1>c DEF IsCached
<1>6. cache' = With(cache, k, e) /\ flight' = Without(flight, k)
  BY DEF Answered, b
<1> HIDE DEF e
<1> QED BY <1>5, <1>6, CacheKept DEF Answered, server

LEMMA FailsKeeps ==
  ASSUME ListInv, NEW k \in DOMAIN flight, Fails(k)
  PROVE  ListInv'
<1>1. IsFetch(flight[k], k)
  BY DEF ListInv
<1>2. flight[k].asked = k /\ k \in QueryKeys /\ ui \in Screens
  BY <1>1 DEF IsFetch, ListInv
<1>3. CASE ~flight[k].retried
  <2>1. flight' = [flight EXCEPT ![k] = [Sent(k) EXCEPT !.retried = TRUE]]
    BY <1>2, <1>3 DEF Fails
  <2>2. IsFetch([Sent(k) EXCEPT !.retried = TRUE], k)
    BY <1>2, SentIs
  <2> QED BY <1>2, <1>3, <2>1, <2>2, FlightKept DEF Fails, server
<1>4. CASE flight[k].retried
  <2>1. CASE k \in DOMAIN cache
    <3> DEFINE e == [cache[k] EXCEPT !.failed = TRUE]
    <3>1. IsCached(cache[k], k)
      BY <2>1 DEF ListInv
    <3>2. IsCached(e, k)
      BY <3>1 DEF IsCached
    <3>3. cache' = [cache EXCEPT ![k] = e] /\ flight' = Without(flight, k)
      BY <1>4, <2>1 DEF Fails, GiveUp
    <3> HIDE DEF e
    <3> QED BY <2>1, <3>2, <3>3, CacheKept DEF Fails, server
  <2>2. CASE k \notin DOMAIN cache
    <3> DEFINE e == [data |-> FALSE, answer |-> NoRows, fresh |-> FALSE, failed |-> TRUE]
    <3>1. IsCached(e, k)
      BY <1>2 DEF IsCached
    <3>2. cache' = With(cache, k, e) /\ flight' = Without(flight, k)
      BY <1>4, <2>2 DEF Fails, GiveUp
    <3> HIDE DEF e
    <3> QED BY <3>1, <3>2, CacheKept DEF Fails, server
  <2> QED BY <2>1, <2>2
<1> QED BY <1>3, <1>4

LEMMA GoStaleKeeps ==
  ASSUME ListInv, NEW k \in DOMAIN cache, GoStale(k)
  PROVE  ListInv'
<1> DEFINE e == [cache[k] EXCEPT !.fresh = FALSE]
<1>1. IsCached(cache[k], k)
  BY DEF ListInv
<1>2. IsCached(e, k)
  BY <1>1 DEF IsCached
<1>3. cache' = [cache EXCEPT ![k] = e] /\ flight' = flight
  BY DEF GoStale
<1> HIDE DEF e
<1> QED BY <1>2, <1>3, CacheKept DEF GoStale, server

(* The writers of the rows only add rows and let some leave. *)
LEMMA WritersKeep ==
  ASSUME ListInv, NEW r \in Rows, CreateRow(r) \/ LeaveStatus(r)
  PROVE  ListInv'
<1>1. UNCHANGED <<list, cache, flight>> /\ left \subseteq left'
  BY DEF CreateRow, LeaveStatus
<1>2. /\ born' \in [Rows -> Int] /\ ui' \in Screens
      /\ \A q \in Created : born'[q] = born[q]
  BY DEF CreateRow, LeaveStatus, Created, ListInv
<1>3. Created \subseteq Created'
  BY <1>2 DEF Created
<1>4. \A k, a : Fits(k, a) => Fits(k, a)'
  BY <1>1, <1>2, <1>3, FitsKept
<1>5. \A k, a : Counts(k, a)' <=> Counts(k, a)
  BY DEF Counts, Selected
<1> QED BY <1>1, <1>2, <1>4, <1>5 DEF ListInv, IsFetch, IsCached

LEMMA ListStep == ListInv /\ [ListNext]_listVars => ListInv'
<1> SUFFICES ASSUME ListInv, [ListNext]_listVars PROVE ListInv'
  OBVIOUS
<1>1. CASE UNCHANGED listVars
  <2>1. UNCHANGED <<list, born, left, cache, flight, ui>>
    BY <1>1 DEF listVars, server
  <2>2. \A k, a : Fits(k, a)' <=> Fits(k, a)
    BY <2>1, FitsSame
  <2> QED BY <2>1, <2>2 DEF ListInv, IsFetch, IsCached, Counts, Selected
<1>2. ASSUME NEW u \in Screens, Click(u) PROVE ListInv'
  BY <1>2, ObserveKeeps DEF Click, server
<1>t. ui \in Screens /\ Key \in QueryKeys
  BY KeyTyped DEF ListInv, Key
<1>3. CASE UserStep
  <2>1. CASE Retry
    <3>1. flight' = With(flight, Key, Sent(Key)) /\ IsFetch(Sent(Key), Key)
      BY <1>t, <2>1, SentIs DEF Retry, Key, QueryKey
    <3> QED BY <1>t, <2>1, <3>1, FlightKept DEF Retry, server
  <2>2. CASE Reopen
    BY <1>2, <2>2, FiltersTyped DEF Reopen
  <2>3. ASSUME Search \/ SelectStatus \/ SelectCustom
                 \/ \E column \in SortColumns : toggleSort(column)
        PROVE  ListInv'
    <3>1. PICK u \in Screens : updateFilters(u)
      <4>1. CASE Search \/ SelectStatus \/ SelectCustom
        BY <1>t, <4>1 DEF Search, SelectStatus, SelectCustom, Screens
      <4>2. ASSUME NEW column \in SortColumns, toggleSort(column)
            PROVE  \E u \in Screens : updateFilters(u)
        BY <1>t, <4>2 DEF toggleSort, Screens
      <4> QED BY <2>3, <4>1, <4>2
    <3>2. [u EXCEPT !.page = 1] \in Screens
      <4>1. 1 \in Nat \ {0}
        OBVIOUS
      <4> QED BY <4>1 DEF Screens
    <3> QED BY <1>2, <3>1, <3>2 DEF updateFilters
  <2>4. ASSUME Paginate PROVE ListInv'
    <3>1. PICK n \in Nat \ {0} : Click([ui EXCEPT !.page = n])
      <4>1. Key.page \in Nat \ {0}
        BY <1>t DEF QueryKeys
      <4>2. Key.page > 1 => Key.page - 1 \in Nat \ {0}
        BY <4>1
      <4>3. Key.page + 1 \in Nat \ {0}
        BY <4>1
      <4> QED BY <2>4, <4>2, <4>3 DEF Paginate
    <3>2. [ui EXCEPT !.page = n] \in Screens
      BY <1>t DEF Screens
    <3> QED BY <1>2, <3>1, <3>2
  <2>5. CASE PaymentsTable \/ LedgerTable \/ NachaFilesTable \/ WebhookEventsTable
    BY <2>3, <2>4, <2>5
    DEF PaymentsTable, LedgerTable, NachaFilesTable, WebhookEventsTable, PaymentsControls,
        LedgerFilters, LedgerPager, FilesFilters, FilesPager, DeliveryFilters, DeliveryPager
  <2> QED BY <1>3, <2>1, <2>2, <2>5 DEF UserStep
<1>4. CASE Debounce
  <2>1. ui' \in Screens /\ flight' = Observe(ui')
    BY <1>4, <1>t DEF Debounce, Screens
  <2> QED BY <1>4, <2>1, ObserveKeeps DEF Debounce, server
<1>5. CASE Poll
  <2>1. flight' = With(flight, Key, Sent(Key)) /\ IsFetch(Sent(Key), Key)
    BY <1>t, <1>5, SentIs DEF Poll, Key, QueryKey
  <2> QED BY <1>t, <1>5, <2>1, FlightKept DEF Poll, server
<1> QED BY <1>1, <1>3, <1>4, <1>5, ReadRowsKeeps, ListAnsweredKeeps, FailsKeeps, GoStaleKeeps,
           WritersKeep DEF ListNext, FetchStep

(* What a list shows is a page of an answer to the query on the screen,     *)
(* however many fetches are under way and in whatever order they come back  *)
(* (useQuery's key and what the queryFn sends).                             *)
THEOREM AnswersKeepApart == PortalSpec => []AnswersStayApart
<1>1. ListInv => AnswersStayApart
  <2> SUFFICES ASSUME ListInv, Shown
               PROVE  \E gone \in SUBSET left : \E s \in Ordered(Key, Data.of, gone) :
                        Data.rows = Page(s, Key.page, PageSize)
    BY DEF AnswersStayApart
  <2>1. Key \in DOMAIN cache /\ cache[Key].data
    BY DEF Shown, HasData
  <2>2. Fits(Key, Data)
    BY <2>1 DEF ListInv, IsCached, Data
  <2> QED BY <2>2 DEF Fits
<1> QED BY <1>1, PortalInit, PortalStep, ListInit, ListStep, PTL DEF PortalSpec

-----------------------------------------------------------------------------
LEMMA PagesCover ==
  ASSUME NEW total \in Nat, NEW size \in Nat \ {0}, NEW n \in Nat,
         TotalPages(total, size) <= n
  PROVE  total <= n * size
<1> DEFINE a == total + size - 1  q == a \div size
<1>1. a \in Int /\ q \in Int /\ size \in Int /\ size > 0 /\ q <= n
  BY DEF TotalPages
<1>2. a = size * q + (a % size) /\ a % size < size
  OBVIOUS
<1>3. size * q <= size * n
  BY <1>1
<1> QED BY <1>1, <1>2, <1>3

-----------------------------------------------------------------------------
(* What a row is sorted by, unless it is the status, and the place of a    *)
(* row: one more than the number of rows ahead of it.                      *)
Value(k) == Column(k, {})

Before(k, x, y) ==
  \/ Value(k)[x] = Value(k)[y] /\ TieBreak(list, x, y)
  \/ IF k.order = "asc" THEN Value(k)[x] < Value(k)[y] ELSE Value(k)[x] > Value(k)[y]

Ahead(k, S, r) == {x \in S : x # r /\ Before(k, x, r)}

Distinct(k, S) == list = "payments" =>
  \A x, y \in S : x # y => Value(k)[x] # Value(k)[y]

LEMMA BeforeIsStrict ==
  ASSUME NEW k, Value(k) \in [Rows -> Int], NEW S \in SUBSET Rows, Distinct(k, S),
         NEW x \in S, NEW y \in S, x # y, Before(k, x, y)
  PROVE  ~Before(k, y, x)
<1>1. x \in Nat /\ y \in Nat /\ Value(k)[x] \in Int /\ Value(k)[y] \in Int
  BY ListPagesAssumption
<1>2. CASE Value(k)[x] = Value(k)[y]
  <2>1. TieBreak(list, x, y) /\ list # "payments"
    BY <1>1, <1>2 DEF Before, Distinct
  <2>2. ~TieBreak(list, y, x)
    BY <1>1, <2>1 DEF TieBreak
  <2> QED BY <1>1, <1>2, <2>2 DEF Before
<1>3. CASE Value(k)[x] # Value(k)[y]
  BY <1>1, <1>3 DEF Before
<1> QED BY <1>2, <1>3

LEMMA Position ==
  ASSUME NEW k, Value(k) \in [Rows -> Int], NEW S \in SUBSET Rows, IsFiniteSet(S),
         Distinct(k, S), NEW s \in Orders(list, S, Value(k), k.order), NEW r \in S
  PROVE  /\ Len(s) = Cardinality(S) /\ DOMAIN s = 1..Cardinality(S)
         /\ Cardinality(Ahead(k, S, r)) \in Nat
         /\ Cardinality(Ahead(k, S, r)) + 1 \in DOMAIN s
         /\ s[Cardinality(Ahead(k, S, r)) + 1] = r
<1> DEFINE n == Cardinality(S)
<1>1. n \in Nat
  BY FS_CardinalityType
<1>2. /\ s \in [1..n -> S]
      /\ \A i, j \in 1..n : i # j => s[i] # s[j]
      /\ \A i, j \in 1..n : i < j => Before(k, s[i], s[j])
  BY DEF Orders, SetToSeqs, Before
<1>a. DOMAIN s = 1..n /\ Len(s) = n
  BY <1>1, <1>2
<1>3. Cardinality(1..n) = n
  BY <1>1, FS_Interval
<1>4. s \in Injection(1..n, S)
  BY <1>2 DEF Injection, IsInjective
<1>5. s \in Surjection(1..n, S)
  BY <1>3, <1>4, FS_Injection
<1>6. PICK i \in 1..n : s[i] = r
  BY <1>5 DEF Surjection
<1> DEFINE f == [j \in 1..(i - 1) |-> s[j]]
<1>7. \A j \in 1..(i - 1) : j \in 1..n /\ s[j] \in Ahead(k, S, r)
  BY <1>1, <1>2, <1>6 DEF Ahead
<1>8. ASSUME NEW x \in Ahead(k, S, r) PROVE \E j \in 1..(i - 1) : s[j] = x
  <2>1. x \in S /\ x # r /\ Before(k, x, r)
    BY DEF Ahead
  <2>2. PICK j \in 1..n : s[j] = x
    BY <1>5, <2>1 DEF Surjection
  <2>3. ~Before(k, r, x)
    BY <2>1, BeforeIsStrict
  <2>4. ~(i < j) /\ i # j
    BY <1>2, <1>6, <2>1, <2>2, <2>3
  <2> QED BY <1>1, <1>6, <2>2, <2>4
<1>9. f \in [1..(i - 1) -> Ahead(k, S, r)]
  BY <1>7
<1>10. f \in Injection(1..(i - 1), Ahead(k, S, r))
  BY <1>2, <1>7, <1>9 DEF Injection, IsInjective
<1>11. f \in Surjection(1..(i - 1), Ahead(k, S, r))
  BY <1>8, <1>9 DEF Surjection
<1>12. IsFiniteSet(1..(i - 1)) /\ Cardinality(1..(i - 1)) = i - 1
  <2>1. i - 1 \in Nat /\ 1 \in Int
    BY <1>1, <1>6
  <2>2. \A m \in Nat : IsFiniteSet(1..m) /\ Cardinality(1..m) = m
    BY FS_Interval
  <2> QED BY <2>1, <2>2
<1>13. Cardinality(Ahead(k, S, r)) = i - 1
  BY <1>10, <1>11, <1>12, FS_Surjection
<1> QED BY <1>1, <1>6, <1>a, <1>13

-----------------------------------------------------------------------------
(* A user who walks the pages: a row that is on none of the pages so far    *)
(* is behind all of them, for the rows ahead of it only grow in number, and *)
(* on the last page there is no further behind.                             *)
LEMMA PageOfIs ==
  ASSUME NEW k \in QueryKeys, NEW n \in Nat \ {0}
  PROVE  /\ PageOf(k, n) \in QueryKeys
         /\ PageOf(k, n).page = n /\ PageOf(k, n).order = k.order
         /\ PageOf(k, n).status = k.status /\ PageOf(k, n).search = k.search
         /\ PageOf(k, n).sortBy = k.sortBy
         /\ PageOf(k, k.page) = k
  BY DEF PageOf, QueryKeys

LEMMA AheadGrows ==
  ASSUME NEW S \in SUBSET Rows, NEW T \in SUBSET Rows, S \subseteq T,
         NEW k, NEW r
  PROVE  /\ Cardinality(Ahead(k, S, r)) \in Nat /\ Cardinality(Ahead(k, T, r)) \in Nat
         /\ Cardinality(Ahead(k, S, r)) <= Cardinality(Ahead(k, T, r))
<1>1. IsFiniteSet(Rows)
  BY ListPagesAssumption
<1>2. Ahead(k, S, r) \subseteq Ahead(k, T, r) /\ Ahead(k, T, r) \subseteq Rows
  BY DEF Ahead
<1>3. IsFiniteSet(Ahead(k, T, r)) /\ IsFiniteSet(Ahead(k, S, r))
  BY <1>1, <1>2, FS_Subset
<1> QED BY <1>2, <1>3, FS_Subset, FS_CardinalityType

(* A page that was read shows the rows from its first place to its last.   *)
Place(k, n, r) == Cardinality(Ahead(k, Selected(k, cache[PageOf(k, n)].answer.of, {}), r))

LEMMA PageShows ==
  ASSUME ListInv, NEW k \in DOMAIN cache, Walked(k), NEW n \in 1..k.page,
         NEW r \in Selected(k, cache[PageOf(k, n)].answer.of, {})
  PROVE  /\ Place(k, n, r) \in Nat
         /\ Place(k, n, r) + 1
              <= Cardinality(Selected(k, cache[PageOf(k, n)].answer.of, {}))
         /\ (n - 1) * PageSize <= Place(k, n, r) /\ Place(k, n, r) < n * PageSize
              => r \in cache[PageOf(k, n)].answer.rows
<1> DEFINE p == PageOf(k, n)  of == cache[p].answer.of  S == Selected(k, of, {})
           c == Place(k, n, r)
<1>1. k \in QueryKeys /\ k.status = "all" /\ k.sortBy # "status"
  BY DEF ListInv, IsCached, Walked
<1>2. k.page \in Nat \ {0} /\ n \in Nat \ {0}
  <2>1. k.page \in Nat \ {0}
    BY <1>1 DEF QueryKeys
  <2> QED BY <2>1
<1>3. p \in QueryKeys /\ p.page = n /\ p.order = k.order /\ p.status = k.status
        /\ p.search = k.search /\ p.sortBy = k.sortBy
  BY <1>1, <1>2, PageOfIs
<1>4. p \in DOMAIN cache /\ cache[p].data
  BY DEF Walked, HasData
<1>5. Fits(p, cache[p].answer)
  BY <1>4 DEF ListInv, IsCached
<1>6. \A gone : Selected(p, of, gone) = S
  BY <1>1, <1>3 DEF Selected
<1>v. \A gone : Column(p, gone) = Value(k)
  BY <1>1, <1>3 DEF Column, Value
<1>7. PICK s \in Orders(list, S, Value(k), k.order) : cache[p].answer.rows = Page(s, n, PageSize)
  BY <1>3, <1>5, <1>6, <1>v DEF Fits, Ordered
<1>8. S \in SUBSET Rows /\ S \subseteq Created
  BY <1>5 DEF Fits, Selected, Created
<1>9. IsFiniteSet(S)
  BY <1>8, FS_Subset, ListPagesAssumption
<1>10. Distinct(k, S)
  BY <1>8 DEF Walked, Distinct, Value
<1>11. Value(k) \in [Rows -> Int]
  BY ListPagesAssumption DEF ListInv, Value, Column
<1>12. c = Cardinality(Ahead(k, S, r))
  BY DEF Place
<1> HIDE DEF S, c, p
<1>r. r \in S
  BY DEF S, p
<1>13. DOMAIN s = 1..Cardinality(S) /\ c \in Nat /\ c + 1 \in DOMAIN s /\ s[c + 1] = r
  <2>1. \A T \in SUBSET Rows : \A t \in Orders(list, T, Value(k), k.order) : \A x \in T :
          IsFiniteSet(T) /\ Distinct(k, T) =>
            /\ DOMAIN t = 1..Cardinality(T) /\ Cardinality(Ahead(k, T, x)) \in Nat
            /\ Cardinality(Ahead(k, T, x)) + 1 \in DOMAIN t
            /\ t[Cardinality(Ahead(k, T, x)) + 1] = x
    BY <1>11, Position
  <2> QED BY <2>1, <1>r, <1>7, <1>8, <1>9, <1>10, <1>12
<1>14. Cardinality(S) \in Nat
  BY <1>9, FS_CardinalityType
<1>15. c + 1 <= Cardinality(S)
  BY <1>13, <1>14
<1>16. ASSUME (n - 1) * PageSize <= c, c < n * PageSize PROVE r \in Page(s, n, PageSize)
  <2>1. n * PageSize \in Int /\ (n - 1) * PageSize \in Int
    BY <1>2, ListPagesAssumption
  <2>2. c + 1 \in ((n - 1) * PageSize + 1)..(n * PageSize)
    BY <1>13, <1>16, <2>1
  <2> QED BY <1>13, <2>2 DEF Page
<1> QED BY <1>7, <1>13, <1>15, <1>16 DEF S, c, p

LEMMA WalkShows == ListInv => WalkSkipsNothing
<1> SUFFICES ASSUME ListInv, NEW k \in DOMAIN cache, Walked(k),
                    NEW r \in Selected(k, cache[PageOf(k, 1)].answer.of, {})
             PROVE  \E n \in 1..k.page : r \in cache[PageOf(k, n)].answer.rows
  BY DEF WalkSkipsNothing
<1> DEFINE S(n) == Selected(k, cache[PageOf(k, n)].answer.of, {})
           M == {n \in 1..k.page : r \in S(n) /\ (n - 1) * PageSize <= Place(k, n, r)}
<1>1. k \in QueryKeys /\ k.status = "all" /\ k.page \in Nat \ {0}
  BY DEF ListInv, IsCached, Walked, QueryKeys
<1>p. PageSize \in Nat \ {0}
  BY ListPagesAssumption
<1>2. 1 \in M
  <2>1. 1 \in 1..k.page
    BY <1>1
  <2>2. Place(k, 1, r) \in Nat
    BY <2>1, PageShows
  <2> QED BY <1>p, <2>1, <2>2
<1>3. IsFiniteSet(M) /\ M \in SUBSET Nat
  <2>1. IsFiniteSet(1..k.page)
    BY <1>1, FS_Interval
  <2> QED BY <1>1, <2>1, FS_Subset
<1> HIDE DEF M
<1>4. PICK m \in M : \A n \in M : n <= m
  BY <1>2, <1>3, Greatest
<1>5. m \in 1..k.page /\ m \in Nat /\ r \in S(m) /\ (m - 1) * PageSize <= Place(k, m, r)
  BY <1>1, <1>4 DEF M
<1>6. /\ Place(k, m, r) \in Nat /\ Place(k, m, r) + 1 <= Cardinality(S(m))
      /\ Place(k, m, r) < m * PageSize => r \in cache[PageOf(k, m)].answer.rows
  BY <1>5, PageShows
<1>7. Place(k, m, r) < m * PageSize
  <2>1. CASE m = k.page
    <3> DEFINE total == cache[k].answer.total
    <3>1. PageOf(k, m) = k
      BY <1>1, <2>1, PageOfIs
    <3>2. Counts(k, cache[k].answer)
      BY <1>5, <3>1 DEF Walked, HasData, ListInv, IsCached
    <3>3. total \in Nat /\ Cardinality(S(m)) <= total
      BY <1>1, <3>1, <3>2 DEF Counts
    <3>4. TotalPages(total, PageSize) <= m
      <4>1. k.page >= TotalPages(total, PageSize)
        BY DEF Walked
      <4>2. TotalPages(total, PageSize) \in Int
        BY <1>p, <3>3 DEF TotalPages
      <4> QED BY <1>1, <2>1, <4>1, <4>2
    <3> HIDE DEF total
    <3>5. total <= m * PageSize
      BY <1>5, <1>p, <3>3, <3>4, PagesCover
    <3>6. Cardinality(S(m)) \in Int
      <4>1. S(m) \subseteq Rows
        <5>1. PageOf(k, m) \in DOMAIN cache /\ cache[PageOf(k, m)].data
          BY <1>5 DEF Walked, HasData
        <5> QED BY <5>1 DEF ListInv, IsCached, Fits, Selected, Created
      <4> QED BY <4>1, FS_Subset, FS_CardinalityType, ListPagesAssumption
    <3>7. m * PageSize \in Int
      BY <1>5, <1>p
    <3> HIDE DEF S
    <3> QED BY <1>6, <3>3, <3>5, <3>6, <3>7
  <2>2. CASE m # k.page
    <3> DEFINE n == m + 1
    <3>1. n \in 2..k.page /\ n \in 1..k.page /\ n - 1 = m
      BY <1>1, <1>5, <2>2
    <3>2. cache[PageOf(k, m)].answer.of \subseteq cache[PageOf(k, n)].answer.of
      BY <3>1 DEF Walked
    <3>3. S(m) \subseteq S(n)
      BY <3>2 DEF Selected
    <3>4. S(n) \subseteq Rows
      <4>1. PageOf(k, n) \in DOMAIN cache /\ cache[PageOf(k, n)].data
        BY <3>1 DEF Walked, HasData
      <4> QED BY <4>1 DEF ListInv, IsCached, Fits, Selected, Created
    <3>5. Place(k, n, r) \in Nat /\ Place(k, m, r) <= Place(k, n, r)
      BY <3>3, <3>4, AheadGrows DEF Place
    <3>6. n \notin M
      BY <1>4, <1>5
    <3>7. ~((n - 1) * PageSize <= Place(k, n, r))
      BY <1>5, <3>1, <3>3, <3>6 DEF M
    <3>8. m * PageSize \in Int
      BY <1>5, <1>p
    <3> HIDE DEF S, n
    <3> QED BY <1>6, <3>1, <3>5, <3>7, <3>8
  <2> QED BY <2>1, <2>2
<1> QED BY <1>5, <1>6, <1>7

(* Stepping from the first page to the last misses no row that was there at *)
(* the start and has not left the filter, whatever is inserted meanwhile    *)
(* (orderBy with skip and take, the total's count after the rows' read).    *)
THEOREM WalkShowsAll == PortalSpec => []WalkSkipsNothing
  BY WalkShows, PortalInit, PortalStep, ListInit, ListStep, PTL DEF PortalSpec
=============================================================================
