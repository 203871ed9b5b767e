---------------------------- MODULE WebhooksPage -----------------------------
(***************************************************************************)
(* The portal's page of webhook endpoints.  It shows what it last read of  *)
(* those that a search text and a status select, each selection being a    *)
(* query of its own; it lets the user test, toggle, remove and add them    *)
(* through the API that WebhookEndpoints describes, several requests at a  *)
(* time, and reads the list again after each answer.                       *)
(***************************************************************************)
EXTENDS WebhookEndpoints, Naturals

CONSTANTS
  Searches,    \* search texts, each the set of endpoints it occurs in
  States,      \* the states that may be selected
  MaxTurns     \* bound on requests, selections, failures and payment events

(* The empty text occurs in every endpoint. *)
ASSUME WebhooksPageAssumption ==
  /\ Endpoints # {}
  /\ Endpoints \in Searches /\ Searches \subseteq SUBSET Endpoints
  /\ "all" \in States /\ States \subseteq {"all", "active", "disabled"}

VARIABLES
  selection,   \* the search text and the status that are selected
  known,       \* of each selection, the list as it was last read
  fetch,       \* the read of it under way, with what it has read
  invalidated, \* the selections to be read again when they are selected
  failed,      \* those in whose place the page shows an error
  behind,      \* those that a write may have overtaken unnoticed
  asked,       \* what the page asks the API by a request
  deleteInFlight,
  deletingEndpointId,
  turns

lists    == <<known, fetch, invalidated, failed, behind>>
removals == <<deleteInFlight, deletingEndpointId>>
pageVars == <<selection, lists, asked, removals, turns>>

Selections == [search : Searches, status : States]
Everything == [search |-> Endpoints, status |-> "all"]

Nothing == [what |-> "none", endpoint |-> None, stage |-> "none", list |-> Everything]
Unread == [p \in Endpoints |-> "unread"]
Idle == [stage |-> "none", list |-> Unread]
ListSent == [stage |-> "sent", list |-> Unread]

(* What the API lists: no endpoint that was deleted, nor one not selected. *)
Listed(k) == [p \in Endpoints |->
  IF endpoint[p] # "deleted" /\ p \in k.search /\ k.status \in {"all", endpoint[p]}
  THEN endpoint[p] ELSE "absent"]

(* Data, once read, are kept; an error is shown in their place.            *)
HasList(k) == known[k] # Unread
Loaded == HasList(selection) /\ selection \notin failed
Shows(p) == Loaded /\ known[selection][p] \in {"active", "disabled"}

(* The page is opened on endpoints that exist already, or not yet.         *)
WebhooksOpened ==
  /\ endpoint \in [Endpoints -> {"absent", "active"}]
  /\ deliveries = {}
  /\ event = [e \in Events |-> "absent"]
  /\ subscribed = [e \in Events |-> {}] /\ eligible = subscribed
  /\ request = [c \in Callers |-> NoRequest]
  /\ handling = [h \in Handlers |-> NotHandling]

PageOpened ==
  /\ selection = Everything
  /\ known = [k \in Selections |-> Unread]
  /\ fetch = [k \in Selections |-> IF k = selection THEN ListSent ELSE Idle]
  /\ invalidated = {} /\ failed = {} /\ behind = {}
  /\ asked = [c \in Callers |-> Nothing]
  /\ deleteInFlight = {} /\ deletingEndpointId = None
  /\ turns = 0

Turn == turns < MaxTurns /\ turns' = turns + 1

-----------------------------------------------------------------------------
(* Reading the list. *)

(* The server reads, and later the page is answered.                       *)
ReadList(k) ==
  /\ fetch[k] = ListSent
  /\ fetch' = [fetch EXCEPT ![k] = [stage |-> "read", list |-> Listed(k)]]
  /\ behind' = behind \ {k}
  /\ UNCHANGED <<vars, selection, known, invalidated, failed, asked, removals,
                 turns>>

ListAnswered(k) ==
  /\ fetch[k].stage = "read"
  /\ known' = [known EXCEPT ![k] = fetch[k].list]
  /\ fetch' = [fetch EXCEPT ![k] = Idle]
  /\ invalidated' = invalidated \ {k}
  /\ failed' = failed \ {k}
  /\ UNCHANGED <<vars, selection, behind, asked, removals, turns>>

(* A read that fails is repeated once, and then an error; one failure of   *)
(* the model stands for the first or for both.                             *)
ListFails(k) ==
  /\ fetch[k].stage = "read"
  /\ Turn
  /\ \/ fetch' = [fetch EXCEPT ![k] = ListSent] /\ UNCHANGED <<invalidated, failed>>
     \/ /\ fetch' = [fetch EXCEPT ![k] = Idle]
        /\ invalidated' = invalidated \cup {k}
        /\ failed' = failed \cup {k}
  /\ UNCHANGED <<vars, selection, known, behind, asked, removals>>

RetryList ==
  /\ selection \in failed /\ fetch[selection] = Idle
  /\ fetch' = [fetch EXCEPT ![selection] = ListSent]
  /\ UNCHANGED <<vars, selection, known, invalidated, failed, behind, asked, removals,
                 turns>>

(* The text or the status is changed: the list of the new selection is     *)
(* read unless it is being read, or has been read and not invalidated.     *)
Select(k) ==
  /\ Loaded /\ k # selection
  /\ k.search = selection.search \/ k.status = selection.status
  /\ selection' = k
  /\ Turn
  /\ \/ fetch' = [fetch EXCEPT ![k] = IF @ = Idle THEN ListSent ELSE @]
     \/ HasList(k) /\ k \notin invalidated /\ UNCHANGED fetch
  /\ UNCHANGED <<vars, known, invalidated, failed, behind, asked, removals>>

(* A read that an invalidation drops: of the selection, if it has data.    *)
Dropped(k) == k = selection /\ HasList(k)

(* Mutation: a read that is under way is left to finish. *)
refresh_AfterReading ==
  /\ invalidated' = Selections
  /\ fetch' = [fetch EXCEPT ![selection] = IF @.stage = "read" THEN @ ELSE ListSent]
  /\ behind' = behind \cup {k \in Selections : fetch[k].stage = "read" /\ ~Dropped(k)}

(* invalidateQueries: the selection is read again, all others when they    *)
(* are selected.  A first read is kept, and so is one of another selection; *)
(* it may have read before the write, but counts as a new reading.         *)
refresh ==
  /\ invalidated' = Selections
  /\ fetch' = [fetch EXCEPT ![selection] =
                 IF @ = Idle \/ Dropped(selection) THEN ListSent ELSE @]
  /\ behind' = behind \cup {k \in Selections : fetch[k].stage = "read" /\ ~Dropped(k)}

-----------------------------------------------------------------------------
(* The user's requests. *)

Ask(c, what, p) ==
  /\ asked[c] = Nothing /\ Turn
  /\ asked' = [asked EXCEPT ![c] =
       [what |-> what, endpoint |-> p, stage |-> "sent", list |-> Everything]]
  /\ UNCHANGED <<vars, selection, lists>>

AskTest(c, p) ==
  /\ Shows(p) /\ Ask(c, "test", p)
  /\ UNCHANGED removals

(* The state asked for is the negation of the one on the screen.           *)
AskToggle(c, p) ==
  /\ Shows(p)
  /\ Ask(c, IF known[selection][p] = "active" THEN "disabled" ELSE "active", p)
  /\ UNCHANGED removals

(* Mutation: only the endpoint whose button is disabled is guarded. *)
removeEndpoint_ByButton(c, p) ==
  /\ Shows(p)
  /\ deletingEndpointId # p
  /\ Ask(c, "remove", p)
  /\ deleteInFlight' = deleteInFlight \cup {p}
  /\ deletingEndpointId' = p

removeEndpoint(c, p) ==
  /\ Shows(p)
  /\ deletingEndpointId # p /\ p \notin deleteInFlight
  /\ Ask(c, "remove", p)
  /\ deleteInFlight' = deleteInFlight \cup {p}
  /\ deletingEndpointId' = p

AskCreate(c, p) ==
  /\ Loaded
  /\ endpoint[p] = "absent" /\ \A d \in Callers : asked[d].endpoint # p
  /\ Ask(c, "create", p)
  /\ UNCHANGED removals

(* The end of a removal, whatever came of it.                              *)
Told(c) ==
  LET p == asked[c].endpoint  removal == asked[c].what = "remove" IN
  /\ asked' = [asked EXCEPT ![c] = Nothing]
  /\ deleteInFlight' = IF removal THEN deleteInFlight \ {p} ELSE deleteInFlight
  /\ deletingEndpointId' = IF removal THEN None ELSE deletingEndpointId

(* The list is read again, for which a removal waits: until it has been    *)
(* read, or another refresh has dropped the reading.                       *)
Refreshing(d) ==
  IF asked[d].stage = "refreshing" /\ Dropped(asked[d].list)
  THEN [asked[d] EXCEPT !.stage = "refreshed"] ELSE asked[d]

Succeeded(c) ==
  /\ asked[c].stage = "answered"
  /\ asked' = [d \in Callers |->
       IF d # c THEN Refreshing(d)
       ELSE IF asked[c].what = "remove"
       THEN [asked[c] EXCEPT !.stage = "refreshing", !.list = selection]
       ELSE Nothing]
  /\ refresh
  /\ UNCHANGED <<vars, selection, known, failed, removals, turns>>

RemovalEnds(c) ==
  /\ \/ asked[c].stage = "refreshed"
     \/ asked[c].stage = "refreshing" /\ fetch[asked[c].list] = Idle
  /\ Told(c)
  /\ UNCHANGED <<vars, selection, lists, turns>>

(* A request that is refused leaves the list as it is.                     *)
ToldOfRefusal(c) ==
  /\ asked[c].stage = "failed"
  /\ Told(c)
  /\ UNCHANGED <<vars, selection, lists, turns>>

(* AbortSignal.timeout: the page is told of a failure, while the API goes  *)
(* on with the request.                                                    *)
TimesOut(c) ==
  /\ asked[c].stage \in {"sent", "answered"}
  /\ Turn
  /\ LET p == asked[c].endpoint  removal == asked[c].what = "remove" IN
       /\ asked' = [asked EXCEPT ![c] =
            IF @.stage = "sent" THEN [@ EXCEPT !.stage = "given up"] ELSE Nothing]
       /\ deleteInFlight' = IF removal THEN deleteInFlight \ {p} ELSE deleteInFlight
       /\ deletingEndpointId' = IF removal THEN None ELSE deletingEndpointId
  /\ behind' = IF asked[c].stage = "answered" THEN Selections ELSE behind
  /\ UNCHANGED <<vars, selection, known, fetch, invalidated, failed>>

-----------------------------------------------------------------------------
(* The API, which does what it is asked. *)

UnderWay(c) == asked[c].stage \in {"sent", "given up"}

(* The answer of a request the page no longer waits for reaches nobody.    *)
Ends(c, stage) ==
  asked' = [asked EXCEPT ![c] = IF @.stage = "given up" THEN Nothing ELSE [@ EXCEPT !.stage = stage]]

(* scopedEndpoint, and the count of deliveries: nothing is answered yet.   *)
Proceeds(c) ==
  /\ \/ /\ ScopedEndpoint(c, asked[c].endpoint)
        /\ asked[c].what # "create"
        /\ request'[c].op = (IF asked[c].what = "test" THEN "test" ELSE "found")
     \/ asked[c].what = "remove" /\ CountDeliveries(c)
  /\ UNCHANGED pageVars

Commits(c) ==
  LET p == asked[c].endpoint IN
  /\ \/ asked[c].what = "create" /\ CreateEndpoint(p)
     \/ UpdateEndpoint(c) /\ endpoint'[p] = asked[c].what
     \/ DisableEndpoint(c) \/ DeleteEndpoint(c)
     \/ \E e \in Events : EnqueueTest(c, e)
  /\ Ends(c, "answered")
  /\ behind' = IF asked[c].stage = "given up" THEN Selections ELSE behind
  /\ UNCHANGED <<selection, known, fetch, invalidated, failed, removals,
                 turns>>

(* The endpoint is gone, disabled when a test is asked for, or restricted. *)
ApiFails(c) ==
  LET p == asked[c].endpoint IN
  /\ \/ /\ request[c] = NoRequest /\ asked[c].what # "create"
        /\ endpoint[p] \notin (IF asked[c].what = "test" THEN {"active"} ELSE {"active", "disabled"})
        /\ UNCHANGED vars
     \/ RequestFails(c)
  /\ Ends(c, "failed")
  /\ UNCHANGED <<selection, lists, removals, turns>>

-----------------------------------------------------------------------------
WebhooksPageSteps ==
  \/ \E k \in Selections : ReadList(k) \/ ListAnswered(k) \/ ListFails(k) \/ Select(k)
  \/ RetryList
  \/ \E c \in Callers :
       \/ \E p \in Endpoints :
            AskTest(c, p) \/ AskToggle(c, p) \/ removeEndpoint(c, p) \/ AskCreate(c, p)
       \/ Succeeded(c) \/ RemovalEnds(c) \/ ToldOfRefusal(c) \/ TimesOut(c)

Backend ==
  \/ \E c \in Callers : UnderWay(c) /\ (Proceeds(c) \/ Commits(c) \/ ApiFails(c))
  \/ /\ \E e \in Events : AppendPaymentEvent(e)
     /\ Turn
     /\ UNCHANGED <<selection, lists, asked, removals>>
  \/ /\ \/ \E e \in Events : HandleTest(e)
        \/ \E h \in Handlers : Materialize(h)
     /\ UNCHANGED pageVars

PageNext == WebhooksPageSteps \/ Backend

-----------------------------------------------------------------------------
(* Properties. *)

(* The page never has two removals of an endpoint waiting for an answer,   *)
(* although the button is enabled again by the end of any removal.         *)
Removing(c) == asked[c].what = "remove" /\ asked[c].stage # "given up"

DeletedOnceAtATime == \A c, d \in Callers :
  c # d /\ Removing(c) /\ Removing(d) => asked[c].endpoint # asked[d].endpoint

(* Once nothing is under way, the list on the page is what the server has, *)
(* in whatever order requests and reads were answered.  Two kinds of lists *)
(* are behind: those not read since a write that timed out, and those      *)
(* that were being read when the page was told of a write, for the first   *)
(* time or while another list was on the screen.  They may stay behind,    *)
(* with no sign of it, until they are read again.                          *)
QuietPageIsCurrent ==
  /\ \A c \in Callers : asked[c] = Nothing
  /\ fetch[selection] = Idle
  /\ selection \notin failed \cup behind
  => known[selection] = Listed(selection)
=============================================================================
