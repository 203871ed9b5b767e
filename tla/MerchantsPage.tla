---------------------------- MODULE MerchantsPage -----------------------------
(***************************************************************************)
(* The portal's page of merchants: a list, a drawer with the details of    *)
(* one merchant, and requests that create merchants, change their status,  *)
(* rotate their keys and fund them.  List and details are queries of their *)
(* own, read again when a request is answered; a new key is shown once.    *)
(***************************************************************************)
EXTENDS MerchantAdmin

CONSTANTS
  Slots,       \* requests the user may have under way
  MaxRequests, \* bound on the user's requests
  MaxLosses    \* bound on the answers that the portal does not get

(* The key of the list's query is no merchant's id. *)
ASSUME MerchantsPageAssumption == "list" \notin Merchants

VARIABLES
  drawer,      \* the merchant whose details are open
  createOpen,  \* the form for a new merchant is open
  secret,      \* the key that the drawer, or the form, has to show
  told,        \* the keys that were shown to the user
  lost,        \* those that the page dropped, or never got
  cached,      \* what was last read of a query
  current,     \* the queries whose data need not be read again
  reading,     \* the reads of queries under way
  failing,     \* the queries whose last read failed
  overtaken,   \* the queries a write may have overtaken unnoticed
  doing,       \* what the user has asked for
  requests, losses

screen  == <<drawer, createOpen, secret>>
queries == <<cached, current, reading, failing, overtaken>>
merchantPageVars == <<screen, told, lost, queries, doing, requests, losses>>

Queries == {"list"} \cup Merchants
Unfetched == [m \in {} |-> 0]
Resting == [stage |-> "none", rows |-> Unfetched]
Started == [stage |-> "sent", rows |-> Unfetched]
NoDoing == [what |-> "none", merchant |-> NoMerchant, stage |-> "none", key |-> 0,
            heard |-> TRUE]

Answer(q) == [m \in IF q = "list" THEN Merchants ELSE {q} |-> Row(m)]

Displayed(q) == cached[q] # Unfetched

(* An error takes the place of the whole page, drawer and form included,   *)
(* when the list cannot be read; that of the details is shown beside them. *)
Mounted == Displayed("list") /\ "list" \notin failing

Observed(q) == q = "list" \/ (Mounted /\ q = drawer)

(* SecretReveal: the key is on the screen of the merchant that is open, be *)
(* it its own or not.                                                      *)
Places == {"drawer", "form"}
OnScreen(place) ==
  /\ Mounted
  /\ IF place = "form" THEN createOpen ELSE drawer # NoMerchant /\ Displayed(drawer)
KeysOnScreen == {secret[place] : place \in {x \in Places : OnScreen(x)}} \ {0}

MerchantsOpened ==
  /\ drawer = NoMerchant /\ createOpen = FALSE
  /\ secret = [place \in Places |-> 0]
  /\ told = {1} /\ lost = {}
  /\ cached = [q \in Queries |-> Unfetched]
  /\ current = {} /\ failing = {} /\ overtaken = {}
  /\ reading = [q \in Queries |-> IF q = "list" THEN Started ELSE Resting]
  /\ doing = [c \in Slots |-> NoDoing]
  /\ requests = 0 /\ losses = 0

Loses == losses < MaxLosses /\ losses' = losses + 1 /\ UNCHANGED requests

Unseen(key) == {key} \ ({0} \cup told)

(* A key takes the place of another, which may not have been shown.        *)
SetSecret(place, key) ==
  /\ secret' = [secret EXCEPT ![place] = key]
  /\ lost' = lost \cup Unseen(secret[place])

-----------------------------------------------------------------------------
(* The two queries. *)

ReadMerchants(q) ==
  /\ reading[q] = Started
  /\ reading' = [reading EXCEPT ![q] = [stage |-> "read", rows |-> Answer(q)]]
  /\ overtaken' = overtaken \ {q}
  /\ UNCHANGED <<merchantVars, screen, lost, cached, current, failing, doing, requests, losses>>

(* Details that come on the screen are read, unless they have been less    *)
(* than half a minute ago: the model does not wait longer.                 *)
Mount(m, read) ==
  reading' = [read EXCEPT ![m] = IF m \in current \/ @ # Resting THEN @ ELSE Started]

MerchantsAnswered(q) ==
  LET read == [reading EXCEPT ![q] = Resting] IN
  /\ reading[q].stage = "read"
  /\ cached' = [cached EXCEPT ![q] = reading[q].rows]
  /\ current' = current \cup {q}
  /\ failing' = failing \ {q}
  /\ IF q = "list" /\ ~Mounted /\ drawer # NoMerchant
     THEN Mount(drawer, read) ELSE reading' = read
  /\ UNCHANGED <<merchantVars, screen, lost, overtaken, doing, requests, losses>>

(* A read that fails is repeated once; one failure of the model stands for *)
(* the first or for both.  With the list the drawer and the form are gone, *)
(* and with them the keys they hold; what was asked for from them goes on. *)
MerchantsUnavailable(q) ==
  /\ reading[q].stage = "read" /\ Loses
  /\ \/ /\ reading' = [reading EXCEPT ![q] = Started]
        /\ UNCHANGED <<secret, lost, current, failing, doing>>
     \/ /\ reading' = [reading EXCEPT ![q] = Resting]
        /\ current' = current \ {q}
        /\ failing' = failing \cup {q}
        /\ IF q # "list" THEN UNCHANGED <<secret, lost, doing>> ELSE
             /\ secret' = [place \in Places |-> 0]
             /\ lost' = lost \cup UNION {Unseen(secret[place]) : place \in Places}
             /\ doing' = [c \in Slots |->
                  IF doing[c] = NoDoing THEN NoDoing ELSE [doing[c] EXCEPT !.heard = FALSE]]
  /\ UNCHANGED <<merchantVars, drawer, createOpen, cached, overtaken>>

(* refetch, from the error.                                                *)
RetryMerchants(q) ==
  /\ q \in failing /\ Observed(q) /\ (reading[q] = Resting \/ Displayed(q))
  /\ reading' = [reading EXCEPT ![q] = Started]
  /\ UNCHANGED <<merchantVars, screen, lost, cached, current, failing, overtaken, doing, requests,
                 losses>>

(* invalidateQueries: those on the screen are read again, and a read that  *)
(* is under way is dropped unless it is the first of its query, which may  *)
(* have read before the write.                                             *)
Invalidate(invalid) ==
  /\ current' = current \ invalid
  /\ reading' = [q \in Queries |->
       IF q \in invalid /\ Observed(q) /\ (Displayed(q) \/ reading[q] = Resting)
       THEN Started ELSE reading[q]]
  /\ overtaken' = overtaken \cup
       {q \in invalid : reading[q].stage = "read" /\ ~(Observed(q) /\ Displayed(q))}
  /\ UNCHANGED <<cached, failing>>

(* Mutation: the details are left as they are. *)
onChanged_ListOnly(m) == Invalidate({"list"})

onChanged(m) == Invalidate({"list", m})

-----------------------------------------------------------------------------
(* The drawer and the form, one of which is open at a time. *)

Closed == Mounted /\ drawer = NoMerchant /\ ~createOpen

OpenDrawer(m) ==
  /\ Closed /\ cached["list"][m].status # "absent"
  /\ drawer' = m
  /\ Mount(m, reading)
  /\ UNCHANGED <<merchantVars, createOpen, secret, lost, cached, current, failing,
                 overtaken, doing, requests, losses>>

OpenForm ==
  /\ Closed
  /\ createOpen' = TRUE
  /\ UNCHANGED <<merchantVars, drawer, secret, lost, queries, doing, requests, losses>>

(* A key is forgotten when it has been saved, or what shows it is closed.  *)
close(place) ==
  /\ Mounted
  /\ IF place = "form" THEN createOpen ELSE drawer # NoMerchant
  /\ SetSecret(place, 0)
  /\ createOpen' = FALSE
  /\ \/ drawer' = NoMerchant
     \/ place = "drawer" /\ OnScreen(place) /\ UNCHANGED drawer
  /\ UNCHANGED <<merchantVars, queries, doing, requests, losses>>

-----------------------------------------------------------------------------
(* The user's requests. *)

Request(c, what, m) ==
  /\ doing[c] = NoDoing /\ requests < MaxRequests
  /\ doing' = [doing EXCEPT ![c] =
       [what |-> what, merchant |-> m, stage |-> "sent", key |-> 0, heard |-> TRUE]]
  /\ requests' = requests + 1
  /\ UNCHANGED <<merchantVars, screen, lost, queries, losses>>

(* isSubmitting and isProvisioningFunding, which the buttons wait for.     *)
WaitingFor(what) == \E c \in Slots :
  doing[c].what \in what /\ doing[c].stage # "given up" /\ doing[c].heard

submit(c, m) ==
  /\ Mounted /\ createOpen /\ secret["form"] = 0 /\ ~WaitingFor({"create", "demo"})
  /\ status[m] = "absent" /\ \A d \in Slots : doing[d].merchant # m
  /\ Request(c, "create", m)

InDrawer(m) == Mounted /\ drawer = m /\ Displayed(m)

AskStatus(c, m, s) == InDrawer(m) /\ Request(c, s, m)
rotateKey(c, m)    == InDrawer(m) /\ Request(c, "rotate", m)
AskFunding(c, m)   == InDrawer(m) /\ ~WaitingFor({"fund"}) /\ Request(c, "fund", m)

(* The answer is kept to be shown, behind a drawer or a form that is       *)
(* closed too, unless what asked for it is gone.                           *)
Deliver(c, place) ==
  IF doing[c].heard THEN SetSecret(place, doing[c].key)
  ELSE lost' = lost \cup Unseen(doing[c].key) /\ UNCHANGED secret

(* The new merchant's key is shown; funding, if ticked, is asked for next. *)
MerchantCreated(c) ==
  /\ doing[c].what = "create" /\ doing[c].stage = "answered"
  /\ Deliver(c, "form")
  /\ \/ /\ doing' = [doing EXCEPT ![c] = [@ EXCEPT !.what = "demo", !.stage = "sent", !.key = 0]]
        /\ UNCHANGED queries
     \/ /\ doing' = [doing EXCEPT ![c] = NoDoing]
        /\ Invalidate({"list"})
  /\ UNCHANGED <<merchantVars, drawer, createOpen, requests, losses>>

(* onCreated, whether or not the merchant could be funded: the details of  *)
(* the merchant, if they have been opened meanwhile, are not read again.   *)
DemoFundingEnds(c) ==
  /\ doing[c].what = "demo" /\ doing[c].stage = "answered"
  /\ doing' = [doing EXCEPT ![c] = NoDoing]
  /\ Invalidate({"list"})
  /\ UNCHANGED <<merchantVars, screen, lost, requests, losses>>

Changed(c) ==
  /\ doing[c].what \notin {"create", "demo"} /\ doing[c].stage = "answered"
  /\ IF doing[c].what = "rotate" THEN Deliver(c, "drawer") ELSE UNCHANGED <<secret, lost>>
  /\ doing' = [doing EXCEPT ![c] = NoDoing]
  /\ onChanged(doing[c].merchant)
  /\ UNCHANGED <<merchantVars, drawer, createOpen, requests, losses>>

-----------------------------------------------------------------------------
(* The portal's routes and the API behind them. *)

Affected(c) == {"list", doing[c].merchant}

Executes(c) ==
  LET m == doing[c].merchant  what == doing[c].what
      key == IF what \in {"create", "rotate"} THEN newKey.returned ELSE 0 IN
  /\ doing[c].stage \in {"sent", "given up"}
  /\ \/ what = "create" /\ \E s \in Statuses : create(m, s)
     \/ what \in Statuses /\ updateStatus(m, what)
     \/ what = "rotate" /\ rotate(m)
     \/ what \in {"fund", "demo"} /\ provisionDemoFunding(m)
  /\ IF doing[c].stage = "sent"
     THEN /\ doing' = [doing EXCEPT ![c].stage = "answered", ![c].key = key]
          /\ overtaken' = IF what = "demo" THEN overtaken \cup {m} ELSE overtaken
          /\ UNCHANGED lost
     ELSE /\ doing' = [doing EXCEPT ![c] = NoDoing]
          /\ overtaken' = overtaken \cup Affected(c)
          /\ lost' = lost \cup Unseen(key)
  /\ UNCHANGED <<screen, cached, current, reading, failing, requests, losses>>

(* A merchant without a key cannot be given one.                           *)
Refuses(c) ==
  /\ doing[c].stage \in {"sent", "given up"} /\ doing[c].what = "rotate"
  /\ hashed[doing[c].merchant] = 0
  /\ doing' = [doing EXCEPT ![c] = NoDoing]
  /\ UNCHANGED <<merchantVars, screen, lost, queries, requests, losses>>

(* A request the API has not done yet is given up after ten seconds and    *)
(* may be done later; the page reads nothing again, but after funding.     *)
TimesOutUndone(c) ==
  /\ doing[c].stage = "sent" /\ Loses
  /\ doing' = [doing EXCEPT ![c].stage = "given up"]
  /\ IF doing[c].what = "demo" THEN Invalidate({"list"}) ELSE UNCHANGED queries
  /\ UNCHANGED <<merchantVars, screen, lost>>

TimesOutDone(c) ==
  /\ doing[c].stage = "answered" /\ Loses
  /\ doing' = [doing EXCEPT ![c] = NoDoing]
  /\ lost' = lost \cup Unseen(doing[c].key)
  /\ IF doing[c].what = "demo"
     THEN Invalidate({"list"})
     ELSE overtaken' = overtaken \cup Affected(c) /\ UNCHANGED <<cached, current, reading, failing>>
  /\ UNCHANGED <<merchantVars, screen>>

NeverArrives(c) ==
  /\ doing[c].stage = "given up"
  /\ doing' = [doing EXCEPT ![c] = NoDoing]
  /\ UNCHANGED <<merchantVars, screen, lost, queries, requests, losses>>

-----------------------------------------------------------------------------
MerchantsPageSteps ==
  \/ \E q \in Queries :
       ReadMerchants(q) \/ MerchantsAnswered(q) \/ MerchantsUnavailable(q) \/ RetryMerchants(q)
  \/ \E c \in Slots : \E m \in Merchants :
       \/ submit(c, m) \/ rotateKey(c, m) \/ AskFunding(c, m)
       \/ \E s \in Statuses : AskStatus(c, m, s)
  \/ \E m \in Merchants : OpenDrawer(m)
  \/ OpenForm
  \/ \E place \in Places : close(place)
  \/ \E c \in Slots : MerchantCreated(c) \/ DemoFundingEnds(c) \/ Changed(c)

MerchantsApi == \E c \in Slots :
  Executes(c) \/ Refuses(c) \/ TimesOutUndone(c) \/ TimesOutDone(c) \/ NeverArrives(c)

(* Whatever comes on the screen has been told.                             *)
MerchantsNext ==
  /\ MerchantsPageSteps \/ MerchantsApi
  /\ told' = told \cup KeysOnScreen'

-----------------------------------------------------------------------------
(* Properties. *)

(* The key that works for a merchant has been on the screen, or is kept to *)
(* be shown, or on its way to the page, whatever rotations and creations   *)
(* overlap.  It is lost only by a time-out, by an error of the list, or by *)
(* what happens to a drawer that is closed or shows no details when the    *)
(* answer comes: a second answer, or the user who closes it.               *)
WorkingKeyIsTold == \A m \in Merchants :
  hashed[m] \in {0} \cup told \cup lost \cup {secret[place] : place \in Places}
                \cup {doing[c].key : c \in Slots}

(* Once nothing is under way, the list and the drawer show what the server *)
(* has, in whatever order requests and reads were answered, unless nothing *)
(* was read since a write that the page was not told of or that was told   *)
(* of during the first read of the query; or unless the last read failed,  *)
(* which the page says, beside the details as they were before it.         *)
DrawerIsCurrent ==
  /\ \A c \in Slots : doing[c] = NoDoing
  /\ \A q \in Queries : reading[q] = Resting
  => \A q \in Queries \ (overtaken \cup failing) : Observed(q) => cached[q] = Answer(q)
=============================================================================
