------------------------------ MODULE ListPages ------------------------------
(***************************************************************************)
(* The portal's list pages: payments, ledger, NACHA files and webhook      *)
(* events.  A page asks one query at a time on the screen, but each query  *)
(* is fetched, retried and cached by itself, its rows and its total are    *)
(* read one after the other, and rows are written all the while.           *)
(***************************************************************************)
EXTENDS Listings

CONSTANTS
  Lists,       \* the pages: a subset of those above
  Rows,        \* ids of rows, ordered as the database orders them
  Starts,      \* when the rows were created that are there at the start
  Leaving,     \* the rows that may leave their status meanwhile
  Matching,    \* the rows that the search text occurs in
  Amount,      \* the amount of a row, which never changes
  PageSize,    \* rows per page, 25 in the code
  MaxInstant,  \* bound on the times of creation
  MaxClicks,   \* bound on what the user does on each page
  MaxFaults,   \* bound on the requests of each page that fail
  NoList       \* no list page is open

ASSUME ListPagesAssumption ==
  /\ Lists \subseteq {"payments", "ledger", "files", "deliveries"}
  /\ Rows \subseteq Nat /\ IsFiniteSet(Rows)
  /\ Starts \subseteq [Rows -> Nat]
  /\ Leaving \cup Matching \subseteq Rows
  /\ Amount \in [Rows -> Nat]
  /\ PageSize \in Nat \ {0}
  /\ NoList \notin Lists

VARIABLES
  list,     \* the page that is open
  born,     \* when a row was created, 0 before it is
  left,     \* the rows that have left the status the user may select
  ui,       \* the filters, the typed search text and the page number
  cache,    \* the answers of the query client, by query key
  flight,   \* the fetches under way, by query key
  clicks,
  faults

server   == <<born, left>>
listVars == <<list, server, ui, cache, flight, clicks, faults>>

Now == CHOOSE t \in {born[r] : r \in Rows} : \A r \in Rows : born[r] <= t
Created == {r \in Rows : born[r] # 0}

-----------------------------------------------------------------------------
(* The queries. *)

initialFilters == [typed |-> "", search |-> "", status |-> "all",
                   dateRange |-> "30d", sortBy |-> "createdAt", order |-> "desc",
                   page |-> 1]

(* What the page asks the API.                                             *)
SearchParams(u) == [search |-> u.search, status |-> u.status,
                    dateRange |-> u.dateRange, sortBy |-> u.sortBy,
                    order |-> u.order, page |-> u.page]

(* Mutation: the page number is no part of the key. *)
QueryKey_NoPage(u) == [SearchParams(u) EXCEPT !.page = 1]

(* What the query client keeps the answer under.                           *)
QueryKey(u) == SearchParams(u)

Key == QueryKey(ui)

(* The rows that a query selects from those in S, once `gone` have left.   *)
Selected(q, S, gone) ==
  {r \in S : /\ q.search # "" => r \in Matching
             /\ q.status # "all" => r \notin gone}

(* What a query sorts by.  Only payments may be sorted by another column   *)
(* than the instant; a status that has changed comes after the first ones. *)
SortColumns == {"createdAt", "amountCents", "status"}

Column(q, gone) == [r \in Rows |->
  CASE q.sortBy = "amountCents" -> Amount[r]
    [] q.sortBy = "status" -> IF r \in gone THEN 1 ELSE 0
    [] OTHER -> born[r]]

Ordered(q, S, gone) ==
  Orders(list, Selected(q, S, gone), Column(q, gone), q.order)

(* With no dates the custom range is refused.                              *)
Refused(q) ==
  BadRange([from |-> NoDate, to |-> NoDate, range |-> q.dateRange])

-----------------------------------------------------------------------------
(* The query client: its default options. *)

NoRows == [rows |-> {}, total |-> 0, of |-> {}]

Sent(q) == [asked |-> q, stage |-> "sent", retried |-> FALSE, answer |-> NoRows]

(* A function with one more key, or another value of the key, or without it. *)
With(f, k, v) == [j \in DOMAIN f \cup {k} |-> IF j = k THEN v ELSE f[j]]
Without(f, k) == [j \in DOMAIN f \ {k} |-> f[j]]

HasData(c, k) == k \in DOMAIN c /\ c[k].data

(* A query that comes on the screen is fetched unless its data are fresh.  *)
Observe(u) ==
  LET k == QueryKey(u) IN
  IF k \in DOMAIN flight \/ (HasData(cache, k) /\ cache[k].fresh)
  THEN flight
  ELSE With(flight, k, Sent(SearchParams(u)))

(* isLoading, isError and data, of which the page shows one.               *)
Failed  == Key \in DOMAIN cache /\ cache[Key].failed
                /\ (HasData(cache, Key) \/ Key \notin DOMAIN flight)
Shown   == ~Failed /\ HasData(cache, Key)
Loading == ~Failed /\ ~HasData(cache, Key)

GoStale(k) ==
  /\ HasData(cache, k) /\ cache[k].fresh
  /\ cache' = [cache EXCEPT ![k].fresh = FALSE]
  /\ UNCHANGED <<list, server, ui, flight, clicks, faults>>

-----------------------------------------------------------------------------
(* A fetch, through the portal's own route to the API. *)

ReadRows(k) ==
  LET q == flight[k].asked IN
  /\ flight[k].stage = "sent" /\ ~Refused(q)
  /\ \E s \in Ordered(q, Created, left) :
       flight' = [flight EXCEPT ![k].stage = "read", ![k].answer =
         [rows |-> Page(s, q.page, PageSize), total |-> Len(s), of |-> Created]]
  /\ UNCHANGED <<list, server, ui, cache, clicks, faults>>

(* The ledger sorts and slices the one answer it has read; all other lists *)
(* count in a statement of its own, after which the answer is taken.       *)
CountedAnswer(k) ==
  [flight[k].answer EXCEPT !.total =
     IF list = "ledger" THEN @
     ELSE Cardinality(Selected(flight[k].asked, Created, left))]

Answered(k) ==
  /\ flight[k].stage = "read"
  /\ cache' = With(cache, k, [data |-> TRUE, answer |-> CountedAnswer(k),
                              fresh |-> TRUE, failed |-> FALSE])
  /\ flight' = Without(flight, k)
  /\ UNCHANGED <<list, server, ui, clicks, faults>>

(* The data of a query that fails are kept, but not shown.                 *)
GiveUp(k) ==
  /\ cache' = IF k \in DOMAIN cache
              THEN [cache EXCEPT ![k].failed = TRUE]
              ELSE With(cache, k, [data |-> FALSE, answer |-> NoRows,
                                   fresh |-> FALSE, failed |-> TRUE])
  /\ flight' = Without(flight, k)

(* A request is refused, times out or fails on its way: one retry.         *)
Fails(k) ==
  /\ IF Refused(flight[k].asked)
     THEN flight[k].stage = "sent" /\ UNCHANGED faults
     ELSE faults < MaxFaults[list] /\ faults' = faults + 1
  /\ IF flight[k].retried
     THEN GiveUp(k)
     ELSE /\ flight' = [flight EXCEPT ![k] = [Sent(@.asked) EXCEPT !.retried = TRUE]]
          /\ UNCHANGED cache
  /\ UNCHANGED <<list, server, ui, clicks>>

-----------------------------------------------------------------------------
(* What the user does on a page that shows data. *)

Click(u) ==
  /\ clicks < MaxClicks[list]
  /\ clicks' = clicks + 1
  /\ ui' = u
  /\ flight' = Observe(u)
  /\ UNCHANGED <<list, server, cache, faults>>

(* Every change of a filter goes back to the first page.                   *)
updateFilters(u) == Click([u EXCEPT !.page = 1])

Search == updateFilters([ui EXCEPT !.typed = IF @ = "" THEN "text" ELSE ""])

(* useDebouncedValue, useDeferredValue: what was typed is asked for later. *)
Debounce ==
  /\ ui.search # ui.typed
  /\ ui' = [ui EXCEPT !.search = ui.typed]
  /\ flight' = Observe(ui')
  /\ UNCHANGED <<list, server, cache, clicks, faults>>

SelectStatus ==
  updateFilters([ui EXCEPT !.status = IF @ = "all" THEN "open" ELSE "all"])

(* A second click on a column turns its order.                             *)
toggleSort(sortBy) ==
  updateFilters([ui EXCEPT !.sortBy = sortBy,
    !.order = IF ui.sortBy = sortBy /\ @ = "desc" THEN "asc" ELSE "desc"])

SelectCustom ==
  /\ ui.dateRange # "custom"
  /\ updateFilters([ui EXCEPT !.dateRange = "custom"])

Data == cache[Key].answer
Pages == TotalPages(Data.total, PageSize)

(* Previous and Next, from the page that is shown.                         *)
Paginate ==
  \/ Key.page > 1     /\ Click([ui EXCEPT !.page = Key.page - 1])
  \/ Key.page < Pages /\ Click([ui EXCEPT !.page = Key.page + 1])

PaymentsControls ==
  Search \/ SelectStatus \/ SelectCustom \/ \E column \in SortColumns : toggleSort(column)

(* The pager of payments goes with the rows, the others with the pages.    *)
PaymentsTable ==
  /\ list = "payments"
  /\ PaymentsControls \/ (Data.rows # {} /\ Paginate)

(* No row of the ledger ever leaves an entry type.                         *)
LedgerFilters == Search \/ SelectCustom
LedgerPager   == Pages > 1 /\ Paginate
LedgerTable   == list = "ledger" /\ (LedgerFilters \/ LedgerPager)

FilesFilters    == Search \/ SelectStatus \/ SelectCustom
FilesPager      == Pages > 1 /\ Paginate
NachaFilesTable == list = "files" /\ (FilesFilters \/ FilesPager)

DeliveryFilters    == Search \/ SelectStatus
DeliveryPager      == Pages > 1 /\ Paginate
WebhookEventsTable == list = "deliveries" /\ (DeliveryFilters \/ DeliveryPager)

(* A page that shows an error has nothing but a retry.                     *)
Retry ==
  /\ Failed /\ Key \notin DOMAIN flight
  /\ clicks < MaxClicks[list]
  /\ clicks' = clicks + 1
  /\ flight' = With(flight, Key, Sent(SearchParams(ui)))
  /\ UNCHANGED <<list, server, ui, cache, faults>>

(* The user leaves the page and comes back: its state is new, the cache is *)
(* not.                                                                    *)
Reopen ==
  /\ ui # initialFilters
  /\ Click(initialFilters)

(* refetchInterval: the deliveries are asked for again every ten seconds.  *)
Poll ==
  /\ list = "deliveries"
  /\ Key \notin DOMAIN flight
  /\ flight' = With(flight, Key, Sent(SearchParams(ui)))
  /\ UNCHANGED <<list, server, ui, cache, clicks, faults>>

-----------------------------------------------------------------------------
(* The writers of the rows: a row may have the instant of another.         *)

CreateRow(r) ==
  /\ list # NoList /\ born[r] = 0
  /\ \E t \in {Now, Now + 1} \cap 1..MaxInstant : born' = [born EXCEPT ![r] = t]
  /\ UNCHANGED <<list, left, ui, cache, flight, clicks, faults>>

LeaveStatus(r) ==
  /\ list \notin {NoList, "ledger"}
  /\ r \in (Leaving \cap Created) \ left
  /\ left' = left \cup {r}
  /\ UNCHANGED <<list, born, ui, cache, flight, clicks, faults>>

-----------------------------------------------------------------------------
ListsClosed ==
  /\ list = NoList
  /\ born = [r \in Rows |-> 0] /\ left = {}
  /\ ui = initialFilters
  /\ cache = <<>> /\ flight = <<>>
  /\ clicks = 0 /\ faults = 0

(* A list page is opened while some rows are there already.                *)
ListOpened ==
  /\ list \in Lists
  /\ born \in Starts
  /\ left = {}
  /\ ui = initialFilters
  /\ cache = <<>>
  /\ flight = With(<<>>, QueryKey(ui), Sent(SearchParams(ui)))
  /\ clicks = 0 /\ faults = 0

FetchStep ==
  \E k \in DOMAIN flight : ReadRows(k) \/ Answered(k)

UserStep ==
  \/ /\ Shown
     /\ PaymentsTable \/ LedgerTable \/ NachaFilesTable \/ WebhookEventsTable
  \/ Retry \/ Reopen

ListNext ==
  /\ list # NoList
  /\ \/ UserStep \/ Debounce \/ Poll
     \/ FetchStep
     \/ \E k \in DOMAIN flight : Fails(k)
     \/ \E k \in DOMAIN cache : GoStale(k)
     \/ \E r \in Rows : CreateRow(r) \/ LeaveStatus(r)

-----------------------------------------------------------------------------
(* Properties. *)

(* What the screen shows is a page of an answer to the query the screen    *)
(* names, however many fetches are under way and in whatever order they    *)
(* come back.                                                              *)
AnswersStayApart ==
  Shown => \E gone \in SUBSET left : \E s \in Ordered(Key, Data.of, gone) :
             Data.rows = Page(s, Key.page, PageSize)

(* A user who steps from the first page to the last, each read after the   *)
(* one before it, has been shown every row that was there at the start and *)
(* has not left the filter, although rows are inserted meanwhile and move  *)
(* the others on.  That is promised of no walk that selects a status, and  *)
(* of payments of no walk sorted by status, for a payment that moves there *)
(* takes another's place, nor of one in which two rows are equal in the    *)
(* column: payments have no order then, and each page may choose its own.  *)
PageOf(k, n) == [k EXCEPT !.page = n]

Walked(k) ==
  /\ \A n \in 1..k.page : HasData(cache, PageOf(k, n))
  /\ \A n \in 2..k.page : cache[PageOf(k, n - 1)].answer.of \subseteq cache[PageOf(k, n)].answer.of
  /\ k.page >= TotalPages(cache[k].answer.total, PageSize)
  /\ k.status = "all" /\ k.sortBy # "status"
  /\ list = "payments" =>
       \A r, s \in Created : r # s => Column(k, {})[r] # Column(k, {})[s]

WalkSkipsNothing ==
  \A k \in DOMAIN cache : Walked(k) =>
    Selected(k, cache[PageOf(k, 1)].answer.of, {})
      \subseteq UNION {cache[PageOf(k, n)].answer.rows : n \in 1..k.page}
=============================================================================
