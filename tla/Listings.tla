------------------------------- MODULE Listings ------------------------------
(***************************************************************************)
(* What the list endpoints of the API share: the range of dates a query    *)
(* selects, the order of the rows and the page that is returned.  Time is  *)
(* counted in ticks, a day has Day of them.                                *)
(***************************************************************************)
EXTENDS Integers, SequencesExt

CONSTANTS
  Day,         \* ticks of a UTC day
  Week, Month, \* the days of the ranges "7d" and "30d"
  NoDate       \* an absent startDate or endDate

ASSUME ListingsAssumption ==
  {Day, Week, Month} \subseteq Nat \ {0} /\ NoDate \notin Nat

StartOfUtcDay(t) == t - (t % Day)
Days(range) == CASE range = "today" -> 1 [] range = "7d" -> Week [] OTHER -> Month

Explicit(q) == q.from # NoDate \/ q.to # NoDate

(* The queries that are answered with 400 before anything is read.         *)
BadRange(q) ==
  IF Explicit(q)
  THEN /\ q.from # NoDate /\ q.to # NoDate
       /\ StartOfUtcDay(q.from) > StartOfUtcDay(q.to)
  ELSE q.range = "custom"

(* The days of the query that a row created at t falls in: explicit dates  *)
(* win over the named range, and the last day is included.                 *)
InDates(q, t, now) ==
  IF Explicit(q)
  THEN /\ q.from = NoDate \/ StartOfUtcDay(q.from) <= t
       /\ q.to = NoDate \/ t < StartOfUtcDay(q.to) + Day
  ELSE \/ q.range = "all"
       \/ /\ StartOfUtcDay(now) - (Days(q.range) - 1) * Day <= t
          /\ t < StartOfUtcDay(now) + Day

(* Deliveries count the last days back from now instead.                   *)
InDeliveryDates(q, t, now) ==
  IF Explicit(q) \/ q.range \in {"all", "today"}
  THEN InDates(q, t, now)
  ELSE now - Days(q.range) * Day <= t /\ t < now

(* Mutation: no list orders equal keys. *)
TieBreak_None(list, a, b) == TRUE

(* Equal keys are ordered by id: downwards in files and deliveries, upwards *)
(* in the ledger, which sorts in memory, and not at all in payments.       *)
TieBreak(list, a, b) ==
  CASE list = "payments" -> TRUE [] list = "ledger" -> a < b [] OTHER -> a > b

(* The orders in which a query may return its rows, key the sorted column. *)
Orders(list, rows, key, direction) ==
  {s \in SetToSeqs(rows) : \A i, j \in DOMAIN s : i < j =>
     \/ key[s[i]] = key[s[j]] /\ TieBreak(list, s[i], s[j])
     \/ IF direction = "asc" THEN key[s[i]] < key[s[j]] ELSE key[s[i]] > key[s[j]]}

(* skip and take, or slice.                                                *)
Page(s, page, size) ==
  {s[i] : i \in DOMAIN s \cap ((page - 1) * size + 1)..(page * size)}

TotalPages(total, size) == (total + size - 1) \div size
=============================================================================
