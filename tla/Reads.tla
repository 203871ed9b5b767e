-------------------------------- MODULE Reads --------------------------------
(***************************************************************************)
(* What the API lets merchants and admins read of the payments: the list,  *)
(* the ledger with its running balances, the merchants' balances, the      *)
(* dashboard, and the NACHA files, rendered again.  The writers are the    *)
(* transitions that PaymentLifecycle checks, here with the times and the   *)
(* files that the readers select and total by.                             *)
(***************************************************************************)
EXTENDS Listings, NachaFile, FiniteSetsExt

CONSTANTS
  Payments,      \* ids, ordered as the database orders them
  Merchants,     \* ids, likewise
  MaxTick,       \* bound on time
  InitialCredit, \* of the funding account of each merchant
  MaxEntries,    \* bound on the ledger
  Everyone,      \* the scope of an admin
  None           \* never, no file

ASSUME ReadsAssumption ==
  /\ Payments \cup Merchants \subseteq Nat \ {0}
  /\ IsFiniteSet(Payments) /\ IsFiniteSet(Merchants)
  /\ MerchantOf \in [Payments -> Merchants]
  /\ None \notin Nat /\ Everyone \notin Merchants

VARIABLES
  now,
  created,    \* when a payment was created
  status,
  file,       \* the AchFile of a payment, named by its first payment
  exported,   \* when a file was created
  metadata,   \* what the row of a file keeps of it
  posted      \* the ledger entries, in the order of createdAt and id

rows == <<created, status, file, exported, metadata, posted>>
vars == <<now, rows>>

Existing == {p \in Payments : created[p] # None}
Files == {f \in Payments : exported[f] # None}
ById(S) == SetToSortSeq(S, <)
InScope(m, scope) == scope \in {m, Everyone}

(* The payments that a reader of the scope is given with a file.           *)
ScopedTo(f, scope) == {p \in Payments : file[p] = f /\ InScope(MerchantOf[p], scope)}
PaymentsOf(f, scope) == ById(ScopedTo(f, scope))
(***************************************************************************)
(* Writers.                                                                *)
(***************************************************************************)
Entry(type, id, m, amount) ==
  [key |-> <<type, id>>, account |-> m, amount |-> amount, at |-> now]

Init ==
  /\ now = 0
  /\ created = [p \in Payments |-> None]
  /\ status = [p \in Payments |-> "RECEIVED"]
  /\ file = [p \in Payments |-> None]
  /\ exported = [p \in Payments |-> None]
  /\ metadata = [p \in Payments |-> None]
  /\ posted = LET ms == SetToSeq(Merchants) IN
       [i \in DOMAIN ms |-> Entry("INITIAL_CREDIT", ms[i], ms[i], InitialCredit)]

Tick ==
  /\ now < MaxTick
  /\ now' = now + 1
  /\ UNCHANGED rows

Create(p) ==
  /\ created[p] = None
  /\ created' = [created EXCEPT ![p] = now]
  /\ UNCHANGED <<now, status, file, exported, metadata, posted>>

(* Entries of one instant are ordered by a random id: a new one takes any  *)
(* place among them.                                                       *)
Post(type, p) ==
  /\ Len(posted) < MaxEntries
  /\ \E i \in 1..(Len(posted) + 1) :
       /\ \A j \in i..Len(posted) : posted[j].at = now
       /\ posted' = InsertAt(posted, i, Entry(type, p, MerchantOf[p], Amount[p]))

Has(type, p) == \E i \in DOMAIN posted : posted[i].key = <<type, p>>

(* The hold of a credit: it ends when it is released, which it may be at   *)
(* any time, and is told from its entries.                                 *)
Held(p) == Has("RESERVATION", p) /\ ~Has("RESERVATION_RELEASE", p)

(* The worker decides; it accepts a credit together with its hold.         *)
Decide(p, verdict) ==
  /\ p \in Existing /\ status[p] = "RECEIVED"
  /\ status' = [status EXCEPT ![p] = verdict]
  /\ IF verdict = "VALIDATED" /\ Direction[p] = "CREDIT"
     THEN Post("RESERVATION", p) ELSE UNCHANGED posted
  /\ UNCHANGED <<now, created, file, exported, metadata>>

(* validate() of the API writes VALIDATED over the RECEIVED that it read,  *)
(* though the worker may have rejected the payment since.  Only over an    *)
(* accepted one it cannot: the key of its event is taken.                  *)
Validate(p) ==
  /\ p \in Existing /\ status[p] \in {"RECEIVED", "VALIDATION_FAILED"}
  /\ status' = [status EXCEPT ![p] = "VALIDATED"]
  /\ UNCHANGED <<now, created, file, exported, metadata, posted>>

(* reserve() of the API, of a payment that may have been submitted since   *)
(* its status was read.                                                    *)
Reserve(p) ==
  /\ status[p] \in {"VALIDATED", "SUBMITTED"}
  /\ Direction[p] = "CREDIT" /\ ~Has("RESERVATION", p)
  /\ Post("RESERVATION", p)
  /\ UNCHANGED <<now, created, status, file, exported, metadata>>

Release(p) ==
  /\ Held(p)
  /\ Post("RESERVATION_RELEASE", p)
  /\ UNCHANGED <<now, created, status, file, exported, metadata>>

Waiting == {p \in Payments : status[p] = "VALIDATED" /\ file[p] = None}

(* One file has the waiting payments of the first merchant that has some.  *)
Eligible == {p \in Waiting : MerchantOf[p] = Min({MerchantOf[q] : q \in Waiting})}

Generate ==
  LET ps == ById(Eligible)  f == Min(Eligible)  day == StartOfUtcDay(now) IN
  /\ Waiting # {}
  /\ exported' = [exported EXCEPT ![f] = now]
  /\ metadata' = [metadata EXCEPT ![f] =
       [company |-> MerchantOf[f], day |-> day, entries |-> Len(ps),
        debit |-> TotalCents(ps, "DEBIT"), credit |-> TotalCents(ps, "CREDIT"),
        contents |-> Generated(ps, day)]]
  /\ file' = [p \in Payments |-> IF p \in Eligible THEN f ELSE file[p]]
  /\ status' = [p \in Payments |-> IF p \in Eligible THEN "SUBMITTED" ELSE status[p]]
  /\ UNCHANGED <<now, created, posted>>

(* The settlement of a credit moves no balance: its hold only ends.        *)
Settle(p) ==
  /\ status[p] = "SUBMITTED"
  /\ Direction[p] = "CREDIT" => Held(p)
  /\ status' = [status EXCEPT ![p] = "SETTLED"]
  /\ Post(IF Direction[p] = "DEBIT" THEN "DEBIT_POSTED" ELSE "SETTLEMENT", p)
  /\ UNCHANGED <<now, created, file, exported, metadata>>

Return(p) ==
  /\ status[p] = "SETTLED"
  /\ Direction[p] = "CREDIT" => Held(p)
  /\ status' = [status EXCEPT ![p] = "RETURNED"]
  /\ Post("RETURN", p)
  /\ UNCHANGED <<now, created, file, exported, metadata>>

Next ==
  \/ Tick
  \/ Generate
  \/ \E p \in Payments :
       \/ Create(p) \/ Validate(p) \/ Reserve(p) \/ Release(p)
       \/ Settle(p) \/ Return(p)
       \/ \E verdict \in {"VALIDATED", "VALIDATION_FAILED"} : Decide(p, verdict)

Spec == Init /\ [][Next]_vars
(***************************************************************************)
(* The list of payments.                                                   *)
(***************************************************************************)
listForScope(scope, q) ==
  {p \in Existing : InScope(MerchantOf[p], scope) /\ InDates(q, created[p], now)}
(***************************************************************************)
(* The ledger, the merchants' balances and the dashboard.                  *)
(***************************************************************************)
creditEntryTypes ==
  {"INITIAL_CREDIT", "CREDIT_POSTED", "RETURN", "REVERSAL", "ADJUSTMENT"}

entryImpact(e) == CASE e.key[1] \in creditEntryTypes -> e.amount
                    [] e.key[1] = "DEBIT_POSTED"     -> -e.amount
                    [] OTHER                         -> 0

(* Mutation: the administration forgets that a return gives money back. *)
ledgerBalanceImpact_NoReturn(e) ==
  IF e.key[1] = "RETURN" THEN 0 ELSE entryImpact(e)

ledgerBalanceImpact(e) == CASE e.key[1] = "DEBIT_POSTED"     -> -e.amount
                            [] e.key[1] \in creditEntryTypes -> e.amount
                            [] OTHER                         -> 0

Effect(js) == SumFunction([j \in js |-> entryImpact(posted[j])])

Matching(scope, q) ==
  {i \in DOMAIN posted : InScope(posted[i].account, scope) /\ InDates(q, posted[i].at, now)}

(* Mutation: one running balance for all the accounts of the scope. *)
Statement_OneBalance(scope, q) ==
  LET es == Matching(scope, q) IN
  [i \in es |-> Effect({j \in es : j <= i})]

(* The balance in each row of the ledger: one per account runs over the    *)
(* entries that match, oldest first, before they are sorted and paged.     *)
Statement(scope, q) ==
  LET es == Matching(scope, q) IN
  [i \in es |-> Effect({j \in es : j <= i /\ posted[j].account = posted[i].account})]

OfAccount(m) == {i \in DOMAIN posted : posted[i].account = m}

AdminPosted(m) == SumFunction([i \in OfAccount(m) |-> ledgerBalanceImpact(posted[i])])

(* The SQL sum that payment details and the reservation check use.         *)
PostedBalance(m) == SumFunction([i \in OfAccount(m) |->
  CASE posted[i].key[1] \in creditEntryTypes -> posted[i].amount
    [] posted[i].key[1] = "DEBIT_POSTED"     -> -posted[i].amount
    [] OTHER                                 -> 0])

(* Mutation: the first instant of the first day is left out. *)
paymentsBetween_Late(scope, first, last) ==
  {p \in Existing : InScope(MerchantOf[p], scope)
                    /\ first * Day < created[p] /\ created[p] < last * Day}

paymentsBetween(scope, first, last) ==
  {p \in Existing : InScope(MerchantOf[p], scope)
                    /\ first * Day <= created[p] /\ created[p] < last * Day}

isFinancialAmount(p) == status[p] # "VALIDATION_FAILED"
sumAmounts(S) == SumFunction([p \in {q \in S : isFinancialAmount(q)} |-> Amount[p]])

Today == now \div Day

buildSummary(scope) ==
  LET today == paymentsBetween(scope, Today, Today + 1) IN
  [paymentsToday |-> Cardinality(today), totalAmountCents |-> sumAmounts(today)]

buildDailyVolume(scope) ==
  LET week == paymentsBetween(scope, Today - Week + 1, Today + 1)
  IN [d \in (Today - Week + 1)..Today |->
        LET ofDay == {p \in week : created[p] \div Day = d}
        IN [count |-> Cardinality(ofDay), cents |-> sumAmounts(ofDay)]]

PaymentStatus == {"RECEIVED", "VALIDATED", "SUBMITTED", "SETTLED", "RETURNED",
                  "VALIDATION_FAILED"}

buildStatusDistribution(scope) ==
  [s \in PaymentStatus |->
     Cardinality({p \in Existing : InScope(MerchantOf[p], scope) /\ status[p] = s})]
(***************************************************************************)
(* The list of NACHA files and their download.                             *)
(***************************************************************************)
(* Mutation: the totals of the row leave out what was returned. *)
toFileRow_NoReturns(f, scope) ==
  LET ps == SelectSeq(PaymentsOf(f, scope), LAMBDA p : status[p] # "RETURNED") IN
  [submission |-> IF \E p \in ScopedTo(f, scope) : status[p] = "VALIDATED"
                  THEN "PENDING" ELSE "SUBMITTED",
   entries |-> Len(ps),
   debit |-> TotalCents(ps, "DEBIT"), credit |-> TotalCents(ps, "CREDIT")]

(* No code writes the status FAILED of a file, so the row never shows it.  *)
toFileRow(f, scope) ==
  LET ps == PaymentsOf(f, scope) IN
  [submission |-> IF \E p \in ScopedTo(f, scope) : status[p] = "VALIDATED"
                  THEN "PENDING" ELSE "SUBMITTED",
   entries |-> Len(ps),
   debit |-> TotalCents(ps, "DEBIT"), credit |-> TotalCents(ps, "CREDIT")]

fileStatusWhere(f, wanted) ==
  LET pending == \E p \in Payments : file[p] = f /\ status[p] = "VALIDATED" IN
  wanted = IF pending THEN "PENDING" ELSE "SUBMITTED"

download(f, scope) == RenderNacha(PaymentsOf(f, scope), metadata[f].day)
(***************************************************************************)
(* Properties.                                                             *)
(***************************************************************************)
Scopes == Merchants \cup {Everyone}
AllTime == [from |-> NoDate, to |-> NoDate, range |-> "all"]
OnDay(d) == [from |-> d * Day, to |-> d * Day, range |-> "30d"]

HoldTypes == {"RESERVATION", "RESERVATION_RELEASE", "SETTLEMENT"}

(* The balance beside an entry is that of its account when the entry was   *)
(* posted, whoever reads it and up to whatever day, so it can be audited   *)
(* against the one the reservation check computed.  What holds, releases   *)
(* or settles a credit moves no money.                                     *)
BalanceBesideEntry ==
  \A scope \in Scopes, last \in {NoDate} \cup 0..now :
    LET ledger == Statement(scope, [AllTime EXCEPT !.to = last]) IN
    \A i \in DOMAIN ledger :
      ledger[i] = SumFunction([j \in {j \in OfAccount(posted[i].account) : j <= i} |->
        CASE posted[j].key[1] \in HoldTypes   -> 0
          [] posted[j].key[1] = "DEBIT_POSTED" -> -posted[j].amount
          [] OTHER                           -> posted[j].amount])

(* The ledger, the administration and the reservation check, three copies  *)
(* of one rule, come to the same balance of every merchant.                *)
BalancesAgree ==
  \A m \in Merchants :
    LET ledger == Statement(m, AllTime) IN
    /\ AdminPosted(m) = PostedBalance(m)
    /\ PostedBalance(m) = ledger[Max(DOMAIN ledger)]

(* The dashboard counts what the list of payments shows for the same days: *)
(* today, each day of the week, and every status.                          *)
DashboardMatchesLists ==
  \A scope \in Scopes :
    LET listed(q) == listForScope(scope, q)
        volume == buildDailyVolume(scope) IN
    /\ buildSummary(scope).paymentsToday = Cardinality(listed([AllTime EXCEPT !.range = "today"]))
    /\ \A d \in DOMAIN volume : d >= 0 =>
         volume[d] = [count |-> Cardinality(listed(OnDay(d))), cents |-> sumAmounts(listed(OnDay(d)))]
    /\ SumFunction([d \in DOMAIN volume |-> volume[d].count])
         = Cardinality(listed([AllTime EXCEPT !.range = "7d"]))
    /\ LET counts == buildStatusDistribution(scope) IN
       SumFunction(counts) = Cardinality(listed(AllTime))

(* A file downloaded by its merchant or an admin is, record by record, the *)
(* file that was submitted, whatever became of its payments since.         *)
DownloadIsGenerated ==
  \A f \in Files : \A scope \in {metadata[f].company, Everyone} :
    download(f, scope) = metadata[f].contents

(* What a file's row adds up from its payments is what its metadata, which *)
(* the summary adds up, kept at generation; and the status it shows is the *)
(* one filter that finds it.                                               *)
FileRowsAgree ==
  \A f \in Files : \A scope \in {metadata[f].company, Everyone} :
    LET row == toFileRow(f, scope) IN
    /\ row.entries = metadata[f].entries
    /\ row.debit = metadata[f].debit /\ row.credit = metadata[f].credit
    /\ \A s \in {"PENDING", "SUBMITTED"} : fileStatusWhere(f, s) <=> row.submission = s
=============================================================================
