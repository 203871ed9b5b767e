----------------------------- MODULE ReadsProofs -----------------------------
(***************************************************************************)
(* What merchants and admins read of the payments is consistent, whatever  *)
(* is read and however many payments there are.                            *)
(***************************************************************************)
EXTENDS Reads, SumTheorems, TLAPS

(* SumFunction is the sum of SumTheorems. *)
LEMMA SumIs == ASSUME NEW f PROVE SumFunction(f) = SumOf(f, DOMAIN f)
  BY DEF SumFunction, SumFunctionOnSet, FoldFunctionOnSet, SumOf, MapThenSumSet

LEMMA SumSame ==
  ASSUME NEW e, NEW f, DOMAIN e = DOMAIN f, IsFiniteSet(DOMAIN f),
         \A x \in DOMAIN f : e[x] = f[x]
  PROVE  SumFunction(e) = SumFunction(f)
  BY SumIs, SumEqual

-----------------------------------------------------------------------------
(* The ledger: its entries are in the order of their times, none of which  *)
(* is to come, and every account has one at least.                         *)
EntryTypes == {"INITIAL_CREDIT", "RESERVATION", "RESERVATION_RELEASE", "DEBIT_POSTED",
               "SETTLEMENT", "RETURN"}

Entries == [key : EntryTypes \X (Payments \cup Merchants), account : Merchants,
            amount : {InitialCredit} \cup {Amount[p] : p \in Payments}, at : Nat]

LedgerInv ==
  /\ now \in Nat
  /\ posted \in Seq(Entries)
  /\ \A i \in DOMAIN posted : posted[i].at <= now
  /\ \A i, j \in DOMAIN posted : i <= j => posted[i].at <= posted[j].at
  /\ \A m \in Merchants : OfAccount(m) # {}

LEMMA InsertAtIs ==
  ASSUME NEW E, NEW s \in Seq(E), NEW e \in E, NEW i \in 1..(Len(s) + 1)
  PROVE  /\ InsertAt(s, i, e) \in Seq(E)
         /\ DOMAIN InsertAt(s, i, e) = 1..(Len(s) + 1)
         /\ \A j \in 1..(Len(s) + 1) :
              InsertAt(s, i, e)[j] = IF j < i THEN s[j] ELSE IF j = i THEN e ELSE s[j - 1]
<1> DEFINE a == SubSeq(s, 1, i - 1)  b == SubSeq(s, i, Len(s))
<1>1. /\ a \in Seq(E) /\ Len(a) = i - 1 /\ \A j \in 1..(i - 1) : a[j] = s[j]
      /\ b \in Seq(E) /\ Len(b) = Len(s) + 1 - i
      /\ \A j \in 1..(Len(s) + 1 - i) : b[j] = s[i + j - 1]
  OBVIOUS
<1> HIDE DEF a, b
<1>2. /\ a \o <<e>> \in Seq(E) /\ Len(a \o <<e>>) = i
      /\ \A j \in 1..i : (a \o <<e>>)[j] = IF j < i THEN s[j] ELSE e
  BY <1>1
<1> DEFINE c == a \o <<e>>
<1>c. c \in Seq(E) /\ Len(c) = i /\ \A j \in 1..i : c[j] = IF j < i THEN s[j] ELSE e
  BY <1>2
<1> HIDE DEF c
<1>3. /\ c \o b \in Seq(E) /\ Len(c \o b) = Len(s) + 1
      /\ \A j \in 1..(Len(s) + 1) : (c \o b)[j] = IF j <= i THEN c[j] ELSE b[j - i]
  BY <1>1, <1>c
<1>4. InsertAt(s, i, e) = c \o b
  BY DEF InsertAt, a, b, c
<1> QED BY <1>1, <1>c, <1>3, <1>4

LEMMA EntriesTyped ==
  ASSUME LedgerInv
  PROVE  /\ Len(posted) \in Nat /\ DOMAIN posted = 1..Len(posted)
         /\ \A i \in DOMAIN posted : posted[i] \in Entries /\ posted[i].at \in Nat
<1>1. posted \in Seq(Entries)
  BY DEF LedgerInv
<1>2. \A i \in DOMAIN posted : posted[i] \in Entries
  BY <1>1
<1>3. \A e \in Entries : e.at \in Nat
  BY DEF Entries
<1> QED BY <1>1, <1>2, <1>3

LEMMA LedgerInit == Init => LedgerInv
<1> SUFFICES ASSUME Init PROVE LedgerInv
  OBVIOUS
<1> DEFINE ms == SetToSeq(Merchants)  n == Cardinality(Merchants)
<1>1. n \in Nat /\ IsFiniteSet(Merchants)
  BY FS_CardinalityType, ReadsAssumption
<1>2. PICK e : e \in Bijection(1..n, Merchants)
  BY <1>1, FS_CardinalityType DEF ExistsBijection
<1>3. \E f \in [1..n -> Merchants] : IsInjective(f)
  BY <1>2 DEF Bijection, Injection, IsInjective
<1>4. ms \in [1..n -> Merchants] /\ IsInjective(ms)
  BY <1>3 DEF SetToSeq
<1>5. ms \in Surjection(1..n, Merchants)
  <2>1. ms \in Injection(1..n, Merchants)
    BY <1>4 DEF Injection
  <2> QED BY <1>1, <2>1, FS_Injection, FS_Interval
<1> HIDE DEF ms, n
<1>6. posted = [i \in 1..n |-> Entry("INITIAL_CREDIT", ms[i], ms[i], InitialCredit)] /\ now = 0
  BY <1>4 DEF Init, ms
<1>7. \A i \in 1..n : posted[i] \in Entries /\ posted[i].at = 0 /\ posted[i].account = ms[i]
  BY <1>4, <1>6 DEF Entry, Entries, EntryTypes
<1>8. posted \in Seq(Entries) /\ DOMAIN posted = 1..n
  BY <1>1, <1>6, <1>7
<1>9. \A m \in Merchants : \E i \in 1..n : posted[i].account = m
  BY <1>5, <1>7 DEF Surjection
<1> QED BY <1>6, <1>7, <1>8, <1>9 DEF LedgerInv, OfAccount

LEMMA PostKeeps ==
  ASSUME LedgerInv, NEW p \in Payments, NEW type \in EntryTypes, Post(type, p), now' = now
  PROVE  LedgerInv'
<1> DEFINE e == Entry(type, p, MerchantOf[p], Amount[p])  n == Len(posted)
<1>1. e \in Entries /\ e.at = now
  BY ReadsAssumption DEF LedgerInv, Entry, Entries
<1>2. PICK i \in 1..(n + 1) : /\ \A j \in i..n : posted[j].at = now
                              /\ posted' = InsertAt(posted, i, e)
  BY DEF Post
<1> HIDE DEF e
<1>3. /\ posted' \in Seq(Entries) /\ DOMAIN posted' = 1..(n + 1)
      /\ \A j \in 1..(n + 1) :
           posted'[j] = IF j < i THEN posted[j] ELSE IF j = i THEN e ELSE posted[j - 1]
  <2>1. posted \in Seq(Entries) /\ e \in Entries
    BY <1>1 DEF LedgerInv
  <2>2. /\ InsertAt(posted, i, e) \in Seq(Entries)
        /\ DOMAIN InsertAt(posted, i, e) = 1..(n + 1)
        /\ \A j \in 1..(n + 1) :
             InsertAt(posted, i, e)[j] =
               IF j < i THEN posted[j] ELSE IF j = i THEN e ELSE posted[j - 1]
    BY <2>1, InsertAtIs
  <2> QED BY <1>2, <2>2
<1>4. n \in Nat /\ DOMAIN posted = 1..n /\ \A j \in 1..n : posted[j].at \in Nat
  BY EntriesTyped
<1>5. \A j \in 1..(n + 1) : /\ posted'[j].at \in Nat /\ posted'[j].at <= now
                            /\ j >= i => posted'[j].at = now
                            /\ j < i => posted'[j] = posted[j]
  <2> SUFFICES ASSUME NEW j \in 1..(n + 1)
               PROVE  /\ posted'[j].at \in Nat /\ posted'[j].at <= now
                      /\ j >= i => posted'[j].at = now
                      /\ j < i => posted'[j] = posted[j]
    OBVIOUS
  <2>1. CASE j < i
    BY <1>3, <1>4, <2>1 DEF LedgerInv
  <2>2. CASE j = i
    BY <1>1, <1>3, <1>4, <2>2 DEF LedgerInv
  <2>3. CASE j > i
    <3>1. j - 1 \in i..n /\ j - 1 \in 1..n /\ posted'[j] = posted[j - 1]
      BY <1>3, <1>4, <2>3
    <3> QED BY <1>2, <1>4, <2>3, <3>1 DEF LedgerInv
  <2> QED BY <1>4, <2>1, <2>2, <2>3
<1>6. \A j, k \in 1..(n + 1) : j <= k => posted'[j].at <= posted'[k].at
  <2> SUFFICES ASSUME NEW j \in 1..(n + 1), NEW k \in 1..(n + 1), j <= k
               PROVE  posted'[j].at <= posted'[k].at
    OBVIOUS
  <2>1. CASE k >= i
    BY <1>5, <2>1
  <2>2. CASE k < i
    <3>1. j < i /\ j \in DOMAIN posted /\ k \in DOMAIN posted
      BY <1>4, <2>2
    <3>2. posted[j].at <= posted[k].at
      BY <3>1 DEF LedgerInv
    <3> QED BY <1>5, <2>2, <3>1, <3>2
  <2> QED BY <1>4, <2>1, <2>2
<1>7. ASSUME NEW m \in Merchants PROVE OfAccount(m)' # {}
  <2>1. PICK j \in 1..n : posted[j].account = m
    BY <1>4 DEF LedgerInv, OfAccount
  <2>2. CASE j < i
    BY <1>3, <1>4, <2>1, <2>2 DEF OfAccount
  <2>3. CASE j >= i
    <3>1. j + 1 \in 1..(n + 1) /\ posted'[j + 1] = posted[j]
      BY <1>3, <1>4, <2>3
    <3> QED BY <1>3, <2>1, <3>1 DEF OfAccount
  <2> QED BY <1>4, <2>2, <2>3
<1> QED BY <1>3, <1>5, <1>6, <1>7 DEF LedgerInv

LEMMA LedgerStep == LedgerInv /\ [Next]_vars => LedgerInv'
<1> SUFFICES ASSUME LedgerInv, [Next]_vars PROVE LedgerInv'
  OBVIOUS
<1>1. ASSUME UNCHANGED posted, now' = now PROVE LedgerInv'
  BY <1>1 DEF LedgerInv, OfAccount
<1>2. CASE Tick
  <2>1. now' \in Nat /\ now <= now' /\ UNCHANGED posted
    BY <1>2 DEF LedgerInv, Tick, rows
  <2>2. \A i \in DOMAIN posted : posted[i].at \in Nat /\ posted[i].at <= now'
    BY <2>1, EntriesTyped DEF LedgerInv
  <2> QED BY <2>1, <2>2 DEF LedgerInv, OfAccount
<1>3. ASSUME NEW p \in Payments, Settle(p) PROVE LedgerInv'
  <2>1. PICK type \in EntryTypes : Post(type, p)
    BY <1>3 DEF Settle, EntryTypes
  <2> QED BY <1>3, <2>1, PostKeeps DEF Settle
<1>4. ASSUME NEW p \in Payments, NEW type \in {"RESERVATION", "RESERVATION_RELEASE", "RETURN"},
             Post(type, p), now' = now
      PROVE  LedgerInv'
  <2>1. type \in EntryTypes
    BY DEF EntryTypes
  <2> QED BY <1>4, <2>1, PostKeeps
<1>5. CASE UNCHANGED vars
  BY <1>1, <1>5 DEF vars, rows
<1>6. CASE Generate
  BY <1>1, <1>6 DEF Generate
<1>7. ASSUME NEW p \in Payments,
             Create(p) \/ Validate(p) \/ \E verdict \in {"VALIDATED", "VALIDATION_FAILED"} : Decide(p, verdict)
      PROVE  LedgerInv'
  BY <1>1, <1>4, <1>7 DEF Create, Validate, Decide
<1>8. ASSUME NEW p \in Payments, Reserve(p) \/ Release(p) \/ Return(p)
      PROVE  LedgerInv'
  BY <1>4, <1>8 DEF Reserve, Release, Return
<1> QED BY <1>8, <1>2, <1>3, <1>4, <1>5, <1>6, <1>7 DEF Next

-----------------------------------------------------------------------------
(* Balances. *)

(* What is read of the ledger up to some day is a beginning of it. *)
LEMMA EarlierIsIncluded ==
  ASSUME NEW q, q.from = NoDate, q.to \in {NoDate} \cup Nat, q.to = NoDate => q.range = "all",
         NEW t \in Nat, NEW u \in Nat, t <= u, InDates(q, u, now)
  PROVE  InDates(q, t, now)
<1>1. CASE q.to = NoDate
  BY <1>1 DEF InDates, Explicit
<1>2. CASE q.to # NoDate
  <2>1. StartOfUtcDay(q.to) \in Int /\ Day \in Int
    BY <1>2, ListingsAssumption DEF StartOfUtcDay
  <2>2. Explicit(q) /\ u < StartOfUtcDay(q.to) + Day
    BY <1>2 DEF InDates, Explicit
  <2>3. t < StartOfUtcDay(q.to) + Day
    BY <2>1, <2>2
  <2> QED BY <2>2, <2>3 DEF InDates
<1> QED BY <1>1, <1>2

LEMMA QueryIs ==
  /\ AllTime.from = NoDate /\ AllTime.to = NoDate /\ AllTime.range = "all"
  /\ \A d : LET q == [AllTime EXCEPT !.to = d] IN
       q.from = NoDate /\ q.to = d /\ q.range = "all"
  /\ \A r : LET q == [AllTime EXCEPT !.range = r] IN
       q.from = NoDate /\ q.to = NoDate /\ q.range = r
<1>1. AllTime \in [from : {NoDate}, to : {NoDate}, range : {"all"}]
  BY DEF AllTime
<1> QED BY <1>1

LEMMA EffectOf ==
  ASSUME NEW e \in Entries
  PROVE  /\ entryImpact(e) = CASE e.key[1] \in HoldTypes   -> 0
                               [] e.key[1] = "DEBIT_POSTED" -> -e.amount
                               [] OTHER                     -> e.amount
         /\ entryImpact(e) = ledgerBalanceImpact(e)
         /\ entryImpact(e) = CASE e.key[1] \in creditEntryTypes -> e.amount
                               [] e.key[1] = "DEBIT_POSTED"     -> -e.amount
                               [] OTHER                         -> 0
<1>1. e.key[1] \in EntryTypes
  BY DEF Entries
<1> DEFINE type == e.key[1]
<1> HIDE DEF type
<1>2. \/ type \in HoldTypes /\ type # "DEBIT_POSTED" /\ type \notin creditEntryTypes
      \/ type = "DEBIT_POSTED" /\ type \notin HoldTypes /\ type \notin creditEntryTypes
      \/ type \notin HoldTypes /\ type # "DEBIT_POSTED" /\ type \in creditEntryTypes
  BY <1>1 DEF type, EntryTypes, HoldTypes, creditEntryTypes
<1> QED BY <1>2 DEF type, entryImpact, ledgerBalanceImpact

LEMMA PartsFinite ==
  ASSUME LedgerInv, NEW S \in SUBSET DOMAIN posted PROVE IsFiniteSet(S)
<1>1. IsFiniteSet(1..Len(posted))
  BY EntriesTyped, FS_Interval
<1> QED BY <1>1, EntriesTyped, FS_Subset

(* The balance beside an entry is that of its account when it was posted,  *)
(* whoever reads the ledger and up to whatever day (listForScope's         *)
(* balancesByFundingAccount).                                              *)
THEOREM BalancesAudit == Spec => []BalanceBesideEntry
<1>1. LedgerInv => BalanceBesideEntry
  <2> SUFFICES ASSUME LedgerInv, NEW scope \in Scopes, NEW last \in {NoDate} \cup 0..now,
                      NEW i \in DOMAIN Statement(scope, [AllTime EXCEPT !.to = last])
               PROVE  Statement(scope, [AllTime EXCEPT !.to = last])[i]
                        = SumFunction([j \in {j \in OfAccount(posted[i].account) : j <= i} |->
                            CASE posted[j].key[1] \in HoldTypes   -> 0
                              [] posted[j].key[1] = "DEBIT_POSTED" -> -posted[j].amount
                              [] OTHER                             -> posted[j].amount])
    BY DEF BalanceBesideEntry
  <2> DEFINE q == [AllTime EXCEPT !.to = last]  es == Matching(scope, q)
             S == {j \in es : j <= i /\ posted[j].account = posted[i].account}
             T == {j \in OfAccount(posted[i].account) : j <= i}
             Now0 == [j \in S |-> entryImpact(posted[j])]
             Then == [j \in T |->
                       CASE posted[j].key[1] \in HoldTypes   -> 0
                         [] posted[j].key[1] = "DEBIT_POSTED" -> -posted[j].amount
                         [] OTHER                             -> posted[j].amount]
  <2>1. q.from = NoDate /\ q.to \in {NoDate} \cup Nat /\ (q.to = NoDate => q.range = "all")
    BY QueryIs DEF LedgerInv
  <2> HIDE DEF q
  <2>2. i \in es /\ Statement(scope, q)[i] = SumFunction(Now0)
    BY DEF Statement, Effect, q
  <2>3. i \in DOMAIN posted /\ InScope(posted[i].account, scope) /\ InDates(q, posted[i].at, now)
    BY <2>2 DEF Matching
  <2>4. ASSUME NEW j \in DOMAIN posted, j <= i PROVE InDates(q, posted[j].at, now)
    <3>1. posted[j].at \in Nat /\ posted[i].at \in Nat /\ posted[j].at <= posted[i].at
      BY <2>3, <2>4, EntriesTyped DEF LedgerInv
    <3>2. \A t, u \in Nat : t <= u /\ InDates(q, u, now) => InDates(q, t, now)
      BY <2>1, EarlierIsIncluded
    <3> QED BY <2>3, <3>1, <3>2
  <2>5. S = T
    BY <2>3, <2>4 DEF Matching, OfAccount
  <2>6. S \subseteq DOMAIN posted
    BY DEF Matching
  <2>7. \A j \in S : Now0[j] = Then[j]
    BY <2>5, <2>6, EffectOf, EntriesTyped
  <2> HIDE DEF S, T
  <2>8. DOMAIN Now0 = S /\ DOMAIN Then = S /\ IsFiniteSet(S)
    BY <2>5, <2>6, PartsFinite
  <2> HIDE DEF Now0, Then
  <2>9. SumFunction(Now0) = SumFunction(Then)
    BY <2>7, <2>8, SumSame
  <2> QED BY <2>2, <2>9 DEF Then, T, q
<1> QED BY <1>1, LedgerInit, LedgerStep, PTL DEF Spec

(* The ledger, the administration and the reservation check, three copies  *)
(* of one rule, come to the same balance of every merchant (entryImpact,   *)
(* ledgerBalanceImpact and the SQL sums).                                  *)
THEOREM BalancesMatch == Spec => []BalancesAgree
<1>1. LedgerInv => BalancesAgree
  <2> SUFFICES ASSUME LedgerInv, NEW m \in Merchants
               PROVE  /\ AdminPosted(m) = PostedBalance(m)
                      /\ PostedBalance(m) = Statement(m, AllTime)[Max(DOMAIN Statement(m, AllTime))]
    BY DEF BalancesAgree
  <2> DEFINE S == OfAccount(m)  last == Max(S)
             Ours == [j \in S |-> entryImpact(posted[j])]
             Theirs == [j \in S |-> ledgerBalanceImpact(posted[j])]
             Sql == [i \in S |-> CASE posted[i].key[1] \in creditEntryTypes -> posted[i].amount
                                   [] posted[i].key[1] = "DEBIT_POSTED"     -> -posted[i].amount
                                   [] OTHER                                 -> 0]
  <2>1. S \subseteq DOMAIN posted /\ S # {}
    BY DEF OfAccount, LedgerInv
  <2>2. IsFiniteSet(S) /\ S \in SUBSET Nat
    BY <2>1, PartsFinite, EntriesTyped
  <2>3. \A j \in S : Ours[j] = Theirs[j] /\ Ours[j] = Sql[j]
    BY <2>1, EffectOf, EntriesTyped
  <2>4. DOMAIN Ours = S /\ DOMAIN Theirs = S /\ DOMAIN Sql = S
    OBVIOUS
  <2>5. AdminPosted(m) = SumFunction(Theirs) /\ PostedBalance(m) = SumFunction(Sql)
    BY DEF AdminPosted, PostedBalance
  <2>6. Matching(m, AllTime) = S
    <3>1. \A j \in DOMAIN posted : InScope(posted[j].account, m) <=> posted[j].account = m
      <4>1. \A j \in DOMAIN posted : posted[j].account \in Merchants
        BY EntriesTyped DEF Entries
      <4> QED BY <4>1, ReadsAssumption DEF InScope
    <3>2. \A t : InDates(AllTime, t, now)
      BY QueryIs DEF InDates, Explicit
    <3> QED BY <3>1, <3>2 DEF Matching, OfAccount
  <2>7. last \in S /\ \A j \in S : j <= last
    BY <2>1, <2>2, MaxMin
  <2>8. DOMAIN Statement(m, AllTime) = S /\ Statement(m, AllTime)[last] = SumFunction(Ours)
    <3>1. {j \in S : j <= last /\ posted[j].account = posted[last].account} = S
      BY <2>7 DEF OfAccount
    <3>2. Effect(S) = SumFunction(Ours)
      BY DEF Effect
    <3> HIDE DEF S, last, Ours
    <3>3. \A i \in S : Statement(m, AllTime)[i]
                         = Effect({j \in S : j <= i /\ posted[j].account = posted[i].account})
      BY <2>6 DEF Statement
    <3>4. DOMAIN Statement(m, AllTime) = S
      BY <2>6 DEF Statement
    <3> QED BY <2>7, <3>1, <3>2, <3>3, <3>4
  <2> HIDE DEF S, Ours, Theirs, Sql
  <2>9. SumFunction(Ours) = SumFunction(Theirs) /\ SumFunction(Sql) = SumFunction(Ours)
    BY <2>2, <2>3, <2>4, SumSame
  <2> QED BY <2>5, <2>8, <2>9
<1> QED BY <1>1, LedgerInit, LedgerStep, PTL DEF Spec

-----------------------------------------------------------------------------
(* Files: the payments of a file are of the one merchant it was made for,  *)
(* and what its row keeps is what they add up to.                          *)
Members(f) == {p \in Payments : file[p] = f}

Keeps(kept, S) ==
  LET ps == ById(S) IN
  /\ \A p \in S : MerchantOf[p] = kept.company
  /\ kept.entries = Len(ps)
  /\ kept.debit = TotalCents(ps, "DEBIT") /\ kept.credit = TotalCents(ps, "CREDIT")
  /\ kept.contents = Generated(ps, kept.day)

Kept(f) == Keeps(metadata[f], Members(f))

FilesInv ==
  /\ now \in Nat
  /\ file \in [Payments -> Payments \cup {None}]
  /\ DOMAIN exported = Payments /\ DOMAIN metadata = Payments
  /\ \A p \in Payments : file[p] # None => exported[file[p]] # None
  /\ \A f \in Files : file[f] = f /\ Kept(f)

LEMMA FilesInit == Init => FilesInv
  BY DEF Init, FilesInv, Files

(* The payments of the next file are of one merchant, its name is the      *)
(* first of them.                                                          *)
LEMMA NextFile ==
  ASSUME Waiting # {}
  PROVE  /\ Min(Eligible) \in Eligible
         /\ \A p, q \in Eligible : MerchantOf[p] = MerchantOf[q]
<1> DEFINE ms == {MerchantOf[q] : q \in Waiting}
<1>1. Waiting \subseteq Payments
  BY DEF Waiting
<1>2. ms \subseteq Merchants /\ ms # {}
  BY <1>1, ReadsAssumption
<1>3. ms \in SUBSET Nat /\ IsFiniteSet(ms)
  BY <1>2, FS_Subset, ReadsAssumption
<1> HIDE DEF ms
<1>4. Min(ms) \in ms
  BY <1>2, <1>3, MaxMin
<1>5. Eligible = {p \in Waiting : MerchantOf[p] = Min(ms)}
  BY DEF Eligible, ms
<1>6. Eligible # {}
  BY <1>4, <1>5 DEF ms
<1>7. Eligible \in SUBSET Nat /\ IsFiniteSet(Eligible)
  BY <1>1, <1>5, FS_Subset, ReadsAssumption
<1>8. Min(Eligible) \in Eligible
  BY <1>6, <1>7, MaxMin
<1> QED BY <1>5, <1>8

LEMMA GenerateKeeps == FilesInv /\ Generate => FilesInv'
<1> SUFFICES ASSUME FilesInv, Generate PROVE FilesInv'
  OBVIOUS
<1>0. PICK n : n = Min(Eligible)
  OBVIOUS
<1> DEFINE ps == ById(Eligible)  today == StartOfUtcDay(now)
           kept == [company |-> MerchantOf[n], day |-> today, entries |-> Len(ps),
                    debit |-> TotalCents(ps, "DEBIT"), credit |-> TotalCents(ps, "CREDIT"),
                    contents |-> Generated(ps, today)]
<1>1. /\ exported' = [exported EXCEPT ![n] = now]
      /\ metadata' = [metadata EXCEPT ![n] = kept]
      /\ file' = [p \in Payments |-> IF p \in Eligible THEN n ELSE file[p]]
      /\ now' = now
  BY <1>0 DEF Generate
<1>2. n \in Eligible /\ \A p, q \in Eligible : MerchantOf[p] = MerchantOf[q]
  BY <1>0, NextFile DEF Generate
<1>3. \A p \in Eligible : p \in Payments /\ file[p] = None
  BY DEF Eligible, Waiting
<1>4. n \in Payments /\ exported[n] = None /\ now # None /\ n # None
  BY <1>2, <1>3, ReadsAssumption DEF FilesInv, Files
<1>5. \A p \in Payments : file[p] # n
  BY <1>4 DEF FilesInv
<1>6. Keeps(kept, Eligible)
  BY <1>2 DEF Keeps
<1> HIDE DEF kept
<1>7. Members(n)' = Eligible
  BY <1>1, <1>3, <1>5 DEF Members
<1>8. Kept(n)'
  <2>1. metadata'[n] = kept
    BY <1>1, <1>4 DEF FilesInv
  <2> QED BY <1>6, <1>7, <2>1 DEF Kept
<1>9. ASSUME NEW f \in Files, f # n PROVE Kept(f)'
  <2>1. Members(f)' = Members(f)
    BY <1>1, <1>3, <1>9, ReadsAssumption DEF Members, FilesInv, Files
  <2>2. metadata'[f] = metadata[f] /\ Kept(f)
    BY <1>1, <1>9 DEF FilesInv, Files
  <2> QED BY <2>1, <2>2 DEF Kept
<1>10. Files' = Files \cup {n}
  BY <1>1, <1>4 DEF Files, FilesInv
<1>11. \A f \in Files : f # n /\ f \notin Eligible
  BY <1>3, <1>4, ReadsAssumption DEF FilesInv, Files
<1>12. \A f \in Files' : file'[f] = f /\ Kept(f)'
  BY <1>1, <1>2, <1>4, <1>8, <1>9, <1>10, <1>11 DEF FilesInv, Files
<1>13. file' \in [Payments -> Payments \cup {None}]
  BY <1>1, <1>4 DEF FilesInv
<1>14. \A p \in Payments : file'[p] # None => exported'[file'[p]] # None
  BY <1>1, <1>4 DEF FilesInv
<1> QED BY <1>1, <1>12, <1>13, <1>14 DEF FilesInv

LEMMA FilesStep == FilesInv /\ [Next]_vars => FilesInv'
<1> SUFFICES ASSUME FilesInv, [Next]_vars PROVE FilesInv'
  OBVIOUS
<1>1. ASSUME now' \in Nat, UNCHANGED <<file, exported, metadata>> PROVE FilesInv'
  BY <1>1 DEF FilesInv, Files, Kept, Members
<1>2. CASE Tick
  BY <1>1, <1>2 DEF Tick, rows, FilesInv
<1>3. CASE UNCHANGED vars
  BY <1>1, <1>3 DEF vars, rows, FilesInv
<1>4. ASSUME NEW p \in Payments,
             \/ Create(p) \/ Validate(p) \/ Reserve(p) \/ Release(p)
             \/ Settle(p) \/ Return(p)
             \/ \E verdict \in {"VALIDATED", "VALIDATION_FAILED"} : Decide(p, verdict)
      PROVE  FilesInv'
  BY <1>1, <1>4 DEF Create, Validate, Reserve, Release, Settle, Return, Decide, FilesInv
<1> QED BY <1>2, <1>3, <1>4, GenerateKeeps DEF Next

(* The merchant of a file and an admin are given all its payments. *)
LEMMA AllAreScoped ==
  ASSUME FilesInv, NEW f \in Files, NEW scope \in {metadata[f].company, Everyone}
  PROVE  ScopedTo(f, scope) = Members(f) /\ Kept(f)
  BY DEF ScopedTo, Members, InScope, FilesInv, Kept, Keeps

(* A file downloaded by its merchant or an admin is the one that was       *)
(* submitted, whatever became of its payments (renderNacha, downloadForScope). *)
THEOREM DownloadsAreExact == Spec => []DownloadIsGenerated
<1>1. FilesInv => DownloadIsGenerated
  <2> SUFFICES ASSUME FilesInv, NEW f \in Files, NEW scope \in {metadata[f].company, Everyone}
               PROVE  download(f, scope) = metadata[f].contents
    BY DEF DownloadIsGenerated
  <2>1. PaymentsOf(f, scope) = ById(Members(f)) /\ Kept(f)
    BY AllAreScoped DEF PaymentsOf
  <2>2. \A ps, day : RenderNacha(ps, day) = Generated(ps, day)
    BY DEF RenderNacha, Generated
  <2> QED BY <2>1, <2>2 DEF Kept, Keeps, download
<1> QED BY <1>1, FilesInit, FilesStep, PTL DEF Spec

(* What a file's row adds up from its payments is what its metadata kept,  *)
(* and the status it shows is the one filter that finds it (toFileRow,     *)
(* fileStatusWhere).                                                       *)
THEOREM FileRowsMatch == Spec => []FileRowsAgree
<1>1. FilesInv => FileRowsAgree
  <2> SUFFICES ASSUME FilesInv, NEW f \in Files, NEW scope \in {metadata[f].company, Everyone}
               PROVE  LET row == toFileRow(f, scope) IN
                      /\ row.entries = metadata[f].entries
                      /\ row.debit = metadata[f].debit /\ row.credit = metadata[f].credit
                      /\ \A s \in {"PENDING", "SUBMITTED"} :
                           fileStatusWhere(f, s) <=> row.submission = s
    BY DEF FileRowsAgree
  <2>1. PaymentsOf(f, scope) = ById(Members(f)) /\ ScopedTo(f, scope) = Members(f) /\ Kept(f)
    BY AllAreScoped DEF PaymentsOf
  <2>2. \A s : fileStatusWhere(f, s) <=>
          s = IF \E p \in Members(f) : status[p] = "VALIDATED" THEN "PENDING" ELSE "SUBMITTED"
    BY DEF fileStatusWhere, Members
  <2> QED BY <2>1, <2>2 DEF Kept, Keeps, toFileRow
<1> QED BY <1>1, FilesInit, FilesStep, PTL DEF Spec

-----------------------------------------------------------------------------
(* The dashboard. *)
StatusInv ==
  /\ now \in Nat
  /\ created \in [Payments -> Nat \cup {None}]
  /\ status \in [Payments -> PaymentStatus]

LEMMA StatusInit == Init => StatusInv
  BY DEF Init, StatusInv, PaymentStatus

LEMMA StatusStep == StatusInv /\ [Next]_vars => StatusInv'
  BY DEF StatusInv, PaymentStatus, Next, vars, rows, Tick, Create, Decide, Validate, Reserve, Release,
         Generate, Settle, Return

(* Days begin at the multiples of Day. *)
LEMMA DayOf ==
  ASSUME NEW t \in Nat
  PROVE  /\ t \div Day \in Nat /\ (t \div Day) * Day \in Nat
         /\ StartOfUtcDay(t) = (t \div Day) * Day
         /\ (t \div Day) * Day <= t /\ t < (t \div Day) * Day + Day
<1>1. Day \in Nat /\ Day > 0
  BY ListingsAssumption
<1>2. /\ t \div Day \in Nat /\ t % Day \in 0..(Day - 1)
      /\ t = Day * (t \div Day) + (t % Day)
  BY <1>1
<1>3. Day * (t \div Day) = (t \div Day) * Day /\ (t \div Day) * Day \in Nat
  BY <1>1, <1>2
<1> QED BY <1>1, <1>2, <1>3 DEF StartOfUtcDay

LEMMA DaysBetween ==
  ASSUME NEW a \in Int, NEW b \in Int
  PROVE  /\ a * Day \in Int /\ (a + 1) * Day = a * Day + Day
         /\ (a - b) * Day = a * Day - b * Day
         /\ a < b => a * Day + Day <= b * Day
<1>1. Day \in Nat /\ Day > 0
  BY ListingsAssumption
<1>2. a < b => (a + 1) * Day <= b * Day
  BY <1>1
<1> QED BY <1>1, <1>2

LEMMA InDay ==
  ASSUME NEW t \in Nat, NEW d \in Int
  PROVE  t \div Day = d <=> d * Day <= t /\ t < d * Day + Day
<1> DEFINE e == t \div Day
<1>1. e \in Int /\ e * Day \in Int /\ e * Day <= t /\ t < e * Day + Day
  BY DayOf
<1> HIDE DEF e
<1>2. d * Day \in Int /\ (d < e => d * Day + Day <= e * Day) /\ (e < d => e * Day + Day <= d * Day)
  BY <1>1, DaysBetween
<1>3. Day \in Nat
  BY ListingsAssumption
<1>4. e = d <=> d * Day <= t /\ t < d * Day + Day
  BY <1>1, <1>2, <1>3
<1> QED BY <1>4 DEF e

(* A list over the last n days has the payments from the beginning of the  *)
(* first of them to the end of today.                                      *)
LEMMA LastDays ==
  ASSUME StatusInv, NEW scope, NEW range \in {"today", "7d"}
  PROVE  listForScope(scope, [AllTime EXCEPT !.range = range])
           = paymentsBetween(scope, Today - Days(range) + 1, Today + 1)
<1> DEFINE q == [AllTime EXCEPT !.range = range]
<1>1. q.from = NoDate /\ q.to = NoDate /\ q.range = range
  BY QueryIs
<1> HIDE DEF q
<1>2. PICK n : n = Days(range)
  OBVIOUS
<1>3. n \in Nat \ {0} /\ now \in Nat
  BY <1>2, ListingsAssumption DEF Days, StatusInv
<1>4. PICK d : d = Today /\ d \in Nat /\ d * Day \in Nat /\ StartOfUtcDay(now) = d * Day
  BY <1>3, DayOf DEF Today
<1>5. Day \in Nat
  BY ListingsAssumption
<1>6. (d - n + 1) * Day = d * Day - (n - 1) * Day /\ (d + 1) * Day = d * Day + Day
  <2>1. d - n + 1 = d - (n - 1) /\ n - 1 \in Int
    BY <1>3, <1>4
  <2>2. (d - (n - 1)) * Day = d * Day - (n - 1) * Day
    BY <1>4, <2>1, DaysBetween
  <2> QED BY <1>4, <2>1, <2>2, DaysBetween
<1>7. \A t : InDates(q, t, now) <=> (d - n + 1) * Day <= t /\ t < (d + 1) * Day
  BY <1>1, <1>2, <1>4, <1>6 DEF InDates, Explicit
<1> QED BY <1>2, <1>4, <1>7 DEF listForScope, paymentsBetween, q

(* A list of one day has the payments of that day. *)
LEMMA ThatDay ==
  ASSUME StatusInv, NEW scope, NEW d \in Nat
  PROVE  listForScope(scope, OnDay(d))
           = {p \in Existing : InScope(MerchantOf[p], scope) /\ created[p] \div Day = d}
<1>1. OnDay(d) \in [from : {d * Day}, to : {d * Day}, range : {"30d"}]
  BY DEF OnDay
<1>2. d * Day \in Nat /\ Day \in Nat /\ Day > 0
  BY ListingsAssumption
<1>3. d * Day # NoDate
  BY <1>2, ListingsAssumption
<1>4. StartOfUtcDay(d * Day) = d * Day
  <2>1. (d * Day) % Day = 0
    BY <1>2
  <2> QED BY <1>2, <2>1 DEF StartOfUtcDay
<1>5. \A t : InDates(OnDay(d), t, now) <=> d * Day <= t /\ t < d * Day + Day
  BY <1>1, <1>3, <1>4 DEF InDates, Explicit
<1>6. \A p \in Existing : created[p] \in Nat
  BY DEF Existing, StatusInv
<1>7. \A p \in Existing : InDates(OnDay(d), created[p], now) <=> created[p] \div Day = d
  <2>1. \A t \in Nat : t \div Day = d <=> d * Day <= t /\ t < d * Day + Day
    BY InDay
  <2> QED BY <1>5, <1>6, <2>1
<1> QED BY <1>7 DEF listForScope

LEMMA DashboardAgrees == StatusInv => DashboardMatchesLists
<1> SUFFICES ASSUME StatusInv, NEW scope \in Scopes
             PROVE  LET listed(q) == listForScope(scope, q)
                        volume == buildDailyVolume(scope) IN
                    /\ buildSummary(scope).paymentsToday
                         = Cardinality(listed([AllTime EXCEPT !.range = "today"]))
                    /\ \A d \in DOMAIN volume : d >= 0 =>
                         volume[d] = [count |-> Cardinality(listed(OnDay(d))),
                                      cents |-> sumAmounts(listed(OnDay(d)))]
                    /\ SumFunction([d \in DOMAIN volume |-> volume[d].count])
                         = Cardinality(listed([AllTime EXCEPT !.range = "7d"]))
                    /\ LET counts == buildStatusDistribution(scope) IN
                       SumFunction(counts) = Cardinality(listed(AllTime))
  BY DEF DashboardMatchesLists
<1> DEFINE first == Today - Week + 1  D == first..Today
           week == paymentsBetween(scope, first, Today + 1)
           OfDay(d) == {p \in week : created[p] \div Day = d}
           volume == buildDailyVolume(scope)
<1>1. Today \in Nat /\ first \in Int /\ Week \in Nat
  <2>1. now \in Nat /\ Week \in Nat
    BY ListingsAssumption DEF StatusInv
  <2>2. Today \in Nat
    BY <2>1, DayOf DEF Today
  <2> QED BY <2>1, <2>2
<1>2. IsFiniteSet(Existing) /\ \A p \in Existing : p \in Payments /\ created[p] \in Nat
  <2>1. \A p \in Existing : p \in Payments /\ created[p] \in Nat
    BY DEF Existing, StatusInv
  <2> QED BY <2>1, FS_Subset, ReadsAssumption
<1>3. /\ DOMAIN volume = D
      /\ \A d \in D : volume[d] = [count |-> Cardinality(OfDay(d)), cents |-> sumAmounts(OfDay(d))]
  BY DEF buildDailyVolume
<1>4. \A p \in Existing : InScope(MerchantOf[p], scope) =>
        (p \in week <=> created[p] \div Day \in D)
  <2> SUFFICES ASSUME NEW p \in Existing, InScope(MerchantOf[p], scope)
               PROVE  p \in week <=> created[p] \div Day \in D
    OBVIOUS
  <2>1. PICK t \in Nat : t = created[p]
    BY <1>2
  <2>2. PICK e \in Int : /\ e = t \div Day /\ e * Day \in Int
                         /\ e * Day <= t /\ t < e * Day + Day
    BY <2>1, DayOf
  <2>3. PICK a \in Int, b \in Int : a = first /\ b = Today
    BY <1>1
  <2>4. Day \in Nat /\ a * Day \in Int /\ b * Day \in Int /\ (b + 1) * Day = b * Day + Day
    BY ListingsAssumption, DaysBetween
  <2>5. /\ a < e => a * Day + Day <= e * Day
        /\ e < a => e * Day + Day <= a * Day
        /\ e < b => e * Day + Day <= b * Day
        /\ b < e => b * Day + Day <= e * Day
    BY DaysBetween
  <2>6. a * Day <= t /\ t < (b + 1) * Day <=> a <= e /\ e <= b
    BY <2>2, <2>4, <2>5
  <2>7. p \in week <=> a * Day <= t /\ t < (b + 1) * Day
    BY <2>1, <2>3 DEF paymentsBetween
  <2>8. created[p] \div Day \in D <=> a <= e /\ e <= b
    BY <2>1, <2>2, <2>3
  <2> QED BY <2>6, <2>7, <2>8
<1>5. week \subseteq Existing /\ \A p \in week : InScope(MerchantOf[p], scope)
  BY DEF paymentsBetween
<1>6. buildSummary(scope).paymentsToday
        = Cardinality(listForScope(scope, [AllTime EXCEPT !.range = "today"]))
  <2>1. Today - Days("today") + 1 = Today
    BY <1>1 DEF Days
  <2>2. listForScope(scope, [AllTime EXCEPT !.range = "today"])
          = paymentsBetween(scope, Today, Today + 1)
    BY <2>1, LastDays
  <2> QED BY <2>2 DEF buildSummary
<1>7. ASSUME NEW d \in D, d >= 0
      PROVE  volume[d] = [count |-> Cardinality(listForScope(scope, OnDay(d))),
                          cents |-> sumAmounts(listForScope(scope, OnDay(d)))]
  <2>1. d \in Nat
    BY <1>1, <1>7
  <2>2. OfDay(d) = listForScope(scope, OnDay(d))
    BY <1>4, <1>5, <2>1, ThatDay
  <2> QED BY <1>3, <2>2
<1>8. SumFunction([d \in DOMAIN volume |-> volume[d].count])
        = Cardinality(listForScope(scope, [AllTime EXCEPT !.range = "7d"]))
  <2> DEFINE g == [p \in week |-> created[p] \div Day]
             parts == [d \in D |-> Cardinality({p \in week : g[p] = d})]
  <2>1. \A d \in D : OfDay(d) = {p \in week : g[p] = d}
    OBVIOUS
  <2>2. [d \in DOMAIN volume |-> volume[d].count] = parts
    <3> HIDE DEF volume, OfDay, g, D
    <3>1. \A d \in D : volume[d].count = Cardinality(OfDay(d))
      BY <1>3
    <3> QED BY <1>3, <2>1, <3>1
  <2>3. \A p \in week : g[p] \in D
    BY <1>4, <1>5
  <2>4. IsFiniteSet(week) /\ IsFiniteSet(D)
    BY <1>1, <1>2, <1>5, FS_Subset, FS_Interval
  <2>5. week = listForScope(scope, [AllTime EXCEPT !.range = "7d"])
    BY LastDays DEF Days
  <2> HIDE DEF g, D, week
  <2>6. SumOf(parts, D) = Cardinality(week)
    BY <2>3, <2>4, SumOfParts
  <2>7. DOMAIN parts = D
    OBVIOUS
  <2> QED BY <2>2, <2>5, <2>6, <2>7, SumIs
<1>9. SumFunction(buildStatusDistribution(scope)) = Cardinality(listForScope(scope, AllTime))
  <2> DEFINE S == {p \in Existing : InScope(MerchantOf[p], scope)}
             parts == [s \in PaymentStatus |-> Cardinality({p \in S : status[p] = s})]
  <2>1. \A s : {p \in Existing : InScope(MerchantOf[p], scope) /\ status[p] = s}
                 = {p \in S : status[p] = s}
    OBVIOUS
  <2>2. buildStatusDistribution(scope) = parts
    BY <2>1 DEF buildStatusDistribution
  <2>3. listForScope(scope, AllTime) = S
    <3>1. \A t : InDates(AllTime, t, now)
      BY QueryIs DEF InDates, Explicit
    <3> QED BY <3>1 DEF listForScope
  <2>4. IsFiniteSet(S) /\ \A p \in S : status[p] \in PaymentStatus
    BY <1>2, FS_Subset DEF StatusInv
  <2>5. IsFiniteSet(PaymentStatus)
    <3>1. PaymentStatus = {"RECEIVED"} \cup {"VALIDATED"} \cup {"SUBMITTED"} \cup {"SETTLED"}
                            \cup {"RETURNED"} \cup {"VALIDATION_FAILED"}
      BY DEF PaymentStatus
    <3> QED BY <3>1, FS_Singleton, FS_Union
  <2> HIDE DEF S
  <2>6. SumOf(parts, PaymentStatus) = Cardinality(S)
    BY <2>4, <2>5, SumOfParts
  <2>7. DOMAIN parts = PaymentStatus
    OBVIOUS
  <2> QED BY <2>2, <2>3, <2>6, <2>7, SumIs
<1> QED BY <1>3, <1>6, <1>7, <1>8, <1>9

(* The dashboard counts what the list of payments shows for the same days  *)
(* and for every status (buildSummary, buildDailyVolume,                   *)
(* buildStatusDistribution and paymentDateRange).                          *)
THEOREM DashboardCounts == Spec => []DashboardMatchesLists
  BY DashboardAgrees, StatusInit, StatusStep, PTL DEF Spec
=============================================================================
