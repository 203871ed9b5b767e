-------------------------- MODULE IdempotencyProofs --------------------------
(***************************************************************************)
(* Theorems about PaymentIdempotency, for any requests, keys and bodies,   *)
(* and about the rate limiter in front of it, for any window and limit.    *)
(***************************************************************************)
EXTENDS PaymentRequests, FiniteSetTheorems, TLAPS

(* A payment is written once its request is answered; a record belongs to  *)
(* its key; the open transaction that inserted a key is alone with it and  *)
(* finds no record.                                                        *)
RowInv ==
  /\ TypeOK
  /\ \A p \in payments : step[p] = "answered"
  /\ \A k \in Keys : record[k] # None => key[record[k]] = k
  /\ \A r \in Requests : step[r] = "inserted" => record[key[r]] = None
  /\ \A q, r \in Requests :
       step[q] = "inserted" /\ step[r] = "inserted" /\ key[q] = key[r] => q = r
  /\ PaymentsAreRecorded
  /\ ConflictIsReadable

LEMMA RowInit == Init => RowInv
  BY IdempotencyAssumption
  DEF Init, RowInv, TypeOK, Step, Reply, PaymentsAreRecorded, ConflictIsReadable

LEMMA RowInductive == RowInv /\ [Next]_vars => RowInv'
<1> SUFFICES ASSUME RowInv, [Next]_vars PROVE RowInv'
  OBVIOUS
<1> USE IdempotencyAssumption DEF RowInv, PaymentsAreRecorded, ConflictIsReadable
<1>1. CASE UNCHANGED vars
  BY <1>1 DEF TypeOK, vars, rows, request
<1>2. ASSUME NEW r \in Requests, NEW k \in Keys, NEW b \in Bodies, Arrive(r, k, b)
      PROVE  RowInv'
  <2>1. TypeOK'
    BY <1>2 DEF Arrive, Goes, rows, TypeOK, Step, Reply
  <2>2. r \notin payments /\ \A j \in Keys : record[j] # r
    BY <1>2 DEF Arrive, TypeOK
  <2> QED BY <1>2, <2>1, <2>2 DEF Arrive, Goes, rows, TypeOK
<1>3. ASSUME NEW r \in Requests, InsertPayment(r) PROVE RowInv'
  <2>1. TypeOK'
    BY <1>3 DEF InsertPayment, Goes, rows, TypeOK, Step
  <2>2. UNCHANGED <<payments, events, record, key>>
    BY <1>3 DEF InsertPayment, rows
  <2>3. \A q \in Requests \ {r} : step'[q] = step[q]
    BY <1>3 DEF InsertPayment, Goes, TypeOK
  <2>4. step'[r] = IF \E p \in payments : key[p] = key[r] THEN "conflict" ELSE "inserted"
    BY <1>3 DEF InsertPayment, Goes, TypeOK
  <2>5. key[r] \in Keys /\ r \notin payments
    BY <1>3 DEF InsertPayment, TypeOK
  <2>6. step'[r] = "conflict" => record[key[r]] # None
    BY <2>4, <2>5 DEF TypeOK
  <2>7. step'[r] = "inserted" => record[key[r]] = None
    BY <2>4, <2>5 DEF TypeOK
  <2>8. step'[r] = "inserted" => \A q \in Requests : step[q] = "inserted" => key[q] # key[r]
    BY <1>3 DEF InsertPayment, KeyIsFree
  <2> QED BY <2>1, <2>2, <2>3, <2>5, <2>6, <2>7, <2>8 DEF TypeOK
<1>4. ASSUME NEW r \in Requests, CommitCreate(r) PROVE RowInv'
  <2>1. /\ step[r] = "inserted" /\ record[key[r]] = None
        /\ key[r] \in Keys /\ body[r] \in Bodies
    BY <1>4 DEF CommitCreate, TypeOK
  <2>2. PICK answer \in {"created", "error"} :
          /\ payments' = payments \cup {r}
          /\ events' = events \cup {r}
          /\ record' = [record EXCEPT ![key[r]] = r]
          /\ Answer(r, answer)
          /\ UNCHANGED <<key, body, lookups>>
    BY <1>4, <2>1 DEF CommitCreate
  <2>3. TypeOK'
    BY <2>1, <2>2 DEF Answer, Goes, TypeOK, Step, Reply
  <2>4. /\ step'[r] = "answered"
        /\ \A q \in Requests \ {r} : step'[q] = step[q]
        /\ record'[key[r]] = r
        /\ \A k \in Keys \ {key[r]} : record'[k] = record[k]
    BY <2>1, <2>2 DEF Answer, Goes, TypeOK
  <2>5. \A p \in payments : key[p] # key[r]
    BY <2>1 DEF TypeOK
  <2>6. \A q \in Requests \ {r} : step'[q] = "inserted" => key[q] # key[r]
    BY <2>1, <2>4
  <2>7. \A q \in Requests : step'[q] = "conflict" => record'[key'[q]] # None
    BY <2>1, <2>2, <2>4 DEF TypeOK
  <2>8. /\ \A p \in payments' : step'[p] = "answered"
        /\ \A p \in payments' : p \in events' /\ record'[key'[p]] = p
    BY <2>1, <2>2, <2>4, <2>5 DEF TypeOK
  <2>9. /\ \A k \in Keys : record'[k] # None => key'[record'[k]] = k
        /\ \A q \in Requests : step'[q] = "inserted" => record'[key'[q]] = None
        /\ \A p, q \in Requests :
             step'[p] = "inserted" /\ step'[q] = "inserted" /\ key'[p] = key'[q] => p = q
    BY <2>1, <2>2, <2>4, <2>6 DEF TypeOK
  <2> QED BY <2>3, <2>7, <2>8, <2>9
<1>5. ASSUME NEW r \in Requests, FindRecord(r) PROVE RowInv'
  <2>1. record[key[r]] # None /\ step[r] = "conflict"
    BY <1>5 DEF FindRecord
  <2>2. PICK answer \in {"replayed", "refused"} :
          Answer(r, answer) /\ UNCHANGED <<key, body, lookups, rows>>
    BY <1>5, <2>1 DEF FindRecord
  <2> QED BY <2>1, <2>2 DEF Answer, Goes, rows, TypeOK, Step, Reply
<1>6. ASSUME NEW r \in Requests, Fail(r) PROVE RowInv'
  BY <1>6 DEF Fail, Answer, Goes, rows, TypeOK, Step, Reply
<1> QED BY <1>1, <1>2, <1>3, <1>4, <1>5, <1>6 DEF Next, Create

(* Every reachable state is well typed. *)
THEOREM TypeCorrect == Spec => []TypeOK
<1>1. RowInv => TypeOK
  BY DEF RowInv
<1> QED BY <1>1, RowInit, RowInductive, PTL DEF Spec

(* Every payment has its event and its record, and a key has one payment. *)
THEOREM OnePaymentPerKey == Spec => []PaymentsAreRecorded
<1>1. RowInv => PaymentsAreRecorded
  BY DEF RowInv
<1> QED BY <1>1, RowInit, RowInductive, PTL DEF Spec

(* Whoever meets a conflict finds the record at once. *)
THEOREM ConflictsAreReadable == Spec => []ConflictIsReadable
<1>1. RowInv => ConflictIsReadable
  BY DEF RowInv
<1> QED BY <1>1, RowInit, RowInductive, PTL DEF Spec

-----------------------------------------------------------------------------
(* The refinement of the register. *)

LEMMA OpenOf ==
  ASSUME RowInv, NEW r \in Requests, step[r] \notin {"new", "answered"}
  PROVE  /\ Open[r] = [key |-> key[r], print |-> Fingerprint(r)]
         /\ Open[r] # None
         /\ key[r] \in Keys /\ Fingerprint(r) \in Prints
<1>1. step[r] # "new" /\ key[r] \in Keys /\ body[r] \in Bodies
  BY DEF RowInv, TypeOK
<1> QED BY <1>1, IdempotencyAssumption DEF Open, Fingerprint

LEMMA WrittenOf ==
  ASSUME RowInv, NEW k \in Keys
  PROVE  IF record[k] = None THEN Written[k] = None
         ELSE /\ Written[k] # None
              /\ Written[k] = [print |-> Fingerprint(record[k]), writer |-> record[k]]
<1>1. CASE record[k] # None
  <2>1. record[k] \in payments /\ record[k] \in Requests /\ body[record[k]] \in Bodies
    BY <1>1 DEF RowInv, TypeOK
  <2> QED BY <1>1, <2>1, IdempotencyAssumption DEF Written, Fingerprint
<1> QED BY <1>1 DEF Written

(* An answer closes its request and no other. *)
LEMMA AnswerTold ==
  ASSUME RowInv, NEW r \in Requests, NEW answer, Answer(r, answer),
         UNCHANGED <<key, body>>
  PROVE  Register!Told(r, answer)
<1>1. \A q \in Requests : step'[q] = IF q = r THEN "answered" ELSE step[q]
  BY DEF Answer, Goes, RowInv, TypeOK
<1>2. Open' = [Open EXCEPT ![r] = None]
  BY <1>1 DEF Open, Fingerprint
<1> QED BY <1>2 DEF Register!Told, Answer

LEMMA RegisterStep ==
  ASSUME RowInv, [Next]_vars
  PROVE  [Register!Next]_(Register!register)
<1> USE IdempotencyAssumption
<1> DEFINE Goal == [Register!Next]_(Register!register)
<1>1. CASE UNCHANGED vars
  BY <1>1 DEF vars, rows, request, Written, Open, Fingerprint, Register!register
<1>2. ASSUME NEW r \in Requests, NEW k \in Keys, NEW b \in Bodies, Arrive(r, k, b)
      PROVE  Goal
  <2>1. /\ step[r] = "new" /\ step' = [step EXCEPT ![r] = "arrived"]
        /\ key' = [key EXCEPT ![r] = k] /\ body' = [body EXCEPT ![r] = b]
        /\ UNCHANGED <<reply, record>>
    BY <1>2 DEF Arrive, Goes, rows
  <2>2. Open[r] = None /\ reply[r] = None
    BY <2>1 DEF Open, RowInv, TypeOK
  <2>3. \A j \in Keys : record[j] # r
    BY <2>1 DEF RowInv, TypeOK
  <2>4. Written' = Written
    <3>1. ASSUME NEW j \in Keys, record[j] # None
          PROVE  body'[record[j]] = body[record[j]]
      BY <2>1, <2>3, <3>1 DEF RowInv, TypeOK
    <3> QED BY <2>1, <3>1 DEF Written, Fingerprint
  <2>5. Open' = [Open EXCEPT ![r] = [key |-> k, print |-> PrintOf[b]]]
    <3>1. /\ step'[r] = "arrived" /\ key'[r] = k /\ body'[r] = b
          /\ \A q \in Requests \ {r} : /\ step'[q] = step[q] /\ key'[q] = key[q]
                                       /\ body'[q] = body[q]
      BY <2>1 DEF RowInv, TypeOK
    <3> QED BY <3>1 DEF Open, Fingerprint
  <2>6. PrintOf[b] \in Prints
    OBVIOUS
  <2>7. Register!Ask(r, k, PrintOf[b])
    BY <2>1, <2>2, <2>4, <2>5 DEF Register!Ask
  <2> QED BY <2>6, <2>7 DEF Register!Next
<1>3. ASSUME NEW r \in Requests, InsertPayment(r) PROVE Goal
  <2>1. /\ UNCHANGED <<key, body, reply, record>>
        /\ step[r] = "arrived" /\ step'[r] \in {"conflict", "inserted"}
        /\ \A q \in Requests \ {r} : step'[q] = step[q]
    BY <1>3 DEF InsertPayment, Goes, rows, RowInv, TypeOK
  <2>2. Open' = Open /\ Written' = Written
    BY <2>1 DEF Open, Written, Fingerprint
  <2> QED BY <2>1, <2>2 DEF Register!register
<1>4. ASSUME NEW r \in Requests, CommitCreate(r) PROVE Goal
  <2>1. step[r] = "inserted" /\ record[key[r]] = None
    BY <1>4 DEF CommitCreate, RowInv
  <2>2. PICK answer \in {"created", "error"} :
          /\ record' = [record EXCEPT ![key[r]] = r]
          /\ Answer(r, answer)
          /\ UNCHANGED <<key, body>>
    BY <1>4, <2>1 DEF CommitCreate
  <2>3. /\ Open[r] = [key |-> key[r], print |-> Fingerprint(r)] /\ Open[r] # None
        /\ key[r] \in Keys
    BY <2>1, OpenOf
  <2>4. Written[key[r]] = None
    BY <2>1, <2>3, WrittenOf
  <2>5. Written' = [Written EXCEPT ![key[r]] = [print |-> Fingerprint(r), writer |-> r]]
    <3>1. \A k \in Keys : record'[k] = IF k = key[r] THEN r ELSE record[k]
      BY <2>2, <2>3 DEF RowInv, TypeOK
    <3>2. \A k \in Keys : Written'[k] = IF k = key[r]
                                        THEN [print |-> Fingerprint(r), writer |-> r]
                                        ELSE Written[k]
      BY <2>2, <2>3, <3>1 DEF Written, Fingerprint
    <3>3. Written = [k \in Keys |-> Written[k]] /\ Written' = [k \in Keys |-> Written'[k]]
      BY DEF Written
    <3> QED BY <2>3, <3>2, <3>3
  <2>6. Register!Told(r, answer)
    BY <2>2, AnswerTold
  <2>7. Register!Write(r)
    BY <2>3, <2>4, <2>5, <2>6 DEF Register!Write
  <2> QED BY <2>7 DEF Register!Next
<1>5. ASSUME NEW r \in Requests, FindRecord(r) PROVE Goal
  <2>1. step[r] = "conflict" /\ record[key[r]] # None
    BY <1>5 DEF FindRecord, RowInv, ConflictIsReadable
  <2>2. /\ Answer(r, IF Fingerprint(record[key[r]]) = Fingerprint(r) THEN "replayed" ELSE "refused")
        /\ UNCHANGED <<key, body, record>>
    BY <1>5, <2>1 DEF FindRecord, rows
  <2>3. /\ Open[r] = [key |-> key[r], print |-> Fingerprint(r)] /\ Open[r] # None
        /\ key[r] \in Keys
    BY <2>1, OpenOf
  <2>4. /\ Written[key[r]] # None
        /\ Written[key[r]] = [print |-> Fingerprint(record[key[r]]), writer |-> record[key[r]]]
    BY <2>1, <2>3, WrittenOf
  <2>5. Written' = Written
    BY <2>2 DEF Written, Fingerprint
  <2>6. Register!Told(r, IF Fingerprint(record[key[r]]) = Fingerprint(r) THEN "replayed" ELSE "refused")
    BY <2>2, AnswerTold
  <2>7. Register!Read(r)
    BY <2>3, <2>4, <2>5, <2>6 DEF Register!Read
  <2> QED BY <2>7 DEF Register!Next
<1>6. ASSUME NEW r \in Requests, Fail(r) PROVE Goal
  <2>1. /\ step[r] \in {"arrived", "inserted", "conflict"}
        /\ Answer(r, "error") /\ UNCHANGED <<key, body, record>>
    BY <1>6 DEF Fail, rows
  <2>2. Open[r] # None
    BY <2>1, OpenOf
  <2>3. Written' = Written
    BY <2>1 DEF Written, Fingerprint
  <2>4. Register!Told(r, "error")
    BY <2>1, AnswerTold
  <2>5. Register!Fail(r)
    BY <2>2, <2>3, <2>4 DEF Register!Fail
  <2> QED BY <2>5 DEF Register!Next
<1> QED BY <1>1, <1>2, <1>3, <1>4, <1>5, <1>6 DEF Next, Create

(* Creation under a key is a register written once: every behaviour of the  *)
(* requests is one of the register.                                         *)
THEOREM CreationIsRegister == Spec => KeepsRegister
<1>1. Init => Register!Init
  BY DEF Init, Register!Init, Written, Open
<1>2. RowInv /\ [Next]_vars => [Register!Next]_(Register!register)
  BY RegisterStep
<1> QED BY <1>1, <1>2, RowInit, RowInductive, PTL
        DEF Spec, KeepsRegister, Register!Spec

-----------------------------------------------------------------------------
(* The rate limiter. *)

GateSpec == GateInit /\ [][GateNext]_gate

Admitted(m, w) ==
  {r \in Calls : /\ RequestedBy[r] = m /\ call[r].step = "admitted"
                 /\ call[r].window = w /\ WindowOf(call[r].at) = w}

KeysOf(m, w) == {k \in counters : k.name = <<m, w>>}

Counter == [name : {RequestedBy[r] : r \in Calls} \X Nat, count : Nat \ {0}, expires : Nat]

(* A key outlives the window it names, for which its requests were clocked; *)
(* so until that window is over it counts all that were admitted in it.     *)
GateTypeOK ==
  /\ time \in Nat
  /\ counters \subseteq Counter
  /\ call = [r \in Calls |-> call[r]]

KeyInv ==
  /\ \A k \in counters : k.expires > time /\ k.expires >= WindowEnd(k.name[2])
  /\ \A j, k \in counters : j.name = k.name => j = k

CallInv == \A r \in Calls :
  /\ call[r].step = "clocked" =>
       /\ call[r].window \in Nat /\ call[r].ttl \in Nat \ {0}
       /\ time + call[r].ttl * TicksPerSecond >= WindowEnd(call[r].window)
  /\ call[r].step = "admitted" => call[r].at \in Nat /\ call[r].at <= time
  /\ call[r].step = "limited" =>
       2 * (WindowEnd(call[r].window) - (call[r].at + call[r].retryAfter * TicksPerSecond))
         < TicksPerSecond

CountInv == \A m \in {RequestedBy[r] : r \in Calls}, w \in Nat :
  /\ IsFiniteSet(Admitted(m, w)) /\ Cardinality(Admitted(m, w)) <= MaxRequests
  /\ w = WindowOf(time) =>
       \/ Admitted(m, w) = {}
       \/ \E k \in KeysOf(m, w) : Cardinality(Admitted(m, w)) <= k.count

GateInv == GateTypeOK /\ KeyInv /\ CallInv /\ CountInv

LEMMA WindowIsNat ==
  ASSUME NEW t \in Nat PROVE NowSeconds(t) \in Nat /\ WindowOf(t) \in Nat
<1>1. NowSeconds(t) \in Nat
  BY RateLimitAssumption, Z3 DEF NowSeconds
<1> QED BY <1>1, RateLimitAssumption, Z3 DEF WindowOf

LEMMA WindowGrows ==
  ASSUME NEW s \in Nat, NEW t \in Nat, s <= t PROVE WindowOf(s) <= WindowOf(t)
<1>1. NowSeconds(s) \in Nat /\ NowSeconds(t) \in Nat /\ NowSeconds(s) <= NowSeconds(t)
  BY RateLimitAssumption, Z3 DEF NowSeconds
<1> QED BY <1>1, RateLimitAssumption, Z3 DEF WindowOf

LEMMA EndIsNat == ASSUME NEW w \in Nat PROVE WindowEnd(w) \in Nat
<1>1. (w + 1) * RateWindow \in Nat
  BY RateLimitAssumption
<1> QED BY <1>1, RateLimitAssumption DEF WindowEnd

LEMMA PastWindow ==
  ASSUME NEW t \in Nat, NEW w \in Nat, t >= WindowEnd(w) PROVE WindowOf(t) > w
<1>1. (w + 1) * RateWindow \in Nat
  BY RateLimitAssumption
<1>2. NowSeconds(t) \in Nat /\ NowSeconds(t) >= (w + 1) * RateWindow
  BY <1>1, RateLimitAssumption, Z3 DEF NowSeconds, WindowEnd
<1> QED BY <1>2, RateLimitAssumption, Z3 DEF WindowOf

(* The time to live that a request computes reaches to the next window. *)
LEMMA LivesToTheEnd ==
  ASSUME NEW t \in Nat
  PROVE  /\ ExpiresIn(t) \in Nat \ {0}
         /\ t + ExpiresIn(t) * TicksPerSecond >= WindowEnd(WindowOf(t))
<1> DEFINE s == NowSeconds(t)
<1>1. s \in Nat /\ t >= s * TicksPerSecond
  BY WindowIsNat, RateLimitAssumption, Z3 DEF NowSeconds
<1> HIDE DEF s
<1>2. /\ s % RateWindow \in Nat /\ s % RateWindow < RateWindow
      /\ s = RateWindow * (s \div RateWindow) + (s % RateWindow)
      /\ s \div RateWindow \in Nat
  BY <1>1, RateLimitAssumption, Z3
<1>3. {RateWindow, TicksPerSecond} \subseteq Nat \ {0}
  BY RateLimitAssumption
<1> DEFINE e == RateWindow - (s % RateWindow)
           w == s \div RateWindow
<1>4. /\ e \in Nat \ {0} /\ w \in Nat
      /\ s + e = (w + 1) * RateWindow
  BY <1>2, <1>3, Z3
<1> HIDE DEF e, w
<1>5. s * TicksPerSecond + e * TicksPerSecond = (w + 1) * RateWindow * TicksPerSecond
  <2>1. (s + e) * TicksPerSecond = s * TicksPerSecond + e * TicksPerSecond
    BY <1>1, <1>3, <1>4, Z3
  <2> QED BY <1>4, <2>1
<1>6. /\ s * TicksPerSecond \in Nat /\ e * TicksPerSecond \in Nat
      /\ (w + 1) * RateWindow * TicksPerSecond \in Nat
  BY <1>1, <1>3, <1>4, <1>5
<1>7. ExpiresIn(t) = e /\ WindowOf(t) = w
  BY DEF ExpiresIn, WindowOf, s, e, w
<1> QED BY <1>1, <1>4, <1>5, <1>6, <1>7 DEF WindowEnd

(* Rounded seconds fall short by less than half a second. *)
LEMMA RoundedLife ==
  ASSUME NEW k, k.expires \in Nat, time \in Nat, k.expires > time,
         NEW end \in Nat, k.expires >= end
  PROVE  2 * (end - (time + RetryAfter(k) * TicksPerSecond)) < TicksPerSecond
<1> DEFINE ttl == TTL(k)
           rest == k.expires - time
<1>0. TicksPerSecond \in Nat \ {0} /\ rest \in Nat \ {0}
  BY RateLimitAssumption
<1>1. ttl \in Nat /\ 2 * (ttl * TicksPerSecond) + TicksPerSecond > 2 * rest
  <2> DEFINE d == 2 * TicksPerSecond
             n == 2 * rest + TicksPerSecond
  <2>1. d \in Nat \ {0} /\ n \in Nat
    BY <1>0
  <2>3. ttl = n \div d
    BY DEF TTL
  <2>6. d = 2 * TicksPerSecond /\ n = 2 * rest + TicksPerSecond
    OBVIOUS
  <2> HIDE DEF d, n, rest, ttl
  <2>2. /\ n \div d \in Nat /\ n % d \in Nat /\ n % d < d
        /\ n = d * (n \div d) + (n % d)
    BY <2>1, Z3
  <2>4. d * ttl = 2 * (ttl * TicksPerSecond)
    BY <1>0, <2>2, <2>3, <2>6, Z3
  <2>5. ttl \in Nat /\ ttl * TicksPerSecond \in Nat
    BY <1>0, <2>2, <2>3
  <2> QED BY <1>0, <2>1, <2>2, <2>3, <2>4, <2>5, <2>6
<1> HIDE DEF ttl
<1>2. RetryAfter(k) \in Nat /\ RetryAfter(k) >= ttl
  BY <1>1 DEF RetryAfter, ttl
<1>3. /\ RetryAfter(k) * TicksPerSecond \in Nat /\ ttl * TicksPerSecond \in Nat
      /\ RetryAfter(k) * TicksPerSecond >= ttl * TicksPerSecond
  BY <1>0, <1>1, <1>2, Z3
<1> QED BY <1>0, <1>1, <1>3

LEMMA GateStart == GateInit => GateInv
<1> SUFFICES ASSUME GateInit PROVE GateInv
  OBVIOUS
<1>1. GateTypeOK /\ KeyInv /\ CallInv
  BY DEF GateInit, GateTypeOK, KeyInv, CallInv
<1>2. \A m, w : Admitted(m, w) = {}
  BY DEF GateInit, Admitted
<1> QED BY <1>1, <1>2, FS_EmptySet, RateLimitAssumption DEF GateInv, CountInv

(* Requests that read the clock, or do not reach Redis, are not admitted. *)
LEMMA NotAdmitted ==
  ASSUME GateInv, NEW r \in Calls, NEW q, call' = [call EXCEPT ![r] = q],
         call[r].step = "new" \/ call[r].step = "clocked",
         \/ q.step = "unavailable"
         \/ /\ q.step = "clocked" /\ q.window \in Nat /\ q.ttl \in Nat \ {0}
            /\ time + q.ttl * TicksPerSecond >= WindowEnd(q.window),
         UNCHANGED <<time, counters>>
  PROVE  GateInv'
<1>1. /\ call'[r] = q
      /\ \A d \in Calls \ {r} : call'[d] = call[d]
      /\ GateTypeOK' /\ KeyInv'
  BY DEF GateInv, GateTypeOK, KeyInv
<1>2. CallInv'
  BY <1>1 DEF GateInv, CallInv
<1>3. \A m, w : Admitted(m, w)' = Admitted(m, w)
  BY <1>1 DEF Admitted
<1>4. \A m, w : KeysOf(m, w)' = KeysOf(m, w)
  BY DEF KeysOf
<1> QED BY <1>1, <1>2, <1>3, <1>4 DEF GateInv, CountInv

(* Time passes: a key of the window that is not over stays.                *)
LEMMA ElapseKeeps == ASSUME GateInv, Elapse PROVE GateInv'
<1>1. /\ time \in Nat /\ time' = time + 1 /\ time' \in Nat /\ call' = call
      /\ counters' = {k \in counters : k.expires > time + 1}
  BY DEF Elapse, GateInv, GateTypeOK
<1>2. GateTypeOK' /\ KeyInv'
  BY <1>1 DEF GateInv, GateTypeOK, KeyInv
<1>3. CallInv'
  <2>1. ASSUME NEW r \in Calls
        PROVE  /\ call[r].step = "clocked" =>
                    time' + call[r].ttl * TicksPerSecond >= WindowEnd(call[r].window)
               /\ call[r].step = "admitted" => call[r].at <= time'
    <3>1. CASE call[r].step = "clocked"
      <4> DEFINE bound == WindowEnd(call[r].window)
                 life == call[r].ttl * TicksPerSecond
      <4>1. time + life >= bound /\ life \in Nat /\ bound \in Nat
        BY <3>1, EndIsNat, RateLimitAssumption DEF GateInv, CallInv
      <4> HIDE DEF bound, life
      <4>2. time' + life >= bound
        BY <1>1, <4>1
      <4> QED BY <3>1, <4>2 DEF bound, life
    <3>2. CASE call[r].step # "clocked"
      BY <1>1, <3>2 DEF GateInv, CallInv
    <3> QED BY <3>1, <3>2
  <2> QED BY <1>1, <2>1 DEF GateInv, CallInv
<1>4. \A m, w : Admitted(m, w)' = Admitted(m, w)
  BY <1>1 DEF Admitted
<1>5. ASSUME NEW m \in {RequestedBy[r] : r \in Calls}, NEW w \in Nat, w = WindowOf(time'),
             Admitted(m, w) # {}
      PROVE  \E k \in KeysOf(m, w)' : Cardinality(Admitted(m, w)) <= k.count
  <2>1. w = WindowOf(time)
    <3>1. PICK r \in Calls : call[r].step = "admitted" /\ WindowOf(call[r].at) = w
      BY <1>5 DEF Admitted
    <3>2. call[r].at \in Nat /\ call[r].at <= time
      BY <3>1 DEF GateInv, CallInv
    <3>3. w <= WindowOf(time) /\ WindowOf(time) <= w /\ WindowOf(time) \in Nat
      BY <1>1, <1>5, <3>1, <3>2, WindowGrows, WindowIsNat
    <3> QED BY <3>3
  <2>2. PICK k \in KeysOf(m, w) : Cardinality(Admitted(m, w)) <= k.count
    BY <1>5, <2>1 DEF GateInv, CountInv
  <2>3. k \in counters /\ k.name = <<m, w>> /\ k.expires \in Nat
        /\ k.expires >= WindowEnd(w)
    BY <2>2 DEF KeysOf, GateInv, GateTypeOK, KeyInv, Counter
  <2>4. WindowEnd(w) \in Nat
    BY EndIsNat
  <2>5. time' < WindowEnd(w)
    BY <1>1, <1>5, <2>4, PastWindow
  <2>6. k.expires > time + 1
    BY <1>1, <2>3, <2>4, <2>5
  <2>7. k \in KeysOf(m, w)'
    BY <1>1, <2>3, <2>6 DEF KeysOf
  <2> QED BY <2>2, <2>7
<1>6. CountInv'
  BY <1>1, <1>4, <1>5 DEF GateInv, CountInv
<1> QED BY <1>2, <1>3, <1>6 DEF GateInv

(* What the script leaves: the key of the request's window counts it, and   *)
(* it is admitted only if the count allows.                                 *)
LEMMA Consumed ==
  ASSUME GateInv, NEW r \in Calls, Consume(r)
  PROVE  \E slot \in Counter :
           LET m == RequestedBy[r]  w == call[r].window  old == KeysOf(m, w) IN
           /\ slot.name = <<m, w>>
           /\ slot.expires > time /\ slot.expires >= WindowEnd(w)
           /\ \A k \in old : slot.count = k.count + 1
           /\ counters' = (counters \ old) \cup {slot}
           /\ time' = time
           /\ \/ /\ slot.count <= MaxRequests
                 /\ call' = [call EXCEPT ![r] =
                      [step |-> "admitted", window |-> w, at |-> time]]
              \/ call' = [call EXCEPT ![r] =
                   [step |-> "limited", window |-> w, at |-> time,
                    retryAfter |-> RetryAfter(slot)]]
<1> DEFINE m == RequestedBy[r]
           w == call[r].window
           old == {k \in counters : k.name = <<m, w>>}
           slot == IF old = {} THEN [name |-> <<m, w>>, count |-> 1, expires |-> time + call[r].ttl * TicksPerSecond]
                  ELSE LET k == CHOOSE k \in old : TRUE IN [k EXCEPT !.count = @ + 1]
<1>1. /\ call[r].step = "clocked" /\ w \in Nat /\ call[r].ttl \in Nat \ {0}
      /\ time + call[r].ttl * TicksPerSecond >= WindowEnd(w)
      /\ m \in {RequestedBy[q] : q \in Calls} /\ time \in Nat
  BY DEF Consume, GateInv, CallInv, GateTypeOK
<1>0. call[r].ttl * TicksPerSecond \in Nat \ {0}
  BY <1>1, RateLimitAssumption, Z3
<1>2. slot \in Counter /\ slot.name = <<m, w>>
      /\ slot.expires > time /\ slot.expires >= WindowEnd(w)
      /\ \A k \in old : slot.count = k.count + 1
  <2>1. CASE old = {}
    <3>1. slot = [name |-> <<m, w>>, count |-> 1, expires |-> time + call[r].ttl * TicksPerSecond]
      BY <2>1
    <3>2. \A k \in old : FALSE
      BY <2>1
    <3> HIDE DEF slot, old, m, w
    <3> QED BY <1>0, <1>1, <3>1, <3>2 DEF Counter
  <2>2. CASE old # {}
    <3>1. PICK k : k = (CHOOSE j \in old : TRUE)
      OBVIOUS
    <3>2. k \in old
      BY <2>2, <3>1, Zenon
    <3>3. slot = [k EXCEPT !.count = @ + 1]
      BY <2>2, <3>1
    <3>4. k \in counters /\ k.name = <<m, w>>
      BY <3>2
    <3>5. \A j \in old : j = k
      BY <3>4 DEF GateInv, KeyInv
    <3>6. k \in Counter /\ k.expires > time /\ k.expires >= WindowEnd(k.name[2])
      BY <3>4 DEF GateInv, GateTypeOK, KeyInv
    <3>7. k.name[2] = w
      BY <3>4
    <3> HIDE DEF slot, old, m, w
    <3>8. /\ slot \in Counter /\ slot.name = k.name /\ slot.expires = k.expires
          /\ slot.count = k.count + 1
      BY <3>3, <3>6 DEF Counter
    <3> QED BY <3>4, <3>5, <3>6, <3>7, <3>8
  <2> QED BY <2>1, <2>2
<1>3. /\ counters' = (counters \ old) \cup {slot}
      /\ time' = time
      /\ call' = [call EXCEPT ![r] =
           IF Allows(slot) THEN [step |-> "admitted", window |-> w, at |-> time]
           ELSE [step |-> "limited", window |-> w, at |-> time, retryAfter |-> RetryAfter(slot)]]
  BY DEF Consume
<1>4. old = KeysOf(m, w)
  BY DEF KeysOf
<1> HIDE DEF slot, old, m, w
<1> QED BY <1>2, <1>3, <1>4 DEF Allows, m, w

LEMMA ConsumeKeeps == ASSUME GateInv, NEW r \in Calls, Consume(r) PROVE GateInv'
<1> DEFINE m == RequestedBy[r]  w == call[r].window  old == KeysOf(m, w)
           yes == [step |-> "admitted", window |-> w, at |-> time]
<1>1. PICK slot \in Counter :
        /\ slot.name = <<m, w>>
        /\ slot.expires > time /\ slot.expires >= WindowEnd(w)
        /\ \A k \in old : slot.count = k.count + 1
        /\ counters' = (counters \ old) \cup {slot}
        /\ time' = time
        /\ \/ slot.count <= MaxRequests /\ call' = [call EXCEPT ![r] = yes]
           \/ call' = [call EXCEPT ![r] =
                [step |-> "limited", window |-> w, at |-> time,
                 retryAfter |-> RetryAfter(slot)]]
  BY Consumed
<1> DEFINE no == [step |-> "limited", window |-> w, at |-> time,
                  retryAfter |-> RetryAfter(slot)]
<1>2. /\ call[r].step = "clocked" /\ w \in Nat /\ time \in Nat
      /\ m \in {RequestedBy[q] : q \in Calls}
  BY DEF Consume, GateInv, CallInv, GateTypeOK
<1>3. slot.name[2] = w /\ slot.expires \in Nat /\ slot.count \in Nat \ {0}
      /\ old = {k \in counters : k.name = <<m, w>>}
  BY <1>1 DEF Counter, KeysOf
<1>4. /\ yes.step = "admitted" /\ yes.window = w /\ yes.at = time
      /\ no.step = "limited" /\ no.window = w /\ no.at = time
      /\ no.retryAfter = RetryAfter(slot)
  OBVIOUS
<1> HIDE DEF m, w, old, yes, no
<1>5. /\ call'[r] \in {yes, no}
      /\ call'[r] = yes => slot.count <= MaxRequests
      /\ \A d \in Calls \ {r} : call'[d] = call[d]
      /\ call' = [d \in Calls |-> call'[d]]
  BY <1>1, <1>4 DEF GateInv, GateTypeOK, no
<1>6. GateTypeOK'
  BY <1>1, <1>5 DEF GateInv, GateTypeOK
<1>7. KeyInv'
  BY <1>1, <1>3 DEF GateInv, KeyInv
<1>8. CallInv'
  <2>1. 2 * (WindowEnd(no.window) - (no.at + no.retryAfter * TicksPerSecond)) < TicksPerSecond
    BY <1>1, <1>2, <1>3, <1>4, EndIsNat, RoundedLife
  <2>2. ASSUME NEW d \in Calls \ {r}
        PROVE  (CallInv!(d))'
    BY <1>1, <1>5 DEF GateInv, CallInv
  <2>3. (CallInv!(r))'
    BY <1>1, <1>2, <1>4, <1>5, <2>1
  <2> QED BY <2>2, <2>3 DEF CallInv
<1>9. ASSUME NEW n \in {RequestedBy[q] : q \in Calls}, NEW v \in Nat
      PROVE  (CountInv!(n, v))'
  <2>1. Admitted(n, v)' =
          IF n = m /\ v = w /\ call'[r] = yes /\ WindowOf(time) = w
          THEN Admitted(n, v) \cup {r} ELSE Admitted(n, v)
    <3>1. r \notin Admitted(n, v)
      BY <1>2 DEF Admitted
    <3>2. r \in Admitted(n, v)' <=> n = m /\ v = w /\ call'[r] = yes /\ WindowOf(time) = w
      BY <1>4, <1>5 DEF Admitted, m
    <3>3. \A d \in Calls \ {r} : d \in Admitted(n, v)' <=> d \in Admitted(n, v)
      BY <1>5 DEF Admitted
    <3>4. Admitted(n, v) \subseteq Calls /\ Admitted(n, v)' \subseteq Calls
      BY DEF Admitted
    <3> QED BY <3>1, <3>2, <3>3, <3>4
  <2>2. /\ IsFiniteSet(Admitted(n, v)) /\ Cardinality(Admitted(n, v)) <= MaxRequests
        /\ v = WindowOf(time) =>
             \/ Admitted(n, v) = {}
             \/ \E k \in KeysOf(n, v) : Cardinality(Admitted(n, v)) <= k.count
    BY DEF GateInv, CountInv
  <2>3. CASE ~(n = m /\ v = w)
    <3>1. Admitted(n, v)' = Admitted(n, v)
      BY <2>1, <2>3
    <3>2. KeysOf(n, v) \subseteq KeysOf(n, v)'
      BY <1>1, <1>3, <2>3 DEF KeysOf
    <3> QED BY <1>1, <2>2, <3>1, <3>2
  <2>4. CASE n = m /\ v = w
    <3>1. slot \in KeysOf(n, v)'
      BY <1>1, <2>4 DEF KeysOf
    <3>2. v = WindowOf(time) => Cardinality(Admitted(n, v)) < slot.count
      <4>1. Cardinality({}) = 0
        BY FS_EmptySet
      <4>2. KeysOf(n, v) = old /\ \A k \in old : k.count \in Nat /\ slot.count = k.count + 1
        BY <1>1, <2>4 DEF old, KeysOf, GateInv, GateTypeOK, Counter
      <4>3. Cardinality(Admitted(n, v)) \in Nat
        BY <2>2, FS_CardinalityType
      <4>4. CASE Admitted(n, v) = {}
        BY <1>3, <4>1, <4>4
      <4>5. ASSUME NEW k \in KeysOf(n, v), Cardinality(Admitted(n, v)) <= k.count
            PROVE  Cardinality(Admitted(n, v)) < slot.count
        BY <4>2, <4>3, <4>5
      <4> QED BY <2>2, <4>4, <4>5
    <3>3. CASE call'[r] = yes /\ WindowOf(time) = w
      <4>1. Admitted(n, v)' = Admitted(n, v) \cup {r} /\ r \notin Admitted(n, v)
        BY <1>2, <2>1, <2>4, <3>3 DEF Admitted
      <4>2. /\ IsFiniteSet(Admitted(n, v)')
            /\ Cardinality(Admitted(n, v)') = Cardinality(Admitted(n, v)) + 1
        BY <2>2, <4>1, FS_AddElement
      <4>3. Cardinality(Admitted(n, v)) \in Nat
        BY <2>2, FS_CardinalityType
      <4>4. Cardinality(Admitted(n, v)') <= slot.count /\ slot.count <= MaxRequests
        BY <1>3, <1>5, <2>4, <3>2, <3>3, <4>2, <4>3
      <4> QED BY <1>3, <3>1, <4>2, <4>3, <4>4, RateLimitAssumption
    <3>4. CASE ~(call'[r] = yes /\ WindowOf(time) = w)
      <4>1. Admitted(n, v)' = Admitted(n, v)
        BY <2>1, <3>4
      <4>2. Cardinality(Admitted(n, v)) \in Nat
        BY <2>2, FS_CardinalityType
      <4> QED BY <1>1, <1>3, <2>2, <3>1, <3>2, <4>1, <4>2
    <3> QED BY <3>3, <3>4
  <2> QED BY <2>3, <2>4
<1>10. CountInv'
  BY <1>9 DEF CountInv
<1> QED BY <1>6, <1>7, <1>8, <1>10 DEF GateInv

LEMMA GateInductive == GateInv /\ [GateNext]_gate => GateInv'
<1> SUFFICES ASSUME GateInv, [GateNext]_gate PROVE GateInv'
  OBVIOUS
<1>1. CASE UNCHANGED gate
  <2>1. /\ time' = time /\ counters' = counters /\ call' = call
    BY <1>1 DEF gate
  <2>2. \A m, w : Admitted(m, w)' = Admitted(m, w) /\ KeysOf(m, w)' = KeysOf(m, w)
    BY <2>1 DEF Admitted, KeysOf
  <2> QED BY <2>1, <2>2 DEF GateInv, GateTypeOK, KeyInv, CallInv, CountInv
<1>2. ASSUME NEW r \in Calls, ReadClock(r) PROVE GateInv'
  <2>1. time \in Nat /\ WindowOf(time) \in Nat
    BY WindowIsNat DEF GateInv, GateTypeOK
  <2> DEFINE q == [step |-> "clocked", window |-> WindowOf(time), ttl |-> ExpiresIn(time)]
  <2>2. /\ q.step = "clocked" /\ q.window \in Nat /\ q.ttl \in Nat \ {0}
        /\ time + q.ttl * TicksPerSecond >= WindowEnd(q.window)
    BY <2>1, LivesToTheEnd
  <2>3. /\ call[r].step = "new" /\ call' = [call EXCEPT ![r] = q]
        /\ UNCHANGED <<time, counters>>
    BY <1>2 DEF ReadClock
  <2> HIDE DEF q
  <2> QED BY <2>2, <2>3, NotAdmitted
<1>3. ASSUME NEW r \in Calls, Unavailable(r) PROVE GateInv'
  <2> DEFINE q == [step |-> "unavailable"]
  <2>1. /\ q.step = "unavailable" /\ call[r].step = "clocked"
        /\ call' = [call EXCEPT ![r] = q] /\ UNCHANGED <<time, counters>>
    BY <1>3 DEF Unavailable
  <2> HIDE DEF q
  <2> QED BY <2>1, NotAdmitted
<1> QED BY <1>1, <1>2, <1>3, ElapseKeeps, ConsumeKeeps DEF GateNext

-----------------------------------------------------------------------------
(* The two together: each keeps what it keeps alone.                        *)
LEMMA RequestsStep ==
  [RequestsNext]_allVars => [Next]_vars /\ [GateNext]_gate
  BY DEF RequestsNext, allVars, Handle, Next, Create

(* The rate limiter in front of the creation neither creates payments nor   *)
(* changes what is created, and creation leaves the limiter's counts alone. *)
THEOREM RequestsAreBoth == RequestsSpec => Spec /\ GateSpec
  BY RequestsStep, PTL DEF RequestsSpec, RequestsInit, Spec, GateSpec

(* A client that waits as long as the refusal tells it comes back when the  *)
(* window that refused it is over, but for the half second that Redis may   *)
(* round off.                                                               *)
THEOREM RetryAfterIsEnough == RequestsSpec => []RetryAfterReachesTheEnd
<1>1. GateInv => RetryAfterReachesTheEnd
  BY DEF GateInv, CallInv, RetryAfterReachesTheEnd
<1> QED BY <1>1, GateStart, GateInductive, RequestsAreBoth, PTL DEF GateSpec

(* The limiter lets at most MaxRequests of a merchant through in a window. *)
THEOREM WindowIsLimited == RequestsSpec => []WindowLimit
<1>1. GateInv => WindowLimit
  <2> SUFFICES ASSUME GateInv, NEW m \in {RequestedBy[r] : r \in Calls},
                      NEW w \in 0..WindowOf(MaxTime)
               PROVE  Cardinality(Admitted(m, w)) <= MaxRequests
    BY DEF WindowLimit, Admitted
  <2>1. w \in Nat
    BY RateLimitAssumption, WindowIsNat
  <2> QED BY <2>1 DEF GateInv, CountInv
<1> QED BY <1>1, GateStart, GateInductive, RequestsAreBoth, PTL DEF GateSpec
=============================================================================
