------------------------------ MODULE RateLimit ------------------------------
(***************************************************************************)
(* The payment API's rate limiter: a fixed window per merchant, counted in *)
(* Redis under a key that names the window the request read from its clock.*)
(* The clock is read before Redis is asked, so a request may be counted    *)
(* after the window it names is over.  The servers share one clock; it     *)
(* ticks several times a second, because the service works in whole        *)
(* seconds and Redis does not.                                             *)
(***************************************************************************)
EXTENDS Integers, FiniteSets

CONSTANTS
  Calls,           \* the HTTP requests
  RequestedBy,     \* the merchant of a request, as its API key told
  TicksPerSecond,  \* how fine the clock is
  RateWindow,      \* windowSeconds
  MaxRequests,     \* PAYMENT_API_RATE_LIMIT_MAX_REQUESTS
  MaxTime          \* bound on the clock, in ticks

ASSUME RateLimitAssumption ==
  /\ {TicksPerSecond, RateWindow, MaxRequests} \subseteq Nat \ {0}
  /\ MaxTime \in Nat

VARIABLES
  time,      \* ticks
  counters,  \* the Redis keys: merchant, window, count and expiry
  call       \* what a request has read and what it was answered

gate == <<time, counters, call>>

NowSeconds(t) == t \div TicksPerSecond

WindowOf(t) == NowSeconds(t) \div RateWindow

(* The tick with which a window is over.                                   *)
WindowEnd(w) == (w + 1) * RateWindow * TicksPerSecond

GateInit ==
  /\ time = 0
  /\ counters = {}
  /\ call = [r \in Calls |-> [step |-> "new"]]

(* Redis drops a key when its time to live is over.                        *)
Elapse ==
  /\ time < MaxTime
  /\ time' = time + 1
  /\ counters' = {k \in counters : k.expires > time + 1}
  /\ UNCHANGED call

ExpiresIn(t) == RateWindow - (NowSeconds(t) % RateWindow)

ReadClock(r) ==
  /\ call[r].step = "new"
  /\ call' = [call EXCEPT ![r] =
       [step |-> "clocked", window |-> WindowOf(time), ttl |-> ExpiresIn(time)]]
  /\ UNCHANGED <<time, counters>>

(* Mutation: the seconds a key has left are cut, not rounded. *)
TTL_Cut(k) == (k.expires - time) \div TicksPerSecond

(* Redis tells the rest of a key's life rounded to the nearest second.     *)
TTL(k) == (2 * (k.expires - time) + TicksPerSecond) \div (2 * TicksPerSecond)

RetryAfter(k) == IF TTL(k) > 1 THEN TTL(k) ELSE 1

(* Mutation: the limit is compared with the requests counted before. *)
Allows_Before(k) == k.count - 1 <= MaxRequests

Allows(k) == k.count <= MaxRequests

(* The script increments the key, and gives a new one its time to live.    *)
Consume(r) ==
  LET q    == call[r]
      name == <<RequestedBy[r], q.window>>
      old  == {k \in counters : k.name = name}
      key  == IF old = {} THEN [name |-> name, count |-> 1, expires |-> time + q.ttl * TicksPerSecond]
              ELSE LET k == CHOOSE k \in old : TRUE IN [k EXCEPT !.count = @ + 1] IN
  /\ q.step = "clocked"
  /\ counters' = (counters \ old) \cup {key}
  /\ call' = [call EXCEPT ![r] =
       IF Allows(key)
       THEN [step |-> "admitted", window |-> q.window, at |-> time]
       ELSE [step |-> "limited", window |-> q.window, at |-> time,
             retryAfter |-> RetryAfter(key)]]
  /\ UNCHANGED time

(* Redis is not reached: 503, and the request is not let in.               *)
Unavailable(r) ==
  /\ call[r].step = "clocked"
  /\ call' = [call EXCEPT ![r] = [step |-> "unavailable"]]
  /\ UNCHANGED <<time, counters>>

GateNext ==
  \/ Elapse
  \/ \E r \in Calls : ReadClock(r) \/ Consume(r) \/ Unavailable(r)

(* No merchant gets more than MaxRequests through in one window, whatever  *)
(* the order in which Redis is asked; requests that reach Redis after      *)
(* their window are left aside, they are counted with nobody's.            *)
WindowLimit ==
  \A m \in {RequestedBy[r] : r \in Calls}, w \in 0..WindowOf(MaxTime) :
    Cardinality({r \in Calls :
      /\ RequestedBy[r] = m /\ call[r].step = "admitted"
      /\ call[r].window = w /\ WindowOf(call[r].at) = w}) <= MaxRequests

(* A client that waits as long as Retry-After says is back half a second   *)
(* before the end of the window that refused it at the earliest: what Redis *)
(* rounds off is all it can come too soon, however old the key is.          *)
RetryAfterReachesTheEnd ==
  \A r \in Calls : call[r].step = "limited" =>
    2 * (WindowEnd(call[r].window) - (call[r].at + call[r].retryAfter * TicksPerSecond))
      < TicksPerSecond
=============================================================================
