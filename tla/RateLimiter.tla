----------------------------- MODULE RateLimiter -----------------------------
(***************************************************************************)
(* The token buckets of service/app/rate_limiter.py under the threads that *)
(* serve requests.  A call of allow() is two steps: it takes the lock,     *)
(* reads the clock and the bucket of its client; then it decides, writes   *)
(* the bucket and releases the lock.  The clock may move in between.       *)
(*                                                                         *)
(* Tokens are counted in parts, so that every number is an integer: a      *)
(* request costs Cost parts and a unit of time refills Rate of them; the   *)
(* code's refill_per_second is Rate / Cost per unit.                       *)
(***************************************************************************)
EXTENDS Integers

CONSTANTS
    Callers,   \* the threads that serve requests
    Keys,      \* the clients
    Capacity,  \* capacity, in tokens
    Cost,      \* the parts of a token
    Rate,      \* the parts refilled per unit of time
    MaxTime    \* bound: the clock

ASSUME RateAssumption ==
    /\ Capacity \in Nat
    /\ Cost \in Nat \ {0}
    /\ Rate \in Nat
    /\ MaxTime \in Nat

VARIABLES
    clock,     \* what time.monotonic returns
    seen,      \* the keys of self._buckets
    buckets,   \* self._buckets: (tokens, last_refill_ts) of each key
    caller,    \* each thread: whether it holds the lock, and its locals
    admitted   \* history: per client, its calls admitted on a reading before each time

vars == <<clock, seen, buckets, caller, admitted>>

Times == 0 .. MaxTime
Full == Capacity * Cost
Outside == [inside |-> FALSE]

Init ==
    /\ clock = 0
    /\ seen = {}
    /\ buckets = [k \in Keys |-> [tokens |-> Full, last |-> 0]]
    /\ caller = [c \in Callers |-> Outside]
    /\ admitted = [k \in Keys |-> [t \in 0 .. MaxTime + 1 |-> 0]]

AtMostFull(n) == IF n > Full THEN Full ELSE n

(* Bug: a bucket that nobody drains fills without end. *)
RefilledWithoutLimit(bucket) == bucket.tokens + (clock - bucket.last) * Rate

(* What has run in since the bucket was last looked at, up to its brim. *)
Refilled(bucket) == AtMostFull(bucket.tokens + (clock - bucket.last) * Rate)

(* A client that is seen for the first time has a full bucket. *)
Bucket(k) == IF k \in seen THEN buckets[k] ELSE [tokens |-> Full, last |-> clock]

Inside(c, k, tokens) == [inside |-> TRUE, key |-> k, now |-> clock, tokens |-> tokens]

Enter(c, k) ==
    /\ \A other \in Callers : ~caller[other].inside
    /\ caller' = [caller EXCEPT ![c] = Inside(c, k, Refilled(Bucket(k)))]
    /\ UNCHANGED <<clock, seen, buckets, admitted>>

(* Bug: a refusal forgets what has run in. *)
LeaveDrained(c, tokens) ==
    LET me == caller[c] IN
    /\ buckets' = [buckets EXCEPT ![me.key] =
                      [tokens |-> IF me.tokens < Cost THEN 0 ELSE tokens, last |-> me.now]]
    /\ seen' = seen \cup {me.key}
    /\ caller' = [caller EXCEPT ![c] = Outside]

(* The bucket is written back, and the lock released. *)
Leave(c, tokens) ==
    LET me == caller[c] IN
    /\ buckets' = [buckets EXCEPT ![me.key] = [tokens |-> tokens, last |-> me.now]]
    /\ seen' = seen \cup {me.key}
    /\ caller' = [caller EXCEPT ![c] = Outside]

Allow(c) ==
    LET me == caller[c] IN
    /\ me.inside
    /\ me.tokens >= Cost
    /\ Leave(c, me.tokens - Cost)
    /\ admitted' = [admitted EXCEPT ![me.key] =
                       [t \in DOMAIN @ |-> IF t > me.now THEN @[t] + 1 ELSE @[t]]]
    /\ UNCHANGED clock

Refuse(c) ==
    LET me == caller[c] IN
    /\ me.inside
    /\ me.tokens < Cost
    /\ Leave(c, me.tokens)
    /\ UNCHANGED <<clock, admitted>>

Tick ==
    /\ clock < MaxTime
    /\ clock' = clock + 1
    /\ UNCHANGED <<seen, buckets, caller, admitted>>

Next ==
    \/ \E c \in Callers : (\E k \in Keys : Enter(c, k)) \/ Allow(c) \/ Refuse(c)
    \/ Tick

Spec == Init /\ [][Next]_vars

-----------------------------------------------------------------------------
(* Properties *)

(* How many calls of k were admitted from one time to another. *)
Admitted(k, from, to) == admitted[k][to + 1] - admitted[k][from]

(* In no stretch of time does a client get more than a full bucket and     *)
(* what the stretch refills, however many threads serve it                 *)
(* (test_concurrency.py:19-31, docs/testing_and_tradeoffs.md:26-28).       *)
WindowBounded ==
    \A k \in Keys, from \in Times : \A to \in from .. MaxTime :
        Admitted(k, from, to) * Cost <= Full + Rate * (to - from)

(* And it gets no less: a call is refused only if there is a stretch of    *)
(* time, up to now, in which one more would have been too many.            *)
RefusesOnlyWhenFull ==
    [][\A c \in Callers : Refuse(c) =>
          \E from \in 0 .. caller[c].now :
             (Admitted(caller[c].key, from, MaxTime) + 1) * Cost
                > Full + Rate * (caller[c].now - from)]_vars
=============================================================================
