-------------------------- MODULE RateLimiterProofs --------------------------
(***************************************************************************)
(* The token bucket is exact, for every capacity, cost, rate and number of *)
(* threads: what is left in it is what the tightest stretch of time up to  *)
(* now still allows.                                                       *)
(***************************************************************************)
EXTENDS RateLimiter, TLAPS

Since(k, from) == Admitted(k, from, MaxTime)

(* tokens at time now are what the calls admitted so far leave of k:       *)
(* no stretch up to now leaves less, and one of them leaves just that.     *)
Exact(k, tokens, now) ==
    /\ \A from \in 0 .. now : tokens + Since(k, from) * Cost <= Full + Rate * (now - from)
    /\ \E from \in 0 .. now : tokens + Since(k, from) * Cost = Full + Rate * (now - from)
    /\ \A t \in now + 1 .. MaxTime + 1 : admitted[k][t] = admitted[k][MaxTime + 1]

Buckets == [tokens : 0 .. Full, last : Times]
Insiders == [inside : {TRUE}, key : Keys, now : Times, tokens : 0 .. Full]

Typed ==
    /\ clock \in Times
    /\ seen \subseteq Keys
    /\ buckets \in [Keys -> Buckets]
    /\ caller \in [Callers -> Insiders \cup {Outside}]
    /\ admitted \in [Keys -> [0 .. MaxTime + 1 -> Nat]]

(* One thread is inside, and nobody has touched the bucket it has read.    *)
Locked ==
    /\ \A c, d \in Callers : caller[c].inside /\ caller[d].inside => c = d
    /\ \A c \in Callers : caller[c].inside =>
          /\ caller[c].now <= clock
          /\ Exact(caller[c].key, caller[c].tokens, caller[c].now)
    /\ \A k \in seen : buckets[k].last <= clock /\ Exact(k, buckets[k].tokens, buckets[k].last)
    /\ \A k \in Keys \ seen : \A t \in 0 .. MaxTime + 1 : admitted[k][t] = 0

IInv == Typed /\ Locked /\ WindowBounded

-----------------------------------------------------------------------------

(* The parts of a full bucket are a number. *)
LEMMA FullIsNat == Full \in Nat
  BY RateAssumption DEF Full

(* A stretch refills what its parts refill. *)
LEMMA RateAdds ==
  ASSUME NEW x \in Int, NEW y \in Int, NEW z \in Int
  PROVE  Rate * (x - z) = Rate * (x - y) + Rate * (y - z)
  BY RateAssumption

(* A refill is a number. *)
LEMMA RateIsNat ==
  ASSUME NEW x \in Nat
  PROVE  Rate * x \in Nat /\ x * Rate = Rate * x
  BY RateAssumption

(* What has run in keeps the bucket exact, and below its brim. *)
LEMMA RefillIsExact ==
  ASSUME Typed, NEW k \in Keys, NEW bucket \in Buckets, bucket.last <= clock,
         Exact(k, bucket.tokens, bucket.last)
  PROVE  Refilled(bucket) \in 0 .. Full /\ Exact(k, Refilled(bucket), clock)
<1> DEFINE tokens == bucket.tokens
           last == bucket.last
           more == Rate * (clock - last)
           used(from) == Since(k, from) * Cost
           now(from) == Rate * (clock - from)
           before(from) == Rate * (last - from)
<1>0. /\ tokens \in 0 .. Full /\ last \in 0 .. clock /\ clock \in 0 .. MaxTime
      /\ Full \in Nat /\ Cost \in Nat /\ MaxTime \in Nat /\ Rate \in Nat
      /\ admitted[k] \in [0 .. MaxTime + 1 -> Nat]
  BY FullIsNat, RateAssumption DEF Typed, Buckets, Times
<1>1. more \in Nat /\ Refilled(bucket) = IF tokens + more > Full THEN Full ELSE tokens + more
  <2>1. clock - last \in Nat
    BY <1>0
  <2>2. more \in Nat /\ (clock - last) * Rate = more
    BY <2>1, RateIsNat
  <2> QED
    BY <2>2 DEF Refilled, AtMostFull
<1>2. ASSUME NEW from \in 0 .. clock
      PROVE  used(from) \in Int /\ now(from) \in Nat
  <2>1. from \in 0 .. MaxTime + 1 /\ MaxTime + 1 \in 0 .. MaxTime + 1
    BY <1>0
  <2>2. Since(k, from) \in Int
    BY <1>0, <2>1 DEF Since, Admitted
  <2>3. used(from) \in Int
    BY <1>0, <2>2
  <2>4. clock - from \in Nat
    BY <1>0
  <2> QED
    BY <2>3, <2>4, RateIsNat
<1>3. ASSUME NEW from \in 0 .. last
      PROVE  before(from) \in Nat /\ now(from) = more + before(from)
  <2>1. clock \in Int /\ last \in Int /\ from \in Int /\ last - from \in Nat
    BY <1>0
  <2>2. Rate * (clock - from) = Rate * (clock - last) + Rate * (last - from)
    BY Zenon, <2>1, RateAdds
  <2>3. Rate * (last - from) \in Nat
    BY <2>1, RateIsNat
  <2>4. before(from) \in Nat
    BY <2>3
  <2>5. now(from) = more + before(from)
    BY Zenon, <2>2
  <2> QED
    BY <2>4, <2>5
<1>4. ASSUME NEW from \in last + 1 .. clock PROVE used(from) = 0
  <2>1. from \in last + 1 .. MaxTime + 1
    BY <1>0
  <2>2. admitted[k][from] = admitted[k][MaxTime + 1]
    BY <2>1 DEF Exact
  <2>4. admitted[k][MaxTime + 1] \in Nat
    BY <1>0
  <2>3. Since(k, from) = 0
    BY <2>2, <2>4 DEF Since, Admitted
  <2> QED
    BY <1>0, <2>3
<1>5. \A from \in 0 .. last : tokens + used(from) <= Full + before(from)
  BY DEF Exact
<1>6. \E from \in 0 .. last : tokens + used(from) = Full + before(from)
  BY DEF Exact
<1>7. now(clock) = 0 /\ (last = clock => more = 0 /\ before(last) = 0)
  BY <1>0
<1>8. \A t \in clock + 1 .. MaxTime + 1 : admitted[k][t] = admitted[k][MaxTime + 1]
  <2>1. \A t \in clock + 1 .. MaxTime + 1 : t \in last + 1 .. MaxTime + 1
    BY <1>0
  <2> QED
    BY <2>1 DEF Exact
<1> HIDE DEF tokens, last, more, used, now, before
<1>9. ASSUME NEW from \in 0 .. clock
      PROVE  Refilled(bucket) + used(from) <= Full + now(from)
  <2>1. CASE from \in 0 .. last
    <3>1. /\ used(from) \in Int /\ before(from) \in Nat
          /\ now(from) = more + before(from)
          /\ tokens + used(from) <= Full + before(from)
      BY <1>2, <1>3, <1>5, <2>1
    <3>2. tokens \in Nat /\ Full \in Nat
      BY <1>0
    <3> QED
      BY <1>1, <3>1, <3>2
  <2>2. CASE from \in last + 1 .. clock
    <3>1. used(from) = 0 /\ now(from) \in Nat
      BY <1>2, <1>4, <2>2
    <3>2. tokens \in Nat /\ Full \in Nat
      BY <1>0
    <3> QED
      BY <1>0, <1>1, <3>1, <3>2
  <2> QED
    BY <1>0, <2>1, <2>2
<1>10. \E from \in 0 .. clock : Refilled(bucket) + used(from) = Full + now(from)
  <2>1. CASE tokens + more > Full
    <3>1. clock \in 0 .. clock /\ Refilled(bucket) = Full
      BY <1>0, <1>1, <2>1
    <3>2. CASE last = clock
      BY <1>0, <1>7, <2>1, <3>2
    <3>3. CASE last < clock
      <4>1. used(clock) = 0
        BY <1>0, <1>4, <3>3
      <4> QED
        BY <1>0, <1>7, <3>1, <4>1
    <3> QED
      BY <1>0, <3>2, <3>3
  <2>2. CASE ~(tokens + more > Full)
    <3>1. PICK from \in 0 .. last : tokens + used(from) = Full + before(from)
      BY <1>6
    <3>2. from \in 0 .. clock
      BY <1>0
    <3>3. Refilled(bucket) + used(from) = Full + now(from)
      <4>1. Refilled(bucket) = tokens + more
        BY <1>1, <2>2
      <4>2. now(from) = more + before(from) /\ before(from) \in Nat
        BY <1>3
      <4>3. used(from) \in Int
        BY <1>2, <3>2
      <4> QED
        <5>1. tokens \in Int /\ more \in Int /\ Full \in Int /\ before(from) \in Int
          BY <1>0, <1>1, <4>2
        <5> QED
          BY <3>1, <4>1, <4>2, <4>3, <5>1
    <3> QED
      BY <3>2, <3>3
  <2> QED
    BY <2>1, <2>2
<1>11. Exact(k, Refilled(bucket), clock)
  BY Zenon, <1>8, <1>9, <1>10 DEF Exact, used, now
<1>12. Refilled(bucket) \in 0 .. Full
  BY <1>0, <1>1
<1> QED
  BY <1>11, <1>12

(* One call more costs Cost parts more. *)
LEMMA CostAdds ==
  ASSUME NEW n \in Int
  PROVE  (n + 1) * Cost = n * Cost + Cost /\ n * Cost \in Int /\ Cost \in Nat
  BY RateAssumption

(* One more call admitted is Cost parts less in the bucket. *)
LEMMA AllowIsExact ==
  ASSUME Typed, WindowBounded, NEW k \in Keys, NEW now \in Times, NEW tokens \in 0 .. Full,
         Exact(k, tokens, now), tokens >= Cost,
         admitted' = [admitted EXCEPT ![k] =
                         [t \in DOMAIN @ |-> IF t > now THEN @[t] + 1 ELSE @[t]]]
  PROVE  /\ admitted' \in [Keys -> [0 .. MaxTime + 1 -> Nat]]
         /\ tokens - Cost \in 0 .. Full
         /\ Exact(k, tokens - Cost, now)'
         /\ WindowBounded'
         /\ \A j \in Keys \ {k} : admitted'[j] = admitted[j]
<1> DEFINE used(from) == Since(k, from) * Cost
           after(from) == Since(k, from)' * Cost
           back(from) == Rate * (now - from)
<1>0. /\ now \in 0 .. MaxTime /\ Full \in Nat /\ MaxTime \in Nat /\ Cost \in Nat
      /\ admitted \in [Keys -> [0 .. MaxTime + 1 -> Nat]]
      /\ admitted[k] \in [0 .. MaxTime + 1 -> Nat]
      /\ MaxTime + 1 \in 0 .. MaxTime + 1
  BY FullIsNat, RateAssumption DEF Typed, Times
<1>1. /\ \A j \in Keys \ {k} : admitted'[j] = admitted[j]
      /\ admitted'[k] = [t \in 0 .. MaxTime + 1 |->
                            IF t > now THEN admitted[k][t] + 1 ELSE admitted[k][t]]
  BY <1>0
<1>2. \A t \in 0 .. MaxTime + 1 :
         admitted'[k][t] = IF t > now THEN admitted[k][t] + 1 ELSE admitted[k][t]
  BY <1>1
<1>3. admitted' \in [Keys -> [0 .. MaxTime + 1 -> Nat]]
  <2>1. admitted'[k] \in [0 .. MaxTime + 1 -> Nat]
    BY <1>0, <1>1
  <2> QED
    BY <1>0, <1>1, <2>1
<1>4. ASSUME NEW from \in 0 .. now
      PROVE  /\ after(from) = used(from) + Cost
             /\ after(from) \in Int
             /\ used(from) \in Int
             /\ back(from) \in Nat
  <2>1. from \in 0 .. MaxTime + 1 /\ ~(from > now) /\ MaxTime + 1 > now /\ now - from \in Nat
    BY <1>0
  <2>2. Since(k, from) \in Int
    BY <1>0, <2>1 DEF Since, Admitted
  <2>3. Since(k, from)' = Since(k, from) + 1
    BY <1>0, <1>2, <2>1 DEF Since, Admitted
  <2>4. /\ (Since(k, from) + 1) * Cost = Since(k, from) * Cost + Cost
        /\ Since(k, from) * Cost \in Int
    BY Zenon, <2>2, CostAdds
  <2>5. used(from) \in Int /\ after(from) = used(from) + Cost
    BY Zenon, <2>3, <2>4
  <2>6. back(from) \in Nat
    BY Zenon, <2>1, RateIsNat
  <2> HIDE DEF used, after, back
  <2>7. after(from) \in Int
    BY <1>0, <2>5
  <2> QED
    BY <2>5, <2>6, <2>7
<1>5. \A from \in 0 .. now : tokens + used(from) <= Full + back(from)
  BY Zenon DEF Exact
<1>6. \E from \in 0 .. now : tokens + used(from) = Full + back(from)
  BY Zenon DEF Exact
<1>7. Exact(k, tokens - Cost, now)'
  <2>1. ASSUME NEW from \in 0 .. now
        PROVE  (tokens - Cost) + after(from) <= Full + back(from)
    <3> HIDE DEF used, after, back
    <3> QED
      BY <1>0, <1>4, <1>5, SMTT(20)
  <2>2. \E from \in 0 .. now : (tokens - Cost) + after(from) = Full + back(from)
    <3> HIDE DEF used, after, back
    <3> QED
      BY <1>0, <1>4, <1>6
  <2>3. ASSUME NEW t \in now + 1 .. MaxTime + 1
        PROVE  admitted'[k][t] = admitted'[k][MaxTime + 1]
    <3>1. t \in 0 .. MaxTime + 1 /\ t > now /\ MaxTime + 1 > now
      BY <1>0
    <3>2. admitted[k][t] = admitted[k][MaxTime + 1]
      BY DEF Exact
    <3> QED
      BY <1>0, <1>2, <3>1, <3>2
  <2> QED
    BY <2>1, <2>2, <2>3 DEF Exact
<1>8. ASSUME NEW j \in Keys, NEW from \in Times, NEW to \in from .. MaxTime
      PROVE  Admitted(j, from, to)' * Cost <= Full + Rate * (to - from)
  <2>0. /\ from \in 0 .. MaxTime /\ from \in 0 .. MaxTime + 1
        /\ to \in 0 .. MaxTime /\ to + 1 \in 0 .. MaxTime + 1 /\ from <= to
    BY <1>0 DEF Times
  <2>1. Admitted(j, from, to) * Cost <= Full + Rate * (to - from)
    BY DEF WindowBounded
  <2>2. CASE j # k \/ to < now
    <3>1. admitted'[j][to + 1] = admitted[j][to + 1] /\ admitted'[j][from] = admitted[j][from]
      <4>1. CASE j # k
        BY <1>1, <4>1
      <4>2. CASE j = k /\ to < now
        BY <1>0, <1>2, <2>0, <4>2
      <4> QED
        BY <2>2, <4>1, <4>2
    <3> QED
      BY <2>1, <3>1 DEF Admitted
  <2>3. CASE j = k /\ to >= now /\ from <= now
    <3>1. from \in 0 .. now /\ to + 1 \in now + 1 .. MaxTime + 1
      BY <1>0, <2>0, <2>3
    <3>2. admitted'[k][to + 1] = admitted'[k][MaxTime + 1]
      BY <1>0, <1>2, <3>1, <2>0 DEF Exact
    <3>3. Admitted(j, from, to)' = Since(k, from)'
      BY <2>3, <3>2 DEF Admitted, Since
    <3> DEFINE on == Rate * (to - now)
               whole == Rate * (to - from)
    <3>4. whole = on + back(from)
      <4>1. to \in Int /\ now \in Int /\ from \in Int
        BY <1>0, <2>0
      <4> QED
        BY Zenon, <4>1, RateAdds
    <3>5. on \in Nat
      <4>1. to - now \in Nat
        BY <1>0, <2>0, <2>3
      <4> QED
        BY <4>1, RateIsNat
    <3>6. after(from) <= Full + whole
      <4> HIDE DEF used, after, back, on, whole
      <4>1. after(from) = used(from) + Cost /\ used(from) \in Int /\ back(from) \in Nat
        BY <1>4, <3>1
      <4>2. tokens + used(from) <= Full + back(from)
        BY <1>5, <3>1
      <4>3. Full \in Nat /\ Cost \in Nat /\ tokens \in Nat /\ tokens >= Cost
        BY <1>0
      <4> QED
        BY <3>4, <3>5, <4>1, <4>2, <4>3
    <3> QED
      BY <3>3, <3>6
  <2>4. CASE j = k /\ from > now
    <3>1. from \in now + 1 .. MaxTime + 1 /\ to + 1 \in now + 1 .. MaxTime + 1
      BY <1>0, <2>0, <2>4
    <3>2. admitted[k][from] = admitted[k][to + 1]
      BY <3>1 DEF Exact
    <3>3. admitted'[k][from] = admitted'[k][to + 1] /\ admitted'[k][from] \in Int
      <4>1. from \in 0 .. MaxTime + 1 /\ to + 1 \in 0 .. MaxTime + 1 /\ from > now /\ to + 1 > now
        BY <1>0, <2>0, <3>1
      <4>2. admitted[k][from] \in Nat
        BY <4>1 DEF Typed
      <4> QED
        BY <1>2, <3>2, <4>1, <4>2
    <3>4. Admitted(j, from, to)' = 0
      BY <2>4, <3>3 DEF Admitted
    <3>5. to - from \in Nat /\ 0 * Cost = 0
      BY <1>0, <2>0
    <3>6. Rate * (to - from) \in Nat
      BY <3>5, RateIsNat
    <3> QED
      BY <1>0, <3>4, <3>5, <3>6
  <2> QED
    BY <1>0, <2>0, <2>2, <2>3, <2>4
<1> QED
  BY <1>0, <1>1, <1>3, <1>7, <1>8 DEF WindowBounded

-----------------------------------------------------------------------------

(* The bucket of a client that is seen for the first time is full.         *)
LEMMA NewIsExact ==
  ASSUME Typed, NEW k \in Keys, \A t \in 0 .. MaxTime + 1 : admitted[k][t] = 0
  PROVE  Exact(k, Full, clock)
<1>1. clock \in 0 .. MaxTime /\ MaxTime \in Nat /\ Cost \in Nat /\ Full \in Nat
  BY FullIsNat, RateAssumption DEF Typed, Times
<1>2. ASSUME NEW from \in 0 .. clock
      PROVE  Since(k, from) * Cost = 0 /\ Rate * (clock - from) \in Nat
  <2>1. from \in 0 .. MaxTime + 1 /\ MaxTime + 1 \in 0 .. MaxTime + 1 /\ clock - from \in Nat
    BY <1>1
  <2>2. Since(k, from) = 0
    BY <2>1 DEF Since, Admitted
  <2> QED
    BY <1>1, <2>1, <2>2, RateIsNat
<1>3. \A from \in 0 .. clock : Full + Since(k, from) * Cost <= Full + Rate * (clock - from)
  BY <1>1, <1>2
<1>4. Full + Since(k, clock) * Cost = Full + Rate * (clock - clock)
  <2>1. clock \in 0 .. clock /\ clock - clock = 0 /\ Rate * 0 = 0
    BY <1>1, RateAssumption
  <2> QED
    BY <1>1, <1>2, <2>1
<1>5. \A t \in clock + 1 .. MaxTime + 1 : admitted[k][t] = admitted[k][MaxTime + 1]
  <2>1. \A t \in clock + 1 .. MaxTime + 1 : t \in 0 .. MaxTime + 1
    BY <1>1
  <2>2. MaxTime + 1 \in 0 .. MaxTime + 1
    BY <1>1
  <2> QED
    BY <2>1, <2>2
<1> QED
  <2>1. clock \in 0 .. clock
    BY <1>1
  <2> QED
    BY <1>3, <1>4, <1>5, <2>1 DEF Exact

(* Nothing is admitted and nobody is inside at the start.                  *)
LEMMA StartsExact == Init => IInv
<1> SUFFICES ASSUME Init PROVE IInv
  OBVIOUS
<1>1. Full \in Nat /\ MaxTime \in Nat /\ Cost \in Nat
  BY FullIsNat, RateAssumption
<1>2. Typed
  BY <1>1 DEF Init, Typed, Buckets, Insiders, Outside, Times
<1>3. Locked
  BY DEF Init, Locked, Outside
<1>4. WindowBounded
  <2>1. ASSUME NEW k \in Keys, NEW from \in Times, NEW to \in from .. MaxTime
        PROVE  Admitted(k, from, to) * Cost <= Full + Rate * (to - from)
    <3>1. from \in 0 .. MaxTime + 1 /\ to + 1 \in 0 .. MaxTime + 1 /\ to - from \in Nat
      BY <1>1 DEF Times
    <3>2. Admitted(k, from, to) = 0
      BY <3>1 DEF Init, Admitted
    <3>3. 0 * Cost = 0 /\ Rate * (to - from) \in Nat
      BY <1>1, <3>1, RateIsNat
    <3> QED
      BY <1>1, <3>2, <3>3
  <2> QED
    BY <2>1 DEF WindowBounded
<1> QED
  BY <1>2, <1>3, <1>4 DEF IInv

(* A thread takes the lock when nobody holds it, and reads an exact bucket. *)
LEMMA EnterKeeps ==
  ASSUME IInv, NEW c \in Callers, NEW k \in Keys, Enter(c, k)
  PROVE  IInv'
<1>1. /\ Typed /\ Locked /\ WindowBounded
      /\ \A d \in Callers : ~caller[d].inside
      /\ caller' = [caller EXCEPT ![c] = Inside(c, k, Refilled(Bucket(k)))]
      /\ UNCHANGED <<clock, seen, buckets, admitted>>
  BY DEF IInv, Enter
<1>2. Full \in Nat /\ clock \in Times /\ MaxTime \in Nat
  BY <1>1, FullIsNat, RateAssumption DEF Typed
<1>3. Bucket(k) \in Buckets /\ Bucket(k).last <= clock /\ Exact(k, Bucket(k).tokens, Bucket(k).last)
  <2>1. CASE k \in seen
    BY <1>1, <2>1 DEF Bucket, Locked, Typed
  <2>2. CASE k \notin seen
    <3>1. Exact(k, Full, clock)
      BY <1>1, <2>2, NewIsExact DEF Locked
    <3>2. Bucket(k) = [tokens |-> Full, last |-> clock]
      BY <2>2 DEF Bucket
    <3>3. clock <= clock /\ Full \in 0 .. Full
      BY <1>2 DEF Times
    <3> QED
      BY <1>2, <3>1, <3>2, <3>3 DEF Buckets
  <2> QED
    BY <2>1, <2>2
<1>4. PICK read \in 0 .. Full, now \in Times :
         read = Refilled(Bucket(k)) /\ now = clock /\ Exact(k, read, now)
  BY <1>1, <1>2, <1>3, RefillIsExact
<1>5. caller' = [caller EXCEPT ![c] = [inside |-> TRUE, key |-> k, now |-> now, tokens |-> read]]
  BY <1>1, <1>4 DEF Inside
<1>6. /\ caller'[c] = [inside |-> TRUE, key |-> k, now |-> now, tokens |-> read]
      /\ \A d \in Callers \ {c} : caller'[d] = caller[d]
  BY <1>1, <1>5 DEF Typed
<1>7. Typed'
  <2>1. [inside |-> TRUE, key |-> k, now |-> now, tokens |-> read] \in Insiders
    BY <1>4 DEF Insiders
  <2> QED
    BY <1>1, <1>5, <2>1 DEF Typed
<1>8. \A j, t, n : Exact(j, t, n)' <=> Exact(j, t, n)
  BY <1>1 DEF Exact, Since, Admitted
<1>9. Locked'
  <2>1. \A d \in Callers : caller'[d].inside => d = c
    BY <1>1, <1>6
  <2>2. ASSUME NEW d \in Callers, caller'[d].inside
        PROVE  caller'[d].now <= clock' /\ Exact(caller[d].key, caller[d].tokens, caller[d].now)'
    <3>1. d = c /\ clock <= clock
      BY <1>2, <2>1, <2>2 DEF Times
    <3>2. Exact(k, read, now)'
      BY <1>4, <1>8
    <3>3. caller'[d].key = k /\ caller'[d].now = now /\ caller'[d].tokens = read
      BY <1>6, <3>1
    <3> QED
      BY <1>1, <1>4, <3>1, <3>2, <3>3 DEF Exact, Since, Admitted
  <2>3. ASSUME NEW j \in seen'
        PROVE  buckets'[j].last <= clock' /\ Exact(j, buckets[j].tokens, buckets[j].last)'
    <3>1. buckets[j].last <= clock /\ Exact(j, buckets[j].tokens, buckets[j].last)
      BY <1>1 DEF Locked
    <3> QED
      BY <1>1, <3>1 DEF Exact, Since, Admitted
  <2>4. \A j \in Keys \ seen' : \A t \in 0 .. MaxTime + 1 : admitted'[j][t] = 0
    BY <1>1 DEF Locked
  <2> QED
    BY <2>1, <2>2, <2>3, <2>4 DEF Locked
<1>10. WindowBounded'
  BY <1>1 DEF WindowBounded, Admitted
<1> QED
  BY <1>7, <1>9, <1>10 DEF IInv

(* The thread inside writes back a bucket that is exact after its call.    *)
LEMMA LeaveKeeps ==
  ASSUME IInv, NEW c \in Callers, NEW k \in Keys, NEW now \in Times, NEW tokens \in 0 .. Full,
         caller[c].inside, caller[c].key = k, caller[c].now = now,
         Leave(c, tokens), clock' = clock,
         admitted' \in [Keys -> [0 .. MaxTime + 1 -> Nat]],
         \A j \in Keys \ {k} : admitted'[j] = admitted[j],
         Exact(k, tokens, now)', WindowBounded'
  PROVE  IInv'
<1>1. Typed /\ Locked /\ now <= clock
  BY DEF IInv, Locked
<1>2. /\ buckets' = [buckets EXCEPT ![k] = [tokens |-> tokens, last |-> now]]
      /\ seen' = seen \cup {k}
      /\ caller' = [caller EXCEPT ![c] = Outside]
  BY DEF Leave
<1>3. Typed'
  <2>1. [tokens |-> tokens, last |-> now] \in Buckets
    BY DEF Buckets
  <2>2. buckets' \in [Keys -> Buckets] /\ seen' \subseteq Keys
    BY <1>1, <1>2, <2>1 DEF Typed
  <2>3. caller' \in [Callers -> Insiders \cup {Outside}]
    BY <1>1, <1>2 DEF Typed
  <2> QED
    BY <1>1, <2>2, <2>3 DEF Typed
<1>4. \A d \in Callers : ~caller'[d].inside
  <2>1. \A d \in Callers \ {c} : ~caller[d].inside
    BY <1>1 DEF Locked
  <2>2. \A d \in Callers : caller'[d] = IF d = c THEN Outside ELSE caller[d]
    BY <1>1, <1>2 DEF Typed
  <2> QED
    BY <2>1, <2>2 DEF Outside
<1>5. ASSUME NEW j \in seen'
      PROVE  buckets'[j].last <= clock' /\ Exact(j, buckets[j].tokens, buckets[j].last)'
  <2>1. CASE j = k
    <3>1. buckets'[j] = [tokens |-> tokens, last |-> now]
      BY <1>1, <1>2, <2>1 DEF Typed
    <3>2. buckets'[j].tokens = tokens /\ buckets'[j].last = now
      BY <3>1
    <3> QED
      BY <1>1, <2>1, <3>2 DEF Exact, Since, Admitted
  <2>2. CASE j # k
    <3>1. j \in seen /\ j \in Keys /\ buckets'[j] = buckets[j] /\ admitted'[j] = admitted[j]
      BY <1>1, <1>2, <2>2 DEF Typed
    <3>2. buckets[j].last <= clock /\ Exact(j, buckets[j].tokens, buckets[j].last)
      BY <1>1, <3>1 DEF Locked
    <3> QED
      BY <3>1, <3>2 DEF Exact, Since, Admitted
  <2> QED
    BY <2>1, <2>2
<1>6. \A j \in Keys \ seen' : \A t \in 0 .. MaxTime + 1 : admitted'[j][t] = 0
  BY <1>1, <1>2 DEF Locked
<1>7. Locked'
  BY <1>4, <1>5, <1>6 DEF Locked
<1> QED
  BY <1>3, <1>7 DEF IInv

(* Whoever is inside has read an exact bucket. *)
LEMMA InsideIsExact ==
  ASSUME IInv, NEW c \in Callers, caller[c].inside
  PROVE  \E k \in Keys, now \in Times, tokens \in 0 .. Full :
            /\ caller[c].key = k /\ caller[c].now = now /\ caller[c].tokens = tokens
            /\ Exact(k, tokens, now)
<1>1. Typed /\ Locked
  BY DEF IInv
<1>2. caller[c] \in Insiders
  BY <1>1 DEF Typed, Outside
<1> QED
  BY <1>1, <1>2 DEF Insiders, Locked

(* Every step keeps the buckets exact. *)
LEMMA StepsKeep == IInv /\ [Next]_vars => IInv'
<1> SUFFICES ASSUME IInv, [Next]_vars PROVE IInv'
  OBVIOUS
<1>1. Typed /\ Locked /\ WindowBounded /\ Full \in Nat /\ MaxTime \in Nat /\ Cost \in Nat
  BY FullIsNat, RateAssumption DEF IInv
<1>2. ASSUME NEW c \in Callers, NEW k \in Keys, Enter(c, k) PROVE IInv'
  BY <1>2, EnterKeeps
<1>3. ASSUME NEW c \in Callers, Allow(c) PROVE IInv'
  <2>1. caller[c].inside
    BY <1>3 DEF Allow
  <2>2. PICK k \in Keys, now \in Times, tokens \in 0 .. Full :
           /\ caller[c].key = k /\ caller[c].now = now /\ caller[c].tokens = tokens
           /\ Exact(k, tokens, now)
    BY <2>1, InsideIsExact
  <2>3. /\ tokens >= Cost /\ Leave(c, tokens - Cost) /\ clock' = clock
        /\ admitted' = [admitted EXCEPT ![k] =
                           [t \in DOMAIN @ |-> IF t > now THEN @[t] + 1 ELSE @[t]]]
    BY <1>3, <2>2 DEF Allow
  <2>4. /\ admitted' \in [Keys -> [0 .. MaxTime + 1 -> Nat]]
        /\ tokens - Cost \in 0 .. Full
        /\ Exact(k, tokens - Cost, now)'
        /\ WindowBounded'
        /\ \A j \in Keys \ {k} : admitted'[j] = admitted[j]
    BY <1>1, <2>2, <2>3, AllowIsExact
  <2>5. PICK left \in 0 .. Full : left = tokens - Cost
    BY <2>4
  <2>6. Leave(c, left) /\ Exact(k, left, now)'
    BY <2>3, <2>4, <2>5
  <2> QED
    BY <2>1, <2>2, <2>3, <2>4, <2>6, LeaveKeeps
<1>4. ASSUME NEW c \in Callers, Refuse(c) PROVE IInv'
  <2>1. caller[c].inside
    BY <1>4 DEF Refuse
  <2>2. PICK k \in Keys, now \in Times, tokens \in 0 .. Full :
           /\ caller[c].key = k /\ caller[c].now = now /\ caller[c].tokens = tokens
           /\ Exact(k, tokens, now)
    BY <2>1, InsideIsExact
  <2>3. Leave(c, tokens) /\ clock' = clock /\ admitted' = admitted
    BY <1>4, <2>2 DEF Refuse
  <2>4. Exact(k, tokens, now)' /\ WindowBounded'
    BY <1>1, <2>2, <2>3 DEF Exact, Since, Admitted, WindowBounded
  <2>5. admitted' \in [Keys -> [0 .. MaxTime + 1 -> Nat]]
    BY <1>1, <2>3 DEF Typed
  <2> QED
    BY <2>1, <2>2, <2>3, <2>4, <2>5, LeaveKeeps
<1>5. ASSUME Tick PROVE IInv'
  <2>1. clock \in 0 .. MaxTime /\ clock < MaxTime /\ clock' = clock + 1
        /\ UNCHANGED <<seen, buckets, caller, admitted>>
    BY <1>1, <1>5 DEF Tick, Typed, Times
  <2>2. clock' \in Times
    BY <1>1, <2>1 DEF Times
  <2>3. Typed'
    BY <1>1, <2>1, <2>2 DEF Typed
  <2>4. \A j, t, n : Exact(j, t, n)' <=> Exact(j, t, n)
    BY <2>1 DEF Exact, Since, Admitted
  <2>5. ASSUME NEW c \in Callers, caller'[c].inside
        PROVE  caller'[c].now <= clock' /\ Exact(caller[c].key, caller[c].tokens, caller[c].now)'
    <3>1. caller[c].inside
      BY <2>1, <2>5
    <3>2. PICK k \in Keys, now \in Times, tokens \in 0 .. Full :
             /\ caller[c].key = k /\ caller[c].now = now /\ caller[c].tokens = tokens
             /\ Exact(k, tokens, now)
      BY <3>1, InsideIsExact
    <3>3. now <= clock /\ now \in Int
      BY <1>1, <3>1, <3>2 DEF Locked, Times
    <3> QED
      BY <2>1, <3>2, <3>3 DEF Exact, Since, Admitted
  <2>6. ASSUME NEW j \in seen'
        PROVE  buckets'[j].last <= clock' /\ Exact(j, buckets[j].tokens, buckets[j].last)'
    <3>1. j \in seen /\ buckets[j] \in Buckets
      BY <1>1, <2>1, <2>6 DEF Typed
    <3>2. buckets[j].last <= clock /\ buckets[j].last \in Int
          /\ Exact(j, buckets[j].tokens, buckets[j].last)
      BY <1>1, <3>1 DEF Locked, Buckets, Times
    <3> QED
      BY <2>1, <3>2 DEF Exact, Since, Admitted
  <2>7. /\ \A c, d \in Callers : caller'[c].inside /\ caller'[d].inside => c = d
        /\ \A j \in Keys \ seen' : \A t \in 0 .. MaxTime + 1 : admitted'[j][t] = 0
    BY <1>1, <2>1 DEF Locked
  <2>8. Locked'
    BY <2>5, <2>6, <2>7 DEF Locked
  <2>9. WindowBounded'
    BY <1>1, <2>1 DEF WindowBounded, Admitted
  <2> QED
    BY <2>3, <2>8, <2>9 DEF IInv
<1>6. CASE UNCHANGED vars
  BY <1>6 DEF vars, IInv, Typed, Locked, Exact, Since, WindowBounded, Admitted
<1> QED
  BY <1>2, <1>3, <1>4, <1>5, <1>6 DEF Next

-----------------------------------------------------------------------------

(* For every capacity and rate, and any number of threads: no stretch of   *)
(* time admits more calls of a client than a full bucket and the refill.   *)
THEOREM WindowBoundedAlways == Spec => []WindowBounded
<1>1. Init => IInv
  BY StartsExact
<1>2. IInv /\ [Next]_vars => IInv'
  BY StepsKeep
<1>3. IInv => WindowBounded
  BY DEF IInv
<1> QED
  BY <1>1, <1>2, <1>3, PTL DEF Spec

(* A call is refused only when a stretch up to now has no room for it.     *)
THEOREM RefusesOnlyWhenFullAlways == Spec => RefusesOnlyWhenFull
<1> DEFINE Room(c) == \E from \in 0 .. caller[c].now :
                         (Admitted(caller[c].key, from, MaxTime) + 1) * Cost
                            > Full + Rate * (caller[c].now - from)
           Fair == \A c \in Callers : Refuse(c) => Room(c)
<1>1. ASSUME IInv, NEW c \in Callers, Refuse(c) PROVE Room(c)
  <2>1. caller[c].inside /\ caller[c].tokens < Cost
    BY <1>1 DEF Refuse
  <2>2. PICK k \in Keys, now \in Times, tokens \in 0 .. Full :
           /\ caller[c].key = k /\ caller[c].now = now /\ caller[c].tokens = tokens
           /\ Exact(k, tokens, now)
    BY <1>1, <2>1, InsideIsExact
  <2>3. PICK from \in 0 .. now : tokens + Since(k, from) * Cost = Full + Rate * (now - from)
    BY <2>2 DEF Exact
  <2>4. Since(k, from) \in Int
    <3>1. /\ admitted[k] \in [0 .. MaxTime + 1 -> Nat] /\ MaxTime \in Nat
          /\ from \in 0 .. MaxTime + 1 /\ MaxTime + 1 \in 0 .. MaxTime + 1
      BY <1>1, RateAssumption DEF IInv, Typed, Times
    <3> QED
      BY <3>1 DEF Since, Admitted
  <2>5. /\ (Since(k, from) + 1) * Cost = Since(k, from) * Cost + Cost
        /\ Since(k, from) * Cost \in Int /\ Cost \in Nat
    BY Zenon, <2>4, CostAdds
  <2>6. now - from \in Nat
    BY DEF Times
  <2>7. Rate * (now - from) \in Nat
    BY Zenon, <2>6, RateIsNat
  <2> DEFINE used == Since(k, from) * Cost
             oneMore == (Since(k, from) + 1) * Cost
             refilled == Rate * (now - from)
  <2>8. oneMore > Full + refilled
    <3>1. oneMore = used + Cost /\ used \in Int /\ refilled \in Nat
      BY Zenon, <2>5, <2>7
    <3>2. tokens + used = Full + refilled
      BY Zenon, <2>3
    <3> HIDE DEF used, oneMore, refilled
    <3> QED
      BY <2>1, <2>2, <2>5, <3>1, <3>2, FullIsNat
  <2>9. Admitted(k, from, MaxTime) = Since(k, from)
    BY DEF Since
  <2> QED
    BY <2>2, <2>8, <2>9
<1>2. IInv => Fair
  BY <1>1
<1>3. Init => IInv
  BY StartsExact
<1>4. IInv /\ [Next]_vars => IInv'
  BY StepsKeep
<1>5. IInv => [Fair]_vars
  BY <1>2
<1>6. Spec => [][Fair]_vars
  BY <1>3, <1>4, <1>5, PTL DEF Spec
<1> QED
  BY <1>6 DEF RefusesOnlyWhenFull
=============================================================================
