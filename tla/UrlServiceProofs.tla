--------------------------- MODULE UrlServiceProofs ---------------------------
(***************************************************************************)
(* What holds of the URL shortener for any number of requests, codes, keys *)
(* and days, and however many threads serve the requests at once: what it  *)
(* counts, what it caches, what a key is good for and what goes wrong only *)
(* between requests that overlap.                                          *)
(***************************************************************************)
EXTENDS UrlService, SequenceTheorems, FiniteSetTheorems, WellFoundedInduction, TLAPS

(* A set of numbers with 0 and the successor of each of its members holds  *)
(* every number: the least one that is missing has no predecessor.         *)
LEMMA EveryNumber ==
  ASSUME NEW P \in SUBSET Nat, 0 \in P, \A n \in P : n + 1 \in P
  PROVE  P = Nat
<1> DEFINE T == Nat \ P
           R == {ss \in Nat \X Nat : ss[1] < ss[2]}
<1> SUFFICES ASSUME T # {} PROVE FALSE
  OBVIOUS
<1>1. IsWellFoundedOn(R, Nat)
  BY NatLessThanWellFounded DEF OpToRel
<1>2. PICK n \in T : \A m \in T : <<m, n>> \notin R
  <2> HIDE DEF R
  <2> QED
    BY <1>1, WFMin
<1>3. \A m \in T : ~(m < n)
  BY <1>2
<1>4. n - 1 \in Nat /\ n - 1 < n /\ (n - 1) + 1 = n
  BY <1>2
<1>5. n - 1 \in P
  BY <1>3, <1>4
<1> QED
  BY <1>2, <1>4, <1>5

-----------------------------------------------------------------------------
(* The clicks of a URL *)

(* The recursion that adds up the clicks of a set of days. *)
Summed(days, sum) ==
    [s \in SUBSET Days |-> IF s = {} THEN 0
                           ELSE LET d == CHOOSE d \in s : TRUE IN days[d] + sum[s \ {d}]]
Sums(days) == CHOOSE sum : sum = Summed(days, sum)

(* Total is this recursion, over all days. *)
LEMMA TotalIsSum ==
  ASSUME NEW days, DOMAIN days = Days
  PROVE  Total(days) = Sums(days)[Days]
BY DEF Total, FoldFunction, FoldFunctionOnSet, MapThenFoldSet, Sums, Summed

(* There are finitely many days. *)
LEMMA FiniteDays == IsFiniteSet(Days) /\ Cardinality(Days) \in Nat
<1>1. 0 \in Int /\ MaxTime \in Int
  BY ServiceAssumption
<1>2. IsFiniteSet(Days)
  BY <1>1, FS_Interval DEF Days
<1> QED
  BY <1>2, FS_CardinalityType

(* A set of days without a member is empty. *)
LEMMA NoDays == ASSUME NEW s \in SUBSET Days, Cardinality(s) <= 0 PROVE s = {}
<1>1. IsFiniteSet(s) /\ Cardinality(s) \in Nat
  BY FiniteDays, FS_Subset, FS_CardinalityType
<1> QED
  BY <1>1, FS_EmptySet

(* Each step of the recursion leaves a day fewer. *)
LEMMA FewerDays ==
  ASSUME NEW s \in SUBSET Days, s # {}
  PROVE  LET d == CHOOSE d \in s : TRUE IN
         /\ d \in s /\ s \ {d} \in SUBSET Days
         /\ IsFiniteSet(s) /\ Cardinality(s) \in Nat
         /\ Cardinality(s \ {d}) \in Nat /\ Cardinality(s \ {d}) = Cardinality(s) - 1
<1>1. IsFiniteSet(s)
  BY FiniteDays, FS_Subset
<1>2. (CHOOSE d \in s : TRUE) \in s
  OBVIOUS
<1> QED
  BY <1>1, <1>2, FS_RemoveElement, FS_CardinalityType

(* The recursion is well defined: it can be followed for the sets of at    *)
(* most n days, whatever n is.                                             *)
LEMMA SumsExist ==
  ASSUME NEW days \in [Days -> Nat]
  PROVE  Sums(days) = Summed(days, Sums(days))
<1> DEFINE Follows(sum, n) ==
             \A s \in SUBSET Days : Cardinality(s) <= n => sum[s] = Summed(days, sum)[s]
           P == {n \in Nat : \E sum \in [SUBSET Days -> Nat] : Follows(sum, n)}
<1>1. 0 \in P
  <2> DEFINE none == [s \in SUBSET Days |-> 0]
  <2>1. \A s \in SUBSET Days : Cardinality(s) <= 0 => s = {}
    BY NoDays
  <2>2. none \in [SUBSET Days -> Nat] /\ Follows(none, 0)
    BY <2>1 DEF Summed
  <2> HIDE DEF none, Follows
  <2> QED
    BY <2>2
<1>2. ASSUME NEW n \in P PROVE n + 1 \in P
  <2>1. PICK sum \in [SUBSET Days -> Nat] : Follows(sum, n)
    OBVIOUS
  <2> DEFINE more == Summed(days, sum)
  <2>2. more \in [SUBSET Days -> Nat]
    BY <2>1, FewerDays DEF Summed
  <2>3. ASSUME NEW s \in SUBSET Days, Cardinality(s) <= n + 1
        PROVE  more[s] = Summed(days, more)[s]
    <3>1. CASE s = {}
      BY <3>1 DEF Summed
    <3>2. CASE s # {}
      <4> DEFINE d == CHOOSE d \in s : TRUE
      <4>1. s \ {d} \in SUBSET Days /\ Cardinality(s \ {d}) <= n
        BY <2>3, <3>2, FewerDays
      <4>2. sum[s \ {d}] = more[s \ {d}]
        BY <2>1, <4>1
      <4>3. more[s] = days[d] + sum[s \ {d}] /\ Summed(days, more)[s] = days[d] + more[s \ {d}]
        <5> HIDE DEF more
        <5>1. \A f : Summed(days, f)[s] = days[d] + f[s \ {d}]
          BY <3>2 DEF Summed
        <5> QED
          BY <5>1 DEF more
      <4> QED
        BY <4>2, <4>3
    <3> QED
      BY <3>1, <3>2
  <2> HIDE DEF more
  <2>4. Follows(more, n + 1)
    BY <2>3
  <2> HIDE DEF Follows
  <2> QED
    BY <2>2, <2>4
<1>3. P = Nat
  <2>1. P \in SUBSET Nat
    OBVIOUS
  <2> HIDE DEF P
  <2> QED
    BY <1>1, <1>2, <2>1, EveryNumber
<1>4. IsFiniteSet(Days) /\ Cardinality(Days) \in Nat
  BY FiniteDays
<1>5. PICK sum \in [SUBSET Days -> Nat] : Follows(sum, Cardinality(Days))
  BY <1>3, <1>4
<1>6. \A s \in SUBSET Days : Cardinality(s) <= Cardinality(Days)
  BY <1>4, FS_Subset
<1>7. \A s \in SUBSET Days : sum[s] = Summed(days, sum)[s]
  BY <1>5, <1>6
<1>8. sum = Summed(days, sum)
  BY <1>7 DEF Summed
<1> QED
  BY <1>8 DEF Sums

(* A statement about every set of days, from that about one day less.      *)
LEMMA EverySetOfDays ==
  ASSUME NEW Q \in SUBSET SUBSET Days, {} \in Q,
         \A s \in SUBSET Days : s # {} /\ s \ {CHOOSE d \in s : TRUE} \in Q => s \in Q
  PROVE  Days \in Q
<1> DEFINE P == {n \in Nat : \A s \in SUBSET Days : Cardinality(s) = n => s \in Q}
<1>1. 0 \in P
  BY NoDays
<1>2. ASSUME NEW n \in P PROVE n + 1 \in P
  <2>1. ASSUME NEW s \in SUBSET Days, Cardinality(s) = n + 1 PROVE s \in Q
    <3>1. s # {}
      BY <2>1, FS_EmptySet
    <3> QED
      BY <2>1, <3>1, FewerDays
  <2> QED
    BY <2>1
<1>3. P = Nat
  <2>1. P \in SUBSET Nat
    OBVIOUS
  <2> HIDE DEF P
  <2> QED
    BY <1>1, <1>2, <2>1, EveryNumber
<1> QED
  BY <1>3, FiniteDays

(* The sum of some days, by its recursion. *)
LEMMA SumOfDays ==
  ASSUME NEW days \in [Days -> Nat], NEW s \in SUBSET Days, s # {}
  PROVE  LET d == CHOOSE d \in s : TRUE IN
         Sums(days)[s] = days[d] + Sums(days)[s \ {d}]
<1>1. Sums(days)[s] = Summed(days, Sums(days))[s]
  BY SumsExist
<1> QED
  BY <1>1 DEF Summed

(* The sum of no days. *)
LEMMA SumOfNoDays ==
  ASSUME NEW days \in [Days -> Nat]
  PROVE  Sums(days)[{}] = 0
<1>1. Sums(days)[{}] = Summed(days, Sums(days))[{}]
  BY SumsExist
<1> QED
  BY <1>1 DEF Summed

(* Clicks add up to a number. *)
LEMMA TotalIsNumber ==
  ASSUME NEW days \in [Days -> Nat]
  PROVE  Total(days) \in Nat
<1> DEFINE Q == {s \in SUBSET Days : Sums(days)[s] \in Nat}
<1>1. {} \in Q
  BY SumOfNoDays
<1>2. ASSUME NEW s \in SUBSET Days, s # {}, s \ {CHOOSE d \in s : TRUE} \in Q PROVE s \in Q
  <2> DEFINE d == CHOOSE d \in s : TRUE
  <2>1. d \in Days /\ Sums(days)[s] = days[d] + Sums(days)[s \ {d}]
    BY <1>2, SumOfDays
  <2>2. Sums(days)[s \ {d}] \in Nat
    BY <1>2
  <2> QED
    BY <2>1, <2>2
<1>3. Days \in Q
  <2>1. Q \in SUBSET SUBSET Days
    OBVIOUS
  <2> HIDE DEF Q
  <2> QED
    BY <1>1, <1>2, <2>1, EverySetOfDays
<1> QED
  BY <1>3, TotalIsSum

(* A URL that is new has no clicks. *)
LEMMA TotalOfNoClicks == Total(NoClicks) = 0 /\ NoClicks \in [Days -> Nat]
<1> DEFINE Q == {s \in SUBSET Days : Sums(NoClicks)[s] = 0}
<1>1. NoClicks \in [Days -> Nat] /\ \A day \in Days : NoClicks[day] = 0
  BY DEF NoClicks
<1>2. {} \in Q
  BY <1>1, SumOfNoDays
<1>3. ASSUME NEW s \in SUBSET Days, s # {}, s \ {CHOOSE d \in s : TRUE} \in Q PROVE s \in Q
  BY <1>1, <1>3, SumOfDays, FewerDays
<1>4. Days \in Q
  <2>1. Q \in SUBSET SUBSET Days
    OBVIOUS
  <2> HIDE DEF Q
  <2> QED
    BY <1>2, <1>3, <2>1, EverySetOfDays
<1> QED
  BY <1>1, <1>4, TotalIsSum

(* A click adds one to the total of all days, whatever its day. *)
LEMMA ClickAddsOne ==
  ASSUME NEW days \in [Days -> Nat], NEW day \in Days
  PROVE  /\ CountedOn(days, day) \in [Days -> Nat]
         /\ Total(CountedOn(days, day)) = Total(days) + 1
<1> DEFINE more == CountedOn(days, day)
           One(s) == IF day \in s THEN 1 ELSE 0
           Q == {s \in SUBSET Days : /\ Sums(days)[s] \in Nat
                                     /\ Sums(more)[s] = Sums(days)[s] + One(s)}
<1>1. /\ more \in [Days -> Nat]
      /\ \A d \in Days : more[d] = days[d] + One({d})
  BY DEF CountedOn
<1> HIDE DEF more
<1>2. {} \in Q
  BY <1>1, SumOfNoDays
<1>3. ASSUME NEW s \in SUBSET Days, s # {}, s \ {CHOOSE d \in s : TRUE} \in Q PROVE s \in Q
  <2> DEFINE d == CHOOSE d \in s : TRUE
             rest == s \ {d}
  <2>1. d \in s /\ d \in Days /\ rest \in SUBSET Days
    BY <1>3
  <2>2. Sums(days)[s] = days[d] + Sums(days)[rest] /\ Sums(more)[s] = more[d] + Sums(more)[rest]
    BY <1>1, <1>3, SumOfDays
  <2>3. Sums(days)[rest] \in Nat /\ Sums(more)[rest] = Sums(days)[rest] + One(rest)
    BY <1>3
  <2>4. One(s) = One({d}) + One(rest) /\ days[d] \in Nat /\ more[d] = days[d] + One({d})
    <3> HIDE DEF d
    <3> QED
      BY <1>1, <2>1
  <2>5. Sums(days)[s] \in Nat /\ Sums(more)[s] = Sums(days)[s] + One(s)
    <3>1. One({d}) \in Nat /\ One(rest) \in Nat
      OBVIOUS
    <3> HIDE DEF One, d, rest
    <3> QED
      BY <2>2, <2>3, <2>4, <3>1
  <2> QED
    BY <2>5
<1>4. Days \in Q
  <2>1. Q \in SUBSET SUBSET Days
    OBVIOUS
  <2> HIDE DEF Q
  <2> QED
    BY <1>2, <1>3, <2>1, EverySetOfDays
<1>5. more \in [Days -> Nat] /\ Total(more) = Total(days) + 1
  BY <1>1, <1>4, TotalIsSum
<1> QED
  BY <1>5 DEF more

-----------------------------------------------------------------------------
(* What holds however the requests interleave *)

Links == Rows \cup Entries \cup {None}
Places == {"new", "replay", "limit", "screen", "generate", "insert", "remember", "lookup",
           "read", "fill", "click", "check", "report", "delete", "analytics", "evict",
           "metadata", "answered"}
Answers == {"none", "replayed", "limited", "refused", "exhausted", "created", "error",
            "missing", "flagged", "gone", "redirected", "forbidden", "reported",
            "deleted", "analytics", "metadata"}
RequestStates ==
    [op : Operations \cup {"none"},
     pc : Places,
     code : Codes \cup {None}, key : Keys \cup {None},
     token : Requests \cup {None, NonAscii},
     now : Days, tries : 0 .. MaxCodeTries - 1, link : Links, barred : BOOLEAN,
     after : SUBSET Requests, answer : Answers]

AtCreation == {"replay", "limit", "screen", "generate", "insert", "remember"}
BeforeCode == {"new", "replay", "limit", "screen", "generate", "answered"}
WithRow == {"fill", "report", "delete", "analytics"}

(* What the locals of a request hold where it is. *)
Locals(r) ==
    /\ req[r] \in RequestStates
    /\ req[r].pc \notin BeforeCode => req[r].code \in Codes
    /\ req[r].pc \in AtCreation => req[r].op = "create"
    /\ req[r].pc \in {"replay", "remember"} => req[r].key \in Keys \ {None}
    /\ req[r].pc = "lookup" => req[r].op = "redirect"
    /\ req[r].pc = "check" => req[r].op \in {"report", "delete", "analytics"}
    /\ req[r].pc = "evict" => req[r].op \in {"redirect", "report", "delete"}
    /\ req[r].pc \in {"report", "delete"} => req[r].op = req[r].pc
    /\ req[r].pc \in WithRow => req[r].link \in Rows
    /\ req[r].pc = "click" => req[r].link \in Entries
    /\ req[r].pc = "new" => req[r] = NotYet
    /\ req[r].pc # "answered" => req[r].answer = "none"
    /\ req[r].barred => req[r].op = "redirect"

(* The cache is a dictionary: it has one entry for a code. *)
OneEntryEach(entries) ==
    \A m, n \in 1 .. Len(entries) : entries[m].code = entries[n].code => m = n

Stores ==
    /\ urls \in [Codes -> Rows \cup {None}]
    /\ clicks \in [Codes -> [Days -> Nat]]
    /\ cache \in Seq(Entries)
    /\ Len(cache) <= CacheSize
    /\ OneEntryEach(cache)
    /\ idem \in [Keys \ {None} -> Memories \cup {None}]
    /\ tokens \in 0 .. Capacity
    /\ clock \in Days

(* A request inserts its URL once. *)
Inserted(r) == req[r].op = "create" /\ req[r].pc \in {"remember", "answered"}
OwnersInserted ==
    /\ \A c \in Codes : urls[c] # None => Inserted(urls[c].owner)
    /\ \A r \in Requests : req[r].pc \in WithRow => Inserted(req[r].link.owner)

(* A URL that is still there has every click an analytics request has seen. *)
CountsGrow ==
    \A r \in Requests : At(r, "analytics") =>
        LET row == urls[req[r].code] IN
        row # None /\ row.owner = req[r].link.owner => row.count >= req[r].link.count

Typed == Stores /\ req \in [Requests -> RequestStates] /\ \A r \in Requests : Locals(r)
Counted == Typed /\ ClicksAgree /\ FlaggedAtThreshold
Owned == Counted /\ OwnersInserted /\ CountsGrow

-----------------------------------------------------------------------------
(* The cache *)

(* What is left of a sequence when one of its members is taken out. *)
LEMMA Removed ==
  ASSUME NEW S, NEW q \in Seq(S), NEW n \in 1 .. Len(q)
  PROVE  /\ RemoveAt(q, n) \in Seq(S) /\ Len(RemoveAt(q, n)) = Len(q) - 1
         /\ \A i \in 1 .. Len(q) - 1 : RemoveAt(q, n)[i] = IF i < n THEN q[i] ELSE q[i + 1]
<1> DEFINE before == SubSeq(q, 1, n - 1)
           after == SubSeq(q, n + 1, Len(q))
<1>1. Len(q) \in Nat /\ \A i \in 1 .. Len(q) : q[i] \in S
  BY ElementOfSeq
<1>2. /\ before \in Seq(S) /\ Len(before) = n - 1
      /\ \A i \in 1 .. n - 1 : before[i] = q[i]
  <2> DEFINE m == n - 1
  <2>1. m \in Nat /\ \A i \in 1 .. m : q[i] \in S
    BY <1>1
  <2> HIDE DEF m
  <2>2. /\ SubSeq(q, 1, m) \in Seq(S)
        /\ Len(SubSeq(q, 1, m)) = IF 1 <= m THEN m - 1 + 1 ELSE 0
        /\ \A i \in 1 .. m - 1 + 1 : SubSeq(q, 1, m)[i] = q[1 + i - 1]
    BY <2>1, SubSeqProperties
  <2>3. /\ SubSeq(q, 1, m) \in Seq(S) /\ Len(SubSeq(q, 1, m)) = m
        /\ \A i \in 1 .. m : SubSeq(q, 1, m)[i] = q[i]
    BY <2>1, <2>2
  <2> QED
    BY <2>3 DEF m
<1>3. /\ after \in Seq(S) /\ Len(after) = Len(q) - n
      /\ \A i \in 1 .. Len(q) - n : after[i] = q[n + i]
  <2> DEFINE m == n + 1
             l == Len(q)
  <2>1. m \in Int /\ l \in Int /\ 1 <= m /\ \A i \in m .. l : q[i] \in S
    BY <1>1
  <2>4. l \in Nat /\ m \in 2 .. l + 1
    BY <1>1
  <2> HIDE DEF m, l
  <2>2. /\ SubSeq(q, m, l) \in Seq(S)
        /\ Len(SubSeq(q, m, l)) = IF m <= l THEN l - m + 1 ELSE 0
        /\ \A i \in 1 .. l - m + 1 : SubSeq(q, m, l)[i] = q[m + i - 1]
    BY <2>1, SubSeqProperties
  <2>3. /\ SubSeq(q, m, l) \in Seq(S) /\ Len(SubSeq(q, m, l)) = l - m + 1
        /\ \A i \in 1 .. l - m + 1 : SubSeq(q, m, l)[i] = q[m + i - 1]
    BY <2>2, <2>4
  <2> QED
    BY <1>1, <2>3 DEF m, l
<1>4. /\ before \o after \in Seq(S) /\ Len(before \o after) = Len(before) + Len(after)
      /\ \A i \in 1 .. Len(before) + Len(after) :
            (before \o after)[i] = IF i <= Len(before) THEN before[i] ELSE after[i - Len(before)]
  <2> HIDE DEF before, after
  <2> QED
    BY <1>2, <1>3, ConcatProperties
<1>5. RemoveAt(q, n) = before \o after
  BY DEF RemoveAt
<1> HIDE DEF before, after
<1>6. RemoveAt(q, n) \in Seq(S) /\ Len(RemoveAt(q, n)) = Len(q) - 1
  <2>1. Len(before) + Len(after) = Len(q) - 1
    BY <1>1, <1>2, <1>3
  <2>2. before \o after \in Seq(S) /\ Len(before \o after) = Len(q) - 1
    BY <1>4, <2>1
  <2> QED
    BY <1>5, <2>2, Zenon
<1>7. ASSUME NEW i \in 1 .. Len(q) - 1
      PROVE  RemoveAt(q, n)[i] = IF i < n THEN q[i] ELSE q[i + 1]
  <2>1. i \in 1 .. Len(before) + Len(after) /\ (i <= Len(before) <=> i < n)
    BY <1>1, <1>2, <1>3
  <2>2. CASE i < n
    BY <1>2, <1>4, <1>5, <2>1, <2>2
  <2>3. CASE ~(i < n)
    <3>1. i - Len(before) \in 1 .. Len(q) - n /\ n + (i - Len(before)) = i + 1
      BY <1>1, <1>2, <2>3
    <3> QED
      BY <1>3, <1>4, <1>5, <2>1, <2>3, <3>1
  <2> QED
    BY <2>2, <2>3
<1> QED
  BY <1>6, <1>7

(* Without its entry for a code, the cache has the others, once each. *)
LEMMA DroppedFromCache ==
  ASSUME Stores, NEW c \in Codes
  PROVE  /\ Dropped(c) \in Seq(Entries) /\ OneEntryEach(Dropped(c))
         /\ \A i \in 1 .. Len(Dropped(c)) :
              /\ Dropped(c)[i].code # c
              /\ \E j \in 1 .. Len(cache) : Dropped(c)[i] = cache[j]
         /\ Len(Dropped(c)) <= Len(cache)
         /\ CachedAt(c) # {} => /\ Len(Dropped(c)) = Len(cache) - 1
                                /\ Cached(c) \in Entries /\ Cached(c).code = c
                                /\ \E j \in 1 .. Len(cache) : Cached(c) = cache[j]
<1>1. /\ cache \in Seq(Entries) /\ OneEntryEach(cache) /\ Len(cache) \in Nat
      /\ \A n \in 1 .. Len(cache) : cache[n] \in Entries
  BY ElementOfSeq DEF Stores
<1>2. CASE CachedAt(c) = {}
  <2>1. Dropped(c) = cache /\ \A n \in 1 .. Len(cache) : cache[n].code # c
    BY <1>2 DEF Dropped, CachedAt
  <2> QED
    BY <1>1, <1>2, <2>1
<1>3. CASE CachedAt(c) # {}
  <2> DEFINE n == Place(c)
             rest == RemoveAt(cache, n)
  <2>1. n \in 1 .. Len(cache) /\ cache[n].code = c /\ Cached(c) = cache[n] /\ Dropped(c) = rest
    BY <1>3 DEF Place, CachedAt, Cached, Dropped
  <2> HIDE DEF n
  <2>2. /\ rest \in Seq(Entries) /\ Len(rest) = Len(cache) - 1
        /\ \A i \in 1 .. Len(cache) - 1 : rest[i] = IF i < n THEN cache[i] ELSE cache[i + 1]
    BY <1>1, <2>1, Removed
  <2> HIDE DEF rest
  <2>3. ASSUME NEW i \in 1 .. Len(rest)
        PROVE  /\ rest[i].code # c
               /\ \E j \in 1 .. Len(cache) : rest[i] = cache[j]
    <3> DEFINE j == IF i < n THEN i ELSE i + 1
    <3>1. j \in 1 .. Len(cache) /\ j # n /\ rest[i] = cache[j]
      BY <1>1, <2>1, <2>2
    <3> HIDE DEF j
    <3> QED
      BY <1>1, <2>1, <3>1 DEF OneEntryEach
  <2>4. OneEntryEach(rest)
    <3> SUFFICES ASSUME NEW i \in 1 .. Len(rest), NEW k \in 1 .. Len(rest),
                        rest[i].code = rest[k].code
                 PROVE  i = k
      BY DEF OneEntryEach
    <3> DEFINE at(m) == IF m < n THEN m ELSE m + 1
    <3>1. /\ at(i) \in 1 .. Len(cache) /\ rest[i] = cache[at(i)]
          /\ at(k) \in 1 .. Len(cache) /\ rest[k] = cache[at(k)]
      BY <1>1, <2>1, <2>2
    <3>2. at(i) = at(k)
      <4> HIDE DEF at
      <4> QED
        BY <1>1, <3>1 DEF OneEntryEach
    <3> QED
      BY <1>1, <2>1, <2>2, <3>2
  <2> QED
    BY <1>1, <2>1, <2>2, <2>3, <2>4
<1> QED
  BY <1>2, <1>3

(* An entry that comes last replaces the one its code had. *)
LEMMA PutInCache ==
  ASSUME Stores, NEW e \in Entries
  PROVE  LET longer == Append(Dropped(e.code), e) IN
         /\ longer \in Seq(Entries) /\ OneEntryEach(longer)
         /\ \A i \in 1 .. Len(longer) :
              \/ longer[i] = e
              \/ /\ longer[i].code # e.code
                 /\ \E j \in 1 .. Len(cache) : longer[i] = cache[j]
         /\ Len(longer) <= CacheSize + 1 /\ Len(longer) \in Nat \ {0}
         /\ CachedAt(e.code) # {} => Len(longer) = Len(cache)
<1> DEFINE rest == Dropped(e.code)
           longer == Append(rest, e)
<1>1. e.code \in Codes /\ Len(cache) \in Nat /\ Len(cache) <= CacheSize /\ CacheSize \in Nat
  BY ServiceAssumption DEF Entries, Stores
<1>2. /\ rest \in Seq(Entries) /\ OneEntryEach(rest)
      /\ \A i \in 1 .. Len(rest) : /\ rest[i].code # e.code
                                   /\ \E j \in 1 .. Len(cache) : rest[i] = cache[j]
      /\ Len(rest) <= Len(cache)
      /\ CachedAt(e.code) # {} => Len(rest) = Len(cache) - 1
  BY <1>1, DroppedFromCache
<1> HIDE DEF rest
<1>3. /\ longer \in Seq(Entries) /\ Len(longer) = Len(rest) + 1 /\ Len(rest) \in Nat
      /\ \A i \in 1 .. Len(rest) : longer[i] = rest[i]
      /\ longer[Len(rest) + 1] = e
  BY <1>2
<1> HIDE DEF longer
<1>4. OneEntryEach(longer)
  <2> SUFFICES ASSUME NEW i \in 1 .. Len(longer), NEW k \in 1 .. Len(longer),
                      longer[i].code = longer[k].code
               PROVE  i = k
    BY DEF OneEntryEach
  <2>1. /\ i = Len(longer) \/ i \in 1 .. Len(rest)
        /\ k = Len(longer) \/ k \in 1 .. Len(rest)
    BY <1>3
  <2> QED
    BY <1>2, <1>3, <2>1 DEF OneEntryEach
<1>5. \A i \in 1 .. Len(longer) : \/ longer[i] = e
                                  \/ /\ longer[i].code # e.code
                                     /\ \E j \in 1 .. Len(cache) : longer[i] = cache[j]
  <2> TAKE i \in 1 .. Len(longer)
  <2>1. i = Len(longer) \/ i \in 1 .. Len(rest)
    BY <1>3
  <2> QED
    BY <1>2, <1>3, <2>1
<1> QED
  BY <1>1, <1>2, <1>3, <1>4, <1>5 DEF rest, longer

(* The oldest entry goes when there is no room for another. *)
LEMMA StoredInCache ==
  ASSUME Stores, NEW e \in Entries
  PROVE  /\ Stored(e) \in Seq(Entries) /\ OneEntryEach(Stored(e))
         /\ \A i \in 1 .. Len(Stored(e)) :
              \/ Stored(e)[i] = e
              \/ \E j \in 1 .. Len(cache) : Stored(e)[i] = cache[j]
         /\ Len(Stored(e)) <= CacheSize
<1> DEFINE longer == Append(Dropped(e.code), e)
<1>1. /\ longer \in Seq(Entries) /\ OneEntryEach(longer)
      /\ \A i \in 1 .. Len(longer) : longer[i] = e \/ \E j \in 1 .. Len(cache) : longer[i] = cache[j]
      /\ Len(longer) <= CacheSize + 1 /\ Len(longer) \in Nat \ {0} /\ CacheSize \in Nat
  <2>1. CacheSize \in Nat
    BY ServiceAssumption
  <2>2. /\ longer \in Seq(Entries) /\ OneEntryEach(longer)
        /\ Len(longer) <= CacheSize + 1 /\ Len(longer) \in Nat \ {0}
    BY PutInCache
  <2>3. ASSUME NEW i \in 1 .. Len(longer)
        PROVE  longer[i] = e \/ \E j \in 1 .. Len(cache) : longer[i] = cache[j]
    BY <2>3, PutInCache
  <2> HIDE DEF longer
  <2> QED
    BY <2>1, <2>2, <2>3
<1>2. Stored(e) = IF Len(longer) > CacheSize THEN Tail(longer) ELSE longer
  BY DEF Stored
<1> HIDE DEF longer
<1>3. longer # <<>>
  BY <1>1, EmptySeq
<1>4. /\ Tail(longer) \in Seq(Entries) /\ Len(Tail(longer)) = Len(longer) - 1
      /\ \A i \in 1 .. Len(Tail(longer)) : Tail(longer)[i] = longer[i + 1]
  BY <1>1, <1>3, HeadTailProperties
<1>5. CASE Len(longer) > CacheSize
  <2>1. \A i \in 1 .. Len(Tail(longer)) : i + 1 \in 1 .. Len(longer)
    BY <1>1, <1>4
  <2>2. OneEntryEach(Tail(longer))
    <3> SUFFICES ASSUME NEW i \in 1 .. Len(Tail(longer)), NEW k \in 1 .. Len(Tail(longer)),
                        Tail(longer)[i].code = Tail(longer)[k].code
                 PROVE  i = k
      BY DEF OneEntryEach
    <3>1. i + 1 = k + 1
      BY <1>1, <1>4, <2>1 DEF OneEntryEach
    <3> QED
      BY <3>1
  <2>3. Stored(e) = Tail(longer) /\ Len(Tail(longer)) <= CacheSize
    BY <1>1, <1>2, <1>4, <1>5
  <2> QED
    BY <1>1, <1>4, <2>1, <2>2, <2>3
<1>6. CASE ~(Len(longer) > CacheSize)
  BY <1>1, <1>2, <1>6
<1> QED
  BY <1>5, <1>6

-----------------------------------------------------------------------------
(* The locals of the requests *)

(* Only r moves. *)
OnlyMoves(r) ==
    /\ req' \in [Requests -> RequestStates]
    /\ \A q \in Requests \ {r} : req'[q] = req[q]

(* What answering a request changes. *)
LEMMA Replied ==
  ASSUME Typed, NEW r \in Requests, NEW answer \in Answers, Reply(r, answer)
  PROVE  /\ OnlyMoves(r)
         /\ req'[r].pc = "answered" /\ req'[r].answer = answer
         /\ req'[r].op = req[r].op /\ req'[r].code = req[r].code
         /\ req'[r].key = req[r].key /\ req'[r].barred = req[r].barred
         /\ req'[r].after = req[r].after
         /\ req'[r].now = IF answer = "created" THEN clock ELSE 0
         /\ Locals(r)'
<1>1. req \in [Requests -> RequestStates] /\ req[r] \in RequestStates /\ Locals(r)
  BY DEF Typed
<1> DEFINE time == IF answer = "created" THEN clock ELSE 0
           new == [req[r] EXCEPT !.pc = "answered", !.answer = answer,
                                 !.now = time, !.tries = 0, !.link = None]
<1>2. req' = [req EXCEPT ![r] = new]
  BY DEF Reply
<1>3. /\ new \in RequestStates
      /\ new.pc = "answered" /\ new.answer = answer /\ new.op = req[r].op /\ new.now = time
      /\ new.code = req[r].code /\ new.key = req[r].key /\ new.barred = req[r].barred
      /\ new.after = req[r].after
  <2>1. 0 \in Days /\ 0 \in 0 .. MaxCodeTries - 1 /\ None \in Links /\ "answered" \in Places
    BY ServiceAssumption DEF Days, Links, Places
  <2>2. time \in Days
    BY <2>1 DEF Typed, Stores
  <2> HIDE DEF time
  <2> QED
    BY <1>1, <2>1, <2>2 DEF RequestStates
<1> HIDE DEF new
<1>4. req' \in [Requests -> RequestStates] /\ req'[r] = new
      /\ \A q \in Requests \ {r} : req'[q] = req[q]
  BY <1>1, <1>2, <1>3
<1> QED
  BY <1>1, <1>3, <1>4 DEF OnlyMoves, Locals, BeforeCode, AtCreation, WithRow

(* What moving a request on changes. *)
LEMMA Went ==
  ASSUME Typed, NEW r \in Requests, NEW place \in Places, Goto(r, place)
  PROVE  /\ OnlyMoves(r)
         /\ req'[r] = [req[r] EXCEPT !.pc = place]
         /\ req'[r] \in RequestStates /\ req[r] \in RequestStates
<1>1. req \in [Requests -> RequestStates] /\ req[r] \in RequestStates
  BY DEF Typed
<1>2. [req[r] EXCEPT !.pc = place] \in RequestStates
  BY <1>1 DEF RequestStates
<1> QED
  BY <1>1, <1>2 DEF Goto, OnlyMoves

(* A request that comes in has the arguments of its operation. *)
Bars(r, c) == /\ urls[c] # None /\ urls[c].flagged
              /\ \A q \in Active : req[q].code = c => req[q].op # "report"
Arrived(r) ==
    /\ req'[r].answer = "none" /\ req'[r].after = {q \in Requests : At(q, "answered")}
    /\ \/ /\ req'[r].pc \in {"limit", "replay"} /\ ~req'[r].barred
          /\ req'[r].key # None => req'[r].pc = "replay"
       \/ /\ req'[r].pc = "lookup" /\ req'[r].key = None
          /\ req'[r].barred => Bars(r, req'[r].code)
       \/ /\ req'[r].pc \in {"check", "metadata"} /\ ~req'[r].barred /\ req'[r].key = None
          /\ req'[r].pc = "metadata" => req'[r].op = "metadata"

(* What the arrival of a request changes. *)
LEMMA Started ==
  ASSUME Typed, NEW r \in Requests, Arrive(r)
  PROVE  /\ At(r, "new") /\ OnlyMoves(r) /\ Cardinality(Active) < MaxConcurrent
         /\ UNCHANGED <<urls, clicks, cache, idem, tokens, clock>>
         /\ Arrived(r) /\ Locals(r)'
<1>1. /\ req \in [Requests -> RequestStates] /\ clock \in Days
      /\ urls \in [Codes -> Rows \cup {None}]
  BY DEF Typed, Stores
<1>2. NotYet \in RequestStates
  <2>1. 0 \in Days /\ 0 \in 0 .. MaxCodeTries - 1 /\ None \in Links
    BY ServiceAssumption DEF Days, Links
  <2> QED
    BY <2>1 DEF RequestStates, NotYet, Places, Answers
<1> DEFINE past == {q \in Requests : At(q, "answered")}
           New(args, op, place) ==
             [args EXCEPT !.op = op, !.pc = place, !.now = clock, !.after = past]
<1>3. ASSUME NEW args \in RequestStates, NEW op, NEW place \in Places, Start(r, op, place, args)
      PROVE  /\ At(r, "new") /\ OnlyMoves(r) /\ Cardinality(Active) < MaxConcurrent
             /\ UNCHANGED <<urls, clicks, cache, idem, tokens, clock>>
             /\ req'[r] = New(args, op, place) /\ req'[r] \in RequestStates
  <2>1. New(args, op, place) \in RequestStates
    <3>1. past \in SUBSET Requests /\ op \in Operations
      BY <1>3 DEF Start
    <3> HIDE DEF past
    <3> QED
      BY <1>1, <1>3, <3>1 DEF RequestStates
  <2> HIDE DEF New
  <2>2. req' = [req EXCEPT ![r] = New(args, op, place)]
    BY <1>3 DEF Start, New
  <2> QED
    BY <1>1, <1>3, <2>1, <2>2 DEF Start, OnlyMoves
<1> DEFINE Goal == /\ At(r, "new") /\ OnlyMoves(r) /\ Cardinality(Active) < MaxConcurrent
                   /\ UNCHANGED <<urls, clicks, cache, idem, tokens, clock>>
                   /\ Arrived(r) /\ Locals(r)'
<1>4. ASSUME NEW key \in Keys, Create(r, key) PROVE Goal
  <2> DEFINE args == [NotYet EXCEPT !.key = key]
             place == IF key = None THEN "limit" ELSE "replay"
  <2>1. args \in RequestStates /\ place \in Places
    BY <1>2 DEF RequestStates, Places
  <2>2. Start(r, "create", place, args)
    BY <1>4 DEF Create
  <2> HIDE DEF args, place
  <2>3. /\ At(r, "new") /\ OnlyMoves(r) /\ Cardinality(Active) < MaxConcurrent
        /\ UNCHANGED <<urls, clicks, cache, idem, tokens, clock>>
        /\ req'[r] = New(args, "create", place) /\ req'[r] \in RequestStates
    BY <1>3, <2>1, <2>2
  <2> USE DEF args, place
  <2>4. /\ req'[r].pc = place /\ req'[r].op = "create" /\ req'[r].key = key
        /\ req'[r].answer = "none" /\ ~req'[r].barred /\ req'[r].after = past
    BY <2>3 DEF NotYet
  <2> QED
    BY <2>3, <2>4 DEF Arrived, Locals, BeforeCode, AtCreation, WithRow
<1>5. ASSUME NEW c \in Codes, Redirect(r, c) PROVE Goal
  <2> DEFINE barred == /\ urls[c] # None /\ urls[c].flagged
                       /\ \A q \in Active : req[q].code = c => req[q].op # "report"
             args == [NotYet EXCEPT !.code = c, !.barred = barred]
  <2>1. barred \in BOOLEAN
    OBVIOUS
  <2>2. Start(r, "redirect", "lookup", args)
    BY <1>5 DEF Redirect
  <2>3. barred => Bars(r, c)
    BY DEF Bars
  <2> HIDE DEF barred
  <2>4. args \in RequestStates /\ "lookup" \in Places
    BY <1>2, <2>1 DEF RequestStates, Places
  <2>5. /\ At(r, "new") /\ OnlyMoves(r) /\ Cardinality(Active) < MaxConcurrent
        /\ UNCHANGED <<urls, clicks, cache, idem, tokens, clock>>
        /\ req'[r] = New(args, "redirect", "lookup") /\ req'[r] \in RequestStates
    BY <1>3, <2>2, <2>4
  <2>6. /\ req'[r].pc = "lookup" /\ req'[r].op = "redirect" /\ req'[r].code = c
        /\ req'[r].key = None /\ req'[r].answer = "none"
        /\ req'[r].barred = barred /\ req'[r].after = past
    BY <2>5 DEF NotYet
  <2> QED
    BY <2>3, <2>5, <2>6 DEF Arrived, Locals, BeforeCode, AtCreation, WithRow
<1>6. ASSUME NEW c \in Codes, NEW token \in OwnerTokens, NEW op, NEW place \in {"check", "metadata"},
             place = "check" => op \in {"report", "delete", "analytics"},
             place = "metadata" => op = "metadata",
             Start(r, op, place, [NotYet EXCEPT !.code = c, !.token = token])
             \/ Start(r, op, place, [NotYet EXCEPT !.code = c])
      PROVE  Goal
  <2> DEFINE owned == [NotYet EXCEPT !.code = c, !.token = token]
             public == [NotYet EXCEPT !.code = c]
  <2>1. owned \in RequestStates /\ public \in RequestStates /\ place \in Places
    BY <1>2, ZenonT(40) DEF RequestStates, Places, OwnerTokens
  <2>2. PICK args \in {owned, public} : Start(r, op, place, args)
    BY <1>6
  <2>3. /\ At(r, "new") /\ OnlyMoves(r) /\ Cardinality(Active) < MaxConcurrent
        /\ UNCHANGED <<urls, clicks, cache, idem, tokens, clock>>
        /\ req'[r] = New(args, op, place) /\ req'[r] \in RequestStates
    BY <1>3, <2>1, <2>2
  <2>4. /\ args.code = c /\ args.key = None /\ args.answer = "none"
        /\ args.barred = FALSE
    BY DEF NotYet
  <2>5. /\ req'[r].pc = place /\ req'[r].op = op /\ req'[r].code = c /\ req'[r].key = None
        /\ req'[r].answer = "none" /\ ~req'[r].barred /\ req'[r].after = past
    BY <2>1, <2>3, <2>4 DEF RequestStates
  <2> QED
    BY <1>6, <2>3, <2>5 DEF Arrived, Locals, BeforeCode, AtCreation, WithRow
<1>7. None \in OwnerTokens
  BY DEF OwnerTokens
<1> HIDE DEF Goal
<1>8. ASSUME NEW c \in Codes, NEW token \in OwnerTokens,
             Report(r, c) \/ Delete(r, c, token) \/ Analytics(r, c) \/ Metadata(r, c)
      PROVE  Goal
  BY <1>6, <1>8 DEF Report, Delete, Analytics, Metadata
<1>9. Goal
  BY <1>4, <1>5, <1>7, <1>8 DEF Arrive
<1> QED
  BY <1>9 DEF Goal

(* To keep the types, a step that moves one request has that one to care for. *)
LEMMA TypedFrom ==
  ASSUME Typed, NEW r \in Requests, OnlyMoves(r), Locals(r)', Stores'
  PROVE  Typed'
<1>1. ASSUME NEW q \in Requests, q # r PROVE Locals(q)'
  BY <1>1 DEF Typed, OnlyMoves, Locals
<1> QED
  BY <1>1 DEF Typed, OnlyMoves

(* Stores that nobody writes stay well typed. *)
LEMMA StoresStay == Stores /\ UNCHANGED <<urls, clicks, cache, idem, tokens, clock>> => Stores'
BY DEF Stores

(* An expiry is a time to come, or never. *)
LEMMA ExpiryTyped ==
  ASSUME NEW now \in Days, NEW expiry \in Expiries(now)
  PROVE  expiry[1] \in 1 .. Never /\ expiry[2] \in BOOLEAN
<1>1. MaxTime \in Nat /\ now \in Nat
  BY ServiceAssumption DEF Days
<1>2. expiry \in (now + 1 .. Never) \X BOOLEAN
  BY DEF Expiries
<1> QED
  BY <1>1, <1>2 DEF Never

(* The steps of a creation keep the types. *)
LEMMA CreateKeepsTyped ==
  ASSUME Typed, NEW r \in Requests,
         \/ Replay(r) \/ Limit(r) \/ Screen(r) \/ Insert(r) \/ Remember(r)
         \/ \E c \in Codes : Generate(r, c)
  PROVE  Typed' /\ OnlyMoves(r)
<1>1. Stores /\ Locals(r) /\ req \in [Requests -> RequestStates] /\ req[r] \in RequestStates
  BY DEF Typed
<1> USE DEF At
<1>2. CASE Replay(r)
  <2> DEFINE entry == Kept[req[r].key]
  <2>1. /\ idem' = Kept /\ req[r].pc = "replay" /\ req[r].key \in Keys \ {None}
        /\ UNCHANGED <<urls, clicks, cache, tokens, clock>>
    BY <1>1, <1>2 DEF Replay, Locals
  <2>2. Kept \in [Keys \ {None} -> Memories \cup {None}]
    BY <1>1 DEF Kept, Stores
  <2>3. Stores'
    BY <1>1, <2>1, <2>2 DEF Stores
  <2>4. CASE entry = None
    <3>1. Goto(r, "limit") /\ "limit" \in Places
      BY <1>2, <2>4 DEF Replay, Places
    <3>2. OnlyMoves(r) /\ req'[r] = [req[r] EXCEPT !.pc = "limit"] /\ req'[r] \in RequestStates
      BY <3>1, Went
    <3>3. Locals(r)'
      BY <1>1, <2>1, <3>2 DEF Locals, RequestStates, BeforeCode, AtCreation, WithRow
    <3> QED
      BY <2>3, <3>2, <3>3, TypedFrom
  <2>5. CASE entry # None
    <3> DEFINE new == [req[r] EXCEPT !.pc = "answered", !.answer = "replayed", !.code = entry.code]
    <3>1. entry \in Memories
      BY <2>1, <2>2, <2>5
    <3>2. req' = [req EXCEPT ![r].pc = "answered", ![r].answer = "replayed",
                             ![r].code = entry.code]
      BY <1>2, <2>5 DEF Replay
    <3> HIDE DEF entry
    <3>3. req' = [req EXCEPT ![r] = new]
      BY <1>1, <3>2 DEF RequestStates
    <3>4. /\ new \in RequestStates /\ new.pc = "answered"
          /\ new.op = req[r].op /\ new.barred = req[r].barred
      <4>1. entry.code \in Codes
        BY <3>1 DEF Memories
      <4> QED
        BY <1>1, <4>1 DEF RequestStates, Places, Answers
    <3> HIDE DEF new
    <3>5. OnlyMoves(r) /\ req'[r] = new
      BY <1>1, <3>3, <3>4 DEF OnlyMoves
    <3>6. Locals(r)'
      BY <1>1, <3>4, <3>5 DEF Locals, BeforeCode, AtCreation, WithRow
    <3> QED
      BY <2>3, <3>5, <3>6, TypedFrom
  <2> QED
    BY <2>4, <2>5
<1>3. CASE Limit(r)
  <2>1. Stores'
    <3>1. tokens' \in 0 .. Capacity
      BY <1>1, <1>3, ServiceAssumption DEF Limit, Stores
    <3> QED
      BY <1>1, <1>3, <3>1 DEF Limit, Stores
  <2>2. CASE Reply(r, "limited")
    <3>1. OnlyMoves(r) /\ Locals(r)'
      BY <2>2, Replied DEF Answers
    <3> QED
      BY <2>1, <3>1, TypedFrom
  <2>3. CASE Goto(r, "screen")
    <3>1. OnlyMoves(r) /\ req'[r] = [req[r] EXCEPT !.pc = "screen"] /\ req'[r] \in RequestStates
      BY <2>3, Went DEF Places
    <3>2. Locals(r)'
      BY <1>1, <1>3, <3>1 DEF Limit, Locals, RequestStates, BeforeCode, AtCreation, WithRow
    <3> QED
      BY <2>1, <3>1, <3>2, TypedFrom
  <2> QED
    BY <1>3, <2>2, <2>3 DEF Limit
<1>4. CASE Screen(r)
  <2>1. Stores'
    BY <1>1, <1>4, StoresStay DEF Screen
  <2>2. CASE Reply(r, "refused")
    <3>1. OnlyMoves(r) /\ Locals(r)'
      BY <2>2, Replied DEF Answers
    <3> QED
      BY <2>1, <3>1, TypedFrom
  <2>3. CASE Goto(r, "generate")
    <3>1. OnlyMoves(r) /\ req'[r] = [req[r] EXCEPT !.pc = "generate"] /\ req'[r] \in RequestStates
      BY <2>3, Went DEF Places
    <3>2. Locals(r)'
      BY <1>1, <1>4, <3>1 DEF Screen, Locals, RequestStates, BeforeCode, AtCreation, WithRow
    <3> QED
      BY <2>1, <3>1, <3>2, TypedFrom
  <2> QED
    BY <1>4, <2>2, <2>3 DEF Screen
<1>5. ASSUME NEW c \in Codes, Generate(r, c) PROVE Typed' /\ OnlyMoves(r)
  <2>1. Stores' /\ req[r].pc = "generate"
    BY <1>1, <1>5, StoresStay DEF Generate
  <2>2. CASE req' = [req EXCEPT ![r].pc = "insert", ![r].code = c]
    <3> DEFINE new == [req[r] EXCEPT !.pc = "insert", !.code = c]
    <3>1. req' = [req EXCEPT ![r] = new] /\ new \in RequestStates
      BY <1>1, <2>2 DEF RequestStates, Places
    <3>2. OnlyMoves(r) /\ req'[r] = new
      BY <1>1, <3>1 DEF OnlyMoves
    <3>3. Locals(r)'
      BY <1>1, <2>1, <3>1, <3>2 DEF Locals, RequestStates, BeforeCode, AtCreation, WithRow
    <3> QED
      BY <2>1, <3>2, <3>3, TypedFrom
  <2>3. CASE Reply(r, "exhausted")
    <3>1. OnlyMoves(r) /\ Locals(r)'
      BY <2>3, Replied DEF Answers
    <3> QED
      BY <2>1, <3>1, TypedFrom
  <2>4. CASE Tried(r) # MaxCodeTries /\ req' = [req EXCEPT ![r].tries = Tried(r)]
    <3> DEFINE new == [req[r] EXCEPT !.tries = Tried(r)]
    <3>1. Tried(r) \in 0 .. MaxCodeTries - 1
      BY <1>1, <2>4, ServiceAssumption DEF Tried, RequestStates
    <3>2. req' = [req EXCEPT ![r] = new] /\ new \in RequestStates
      BY <1>1, <2>4, <3>1 DEF RequestStates
    <3>3. OnlyMoves(r) /\ req'[r] = new
      BY <1>1, <3>2 DEF OnlyMoves
    <3>4. Locals(r)'
      BY <1>1, <2>1, <3>2, <3>3 DEF Locals, RequestStates, BeforeCode, AtCreation, WithRow
    <3> QED
      BY <2>1, <3>3, <3>4, TypedFrom
  <2> QED
    BY <1>5, <2>2, <2>3, <2>4 DEF Generate
<1>6. CASE Insert(r)
  <2>1. req[r].pc = "insert" /\ req[r].code \in Codes /\ req[r].now \in Days
    BY <1>1, <1>6 DEF Insert, Locals, BeforeCode, RequestStates
  <2>2. CASE Insertable(req[r].code)
    <3>1. PICK expiry \in Expiries(req[r].now) :
             urls' = [urls EXCEPT ![req[r].code] =
                        [owner |-> r, expires |-> expiry[1], naive |-> expiry[2],
                         count |-> 0, reports |-> 0, flagged |-> FALSE]]
      BY <1>6, <2>2 DEF Insert
    <3>2. [owner |-> r, expires |-> expiry[1], naive |-> expiry[2],
           count |-> 0, reports |-> 0, flagged |-> FALSE] \in Rows
      BY <2>1, ExpiryTyped DEF Rows
    <3>3. Stores'
      BY <1>1, <1>6, <3>1, <3>2 DEF Stores, Insert
    <3>4. CASE Reply(r, "created")
      <4>1. OnlyMoves(r) /\ Locals(r)'
        BY <3>4, Replied DEF Answers
      <4> QED
        BY <3>3, <4>1, TypedFrom
    <3>5. CASE req[r].key # None /\ Goto(r, "remember")
      <4>1. OnlyMoves(r) /\ req'[r] = [req[r] EXCEPT !.pc = "remember"] /\ req'[r] \in RequestStates
        BY <3>5, Went DEF Places
      <4>2. Locals(r)'
        BY <1>1, <2>1, <3>5, <4>1 DEF Locals, RequestStates, BeforeCode, AtCreation, WithRow
      <4> QED
        BY <3>3, <4>1, <4>2, TypedFrom
    <3> QED
      BY <1>6, <2>2, <3>4, <3>5 DEF Insert
  <2>3. CASE ~Insertable(req[r].code)
    <3>1. Stores' /\ Reply(r, "error")
      BY <1>1, <1>6, <2>3, StoresStay DEF Insert
    <3>2. OnlyMoves(r) /\ Locals(r)'
      BY <3>1, Replied DEF Answers
    <3> QED
      BY <3>1, <3>2, TypedFrom
  <2> QED
    BY <2>2, <2>3
<1>7. CASE Remember(r)
  <2>1. /\ req[r].key \in Keys \ {None} /\ req[r].code \in Codes /\ Reply(r, "created")
        /\ clock \in Days
    BY <1>1, <1>7 DEF Remember, Locals, BeforeCode, Stores
  <2>2. [code |-> req[r].code, owner |-> r, at |-> clock] \in Memories
    BY <2>1 DEF Memories
  <2>3. Stores'
    BY <1>1, <1>7, <2>1, <2>2 DEF Remember, Remembered, Stores
  <2>4. OnlyMoves(r) /\ Locals(r)'
    BY <2>1, Replied DEF Answers
  <2> QED
    BY <2>3, <2>4, TypedFrom
<1> QED
  BY <1>2, <1>3, <1>4, <1>5, <1>6, <1>7

(* The steps of a redirect keep the types. *)
LEMMA RedirectKeepsTyped ==
  ASSUME Typed, NEW r \in Requests, Lookup(r) \/ Read(r) \/ Fill(r) \/ Click(r)
  PROVE  Typed' /\ OnlyMoves(r)
<1>1. Stores /\ Locals(r) /\ req \in [Requests -> RequestStates] /\ req[r] \in RequestStates
  BY DEF Typed
<1> USE DEF At
<1> DEFINE c == req[r].code
<1>2. CASE Lookup(r)
  <2>1. req[r].pc = "lookup" /\ c \in Codes
    BY <1>1, <1>2 DEF Lookup, Locals, BeforeCode
  <2>2. CASE CachedAt(c) = {}
    <3>1. Stores' /\ Goto(r, "read")
      BY <1>1, <1>2, <2>2, StoresStay DEF Lookup
    <3>2. OnlyMoves(r) /\ req'[r] = [req[r] EXCEPT !.pc = "read"] /\ req'[r] \in RequestStates
      BY <3>1, Went DEF Places
    <3>3. Locals(r)'
      BY <1>1, <2>1, <3>2 DEF Locals, RequestStates, BeforeCode, AtCreation, WithRow
    <3> QED
      BY <3>1, <3>2, <3>3, TypedFrom
  <2>3. CASE CachedAt(c) # {}
    <3>1. Cached(c) \in Entries /\ Cached(c).code = c
      BY <1>1, <2>1, <2>3, DroppedFromCache
    <3>2. cache' = Append(Dropped(c), Cached(c)) /\ UNCHANGED <<urls, clicks, idem, tokens, clock>>
      BY <1>2, <2>3 DEF Lookup
    <3>3. cache' \in Seq(Entries) /\ OneEntryEach(cache') /\ Len(cache') = Len(cache)
      BY <1>1, <2>3, <3>1, <3>2, PutInCache
    <3>4. Stores'
      BY <1>1, <3>2, <3>3 DEF Stores
    <3>5. CASE Goto(r, "evict")
      <4>1. OnlyMoves(r) /\ req'[r] = [req[r] EXCEPT !.pc = "evict"] /\ req'[r] \in RequestStates
        BY <3>5, Went DEF Places
      <4>2. req[r].op = "redirect"
        BY <1>1, <2>1 DEF Locals
      <4>3. Locals(r)'
        BY <1>1, <2>1, <4>1, <4>2 DEF Locals, RequestStates, BeforeCode, AtCreation, WithRow
      <4> QED
        BY <3>4, <4>1, <4>3, TypedFrom
    <3>6. CASE req' = [req EXCEPT ![r].pc = "click", ![r].link = Cached(c)]
      <4> DEFINE new == [req[r] EXCEPT !.pc = "click", !.link = Cached(c)]
      <4>2. req' = [req EXCEPT ![r] = new] /\ new \in RequestStates
        <5> DEFINE entry == Cached(c)
        <5>1. entry \in Links
          BY <3>1 DEF Links
        <5> HIDE DEF entry
        <5> QED
          BY <1>1, <3>6, <5>1 DEF RequestStates, Places, entry
      <4>3. OnlyMoves(r) /\ req'[r] = new
        BY <1>1, <4>2 DEF OnlyMoves
      <4>4. /\ new.code = req[r].code /\ new.pc = "click" /\ new.link \in Entries
            /\ new.op = req[r].op /\ new.barred = req[r].barred /\ new.answer = req[r].answer
        BY <1>1, <3>1 DEF RequestStates
      <4> HIDE DEF new
      <4>5. Locals(r)'
        BY <1>1, <2>1, <4>2, <4>3, <4>4 DEF Locals, BeforeCode, AtCreation, WithRow, c
      <4> QED
        BY <3>4, <4>3, <4>5, TypedFrom
    <3> QED
      BY <1>2, <2>3, <3>5, <3>6 DEF Lookup
  <2> QED
    BY <2>2, <2>3
<1>3. CASE Read(r)
  <2>1. req[r].pc = "read" /\ c \in Codes /\ Stores'
    BY <1>1, <1>3, StoresStay DEF Read, Locals, BeforeCode
  <2>2. ASSUME NEW answer \in {"missing", "flagged", "error", "gone"}, Reply(r, answer)
        PROVE  Typed' /\ OnlyMoves(r)
    <3>1. OnlyMoves(r) /\ Locals(r)'
      BY <2>2, Replied DEF Answers
    <3> QED
      BY <2>1, <3>1, TypedFrom
  <2>3. CASE /\ urls[c] # None
             /\ req' = [req EXCEPT ![r].pc = "fill", ![r].link = urls[c]]
    <3> DEFINE new == [req[r] EXCEPT !.pc = "fill", !.link = urls[c]]
    <3>1. urls[c] \in Rows
      BY <1>1, <2>1, <2>3 DEF Stores
    <3>2. req' = [req EXCEPT ![r] = new] /\ new \in RequestStates
      BY <1>1, <2>3, <3>1 DEF RequestStates, Places, Links
    <3>3. OnlyMoves(r) /\ req'[r] = new
      BY <1>1, <3>2 DEF OnlyMoves
    <3>4. /\ new.code = req[r].code /\ new.pc = "fill" /\ new.link \in Rows
          /\ new.op = req[r].op /\ new.barred = req[r].barred /\ new.answer = req[r].answer
      BY <1>1, <3>1 DEF RequestStates
    <3> HIDE DEF new
    <3>5. Locals(r)'
      BY <1>1, <2>1, <3>2, <3>3, <3>4 DEF Locals, BeforeCode, AtCreation, WithRow
    <3> QED
      BY <2>1, <3>3, <3>5, TypedFrom
  <2> QED
    BY <1>3, <2>2, <2>3 DEF Read
<1>4. CASE Fill(r)
  <2> DEFINE entry == [code |-> c, owner |-> req[r].link.owner,
                       expires |-> req[r].link.expires, by |-> r]
             new == [req[r] EXCEPT !.pc = "click", !.link = entry]
  <2>1. req[r].pc = "fill" /\ c \in Codes /\ req[r].link \in Rows
    BY <1>1, <1>4 DEF Fill, Locals, BeforeCode, WithRow
  <2>2. entry \in Entries
    BY <2>1 DEF Entries, Rows
  <2>3. /\ cache' = Stored(entry) /\ UNCHANGED <<urls, clicks, idem, tokens, clock>>
        /\ req' = [req EXCEPT ![r].pc = "click", ![r].link = entry]
    BY <1>4 DEF Fill
  <2> HIDE DEF entry
  <2>4. Stores'
    <3>1. cache' \in Seq(Entries) /\ OneEntryEach(cache') /\ Len(cache') <= CacheSize
      BY <1>1, <2>2, <2>3, StoredInCache
    <3> QED
      BY <1>1, <2>3, <3>1 DEF Stores
  <2>5. req' = [req EXCEPT ![r] = new] /\ new \in RequestStates
    BY <1>1, <2>2, <2>3 DEF RequestStates, Places, Links
  <2>6. OnlyMoves(r) /\ req'[r] = new
    BY <1>1, <2>5 DEF OnlyMoves
  <2>7. /\ new.code = req[r].code /\ new.pc = "click" /\ new.link \in Entries
        /\ new.op = req[r].op /\ new.barred = req[r].barred /\ new.answer = req[r].answer
    BY <1>1, <2>2 DEF RequestStates
  <2> HIDE DEF new
  <2>8. Locals(r)'
    BY <1>1, <2>1, <2>5, <2>6, <2>7 DEF Locals, BeforeCode, AtCreation, WithRow
  <2> QED
    BY <2>4, <2>6, <2>8, TypedFrom
<1>5. CASE Click(r)
  <2>1. /\ req[r].pc = "click" /\ c \in Codes /\ req[r].now \in Days
        /\ UNCHANGED <<cache, idem, tokens, clock>>
    BY <1>1, <1>5 DEF Click, Locals, BeforeCode, RequestStates
  <2>2. CASE urls[c] = None
    <3>1. Stores' /\ Reply(r, "error")
      BY <1>1, <1>5, <2>2, StoresStay DEF Click
    <3>2. OnlyMoves(r) /\ Locals(r)'
      BY <3>1, Replied DEF Answers
    <3> QED
      BY <3>1, <3>2, TypedFrom
  <2>3. CASE urls[c] # None
    <3>1. /\ urls' = [urls EXCEPT ![c].count = @ + 1]
          /\ clicks' = [clicks EXCEPT ![c] = CountedOn(@, req[r].now)]
          /\ Reply(r, "redirected")
      BY <1>5, <2>3 DEF Click
    <3>2. urls[c] \in Rows /\ clicks[c] \in [Days -> Nat]
      BY <1>1, <2>1, <2>3 DEF Stores
    <3>3. CountedOn(clicks[c], req[r].now) \in [Days -> Nat]
      BY <2>1, <3>2, ClickAddsOne
    <3>4. [urls[c] EXCEPT !.count = @ + 1] \in Rows
      BY <3>2 DEF Rows
    <3>5. Stores'
      BY <1>1, <2>1, <3>1, <3>3, <3>4 DEF Stores
    <3>6. OnlyMoves(r) /\ Locals(r)'
      BY <3>1, Replied DEF Answers
    <3> QED
      BY <3>5, <3>6, TypedFrom
  <2> QED
    BY <2>2, <2>3
<1> QED
  BY <1>2, <1>3, <1>4, <1>5

(* The steps of reports, deletion, analytics and metadata keep the types. *)
LEMMA OtherKeepsTyped ==
  ASSUME Typed, NEW r \in Requests,
         Check(r) \/ CountReport(r) \/ DeleteRow(r) \/ Evict(r) \/ Series(r) \/ Describe(r)
  PROVE  Typed' /\ OnlyMoves(r)
<1>1. Stores /\ Locals(r) /\ req \in [Requests -> RequestStates] /\ req[r] \in RequestStates
  BY DEF Typed
<1> USE DEF At
<1> DEFINE c == req[r].code
<1>2. ASSUME NEW answer \in Answers, Reply(r, answer), Stores' PROVE Typed' /\ OnlyMoves(r)
  <2>1. OnlyMoves(r) /\ Locals(r)'
    BY <1>2, Replied
  <2> QED
    BY <1>2, <2>1, TypedFrom
<1>3. CASE Check(r)
  <2>1. /\ req[r].pc = "check" /\ c \in Codes /\ Stores'
        /\ req[r].op \in {"report", "delete", "analytics"}
    BY <1>1, <1>3, StoresStay DEF Check, Locals, BeforeCode
  <2>2. CASE /\ urls[c] # None
             /\ req' = [req EXCEPT ![r].pc = req[r].op, ![r].link = urls[c]]
    <3> DEFINE new == [req[r] EXCEPT !.pc = req[r].op, !.link = urls[c]]
    <3>1. urls[c] \in Rows
      BY <1>1, <2>1, <2>2 DEF Stores
    <3>2. req' = [req EXCEPT ![r] = new] /\ new \in RequestStates
      BY <1>1, <2>1, <2>2, <3>1 DEF RequestStates, Places, Links
    <3>3. OnlyMoves(r) /\ req'[r] = new
      BY <1>1, <3>2 DEF OnlyMoves
    <3>4. /\ new.code = req[r].code /\ new.op = req[r].op /\ new.pc = req[r].op
          /\ new.link \in Rows /\ new.barred = req[r].barred /\ new.answer = req[r].answer
      BY <1>1, <3>1 DEF RequestStates
    <3> HIDE DEF new
    <3>5. Locals(r)'
      BY <1>1, <2>1, <3>2, <3>3, <3>4 DEF Locals, BeforeCode, AtCreation, WithRow
    <3> QED
      BY <2>1, <3>3, <3>5, TypedFrom
  <2>3. CASE Reply(r, "missing") \/ Reply(r, "forbidden") \/ Reply(r, "error")
    BY <1>2, <2>1, <2>3 DEF Answers
  <2> QED
    BY <1>3, <2>2, <2>3 DEF Check
<1>4. ASSUME Goto(r, "evict"), req[r].op \in {"report", "delete"}, c \in Codes, Stores',
             req[r].pc # "answered"
      PROVE  Typed' /\ OnlyMoves(r)
  <2>1. OnlyMoves(r) /\ req'[r] = [req[r] EXCEPT !.pc = "evict"] /\ req'[r] \in RequestStates
    BY <1>4, Went DEF Places
  <2>2. Locals(r)'
    BY <1>1, <1>4, <2>1 DEF Locals, RequestStates, BeforeCode, AtCreation, WithRow
  <2> QED
    BY <1>4, <2>1, <2>2, TypedFrom
<1>5. CASE CountReport(r)
  <2>1. req[r].pc = "report" /\ c \in Codes /\ req[r].op = "report"
    BY <1>1, <1>5 DEF CountReport, Locals, BeforeCode
  <2>2. CASE urls[c] = None
    <3>1. Stores' /\ Reply(r, "error")
      BY <1>1, <1>5, <2>2, StoresStay DEF CountReport
    <3> QED
      BY <1>2, <3>1 DEF Answers
  <2>3. CASE urls[c] # None
    <3> DEFINE counted == [urls[c] EXCEPT !.reports = @ + 1]
               flagged == urls[c].flagged \/ Flags(counted)
               row == [counted EXCEPT !.flagged = flagged]
    <3>1. /\ urls' = [urls EXCEPT ![c] = row] /\ UNCHANGED <<clicks, cache, idem, tokens, clock>>
          /\ Goto(r, "evict") \/ Reply(r, "reported")
      BY <1>5, <2>3 DEF CountReport
    <3>2. urls[c] \in Rows
      BY <1>1, <2>1, <2>3 DEF Stores
    <3>3. row \in Rows
      <4>1. flagged \in BOOLEAN
        OBVIOUS
      <4> HIDE DEF flagged
      <4>2. counted \in Rows
        BY <3>2 DEF Rows
      <4> HIDE DEF counted
      <4> QED
        BY <4>1, <4>2 DEF Rows
    <3> HIDE DEF row
    <3>4. Stores'
      BY <1>1, <2>1, <3>1, <3>3 DEF Stores
    <3> QED
      BY <1>2, <1>4, <2>1, <3>1, <3>4 DEF Answers
  <2> QED
    BY <2>2, <2>3
<1>6. CASE DeleteRow(r)
  <2>1. /\ req[r].pc = "delete" /\ c \in Codes /\ req[r].op = "delete" /\ Goto(r, "evict")
        /\ urls' = [urls EXCEPT ![c] = None] /\ clicks' = [clicks EXCEPT ![c] = NoClicks]
        /\ UNCHANGED <<cache, idem, tokens, clock>>
    BY <1>1, <1>6 DEF DeleteRow, Cascaded, Locals, BeforeCode
  <2>2. Stores'
    BY <1>1, <2>1, TotalOfNoClicks DEF Stores
  <2> QED
    BY <1>4, <2>1, <2>2
<1>7. CASE Evict(r)
  <2>1. /\ req[r].pc = "evict" /\ c \in Codes /\ req[r].op \in {"redirect", "report", "delete"}
        /\ cache' = Dropped(c) /\ UNCHANGED <<urls, clicks, idem, tokens, clock>>
    BY <1>1, <1>7 DEF Evict, Invalidated, Locals, BeforeCode
  <2>2. Stores'
    <3>1. /\ cache' \in Seq(Entries) /\ OneEntryEach(cache') /\ Len(cache') <= Len(cache)
          /\ Len(cache) <= CacheSize
      BY <1>1, <2>1, DroppedFromCache DEF Stores
    <3>2. Len(cache') \in Nat /\ Len(cache) \in Nat /\ CacheSize \in Nat
      BY <1>1, <3>1, ServiceAssumption DEF Stores
    <3> QED
      BY <1>1, <2>1, <3>1, <3>2 DEF Stores
  <2>3. CASE Goto(r, "read")
    <3>1. OnlyMoves(r) /\ req'[r] = [req[r] EXCEPT !.pc = "read"] /\ req'[r] \in RequestStates
      BY <2>3, Went DEF Places
    <3>2. Locals(r)'
      BY <1>1, <2>1, <3>1 DEF Locals, RequestStates, BeforeCode, AtCreation, WithRow
    <3> QED
      BY <2>2, <3>1, <3>2, TypedFrom
  <2>4. CASE Reply(r, "reported") \/ Reply(r, "deleted")
    BY <1>2, <2>2, <2>4 DEF Answers
  <2> QED
    BY <1>7, <2>1, <2>3, <2>4 DEF Evict
<1>8. CASE Series(r)
  <2>1. Stores' /\ Reply(r, "analytics")
    BY <1>1, <1>8, StoresStay DEF Series
  <2> QED
    BY <1>2, <2>1 DEF Answers
<1>9. CASE Describe(r)
  <2>1. Stores' /\ \E answer \in {"missing", "error", "gone", "metadata"} : Reply(r, answer)
    BY <1>1, <1>9, StoresStay DEF Describe
  <2> QED
    BY <1>2, <2>1 DEF Answers
<1> QED
  BY <1>3, <1>5, <1>6, <1>7, <1>8, <1>9

(* Whatever a request does keeps the types, and touches no other request. *)
LEMMA ServeKeepsTyped ==
  ASSUME Typed, NEW r \in Requests, Serve(r)
  PROVE  Typed' /\ OnlyMoves(r)
BY CreateKeepsTyped, RedirectKeepsTyped, OtherKeepsTyped DEF Serve

(* Time keeps the types. *)
LEMMA TickKeepsTyped == Typed /\ Tick => Typed'
<1> SUFFICES ASSUME Typed, Tick PROVE Typed'
  OBVIOUS
<1>1. clock' \in Days /\ tokens' \in 0 .. Capacity
  BY ServiceAssumption DEF Typed, Stores, Tick, Days
<1>2. Stores' /\ UNCHANGED req
  BY <1>1 DEF Typed, Stores, Tick
<1> QED
  BY <1>2 DEF Typed, Locals

(* Every step keeps the types. *)
LEMMA StepKeepsTyped == Typed /\ [Next]_vars => Typed'
<1> SUFFICES ASSUME Typed, [Next]_vars PROVE Typed'
  OBVIOUS
<1>1. CASE UNCHANGED vars
  BY <1>1 DEF vars, Typed, Stores, Locals
<1>2. ASSUME NEW r \in Requests, Arrive(r) PROVE Typed'
  <2>1. /\ OnlyMoves(r) /\ Locals(r)' /\ UNCHANGED <<urls, clicks, cache, idem, tokens, clock>>
    BY <1>2, Started
  <2>2. Stores'
    BY <2>1, StoresStay DEF Typed
  <2> QED
    BY <2>1, <2>2, TypedFrom
<1> QED
  BY <1>1, <1>2, ServeKeepsTyped, TickKeepsTyped DEF Next

(* The service starts well typed. *)
LEMMA TypedAtFirst == Init => Typed
<1> SUFFICES ASSUME Init PROVE Typed
  OBVIOUS
<1>1. NotYet \in RequestStates
  <2>1. 0 \in Days /\ 0 \in 0 .. MaxCodeTries - 1 /\ None \in Links
    BY ServiceAssumption DEF Days, Links
  <2> QED
    BY <2>1 DEF RequestStates, NotYet, Places, Answers
<1>2. \A r \in Requests : /\ req[r] = NotYet /\ req[r].pc = "new"
                          /\ req[r].answer = "none" /\ ~req[r].barred
  BY DEF Init, NotYet
<1>3. req \in [Requests -> RequestStates] /\ \A r \in Requests : Locals(r)
  BY <1>1, <1>2 DEF Init, Locals, BeforeCode, AtCreation, WithRow
<1>4. /\ cache = <<>> /\ cache \in Seq(Entries) /\ Len(cache) = 0
      /\ tokens \in 0 .. Capacity /\ clock \in Days /\ CacheSize \in Nat
  BY ServiceAssumption DEF Init, Days
<1>5. OneEntryEach(cache)
  BY <1>4 DEF OneEntryEach
<1>6. Stores
  BY <1>4, <1>5, TotalOfNoClicks DEF Stores, Init
<1> QED
  BY <1>3, <1>6 DEF Typed

(* Every variable holds what the code can store in it; the cache is never  *)
(* larger than it may be and has at most one entry for a code.             *)
THEOREM TypesAlways == Spec => []WellFormed
<1>1. Typed => WellFormed
  <2> SUFFICES ASSUME Typed PROVE WellFormed
    OBVIOUS
  <2>1. ASSUME NEW c \in Codes PROVE Cardinality(CachedAt(c)) <= 1
    <3>1. CASE CachedAt(c) = {}
      BY <3>1, FS_EmptySet
    <3>2. CASE CachedAt(c) # {}
      <4>1. PICK n : n \in CachedAt(c)
        BY <3>2
      <4>2. CachedAt(c) = {n}
        BY <4>1 DEF CachedAt, Typed, Stores, OneEntryEach
      <4> QED
        BY <4>2, FS_Singleton
    <3> QED
      BY <3>1, <3>2
  <2>2. \A r \in Requests : req[r].now \in Days /\ req[r].tries < MaxCodeTries
    <3>1. \A r \in Requests : req[r].now \in Days /\ req[r].tries \in 0 .. MaxCodeTries - 1
      BY DEF Typed, RequestStates
    <3> QED
      BY <3>1, ServiceAssumption
  <2> QED
    BY <2>1, <2>2 DEF Typed, Stores, WellFormed, Entries
<1> QED
  BY <1>1, TypedAtFirst, StepKeepsTyped, PTL DEF Spec

-----------------------------------------------------------------------------
(* What a request does to the row of its code *)

Inserts(r, c) ==
    /\ urls[c] = None /\ urls'[c] # None
    /\ urls'[c].owner = r /\ ~Inserted(r) /\ Inserted(r)'
    /\ urls'[c].count = 0 /\ urls'[c].reports = 0 /\ urls'[c].flagged = FALSE
    /\ clicks'[c] = clicks[c]
Clicks(r, c) ==
    /\ urls[c] # None /\ urls'[c] # None /\ urls'[c] = [urls[c] EXCEPT !.count = @ + 1]
    /\ clicks'[c] = CountedOn(clicks[c], req[r].now)
Reports(c) ==
    /\ urls[c] # None /\ urls'[c] # None
    /\ urls'[c].owner = urls[c].owner /\ urls'[c].expires = urls[c].expires
    /\ urls'[c].count = urls[c].count /\ urls'[c].reports = urls[c].reports + 1
    /\ urls'[c].flagged <=> urls[c].flagged \/ urls[c].reports + 1 >= Threshold
    /\ clicks'[c] = clicks[c]
Deletes(c) == urls'[c] = None /\ clicks'[c] = NoClicks

(* Who writes the rows of the database, and how. *)
LEMMA RowsWritten ==
  ASSUME Typed, NEW r \in Requests, Serve(r)
  PROVE  \/ UNCHANGED <<urls, clicks>>
         \/ /\ req[r].code \in Codes
            /\ \A d \in Codes \ {req[r].code} : urls'[d] = urls[d] /\ clicks'[d] = clicks[d]
            /\ \/ Insert(r) /\ Inserts(r, req[r].code)
               \/ Click(r) /\ Clicks(r, req[r].code)
               \/ CountReport(r) /\ Reports(req[r].code)
               \/ DeleteRow(r) /\ Deletes(req[r].code)
<1> DEFINE c == req[r].code
<1>1. Stores /\ Locals(r) /\ req[r] \in RequestStates /\ Typed' /\ OnlyMoves(r)
  BY ServeKeepsTyped DEF Typed
<1>2. urls \in [Codes -> Rows \cup {None}] /\ clicks \in [Codes -> [Days -> Nat]]
  BY <1>1 DEF Stores
<1>3. CASE Insert(r)
  <2>1. req[r].pc = "insert" /\ c \in Codes /\ req[r].op = "create" /\ req[r].now \in Days
    BY <1>1, <1>3 DEF Insert, At, Locals, BeforeCode, AtCreation, RequestStates
  <2>2. CASE urls[c] # None
    BY <1>3, <2>2 DEF Insert, Insertable
  <2>3. CASE urls[c] = None
    <3>1. PICK expiry \in Expiries(req[r].now) :
             urls' = [urls EXCEPT ![c] =
                        [owner |-> r, expires |-> expiry[1], naive |-> expiry[2],
                         count |-> 0, reports |-> 0, flagged |-> FALSE]]
      BY <1>3, <2>3 DEF Insert, Insertable
    <3> DEFINE row == [owner |-> r, expires |-> expiry[1], naive |-> expiry[2],
                       count |-> 0, reports |-> 0, flagged |-> FALSE]
    <3>2. row \in Rows
      BY <2>1, ExpiryTyped DEF Rows
    <3>3. row # None
      BY <3>2, NoneAssumption
    <3>4. row.owner = r /\ row.count = 0 /\ row.reports = 0 /\ row.flagged = FALSE
      OBVIOUS
    <3> HIDE DEF row
    <3>5. urls' = [urls EXCEPT ![c] = row] /\ UNCHANGED clicks
      BY <1>3, <3>1 DEF row, Insert
    <3>6. /\ urls'[c] = row /\ clicks'[c] = clicks[c]
          /\ \A d \in Codes \ {c} : urls'[d] = urls[d] /\ clicks'[d] = clicks[d]
      BY <1>2, <2>1, <3>5
    <3>7. Inserted(r)'
      <4>1. Reply(r, "created") \/ Goto(r, "remember")
        BY <1>3, <2>3 DEF Insert, Insertable
      <4>2. CASE Reply(r, "created")
        BY <2>1, <4>2, Replied DEF Inserted, Answers
      <4>3. CASE Goto(r, "remember")
        <5>1. req'[r] = [req[r] EXCEPT !.pc = "remember"]
          BY <4>3, Went DEF Places
        <5> QED
          BY <1>1, <2>1, <5>1 DEF Inserted, RequestStates
      <4> QED
        BY <4>1, <4>2, <4>3
    <3>8. ~Inserted(r)
      BY <2>1 DEF Inserted
    <3> QED
      BY <1>3, <2>1, <2>3, <3>3, <3>4, <3>6, <3>7, <3>8 DEF Inserts
  <2> QED
    BY <2>2, <2>3
<1>4. CASE Click(r)
  <2>1. c \in Codes
    BY <1>1, <1>4 DEF Click, At, Locals, BeforeCode
  <2>2. CASE urls[c] = None
    BY <1>4, <2>2 DEF Click
  <2>3. CASE urls[c] # None
    <3>1. /\ urls' = [urls EXCEPT ![c].count = @ + 1]
          /\ clicks' = [clicks EXCEPT ![c] = CountedOn(@, req[r].now)]
      BY <1>4, <2>3 DEF Click
    <3>2. /\ urls'[c] = [urls[c] EXCEPT !.count = @ + 1] /\ urls[c] \in Rows
          /\ clicks'[c] = CountedOn(clicks[c], req[r].now)
          /\ \A d \in Codes \ {c} : urls'[d] = urls[d] /\ clicks'[d] = clicks[d]
      BY <1>2, <2>1, <2>3, <3>1
    <3>3. urls'[c] # None
      BY <3>2, NoneAssumption DEF Rows
    <3> QED
      BY <1>4, <2>1, <2>3, <3>2, <3>3 DEF Clicks
  <2> QED
    BY <2>2, <2>3
<1>5. CASE CountReport(r)
  <2>1. c \in Codes
    BY <1>1, <1>5 DEF CountReport, At, Locals, BeforeCode
  <2>2. CASE urls[c] = None
    BY <1>5, <2>2 DEF CountReport
  <2>3. CASE urls[c] # None
    <3> DEFINE counted == [urls[c] EXCEPT !.reports = @ + 1]
               flagged == urls[c].flagged \/ Flags(counted)
    <3>1. urls' = [urls EXCEPT ![c] = [counted EXCEPT !.flagged = flagged]] /\ UNCHANGED clicks
      BY <1>5, <2>3 DEF CountReport
    <3>2. urls[c] \in Rows
      BY <1>2, <2>1, <2>3
    <3>3. flagged <=> urls[c].flagged \/ urls[c].reports + 1 >= Threshold
      BY <3>2 DEF Flags, Rows
    <3> HIDE DEF flagged
    <3>4. /\ urls'[c] = [urls[c] EXCEPT !.reports = @ + 1, !.flagged = flagged]
          /\ \A d \in Codes \ {c} : urls'[d] = urls[d]
      BY <1>2, <2>1, <3>1, <3>2 DEF Rows
    <3>5. /\ urls'[c].flagged = flagged
          /\ urls'[c].owner = urls[c].owner /\ urls'[c].expires = urls[c].expires
          /\ urls'[c].count = urls[c].count /\ urls'[c].reports = urls[c].reports + 1
      BY <3>2, <3>4 DEF Rows
    <3>6. urls'[c] # None
      <4>1. flagged \in BOOLEAN
        BY DEF flagged
      <4>2. counted \in Rows
        BY <3>2 DEF Rows
      <4>3. urls'[c] = [counted EXCEPT !.flagged = flagged]
        BY <1>2, <2>1, <3>1
      <4> HIDE DEF counted
      <4> QED
        BY <4>1, <4>2, <4>3, NoneAssumption DEF Rows
    <3> QED
      BY <1>5, <2>1, <2>3, <3>1, <3>3, <3>4, <3>5, <3>6 DEF Reports
  <2> QED
    BY <2>2, <2>3
<1>6. CASE DeleteRow(r)
  <2>1. /\ urls' = [urls EXCEPT ![c] = None] /\ clicks' = [clicks EXCEPT ![c] = NoClicks]
        /\ c \in Codes
    BY <1>1, <1>6 DEF DeleteRow, Cascaded, At, Locals, BeforeCode
  <2> QED
    BY <1>2, <1>6, <2>1 DEF Deletes
<1>7. CASE UNCHANGED <<urls, clicks>>
  BY <1>7
<1> HIDE DEF c
<1> QED
  BY <1>3, <1>4, <1>5, <1>6, <1>7
  DEF c, Serve, Replay, Limit, Screen, Remember, Generate, Lookup, Read, Fill, Check, Evict,
      Series, Describe

(* Every step keeps the counters. *)
LEMMA StepKeepsCounted == Counted /\ [Next]_vars => Counted'
<1> SUFFICES ASSUME Counted, [Next]_vars PROVE Counted'
  OBVIOUS
<1> DEFINE Right(row, days) == IF row = None THEN days = NoClicks
                               ELSE /\ row.count = Total(days)
                                    /\ row.flagged <=> row.reports > 0 /\ row.reports >= Threshold
<1>1. Typed /\ Typed' /\ \A c \in Codes : Right(urls[c], clicks[c])
  BY StepKeepsTyped DEF Counted, ClicksAgree, FlaggedAtThreshold
<1>2. \A c \in Codes : Right(urls'[c], clicks'[c])
  <2>1. CASE UNCHANGED <<urls, clicks>>
    BY <1>1, <2>1
  <2>2. ASSUME NEW r \in Requests, Serve(r) PROVE \A c \in Codes : Right(urls'[c], clicks'[c])
    <3> DEFINE c == req[r].code
    <3>1. CASE /\ c \in Codes
               /\ \A d \in Codes \ {c} : urls'[d] = urls[d] /\ clicks'[d] = clicks[d]
               /\ Inserts(r, c) \/ Clicks(r, c) \/ Reports(c) \/ Deletes(c)
      <4>1. clicks[c] \in [Days -> Nat] /\ (urls[c] # None => urls[c] \in Rows)
            /\ req[r].now \in Days /\ Right(urls[c], clicks[c]) /\ Threshold \in Nat
        <5>1. req[r] \in RequestStates /\ urls[c] \in Rows \cup {None} /\ Threshold \in Nat
              /\ clicks[c] \in [Days -> Nat]
          BY <1>1, <3>1, ServiceAssumption DEF Typed, Stores
        <5>2. req[r].now \in Days
          BY <5>1 DEF RequestStates
        <5> QED
          BY <1>1, <3>1, <5>1, <5>2
      <4> HIDE DEF c
      <4>2. ASSUME Inserts(r, c) PROVE Right(urls'[c], clicks'[c])
        BY <4>1, <4>2, TotalOfNoClicks DEF Inserts
      <4>3. ASSUME Clicks(r, c) PROVE Right(urls'[c], clicks'[c])
        <5>1. /\ urls'[c].count = urls[c].count + 1 /\ urls'[c].flagged = urls[c].flagged
              /\ urls'[c].reports = urls[c].reports
          BY <4>1, <4>3 DEF Clicks, Rows
        <5>2. Total(clicks'[c]) = Total(clicks[c]) + 1
          BY <4>1, <4>3, ClickAddsOne DEF Clicks
        <5> QED
          BY <4>1, <4>3, <5>1, <5>2 DEF Clicks
      <4>4. ASSUME Reports(c) PROVE Right(urls'[c], clicks'[c])
        <5>1. urls[c] \in Rows /\ urls[c].count = Total(clicks[c])
              /\ (urls[c].flagged <=> urls[c].reports > 0 /\ urls[c].reports >= Threshold)
          BY <4>1, <4>4 DEF Reports
        <5>2. urls'[c].flagged <=> urls'[c].reports > 0 /\ urls'[c].reports >= Threshold
          <6>1. urls[c].reports \in Nat /\ urls'[c].reports = urls[c].reports + 1
            BY <4>4, <5>1 DEF Reports, Rows
          <6> QED
            BY <4>1, <4>4, <5>1, <6>1 DEF Reports
        <5> QED
          BY <4>4, <5>1, <5>2 DEF Reports
      <4>5. ASSUME Deletes(c) PROVE Right(urls'[c], clicks'[c])
        BY <4>5 DEF Deletes
      <4>6. Right(urls'[c], clicks'[c])
        BY <3>1, <4>2, <4>3, <4>4, <4>5 DEF c
      <4> QED
        BY <1>1, <3>1, <4>6 DEF c
    <3> HIDE DEF Right
    <3> QED
      BY <1>1, <2>1, <2>2, <3>1, RowsWritten
  <2>3. CASE Tick \/ UNCHANGED vars \/ \E r \in Requests : Arrive(r)
    BY <1>1, <2>1, <2>3, Started DEF Tick, vars
  <2> QED
    BY <2>2, <2>3 DEF Next
<1> QED
  BY <1>1, <1>2 DEF Counted, ClicksAgree, FlaggedAtThreshold

(* The service starts with nothing counted. *)
LEMMA CountedAtFirst == Init => Counted
BY TypedAtFirst, TotalOfNoClicks DEF Counted, Init, ClicksAgree, FlaggedAtThreshold

(* The clicks of a URL add up, over the days, to its counter, and none are *)
(* left behind for the next URL with the same code (db.py:90-104).         *)
THEOREM ClicksAgreeAlways == Spec => []ClicksAgree
<1>1. Counted => ClicksAgree
  BY DEF Counted
<1> QED
  BY <1>1, CountedAtFirst, StepKeepsCounted, PTL DEF Spec

(* However many report at once, a URL is flagged by the report that        *)
(* reaches the threshold, no sooner and no later (db.py:115-118).          *)
THEOREM FlaggedAtThresholdAlways == Spec => []FlaggedAtThreshold
<1>1. Counted => FlaggedAtThreshold
  BY DEF Counted
<1> QED
  BY <1>1, CountedAtFirst, StepKeepsCounted, PTL DEF Spec

-----------------------------------------------------------------------------
(* Who a URL belongs to *)

(* The row a request takes along is the one that is there. *)
LEMMA RowsRead ==
  ASSUME Typed, NEW r \in Requests, Serve(r), req'[r].pc \in WithRow
  PROVE  /\ req'[r].code \in Codes /\ UNCHANGED <<urls, clicks>>
         /\ req'[r].link = urls[req'[r].code] /\ urls[req'[r].code] # None
         /\ req'[r].pc = "fill" => ~urls[req'[r].code].flagged
<1> DEFINE c == req[r].code
           Took(place) == req' = [req EXCEPT ![r].pc = place, ![r].link = urls[c]]
<1>1. Locals(r) /\ req[r] \in RequestStates /\ req \in [Requests -> RequestStates]
  BY DEF Typed
<1>2. ASSUME NEW answer \in Answers, Reply(r, answer) PROVE FALSE
  BY <1>2, Replied DEF WithRow
<1>3. ASSUME NEW place \in Places \ WithRow, Goto(r, place) PROVE FALSE
  <2>1. req'[r] = [req[r] EXCEPT !.pc = place]
    BY <1>3, Went
  <2>2. req'[r].pc = place
    BY <1>1, <2>1 DEF RequestStates
  <2> QED
    BY <2>2
<1>4. ASSUME NEW place, Took(place)
      PROVE  req'[r].code = c /\ req'[r].link = urls[c] /\ req'[r].pc = place
  BY <1>1, <1>4 DEF RequestStates
<1>5. CASE Check(r)
  <2>1. c \in Codes /\ UNCHANGED <<urls, clicks>>
    BY <1>1, <1>5 DEF Check, At, Locals, BeforeCode
  <2>2. urls[c] # None /\ Took(req[r].op) /\ req[r].op # "fill"
    BY <1>1, <1>2, <1>5 DEF Check, Answers, Locals, At
  <2> QED
    BY <1>4, <2>1, <2>2
<1>6. CASE Read(r)
  <2>1. c \in Codes /\ UNCHANGED <<urls, clicks>>
    BY <1>1, <1>6 DEF Read, At, Locals, BeforeCode
  <2>2. urls[c] # None /\ ~urls[c].flagged /\ Took("fill")
    BY <1>2, <1>6 DEF Read, Answers
  <2> QED
    BY <1>4, <2>1, <2>2
<1>7. ASSUME NEW place \in {"answered", "insert", "click"}, NEW value,
             \/ req' = [req EXCEPT ![r].pc = place, ![r].answer = "replayed", ![r].code = value]
             \/ req' = [req EXCEPT ![r].pc = place, ![r].code = value]
             \/ req' = [req EXCEPT ![r].pc = place, ![r].link = value]
      PROVE  FALSE
  BY <1>1, <1>7 DEF RequestStates, WithRow
<1>8. CASE \E d \in Codes : Generate(r, d)
  <2>1. req[r].pc = "generate"
    BY <1>8 DEF Generate, At
  <2>2. ASSUME req' = [req EXCEPT ![r].tries = Tried(r)] PROVE FALSE
    BY <1>1, <2>1, <2>2 DEF RequestStates, WithRow
  <2> QED
    BY <1>2, <1>7, <1>8, <2>2 DEF Generate, Answers
<1>9. CASE Lookup(r) \/ Fill(r) \/ Replay(r)
  BY <1>2, <1>3, <1>7, <1>9 DEF Lookup, Fill, Replay, Places, WithRow
<1>10. CASE \/ Limit(r) \/ Screen(r) \/ Insert(r) \/ Remember(r) \/ Click(r)
            \/ CountReport(r) \/ DeleteRow(r) \/ Evict(r) \/ Series(r) \/ Describe(r)
  <2>1. CASE Evict(r)
    <3>1. req[r].op \in {"redirect", "report", "delete"}
      BY <1>1, <2>1 DEF Evict, At, Locals
    <3> QED
      BY <1>2, <1>3, <2>1, <3>1 DEF Evict, Answers, Places, WithRow
  <2>2. CASE Limit(r) \/ Screen(r) \/ Insert(r) \/ Remember(r) \/ Click(r)
    BY <1>2, <1>3, <2>2 DEF Limit, Screen, Insert, Remember, Click, Answers, Places, WithRow
  <2>3. CASE CountReport(r) \/ DeleteRow(r)
    BY <1>2, <1>3, <2>3 DEF CountReport, DeleteRow, Answers, Places, WithRow
  <2>4. CASE Series(r) \/ Describe(r)
    BY <1>2, <2>4 DEF Series, Describe, Answers
  <2> QED
    BY <1>10, <2>1, <2>2, <2>3, <2>4
<1> QED
  BY <1>5, <1>6, <1>8, <1>9, <1>10 DEF Serve

(* A creation that has inserted its row stays one. *)
LEMMA InsertedStays ==
  ASSUME Typed, [Next]_vars, NEW q \in Requests, Inserted(q)
  PROVE  Inserted(q)'
<1>1. ASSUME NEW r \in Requests, OnlyMoves(r), r # q PROVE Inserted(q)'
  BY <1>1 DEF OnlyMoves, Inserted
<1>2. req[q].pc \in {"remember", "answered"} /\ req[q].op = "create"
  BY DEF Inserted
<1>3. CASE Remember(q)
  <2>1. Reply(q, "created")
    BY <1>3 DEF Remember
  <2>2. req'[q].pc = "answered" /\ req'[q].op = req[q].op
    BY <2>1, Replied DEF Answers
  <2> QED
    BY <1>2, <2>2 DEF Inserted
<1>4. ~Arrive(q) /\ (Serve(q) => Remember(q))
  <2>1. ~Arrive(q)
    BY <1>2, Started DEF At
  <2>2. Locals(q)
    BY DEF Typed
  <2> QED
    BY <1>2, <2>1, <2>2 DEF Serve, Replay, Limit, Screen, Insert, Generate, Lookup, Read, Fill,
         Click, Check, CountReport, DeleteRow, Evict, Series, Describe, At
<1> QED
  BY <1>1, <1>3, <1>4, Started, ServeKeepsTyped DEF Next, Tick, vars, Inserted

(* Every step keeps the owners of rows apart. *)
LEMMA StepKeepsOwned == Owned /\ [Next]_vars => Owned'
<1> SUFFICES ASSUME Owned, [Next]_vars PROVE Owned'
  OBVIOUS
<1>1. Counted /\ Counted' /\ Typed /\ Typed'
  BY StepKeepsCounted DEF Owned, Counted
<1>2. ASSUME NEW q \in Requests, req'[q].pc \in WithRow
      PROVE  \/ req'[q] = req[q]
             \/ /\ req'[q].code \in Codes /\ UNCHANGED urls
                /\ req'[q].link = urls[req'[q].code] /\ urls[req'[q].code] # None
  <2>1. ASSUME NEW r \in Requests, Arrive(r) PROVE req'[q] = req[q]
    <3>1. OnlyMoves(r) /\ req'[r].pc \notin WithRow
      BY <1>1, <2>1, Started DEF Arrived, WithRow
    <3> QED
      BY <1>2, <3>1 DEF OnlyMoves
  <2>2. ASSUME NEW r \in Requests, Serve(r), r # q PROVE req'[q] = req[q]
    BY <1>1, <2>2, ServeKeepsTyped DEF OnlyMoves
  <2>3. CASE Serve(q)
    BY <1>1, <1>2, <2>3, RowsRead
  <2>4. CASE Tick \/ UNCHANGED vars
    BY <2>4 DEF Tick, vars
  <2> QED
    BY <2>1, <2>2, <2>3, <2>4 DEF Next
<1>3. ASSUME NEW c \in Codes, urls'[c] # None
      PROVE  \/ /\ urls[c] # None /\ urls'[c].owner = urls[c].owner
                /\ urls[c].count \in Nat /\ urls'[c].count >= urls[c].count
             \/ \E r \in Requests : urls'[c].owner = r /\ ~Inserted(r) /\ Inserted(r)'
  <2>1. urls[c] # None => urls[c] \in Rows
    BY <1>1 DEF Typed, Stores
  <2>2. CASE urls'[c] = urls[c]
    BY <1>3, <2>1, <2>2 DEF Rows
  <2>3. ASSUME NEW r \in Requests, Inserts(r, c) \/ Clicks(r, c) \/ Reports(c) \/ Deletes(c)
        PROVE  \/ /\ urls[c] # None /\ urls'[c].owner = urls[c].owner
                  /\ urls[c].count \in Nat /\ urls'[c].count >= urls[c].count
               \/ urls'[c].owner = r /\ ~Inserted(r) /\ Inserted(r)'
    <3>1. CASE Inserts(r, c)
      BY <3>1 DEF Inserts
    <3>2. CASE Clicks(r, c)
      BY <2>1, <3>2 DEF Clicks, Rows
    <3>3. CASE Reports(c)
      BY <2>1, <3>3 DEF Reports, Rows
    <3> QED
      BY <1>3, <2>3, <3>1, <3>2, <3>3 DEF Deletes
  <2>4. ASSUME NEW r \in Requests, Serve(r)
        PROVE  urls'[c] = urls[c] \/ Inserts(r, c) \/ Clicks(r, c) \/ Reports(c) \/ Deletes(c)
    BY <1>1, <2>4, RowsWritten
  <2>5. ASSUME \E r \in Requests : Arrive(r) PROVE urls'[c] = urls[c]
    BY <1>1, <2>5, Started
  <2> QED
    BY <2>2, <2>3, <2>4, <2>5 DEF Next, Tick, vars
<1>4. /\ \A c \in Codes : urls[c] # None => urls[c] \in Rows
      /\ \A q \in Requests : /\ req[q].pc \in WithRow => req[q].link \in Rows
                             /\ req'[q].pc \in WithRow => req'[q].code \in Codes
  <2>1. \A q \in Requests : Locals(q) /\ Locals(q)'
    BY <1>1 DEF Typed
  <2> QED
    BY <1>1, <2>1 DEF Typed, Stores, Locals, WithRow, BeforeCode
<1>5. \A q \in Requests : Inserted(q) => Inserted(q)'
  BY <1>1, InsertedStays
<1>6. \A row \in Rows : row.owner \in Requests /\ row.count \in Nat
  BY DEF Rows
<1>7. OwnersInserted'
  <2> DEFINE After(q) == req'[q].op = "create" /\ req'[q].pc \in {"remember", "answered"}
  <2>1. \A q \in Requests : Inserted(q) \/ Inserted(q)' => After(q)
    BY <1>5 DEF Inserted
  <2>2. ASSUME NEW c \in Codes, urls'[c] # None PROVE After(urls'[c].owner)
    <3>1. urls[c] # None => Inserted(urls[c].owner) /\ urls[c].owner \in Requests
      BY <1>4, <1>6 DEF Owned, OwnersInserted
    <3> HIDE DEF After
    <3> QED
      BY <1>3, <2>1, <2>2, <3>1
  <2>3. ASSUME NEW q \in Requests, req'[q].pc \in WithRow PROVE After(req'[q].link.owner)
    <3>1. /\ req[q].pc \in WithRow => Inserted(req[q].link.owner)
          /\ req[q].pc \in WithRow => req[q].link.owner \in Requests
      BY <1>4, <1>6 DEF Owned, OwnersInserted
    <3>2. /\ req'[q].code \in Codes
          /\ urls[req'[q].code] # None => /\ Inserted(urls[req'[q].code].owner)
                                          /\ urls[req'[q].code].owner \in Requests
      BY <1>4, <1>6, <2>3 DEF Owned, OwnersInserted
    <3> HIDE DEF After
    <3> QED
      BY <1>2, <2>1, <2>3, <3>1, <3>2
  <2> QED
    BY <2>2, <2>3 DEF OwnersInserted, Inserted
<1>8. CountsGrow'
  <2> SUFFICES ASSUME NEW q \in Requests, req'[q].pc = "analytics",
                      urls'[req'[q].code] # None,
                      urls'[req'[q].code].owner = req'[q].link.owner
               PROVE  urls'[req'[q].code].count >= req'[q].link.count
    BY DEF CountsGrow, At
  <2>1. req'[q].pc \in WithRow /\ req'[q].code \in Codes
    BY <1>4 DEF WithRow
  <2>2. CASE req'[q] = req[q]
    <3>1. Inserted(req[q].link.owner) /\ req[q].link \in Rows /\ req[q].pc = "analytics"
      BY <1>4, <2>1, <2>2 DEF Owned, OwnersInserted
    <3>2. /\ urls[req[q].code] # None /\ urls'[req[q].code].owner = urls[req[q].code].owner
          /\ urls[req[q].code].count \in Nat
          /\ urls'[req[q].code].count >= urls[req[q].code].count
      BY <1>3, <2>1, <2>2, <3>1
    <3>3. urls[req[q].code].count >= req[q].link.count
      BY <2>2, <3>1, <3>2 DEF Owned, CountsGrow, At
    <3>4. urls'[req[q].code] \in Rows
      BY <1>1, <2>1, <2>2 DEF Typed, Stores
    <3> QED
      BY <1>6, <2>2, <3>1, <3>2, <3>3, <3>4
  <2>3. CASE /\ req'[q].code \in Codes /\ UNCHANGED urls
             /\ req'[q].link = urls[req'[q].code] /\ urls[req'[q].code] # None
    BY <1>4, <1>6, <2>3
  <2> QED
    BY <1>2, <2>1, <2>2, <2>3
<1> QED
  BY <1>1, <1>7, <1>8 DEF Owned

(* At first there are no rows. *)
LEMMA OwnedAtFirst == Init => Owned
<1> SUFFICES ASSUME Init PROVE Owned
  OBVIOUS
<1>1. (\A r \in Requests : req[r].pc = "new") /\ (\A c \in Codes : urls[c] = None)
  BY DEF Init, NotYet
<1> QED
  BY <1>1, CountedAtFirst DEF Owned, OwnersInserted, CountsGrow, At, WithRow

(* The total and the series of an analytics answer are read one after the  *)
(* other: the series may be ahead of the total, and shorter than it only   *)
(* if the URL was deleted in between (analytics.py:15-18).                 *)
THEOREM SeriesCoversTotalAlways == Spec => []SeriesCoversTotal
<1>1. Owned => SeriesCoversTotal
  <2> SUFFICES ASSUME Owned, NEW r \in Requests, req[r].pc = "analytics",
                      urls[req[r].code] # None,
                      urls[req[r].code].owner = req[r].link.owner
               PROVE  Total(clicks[req[r].code]) >= req[r].link.count
    BY DEF SeriesCoversTotal, At
  <2>1. req[r].code \in Codes
    <3>1. Locals(r)
      BY DEF Owned, Counted, Typed
    <3> QED
      BY <3>1 DEF Locals, BeforeCode
  <2>2. urls[req[r].code].count = Total(clicks[req[r].code])
    BY <2>1 DEF Owned, Counted, ClicksAgree
  <2>3. urls[req[r].code].count >= req[r].link.count
    BY DEF Owned, CountsGrow, At
  <2> QED
    BY <2>2, <2>3
<1> QED
  BY <1>1, OwnedAtFirst, StepKeepsOwned, PTL DEF Spec

-----------------------------------------------------------------------------
(* Requests that overlap *)

(* The forms of a step of a request: an answer, a move, perhaps with what  *)
(* it read, a candidate for a code, and the answer to a key.               *)
LEMMA Moves ==
  ASSUME Typed, NEW r \in Requests, Serve(r)
  PROVE  \/ \E answer \in Answers \ {"none"} : Reply(r, answer)
         \/ \E place \in Places \ {"new", "answered"} :
              \/ Goto(r, place)
              \/ \E link : req' = [req EXCEPT ![r].pc = place, ![r].link = link]
         \/ /\ At(r, "generate")
            /\ \/ \E c \in Codes : req' = [req EXCEPT ![r].pc = "insert", ![r].code = c]
               \/ req' = [req EXCEPT ![r].tries = Tried(r)]
         \/ /\ At(r, "replay")
            /\ \E c : req' = [req EXCEPT ![r].pc = "answered", ![r].answer = "replayed",
                                         ![r].code = c]
<1>1. Locals(r)
  BY DEF Typed
<1>2. CASE Replay(r) \/ Limit(r) \/ Screen(r) \/ Insert(r) \/ Remember(r)
  BY <1>2 DEF Replay, Limit, Screen, Insert, Remember, Answers, Places
<1>3. CASE \E c \in Codes : Generate(r, c)
  BY <1>3 DEF Generate, Answers
<1>4. CASE Lookup(r) \/ Read(r) \/ Fill(r) \/ Click(r)
  BY <1>4 DEF Lookup, Read, Fill, Click, Answers, Places
<1>5. CASE Check(r)
  <2>1. req[r].op \in Places \ {"new", "answered"}
    BY <1>1, <1>5 DEF Check, Locals, At, Places
  <2> QED
    BY <1>5, <2>1 DEF Check, Answers
<1>6. CASE CountReport(r) \/ DeleteRow(r) \/ Series(r) \/ Describe(r)
  BY <1>6 DEF CountReport, DeleteRow, Series, Describe, Answers, Places
<1>7. CASE Evict(r)
  <2>1. req[r].op \in {"redirect", "report", "delete"}
    BY <1>1, <1>7 DEF Evict, Locals, At
  <2> QED
    BY <1>7, <2>1 DEF Evict, Answers, Places
<1> QED
  BY <1>2, <1>3, <1>4, <1>5, <1>6, <1>7 DEF Serve

(* A step of a request keeps its arguments and does not move the clock. *)
LEMMA Served ==
  ASSUME Typed, NEW r \in Requests, Serve(r)
  PROVE  /\ r \in Active /\ UNCHANGED clock
         /\ req'[r].op = req[r].op /\ req'[r].key = req[r].key
         /\ req'[r].after = req[r].after /\ req'[r].barred = req[r].barred
         /\ req'[r].pc # "new"
         /\ ~At(r, "generate") /\ ~At(r, "replay") => req'[r].code = req[r].code
<1>1. req \in [Requests -> RequestStates] /\ req[r] \in RequestStates
  BY DEF Typed
<1>2. r \in Active
  BY DEF Serve, Replay, Limit, Screen, Insert, Remember, Generate, Lookup, Read, Fill, Click,
         Check, CountReport, DeleteRow, Evict, Series, Describe, At, Active
<1>3. UNCHANGED clock
  <2>1. ASSUME Replay(r) \/ Limit(r) \/ Screen(r) \/ Insert(r) \/ Remember(r)
        PROVE  clock' = clock
    BY <2>1 DEF Replay, Limit, Screen, Insert, Remember
  <2>2. ASSUME NEW c \in Codes, Generate(r, c) PROVE clock' = clock
    BY <2>2 DEF Generate
  <2>3. ASSUME Lookup(r) \/ Read(r) \/ Fill(r) \/ Click(r) PROVE clock' = clock
    BY <2>3 DEF Lookup, Read, Fill, Click
  <2>4. ASSUME \/ Check(r) \/ CountReport(r) \/ DeleteRow(r)
               \/ Evict(r) \/ Series(r) \/ Describe(r)
        PROVE  clock' = clock
    BY <2>4 DEF Check, CountReport, DeleteRow, Evict, Series, Describe
  <2> QED
    BY <2>1, <2>2, <2>3, <2>4 DEF Serve
<1> DEFINE Same(new) == /\ new.op = req[r].op /\ new.key = req[r].key
                        /\ new.after = req[r].after /\ new.barred = req[r].barred
                        /\ new.pc # "new"
                        /\ ~At(r, "generate") /\ ~At(r, "replay") => new.code = req[r].code
<1>4. ASSUME NEW answer \in Answers, Reply(r, answer) PROVE Same(req'[r])
  BY <1>4, Replied
<1>5. ASSUME NEW place \in Places \ {"new"},
             \/ Goto(r, place)
             \/ \E link : req' = [req EXCEPT ![r].pc = place, ![r].link = link]
      PROVE  Same(req'[r])
  BY <1>1, <1>5 DEF Goto, RequestStates
<1>6. ASSUME At(r, "generate"),
             \/ \E c \in Codes : req' = [req EXCEPT ![r].pc = "insert", ![r].code = c]
             \/ req' = [req EXCEPT ![r].tries = Tried(r)]
      PROVE  Same(req'[r])
  BY <1>1, <1>6 DEF RequestStates, At
<1>7. ASSUME At(r, "replay"), NEW c,
             req' = [req EXCEPT ![r].pc = "answered", ![r].answer = "replayed", ![r].code = c]
      PROVE  Same(req'[r])
  BY <1>1, <1>7 DEF RequestStates, At
<1>8. Same(req'[r])
  <2> HIDE DEF Same
  <2>1. ASSUME NEW answer \in Answers \ {"none"}, Reply(r, answer) PROVE Same(req'[r])
    BY <1>4, <2>1
  <2>2. ASSUME NEW place \in Places \ {"new", "answered"},
               \/ Goto(r, place)
               \/ \E link : req' = [req EXCEPT ![r].pc = place, ![r].link = link]
        PROVE  Same(req'[r])
    BY <1>5, <2>2
  <2> QED
    BY <1>6, <1>7, <2>1, <2>2, Moves
<1> QED
  BY <1>2, <1>3, <1>8

(* In a step, one request comes, or one moves on, or none does. *)
LEMMA WhoMoves ==
  ASSUME Typed, [Next]_vars
  PROVE  \/ \E r \in Requests : Arrive(r) /\ At(r, "new") /\ OnlyMoves(r)
         \/ \E r \in Requests : Serve(r) /\ r \in Active /\ OnlyMoves(r)
         \/ (Tick \/ UNCHANGED vars) /\ UNCHANGED <<urls, clicks, cache, idem, req>>
BY Started, Served, ServeKeepsTyped DEF Next, Tick, vars

(* What a request was answered stays. *)
LEMMA AnsweredStays ==
  ASSUME Typed, [Next]_vars, NEW q \in Requests, At(q, "answered")
  PROVE  req'[q] = req[q]
BY WhoMoves DEF At, Active, OnlyMoves

(* A request that has come keeps its arguments. *)
LEMMA ComeStays ==
  ASSUME Typed, [Next]_vars, NEW q \in Requests, ~At(q, "new")
  PROVE  /\ ~At(q, "new")' /\ req'[q].op = req[q].op /\ req'[q].key = req[q].key
         /\ req'[q].after = req[q].after /\ req'[q].barred = req[q].barred
         /\ ~At(q, "generate") /\ ~At(q, "replay") => req'[q].code = req[q].code
<1>1. CASE req'[q] = req[q]
  BY <1>1 DEF At
<1>2. CASE Serve(q)
  BY <1>2, Served DEF At
<1> QED
  BY <1>1, <1>2, WhoMoves DEF OnlyMoves

(* The requests that one came after have been answered. *)
Past == \A r, q \in Requests : q \in req[r].after => At(q, "answered")

LEMMA StepKeepsPast ==
  ASSUME Typed, Past, [Next]_vars
  PROVE  Past'
<1> SUFFICES ASSUME NEW r \in Requests, NEW q \in Requests, q \in req'[r].after
             PROVE  req'[q].pc = "answered"
  BY DEF Past, At
<1>1. At(q, "answered")
  <2>1. CASE At(r, "new")
    <3>1. req'[r] = req[r] \/ Arrive(r)
      BY <2>1, WhoMoves DEF At, Active, OnlyMoves
    <3> QED
      BY <3>1, Started DEF Past, Arrived
  <2>2. CASE ~At(r, "new")
    BY <2>2, ComeStays DEF Past
  <2> QED
    BY <2>1, <2>2
<1> QED
  BY <1>1, AnsweredStays DEF At

(* Requests that are being served at the same time overlap. *)
LEMMA ActiveOverlap ==
  ASSUME Past, NEW q \in Active, NEW r \in Active
  PROVE  Overlapped(q, r)
BY DEF Past, Active, At, Overlapped

(* Requests that overlapped once always did. *)
LEMMA OverlapStays ==
  ASSUME Typed, [Next]_vars, NEW q \in Requests, NEW r \in Requests,
         ~At(q, "new"), ~At(r, "new"), Overlapped(q, r)
  PROVE  Overlapped(q, r)'
BY ComeStays DEF Overlapped

(* What a request has written, and overlapped, stays so. *)
LEMMA WroteStays ==
  ASSUME Typed, [Next]_vars, NEW q \in Requests, NEW op \in {"delete", "report"}, NEW c,
         Wrote(q, op, c)
  PROVE  ~At(q, "new") /\ Wrote(q, op, c)'
<1>1. Locals(q) /\ req[q] \in RequestStates
  BY DEF Typed
<1>2. At(q, "evict") \/ At(q, "answered")
  BY <1>1 DEF Wrote, Locals, At
<1>3. CASE At(q, "answered")
  BY <1>3, AnsweredStays DEF Wrote, At
<1>4. CASE At(q, "evict") /\ req'[q] # req[q]
  <2>1. Serve(q)
    BY <1>4, WhoMoves DEF At, OnlyMoves
  <2>2. Evict(q)
    BY <1>4, <2>1 DEF Serve, Replay, Limit, Screen, Insert, Remember, Generate, Lookup, Read,
         Fill, Click, Check, CountReport, DeleteRow, Series, Describe, At
  <2>3. \E answer \in {"deleted", "reported"} : Reply(q, answer)
    BY <2>2 DEF Evict, Wrote
  <2>4. req'[q].answer \in {"deleted", "reported"} /\ req'[q].op = op /\ req'[q].code = c
    BY <2>3, Replied DEF Answers, Wrote
  <2> QED
    BY <1>4, <2>4 DEF Wrote, At
<1> QED
  BY <1>2, <1>3, <1>4 DEF Wrote, At

LEMMA WrittenStays ==
  ASSUME Typed, [Next]_vars, NEW r \in Requests, ~At(r, "new"),
         NEW op \in {"delete", "report"}, NEW c, WrittenDuring(r, op, c)
  PROVE  WrittenDuring(r, op, c)'
<1>1. PICK q \in Requests : Wrote(q, op, c) /\ Overlapped(q, r)
  BY DEF WrittenDuring
<1>2. Wrote(q, op, c)' /\ Overlapped(q, r)'
  BY <1>1, WroteStays, OverlapStays
<1> QED
  BY <1>2 DEF WrittenDuring

-----------------------------------------------------------------------------
(* What the cache holds *)

(* What a redirect that has read a row caches. *)
Caches(r) == [code |-> req[r].code, owner |-> req[r].link.owner,
              expires |-> req[r].link.expires, by |-> r]

(* An entry of the cache was there before or has just been filled in, and  *)
(* an eviction leaves none for its code.                                   *)
LEMMA CacheWritten ==
  ASSUME Typed, [Next]_vars, NEW n \in 1 .. Len(cache')
  PROVE  /\ \/ \E m \in 1 .. Len(cache) : cache'[n] = cache[m]
            \/ \E r \in Requests : Fill(r) /\ cache'[n] = Caches(r)
         /\ \A r \in Requests : Evict(r) => cache'[n].code # req[r].code
<1>1. Stores
  BY DEF Typed
<1> DEFINE Before == \E m \in 1 .. Len(cache) : cache'[n] = cache[m]
<1>2. ASSUME UNCHANGED cache PROVE Before
  BY <1>2
<1>3. ASSUME NEW r \in Requests, Evict(r) PROVE Before /\ cache'[n].code # req[r].code
  <2>1. cache' = Dropped(req[r].code) /\ req[r].code \in Codes
    <3>1. Locals(r)
      BY DEF Typed
    <3> QED
      BY <1>3, <3>1 DEF Evict, Invalidated, Locals, At, BeforeCode
  <2> QED
    BY <1>1, <2>1, DroppedFromCache
<1>4. ASSUME NEW r \in Requests, Lookup(r) PROVE Before
  <2> DEFINE c == req[r].code
             e == Cached(c)
  <2>1. c \in Codes
    <3>1. Locals(r)
      BY DEF Typed
    <3> QED
      BY <1>4, <3>1 DEF Lookup, Locals, At, BeforeCode
  <2>2. CASE CachedAt(c) = {}
    BY <1>2, <1>4, <2>2 DEF Lookup
  <2>3. CASE CachedAt(c) # {}
    <3>1. e \in Entries /\ e.code = c /\ \E j \in 1 .. Len(cache) : e = cache[j]
      BY <1>1, <2>1, <2>3, DroppedFromCache
    <3>2. cache' = Append(Dropped(e.code), e)
      BY <1>4, <2>3, <3>1 DEF Lookup
    <3> HIDE DEF e, c
    <3> DEFINE longer == Append(Dropped(e.code), e)
    <3>3. \A i \in 1 .. Len(longer) : longer[i] = e \/ \E j \in 1 .. Len(cache) : longer[i] = cache[j]
      BY <1>1, <3>1, PutInCache
    <3> HIDE DEF longer
    <3>4. cache' = longer
      BY <3>2 DEF longer
    <3>5. cache'[n] = e \/ \E j \in 1 .. Len(cache) : cache'[n] = cache[j]
      BY <3>3, <3>4
    <3> QED
      BY <3>1, <3>5
  <2> QED
    BY <2>2, <2>3
<1>5. ASSUME NEW r \in Requests, Fill(r) PROVE Before \/ cache'[n] = Caches(r)
  <2>1. cache' = Stored(Caches(r))
    BY <1>5 DEF Fill, Caches
  <2>2. Caches(r) \in Entries
    <3>1. Locals(r)
      BY DEF Typed
    <3>2. req[r].code \in Codes /\ req[r].link \in Rows
      BY <1>5, <3>1 DEF Fill, Locals, At, BeforeCode, WithRow
    <3> QED
      BY <3>2 DEF Caches, Entries, Rows
  <2> HIDE DEF Before
  <2>3. Before \/ cache'[n] = Caches(r)
    BY <1>1, <2>1, <2>2, StoredInCache DEF Before
  <2> QED
    BY <2>3
<1>6. ASSUME NEW r \in Requests, Serve(r)
      PROVE  UNCHANGED cache \/ Evict(r) \/ Lookup(r) \/ Fill(r)
  <2>1. ASSUME Replay(r) \/ Limit(r) \/ Screen(r) \/ Insert(r) \/ Remember(r)
        PROVE  UNCHANGED cache
    BY <2>1 DEF Replay, Limit, Screen, Insert, Remember
  <2>2. ASSUME NEW c \in Codes, Generate(r, c) PROVE UNCHANGED cache
    BY <2>2 DEF Generate
  <2>3. ASSUME Read(r) \/ Click(r) PROVE UNCHANGED cache
    BY <2>3 DEF Read, Click
  <2>4. ASSUME \/ Check(r) \/ CountReport(r) \/ DeleteRow(r) \/ Series(r) \/ Describe(r)
        PROVE  UNCHANGED cache
    BY <2>4 DEF Check, CountReport, DeleteRow, Series, Describe
  <2> QED
    BY <1>6, <2>1, <2>2, <2>3, <2>4 DEF Serve
<1>7. ASSUME NEW r \in Requests, Arrive(r) PROVE UNCHANGED cache
  BY <1>7, Started
<1>8. Before \/ \E r \in Requests : Fill(r) /\ cache'[n] = Caches(r)
  <2> HIDE DEF Before
  <2> QED
    BY <1>2, <1>3, <1>4, <1>5, <1>6, <1>7 DEF Next, Tick, vars
<1> QED
  BY <1>3, <1>8

(* The link of a redirect that is about to count a click comes from the    *)
(* cache or from the row it has read.                                      *)
LEMMA LinkTaken ==
  ASSUME Typed, NEW r \in Requests, Serve(r), req'[r].pc = "click"
  PROVE  /\ UNCHANGED urls /\ req'[r].code = req[r].code /\ req[r].code \in Codes
         /\ \/ /\ Lookup(r)
               /\ \E m \in 1 .. Len(cache) : req'[r].link = cache[m] /\ cache[m].code = req[r].code
            \/ Fill(r) /\ req'[r].link = Caches(r)
<1>1. Locals(r) /\ req \in [Requests -> RequestStates] /\ req[r] \in RequestStates /\ Stores
  BY DEF Typed
<1>2. ASSUME NEW answer \in Answers, Reply(r, answer) PROVE FALSE
  BY <1>2, Replied
<1>3. ASSUME NEW place \in Places \ {"click"}, Goto(r, place) PROVE FALSE
  BY <1>1, <1>3 DEF Goto, RequestStates
<1>4. ASSUME NEW place \in Places \ {"click"}, NEW value,
             \/ req' = [req EXCEPT ![r].pc = place, ![r].link = value]
             \/ req' = [req EXCEPT ![r].pc = place, ![r].code = value]
             \/ req' = [req EXCEPT ![r].pc = place, ![r].answer = "replayed", ![r].code = value]
      PROVE  FALSE
  BY <1>1, <1>4 DEF RequestStates
<1>5. CASE Lookup(r)
  <2> DEFINE c == req[r].code
  <2>1. c \in Codes
    BY <1>1, <1>5 DEF Lookup, Locals, At, BeforeCode
  <2>2. CachedAt(c) # {} /\ req' = [req EXCEPT ![r].pc = "click", ![r].link = Cached(c)]
    BY <1>3, <1>5 DEF Lookup, Places
  <2>3. Cached(c).code = c /\ \E j \in 1 .. Len(cache) : Cached(c) = cache[j]
    BY <1>1, <2>1, <2>2, DroppedFromCache
  <2>4. req'[r].link = Cached(c) /\ req'[r].code = c
    BY <1>1, <2>2 DEF RequestStates
  <2>5. UNCHANGED urls
    BY <1>5 DEF Lookup
  <2> QED
    BY <1>5, <2>1, <2>3, <2>4, <2>5
<1>6. CASE Fill(r)
  <2>1. req' = [req EXCEPT ![r].pc = "click", ![r].link = Caches(r)] /\ UNCHANGED urls
    BY <1>6 DEF Fill, Caches
  <2>2. req'[r].link = Caches(r) /\ req'[r].code = req[r].code
    BY <1>1, <2>1 DEF RequestStates
  <2>3. req[r].code \in Codes
    BY <1>1, <1>6 DEF Fill, Locals, At, BeforeCode
  <2> QED
    BY <1>6, <2>1, <2>2, <2>3
<1>7. CASE Replay(r) \/ Limit(r) \/ Screen(r) \/ Insert(r) \/ Remember(r)
  BY <1>2, <1>3, <1>4, <1>7 DEF Replay, Limit, Screen, Insert, Remember, Answers, Places
<1>8. CASE \E c \in Codes : Generate(r, c)
  <2>1. ASSUME req' = [req EXCEPT ![r].tries = Tried(r)], At(r, "generate") PROVE FALSE
    BY <1>1, <2>1 DEF RequestStates, At
  <2> QED
    BY <1>2, <1>4, <1>8, <2>1 DEF Generate, Answers, Places
<1>9. CASE Read(r) \/ Click(r)
  BY <1>2, <1>4, <1>9 DEF Read, Click, Answers, Places
<1>10. CASE Check(r)
  <2>1. req[r].op \in {"report", "delete", "analytics"}
    BY <1>1, <1>10 DEF Check, Locals, At
  <2>2. req[r].op \in Places \ {"click"}
    BY <2>1 DEF Places
  <2>3. ASSUME NEW answer \in {"missing", "error", "forbidden"}, Reply(r, answer) PROVE FALSE
    BY <1>2, <2>3 DEF Answers
  <2>4. ASSUME req' = [req EXCEPT ![r].pc = req[r].op, ![r].link = urls[req[r].code]]
        PROVE  FALSE
    BY <1>4, <2>2, <2>4
  <2> QED
    BY <1>10, <2>3, <2>4 DEF Check
<1>11. CASE CountReport(r) \/ DeleteRow(r) \/ Series(r) \/ Describe(r)
  <2>1. CASE CountReport(r) \/ DeleteRow(r)
    BY <1>2, <1>3, <2>1 DEF CountReport, DeleteRow, Answers, Places
  <2>2. CASE Series(r) \/ Describe(r)
    BY <1>2, <2>2 DEF Series, Describe, Answers
  <2> QED
    BY <1>11, <2>1, <2>2
<1>12. CASE Evict(r)
  <2>1. req[r].op \in {"redirect", "report", "delete"}
    BY <1>1, <1>12 DEF Evict, Locals, At
  <2> QED
    BY <1>2, <1>3, <1>12, <2>1 DEF Evict, Answers, Places
<1> QED
  BY <1>5, <1>6, <1>7, <1>8, <1>9, <1>10, <1>11, <1>12 DEF Serve

(* The owners of what is cached have inserted their row, and who cached it *)
(* has come.                                                               *)
Known(entry) == Inserted(entry.owner) /\ ~At(entry.by, "new")
EntriesKnown ==
    /\ \A n \in 1 .. Len(cache) : Known(cache[n])
    /\ \A r \in Requests : At(r, "click") => Known(req[r].link)

LEMMA KnownStays ==
  ASSUME Typed, [Next]_vars, NEW entry \in Entries, Known(entry)
  PROVE  Known(entry)'
<1>1. entry.owner \in Requests /\ entry.by \in Requests
  BY DEF Entries
<1>2. Inserted(entry.owner)' /\ ~At(entry.by, "new")'
  BY <1>1, InsertedStays, ComeStays DEF Known
<1> QED
  BY <1>2 DEF Known

LEMMA StepKeepsKnown ==
  ASSUME Owned, EntriesKnown, [Next]_vars
  PROVE  EntriesKnown'
<1>1. Typed /\ Typed' /\ OwnersInserted
  BY StepKeepsTyped DEF Owned, Counted
<1>2. \A n \in 1 .. Len(cache) : cache[n] \in Entries
  BY <1>1, ElementOfSeq DEF Typed, Stores
<1>3. ASSUME NEW r \in Requests, Fill(r) PROVE Caches(r) \in Entries /\ Known(Caches(r))
  <2>1. Locals(r)
    BY <1>1 DEF Typed
  <2>2. req[r].pc = "fill" /\ req[r].code \in Codes /\ req[r].link \in Rows
    BY <1>3, <2>1 DEF Fill, Locals, At, BeforeCode, WithRow
  <2>3. Inserted(req[r].link.owner)
    BY <1>1, <2>2 DEF OwnersInserted, WithRow
  <2> QED
    BY <2>2, <2>3 DEF Caches, Entries, Rows, Known, At
<1>4. ASSUME NEW n \in 1 .. Len(cache') PROVE Known(cache[n])'
  <2>1. PICK entry \in Entries : cache'[n] = entry /\ Known(entry)
    BY <1>1, <1>2, <1>3, CacheWritten DEF EntriesKnown
  <2> QED
    BY <1>1, <2>1, KnownStays
<1>5. ASSUME NEW r \in Requests, At(r, "click")' PROVE Known(req[r].link)'
  <2>1. PICK entry \in Entries : req'[r].link = entry /\ Known(entry)
    <3>1. CASE req'[r] = req[r]
      <4>1. Locals(r) /\ At(r, "click")
        BY <1>1, <1>5, <3>1 DEF Typed, At
      <4> QED
        BY <3>1, <4>1 DEF Locals, At, EntriesKnown
    <3>2. CASE Serve(r)
      BY <1>1, <1>2, <1>3, <1>5, <3>2, LinkTaken DEF At, EntriesKnown
    <3>3. CASE Arrive(r)
      BY <1>1, <1>5, <3>3, Started DEF Arrived, At
    <3> QED
      BY <1>1, <3>1, <3>2, <3>3, WhoMoves DEF OnlyMoves
  <2> QED
    BY <1>1, <2>1, KnownStays
<1> QED
  BY <1>4, <1>5 DEF EntriesKnown

-----------------------------------------------------------------------------
(* What is read stays true, or somebody overlaps the change *)

(* A delete or a report of c has written and has not evicted yet. *)
Evicts(q, op, c) == At(q, "evict") /\ req[q].op = op /\ req[q].code = c

(* What may happen to a URL that somebody has read: a delete that is now   *)
(* to evict takes it away for good, or a report that is now to evict flags *)
(* it.                                                                     *)
LEMMA Rewritten ==
  ASSUME Owned, [Next]_vars, NEW c \in Codes, NEW owner \in Requests, Inserted(owner)
  PROVE  /\ Gone(c, owner) => Gone(c, owner)'
         /\ ~Gone(c, owner) /\ Gone(c, owner)' => \E q \in Active : Evicts(q, "delete", c)'
         /\ ~Gone(c, owner) /\ ~Gone(c, owner)' =>
              /\ urls'[c].expires = urls[c].expires
              /\ urls[c].flagged => urls'[c].flagged
              /\ ~urls[c].flagged /\ urls'[c].flagged => \E q \in Active : Evicts(q, "report", c)'
<1>1. Typed /\ Stores
  BY DEF Owned, Counted, Typed
<1>2. CASE UNCHANGED urls
  BY <1>2 DEF Gone
<1>3. ASSUME NEW q \in Requests, Serve(q), q \in Active, OnlyMoves(q), ~UNCHANGED urls,
             req[q].code # c
      PROVE  UNCHANGED <<urls[c]>>
  BY <1>1, <1>3, RowsWritten
<1>4. ASSUME NEW q \in Requests, Serve(q), q \in Active, OnlyMoves(q), ~UNCHANGED urls,
             req[q].code = c
      PROVE  \/ Inserts(q, c) \/ Clicks(q, c)
             \/ Reports(c) /\ (urls'[c].flagged => Evicts(q, "report", c)')
             \/ Deletes(c) /\ Evicts(q, "delete", c)'
  <2>1. Locals(q) /\ req[q] \in RequestStates
    BY <1>1 DEF Typed
  <2>2. ASSUME NEW op \in {"report", "delete"}, req[q].pc = op, Goto(q, "evict")
        PROVE  Evicts(q, op, c)'
    <3>1. req'[q] = [req[q] EXCEPT !.pc = "evict"]
      BY <1>1, <2>2, Went DEF Places
    <3>2. req'[q].pc = "evict" /\ req'[q].op = req[q].op /\ req'[q].code = c
      BY <1>4, <2>1, <3>1 DEF RequestStates
    <3> QED
      BY <2>1, <2>2, <3>2 DEF Evicts, At, Locals
  <2>3. CASE CountReport(q) /\ Reports(c)
    <3> DEFINE counted == [urls[c] EXCEPT !.reports = @ + 1]
               flagged == urls[c].flagged \/ Flags(counted)
    <3>1. urls[c] \in Rows /\ req[q].pc = "report"
      BY <1>1, <2>3 DEF Reports, Stores, CountReport, At
    <3>2. /\ urls' = [urls EXCEPT ![c] = [counted EXCEPT !.flagged = flagged]]
          /\ flagged => Goto(q, "evict")
      BY <1>4, <2>3 DEF CountReport, Reports
    <3>3. urls'[c].flagged = flagged
      <4>1. flagged \in BOOLEAN /\ counted \in Rows
        BY <3>1 DEF Rows
      <4> HIDE DEF counted, flagged
      <4>2. urls'[c] = [counted EXCEPT !.flagged = flagged]
        BY <1>1, <3>2 DEF Stores
      <4> QED
        BY <4>1, <4>2 DEF Rows
    <3> HIDE DEF flagged
    <3> QED
      BY <2>2, <2>3, <3>1, <3>2, <3>3
  <2>4. CASE DeleteRow(q) /\ Deletes(c)
    BY <2>2, <2>4 DEF DeleteRow, At
  <2>5. \/ Inserts(q, c) \/ Clicks(q, c)
        \/ CountReport(q) /\ Reports(c)
        \/ DeleteRow(q) /\ Deletes(c)
    BY <1>1, <1>4, RowsWritten
  <2> HIDE DEF Inserts, Clicks, Reports, Deletes
  <2> QED
    BY <2>3, <2>4, <2>5
<1>5. ASSUME NEW q \in Requests, Inserts(q, c) PROVE Gone(c, owner) /\ Gone(c, owner)'
  BY <1>5 DEF Inserts, Gone
<1>6. ASSUME NEW q \in Requests, Clicks(q, c) \/ Reports(c)
      PROVE  /\ Gone(c, owner) <=> Gone(c, owner)'
             /\ urls'[c].expires = urls[c].expires /\ (urls[c].flagged => urls'[c].flagged)
             /\ Clicks(q, c) => urls'[c].flagged = urls[c].flagged
  <2>1. CASE Clicks(q, c)
    <3>1. urls[c] \in Rows /\ urls'[c] # None /\ urls'[c] = [urls[c] EXCEPT !.count = @ + 1]
      BY <1>1, <2>1 DEF Clicks, Stores
    <3>2. /\ urls'[c].owner = urls[c].owner /\ urls'[c].expires = urls[c].expires
          /\ urls'[c].flagged = urls[c].flagged
      BY <3>1 DEF Rows
    <3> QED
      BY <2>1, <3>1, <3>2 DEF Gone, Clicks
  <2>2. CASE Reports(c) /\ ~Clicks(q, c)
    BY <2>2 DEF Reports, Gone
  <2> QED
    BY <1>6, <2>1, <2>2
<1>7. ASSUME Deletes(c) PROVE Gone(c, owner)'
  BY <1>7 DEF Deletes, Gone
<1>8. CASE UNCHANGED <<urls[c]>>
  BY <1>8 DEF Gone
<1> DEFINE Goal ==
             /\ Gone(c, owner) => Gone(c, owner)'
             /\ ~Gone(c, owner) /\ Gone(c, owner)' => \E q \in Active : Evicts(q, "delete", c)'
             /\ ~Gone(c, owner) /\ ~Gone(c, owner)' =>
                  /\ urls'[c].expires = urls[c].expires
                  /\ urls[c].flagged => urls'[c].flagged
                  /\ ~urls[c].flagged /\ urls'[c].flagged =>
                       \E q \in Active : Evicts(q, "report", c)'
<1>9. ASSUME NEW q \in Requests, Serve(q), q \in Active, OnlyMoves(q), ~UNCHANGED urls,
             req[q].code = c
      PROVE  Goal
  <2>1. CASE Inserts(q, c)
    BY <1>5, <2>1
  <2>2. CASE Clicks(q, c)
    BY <1>6, <2>2
  <2>3. CASE Reports(c) /\ (urls'[c].flagged => Evicts(q, "report", c)')
    BY <1>6, <1>9, <2>3
  <2>4. CASE Deletes(c) /\ Evicts(q, "delete", c)'
    BY <1>7, <1>9, <2>4
  <2> QED
    BY <1>4, <1>9, <2>1, <2>2, <2>3, <2>4
<1>10. ASSUME UNCHANGED urls \/ UNCHANGED <<urls[c]>> PROVE Goal
  BY <1>2, <1>8, <1>10
<1> HIDE DEF Goal
<1>11. Goal
  BY <1>1, <1>3, <1>9, <1>10, WhoMoves, Started
<1> QED
  BY <1>11 DEF Goal

(* A link holds what the row does, unless there is an excuse. *)
Sound(c, link, deleted, reported) ==
    IF Gone(c, link.owner) THEN deleted
    ELSE link.expires = urls[c].expires /\ (urls[c].flagged => reported)

(* Whoever changes a row while r is served overlaps r. *)
LEMMA NowExcused ==
  ASSUME Typed, Past, [Next]_vars, NEW r \in Active, NEW q \in Active, NEW op, NEW c,
         Evicts(q, op, c)'
  PROVE  WrittenDuring(r, op, c)'
<1>1. q \in Requests /\ r \in Requests /\ ~At(q, "new") /\ ~At(r, "new")
  BY DEF Active, At
<1>2. Overlapped(q, r)'
  BY <1>1, ActiveOverlap, OverlapStays
<1> QED
  BY <1>1, <1>2 DEF WrittenDuring, Wrote, Evicts

Excused(entry, op) == Evicting(op, entry.code) \/ WrittenDuring(entry.by, op, entry.code)
LinkExcused(r, op) ==
    \/ WrittenDuring(r, op, req[r].code)
    \/ At(r, "click") /\ WrittenDuring(req[r].link.by, op, req[r].code)

(* What is in the cache, and what the requests have read, is current, but  *)
(* for what overlapped the reading or has not evicted yet.                 *)
EntriesCurrent ==
    \A n \in 1 .. Len(cache) :
        Sound(cache[n].code, cache[n], Excused(cache[n], "delete"), Excused(cache[n], "report"))
LinksCurrent ==
    \A r \in Requests : req[r].pc \in WithRow \cup {"click"} =>
        Sound(req[r].code, req[r].link, LinkExcused(r, "delete"),
              req[r].pc \in {"fill", "click"} => LinkExcused(r, "report"))

(* What is evicted is evicted by one that evicts, or is being evicted. *)
LEMMA EvictingStays ==
  ASSUME Typed, [Next]_vars, NEW c, NEW op, Evicting(op, c),
         \A r \in Requests : Evict(r) => c # req[r].code
  PROVE  Evicting(op, c)'
<1>1. PICK q \in Requests : Evicts(q, op, c)
  BY DEF Evicting, Evicts
<1>2. ASSUME Serve(q) PROVE Evict(q)
  BY <1>1, <1>2 DEF Serve, Replay, Limit, Screen, Insert, Remember, Generate, Lookup, Read,
     Fill, Click, Check, CountReport, DeleteRow, Series, Describe, At, Evicts
<1>3. req'[q] = req[q]
  BY <1>1, <1>2, WhoMoves DEF Evicts, At, OnlyMoves
<1> QED
  BY <1>1, <1>3 DEF Evicting, Evicts, At

Current == Owned /\ Past /\ EntriesKnown /\ EntriesCurrent /\ LinksCurrent

(* Every step keeps the entries of the cache current. *)
LEMMA StepKeepsEntries ==
  ASSUME Current, [Next]_vars
  PROVE  EntriesCurrent'
<1> SUFFICES ASSUME NEW n \in 1 .. Len(cache')
             PROVE  Sound(cache[n].code, cache[n], Excused(cache[n], "delete"),
                          Excused(cache[n], "report"))'
  BY DEF EntriesCurrent
<1>1. Owned /\ Past /\ EntriesKnown /\ Typed /\ Typed' /\ OwnersInserted /\ EntriesCurrent
  BY StepKeepsTyped DEF Current, Owned, Counted
<1>2. \A m \in 1 .. Len(cache) : cache[m] \in Entries
  BY <1>1, ElementOfSeq DEF Typed, Stores
<1>3. ASSUME NEW m \in 1 .. Len(cache), cache'[n] = cache[m]
      PROVE  Sound(cache[n].code, cache[n], Excused(cache[n], "delete"),
                   Excused(cache[n], "report"))'
  <2>1. PICK entry \in Entries : entry = cache[m]
    BY <1>2
  <2> DEFINE c == entry.code
  <2>2. c \in Codes /\ entry.owner \in Requests /\ entry.by \in Requests
    BY DEF Entries
  <2>3. Inserted(entry.owner) /\ ~At(entry.by, "new")
    BY <1>1, <2>1 DEF EntriesKnown, Known
  <2>4. Sound(c, entry, Excused(entry, "delete"), Excused(entry, "report"))
    BY <1>1, <2>1 DEF EntriesCurrent
  <2>5. \A r \in Requests : Evict(r) => c # req[r].code
    BY <1>1, <1>3, <2>1, CacheWritten
  <2>6. ASSUME NEW op \in {"delete", "report"},
               Excused(entry, op) \/ \E q \in Active : Evicts(q, op, c)'
        PROVE  Excused(entry, op)'
    <3>1. CASE WrittenDuring(entry.by, op, c)
      BY <1>1, <2>2, <2>3, <3>1, WrittenStays DEF Excused
    <3>2. CASE Evicting(op, c)
      BY <1>1, <2>5, <3>2, EvictingStays DEF Excused
    <3>3. CASE \E q \in Active : Evicts(q, op, c)'
      BY <3>3 DEF Excused, Evicting, Evicts, Active
    <3> QED
      BY <2>6, <3>1, <3>2, <3>3 DEF Excused
  <2>7. Sound(c, entry, Excused(entry, "delete"), Excused(entry, "report"))'
    <3> DEFINE deleted == Excused(entry, "delete")
               reported == Excused(entry, "report")
    <3>1. deleted \/ (\E q \in Active : Evicts(q, "delete", c)') => deleted'
      BY <2>6
    <3>2. reported \/ (\E q \in Active : Evicts(q, "report", c)') => reported'
      BY <2>6
    <3>3. Sound(c, entry, deleted, reported)
      BY <2>4
    <3> HIDE DEF deleted, reported, c
    <3>4. Sound(c, entry, deleted, reported)'
      <4>1. CASE Gone(c, entry.owner)
        BY <1>1, <2>2, <2>3, <3>1, <3>3, <4>1, Rewritten DEF Sound
      <4>2. CASE ~Gone(c, entry.owner)
        BY <1>1, <2>2, <2>3, <3>1, <3>2, <3>3, <4>2, Rewritten DEF Sound
      <4> QED
        BY <4>1, <4>2
    <3> QED
      BY <3>4 DEF deleted, reported, c
  <2>8. cache'[n] = entry
    BY <1>3, <2>1
  <2> QED
    BY <2>7, <2>8 DEF Sound, Excused
<1>4. ASSUME NEW r \in Requests, Fill(r), cache'[n] = Caches(r)
      PROVE  Sound(cache[n].code, cache[n], Excused(cache[n], "delete"),
                   Excused(cache[n], "report"))'
  <2>1. req[r].pc = "fill" /\ UNCHANGED urls /\ ~At(r, "new")
    BY <1>4 DEF Fill, At
  <2>2. PICK c, owner, expires :
          /\ c = req[r].code /\ owner = req[r].link.owner /\ expires = req[r].link.expires
          /\ cache'[n] = [code |-> c, owner |-> owner, expires |-> expires, by |-> r]
    BY <1>4 DEF Caches
  <2>3. Sound(c, req[r].link, WrittenDuring(r, "delete", c), WrittenDuring(r, "report", c))
    BY <2>1, <2>2 DEF Current, LinksCurrent, WithRow, LinkExcused, At, Sound
  <2>4. ASSUME NEW op \in {"delete", "report"}, WrittenDuring(r, op, c)
        PROVE  WrittenDuring(r, op, c)'
    BY <1>1, <2>1, <2>4, WrittenStays
  <2> QED
    BY <2>1, <2>2, <2>3, <2>4 DEF Sound, Gone, Excused
<1> QED
  BY <1>1, <1>3, <1>4, CacheWritten

(* Every step keeps what the requests have read current. *)
LEMMA StepKeepsLinks ==
  ASSUME Current, [Next]_vars
  PROVE  LinksCurrent'
<1> DEFINE Right(r) == Sound(req[r].code, req[r].link, LinkExcused(r, "delete"),
                             req[r].pc \in {"fill", "click"} => LinkExcused(r, "report"))
<1> SUFFICES ASSUME NEW r \in Requests, req'[r].pc \in WithRow \cup {"click"}
             PROVE  Right(r)'
  BY DEF LinksCurrent
<1>1. Owned /\ Past /\ EntriesKnown /\ Typed /\ Typed' /\ OwnersInserted /\ LinksCurrent
  BY StepKeepsTyped DEF Current, Owned, Counted
<1>2. CASE req'[r] = req[r]
  <2>1. PICK c, link, pc : req[r].code = c /\ req[r].link = link /\ req[r].pc = pc
    OBVIOUS
  <2>2. Locals(r) /\ pc \in WithRow \cup {"click"} /\ r \in Active /\ ~At(r, "new")
    BY <1>1, <1>2, <2>1 DEF Typed, Active, At, WithRow
  <2>3. /\ c \in Codes /\ link.owner \in Requests /\ Inserted(link.owner)
        /\ pc = "click" => link.by \in Requests /\ ~At(link.by, "new")
    BY <1>1, <2>1, <2>2 DEF Locals, BeforeCode, WithRow, Rows, Entries, OwnersInserted,
       EntriesKnown, Known, At
  <2> DEFINE Excuse(op) == \/ WrittenDuring(r, op, c)
                           \/ pc = "click" /\ WrittenDuring(link.by, op, c)
             deleted == Excuse("delete")
             reported == pc \in {"fill", "click"} => Excuse("report")
  <2>4. Sound(c, link, deleted, reported)
    BY <1>1, <2>1, <2>2 DEF LinksCurrent, LinkExcused, At, Sound
  <2>5. ASSUME NEW op \in {"delete", "report"},
               Excuse(op) \/ \E q \in Active : Evicts(q, op, c)'
        PROVE  Excuse(op)'
    <3>1. ASSUME NEW q \in Active, Evicts(q, op, c)' PROVE WrittenDuring(r, op, c)'
      BY <1>1, <2>2, <3>1, NowExcused
    <3>2. ASSUME WrittenDuring(r, op, c) PROVE WrittenDuring(r, op, c)'
      BY <1>1, <2>2, <3>2, WrittenStays
    <3>3. ASSUME pc = "click", WrittenDuring(link.by, op, c) PROVE WrittenDuring(link.by, op, c)'
      BY <1>1, <2>3, <3>3, WrittenStays
    <3> QED
      BY <2>5, <3>1, <3>2, <3>3
  <2>6. deleted \/ (\E q \in Active : Evicts(q, "delete", c)') => deleted'
    BY <2>5
  <2>7. reported \/ (\E q \in Active : Evicts(q, "report", c)') => reported'
    BY <2>5
  <2> HIDE DEF deleted, reported
  <2>8. Sound(c, link, deleted, reported)'
    <3>1. CASE Gone(c, link.owner)
      BY <1>1, <2>3, <2>4, <2>6, <3>1, Rewritten DEF Sound
    <3>2. CASE ~Gone(c, link.owner)
      BY <1>1, <2>3, <2>4, <2>6, <2>7, <3>2, Rewritten DEF Sound
    <3> QED
      BY <3>1, <3>2
  <2>9. req'[r].code = c /\ req'[r].link = link /\ req'[r].pc = pc
    BY <1>2, <2>1
  <2> QED
    BY <2>8, <2>9 DEF deleted, reported, LinkExcused, At, Sound
<1>3. CASE Serve(r) /\ req'[r].pc \in WithRow
  <2>1. /\ UNCHANGED urls /\ req'[r].link = urls[req'[r].code] /\ urls[req'[r].code] # None
        /\ req'[r].pc = "fill" => ~urls[req'[r].code].flagged
    BY <1>1, <1>3, RowsRead
  <2>2. req'[r].pc # "click"
    BY <1>3 DEF WithRow
  <2> QED
    BY <2>1, <2>2 DEF Sound, Gone
<1>4. CASE Serve(r) /\ req'[r].pc = "click"
  <2>1. PICK c, link : req'[r].code = c /\ req'[r].link = link
    OBVIOUS
  <2>2. /\ UNCHANGED urls /\ req[r].code = c /\ c \in Codes /\ r \in Active /\ ~At(r, "new")
        /\ \/ Lookup(r) /\ \E m \in 1 .. Len(cache) : link = cache[m] /\ cache[m].code = c
           \/ Fill(r) /\ link = Caches(r)
    BY <1>1, <1>4, <2>1, LinkTaken, Served DEF Active, At
  <2>3. ASSUME NEW op, Evicting(op, c) PROVE WrittenDuring(r, op, c)
    <3>1. PICK q \in Active : Evicts(q, op, c)
      BY <2>3 DEF Evicting, Evicts, Active, At
    <3> QED
      BY <1>1, <2>2, <3>1, ActiveOverlap DEF WrittenDuring, Wrote, Evicts, Active
  <2> DEFINE Excuse(op) == WrittenDuring(r, op, c) \/ WrittenDuring(link.by, op, c)
  <2>4. /\ Sound(c, link, Excuse("delete"), Excuse("report"))
        /\ link.by \in Requests /\ ~At(link.by, "new")
    <3>1. CASE Lookup(r)
      <4>1. PICK m \in 1 .. Len(cache) : link = cache[m] /\ cache[m].code = c
        <5>1. ~Fill(r)
          BY <3>1 DEF Lookup, Fill, At
        <5> QED
          BY <2>2, <5>1
      <4>2. Sound(c, link, Excused(link, "delete"), Excused(link, "report")) /\ link.code = c
        BY <4>1 DEF Current, EntriesCurrent
      <4>3. cache[m] \in Entries
        BY <1>1, ElementOfSeq DEF Typed, Stores
      <4>4. link.by \in Requests /\ ~At(link.by, "new")
        BY <1>1, <4>1, <4>3 DEF EntriesKnown, Known, Entries
      <4> QED
        BY <2>3, <4>2, <4>4 DEF Sound, Excused
    <3>2. CASE Fill(r)
      <4>1. req[r].pc = "fill" /\ ~Lookup(r)
        BY <3>2 DEF Fill, Lookup, At
      <4>2. link = Caches(r)
        BY <2>2, <4>1
      <4>3. Sound(c, req[r].link, WrittenDuring(r, "delete", c), WrittenDuring(r, "report", c))
        BY <1>1, <2>2, <4>1 DEF LinksCurrent, WithRow, LinkExcused, At, Sound
      <4>4. link.by = r /\ link.owner = req[r].link.owner /\ link.expires = req[r].link.expires
        BY <4>2 DEF Caches
      <4> QED
        BY <2>2, <4>3, <4>4 DEF Sound
    <3> QED
      BY <2>2, <3>1, <3>2
  <2>5. ASSUME NEW op \in {"delete", "report"}, Excuse(op) PROVE Excuse(op)'
    BY <1>1, <2>2, <2>4, <2>5, WrittenStays
  <2> QED
    BY <1>4, <2>1, <2>2, <2>4, <2>5 DEF LinkExcused, At, Sound, Gone
<1>5. CASE Arrive(r)
  BY <1>1, <1>5, Started DEF Arrived, WithRow
<1> QED
  BY <1>1, <1>2, <1>3, <1>4, <1>5, WhoMoves DEF OnlyMoves

LEMMA StepKeepsCurrent == Current /\ [Next]_vars => Current'
<1> SUFFICES ASSUME Current, [Next]_vars PROVE Current'
  OBVIOUS
<1>1. Owned /\ Past /\ EntriesKnown /\ Typed
  BY DEF Current, Owned, Counted
<1> QED
  BY <1>1, StepKeepsOwned, StepKeepsPast, StepKeepsKnown, StepKeepsEntries, StepKeepsLinks
  DEF Current

LEMMA CurrentAtFirst == Init => Current
<1> SUFFICES ASSUME Init PROVE Current
  OBVIOUS
<1>1. \A r \in Requests : req[r].pc = "new" /\ req[r].after = {}
  BY DEF Init, NotYet
<1>2. cache = <<>> /\ Len(cache) = 0
  BY DEF Init
<1> QED
  BY <1>1, <1>2, OwnedAtFirst
  DEF Current, Past, EntriesKnown, EntriesCurrent, LinksCurrent, At, WithRow

(* A cached redirect is what the database would answer, up to the delete   *)
(* or the report that is about to evict it, and except if a delete or a    *)
(* report overlapped the redirect that put it there, which may have read   *)
(* the database before the change and filled the cache after the eviction  *)
(* (redirect.py:28-40, urls.py:97-102, 116-117).                           *)
THEOREM CacheIsFreshAlways == Spec => []CacheIsFresh
<1>1. Current => CacheIsFresh
  <2> SUFFICES ASSUME Current, NEW n \in 1 .. Len(cache)
               PROVE  LET entry == cache[n]
                          c == entry.code
                          Excuse(op) == Evicting(op, c) \/ WrittenDuring(entry.by, op, c)
                      IN  IF Gone(c, entry.owner) THEN Excuse("delete")
                          ELSE /\ entry.expires = urls[c].expires
                               /\ urls[c].flagged => Excuse("report")
    BY DEF CacheIsFresh
  <2> QED
    BY DEF Current, EntriesCurrent, Sound, Excused
<1> QED
  BY <1>1, CurrentAtFirst, StepKeepsCurrent, PTL DEF Spec

-----------------------------------------------------------------------------
(* Errors *)

Redirecting == {"lookup", "read", "fill", "click"}

(* A redirect stays one, and only metadata are described. *)
PathsKept ==
    \A r \in Requests :
        /\ req[r].pc \in Redirecting => req[r].op = "redirect"
        /\ req[r].pc = "metadata" => req[r].op = "metadata"

LEMMA StepKeepsPaths ==
  ASSUME Typed, PathsKept, [Next]_vars
  PROVE  PathsKept'
<1> SUFFICES ASSUME NEW r \in Requests
             PROVE  /\ req'[r].pc \in Redirecting => req'[r].op = "redirect"
                    /\ req'[r].pc = "metadata" => req'[r].op = "metadata"
  BY DEF PathsKept
<1>1. Locals(r) /\ req[r] \in RequestStates /\ req \in [Requests -> RequestStates]
  BY DEF Typed
<1>2. CASE req'[r] = req[r]
  BY <1>2 DEF PathsKept
<1>3. CASE Arrive(r)
  BY <1>3, Started DEF Arrived, Locals, Redirecting
<1>4. CASE Serve(r)
  <2> DEFINE Elsewhere == req'[r].pc \notin Redirecting \cup {"metadata"}
             Others == Places \ (Redirecting \cup {"metadata"})
  <2>1. ASSUME NEW answer \in Answers, Reply(r, answer) PROVE Elsewhere
    BY <2>1, Replied DEF Redirecting
  <2>2. ASSUME NEW place \in Others, Goto(r, place) PROVE Elsewhere
    BY <1>1, <2>2 DEF Goto, RequestStates
  <2>3. ASSUME NEW place \in Others, NEW value,
               \/ req' = [req EXCEPT ![r].pc = place, ![r].link = value]
               \/ req' = [req EXCEPT ![r].pc = place, ![r].code = value]
               \/ req' = [req EXCEPT ![r].pc = place, ![r].answer = "replayed", ![r].code = value]
        PROVE  Elsewhere
    BY <1>1, <2>3 DEF RequestStates
  <2>4. ASSUME NEW place \in Places \ {"metadata"},
               \/ Goto(r, place)
               \/ \E link : req' = [req EXCEPT ![r].pc = place, ![r].link = link]
        PROVE  req'[r].pc # "metadata"
    BY <1>1, <2>4 DEF Goto, RequestStates
  <2>5. req'[r].op = req[r].op
    BY <1>4, Served DEF Typed
  <2>6. CASE Lookup(r) \/ Read(r) \/ Fill(r)
    <3>1. req[r].op = "redirect"
      BY <2>6 DEF Lookup, Read, Fill, At, PathsKept, Redirecting
    <3>2. CASE Lookup(r)
      BY <2>4, <2>5, <3>1, <3>2 DEF Lookup, Places
    <3>3. CASE Read(r)
      BY <2>1, <2>4, <2>5, <3>1, <3>3 DEF Read, Places, Answers
    <3>4. CASE Fill(r)
      BY <2>4, <2>5, <3>1, <3>4 DEF Fill, Places
    <3> QED
      BY <2>6, <3>2, <3>3, <3>4
  <2>7. CASE Evict(r)
    <3>1. req[r].op \in {"redirect", "report", "delete"}
      BY <1>1, <2>7 DEF Evict, Locals, At
    <3> QED
      BY <2>1, <2>4, <2>5, <2>7, <3>1 DEF Evict, Places, Answers
  <2>8. CASE Check(r)
    <3>1. req[r].op \in Others
      BY <1>1, <2>8 DEF Check, Locals, At, Places, Redirecting
    <3> QED
      BY <2>1, <2>3, <2>8, <3>1 DEF Check, Answers
  <2>9. CASE \E c \in Codes : Generate(r, c)
    <3>1. ASSUME req' = [req EXCEPT ![r].tries = Tried(r)], req[r].pc = "generate" PROVE Elsewhere
      BY <1>1, <3>1 DEF RequestStates, Redirecting
    <3> QED
      BY <2>1, <2>3, <2>9, <3>1 DEF Generate, At, Answers, Places, Redirecting
  <2>10. CASE Replay(r)
    BY <2>2, <2>3, <2>10 DEF Replay, Places, Redirecting
  <2>11. CASE Limit(r) \/ Screen(r) \/ Insert(r) \/ Remember(r)
    BY <2>1, <2>2, <2>11 DEF Limit, Screen, Insert, Remember, Places, Redirecting, Answers
  <2>12. CASE Click(r) \/ CountReport(r) \/ DeleteRow(r)
    BY <2>1, <2>2, <2>12 DEF Click, CountReport, DeleteRow, Places, Redirecting, Answers
  <2>13. CASE Series(r) \/ Describe(r)
    BY <2>1, <2>13 DEF Series, Describe, Answers
  <2> HIDE DEF Elsewhere, Others
  <2>14. Elsewhere \/ (/\ req'[r].pc \in Redirecting => req'[r].op = "redirect"
                       /\ req'[r].pc = "metadata" => req'[r].op = "metadata")
    BY <1>4, <2>6, <2>7, <2>8, <2>9, <2>10, <2>11, <2>12, <2>13 DEF Serve
  <2> QED
    BY <2>14 DEF Elsewhere
<1> QED
  BY <1>2, <1>3, <1>4, WhoMoves DEF OnlyMoves

(* A code that was free when it was chosen is taken by one that overlaps.  *)
TakenMeanwhile ==
    \A r \in Requests :
        LET row == urls[req[r].code] IN
        At(r, "insert") /\ row # None => Overlapped(r, row.owner)

LEMMA StepKeepsTaken ==
  ASSUME Owned, Past, TakenMeanwhile, [Next]_vars
  PROVE  TakenMeanwhile'
<1> SUFFICES ASSUME NEW r \in Requests, At(r, "insert")', urls'[req'[r].code] # None
             PROVE  Overlapped(r, urls[req[r].code].owner)'
  BY DEF TakenMeanwhile
<1>1. Typed /\ Typed' /\ Stores /\ OwnersInserted
  BY StepKeepsTyped DEF Owned, Counted, Typed
<1>2. Locals(r) /\ req[r] \in RequestStates /\ req \in [Requests -> RequestStates]
  BY <1>1 DEF Typed
<1>3. CASE req'[r] = req[r]
  <2>1. PICK c \in Codes : req[r].code = c /\ req'[r].code = c
    BY <1>2, <1>3 DEF At, Locals, BeforeCode
  <2>2. r \in Active /\ At(r, "insert") /\ ~At(r, "new")
    BY <1>3 DEF Active, At
  <2>3. CASE urls[c] # None /\ urls'[c].owner = urls[c].owner
    <3>1. PICK owner \in Requests : owner = urls[c].owner
      BY <1>1, <2>3 DEF Stores, Rows
    <3>2. Inserted(owner) /\ ~At(owner, "new")
      BY <1>1, <2>3, <3>1 DEF OwnersInserted, Inserted, At
    <3>3. Overlapped(r, owner)'
      BY <1>1, <2>1, <2>2, <2>3, <3>1, <3>2, OverlapStays DEF TakenMeanwhile
    <3> QED
      BY <2>1, <2>3, <3>1, <3>3 DEF Overlapped
  <2>4. ASSUME NEW q \in Requests, Serve(q), q \in Active, OnlyMoves(q), Inserts(q, c)
        PROVE  Overlapped(r, urls[req[r].code].owner)'
    <3>1. Overlapped(r, q)' /\ urls'[c].owner = q
      BY <1>1, <2>2, <2>4, ActiveOverlap, OverlapStays DEF Active, At, Inserts
    <3> QED
      BY <2>1, <3>1 DEF Overlapped
  <2>5. ASSUME UNCHANGED urls \/ UNCHANGED <<urls[c]>> PROVE urls'[c] = urls[c]
    BY <2>5
  <2>6. ASSUME NEW q \in Requests, Serve(q), q \in Active, OnlyMoves(q)
        PROVE  \/ urls'[c] = urls[c] \/ Inserts(q, c)
               \/ urls[c] # None /\ urls'[c].owner = urls[c].owner
    <3>1. CASE UNCHANGED urls \/ req[q].code # c
      BY <1>1, <2>6, <3>1, RowsWritten
    <3>2. ASSUME Clicks(q, c) PROVE urls[c] # None /\ urls'[c].owner = urls[c].owner
      <4>1. urls[c] \in Rows /\ urls'[c] = [urls[c] EXCEPT !.count = @ + 1]
        BY <1>1, <3>2 DEF Clicks, Stores
      <4> QED
        BY <3>2, <4>1 DEF Clicks, Rows
    <3>3. ASSUME Reports(c) PROVE urls[c] # None /\ urls'[c].owner = urls[c].owner
      BY <3>3 DEF Reports
    <3>4. ~Deletes(c)
      BY <2>1 DEF Deletes
    <3> HIDE DEF Inserts, Clicks, Reports, Deletes
    <3> QED
      BY <1>1, <2>6, <3>1, <3>2, <3>3, <3>4, RowsWritten
  <2>7. urls'[c] # None
    BY <2>1
  <2> QED
    BY <1>1, <2>3, <2>4, <2>5, <2>6, <2>7, WhoMoves, Started
<1>4. CASE Serve(r)
  <2>1. req[r].pc # "insert" => At(r, "generate")
    <3>1. ASSUME NEW answer \in Answers, Reply(r, answer) PROVE FALSE
      BY <1>1, <3>1, Replied DEF At
    <3>2. ASSUME NEW place, Goto(r, place) PROVE place = "insert"
      BY <1>2, <3>2 DEF Goto, At, RequestStates
    <3>3. ASSUME NEW place, NEW value,
                 \/ req' = [req EXCEPT ![r].pc = place, ![r].link = value]
                 \/ req' = [req EXCEPT ![r].pc = place, ![r].answer = "replayed",
                                       ![r].code = value]
          PROVE  place = "insert"
      BY <1>2, <3>3 DEF At, RequestStates
    <3>4. CASE Replay(r) \/ Limit(r) \/ Screen(r) \/ Insert(r) \/ Remember(r)
      BY <3>1, <3>2, <3>3, <3>4 DEF Replay, Limit, Screen, Insert, Remember, Answers
    <3>5. CASE Lookup(r) \/ Read(r) \/ Fill(r) \/ Click(r)
      BY <3>1, <3>2, <3>3, <3>5 DEF Lookup, Read, Fill, Click, Answers
    <3>6. CASE Check(r)
      <4>1. PICK place : place = req[r].op /\ place # "insert"
        BY <1>2, <3>6 DEF Check, Locals, At
      <4> QED
        BY <3>1, <3>3, <3>6, <4>1 DEF Check, Answers
    <3>7. CASE CountReport(r) \/ DeleteRow(r) \/ Series(r) \/ Describe(r)
      BY <3>1, <3>2, <3>7 DEF CountReport, DeleteRow, Series, Describe, Answers
    <3>8. CASE Evict(r)
      <4>1. req[r].op \in {"redirect", "report", "delete"}
        BY <1>2, <3>8 DEF Evict, Locals, At
      <4> QED
        BY <3>1, <3>2, <3>8, <4>1 DEF Evict, Answers
    <3> QED
      BY <1>4, <3>4, <3>5, <3>6, <3>7, <3>8 DEF Serve, Generate
  <2>2. req[r].pc # "insert"
    <3>1. ASSUME Insert(r) PROVE FALSE
      <4>1. ASSUME NEW answer \in Answers, Reply(r, answer) PROVE FALSE
        BY <1>1, <4>1, Replied DEF At
      <4>2. ~Goto(r, "remember")
        BY <1>2 DEF Goto, At, RequestStates
      <4> QED
        BY <3>1, <4>1, <4>2 DEF Insert, Answers
    <3> QED
      BY <1>4, <3>1 DEF Serve, Replay, Limit, Screen, Remember, Generate, Lookup, Read, Fill,
         Click, Check, CountReport, DeleteRow, Evict, Series, Describe, At
  <2>3. PICK c \in Codes : Generate(r, c)
    BY <1>4, <2>1, <2>2 DEF Serve, Replay, Limit, Screen, Insert, Remember, Lookup, Read, Fill,
       Click, Check, CountReport, DeleteRow, Evict, Series, Describe, At
  <2>4. urls'[c] = None /\ req'[r].code = c
    <3>1. ~Reply(r, "exhausted")
      BY <1>1, Replied DEF At, Answers
    <3>2. req' # [req EXCEPT ![r].tries = Tried(r)]
      BY <1>2, <2>1, <2>2 DEF At, RequestStates
    <3>3. Free(c) /\ req' = [req EXCEPT ![r].pc = "insert", ![r].code = c] /\ UNCHANGED urls
      BY <2>3, <3>1, <3>2 DEF Generate
    <3> QED
      BY <1>2, <3>3 DEF Free, RequestStates
  <2> QED
    BY <2>4
<1>5. CASE Arrive(r)
  BY <1>1, <1>5, Started DEF Arrived, At
<1> QED
  BY <1>1, <1>3, <1>4, <1>5, WhoMoves DEF OnlyMoves

(* Where the service fails internally. *)
LEMMA Fails ==
  ASSUME Typed, NEW r \in Requests, Serve(r), req[r].answer # "error", req'[r].answer = "error"
  PROVE  LET row == urls[req[r].code] IN
         \/ At(r, "insert") /\ row # None
         \/ (At(r, "read") \/ At(r, "metadata")) /\ row # None /\ row.naive
         \/ At(r, "check") /\ req[r].op = "delete" /\ req[r].token = NonAscii
         \/ (At(r, "report") \/ At(r, "click")) /\ row = None
<1> DEFINE row == urls[req[r].code]
           Goal == \/ At(r, "insert") /\ row # None
                   \/ (At(r, "read") \/ At(r, "metadata")) /\ row # None /\ row.naive
                   \/ At(r, "check") /\ req[r].op = "delete" /\ req[r].token = NonAscii
                   \/ (At(r, "report") \/ At(r, "click")) /\ row = None
<1> SUFFICES Goal
  OBVIOUS
<1>1. Locals(r) /\ req[r] \in RequestStates /\ req \in [Requests -> RequestStates]
  BY DEF Typed
<1>2. ASSUME NEW answer \in Answers \ {"error"}, Reply(r, answer) PROVE FALSE
  BY <1>2, Replied
<1>3. ASSUME NEW place, Goto(r, place) PROVE FALSE
  BY <1>1, <1>3 DEF Goto, RequestStates
<1>4. ASSUME NEW place, NEW value,
             \/ req' = [req EXCEPT ![r].pc = place, ![r].link = value]
             \/ req' = [req EXCEPT ![r].pc = place, ![r].code = value]
             \/ req' = [req EXCEPT ![r].pc = place, ![r].answer = "replayed", ![r].code = value]
             \/ req' = [req EXCEPT ![r].tries = value]
      PROVE  FALSE
  BY <1>1, <1>4 DEF RequestStates
<1>5. CASE Insert(r)
  BY <1>2, <1>3, <1>5 DEF Insert, Insertable, Answers
<1>6. CASE Read(r)
  BY <1>2, <1>4, <1>6 DEF Read, Answers
<1>7. CASE Check(r)
  BY <1>2, <1>4, <1>7 DEF Check, Answers
<1>8. CASE Click(r)
  BY <1>2, <1>8 DEF Click, Answers
<1>9. CASE CountReport(r)
  BY <1>2, <1>3, <1>9 DEF CountReport, Answers
<1>10. CASE Describe(r)
  BY <1>2, <1>10 DEF Describe, Answers
<1>11. CASE Replay(r) \/ Limit(r) \/ Screen(r) \/ Remember(r)
  BY <1>2, <1>3, <1>4, <1>11 DEF Replay, Limit, Screen, Remember, Answers
<1>12. CASE \E c \in Codes : Generate(r, c)
  BY <1>2, <1>4, <1>12 DEF Generate, Answers
<1>13. CASE Lookup(r) \/ Fill(r) \/ DeleteRow(r) \/ Series(r)
  BY <1>2, <1>3, <1>4, <1>13 DEF Lookup, Fill, DeleteRow, Series, Answers
<1>14. CASE Evict(r)
  <2>1. req[r].op \in {"redirect", "report", "delete"}
    BY <1>1, <1>14 DEF Evict, Locals, At
  <2> QED
    BY <1>2, <1>3, <1>14, <2>1 DEF Evict, Answers
<1> HIDE DEF Goal
<1> QED
  BY <1>5, <1>6, <1>7, <1>8, <1>9, <1>10, <1>11, <1>12, <1>13, <1>14 DEF Serve

Caused == Current /\ PathsKept /\ TakenMeanwhile

LEMMA StepKeepsCaused == Caused /\ [Next]_vars => Caused'
BY StepKeepsCurrent, StepKeepsPaths, StepKeepsTaken DEF Caused, Current, Owned, Counted

LEMMA CausedAtFirst == Init => Caused
<1> SUFFICES ASSUME Init PROVE Caused
  OBVIOUS
<1>1. \A r \in Requests : req[r].pc = "new"
  BY DEF Init, NotYet
<1> QED
  BY <1>1, CurrentAtFirst DEF Caused, PathsKept, TakenMeanwhile, At, Redirecting

(* A request is answered with an internal error in these cases alone:      *)
(* another one took its code, the URL has a naive expiry, the token is not *)
(* ASCII, or a delete that it overlapped, or that the redirect which       *)
(* filled the cache overlapped, took the URL (urls.py:51-65, 94-97, 114,   *)
(* redirect.py:19-42).                                                     *)
THEOREM ErrorsHaveCausesAlways == Spec => ErrorsHaveCauses
<1>1. Caused /\ [Next]_vars =>
        \A r \in Requests : req[r].answer # "error" /\ req'[r].answer = "error" => MayFail(r)
  <2> SUFFICES ASSUME Caused, [Next]_vars, NEW r \in Requests,
                      req[r].answer # "error", req'[r].answer = "error"
               PROVE  MayFail(r)
    OBVIOUS
  <2> DEFINE c == req[r].code
             row == urls[c]
  <2>1. Typed /\ Locals(r) /\ LinksCurrent /\ PathsKept /\ TakenMeanwhile
    BY DEF Caused, Current, Owned, Counted, Typed
  <2>2. Serve(r)
    BY <2>1, WhoMoves, Started DEF OnlyMoves, Arrived
  <2>3. CASE At(r, "insert") /\ row # None
    BY <2>1, <2>3 DEF TakenMeanwhile, MayFail, Locals, AtCreation, At
  <2>4. CASE (At(r, "read") \/ At(r, "metadata")) /\ row # None /\ row.naive
    BY <2>1, <2>4 DEF PathsKept, Redirecting, MayFail, At
  <2>5. CASE At(r, "check") /\ req[r].op = "delete" /\ req[r].token = NonAscii
    BY <2>5 DEF MayFail
  <2>6. CASE (At(r, "report") \/ At(r, "click")) /\ row = None
    <3>1. Gone(c, req[r].link.owner)
      BY <2>6 DEF Gone
    <3>2. LinkExcused(r, "delete")
      BY <2>1, <2>6, <3>1 DEF LinksCurrent, Sound, WithRow, At
    <3>3. req[r].op = IF At(r, "report") THEN "report" ELSE "redirect"
      BY <2>1, <2>6 DEF Locals, PathsKept, Redirecting, At
    <3> QED
      BY <2>6, <3>2, <3>3 DEF LinkExcused, MayFail, At
  <2> QED
    BY <2>1, <2>2, <2>3, <2>4, <2>5, <2>6, Fails
<1> QED
  BY <1>1, CausedAtFirst, StepKeepsCaused, PTL DEF Spec, ErrorsHaveCauses

-----------------------------------------------------------------------------
(* Keys *)

(* A request with a key has made its URL and been answered. *)
Made(q) == req[q].answer = "created" /\ req[q].key # None
PastReplay == AtCreation \ {"replay"}

(* A key is remembered, or old; who came after its answer and does not     *)
(* find it remembered is late.                                             *)
KeysKept ==
    /\ \A q \in Requests : Made(q) =>
         LET memory == idem[req[q].key] IN
         /\ req[q].now <= clock
         /\ \/ clock > req[q].now + Ttl
            \/ memory # None /\ memory.at >= req[q].now
    /\ \A r, q \in Requests :
         Made(q) /\ req[r].key = req[q].key /\ q \in req[r].after =>
           /\ req[r].pc \in PastReplay => clock > req[q].now + Ttl
           /\ Made(r) => req[r].now > req[q].now + Ttl

LEMMA JustMade ==
  ASSUME Typed, NEW r \in Requests, Serve(r), ~Made(r), Made(r)'
  PROVE  Remember(r) /\ req'[r].now = clock
<1>1. Locals(r) /\ req[r] \in RequestStates /\ req \in [Requests -> RequestStates]
  BY DEF Typed
<1>2. req'[r].key = req[r].key /\ req[r].answer # "created" /\ req'[r].answer = "created"
  BY Served DEF Made
<1>3. ASSUME NEW answer \in Answers \ {"created"}, Reply(r, answer) PROVE FALSE
  BY <1>2, <1>3, Replied
<1>4. ASSUME NEW place, Goto(r, place) PROVE FALSE
  BY <1>1, <1>2, <1>4 DEF Goto, RequestStates
<1>5. ASSUME NEW place, NEW value,
             \/ req' = [req EXCEPT ![r].pc = place, ![r].link = value]
             \/ req' = [req EXCEPT ![r].pc = place, ![r].code = value]
             \/ req' = [req EXCEPT ![r].pc = place, ![r].answer = "replayed", ![r].code = value]
             \/ req' = [req EXCEPT ![r].tries = value]
      PROVE  FALSE
  BY <1>1, <1>2, <1>5 DEF RequestStates
<1>6. ~Insert(r)
  BY <1>2, <1>3, <1>4 DEF Insert, Answers, Made
<1>7. ~Replay(r) /\ ~Limit(r) /\ ~Screen(r) /\ ~\E c \in Codes : Generate(r, c)
  BY <1>3, <1>4, <1>5 DEF Replay, Limit, Screen, Generate, Answers
<1>8. ~Lookup(r) /\ ~Read(r) /\ ~Fill(r) /\ ~Click(r) /\ ~Check(r)
  BY <1>3, <1>4, <1>5 DEF Lookup, Read, Fill, Click, Check, Answers
<1>9. ~CountReport(r) /\ ~DeleteRow(r) /\ ~Series(r) /\ ~Describe(r)
  BY <1>3, <1>4 DEF CountReport, DeleteRow, Series, Describe, Answers
<1>10. ~Evict(r)
  <2>1. ASSUME Evict(r) PROVE req[r].op \in {"redirect", "report", "delete"}
    BY <1>1, <2>1 DEF Evict, Locals, At
  <2> QED
    BY <1>3, <1>4, <2>1 DEF Evict, Answers
<1>11. Remember(r)
  BY <1>6, <1>7, <1>8, <1>9, <1>10 DEF Serve
<1>12. Reply(r, "created")
  BY <1>11 DEF Remember
<1> QED
  BY <1>11, <1>12, Replied DEF Answers

LEMMA JustPastReplay ==
  ASSUME Typed, NEW r \in Requests, Serve(r), req'[r].pc \in PastReplay,
         req[r].pc \notin PastReplay
  PROVE  Replay(r) /\ Kept[req[r].key] = None
<1>1. Locals(r) /\ req[r] \in RequestStates /\ req \in [Requests -> RequestStates]
  BY DEF Typed
<1>2. ASSUME NEW answer \in Answers, Reply(r, answer) PROVE FALSE
  BY <1>2, Replied DEF PastReplay, AtCreation
<1>3. ASSUME NEW place \in Places \ PastReplay, Goto(r, place) PROVE FALSE
  BY <1>1, <1>3 DEF Goto, RequestStates
<1>4. ASSUME NEW place \in Places \ PastReplay, NEW value,
             \/ req' = [req EXCEPT ![r].pc = place, ![r].link = value]
             \/ req' = [req EXCEPT ![r].pc = place, ![r].answer = "replayed", ![r].code = value]
      PROVE  FALSE
  BY <1>1, <1>4 DEF RequestStates
<1>5. ~Limit(r) /\ ~Screen(r) /\ ~Insert(r) /\ ~Remember(r) /\ ~\E c \in Codes : Generate(r, c)
  BY DEF Limit, Screen, Insert, Remember, Generate, At, PastReplay, AtCreation
<1>6. ~Lookup(r) /\ ~Read(r) /\ ~Fill(r) /\ ~Click(r)
  BY <1>2, <1>3, <1>4
  DEF Lookup, Read, Fill, Click, Answers, Places, PastReplay, AtCreation
<1>7. ~Check(r) /\ ~Evict(r)
  <2>1. ASSUME Check(r) PROVE FALSE
    <3>1. PICK place \in Places \ PastReplay : place = req[r].op
      BY <1>1, <2>1 DEF Check, Locals, At, Places, PastReplay, AtCreation
    <3> QED
      BY <1>2, <1>4, <2>1, <3>1 DEF Check, Answers
  <2>2. ASSUME Evict(r) PROVE FALSE
    <3>1. req[r].op \in {"redirect", "report", "delete"}
      BY <1>1, <2>2 DEF Evict, Locals, At
    <3> QED
      BY <1>2, <1>3, <2>2, <3>1 DEF Evict, Answers, Places, PastReplay, AtCreation
  <2> QED
    BY <2>1, <2>2
<1>8. ~CountReport(r) /\ ~DeleteRow(r) /\ ~Series(r) /\ ~Describe(r)
  BY <1>2, <1>3 DEF CountReport, DeleteRow, Series, Describe, Answers, Places, PastReplay, AtCreation
<1>9. Replay(r)
  BY <1>5, <1>6, <1>7, <1>8 DEF Serve
<1> QED
  BY <1>4, <1>9 DEF Replay, Places, PastReplay, AtCreation

LEMMA MemoriesWritten ==
  ASSUME Typed, NEW r \in Requests, Serve(r)
  PROVE  \/ idem' = idem \/ idem' = Kept
         \/ /\ req[r].key \in Keys \ {None} /\ req[r].code \in Codes
            /\ idem' = Remembered(r)
<1>1. CASE Replay(r) \/ Limit(r) \/ Screen(r) \/ Insert(r) \/ \E c \in Codes : Generate(r, c)
  BY <1>1 DEF Replay, Limit, Screen, Insert, Generate
<1>2. CASE Remember(r)
  <2>1. Locals(r)
    BY DEF Typed
  <2> QED
    BY <1>2, <2>1 DEF Remember, Locals, At, BeforeCode
<1>3. CASE Lookup(r) \/ Read(r) \/ Fill(r) \/ Click(r)
  BY <1>3 DEF Lookup, Read, Fill, Click
<1>4. CASE Check(r) \/ CountReport(r) \/ DeleteRow(r) \/ Evict(r) \/ Series(r) \/ Describe(r)
  BY <1>4 DEF Check, CountReport, DeleteRow, Evict, Series, Describe
<1> QED
  BY <1>1, <1>2, <1>3, <1>4 DEF Serve

LEMMA StepKeepsKeys ==
  ASSUME Typed, Past, KeysKept, [Next]_vars
  PROVE  KeysKept'
<1>1. /\ Typed' /\ clock \in Nat /\ clock' \in Nat /\ Ttl \in Nat
      /\ idem \in [Keys \ {None} -> Memories \cup {None}]
      /\ \A m \in Memories : m.at \in Nat
      /\ \A r \in Requests : req[r].now \in Nat /\ req[r].key \in Keys \cup {None}
      /\ \A r \in Requests : Made(r) => At(r, "answered")
  <2>1. Typed' /\ Stores /\ Stores'
    BY StepKeepsTyped DEF Typed
  <2>2. Days \subseteq Nat /\ Ttl \in Nat
    BY ServiceAssumption DEF Days
  <2>3. ASSUME NEW r \in Requests
        PROVE  /\ req[r].now \in Nat /\ req[r].key \in Keys \cup {None}
               /\ Made(r) => At(r, "answered")
    <3>1. Locals(r) /\ req[r] \in RequestStates
      BY DEF Typed
    <3> QED
      BY <2>2, <3>1 DEF RequestStates, Locals, Made, At
  <2>4. \A m \in Memories : m.at \in Nat
    BY <2>2 DEF Memories
  <2> QED
    BY <2>1, <2>2, <2>3, <2>4 DEF Stores
<1>2. clock' >= clock
  <2>1. CASE Tick
    BY <1>1, <2>1 DEF Tick
  <2>2. CASE UNCHANGED clock
    BY <1>1, <2>2
  <2> QED
    BY <2>1, <2>2, Started, Served DEF Next, vars
<1>3. ASSUME NEW q \in Requests, Made(q) PROVE req'[q] = req[q] /\ Made(q)'
  BY <1>1, <1>3, AnsweredStays DEF Made
<1>4. ASSUME NEW q \in Requests, Made(q)', ~Made(q)
      PROVE  /\ Remember(q) /\ req'[q].now = clock /\ UNCHANGED clock
             /\ req'[q].key = req[q].key /\ req[q].key \in Keys \ {None}
  <2>1. Serve(q)
    BY <1>1, <1>4, WhoMoves, Started DEF OnlyMoves, Arrived, Made
  <2> QED
    BY <1>1, <1>4, <2>1, JustMade, Served DEF Made
<1>5. ASSUME NEW q \in Requests, Made(q)'
      PROVE  LET memory == idem[req[q].key] IN
             (/\ req[q].now <= clock
              /\ \/ clock > req[q].now + Ttl
                 \/ memory # None /\ memory.at >= req[q].now)'
  <2>1. CASE Made(q)
    <3>1. PICK key \in Keys \ {None} : key = req[q].key /\ req'[q] = req[q]
      BY <1>1, <1>3, <2>1 DEF Made
    <3> DEFINE now == req[q].now
               Remembers(stores) == stores[key] # None /\ stores[key].at >= now
    <3>2. now \in Nat /\ now <= clock /\ (clock > now + Ttl \/ Remembers(idem))
      BY <1>1, <2>1, <3>1 DEF KeysKept
    <3> HIDE DEF now
    <3> SUFFICES clock' > now + Ttl \/ Remembers(idem')
      BY <1>1, <1>2, <3>1, <3>2 DEF now
    <3>3. CASE idem' = Kept
      <4>1. idem'[key] = IF idem[key] # None /\ clock - idem[key].at > Ttl THEN None ELSE idem[key]
        BY <1>1, <3>3 DEF Kept
      <4>2. idem[key] # None => idem[key].at \in Nat
        BY <1>1
      <4>3. clock > now + Ttl \/ Remembers(idem')
        BY <1>1, <3>2, <4>1, <4>2
      <4> QED
        BY <1>1, <1>2, <3>2, <4>3
    <3>4. ASSUME NEW r \in Requests, req[r].key \in Keys \ {None}, req[r].code \in Codes,
                 idem' = Remembered(r)
          PROVE  idem'[key] = idem[key] \/ (idem'[key] # None /\ idem'[key].at = clock)
      <4> DEFINE memory == [code |-> req[r].code, owner |-> r, at |-> clock]
      <4>1. idem' = [idem EXCEPT ![req[r].key] = memory]
        BY <3>4 DEF Remembered
      <4>2. memory.at = clock /\ memory \in Memories
        BY <3>4 DEF Memories, Typed, Stores
      <4> HIDE DEF memory
      <4>3. memory # None
        BY <4>2, NoneAssumption
      <4> QED
        BY <1>1, <4>1, <4>2, <4>3
    <3>5. CASE \E r \in Requests : /\ req[r].key \in Keys \ {None} /\ req[r].code \in Codes
                                   /\ idem' = Remembered(r)
      BY <1>1, <1>2, <3>2, <3>4, <3>5
    <3>6. CASE idem' = idem
      BY <1>1, <1>2, <3>2, <3>6
    <3> QED
      BY <3>3, <3>5, <3>6, WhoMoves, Started, MemoriesWritten
  <2>2. CASE ~Made(q)
    <3> DEFINE memory == [code |-> req[q].code, owner |-> q, at |-> clock]
    <3>1. Remember(q) /\ req'[q].now = clock /\ clock' = clock
      BY <1>4, <1>5, <2>2
    <3>2. PICK key \in Keys \ {None} : key = req[q].key /\ key = req'[q].key
      BY <1>4, <1>5, <2>2
    <3>3. memory.at = clock /\ memory \in Memories
      <4>1. Locals(q)
        BY DEF Typed
      <4> QED
        BY <3>1, <4>1 DEF Memories, Typed, Stores, Remember, At, Locals, BeforeCode
    <3>4. idem' = [idem EXCEPT ![key] = memory]
      BY <3>1, <3>2 DEF Remember, Remembered
    <3> HIDE DEF memory
    <3>5. idem'[key] = memory /\ memory # None
      BY <1>1, <3>3, <3>4, NoneAssumption
    <3> QED
      BY <1>1, <3>1, <3>2, <3>3, <3>5
  <2> QED
    BY <2>1, <2>2
<1>6. ASSUME NEW r \in Requests, NEW q \in Requests,
             Made(q)', req'[r].key = req'[q].key, q \in req'[r].after
      PROVE  /\ req'[r].pc \in PastReplay => clock' > req'[q].now + Ttl
             /\ Made(r)' => req'[r].now > req'[q].now + Ttl
  <2>1. CASE At(r, "new")
    <3>1. Arrive(r) \/ req'[r] = req[r]
      BY <2>1, WhoMoves DEF At, Active, OnlyMoves
    <3>2. req'[r] # req[r]
      <4>1. Locals(r)
        BY DEF Typed
      <4> QED
        BY <1>6, <2>1, <4>1 DEF Locals, At, NotYet
    <3> QED
      BY <1>6, <3>1, <3>2, Started DEF Arrived, Made, PastReplay, AtCreation
  <2>2. CASE ~At(r, "new")
    <3>1. q \in req[r].after
      BY <1>6, <2>2, ComeStays
    <3>2. req'[q] = req[q] /\ Made(q)
      BY <1>6, <3>1, AnsweredStays DEF Past, Made
    <3>3. CASE req'[r] = req[r]
      BY <1>1, <1>2, <1>6, <3>1, <3>2, <3>3 DEF KeysKept, Made
    <3>4. CASE Serve(r)
      <4>1. clock' = clock /\ req[r].key = req[q].key /\ r \in Active
        BY <1>6, <3>2, <3>4, Served
      <4>2. req[r].pc \in PastReplay => clock > req[q].now + Ttl
        BY <3>1, <3>2, <4>1 DEF KeysKept
      <4>3. ASSUME req'[r].pc \in PastReplay, req[r].pc \notin PastReplay
            PROVE  clock > req[q].now + Ttl
        <5>1. PICK key \in Keys \ {None} : key = req[q].key
          BY <1>1, <3>2 DEF Made
        <5>2. Kept[key] = None
          BY <3>4, <4>1, <4>3, <5>1, JustPastReplay
        <5>3. idem[key] # None => clock - idem[key].at > Ttl /\ idem[key].at \in Nat
          BY <1>1, <5>2 DEF Kept
        <5>4. clock > req[q].now + Ttl \/ (idem[key] # None /\ idem[key].at >= req[q].now)
          BY <3>2, <5>1 DEF KeysKept
        <5> QED
          BY <1>1, <5>3, <5>4
      <4>4. ASSUME Made(r)' PROVE req'[r].now = clock /\ req[r].pc \in PastReplay
        <5>1. ~Made(r)
          BY <1>1, <4>1 DEF Active, At
        <5>2. Remember(r) /\ req'[r].now = clock
          BY <3>4, <4>4, <5>1, JustMade
        <5> QED
          BY <5>2 DEF Remember, At, PastReplay, AtCreation
      <4> QED
        BY <3>2, <4>1, <4>2, <4>3, <4>4
    <3>5. CASE Arrive(r)
      BY <2>2, <3>5, Started
    <3> QED
      BY <3>3, <3>4, <3>5, WhoMoves DEF OnlyMoves
  <2> QED
    BY <2>1, <2>2
<1> QED
  BY <1>5, <1>6 DEF KeysKept

(* A request that comes after another one with the same key was answered   *)
(* makes a URL of its own only when the key has been forgotten, more than  *)
(* Ttl later: two URLs for one key in that time are made by requests that  *)
(* overlap (service/README.md:59-61, urls.py:39-42, 70-71).                *)
THEOREM OneUrlPerKeyAlways == Spec => []OneUrlPerKey
<1> DEFINE IInv == Typed /\ Past /\ KeysKept
<1>1. Init => IInv
  <2> SUFFICES ASSUME Init PROVE IInv
    OBVIOUS
  <2>1. \A r \in Requests : req[r].answer = "none" /\ req[r].after = {}
    BY DEF Init, NotYet
  <2> QED
    BY <2>1, TypedAtFirst DEF Past, KeysKept, Made
<1>2. IInv /\ [Next]_vars => IInv'
  BY StepKeepsTyped, StepKeepsPast, StepKeepsKeys
<1>3. IInv => OneUrlPerKey
  BY DEF KeysKept, Made, OneUrlPerKey
<1> QED
  BY <1>1, <1>2, <1>3, PTL DEF Spec

-----------------------------------------------------------------------------
(* Flagged URLs *)

(* Who filled this in overlapped a delete or a report of c. *)
Tainted(link, c) == WrittenDuring(link.by, "delete", c) \/ WrittenDuring(link.by, "report", c)

(* A barred redirect finds a flagged row and nothing else in the cache, or *)
(* what somebody filled in who overlapped a delete or a report, or the URL *)
(* has been deleted in the meantime.                                       *)
Barring(r) ==
    LET c == req[r].code IN
    \/ WrittenDuring(r, "delete", c)
    \/ /\ urls[c] # None /\ urls[c].flagged /\ ~At(r, "fill")
       /\ \A n \in 1 .. Len(cache) : cache[n].code = c => Tainted(cache[n], c)
       /\ At(r, "click") => Tainted(req[r].link, c)
BarringKept == \A r \in Active : req[r].barred => Barring(r)

LEMMA TaintedStays ==
  ASSUME Typed, [Next]_vars, NEW link, link.by \in Requests, ~At(link.by, "new"),
         NEW c, Tainted(link, c)
  PROVE  WrittenDuring(link.by, "delete", c)' \/ WrittenDuring(link.by, "report", c)'
<1>1. PICK by \in Requests : by = link.by
  OBVIOUS
<1>2. WrittenDuring(by, "delete", c)' \/ WrittenDuring(by, "report", c)'
  BY <1>1, WrittenStays DEF Tainted
<1> QED
  BY <1>1, <1>2 DEF WrittenDuring, Overlapped

(* A redirect that comes in barred. *)
LEMMA BarredAtFirst ==
  ASSUME Current, NEW r \in Requests, Arrive(r), req'[r].barred
  PROVE  Barring(r)'
<1>1. Owned /\ Past /\ EntriesKnown /\ Typed /\ Typed' /\ EntriesCurrent /\ [Next]_vars
  BY StepKeepsTyped DEF Current, Owned, Counted, Next
<1>2. /\ At(r, "new") /\ OnlyMoves(r) /\ Arrived(r) /\ req'[r].pc = "lookup"
      /\ UNCHANGED <<urls, clicks, cache, idem, tokens, clock>>
  BY <1>1, Started DEF Arrived
<1>3. PICK c : c = req'[r].code /\ Bars(r, c)
  BY <1>2 DEF Arrived
<1>4. ASSUME NEW q \in Requests, Evicts(q, "delete", c) PROVE WrittenDuring(r, "delete", c)'
  <2>1. q # r /\ req'[q] = req[q] /\ ~At(q, "answered")
    BY <1>2, <1>4 DEF Evicts, At, OnlyMoves
  <2>2. r \notin req[q].after
    BY <1>1, <1>2 DEF Past, At
  <2>3. Overlapped(q, r)'
    BY <1>2, <2>1, <2>2 DEF Overlapped, Arrived
  <2> QED
    BY <1>4, <2>1, <2>3 DEF WrittenDuring, Wrote, Evicts, At
<1>5. ~Evicting("report", c)
  BY <1>3 DEF Bars, Evicting, Active, At
<1>6. ASSUME NEW n \in 1 .. Len(cache), cache[n].code = c, ~Evicting("delete", c)
      PROVE  (WrittenDuring(cache[n].by, "delete", c) \/ WrittenDuring(cache[n].by, "report", c))'
  <2>1. PICK entry \in Entries : entry = cache[n]
    BY <1>1, ElementOfSeq DEF Typed, Stores
  <2>2. Tainted(entry, c)
    BY <1>1, <1>3, <1>5, <1>6, <2>1 DEF EntriesCurrent, Sound, Excused, Tainted, Bars
  <2>3. entry.by \in Requests /\ ~At(entry.by, "new") /\ cache' = cache
    BY <1>1, <1>2, <2>1 DEF Entries, EntriesKnown, Known
  <2>4. WrittenDuring(entry.by, "delete", c)' \/ WrittenDuring(entry.by, "report", c)'
    BY <1>1, <2>2, <2>3, TaintedStays
  <2> QED
    BY <2>1, <2>3, <2>4
<1>7. CASE Evicting("delete", c)
  BY <1>3, <1>4, <1>7 DEF Evicting, Evicts, Barring
<1>8. CASE ~Evicting("delete", c)
  BY <1>2, <1>3, <1>6, <1>8 DEF Barring, Tainted, Bars, At
<1> QED
  BY <1>7, <1>8

(* A barred redirect that is being served. *)
LEMMA BarredStays ==
  ASSUME Current, [Next]_vars, NEW r \in Active, req[r].barred, Barring(r),
         req'[r] = req[r] \/ Serve(r)
  PROVE  Barring(r)'
<1>1. /\ Owned /\ Past /\ EntriesKnown /\ Typed /\ Typed' /\ OwnersInserted /\ Stores
      /\ LinksCurrent /\ r \in Requests /\ ~At(r, "new") /\ Locals(r)
  BY StepKeepsTyped DEF Current, Owned, Counted, Typed, Active, At
<1>2. PICK c \in Codes : c = req[r].code /\ c = req'[r].code
  <2>1. req[r].op = "redirect" /\ ~At(r, "generate") /\ ~At(r, "replay") /\ req[r].code \in Codes
    BY <1>1 DEF Locals, AtCreation, BeforeCode, Active, At
  <2> QED
    BY <1>1, <2>1, ComeStays
<1>3. CASE WrittenDuring(r, "delete", c)
  <2>1. WrittenDuring(r, "delete", c)'
    BY <1>1, <1>3, WrittenStays
  <2> QED
    BY <1>2, <2>1 DEF Barring
<1>4. CASE ~WrittenDuring(r, "delete", c)' /\ ~WrittenDuring(r, "delete", c)
  <2>1. /\ urls[c] # None /\ urls[c].flagged /\ ~At(r, "fill")
        /\ \A n \in 1 .. Len(cache) : cache[n].code = c => Tainted(cache[n], c)
        /\ At(r, "click") => Tainted(req[r].link, c)
    BY <1>2, <1>4 DEF Barring
  <2>2. urls'[c] # None /\ urls'[c].flagged
    <3>1. PICK owner \in Requests : owner = urls[c].owner
      BY <1>1, <2>1 DEF Stores, Rows
    <3>2. Inserted(owner) /\ ~Gone(c, owner)
      BY <1>1, <2>1, <3>1 DEF OwnersInserted, Gone
    <3>3. ~\E q \in Active : Evicts(q, "delete", c)'
      BY <1>1, <1>4, NowExcused
    <3>4. ~Gone(c, owner)'
      BY <1>1, <3>2, <3>3, Rewritten
    <3> QED
      BY <1>1, <2>1, <3>2, <3>4, Rewritten DEF Gone
  <2>3. \A m \in 1 .. Len(cache) : cache[m] \in Entries
    BY <1>1, ElementOfSeq DEF Typed, Stores
  <2>4. ASSUME NEW n \in 1 .. Len(cache'), cache'[n].code = c
        PROVE  (WrittenDuring(cache[n].by, "delete", c) \/ WrittenDuring(cache[n].by, "report", c))'
    <3>1. CASE \E m \in 1 .. Len(cache) : cache'[n] = cache[m]
      <4>1. PICK m \in 1 .. Len(cache) : cache'[n] = cache[m]
        BY <3>1
      <4>2. PICK entry \in Entries : entry = cache[m]
        BY <2>3
      <4>3. entry.by \in Requests /\ ~At(entry.by, "new") /\ Tainted(entry, c)
        BY <1>1, <2>1, <2>4, <4>1, <4>2 DEF Entries, EntriesKnown, Known
      <4>4. WrittenDuring(entry.by, "delete", c)' \/ WrittenDuring(entry.by, "report", c)'
        BY <1>1, <4>3, TaintedStays
      <4> QED
        BY <4>1, <4>2, <4>4
    <3>2. ASSUME NEW q \in Requests, Fill(q), cache'[n] = Caches(q)
          PROVE  (\/ WrittenDuring(cache[n].by, "delete", c)
                  \/ WrittenDuring(cache[n].by, "report", c))'
      <4>1. req[q].pc = "fill" /\ ~At(q, "new") /\ req[q].code = c /\ cache'[n].by = q
        BY <2>4, <3>2 DEF Fill, At, Caches
      <4>2. Sound(c, req[q].link, WrittenDuring(q, "delete", c), WrittenDuring(q, "report", c))
        BY <1>1, <4>1 DEF LinksCurrent, WithRow, LinkExcused, At, Sound
      <4>3. WrittenDuring(q, "delete", c) \/ WrittenDuring(q, "report", c)
        BY <2>1, <4>2 DEF Sound
      <4>4. WrittenDuring(q, "delete", c)' \/ WrittenDuring(q, "report", c)'
        BY <1>1, <4>1, <4>3, WrittenStays
      <4> QED
        BY <4>1, <4>4
    <3> QED
      BY <1>1, <3>1, <3>2, CacheWritten
  <2>5. ~At(r, "fill")'
    <3>1. CASE req'[r] = req[r]
      BY <2>1, <3>1 DEF At
    <3>2. CASE Serve(r)
      <4>1. ASSUME At(r, "fill")' PROVE UNCHANGED urls /\ ~urls[c].flagged
        BY <1>1, <1>2, <3>2, <4>1, RowsRead DEF At, WithRow
      <4> QED
        BY <2>1, <4>1
    <3> QED
      BY <3>1, <3>2
  <2>6. ASSUME At(r, "click")'
        PROVE  (\/ WrittenDuring(req[r].link.by, "delete", c)
                \/ WrittenDuring(req[r].link.by, "report", c))'
    <3>1. PICK link \in Entries :
             link = req'[r].link /\ Tainted(link, c) /\ ~At(link.by, "new") /\ link.by \in Requests
      <4>1. CASE req'[r] = req[r]
        <5>1. At(r, "click") /\ req[r].link \in Entries
          BY <1>1, <2>6, <4>1 DEF At, Locals
        <5> QED
          BY <1>1, <2>1, <4>1, <5>1 DEF EntriesKnown, Known, Entries
      <4>2. CASE Serve(r)
        <5>1. ~Fill(r)
          BY <2>1 DEF Fill
        <5>2. PICK m \in 1 .. Len(cache) : req'[r].link = cache[m] /\ cache[m].code = c
          BY <1>1, <1>2, <2>6, <4>2, <5>1, LinkTaken DEF At
        <5>3. cache[m] \in Entries /\ cache[m].by \in Requests
          BY <2>3 DEF Entries
        <5> QED
          BY <1>1, <2>1, <5>2, <5>3 DEF EntriesKnown, Known
      <4> QED
        BY <4>1, <4>2
    <3>2. WrittenDuring(link.by, "delete", c)' \/ WrittenDuring(link.by, "report", c)'
      BY <1>1, <3>1, TaintedStays
    <3> QED
      BY <3>1, <3>2
  <2> QED
    BY <1>2, <2>2, <2>4, <2>5, <2>6 DEF Barring, Tainted
<1>5. CASE WrittenDuring(r, "delete", c)'
  BY <1>2, <1>5 DEF Barring
<1> QED
  BY <1>3, <1>4, <1>5

LEMMA StepKeepsBarring ==
  ASSUME Current, BarringKept, [Next]_vars
  PROVE  BarringKept'
<1> SUFFICES ASSUME NEW r \in Requests, (r \in Active)', req'[r].barred PROVE Barring(r)'
  BY DEF BarringKept, Active
<1>1. Typed
  BY DEF Current, Owned, Counted
<1>2. CASE r \in Active
  <2>1. req[r].barred /\ ~At(r, "new")
    BY <1>1, <1>2, ComeStays DEF Active, At
  <2>2. req'[r] = req[r] \/ Serve(r)
    BY <1>1, <1>2, WhoMoves DEF OnlyMoves, Active, At
  <2> QED
    BY <1>2, <2>1, <2>2, BarredStays DEF BarringKept
<1>3. CASE r \notin Active
  <2>1. Arrive(r)
    BY <1>1, <1>3, WhoMoves DEF OnlyMoves, Active
  <2> QED
    BY <2>1, BarredAtFirst
<1> QED
  BY <1>2, <1>3

LEMMA JustRedirected ==
  ASSUME Typed, NEW r \in Requests, Serve(r),
         req[r].answer # "redirected", req'[r].answer = "redirected"
  PROVE  At(r, "click")
<1>1. Locals(r) /\ req[r] \in RequestStates /\ req \in [Requests -> RequestStates]
  BY DEF Typed
<1>2. ASSUME NEW answer \in Answers \ {"redirected"}, Reply(r, answer) PROVE FALSE
  BY <1>2, Replied
<1>3. ASSUME NEW place, Goto(r, place) PROVE FALSE
  BY <1>1, <1>3 DEF Goto, RequestStates
<1>4. ASSUME NEW place, NEW value,
             \/ req' = [req EXCEPT ![r].pc = place, ![r].link = value]
             \/ req' = [req EXCEPT ![r].pc = place, ![r].code = value]
             \/ req' = [req EXCEPT ![r].pc = place, ![r].answer = "replayed", ![r].code = value]
             \/ req' = [req EXCEPT ![r].tries = value]
      PROVE  FALSE
  BY <1>1, <1>4 DEF RequestStates
<1>5. ~Replay(r) /\ ~Limit(r) /\ ~Screen(r) /\ ~Insert(r) /\ ~Remember(r)
  BY <1>2, <1>3, <1>4 DEF Replay, Limit, Screen, Insert, Remember, Answers
<1>6. ~(\E c \in Codes : Generate(r, c)) /\ ~Lookup(r) /\ ~Read(r) /\ ~Fill(r) /\ ~Check(r)
  BY <1>2, <1>3, <1>4 DEF Generate, Lookup, Read, Fill, Check, Answers
<1>7. ~CountReport(r) /\ ~DeleteRow(r) /\ ~Series(r) /\ ~Describe(r)
  BY <1>2, <1>3 DEF CountReport, DeleteRow, Series, Describe, Answers
<1>8. ~Evict(r)
  <2>1. ASSUME Evict(r) PROVE req[r].op \in {"redirect", "report", "delete"}
    BY <1>1, <2>1 DEF Evict, Locals, At
  <2> QED
    BY <1>2, <1>3, <2>1 DEF Evict, Answers
<1> QED
  BY <1>5, <1>6, <1>7, <1>8 DEF Serve, Click

(* A redirect does go to a URL that was flagged before it came, but only   *)
(* if the URL was deleted meanwhile, or if the redirect that put it in the *)
(* cache overlapped a report or a delete of it (redirect.py:28-42,         *)
(* urls.py:97-102).                                                        *)
THEOREM BarredUnlessOverlappedAlways == Spec => BarredUnlessOverlapped
<1> DEFINE IInv == Current /\ BarringKept
<1>1. Init => IInv
  <2> SUFFICES ASSUME Init PROVE IInv
    OBVIOUS
  <2>1. \A r \in Requests : ~req[r].barred
    BY DEF Init, NotYet
  <2> QED
    BY <2>1, CurrentAtFirst DEF BarringKept, Active
<1>2. IInv /\ [Next]_vars => IInv'
  BY StepKeepsCurrent, StepKeepsBarring
<1>3. IInv /\ [Next]_vars =>
        \A r \in Requests :
          /\ req[r].barred
          /\ req[r].answer # "redirected" /\ req'[r].answer = "redirected"
          => LET c == req[r].code
                 by == req[r].link.by
             IN  \/ WrittenDuring(r, "delete", c)
                 \/ WrittenDuring(by, "delete", c) \/ WrittenDuring(by, "report", c)
  <2> SUFFICES ASSUME IInv, [Next]_vars, NEW r \in Requests, req[r].barred,
                      req[r].answer # "redirected", req'[r].answer = "redirected"
               PROVE  WrittenDuring(r, "delete", req[r].code) \/ Tainted(req[r].link, req[r].code)
    BY DEF Tainted
  <2>1. Typed
    BY DEF Current, Owned, Counted
  <2>2. Serve(r)
    BY <2>1, WhoMoves, Started DEF OnlyMoves, Arrived
  <2>3. At(r, "click") /\ r \in Active
    BY <2>1, <2>2, JustRedirected, Served
  <2> QED
    BY <2>3 DEF BarringKept, Barring
<1> HIDE DEF IInv
<1> QED
  BY <1>1, <1>2, <1>3, PTL DEF Spec, BarredUnlessOverlapped
=============================================================================
