--------------------------- MODULE LineageProofs ----------------------------
(***************************************************************************)
(* Machine-checked proofs about Lineage, for every graph, every number of  *)
(* attempts, of calls, of insertions and of crashes: what the trail of     *)
(* decisions tells of the rows, however the transactions of the workers    *)
(* interleave and wherever the process dies; and that the numbers of the   *)
(* report are those of the trail.                                          *)
(***************************************************************************)
EXTENDS Lineage, SequenceTheorems, FiniteSetTheorems, WellFoundedInduction, TLAPS

-----------------------------------------------------------------------------
(* Types *)

Graphs == [nodes : SUBSET Stages, deps : [Stages -> SUBSET Stages]]

Statuses == {"pending", "running", "retrying", "blocked_approval", "passed", "failed",
             "skipped", "rolled_back", "stale"}
Rows == [status : Statuses, attempts : Nat, stale : BOOLEAN, rollbacks : Nat,
         arts : BOOLEAN, ids : SUBSET Nat,
         span : {"never", "started", "ended", "forward", "backwards"}]

Changes == {"begin", "retry", "block", "output", "pass", "fail", "skip", "roll_back",
            "set_aside", "link"}
Actions == {"attempt_started", "attempt_failed", "exit_gate_failed", "fallback_invoked",
            "entry_gate_blocked", "entry_gate_rejected", "exit_gate_blocked", "stage_passed",
            "stage_failed", "stage_skipped", "rolled_back", "marked_stale", "replanned",
            "stage_inserted"}
Authors == {"executor", "replanner"}
Decisions == [action : Actions, by : Authors]

RunStatuses == {"running", "paused_approval", "failed", "completed"}
Simple == [op : {"load", "audit", "create"}, stage : Stages]
          \cup [op : {"save"}, stage : Stages, change : Changes, n : Nat]
          \cup [op : {"record"}, stage : Stages, action : Actions, by : Authors]
          \cup [op : {"status"}, to : RunStatuses, closes : SUBSET Stages]
          \cup [op : {"graph"}, to : Graphs]
AsideLogs(s) == {<<>>, Log(s, "marked_stale"), Note(s, "marked_stale")}
Asides == {o \in [op : {"aside"}, stage : Stages, log : Seq(Simple)] : o.log \in AsideLogs(o.stage)}
Ops == Simple \cup Asides

Places == {"none", "start", "entry", "recheck", "agent", "exit", "again", "propagate"}

Typed ==
    /\ graph \in Graphs /\ mem \in Graphs
    /\ rows \in [Stages -> Rows \cup {NoRow}]
    /\ trail \in [Stages -> Seq(Decisions)]
    /\ audited \in [Stages -> SUBSET Nat]
    /\ work \in [Workers -> [todo : Seq(Ops), held : Rows \cup {NoRow}, decision : Nat]]
    /\ th \in [Stages -> [at : Places, attempt : Nat, fallback : BOOLEAN]]
    /\ main \in [at : {"idle", "layer", "join", "raised"}, target : SUBSET Stages]
    /\ done \in SUBSET Stages /\ layer \in SUBSET Stages
    /\ cut \in SUBSET Stages /\ torn \in SUBSET Workers

Todo(w) == work[w].todo

-----------------------------------------------------------------------------
(* Sequences of sequences *)

(* A set of numbers has a least one. *)
LEMMA LeastNumber ==
  ASSUME NEW S \in SUBSET Nat, S # {}
  PROVE  \E n \in S : \A m \in S : n <= m
<1> DEFINE R == {ss \in Nat \X Nat : ss[1] < ss[2]}
<1>1. IsWellFoundedOn(R, Nat)
  BY NatLessThanWellFounded DEF OpToRel
<1>2. PICK n \in S : \A m \in S : <<m, n>> \notin R
  <2> HIDE DEF R
  <2> QED
    BY <1>1, WFMin
<1>3. ASSUME NEW m \in S PROVE n <= m
  <2>1. m \in Nat /\ n \in Nat /\ <<m, n>> \notin R
    BY <1>2, <1>3
  <2>2. ~(m < n)
    BY <2>1
  <2> HIDE DEF R
  <2> QED
    BY <2>1, <2>2
<1> QED
  BY <1>3

(* A set of numbers that holds the successors of its members, and 0, holds *)
(* them all.                                                               *)
LEMMA EveryNumber ==
  ASSUME NEW P \in SUBSET Nat, 0 \in P, \A n \in P : n + 1 \in P
  PROVE  P = Nat
<1> SUFFICES ASSUME Nat \ P # {} PROVE FALSE
  OBVIOUS
<1>1. PICK n \in Nat \ P : \A m \in Nat \ P : n <= m
  BY LeastNumber
<1>2. n - 1 \in Nat /\ ~(n <= n - 1) /\ (n - 1) + 1 = n
  BY <1>1
<1> QED
  BY <1>1, <1>2

(* What FlattenSeq makes of the first i lists, from what it makes of fewer. *)
Flattening(q, f) == [i \in 1 .. Len(q) |-> IF i = 1 THEN q[i] ELSE f[i - 1] \o q[i]]
Flat(q) == CHOOSE f : f = Flattening(q, f)

(* FlattenSeq, with its recursive function named. *)
LEMMA FlattenSeqIs ==
  ASSUME NEW q, Len(q) # 0
  PROVE  FlattenSeq(q) = Flat(q)[Len(q)]
BY DEF FlattenSeq, Flat, Flattening

(* There is one function that satisfies the recursion. *)
LEMMA FlatExists ==
  ASSUME NEW S, NEW q \in Seq(Seq(S))
  PROVE  Flat(q) = Flattening(q, Flat(q)) /\ Flat(q) \in [1 .. Len(q) -> Seq(S)]
<1> DEFINE N == Len(q)
           Right(f, n) == \A i \in 1 .. N : i <= n => f[i] = Flattening(q, f)[i]
           P == {n \in Nat : \E f \in [1 .. N -> Seq(S)] : Right(f, n)}
<1>0. N \in Nat /\ q \in [1 .. N -> Seq(S)]
  OBVIOUS
<1>1. \A f : \A i \in 1 .. N : Flattening(q, f)[i] = IF i = 1 THEN q[i] ELSE f[i - 1] \o q[i]
  BY DEF Flattening
<1>2. ASSUME NEW n \in P PROVE n + 1 \in P
  <2>1. PICK f \in [1 .. N -> Seq(S)] : Right(f, n)
    OBVIOUS
  <2> DEFINE g == Flattening(q, f)
  <2>2. g \in [1 .. N -> Seq(S)]
    <3>1. ASSUME NEW i \in 1 .. N, i # 1 PROVE f[i - 1] \o q[i] \in Seq(S)
      <4>1. i - 1 \in 1 .. N
        BY <1>0, <3>1
      <4>2. f[i - 1] \in Seq(S) /\ q[i] \in Seq(S)
        BY <1>0, <4>1
      <4> QED
        BY <4>2, ConcatProperties
    <3> QED
      BY <1>0, <3>1 DEF Flattening
  <2>3. ASSUME NEW i \in 1 .. N, i <= n + 1 PROVE g[i] = Flattening(q, g)[i]
    <3>1. CASE i = 1
      BY <1>1, <3>1
    <3>2. CASE i # 1
      <4>1. i - 1 \in 1 .. N /\ i - 1 <= n
        BY <1>0, <2>3, <3>2
      <4>2. f[i - 1] = g[i - 1]
        BY <2>1, <4>1
      <4> HIDE DEF g
      <4>3. Flattening(q, g)[i] = g[i - 1] \o q[i]
        BY <1>1, <3>2
      <4>4. g[i] = f[i - 1] \o q[i]
        BY <1>1, <3>2 DEF g
      <4> QED
        BY <4>2, <4>3, <4>4
    <3> QED
      BY <3>1, <3>2
  <2> HIDE DEF g
  <2>4. Right(g, n + 1)
    BY <2>3
  <2> HIDE DEF Right
  <2> QED
    BY <2>2, <2>4
<1>3. P = Nat
  <2>1. P \in SUBSET Nat /\ 0 \in P
    BY <1>0
  <2> HIDE DEF P
  <2> QED
    BY <1>2, <2>1, EveryNumber
<1>4. PICK f \in [1 .. N -> Seq(S)] : Right(f, N)
  BY <1>0, <1>3
<1>5. f = Flattening(q, f)
  BY <1>0, <1>4 DEF Flattening
<1>6. Flat(q) = Flattening(q, Flat(q))
  BY <1>5 DEF Flat
<1>7. ASSUME NEW g, g = Flattening(q, g) PROVE g = f
  <2> DEFINE Q == {n \in Nat : \A i \in 1 .. N : i <= n => g[i] = f[i]}
  <2>1. ASSUME NEW n \in Q PROVE n + 1 \in Q
    <3>1. ASSUME NEW i \in 1 .. N, i <= n + 1 PROVE g[i] = f[i]
      <4>1. /\ g[i] = IF i = 1 THEN q[i] ELSE g[i - 1] \o q[i]
            /\ f[i] = IF i = 1 THEN q[i] ELSE f[i - 1] \o q[i]
        <5> HIDE DEF N
        <5>1. Flattening(q, g)[i] = IF i = 1 THEN q[i] ELSE g[i - 1] \o q[i]
          BY <1>1
        <5>2. Flattening(q, f)[i] = IF i = 1 THEN q[i] ELSE f[i - 1] \o q[i]
          BY <1>1
        <5> QED
          BY <1>5, <1>7, <5>1, <5>2
      <4>2. i # 1 => i - 1 \in 1 .. N /\ i - 1 <= n
        BY <1>0, <3>1
      <4> QED
        BY <4>1, <4>2
    <3> QED
      BY <3>1
  <2>2. Q = Nat
    <3>1. Q \in SUBSET Nat /\ 0 \in Q
      BY <1>0
    <3> HIDE DEF Q
    <3> QED
      BY <2>1, <3>1, EveryNumber
  <2>3. \A i \in 1 .. N : g[i] = f[i]
    BY <1>0, <2>2
  <2>4. g = [i \in 1 .. N |-> g[i]] /\ f = [i \in 1 .. N |-> f[i]]
    BY <1>5, <1>7 DEF Flattening
  <2> QED
    BY <2>3, <2>4
<1> QED
  BY <1>6, <1>7

(* A concatenation holds what its parts hold. *)
LEMMA ConcatenatedSet ==
  ASSUME NEW S, NEW a \in Seq(S), NEW b \in Seq(S)
  PROVE  ToSet(a \o b) = ToSet(a) \cup ToSet(b)
<1>1. /\ Len(a) \in Nat /\ Len(b) \in Nat
      /\ DOMAIN a = 1 .. Len(a) /\ DOMAIN b = 1 .. Len(b)
      /\ DOMAIN (a \o b) = 1 .. Len(a) + Len(b)
      /\ \A i \in 1 .. Len(a) + Len(b) : (a \o b)[i] = IF i <= Len(a) THEN a[i] ELSE b[i - Len(a)]
  OBVIOUS
<1>2. ASSUME NEW i \in DOMAIN (a \o b) PROVE (a \o b)[i] \in ToSet(a) \cup ToSet(b)
  <2>1. i <= Len(a) => i \in 1 .. Len(a)
    BY <1>1
  <2>2. ~(i <= Len(a)) => i - Len(a) \in 1 .. Len(b)
    BY <1>1
  <2> QED
    BY <1>1, <2>1, <2>2 DEF ToSet
<1>3. ASSUME NEW i \in DOMAIN a PROVE a[i] \in ToSet(a \o b)
  <2>1. i \in 1 .. Len(a) + Len(b) /\ (a \o b)[i] = a[i]
    BY <1>1
  <2> QED
    BY <1>1, <2>1 DEF ToSet
<1>4. ASSUME NEW i \in DOMAIN b PROVE b[i] \in ToSet(a \o b)
  <2>1. i + Len(a) \in 1 .. Len(a) + Len(b) /\ (a \o b)[i + Len(a)] = b[i]
    BY <1>1
  <2> QED
    BY <1>1, <2>1 DEF ToSet
<1>5. /\ \A x \in ToSet(a \o b) : x \in ToSet(a) \cup ToSet(b)
      /\ \A x \in ToSet(a) \cup ToSet(b) : x \in ToSet(a \o b)
  BY <1>2, <1>3, <1>4 DEF ToSet
<1> QED
  BY <1>5

(* FlattenSeq stays within a set of lists that is closed under             *)
(* concatenation, and its result holds what the lists hold.                *)
LEMMA Flattened ==
  ASSUME NEW S, NEW G \in SUBSET Seq(S), <<>> \in G, \A x, y \in G : x \o y \in G,
         NEW q \in Seq(G)
  PROVE  /\ FlattenSeq(q) \in G
         /\ ToSet(FlattenSeq(q)) = UNION {ToSet(q[n]) : n \in DOMAIN q}
<1>0. /\ Len(q) \in Nat /\ q \in [1 .. Len(q) -> G] /\ DOMAIN q = 1 .. Len(q)
      /\ q \in Seq(Seq(S))
  BY SeqMonotonic
<1>1. CASE Len(q) = 0
  <2>1. q = <<>> /\ FlattenSeq(q) = q
    BY <1>1 DEF FlattenSeq
  <2> QED
    BY <2>1 DEF ToSet
<1>2. CASE Len(q) # 0
  <2> DEFINE f == Flat(q)
             Holds(i) == /\ f[i] \in G
                         /\ \A x : x \in ToSet(f[i]) <=> \E m \in 1 .. i : x \in ToSet(q[m])
             P == {n \in Nat : \A i \in 1 .. Len(q) : i <= n => Holds(i)}
  <2>1. f = Flattening(q, f)
    BY <1>0, FlatExists
  <2>2. \A i \in 1 .. Len(q) : f[i] = IF i = 1 THEN q[i] ELSE f[i - 1] \o q[i]
    <3>1. \A h : \A i \in 1 .. Len(q) :
              Flattening(q, h)[i] = IF i = 1 THEN q[i] ELSE h[i - 1] \o q[i]
      BY DEF Flattening
    <3> HIDE DEF f
    <3> QED
      BY <2>1, <3>1
  <2> HIDE DEF f
  <2>3. ASSUME NEW n \in P PROVE n + 1 \in P
    <3>1. ASSUME NEW i \in 1 .. Len(q), i <= n + 1 PROVE Holds(i)
      <4>1. CASE i = 1
        <5>1. f[i] = q[i] /\ q[i] \in G
          BY <1>0, <2>2, <4>1
        <5>2. 1 .. i = {i}
          BY <4>1
        <5> QED
          BY <5>1, <5>2
      <4>2. CASE i # 1
        <5>1. i - 1 \in 1 .. Len(q) /\ i - 1 <= n /\ 1 .. i = 1 .. i - 1 \cup {i}
          BY <1>0, <3>1, <4>2
        <5>2. Holds(i - 1)
          BY <5>1
        <5>3. f[i - 1] \in G /\ q[i] \in G /\ f[i] = f[i - 1] \o q[i]
          BY <1>0, <2>2, <4>2, <5>2
        <5>4. f[i - 1] \in Seq(S) /\ q[i] \in Seq(S)
          BY <5>3
        <5>5. ToSet(f[i - 1] \o q[i]) = ToSet(f[i - 1]) \cup ToSet(q[i])
          BY <5>4, ConcatenatedSet
        <5>6. \A x : x \in ToSet(f[i]) <=> x \in ToSet(f[i - 1]) \/ x \in ToSet(q[i])
          BY <5>3, <5>5
        <5>7. \A x : (\E m \in 1 .. i : x \in ToSet(q[m]))
                      <=> (\E m \in 1 .. i - 1 : x \in ToSet(q[m])) \/ x \in ToSet(q[i])
          BY <5>1
        <5> QED
          BY <5>2, <5>3, <5>6, <5>7
      <4> QED
        BY <4>1, <4>2
    <3> HIDE DEF Holds
    <3> QED
      BY <3>1
  <2>4. P = Nat
    <3>1. P \in SUBSET Nat /\ 0 \in P
      BY <1>0
    <3> HIDE DEF P
    <3> QED
      BY <2>3, <3>1, EveryNumber
  <2>5. Len(q) \in P /\ Len(q) \in 1 .. Len(q)
    <3> HIDE DEF P
    <3> QED
      BY <1>0, <1>2, <2>4
  <2>6. Holds(Len(q))
    <3> HIDE DEF Holds
    <3> QED
      BY <1>0, <2>5
  <2>7. FlattenSeq(q) = f[Len(q)]
    BY <1>2, FlattenSeqIs DEF f
  <2> QED
    BY <1>0, <2>6, <2>7
<1> QED
  BY <1>1, <1>2

(* InOrder counts the stages of a set. *)
LEMMA InOrderCounts ==
  ASSUME NEW T \in SUBSET Stages
  PROVE  /\ Cardinality(T) \in Nat
         /\ InOrder(T) \in [1 .. Cardinality(T) -> T]
         /\ \A s \in T : \E i \in 1 .. Cardinality(T) : InOrder(T)[i] = s
<1>1. IsFiniteSet(T)
  BY LineageAssumption, FS_Subset
<1> DEFINE n == Cardinality(T)
<1>2. n \in Nat /\ ExistsBijection(1 .. n, T)
  BY <1>1, FS_CardinalityType
<1>3. \E f \in [1 .. n -> T] : IsInjective(f)
  BY <1>2 DEF ExistsBijection, Bijection, Injection, IsInjective
<1>4. InOrder(T) \in [1 .. n -> T] /\ IsInjective(InOrder(T))
  BY <1>3 DEF InOrder, SetToSeq
<1>5. InOrder(T) \in Injection(1 .. n, T)
  BY <1>4 DEF Injection, IsInjective
<1>6. Cardinality(1 .. n) = n
  BY <1>2, FS_Interval
<1>7. InOrder(T) \in Surjection(1 .. n, T)
  BY <1>1, <1>5, <1>6, FS_Injection
<1> QED
  BY <1>2, <1>4, <1>7 DEF Surjection

-----------------------------------------------------------------------------
(* Lists of transactions *)

IsSave(o, s, change) == o.op = "save" /\ o.stage = s /\ o.change = change
IsRecord(o, s) == o.op = "record" /\ o.stage = s
Links(o) == o.op = "save" /\ o.change = "link"

(* A save that leaves the status of its row alone. *)
Mute(o) == o.op = "save" /\ o.change \in {"link", "output"}

(* The status that a save gives its row. *)
Gives(o) ==
    CASE o.change = "begin" -> IF o.n = 1 THEN "running" ELSE "retrying"
      [] o.change = "retry" -> "retrying"
      [] o.change = "block" -> "blocked_approval"
      [] o.change = "pass" -> "passed"
      [] o.change = "fail" -> "failed"
      [] o.change = "skip" -> "skipped"
      [] o.change = "roll_back" -> "rolled_back"
      [] o.change = "set_aside" -> "stale"
      [] OTHER -> "none"

(* What may come before the i-th transaction of a list: a row is saved     *)
(* after it was loaded, a decision is linked after it was recorded, an     *)
(* event written after that.                                               *)
Preceded(L, i) ==
    /\ L[i].op \in {"save", "aside"} /\ i > 1 => L[i - 1].op = "load" /\ L[i - 1].stage = L[i].stage
    /\ Links(L[i]) /\ i > 2 => IsRecord(L[i - 2], L[i].stage) /\ L[i - 2].by = "executor"
    /\ L[i].op = "audit" /\ i > 1 =>
           \/ IsSave(L[i - 1], L[i].stage, "link")
           \/ IsRecord(L[i - 1], L[i].stage) /\ L[i - 1].by = "replanner"
    /\ L[i].op = "record" /\ L[i].action = "stage_skipped" /\ i > 1 =>
           IsSave(L[i - 1], L[i].stage, "skip")
    /\ L[i].op = "create" => i = 1 \/ (i = 2 /\ L[1].op = "graph")
    /\ L[i].op = "graph" => i = 1
Followed(L, i) ==
    L[i].op = "load" => /\ i + 1 \in DOMAIN L
                        /\ L[i + 1].op \in {"save", "aside"} /\ L[i + 1].stage = L[i].stage
Paired(L) == \A i \in DOMAIN L : Preceded(L, i) /\ Followed(L, i)

(* A list that begins with no part of an earlier one. *)
Opens(L) ==
    L # <<>> =>
        /\ L[1].op \notin {"save", "aside", "audit"}
        /\ ~(L[1].op = "record" /\ L[1].action = "stage_skipped")
        /\ 2 \in DOMAIN L => ~Links(L[2])

(* A change of a status is followed by a decision about its stage. *)
Later(L, i, s) == \E j \in DOMAIN L : j > i /\ IsRecord(L[j], s)
Telling(o) == o.op = "create" \/ (o.op = "save" /\ ~Mute(o))
Spoken(L) == \A i \in DOMAIN L : Telling(L[i]) => Later(L, i, L[i].stage)

(* A decision tells the status its row was given just before, unless       *)
(* another one about its stage follows.                                    *)
Tells(o, action) == o.op = "save" /\ Gives(o) \in Explained(action)
Reasoned(L) ==
    \A i \in DOMAIN L : L[i].op = "record" =>
        \/ i > 1 /\ L[i - 1].stage = L[i].stage /\ Tells(L[i - 1], L[i].action)
        \/ Later(L, i, L[i].stage)
        \/ L[i].action = "stage_inserted"

Plain(L) == \A i \in DOMAIN L : L[i].op \notin {"graph", "create"}
Whole(L) == Paired(L) /\ Opens(L) /\ Spoken(L) /\ Reasoned(L) /\ Plain(L)
WholeLists == {L \in Seq(Ops) : Whole(L)}

(* The lists are indexed as one expects. *)
LEMMA Concatenated ==
  ASSUME NEW x \in Seq(Ops), NEW y \in Seq(Ops)
  PROVE  /\ x \o y \in Seq(Ops)
         /\ Len(x) \in Nat /\ Len(y) \in Nat
         /\ DOMAIN x = 1 .. Len(x) /\ DOMAIN y = 1 .. Len(y)
         /\ DOMAIN (x \o y) = 1 .. Len(x) + Len(y)
         /\ \A i \in 1 .. Len(x) : (x \o y)[i] = x[i]
         /\ \A i \in 1 .. Len(y) : (x \o y)[Len(x) + i] = y[i]
BY ConcatProperties

(* Lists are put together from lists. *)
LEMMA JoinPaired ==
  ASSUME NEW x \in Seq(Ops), NEW y \in Seq(Ops), Paired(x), Paired(y), Opens(y), Plain(y)
  PROVE  Paired(x \o y)
<1> DEFINE L == x \o y
           n == Len(x)
<1>0. /\ n \in Nat /\ Len(y) \in Nat
      /\ DOMAIN x = 1 .. n /\ DOMAIN y = 1 .. Len(y) /\ DOMAIN L = 1 .. n + Len(y)
      /\ \A i \in 1 .. n : L[i] = x[i]
      /\ \A i \in 1 .. Len(y) : L[n + i] = y[i]
  BY Concatenated
<1> HIDE DEF L, n
<1>1. ASSUME NEW i \in 1 .. n PROVE Preceded(L, i) /\ Followed(L, i)
  <2>1. Preceded(x, i) /\ Followed(x, i)
    BY <1>0 DEF Paired
  <2>2. /\ L[i] = x[i] /\ i \in DOMAIN L /\ 1 \in 1 .. n /\ L[1] = x[1]
        /\ i > 1 => L[i - 1] = x[i - 1]
        /\ i > 2 => L[i - 2] = x[i - 2]
        /\ i + 1 \in DOMAIN x => i + 1 \in DOMAIN L /\ L[i + 1] = x[i + 1]
    BY <1>0
  <2>3. Preceded(L, i)
    BY <2>1, <2>2 DEF Preceded
  <2>4. Followed(L, i)
    BY <2>1, <2>2 DEF Followed
  <2> QED
    BY <2>3, <2>4
<1>2. ASSUME NEW i \in 1 .. Len(y) PROVE Preceded(L, n + i) /\ Followed(L, n + i)
  <2>1. Preceded(y, i) /\ Followed(y, i) /\ y[i].op \notin {"graph", "create"}
    BY <1>0 DEF Paired, Plain
  <2>2. /\ L[n + i] = y[i] /\ n + i \in DOMAIN L
        /\ i > 1 => L[(n + i) - 1] = y[i - 1]
        /\ i > 2 => L[(n + i) - 2] = y[i - 2]
        /\ i + 1 \in DOMAIN y => (n + i) + 1 \in DOMAIN L /\ L[(n + i) + 1] = y[i + 1]
    <3>1. i > 1 => L[(n + i) - 1] = y[i - 1]
      <4>1. i > 1 => i - 1 \in 1 .. Len(y) /\ n + (i - 1) = (n + i) - 1
        BY <1>0
      <4> QED
        BY <1>0, <4>1
    <3>2. i > 2 => L[(n + i) - 2] = y[i - 2]
      <4>1. i > 2 => i - 2 \in 1 .. Len(y) /\ n + (i - 2) = (n + i) - 2
        BY <1>0
      <4> QED
        BY <1>0, <4>1
    <3>3. i + 1 \in DOMAIN y => (n + i) + 1 \in DOMAIN L /\ L[(n + i) + 1] = y[i + 1]
      <4>1. n + (i + 1) = (n + i) + 1
        BY <1>0
      <4>2. i + 1 \in DOMAIN y => (n + i) + 1 \in DOMAIN L
        BY <1>0
      <4> QED
        BY <1>0, <4>1, <4>2
    <3> QED
      BY <1>0, <3>1, <3>2, <3>3
  <2>3. y # <<>> /\ (i > 1 \/ i = 1) /\ (i > 2 \/ i = 2 \/ i = 1)
    BY <1>0
  <2>4. Followed(L, n + i)
    BY <2>1, <2>2 DEF Followed
  <2>5. Preceded(L, n + i)
    <3>1. CASE i = 1
      BY <2>1, <2>2, <2>3, <3>1 DEF Preceded, Opens, Links
    <3>2. CASE i = 2
      BY <1>0, <2>1, <2>2, <2>3, <3>2 DEF Preceded, Opens
    <3>3. CASE i > 2
      <4>1. i > 1 /\ L[n + i] = y[i] /\ L[(n + i) - 1] = y[i - 1] /\ L[(n + i) - 2] = y[i - 2]
        BY <2>2, <3>3
      <4>2. y[i].op \in {"save", "aside"} => y[i - 1].op = "load" /\ y[i - 1].stage = y[i].stage
        BY <2>1, <3>3 DEF Preceded
      <4>3. Links(y[i]) => IsRecord(y[i - 2], y[i].stage) /\ y[i - 2].by = "executor"
        BY <2>1, <3>3 DEF Preceded
      <4>4. y[i].op = "audit" =>
               \/ IsSave(y[i - 1], y[i].stage, "link")
               \/ IsRecord(y[i - 1], y[i].stage) /\ y[i - 1].by = "replanner"
        BY <2>1, <3>3 DEF Preceded
      <4>5. y[i].op = "record" /\ y[i].action = "stage_skipped" => IsSave(y[i - 1], y[i].stage, "skip")
        BY <2>1, <3>3 DEF Preceded
      <4> QED
        BY <2>1, <4>1, <4>2, <4>3, <4>4, <4>5 DEF Preceded
    <3> QED
      BY <2>3, <3>1, <3>2, <3>3
  <2> QED
    BY <2>4, <2>5
<1>3. ASSUME NEW k \in DOMAIN L, ~(k \in 1 .. n) PROVE \E i \in 1 .. Len(y) : k = n + i
  <2>1. k - n \in 1 .. Len(y) /\ k = n + (k - n)
    BY <1>0, <1>3
  <2> QED
    BY <2>1
<1>4. Paired(L)
  BY <1>1, <1>2, <1>3 DEF Paired
<1> QED
  BY <1>4 DEF L

(* Of the first list, what the second one accounts for need not be in it.  *)
LEMMA JoinTold ==
  ASSUME NEW x \in Seq(Ops), NEW y \in Seq(Ops), Paired(x), Opens(x), Whole(y),
         \A i \in DOMAIN x :
            /\ Telling(x[i]) => Later(x, i, x[i].stage) \/ Later(y, 0, x[i].stage)
            /\ x[i].op = "record" =>
                 \/ i > 1 /\ x[i - 1].stage = x[i].stage /\ Tells(x[i - 1], x[i].action)
                 \/ Later(x, i, x[i].stage) \/ Later(y, 0, x[i].stage)
                 \/ x[i].action = "stage_inserted"
  PROVE  LET L == x \o y IN
         Paired(L) /\ Opens(L) /\ Spoken(L) /\ Reasoned(L) /\ (Plain(x) => Plain(L))
<1> DEFINE L == x \o y
           n == Len(x)
<1>0. /\ n \in Nat /\ Len(y) \in Nat
      /\ DOMAIN x = 1 .. n /\ DOMAIN y = 1 .. Len(y) /\ DOMAIN L = 1 .. n + Len(y)
      /\ \A i \in 1 .. n : L[i] = x[i]
      /\ \A i \in 1 .. Len(y) : L[n + i] = y[i]
  BY Concatenated
<1>1. Paired(L)
  BY JoinPaired DEF Whole
<1> HIDE DEF L, n
<1>2. ASSUME NEW k \in DOMAIN L
      PROVE  k \in 1 .. n \/ \E i \in 1 .. Len(y) : k = n + i
  <2>1. k \in 1 .. n \/ (k - n \in 1 .. Len(y) /\ k = n + (k - n))
    BY <1>0
  <2> QED
    BY <2>1
<1>3. ASSUME NEW i \in 1 .. n, NEW s, Later(x, i, s) \/ Later(y, 0, s) PROVE Later(L, i, s)
  <2>1. CASE Later(x, i, s)
    <3>1. PICK j \in 1 .. n : j > i /\ IsRecord(x[j], s)
      BY <1>0, <2>1 DEF Later
    <3>2. j \in DOMAIN L /\ L[j] = x[j]
      BY <1>0
    <3> QED
      BY <3>1, <3>2 DEF Later
  <2>2. CASE Later(y, 0, s)
    <3>1. PICK j \in 1 .. Len(y) : IsRecord(y[j], s)
      BY <1>0, <2>2 DEF Later
    <3>2. n + j \in DOMAIN L /\ n + j > i /\ L[n + j] = y[j]
      BY <1>0
    <3> QED
      BY <3>1, <3>2 DEF Later
  <2> QED
    BY <1>3, <2>1, <2>2
<1>4. ASSUME NEW i \in 1 .. Len(y), NEW s, Later(y, i, s) PROVE Later(L, n + i, s)
  <2>1. PICK j \in 1 .. Len(y) : j > i /\ IsRecord(y[j], s)
    BY <1>0, <1>4 DEF Later
  <2>2. n + j \in DOMAIN L /\ n + j > n + i /\ L[n + j] = y[j]
    BY <1>0, <2>1
  <2> QED
    BY <2>1, <2>2 DEF Later
<1>5. Spoken(L)
  <2>1. \A i \in 1 .. n : Telling(L[i]) => Later(L, i, L[i].stage)
    BY <1>0, <1>3
  <2>2. \A i \in 1 .. Len(y) : Telling(L[n + i]) => Later(L, n + i, L[n + i].stage)
    BY <1>0, <1>4 DEF Whole, Spoken
  <2> QED
    BY <1>2, <2>1, <2>2 DEF Spoken
<1>6. Reasoned(L)
  <2> DEFINE Good(k) == L[k].op = "record" =>
                          \/ k > 1 /\ L[k - 1].stage = L[k].stage /\ Tells(L[k - 1], L[k].action)
                          \/ Later(L, k, L[k].stage)
                          \/ L[k].action = "stage_inserted"
  <2>1. ASSUME NEW i \in 1 .. n PROVE Good(i)
    <3>1. L[i] = x[i] /\ (i > 1 => L[i - 1] = x[i - 1])
      BY <1>0
    <3> QED
      BY <1>0, <1>3, <3>1
  <2>2. ASSUME NEW i \in 1 .. Len(y) PROVE Good(n + i)
    <3>1. L[n + i] = y[i] /\ (i > 1 => L[(n + i) - 1] = y[i - 1]) /\ (i > 1 => n + i > 1)
      <4>1. i > 1 => i - 1 \in 1 .. Len(y) /\ n + (i - 1) = (n + i) - 1
        BY <1>0
      <4> QED
        BY <1>0, <4>1
    <3> QED
      BY <1>0, <1>4, <3>1 DEF Whole, Reasoned
  <2> HIDE DEF Good
  <2>3. \A k \in DOMAIN L : Good(k)
    BY <1>2, <2>1, <2>2
  <2> QED
    BY <2>3 DEF Reasoned, Good
<1>7. Plain(x) => Plain(L)
  BY <1>0, <1>2, ZenonT(60) DEF Whole, Plain
<1>8. Opens(L)
  <2>1. CASE n = 0
    <3>1. /\ L # <<>> => y # <<>> /\ L[1] = y[1]
          /\ 2 \in DOMAIN L => 2 \in DOMAIN y /\ L[2] = y[2]
      <4>1. L # <<>> => 1 \in 1 .. Len(y)
        BY <1>0, <2>1 DEF L
      <4>2. 2 \in DOMAIN L => 2 \in 1 .. Len(y)
        BY <1>0, <2>1
      <4> QED
        BY <1>0, <2>1, <4>1, <4>2
    <3> QED
      BY <3>1 DEF Whole, Opens
  <2>2. CASE n = 1
    <3>1. x # <<>> /\ L[1] = x[1]
      <4>1. 1 \in 1 .. n
        BY <2>2
      <4> QED
        BY <1>0, <4>1
    <3>2. 2 \in DOMAIN L => y # <<>> /\ L[2] = y[1]
      <4>1. 2 \in DOMAIN L => 1 \in 1 .. Len(y) /\ n + 1 = 2
        BY <1>0, <2>2
      <4> QED
        BY <1>0, <4>1
    <3> QED
      BY <3>1, <3>2 DEF Whole, Opens, Links
  <2>3. CASE n > 1
    <3>1. x # <<>> /\ L[1] = x[1] /\ 2 \in DOMAIN x /\ L[2] = x[2]
      BY <1>0, <2>3
    <3> QED
      BY <3>1 DEF Opens
  <2> QED
    BY <1>0, <2>1, <2>2, <2>3
<1> QED
  BY <1>1, <1>5, <1>6, <1>7, <1>8 DEF L

LEMMA JoinWhole ==
  ASSUME NEW x \in Seq(Ops), NEW y \in Seq(Ops), Paired(x), Opens(x), Plain(x), Whole(y),
         \A i \in DOMAIN x :
            /\ Telling(x[i]) => Later(x, i, x[i].stage) \/ Later(y, 0, x[i].stage)
            /\ x[i].op = "record" =>
                 \/ i > 1 /\ x[i - 1].stage = x[i].stage /\ Tells(x[i - 1], x[i].action)
                 \/ Later(x, i, x[i].stage) \/ Later(y, 0, x[i].stage)
                 \/ x[i].action = "stage_inserted"
  PROVE  Whole(x \o y)
BY JoinTold DEF Whole

LEMMA WholeJoin ==
  ASSUME NEW x \in WholeLists, NEW y \in WholeLists
  PROVE  x \o y \in WholeLists
<1>1. Whole(x \o y)
  BY JoinWhole DEF WholeLists, Whole, Spoken, Reasoned
<1> QED
  BY <1>1, Concatenated DEF WholeLists

(* A transaction is one of the operations. *)
LEMMA Transactions ==
  ASSUME NEW s \in Stages
  PROVE  /\ Load(s) \in Simple /\ Audit(s) \in Simple
         /\ \A change \in Changes, n \in Nat : Save(s, change, n) \in Simple
         /\ \A action \in Actions, by \in Authors : Record(s, action, by) \in Simple
         /\ Simple \subseteq Ops
BY DEF Load, Audit, Save, Record, Simple, Asides, Ops

LEMMA LogShape ==
  ASSUME NEW s \in Stages, NEW action \in Actions
  PROVE  LET L == Log(s, action) IN
         /\ L \in Seq(Simple) /\ L \in Seq(Ops) /\ Len(L) = 4 /\ DOMAIN L = 1 .. 4
         /\ L[1] = Record(s, action, "executor") /\ L[2] = Load(s)
         /\ L[3] = Save(s, "link", 0) /\ L[4] = Audit(s)
         /\ Paired(L) /\ Plain(L) /\ Spoken(L) /\ Later(L, 0, s)
         /\ action # "stage_skipped" => Opens(L)
<1> DEFINE L == Log(s, action)
<1>1. /\ Len(L) = 4 /\ DOMAIN L = 1 .. 4
      /\ L[1] = Record(s, action, "executor") /\ L[2] = Load(s)
      /\ L[3] = Save(s, "link", 0) /\ L[4] = Audit(s)
  BY DEF Log
<1>2. L \in Seq(Simple) /\ L \in Seq(Ops)
  <2>1. /\ Record(s, action, "executor") \in Simple /\ Load(s) \in Simple
        /\ Save(s, "link", 0) \in Simple /\ Audit(s) \in Simple
    BY Transactions DEF Changes, Authors
  <2>2. L \in Seq(Simple)
    BY <2>1 DEF Log
  <2> QED
    BY <2>2, SeqMonotonic, Transactions
<1> HIDE DEF L
<1>3. \A i \in 1 .. 4 : Preceded(L, i) /\ Followed(L, i)
  BY <1>1 DEF Preceded, Followed, Record, Load, Save, Audit, Links, IsSave, IsRecord
<1>4. Paired(L)
  BY <1>1, <1>3 DEF Paired
<1>5. Plain(L) /\ Spoken(L)
  BY <1>1 DEF Plain, Spoken, Record, Load, Save, Audit, Telling, Mute
<1>6. Later(L, 0, s)
  BY <1>1 DEF Later, IsRecord, Record
<1>7. action # "stage_skipped" => Opens(L)
  BY <1>1 DEF Opens, Record, Load, Links
<1> QED
  BY <1>1, <1>2, <1>4, <1>5, <1>6, <1>7 DEF L

LEMMA UpdateShape ==
  ASSUME NEW s \in Stages, NEW change \in Changes \ {"link"}, NEW n \in Nat
  PROVE  LET L == Update(s, change, n) IN
         /\ L \in Seq(Ops) /\ Len(L) = 2 /\ DOMAIN L = 1 .. 2
         /\ L[1] = Load(s) /\ L[2] = Save(s, change, n)
         /\ Paired(L) /\ Plain(L) /\ Opens(L) /\ Reasoned(L)
<1> DEFINE L == Update(s, change, n)
<1>1. Len(L) = 2 /\ DOMAIN L = 1 .. 2 /\ L[1] = Load(s) /\ L[2] = Save(s, change, n)
  BY DEF Update
<1>2. L \in Seq(Ops)
  BY Transactions DEF Update
<1> HIDE DEF L
<1>3. \A i \in 1 .. 2 : Preceded(L, i) /\ Followed(L, i)
  BY <1>1 DEF Preceded, Followed, Load, Save, Links
<1>4. Paired(L)
  BY <1>1, <1>3 DEF Paired
<1>5. Plain(L) /\ Opens(L) /\ Reasoned(L)
  BY <1>1 DEF Plain, Opens, Reasoned, Load, Save, Links
<1> QED
  BY <1>1, <1>2, <1>4, <1>5 DEF L

(* A change of a status and the decision that tells it. *)
LEMMA SaidWhole ==
  ASSUME NEW s \in Stages, NEW change \in Changes \ {"link"}, NEW n \in Nat,
         NEW action \in Actions, Tells(Save(s, change, n), action),
         action = "stage_skipped" => change = "skip"
  PROVE  LET L == Update(s, change, n) \o Log(s, action) IN
         /\ L \in WholeLists /\ Later(L, 0, s)
         /\ ToSet(L) = {Load(s), Save(s, change, n), Record(s, action, "executor"),
                        Save(s, "link", 0), Audit(s)}
<1> DEFINE x == Update(s, change, n)
           y == Log(s, action)
           L == x \o y
<1>1. /\ x \in Seq(Ops) /\ Len(x) = 2 /\ x[1] = Load(s) /\ x[2] = Save(s, change, n)
      /\ y \in Seq(Ops) /\ Len(y) = 4
      /\ y[1] = Record(s, action, "executor") /\ y[2] = Load(s)
      /\ y[3] = Save(s, "link", 0) /\ y[4] = Audit(s)
  BY UpdateShape, LogShape
<1> HIDE DEF x, y
<1>2. /\ L \in Seq(Ops) /\ DOMAIN L = 1 .. 6
      /\ L[1] = Load(s) /\ L[2] = Save(s, change, n)
      /\ L[3] = Record(s, action, "executor") /\ L[4] = Load(s)
      /\ L[5] = Save(s, "link", 0) /\ L[6] = Audit(s)
  <2>0. /\ L \in Seq(Ops) /\ DOMAIN L = 1 .. Len(x) + Len(y)
        /\ \A i \in 1 .. Len(x) : L[i] = x[i]
        /\ \A i \in 1 .. Len(y) : L[Len(x) + i] = y[i]
    BY <1>1, Concatenated
  <2> HIDE DEF L
  <2>1. /\ L \in Seq(Ops) /\ DOMAIN L = 1 .. 2 + 4
        /\ \A i \in 1 .. 2 : L[i] = x[i]
        /\ \A i \in 1 .. 4 : L[2 + i] = y[i]
    BY <1>1, <2>0
  <2>2. \A i \in 1 .. 4, j \in Nat : j = 2 + i => L[j] = y[i]
    BY <2>1
  <2>3. L[3] = y[1] /\ L[4] = y[2] /\ L[5] = y[3] /\ L[6] = y[4] /\ L[1] = x[1] /\ L[2] = x[2]
    BY <2>1, <2>2
  <2> QED
    BY <1>1, <2>1, <2>3
<1> HIDE DEF L
<1>3. \A i \in 1 .. 6 : Preceded(L, i)
  BY <1>2 DEF Preceded, Record, Load, Save, Audit, Links, IsSave, IsRecord
<1>4. \A i \in 1 .. 6 : Followed(L, i)
  BY <1>2 DEF Followed, Record, Load, Save, Audit
<1>5. Paired(L)
  BY <1>2, <1>3, <1>4 DEF Paired
<1>6. Later(L, 0, s) /\ Later(L, 1, s) /\ Later(L, 2, s)
  BY <1>2 DEF Later, IsRecord, Record
<1>7. Spoken(L)
  BY <1>2, <1>6 DEF Spoken, Telling, Mute, Record, Load, Save, Audit
<1>8. Reasoned(L)
  BY <1>2 DEF Reasoned, Tells, Record, Load, Save, Audit
<1>9. Plain(L) /\ Opens(L)
  BY <1>2 DEF Plain, Opens, Links, Record, Load, Save, Audit
<1>10. ToSet(L) = {Load(s), Save(s, change, n), Record(s, action, "executor"),
                   Save(s, "link", 0), Audit(s)}
  <2>1. ToSet(L) = {L[i] : i \in 1 .. 6}
    BY <1>2 DEF ToSet
  <2>2. \A i \in 1 .. 6 : i = 1 \/ i = 2 \/ i = 3 \/ i = 4 \/ i = 5 \/ i = 6
    OBVIOUS
  <2> QED
    BY <1>2, <2>1, <2>2
<1> QED
  BY <1>2, <1>5, <1>6, <1>7, <1>8, <1>9, <1>10 DEF WholeLists, Whole, L, x, y

LEMMA SkipWhole ==
  ASSUME NEW s \in Stages
  PROVE  /\ Skip(s) \in WholeLists
         /\ ToSet(Skip(s)) = {Load(s), Save(s, "skip", 0), Record(s, "stage_skipped", "executor"),
                              Save(s, "link", 0), Audit(s)}
<1>1. Tells(Save(s, "skip", 0), "stage_skipped")
  BY DEF Tells, Save, Gives, Explained
<1> QED
  BY <1>1, SaidWhole DEF Skip, Changes, Actions

LEMMA FailWhole ==
  ASSUME NEW s \in Stages, NEW n \in Nat
  PROVE  /\ Fail(s, n) \in WholeLists /\ Later(Fail(s, n), 0, s)
         /\ ToSet(Fail(s, n)) = {Load(s), Save(s, "fail", n), Record(s, "stage_failed", "executor"),
                                 Save(s, "link", 0), Audit(s)}
<1>1. Tells(Save(s, "fail", n), "stage_failed")
  BY DEF Tells, Save, Gives, Explained
<1> QED
  BY <1>1, SaidWhole DEF Fail, Changes, Actions

(* A decision that is followed by another one about its stage. *)
LEMMA LogThen ==
  ASSUME NEW s \in Stages, NEW action \in Actions \ {"stage_skipped"},
         NEW y \in WholeLists, Later(y, 0, s)
  PROVE  LET L == Log(s, action) \o y IN
         /\ L \in WholeLists /\ Later(L, 0, s)
         /\ ToSet(L) = {Record(s, action, "executor"), Load(s), Save(s, "link", 0), Audit(s)}
                       \cup ToSet(y)
<1> DEFINE x == Log(s, action)
           L == x \o y
<1>1. /\ x \in Seq(Ops) /\ Len(x) = 4 /\ DOMAIN x = 1 .. 4
      /\ x[1] = Record(s, action, "executor") /\ x[2] = Load(s)
      /\ x[3] = Save(s, "link", 0) /\ x[4] = Audit(s)
      /\ Paired(x) /\ Plain(x) /\ Opens(x)
  BY LogShape
<1> HIDE DEF x
<1>2. y \in Seq(Ops) /\ Whole(y)
  BY DEF WholeLists
<1>3. \A i \in DOMAIN x :
         /\ ~Telling(x[i])
         /\ x[i].op = "record" => x[i].stage = s
  BY <1>1 DEF Telling, Mute, Record, Load, Save, Audit
<1>4. Whole(L)
  BY <1>1, <1>2, <1>3, JoinWhole
<1>5. L \in Seq(Ops) /\ ToSet(L) = ToSet(x) \cup ToSet(y)
  BY <1>1, <1>2, Concatenated, ConcatenatedSet
<1>6. Later(L, 0, s)
  <2>1. DOMAIN L = 1 .. Len(x) + Len(y) /\ Len(y) \in Nat /\ \A i \in 1 .. Len(x) : L[i] = x[i]
    BY <1>1, <1>2, Concatenated
  <2> HIDE DEF L
  <2>2. 1 \in DOMAIN L /\ L[1] = x[1]
    BY <1>1, <2>1
  <2> QED
    BY <1>1, <2>2 DEF Later, IsRecord, Record
<1>7. ToSet(x) = {x[i] : i \in 1 .. 4}
  BY <1>1 DEF ToSet
<1>8. \A i \in 1 .. 4 : i = 1 \/ i = 2 \/ i = 3 \/ i = 4
  OBVIOUS
<1>9. ToSet(x) = {Record(s, action, "executor"), Load(s), Save(s, "link", 0), Audit(s)}
  BY <1>1, <1>7, <1>8
<1> HIDE DEF L
<1>10. L \in WholeLists /\ Later(L, 0, s)
       /\ ToSet(L) = {Record(s, action, "executor"), Load(s), Save(s, "link", 0), Audit(s)}
                     \cup ToSet(y)
  BY <1>4, <1>5, <1>6, <1>9 DEF WholeLists
<1> QED
  BY <1>10 DEF L, x

(* A change of a row, by itself or before a list that tells of it. *)
LEMMA UpdateThen ==
  ASSUME NEW s \in Stages, NEW change \in Changes \ {"link"}, NEW n \in Nat,
         NEW y \in WholeLists, change = "output" \/ Later(y, 0, s)
  PROVE  LET L == Update(s, change, n) \o y IN
         /\ L \in WholeLists
         /\ ToSet(L) = {Load(s), Save(s, change, n)} \cup ToSet(y)
         /\ \A t : Later(y, 0, t) => Later(L, 0, t)
<1> DEFINE x == Update(s, change, n)
           L == x \o y
<1>1. /\ x \in Seq(Ops) /\ Len(x) = 2 /\ DOMAIN x = 1 .. 2
      /\ x[1] = Load(s) /\ x[2] = Save(s, change, n)
      /\ Paired(x) /\ Plain(x) /\ Opens(x)
  BY UpdateShape
<1> HIDE DEF x
<1>2. y \in Seq(Ops) /\ Whole(y)
  BY DEF WholeLists
<1>3. \A i \in DOMAIN x :
         /\ Telling(x[i]) => x[i].stage = s /\ change # "output"
         /\ x[i].op # "record"
  BY <1>1 DEF Telling, Mute, Load, Save
<1>4. Whole(L)
  BY <1>1, <1>2, <1>3, JoinWhole
<1>5. L \in Seq(Ops) /\ ToSet(L) = ToSet(x) \cup ToSet(y)
  BY <1>1, <1>2, Concatenated, ConcatenatedSet
<1>6. ASSUME NEW t, Later(y, 0, t) PROVE Later(L, 0, t)
  <2>1. /\ DOMAIN L = 1 .. Len(x) + Len(y) /\ Len(y) \in Nat /\ DOMAIN y = 1 .. Len(y)
        /\ \A i \in 1 .. Len(y) : L[Len(x) + i] = y[i]
    BY <1>1, <1>2, Concatenated
  <2>2. PICK j \in DOMAIN y : IsRecord(y[j], t)
    BY <1>6 DEF Later
  <2> HIDE DEF L
  <2>3. 2 + j \in DOMAIN L /\ L[2 + j] = y[j] /\ 2 + j > 0
    BY <1>1, <2>1
  <2> QED
    BY <2>2, <2>3 DEF Later
<1>7. ToSet(x) = {x[i] : i \in 1 .. 2}
  BY <1>1 DEF ToSet
<1>8. \A i \in 1 .. 2 : i = 1 \/ i = 2
  OBVIOUS
<1>9. ToSet(x) = {Load(s), Save(s, change, n)}
  BY <1>1, <1>7, <1>8
<1> HIDE DEF L
<1>10. L \in WholeLists /\ ToSet(L) = {Load(s), Save(s, change, n)} \cup ToSet(y)
       /\ \A t : Later(y, 0, t) => Later(L, 0, t)
  BY <1>4, <1>5, <1>6, <1>9 DEF WholeLists
<1> QED
  BY <1>10 DEF L, x

LEMMA EmptyWhole == <<>> \in WholeLists /\ ToSet(<<>>) = {}
BY DEF WholeLists, Whole, Paired, Opens, Spoken, Reasoned, Plain, ToSet

LEMMA OutputWhole ==
  ASSUME NEW s \in Stages
  PROVE  /\ Update(s, "output", 0) \in WholeLists
         /\ ToSet(Update(s, "output", 0)) = {Load(s), Save(s, "output", 0)}
<1> DEFINE x == Update(s, "output", 0)
           both == {Load(s), Save(s, "output", 0)}
<1>1. x \o <<>> = x
  BY UpdateShape, ConcatEmptySeq DEF Changes
<1>2. x \o <<>> \in WholeLists /\ ToSet(x \o <<>>) = both \cup {}
  <2>1. /\ "output" \in Changes \ {"link"} /\ 0 \in Nat
        /\ <<>> \in WholeLists /\ ToSet(<<>>) = {}
    BY EmptyWhole DEF Changes
  <2>2. ASSUME NEW y, y \in WholeLists
        PROVE  x \o y \in WholeLists /\ ToSet(x \o y) = both \cup ToSet(y)
    BY <2>1, <2>2, UpdateThen
  <2> HIDE DEF x, both
  <2>3. x \o <<>> \in WholeLists /\ ToSet(x \o <<>>) = both \cup ToSet(<<>>)
    BY <2>1, <2>2
  <2> QED
    BY <2>1, <2>3
<1> HIDE DEF x, both
<1>3. x \in WholeLists /\ ToSet(x) = both
  BY <1>1, <1>2
<1> QED
  BY <1>3 DEF x, both

LEMMA NoteShape ==
  ASSUME NEW s \in Stages, NEW action \in Actions \ {"stage_skipped"}
  PROVE  LET L == Note(s, action) IN
         /\ L \in Seq(Simple) /\ L \in Seq(Ops) /\ Len(L) = 2 /\ DOMAIN L = 1 .. 2
         /\ L[1] = Record(s, action, "replanner") /\ L[2] = Audit(s)
         /\ ToSet(L) = {Record(s, action, "replanner"), Audit(s)}
         /\ Paired(L) /\ Plain(L) /\ Spoken(L) /\ Opens(L) /\ Later(L, 0, s)
         /\ action = "stage_inserted" => Whole(L)
<1> DEFINE L == Note(s, action)
<1>1. /\ Len(L) = 2 /\ DOMAIN L = 1 .. 2
      /\ L[1] = Record(s, action, "replanner") /\ L[2] = Audit(s)
  BY DEF Note
<1>2. L \in Seq(Simple) /\ L \in Seq(Ops)
  <2>1. Record(s, action, "replanner") \in Simple /\ Audit(s) \in Simple
    BY Transactions DEF Changes, Authors
  <2>2. L \in Seq(Simple)
    BY <2>1 DEF Note
  <2> QED
    BY <2>2, SeqMonotonic, Transactions
<1> HIDE DEF L
<1>3. \A i \in 1 .. 2 : Preceded(L, i) /\ Followed(L, i)
  BY <1>1 DEF Preceded, Followed, Record, Audit, Links, IsSave, IsRecord
<1>4. Paired(L)
  BY <1>1, <1>3 DEF Paired
<1>5. Plain(L) /\ Spoken(L)
  BY <1>1 DEF Plain, Spoken, Record, Audit, Telling, Mute
<1>6. Later(L, 0, s) /\ Opens(L)
  BY <1>1 DEF Later, IsRecord, Record, Opens, Audit, Links
<1>7. action = "stage_inserted" => Reasoned(L)
  BY <1>1 DEF Reasoned, Record, Audit
<1>8. ToSet(L) = {L[i] : i \in 1 .. 2} /\ \A i \in 1 .. 2 : i = 1 \/ i = 2
  BY <1>1 DEF ToSet
<1>9. ToSet(L) = {Record(s, action, "replanner"), Audit(s)}
  BY <1>1, <1>8
<1> QED
  BY <1>1, <1>2, <1>4, <1>5, <1>6, <1>7, <1>9 DEF L, Whole

(* A list that sets one stage aside. *)
LEMMA AsideWhole ==
  ASSUME NEW s \in Stages, NEW log \in AsideLogs(s)
  PROVE  /\ Aside(s, log) \in WholeLists
         /\ ToSet(Aside(s, log)) = {Load(s), [op |-> "aside", stage |-> s, log |-> log]}
<1> DEFINE o == [op |-> "aside", stage |-> s, log |-> log]
           L == Aside(s, log)
<1>1. o \in Ops /\ Load(s) \in Ops
  <2>1. log \in Seq(Simple)
    <3>1. "marked_stale" \in Actions
      BY DEF Actions
    <3>2. <<>> \in Seq(Simple)
      OBVIOUS
    <3>3. Log(s, "marked_stale") \in Seq(Simple)
      BY <3>1, LogShape
    <3>4. Note(s, "marked_stale") \in Seq(Simple)
      BY <3>1, NoteShape
    <3> QED
      BY <3>2, <3>3, <3>4 DEF AsideLogs
  <2>2. o \in [op : {"aside"}, stage : Stages, log : Seq(Simple)]
    BY <2>1
  <2>3. o \in Asides
    BY <2>2 DEF Asides
  <2> QED
    BY <2>3, Transactions DEF Ops
<1>2. L \in Seq(Ops) /\ Len(L) = 2 /\ DOMAIN L = 1 .. 2 /\ L[1] = Load(s) /\ L[2] = o
  BY <1>1 DEF Aside
<1> HIDE DEF L
<1>3. \A i \in 1 .. 2 : Preceded(L, i) /\ Followed(L, i)
  BY <1>2 DEF Preceded, Followed, Load, Links
<1>4. Paired(L)
  BY <1>2, <1>3 DEF Paired
<1>5. Plain(L) /\ Opens(L) /\ Reasoned(L) /\ Spoken(L)
  BY <1>2 DEF Plain, Opens, Reasoned, Spoken, Telling, Load, Links
<1>6. ToSet(L) = {L[i] : i \in 1 .. 2} /\ \A i \in 1 .. 2 : i = 1 \/ i = 2
  BY <1>2 DEF ToSet
<1>7. ToSet(L) = {Load(s), o}
  BY <1>2, <1>6
<1> QED
  BY <1>2, <1>4, <1>5, <1>7 DEF L, WholeLists, Whole

(* The last transaction of a list, on the run as a whole. *)
LEMMA StatusWhole ==
  ASSUME NEW to \in RunStatuses, NEW closes \in SUBSET Stages
  PROVE  /\ <<SetStatus(to, closes)>> \in WholeLists
         /\ ToSet(<<SetStatus(to, closes)>>) = {SetStatus(to, closes)}
<1> DEFINE o == SetStatus(to, closes)
           L == <<o>>
<1>1. o \in Ops /\ o.op = "status"
  BY DEF SetStatus, Ops, Simple
<1> HIDE DEF o
<1>2. L \in Seq(Ops) /\ Len(L) = 1 /\ DOMAIN L = {1} /\ L[1] = o
  BY <1>1
<1> HIDE DEF L
<1>3. Preceded(L, 1) /\ Followed(L, 1)
  BY <1>1, <1>2 DEF Preceded, Followed, Links
<1>4. Paired(L) /\ Plain(L) /\ Opens(L) /\ Reasoned(L) /\ Spoken(L)
  BY <1>1, <1>2, <1>3 DEF Paired, Plain, Opens, Reasoned, Spoken, Telling
<1>5. ToSet(L) = {o}
  BY <1>2 DEF ToSet
<1> QED
  BY <1>2, <1>4, <1>5 DEF L, o, WholeLists, Whole

(* A list for each stage of a set, one after another. *)
LEMMA AllWhole ==
  ASSUME NEW T \in SUBSET Stages, NEW f \in [T -> WholeLists]
  PROVE  LET L == FlattenSeq([i \in 1 .. Cardinality(T) |-> f[InOrder(T)[i]]]) IN
         /\ L \in WholeLists
         /\ \A o \in ToSet(L) : \E s \in T : o \in ToSet(f[s])
<1> DEFINE q == [i \in 1 .. Cardinality(T) |-> f[InOrder(T)[i]]]
<1>1. Cardinality(T) \in Nat /\ \A i \in 1 .. Cardinality(T) : InOrder(T)[i] \in T
  BY InOrderCounts
<1>2. q \in Seq(WholeLists) /\ DOMAIN q = 1 .. Cardinality(T)
  BY <1>1
<1>3. \A n \in DOMAIN q : q[n] = f[InOrder(T)[n]]
  OBVIOUS
<1> HIDE DEF q
<1>4. WholeLists \in SUBSET Seq(Ops) /\ <<>> \in WholeLists
  BY EmptyWhole DEF WholeLists
<1>5. \A x, y \in WholeLists : x \o y \in WholeLists
  BY WholeJoin
<1>6. /\ FlattenSeq(q) \in WholeLists
      /\ ToSet(FlattenSeq(q)) = UNION {ToSet(q[n]) : n \in DOMAIN q}
  BY <1>2, <1>4, <1>5, Flattened
<1>7. \A o \in ToSet(FlattenSeq(q)) : \E s \in T : o \in ToSet(f[s])
  BY <1>1, <1>2, <1>3, <1>6
<1> QED
  BY <1>6, <1>7 DEF q

LEMMA SkipsWhole ==
  ASSUME NEW T \in SUBSET Stages
  PROVE  /\ ForAll(T, Skip) \in WholeLists
         /\ \A o \in ToSet(ForAll(T, Skip)) : \E s \in T : o \in ToSet(Skip(s))
<1> DEFINE f == [s \in T |-> Skip(s)]
           q == [i \in 1 .. Cardinality(T) |-> f[InOrder(T)[i]]]
<1>1. f \in [T -> WholeLists] /\ \A s \in T : f[s] = Skip(s)
  BY SkipWhole
<1>2. \A i \in 1 .. Cardinality(T) : InOrder(T)[i] \in T
  BY InOrderCounts
<1>3. q = [i \in 1 .. Cardinality(T) |-> Skip(InOrder(T)[i])]
  BY <1>1, <1>2
<1>4. ForAll(T, Skip) = FlattenSeq(q)
  BY <1>3 DEF ForAll
<1>5. /\ FlattenSeq(q) \in WholeLists
      /\ \A o \in ToSet(FlattenSeq(q)) : \E s \in T : o \in ToSet(f[s])
  <2> HIDE DEF f
  <2> QED
    BY <1>1, AllWhole
<1> HIDE DEF f, q
<1> QED
  BY <1>1, <1>4, <1>5

(* The stages of a set are set aside, one after another. *)
LEMMA AsidesWhole ==
  ASSUME NEW T \in SUBSET Stages, NEW log \in [T -> Seq(Simple)],
         \A s \in T : log[s] \in AsideLogs(s)
  PROVE  LET L == ForAll(T, LAMBDA s : Aside(s, log[s])) IN
         /\ L \in WholeLists
         /\ \A o \in ToSet(L) : \E s \in T :
               o = Load(s) \/ o = [op |-> "aside", stage |-> s, log |-> log[s]]
<1> DEFINE f == [s \in T |-> Aside(s, log[s])]
           q == [i \in 1 .. Cardinality(T) |-> f[InOrder(T)[i]]]
<1>1. f \in [T -> WholeLists] /\ \A s \in T : f[s] = Aside(s, log[s])
  BY AsideWhole
<1>2. \A i \in 1 .. Cardinality(T) : InOrder(T)[i] \in T
  BY InOrderCounts
<1>3. q = [i \in 1 .. Cardinality(T) |-> Aside(InOrder(T)[i], log[InOrder(T)[i]])]
  BY <1>1, <1>2
<1>4. ForAll(T, LAMBDA s : Aside(s, log[s])) = FlattenSeq(q)
  BY <1>3 DEF ForAll
<1>5. /\ FlattenSeq(q) \in WholeLists
      /\ \A o \in ToSet(FlattenSeq(q)) : \E s \in T : o \in ToSet(f[s])
  <2> HIDE DEF f
  <2> QED
    BY <1>1, AllWhole
<1> HIDE DEF f, q
<1>6. \A s \in T : ToSet(Aside(s, log[s])) = {Load(s), [op |-> "aside", stage |-> s, log |-> log[s]]}
  BY AsideWhole
<1>7. \A o \in ToSet(FlattenSeq(q)) : \E s \in T :
         o = Load(s) \/ o = [op |-> "aside", stage |-> s, log |-> log[s]]
  <2>1. ASSUME NEW o \in ToSet(FlattenSeq(q))
        PROVE  \E s \in T : o = Load(s) \/ o = [op |-> "aside", stage |-> s, log |-> log[s]]
    <3>1. PICK s \in T : o \in ToSet(f[s])
      BY <1>5, <2>1
    <3>2. o \in {Load(s), [op |-> "aside", stage |-> s, log |-> log[s]]}
      BY <1>1, <1>6, <3>1
    <3> QED
      BY <3>2
  <2> QED
    BY <2>1
<1> QED
  BY <1>4, <1>5, <1>7

-----------------------------------------------------------------------------
(* The inductive invariant *)

Ahead(w) == ToSet(Todo(w))
Staged(o) == o.op \notin {"status", "graph"}

(* A thread works at its own stage, until it has failed: then it skips the *)
(* stages downstream, as a guest.                                          *)
Guest(w, s) == w \in Stages /\ w # s
Own(s, o) == o.stage = s /\ o.op \in {"load", "save", "record", "audit"}
SkipOp(o) ==
    \/ o.op \in {"load", "audit"}
    \/ o.op = "save" /\ o.change \in {"skip", "link"}
    \/ o.op = "record" /\ o.action = "stage_skipped" /\ o.by = "executor"

Running == main.at \in {"join", "raised"}

(* Who has transactions to come, and about which stages. *)
Phase ==
    /\ ~Running => \A s \in Stages : Free(s)
    /\ ~Free(Runner) => \A s \in Stages : Free(s) /\ (Running => th[s].at \in {"none", "start"})
    /\ Running => \A s \in Stages : th[s].at # "none" \/ ~Free(s) => s \in layer
    /\ \A s \in Stages : \A o \in Ahead(s) :
          Own(s, o) \/ (SkipOp(o) /\ o.stage \in DownstreamOf(mem, s))

(* The layers before this one are closed, and it rests on them. *)
Walk ==
    main.at # "idle" =>
        /\ \A t \in done : mem.deps[t] \subseteq done
        /\ Running => layer \cap done = {} /\ \A t \in layer : mem.deps[t] \subseteq done

(* The rows in memory are not older than those in the store, as far as it  *)
(* matters.                                                                *)
Important(s, i) == trail[s][i].by = "executor" /\ trail[s][i].action # "stage_skipped"

HoldsRow(w, s) ==
    /\ work[w].held \in Rows /\ rows[s] \in Rows
    /\ ~Guest(w, s) => work[w].held = rows[s]
    /\ \A i \in audited[s] : Important(s, i) => i \in work[w].held.ids

ToLink(L) == \/ L[1].op = "load" /\ Links(L[2])
             \/ Links(L[1])
             \/ L[1].op = "audit"
HoldsDecision(w, s) ==
    /\ work[w].decision \in DOMAIN trail[s]
    /\ Guest(w, s) => ~Important(s, work[w].decision)
    /\ Todo(w)[1].op = "audit" /\ Important(s, work[w].decision) =>
          rows[s] \in Rows /\ work[w].decision \in rows[s].ids

(* A guest comes to skip. *)
Skipping(w, s) ==
    \/ Todo(w)[1].op = "load" /\ IsSave(Todo(w)[2], s, "skip")
    \/ IsSave(Todo(w)[1], s, "skip")
    \/ rows[s].status = "skipped" /\ (Links(Todo(w)[1]) => work[w].held.status = "skipped")

Holding(w) ==
    Todo(w) # <<>> =>
        /\ Todo(w)[1].op \in {"save", "aside"} => HoldsRow(w, Todo(w)[1].stage)
        /\ ToLink(Todo(w)) => HoldsDecision(w, Todo(w)[1].stage)
        /\ Staged(Todo(w)[1]) /\ Guest(w, Todo(w)[1].stage) => Skipping(w, Todo(w)[1].stage)

(* A decision to come tells the status the row has, or will have by then. *)
Created(L, s) ==
    /\ rows[s].status = "pending" \/ \E o \in ToSet(L) : o.op = "create" /\ o.stage = s
    /\ \A o \in ToSet(L) : o.op \in {"save", "aside"} => o.stage # s
Grounded(L, i) ==
    L[i].op = "record" =>
        \/ i > 1 /\ L[i - 1].stage = L[i].stage /\ Tells(L[i - 1], L[i].action)
        \/ Later(L, i, L[i].stage)
        \/ i = 1 /\ rows[L[i].stage].status \in Explained(L[i].action)
        \/ L[i].action = "stage_inserted" /\ Created(L, L[i].stage)

Listed(w) == Paired(Todo(w)) /\ Spoken(Todo(w))
Reasoning(w) == \A i \in DOMAIN Todo(w) : Grounded(Todo(w), i)

(* A thread at its agent, or past it, has a row that says so. *)
AtWork(s) ==
    Running /\ th[s].at \in {"agent", "exit", "again"} =>
        /\ \/ rows[s].status \in {"running", "retrying"}
           \/ \E o \in Ahead(s) : IsSave(o, s, "begin")
        /\ \A o \in Ahead(s) :
              o.op = "save" => o.stage = s /\ o.change \in {"begin", "retry", "output", "link"}

Linked(s) ==
    \A i \in audited[s] :
        i \in DOMAIN trail[s] /\ (Important(s, i) => rows[s] \in Rows /\ i \in rows[s].ids)

Told(s) ==
    \/ rows[s].status \in Explained(LastOf(s))
    \/ rows[s].status = "stale" /\ Respliced(s)
    \/ rows[s] = NoRow \/ s \in cut
    \/ \E w \in Workers : \E o \in Ahead(w) : IsRecord(o, s)

(* The graph of the run grows. *)
Grows(g, h) ==
    /\ g.nodes \subseteq h.nodes
    /\ \A t \in Stages : g.deps[t] \subseteq h.deps[t]
    /\ \A t \in Stages \ h.nodes : h.deps[t] = {}
Grown == Grows(InitialGraph, graph) /\ \A s \in Stages \ graph.nodes : rows[s] = NoRow

(* What a call of insert_stage has still to do, and which the stages are   *)
(* that it sets aside unlogged.                                            *)
Inserting ==
    \A o \in Ahead(Runner) :
        /\ o.op = "graph" => Grows(graph, o.to)
        /\ o.op = "create" =>
              /\ rows[o.stage] = NoRow
              /\ \/ o.stage \in graph.nodes
                 \/ \E p \in Ahead(Runner) : p.op = "graph" /\ o.stage \in p.to.nodes
        /\ o.op = "aside" /\ o.log = <<>> =>
              \/ Respliced(o.stage)
              \/ \E p \in Ahead(Runner) :
                    p.op = "graph" /\ p.to.deps[o.stage] # InitialGraph.deps[o.stage]

Forward(row) == row.status \in Terminal => row.span \in {"ended", "forward"}

Order == Phase /\ Walk
Lists == \A w \in Workers : Listed(w) /\ Reasoning(w) /\ Holding(w)
Store == \A s \in Stages : Linked(s) /\ Told(s) /\ AtWork(s)
IInv == Typed /\ Order /\ Lists /\ Store /\ Grown /\ Inserting

-----------------------------------------------------------------------------
(* What is left of a list when its first transaction is through *)

LEMMA Popped ==
  ASSUME NEW L \in Seq(Ops), L # <<>>
  PROVE  LET T == Tail(L) IN
         /\ T \in Seq(Ops) /\ Len(L) \in Nat /\ Head(L) = L[1] /\ L[1] \in Ops
         /\ DOMAIN L = 1 .. Len(L) /\ 1 \in DOMAIN L /\ DOMAIN T = 1 .. Len(L) - 1
         /\ \A i \in DOMAIN T : i + 1 \in DOMAIN L /\ T[i] = L[i + 1]
         /\ \A i \in DOMAIN L : i > 1 => i - 1 \in DOMAIN T /\ T[i - 1] = L[i]
         /\ ToSet(L) = {L[1]} \cup ToSet(T)
<1> DEFINE T == Tail(L)
<1>1. /\ T \in Seq(Ops) /\ Len(L) \in Nat /\ Head(L) = L[1] /\ L[1] \in Ops
      /\ DOMAIN L = 1 .. Len(L) /\ 1 \in DOMAIN L /\ DOMAIN T = 1 .. Len(L) - 1
      /\ \A i \in 1 .. Len(L) - 1 : T[i] = L[i + 1]
  BY HeadTailProperties, EmptySeq
<1> HIDE DEF T
<1>2. \A i \in DOMAIN T : i + 1 \in DOMAIN L /\ T[i] = L[i + 1]
  BY <1>1
<1>3. ASSUME NEW i \in DOMAIN L, i > 1 PROVE i - 1 \in DOMAIN T /\ T[i - 1] = L[i]
  <2>1. i - 1 \in 1 .. Len(L) - 1 /\ (i - 1) + 1 = i
    BY <1>1, <1>3
  <2> QED
    BY <1>1, <2>1
<1>4. ToSet(L) = {L[1]} \cup ToSet(T)
  <2>1. ASSUME NEW i \in DOMAIN L PROVE L[i] \in {L[1]} \cup ToSet(T)
    <3>1. i = 1 \/ i > 1
      BY <1>1
    <3> QED
      BY <1>3, <3>1 DEF ToSet
  <2>2. \A o \in ToSet(T) : o \in ToSet(L)
    BY <1>2 DEF ToSet
  <2>3. L[1] \in ToSet(L)
    BY <1>1 DEF ToSet
  <2>4. \A o \in ToSet(L) : o \in {L[1]} \cup ToSet(T)
    BY <2>1 DEF ToSet
  <2> QED
    BY <2>2, <2>3, <2>4
<1> QED
  BY <1>1, <1>2, <1>3, <1>4 DEF T

(* It is as well put together as the whole was. *)
LEMMA TailPaired ==
  ASSUME NEW L \in Seq(Ops), L # <<>>, Paired(L)
  PROVE  Paired(Tail(L))
<1> DEFINE T == Tail(L)
<1>1. /\ Len(L) \in Nat /\ DOMAIN L = 1 .. Len(L) /\ 1 \in DOMAIN L /\ DOMAIN T = 1 .. Len(L) - 1
      /\ \A i \in DOMAIN T : i + 1 \in DOMAIN L /\ T[i] = L[i + 1]
      /\ \A i \in DOMAIN L : i > 1 => i - 1 \in DOMAIN T /\ T[i - 1] = L[i]
  BY Popped
<1> HIDE DEF T
<1>2. ASSUME NEW i \in DOMAIN T PROVE Preceded(T, i) /\ Followed(T, i)
  <2>0. i \in Nat
    BY <1>1
  <2> DEFINE k == i + 1
  <2>1. Preceded(L, k) /\ Followed(L, k) /\ k \in DOMAIN L /\ T[i] = L[k]
    BY <1>1 DEF Paired
  <2>2. i > 1 => k - 1 \in DOMAIN L /\ T[i - 1] = L[k - 1] /\ k > 1 /\ k > 2
    <3>1. k - 1 = i /\ (i > 1 => i \in DOMAIN L)
      BY <1>1
    <3> QED
      BY <1>1, <3>1
  <2>3. i > 2 => T[i - 2] = L[k - 2]
    <3>1. i > 2 => i - 1 \in DOMAIN L /\ i - 1 > 1 /\ (i - 1) - 1 = i - 2 /\ k - 2 = i - 1
      BY <1>1
    <3> QED
      BY <1>1, <3>1
  <2>4. k + 1 \in DOMAIN L => i + 1 \in DOMAIN T /\ T[i + 1] = L[k + 1]
    <3>1. k + 1 > 1 /\ (k + 1) - 1 = i + 1
      BY <2>0
    <3> QED
      BY <1>1, <3>1
  <2>5. k > 1 /\ k # 1 /\ (k = 2 => i = 1) /\ (i = 1 => k = 2) /\ (i > 1 => k > 2)
    BY <2>0
  <2> HIDE DEF k
  <2>6. Followed(T, i)
    BY <2>1, <2>4 DEF Followed
  <2>7. Preceded(T, i)
    <3>1. T[i].op \in {"save", "aside"} /\ i > 1 => T[i - 1].op = "load" /\ T[i - 1].stage = T[i].stage
      BY <2>1, <2>2 DEF Preceded
    <3>2. Links(T[i]) /\ i > 2 => IsRecord(T[i - 2], T[i].stage) /\ T[i - 2].by = "executor"
      BY <2>0, <2>1, <2>2, <2>3 DEF Preceded
    <3>3. T[i].op = "audit" /\ i > 1 =>
             \/ IsSave(T[i - 1], T[i].stage, "link")
             \/ IsRecord(T[i - 1], T[i].stage) /\ T[i - 1].by = "replanner"
      BY <2>1, <2>2 DEF Preceded
    <3>4. T[i].op = "record" /\ T[i].action = "stage_skipped" /\ i > 1 =>
             IsSave(T[i - 1], T[i].stage, "skip")
      BY <2>1, <2>2 DEF Preceded
    <3>5. T[i].op = "create" => i = 1
      BY <2>1, <2>5 DEF Preceded
    <3>6. T[i].op # "graph"
      BY <2>1, <2>5 DEF Preceded
    <3> QED
      BY <3>1, <3>2, <3>3, <3>4, <3>5, <3>6 DEF Preceded
  <2> QED
    BY <2>6, <2>7
<1>3. Paired(T)
  BY <1>2 DEF Paired
<1> QED
  BY <1>3 DEF T

(* What comes after its first transaction comes in the rest. *)
LEMMA TailLater ==
  ASSUME NEW L \in Seq(Ops), L # <<>>, NEW i \in DOMAIN L, NEW s, Later(L, i, s)
  PROVE  Later(Tail(L), i - 1, s) /\ \E o \in ToSet(Tail(L)) : IsRecord(o, s)
<1> DEFINE T == Tail(L)
<1>1. /\ Len(L) \in Nat /\ DOMAIN L = 1 .. Len(L)
      /\ \A j \in DOMAIN L : j > 1 => j - 1 \in DOMAIN T /\ T[j - 1] = L[j]
  BY Popped
<1> HIDE DEF T
<1>2. PICK j \in DOMAIN L : j > i /\ IsRecord(L[j], s)
  BY DEF Later
<1>3. j > 1 /\ j - 1 > i - 1
  BY <1>1, <1>2
<1>4. j - 1 \in DOMAIN T /\ IsRecord(T[j - 1], s)
  BY <1>1, <1>2, <1>3
<1>5. Later(T, i - 1, s) /\ \E o \in ToSet(T) : IsRecord(o, s)
  BY <1>3, <1>4 DEF Later, ToSet
<1> QED
  BY <1>5 DEF T

LEMMA TailSpoken ==
  ASSUME NEW L \in Seq(Ops), L # <<>>, Spoken(L)
  PROVE  /\ Spoken(Tail(L))
         /\ Telling(L[1]) => \E o \in ToSet(Tail(L)) : IsRecord(o, L[1].stage)
<1> DEFINE T == Tail(L)
<1>1. /\ Len(L) \in Nat /\ DOMAIN L = 1 .. Len(L) /\ 1 \in DOMAIN L
      /\ \A i \in DOMAIN T : i \in Nat /\ i + 1 \in DOMAIN L /\ T[i] = L[i + 1]
  BY Popped
<1>2. \A i \in DOMAIN L : \A s : Later(L, i, s) => Later(T, i - 1, s) /\ \E o \in ToSet(T) : IsRecord(o, s)
  BY TailLater
<1> HIDE DEF T
<1>3. ASSUME NEW i \in DOMAIN T, Telling(T[i]) PROVE Later(T, i, T[i].stage)
  <2>1. Later(L, i + 1, T[i].stage) /\ (i + 1) - 1 = i
    BY <1>1, <1>3 DEF Spoken
  <2> QED
    BY <1>1, <1>2, <2>1
<1>4. Telling(L[1]) => \E o \in ToSet(T) : IsRecord(o, L[1].stage)
  BY <1>1, <1>2 DEF Spoken
<1>5. Spoken(T)
  BY <1>3 DEF Spoken
<1> QED
  BY <1>4, <1>5 DEF T

(* What the next transaction says of the one that is through. *)
LEMMA After ==
  ASSUME NEW L \in Seq(Ops), Paired(L), Tail(L) # <<>>, L # <<>>
  PROVE  LET T == Tail(L) IN
         /\ 1 \in DOMAIN T /\ T[1] \in Ops
         /\ T[1].op \in {"save", "aside"} => L[1].op = "load" /\ L[1].stage = T[1].stage
         /\ T[1].op = "load" => /\ 2 \in DOMAIN T
                                /\ T[2].op \in {"save", "aside"} /\ T[2].stage = T[1].stage
         /\ T[1].op = "load" /\ Links(T[2]) => IsRecord(L[1], T[1].stage) /\ L[1].by = "executor"
         /\ T[1].op = "audit" =>
               \/ IsSave(L[1], T[1].stage, "link")
               \/ IsRecord(L[1], T[1].stage) /\ L[1].by = "replanner"
         /\ T[1].op = "record" /\ T[1].action = "stage_skipped" => IsSave(L[1], T[1].stage, "skip")
         /\ T[1].op # "graph" /\ (T[1].op = "create" => L[1].op = "graph")
<1> DEFINE T == Tail(L)
<1>1. /\ T \in Seq(Ops) /\ Len(L) \in Nat /\ DOMAIN L = 1 .. Len(L) /\ DOMAIN T = 1 .. Len(L) - 1
      /\ \A i \in DOMAIN T : i + 1 \in DOMAIN L /\ T[i] = L[i + 1]
      /\ Paired(T)
  BY Popped, TailPaired
<1>2. 1 \in DOMAIN T /\ T[1] \in Ops
  <2>1. T # <<>>
    OBVIOUS
  <2> HIDE DEF T
  <2> QED
    BY <1>1, <2>1, EmptySeq, ElementOfSeq
<1> HIDE DEF T
<1>3. 2 \in DOMAIN L /\ T[1] = L[2] /\ Preceded(L, 2) /\ Followed(T, 1)
  <2>1. 1 + 1 \in DOMAIN L /\ T[1] = L[1 + 1]
    BY <1>1, <1>2
  <2> QED
    BY <1>1, <1>2, <2>1 DEF Paired
<1>4. T[1].op = "load" => /\ 2 \in DOMAIN T
                          /\ T[2].op \in {"save", "aside"} /\ T[2].stage = T[1].stage
  BY <1>3 DEF Followed
<1>5. T[1].op = "load" /\ Links(T[2]) => IsRecord(L[1], T[1].stage) /\ L[1].by = "executor"
  <2>1. 2 \in DOMAIN T => 3 \in DOMAIN L /\ T[2] = L[3] /\ Preceded(L, 3)
    <3>1. 2 \in DOMAIN T => 2 + 1 \in DOMAIN L /\ T[2] = L[2 + 1]
      BY <1>1
    <3> QED
      BY <3>1 DEF Paired
  <2> QED
    BY <1>4, <2>1 DEF Preceded
<1>6. /\ T[1].op \in {"save", "aside"} => L[1].op = "load" /\ L[1].stage = T[1].stage
      /\ T[1].op = "audit" =>
            \/ IsSave(L[1], T[1].stage, "link")
            \/ IsRecord(L[1], T[1].stage) /\ L[1].by = "replanner"
      /\ T[1].op = "record" /\ T[1].action = "stage_skipped" => IsSave(L[1], T[1].stage, "skip")
      /\ T[1].op # "graph" /\ (T[1].op = "create" => L[1].op = "graph")
  BY <1>3 DEF Preceded
<1> QED
  BY <1>2, <1>4, <1>5, <1>6 DEF T

-----------------------------------------------------------------------------
(* Workers do not get in each other's way *)

(* No stage of a layer is downstream of another one. *)
LEMMA LayerApart ==
  ASSUME Order, Running, NEW s \in layer, NEW t \in layer
  PROVE  t \notin DownstreamOf(mem, s)
<1> DEFINE S == mem.nodes \ (done \cup layer)
<1>1. main.at # "idle" /\ layer \cap done = {} /\ \A u \in done \cup layer : mem.deps[u] \subseteq done
  BY DEF Order, Walk, Running
<1>2. ClosedUnder(mem, s, S)
  BY <1>1 DEF ClosedUnder, Dependents
<1>3. t \notin S /\ S \in SUBSET mem.nodes
  OBVIOUS
<1> HIDE DEF S
<1> QED
  BY <1>2, <1>3 DEF DownstreamOf

LEMMA AheadIs ==
  ASSUME NEW w, NEW o \in Ahead(w)
  PROVE  ~Free(w)
BY DEF Ahead, Free, Todo, ToSet

(* Where a guest is at work, the stage is not in the layer. *)
LEMMA GuestsElsewhere ==
  ASSUME Order, NEW w \in Stages, NEW o \in Ahead(w)
  PROVE  /\ Running /\ w \in layer
         /\ Own(w, o) \/ (SkipOp(o) /\ o.stage \notin layer /\ Guest(w, o.stage))
<1>1. ~Free(w)
  BY AheadIs
<1>2. Running /\ w \in layer
  BY <1>1 DEF Order, Phase
<1>3. Own(w, o) \/ (SkipOp(o) /\ o.stage \in DownstreamOf(mem, w))
  BY DEF Order, Phase
<1> QED
  BY <1>2, <1>3, LayerApart DEF Guest

(* Two workers that are busy with one stage are guests there. *)
LEMMA TwoGuests ==
  ASSUME Order, NEW w \in Workers, NEW v \in Workers, w # v,
         NEW o \in Ahead(w), NEW p \in Ahead(v), o.stage = p.stage
  PROVE  Guest(w, o.stage) /\ Guest(v, o.stage) /\ SkipOp(o) /\ SkipOp(p)
<1>1. ~Free(w) /\ ~Free(v)
  BY AheadIs
<1>2. w \in Stages /\ v \in Stages
  BY <1>1 DEF Order, Phase, Workers
<1>3. /\ Own(w, o) \/ (SkipOp(o) /\ o.stage \notin layer /\ Guest(w, o.stage))
      /\ Own(v, p) \/ (SkipOp(p) /\ p.stage \notin layer /\ Guest(v, p.stage))
      /\ w \in layer /\ v \in layer
  BY <1>2, GuestsElsewhere
<1> QED
  BY <1>3 DEF Own

(* What a transaction of one worker does to a stage leaves the others      *)
(* where they were.                                                        *)
LEMMA OthersKeep ==
  ASSUME Typed, Order, Lists,
         NEW w \in Workers, NEW o \in Ahead(w), NEW s \in Stages, o.stage = s,
         \A t \in Stages \ {s} : rows'[t] = rows[t] /\ trail'[t] = trail[t] /\ audited'[t] = audited[t],
         Guest(w, s) =>
            /\ rows[s] \in Rows => rows'[s] \in Rows
            /\ rows'[s] = rows[s] \/ rows'[s].status = "skipped"
            /\ \A i \in DOMAIN trail[s] : i \in DOMAIN trail'[s] /\ trail'[s][i] = trail[s][i]
            /\ \A i \in audited'[s] : i \in audited[s] \/ ~Important(s, i)',
         NEW v \in Workers, v # w, work'[v] = work[v],
         \A i \in audited[s] : i \in DOMAIN trail[s]
  PROVE  Listed(v)' /\ Reasoning(v)' /\ Holding(v)'
<1> DEFINE L == Todo(v)
<1>0. L' = L /\ L \in Seq(Ops)
  BY DEF Todo, Typed
<1>1. Listed(v) /\ Reasoning(v) /\ Holding(v)
  BY DEF Lists
<1>2. \A i \in DOMAIN L : L[i] \in Ahead(v) /\ L[i] \in Ops
  BY <1>0, ElementOfSeq DEF Ahead, ToSet
<1>3. \A i \in DOMAIN L : Staged(L[i]) => L[i].stage \in Stages
  BY <1>2 DEF Ops, Simple, Asides, Staged
<1>4. \A p \in Ahead(v) : p.stage = s => Guest(w, s) /\ Guest(v, s) /\ SkipOp(p)
  BY TwoGuests
<1>5. Listed(v)'
  BY <1>0, <1>1 DEF Listed, Paired, Preceded, Followed, Links, IsSave, IsRecord, Spoken, Later,
     Telling, Mute
<1>6. Reasoning(v)'
  <2>1. ASSUME NEW i \in DOMAIN L, L[i].op = "record" PROVE Grounded(L, i)'
    <3>1. L[i].stage \in Stages /\ L[i] \in Ahead(v)
      BY <1>2, <1>3, <2>1 DEF Staged
    <3>2. Grounded(L, i)
      BY <1>1 DEF Reasoning
    <3>3. CASE L[i].stage # s
      <4>1. rows'[L[i].stage] = rows[L[i].stage]
        BY <3>1, <3>3
      <4> QED
        BY <1>0, <2>1, <3>2, <4>1 DEF Grounded, Later, IsRecord, Tells, Gives, Created
    <3>4. CASE L[i].stage = s
      <4>1. Guest(w, s) /\ L[i].action = "stage_skipped"
        BY <1>4, <2>1, <3>1, <3>4 DEF SkipOp
      <4>2. rows'[s].status = rows[s].status \/ rows'[s].status \in Explained("stage_skipped")
        BY <4>1 DEF Explained
      <4> QED
        BY <1>0, <2>1, <3>2, <3>4, <4>1, <4>2 DEF Grounded, Later, IsRecord, Tells, Gives
    <3> QED
      BY <3>3, <3>4
  <2>2. \A i \in DOMAIN L : L[i].op # "record" => Grounded(L, i)'
    BY <1>0 DEF Grounded
  <2> QED
    BY <1>0, <2>1, <2>2 DEF Reasoning
<1>7. Holding(v)'
  <2>1. CASE L = <<>>
    BY <1>0, <2>1 DEF Holding
  <2>2. CASE L # <<>> /\ ~Staged(L[1])
    BY <1>0, <2>2 DEF Holding, Staged, ToLink, Links
  <2>3. CASE L # <<>> /\ Staged(L[1])
    <3> DEFINE t == L[1].stage
    <3>1. 1 \in DOMAIN L /\ t \in Stages /\ L[1] \in Ahead(v)
      BY <1>0, <1>2, <1>3, <2>3, EmptySeq
    <3>2. CASE t # s
      <4>1. rows'[t] = rows[t] /\ trail'[t] = trail[t] /\ audited'[t] = audited[t]
        BY <3>1, <3>2
      <4> QED
        BY <1>0, <1>1, <4>1, SMTT(30)
           DEF Holding, HoldsRow, HoldsDecision, Skipping, ToLink, Important, Guest,
           Links, IsSave
    <3>3. CASE t = s
      <4>1. Guest(w, s) /\ Guest(v, s) /\ SkipOp(L[1])
        BY <1>4, <3>1, <3>3
      <4>2. L[1].op \in {"save", "aside"} => HoldsRow(v, s)'
        BY <1>0, <1>1, <2>3, <3>3, <4>1 DEF Holding, HoldsRow, Important, Guest
      <4>3. ToLink(L) => HoldsDecision(v, s)'
        BY <1>0, <1>1, <2>3, <3>3, <4>1 DEF Holding, HoldsDecision, Important, Guest
      <4>4. Skipping(v, s)'
        BY <1>0, <1>1, <2>3, <3>3, <4>1 DEF Holding, Skipping, IsSave, Links, Guest
      <4> QED
        BY <1>0, <3>3, <4>2, <4>3, <4>4 DEF Holding, ToLink, Links
    <3> QED
      BY <3>2, <3>3
  <2> QED
    BY <2>1, <2>2, <2>3
<1> QED
  BY <1>5, <1>6, <1>7

WorkerStates == [todo : Seq(Ops), held : Rows \cup {NoRow}, decision : Nat]

LEMMA WorkedIs ==
  ASSUME Typed, NEW w \in Workers, Todo(w) # <<>>
  PROVE  /\ Worked(w) \in WorkerStates
         /\ Worked(w).todo = Tail(Todo(w))
         /\ Tail(Todo(w)) # <<>> =>
               Worked(w).held = work[w].held /\ Worked(w).decision = work[w].decision
<1> DEFINE L == Todo(w)
<1>1. work[w] \in WorkerStates /\ L = work[w].todo /\ L \in Seq(Ops)
  BY DEF Typed, WorkerStates, Todo
<1>2. Tail(L) \in Seq(Ops) /\ Len(L) \in Nat /\ Len(L) > 0 /\ Len(Tail(L)) = Len(L) - 1
  BY <1>1, HeadTailProperties, EmptySeq
<1>3. CASE Len(L) = 1
  <2>1. Len(Tail(L)) = 0
    BY <1>2, <1>3
  <2>2. Tail(L) = <<>>
    BY <1>2, <2>1, EmptySeq
  <2>3. Worked(w) = Resting
    BY <1>1, <1>3 DEF Worked
  <2>4. Resting \in WorkerStates /\ Resting.todo = <<>>
    BY DEF Resting, WorkerStates
  <2> QED
    BY <2>2, <2>3, <2>4
<1>4. CASE Len(L) # 1
  <2>1. Worked(w) = [work[w] EXCEPT !.todo = Tail(L)]
    BY <1>1, <1>4 DEF Worked
  <2> QED
    BY <1>1, <1>2, <2>1 DEF WorkerStates
<1> QED
  BY <1>3, <1>4

(* What is left of the list of the worker itself. *)
LEMMA OwnListed ==
  ASSUME Typed, Lists, NEW w \in Workers, Todo(w) # <<>>, Todo(w)' = Tail(Todo(w))
  PROVE  Listed(w)'
<1> DEFINE L == Todo(w)
<1>1. L \in Seq(Ops) /\ Paired(L) /\ Spoken(L)
  BY DEF Typed, Todo, Lists, Listed
<1>2. Paired(Tail(L)) /\ Spoken(Tail(L))
  BY <1>1, TailPaired, TailSpoken
<1> HIDE DEF L
<1>3. L' = Tail(L) => (Paired(L) /\ Spoken(L))'
  BY <1>2, SMTT(30) DEF Paired, Preceded, Followed, Links, IsSave, IsRecord, Spoken, Later, Telling, Mute
<1> QED
  BY <1>3 DEF L, Listed

LEMMA OwnReasoning ==
  ASSUME Typed, Lists, NEW w \in Workers, NEW L \in Seq(Ops), L = Todo(w), L # <<>>,
         NEW T \in Seq(Ops), T = Tail(L), Todo(w)' = T,
         T # <<>> /\ T[1].op = "record" /\ L[1].stage = T[1].stage /\ Tells(L[1], T[1].action) =>
            rows'[T[1].stage].status \in Explained(T[1].action),
         \A s \in Stages :
            Created(L, s) =>
               rows'[s].status = "pending" \/ \E p \in ToSet(T) : p.op = "create" /\ p.stage = s
  PROVE  Reasoning(w)'
<1>1. /\ Len(L) \in Nat
      /\ DOMAIN L = 1 .. Len(L) /\ DOMAIN T = 1 .. Len(L) - 1
      /\ \A i \in DOMAIN T : i + 1 \in DOMAIN L /\ T[i] = L[i + 1]
      /\ ToSet(L) = {L[1]} \cup ToSet(T)
  BY Popped
<1>2. \A i \in DOMAIN L : Grounded(L, i)
  BY DEF Lists, Reasoning
<1>3. \A i \in DOMAIN L : \A s : Later(L, i, s) => Later(T, i - 1, s)
  BY <1>1, TailLater
<1>4. ASSUME NEW i \in DOMAIN T, T[i].op = "record" PROVE Grounded(T, i)'
  <2> DEFINE k == i + 1
  <2>1. i \in Nat /\ k \in DOMAIN L /\ T[i] = L[k] /\ k > 1 /\ k - 1 = i
    BY <1>1
  <2>2. T[i].stage \in Stages /\ T # <<>>
    <3>1. T[i] \in Ops
      BY <1>1, ElementOfSeq
    <3>2. T # <<>>
      BY <1>1
    <3> QED
      BY <1>4, <3>1, <3>2 DEF Ops, Simple, Asides
  <2>3. Grounded(L, k) /\ L[k].op = "record"
    BY <1>2, <1>4, <2>1
  <2> HIDE DEF k
  <2>4. CASE L[k - 1].stage = L[k].stage /\ Tells(L[k - 1], L[k].action)
    <3>1. CASE i = 1
      <4>1. rows'[T[1].stage].status \in Explained(T[1].action)
        BY <1>4, <2>1, <2>2, <2>4, <3>1
      <4> QED
        BY <3>1, <4>1 DEF Grounded
    <3>2. CASE i > 1
      <4>1. i - 1 \in DOMAIN T /\ (i - 1) + 1 = i
        BY <1>1, <3>2
      <4>2. T[i - 1] = L[i]
        BY <1>1, <4>1
      <4> QED
        BY <2>1, <2>4, <3>2, <4>2 DEF Grounded
    <3> QED
      BY <2>1, <1>1, <3>1, <3>2
  <2>5. CASE Later(L, k, L[k].stage)
    <3>1. Later(T, i, T[i].stage)
      BY <1>3, <2>1, <2>5
    <3> QED
      BY <3>1 DEF Grounded, Later
  <2>6. CASE L[k].action = "stage_inserted" /\ Created(L, L[k].stage)
    <3>1. rows'[T[i].stage].status = "pending" \/ \E p \in ToSet(T) : p.op = "create" /\ p.stage = T[i].stage
      BY <2>1, <2>2, <2>6
    <3>2. \A p \in ToSet(T) : p.op \in {"save", "aside"} => p.stage # T[i].stage
      BY <1>1, <2>1, <2>6 DEF Created
    <3>3. Created(T, T[i].stage)'
      BY <3>1, <3>2 DEF Created
    <3> QED
      BY <2>1, <2>6, <3>3 DEF Grounded
  <2> QED
    BY <2>1, <2>3, <2>4, <2>5, <2>6 DEF Grounded
<1> QED
  BY <1>4 DEF Reasoning, Grounded

-----------------------------------------------------------------------------
(* The transactions *)

(* Where the rows, the trail and the events stay, so does what is known of *)
(* the workers that do.                                                    *)
LEMMA OthersStand ==
  ASSUME Lists, NEW v \in Workers, work'[v] = work[v],
         rows' = rows, trail' = trail, audited' = audited
  PROVE  Listed(v)' /\ Reasoning(v)' /\ Holding(v)'
<1> DEFINE L == Todo(v)
<1>1. L' = L /\ Listed(v) /\ Reasoning(v) /\ Holding(v)
  BY DEF Todo, Lists
<1>2. Listed(v)'
  BY <1>1 DEF Listed, Paired, Preceded, Followed, Links, IsSave, IsRecord, Spoken, Later, Telling, Mute
<1>3. Reasoning(v)'
  BY <1>1 DEF Reasoning, Grounded, Later, IsRecord, Tells, Gives, Created
<1>4. Holding(v)'
  BY <1>1 DEF Holding, HoldsRow, HoldsDecision, Skipping, ToLink, Important, Guest, Links, IsSave
<1> QED
  BY <1>2, <1>3, <1>4

(* What there is to know about the transaction a worker is at. *)
Popping(w, L, T) ==
    /\ L = Todo(w) /\ T = Tail(L) /\ L # <<>>
    /\ L \in Seq(Ops) /\ T \in Seq(Ops) /\ L[1] \in Ops /\ L[1] \in Ahead(w)
    /\ Upcoming(w) = L[1] /\ Paired(L)
    /\ Ahead(w) = {L[1]} \cup ToSet(T) /\ ToSet(L) = Ahead(w)
    /\ Staged(L[1]) => L[1].stage \in Stages
    /\ Telling(L[1]) => \E o \in ToSet(T) : IsRecord(o, L[1].stage)
    /\ work[w] \in WorkerStates /\ Worked(w) \in WorkerStates
    /\ Worked(w).todo = T
    /\ T # <<>> => Worked(w).held = work[w].held /\ Worked(w).decision = work[w].decision
    /\ Listed(w) /\ Reasoning(w) /\ Holding(w)
    /\ \A i \in DOMAIN L : i > 1 => T[i - 1] = L[i]

LEMMA Acting ==
  ASSUME IInv, NEW w \in Workers, NEW op, Works(w, op)
  PROVE  \E L, T : Popping(w, L, T) /\ L[1].op = op
<1> DEFINE L == Todo(w)
           T == Tail(L)
<1>0. L # <<>>
  BY DEF Works, Todo
<1>1. L \in Seq(Ops) /\ work[w] \in WorkerStates /\ Paired(L) /\ Spoken(L)
  BY DEF IInv, Typed, Todo, Lists, Listed, WorkerStates
<1>2. /\ T \in Seq(Ops) /\ Head(L) = L[1] /\ L[1] \in Ops /\ 1 \in DOMAIN L
      /\ ToSet(L) = {L[1]} \cup ToSet(T)
      /\ \A i \in DOMAIN L : i > 1 => T[i - 1] = L[i]
  BY <1>0, <1>1, Popped
<1>3. Upcoming(w) = L[1] /\ Ahead(w) = ToSet(L) /\ L[1] \in Ahead(w) /\ L[1].op = op
  BY <1>2 DEF Upcoming, Todo, Ahead, Works, ToSet
<1>4. Staged(L[1]) => L[1].stage \in Stages
  BY <1>2 DEF Ops, Simple, Asides, Staged
<1>5. Telling(L[1]) => \E o \in ToSet(T) : IsRecord(o, L[1].stage)
  BY <1>0, <1>1, TailSpoken
<1>6. /\ Worked(w) \in WorkerStates /\ Worked(w).todo = T
      /\ T # <<>> => Worked(w).held = work[w].held /\ Worked(w).decision = work[w].decision
  BY <1>0, WorkedIs DEF IInv
<1>7. Listed(w) /\ Reasoning(w) /\ Holding(w)
  BY DEF IInv, Lists
<1> HIDE DEF L, T
<1>8. Popping(w, L, T)
  BY <1>0, <1>1, <1>2, <1>3, <1>4, <1>5, <1>6, <1>7 DEF Popping, L, T
<1> QED
  BY <1>3, <1>8

(* A transaction that changes no row and decides nothing leaves the rows   *)
(* as well explained as they were.                                         *)
LEMMA RowsStand ==
  ASSUME IInv, NEW w \in Workers, NEW L, NEW T, Popping(w, L, T),
         Todo(w)' = T, \A v \in Workers \ {w} : work'[v] = work[v],
         rows' = rows, trail' = trail, cut' = cut, th' = th, main'.at = main.at,
         \A s \in Stages : Respliced(s) => Respliced(s)',
         L[1].op \notin {"record", "save"}
  PROVE  \A s \in Stages : Told(s)' /\ AtWork(s)'
<1>1. Ahead(w) = {L[1]} \cup ToSet(T) /\ Ahead(w)' = ToSet(T)
  BY DEF Ahead, Popping
<1>2. \A v \in Workers \ {w} : Ahead(v)' = Ahead(v)
  BY DEF Ahead, Todo
<1>3. \A v \in Workers : \A o \in Ahead(v) : o.op \in {"record", "save"} => o \in Ahead(v)'
  BY <1>1, <1>2
<1>4. \A v \in Workers : \A o \in Ahead(v)' : o \in Ahead(v)
  BY <1>1, <1>2
<1>5. ASSUME NEW s \in Stages PROVE Told(s)'
  <2>1. Told(s)
    BY DEF IInv, Store
  <2>2. \A v \in Workers : \A o \in Ahead(v) : IsRecord(o, s) => o \in Ahead(v)'
    BY <1>3 DEF IsRecord
  <2>3. LastOf(s)' = LastOf(s)
    BY DEF LastOf
  <2> QED
    BY <2>1, <2>2, <2>3 DEF Told, IsRecord
<1>6. ASSUME NEW s \in Stages PROVE AtWork(s)'
  <2>1. AtWork(s) /\ s \in Workers
    BY DEF IInv, Store, Workers
  <2>2. /\ \A o \in Ahead(s) : IsSave(o, s, "begin") => o \in Ahead(s)'
        /\ \A o \in Ahead(s)' : o \in Ahead(s)
    BY <1>3, <1>4, <2>1 DEF IsSave
  <2>3. Running' <=> Running
    BY DEF Running
  <2> QED
    BY <2>1, <2>2, <2>3 DEF AtWork, IsSave
<1> QED
  BY <1>5, <1>6

LEMMA LoadKeeps ==
  ASSUME IInv, NEW w \in Workers, LoadRow(w)
  PROVE  Lists' /\ Store'
<1>1. PICK L, T : Popping(w, L, T) /\ L[1].op = "load"
  BY Acting DEF LoadRow
<1>2. /\ L = Todo(w) /\ T = Tail(L) /\ L # <<>> /\ L \in Seq(Ops) /\ T \in Seq(Ops)
      /\ L[1] \in Ahead(w) /\ ToSet(L) = {L[1]} \cup ToSet(T) /\ L[1].stage \in Stages
  BY <1>1 DEF Popping, Staged
<1>3. PICK s \in Stages : s = L[1].stage
  BY <1>2
<1>4. /\ work' = [work EXCEPT ![w] = [Worked(w) EXCEPT !.held = rows[s]]]
      /\ rows[s] # NoRow
      /\ status' = status /\ graph' = graph /\ rows' = rows /\ trail' = trail /\ audited' = audited
      /\ cut' = cut /\ th' = th /\ main' = main
  BY <1>1, <1>3 DEF LoadRow, storeVars, processVars, Popping
<1>5. /\ Todo(w)' = T /\ work'[w].held = rows[s]
      /\ T # <<>> => work'[w].decision = work[w].decision
      /\ \A v \in Workers \ {w} : work'[v] = work[v]
  BY <1>1, <1>4 DEF IInv, Typed, WorkerStates, Popping, Todo
<1>6. ASSUME NEW v \in Workers, v # w PROVE Listed(v)' /\ Reasoning(v)' /\ Holding(v)'
  BY <1>4, <1>5, <1>6, OthersStand DEF IInv
<1>7. Listed(w)'
  BY <1>2, <1>5, OwnListed DEF IInv
<1>8. Reasoning(w)'
  <2>1. ASSUME NEW t \in Stages, Created(L, t)
        PROVE  rows'[t].status = "pending" \/ \E p \in ToSet(T) : p.op = "create" /\ p.stage = t
    BY <1>1, <1>2, <1>4, <2>1 DEF Created
  <2> QED
    BY <1>1, <1>2, <1>5, <2>1, OwnReasoning DEF IInv, Tells
<1>9. Holding(w)'
  <2>1. CASE T = <<>>
    BY <1>5, <2>1 DEF Holding
  <2>2. CASE T # <<>>
    <3>1. 2 \in DOMAIN L /\ L[2] = T[1]
      <4>1. Followed(L, 1)
        BY <1>1, <1>2, EmptySeq DEF Paired, Popping
      <4>2. 2 \in DOMAIN L => T[1] = L[2]
        BY <1>1 DEF Popping
      <4> QED
        BY <1>1, <4>1, <4>2 DEF Followed
    <3>2. T[1].op \in {"save", "aside"} /\ T[1].stage = s
      <4>1. Followed(L, 1)
        BY <1>1, <1>2, EmptySeq DEF Paired, Popping
      <4> QED
        BY <1>1, <1>3, <3>1, <4>1 DEF Followed
    <3>3. HoldsRow(w, s)'
      <4>1. rows[s] \in Rows /\ Linked(s)
        BY <1>4 DEF IInv, Typed, Store
      <4> QED
        BY <1>4, <1>5, <4>1 DEF HoldsRow, Linked, Important, Guest
    <3>4. Links(T[1]) => HoldsDecision(w, s)'
      <4>1. Links(T[1]) => HoldsDecision(w, s)
        BY <1>1, <1>2, <1>3, <3>1 DEF Holding, ToLink, Popping
      <4>2. Links(T[1]) => Todo(w)'[1].op # "audit"
        BY <1>5 DEF Links
      <4> QED
        BY <1>4, <1>5, <2>2, <4>1, <4>2 DEF HoldsDecision, Important, Guest
    <3>5. Guest(w, s) => Skipping(w, s)'
      <4>1. Guest(w, s) => Skipping(w, s)
        BY <1>1, <1>2, <1>3 DEF Holding, Staged, Popping
      <4>2. Guest(w, s) => IsSave(L[2], s, "skip") \/ rows[s].status = "skipped"
        BY <1>1, <1>2, <4>1 DEF Skipping, IsSave
      <4> QED
        BY <1>4, <1>5, <3>1, <4>2 DEF Skipping, IsSave, Links
    <3> QED
      BY <1>5, <3>2, <3>3, <3>4, <3>5 DEF Holding, ToLink, Links, Guest
  <2> QED
    BY <2>1, <2>2
<1>10. Lists'
  BY <1>6, <1>7, <1>8, <1>9 DEF Lists
<1>11. \A t \in Stages : Told(t)' /\ AtWork(t)'
  <2>1. \A t \in Stages : Respliced(t) => Respliced(t)'
    BY <1>4 DEF Respliced
  <2> QED
    BY <1>1, <1>4, <1>5, <2>1, RowsStand
<1>12. \A t \in Stages : Linked(t)'
  BY <1>4 DEF IInv, Store, Linked, Important
<1> QED
  BY <1>10, <1>11, <1>12 DEF Store

(* What a save makes of a row. *)
LEMMA ChangedIs ==
  ASSUME NEW row \in Rows, NEW o, o.op = "save", o.change \in Changes, o.n \in Nat,
         NEW decision \in Nat
  PROVE  LET new == Changed(row, o.change, o.n, decision) IN
         /\ new \in Rows
         /\ row.ids \subseteq new.ids
         /\ new.status = IF Mute(o) THEN row.status ELSE Gives(o)
         /\ o.change = "link" => decision \in new.ids
         /\ Forward(row) => Forward(new)
<1> DEFINE new == Changed(row, o.change, o.n, decision)
<1>1. CASE o.change = "begin"
  <2>1. new = [row EXCEPT !.status = IF o.n = 1 THEN "running" ELSE "retrying",
                          !.attempts = o.n, !.stale = FALSE,
                          !.span = IF o.n = 1 THEN Start(@) ELSE @]
    BY <1>1 DEF Changed
  <2> QED
    BY <1>1, <2>1 DEF Rows, Statuses, Start, Mute, Gives, Forward, Terminal
<1>2. CASE o.change = "retry"
  BY <1>2 DEF Changed, Rows, Statuses, Mute, Gives, Forward, Terminal
<1>3. CASE o.change = "block"
  BY <1>3 DEF Changed, Rows, Statuses, Mute, Gives, Forward, Terminal
<1>4. CASE o.change = "output"
  BY <1>4 DEF Changed, Rows, Statuses, Mute, Gives, Forward, Terminal
<1>5. CASE o.change = "pass"
  BY <1>5, ZenonT(60) DEF Changed, Rows, Statuses, End, Mute, Gives, Forward, Terminal
<1>6. CASE o.change = "fail"
  <2>1. new = [row EXCEPT !.status = "failed", !.attempts = IF o.n > 0 THEN o.n ELSE @, !.span = End(@)]
    BY <1>6 DEF Changed
  <2> QED
    BY <1>6, <2>1 DEF Rows, Statuses, End, Mute, Gives, Forward, Terminal
<1>7. CASE o.change = "skip"
  BY <1>7, ZenonT(60) DEF Changed, Rows, Statuses, End, Mute, Gives, Forward, Terminal
<1>8. CASE o.change = "roll_back"
  <2>1. new = [row EXCEPT !.status = "rolled_back", !.rollbacks = @ + 1, !.stale = TRUE, !.span = End(@)]
    BY <1>8 DEF Changed
  <2>2. row.rollbacks + 1 \in Nat /\ End(row.span) \in {"ended", "forward"}
    BY DEF Rows, End
  <2>3. new \in Rows /\ new.ids = row.ids /\ new.status = "rolled_back" /\ new.span = End(row.span)
    BY <2>1, <2>2 DEF Rows, Statuses
  <2> QED
    BY <1>8, <2>2, <2>3 DEF Mute, Gives, Forward
<1>9. CASE o.change = "set_aside"
  BY <1>9 DEF Changed, Rows, Statuses, Mute, Gives, Forward, Terminal
<1>10. CASE o.change = "link"
  BY <1>10 DEF Changed, Rows, Statuses, Mute, Gives, Forward, Terminal
<1> QED
  BY <1>1, <1>2, <1>3, <1>4, <1>5, <1>6, <1>7, <1>8, <1>9, <1>10 DEF Changes

(* What a guest turns to, when it has no row in memory. *)
LEMMA GuestNext ==
  ASSUME IInv, NEW w \in Workers, NEW L, NEW T, Popping(w, L, T), T # <<>>, L[1].op # "load",
         Staged(T[1]), Guest(w, T[1].stage)
  PROVE  LET t == T[1].stage IN
         \/ T[1].op = "load" /\ IsSave(T[2], t, "skip")
         \/ T[1].op = "load" /\ Links(T[2]) /\ IsRecord(L[1], t)
         \/ T[1].op = "audit" /\ (IsSave(L[1], t, "link") \/ IsRecord(L[1], t))
         \/ T[1].op = "record" /\ T[1].action = "stage_skipped" /\ IsSave(L[1], t, "skip")
<1>1. /\ 1 \in DOMAIN T
      /\ T[1].op \notin {"save", "aside"}
      /\ T[1].op = "load" => /\ 2 \in DOMAIN T
                             /\ T[2].op \in {"save", "aside"} /\ T[2].stage = T[1].stage
      /\ T[1].op = "load" /\ Links(T[2]) => IsRecord(L[1], T[1].stage)
      /\ T[1].op = "audit" => IsSave(L[1], T[1].stage, "link") \/ IsRecord(L[1], T[1].stage)
      /\ T[1].op = "record" /\ T[1].action = "stage_skipped" => IsSave(L[1], T[1].stage, "skip")
  BY After DEF Popping
<1>2. T[1] \in Ahead(w) /\ (2 \in DOMAIN T => T[2] \in Ahead(w))
  BY <1>1 DEF Popping, ToSet
<1>3. w \in Stages
  BY DEF Guest
<1>4. SkipOp(T[1])
  BY <1>2, <1>3, GuestsElsewhere DEF IInv, Guest, Own
<1>5. T[1].op = "load" => SkipOp(T[2])
  BY <1>1, <1>2, <1>3, GuestsElsewhere DEF IInv, Guest, Own
<1>6. T[1].op = "load" => IsSave(T[2], T[1].stage, "skip") \/ Links(T[2])
  BY <1>1, <1>5 DEF SkipOp, IsSave, Links
<1> QED
  BY <1>1, <1>4, <1>6 DEF SkipOp

LEMMA SaveKeeps ==
  ASSUME IInv, NEW w \in Workers, SaveRow(w)
  PROVE  Lists' /\ Store'
<1>1. PICK L, T : Popping(w, L, T) /\ L[1].op = "save"
  BY Acting DEF SaveRow
<1>2. /\ L = Todo(w) /\ T = Tail(L) /\ L # <<>> /\ L \in Seq(Ops) /\ T \in Seq(Ops)
      /\ L[1] \in Ahead(w) /\ ToSet(L) = {L[1]} \cup ToSet(T) /\ Ahead(w) = {L[1]} \cup ToSet(T)
      /\ L[1].stage \in Stages /\ L[1] \in Ops
  BY <1>1 DEF Popping, Staged
<1>3. PICK s \in Stages : s = L[1].stage
  BY <1>2
<1> DEFINE o == L[1]
           held == work[w].held
           new == Changed(held, o.change, o.n, work[w].decision)
<1>4. /\ work' = [work EXCEPT ![w] = [Worked(w) EXCEPT !.held = NoRow]]
      /\ rows' = [rows EXCEPT ![s] = new]
      /\ status' = status /\ graph' = graph /\ trail' = trail /\ audited' = audited
      /\ cut' = cut /\ th' = th /\ main' = main
  BY <1>1, <1>3 DEF SaveRow, processVars, Popping
<1>5. /\ Todo(w)' = T
      /\ T # <<>> => work'[w].decision = work[w].decision
      /\ \A v \in Workers \ {w} : work'[v] = work[v]
  BY <1>1, <1>4 DEF IInv, Typed, WorkerStates, Popping, Todo
<1>6. rows'[s] = new /\ \A t \in Stages \ {s} : rows'[t] = rows[t]
  BY <1>4 DEF IInv, Typed
<1>7. HoldsRow(w, s)
  BY <1>1, <1>2, <1>3 DEF Holding, Popping
<1>8. /\ held \in Rows /\ rows[s] \in Rows
      /\ ~Guest(w, s) => held = rows[s]
      /\ \A i \in audited[s] : Important(s, i) => i \in held.ids
  BY <1>7 DEF HoldsRow
<1>9. /\ new \in Rows /\ held.ids \subseteq new.ids
      /\ new.status = IF Mute(o) THEN held.status ELSE Gives(o)
      /\ o.change = "link" => work[w].decision \in new.ids
  <2>1. o.op = "save" /\ o.change \in Changes /\ o.n \in Nat
    BY <1>1, <1>2 DEF Ops, Simple, Asides
  <2>2. work[w].decision \in Nat
    BY <1>1 DEF Popping, WorkerStates
  <2> HIDE DEF o, held
  <2> QED
    BY <1>8, <2>1, <2>2, ChangedIs
<1>10. Guest(w, s) => new.status = "skipped"
       /\ (Mute(o) => rows[s].status = "skipped") /\ o.change \in {"skip", "link"}
  <2>1. ASSUME Guest(w, s) PROVE Skipping(w, s) /\ SkipOp(o)
    <3>1. Skipping(w, s)
      BY <1>1, <1>2, <1>3, <2>1 DEF Holding, Staged, Popping
    <3>2. SkipOp(o)
      BY <1>2, <1>3, <2>1, GuestsElsewhere DEF IInv, Guest, Own
    <3> QED
      BY <3>1, <3>2
  <2>2. ASSUME Guest(w, s) PROVE o.change \in {"skip", "link"}
    BY <1>1, <2>1, <2>2 DEF SkipOp
  <2>3. Guest(w, s) /\ o.change = "skip" => ~Mute(o) /\ Gives(o) = "skipped"
    BY DEF Mute, Gives
  <2>4. Guest(w, s) /\ o.change = "link" => Mute(o) /\ rows[s].status = "skipped" /\ held.status = "skipped"
    BY <1>1, <1>2, <2>1 DEF Mute, Skipping, IsSave, Links
  <2> QED
    BY <1>9, <2>2, <2>3, <2>4
<1>11. Mute(o) => new.status = rows[s].status
  BY <1>8, <1>9, <1>10
<1> HIDE DEF new, held, o
<1>12. ASSUME NEW v \in Workers, v # w PROVE Listed(v)' /\ Reasoning(v)' /\ Holding(v)'
  <2>1. \A t \in Stages \ {s} : rows'[t] = rows[t] /\ trail'[t] = trail[t] /\ audited'[t] = audited[t]
    BY <1>4, <1>6
  <2>2. Guest(w, s) => rows'[s] \in Rows /\ rows'[s].status = "skipped"
    BY <1>6, <1>9, <1>10
  <2>3. \A i \in audited[s] : i \in DOMAIN trail[s]
    BY DEF IInv, Store, Linked
  <2> QED
    BY <1>2, <1>3, <1>4, <1>5, <1>12, <2>1, <2>2, <2>3, OthersKeep, ZenonT(60) DEF IInv
<1>13. Listed(w)'
  BY <1>2, <1>5, OwnListed DEF IInv
<1>14. Reasoning(w)'
  <2>1. ASSUME NEW t \in Stages, Created(L, t)
        PROVE  rows'[t].status = "pending" \/ \E p \in ToSet(T) : p.op = "create" /\ p.stage = t
    <3>1. t # s
      BY <1>1, <1>2, <1>3, <2>1 DEF Created
    <3> QED
      BY <1>1, <1>2, <1>6, <2>1, <3>1 DEF Created
  <2>2. ASSUME NEW action, Tells(o, action) PROVE new.status \in Explained(action)
    <3>1. "none" \notin Explained(action)
      BY DEF Explained
    <3>2. Gives(o) \in Explained(action) /\ Gives(o) # "none"
      BY <2>2, <3>1 DEF Tells
    <3>3. ~Mute(o)
      BY <3>2 DEF Mute, Gives
    <3> QED
      BY <1>9, <3>2, <3>3
  <2>3. T # <<>> /\ T[1].op = "record" /\ L[1].stage = T[1].stage /\ Tells(L[1], T[1].action) =>
           rows'[T[1].stage].status \in Explained(T[1].action)
    BY <1>3, <1>6, <2>2 DEF o
  <2> QED
    BY <1>2, <1>5, <2>1, <2>3, OwnReasoning DEF IInv
<1>15. Holding(w)'
  <2>1. CASE T = <<>>
    BY <1>5, <2>1 DEF Holding
  <2>2. CASE T # <<>>
    <3>1. /\ T[1].op \notin {"save", "aside"}
          /\ ~(T[1].op = "load" /\ Links(T[2]))
          /\ T[1].op = "audit" => IsSave(L[1], T[1].stage, "link")
      BY <1>1, <1>2, <2>2, After DEF Popping, IsRecord
    <3>2. T[1].op = "audit" => HoldsDecision(w, T[1].stage)'
      <4> SUFFICES ASSUME T[1].op = "audit" PROVE HoldsDecision(w, s)'
        BY <1>3, <3>1 DEF IsSave
      <4>1. Links(L[1]) /\ o.change = "link"
        BY <3>1 DEF IsSave, Links, o
      <4>2. HoldsDecision(w, s)
        BY <1>1, <1>2, <1>3, <4>1 DEF Holding, ToLink, Popping
      <4> QED
        BY <1>4, <1>5, <1>6, <1>9, <2>2, <4>1, <4>2 DEF HoldsDecision, Important, Guest
    <3>3. Staged(T[1]) /\ Guest(w, T[1].stage) => Skipping(w, T[1].stage)'
      <4> SUFFICES ASSUME Staged(T[1]), Guest(w, T[1].stage) PROVE Skipping(w, T[1].stage)'
        OBVIOUS
      <4>1. \/ T[1].op = "load" /\ IsSave(T[2], T[1].stage, "skip")
            \/ T[1].op \in {"audit", "record"} /\ T[1].stage = s
        BY <1>1, <1>3, <2>2, <3>1, GuestNext DEF IsSave, IsRecord
      <4> QED
        BY <1>5, <1>6, <1>10, <4>1 DEF Skipping, Links
    <3> QED
      BY <1>5, <3>1, <3>2, <3>3 DEF Holding, ToLink, Links, Staged, Guest
  <2> QED
    BY <2>1, <2>2
<1>16. Lists'
  BY <1>12, <1>13, <1>14, <1>15 DEF Lists
<1>17. Ahead(w)' = ToSet(T) /\ \A v \in Workers \ {w} : Ahead(v)' = Ahead(v)
  BY <1>5 DEF Ahead, Todo
<1>18. ASSUME NEW t \in Stages PROVE Told(t)'
  <2>1. Told(t)
    BY DEF IInv, Store
  <2>2. \A v \in Workers : \A p \in Ahead(v) : IsRecord(p, t) => p \in Ahead(v)'
    BY <1>1, <1>2, <1>17 DEF IsRecord
  <2>3. LastOf(t)' = LastOf(t) /\ (Respliced(t) => Respliced(t)')
    BY <1>4 DEF LastOf, Respliced
  <2>4. CASE t # s \/ Mute(o)
    <3>1. rows'[t].status = rows[t].status /\ (rows[t] = NoRow => rows'[t] = NoRow)
      <4>1. rows[s] # NoRow
        BY <1>8 DEF Rows, NoRow, Statuses
      <4> QED
        BY <1>6, <1>11, <2>4, <4>1
    <3> QED
      BY <1>4, <2>1, <2>2, <2>3, <3>1 DEF Told, IsRecord
  <2>5. CASE t = s /\ ~Mute(o)
    <3>1. \E p \in ToSet(T) : IsRecord(p, s)
      BY <1>1, <1>3, <2>5 DEF Popping, Telling, o
    <3> QED
      BY <1>17, <2>5, <3>1 DEF Told, IsRecord
  <2> QED
    BY <2>4, <2>5
<1>19. ASSUME NEW t \in Stages PROVE AtWork(t)'
  <2> SUFFICES ASSUME Running, th[t].at \in {"agent", "exit", "again"} PROVE AtWork(t)'
    BY <1>4 DEF AtWork, Running
  <2>1. AtWork(t) /\ t \in Workers
    BY DEF IInv, Store, Workers
  <2>2. /\ rows[t].status \in {"running", "retrying"} \/ \E p \in Ahead(t) : IsSave(p, t, "begin")
        /\ \A p \in Ahead(t) :
              p.op = "save" => p.stage = t /\ p.change \in {"begin", "retry", "output", "link"}
    BY <2>1 DEF AtWork
  <2>3. \A p \in Ahead(t)' : p \in Ahead(t)
    BY <1>2, <1>17, <2>1
  <2>4. CASE t # s
    <3>1. t # w
      BY <1>1, <1>2, <1>3, <2>2, <2>4
    <3> QED
      BY <1>6, <1>17, <2>1, <2>2, <2>4, <3>1 DEF AtWork, IsSave
  <2>5. CASE t = s
    <3>1. t \in layer
      BY DEF IInv, Order, Phase
    <3>2. w = s
      <4>1. CASE w = Runner
        <5>1. ~Free(Runner)
          BY <1>2, <4>1, AheadIs
        <5> QED
          BY <5>1 DEF IInv, Order, Phase
      <4>2. CASE w \in Stages
        BY <1>2, <1>3, <2>5, <3>1, <4>2, GuestsElsewhere DEF IInv, Own
      <4> QED
        BY <4>1, <4>2 DEF Workers
    <3>3. o.change \in {"begin", "retry", "output", "link"}
      BY <1>1, <1>2, <2>2, <2>5, <3>2 DEF o
    <3>4. CASE o.change \in {"begin", "retry"}
      <4>1. ~Mute(o) /\ Gives(o) \in {"running", "retrying"}
        BY <3>4 DEF Mute, Gives
      <4> QED
        BY <1>6, <1>9, <2>2, <2>3, <2>5, <4>1 DEF AtWork, IsSave
    <3>5. CASE o.change \in {"output", "link"}
      <4>1. Mute(o) /\ \A p \in Ahead(t) : IsSave(p, t, "begin") => p \in Ahead(t)'
        BY <1>1, <1>2, <1>17, <2>5, <3>2, <3>5 DEF Mute, IsSave, o
      <4> QED
        BY <1>6, <1>11, <2>2, <2>3, <2>5, <4>1 DEF AtWork, IsSave
    <3> QED
      BY <3>3, <3>4, <3>5
  <2> QED
    BY <2>4, <2>5
<1>20. ASSUME NEW t \in Stages PROVE Linked(t)'
  <2>1. Linked(t)
    BY DEF IInv, Store
  <2> QED
    BY <1>4, <1>6, <1>8, <1>9, <2>1 DEF Linked, Important
<1> QED
  BY <1>16, <1>18, <1>19, <1>20 DEF Store

(* Where no row changes, the places of the threads stay accounted for. *)
LEMMA AtWorkStands ==
  ASSUME IInv, NEW w \in Workers, NEW L, NEW T, Popping(w, L, T),
         Todo(w)' = T, \A v \in Workers \ {w} : work'[v] = work[v],
         rows' = rows, th' = th, main'.at = main.at, L[1].op # "save"
  PROVE  \A s \in Stages : AtWork(s)'
<1>1. Ahead(w) = {L[1]} \cup ToSet(T) /\ Ahead(w)' = ToSet(T)
  BY DEF Ahead, Popping
<1>2. \A v \in Workers \ {w} : Ahead(v)' = Ahead(v)
  BY DEF Ahead, Todo
<1>3. ASSUME NEW s \in Stages PROVE AtWork(s)'
  <2>1. AtWork(s) /\ s \in Workers
    BY DEF IInv, Store, Workers
  <2>2. /\ \A o \in Ahead(s) : IsSave(o, s, "begin") => o \in Ahead(s)'
        /\ \A o \in Ahead(s)' : o \in Ahead(s)
    BY <1>1, <1>2, <2>1 DEF IsSave
  <2>3. Running' <=> Running
    BY DEF Running
  <2> QED
    BY <2>1, <2>2, <2>3 DEF AtWork, IsSave
<1> QED
  BY <1>3

LEMMA RecordKeeps ==
  ASSUME IInv, NEW w \in Workers, RecordDecision(w)
  PROVE  Lists' /\ Store'
<1>1. PICK L, T : Popping(w, L, T) /\ L[1].op = "record"
  BY Acting DEF RecordDecision
<1>2. /\ L = Todo(w) /\ T = Tail(L) /\ L # <<>> /\ L \in Seq(Ops) /\ T \in Seq(Ops)
      /\ L[1] \in Ahead(w) /\ ToSet(L) = {L[1]} \cup ToSet(T) /\ Ahead(w) = {L[1]} \cup ToSet(T)
      /\ L[1].stage \in Stages /\ L[1] \in Ops
  BY <1>1 DEF Popping, Staged
<1>3. PICK s \in Stages : s = L[1].stage
  BY <1>2
<1> DEFINE entry == [action |-> L[1].action, by |-> L[1].by]
<1>4. /\ trail' = [trail EXCEPT ![s] = Append(@, entry)]
      /\ work' = [work EXCEPT ![w] = [Worked(w) EXCEPT !.decision = Len(trail[s]) + 1]]
      /\ cut' = cut \ {s}
      /\ status' = status /\ graph' = graph /\ rows' = rows /\ audited' = audited
      /\ th' = th /\ main' = main
  BY <1>1, <1>3 DEF RecordDecision, processVars, Popping
<1>5. /\ Todo(w)' = T
      /\ work'[w].decision = Len(trail[s]) + 1
      /\ \A v \in Workers \ {w} : work'[v] = work[v]
  BY <1>1, <1>4 DEF IInv, Typed, WorkerStates, Popping, Todo
<1>6. /\ trail[s] \in Seq(Decisions) /\ Len(trail[s]) \in Nat
      /\ trail'[s] = Append(trail[s], entry)
      /\ \A t \in Stages \ {s} : trail'[t] = trail[t]
  BY <1>4 DEF IInv, Typed
<1>7. /\ DOMAIN trail'[s] = 1 .. Len(trail[s]) + 1 /\ DOMAIN trail[s] = 1 .. Len(trail[s])
      /\ Len(trail'[s]) = Len(trail[s]) + 1
      /\ \A i \in DOMAIN trail[s] : trail'[s][i] = trail[s][i]
      /\ trail'[s][Len(trail[s]) + 1] = entry
  <2>1. entry \in Decisions
    BY <1>1, <1>2 DEF Ops, Simple, Asides, Decisions
  <2> HIDE DEF entry
  <2> QED
    BY <1>6, <2>1, AppendProperties
<1> HIDE DEF entry
<1>8. ASSUME NEW v \in Workers, v # w PROVE Listed(v)' /\ Reasoning(v)' /\ Holding(v)'
  <2>1. \A t \in Stages \ {s} : rows'[t] = rows[t] /\ trail'[t] = trail[t] /\ audited'[t] = audited[t]
    BY <1>4, <1>6
  <2>2. \A i \in DOMAIN trail[s] : i \in DOMAIN trail'[s] /\ trail'[s][i] = trail[s][i]
    BY <1>6, <1>7
  <2>3. \A i \in audited[s] : i \in DOMAIN trail[s]
    BY DEF IInv, Store, Linked
  <2> QED
    BY <1>2, <1>3, <1>4, <1>5, <1>8, <2>1, <2>2, <2>3, OthersKeep DEF IInv
<1>9. Listed(w)'
  BY <1>2, <1>5, OwnListed DEF IInv
<1>10. Reasoning(w)'
  <2>1. ASSUME NEW t \in Stages, Created(L, t)
        PROVE  rows'[t].status = "pending" \/ \E p \in ToSet(T) : p.op = "create" /\ p.stage = t
    BY <1>1, <1>2, <1>4, <2>1 DEF Created
  <2> QED
    BY <1>1, <1>2, <1>5, <2>1, OwnReasoning DEF IInv, Tells
<1>11. Guest(w, s) => rows[s].status = "skipped" /\ L[1].action = "stage_skipped"
  <2> SUFFICES ASSUME Guest(w, s) PROVE rows[s].status = "skipped" /\ L[1].action = "stage_skipped"
    OBVIOUS
  <2>1. Skipping(w, s)
    BY <1>1, <1>2, <1>3 DEF Holding, Staged, Popping
  <2>2. SkipOp(L[1])
    BY <1>2, <1>3, GuestsElsewhere DEF IInv, Guest, Own
  <2> QED
    BY <1>1, <1>2, <2>1, <2>2 DEF Skipping, SkipOp, IsSave
<1>12. Holding(w)'
  <2>1. CASE T = <<>>
    BY <1>5, <2>1 DEF Holding
  <2>2. CASE T # <<>>
    <3>1. /\ T[1].op \notin {"save", "aside"}
          /\ T[1].op = "load" /\ Links(T[2]) => T[1].stage = s
          /\ T[1].op = "audit" => T[1].stage = s /\ L[1].by = "replanner"
      BY <1>1, <1>2, <1>3, <2>2, After DEF Popping, IsRecord, IsSave
    <3>2. ASSUME ToLink(T) PROVE HoldsDecision(w, T[1].stage)'
      <4>1. T[1].stage = s /\ (T[1].op = "audit" => L[1].by = "replanner")
        BY <3>1, <3>2 DEF ToLink, Links
      <4>2. work'[w].decision \in DOMAIN trail'[s] /\ trail'[s][work'[w].decision] = entry
        BY <1>5, <1>6, <1>7
      <4>3. Guest(w, s) => ~Important(s, work[w].decision)'
        BY <1>11, <4>2 DEF Important, entry
      <4>4. T[1].op = "audit" => ~Important(s, work[w].decision)'
        BY <4>1, <4>2 DEF Important, entry
      <4> QED
        BY <1>5, <4>1, <4>2, <4>3, <4>4 DEF HoldsDecision, Guest
    <3>3. ASSUME Staged(T[1]), Guest(w, T[1].stage) PROVE Skipping(w, T[1].stage)'
      <4>1. \/ T[1].op = "load" /\ IsSave(T[2], T[1].stage, "skip")
            \/ T[1].op \in {"audit", "load"} /\ T[1].stage = s
        BY <1>1, <1>3, <2>2, <3>3, GuestNext DEF IsSave, IsRecord
      <4> QED
        BY <1>4, <1>5, <1>11, <3>3, <4>1 DEF Skipping, Links
    <3> QED
      BY <1>5, <3>1, <3>2, <3>3 DEF Holding, ToLink, Links, Staged, Guest
  <2> QED
    BY <2>1, <2>2
<1>13. Lists'
  BY <1>8, <1>9, <1>10, <1>12 DEF Lists
<1>14. Ahead(w)' = ToSet(T) /\ \A v \in Workers \ {w} : Ahead(v)' = Ahead(v)
  BY <1>5 DEF Ahead, Todo
<1>15. ASSUME NEW t \in Stages, t # s PROVE Told(t)'
  <2>1. Told(t)
    BY DEF IInv, Store
  <2>2. \A v \in Workers : \A p \in Ahead(v) : IsRecord(p, t) => p \in Ahead(v)'
    BY <1>1, <1>2, <1>3, <1>14, <1>15 DEF IsRecord
  <2>3. LastOf(t)' = LastOf(t) /\ (Respliced(t) => Respliced(t)')
    BY <1>4, <1>6, <1>15 DEF LastOf, Respliced
  <2> QED
    BY <1>4, <1>15, <2>1, <2>2, <2>3 DEF Told, IsRecord
<1>16. Told(s)'
  <2>1. Grounded(L, 1) /\ 1 \in DOMAIN L
    BY <1>1, <1>2, EmptySeq DEF Popping, Reasoning
  <2>2. LastOf(s)' = L[1].action
    <3>1. trail'[s] # <<>> /\ Last(trail'[s]) = entry
      <4>1. Len(trail'[s]) # 0
        BY <1>6, <1>7
      <4> QED
        BY <1>7, <4>1 DEF Last
    <3> QED
      BY <3>1 DEF LastOf, entry
  <2>3. CASE Later(L, 1, s)
    <3>1. \E p \in ToSet(T) : IsRecord(p, s)
      BY <1>2, <2>1, <2>3, TailLater
    <3> QED
      BY <1>14, <3>1 DEF Told, IsRecord
  <2>4. CASE rows[s].status \in Explained(L[1].action)
    BY <1>4, <2>2, <2>4 DEF Told
  <2>5. CASE L[1].action = "stage_inserted" /\ Created(L, s)
    <3>1. \A j \in DOMAIN L : L[j].op # "create"
      BY <1>1 DEF Popping, Paired, Preceded
    <3>2. rows[s].status = "pending"
      BY <1>2, <2>5, <3>1 DEF Created, ToSet
    <3>3. rows[s].status \in Explained(L[1].action)
      BY <2>5, <3>2 DEF Explained
    <3> QED
      BY <1>4, <2>2, <3>3 DEF Told
  <2> QED
    BY <1>1, <1>3, <2>1, <2>3, <2>4, <2>5 DEF Grounded
<1>17. \A t \in Stages : AtWork(t)'
  BY <1>1, <1>4, <1>5, AtWorkStands
<1>18. ASSUME NEW t \in Stages PROVE Linked(t)'
  <2>1. Linked(t)
    BY DEF IInv, Store
  <2> QED
    BY <1>4, <1>6, <1>7, <2>1 DEF Linked, Important
<1> QED
  BY <1>13, <1>15, <1>16, <1>17, <1>18 DEF Store

LEMMA AuditKeeps ==
  ASSUME IInv, NEW w \in Workers, AppendAuditEvent(w)
  PROVE  Lists' /\ Store'
<1>1. PICK L, T : Popping(w, L, T) /\ L[1].op = "audit"
  BY Acting DEF AppendAuditEvent
<1>2. /\ L = Todo(w) /\ T = Tail(L) /\ L # <<>> /\ L \in Seq(Ops) /\ T \in Seq(Ops)
      /\ L[1] \in Ahead(w) /\ ToSet(L) = {L[1]} \cup ToSet(T) /\ Ahead(w) = {L[1]} \cup ToSet(T)
      /\ L[1].stage \in Stages /\ L[1] \in Ops
  BY <1>1 DEF Popping, Staged
<1>3. PICK s \in Stages : s = L[1].stage
  BY <1>2
<1>4. /\ audited' = [audited EXCEPT ![s] = @ \cup {work[w].decision}]
      /\ work' = [work EXCEPT ![w] = Worked(w)]
      /\ status' = status /\ graph' = graph /\ rows' = rows /\ trail' = trail
      /\ cut' = cut /\ th' = th /\ main' = main
  BY <1>1, <1>3 DEF AppendAuditEvent, processVars, Popping
<1>5. Todo(w)' = T /\ \A v \in Workers \ {w} : work'[v] = work[v]
  BY <1>1, <1>4 DEF IInv, Typed, WorkerStates, Popping, Todo
<1>6. /\ audited'[s] = audited[s] \cup {work[w].decision}
      /\ \A t \in Stages \ {s} : audited'[t] = audited[t]
  BY <1>4 DEF IInv, Typed
<1>7. HoldsDecision(w, s)
  BY <1>1, <1>2, <1>3 DEF Holding, ToLink, Popping
<1>8. ASSUME NEW v \in Workers, v # w PROVE Listed(v)' /\ Reasoning(v)' /\ Holding(v)'
  <2>1. \A t \in Stages \ {s} : rows'[t] = rows[t] /\ trail'[t] = trail[t] /\ audited'[t] = audited[t]
    BY <1>4, <1>6
  <2>2. Guest(w, s) => \A i \in audited'[s] : i \in audited[s] \/ ~Important(s, i)'
    BY <1>4, <1>6, <1>7 DEF HoldsDecision, Important
  <2>3. \A i \in audited[s] : i \in DOMAIN trail[s]
    BY DEF IInv, Store, Linked
  <2>4. /\ rows'[s] = rows[s]
        /\ \A i \in DOMAIN trail[s] : i \in DOMAIN trail'[s] /\ trail'[s][i] = trail[s][i]
    BY <1>4
  <2> QED
    BY <1>2, <1>3, <1>4, <1>5, <1>8, <2>1, <2>2, <2>3, <2>4, OthersKeep, SMTT(30) DEF IInv
<1>9. Listed(w)'
  BY <1>2, <1>5, OwnListed DEF IInv
<1>10. Reasoning(w)'
  <2>1. ASSUME NEW t \in Stages, Created(L, t)
        PROVE  rows'[t].status = "pending" \/ \E p \in ToSet(T) : p.op = "create" /\ p.stage = t
    BY <1>1, <1>2, <1>4, <2>1 DEF Created
  <2> QED
    BY <1>1, <1>2, <1>5, <2>1, OwnReasoning DEF IInv, Tells
<1>11. Holding(w)'
  <2>1. CASE T = <<>>
    BY <1>5, <2>1 DEF Holding
  <2>2. CASE T # <<>>
    <3>1. T[1].op \notin {"save", "aside", "audit"} /\ ~(T[1].op = "load" /\ Links(T[2]))
      BY <1>1, <1>2, <2>2, After DEF Popping, IsRecord, IsSave
    <3>2. ASSUME Staged(T[1]), Guest(w, T[1].stage) PROVE Skipping(w, T[1].stage)'
      <4>1. T[1].op = "load" /\ IsSave(T[2], T[1].stage, "skip")
        BY <1>1, <2>2, <3>1, <3>2, GuestNext DEF IsSave, IsRecord
      <4> QED
        BY <1>5, <4>1 DEF Skipping
    <3> QED
      BY <1>5, <3>1, <3>2 DEF Holding, ToLink, Links, Staged, Guest
  <2> QED
    BY <2>1, <2>2
<1>12. Lists'
  BY <1>8, <1>9, <1>10, <1>11 DEF Lists
<1>13. \A t \in Stages : Told(t)' /\ AtWork(t)'
  <2>1. \A t \in Stages : Respliced(t) => Respliced(t)'
    BY <1>4 DEF Respliced
  <2> QED
    BY <1>1, <1>4, <1>5, <2>1, RowsStand
<1>14. ASSUME NEW t \in Stages PROVE Linked(t)'
  <2>1. Linked(t)
    BY DEF IInv, Store
  <2>2. /\ work[w].decision \in DOMAIN trail[s]
        /\ Important(s, work[w].decision) => rows[s] \in Rows /\ work[w].decision \in rows[s].ids
    BY <1>1, <1>2, <1>7 DEF HoldsDecision
  <2> QED
    BY <1>4, <1>6, <2>1, <2>2 DEF Linked, Important
<1> QED
  BY <1>12, <1>13, <1>14 DEF Store

(* The threads neither set stages aside nor write to the run or its graph. *)
LEMMA OnlyRunner ==
  ASSUME IInv, NEW w \in Workers, NEW o \in Ahead(w), o.op \in {"aside", "status", "graph", "create"}
  PROVE  /\ w = Runner /\ ~(\E s \in Stages : Guest(w, s))
         /\ \A s \in Stages : Free(s) /\ AtWork(s)
         /\ Running => \A s \in Stages : th[s].at \in {"none", "start"}
<1>1. w \notin Stages
  BY GuestsElsewhere DEF IInv, Own, SkipOp
<1>2. w = Runner
  BY <1>1 DEF Workers
<1>3. ~Free(Runner)
  BY <1>2, AheadIs
<1> QED
  BY <1>1, <1>2, <1>3 DEF Guest, IInv, Order, Phase, Store

LEMMA RunnerHolding ==
  ASSUME IInv, NEW w \in Workers, NEW L, NEW T, Popping(w, L, T),
         L[1].op \in {"aside", "status", "graph", "create"}, Todo(w)' = T
  PROVE  Holding(w)'
<1>1. CASE T = <<>>
  BY <1>1 DEF Holding
<1>2. CASE T # <<>>
  <2>1. T[1].op \notin {"save", "aside", "audit"} /\ ~(T[1].op = "load" /\ Links(T[2]))
    BY <1>2, After DEF Popping, IsRecord, IsSave
  <2>2. w \notin Stages
    <3>1. L[1] \in Ahead(w)
      BY DEF Popping
    <3>2. w = Runner
      BY <3>1, OnlyRunner
    <3> QED
      BY <3>2, LineageAssumption
  <2> QED
    BY <2>1, <2>2 DEF Holding, ToLink, Links, Guest
<1> QED
  BY <1>1, <1>2

LEMMA StatusKeeps ==
  ASSUME IInv, NEW w \in Workers, UpdateRun(w) \/ UpdateGraph(w)
  PROVE  Lists' /\ Store'
<1>1. PICK L, T : Popping(w, L, T) /\ L[1].op \in {"status", "graph"}
  BY Acting DEF UpdateRun, UpdateGraph
<1>2. /\ L = Todo(w) /\ T = Tail(L) /\ L # <<>> /\ L \in Seq(Ops) /\ T \in Seq(Ops)
      /\ L[1] \in Ahead(w) /\ ToSet(L) = {L[1]} \cup ToSet(T) /\ Ahead(w) = {L[1]} \cup ToSet(T)
  BY <1>1 DEF Popping
<1>3. /\ work' = [work EXCEPT ![w] = Worked(w)]
      /\ rows' = rows /\ trail' = trail /\ audited' = audited
      /\ cut' = cut /\ th' = th /\ main'.at = main.at
  BY DEF UpdateRun, UpdateGraph, processVars, IInv, Typed
<1>4. Todo(w)' = T /\ \A v \in Workers \ {w} : work'[v] = work[v]
  BY <1>1, <1>3 DEF IInv, Typed, WorkerStates, Popping, Todo
<1>5. ASSUME NEW v \in Workers, v # w PROVE Listed(v)' /\ Reasoning(v)' /\ Holding(v)'
  BY <1>3, <1>4, <1>5, OthersStand DEF IInv
<1>6. Listed(w)'
  BY <1>2, <1>4, OwnListed DEF IInv
<1>7. Reasoning(w)'
  <2>1. ASSUME NEW t \in Stages, Created(L, t)
        PROVE  rows'[t].status = "pending" \/ \E p \in ToSet(T) : p.op = "create" /\ p.stage = t
    BY <1>1, <1>2, <1>3, <2>1 DEF Created
  <2> QED
    BY <1>1, <1>2, <1>4, <2>1, OwnReasoning DEF IInv, Tells
<1>8. Lists'
  BY <1>1, <1>4, <1>5, <1>6, <1>7, RunnerHolding DEF Lists
<1>9. \A t \in Stages : Respliced(t) => Respliced(t)'
  <2>1. CASE UpdateRun(w)
    BY <2>1 DEF UpdateRun, Respliced
  <2>2. CASE UpdateGraph(w)
    <3>1. graph' = L[1].to /\ L[1].op = "graph"
      BY <1>1, <2>2 DEF UpdateGraph, Works, Popping
    <3>2. Grows(graph, L[1].to)
      BY <1>2, <3>1, OnlyRunner DEF IInv, Inserting
    <3>3. Grows(InitialGraph, graph)
      BY DEF IInv, Grown
    <3> QED
      BY <3>1, <3>2, <3>3 DEF Grows, Respliced
  <2> QED
    BY <2>1, <2>2
<1>10. \A t \in Stages : Told(t)' /\ AtWork(t)'
  BY <1>1, <1>3, <1>4, <1>9, RowsStand
<1>11. \A t \in Stages : Linked(t)'
  BY <1>3 DEF IInv, Store, Linked, Important
<1> QED
  BY <1>8, <1>10, <1>11 DEF Store

LEMMA CreateKeeps ==
  ASSUME IInv, NEW w \in Workers, CreateRow(w)
  PROVE  Lists' /\ Store'
<1>1. PICK L, T : Popping(w, L, T) /\ L[1].op = "create"
  BY Acting DEF CreateRow
<1>2. /\ L = Todo(w) /\ T = Tail(L) /\ L # <<>> /\ L \in Seq(Ops) /\ T \in Seq(Ops)
      /\ L[1] \in Ahead(w) /\ ToSet(L) = {L[1]} \cup ToSet(T) /\ Ahead(w) = {L[1]} \cup ToSet(T)
      /\ L[1].stage \in Stages
  BY <1>1 DEF Popping, Staged
<1>3. PICK s \in Stages : s = L[1].stage
  BY <1>2
<1>4. /\ rows' = [rows EXCEPT ![s] = NewRow]
      /\ work' = [work EXCEPT ![w] = Worked(w)]
      /\ graph' = graph /\ trail' = trail /\ audited' = audited
      /\ cut' = cut /\ th' = th /\ main' = main
  BY <1>1, <1>3 DEF CreateRow, processVars, Popping
<1>5. /\ Todo(w)' = T /\ \A v \in Workers \ {w} : work'[v] = work[v]
      /\ rows'[s] = NewRow /\ \A t \in Stages \ {s} : rows'[t] = rows[t]
  BY <1>1, <1>4 DEF IInv, Typed, WorkerStates, Popping, Todo
<1>6. w = Runner /\ ~Guest(w, s) /\ \A t \in Stages : AtWork(t)'
  <2>1. /\ w = Runner /\ ~Guest(w, s)
        /\ Running => \A t \in Stages : th[t].at \in {"none", "start"}
    BY <1>1, <1>2, OnlyRunner
  <2>2. Running' <=> Running
    BY <1>4 DEF Running
  <2>3. ASSUME NEW t \in Stages PROVE AtWork(t)'
    BY <1>4, <2>1, <2>2 DEF AtWork
  <2> QED
    BY <2>1, <2>3
<1>7. rows[s] = NoRow
  BY <1>1, <1>2, <1>3, <1>6 DEF IInv, Inserting
<1>8. ASSUME NEW v \in Workers, v # w PROVE Listed(v)' /\ Reasoning(v)' /\ Holding(v)'
  <2>1. \A t \in Stages \ {s} : rows'[t] = rows[t] /\ trail'[t] = trail[t] /\ audited'[t] = audited[t]
    BY <1>4, <1>5
  <2>2. \A i \in audited[s] : i \in DOMAIN trail[s]
    BY DEF IInv, Store, Linked
  <2>3. ~Guest(w, s) /\ L[1] \in Ahead(w) /\ L[1].stage = s
    BY <1>2, <1>3, <1>6
  <2>4. work'[v] = work[v]
    BY <1>5, <1>8
  <2> QED
    BY <1>8, <2>1, <2>2, <2>3, <2>4, OthersKeep DEF IInv
<1>9. Listed(w)'
  BY <1>2, <1>5, OwnListed DEF IInv
<1>10. Reasoning(w)'
  <2>1. ASSUME NEW t \in Stages, Created(L, t)
        PROVE  rows'[t].status = "pending" \/ \E p \in ToSet(T) : p.op = "create" /\ p.stage = t
    <3>1. CASE t = s
      BY <1>5, <3>1 DEF NewRow
    <3>2. CASE t # s
      BY <1>2, <1>3, <1>5, <2>1, <3>2 DEF Created
    <3> QED
      BY <3>1, <3>2
  <2> QED
    BY <1>1, <1>2, <1>5, <2>1, OwnReasoning DEF IInv, Tells
<1>11. Lists'
  BY <1>1, <1>5, <1>8, <1>9, <1>10, RunnerHolding DEF Lists
<1>12. Ahead(w)' = ToSet(T) /\ \A v \in Workers \ {w} : Ahead(v)' = Ahead(v)
  BY <1>5 DEF Ahead, Todo
<1>13. ASSUME NEW t \in Stages PROVE Told(t)'
  <2>1. CASE t = s
    <3>1. \E p \in ToSet(T) : IsRecord(p, s)
      BY <1>1, <1>3 DEF Popping, Telling
    <3> QED
      BY <1>12, <2>1, <3>1 DEF Told, IsRecord
  <2>2. CASE t # s
    <3>1. Told(t)
      BY DEF IInv, Store
    <3>2. \A v \in Workers : \A p \in Ahead(v) : IsRecord(p, t) => p \in Ahead(v)'
      BY <1>1, <1>2, <1>12 DEF IsRecord
    <3>3. LastOf(t)' = LastOf(t) /\ (Respliced(t) => Respliced(t)') /\ rows'[t] = rows[t]
      BY <1>4, <1>5, <2>2 DEF LastOf, Respliced
    <3> QED
      BY <1>4, <3>1, <3>2, <3>3 DEF Told, IsRecord
  <2> QED
    BY <2>1, <2>2
<1>14. ASSUME NEW t \in Stages PROVE Linked(t)'
  <2>1. Linked(t) /\ Linked(s)
    BY DEF IInv, Store
  <2>2. NoRow \notin Rows
    BY DEF NoRow, Rows, Statuses
  <2> QED
    BY <1>4, <1>5, <1>7, <2>1, <2>2 DEF Linked, Important
<1> QED
  BY <1>6, <1>11, <1>13, <1>14 DEF Store

(* The transactions that log a stage as set aside go before the rest. *)
JoinedAside(s, log, T, Q) ==
    /\ Q \in Seq(Ops) /\ Paired(Q) /\ Spoken(Q)
    /\ DOMAIN log = 1 .. Len(log) /\ Len(log) \in Nat /\ Len(log) >= 1
    /\ DOMAIN Q = 1 .. Len(log) + Len(T) /\ Len(T) \in Nat /\ DOMAIN T = 1 .. Len(T)
    /\ \A i \in DOMAIN log : Q[i] = log[i]
    /\ \A i \in DOMAIN T : Q[Len(log) + i] = T[i]
    /\ ToSet(Q) = ToSet(log) \cup ToSet(T)
    /\ IsRecord(log[1], s) /\ log[1].action = "marked_stale" /\ Q[1] = log[1]
    /\ \A i \in DOMAIN log :
          /\ i = 1 \/ log[i].op # "record"
          /\ log[i].op \in {"load", "save", "record", "audit"} /\ log[i].stage = s
          /\ log[i].op = "save" => log[i].change = "link"

LEMMA JoinAside ==
  ASSUME NEW L \in Seq(Ops), L # <<>>, Paired(L), Spoken(L), L[1].op = "aside",
         NEW s \in Stages, NEW log \in AsideLogs(s), log # <<>>,
         NEW T, T = Tail(L), NEW Q, Q = log \o T
  PROVE  JoinedAside(s, log, T, Q)
<1>1. /\ log \in Seq(Ops) /\ Paired(log) /\ Spoken(log)
      /\ DOMAIN log = 1 .. Len(log) /\ Len(log) \in Nat /\ Len(log) >= 1
      /\ IsRecord(log[1], s) /\ log[1].action = "marked_stale"
      /\ \A i \in DOMAIN log :
            /\ i = 1 \/ log[i].op # "record"
            /\ log[i].op \in {"load", "save", "record", "audit"} /\ log[i].stage = s
            /\ log[i].op = "save" => log[i].change = "link"
  <2>1. "marked_stale" \in Actions \ {"stage_skipped"}
    BY DEF Actions
  <2>2. CASE log = Log(s, "marked_stale")
    <3>1. /\ log \in Seq(Ops) /\ Len(log) = 4 /\ DOMAIN log = 1 .. 4
          /\ log[1] = Record(s, "marked_stale", "executor") /\ log[2] = Load(s)
          /\ log[3] = Save(s, "link", 0) /\ log[4] = Audit(s)
          /\ Paired(log) /\ Spoken(log)
      BY <2>1, <2>2, LogShape
    <3> QED
      BY <3>1 DEF Record, Load, Save, Audit, IsRecord
  <2>3. CASE log = Note(s, "marked_stale")
    <3>1. /\ log \in Seq(Ops) /\ Len(log) = 2 /\ DOMAIN log = 1 .. 2
          /\ log[1] = Record(s, "marked_stale", "replanner") /\ log[2] = Audit(s)
          /\ Paired(log) /\ Spoken(log)
      BY <2>1, <2>3, NoteShape
    <3> QED
      BY <3>1 DEF Record, Audit, IsRecord
  <2> QED
    BY <2>2, <2>3 DEF AsideLogs
<1>2. /\ T \in Seq(Ops) /\ Paired(T) /\ Spoken(T)
      /\ DOMAIN T = 1 .. Len(L) - 1 /\ Len(L) \in Nat /\ DOMAIN L = 1 .. Len(L)
      /\ \A i \in DOMAIN T : i + 1 \in DOMAIN L /\ T[i] = L[i + 1]
  BY Popped, TailPaired, TailSpoken
<1>3. Plain(T)
  <2>1. ASSUME NEW i \in DOMAIN T PROVE T[i].op \notin {"graph", "create"}
    <3>1. Preceded(L, i + 1) /\ T[i] = L[i + 1] /\ i + 1 # 1
      BY <1>2 DEF Paired
    <3> QED
      BY <3>1 DEF Preceded
  <2> QED
    BY <2>1 DEF Plain
<1>4. Opens(T)
  <2> SUFFICES ASSUME T # <<>> PROVE Opens(T)
    BY DEF Opens
  <2>1. /\ T[1].op \notin {"save", "aside", "audit"}
        /\ ~(T[1].op = "record" /\ T[1].action = "stage_skipped")
    BY After DEF IsSave, IsRecord
  <2>2. ASSUME 2 \in DOMAIN T, Links(T[2]) PROVE FALSE
    <3>1. 2 + 1 \in DOMAIN L /\ T[2] = L[2 + 1]
      BY <1>2, <2>2
    <3>2. Preceded(L, 3) /\ T[2] = L[3]
      BY <3>1 DEF Paired
    <3> QED
      BY <2>2, <3>2 DEF Preceded, IsRecord
  <2> QED
    BY <2>1, <2>2 DEF Opens
<1>5. Q \in Seq(Ops) /\ Paired(Q)
  BY <1>1, <1>2, <1>3, <1>4, JoinPaired, Concatenated
<1>6. /\ DOMAIN Q = 1 .. Len(log) + Len(T) /\ Len(T) \in Nat /\ DOMAIN T = 1 .. Len(T)
      /\ \A i \in DOMAIN log : Q[i] = log[i]
      /\ \A i \in DOMAIN T : Q[Len(log) + i] = T[i]
  BY <1>1, <1>2, Concatenated
<1>7. ToSet(Q) = ToSet(log) \cup ToSet(T)
  <2>1. \A a, b \in Seq(Ops) : \A q : q = a \o b => ToSet(q) = ToSet(a) \cup ToSet(b)
    <3>1. ASSUME NEW a \in Seq(Ops), NEW b \in Seq(Ops)
          PROVE  ToSet(a \o b) = ToSet(a) \cup ToSet(b)
      BY ConcatenatedSet
    <3> QED
      BY <3>1
  <2>2. log \in Seq(Ops) /\ T \in Seq(Ops)
    BY <1>1, <1>2
  <2>3. Q = log \o T
    OBVIOUS
  <2> QED
    BY <2>1, <2>2, <2>3, Zenon
<1>8. Spoken(Q)
  <2>1. ASSUME NEW k \in DOMAIN Q, Telling(Q[k]) PROVE Later(Q, k, Q[k].stage)
    <3>1. k \notin DOMAIN log
      <4>1. k \in DOMAIN log => ~Telling(log[k])
        BY <1>1 DEF Telling, Mute
      <4> QED
        BY <1>6, <2>1, <4>1
    <3> DEFINE i == k - Len(log)
    <3>2. i \in DOMAIN T /\ Len(log) + i = k
      BY <1>1, <1>6, <3>1
    <3>3. Q[k] = T[i]
      BY <1>6, <3>2
    <3>4. PICK j \in DOMAIN T : j > i /\ IsRecord(T[j], Q[k].stage)
      BY <1>2, <2>1, <3>2, <3>3 DEF Spoken, Later
    <3>5. Len(log) + j \in DOMAIN Q /\ Q[Len(log) + j] = T[j] /\ Len(log) + j > k
      BY <1>1, <1>6, <3>2, <3>4, SMTT(30)
    <3> QED
      BY <3>4, <3>5 DEF Later
  <2> QED
    BY <2>1 DEF Spoken
<1>9. Q[1] = log[1]
  BY <1>1, <1>6
<1> QED
  BY <1>1, <1>5, <1>6, <1>7, <1>8, <1>9 DEF JoinedAside

LEMMA AsideKeeps ==
  ASSUME IInv, NEW w \in Workers, SetAside(w)
  PROVE  Lists' /\ Store'
<1>1. PICK L, T : Popping(w, L, T) /\ L[1].op = "aside"
  BY Acting DEF SetAside
<1>2. /\ L = Todo(w) /\ T = Tail(L) /\ L # <<>> /\ L \in Seq(Ops) /\ T \in Seq(Ops)
      /\ L[1] \in Ahead(w) /\ ToSet(L) = {L[1]} \cup ToSet(T) /\ Ahead(w) = {L[1]} \cup ToSet(T)
      /\ L[1].stage \in Stages /\ Paired(L) /\ Spoken(L) /\ Reasoning(w)
  BY <1>1 DEF Popping, Staged, Listed
<1>3. PICK s \in Stages : s = L[1].stage
  BY <1>2
<1>4. PICK log \in AsideLogs(s) : log = L[1].log
  <2>1. L[1] \in Asides
    BY <1>1 DEF Popping, Ops, Simple
  <2> QED
    BY <1>3, <2>1 DEF Asides
<1>5. /\ w = Runner /\ w \notin Stages /\ ~Guest(w, s)
      /\ \A t \in Stages : AtWork(t)'
  <2>1. /\ w = Runner /\ ~Guest(w, s)
        /\ Running => \A t \in Stages : th[t].at \in {"none", "start"}
    BY <1>1, <1>2, OnlyRunner
  <2>2. th' = th /\ main' = main
    BY DEF SetAside, processVars
  <2>3. ASSUME NEW t \in Stages PROVE AtWork(t)'
    BY <2>1, <2>2 DEF AtWork, Running
  <2> QED
    BY <2>1, <2>3, LineageAssumption
<1>6. HoldsRow(w, s)
  BY <1>1, <1>2, <1>3 DEF Holding, Popping
<1>7. work[w].held = rows[s] /\ rows[s] \in Rows
  BY <1>5, <1>6 DEF HoldsRow
<1> DEFINE new == Changed(rows[s], "set_aside", 0, 0)
<1>8. new \in Rows /\ new.ids = rows[s].ids /\ new.status = "stale"
  BY <1>7 DEF Changed, Rows, Statuses
<1>9. /\ graph' = graph /\ trail' = trail /\ audited' = audited /\ cut' = cut
      /\ \/ work' = [work EXCEPT ![w] = Worked(w)] /\ rows' = rows
         \/ /\ work' = [work EXCEPT ![w] = [Worked(w) EXCEPT !.todo = log \o @]]
            /\ rows' = [rows EXCEPT ![s] = new]
  BY <1>1, <1>3, <1>4, <1>7 DEF SetAside, processVars, Popping
<1> HIDE DEF new
<1>10. /\ \A v \in Workers \ {w} : work'[v] = work[v]
       /\ \A t \in Stages \ {s} : rows'[t] = rows[t]
       /\ rows'[s] = rows[s] \/ rows'[s] = new
       /\ \/ Todo(w)' = T /\ rows' = rows
          \/ Todo(w)' = log \o T /\ rows'[s] = new
  <2>1. /\ work \in [Workers -> WorkerStates] /\ rows \in [Stages -> Rows \cup {NoRow}]
        /\ Worked(w) \in WorkerStates /\ Worked(w).todo = T
    BY <1>1 DEF IInv, Typed, WorkerStates, Popping
  <2>2. CASE work' = [work EXCEPT ![w] = Worked(w)] /\ rows' = rows
    BY <2>1, <2>2 DEF Todo
  <2>3. CASE /\ work' = [work EXCEPT ![w] = [Worked(w) EXCEPT !.todo = log \o @]]
             /\ rows' = [rows EXCEPT ![s] = new]
    <3>1. work'[w] = [Worked(w) EXCEPT !.todo = log \o @]
      BY <2>1, <2>3
    <3>2. work'[w].todo = log \o T
      BY <2>1, <3>1 DEF WorkerStates
    <3> QED
      BY <2>1, <2>3, <3>2 DEF Todo
  <2> QED
    BY <1>9, <2>2, <2>3
<1>11. log = <<>> => log \o T = T
  BY <1>2, ConcatEmptySeq
<1>12. /\ T # <<>> => T[1].op \notin {"save", "aside", "audit"} /\ ~(T[1].op = "load" /\ Links(T[2]))
       /\ \A o \in ToSet(L) : o.op # "graph"
  <2>1. T # <<>> => T[1].op \notin {"save", "aside", "audit"} /\ ~(T[1].op = "load" /\ Links(T[2]))
    BY <1>1, <1>2, After DEF IsSave, IsRecord
  <2>2. \A i \in DOMAIN L : L[i].op # "graph"
    BY <1>1, <1>2 DEF Paired, Preceded
  <2> QED
    BY <2>1, <2>2 DEF ToSet
<1>13. ASSUME NEW v \in Workers, v # w PROVE Listed(v)' /\ Reasoning(v)' /\ Holding(v)'
  <2>1. \A t \in Stages \ {s} : rows'[t] = rows[t] /\ trail'[t] = trail[t] /\ audited'[t] = audited[t]
    BY <1>9, <1>10
  <2>2. \A i \in audited[s] : i \in DOMAIN trail[s]
    BY DEF IInv, Store, Linked
  <2>3. ~Guest(w, s) /\ L[1] \in Ahead(w) /\ L[1].stage = s
    BY <1>2, <1>3, <1>5
  <2>4. work'[v] = work[v]
    BY <1>10, <1>13
  <2> QED
    BY <1>13, <2>1, <2>2, <2>3, <2>4, OthersKeep DEF IInv
<1>14. CASE Todo(w)' = T /\ (rows' = rows \/ (rows'[s] = new /\ log = <<>>))
  <2>1. Listed(w)'
    BY <1>2, <1>14, OwnListed DEF IInv
  <2>2. Reasoning(w)'
    <3>1. ASSUME NEW t \in Stages, Created(L, t)
          PROVE  rows'[t].status = "pending" \/ \E p \in ToSet(T) : p.op = "create" /\ p.stage = t
      BY <1>1, <1>2, <1>3, <1>10, <3>1 DEF Created
    <3> QED
      BY <1>1, <1>2, <1>14, <3>1, OwnReasoning DEF IInv, Tells
  <2>3. Lists'
    BY <1>1, <1>13, <1>14, <2>1, <2>2, RunnerHolding DEF Lists
  <2>4. Ahead(w)' = ToSet(T) /\ \A v \in Workers \ {w} : Ahead(v)' = Ahead(v)
    BY <1>10, <1>14 DEF Ahead, Todo
  <2>5. ASSUME NEW t \in Stages PROVE Told(t)'
    <3>1. Told(t)
      BY DEF IInv, Store
    <3>2. \A v \in Workers : \A p \in Ahead(v) : IsRecord(p, t) => p \in Ahead(v)'
      BY <1>1, <1>2, <2>4 DEF IsRecord
    <3>3. LastOf(t)' = LastOf(t) /\ (Respliced(t) => Respliced(t)')
      BY <1>9 DEF LastOf, Respliced
    <3>4. CASE rows'[t] = rows[t]
      BY <1>9, <3>1, <3>2, <3>3, <3>4 DEF Told, IsRecord
    <3>5. CASE rows'[t] # rows[t]
      <4>1. t = s /\ rows'[s] = new /\ log = <<>>
        BY <1>10, <1>14, <3>5
      <4>2. Respliced(s)
        BY <1>1, <1>2, <1>3, <1>4, <1>5, <1>12, <4>1 DEF IInv, Inserting
      <4> QED
        BY <1>8, <3>3, <4>1, <4>2 DEF Told
    <3> QED
      BY <3>4, <3>5
  <2>6. ASSUME NEW t \in Stages PROVE Linked(t)'
    <3>1. Linked(t)
      BY DEF IInv, Store
    <3> QED
      BY <1>8, <1>9, <1>10, <3>1 DEF Linked, Important
  <2> QED
    BY <1>5, <2>3, <2>5, <2>6 DEF Store
<1>15. CASE log # <<>> /\ Todo(w)' = log \o T /\ rows'[s] = new
  <2>1. PICK Q : Q = log \o T
    OBVIOUS
  <2>2. /\ Q \in Seq(Ops) /\ Paired(Q) /\ Spoken(Q)
        /\ DOMAIN log = 1 .. Len(log) /\ Len(log) \in Nat /\ Len(log) >= 1
        /\ DOMAIN Q = 1 .. Len(log) + Len(T) /\ Len(T) \in Nat /\ DOMAIN T = 1 .. Len(T)
        /\ \A i \in DOMAIN log : Q[i] = log[i]
        /\ \A i \in DOMAIN T : Q[Len(log) + i] = T[i]
        /\ ToSet(Q) = ToSet(log) \cup ToSet(T)
        /\ IsRecord(log[1], s) /\ log[1].action = "marked_stale" /\ Q[1] = log[1]
        /\ \A i \in DOMAIN log :
              /\ i = 1 \/ log[i].op # "record"
              /\ log[i].op \in {"load", "save", "record", "audit"} /\ log[i].stage = s
              /\ log[i].op = "save" => log[i].change = "link"
    <3>1. JoinedAside(s, log, T, Q)
      BY <1>1, <1>2, <1>15, <2>1, JoinAside
    <3> QED
      BY <3>1 DEF JoinedAside
  <2>3. Todo(w)' = Q /\ Ahead(w)' = ToSet(Q)
    BY <1>15, <2>1 DEF Ahead
  <2>4. Listed(w)'
    BY <2>2, <2>3, SMTT(30) DEF Listed, Paired, Preceded, Followed, Links, IsSave, IsRecord, Spoken, Later,
       Telling, Mute
  <2>5. Reasoning(w)'
    <3>1. /\ Len(L) \in Nat /\ DOMAIN L = 1 .. Len(L) /\ DOMAIN T = 1 .. Len(L) - 1
          /\ \A i \in DOMAIN T : i + 1 \in DOMAIN L /\ T[i] = L[i + 1]
      BY <1>2, Popped
    <3>2. ASSUME NEW k \in DOMAIN Q, Q[k].op = "record" PROVE Grounded(Q, k)'
      <4>1. CASE k = 1
        <5>1. Q[1].stage = s /\ Q[1].action = "marked_stale"
          BY <2>2 DEF IsRecord
        <5>2. rows'[s].status \in Explained(Q[1].action)
          BY <1>8, <1>15, <5>1 DEF Explained
        <5> QED
          BY <4>1, <5>1, <5>2 DEF Grounded
      <4>2. CASE k # 1
        <5> DEFINE i == k - Len(log)
        <5>1. k \notin DOMAIN log
          BY <2>2, <3>2, <4>2
        <5>2. i \in DOMAIN T /\ Len(log) + i = k /\ Q[k] = T[i] /\ i \in Nat /\ i >= 1
          BY <2>2, <5>1
        <5> HIDE DEF i
        <5>3. i + 1 \in DOMAIN L /\ T[i] = L[i + 1] /\ Grounded(L, i + 1) /\ L[i + 1].op = "record"
          BY <1>2, <3>1, <3>2, <5>2 DEF Reasoning
        <5>4. CASE L[(i + 1) - 1].stage = L[i + 1].stage /\ Tells(L[(i + 1) - 1], L[i + 1].action)
          <6>1. i # 1
            <7>1. (1 + 1) - 1 = 1
              OBVIOUS
            <7> QED
              BY <1>1, <5>4, <7>1 DEF Tells
          <6>2. /\ i - 1 \in DOMAIN T /\ (i - 1) + 1 = i
                /\ Len(log) + (i - 1) = k - 1 /\ k > 1 /\ (i + 1) - 1 = i
            BY <2>2, <5>2, <6>1
          <6>3. Q[k - 1] = T[i - 1] /\ T[i - 1] = L[i]
            BY <2>2, <3>1, <6>2
          <6> QED
            BY <5>2, <5>3, <5>4, <6>2, <6>3 DEF Grounded
        <5>5. CASE Later(L, i + 1, L[i + 1].stage)
          <6>1. (i + 1) - 1 = i
            BY <5>2
          <6>2. Later(T, i, Q[k].stage)
            BY <1>2, <5>2, <5>3, <5>5, <6>1, TailLater
          <6>3. PICK j \in DOMAIN T : j > i /\ IsRecord(T[j], Q[k].stage)
            BY <6>2 DEF Later
          <6>4. Len(log) + j \in DOMAIN Q /\ Q[Len(log) + j] = T[j] /\ Len(log) + j > k
            BY <2>2, <5>2, <6>3
          <6>5. Later(Q, k, Q[k].stage)
            BY <6>3, <6>4 DEF Later
          <6> QED
            BY <6>5 DEF Grounded, Later
        <5>6. CASE L[i + 1].action = "stage_inserted" /\ Created(L, L[i + 1].stage)
          <6> DEFINE t == Q[k].stage
          <6>1. t = L[i + 1].stage /\ t # s /\ t \in Stages
            <7>1. T[i] \in Ops
              BY <1>2, <5>2, ElementOfSeq
            <7> QED
              BY <1>1, <1>2, <1>3, <3>2, <5>2, <5>3, <5>6, <7>1 DEF Created, Ops, Simple, Asides
          <6>2. rows'[t].status = "pending" \/ \E p \in ToSet(Q) : p.op = "create" /\ p.stage = t
            BY <1>1, <1>2, <1>10, <2>2, <5>6, <6>1 DEF Created
          <6>3. \A p \in ToSet(Q) : p.op \in {"save", "aside"} => p.stage # t
            <7>1. \A p \in ToSet(log) : p.stage = s
              BY <2>2 DEF ToSet
            <7>2. \A p \in ToSet(T) : p.op \in {"save", "aside"} => p.stage # t
              BY <1>2, <5>6, <6>1 DEF Created
            <7> QED
              BY <2>2, <6>1, <7>1, <7>2
          <6>4. Created(Q, t)'
            BY <6>2, <6>3 DEF Created
          <6>5. Q[k].action = "stage_inserted"
            BY <5>2, <5>3, <5>6
          <6> QED
            BY <6>4, <6>5 DEF Grounded
        <5> QED
          BY <5>3, <5>4, <5>5, <5>6, <5>2 DEF Grounded
      <4> QED
        BY <4>1, <4>2
    <3> QED
      BY <2>3, <3>2 DEF Reasoning, Grounded
  <2>6. Holding(w)'
    BY <1>5, <2>2, <2>3 DEF Holding, ToLink, Links, Guest, IsRecord
  <2>7. Lists'
    BY <1>13, <2>4, <2>5, <2>6 DEF Lists
  <2>8. \A v \in Workers \ {w} : Ahead(v)' = Ahead(v)
    BY <1>10 DEF Ahead, Todo
  <2>9. ASSUME NEW t \in Stages PROVE Told(t)'
    <3>1. CASE t = s
      <4>1. log[1] \in Ahead(w)'
        BY <2>2, <2>3 DEF ToSet
      <4> QED
        BY <2>2, <3>1, <4>1 DEF Told, IsRecord
    <3>2. CASE t # s
      <4>1. Told(t)
        BY DEF IInv, Store
      <4>2. \A v \in Workers : \A p \in Ahead(v) : IsRecord(p, t) => p \in Ahead(v)'
        BY <1>1, <1>2, <2>2, <2>3, <2>8 DEF IsRecord
      <4>3. LastOf(t)' = LastOf(t) /\ (Respliced(t) => Respliced(t)') /\ rows'[t] = rows[t]
        BY <1>9, <1>10, <3>2 DEF LastOf, Respliced
      <4> QED
        BY <1>9, <4>1, <4>2, <4>3 DEF Told, IsRecord
    <3> QED
      BY <3>1, <3>2
  <2>10. ASSUME NEW t \in Stages PROVE Linked(t)'
    <3>1. Linked(t)
      BY DEF IInv, Store
    <3> QED
      BY <1>8, <1>9, <1>10, <3>1 DEF Linked, Important
  <2> QED
    BY <1>5, <2>7, <2>9, <2>10 DEF Store
<1> QED
  BY <1>10, <1>11, <1>14, <1>15

(* A worker that is stopped leaves its stages cut. *)
LEMMA StoppedKeep ==
  ASSUME IInv, NEW S \in SUBSET Workers, UNCHANGED storeVars,
         \A v \in S : work'[v] = Resting, \A v \in Workers \ S : work'[v] = work[v],
         \A v \in S : StagesOf(work[v].todo) \subseteq cut', cut \subseteq cut'
  PROVE  /\ Lists'
         /\ \A s \in Stages : Linked(s)' /\ Told(s)'
<1>1. rows' = rows /\ trail' = trail /\ audited' = audited /\ graph' = graph
  BY DEF storeVars
<1>2. ASSUME NEW v \in Workers PROVE Listed(v)' /\ Reasoning(v)' /\ Holding(v)'
  <2>1. CASE v \in S
    <3>1. Todo(v)' = <<>>
      BY <2>1 DEF Resting, Todo
    <3> QED
      BY <3>1 DEF Listed, Paired, Spoken, Reasoning, Holding
  <2>2. CASE v \notin S
    <3>1. work'[v] = work[v]
      BY <2>2
    <3> QED
      BY <1>1, <3>1, OthersStand DEF IInv
  <2> QED
    BY <2>1, <2>2
<1>3. ASSUME NEW s \in Stages PROVE Linked(s)'
  BY <1>1 DEF IInv, Store, Linked, Important
<1>4. ASSUME NEW s \in Stages PROVE Told(s)'
  <2>1. LastOf(s)' = LastOf(s) /\ Respliced(s)' = Respliced(s)
    BY <1>1 DEF LastOf, Respliced
  <2>2. ASSUME NEW v \in Workers, NEW o \in Ahead(v), IsRecord(o, s)
        PROVE  s \in cut' \/ o \in Ahead(v)'
    <3>1. CASE v \in S
      <4>1. PICK i \in DOMAIN work[v].todo : o = work[v].todo[i]
        BY DEF Ahead, Todo, ToSet
      <4>2. s \in StagesOf(work[v].todo)
        BY <2>2, <4>1 DEF StagesOf, IsRecord
      <4> QED
        BY <3>1, <4>2
    <3>2. CASE v \notin S
      <4>1. work'[v] = work[v]
        BY <3>2
      <4> QED
        BY <2>2, <4>1 DEF Ahead, Todo
    <3> QED
      BY <3>1, <3>2
  <2>3. Told(s)
    BY DEF IInv, Store
  <2> QED
    BY <1>1, <2>1, <2>2, <2>3 DEF Told, IsRecord
<1> QED
  BY <1>2, <1>3, <1>4 DEF Lists

LEMMA CrashKeeps ==
  ASSUME IInv, Crash
  PROVE  Lists' /\ Store'
<1>1. /\ UNCHANGED storeVars /\ cut \subseteq cut'
      /\ \A v \in Workers : work'[v] = Resting
      /\ \A v \in Workers : StagesOf(work[v].todo) \subseteq cut'
      /\ ~Running'
  BY DEF Crash, Running
<1>2. \A s \in Stages : AtWork(s)'
  BY <1>1 DEF AtWork
<1>3. Lists' /\ \A s \in Stages : Linked(s)' /\ Told(s)'
  BY <1>1, StoppedKeep
<1> QED
  BY <1>2, <1>3 DEF Store

LEMMA RaiseKeeps ==
  ASSUME IInv, NEW w \in Workers, RaiseKeyError(w)
  PROVE  Lists' /\ Store'
<1>1. /\ UNCHANGED storeVars /\ cut \subseteq cut' /\ work \in [Workers -> WorkerStates]
      /\ work' = [work EXCEPT ![w] = Resting]
      /\ StagesOf(work[w].todo) \subseteq cut'
      /\ th' = [s \in Stages |-> IF s = w THEN NoThread ELSE th[s]]
      /\ main' = [main EXCEPT !.at = IF w = Runner THEN "idle" ELSE "raised"]
      /\ main \in [at : {"idle", "layer", "join", "raised"}, target : SUBSET Stages]
  BY DEF RaiseKeyError, IInv, Typed, WorkerStates
<1>2. Lists' /\ \A s \in Stages : Linked(s)' /\ Told(s)'
  <2>1. PICK S \in SUBSET Workers : S = {w}
    OBVIOUS
  <2>2. /\ \A v \in S : work'[v] = Resting /\ StagesOf(work[v].todo) \subseteq cut'
        /\ \A v \in Workers \ S : work'[v] = work[v]
    BY <1>1, <2>1
  <2> QED
    BY <1>1, <2>2, StoppedKeep
<1>3. ASSUME NEW s \in Stages PROVE AtWork(s)'
  <2>1. CASE w = Runner
    BY <1>1, <2>1 DEF AtWork, Running
  <2>2. CASE w # Runner /\ s = w
    BY <1>1, <2>2 DEF AtWork, NoThread
  <2>3. CASE w # Runner /\ s # w
    <3>1. Running
      <4>1. ~Free(w) /\ w \in Stages
        BY <2>3 DEF RaiseKeyError, Works, Free, Workers
      <4> QED
        BY <4>1 DEF IInv, Order, Phase
    <3>2. rows' = rows /\ work'[s] = work[s] /\ th'[s] = th[s] /\ AtWork(s)
      BY <1>1, <2>3 DEF storeVars, Workers, IInv, Store
    <3> QED
      BY <3>1, <3>2 DEF AtWork, IsSave, Ahead, Todo
  <2> QED
    BY <2>1, <2>2, <2>3
<1> QED
  BY <1>2, <1>3 DEF Store

-----------------------------------------------------------------------------
(* A worker that was free is given a list *)

Given(w, list) ==
    /\ Free(w) /\ UNCHANGED <<storeVars, cut>>
    /\ work' = [work EXCEPT ![w].todo = list]
    /\ list \in Seq(Ops) /\ Paired(list) /\ Opens(list) /\ Spoken(list)
    /\ \A i \in DOMAIN list : Grounded(list, i)
    /\ list # <<>> /\ Staged(list[1]) /\ Guest(w, list[1].stage) =>
          list[1].op = "load" /\ IsSave(list[2], list[1].stage, "skip")

LEMMA GivenIs ==
  ASSUME Typed, NEW w \in Workers, NEW list, Given(w, list)
  PROVE  /\ Todo(w)' = list /\ Ahead(w)' = ToSet(list) /\ Ahead(w) = {}
         /\ \A v \in Workers \ {w} : work'[v] = work[v] /\ Ahead(v)' = Ahead(v)
         /\ work' \in [Workers -> WorkerStates]
<1>1. work \in [Workers -> WorkerStates] /\ list \in Seq(Ops)
  BY DEF Typed, Given, WorkerStates
<1>2. work' = [work EXCEPT ![w] = [work[w] EXCEPT !.todo = list]]
  BY DEF Given
<1>3. [work[w] EXCEPT !.todo = list] \in WorkerStates /\ [work[w] EXCEPT !.todo = list].todo = list
  BY <1>1 DEF WorkerStates
<1>4. work' \in [Workers -> WorkerStates] /\ work'[w].todo = list
  BY <1>1, <1>2, <1>3
<1>5. \A v \in Workers \ {w} : work'[v] = work[v]
  BY <1>1, <1>2
<1> QED
  BY <1>4, <1>5 DEF Todo, Ahead, Given, Free, ToSet

LEMMA GivenKeep ==
  ASSUME IInv, NEW w \in Workers, NEW list, Given(w, list)
  PROVE  /\ Lists'
         /\ \A s \in Stages : Linked(s)' /\ Told(s)'
<1>1. /\ rows' = rows /\ trail' = trail /\ audited' = audited /\ graph' = graph /\ cut' = cut
      /\ list \in Seq(Ops) /\ Paired(list) /\ Opens(list) /\ Spoken(list)
      /\ \A i \in DOMAIN list : Grounded(list, i)
  BY DEF Given, storeVars
<1>2. /\ Todo(w)' = list /\ Ahead(w)' = ToSet(list) /\ Ahead(w) = {}
      /\ \A v \in Workers \ {w} : work'[v] = work[v] /\ Ahead(v)' = Ahead(v)
  BY GivenIs DEF IInv
<1>3. ASSUME NEW v \in Workers, v # w PROVE Listed(v)' /\ Reasoning(v)' /\ Holding(v)'
  BY <1>1, <1>2, <1>3, OthersStand DEF IInv
<1>4. Listed(w)'
  BY <1>1, <1>2 DEF Listed, Paired, Preceded, Followed, Links, IsSave, IsRecord, Spoken, Later,
     Telling, Mute
<1>5. Reasoning(w)'
  <2>1. ASSUME NEW i \in DOMAIN list PROVE Grounded(list, i)'
    <3>1. Grounded(list, i)
      BY <1>1
    <3> QED
      BY <1>1, <3>1 DEF Grounded, Later, IsRecord, Tells, Gives, Created
  <2>2. Reasoning(w)' <=> \A i \in DOMAIN list : Grounded(list, i)'
    BY <1>2 DEF Reasoning, Grounded, Later, IsRecord, Tells, Gives, Created
  <2> QED
    BY <2>1, <2>2
<1>6. Holding(w)'
  <2>1. CASE list = <<>>
    BY <1>2, <2>1 DEF Holding
  <2>2. CASE list # <<>>
    <3>1. 1 \in DOMAIN list
      BY <1>1, <2>2, Popped
    <3>2. list[1].op = "load" => 2 \in DOMAIN list
      <4>1. 1 + 1 = 2
        OBVIOUS
      <4> QED
        BY <1>1, <3>1, <4>1 DEF Paired, Followed
    <3>3. list[1].op \notin {"save", "aside", "audit"} /\ ~ToLink(list)
      BY <1>1, <2>2, <3>2 DEF Opens, ToLink, Links
    <3>4. Staged(list[1]) /\ Guest(w, list[1].stage) =>
             list[1].op = "load" /\ IsSave(list[2], list[1].stage, "skip")
      BY <2>2 DEF Given
    <3> QED
      BY <1>2, <3>3, <3>4 DEF Holding, ToLink, Links, Skipping, Guest, Staged, IsSave
  <2> QED
    BY <2>1, <2>2
<1>7. ASSUME NEW s \in Stages PROVE Linked(s)'
  BY <1>1 DEF IInv, Store, Linked, Important
<1>8. ASSUME NEW s \in Stages PROVE Told(s)'
  <2>1. LastOf(s)' = LastOf(s) /\ Respliced(s)' = Respliced(s)
    BY <1>1 DEF LastOf, Respliced
  <2>2. \A v \in Workers : \A o \in Ahead(v) : o \in Ahead(v)'
    BY <1>2
  <2>3. Told(s)
    BY DEF IInv, Store
  <2> QED
    BY <1>1, <2>1, <2>2, <2>3 DEF Told, IsRecord
<1> QED
  BY <1>3, <1>4, <1>5, <1>6, <1>7, <1>8 DEF Lists

(* A whole list may be given to anybody. *)
LEMMA WholeGiven ==
  ASSUME NEW list \in WholeLists,
         \A o \in ToSet(list) : o.op = "record" => o.action # "stage_inserted"
  PROVE  /\ list \in Seq(Ops) /\ Paired(list) /\ Opens(list) /\ Spoken(list)
         /\ \A i \in DOMAIN list : Grounded(list, i)
<1>1. list \in Seq(Ops) /\ Paired(list) /\ Opens(list) /\ Spoken(list) /\ Reasoned(list)
  BY DEF WholeLists, Whole
<1>2. \A i \in DOMAIN list : list[i] \in ToSet(list)
  BY DEF ToSet
<1>3. ASSUME NEW i \in DOMAIN list PROVE Grounded(list, i)
  BY <1>1, <1>2 DEF Reasoned, Grounded
<1> QED
  BY <1>1, <1>3

-----------------------------------------------------------------------------
(* What a thread is given *)

ThreadStates == [at : Places, attempt : Nat, fallback : BOOLEAN]
Busy == {"agent", "exit", "again"}

OwnList(s, list) ==
    \A o \in ToSet(list) : Own(s, o) /\ (o.op = "record" => o.action # "stage_inserted")
Attempting(list) ==
    \A o \in ToSet(list) : o.op = "save" => o.change \in {"begin", "retry", "output", "link"}

ThreadGiven(s, list) ==
    /\ Given(s, list)
    /\ Running /\ Free(Runner) /\ th[s].at # "none"
    /\ UNCHANGED <<main, mem, done, layer, torn, calls>>
    /\ th' \in [Stages -> ThreadStates] /\ \A t \in Stages \ {s} : th'[t] = th[t]
    /\ \A o \in ToSet(list) : Own(s, o) \/ (SkipOp(o) /\ o.stage \in DownstreamOf(mem, s))
    /\ th'[s].at \in Busy =>
          /\ rows[s].status \in {"running", "retrying"} \/ \E o \in ToSet(list) : IsSave(o, s, "begin")
          /\ \A o \in ToSet(list) :
                o.op = "save" => o.stage = s /\ o.change \in {"begin", "retry", "output", "link"}

LEMMA ThreadIsGiven ==
  ASSUME IInv, NEW s \in Stages, NEW list, NEW place \in Places \ {"none"}, At(s, place), Do(s, list),
         UNCHANGED <<storeVars, main, mem, done, layer, cut, torn, calls>>,
         NEW next \in ThreadStates, th' = [th EXCEPT ![s] = next],
         list \in Seq(Ops), Paired(list), Opens(list), Spoken(list),
         \A i \in DOMAIN list : Grounded(list, i), OwnList(s, list),
         next.at \in Busy =>
            /\ rows[s].status \in {"running", "retrying"}
               \/ \E o \in ToSet(list) : IsSave(o, s, "begin")
            /\ Attempting(list)
  PROVE  ThreadGiven(s, list)
<1>1. list # <<>> => list[1] \in ToSet(list)
  BY Popped DEF ToSet
<1>2. list # <<>> => list[1].stage = s
  BY <1>1 DEF OwnList, Own
<1>3. Given(s, list)
  BY <1>2 DEF Given, At, Do, Guest, storeVars
<1>4. th \in [Stages -> ThreadStates]
  BY DEF IInv, Typed, ThreadStates
<1>5. th' \in [Stages -> ThreadStates] /\ th'[s] = next /\ \A t \in Stages \ {s} : th'[t] = th[t]
  BY <1>4
<1>6. Running /\ Free(Runner) /\ th[s].at # "none"
  BY DEF At, Running
<1>7. \A o \in ToSet(list) : Own(s, o) /\ (o.op = "save" => o.stage = s)
  BY DEF OwnList, Own
<1> QED
  BY <1>3, <1>5, <1>6, <1>7 DEF ThreadGiven, Attempting

(* A whole list of the thread's own. *)
LEMMA ThreadIsGivenWhole ==
  ASSUME IInv, NEW s \in Stages, NEW list \in WholeLists, OwnList(s, list),
         NEW place \in Places \ {"none"}, At(s, place), Do(s, list),
         UNCHANGED <<storeVars, main, mem, done, layer, cut, torn, calls>>,
         NEW next \in ThreadStates, th' = [th EXCEPT ![s] = next],
         next.at \in Busy =>
            /\ rows[s].status \in {"running", "retrying"}
               \/ \E o \in ToSet(list) : IsSave(o, s, "begin")
            /\ Attempting(list)
  PROVE  ThreadGiven(s, list)
<1>1. /\ list \in Seq(Ops) /\ Paired(list) /\ Opens(list) /\ Spoken(list)
      /\ \A i \in DOMAIN list : Grounded(list, i)
  BY WholeGiven DEF OwnList
<1> QED
  BY <1>1, ThreadIsGiven

(* A save, and the decision that tells it. *)
LEMMA SaidOwn ==
  ASSUME NEW s \in Stages, NEW change \in Changes \ {"link"}, NEW n \in Nat,
         NEW action \in Actions \ {"stage_inserted"}, Tells(Save(s, change, n), action),
         action = "stage_skipped" => change = "skip"
  PROVE  LET L == Update(s, change, n) \o Log(s, action) IN
         /\ L \in WholeLists /\ OwnList(s, L) /\ Later(L, 0, s)
         /\ \E o \in ToSet(L) : IsSave(o, s, change)
         /\ change \in {"begin", "retry", "output"} => Attempting(L)
<1> DEFINE L == Update(s, change, n) \o Log(s, action)
<1>1. /\ L \in WholeLists /\ Later(L, 0, s)
      /\ ToSet(L) = {Load(s), Save(s, change, n), Record(s, action, "executor"),
                     Save(s, "link", 0), Audit(s)}
  BY SaidWhole
<1> HIDE DEF L
<1> QED
  BY <1>1 DEF OwnList, Own, Attempting, IsSave, Load, Save, Record, Audit, L

LEMMA FailOwn ==
  ASSUME NEW s \in Stages, NEW n \in Nat
  PROVE  Fail(s, n) \in WholeLists /\ OwnList(s, Fail(s, n)) /\ Later(Fail(s, n), 0, s)
<1>1. Tells(Save(s, "fail", n), "stage_failed")
  BY DEF Tells, Save, Gives, Explained
<1> QED
  BY <1>1, SaidOwn DEF Fail, Changes, Actions

LEMMA LogThenOwn ==
  ASSUME NEW s \in Stages, NEW action \in Actions \ {"stage_skipped", "stage_inserted"},
         NEW y \in WholeLists, Later(y, 0, s), OwnList(s, y)
  PROVE  LET L == Log(s, action) \o y IN
         /\ L \in WholeLists /\ OwnList(s, L)
         /\ \A o \in ToSet(y) : o \in ToSet(L)
         /\ Attempting(y) => Attempting(L)
<1> DEFINE L == Log(s, action) \o y
<1>1. /\ L \in WholeLists
      /\ ToSet(L) = {Record(s, action, "executor"), Load(s), Save(s, "link", 0), Audit(s)}
                    \cup ToSet(y)
  BY LogThen
<1> HIDE DEF L
<1>2. OwnList(s, L) /\ (Attempting(y) => Attempting(L))
  BY <1>1 DEF OwnList, Own, Attempting, Load, Save, Record, Audit
<1> QED
  BY <1>1, <1>2 DEF L

(* A stage that a thread is at has a row. *)
Rowed == \A s \in Stages : th[s].at # "none" => rows[s] # NoRow

(* A thread at work finds its row as it left it. *)
LEMMA AtWorkIs ==
  ASSUME IInv, NEW s \in Stages, NEW place \in Busy, At(s, place)
  PROVE  rows[s].status \in {"running", "retrying"}
<1>1. AtWork(s) /\ Running
  BY DEF IInv, Store, At, Running
<1>2. \A o \in Ahead(s) : FALSE
  BY AheadIs DEF At
<1> QED
  BY <1>1, <1>2 DEF AtWork, At, Busy

(* The list of an attempt. *)
LEMMA BeginOwn ==
  ASSUME NEW s \in Stages, NEW n \in Nat
  PROVE  LET L == Update(s, "begin", n) \o Log(s, "attempt_started") IN
         /\ L \in WholeLists /\ OwnList(s, L) /\ Later(L, 0, s) /\ Attempting(L)
         /\ \E o \in ToSet(L) : IsSave(o, s, "begin")
<1>1. Tells(Save(s, "begin", n), "attempt_started")
  BY DEF Tells, Save, Gives, Explained
<1> QED
  BY <1>1, SaidOwn DEF Changes, Actions

LEMMA EnterIs ==
  ASSUME IInv, Rowed, NEW s \in Stages, Enter(s)
  PROVE  \E list : ThreadGiven(s, list)
<1> DEFINE n == AttemptsSoFar(rows[s]) + 1
           list == Update(s, "begin", n) \o Log(s, "attempt_started")
           next == [th[s] EXCEPT !.at = "agent", !.attempt = n]
<1>1. th[s] \in ThreadStates /\ rows[s] \in Rows
  BY DEF IInv, Typed, ThreadStates, Rowed, Enter, At
<1>2. n \in Nat
  BY <1>1 DEF AttemptsSoFar, Rows
<1>3. /\ At(s, "entry") /\ Do(s, list) /\ th' = [th EXCEPT ![s] = next]
      /\ UNCHANGED <<storeVars, main, mem, done, layer, cut, torn, calls>>
  BY DEF Enter
<1> HIDE DEF n
<1>4. next \in ThreadStates
  BY <1>1, <1>2 DEF ThreadStates, Places
<1>5. /\ list \in WholeLists /\ OwnList(s, list) /\ Attempting(list)
      /\ \E o \in ToSet(list) : IsSave(o, s, "begin")
  BY <1>2, BeginOwn
<1> HIDE DEF list, next
<1>6. ThreadGiven(s, list)
  BY <1>3, <1>4, <1>5, ThreadIsGivenWhole DEF Places
<1> QED
  BY <1>6

LEMMA StartThreadIs ==
  ASSUME IInv, NEW s \in Stages, StartThread(s)
  PROVE  \E list : ThreadGiven(s, list)
<1> DEFINE place == IF Waits(rows[s]) THEN "recheck" ELSE "entry"
           next == [th[s] EXCEPT !.at = place]
<1>1. /\ At(s, "start") /\ Do(s, <<>>) /\ th' = [th EXCEPT ![s] = next]
      /\ UNCHANGED <<storeVars, main, mem, done, layer, cut, torn, calls>>
  BY DEF StartThread, Proceed
<1>2. next \in ThreadStates /\ next.at \notin Busy
  BY ZenonT(60) DEF IInv, Typed, ThreadStates, Places, Busy
<1>3. <<>> \in WholeLists /\ OwnList(s, <<>>)
  BY EmptyWhole DEF OwnList
<1> HIDE DEF next
<1>4. ThreadGiven(s, <<>>)
  BY <1>1, <1>2, <1>3, ThreadIsGivenWhole DEF Places
<1> QED
  BY <1>4

LEMMA BlocksIs ==
  ASSUME IInv, NEW s \in Stages, EntryBlocks(s) \/ ExitBlocks(s) \/ ExitPasses(s)
  PROVE  \E list : ThreadGiven(s, list)
<1>1. NoThread \in ThreadStates /\ NoThread.at \notin Busy
  BY DEF NoThread, ThreadStates, Places, Busy
<1>2. \E list \in WholeLists, place \in Places \ {"none"} :
         OwnList(s, list) /\ At(s, place) /\ Quit(s, list)
  <2>1. CASE EntryBlocks(s)
    <3> DEFINE list == Update(s, "block", 0) \o Log(s, "entry_gate_blocked")
    <3>1. Tells(Save(s, "block", 0), "entry_gate_blocked")
      BY DEF Tells, Save, Gives, Explained
    <3>2. list \in WholeLists /\ OwnList(s, list)
      BY <3>1, SaidOwn DEF Changes, Actions
    <3>3. At(s, "entry") /\ Quit(s, list)
      BY <2>1 DEF EntryBlocks
    <3> HIDE DEF list
    <3> QED
      BY <3>2, <3>3 DEF Places
  <2>2. CASE ExitPasses(s)
    <3> DEFINE list == Update(s, "pass", 0) \o Log(s, "stage_passed")
    <3>1. Tells(Save(s, "pass", 0), "stage_passed")
      BY DEF Tells, Save, Gives, Explained
    <3>2. list \in WholeLists /\ OwnList(s, list)
      BY <3>1, SaidOwn DEF Changes, Actions
    <3>3. (At(s, "exit") \/ At(s, "recheck")) /\ Quit(s, list)
      BY <2>2 DEF ExitPasses
    <3> HIDE DEF list
    <3> QED
      BY <3>2, <3>3 DEF Places
  <2>3. CASE At(s, "exit") /\ Quit(s, Update(s, "block", 0) \o Log(s, "exit_gate_blocked"))
    <3> DEFINE list == Update(s, "block", 0) \o Log(s, "exit_gate_blocked")
    <3>1. Tells(Save(s, "block", 0), "exit_gate_blocked")
      BY DEF Tells, Save, Gives, Explained
    <3>2. list \in WholeLists /\ OwnList(s, list)
      BY <3>1, SaidOwn DEF Changes, Actions
    <3>3. At(s, "exit") /\ Quit(s, list)
      BY <2>3
    <3> HIDE DEF list
    <3> QED
      BY <3>2, <3>3 DEF Places
  <2>4. CASE At(s, "recheck") /\ Quit(s, <<>>)
    BY <2>4, EmptyWhole DEF OwnList, Places
  <2> QED
    BY <2>1, <2>2, <2>3, <2>4 DEF ExitBlocks
<1>3. PICK list \in WholeLists, place \in Places \ {"none"} :
         OwnList(s, list) /\ At(s, place) /\ Quit(s, list)
  BY <1>2
<1>4. /\ Do(s, list) /\ th' = [th EXCEPT ![s] = NoThread]
      /\ UNCHANGED <<storeVars, main, mem, done, layer, cut, torn, calls>>
  BY <1>3 DEF Quit
<1>5. ThreadGiven(s, list)
  BY <1>1, <1>3, <1>4, ThreadIsGivenWhole
<1> QED
  BY <1>5

LEMMA RejectsIs ==
  ASSUME IInv, NEW s \in Stages,
         \/ EntryRejects(s) \/ GiveUp(s)
         \/ At(s, "recheck") /\ Proceed(s, "propagate", Log(s, "exit_gate_failed") \o Fail(s, 0))
  PROVE  \E list : ThreadGiven(s, list)
<1> DEFINE next == [th[s] EXCEPT !.at = "propagate"]
<1>1. th[s] \in ThreadStates
  BY DEF IInv, Typed, ThreadStates
<1>2. next \in ThreadStates /\ next.at \notin Busy
  BY <1>1 DEF ThreadStates, Places, Busy
<1>3. \E list \in WholeLists, place \in Places \ {"none"} :
         OwnList(s, list) /\ At(s, place) /\ Proceed(s, "propagate", list)
  <2>1. CASE EntryRejects(s)
    <3> DEFINE list == Log(s, "entry_gate_rejected") \o Fail(s, 0)
    <3>1. list \in WholeLists /\ OwnList(s, list)
      BY FailOwn, LogThenOwn DEF Actions
    <3>2. At(s, "entry") /\ Proceed(s, "propagate", list)
      BY <2>1 DEF EntryRejects
    <3> HIDE DEF list
    <3> QED
      BY <3>1, <3>2 DEF Places
  <2>2. CASE GiveUp(s)
    <3> DEFINE list == Fail(s, th[s].attempt)
    <3>1. list \in WholeLists /\ OwnList(s, list)
      BY <1>1, FailOwn DEF ThreadStates
    <3>2. At(s, "again") /\ Proceed(s, "propagate", list)
      BY <2>2 DEF GiveUp
    <3> HIDE DEF list
    <3> QED
      BY <3>1, <3>2 DEF Places
  <2>3. CASE At(s, "recheck") /\ Proceed(s, "propagate", Log(s, "exit_gate_failed") \o Fail(s, 0))
    <3> DEFINE list == Log(s, "exit_gate_failed") \o Fail(s, 0)
    <3>1. list \in WholeLists /\ OwnList(s, list)
      BY FailOwn, LogThenOwn DEF Actions
    <3>2. At(s, "recheck") /\ Proceed(s, "propagate", list)
      BY <2>3
    <3> HIDE DEF list
    <3> QED
      BY <3>1, <3>2 DEF Places
  <2> QED
    BY <2>1, <2>2, <2>3
<1>4. PICK list \in WholeLists, place \in Places \ {"none"} :
         OwnList(s, list) /\ At(s, place) /\ Proceed(s, "propagate", list)
  BY <1>3
<1>5. /\ Do(s, list) /\ th' = [th EXCEPT ![s] = next]
      /\ UNCHANGED <<storeVars, main, mem, done, layer, cut, torn, calls>>
  BY <1>4 DEF Proceed
<1> HIDE DEF next
<1>6. ThreadGiven(s, list)
  BY <1>2, <1>4, <1>5, ThreadIsGivenWhole
<1> QED
  BY <1>6

(* A decision about an attempt that is under way. *)
LEMMA FailingIs ==
  ASSUME IInv, NEW s \in Stages, NEW place \in Busy, At(s, place),
         NEW action \in {"attempt_failed", "exit_gate_failed"},
         Proceed(s, "again", Log(s, action))
  PROVE  \E list : ThreadGiven(s, list)
<1> DEFINE next == [th[s] EXCEPT !.at = "again"]
           list == Log(s, action)
<1>0. th[s] \in ThreadStates
  BY DEF IInv, Typed, ThreadStates
<1>1. next \in ThreadStates
  BY <1>0 DEF ThreadStates, Places
<1>2. rows[s].status \in Explained(action) /\ rows[s].status \in {"running", "retrying"}
  BY AtWorkIs DEF Explained
<1>3. /\ list \in Seq(Ops) /\ Len(list) = 4 /\ DOMAIN list = 1 .. 4
      /\ list[1] = Record(s, action, "executor") /\ list[2] = Load(s)
      /\ list[3] = Save(s, "link", 0) /\ list[4] = Audit(s)
      /\ Paired(list) /\ Spoken(list) /\ Opens(list)
  BY LogShape DEF Actions
<1>4. /\ Do(s, list) /\ th' = [th EXCEPT ![s] = next]
      /\ UNCHANGED <<storeVars, main, mem, done, layer, cut, torn, calls>>
  BY DEF Proceed
<1> HIDE DEF list, next
<1>5. \A i \in DOMAIN list : Grounded(list, i)
  BY <1>2, <1>3 DEF Grounded, Record, Load, Save, Audit
<1>6. OwnList(s, list) /\ Attempting(list)
  <2>1. \A o \in ToSet(list) : o \in {Record(s, action, "executor"), Load(s), Save(s, "link", 0), Audit(s)}
    BY <1>3 DEF ToSet
  <2> QED
    BY <2>1 DEF OwnList, Own, Attempting, Record, Load, Save, Audit
<1>7. ThreadGiven(s, list)
  BY <1>1, <1>2, <1>3, <1>4, <1>5, <1>6, ThreadIsGiven DEF Busy, Places
<1> QED
  BY <1>7

LEMMA SucceedsIs ==
  ASSUME IInv, NEW s \in Stages, AgentSucceeds(s)
  PROVE  \E list : ThreadGiven(s, list)
<1> DEFINE next == [th[s] EXCEPT !.at = "exit"]
           list == Update(s, "output", 0)
<1>0. th[s] \in ThreadStates
  BY DEF IInv, Typed, ThreadStates
<1>1. next \in ThreadStates
  BY <1>0 DEF ThreadStates, Places
<1>2. At(s, "agent") /\ rows[s].status \in {"running", "retrying"}
  BY AtWorkIs DEF AgentSucceeds, Busy
<1>3. list \in WholeLists /\ ToSet(list) = {Load(s), Save(s, "output", 0)}
  BY OutputWhole
<1>4. /\ Do(s, list) /\ th' = [th EXCEPT ![s] = next]
      /\ UNCHANGED <<storeVars, main, mem, done, layer, cut, torn, calls>>
  BY DEF Proceed, AgentSucceeds
<1> HIDE DEF list, next
<1>5. OwnList(s, list) /\ Attempting(list)
  BY <1>3 DEF OwnList, Own, Attempting, Load, Save
<1>6. ThreadGiven(s, list)
  BY <1>1, <1>2, <1>3, <1>4, <1>5, ThreadIsGivenWhole DEF Places
<1> QED
  BY <1>6

LEMMA TryAgainIs ==
  ASSUME IInv, NEW s \in Stages, TryAgain(s)
  PROVE  \E list : ThreadGiven(s, list)
<1> DEFINE n == th[s].attempt
           begin == Update(s, "begin", n + 1) \o Log(s, "attempt_started")
           next == [th[s] EXCEPT !.at = "agent", !.attempt = n + 1]
<1>1. th[s] \in ThreadStates
  BY DEF IInv, Typed, ThreadStates
<1>2. n \in Nat /\ n + 1 \in Nat
  BY <1>1 DEF ThreadStates
<1>3. next \in ThreadStates /\ [next EXCEPT !.fallback = TRUE] \in ThreadStates
  BY <1>1, <1>2 DEF ThreadStates, Places
<1>4. /\ begin \in WholeLists /\ OwnList(s, begin) /\ Later(begin, 0, s) /\ Attempting(begin)
      /\ \E o \in ToSet(begin) : IsSave(o, s, "begin")
  BY <1>2, BeginOwn
<1>5. /\ At(s, "again") /\ UNCHANGED <<storeVars, main, mem, done, layer, cut, torn, calls>>
      /\ \/ Do(s, Update(s, "retry", n) \o begin) /\ th' = [th EXCEPT ![s] = next]
         \/ Do(s, Log(s, "fallback_invoked") \o begin)
            /\ th' = [th EXCEPT ![s] = [next EXCEPT !.fallback = TRUE]]
  BY DEF TryAgain
<1> HIDE DEF n, begin
<1>6. \E list \in WholeLists, after \in ThreadStates :
         /\ OwnList(s, list) /\ Attempting(list) /\ Do(s, list) /\ th' = [th EXCEPT ![s] = after]
         /\ \E o \in ToSet(list) : IsSave(o, s, "begin")
  <2>1. CASE Do(s, Update(s, "retry", n) \o begin) /\ th' = [th EXCEPT ![s] = next]
    <3> DEFINE list == Update(s, "retry", n) \o begin
    <3>1. /\ list \in WholeLists /\ ToSet(list) = {Load(s), Save(s, "retry", n)} \cup ToSet(begin)
      BY <1>2, <1>4, UpdateThen DEF Changes
    <3>2. Do(s, list)
      BY <2>1
    <3> HIDE DEF list
    <3>3. OwnList(s, list) /\ Attempting(list) /\ \E o \in ToSet(list) : IsSave(o, s, "begin")
      BY <1>4, <3>1 DEF OwnList, Own, Attempting, Load, Save
    <3> QED
      BY <1>3, <2>1, <3>1, <3>2, <3>3
  <2>2. CASE /\ Do(s, Log(s, "fallback_invoked") \o begin)
             /\ th' = [th EXCEPT ![s] = [next EXCEPT !.fallback = TRUE]]
    <3> DEFINE list == Log(s, "fallback_invoked") \o begin
    <3>1. /\ list \in WholeLists /\ OwnList(s, list) /\ Attempting(list)
          /\ \A o \in ToSet(begin) : o \in ToSet(list)
      BY <1>4, LogThenOwn DEF Actions
    <3>2. Do(s, list)
      BY <2>2
    <3> HIDE DEF list
    <3> QED
      BY <1>3, <1>4, <2>2, <3>1, <3>2
  <2> QED
    BY <1>5, <2>1, <2>2
<1>7. PICK list \in WholeLists, after \in ThreadStates :
         /\ OwnList(s, list) /\ Attempting(list) /\ Do(s, list) /\ th' = [th EXCEPT ![s] = after]
         /\ \E o \in ToSet(list) : IsSave(o, s, "begin")
  BY <1>6
<1>8. ThreadGiven(s, list)
  BY <1>5, <1>7, ThreadIsGivenWhole DEF Places
<1> QED
  BY <1>8

(* The skips of a failure, or of a layer. *)
LEMMA SkipsGiven ==
  ASSUME NEW T \in SUBSET Stages
  PROVE  LET L == ForAll(T, Skip) IN
         /\ L \in WholeLists
         /\ \A o \in ToSet(L) : SkipOp(o) /\ o.stage \in T
         /\ L # <<>> => L[1].op = "load" /\ IsSave(L[2], L[1].stage, "skip")
<1> DEFINE L == ForAll(T, Skip)
<1>1. L \in WholeLists /\ \A o \in ToSet(L) : \E s \in T : o \in ToSet(Skip(s))
  BY SkipsWhole
<1> HIDE DEF L
<1>2. \A o \in ToSet(L) : \E s \in T :
         o \in {Load(s), Save(s, "skip", 0), Record(s, "stage_skipped", "executor"),
                Save(s, "link", 0), Audit(s)}
  BY <1>1, SkipWhole
<1>3. \A o \in ToSet(L) : SkipOp(o) /\ o.stage \in T
  BY <1>2 DEF SkipOp, Load, Save, Record, Audit
<1>4. L # <<>> => L[1].op = "load" /\ IsSave(L[2], L[1].stage, "skip")
  <2> SUFFICES ASSUME L # <<>> PROVE L[1].op = "load" /\ IsSave(L[2], L[1].stage, "skip")
    OBVIOUS
  <2>1. Opens(L) /\ Paired(L) /\ L \in Seq(Ops)
    BY <1>1 DEF WholeLists, Whole
  <2>2. 1 \in DOMAIN L /\ L[1] \in ToSet(L)
    BY <2>1, Popped DEF ToSet
  <2>3. L[1].op = "load"
    BY <1>3, <2>1, <2>2 DEF Opens, SkipOp
  <2>4. 1 + 1 \in DOMAIN L /\ L[1 + 1].op \in {"save", "aside"} /\ L[1 + 1].stage = L[1].stage
    BY <2>1, <2>2, <2>3 DEF Paired, Followed
  <2>5. 1 + 1 = 2
    OBVIOUS
  <2>6. L[2] \in ToSet(L) /\ ~Links(L[2])
    BY <2>1, <2>4, <2>5 DEF ToSet, Opens
  <2> QED
    BY <1>3, <2>3, <2>4, <2>5, <2>6 DEF SkipOp, Links, IsSave
<1> QED
  BY <1>1, <1>3, <1>4 DEF L

LEMMA PropagateIs ==
  ASSUME IInv, NEW s \in Stages, Propagate(s)
  PROVE  \E list : ThreadGiven(s, list)
<1> DEFINE T == {d \in DownstreamOf(mem, s) : rows[d].status \notin Terminal}
           list == ForAll(T, Skip)
<1>1. T \in SUBSET Stages
  <2>1. DownstreamOf(mem, s) \subseteq mem.nodes
    BY DEF DownstreamOf
  <2> QED
    BY <2>1 DEF IInv, Typed, Graphs
<1>2. /\ At(s, "propagate") /\ Do(s, list) /\ th' = [th EXCEPT ![s] = NoThread]
      /\ UNCHANGED <<storeVars, main, mem, done, layer, cut, torn, calls>>
  BY DEF Propagate, Quit
<1>3. T \subseteq DownstreamOf(mem, s)
  OBVIOUS
<1> HIDE DEF T
<1>4. /\ list \in WholeLists /\ \A o \in ToSet(list) : SkipOp(o) /\ o.stage \in T
      /\ list # <<>> => list[1].op = "load" /\ IsSave(list[2], list[1].stage, "skip")
  BY <1>1, SkipsGiven
<1> HIDE DEF list
<1>5. Given(s, list)
  <2>1. \A o \in ToSet(list) : o.op = "record" => o.action # "stage_inserted"
    BY <1>4 DEF SkipOp
  <2>2. /\ list \in Seq(Ops) /\ Paired(list) /\ Opens(list) /\ Spoken(list)
        /\ \A i \in DOMAIN list : Grounded(list, i)
    BY <1>4, <2>1, WholeGiven
  <2> QED
    BY <1>2, <1>4, <2>2 DEF Given, At, Do, storeVars
<1>6. NoThread \in ThreadStates /\ NoThread.at \notin Busy /\ th \in [Stages -> ThreadStates]
  BY DEF NoThread, ThreadStates, Places, Busy, IInv, Typed
<1>7. ThreadGiven(s, list)
  BY <1>2, <1>3, <1>4, <1>5, <1>6 DEF ThreadGiven, At, Running
<1> QED
  BY <1>7

LEMMA ThreadStepIs ==
  ASSUME IInv, Rowed, NEW s \in Stages, ThreadStep(s)
  PROVE  \E list : ThreadGiven(s, list)
<1>1. CASE AgentFails(s)
  BY <1>1, FailingIs DEF AgentFails, Busy
<1>2. CASE ExitFails(s)
  <2>1. CASE At(s, "exit") /\ Proceed(s, "again", Log(s, "exit_gate_failed"))
    BY <2>1, FailingIs DEF Busy
  <2>2. CASE /\ At(s, "recheck")
             /\ Proceed(s, "propagate", Log(s, "exit_gate_failed") \o Fail(s, 0))
    BY <2>2, RejectsIs
  <2> QED
    BY <1>2, <2>1, <2>2 DEF ExitFails
<1> QED
  BY <1>1, <1>2, EnterIs, StartThreadIs, BlocksIs, RejectsIs, SucceedsIs, TryAgainIs, PropagateIs
     DEF ThreadStep

-----------------------------------------------------------------------------
(* The steps of the threads keep the invariant *)

LEMMA ThreadStepKeeps ==
  ASSUME IInv, Rowed, NEW s \in Stages, ThreadStep(s)
  PROVE  IInv' /\ Rowed'
<1>1. PICK list : ThreadGiven(s, list)
  BY ThreadStepIs
<1>2. /\ Given(s, list) /\ s \in Workers /\ s # Runner
      /\ Running /\ Free(Runner) /\ th[s].at # "none"
      /\ status' = status /\ graph' = graph /\ rows' = rows /\ trail' = trail /\ audited' = audited
      /\ cut' = cut /\ main' = main /\ mem' = mem /\ done' = done /\ layer' = layer /\ torn' = torn
      /\ th' \in [Stages -> ThreadStates] /\ \A t \in Stages \ {s} : th'[t] = th[t]
  BY <1>1, LineageAssumption DEF ThreadGiven, Given, storeVars, Workers
<1>3. /\ Todo(s)' = list /\ Ahead(s)' = ToSet(list) /\ Ahead(s) = {}
      /\ \A v \in Workers \ {s} : work'[v] = work[v] /\ Ahead(v)' = Ahead(v)
      /\ work' \in [Workers -> WorkerStates]
  BY <1>2, GivenIs DEF IInv
<1>4. Lists' /\ \A t \in Stages : Linked(t)' /\ Told(t)'
  BY <1>2, GivenKeep
<1>5. ASSUME NEW t \in Stages PROVE AtWork(t)'
  <2>1. CASE t = s
    <3>1. th'[s].at \in Busy =>
            /\ rows[s].status \in {"running", "retrying"} \/ \E o \in ToSet(list) : IsSave(o, s, "begin")
            /\ \A o \in ToSet(list) :
                  o.op = "save" => o.stage = s /\ o.change \in {"begin", "retry", "output", "link"}
      BY <1>1 DEF ThreadGiven
    <3> QED
      BY <1>2, <1>3, <2>1, <3>1 DEF AtWork, Busy, IsSave
  <2>2. CASE t # s
    <3>1. AtWork(t) /\ th'[t] = th[t] /\ Ahead(t)' = Ahead(t) /\ (Running' <=> Running)
      BY <1>2, <1>3, <2>2 DEF IInv, Store, Workers, Running
    <3> QED
      BY <1>2, <3>1 DEF AtWork, IsSave
  <2> QED
    BY <2>1, <2>2
<1>6. Typed'
  BY <1>2, <1>3 DEF IInv, Typed, WorkerStates, ThreadStates
<1>7. Phase'
  <2>1. Phase /\ (Running' <=> Running) /\ s \in layer
    BY <1>2 DEF IInv, Order, Phase, Running
  <2>2. \A v \in Workers \ {s} : Free(v)' = Free(v)
    BY <1>3 DEF Free
  <2>3. Free(Runner)' /\ Running'
    BY <1>2, <2>1, <2>2 DEF Workers
  <2>4. ASSUME NEW t \in Stages, th'[t].at # "none" \/ ~Free(t)' PROVE t \in layer'
    BY <1>2, <2>1, <2>2, <2>4 DEF Phase, Workers
  <2>5. ASSUME NEW t \in Stages, NEW o \in Ahead(t)'
        PROVE  Own(t, o) \/ (SkipOp(o) /\ o.stage \in DownstreamOf(mem', t))
    <3>1. CASE t = s
      BY <1>1, <1>2, <1>3, <2>5, <3>1 DEF ThreadGiven
    <3>2. CASE t # s
      BY <1>2, <1>3, <2>1, <2>5, <3>2 DEF Phase, Workers
    <3> QED
      BY <3>1, <3>2
  <2> QED
    BY <2>3, <2>4, <2>5 DEF Phase, Own, SkipOp
<1>8. Walk'
  BY <1>2 DEF IInv, Order, Walk, Running
<1>9. Grown' /\ Inserting'
  <2>1. Ahead(Runner)' = Ahead(Runner)
    BY <1>2, <1>3 DEF Workers
  <2> QED
    BY <1>2, <2>1 DEF IInv, Grown, Grows, Inserting, Respliced
<1>10. Rowed'
  BY <1>2 DEF Rowed
<1> QED
  BY <1>4, <1>5, <1>6, <1>7, <1>8, <1>9, <1>10 DEF IInv, Order, Store

-----------------------------------------------------------------------------
(* What the runner is given *)

Mains == [at : {"idle", "layer", "join", "raised"}, target : SUBSET Stages]

RunnerGiven(list) ==
    /\ Given(Runner, list)
    /\ \A s \in Stages : Free(s)
    /\ torn' = torn /\ main' \in Mains /\ mem' \in Graphs
    /\ done' \in SUBSET Stages /\ layer' \in SUBSET Stages
    /\ th' \in [Stages -> ThreadStates]
    /\ \A s \in Stages : th'[s].at # "none" => rows[s] # NoRow
    /\ Running' => \A s \in Stages : th'[s].at \in {"none", "start"} /\ (th'[s].at # "none" => s \in layer')
    /\ Walk'

LEMMA RunnerStepKeeps ==
  ASSUME IInv, NEW list, RunnerGiven(list)
  PROVE  /\ Typed' /\ Order' /\ Lists' /\ Store' /\ Grown' /\ Rowed'
         /\ Ahead(Runner)' = ToSet(list)
         /\ rows' = rows /\ graph' = graph
<1>1. /\ Given(Runner, list) /\ Runner \in Workers /\ Runner \notin Stages /\ Free(Runner)
      /\ status' = status /\ graph' = graph /\ rows' = rows /\ trail' = trail /\ audited' = audited
      /\ cut' = cut /\ torn' = torn /\ main' \in Mains /\ mem' \in Graphs
      /\ done' \in SUBSET Stages /\ layer' \in SUBSET Stages /\ th' \in [Stages -> ThreadStates]
      /\ \A s \in Stages : Free(s)
  BY LineageAssumption DEF RunnerGiven, Given, storeVars, Workers
<1>2. /\ Todo(Runner)' = list /\ Ahead(Runner)' = ToSet(list)
      /\ \A v \in Workers \ {Runner} : work'[v] = work[v] /\ Ahead(v)' = Ahead(v)
      /\ work' \in [Workers -> WorkerStates]
  BY <1>1, GivenIs DEF IInv
<1>3. Lists' /\ \A t \in Stages : Linked(t)' /\ Told(t)'
  BY <1>1, GivenKeep
<1>4. /\ \A s \in Stages : s \in Workers \ {Runner} /\ Ahead(s)' = Ahead(s) /\ work'[s] = work[s]
      /\ Running' => \A s \in Stages : th'[s].at \in {"none", "start"} /\ (th'[s].at # "none" => s \in layer')
  BY <1>1, <1>2 DEF Workers, RunnerGiven
<1>5. ASSUME NEW t \in Stages PROVE AtWork(t)'
  BY <1>4 DEF AtWork
<1>6. Typed'
  BY <1>1, <1>2 DEF IInv, Typed, WorkerStates, ThreadStates, Mains
<1>7. \A s \in Stages : Free(s)' /\ Ahead(s)' = {}
  <2>1. ASSUME NEW s \in Stages PROVE Free(s)'
    BY <1>1, <1>4 DEF Free
  <2>2. ASSUME NEW s \in Stages PROVE Ahead(s) = {}
    BY <1>1, AheadIs
  <2> QED
    BY <1>4, <2>1, <2>2
<1>8. Phase'
  BY <1>4, <1>7 DEF Phase, Own, SkipOp
<1>9. Walk' /\ Rowed' /\ Grown'
  BY <1>1 DEF RunnerGiven, IInv, Grown, Grows, Rowed
<1> QED
  BY <1>1, <1>2, <1>3, <1>5, <1>6, <1>8, <1>9 DEF Order, Store

(* A list that begins no insertion. *)
LEMMA RunnerKeeps ==
  ASSUME IInv, NEW list \in WholeLists, RunnerGiven(list),
         \A o \in ToSet(list) : o.op = "aside" => o.log # <<>>
  PROVE  IInv' /\ Rowed'
<1>1. Plain(list)
  BY DEF WholeLists, Whole
<1>2. \A o \in ToSet(list) : o.op \notin {"graph", "create"}
  BY <1>1 DEF Plain, ToSet
<1>3. Ahead(Runner)' = ToSet(list)
  BY RunnerStepKeeps
<1>4. Inserting'
  BY <1>2, <1>3 DEF Inserting
<1> QED
  BY <1>4, RunnerStepKeeps DEF IInv

(* What is done with the lists of the steps of run(). *)
LEMMA StatusGiven ==
  ASSUME NEW to \in RunStatuses, NEW closes \in SUBSET Stages,
         NEW list, list = <<SetStatus(to, closes)>>
  PROVE  list \in WholeLists /\ \A o \in ToSet(list) : o.op = "status"
<1> DEFINE one == <<SetStatus(to, closes)>>
<1>1. SetStatus(to, closes).op = "status"
  BY DEF SetStatus
<1>2. one \in WholeLists /\ ToSet(one) = {SetStatus(to, closes)}
  BY StatusWhole
<1>3. list = one
  OBVIOUS
<1> HIDE DEF one
<1> QED
  BY <1>1, <1>2, <1>3

RunList(list) ==
    /\ list \in WholeLists
    /\ \/ \A o \in ToSet(list) : SkipOp(o)
       \/ \E to \in RunStatuses : list = <<SetStatus(to, {})>>
RunGives(list) == RunList(list) /\ RunnerGiven(list) /\ mem' \in {mem, graph}

LEMMA RunListIs ==
  ASSUME NEW list, RunList(list)
  PROVE  \A o \in ToSet(list) :
            (o.op = "record" => o.action # "stage_inserted") /\ o.op # "aside"
<1>1. CASE \A o \in ToSet(list) : SkipOp(o)
  BY <1>1 DEF SkipOp
<1>2. CASE \E to \in RunStatuses : list = <<SetStatus(to, {})>>
  BY <1>2, StatusGiven
<1> QED
  BY <1>1, <1>2 DEF RunList

LEMMA ReturnGives ==
  ASSUME IInv, Rowed, NEW list, RunList(list),
         ReturnWith(list), Free(Runner), \A s \in Stages : Free(s),
         UNCHANGED <<storeVars, th, mem, cut, torn>>
  PROVE  RunGives(list)
<1>1. /\ main' = [at |-> "idle", target |-> {}] /\ layer' = {} /\ done' = {}
      /\ work' = [work EXCEPT ![Runner].todo = list]
  BY DEF ReturnWith, Do
<1>2. main'.at = "idle" /\ main' \in Mains /\ ~Running' /\ Walk'
  BY <1>1 DEF Mains, Running, Walk
<1>3. list \in WholeLists
      /\ \A o \in ToSet(list) : (o.op = "record" => o.action # "stage_inserted") /\ o.op # "aside"
  BY RunListIs DEF RunList
<1>4. /\ list \in Seq(Ops) /\ Paired(list) /\ Opens(list) /\ Spoken(list)
      /\ \A i \in DOMAIN list : Grounded(list, i)
  BY <1>3, WholeGiven
<1>5. Given(Runner, list)
  BY <1>1, <1>4, LineageAssumption DEF Given, Guest, storeVars
<1>6. RunnerGiven(list)
  BY <1>1, <1>2, <1>5 DEF RunnerGiven, IInv, Typed, Rowed, ThreadStates
<1> QED
  BY <1>6 DEF RunGives

LEMMA RunStatusGiven ==
  ASSUME NEW to \in RunStatuses
  PROVE  RunList(<<SetStatus(to, {})>>)
BY StatusGiven DEF RunList

LEMMA NothingGiven == RunList(<<>>)
BY EmptyWhole DEF RunList

LEMMA CallRunGives ==
  ASSUME IInv, Rowed, CallRun
  PROVE  \E list : RunGives(list)
<1> DEFINE list == IF status = "paused_approval" THEN <<SetStatus("running", {})>> ELSE <<>>
<1>1. RunList(list)
  <2> DEFINE one == <<SetStatus("running", {})>>
  <2>1. RunList(one)
    BY RunStatusGiven DEF RunStatuses
  <2>2. list = one \/ list = <<>>
    OBVIOUS
  <2> HIDE DEF one, list
  <2> QED
    BY <2>1, <2>2, NothingGiven
<1>2. /\ Idle /\ mem' = graph /\ main' = [at |-> "layer", target |-> {}] /\ done' = {}
      /\ work' = [work EXCEPT ![Runner].todo = list]
      /\ UNCHANGED <<storeVars, th, layer, cut, torn>>
  BY DEF CallRun, Do
<1> HIDE DEF list
<1>3. main' \in Mains /\ ~Running' /\ Walk'
  BY <1>2 DEF Mains, Running, Walk
<1>4. /\ list \in Seq(Ops) /\ Paired(list) /\ Opens(list) /\ Spoken(list)
      /\ \A i \in DOMAIN list : Grounded(list, i)
  BY <1>1, RunListIs, WholeGiven DEF RunList
<1>5. Given(Runner, list)
  BY <1>2, <1>4, LineageAssumption DEF Given, Guest, Idle, storeVars
<1>6. \A s \in Stages : Free(s)
  BY <1>2 DEF Idle, IInv, Order, Phase, Running
<1>7. RunnerGiven(list)
  BY <1>2, <1>3, <1>5, <1>6 DEF RunnerGiven, IInv, Typed, Rowed, ThreadStates
<1> QED
  BY <1>1, <1>2, <1>7 DEF RunGives

LEMMA FinalizeGives ==
  ASSUME IInv, Rowed, Finalize
  PROVE  \E list : RunGives(list)
<1> DEFINE to == FinalStatus({rows[s].status : s \in Stages} \ {"none"})
           list == <<SetStatus(to, {})>>
<1>1. to \in RunStatuses
  <2>1. \A S : FinalStatus(S) \in RunStatuses
    BY DEF FinalStatus, RunStatuses
  <2> QED
    BY <2>1
<1>2. ReturnWith(list) /\ UNCHANGED <<storeVars, th, mem, cut, torn>>
  BY DEF Finalize
<1> HIDE DEF to
<1>3. RunList(list)
  BY <1>1, RunStatusGiven
<1>4. Free(Runner) /\ \A s \in Stages : Free(s)
  BY DEF Finalize, IInv, Order, Phase, Running
<1> HIDE DEF list
<1> QED
  BY <1>2, <1>3, <1>4, ReturnGives

LEMMA JoinGives ==
  ASSUME IInv, Rowed, Join
  PROVE  \E list : RunGives(list)
<1>1. /\ main.at \in {"join", "raised"} /\ Running /\ Free(Runner)
      /\ \A s \in Stages : th[s].at = "none" /\ Free(s)
      /\ UNCHANGED <<storeVars, th, mem, cut, torn>>
  BY DEF Join, Running
<1>2. CASE ReturnWith(<<>>)
  BY <1>1, <1>2, NothingGiven, ReturnGives
<1>3. CASE ReturnWith(<<SetStatus("paused_approval", {})>>)
  <2>1. PICK list : list = <<SetStatus("paused_approval", {})>>
    OBVIOUS
  <2>2. RunList(list)
    BY <2>1, RunStatusGiven DEF RunStatuses
  <2>3. ReturnWith(list)
    BY <1>3, <2>1
  <2> QED
    BY <1>1, <2>2, <2>3, ReturnGives
<1>4. CASE /\ main' = [main EXCEPT !.at = "layer"] /\ done' = done \cup layer
           /\ layer' = {} /\ UNCHANGED work
  <2>1. main \in Mains /\ main' \in Mains /\ main'.at = "layer" /\ ~Running'
    BY <1>4 DEF IInv, Typed, Mains, Running
  <2>2. Walk'
    <3>1. \A t \in done \cup layer : mem.deps[t] \subseteq done \cup layer
      BY <1>1 DEF IInv, Order, Walk, Running
    <3> QED
      BY <1>1, <1>4, <2>1, <3>1 DEF Walk
  <2>3. work \in [Workers -> WorkerStates] /\ Runner \in Workers
    BY DEF IInv, Typed, WorkerStates, Workers
  <2>4. work' = [work EXCEPT ![Runner].todo = <<>>]
    <3>1. work[Runner].todo = <<>>
      BY <1>1 DEF Free
    <3>2. [work[Runner] EXCEPT !.todo = <<>>] = work[Runner]
      BY <2>3, <3>1 DEF WorkerStates
    <3> QED
      BY <1>4, <2>3, <3>2
  <2>5. /\ <<>> \in Seq(Ops) /\ Paired(<<>>) /\ Opens(<<>>) /\ Spoken(<<>>)
        /\ \A i \in DOMAIN <<>> : Grounded(<<>>, i)
    BY WholeGiven, EmptyWhole
  <2>6. Given(Runner, <<>>)
    BY <1>1, <2>4, <2>5 DEF Given, storeVars
  <2>7. RunnerGiven(<<>>)
    BY <1>1, <1>4, <2>1, <2>2, <2>6 DEF RunnerGiven, IInv, Typed, Rowed, ThreadStates
  <2> QED
    BY <1>1, <2>7, NothingGiven DEF RunGives
<1> QED
  BY <1>2, <1>3, <1>4 DEF Join

LEMMA PlanLayerGives ==
  ASSUME IInv, Rowed, PlanLayer
  PROVE  \E list : RunGives(list)
<1> DEFINE next == NextLayer(mem, done)
           todo == {s \in next : rows[s] # NoRow /\ IsActionable(rows[s])}
           skipped == {s \in todo : \E d \in mem.deps[s] : BlocksDependents(rows[d])}
<1>1. /\ main.at = "layer" /\ Free(Runner) /\ ~Running /\ \A s \in Stages : Free(s)
      /\ UNCHANGED <<storeVars, mem, cut, torn>>
  BY DEF PlanLayer, Running, IInv, Order, Phase
<1>2. /\ next \in SUBSET Stages /\ skipped \in SUBSET Stages
      /\ next \cap done = {} /\ \A t \in next : mem.deps[t] \subseteq done
      /\ \A s \in todo : s \in next /\ rows[s] # NoRow
  BY DEF NextLayer, IInv, Typed, Graphs
<1>3. \/ \E before \in SUBSET skipped : ReturnWith(ForAll(before, Skip)) /\ UNCHANGED th
      \/ /\ layer' = next /\ UNCHANGED done /\ main' = [main EXCEPT !.at = "join"]
         /\ Do(Runner, ForAll(skipped, Skip))
         /\ th' = [s \in Stages |-> IF s \in todo \ skipped
                      THEN [NoThread EXCEPT !.at = "start"] ELSE NoThread]
  BY DEF PlanLayer
<1> HIDE DEF next, todo, skipped
<1>4. CASE \E before \in SUBSET skipped : ReturnWith(ForAll(before, Skip)) /\ UNCHANGED th
  <2>1. PICK before \in SUBSET skipped : ReturnWith(ForAll(before, Skip)) /\ UNCHANGED th
    BY <1>4
  <2> DEFINE list == ForAll(before, Skip)
  <2>2. RunList(list)
    BY <1>2, SkipsGiven DEF RunList
  <2>3. ReturnWith(list)
    BY <2>1
  <2> HIDE DEF list
  <2> QED
    BY <1>1, <2>1, <2>2, <2>3, ReturnGives
<1>5. CASE /\ layer' = next /\ UNCHANGED done /\ main' = [main EXCEPT !.at = "join"]
           /\ Do(Runner, ForAll(skipped, Skip))
           /\ th' = [s \in Stages |-> IF s \in todo \ skipped
                        THEN [NoThread EXCEPT !.at = "start"] ELSE NoThread]
  <2> DEFINE list == ForAll(skipped, Skip)
  <2>1. list \in WholeLists /\ \A o \in ToSet(list) : SkipOp(o)
    BY <1>2, SkipsGiven
  <2>2. work' = [work EXCEPT ![Runner].todo = list]
    BY <1>5 DEF Do
  <2> HIDE DEF list
  <2>3. \A o \in ToSet(list) : (o.op = "record" => o.action # "stage_inserted") /\ o.op # "aside"
    BY <2>1 DEF SkipOp
  <2>4. /\ list \in Seq(Ops) /\ Paired(list) /\ Opens(list) /\ Spoken(list)
        /\ \A i \in DOMAIN list : Grounded(list, i)
    BY <2>1, <2>3, WholeGiven
  <2>5. Given(Runner, list)
    BY <1>1, <2>2, <2>4, LineageAssumption DEF Given, Guest, storeVars
  <2>6. main' \in Mains
    BY <1>5 DEF IInv, Typed, Mains
  <2>7. /\ th' \in [Stages -> ThreadStates]
        /\ \A s \in Stages : th'[s].at \in {"none", "start"} /\ (th'[s].at # "none" => s \in todo)
    BY <1>5 DEF ThreadStates, Places, NoThread
  <2>8. Walk'
    BY <1>1, <1>2, <1>5 DEF IInv, Order, Walk, Running
  <2>9. mem' \in Graphs /\ done' \in SUBSET Stages
    BY <1>1, <1>5 DEF IInv, Typed
  <2>10. RunnerGiven(list)
    BY <1>1, <1>2, <1>5, <2>5, <2>6, <2>7, <2>8, <2>9 DEF RunnerGiven
  <2> QED
    BY <1>1, <2>1, <2>10 DEF RunGives, RunList
<1> QED
  BY <1>3, <1>4, <1>5

LEMMA RunStepKeeps ==
  ASSUME IInv, Rowed, CallRun \/ PlanLayer \/ Join \/ Finalize
  PROVE  IInv' /\ Rowed'
<1>1. PICK list : RunGives(list)
  BY CallRunGives, PlanLayerGives, JoinGives, FinalizeGives
<1> QED
  BY <1>1, RunListIs, RunnerKeeps DEF RunGives, RunList

-----------------------------------------------------------------------------
(* What operators give the runner *)

OnlyAsides(L, T) ==
    \A o \in ToSet(L) : o.op \in {"load", "aside"} /\ o.stage \in T
Sayings(L) == \A o \in ToSet(L) : o.op = "aside" => o.log # <<>>

LEMMA AsidesGiven ==
  ASSUME NEW T \in SUBSET Stages, NEW log \in [T -> Seq(Simple)],
         \A s \in T : log[s] \in AsideLogs(s),
         NEW L, L = FlattenSeq([i \in 1 .. Cardinality(T) |-> Aside(InOrder(T)[i], log[InOrder(T)[i]])])
  PROVE  /\ L \in WholeLists /\ OnlyAsides(L, T)
         /\ \A o \in ToSet(L) : o.op = "aside" => o.log = log[o.stage]
<1> DEFINE K == ForAll(T, LAMBDA s : Aside(s, log[s]))
<1>1. /\ K \in WholeLists
      /\ \A o \in ToSet(K) : \E s \in T :
            o = Load(s) \/ o = [op |-> "aside", stage |-> s, log |-> log[s]]
  BY AsidesWhole
<1>2. L = K
  BY DEF ForAll
<1> HIDE DEF K
<1>3. \A o \in ToSet(L) : \E s \in T :
         o = Load(s) \/ o = [op |-> "aside", stage |-> s, log |-> log[s]]
  BY <1>1, <1>2, Zenon
<1>4. L \in WholeLists
  BY <1>1, <1>2, Zenon
<1> QED
  BY <1>3, <1>4 DEF OnlyAsides, Load

LEMMA LoggedAsides ==
  ASSUME NEW T \in SUBSET Stages, NEW L, L = ForAll(T, LAMBDA d : Aside(d, Log(d, "marked_stale")))
  PROVE  L \in WholeLists /\ OnlyAsides(L, T) /\ Sayings(L)
<1> DEFINE log == [s \in T |-> Log(s, "marked_stale")]
<1>1. /\ log \in [T -> Seq(Simple)] /\ \A s \in T : log[s] \in AsideLogs(s) /\ log[s] # <<>>
  <2>1. \A s \in T : /\ Log(s, "marked_stale") \in Seq(Simple) /\ Len(Log(s, "marked_stale")) = 4
                     /\ Log(s, "marked_stale") \in AsideLogs(s)
    BY LogShape DEF Actions, AsideLogs
  <2>2. \A x \in Seq(Simple) : Len(x) = 4 => x # <<>>
    OBVIOUS
  <2> QED
    BY <2>1, <2>2
<1>2. [i \in 1 .. Cardinality(T) |-> Aside(InOrder(T)[i], log[InOrder(T)[i]])]
      = [i \in 1 .. Cardinality(T) |-> Aside(InOrder(T)[i], Log(InOrder(T)[i], "marked_stale"))]
  BY InOrderCounts
<1>3. L = FlattenSeq([i \in 1 .. Cardinality(T) |-> Aside(InOrder(T)[i], log[InOrder(T)[i]])])
  BY <1>2 DEF ForAll
<1> HIDE DEF log
<1>4. /\ L \in WholeLists /\ OnlyAsides(L, T)
      /\ \A o \in ToSet(L) : o.op = "aside" => o.log = log[o.stage]
  BY <1>1, <1>3, AsidesGiven
<1> QED
  BY <1>1, <1>4 DEF Sayings, OnlyAsides

LEMMA NotedAsides ==
  ASSUME NEW T \in SUBSET Stages, NEW L, L = ForAll(T, LAMBDA d : Aside(d, Note(d, "marked_stale")))
  PROVE  L \in WholeLists /\ OnlyAsides(L, T) /\ Sayings(L)
<1> DEFINE log == [s \in T |-> Note(s, "marked_stale")]
<1>1. /\ log \in [T -> Seq(Simple)] /\ \A s \in T : log[s] \in AsideLogs(s) /\ log[s] # <<>>
  <2>1. \A s \in T : /\ Note(s, "marked_stale") \in Seq(Simple) /\ Len(Note(s, "marked_stale")) = 2
                     /\ Note(s, "marked_stale") \in AsideLogs(s)
    BY NoteShape DEF Actions, AsideLogs
  <2>2. \A x \in Seq(Simple) : Len(x) = 2 => x # <<>>
    OBVIOUS
  <2> QED
    BY <2>1, <2>2
<1>2. [i \in 1 .. Cardinality(T) |-> Aside(InOrder(T)[i], log[InOrder(T)[i]])]
      = [i \in 1 .. Cardinality(T) |-> Aside(InOrder(T)[i], Note(InOrder(T)[i], "marked_stale"))]
  BY InOrderCounts
<1>3. L = FlattenSeq([i \in 1 .. Cardinality(T) |-> Aside(InOrder(T)[i], log[InOrder(T)[i]])])
  BY <1>2 DEF ForAll
<1> HIDE DEF log
<1>4. /\ L \in WholeLists /\ OnlyAsides(L, T)
      /\ \A o \in ToSet(L) : o.op = "aside" => o.log = log[o.stage]
  BY <1>1, <1>3, AsidesGiven
<1> QED
  BY <1>1, <1>4 DEF Sayings, OnlyAsides

LEMMA SilentAsides ==
  ASSUME NEW T \in SUBSET Stages, NEW L, L = ForAll(T, LAMBDA d : Aside(d, <<>>))
  PROVE  L \in WholeLists /\ OnlyAsides(L, T)
<1> DEFINE log == [s \in T |-> <<>>]
<1>1. log \in [T -> Seq(Simple)] /\ \A s \in T : log[s] \in AsideLogs(s)
  BY DEF AsideLogs
<1>2. [i \in 1 .. Cardinality(T) |-> Aside(InOrder(T)[i], log[InOrder(T)[i]])]
      = [i \in 1 .. Cardinality(T) |-> Aside(InOrder(T)[i], <<>>)]
  BY InOrderCounts
<1>3. L = FlattenSeq([i \in 1 .. Cardinality(T) |-> Aside(InOrder(T)[i], log[InOrder(T)[i]])])
  BY <1>2 DEF ForAll
<1> HIDE DEF log
<1> QED
  BY <1>1, <1>3, AsidesGiven

(* The row of the stage itself, set aside by the replanner. *)
LEMMA ReplannedWhole ==
  ASSUME NEW s \in Stages
  PROVE  LET L == Update(s, "set_aside", 0) \o Note(s, "replanned") IN
         /\ L \in WholeLists
         /\ ToSet(L) = {Load(s), Save(s, "set_aside", 0), Record(s, "replanned", "replanner"), Audit(s)}
<1> DEFINE x == Update(s, "set_aside", 0)
           y == Note(s, "replanned")
           L == x \o y
<1>1. /\ x \in Seq(Ops) /\ Len(x) = 2 /\ x[1] = Load(s) /\ x[2] = Save(s, "set_aside", 0)
      /\ y \in Seq(Ops) /\ Len(y) = 2
      /\ y[1] = Record(s, "replanned", "replanner") /\ y[2] = Audit(s)
  BY UpdateShape, NoteShape DEF Changes, Actions
<1> HIDE DEF x, y
<1>2. /\ L \in Seq(Ops) /\ DOMAIN L = 1 .. 4
      /\ L[1] = Load(s) /\ L[2] = Save(s, "set_aside", 0)
      /\ L[3] = Record(s, "replanned", "replanner") /\ L[4] = Audit(s)
  <2>0. /\ L \in Seq(Ops) /\ DOMAIN L = 1 .. Len(x) + Len(y)
        /\ \A i \in 1 .. Len(x) : L[i] = x[i]
        /\ \A i \in 1 .. Len(y) : L[Len(x) + i] = y[i]
    BY <1>1, Concatenated
  <2> HIDE DEF L
  <2>1. /\ L \in Seq(Ops) /\ DOMAIN L = 1 .. 2 + 2
        /\ \A i \in 1 .. 2 : L[i] = x[i]
        /\ \A i \in 1 .. 2 : L[2 + i] = y[i]
    BY <1>1, <2>0
  <2>2. \A i \in 1 .. 2, j \in Nat : j = 2 + i => L[j] = y[i]
    BY <2>1
  <2>3. L[3] = y[1] /\ L[4] = y[2] /\ L[1] = x[1] /\ L[2] = x[2]
    BY <2>1, <2>2
  <2> QED
    BY <1>1, <2>1, <2>3
<1> HIDE DEF L
<1>3. \A i \in 1 .. 4 : Preceded(L, i) /\ Followed(L, i)
  BY <1>2 DEF Preceded, Followed, Record, Load, Save, Audit, Links, IsSave, IsRecord
<1>4. Paired(L)
  BY <1>2, <1>3 DEF Paired
<1>5. Later(L, 0, s) /\ Later(L, 1, s) /\ Later(L, 2, s)
  BY <1>2 DEF Later, IsRecord, Record
<1>6. Spoken(L)
  BY <1>2, <1>5 DEF Spoken, Telling, Mute, Record, Load, Save, Audit
<1>7. Tells(L[2], "replanned")
  BY <1>2 DEF Tells, Gives, Save, Explained
<1>8. Reasoned(L)
  BY <1>2, <1>7 DEF Reasoned, Record, Load, Save, Audit
<1>9. Plain(L) /\ Opens(L)
  BY <1>2 DEF Plain, Opens, Links, Record, Load, Save, Audit
<1>10. ToSet(L) = {Load(s), Save(s, "set_aside", 0), Record(s, "replanned", "replanner"), Audit(s)}
  <2>1. ToSet(L) = {L[i] : i \in 1 .. 4}
    BY <1>2 DEF ToSet
  <2>2. \A i \in 1 .. 4 : i = 1 \/ i = 2 \/ i = 3 \/ i = 4
    OBVIOUS
  <2> QED
    BY <1>2, <2>1, <2>2
<1> QED
  BY <1>2, <1>4, <1>6, <1>8, <1>9, <1>10 DEF WholeLists, Whole, L, x, y

LEMMA OperateGiven ==
  ASSUME IInv, Rowed, NEW name, NEW t \in Stages, NEW list, Operate(name, {t}, list),
         list \in Seq(Ops), Paired(list), Opens(list), Spoken(list),
         \A i \in DOMAIN list : Grounded(list, i)
  PROVE  RunnerGiven(list)
<1>1. /\ Idle /\ main' = [at |-> "idle", target |-> {t}]
      /\ work' = [work EXCEPT ![Runner].todo = list]
      /\ UNCHANGED <<storeVars, th, mem, done, layer, cut, torn>>
  BY DEF Operate, Do
<1>2. main' \in Mains /\ ~Running' /\ Walk'
  BY <1>1 DEF Mains, Running, Walk
<1>3. Given(Runner, list)
  BY <1>1, LineageAssumption DEF Given, Guest, Idle, storeVars
<1>4. \A s \in Stages : Free(s)
  BY <1>1 DEF Idle, IInv, Order, Phase, Running
<1> QED
  BY <1>1, <1>2, <1>3, <1>4 DEF RunnerGiven, IInv, Typed, Rowed, ThreadStates

LEMMA OperateKeeps ==
  ASSUME IInv, Rowed, NEW name, NEW t \in Stages, NEW list \in WholeLists, Operate(name, {t}, list),
         Sayings(list), \A o \in ToSet(list) : o.op = "record" => o.action # "stage_inserted"
  PROVE  IInv' /\ Rowed'
<1>1. /\ list \in Seq(Ops) /\ Paired(list) /\ Opens(list) /\ Spoken(list)
      /\ \A i \in DOMAIN list : Grounded(list, i)
  BY WholeGiven
<1>2. RunnerGiven(list)
  BY <1>1, OperateGiven
<1> QED
  BY <1>2, RunnerKeeps DEF Sayings

(* The three parts of the lists of an operator. *)
LEMMA ThreeParts ==
  ASSUME NEW x \in WholeLists, NEW y \in WholeLists, NEW z \in WholeLists
  PROVE  /\ x \o y \o z \in WholeLists
         /\ ToSet(x \o y \o z) = ToSet(x) \cup ToSet(y) \cup ToSet(z)
<1>1. \A a, b \in WholeLists : a \o b \in WholeLists /\ ToSet(a \o b) = ToSet(a) \cup ToSet(b)
  <2>1. ASSUME NEW a \in WholeLists, NEW b \in WholeLists
        PROVE  a \o b \in WholeLists /\ ToSet(a \o b) = ToSet(a) \cup ToSet(b)
    <3>1. a \in Seq(Ops) /\ b \in Seq(Ops)
      BY DEF WholeLists
    <3>2. ToSet(a \o b) = ToSet(a) \cup ToSet(b)
      BY <3>1, ConcatenatedSet
    <3> QED
      BY <3>2, WholeJoin
  <2> QED
    BY <2>1
<1>2. x \o y \in WholeLists /\ ToSet(x \o y) = ToSet(x) \cup ToSet(y)
  BY <1>1, Zenon
<1>3. /\ x \o y \o z \in WholeLists
      /\ ToSet(x \o y \o z) = ToSet(x \o y) \cup ToSet(z)
  BY <1>1, <1>2, Zenon
<1> QED
  BY <1>2, <1>3, Zenon

LEMMA RollbackKeeps ==
  ASSUME IInv, Rowed, NEW s \in Stages, Rollback(s)
  PROVE  IInv' /\ Rowed'
<1>1. PICK T \in SUBSET Stages : T = DownstreamOf(mem, s)
  BY DEF DownstreamOf, IInv, Typed, Graphs
<1>2. PICK x : x = Update(s, "roll_back", 0) \o Log(s, "rolled_back")
  OBVIOUS
<1>3. PICK y : y = ForAll(T, LAMBDA d : Aside(d, Log(d, "marked_stale")))
  OBVIOUS
<1>4. PICK z : z = <<SetStatus("running", {s})>>
  OBVIOUS
<1>5. PICK list : list = x \o y \o z
  OBVIOUS
<1>6. Operate("rollback", {s}, list)
  BY <1>1, <1>2, <1>3, <1>4, <1>5 DEF Rollback
<1>7. /\ x \in WholeLists
      /\ ToSet(x) = {Load(s), Save(s, "roll_back", 0), Record(s, "rolled_back", "executor"),
                     Save(s, "link", 0), Audit(s)}
  <2>1. Tells(Save(s, "roll_back", 0), "rolled_back")
    BY DEF Tells, Save, Gives, Explained
  <2> QED
    BY <1>2, <2>1, SaidWhole DEF Changes, Actions
<1>8. y \in WholeLists /\ OnlyAsides(y, T) /\ Sayings(y)
  BY <1>3, LoggedAsides
<1>9. z \in WholeLists /\ \A o \in ToSet(z) : o.op = "status"
  BY <1>4, StatusGiven DEF RunStatuses
<1>10. list \in WholeLists /\ ToSet(list) = ToSet(x) \cup ToSet(y) \cup ToSet(z)
  <2>1. x \in WholeLists /\ y \in WholeLists /\ z \in WholeLists
    BY <1>7, <1>8, <1>9
  <2>2. /\ x \o y \o z \in WholeLists
        /\ ToSet(x \o y \o z) = ToSet(x) \cup ToSet(y) \cup ToSet(z)
    BY <2>1, ThreeParts
  <2> QED
    BY <1>5, <2>2, Zenon
<1>11. \A o \in ToSet(x) : o.op # "aside" /\ (o.op = "record" => o.action # "stage_inserted")
  BY <1>7 DEF Load, Save, Record, Audit
<1>12. Sayings(list) /\ \A o \in ToSet(list) : o.op = "record" => o.action # "stage_inserted"
  BY <1>8, <1>9, <1>10, <1>11 DEF Sayings, OnlyAsides
<1> QED
  BY <1>6, <1>10, <1>12, OperateKeeps

LEMMA InvalidateKeeps ==
  ASSUME IInv, Rowed, NEW s \in Stages, Invalidate(s)
  PROVE  IInv' /\ Rowed'
<1>1. PICK T \in SUBSET Stages : T = DownstreamOf(graph, s)
  BY DEF DownstreamOf, IInv, Typed, Graphs
<1>2. PICK x : x = Update(s, "set_aside", 0) \o Note(s, "replanned")
  OBVIOUS
<1>3. PICK y : y = ForAll(T, LAMBDA d : Aside(d, Note(d, "marked_stale")))
  OBVIOUS
<1>4. PICK z : z = <<SetStatus("running", {s})>>
  OBVIOUS
<1>5. PICK list : list = x \o y \o z
  OBVIOUS
<1>6. Operate("invalidate", {s}, list)
  BY <1>1, <1>2, <1>3, <1>4, <1>5 DEF Invalidate
<1>7. /\ x \in WholeLists
      /\ ToSet(x) = {Load(s), Save(s, "set_aside", 0), Record(s, "replanned", "replanner"), Audit(s)}
  BY <1>2, ReplannedWhole
<1>8. y \in WholeLists /\ OnlyAsides(y, T) /\ Sayings(y)
  BY <1>3, NotedAsides
<1>9. z \in WholeLists /\ \A o \in ToSet(z) : o.op = "status"
  BY <1>4, StatusGiven DEF RunStatuses
<1>10. list \in WholeLists /\ ToSet(list) = ToSet(x) \cup ToSet(y) \cup ToSet(z)
  <2>1. x \in WholeLists /\ y \in WholeLists /\ z \in WholeLists
    BY <1>7, <1>8, <1>9
  <2>2. /\ x \o y \o z \in WholeLists
        /\ ToSet(x \o y \o z) = ToSet(x) \cup ToSet(y) \cup ToSet(z)
    BY <2>1, ThreeParts
  <2> QED
    BY <1>5, <2>2, Zenon
<1>11. \A o \in ToSet(x) : o.op # "aside" /\ (o.op = "record" => o.action # "stage_inserted")
  BY <1>7 DEF Load, Save, Record, Audit
<1>12. Sayings(list) /\ \A o \in ToSet(list) : o.op = "record" => o.action # "stage_inserted"
  BY <1>8, <1>9, <1>10, <1>11 DEF Sayings, OnlyAsides
<1> QED
  BY <1>6, <1>10, <1>12, OperateKeeps

(* The list of an insertion. *)
InsertionsList(list, new, larger) ==
    list = <<[op |-> "graph", to |-> larger], [op |-> "create", stage |-> new.stage]>>
           \o ForAll(new.befores, LAMBDA d : Aside(d, <<>>))
           \o Note(new.stage, "stage_inserted")
           \o <<SetStatus("running", {new.stage})>>

Inserted(list, new, larger) ==
    /\ list \in Seq(Ops) /\ Paired(list) /\ Opens(list) /\ Spoken(list)
    /\ \E o \in ToSet(list) : o.op = "graph" /\ o.to = larger
    /\ \E o \in ToSet(list) : o.op = "create" /\ o.stage = new.stage
    /\ \A o \in ToSet(list) :
          /\ o.op \in {"graph", "create", "load", "aside", "record", "audit", "status"}
          /\ o.op = "graph" => o.to = larger
          /\ o.op = "create" => o.stage = new.stage
          /\ o.op = "aside" => o.stage \in new.befores
          /\ o.op = "record" => o.action = "stage_inserted" /\ o.stage = new.stage

LEMMA InsertedList ==
  ASSUME NEW new \in Insertions, NEW larger \in Graphs, NEW list, InsertionsList(list, new, larger)
  PROVE  Inserted(list, new, larger)
<1>1. new.stage \in Stages /\ new.befores \in SUBSET Stages
  BY LineageAssumption
<1> DEFINE g == [op |-> "graph", to |-> larger]
           c == [op |-> "create", stage |-> new.stage]
<1>2. PICK x : x = <<g, c>>
  OBVIOUS
<1>3. PICK y : y = ForAll(new.befores, LAMBDA d : Aside(d, <<>>))
  OBVIOUS
<1>4. PICK n : n = Note(new.stage, "stage_inserted")
  OBVIOUS
<1>5. PICK z : z = <<SetStatus("running", {new.stage})>>
  OBVIOUS
<1>6. g \in Ops /\ c \in Ops /\ g.op = "graph" /\ c.op = "create" /\ c.stage = new.stage /\ g.to = larger
  BY <1>1 DEF Ops, Simple
<1>7. list = x \o y \o n \o z
  BY <1>2, <1>3, <1>4, <1>5, Zenon DEF InsertionsList
<1> HIDE DEF g, c
<1>8. x \in Seq(Ops) /\ DOMAIN x = {1, 2} /\ x[1] = g /\ x[2] = c /\ ToSet(x) = {g, c}
  BY <1>2, <1>6 DEF ToSet
<1>9. y \in WholeLists /\ OnlyAsides(y, new.befores)
  BY <1>1, <1>3, SilentAsides
<1>10. /\ n \in WholeLists /\ Later(n, 0, new.stage)
       /\ ToSet(n) = {Record(new.stage, "stage_inserted", "replanner"), Audit(new.stage)}
  BY <1>1, <1>4, NoteShape DEF Actions, WholeLists
<1>11. z \in WholeLists /\ \A o \in ToSet(z) : o.op = "status"
  BY <1>1, <1>5, StatusGiven DEF RunStatuses
<1>12. PICK rest : rest = y \o n \o z
  OBVIOUS
<1>13. rest \in WholeLists /\ ToSet(rest) = ToSet(y) \cup ToSet(n) \cup ToSet(z)
  <2>1. y \in WholeLists /\ n \in WholeLists /\ z \in WholeLists
    BY <1>9, <1>10, <1>11
  <2>2. /\ y \o n \o z \in WholeLists
        /\ ToSet(y \o n \o z) = ToSet(y) \cup ToSet(n) \cup ToSet(z)
    BY <2>1, ThreeParts
  <2> QED
    BY <1>12, <2>2, Zenon
<1>14. list = x \o rest
  <2>1. x \in Seq(Ops) /\ y \in Seq(Ops) /\ n \in Seq(Ops) /\ z \in Seq(Ops)
    BY <1>8, <1>9, <1>10, <1>11 DEF WholeLists
  <2>2. \A a, b \in Seq(Ops) : a \o b \in Seq(Ops)
    BY ConcatProperties
  <2>3. PICK q : q = y \o n
    OBVIOUS
  <2>4. q \in Seq(Ops)
    BY <2>1, <2>2, <2>3, Zenon
  <2>5. (x \o y) \o n = x \o (y \o n)
    BY <2>1, ConcatAssociative, SMTT(30)
  <2>6. (x \o q) \o z = x \o (q \o z)
    <3>1. ASSUME NEW a \in Seq(Ops), NEW b \in Seq(Ops), NEW d \in Seq(Ops)
          PROVE  (a \o b) \o d = a \o (b \o d)
      BY ConcatAssociative
    <3> QED
      BY <2>1, <2>4, <3>1, ZenonT(60)
  <2>7. list = (x \o q) \o z
    <3>1. PICK p : p = (x \o y) \o n
      OBVIOUS
    <3>2. p = x \o q
      BY <2>3, <2>5, <3>1, Zenon
    <3>3. list = p \o z
      BY <1>7, <3>1, Zenon
    <3> QED
      BY <3>2, <3>3, Zenon
  <2>8. rest = q \o z
    BY <1>12, <2>3, Zenon
  <2> QED
    BY <2>6, <2>7, <2>8, Zenon
<1>15. Later(rest, 0, new.stage)
  <2>1. PICK i \in DOMAIN n : IsRecord(n[i], new.stage)
    BY <1>10 DEF Later
  <2>2. n[i] \in ToSet(rest)
    BY <1>13, <2>1 DEF ToSet
  <2>3. PICK j \in DOMAIN rest : rest[j] = n[i]
    BY <2>2 DEF ToSet
  <2>4. rest \in Seq(Ops) /\ DOMAIN rest = 1 .. Len(rest) /\ Len(rest) \in Nat
    BY <1>13 DEF WholeLists
  <2>5. j > 0
    BY <2>3, <2>4
  <2> QED
    BY <2>1, <2>3, <2>5 DEF Later
<1>16. Paired(x) /\ Opens(x)
  BY <1>6, <1>8 DEF Paired, Preceded, Followed, Opens, Links
<1>17. \A i \in DOMAIN x :
            /\ Telling(x[i]) => Later(x, i, x[i].stage) \/ Later(rest, 0, x[i].stage)
            /\ x[i].op = "record" =>
                 \/ i > 1 /\ x[i - 1].stage = x[i].stage /\ Tells(x[i - 1], x[i].action)
                 \/ Later(x, i, x[i].stage) \/ Later(rest, 0, x[i].stage)
                 \/ x[i].action = "stage_inserted"
  BY <1>6, <1>8, <1>15 DEF Telling
<1>18. /\ Paired(x \o rest) /\ Opens(x \o rest) /\ Spoken(x \o rest)
       /\ x \o rest \in Seq(Ops) /\ ToSet(x \o rest) = ToSet(x) \cup ToSet(rest)
  <2>1. x \in Seq(Ops) /\ rest \in Seq(Ops) /\ Whole(rest)
    BY <1>8, <1>13 DEF WholeLists
  <2>2. Paired(x \o rest) /\ Opens(x \o rest) /\ Spoken(x \o rest)
    BY <1>16, <1>17, <2>1, JoinTold
  <2>3. x \o rest \in Seq(Ops)
    BY <2>1, Concatenated
  <2>4. ToSet(x \o rest) = ToSet(x) \cup ToSet(rest)
    BY <2>1, ConcatenatedSet
  <2> QED
    BY <2>2, <2>3, <2>4
<1>19. /\ Paired(list) /\ Opens(list) /\ Spoken(list) /\ list \in Seq(Ops)
       /\ ToSet(list) = ToSet(x) \cup ToSet(rest)
  BY <1>14, <1>18, Zenon
<1>20. \A o \in ToSet(list) :
          \/ o = g \/ o = c
          \/ o.op \in {"load", "aside"} /\ o.stage \in new.befores
          \/ o = Record(new.stage, "stage_inserted", "replanner") \/ o = Audit(new.stage)
          \/ o.op = "status"
  BY <1>8, <1>9, <1>10, <1>11, <1>13, <1>19 DEF OnlyAsides
<1>21. g \in ToSet(list) /\ c \in ToSet(list)
  BY <1>8, <1>19
<1> HIDE <1>2, <1>3, <1>4, <1>5, <1>7, <1>12, <1>14
<1>22. ASSUME NEW o \in ToSet(list)
       PROVE
          /\ o.op \in {"graph", "create", "load", "aside", "record", "audit", "status"}
          /\ o.op = "graph" => o.to = larger
          /\ o.op = "create" => o.stage = new.stage
          /\ o.op = "aside" => o.stage \in new.befores
          /\ o.op = "record" => o.action = "stage_inserted" /\ o.stage = new.stage
  <2> DEFINE r == Record(new.stage, "stage_inserted", "replanner")
  <2>1. r.op = "record" /\ r.action = "stage_inserted" /\ r.stage = new.stage
    BY DEF Record
  <2>2. Audit(new.stage).op = "audit"
    BY DEF Audit
  <2> HIDE DEF r
  <2>3. CASE o = g \/ o = c \/ o = r \/ o = Audit(new.stage)
    BY <1>6, <2>1, <2>2, <2>3
  <2>4. CASE o.op = "status" \/ (o.op \in {"load", "aside"} /\ o.stage \in new.befores)
    BY <2>4
  <2> QED
    BY <1>20, <2>1, <2>3, <2>4 DEF r
<1> QED
  BY <1>6, <1>19, <1>21, <1>22 DEF Inserted

Insertion(list, new, larger) ==
    /\ larger \in Graphs /\ Grows(graph, larger) /\ KnownDependencies(larger)
    /\ new.stage \in Stages \ graph.nodes /\ new.stage \in larger.nodes
    /\ \A d \in new.befores : larger.deps[d] # InitialGraph.deps[d]
    /\ InsertionsList(list, new, larger) /\ Inserted(list, new, larger)
    /\ RunnerGiven(list) /\ main' = [at |-> "idle", target |-> {new.stage}] /\ mem' = mem

LEMMA InsertStageGives ==
  ASSUME IInv, Rowed, NEW new \in Insertions, InsertStage(new)
  PROVE  \E list, larger : Insertion(list, new, larger)
<1> DEFINE larger == WithStage(graph, new.stage, new.ups, new.befores)
<1>1. /\ new.stage \in Stages /\ new.ups \in SUBSET Stages /\ new.befores \in SUBSET Stages
      /\ new.stage \notin graph.nodes /\ new.befores \subseteq graph.nodes
      /\ graph \in Graphs
  BY LineageAssumption DEF InsertStage, IInv, Typed
<1>2. /\ larger \in Graphs /\ larger.nodes = graph.nodes \cup {new.stage}
      /\ \A t \in Stages : larger.deps[t] = IF t = new.stage THEN new.ups
                                            ELSE IF t \in new.befores THEN graph.deps[t] \cup {new.stage}
                                            ELSE graph.deps[t]
  BY <1>1 DEF WithStage, Graphs
<1>3. PICK list : InsertionsList(list, new, larger)
  BY DEF InsertionsList
<1>4. Operate("insert", {new.stage}, list)
  BY <1>3, Zenon DEF InsertStage, InsertionsList
<1>11. KnownDependencies(larger)
  BY DEF InsertStage, Valid
<1> HIDE DEF larger
<1>5. Inserted(list, new, larger)
  BY <1>2, <1>3, InsertedList
<1>6. Grows(InitialGraph, graph) /\ \A t \in Stages \ graph.nodes : graph.deps[t] = {} /\ rows[t] = NoRow
  BY DEF IInv, Grown, Grows
<1>7. Grows(graph, larger)
  BY <1>1, <1>2, <1>6 DEF Grows
<1>8. ASSUME NEW d \in new.befores PROVE larger.deps[d] # InitialGraph.deps[d]
  <2>1. d \in Stages /\ d # new.stage /\ new.stage \in larger.deps[d]
    BY <1>1, <1>2
  <2>2. new.stage \notin InitialGraph.nodes
    BY <1>1, <1>6 DEF Grows
  <2>3. InitialGraph.deps[d] \subseteq InitialGraph.nodes
    BY <2>1, LineageAssumption DEF Valid, KnownDependencies
  <2> QED
    BY <2>1, <2>2, <2>3
<1>9. \A i \in DOMAIN list : Grounded(list, i)
  <2>1. Created(list, new.stage)
    BY <1>1, <1>5 DEF Created, Inserted
  <2>2. \A i \in DOMAIN list : list[i] \in ToSet(list)
    BY DEF ToSet
  <2> QED
    BY <1>5, <2>1, <2>2 DEF Grounded, Inserted
<1>10. RunnerGiven(list)
  BY <1>1, <1>4, <1>5, <1>9, OperateGiven DEF Inserted
<1>12. main' = [at |-> "idle", target |-> {new.stage}] /\ mem' = mem
  BY <1>4 DEF Operate
<1>13. Insertion(list, new, larger)
  BY <1>1, <1>2, <1>3, <1>5, <1>7, <1>8, <1>10, <1>11, <1>12 DEF Insertion
<1> QED
  BY <1>13

LEMMA InsertStageKeeps ==
  ASSUME IInv, Rowed, NEW new \in Insertions, InsertStage(new)
  PROVE  IInv' /\ Rowed'
<1>1. PICK list, larger : Insertion(list, new, larger)
  BY InsertStageGives
<1>2. /\ larger \in Graphs /\ Grows(graph, larger) /\ graph \in Graphs
      /\ new.stage \in larger.nodes /\ new.stage \in Stages \ graph.nodes
      /\ \A d \in new.befores : larger.deps[d] # InitialGraph.deps[d]
      /\ Inserted(list, new, larger) /\ rows[new.stage] = NoRow
  BY <1>1 DEF Insertion, IInv, Typed, Grown
<1>3. /\ Typed' /\ Order' /\ Lists' /\ Store' /\ Grown' /\ Rowed'
       /\ Ahead(Runner)' = ToSet(list) /\ rows' = rows /\ graph' = graph
  BY <1>1, RunnerStepKeeps DEF Insertion
<1>4. Inserting'
  <2>1. PICK p \in ToSet(list) : p.op = "graph" /\ p.to = larger
    BY <1>2 DEF Inserted
  <2>2. ASSUME NEW o \in ToSet(list)
        PROVE  /\ o.op = "graph" => Grows(graph, o.to)
               /\ o.op = "create" => rows[o.stage] = NoRow /\ o.stage \in p.to.nodes
               /\ o.op = "aside" => p.to.deps[o.stage] # InitialGraph.deps[o.stage]
    BY <1>2, <2>1 DEF Inserted
  <2> QED
    BY <1>3, <2>1, <2>2 DEF Inserting, Grows, Respliced
<1> QED
  BY <1>3, <1>4 DEF IInv

-----------------------------------------------------------------------------
(* What a transaction leaves of the order of the workers, and of the graph *)

(* A row that is done has an end, in the store and in memory. *)
AllForward == (\A s \in Stages : Forward(rows[s])) /\ (\A w \in Workers : Forward(work[w].held))

Stays(w, L, T) ==
    /\ work' \in [Workers -> WorkerStates] /\ \A v \in Workers \ {w} : work'[v] = work[v]
    /\ \A o \in Ahead(w)' : \/ o \in ToSet(T)
                            \/ w = Runner /\ o.op \in {"load", "save", "record", "audit"}
    /\ th' = th /\ main' \in Mains /\ main'.at = main.at
    /\ mem' = mem /\ done' = done /\ layer' = layer
    /\ rows' \in [Stages -> Rows \cup {NoRow}]
    /\ \A s \in Stages : rows'[s] # rows[s] =>
          /\ rows'[s] \in Rows
          /\ rows[s] \in Rows \/ (L[1].op = "create" /\ L[1].stage = s)
          /\ AllForward => Forward(rows'[s])
    /\ AllForward => Forward(work'[w].held)
    /\ IF L[1].op = "graph" THEN graph' = L[1].to /\ rows' = rows ELSE graph' = graph

LEMMA RowsAreSomething == NoRow \notin Rows /\ Forward(NoRow) /\ Forward(NewRow) /\ NewRow \in Rows
BY DEF NoRow, Rows, Forward, Terminal, NewRow, Statuses

LEMMA StaysInOrder ==
  ASSUME IInv, NEW w \in Workers, NEW L, NEW T, Popping(w, L, T), Stays(w, L, T)
  PROVE  Order'
<1>1. /\ \A v \in Workers \ {w} : work'[v] = work[v] /\ Ahead(v)' = Ahead(v)
      /\ ~Free(w) /\ Ahead(w) = {L[1]} \cup ToSet(T)
      /\ w # Runner => \A o \in Ahead(w)' : o \in Ahead(w)
      /\ th' = th /\ main'.at = main.at /\ mem' = mem /\ done' = done /\ layer' = layer
  BY DEF Stays, Popping, Ahead, Todo, Free
<1>2. \A v \in Workers : Free(v) => Free(v)'
  BY <1>1 DEF Free
<1>3. Running' <=> Running
  BY <1>1 DEF Running
<1>4. Phase
  BY DEF IInv, Order
<1>5. Runner \in Workers /\ \A s \in Stages : s \in Workers /\ s # Runner
  BY LineageAssumption DEF Workers
<1>6. ASSUME NEW s \in Stages, NEW o \in Ahead(s)' PROVE o \in Ahead(s)
  BY <1>1, <1>5, <1>6
<1>7. ~Running' => \A s \in Stages : Free(s)'
  BY <1>2, <1>3, <1>4, <1>5 DEF Phase
<1>8. ~Free(Runner)' => \A s \in Stages : Free(s)' /\ (Running' => th'[s].at \in {"none", "start"})
  BY <1>1, <1>2, <1>3, <1>4, <1>5 DEF Phase
<1>9. Running' => \A s \in Stages : th'[s].at # "none" \/ ~Free(s)' => s \in layer'
  BY <1>1, <1>2, <1>3, <1>4, <1>5 DEF Phase
<1>10. \A s \in Stages : \A o \in Ahead(s)' :
          Own(s, o) \/ (SkipOp(o) /\ o.stage \in DownstreamOf(mem', s))
  BY <1>1, <1>4, <1>6 DEF Phase
<1>11. Phase'
  BY <1>7, <1>8, <1>9, <1>10 DEF Phase, Own, SkipOp
<1>12. Walk'
  BY <1>1, <1>3 DEF IInv, Order, Walk
<1> QED
  BY <1>11, <1>12 DEF Order

LEMMA StaysGrown ==
  ASSUME IInv, NEW w \in Workers, NEW L, NEW T, Popping(w, L, T), Stays(w, L, T)
  PROVE  Grown' /\ Inserting'
<1>1. /\ Ahead(w) = {L[1]} \cup ToSet(T) /\ L[1] \in Ahead(w) /\ L \in Seq(Ops) /\ L # <<>>
      /\ T = Tail(L) /\ Paired(L)
      /\ \A v \in Workers \ {w} : Ahead(v)' = Ahead(v)
      /\ rows' \in [Stages -> Rows \cup {NoRow}]
  BY DEF Stays, Popping, Ahead, Todo
<1>2. \A o \in ToSet(T) : o.op # "graph" /\ (o.op = "create" => L[1].op = "graph")
  <2>1. ASSUME NEW i \in DOMAIN T PROVE T[i].op # "graph" /\ (T[i].op = "create" => L[1].op = "graph")
    <3>1. i + 1 \in DOMAIN L /\ T[i] = L[i + 1] /\ i + 1 # 1 /\ Preceded(L, i + 1)
      BY <1>1, Popped DEF Paired
    <3> QED
      BY <3>1 DEF Preceded
  <2> QED
    BY <2>1 DEF ToSet
<1>3. L[1].op \in {"graph", "create", "aside"} => w = Runner
  BY <1>1, OnlyRunner
<1>4. /\ Grows(InitialGraph, graph) /\ \A s \in Stages \ graph.nodes : rows[s] = NoRow
      /\ Inserting
  BY DEF IInv, Grown
<1>5. L[1].op = "graph" => Grows(graph, L[1].to) /\ graph' = L[1].to /\ rows' = rows
  BY <1>1, <1>3, <1>4 DEF Inserting, Stays
<1>6. L[1].op # "graph" => graph' = graph
  BY DEF Stays
<1>7. Grows(graph, graph')
  BY <1>4, <1>5, <1>6 DEF Grows
<1>8. Grown'
  <2>1. Grows(InitialGraph, graph')
    BY <1>4, <1>7 DEF Grows
  <2>2. ASSUME NEW s \in Stages \ graph'.nodes PROVE rows'[s] = NoRow
    <3>1. s \notin graph.nodes /\ rows[s] = NoRow
      BY <1>4, <1>7 DEF Grows
    <3>2. L[1].op = "create" => L[1].stage \in graph.nodes
      BY <1>1, <1>2, <1>3, <1>4 DEF Inserting
    <3> QED
      BY <1>6, <3>1, <3>2, RowsAreSomething DEF Stays
  <2> QED
    BY <2>1, <2>2 DEF Grown, Grows
<1>9. \A t \in Stages : Respliced(t) => graph'.deps[t] # InitialGraph.deps[t]
  BY <1>4, <1>7 DEF Grows, Respliced
<1>10. ASSUME NEW o \in Ahead(Runner)'
       PROVE  /\ o.op # "graph"
              /\ o.op = "create" => rows'[o.stage] = NoRow /\ o.stage \in graph'.nodes
              /\ o.op = "aside" /\ o.log = <<>> => graph'.deps[o.stage] # InitialGraph.deps[o.stage]
  <2>1. CASE w # Runner
    <3>1. Free(Runner)
      <4>1. w \in Stages /\ ~Free(w)
        BY <2>1, <1>1, AheadIs DEF Workers
      <4> QED
        BY <4>1 DEF IInv, Order, Phase
    <3>2. Ahead(Runner) = {}
      BY <3>1, AheadIs
    <3> QED
      BY <1>1, <1>10, <2>1, <3>2 DEF Workers
  <2>2. CASE w = Runner /\ o.op \in {"graph", "create", "aside"}
    <3>1. o \in ToSet(T) /\ o \in Ahead(Runner)
      BY <1>1, <1>10, <2>2 DEF Stays
    <3>2. o.op = "create" => rows'[o.stage] = NoRow /\ o.stage \in graph'.nodes
      BY <1>1, <1>2, <1>4, <1>5, <1>7, <2>2, <3>1 DEF Inserting, Grows
    <3>3. o.stage \in Stages
      <4>1. o \in Ops
        BY <1>1, <3>1, Popped DEF ToSet
      <4> QED
        BY <2>2, <3>1, <1>2, <4>1 DEF Ops, Simple, Asides
    <3>4. o.op = "aside" /\ o.log = <<>> => graph'.deps[o.stage] # InitialGraph.deps[o.stage]
      BY <1>1, <1>2, <1>4, <1>5, <1>9, <2>2, <3>1, <3>3 DEF Inserting
    <3> QED
      BY <1>2, <3>1, <3>2, <3>4
  <2>3. CASE w = Runner /\ o.op \notin {"graph", "create", "aside"}
    BY <2>3
  <2> QED
    BY <2>1, <2>2, <2>3
<1>11. Inserting'
  BY <1>10 DEF Inserting, Respliced
<1> QED
  BY <1>8, <1>11

LEMMA StaysRowed ==
  ASSUME IInv, Rowed, AllForward, NEW w \in Workers, NEW L, NEW T, Popping(w, L, T), Stays(w, L, T)
  PROVE  Rowed' /\ AllForward'
<1>1. Rowed'
  BY RowsAreSomething DEF Rowed, Stays
<1>2. \A s \in Stages : Forward(rows'[s])
  BY DEF AllForward, Stays
<1>3. \A v \in Workers : Forward(work'[v].held)
  BY DEF AllForward, Stays
<1> QED
  BY <1>1, <1>2, <1>3 DEF AllForward, Forward

(* What every transaction but a KeyError leaves alone. *)
LEMMA WorkedForward ==
  ASSUME IInv, NEW w \in Workers
  PROVE  AllForward => Forward(Worked(w).held)
<1>1. Worked(w) = Resting \/ Worked(w) = [work[w] EXCEPT !.todo = Tail(@)]
  BY DEF Worked
<1>2. work[w] \in WorkerStates
  BY DEF IInv, Typed, WorkerStates
<1>3. Worked(w).held = NoRow \/ Worked(w).held = work[w].held
  BY <1>1, <1>2 DEF Resting, WorkerStates
<1> QED
  BY <1>3, RowsAreSomething DEF AllForward

LEMMA StillAhead ==
  ASSUME IInv, NEW w \in Workers, NEW L, NEW T, Popping(w, L, T),
         NEW next \in WorkerStates, work' = [work EXCEPT ![w] = next]
  PROVE  /\ work' \in [Workers -> WorkerStates] /\ \A v \in Workers \ {w} : work'[v] = work[v]
         /\ work'[w] = next
         /\ Ahead(w)' = ToSet(next.todo)
<1>1. work \in [Workers -> WorkerStates]
  BY DEF IInv, Typed, WorkerStates
<1>2. /\ work' \in [Workers -> WorkerStates] /\ \A v \in Workers \ {w} : work'[v] = work[v]
      /\ work'[w] = next
  BY <1>1
<1> QED
  BY <1>2 DEF Ahead, Todo

LEMMA LoadStays ==
  ASSUME IInv, NEW w \in Workers, LoadRow(w)
  PROVE  Typed' /\ \E L, T : Popping(w, L, T) /\ Stays(w, L, T)
<1>1. PICK L, T : Popping(w, L, T) /\ L[1].op = "load"
  BY Acting DEF LoadRow
<1>2. L[1].stage \in Stages /\ Upcoming(w) = L[1] /\ Worked(w) \in WorkerStates /\ Worked(w).todo = T
  BY <1>1 DEF Popping, Staged
<1>3. PICK s \in Stages : s = L[1].stage
  BY <1>2
<1>4. rows[s] \in Rows
  BY <1>2, <1>3 DEF LoadRow, IInv, Typed
<1> DEFINE next == [Worked(w) EXCEPT !.held = rows[s]]
<1>5. next \in WorkerStates /\ next.todo = T /\ next.held = rows[s]
  BY <1>2, <1>4 DEF WorkerStates
<1>6. work' = [work EXCEPT ![w] = next] /\ UNCHANGED <<storeVars, cut, torn, processVars>>
  BY <1>2, <1>3 DEF LoadRow
<1> HIDE DEF next
<1>7. /\ work' \in [Workers -> WorkerStates] /\ \A v \in Workers \ {w} : work'[v] = work[v]
      /\ work'[w] = next /\ Ahead(w)' = ToSet(T)
  BY <1>1, <1>5, <1>6, StillAhead
<1>8. Stays(w, L, T)
  BY <1>1, <1>5, <1>6, <1>7 DEF Stays, AllForward, storeVars, processVars, IInv, Typed, Mains
<1>9. Typed'
  BY <1>6, <1>7 DEF IInv, Typed, storeVars, processVars, WorkerStates
<1> QED
  BY <1>1, <1>8, <1>9

LEMMA SaveStays ==
  ASSUME IInv, NEW w \in Workers, SaveRow(w)
  PROVE  Typed' /\ \E L, T : Popping(w, L, T) /\ Stays(w, L, T)
<1>1. PICK L, T : Popping(w, L, T) /\ L[1].op = "save"
  BY Acting DEF SaveRow
<1>2. /\ L[1].stage \in Stages /\ Upcoming(w) = L[1] /\ Worked(w) \in WorkerStates /\ Worked(w).todo = T
      /\ Todo(w) = L /\ L # <<>> /\ L[1] \in Ops /\ Holding(w)
  BY <1>1 DEF Popping, Staged
<1>3. PICK s \in Stages : s = L[1].stage
  BY <1>2
<1> DEFINE held == work[w].held
           new == Changed(held, L[1].change, L[1].n, work[w].decision)
           next == [Worked(w) EXCEPT !.held = NoRow]
<1>4. held \in Rows /\ rows[s] \in Rows
  BY <1>1, <1>2, <1>3 DEF Holding, HoldsRow
<1>5. new \in Rows /\ (Forward(held) => Forward(new))
  <2>1. L[1].op = "save" /\ L[1].change \in Changes /\ L[1].n \in Nat
    BY <1>1, <1>2 DEF Ops, Simple, Asides
  <2>2. work[w].decision \in Nat
    BY <1>1 DEF Popping, WorkerStates
  <2> HIDE DEF held
  <2> QED
    BY <1>4, <2>1, <2>2, ChangedIs
<1>6. next \in WorkerStates /\ next.todo = T /\ next.held = NoRow
  BY <1>2 DEF WorkerStates
<1>7. /\ work' = [work EXCEPT ![w] = next] /\ rows' = [rows EXCEPT ![s] = new]
      /\ UNCHANGED <<status, graph, trail, audited, cut, torn, processVars>>
  BY <1>2, <1>3 DEF SaveRow
<1>8. AllForward => Forward(new)
  BY <1>5 DEF AllForward
<1> HIDE DEF next, new, held
<1>9. /\ work' \in [Workers -> WorkerStates] /\ \A v \in Workers \ {w} : work'[v] = work[v]
      /\ work'[w] = next /\ Ahead(w)' = ToSet(T)
  BY <1>1, <1>6, <1>7, StillAhead
<1>10. rows' \in [Stages -> Rows \cup {NoRow}] /\ rows'[s] = new /\ \A t \in Stages \ {s} : rows'[t] = rows[t]
  BY <1>5, <1>7 DEF IInv, Typed
<1>11. Stays(w, L, T)
  BY <1>1, <1>4, <1>5, <1>6, <1>7, <1>8, <1>9, <1>10, RowsAreSomething
     DEF Stays, processVars, IInv, Typed, Mains
<1>12. Typed'
  BY <1>7, <1>9, <1>10 DEF IInv, Typed, processVars, WorkerStates
<1> QED
  BY <1>1, <1>11, <1>12

LEMMA RecordStays ==
  ASSUME IInv, NEW w \in Workers, RecordDecision(w)
  PROVE  Typed' /\ \E L, T : Popping(w, L, T) /\ Stays(w, L, T)
<1>1. PICK L, T : Popping(w, L, T) /\ L[1].op = "record"
  BY Acting DEF RecordDecision
<1>2. /\ L[1].stage \in Stages /\ Upcoming(w) = L[1] /\ Worked(w) \in WorkerStates /\ Worked(w).todo = T
      /\ L[1] \in Ops
  BY <1>1 DEF Popping, Staged
<1>3. PICK s \in Stages : s = L[1].stage
  BY <1>2
<1>4. trail[s] \in Seq(Decisions) /\ [action |-> L[1].action, by |-> L[1].by] \in Decisions
  <2>1. L[1].action \in Actions /\ L[1].by \in Authors
    BY <1>1, <1>2 DEF Ops, Simple, Asides
  <2> QED
    BY <2>1 DEF IInv, Typed, Decisions
<1> DEFINE next == [Worked(w) EXCEPT !.decision = Len(trail[s]) + 1]
           d == [action |-> L[1].action, by |-> L[1].by]
<1>5. next \in WorkerStates /\ next.todo = T /\ next.held = Worked(w).held
  <2>1. Len(trail[s]) + 1 \in Nat
    BY <1>4
  <2> QED
    BY <1>2, <2>1 DEF WorkerStates
<1>6. /\ work' = [work EXCEPT ![w] = next] /\ trail' = [trail EXCEPT ![s] = Append(@, d)]
      /\ cut' = cut \ {s}
      /\ UNCHANGED <<status, graph, rows, audited, torn, processVars>>
  BY <1>2, <1>3 DEF RecordDecision
<1> HIDE DEF next, d
<1>7. /\ work' \in [Workers -> WorkerStates] /\ \A v \in Workers \ {w} : work'[v] = work[v]
      /\ work'[w] = next /\ Ahead(w)' = ToSet(T)
  BY <1>1, <1>5, <1>6, StillAhead
<1>8. trail' \in [Stages -> Seq(Decisions)]
  <2>1. d \in Decisions
    BY <1>4 DEF d
  <2>2. Append(trail[s], d) \in Seq(Decisions)
    BY <1>4, <2>1, AppendProperties
  <2>3. trail' = [trail EXCEPT ![s] = Append(trail[s], d)]
    BY <1>6
  <2> QED
    BY <2>2, <2>3 DEF IInv, Typed
<1>9. Stays(w, L, T)
  BY <1>1, <1>5, <1>6, <1>7, WorkedForward DEF Stays, processVars, IInv, Typed, Mains
<1>10. Typed'
  BY <1>6, <1>7, <1>8 DEF IInv, Typed, processVars, WorkerStates
<1> QED
  BY <1>1, <1>9, <1>10

LEMMA PlainStays ==
  ASSUME IInv, NEW w \in Workers,
         AppendAuditEvent(w) \/ UpdateRun(w) \/ UpdateGraph(w) \/ CreateRow(w)
  PROVE  Typed' /\ \E L, T : Popping(w, L, T) /\ Stays(w, L, T)
<1>1. PICK L, T : Popping(w, L, T) /\ L[1].op \in {"audit", "status", "graph", "create"}
                  /\ Works(w, L[1].op)
  BY Acting DEF AppendAuditEvent, UpdateRun, UpdateGraph, CreateRow
<1>2. /\ Staged(L[1]) => L[1].stage \in Stages
      /\ Upcoming(w) = L[1] /\ Worked(w) \in WorkerStates /\ Worked(w).todo = T
      /\ L[1] \in Ops /\ work[w] \in WorkerStates
  BY <1>1 DEF Popping
<1>3. /\ work' = [work EXCEPT ![w] = Worked(w)] /\ UNCHANGED <<trail, cut, th, mem, done, layer>>
      /\ main' \in Mains /\ main'.at = main.at
  BY DEF AppendAuditEvent, UpdateRun, UpdateGraph, CreateRow, processVars, IInv, Typed, Mains
<1>4. /\ work' \in [Workers -> WorkerStates] /\ \A v \in Workers \ {w} : work'[v] = work[v]
      /\ work'[w] = Worked(w) /\ Ahead(w)' = ToSet(T)
  BY <1>1, <1>2, <1>3, StillAhead
<1>5. AllForward => Forward(work'[w].held)
  BY <1>4, WorkedForward
<1>6. torn' \in SUBSET Workers /\ audited' \in [Stages -> SUBSET Nat]
  <2>1. CASE AppendAuditEvent(w)
    <3>1. work[w].decision \in Nat
      BY <1>2 DEF WorkerStates
    <3> QED
      BY <2>1, <3>1 DEF AppendAuditEvent, IInv, Typed
  <2>2. CASE ~AppendAuditEvent(w)
    BY <2>2 DEF UpdateRun, UpdateGraph, CreateRow, IInv, Typed
  <2> QED
    BY <2>1, <2>2
<1>7. CASE L[1].op = "graph"
  <2>1. graph' = L[1].to /\ rows' = rows
    BY <1>1, <1>2, <1>7 DEF AppendAuditEvent, UpdateRun, UpdateGraph, CreateRow, Works
  <2>2. graph' \in Graphs
    BY <1>2, <1>7, <2>1 DEF Ops, Simple, Asides
  <2>3. Stays(w, L, T)
    BY <1>1, <1>3, <1>4, <1>5, <1>7, <2>1 DEF Stays, IInv, Typed
  <2>4. Typed'
    BY <1>3, <1>4, <1>6, <2>1, <2>2 DEF IInv, Typed, WorkerStates, Mains
  <2> QED
    BY <1>1, <2>3, <2>4
<1>8. CASE L[1].op = "create"
  <2>1. PICK s \in Stages : s = L[1].stage
    BY <1>2, <1>8 DEF Staged
  <2>2. graph' = graph /\ rows' = [rows EXCEPT ![s] = NewRow]
    BY <1>1, <1>2, <1>8, <2>1 DEF AppendAuditEvent, UpdateRun, UpdateGraph, CreateRow, Works
  <2>3. /\ rows' \in [Stages -> Rows \cup {NoRow}] /\ rows'[s] = NewRow
        /\ \A t \in Stages \ {s} : rows'[t] = rows[t]
    BY <2>2, RowsAreSomething DEF IInv, Typed
  <2>4. Stays(w, L, T)
    BY <1>1, <1>3, <1>4, <1>5, <1>8, <2>1, <2>2, <2>3, RowsAreSomething DEF Stays
  <2>5. Typed'
    BY <1>3, <1>4, <1>6, <2>2, <2>3 DEF IInv, Typed, WorkerStates, Mains
  <2> QED
    BY <1>1, <2>4, <2>5
<1>9. CASE L[1].op \in {"audit", "status"}
  <2>1. graph' = graph /\ rows' = rows
    BY <1>1, <1>2, <1>9 DEF AppendAuditEvent, UpdateRun, UpdateGraph, CreateRow, Works
  <2>2. Stays(w, L, T)
    BY <1>1, <1>3, <1>4, <1>5, <1>9, <2>1 DEF Stays, IInv, Typed
  <2>3. Typed'
    BY <1>3, <1>4, <1>6, <2>1 DEF IInv, Typed, WorkerStates, Mains
  <2> QED
    BY <1>1, <2>2, <2>3
<1> QED
  BY <1>1, <1>7, <1>8, <1>9

LEMMA AsideStays ==
  ASSUME IInv, NEW w \in Workers, SetAside(w)
  PROVE  Typed' /\ \E L, T : Popping(w, L, T) /\ Stays(w, L, T)
<1>1. PICK L, T : Popping(w, L, T) /\ L[1].op = "aside"
  BY Acting DEF SetAside
<1>2. /\ L[1].stage \in Stages /\ Upcoming(w) = L[1] /\ Worked(w) \in WorkerStates /\ Worked(w).todo = T
      /\ Todo(w) = L /\ L # <<>> /\ L \in Seq(Ops) /\ L[1] \in Ops /\ L[1] \in Ahead(w) /\ Holding(w)
      /\ T = Tail(L) /\ T \in Seq(Ops) /\ Paired(L) /\ Listed(w)
  BY <1>1 DEF Popping, Staged
<1>3. PICK s \in Stages : s = L[1].stage
  BY <1>2
<1>4. PICK log \in AsideLogs(s) : log = L[1].log
  <2>1. L[1] \in Asides
    BY <1>1, <1>2 DEF Ops, Simple
  <2> QED
    BY <1>3, <2>1 DEF Asides
<1>5. w = Runner
  BY <1>1, <1>2, OnlyRunner
<1>6. work[w].held = rows[s] /\ rows[s] \in Rows
  <2>1. ~Guest(w, s) /\ HoldsRow(w, s)
    BY <1>1, <1>2, <1>3, <1>5, LineageAssumption DEF Holding, Guest
  <2> QED
    BY <2>1 DEF HoldsRow
<1> DEFINE new == Changed(rows[s], "set_aside", 0, 0)
           joined == [Worked(w) EXCEPT !.todo = log \o T]
<1>7. new \in Rows /\ Forward(new)
  BY <1>6 DEF Changed, Rows, Statuses, Forward, Terminal
<1>8. \A o \in ToSet(log \o T) : o \in ToSet(T) \/ o.op \in {"load", "save", "record", "audit"}
  <2>1. CASE log = <<>>
    BY <1>2, <2>1, ConcatEmptySeq
  <2>2. CASE log # <<>>
    <3>1. PICK Q : Q = log \o T
      OBVIOUS
    <3>2. JoinedAside(s, log, T, Q)
      <4>1. Spoken(L)
        BY <1>2 DEF Listed
      <4> QED
        BY <1>1, <1>2, <2>2, <3>1, <4>1, JoinAside
    <3>3. \A o \in ToSet(Q) : o \in ToSet(T) \/ o.op \in {"load", "save", "record", "audit"}
      BY <3>2 DEF JoinedAside, ToSet
    <3> QED
      BY <3>1, <3>3, Zenon
  <2> QED
    BY <2>1, <2>2
<1>9. log \o T \in Seq(Ops)
  <2>1. log \in Seq(Ops)
    <3>1. log \in Seq(Simple)
      BY <1>1, <1>2, <1>4 DEF Ops, Asides, Simple
    <3> QED
      BY <3>1, SeqMonotonic DEF Ops
  <2> QED
    BY <1>2, <2>1, ConcatProperties
<1>10. joined \in WorkerStates /\ joined.todo = log \o T /\ joined.held = Worked(w).held
  BY <1>2, <1>9 DEF WorkerStates
<1>11. /\ UNCHANGED <<status, graph, trail, audited, cut, torn, processVars>>
       /\ \/ work' = [work EXCEPT ![w] = Worked(w)] /\ rows' = rows
          \/ work' = [work EXCEPT ![w] = joined] /\ rows' = [rows EXCEPT ![s] = new]
  <2>1. [Worked(w) EXCEPT !.todo = log \o @] = joined
    BY <1>2
  <2> QED
    BY <1>2, <1>3, <1>4, <1>6, <2>1 DEF SetAside
<1> HIDE DEF new, joined
<1>12. CASE work' = [work EXCEPT ![w] = Worked(w)] /\ rows' = rows
  <2>1. /\ work' \in [Workers -> WorkerStates] /\ \A v \in Workers \ {w} : work'[v] = work[v]
        /\ work'[w] = Worked(w) /\ Ahead(w)' = ToSet(T)
    BY <1>1, <1>2, <1>12, StillAhead, ZenonT(60)
  <2>2. Stays(w, L, T)
    BY <1>1, <1>11, <1>12, <2>1, WorkedForward DEF Stays, processVars, IInv, Typed, Mains
  <2>3. Typed'
    BY <1>11, <1>12, <2>1 DEF IInv, Typed, processVars, WorkerStates
  <2> QED
    BY <1>1, <2>2, <2>3
<1>13. CASE work' = [work EXCEPT ![w] = joined] /\ rows' = [rows EXCEPT ![s] = new]
  <2>1. /\ work' \in [Workers -> WorkerStates] /\ \A v \in Workers \ {w} : work'[v] = work[v]
        /\ work'[w] = joined /\ Ahead(w)' = ToSet(joined.todo)
    BY <1>1, <1>10, <1>13, StillAhead
  <2>2. /\ rows' \in [Stages -> Rows \cup {NoRow}] /\ rows'[s] = new
        /\ \A t \in Stages \ {s} : rows'[t] = rows[t]
    BY <1>7, <1>13 DEF IInv, Typed
  <2>3. \A o \in Ahead(w)' : o \in ToSet(T) \/ o.op \in {"load", "save", "record", "audit"}
    BY <1>8, <1>10, <2>1
  <2>4. Stays(w, L, T)
    BY <1>1, <1>5, <1>6, <1>7, <1>10, <1>11, <2>1, <2>2, <2>3, WorkedForward
       DEF Stays, processVars, IInv, Typed, Mains
  <2>5. Typed'
    BY <1>11, <2>1, <2>2 DEF IInv, Typed, processVars, WorkerStates
  <2> QED
    BY <1>1, <2>4, <2>5
<1> QED
  BY <1>11, <1>12, <1>13

-----------------------------------------------------------------------------
(* The invariant *)

Inductive == IInv /\ Rowed /\ AllForward

LEMMA TransactionKeeps ==
  ASSUME Inductive, NEW w \in Workers, Transaction(w), ~RaiseKeyError(w)
  PROVE  Inductive'
<1>1. IInv /\ Rowed /\ AllForward
  BY DEF Inductive
<1>2. Typed' /\ \E L, T : Popping(w, L, T) /\ Stays(w, L, T)
  BY <1>1, LoadStays, SaveStays, RecordStays, PlainStays, AsideStays DEF Transaction
<1>3. PICK L, T : Popping(w, L, T) /\ Stays(w, L, T)
  BY <1>2
<1>4. Order' /\ Grown' /\ Inserting' /\ Rowed' /\ AllForward'
  BY <1>1, <1>3, StaysInOrder, StaysGrown, StaysRowed
<1>5. Lists' /\ Store'
  BY <1>1, LoadKeeps, SaveKeeps, RecordKeeps, AuditKeeps, AsideKeeps, StatusKeeps, CreateKeeps
     DEF Transaction
<1> QED
  BY <1>2, <1>4, <1>5 DEF Inductive, IInv

LEMMA RaiseKeyErrorKeeps ==
  ASSUME Inductive, NEW w \in Workers, RaiseKeyError(w)
  PROVE  Inductive'
<1>1. IInv /\ Rowed /\ AllForward
  BY DEF Inductive
<1>2. /\ work' = [work EXCEPT ![w] = Resting] /\ ~Free(w)
      /\ th' = [s \in Stages |-> IF s = w THEN NoThread ELSE th[s]]
      /\ main' = [main EXCEPT !.at = IF w = Runner THEN "idle" ELSE "raised"]
      /\ cut' = cut \cup StagesOf(work[w].todo)
      /\ torn' = torn \cup CallAtWork
      /\ UNCHANGED <<storeVars, mem, done, layer, calls>>
  BY DEF RaiseKeyError, Works, Free
<1>3. work \in [Workers -> WorkerStates] /\ Resting \in WorkerStates /\ Resting.held = NoRow
      /\ NoThread \in ThreadStates /\ NoThread.at = "none" /\ Resting.todo = <<>>
      /\ main \in Mains /\ th \in [Stages -> ThreadStates]
  BY <1>1 DEF IInv, Typed, WorkerStates, Resting, NoThread, ThreadStates, Places, Mains
<1>4. /\ work' \in [Workers -> WorkerStates] /\ work'[w] = Resting
      /\ \A v \in Workers \ {w} : work'[v] = work[v]
      /\ main' \in Mains /\ main'.at = IF w = Runner THEN "idle" ELSE "raised"
      /\ th' \in [Stages -> ThreadStates] /\ \A s \in Stages : th'[s] = th[s] \/ th'[s].at = "none"
  BY <1>2, <1>3 DEF Mains
<1>5. Free(w)' /\ \A v \in Workers : (Free(v) => Free(v)') /\ (Ahead(v)' = Ahead(v) \/ Ahead(v)' = {})
  <2>1. Free(w)' /\ Ahead(w)' = {}
    BY <1>3, <1>4 DEF Free, Ahead, Todo, ToSet
  <2> QED
    BY <1>4, <2>1 DEF Free, Ahead, Todo
<1>6. Runner \in Workers /\ \A s \in Stages : s \in Workers /\ s # Runner
  BY LineageAssumption DEF Workers
<1>7. CallAtWork \subseteq Workers /\ StagesOf(work[w].todo) \subseteq Stages
  BY <1>3, <1>6 DEF CallAtWork, StagesOf, Mains, Workers
<1>8. Typed'
  BY <1>1, <1>2, <1>4, <1>7 DEF IInv, Typed, WorkerStates, ThreadStates, Mains, storeVars
<1>9. Phase'
  <2>1. Phase
    BY <1>1 DEF IInv, Order
  <2>2. CASE w = Runner
    <3>1. \A s \in Stages : Free(s) /\ Free(s)'
      BY <1>2, <1>5, <1>6, <2>1, <2>2 DEF Phase
    <3>2. ~Running' /\ Free(Runner)'
      BY <1>4, <1>5, <2>2 DEF Running
    <3>3. \A s \in Stages : \A o \in Ahead(s)' : FALSE
      BY <1>5, <1>6, <3>1, AheadIs
    <3> QED
      BY <3>1, <3>2, <3>3 DEF Phase
  <2>3. CASE w # Runner
    <3>1. w \in Stages /\ Running /\ Free(Runner) /\ Free(Runner)' /\ Running'
      BY <1>2, <1>4, <1>5, <1>6, <2>1, <2>3 DEF Phase, Running, Workers
    <3>2. \A s \in Stages : th'[s].at # "none" \/ ~Free(s)' => s \in layer'
      BY <1>2, <1>4, <1>5, <1>6, <2>1, <3>1 DEF Phase
    <3>3. \A s \in Stages : \A o \in Ahead(s)' :
             Own(s, o) \/ (SkipOp(o) /\ o.stage \in DownstreamOf(mem', s))
      BY <1>2, <1>5, <1>6, <2>1 DEF Phase
    <3> QED
      BY <3>1, <3>2, <3>3 DEF Phase, Own, SkipOp
  <2> QED
    BY <2>2, <2>3
<1>10. Walk'
  <2>1. CASE w = Runner
    BY <1>4, <2>1 DEF Walk
  <2>2. CASE w # Runner
    <3>1. Running /\ main.at # "idle"
      BY <1>1, <1>2, <2>2 DEF IInv, Order, Phase, Workers, Running
    <3> QED
      BY <1>1, <1>2, <3>1 DEF IInv, Order, Walk
  <2> QED
    BY <2>1, <2>2
<1>11. Grown' /\ Inserting'
  BY <1>1, <1>2, <1>5, <1>6 DEF IInv, Grown, Grows, Inserting, Respliced, storeVars
<1>12. Rowed' /\ AllForward'
  BY <1>1, <1>2, <1>3, <1>4, RowsAreSomething DEF Rowed, AllForward, storeVars, Forward
<1>13. Lists' /\ Store'
  BY <1>1, RaiseKeeps
<1> QED
  BY <1>8, <1>9, <1>10, <1>11, <1>12, <1>13 DEF Inductive, IInv, Order

LEMMA CrashKeepsAll ==
  ASSUME Inductive, Crash
  PROVE  Inductive'
<1>1. IInv /\ Rowed /\ AllForward
  BY DEF Inductive
<1>2. /\ work' = [w \in Workers |-> Resting] /\ th' = [s \in Stages |-> NoThread]
      /\ main' = [at |-> "idle", target |-> {}]
      /\ mem' = InitialGraph /\ layer' = {} /\ done' = {}
      /\ cut' = cut \cup UNION {StagesOf(work[w].todo) : w \in Workers}
      /\ torn' = torn \cup CallAtWork
      /\ UNCHANGED storeVars
  BY DEF Crash
<1>3. /\ Resting \in WorkerStates /\ Resting.held = NoRow /\ Resting.todo = <<>>
      /\ NoThread \in ThreadStates /\ NoThread.at = "none" /\ main \in Mains
  BY <1>1 DEF IInv, Typed, WorkerStates, Resting, NoThread, ThreadStates, Places, Mains
<1>4. Runner \in Workers /\ \A s \in Stages : s \in Workers
  BY DEF Workers
<1>5. \A v \in Workers : Free(v)' /\ Ahead(v)' = {} /\ work'[v].held = NoRow
  BY <1>2, <1>3 DEF Free, Ahead, Todo, ToSet
<1>6. Typed'
  <2>1. CallAtWork \subseteq Workers /\ \A w \in Workers : StagesOf(work[w].todo) \subseteq Stages
    BY <1>3 DEF CallAtWork, StagesOf, Mains, Workers
  <2>2. cut' \in SUBSET Stages /\ torn' \in SUBSET Workers
    BY <1>1, <1>2, <2>1 DEF IInv, Typed
  <2>3. mem' \in Graphs
    BY <1>2, LineageAssumption DEF Graphs
  <2>4. main' \in Mains /\ th' \in [Stages -> ThreadStates] /\ work' \in [Workers -> WorkerStates]
    BY <1>2, <1>3 DEF Mains
  <2> QED
    BY <1>1, <1>2, <2>2, <2>3, <2>4 DEF IInv, Typed, WorkerStates, ThreadStates, Mains, storeVars
<1>7. Order'
  BY <1>2, <1>4, <1>5 DEF Order, Phase, Walk, Running
<1>8. Grown' /\ Inserting'
  BY <1>1, <1>2, <1>4, <1>5 DEF IInv, Grown, Grows, Inserting, storeVars
<1>9. Rowed' /\ AllForward'
  BY <1>1, <1>2, <1>3, <1>5, RowsAreSomething DEF Rowed, AllForward, storeVars, Forward
<1>10. Lists' /\ Store'
  BY <1>1, CrashKeeps
<1> QED
  BY <1>6, <1>7, <1>8, <1>9, <1>10 DEF Inductive, IInv

LEMMA ControlKeeps ==
  ASSUME Inductive,
         \/ CallRun \/ PlanLayer \/ Join \/ Finalize
         \/ \E s \in Stages : ThreadStep(s) \/ Rollback(s) \/ Invalidate(s)
         \/ \E new \in Insertions : InsertStage(new)
  PROVE  IInv' /\ Rowed'
<1>1. IInv /\ Rowed
  BY DEF Inductive
<1> QED
  BY <1>1, RunStepKeeps, ThreadStepKeeps, RollbackKeeps,
     InvalidateKeeps, InsertStageKeeps

LEMMA HeldStays ==
  ASSUME Typed, AllForward, NEW w \in Workers, NEW list, Do(w, list), rows' = rows
  PROVE  AllForward'
<1>1. work \in [Workers -> WorkerStates]
  BY DEF Typed, WorkerStates
<1>2. work' = [work EXCEPT ![w] = [work[w] EXCEPT !.todo = list]]
  BY DEF Do
<1>3. [work[w] EXCEPT !.todo = list].held = work[w].held
  BY <1>1 DEF WorkerStates
<1>4. \A v \in Workers : work'[v].held = work[v].held
  BY <1>1, <1>2, <1>3
<1> QED
  BY <1>4 DEF AllForward, Forward

LEMMA ControlForward ==
  ASSUME Inductive,
         \/ CallRun \/ PlanLayer \/ Join \/ Finalize
         \/ \E s \in Stages : ThreadStep(s) \/ Rollback(s) \/ Invalidate(s)
         \/ \E new \in Insertions : InsertStage(new)
  PROVE  AllForward'
<1>1. rows' = rows
  BY ZenonT(60) DEF CallRun, PlanLayer, Join, Finalize, Rollback, Invalidate, InsertStage, Operate, storeVars,
     ThreadStep, StartThread, EntryBlocks, EntryRejects, Enter, AgentFails, AgentSucceeds, ExitPasses,
     ExitBlocks, ExitFails, TryAgain, GiveUp, Propagate, Proceed, Quit
<1>2. work' = work \/ \E w \in Workers : \E list : Do(w, list)
  <2>1. ASSUME NEW s \in Stages, ThreadStep(s) PROVE \E list : Do(s, list)
    BY <2>1 DEF ThreadStep, StartThread, EntryBlocks, EntryRejects, Enter, AgentFails, AgentSucceeds,
       ExitPasses, ExitBlocks, ExitFails, TryAgain, GiveUp, Propagate, Proceed, Quit
  <2>2. ASSUME \/ \E s \in Stages : Rollback(s) \/ Invalidate(s)
               \/ \E new \in Insertions : InsertStage(new)
        PROVE  \E list : Do(Runner, list)
    BY <2>2 DEF Rollback, Invalidate, InsertStage, Operate
  <2>3. ASSUME CallRun \/ PlanLayer \/ Finalize PROVE \E list : Do(Runner, list)
    BY <2>3 DEF CallRun, PlanLayer, Finalize, ReturnWith
  <2>4. ASSUME Join PROVE work' = work \/ \E list : Do(Runner, list)
    BY <2>4 DEF Join, ReturnWith
  <2> QED
    BY <2>1, <2>2, <2>3, <2>4 DEF Workers
<1>3. Typed /\ AllForward
  BY DEF Inductive, IInv
<1>4. CASE work' = work
  BY <1>1, <1>3, <1>4 DEF AllForward
<1>5. CASE \E w \in Workers : \E list : Do(w, list)
  BY <1>1, <1>3, <1>5, HeldStays
<1> QED
  BY <1>2, <1>4, <1>5

LEMMA InductiveInit == Init => Inductive
<1> SUFFICES ASSUME Init PROVE Inductive
  OBVIOUS
<1>1. /\ graph = InitialGraph /\ mem = InitialGraph /\ main = [at |-> "idle", target |-> {}]
      /\ rows = [s \in Stages |-> IF s \in InitialGraph.nodes THEN NewRow ELSE NoRow]
      /\ trail = [s \in Stages |-> <<>>] /\ audited = [s \in Stages |-> {}]
      /\ work = [w \in Workers |-> Resting] /\ th = [s \in Stages |-> NoThread]
      /\ done = {} /\ layer = {} /\ cut = {} /\ torn = {}
  BY DEF Init
<1>2. /\ Resting \in WorkerStates /\ Resting.held = NoRow /\ Resting.todo = <<>>
      /\ NoThread \in ThreadStates /\ NoThread.at = "none" /\ main \in Mains
  BY <1>1 DEF WorkerStates, Resting, NoThread, ThreadStates, Places, Mains
<1>3. InitialGraph \in Graphs
  BY LineageAssumption DEF Graphs
<1>4. Typed
  BY <1>1, <1>2, <1>3, RowsAreSomething DEF Typed, WorkerStates, ThreadStates, Mains
<1>5. Runner \in Workers /\ \A s \in Stages : s \in Workers
  BY DEF Workers
<1>6. \A v \in Workers : Free(v) /\ Todo(v) = <<>> /\ Ahead(v) = {} /\ work[v].held = NoRow
  BY <1>1, <1>2 DEF Free, Ahead, Todo, ToSet
<1>7. Order
  BY <1>1, <1>5, <1>6 DEF Order, Phase, Walk, Running
<1>8. Lists
  BY <1>6 DEF Lists, Listed, Paired, Spoken, Reasoning, Holding
<1>9. ASSUME NEW s \in Stages PROVE Linked(s) /\ Told(s) /\ AtWork(s)
  <2>1. Linked(s) /\ AtWork(s)
    BY <1>1 DEF Linked, AtWork, Running
  <2>2. LastOf(s) = "none"
    BY <1>1 DEF LastOf
  <2>3. rows[s] = NoRow \/ rows[s].status \in Explained(LastOf(s))
    BY <1>1, <2>2 DEF NewRow, Explained
  <2> QED
    BY <2>1, <2>3 DEF Told
<1>10. Grown /\ Inserting
  BY <1>1, <1>3, <1>5, <1>6, LineageAssumption DEF Grown, Grows, Inserting, Graphs
<1>11. Rowed /\ AllForward
  BY <1>1, <1>2, <1>6, RowsAreSomething DEF Rowed, AllForward
<1> QED
  BY <1>4, <1>7, <1>8, <1>9, <1>10, <1>11 DEF Inductive, IInv, Store

LEMMA InductiveStutters ==
  ASSUME Inductive, UNCHANGED vars
  PROVE  Inductive'
<1>1. /\ graph' = graph /\ rows' = rows /\ trail' = trail /\ audited' = audited /\ work' = work
      /\ th' = th /\ main' = main /\ mem' = mem /\ done' = done /\ layer' = layer
      /\ cut' = cut /\ torn' = torn
  BY DEF vars, storeVars
<1>2. Typed' /\ Grown' /\ Rowed' /\ AllForward'
  BY <1>1 DEF Inductive, IInv, Typed, Grown, Grows, Rowed, AllForward, Forward
<1>3. \A w \in Workers : Todo(w)' = Todo(w) /\ Ahead(w)' = Ahead(w) /\ (Free(w)' <=> Free(w))
  BY <1>1 DEF Todo, Ahead, Free
<1>4. Runner \in Workers /\ \A s \in Stages : s \in Workers
  BY DEF Workers
<1>5. Order'
  BY <1>1, <1>3, <1>4 DEF Inductive, IInv, Order, Phase, Walk, Running, Own, SkipOp
<1>6. Inserting'
  BY <1>1, <1>3, <1>4 DEF Inductive, IInv, Inserting, Grows, Respliced
<1>7. \A w \in Workers : Listed(w)' /\ Reasoning(w)' /\ Holding(w)'
  BY <1>1, OthersStand DEF Inductive, IInv
<1>8. ASSUME NEW s \in Stages PROVE Linked(s)' /\ Told(s)' /\ AtWork(s)'
  BY <1>1, <1>3, <1>4 DEF Inductive, IInv, Store, Linked, Important, Told, LastOf, Respliced,
     IsRecord, AtWork, Running, IsSave
<1> QED
  BY <1>2, <1>5, <1>6, <1>7, <1>8 DEF Inductive, IInv, Lists, Store

(* What TypeOK is elsewhere, and the order and the content of every list   *)
(* of transactions: it is kept by every step, and implies what follows.    *)
THEOREM InductiveAlways == Spec => []Inductive
<1>1. Inductive /\ [Next]_vars => Inductive'
  <2> SUFFICES ASSUME Inductive, [Next]_vars PROVE Inductive'
    OBVIOUS
  <2>1. CASE UNCHANGED vars
    BY <2>1, InductiveStutters
  <2>2. CASE \E w \in Workers : Transaction(w)
    BY <2>2, TransactionKeeps, RaiseKeyErrorKeeps
  <2>3. CASE Crash
    BY <2>3, CrashKeepsAll
  <2>4. CASE \/ CallRun \/ PlanLayer \/ Join \/ Finalize
             \/ \E s \in Stages : ThreadStep(s) \/ Rollback(s) \/ Invalidate(s)
             \/ \E new \in Insertions : InsertStage(new)
    <3>1. IInv' /\ Rowed'
      BY <2>4, ControlKeeps
    <3>2. AllForward'
      BY <2>4, ControlForward
    <3> QED
      BY <3>1, <3>2 DEF Inductive
  <2> QED
    BY <2>1, <2>2, <2>3, <2>4 DEF Next
<1> QED
  BY <1>1, InductiveInit, PTL DEF Spec

-----------------------------------------------------------------------------
(* What the trail tells *)

(* Whoever interleaves with whom, and wherever the process dies: a decision *)
(* of the executor whose event is in the audit log is linked from the row  *)
(* of its stage (_log_decision, executor.py), skips apart.                 *)
THEOREM DecisionsAreLinkedAlways == Spec => []DecisionsAreLinked
<1>1. Inductive => DecisionsAreLinked
  BY DEF Inductive, IInv, Store, Linked, Important, DecisionsAreLinked
<1> QED
  BY <1>1, InductiveAlways, PTL

(* Where nothing is under way and nothing was lost in a crash, the last    *)
(* decision about a stage tells the status of its row (models.py:216-219), *)
(* but for the stages an insertion has set aside.                          *)
THEOREM TrailExplainsRowsAlways == Spec => []TrailExplainsRows
<1>1. Inductive => TrailExplainsRows
  <2> SUFFICES ASSUME Inductive, NEW s \in Stages
               PROVE  \/ rows[s].status \in Explained(LastOf(s))
                      \/ rows[s].status = "stale" /\ Respliced(s)
                      \/ ~Settled(s)
    BY DEF TrailExplainsRows
  <2>1. Told(s)
    BY DEF Inductive, IInv, Store
  <2>2. ASSUME NEW w \in Workers, NEW o \in Ahead(w), IsRecord(o, s) PROVE ~Quiet(s)
    <3>1. PICK i \in DOMAIN work[w].todo : o = work[w].todo[i]
      BY DEF Ahead, Todo, ToSet
    <3>2. s \in StagesOf(work[w].todo)
      BY <2>2, <3>1 DEF StagesOf, IsRecord
    <3> QED
      BY <3>2 DEF Quiet
  <2> QED
    BY <2>1, <2>2 DEF Told, Settled
<1> QED
  BY <1>1, InductiveAlways, PTL

(* The duration that the report gives for a stage that is done is not      *)
(* negative (observability.py:31-40).                                      *)
THEOREM DurationsRunForwardAlways == Spec => []DurationsRunForward
<1>1. Inductive => DurationsRunForward
  BY DEF Inductive, AllForward, Forward, DurationsRunForward, StageDuration
<1> QED
  BY <1>1, InductiveAlways, PTL

-----------------------------------------------------------------------------
(* The recoveries *)

Fails(decisions, i) == decisions[i].action \in FailureActions
Passes(decisions, i) == decisions[i].action = "stage_passed"
(* Nothing in s that comes between two decisions ends the first. *)
Unanswered(decisions, s, i, j) ==
    \A k \in s : i < k /\ k < j => ~Fails(decisions, k) /\ ~Passes(decisions, k)

(* mean_time_to_recovery, with its recursion named. *)
Scan(decisions, scan, i) ==
    CASE decisions[i].action \in FailureActions -> [scan EXCEPT !.last = i]
      [] decisions[i].action = "stage_passed" /\ scan.last # 0 ->
           [last |-> 0, found |-> scan.found \cup {<<scan.last, i>>}]
      [] OTHER -> scan
Indices(decisions) == [i \in 1 .. Len(decisions) |-> i]
Scanning(decisions, f) ==
    [s \in SUBSET DOMAIN Indices(decisions) |->
        IF s = {} THEN [last |-> 0, found |-> {}]
        ELSE Scan(decisions, f[s \ {Max(s)}], Indices(decisions)[Max(s)])]
Scans(decisions) == CHOOSE f : f = Scanning(decisions, f)

LEMMA RecoveriesIs ==
  ASSUME NEW decisions
  PROVE  Recoveries(decisions) = Scans(decisions)[DOMAIN Indices(decisions)].found
BY DEF Recoveries, FoldLeft, MapThenFoldSet, Scans, Scanning, Scan, Indices

(* What the scan has found when it has seen the decisions of s: the last   *)
(* failure that is still to be recovered from, and the recoveries so far.  *)
Pending(decisions, s) ==
    {i \in s : Fails(decisions, i) /\ \A k \in s : i < k => ~Fails(decisions, k) /\ ~Passes(decisions, k)}
Found(decisions, s) ==
    {span \in s \X s : /\ span[1] < span[2]
                       /\ Fails(decisions, span[1]) /\ Passes(decisions, span[2])
                       /\ Unanswered(decisions, s, span[1], span[2])}
Scanned(decisions, s) ==
    [last |-> IF Pending(decisions, s) = {} THEN 0 ELSE Max(Pending(decisions, s)),
     found |-> Found(decisions, s)]

(* No decision passes and fails; and one failure at most is pending. *)
LEMMA PendingOnce ==
  ASSUME NEW decisions, NEW s \in SUBSET Nat, NEW i \in Pending(decisions, s)
  PROVE  Pending(decisions, s) = {i} /\ Max(Pending(decisions, s)) = i
<1>1. ASSUME NEW j \in Pending(decisions, s) PROVE j = i
  <2>1. i \in Nat /\ j \in Nat /\ ~(i < j) /\ ~(j < i)
    BY DEF Pending
  <2> QED
    BY <2>1
<1>2. Pending(decisions, s) = {i} /\ i \in Nat
  BY <1>1 DEF Pending
<1> QED
  BY <1>2 DEF Max

LEMMA ScannedMore ==
  ASSUME NEW decisions, NEW s \in SUBSET (Nat \ {0}), NEW n \in s, \A k \in s : k <= n
  PROVE  Scanned(decisions, s) = Scan(decisions, Scanned(decisions, s \ {n}), n)
<1> DEFINE r == s \ {n}
           before == Scanned(decisions, r)
<1>1. n \in Nat \ {0} /\ r \in SUBSET (Nat \ {0}) /\ \A k \in r : k < n /\ ~(n < k) /\ k # n
  OBVIOUS
<1>2. before.found = Found(decisions, r) /\ Scanned(decisions, s).found = Found(decisions, s)
  BY DEF Scanned
<1>3. /\ Pending(decisions, r) = {} => before.last = 0
      /\ \A i \in Pending(decisions, r) : before.last = i /\ i # 0
  BY <1>1, PendingOnce DEF Scanned, Pending
<1>4. /\ Pending(decisions, s) = {} => Scanned(decisions, s).last = 0
      /\ \A i \in Pending(decisions, s) : Scanned(decisions, s).last = i /\ i # 0
  BY PendingOnce DEF Scanned, Pending
<1>5. ASSUME NEW i \in r, NEW j \in r
      PROVE  Unanswered(decisions, r, i, j) <=> Unanswered(decisions, s, i, j)
  BY <1>1 DEF Unanswered
<1>6. Found(decisions, r) \subseteq Found(decisions, s)
  BY <1>5 DEF Found
<1>7. ASSUME NEW i \in s, NEW j \in r, <<i, j>> \in Found(decisions, s)
      PROVE  <<i, j>> \in Found(decisions, r)
  BY <1>1, <1>5, <1>7 DEF Found
<1>8. ASSUME NEW i \in s
      PROVE  <<i, n>> \in Found(decisions, s) <=> Passes(decisions, n) /\ i \in Pending(decisions, r)
  BY <1>1 DEF Found, Pending, Unanswered
<1>9. Scanned(decisions, s) = [last |-> Scanned(decisions, s).last, found |-> Found(decisions, s)]
  BY DEF Scanned
<1>10. before = [last |-> before.last, found |-> Found(decisions, r)]
  BY DEF Scanned
<1>11. ASSUME NEW span \in Found(decisions, s)
       PROVE  \/ span \in Found(decisions, r)
              \/ Passes(decisions, n) /\ \E i \in Pending(decisions, r) : span = <<i, n>>
  <2>1. PICK i \in s, j \in s : span = <<i, j>>
    <3>1. Found(decisions, s) \subseteq s \X s
      BY DEF Found
    <3> HIDE DEF r, before
    <3>2. span \in s \X s
      BY <1>11, <3>1
    <3>3. span = <<span[1], span[2]>> /\ span[1] \in s /\ span[2] \in s
      BY <3>2
    <3> QED
      BY <3>3
  <2>2. <<i, j>> \in Found(decisions, s)
    BY <2>1
  <2>3. CASE j = n
    BY <1>8, <2>1, <2>2, <2>3
  <2>4. CASE j \in r
    BY <1>7, <2>1, <2>2, <2>4
  <2> QED
    BY <2>3, <2>4
<1> HIDE DEF before
<1> DEFINE after == Scanned(decisions, s)
<1>15. after = [last |-> after.last, found |-> Found(decisions, s)]
  BY <1>9
<1>16. /\ Pending(decisions, s) = {} => after.last = 0
       /\ \A i \in Pending(decisions, s) : after.last = i
  BY <1>4
<1> HIDE DEF after, r
<1> SUFFICES after = Scan(decisions, before, n)
  BY DEF after, before, r
<1>12. CASE Fails(decisions, n)
  <2>1. ~Passes(decisions, n)
    BY <1>12 DEF Fails, Passes, FailureActions
  <2>2. n \in Pending(decisions, s)
    BY <1>1, <1>12 DEF Pending, r
  <2>3. Found(decisions, s) = Found(decisions, r)
    BY <1>6, <1>11, <2>1
  <2>4. Scan(decisions, before, n) = [before EXCEPT !.last = n]
    BY <1>12, <2>1 DEF Scan, Fails, Passes
  <2>5. [before EXCEPT !.last = n] = [last |-> n, found |-> Found(decisions, r)]
    <3>1. PICK x : before = [last |-> x, found |-> Found(decisions, r)]
      BY <1>10
    <3> QED
      BY <3>1
  <2>6. after.last = n
    BY <1>16, <2>2
  <2> QED
    BY <1>15, <2>3, <2>4, <2>5, <2>6
<1>13. CASE ~Fails(decisions, n) /\ Passes(decisions, n)
  <2>1. Pending(decisions, s) = {}
    BY <1>1, <1>13 DEF Pending, r
  <2>2. CASE Pending(decisions, r) = {}
    <3>1. Found(decisions, s) = Found(decisions, r)
      BY <1>6, <1>11, <2>2
    <3>2. Scan(decisions, before, n) = before
      BY <1>3, <1>13, <2>2 DEF Scan, Fails
    <3> QED
      BY <1>3, <1>10, <1>15, <1>16, <2>1, <2>2, <3>1, <3>2
  <2>3. CASE Pending(decisions, r) # {}
    <3>1. PICK i \in Pending(decisions, r) : TRUE
      BY <2>3
    <3>2. Pending(decisions, r) = {i} /\ i \in s
      BY <1>1, <3>1, PendingOnce DEF Pending, r
    <3>3. Found(decisions, s) = Found(decisions, r) \cup {<<i, n>>}
      BY <1>6, <1>8, <1>11, <1>13, <3>2
    <3>4. before.last = i /\ i # 0
      BY <1>3, <3>1
    <3>5. Scan(decisions, before, n) = [last |-> 0, found |-> before.found \cup {<<i, n>>}]
      BY <1>13, <3>4 DEF Scan, Fails, Passes
    <3> QED
      BY <1>10, <1>15, <1>16, <2>1, <3>3, <3>5
  <2> QED
    BY <2>2, <2>3
<1>14. CASE ~Fails(decisions, n) /\ ~Passes(decisions, n)
  <2>1. Pending(decisions, s) = Pending(decisions, r)
    BY <1>1, <1>14 DEF Pending, r
  <2>2. Found(decisions, s) = Found(decisions, r)
    BY <1>6, <1>11, <1>14
  <2>3. Scan(decisions, before, n) = before
    BY <1>14 DEF Scan, Fails, Passes
  <2> QED
    <3>1. after.last = before.last
      BY <1>3, <1>16, <2>1
    <3> QED
      BY <1>10, <1>15, <2>2, <2>3, <3>1
<1> QED
  BY <1>12, <1>13, <1>14

(* The greatest of the first numbers. *)
LEMMA GreatestIs ==
  ASSUME NEW n \in Nat, NEW s \in SUBSET (1 .. n), s # {}
  PROVE  Max(s) \in s /\ \A k \in s : k <= Max(s)
<1> DEFINE P == {m \in Nat : n - m \in s /\ m <= n}
<1>1. PICK k \in s : TRUE
  OBVIOUS
<1>2. n - k \in Nat /\ n - (n - k) = k /\ n - k <= n
  BY <1>1
<1>3. P \in SUBSET Nat /\ P # {}
  BY <1>2
<1>4. PICK m \in P : \A j \in P : m <= j
  <2> HIDE DEF P
  <2> QED
    BY <1>3, LeastNumber
<1>5. n - m \in s
  OBVIOUS
<1>6. ASSUME NEW j \in s PROVE n - m >= j
  <2>1. n - j \in Nat /\ n - (n - j) = j /\ n - j <= n
    OBVIOUS
  <2>2. n - j \in P
    BY <2>1
  <2> QED
    BY <1>4, <2>2
<1>7. Max(s) \in s /\ \A j \in s : Max(s) >= j
  BY <1>5, <1>6 DEF Max
<1> QED
  BY <1>7

LEMMA RecoveriesFound ==
  ASSUME NEW decisions, Len(decisions) \in Nat
  PROVE  Recoveries(decisions) = Found(decisions, 1 .. Len(decisions))
<1> DEFINE N == 1 .. Len(decisions)
<1>1. /\ DOMAIN Indices(decisions) = N
      /\ \A i \in N : Indices(decisions)[i] = i
  BY DEF Indices
<1>2. \A f : Scanning(decisions, f) =
             [s \in SUBSET N |-> IF s = {} THEN [last |-> 0, found |-> {}]
                               ELSE Scan(decisions, f[s \ {Max(s)}], Max(s))]
  <2>1. ASSUME NEW s \in SUBSET N, s # {} PROVE Max(s) \in N
    BY <2>1, GreatestIs
  <2> QED
    BY <1>1, <2>1 DEF Scanning
<1> HIDE DEF N
<1>3. \A f : \A s \in SUBSET N :
          Scanning(decisions, f)[s] = IF s = {} THEN [last |-> 0, found |-> {}]
                                      ELSE Scan(decisions, f[s \ {Max(s)}], Max(s))
  BY <1>2
<1> DEFINE c == [s \in SUBSET N |-> Scanned(decisions, s)]
<1>4. Scanned(decisions, {}) = [last |-> 0, found |-> {}]
  BY DEF Scanned, Pending, Found
<1>5. ASSUME NEW s \in SUBSET N, s # {}
      PROVE  Scanned(decisions, s) = Scan(decisions, Scanned(decisions, s \ {Max(s)}), Max(s))
  <2>1. Max(s) \in s /\ \A k \in s : k <= Max(s)
    BY <1>5, GreatestIs DEF N
  <2>2. s \in SUBSET (Nat \ {0})
    BY DEF N
  <2> QED
    BY <2>1, <2>2, ScannedMore
<1>6. c = Scanning(decisions, c)
  <2>1. ASSUME NEW s \in SUBSET N PROVE c[s] = Scanning(decisions, c)[s]
    <3>1. s \ {Max(s)} \in SUBSET N
      OBVIOUS
    <3>2. c[s] = Scanned(decisions, s) /\ c[s \ {Max(s)}] = Scanned(decisions, s \ {Max(s)})
      BY <3>1
    <3> HIDE DEF c
    <3> QED
      BY <1>3, <1>4, <1>5, <3>2
  <2>2. Scanning(decisions, c) = [s \in SUBSET N |-> Scanning(decisions, c)[s]]
    BY <1>2
  <2> QED
    BY <2>1, <2>2
<1> HIDE DEF c
<1>7. Scans(decisions) = Scanning(decisions, Scans(decisions))
  BY <1>6 DEF Scans
<1> DEFINE g == Scans(decisions)
           P == {n \in Nat : n <= Len(decisions) => g[1 .. n] = Scanned(decisions, 1 .. n)}
<1>8. ASSUME NEW n \in Nat, n <= Len(decisions)
      PROVE  1 .. n \in SUBSET N
  BY <1>8 DEF N
<1>9. 0 \in P
  <2>1. 1 .. 0 = {} /\ {} \in SUBSET N
    OBVIOUS
  <2>2. g[{}] = [last |-> 0, found |-> {}]
    BY <1>3, <1>7, <2>1
  <2> QED
    BY <1>4, <2>1, <2>2
<1> HIDE DEF g
<1>10. ASSUME NEW n \in P PROVE n + 1 \in P
  <2> SUFFICES ASSUME n + 1 <= Len(decisions)
               PROVE  g[1 .. n + 1] = Scanned(decisions, 1 .. n + 1)
    OBVIOUS
  <2> DEFINE s == 1 .. n + 1
  <2>1. n \in Nat /\ g[1 .. n] = Scanned(decisions, 1 .. n)
    OBVIOUS
  <2> HIDE DEF P
  <2>2. s \in SUBSET N /\ s # {} /\ s \ {n + 1} = 1 .. n
    <3>1. s \in SUBSET N
      BY <1>8, <2>1
    <3>2. n + 1 \in s /\ s \ {n + 1} = 1 .. n
      BY <2>1
    <3> QED
      BY <3>1, <3>2
  <2>3. Max(s) = n + 1
    <3>1. Max(s) \in s /\ \A k \in s : k <= Max(s)
      BY <2>1, <2>2, n + 1 \in Nat, GreatestIs
    <3>2. n + 1 \in s
      BY <2>1
    <3> QED
      BY <2>1, <3>1, <3>2
  <2> HIDE DEF s
  <2>4. g[s] = Scan(decisions, g[s \ {Max(s)}], Max(s))
    BY <1>3, <1>7, <2>2 DEF g
  <2>5. g[s] = Scanned(decisions, s)
    BY <1>5, <2>1, <2>2, <2>3, <2>4
  <2> QED
    BY <2>5 DEF s
<1>11. P = Nat
  <2>1. P \in SUBSET Nat
    OBVIOUS
  <2> HIDE DEF P
  <2> QED
    BY <1>9, <1>10, <2>1, EveryNumber
<1>12. g[N] = Scanned(decisions, N)
  BY <1>11 DEF N
<1> QED
  BY <1>1, <1>12, RecoveriesIs DEF g, Scanned, N

(* Every pass that follows a failure is a recovery, and each failure is    *)
(* recovered from once (observability.py:76-93).                           *)
THEOREM RecoveriesAreRightAlways == Spec => []RecoveriesAreRight
<1>1. Inductive => RecoveriesAreRight
  <2> SUFFICES ASSUME Inductive, NEW s \in Stages
               PROVE  Recoveries(trail[s]) =
                          {span \in (1 .. Len(trail[s])) \X Of(s, "stage_passed") :
                              /\ span[1] < span[2]
                              /\ trail[s][span[1]].action \in FailureActions
                              /\ \A k \in span[1] + 1 .. span[2] - 1 :
                                    trail[s][k].action \notin FailureActions \cup {"stage_passed"}}
    BY DEF RecoveriesAreRight
  <2> DEFINE d == trail[s]
             N == 1 .. Len(d)
             Right == {span \in N \X Of(s, "stage_passed") :
                          /\ span[1] < span[2]
                          /\ d[span[1]].action \in FailureActions
                          /\ \A k \in span[1] + 1 .. span[2] - 1 :
                                d[k].action \notin FailureActions \cup {"stage_passed"}}
  <2>1. d \in Seq(Decisions) /\ Len(d) \in Nat /\ DOMAIN d = N
    BY DEF Inductive, IInv, Typed
  <2>2. Of(s, "stage_passed") = {i \in N : Passes(d, i)}
    BY <2>1 DEF Of, Passes
  <2>3. N \in SUBSET Nat
    BY <2>1
  <2> HIDE DEF d
  <2>4. ASSUME NEW i \in N, NEW j \in N
        PROVE  Unanswered(d, N, i, j) <=>
                  \A k \in i + 1 .. j - 1 : d[k].action \notin FailureActions \cup {"stage_passed"}
    <3>1. \A k : k \in N /\ i < k /\ k < j <=> k \in i + 1 .. j - 1
      BY <2>1
    <3> HIDE DEF N
    <3> QED
      BY <3>1 DEF Unanswered, Fails, Passes
  <2> HIDE DEF N
  <2>5. Found(d, N) = Right
    <3>1. ASSUME NEW i \in N, NEW j \in N
          PROVE  <<i, j>> \in Found(d, N) <=> <<i, j>> \in Right
      BY <2>2, <2>4 DEF Found, Fails
    <3>2. Found(d, N) \subseteq N \X N /\ Right \subseteq N \X N
      BY <2>2 DEF Found
    <3> HIDE DEF Right
    <3> QED
      BY <3>1, <3>2
  <2>6. Recoveries(d) = Right
    BY <2>1, <2>5, RecoveriesFound DEF N
  <2> QED
    BY <2>6 DEF d, N
<1> QED
  BY <1>1, InductiveAlways, PTL

-----------------------------------------------------------------------------
(* The count of the attempts *)

Starts(o) == o.op = "record" /\ o.action = "attempt_started"
Resets(o) == o.op = "record" /\ o.action \in SetAsideActions
SetsAside(o) == o.op = "save" /\ o.change \in {"roll_back", "set_aside"}
Begins(o) == o.op = "save" /\ o.change = "begin"
Counts(o) == o.op = "save" /\ o.change \in {"begin", "retry", "fail"}

(* What a trail tells of the present incarnation: the attempts since the   *)
(* stage was last set aside; and how often it was rolled back.             *)
Since(q) ==
    {i \in DOMAIN q : /\ q[i].action = "attempt_started"
                      /\ \A j \in DOMAIN q : q[j].action \in SetAsideActions => j < i}
Begun(q) == {i \in DOMAIN q : q[i].action = "attempt_started"}
Rollbacks(q) == {i \in DOMAIN q : q[i].action = "rolled_back"}

(* A list begins one attempt at most, and then says so; what it puts the   *)
(* count of attempts to otherwise comes before.                            *)
BeginsOnce(L) ==
    /\ \A i, j \in DOMAIN L : Starts(L[i]) /\ Starts(L[j]) => i = j
    /\ \A i, j \in DOMAIN L : Begins(L[i]) /\ j > i => ~Counts(L[j])
    /\ \A i \in DOMAIN L : Begins(L[i]) => \E j \in DOMAIN L : j > i /\ Starts(L[j])

(* The attempt that a thread is at, or begins, is the one its row counts,  *)
(* and the numbers that it writes are the row's.                           *)
StartAhead(s) == \E o \in Ahead(s) : Starts(o)
BeginAhead(s) == \E o \in Ahead(s) : Begins(o)
Numbers(o, row) ==
    /\ Begins(o) => o.n = AttemptsSoFar(row) + 1
    /\ o.op = "save" /\ o.change = "retry" => o.n = row.attempts
    /\ o.op = "save" /\ o.change = "fail" => o.n \in {0, row.attempts}
Attempt(s) ==
    Running /\ th[s].at \in Busy =>
        IF BeginAhead(s) THEN th[s].attempt = AttemptsSoFar(rows[s]) + 1
        ELSE th[s].attempt = rows[s].attempts /\ ~rows[s].stale
Counting(s) ==
    /\ BeginsOnce(Todo(s)) /\ Attempt(s)
    /\ StartAhead(s) => th[s].at = "agent"
    /\ \A o \in Ahead(s) : Numbers(o, rows[s]) /\ ~Resets(o) /\ ~SetsAside(o)

(* What is held of a row that a guest may have changed. *)
SameCounts(new, old) ==
    new.attempts = old.attempts /\ new.stale = old.stale /\ new.rollbacks = old.rollbacks
HoldsCounts(w) ==
    Todo(w) # <<>> /\ Todo(w)[1].op \in {"save", "aside"} =>
        SameCounts(work[w].held, rows[Todo(w)[1].stage])

(* The lists of the calling thread: it saves that a stage is set aside, or *)
(* rolled back, right before it says so.                                   *)
Follows(o, p) ==
    SetsAside(o) /\ o.stage = p.stage /\ (p.action = "rolled_back" => o.change = "roll_back")
Following(L) ==
    \A i \in DOMAIN L :
        /\ L[i].op = "status" => i = Len(L)
        /\ ~Starts(L[i])
        /\ L[i].op = "save" => L[i].change \in {"skip", "link", "roll_back", "set_aside"}
        /\ SetsAside(L[i]) => i + 1 \in DOMAIN L /\ Resets(L[i + 1]) /\ L[i + 1].stage = L[i].stage
        /\ Resets(L[i]) /\ i > 1 => Follows(L[i - 1], L[i])

RolledBack(s) == Cardinality(Rollbacks(trail[s]))
Said(o) ==
    Resets(o) =>
        /\ rows[o.stage] \in Rows /\ rows[o.stage].stale
        /\ o.action = "rolled_back" => RolledBack(o.stage) + 1 <= rows[o.stage].rollbacks

(* The stages that the call under way sets aside; and the one whose call   *)
(* it is, when it is through.                                              *)
Comes(o) == SetsAside(o) \/ Resets(o) \/ (o.op = "aside" /\ o.log # <<>>)
Coming(s) == \E o \in Ahead(Runner) : Comes(o) /\ o.stage = s
Scope == {s \in Stages : \E t \in main.target : s = t \/ s \in DownstreamOf(graph, t)}
Closes == UNION {o.closes : o \in {p \in Ahead(Runner) : p.op = "status"}}
Calling ==
    /\ Following(Todo(Runner))
    /\ Todo(Runner) # <<>> => Said(Todo(Runner)[1])
    /\ \A o \in Ahead(Runner) : Comes(o) => main.at = "idle" /\ o.stage \in Scope
    /\ Closes \subseteq main.target

(* The count of a row, and that of its trail. *)
Owed(s) == StartAhead(s) /\ ~BeginAhead(s)
Tried(s) == Cardinality(Since(trail[s])) + (IF Owed(s) THEN 1 ELSE 0)
Agrees(s) ==
    IF rows[s].stale THEN Tried(s) = 0
    ELSE Tried(s) = rows[s].attempts \/ (Runner \in torn /\ Tried(s) < rows[s].attempts)
Unclosed(s) == \E t \in torn \ ({Runner} \cup Closes) : s = t \/ s \in DownstreamOf(graph, t)
Excused(s) == Rerouted(s) \/ Unclosed(s) \/ Coming(s)
Fresh(row) == row.status = "pending" => ~row.stale /\ row.attempts = 0
Counted(s) ==
    /\ rows[s] \in Rows => /\ Agrees(s) \/ Excused(s)
                           /\ RolledBack(s) <= rows[s].rollbacks
                           /\ Fresh(rows[s])
    /\ rows[s] = NoRow \/ rows[s].status = "pending" => Begun(trail[s]) = {}
    /\ rows[s] = NoRow => Rollbacks(trail[s]) = {}

(* The graph in memory and the stored one only grow, so that the callers   *)
(* can tell what an insertion has put below something new.                 *)
Known ==
    /\ Grows(InitialGraph, mem) /\ Grows(mem, graph)
    /\ KnownDependencies(graph)
    /\ \A o \in Ahead(Runner) : o.op = "graph" => KnownDependencies(o.to)

Tally ==
    /\ \A s \in Stages : Counting(s) /\ Counted(s)
    /\ \A w \in Workers : HoldsCounts(w)
    /\ Calling /\ Known

-----------------------------------------------------------------------------
(* Trails *)

LEMMA TrailCounts ==
  ASSUME NEW q \in Seq(Decisions)
  PROVE  /\ Cardinality(Since(q)) \in Nat /\ Cardinality(Rollbacks(q)) \in Nat
         /\ IsFiniteSet(Since(q)) /\ IsFiniteSet(Rollbacks(q))
         /\ Len(q) \in Nat /\ DOMAIN q = 1 .. Len(q)
         /\ Since(q) \subseteq Begun(q)
<1>1. Len(q) \in Nat /\ DOMAIN q = 1 .. Len(q)
  OBVIOUS
<1>2. IsFiniteSet(1 .. Len(q))
  BY <1>1, FS_Interval
<1>3. Since(q) \subseteq 1 .. Len(q) /\ Rollbacks(q) \subseteq 1 .. Len(q) /\ Since(q) \subseteq Begun(q)
  BY <1>1 DEF Since, Rollbacks, Begun
<1>4. IsFiniteSet(Since(q)) /\ IsFiniteSet(Rollbacks(q))
  BY <1>2, <1>3, FS_Subset
<1> QED
  BY <1>1, <1>3, <1>4, FS_CardinalityType

(* What one more decision makes of the counts. *)
LEMMA OneMore ==
  ASSUME NEW q \in Seq(Decisions), NEW d \in Decisions, NEW r, r = Append(q, d)
  PROVE  /\ d.action = "attempt_started" =>
               Cardinality(Since(r)) = Cardinality(Since(q)) + 1
         /\ d.action \in SetAsideActions => Since(r) = {}
         /\ d.action \notin SetAsideActions \cup {"attempt_started"} => Since(r) = Since(q)
         /\ d.action # "attempt_started" => Begun(r) = Begun(q)
         /\ d.action # "rolled_back" => Rollbacks(r) = Rollbacks(q)
         /\ d.action = "rolled_back" =>
               Cardinality(Rollbacks(r)) = Cardinality(Rollbacks(q)) + 1
<1> DEFINE n == Len(q) + 1
<1>1. /\ Len(q) \in Nat /\ DOMAIN q = 1 .. Len(q) /\ DOMAIN r = 1 .. n /\ n \in Nat
      /\ r[n] = d /\ \A i \in DOMAIN q : r[i] = q[i]
  BY AppendProperties
<1>2. n \notin DOMAIN q /\ DOMAIN r = DOMAIN q \cup {n} /\ \A j \in DOMAIN q : j < n
  BY <1>1
<1> HIDE DEF n
<1>3. /\ n \notin Since(q) /\ n \notin Rollbacks(q)
      /\ Rollbacks(r) = IF d.action = "rolled_back" THEN Rollbacks(q) \cup {n} ELSE Rollbacks(q)
      /\ d.action # "attempt_started" => Begun(r) = Begun(q)
  BY <1>1, <1>2 DEF Since, Rollbacks, Begun
<1>4. ASSUME d.action = "attempt_started" PROVE Since(r) = Since(q) \cup {n}
  BY <1>1, <1>2, <1>4 DEF Since, SetAsideActions
<1>5. ASSUME d.action \in SetAsideActions PROVE Since(r) = {}
  <2>1. d.action # "attempt_started"
    BY <1>5 DEF SetAsideActions
  <2>2. ASSUME NEW i \in Since(r) PROVE FALSE
    <3>1. i \in DOMAIN r /\ n < i
      BY <1>1, <1>2, <1>5 DEF Since
    <3> QED
      BY <1>1, <3>1
  <2> QED
    BY <2>2
<1>6. ASSUME d.action \notin SetAsideActions \cup {"attempt_started"} PROVE Since(r) = Since(q)
  BY <1>1, <1>2, <1>6 DEF Since
<1>7. \A S : IsFiniteSet(S) /\ n \notin S => Cardinality(S \cup {n}) = Cardinality(S) + 1
  BY FS_AddElement
<1> QED
  BY <1>3, <1>4, <1>5, <1>6, <1>7, TrailCounts

-----------------------------------------------------------------------------
(* Graphs that grow *)

LEMMA GrowsOn ==
  /\ \A g \in Graphs : (\A t \in Stages \ g.nodes : g.deps[t] = {}) => Grows(g, g)
  /\ \A g, h, k \in Graphs : Grows(g, h) /\ Grows(h, k) => Grows(g, k)
BY DEF Grows, Graphs

(* What is downstream of a stage stays so. *)
LEMMA DownstreamGrows ==
  ASSUME NEW g \in Graphs, NEW h \in Graphs, Grows(g, h), NEW s \in Stages
  PROVE  DownstreamOf(g, s) \subseteq DownstreamOf(h, s)
<1> SUFFICES ASSUME NEW t \in DownstreamOf(g, s) PROVE t \in DownstreamOf(h, s)
  OBVIOUS
<1>1. t \in g.nodes /\ g.nodes \subseteq h.nodes
  BY DEF DownstreamOf, Grows
<1> SUFFICES ASSUME NEW S \in SUBSET h.nodes, ClosedUnder(h, s, S) PROVE t \in S
  BY <1>1 DEF DownstreamOf
<1> DEFINE U == S \cap g.nodes
<1>2. ClosedUnder(g, s, U)
  <2> SUFFICES ASSUME NEW u \in g.nodes, g.deps[u] \cap (U \cup {s}) # {} PROVE u \in U
    BY DEF ClosedUnder, Dependents
  <2>1. g.deps[u] \subseteq h.deps[u]
    BY DEF Grows, Graphs
  <2>2. h.deps[u] \cap (S \cup {s}) # {} /\ u \in h.nodes
    BY <2>1, <1>1
  <2>3. u \in S
    BY <2>2 DEF ClosedUnder, Dependents
  <2> QED
    BY <2>3
<1>3. U \in SUBSET g.nodes
  OBVIOUS
<1> HIDE DEF U
<1>4. t \in U
  BY <1>2, <1>3 DEF DownstreamOf
<1> QED
  BY <1>1, <1>4 DEF U

(* A stage that no graph has is upstream of none. *)
LEMMA NothingDownstream ==
  ASSUME NEW g \in Graphs, KnownDependencies(g), NEW s \in Stages \ g.nodes
  PROVE  DownstreamOf(g, s) = {}
<1>1. ClosedUnder(g, s, {})
  BY DEF ClosedUnder, Dependents, KnownDependencies
<1> QED
  BY <1>1 DEF DownstreamOf

(* The set of the stages downstream of s is closed. *)
LEMMA DownstreamClosed ==
  ASSUME NEW g \in Graphs, NEW s \in Stages, NEW t \in g.nodes,
         g.deps[t] \cap (DownstreamOf(g, s) \cup {s}) # {}
  PROVE  t \in DownstreamOf(g, s)
<1> SUFFICES ASSUME NEW S \in SUBSET g.nodes, ClosedUnder(g, s, S) PROVE t \in S
  BY DEF DownstreamOf
<1>1. DownstreamOf(g, s) \subseteq S
  BY DEF DownstreamOf
<1> QED
  BY <1>1 DEF ClosedUnder, Dependents

(* What is downstream in the graph that has grown, and was not before, is  *)
(* downstream of a stage that has got another dependency, or is one.       *)
LEMMA NewlyDownstream ==
  ASSUME NEW g \in Graphs, NEW h \in Graphs, Grows(g, h), \A t \in Stages \ g.nodes : g.deps[t] = {},
         NEW s \in Stages, NEW t \in DownstreamOf(h, s) \ DownstreamOf(g, s)
  PROVE  \E u \in Stages : h.deps[u] # g.deps[u] /\ (t = u \/ t \in DownstreamOf(h, u))
<1> DEFINE New == {u \in Stages : h.deps[u] # g.deps[u]}
           R == {x \in h.nodes : \E u \in New : x = u \/ x \in DownstreamOf(h, u)}
           S == (DownstreamOf(g, s) \cap h.nodes) \cup R
<1>1. ClosedUnder(h, s, S)
  <2> SUFFICES ASSUME NEW x \in h.nodes, h.deps[x] \cap (S \cup {s}) # {} PROVE x \in S
    BY DEF ClosedUnder, Dependents
  <2>0. x \in Stages
    BY DEF Graphs
  <2>1. CASE x \in New
    BY <2>1
  <2>2. CASE x \notin New
    <3>1. h.deps[x] = g.deps[x]
      BY <2>0, <2>2
    <3>2. PICK y \in h.deps[x] : y \in S \cup {s}
      OBVIOUS
    <3>3. CASE y \in R
      <4>1. PICK u \in New : y = u \/ y \in DownstreamOf(h, u)
        BY <3>3
      <4>2. u \in Stages /\ h.deps[x] \cap (DownstreamOf(h, u) \cup {u}) # {}
        BY <3>2, <4>1
      <4>3. x \in DownstreamOf(h, u)
        BY <4>2, DownstreamClosed
      <4> QED
        BY <4>1, <4>3
    <3>4. CASE y \in DownstreamOf(g, s) \cup {s}
      <4>1. CASE x \in g.nodes
        <5>1. g.deps[x] \cap (DownstreamOf(g, s) \cup {s}) # {}
          BY <3>1, <3>2, <3>4
        <5> QED
          BY <4>1, <5>1, DownstreamClosed
      <4>2. CASE x \notin g.nodes
        <5> QED
          BY <2>0, <3>1, <3>2, <4>2
      <4> QED
        BY <4>1, <4>2
    <3> QED
      BY <3>2, <3>3, <3>4
  <2> QED
    BY <2>1, <2>2
<1>2. S \in SUBSET h.nodes
  OBVIOUS
<1> HIDE DEF S
<1>3. t \in S
  BY <1>1, <1>2 DEF DownstreamOf
<1>4. t \in R
  BY <1>3 DEF S
<1> QED
  BY <1>4

-----------------------------------------------------------------------------
(* What leaves the counts alone *)

(* Two versions of a row that count the same. *)
Alike(new, old) ==
    /\ new \in Rows <=> old \in Rows
    /\ old \in Rows => SameCounts(new, old) /\ (new.status = "pending" => old.status = "pending")
SameTale(new, old) ==
    Since(new) = Since(old) /\ Begun(new) = Begun(old) /\ Rollbacks(new) = Rollbacks(old)

LEMMA AlikeSelf ==
  ASSUME NEW row PROVE Alike(row, row)
BY DEF Alike, SameCounts

LEMMA CountingStands ==
  ASSUME Typed, Typed', NEW s \in Stages, Counting(s), work'[s] = work[s], th'[s] = th[s],
         Running' => Running, Alike(rows'[s], rows[s])
  PROVE  Counting(s)'
<1>1. Todo(s)' = Todo(s) /\ Ahead(s)' = Ahead(s)
  BY DEF Todo, Ahead
<1>2. rows'[s] = rows[s] \/ (rows'[s].attempts = rows[s].attempts /\ rows'[s].stale = rows[s].stale)
  BY DEF Alike, SameCounts, Typed
<1>3. AttemptsSoFar(rows'[s]) = AttemptsSoFar(rows[s])
  BY <1>2 DEF AttemptsSoFar
<1>4. \A o \in Ahead(s) : Numbers(o, rows'[s]) /\ ~Resets(o) /\ ~SetsAside(o)
  BY <1>2, <1>3 DEF Counting, Numbers
<1>5. (BeginAhead(s)' <=> BeginAhead(s)) /\ (StartAhead(s)' <=> StartAhead(s))
  BY <1>1 DEF BeginAhead, StartAhead
<1>6. Attempt(s)'
  BY <1>2, <1>3, <1>5 DEF Counting, Attempt
<1> QED
  BY <1>1, <1>4, <1>5, <1>6 DEF Counting

LEMMA CountedStands ==
  ASSUME Typed, Typed', NEW s \in Stages, Counted(s),
         Alike(rows'[s], rows[s]), SameTale(trail'[s], trail[s]),
         Owed(s)' <=> Owed(s), Runner \in torn => Runner \in torn',
         Rerouted(s) => Excused(s)', Unclosed(s) => Excused(s)', Coming(s) => Excused(s)'
  PROVE  Counted(s)'
<1>1. /\ rows[s] \in Rows \/ rows[s] = NoRow
      /\ rows'[s] \in Rows \/ rows'[s] = NoRow
      /\ NoRow \notin Rows
  BY RowsAreSomething DEF Typed
<1>2. Tried(s)' = Tried(s) /\ RolledBack(s)' = RolledBack(s)
  BY DEF Tried, RolledBack, SameTale
<1>3. rows'[s] = NoRow => rows[s] = NoRow
  BY <1>1 DEF Alike
<1>4. rows'[s] \in Rows => rows[s] \in Rows /\ Fresh(rows'[s]) /\ (Agrees(s) => Agrees(s)')
                           /\ rows'[s].rollbacks = rows[s].rollbacks
  BY <1>2 DEF Alike, SameCounts, Fresh, Agrees, Counted
<1>5. rows'[s] = NoRow \/ rows'[s].status = "pending" => rows[s] = NoRow \/ rows[s].status = "pending"
  BY <1>1, <1>3 DEF Alike
<1> QED
  BY <1>1, <1>2, <1>3, <1>4, <1>5 DEF Counted, Excused, SameTale

(* Who holds a row holds its counts, if nobody but a guest saves it.       *)
LEMMA HoldingsStand ==
  ASSUME IInv, \A v \in Workers : HoldsCounts(v),
         NEW w \in Workers, NEW L, NEW T, Popping(w, L, T),
         \A v \in Workers \ {w} : work'[v] = work[v],
         \A t \in Stages : \/ Alike(rows'[t], rows[t])
                           \/ Staged(L[1]) /\ L[1].stage = t /\ ~Guest(w, t)
  PROVE  \A v \in Workers \ {w} : HoldsCounts(v)'
<1> SUFFICES ASSUME NEW v \in Workers \ {w}, Todo(v) # <<>>, Todo(v)[1].op \in {"save", "aside"}
             PROVE  SameCounts(work[v].held, rows'[Todo(v)[1].stage])
  BY DEF HoldsCounts, Todo
<1>1. Todo(v) \in Seq(Ops) /\ Typed /\ Order /\ Holding(v)
  BY DEF IInv, Typed, Todo, Lists
<1>2. Todo(v)[1] \in Ops /\ Todo(v)[1] \in Ahead(v)
  BY <1>1, Popped DEF Ahead, ToSet
<1>3. PICK t \in Stages : t = Todo(v)[1].stage
  BY <1>2 DEF Ops, Simple, Asides
<1>4. SameCounts(work[v].held, rows[t]) /\ rows[t] \in Rows
  BY <1>1, <1>3 DEF HoldsCounts, Holding, HoldsRow
<1>5. ~(Staged(L[1]) /\ L[1].stage = t /\ ~Guest(w, t))
  <2> SUFFICES ASSUME L[1].stage = t PROVE Guest(w, t)
    OBVIOUS
  <2>1. L[1] \in Ahead(w)
    BY DEF Popping
  <2> QED
    BY <1>1, <1>2, <1>3, <2>1, TwoGuests
<1>6. Alike(rows'[t], rows[t])
  BY <1>5
<1> QED
  BY <1>3, <1>4, <1>6 DEF Alike, SameCounts

(* A worker turns to save a row when it has loaded it. *)
LEMMA OwnHoldings ==
  ASSUME IInv, NEW w \in Workers, NEW L, NEW T, Popping(w, L, T), Todo(w)' = T,
         L[1].op = "load" => rows' = rows /\ (T # <<>> => work'[w].held = rows[L[1].stage])
  PROVE  HoldsCounts(w)'
<1> SUFFICES ASSUME T # <<>>, T[1].op \in {"save", "aside"}
             PROVE  SameCounts(work'[w].held, rows'[T[1].stage])
  BY DEF HoldsCounts
<1>1. L[1].op = "load" /\ L[1].stage = T[1].stage
  BY After DEF Popping
<1> QED
  BY <1>1 DEF SameCounts

(* What a save does to the counts. *)
LEMMA ChangedCounts ==
  ASSUME NEW row \in Rows, NEW o, o.op = "save", o.change \in Changes, o.n \in Nat,
         NEW decision \in Nat
  PROVE  LET new == Changed(row, o.change, o.n, decision) IN
         /\ new.attempts = IF o.change \in {"begin", "retry"} \/ (o.change = "fail" /\ o.n > 0)
                             THEN o.n ELSE row.attempts
         /\ new.stale = IF o.change = "begin" THEN FALSE
                        ELSE IF SetsAside(o) THEN TRUE ELSE row.stale
         /\ new.rollbacks = IF o.change = "roll_back" THEN row.rollbacks + 1 ELSE row.rollbacks
         /\ new.status = "pending" => Mute(o) /\ row.status = "pending"
<1>1. CASE o.change \in {"begin", "retry", "block", "output", "pass"}
  BY <1>1 DEF Changed, SetsAside, Mute, Rows
<1>2. CASE o.change \in {"fail", "skip", "roll_back", "set_aside", "link"}
  BY <1>2 DEF Changed, SetsAside, Mute, Rows
<1> QED
  BY <1>1, <1>2 DEF Changes

(* Where a row is saved. *)
Saving(w, L, T, s) ==
    /\ Popping(w, L, T) /\ L[1].op = "save" /\ s = L[1].stage /\ L[1].change \in Changes /\ L[1].n \in Nat
    /\ work[w].held \in Rows /\ rows[s] \in Rows /\ work[w].decision \in Nat
    /\ SameCounts(work[w].held, rows[s])
    /\ ~Guest(w, s) => work[w].held = rows[s]
    /\ rows'[s] = Changed(work[w].held, L[1].change, L[1].n, work[w].decision)
    /\ \A t \in Stages \ {s} : rows'[t] = rows[t]
    /\ rows'[s] \in Rows
    /\ Todo(w)' = T /\ \A v \in Workers \ {w} : work'[v] = work[v]
    /\ UNCHANGED <<status, graph, trail, audited, cut, torn, processVars>>

LEMMA SavingIs ==
  ASSUME IInv, NEW w \in Workers, HoldsCounts(w), SaveRow(w)
  PROVE  \E L, T : \E s \in Stages : Saving(w, L, T, s)
<1>1. PICK L, T : Popping(w, L, T) /\ L[1].op = "save"
  BY Acting DEF SaveRow
<1>2. PICK s \in Stages : s = L[1].stage
  BY <1>1 DEF Popping, Staged
<1>3. /\ L[1] \in Ops /\ Upcoming(w) = L[1] /\ Todo(w) = L /\ L # <<>> /\ Holding(w)
      /\ work[w] \in WorkerStates /\ Worked(w) \in WorkerStates /\ Worked(w).todo = T
  BY <1>1 DEF Popping
<1>4. L[1].change \in Changes /\ L[1].n \in Nat
  BY <1>1, <1>3 DEF Ops, Simple, Asides
<1>5. HoldsRow(w, s) /\ SameCounts(work[w].held, rows[s])
  BY <1>1, <1>2, <1>3 DEF Holding, HoldsCounts
<1>6. work[w].held \in Rows /\ rows[s] \in Rows /\ work[w].decision \in Nat
  BY <1>3, <1>5 DEF HoldsRow, WorkerStates
<1> DEFINE new == Changed(work[w].held, L[1].change, L[1].n, work[w].decision)
           next == [Worked(w) EXCEPT !.held = NoRow]
<1>7. new \in Rows
  BY <1>1, <1>4, <1>6, ChangedIs
<1>8. next \in WorkerStates /\ next.todo = T
  BY <1>3 DEF WorkerStates
<1>9. /\ rows' = [rows EXCEPT ![s] = new] /\ work' = [work EXCEPT ![w] = next]
      /\ UNCHANGED <<status, graph, trail, audited, cut, torn, processVars>>
  BY <1>2, <1>3 DEF SaveRow
<1> HIDE DEF next
<1>10. /\ work' \in [Workers -> WorkerStates] /\ \A v \in Workers \ {w} : work'[v] = work[v]
       /\ work'[w] = next
  BY <1>1, <1>8, <1>9, StillAhead
<1>11. rows'[s] = new /\ \A t \in Stages \ {s} : rows'[t] = rows[t]
  BY <1>9 DEF IInv, Typed
<1>12. Todo(w)' = T
  BY <1>8, <1>10 DEF Todo
<1>13. Saving(w, L, T, s)
  BY <1>1, <1>2, <1>4, <1>5, <1>6, <1>7, <1>9, <1>10, <1>11, <1>12 DEF Saving, HoldsRow
<1> QED
  BY <1>13

(* Saves that leave the counts as they were. *)
LEMMA SavesAlike ==
  ASSUME IInv, NEW w \in Workers, NEW L, NEW T, NEW s \in Stages, Saving(w, L, T, s),
         ~Begins(L[1]), ~SetsAside(L[1]), Numbers(L[1], rows[s])
  PROVE  Alike(rows'[s], rows[s])
<1>1. /\ L[1].op = "save" /\ L[1].change \in Changes /\ L[1].n \in Nat
      /\ work[w].held \in Rows /\ rows[s] \in Rows /\ work[w].decision \in Nat
      /\ SameCounts(work[w].held, rows[s])
      /\ ~Guest(w, s) => work[w].held = rows[s]
      /\ rows'[s] = Changed(work[w].held, L[1].change, L[1].n, work[w].decision)
      /\ rows'[s] \in Rows
  BY DEF Saving
<1> DEFINE new == Changed(work[w].held, L[1].change, L[1].n, work[w].decision)
<1>2. /\ new.attempts = IF L[1].change \in {"begin", "retry"} \/ (L[1].change = "fail" /\ L[1].n > 0)
                          THEN L[1].n ELSE work[w].held.attempts
      /\ new.stale = IF L[1].change = "begin" THEN FALSE
                     ELSE IF SetsAside(L[1]) THEN TRUE ELSE work[w].held.stale
      /\ new.rollbacks = IF L[1].change = "roll_back" THEN work[w].held.rollbacks + 1
                         ELSE work[w].held.rollbacks
      /\ new.status = "pending" => Mute(L[1]) /\ work[w].held.status = "pending"
  BY <1>1, ChangedCounts, ZenonT(30)
<1>3. new = rows'[s]
  BY <1>1
<1> HIDE DEF new
<1>4. SameCounts(new, rows[s])
  <2>1. /\ L[1].change # "begin" /\ L[1].change # "roll_back" /\ L[1].change # "set_aside"
        /\ L[1].change = "retry" => L[1].n = rows[s].attempts
        /\ L[1].change = "fail" => L[1].n = 0 \/ L[1].n = rows[s].attempts
    BY <1>1 DEF Begins, SetsAside, Numbers
  <2>2. /\ work[w].held.attempts = rows[s].attempts /\ work[w].held.stale = rows[s].stale
        /\ work[w].held.rollbacks = rows[s].rollbacks
    BY <1>1 DEF SameCounts
  <2>3. new.attempts = rows[s].attempts
    BY <1>2, <2>1, <2>2
  <2>4. new.stale = rows[s].stale /\ new.rollbacks = rows[s].rollbacks
    BY <1>2, <2>1, <2>2 DEF SetsAside
  <2> QED
    BY <2>3, <2>4 DEF SameCounts
<1>5. ASSUME new.status = "pending" PROVE rows[s].status = "pending"
  <2>1. CASE ~Guest(w, s)
    BY <1>1, <1>2, <1>5, <2>1
  <2>2. CASE Guest(w, s)
    <3>1. Skipping(w, s) /\ L = Todo(w) /\ L[1] \in Ahead(w) /\ s = L[1].stage
      BY <1>1, <2>2 DEF Saving, Popping, Holding, Staged
    <3>2. SkipOp(L[1])
      <4>1. Own(w, L[1]) \/ SkipOp(L[1])
        BY <2>2, <3>1 DEF IInv, Order, Phase, Guest
      <4> QED
        BY <2>2, <3>1, <4>1 DEF Own, Guest
    <3>3. L[1].change = "link"
      BY <1>1, <1>2, <1>5, <3>2 DEF SkipOp, Mute
    <3>4. work[w].held.status = "skipped"
      BY <1>1, <3>1, <3>3 DEF Skipping, IsSave, Links
    <3> QED
      BY <1>2, <1>5, <3>4
  <2> QED
    BY <2>1, <2>2
<1> QED
  BY <1>1, <1>3, <1>4, <1>5 DEF Alike

-----------------------------------------------------------------------------
(* The transactions of the threads keep the tally *)

(* While a thread has something to do, the caller waits. *)
LEMMA RunnerWaits ==
  ASSUME IInv, NEW w \in Stages, ~Free(w)
  PROVE  Running /\ Free(Runner) /\ Ahead(Runner) = {} /\ w # Runner
<1>1. Running /\ Free(Runner) /\ w # Runner
  BY LineageAssumption DEF IInv, Order, Phase
<1> QED
  BY <1>1, AheadIs

(* A caller that has nothing to do. *)
LEMMA NobodyCalls ==
  ASSUME Free(Runner)
  PROVE  /\ Calling /\ \A s \in Stages : ~Coming(s)
         /\ Closes = {} /\ Ahead(Runner) = {}
<1>1. Ahead(Runner) = {}
  BY AheadIs
<1>2. Todo(Runner) = <<>>
  BY DEF Free, Todo
<1>3. Following(Todo(Runner))
  BY <1>2 DEF Following
<1>4. Closes = {}
  BY <1>1 DEF Closes
<1> QED
  BY <1>1, <1>2, <1>3, <1>4 DEF Calling, Coming

LEMMA NobodyCallsThen ==
  ASSUME Free(Runner)'
  PROVE  /\ Calling' /\ \A s \in Stages : ~Coming(s)'
         /\ Closes' = {} /\ Ahead(Runner)' = {}
<1>1. Todo(Runner)' = <<>> /\ Ahead(Runner)' = {}
  BY DEF Free, Todo, Ahead, ToSet
<1>2. Following(Todo(Runner)')
  BY <1>1 DEF Following
<1>3. Closes' = {}
  BY <1>1 DEF Closes
<1> QED
  BY <1>1, <1>2, <1>3 DEF Calling, Coming

LEMMA BeginsOnceTail ==
  ASSUME NEW L \in Seq(Ops), L # <<>>, BeginsOnce(L)
  PROVE  BeginsOnce(Tail(L))
<1> DEFINE T == Tail(L)
<1>1. /\ Len(L) \in Nat /\ DOMAIN L = 1 .. Len(L) /\ DOMAIN T = 1 .. Len(L) - 1
      /\ \A i \in DOMAIN T : i + 1 \in DOMAIN L /\ T[i] = L[i + 1]
      /\ \A i \in DOMAIN L : i > 1 => i - 1 \in DOMAIN T /\ T[i - 1] = L[i]
  BY Popped
<1> HIDE DEF T
<1>2. \A i, j \in DOMAIN T : Starts(T[i]) /\ Starts(T[j]) => i = j
  BY <1>1 DEF BeginsOnce
<1>3. \A i, j \in DOMAIN T : Begins(T[i]) /\ j > i => ~Counts(T[j])
  BY <1>1 DEF BeginsOnce
<1>4. ASSUME NEW i \in DOMAIN T, Begins(T[i]) PROVE \E j \in DOMAIN T : j > i /\ Starts(T[j])
  <2>1. PICK j \in DOMAIN L : j > i + 1 /\ Starts(L[j])
    BY <1>1, <1>4 DEF BeginsOnce
  <2> QED
    BY <1>1, <2>1
<1> QED
  BY <1>2, <1>3, <1>4 DEF BeginsOnce, T

(* A transaction of a thread, and what it need not touch. *)
Moves(w, L, T) ==
    /\ Popping(w, L, T) /\ Todo(w)' = T /\ \A v \in Workers \ {w} : work'[v] = work[v]
    /\ UNCHANGED <<graph, torn, th, main, mem>>

LEMMA ThreadMoves ==
  ASSUME IInv, Typed', Tally, NEW w \in Stages, NEW L, NEW T, Moves(w, L, T),
         \A t \in Stages \ {w} : Alike(rows'[t], rows[t]) /\ SameTale(trail'[t], trail[t]),
         Alike(rows'[w], rows[w]) \/ (Staged(L[1]) /\ L[1].stage = w),
         HoldsCounts(w)', Counting(w)', Counted(w)'
  PROVE  Tally'
<1>1. /\ Popping(w, L, T) /\ Todo(w)' = T /\ \A v \in Workers \ {w} : work'[v] = work[v]
      /\ graph' = graph /\ torn' = torn /\ th' = th /\ main' = main /\ mem' = mem
      /\ Typed /\ w \in Workers /\ ~Free(w)
  BY DEF Moves, Popping, IInv, Workers, Free, Todo
<1>2. Running /\ Free(Runner) /\ Ahead(Runner) = {} /\ w # Runner
  BY <1>1, RunnerWaits
<1>3. Free(Runner)'
  BY <1>1, <1>2 DEF Free, Workers
<1>4. /\ Calling' /\ Closes' = {} /\ Ahead(Runner)' = {}
      /\ Closes = {} /\ \A s \in Stages : ~Coming(s)
  BY <1>2, <1>3, NobodyCalls, NobodyCallsThen
<1>5. Known'
  BY <1>1, <1>4 DEF Tally, Known
<1>6. \A v \in Workers : HoldsCounts(v)'
  <2>1. \A t \in Stages : Alike(rows'[t], rows[t]) \/ (Staged(L[1]) /\ L[1].stage = t /\ ~Guest(w, t))
    BY DEF Guest
  <2>2. \A v \in Workers : HoldsCounts(v)
    BY DEF Tally
  <2> QED
    BY <1>1, <2>1, <2>2, HoldingsStand
<1>7. ASSUME NEW s \in Stages \ {w} PROVE Counting(s)' /\ Counted(s)'
  <2>1. work'[s] = work[s] /\ th'[s] = th[s] /\ (Running' => Running) /\ Counting(s) /\ Counted(s)
    BY <1>1 DEF Workers, Running, Tally
  <2>2. Counting(s)'
    BY <1>1, <2>1, CountingStands
  <2>3. Owed(s)' <=> Owed(s)
    BY <2>1 DEF Owed, StartAhead, BeginAhead, Ahead, Todo
  <2>4. (Rerouted(s) => Rerouted(s)') /\ (Unclosed(s) => Unclosed(s)')
    BY <1>1, <1>4 DEF Rerouted, Respliced, Unclosed
  <2>5. Counted(s)'
    BY <1>1, <1>4, <2>1, <2>3, <2>4, CountedStands DEF Excused
  <2> QED
    BY <2>2, <2>5
<1> QED
  BY <1>4, <1>5, <1>6, <1>7 DEF Tally

(* What is left of the list of a thread that has not begun an attempt. *)
LEMMA OwnCounting ==
  ASSUME IInv, Typed', NEW w \in Stages, Counting(w), NEW L, NEW T, Moves(w, L, T),
         ~Begins(L[1]), ~Starts(L[1]), Alike(rows'[w], rows[w])
  PROVE  Counting(w)' /\ (Owed(w)' <=> Owed(w))
<1>1. /\ L = Todo(w) /\ T = Tail(L) /\ L \in Seq(Ops) /\ L # <<>> /\ Ahead(w) = {L[1]} \cup ToSet(T)
      /\ Todo(w)' = T /\ Ahead(w)' = ToSet(T) /\ th' = th /\ main' = main /\ Typed
  BY DEF Moves, Popping, Ahead, IInv
<1>2. BeginsOnce(T)
  BY <1>1, BeginsOnceTail DEF Counting
<1>3. (BeginAhead(w)' <=> BeginAhead(w)) /\ (StartAhead(w)' <=> StartAhead(w))
  BY <1>1 DEF BeginAhead, StartAhead
<1>4. rows'[w] = rows[w] \/ (rows'[w].attempts = rows[w].attempts /\ rows'[w].stale = rows[w].stale)
  BY <1>1 DEF Alike, SameCounts, Typed
<1>5. AttemptsSoFar(rows'[w]) = AttemptsSoFar(rows[w])
  BY <1>4 DEF AttemptsSoFar
<1>6. \A o \in Ahead(w)' : Numbers(o, rows'[w]) /\ ~Resets(o) /\ ~SetsAside(o)
  BY <1>1, <1>4, <1>5 DEF Counting, Numbers
<1>7. Attempt(w)'
  BY <1>1, <1>3, <1>4, <1>5 DEF Counting, Attempt, Running
<1> QED
  BY <1>1, <1>2, <1>3, <1>6, <1>7 DEF Counting, Owed

(* Transactions that neither begin an attempt nor say so. *)
LEMMA AlikeMoves ==
  ASSUME IInv, Typed', Tally, NEW w \in Stages, NEW L, NEW T, Moves(w, L, T),
         ~Begins(L[1]), ~Starts(L[1]),
         \A t \in Stages : Alike(rows'[t], rows[t]) /\ SameTale(trail'[t], trail[t]),
         L[1].op = "load" => rows' = rows /\ (T # <<>> => work'[w].held = rows[L[1].stage])
  PROVE  Tally'
<1>1. /\ Popping(w, L, T) /\ Todo(w)' = T /\ w \in Workers /\ Counting(w) /\ Counted(w) /\ Typed
      /\ graph' = graph /\ torn' = torn
      /\ ~Free(w) /\ work'[Runner] = work[Runner] /\ Free(Runner)
  BY RunnerWaits DEF Moves, Tally, IInv, Workers, Popping, Free, Todo
<1>2. HoldsCounts(w)'
  BY <1>1, OwnHoldings
<1>3. Counting(w)' /\ (Owed(w)' <=> Owed(w))
  BY <1>1, OwnCounting
<1>4. Free(Runner)'
  BY <1>1 DEF Free
<1>5. Closes' = {} /\ Closes = {} /\ ~Coming(w)
  BY <1>1, <1>4, NobodyCalls, NobodyCallsThen
<1>6. (Rerouted(w) => Rerouted(w)') /\ (Unclosed(w) => Unclosed(w)')
  BY <1>1, <1>5 DEF Rerouted, Respliced, Unclosed
<1>7. Counted(w)'
  BY <1>1, <1>3, <1>5, <1>6, CountedStands DEF Excused
<1> QED
  BY <1>2, <1>3, <1>7, ThreadMoves

(* What a thread does about a stage is of two kinds. *)
LEMMA ThreadOps ==
  ASSUME IInv, NEW w \in Stages, NEW L, NEW T, Popping(w, L, T)
  PROVE  /\ L[1].op \in {"load", "save", "record", "audit"}
         /\ L[1].stage \in Stages
         /\ L[1].stage # w => SkipOp(L[1])
<1>1. L[1] \in Ahead(w) /\ (Staged(L[1]) => L[1].stage \in Stages)
  BY DEF Popping
<1>2. Own(w, L[1]) \/ (SkipOp(L[1]) /\ L[1].stage \in DownstreamOf(mem, w))
  BY <1>1 DEF IInv, Order, Phase
<1> QED
  BY <1>1, <1>2 DEF Own, SkipOp, Staged

LEMMA ThreadLoads ==
  ASSUME IInv, Typed', Tally, NEW w \in Stages, LoadRow(w) \/ AppendAuditEvent(w)
  PROVE  Tally'
<1>1. w \in Workers
  BY DEF Workers
<1>2. PICK L, T : Popping(w, L, T) /\ L[1].op \in {"load", "audit"} /\ Works(w, L[1].op)
  BY <1>1, Acting DEF LoadRow, AppendAuditEvent
<1>3. /\ Upcoming(w) = L[1] /\ Worked(w) \in WorkerStates /\ Worked(w).todo = T
      /\ UNCHANGED <<rows, trail, graph, torn, th, main, mem>>
  BY <1>2 DEF LoadRow, AppendAuditEvent, Popping, processVars, storeVars
<1>4. PICK next \in WorkerStates :
         /\ work' = [work EXCEPT ![w] = next] /\ next.todo = T
         /\ L[1].op = "load" => next.held = rows[L[1].stage]
  <2>1. CASE LoadRow(w)
    <3>1. rows[Upcoming(w).stage] \in Rows
      <4>1. L[1].op = "load" /\ L[1].stage \in Stages /\ rows[L[1].stage] # NoRow
        BY <1>2, <1>3, <2>1, ThreadOps DEF LoadRow, Works
      <4> QED
        BY <1>3, <4>1 DEF IInv, Typed
    <3>2. [Worked(w) EXCEPT !.held = rows[Upcoming(w).stage]] \in WorkerStates
      BY <1>3, <3>1 DEF WorkerStates
    <3> QED
      BY <1>3, <2>1, <3>2 DEF LoadRow, WorkerStates
  <2>2. CASE AppendAuditEvent(w)
    BY <1>2, <1>3, <2>2 DEF AppendAuditEvent, Works
  <2> QED
    BY <2>1, <2>2
<1>5. /\ \A v \in Workers \ {w} : work'[v] = work[v]
      /\ work'[w] = next
  BY <1>1, <1>2, <1>4, StillAhead
<1>6. Moves(w, L, T)
  BY <1>2, <1>3, <1>4, <1>5 DEF Moves, Todo
<1>7. ~Begins(L[1]) /\ ~Starts(L[1])
  BY <1>2 DEF Begins, Starts
<1>8. \A t \in Stages : Alike(rows'[t], rows[t]) /\ SameTale(trail'[t], trail[t])
  BY <1>3, AlikeSelf DEF SameTale
<1> QED
  BY <1>3, <1>4, <1>5, <1>6, <1>7, <1>8, AlikeMoves

LEMMA ThreadSaves ==
  ASSUME IInv, Typed', Tally, NEW w \in Stages, SaveRow(w)
  PROVE  Tally'
<1>1. w \in Workers /\ HoldsCounts(w) /\ Counting(w) /\ Counted(w)
  BY DEF Workers, Tally
<1>2. PICK L, T : \E s \in Stages : Saving(w, L, T, s)
  BY <1>1, SavingIs
<1>3. PICK s \in Stages : Saving(w, L, T, s)
  BY <1>2
<1>4. /\ Popping(w, L, T) /\ L[1].op = "save" /\ L[1].stage = s /\ trail' = trail
      /\ \A t \in Stages \ {s} : rows'[t] = rows[t]
      /\ L[1] \in Ahead(w) /\ Staged(L[1])
  BY <1>3 DEF Saving, Popping, Staged
<1>5. Moves(w, L, T)
  BY <1>3 DEF Saving, Moves, processVars
<1>6. \A t \in Stages : SameTale(trail'[t], trail[t])
  BY <1>4 DEF SameTale
<1>7. ~Starts(L[1]) /\ ~SetsAside(L[1]) /\ L[1].op # "load"
  BY <1>1, <1>4 DEF Starts, Counting
<1>8. CASE ~Begins(L[1])
  <2>1. Numbers(L[1], rows[s])
    <3>1. CASE s = w
      BY <1>1, <1>4, <3>1 DEF Counting
    <3>2. CASE s # w
      <4>1. SkipOp(L[1])
        BY <1>4, <3>2, ThreadOps
      <4> QED
        BY <1>4, <4>1 DEF SkipOp, Numbers, Begins
    <3> QED
      BY <3>1, <3>2
  <2>2. Alike(rows'[s], rows[s])
    BY <1>1, <1>3, <1>7, <1>8, <2>1, SavesAlike
  <2>3. \A t \in Stages : Alike(rows'[t], rows[t])
    BY <1>4, <2>2, AlikeSelf
  <2> QED
    BY <1>5, <1>6, <1>7, <1>8, <2>3, AlikeMoves
<1>9. CASE Begins(L[1])
  <2>1. s = w
    <3>1. s # w => SkipOp(L[1])
      BY <1>4, ThreadOps
    <3> QED
      BY <1>9, <3>1 DEF SkipOp, Begins
  <2>2. /\ L[1].change = "begin" /\ L[1].n \in Nat /\ L[1].change \in Changes
        /\ work[w].held = rows[w] /\ rows[w] \in Rows /\ work[w].decision \in Nat
        /\ rows'[w] = Changed(rows[w], L[1].change, L[1].n, work[w].decision) /\ rows'[w] \in Rows
    BY <1>3, <1>9, <2>1 DEF Saving, Guest, Begins
  <2>3. L[1].n = AttemptsSoFar(rows[w]) + 1
    BY <1>1, <1>4, <1>9 DEF Counting, Numbers
  <2>4. /\ rows'[w].attempts = L[1].n /\ rows'[w].stale = FALSE
        /\ rows'[w].rollbacks = rows[w].rollbacks /\ rows'[w].status # "pending"
    <3> DEFINE new == Changed(rows[w], L[1].change, L[1].n, work[w].decision)
    <3>1. /\ new.attempts = IF L[1].change \in {"begin", "retry"} \/ (L[1].change = "fail" /\ L[1].n > 0)
                             THEN L[1].n ELSE rows[w].attempts
          /\ new.stale = IF L[1].change = "begin" THEN FALSE
                         ELSE IF SetsAside(L[1]) THEN TRUE ELSE rows[w].stale
          /\ new.rollbacks = IF L[1].change = "roll_back" THEN rows[w].rollbacks + 1 ELSE rows[w].rollbacks
          /\ new.status = "pending" => Mute(L[1]) /\ rows[w].status = "pending"
      BY <1>4, <2>2, ChangedCounts
    <3>2. rows'[w] = new
      BY <2>2
    <3> HIDE DEF new
    <3> QED
      BY <2>2, <3>1, <3>2 DEF Mute
  <2>5. /\ L = Todo(w) /\ T = Tail(L) /\ L \in Seq(Ops) /\ L # <<>> /\ Ahead(w) = {L[1]} \cup ToSet(T)
        /\ Todo(w)' = T /\ Ahead(w)' = ToSet(T) /\ th' = th /\ main' = main
        /\ graph' = graph /\ torn' = torn
    BY <1>5 DEF Moves, Popping, Ahead
  <2>6. /\ Len(L) \in Nat /\ DOMAIN L = 1 .. Len(L) /\ DOMAIN T = 1 .. Len(L) - 1
        /\ \A i \in DOMAIN T : i + 1 \in DOMAIN L /\ T[i] = L[i + 1]
        /\ \A i \in DOMAIN L : i > 1 => i - 1 \in DOMAIN T /\ T[i - 1] = L[i]
        /\ 1 \in DOMAIN L
    BY <2>5, Popped
  <2>7. \A o \in ToSet(T) : ~Counts(o) /\ ~Begins(o)
    <3>1. \A i \in DOMAIN T : ~Counts(T[i])
      BY <1>1, <1>9, <2>5, <2>6 DEF Counting, BeginsOnce
    <3>2. \A o \in ToSet(T) : ~Counts(o)
      BY <3>1 DEF ToSet
    <3> QED
      BY <3>2 DEF Counts, Begins
  <2>8. \E o \in ToSet(T) : Starts(o)
    <3>1. PICK j \in DOMAIN L : j > 1 /\ Starts(L[j])
      BY <1>1, <1>9, <2>5, <2>6 DEF Counting, BeginsOnce
    <3>2. j - 1 \in DOMAIN T /\ T[j - 1] = L[j]
      BY <2>6, <3>1
    <3> QED
      BY <3>1, <3>2 DEF ToSet
  <2>9. StartAhead(w) /\ BeginAhead(w) /\ StartAhead(w)' /\ ~BeginAhead(w)'
    BY <1>9, <2>5, <2>7, <2>8 DEF StartAhead, BeginAhead
  <2>10. Counting(w)'
    <3>1. BeginsOnce(T)
      BY <1>1, <2>5, BeginsOnceTail DEF Counting
    <3>2. \A o \in Ahead(w)' : Numbers(o, rows'[w]) /\ ~Resets(o) /\ ~SetsAside(o)
      BY <1>1, <2>5, <2>7 DEF Counting, Numbers, Counts
    <3>3. Attempt(w)'
      BY <1>1, <2>3, <2>4, <2>5, <2>9 DEF Counting, Attempt, Running
    <3>4. th[w].at = "agent"
      BY <1>1, <2>9 DEF Counting
    <3> QED
      BY <2>5, <3>1, <3>2, <3>3, <3>4 DEF Counting
  <2>11. Tried(w)' = Tried(w) + 1 /\ Tried(w) \in Nat /\ RolledBack(w)' = RolledBack(w)
    <3>1. trail[w] \in Seq(Decisions)
      BY DEF IInv, Typed
    <3>2. Cardinality(Since(trail[w])) \in Nat
      BY <3>1, TrailCounts
    <3> QED
      BY <1>4, <2>9, <3>2 DEF Tried, Owed, RolledBack
  <2>12. Counted(w)'
    <3>1. ~Free(w)
      BY <2>5 DEF Free, Todo
    <3>2. Free(Runner) /\ Free(Runner)'
      <4>1. Free(Runner) /\ w # Runner
        BY <3>1, RunnerWaits DEF IInv
      <4> QED
        BY <1>5, <4>1 DEF Free, Moves, Workers
    <3>3. Closes' = {} /\ Closes = {} /\ ~Coming(w)
      BY <3>2, NobodyCalls, NobodyCallsThen
    <3>4. Excused(w) => Excused(w)'
      BY <2>5, <3>3 DEF Excused, Rerouted, Respliced, Unclosed
    <3>5. rows[w].attempts \in Nat /\ rows[w].stale \in BOOLEAN
      BY <2>2 DEF Rows
    <3>6. Agrees(w) => Agrees(w)'
      BY <2>3, <2>4, <2>5, <2>11, <3>5 DEF Agrees, AttemptsSoFar
    <3>7. rows'[w] # NoRow
      BY <2>2, RowsAreSomething
    <3> QED
      BY <1>1, <2>2, <2>4, <2>11, <3>4, <3>6, <3>7 DEF Counted, Fresh
  <2>13. HoldsCounts(w)'
    BY <1>1, <1>4, <1>7, <2>5, OwnHoldings
  <2>14. \A t \in Stages \ {w} : Alike(rows'[t], rows[t]) /\ SameTale(trail'[t], trail[t])
    BY <1>4, <1>6, <2>1, AlikeSelf
  <2> QED
    BY <1>4, <1>5, <2>1, <2>10, <2>12, <2>13, <2>14, ThreadMoves
<1> QED
  BY <1>8, <1>9

LEMMA ThreadRecords ==
  ASSUME IInv, Typed', Tally, NEW w \in Stages, RecordDecision(w)
  PROVE  Tally'
<1>1. w \in Workers /\ Counting(w) /\ Counted(w)
  BY DEF Workers, Tally
<1>2. PICK L, T : Popping(w, L, T) /\ L[1].op = "record"
  BY <1>1, Acting DEF RecordDecision
<1>3. PICK s \in Stages : s = L[1].stage
  BY <1>2, ThreadOps
<1>4. /\ Upcoming(w) = L[1] /\ Worked(w) \in WorkerStates /\ Worked(w).todo = T
      /\ L[1] \in Ops /\ L[1] \in Ahead(w) /\ Staged(L[1])
  BY <1>2 DEF Popping, Staged
<1> DEFINE d == [action |-> L[1].action, by |-> L[1].by]
           next == [Worked(w) EXCEPT !.decision = Len(trail[s]) + 1]
<1>5. d \in Decisions /\ trail[s] \in Seq(Decisions) /\ d.action = L[1].action
  <2>1. L[1].action \in Actions /\ L[1].by \in Authors
    BY <1>2, <1>4 DEF Ops, Simple, Asides
  <2> QED
    BY <2>1 DEF IInv, Typed, Decisions
<1>6. next \in WorkerStates /\ next.todo = T
  <2>1. Len(trail[s]) + 1 \in Nat
    BY <1>5
  <2> QED
    BY <1>4, <2>1 DEF WorkerStates
<1>7. /\ trail' = [trail EXCEPT ![s] = Append(@, d)] /\ work' = [work EXCEPT ![w] = next]
      /\ UNCHANGED <<rows, graph, torn, th, main, mem>>
  BY <1>3, <1>4 DEF RecordDecision, processVars
<1> HIDE DEF next, d
<1>8. /\ \A v \in Workers \ {w} : work'[v] = work[v]
      /\ work'[w] = next
  BY <1>1, <1>2, <1>6, <1>7, StillAhead
<1>9. Moves(w, L, T)
  BY <1>2, <1>6, <1>7, <1>8 DEF Moves, Todo
<1>10. trail'[s] = Append(trail[s], d) /\ \A t \in Stages \ {s} : trail'[t] = trail[t]
  BY <1>7 DEF IInv, Typed
<1>11. ~Begins(L[1]) /\ ~Resets(L[1]) /\ \A t \in Stages : Alike(rows'[t], rows[t])
  BY <1>1, <1>2, <1>4, <1>7, AlikeSelf DEF Begins, Counting
<1>12. CASE ~Starts(L[1])
  <2>1. d.action \notin SetAsideActions \cup {"attempt_started"} /\ d.action # "rolled_back"
    BY <1>2, <1>5, <1>11, <1>12 DEF Starts, Resets, SetAsideActions
  <2>2. SameTale(trail'[s], trail[s])
    BY <1>5, <1>10, <2>1, OneMore DEF SameTale
  <2>3. \A t \in Stages : SameTale(trail'[t], trail[t])
    BY <1>10, <2>2 DEF SameTale
  <2> QED
    BY <1>2, <1>9, <1>11, <1>12, <2>3, AlikeMoves
<1>13. CASE Starts(L[1])
  <2>1. s = w /\ d.action = "attempt_started"
    <3>1. s # w => SkipOp(L[1])
      BY <1>2, <1>3, ThreadOps
    <3> QED
      BY <1>5, <1>13, <3>1 DEF SkipOp, Starts
  <2>2. /\ L = Todo(w) /\ T = Tail(L) /\ L \in Seq(Ops) /\ L # <<>> /\ Ahead(w) = {L[1]} \cup ToSet(T)
        /\ Todo(w)' = T /\ Ahead(w)' = ToSet(T) /\ th' = th /\ main' = main
        /\ graph' = graph /\ torn' = torn
    BY <1>9 DEF Moves, Popping, Ahead
  <2>3. /\ Len(L) \in Nat /\ DOMAIN L = 1 .. Len(L) /\ DOMAIN T = 1 .. Len(L) - 1
        /\ \A i \in DOMAIN T : i + 1 \in DOMAIN L /\ T[i] = L[i + 1]
        /\ 1 \in DOMAIN L
    BY <2>2, Popped
  <2>4. \A i \in DOMAIN T : ~Starts(T[i]) /\ ~Begins(T[i])
    <3>1. ASSUME NEW i \in DOMAIN L, i > 1 PROVE ~Starts(L[i])
      BY <1>1, <1>13, <2>2, <2>3, <3>1 DEF Counting, BeginsOnce
    <3>2. ASSUME NEW i \in DOMAIN L, i > 1 PROVE ~Begins(L[i])
      <4> SUFFICES ASSUME Begins(L[i]) PROVE FALSE
        OBVIOUS
      <4>1. PICK j \in DOMAIN L : j > i /\ Starts(L[j])
        BY <1>1, <2>2 DEF Counting, BeginsOnce
      <4> QED
        BY <2>3, <3>1, <3>2, <4>1
    <3> QED
      BY <2>3, <3>1, <3>2
  <2>5. StartAhead(w) /\ ~BeginAhead(w) /\ ~StartAhead(w)' /\ ~BeginAhead(w)'
    BY <1>11, <1>13, <2>2, <2>4 DEF StartAhead, BeginAhead, ToSet
  <2>6. Counting(w)'
    <3>1. BeginsOnce(T)
      BY <1>1, <2>2, BeginsOnceTail DEF Counting
    <3>2. \A o \in Ahead(w)' : Numbers(o, rows'[w]) /\ ~Resets(o) /\ ~SetsAside(o)
      BY <1>1, <1>7, <2>2 DEF Counting
    <3>3. Attempt(w)'
      BY <1>1, <1>7, <2>2, <2>5 DEF Counting, Attempt, Running
    <3> QED
      BY <2>2, <2>5, <3>1, <3>2, <3>3 DEF Counting
  <2>7. /\ Cardinality(Since(trail'[w])) = Cardinality(Since(trail[w])) + 1
        /\ Rollbacks(trail'[w]) = Rollbacks(trail[w])
        /\ Cardinality(Since(trail[w])) \in Nat
    <3>1. /\ d \in Decisions /\ trail[w] \in Seq(Decisions) /\ trail'[w] = Append(trail[w], d)
          /\ d.action = "attempt_started" /\ d.action # "rolled_back"
      BY <1>5, <1>10, <2>1
    <3>2. Cardinality(Since(trail'[w])) = Cardinality(Since(trail[w])) + 1
      <4>1. PICK q, r : q = trail[w] /\ r = trail'[w]
        OBVIOUS
      <4>2. q \in Seq(Decisions) /\ r = Append(q, d)
        BY <3>1, <4>1
      <4>3. Cardinality(Since(r)) = Cardinality(Since(q)) + 1
        BY <3>1, <4>2, OneMore
      <4> QED
        BY <4>1, <4>3
    <3>3. Rollbacks(trail'[w]) = Rollbacks(trail[w])
      BY <3>1, OneMore
    <3> QED
      BY <3>1, <3>2, <3>3, TrailCounts
  <2>8. Tried(w)' = Tried(w) /\ RolledBack(w)' = RolledBack(w)
    BY <2>5, <2>7 DEF Tried, Owed, RolledBack
  <2>9. rows[w].status \in {"running", "retrying"}
    <3>1. Running /\ th[w].at = "agent" /\ AtWork(w)
      <4>1. ~Free(w)
        BY <2>2 DEF Free, Todo
      <4> QED
        BY <1>1, <2>5, <4>1, RunnerWaits DEF Counting, IInv, Store
    <3>2. ~\E o \in Ahead(w) : IsSave(o, w, "begin")
      BY <2>5 DEF BeginAhead, Begins, IsSave
    <3> QED
      BY <3>1, <3>2 DEF AtWork
  <2>10. Counted(w)'
    <3>1. ~Free(w)
      BY <2>2 DEF Free, Todo
    <3>2. Free(Runner) /\ Free(Runner)'
      <4>1. Free(Runner) /\ w # Runner
        BY <3>1, RunnerWaits
      <4> QED
        BY <1>9, <4>1 DEF Free, Moves, Workers
    <3>3. Closes' = {} /\ Closes = {} /\ ~Coming(w)
      BY <3>2, NobodyCalls, NobodyCallsThen
    <3>4. Excused(w) => Excused(w)'
      BY <2>2, <3>3 DEF Excused, Rerouted, Respliced, Unclosed
    <3>5. Agrees(w) => Agrees(w)'
      BY <1>7, <2>2, <2>8 DEF Agrees
    <3>6. rows[w] # NoRow
      BY <2>9 DEF NoRow
    <3> QED
      BY <1>1, <1>7, <2>8, <2>9, <3>4, <3>5, <3>6 DEF Counted
  <2>11. HoldsCounts(w)'
    BY <1>1, <1>2, <2>2, OwnHoldings
  <2>12. \A t \in Stages \ {w} : Alike(rows'[t], rows[t]) /\ SameTale(trail'[t], trail[t])
    BY <1>10, <1>11, <2>1 DEF SameTale
  <2> QED
    BY <1>3, <1>4, <1>9, <1>11, <2>1, <2>6, <2>10, <2>11, <2>12, ThreadMoves
<1> QED
  BY <1>12, <1>13

(* Whatever transaction a thread is at, but for a KeyError. *)
LEMMA ThreadTransactions ==
  ASSUME IInv, Typed', Tally, NEW w \in Stages, Transaction(w), ~RaiseKeyError(w)
  PROVE  Tally'
<1>1. w \in Workers
  BY DEF Workers
<1>2. ASSUME SetAside(w) \/ UpdateRun(w) \/ UpdateGraph(w) \/ CreateRow(w) PROVE FALSE
  <2>1. PICK op \in {"aside", "status", "graph", "create"} : Works(w, op)
    BY <1>2 DEF SetAside, UpdateRun, UpdateGraph, CreateRow
  <2>2. PICK L, T : Popping(w, L, T) /\ L[1].op = op
    BY <1>1, <2>1, Acting
  <2> QED
    BY <2>2, ThreadOps
<1> QED
  BY <1>2, ThreadLoads, ThreadSaves, ThreadRecords DEF Transaction

-----------------------------------------------------------------------------
(* The steps of the threads keep the tally *)

(* The list a thread is given, and what it tells of the attempts. *)
LEMMA ThreadGivenTally ==
  ASSUME IInv, Typed', Tally, NEW s \in Stages, NEW list, ThreadGiven(s, list),
         Counting(s)', StartAhead(s)' => BeginAhead(s)'
  PROVE  Tally'
<1>1. /\ Given(s, list) /\ Free(Runner) /\ Running /\ s \in Workers /\ s # Runner /\ Typed
      /\ main' = main /\ mem' = mem /\ torn' = torn /\ rows' = rows /\ trail' = trail /\ graph' = graph
      /\ \A t \in Stages \ {s} : th'[t] = th[t]
  BY LineageAssumption DEF ThreadGiven, Given, Workers, storeVars, IInv
<1>2. /\ Todo(s)' = list /\ Ahead(s)' = ToSet(list) /\ Ahead(s) = {}
      /\ \A v \in Workers \ {s} : work'[v] = work[v] /\ Ahead(v)' = Ahead(v)
  BY <1>1, GivenIs
<1>3. Free(Runner)'
  BY <1>1, <1>2 DEF Free, Workers
<1>4. /\ Calling' /\ Closes' = {} /\ Ahead(Runner)' = {}
      /\ Closes = {} /\ \A t \in Stages : ~Coming(t)
  BY <1>1, <1>3, NobodyCalls, NobodyCallsThen
<1>5. Known'
  BY <1>1, <1>4 DEF Tally, Known
<1>6. \A v \in Workers : HoldsCounts(v)'
  <2>1. HoldsCounts(s)'
    <3>1. Opens(list)
      BY <1>1 DEF Given
    <3> QED
      BY <1>2, <3>1 DEF HoldsCounts, Opens
  <2>2. ASSUME NEW v \in Workers \ {s} PROVE HoldsCounts(v)'
    BY <1>1, <1>2 DEF HoldsCounts, Todo, Tally
  <2> QED
    BY <2>1, <2>2
<1>7. ASSUME NEW t \in Stages \ {s} PROVE Counting(t)'
  <2>1. work'[t] = work[t] /\ th'[t] = th[t] /\ (Running' => Running) /\ Counting(t)
    BY <1>1, <1>2 DEF Workers, Running, Tally
  <2> QED
    BY <1>1, <2>1, CountingStands, AlikeSelf
<1>8. ASSUME NEW t \in Stages PROVE Counted(t)'
  <2>1. Owed(t)' <=> Owed(t)
    <3>1. CASE t = s
      BY <1>2, <3>1 DEF Owed, StartAhead
    <3>2. CASE t # s
      BY <1>2, <3>2 DEF Owed, StartAhead, BeginAhead, Workers
    <3> QED
      BY <3>1, <3>2
  <2>2. (Rerouted(t) => Rerouted(t)') /\ (Unclosed(t) => Unclosed(t)')
    BY <1>1, <1>4 DEF Rerouted, Respliced, Unclosed
  <2>3. Counted(t) /\ SameTale(trail'[t], trail[t])
    BY <1>1 DEF Tally, SameTale
  <2> QED
    BY <1>1, <1>4, <2>1, <2>2, <2>3, CountedStands, AlikeSelf DEF Excused
<1> QED
  BY <1>4, <1>5, <1>6, <1>7, <1>8 DEF Tally

(* A list that begins no attempt, and writes no number but n. *)
Quietly(list, n) ==
    \A o \in ToSet(list) :
        /\ ~Starts(o) /\ ~Begins(o) /\ ~Resets(o) /\ ~SetsAside(o)
        /\ Counts(o) => o.change = "fail" /\ o.n = n

LEMMA QuietlyGiven ==
  ASSUME IInv, Typed', Tally, NEW s \in Stages, NEW list, ThreadGiven(s, list),
         NEW n \in {0, rows[s].attempts}, Quietly(list, n),
         th'[s].at \in Busy => th[s].at \in Busy /\ th'[s].attempt = th[s].attempt
  PROVE  Tally'
<1>1. /\ Given(s, list) /\ Running /\ s \in Workers /\ Typed /\ rows' = rows /\ main' = main
      /\ Counting(s)
  BY DEF ThreadGiven, Given, Workers, storeVars, IInv, Tally
<1>2. Todo(s)' = list /\ Ahead(s)' = ToSet(list) /\ Ahead(s) = {}
  BY <1>1, GivenIs
<1>3. ~StartAhead(s)' /\ ~BeginAhead(s)' /\ ~BeginAhead(s)
  BY <1>2 DEF StartAhead, BeginAhead, Quietly
<1>4. BeginsOnce(list)
  <2>1. \A i \in DOMAIN list : ~Starts(list[i]) /\ ~Begins(list[i])
    BY DEF Quietly, ToSet
  <2> QED
    BY <2>1 DEF BeginsOnce
<1>5. \A o \in ToSet(list) : Numbers(o, rows[s]) /\ ~Resets(o) /\ ~SetsAside(o)
  BY DEF Quietly, Numbers, Counts
<1>6. Attempt(s)'
  BY <1>1, <1>3 DEF Attempt, Counting, Running
<1>7. Counting(s)'
  BY <1>1, <1>2, <1>3, <1>4, <1>5, <1>6 DEF Counting
<1> QED
  BY <1>3, <1>7, ThreadGivenTally

(* What is in the lists. *)
LEMMA ListsHold ==
  ASSUME NEW s \in Stages
  PROVE  /\ \A action \in Actions : \A o \in ToSet(Log(s, action)) :
               \/ o.op \in {"load", "audit"}
               \/ o.op = "save" /\ o.change = "link"
               \/ o.op = "record" /\ o.action = action
         /\ \A change \in Changes \ {"link"}, n \in Nat : \A o \in ToSet(Update(s, change, n)) :
               o.op = "load" \/ o = Save(s, change, n)
<1>1. ASSUME NEW action \in Actions, NEW o \in ToSet(Log(s, action))
      PROVE  \/ o.op \in {"load", "audit"}
             \/ o.op = "save" /\ o.change = "link"
             \/ o.op = "record" /\ o.action = action
  <2> DEFINE L == Log(s, action)
  <2>1. /\ DOMAIN L = 1 .. 4 /\ L[1] = Record(s, action, "executor") /\ L[2] = Load(s)
        /\ L[3] = Save(s, "link", 0) /\ L[4] = Audit(s)
    BY LogShape
  <2>2. \E i \in DOMAIN L : o = L[i]
    BY DEF ToSet
  <2> HIDE DEF L
  <2> QED
    BY <2>1, <2>2 DEF Record, Load, Save, Audit
<1>2. ASSUME NEW change \in Changes \ {"link"}, NEW n \in Nat, NEW o \in ToSet(Update(s, change, n))
      PROVE  o.op = "load" \/ o = Save(s, change, n)
  <2> DEFINE L == Update(s, change, n)
  <2>1. DOMAIN L = 1 .. 2 /\ L[1] = Load(s) /\ L[2] = Save(s, change, n)
    BY UpdateShape
  <2>2. \E i \in DOMAIN L : o = L[i]
    BY DEF ToSet
  <2> HIDE DEF L
  <2> QED
    BY <2>1, <2>2 DEF Load
<1> QED
  BY <1>1, <1>2

Harmless == Actions \ (SetAsideActions \cup {"attempt_started"})

LEMMA QuietLists ==
  ASSUME NEW s \in Stages, NEW n \in Nat
  PROVE  /\ Quietly(<<>>, n)
         /\ \A action \in Harmless : Quietly(Log(s, action), n)
         /\ \A change \in {"block", "pass", "output"} : Quietly(Update(s, change, 0), n)
         /\ Quietly(Fail(s, n), n)
         /\ \A change \in {"block", "pass"}, action \in Harmless :
               Quietly(Update(s, change, 0) \o Log(s, action), n)
         /\ \A action \in Harmless : Quietly(Log(s, action) \o Fail(s, n), n)
<1>1. Quietly(<<>>, n)
  BY DEF Quietly, ToSet
<1>2. ASSUME NEW action \in Harmless PROVE Quietly(Log(s, action), n) /\ Log(s, action) \in Seq(Ops)
  BY ListsHold, LogShape DEF Quietly, Starts, Begins, Resets, SetsAside, Counts, Harmless
<1>3. ASSUME NEW change \in {"block", "pass", "output", "fail"}, NEW m \in {0, n},
             change = "fail" => m = n
      PROVE  Quietly(Update(s, change, m), n) /\ Update(s, change, m) \in Seq(Ops)
  <2>1. change \in Changes \ {"link"} /\ m \in Nat
    BY DEF Changes
  <2>2. \A o \in ToSet(Update(s, change, m)) : o.op = "load" \/ o = Save(s, change, m)
    BY <2>1, ListsHold
  <2>3. Quietly(Update(s, change, m), n)
    BY <1>3, <2>1, <2>2 DEF Quietly, Starts, Begins, Resets, SetsAside, Counts, Save
  <2>4. Update(s, change, m) \in Seq(Ops)
    BY <2>1, UpdateShape
  <2> QED
    BY <2>3, <2>4
<1>4. ASSUME NEW x \in Seq(Ops), NEW y \in Seq(Ops), Quietly(x, n), Quietly(y, n)
      PROVE  Quietly(x \o y, n) /\ x \o y \in Seq(Ops)
  <2>1. ToSet(x \o y) = ToSet(x) \cup ToSet(y)
    BY ConcatenatedSet
  <2> QED
    BY <1>4, <2>1, ConcatProperties DEF Quietly
<1>5. "stage_failed" \in Harmless
  BY DEF Harmless, Actions, SetAsideActions
<1>6. Quietly(Fail(s, n), n) /\ Fail(s, n) \in Seq(Ops)
  <2>1. /\ Quietly(Update(s, "fail", n), n) /\ Update(s, "fail", n) \in Seq(Ops)
        /\ Quietly(Log(s, "stage_failed"), n) /\ Log(s, "stage_failed") \in Seq(Ops)
    BY <1>2, <1>3, <1>5
  <2> QED
    BY <1>4, <2>1 DEF Fail
<1>7. ASSUME NEW change \in {"block", "pass"}, NEW action \in Harmless
      PROVE  Quietly(Update(s, change, 0) \o Log(s, action), n)
  <2>1. /\ Quietly(Update(s, change, 0), n) /\ Update(s, change, 0) \in Seq(Ops)
        /\ Quietly(Log(s, action), n) /\ Log(s, action) \in Seq(Ops)
    BY <1>2, <1>3
  <2> QED
    BY <1>4, <2>1
<1>8. ASSUME NEW action \in Harmless PROVE Quietly(Log(s, action) \o Fail(s, n), n)
  <2>1. Quietly(Log(s, action), n) /\ Log(s, action) \in Seq(Ops)
    BY <1>2
  <2> QED
    BY <1>4, <1>6, <2>1
<1> QED
  BY <1>1, <1>2, <1>3, <1>6, <1>7, <1>8

(* The list that an action of a thread gives it. *)
LEMMA GivenList ==
  ASSUME IInv, NEW s \in Stages, NEW list, ThreadGiven(s, list), NEW mine, Do(s, mine)
  PROVE  list = mine
<1>1. Typed /\ s \in Workers /\ Given(s, list)
  BY DEF IInv, Workers, ThreadGiven
<1>2. Todo(s)' = list
  BY <1>1, GivenIs
<1>3. Todo(s)' = mine
  <2>1. work' = [work EXCEPT ![s] = [work[s] EXCEPT !.todo = mine]]
    BY DEF Do
  <2>2. work \in [Workers -> WorkerStates] /\ work[s] \in WorkerStates
    BY <1>1 DEF Typed, WorkerStates
  <2>3. work'[s] = [work[s] EXCEPT !.todo = mine]
    BY <1>1, <2>1, <2>2
  <2> QED
    BY <2>2, <2>3 DEF Todo, WorkerStates
<1> QED
  BY <1>2, <1>3

(* What the thread is at, when its row counts the attempt. *)
LEMMA AttemptIs ==
  ASSUME Tally, NEW s \in Stages, NEW place \in Busy, At(s, place)
  PROVE  th[s].attempt = rows[s].attempts /\ ~rows[s].stale
<1>1. Ahead(s) = {} /\ Running /\ th[s].at \in Busy
  BY AheadIs DEF At, Running
<1> QED
  BY <1>1 DEF Tally, Counting, Attempt, BeginAhead

LEMMA QuietStep ==
  ASSUME IInv, Rowed, Typed', Tally, NEW s \in Stages, ThreadStep(s),
         NEW n \in {0, rows[s].attempts}, NEW mine, Quietly(mine, n), Do(s, mine),
         th'[s].at \in Busy => th[s].at \in Busy /\ th'[s].attempt = th[s].attempt
  PROVE  Tally'
<1>1. PICK list : ThreadGiven(s, list)
  BY ThreadStepIs
<1>2. list = mine
  BY <1>1, GivenList
<1> QED
  BY <1>1, <1>2, QuietlyGiven

LEMMA NextPlace ==
  ASSUME Typed, NEW s \in Stages, NEW place, NEW list
  PROVE  /\ Proceed(s, place, list) =>
               Do(s, list) /\ th'[s].at = place /\ th'[s].attempt = th[s].attempt
         /\ Quit(s, list) => Do(s, list) /\ th'[s].at \notin Busy
<1>1. th \in [Stages -> ThreadStates]
  BY DEF Typed, ThreadStates
<1>2. Proceed(s, place, list) => th'[s].at = place /\ th'[s].attempt = th[s].attempt
  BY <1>1 DEF Proceed, ThreadStates
<1>3. Quit(s, list) => th'[s].at \notin Busy
  BY <1>1 DEF Quit, NoThread, Busy
<1> QED
  BY <1>2, <1>3 DEF Proceed, Quit

LEMMA QuietSteps ==
  ASSUME IInv, Rowed, Typed', Tally, NEW s \in Stages, ThreadStep(s), ~Enter(s), ~TryAgain(s)
  PROVE  Tally'
<1>0. Typed /\ th \in [Stages -> ThreadStates]
  BY DEF IInv, Typed, ThreadStates
<1>1. \A action \in {"entry_gate_blocked", "entry_gate_rejected", "attempt_failed", "stage_passed",
                     "exit_gate_blocked", "exit_gate_failed"} : action \in Harmless
  BY DEF Harmless, Actions, SetAsideActions
<1>2. ASSUME NEW mine, Do(s, mine), Quietly(mine, 0), th'[s].at \notin Busy PROVE Tally'
  BY <1>2, QuietStep
<1>3. ASSUME NEW mine, Do(s, mine), Quietly(mine, 0), th[s].at \in Busy, th'[s].attempt = th[s].attempt
      PROVE  Tally'
  BY <1>3, QuietStep
<1>4. CASE StartThread(s)
  <2> DEFINE place == IF Waits(rows[s]) THEN "recheck" ELSE "entry"
  <2>1. Proceed(s, place, <<>>) /\ place \notin Busy
    BY <1>4 DEF StartThread, Busy
  <2> HIDE DEF place
  <2>2. Do(s, <<>>) /\ th'[s].at = place
    BY <1>0, <2>1, NextPlace
  <2> QED
    BY <1>2, <2>1, <2>2, QuietLists
<1>5. CASE EntryBlocks(s) \/ ExitPasses(s)
  <2>1. \E change \in {"block", "pass"}, action \in {"entry_gate_blocked", "stage_passed"} :
           Quit(s, Update(s, change, 0) \o Log(s, action))
    BY <1>5 DEF EntryBlocks, ExitPasses
  <2>2. PICK change \in {"block", "pass"}, action \in {"entry_gate_blocked", "stage_passed"} :
           Quit(s, Update(s, change, 0) \o Log(s, action))
    BY <2>1
  <2>3. action \in Harmless
    BY <1>1
  <2>4. Quietly(Update(s, change, 0) \o Log(s, action), 0)
    BY <2>3, QuietLists
  <2> QED
    BY <1>0, <1>2, <2>2, <2>4, NextPlace
<1>6. CASE ExitBlocks(s)
  <2>1. CASE Quit(s, Update(s, "block", 0) \o Log(s, "exit_gate_blocked"))
    <3>1. Quietly(Update(s, "block", 0) \o Log(s, "exit_gate_blocked"), 0)
      BY <1>1, QuietLists
    <3> QED
      BY <1>0, <1>2, <2>1, <3>1, NextPlace
  <2>2. CASE Quit(s, <<>>)
    BY <1>0, <1>2, <2>2, NextPlace, QuietLists
  <2> QED
    BY <1>6, <2>1, <2>2 DEF ExitBlocks
<1>7. ASSUME NEW action \in {"entry_gate_rejected", "exit_gate_failed"},
             Proceed(s, "propagate", Log(s, action) \o Fail(s, 0))
      PROVE  Tally'
  <2>1. action \in Harmless
    BY <1>1
  <2>2. Quietly(Log(s, action) \o Fail(s, 0), 0)
    BY <2>1, QuietLists
  <2>3. Do(s, Log(s, action) \o Fail(s, 0)) /\ th'[s].at \notin Busy
    BY <1>0, <1>7, NextPlace DEF Busy
  <2> QED
    BY <1>2, <2>2, <2>3
<1>8. ASSUME NEW action \in {"attempt_failed", "exit_gate_failed"}, NEW place \in Busy, At(s, place),
             Proceed(s, "again", Log(s, action))
      PROVE  Tally'
  <2>1. action \in Harmless
    BY <1>1
  <2>2. Quietly(Log(s, action), 0)
    BY <2>1, QuietLists
  <2>3. Do(s, Log(s, action)) /\ th'[s].attempt = th[s].attempt
    BY <1>0, <1>8, NextPlace
  <2> QED
    BY <1>3, <1>8, <2>2, <2>3 DEF At
<1>9. CASE AgentSucceeds(s)
  <2>1. Quietly(Update(s, "output", 0), 0)
    BY QuietLists
  <2>2. Do(s, Update(s, "output", 0)) /\ th'[s].attempt = th[s].attempt /\ th[s].at \in Busy
    BY <1>0, <1>9, NextPlace DEF AgentSucceeds, At, Busy
  <2> QED
    BY <1>3, <2>1, <2>2
<1>10. CASE GiveUp(s)
  <2> DEFINE n == th[s].attempt
  <2>1. At(s, "again") /\ Proceed(s, "propagate", Fail(s, n))
    BY <1>10 DEF GiveUp
  <2>2. n = rows[s].attempts /\ n \in Nat
    <3>1. n = rows[s].attempts
      BY <2>1, AttemptIs DEF Busy
    <3> QED
      BY <1>0, <3>1 DEF ThreadStates
  <2> HIDE DEF n
  <2>3. Quietly(Fail(s, n), n)
    BY <2>2, QuietLists
  <2>4. Do(s, Fail(s, n)) /\ th'[s].at \notin Busy
    BY <1>0, <2>1, NextPlace DEF Busy
  <2> QED
    BY <2>2, <2>3, <2>4, QuietStep
<1>11. CASE Propagate(s)
  <2> DEFINE T == {d \in DownstreamOf(mem, s) : rows[d].status \notin Terminal}
             mine == ForAll(T, Skip)
  <2>1. T \in SUBSET Stages
    <3>1. DownstreamOf(mem, s) \subseteq mem.nodes
      BY DEF DownstreamOf
    <3> QED
      BY <3>1 DEF IInv, Typed, Graphs
  <2>2. Quit(s, mine)
    BY <1>11 DEF Propagate
  <2> HIDE DEF T
  <2>3. \A o \in ToSet(mine) : SkipOp(o)
    BY <2>1, SkipsGiven
  <2> HIDE DEF mine
  <2>4. Quietly(mine, 0)
    BY <2>3 DEF Quietly, SkipOp, Starts, Begins, Resets, SetsAside, Counts, SetAsideActions
  <2> QED
    BY <1>0, <1>2, <2>2, <2>4, NextPlace
<1>12. CASE EntryRejects(s)
  BY <1>7, <1>12 DEF EntryRejects
<1>13. CASE ExitFails(s)
  BY <1>7, <1>8, <1>13 DEF ExitFails, Busy
<1>14. CASE AgentFails(s)
  BY <1>8, <1>14 DEF AgentFails, Busy
<1> QED
  BY <1>4, <1>5, <1>6, <1>9, <1>10, <1>11, <1>12, <1>13, <1>14 DEF ThreadStep

(* Two transactions, and four more. *)
LEMMA SixParts ==
  ASSUME NEW x \in Seq(Ops), NEW y \in Seq(Ops), Len(x) = 2, Len(y) = 4
  PROVE  LET L == x \o y IN
         /\ L \in Seq(Ops) /\ DOMAIN L = 1 .. 6 /\ Len(L) = 6
         /\ L[1] = x[1] /\ L[2] = x[2] /\ L[3] = y[1] /\ L[4] = y[2] /\ L[5] = y[3] /\ L[6] = y[4]
<1> DEFINE L == x \o y
<1>0. /\ L \in Seq(Ops) /\ DOMAIN L = 1 .. Len(x) + Len(y)
      /\ \A i \in 1 .. Len(x) : L[i] = x[i]
      /\ \A i \in 1 .. Len(y) : L[Len(x) + i] = y[i]
  BY Concatenated
<1> HIDE DEF L
<1>1. /\ L \in Seq(Ops) /\ DOMAIN L = 1 .. 2 + 4 /\ Len(L) = 6
      /\ \A i \in 1 .. 2 : L[i] = x[i]
      /\ \A i \in 1 .. 4 : L[2 + i] = y[i]
  BY <1>0
<1>2. \A i \in 1 .. 4, j \in Nat : j = 2 + i => L[j] = y[i]
  BY <1>1
<1>3. L[3] = y[1] /\ L[4] = y[2] /\ L[5] = y[3] /\ L[6] = y[4] /\ L[1] = x[1] /\ L[2] = x[2]
  BY <1>1, <1>2
<1> QED
  BY <1>1, <1>3 DEF L

(* The list of an attempt. *)
LEMMA BeginningList ==
  ASSUME NEW s \in Stages, NEW n \in Nat
  PROVE  LET L == Update(s, "begin", n) \o Log(s, "attempt_started") IN
         /\ L \in Seq(Ops) /\ BeginsOnce(L) /\ \E o \in ToSet(L) : Begins(o)
         /\ \A o \in ToSet(L) : /\ ~Resets(o) /\ ~SetsAside(o)
                                /\ Counts(o) => Begins(o) /\ o.n = n
<1> DEFINE x == Update(s, "begin", n)
           y == Log(s, "attempt_started")
           L == x \o y
<1>1. /\ x \in Seq(Ops) /\ Len(x) = 2 /\ x[1] = Load(s) /\ x[2] = Save(s, "begin", n)
      /\ y \in Seq(Ops) /\ Len(y) = 4 /\ y[1] = Record(s, "attempt_started", "executor")
      /\ y[2] = Load(s) /\ y[3] = Save(s, "link", 0) /\ y[4] = Audit(s)
  BY UpdateShape, LogShape DEF Changes, Actions
<1> HIDE DEF x, y
<1>2. /\ L \in Seq(Ops) /\ DOMAIN L = 1 .. 6
      /\ L[1] = Load(s) /\ L[2] = Save(s, "begin", n) /\ L[3] = Record(s, "attempt_started", "executor")
      /\ L[4] = Load(s) /\ L[5] = Save(s, "link", 0) /\ L[6] = Audit(s)
  BY <1>1, SixParts
<1> HIDE DEF L
<1>3. \A i \in 1 .. 6 : i \in {1, 2, 3, 4, 5, 6}
  OBVIOUS
<1>4. \A i \in DOMAIN L : /\ Starts(L[i]) <=> i = 3
                          /\ Begins(L[i]) <=> i = 2
                          /\ Counts(L[i]) <=> i = 2
                          /\ ~Resets(L[i]) /\ ~SetsAside(L[i])
  BY <1>2, <1>3 DEF Starts, Begins, Counts, Resets, SetsAside, SetAsideActions, Load, Save, Record, Audit
<1>5. BeginsOnce(L)
  BY <1>2, <1>4 DEF BeginsOnce
<1>6. L[2].n = n /\ 2 \in DOMAIN L
  BY <1>2 DEF Save
<1> QED
  BY <1>2, <1>4, <1>5, <1>6 DEF ToSet, L, x, y

(* What comes before it begins nothing. *)
LEMMA BeginsThen ==
  ASSUME NEW x \in Seq(Ops), NEW y \in Seq(Ops), BeginsOnce(y),
         \A o \in ToSet(x) : ~Starts(o) /\ ~Begins(o)
  PROVE  BeginsOnce(x \o y) /\ ToSet(x \o y) = ToSet(x) \cup ToSet(y)
<1> DEFINE L == x \o y
<1>1. /\ Len(x) \in Nat /\ Len(y) \in Nat
      /\ DOMAIN x = 1 .. Len(x) /\ DOMAIN y = 1 .. Len(y) /\ DOMAIN L = 1 .. Len(x) + Len(y)
      /\ \A i \in 1 .. Len(x) : L[i] = x[i]
      /\ \A i \in 1 .. Len(y) : L[Len(x) + i] = y[i]
  BY Concatenated
<1> HIDE DEF L
<1>2. ASSUME NEW i \in DOMAIN L, Starts(L[i]) \/ Begins(L[i])
      PROVE  i > Len(x) /\ i - Len(x) \in DOMAIN y /\ L[i] = y[i - Len(x)]
  <2>1. ~(i \in 1 .. Len(x))
    BY <1>1, <1>2 DEF ToSet
  <2>2. i - Len(x) \in 1 .. Len(y) /\ i = Len(x) + (i - Len(x))
    BY <1>1, <2>1
  <2> QED
    BY <1>1, <2>1, <2>2
<1>3. \A i, j \in DOMAIN L : Starts(L[i]) /\ Starts(L[j]) => i = j
  BY <1>1, <1>2 DEF BeginsOnce
<1>4. ASSUME NEW i \in DOMAIN L, Begins(L[i]), NEW j \in DOMAIN L, j > i PROVE ~Counts(L[j])
  <2>1. /\ i - Len(x) \in DOMAIN y /\ j - Len(x) \in DOMAIN y /\ j - Len(x) > i - Len(x)
        /\ L[i] = y[i - Len(x)] /\ L[j] = y[j - Len(x)]
    <3>1. i > Len(x) /\ i - Len(x) \in DOMAIN y /\ L[i] = y[i - Len(x)]
      BY <1>2, <1>4
    <3>2. j - Len(x) \in 1 .. Len(y) /\ j = Len(x) + (j - Len(x))
      BY <1>1, <1>4, <3>1
    <3> QED
      BY <1>1, <1>4, <3>1, <3>2
  <2> QED
    BY <1>4, <2>1 DEF BeginsOnce
<1>5. ASSUME NEW i \in DOMAIN L, Begins(L[i]) PROVE \E j \in DOMAIN L : j > i /\ Starts(L[j])
  <2>1. i > Len(x) /\ i - Len(x) \in DOMAIN y /\ L[i] = y[i - Len(x)]
    BY <1>2, <1>5
  <2>2. PICK k \in DOMAIN y : k > i - Len(x) /\ Starts(y[k])
    BY <1>5, <2>1 DEF BeginsOnce
  <2>3. Len(x) + k \in DOMAIN L /\ L[Len(x) + k] = y[k] /\ Len(x) + k > i
    BY <1>1, <2>1, <2>2
  <2> QED
    BY <2>2, <2>3
<1>6. BeginsOnce(L)
  BY <1>3, <1>4, <1>5 DEF BeginsOnce
<1> QED
  BY <1>6, ConcatenatedSet DEF L

LEMMA BeginningGiven ==
  ASSUME IInv, Typed', Tally, NEW s \in Stages, NEW list, ThreadGiven(s, list),
         BeginsOnce(list), \E o \in ToSet(list) : Begins(o),
         \A o \in ToSet(list) : Numbers(o, rows[s]) /\ ~Resets(o) /\ ~SetsAside(o),
         th'[s].at = "agent", th'[s].attempt = AttemptsSoFar(rows[s]) + 1
  PROVE  Tally'
<1>1. /\ Given(s, list) /\ s \in Workers /\ Typed /\ rows' = rows
  BY DEF ThreadGiven, Given, Workers, storeVars, IInv
<1>2. Todo(s)' = list /\ Ahead(s)' = ToSet(list)
  BY <1>1, GivenIs
<1>3. BeginAhead(s)'
  BY <1>2 DEF BeginAhead
<1>4. Counting(s)'
  BY <1>1, <1>2, <1>3 DEF Counting, Attempt
<1> QED
  BY <1>3, <1>4, ThreadGivenTally

LEMMA EnterTally ==
  ASSUME IInv, Rowed, Typed', Tally, NEW s \in Stages, Enter(s)
  PROVE  Tally'
<1> DEFINE n == AttemptsSoFar(rows[s]) + 1
           mine == Update(s, "begin", n) \o Log(s, "attempt_started")
           next == [th[s] EXCEPT !.at = "agent", !.attempt = n]
<1>1. PICK list : ThreadGiven(s, list)
  BY EnterIs
<1>2. th[s] \in ThreadStates /\ rows[s] \in Rows /\ th \in [Stages -> ThreadStates]
  BY DEF IInv, Typed, ThreadStates, Rowed, Enter, At
<1>3. n \in Nat
  BY <1>2 DEF AttemptsSoFar, Rows
<1>4. Do(s, mine) /\ th' = [th EXCEPT ![s] = next]
  BY DEF Enter
<1>5. th'[s].at = "agent" /\ th'[s].attempt = n
  BY <1>2, <1>4 DEF ThreadStates
<1>6. list = mine
  BY <1>1, <1>4, GivenList
<1> HIDE DEF n
<1>7. /\ BeginsOnce(mine) /\ \E o \in ToSet(mine) : Begins(o)
      /\ \A o \in ToSet(mine) : ~Resets(o) /\ ~SetsAside(o) /\ (Counts(o) => Begins(o) /\ o.n = n)
  BY <1>3, BeginningList
<1> HIDE DEF mine
<1>8. \A o \in ToSet(mine) : Numbers(o, rows[s])
  BY <1>7 DEF Numbers, Counts, Begins, n
<1> QED
  BY <1>1, <1>5, <1>6, <1>7, <1>8, BeginningGiven DEF n

LEMMA TryAgainTally ==
  ASSUME IInv, Rowed, Typed', Tally, NEW s \in Stages, TryAgain(s)
  PROVE  Tally'
<1> DEFINE n == th[s].attempt
           begin == Update(s, "begin", n + 1) \o Log(s, "attempt_started")
           next == [th[s] EXCEPT !.at = "agent", !.attempt = n + 1]
<1>1. PICK list : ThreadGiven(s, list)
  BY TryAgainIs
<1>2. th[s] \in ThreadStates /\ th \in [Stages -> ThreadStates]
  BY DEF IInv, Typed, ThreadStates
<1>3. n \in Nat /\ n + 1 \in Nat
  BY <1>2 DEF ThreadStates
<1>4. n = rows[s].attempts /\ ~rows[s].stale /\ n + 1 = AttemptsSoFar(rows[s]) + 1
  <2>1. At(s, "again")
    BY DEF TryAgain
  <2> QED
    BY <2>1, AttemptIs DEF Busy, AttemptsSoFar
<1>5. \/ Do(s, Update(s, "retry", n) \o begin) /\ th' = [th EXCEPT ![s] = next]
      \/ Do(s, Log(s, "fallback_invoked") \o begin)
         /\ th' = [th EXCEPT ![s] = [next EXCEPT !.fallback = TRUE]]
  BY DEF TryAgain
<1>6. th'[s].at = "agent" /\ th'[s].attempt = n + 1
  BY <1>2, <1>5, ZenonT(30) DEF ThreadStates
<1> HIDE DEF n
<1>7. /\ begin \in Seq(Ops) /\ BeginsOnce(begin) /\ \E o \in ToSet(begin) : Begins(o)
      /\ \A o \in ToSet(begin) : /\ ~Resets(o) /\ ~SetsAside(o)
                                 /\ Counts(o) => Begins(o) /\ o.n = n + 1
  BY <1>3, BeginningList
<1> HIDE DEF begin, next
<1>8. \E x \in Seq(Ops) :
         /\ Do(s, x \o begin)
         /\ \A o \in ToSet(x) : /\ ~Starts(o) /\ ~Begins(o) /\ ~Resets(o) /\ ~SetsAside(o)
                                /\ Counts(o) => o.change = "retry" /\ o.n = n
  <2>1. CASE Do(s, Update(s, "retry", n) \o begin)
    <3>1. Update(s, "retry", n) \in Seq(Ops)
      BY <1>3, UpdateShape DEF Changes
    <3>2. \A o \in ToSet(Update(s, "retry", n)) : o.op = "load" \/ o = Save(s, "retry", n)
      BY <1>3, ListsHold DEF Changes
    <3>3. \A o \in ToSet(Update(s, "retry", n)) :
             /\ ~Starts(o) /\ ~Begins(o) /\ ~Resets(o) /\ ~SetsAside(o)
             /\ Counts(o) => o.change = "retry" /\ o.n = n
      BY <3>2 DEF Starts, Begins, Resets, SetsAside, Counts, Save
    <3> QED
      BY <2>1, <3>1, <3>3
  <2>2. CASE Do(s, Log(s, "fallback_invoked") \o begin)
    <3>1. Quietly(Log(s, "fallback_invoked"), 0) /\ Log(s, "fallback_invoked") \in Seq(Ops)
      BY QuietLists, LogShape DEF Harmless, Actions, SetAsideActions
    <3>2. \A o \in ToSet(Log(s, "fallback_invoked")) : ~Counts(o)
      BY ListsHold DEF Actions, Counts
    <3> QED
      BY <2>2, <3>1, <3>2 DEF Quietly
  <2> QED
    BY <1>5, <2>1, <2>2
<1>9. PICK x \in Seq(Ops) :
         /\ Do(s, x \o begin)
         /\ \A o \in ToSet(x) : /\ ~Starts(o) /\ ~Begins(o) /\ ~Resets(o) /\ ~SetsAside(o)
                                /\ Counts(o) => o.change = "retry" /\ o.n = n
  BY <1>8
<1>10. BeginsOnce(x \o begin) /\ ToSet(x \o begin) = ToSet(x) \cup ToSet(begin)
  BY <1>7, <1>9, BeginsThen
<1>11. PICK mine : mine = x \o begin
  OBVIOUS
<1>12. list = mine
  BY <1>1, <1>9, <1>11, GivenList
<1>13. \A o \in ToSet(mine) : Numbers(o, rows[s]) /\ ~Resets(o) /\ ~SetsAside(o)
  <2>1. \A o \in ToSet(x) : Numbers(o, rows[s])
    BY <1>4, <1>9 DEF Numbers, Counts, Begins
  <2>2. \A o \in ToSet(begin) : Numbers(o, rows[s])
    BY <1>4, <1>7 DEF Numbers, Counts, Begins
  <2> QED
    BY <1>7, <1>9, <1>10, <1>11, <2>1, <2>2
<1>14. BeginsOnce(mine) /\ \E o \in ToSet(mine) : Begins(o)
  BY <1>7, <1>10, <1>11
<1> QED
  BY <1>1, <1>4, <1>6, <1>12, <1>13, <1>14, BeginningGiven

LEMMA ThreadStepTally ==
  ASSUME IInv, Rowed, Typed', Tally, NEW s \in Stages, ThreadStep(s)
  PROVE  Tally'
BY QuietSteps, EnterTally, TryAgainTally

-----------------------------------------------------------------------------
(* The transactions of the caller keep the tally *)

(* While the caller has something to do, the threads wait. *)
LEMMA ThreadsWait ==
  ASSUME IInv, ~Free(Runner)
  PROVE  \A s \in Stages : /\ Free(s) /\ Todo(s) = <<>> /\ Ahead(s) = {} /\ ~Owed(s)
                           /\ Running => th[s].at \notin Busy
<1> SUFFICES ASSUME NEW s \in Stages
             PROVE  /\ Free(s) /\ Todo(s) = <<>> /\ Ahead(s) = {} /\ ~Owed(s)
                    /\ Running => th[s].at \notin Busy
  OBVIOUS
<1>1. Free(s) /\ (Running => th[s].at \in {"none", "start"})
  BY DEF IInv, Order, Phase
<1>2. Todo(s) = <<>> /\ Ahead(s) = {}
  BY <1>1, AheadIs DEF Free, Todo
<1> QED
  BY <1>1, <1>2 DEF Owed, StartAhead, Busy

LEMMA WaitingThen ==
  ASSUME NEW s \in Stages, Free(s)', Running' => th'[s].at \notin Busy
  PROVE  Counting(s)' /\ ~Owed(s)' /\ Ahead(s)' = {}
<1>1. Todo(s)' = <<>> /\ Ahead(s)' = {}
  BY DEF Free, Todo, Ahead, ToSet
<1>2. ~StartAhead(s)' /\ ~BeginAhead(s)'
  BY <1>1 DEF StartAhead, BeginAhead
<1>3. BeginsOnce(<<>>)
  BY DEF BeginsOnce
<1> QED
  BY <1>1, <1>2, <1>3 DEF Counting, Attempt, Owed

(* A transaction of the caller. *)
Calls(L, T) ==
    /\ Popping(Runner, L, T) /\ \A v \in Workers \ {Runner} : work'[v] = work[v]
    /\ th' = th /\ mem' = mem /\ main'.at = main.at

LEMMA RunnerMoves ==
  ASSUME IInv, NEW L, NEW T, Calls(L, T)
  PROVE  /\ \A s \in Stages : Counting(s)' /\ ~Owed(s)' /\ ~Owed(s) /\ HoldsCounts(s)'
         /\ HoldsCounts(Runner)' /\ Calling' /\ Known' /\ (\A s \in Stages : Counted(s)') => Tally'
<1>1. ~Free(Runner) /\ \A s \in Stages : s \in Workers /\ s # Runner
  BY LineageAssumption DEF Calls, Popping, Free, Todo, Workers
<1>2. ASSUME NEW s \in Stages PROVE Counting(s)' /\ ~Owed(s)' /\ ~Owed(s) /\ HoldsCounts(s)'
  <2>1. Free(s) /\ Todo(s) = <<>> /\ ~Owed(s) /\ (Running => th[s].at \notin Busy)
    BY <1>1, ThreadsWait
  <2>2. Free(s)' /\ Todo(s)' = <<>> /\ (Running' => th'[s].at \notin Busy)
    BY <1>1, <2>1 DEF Calls, Free, Todo, Running
  <2> QED
    BY <2>1, <2>2, WaitingThen DEF HoldsCounts
<1> QED
  BY <1>2 DEF Tally, Workers

LEMMA FollowingTail ==
  ASSUME NEW L \in Seq(Ops), L # <<>>, Following(L), NEW T, T = Tail(L)
  PROVE  /\ Following(T)
         /\ T # <<>> /\ Resets(T[1]) => Follows(L[1], T[1])
         /\ SetsAside(L[1]) => T # <<>> /\ Resets(T[1]) /\ T[1].stage = L[1].stage /\ T[1] \in ToSet(T)
         /\ L[1].op = "status" => T = <<>>
<1>1. /\ T \in Seq(Ops) /\ Len(L) \in Nat /\ DOMAIN L = 1 .. Len(L) /\ 1 \in DOMAIN L
      /\ DOMAIN T = 1 .. Len(L) - 1
      /\ \A i \in DOMAIN T : i + 1 \in DOMAIN L /\ T[i] = L[i + 1]
      /\ \A i \in DOMAIN L : i > 1 => i - 1 \in DOMAIN T /\ T[i - 1] = L[i]
  BY Popped
<1>2. Len(T) = Len(L) - 1 /\ (T = <<>> <=> Len(L) = 1)
  <2>1. T \in Seq(Ops)
    BY <1>1
  <2>2. Len(T) = Len(L) - 1
    BY HeadTailProperties
  <2>3. T = <<>> <=> Len(T) = 0
    BY <2>1, EmptySeq
  <2> QED
    BY <1>1, <2>2, <2>3
<1>3. ASSUME NEW i \in DOMAIN T
      PROVE  /\ T[i].op = "status" => i = Len(T)
             /\ ~Starts(T[i])
             /\ T[i].op = "save" => T[i].change \in {"skip", "link", "roll_back", "set_aside"}
             /\ SetsAside(T[i]) => i + 1 \in DOMAIN T /\ Resets(T[i + 1]) /\ T[i + 1].stage = T[i].stage
             /\ Resets(T[i]) /\ i > 1 => Follows(T[i - 1], T[i])
  <2>1. i \in Nat /\ i + 1 \in DOMAIN L /\ T[i] = L[i + 1] /\ (i > 1 => T[i - 1] = L[i])
    BY <1>1
  <2>2. /\ L[i + 1].op = "status" => i + 1 = Len(L)
        /\ ~Starts(L[i + 1])
        /\ L[i + 1].op = "save" => L[i + 1].change \in {"skip", "link", "roll_back", "set_aside"}
        /\ SetsAside(L[i + 1]) => (i + 1) + 1 \in DOMAIN L /\ Resets(L[(i + 1) + 1])
                                  /\ L[(i + 1) + 1].stage = L[i + 1].stage
        /\ Resets(L[i + 1]) /\ i + 1 > 1 => Follows(L[(i + 1) - 1], L[i + 1])
    BY <2>1 DEF Following
  <2>3. (i + 1) + 1 \in DOMAIN L => i + 1 \in DOMAIN T /\ T[i + 1] = L[(i + 1) + 1]
    BY <1>1, <2>1
  <2>4. (i + 1) - 1 = i /\ i + 1 > 1
    BY <1>1, <2>1
  <2> QED
    BY <1>1, <1>2, <2>1, <2>2, <2>3, <2>4
<1>4. Following(T)
  BY <1>3 DEF Following
<1>5. T # <<>> => 1 \in DOMAIN T /\ 2 \in DOMAIN L /\ T[1] = L[2] /\ T[1] \in ToSet(T)
  <2>1. T # <<>> => 1 \in DOMAIN T
    BY <1>1, <1>2
  <2>2. 1 \in DOMAIN T => 1 + 1 \in DOMAIN L /\ T[1] = L[1 + 1]
    BY <1>1
  <2>3. 1 \in DOMAIN T => T[1] \in ToSet(T)
    BY DEF ToSet
  <2> QED
    BY <2>1, <2>2, <2>3
<1>6. /\ SetsAside(L[1]) => 2 \in DOMAIN L /\ Resets(L[2]) /\ L[2].stage = L[1].stage
      /\ 2 \in DOMAIN L /\ Resets(L[2]) => Follows(L[1], L[2])
      /\ L[1].op = "status" => Len(L) = 1
  <2>1. /\ L[1].op = "status" => 1 = Len(L)
        /\ SetsAside(L[1]) => 1 + 1 \in DOMAIN L /\ Resets(L[1 + 1]) /\ L[1 + 1].stage = L[1].stage
    BY <1>1 DEF Following
  <2>2. 2 \in DOMAIN L /\ Resets(L[2]) => Follows(L[2 - 1], L[2])
    BY <1>1 DEF Following
  <2>3. 1 + 1 = 2 /\ 2 - 1 = 1
    OBVIOUS
  <2> QED
    BY <2>1, <2>2, <2>3
<1>7. 2 \in DOMAIN L => T # <<>>
  BY <1>1, <1>2
<1> QED
  BY <1>2, <1>4, <1>5, <1>6, <1>7

(* What a graph that grows leaves of the excuses. *)
LEMMA ExcusesStand ==
  ASSUME IInv, Typed', Grows(graph, graph'), torn' = torn, Closes' \subseteq Closes, NEW s \in Stages
  PROVE  (Rerouted(s) => Rerouted(s)') /\ (Unclosed(s) => Unclosed(s)')
<1>1. graph \in Graphs /\ graph' \in Graphs /\ Grows(InitialGraph, graph) /\ torn \in SUBSET Workers
  BY DEF IInv, Typed, Grown
<1>2. \A t \in Stages : DownstreamOf(graph, t) \subseteq DownstreamOf(graph', t)
  BY <1>1, DownstreamGrows
<1>3. \A t \in Stages : Respliced(t) => Respliced(t)'
  BY <1>1 DEF Respliced, Grows
<1>4. Rerouted(s) => Rerouted(s)'
  BY <1>2, <1>3 DEF Rerouted
<1>5. Unclosed(s) => Unclosed(s)'
  <2>1. \A t \in torn \ {Runner} : t \in Stages
    BY <1>1 DEF Workers
  <2> QED
    BY <1>2, <2>1 DEF Unclosed
<1> QED
  BY <1>4, <1>5

(* A transaction that touches one stage, or none. *)
LEMMA RunnerTouches ==
  ASSUME IInv, Typed', Tally, NEW L, NEW T, Calls(L, T),
         NEW S \in SUBSET Stages, Comes(L[1]) => L[1].stage \in S,
         L[1].op # "status", main' = main, torn' = torn, Grows(graph, graph'), KnownDependencies(graph'),
         \A t \in Stages \ S : Alike(rows'[t], rows[t]) /\ SameTale(trail'[t], trail[t]),
         Following(Todo(Runner)'),
         (Todo(Runner) # <<>> => Said(Todo(Runner)[1]))',
         ToSet(T) \subseteq Ahead(Runner)',
         \A o \in Ahead(Runner)' :
            \/ o \in ToSet(T)
            \/ o.op \notin {"status", "graph"} /\ (Comes(o) => Comes(L[1]) /\ o.stage = L[1].stage),
         HoldsCounts(Runner)', \A s \in S : Counted(s)'
  PROVE  Tally'
<1>1. /\ Typed /\ Ahead(Runner) = {L[1]} \cup ToSet(T)
      /\ Calling /\ Known /\ \A s \in Stages : Counted(s)
  BY DEF Calls, Popping, Tally, IInv
<1>2. graph \in Graphs /\ graph' \in Graphs /\ mem \in Graphs /\ mem' = mem
  BY <1>1 DEF Typed, Calls
<1>3. Closes' = Closes
  <2>1. \A o : o \in Ahead(Runner)' /\ o.op = "status" <=> o \in Ahead(Runner) /\ o.op = "status"
    BY <1>1
  <2> QED
    BY <2>1 DEF Closes
<1>4. Scope \subseteq Scope'
  <2>1. \A t \in Stages : DownstreamOf(graph, t) \subseteq DownstreamOf(graph', t)
    BY <1>2, DownstreamGrows
  <2>2. main.target \subseteq Stages
    BY <1>1 DEF Typed
  <2> QED
    BY <2>1, <2>2 DEF Scope
<1>5. Calling'
  <2>1. \A o \in Ahead(Runner)' : Comes(o) => main.at = "idle" /\ o.stage \in Scope
    BY <1>1 DEF Calling
  <2> QED
    BY <1>1, <1>3, <1>4, <2>1 DEF Calling
<1>6. Known'
  <2>1. Grows(mem, graph')
    BY <1>1, <1>2, GrowsOn DEF Known
  <2> QED
    BY <1>1, <1>2, <2>1 DEF Known
<1>7. ASSUME NEW s \in Stages \ S PROVE Counted(s)'
  <2>1. (Rerouted(s) => Rerouted(s)') /\ (Unclosed(s) => Unclosed(s)')
    BY <1>3, ExcusesStand
  <2>2. Coming(s) => Coming(s)'
    BY <1>1 DEF Coming
  <2>3. ~Owed(s) /\ ~Owed(s)'
    BY RunnerMoves
  <2> QED
    BY <1>1, <2>1, <2>2, <2>3, CountedStands DEF Excused
<1>8. \A s \in Stages : Counted(s)'
  BY <1>7
<1> QED
  BY <1>5, <1>6, <1>8, RunnerMoves

(* One that only takes the first transaction off the list. *)
LEMMA RunnerPops ==
  ASSUME IInv, Typed', Tally, NEW L, NEW T, Calls(L, T), Todo(Runner)' = T,
         NEW S \in SUBSET Stages, Comes(L[1]) => L[1].stage \in S,
         L[1].op # "status", main' = main, torn' = torn, Grows(graph, graph'), KnownDependencies(graph'),
         \A t \in Stages \ S : Alike(rows'[t], rows[t]) /\ SameTale(trail'[t], trail[t]),
         SetsAside(L[1]) => Said(T[1])',
         L[1].op = "load" => rows' = rows /\ (T # <<>> => work'[Runner].held = rows[L[1].stage]),
         \A s \in S : Counted(s)'
  PROVE  Tally'
<1>1. /\ L \in Seq(Ops) /\ L # <<>> /\ T = Tail(L) /\ L = Todo(Runner) /\ Runner \in Workers
      /\ Popping(Runner, L, T) /\ Following(L)
  BY DEF Calls, Popping, Tally, Calling, Workers
<1>2. Following(T) /\ (T # <<>> /\ Resets(T[1]) => SetsAside(L[1]))
  BY <1>1, FollowingTail DEF Follows
<1>3. (Todo(Runner) # <<>> => Said(Todo(Runner)[1]))'
  BY <1>2 DEF Said
<1>4. HoldsCounts(Runner)'
  BY <1>1, OwnHoldings
<1>5. Ahead(Runner)' = ToSet(T)
  BY DEF Ahead
<1> QED
  BY <1>2, <1>3, <1>4, <1>5, RunnerTouches

(* The caller takes a transaction off its list, and may put others on it.  *)
LEMMA RunnerCalls ==
  ASSUME IInv, NEW L, NEW T, Popping(Runner, L, T),
         NEW next \in WorkerStates, work' = [work EXCEPT ![Runner] = next],
         th' = th, mem' = mem, main'.at = main.at
  PROVE  /\ Calls(L, T) /\ Todo(Runner)' = next.todo /\ work'[Runner] = next
         /\ Ahead(Runner)' = ToSet(next.todo)
<1>1. Runner \in Workers
  BY DEF Workers
<1>2. /\ \A v \in Workers \ {Runner} : work'[v] = work[v]
      /\ work'[Runner] = next /\ Ahead(Runner)' = ToSet(next.todo)
  BY <1>1, StillAhead
<1> QED
  BY <1>2 DEF Calls, Todo

LEMMA EmptyStages == {} \in SUBSET Stages
OBVIOUS
LEMMA OneStage == ASSUME NEW s \in Stages PROVE {s} \in SUBSET Stages
OBVIOUS

(* The graph, while nobody writes it. *)
LEMMA GraphStands ==
  ASSUME IInv, Tally, graph' = graph
  PROVE  Grows(graph, graph') /\ KnownDependencies(graph')
<1>1. graph \in Graphs /\ \A t \in Stages \ graph.nodes : graph.deps[t] = {}
  BY DEF IInv, Typed, Grown, Grows
<1> QED
  BY <1>1, GrowsOn DEF Tally, Known

LEMMA RunnerLoads ==
  ASSUME IInv, Typed', Tally, LoadRow(Runner) \/ AppendAuditEvent(Runner)
  PROVE  Tally'
<1>1. Runner \in Workers
  BY DEF Workers
<1>2. PICK L, T : Popping(Runner, L, T) /\ L[1].op \in {"load", "audit"} /\ Works(Runner, L[1].op)
  BY <1>1, Acting DEF LoadRow, AppendAuditEvent
<1>3. /\ Upcoming(Runner) = L[1] /\ Worked(Runner) \in WorkerStates /\ Worked(Runner).todo = T
      /\ UNCHANGED <<rows, trail, graph, torn, th, main, mem>>
  BY <1>2 DEF LoadRow, AppendAuditEvent, Popping, processVars, storeVars
<1>4. PICK next \in WorkerStates :
         /\ work' = [work EXCEPT ![Runner] = next] /\ next.todo = T
         /\ L[1].op = "load" => next.held = rows[L[1].stage]
  <2>1. CASE LoadRow(Runner)
    <3>1. rows[Upcoming(Runner).stage] \in Rows
      <4>1. L[1].op = "load" /\ L[1].stage \in Stages /\ rows[L[1].stage] # NoRow
        BY <1>2, <1>3, <2>1 DEF LoadRow, Works, Popping, Staged
      <4> QED
        BY <1>3, <4>1 DEF IInv, Typed
    <3>2. [Worked(Runner) EXCEPT !.held = rows[Upcoming(Runner).stage]] \in WorkerStates
      BY <1>3, <3>1 DEF WorkerStates
    <3> QED
      BY <1>3, <2>1, <3>2 DEF LoadRow, WorkerStates
  <2>2. CASE AppendAuditEvent(Runner)
    BY <1>2, <1>3, <2>2 DEF AppendAuditEvent, Works
  <2> QED
    BY <2>1, <2>2
<1>5. Calls(L, T) /\ Todo(Runner)' = T /\ work'[Runner] = next
  BY <1>2, <1>3, <1>4, RunnerCalls
<1>6. ~Comes(L[1]) /\ ~SetsAside(L[1]) /\ L[1].op # "status"
  BY <1>2 DEF Comes, SetsAside, Resets
<1>7. \A t \in Stages : Alike(rows'[t], rows[t]) /\ SameTale(trail'[t], trail[t])
  BY <1>3, AlikeSelf DEF SameTale
<1>8. Grows(graph, graph') /\ KnownDependencies(graph')
  BY <1>3, GraphStands
<1> QED
  BY <1>3, <1>4, <1>5, <1>6, <1>7, <1>8, RunnerPops, EmptyStages

LEMMA RunnerSaves ==
  ASSUME IInv, Typed', Tally, SaveRow(Runner)
  PROVE  Tally'
<1>1. Runner \in Workers /\ HoldsCounts(Runner) /\ Runner \notin Stages
  BY LineageAssumption DEF Workers, Tally
<1>2. PICK L, T : \E s \in Stages : Saving(Runner, L, T, s)
  BY <1>1, SavingIs
<1>3. PICK s \in Stages : Saving(Runner, L, T, s)
  BY <1>2
<1>4. /\ Popping(Runner, L, T) /\ L[1].op = "save" /\ L[1].stage = s /\ trail' = trail
      /\ \A t \in Stages \ {s} : rows'[t] = rows[t]
      /\ Todo(Runner)' = T /\ graph' = graph /\ torn' = torn /\ main' = main
      /\ L = Todo(Runner) /\ L \in Seq(Ops) /\ L # <<>> /\ T = Tail(L) /\ Ahead(Runner)' = ToSet(T)
  BY <1>3 DEF Saving, Popping, processVars, Ahead
<1>5. Calls(L, T)
  BY <1>3 DEF Saving, Calls, processVars
<1>6. Following(L) /\ 1 \in DOMAIN L
  BY <1>4, Popped DEF Tally, Calling
<1>7. L[1].change \in {"skip", "link", "roll_back", "set_aside"}
  BY <1>4, <1>6 DEF Following
<1>8. Grows(graph, graph') /\ KnownDependencies(graph')
  BY <1>4, GraphStands
<1>9. \A t \in Stages : SameTale(trail'[t], trail[t])
  BY <1>4 DEF SameTale
<1>10. CASE ~SetsAside(L[1])
  <2>1. ~Begins(L[1]) /\ Numbers(L[1], rows[s])
    BY <1>7 DEF Begins, Numbers
  <2>2. Alike(rows'[s], rows[s])
    BY <1>1, <1>3, <1>10, <2>1, SavesAlike
  <2>3. \A t \in Stages : Alike(rows'[t], rows[t])
    BY <1>4, <2>2, AlikeSelf
  <2>4. ~Comes(L[1]) /\ L[1].op # "status" /\ L[1].op # "load"
    BY <1>4, <1>10 DEF Comes, Resets
  <2> QED
    BY <1>4, <1>5, <1>8, <1>9, <1>10, <2>3, <2>4, RunnerPops, EmptyStages
<1>11. CASE SetsAside(L[1])
  <2>1. /\ L[1].change \in Changes /\ L[1].n \in Nat
        /\ work[Runner].held = rows[s] /\ rows[s] \in Rows /\ work[Runner].decision \in Nat
        /\ rows'[s] = Changed(rows[s], L[1].change, L[1].n, work[Runner].decision) /\ rows'[s] \in Rows
    BY <1>1, <1>3 DEF Saving, Guest
  <2>2. /\ rows'[s].stale = TRUE /\ rows'[s].status # "pending"
        /\ rows'[s].rollbacks = IF L[1].change = "roll_back" THEN rows[s].rollbacks + 1
                                ELSE rows[s].rollbacks
    <3> DEFINE new == Changed(rows[s], L[1].change, L[1].n, work[Runner].decision)
    <3>1. /\ new.stale = IF L[1].change = "begin" THEN FALSE
                         ELSE IF SetsAside(L[1]) THEN TRUE ELSE rows[s].stale
          /\ new.rollbacks = IF L[1].change = "roll_back" THEN rows[s].rollbacks + 1 ELSE rows[s].rollbacks
          /\ new.status = "pending" => Mute(L[1]) /\ rows[s].status = "pending"
      <4>1. PICK o, row, n : o = L[1] /\ row = rows[s] /\ n = work[Runner].decision
        OBVIOUS
      <4>2. row \in Rows /\ o.op = "save" /\ o.change \in Changes /\ o.n \in Nat /\ n \in Nat
        BY <1>4, <2>1, <4>1
      <4>3. LET x == Changed(row, o.change, o.n, n) IN
            /\ x.stale = IF o.change = "begin" THEN FALSE
                         ELSE IF SetsAside(o) THEN TRUE ELSE row.stale
            /\ x.rollbacks = IF o.change = "roll_back" THEN row.rollbacks + 1 ELSE row.rollbacks
            /\ x.status = "pending" => Mute(o) /\ row.status = "pending"
        BY <4>2, ChangedCounts
      <4> QED
        BY <4>1, <4>3
    <3>2. rows'[s] = new
      BY <2>1
    <3> HIDE DEF new
    <3> QED
      BY <1>11, <3>1, <3>2 DEF Mute, SetsAside
  <2>3. /\ T # <<>> /\ Resets(T[1]) /\ T[1].stage = s /\ T[1] \in ToSet(T)
        /\ T[1].action = "rolled_back" => L[1].change = "roll_back"
    BY <1>4, <1>6, <1>11, FollowingTail DEF Follows
  <2>4. Counted(s) /\ RolledBack(s) \in Nat /\ RolledBack(s)' = RolledBack(s)
    <3>1. trail[s] \in Seq(Decisions) /\ Counted(s)
      BY DEF IInv, Typed, Tally
    <3> QED
      BY <1>4, <3>1, TrailCounts DEF RolledBack
  <2>5. rows[s].rollbacks \in Nat /\ rows'[s] # NoRow
    BY <2>1, RowsAreSomething DEF Rows
  <2>6. RolledBack(s)' <= rows[s].rollbacks
    BY <2>1, <2>4 DEF Counted
  <2>7. Said(T[1])'
    BY <2>1, <2>2, <2>3, <2>4, <2>5, <2>6 DEF Said
  <2>8. Coming(s)'
    BY <1>4, <2>3 DEF Coming, Comes
  <2>9. RolledBack(s)' <= rows'[s].rollbacks
    BY <2>2, <2>4, <2>5, <2>6
  <2>10. Counted(s)'
    BY <2>1, <2>2, <2>5, <2>8, <2>9 DEF Counted, Excused, Fresh
  <2>11. \A t \in Stages \ {s} : Alike(rows'[t], rows[t])
    BY <1>4, AlikeSelf
  <2>12. L[1].op # "status" /\ L[1].op # "load"
    BY <1>4
  <2> QED
    BY <1>4, <1>5, <1>8, <1>9, <2>7, <2>10, <2>11, <2>12, RunnerPops, OneStage
<1> QED
  BY <1>10, <1>11

LEMMA RunnerRecords ==
  ASSUME IInv, Typed', Tally, RecordDecision(Runner)
  PROVE  Tally'
<1>1. Runner \in Workers
  BY DEF Workers
<1>2. PICK L, T : Popping(Runner, L, T) /\ L[1].op = "record"
  BY <1>1, Acting DEF RecordDecision
<1>3. PICK s \in Stages : s = L[1].stage
  BY <1>2 DEF Popping, Staged
<1>4. /\ Upcoming(Runner) = L[1] /\ L[1] \in Ops /\ L = Todo(Runner) /\ L \in Seq(Ops) /\ L # <<>>
      /\ Worked(Runner) \in WorkerStates /\ Worked(Runner).todo = T
  BY <1>2 DEF Popping
<1>5. L[1].action \in Actions /\ L[1].by \in Authors
  BY <1>2, <1>4 DEF Ops, Simple, Asides
<1> DEFINE d == [action |-> L[1].action, by |-> L[1].by]
           next == [Worked(Runner) EXCEPT !.decision = Len(trail[s]) + 1]
<1>6. d \in Decisions /\ d.action = L[1].action
  BY <1>5 DEF Decisions
<1>7. trail[s] \in Seq(Decisions) /\ Len(trail[s]) + 1 \in Nat
  BY DEF IInv, Typed
<1>8. next \in WorkerStates /\ next.todo = T
  BY <1>4, <1>7 DEF WorkerStates
<1>9. /\ work' = [work EXCEPT ![Runner] = next] /\ trail' = [trail EXCEPT ![s] = Append(@, d)]
      /\ UNCHANGED <<rows, graph, torn, th, main, mem>>
  BY <1>3, <1>4 DEF RecordDecision, processVars
<1> HIDE DEF d, next
<1>10. Calls(L, T) /\ Todo(Runner)' = T /\ Ahead(Runner)' = ToSet(T)
  BY <1>2, <1>8, <1>9, RunnerCalls
<1>11. trail'[s] = Append(trail[s], d) /\ \A t \in Stages \ {s} : trail'[t] = trail[t]
  BY <1>9 DEF IInv, Typed
<1>12. Following(L) /\ 1 \in DOMAIN L /\ Said(L[1])
  BY <1>4, Popped DEF Tally, Calling
<1>13. d.action # "attempt_started"
  BY <1>2, <1>6, <1>12 DEF Following, Starts
<1>14. Grows(graph, graph') /\ KnownDependencies(graph')
  BY <1>9, GraphStands
<1>15. \A t \in Stages : Alike(rows'[t], rows[t])
  BY <1>9, AlikeSelf
<1>16. \A t \in Stages \ {s} : SameTale(trail'[t], trail[t])
  BY <1>11 DEF SameTale
<1>17. /\ d.action \in SetAsideActions => Since(trail'[s]) = {}
       /\ d.action \notin SetAsideActions \cup {"attempt_started"} => Since(trail'[s]) = Since(trail[s])
       /\ Begun(trail'[s]) = Begun(trail[s])
       /\ d.action # "rolled_back" => Rollbacks(trail'[s]) = Rollbacks(trail[s])
       /\ d.action = "rolled_back" =>
               Cardinality(Rollbacks(trail'[s])) = Cardinality(Rollbacks(trail[s])) + 1
  <2>1. PICK q, r : q = trail[s] /\ r = trail'[s]
    OBVIOUS
  <2>2. q \in Seq(Decisions) /\ r = Append(q, d)
    BY <1>7, <1>11, <2>1
  <2>3. /\ d.action \in SetAsideActions => Since(r) = {}
        /\ d.action \notin SetAsideActions \cup {"attempt_started"} => Since(r) = Since(q)
        /\ d.action # "attempt_started" => Begun(r) = Begun(q)
        /\ d.action # "rolled_back" => Rollbacks(r) = Rollbacks(q)
        /\ d.action = "rolled_back" => Cardinality(Rollbacks(r)) = Cardinality(Rollbacks(q)) + 1
    BY <1>6, <2>2, OneMore
  <2> QED
    BY <1>13, <2>1, <2>3
<1>18. ~SetsAside(L[1]) /\ L[1].op # "status" /\ L[1].op # "load"
  BY <1>2 DEF SetsAside
<1>19. CASE ~Resets(L[1])
  <2>1. d.action \notin SetAsideActions /\ d.action # "rolled_back"
    BY <1>2, <1>6, <1>19 DEF Resets, SetAsideActions
  <2>2. SameTale(trail'[s], trail[s])
    BY <1>13, <1>17, <2>1 DEF SameTale
  <2>3. ~Comes(L[1])
    BY <1>2, <1>18, <1>19 DEF Comes
  <2>4. \A t \in Stages : SameTale(trail'[t], trail[t])
    BY <1>16, <2>2
  <2> QED
    BY <1>9, <1>10, <1>14, <1>15, <1>18, <2>3, <2>4, RunnerPops, EmptyStages
<1>20. CASE Resets(L[1])
  <2>1. /\ rows[s] \in Rows /\ rows[s].stale
        /\ d.action = "rolled_back" => RolledBack(s) + 1 <= rows[s].rollbacks
    BY <1>3, <1>6, <1>12, <1>20 DEF Said
  <2>2. Counted(s) /\ ~Owed(s)'
    BY <1>10, RunnerMoves DEF Tally
  <2>3. Tried(s)' = 0
    <3>1. Since(trail'[s]) = {}
      BY <1>6, <1>17, <1>20 DEF Resets
    <3> QED
      BY <2>2, <3>1, FS_EmptySet DEF Tried
  <2>4. rows'[s] = rows[s] /\ rows[s] # NoRow
    BY <1>9, <2>1, RowsAreSomething
  <2>5. RolledBack(s)' <= rows'[s].rollbacks
    BY <1>17, <2>1, <2>2, <2>4 DEF RolledBack, Counted
  <2>6. Counted(s)'
    BY <2>1, <2>2, <2>3, <2>4, <2>5 DEF Counted, Agrees, Fresh
  <2> QED
    BY <1>3, <1>9, <1>10, <1>14, <1>15, <1>16, <1>18, <2>6, RunnerPops, OneStage
<1> QED
  BY <1>19, <1>20

LEMMA RunnerWritesGraph ==
  ASSUME IInv, Typed', Tally, UpdateGraph(Runner)
  PROVE  Tally'
<1>1. Runner \in Workers
  BY DEF Workers
<1>2. PICK L, T : Popping(Runner, L, T) /\ L[1].op = "graph"
  BY <1>1, Acting DEF UpdateGraph
<1>3. /\ Upcoming(Runner) = L[1] /\ Worked(Runner) \in WorkerStates /\ Worked(Runner).todo = T
      /\ L[1] \in Ahead(Runner)
      /\ graph' = L[1].to /\ work' = [work EXCEPT ![Runner] = Worked(Runner)]
      /\ UNCHANGED <<rows, trail, torn, th, main, mem>>
  BY <1>2 DEF UpdateGraph, Popping, processVars
<1>4. Calls(L, T) /\ Todo(Runner)' = T
  BY <1>2, <1>3, RunnerCalls
<1>5. Grows(graph, graph') /\ KnownDependencies(graph')
  BY <1>2, <1>3 DEF IInv, Inserting, Tally, Known
<1>6. \A t \in Stages : Alike(rows'[t], rows[t]) /\ SameTale(trail'[t], trail[t])
  BY <1>3, AlikeSelf DEF SameTale
<1>7. ~Comes(L[1]) /\ ~SetsAside(L[1]) /\ L[1].op # "status" /\ L[1].op # "load"
  BY <1>2 DEF Comes, SetsAside, Resets
<1> QED
  BY <1>3, <1>4, <1>5, <1>6, <1>7, RunnerPops, EmptyStages

LEMMA RunnerCreates ==
  ASSUME IInv, Typed', Tally, CreateRow(Runner)
  PROVE  Tally'
<1>1. Runner \in Workers
  BY DEF Workers
<1>2. PICK L, T : Popping(Runner, L, T) /\ L[1].op = "create"
  BY <1>1, Acting DEF CreateRow
<1>3. PICK s \in Stages : s = L[1].stage
  BY <1>2 DEF Popping, Staged
<1>4. /\ Upcoming(Runner) = L[1] /\ Worked(Runner) \in WorkerStates /\ Worked(Runner).todo = T
      /\ L[1] \in Ahead(Runner)
      /\ rows' = [rows EXCEPT ![s] = NewRow] /\ work' = [work EXCEPT ![Runner] = Worked(Runner)]
      /\ UNCHANGED <<graph, trail, torn, th, main, mem>>
  BY <1>2, <1>3 DEF CreateRow, Popping, processVars
<1>5. Calls(L, T) /\ Todo(Runner)' = T
  BY <1>2, <1>4, RunnerCalls
<1>6. Grows(graph, graph') /\ KnownDependencies(graph')
  BY <1>4, GraphStands
<1>7. rows'[s] = NewRow /\ \A t \in Stages \ {s} : rows'[t] = rows[t]
  BY <1>4 DEF IInv, Typed
<1>8. \A t \in Stages \ {s} : Alike(rows'[t], rows[t]) /\ SameTale(trail'[t], trail[t])
  BY <1>4, <1>7, AlikeSelf DEF SameTale
<1>9. rows[s] = NoRow
  BY <1>2, <1>3, <1>4 DEF IInv, Inserting
<1>10. Counted(s)'
  <2>1. Counted(s) /\ ~Owed(s)' /\ trail[s] \in Seq(Decisions)
    BY <1>5, RunnerMoves DEF Tally, IInv, Typed
  <2>2. Begun(trail[s]) = {} /\ Rollbacks(trail[s]) = {} /\ Since(trail[s]) = {}
    BY <1>9, <2>1, TrailCounts DEF Counted
  <2>3. Tried(s)' = 0 /\ RolledBack(s)' = 0
    BY <1>4, <2>1, <2>2, FS_EmptySet DEF Tried, RolledBack
  <2>4. /\ NewRow.attempts = 0 /\ NewRow.stale = FALSE /\ NewRow.rollbacks = 0 /\ NewRow.status = "pending"
        /\ NewRow # NoRow
    BY RowsAreSomething DEF NewRow
  <2> QED
    BY <1>4, <1>7, <2>2, <2>3, <2>4 DEF Counted, Agrees, Fresh
<1>11. ~SetsAside(L[1]) /\ L[1].op # "status" /\ L[1].op # "load"
  BY <1>2 DEF SetsAside
<1> QED
  BY <1>3, <1>4, <1>5, <1>6, <1>8, <1>10, <1>11, RunnerPops, OneStage

LEMMA RunnerFinishes ==
  ASSUME IInv, Typed', Tally, UpdateRun(Runner)
  PROVE  Tally'
<1>1. Runner \in Workers /\ Runner \notin Stages
  BY LineageAssumption DEF Workers
<1>2. PICK L, T : Popping(Runner, L, T) /\ L[1].op = "status"
  BY <1>1, Acting DEF UpdateRun
<1>3. /\ Upcoming(Runner) = L[1] /\ Worked(Runner) \in WorkerStates /\ Worked(Runner).todo = T
      /\ L[1] \in Ops /\ L = Todo(Runner) /\ L \in Seq(Ops) /\ L # <<>> /\ T = Tail(L)
      /\ Ahead(Runner) = {L[1]} \cup ToSet(T)
      /\ torn' = torn \ L[1].closes /\ work' = [work EXCEPT ![Runner] = Worked(Runner)]
      /\ main' = [main EXCEPT !.target = {}]
      /\ UNCHANGED <<graph, rows, trail, th, mem>>
  BY <1>2 DEF UpdateRun, Popping
<1>4. main'.at = main.at
  BY <1>3 DEF IInv, Typed
<1>5. Calls(L, T) /\ Todo(Runner)' = T
  BY <1>2, <1>3, <1>4, RunnerCalls
<1>6. T = <<>>
  BY <1>2, <1>3, FollowingTail DEF Tally, Calling
<1>7. Free(Runner)' /\ Ahead(Runner) = {L[1]}
  <2>1. ToSet(T) = {}
    BY <1>6, EmptyWhole
  <2>2. Free(Runner)'
    BY <1>5, <1>6 DEF Free, Todo
  <2> QED
    BY <1>3, <2>1, <2>2
<1>8. /\ Calling' /\ Closes' = {} /\ Ahead(Runner)' = {}
  BY <1>7, NobodyCallsThen
<1>9. Closes = L[1].closes /\ L[1].closes \subseteq Stages
  BY <1>2, <1>3, <1>7 DEF Closes, Ops, Simple, Asides
<1>10. Known'
  BY <1>3, <1>8 DEF Tally, Known
<1>11. HoldsCounts(Runner)'
  BY <1>5, <1>6 DEF HoldsCounts
<1>12. ASSUME NEW s \in Stages PROVE Counted(s)'
  <2>1. Counted(s) /\ ~Owed(s) /\ ~Owed(s)'
    BY <1>5, RunnerMoves DEF Tally
  <2>2. ~Coming(s)
    BY <1>2, <1>7 DEF Coming, Comes, SetsAside, Resets
  <2>3. (Rerouted(s) => Rerouted(s)') /\ (Unclosed(s) => Unclosed(s)')
    BY <1>3, <1>8, <1>9 DEF Rerouted, Respliced, Unclosed
  <2>4. Runner \in torn => Runner \in torn'
    BY <1>1, <1>3, <1>9
  <2>5. Alike(rows'[s], rows[s]) /\ SameTale(trail'[s], trail[s])
    BY <1>3, AlikeSelf DEF SameTale
  <2>6. Typed
    BY DEF IInv
  <2> QED
    BY <2>1, <2>2, <2>3, <2>4, <2>5, <2>6, CountedStands DEF Excused
<1> QED
  BY <1>5, <1>8, <1>10, <1>11, <1>12, RunnerMoves

(* Two lists, the second of which does not open with the record of a       *)
(* stage set aside.                                                        *)
LEMMA FollowingJoin ==
  ASSUME NEW x \in Seq(Ops), NEW y \in Seq(Ops), Following(x), Following(y),
         y # <<>> => \A i \in DOMAIN x : x[i].op # "status",
         y # <<>> => ~Resets(y[1])
  PROVE  Following(x \o y)
<1> DEFINE L == x \o y
<1>1. /\ Len(x) \in Nat /\ Len(y) \in Nat
      /\ DOMAIN x = 1 .. Len(x) /\ DOMAIN y = 1 .. Len(y) /\ DOMAIN L = 1 .. Len(x) + Len(y)
      /\ \A i \in 1 .. Len(x) : L[i] = x[i]
      /\ \A i \in 1 .. Len(y) : L[Len(x) + i] = y[i]
      /\ Len(L) = Len(x) + Len(y)
  BY Concatenated, ConcatProperties
<1>2. y = <<>> <=> Len(y) = 0
  BY EmptySeq
<1> HIDE DEF L
<1>3. ASSUME NEW i \in DOMAIN x
      PROVE  /\ L[i].op = "status" => i = Len(L)
             /\ ~Starts(L[i])
             /\ L[i].op = "save" => L[i].change \in {"skip", "link", "roll_back", "set_aside"}
             /\ SetsAside(L[i]) => i + 1 \in DOMAIN L /\ Resets(L[i + 1]) /\ L[i + 1].stage = L[i].stage
             /\ Resets(L[i]) /\ i > 1 => Follows(L[i - 1], L[i])
  <2>1. L[i] = x[i] /\ i \in Nat
    BY <1>1
  <2>2. /\ x[i].op = "status" => i = Len(x)
        /\ ~Starts(x[i])
        /\ x[i].op = "save" => x[i].change \in {"skip", "link", "roll_back", "set_aside"}
        /\ SetsAside(x[i]) => i + 1 \in DOMAIN x /\ Resets(x[i + 1]) /\ x[i + 1].stage = x[i].stage
        /\ Resets(x[i]) /\ i > 1 => Follows(x[i - 1], x[i])
    BY DEF Following
  <2>3. i + 1 \in DOMAIN x => i + 1 \in DOMAIN L /\ L[i + 1] = x[i + 1]
    BY <1>1
  <2>4. i > 1 => L[i - 1] = x[i - 1]
    BY <1>1
  <2>5. x[i].op = "status" => i = Len(L)
    BY <1>1, <1>2, <2>2
  <2> QED
    BY <2>1, <2>2, <2>3, <2>4, <2>5
<1>4. ASSUME NEW k \in DOMAIN y, NEW i, i = Len(x) + k
      PROVE  /\ L[i].op = "status" => i = Len(L)
             /\ ~Starts(L[i])
             /\ L[i].op = "save" => L[i].change \in {"skip", "link", "roll_back", "set_aside"}
             /\ SetsAside(L[i]) => i + 1 \in DOMAIN L /\ Resets(L[i + 1]) /\ L[i + 1].stage = L[i].stage
             /\ Resets(L[i]) /\ i > 1 => Follows(L[i - 1], L[i])
  <2>1. L[i] = y[k] /\ i \in Nat
    BY <1>1, <1>4
  <2>2. /\ y[k].op = "status" => k = Len(y)
        /\ ~Starts(y[k])
        /\ y[k].op = "save" => y[k].change \in {"skip", "link", "roll_back", "set_aside"}
        /\ SetsAside(y[k]) => k + 1 \in DOMAIN y /\ Resets(y[k + 1]) /\ y[k + 1].stage = y[k].stage
        /\ Resets(y[k]) /\ k > 1 => Follows(y[k - 1], y[k])
    BY DEF Following
  <2>3. k + 1 \in DOMAIN y => i + 1 \in DOMAIN L /\ L[i + 1] = y[k + 1]
    <3>1. i + 1 = Len(x) + (k + 1)
      BY <1>1, <1>4
    <3> QED
      BY <1>1, <3>1
  <2>4. k > 1 => L[i - 1] = y[k - 1]
    <3>1. k > 1 => k - 1 \in 1 .. Len(y) /\ i - 1 = Len(x) + (k - 1)
      BY <1>1, <1>4
    <3> QED
      BY <1>1, <3>1
  <2>5. Resets(y[k]) => k > 1
    BY <1>1, <1>2
  <2>6. k = Len(y) => i = Len(L)
    BY <1>1, <1>4
  <2> QED
    BY <2>1, <2>2, <2>3, <2>4, <2>5, <2>6
<1>5. \A i \in DOMAIN L : i \in DOMAIN x \/ \E k \in DOMAIN y : i = Len(x) + k
  <2> SUFFICES ASSUME NEW i \in DOMAIN L, i \notin DOMAIN x
               PROVE  \E k \in DOMAIN y : i = Len(x) + k
    OBVIOUS
  <2>1. i - Len(x) \in DOMAIN y /\ i = Len(x) + (i - Len(x))
    BY <1>1
  <2> QED
    BY <2>1
<1>6. Following(L)
  BY <1>3, <1>4, <1>5 DEF Following
<1> QED
  BY <1>6 DEF L

(* What an aside makes of the row, and of the list. *)
Setting(L, T, s, log) ==
    /\ Calls(L, T) /\ L[1].op = "aside" /\ s = L[1].stage /\ log = L[1].log
    /\ rows[s] \in Rows
    /\ \A t \in Stages \ {s} : rows'[t] = rows[t]
    /\ IF rows[s].status = "pending" THEN rows'[s] = rows[s] /\ Todo(Runner)' = T
       ELSE /\ rows'[s] \in Rows /\ rows'[s].stale = TRUE /\ rows'[s].status = "stale"
            /\ rows'[s].rollbacks = rows[s].rollbacks
            /\ Todo(Runner)' = log \o T
    /\ UNCHANGED <<graph, trail, torn, th, main, mem>>

LEMMA SettingIs ==
  ASSUME IInv, SetAside(Runner)
  PROVE  \E L, T : \E s \in Stages : \E log \in AsideLogs(s) : Setting(L, T, s, log)
<1>1. Runner \in Workers /\ Runner \notin Stages
  BY LineageAssumption DEF Workers
<1>2. PICK L, T : Popping(Runner, L, T) /\ L[1].op = "aside"
  BY <1>1, Acting DEF SetAside
<1>3. PICK s \in Stages : s = L[1].stage
  BY <1>2 DEF Popping, Staged
<1>4. PICK log \in AsideLogs(s) : log = L[1].log
  <2>1. L[1] \in Asides
    BY <1>2 DEF Popping, Ops, Simple
  <2> QED
    BY <1>3, <2>1 DEF Asides
<1>5. /\ Upcoming(Runner) = L[1] /\ L = Todo(Runner) /\ L # <<>> /\ T \in Seq(Ops)
      /\ Worked(Runner) \in WorkerStates /\ Worked(Runner).todo = T
      /\ L \in Seq(Ops) /\ Paired(L) /\ Spoken(L) /\ T = Tail(L)
  BY <1>2 DEF Popping, Listed
<1>6. HoldsRow(Runner, s) /\ ~Guest(Runner, s)
  BY <1>1, <1>2, <1>3, <1>5 DEF Holding, Popping, Guest
<1>7. work[Runner].held = rows[s] /\ rows[s] \in Rows
  BY <1>6 DEF HoldsRow
<1> DEFINE new == Changed(rows[s], "set_aside", 0, 0)
<1>8. /\ new \in Rows /\ new.stale = TRUE /\ new.status = "stale" /\ new.rollbacks = rows[s].rollbacks
  BY <1>7 DEF Changed, Rows, Statuses
<1> DEFINE longer == [Worked(Runner) EXCEPT !.todo = log \o @]
<1>9. longer \in WorkerStates /\ longer.todo = log \o T
  <2>1. log \o T \in Seq(Ops)
    <3>1. CASE log = <<>>
      BY <1>5, <3>1, ConcatEmptySeq
    <3>2. CASE log # <<>>
      <4>1. PICK Q : Q = log \o T
        OBVIOUS
      <4>2. JoinedAside(s, log, T, Q)
        BY <1>2, <1>5, <3>2, <4>1, JoinAside
      <4> QED
        BY <4>1, <4>2 DEF JoinedAside
    <3> QED
      BY <3>1, <3>2
  <2> QED
    BY <1>5, <2>1 DEF WorkerStates
<1>10. /\ UNCHANGED <<graph, trail, torn, th, main, mem>>
       /\ IF rows[s].status = "pending"
            THEN work' = [work EXCEPT ![Runner] = Worked(Runner)] /\ rows' = rows
            ELSE /\ work' = [work EXCEPT ![Runner] = longer]
                 /\ rows' = [rows EXCEPT ![s] = new]
  BY <1>3, <1>4, <1>5, <1>7 DEF SetAside, processVars
<1> HIDE DEF longer, new
<1>11. PICK next \in WorkerStates :
          /\ work' = [work EXCEPT ![Runner] = next]
          /\ next.todo = IF rows[s].status = "pending" THEN T ELSE log \o T
  BY <1>5, <1>9, <1>10
<1>12. Calls(L, T) /\ Todo(Runner)' = next.todo
  BY <1>2, <1>10, <1>11, RunnerCalls
<1>13. /\ \A t \in Stages \ {s} : rows'[t] = rows[t]
       /\ rows'[s] = IF rows[s].status = "pending" THEN rows[s] ELSE new
  BY <1>10 DEF IInv, Typed
<1>14. Setting(L, T, s, log)
  BY <1>2, <1>3, <1>4, <1>7, <1>8, <1>10, <1>11, <1>12, <1>13 DEF Setting
<1> QED
  BY <1>14

LEMMA RunnerSetsAside ==
  ASSUME IInv, Typed', Tally, SetAside(Runner)
  PROVE  Tally'
<1>1. PICK L, T : \E s \in Stages : \E log \in AsideLogs(s) : Setting(L, T, s, log)
  BY SettingIs
<1>2. PICK s \in Stages : \E log \in AsideLogs(s) : Setting(L, T, s, log)
  BY <1>1
<1>3. PICK log \in AsideLogs(s) : Setting(L, T, s, log)
  BY <1>2
<1>4. /\ Calls(L, T) /\ L[1].op = "aside" /\ s = L[1].stage /\ log = L[1].log /\ rows[s] \in Rows
      /\ \A t \in Stages \ {s} : rows'[t] = rows[t]
      /\ UNCHANGED <<graph, trail, torn, th, main, mem>>
      /\ Popping(Runner, L, T) /\ L = Todo(Runner) /\ L \in Seq(Ops) /\ L # <<>> /\ T = Tail(L)
      /\ T \in Seq(Ops) /\ Paired(L) /\ Spoken(L) /\ L[1] \in Ahead(Runner)
  BY <1>3 DEF Setting, Calls, Popping, Listed
<1>5. Grows(graph, graph') /\ KnownDependencies(graph')
  BY <1>4, GraphStands
<1>6. \A t \in Stages \ {s} : Alike(rows'[t], rows[t]) /\ SameTale(trail'[t], trail[t])
  BY <1>4, AlikeSelf DEF SameTale
<1>7. ~SetsAside(L[1]) /\ L[1].op # "status" /\ L[1].op # "load" /\ L[1].op # "save"
  BY <1>4 DEF SetsAside
<1>8. /\ Counted(s) /\ ~Owed(s)' /\ trail'[s] = trail[s] /\ trail[s] \in Seq(Decisions)
      /\ RolledBack(s)' = RolledBack(s) /\ rows[s] # NoRow
  BY <1>4, RunnerMoves, RowsAreSomething DEF Tally, RolledBack, IInv, Typed
<1>9. CASE rows[s].status = "pending"
  <2>1. rows'[s] = rows[s] /\ Todo(Runner)' = T
    BY <1>3, <1>9 DEF Setting
  <2>2. Begun(trail[s]) = {} /\ Since(trail[s]) = {}
    BY <1>8, <1>9, TrailCounts DEF Counted
  <2>3. Tried(s)' = 0
    BY <1>8, <2>2, FS_EmptySet DEF Tried
  <2>4. ~rows[s].stale /\ rows[s].attempts = 0 /\ RolledBack(s) <= rows[s].rollbacks
    BY <1>4, <1>8, <1>9 DEF Counted, Fresh
  <2>5. Counted(s)'
    BY <1>8, <1>9, <2>1, <2>2, <2>3, <2>4 DEF Counted, Agrees, Fresh
  <2> QED
    BY <1>4, <1>5, <1>6, <1>7, <2>1, <2>5, RunnerPops, OneStage
<1>10. CASE rows[s].status # "pending"
  <2>1. /\ rows'[s] \in Rows /\ rows'[s].stale = TRUE /\ rows'[s].status = "stale"
        /\ rows'[s].rollbacks = rows[s].rollbacks
        /\ Todo(Runner)' = log \o T
    BY <1>3, <1>10 DEF Setting
  <2>2. ASSUME Excused(s)' PROVE Counted(s)'
    BY <1>4, <1>8, <2>1, <2>2, RowsAreSomething DEF Counted, Fresh
  <2>3. CASE log = <<>>
    <3>1. Todo(Runner)' = T
      BY <1>4, <2>1, <2>3, ConcatEmptySeq
    <3>2. \A i \in DOMAIN L : L[i].op = "graph" => i = 1
      BY <1>4 DEF Paired, Preceded
    <3>3. \A o \in Ahead(Runner) : o.op # "graph"
      BY <1>4, <3>2 DEF Ahead, ToSet
    <3>4. Respliced(s)
      BY <1>4, <2>3, <3>3 DEF IInv, Inserting
    <3>5. Excused(s)'
      BY <1>4, <3>4 DEF Excused, Rerouted, Respliced
    <3> QED
      BY <1>4, <1>5, <1>6, <1>7, <2>2, <3>1, <3>5, RunnerPops, OneStage
  <2>4. CASE log # <<>>
    <3>1. PICK Q : Q = log \o T
      OBVIOUS
    <3>2. JoinedAside(s, log, T, Q) /\ Todo(Runner)' = Q
      BY <1>4, <2>1, <2>4, <3>1, JoinAside
    <3>3. /\ Len(log) \in Nat /\ Len(log) >= 1 /\ DOMAIN log = 1 .. Len(log)
          /\ ToSet(Q) = ToSet(log) \cup ToSet(T)
          /\ IsRecord(log[1], s) /\ log[1].action = "marked_stale" /\ Q[1] = log[1] /\ Q \in Seq(Ops)
          /\ \A i \in DOMAIN log :
                /\ i = 1 \/ log[i].op # "record"
                /\ log[i].op \in {"load", "save", "record", "audit"} /\ log[i].stage = s
                /\ log[i].op = "save" => log[i].change = "link"
      BY <3>2 DEF JoinedAside
    <3>4. log \in Seq(Ops)
      <4>1. log \in Seq(Simple)
        BY LogShape, NoteShape, <2>4 DEF AsideLogs, Actions
      <4> QED
        BY <4>1 DEF Ops
    <3>5. Following(log)
      <4>1. ASSUME NEW i \in DOMAIN log
            PROVE  /\ i \in Nat /\ ~(i > 1 /\ Resets(log[i]))
                   /\ ~Starts(log[i]) /\ ~SetsAside(log[i])
        BY <3>3 DEF Resets, Starts, SetsAside
      <4> QED
        BY <3>3, <4>1 DEF Following
    <3>6. Following(T) /\ (T # <<>> => ~Resets(T[1]))
      BY <1>4, <1>7, FollowingTail DEF Tally, Calling, Follows
    <3>7. Following(Q)
      BY <1>4, <3>1, <3>3, <3>4, <3>5, <3>6, FollowingJoin
    <3>8. Said(Q[1])'
      BY <2>1, <3>3 DEF Said, IsRecord
    <3>9. Q[1] \in ToSet(log) /\ Comes(Q[1]) /\ Q[1].stage = s /\ Q[1].op = "record"
      BY <3>3 DEF ToSet, Comes, Resets, IsRecord, SetAsideActions
    <3>10. Ahead(Runner)' = ToSet(log) \cup ToSet(T)
      BY <3>2, <3>3 DEF Ahead
    <3>11. Counted(s)'
      BY <2>2, <3>9, <3>10 DEF Excused, Coming
    <3>12. HoldsCounts(Runner)'
      BY <3>2, <3>9 DEF HoldsCounts
    <3>13. \A o \in ToSet(log) : o.op \notin {"status", "graph"} /\ o.stage = s
      BY <3>3 DEF ToSet
    <3>14. Comes(L[1])
      BY <1>4, <2>4 DEF Comes
    <3>15. PICK S \in SUBSET Stages : S = {s}
      BY OneStage
    <3>16. /\ \A t \in Stages \ S : Alike(rows'[t], rows[t]) /\ SameTale(trail'[t], trail[t])
           /\ \A t \in S : Counted(t)'
           /\ Comes(L[1]) => L[1].stage \in S
      BY <1>4, <1>6, <3>11, <3>15
    <3>17. /\ Following(Todo(Runner)') /\ (Todo(Runner) # <<>> => Said(Todo(Runner)[1]))'
      BY <3>2, <3>7, <3>8
    <3>18. /\ ToSet(T) \subseteq Ahead(Runner)'
           /\ \A o \in Ahead(Runner)' :
                 \/ o \in ToSet(T)
                 \/ o.op \notin {"status", "graph"} /\ (Comes(o) => Comes(L[1]) /\ o.stage = L[1].stage)
      BY <1>4, <3>10, <3>13, <3>14
    <3> QED
      BY <1>4, <1>5, <1>7, <3>12, <3>16, <3>17, <3>18, RunnerTouches
  <2> QED
    BY <2>3, <2>4
<1> QED
  BY <1>9, <1>10

(* Whatever transaction the caller is at, but for a KeyError. *)
LEMMA RunnerTransactions ==
  ASSUME IInv, Typed', Tally, Transaction(Runner), ~RaiseKeyError(Runner)
  PROVE  Tally'
BY RunnerLoads, RunnerSaves, RunnerRecords, RunnerSetsAside, RunnerFinishes, RunnerWritesGraph,
   RunnerCreates DEF Transaction

-----------------------------------------------------------------------------
(* Interruptions keep the tally *)

(* The call at work is torn, be it that of run(), that has begun attempts, *)
(* or that of an operator, that was to set stages aside.                   *)
LEMMA Interrupted ==
  ASSUME IInv, Typed', Tally, rows' = rows, trail' = trail, graph' = graph,
         torn' = torn \cup CallAtWork, Free(Runner)',
         NEW s \in Stages, Owed(s)' => Owed(s)
  PROVE  Counted(s)'
<1>1. /\ Typed /\ Counted(s) /\ Calling /\ Counting(s) /\ Runner \notin Stages
      /\ rows'[s] = rows[s] /\ trail'[s] = trail[s] /\ main.target \subseteq Stages
  BY LineageAssumption DEF IInv, Tally, Typed
<1>2. Closes' = {} /\ ~Coming(s)'
  BY NobodyCallsThen
<1>3. Owed(s) => Runner \in torn'
  <2> SUFFICES ASSUME Owed(s) PROVE Runner \in torn'
    OBVIOUS
  <2>1. ~Free(s)
    BY AheadIs DEF Owed, StartAhead
  <2>2. Running
    BY <2>1, RunnerWaits
  <2> QED
    BY <2>2 DEF Running, CallAtWork
<1>4. Coming(s) => Unclosed(s)'
  <2> SUFFICES ASSUME Coming(s) PROVE Unclosed(s)'
    OBVIOUS
  <2>1. main.at = "idle" /\ s \in Scope
    BY <1>1 DEF Coming, Calling
  <2>2. PICK t \in main.target : s = t \/ s \in DownstreamOf(graph, t)
    BY <2>1 DEF Scope
  <2>3. t \in torn' \ ({Runner} \cup Closes')
    BY <1>1, <1>2, <2>1, <2>2 DEF CallAtWork
  <2> QED
    BY <2>2, <2>3 DEF Unclosed
<1>5. (Rerouted(s) => Rerouted(s)') /\ (Unclosed(s) => Unclosed(s)')
  BY <1>2 DEF Rerouted, Respliced, Unclosed
<1>6. Excused(s) => Excused(s)'
  BY <1>4, <1>5 DEF Excused
<1>7. RolledBack(s)' = RolledBack(s) /\ Cardinality(Since(trail[s])) \in Nat
  <2>1. trail[s] \in Seq(Decisions)
    BY <1>1 DEF Typed
  <2> QED
    BY <1>1, <2>1, TrailCounts DEF RolledBack
<1>8. rows[s] \in Rows /\ Agrees(s) => Agrees(s)'
  <2> SUFFICES ASSUME rows[s] \in Rows, Agrees(s) PROVE Agrees(s)'
    OBVIOUS
  <2>1. Runner \in torn => Runner \in torn'
    OBVIOUS
  <2>2. CASE Owed(s) <=> Owed(s)'
    <3>1. Tried(s)' = Tried(s)
      BY <1>1, <2>2 DEF Tried
    <3> QED
      BY <1>1, <2>1, <3>1 DEF Agrees
  <2>3. CASE Owed(s) /\ ~Owed(s)'
    <3>1. Tried(s) = Cardinality(Since(trail[s])) + 1 /\ Tried(s)' = Cardinality(Since(trail[s]))
      BY <1>1, <1>7, <2>3 DEF Tried
    <3>2. Runner \in torn'
      BY <1>3, <2>3
    <3>3. rows[s].attempts \in Nat
      BY DEF Rows
    <3> QED
      BY <1>1, <1>7, <3>1, <3>2, <3>3 DEF Agrees
  <2> QED
    BY <2>2, <2>3
<1> QED
  BY <1>1, <1>6, <1>7, <1>8 DEF Counted

LEMMA RaiseTally ==
  ASSUME IInv, Typed', Tally, NEW w \in Workers, RaiseKeyError(w)
  PROVE  Tally'
<1>1. /\ Typed /\ work' = [work EXCEPT ![w] = Resting]
      /\ th' = [s \in Stages |-> IF s = w THEN NoThread ELSE th[s]]
      /\ main' = [main EXCEPT !.at = IF w = Runner THEN "idle" ELSE "raised"]
      /\ torn' = torn \cup CallAtWork
      /\ rows' = rows /\ trail' = trail /\ graph' = graph /\ mem' = mem
      /\ ~Free(w) /\ Runner \in Workers /\ Runner \notin Stages
  BY LineageAssumption DEF RaiseKeyError, storeVars, IInv, Works, Free, Workers
<1>2. work'[w] = Resting /\ \A v \in Workers \ {w} : work'[v] = work[v]
  BY <1>1 DEF Typed
<1>3. Todo(w)' = <<>> /\ Free(w)'
  BY <1>2 DEF Todo, Free, Resting
<1>4. main'.at = IF w = Runner THEN "idle" ELSE "raised"
  BY <1>1 DEF Typed
<1>5. Free(Runner)'
  <2>1. CASE w = Runner
    BY <1>3, <2>1
  <2>2. CASE w # Runner
    <3>1. Free(Runner)
      BY <1>1, <2>2, RunnerWaits DEF Workers
    <3> QED
      BY <1>1, <1>2, <2>2, <3>1 DEF Free
  <2> QED
    BY <2>1, <2>2
<1>6. Calling' /\ Ahead(Runner)' = {}
  BY <1>5, NobodyCallsThen
<1>7. Known'
  BY <1>1, <1>6 DEF Known, Tally
<1>8. ASSUME NEW v \in Workers PROVE HoldsCounts(v)'
  BY <1>1, <1>2, <1>3 DEF HoldsCounts, Tally, Todo
<1>9. ASSUME NEW s \in Stages PROVE Counting(s)' /\ Counted(s)'
  <2>1. CASE s = w \/ w = Runner
    <3>1. Free(s)' /\ (Running' => th'[s].at \notin Busy)
      <4>1. CASE s = w
        BY <1>1, <1>3, <4>1 DEF NoThread, Busy
      <4>2. CASE w = Runner
        <5>1. Free(s)
          BY <1>1, <4>2, ThreadsWait
        <5> QED
          BY <1>1, <1>2, <1>4, <4>2, <5>1 DEF Free, Running, Workers
      <4> QED
        BY <2>1, <4>1, <4>2
    <3> QED
      BY <1>1, <1>5, <3>1, WaitingThen, Interrupted
  <2>2. CASE s # w /\ w # Runner
    <3>1. work'[s] = work[s] /\ th'[s] = th[s] /\ Running /\ Counting(s)
      BY <1>1, <1>2, <2>2, RunnerWaits DEF Workers, Tally
    <3>2. Counting(s)'
      BY <1>1, <3>1, CountingStands, AlikeSelf
    <3>3. Owed(s)' => Owed(s)
      BY <3>1 DEF Owed, StartAhead, BeginAhead, Ahead, Todo
    <3> QED
      BY <1>1, <1>5, <3>2, <3>3, Interrupted
  <2> QED
    BY <2>1, <2>2
<1> QED
  BY <1>6, <1>7, <1>8, <1>9 DEF Tally

LEMMA CrashTally ==
  ASSUME IInv, Typed', Tally, Crash
  PROVE  Tally'
<1>1. /\ work' = [w \in Workers |-> Resting] /\ main' = [at |-> "idle", target |-> {}]
      /\ torn' = torn \cup CallAtWork /\ mem' = InitialGraph
      /\ rows' = rows /\ trail' = trail /\ graph' = graph /\ Runner \in Workers
  BY DEF Crash, storeVars, Workers
<1>2. \A w \in Workers : Todo(w)' = <<>> /\ Free(w)'
  BY <1>1 DEF Todo, Free, Resting
<1>3. Calling' /\ Ahead(Runner)' = {}
  BY <1>1, <1>2, NobodyCallsThen
<1>4. Known'
  <2>1. InitialGraph \in Graphs /\ \A t \in Stages \ InitialGraph.nodes : InitialGraph.deps[t] = {}
    BY LineageAssumption DEF Graphs
  <2>2. Grows(InitialGraph, InitialGraph)
    BY <2>1, GrowsOn
  <2> QED
    BY <1>1, <1>3, <2>2 DEF Known, Tally, IInv, Grown
<1>5. \A w \in Workers : HoldsCounts(w)'
  BY <1>2 DEF HoldsCounts
<1>6. ASSUME NEW s \in Stages PROVE Counting(s)' /\ Counted(s)'
  <2>1. Free(s)' /\ ~Running'
    BY <1>1, <1>2 DEF Running, Workers
  <2> QED
    BY <1>1, <1>2, <2>1, WaitingThen, Interrupted
<1> QED
  BY <1>3, <1>4, <1>5, <1>6 DEF Tally

-----------------------------------------------------------------------------
(* The steps of the caller keep the tally *)

(* The caller is given a list, when nobody has anything to do. *)
LEMMA RunnerGivenTally ==
  ASSUME IInv, Typed', Tally, NEW list, RunnerGiven(list),
         Following(list), list # <<>> => ~Resets(list[1]),
         \A o \in ToSet(list) :
            /\ Comes(o) => main'.at = "idle" /\ o.stage \in Scope'
            /\ o.op = "status" => o.closes \subseteq main'.target
            /\ o.op = "graph" => KnownDependencies(o.to),
         mem' \in {mem, graph},
         \A s \in Stages : rows[s] \in Rows /\ Unclosed(s) => Excused(s)'
  PROVE  Tally'
<1>1. /\ Given(Runner, list) /\ Free(Runner) /\ Runner \in Workers /\ Typed
      /\ \A s \in Stages : Free(s) /\ s \in Workers \ {Runner}
      /\ rows' = rows /\ trail' = trail /\ graph' = graph /\ torn' = torn
  BY LineageAssumption DEF RunnerGiven, Given, storeVars, Workers, IInv
<1>2. /\ Todo(Runner)' = list /\ Ahead(Runner)' = ToSet(list)
      /\ \A v \in Workers \ {Runner} : work'[v] = work[v]
  BY <1>1, GivenIs
<1>3. ASSUME NEW s \in Stages PROVE Counting(s)' /\ ~Owed(s)' /\ ~Owed(s) /\ HoldsCounts(s)'
  <2>1. Free(s)' /\ (Running' => th'[s].at \in {"none", "start"})
    BY <1>1, <1>2 DEF Free, RunnerGiven
  <2>2. Ahead(s) = {} /\ Todo(s)' = <<>>
    BY <1>1, <2>1, AheadIs DEF Free, Todo
  <2> QED
    BY <2>1, <2>2, WaitingThen DEF Busy, Owed, StartAhead, HoldsCounts
<1>4. HoldsCounts(Runner)'
  <2>1. Opens(list)
    BY <1>1 DEF Given
  <2> QED
    BY <1>2, <2>1 DEF HoldsCounts, Opens
<1>5. Calling'
  <2>1. Closes' \subseteq main'.target
    BY <1>2 DEF Closes
  <2> QED
    BY <1>2, <2>1 DEF Calling, Said
<1>6. Known'
  <2>1. /\ graph \in Graphs /\ Grows(InitialGraph, graph)
        /\ \A t \in Stages \ graph.nodes : graph.deps[t] = {}
    BY DEF IInv, Typed, Grown, Grows
  <2>2. Grows(graph, graph)
    BY <2>1, GrowsOn
  <2> QED
    BY <1>1, <1>2, <2>1, <2>2 DEF Known, Tally
<1>7. ASSUME NEW s \in Stages PROVE Counted(s)'
  <2>1. Counted(s) /\ ~Coming(s)
    BY <1>1, NobodyCalls DEF Tally
  <2>2. Tried(s)' = Tried(s) /\ RolledBack(s)' = RolledBack(s)
    BY <1>1, <1>3 DEF Tried, RolledBack
  <2>3. Agrees(s) => Agrees(s)'
    BY <1>1, <2>2 DEF Agrees
  <2>4. Rerouted(s) => Rerouted(s)'
    BY <1>1 DEF Rerouted, Respliced
  <2>5. rows[s] \in Rows /\ Excused(s) => Excused(s)'
    BY <2>1, <2>4 DEF Excused
  <2> QED
    BY <1>1, <2>1, <2>2, <2>3, <2>5 DEF Counted
<1> QED
  BY <1>3, <1>4, <1>5, <1>6, <1>7 DEF Tally, Workers

(* What a list of harmless transactions, or the last of all, leaves. *)
LEMMA HarmlessFollows ==
  ASSUME NEW list \in Seq(Ops),
         \A o \in ToSet(list) :
            /\ o.op # "status" /\ ~Starts(o) /\ ~Resets(o)
            /\ o.op = "save" => o.change \in {"skip", "link"}
  PROVE  Following(list)
<1>1. \A i \in DOMAIN list : list[i] \in ToSet(list)
  BY DEF ToSet
<1> QED
  BY <1>1 DEF Following, SetsAside

LEMMA StatusFollows ==
  ASSUME NEW to \in RunStatuses, NEW closes \in SUBSET Stages,
         NEW list, list = <<SetStatus(to, closes)>>
  PROVE  /\ Following(list) /\ ~Resets(list[1]) /\ list # <<>> /\ list \in Seq(Ops)
         /\ \A o \in ToSet(list) : o.op = "status" /\ o.closes = closes /\ ~Comes(o) /\ ~SetsAside(o)
<1>1. /\ SetStatus(to, closes).op = "status" /\ SetStatus(to, closes).closes = closes
  BY DEF SetStatus
<1> DEFINE o == SetStatus(to, closes)
<1>2. list \in Seq(Ops) /\ ToSet(list) = {o}
  BY StatusWhole DEF WholeLists
<1> HIDE DEF o
<1>3. list = <<o>> /\ o.op = "status" /\ o.closes = closes
  BY <1>1 DEF o
<1>4. Len(list) = 1 /\ DOMAIN list = {1} /\ list[1] = o /\ list # <<>>
  BY <1>3
<1>5. ~Resets(o) /\ ~Starts(o) /\ ~SetsAside(o) /\ ~Comes(o)
  BY <1>3 DEF Resets, Starts, SetsAside, Comes
<1>6. Following(list)
  BY <1>3, <1>4, <1>5 DEF Following
<1> QED
  BY <1>2, <1>3, <1>4, <1>5, <1>6

LEMMA RunStepTally ==
  ASSUME IInv, Rowed, Typed', Tally, CallRun \/ PlanLayer \/ Join \/ Finalize
  PROVE  Tally'
<1>1. PICK list : RunGives(list)
  BY CallRunGives, PlanLayerGives, JoinGives, FinalizeGives
<1>2. /\ RunList(list) /\ RunnerGiven(list) /\ mem' \in {mem, graph} /\ list \in Seq(Ops)
      /\ graph' = graph /\ torn' = torn /\ Free(Runner) /\ Ahead(Runner)' = ToSet(list)
  BY <1>1, RunnerStepKeeps DEF RunGives, RunnerGiven, Given, RunList, WholeLists
<1>3. /\ Following(list) /\ (list # <<>> => ~Resets(list[1]))
      /\ \A o \in ToSet(list) : ~Comes(o) /\ (o.op = "status" => o.closes = {}) /\ o.op # "graph"
  <2>1. CASE \A o \in ToSet(list) : SkipOp(o)
    <3>1. ASSUME NEW o \in ToSet(list)
          PROVE  /\ o.op \notin {"status", "graph", "aside"} /\ ~Starts(o) /\ ~Resets(o) /\ ~Comes(o)
                 /\ o.op = "save" => o.change \in {"skip", "link"}
      BY <2>1 DEF SkipOp, Starts, Resets, Comes, SetsAside, SetAsideActions
    <3>2. Following(list)
      BY <1>2, <3>1, HarmlessFollows
    <3>3. list # <<>> => list[1] \in ToSet(list)
      BY <1>2, Popped
    <3> QED
      BY <3>1, <3>2, <3>3
  <2>2. CASE \E to \in RunStatuses : list = <<SetStatus(to, {})>>
    BY <2>2, StatusFollows
  <2> QED
    BY <1>2, <2>1, <2>2 DEF RunList
<1>4. Closes = {} /\ Closes' = {}
  BY <1>2, <1>3, NobodyCalls DEF Closes
<1>5. \A s \in Stages : Unclosed(s) => Excused(s)'
  BY <1>2, <1>4 DEF Unclosed, Excused
<1> QED
  BY <1>2, <1>3, <1>5, RunnerGivenTally

-----------------------------------------------------------------------------
(* The operators keep the tally *)

(* Every stage of the set is set aside. *)
Covers(L, T) == \A s \in T : \E o \in ToSet(L) : o.op = "aside" /\ o.stage = s

LEMMA AsidesCover ==
  ASSUME NEW T \in SUBSET Stages, NEW log \in [T -> Seq(Simple)],
         \A s \in T : log[s] \in AsideLogs(s),
         NEW L, L = FlattenSeq([i \in 1 .. Cardinality(T) |-> Aside(InOrder(T)[i], log[InOrder(T)[i]])])
  PROVE  Covers(L, T)
<1> DEFINE q == [i \in 1 .. Cardinality(T) |-> Aside(InOrder(T)[i], log[InOrder(T)[i]])]
<1>1. /\ Cardinality(T) \in Nat /\ \A i \in 1 .. Cardinality(T) : InOrder(T)[i] \in T
      /\ \A s \in T : \E i \in 1 .. Cardinality(T) : InOrder(T)[i] = s
  BY InOrderCounts
<1>2. \A s \in T : /\ Aside(s, log[s]) \in WholeLists
                   /\ ToSet(Aside(s, log[s])) = {Load(s), [op |-> "aside", stage |-> s, log |-> log[s]]}
  BY AsideWhole
<1>3. q \in Seq(WholeLists) /\ DOMAIN q = 1 .. Cardinality(T)
      /\ \A i \in DOMAIN q : q[i] = Aside(InOrder(T)[i], log[InOrder(T)[i]])
  BY <1>1, <1>2
<1>4. L = FlattenSeq(q)
  OBVIOUS
<1> HIDE DEF q
<1>5. WholeLists \in SUBSET Seq(Ops) /\ <<>> \in WholeLists
  BY EmptyWhole DEF WholeLists
<1>6. \A x, y \in WholeLists : x \o y \in WholeLists
  BY WholeJoin
<1>7. ToSet(L) = UNION {ToSet(q[n]) : n \in DOMAIN q}
  BY <1>3, <1>4, <1>5, <1>6, Flattened
<1> SUFFICES ASSUME NEW s \in T PROVE \E o \in ToSet(L) : o.op = "aside" /\ o.stage = s
  BY DEF Covers
<1>8. PICK i \in 1 .. Cardinality(T) : InOrder(T)[i] = s
  BY <1>1
<1>9. q[i] = Aside(s, log[s]) /\ i \in DOMAIN q
  BY <1>3, <1>8
<1>10. [op |-> "aside", stage |-> s, log |-> log[s]] \in ToSet(L)
  BY <1>2, <1>7, <1>9
<1> QED
  BY <1>10

(* The lists that set the stages of a set aside and say so. *)
SetsAllAside(L, T) ==
    /\ Sayings(L) /\ OnlyAsides(L, T) /\ Following(L)
    /\ L # <<>> => ~Resets(L[1])
    /\ \A s \in T : \E o \in ToSet(L) : Comes(o) /\ o.stage = s
    /\ \A o \in ToSet(L) : o.op \notin {"status", "graph", "save", "record"}

LEMMA SettingAllAside ==
  ASSUME NEW T \in SUBSET Stages, NEW L \in WholeLists, OnlyAsides(L, T), Sayings(L),
         Covers(L, T)
  PROVE  SetsAllAside(L, T)
<1>1. L \in Seq(Ops)
  BY DEF WholeLists
<1>2. \A o \in ToSet(L) : /\ o.op \notin {"status", "graph", "save", "record"}
                          /\ ~Starts(o) /\ ~Resets(o)
  BY DEF OnlyAsides, Starts, Resets
<1>3. Following(L)
  BY <1>1, <1>2, HarmlessFollows
<1>4. L # <<>> => L[1] \in ToSet(L)
  BY <1>1, Popped
<1> QED
  BY <1>2, <1>3, <1>4 DEF SetsAllAside, Sayings, Comes, Covers

LEMMA LoggedAsidesCover ==
  ASSUME NEW T \in SUBSET Stages, NEW L, L = ForAll(T, LAMBDA d : Aside(d, Log(d, "marked_stale")))
  PROVE  L \in WholeLists /\ SetsAllAside(L, T)
<1> DEFINE log == [s \in T |-> Log(s, "marked_stale")]
<1>1. log \in [T -> Seq(Simple)] /\ \A s \in T : log[s] \in AsideLogs(s)
  BY LogShape DEF Actions, AsideLogs
<1>2. [i \in 1 .. Cardinality(T) |-> Aside(InOrder(T)[i], log[InOrder(T)[i]])]
      = [i \in 1 .. Cardinality(T) |-> Aside(InOrder(T)[i], Log(InOrder(T)[i], "marked_stale"))]
  BY InOrderCounts
<1>3. L = FlattenSeq([i \in 1 .. Cardinality(T) |-> Aside(InOrder(T)[i], log[InOrder(T)[i]])])
  BY <1>2 DEF ForAll
<1> HIDE DEF log
<1>4. Covers(L, T)
  BY <1>1, <1>3, AsidesCover
<1>5. L \in WholeLists /\ OnlyAsides(L, T) /\ Sayings(L)
  BY LoggedAsides
<1> QED
  BY <1>4, <1>5, SettingAllAside

LEMMA NotedAsidesCover ==
  ASSUME NEW T \in SUBSET Stages, NEW L, L = ForAll(T, LAMBDA d : Aside(d, Note(d, "marked_stale")))
  PROVE  L \in WholeLists /\ SetsAllAside(L, T)
<1> DEFINE log == [s \in T |-> Note(s, "marked_stale")]
<1>1. log \in [T -> Seq(Simple)] /\ \A s \in T : log[s] \in AsideLogs(s)
  BY NoteShape DEF Actions, AsideLogs
<1>2. [i \in 1 .. Cardinality(T) |-> Aside(InOrder(T)[i], log[InOrder(T)[i]])]
      = [i \in 1 .. Cardinality(T) |-> Aside(InOrder(T)[i], Note(InOrder(T)[i], "marked_stale"))]
  BY InOrderCounts
<1>3. L = FlattenSeq([i \in 1 .. Cardinality(T) |-> Aside(InOrder(T)[i], log[InOrder(T)[i]])])
  BY <1>2 DEF ForAll
<1> HIDE DEF log
<1>4. Covers(L, T)
  BY <1>1, <1>3, AsidesCover
<1>5. L \in WholeLists /\ OnlyAsides(L, T) /\ Sayings(L)
  BY NotedAsides
<1> QED
  BY <1>4, <1>5, SettingAllAside

(* The lists that set one stage aside, and say so. *)
SetsOneAside(L, s) ==
    /\ Following(L) /\ L # <<>> /\ ~Resets(L[1])
    /\ \E o \in ToSet(L) : Comes(o) /\ o.stage = s
    /\ \A o \in ToSet(L) : /\ o.op \in {"load", "save", "record", "audit"} /\ o.stage = s
                           /\ o.op = "record" => Resets(o)

(* What is common to them: a load, the save, the record, and what follows. *)
LEMMA SettingOneAside ==
  ASSUME NEW s \in Stages, NEW L \in Seq(Ops), NEW n \in Nat, n > 2, DOMAIN L = 1 .. n, L # <<>>,
         L[1] = Load(s), SetsAside(L[2]), L[2].stage = s,
         Resets(L[3]), L[3].stage = s, Follows(L[2], L[3]),
         \A i \in 4 .. n : L[i] \in {Load(s), Save(s, "link", 0), Audit(s)}
  PROVE  SetsOneAside(L, s)
<1>1. ASSUME NEW o \in {Load(s), Save(s, "link", 0), Audit(s)}
      PROVE  /\ o.op \in {"load", "save", "record", "audit"} /\ o.stage = s
             /\ ~Starts(o) /\ ~SetsAside(o) /\ ~Resets(o) /\ o.op # "record"
             /\ o.op = "save" => o.change = "link"
  BY DEF Load, Save, Audit, Starts, SetsAside, Resets
<1>2. ASSUME NEW i \in 1 .. n
      PROVE  \/ i = 2 \/ i = 3
             \/ L[i] \in {Load(s), Save(s, "link", 0), Audit(s)} /\ i # 2 /\ i # 3
  <2>1. i = 1 \/ i = 2 \/ i = 3 \/ i \in 4 .. n
    OBVIOUS
  <2> QED
    BY <2>1
<1>3. /\ L[2].op = "save" /\ L[2].change \in {"roll_back", "set_aside"}
      /\ L[3].op = "record" /\ ~Starts(L[2]) /\ ~Starts(L[3]) /\ ~SetsAside(L[3]) /\ ~Resets(L[2])
      /\ 2 \in DOMAIN L /\ 3 \in DOMAIN L /\ 1 \in DOMAIN L
  BY DEF SetsAside, Resets, Starts, SetAsideActions
<1>4. ASSUME NEW i \in 1 .. n
      PROVE  /\ L[i].op \in {"load", "save", "record", "audit"} /\ L[i].stage = s
             /\ ~Starts(L[i])
             /\ L[i].op = "save" => L[i].change \in {"skip", "link", "roll_back", "set_aside"}
             /\ SetsAside(L[i]) => i = 2
             /\ Resets(L[i]) => i = 3
             /\ L[i].op = "record" => Resets(L[i])
  BY <1>1, <1>2, <1>3
<1>5. Following(L)
  <2>1. ASSUME NEW i \in DOMAIN L
        PROVE  /\ L[i].op # "status" /\ ~Starts(L[i])
               /\ L[i].op = "save" => L[i].change \in {"skip", "link", "roll_back", "set_aside"}
               /\ SetsAside(L[i]) => i + 1 \in DOMAIN L /\ Resets(L[i + 1]) /\ L[i + 1].stage = L[i].stage
               /\ Resets(L[i]) /\ i > 1 => Follows(L[i - 1], L[i])
    <3>1. 2 + 1 = 3 /\ 3 - 1 = 2
      OBVIOUS
    <3>2. /\ L[i].op # "status" /\ ~Starts(L[i])
          /\ L[i].op = "save" => L[i].change \in {"skip", "link", "roll_back", "set_aside"}
          /\ SetsAside(L[i]) => i = 2
          /\ Resets(L[i]) => i = 3
      BY <1>4
    <3> QED
      BY <1>3, <3>1, <3>2
  <2> QED
    BY <2>1 DEF Following
<1>6. \A o \in ToSet(L) : /\ o.op \in {"load", "save", "record", "audit"} /\ o.stage = s
                          /\ o.op = "record" => Resets(o)
  BY <1>4 DEF ToSet
<1>7. L[3] \in ToSet(L) /\ Comes(L[3]) /\ ~Resets(L[1])
  BY <1>1, <1>3 DEF ToSet, Comes
<1> QED
  BY <1>5, <1>6, <1>7 DEF SetsOneAside

LEMMA RollingBack ==
  ASSUME NEW s \in Stages
  PROVE  LET L == Update(s, "roll_back", 0) \o Log(s, "rolled_back") IN
         L \in WholeLists /\ SetsOneAside(L, s)
<1> DEFINE x == Update(s, "roll_back", 0)
           y == Log(s, "rolled_back")
           L == x \o y
<1>0. L \in WholeLists
  <2>1. Tells(Save(s, "roll_back", 0), "rolled_back")
    BY DEF Tells, Save, Gives, Explained
  <2> QED
    BY <2>1, SaidWhole DEF Changes, Actions
<1>1. /\ x \in Seq(Ops) /\ Len(x) = 2 /\ x[1] = Load(s) /\ x[2] = Save(s, "roll_back", 0)
      /\ y \in Seq(Ops) /\ Len(y) = 4
      /\ y[1] = Record(s, "rolled_back", "executor") /\ y[2] = Load(s)
      /\ y[3] = Save(s, "link", 0) /\ y[4] = Audit(s)
  BY UpdateShape, LogShape DEF Changes, Actions
<1> HIDE DEF x, y
<1>2. /\ L \in Seq(Ops) /\ DOMAIN L = 1 .. Len(x) + Len(y)
      /\ \A i \in 1 .. Len(x) : L[i] = x[i]
      /\ \A i \in 1 .. Len(y) : L[Len(x) + i] = y[i]
  BY <1>1, Concatenated
<1> HIDE DEF L
<1>3. /\ L \in Seq(Ops) /\ DOMAIN L = 1 .. 6
      /\ \A i \in 1 .. 2 : L[i] = x[i]
      /\ \A i \in 1 .. 4 : L[2 + i] = y[i]
  BY <1>1, <1>2
<1>4. /\ L[1] = Load(s) /\ L[2] = Save(s, "roll_back", 0)
      /\ L[3] = Record(s, "rolled_back", "executor")
      /\ L[4] = Load(s) /\ L[5] = Save(s, "link", 0) /\ L[6] = Audit(s)
  <2>1. \A i \in 1 .. 4, j \in Nat : j = 2 + i => L[j] = y[i]
    BY <1>3
  <2>2. L[1] = x[1] /\ L[2] = x[2] /\ L[3] = y[1] /\ L[4] = y[2] /\ L[5] = y[3] /\ L[6] = y[4]
    BY <1>3, <2>1
  <2> QED
    BY <1>1, <2>2
<1>5. /\ Resets(L[3]) /\ L[3].stage = s /\ Follows(L[2], L[3])
      /\ SetsAside(L[2]) /\ L[2].stage = s
  BY <1>4 DEF Record, Save, Resets, SetAsideActions, Follows, SetsAside
<1>6. \A i \in 4 .. 6 : L[i] \in {Load(s), Save(s, "link", 0), Audit(s)}
  <2>1. \A i \in 4 .. 6 : i = 4 \/ i = 5 \/ i = 6
    OBVIOUS
  <2> QED
    BY <1>4, <2>1
<1>7. L # <<>>
  <2>1. 1 \in DOMAIN L /\ DOMAIN <<>> = {}
    BY <1>3
  <2> QED
    BY <2>1
<1>8. SetsOneAside(L, s)
  BY <1>3, <1>4, <1>5, <1>6, <1>7, SettingOneAside
<1> QED
  BY <1>0, <1>8 DEF L, x, y

LEMMA Replanning ==
  ASSUME NEW s \in Stages
  PROVE  LET L == Update(s, "set_aside", 0) \o Note(s, "replanned") IN
         L \in WholeLists /\ SetsOneAside(L, s)
<1> DEFINE x == Update(s, "set_aside", 0)
           y == Note(s, "replanned")
           L == x \o y
<1>0. L \in WholeLists
  BY ReplannedWhole
<1>1. /\ x \in Seq(Ops) /\ Len(x) = 2 /\ x[1] = Load(s) /\ x[2] = Save(s, "set_aside", 0)
      /\ y \in Seq(Ops) /\ Len(y) = 2
      /\ y[1] = Record(s, "replanned", "replanner") /\ y[2] = Audit(s)
  BY UpdateShape, NoteShape DEF Changes, Actions
<1> HIDE DEF x, y
<1>2. /\ L \in Seq(Ops) /\ DOMAIN L = 1 .. Len(x) + Len(y)
      /\ \A i \in 1 .. Len(x) : L[i] = x[i]
      /\ \A i \in 1 .. Len(y) : L[Len(x) + i] = y[i]
  BY <1>1, Concatenated
<1> HIDE DEF L
<1>3. /\ L \in Seq(Ops) /\ DOMAIN L = 1 .. 4
      /\ \A i \in 1 .. 2 : L[i] = x[i] /\ L[2 + i] = y[i]
  BY <1>1, <1>2
<1>4. /\ L[1] = Load(s) /\ L[2] = Save(s, "set_aside", 0)
      /\ L[3] = Record(s, "replanned", "replanner") /\ L[4] = Audit(s)
  <2>1. \A i \in 1 .. 2, j \in Nat : j = 2 + i => L[j] = y[i]
    BY <1>3
  <2>2. L[1] = x[1] /\ L[2] = x[2] /\ L[3] = y[1] /\ L[4] = y[2]
    BY <1>3, <2>1
  <2> QED
    BY <1>1, <2>2
<1>5. /\ Resets(L[3]) /\ L[3].stage = s /\ Follows(L[2], L[3])
      /\ SetsAside(L[2]) /\ L[2].stage = s
  BY <1>4 DEF Record, Save, Resets, SetAsideActions, Follows, SetsAside
<1>6. \A i \in 4 .. 4 : L[i] \in {Load(s), Save(s, "link", 0), Audit(s)}
  BY <1>4
<1>7. L # <<>>
  <2>1. 1 \in DOMAIN L /\ DOMAIN <<>> = {}
    BY <1>3
  <2> QED
    BY <2>1
<1>8. SetsOneAside(L, s)
  BY <1>3, <1>4, <1>5, <1>6, <1>7, SettingOneAside
<1> QED
  BY <1>0, <1>8 DEF L, x, y

(* The list of an operator: a stage, those downstream of it, and the run.  *)
OperatorsList(list, s, x, y) == list = x \o y \o <<SetStatus("running", {s})>>

(* What an operator's list leaves, put together of its parts. *)
LEMMA OperatorList ==
  ASSUME NEW s \in Stages, NEW T \in SUBSET Stages,
         NEW x \in WholeLists, SetsOneAside(x, s), NEW y \in WholeLists, SetsAllAside(y, T),
         NEW list, OperatorsList(list, s, x, y)
  PROVE  /\ list \in WholeLists /\ Following(list) /\ list # <<>> /\ ~Resets(list[1])
         /\ \A o \in ToSet(list) :
               o \in ToSet(x) \cup ToSet(y) \/ (o.op = "status" /\ o.closes = {s} /\ ~Comes(o))
         /\ ToSet(x) \cup ToSet(y) \subseteq ToSet(list)
<1>0. PICK z : z = <<SetStatus("running", {s})>>
  OBVIOUS
<1> DEFINE q == x \o y
           all == q \o z
<1>1. /\ Following(z) /\ ~Resets(z[1]) /\ z # <<>> /\ z \in Seq(Ops)
      /\ \A o \in ToSet(z) : o.op = "status" /\ o.closes = {s} /\ ~Comes(o)
  BY <1>0, StatusFollows DEF RunStatuses
<1>2. z \in WholeLists
  BY <1>0, StatusGiven DEF RunStatuses
<1>3. /\ all \in WholeLists /\ ToSet(all) = ToSet(x) \cup ToSet(y) \cup ToSet(z)
  BY <1>2, ThreeParts
<1>4. /\ Following(x) /\ x # <<>> /\ ~Resets(x[1]) /\ Following(y) /\ (y # <<>> => ~Resets(y[1]))
      /\ \A o \in ToSet(x) \cup ToSet(y) : o.op # "status"
  BY DEF SetsOneAside, SetsAllAside
<1>5. x \in Seq(Ops) /\ y \in Seq(Ops) /\ \A i \in DOMAIN x : x[i] \in ToSet(x)
  BY DEF WholeLists, ToSet
<1>6. Following(q)
  <2>1. \A i \in DOMAIN x : x[i].op # "status"
    BY <1>4, <1>5
  <2> QED
    BY <1>4, <1>5, <2>1, FollowingJoin
<1>7. q \in Seq(Ops) /\ ToSet(q) = ToSet(x) \cup ToSet(y)
  BY <1>5, Concatenated, ConcatenatedSet
<1>8. q[1] = x[1] /\ q # <<>> /\ Len(q) >= 1
  <2>1. /\ Len(x) \in Nat /\ Len(y) \in Nat /\ DOMAIN q = 1 .. Len(x) + Len(y) /\ Len(q) \in Nat
        /\ DOMAIN q = 1 .. Len(q)
        /\ \A i \in 1 .. Len(x) : q[i] = x[i]
    BY <1>5, <1>7, Concatenated
  <2>2. Len(x) >= 1
    BY <1>4, <1>5, <2>1, EmptySeq
  <2> HIDE DEF q
  <2>3. 1 \in DOMAIN q /\ 1 \in 1 .. Len(x) /\ DOMAIN <<>> = {}
    BY <2>1, <2>2
  <2> QED
    BY <2>1, <2>3
<1> HIDE DEF q
<1>9. \A i \in DOMAIN q : q[i].op # "status"
  BY <1>4, <1>7 DEF ToSet
<1>10. Following(all)
  BY <1>1, <1>6, <1>7, <1>9, FollowingJoin
<1>11. all[1] = q[1] /\ all # <<>>
  <2>1. /\ Len(q) \in Nat /\ Len(z) \in Nat /\ DOMAIN all = 1 .. Len(q) + Len(z)
        /\ \A i \in 1 .. Len(q) : all[i] = q[i]
    BY <1>1, <1>7, Concatenated
  <2> HIDE DEF all
  <2>2. 1 \in DOMAIN all /\ 1 \in 1 .. Len(q) /\ DOMAIN <<>> = {}
    BY <1>8, <2>1
  <2> QED
    BY <2>1, <2>2
<1> HIDE DEF all
<1>12. list = all
  BY <1>0, Zenon DEF all, q, OperatorsList
<1>13. /\ all \in WholeLists /\ Following(all) /\ all # <<>> /\ ~Resets(all[1])
       /\ ToSet(all) = ToSet(x) \cup ToSet(y) \cup ToSet(z)
  BY <1>3, <1>4, <1>8, <1>10, <1>11
<1> QED
  BY <1>1, <1>12, <1>13

(* A stage is set aside, and what is known to be downstream of it: what    *)
(* else is downstream, an insertion has put there.                         *)
LEMMA OperatorTally ==
  ASSUME IInv, Rowed, Typed', Tally, NEW name, NEW s \in Stages, NEW T \in SUBSET Stages,
         NEW x \in WholeLists, SetsOneAside(x, s), NEW y \in WholeLists, SetsAllAside(y, T),
         NEW list, OperatorsList(list, s, x, y), Operate(name, {s}, list),
         T \subseteq DownstreamOf(graph, s), \A t \in DownstreamOf(graph, s) \ T : Rerouted(t)
  PROVE  Tally'
<1>2. /\ list \in WholeLists /\ Following(list) /\ list # <<>> /\ ~Resets(list[1])
      /\ \A o \in ToSet(list) :
            o \in ToSet(x) \cup ToSet(y) \/ (o.op = "status" /\ o.closes = {s} /\ ~Comes(o))
      /\ ToSet(x) \cup ToSet(y) \subseteq ToSet(list)
  BY OperatorList
<1>3. /\ Free(Runner) /\ main' = [at |-> "idle", target |-> {s}] /\ mem' = mem
      /\ graph' = graph /\ torn' = torn /\ rows' = rows
  BY DEF Operate, Idle, storeVars
<1>4. RunnerGiven(list) /\ Ahead(Runner)' = ToSet(list)
  <2>1. /\ list \in Seq(Ops) /\ Paired(list) /\ Opens(list) /\ Spoken(list)
        /\ \A i \in DOMAIN list : Grounded(list, i)
    <3>1. \A o \in ToSet(list) : o.op = "record" => o.action # "stage_inserted"
      BY <1>2 DEF SetsOneAside, SetsAllAside, Resets, SetAsideActions
    <3> QED
      BY <1>2, <3>1, WholeGiven
  <2> QED
    BY <2>1, OperateGiven, RunnerStepKeeps
<1>5. ASSUME NEW o \in ToSet(x) \cup ToSet(y)
      PROVE  o.op \notin {"status", "graph"} /\ o.stage \in {s} \cup T
  BY DEF SetsOneAside, SetsAllAside, OnlyAsides
<1>6. /\ \E o \in ToSet(x) : Comes(o) /\ o.stage = s
      /\ \A t \in T : \E o \in ToSet(y) : Comes(o) /\ o.stage = t
  BY DEF SetsOneAside, SetsAllAside
<1>7. \A t \in {s} \cup T : Coming(t)'
  BY <1>2, <1>4, <1>6 DEF Coming
<1>8. Scope' = {t \in Stages : t = s \/ t \in DownstreamOf(graph, s)}
  BY <1>3 DEF Scope
<1>9. \A o \in ToSet(list) :
         /\ Comes(o) => main'.at = "idle" /\ o.stage \in Scope'
         /\ o.op = "status" => o.closes \subseteq main'.target
         /\ o.op # "graph"
  BY <1>2, <1>3, <1>5, <1>8
<1>10. Closes = {} /\ Closes' \subseteq {s}
  BY <1>2, <1>3, <1>4, <1>5, NobodyCalls DEF Closes
<1>11. ASSUME NEW t \in Stages, Unclosed(t) PROVE Excused(t)'
  <2>1. PICK u \in torn \ {Runner} : t = u \/ t \in DownstreamOf(graph, u)
    BY <1>10, <1>11 DEF Unclosed
  <2>2. CASE u # s
    <3>1. Unclosed(t)'
      BY <1>3, <1>10, <2>1, <2>2 DEF Unclosed
    <3> QED
      BY <3>1 DEF Excused
  <2>3. CASE u = s
    <3>1. CASE t \in {s} \cup T
      BY <1>7, <3>1 DEF Excused
    <3>2. CASE t \notin {s} \cup T
      <4>1. Rerouted(t)
        BY <2>1, <2>3, <3>2
      <4>2. Rerouted(t)'
        BY <1>3, <4>1 DEF Rerouted, Respliced
      <4> QED
        BY <4>2 DEF Excused
    <3> QED
      BY <3>1, <3>2
  <2> QED
    BY <2>2, <2>3
<1> QED
  BY <1>2, <1>3, <1>4, <1>9, <1>11, RunnerGivenTally

LEMMA RollbackTally ==
  ASSUME IInv, Rowed, Typed', Tally, NEW s \in Stages, Rollback(s)
  PROVE  Tally'
<1>1. PICK T \in SUBSET Stages : T = DownstreamOf(mem, s)
  BY DEF DownstreamOf, IInv, Typed, Graphs
<1>2. PICK x : x = Update(s, "roll_back", 0) \o Log(s, "rolled_back")
  OBVIOUS
<1>3. PICK y : y = ForAll(T, LAMBDA d : Aside(d, Log(d, "marked_stale")))
  OBVIOUS
<1>4. PICK list : list = x \o y \o <<SetStatus("running", {s})>>
  OBVIOUS
<1>5. Operate("rollback", {s}, list) /\ OperatorsList(list, s, x, y)
  BY <1>1, <1>2, <1>3, <1>4 DEF Rollback, OperatorsList
<1>6. x \in WholeLists /\ SetsOneAside(x, s)
  BY <1>2, RollingBack
<1>7. y \in WholeLists /\ SetsAllAside(y, T)
  BY <1>3, LoggedAsidesCover
<1>8. /\ mem \in Graphs /\ graph \in Graphs /\ Grows(mem, graph) /\ Grows(InitialGraph, mem)
  BY DEF Tally, Known, IInv, Typed
<1>9. T \subseteq DownstreamOf(graph, s)
  BY <1>1, <1>8, DownstreamGrows
<1>10. ASSUME NEW t \in DownstreamOf(graph, s) \ T PROVE Rerouted(t)
  <2>1. PICK u \in Stages : graph.deps[u] # mem.deps[u] /\ (t = u \/ t \in DownstreamOf(graph, u))
    BY <1>1, <1>8, NewlyDownstream DEF Grows
  <2>2. graph.deps[u] # InitialGraph.deps[u]
    BY <1>8, <2>1 DEF Grows
  <2> QED
    BY <2>1, <2>2 DEF Rerouted, Respliced
<1> HIDE <1>1
<1> QED
  BY <1>5, <1>6, <1>7, <1>9, <1>10, OperatorTally

LEMMA InvalidateTally ==
  ASSUME IInv, Rowed, Typed', Tally, NEW s \in Stages, Invalidate(s)
  PROVE  Tally'
<1>1. PICK T \in SUBSET Stages : T = DownstreamOf(graph, s)
  BY DEF DownstreamOf, IInv, Typed, Graphs
<1>2. PICK x : x = Update(s, "set_aside", 0) \o Note(s, "replanned")
  OBVIOUS
<1>3. PICK y : y = ForAll(T, LAMBDA d : Aside(d, Note(d, "marked_stale")))
  OBVIOUS
<1>4. PICK list : list = x \o y \o <<SetStatus("running", {s})>>
  OBVIOUS
<1>5. Operate("invalidate", {s}, list) /\ OperatorsList(list, s, x, y)
  BY <1>1, <1>2, <1>3, <1>4 DEF Invalidate, OperatorsList
<1>6. x \in WholeLists /\ SetsOneAside(x, s)
  BY <1>2, Replanning
<1>7. y \in WholeLists /\ SetsAllAside(y, T)
  BY <1>3, NotedAsidesCover
<1> QED
  BY <1>1, <1>5, <1>6, <1>7, OperatorTally

(* The stages before which one is inserted are set aside without a word. *)
LEMMA NothingSaid ==
  ASSUME NEW T \in SUBSET Stages, NEW L, L = ForAll(T, LAMBDA d : Aside(d, <<>>))
  PROVE  /\ L \in WholeLists
         /\ \A o \in ToSet(L) : o.op \in {"load", "aside"} /\ (o.op = "aside" => o.log = <<>>)
<1> DEFINE log == [s \in T |-> <<>>]
<1>1. log \in [T -> Seq(Simple)] /\ \A s \in T : log[s] \in AsideLogs(s) /\ log[s] = <<>>
  BY DEF AsideLogs
<1>2. [i \in 1 .. Cardinality(T) |-> Aside(InOrder(T)[i], log[InOrder(T)[i]])]
      = [i \in 1 .. Cardinality(T) |-> Aside(InOrder(T)[i], <<>>)]
  BY InOrderCounts
<1>3. L = FlattenSeq([i \in 1 .. Cardinality(T) |-> Aside(InOrder(T)[i], log[InOrder(T)[i]])])
  BY <1>2 DEF ForAll
<1> HIDE DEF log
<1>4. /\ L \in WholeLists /\ OnlyAsides(L, T)
      /\ \A o \in ToSet(L) : o.op = "aside" => o.log = log[o.stage]
  BY <1>1, <1>3, AsidesGiven
<1> QED
  BY <1>1, <1>4 DEF OnlyAsides

(* It sets nothing aside that the trail would tell of. *)
Unsaid(o, new, larger) ==
    /\ ~Starts(o) /\ ~Resets(o) /\ ~Comes(o)
    /\ o.op \in {"graph", "create", "load", "aside", "record", "audit"}
    /\ o.op = "graph" => o.to = larger

LEMMA InsertionFollows ==
  ASSUME NEW new \in Insertions, NEW larger \in Graphs, NEW list, InsertionsList(list, new, larger)
  PROVE  /\ list \in Seq(Ops) /\ Following(list) /\ (list # <<>> => ~Resets(list[1]))
         /\ \A o \in ToSet(list) :
               Unsaid(o, new, larger) \/ (o.op = "status" /\ o.closes = {new.stage} /\ ~Comes(o))
<1>0. new.stage \in Stages /\ new.befores \in SUBSET Stages
  BY LineageAssumption
<1> DEFINE g == [op |-> "graph", to |-> larger]
           c == [op |-> "create", stage |-> new.stage]
           r == Record(new.stage, "stage_inserted", "replanner")
<1>1. PICK x : x = <<g, c>>
  OBVIOUS
<1>2. PICK y : y = ForAll(new.befores, LAMBDA d : Aside(d, <<>>))
  OBVIOUS
<1>3. PICK n : n = Note(new.stage, "stage_inserted")
  OBVIOUS
<1>4. PICK z : z = <<SetStatus("running", {new.stage})>>
  OBVIOUS
<1>5. list = x \o y \o n \o z
  BY <1>1, <1>2, <1>3, <1>4, Zenon DEF InsertionsList
<1>6. /\ g \in Ops /\ g.op = "graph" /\ g.to = larger
      /\ c \in Ops /\ c.op = "create"
      /\ r.op = "record" /\ r.action = "stage_inserted"
      /\ Audit(new.stage).op = "audit"
  BY <1>0 DEF Ops, Simple, Record, Audit
<1> HIDE DEF g, c, r
<1>7. x \in Seq(Ops) /\ ToSet(x) = {g, c}
  <2>1. x \in Seq(Ops) /\ DOMAIN x = {1, 2} /\ x[1] = g /\ x[2] = c
    BY <1>1, <1>6
  <2> QED
    BY <2>1 DEF ToSet
<1>8. \A o \in ToSet(x) : Unsaid(o, new, larger)
  BY <1>6, <1>7 DEF Unsaid, Starts, Resets, Comes, SetsAside
<1>9. y \in Seq(Ops) /\ \A o \in ToSet(y) : Unsaid(o, new, larger)
  <2>1. /\ y \in WholeLists
        /\ \A o \in ToSet(y) : o.op \in {"load", "aside"} /\ (o.op = "aside" => o.log = <<>>)
    BY <1>0, <1>2, NothingSaid
  <2> QED
    BY <2>1 DEF WholeLists, Unsaid, Starts, Resets, Comes, SetsAside
<1>10. n \in Seq(Ops) /\ \A o \in ToSet(n) : Unsaid(o, new, larger)
  <2>1. n \in Seq(Ops) /\ ToSet(n) = {r, Audit(new.stage)}
    BY <1>0, <1>3, NoteShape DEF Actions, r
  <2> QED
    BY <1>6, <2>1 DEF Unsaid, Starts, Resets, Comes, SetsAside, SetAsideActions
<1>11. /\ Following(z) /\ ~Resets(z[1]) /\ z # <<>> /\ z \in Seq(Ops)
       /\ \A o \in ToSet(z) : o.op = "status" /\ o.closes = {new.stage} /\ ~Comes(o)
  BY <1>0, <1>4, StatusFollows DEF RunStatuses
<1> HIDE <1>1, <1>2, <1>3, <1>4
<1> DEFINE p == x \o y
           q == p \o n
           all == q \o z
<1>12. list = all
  BY <1>5, Zenon
<1>13. p \in Seq(Ops) /\ ToSet(p) = ToSet(x) \cup ToSet(y)
  BY <1>7, <1>9, Concatenated, ConcatenatedSet
<1> HIDE DEF p
<1>14. q \in Seq(Ops) /\ ToSet(q) = ToSet(p) \cup ToSet(n)
  BY <1>10, <1>13, Concatenated, ConcatenatedSet
<1> HIDE DEF q
<1>15. all \in Seq(Ops) /\ ToSet(all) = ToSet(q) \cup ToSet(z)
  BY <1>11, <1>14, Concatenated, ConcatenatedSet
<1>16. \A o \in ToSet(q) : Unsaid(o, new, larger)
  BY <1>8, <1>9, <1>10, <1>13, <1>14
<1>17. Following(q)
  <2>1. \A o \in ToSet(q) : /\ o.op # "status" /\ ~Starts(o) /\ ~Resets(o)
                            /\ o.op # "save"
    BY <1>16 DEF Unsaid
  <2> QED
    BY <1>14, <2>1, HarmlessFollows
<1>18. Following(all)
  <2>1. \A i \in DOMAIN q : q[i].op # "status"
    BY <1>16 DEF Unsaid, ToSet
  <2> QED
    BY <1>11, <1>14, <1>17, <2>1, FollowingJoin
<1> HIDE DEF all
<1>19. \A o \in ToSet(all) :
          Unsaid(o, new, larger) \/ (o.op = "status" /\ o.closes = {new.stage} /\ ~Comes(o))
  BY <1>11, <1>15, <1>16
<1>20. all # <<>> => ~Resets(all[1])
  <2>1. all # <<>> => all[1] \in ToSet(all)
    BY <1>15, Popped
  <2> QED
    BY <1>19, <2>1 DEF Comes, Unsaid
<1> QED
  BY <1>12, <1>15, <1>18, <1>19, <1>20

LEMMA InsertStageTally ==
  ASSUME IInv, Rowed, Typed', Tally, NEW new \in Insertions, InsertStage(new)
  PROVE  Tally'
<1>1. PICK list, larger : Insertion(list, new, larger)
  BY InsertStageGives
<1>2. /\ larger \in Graphs /\ KnownDependencies(larger) /\ InsertionsList(list, new, larger)
      /\ new.stage \in Stages \ graph.nodes /\ graph \in Graphs /\ RunnerGiven(list)
      /\ main' = [at |-> "idle", target |-> {new.stage}] /\ mem' = mem
  BY <1>1 DEF Insertion, IInv, Typed
<1>6. /\ list \in Seq(Ops) /\ Following(list) /\ (list # <<>> => ~Resets(list[1]))
      /\ \A o \in ToSet(list) :
            Unsaid(o, new, larger) \/ (o.op = "status" /\ o.closes = {new.stage} /\ ~Comes(o))
  BY <1>2, InsertionFollows
<1>7. /\ Free(Runner) /\ main' = [at |-> "idle", target |-> {new.stage}] /\ mem' = mem
      /\ graph' = graph /\ torn' = torn /\ rows' = rows /\ Ahead(Runner)' = ToSet(list)
  BY <1>2, RunnerStepKeeps DEF RunnerGiven, Given, storeVars
<1>8. \A o \in ToSet(list) :
         /\ ~Comes(o) /\ (o.op = "status" => o.closes \subseteq main'.target)
         /\ o.op = "graph" => KnownDependencies(o.to)
  BY <1>2, <1>6, <1>7 DEF Unsaid
<1>9. Closes = {} /\ Closes' \subseteq {new.stage}
  BY <1>6, <1>7, NobodyCalls DEF Closes, Unsaid
<1>10. ASSUME NEW t \in Stages, rows[t] \in Rows, Unclosed(t) PROVE Excused(t)'
  <2>1. PICK u \in torn \ {Runner} : t = u \/ t \in DownstreamOf(graph, u)
    BY <1>9, <1>10 DEF Unclosed
  <2>2. u # new.stage
    <3>1. rows[new.stage] = NoRow
      BY <1>2 DEF IInv, Grown
    <3>2. DownstreamOf(graph, new.stage) = {}
      BY <1>2, NothingDownstream DEF Tally, Known
    <3> QED
      BY <1>10, <2>1, <3>1, <3>2, RowsAreSomething
  <2>3. Unclosed(t)'
    BY <1>7, <1>9, <2>1, <2>2 DEF Unclosed
  <2> QED
    BY <2>3 DEF Excused
<1> QED
  BY <1>2, <1>6, <1>7, <1>8, <1>10, RunnerGivenTally

-----------------------------------------------------------------------------
(* The tally is kept *)

LEMMA TallyInit == Init /\ Inductive => Tally
<1> SUFFICES ASSUME Init, Inductive PROVE Tally
  OBVIOUS
<1>1. /\ graph = InitialGraph /\ mem = InitialGraph /\ main = [at |-> "idle", target |-> {}]
      /\ rows = [s \in Stages |-> IF s \in InitialGraph.nodes THEN NewRow ELSE NoRow]
      /\ trail = [s \in Stages |-> <<>>]
      /\ work = [w \in Workers |-> Resting] /\ th = [s \in Stages |-> NoThread]
      /\ torn = {}
  BY DEF Init
<1>2. Runner \in Workers /\ \A s \in Stages : s \in Workers
  BY DEF Workers
<1>3. \A v \in Workers : Free(v) /\ Todo(v) = <<>> /\ Ahead(v) = {}
  BY <1>1 DEF Free, Ahead, Todo, ToSet, Resting
<1>4. Calling /\ \A v \in Workers : HoldsCounts(v)
  BY <1>2, <1>3, NobodyCalls DEF HoldsCounts
<1>5. ~Running
  BY <1>1 DEF Running
<1>6. ASSUME NEW s \in Stages PROVE Counting(s)
  <2>1. Todo(s) = <<>> /\ Ahead(s) = {}
    BY <1>2, <1>3
  <2> QED
    BY <1>5, <2>1 DEF Counting, BeginsOnce, Attempt, StartAhead
<1>7. ASSUME NEW s \in Stages PROVE Counted(s)
  <2>1. trail[s] = <<>>
    BY <1>1
  <2>2. Since(trail[s]) = {} /\ Begun(trail[s]) = {} /\ Rollbacks(trail[s]) = {}
    BY <2>1 DEF Since, Begun, Rollbacks
  <2>3. Ahead(s) = {}
    BY <1>2, <1>3
  <2>4. Tried(s) = 0 /\ RolledBack(s) = 0
    BY <2>2, <2>3, FS_EmptySet DEF Tried, RolledBack, Owed, StartAhead
  <2>5. rows[s] \in Rows => ~rows[s].stale /\ rows[s].attempts = 0 /\ rows[s].rollbacks = 0
    BY <1>1, RowsAreSomething DEF NewRow
  <2> QED
    BY <2>2, <2>4, <2>5 DEF Counted, Agrees, Fresh
<1>8. Known
  <2>1. /\ InitialGraph \in Graphs /\ \A t \in Stages \ InitialGraph.nodes : InitialGraph.deps[t] = {}
        /\ KnownDependencies(InitialGraph)
    BY LineageAssumption DEF Graphs, Valid
  <2>2. Grows(InitialGraph, InitialGraph)
    BY <2>1, GrowsOn
  <2> QED
    BY <1>1, <1>2, <1>3, <2>1, <2>2 DEF Known
<1> QED
  BY <1>4, <1>6, <1>7, <1>8 DEF Tally

LEMMA TallyStutters ==
  ASSUME Tally, UNCHANGED vars
  PROVE  Tally'
<1>1. /\ graph' = graph /\ rows' = rows /\ trail' = trail /\ work' = work
      /\ th' = th /\ main' = main /\ mem' = mem /\ torn' = torn
  BY DEF vars, storeVars
<1>2. \A w \in Workers : Todo(w)' = Todo(w) /\ Ahead(w)' = Ahead(w)
  BY <1>1 DEF Todo, Ahead
<1>3. Runner \in Workers /\ \A s \in Stages : s \in Workers
  BY DEF Workers
<1>4. ASSUME NEW s \in Stages PROVE Counting(s)'
  <2>1. Counting(s)
    BY DEF Tally
  <2> QED
    BY <1>1, <1>2, <1>3, <2>1 DEF Counting, Attempt, Running, StartAhead, BeginAhead
<1>5. ASSUME NEW w \in Workers PROVE HoldsCounts(w)'
  BY <1>1, <1>2 DEF Tally, HoldsCounts
<1>6. Closes' = Closes /\ Scope' = Scope
  BY <1>1, <1>2, <1>3 DEF Closes, Scope
<1>7. Calling'
  BY <1>1, <1>2, <1>3, <1>6 DEF Tally, Calling, Said, RolledBack
<1>8. Known'
  BY <1>1, <1>2, <1>3 DEF Tally, Known
<1>9. ASSUME NEW s \in Stages PROVE Counted(s)'
  <2>1. Counted(s)
    BY DEF Tally
  <2>2. Tried(s)' = Tried(s) /\ RolledBack(s)' = RolledBack(s)
    BY <1>1, <1>2, <1>3 DEF Tried, RolledBack, Owed, StartAhead, BeginAhead
  <2>3. Excused(s)' <=> Excused(s)
    BY <1>1, <1>2, <1>3, <1>6 DEF Excused, Rerouted, Respliced, Unclosed, Coming
  <2> QED
    BY <1>1, <2>1, <2>2, <2>3 DEF Counted, Agrees
<1> QED
  BY <1>4, <1>5, <1>7, <1>8, <1>9 DEF Tally

LEMMA TallyKept ==
  ASSUME Inductive, Tally, Inductive', Next
  PROVE  Tally'
<1>1. IInv /\ Rowed /\ Typed'
  BY DEF Inductive, IInv
<1>2. CASE \E w \in Workers : Transaction(w)
  <2>1. PICK w \in Workers : Transaction(w)
    BY <1>2
  <2>2. CASE RaiseKeyError(w)
    BY <1>1, <2>2, RaiseTally
  <2>3. CASE ~RaiseKeyError(w) /\ w \in Stages
    BY <1>1, <2>1, <2>3, ThreadTransactions
  <2>4. CASE ~RaiseKeyError(w) /\ w = Runner
    BY <1>1, <2>1, <2>4, RunnerTransactions
  <2> QED
    BY <2>2, <2>3, <2>4 DEF Workers
<1>3. CASE CallRun \/ PlanLayer \/ Join \/ Finalize
  BY <1>1, <1>3, RunStepTally
<1>4. CASE \E s \in Stages : ThreadStep(s) \/ Rollback(s) \/ Invalidate(s)
  BY <1>1, <1>4, ThreadStepTally, RollbackTally, InvalidateTally
<1>5. CASE \E new \in Insertions : InsertStage(new)
  BY <1>1, <1>5, InsertStageTally
<1>6. CASE Crash
  BY <1>1, <1>6, CrashTally
<1> QED
  BY <1>2, <1>3, <1>4, <1>5, <1>6 DEF Next

(* The attempts that the report gives are those that the trail tells of. *)
LEMMA IncarnationIs ==
  ASSUME Typed, NEW s \in Stages
  PROVE  /\ Incarnation(s) = Since(trail[s])
         /\ Of(s, "rolled_back") = Rollbacks(trail[s])
<1> DEFINE q == trail[s]
           asides == {j \in DOMAIN q : q[j].action \in SetAsideActions}
<1>1. Len(q) \in Nat /\ DOMAIN q = 1 .. Len(q)
  BY DEF Typed
<1>2. UNION {Of(s, action) : action \in SetAsideActions} = asides
  BY DEF Of
<1>3. LastAside(s) = IF asides = {} THEN 0 ELSE Max(asides)
  BY <1>2 DEF LastAside
<1> HIDE DEF asides
<1>4. asides # {} => Max(asides) \in asides /\ \A k \in asides : k <= Max(asides)
  BY <1>1, GreatestIs DEF asides
<1>5. asides \subseteq Nat
  BY <1>1 DEF asides
<1>6. ASSUME NEW i \in DOMAIN q
      PROVE  i > LastAside(s) <=> \A j \in asides : j < i
  <2>1. CASE asides = {}
    BY <1>1, <1>3, <2>1
  <2>2. CASE asides # {}
    <3>1. LastAside(s) \in asides /\ \A k \in asides : k <= LastAside(s)
      BY <1>3, <1>4, <2>2
    <3>2. PICK m \in Nat : m = LastAside(s)
      BY <1>5, <3>1
    <3>3. i \in Nat /\ m \in asides /\ \A k \in asides : k \in Nat /\ k <= m
      BY <1>1, <1>5, <3>1, <3>2
    <3>4. (\A j \in asides : j < i) <=> m < i
      BY <3>3
    <3> QED
      BY <3>2, <3>3, <3>4
  <2> QED
    BY <2>1, <2>2
<1>7. Incarnation(s) = Since(q)
  BY <1>6 DEF Incarnation, Of, Since, asides
<1> QED
  BY <1>7 DEF Of, Rollbacks

LEMMA ReportIs ==
  ASSUME Typed
  PROVE  LET stages == Report.stages IN
         /\ DOMAIN stages = {s \in Stages : rows[s].status # "none"}
         /\ \A s \in DOMAIN stages : /\ stages[s].attempts = rows[s].attempts
                                     /\ stages[s].rollback_count = rows[s].rollbacks
BY DEF Report, RunReport, Typed

(* A stage is not settled, if there is a transaction about it to come. *)
LEMMA Unsettled ==
  ASSUME NEW w \in Workers, NEW o \in Ahead(w), o.op \notin {"status", "graph"}, o.stage \in Stages
  PROVE  ~Settled(o.stage)
<1>1. PICK i \in DOMAIN work[w].todo : o = work[w].todo[i]
  BY DEF Ahead, Todo, ToSet
<1>2. o.stage \in StagesOf(work[w].todo)
  BY <1>1 DEF StagesOf
<1> QED
  BY <1>2 DEF Settled, Quiet

(* The numbers of the report are those of the trail, whoever interleaves   *)
(* with whom and wherever the process dies: the attempts of a stage since  *)
(* it was last set aside, and never fewer rollbacks than were recorded     *)
(* (observability.py:96-143); unless a crash has swallowed a record, which *)
(* only makes the trail tell of less, or a call that sets the stage aside  *)
(* is unfinished.                                                          *)
THEOREM ReportAgreesWithTrailAlways == Spec => []ReportAgreesWithTrail
<1>1. Inductive /\ Tally /\ Inductive' /\ [Next]_vars => Tally'
  BY TallyKept, TallyStutters
<1>2. Inductive /\ Tally => ReportAgreesWithTrail
  <2> SUFFICES ASSUME Inductive, Tally PROVE ReportAgreesWithTrail
    OBVIOUS
  <2>1. Typed /\ Phase
    BY DEF Inductive, IInv, Order
  <2>2. ASSUME NEW s \in Stages, rows[s].status # "none"
        PROVE  /\ \/ Cardinality(Incarnation(s)) = rows[s].attempts
                  \/ Runner \in torn /\ Cardinality(Incarnation(s)) < rows[s].attempts
                  \/ rows[s].stale \/ Rerouted(s) \/ ~Settled(s) \/ PartlyReset(s)
               /\ Cardinality(Of(s, "rolled_back")) <= rows[s].rollbacks
    <3>1. rows[s] \in Rows
      BY <2>1, <2>2 DEF Typed, NoRow
    <3>2. (Agrees(s) \/ Excused(s)) /\ RolledBack(s) <= rows[s].rollbacks
      BY <3>1 DEF Tally, Counted
    <3>3. /\ Incarnation(s) = Since(trail[s]) /\ Of(s, "rolled_back") = Rollbacks(trail[s])
          /\ Cardinality(Since(trail[s])) \in Nat
      BY <2>1, IncarnationIs, TrailCounts DEF Typed
    <3>4. Unclosed(s) => PartlyReset(s)
      BY DEF Unclosed, PartlyReset
    <3>5. Coming(s) => ~Settled(s)
      <4> SUFFICES ASSUME Coming(s) PROVE ~Settled(s)
        OBVIOUS
      <4>1. PICK o \in Ahead(Runner) : Comes(o) /\ o.stage = s
        BY DEF Coming
      <4>2. o.op \notin {"status", "graph"}
        BY <4>1 DEF Comes, SetsAside, Resets
      <4> QED
        BY <4>1, <4>2, Unsettled DEF Workers
    <3>6. Owed(s) => ~Settled(s)
      <4> SUFFICES ASSUME Owed(s) PROVE ~Settled(s)
        OBVIOUS
      <4>1. PICK o \in Ahead(s) : Starts(o)
        BY DEF Owed, StartAhead
      <4>2. o.op \notin {"status", "graph"} /\ o.stage = s
        BY <2>1, <4>1 DEF Phase, Own, SkipOp, Starts
      <4> QED
        BY <4>2, Unsettled DEF Workers
    <3>7. ~Owed(s) => Tried(s) = Cardinality(Since(trail[s]))
      BY <3>3 DEF Tried
    <3> QED
      BY <3>2, <3>3, <3>4, <3>5, <3>6, <3>7 DEF Agrees, Excused, RolledBack
  <2> QED
    BY <2>1, <2>2, ReportIs DEF ReportAgreesWithTrail
<1> QED
  BY <1>1, <1>2, InductiveAlways, InductiveInit, TallyInit, PTL DEF Spec
=============================================================================
