---------------------------- MODULE ArtifactsProofs ----------------------------
(***************************************************************************)
(* What agents are handed, what is on disk and what the guardrails let     *)
(* pass, for any number of stages, dependencies, paths and contents, any   *)
(* answers of the agents, and a crash at any moment.                       *)
(***************************************************************************)
EXTENDS Artifacts, SequenceTheorems, FiniteSetTheorems, WellFoundedInduction, TLAPS

(* The results an agent may ever return, and the paths they name. *)
MayReturn(s) ==
    CASE AgentOf[s] = "author" -> Inputs[s]
      [] AgentOf[s] = "free" -> Replies[s]
      [] AgentOf[s] = "release" -> {<<Report>>, <<>>}
MayWrite(s) == {output.path : output \in UNION {ToSet(result) : result \in MayReturn(s)}}

(* No two stages write the same path. *)
OwnPaths == \A s, t \in Stages : s # t => MayWrite(s) \cap MayWrite(t) = {}

Records == [stage : Stages, path : Paths, content : Contents, version : Nat \ {0}]
Phases == AtWork \cup {"waiting", "blocked", "passed", "failed", "lost"}

Typed ==
    /\ files \in [Paths -> Contents \cup {None}]
    /\ rows \in [Stages -> Seq(Records)] /\ refs \in [Stages -> Seq(Records)]
    /\ input \in [Stages -> Seq(Outputs)] /\ todo \in [Stages -> Seq(Outputs)]
    /\ phase \in [Stages -> Phases] /\ attempts \in [Stages -> Nat]
    /\ view \in [Stages -> SUBSET Records] /\ unread \in [Stages -> SUBSET Records]
    /\ \A s \in Stages : input[s] \in Inputs[s]
    /\ \A s \in Stages : phase[s] = "record" => todo[s] # <<>>

(* A stage stays on its own paths. *)
Owned ==
    \A s \in Stages :
        /\ \A k \in DOMAIN todo[s] : todo[s][k].path \in MayWrite(s)
        /\ \A k \in DOMAIN rows[s] : rows[s][k].path \in MayWrite(s)

(* Of two records of a path the later one has the higher version.          *)
PlacesOf(records, path) == {n \in DOMAIN records : records[n].path = path}
Counted(records) ==
    \A k \in DOMAIN records : records[k].version <= Cardinality(PlacesOf(records, records[k].path))
Ascending(records) ==
    \A k \in DOMAIN records : \A j \in DOMAIN records :
        j < k /\ records[j].path = records[k].path => records[j].version < records[k].version

(* The records of the current attempt are the last ones of the table.      *)
EndsWith(records, last) ==
    /\ Len(last) <= Len(records)
    /\ \A k \in DOMAIN last : last[k] = records[Len(records) - Len(last) + k]
Numbered ==
    \A s \in Stages : Counted(rows[s]) /\ Ascending(rows[s]) /\ EndsWith(rows[s], refs[s])

(* What a stage works from has passed, and is in its view. *)
Handed ==
    \A s \in Stages : phase[s] # "waiting" =>
        \A d \in Upstream(s) : phase[d] = "passed" /\ Newest(refs[d]) \subseteq view[s]

(* From the first write of an attempt on, the disk holds what the attempt  *)
(* recorded, but for the file that is written and not recorded yet.        *)
Agrees(ref) == files[ref.path] = ref.content
Agreeing == {"agent", "write", "inspect", "blocked", "recheck", "passed"}
DiskOf(s) ==
    /\ phase[s] \in Agreeing => \A ref \in Newest(refs[s]) : Agrees(ref)
    /\ phase[s] = "record" =>
           /\ Agrees(Head(todo[s]))
           /\ \A ref \in Newest(refs[s]) : ref.path # Head(todo[s]).path => Agrees(ref)
OnDisk == \A s \in Stages : DiskOf(s)

(* What the gates have read of the attempt is not forbidden. *)
Clean(ref) == files[ref.path] \notin Forbidden
ScreenOf(s) ==
    \A ref \in ToSet(refs[s]) :
        /\ phase[s] = "inspect" => ref \in unread[s] \/ Clean(ref)
        /\ phase[s] \in {"blocked", "recheck", "passed"} => Clean(ref)
Screened == \A s \in Scanned : ScreenOf(s)

-----------------------------------------------------------------------------
(* Sequences of sequences *)

(* A set of numbers has a least one. *)
LEMMA LeastNumber ==
  ASSUME NEW S \in SUBSET Nat, S # {}
  PROVE  \E n \in S : \A m \in S : n <= m
<1> DEFINE R == {ss \in Nat \X Nat : ss[1] < ss[2]}
<1>1. IsWellFoundedOn(R, Nat)
  BY NatLessThanWellFounded DEF OpToRel
<1>2. PICK n \in S : \A m \in S : <<m, n>> \notin R
  <2> HIDE DEF R
  <2> QED
    BY <1>1, WFMin
<1>3. ASSUME NEW m \in S PROVE n <= m
  <2>1. m \in Nat /\ n \in Nat /\ <<m, n>> \notin R
    BY <1>2, <1>3
  <2>2. ~(m < n)
    BY <2>1
  <2> HIDE DEF R
  <2> QED
    BY <2>1, <2>2
<1> QED
  BY <1>3

(* A set of numbers with 0 and the successor of each of its members holds  *)
(* every number.                                                           *)
LEMMA EveryNumber ==
  ASSUME NEW P \in SUBSET Nat, 0 \in P, \A n \in P : n + 1 \in P
  PROVE  P = Nat
<1> SUFFICES ASSUME Nat \ P # {} PROVE FALSE
  OBVIOUS
<1>1. PICK n \in Nat \ P : \A m \in Nat \ P : n <= m
  BY LeastNumber
<1>2. n - 1 \in Nat /\ ~(n <= n - 1) /\ (n - 1) + 1 = n
  BY <1>1
<1> QED
  BY <1>1, <1>2

(* The recursion that joins the first i of the sequences of q. *)
Joined(q, joined) ==
    [i \in 1 .. Len(q) |-> IF i = 1 THEN q[i] ELSE joined[i - 1] \o q[i]]
Joins(q) == CHOOSE joined : joined = Joined(q, joined)

(* FlattenSeq, with its recursive function named. *)
LEMMA FlattenIsJoins ==
  ASSUME NEW q, Len(q) # 0
  PROVE  FlattenSeq(q) = Joins(q)[Len(q)]
BY DEF FlattenSeq, Joins, Joined

(* The recursion is well defined. *)
LEMMA JoinsExist ==
  ASSUME NEW S, NEW q \in Seq(Seq(S))
  PROVE  Joins(q) = Joined(q, Joins(q)) /\ Joins(q) \in [1 .. Len(q) -> Seq(S)]
<1> DEFINE Follows(f, n) == \A i \in 1 .. Len(q) : i <= n => f[i] = Joined(q, f)[i]
           P == {n \in Nat : \E f \in [1 .. Len(q) -> Seq(S)] : Follows(f, n)}
<1>0. Len(q) \in Nat /\ q \in [1 .. Len(q) -> Seq(S)]
  OBVIOUS
<1>1. 0 \in P
  BY <1>0
<1>2. ASSUME NEW n \in P PROVE n + 1 \in P
  <2>1. PICK f \in [1 .. Len(q) -> Seq(S)] : Follows(f, n)
    OBVIOUS
  <2> DEFINE more == Joined(q, f)
  <2>2. more \in [1 .. Len(q) -> Seq(S)]
    <3>1. ASSUME NEW i \in 1 .. Len(q), i # 1 PROVE f[i - 1] \o q[i] \in Seq(S)
      <4>0. i - 1 \in 1 .. Len(q)
        BY <1>0, <3>1
      <4>1. f[i - 1] \in Seq(S) /\ q[i] \in Seq(S)
        BY <1>0, <4>0
      <4> QED
        BY <4>1, ConcatProperties
    <3> QED
      BY <1>0, <3>1 DEF Joined
  <2>3. ASSUME NEW i \in 1 .. Len(q), i <= n + 1 PROVE more[i] = Joined(q, more)[i]
    <3>1. CASE i = 1
      BY <3>1 DEF Joined
    <3>2. CASE i # 1
      <4>1. i - 1 \in 1 .. Len(q) /\ i - 1 <= n
        BY <1>0, <2>3, <3>2
      <4>2. f[i - 1] = more[i - 1]
        BY <2>1, <4>1
      <4>3. more[i] = f[i - 1] \o q[i] /\ Joined(q, more)[i] = more[i - 1] \o q[i]
        <5>1. \A g : Joined(q, g)[i] = g[i - 1] \o q[i]
          BY <3>2 DEF Joined
        <5> QED
          BY <5>1
      <4> QED
        BY <4>2, <4>3
    <3> QED
      BY <3>1, <3>2
  <2> HIDE DEF more
  <2>4. Follows(more, n + 1)
    BY <2>3
  <2> HIDE DEF Follows
  <2> QED
    BY <2>2, <2>4
<1>3. P = Nat
  <2>1. P \in SUBSET Nat
    OBVIOUS
  <2> HIDE DEF P
  <2> QED
    BY <1>1, <1>2, <2>1, EveryNumber
<1>4. PICK f \in [1 .. Len(q) -> Seq(S)] : Follows(f, Len(q))
  BY <1>0, <1>3
<1>5. f = Joined(q, f)
  BY <1>0, <1>4 DEF Joined
<1>6. Joins(q) = Joined(q, Joins(q))
  BY <1>5 DEF Joins
<1>7. ASSUME NEW g, g = Joined(q, g) PROVE g = f
  <2> DEFINE Q == {n \in Nat : \A i \in 1 .. Len(q) : i <= n => g[i] = f[i]}
  <2>1. 0 \in Q
    BY <1>0
  <2>2. ASSUME NEW n \in Q PROVE n + 1 \in Q
    <3>1. ASSUME NEW i \in 1 .. Len(q), i <= n + 1 PROVE g[i] = f[i]
      <4>1. g[i] = (IF i = 1 THEN q[i] ELSE g[i - 1] \o q[i])
            /\ f[i] = (IF i = 1 THEN q[i] ELSE f[i - 1] \o q[i])
        <5>1. \A h : Joined(q, h)[i] = IF i = 1 THEN q[i] ELSE h[i - 1] \o q[i]
          BY DEF Joined
        <5> QED
          BY <1>5, <1>7, <5>1
      <4>2. i # 1 => i - 1 \in 1 .. Len(q) /\ i - 1 <= n
        BY <1>0, <3>1
      <4>3. i # 1 => g[i - 1] = f[i - 1]
        BY <4>2
      <4> QED
        BY <4>1, <4>3
    <3> QED
      BY <3>1
  <2>3. Q = Nat
    <3>1. Q \in SUBSET Nat
      OBVIOUS
    <3> HIDE DEF Q
    <3> QED
      BY <2>1, <2>2, <3>1, EveryNumber
  <2>4. \A i \in 1 .. Len(q) : g[i] = f[i]
    BY <1>0, <2>3
  <2>5. g = [i \in 1 .. Len(q) |-> g[i]] /\ f = [i \in 1 .. Len(q) |-> f[i]]
    BY <1>5, <1>7 DEF Joined
  <2> QED
    BY <2>4, <2>5
<1> QED
  BY <1>6, <1>7

(* A concatenation holds what its parts hold. *)
LEMMA ConcatenatedSet ==
  ASSUME NEW S, NEW a \in Seq(S), NEW b \in Seq(S)
  PROVE  ToSet(a \o b) = ToSet(a) \cup ToSet(b)
<1>1. /\ Len(a) \in Nat /\ Len(b) \in Nat /\ Len(a \o b) = Len(a) + Len(b)
      /\ DOMAIN a = 1 .. Len(a) /\ DOMAIN b = 1 .. Len(b) /\ DOMAIN (a \o b) = 1 .. Len(a) + Len(b)
  OBVIOUS
<1>2. \A i \in 1 .. Len(a) + Len(b) : (a \o b)[i] = IF i <= Len(a) THEN a[i] ELSE b[i - Len(a)]
  OBVIOUS
<1>3. ASSUME NEW x \in ToSet(a \o b) PROVE x \in ToSet(a) \cup ToSet(b)
  <2>1. PICK i \in 1 .. Len(a) + Len(b) : x = (a \o b)[i]
    BY <1>1 DEF ToSet
  <2>2. i <= Len(a) => i \in 1 .. Len(a)
    BY <1>1
  <2>3. ~(i <= Len(a)) => i - Len(a) \in 1 .. Len(b)
    BY <1>1
  <2> QED
    BY <1>1, <1>2, <2>1, <2>2, <2>3 DEF ToSet
<1>4. ASSUME NEW i \in 1 .. Len(a) PROVE a[i] \in ToSet(a \o b)
  <2>1. i \in 1 .. Len(a) + Len(b) /\ (a \o b)[i] = a[i]
    BY <1>1, <1>2
  <2> QED
    BY <1>1, <2>1 DEF ToSet
<1>5. ASSUME NEW i \in 1 .. Len(b) PROVE b[i] \in ToSet(a \o b)
  <2>1. i + Len(a) \in 1 .. Len(a) + Len(b) /\ (a \o b)[i + Len(a)] = b[i]
    BY <1>1, <1>2
  <2> QED
    BY <1>1, <2>1 DEF ToSet
<1>6. ToSet(a) \subseteq ToSet(a \o b) /\ ToSet(b) \subseteq ToSet(a \o b)
  BY <1>1, <1>4, <1>5 DEF ToSet
<1> QED
  BY <1>3, <1>6

(* Of sequences of S, FlattenSeq makes one sequence of S, that holds what  *)
(* they hold.                                                              *)
LEMMA Flattened ==
  ASSUME NEW S, NEW q \in Seq(Seq(S))
  PROVE  /\ FlattenSeq(q) \in Seq(S)
         /\ ToSet(FlattenSeq(q)) = UNION {ToSet(q[n]) : n \in DOMAIN q}
<1>0. Len(q) \in Nat /\ q \in [1 .. Len(q) -> Seq(S)] /\ DOMAIN q = 1 .. Len(q)
  OBVIOUS
<1>1. CASE Len(q) = 0
  <2>1. q = <<>> /\ FlattenSeq(q) = q
    BY <1>1 DEF FlattenSeq
  <2>2. <<>> \in Seq(S) /\ DOMAIN <<>> = {}
    OBVIOUS
  <2> QED
    BY <2>1, <2>2 DEF ToSet
<1>2. CASE Len(q) # 0
  <2> DEFINE f == Joins(q)
             Holds(i) == ToSet(f[i]) = UNION {ToSet(q[n]) : n \in 1 .. i}
             P == {n \in Nat : \A i \in 1 .. Len(q) : i <= n => Holds(i)}
  <2>1. f = Joined(q, f) /\ f \in [1 .. Len(q) -> Seq(S)]
    BY JoinsExist
  <2>2. \A i \in 1 .. Len(q) : f[i] = IF i = 1 THEN q[i] ELSE f[i - 1] \o q[i]
    <3>1. \A h : \A i \in 1 .. Len(q) :
              Joined(q, h)[i] = IF i = 1 THEN q[i] ELSE h[i - 1] \o q[i]
      BY DEF Joined
    <3> HIDE DEF f
    <3> QED
      BY <2>1, <3>1
  <2> HIDE DEF f
  <2>3. 0 \in P
    BY <1>0
  <2>4. ASSUME NEW n \in P PROVE n + 1 \in P
    <3>1. ASSUME NEW i \in 1 .. Len(q), i <= n + 1 PROVE Holds(i)
      <4>1. CASE i = 1
        <5>1. f[i] = q[i] /\ 1 .. i = {i}
          BY <2>2, <4>1, SMTT(20)
        <5> QED
          BY <5>1
      <4>2. CASE i # 1
        <5>1. i - 1 \in 1 .. Len(q) /\ i - 1 <= n /\ 1 .. i = 1 .. i - 1 \cup {i}
          BY <1>0, <3>1, <4>2
        <5>2. Holds(i - 1)
          BY <5>1
        <5>3. f[i - 1] \in Seq(S) /\ q[i] \in Seq(S) /\ f[i] = f[i - 1] \o q[i]
          BY <1>0, <2>1, <2>2, <4>2, <5>1
        <5>4. ToSet(f[i - 1] \o q[i]) = ToSet(f[i - 1]) \cup ToSet(q[i])
          BY <5>3, ConcatenatedSet
        <5> QED
          BY <5>1, <5>2, <5>3, <5>4
      <4> QED
        BY <4>1, <4>2
    <3> HIDE DEF Holds
    <3> QED
      BY <3>1
  <2>5. P = Nat
    <3>1. P \in SUBSET Nat
      OBVIOUS
    <3> HIDE DEF P
    <3> QED
      BY <2>3, <2>4, <3>1, EveryNumber
  <2>6. Len(q) \in 1 .. Len(q) /\ Holds(Len(q))
    <3>1. Len(q) \in 1 .. Len(q)
      BY <1>0, <1>2
    <3>2. Len(q) \in P
      <4> HIDE DEF P
      <4> QED
        BY <1>0, <2>5
    <3> HIDE DEF Holds
    <3> QED
      BY <3>1, <3>2
  <2>7. FlattenSeq(q) = f[Len(q)]
    BY <1>2, FlattenIsJoins DEF f
  <2> QED
    BY <1>0, <2>1, <2>6, <2>7
<1> QED
  BY <1>1, <1>2

(* A record that is newer than every other record of its path is one of    *)
(* the latest, wherever it stands.                                         *)
LEMMA NewerIsLatest ==
  ASSUME NEW records \in Seq(Records), NEW ref \in ToSet(records),
         \A other \in ToSet(records) :
             other.path = ref.path => other = ref \/ other.version < ref.version
  PROVE  ref \in Latest(records)
<1> DEFINE places == {n \in DOMAIN records : records[n] = ref}
<1>1. DOMAIN records \subseteq Nat /\ \A k \in DOMAIN records : records[k] \in ToSet(records)
  BY DEF ToSet
<1>2. PICK n \in places : \A m \in places : n <= m
  <2>1. places \in SUBSET Nat /\ places # {}
    BY <1>1 DEF ToSet
  <2> HIDE DEF places
  <2> QED
    BY <2>1, LeastNumber
<1>3. ASSUME NEW k \in DOMAIN records, records[k].path = records[n].path
      PROVE  \/ records[k].version < records[n].version
             \/ records[k].version = records[n].version /\ n <= k
  BY <1>1, <1>2, <1>3
<1>4. records[n] = ref /\ n \in DOMAIN records
  BY <1>2
<1> QED
  BY <1>3, <1>4 DEF Latest

-----------------------------------------------------------------------------
(* Typing, and whose paths are whose *)

(* What an agent returns, it may return. *)
LEMMA ResultsMayReturn ==
  ASSUME Typed, NEW s \in Stages
  PROVE  Results(s) \subseteq MayReturn(s) /\ Results(s) \subseteq Seq(Outputs)
<1>1. /\ input[s] \in Inputs[s] /\ Inputs[s] \subseteq Seq(Outputs)
      /\ Replies[s] \subseteq Seq(Outputs) /\ Report \in Outputs
  BY OutputsAssumption DEF Typed
<1>2. AgentOf[s] \in {"author", "free", "release"}
  BY StagesAssumption
<1>3. <<Report>> \in Seq(Outputs) /\ <<>> \in Seq(Outputs)
  BY <1>1
<1>4. CASE AgentOf[s] = "author"
  BY <1>1, <1>4 DEF Results, MayReturn, Authored
<1>5. CASE AgentOf[s] = "free"
  BY <1>1, <1>5 DEF Results, MayReturn, Generated
<1>6. CASE AgentOf[s] = "release"
  BY <1>3, <1>6 DEF Results, MayReturn, ReleaseReadiness
<1> QED
  BY <1>2, <1>4, <1>5, <1>6

(* What a stage collects are records. *)
LEMMA CollectedRecords ==
  ASSUME Typed, NEW s \in Stages
  PROVE  LET all == FlattenSeq([n \in DOMAIN Deps[s] |-> rows[Deps[s][n]]]) IN
         /\ all \in Seq(Records)
         /\ ToSet(all) = UNION {ToSet(rows[d]) : d \in Upstream(s)}
         /\ Collected(s) = Latest(all) /\ Collected(s) \subseteq Records
<1> DEFINE q == [n \in DOMAIN Deps[s] |-> rows[Deps[s][n]]]
<1>1. /\ Deps[s] \in Seq(Stages) /\ DOMAIN Deps[s] = 1 .. Len(Deps[s]) /\ Len(Deps[s]) \in Nat
      /\ \A n \in DOMAIN Deps[s] : Deps[s][n] \in Stages
  BY StagesAssumption
<1>2. q \in Seq(Seq(Records)) /\ DOMAIN q = DOMAIN Deps[s]
  <2>1. \A n \in 1 .. Len(Deps[s]) : rows[Deps[s][n]] \in Seq(Records)
    BY <1>1 DEF Typed
  <2> QED
    BY <1>1, <2>1, IsASeq
<1>3. /\ FlattenSeq(q) \in Seq(Records)
      /\ ToSet(FlattenSeq(q)) = UNION {ToSet(q[n]) : n \in DOMAIN q}
  <2> HIDE DEF q
  <2> QED
    BY <1>2, Flattened
<1>4. UNION {ToSet(q[n]) : n \in DOMAIN q} = UNION {ToSet(rows[d]) : d \in Upstream(s)}
  <2>1. Upstream(s) = {Deps[s][n] : n \in DOMAIN Deps[s]}
    BY DEF Upstream, ToSet
  <2>2. \A n \in DOMAIN Deps[s] : q[n] = rows[Deps[s][n]]
    OBVIOUS
  <2> HIDE DEF q
  <2>3. ASSUME NEW n \in DOMAIN q
        PROVE  q[n] = rows[Deps[s][n]] /\ Deps[s][n] \in Upstream(s)
    BY <1>2, <2>1, <2>2
  <2>4. ASSUME NEW d \in Upstream(s) PROVE \E n \in DOMAIN q : q[n] = rows[d]
    BY <1>2, <2>1, <2>2
  <2> QED
    BY <2>3, <2>4
<1>5. Collected(s) = Latest(FlattenSeq(q))
  BY DEF Collected
<1>6. Latest(FlattenSeq(q)) \subseteq Records
  <2> HIDE DEF q
  <2> QED
    BY <1>3 DEF Latest
<1> QED
  BY <1>3, <1>4, <1>5, <1>6

(* The records of a path can be counted. *)
LEMMA FinitePlaces ==
  ASSUME NEW records \in Seq(Records), NEW path
  PROVE  IsFiniteSet(PlacesOf(records, path)) /\ Cardinality(PlacesOf(records, path)) \in Nat
<1>1. DOMAIN records = 1 .. Len(records) /\ Len(records) \in Nat
  OBVIOUS
<1>2. IsFiniteSet(1 .. Len(records))
  BY <1>1, FS_Interval
<1> QED
  BY <1>1, <1>2, FS_Subset, FS_CardinalityType DEF PlacesOf

(* The initial state is well typed. *)
LEMMA TypedAtFirst == Init => Typed
<1> SUFFICES ASSUME Init PROVE Typed
  OBVIOUS
<1>1. <<>> \in Seq(Records) /\ <<>> \in Seq(Outputs)
  OBVIOUS
<1>2. \A s \in Stages : Inputs[s] \subseteq Seq(Outputs)
  BY OutputsAssumption
<1>3. input \in [Stages -> Seq(Outputs)]
  BY <1>2 DEF Init
<1> QED
  BY <1>1, <1>3 DEF Init, Typed, Phases, AtWork

(* Every step of a stage is well typed. *)
LEMMA StageKeepsTyped ==
  ASSUME Typed, NEW s \in Stages, StageStep(s)
  PROVE  Typed'
<1>0. /\ rows[s] \in Seq(Records) /\ refs[s] \in Seq(Records) /\ todo[s] \in Seq(Outputs)
      /\ view[s] \in SUBSET Records /\ unread[s] \in SUBSET Records /\ attempts[s] \in Nat
      /\ phase[s] \in Phases
  BY DEF Typed
<1>1. \A place \in Phases : \A t \in Stages : [phase EXCEPT ![s] = place][t] = IF t = s THEN place ELSE phase[t]
  BY DEF Typed
<1>2. CASE Begin(s)
  <2>1. Collected(s) \in SUBSET Records /\ attempts[s] + 1 \in Nat /\ <<>> \in Seq(Records)
    <3>1. Collected(s) \subseteq Records
      BY CollectedRecords
    <3> QED
      BY <1>0, <3>1
  <2> QED
    BY <1>2, <2>1 DEF Begin, Goto, Typed, Phases, AtWork
<1>3. CASE RunAgent(s)
  <2>1. PICK result \in Results(s) :
            /\ todo' = [todo EXCEPT ![s] = result]
            /\ IF result = <<>> THEN FailAttempt(s) ELSE Goto(s, "write")
    BY <1>3 DEF RunAgent
  <2>2. result \in Seq(Outputs)
    BY ResultsMayReturn
  <2>3. \E place \in Phases \ {"record"} : phase' = [phase EXCEPT ![s] = place]
    BY <2>1 DEF FailAttempt, Goto, Phases, AtWork
  <2>4. phase[s] = "agent" /\ UNCHANGED <<files, rows, input, attempts, view, refs, unread>>
    BY <1>3 DEF RunAgent
  <2> QED
    BY <2>1, <2>2, <2>3, <2>4 DEF Typed
<1>4. CASE Write(s)
  <2>1. /\ phase[s] = "write" /\ UNCHANGED <<rows, input, attempts, view, todo, refs>>
    BY <1>4 DEF Write
  <2>2. CASE todo[s] # <<>>
    <3>1. Head(todo[s]) \in Outputs
      BY <1>0, <2>2
    <3>2. files' \in [Paths -> Contents \cup {None}]
      BY <1>4, <2>2, <3>1 DEF Write, Written, Outputs, Typed
    <3>3. phase' = [phase EXCEPT ![s] = "record"] /\ unread' = unread
      BY <1>4, <2>2 DEF Write, Goto
    <3> QED
      BY <2>1, <2>2, <3>2, <3>3 DEF Typed, Phases, AtWork
  <2>3. CASE todo[s] = <<>>
    <3>1. Inspected(s) \in SUBSET Records
      BY <1>0 DEF Inspected, ToSet
    <3>2. unread' \in [Stages -> SUBSET Records]
      BY <1>4, <2>3, <3>1 DEF Write, Typed
    <3>3. phase' = [phase EXCEPT ![s] = "inspect"] /\ files' = files
      BY <1>4, <2>3 DEF Write, Goto
    <3> QED
      BY <2>1, <3>2, <3>3 DEF Typed, Phases, AtWork
  <2> QED
    BY <2>2, <2>3
<1>5. CASE Record(s)
  <2> DEFINE output == Head(todo[s])
             ref == [stage |-> s, path |-> output.path, content |-> output.content,
                     version |-> NextVersion(s, output.path)]
  <2>1. /\ rows' = [rows EXCEPT ![s] = Append(@, ref)]
        /\ refs' = [refs EXCEPT ![s] = Append(@, ref)]
        /\ todo' = [todo EXCEPT ![s] = Tail(@)]
        /\ phase' = [phase EXCEPT ![s] = "write"] /\ phase[s] = "record"
        /\ UNCHANGED <<files, input, attempts, view, unread>>
    BY <1>5 DEF Record, Goto
  <2>2. output \in Outputs /\ Tail(todo[s]) \in Seq(Outputs)
    BY <1>0, <2>1 DEF Typed
  <2>3. NextVersion(s, output.path) \in Nat \ {0}
    <3>1. Cardinality(PlacesOf(rows[s], output.path)) \in Nat
      BY <1>0, FinitePlaces
    <3>2. NextVersion(s, output.path) = 1 + Cardinality(PlacesOf(rows[s], output.path))
      BY DEF NextVersion, PlacesOf
    <3> QED
      BY <3>1, <3>2
  <2>4. ref \in Records
    BY <2>2, <2>3 DEF Records, Outputs
  <2> HIDE DEF ref
  <2>5. Append(rows[s], ref) \in Seq(Records) /\ Append(refs[s], ref) \in Seq(Records)
    BY <1>0, <2>4
  <2> QED
    BY <2>1, <2>2, <2>5 DEF Typed, Phases, AtWork
<1>6. CASE Inspect(s)
  <2>1. /\ UNCHANGED <<files, rows, input, attempts, view, todo, refs>>
        /\ \E ref \in unread[s] :
              \/ unread' = [unread EXCEPT ![s] = {}]
              \/ unread' = [unread EXCEPT ![s] = @ \ {ref}]
        /\ \/ phase' = phase
           \/ \E place \in Phases \ {"record"} : phase' = [phase EXCEPT ![s] = place]
    BY <1>6 DEF Inspect, FailAttempt, Goto, Phases, AtWork
  <2>2. PICK ref \in unread[s] : \/ unread' = [unread EXCEPT ![s] = {}]
                                \/ unread' = [unread EXCEPT ![s] = unread[s] \ {ref}]
    BY <2>1
  <2>3. unread[s] \ {ref} \in SUBSET Records /\ unread \in [Stages -> SUBSET Records]
    BY <1>0 DEF Typed
  <2>4. unread' \in [Stages -> SUBSET Records]
    BY <2>2, <2>3
  <2> QED
    BY <2>1, <2>4, ZenonT(40) DEF Typed
<1>7. CASE Conclude(s)
  <2>1. /\ UNCHANGED <<files, rows, input, attempts, view, todo, refs, unread>>
        /\ \E place \in Phases \ {"record"} : phase' = [phase EXCEPT ![s] = place]
    BY <1>7 DEF Conclude, Goto, Phases, AtWork
  <2> QED
    BY <2>1 DEF Typed
<1>8. CASE Recheck(s)
  <2>1. Latest(rows[s]) \in SUBSET Records
    BY <1>0 DEF Latest
  <2>2. /\ UNCHANGED <<files, rows, input, attempts, view, todo, refs>>
        /\ unread' = [unread EXCEPT ![s] = IF s \in Scanned THEN Latest(rows[s]) ELSE {}]
        /\ phase' = [phase EXCEPT ![s] = "recheck"]
    BY <1>8 DEF Recheck, Goto
  <2> QED
    BY <2>1, <2>2 DEF Typed, Phases, AtWork
<1> QED
  BY <1>2, <1>3, <1>4, <1>5, <1>6, <1>7, <1>8 DEF StageStep

(* Every step keeps the types. *)
LEMMA StepKeepsTyped == Typed /\ [Next]_vars => Typed'
<1> SUFFICES ASSUME Typed, [Next]_vars PROVE Typed'
  OBVIOUS
<1>1. CASE UNCHANGED vars
  BY <1>1 DEF vars, Typed
<1>2. CASE Crash
  <2>1. /\ UNCHANGED <<files, rows, input, attempts, view, todo, refs, unread>>
        /\ phase' = [s \in Stages |-> Interrupted(phase[s])]
    BY <1>2 DEF Crash
  <2>2. \A s \in Stages : Interrupted(phase[s]) \in Phases \ {"record"}
    BY DEF Interrupted, Typed, Phases, AtWork
  <2> QED
    BY <2>1, <2>2 DEF Typed
<1>3. ASSUME NEW s \in Stages, SetAside(s) PROVE Typed'
  <2>1. UNCHANGED <<files, rows, view, todo, refs, unread>>
    BY <1>3 DEF SetAside
  <2>2. attempts' \in [Stages -> Nat]
    BY <1>3 DEF SetAside, Typed
  <2>3. phase' \in [Stages -> Phases \ {"record"}]
    BY <1>3 DEF SetAside, Typed, Phases, AtWork
  <2>4. PICK new \in Inputs[s] : input' = [input EXCEPT ![s] = new]
    BY <1>3 DEF SetAside
  <2>5. new \in Seq(Outputs)
    BY OutputsAssumption
  <2> QED
    BY <2>1, <2>2, <2>3, <2>4, <2>5 DEF Typed
<1> QED
  BY <1>1, <1>2, <1>3, StageKeepsTyped DEF Next

(* The record that Record(s) adds. *)
NewRecord(s) ==
    [stage |-> s, path |-> Head(todo[s]).path, content |-> Head(todo[s]).content,
     version |-> NextVersion(s, Head(todo[s]).path)]

(* What Record does: one record more, of the next version of its path. *)
LEMMA Recorded ==
  ASSUME Typed, NEW s \in Stages, Record(s)
  PROVE  /\ phase[s] = "record" /\ todo[s] # <<>> /\ Head(todo[s]) \in Outputs
         /\ phase' = [phase EXCEPT ![s] = "write"]
         /\ todo' = [todo EXCEPT ![s] = Tail(todo[s])] /\ files' = files /\ view' = view
         /\ unread' = unread
         /\ NewRecord(s) \in Records
         /\ rows' = [rows EXCEPT ![s] = Append(rows[s], NewRecord(s))]
         /\ refs' = [refs EXCEPT ![s] = Append(refs[s], NewRecord(s))]
         /\ NewRecord(s).version = 1 + Cardinality(PlacesOf(rows[s], NewRecord(s).path))
<1>1. phase[s] = "record" /\ todo[s] \in Seq(Outputs) /\ todo[s] # <<>>
  BY DEF Record, Typed
<1>2. Head(todo[s]) \in Outputs
  BY <1>1
<1>3. Cardinality(PlacesOf(rows[s], Head(todo[s]).path)) \in Nat
  BY FinitePlaces DEF Typed
<1>4. NextVersion(s, Head(todo[s]).path) = 1 + Cardinality(PlacesOf(rows[s], Head(todo[s]).path))
  BY DEF NextVersion, PlacesOf
<1>5. NewRecord(s) \in Records
  BY <1>2, <1>3, <1>4 DEF NewRecord, Records, Outputs
<1>6. /\ rows' = [rows EXCEPT ![s] = Append(rows[s], NewRecord(s))]
      /\ refs' = [refs EXCEPT ![s] = Append(refs[s], NewRecord(s))]
      /\ todo' = [todo EXCEPT ![s] = Tail(todo[s])]
  BY DEF Record, NewRecord
<1>7. phase' = [phase EXCEPT ![s] = "write"] /\ files' = files /\ view' = view /\ unread' = unread
  BY DEF Record, Goto
<1> QED
  BY <1>1, <1>2, <1>4, <1>5, <1>6, <1>7 DEF NewRecord

(* Only three actions touch the outputs and the records of a stage. *)
LEMMA OutputsMove ==
  ASSUME [Next]_vars
  PROVE  \/ UNCHANGED <<rows, refs, todo>>
         \/ \E s \in Stages : Begin(s) \/ RunAgent(s) \/ Record(s)
BY DEF Next, StageStep, Write, Inspect, Conclude, Recheck, SetAside, Crash, vars

(* A stage stays on its own paths. *)
LEMMA StepKeepsOwned == Typed /\ Owned /\ [Next]_vars => Owned'
<1> SUFFICES ASSUME Typed, Owned, [Next]_vars PROVE Owned'
  OBVIOUS
<1>1. CASE UNCHANGED <<rows, refs, todo>>
  BY <1>1 DEF Owned, MayWrite, MayReturn
<1>2. ASSUME NEW s \in Stages, Begin(s) PROVE Owned'
  BY <1>2 DEF Begin, Owned, MayWrite, MayReturn
<1>3. ASSUME NEW s \in Stages, RunAgent(s) PROVE Owned'
  <2>1. PICK result \in Results(s) : todo' = [todo EXCEPT ![s] = result]
    BY <1>3 DEF RunAgent
  <2>2. \A k \in DOMAIN result : result[k].path \in MayWrite(s)
    <3>1. result \in MayReturn(s)
      BY ResultsMayReturn
    <3> QED
      BY <3>1 DEF MayWrite, ToSet
  <2>3. rows' = rows /\ todo \in [Stages -> Seq(Outputs)]
    BY <1>3 DEF RunAgent, Typed
  <2> QED
    BY <2>1, <2>2, <2>3 DEF Owned
<1>4. ASSUME NEW s \in Stages, Record(s) PROVE Owned'
  <2>1. /\ todo[s] \in Seq(Outputs) /\ todo[s] # <<>> /\ rows[s] \in Seq(Records)
        /\ todo' = [todo EXCEPT ![s] = Tail(todo[s])]
        /\ rows' = [rows EXCEPT ![s] = Append(rows[s], NewRecord(s))]
        /\ todo \in [Stages -> Seq(Outputs)] /\ rows \in [Stages -> Seq(Records)]
    BY <1>4, Recorded DEF Typed
  <2>2. \A k \in DOMAIN todo'[s] : k + 1 \in DOMAIN todo[s] /\ todo'[s][k] = todo[s][k + 1]
    BY <2>1
  <2>3. 1 \in DOMAIN todo[s] /\ Head(todo[s]) = todo[s][1]
    BY <2>1
  <2>4. NewRecord(s).path \in MayWrite(s)
    BY <2>3 DEF NewRecord, Owned
  <2>5. ASSUME NEW k \in DOMAIN rows'[s] PROVE rows'[s][k].path \in MayWrite(s)
    <3>1. NewRecord(s) \in Records
      BY <1>4, Recorded
    <3>2. \/ k \in DOMAIN rows[s] /\ rows'[s][k] = rows[s][k]
          \/ rows'[s][k] = NewRecord(s)
      BY <2>1, <3>1
    <3> QED
      BY <2>4, <3>2 DEF Owned
  <2>6. \A t \in Stages \ {s} : todo'[t] = todo[t] /\ rows'[t] = rows[t]
    BY <2>1
  <2> QED
    BY <2>2, <2>5, <2>6 DEF Owned
<1> QED
  BY <1>1, <1>2, <1>3, <1>4, OutputsMove

(* A record whose version counts those of its path keeps them counted.     *)
LEMMA AppendNumbered ==
  ASSUME NEW q \in Seq(Records), NEW ref \in Records, Counted(q), Ascending(q),
         ref.version = 1 + Cardinality(PlacesOf(q, ref.path))
  PROVE  Counted(Append(q, ref)) /\ Ascending(Append(q, ref))
<1> DEFINE new == Append(q, ref)
<1>1. /\ Len(q) \in Nat /\ new[Len(q) + 1] = ref
      /\ DOMAIN q = 1 .. Len(q) /\ DOMAIN new = 1 .. Len(q) + 1
      /\ \A k \in 1 .. Len(q) : new[k] = q[k] /\ q[k] \in Records
  OBVIOUS
<1> HIDE DEF new
<1>2. \A k \in DOMAIN new : k \in 1 .. Len(q) \/ k = Len(q) + 1
  BY <1>1
<1>3. /\ PlacesOf(new, ref.path) = PlacesOf(q, ref.path) \cup {Len(q) + 1}
      /\ Len(q) + 1 \notin PlacesOf(q, ref.path)
  BY <1>1, <1>2 DEF PlacesOf
<1>4. ASSUME NEW path, path # ref.path PROVE PlacesOf(new, path) = PlacesOf(q, path)
  BY <1>1, <1>2, <1>4 DEF PlacesOf
<1>5. Cardinality(PlacesOf(new, ref.path)) = Cardinality(PlacesOf(q, ref.path)) + 1
  <2>1. IsFiniteSet(PlacesOf(q, ref.path))
    BY FinitePlaces
  <2> QED
    BY <1>3, <2>1, FS_AddElement
<1>6. Cardinality(PlacesOf(q, ref.path)) \in Nat
  BY FinitePlaces
<1>7. \A k \in 1 .. Len(q) : /\ q[k].version \in Nat
                            /\ q[k].version <= Cardinality(PlacesOf(q, q[k].path))
  BY <1>1 DEF Counted, Records
<1>8. ASSUME NEW k \in DOMAIN new
      PROVE  new[k].version <= Cardinality(PlacesOf(new, new[k].path))
  <2>1. CASE k = Len(q) + 1
    BY <1>1, <1>5, <1>6, <2>1
  <2>2. CASE k \in 1 .. Len(q) /\ q[k].path = ref.path
    BY <1>1, <1>5, <1>6, <1>7, <2>2
  <2>3. CASE k \in 1 .. Len(q) /\ q[k].path # ref.path
    <3>1. PlacesOf(new, q[k].path) = PlacesOf(q, q[k].path)
      BY <1>4, <2>3
    <3> QED
      BY <1>1, <1>7, <2>3, <3>1
  <2> QED
    BY <1>2, <2>1, <2>2, <2>3
<1>9. ASSUME NEW k \in DOMAIN new, NEW j \in DOMAIN new, j < k, new[j].path = new[k].path
      PROVE  new[j].version < new[k].version
  <2>1. j \in 1 .. Len(q) /\ new[j] = q[j]
    BY <1>1, <1>9
  <2>2. CASE k = Len(q) + 1
    <3>1. new[k] = ref /\ q[j].path = ref.path
      BY <1>1, <1>9, <2>1, <2>2
    <3>2. q[j].version \in Nat /\ q[j].version <= Cardinality(PlacesOf(q, ref.path))
      BY <1>7, <2>1, <3>1
    <3> QED
      BY <1>6, <2>1, <3>1, <3>2
  <2>3. CASE k \in 1 .. Len(q)
    BY <1>1, <1>9, <2>1, <2>3 DEF Ascending
  <2> QED
    BY <1>2, <2>2, <2>3
<1> QED
  BY <1>8, <1>9 DEF Counted, Ascending, new

(* What is appended to both is at the end. *)
LEMMA AppendEnds ==
  ASSUME NEW q \in Seq(Records), NEW last \in Seq(Records), NEW ref \in Records, EndsWith(q, last)
  PROVE  EndsWith(Append(q, ref), Append(last, ref))
<1> DEFINE new == Append(q, ref)
           end == Append(last, ref)
<1>1. /\ Len(q) \in Nat /\ Len(new) = Len(q) + 1 /\ new[Len(q) + 1] = ref
      /\ \A k \in 1 .. Len(q) : new[k] = q[k]
  OBVIOUS
<1>2. /\ Len(last) \in Nat /\ Len(end) = Len(last) + 1 /\ end[Len(last) + 1] = ref
      /\ DOMAIN last = 1 .. Len(last) /\ DOMAIN end = 1 .. Len(last) + 1
      /\ \A k \in 1 .. Len(last) : end[k] = last[k]
  OBVIOUS
<1> HIDE DEF new, end
<1>3. Len(last) <= Len(q) /\ \A k \in 1 .. Len(last) : last[k] = q[Len(q) - Len(last) + k]
  BY <1>2 DEF EndsWith
<1>4. ASSUME NEW k \in 1 .. Len(last) PROVE end[k] = new[Len(new) - Len(end) + k]
  <2>1. Len(q) - Len(last) + k \in 1 .. Len(q)
    BY <1>1, <1>2, <1>3
  <2>2. Len(new) - Len(end) + k = Len(q) - Len(last) + k
    BY <1>1, <1>2
  <2>3. end[k] = last[k] /\ last[k] = q[Len(q) - Len(last) + k]
    BY <1>2, <1>3
  <2>4. new[Len(q) - Len(last) + k] = q[Len(q) - Len(last) + k]
    BY <1>1, <2>1
  <2> QED
    BY <2>2, <2>3, <2>4
<1>5. end[Len(last) + 1] = new[Len(new) - Len(end) + (Len(last) + 1)]
  <2>1. Len(new) - Len(end) + (Len(last) + 1) = Len(q) + 1
    BY <1>1, <1>2
  <2> QED
    BY <1>1, <1>2, <2>1
<1>6. \A k \in DOMAIN end : k \in 1 .. Len(last) \/ k = Len(last) + 1
  BY <1>2
<1>7. Len(end) <= Len(new)
  BY <1>1, <1>2, <1>3
<1> QED
  BY <1>4, <1>5, <1>6, <1>7 DEF EndsWith, new, end

(* Versions count up. *)
LEMMA StepKeepsNumbered == Typed /\ Numbered /\ [Next]_vars => Numbered'
<1> SUFFICES ASSUME Typed, Numbered, [Next]_vars PROVE Numbered'
  OBVIOUS
<1>1. CASE UNCHANGED <<rows, refs>>
  BY <1>1 DEF Numbered
<1>2. ASSUME NEW s \in Stages, Begin(s) PROVE Numbered'
  <2>1. /\ rows' = rows /\ refs' = [refs EXCEPT ![s] = <<>>]
        /\ refs \in [Stages -> Seq(Records)] /\ rows \in [Stages -> Seq(Records)]
    BY <1>2 DEF Begin, Typed
  <2>2. EndsWith(rows[s], <<>>)
    BY <2>1 DEF EndsWith
  <2>3. \A t \in Stages : refs'[t] = IF t = s THEN <<>> ELSE refs[t]
    BY <2>1
  <2> QED
    BY <2>1, <2>2, <2>3 DEF Numbered
<1>3. ASSUME NEW s \in Stages, RunAgent(s) PROVE Numbered'
  BY <1>1, <1>3 DEF RunAgent
<1>4. ASSUME NEW s \in Stages, Record(s) PROVE Numbered'
  <2>1. /\ rows[s] \in Seq(Records) /\ refs[s] \in Seq(Records) /\ NewRecord(s) \in Records
        /\ rows'[s] = Append(rows[s], NewRecord(s)) /\ refs'[s] = Append(refs[s], NewRecord(s))
        /\ \A t \in Stages \ {s} : rows'[t] = rows[t] /\ refs'[t] = refs[t]
    BY <1>4, Recorded DEF Typed
  <2>2. Counted(rows'[s]) /\ Ascending(rows'[s])
    <3>1. NewRecord(s).version = 1 + Cardinality(PlacesOf(rows[s], NewRecord(s).path))
      BY <1>4, Recorded
    <3> QED
      BY <2>1, <3>1, AppendNumbered DEF Numbered
  <2>3. EndsWith(rows'[s], refs'[s])
    BY <2>1, AppendEnds DEF Numbered
  <2> QED
    BY <2>1, <2>2, <2>3 DEF Numbered
<1> QED
  BY <1>1, <1>2, <1>3, <1>4, OutputsMove

-----------------------------------------------------------------------------
(* The view of a stage *)

(* A step of a stage is its own business, and none that has passed takes   *)
(* one.                                                                    *)
LEMMA StageFrame ==
  ASSUME Typed, NEW s \in Stages, StageStep(s)
  PROVE  /\ phase[s] # "passed" /\ phase'[s] # "waiting"
         /\ \A t \in Stages \ {s} :
                /\ phase'[t] = phase[t] /\ refs'[t] = refs[t] /\ view'[t] = view[t]
                /\ todo'[t] = todo[t] /\ unread'[t] = unread[t]
         /\ ~Begin(s) => view' = view /\ phase[s] # "waiting"
<1>0. /\ phase \in [Stages -> Phases] /\ refs \in [Stages -> Seq(Records)]
      /\ view \in [Stages -> SUBSET Records] /\ todo \in [Stages -> Seq(Outputs)]
      /\ unread \in [Stages -> SUBSET Records]
  BY DEF Typed
<1>1. CASE Begin(s)
  BY <1>0, <1>1 DEF Begin, Goto
<1>2. CASE RunAgent(s)
  BY <1>0, <1>2 DEF RunAgent, Goto, FailAttempt
<1>3. CASE Write(s)
  BY <1>0, <1>3 DEF Write, Goto
<1>4. CASE Record(s)
  BY <1>0, <1>4 DEF Record, Goto
<1>5. CASE Inspect(s)
  BY <1>0, <1>5 DEF Inspect, Goto, FailAttempt
<1>6. CASE Conclude(s)
  BY <1>0, <1>6 DEF Conclude, Goto
<1>7. CASE Recheck(s)
  BY <1>0, <1>7 DEF Recheck, Goto
<1> QED
  BY <1>1, <1>2, <1>3, <1>4, <1>5, <1>6, <1>7 DEF StageStep

(* Nobody else writes where a stage writes. *)
LEMMA PathsApart ==
  ASSUME OwnPaths, NEW s \in Stages, NEW t \in Stages, s # t,
         NEW p \in MayWrite(s), NEW q \in MayWrite(t)
  PROVE  p # q
  BY DEF OwnPaths

(* The newest records of an attempt have the highest versions of all.      *)
LEMMA NewestIsHighest ==
  ASSUME NEW q \in Seq(Records), NEW last \in Seq(Records), Ascending(q), EndsWith(q, last),
         NEW ref \in Newest(last)
  PROVE  /\ ref \in ToSet(q)
         /\ \A other \in ToSet(q) :
                other.path = ref.path => other = ref \/ other.version < ref.version
<1>1. /\ Len(q) \in Nat /\ DOMAIN q = 1 .. Len(q)
      /\ Len(last) \in Nat /\ DOMAIN last = 1 .. Len(last)
  OBVIOUS
<1>2. /\ Len(last) <= Len(q)
      /\ \A k \in 1 .. Len(last) : last[k] = q[Len(q) - Len(last) + k]
  BY <1>1 DEF EndsWith
<1>3. PICK n \in 1 .. Len(last) :
        /\ ref = last[n]
        /\ \A k \in 1 .. Len(last) : last[k].path = ref.path => k <= n
  BY <1>1 DEF Newest
<1>4. PICK m \in 1 .. Len(q) : m = Len(q) - Len(last) + n
  BY <1>1, <1>2
<1>5. ref = q[m]
  BY <1>2, <1>3, <1>4
<1>6. ASSUME NEW j \in 1 .. Len(q), q[j].path = ref.path, j # m
      PROVE  q[j].version < ref.version
  <2>1. CASE j < m
    BY <1>1, <1>5, <1>6, <2>1 DEF Ascending
  <2>2. CASE m < j
    <3>0. j - m + n \in 1 .. Len(last) /\ ~(j - m + n <= n)
      BY <1>1, <1>2, <1>4, <2>2
    <3>1. PICK k \in 1 .. Len(last) : k = j - m + n /\ ~(k <= n)
      BY <3>0
    <3>2. Len(q) - Len(last) + k = j
      BY <1>1, <1>4, <3>1
    <3>3. last[k] = q[j]
      BY <1>2, <3>2
    <3> QED
      BY <1>3, <1>6, <3>1, <3>3
  <2> QED
    BY <1>1, <1>6, <2>1, <2>2
<1>7. \A other \in ToSet(q) : \E j \in 1 .. Len(q) : other = q[j]
  BY <1>1 DEF ToSet
<1>8. ref \in ToSet(q)
  BY <1>1, <1>5 DEF ToSet
<1> QED
  BY <1>5, <1>6, <1>7, <1>8

(* What a stage has recorded last, it hands on. *)
LEMMA NewestAreCollected ==
  ASSUME Typed, Owned, Numbered, OwnPaths, NEW s \in Stages, NEW d \in Upstream(s)
  PROVE  Newest(refs[d]) \subseteq Collected(s)
<1> DEFINE all == FlattenSeq([n \in DOMAIN Deps[s] |-> rows[Deps[s][n]]])
<1>1. d \in Stages /\ Upstream(s) \subseteq Stages
  BY StagesAssumption DEF Upstream, ToSet
<1>2. /\ rows[d] \in Seq(Records) /\ refs[d] \in Seq(Records)
      /\ Ascending(rows[d]) /\ EndsWith(rows[d], refs[d])
  BY <1>1 DEF Typed, Numbered
<1>3. /\ all \in Seq(Records) /\ Collected(s) = Latest(all)
      /\ ToSet(all) = UNION {ToSet(rows[t]) : t \in Upstream(s)}
  BY CollectedRecords
<1> HIDE DEF all
<1> SUFFICES ASSUME NEW ref \in Newest(refs[d]) PROVE ref \in Collected(s)
  OBVIOUS
<1>4. /\ ref \in ToSet(rows[d])
      /\ \A other \in ToSet(rows[d]) :
             other.path = ref.path => other = ref \/ other.version < ref.version
  BY <1>2, NewestIsHighest
<1>5. \A t \in Stages : \A other \in ToSet(rows[t]) : other.path \in MayWrite(t)
  BY DEF Owned, ToSet
<1>6. ASSUME NEW other \in ToSet(all), other.path = ref.path
      PROVE  other = ref \/ other.version < ref.version
  <2>1. PICK t \in Upstream(s) : other \in ToSet(rows[t])
    BY <1>3
  <2>2. t = d
    <3>1. other.path \in MayWrite(t) /\ ref.path \in MayWrite(d)
      BY <1>1, <1>4, <1>5, <2>1
    <3> QED
      BY <1>1, <1>6, <2>1, <3>1, PathsApart
  <2> QED
    BY <1>4, <1>6, <2>1, <2>2
<1>7. ref \in ToSet(all)
  BY <1>3, <1>4
<1> QED
  BY <1>3, <1>6, <1>7, NewerIsLatest

(* What is set aside takes everything that depends on it with it. *)
LEMMA SetAsideClosed ==
  ASSUME NEW x \in Stages, NEW s \in Stages, NEW d \in Upstream(s), d \in ToSetAside(x)
  PROVE  s \in ToSetAside(x)
<1> DEFINE g == [nodes |-> Stages, deps |-> [t \in Stages |-> Upstream(t)]]
<1>1. g.nodes = Stages /\ g.deps[s] = Upstream(s)
  OBVIOUS
<1> HIDE DEF g
<1>2. ToSetAside(x) = {x} \cup DownstreamOf(g, x)
  BY DEF ToSetAside, g
<1>3. ASSUME NEW S \in SUBSET g.nodes, ClosedUnder(g, x, S) PROVE s \in S
  <2>1. d \in S \cup {x}
    BY <1>2, <1>3 DEF DownstreamOf
  <2>2. s \in Dependents(g, S \cup {x})
    BY <1>1, <2>1 DEF Dependents
  <2> QED
    BY <1>3, <2>2 DEF ClosedUnder
<1>4. s \in DownstreamOf(g, x)
  BY <1>1, <1>3 DEF DownstreamOf
<1> QED
  BY <1>2, <1>4

(* What a stage works from stays passed, and in its view. *)
LEMMA StepKeepsHanded ==
  ASSUME OwnPaths, Typed, Owned, Numbered, Handed, [Next]_vars
  PROVE  Handed'
<1>0. \A s \in Stages : Upstream(s) \subseteq Stages /\ s \notin Upstream(s)
  BY StagesAssumption DEF Upstream, ToSet
<1>1. CASE UNCHANGED vars
  BY <1>1 DEF vars, Handed, Upstream, Newest
<1>2. ASSUME NEW x \in Stages, StageStep(x) PROVE Handed'
  <2> SUFFICES ASSUME NEW s \in Stages, phase'[s] # "waiting", NEW d \in Upstream(s)
               PROVE  phase'[d] = "passed" /\ Newest(refs'[d]) \subseteq view'[s]
    BY DEF Handed, Upstream, Newest
  <2>1. d \in Stages /\ d # s
    BY <1>0
  <2>2. CASE s = x /\ Begin(x)
    <3>1. phase[d] = "passed" /\ view'[s] = Collected(s)
      BY <2>2 DEF Begin, Typed
    <3>2. phase'[d] = phase[d] /\ refs'[d] = refs[d]
      BY <1>2, <2>1, <2>2, StageFrame
    <3> QED
      BY <3>1, <3>2, NewestAreCollected
  <2>3. CASE ~(s = x /\ Begin(x))
    <3>1. phase[s] # "waiting" /\ view'[s] = view[s]
      BY <1>2, <2>3, StageFrame
    <3>2. phase[d] = "passed" /\ Newest(refs[d]) \subseteq view[s]
      BY <3>1 DEF Handed
    <3>3. phase'[d] = phase[d] /\ refs'[d] = refs[d]
      BY <1>2, <2>1, <3>2, StageFrame
    <3> QED
      BY <3>1, <3>2, <3>3
  <2> QED
    BY <2>2, <2>3
<1>3. CASE Crash
  <2>1. /\ UNCHANGED <<refs, view>> /\ \A s \in Stages : phase'[s] = Interrupted(phase[s])
    BY <1>3 DEF Crash
  <2>2. Interrupted("waiting") = "waiting" /\ Interrupted("passed") = "passed"
    BY DEF Interrupted, AtWork
  <2> QED
    BY <1>0, <2>1, <2>2 DEF Handed, Upstream, Newest
<1>4. ASSUME NEW x \in Stages, SetAside(x) PROVE Handed'
  <2>1. /\ UNCHANGED <<refs, view>>
        /\ \A t \in Stages : phase'[t] = IF t \in ToSetAside(x) THEN "waiting" ELSE phase[t]
    BY <1>4 DEF SetAside
  <2> SUFFICES ASSUME NEW s \in Stages, phase'[s] # "waiting", NEW d \in Upstream(s)
               PROVE  phase'[d] = "passed" /\ Newest(refs'[d]) \subseteq view'[s]
    BY DEF Handed, Upstream, Newest
  <2>2. s \notin ToSetAside(x) /\ phase[s] # "waiting" /\ d \in Stages
    BY <1>0, <2>1
  <2>3. d \notin ToSetAside(x)
    BY <2>2, SetAsideClosed
  <2> QED
    BY <2>1, <2>2, <2>3 DEF Handed
<1> QED
  BY <1>1, <1>2, <1>3, <1>4 DEF Next

-----------------------------------------------------------------------------
(* The disk, and what the gates read of it *)

(* What is newest after a record is added. *)
LEMMA NewestAppend ==
  ASSUME NEW q \in Seq(Records), NEW new \in Records, NEW ref \in Newest(Append(q, new))
  PROVE  ref = new \/ (ref \in Newest(q) /\ ref.path # new.path)
<1> DEFINE more == Append(q, new)
<1>1. /\ Len(q) \in Nat /\ DOMAIN q = 1 .. Len(q) /\ DOMAIN more = 1 .. Len(q) + 1
      /\ more[Len(q) + 1] = new /\ \A k \in 1 .. Len(q) : more[k] = q[k]
  OBVIOUS
<1>2. PICK n \in DOMAIN more :
        /\ ref = more[n]
        /\ \A k \in DOMAIN more : more[k].path = ref.path => k <= n
  BY DEF Newest
<1> HIDE DEF more
<1>3. CASE n = Len(q) + 1
  BY <1>1, <1>2, <1>3
<1>4. CASE n \in 1 .. Len(q)
  <2>1. ref = q[n] /\ n \in DOMAIN q
    BY <1>1, <1>2, <1>4
  <2>2. ref.path # new.path
    BY <1>1, <1>2, <1>4
  <2>3. \A k \in DOMAIN q : q[k].path = ref.path => k <= n
    BY <1>1, <1>2
  <2> QED
    BY <2>1, <2>2, <2>3 DEF Newest
<1> QED
  BY <1>1, <1>2, <1>3, <1>4

(* What a sequence ends with, it holds. *)
LEMMA EndIsHeld ==
  ASSUME NEW q \in Seq(Records), NEW last \in Seq(Records), EndsWith(q, last)
  PROVE  ToSet(last) \subseteq ToSet(q)
<1>1. /\ Len(q) \in Nat /\ DOMAIN q = 1 .. Len(q)
      /\ Len(last) \in Nat /\ DOMAIN last = 1 .. Len(last)
  OBVIOUS
<1>2. /\ Len(last) <= Len(q)
      /\ \A k \in 1 .. Len(last) : last[k] = q[Len(q) - Len(last) + k]
  BY <1>1 DEF EndsWith
<1>3. ASSUME NEW k \in 1 .. Len(last) PROVE last[k] \in ToSet(q)
  <2>1. Len(q) - Len(last) + k \in DOMAIN q
    BY <1>1, <1>2
  <2> QED
    BY <1>2, <2>1 DEF ToSet
<1> QED
  BY <1>1, <1>3 DEF ToSet

(* The records of an attempt are of the stage's own paths. *)
LEMMA OwnRecords ==
  ASSUME Typed, Owned, Numbered, NEW s \in Stages, NEW ref \in ToSet(refs[s])
  PROVE  ref.path \in MayWrite(s) /\ ref.path \in Paths
<1>1. rows[s] \in Seq(Records) /\ refs[s] \in Seq(Records) /\ EndsWith(rows[s], refs[s])
  BY DEF Typed, Numbered
<1>2. ref \in ToSet(rows[s])
  BY <1>1, EndIsHeld
<1>3. ref.path \in MayWrite(s)
  BY <1>2 DEF Owned, ToSet
<1>4. ref \in Records
  BY <1>1, <1>2 DEF ToSet
<1> QED
  BY <1>3, <1>4 DEF Records

(* The newest of a sequence of records are among them. *)
LEMMA NewestAreRecords ==
  ASSUME NEW q
  PROVE  Newest(q) \subseteq ToSet(q)
BY DEF Newest, ToSet

(* What another stage writes is elsewhere. *)
LEMMA WritesElsewhere ==
  ASSUME OwnPaths, Typed, Owned, Numbered, NEW x \in Stages, Write(x), NEW s \in Stages, s # x,
         NEW p \in MayWrite(s) \cap Paths
  PROVE  files'[p] = files[p]
<1>1. CASE todo[x] = <<>>
  BY <1>1 DEF Write
<1>2. CASE todo[x] # <<>>
  <2>1. todo[x] \in Seq(Outputs) /\ files \in [Paths -> Contents \cup {None}]
    BY DEF Typed
  <2>2. Head(todo[x]) = todo[x][1] /\ 1 \in DOMAIN todo[x]
    BY <1>2, <2>1
  <2>3. Head(todo[x]).path \in MayWrite(x)
    BY <2>2 DEF Owned
  <2>4. Head(todo[x]).path # p
    BY <2>3, PathsApart
  <2>5. files' = [files EXCEPT ![Head(todo[x]).path] = Head(todo[x]).content]
    BY <1>2 DEF Write, Written
  <2> QED
    BY <2>1, <2>4, <2>5
<1> QED
  BY <1>1, <1>2

(* Only Write touches the disk. *)
LEMMA FilesStay ==
  ASSUME NEW x \in Stages, StageStep(x), ~Write(x)
  PROVE  files' = files
BY DEF StageStep, Begin, RunAgent, Record, Inspect, Conclude, Recheck

(* A stage that goes on, with the disk and its records as they were. *)
LEMMA DiskStays ==
  ASSUME NEW s \in Stages, DiskOf(s), refs'[s] = refs[s],
         \A ref \in Newest(refs[s]) : files'[ref.path] = files[ref.path],
         phase'[s] \in Agreeing => phase[s] \in Agreeing,
         phase'[s] = "record" =>
             /\ phase[s] = "record" /\ todo'[s] = todo[s]
             /\ files'[Head(todo[s]).path] = files[Head(todo[s]).path]
  PROVE  DiskOf(s)'
BY DEF DiskOf, Agrees, Newest, Agreeing

(* What a stage does keeps its own outputs on disk. *)
LEMMA StageKeepsDisk ==
  ASSUME OwnPaths, Typed, Owned, Numbered, OnDisk, NEW x \in Stages, StageStep(x)
  PROVE  OnDisk'
<1> SUFFICES ASSUME NEW s \in Stages PROVE DiskOf(s)'
  BY DEF OnDisk
<1>0. /\ DiskOf(s) /\ refs[s] \in Seq(Records) /\ todo[s] \in Seq(Outputs)
      /\ files \in [Paths -> Contents \cup {None}] /\ phase \in [Stages -> Phases]
      /\ phase[s] = "record" => todo[s] # <<>>
  BY DEF OnDisk, Typed
<1>1. CASE s # x
  <2>1. phase'[s] = phase[s] /\ refs'[s] = refs[s] /\ todo'[s] = todo[s]
    BY <1>1, StageFrame
  <2>2. \A ref \in Newest(refs[s]) : files'[ref.path] = files[ref.path]
    BY <1>1, FilesStay, WritesElsewhere, OwnRecords, NewestAreRecords
  <2>3. phase[s] = "record" => files'[Head(todo[s]).path] = files[Head(todo[s]).path]
    <3> SUFFICES ASSUME phase[s] = "record" PROVE files'[Head(todo[s]).path] = files[Head(todo[s]).path]
      OBVIOUS
    <3>1. Head(todo[s]) \in Outputs /\ Head(todo[s]) = todo[s][1] /\ 1 \in DOMAIN todo[s]
      BY <1>0
    <3>2. Head(todo[s]).path \in MayWrite(s) \cap Paths
      BY <3>1 DEF Owned, Outputs
    <3> QED
      BY <1>1, <3>2, FilesStay, WritesElsewhere
  <2> QED
    BY <1>0, <2>1, <2>2, <2>3, DiskStays
<1>2. CASE s = x /\ Begin(x)
  <2>1. refs'[s] = <<>> /\ phase'[s] = "agent"
    BY <1>2 DEF Begin, Goto, Typed
  <2>2. Newest(refs'[s]) = {}
    BY <2>1 DEF Newest
  <2> QED
    BY <2>1, <2>2 DEF DiskOf, Newest
<1>3. CASE s = x /\ Write(x)
  <2>1. phase[s] = "write" /\ refs' = refs /\ todo' = todo
    BY <1>3 DEF Write
  <2>2. CASE todo[s] = <<>>
    <3>1. files' = files /\ phase'[s] = "inspect"
      BY <1>0, <1>3, <2>2 DEF Write, Goto
    <3> QED
      BY <1>0, <2>1, <3>1, DiskStays DEF Agreeing
  <2>3. CASE todo[s] # <<>>
    <3>1. /\ files' = [files EXCEPT ![Head(todo[s]).path] = Head(todo[s]).content]
          /\ phase'[s] = "record"
      BY <1>0, <1>3, <2>3 DEF Write, Goto, Written
    <3>2. Head(todo[s]) \in Outputs
      BY <1>0, <2>3
    <3>3. Agrees(Head(todo[s]))'
      BY <1>0, <2>1, <3>1, <3>2 DEF Agrees, Outputs
    <3>4. ASSUME NEW ref \in Newest(refs[s]), ref.path # Head(todo[s]).path
          PROVE  files'[ref.path] = ref.content
      <4>1. files[ref.path] = ref.content
        BY <1>0, <2>1 DEF DiskOf, Agrees, Agreeing
      <4>2. ref.path \in Paths
        BY OwnRecords, NewestAreRecords
      <4> QED
        BY <1>0, <3>1, <3>4, <4>1, <4>2
    <3> QED
      BY <2>1, <3>1, <3>3, <3>4 DEF DiskOf, Agrees, Newest, Agreeing
  <2> QED
    BY <2>2, <2>3
<1>4. CASE s = x /\ Record(x)
  <2>1. /\ phase[s] = "record" /\ phase'[s] = "write" /\ files' = files
        /\ NewRecord(s) \in Records /\ refs'[s] = Append(refs[s], NewRecord(s))
    BY <1>0, <1>4, Recorded DEF Typed
  <2>2. ASSUME NEW ref \in Newest(refs'[s]) PROVE files'[ref.path] = ref.content
    <3>1. CASE ref = NewRecord(s)
      BY <1>0, <2>1, <3>1 DEF DiskOf, Agrees, NewRecord
    <3>2. CASE ref \in Newest(refs[s]) /\ ref.path # NewRecord(s).path
      <4>1. ref.path # Head(todo[s]).path
        BY <3>2 DEF NewRecord
      <4> QED
        BY <1>0, <2>1, <3>2, <4>1 DEF DiskOf, Agrees
    <3> QED
      BY <1>0, <2>1, <2>2, <3>1, <3>2, NewestAppend
  <2> QED
    BY <2>1, <2>2 DEF DiskOf, Agrees, Newest
<1>5. CASE s = x /\ ~Begin(x) /\ ~Write(x) /\ ~Record(x)
  <2>1. files' = files /\ refs' = refs
    BY <1>5 DEF StageStep, RunAgent, Inspect, Conclude, Recheck
  <2>2. phase[s] \in Agreeing /\ phase'[s] # "record"
    BY <1>0, <1>5
       DEF StageStep, RunAgent, Inspect, Conclude, Recheck, Goto, FailAttempt, Agreeing
  <2> QED
    BY <1>0, <2>1, <2>2, DiskStays
<1> QED
  BY <1>1, <1>2, <1>3, <1>4, <1>5

(* The disk keeps what a stage has recorded. *)
LEMMA StepKeepsDisk ==
  ASSUME OwnPaths, Typed, Owned, Numbered, OnDisk, [Next]_vars
  PROVE  OnDisk'
<1>1. CASE UNCHANGED vars
  BY <1>1 DEF vars, OnDisk, DiskOf, Agrees, Newest
<1>2. CASE Crash
  <2>1. UNCHANGED <<files, refs, todo>> /\ \A s \in Stages : phase'[s] = Interrupted(phase[s])
    BY <1>2 DEF Crash
  <2>2. \A s \in Stages : /\ phase'[s] # "record"
                          /\ phase'[s] \in Agreeing => phase[s] \in Agreeing
    BY <2>1 DEF Interrupted, AtWork, Agreeing
  <2> QED
    BY <2>1, <2>2, DiskStays DEF OnDisk
<1>3. ASSUME NEW x \in Stages, SetAside(x) PROVE OnDisk'
  <2>1. /\ UNCHANGED <<files, refs, todo>>
        /\ \A s \in Stages : phase'[s] = "waiting" \/ phase'[s] = phase[s]
    BY <1>3 DEF SetAside
  <2> QED
    BY <2>1, DiskStays DEF OnDisk, Agreeing
<1> QED
  BY <1>1, <1>2, <1>3, StageKeepsDisk DEF Next

(* A stage that goes on, with its files and what is unread as they were. *)
LEMMA ScreenStays ==
  ASSUME NEW s \in Stages, ScreenOf(s), refs'[s] = refs[s],
         \A ref \in ToSet(refs[s]) : files'[ref.path] = files[ref.path],
         phase'[s] = "inspect" => phase[s] = "inspect" /\ unread'[s] = unread[s],
         phase'[s] \in {"blocked", "recheck", "passed"} =>
             phase[s] \in {"blocked", "recheck", "passed"}
  PROVE  ScreenOf(s)'
BY DEF ScreenOf, Clean, ToSet

(* What a stage does keeps its own outputs screened. *)
LEMMA StageKeepsScreened ==
  ASSUME OwnPaths, Typed, Owned, Numbered, Screened, NEW x \in Stages, StageStep(x)
  PROVE  Screened'
<1> SUFFICES ASSUME NEW s \in Scanned PROVE ScreenOf(s)'
  BY DEF Screened
<1>0. /\ s \in Stages /\ ScreenOf(s) /\ phase \in [Stages -> Phases]
      /\ refs[s] \in Seq(Records) /\ unread \in [Stages -> SUBSET Records]
  BY StagesAssumption DEF Screened, Typed
<1>1. CASE s # x
  <2>1. phase'[s] = phase[s] /\ refs'[s] = refs[s] /\ unread'[s] = unread[s]
    BY <1>0, <1>1, StageFrame
  <2>2. \A ref \in ToSet(refs[s]) : files'[ref.path] = files[ref.path]
    BY <1>0, <1>1, FilesStay, WritesElsewhere, OwnRecords
  <2> QED
    BY <1>0, <2>1, <2>2, ScreenStays
<1>2. CASE s = x /\ (Begin(x) \/ RunAgent(x) \/ Record(x))
  <2>1. phase'[s] \notin {"inspect", "blocked", "recheck", "passed"}
    BY <1>0, <1>2 DEF Begin, RunAgent, Record, Goto, FailAttempt
  <2> QED
    BY <2>1 DEF ScreenOf
<1>3. CASE s = x /\ Write(x)
  <2>1. CASE todo[s] = <<>>
    <3>1. phase'[s] = "inspect" /\ unread'[s] = ToSet(refs[s]) /\ refs' = refs
      BY <1>0, <1>3, <2>1 DEF Write, Goto, Inspected
    <3> QED
      BY <3>1 DEF ScreenOf, ToSet
  <2>2. CASE todo[s] # <<>>
    <3>1. phase'[s] = "record"
      BY <1>0, <1>3, <2>2 DEF Write, Goto
    <3> QED
      BY <3>1 DEF ScreenOf
  <2> QED
    BY <2>1, <2>2
<1>4. CASE s = x /\ Inspect(x)
  <2>1. /\ phase[s] \in {"inspect", "recheck"} /\ files' = files /\ refs' = refs
    BY <1>4 DEF Inspect
  <2>2. PICK ref \in unread[s] :
          \/ phase'[s] \notin {"inspect", "blocked", "recheck", "passed"}
          \/ Clean(ref) /\ unread'[s] = unread[s] \ {ref} /\ phase' = phase
    BY <1>0, <1>4 DEF Inspect, Goto, FailAttempt, Clean
  <2> QED
    BY <1>0, <2>1, <2>2 DEF ScreenOf, Clean, ToSet
<1>5. CASE s = x /\ Conclude(x)
  <2>1. /\ phase[s] \in {"inspect", "recheck"} /\ files' = files /\ refs' = refs
        /\ unread[s] = {} /\ phase'[s] # "inspect"
    BY <1>0, <1>5 DEF Conclude, Goto
  <2>2. \A ref \in ToSet(refs[s]) : Clean(ref)
    BY <1>0, <2>1 DEF ScreenOf
  <2> QED
    BY <2>1, <2>2 DEF ScreenOf, Clean, ToSet
<1>6. CASE s = x /\ Recheck(x)
  <2>1. phase[s] = "blocked" /\ phase'[s] = "recheck" /\ files' = files /\ refs' = refs
    BY <1>0, <1>6 DEF Recheck, Goto
  <2> QED
    BY <1>0, <2>1, ScreenStays
<1> QED
  BY <1>1, <1>2, <1>3, <1>4, <1>5, <1>6 DEF StageStep

(* What the gates have let pass stays as they have read it. *)
LEMMA StepKeepsScreened ==
  ASSUME OwnPaths, Typed, Owned, Numbered, Screened, [Next]_vars
  PROVE  Screened'
<1>0. Scanned \subseteq Stages
  BY StagesAssumption
<1>1. CASE UNCHANGED vars
  BY <1>1 DEF vars, Screened, ScreenOf, Clean, ToSet
<1>2. CASE Crash
  <2>1. /\ UNCHANGED <<files, refs, unread>>
        /\ \A s \in Stages : phase'[s] = Interrupted(phase[s])
    BY <1>2 DEF Crash
  <2>2. \A s \in Stages : /\ phase'[s] # "inspect"
                          /\ phase'[s] \in {"blocked", "recheck", "passed"} =>
                                 phase[s] \in {"blocked", "recheck", "passed"}
    BY <2>1 DEF Interrupted, AtWork
  <2> QED
    BY <1>0, <2>1, <2>2, ScreenStays DEF Screened
<1>3. ASSUME NEW x \in Stages, SetAside(x) PROVE Screened'
  <2>1. /\ UNCHANGED <<files, refs, unread>>
        /\ \A s \in Stages : phase'[s] = "waiting" \/ phase'[s] = phase[s]
    BY <1>3 DEF SetAside
  <2> QED
    BY <1>0, <2>1, ScreenStays DEF Screened
<1> QED
  BY <1>1, <1>2, <1>3, StageKeepsScreened DEF Next

-----------------------------------------------------------------------------
(* The theorems *)

(* The invariants hold at every step. *)
LEMMA ArtifactsCorrect ==
  ASSUME OwnPaths
  PROVE  Spec => [](Typed /\ Owned /\ Numbered /\ Handed /\ OnDisk /\ Screened)
<1> DEFINE Inv == Typed /\ Owned /\ Numbered /\ Handed /\ OnDisk /\ Screened
<1>1. Init => Inv
  <2> SUFFICES ASSUME Init PROVE Inv
    OBVIOUS
  <2>1. Typed
    BY TypedAtFirst
  <2>2. \A s \in Stages : /\ rows[s] = <<>> /\ refs[s] = <<>> /\ todo[s] = <<>>
                          /\ phase[s] = "waiting"
    BY DEF Init
  <2>3. Counted(<<>>) /\ Ascending(<<>>) /\ EndsWith(<<>>, <<>>)
    BY DEF Counted, Ascending, EndsWith
  <2>4. Owned /\ Numbered
    BY <2>2, <2>3 DEF Owned, Numbered
  <2>5. Handed /\ OnDisk
    BY <2>2 DEF Handed, OnDisk, DiskOf, Agreeing
  <2>6. Screened
    BY <2>2, StagesAssumption DEF Screened, ScreenOf
  <2> QED
    BY <2>1, <2>4, <2>5, <2>6
<1>2. Inv /\ [Next]_vars => Inv'
  <2> SUFFICES ASSUME Inv, [Next]_vars PROVE Inv'
    OBVIOUS
  <2>1. Typed' /\ Owned' /\ Numbered'
    BY StepKeepsTyped, StepKeepsOwned, StepKeepsNumbered
  <2>2. Handed' /\ OnDisk' /\ Screened'
    BY StepKeepsHanded, StepKeepsDisk, StepKeepsScreened
  <2> QED
    BY <2>1, <2>2
<1> QED
  BY <1>1, <1>2, PTL DEF Spec

(* What an agent was handed is the newest output of every dependency, if   *)
(* no two stages write the same path (executor.py:436-440).                *)
THEOREM ViewIsCurrentAlways ==
  ASSUME OwnPaths
  PROVE  Spec => []ViewIsCurrent
<1>1. Handed => ViewIsCurrent
  BY DEF Handed, ViewIsCurrent
<1> QED
  BY <1>1, ArtifactsCorrect, PTL

(* What a stage waits or has passed with stays on disk as it was recorded, *)
(* if no two stages write the same path (executor.py:446-465).             *)
THEOREM FilesAgreeAlways ==
  ASSUME OwnPaths
  PROVE  Spec => []FilesAgree
<1>1. OnDisk => FilesAgree
  BY DEF OnDisk, DiskOf, Agrees, Agreeing, FilesAgree
<1> QED
  BY <1>1, ArtifactsCorrect, PTL

(* Nothing that a guardrail forbids is part of the output that a stage     *)
(* passed with, if no two stages write the same path (guardrails.py:76).   *)
THEOREM ForbiddenNeverPassesAlways ==
  ASSUME OwnPaths
  PROVE  Spec => []ForbiddenNeverPasses
<1>1. OnDisk /\ Screened => ForbiddenNeverPasses
  <2> SUFFICES ASSUME OnDisk, Screened, NEW s \in Scanned, phase[s] = "passed",
                      NEW ref \in Newest(refs[s])
               PROVE  ref.content \notin Forbidden
    BY DEF ForbiddenNeverPasses
  <2>1. s \in Stages /\ ref \in ToSet(refs[s])
    BY StagesAssumption, NewestAreRecords
  <2>2. files[ref.path] = ref.content
    BY <2>1 DEF OnDisk, DiskOf, Agrees, Agreeing
  <2>3. files[ref.path] \notin Forbidden
    BY <2>1 DEF Screened, ScreenOf, Clean
  <2> QED
    BY <2>2, <2>3
<1> QED
  BY <1>1, ArtifactsCorrect, PTL
=============================================================================
