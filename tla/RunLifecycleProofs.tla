------------------------- MODULE RunLifecycleProofs -------------------------
(***************************************************************************)
(* What follows from the promises alone, for every graph and every gate.   *)
(***************************************************************************)
EXTENDS RunLifecycle, TLAPS

Graphs == [nodes : SUBSET Stages, deps : [Stages -> SUBSET Stages]]

Lives == {"todo", "working", "waiting", "passed", "failed", "skipped"}

(* A pass is not set aside: what has passed has been started since. *)
Earned ==
    /\ life \in [Stages -> Lives]
    /\ \A s \in Stages : s \in redo => life[s] # "passed"
    /\ PassedRestsOnPassed

(* Whatever depends on s, or on what is downstream of s, is downstream. *)
LEMMA DownstreamIsClosed ==
  ASSUME NEW g, NEW s, NEW t \in g.nodes, NEW d \in g.deps[t],
         d = s \/ d \in DownstreamOf(g, s)
  PROVE  t \in DownstreamOf(g, s)
<1> SUFFICES ASSUME NEW S \in SUBSET g.nodes, ClosedUnder(g, s, S) PROVE t \in S
  BY DEF DownstreamOf
<1>1. d \in S \cup {s}
  BY DEF DownstreamOf
<1> QED
  BY <1>1 DEF ClosedUnder, Dependents

(* Only a stage that has not passed, and stays so, is touched on its own. *)
LEMMA OneStageMoves ==
  ASSUME Graph \in Graphs, Earned, NEW s \in Stages, NEW what \in Lives,
         life[s] # "passed", Become(s, what), redo' \subseteq redo,
         what = "passed" => DependenciesPassed(s) /\ s \notin redo
  PROVE  Earned'
<1>1. life' \in [Stages -> Lives] /\ life'[s] = what
      /\ \A t \in Stages \ {s} : life'[t] = life[t]
  BY DEF Earned, Become
<1>2. \A t \in Stages : t \in redo' => life'[t] # "passed"
  BY <1>1 DEF Earned, Become
<1>3. ASSUME NEW t \in Graph.nodes, life'[t] = "passed", NEW d \in Graph.deps[t]
      PROVE  life'[d] = "passed"
  <2>1. t \in Stages /\ d \in Stages
    BY DEF Graphs
  <2>2. life[d] = "passed"
    BY <1>1, <1>3, <2>1 DEF Earned, PassedRestsOnPassed, DependenciesPassed
  <2> QED
    BY <1>1, <2>1, <2>2
<1> QED
  BY <1>1, <1>2, <1>3 DEF Earned, PassedRestsOnPassed, DependenciesPassed

(* Setting s aside takes along every pass that rests on it. *)
LEMMA SetAsideKeepsEarned ==
  ASSUME Graph \in Graphs, Earned, NEW s \in Stages, SetAside(s)
  PROVE  Earned'
<1> DEFINE hit == {s} \cup {d \in DownstreamOf(Graph, s) : ~Untouched(d)}
<1>1. /\ life' = [d \in Stages |-> IF d \in hit THEN "todo" ELSE life[d]]
      /\ redo' = redo \cup hit
  BY DEF SetAside
<1>2. hit \subseteq Stages
  BY DEF DownstreamOf, Graphs
<1> HIDE DEF hit
<1>3. life' \in [Stages -> Lives] 
      /\ \A t \in Stages : t \in redo' => life'[t] # "passed"
  BY <1>1, <1>2 DEF Earned, Lives
<1>4. ASSUME NEW t \in Graph.nodes, life'[t] = "passed", NEW d \in Graph.deps[t]
      PROVE  life'[d] = "passed"
  <2>1. t \in Stages /\ d \in Stages
    BY DEF Graphs
  <2>2. t \notin hit /\ life[t] = "passed"
    BY <1>1, <1>4, <2>1
  <2>3. life[d] = "passed"
    BY <2>2 DEF Earned, PassedRestsOnPassed, DependenciesPassed
  <2>4. d \notin hit
    BY <2>2, DownstreamIsClosed DEF hit, Untouched
  <2> QED
    BY <1>1, <2>1, <2>3, <2>4
<1> QED
  BY <1>3, <1>4 DEF Earned, PassedRestsOnPassed, DependenciesPassed

(* What has passed rests on what has passed, whatever is granted, set      *)
(* aside, failed or skipped.                                               *)
THEOREM PassedRestsAlways ==
  ASSUME Graph \in Graphs
  PROVE  Spec => []PassedRestsOnPassed
<1>1. Init => Earned
  BY DEF Init, Earned, Lives, PassedRestsOnPassed, Graphs
<1>2. Earned /\ [Next]_lifeVars => Earned'
  <2> SUFFICES ASSUME Earned, [Next]_lifeVars PROVE Earned'
    OBVIOUS
  <2>1. ASSUME NEW s \in Stages, StageMoves(s) PROVE Earned'
    <3>1. Open(s) => life[s] # "passed"
      BY DEF Open, Earned
    <3>2. CASE Begin(s) \/ Wait(s) \/ Pass(s) \/ Fail(s) \/ Skip(s)
      BY <3>1, <3>2, OneStageMoves DEF Begin, Wait, Pass, Fail, Skip, Lives
    <3> QED
      BY <2>1, <3>2, SetAsideKeepsEarned DEF StageMoves
  <2>2. CASE UNCHANGED <<life, redo>>
    BY <2>2 DEF Earned, PassedRestsOnPassed, DependenciesPassed
  <2> QED
    BY <2>1, <2>2 DEF Next, Ask, Grant, Report, lifeVars
<1> QED
  BY <1>1, <1>2, PTL DEF Spec, Earned
=============================================================================
