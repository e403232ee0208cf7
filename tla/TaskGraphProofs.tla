---------------------------- MODULE TaskGraphProofs ----------------------------
(***************************************************************************)
(* The loops of the TaskGraph compute what they are meant to, for every    *)
(* graph and every order of its stages: the depth-first search accepts the *)
(* graphs without a cycle, the layers come in the order of dependence, and *)
(* downstream_of finds the least closed set, which rollbacks, re-planning  *)
(* and failures rely on to reach everything that depends on a stage.       *)
(***************************************************************************)
EXTENDS TaskGraphBuild, TLAPS, SequenceTheorems

(* The result never leaves the downstream stages.  While a pass has found  *)
(* nothing, each stage it has looked at and that is reached is known; once *)
(* a whole pass has found nothing, the result is closed.                   *)
Progress ==
    /\ target \in g.nodes
    /\ result \subseteq DownstreamOf(g, target)
    /\ pc \notin {"downstream", "answered"} => changed
    /\ pc = "downstream" /\ ~changed =>
          \A s \in g.nodes \ todo : Reached(s) => s \in result
    /\ pc = "answered" => ClosedUnder(g, target, result)

(* What is reached from the result, or from s itself, is downstream of s.  *)
LEMMA ReachedIsDownstream ==
  ASSUME NEW h, NEW s \in h.nodes, NEW R \in SUBSET DownstreamOf(h, s), NEW t \in h.nodes,
         s \in h.deps[t] \/ R \cap h.deps[t] # {}
  PROVE  t \in DownstreamOf(h, s)
<1> SUFFICES ASSUME NEW S \in SUBSET h.nodes, ClosedUnder(h, s, S) PROVE t \in S
  BY DEF DownstreamOf
<1>1. R \subseteq S
  BY DEF DownstreamOf
<1> QED
  BY <1>1 DEF ClosedUnder, Dependents

(* A closed part of the downstream stages is all of them. *)
LEMMA ClosedIsAll ==
  ASSUME NEW h, NEW s, NEW R \in SUBSET DownstreamOf(h, s), ClosedUnder(h, s, R)
  PROVE  R = DownstreamOf(h, s)
  BY DEF DownstreamOf

(* Every step of the three loops keeps the progress made. *)
LEMMA StepKeepsProgress == Progress /\ [Next]_vars => Progress'
<1> SUFFICES ASSUME Progress, [Next]_vars PROVE Progress'
  OBVIOUS
<1>1. ASSUME UNCHANGED <<g, target, result, todo, changed>>, pc' \notin {"downstream", "answered"},
             pc \notin {"downstream", "answered"}
      PROVE  Progress'
  BY <1>1 DEF Progress
<1>2. CASE Validate \/ Leave \/ Accept \/ AddLayer
  BY <1>1, <1>2 DEF Validate, Leave, Accept, AddLayer, searchVars, layerVars, downVars
<1>3. CASE \E s \in g.nodes : Visit(s) \/ Dependency(s)
  BY <1>1, <1>3 DEF Visit, Dependency, searchVars, layerVars, downVars
<1>4. CASE UNCHANGED vars
  BY <1>4 DEF vars, downVars, Progress, Reached
<1>5. CASE LayersFound
  BY <1>5 DEF LayersFound, downVars, Progress
<1>6. CASE NextPass
  <2>1. CASE changed
    BY <1>6, <2>1 DEF NextPass, Progress
  <2>2. CASE ~changed
    <3>1. /\ pc' = "answered" /\ UNCHANGED <<g, target, result, changed>>
          /\ \A s \in g.nodes : Reached(s) => s \in result
      BY <1>6, <2>2 DEF NextPass, Progress
    <3>2. ClosedUnder(g, target, result)
      BY <3>1 DEF ClosedUnder, Dependents, Reached
    <3> QED
      BY <3>1, <3>2 DEF Progress
  <2> QED
    BY <2>1, <2>2
<1>7. ASSUME NEW s \in g.nodes, Look(s) PROVE Progress'
  <2>1. /\ pc = "downstream" /\ pc' = pc /\ UNCHANGED <<g, target>>
        /\ todo' = todo \ {s}
        /\ result' = IF Reached(s) THEN result \cup {s} ELSE result
        /\ changed' = (changed \/ Noticed(s))
    BY <1>7 DEF Look
  <2>2. Reached(s) => s \in DownstreamOf(g, target)
    BY ReachedIsDownstream DEF Progress, Reached
  <2>3. result' \subseteq DownstreamOf(g, target)
    BY <2>1, <2>2 DEF Progress
  <2>4. ASSUME ~changed', NEW r \in g.nodes \ todo', Reached(r)' PROVE r \in result'
    <3>1. ~changed /\ result' = result
      BY <2>1, <2>4 DEF Noticed
    <3>2. Reached(r)
      BY <2>1, <2>4, <3>1 DEF Reached
    <3> QED
      BY <2>1, <2>4, <3>1, <3>2 DEF Progress
  <2> QED
    BY <2>1, <2>3, <2>4 DEF Progress
<1> QED
  BY <1>2, <1>3, <1>4, <1>5, <1>6, <1>7 DEF Next

(* downstream_of finds exactly the stages that transitively depend on its  *)
(* argument, in whatever order it looks at them (models.py:186-187).       *)
THEOREM DownstreamFound == Spec => []FindsDownstream
<1>1. Init => Progress
  BY DEF Init, Progress
<1>2. Progress => FindsDownstream
  BY ClosedIsAll DEF Progress, FindsDownstream
<1> QED
  BY <1>1, <1>2, StepKeepsProgress, PTL DEF Spec

-----------------------------------------------------------------------------
(* _assert_acyclic *)

Black == {s \in g.nodes : color[s] = "black"}
Depth == Len(visits)

(* Types, and what the calls of visit() under way have done: the gray      *)
(* stages are those being visited, each of them once; each depends on all  *)
(* that are visited below it; and what it has left behind of its           *)
(* dependencies is black, the one visited next apart.                      *)
Search ==
    /\ g \in Graphs
    /\ pc \in {"validate", "search", "rejected", "layers", "stuck", "downstream", "answered"}
    /\ color \in [g.nodes -> {"white", "gray", "black"}]
    /\ visits \in Seq([sid : g.nodes, deps : SUBSET Stages])
    /\ pc \notin {"validate", "rejected"} => KnownDependencies(g)
    /\ pc = "validate" => visits = <<>> /\ \A s \in g.nodes : color[s] = "white"
    /\ \A s \in g.nodes : color[s] = "gray" => \E n \in 1 .. Depth : visits[n].sid = s
    /\ \A n \in 1 .. Depth :
          /\ color[visits[n].sid] = "gray"
          /\ visits[n].deps \subseteq g.deps[visits[n].sid]
          /\ \A d \in g.deps[visits[n].sid] \ visits[n].deps :
                d \in Black \/ (n < Depth /\ d = visits[n + 1].sid)
    /\ \A m, n \in 1 .. Depth : m < n =>
          /\ visits[m].sid # visits[n].sid
          /\ visits[m].sid \in DownstreamOf(g, visits[n].sid)
    /\ \A s \in Black : g.deps[s] \subseteq Black
    /\ \A s \in Black : s \notin DownstreamOf(g, s)
    /\ AcceptsTheValid

(* What depends on s is downstream of it. *)
LEMMA DependentIsDownstream ==
  ASSUME NEW h, NEW s, NEW t \in h.nodes, s \in h.deps[t]
  PROVE  t \in DownstreamOf(h, s)
  BY DEF DownstreamOf, ClosedUnder, Dependents

(* Downstream of what is downstream is downstream. *)
LEMMA DownstreamOfDownstream ==
  ASSUME NEW h, NEW s, NEW t \in DownstreamOf(h, s), NEW u \in DownstreamOf(h, t)
  PROVE  u \in DownstreamOf(h, s)
<1> SUFFICES ASSUME NEW S \in SUBSET h.nodes, ClosedUnder(h, s, S) PROVE u \in S
  BY DEF DownstreamOf
<1>1. t \in S
  BY DEF DownstreamOf
<1>2. ClosedUnder(h, t, S)
  BY <1>1 DEF ClosedUnder, Dependents
<1> QED
  BY <1>2 DEF DownstreamOf

(* A stage is on no cycle if its dependencies belong to a set that has all *)
(* of its own and does not have the stage.                                 *)
LEMMA AboveAClosedSet ==
  ASSUME NEW h, NEW B, NEW s \in h.nodes \ B, h.deps[s] \subseteq B,
         \A t \in B : h.deps[t] \subseteq B
  PROVE  s \notin DownstreamOf(h, s)
<1> DEFINE Rest == {t \in h.nodes : t \notin B /\ t # s}
<1>1. ClosedUnder(h, s, Rest)
  BY DEF ClosedUnder, Dependents
<1> QED
  BY <1>1 DEF DownstreamOf

(* What visit() and its return do to the calls under way. *)
LEMMA Called ==
  ASSUME NEW S, NEW q \in Seq(S), NEW e \in S
  PROVE  /\ Append(q, e) \in Seq(S)
         /\ Len(Append(q, e)) = Len(q) + 1
         /\ \A n \in 1 .. Len(q) : Append(q, e)[n] = q[n]
         /\ Append(q, e)[Len(q) + 1] = e
  OBVIOUS

(* What is left when the innermost call returns. *)
LEMMA Returned ==
  ASSUME NEW S, NEW q \in Seq(S), q # <<>>
  PROVE  LET outer == SubSeq(q, 1, Len(q) - 1) IN
         /\ outer \in Seq(S)
         /\ Len(outer) = Len(q) - 1
         /\ \A n \in 1 .. Len(q) - 1 : outer[n] = q[n]
         /\ Len(q) \in Nat \ {0} /\ q[Len(q)] \in S
<1>1. Len(q) \in Nat \ {0} /\ q[Len(q)] \in S /\ \A n \in 1 .. Len(q) - 1 : q[n] \in S
  BY EmptySeq, ElementOfSeq
<1>2. /\ SubSeq(q, 1, Len(q) - 1) \in Seq(S)
      /\ Len(SubSeq(q, 1, Len(q) - 1)) = Len(q) - 1
      /\ \A n \in 1 .. Len(q) - 1 : SubSeq(q, 1, Len(q) - 1)[n] = q[n]
  <2> DEFINE m == Len(q) - 1
  <2>1. m \in Nat
    BY <1>1
  <2>2. \A n \in 1 .. m : q[n] \in S
    BY <1>1
  <2> HIDE DEF m
  <2>3. /\ SubSeq(q, 1, m) \in Seq(S)
        /\ Len(SubSeq(q, 1, m)) = IF 1 <= m THEN m - 1 + 1 ELSE 0
        /\ \A n \in 1 .. m - 1 + 1 : SubSeq(q, 1, m)[n] = q[1 + n - 1]
    BY <2>1, <2>2, SubSeqProperties
  <2>4. /\ SubSeq(q, 1, m) \in Seq(S) /\ Len(SubSeq(q, 1, m)) = m
        /\ \A n \in 1 .. m : SubSeq(q, 1, m)[n] = q[n]
    BY <2>1, <2>3
  <2> QED
    BY <2>4 DEF m
<1> QED
  BY <1>1, <1>2

(* What the search knows of its innermost visit. *)
LEMMA InnermostVisit ==
  ASSUME Search, visits # <<>>
  PROVE  /\ Depth \in Nat \ {0} /\ Innermost = visits[Depth]
         /\ Innermost \in [sid : g.nodes, deps : SUBSET Stages]
         /\ color[Innermost.sid] = "gray" /\ Innermost.deps \subseteq g.deps[Innermost.sid]
         /\ \A d \in g.deps[Innermost.sid] \ Innermost.deps : d \in Black
         /\ \A n \in 1 .. Depth - 1 : visits[n].sid \in DownstreamOf(g, Innermost.sid)
<1>1. visits \in Seq([sid : g.nodes, deps : SUBSET Stages])
  BY DEF Search
<1>2. Depth \in Nat \ {0} /\ Innermost \in [sid : g.nodes, deps : SUBSET Stages]
  BY <1>1, Returned DEF Depth, Innermost
<1>3. Innermost = visits[Depth]
  BY DEF Innermost, Depth
<1> QED
  BY <1>2, <1>3 DEF Search

(* A dependency of the innermost visit that is itself being visited closes *)
(* a cycle.                                                                *)
LEMMA GrayIsCircular ==
  ASSUME Search, visits # <<>>, NEW d \in g.nodes, d \in Innermost.deps, color[d] = "gray"
  PROVE  ~Valid(g)
<1>1. Depth \in Nat \ {0} /\ Innermost = visits[Depth]
  BY InnermostVisit
<1>2. d \in g.deps[Innermost.sid] /\ Innermost.sid \in g.nodes
  BY InnermostVisit
<1>3. Innermost.sid \in DownstreamOf(g, d)
  BY <1>2, DependentIsDownstream
<1>4. PICK n \in 1 .. Depth : visits[n].sid = d
  BY DEF Search
<1>5. d = Innermost.sid \/ d \in DownstreamOf(g, Innermost.sid)
  BY <1>1, <1>4 DEF Search
<1>6. d \in DownstreamOf(g, d)
  BY <1>3, <1>5, DownstreamOfDownstream
<1> QED
  BY <1>6 DEF Valid, Acyclic

(* visit(dep) goes one call deeper. *)
LEMMA DeeperKeepsSearch ==
  ASSUME Search, pc = "search", visits # <<>>, NEW d \in g.nodes, d \in Innermost.deps,
         color[d] = "white", Follow(d), UNCHANGED <<g, pc>>
  PROVE  Search'
<1> DEFINE Calls == [sid : g.nodes, deps : SUBSET Stages]
           N == Depth
           top == [Innermost EXCEPT !.deps = @ \ {d}]
<1>1. /\ visits \in Seq(Calls) /\ N \in Nat \ {0} /\ Innermost = visits[N] /\ Innermost \in Calls
      /\ g \in Graphs /\ g.deps[d] \subseteq Stages
  <2>1. visits \in Seq(Calls) /\ g \in Graphs
    BY DEF Search
  <2>2. N \in Nat \ {0} /\ Innermost = visits[N] /\ Innermost \in Calls
    BY InnermostVisit
  <2> QED
    BY <2>1, <2>2 DEF Graphs
<1>2. /\ top \in Calls /\ top.sid = Innermost.sid /\ top.deps = Innermost.deps \ {d}
      /\ Frame(d) \in Calls /\ Frame(d).sid = d /\ Frame(d).deps = g.deps[d]
  BY <1>1 DEF Frame
<1> DEFINE less == Append(Outer, top)
<1>3. /\ less \in Seq(Calls) /\ Len(less) = N
      /\ \A n \in 1 .. N - 1 : less[n] = visits[n]
      /\ less[N] = top
  <2>1. /\ Outer \in Seq(Calls) /\ Len(Outer) = N - 1
        /\ \A n \in 1 .. N - 1 : Outer[n] = visits[n]
    BY <1>1, Returned DEF Outer, Depth
  <2> HIDE DEF top, Calls, N
  <2> QED
    BY <1>1, <1>2, <2>1, Called
<1>4. /\ visits' = Append(less, Frame(d))
      /\ color' = [color EXCEPT ![d] = "gray"]
  BY DEF Follow, Without
<1>5. /\ visits' \in Seq(Calls) /\ Depth' = N + 1
      /\ \A n \in 1 .. N - 1 : visits'[n] = visits[n]
      /\ visits'[N] = top /\ visits'[N + 1] = Frame(d)
  <2> HIDE DEF top, Calls, N, less
  <2>1. /\ Append(less, Frame(d)) \in Seq(Calls)
        /\ Len(Append(less, Frame(d))) = Len(less) + 1
        /\ \A n \in 1 .. Len(less) : Append(less, Frame(d))[n] = less[n]
        /\ Append(less, Frame(d))[Len(less) + 1] = Frame(d)
    BY <1>2, <1>3, Called
  <2> QED
    BY <1>1, <1>3, <1>4, <2>1 DEF Depth
<1> HIDE DEF Calls, N, top, less
<1>6. \A n \in 1 .. N : visits'[n].sid = visits[n].sid
  BY <1>1, <1>2, <1>5
<1>7. /\ color' \in [g.nodes -> {"white", "gray", "black"}]
      /\ Black' = Black /\ color'[d] = "gray"
      /\ \A s \in g.nodes \ {d} : color'[s] = color[s]
  BY <1>4 DEF Search, Black
<1>8. d # Innermost.sid /\ \A n \in 1 .. N : visits[n].sid # d
  BY <1>1 DEF Search, N
<1>9. \A n \in 1 .. N : visits[n].sid \in g.nodes /\ visits[n].sid \in DownstreamOf(g, d)
  <2>1. d \in g.deps[Innermost.sid] /\ Innermost.sid \in g.nodes
    BY <1>1 DEF Search, N, Calls
  <2>2. Innermost.sid \in DownstreamOf(g, d)
    BY <2>1, DependentIsDownstream
  <2>3. ASSUME NEW n \in 1 .. N PROVE visits[n].sid \in g.nodes /\ visits[n].sid \in DownstreamOf(g, d)
    <3>1. visits[n] \in Calls
      BY <1>1, <2>3 DEF N, Depth
    <3>2. n = N \/ visits[n].sid \in DownstreamOf(g, Innermost.sid)
      BY <1>1 DEF Search, N
    <3> QED
      BY <1>1, <2>2, <3>1, <3>2, DownstreamOfDownstream DEF Calls
  <2> QED
    BY <2>3
<1>10. \A s \in g.nodes : color'[s] = "gray" => \E n \in 1 .. Depth' : visits'[n].sid = s
  <2> SUFFICES ASSUME NEW s \in g.nodes, color'[s] = "gray" PROVE \E n \in 1 .. Depth' : visits'[n].sid = s
    OBVIOUS
  <2>1. CASE s = d
    BY <1>1, <1>2, <1>5, <2>1
  <2>2. CASE s # d
    <3>1. PICK n \in 1 .. N : visits[n].sid = s
      BY <1>7, <2>2 DEF Search, N
    <3>2. n \in 1 .. Depth'
      BY <1>1, <1>5
    <3>3. visits'[n].sid = s
      BY <1>6, <3>1
    <3> QED
      BY <3>2, <3>3
  <2> QED
    BY <2>1, <2>2
<1>11. ASSUME NEW n \in 1 .. Depth'
       PROVE  /\ color'[visits'[n].sid] = "gray"
              /\ visits'[n].deps \subseteq g.deps[visits'[n].sid]
              /\ \A e \in g.deps[visits'[n].sid] \ visits'[n].deps :
                    e \in Black \/ (n < Depth' /\ e = visits'[n + 1].sid)
  <2>1. CASE n = N + 1
    BY <1>2, <1>5, <1>7, <2>1
  <2>2. CASE n = N
    <3>1. /\ color[Innermost.sid] = "gray" /\ Innermost.deps \subseteq g.deps[Innermost.sid]
          /\ \A e \in g.deps[Innermost.sid] \ Innermost.deps : e \in Black
      BY InnermostVisit
    <3>2. Innermost.sid \in g.nodes \ {d}
      BY <1>1, <1>8 DEF Calls
    <3>3. /\ visits'[n].sid = Innermost.sid /\ visits'[n].deps = Innermost.deps \ {d}
          /\ visits'[n + 1].sid = d /\ n < Depth'
      BY <1>1, <1>2, <1>5, <2>2
    <3> QED
      BY <1>7, <3>1, <3>2, <3>3
  <2>3. CASE n < N
    <3>1. /\ color[visits[n].sid] = "gray" /\ visits[n].deps \subseteq g.deps[visits[n].sid]
          /\ \A e \in g.deps[visits[n].sid] \ visits[n].deps :
                e \in Black \/ e = visits[n + 1].sid
      <4>1. n \in 1 .. Depth /\ n < Depth
        BY <1>1, <1>5, <2>3 DEF N
      <4> QED
        BY <4>1 DEF Search
    <3>2. visits'[n] = visits[n] /\ visits'[n + 1].sid = visits[n + 1].sid
      BY <1>1, <1>5, <1>6, <2>3
    <3>3. n \in 1 .. N /\ n < Depth'
      BY <1>1, <1>5, <2>3
    <3>4. visits[n].sid \in g.nodes \ {d}
      BY <1>8, <1>9, <3>3
    <3>5. color'[visits[n].sid] = "gray"
      BY <1>7, <3>1, <3>4
    <3> QED
      BY <3>1, <3>2, <3>3, <3>5
  <2> QED
    BY <1>1, <1>5, <2>1, <2>2, <2>3
<1>12. ASSUME NEW m \in 1 .. Depth', NEW n \in 1 .. Depth', m < n
       PROVE  /\ visits'[m].sid # visits'[n].sid
              /\ visits'[m].sid \in DownstreamOf(g, visits'[n].sid)
  <2>1. CASE n = N + 1
    BY <1>1, <1>2, <1>5, <1>6, <1>8, <1>9, <1>12, <2>1
  <2>2. CASE n # N + 1
    <3>0. N \in Nat /\ Depth' = N + 1
      BY <1>1, <1>5
    <3>1. m \in 1 .. N /\ n \in 1 .. N
      BY <1>12, <2>2, <3>0
    <3>2. visits[m].sid # visits[n].sid /\ visits[m].sid \in DownstreamOf(g, visits[n].sid)
      BY <1>12, <3>1 DEF Search, N
    <3> QED
      BY <1>6, <3>1, <3>2
  <2> QED
    BY <2>1, <2>2
<1>13. g \in Graphs /\ pc = "search" /\ KnownDependencies(g)
       /\ (\A s \in Black : g.deps[s] \subseteq Black)
       /\ (\A s \in Black : s \notin DownstreamOf(g, s))
  BY DEF Search
<1> QED
  BY <1>5, <1>7, <1>10, <1>11, <1>12, <1>13 DEF Search, AcceptsTheValid, Calls

(* A dependency that is done with is crossed off. *)
LEMMA CrossingOffKeepsSearch ==
  ASSUME Search, pc = "search", visits # <<>>, NEW d \in g.nodes, d \in Innermost.deps,
         d \in Black, visits' = Without(d), UNCHANGED <<g, pc, color>>
  PROVE  Search'
<1> DEFINE Calls == [sid : g.nodes, deps : SUBSET Stages]
           N == Depth
           top == [Innermost EXCEPT !.deps = @ \ {d}]
<1>1. /\ visits \in Seq(Calls) /\ N \in Nat \ {0} /\ Innermost = visits[N] /\ Innermost \in Calls
      /\ Innermost.deps \subseteq g.deps[Innermost.sid]
      /\ \A e \in g.deps[Innermost.sid] \ Innermost.deps : e \in Black
  <2>1. visits \in Seq(Calls)
    BY DEF Search
  <2> QED
    BY <2>1, InnermostVisit
<1>2. top \in Calls /\ top.sid = Innermost.sid /\ top.deps = Innermost.deps \ {d}
  BY <1>1
<1>3. /\ visits' \in Seq(Calls) /\ Depth' = N
      /\ \A n \in 1 .. N - 1 : visits'[n] = visits[n]
      /\ visits'[N] = top
  <2>1. /\ Outer \in Seq(Calls) /\ Len(Outer) = N - 1
        /\ \A n \in 1 .. N - 1 : Outer[n] = visits[n]
    BY <1>1, Returned DEF Outer, Depth
  <2>2. visits' = Append(Outer, top)
    BY DEF Without
  <2> HIDE DEF top, Calls, N
  <2>3. /\ Append(Outer, top) \in Seq(Calls) /\ Len(Append(Outer, top)) = Len(Outer) + 1
        /\ \A n \in 1 .. Len(Outer) : Append(Outer, top)[n] = Outer[n]
        /\ Append(Outer, top)[Len(Outer) + 1] = top
    BY <1>2, <2>1, Called
  <2> QED
    BY <1>1, <2>1, <2>2, <2>3 DEF Depth
<1> HIDE DEF Calls, N, top
<1>4. \A n \in 1 .. N : visits'[n].sid = visits[n].sid
  BY <1>1, <1>2, <1>3
<1>5. Black' = Black
  BY DEF Black
<1>6. ASSUME NEW n \in 1 .. Depth'
      PROVE  /\ color[visits'[n].sid] = "gray"
             /\ visits'[n].deps \subseteq g.deps[visits'[n].sid]
             /\ \A e \in g.deps[visits'[n].sid] \ visits'[n].deps :
                   e \in Black \/ (n < Depth' /\ e = visits'[n + 1].sid)
  <2>1. CASE n = N
    <3>1. color[Innermost.sid] = "gray"
      BY InnermostVisit
    <3>2. visits'[n].sid = Innermost.sid /\ visits'[n].deps = Innermost.deps \ {d}
      BY <1>2, <1>3, <2>1
    <3> QED
      BY <1>1, <3>1, <3>2
  <2>2. CASE n < N
    <3>1. /\ color[visits[n].sid] = "gray" /\ visits[n].deps \subseteq g.deps[visits[n].sid]
          /\ \A e \in g.deps[visits[n].sid] \ visits[n].deps :
                e \in Black \/ e = visits[n + 1].sid
      <4>1. n \in 1 .. Depth /\ n < Depth
        BY <1>1, <1>3, <2>2 DEF N
      <4> QED
        BY <4>1 DEF Search
    <3>2. visits'[n] = visits[n] /\ visits'[n + 1].sid = visits[n + 1].sid
      BY <1>1, <1>3, <1>4, <2>2
    <3> QED
      BY <1>3, <2>2, <3>1, <3>2
  <2> QED
    BY <1>1, <1>3, <2>1, <2>2
<1>7. /\ \A s \in g.nodes : color[s] = "gray" => \E n \in 1 .. Depth' : visits'[n].sid = s
      /\ \A m, n \in 1 .. Depth' : m < n =>
            /\ visits'[m].sid # visits'[n].sid
            /\ visits'[m].sid \in DownstreamOf(g, visits'[n].sid)
  <2>1. \A s \in g.nodes : color[s] = "gray" => \E n \in 1 .. N : visits[n].sid = s
    BY DEF Search, N
  <2>2. \A m, n \in 1 .. N : m < n =>
            /\ visits[m].sid # visits[n].sid
            /\ visits[m].sid \in DownstreamOf(g, visits[n].sid)
    BY DEF Search, N
  <2> QED
    BY <1>3, <1>4, <2>1, <2>2
<1>8. /\ g \in Graphs /\ pc = "search" /\ KnownDependencies(g)
      /\ color \in [g.nodes -> {"white", "gray", "black"}]
      /\ (\A s \in Black : g.deps[s] \subseteq Black)
      /\ (\A s \in Black : s \notin DownstreamOf(g, s))
  BY DEF Search
<1> QED
  BY <1>3, <1>5, <1>6, <1>7, <1>8 DEF Search, AcceptsTheValid, Calls

(* A visit that has crossed off all dependencies ends: its stage is black. *)
LEMMA LeavingKeepsSearch ==
  ASSUME Search, Leave
  PROVE  Search'
<1> DEFINE Calls == [sid : g.nodes, deps : SUBSET Stages]
           N == Depth
           s == Innermost.sid
<1>1. /\ pc = "search" /\ visits # <<>> /\ Innermost.deps = {}
      /\ color' = [color EXCEPT ![s] = "black"] /\ visits' = Outer
      /\ UNCHANGED <<g, pc>>
  BY DEF Leave
<1>2. /\ visits \in Seq(Calls) /\ N \in Nat \ {0} /\ Innermost = visits[N] /\ s \in g.nodes
      /\ color[s] = "gray" /\ g.deps[s] \subseteq Black
  <2>1. visits \in Seq(Calls)
    BY DEF Search
  <2> QED
    BY <1>1, <2>1, InnermostVisit
<1>3. /\ visits' \in Seq(Calls) /\ Depth' = N - 1
      /\ \A n \in 1 .. N - 1 : visits'[n] = visits[n]
  <2>1. visits \in Seq(Calls) /\ visits # <<>> /\ visits' = SubSeq(visits, 1, Len(visits) - 1)
    BY <1>1, <1>2 DEF Outer
  <2> HIDE DEF Calls
  <2>2. /\ visits' \in Seq(Calls) /\ Len(visits') = Len(visits) - 1
        /\ \A n \in 1 .. Len(visits) - 1 : visits'[n] = visits[n]
    BY <2>1, Returned
  <2> QED
    BY <2>2 DEF Depth
<1> HIDE DEF Calls, N
<1>4. /\ color' \in [g.nodes -> {"white", "gray", "black"}]
      /\ Black' = Black \cup {s} /\ color'[s] = "black"
      /\ \A t \in g.nodes \ {s} : color'[t] = color[t]
  <2>1. color \in [g.nodes -> {"white", "gray", "black"}]
    BY DEF Search
  <2> HIDE DEF s
  <2> QED
    BY <1>1, <1>2, <2>1 DEF Black
<1>5. /\ \A t \in Black : g.deps[t] \subseteq Black
      /\ \A t \in Black : t \notin DownstreamOf(g, t)
      /\ s \notin Black
  BY <1>2 DEF Search, Black
<1>6. s \notin DownstreamOf(g, s)
  BY <1>2, <1>5, AboveAClosedSet
<1>7. \A n \in 1 .. N - 1 : visits[n].sid # s /\ visits[n].sid \in g.nodes
  <2>1. \A n \in 1 .. N - 1 : visits[n].sid # s
    BY <1>2 DEF Search, N
  <2>2. \A n \in 1 .. N - 1 : visits[n] \in Calls
    BY <1>2 DEF N, Depth
  <2> QED
    BY <2>1, <2>2 DEF Calls
<1>8. ASSUME NEW n \in 1 .. Depth'
      PROVE  /\ color'[visits'[n].sid] = "gray"
             /\ visits'[n].deps \subseteq g.deps[visits'[n].sid]
             /\ \A e \in g.deps[visits'[n].sid] \ visits'[n].deps :
                   e \in Black' \/ (n < Depth' /\ e = visits'[n + 1].sid)
  <2>1. n \in 1 .. Depth /\ n < Depth /\ n \in 1 .. N - 1
    BY <1>2, <1>3 DEF N
  <2>2. /\ color[visits[n].sid] = "gray" /\ visits[n].deps \subseteq g.deps[visits[n].sid]
        /\ \A e \in g.deps[visits[n].sid] \ visits[n].deps : e \in Black \/ e = visits[n + 1].sid
    BY <2>1 DEF Search
  <2>3. n + 1 = N => visits[n + 1].sid = s
    BY <1>2
  <2>4. n + 1 # N => n < Depth' /\ visits'[n + 1] = visits[n + 1]
    BY <1>2, <1>3, <2>1
  <2> QED
    BY <1>3, <1>4, <1>7, <2>1, <2>2, <2>3, <2>4
<1>9. \A t \in g.nodes : color'[t] = "gray" => \E n \in 1 .. Depth' : visits'[n].sid = t
  <2> SUFFICES ASSUME NEW t \in g.nodes, color'[t] = "gray" PROVE \E n \in 1 .. N - 1 : visits[n].sid = t
    BY <1>3
  <2>1. t # s /\ color[t] = "gray"
    BY <1>4
  <2>2. PICK n \in 1 .. N : visits[n].sid = t
    BY <2>1 DEF Search, N
  <2>3. n # N
    BY <1>2, <2>1, <2>2
  <2> QED
    BY <1>2, <2>2, <2>3
<1>10. \A m, n \in 1 .. Depth' : m < n =>
          /\ visits'[m].sid # visits'[n].sid
          /\ visits'[m].sid \in DownstreamOf(g, visits'[n].sid)
  <2>1. \A m, n \in 1 .. N : m < n =>
            /\ visits[m].sid # visits[n].sid
            /\ visits[m].sid \in DownstreamOf(g, visits[n].sid)
    BY DEF Search, N
  <2>2. \A n \in 1 .. Depth' : n \in 1 .. N /\ visits'[n] = visits[n]
    BY <1>2, <1>3
  <2> QED
    BY <2>1, <2>2
<1>11. g \in Graphs /\ KnownDependencies(g)
  BY <1>1 DEF Search
<1> HIDE DEF s
<1> QED
  BY <1>1, <1>2, <1>3, <1>4, <1>5, <1>6, <1>8, <1>9, <1>10, <1>11 DEF Search, AcceptsTheValid, Calls

(* Every step of the loops keeps the search right. *)
LEMMA StepKeepsSearch == Search /\ [Next]_vars => Search'
<1> SUFFICES ASSUME Search, [Next]_vars PROVE Search'
  OBVIOUS
<1>1. ASSUME UNCHANGED <<g, color, visits>>, AcceptsTheValid',
             pc' \in {"search", "rejected", "layers", "stuck", "downstream", "answered"},
             pc' # "rejected" => KnownDependencies(g)
      PROVE  Search'
  BY <1>1 DEF Search, Black, Depth
<1>2. CASE UNCHANGED vars
  BY <1>2 DEF vars, searchVars, Search, Black, Depth, AcceptsTheValid
<1>3. CASE Validate
  <2>1. UNCHANGED <<g, color, visits>> /\ pc' = IF KnownDependencies(g) THEN "search" ELSE "rejected"
    BY <1>3 DEF Validate, searchVars
  <2>2. AcceptsTheValid'
    BY <2>1 DEF AcceptsTheValid, Valid
  <2> QED
    BY <1>1, <2>1, <2>2
<1>4. CASE Accept
  <2>1. /\ pc = "search" /\ visits = <<>> /\ (\A s \in g.nodes : color[s] # "white")
        /\ UNCHANGED <<g, color, visits>> /\ pc' = "layers"
    BY <1>4 DEF Accept, searchVars
  <2>2. Black = g.nodes
    <3>1. Depth = 0
      BY <2>1 DEF Depth
    <3>2. \A s \in g.nodes : color[s] # "gray"
      BY <3>1 DEF Search
    <3> QED
      BY <2>1, <3>2 DEF Search, Black
  <2>3. KnownDependencies(g) /\ Acyclic(g)
    BY <2>1, <2>2 DEF Search, Acyclic
  <2> QED
    BY <1>1, <2>1, <2>3 DEF AcceptsTheValid, Valid
<1>5. CASE AddLayer \/ LayersFound \/ NextPass \/ \E s \in g.nodes : Look(s)
  <2>1. /\ UNCHANGED <<g, color, visits>> /\ pc \in {"layers", "downstream"}
        /\ pc' \in {"layers", "stuck", "downstream", "answered"}
    BY <1>5 DEF AddLayer, LayersFound, NextPass, Look, searchVars
  <2> QED
    BY <1>1, <2>1 DEF Search, AcceptsTheValid
<1>6. CASE Leave
  BY <1>6, LeavingKeepsSearch
<1>7. ASSUME NEW s \in g.nodes, Visit(s) PROVE Search'
  <2>1. /\ pc = "search" /\ visits = <<>> /\ color[s] = "white" /\ visits' = <<Frame(s)>>
        /\ color' = [color EXCEPT ![s] = "gray"] /\ UNCHANGED <<g, pc>>
    BY <1>7 DEF Visit
  <2>2. /\ g \in Graphs /\ KnownDependencies(g) /\ Depth = 0
        /\ color \in [g.nodes -> {"white", "gray", "black"}]
        /\ \A t \in g.nodes : color[t] # "gray"
        /\ \A t \in Black : g.deps[t] \subseteq Black
        /\ \A t \in Black : t \notin DownstreamOf(g, t)
    BY <2>1 DEF Search, Depth
  <2>3. /\ Frame(s) \in [sid : g.nodes, deps : SUBSET Stages]
        /\ Frame(s).sid = s /\ Frame(s).deps = g.deps[s]
    BY <2>2 DEF Frame, Graphs
  <2>4. /\ visits' \in Seq([sid : g.nodes, deps : SUBSET Stages])
        /\ Depth' = 1 /\ visits'[1] = Frame(s)
    BY <2>1, <2>3 DEF Depth
  <2>5. /\ color' \in [g.nodes -> {"white", "gray", "black"}] /\ color'[s] = "gray"
        /\ Black' = Black /\ \A t \in g.nodes \ {s} : color'[t] # "gray"
    BY <2>1, <2>2 DEF Black
  <2>6. \A n \in 1 .. Depth' : n = 1
    BY <2>4
  <2> QED
    BY <2>1, <2>2, <2>3, <2>4, <2>5, <2>6 DEF Search, AcceptsTheValid
<1>8. ASSUME NEW d \in g.nodes, Dependency(d) PROVE Search'
  <2>1. pc = "search" /\ visits # <<>> /\ d \in Innermost.deps /\ UNCHANGED g
    BY <1>8 DEF Dependency
  <2>2. CASE color[d] = "gray" /\ pc' = "rejected" /\ UNCHANGED searchVars
    <3>1. ~Valid(g)
      BY <2>1, <2>2, GrayIsCircular
    <3> QED
      BY <1>1, <2>1, <2>2, <3>1 DEF searchVars, AcceptsTheValid
  <2>3. CASE color[d] = "white" /\ Follow(d) /\ UNCHANGED pc
    BY <2>1, <2>3, DeeperKeepsSearch
  <2>4. CASE color[d] = "black" /\ visits' = Without(d) /\ UNCHANGED <<pc, color>>
    BY <2>1, <2>4, CrossingOffKeepsSearch DEF Black
  <2> QED
    BY <1>8, <2>2, <2>3, <2>4 DEF Dependency
<1> QED
  BY <1>2, <1>3, <1>4, <1>5, <1>6, <1>7, <1>8 DEF Next

(* The search starts with nothing visited. *)
LEMMA SearchAtFirst == Init => Search
<1> SUFFICES ASSUME Init PROVE Search
  OBVIOUS
<1>1. Depth = 0 /\ Black = {} /\ visits \in Seq([sid : g.nodes, deps : SUBSET Stages])
  BY DEF Init, Depth, Black
<1> QED
  BY <1>1 DEF Init, Search, AcceptsTheValid

(* The validator accepts a graph if and only if its dependencies are       *)
(* stages of it and none of them is circular (models.py:128-159).          *)
THEOREM AcceptsTheValidAlways == Spec => []AcceptsTheValid
<1>1. Search => AcceptsTheValid
  BY DEF Search
<1> QED
  BY <1>1, SearchAtFirst, StepKeepsSearch, PTL DEF Spec

-----------------------------------------------------------------------------
(* topological_layers *)

(* What remains is what no layer has yet. *)
Peeled ==
    /\ Search
    /\ layers \in Seq(SUBSET g.nodes)
    /\ remaining = g.nodes \ UNION {layers[n] : n \in 1 .. Len(layers)}
    /\ LayersAreRight

(* A layer holds what depends on the layers before it only. *)
LEMMA StepKeepsPeeled == Peeled /\ [Next]_vars => Peeled'
<1> SUFFICES ASSUME Peeled, [Next]_vars PROVE Peeled'
  OBVIOUS
<1>1. Search'
  BY StepKeepsSearch DEF Peeled
<1>2. CASE UNCHANGED <<g, layers, remaining>>
  BY <1>1, <1>2 DEF Peeled, LayersAreRight
<1>3. CASE AddLayer
  <2> DEFINE layer == {s \in remaining : Ready(s)}
             N == Len(layers)
  <2>1. CASE layer = {}
    BY <1>2, <1>3, <2>1 DEF AddLayer, layerVars
  <2>2. CASE layer # {}
    <3>1. /\ layers' = Append(layers, layer) /\ remaining' = remaining \ layer
          /\ UNCHANGED g /\ pc = "layers"
      BY <1>3, <2>2 DEF AddLayer
    <3>2. layers \in Seq(SUBSET g.nodes) /\ layer \in SUBSET g.nodes
      BY DEF Peeled
    <3>3. /\ layers' \in Seq(SUBSET g.nodes) /\ Len(layers') = N + 1 /\ N \in Nat
          /\ \A n \in 1 .. N : layers'[n] = layers[n]
          /\ layers'[N + 1] = layer
      <4> HIDE DEF layer
      <4> QED
        BY <3>1, <3>2, Called
    <3> DEFINE before == UNION {layers[n] : n \in 1 .. N}
    <3>4. layer = NextLayer(g, before)
      <4>1. remaining = g.nodes \ before
        BY DEF Peeled
      <4>2. KnownDependencies(g)
        BY <3>1 DEF Peeled, Search
      <4> QED
        BY <4>1, <4>2 DEF NextLayer, Ready, KnownDependencies
    <3>5. \A k \in 1 .. N + 1 : UNION {layers'[m] : m \in 1 .. k - 1} = UNION {layers[m] : m \in 1 .. k - 1}
      <4>1. \A k \in 1 .. N + 1 : \A m \in 1 .. k - 1 : layers'[m] = layers[m]
        BY <3>3
      <4> QED
        BY <4>1
    <3> HIDE DEF layer
    <3>6. LayersAreRight'
      <4> SUFFICES ASSUME NEW k \in 1 .. N + 1
                   PROVE  layers'[k] = NextLayer(g, UNION {layers'[m] : m \in 1 .. k - 1})
        BY <3>1, <3>3 DEF LayersAreRight
      <4>1. CASE k = N + 1
        <5>1. 1 .. k - 1 = 1 .. N
          BY <3>3, <4>1
        <5>2. UNION {layers'[m] : m \in 1 .. k - 1} = before
          BY <3>5, <5>1
        <5> HIDE DEF before
        <5> QED
          BY <3>3, <3>4, <4>1, <5>2
      <4>2. CASE k \in 1 .. N
        <5>1. layers[k] = NextLayer(g, UNION {layers[m] : m \in 1 .. k - 1})
          BY <4>2 DEF Peeled, LayersAreRight
        <5>2. UNION {layers'[m] : m \in 1 .. k - 1} = UNION {layers[m] : m \in 1 .. k - 1}
          BY <3>5
        <5> QED
          BY <3>3, <4>2, <5>1, <5>2
      <4>3. k = N + 1 \/ k \in 1 .. N
        BY <3>3
      <4> QED
        BY <4>1, <4>2, <4>3
    <3>7. UNION {layers'[n] : n \in 1 .. Len(layers')} = before \cup layer
      <4>1. \A x \in before : \E n \in 1 .. N + 1 : x \in layers'[n]
        BY <3>3
      <4>2. \A n \in 1 .. N + 1 : layers'[n] \subseteq before \cup layer
        <5> SUFFICES ASSUME NEW n \in 1 .. N + 1 PROVE layers'[n] \subseteq before \cup layer
          OBVIOUS
        <5>1. n = N + 1 \/ n \in 1 .. N
          BY <3>3
        <5> QED
          BY <3>3, <5>1
      <4> HIDE DEF before
      <4>3. layer \subseteq UNION {layers'[n] : n \in 1 .. N + 1}
        BY <3>3
      <4> QED
        BY <3>3, <4>1, <4>2, <4>3
    <3>8. remaining' = g.nodes \ (before \cup layer)
      BY <3>1 DEF Peeled
    <3> QED
      BY <1>1, <3>1, <3>3, <3>6, <3>7, <3>8 DEF Peeled
  <2> QED
    BY <2>1, <2>2
<1> QED
  BY <1>2, <1>3 DEF Next, vars, layerVars, Validate, Leave, Accept, LayersFound, NextPass,
                    Visit, Dependency, Look

(* The layers are those the executor walks: every stage in the first layer *)
(* after all of its dependencies (models.py:161-165).                      *)
THEOREM LayersAreRightAlways == Spec => []LayersAreRight
<1>1. Init => Peeled
  <2> SUFFICES ASSUME Init PROVE Peeled
    OBVIOUS
  <2>1. layers = <<>> /\ Len(layers) = 0 /\ layers \in Seq(SUBSET g.nodes) /\ remaining = g.nodes
    BY DEF Init
  <2> QED
    BY <2>1, SearchAtFirst DEF Peeled, LayersAreRight
<1>2. Peeled => LayersAreRight
  BY DEF Peeled
<1> QED
  BY <1>1, <1>2, StepKeepsPeeled, PTL DEF Spec
=============================================================================
