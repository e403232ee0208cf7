----------------------------- MODULE TaskGraph -----------------------------
(***************************************************************************)
(* The static task graph of orchestrator/models.py: a set of stages and,   *)
(* for each of them, the stages it depends on.  A graph is a record        *)
(*     [nodes : the stages it contains, deps : stage -> set of stages]     *)
(* This module holds the set-level meaning of the graph operations; the    *)
(* loops that compute them are in TaskGraphBuild, where they are checked   *)
(* against these definitions.                                              *)
(***************************************************************************)
EXTENDS Naturals, FiniteSets

(* The stages that name a member of S among their dependencies. *)
Dependents(g, S) == {t \in g.nodes : g.deps[t] \cap S # {}}

(* S is closed: whatever depends on s, or on a member of S, is in S. *)
ClosedUnder(g, s, S) == Dependents(g, S \cup {s}) \subseteq S

(* Bug: only what names s itself. *)
DirectlyDownstreamOf(g, s) == Dependents(g, {s})

(* Every stage that transitively depends on s: the least closed set. *)
DownstreamOf(g, s) ==
    {t \in g.nodes : \A S \in SUBSET g.nodes : ClosedUnder(g, s, S) => t \in S}

(* The stages whose dependencies are all in done: one layer of the order   *)
(* in which the executor walks the graph.                                  *)
NextLayer(g, done) == {t \in g.nodes \ done : g.deps[t] \subseteq done}

(* What the validator of a TaskGraph accepts. *)
KnownDependencies(g) == \A t \in g.nodes : g.deps[t] \subseteq g.nodes
Acyclic(g) == \A t \in g.nodes : t \notin DownstreamOf(g, t)
Valid(g) == KnownDependencies(g) /\ Acyclic(g)

(* The graph with stage n, depending on ups, spliced in before each stage  *)
(* of befores.                                                             *)
WithStage(g, n, ups, befores) ==
    [nodes |-> g.nodes \cup {n},
     deps  |-> [t \in DOMAIN g.deps |->
                   IF t = n THEN ups
                   ELSE IF t \in befores THEN g.deps[t] \cup {n}
                   ELSE g.deps[t]]]
=============================================================================
