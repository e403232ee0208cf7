---------------------------- MODULE TaskGraphBuild ----------------------------
(***************************************************************************)
(* The loops of the TaskGraph of orchestrator/models.py, step by step: the *)
(* validator with its depth-first search for a cycle, the layers the       *)
(* executor walks, and the search for everything downstream of a stage.    *)
(* A loop over a dictionary or a list takes its members in any order here. *)
(***************************************************************************)
EXTENDS TaskGraph, Sequences

CONSTANT Stages   \* the stage ids a graph may name

ASSUME StagesAssumption == IsFiniteSet(Stages)

VARIABLES
    g,          \* the graph
    pc,         \* which loop is at work
    color,      \* of _assert_acyclic
    visits,     \* the calls of visit() under way, the innermost last
    remaining,  \* of topological_layers
    layers,     \* the layers found so far, in order
    target,     \* the argument of downstream_of
    result,     \* what it has found so far
    changed,    \* whether this pass over the stages found something
    todo        \* the stages this pass has still to look at

searchVars == <<color, visits>>
layerVars == <<remaining, layers>>
downVars == <<target, result, changed, todo>>
vars == <<g, pc, searchVars, layerVars, downVars>>

(* The author of a graph may name any dependency, even one it does not     *)
(* contain.                                                                *)
Graphs == {h \in [nodes : SUBSET Stages, deps : [Stages -> SUBSET Stages]] :
              h.nodes # {} /\ \A s \in Stages \ h.nodes : h.deps[s] = {}}

Init ==
    /\ g \in Graphs
    /\ pc = "validate"
    /\ color = [s \in g.nodes |-> "white"]
    /\ visits = <<>>
    /\ remaining = g.nodes
    /\ layers = <<>>
    /\ target \in g.nodes
    /\ result = {}
    /\ changed = TRUE
    /\ todo = {}

-----------------------------------------------------------------------------
(* _validate_graph and _assert_acyclic *)

Validate ==
    /\ pc = "validate"
    /\ pc' = IF KnownDependencies(g) THEN "search" ELSE "rejected"
    /\ UNCHANGED <<g, searchVars, layerVars, downVars>>

Frame(s) == [sid |-> s, deps |-> g.deps[s]]
Innermost == visits[Len(visits)]
Outer == SubSeq(visits, 1, Len(visits) - 1)
Without(d) == Append(Outer, [Innermost EXCEPT !.deps = @ \ {d}])

(* A search starts at every stage that is still white. *)
Visit(s) ==
    /\ pc = "search"
    /\ visits = <<>>
    /\ color[s] = "white"
    /\ color' = [color EXCEPT ![s] = "gray"]
    /\ visits' = <<Frame(s)>>
    /\ UNCHANGED <<g, pc, layerVars, downVars>>

(* Bug: the search does not go below the dependencies of its first stage.  *)
FollowNot(d) == color' = [color EXCEPT ![d] = "black"] /\ visits' = Without(d)

(* visit(dep); the calling visit goes on with its other dependencies.      *)
Follow(d) ==
    /\ color' = [color EXCEPT ![d] = "gray"]
    /\ visits' = Append(Without(d), Frame(d))

(* Gray: a cycle.  White: visit it first.  Black: nothing to do.           *)
Dependency(d) ==
    /\ pc = "search"
    /\ visits # <<>>
    /\ d \in Innermost.deps
    /\ \/ color[d] = "gray" /\ pc' = "rejected" /\ UNCHANGED searchVars
       \/ color[d] = "white" /\ Follow(d) /\ UNCHANGED pc
       \/ color[d] = "black" /\ visits' = Without(d) /\ UNCHANGED <<pc, color>>
    /\ UNCHANGED <<g, layerVars, downVars>>

Leave ==
    /\ pc = "search"
    /\ visits # <<>>
    /\ Innermost.deps = {}
    /\ color' = [color EXCEPT ![Innermost.sid] = "black"]
    /\ visits' = Outer
    /\ UNCHANGED <<g, pc, layerVars, downVars>>

Accept ==
    /\ pc = "search"
    /\ visits = <<>>
    /\ \A s \in g.nodes : color[s] # "white"
    /\ pc' = "layers"
    /\ UNCHANGED <<g, searchVars, layerVars, downVars>>

-----------------------------------------------------------------------------
(* topological_layers *)

(* Bug: one finished dependency is enough. *)
ReadyIfAny(s) == g.deps[s] = {} \/ g.deps[s] \ remaining # {}

Ready(s) == g.deps[s] \cap remaining = {}

AddLayer ==
    /\ pc = "layers"
    /\ remaining # {}
    /\ LET layer == {s \in remaining : Ready(s)} IN
         IF layer = {}
           THEN pc' = "stuck" /\ UNCHANGED layerVars
           ELSE /\ layers' = Append(layers, layer)
                /\ remaining' = remaining \ layer
                /\ UNCHANGED pc
    /\ UNCHANGED <<g, searchVars, downVars>>

LayersFound ==
    /\ pc = "layers"
    /\ remaining = {}
    /\ pc' = "downstream"
    /\ UNCHANGED <<g, searchVars, layerVars, downVars>>

-----------------------------------------------------------------------------
(* downstream_of(target) *)

(* One pass over the stages after the other, until one finds nothing. *)
NextPass ==
    /\ pc = "downstream"
    /\ todo = {}
    /\ IF changed THEN changed' = FALSE /\ todo' = g.nodes /\ UNCHANGED pc
                  ELSE pc' = "answered" /\ UNCHANGED <<changed, todo>>
    /\ UNCHANGED <<g, searchVars, layerVars, target, result>>

Reached(s) == target \in g.deps[s] \/ result \cap g.deps[s] # {}

(* Bug: there is only one pass. *)
NoticedNever(s) == FALSE
(* Bug: what is already in the result asks for another pass.               *)
NoticedAgain(s) == Reached(s)

Noticed(s) == s \notin result /\ Reached(s)

Look(s) ==
    /\ pc = "downstream"
    /\ s \in todo
    /\ todo' = todo \ {s}
    /\ result' = IF Reached(s) THEN result \cup {s} ELSE result
    /\ changed' = (changed \/ Noticed(s))
    /\ UNCHANGED <<g, pc, searchVars, layerVars, target>>

Next ==
    \/ Validate \/ Leave \/ Accept \/ AddLayer \/ LayersFound \/ NextPass
    \/ \E s \in g.nodes : Visit(s) \/ Dependency(s) \/ Look(s)

Spec == Init /\ [][Next]_vars /\ WF_vars(Next)

-----------------------------------------------------------------------------
(* Properties *)

(* The validator accepts a graph if and only if its dependencies are       *)
(* stages of it and none of them is circular (models.py:128-159).          *)
AcceptsTheValid ==
    /\ pc = "rejected" => ~Valid(g)
    /\ pc \notin {"validate", "search", "rejected"} => Valid(g)

(* The layers are those the executor walks: every stage in the first layer *)
(* after all of its dependencies (models.py:161-165).                      *)
LayersAreRight ==
    \A n \in 1 .. Len(layers) :
        layers[n] = NextLayer(g, UNION {layers[m] : m \in 1 .. n - 1})

(* downstream_of finds exactly the stages that transitively depend on its  *)
(* argument, in whatever order it looks at them (models.py:186-187).       *)
FindsDownstream == pc = "answered" => result = DownstreamOf(g, target)

(* All three loops end. *)
Ends == <>(pc \in {"rejected", "answered"})
=============================================================================
