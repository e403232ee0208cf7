----------------------------- MODULE MCExecutor -----------------------------
(* Small instances of Executor: graphs, gates and retry policies. *)
EXTENDS RunRefinement

CONSTANTS a, b, c, d, ask, scan

Graph(nodes, edges) ==
    [nodes |-> nodes, deps |-> [t \in Stages |-> {u \in Stages : <<u, t>> \in edges}]]

(* a, then b and c in parallel, then d *)
Diamond == Graph({a, b, c, d}, {<<a, b>>, <<a, c>>, <<b, d>>, <<c, d>>})
(* a, then b, then d *)
Line == Graph({a, b, d}, {<<a, b>>, <<b, d>>})
(* a, then b *)
Pair == Graph({a, b}, {<<a, b>>})

NoGates == [s \in Stages |-> <<>>]
OnlyAt(s, gates) == [NoGates EXCEPT ![s] = gates]

(* c between a and b; c first of all; a cycle, refused *)
Insert(ups, befores) == [stage |-> c, ups |-> ups, befores |-> befores]
PairInsertions == {Insert({a}, {b}), Insert({}, {a}), Insert({b}, {a})}

(* b asks for its output, after a policy check; d asks before it starts. *)
DiamondEntry == OnlyAt(d, <<ask>>)
DiamondExit == OnlyAt(b, <<scan, ask>>)
PairEntry == OnlyAt(b, <<ask>>)
AskA == OnlyAt(a, <<ask>>)
AskB == OnlyAt(b, <<ask>>)

Once == [s \in Stages |-> 1]
TwiceAt(s) == [Once EXCEPT ![s] = 2]
TwiceB == TwiceAt(b)
=============================================================================
