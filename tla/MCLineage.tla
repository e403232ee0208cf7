----------------------------- MODULE MCLineage -----------------------------
(* A small instance of Lineage: two stages and one that joins them. *)
EXTENDS Lineage

CONSTANTS a, b, c, d

Graph(nodes, edges) ==
    [nodes |-> nodes, deps |-> [t \in Stages |-> {u \in Stages : <<u, t>> \in edges}]]

(* a and b in parallel, then c *)
Join3 == Graph({a, b, c}, {<<a, c>>, <<b, c>>})
(* d between these two and c *)
BeforeC == {[stage |-> d, ups |-> {a, b}, befores |-> {c}]}
(* a and b are alike: neither is ever among the stages that ForAll puts in *)
(* an order.                                                               *)
Alike == Permutations({a, b})

Once == [s \in Stages |-> 1]
TwiceD == [Once EXCEPT ![d] = 2]
=============================================================================
