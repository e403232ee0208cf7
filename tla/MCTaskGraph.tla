----------------------------- MODULE MCTaskGraph -----------------------------
(* Every graph over a few stages. *)
EXTENDS TaskGraphBuild
=============================================================================
