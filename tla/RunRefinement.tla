--------------------------- MODULE RunRefinement ---------------------------
(***************************************************************************)
(* The executor implements RunLifecycle.  A stage that was set aside is    *)
(* "todo" again whatever it is called, a retry is still work, and the      *)
(* approvals asked for are the rows of the approvals table.                *)
(***************************************************************************)
EXTENDS ExecutorInvariants

LifeOf(state) ==
    CASE state.status \in {"pending", "stale", "rolled_back"} -> "todo"
      [] state.status \in {"running", "retrying"} -> "working"
      [] state.status = "blocked_approval" -> "waiting"
      [] OTHER -> state.status

ApprovalsAmong(gates) ==
    [s \in Stages |-> {gates[s][k] : k \in 1 .. Len(gates[s])} \cap ApprovalGates]

(* What the rows of the store say of the life of the stages.               *)
LifeNow == [s \in Stages |-> LifeOf(st[s])]
RedoNow == {s \in Stages : st[s].stale}
RoundNow == [s \in Stages |-> st[s].inc]
AskedNow == {r \in Stages \X Gates \X Incarnations : approvals[r[1]][r[2]][r[3]] # "none"}

Life == INSTANCE RunLifecycle WITH
    Graph   <- InitialGraph,
    Gates   <- ApprovalGates,
    Before  <- ApprovalsAmong(EntryGates),
    After   <- ApprovalsAmong(ExitGates),
    Rounds  <- Incarnations,
    run     <- status,
    life    <- LifeNow,
    redo    <- RedoNow,
    round   <- RoundNow,
    asked   <- AskedNow,
    granted <- granted

-----------------------------------------------------------------------------
(* The invariant behind the refinement: what Walk, Governance and Barrier  *)
(* leave out, for a graph into which nothing is inserted.                  *)

AtWork(s) == st[s].status \in {"running", "retrying"}
IsAsked(s) == \E g \in ApprovalGates : approvals[s][g][st[s].inc] # "none"

(* What the place of a thread says of the stage it is about to save. *)
StageAccounted(s) ==
    /\ st[s].status = "pending" => ~st[s].stale
    /\ st[s].status = "blocked_approval" => IsAsked(s)
    /\ th[s].pc \in {"entry_block", "exit_block"} => IsAsked(s)
    /\ th[s].pc \in {"entry", "entry_block"} => IsActionable(st[s])
    /\ th[s].pc \in {"begin", "fail"} => IsActionable(st[s]) \/ AtWork(s)
    /\ th[s].pc \in {"agent", "exit", "exit_block", "attempt_failed"} =>
          AtWork(s) /\ ~st[s].stale
    /\ th[s].pc \in {"recheck", "pass"} =>
          (AtWork(s) \/ st[s].status = "blocked_approval") /\ ~st[s].stale
    /\ \A d \in th[s].skips :
          st[d].status \in {"pending", "blocked_approval", "stale", "skipped"}

(* What the place of run() says of the status it is about to save. *)
VerdictHolds ==
    CASE verdict = "completed" ->
             \A s \in InitialGraph.nodes : st[s].status \in {"passed", "skipped"}
      [] verdict = "failed" -> \E s \in InitialGraph.nodes : st[s].status = "failed"
      [] OTHER -> verdict = "running"
HasBlocked(S) == \E s \in S : st[s].status = "blocked_approval"

Accounted ==
    /\ graph = InitialGraph /\ mem = InitialGraph
    /\ done \cup layer \subseteq InitialGraph.nodes
    /\ \A s \in Stages : StageAccounted(s)
    /\ pc = "skip" => \A s \in skipping :
          IsActionable(st[s]) /\ \E d \in mem.deps[s] : BlocksDependents(st[d])
    /\ pc = "pause" => HasBlocked(layer)
    /\ pc = "finish" => VerdictHolds
    /\ status = "paused_approval" =>
          pc \in {"idle", "unpause", "reload"} /\ HasBlocked(InitialGraph.nodes)

-----------------------------------------------------------------------------
(* Everything the executor does, and everything done to it between its     *)
(* calls, is a step of the life people are promised or invisible to them.  *)
KeepsThePromises == Life!Spec

(* The pass of a stage rests on the passes of all it depends on.           *)
PassedRestsOnPassed == Life!PassedRestsOnPassed
=============================================================================
