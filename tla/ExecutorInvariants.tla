------------------------- MODULE ExecutorInvariants -------------------------
(***************************************************************************)
(* The inductive invariants behind the theorems about Executor: what the   *)
(* walk over the graph, the approvals and the barrier between the layers   *)
(* rest on at every single step.                                           *)
(***************************************************************************)
EXTENDS Executor

(* What the walk maintains: threads exist only for stages of the layer in  *)
(* progress, the layers are closed downwards, and what a failing thread is *)
(* about to skip lies beyond the layer.                                    *)
Walk ==
    /\ pc # "join" => \A s \in Stages : th[s].pc = "none"
    /\ pc \in {"idle", "unpause", "layer", "finish"} => layer = {}
    /\ pc = "idle" => done = {}
    /\ \A s \in Stages : th[s].pc # "none" => s \in layer
    /\ \A s \in done \cup layer : mem.deps[s] \subseteq done
    /\ done \cap layer = {}
    /\ \A s \in Stages : \A d \in th[s].skips :
          th[s].pc = "skip" /\ d \in DownstreamOf(mem, s)
    /\ runnable \subseteq layer
    /\ skipping \subseteq layer
    /\ runnable \cap skipping = {}
    /\ pc \notin {"plan", "skip"} => skipping = {}

-----------------------------------------------------------------------------
(* Governance *)

(* The first n - 1 gates have been granted. *)
GrantedBefore(s, gates, i, n) ==
    \A k \in 1 .. Len(gates[s]) :
        k < n /\ gates[s][k] \in ApprovalGates => <<s, gates[s][k], i>> \in granted

Working == {"begin", "agent", "exit", "exit_block", "attempt_failed", "recheck", "pass"}

(* A request that counts as approved was granted by a person. *)
RequestsGoverned ==
    \A s \in Stages, g \in Gates, i \in Incarnations :
        approvals[s][g][i] = "approved" => <<s, g, i>> \in granted

(* What the saved state of s says about the approvals it has. *)
StageGoverned(s) ==
    /\ st[s].status = "pending" => ~st[s].arts
    /\ st[s].status = "stale" => st[s].stale
    /\ Waits(st[s]) => Granted(s, EntryGates, st[s].inc)
    /\ st[s].status = "passed" =>
          Granted(s, EntryGates, st[s].inc) /\ Granted(s, ExitGates, st[s].inc)

(* How far the thread of s has come with the approvals of its incarnation. *)
ThreadGoverned(s) ==
    /\ th[s].pc \notin {"none", "start"} => th[s].inc = st[s].inc
    /\ th[s].pc = "start" => IsActionable(st[s])
    /\ th[s].pc \in {"entry", "entry_block"} => st[s].stale \/ ~st[s].arts
    /\ th[s].pc = "entry" => GrantedBefore(s, EntryGates, st[s].inc, th[s].gate)
    /\ th[s].pc \in Working => Granted(s, EntryGates, st[s].inc)
    /\ th[s].pc = "agent" => st[s].status \in {"running", "retrying"}
    /\ th[s].pc \in {"exit", "recheck"} => GrantedBefore(s, ExitGates, st[s].inc, th[s].gate)
    /\ th[s].pc = "pass" => Granted(s, ExitGates, st[s].inc)
    /\ th[s].pc \in {"begin", "agent", "exit", "attempt_failed"} => ~Waits(st[s])

Governance ==
    /\ RequestsGoverned
    /\ \A s \in Stages : StageGoverned(s) /\ ThreadGoverned(s)
    /\ pc = "skip" => \A s \in runnable : IsActionable(st[s])

-----------------------------------------------------------------------------
(* The barrier between layers *)

Settled == {"passed", "failed", "skipped"}

(* What the state of s says about its thread, and the other way round. *)
StageInStep(s) ==
    /\ st[s].status = "rolled_back" => st[s].stale
    /\ st[s].status \in {"running", "retrying"} =>
          th[s].pc \in {"begin", "agent", "exit", "exit_block", "attempt_failed", "pass", "fail"}
    /\ th[s].pc \in {"propagate", "skip"} => st[s].status = "failed"
    /\ th[s].pc = "recheck" => st[s].status = "blocked_approval"

Barrier ==
    /\ \A s \in Stages : StageInStep(s)
    /\ \A d \in done : st[d].status \in Settled
    /\ \A s \in Stages : th[s].pc # "none" => \A d \in mem.deps[s] : st[d].status = "passed"
    /\ pc = "skip" =>
          /\ \A s \in runnable : \A d \in mem.deps[s] : st[d].status = "passed"
          /\ \A s \in layer \ (runnable \cup skipping) : st[s].status \in Settled
    /\ pc \in {"join", "pause", "reload"} =>
          \A s \in layer : th[s].pc = "none" =>
             st[s].status \in Settled \cup {"blocked_approval"}
    /\ pc = "reload" => status \in Paused

-----------------------------------------------------------------------------
(* The attempts *)

AttemptBudget(s) == AttemptLimit(s) + (IF s \in WithFallback THEN 1 ELSE 0)

(* What is left of the attempts of s, wherever its thread is: a stage is   *)
(* taken up with none made, or stale.                                      *)
Frugal(s) ==
    /\ st[s].attempts <= AttemptBudget(s)
    /\ st[s].status = "pending" => st[s].attempts = 0
    /\ st[s].status = "blocked_approval" =>
          st[s].attempts = 0 \/ st[s].stale \/ st[s].arts
    /\ th[s].pc \in {"entry", "entry_block"} => st[s].attempts = 0 \/ st[s].stale
    /\ th[s].pc = "exit" => st[s].arts \/ s \in MayBeEmpty
    /\ th[s].pc = "exit_block" => st[s].arts
    /\ th[s].pc \in {"start", "entry"} => ~th[s].fallback
    /\ th[s].fallback => s \in WithFallback
    /\ th[s].pc = "begin" =>
          IF th[s].fallback THEN th[s].attempt = AttemptLimit(s)
          ELSE th[s].attempt < AttemptLimit(s)
    /\ th[s].pc \in {"agent", "exit", "attempt_failed"} =>
          IF th[s].fallback THEN th[s].attempt = AttemptLimit(s) + 1
          ELSE th[s].attempt <= AttemptLimit(s)

-----------------------------------------------------------------------------
(* What is dead, and what is done, when nothing is inserted *)

(* What has been granted has not been taken back. *)
GrantsStand ==
    \A s \in Stages, g \in Gates, i \in Incarnations :
        <<s, g, i>> \in granted => approvals[s][g][i] = "approved"

(* The entry of s is refused to its present incarnation, by the first gate *)
(* that did not let it through.                                            *)
Barred(s) ==
    \E k \in 1 .. Len(EntryGates[s]) :
        /\ approvals[s][EntryGates[s][k]][st[s].inc] = "rejected"
        /\ \A j \in 1 .. k - 1 : approvals[s][EntryGates[s][j]][st[s].inc] = "approved"

(* A failure stands until the stage is set aside. *)
FailureStands(s) ==
    /\ st[s].status = "passed" => ~st[s].stale
    /\ st[s].status = "failed" /\ st[s].stale => Barred(s)
    /\ th[s].pc = "fail" /\ st[s].stale => Barred(s)
    /\ th[s].pc \in {"entry_block", "begin"} => st[s].status # "failed"

(* What is skipped is so for a failure above it. *)
SkippedBelowFailure ==
    \A s \in Stages : st[s].status = "skipped" =>
        \E t \in InitialGraph.nodes : st[t].status = "failed" /\ s \in DownstreamOf(InitialGraph, t)

(* A completed run has nothing left for a call of run() to do. *)
NothingLeft ==
    /\ \A s \in InitialGraph.nodes : st[s].status = "passed"
    /\ runnable = {} /\ skipping = {}
    /\ \A s \in Stages : th[s].pc = "none"

Standing ==
    /\ GrantsStand
    /\ \A s \in Stages : FailureStands(s)
    /\ SkippedBelowFailure
    /\ pc = "finish" => done = InitialGraph.nodes
    /\ pc = "idle" /\ status \in {"completed", "failed"} =>
          \A s \in InitialGraph.nodes : st[s].status \in Settled
    /\ status = "completed" => NothingLeft
=============================================================================
