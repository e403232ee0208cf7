------------------------------ MODULE Executor ------------------------------
(***************************************************************************)
(* The executor of the orchestrator (orchestrator/executor.py) together    *)
(* with the state it keeps in the state store (state_store.py), the gates  *)
(* (gates.py) and the operations other processes apply to the same store:  *)
(* approvals (cli.py), safe-stop and rollback (executor.py), re-planning   *)
(* (replanning.py).                                                        *)
(*                                                                         *)
(* The store survives everything.  The call of run() and the threads of    *)
(* its pool have program counters and locals, lost in a crash.  One        *)
(* database call of run() or of a stage thread is one step; a call of an   *)
(* operator (rollback_stage, invalidate_downstream, insert_stage) is one   *)
(* step, which is what it is to an executor that is not running.           *)
(***************************************************************************)
EXTENDS TaskGraph, Sequences

CONSTANTS
    Stages,          \* every stage id, those insert_stage may add included
    Gates,           \* gate ids
    ApprovalGates,   \* the gates of type APPROVAL; the others are policy gates
    EntryGates,      \* the entry gates of each stage, in order
    ExitGates,       \* the exit gates of each stage, in order
    MaxAttempts,     \* retry_policy.max_attempts of each stage
    WithFallback,    \* the stages with a retry_policy.fallback_agent
    MayBeEmpty,      \* the stages whose agent may succeed with no output
    InitialGraph,    \* the graph the run is created with
    Insertions,      \* the insertions re-planning may ask for
    MaxWorkers,      \* the executor's max_workers
    Operations,      \* what operators do, and whether the process may crash
    LiveOperations,  \* those of them that may happen while run() is in progress
    MaxIncarnation,  \* bound: incarnations of a stage
    MaxOperations    \* bound: operations, those on approvals aside

OperationNames ==
    {"safe_stop", "resume", "rollback", "invalidate", "insert", "revise", "crash",
     "restart"}

Graphs == [nodes : SUBSET Stages, deps : [Stages -> SUBSET Stages]]

ASSUME GatesAssumption ==
    /\ ApprovalGates \subseteq Gates
    /\ EntryGates \in [Stages -> Seq(Gates)]
    /\ ExitGates \in [Stages -> Seq(Gates)]
ASSUME PolicyAssumption ==
    /\ MaxAttempts \in [Stages -> Nat]
    /\ WithFallback \subseteq Stages
    /\ MayBeEmpty \subseteq Stages
ASSUME GraphAssumption == InitialGraph \in Graphs /\ Valid(InitialGraph)
ASSUME InsertionsAssumption ==
    Insertions \subseteq [stage : Stages, ups : SUBSET Stages, befores : SUBSET Stages]
ASSUME OperationsAssumption ==
    /\ Operations \subseteq OperationNames
    /\ LiveOperations \subseteq Operations
ASSUME BoundsAssumption ==
    /\ MaxWorkers \in Nat \ {0}
    /\ MaxIncarnation \in Nat
    /\ MaxOperations \in Nat

VARIABLES
    (* the state store *)
    status,       \* runs.status
    graph,        \* runs.graph_json
    st,           \* the StageState of each stage
    approvals,    \* the approvals table, by stage, gate and incarnation
    granted,      \* history: the approvals a human has ever granted
    (* one Executor and its call of run() *)
    pc,           \* where run() is
    mem,          \* self.graph
    done,         \* the stages of the layers already processed
    layer,        \* the layer in progress
    skipping,     \* the stages of the layer that _process_layer will skip
    runnable,     \* the stages of the layer it will hand to the pool
    verdict,      \* the status _finalize has computed
    th,           \* the thread of each stage: program counter and locals
    (* exploration *)
    operations    \* operations so far

storeVars == <<status, graph, st, approvals, granted>>
runVars == <<pc, mem, done, layer, skipping, runnable, verdict>>
vars == <<storeVars, runVars, th, operations>>

-----------------------------------------------------------------------------
(* Stage states *)

StageStatuses == {"pending", "blocked_approval", "running", "retrying",
                  "passed", "failed", "rolled_back", "skipped", "stale"}
RunStatuses == {"running", "paused_approval", "paused_safe_stop",
                "completed", "failed"}
Terminal == {"passed", "failed", "rolled_back", "skipped"}
Paused == {"paused_approval", "paused_safe_stop"}
Incarnations == 0 .. MaxIncarnation

StageStates == [status : StageStatuses, attempts : Nat, stale : BOOLEAN,
                inc : Incarnations, arts : BOOLEAN]

(* Bug: the enum's READY, which nothing in the executor acts upon. *)
NewStageReady == [status |-> "ready", attempts |-> 0, stale |-> FALSE,
                  inc |-> 0, arts |-> FALSE]

NewStage == [status |-> "pending", attempts |-> 0, stale |-> FALSE,
             inc |-> 0, arts |-> FALSE]

(* Bug: the stage is not marked as stale. *)
ResetUnmarked(state, to) == [state EXCEPT !.status = to, !.inc = @ + 1]

(* A stage that is set aside for re-execution, with status to. *)
Reset(state, to) ==
    [state EXCEPT !.status = to, !.stale = TRUE, !.inc = @ + 1]

(* Bug: a blocked stage is not taken up again. *)
IsActionableUnlessBlocked(state) ==
    state.status \in {"pending", "stale"} \/ state.stale

IsActionable(state) ==
    state.status \in {"pending", "blocked_approval", "stale"} \/ state.stale

(* Bug: a skipped dependency does not stop its dependents. *)
BlocksDependentsIfFailed(state) == state.status = "failed"

BlocksDependents(state) ==
    \/ state.status \in {"failed", "skipped"}
    \/ state.status = "rolled_back" /\ ~state.stale

(* Bug: the attempts of earlier incarnations count. *)
AttemptsEver(state) == state.attempts

(* The attempts that count when a stage is taken up: none if it is stale. *)
AttemptsSoFar(state) == IF state.stale THEN 0 ELSE state.attempts

AttemptLimit(s) == IF MaxAttempts[s] = 0 THEN 1 ELSE MaxAttempts[s]

ThreadPlaces == {"none", "start", "entry", "entry_block", "begin", "agent",
                 "exit", "exit_block", "recheck", "attempt_failed", "pass",
                 "fail", "propagate", "skip"}
NoThread == [pc |-> "none", inc |-> 0, gate |-> 1, attempt |-> 0,
             fallback |-> FALSE, skips |-> {}]
RunPlaces == {"idle", "unpause", "layer", "plan", "skip", "join", "pause",
              "reload", "finalize", "finish"}

Init ==
    /\ status = "running"
    /\ graph = InitialGraph
    /\ st = [s \in Stages |-> NewStage]
    /\ approvals = [s \in Stages |-> [g \in Gates |-> [i \in Incarnations |-> "none"]]]
    /\ granted = {}
    /\ pc = "idle"
    /\ mem = InitialGraph
    /\ done = {}
    /\ layer = {}
    /\ skipping = {}
    /\ runnable = {}
    /\ verdict = "running"
    /\ th = [s \in Stages |-> NoThread]
    /\ operations = 0

-----------------------------------------------------------------------------
(* run() *)

Return ==
    /\ pc' = "idle"
    /\ done' = {}
    /\ layer' = {}
    /\ skipping' = {}
    /\ runnable' = {}
    /\ verdict' = "running"

(* Reload the graph and look at the status: a safe-stop returns at once. *)
CallRun ==
    /\ pc = "idle"
    /\ mem' = graph
    /\ pc' = CASE status = "paused_safe_stop" -> "idle"
               [] status = "paused_approval" -> "unpause"
               [] OTHER -> "layer"
    /\ UNCHANGED <<storeVars, done, layer, skipping, runnable, verdict, th, operations>>

(* Bug: the pause is never lifted. *)
UnpauseWithout ==
    /\ pc = "unpause"
    /\ pc' = "layer"
    /\ UNCHANGED <<storeVars, mem, done, layer, skipping, runnable, verdict, th, operations>>

Unpause ==
    /\ pc = "unpause"
    /\ status' = "running"
    /\ pc' = "layer"
    /\ UNCHANGED <<graph, st, approvals, granted, mem, done, layer, skipping,
                   runnable, verdict, th, operations>>

(* The check at every layer boundary. *)
StartLayer ==
    /\ pc = "layer"
    /\ done # mem.nodes
    /\ IF status = "paused_safe_stop"
         THEN Return
         ELSE /\ pc' = "plan"
              /\ layer' = NextLayer(mem, done)
              /\ UNCHANGED <<done, skipping, runnable, verdict>>
    /\ UNCHANGED <<storeVars, mem, th, operations>>

(* One load decides the whole layer: who is skipped, who is run. *)
PlanLayer ==
    /\ pc = "plan"
    /\ LET actionable == {s \in layer : IsActionable(st[s])}
           blocked == {s \in actionable : \E d \in mem.deps[s] : BlocksDependents(st[d])}
       IN  /\ skipping' = blocked
           /\ runnable' = actionable \ blocked
    /\ pc' = "skip"
    /\ UNCHANGED <<storeVars, mem, done, layer, verdict, th, operations>>

Skipped(state) == [state EXCEPT !.status = "skipped"]

SkipBlocked(s) ==
    /\ pc = "skip"
    /\ s \in skipping
    /\ st' = [st EXCEPT ![s] = Skipped(@)]
    /\ skipping' = skipping \ {s}
    /\ UNCHANGED <<status, graph, approvals, granted, pc, mem, done, layer,
                   runnable, verdict, th, operations>>

Submit ==
    /\ pc = "skip"
    /\ skipping = {}
    /\ pc' = "join"
    /\ th' = [s \in Stages |-> IF s \in runnable THEN [NoThread EXCEPT !.pc = "start"]
                               ELSE th[s]]
    /\ UNCHANGED <<storeVars, mem, done, layer, skipping, runnable, verdict, operations>>

LayerDone ==
    /\ pc' = "layer"
    /\ done' = done \cup layer
    /\ layer' = {}
    /\ runnable' = {}
    /\ UNCHANGED <<skipping, verdict>>

(* Bug: the call waits until the people have decided. *)
JoinWhenDecided ==
    /\ pc = "join"
    /\ \A s \in Stages : th[s].pc = "none"
    /\ \A s \in layer : st[s].status = "blocked_approval" =>
          \A g \in ApprovalGates : approvals[s][g][st[s].inc] # "pending"
    /\ IF status \in Paused THEN Return ELSE LayerDone
    /\ UNCHANGED <<storeVars, mem, th, operations>>

(* Every future has its result: is any stage of the layer blocked? *)
Join ==
    /\ pc = "join"
    /\ \A s \in Stages : th[s].pc = "none"
    /\ IF \E s \in layer : st[s].status = "blocked_approval"
         THEN /\ pc' = "pause"
              /\ UNCHANGED <<done, layer, skipping, runnable, verdict>>
         ELSE IF status \in Paused THEN Return ELSE LayerDone
    /\ UNCHANGED <<storeVars, mem, th, operations>>

Pause ==
    /\ pc = "pause"
    /\ status' = "paused_approval"
    /\ pc' = "reload"
    /\ UNCHANGED <<graph, st, approvals, granted, mem, done, layer, skipping,
                   runnable, verdict, th, operations>>

Reload ==
    /\ pc = "reload"
    /\ IF status \in Paused THEN Return ELSE LayerDone
    /\ UNCHANGED <<storeVars, mem, th, operations>>

Finalize ==
    /\ pc = "layer"
    /\ done = mem.nodes
    /\ LET statuses == {st[s].status : s \in graph.nodes}
       IN  verdict' = CASE "failed" \in statuses -> "failed"
                        [] statuses \subseteq {"passed", "skipped"} -> "completed"
                        [] OTHER -> "running"
    /\ pc' = "finish"
    /\ UNCHANGED <<storeVars, mem, done, layer, skipping, runnable, th, operations>>

Finish ==
    /\ pc = "finish"
    /\ status' = verdict
    /\ Return
    /\ UNCHANGED <<graph, st, approvals, granted, mem, th, operations>>

RunStep ==
    \/ Unpause \/ StartLayer \/ PlanLayer \/ Submit \/ Join
    \/ Pause \/ Reload \/ Finalize \/ Finish
    \/ \E s \in Stages : SkipBlocked(s)

-----------------------------------------------------------------------------
(* A stage thread: _execute_stage *)

ThreadVars == <<status, graph, runVars, operations>>

At(s, place) == pc = "join" /\ th[s].pc = place
Goto(s, place) == th' = [th EXCEPT ![s].pc = place]
Exit(s) == th' = [th EXCEPT ![s] = NoThread]
Busy == {s \in Stages : th[s].pc \notin {"none", "start"}}

(* Bug: a blocked stage is always executed from the start. *)
WaitsNever(state) == FALSE
(* Bug: a stage that was set aside still answers for its old output. *)
WaitsEvenIfStale(state) == state.status = "blocked_approval" /\ state.arts

(* The stage waits on an exit gate over output it has already produced. *)
Waits(state) == state.status = "blocked_approval" /\ ~state.stale /\ state.arts

(* A worker of the pool takes the stage up and reads its state, once; if   *)
(* it waits, only its exit gates are checked again.                        *)
StartThread(s) ==
    /\ At(s, "start")
    /\ Cardinality(Busy) < MaxWorkers
    /\ th' = [th EXCEPT ![s] = [NoThread EXCEPT
                 !.pc = IF Waits(st[s]) THEN "recheck" ELSE "entry", !.inc = st[s].inc]]
    /\ UNCHANGED <<st, approvals, granted, ThreadVars>>

(* Gates are evaluated in order; the first that does not pass decides.     *)
GatesOf(s) == IF th[s].pc = "entry" THEN EntryGates[s] ELSE ExitGates[s]
Gate(s) == GatesOf(s)[th[s].gate]
MoreGates(s) == th[s].gate <= Len(GatesOf(s))
WhenBlocked(s) ==
    CASE th[s].pc = "entry" -> [th[s] EXCEPT !.pc = "entry_block"]
      [] th[s].pc = "exit" -> [th[s] EXCEPT !.pc = "exit_block"]
      [] OTHER -> NoThread                  \* still pending: stay blocked
WhenRejected(s) ==
    [th[s] EXCEPT !.pc = IF th[s].pc = "exit" THEN "attempt_failed" ELSE "fail"]
AtGate(s) ==
    /\ pc = "join"
    /\ th[s].pc \in {"entry", "exit", "recheck"}
    /\ MoreGates(s)

(* The request belongs to the incarnation the thread read. *)
RequestOf(s) == th[s].inc

(* ApprovalGateHandler.evaluate: the first evaluation creates the request. *)
CheckApproval(s) ==
    /\ AtGate(s)
    /\ Gate(s) \in ApprovalGates
    /\ LET decision == approvals[s][Gate(s)][RequestOf(s)] IN
         /\ th' = [th EXCEPT ![s] = CASE decision = "approved" -> [th[s] EXCEPT !.gate = @ + 1]
                                      [] decision = "rejected" -> WhenRejected(s)
                                      [] OTHER -> WhenBlocked(s)]
         /\ approvals' = IF decision = "none"
                           THEN [approvals EXCEPT ![s][Gate(s)][RequestOf(s)] = "pending"]
                           ELSE approvals
    /\ UNCHANGED <<st, granted, ThreadVars>>

(* GuardrailEngine.check: a policy passes or fails the output it is shown. *)
CheckPolicy(s) ==
    /\ AtGate(s)
    /\ Gate(s) \notin ApprovalGates
    /\ \/ th' = [th EXCEPT ![s].gate = @ + 1]
       \/ th' = [th EXCEPT ![s] = WhenRejected(s)]
    /\ UNCHANGED <<st, approvals, granted, ThreadVars>>

Block(s) ==
    /\ pc = "join"
    /\ th[s].pc \in {"entry_block", "exit_block"}
    /\ st' = [st EXCEPT ![s].status = "blocked_approval"]
    /\ Exit(s)
    /\ UNCHANGED <<approvals, granted, ThreadVars>>

(* The entry gates have passed: the attempts made so far count, unless the *)
(* stage is stale.                                                         *)
Enter(s) ==
    /\ At(s, "entry")
    /\ ~MoreGates(s)
    /\ th' = [th EXCEPT ![s] = [@ EXCEPT !.pc = "begin",
                 !.attempt = AttemptsSoFar(st[s])]]
    /\ UNCHANGED <<st, approvals, granted, ThreadVars>>

BeginAttempt(s) ==
    /\ At(s, "begin")
    /\ LET attempt == th[s].attempt + 1 IN
         /\ st' = [st EXCEPT ![s] = [@ EXCEPT
                      !.status = IF attempt = 1 THEN "running" ELSE "retrying",
                      !.attempts = attempt, !.stale = FALSE]]
         /\ th' = [th EXCEPT ![s] = [@ EXCEPT !.pc = "agent", !.attempt = attempt]]
    /\ UNCHANGED <<approvals, granted, ThreadVars>>

(* No such agent, an exception or an unsuccessful result. *)
AgentFails(s) ==
    /\ At(s, "agent")
    /\ Goto(s, "attempt_failed")
    /\ UNCHANGED <<st, approvals, granted, ThreadVars>>

(* Success: the output is persisted, then the exit gates look at it. *)
AgentSucceeds(s) ==
    /\ At(s, "agent")
    /\ \E some \in IF s \in MayBeEmpty THEN BOOLEAN ELSE {TRUE} :
         st' = [st EXCEPT ![s].arts = @ \/ some]
    /\ th' = [th EXCEPT ![s] = [@ EXCEPT !.pc = "exit", !.gate = 1]]
    /\ UNCHANGED <<approvals, granted, ThreadVars>>

(* The exit gates, or their re-check, have passed. *)
Accept(s) ==
    /\ pc = "join"
    /\ th[s].pc \in {"exit", "recheck"}
    /\ ~MoreGates(s)
    /\ Goto(s, "pass")
    /\ UNCHANGED <<st, approvals, granted, ThreadVars>>

PassStage(s) ==
    /\ At(s, "pass")
    /\ st' = [st EXCEPT ![s].status = "passed"]
    /\ Exit(s)
    /\ UNCHANGED <<approvals, granted, ThreadVars>>

(* A failed attempt is retried, then handed once to the fallback agent,    *)
(* then fails the stage.                                                   *)
RetryStage(s) ==
    /\ At(s, "attempt_failed")
    /\ th[s].attempt < AttemptLimit(s)
    /\ st' = [st EXCEPT ![s] = [@ EXCEPT !.status = "retrying", !.attempts = th[s].attempt]]
    /\ Goto(s, "begin")
    /\ UNCHANGED <<approvals, granted, ThreadVars>>

InvokeFallback(s) ==
    /\ At(s, "attempt_failed")
    /\ th[s].attempt >= AttemptLimit(s)
    /\ s \in WithFallback
    /\ ~th[s].fallback
    /\ th' = [th EXCEPT ![s] = [@ EXCEPT !.pc = "begin", !.fallback = TRUE]]
    /\ UNCHANGED <<st, approvals, granted, ThreadVars>>

GiveUp(s) ==
    /\ At(s, "attempt_failed")
    /\ th[s].attempt >= AttemptLimit(s)
    /\ s \in WithFallback => th[s].fallback
    /\ Goto(s, "fail")
    /\ UNCHANGED <<st, approvals, granted, ThreadVars>>

(* The attempts of a stage whose gate was rejected without an attempt stay *)
(* what they are; a failed attempt has already recorded its own number.    *)
FailStage(s) ==
    /\ At(s, "fail")
    /\ st' = [st EXCEPT ![s].status = "failed"]
    /\ Goto(s, "propagate")
    /\ UNCHANGED <<approvals, granted, ThreadVars>>

(* One load decides which stages the failure skips... *)
Propagate(s) ==
    /\ At(s, "propagate")
    /\ LET hit == {d \in DownstreamOf(mem, s) : st[d].status \notin Terminal} IN
         th' = [th EXCEPT ![s] = [@ EXCEPT !.pc = "skip", !.skips = hit]]
    /\ UNCHANGED <<st, approvals, granted, ThreadVars>>

(* ...and each of them is then saved on its own. *)
SkipDownstream(s, d) ==
    /\ At(s, "skip")
    /\ d \in th[s].skips
    /\ st' = [st EXCEPT ![d] = Skipped(@)]
    /\ th' = [th EXCEPT ![s].skips = @ \ {d}]
    /\ UNCHANGED <<approvals, granted, ThreadVars>>

Propagated(s) ==
    /\ At(s, "skip")
    /\ th[s].skips = {}
    /\ Exit(s)
    /\ UNCHANGED <<st, approvals, granted, ThreadVars>>

ThreadStep(s) ==
    \/ StartThread(s) \/ CheckApproval(s) \/ CheckPolicy(s) \/ Block(s)
    \/ Enter(s) \/ BeginAttempt(s) \/ AgentFails(s) \/ AgentSucceeds(s)
    \/ Accept(s) \/ PassStage(s)
    \/ RetryStage(s) \/ InvokeFallback(s) \/ GiveUp(s)
    \/ FailStage(s) \/ Propagate(s) \/ Propagated(s)
    \/ \E d \in Stages : SkipDownstream(s, d)

-----------------------------------------------------------------------------
(* What people and other processes do to the store *)

Operate(name) ==
    /\ name \in Operations
    /\ pc = "idle" \/ name \in LiveOperations
    /\ operations < MaxOperations
    /\ operations' = operations + 1

(* Bug: stages that were skipped stay skipped. *)
AffectedUnlessSkipped(g, s) ==
    {d \in DownstreamOf(g, s) : st[d].status \notin {"pending", "skipped"}}

(* The stages a change to s sets aside: all that is downstream and has left *)
(* pending.                                                                 *)
Affected(g, s) == {d \in DownstreamOf(g, s) : st[d].status # "pending"}

CanReset(S) == \A d \in S : st[d].inc < MaxIncarnation

(* Executor.request_safe_stop, Executor.resume_from_safe_stop *)
RequestSafeStop ==
    /\ Operate("safe_stop")
    /\ status' = "paused_safe_stop"
    /\ UNCHANGED <<graph, st, approvals, granted, runVars, th>>

ResumeFromSafeStop ==
    /\ Operate("resume")
    /\ status' = "running"
    /\ UNCHANGED <<graph, st, approvals, granted, runVars, th>>

(* Bug: the run keeps the status it has. *)
StatusKept == status

(* The status of a run after a change of plan. *)
Reopened == "running"

(* Executor.rollback_stage: any stage of the run, in whatever state.  It   *)
(* walks self.graph, not the graph in the store.                           *)
Rollback(s) ==
    /\ Operate("rollback")
    /\ s \in graph.nodes
    /\ CanReset(Affected(mem, s) \cup {s})
    /\ st' = [d \in Stages |->
                IF d = s THEN Reset(st[d], "rolled_back")
                ELSE IF d \in Affected(mem, s) THEN Reset(st[d], "stale")
                ELSE st[d]]
    /\ status' = Reopened
    /\ UNCHANGED <<graph, approvals, granted, runVars, th>>

(* Replanner.invalidate_downstream *)
Invalidate(s) ==
    /\ Operate("invalidate")
    /\ s \in graph.nodes
    /\ CanReset(Affected(graph, s) \cup {s})
    /\ st' = [d \in Stages |-> IF d \in Affected(graph, s) \cup {s}
                                 THEN Reset(st[d], "stale") ELSE st[d]]
    /\ status' = Reopened
    /\ UNCHANGED <<graph, approvals, granted, runVars, th>>

(* Replanner.insert_stage: a graph that does not validate changes nothing. *)
(* Only the stages it is inserted before are set aside.                    *)
InsertStage(new) ==
    LET larger == WithStage(graph, new.stage, new.ups, new.befores)
        reset == {d \in new.befores : st[d].status # "pending"}
    IN
    /\ Operate("insert")
    /\ new.stage \notin graph.nodes
    /\ new.befores \subseteq graph.nodes
    /\ Valid(larger)
    /\ CanReset(reset)
    /\ st' = [d \in Stages |-> IF d \in reset THEN Reset(st[d], "stale")
                               ELSE IF d = new.stage THEN NewStage ELSE st[d]]
    /\ graph' = larger
    /\ status' = Reopened
    /\ UNCHANGED <<approvals, granted, runVars, th>>

(* StateStore.resolve_approval, by a person.  The CLI is for pending       *)
(* requests; the store overwrites a decided one as well.                   *)
Resolve(s, g, i, decision) ==
    /\ \/ approvals[s][g][i] = "pending"
       \/ "revise" \in Operations /\ approvals[s][g][i] \in {"approved", "rejected"} \ {decision}
    /\ approvals' = [approvals EXCEPT ![s][g][i] = decision]
    /\ granted' = IF decision = "approved" THEN granted \cup {<<s, g, i>>} ELSE granted
    /\ UNCHANGED <<status, graph, st, runVars, th, operations>>

(* The process dies: the store keeps what was saved.  The scenario runners *)
(* build the next Executor with the graph of their own source code.        *)
Crash ==
    /\ Operate("crash")
    /\ pc # "idle"
    /\ Return
    /\ mem' = InitialGraph
    /\ th' = [s \in Stages |-> NoThread]
    /\ UNCHANGED storeVars

(* A new process takes the run up: every call of a scenario runner is one. *)
Restart ==
    /\ Operate("restart")
    /\ pc = "idle"
    /\ mem # InitialGraph
    /\ mem' = InitialGraph
    /\ UNCHANGED <<storeVars, pc, done, layer, skipping, runnable, verdict, th>>

Decide == \E s \in Stages, g \in ApprovalGates, i \in Incarnations,
             decision \in {"approved", "rejected"} : Resolve(s, g, i, decision)

OperatorStep ==
    \/ RequestSafeStop \/ ResumeFromSafeStop \/ Crash \/ Restart \/ Decide
    \/ \E s \in Stages : Rollback(s) \/ Invalidate(s)
    \/ \E new \in Insertions : InsertStage(new)

Next == CallRun \/ RunStep \/ (\E s \in Stages : ThreadStep(s)) \/ OperatorStep

Spec == Init /\ [][Next]_vars

(* The threads of the pool and the call of run() get processor time, and   *)
(* every agent returns.                                                    *)
Fairness ==
    /\ WF_vars(RunStep)
    /\ \A s \in Stages : WF_vars(ThreadStep(s))
FairSpec == Spec /\ Fairness

(* People do their part: run() is called again and requests get decided.   *)
DecideOn(s, g, i) ==
    /\ approvals[s][g][i] = "pending"
    /\ \E decision \in {"approved", "rejected"} : Resolve(s, g, i, decision)
Attended ==
    /\ WF_vars(CallRun)
    /\ WF_vars(\E s \in Stages, g \in ApprovalGates, i \in Incarnations : DecideOn(s, g, i))

-----------------------------------------------------------------------------
(* Properties *)

Places == [pc : ThreadPlaces, inc : Incarnations, gate : Nat \ {0}, attempt : Nat,
           fallback : BOOLEAN, skips : SUBSET Stages]

(* Every variable holds what the code can store in it. *)
TypeOK ==
    /\ status \in RunStatuses
    /\ graph \in Graphs
    /\ st \in [Stages -> StageStates]
    /\ approvals \in [Stages -> [Gates -> [Incarnations ->
                          {"none", "pending", "approved", "rejected"}]]]
    /\ granted \subseteq Stages \X Gates \X Incarnations
    /\ pc \in RunPlaces
    /\ mem \in Graphs
    /\ done \subseteq Stages
    /\ layer \subseteq Stages
    /\ skipping \subseteq Stages
    /\ runnable \subseteq Stages
    /\ verdict \in RunStatuses
    /\ th \in [Stages -> Places]
    /\ operations \in Nat

Granted(s, gates, i) ==
    \A k \in 1 .. Len(gates[s]) :
        gates[s][k] \in ApprovalGates => <<s, gates[s][k], i>> \in granted

(* Governance: a stage counts as passed, and its agent runs, only with the *)
(* approval of a person for this very incarnation, across pauses, retries, *)
(* rollbacks, re-planning and crashes (gates.py:66-71).                    *)
Governed ==
    \A s \in Stages :
        /\ st[s].status = "passed" =>
              Granted(s, EntryGates, st[s].inc) /\ Granted(s, ExitGates, st[s].inc)
        /\ th[s].pc = "agent" => Granted(s, EntryGates, st[s].inc)

(* A layer is a barrier: while an agent runs, everything its stage depends *)
(* on has passed (executor.py:9-14).                                       *)
DependenciesFirst ==
    \A s \in Stages : th[s].pc = "agent" =>
        \A d \in mem.deps[s] : st[d].status = "passed"

(* Retries are bounded: an incarnation of a stage gets at most its         *)
(* max_attempts and one attempt of the fallback agent.                     *)
AttemptsBounded ==
    \A s \in Stages :
        st[s].attempts <= AttemptLimit(s) + (IF s \in WithFallback THEN 1 ELSE 0)

(* A stage that waits has somebody to wait for: its approval was asked of  *)
(* a person for the incarnation that waits (gates.py:78-91).               *)
BlockedIsAsked ==
    \A s \in Stages : st[s].status = "blocked_approval" =>
        \E g \in ApprovalGates : approvals[s][g][st[s].inc] # "none"

(* A run is paused for approval only if one of its stages really waits.    *)
PausedIsBlocked ==
    status = "paused_approval" =>
        \E s \in graph.nodes : st[s].status = "blocked_approval"

(* A run that is reported completed has no stage left to do or to redo.    *)
CompletedIsDone ==
    status = "completed" =>
        \A s \in graph.nodes : st[s].status \in {"passed", "skipped"} /\ ~IsActionable(st[s])

(* When a call of run() has settled the run, a stage that stays skipped    *)
(* depends on a stage that failed or was skipped itself: a branch is dead  *)
(* only below a failure that still stands (architecture.md:92-95).         *)
SkippedForAReason ==
    pc = "idle" /\ status \in {"completed", "failed"} =>
        \A s \in graph.nodes : st[s].status = "skipped" /\ ~st[s].stale =>
            \E d \in graph.deps[s] : st[d].status \in {"failed", "skipped"}

(* A stage that waits on its exit gate with output it has produced is not  *)
(* executed again in the same incarnation (executor.py:239-246).           *)
NoRerunOnResume ==
    [][\A s \in Stages :
          /\ st[s].status = "blocked_approval" /\ st[s].arts /\ ~st[s].stale
          /\ st'[s].inc = st[s].inc
          => st'[s].status \notin {"running", "retrying"}]_vars

(* A safe-stop holds until an operator clears it (executor.py:123-124).    *)
SafeStopIsSticky ==
    [][status = "paused_safe_stop" /\ status' # "paused_safe_stop"
          => ResumeFromSafeStop]_vars

(* Every call of run() returns: it never waits for a person.               *)
RunReturns == pc # "idle" ~> pc = "idle"

(* A run that people attend to is decided again and again, whatever was    *)
(* rolled back, re-planned or rejected on the way, unless an operator has  *)
(* stopped it (architecture.md:154).                                       *)
Settles == Attended => []<>(status \in {"completed", "failed", "paused_safe_stop"})
=============================================================================
