------------------------------ MODULE Lineage ------------------------------
(***************************************************************************)
(* The decision lineage: the rows of the stages and the trail of decisions *)
(* about them, written one transaction of state_store.py at a time.        *)
(*                                                                         *)
(* Every change of a row is a load and a save of the whole row; every      *)
(* decision of the executor is four transactions (_log_decision).  The     *)
(* handlers of executor.py and replanning.py are lists of them: a worker   *)
(* works its list off, and then decides what comes next.  The process may  *)
(* die between any two.  What Executor keeps apart, gates and approvals,   *)
(* is an arbitrary answer here.                                            *)
(***************************************************************************)
EXTENDS TaskGraph, Observability

Runner == "runner"  \* the thread that calls run() or an operator's method

CONSTANTS
    Stages,        \* every stage id, those insert_stage may add included
    InitialGraph,  \* the graph the run is created with
    Insertions,    \* the insertions re-planning may ask for
    MaxAttempts,   \* retry_policy.max_attempts of each stage, at least 1
    WithFallback,  \* the stages with a retry_policy.fallback_agent
    EntryGated,    \* the stages with entry gates
    ExitGated,     \* the stages with exit gates
    Operations,    \* what operators do, and whether the process may die
    MaxCalls,      \* bound: calls of run() and of operators
    CrashCalls     \* bound: the calls, by number, in which the process may die

ASSUME LineageAssumption ==
    /\ IsFiniteSet(Stages) /\ Runner \notin Stages
    /\ InitialGraph \in [nodes : SUBSET Stages, deps : [Stages -> SUBSET Stages]]
    /\ \A s \in Stages \ InitialGraph.nodes : InitialGraph.deps[s] = {}
    /\ Valid(InitialGraph)
    /\ Insertions \subseteq [stage : Stages, ups : SUBSET Stages, befores : SUBSET Stages]
    /\ MaxAttempts \in [Stages -> Nat \ {0}]
    /\ Operations \subseteq {"rollback", "invalidate", "insert", "crash"}

VARIABLES
    (* the state store *)
    status,    \* runs.status
    graph,     \* runs.graph_json
    rows,      \* stage_states: the row of each stage
    trail,     \* decisions: those about each stage, in order
    audited,   \* audit_events: the decisions of each stage that have one
    (* the process *)
    work,      \* each worker: its transactions to come, and its locals
    th,        \* each thread of the pool: where _execute_stage is
    main,      \* where run() is, and the stage an operator's call is about
    mem,       \* self.graph
    done,      \* the stages of the layers already processed
    layer,     \* the layer in progress
    (* history *)
    cut,       \* stages with a transaction that a crash prevented, since their last decision
    torn,      \* calls a crash interrupted that have not been repeated
    calls      \* calls so far

storeVars == <<status, graph, rows, trail, audited>>
vars == <<storeVars, work, th, main, mem, done, layer, cut, torn, calls>>

Workers == Stages \cup {Runner}

NoRow == [status |-> "none"]
NewRow == [status |-> "pending", attempts |-> 0, stale |-> FALSE, rollbacks |-> 0,
           arts |-> FALSE, ids |-> {}, span |-> "never"]
Resting == [todo |-> <<>>, held |-> NoRow, decision |-> 0]
NoThread == [at |-> "none", attempt |-> 0, fallback |-> FALSE]

Init ==
    /\ status = "running"
    /\ graph = InitialGraph
    /\ rows = [s \in Stages |-> IF s \in InitialGraph.nodes THEN NewRow ELSE NoRow]
    /\ trail = [s \in Stages |-> <<>>]
    /\ audited = [s \in Stages |-> {}]
    /\ work = [w \in Workers |-> Resting]
    /\ th = [s \in Stages |-> NoThread]
    /\ main = [at |-> "idle", target |-> {}]
    /\ mem = InitialGraph
    /\ done = {}
    /\ layer = {}
    /\ cut = {}
    /\ torn = {}
    /\ calls = 0

-----------------------------------------------------------------------------
(* Lists of transactions *)

Load(s) == [op |-> "load", stage |-> s]
Save(s, change, n) == [op |-> "save", stage |-> s, change |-> change, n |-> n]
Record(s, action, by) == [op |-> "record", stage |-> s, action |-> action, by |-> by]
Audit(s) == [op |-> "audit", stage |-> s]
SetStatus(to, closes) == [op |-> "status", to |-> to, closes |-> closes]

(* Executor._update_stage *)
Update(s, change, n) == <<Load(s), Save(s, change, n)>>

(* Bug: the event is written before the decision is linked. *)
LogAuditFirst(s, action) ==
    <<Record(s, action, "executor"), Audit(s), Load(s), Save(s, "link", 0)>>

(* Executor._log_decision *)
Log(s, action) ==
    <<Record(s, action, "executor"), Load(s), Save(s, "link", 0), Audit(s)>>

(* Replanner._log: the row does not hear of it. *)
Note(s, action) == <<Record(s, action, "replanner"), Audit(s)>>

(* Bug: a skip is not logged. *)
SkipUnlogged(s) == Update(s, "skip", 0)

(* Executor._skip_stage *)
Skip(s) == Update(s, "skip", 0) \o Log(s, "stage_skipped")

(* Executor._fail_stage_and_propagate, up to the failure of s itself *)
Fail(s, attempts) == Update(s, "fail", attempts) \o Log(s, "stage_failed")

(* A stage that is downstream of a change is set aside, and that logged,   *)
(* unless its row turns out to be pending.                                 *)
Aside(s, log) == <<Load(s), [op |-> "aside", stage |-> s, log |-> log]>>

InOrder(S) == SetToSeq(S)
ForAll(S, calls_(_)) == FlattenSeq([i \in 1 .. Cardinality(S) |-> calls_(InOrder(S)[i])])

Start(span) == IF span \in {"never", "started"} THEN "started" ELSE "backwards"
(* Bug: a stage keeps its first end. *)
EndOnce(span) == IF span \in {"never", "ended"} THEN "ended"
                 ELSE IF span = "started" THEN "forward" ELSE span

End(span) == IF span \in {"never", "ended"} THEN "ended" ELSE "forward"

(* What a save makes of the row that was loaded for it. *)
Changed(row, change, n, decision) ==
    CASE change = "begin" ->
           [row EXCEPT !.status = IF n = 1 THEN "running" ELSE "retrying",
                       !.attempts = n, !.stale = FALSE,
                       !.span = IF n = 1 THEN Start(@) ELSE @]
      [] change = "retry" -> [row EXCEPT !.status = "retrying", !.attempts = n]
      [] change = "block" -> [row EXCEPT !.status = "blocked_approval"]
      [] change = "output" -> [row EXCEPT !.arts = TRUE]
      [] change = "pass" -> [row EXCEPT !.status = "passed", !.span = End(@)]
      [] change = "fail" ->
           [row EXCEPT !.status = "failed", !.attempts = IF n > 0 THEN n ELSE @, !.span = End(@)]
      [] change = "skip" -> [row EXCEPT !.status = "skipped", !.span = End(@)]
      [] change = "roll_back" ->
           [row EXCEPT !.status = "rolled_back", !.rollbacks = @ + 1, !.stale = TRUE, !.span = End(@)]
      [] change = "set_aside" -> [row EXCEPT !.status = "stale", !.stale = TRUE]
      [] change = "link" -> [row EXCEPT !.ids = @ \cup {decision}]

-----------------------------------------------------------------------------
(* The next transaction of a worker *)

Upcoming(w) == Head(work[w].todo)
StagesOf(list) ==
    {s \in Stages : \E i \in DOMAIN list : list[i].op \notin {"status", "graph"} /\ list[i].stage = s}
CallAtWork == IF main.at = "idle" THEN main.target ELSE {Runner}

Works(w, op) == work[w].todo # <<>> /\ Upcoming(w).op = op
Worked(w) ==
    IF Len(work[w].todo) = 1 THEN Resting ELSE [work[w] EXCEPT !.todo = Tail(@)]
processVars == <<th, main, mem, done, layer, calls>>

(* A stage of the graph that has no row: a KeyError ends the thread, or    *)
(* the call; run() raises it again when the other threads are through.     *)
RaiseKeyError(w) ==
    /\ Works(w, "load")
    /\ rows[Upcoming(w).stage] = NoRow
    /\ work' = [work EXCEPT ![w] = Resting]
    /\ th' = [s \in Stages |-> IF s = w THEN NoThread ELSE th[s]]
    /\ main' = [main EXCEPT !.at = IF w = Runner THEN "idle" ELSE "raised"]
    /\ cut' = cut \cup StagesOf(work[w].todo)
    /\ torn' = torn \cup CallAtWork
    /\ UNCHANGED <<storeVars, mem, done, layer, calls>>

LoadRow(w) ==
    /\ Works(w, "load")
    /\ rows[Upcoming(w).stage] # NoRow
    /\ work' = [work EXCEPT ![w] = [Worked(w) EXCEPT !.held = rows[Upcoming(w).stage]]]
    /\ UNCHANGED <<storeVars, cut, torn, processVars>>

SaveRow(w) ==
    /\ Works(w, "save")
    /\ LET op == Upcoming(w) IN
         rows' = [rows EXCEPT ![op.stage] =
                     Changed(work[w].held, op.change, op.n, work[w].decision)]
    /\ work' = [work EXCEPT ![w] = [Worked(w) EXCEPT !.held = NoRow]]
    /\ UNCHANGED <<status, graph, trail, audited, cut, torn, processVars>>

RecordDecision(w) ==
    /\ Works(w, "record")
    /\ LET op == Upcoming(w) IN
         /\ trail' = [trail EXCEPT ![op.stage] = Append(@, [action |-> op.action, by |-> op.by])]
         /\ work' = [work EXCEPT ![w] = [Worked(w) EXCEPT !.decision = Len(trail[op.stage]) + 1]]
         /\ cut' = cut \ {op.stage}
    /\ UNCHANGED <<status, graph, rows, audited, torn, processVars>>

AppendAuditEvent(w) ==
    /\ Works(w, "audit")
    /\ audited' = [audited EXCEPT ![Upcoming(w).stage] = @ \cup {work[w].decision}]
    /\ work' = [work EXCEPT ![w] = Worked(w)]
    /\ UNCHANGED <<status, graph, rows, trail, cut, torn, processVars>>

SetAside(w) ==
    /\ Works(w, "aside")
    /\ LET op == Upcoming(w)
           row == work[w].held
       IN  IF row.status = "pending"
             THEN /\ work' = [work EXCEPT ![w] = Worked(w)]
                  /\ UNCHANGED rows
             ELSE /\ work' = [work EXCEPT ![w] = [Worked(w) EXCEPT !.todo = op.log \o @]]
                  /\ rows' = [rows EXCEPT ![op.stage] = Changed(row, "set_aside", 0, 0)]
    /\ UNCHANGED <<status, graph, trail, audited, cut, torn, processVars>>

UpdateRun(w) ==
    /\ Works(w, "status")
    /\ status' = Upcoming(w).to
    /\ torn' = torn \ Upcoming(w).closes
    /\ work' = [work EXCEPT ![w] = Worked(w)]
    /\ main' = [main EXCEPT !.target = {}]
    /\ UNCHANGED <<graph, rows, trail, audited, cut, th, mem, done, layer, calls>>

UpdateGraph(w) ==
    /\ Works(w, "graph")
    /\ graph' = Upcoming(w).to
    /\ work' = [work EXCEPT ![w] = Worked(w)]
    /\ UNCHANGED <<status, rows, trail, audited, cut, torn, processVars>>

CreateRow(w) ==
    /\ Works(w, "create")
    /\ rows' = [rows EXCEPT ![Upcoming(w).stage] = NewRow]
    /\ work' = [work EXCEPT ![w] = Worked(w)]
    /\ UNCHANGED <<status, graph, trail, audited, cut, torn, processVars>>

Transaction(w) ==
    \/ RaiseKeyError(w) \/ LoadRow(w) \/ SaveRow(w) \/ RecordDecision(w) \/ AppendAuditEvent(w)
    \/ SetAside(w) \/ UpdateRun(w) \/ UpdateGraph(w) \/ CreateRow(w)

-----------------------------------------------------------------------------
(* run() *)

Free(w) == work[w].todo = <<>>
Idle == main.at = "idle" /\ Free(Runner)
Do(w, list) == work' = [work EXCEPT ![w].todo = list]
Called == calls < MaxCalls /\ calls' = calls + 1

(* Bug: a stage that was rolled back is not taken up again. *)
IsActionableByStatus(row) == row.status \in {"pending", "blocked_approval", "stale"}

IsActionable(row) == row.status \in {"pending", "blocked_approval", "stale"} \/ row.stale
BlocksDependents(row) ==
    \/ row.status \in {"failed", "skipped"}
    \/ row.status = "rolled_back" /\ ~row.stale
Terminal == {"passed", "failed", "rolled_back", "skipped"}

CallRun ==
    /\ Idle
    /\ Called
    /\ mem' = graph
    /\ main' = [at |-> "layer", target |-> {}]
    /\ done' = {}
    /\ Do(Runner, IF status = "paused_approval" THEN <<SetStatus("running", {})>> ELSE <<>>)
    /\ UNCHANGED <<storeVars, th, layer, cut, torn>>

ReturnWith(list) ==
    /\ main' = [at |-> "idle", target |-> {}]
    /\ layer' = {}
    /\ done' = {}
    /\ Do(Runner, list)

(* One load decides the layer.  A stage of the graph that has no row ends  *)
(* the call with a KeyError, some of the layer skipped.                    *)
PlanLayer ==
    /\ main.at = "layer" /\ Free(Runner)
    /\ done # mem.nodes
    /\ LET next == NextLayer(mem, done)
           todo == {s \in next : rows[s] # NoRow /\ IsActionable(rows[s])}
           skipped == {s \in todo : \E d \in mem.deps[s] : BlocksDependents(rows[d])}
       IN  IF \E s \in next : rows[s] = NoRow
             THEN /\ \E before \in SUBSET skipped : ReturnWith(ForAll(before, Skip))
                  /\ UNCHANGED th
             ELSE /\ layer' = next
                  /\ UNCHANGED done
                  /\ main' = [main EXCEPT !.at = "join"]
                  /\ Do(Runner, ForAll(skipped, Skip))
                  /\ th' = [s \in Stages |-> IF s \in todo \ skipped
                                THEN [NoThread EXCEPT !.at = "start"] ELSE NoThread]
    /\ UNCHANGED <<storeVars, mem, cut, torn, calls>>

Join ==
    /\ main.at \in {"join", "raised"} /\ Free(Runner)
    /\ \A s \in Stages : th[s].at = "none" /\ Free(s)
    /\ CASE main.at = "raised" -> ReturnWith(<<>>) 
         [] main.at = "join" /\ \E s \in layer : rows[s].status = "blocked_approval" ->
              ReturnWith(<<SetStatus("paused_approval", {})>>) 
         [] OTHER ->
              /\ main' = [main EXCEPT !.at = "layer"]
              /\ done' = done \cup layer
              /\ layer' = {}
              /\ UNCHANGED work
    /\ UNCHANGED <<storeVars, th, mem, cut, torn, calls>>

FinalStatus(statuses) ==
    CASE "failed" \in statuses -> "failed"
      [] statuses \subseteq {"passed", "skipped"} -> "completed"
      [] OTHER -> "running"

Finalize ==
    /\ main.at = "layer" /\ Free(Runner)
    /\ done = mem.nodes
    /\ LET statuses == {rows[s].status : s \in Stages} \ {"none"} IN
         ReturnWith(<<SetStatus(FinalStatus(statuses), {})>>)
    /\ UNCHANGED <<storeVars, th, mem, cut, torn, calls>>

-----------------------------------------------------------------------------
(* _execute_stage: what a thread does when its transactions are through *)

At(s, place) == main.at \in {"join", "raised"} /\ Free(Runner) /\ th[s].at = place /\ Free(s)
Proceed(s, place, list) ==
    /\ th' = [th EXCEPT ![s].at = place]
    /\ Do(s, list)
    /\ UNCHANGED <<storeVars, main, mem, done, layer, cut, torn, calls>>
Quit(s, list) ==
    /\ th' = [th EXCEPT ![s] = NoThread]
    /\ Do(s, list)
    /\ UNCHANGED <<storeVars, main, mem, done, layer, cut, torn, calls>>

Waits(row) == row.status = "blocked_approval" /\ ~row.stale /\ row.arts

StartThread(s) ==
    /\ At(s, "start")
    /\ Proceed(s, IF Waits(rows[s]) THEN "recheck" ELSE "entry", <<>>)

EntryBlocks(s) ==
    /\ At(s, "entry") /\ s \in EntryGated
    /\ Quit(s, Update(s, "block", 0) \o Log(s, "entry_gate_blocked"))

EntryRejects(s) ==
    /\ At(s, "entry") /\ s \in EntryGated
    /\ Proceed(s, "propagate", Log(s, "entry_gate_rejected") \o Fail(s, 0))

(* Bug: the attempts of earlier incarnations count. *)
AttemptsEver(row) == row.attempts

AttemptsSoFar(row) == IF row.stale THEN 0 ELSE row.attempts

(* The first attempt, of those this incarnation has left. *)
Enter(s) ==
    /\ At(s, "entry")
    /\ LET attempt == AttemptsSoFar(rows[s]) + 1 IN
         /\ th' = [th EXCEPT ![s] = [@ EXCEPT !.at = "agent", !.attempt = attempt]]
         /\ Do(s, Update(s, "begin", attempt) \o Log(s, "attempt_started"))
    /\ UNCHANGED <<storeVars, main, mem, done, layer, cut, torn, calls>>

AgentFails(s) ==
    /\ At(s, "agent")
    /\ Proceed(s, "again", Log(s, "attempt_failed"))

AgentSucceeds(s) ==
    /\ At(s, "agent")
    /\ Proceed(s, "exit", Update(s, "output", 0))

ExitPasses(s) ==
    /\ At(s, "exit") \/ At(s, "recheck")
    /\ Quit(s, Update(s, "pass", 0) \o Log(s, "stage_passed"))

ExitBlocks(s) ==
    /\ s \in ExitGated
    /\ \/ At(s, "exit") /\ Quit(s, Update(s, "block", 0) \o Log(s, "exit_gate_blocked"))
       \/ At(s, "recheck") /\ Quit(s, <<>>)

ExitFails(s) ==
    /\ s \in ExitGated
    /\ \/ At(s, "exit") /\ Proceed(s, "again", Log(s, "exit_gate_failed"))
       \/ /\ At(s, "recheck")
          /\ Proceed(s, "propagate", Log(s, "exit_gate_failed") \o Fail(s, 0))

(* A retry, or the one attempt of the fallback agent. *)
TryAgain(s) ==
    /\ At(s, "again")
    /\ LET attempt == th[s].attempt
           begin == Update(s, "begin", attempt + 1) \o Log(s, "attempt_started")
           next == [th[s] EXCEPT !.at = "agent", !.attempt = attempt + 1]
       IN  \/ /\ attempt < MaxAttempts[s]
              /\ Do(s, Update(s, "retry", attempt) \o begin)
              /\ th' = [th EXCEPT ![s] = next]
           \/ /\ attempt >= MaxAttempts[s]
              /\ s \in WithFallback /\ ~th[s].fallback
              /\ Do(s, Log(s, "fallback_invoked") \o begin)
              /\ th' = [th EXCEPT ![s] = [next EXCEPT !.fallback = TRUE]]
    /\ UNCHANGED <<storeVars, main, mem, done, layer, cut, torn, calls>>

GiveUp(s) ==
    /\ At(s, "again")
    /\ th[s].attempt >= MaxAttempts[s]
    /\ s \in WithFallback => th[s].fallback
    /\ Proceed(s, "propagate", Fail(s, th[s].attempt))

(* One load decides which stages the failure skips. *)
Propagate(s) ==
    /\ At(s, "propagate")
    /\ Quit(s, ForAll({d \in DownstreamOf(mem, s) : rows[d].status \notin Terminal}, Skip))

ThreadStep(s) ==
    \/ StartThread(s) \/ EntryBlocks(s) \/ EntryRejects(s) \/ Enter(s)
    \/ AgentFails(s) \/ AgentSucceeds(s)
    \/ ExitPasses(s) \/ ExitBlocks(s) \/ ExitFails(s)
    \/ TryAgain(s) \/ GiveUp(s) \/ Propagate(s)

-----------------------------------------------------------------------------
(* Operators, between the calls of run() *)

Operate(name, target, list) ==
    /\ name \in Operations
    /\ Idle
    /\ Called
    /\ main' = [at |-> "idle", target |-> target]
    /\ Do(Runner, list)
    /\ UNCHANGED <<storeVars, th, mem, done, layer, cut, torn>>

(* Executor.rollback_stage *)
Rollback(s) ==
    /\ rows[s] # NoRow
    /\ Operate("rollback", {s},
          Update(s, "roll_back", 0) \o Log(s, "rolled_back")
          \o ForAll(DownstreamOf(mem, s), LAMBDA d : Aside(d, Log(d, "marked_stale")))
          \o <<SetStatus("running", {s})>>)

(* Replanner.invalidate_downstream *)
Invalidate(s) ==
    /\ rows[s] # NoRow
    /\ Operate("invalidate", {s},
          Update(s, "set_aside", 0) \o Note(s, "replanned")
          \o ForAll(DownstreamOf(graph, s), LAMBDA d : Aside(d, Note(d, "marked_stale")))
          \o <<SetStatus("running", {s})>>)

(* Replanner.insert_stage: the stages it is inserted before are set aside  *)
(* without a word.                                                         *)
InsertStage(new) ==
    LET larger == WithStage(graph, new.stage, new.ups, new.befores) IN
    /\ Idle
    /\ new.stage \notin graph.nodes
    /\ new.befores \subseteq graph.nodes
    /\ Valid(larger)
    /\ Operate("insert", {new.stage},
          <<[op |-> "graph", to |-> larger], [op |-> "create", stage |-> new.stage]>>
          \o ForAll(new.befores, LAMBDA d : Aside(d, <<>>))
          \o Note(new.stage, "stage_inserted")
          \o <<SetStatus("running", {new.stage})>>)

(* The process dies, and the next one starts with the scenario's graph.    *)
Crash ==
    /\ "crash" \in Operations
    /\ ~Idle
    /\ calls \in CrashCalls
    /\ cut' = cut \cup UNION {StagesOf(work[w].todo) : w \in Workers}
    /\ torn' = torn \cup CallAtWork
    /\ work' = [w \in Workers |-> Resting]
    /\ th' = [s \in Stages |-> NoThread]
    /\ main' = [at |-> "idle", target |-> {}]
    /\ mem' = InitialGraph
    /\ layer' = {}
    /\ done' = {}
    /\ UNCHANGED <<storeVars, calls>>

Next ==
    \/ \E w \in Workers : Transaction(w)
    \/ CallRun \/ PlanLayer \/ Join \/ Finalize
    \/ \E s \in Stages : ThreadStep(s) \/ Rollback(s) \/ Invalidate(s)
    \/ \E new \in Insertions : InsertStage(new)
    \/ Crash

Spec == Init /\ [][Next]_vars

-----------------------------------------------------------------------------
(* Properties *)

(* No transaction about s is under way. *)
Quiet(s) == \A w \in Workers : s \notin StagesOf(work[w].todo)
Settled(s) == rows[s] # NoRow /\ Quiet(s) /\ s \notin cut

Of(s, action) == {i \in DOMAIN trail[s] : trail[s][i].action = action}
LastOf(s) == IF trail[s] = <<>> THEN "none" ELSE Last(trail[s]).action

(* Nobody but the thread of a stage writes its row while that thread runs, *)
(* whatever its siblings do: a decision of the executor whose event was    *)
(* written is linked from the row of its stage.  (Two failures that skip   *)
(* one stage at the same time may lose the link of a skip.)                *)
DecisionsAreLinked ==
    \A s \in Stages : \A i \in audited[s] :
        trail[s][i].by = "executor" /\ trail[s][i].action # "stage_skipped"
        => i \in rows[s].ids

Explained(action) ==
    CASE action \in {"none", "stage_inserted"} -> {"pending"}
      [] action \in {"attempt_started", "attempt_failed", "exit_gate_failed", "fallback_invoked"} ->
           {"running", "retrying"}
      [] action \in {"entry_gate_blocked", "exit_gate_blocked"} -> {"blocked_approval"}
      [] action = "stage_passed" -> {"passed"}
      [] action = "stage_failed" -> {"failed"}
      [] action = "stage_skipped" -> {"skipped"}
      [] action = "rolled_back" -> {"rolled_back"}
      [] OTHER -> {"stale"}

(* insert_stage sets the stages it is inserted before aside unlogged.      *)
Respliced(s) == graph.deps[s] # InitialGraph.deps[s]

(* The trail can be replayed: the last decision about a stage tells the    *)
(* status its row has, unless a crash came between the two                 *)
(* (models.py:216-219).                                                    *)
TrailExplainsRows ==
    \A s \in Stages :
        \/ rows[s].status \in Explained(LastOf(s))
        \/ rows[s].status = "stale" /\ Respliced(s)
        \/ ~Settled(s)

SetAsideActions == {"rolled_back", "marked_stale", "replanned"}
LastAside(s) == LET asides == UNION {Of(s, action) : action \in SetAsideActions} IN
                IF asides = {} THEN 0 ELSE Max(asides)

Report == RunReport(status, rows, trail, audited)
Incarnation(s) == {i \in Of(s, "attempt_started") : i > LastAside(s)}

(* A stage of which an insertion has changed what is upstream. *)
Rerouted(s) == \E t \in Stages : Respliced(t) /\ (s = t \/ s \in DownstreamOf(graph, t))
(* A call that sets this stage aside was interrupted, and not repeated. *)
PartlyReset(s) == \E t \in torn \ {Runner} : s = t \/ s \in DownstreamOf(graph, t)

(* The numbers of the report are those of the trail: the attempts of a     *)
(* stage since it was last set aside, and never fewer rollbacks than it    *)
(* records; unless a crash has swallowed the record of setting it aside,   *)
(* or of an attempt that had begun (architecture.md:130-135).              *)
ReportAgreesWithTrail ==
    LET report == Report IN
    \A s \in DOMAIN report.stages :
        /\ \/ Cardinality(Incarnation(s)) = report.stages[s].attempts
           \/ Runner \in torn /\ Cardinality(Incarnation(s)) < report.stages[s].attempts
           \/ rows[s].stale \/ Rerouted(s) \/ ~Settled(s) \/ PartlyReset(s)
        /\ Cardinality(Of(s, "rolled_back")) <= report.stages[s].rollback_count

(* Every pass that follows a failure is a recovery, and each failure is    *)
(* recovered from once (observability.py:8-13).                            *)
RecoveriesAreRight ==
    \A s \in Stages :
        Recoveries(trail[s]) =
            {span \in (1 .. Len(trail[s])) \X Of(s, "stage_passed") :
                /\ span[1] < span[2]
                /\ trail[s][span[1]].action \in FailureActions
                /\ \A k \in span[1] + 1 .. span[2] - 1 :
                      trail[s][k].action \notin FailureActions \cup {"stage_passed"}}

(* A stage that is done has a duration that is not negative, or none       *)
(* (observability.py:31-40).                                               *)
DurationsRunForward ==
    \A s \in Stages : rows[s].status \in Terminal => StageDuration(rows[s]) # "backwards"

(* Re-planning survives a crash if it is repeated: then, however far each  *)
(* attempt had come, a pass that counts rests on passes that count.  (What *)
(* a crash of run() leaves is for MCExecutor_crash_order.cfg.)             *)
ReplanningSurvivesCrash ==
    Idle /\ torn = {} /\ graph = InitialGraph =>
        \A s \in graph.nodes : rows[s].status = "passed" /\ ~rows[s].stale =>
            \A d \in graph.deps[s] : rows[d].status = "passed" /\ ~rows[d].stale
=============================================================================
