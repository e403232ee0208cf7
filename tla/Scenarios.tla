------------------------------ MODULE Scenarios ------------------------------
(***************************************************************************)
(* The three scenarios that ship with the orchestrator: their task graphs, *)
(* the scripts that drive them, and the people who decide on what the runs *)
(* ask.  A script is a process of its own: it opens the store, creates,    *)
(* invalidates or inserts, then builds an Executor and calls run() once.   *)
(* Scripts come in any order and any number, one at a time, and may die:   *)
(* between two calls, between two stages, or amid the stages under way.    *)
(*                                                                         *)
(* A stage that is not cut short is one step here, with its gates, agent   *)
(* and verdict, a failure with the skips it entails, and so is one call of *)
(* the Replanner; what can happen inside of these is in Executor and       *)
(* Lineage.  No stage of a scenario has a retry policy.                    *)
(***************************************************************************)
EXTENDS TaskGraph, Sequences

CONSTANTS
    Played,       \* the scenarios that may be played
    None,         \* no script
    MaxScripts,   \* bound: scripts started
    MaxMishaps,   \* bound: agents that fail, policies that reject, scripts that die,
                  \* people who change their minds
    MaxEdits      \* bound: edits of the files that the scripts read

ASSUME ScenariosAssumption ==
    /\ Played \subseteq {"greenfield", "brownfield", "ambiguous"}
    /\ None \notin {"run", "step_1_add_core_implementation", "step_2_add_analytics",
                    "step_3_add_reliability", "step_4_add_docs_and_release_gate",
                    "step_1_propose_interpretation", "step_2_rework_after_rejection",
                    "step_3_resume"}

VARIABLES
    scenario,   \* which one is played
    (* the state store *)
    status,     \* runs.status, or that there is no such run
    graph,      \* runs.graph_json
    rows,       \* stage_states
    approvals,  \* the approvals table
    (* the script in progress *)
    script,     \* its name, the calls it has yet to make and its scenario_input
    done,       \* run(): the stages of the layers already processed
    layer,      \* run(): the layer in progress
    runnable,   \* run(): the stages of the layer still to be executed
    (* the people, the files, and what becomes of scripts *)
    edits,      \* how often the files have been edited
    signed,     \* history: what people were shown when they approved a stage
    left,       \* history: the attempts and requests that dying scripts left unfinished
    applied,    \* history: scripts that came to their end
    rested,     \* history: the run as it came to rest, or None
    spent       \* scripts and mishaps so far

storeVars == <<scenario, status, graph, rows, approvals>>
runVars == <<done, layer, runnable>>
outerVars == <<edits, signed, left>>
history == <<applied, rested>>
vars == <<storeVars, script, runVars, outerVars, history, spent>>

-----------------------------------------------------------------------------
(* The task graphs *)

Stages == {"requirements", "codebase_reasoning", "design", "implementation", "test",
           "documentation", "release_readiness"}

(* depends_on, wherever a stage is declared. *)
DependsOn(s) ==
    CASE s = "codebase_reasoning" -> {"requirements"}
      [] s = "design" -> IF scenario = "brownfield" THEN {"requirements", "codebase_reasoning"}
                                                    ELSE {"requirements"}
      [] s \in {"implementation", "test", "documentation"} -> {"design"}
      [] s = "release_readiness" -> {"implementation", "test", "documentation"}
      [] OTHER -> {}

GraphOf(nodes) ==
    [nodes |-> nodes, deps |-> [s \in Stages |-> IF s \in nodes THEN DependsOn(s) ELSE {}]]

(* build_graph: greenfield starts small. *)
BuildGraph ==
    GraphOf(CASE scenario = "greenfield" -> {"requirements", "design"}
              [] scenario = "brownfield" -> Stages
              [] scenario = "ambiguous" -> Stages \ {"codebase_reasoning"})

EntryApproval(s) == s = "release_readiness"
ExitApproval(s) == s = "requirements" /\ scenario = "ambiguous"
HighImpact == {s \in Stages : EntryApproval(s) \/ ExitApproval(s)}

-----------------------------------------------------------------------------
(* The scripts *)

Call(op, s) == [op |-> op, stage |-> s]
Run == Call("run", None)
Create == Call("create", None)

(* What each script calls, in order. *)
CallsOf(name) ==
    CASE name \in {"run", "step_1_propose_interpretation"} -> <<Create, Run>>
      [] name = "step_1_add_core_implementation" ->
           <<Call("insert", "implementation"), Call("insert", "test"), Run>>
      [] name \in {"step_2_add_analytics", "step_3_add_reliability"} ->
           <<Call("invalidate", "implementation"), Call("invalidate", "test"), Run>>
      [] name = "step_4_add_docs_and_release_gate" ->
           <<Call("insert", "documentation"), Call("insert", "release_readiness"), Run>>
      [] name = "step_2_rework_after_rejection" -> <<Call("invalidate", "requirements"), Run>>
      [] name = "step_3_resume" -> <<Run>>

Scripts ==
    CASE scenario = "greenfield" ->
           {"run", "step_1_add_core_implementation", "step_2_add_analytics",
            "step_3_add_reliability", "step_4_add_docs_and_release_gate"}
      [] scenario = "brownfield" -> {"run"}
      [] scenario = "ambiguous" ->
           {"step_1_propose_interpretation", "step_2_rework_after_rejection", "step_3_resume"}

(* Those that take in edited files, and those that may be repeated.        *)
Revising == {"step_2_add_analytics", "step_3_add_reliability"}
Repeatable == {"run", "step_1_add_core_implementation", "step_4_add_docs_and_release_gate",
               "step_1_propose_interpretation", "step_3_resume"}

(* build_scenario_input: an interpretation, and the files as they are.     *)
ScenarioInput(name) ==
    [spec |-> IF name \in {"step_2_rework_after_rejection", "step_3_resume"} THEN "v2" ELSE "v1",
     files |-> edits]

NoScript == [name |-> None, calls |-> <<>>, input |-> None]
Nothing == [spec |-> {}, files |-> {}]
NewRow == [status |-> "pending", stale |-> FALSE, inc |-> 0, outputs |-> Nothing]
NoRow == [NewRow EXCEPT !.status = "none"]
RowsOf(g) == [s \in Stages |-> IF s \in g.nodes THEN NewRow ELSE NoRow]

Init ==
    /\ scenario \in Played
    /\ status = "none"
    /\ graph = GraphOf({})
    /\ rows = RowsOf(GraphOf({}))
    /\ approvals = {}
    /\ script = NoScript
    /\ done = {} /\ layer = {} /\ runnable = {}
    /\ edits = 0
    /\ signed = {}
    /\ left = [attempts |-> {}, requests |-> {}]
    /\ applied = {}
    /\ rested = None
    /\ spent = [scripts |-> 0, mishaps |-> 0]

Spend(what, max) == spent[what] < max /\ spent' = [spent EXCEPT ![what] = @ + 1]

Invoke(name) ==
    /\ script = NoScript
    /\ Spend("scripts", MaxScripts)
    /\ script' = [name |-> name, calls |-> CallsOf(name), input |-> None]
    /\ rested' = IF name \in applied \cap Repeatable THEN rested ELSE None
    /\ UNCHANGED <<storeVars, runVars, outerVars, applied>>

Comes(op) == script.calls # <<>> /\ Head(script.calls).op = op
Target == Head(script.calls).stage
Proceed == script' = [script EXCEPT !.calls = Tail(@)]

(* A KeyError or a ValueError: the script is over, what it did stays.      *)
Raise == script' = NoScript /\ UNCHANGED <<status, graph, rows>>
Calls ==
    /\ script # NoScript
    /\ UNCHANGED <<scenario, approvals, runVars, outerVars, history, spent>>

NoRun == status = "none"

(* Bug: a run that is there already is written again. *)
MissingAlways == TRUE
(* get_or_create_run: load_run raises a KeyError. *)
Missing == NoRun

CreateRun ==
    /\ Calls /\ Comes("create")
    /\ Proceed
    /\ IF Missing
         THEN status' = "running" /\ graph' = BuildGraph /\ rows' = RowsOf(BuildGraph)
         ELSE UNCHANGED <<status, graph, rows>>

(* if "..." not in graph.stages: replanner.insert_stage(...), before no    *)
(* other stage.  The TaskGraph it builds validates itself.                 *)
InsertStage ==
    /\ Calls /\ Comes("insert")
    /\ LET larger == WithStage(graph, Target, DependsOn(Target), {}) IN
         \/ Target \in graph.nodes /\ Proceed /\ UNCHANGED <<status, graph, rows>>
         \/ Target \notin graph.nodes /\ (NoRun \/ ~Valid(larger)) /\ Raise
         \/ /\ ~NoRun /\ Target \notin graph.nodes /\ Valid(larger)
            /\ Proceed
            /\ graph' = larger
            /\ rows' = [rows EXCEPT ![Target] = NewRow]
            /\ status' = "running"

(* Bug: what rests on the stage stays. *)
AffectedAlone(s) == {s}
Affected(s) == {s} \cup {d \in DownstreamOf(graph, s) : rows[d].status # "pending"}

(* replanner.invalidate_downstream *)
InvalidateDownstream ==
    /\ Calls /\ Comes("invalidate")
    /\ IF Target \notin graph.nodes
         THEN Raise
         ELSE /\ Proceed
              /\ rows' = [s \in Stages |-> IF s \in Affected(Target)
                            THEN [rows[s] EXCEPT !.status = "stale", !.stale = TRUE, !.inc = @ + 1]
                            ELSE rows[s]]
              /\ status' = "running"
              /\ UNCHANGED graph

(* Executor(...).run(): the last call of every script.                     *)
BuildExecutor ==
    /\ Calls /\ Comes("run")
    /\ IF NoRun
         THEN Raise
         ELSE /\ script' = [script EXCEPT !.calls = <<>>, !.input = ScenarioInput(script.name)]
              /\ status' = IF status = "paused_approval" THEN "running" ELSE status
              /\ UNCHANGED <<graph, rows>>

-----------------------------------------------------------------------------
(* Executor.run *)

InRun == script # NoScript /\ script.calls = <<>>

IsActionable(row) == row.status \in {"pending", "blocked_approval", "stale"} \/ row.stale
Terminal == {"passed", "failed", "skipped"}
SkipAll(S) ==
    [s \in Stages |-> IF s \in S THEN [rows[s] EXCEPT !.status = "skipped"] ELSE rows[s]]

PlanLayer ==
    /\ InRun /\ layer = {}
    /\ done # graph.nodes
    /\ layer' = NextLayer(graph, done)
    /\ LET todo == {s \in layer' : IsActionable(rows[s])}
           skipped == {s \in todo : \E d \in graph.deps[s] : rows[d].status \in {"failed", "skipped"}}
       IN  /\ runnable' = todo \ skipped
           /\ rows' = SkipAll(skipped)
    /\ UNCHANGED <<scenario, status, graph, approvals, done, script, outerVars, history, spent>>

ExecuteStage(s) ==
    /\ InRun /\ s \in runnable
    /\ runnable' = runnable \ {s}
    /\ UNCHANGED <<scenario, status, graph, done, layer, script, outerVars, history>>

Requested(s) == {a \in approvals : a.stage = s /\ a.inc = rows[s].inc}
Verdict(s) == IF Requested(s) = {} THEN "none" ELSE (CHOOSE a \in Requested(s) : TRUE).status
Undecided(s) == Verdict(s) \in {"none", "pending"}

(* ApprovalGateHandler.evaluate: a request is made once.                   *)
Ask(s, shown) ==
    approvals' = IF Verdict(s) # "none" THEN approvals
                 ELSE approvals \cup
                        {[stage |-> s, inc |-> rows[s].inc, status |-> "pending", shown |-> shown]}
Passes(s, outputs) ==
    /\ rows' = [rows EXCEPT ![s] = [@ EXCEPT !.status = "passed", !.stale = FALSE, !.outputs = outputs]]
    /\ UNCHANGED approvals

(* A stage fails, and takes along what is downstream and not terminal.     *)
Fails(s, stale, outputs) ==
    /\ rows' = [SkipAll({d \in DownstreamOf(graph, s) : rows[d].status \notin Terminal})
                  EXCEPT ![s] = [@ EXCEPT !.status = "failed", !.stale = stale, !.outputs = outputs]]
    /\ UNCHANGED approvals

Inherited(s, what) == UNION {rows[d].outputs[what] : d \in graph.deps[s]}
Upstream(s) == [spec |-> Inherited(s, "spec"), files |-> Inherited(s, "files")]

(* What the agent of s makes: the requirements are told by their text, the *)
(* stages that carry files by these, and every output by what it rests on. *)
Output(s) ==
    [spec |-> IF s = "requirements" THEN {script.input.spec} ELSE Inherited(s, "spec"),
     files |-> Inherited(s, "files") \cup
        IF s \in {"implementation", "test", "documentation"} THEN {script.input.files} ELSE {}]

(* Bug: a stage that waits is executed again. *)
WaitsNever(row) == FALSE
(* Blocked on its exit gate, with what its agent has produced.             *)
Waits(row) == row.status = "blocked_approval" /\ ~row.stale /\ row.outputs # Nothing

Recheck(s) ==
    /\ ExecuteStage(s)
    /\ Waits(rows[s])
    /\ \/ Undecided(s) /\ UNCHANGED <<rows, approvals>>
       \/ Verdict(s) = "approved" /\ Passes(s, rows[s].outputs)
       \/ Verdict(s) = "rejected" /\ Fails(s, FALSE, rows[s].outputs)
    /\ UNCHANGED spent

EntryGate(s) ==
    /\ ExecuteStage(s)
    /\ ~Waits(rows[s]) /\ EntryApproval(s)
    /\ \/ /\ Undecided(s)
          /\ rows' = [rows EXCEPT ![s].status = "blocked_approval"]
          /\ Ask(s, Upstream(s))
       \/ Verdict(s) = "rejected" /\ Fails(s, rows[s].stale, rows[s].outputs)
    /\ UNCHANGED spent

Attempt(s) ==
    /\ ExecuteStage(s)
    /\ ~Waits(rows[s])
    /\ EntryApproval(s) => Verdict(s) = "approved"

(* ReleaseReadinessAgent looks for code, tests and documentation.          *)
Supplied(s) == s = "release_readiness" => \A d \in graph.deps[s] : rows[d].outputs # Nothing

(* The agent fails, or the policy gates of the code reject what it has     *)
(* made, which stays on record.                                            *)
AttemptFails(s) ==
    /\ Attempt(s)
    /\ \/ Fails(s, FALSE, rows[s].outputs)
       \/ s = "implementation" /\ Fails(s, FALSE, Output(s))
    /\ IF Supplied(s) THEN Spend("mishaps", MaxMishaps) ELSE UNCHANGED spent

AttemptSucceeds(s) ==
    /\ Attempt(s) /\ Supplied(s)
    /\ \/ /\ ExitApproval(s) => Verdict(s) = "approved"
          /\ Passes(s, Output(s))
       \/ /\ ExitApproval(s) /\ Verdict(s) # "approved"
          /\ IF Undecided(s)
               THEN /\ rows' = [rows EXCEPT ![s] = [@ EXCEPT !.status = "blocked_approval",
                                                            !.stale = FALSE, !.outputs = Output(s)]]
                    /\ Ask(s, Output(s))
               ELSE Fails(s, FALSE, Output(s))
    /\ UNCHANGED spent

(* Bug: the stages that others wait for do not hold up the run. *)
BlockedNever == FALSE
Blocked == \E s \in layer : rows[s].status = "blocked_approval"

(* A decision has come that the run has yet to act on. *)
Heard == \E s \in graph.nodes : IsActionable(rows[s]) /\ ~Undecided(s)

(* run() has returned, and the script prints its report.                   *)
Return(final) ==
    /\ status' = final
    /\ script' = NoScript
    /\ done' = {} /\ layer' = {} /\ UNCHANGED runnable
    /\ applied' = applied \cup {script.name}
    /\ rested' = IF Heard THEN None
                 ELSE IF rested = None THEN [status |-> final, rows |-> rows, graph |-> graph]
                 ELSE rested

EndLayer ==
    /\ InRun /\ layer # {} /\ runnable = {}
    /\ \/ Blocked /\ Return("paused_approval")
       \/ /\ ~Blocked
          /\ done' = done \cup layer
          /\ layer' = {}
          /\ UNCHANGED <<status, script, runnable, history>>
    /\ UNCHANGED <<scenario, graph, rows, approvals, outerVars, spent>>

Finalize ==
    /\ InRun /\ layer = {} /\ done = graph.nodes
    /\ LET statuses == {rows[s].status : s \in graph.nodes} IN
         Return(CASE "failed" \in statuses -> "failed"
                  [] statuses \subseteq {"passed", "skipped"} -> "completed"
                  [] OTHER -> "running")
    /\ UNCHANGED <<scenario, graph, rows, approvals, outerVars, spent>>

-----------------------------------------------------------------------------
(* The people *)

(* orchestrator approvals decide: at any time, and again.                  *)
Decide(a, verdict) ==
    /\ a.status # verdict
    /\ IF a.status = "pending" THEN UNCHANGED spent ELSE Spend("mishaps", MaxMishaps)
    /\ approvals' = (approvals \ {a}) \cup {[a EXCEPT !.status = verdict]}
    /\ signed' = IF verdict = "approved" THEN signed \cup {[stage |-> a.stage, shown |-> a.shown]}
                                         ELSE signed
    /\ rested' = None
    /\ UNCHANGED <<scenario, status, graph, rows, script, runVars, edits, left, applied>>

(* The files under service/ are edited while no script reads them; what    *)
(* the revising scripts took in is then behind.                            *)
Edit ==
    /\ scenario = "greenfield" /\ script = NoScript
    /\ edits < MaxEdits
    /\ edits' = edits + 1
    /\ applied' = applied \ Revising
    /\ UNCHANGED <<storeVars, script, runVars, signed, left, rested, spent>>

-----------------------------------------------------------------------------
(* The death of a script *)

Dies ==
    /\ script # NoScript
    /\ Spend("mishaps", MaxMishaps)
    /\ script' = NoScript
    /\ done' = {} /\ layer' = {} /\ runnable' = {}
    /\ rested' = None
    /\ UNCHANGED <<scenario, status, graph, edits, signed, applied>>

(* The stages whose agent may be at work, or have been.                    *)
MayBegin(s) == s \in runnable /\ ~Waits(rows[s]) /\ (EntryApproval(s) => Verdict(s) = "approved")

(* What an agent makes is recorded file by file; the code, the tests and   *)
(* the documentation have several, and may be left half old, half new.     *)
Both(s) == [spec |-> rows[s].outputs.spec \cup Output(s).spec,
            files |-> rows[s].outputs.files \cup Output(s).files]
Recorded(s) ==
    {rows[s].outputs, Output(s)} \cup
        IF s \in {"implementation", "test", "documentation"} THEN {Both(s)} ELSE {}

(* _begin_attempt has saved the row as running, and no longer stale.       *)
BegunRow(s, outputs) == [rows[s] EXCEPT !.status = "running", !.stale = FALSE, !.outputs = outputs]

(* No stage is under way, or those of S are: no verdict of theirs is saved. *)
Die(S) ==
    /\ Dies
    /\ \A s \in S : MayBegin(s)
    /\ \E outputs \in [S -> UNION {Recorded(s) : s \in S}] :
         /\ \A s \in S : outputs[s] \in Recorded(s)
         /\ rows' = [s \in Stages |-> IF s \in S THEN BegunRow(s, outputs[s]) ELSE rows[s]]
         /\ left' = [left EXCEPT !.attempts = @ \cup {[stage |-> s, outputs |-> outputs[s]] : s \in S}]
    /\ UNCHANGED approvals

(* The request of a gate is saved, and the stage is not yet blocked.  (A   *)
(* stage with such a gate is the only one of its layer.)                   *)
DieAsking(s) ==
    /\ Dies
    /\ s \in runnable /\ ~Waits(rows[s]) /\ Undecided(s)
    /\ \/ /\ EntryApproval(s)
          /\ Ask(s, Upstream(s))
          /\ left' = [left EXCEPT !.requests = @ \cup {[stage |-> s, inc |-> rows[s].inc]}]
          /\ UNCHANGED rows
       \/ /\ ExitApproval(s)
          /\ Ask(s, Output(s))
          /\ left' = [left EXCEPT !.attempts = @ \cup {[stage |-> s, outputs |-> Output(s)]}]
          /\ rows' = [rows EXCEPT ![s] = BegunRow(s, Output(s))]

Next ==
    \/ \E name \in Scripts : Invoke(name)
    \/ CreateRun \/ InsertStage \/ InvalidateDownstream \/ BuildExecutor
    \/ PlanLayer \/ EndLayer \/ Finalize
    \/ \E s \in Stages : Recheck(s) \/ EntryGate(s) \/ AttemptFails(s) \/ AttemptSucceeds(s)
    \/ \E a \in approvals, verdict \in {"approved", "rejected"} : Decide(a, verdict)
    \/ Edit
    \/ \E S \in SUBSET runnable : Die(S)
    \/ \E s \in Stages : DieAsking(s)

Spec == Init /\ [][Next]_vars

-----------------------------------------------------------------------------
(* Properties *)

Counts(s) == rows[s].status = "passed" /\ ~rows[s].stale

(* An attempt that was cut short: no later run() resumes it, none waits.   *)
CutShort(s) == rows[s].status = "running"

(* A high-impact stage counts as passed only if a person approved what is  *)
(* there now: the interpretation that was shown, or the release of the     *)
(* very files that would be released - not what an earlier revision, a     *)
(* repeated script or a script with another input has made of them         *)
(* (ambiguous/graph.py:3-7, step_4_add_docs_and_release_gate.py:5-9).      *)
(* The exception is a request whose script died before the stage was       *)
(* blocked (executor.py:250-252): what it shows may since be revised.      *)
SignedByPeople ==
    \A s \in HighImpact : Counts(s) =>
        \/ [stage |-> s, shown |-> IF EntryApproval(s) THEN Upstream(s) ELSE rows[s].outputs] \in signed
        \/ EntryApproval(s) /\ [stage |-> s, inc |-> rows[s].inc] \in left.requests

(* Nothing is built on an interpretation nobody has signed off             *)
(* (ambiguous/graph.py:5-7), except on one that a script left when it died *)
(* in the attempt of requirements: design starts on it (executor.py:213).  *)
NothingUnsigned ==
    scenario = "ambiguous" =>
        \A s \in Stages \ {"requirements"} : \A spec \in rows[s].outputs.spec :
            \/ \E a \in signed : a.stage = "requirements" /\ spec \in a.shown.spec
            \/ \E a \in left.attempts : a.stage = "requirements" /\ spec \in a.outputs.spec

(* Whatever scripts come in whatever order, a stage that counts as passed  *)
(* rests on stages that do, and on all that these have made, though stages *)
(* are inserted into the run: they come before no other                    *)
(* (greenfield/graph.py:3-7).  The exception is a stage whose attempt was  *)
(* cut short: others are built on what there is of it (executor.py:213).   *)
PassesAreCurrent ==
    \A s \in Stages : Counts(s) =>
        \A d \in graph.deps[s] :
            /\ Counts(d) \/ CutShort(d)
            /\ rows[d].outputs.spec \subseteq rows[s].outputs.spec
            /\ rows[d].outputs.files \subseteq rows[s].outputs.files

(* A revision that has come to its end has been taken in: the code and     *)
(* tests of a completed run are those on disk, and so is what is released  *)
(* (step_2_add_analytics.py:9-12).                                         *)
RevisionsAreIn ==
    script = NoScript /\ status = "completed" /\ applied \cap Revising # {} =>
        \A s \in {"implementation", "test", "release_readiness"} \cap graph.nodes :
            edits \in rows[s].outputs.files

(* A script that only creates, inserts or resumes may be repeated: if      *)
(* nobody has decided anything since the run came to rest, it leaves the   *)
(* run as it was (greenfield/run.py:2-4, step_1_add_core_implementation    *)
(* .py:10-11, step_3_resume.py:3-5).                                       *)
RepeatingIsHarmless ==
    script = NoScript /\ rested # None =>
        rested = [status |-> status, rows |-> rows, graph |-> graph]
=============================================================================
