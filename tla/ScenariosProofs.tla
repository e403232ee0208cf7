---------------------------- MODULE ScenariosProofs ----------------------------
(***************************************************************************)
(* What the shipped scenarios promise holds however often their scripts    *)
(* are invoked, in whatever order, however often they die, agents fail,    *)
(* files are edited and people change their minds.                         *)
(***************************************************************************)
EXTENDS Scenarios, SequenceTheorems, TLAPS

(* The values that the state may take. *)
Names == {"run", "step_1_add_core_implementation", "step_2_add_analytics",
          "step_3_add_reliability", "step_4_add_docs_and_release_gate",
          "step_1_propose_interpretation", "step_2_rework_after_rejection", "step_3_resume"}
Inserted == {"implementation", "test", "documentation", "release_readiness"}
Calling == {Run, Create} \cup [op : {"insert"}, stage : Inserted]
                         \cup [op : {"invalidate"}, stage : Stages]
Outputs == [spec : SUBSET {"v1", "v2"}, files : SUBSET Nat]
Inputs == [spec : {"v1", "v2"}, files : Nat]
Rows == [status : {"none", "pending", "blocked_approval", "stale", "running"} \cup Terminal,
         stale : BOOLEAN, inc : Nat, outputs : Outputs]
Approvals == [stage : Stages, inc : Nat, status : {"pending", "approved", "rejected"},
              shown : Outputs]
Leftovers == [attempts : SUBSET [stage : Stages, outputs : Outputs],
              requests : SUBSET [stage : Stages, inc : Nat]]

Planned == IF scenario = "brownfield" THEN Stages ELSE Stages \ {"codebase_reasoning"}

(* The store: its graph is the part of the scenario's that is there.       *)
Stored ==
    /\ scenario \in {"greenfield", "brownfield", "ambiguous"}
    /\ status \in {"none", "running", "paused_approval", "failed", "completed"}
    /\ graph.nodes \subseteq Planned
    /\ graph = GraphOf(graph.nodes)
    /\ \A s \in graph.nodes : DependsOn(s) \subseteq graph.nodes
    /\ NoRun => graph.nodes = {}
    /\ rows \in [Stages -> Rows]
    /\ \A s \in Stages : IF s \in graph.nodes THEN rows[s].status # "none" ELSE rows[s] = NoRow
    /\ approvals \subseteq Approvals
    /\ edits \in Nat

(* The script in progress: its last call, and no other, is that of run().  *)
Scripted ==
    /\ script \in [name : Names \cup {None}, calls : Seq(Calling), input : Inputs \cup {None}]
    /\ script # NoScript =>
         /\ script.name \in Names
         /\ script.calls # <<>> => script.calls[Len(script.calls)].op = "run"
         /\ \A i \in 1 .. Len(script.calls) - 1 : script.calls[i].op # "run"
         /\ InRun => ~NoRun /\ script.input = ScenarioInput(script.name)

Typed == Stored /\ Scripted

(* run(): the stages processed are through, those to be executed can be.   *)
(* What was cut short is built on like what has passed.                    *)
BuiltOn(s) == Counts(s) \/ CutShort(s)
Ready(s) == \A d \in graph.deps[s] : BuiltOn(d)
Through == Terminal \cup {"running"}
Walk ==
    /\ ~InRun => done = {} /\ layer = {} /\ runnable = {}
    /\ runnable \subseteq layer /\ layer \subseteq graph.nodes /\ done \subseteq graph.nodes
    /\ done \cap layer = {} /\ \A s \in done \cup layer : graph.deps[s] \subseteq done
    /\ \A s \in done : rows[s].status \in Through
    /\ \A s \in layer \ runnable : rows[s].status \in Through \cup {"blocked_approval"}
    /\ \A s \in runnable : IsActionable(rows[s]) /\ Ready(s)

(* What the status of a stage tells. *)
ToldOf(s) ==
    LET row == rows[s] IN
    /\ row.status = "passed" => ~row.stale
    /\ row.status = "stale" => row.stale
    /\ row.status = "running" => ~row.stale /\ Ready(s)
    /\ row.status = "pending" => ~row.stale /\ row.outputs = Nothing
    /\ row.status = "blocked_approval" => s \in HighImpact
    /\ row.status = "blocked_approval" /\ ExitApproval(s) => ~row.stale /\ row.outputs # Nothing
    /\ row.status = "blocked_approval" /\ EntryApproval(s) =>
           Ready(s) /\ (row.stale \/ row.outputs = Nothing)
    /\ row.status = "skipped" => \E d \in graph.deps[s] : rows[d].status \in {"failed", "skipped"}
    /\ row.status = "failed" /\ row.stale => EntryApproval(s) /\ ~Undecided(s)
Told ==
    /\ \A s \in Stages : ToldOf(s)
    /\ status = "completed" => \A s \in graph.nodes : Counts(s)

(* A request stands as long as what it shows does, unless its script died  *)
(* before it had blocked the stage.                                        *)
Current(a) == a.inc = rows[a.stage].inc
Stands(a) ==
    LET row == rows[a.stage] IN
    /\ row.status # "pending"
    /\ EntryApproval(a.stage) => Ready(a.stage) /\ a.shown = Upstream(a.stage)
    /\ ExitApproval(a.stage) =>
         /\ row.status \in {"blocked_approval", "passed", "failed", "running"} /\ ~row.stale
         /\ row.status # "failed" => a.shown = row.outputs
Unblocked(a) == EntryApproval(a.stage) /\ [stage |-> a.stage, inc |-> a.inc] \in left.requests
Request(a) ==
    /\ a.stage \in graph.nodes \cap HighImpact
    /\ a.inc <= rows[a.stage].inc
    /\ a.status = "approved" => [stage |-> a.stage, shown |-> a.shown] \in signed
    /\ Current(a) => Stands(a) \/ Unblocked(a)
Asked ==
    /\ \A a \in approvals : Request(a)
    /\ \A a, b \in approvals : a.stage = b.stage /\ a.inc = b.inc => a = b

(* Of every attempt that was cut short it is known what it has left.       *)
Remembered ==
    /\ left \in Leftovers
    /\ \A s \in Stages : CutShort(s) => [stage |-> s, outputs |-> rows[s].outputs] \in left.attempts

(* From the moment a revising script has invalidated a stage, the stage    *)
(* has taken in the files as they are, or does not count.                  *)
ToCome(op, s) == \E i \in DOMAIN script.calls : script.calls[i] = Call(op, s)
Revised(s) ==
    \/ applied \cap Revising # {}
    \/ script.name \in Revising /\ ~ToCome("invalidate", s)
Revisions ==
    \A s \in {"implementation", "test"} : Revised(s) /\ Counts(s) => edits \in rows[s].outputs.files

(* The scripts that have been applied have inserted what they insert.      *)
InsertsOf(name) == {CallsOf(name)[i].stage : i \in {j \in DOMAIN CallsOf(name) : CallsOf(name)[j].op = "insert"}}
Insertions ==
    /\ \A name \in applied : InsertsOf(name) \subseteq graph.nodes
    /\ script # NoScript =>
         \A s \in InsertsOf(script.name) : s \in graph.nodes \/ ToCome("insert", s)

(* A run at rest: nobody has been heard since, and there is nothing to do. *)
Outcome ==
    LET statuses == {rows[s].status : s \in graph.nodes} IN
    IF "blocked_approval" \in statuses THEN "paused_approval"
    ELSE IF "failed" \in statuses THEN "failed"
    ELSE IF statuses \subseteq {"passed", "skipped"} THEN "completed"
    ELSE "running"
Asleep == rows["requirements"].status = "blocked_approval"
Rest ==
    rested # None =>
        /\ rested = [status |-> Outcome, rows |-> rows, graph |-> graph]
        /\ ~NoRun
        /\ ~Heard
        /\ Asleep \/ \A s \in graph.nodes : IsActionable(rows[s]) =>
                        rows[s].status \in {"skipped", "blocked_approval"}
        /\ IF script = NoScript
             THEN status = Outcome
             ELSE /\ script.name \in applied \cap Repeatable
                  /\ \A s \in Stages : /\ ~ToCome("invalidate", s)
                                       /\ ToCome("insert", s) => s \in graph.nodes
                  /\ Asleep => done = {} /\ layer \subseteq {"requirements"}

IInv ==
    /\ Typed /\ Walk /\ Told /\ Asked /\ Remembered
    /\ SignedByPeople /\ NothingUnsigned /\ PassesAreCurrent
    /\ Revisions /\ Insertions /\ Rest

-----------------------------------------------------------------------------
(* The scripts and the graphs *)

LEMMA NamesAreScripts == None \notin Names /\ (Stored => Scripts \subseteq Names)
  BY ScenariosAssumption DEF Stored, Scripts, Names

(* What every script calls, and in particular its last call. *)
LEMMA CallsAreTyped ==
  ASSUME NEW name \in Names
  PROVE  /\ CallsOf(name) \in Seq(Calling)
         /\ CallsOf(name) # <<>>
         /\ CallsOf(name)[Len(CallsOf(name))].op = "run"
         /\ \A i \in 1 .. Len(CallsOf(name)) - 1 : CallsOf(name)[i].op # "run"
<1>1. /\ Run \in Calling /\ Create \in Calling /\ Run.op = "run" /\ Create.op # "run"
      /\ \A s \in Inserted : Call("insert", s) \in Calling
      /\ \A s \in Stages : Call("invalidate", s) \in Calling /\ Call("invalidate", s).op # "run"
  BY DEF Calling, Run, Create, Call
<1>2. CASE name \in {"run", "step_1_propose_interpretation"}
  BY <1>1, <1>2 DEF CallsOf
<1>3. ASSUME NEW a \in Calling, NEW b \in Calling, a.op # "run", b.op # "run",
             CallsOf(name) = <<a, b, Run>>
      PROVE  /\ CallsOf(name) \in Seq(Calling)
             /\ CallsOf(name) # <<>>
             /\ CallsOf(name)[Len(CallsOf(name))].op = "run"
             /\ \A i \in 1 .. Len(CallsOf(name)) - 1 : CallsOf(name)[i].op # "run"
  BY <1>1, <1>3
<1>4. CASE name = "step_1_add_core_implementation"
  <2>1. CallsOf(name) = <<Call("insert", "implementation"), Call("insert", "test"), Run>>
    BY <1>4 DEF CallsOf
  <2>2. Call("insert", "implementation") \in Calling /\ Call("insert", "test") \in Calling
    BY <1>1 DEF Inserted, Stages
  <2>3. Call("insert", "implementation").op # "run" /\ Call("insert", "test").op # "run"
    BY DEF Call
  <2> QED
    BY <2>1, <2>2, <2>3, <1>3
<1>5. CASE name = "step_4_add_docs_and_release_gate"
  <2>1. CallsOf(name) = <<Call("insert", "documentation"), Call("insert", "release_readiness"), Run>>
    BY <1>5 DEF CallsOf
  <2>2. Call("insert", "documentation") \in Calling /\ Call("insert", "release_readiness") \in Calling
    BY <1>1 DEF Inserted, Stages
  <2>3. Call("insert", "documentation").op # "run" /\ Call("insert", "release_readiness").op # "run"
    BY DEF Call
  <2> QED
    BY <2>1, <2>2, <2>3, <1>3
<1>6. CASE name \in {"step_2_add_analytics", "step_3_add_reliability"}
  <2>1. CallsOf(name) = <<Call("invalidate", "implementation"), Call("invalidate", "test"), Run>>
    BY <1>6 DEF CallsOf
  <2>2. Call("invalidate", "implementation") \in Calling /\ Call("invalidate", "test") \in Calling
    BY <1>1 DEF Inserted, Stages
  <2>3. Call("invalidate", "implementation").op # "run" /\ Call("invalidate", "test").op # "run"
    BY DEF Call
  <2> QED
    BY <2>1, <2>2, <2>3, <1>3
<1>7. CASE name = "step_2_rework_after_rejection"
  BY <1>1, <1>7 DEF CallsOf, Stages
<1>8. CASE name = "step_3_resume"
  BY <1>1, <1>8 DEF CallsOf
<1> QED
  BY <1>2, <1>4, <1>5, <1>6, <1>7, <1>8 DEF Names

(* Whatever depends on s, or on what is downstream of s, is downstream. *)
LEMMA DownstreamIsClosed ==
  ASSUME NEW g, NEW s, NEW t \in g.nodes, NEW d \in g.deps[t],
         d = s \/ d \in DownstreamOf(g, s)
  PROVE  t \in DownstreamOf(g, s)
<1> SUFFICES ASSUME NEW S \in SUBSET g.nodes, ClosedUnder(g, s, S) PROVE t \in S
  BY DEF DownstreamOf
<1>1. d \in S \cup {s}
  BY DEF DownstreamOf
<1> QED
  BY <1>1 DEF ClosedUnder, Dependents

(* And what is downstream of s depends on s, or on what is downstream.     *)
LEMMA DownstreamDepends ==
  ASSUME NEW g, NEW s, NEW t \in DownstreamOf(g, s)
  PROVE  t \in g.nodes /\ \E d \in g.deps[t] : d = s \/ d \in DownstreamOf(g, s)
<1> DEFINE S == {u \in DownstreamOf(g, s) : \E d \in g.deps[u] : d = s \/ d \in DownstreamOf(g, s)}
<1>1. S \in SUBSET g.nodes
  BY DEF DownstreamOf
<1>2. ClosedUnder(g, s, S)
  BY DownstreamIsClosed DEF ClosedUnder, Dependents
<1> QED
  BY <1>1, <1>2 DEF DownstreamOf

(* The graph of a run, stage by stage. *)
LEMMA GraphShape ==
  ASSUME Stored
  PROVE  /\ graph.nodes \subseteq Stages
         /\ \A s \in Stages : graph.deps[s] = IF s \in graph.nodes THEN DependsOn(s) ELSE {}
         /\ \A s \in Stages : graph.deps[s] \subseteq graph.nodes
         /\ \A s \in Stages : graph.deps[s] \subseteq Stages
<1>1. graph.nodes \subseteq Stages /\ graph = GraphOf(graph.nodes)
  BY DEF Stored, Planned
<1>2. \A s \in Stages : graph.deps[s] = IF s \in graph.nodes THEN DependsOn(s) ELSE {}
  <2> DEFINE N == graph.nodes
  <2>1. GraphOf(N).deps = [s \in Stages |-> IF s \in N THEN DependsOn(s) ELSE {}]
    BY DEF GraphOf
  <2>2. graph.deps = [s \in Stages |-> IF s \in N THEN DependsOn(s) ELSE {}]
    BY <1>1, <2>1
  <2> QED
    BY <2>2
<1> QED
  BY <1>1, <1>2 DEF Stored

(* What is downstream of a stage that is not built on has a dependency     *)
(* that is not.                                                            *)
LEMMA BelowUncounted ==
  ASSUME Stored, PassesAreCurrent, Told, NEW s \in Stages, ~BuiltOn(s), NEW t \in DownstreamOf(graph, s)
  PROVE  ~Ready(t)
<1> DEFINE S == {u \in graph.nodes : ~Ready(u)}
<1>1. ClosedUnder(graph, s, S)
  <2> SUFFICES ASSUME NEW u \in graph.nodes, NEW d \in graph.deps[u], d \in S \cup {s} PROVE ~Ready(u)
    BY DEF ClosedUnder, Dependents
  <2>1. d \in Stages
    BY GraphShape
  <2>2. ~BuiltOn(d)
    BY <2>1 DEF PassesAreCurrent, Ready, BuiltOn, CutShort, Told, ToldOf
  <2> QED
    BY <2>2 DEF Ready
<1> QED
  BY <1>1 DEF DownstreamOf

(* A verdict is that of the one request there is. *)
LEMMA OneVerdict ==
  ASSUME Stored, Asked, NEW s \in Stages
  PROVE  /\ Verdict(s) = "none" <=> Requested(s) = {}
         /\ \A a \in Requested(s) : a \in approvals /\ a.stage = s /\ Current(a) /\ Verdict(s) = a.status
         /\ Verdict(s) \in {"none", "pending", "approved", "rejected"}
<1>1. \A a \in Requested(s) : a \in approvals /\ a.stage = s /\ Current(a)
                              /\ a.status \in {"pending", "approved", "rejected"}
  <2>1. \A a \in approvals : a.status \in {"pending", "approved", "rejected"}
    BY DEF Stored, Approvals
  <2> QED
    BY <2>1 DEF Requested, Current
<1>2. ASSUME NEW a \in Requested(s), NEW b \in Requested(s) PROVE a = b
  <2>1. a \in approvals /\ b \in approvals /\ a.stage = b.stage /\ a.inc = b.inc
    BY <1>1 DEF Current
  <2> QED
    BY <2>1 DEF Asked
<1>3. CASE Requested(s) = {}
  BY <1>3 DEF Verdict
<1>4. ASSUME NEW a \in Requested(s) PROVE Verdict(s) = a.status
  <2>1. (CHOOSE b \in Requested(s) : TRUE) = a
    BY <1>2
  <2> QED
    BY <2>1 DEF Verdict
<1> QED
  BY <1>1, <1>3, <1>4

(* What a stage rests on, and what an agent makes of it. *)
LEMMA OutputsTyped ==
  ASSUME Typed, NEW s \in Stages
  PROVE  Upstream(s) \in Outputs /\ (InRun => Output(s) \in Outputs)
<1>1. \A d \in graph.deps[s] : rows[d].outputs.spec \subseteq {"v1", "v2"} /\ rows[d].outputs.files \subseteq Nat
  BY GraphShape DEF Typed, Stored, Rows, Outputs
<1>2. Inherited(s, "spec") \subseteq {"v1", "v2"} /\ Inherited(s, "files") \subseteq Nat
  BY <1>1 DEF Inherited
<1>3. InRun => script.input.spec \in {"v1", "v2"} /\ script.input.files \in Nat
  BY DEF Typed, Scripted, Stored, InRun, ScenarioInput
<1>4. Upstream(s) \in Outputs
  BY <1>2 DEF Upstream, Outputs
<1>5. ASSUME InRun PROVE Output(s) \in Outputs
  BY <1>2, <1>3, <1>5 DEF Output, Outputs
<1> QED
  BY <1>4, <1>5

-----------------------------------------------------------------------------
(* The execution of one stage, in terms of what becomes of it *)

Passing(s) ==
    \E o \in Outputs :
        /\ Passes(s, o)
        /\ s \in HighImpact => Verdict(s) = "approved"
        /\ IF ExitApproval(s) THEN rows[s].status = "blocked_approval" /\ o = rows[s].outputs
                              ELSE o = Output(s)
Failing(s) ==
    \E stale \in BOOLEAN, o \in Outputs :
        /\ Fails(s, stale, o) /\ o \in {rows[s].outputs, Output(s)}
        /\ stale => EntryApproval(s) /\ ~Undecided(s)
BlockingEntry(s) ==
    /\ EntryApproval(s) /\ Undecided(s)
    /\ rows' = [rows EXCEPT ![s].status = "blocked_approval"]
    /\ Ask(s, Upstream(s))
BlockingExit(s) ==
    /\ ExitApproval(s) /\ Verdict(s) = "none"
    /\ rows' = [rows EXCEPT ![s] = [@ EXCEPT !.status = "blocked_approval",
                                             !.stale = FALSE, !.outputs = Output(s)]]
    /\ Ask(s, Output(s))

Step(s) == Recheck(s) \/ EntryGate(s) \/ AttemptFails(s) \/ AttemptSucceeds(s)

(* A stage with an exit gate whose request stands waits for the decision.  *)
LEMMA AskedWaits ==
  ASSUME IInv, NEW s \in runnable, ExitApproval(s), Requested(s) # {}
  PROVE  Waits(rows[s])
<1>1. PICK a \in Requested(s) : TRUE
  OBVIOUS
<1>2. a \in approvals /\ a.stage = s /\ Current(a)
  BY <1>1 DEF Requested, Current
<1>3. rows[s].status \in {"blocked_approval", "passed", "failed", "running"} /\ ~rows[s].stale
  BY <1>2 DEF IInv, Asked, Request, Stands, Unblocked, EntryApproval, ExitApproval
<1>4. IsActionable(rows[s])
  BY DEF IInv, Walk
<1>5. s \in Stages
  BY GraphShape DEF IInv, Typed, Walk
<1> QED
  BY <1>3, <1>4, <1>5 DEF IInv, Told, ToldOf, Waits, IsActionable

LEMMA StageOutcomes ==
  ASSUME IInv, NEW s \in Stages, Step(s)
  PROVE  /\ InRun /\ s \in runnable /\ s \in graph.nodes /\ ~BuiltOn(s) /\ Ready(s)
         /\ runnable' = runnable \ {s}
         /\ UNCHANGED <<scenario, status, graph, done, layer, script, outerVars, history>>
         /\ \/ UNCHANGED <<rows, approvals>> /\ rows[s].status = "blocked_approval"
            \/ Passing(s) \/ Failing(s) \/ BlockingEntry(s) \/ BlockingExit(s)
<1>1. ExecuteStage(s)
  BY DEF Step, Recheck, EntryGate, AttemptFails, AttemptSucceeds, Attempt
<1>2. /\ InRun /\ s \in runnable /\ s \in graph.nodes /\ Ready(s) /\ IsActionable(rows[s])
      /\ runnable' = runnable \ {s}
      /\ UNCHANGED <<scenario, status, graph, done, layer, script, outerVars, history>>
  BY <1>1 DEF ExecuteStage, IInv, Walk
<1>3. ~BuiltOn(s)
  BY <1>2, GraphShape DEF BuiltOn, Counts, CutShort, IsActionable, IInv, Typed, Told, ToldOf
<1>4. Upstream(s) \in Outputs /\ Output(s) \in Outputs /\ rows[s].outputs \in Outputs /\ rows[s].stale \in BOOLEAN
  BY <1>2, OutputsTyped DEF IInv, Typed, Stored, Rows
<1>5. ~(EntryApproval(s) /\ ExitApproval(s))
  BY DEF EntryApproval, ExitApproval
<1>6. Waits(rows[s]) => ExitApproval(s) /\ rows[s].status = "blocked_approval"
  BY DEF IInv, Told, ToldOf, HighImpact, Waits
<1>7. ASSUME ExitApproval(s), ~Waits(rows[s]) PROVE Verdict(s) = "none"
  BY <1>2, <1>7, AskedWaits, OneVerdict DEF IInv, Typed
<1>8. Undecided(s) <=> Verdict(s) \notin {"approved", "rejected"}
  BY OneVerdict DEF Undecided, IInv, Typed
<1>9. s \in HighImpact <=> EntryApproval(s) \/ ExitApproval(s)
  BY DEF HighImpact
<1>10. CASE Recheck(s)
  <2>1. CASE Undecided(s) /\ UNCHANGED <<rows, approvals>>
    BY <1>2, <1>3, <1>6, <1>10, <2>1 DEF Recheck
  <2>2. CASE Verdict(s) = "approved" /\ Passes(s, rows[s].outputs)
    <3>1. Passing(s)
      BY <1>10, <1>4, <1>6, <2>2 DEF Passing, Recheck
    <3> QED
      BY <1>2, <1>3, <3>1
  <2>3. CASE Verdict(s) = "rejected" /\ Fails(s, FALSE, rows[s].outputs)
    <3>1. Failing(s)
      BY <1>4, <2>3 DEF Failing
    <3> QED
      BY <1>2, <1>3, <3>1
  <2> QED
    BY <1>10, <2>1, <2>2, <2>3 DEF Recheck
<1>11. CASE EntryGate(s)
  <2>1. CASE Verdict(s) = "rejected" /\ Fails(s, rows[s].stale, rows[s].outputs)
    <3>1. Failing(s)
      BY <1>4, <1>8, <1>11, <2>1 DEF Failing, EntryGate
    <3> QED
      BY <1>2, <1>3, <3>1
  <2>2. CASE ~(Verdict(s) = "rejected" /\ Fails(s, rows[s].stale, rows[s].outputs))
    <3>1. BlockingEntry(s)
      BY <1>11, <2>2 DEF BlockingEntry, EntryGate
    <3> QED
      BY <1>2, <1>3, <3>1
  <2> QED
    BY <2>1, <2>2
<1>12. CASE AttemptFails(s)
  <2>1. Failing(s)
    BY <1>4, <1>12 DEF Failing, AttemptFails
  <2> QED
    BY <1>2, <1>3, <2>1
<1>13. CASE AttemptSucceeds(s)
  <2>1. ~Waits(rows[s]) /\ (EntryApproval(s) => Verdict(s) = "approved")
    BY <1>13 DEF AttemptSucceeds, Attempt
  <2>2. CASE (ExitApproval(s) => Verdict(s) = "approved") /\ Passes(s, Output(s))
    <3>1. ~ExitApproval(s)
      BY <1>7, <2>1, <2>2
    <3>2. Passing(s)
      BY <1>4, <1>9, <2>1, <2>2, <3>1 DEF Passing
    <3> QED
      BY <1>2, <1>3, <3>2
  <2>3. CASE ExitApproval(s)
    <3>1. Verdict(s) = "none"
      BY <1>7, <2>1, <2>3
    <3>2. BlockingExit(s)
      BY <1>8, <1>13, <2>3, <3>1 DEF AttemptSucceeds, BlockingExit
    <3> QED
      BY <1>2, <1>3, <3>2
  <2> QED
    BY <1>13, <2>2, <2>3 DEF AttemptSucceeds
<1> QED
  BY <1>10, <1>11, <1>12, <1>13 DEF Step

(* The rows after a step of a stage, field by field. *)
LEMMA RowsPass ==
  ASSUME Stored, NEW s \in Stages, NEW o \in Outputs, Passes(s, o)
  PROVE  /\ rows' \in [Stages -> Rows] /\ approvals' = approvals
         /\ \A t \in Stages \ {s} : rows'[t] = rows[t]
         /\ rows'[s].status = "passed" /\ rows'[s].stale = FALSE
         /\ rows'[s].inc = rows[s].inc /\ rows'[s].outputs = o
  BY DEF Passes, Rows, Terminal, Stored

LEMMA RowsFail ==
  ASSUME Stored, NEW s \in Stages, NEW b \in BOOLEAN, NEW o \in Outputs, Fails(s, b, o)
  PROVE  /\ rows' \in [Stages -> Rows] /\ approvals' = approvals
         /\ \A t \in Stages \ {s} :
              IF t \in DownstreamOf(graph, s) /\ rows[t].status \notin Terminal
                THEN /\ rows'[t].status = "skipped" /\ rows'[t].stale = rows[t].stale
                     /\ rows'[t].inc = rows[t].inc /\ rows'[t].outputs = rows[t].outputs
                ELSE rows'[t] = rows[t]
         /\ rows'[s].status = "failed" /\ rows'[s].stale = b
         /\ rows'[s].inc = rows[s].inc /\ rows'[s].outputs = o
<1> DEFINE S == {d \in DownstreamOf(graph, s) : rows[d].status \notin Terminal}
           skip == SkipAll(S)
<1>1. rows \in [Stages -> Rows]
  BY DEF Stored
<1>2. /\ skip \in [Stages -> Rows]
      /\ \A t \in Stages : skip[t] = IF t \in S THEN [rows[t] EXCEPT !.status = "skipped"] ELSE rows[t]
  BY <1>1 DEF SkipAll, Rows, Terminal
<1>3. /\ rows' = [skip EXCEPT ![s] = [@ EXCEPT !.status = "failed", !.stale = b, !.outputs = o]]
      /\ approvals' = approvals
  BY DEF Fails
<1> HIDE DEF skip
<1>4. [skip[s] EXCEPT !.status = "failed", !.stale = b, !.outputs = o] \in Rows
  BY <1>2 DEF Rows, Terminal
<1>5. rows' \in [Stages -> Rows] /\ rows'[s] = [skip[s] EXCEPT !.status = "failed", !.stale = b, !.outputs = o]
  BY <1>2, <1>3, <1>4
<1>6. /\ rows'[s].status = "failed" /\ rows'[s].stale = b
      /\ rows'[s].inc = rows[s].inc /\ rows'[s].outputs = o
  BY <1>1, <1>2, <1>5 DEF Rows
<1>7. ASSUME NEW t \in Stages \ {s}
      PROVE  IF t \in DownstreamOf(graph, s) /\ rows[t].status \notin Terminal
               THEN /\ rows'[t].status = "skipped" /\ rows'[t].stale = rows[t].stale
                    /\ rows'[t].inc = rows[t].inc /\ rows'[t].outputs = rows[t].outputs
               ELSE rows'[t] = rows[t]
  BY <1>1, <1>2, <1>3 DEF Rows
<1> QED
  BY <1>3, <1>5, <1>6, <1>7

LEMMA RowsBlock ==
  ASSUME Stored, NEW s \in Stages, NEW o \in Outputs,
         \/ rows' = [rows EXCEPT ![s].status = "blocked_approval"]
         \/ rows' = [rows EXCEPT ![s] = [@ EXCEPT !.status = "blocked_approval",
                                                  !.stale = FALSE, !.outputs = o]]
  PROVE  /\ rows' \in [Stages -> Rows]
         /\ \A t \in Stages \ {s} : rows'[t] = rows[t]
         /\ rows'[s].status = "blocked_approval" /\ rows'[s].inc = rows[s].inc
         /\ \/ rows'[s].stale = rows[s].stale /\ rows'[s].outputs = rows[s].outputs
            \/ rows'[s].stale = FALSE /\ rows'[s].outputs = o
<1>1. CASE rows' = [rows EXCEPT ![s].status = "blocked_approval"]
  BY <1>1 DEF Rows, Stored
<1>2. CASE rows' = [rows EXCEPT ![s] = [@ EXCEPT !.status = "blocked_approval",
                                                 !.stale = FALSE, !.outputs = o]]
  <2>1. PICK row : row = [rows[s] EXCEPT !.status = "blocked_approval", !.stale = FALSE, !.outputs = o]
    OBVIOUS
  <2>2. rows \in [Stages -> Rows] /\ rows[s] \in Rows
    BY DEF Stored
  <2>3. row \in Rows /\ row.status = "blocked_approval" /\ row.stale = FALSE /\ row.outputs = o
        /\ row.inc = rows[s].inc
    BY <2>1, <2>2 DEF Rows
  <2>4. rows' = [rows EXCEPT ![s] = row]
    BY <1>2, <2>1, <2>2
  <2> QED
    BY <2>2, <2>3, <2>4
<1> QED
  BY <1>1, <1>2

(* What a step of a stage leaves as it was, whatever becomes of it.        *)
LEMMA StageFrame ==
  ASSUME IInv, NEW s \in Stages, Step(s)
  PROVE  /\ rows' \in [Stages -> Rows]
         /\ \A t \in Stages : /\ rows'[t].inc = rows[t].inc
                              /\ t # s => /\ rows'[t].stale = rows[t].stale
                                          /\ rows'[t].outputs = rows[t].outputs
                              /\ t # s /\ rows[t].status \in Terminal => rows'[t] = rows[t]
                              /\ t # s /\ t \notin DownstreamOf(graph, s) => rows'[t] = rows[t]
                              /\ t # s /\ rows'[t] # rows[t] =>
                                   rows'[t].status = "skipped" /\ ~Ready(t) /\ Failing(s)
         /\ approvals \subseteq approvals'
<1>1. /\ rows \in [Stages -> Rows] /\ Stored /\ Typed /\ PassesAreCurrent /\ Told
      /\ Upstream(s) \in Outputs /\ (InRun => Output(s) \in Outputs)
  BY OutputsTyped DEF IInv, Typed, Stored
<1>2. ~BuiltOn(s) /\ InRun
  BY StageOutcomes
<1>3. CASE UNCHANGED <<rows, approvals>>
  BY <1>1, <1>3
<1>4. CASE Passing(s)
  BY <1>1, <1>4, RowsPass DEF Passing
<1>5. CASE Failing(s)
  <2>1. PICK b \in BOOLEAN, o \in Outputs : Fails(s, b, o)
    BY <1>5 DEF Failing
  <2>2. \A t \in DownstreamOf(graph, s) : ~Ready(t)
    BY <1>1, <1>2, BelowUncounted
  <2> QED
    BY <1>1, <1>5, <2>1, <2>2, RowsFail
<1>6. CASE BlockingEntry(s)
  BY <1>1, <1>6, RowsBlock DEF BlockingEntry, Ask
<1>7. CASE BlockingExit(s)
  BY <1>1, <1>2, <1>7, RowsBlock DEF BlockingExit, Ask
<1> QED
  BY <1>3, <1>4, <1>5, <1>6, <1>7, StageOutcomes

-----------------------------------------------------------------------------
(* Every step keeps the types *)

(* What the script does to the store, call by call. *)
StoreStays == UNCHANGED <<scenario, status, graph, rows, approvals, edits>>
Creates ==
    /\ NoRun /\ status' = "running" /\ graph' = BuildGraph /\ rows' = RowsOf(BuildGraph)
    /\ UNCHANGED <<scenario, approvals, outerVars>>
Inserts(s) ==
    /\ ~NoRun /\ s \in Inserted \ graph.nodes /\ Valid(WithStage(graph, s, DependsOn(s), {}))
    /\ graph' = WithStage(graph, s, DependsOn(s), {})
    /\ rows' = [rows EXCEPT ![s] = NewRow]
    /\ status' = "running"
    /\ UNCHANGED <<scenario, approvals, outerVars>>
Invalidates(s) ==
    /\ s \in graph.nodes
    /\ rows' = [t \in Stages |-> IF t \in Affected(s)
                  THEN [rows[t] EXCEPT !.status = "stale", !.stale = TRUE, !.inc = @ + 1]
                  ELSE rows[t]]
    /\ status' = "running"
    /\ UNCHANGED <<scenario, graph, approvals, outerVars>>

(* The call at the head of a script, and what is left once it is through.  *)
LEMMA NextCall ==
  ASSUME Scripted, script # NoScript, script.calls # <<>>
  PROVE  LET calls == script.calls IN
         /\ Head(calls) \in Calling /\ Head(calls) = calls[1] /\ 1 \in DOMAIN calls
         /\ Head(calls).op = "run" <=> Len(calls) = 1
         /\ Tail(calls) \in Seq(Calling)
         /\ DOMAIN Tail(calls) = 1 .. Len(calls) - 1
         /\ \A i \in 1 .. Len(calls) - 1 : Tail(calls)[i] = calls[i + 1]
         /\ Head(calls).op # "run" =>
              /\ Tail(calls) # <<>>
              /\ Tail(calls)[Len(Tail(calls))].op = "run"
              /\ \A i \in 1 .. Len(Tail(calls)) - 1 : Tail(calls)[i].op # "run"
<1> DEFINE calls == script.calls
<1>1. calls \in Seq(Calling) /\ calls # <<>>
  BY DEF Scripted
<1>2. calls[Len(calls)].op = "run" /\ \A i \in 1 .. Len(calls) - 1 : calls[i].op # "run"
  BY DEF Scripted
<1> HIDE DEF calls
<1>3. Len(calls) \in Nat \ {0} /\ Head(calls) = calls[1] /\ 1 \in DOMAIN calls /\ Head(calls) \in Calling
  BY <1>1
<1>4. /\ Tail(calls) \in Seq(Calling) /\ Len(Tail(calls)) = Len(calls) - 1
      /\ DOMAIN Tail(calls) = 1 .. Len(calls) - 1
      /\ \A i \in 1 .. Len(calls) - 1 : Tail(calls)[i] = calls[i + 1]
  BY <1>1, <1>3
<1>5. Head(calls).op = "run" <=> Len(calls) = 1
  <2>1. CASE Len(calls) = 1
    BY <1>2, <1>3, <2>1
  <2>2. CASE Len(calls) # 1
    <3>1. 1 \in 1 .. Len(calls) - 1
      BY <1>3, <2>2
    <3> QED
      BY <1>2, <1>3, <2>2, <3>1
  <2> QED
    BY <2>1, <2>2
<1>6. ASSUME Head(calls).op # "run"
      PROVE  /\ Tail(calls) # <<>>
             /\ Tail(calls)[Len(Tail(calls))].op = "run"
             /\ \A i \in 1 .. Len(Tail(calls)) - 1 : Tail(calls)[i].op # "run"
  <2>1. Len(calls) - 1 \in 1 .. Len(calls) - 1
    <3>1. Len(calls) # 1
      BY <1>5, <1>6
    <3> QED
      BY <1>3, <3>1, SMTT(20)
  <2>2. Tail(calls) # <<>>
    <3>1. Len(Tail(calls)) # 0
      BY <1>3, <1>4, <2>1
    <3>2. Len(<<>>) = 0
      OBVIOUS
    <3> QED
      BY <3>1, <3>2, Zenon
  <2>3. Tail(calls)[Len(calls) - 1] = calls[Len(calls)]
    BY <1>3, <1>4, <2>1
  <2>4. \A i \in 1 .. Len(Tail(calls)) - 1 : i \in 1 .. Len(calls) - 1 /\ i + 1 \in 1 .. Len(calls) - 1
    BY <1>3, <1>4
  <2> QED
    BY <1>2, <1>4, <2>2, <2>3, <2>4
<1> QED
  BY <1>3, <1>4, <1>5, <1>6 DEF calls

(* A script that goes on keeps its shape. *)
LEMMA ScriptProceeds ==
  ASSUME IInv, script # NoScript, script.calls # <<>>, Head(script.calls).op # "run", Proceed,
         scenario' = scenario
  PROVE  /\ Scripted' /\ script' # NoScript /\ ~InRun'
         /\ script'.name = script.name /\ script'.calls = Tail(script.calls)
<1>1. script \in [name : Names \cup {None}, calls : Seq(Calling), input : Inputs \cup {None}]
      /\ script.name \in Names /\ Scripted
  BY DEF IInv, Typed, Scripted
<1>2. Tail(script.calls) \in Seq(Calling) /\ Tail(script.calls) # <<>>
      /\ Tail(script.calls)[Len(Tail(script.calls))].op = "run"
      /\ \A i \in 1 .. Len(Tail(script.calls)) - 1 : Tail(script.calls)[i].op # "run"
  BY <1>1, NextCall
<1>3. /\ script' \in [name : Names \cup {None}, calls : Seq(Calling), input : Inputs \cup {None}]
      /\ script'.name = script.name /\ script'.calls = Tail(script.calls)
  BY <1>1, <1>2 DEF Proceed
<1>4. script' # NoScript
  BY <1>1, <1>3, NamesAreScripts DEF NoScript
<1>5. ~InRun'
  BY <1>2, <1>3 DEF InRun
<1> QED
  BY <1>1, <1>2, <1>3, <1>4, <1>5 DEF Scripted, NoScript

(* What a script's calls do to the store. *)
LEMMA CallsDo ==
  ASSUME IInv, CreateRun \/ InsertStage \/ InvalidateDownstream
  PROVE  /\ script # NoScript /\ script.calls # <<>> /\ Head(script.calls).op # "run"
         /\ UNCHANGED <<scenario, approvals, runVars, outerVars, history>>
         /\ \/ script' = NoScript /\ StoreStays
            \/ /\ Proceed
               /\ \/ StoreStays /\ Head(script.calls).op = "create" /\ ~NoRun
                  \/ Creates /\ Head(script.calls).op = "create"
                  \/ StoreStays /\ Head(script.calls).op = "insert" /\ Target \in graph.nodes
                  \/ Inserts(Target) /\ Head(script.calls).op = "insert"
                  \/ Invalidates(Target) /\ Head(script.calls).op = "invalidate"
<1>1. CASE CreateRun
  BY <1>1 DEF CreateRun, Calls, Comes, Missing, Creates, StoreStays, outerVars
<1>2. CASE InsertStage
  <2>1. Head(script.calls).op = "insert" /\ Head(script.calls) \in Calling
    BY <1>2, NextCall DEF InsertStage, Calls, Comes, IInv, Typed
  <2>2. Target \in Inserted
    BY <2>1 DEF Target, Calling, Run, Create, Call
  <2> QED
    BY <1>2, <2>1, <2>2 DEF InsertStage, Calls, Comes, Raise, Inserts, StoreStays, outerVars
<1>3. CASE InvalidateDownstream
  <2>1. Head(script.calls).op = "invalidate"
    BY <1>3 DEF InvalidateDownstream, Calls, Comes
  <2>2. CASE Target \notin graph.nodes
    BY <1>3, <2>1, <2>2 DEF InvalidateDownstream, Calls, Comes, Raise, StoreStays, outerVars
  <2>3. CASE Target \in graph.nodes
    BY <1>3, <2>1, <2>3 DEF InvalidateDownstream, Calls, Comes, Invalidates, outerVars
  <2> QED
    BY <2>2, <2>3
<1> QED
  BY <1>1, <1>2, <1>3

LEMMA CreatesTyped ==
  ASSUME Stored, Creates
  PROVE  /\ Stored'
         /\ \A s \in Stages : rows'[s].status \in {"none", "pending"} /\ rows'[s].outputs = Nothing
                              /\ ~rows'[s].stale
<1> DEFINE N == BuildGraph.nodes
<1>1. BuildGraph = GraphOf(N) /\ N \subseteq Planned /\ \A s \in N : DependsOn(s) \subseteq N
  <2>1. CASE scenario = "greenfield"
    BY <2>1 DEF BuildGraph, GraphOf, Planned, DependsOn, Stages
  <2>2. CASE scenario = "brownfield"
    BY <2>2 DEF BuildGraph, GraphOf, Planned, DependsOn, Stages
  <2>3. CASE scenario = "ambiguous"
    <3>1. BuildGraph = GraphOf(Stages \ {"codebase_reasoning"}) /\ N = Stages \ {"codebase_reasoning"}
      BY <2>3 DEF BuildGraph, GraphOf
    <3> QED
      BY <2>3, <3>1 DEF Planned, DependsOn, Stages
  <2> QED
    BY <2>1, <2>2, <2>3 DEF Stored
<1>2. graph' = BuildGraph /\ graph'.nodes = N /\ scenario' = scenario /\ status' = "running"
      /\ approvals' = approvals /\ edits' = edits
  BY DEF Creates, outerVars
<1>3. NewRow \in Rows /\ NoRow \in Rows /\ NoRow.status = "none" /\ NewRow.status = "pending"
      /\ NoRow.outputs = Nothing /\ NewRow.outputs = Nothing /\ ~NoRow.stale /\ ~NewRow.stale
  BY DEF NewRow, NoRow, Rows, Nothing, Outputs, Terminal
<1>4. \A s \in Stages : rows'[s] = IF s \in N THEN NewRow ELSE NoRow
  BY DEF Creates, RowsOf
<1>5. rows' \in [Stages -> Rows]
  BY <1>3 DEF Creates, RowsOf
<1>6. \A s \in Stages : DependsOn(s)' = DependsOn(s)
  BY <1>2 DEF DependsOn
<1>7. Planned' = Planned
  BY <1>2 DEF Planned
<1>8. N \subseteq Stages
  BY <1>1 DEF Planned
<1>9. graph' = GraphOf(graph.nodes)'
  <2>1. GraphOf(graph.nodes)' = [nodes |-> N, deps |-> [s \in Stages |-> IF s \in N THEN DependsOn(s) ELSE {}]]
    BY <1>2, <1>6 DEF GraphOf
  <2> QED
    BY <1>1, <1>2, <2>1 DEF GraphOf
<1>10. /\ graph'.nodes \subseteq Planned' /\ \A s \in graph'.nodes : DependsOn(s)' \subseteq graph'.nodes
       /\ \A s \in Stages : IF s \in graph'.nodes THEN rows'[s].status # "none" ELSE rows'[s] = NoRow
  BY <1>1, <1>2, <1>3, <1>4, <1>6, <1>7, <1>8
<1>11. scenario' \in {"greenfield", "brownfield", "ambiguous"} /\ status' \in {"running"} /\ ~NoRun'
       /\ approvals' \subseteq Approvals /\ edits' \in Nat
  BY <1>2 DEF Stored, NoRun
<1> QED
  BY <1>3, <1>4, <1>5, <1>9, <1>10, <1>11 DEF Stored

LEMMA InsertsTyped ==
  ASSUME Stored, NEW s, Inserts(s)
  PROVE  /\ Stored' /\ s \in Stages
         /\ graph'.nodes = graph.nodes \cup {s}
         /\ rows'[s] = NewRow /\ \A t \in Stages \ {s} : rows'[t] = rows[t] /\ graph'.deps[t] = graph.deps[t]
         /\ \A t \in graph.nodes : s \notin graph.deps[t]
<1>1. s \in Stages /\ s \in Inserted /\ s \notin graph.nodes /\ s # "codebase_reasoning" /\ s \in Planned
  BY DEF Inserts, Inserted, Stages, Planned
<1>2. graph' = WithStage(graph, s, DependsOn(s), {}) /\ scenario' = scenario /\ status' = "running"
      /\ approvals' = approvals /\ edits' = edits /\ rows' = [rows EXCEPT ![s] = NewRow]
  BY DEF Inserts, outerVars
<1>3. graph = GraphOf(graph.nodes) /\ graph.nodes \subseteq Planned /\ rows \in [Stages -> Rows]
      /\ graph.nodes \subseteq Stages
  BY GraphShape DEF Stored
<1>4. graph.deps = [t \in Stages |-> IF t \in graph.nodes THEN DependsOn(t) ELSE {}]
  <2> DEFINE N == graph.nodes
  <2>1. GraphOf(N).deps = [t \in Stages |-> IF t \in N THEN DependsOn(t) ELSE {}]
    BY DEF GraphOf
  <2> QED
    BY <1>3, <2>1
<1>5. /\ graph'.nodes = graph.nodes \cup {s}
      /\ graph'.deps = [t \in Stages |-> IF t = s THEN DependsOn(s) ELSE graph.deps[t]]
      /\ graph' = [nodes |-> graph.nodes \cup {s},
                   deps |-> [t \in Stages |-> IF t = s THEN DependsOn(s) ELSE graph.deps[t]]]
  BY <1>2, <1>4 DEF WithStage
<1>6. \A t \in Stages : DependsOn(t)' = DependsOn(t)
  BY <1>2 DEF DependsOn
<1>7. graph' = GraphOf(graph.nodes)'
  <2>1. GraphOf(graph.nodes)' = [nodes |-> graph'.nodes, deps |-> [t \in Stages |-> IF t \in graph'.nodes THEN DependsOn(t) ELSE {}]]
    BY <1>6 DEF GraphOf
  <2>2. \A t \in Stages : (IF t = s THEN DependsOn(s) ELSE graph.deps[t]) = IF t \in graph'.nodes THEN DependsOn(t) ELSE {}
    BY <1>1, <1>4, <1>5
  <2> QED
    BY <1>5, <2>1, <2>2
<1>8. DependsOn(s) \subseteq graph'.nodes
  BY <1>1, <1>2, <1>5 DEF Inserts, Valid, KnownDependencies
<1>9. /\ graph'.nodes \subseteq Planned' /\ \A t \in graph'.nodes : DependsOn(t)' \subseteq graph'.nodes
  <2>1. Planned' = Planned
    BY <1>2 DEF Planned
  <2> QED
    BY <1>1, <1>3, <1>5, <1>6, <1>8, <2>1 DEF Stored
<1>10. NewRow \in Rows /\ NewRow.status # "none"
  BY DEF NewRow, Rows, Nothing, Outputs, Terminal
<1>11. /\ rows' \in [Stages -> Rows]
       /\ \A t \in Stages : IF t \in graph'.nodes THEN rows'[t].status # "none" ELSE rows'[t] = NoRow
  BY <1>1, <1>2, <1>3, <1>5, <1>10 DEF Stored
<1>12. /\ scenario' \in {"greenfield", "brownfield", "ambiguous"} /\ status' \in {"running"} /\ ~NoRun'
       /\ approvals' \subseteq Approvals /\ edits' \in Nat
  BY <1>2 DEF Stored, NoRun
<1>13. Stored'
  BY <1>7, <1>9, <1>11, <1>12 DEF Stored
<1>14. rows'[s] = NewRow /\ \A t \in Stages \ {s} : rows'[t] = rows[t] /\ graph'.deps[t] = graph.deps[t]
  BY <1>1, <1>2, <1>3, <1>5
<1> QED
  BY <1>1, <1>3, <1>5, <1>13, <1>14, GraphShape

LEMMA InvalidatesTyped ==
  ASSUME Stored, NEW s, Invalidates(s)
  PROVE  /\ Stored' /\ s \in Stages /\ Affected(s) \subseteq graph.nodes
         /\ \A t \in Stages :
              IF t \in Affected(s)
                THEN /\ rows'[t].status = "stale" /\ rows'[t].stale /\ rows'[t].inc = rows[t].inc + 1
                     /\ rows'[t].outputs = rows[t].outputs
                ELSE rows'[t] = rows[t]
<1>1. s \in Stages /\ s \in graph.nodes /\ rows \in [Stages -> Rows]
  BY GraphShape DEF Invalidates, Stored
<1>2. Affected(s) \subseteq graph.nodes
  BY <1>1 DEF Affected, DownstreamOf
<1>3. /\ rows' \in [Stages -> Rows]
      /\ \A t \in Stages :
           IF t \in Affected(s)
             THEN /\ rows'[t].status = "stale" /\ rows'[t].stale /\ rows'[t].inc = rows[t].inc + 1
                  /\ rows'[t].outputs = rows[t].outputs
             ELSE rows'[t] = rows[t]
  <2> DEFINE aside(t) == [rows[t] EXCEPT !.status = "stale", !.stale = TRUE, !.inc = @ + 1]
  <2>1. rows' = [t \in Stages |-> IF t \in Affected(s) THEN aside(t) ELSE rows[t]]
    BY DEF Invalidates
  <2>2. ASSUME NEW t \in Stages
        PROVE  /\ aside(t) \in Rows
               /\ aside(t).status = "stale" /\ aside(t).stale /\ aside(t).inc = rows[t].inc + 1
               /\ aside(t).outputs = rows[t].outputs
    <3>1. rows[t] \in Rows /\ rows[t].inc \in Nat
      BY <1>1 DEF Rows
    <3>2. PICK n \in Nat : n = rows[t].inc + 1
      BY <3>1
    <3>3. aside(t) = [rows[t] EXCEPT !.status = "stale", !.stale = TRUE, !.inc = n]
      BY <3>2
    <3> QED
      BY <3>1, <3>2, <3>3 DEF Rows
  <2> HIDE DEF aside
  <2> QED
    BY <1>1, <2>1, <2>2
<1>4. /\ scenario' = scenario /\ graph' = graph /\ approvals' = approvals /\ edits' = edits
      /\ status' = "running"
  BY DEF Invalidates, outerVars
<1>5. \A t \in Stages : IF t \in graph'.nodes THEN rows'[t].status # "none" ELSE rows'[t] = NoRow
  BY <1>2, <1>3, <1>4 DEF Stored
<1>6. Planned' = Planned /\ GraphOf(graph.nodes)' = GraphOf(graph.nodes)
      /\ \A t \in Stages : DependsOn(t)' = DependsOn(t)
  BY <1>4 DEF Planned, GraphOf, DependsOn
<1>7. Stored'
  BY <1>3, <1>4, <1>5, <1>6, GraphShape DEF Stored, NoRun
<1> QED
  BY <1>1, <1>2, <1>3, <1>7

(* Stages that are skipped because of what they rest on. *)
LEMMA SkipsTyped ==
  ASSUME Stored, NEW S, rows' = SkipAll(S)
  PROVE  /\ rows' \in [Stages -> Rows]
         /\ \A t \in Stages :
              IF t \in S THEN /\ rows'[t].status = "skipped" /\ rows'[t].stale = rows[t].stale
                              /\ rows'[t].inc = rows[t].inc /\ rows'[t].outputs = rows[t].outputs
                         ELSE rows'[t] = rows[t]
  BY DEF SkipAll, Stored, Rows, Terminal

(* The graph stands while a script does not insert. *)
LEMMA ShapeStays ==
  ASSUME Stored, UNCHANGED <<scenario, graph>>,
         status' \in {"none", "running", "paused_approval", "failed", "completed"},
         status' = "none" => status = "none",
         rows' \in [Stages -> Rows], \A s \in Stages : s \notin graph.nodes => rows'[s] = rows[s],
         \A s \in graph.nodes : rows'[s].status # "none",
         approvals' \subseteq Approvals, edits' \in Nat
  PROVE  Stored'
<1>1. Planned' = Planned /\ GraphOf(graph.nodes)' = GraphOf(graph.nodes)
      /\ \A t \in Stages : DependsOn(t)' = DependsOn(t)
  BY DEF Planned, GraphOf, DependsOn
<1>2. \A s \in Stages : IF s \in graph'.nodes THEN rows'[s].status # "none" ELSE rows'[s] = NoRow
  BY DEF Stored
<1>3. /\ scenario' \in {"greenfield", "brownfield", "ambiguous"}
      /\ graph'.nodes \subseteq Planned' /\ graph' = GraphOf(graph.nodes)'
      /\ \A s \in graph'.nodes : DependsOn(s)' \subseteq graph'.nodes
      /\ NoRun' => graph'.nodes = {}
  BY <1>1, GraphShape DEF Stored, NoRun
<1> QED
  BY <1>2, <1>3 DEF Stored

(* What asking adds. *)
LEMMA AskTyped ==
  ASSUME Stored, NEW s \in Stages, NEW o \in Outputs, Ask(s, o)
  PROVE  approvals' \subseteq Approvals
<1>1. [stage |-> s, inc |-> rows[s].inc, status |-> "pending", shown |-> o] \in Approvals
  BY DEF Stored, Rows, Approvals
<1> QED
  BY <1>1 DEF Ask, Stored

(* What a script that dies leaves: the attempts that were under way, those *)
(* of S, on record as begun, and perhaps a request.                        *)
Dying == (\E S \in SUBSET runnable : Die(S)) \/ \E s \in Stages : DieAsking(s)

LEMMA MayBeBuiltOn ==
  ASSUME IInv, NEW s \in runnable
  PROVE  InRun /\ s \in Stages /\ s \in graph.nodes /\ Ready(s) /\ ~BuiltOn(s) /\ IsActionable(rows[s])
<1>1. InRun /\ s \in graph.nodes /\ Ready(s) /\ IsActionable(rows[s])
  BY DEF IInv, Walk
<1>2. s \in Stages
  BY <1>1, GraphShape DEF IInv, Typed
<1>3. ~BuiltOn(s)
  BY <1>1, <1>2 DEF BuiltOn, Counts, CutShort, IsActionable, IInv, Told, ToldOf
<1> QED
  BY <1>1, <1>2, <1>3

LEMMA BegunTyped ==
  ASSUME Stored, NEW s \in Stages, NEW o \in Outputs
  PROVE  /\ BegunRow(s, o) \in Rows
         /\ BegunRow(s, o).status = "running" /\ BegunRow(s, o).stale = FALSE
         /\ BegunRow(s, o).inc = rows[s].inc /\ BegunRow(s, o).outputs = o
<1>1. rows[s] \in Rows
  BY DEF Stored
<1> QED
  BY <1>1 DEF BegunRow, Rows

LEMMA DyingLeaves ==
  ASSUME IInv, Dying
  PROVE  /\ UNCHANGED <<scenario, status, graph, edits, signed, applied>>
         /\ script # NoScript /\ script' = NoScript /\ rested' = None
         /\ done' = {} /\ layer' = {} /\ runnable' = {}
         /\ approvals' = approvals \/ \E s \in Stages, o \in Outputs : Ask(s, o)
         /\ left' \in Leftovers
         /\ left.attempts \subseteq left'.attempts /\ left.requests \subseteq left'.requests
         /\ rows' \in [Stages -> Rows]
         /\ \E S \in SUBSET runnable : \A t \in Stages :
              IF t \in S
                THEN /\ rows'[t].status = "running" /\ rows'[t].stale = FALSE /\ rows'[t].inc = rows[t].inc
                     /\ rows'[t].outputs \in Recorded(t)
                     /\ [stage |-> t, outputs |-> rows'[t].outputs] \in left'.attempts
                ELSE rows'[t] = rows[t]
<1>1. /\ Stored /\ Typed /\ left \in Leftovers /\ rows \in [Stages -> Rows]
  BY DEF IInv, Typed, Stored, Remembered
<1>2. Dies
  BY DEF Dying, Die, DieAsking
<1>3. /\ UNCHANGED <<scenario, status, graph, edits, signed, applied>>
      /\ script # NoScript /\ script' = NoScript /\ rested' = None
      /\ done' = {} /\ layer' = {} /\ runnable' = {}
  BY <1>2 DEF Dies
<1>4. \A s \in runnable : /\ s \in Stages /\ rows[s].outputs \in Outputs /\ Output(s) \in Outputs
                           /\ Upstream(s) \in Outputs /\ Recorded(s) \subseteq Outputs
  <2> SUFFICES ASSUME NEW s \in runnable
               PROVE  /\ s \in Stages /\ rows[s].outputs \in Outputs /\ Output(s) \in Outputs
                      /\ Upstream(s) \in Outputs /\ Recorded(s) \subseteq Outputs
    OBVIOUS
  <2>1. s \in Stages /\ InRun
    BY MayBeBuiltOn
  <2>2. Output(s) \in Outputs /\ Upstream(s) \in Outputs /\ rows[s].outputs \in Outputs
    BY <1>1, <2>1, OutputsTyped DEF Rows
  <2>3. Both(s) \in Outputs
    BY <2>2 DEF Both, Outputs
  <2> QED
    BY <2>1, <2>2, <2>3 DEF Recorded
<1>5. ASSUME NEW S \in SUBSET runnable, Die(S)
      PROVE  /\ approvals' = approvals /\ left' \in Leftovers
             /\ left.attempts \subseteq left'.attempts /\ left.requests \subseteq left'.requests
             /\ rows' \in [Stages -> Rows]
             /\ \A t \in Stages :
                  IF t \in S
                    THEN /\ rows'[t].status = "running" /\ rows'[t].stale = FALSE /\ rows'[t].inc = rows[t].inc
                         /\ rows'[t].outputs \in Recorded(t)
                         /\ [stage |-> t, outputs |-> rows'[t].outputs] \in left'.attempts
                    ELSE rows'[t] = rows[t]
  <2>1. PICK outputs \in [S -> UNION {Recorded(s) : s \in S}] :
          /\ \A s \in S : outputs[s] \in Recorded(s)
          /\ rows' = [s \in Stages |-> IF s \in S THEN BegunRow(s, outputs[s]) ELSE rows[s]]
          /\ left' = [left EXCEPT !.attempts = @ \cup {[stage |-> s, outputs |-> outputs[s]] : s \in S}]
    BY <1>5 DEF Die
  <2>2. \A s \in S : s \in Stages /\ outputs[s] \in Outputs /\ outputs[s] \in Recorded(s)
    BY <1>4, <2>1
  <2>3. rows' \in [Stages -> Rows]
    BY <1>1, <2>1, <2>2, BegunTyped
  <2>4. \A t \in S : /\ rows'[t].status = "running" /\ rows'[t].stale = FALSE /\ rows'[t].inc = rows[t].inc
                      /\ rows'[t].outputs = outputs[t]
    BY <1>1, <2>1, <2>2, BegunTyped
  <2>5. {[stage |-> s, outputs |-> outputs[s]] : s \in S} \subseteq [stage : Stages, outputs : Outputs]
    BY <2>2
  <2>6. /\ left' \in Leftovers /\ left'.requests = left.requests
        /\ left'.attempts = left.attempts \cup {[stage |-> s, outputs |-> outputs[s]] : s \in S}
    BY <1>1, <2>1, <2>5 DEF Leftovers
  <2>7. \A t \in S : [stage |-> t, outputs |-> rows'[t].outputs] \in left'.attempts
    BY <2>4, <2>6
  <2>8. \A t \in Stages \ S : rows'[t] = rows[t]
    BY <2>1
  <2>9. approvals' = approvals
    BY <1>5 DEF Die
  <2> QED
    BY <2>2, <2>3, <2>4, <2>6, <2>7, <2>8, <2>9
<1>6. ASSUME NEW s \in Stages, DieAsking(s), EntryApproval(s)
      PROVE  /\ Ask(s, Upstream(s)) /\ s \in runnable /\ UNCHANGED rows /\ left' \in Leftovers
             /\ left'.attempts = left.attempts /\ left.requests \subseteq left'.requests
  <2>1. ~ExitApproval(s)
    BY <1>6 DEF EntryApproval, ExitApproval
  <2>2. /\ Ask(s, Upstream(s)) /\ s \in runnable /\ UNCHANGED rows
        /\ left' = [left EXCEPT !.requests = @ \cup {[stage |-> s, inc |-> rows[s].inc]}]
    BY <1>6, <2>1 DEF DieAsking
  <2>3. rows[s].inc \in Nat
    BY <1>1 DEF Rows
  <2> QED
    BY <1>1, <2>2, <2>3 DEF Leftovers
<1>7. ASSUME NEW s \in Stages, DieAsking(s), ~EntryApproval(s)
      PROVE  /\ Ask(s, Output(s)) /\ s \in runnable /\ ExitApproval(s) /\ left' \in Leftovers
             /\ rows' = [rows EXCEPT ![s] = BegunRow(s, Output(s))]
             /\ left'.attempts = left.attempts \cup {[stage |-> s, outputs |-> Output(s)]}
             /\ left'.requests = left.requests
  <2>1. /\ Ask(s, Output(s)) /\ s \in runnable /\ ExitApproval(s)
        /\ rows' = [rows EXCEPT ![s] = BegunRow(s, Output(s))]
        /\ left' = [left EXCEPT !.attempts = @ \cup {[stage |-> s, outputs |-> Output(s)]}]
    BY <1>7 DEF DieAsking
  <2>2. [stage |-> s, outputs |-> Output(s)] \in [stage : Stages, outputs : Outputs]
    BY <1>4, <2>1
  <2> QED
    BY <1>1, <2>1, <2>2 DEF Leftovers
<1>8. ASSUME NEW s \in Stages, DieAsking(s)
      PROVE  /\ \E o \in Outputs : Ask(s, o)
             /\ left' \in Leftovers
             /\ left.attempts \subseteq left'.attempts /\ left.requests \subseteq left'.requests
             /\ rows' \in [Stages -> Rows]
             /\ \E S \in SUBSET runnable : \A t \in Stages :
                  IF t \in S
                    THEN /\ rows'[t].status = "running" /\ rows'[t].stale = FALSE /\ rows'[t].inc = rows[t].inc
                         /\ rows'[t].outputs \in Recorded(t)
                         /\ [stage |-> t, outputs |-> rows'[t].outputs] \in left'.attempts
                    ELSE rows'[t] = rows[t]
  <2>1. CASE EntryApproval(s)
    <3>1. /\ Ask(s, Upstream(s)) /\ s \in runnable /\ UNCHANGED rows /\ left' \in Leftovers
          /\ left'.attempts = left.attempts /\ left.requests \subseteq left'.requests
      BY <1>6, <1>8, <2>1
    <3>2. {} \in SUBSET runnable /\ \A t \in Stages : t \notin {} /\ rows'[t] = rows[t]
      BY <3>1
    <3>3. Upstream(s) \in Outputs /\ rows' \in [Stages -> Rows]
      BY <1>1, <1>4, <3>1
    <3> QED
      BY <3>1, <3>2, <3>3
  <2>2. CASE ~EntryApproval(s)
    <3>1. /\ Ask(s, Output(s)) /\ s \in runnable /\ left' \in Leftovers
          /\ rows' = [rows EXCEPT ![s] = BegunRow(s, Output(s))]
          /\ left'.attempts = left.attempts \cup {[stage |-> s, outputs |-> Output(s)]}
          /\ left'.requests = left.requests
      BY <1>7, <1>8, <2>2
    <3>2. Output(s) \in Outputs /\ Output(s) \in Recorded(s)
      BY <1>4, <3>1 DEF Recorded
    <3>3. rows' \in [Stages -> Rows] /\ \A t \in Stages \ {s} : rows'[t] = rows[t]
      BY <1>1, <3>1, <3>2, BegunTyped
    <3>4. rows'[s] = BegunRow(s, Output(s))
      BY <1>1, <3>1
    <3>5. /\ rows'[s].status = "running" /\ rows'[s].stale = FALSE /\ rows'[s].inc = rows[s].inc
          /\ rows'[s].outputs = Output(s)
      <4>1. /\ BegunRow(s, Output(s)).status = "running" /\ BegunRow(s, Output(s)).stale = FALSE
            /\ BegunRow(s, Output(s)).inc = rows[s].inc /\ BegunRow(s, Output(s)).outputs = Output(s)
        BY <1>1, <3>2, BegunTyped
      <4> QED
        BY <3>4, <4>1
    <3>6. {s} \in SUBSET runnable
      BY <3>1
    <3>7. \A t \in Stages :
            IF t \in {s}
              THEN /\ rows'[t].status = "running" /\ rows'[t].stale = FALSE /\ rows'[t].inc = rows[t].inc
                   /\ rows'[t].outputs \in Recorded(t)
                   /\ [stage |-> t, outputs |-> rows'[t].outputs] \in left'.attempts
              ELSE rows'[t] = rows[t]
      BY <3>1, <3>2, <3>3, <3>5
    <3> QED
      BY <3>1, <3>2, <3>3, <3>6, <3>7
  <2> QED
    BY <2>1, <2>2
<1> QED
  BY <1>3, <1>5, <1>8 DEF Dying

(* And what it leaves alone: all that stages are built on. *)
LEMMA DyingSpares ==
  ASSUME IInv, Dying
  PROVE  /\ \A t \in Stages : BuiltOn(t) => rows'[t] = rows[t] /\ BuiltOn(t)'
         /\ \A t \in Stages : Counts(t)' => rows'[t] = rows[t]
         /\ \A t \in Stages : Ready(t) => Ready(t)' /\ \A d \in graph.deps[t] : rows'[d] = rows[d]
         /\ \A t \in Stages : rows'[t].inc = rows[t].inc
         /\ \A t \in Stages :
               \/ rows'[t] = rows[t]
               \/ /\ t \in runnable /\ rows'[t].status = "running"
                  /\ rows'[t].outputs \in Recorded(t)
<1>1. PICK S \in SUBSET runnable : \A t \in Stages :
        IF t \in S
          THEN /\ rows'[t].status = "running" /\ rows'[t].stale = FALSE /\ rows'[t].inc = rows[t].inc
               /\ rows'[t].outputs \in Recorded(t)
          ELSE rows'[t] = rows[t]
  BY DyingLeaves
<1>2. \A t \in Stages : BuiltOn(t) => rows'[t] = rows[t] /\ BuiltOn(t)'
  BY <1>1, MayBeBuiltOn DEF BuiltOn, Counts, CutShort
<1>3. \A t \in Stages : Ready(t) => Ready(t)' /\ \A d \in graph.deps[t] : rows'[d] = rows[d]
  <2>1. graph' = graph /\ \A t \in Stages : graph.deps[t] \subseteq Stages
    BY DyingLeaves, GraphShape DEF IInv, Typed
  <2> QED
    BY <1>2, <2>1 DEF Ready
<1> QED
  BY <1>1, <1>2, <1>3 DEF Counts

LEMMA StageKeepsStored ==
  ASSUME IInv, NEW s \in Stages, Step(s)
  PROVE  Stored'
<1>1. /\ UNCHANGED <<scenario, graph, status, edits>> /\ s \in graph.nodes /\ InRun
      /\ \/ UNCHANGED <<rows, approvals>>
         \/ Passing(s) \/ Failing(s) \/ BlockingEntry(s) \/ BlockingExit(s)
  BY StageOutcomes DEF outerVars
<1>2. rows' \in [Stages -> Rows] /\ \A t \in Stages : t # s /\ rows'[t] # rows[t] => rows'[t].status = "skipped"
  BY StageFrame
<1>3. Stored /\ Upstream(s) \in Outputs /\ Output(s) \in Outputs
  BY <1>1, OutputsTyped DEF IInv, Typed
<1>4. approvals' \subseteq Approvals /\ (rows'[s] = rows[s] \/ rows'[s].status # "none")
  <2>1. CASE UNCHANGED <<rows, approvals>>
    BY <1>3, <2>1 DEF Stored
  <2>2. CASE Passing(s)
    BY <1>3, <2>2, RowsPass DEF Passing, Stored
  <2>3. CASE Failing(s)
    BY <1>3, <2>3, RowsFail DEF Failing, Stored
  <2>4. CASE BlockingEntry(s)
    BY <1>3, <2>4, RowsBlock, AskTyped DEF BlockingEntry
  <2>5. CASE BlockingExit(s)
    BY <1>3, <2>5, RowsBlock, AskTyped DEF BlockingExit
  <2> QED
    BY <1>1, <2>1, <2>2, <2>3, <2>4, <2>5
<1>5. \A t \in Stages : t \notin graph.nodes => rows'[t] = rows[t]
  <2> SUFFICES ASSUME NEW t \in Stages, t \notin graph.nodes PROVE rows'[t] = rows[t]
    OBVIOUS
  <2>1. t # s /\ t \notin DownstreamOf(graph, s)
    BY <1>1 DEF DownstreamOf
  <2> QED
    BY <2>1, StageFrame
<1>6. \A t \in graph.nodes : t \in Stages /\ rows[t].status # "none"
  BY <1>3, GraphShape DEF Stored
<1>7. \A t \in graph.nodes : rows'[t].status # "none"
  BY <1>2, <1>4, <1>6
<1>8. status' \in {"none", "running", "paused_approval", "failed", "completed"} /\ edits' \in Nat
  BY <1>1, <1>3 DEF Stored
<1> QED
  BY <1>1, <1>2, <1>3, <1>4, <1>5, <1>7, <1>8, ShapeStays

LEMMA StepKeepsStored == IInv /\ [Next]_vars => Stored'
<1> SUFFICES ASSUME IInv, [Next]_vars PROVE Stored'
  OBVIOUS
<1>1. Stored /\ Scripted /\ Walk
  BY DEF IInv, Typed
<1>2. /\ rows \in [Stages -> Rows] /\ \A s \in graph.nodes : s \in Stages /\ rows[s].status # "none"
      /\ approvals \subseteq Approvals /\ edits \in Nat
      /\ status \in {"none", "running", "paused_approval", "failed", "completed"}
  BY <1>1, GraphShape DEF Stored
<1>3. ASSUME UNCHANGED <<scenario, graph, rows>>, approvals' \subseteq Approvals, edits' \in Nat,
             status' \in {"none", "running", "paused_approval", "failed", "completed"},
             status' = "none" => status = "none"
      PROVE  Stored'
  BY <1>1, <1>2, <1>3, ShapeStays
<1>4. CASE UNCHANGED vars
  BY <1>2, <1>3, <1>4 DEF vars, storeVars, outerVars
<1>5. CASE CreateRun \/ InsertStage \/ InvalidateDownstream
  <2>1. CASE StoreStays
    BY <1>2, <1>3, <2>1 DEF StoreStays
  <2>2. CASE Creates
    BY <1>1, <2>2, CreatesTyped
  <2>3. CASE Inserts(Target)
    BY <1>1, <2>3, InsertsTyped
  <2>4. CASE Invalidates(Target)
    BY <1>1, <2>4, InvalidatesTyped
  <2> QED
    BY <1>5, <2>1, <2>2, <2>3, <2>4, CallsDo
<1>6. CASE \E name \in Scripts : Invoke(name)
  BY <1>2, <1>3, <1>6 DEF Invoke, storeVars, outerVars
<1>7. CASE BuildExecutor
  BY <1>2, <1>3, <1>7 DEF BuildExecutor, Calls, Raise, outerVars, NoRun
<1>8. CASE PlanLayer
  <2>1. PICK S : rows' = SkipAll(S) /\ S \subseteq layer'
    BY <1>8 DEF PlanLayer
  <2>2. layer' \subseteq graph.nodes /\ UNCHANGED <<scenario, graph, status, approvals, edits>>
    BY <1>8 DEF PlanLayer, NextLayer, outerVars
  <2>3. \A s \in graph.nodes : rows'[s].status # "none"
    BY <1>1, <1>2, <2>1, SkipsTyped
  <2>4. \A s \in Stages : s \notin graph.nodes => rows'[s] = rows[s]
    BY <1>1, <2>1, <2>2, SkipsTyped
  <2>5. rows' \in [Stages -> Rows]
    BY <1>1, <2>1, SkipsTyped
  <2> QED
    BY <1>1, <1>2, <2>2, <2>3, <2>4, <2>5, ShapeStays
<1>9. CASE EndLayer
  BY <1>2, <1>3, <1>9 DEF EndLayer, Return, outerVars
<1>10. CASE Finalize
  <2>1. status' \in {"running", "failed", "completed"}
    BY <1>10 DEF Finalize, Return
  <2> QED
    BY <1>2, <1>3, <1>10, <2>1 DEF Finalize, outerVars
<1>11. CASE \E s \in Stages : Recheck(s) \/ EntryGate(s) \/ AttemptFails(s) \/ AttemptSucceeds(s)
  BY <1>11, StageKeepsStored DEF Step
<1>12. ASSUME NEW a \in approvals, NEW verdict \in {"approved", "rejected"}, Decide(a, verdict)
       PROVE  Stored'
  <2>1. [a EXCEPT !.status = verdict] \in Approvals
    BY <1>2 DEF Approvals
  <2> QED
    BY <1>2, <1>3, <1>12, <2>1 DEF Decide
<1>13. CASE Edit
  BY <1>2, <1>3, <1>13 DEF Edit, storeVars
<1>14. CASE Dying
  <2>1. /\ UNCHANGED <<scenario, status, graph, edits>> /\ rows' \in [Stages -> Rows]
        /\ approvals' = approvals \/ \E s \in Stages, o \in Outputs : Ask(s, o)
    BY <1>14, DyingLeaves
  <2>2. approvals' \subseteq Approvals
    BY <1>1, <1>2, <2>1, AskTyped
  <2>3. \A s \in Stages : rows'[s] = rows[s] \/ (s \in graph.nodes /\ rows'[s].status = "running")
    BY <1>14, DyingSpares, MayBeBuiltOn
  <2> QED
    BY <1>1, <1>2, <2>1, <2>2, <2>3, ShapeStays
<1> QED
  BY <1>4, <1>5, <1>6, <1>7, <1>8, <1>9, <1>10, <1>11, <1>12, <1>13, <1>14 DEF Next, Dying

LEMMA StepKeepsScripted == IInv /\ [Next]_vars => Scripted'
<1> SUFFICES ASSUME IInv, [Next]_vars PROVE Scripted'
  OBVIOUS
<1>1. Stored /\ Scripted /\ Walk
  BY DEF IInv, Typed
<1>2. ASSUME script' = NoScript PROVE Scripted'
  BY <1>2 DEF Scripted, NoScript
<1>3. ASSUME UNCHANGED <<scenario, script, edits>>, status' = "none" => status = "none" PROVE Scripted'
  BY <1>1, <1>3 DEF Scripted, NoScript, InRun, NoRun, ScenarioInput
<1>4. CASE UNCHANGED vars
  BY <1>3, <1>4 DEF vars, storeVars, outerVars
<1>5. CASE CreateRun \/ InsertStage \/ InvalidateDownstream
  BY <1>2, <1>5, CallsDo, ScriptProceeds
<1>6. ASSUME NEW name \in Scripts, Invoke(name) PROVE Scripted'
  <2>1. name \in Names /\ script' = [name |-> name, calls |-> CallsOf(name), input |-> None]
    BY <1>1, <1>6, NamesAreScripts DEF Invoke
  <2>2. script'.calls # <<>> /\ ~InRun'
    BY <2>1, CallsAreTyped DEF InRun
  <2> QED
    BY <2>1, <2>2, CallsAreTyped DEF Scripted
<1>7. CASE BuildExecutor
  <2>1. CASE NoRun
    BY <1>2, <1>7, <2>1 DEF BuildExecutor, Raise
  <2>2. CASE ~NoRun
    <3>1. /\ script # NoScript /\ script.name \in Names
          /\ script' = [script EXCEPT !.calls = <<>>, !.input = ScenarioInput(script.name)]
          /\ UNCHANGED <<scenario, edits>> /\ status' \in {status, "running"}
      BY <1>1, <1>7, <2>2 DEF BuildExecutor, Calls, Scripted, outerVars
    <3>2. ScenarioInput(script.name) \in Inputs
      BY <1>1 DEF ScenarioInput, Inputs, Stored
    <3>3. /\ script' \in [name : Names \cup {None}, calls : Seq(Calling), input : Inputs \cup {None}]
          /\ script'.name = script.name /\ script'.calls = <<>> /\ script'.input = ScenarioInput(script.name)
      <4> DEFINE in == ScenarioInput(script.name)
                 type == [name : Names \cup {None}, calls : Seq(Calling), input : Inputs \cup {None}]
      <4>1. script \in type /\ <<>> \in Seq(Calling) /\ in \in Inputs
        BY <1>1, <3>2 DEF Scripted
      <4> HIDE DEF in
      <4>2. script' = [script EXCEPT !.calls = <<>>, !.input = in]
        BY <3>1 DEF in
      <4>3. script' \in type /\ script'.name = script.name /\ script'.calls = <<>> /\ script'.input = in
        BY <4>1, <4>2
      <4> QED
        BY <4>3 DEF in
    <3>4. ScenarioInput(script.name)' = ScenarioInput(script.name)
      BY <3>1, <3>3 DEF ScenarioInput
    <3> QED
      BY <2>2, <3>1, <3>3, <3>4 DEF Scripted, NoRun
  <2> QED
    BY <2>1, <2>2
<1>8. CASE PlanLayer
  BY <1>3, <1>8 DEF PlanLayer, outerVars
<1>9. CASE EndLayer
  BY <1>2, <1>3, <1>9 DEF EndLayer, Return, outerVars
<1>10. CASE Finalize
  BY <1>2, <1>10 DEF Finalize, Return
<1>11. CASE \E s \in Stages : Recheck(s) \/ EntryGate(s) \/ AttemptFails(s) \/ AttemptSucceeds(s)
  BY <1>3, <1>11, StageOutcomes DEF Step, outerVars
<1>12. CASE \E a \in approvals, verdict \in {"approved", "rejected"} : Decide(a, verdict)
  BY <1>3, <1>12 DEF Decide
<1>13. CASE Edit
  BY <1>2, <1>13 DEF Edit
<1>14. CASE Dying
  BY <1>2, <1>14, DyingLeaves
<1> QED
  BY <1>4, <1>5, <1>6, <1>7, <1>8, <1>9, <1>10, <1>11, <1>12, <1>13, <1>14 DEF Next, Dying

-----------------------------------------------------------------------------
(* The walk over the layers *)

LEMMA NothingWalked ==
  ASSUME done' = {}, layer' = {}, runnable' = {}
  PROVE  Walk'
  BY DEF Walk

LEMMA PlanKeepsWalk ==
  ASSUME IInv, PlanLayer
  PROVE  Walk'
<1>1. Stored /\ Walk /\ Told
  BY DEF IInv, Typed
<1> DEFINE todo == {s \in layer' : IsActionable(rows[s])}
           skipped == {s \in todo : \E d \in graph.deps[s] : rows[d].status \in {"failed", "skipped"}}
<1>2. /\ InRun /\ InRun' /\ layer' = NextLayer(graph, done) /\ runnable' = todo \ skipped
      /\ rows' = SkipAll(skipped) /\ UNCHANGED <<graph, done>>
  BY DEF PlanLayer, InRun
<1>3. /\ layer' \subseteq graph.nodes \ done /\ \A s \in layer' : graph.deps[s] \subseteq done
      /\ graph.nodes \subseteq Stages /\ done \subseteq graph.nodes
  BY <1>1, <1>2, GraphShape DEF NextLayer, Walk
<1>4. \A s \in Stages : IF s \in skipped THEN rows'[s].status = "skipped" ELSE rows'[s] = rows[s]
  BY <1>1, <1>2, SkipsTyped
<1> HIDE DEF skipped
<1>5. \A s \in done : rows'[s].status \in Through
  BY <1>1, <1>3, <1>4 DEF Walk, Through, Terminal
<1>6. ASSUME NEW s \in layer' \ runnable' PROVE rows'[s].status \in Through
  <2>1. s \in Stages /\ s \in graph.nodes
    BY <1>3
  <2>2. CASE s \in skipped
    BY <1>4, <2>1, <2>2 DEF Terminal, Through
  <2>3. CASE s \notin skipped
    <3>1. ~IsActionable(rows[s]) /\ rows'[s] = rows[s]
      BY <1>2, <1>4, <2>1, <2>3
    <3>2. rows[s].status \in {"pending", "blocked_approval", "stale"} \cup Through
      BY <1>1, <2>1 DEF Stored, Rows, Through
    <3> QED
      BY <3>1, <3>2 DEF IsActionable
  <2> QED
    BY <2>2, <2>3
<1>7. ASSUME NEW s \in runnable' PROVE IsActionable(rows[s])' /\ Ready(s)'
  <2>1. s \in layer' /\ s \in Stages /\ s \notin skipped /\ IsActionable(rows[s])
    BY <1>2, <1>3
  <2>2. \A d \in graph.deps[s] : rows[d].status \notin {"failed", "skipped"}
    BY <1>2, <2>1 DEF skipped
  <2>3. ASSUME NEW d \in graph.deps[s] PROVE BuiltOn(d)'
    <3>1. d \in done /\ d \in Stages /\ d \notin skipped
      BY <1>2, <1>3, <2>1 DEF skipped
    <3>2. rows[d].status \in {"passed", "running"}
      BY <1>1, <2>2, <3>1 DEF Walk, Terminal, Through
    <3> QED
      BY <1>1, <1>4, <3>1, <3>2 DEF Told, ToldOf, Counts, CutShort, BuiltOn
  <2>4. rows'[s] = rows[s]
    BY <1>4, <2>1
  <2> QED
    BY <1>2, <2>1, <2>3, <2>4 DEF Ready, IsActionable
<1>8. /\ runnable' \subseteq layer' /\ done' \cap layer' = {}
      /\ \A s \in done' \cup layer' : graph'.deps[s] \subseteq done'
  BY <1>1, <1>2, <1>3 DEF Walk
<1> QED
  BY <1>2, <1>3, <1>5, <1>6, <1>7, <1>8 DEF Walk

(* What counts, or may be executed, is not touched by the step of another. *)
LEMMA OthersStay ==
  ASSUME IInv, NEW s \in Stages, Step(s)
  PROVE  /\ \A d \in Stages : BuiltOn(d) => d # s /\ rows'[d] = rows[d] /\ BuiltOn(d)'
         /\ \A t \in Stages : Ready(t) => Ready(t)' /\ (t # s => rows'[t] = rows[t])
<1>1. ~BuiltOn(s) /\ graph' = graph
  BY StageOutcomes
<1>2. \A d \in Stages : BuiltOn(d) => d # s /\ rows'[d] = rows[d] /\ BuiltOn(d)'
  <2> SUFFICES ASSUME NEW d \in Stages, BuiltOn(d) PROVE d # s /\ rows'[d] = rows[d] /\ BuiltOn(d)'
    OBVIOUS
  <2>1. d # s /\ (Counts(d) \/ Ready(d))
    BY <1>1 DEF BuiltOn, CutShort, IInv, Told, ToldOf
  <2>2. rows'[d] = rows[d]
    BY <2>1, StageFrame DEF Counts, Terminal
  <2> QED
    BY <2>1, <2>2 DEF BuiltOn, Counts, CutShort
<1>3. Stored
  BY DEF IInv, Typed
<1>4. \A t \in Stages : Ready(t) => Ready(t)'
  BY <1>1, <1>2, <1>3, GraphShape DEF Ready
<1> QED
  BY <1>2, <1>4, StageFrame

LEMMA StageKeepsWalk ==
  ASSUME IInv, NEW s \in Stages, Step(s)
  PROVE  Walk'
<1>1. Stored /\ Walk
  BY DEF IInv, Typed
<1>2. /\ InRun /\ InRun' /\ s \in runnable /\ runnable' = runnable \ {s}
      /\ UNCHANGED <<graph, done, layer>>
  BY StageOutcomes DEF InRun
<1>3. /\ runnable \subseteq layer /\ layer \subseteq graph.nodes /\ done \subseteq graph.nodes
      /\ done \cap layer = {} /\ graph.nodes \subseteq Stages
  BY <1>1, GraphShape DEF Walk
<1>4. ASSUME NEW t \in done PROVE rows'[t].status \in Through
  <2>1. t \in Stages /\ t # s /\ rows[t].status \in Through
    BY <1>1, <1>2, <1>3 DEF Walk
  <2>2. rows'[t] = rows[t] \/ rows'[t].status = "skipped"
    BY <2>1, StageFrame
  <2> QED
    BY <2>1, <2>2 DEF Through, Terminal
<1>5. rows'[s].status \in Through \cup {"blocked_approval"}
  <2>1. CASE UNCHANGED <<rows, approvals>> /\ rows[s].status = "blocked_approval"
    BY <2>1
  <2>2. CASE Passing(s)
    BY <1>1, <2>2, RowsPass DEF Passing, Terminal, Through
  <2>3. CASE Failing(s)
    BY <1>1, <2>3, RowsFail DEF Failing, Terminal, Through
  <2>4. CASE BlockingEntry(s)
    BY <1>1, <2>4, RowsBlock, OutputsTyped DEF BlockingEntry, IInv
  <2>5. CASE BlockingExit(s)
    BY <1>1, <1>2, <2>5, RowsBlock, OutputsTyped DEF BlockingExit, IInv
  <2> QED
    BY <2>1, <2>2, <2>3, <2>4, <2>5, StageOutcomes
<1>6. ASSUME NEW t \in layer \ runnable' PROVE rows'[t].status \in Through \cup {"blocked_approval"}
  <2>1. CASE t = s
    BY <1>5, <2>1
  <2>2. CASE t # s
    <3>1. t \in Stages /\ t \in layer \ runnable /\ rows[t].status \in Through \cup {"blocked_approval"}
      BY <1>1, <1>2, <1>3, <2>2 DEF Walk
    <3>2. rows'[t] = rows[t] \/ rows'[t].status = "skipped"
      BY <2>2, <3>1, StageFrame
    <3> QED
      BY <3>1, <3>2 DEF Terminal, Through
  <2> QED
    BY <2>1, <2>2
<1>7. ASSUME NEW t \in runnable' PROVE IsActionable(rows[t])' /\ Ready(t)'
  <2>1. t \in Stages /\ t # s /\ IsActionable(rows[t]) /\ Ready(t)
    BY <1>1, <1>2, <1>3 DEF Walk
  <2>2. rows'[t] = rows[t] /\ Ready(t)'
    BY <2>1, OthersStay
  <2> QED
    BY <2>1, <2>2 DEF IsActionable
<1>8. \A t \in done \cup layer : graph.deps[t] \subseteq done
  BY <1>1 DEF Walk
<1> QED
  BY <1>2, <1>3, <1>4, <1>6, <1>7, <1>8 DEF Walk

LEMMA StepKeepsWalk == IInv /\ [Next]_vars => Walk'
<1> SUFFICES ASSUME IInv, [Next]_vars PROVE Walk'
  OBVIOUS
<1>1. Stored /\ Scripted /\ Walk
  BY DEF IInv, Typed
<1>2. ASSUME UNCHANGED <<graph, rows, done, layer, runnable, script>> PROVE Walk'
  BY <1>1, <1>2 DEF Walk, InRun, Ready, BuiltOn, CutShort, Counts, IsActionable
<1>3. ASSUME ~InRun, UNCHANGED runVars PROVE Walk'
  BY <1>1, <1>3, NothingWalked DEF Walk, runVars
<1>4. CASE UNCHANGED vars
  BY <1>2, <1>4 DEF vars, storeVars, runVars
<1>5. CASE CreateRun \/ InsertStage \/ InvalidateDownstream
  BY <1>3, <1>5, CallsDo DEF InRun
<1>6. CASE \E name \in Scripts : Invoke(name)
  BY <1>3, <1>6 DEF Invoke, InRun
<1>7. CASE BuildExecutor
  BY <1>3, <1>7 DEF BuildExecutor, Calls, Comes, InRun
<1>8. CASE EndLayer
  <2>1. CASE Blocked /\ Return("paused_approval")
    BY <1>8, <2>1, NothingWalked DEF EndLayer, Return
  <2>2. CASE ~Blocked /\ done' = done \cup layer /\ layer' = {} /\ UNCHANGED <<status, script, runnable, history>>
    <3>1. /\ InRun /\ InRun' /\ runnable = {} /\ UNCHANGED <<graph, rows, runnable>>
      BY <1>8, <2>2 DEF EndLayer, InRun
    <3>2. \A s \in done' : rows[s].status \in Through
      BY <1>1, <2>2, <3>1 DEF Walk, Blocked
    <3> QED
      BY <1>1, <2>2, <3>1, <3>2 DEF Walk
  <2> QED
    BY <1>8, <2>1, <2>2 DEF EndLayer
<1>9. CASE Finalize
  BY <1>1, <1>9, NothingWalked DEF Finalize, Return, Walk
<1>10. CASE \E s \in Stages : Recheck(s) \/ EntryGate(s) \/ AttemptFails(s) \/ AttemptSucceeds(s)
  BY <1>10, StageKeepsWalk DEF Step
<1>11. CASE \E a \in approvals, verdict \in {"approved", "rejected"} : Decide(a, verdict)
  BY <1>2, <1>11 DEF Decide, runVars
<1>12. CASE Edit
  BY <1>3, <1>12 DEF Edit, InRun
<1>13. CASE Dying
  BY <1>13, NothingWalked, DyingLeaves
<1> QED
  BY <1>4, <1>5, <1>6, <1>7, <1>8, <1>9, <1>10, <1>11, <1>12, <1>13, PlanKeepsWalk DEF Next, Dying

-----------------------------------------------------------------------------
(* A pass that counts is current *)

LEMMA InvalidatesBelow ==
  ASSUME Stored, NEW s \in graph.nodes, NEW t \in graph.nodes, NEW d \in graph.deps[t],
         d \in Affected(s), rows[t].status # "pending"
  PROVE  t \in Affected(s)
<1>1. t \in DownstreamOf(graph, s)
  BY DownstreamIsClosed DEF Affected
<1> QED
  BY <1>1 DEF Affected

LEMMA StepKeepsPasses == IInv /\ [Next]_vars => PassesAreCurrent'
<1> SUFFICES ASSUME IInv, [Next]_vars PROVE PassesAreCurrent'
  OBVIOUS
<1>1. Stored /\ Scripted /\ Walk /\ PassesAreCurrent /\ Told
  BY DEF IInv, Typed
<1>2. ASSUME UNCHANGED <<graph, rows>> PROVE PassesAreCurrent'
  BY <1>1, <1>2 DEF PassesAreCurrent, Counts, CutShort
<1>3. \A s \in Stages : graph.deps[s] \subseteq graph.nodes /\ graph.deps[s] \subseteq Stages
                        /\ (s \notin graph.nodes => graph.deps[s] = {})
  BY <1>1, GraphShape
<1>4. CASE UNCHANGED vars
  BY <1>2, <1>4 DEF vars, storeVars
<1>5. CASE CreateRun \/ InsertStage \/ InvalidateDownstream
  <2>1. CASE StoreStays
    BY <1>2, <2>1 DEF StoreStays
  <2>2. CASE Creates
    BY <1>1, <2>2, CreatesTyped DEF PassesAreCurrent, Counts
  <2>3. ASSUME NEW s, Inserts(s) PROVE PassesAreCurrent'
    <3>1. \A t \in Stages : t # s => rows'[t] = rows[t] /\ graph'.deps[t] = graph.deps[t]
      BY <1>1, <2>3, InsertsTyped
    <3>2. ~Counts(s)'
      BY <1>1, <2>3, InsertsTyped DEF Counts, NewRow
    <3>3. \A t \in Stages : s \notin graph.deps[t]
      BY <1>1, <1>3, <2>3, InsertsTyped
    <3> QED
      BY <1>1, <1>3, <3>1, <3>2, <3>3 DEF PassesAreCurrent, Counts, CutShort
  <2>4. CASE Invalidates(Target)
    <3>1. Target \in graph.nodes /\ graph' = graph
      BY <2>4 DEF Invalidates
    <3>2. \A t \in Stages : IF t \in Affected(Target) THEN rows'[t].stale ELSE rows'[t] = rows[t]
      BY <1>1, <2>4, InvalidatesTyped
    <3> SUFFICES ASSUME NEW t \in Stages, Counts(t)', NEW d \in graph.deps[t]
                 PROVE  /\ BuiltOn(d)'
                        /\ rows'[d].outputs.spec \subseteq rows'[t].outputs.spec
                        /\ rows'[d].outputs.files \subseteq rows'[t].outputs.files
      BY <3>1 DEF PassesAreCurrent, BuiltOn
    <3>3. t \notin Affected(Target) /\ rows'[t] = rows[t] /\ t \in graph.nodes /\ d \in Stages
      BY <1>3, <3>2 DEF Counts
    <3>4. Counts(t) /\ rows[t].status # "pending"
      BY <3>3 DEF Counts
    <3>5. d \notin Affected(Target)
      BY <1>1, <3>1, <3>3, <3>4, InvalidatesBelow
    <3> QED
      BY <1>1, <3>2, <3>3, <3>4, <3>5 DEF PassesAreCurrent, Counts, CutShort, BuiltOn
  <2> QED
    BY <1>5, <2>1, <2>2, <2>3, <2>4, CallsDo
<1>6. CASE PlanLayer
  <2>1. PICK S : rows' = SkipAll(S) /\ \A s \in S : IsActionable(rows[s])
    BY <1>6 DEF PlanLayer
  <2>2. graph' = graph
    BY <1>6 DEF PlanLayer
  <2>3. \A s \in Stages : IF s \in S THEN rows'[s].status = "skipped" ELSE rows'[s] = rows[s]
    BY <1>1, <2>1, SkipsTyped
  <2>4. \A s \in Stages : BuiltOn(s) => s \notin S
    BY <1>1, <2>1 DEF BuiltOn, Counts, CutShort, IsActionable, Told, ToldOf
  <2> QED
    BY <1>1, <1>3, <2>2, <2>3, <2>4 DEF PassesAreCurrent, Counts, CutShort, BuiltOn
<1>7. ASSUME NEW s \in Stages, Step(s) PROVE PassesAreCurrent'
  <2>1. graph' = graph /\ ~BuiltOn(s) /\ Ready(s) /\ InRun
    BY <1>7, StageOutcomes
  <2> SUFFICES ASSUME NEW t \in Stages, Counts(t)', NEW d \in graph.deps[t]
               PROVE  /\ BuiltOn(d)'
                      /\ rows'[d].outputs.spec \subseteq rows'[t].outputs.spec
                      /\ rows'[d].outputs.files \subseteq rows'[t].outputs.files
    BY <2>1 DEF PassesAreCurrent, BuiltOn
  <2>2. d \in Stages
    BY <1>3
  <2>3. CASE t # s
    <3>1. rows'[t] = rows[t]
      BY <1>7, <2>3, StageFrame DEF Counts
    <3>2. Counts(t) /\ BuiltOn(d)
      BY <1>1, <3>1 DEF Counts, PassesAreCurrent, BuiltOn
    <3>3. rows'[d] = rows[d] /\ BuiltOn(d)'
      BY <1>7, <2>2, <3>2, OthersStay
    <3> QED
      BY <1>1, <3>1, <3>2, <3>3 DEF PassesAreCurrent
  <2>4. CASE t = s
    <3>1. BuiltOn(d) /\ rows'[d] = rows[d] /\ BuiltOn(d)'
      BY <1>7, <2>1, <2>2, <2>4, OthersStay DEF Ready
    <3>2. s # "requirements"
      BY <1>1, <2>4, GraphShape DEF DependsOn
    <3>3. Passing(s)
      <4>1. rows[s].status # "passed" \/ rows[s].stale
        BY <2>1 DEF Counts, BuiltOn
      <4>2. ~Failing(s)
        BY <1>1, <2>4, RowsFail DEF Failing, Counts
      <4>3. ~BlockingEntry(s) /\ ~BlockingExit(s)
        BY <1>1, <2>1, <2>4, RowsBlock, OutputsTyped DEF BlockingEntry, BlockingExit, Counts, IInv
      <4>4. ~UNCHANGED rows
        BY <2>4, <4>1 DEF Counts
      <4> QED
        BY <1>7, <4>2, <4>3, <4>4, StageOutcomes
    <3>4. rows'[s].outputs = Output(s)
      BY <1>1, <3>2, <3>3, RowsPass DEF Passing, ExitApproval
    <3>5. rows[d].outputs.spec \subseteq Output(s).spec /\ rows[d].outputs.files \subseteq Output(s).files
      BY <2>4, <3>2 DEF Output, Inherited
    <3> QED
      BY <2>4, <3>1, <3>4, <3>5
  <2> QED
    BY <2>3, <2>4
<1>8. CASE \E name \in Scripts : Invoke(name)
  BY <1>2, <1>8 DEF Invoke, storeVars
<1>9. CASE BuildExecutor
  BY <1>2, <1>9 DEF BuildExecutor, Calls, Raise
<1>10. CASE EndLayer \/ Finalize
  BY <1>2, <1>10 DEF EndLayer, Finalize
<1>11. CASE \E a \in approvals, verdict \in {"approved", "rejected"} : Decide(a, verdict)
  BY <1>2, <1>11 DEF Decide
<1>12. CASE Edit
  BY <1>2, <1>12 DEF Edit, storeVars
<1>13. CASE Dying
  <2> SUFFICES ASSUME NEW t \in Stages, Counts(t)', NEW d \in graph.deps[t]
               PROVE  /\ BuiltOn(d)'
                      /\ rows'[d].outputs.spec \subseteq rows'[t].outputs.spec
                      /\ rows'[d].outputs.files \subseteq rows'[t].outputs.files
    BY <1>13, DyingLeaves DEF PassesAreCurrent, BuiltOn
  <2>1. rows'[t] = rows[t] /\ Counts(t)
    BY <1>13, DyingSpares DEF Counts
  <2>2. BuiltOn(d) /\ d \in Stages
    BY <1>1, <1>3, <2>1 DEF PassesAreCurrent, BuiltOn
  <2>3. rows'[d] = rows[d] /\ BuiltOn(d)'
    BY <1>13, <2>2, DyingSpares
  <2> QED
    BY <1>1, <2>1, <2>3 DEF PassesAreCurrent
<1> QED
  BY <1>4, <1>5, <1>6, <1>7, <1>8, <1>9, <1>10, <1>11, <1>12, <1>13 DEF Next, Step, Dying

-----------------------------------------------------------------------------
(* What the status tells *)

(* What has been decided stays decided, though a person may decide again.  *)
LEMMA DecisionsStay ==
  ASSUME IInv, NEW t \in Stages, rows'[t].inc = rows[t].inc, ~Undecided(t),
         \/ approvals' = approvals
         \/ \E s \in Stages, o \in Outputs : Ask(s, o)
         \/ \E a \in approvals, verdict \in {"approved", "rejected"} : Decide(a, verdict)
  PROVE  ~Undecided(t)'
<1>1. Stored /\ Asked
  BY DEF IInv, Typed
<1>2. Verdict(t) \in {"approved", "rejected"} /\ Requested(t) # {}
      /\ \A a \in Requested(t) : a.status \in {"approved", "rejected"}
  BY <1>1, OneVerdict DEF Undecided
<1>3. SUFFICES Requested(t)' # {} /\ \A a \in Requested(t)' : a.status \in {"approved", "rejected"}
  <2>1. (CHOOSE a \in Requested(t)' : TRUE) \in Requested(t)'
    BY <1>3
  <2>2. Verdict(t)' = (CHOOSE a \in Requested(t)' : TRUE).status
    BY <1>3 DEF Verdict
  <2> QED
    BY <1>3, <2>1, <2>2 DEF Undecided
<1>4. CASE approvals' = approvals
  BY <1>2, <1>4 DEF Requested
<1>5. ASSUME NEW s \in Stages, NEW o \in Outputs, Ask(s, o)
      PROVE  Requested(t)' # {} /\ \A a \in Requested(t)' : a.status \in {"approved", "rejected"}
  <2>1. CASE t = s
    <3>1. approvals' = approvals
      BY <1>2, <1>5, <2>1 DEF Ask
    <3> QED
      BY <1>2, <3>1 DEF Requested
  <2>2. CASE t # s
    <3>1. Requested(t)' = Requested(t)
      BY <1>5, <2>2 DEF Ask, Requested
    <3> QED
      BY <1>2, <3>1
  <2> QED
    BY <2>1, <2>2
<1>6. ASSUME NEW a \in approvals, NEW verdict \in {"approved", "rejected"}, Decide(a, verdict)
      PROVE  Requested(t)' # {} /\ \A b \in Requested(t)' : b.status \in {"approved", "rejected"}
  <2> DEFINE new == [a EXCEPT !.status = verdict]
  <2>1. approvals' = (approvals \ {a}) \cup {new}
    BY <1>6 DEF Decide
  <2>2. a \in Approvals
    BY <1>1 DEF Stored
  <2>3. new.status = verdict /\ new.stage = a.stage /\ new.inc = a.inc
    BY <2>2 DEF Approvals
  <2> HIDE DEF new
  <2>4. \A b \in Requested(t)' : b = new \/ b \in Requested(t)
    BY <2>1 DEF Requested
  <2>5. PICK c \in Requested(t) : TRUE
    BY <1>2
  <2>6. c \in Requested(t)' \/ (c = a /\ new \in Requested(t)')
    BY <2>1, <2>3, <2>5 DEF Requested
  <2> QED
    BY <1>2, <2>3, <2>4, <2>6
<1> QED
  BY <1>4, <1>5, <1>6

(* A stage whose row and dependencies stay as they are tells what it told. *)
LEMMA ToldStays ==
  ASSUME NEW t \in Stages, ToldOf(t), scenario' = scenario,
         rows'[t] = rows[t], graph'.deps[t] = graph.deps[t],
         rows[t].status \in {"blocked_approval", "running"} /\ Ready(t) => Ready(t)',
         rows[t].status = "skipped" => \A d \in graph.deps[t] :
             rows[d].status \in {"failed", "skipped"} => rows'[d].status \in {"failed", "skipped"},
         ~Undecided(t) => ~Undecided(t)'
  PROVE  ToldOf(t)'
<1>1. /\ EntryApproval(t)' = EntryApproval(t) /\ ExitApproval(t)' = ExitApproval(t)
      /\ t \in HighImpact <=> (t \in HighImpact)'
  BY DEF EntryApproval, ExitApproval, HighImpact
<1>2. rows[t].status = "skipped" /\ (\E d \in graph.deps[t] : rows[d].status \in {"failed", "skipped"}) =>
        \E d \in graph'.deps[t] : rows'[d].status \in {"failed", "skipped"}
  OBVIOUS
<1> QED
  BY <1>1, <1>2 DEF ToldOf

LEMMA StageTold ==
  ASSUME IInv, NEW s \in Stages, Step(s)
  PROVE  ToldOf(s)'
<1>1. Stored /\ Walk /\ PassesAreCurrent /\ ToldOf(s) /\ Told
  BY DEF IInv, Typed, Told
<1>2. InRun /\ Ready(s) /\ ~BuiltOn(s) /\ IsActionable(rows[s]) /\ Ready(s)'
      /\ UNCHANGED <<scenario, graph>>
  BY <1>1, StageOutcomes, OthersStay DEF Walk
<1>3. EntryApproval(s)' = EntryApproval(s) /\ ExitApproval(s)' = ExitApproval(s)
      /\ ((s \in HighImpact)' <=> s \in HighImpact) /\ ~(EntryApproval(s) /\ ExitApproval(s))
      /\ (s \in HighImpact <=> EntryApproval(s) \/ ExitApproval(s))
  BY <1>2 DEF EntryApproval, ExitApproval, HighImpact
<1>4. Upstream(s) \in Outputs /\ Output(s) \in Outputs
  BY <1>2, OutputsTyped DEF IInv
<1>5. CASE UNCHANGED <<rows, approvals>> /\ rows[s].status = "blocked_approval"
  BY <1>1, <1>2, <1>3, <1>5 DEF ToldOf
<1>6. CASE Passing(s)
  <2>1. rows'[s].status = "passed" /\ rows'[s].stale = FALSE
    BY <1>1, <1>6, RowsPass DEF Passing
  <2> QED
    BY <2>1 DEF ToldOf
<1>7. CASE Failing(s)
  <2>1. PICK b \in BOOLEAN, o \in Outputs : Fails(s, b, o) /\ (b => EntryApproval(s) /\ ~Undecided(s))
    BY <1>7 DEF Failing
  <2>2. rows'[s].status = "failed" /\ rows'[s].stale = b /\ rows'[s].inc = rows[s].inc /\ approvals' = approvals
    BY <1>1, <2>1, RowsFail
  <2>3. b => ~Undecided(s)'
    BY <2>1, <2>2, DecisionsStay
  <2> QED
    BY <1>3, <2>1, <2>2, <2>3 DEF ToldOf
<1>8. CASE BlockingEntry(s)
  <2>1. rows' = [rows EXCEPT ![s].status = "blocked_approval"] /\ EntryApproval(s)
    BY <1>8 DEF BlockingEntry
  <2>2. /\ rows'[s].status = "blocked_approval" /\ rows'[s].stale = rows[s].stale
        /\ rows'[s].outputs = rows[s].outputs
    BY <1>1, <2>1 DEF Stored, Rows
  <2>3. rows[s].stale \/ rows[s].outputs = Nothing
    BY <1>1, <1>2, <2>1 DEF ToldOf, IsActionable
  <2> QED
    BY <1>2, <1>3, <2>1, <2>2, <2>3 DEF ToldOf
<1>9. CASE BlockingExit(s)
  <2>1. /\ rows'[s].status = "blocked_approval" /\ rows'[s].stale = FALSE
        /\ rows'[s].outputs = Output(s) /\ ExitApproval(s)
    BY <1>1, <1>9 DEF BlockingExit, Stored, Rows
  <2>2. Output(s).spec # {}
    BY <2>1 DEF Output, ExitApproval
  <2>3. Output(s) # Nothing
    BY <2>2 DEF Nothing
  <2> QED
    BY <1>3, <2>1, <2>3 DEF ToldOf
<1> QED
  BY <1>5, <1>6, <1>7, <1>8, <1>9, StageOutcomes

LEMMA BystanderTold ==
  ASSUME IInv, NEW s \in Stages, Step(s), NEW t \in Stages, t # s
  PROVE  ToldOf(t)'
<1>1. Stored /\ Walk /\ PassesAreCurrent /\ Told /\ ToldOf(t)
  BY DEF IInv, Typed, Told
<1>2. InRun /\ Ready(s) /\ ~BuiltOn(s) /\ IsActionable(rows[s]) /\ ToldOf(s)
      /\ UNCHANGED <<scenario, graph>>
  BY <1>1, StageOutcomes DEF Walk, Told
<1>3. \A u \in Stages : graph.deps[u] \subseteq Stages /\ "release_readiness" \notin graph.deps[u]
  BY <1>1, GraphShape DEF DependsOn
<1>4. CASE rows'[t] = rows[t]
  <2>1. rows[s].status \notin {"failed", "skipped"} \/ s = "release_readiness"
    BY <1>2 DEF ToldOf, IsActionable, Ready, BuiltOn, Counts, CutShort, EntryApproval
  <2>2. \A d \in graph.deps[t] : rows[d].status \in {"failed", "skipped"} => rows'[d].status \in {"failed", "skipped"}
    BY <1>3, <2>1, StageFrame DEF Terminal
  <2>3. Ready(t) => Ready(t)'
    BY OthersStay
  <2>4. ~Undecided(t) => ~Undecided(t)'
    <3>1. approvals' = approvals \/ \E o \in Outputs : Ask(s, o)
      BY <1>1, <1>2, StageOutcomes, OutputsTyped
      DEF IInv, Passing, Passes, Failing, Fails, BlockingEntry, BlockingExit
    <3> QED
      BY <1>4, <3>1, DecisionsStay
  <2> QED
    BY <1>1, <1>2, <1>4, <2>2, <2>3, <2>4, ToldStays
<1>5. CASE rows'[t] # rows[t]
  <2>1. rows'[t].status = "skipped" /\ Failing(s) /\ t \in DownstreamOf(graph, s)
    BY <1>5, StageFrame
  <2>2. PICK b \in BOOLEAN, o \in Outputs : Fails(s, b, o)
    BY <2>1 DEF Failing
  <2>3. PICK d \in graph.deps[t] : d = s \/ d \in DownstreamOf(graph, s)
    BY <2>1, DownstreamDepends
  <2>4. d \in Stages
    BY <1>3
  <2>5. rows'[d].status \in {"failed", "skipped"}
    <3>1. CASE d = s
      BY <1>1, <2>2, <3>1, RowsFail
    <3>2. CASE d # s /\ rows[d].status \notin Terminal
      BY <1>1, <2>2, <2>3, <2>4, <3>2, RowsFail
    <3>3. CASE d # s /\ rows[d].status \in Terminal
      <4>1. rows'[d] = rows[d]
        BY <2>4, <3>3, StageFrame
      <4>2. ~Ready(d)
        BY <1>1, <1>2, <2>3, <3>3, BelowUncounted
      <4>3. ~Counts(d)
        BY <1>1, <2>4, <4>2 DEF PassesAreCurrent, Ready, BuiltOn
      <4>4. rows[d].status # "passed"
        BY <1>1, <2>4, <4>3 DEF Told, ToldOf, Counts
      <4> QED
        BY <3>3, <4>1, <4>4 DEF Terminal
    <3> QED
      BY <3>1, <3>2, <3>3
  <2> QED
    BY <1>2, <2>1, <2>5 DEF ToldOf
<1> QED
  BY <1>4, <1>5

(* Where all have passed or been skipped, all have passed: what is skipped *)
(* rests on a failure.                                                     *)
LEMMA NothingSkipped ==
  ASSUME Stored, Told, \A s \in graph.nodes : rows[s].status \in {"passed", "skipped"}
  PROVE  \A s \in graph.nodes : Counts(s)
<1>1. \A s \in graph.nodes : s \in Stages /\ graph.deps[s] = DependsOn(s) /\ DependsOn(s) \subseteq graph.nodes
  BY GraphShape DEF Stored
<1>2. ASSUME NEW s \in graph.nodes, \A d \in DependsOn(s) : Counts(d) PROVE Counts(s)
  BY <1>1, <1>2 DEF Told, ToldOf, Counts
<1>3. "requirements" \in graph.nodes => Counts("requirements")
  BY <1>2 DEF DependsOn
<1>4. "codebase_reasoning" \in graph.nodes => Counts("codebase_reasoning")
  BY <1>1, <1>2, <1>3 DEF DependsOn
<1>5. "design" \in graph.nodes => Counts("design")
  BY <1>1, <1>2, <1>3, <1>4 DEF DependsOn
<1>6. \A s \in {"implementation", "test", "documentation"} : s \in graph.nodes => Counts(s)
  BY <1>1, <1>2, <1>5 DEF DependsOn
<1>7. "release_readiness" \in graph.nodes => Counts("release_readiness")
  BY <1>1, <1>2, <1>6 DEF DependsOn
<1> QED
  BY <1>1, <1>3, <1>4, <1>5, <1>6, <1>7 DEF Stages

LEMMA CallsKeepTold ==
  ASSUME IInv, NEW s, Creates \/ Inserts(s) \/ Invalidates(s)
  PROVE  Told'
<1>1. Stored /\ Told
  BY DEF IInv, Typed
<1>2. status' = "running" /\ UNCHANGED <<scenario, approvals>>
  BY DEF Creates, Inserts, Invalidates
<1>3. \A t \in Stages : rows'[t] = rows[t] /\ ~Undecided(t) => ~Undecided(t)'
  BY <1>2, DecisionsStay
<1>4. \A t \in Stages : graph.deps[t] \subseteq graph.nodes /\ graph.deps[t] \subseteq Stages
                        /\ (t \notin graph.nodes => graph.deps[t] = {})
  BY <1>1, GraphShape
<1>5. CASE Creates
  BY <1>1, <1>2, <1>5, CreatesTyped DEF Told, ToldOf
<1>6. CASE Inserts(s)
  <2>1. s \in Stages /\ ToldOf(s)'
    BY <1>1, <1>6, InsertsTyped DEF ToldOf, NewRow
  <2>2. ASSUME NEW t \in Stages \ {s} PROVE ToldOf(t)'
    <3>1. rows'[t] = rows[t] /\ graph'.deps[t] = graph.deps[t] /\ s \notin graph.deps[t]
      BY <1>1, <1>4, <1>6, InsertsTyped
    <3>2. \A d \in graph.deps[t] : rows'[d] = rows[d]
      BY <1>1, <1>4, <1>6, <3>1, InsertsTyped
    <3>3. Ready(t) => Ready(t)'
      BY <3>1, <3>2 DEF Ready, BuiltOn, CutShort, Counts
    <3> QED
      BY <1>1, <1>2, <1>3, <3>1, <3>2, <3>3, ToldStays DEF Told
  <2> QED
    BY <1>2, <2>1, <2>2 DEF Told
<1>7. CASE Invalidates(s)
  <2>1. \A t \in Stages : IF t \in Affected(s) THEN rows'[t].status = "stale" /\ rows'[t].stale
                                               ELSE rows'[t] = rows[t]
    BY <1>1, <1>7, InvalidatesTyped
  <2>2. graph' = graph /\ s \in graph.nodes
    BY <1>7 DEF Invalidates
  <2>3. ASSUME NEW t \in Stages PROVE ToldOf(t)'
    <3>1. CASE t \in Affected(s)
      BY <2>1, <3>1 DEF ToldOf
    <3>2. CASE t \notin Affected(s)
      <4>1. rows'[t] = rows[t]
        BY <2>1, <3>2
      <4>2. ASSUME rows[t].status \in {"blocked_approval", "skipped", "running"}, NEW d \in graph.deps[t]
            PROVE  rows'[d] = rows[d]
        <5>1. d \in Stages /\ t \in graph.nodes
          BY <1>4
        <5>2. d \notin Affected(s)
          BY <1>1, <2>2, <3>2, <4>2, <5>1, InvalidatesBelow
        <5> QED
          BY <2>1, <5>1, <5>2
      <4>3. rows[t].status \in {"blocked_approval", "running"} /\ Ready(t) => Ready(t)'
        BY <2>2, <4>2 DEF Ready, BuiltOn, CutShort, Counts
      <4> QED
        BY <1>1, <1>2, <1>3, <2>2, <4>1, <4>2, <4>3, ToldStays DEF Told
    <3> QED
      BY <3>1, <3>2
  <2> QED
    BY <1>2, <2>3 DEF Told
<1> QED
  BY <1>5, <1>6, <1>7

LEMMA PlanKeepsTold ==
  ASSUME IInv, PlanLayer
  PROVE  Told'
<1>1. Stored /\ Walk /\ Told
  BY DEF IInv, Typed
<1> DEFINE skipped == {s \in layer' : /\ IsActionable(rows[s])
                                      /\ \E d \in graph.deps[s] : rows[d].status \in {"failed", "skipped"}}
<1>2. /\ layer' = NextLayer(graph, done) /\ rows' = SkipAll(skipped)
      /\ UNCHANGED <<scenario, graph, status, approvals>>
  BY DEF PlanLayer
<1>3. \A t \in Stages : IF t \in skipped THEN rows'[t].status = "skipped" /\ rows'[t].inc = rows[t].inc
                                         ELSE rows'[t] = rows[t]
  BY <1>1, <1>2, SkipsTyped
<1>4. \A t \in skipped : /\ IsActionable(rows[t])
                         /\ \E d \in graph.deps[t] : rows[d].status \in {"failed", "skipped"}
  OBVIOUS
<1> HIDE DEF skipped
<1>5. \A t \in Stages : graph.deps[t] \subseteq Stages
  BY <1>1, GraphShape
<1>6. \A t \in Stages : BuiltOn(t) => BuiltOn(t)' /\ (Counts(t) => Counts(t)')
  BY <1>1, <1>3, <1>4 DEF BuiltOn, Counts, CutShort, IsActionable, Told, ToldOf
<1>7. \A d \in Stages : rows[d].status \in {"failed", "skipped"} => rows'[d].status \in {"failed", "skipped"}
  BY <1>3
<1>8. ASSUME NEW t \in Stages PROVE ToldOf(t)'
  <2>1. CASE t \in skipped
    <3>1. \E d \in graph'.deps[t] : rows'[d].status \in {"failed", "skipped"}
      BY <1>2, <1>4, <1>5, <1>7, <2>1
    <3>2. rows'[t].status = "skipped"
      BY <1>3, <2>1
    <3> QED
      BY <3>1, <3>2 DEF ToldOf
  <2>2. CASE t \notin skipped
    <3>1. rows'[t] = rows[t]
      BY <1>3, <2>2
    <3>2. Ready(t) => Ready(t)'
      BY <1>2, <1>5, <1>6 DEF Ready
    <3>3. ~Undecided(t) => ~Undecided(t)'
      BY <1>2, <3>1, DecisionsStay
    <3> QED
      BY <1>1, <1>2, <1>5, <1>7, <3>1, <3>2, <3>3, ToldStays DEF Told
  <2> QED
    BY <2>1, <2>2
<1>9. \A t \in graph.nodes : t \in Stages
  BY <1>1, GraphShape
<1> QED
  BY <1>1, <1>2, <1>6, <1>8, <1>9 DEF Told, BuiltOn

LEMMA DyingKeepsTold ==
  ASSUME IInv, Dying
  PROVE  Told'
<1>1. Stored /\ Told /\ UNCHANGED <<scenario, graph, status>>
  BY DyingLeaves DEF IInv, Typed
<1>2. \A t \in Stages : graph.deps[t] \subseteq Stages /\ "release_readiness" \notin graph.deps[t]
  BY <1>1, GraphShape DEF DependsOn
<1>3. \A t \in Stages : Ready(t) => Ready(t)'
  BY DyingSpares
<1>4. \A t \in Stages : ~Undecided(t) => ~Undecided(t)'
  <2>1. approvals' = approvals \/ \E s \in Stages, o \in Outputs : Ask(s, o)
    BY DyingLeaves
  <2> QED
    BY <2>1, DyingSpares, DecisionsStay
<1>5. \A d \in Stages : d # "release_readiness" /\ rows[d].status \in {"failed", "skipped"} => rows'[d] = rows[d]
  <2> SUFFICES ASSUME NEW d \in runnable, d # "release_readiness"
               PROVE  rows[d].status \notin {"failed", "skipped"}
    BY DyingSpares
  <2>1. d \in Stages /\ Ready(d) /\ IsActionable(rows[d]) /\ ToldOf(d)
    BY <1>1, MayBeBuiltOn DEF Told
  <2> QED
    BY <2>1 DEF ToldOf, IsActionable, Ready, BuiltOn, Counts, CutShort, EntryApproval
<1>6. ASSUME NEW t \in Stages PROVE ToldOf(t)'
  <2>1. CASE rows'[t] = rows[t]
    <3>1. \A d \in graph.deps[t] :
            rows[d].status \in {"failed", "skipped"} => rows'[d].status \in {"failed", "skipped"}
      BY <1>2, <1>5
    <3> QED
      BY <1>1, <1>3, <1>4, <2>1, <3>1, ToldStays DEF Told
  <2>2. CASE rows'[t] # rows[t]
    <3>1. t \in runnable /\ rows'[t].status = "running"
      BY <2>2, DyingSpares
    <3>2. rows'[t].stale = FALSE
      BY <2>2, DyingLeaves
    <3>3. Ready(t)'
      BY <1>3, <3>1, MayBeBuiltOn
    <3> QED
      BY <3>1, <3>2, <3>3 DEF ToldOf
  <2> QED
    BY <2>1, <2>2
<1>7. status' = "completed" => \A t \in graph'.nodes : Counts(t)'
  <2> SUFFICES ASSUME status = "completed", NEW t \in graph.nodes PROVE Counts(t)'
    BY <1>1
  <2>1. Counts(t) /\ t \in Stages
    BY <1>1, GraphShape DEF Told
  <2> QED
    BY <2>1, DyingSpares DEF BuiltOn, Counts
<1> QED
  BY <1>6, <1>7 DEF Told

LEMMA StepKeepsTold == IInv /\ [Next]_vars => Told'
<1> SUFFICES ASSUME IInv, [Next]_vars PROVE Told'
  OBVIOUS
<1>1. Stored /\ Scripted /\ Walk /\ Told
  BY DEF IInv, Typed
<1>2. ASSUME UNCHANGED <<scenario, graph, rows>>,
             approvals' = approvals
               \/ \E a \in approvals, verdict \in {"approved", "rejected"} : Decide(a, verdict),
             status' = "completed" => status = "completed" \/ \A s \in graph.nodes : Counts(s)
      PROVE  Told'
  <2>1. ASSUME NEW t \in Stages PROVE ToldOf(t)'
    <3>1. Ready(t) => Ready(t)'
      BY <1>2 DEF Ready, BuiltOn, CutShort, Counts
    <3>2. ~Undecided(t) => ~Undecided(t)'
      BY <1>2, DecisionsStay
    <3> QED
      BY <1>1, <1>2, <3>1, <3>2, ToldStays DEF Told
  <2> QED
    BY <1>1, <1>2, <2>1 DEF Told, Counts
<1>3. CASE UNCHANGED vars
  BY <1>2, <1>3 DEF vars, storeVars
<1>4. CASE CreateRun \/ InsertStage \/ InvalidateDownstream
  BY <1>2, <1>4, CallsDo, CallsKeepTold DEF StoreStays
<1>5. CASE \E name \in Scripts : Invoke(name)
  BY <1>2, <1>5 DEF Invoke, storeVars
<1>6. CASE BuildExecutor
  BY <1>2, <1>6 DEF BuildExecutor, Calls, Raise
<1>7. CASE EndLayer
  BY <1>2, <1>7 DEF EndLayer, Return
<1>8. CASE Finalize
  <2>1. status' = "completed" => \A s \in graph.nodes : rows[s].status \in {"passed", "skipped"}
    BY <1>8 DEF Finalize, Return
  <2>2. status' = "completed" => \A s \in graph.nodes : Counts(s)
    BY <1>1, <2>1, NothingSkipped
  <2> QED
    BY <1>2, <1>8, <2>2 DEF Finalize
<1>9. ASSUME NEW s \in Stages, Step(s) PROVE Told'
  <2>1. s \in graph.nodes /\ ~BuiltOn(s) /\ status' = status
    BY <1>9, StageOutcomes
  <2>2. \A t \in Stages : ToldOf(t)'
    BY <1>9, StageTold, BystanderTold
  <2> QED
    BY <1>1, <2>1, <2>2 DEF Told, BuiltOn
<1>10. CASE \E a \in approvals, verdict \in {"approved", "rejected"} : Decide(a, verdict)
  BY <1>2, <1>10 DEF Decide
<1>11. CASE Edit
  BY <1>2, <1>11 DEF Edit, storeVars
<1>12. CASE Dying
  BY <1>12, DyingKeepsTold
<1> QED
  BY <1>3, <1>4, <1>5, <1>6, <1>7, <1>8, <1>9, <1>10, <1>11, <1>12, PlanKeepsTold DEF Next, Step, Dying

-----------------------------------------------------------------------------
(* Requests and signatures *)

LEMMA UpstreamStays ==
  ASSUME NEW t, graph'.deps[t] = graph.deps[t],
         \A d \in graph.deps[t] : rows'[d].outputs = rows[d].outputs
  PROVE  Upstream(t)' = Upstream(t)
<1>1. Inherited(t, "spec")' = Inherited(t, "spec") /\ Inherited(t, "files")' = Inherited(t, "files")
  BY DEF Inherited
<1> QED
  BY <1>1 DEF Upstream

(* What a request is about. *)
LEMMA RequestTells ==
  ASSUME Stored, Asked, NEW a \in approvals
  PROVE  \E t \in Stages :
           /\ a.stage = t /\ a.inc \in Nat /\ rows[t].inc \in Nat /\ Request(a)
           /\ t \in graph.nodes /\ graph.deps[t] \subseteq graph.nodes /\ graph.deps[t] \subseteq Stages
           /\ Current(a) => Unblocked(a) \/ (Stands(a) /\ Ready(t) /\ rows[t].status # "pending")
<1> DEFINE t == a.stage
<1>1. t \in Stages /\ a.inc \in Nat /\ Request(a)
  BY DEF Stored, Approvals, Asked
<1>2. t \in graph.nodes /\ t \in HighImpact /\ (Current(a) => Stands(a) \/ Unblocked(a))
  BY <1>1 DEF Request
<1>3. graph.deps[t] \subseteq graph.nodes /\ graph.deps[t] \subseteq Stages /\ rows[t].inc \in Nat
  BY <1>1, GraphShape DEF Stored, Rows
<1>4. EntryApproval(t) \/ t = "requirements"
  BY <1>2 DEF HighImpact, ExitApproval
<1>5. graph.deps["requirements"] = {}
  BY GraphShape DEF DependsOn, Stages
<1>6. Stands(a) => Ready(t)
  BY <1>4, <1>5 DEF Stands, Ready
<1>7. Stands(a) => rows[t].status # "pending"
  BY DEF Stands
<1> QED
  BY <1>1, <1>2, <1>3, <1>6, <1>7

(* A request that is over. *)
LEMMA RequestOver ==
  ASSUME NEW a, NEW t, a.stage = t, Request(a), scenario' = scenario, signed' = signed,
         t \in graph'.nodes, a.inc <= rows'[t].inc, a.inc # rows'[t].inc
  PROVE  Request(a)'
<1>1. (t \in HighImpact)' <=> t \in HighImpact
  BY DEF HighImpact, EntryApproval, ExitApproval
<1>2. ~Current(a)'
  BY DEF Current
<1>3. t \in HighImpact /\ (a.status = "approved" => [stage |-> t, shown |-> a.shown] \in signed)
  BY DEF Request
<1> QED
  BY <1>1, <1>2, <1>3 DEF Request

(* A request whose stage, and what that rests on, nobody touches.          *)
LEMMA RequestStays ==
  ASSUME NEW a, NEW t, a.stage = t, Request(a), scenario' = scenario, signed' = signed,
         t \in graph'.nodes, graph'.deps[t] = graph.deps[t],
         rows'[t].inc = rows[t].inc, left.requests \subseteq left'.requests,
         Current(a) /\ ~Unblocked(a) =>
             /\ rows'[t] = rows[t]
             /\ Ready(t)'
             /\ \A d \in graph.deps[t] : rows'[d].outputs = rows[d].outputs
  PROVE  Request(a)'
<1>1. /\ (t \in HighImpact)' <=> t \in HighImpact
      /\ EntryApproval(t)' = EntryApproval(t) /\ ExitApproval(t)' = ExitApproval(t)
  BY DEF EntryApproval, ExitApproval, HighImpact
<1>2. Current(a) /\ ~Unblocked(a) => Upstream(t)' = Upstream(t)
  BY UpstreamStays
<1>3. ASSUME Current(a), ~Unblocked(a), Stands(a) PROVE Stands(a)'
  <2>1. rows'[t] = rows[t] /\ Ready(t)' /\ Upstream(t)' = Upstream(t)
    BY <1>2, <1>3
  <2> QED
    BY <1>1, <1>3, <2>1 DEF Stands
<1>4. Current(a)' <=> Current(a)
  BY DEF Current
<1>5. /\ t \in HighImpact /\ (a.status = "approved" => [stage |-> t, shown |-> a.shown] \in signed)
      /\ a.inc <= rows[t].inc /\ (Current(a) => Stands(a) \/ Unblocked(a))
  BY DEF Request
<1>6. Unblocked(a) => Unblocked(a)'
  BY <1>1 DEF Unblocked
<1> QED
  BY <1>1, <1>3, <1>4, <1>5, <1>6 DEF Request

(* Calls: a new stage is below no other, and an invalidation starts the    *)
(* stage, and what rests on it, anew.                                      *)
LEMMA CallsKeepAsked ==
  ASSUME IInv, NEW s, Creates \/ Inserts(s) \/ Invalidates(s)
  PROVE  Asked'
<1>1. Stored /\ Asked
  BY DEF IInv, Typed
<1>2. approvals' = approvals /\ scenario' = scenario /\ signed' = signed /\ left' = left
  BY DEF Creates, Inserts, Invalidates, outerVars
<1>3. CASE Creates
  <2>1. approvals = {}
    BY <1>1, <1>3 DEF Creates, Stored, NoRun, Asked, Request
  <2> QED
    BY <1>2, <2>1 DEF Asked
<1>4. SUFFICES ASSUME NEW a \in approvals, Inserts(s) \/ Invalidates(s) PROVE Request(a)'
  BY <1>1, <1>2, <1>3 DEF Asked
<1>5. PICK t \in Stages :
        /\ a.stage = t /\ a.inc \in Nat /\ rows[t].inc \in Nat /\ Request(a)
        /\ t \in graph.nodes /\ graph.deps[t] \subseteq graph.nodes /\ graph.deps[t] \subseteq Stages
        /\ Current(a) => Unblocked(a) \/ (Stands(a) /\ Ready(t) /\ rows[t].status # "pending")
  BY <1>1, RequestTells
<1>6. CASE Inserts(s)
  <2>1. t # s /\ s \notin graph.deps[t]
    BY <1>1, <1>5, <1>6, InsertsTyped DEF Inserts
  <2>2. rows'[t] = rows[t] /\ graph'.deps[t] = graph.deps[t] /\ t \in graph'.nodes
    BY <1>1, <1>5, <1>6, <2>1, InsertsTyped
  <2>3. \A d \in graph.deps[t] : rows'[d] = rows[d]
    BY <1>1, <1>5, <1>6, <2>1, InsertsTyped
  <2>4. Ready(t) => Ready(t)'
    BY <2>2, <2>3 DEF Ready, BuiltOn, Counts, CutShort
  <2> QED
    BY <1>2, <1>5, <2>2, <2>3, <2>4, RequestStays
<1>7. CASE Invalidates(s)
  <2>1. \A u \in Stages : IF u \in Affected(s) THEN rows'[u].inc = rows[u].inc + 1 ELSE rows'[u] = rows[u]
    BY <1>1, <1>7, InvalidatesTyped
  <2>2. graph' = graph /\ s \in graph.nodes
    BY <1>7 DEF Invalidates
  <2>3. CASE t \in Affected(s)
    <3>1. rows'[t].inc = rows[t].inc + 1 /\ a.inc <= rows[t].inc
      BY <1>5, <2>1, <2>3 DEF Request
    <3>2. a.inc <= rows'[t].inc /\ a.inc # rows'[t].inc
      BY <1>5, <3>1
    <3> QED
      BY <1>2, <1>5, <2>2, <3>2, RequestOver
  <2>4. CASE t \notin Affected(s)
    <3>1. rows'[t] = rows[t]
      BY <2>1, <2>4
    <3>2. ASSUME Current(a), ~Unblocked(a), NEW d \in graph.deps[t] PROVE rows'[d] = rows[d]
      <4>1. d \notin Affected(s)
        BY <1>1, <1>5, <2>2, <2>4, <3>2, InvalidatesBelow
      <4> QED
        BY <1>5, <2>1, <4>1
    <3>3. Current(a) /\ ~Unblocked(a) => Ready(t)'
      BY <1>5, <2>2, <3>2 DEF Ready, BuiltOn, Counts, CutShort
    <3> QED
      BY <1>2, <1>5, <2>2, <3>1, <3>2, <3>3, RequestStays
  <2> QED
    BY <2>3, <2>4
<1> QED
  BY <1>4, <1>6, <1>7

LEMMA PlanKeepsAsked ==
  ASSUME IInv, PlanLayer
  PROVE  Asked'
<1>1. Stored /\ Asked /\ Told
  BY DEF IInv, Typed
<1> DEFINE skipped == {s \in layer' : /\ IsActionable(rows[s])
                                      /\ \E d \in graph.deps[s] : rows[d].status \in {"failed", "skipped"}}
<1>2. /\ rows' = SkipAll(skipped) /\ UNCHANGED <<scenario, graph, status, approvals, signed, left>>
  BY DEF PlanLayer, outerVars
<1>3. \A t \in Stages : IF t \in skipped THEN /\ rows'[t].outputs = rows[t].outputs /\ rows'[t].inc = rows[t].inc
                                         ELSE rows'[t] = rows[t]
  BY <1>1, <1>2, SkipsTyped
<1>4. \A t \in skipped : ~Ready(t) /\ (t \in Stages => ~BuiltOn(t))
  BY <1>1 DEF Ready, BuiltOn, Counts, CutShort, IsActionable, Told, ToldOf
<1> HIDE DEF skipped
<1>5. SUFFICES ASSUME NEW a \in approvals PROVE Request(a)'
  BY <1>1, <1>2 DEF Asked
<1>6. PICK t \in Stages :
        /\ a.stage = t /\ a.inc \in Nat /\ rows[t].inc \in Nat /\ Request(a)
        /\ t \in graph.nodes /\ graph.deps[t] \subseteq graph.nodes /\ graph.deps[t] \subseteq Stages
        /\ Current(a) => Unblocked(a) \/ (Stands(a) /\ Ready(t) /\ rows[t].status # "pending")
  BY <1>1, RequestTells
<1>7. rows'[t].inc = rows[t].inc
  BY <1>3
<1>8. ASSUME Current(a), ~Unblocked(a)
      PROVE  rows'[t] = rows[t] /\ Ready(t)' /\ \A d \in graph.deps[t] : rows'[d].outputs = rows[d].outputs
  <2>1. Ready(t)
    BY <1>6, <1>8
  <2>2. rows'[t] = rows[t]
    BY <1>3, <1>4, <2>1
  <2>3. \A d \in graph.deps[t] : rows'[d] = rows[d]
    BY <1>3, <1>4, <1>6, <2>1 DEF Ready
  <2> QED
    BY <1>2, <2>1, <2>2, <2>3 DEF Ready, BuiltOn, Counts, CutShort
<1> QED
  BY <1>2, <1>6, <1>7, <1>8, RequestStays

LEMMA StageKeepsAsked ==
  ASSUME IInv, NEW s \in Stages, Step(s)
  PROVE  Asked'
<1>1. Stored /\ Walk /\ Told /\ Asked
  BY DEF IInv, Typed
<1>2. /\ InRun /\ Ready(s) /\ s \in graph.nodes /\ Ready(s)' /\ ~BuiltOn(s) /\ IsActionable(rows[s])
      /\ UNCHANGED <<scenario, graph, signed, left>>
  BY StageOutcomes, OthersStay, MayBeBuiltOn DEF outerVars
<1>3. \A t \in Stages : /\ rows'[t].inc = rows[t].inc
                        /\ t # s => rows'[t].outputs = rows[t].outputs
                        /\ Ready(t) => Ready(t)' /\ (t # s => rows'[t] = rows[t])
  BY StageFrame, OthersStay
<1>4. Upstream(s) \in Outputs /\ Output(s) \in Outputs /\ graph.deps[s] \subseteq Stages
  BY <1>1, <1>2, OutputsTyped, GraphShape DEF IInv
<1>5. ASSUME NEW t \in Stages, Ready(t) PROVE \A d \in graph.deps[t] : rows'[d].outputs = rows[d].outputs
  <2>1. s \notin graph.deps[t]
    BY <1>2, <1>5 DEF Ready
  <2> QED
    BY <1>1, <1>3, <2>1, GraphShape
<1>6. Upstream(s)' = Upstream(s)
  BY <1>2, <1>5, UpstreamStays
<1>7. \A t \in Stages : /\ EntryApproval(t)' = EntryApproval(t) /\ ExitApproval(t)' = ExitApproval(t)
                        /\ (t \in HighImpact)' <=> t \in HighImpact
                        /\ ~(EntryApproval(t) /\ ExitApproval(t))
  BY <1>2 DEF EntryApproval, ExitApproval, HighImpact
<1>8. ASSUME NEW a \in approvals, a.stage = s, Current(a), Stands(a) PROVE Stands(a)'
  <2>1. a \in Requested(s)
    BY <1>8 DEF Requested, Current
  <2>2. Verdict(s) # "none"
    BY <1>1, <2>1, OneVerdict
  <2>3. rows'[s].status # "pending"
    <3>1. rows[s].status # "pending"
      BY <1>8 DEF Stands
    <3> QED
      BY <1>1, <3>1, <1>4, RowsPass, RowsFail, RowsBlock, StageOutcomes
         DEF Passing, Failing, BlockingEntry, BlockingExit
  <2>4. ASSUME ExitApproval(s)
        PROVE  /\ rows'[s].status \in {"blocked_approval", "passed", "failed", "running"} /\ ~rows'[s].stale
               /\ rows'[s].status # "failed" => a.shown = rows'[s].outputs
    <3>1. /\ rows[s].status \in {"blocked_approval", "passed", "failed"} /\ ~rows[s].stale
          /\ rows[s].status # "failed" => a.shown = rows[s].outputs
      BY <1>2, <1>8, <2>4 DEF Stands, IsActionable
    <3>2. CASE UNCHANGED rows
      BY <3>1, <3>2
    <3>3. CASE Passing(s)
      <4>1. /\ rows'[s].status = "passed" /\ ~rows'[s].stale /\ rows'[s].outputs = rows[s].outputs
            /\ rows[s].status = "blocked_approval"
        BY <1>1, <2>4, <3>3, RowsPass DEF Passing
      <4> QED
        BY <3>1, <4>1
    <3>4. CASE Failing(s)
      BY <1>1, <1>7, <2>4, <3>4, RowsFail DEF Failing
    <3>5. ~BlockingEntry(s)
      BY <1>7, <2>4 DEF BlockingEntry
    <3>6. ~BlockingExit(s)
      BY <2>2 DEF BlockingExit
    <3> QED
      BY <3>2, <3>3, <3>4, <3>5, <3>6, StageOutcomes
  <2>5. EntryApproval(s) => a.shown = Upstream(s)
    BY <1>8 DEF Stands
  <2> QED
    BY <1>2, <1>6, <1>7, <1>8, <2>3, <2>4, <2>5 DEF Stands
<1>9. ASSUME NEW a \in approvals PROVE Request(a)'
  <2>1. PICK t \in Stages :
          /\ a.stage = t /\ a.inc \in Nat /\ rows[t].inc \in Nat /\ Request(a)
          /\ t \in graph.nodes /\ graph.deps[t] \subseteq graph.nodes /\ graph.deps[t] \subseteq Stages
          /\ Current(a) => Unblocked(a) \/ (Stands(a) /\ Ready(t) /\ rows[t].status # "pending")
    BY <1>1, RequestTells
  <2>2. rows'[t].inc = rows[t].inc
    BY <1>3
  <2>3. CASE t # s \/ ~Current(a) \/ Unblocked(a)
    <3>1. ASSUME Current(a), ~Unblocked(a)
          PROVE  rows'[t] = rows[t] /\ Ready(t)' /\ \A d \in graph.deps[t] : rows'[d].outputs = rows[d].outputs
      <4>1. t # s /\ Ready(t)
        BY <2>1, <2>3, <3>1
      <4> QED
        BY <1>3, <1>5, <4>1
    <3> QED
      BY <1>2, <2>1, <2>2, <3>1, RequestStays
  <2>4. CASE t = s /\ Current(a) /\ ~Unblocked(a)
    <3>1. Stands(a)'
      BY <1>8, <2>1, <2>4
    <3>2. /\ t \in HighImpact /\ (a.status = "approved" => [stage |-> t, shown |-> a.shown] \in signed)
          /\ a.inc <= rows[t].inc
      BY <2>1 DEF Request
    <3>3. (t \in HighImpact)'
      BY <1>7, <3>2
    <3> QED
      BY <1>2, <2>1, <2>2, <3>1, <3>2, <3>3 DEF Request
  <2> QED
    BY <2>3, <2>4
<1>10. CASE approvals' = approvals
  BY <1>1, <1>9, <1>10 DEF Asked
<1>11. ASSUME NEW o \in Outputs, Verdict(s) = "none", s \in HighImpact,
             rows'[s].status = "blocked_approval",
             approvals' = approvals \cup {[stage |-> s, inc |-> rows[s].inc, status |-> "pending", shown |-> o]},
             EntryApproval(s) => o = Upstream(s),
             ExitApproval(s) => ~rows'[s].stale /\ rows'[s].outputs = o
      PROVE  Asked'
  <2> PICK new : new = [stage |-> s, inc |-> rows[s].inc, status |-> "pending", shown |-> o]
    OBVIOUS
  <2>1. Stands(new)'
    BY <1>2, <1>6, <1>7, <1>11 DEF Stands
  <2>2. rows[s].inc \in Nat /\ rows'[s].inc = rows[s].inc
    BY <1>1, <1>3 DEF Stored, Rows
  <2>3. (s \in HighImpact)'
    BY <1>7, <1>11
  <2>4. Request(new)'
    BY <1>2, <2>1, <2>2, <2>3 DEF Request
  <2>5. \A b \in approvals : ~(b.stage = s /\ b.inc = rows[s].inc)
    BY <1>1, <1>11, OneVerdict DEF Requested
  <2>6. new.stage = s /\ new.inc = rows[s].inc /\ approvals' = approvals \cup {new}
    BY <1>11
  <2>7. \A a \in approvals' : Request(a)'
    BY <1>9, <2>4, <2>6
  <2>8. \A a, b \in approvals' : a.stage = b.stage /\ a.inc = b.inc => a = b
    BY <1>1, <2>5, <2>6 DEF Asked
  <2> QED
    BY <2>7, <2>8 DEF Asked
<1>12. CASE BlockingEntry(s)
  <2>1. /\ rows' = [rows EXCEPT ![s].status = "blocked_approval"] /\ EntryApproval(s)
        /\ Ask(s, Upstream(s)) /\ s \in HighImpact
    BY <1>12 DEF BlockingEntry, HighImpact
  <2>2. rows'[s].status = "blocked_approval"
    BY <1>1, <2>1, <1>4, RowsBlock
  <2>3. CASE Verdict(s) # "none"
    BY <1>10, <2>1, <2>3 DEF Ask
  <2>4. CASE Verdict(s) = "none"
    BY <1>4, <1>7, <1>11, <2>1, <2>2, <2>4 DEF Ask
  <2> QED
    BY <2>3, <2>4
<1>13. CASE BlockingExit(s)
  <2>1. /\ rows' = [rows EXCEPT ![s] = [@ EXCEPT !.status = "blocked_approval",
                                                 !.stale = FALSE, !.outputs = Output(s)]]
        /\ Ask(s, Output(s)) /\ s \in HighImpact /\ Verdict(s) = "none" /\ ExitApproval(s)
    BY <1>13 DEF BlockingExit, HighImpact
  <2>2. rows'[s].status = "blocked_approval" /\ rows'[s].stale = FALSE /\ rows'[s].outputs = Output(s)
    BY <1>1, <2>1, <1>4 DEF Stored, Rows
  <2> QED
    BY <1>4, <1>7, <1>11, <2>1, <2>2 DEF Ask
<1> QED
  BY <1>10, <1>12, <1>13, StageOutcomes DEF Passing, Passes, Failing, Fails

(* A decision. *)
LEMMA DecideKeepsAsked ==
  ASSUME Stored, Asked, NEW a \in approvals, NEW verdict \in {"approved", "rejected"}, Decide(a, verdict)
  PROVE  Asked'
<1>1. PICK new : new = [a EXCEPT !.status = verdict]
  OBVIOUS
<1>2. /\ approvals' = (approvals \ {a}) \cup {new}
      /\ signed' = IF verdict = "approved" THEN signed \cup {[stage |-> a.stage, shown |-> a.shown]} ELSE signed
      /\ UNCHANGED <<scenario, graph, rows, left>>
  BY <1>1 DEF Decide
<1>3. new.stage = a.stage /\ new.inc = a.inc /\ new.shown = a.shown /\ new.status = verdict
  BY <1>1 DEF Stored, Approvals
<1>4. \A t \in Stages : Ready(t)' = Ready(t) /\ Upstream(t)' = Upstream(t)
  <2>1. \A t \in Stages : Ready(t)' = Ready(t)
    BY <1>2 DEF Ready, BuiltOn, Counts, CutShort
  <2>2. \A t \in Stages : Upstream(t)' = Upstream(t)
    BY <1>2, UpstreamStays
  <2> QED
    BY <2>1, <2>2
<1>5. \A t \in Stages : /\ EntryApproval(t)' = EntryApproval(t) /\ ExitApproval(t)' = ExitApproval(t)
                        /\ (t \in HighImpact)' <=> t \in HighImpact
  BY <1>2 DEF EntryApproval, ExitApproval, HighImpact
<1>6. ASSUME NEW b \in approvals, NEW c, c.stage = b.stage, c.inc = b.inc, c.shown = b.shown,
             c.status = "approved" => [stage |-> c.stage, shown |-> c.shown] \in signed'
      PROVE  Request(c)'
  <2>1. PICK t \in Stages :
          /\ b.stage = t /\ b.inc \in Nat /\ rows[t].inc \in Nat /\ Request(b)
          /\ t \in graph.nodes /\ graph.deps[t] \subseteq graph.nodes /\ graph.deps[t] \subseteq Stages
          /\ Current(b) => Unblocked(b) \/ (Stands(b) /\ Ready(t) /\ rows[t].status # "pending")
    BY RequestTells
  <2>2. t \in HighImpact /\ b.inc <= rows[t].inc
    BY <2>1 DEF Request
  <2>3. Current(c)' => Current(b)
    BY <1>2, <1>6 DEF Current
  <2>4. Stands(b) => Stands(c)'
    BY <1>2, <1>4, <1>5, <1>6, <2>1 DEF Stands
  <2>5. (t \in HighImpact)'
    BY <1>5, <2>2
  <2>6. Unblocked(b) => Unblocked(c)'
    BY <1>2, <1>5, <1>6, <2>1 DEF Unblocked
  <2> QED
    BY <1>2, <1>6, <2>1, <2>2, <2>3, <2>4, <2>5, <2>6 DEF Request
<1>7. \A b \in approvals \ {a} : Request(b)'
  <2>1. signed \subseteq signed'
    BY <1>2
  <2>2. \A b \in approvals : b.status = "approved" => [stage |-> b.stage, shown |-> b.shown] \in signed
    BY DEF Asked, Request
  <2> QED
    BY <1>6, <2>1, <2>2
<1>8. Request(new)'
  <2>1. new.status = "approved" => [stage |-> new.stage, shown |-> new.shown] \in signed'
    BY <1>2, <1>3
  <2> QED
    BY <1>3, <1>6, <2>1
<1>9. \A b, c \in approvals' : b.stage = c.stage /\ b.inc = c.inc => b = c
  BY <1>2, <1>3 DEF Asked
<1> QED
  BY <1>2, <1>7, <1>8, <1>9 DEF Asked

(* A script that dies in a stage had not found it waiting.                 *)
LEMMA DyingDisturbs ==
  ASSUME IInv, Dying, NEW t \in runnable, rows'[t] # rows[t]
  PROVE  ~Waits(rows[t])
<1>1. t \in Stages /\ rows \in [Stages -> Rows]
  BY MayBeBuiltOn DEF IInv, Typed, Stored
<1>2. CASE \E S \in SUBSET runnable : Die(S)
  BY <1>1, <1>2 DEF Die, MayBegin
<1>3. CASE \E s \in Stages : DieAsking(s)
  BY <1>1, <1>3 DEF DieAsking
<1> QED
  BY <1>2, <1>3 DEF Dying

(* A script that dies touches no stage that waits for a decision, and none *)
(* that a request is built on.                                             *)
LEMMA DyingKeepsRequests ==
  ASSUME IInv, Dying, NEW a \in approvals
  PROVE  Request(a)'
<1>1. /\ Stored /\ Asked /\ UNCHANGED <<scenario, graph, signed>>
      /\ left.requests \subseteq left'.requests
  BY DyingLeaves DEF IInv, Typed
<1>2. PICK t \in Stages :
        /\ a.stage = t /\ a.inc \in Nat /\ rows[t].inc \in Nat /\ Request(a)
        /\ t \in graph.nodes /\ graph.deps[t] \subseteq graph.nodes /\ graph.deps[t] \subseteq Stages
        /\ Current(a) => Unblocked(a) \/ (Stands(a) /\ Ready(t) /\ rows[t].status # "pending")
  BY <1>1, RequestTells
<1>3. rows'[t].inc = rows[t].inc
  BY DyingSpares
<1>4. ASSUME Current(a), ~Unblocked(a)
      PROVE  Ready(t)' /\ \A d \in graph.deps[t] : rows'[d].outputs = rows[d].outputs
  BY <1>2, <1>4, DyingSpares
<1>5. CASE rows'[t] = rows[t] \/ ~Current(a) \/ Unblocked(a)
  BY <1>1, <1>2, <1>3, <1>4, <1>5, RequestStays
<1>6. CASE rows'[t] # rows[t] /\ Current(a) /\ ~Unblocked(a)
  <2>1. t \in runnable /\ rows'[t].status = "running"
    BY <1>6, DyingSpares
  <2>2. ~ExitApproval(t)
    <3>1. a \in Requested(t)
      BY <1>2, <1>6 DEF Requested, Current
    <3>2. ~Waits(rows[t])
      BY <1>6, <2>1, DyingDisturbs
    <3> QED
      BY <2>1, <3>1, <3>2, AskedWaits
  <2>3. Upstream(t)' = Upstream(t)
    BY <1>1, <1>4, <1>6, UpstreamStays
  <2>4. /\ (t \in HighImpact)' <=> t \in HighImpact
        /\ EntryApproval(t)' = EntryApproval(t) /\ ExitApproval(t)' = ExitApproval(t)
    BY <1>1 DEF EntryApproval, ExitApproval, HighImpact
  <2>5. Stands(a)'
    BY <1>2, <1>4, <1>6, <2>1, <2>2, <2>3, <2>4 DEF Stands
  <2> QED
    BY <1>1, <1>2, <1>3, <2>4, <2>5 DEF Request
<1> QED
  BY <1>5, <1>6

(* What it has asked is unblocked, or shows the attempt it leaves.         *)
LEMMA DyingAsks ==
  ASSUME IInv, NEW s \in Stages, DieAsking(s)
  PROVE  \/ approvals' = approvals
         \/ \E new :
              /\ approvals' = approvals \cup {new} /\ Verdict(s) = "none" /\ s \in HighImpact
              /\ new.stage = s /\ new.inc = rows[s].inc /\ new.status = "pending"
              /\ s \in graph.nodes /\ new.inc \in Nat
              /\ Unblocked(new)' \/ Stands(new)'
<1>1. Stored /\ Typed /\ left \in Leftovers /\ rows \in [Stages -> Rows]
  BY DEF IInv, Typed, Stored, Remembered
<1>2. s \in runnable
  BY DEF DieAsking
<1>3. InRun /\ s \in graph.nodes /\ Upstream(s) \in Outputs /\ Output(s) \in Outputs /\ rows[s].inc \in Nat
  BY <1>1, <1>2, MayBeBuiltOn, OutputsTyped DEF Rows
<1>4. scenario' = scenario
  BY DEF DieAsking, Dies
<1>5. EntryApproval(s)' = EntryApproval(s) /\ ExitApproval(s)' = ExitApproval(s)
  BY <1>4 DEF EntryApproval, ExitApproval
<1>6. CASE EntryApproval(s)
  <2>1. ~ExitApproval(s)
    BY <1>6 DEF EntryApproval, ExitApproval
  <2>2. /\ Ask(s, Upstream(s)) /\ s \in HighImpact
        /\ left' = [left EXCEPT !.requests = @ \cup {[stage |-> s, inc |-> rows[s].inc]}]
    BY <1>6, <2>1 DEF DieAsking, HighImpact
  <2>3. PICK new : new = [stage |-> s, inc |-> rows[s].inc, status |-> "pending", shown |-> Upstream(s)]
    OBVIOUS
  <2>4. [stage |-> s, inc |-> rows[s].inc] \in left'.requests
    BY <1>1, <2>2 DEF Leftovers
  <2>5. new.stage = s /\ new.inc = rows[s].inc
    BY <2>3
  <2>6. Unblocked(new)'
    BY <1>5, <1>6, <2>4, <2>5 DEF Unblocked
  <2>7. approvals' = approvals \/ (Verdict(s) = "none" /\ approvals' = approvals \cup {new})
    BY <2>2, <2>3 DEF Ask
  <2> QED
    BY <1>3, <2>2, <2>3, <2>5, <2>6, <2>7
<1>7. CASE ~EntryApproval(s)
  <2>1. /\ Ask(s, Output(s)) /\ ExitApproval(s) /\ s \in HighImpact
        /\ rows' = [rows EXCEPT ![s] = BegunRow(s, Output(s))]
    BY <1>7 DEF DieAsking, HighImpact
  <2>2. PICK new : new = [stage |-> s, inc |-> rows[s].inc, status |-> "pending", shown |-> Output(s)]
    OBVIOUS
  <2>3. rows'[s].status = "running" /\ rows'[s].stale = FALSE /\ rows'[s].outputs = Output(s)
    <3>1. rows'[s] = BegunRow(s, Output(s))
      BY <1>1, <2>1
    <3>2. /\ BegunRow(s, Output(s)).status = "running" /\ BegunRow(s, Output(s)).stale = FALSE
          /\ BegunRow(s, Output(s)).outputs = Output(s)
      BY <1>1, <1>3, BegunTyped
    <3> QED
      BY <3>1, <3>2
  <2>4. new.stage = s /\ new.shown = Output(s) /\ new.inc = rows[s].inc
    BY <2>2
  <2>5. Stands(new)'
    BY <1>5, <1>7, <2>3, <2>4 DEF Stands
  <2>6. approvals' = approvals \/ (Verdict(s) = "none" /\ approvals' = approvals \cup {new})
    BY <2>1, <2>2 DEF Ask
  <2> QED
    BY <1>3, <2>1, <2>2, <2>4, <2>5, <2>6
<1> QED
  BY <1>6, <1>7

LEMMA DyingKeepsAsked ==
  ASSUME IInv, Dying
  PROVE  Asked'
<1>1. Stored /\ Asked /\ UNCHANGED <<scenario, graph, signed>>
  BY DyingLeaves DEF IInv, Typed
<1>2. \A a \in approvals : Request(a)'
  BY DyingKeepsRequests
<1>3. CASE approvals' = approvals
  BY <1>1, <1>2, <1>3 DEF Asked
<1>4. CASE approvals' # approvals
  <2>1. PICK s \in Stages : DieAsking(s)
    BY <1>4 DEF Dying, Die
  <2>4. PICK new :
          /\ approvals' = approvals \cup {new} /\ Verdict(s) = "none" /\ s \in HighImpact
          /\ new.stage = s /\ new.inc = rows[s].inc /\ new.status = "pending"
          /\ s \in graph.nodes /\ new.inc \in Nat
          /\ Unblocked(new)' \/ Stands(new)'
    BY <1>4, <2>1, DyingAsks
  <2>5. (s \in HighImpact)'
    BY <1>1, <2>4 DEF HighImpact, EntryApproval, ExitApproval
  <2>6. new.stage = s /\ new.inc = rows'[s].inc /\ new.inc = rows[s].inc /\ new.status = "pending"
    BY <2>4, DyingSpares
  <2>7. Request(new)'
    BY <1>1, <2>4, <2>5, <2>6 DEF Request
  <2>8. \A b \in approvals : ~(b.stage = s /\ b.inc = rows[s].inc)
    BY <1>1, <2>4, OneVerdict DEF Requested
  <2>9. \A a \in approvals' : Request(a)'
    BY <1>2, <2>4, <2>7
  <2>10. \A a, b \in approvals' : a.stage = b.stage /\ a.inc = b.inc => a = b
    BY <1>1, <2>4, <2>6, <2>8 DEF Asked
  <2> QED
    BY <2>9, <2>10 DEF Asked
<1> QED
  BY <1>3, <1>4

(* A request shows what is there now, or is over, or was left unblocked.   *)
LEMMA StepKeepsAsked == IInv /\ [Next]_vars => Asked'
<1> SUFFICES ASSUME IInv, [Next]_vars PROVE Asked'
  OBVIOUS
<1>1. Stored /\ Asked
  BY DEF IInv, Typed
<1>2. ASSUME UNCHANGED <<scenario, graph, rows, approvals, signed, left>> PROVE Asked'
  <2> SUFFICES ASSUME NEW a \in approvals PROVE Request(a)'
    BY <1>1, <1>2 DEF Asked
  <2>1. PICK t \in Stages :
          /\ a.stage = t /\ a.inc \in Nat /\ rows[t].inc \in Nat /\ Request(a)
          /\ t \in graph.nodes /\ graph.deps[t] \subseteq graph.nodes /\ graph.deps[t] \subseteq Stages
          /\ Current(a) => Unblocked(a) \/ (Stands(a) /\ Ready(t) /\ rows[t].status # "pending")
    BY <1>1, RequestTells
  <2>2. Ready(t) => Ready(t)'
    BY <1>2 DEF Ready, BuiltOn, Counts, CutShort
  <2> QED
    BY <1>2, <2>1, <2>2, RequestStays
<1>3. CASE UNCHANGED vars
  BY <1>2, <1>3 DEF vars, storeVars, outerVars
<1>4. CASE CreateRun \/ InsertStage \/ InvalidateDownstream
  <2>1. CASE StoreStays
    BY <1>2, <1>4, <2>1, CallsDo DEF StoreStays, outerVars
  <2>2. CASE \E s : Creates \/ Inserts(s) \/ Invalidates(s)
    BY <2>2, CallsKeepAsked
  <2> QED
    BY <1>4, <2>1, <2>2, CallsDo
<1>5. CASE \E name \in Scripts : Invoke(name)
  BY <1>2, <1>5 DEF Invoke, storeVars, outerVars
<1>6. CASE BuildExecutor
  BY <1>2, <1>6 DEF BuildExecutor, Calls, Raise, outerVars
<1>7. CASE EndLayer
  BY <1>2, <1>7 DEF EndLayer, Return, outerVars
<1>8. CASE Finalize
  BY <1>2, <1>8 DEF Finalize, Return, outerVars
<1>9. CASE \E a \in approvals, verdict \in {"approved", "rejected"} : Decide(a, verdict)
  BY <1>1, <1>9, DecideKeepsAsked
<1>10. CASE Edit
  BY <1>2, <1>10 DEF Edit, storeVars
<1>11. CASE Dying
  BY <1>11, DyingKeepsAsked
<1> QED
  BY <1>3, <1>4, <1>5, <1>6, <1>7, <1>8, <1>9, <1>10, <1>11, PlanKeepsAsked, StageKeepsAsked
     DEF Next, Step, Dying

(* A stage that counts does so by its own execution: nothing else makes    *)
(* one pass, and what counts, or was cut short, is left alone, with all it *)
(* rests on.                                                               *)
Quiet ==
    /\ scenario' = scenario /\ signed \subseteq signed' /\ left' = left
    /\ \A t \in Stages :
         /\ rows'[t].outputs \in {rows[t].outputs, Nothing}
         /\ BuiltOn(t)' => /\ rows'[t] = rows[t] /\ graph'.deps[t] = graph.deps[t]
                           /\ \A d \in graph.deps[t] : rows'[d].outputs = rows[d].outputs

LEMMA OnlyStepsPass == IInv /\ [Next]_vars => Quiet \/ Dying \/ \E s \in Stages : Step(s)
<1> SUFFICES ASSUME IInv, [Next]_vars, ~Dying, ~(\E s \in Stages : Step(s)) PROVE Quiet
  OBVIOUS
<1>1. Stored
  BY DEF IInv, Typed
<1>2. ASSUME UNCHANGED <<scenario, graph, rows, left>>, signed \subseteq signed' PROVE Quiet
  BY <1>2 DEF Quiet, BuiltOn, Counts, CutShort
<1>3. CASE UNCHANGED vars
  BY <1>2, <1>3 DEF vars, storeVars, outerVars
<1>4. ASSUME Creates PROVE Quiet
  <2>1. \A t \in Stages : rows'[t].outputs = Nothing /\ ~BuiltOn(t)'
    BY <1>1, <1>4, CreatesTyped DEF BuiltOn, Counts, CutShort
  <2> QED
    BY <1>4, <2>1 DEF Quiet, Creates, outerVars
<1>5. ASSUME NEW s, Inserts(s) PROVE Quiet
  <2>1. rows'[s] = NewRow /\ \A t \in Stages \ {s} : rows'[t] = rows[t] /\ graph'.deps[t] = graph.deps[t]
    BY <1>1, <1>5, InsertsTyped
  <2>2. ASSUME NEW t \in Stages, BuiltOn(t)'
        PROVE  /\ rows'[t] = rows[t] /\ graph'.deps[t] = graph.deps[t]
               /\ \A d \in graph.deps[t] : rows'[d].outputs = rows[d].outputs
    <3>1. t # s
      BY <2>1, <2>2 DEF BuiltOn, Counts, CutShort, NewRow
    <3>2. rows'[t] = rows[t]
      BY <2>1, <3>1
    <3>3. t \in graph.nodes
      BY <1>1, <2>2, <3>2 DEF BuiltOn, Counts, CutShort, Stored, NoRow, NewRow
    <3>4. s \notin graph.deps[t] /\ graph.deps[t] \subseteq Stages
      BY <1>1, <1>5, <3>3, InsertsTyped, GraphShape
    <3> QED
      BY <2>1, <3>1, <3>4
  <2>3. \A t \in Stages : rows'[t].outputs \in {rows[t].outputs, Nothing}
    BY <2>1 DEF NewRow
  <2> QED
    BY <1>5, <2>2, <2>3 DEF Quiet, Inserts, outerVars
<1>6. ASSUME NEW s, Invalidates(s) PROVE Quiet
  <2>1. \A t \in Stages : rows'[t].outputs = rows[t].outputs /\ (BuiltOn(t)' => rows'[t] = rows[t])
    BY <1>1, <1>6, InvalidatesTyped DEF BuiltOn, Counts, CutShort
  <2>2. UNCHANGED <<scenario, graph, signed, left>>
    BY <1>6 DEF Invalidates, outerVars
  <2> QED
    BY <1>1, <2>1, <2>2, GraphShape DEF Quiet
<1>7. CASE CreateRun \/ InsertStage \/ InvalidateDownstream
  <2>1. CASE StoreStays
    BY <1>2, <1>7, <2>1, CallsDo DEF StoreStays, outerVars
  <2> QED
    BY <1>4, <1>5, <1>6, <1>7, <2>1, CallsDo
<1>8. CASE PlanLayer
  <2>1. PICK S : rows' = SkipAll(S)
    BY <1>8 DEF PlanLayer
  <2>2. \A t \in Stages : rows'[t].outputs = rows[t].outputs /\ (BuiltOn(t)' => rows'[t] = rows[t])
    BY <1>1, <2>1, SkipsTyped DEF BuiltOn, Counts, CutShort
  <2>3. UNCHANGED <<scenario, graph, signed, left>>
    BY <1>8 DEF PlanLayer, outerVars
  <2> QED
    BY <1>1, <2>2, <2>3, GraphShape DEF Quiet
<1>9. CASE \E name \in Scripts : Invoke(name)
  BY <1>2, <1>9 DEF Invoke, storeVars, outerVars
<1>10. CASE BuildExecutor
  BY <1>2, <1>10 DEF BuildExecutor, Calls, Raise, outerVars
<1>11. CASE EndLayer
  BY <1>2, <1>11 DEF EndLayer, Return, outerVars
<1>12. CASE Finalize
  BY <1>2, <1>12 DEF Finalize, Return, outerVars
<1>13. CASE \E a \in approvals, verdict \in {"approved", "rejected"} : Decide(a, verdict)
  BY <1>2, <1>13 DEF Decide
<1>14. CASE Edit
  BY <1>2, <1>14 DEF Edit, storeVars
<1> QED
  BY <1>3, <1>7, <1>8, <1>9, <1>10, <1>11, <1>12, <1>13, <1>14 DEF Next, Step, Dying

(* What the execution of a stage makes count.                              *)
LEMMA StagePasses ==
  ASSUME IInv, NEW s \in Stages, Step(s)
  PROVE  /\ UNCHANGED <<scenario, graph, signed, left>>
         /\ \A t \in Stages : Counts(t)' /\ t # s => Counts(t) /\ rows'[t] = rows[t]
         /\ \A t \in Stages : CutShort(t)' => t # s /\ rows'[t] = rows[t]
         /\ \A t \in Stages : Ready(t) => Upstream(t)' = Upstream(t)
         /\ Counts(s)' => Ready(s) /\ Passing(s)
         /\ rows'[s].outputs \in {rows[s].outputs, Output(s)}
<1>1. Stored
  BY DEF IInv, Typed
<1>2. Ready(s) /\ ~Counts(s) /\ ~BuiltOn(s) /\ UNCHANGED <<scenario, graph, signed, left>>
  BY StageOutcomes DEF outerVars, BuiltOn
<1>3. ASSUME NEW t \in Stages, Counts(t)', t # s PROVE Counts(t) /\ rows'[t] = rows[t]
  BY <1>3, StageFrame DEF Counts
<1>4. ASSUME NEW t \in Stages, Ready(t) PROVE Upstream(t)' = Upstream(t)
  <2>1. s \notin graph.deps[t] /\ graph.deps[t] \subseteq Stages
    BY <1>1, <1>2, <1>4, GraphShape DEF Ready
  <2>2. \A d \in graph.deps[t] : rows'[d].outputs = rows[d].outputs
    BY <2>1, StageFrame
  <2> QED
    BY <1>2, <2>2, UpstreamStays
<1>5. ASSUME NEW t \in Stages, CutShort(t)', t # s PROVE rows'[t] = rows[t]
  BY <1>5, StageFrame DEF CutShort
<1>6. CASE UNCHANGED <<rows, approvals>>
  BY <1>2, <1>3, <1>4, <1>5, <1>6 DEF BuiltOn, Counts, CutShort
<1>7. CASE Passing(s)
  <2>1. ~CutShort(s)' /\ rows'[s].outputs \in {rows[s].outputs, Output(s)}
    BY <1>1, <1>7, RowsPass DEF Passing, CutShort
  <2> QED
    BY <1>2, <1>3, <1>4, <1>5, <1>7, <2>1
<1>8. CASE Failing(s)
  <2>1. ~Counts(s)' /\ ~CutShort(s)' /\ rows'[s].outputs \in {rows[s].outputs, Output(s)}
    BY <1>1, <1>8, RowsFail DEF Failing, Counts, CutShort
  <2> QED
    BY <1>2, <1>3, <1>4, <1>5, <2>1
<1>9. CASE BlockingEntry(s)
  <2>1. ~Counts(s)' /\ ~CutShort(s)' /\ rows'[s].outputs = rows[s].outputs
    BY <1>1, <1>9 DEF BlockingEntry, Counts, CutShort, Stored, Rows
  <2> QED
    BY <1>2, <1>3, <1>4, <1>5, <2>1
<1>10. CASE BlockingExit(s)
  <2>1. ~Counts(s)' /\ ~CutShort(s)' /\ rows'[s].outputs = Output(s)
    BY <1>1, <1>10 DEF BlockingExit, Counts, CutShort, Stored, Rows
  <2> QED
    BY <1>2, <1>3, <1>4, <1>5, <2>1
<1> QED
  BY <1>6, <1>7, <1>8, <1>9, <1>10, StageOutcomes

Signature(t) ==
    [stage |-> t, shown |-> IF EntryApproval(t) THEN Upstream(t) ELSE rows[t].outputs]
LeftAsking(t) == EntryApproval(t) /\ [stage |-> t, inc |-> rows[t].inc] \in left.requests

LEMMA StepKeepsSignatures == IInv /\ [Next]_vars => SignedByPeople'
<1> SUFFICES ASSUME IInv, [Next]_vars, NEW t \in Stages, (t \in HighImpact)', Counts(t)'
             PROVE  Signature(t)' \in signed' \/ LeftAsking(t)'
  BY DEF SignedByPeople, Signature, LeftAsking, HighImpact
<1>1. Stored /\ Asked /\ SignedByPeople /\ PassesAreCurrent
  BY DEF IInv, Typed
<1>2. ASSUME scenario' = scenario, signed \subseteq signed', left.requests \subseteq left'.requests,
             rows'[t] = rows[t], Upstream(t)' = Upstream(t)
      PROVE  Signature(t)' \in signed' \/ LeftAsking(t)'
  <2>1. t \in HighImpact /\ Counts(t)
    BY <1>2 DEF HighImpact, EntryApproval, ExitApproval, Counts
  <2>2. Signature(t) \in signed \/ LeftAsking(t)
    BY <1>1, <2>1 DEF SignedByPeople, Signature, LeftAsking
  <2>3. Signature(t)' = Signature(t)
    BY <1>2 DEF Signature, EntryApproval
  <2>4. LeftAsking(t) => LeftAsking(t)'
    BY <1>2 DEF LeftAsking, EntryApproval
  <2> QED
    BY <1>2, <2>2, <2>3, <2>4
<1>3. CASE Quiet
  <2>1. /\ scenario' = scenario /\ signed \subseteq signed' /\ left' = left
        /\ rows'[t] = rows[t] /\ graph'.deps[t] = graph.deps[t]
        /\ \A d \in graph.deps[t] : rows'[d].outputs = rows[d].outputs
    BY <1>3 DEF Quiet, BuiltOn
  <2> QED
    BY <1>2, <2>1, UpstreamStays
<1>4. ASSUME Counts(t) PROVE Ready(t)
  BY <1>1, <1>4 DEF PassesAreCurrent, Ready, BuiltOn
<1>5. ASSUME NEW s \in Stages, Step(s), t # s PROVE Signature(t)' \in signed' \/ LeftAsking(t)'
  <2>1. Counts(t) /\ rows'[t] = rows[t] /\ UNCHANGED <<scenario, signed, left>>
    BY <1>5, StagePasses
  <2> QED
    BY <1>2, <1>4, <1>5, <2>1, StagePasses
<1>6. ASSUME Step(t) PROVE Signature(t)' \in signed' \/ LeftAsking(t)'
  <2>1. Ready(t) /\ Passing(t) /\ Upstream(t)' = Upstream(t) /\ UNCHANGED <<scenario, signed, left>>
    BY <1>6, StagePasses
  <2>2. t \in HighImpact /\ EntryApproval(t)' = EntryApproval(t) /\ (EntryApproval(t) \/ ExitApproval(t))
    <3>1. EntryApproval(t)' = EntryApproval(t) /\ ExitApproval(t)' = ExitApproval(t)
      BY <2>1 DEF EntryApproval, ExitApproval
    <3>2. (EntryApproval(t) \/ ExitApproval(t))'
      BY DEF HighImpact
    <3> QED
      BY <3>1, <3>2 DEF HighImpact
  <2>3. PICK o \in Outputs :
          /\ Passes(t, o) /\ Verdict(t) = "approved"
          /\ ExitApproval(t) => rows[t].status = "blocked_approval" /\ o = rows[t].outputs
    BY <2>1, <2>2 DEF Passing
  <2>4. PICK a \in Requested(t) : TRUE
    BY <1>1, <2>3, OneVerdict
  <2>5. a \in approvals /\ a.stage = t /\ Current(a) /\ a.status = "approved"
    BY <1>1, <2>3, <2>4, OneVerdict
  <2>6. Request(a)
    BY <1>1, <2>5 DEF Asked
  <2>7. rows'[t].outputs = o /\ rows'[t].inc = rows[t].inc
    BY <1>1, <2>3, RowsPass
  <2>8. CASE Unblocked(a)
    BY <2>1, <2>2, <2>5, <2>7, <2>8 DEF Unblocked, LeftAsking, Current
  <2>9. CASE ~Unblocked(a)
    <3>1. [stage |-> t, shown |-> a.shown] \in signed /\ Stands(a)
      BY <2>5, <2>6, <2>9 DEF Request
    <3>2. EntryApproval(t) => a.shown = Upstream(t)
      BY <2>5, <3>1 DEF Stands
    <3>3. ExitApproval(t) => a.shown = rows[t].outputs
      BY <2>3, <2>5, <3>1 DEF Stands
    <3> QED
      BY <2>1, <2>2, <2>3, <2>7, <3>1, <3>2, <3>3 DEF Signature
  <2> QED
    BY <2>8, <2>9
<1>7. CASE Dying
  <2>1. rows'[t] = rows[t] /\ UNCHANGED <<scenario, graph, signed>> /\ left.requests \subseteq left'.requests
    BY <1>7, DyingLeaves, DyingSpares
  <2>2. Ready(t)
    BY <1>4, <2>1 DEF Counts
  <2>3. \A d \in graph.deps[t] : rows'[d].outputs = rows[d].outputs
    BY <1>7, <2>2, DyingSpares
  <2> QED
    BY <1>2, <2>1, <2>3, UpstreamStays
<1> QED
  BY <1>3, <1>5, <1>6, <1>7, OnlyStepsPass

(* What is signed, or was left in an attempt of requirements.              *)
Known(spec) ==
    \/ \E a \in signed : a.stage = "requirements" /\ spec \in a.shown.spec
    \/ \E a \in left.attempts : a.stage = "requirements" /\ spec \in a.outputs.spec

LEMMA StepKeepsUnsigned == IInv /\ [Next]_vars => NothingUnsigned'
<1> SUFFICES ASSUME IInv, [Next]_vars, scenario' = "ambiguous",
                    NEW t \in Stages \ {"requirements"}, NEW spec \in rows'[t].outputs.spec
             PROVE  Known(spec)'
  BY DEF NothingUnsigned, Known
<1>1. Stored /\ SignedByPeople /\ NothingUnsigned /\ Remembered
  BY DEF IInv, Typed
<1>2. ASSUME signed \subseteq signed', left.attempts \subseteq left'.attempts, Known(spec) PROVE Known(spec)'
  BY <1>2 DEF Known
<1>3. ASSUME scenario' = scenario, spec \in rows[t].outputs.spec PROVE Known(spec)
  BY <1>1, <1>3 DEF NothingUnsigned, Known
<1>4. ASSUME scenario' = scenario, Ready(t), spec \in Output(t).spec PROVE Known(spec)
  <2>1. PICK d \in graph.deps[t] : spec \in rows[d].outputs.spec
    BY <1>4 DEF Output, Inherited
  <2>2. d \in Stages /\ BuiltOn(d)
    BY <1>1, <1>4, <2>1, GraphShape DEF Ready
  <2>3. CASE d = "requirements" /\ Counts(d)
    <3>1. d \in HighImpact /\ ~EntryApproval(d)
      BY <1>4, <2>2, <2>3 DEF HighImpact, ExitApproval, EntryApproval
    <3>2. [stage |-> d, shown |-> rows[d].outputs] \in signed
      BY <1>1, <2>3, <3>1 DEF SignedByPeople
    <3> QED
      BY <2>1, <2>3, <3>2 DEF Known
  <2>4. CASE d = "requirements" /\ CutShort(d)
    <3>1. [stage |-> d, outputs |-> rows[d].outputs] \in left.attempts
      BY <1>1, <2>2, <2>4 DEF Remembered
    <3> QED
      BY <2>1, <2>4, <3>1 DEF Known
  <2>5. CASE d # "requirements"
    BY <1>1, <1>4, <2>1, <2>2, <2>5 DEF NothingUnsigned, Known
  <2> QED
    BY <2>2, <2>3, <2>4, <2>5 DEF BuiltOn
<1>5. CASE Quiet
  <2>1. scenario' = scenario /\ signed \subseteq signed' /\ left' = left /\ spec \in rows[t].outputs.spec
    BY <1>5 DEF Quiet, Nothing
  <2> QED
    BY <1>2, <1>3, <2>1
<1>6. ASSUME NEW s \in Stages, Step(s) PROVE Known(spec)'
  <2>1. UNCHANGED <<scenario, signed, left>>
    BY <1>6, StagePasses
  <2>2. CASE s # t
    <3>1. rows'[t].outputs = rows[t].outputs
      BY <1>6, <2>2, StageFrame
    <3> QED
      BY <1>2, <1>3, <2>1, <3>1
  <2>3. CASE s = t
    <3>1. rows'[t].outputs \in {rows[t].outputs, Output(t)} /\ Ready(t)
      BY <1>6, <2>3, StagePasses, StageOutcomes
    <3> QED
      BY <1>2, <1>3, <1>4, <2>1, <3>1
  <2> QED
    BY <2>2, <2>3
<1>7. CASE Dying
  <2>1. UNCHANGED <<scenario, signed>> /\ left.attempts \subseteq left'.attempts
    BY <1>7, DyingLeaves
  <2>2. CASE rows'[t] = rows[t]
    BY <1>2, <1>3, <2>1, <2>2
  <2>3. CASE rows'[t] # rows[t]
    <3>1. t \in runnable /\ rows'[t].outputs \in Recorded(t)
      BY <1>7, <2>3, DyingSpares
    <3>2. Ready(t)
      BY <3>1, MayBeBuiltOn
    <3>3. spec \in rows[t].outputs.spec \/ spec \in Output(t).spec
      BY <3>1 DEF Recorded, Both
    <3> QED
      BY <1>2, <1>3, <1>4, <2>1, <3>2, <3>3
  <2> QED
    BY <2>2, <2>3
<1> QED
  BY <1>5, <1>6, <1>7, OnlyStepsPass

LEMMA StepKeepsRemembered == IInv /\ [Next]_vars => Remembered'
<1> SUFFICES ASSUME IInv, [Next]_vars PROVE Remembered'
  OBVIOUS
<1>1. Remembered
  BY DEF IInv
<1>2. ASSUME left' = left, \A t \in Stages : CutShort(t)' => rows'[t] = rows[t] PROVE Remembered'
  BY <1>1, <1>2 DEF Remembered, CutShort, Leftovers
<1>3. CASE Quiet
  BY <1>2, <1>3 DEF Quiet, BuiltOn
<1>4. ASSUME NEW s \in Stages, Step(s) PROVE Remembered'
  BY <1>2, <1>4, StagePasses
<1>5. CASE Dying
  <2>1. /\ left' \in Leftovers /\ left.attempts \subseteq left'.attempts
        /\ \A t \in Stages : \/ rows'[t] = rows[t]
                            \/ [stage |-> t, outputs |-> rows'[t].outputs] \in left'.attempts
    BY <1>5, DyingLeaves
  <2> QED
    BY <1>1, <2>1 DEF Remembered, CutShort, Leftovers
<1> QED
  BY <1>3, <1>4, <1>5, OnlyStepsPass

-----------------------------------------------------------------------------
(* What the scripts take in, and what they insert *)

(* A script comes to its end, makes its next call, or stays where it is.   *)
Ends == script' = NoScript /\ UNCHANGED <<applied, edits>>
Advances ==
    /\ CreateRun \/ InsertStage \/ InvalidateDownstream
    /\ script # NoScript /\ script.calls # <<>> /\ Head(script.calls).op # "run" /\ Proceed
    /\ UNCHANGED <<applied, edits>>
Starts ==
    /\ script # NoScript /\ script.calls # <<>> /\ Head(script.calls).op = "run"
    /\ script' = [script EXCEPT !.calls = <<>>, !.input = ScenarioInput(script.name)]
    /\ UNCHANGED <<applied, edits>>
Completes ==
    /\ InRun /\ script' = NoScript
    /\ applied' = applied \cup {script.name} /\ UNCHANGED edits

LEMMA ScriptMoves ==
  IInv /\ [Next]_vars =>
    \/ UNCHANGED <<script, applied, edits>> \/ Ends \/ Advances \/ Starts \/ Completes
    \/ Edit \/ \E name \in Scripts : Invoke(name)
<1> SUFFICES ASSUME IInv, [Next]_vars
             PROVE  \/ UNCHANGED <<script, applied, edits>> \/ Ends \/ Advances \/ Starts \/ Completes
                    \/ Edit \/ \E name \in Scripts : Invoke(name)
  OBVIOUS
<1>1. CASE UNCHANGED vars
  BY <1>1 DEF vars, outerVars, history
<1>2. CASE CreateRun \/ InsertStage \/ InvalidateDownstream
  BY <1>2, CallsDo DEF Advances, Ends, outerVars, history
<1>3. CASE BuildExecutor
  BY <1>3 DEF BuildExecutor, Calls, Comes, Raise, Starts, Ends, outerVars, history
<1>4. CASE PlanLayer
  BY <1>4 DEF PlanLayer, outerVars, history
<1>5. CASE EndLayer
  BY <1>5 DEF EndLayer, Return, Completes, outerVars, history
<1>6. CASE Finalize
  BY <1>6 DEF Finalize, Return, Completes, outerVars
<1>7. ASSUME NEW s \in Stages, Step(s) PROVE UNCHANGED <<script, applied, edits>>
  BY <1>7, StageOutcomes DEF outerVars, history
<1>8. CASE \E a \in approvals, verdict \in {"approved", "rejected"} : Decide(a, verdict)
  BY <1>8 DEF Decide
<1>9. CASE Dying
  BY <1>9, DyingLeaves DEF Ends
<1> QED
  BY <1>1, <1>2, <1>3, <1>4, <1>5, <1>6, <1>7, <1>8, <1>9 DEF Next, Step, Dying

(* What a script has yet to call. *)
LEMMA CallsToCome ==
  ASSUME Scripted, NEW op, NEW s, op # "run"
  PROVE  /\ InRun \/ Starts => ~ToCome(op, s)
         /\ Advances => script' # NoScript /\ script'.name = script.name
         /\ Advances /\ ToCome(op, s) => ToCome(op, s)' \/ Head(script.calls) = Call(op, s)
         /\ Advances /\ ToCome(op, s)' => ToCome(op, s)
<1> DEFINE calls == script.calls
<1>1. InRun => ~ToCome(op, s)
  BY DEF InRun, ToCome
<1>2. ASSUME Starts PROVE ~ToCome(op, s)
  <2>1. Len(calls) = 1 /\ calls \in Seq(Calling) /\ Head(calls) = calls[1] /\ Head(calls).op = "run"
    BY <1>2, NextCall DEF Starts, Scripted
  <2>2. DOMAIN calls = {1}
    BY <2>1
  <2>3. Call(op, s).op = op
    BY DEF Call
  <2> QED
    BY <2>1, <2>2, <2>3 DEF ToCome
<1>3. ASSUME Advances
      PROVE  /\ script'.name = script.name /\ script'.calls = Tail(calls)
             /\ calls \in Seq(Calling) /\ Tail(calls) \in Seq(Calling)
             /\ DOMAIN Tail(calls) = 1 .. Len(calls) - 1 /\ DOMAIN calls = 1 .. Len(calls)
             /\ \A i \in 1 .. Len(calls) - 1 : Tail(calls)[i] = calls[i + 1]
             /\ Head(calls) = calls[1] /\ 1 \in DOMAIN calls /\ Len(calls) \in Nat
             /\ Tail(calls) # <<>>
  <2>1. script'.name = script.name /\ script'.calls = Tail(calls)
    BY <1>3 DEF Advances, Proceed, Scripted
  <2> QED
    BY <1>3, <2>1, NextCall DEF Advances, Scripted
<1>4. ASSUME Advances PROVE script' # NoScript /\ script'.name = script.name
  <2>1. script'.calls # <<>> /\ script'.name = script.name
    BY <1>3, <1>4
  <2>2. NoScript.calls = <<>>
    BY DEF NoScript
  <2> QED
    BY <2>1, <2>2
<1>5. ASSUME Advances, ToCome(op, s) PROVE ToCome(op, s)' \/ Head(script.calls) = Call(op, s)
  <2>1. PICK i \in DOMAIN calls : calls[i] = Call(op, s)
    BY <1>5 DEF ToCome
  <2>2. CASE i = 1
    BY <1>3, <1>5, <2>1, <2>2
  <2>3. CASE i # 1
    <3>1. i - 1 \in DOMAIN Tail(calls) /\ Tail(calls)[i - 1] = calls[i]
      BY <1>3, <1>5, <2>1, <2>3, SMTT(20)
    <3>2. (\E j \in DOMAIN script.calls : script.calls[j] = Call(op, s))'
      BY <1>3, <1>5, <2>1, <3>1
    <3> QED
      BY <3>2 DEF ToCome
  <2> QED
    BY <2>2, <2>3
<1>6. ASSUME Advances, ToCome(op, s)' PROVE ToCome(op, s)
  <2>1. PICK i \in DOMAIN Tail(calls) : Tail(calls)[i] = Call(op, s)
    BY <1>3, <1>6 DEF ToCome
  <2>2. i + 1 \in DOMAIN calls /\ calls[i + 1] = Call(op, s)
    BY <1>3, <1>6, <2>1
  <2> QED
    BY <2>2 DEF ToCome
<1> QED
  BY <1>1, <1>2, <1>4, <1>5, <1>6

(* The calls of the scripts that revise. *)
LEMMA RevisingCalls ==
  ASSUME NEW name \in Revising, NEW s \in {"implementation", "test"}
  PROVE  \E i \in DOMAIN CallsOf(name) : CallsOf(name)[i] = Call("invalidate", s)
<1>1. CallsOf(name) = <<Call("invalidate", "implementation"), Call("invalidate", "test"), Run>>
  BY DEF CallsOf, Revising
<1>2. /\ DOMAIN CallsOf(name) = 1 .. 3
      /\ CallsOf(name)[1] = Call("invalidate", "implementation")
      /\ CallsOf(name)[2] = Call("invalidate", "test")
  BY <1>1
<1> QED
  BY <1>2

(* Who counts and is revised was so before. *)
LEMMA RevisedBefore ==
  ASSUME IInv, [Next]_vars, NEW s \in {"implementation", "test"}, Revised(s)', Counts(s)'
  PROVE  Revised(s) /\ edits' = edits
<1>1. Scripted /\ Stored
  BY DEF IInv, Typed
<1>2. None \notin Revising
  BY ScenariosAssumption DEF Revising
<1>3. CASE UNCHANGED <<script, applied, edits>>
  BY <1>3 DEF Revised, ToCome
<1>4. CASE Ends
  BY <1>2, <1>4 DEF Ends, Revised, NoScript
<1>5. CASE Advances
  <2>1. Head(script.calls) # Call("invalidate", s)
    <3> SUFFICES ASSUME Head(script.calls) = Call("invalidate", s) PROVE FALSE
      OBVIOUS
    <3>1. Target = s /\ Head(script.calls).op = "invalidate"
      BY DEF Target, Call
    <3>2. CreateRun \/ InsertStage \/ InvalidateDownstream
      BY <1>5 DEF Advances
    <3>3. Invalidates(s)
      BY <1>5, <3>1, <3>2, CallsDo, CallsToCome, <1>1 DEF Advances, NoScript
    <3>4. rows'[s].status = "stale"
      BY <1>1, <3>3, InvalidatesTyped DEF Affected
    <3> QED
      BY <3>4 DEF Counts
  <2>2. ToCome("invalidate", s) => ToCome("invalidate", s)'
    BY <1>1, <1>5, <2>1, CallsToCome
  <2>3. script'.name = script.name /\ UNCHANGED <<applied, edits>>
    BY <1>1, <1>5, CallsToCome DEF Advances
  <2> QED
    BY <2>2, <2>3 DEF Revised
<1>6. CASE Starts
  <2>1. ~ToCome("invalidate", s)
    BY <1>1, <1>6, CallsToCome
  <2>2. script'.name = script.name /\ UNCHANGED <<applied, edits>>
    BY <1>1, <1>6 DEF Starts, Scripted
  <2> QED
    BY <2>1, <2>2 DEF Revised
<1>7. CASE Completes
  <2>1. ~ToCome("invalidate", s)
    BY <1>1, <1>7, CallsToCome DEF Completes
  <2> QED
    BY <1>2, <1>7, <2>1 DEF Completes, Revised, NoScript
<1>8. CASE Edit
  <2>1. applied' \cap Revising = {} /\ script' = NoScript
    BY <1>8 DEF Edit
  <2> QED
    BY <1>2, <2>1 DEF Revised, NoScript
<1>9. ASSUME NEW name \in Scripts, Invoke(name) PROVE Revised(s) /\ edits' = edits
  <2>1. script'.name = name /\ script'.calls = CallsOf(name) /\ UNCHANGED <<applied, edits>>
    BY <1>9 DEF Invoke, outerVars
  <2>2. name \notin Revising \/ ToCome("invalidate", s)'
    BY <2>1, RevisingCalls DEF ToCome
  <2> QED
    BY <2>1, <2>2 DEF Revised
<1> QED
  BY <1>3, <1>4, <1>5, <1>6, <1>7, <1>8, <1>9, ScriptMoves

LEMMA StepKeepsRevisions == IInv /\ [Next]_vars => Revisions'
<1> SUFFICES ASSUME IInv, [Next]_vars, NEW t \in {"implementation", "test"}, Revised(t)', Counts(t)'
             PROVE  edits' \in rows'[t].outputs.files
  BY DEF Revisions
<1>1. Stored /\ Scripted /\ Revisions /\ Revised(t) /\ edits' = edits /\ t \in Stages
  BY RevisedBefore DEF IInv, Typed, Stages
<1>2. ASSUME rows'[t] = rows[t] PROVE edits' \in rows'[t].outputs.files
  BY <1>1, <1>2 DEF Revisions, Counts
<1>3. CASE Quiet
  BY <1>1, <1>2, <1>3 DEF Quiet, BuiltOn
<1>4. ASSUME NEW s \in Stages, Step(s), t # s PROVE edits' \in rows'[t].outputs.files
  BY <1>1, <1>2, <1>4, StagePasses
<1>5. ASSUME Step(t) PROVE edits' \in rows'[t].outputs.files
  <2>1. Passing(t) /\ ~ExitApproval(t) /\ InRun
    BY <1>1, <1>5, StagePasses, StageOutcomes DEF ExitApproval
  <2>2. PICK o \in Outputs : Passes(t, o) /\ o = Output(t)
    BY <2>1 DEF Passing
  <2>3. rows'[t].outputs = Output(t)
    BY <1>1, <2>2, RowsPass
  <2>4. script.input.files = edits
    BY <1>1, <2>1 DEF Scripted, InRun, ScenarioInput
  <2> QED
    BY <1>1, <2>3, <2>4 DEF Output
<1>6. CASE Dying
  BY <1>1, <1>2, <1>6, DyingSpares
<1> QED
  BY <1>3, <1>4, <1>5, <1>6, OnlyStepsPass

(* A completed run is made of what the revisions have brought. *)
LEMMA RevisionsComplete == IInv => RevisionsAreIn
<1> SUFFICES ASSUME IInv, status = "completed", applied \cap Revising # {},
                    NEW s \in {"implementation", "test", "release_readiness"} \cap graph.nodes
             PROVE  edits \in rows[s].outputs.files
  BY DEF RevisionsAreIn
<1>1. Stored /\ Revisions /\ PassesAreCurrent /\ \A t \in graph.nodes : Counts(t)
  BY DEF IInv, Typed, Told
<1>2. \A t \in {"implementation", "test"} \cap graph.nodes : edits \in rows[t].outputs.files
  BY <1>1 DEF Revisions, Revised
<1>3. CASE s = "release_readiness"
  <2>1. "implementation" \in graph.deps[s] /\ s \in Stages
    BY <1>1, <1>3, GraphShape DEF DependsOn, Stages
  <2>2. "implementation" \in graph.nodes
    BY <1>1, <2>1, GraphShape
  <2> QED
    BY <1>1, <1>2, <2>1, <2>2 DEF PassesAreCurrent
<1> QED
  BY <1>2, <1>3

(* A run only grows. *)
LEMMA NodesStay ==
  ASSUME IInv, [Next]_vars
  PROVE  /\ graph.nodes \subseteq graph'.nodes
         /\ Advances /\ Head(script.calls).op = "insert" => Target \in graph'.nodes
         /\ graph' = graph \/ Creates \/ Inserts(Target)
<1>1. Stored /\ Scripted
  BY DEF IInv, Typed
<1>2. CASE CreateRun \/ InsertStage \/ InvalidateDownstream
  <2>1. CASE StoreStays /\ (script' = NoScript \/ Head(script.calls).op = "create" \/ Target \in graph.nodes)
    <3>1. Advances => script' # NoScript
      BY <1>1, CallsToCome
    <3> QED
      BY <2>1, <3>1 DEF StoreStays
  <2>2. CASE Creates /\ Head(script.calls).op = "create"
    BY <1>1, <2>2 DEF Creates, Stored
  <2>3. CASE Inserts(Target)
    <3>1. graph'.nodes = graph.nodes \cup {Target}
      <4>1. PICK s : s = Target
        OBVIOUS
      <4>2. Inserts(s)
        BY <2>3, <4>1
      <4> QED
        BY <1>1, <4>1, <4>2, InsertsTyped
    <3> QED
      BY <2>3, <3>1
  <2>4. CASE Invalidates(Target) /\ Head(script.calls).op = "invalidate"
    BY <2>4 DEF Invalidates
  <2> QED
    BY <1>2, <2>1, <2>2, <2>3, <2>4, CallsDo
<1>3. CASE ~(CreateRun \/ InsertStage \/ InvalidateDownstream)
  <2>1. graph' = graph
    <3>1. CASE \E s \in Stages : Step(s)
      BY <3>1, StageOutcomes
    <3>2. CASE Dying
      BY <3>2, DyingLeaves
    <3>3. CASE ~Dying /\ ~\E s \in Stages : Step(s)
      BY <1>3, <3>3 DEF Next, vars, storeVars, Invoke, BuildExecutor, Raise, PlanLayer, EndLayer, Finalize,
                        Decide, Edit, Dying, Step
    <3> QED
      BY <3>1, <3>2, <3>3
  <2> QED
    BY <1>3, <2>1 DEF Advances
<1> QED
  BY <1>2, <1>3

(* The insertions of a script are among its calls. *)
LEMMA InsertionsAreCalls ==
  ASSUME NEW name \in Names, NEW s \in InsertsOf(name)
  PROVE  \E i \in DOMAIN CallsOf(name) : CallsOf(name)[i] = Call("insert", s)
<1>1. PICK i \in DOMAIN CallsOf(name) : CallsOf(name)[i].op = "insert" /\ CallsOf(name)[i].stage = s
  BY DEF InsertsOf
<1>2. CallsOf(name)[i] \in Calling
  BY CallsAreTyped
<1>3. CallsOf(name)[i] \in [op : {"insert"}, stage : Inserted]
  BY <1>1, <1>2 DEF Calling, Run, Create, Call
<1> QED
  BY <1>1, <1>3 DEF Call

LEMMA StepKeepsInsertions == IInv /\ [Next]_vars => Insertions'
<1> SUFFICES ASSUME IInv, [Next]_vars PROVE Insertions'
  OBVIOUS
<1>1. Stored /\ Scripted /\ Insertions /\ graph.nodes \subseteq graph'.nodes
  BY NodesStay DEF IInv, Typed
<1>2. \A name \in applied : InsertsOf(name) \subseteq graph'.nodes
  BY <1>1 DEF Insertions
<1>3. CASE UNCHANGED <<script, applied, edits>>
  BY <1>1, <1>2, <1>3 DEF Insertions, ToCome
<1>4. CASE Ends
  BY <1>2, <1>4 DEF Ends, Insertions
<1>5. CASE Advances
  <2>1. /\ script # NoScript /\ script' # NoScript /\ script'.name = script.name /\ applied' = applied
    BY <1>1, <1>5, CallsToCome DEF Advances
  <2>2. ASSUME NEW s \in InsertsOf(script.name), s \notin graph'.nodes PROVE ToCome("insert", s)'
    <3>1. ToCome("insert", s)
      BY <1>1, <2>1, <2>2 DEF Insertions
    <3>2. ASSUME Head(script.calls) = Call("insert", s) PROVE FALSE
      <4>1. Target = s /\ Head(script.calls).op = "insert"
        BY <3>2 DEF Target, Call
      <4> QED
        BY <1>5, <2>2, <4>1, NodesStay
    <3> QED
      BY <1>1, <1>5, <3>1, <3>2, CallsToCome
  <2> QED
    BY <1>2, <2>1, <2>2 DEF Insertions
<1>6. CASE Starts
  <2>1. script'.name = script.name /\ applied' = applied /\ script # NoScript
    BY <1>1, <1>6 DEF Starts, Scripted
  <2>2. \A s \in InsertsOf(script.name) : s \in graph.nodes
    BY <1>1, <1>6, <2>1, CallsToCome DEF Insertions
  <2> QED
    BY <1>1, <1>2, <2>1, <2>2 DEF Insertions
<1>7. CASE Completes
  <2>1. \A s \in InsertsOf(script.name) : s \in graph.nodes
    BY <1>1, <1>7, CallsToCome DEF Insertions, Completes, InRun
  <2> QED
    BY <1>1, <1>2, <1>7, <2>1 DEF Insertions, Completes
<1>8. CASE Edit
  <2>1. applied' \subseteq applied /\ script' = NoScript
    BY <1>8 DEF Edit
  <2> QED
    BY <1>2, <2>1 DEF Insertions
<1>9. ASSUME NEW name \in Scripts, Invoke(name) PROVE Insertions'
  <2>1. script'.name = name /\ script'.calls = CallsOf(name) /\ applied' = applied
    BY <1>9 DEF Invoke
  <2>2. \A s \in InsertsOf(name) : ToCome("insert", s)'
    BY <1>1, <2>1, InsertionsAreCalls, NamesAreScripts DEF ToCome
  <2> QED
    BY <1>2, <2>1, <2>2 DEF Insertions
<1> QED
  BY <1>3, <1>4, <1>5, <1>6, <1>7, <1>8, <1>9, ScriptMoves

-----------------------------------------------------------------------------
(* Runs at rest *)

(* What a run's outcome depends on. *)
LEMMA OutcomeStays ==
  ASSUME UNCHANGED <<graph, rows>>
  PROVE  Outcome' = Outcome /\ Asleep' = Asleep
<1>1. {rows[s].status : s \in graph.nodes}' = {rows[s].status : s \in graph.nodes}
  OBVIOUS
<1> QED
  BY <1>1 DEF Outcome, Asleep

(* Asking is no answer. *)
LEMMA AskingIsNoAnswer ==
  ASSUME Stored, Asked, NEW s \in Stages, NEW o, Ask(s, o), UNCHANGED rows, NEW t \in Stages, Undecided(t)
  PROVE  Undecided(t)'
<1>1. CASE Verdict(s) # "none"
  <2>1. approvals' = approvals
    BY <1>1 DEF Ask
  <2>2. Requested(t)' = Requested(t)
    BY <2>1 DEF Requested
  <2> QED
    BY <2>2 DEF Undecided, Verdict
<1>2. CASE Verdict(s) = "none"
  <2>1. PICK new : new = [stage |-> s, inc |-> rows[s].inc, status |-> "pending", shown |-> o]
    OBVIOUS
  <2>2. approvals' = approvals \cup {new} /\ new.stage = s /\ new.inc = rows[s].inc /\ new.status = "pending"
    BY <1>2, <2>1 DEF Ask
  <2>3. CASE t # s
    <3>1. Requested(t)' = Requested(t)
      BY <2>2, <2>3 DEF Requested
    <3> QED
      BY <3>1 DEF Undecided, Verdict
  <2>4. CASE t = s
    <3>1. Requested(s) = {}
      BY <1>2, OneVerdict
    <3>2. Requested(s)' = {new}
      BY <2>2, <3>1 DEF Requested
    <3>3. Verdict(s)' = "pending"
      BY <2>2, <3>2 DEF Verdict
    <3> QED
      BY <2>4, <3>3 DEF Undecided
  <2> QED
    BY <2>3, <2>4
<1> QED
  BY <1>1, <1>2

(* Nothing can be done about a run at rest: its blocked stages wait, and   *)
(* its skipped ones have nothing to rest on.                               *)
LEMMA SleepersWait ==
  ASSUME IInv, rested # None, NEW s \in runnable
  PROVE  rows[s].status = "blocked_approval" /\ Undecided(s)
<1>1. /\ Stored /\ Walk /\ Told /\ Rest /\ s \in graph.nodes /\ s \in layer /\ s \in Stages
      /\ IsActionable(rows[s]) /\ Ready(s)
  BY GraphShape DEF IInv, Typed, Walk
<1>2. InRun
  BY <1>1 DEF Walk
<1>3. Undecided(s)
  BY <1>1 DEF Rest, Heard
<1>4. rows[s].status \in {"skipped", "blocked_approval"}
  <2>1. Asleep => layer \subseteq {"requirements"}
    BY <1>1, <1>2 DEF Rest, InRun
  <2> QED
    BY <1>1, <2>1 DEF Rest, Asleep
<1>5. rows[s].status # "skipped"
  <2> SUFFICES ASSUME rows[s].status = "skipped" PROVE FALSE
    OBVIOUS
  <2>1. PICK d \in graph.deps[s] : rows[d].status \in {"failed", "skipped"}
    BY <1>1 DEF Told, ToldOf
  <2> QED
    BY <1>1, <2>1 DEF Ready, BuiltOn, Counts, CutShort
<1> QED
  BY <1>3, <1>4, <1>5

LEMMA SleepingStage ==
  ASSUME IInv, rested # None, NEW s \in Stages, Step(s)
  PROVE  UNCHANGED rows /\ (approvals' = approvals \/ \E o : Ask(s, o))
<1>1. Stored /\ Told /\ s \in runnable
  BY StageOutcomes DEF IInv, Typed
<1>2. rows[s].status = "blocked_approval" /\ Undecided(s)
  BY <1>1, SleepersWait
<1>3. /\ s \in HighImpact
      /\ ExitApproval(s) => ~rows[s].stale /\ rows[s].outputs # Nothing
      /\ EntryApproval(s) => rows[s].stale \/ rows[s].outputs = Nothing
  BY <1>1, <1>2 DEF Told, ToldOf
<1>4. CASE ExitApproval(s)
  <2>1. Waits(rows[s]) /\ ~EntryApproval(s)
    BY <1>2, <1>3, <1>4 DEF Waits, ExitApproval, EntryApproval
  <2>2. Recheck(s)
    BY <2>1 DEF Step, EntryGate, AttemptFails, AttemptSucceeds, Attempt
  <2>3. UNCHANGED <<rows, approvals>>
    BY <1>2, <2>2 DEF Recheck, Undecided
  <2> QED
    BY <2>3
<1>5. CASE EntryApproval(s)
  <2>1. ~Waits(rows[s])
    BY <1>3, <1>5 DEF Waits
  <2>2. EntryGate(s)
    BY <1>2, <1>5, <2>1 DEF Step, Recheck, AttemptFails, AttemptSucceeds, Attempt, Undecided
  <2>3. rows' = [rows EXCEPT ![s].status = "blocked_approval"] /\ Ask(s, Upstream(s))
    BY <1>2, <2>2 DEF EntryGate, Undecided
  <2>4. rows' = rows
    BY <1>1, <1>2, <2>3 DEF Stored, Rows
  <2> QED
    BY <2>3, <2>4
<1> QED
  BY <1>3, <1>4, <1>5 DEF HighImpact

(* What is planned for a run at rest is what was planned before.           *)
LEMMA SleepersStay ==
  ASSUME IInv, rested # None, PlanLayer
  PROVE  rows' = rows /\ (Asleep => layer' \subseteq {"requirements"})
<1>1. Stored /\ Walk /\ Told /\ Rest /\ InRun /\ layer = {} /\ layer' = NextLayer(graph, done)
      /\ graph.nodes \subseteq Stages /\ rows \in [Stages -> Rows]
  BY GraphShape DEF IInv, Typed, PlanLayer, Stored
<1>2. layer' \subseteq graph.nodes /\ \A s \in layer' : graph.deps[s] \subseteq done
  BY <1>1 DEF NextLayer
<1>3. Asleep => layer' \subseteq {"requirements"}
  <2> SUFFICES ASSUME Asleep, NEW s \in layer' PROVE s = "requirements"
    OBVIOUS
  <2>1. done = {}
    BY <1>1 DEF Rest, InRun
  <2>2. s \in Stages /\ s \in graph.nodes /\ graph.deps[s] = {}
    BY <1>1, <1>2, <2>1
  <2>3. DependsOn(s) = {}
    BY <1>1, <2>2, GraphShape
  <2> QED
    BY <2>2, <2>3 DEF DependsOn, Stages
<1> DEFINE skipped == {s \in layer' : /\ IsActionable(rows[s])
                                      /\ \E d \in graph.deps[s] : rows[d].status \in {"failed", "skipped"}}
<1>4. rows' = SkipAll(skipped)
  BY DEF PlanLayer
<1>5. ASSUME NEW s \in skipped PROVE rows[s].status = "skipped"
  <2>1. PICK d \in graph.deps[s] : rows[d].status \in {"failed", "skipped"}
    OBVIOUS
  <2>2. s \in Stages /\ s \in graph.nodes /\ IsActionable(rows[s]) /\ ~Ready(s)
    BY <1>1, <1>2, <2>1 DEF Ready, BuiltOn, Counts, CutShort
  <2>3. s # "requirements"
    <3>1. graph.deps["requirements"] = {}
      BY <1>1, GraphShape DEF DependsOn, Stages
    <3> QED
      BY <2>1, <3>1
  <2>4. rows[s].status \in {"skipped", "blocked_approval"}
    BY <1>1, <1>3, <2>2, <2>3 DEF Rest
  <2>5. rows[s].status # "blocked_approval"
    BY <1>1, <2>2, <2>3 DEF Told, ToldOf, HighImpact, ExitApproval
  <2> QED
    BY <2>4, <2>5
<1> HIDE DEF skipped
<1>6. rows' \in [Stages -> Rows]
  BY <1>1, <1>4, SkipsTyped
<1>7. ASSUME NEW s \in Stages PROVE rows'[s] = rows[s]
  <2>1. CASE s \notin skipped
    BY <1>1, <1>4, <2>1, SkipsTyped
  <2>2. CASE s \in skipped
    <3>1. /\ rows'[s].status = rows[s].status /\ rows'[s].stale = rows[s].stale
          /\ rows'[s].inc = rows[s].inc /\ rows'[s].outputs = rows[s].outputs
      BY <1>1, <1>4, <1>5, <2>2, SkipsTyped
    <3>2. rows[s] \in Rows /\ rows'[s] \in Rows
      BY <1>1, <1>6
    <3> QED
      BY <3>1, <3>2 DEF Rows
  <2> QED
    BY <2>1, <2>2
<1> QED
  BY <1>1, <1>3, <1>6, <1>7

(* A run that has come to an end has nothing to do but wait, unless it has *)
(* heard of a decision.                                                    *)
LEMMA WalkedThrough ==
  ASSUME Stored, Walk, Told, ~Heard, NEW s \in done
  PROVE  IsActionable(rows[s]) => rows[s].status = "skipped"
<1>1. s \in graph.nodes /\ s \in Stages /\ rows[s].status \in Through /\ ToldOf(s)
  BY GraphShape DEF Walk, Told
<1>2. rows[s].status = "failed" => ~rows[s].stale
  BY <1>1 DEF ToldOf, Heard, IsActionable
<1> QED
  BY <1>1, <1>2 DEF IsActionable, Through, Terminal, ToldOf

LEMMA ReleaseIsLast ==
  ASSUME Stored, Walk, "release_readiness" \in layer, NEW s \in graph.nodes \ {"release_readiness"}
  PROVE  s \in done
<1>1. graph.nodes \subseteq Planned /\ s \in Stages /\ \A t \in done \cup layer : graph.deps[t] \subseteq done
      /\ done \subseteq graph.nodes /\ layer \subseteq graph.nodes
  BY GraphShape DEF Stored, Walk
<1>2. \A t \in graph.nodes : graph.deps[t] = DependsOn(t)
  BY GraphShape
<1>3. {"implementation", "test", "documentation"} \subseteq done
  BY <1>1, <1>2 DEF DependsOn
<1>4. "design" \in done
  BY <1>1, <1>2, <1>3 DEF DependsOn
<1>5. "requirements" \in done /\ (scenario = "brownfield" => "codebase_reasoning" \in done)
  <2>1. DependsOn("design") \subseteq done
    BY <1>1, <1>2, <1>4
  <2> QED
    BY <2>1 DEF DependsOn
<1>6. s = "codebase_reasoning" => scenario = "brownfield"
  BY <1>1 DEF Planned
<1> QED
  BY <1>1, <1>3, <1>4, <1>5, <1>6 DEF Stages

LEMMA NothingLeft ==
  ASSUME IInv, InRun, ~Heard, runnable = {}, Blocked \/ done = graph.nodes
  PROVE  Asleep \/ \A s \in graph.nodes : IsActionable(rows[s]) =>
                      rows[s].status \in {"skipped", "blocked_approval"}
<1>1. Stored /\ Walk /\ Told
  BY DEF IInv, Typed
<1>2. CASE done = graph.nodes
  BY <1>1, <1>2, WalkedThrough
<1>3. CASE Blocked /\ ~Asleep
  <2>1. PICK b \in layer : rows[b].status = "blocked_approval"
    BY <1>3 DEF Blocked
  <2>2. b \in Stages /\ b # "requirements" /\ ToldOf(b)
    BY <1>1, <1>3, <2>1, GraphShape DEF Walk, Told, Asleep
  <2>3. b = "release_readiness"
    BY <2>1, <2>2 DEF ToldOf, HighImpact, EntryApproval, ExitApproval
  <2>4. \A s \in graph.nodes \ {b} : s \in done
    BY <1>1, <2>1, <2>3, ReleaseIsLast
  <2> QED
    BY <1>1, <2>1, <2>4, WalkedThrough
<1> QED
  BY <1>2, <1>3

(* How run() ends is what the stages tell.                                 *)
LEMMA EndsAsTold ==
  ASSUME IInv, EndLayer \/ Finalize, script' = NoScript
  PROVE  /\ InRun /\ status' = Outcome /\ status' # "none"
         /\ UNCHANGED <<scenario, graph, rows, approvals>>
         /\ runnable = {} /\ (Blocked \/ done = graph.nodes)
         /\ rested' = IF Heard THEN None
                     ELSE IF rested = None THEN [status |-> status', rows |-> rows, graph |-> graph] ELSE rested
<1>1. Walk
  BY DEF IInv
<1>2. CASE EndLayer
  <2>1. InRun /\ script # NoScript /\ runnable = {}
    BY <1>2 DEF EndLayer, InRun
  <2>2. Blocked /\ Return("paused_approval") /\ UNCHANGED <<scenario, graph, rows, approvals>>
    BY <1>2, <2>1 DEF EndLayer
  <2>3. "blocked_approval" \in {rows[s].status : s \in graph.nodes}
    BY <1>1, <2>2 DEF Blocked, Walk
  <2>4. Outcome = "paused_approval"
    BY <2>3 DEF Outcome
  <2>5. status' = "paused_approval"
    BY <2>2 DEF Return
  <2>6. rested' = IF Heard THEN None
                     ELSE IF rested = None THEN [status |-> status', rows |-> rows, graph |-> graph] ELSE rested
    BY <2>2, <2>5 DEF Return
  <2> QED
    BY <2>1, <2>2, <2>4, <2>5, <2>6
<1>3. CASE Finalize
  <2> DEFINE statuses == {rows[s].status : s \in graph.nodes}
             final == CASE "failed" \in statuses -> "failed"
                        [] statuses \subseteq {"passed", "skipped"} -> "completed"
                        [] OTHER -> "running"
  <2>1. InRun /\ layer = {} /\ done = graph.nodes /\ Return(final) /\ UNCHANGED <<scenario, graph, rows, approvals>>
    BY <1>3 DEF Finalize
  <2>2. runnable = {}
    BY <1>1, <2>1 DEF Walk
  <2>3. "blocked_approval" \notin statuses
    BY <1>1, <2>1 DEF Walk, Through, Terminal
  <2>4. Outcome = final
    BY <2>3 DEF Outcome
  <2>5. final # "none"
    OBVIOUS
  <2> HIDE DEF final
  <2> QED
    BY <2>1, <2>2, <2>4, <2>5 DEF Return
<1> QED
  BY <1>2, <1>3

LEMMA StepKeepsRest == IInv /\ [Next]_vars => Rest'
<1> SUFFICES ASSUME IInv, [Next]_vars, rested' # None PROVE Rest'
  BY DEF Rest
<1>1. Typed /\ Stored /\ Scripted /\ Walk /\ Told /\ Asked /\ Insertions /\ Rest
  BY DEF IInv, Typed
<1>2. ASSUME UNCHANGED <<scenario, graph, rows>>,
             approvals' = approvals \/ \E s \in Stages : \E o : Ask(s, o)
      PROVE  /\ Outcome' = Outcome /\ Asleep' = Asleep /\ (~Heard => ~Heard')
             /\ \A s : IsActionable(rows'[s]) = IsActionable(rows[s])
  <2>1. \A s \in Stages : Undecided(s) => Undecided(s)'
    <3>1. CASE approvals' = approvals
      BY <1>2, <3>1 DEF Undecided, Verdict, Requested
    <3>2. CASE \E s \in Stages : \E o : Ask(s, o)
      BY <1>1, <1>2, <3>2, AskingIsNoAnswer
    <3> QED
      BY <1>2, <3>1, <3>2
  <2>2. \A s : IsActionable(rows'[s]) = IsActionable(rows[s])
    BY <1>2
  <2>3. ~Heard => ~Heard'
    BY <1>1, <1>2, <2>1, <2>2, GraphShape DEF Heard, IsActionable
  <2> QED
    BY <1>2, <2>2, <2>3, OutcomeStays
(* What is left to show when the run stays at rest. *)
<1>3. ASSUME UNCHANGED <<scenario, graph, rows>>, rested' = rested,
             approvals' = approvals \/ \E s \in Stages : \E o : Ask(s, o),
             status' # "none",
             IF script' = NoScript
               THEN status' = Outcome
               ELSE /\ script'.name \in applied' \cap Repeatable
                    /\ \A s \in Stages : /\ ~ToCome("invalidate", s)'
                                         /\ ToCome("insert", s)' => s \in graph.nodes
                    /\ Asleep => done' = {} /\ layer' \subseteq {"requirements"}
      PROVE  Rest'
  <2>1. /\ Outcome' = Outcome /\ Asleep' = Asleep /\ ~Heard' /\ rested # None
        /\ rested' = [status |-> Outcome, rows |-> rows, graph |-> graph]
    BY <1>1, <1>2, <1>3 DEF Rest
  <2>2. Asleep \/ \A s \in graph.nodes : IsActionable(rows[s]) =>
                      rows[s].status \in {"skipped", "blocked_approval"}
    BY <1>1, <2>1 DEF Rest
  <2>3. (Asleep \/ \A s \in graph.nodes : IsActionable(rows[s]) =>
                       rows[s].status \in {"skipped", "blocked_approval"})'
    BY <1>3, <2>1, <2>2 DEF IsActionable
  <2>4. ~NoRun'
    BY <1>3 DEF NoRun
  <2> QED
    BY <1>3, <2>1, <2>3, <2>4 DEF Rest
<1>4. rested # None =>
        /\ status # "none"
        /\ script = NoScript => status = Outcome
        /\ script # NoScript => /\ script.name \in applied \cap Repeatable
                                /\ \A s \in Stages : /\ ~ToCome("invalidate", s)
                                                     /\ ToCome("insert", s) => s \in graph.nodes
                                /\ Asleep => done = {} /\ layer \subseteq {"requirements"}
  BY <1>1 DEF Rest, NoRun
<1>5. ASSUME UNCHANGED <<scenario, graph, rows, status, script, rested, applied, done, layer>>,
             approvals' = approvals \/ \E s \in Stages : \E o : Ask(s, o)
      PROVE  Rest'
  BY <1>3, <1>4, <1>5 DEF ToCome
<1>6. CASE UNCHANGED vars
  BY <1>5, <1>6 DEF vars, storeVars, runVars, history
<1>7. ASSUME NEW name \in Scripts, Invoke(name) PROVE Rest'
  <2>1. /\ script' = [name |-> name, calls |-> CallsOf(name), input |-> None]
        /\ UNCHANGED <<scenario, status, graph, rows, approvals, done, layer, applied>>
        /\ script = NoScript /\ name \in applied \cap Repeatable /\ rested' = rested
    BY <1>7 DEF Invoke, storeVars, runVars
  <2>2. done = {} /\ layer = {}
    BY <1>1, <2>1 DEF Walk, InRun
  <2>3. ASSUME NEW s \in Stages, NEW i \in DOMAIN CallsOf(name) PROVE CallsOf(name)[i] # Call("invalidate", s)
    BY <2>1, <2>3 DEF CallsOf, Repeatable, Call, Run, Create
  <2>4. InsertsOf(name) \subseteq graph.nodes
    BY <1>1, <2>1 DEF Insertions
  <2>5. ASSUME NEW s \in Stages, NEW i \in DOMAIN CallsOf(name), CallsOf(name)[i] = Call("insert", s)
        PROVE  s \in graph.nodes
    <3>1. s \in InsertsOf(name)
      BY <2>5 DEF InsertsOf, Call
    <3> QED
      BY <2>4, <3>1
  <2>6. script'.name = name /\ script'.calls = CallsOf(name)
    BY <2>1
  <2>7. \A s \in Stages : ~ToCome("invalidate", s)' /\ (ToCome("insert", s)' => s \in graph.nodes)
    BY <2>3, <2>5, <2>6 DEF ToCome
  <2>8. script' # NoScript
    BY <1>1, <2>1, NamesAreScripts DEF NoScript
  <2>9. status' # "none"
    BY <1>4, <2>1
  <2> QED
    BY <1>3, <2>1, <2>2, <2>6, <2>7, <2>8, <2>9
<1>8. CASE CreateRun \/ InsertStage \/ InvalidateDownstream
  <2>1. /\ script # NoScript /\ script.calls # <<>> /\ Head(script.calls).op # "run" /\ rested' = rested
        /\ UNCHANGED <<scenario, approvals, done, layer, applied, edits>>
    BY <1>8, CallsDo DEF runVars, history, outerVars
  <2>2. Head(script.calls) \in Calling /\ Head(script.calls) = script.calls[1] /\ 1 \in DOMAIN script.calls
    BY <1>1, <2>1, NextCall
  <2>3. \A s \in Stages : ~ToCome("invalidate", s) /\ (ToCome("insert", s) => s \in graph.nodes)
    BY <1>4, <2>1
  <2>4. Head(script.calls).op # "invalidate"
    <3> SUFFICES ASSUME Head(script.calls).op = "invalidate" PROVE FALSE
      OBVIOUS
    <3>1. Head(script.calls) \in [op : {"invalidate"}, stage : Stages]
      BY <2>2 DEF Calling, Run, Create, Call
    <3>2. Head(script.calls) = Call("invalidate", Head(script.calls).stage)
      BY <3>1 DEF Call
    <3> QED
      BY <2>2, <2>3, <3>1, <3>2 DEF ToCome
  <2>5. Head(script.calls).op = "insert" => Target \in graph.nodes
    <3> SUFFICES ASSUME Head(script.calls).op = "insert" PROVE Target \in graph.nodes
      OBVIOUS
    <3>1. Head(script.calls) \in [op : {"insert"}, stage : Inserted]
      BY <2>2 DEF Calling, Run, Create, Call
    <3>2. Head(script.calls) = Call("insert", Target) /\ Target \in Stages
      BY <3>1 DEF Call, Target, Inserted, Stages
    <3> QED
      BY <2>2, <2>3, <3>2 DEF ToCome
  <2>6. StoreStays /\ Proceed
    <3>1. ~NoRun
      BY <1>4, <2>1 DEF NoRun
    <3>2. CASE CreateRun
      BY <2>1, <3>1, <3>2 DEF CreateRun, Missing, StoreStays
    <3>3. CASE InsertStage
      <4>1. Head(script.calls).op = "insert"
        BY <3>3 DEF InsertStage, Comes
      <4> QED
        BY <2>1, <2>5, <3>3, <4>1 DEF InsertStage, StoreStays
    <3>4. ~InvalidateDownstream
      BY <2>4 DEF InvalidateDownstream, Comes
    <3> QED
      BY <1>8, <3>2, <3>3, <3>4
  <2>7. Advances
    BY <1>8, <2>1, <2>6 DEF Advances
  <2>8. script' # NoScript /\ script'.name = script.name
    BY <1>1, <2>7, CallsToCome
  <2>9. \A s \in Stages : ~ToCome("invalidate", s)' /\ (ToCome("insert", s)' => s \in graph.nodes)
    BY <1>1, <2>3, <2>7, CallsToCome
  <2> QED
    BY <1>3, <1>4, <2>1, <2>6, <2>8, <2>9 DEF StoreStays
<1>9. CASE BuildExecutor
  <2>1. /\ script # NoScript /\ script.calls # <<>> /\ status # "none" /\ rested' = rested
        /\ UNCHANGED <<scenario, approvals, done, layer, applied, graph, rows>>
        /\ script' = [script EXCEPT !.calls = <<>>, !.input = ScenarioInput(script.name)]
        /\ status' \in {status, "running"}
    BY <1>4, <1>9 DEF BuildExecutor, Calls, Comes, NoRun, runVars, history
  <2>2. script'.name = script.name /\ script'.calls = <<>>
    BY <1>1, <2>1 DEF Scripted
  <2>3. script' # NoScript
    BY <1>1, <2>1, <2>2, NamesAreScripts DEF NoScript, Scripted
  <2>4. \A s \in Stages : ~ToCome("invalidate", s)' /\ ~ToCome("insert", s)'
    BY <2>2 DEF ToCome
  <2>5. status' # "none"
    BY <2>1
  <2> QED
    BY <1>3, <1>4, <2>1, <2>2, <2>3, <2>4, <2>5
<1>10. CASE PlanLayer
  <2>1. /\ UNCHANGED <<scenario, graph, status, approvals, done, script, rested, applied>>
        /\ rested # None /\ script # NoScript
    BY <1>10 DEF PlanLayer, history, InRun
  <2>2. rows' = rows /\ (Asleep => layer' \subseteq {"requirements"})
    BY <1>10, <2>1, SleepersStay
  <2>3. script.name \in applied \cap Repeatable /\ (Asleep => done = {}) /\ status # "none"
    BY <1>4, <2>1
  <2>4. \A s \in Stages : ~ToCome("invalidate", s)' /\ (ToCome("insert", s)' => s \in graph.nodes)
    BY <1>4, <2>1 DEF ToCome
  <2> QED
    BY <1>3, <2>1, <2>2, <2>3, <2>4
<1>11. ASSUME NEW s \in Stages, Step(s) PROVE Rest'
  <2>1. UNCHANGED <<scenario, status, graph, done, layer, script, rested, applied>>
    BY <1>11, StageOutcomes DEF history
  <2>2. UNCHANGED rows /\ (approvals' = approvals \/ \E o : Ask(s, o))
    BY <1>11, <2>1, SleepingStage
  <2> QED
    BY <1>5, <2>1, <2>2
<1>12. CASE (EndLayer \/ Finalize) /\ script' = NoScript
  <2>1. /\ InRun /\ status' = Outcome /\ status' # "none"
        /\ UNCHANGED <<scenario, graph, rows, approvals>>
        /\ runnable = {} /\ (Blocked \/ done = graph.nodes)
        /\ rested' = IF Heard THEN None
                     ELSE IF rested = None THEN [status |-> status', rows |-> rows, graph |-> graph] ELSE rested
    BY <1>12, EndsAsTold
  <2>2. ~Heard
    BY <2>1
  <2>3. CASE rested # None
    <3>1. rested' = rested
      BY <2>1, <2>2, <2>3
    <3> QED
      BY <1>3, <1>12, <2>1, <3>1
  <2>4. CASE rested = None
    <3>1. rested' = [status |-> Outcome, rows |-> rows, graph |-> graph]
      BY <2>1, <2>2, <2>4
    <3>2. Asleep \/ \A s \in graph.nodes : IsActionable(rows[s]) =>
                        rows[s].status \in {"skipped", "blocked_approval"}
      BY <2>1, <2>2, NothingLeft
    <3>3. Outcome' = Outcome /\ Asleep' = Asleep /\ ~Heard'
      BY <1>2, <2>1, <2>2
    <3>4. (Asleep \/ \A s \in graph.nodes : IsActionable(rows[s]) =>
                         rows[s].status \in {"skipped", "blocked_approval"})'
      BY <2>1, <3>2, <3>3 DEF IsActionable
    <3>5. ~NoRun'
      BY <2>1 DEF NoRun
    <3> QED
      BY <1>12, <2>1, <3>1, <3>3, <3>4, <3>5 DEF Rest
  <2> QED
    BY <2>3, <2>4
<1>13. CASE (EndLayer \/ Finalize) /\ script' # NoScript
  <2>1. /\ EndLayer /\ ~Blocked /\ layer # {} /\ script # NoScript
        /\ UNCHANGED <<scenario, graph, rows, approvals, status, script, rested, applied>>
        /\ done' = done \cup layer /\ layer' = {}
    BY <1>13 DEF EndLayer, Finalize, Return, InRun, history
  <2>2. ~Asleep
    BY <1>4, <2>1 DEF Asleep, Blocked
  <2> QED
    BY <1>3, <1>4, <2>1, <2>2 DEF ToCome
<1>14. CASE Edit
  <2>1. UNCHANGED <<scenario, graph, rows, approvals, status, rested>> /\ script = NoScript /\ script' = NoScript
    BY <1>14 DEF Edit, storeVars
  <2> QED
    BY <1>3, <1>4, <2>1
<1>15. ~Dying /\ ~\E a \in approvals, verdict \in {"approved", "rejected"} : Decide(a, verdict)
  BY DyingLeaves DEF Decide
<1> QED
  BY <1>6, <1>7, <1>8, <1>9, <1>10, <1>11, <1>12, <1>13, <1>14, <1>15 DEF Next, Step, Dying

-----------------------------------------------------------------------------
(* The invariants *)

LEMMA InitIsGood == Init => IInv
<1> SUFFICES ASSUME Init PROVE IInv
  OBVIOUS
<1>1. /\ graph = GraphOf({}) /\ graph.nodes = {} /\ \A s \in Stages : graph.deps[s] = {}
  BY DEF Init, GraphOf
<1>2. \A s \in Stages : rows[s] = NoRow
  BY DEF Init, RowsOf, GraphOf
<1>3. NoRow \in Rows /\ NoRow.status = "none" /\ NoRow.stale = FALSE /\ NoRow.outputs = Nothing
  <2>1. Nothing \in Outputs
    BY DEF Nothing, Outputs
  <2>2. NewRow \in Rows /\ NewRow.stale = FALSE /\ NewRow.outputs = Nothing
    BY <2>1 DEF NewRow, Rows
  <2> QED
    BY <2>2 DEF NoRow, Rows
<1>4. script = NoScript /\ ~InRun /\ NoRun
  BY DEF Init, InRun, NoRun
<1>5. \A s \in Stages : ~Counts(s)
  BY <1>2, <1>3 DEF Counts
<1>6. Stored
  <2>1. rows = [s \in Stages |-> NoRow]
    BY DEF Init, RowsOf, GraphOf
  <2>2. rows \in [Stages -> Rows]
    BY <1>3, <2>1
  <2>3. scenario \in {"greenfield", "brownfield", "ambiguous"}
    BY ScenariosAssumption DEF Init
  <2> QED
    BY <1>1, <1>2, <2>2, <2>3 DEF Init, Stored
<1>7. Scripted
  BY <1>4 DEF Scripted, NoScript
<1>8. Walk
  BY <1>4 DEF Init, Walk
<1>9. Told
  <2>1. \A s \in Stages : ToldOf(s)
    BY <1>2, <1>3 DEF ToldOf
  <2> QED
    BY <2>1 DEF Init, Told
<1>10. Remembered
  <2>1. left = [attempts |-> {}, requests |-> {}]
    BY DEF Init
  <2>2. left \in Leftovers
    BY <2>1 DEF Leftovers
  <2> QED
    BY <1>2, <1>3, <2>2 DEF Remembered, CutShort
<1>11. Asked /\ SignedByPeople /\ PassesAreCurrent /\ Revisions /\ Insertions /\ Rest
  BY <1>4, <1>5 DEF Init, Asked, SignedByPeople, HighImpact, PassesAreCurrent, Revisions, Stages, Insertions, Rest
<1>12. NothingUnsigned
  BY <1>2, <1>3 DEF NothingUnsigned, Nothing
<1> QED
  BY <1>6, <1>7, <1>8, <1>9, <1>10, <1>11, <1>12 DEF IInv, Typed

LEMMA IInvHolds == Spec => []IInv
<1>1. IInv /\ [Next]_vars => IInv'
  BY StepKeepsStored, StepKeepsScripted, StepKeepsWalk, StepKeepsTold, StepKeepsAsked, StepKeepsPasses,
     StepKeepsRemembered, StepKeepsSignatures, StepKeepsUnsigned, StepKeepsRevisions, StepKeepsInsertions, StepKeepsRest
     DEF IInv, Typed
<1> QED
  BY InitIsGood, <1>1, PTL DEF Spec

(* Whatever scripts come, and wherever they die - between calls, between   *)
(* stages, amid attempts, between a request and its block - a high-impact  *)
(* stage counts only if a person has approved what it is now: its request  *)
(* shows it, and is over when the stage starts anew.  The exception is the *)
(* stage whose request a dying script left unblocked (executor.py:250-252).*)
THEOREM SignedByPeopleAlways == Spec => []SignedByPeople
<1>1. IInv => SignedByPeople
  BY DEF IInv
<1> QED
  BY IInvHolds, <1>1, PTL

(* In the ambiguous scenario nothing is ever made, in attempts that end or *)
(* in such as are cut short, from an interpretation that no person has     *)
(* signed off, unless it is one that a script has left by dying within the *)
(* attempt of requirements (executor.py:376), which design then skips over *)
(* (executor.py:213-225).                                                  *)
THEOREM NothingUnsignedAlways == Spec => []NothingUnsigned
<1>1. IInv => NothingUnsigned
  BY DEF IInv
<1> QED
  BY IInvHolds, <1>1, PTL

(* What counts as passed rests on stages that count, or whose attempt was  *)
(* cut short by the death of a script, and on all that these have made:    *)
(* through every insertion, invalidation, failure and death, wherever it   *)
(* strikes.                                                                *)
THEOREM PassesAreCurrentAlways == Spec => []PassesAreCurrent
<1>1. IInv => PassesAreCurrent
  BY DEF IInv
<1> QED
  BY IInvHolds, <1>1, PTL

(* However often the scripts that revise come, die and are repeated: once  *)
(* one has come to its end, a completed run is made of the files as they   *)
(* are.                                                                    *)
THEOREM RevisionsAreInAlways == Spec => []RevisionsAreIn
  BY IInvHolds, RevisionsComplete, PTL

(* A script that may be repeated leaves a run at rest as it found it, from *)
(* whichever rest, as long as nobody has decided anything since.           *)
THEOREM RepeatingIsHarmlessAlways == Spec => []RepeatingIsHarmless
<1>1. IInv => RepeatingIsHarmless
  BY DEF IInv, Rest, RepeatingIsHarmless
<1> QED
  BY IInvHolds, <1>1, PTL
=============================================================================
