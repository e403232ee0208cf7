--------------------------- MODULE ExecutorProofs ---------------------------
(***************************************************************************)
(* Machine-checked proofs about Executor, for every graph, every set of    *)
(* gates, every retry policy and every bound: its invariants, that it      *)
(* implements RunLifecycle, step by step, as long as operators leave run() *)
(* alone, nothing is inserted and the process lives, and what failures     *)
(* leave behind.                                                           *)
(***************************************************************************)
EXTENDS RunRefinement, TLAPS

-----------------------------------------------------------------------------
(* Typing *)

(* The initial state is well typed. *)
LEMMA InitTyped == Init => TypeOK
  BY GatesAssumption, GraphAssumption, BoundsAssumption, SMTT(30)
  DEF Init, TypeOK, NewStage, NoThread, StageStates, StageStatuses, RunStatuses,
      RunPlaces, ThreadPlaces, Places, Incarnations

(* Setting a stage aside yields a stage state. *)
LEMMA ResetTyped ==
  ASSUME NEW state \in StageStates, NEW to \in StageStatuses,
         state.inc < MaxIncarnation
  PROVE  Reset(state, to) \in StageStates
<1>1. state.inc + 1 \in Incarnations
  BY BoundsAssumption DEF StageStates, Incarnations
<1> QED
  BY <1>1 DEF Reset, StageStates

(* The updates a thread makes to its locals. *)
LEMMA LocalsTyped ==
  ASSUME NEW local \in Places, NEW place \in ThreadPlaces
  PROVE  /\ [local EXCEPT !.pc = place] \in Places
         /\ \A i \in Incarnations : [local EXCEPT !.pc = place, !.inc = i] \in Places
         /\ \A n \in Nat \ {0} : [local EXCEPT !.pc = place, !.gate = n] \in Places
         /\ \A n \in Nat \ {0} : [local EXCEPT !.gate = n] \in Places
         /\ \A n \in Nat : [local EXCEPT !.pc = place, !.attempt = n] \in Places
         /\ [local EXCEPT !.pc = place, !.fallback = TRUE] \in Places
         /\ \A S \in SUBSET Stages : [local EXCEPT !.pc = place, !.skips = S] \in Places
         /\ \A S \in SUBSET Stages : [local EXCEPT !.skips = S] \in Places
  BY DEF Places

(* The updates the executor makes to a stage state. *)
LEMMA StateTyped ==
  ASSUME NEW state \in StageStates, NEW new \in StageStatuses
  PROVE  /\ [state EXCEPT !.status = new] \in StageStates
         /\ \A n \in Nat : [state EXCEPT !.status = new, !.attempts = n] \in StageStates
         /\ \A n \in Nat : [state EXCEPT !.status = new, !.attempts = n, !.stale = FALSE]
                                \in StageStates
         /\ \A x \in BOOLEAN : [state EXCEPT !.arts = x] \in StageStates
  BY DEF StageStates

(* A thread that does not exist has well typed locals. *)
LEMMA NoThreadTyped == NoThread \in Places
  BY BoundsAssumption DEF NoThread, Places, ThreadPlaces, Incarnations

(* A step of a thread writes its own locals and one stage state. *)
LEMMA WriteTyped ==
  ASSUME TypeOK, NEW s \in Stages, NEW d \in Stages,
         NEW local \in Places, NEW state \in StageStates,
         th' = [th EXCEPT ![s] = local],
         st' = [st EXCEPT ![d] = state] \/ st' = st,
         UNCHANGED <<approvals, granted, ThreadVars>>
  PROVE  TypeOK'
  BY DEF TypeOK, ThreadVars, runVars

(* A step of run() keeps the types. *)
LEMMA RunTyped == TypeOK /\ (CallRun \/ RunStep) => TypeOK'
<1> SUFFICES ASSUME TypeOK, CallRun \/ RunStep PROVE TypeOK'
  OBVIOUS
<1> USE DEF TypeOK, storeVars, runVars
<1>1. CASE CallRun
  BY <1>1 DEF CallRun, RunPlaces
<1>2. CASE Unpause
  BY <1>2 DEF Unpause, RunPlaces, RunStatuses
<1>3. CASE StartLayer
  <2>1. NextLayer(mem, done) \subseteq Stages
    BY DEF NextLayer, Graphs
  <2> QED
    BY <1>3, <2>1 DEF StartLayer, Return, RunPlaces, RunStatuses
<1>4. CASE PlanLayer
  BY <1>4 DEF PlanLayer, RunPlaces
<1>5. CASE Submit
  <2>1. [NoThread EXCEPT !.pc = "start"] \in Places
    BY NoThreadTyped, LocalsTyped DEF ThreadPlaces
  <2> QED
    BY <1>5, <2>1 DEF Submit, RunPlaces
<1>6. CASE Join
  BY <1>6 DEF Join, Return, LayerDone, RunPlaces, RunStatuses
<1>7. CASE Pause
  BY <1>7 DEF Pause, RunPlaces, RunStatuses
<1>8. CASE Reload
  BY <1>8 DEF Reload, Return, LayerDone, RunPlaces, RunStatuses
<1>9. CASE Finalize
  BY <1>9 DEF Finalize, RunPlaces, RunStatuses
<1>10. CASE Finish
  BY <1>10 DEF Finish, Return, RunPlaces, RunStatuses
<1>11. ASSUME NEW s \in Stages, SkipBlocked(s) PROVE TypeOK'
  BY <1>11 DEF SkipBlocked, Skipped, StageStates, StageStatuses
<1> QED
  BY <1>1, <1>2, <1>3, <1>4, <1>5, <1>6, <1>7, <1>8, <1>9, <1>10, <1>11 DEF RunStep

(* A step of a stage thread keeps the types. *)
LEMMA ThreadTyped ==
  ASSUME TypeOK, NEW s \in Stages, ThreadStep(s)
  PROVE  TypeOK'
<1>0. /\ th \in [Stages -> Places] /\ th[s] \in Places
      /\ st \in [Stages -> StageStates] /\ st[s] \in StageStates
      /\ NoThread \in Places
  BY NoThreadTyped DEF TypeOK
<1>1. CASE StartThread(s)
  <2>1. st[s].inc \in Incarnations
    BY <1>0 DEF StageStates
  <2>2. \A place \in ThreadPlaces :
          [NoThread EXCEPT !.pc = place, !.inc = st[s].inc] \in Places
    BY <1>0, <2>1, LocalsTyped
  <2>3. PICK place \in ThreadPlaces :
          th' = [th EXCEPT ![s] = [NoThread EXCEPT !.pc = place, !.inc = st[s].inc]]
    BY <1>1 DEF StartThread, ThreadPlaces
  <2> QED
    BY <1>0, <1>1, <2>2, <2>3, WriteTyped DEF StartThread
<1>2. CASE CheckApproval(s)
  <2>1. WhenBlocked(s) \in Places /\ WhenRejected(s) \in Places
    BY <1>0, LocalsTyped DEF WhenBlocked, WhenRejected, ThreadPlaces
  <2>2. [th[s] EXCEPT !.gate = @ + 1] \in Places
    BY <1>0 DEF Places
  <2>3. th' \in [Stages -> Places]
    BY <1>0, <1>2, <2>1, <2>2 DEF CheckApproval
  <2>4. Gate(s) \in Gates /\ RequestOf(s) \in Incarnations
    BY <1>0, <1>2, GatesAssumption DEF CheckApproval, RequestOf, Places
  <2>5. approvals' \in [Stages -> [Gates -> [Incarnations ->
                          {"none", "pending", "approved", "rejected"}]]]
    BY <1>2, <2>4 DEF CheckApproval, TypeOK
  <2> QED
    BY <1>2, <2>3, <2>5 DEF CheckApproval, TypeOK, ThreadVars, runVars
<1>3. CASE CheckPolicy(s)
  <2>1. WhenRejected(s) \in Places
    BY <1>0, LocalsTyped DEF WhenRejected, ThreadPlaces
  <2>2. [th[s] EXCEPT !.gate = @ + 1] \in Places
    BY <1>0 DEF Places
  <2> QED
    BY <1>0, <1>3, <2>1, <2>2, WriteTyped DEF CheckPolicy
<1>4. CASE Block(s)
  <2>1. [st[s] EXCEPT !.status = "blocked_approval"] \in StageStates
    BY <1>0, StateTyped DEF StageStatuses
  <2> QED
    BY <1>0, <1>4, <2>1, WriteTyped DEF Block, Exit
<1>5. CASE Enter(s)
  <2>1. AttemptsSoFar(st[s]) \in Nat
    BY <1>0 DEF AttemptsSoFar, StageStates
  <2>2. [th[s] EXCEPT !.pc = "begin", !.attempt = AttemptsSoFar(st[s])] \in Places
    BY <1>0, <2>1, LocalsTyped DEF ThreadPlaces
  <2> QED
    BY <1>0, <1>5, <2>2, WriteTyped DEF Enter
<1>6. CASE BeginAttempt(s)
  <2> DEFINE n == th[s].attempt + 1
             new == IF n = 1 THEN "running" ELSE "retrying"
  <2>1. n \in Nat /\ new \in StageStatuses
    BY <1>0 DEF Places, StageStatuses
  <2>2. [st[s] EXCEPT !.status = new, !.attempts = n, !.stale = FALSE] \in StageStates
    BY <1>0, <2>1, StateTyped
  <2>3. [th[s] EXCEPT !.pc = "agent", !.attempt = n] \in Places
    BY <1>0, <2>1, LocalsTyped DEF ThreadPlaces
  <2> QED
    BY <1>0, <1>6, <2>2, <2>3, WriteTyped DEF BeginAttempt
<1>7. CASE AgentFails(s)
  <2>1. [th[s] EXCEPT !.pc = "attempt_failed"] \in Places
    BY <1>0, LocalsTyped DEF ThreadPlaces
  <2> QED
    BY <1>0, <1>7, <2>1, WriteTyped DEF AgentFails, Goto
<1>8. CASE AgentSucceeds(s)
  <2>1. PICK some \in BOOLEAN : st' = [st EXCEPT ![s].arts = @ \/ some]
    BY <1>8 DEF AgentSucceeds
  <2>2. (st[s].arts \/ some) \in BOOLEAN
    OBVIOUS
  <2>3. [st[s] EXCEPT !.arts = @ \/ some] \in StageStates
    BY <1>0, <2>2, StateTyped DEF StageStatuses
  <2>4. [th[s] EXCEPT !.pc = "exit", !.gate = 1] \in Places
    <3>1. 1 \in Nat \ {0}
      OBVIOUS
    <3> QED
      BY <1>0, <3>1, LocalsTyped DEF ThreadPlaces
  <2> QED
    BY <1>0, <1>8, <2>1, <2>3, <2>4, WriteTyped DEF AgentSucceeds
<1>9. CASE Accept(s)
  <2>1. [th[s] EXCEPT !.pc = "pass"] \in Places
    BY <1>0, LocalsTyped DEF ThreadPlaces
  <2> QED
    BY <1>0, <1>9, <2>1, WriteTyped DEF Accept, Goto
<1>10. CASE PassStage(s)
  <2>1. [st[s] EXCEPT !.status = "passed"] \in StageStates
    BY <1>0, StateTyped DEF StageStatuses
  <2> QED
    BY <1>0, <1>10, <2>1, WriteTyped DEF PassStage, Exit
<1>11. CASE RetryStage(s)
  <2>1. th[s].attempt \in Nat
    BY <1>0 DEF Places
  <2>2. [st[s] EXCEPT !.status = "retrying", !.attempts = th[s].attempt] \in StageStates
    BY <1>0, <2>1, StateTyped DEF StageStatuses
  <2>3. [th[s] EXCEPT !.pc = "begin"] \in Places
    BY <1>0, LocalsTyped DEF ThreadPlaces
  <2> QED
    BY <1>0, <1>11, <2>2, <2>3, WriteTyped DEF RetryStage, Goto
<1>12. CASE InvokeFallback(s)
  <2>1. [th[s] EXCEPT !.pc = "begin", !.fallback = TRUE] \in Places
    BY <1>0, LocalsTyped DEF ThreadPlaces
  <2> QED
    BY <1>0, <1>12, <2>1, WriteTyped DEF InvokeFallback
<1>13. CASE GiveUp(s)
  <2>1. [th[s] EXCEPT !.pc = "fail"] \in Places
    BY <1>0, LocalsTyped DEF ThreadPlaces
  <2> QED
    BY <1>0, <1>13, <2>1, WriteTyped DEF GiveUp, Goto
<1>14. CASE FailStage(s)
  <2>1. [st[s] EXCEPT !.status = "failed"] \in StageStates
    BY <1>0, StateTyped DEF StageStatuses
  <2>2. [th[s] EXCEPT !.pc = "propagate"] \in Places
    BY <1>0, LocalsTyped DEF ThreadPlaces
  <2> QED
    BY <1>0, <1>14, <2>1, <2>2, WriteTyped DEF FailStage, Goto
<1>15. CASE Propagate(s)
  <2> DEFINE hit == {d \in DownstreamOf(mem, s) : st[d].status \notin Terminal}
  <2>1. hit \in SUBSET Stages
    BY DEF DownstreamOf, Graphs, TypeOK
  <2>2. [th[s] EXCEPT !.pc = "skip", !.skips = hit] \in Places
    BY <1>0, <2>1, LocalsTyped DEF ThreadPlaces
  <2> QED
    BY <1>0, <1>15, <2>2, WriteTyped DEF Propagate
<1>16. CASE Propagated(s)
  BY <1>0, <1>16, WriteTyped DEF Propagated, Exit
<1>17. ASSUME NEW d \in Stages, SkipDownstream(s, d) PROVE TypeOK'
  <2>1. th[s].skips \ {d} \in SUBSET Stages
    BY <1>0 DEF Places
  <2>2. [th[s] EXCEPT !.skips = @ \ {d}] \in Places
    BY <1>0, <2>1, LocalsTyped DEF ThreadPlaces
  <2>3. Skipped(st[d]) \in StageStates
    BY <1>0, StateTyped DEF Skipped, StageStatuses
  <2> QED
    BY <1>0, <1>17, <2>2, <2>3, WriteTyped DEF SkipDownstream
<1> QED
  BY <1>1, <1>2, <1>3, <1>4, <1>5, <1>6, <1>7, <1>8, <1>9, <1>10, <1>11, <1>12,
     <1>13, <1>14, <1>15, <1>16, <1>17 DEF ThreadStep

(* What people and other processes do keeps the types. *)
LEMMA OperatorTyped == TypeOK /\ OperatorStep => TypeOK'
<1> SUFFICES ASSUME TypeOK, OperatorStep PROVE TypeOK'
  OBVIOUS
<1> USE DEF TypeOK, storeVars, runVars
<1>1. CASE RequestSafeStop
  BY <1>1 DEF RequestSafeStop, Operate, RunStatuses
<1>2. CASE ResumeFromSafeStop
  BY <1>2 DEF ResumeFromSafeStop, Operate, RunStatuses
<1>3. CASE Crash
  <2>1. NoThread \in Places
    BY BoundsAssumption DEF NoThread, Places, ThreadPlaces, Incarnations
  <2> QED
    BY <1>3, <2>1, GraphAssumption DEF Crash, Operate, Return, RunPlaces, RunStatuses
<1>4. CASE Restart
  BY <1>4, GraphAssumption DEF Restart, Operate
<1>5. CASE Decide
  <2>1. PICK s \in Stages, g \in ApprovalGates, i \in Incarnations,
             decision \in {"approved", "rejected"} : Resolve(s, g, i, decision)
    BY <1>5 DEF Decide
  <2>2. g \in Gates
    BY GatesAssumption
  <2>3. approvals' \in [Stages -> [Gates -> [Incarnations ->
                          {"none", "pending", "approved", "rejected"}]]]
    BY <2>1, <2>2 DEF Resolve
  <2>4. granted' \subseteq Stages \X Gates \X Incarnations
    BY <2>1, <2>2 DEF Resolve
  <2> QED
    BY <2>1, <2>3, <2>4 DEF Resolve
<1>6. ASSUME NEW s \in Stages, Rollback(s) PROVE TypeOK'
  <2>1. \A d \in Affected(mem, s) \cup {s} :
           st[d].inc < MaxIncarnation
    BY <1>6 DEF Rollback, CanReset
  <2>2. \A d \in Stages : st'[d] \in StageStates
    <3> SUFFICES ASSUME NEW d \in Stages PROVE st'[d] \in StageStates
      OBVIOUS
    <3>1. CASE d = s
      BY <1>6, <2>1, <3>1, ResetTyped DEF Rollback, StageStatuses
    <3>2. CASE d # s /\ d \in Affected(mem, s)
      BY <1>6, <2>1, <3>2, ResetTyped DEF Rollback, StageStatuses
    <3>3. CASE d # s /\ d \notin Affected(mem, s)
      BY <1>6, <3>3 DEF Rollback
    <3> QED
      BY <3>1, <3>2, <3>3
  <2>3. st' \in [Stages -> StageStates]
    BY <1>6, <2>2 DEF Rollback
  <2> QED
    BY <1>6, <2>3 DEF Rollback, Reopened, Operate, RunStatuses
<1>7. ASSUME NEW s \in Stages, Invalidate(s) PROVE TypeOK'
  <2>1. \A d \in Affected(graph, s) \cup {s} : st[d].inc < MaxIncarnation
    BY <1>7 DEF Invalidate, CanReset
  <2>2. \A d \in Stages : st'[d] \in StageStates
    BY <1>7, <2>1, ResetTyped DEF Invalidate, StageStatuses
  <2>3. st' \in [Stages -> StageStates]
    BY <1>7, <2>2 DEF Invalidate
  <2> QED
    BY <1>7, <2>3 DEF Invalidate, Reopened, Operate, RunStatuses
<1>8. ASSUME NEW new \in Insertions, InsertStage(new) PROVE TypeOK'
  <2> DEFINE larger == WithStage(graph, new.stage, new.ups, new.befores)
             reset == {d \in new.befores : st[d].status # "pending"}
  <2>0. new \in [stage : Stages, ups : SUBSET Stages, befores : SUBSET Stages]
    BY InsertionsAssumption
  <2>1. larger \in Graphs
    BY <2>0 DEF WithStage, Graphs
  <2>2. NewStage \in StageStates
    BY BoundsAssumption DEF NewStage, StageStates, StageStatuses, Incarnations
  <2>3. \A d \in reset : st[d].inc < MaxIncarnation
    BY <1>8 DEF InsertStage, CanReset
  <2>4. \A d \in Stages : st'[d] \in StageStates
    BY <1>8, <2>2, <2>3, ResetTyped DEF InsertStage, StageStatuses
  <2>5. st' \in [Stages -> StageStates]
    BY <1>8, <2>4 DEF InsertStage
  <2> QED
    BY <1>8, <2>1, <2>5 DEF InsertStage, Reopened, Operate, RunStatuses
<1> QED
  BY <1>1, <1>2, <1>3, <1>4, <1>5, <1>6, <1>7, <1>8 DEF OperatorStep

(* Every reachable state is well typed. *)
THEOREM TypeCorrect == Spec => []TypeOK
<1>1. TypeOK /\ [Next]_vars => TypeOK'
  <2> SUFFICES ASSUME TypeOK, [Next]_vars PROVE TypeOK'
    OBVIOUS
  <2>1. CASE CallRun \/ RunStep
    BY <2>1, RunTyped
  <2>2. ASSUME NEW s \in Stages, ThreadStep(s) PROVE TypeOK'
    BY <2>2, ThreadTyped
  <2>3. CASE OperatorStep
    BY <2>3, OperatorTyped
  <2>4. CASE UNCHANGED vars
    BY <2>4 DEF TypeOK, vars, storeVars, runVars
  <2> QED
    BY <2>1, <2>2, <2>3, <2>4 DEF Next
<1> QED
  BY InitTyped, <1>1, PTL DEF Spec

-----------------------------------------------------------------------------
(* The walk over the graph *)

(* What depends on a stage of the layer is in no layer reached so far.     *)
LEMMA DownstreamBeyond ==
  ASSUME NEW g \in Graphs, NEW D \in SUBSET Stages, NEW L \in SUBSET Stages, NEW s \in L,
         \A t \in D \cup L : g.deps[t] \subseteq D,
         D \cap L = {}
  PROVE  DownstreamOf(g, s) \cap (D \cup L) = {}
<1> DEFINE beyond == g.nodes \ (D \cup L)
<1>1. ClosedUnder(g, s, beyond)
  <2> SUFFICES ASSUME NEW t \in g.nodes, g.deps[t] \cap (beyond \cup {s}) # {}
               PROVE  t \in beyond
    BY DEF ClosedUnder, Dependents
  <2> QED
    OBVIOUS
<1> QED
  BY <1>1 DEF DownstreamOf

(* A step of run() keeps the walk. *)
LEMMA RunWalks == TypeOK /\ Walk /\ (CallRun \/ RunStep) => Walk'
<1> SUFFICES ASSUME TypeOK, Walk, CallRun \/ RunStep PROVE Walk'
  OBVIOUS
<1>0. /\ th \in [Stages -> Places]
      /\ done \subseteq Stages /\ layer \subseteq Stages
      /\ pc \in RunPlaces
  BY DEF TypeOK
<1>a. ASSUME Return, UNCHANGED <<mem, th>>, \A s \in Stages : th[s].pc = "none" PROVE Walk'
  BY <1>a DEF Walk, Return
<1>b. ASSUME LayerDone, UNCHANGED <<mem, th>>, \A s \in Stages : th[s].pc = "none",
             skipping = {}
      PROVE  Walk'
  BY <1>b DEF Walk, LayerDone
<1> USE DEF Walk, storeVars, runVars
<1>1. CASE CallRun
  BY <1>0, <1>1 DEF CallRun
<1>2. CASE Unpause
  BY <1>2 DEF Unpause
<1>3. CASE StartLayer
  BY <1>3 DEF StartLayer, Return, NextLayer
<1>4. CASE PlanLayer
  BY <1>4 DEF PlanLayer
<1>5. CASE Submit
  <2>1. \A s \in Stages : th'[s].skips = {}
    BY <1>0, <1>5 DEF Submit, NoThread
  <2>2. \A s \in Stages : th'[s].pc # "none" => s \in layer
    BY <1>0, <1>5 DEF Submit
  <2> QED
    BY <1>5, <2>1, <2>2 DEF Submit
<1>6. CASE Join
  BY <1>a, <1>b, <1>6 DEF Join
<1>7. CASE Pause
  BY <1>7 DEF Pause
<1>8. CASE Reload
  BY <1>a, <1>b, <1>8 DEF Reload
<1>9. CASE Finalize
  BY <1>9 DEF Finalize
<1>10. CASE Finish
  BY <1>10 DEF Finish, Return
<1>11. ASSUME NEW s \in Stages, SkipBlocked(s) PROVE Walk'
  BY <1>11 DEF SkipBlocked
<1> QED
  BY <1>1, <1>2, <1>3, <1>4, <1>5, <1>6, <1>7, <1>8, <1>9, <1>10, <1>11 DEF RunStep

(* What a step of a thread does to the threads: only its own locals        *)
(* change, it was under way, and it plans to skip only what is downstream. *)
LEMMA ThreadFrame ==
  ASSUME TypeOK, Walk, NEW s \in Stages, ThreadStep(s)
  PROVE  /\ pc = "join" /\ s \in layer
         /\ UNCHANGED <<runVars, status, graph, operations>>
         /\ \A r \in Stages \ {s} : th'[r] = th[r]
         /\ \A d \in th'[s].skips : th'[s].pc = "skip" /\ d \in DownstreamOf(mem, s)
<1>0. th \in [Stages -> Places] /\ th[s].pc \in ThreadPlaces
  BY DEF TypeOK, Places
<1>1. pc = "join" /\ th[s].pc # "none"
  BY DEF ThreadStep, StartThread, CheckApproval, CheckPolicy, Block, Enter, BeginAttempt,
         AgentFails, AgentSucceeds, Accept, PassStage, RetryStage, InvokeFallback, GiveUp,
         FailStage, Propagate, Propagated, SkipDownstream, At, AtGate
<1>2. UNCHANGED <<runVars, status, graph, operations>>
  BY DEF ThreadStep, StartThread, CheckApproval, CheckPolicy, Block, Enter, BeginAttempt,
         AgentFails, AgentSucceeds, Accept, PassStage, RetryStage, InvokeFallback, GiveUp,
         FailStage, Propagate, Propagated, SkipDownstream, ThreadVars
<1>3. \A r \in Stages \ {s} : th'[r] = th[r]
  BY <1>0 DEF ThreadStep, StartThread, CheckApproval, CheckPolicy, Block, Enter, BeginAttempt,
         AgentFails, AgentSucceeds, Accept, PassStage, RetryStage, InvokeFallback, GiveUp,
         FailStage, Propagate, Propagated, SkipDownstream, Exit, Goto
<1> DEFINE Planned == \A d \in th'[s].skips : th'[s].pc = "skip" /\ d \in DownstreamOf(mem, s)
<1>4. ASSUME Propagate(s) PROVE Planned
  BY <1>0, <1>4 DEF Propagate
<1>5. ASSUME NEW d \in Stages, SkipDownstream(s, d) PROVE Planned
  BY <1>0, <1>5 DEF SkipDownstream, At, Walk, Places
<1>6. ASSUME th'[s].skips = {} PROVE Planned
  BY <1>6
<1>7. ASSUME th[s].pc # "skip", th'[s].skips = th[s].skips PROVE Planned
  BY <1>7 DEF Walk
<1>8. ASSUME StartThread(s) PROVE Planned
  BY <1>0, <1>6, <1>8 DEF StartThread, NoThread
<1>9. ASSUME Block(s) \/ PassStage(s) \/ Propagated(s) PROVE Planned
  BY <1>0, <1>6, <1>9 DEF Block, PassStage, Propagated, Exit, NoThread
<1>10. ASSUME CheckApproval(s) \/ CheckPolicy(s) PROVE Planned
  BY <1>0, <1>6, <1>7, <1>10
     DEF CheckApproval, CheckPolicy, AtGate, WhenBlocked, WhenRejected, NoThread, Places
<1>11. ASSUME Enter(s) PROVE Planned
  BY <1>0, <1>7, <1>11 DEF Enter, At, Goto, Places
<1>12. ASSUME BeginAttempt(s) PROVE Planned
  BY <1>0, <1>7, <1>12 DEF BeginAttempt, At, Goto, Places
<1>13. ASSUME AgentFails(s) PROVE Planned
  BY <1>0, <1>7, <1>13 DEF AgentFails, At, Goto, Places
<1>14. ASSUME AgentSucceeds(s) PROVE Planned
  BY <1>0, <1>7, <1>14 DEF AgentSucceeds, At, Goto, Places
<1>15. ASSUME Accept(s) PROVE Planned
  BY <1>0, <1>7, <1>15 DEF Accept, At, Goto, Places
<1>16. ASSUME RetryStage(s) PROVE Planned
  BY <1>0, <1>7, <1>16 DEF RetryStage, At, Goto, Places
<1>17. ASSUME InvokeFallback(s) PROVE Planned
  BY <1>0, <1>7, <1>17 DEF InvokeFallback, At, Goto, Places
<1>18. ASSUME GiveUp(s) PROVE Planned
  BY <1>0, <1>7, <1>18 DEF GiveUp, At, Goto, Places
<1>19. ASSUME FailStage(s) PROVE Planned
  BY <1>0, <1>7, <1>19 DEF FailStage, At, Goto, Places
<1>20. Planned
  BY <1>4, <1>5, <1>8, <1>9, <1>10, <1>11, <1>12, <1>13, <1>14, <1>15, <1>16, <1>17, <1>18, <1>19
     DEF ThreadStep
<1> QED
  BY <1>1, <1>2, <1>3, <1>20 DEF Walk

(* A step of a thread keeps the walk. *)
LEMMA ThreadWalks ==
  ASSUME TypeOK, Walk, NEW s \in Stages, ThreadStep(s)
  PROVE  Walk'
  BY ThreadFrame DEF Walk, runVars

(* An operator keeps the walk: the graph in use changes between calls only. *)
LEMMA OperatorWalks == TypeOK /\ Walk /\ OperatorStep => Walk'
<1> SUFFICES ASSUME TypeOK, Walk, OperatorStep PROVE Walk'
  OBVIOUS
<1> USE DEF Walk, storeVars, runVars
<1>1. CASE Crash
  BY <1>1 DEF Crash, Return, NoThread
<1>2. CASE Restart
  BY <1>2 DEF Restart
<1>3. CASE RequestSafeStop \/ ResumeFromSafeStop \/ Decide
  BY <1>3 DEF RequestSafeStop, ResumeFromSafeStop, Decide, Resolve
<1>4. CASE \E s \in Stages : Rollback(s) \/ Invalidate(s)
  BY <1>4 DEF Rollback, Invalidate
<1>5. CASE \E new \in Insertions : InsertStage(new)
  BY <1>5 DEF InsertStage
<1> QED
  BY <1>1, <1>2, <1>3, <1>4, <1>5 DEF OperatorStep

(* The walk holds in every reachable state. *)
THEOREM WalkCorrect == Spec => [](TypeOK /\ Walk)
<1>1. Init => Walk
  BY DEF Init, Walk, NoThread
<1>2. TypeOK /\ Walk /\ [Next]_vars => Walk'
  <2> SUFFICES ASSUME TypeOK, Walk, [Next]_vars PROVE Walk'
    OBVIOUS
  <2>1. CASE UNCHANGED vars
    BY <2>1 DEF Walk, vars, storeVars, runVars
  <2> QED
    BY <2>1, RunWalks, ThreadWalks, OperatorWalks DEF Next
<1> QED
  BY <1>1, <1>2, TypeCorrect, PTL DEF Spec
-----------------------------------------------------------------------------
(* The barrier: no agent runs before everything its stage depends on has   *)
(* passed, whatever is rolled back, re-planned or rejected between calls   *)
(* of run(), and with a safe-stop at any moment.                           *)

(* The executor does not crash, and while it is at work the only thing an  *)
(* operator does is ask for a safe-stop.                                   *)
Undisturbed == LiveOperations \subseteq {"safe_stop"} /\ "crash" \notin Operations

(* A stage nothing happens to stays in step. *)
LEMMA UntouchedInStep ==
  ASSUME NEW r \in Stages, StageInStep(r), th'[r] = th[r], st'[r] = st[r]
  PROVE  StageInStep(r)'
  BY DEF StageInStep

(* A step of run() keeps the barrier. *)
LEMMA RunKeepsBarrier ==
  ASSUME TypeOK, Walk, Barrier, CallRun \/ RunStep
  PROVE  Barrier'
<1>0. /\ th \in [Stages -> Places] /\ st \in [Stages -> StageStates]
      /\ done \subseteq Stages /\ layer \subseteq Stages /\ mem \in Graphs
  BY DEF TypeOK
<1>a. ASSUME UNCHANGED <<st, th>> PROVE \A s \in Stages : StageInStep(s)'
  BY <1>a, UntouchedInStep DEF Barrier
<1>b. ASSUME Return, UNCHANGED <<mem, st, th>>, \A s \in Stages : th[s].pc = "none"
      PROVE  Barrier'
  BY <1>a, <1>b DEF Barrier, Return
<1>c. ASSUME LayerDone, UNCHANGED <<mem, st, th>>, \A s \in Stages : th[s].pc = "none",
             \A s \in layer : st[s].status \in Settled
      PROVE  Barrier'
  BY <1>a, <1>c DEF Barrier, LayerDone
<1>1. CASE CallRun
  BY <1>a, <1>1 DEF CallRun, storeVars, Barrier, Walk
<1>2. CASE Unpause
  BY <1>a, <1>2 DEF Unpause, Barrier, Walk
<1>3. CASE StartLayer
  BY <1>a, <1>b, <1>3 DEF StartLayer, Barrier, Walk, storeVars
<1>4. CASE PlanLayer
  <2>1. /\ pc' = "skip" /\ UNCHANGED <<st, th, done, layer, mem>>
        /\ \A s \in Stages : th[s].pc = "none"
    BY <1>4 DEF PlanLayer, storeVars, Walk
  <2>2. ASSUME NEW s \in runnable', NEW d \in mem.deps[s] PROVE st[d].status = "passed"
    <3>1. s \in layer /\ ~BlocksDependents(st[d])
      BY <1>4, <2>2 DEF PlanLayer
    <3>2. d \in done /\ d \in Stages
      BY <1>0, <3>1 DEF Walk
    <3>3. st[d].status \in Settled
      BY <3>2 DEF Barrier
    <3> QED
      BY <3>1, <3>3 DEF Settled, BlocksDependents
  <2>3. ASSUME NEW s \in layer \ (runnable' \cup skipping') PROVE st[s].status \in Settled
    <3>1. s \in Stages /\ ~IsActionable(st[s])
      BY <1>0, <1>4 DEF PlanLayer
    <3>2. st[s].status \notin {"running", "retrying", "rolled_back"}
      BY <2>1, <3>1 DEF Barrier, StageInStep, IsActionable
    <3>3. st[s].status \in StageStatuses
      BY <1>0, <3>1 DEF StageStates
    <3> QED
      BY <3>1, <3>2, <3>3 DEF IsActionable, Settled, StageStatuses
  <2> QED
    BY <1>a, <2>1, <2>2, <2>3 DEF Barrier
<1>5. CASE Submit
  <2>1. /\ pc = "skip" /\ pc' = "join" /\ skipping = {}
        /\ UNCHANGED <<st, done, layer, mem>>
        /\ \A s \in Stages : th[s].pc = "none"
    BY <1>5 DEF Submit, storeVars, Walk
  <2>2. ASSUME NEW s \in Stages
        PROVE  th'[s].pc = IF s \in runnable THEN "start" ELSE "none"
    BY <1>5, <2>1 DEF Submit, NoThread
  <2>3. \A s \in Stages : StageInStep(s)'
    BY <2>1, <2>2 DEF Barrier, StageInStep
  <2> QED
    BY <1>0, <2>1, <2>2, <2>3 DEF Barrier
<1>6. CASE Join
  <2>1. /\ pc = "join" /\ \A s \in Stages : th[s].pc = "none"
        /\ UNCHANGED <<mem, st, th, status>>
    BY <1>6 DEF Join, storeVars
  <2>2. CASE \E s \in layer : st[s].status = "blocked_approval"
    BY <1>a, <1>6, <2>1, <2>2 DEF Join, Barrier
  <2>3. CASE ~\E s \in layer : st[s].status = "blocked_approval"
    <3>1. \A s \in layer : st[s].status \in Settled
      BY <1>0, <2>1, <2>3 DEF Barrier
    <3> QED
      BY <1>b, <1>c, <1>6, <2>1, <2>3, <3>1 DEF Join
  <2> QED
    BY <2>2, <2>3
<1>7. CASE Pause
  BY <1>a, <1>7 DEF Pause, Barrier, Paused
<1>8. CASE Reload
  BY <1>b, <1>8 DEF Reload, Barrier, Walk, storeVars
<1>9. CASE Finalize
  BY <1>a, <1>9 DEF Finalize, Barrier, storeVars
<1>10. CASE Finish
  BY <1>b, <1>10 DEF Finish, Walk
<1>11. ASSUME NEW d \in Stages, SkipBlocked(d) PROVE Barrier'
  <2>1. /\ pc = "skip" /\ pc' = "skip" /\ d \in skipping /\ d \in layer
        /\ d \notin done /\ skipping' = skipping \ {d}
        /\ UNCHANGED <<th, done, layer, mem, runnable>>
        /\ \A s \in Stages : th[s].pc = "none"
    BY <1>11 DEF SkipBlocked, Walk
  <2>2. /\ st'[d].status = "skipped"
        /\ \A s \in Stages \ {d} : st'[s] = st[s]
    BY <1>0, <1>11 DEF SkipBlocked, Skipped, StageStates
  <2>3. StageInStep(d)'
    BY <2>1, <2>2 DEF StageInStep
  <2>4. \A s \in Stages : StageInStep(s)'
    BY <2>1, <2>2, <2>3, UntouchedInStep DEF Barrier
  <2>5. ASSUME NEW s \in runnable, NEW t \in mem.deps[s] PROVE st'[t].status = "passed"
    <3>1. t \in done /\ t # d /\ t \in Stages
      BY <1>0, <2>1 DEF Walk
    <3> QED
      BY <2>1, <2>2, <3>1 DEF Barrier
  <2>6. \A s \in layer \ (runnable \cup skipping') : st'[s].status \in Settled
    BY <1>0, <2>1, <2>2 DEF Barrier, Settled
  <2>7. \A s \in done : st'[s].status \in Settled
    BY <1>0, <2>1, <2>2 DEF Barrier
  <2> QED
    BY <2>1, <2>4, <2>5, <2>6, <2>7 DEF Barrier
<1> QED
  BY <1>1, <1>2, <1>3, <1>4, <1>5, <1>6, <1>7, <1>8, <1>9, <1>10, <1>11 DEF RunStep

(* A step of a thread keeps the barrier. *)
LEMMA ThreadKeepsBarrier ==
  ASSUME TypeOK, Walk, Barrier, NEW s \in Stages, ThreadStep(s)
  PROVE  Barrier'
<1>0. /\ th \in [Stages -> Places] /\ st \in [Stages -> StageStates]
      /\ th[s] \in Places /\ st[s] \in StageStates
      /\ done \subseteq Stages /\ layer \subseteq Stages /\ mem \in Graphs
  BY DEF TypeOK
<1>1. /\ pc = "join" /\ pc' = "join" /\ s \in layer /\ s \notin done
      /\ UNCHANGED <<done, layer, mem, runnable, skipping>>
      /\ \A r \in Stages \ {s} : th'[r] = th[r]
  BY ThreadFrame DEF runVars, Walk
<1>2. StageInStep(s)
  BY DEF Barrier
<1>3. th[s].pc # "none"
  BY DEF ThreadStep, StartThread, CheckApproval, CheckPolicy, Block, Enter, BeginAttempt,
         AgentFails, AgentSucceeds, Accept, PassStage, RetryStage, InvokeFallback, GiveUp,
         FailStage, Propagate, Propagated, SkipDownstream, At, AtGate
<1>4. ASSUME \A r \in Stages \ {s} : st'[r] = st[r],
             StageInStep(s)',
             th'[s].pc = "none" => st'[s].status \in Settled \cup {"blocked_approval"}
      PROVE  Barrier'
  <2>1. \A r \in Stages : StageInStep(r)'
    BY <1>1, <1>4, UntouchedInStep DEF Barrier
  <2>2. \A r \in done : st'[r] = st[r]
    BY <1>0, <1>1, <1>4
  <2>3. ASSUME NEW r \in Stages, th'[r].pc # "none", NEW t \in mem.deps[r]
        PROVE  st'[t].status = "passed"
    <3>1. th[r].pc # "none" /\ r \in layer
      BY <1>1, <1>3, <2>3 DEF Walk
    <3>2. t \in done
      BY <3>1 DEF Walk
    <3> QED
      BY <2>2, <3>1, <3>2 DEF Barrier
  <2>4. \A r \in layer : th'[r].pc = "none" =>
            st'[r].status \in Settled \cup {"blocked_approval"}
    BY <1>0, <1>1, <1>4 DEF Barrier
  <2> QED
    BY <1>1, <2>1, <2>2, <2>3, <2>4 DEF Barrier
<1>5. CASE StartThread(s)
  <2>1. st' = st /\ th[s].pc = "start"
    BY <1>5 DEF StartThread, At
  <2>2. th'[s].pc = IF Waits(st[s]) THEN "recheck" ELSE "entry"
    BY <1>0, <1>5 DEF StartThread, NoThread
  <2> QED
    BY <1>2, <1>4, <2>1, <2>2 DEF StageInStep, Waits
<1>6. CASE CheckApproval(s) \/ CheckPolicy(s)
  <2>1. st' = st /\ th[s].pc \in {"entry", "exit", "recheck"}
    BY <1>6 DEF CheckApproval, CheckPolicy, AtGate
  <2>2. \/ th'[s].pc = th[s].pc
        \/ th[s].pc = "entry" /\ th'[s].pc \in {"entry_block", "fail"}
        \/ th[s].pc = "exit" /\ th'[s].pc \in {"exit_block", "attempt_failed", "fail"}
        \/ th[s].pc = "recheck" /\ th'[s].pc \in {"none", "fail"}
    BY <1>0, <1>6, <2>1
       DEF CheckApproval, CheckPolicy, WhenBlocked, WhenRejected, NoThread, Places
  <2> QED
    BY <1>2, <1>3, <1>4, <2>1, <2>2 DEF StageInStep
<1>7. CASE Block(s)
  <2>1. st'[s].status = "blocked_approval" /\ th'[s].pc = "none"
        /\ \A r \in Stages \ {s} : st'[r] = st[r]
    BY <1>0, <1>7 DEF Block, Exit, NoThread, StageStates
  <2> QED
    BY <1>4, <2>1 DEF StageInStep
<1>8. CASE Enter(s)
  <2>1. st' = st /\ th[s].pc = "entry" /\ th'[s].pc = "begin"
    BY <1>0, <1>8 DEF Enter, At, Places
  <2> QED
    BY <1>2, <1>4, <2>1 DEF StageInStep
<1>9. CASE BeginAttempt(s)
  <2>1. /\ st'[s].status \in {"running", "retrying"} /\ th'[s].pc = "agent"
        /\ \A r \in Stages \ {s} : st'[r] = st[r]
    BY <1>0, <1>9 DEF BeginAttempt, Places, StageStates
  <2> QED
    BY <1>4, <2>1 DEF StageInStep
<1>10. CASE AgentFails(s)
  <2>1. st' = st /\ th[s].pc = "agent" /\ th'[s].pc = "attempt_failed"
    BY <1>0, <1>10 DEF AgentFails, At, Goto, Places
  <2> QED
    BY <1>2, <1>4, <2>1 DEF StageInStep
<1>11. CASE AgentSucceeds(s)
  <2>1. /\ st'[s].status = st[s].status /\ st'[s].stale = st[s].stale
        /\ th[s].pc = "agent" /\ th'[s].pc = "exit"
        /\ \A r \in Stages \ {s} : st'[r] = st[r]
    BY <1>0, <1>11 DEF AgentSucceeds, At, Places, StageStates
  <2> QED
    BY <1>2, <1>4, <2>1 DEF StageInStep
<1>12. CASE Accept(s)
  <2>1. st' = st /\ th[s].pc \in {"exit", "recheck"} /\ th'[s].pc = "pass"
    BY <1>0, <1>12 DEF Accept, Goto, Places
  <2> QED
    BY <1>2, <1>4, <2>1 DEF StageInStep
<1>13. CASE PassStage(s)
  <2>1. st'[s].status = "passed" /\ th'[s].pc = "none"
        /\ \A r \in Stages \ {s} : st'[r] = st[r]
    BY <1>0, <1>13 DEF PassStage, Exit, NoThread, StageStates
  <2> QED
    BY <1>4, <2>1 DEF StageInStep, Settled
<1>14. CASE RetryStage(s)
  <2>1. st'[s].status = "retrying" /\ th'[s].pc = "begin"
        /\ \A r \in Stages \ {s} : st'[r] = st[r]
    BY <1>0, <1>14 DEF RetryStage, Goto, Places, StageStates
  <2> QED
    BY <1>4, <2>1 DEF StageInStep
<1>15. CASE InvokeFallback(s) \/ GiveUp(s)
  <2>1. st' = st /\ th[s].pc = "attempt_failed" /\ th'[s].pc \in {"begin", "fail"}
    <3>1. CASE InvokeFallback(s)
      BY <1>0, <3>1 DEF InvokeFallback, At, Places
    <3>2. CASE GiveUp(s)
      BY <1>0, <3>2 DEF GiveUp, At, Goto, Places
    <3> QED
      BY <1>15, <3>1, <3>2
  <2> QED
    BY <1>2, <1>4, <2>1 DEF StageInStep
<1>16. CASE FailStage(s)
  <2>1. st'[s].status = "failed" /\ th'[s].pc = "propagate"
        /\ \A r \in Stages \ {s} : st'[r] = st[r]
    BY <1>0, <1>16 DEF FailStage, Goto, Places, StageStates
  <2> QED
    BY <1>4, <2>1 DEF StageInStep
<1>17. CASE Propagate(s)
  <2>1. st' = st /\ th[s].pc = "propagate" /\ th'[s].pc = "skip"
    BY <1>0, <1>17 DEF Propagate, At, Places
  <2> QED
    BY <1>2, <1>4, <2>1 DEF StageInStep
<1>18. CASE Propagated(s)
  <2>1. st' = st /\ th[s].pc = "skip" /\ th'[s].pc = "none"
    BY <1>0, <1>18 DEF Propagated, At, Exit, NoThread
  <2> QED
    BY <1>2, <1>4, <2>1 DEF StageInStep, Settled
<1>19. ASSUME NEW d \in Stages, SkipDownstream(s, d) PROVE Barrier'
  <2>1. d \in DownstreamOf(mem, s)
    BY <1>19 DEF SkipDownstream, Walk
  <2>2. d \notin layer \cup done
    BY <1>0, <1>1, <2>1, DownstreamBeyond DEF Walk
  <2>3. d # s /\ th[d].pc = "none" /\ th'[d].pc = "none"
    BY <1>1, <2>2 DEF Walk
  <2>4. st'[d].status = "skipped" /\ \A r \in Stages \ {d} : st'[r] = st[r]
    BY <1>0, <1>19 DEF SkipDownstream, Skipped, StageStates
  <2>5. th[s].pc = "skip" /\ th'[s].pc = "skip"
    BY <1>0, <1>19 DEF SkipDownstream, At, Places
  <2>6. \A r \in Stages : StageInStep(r)'
    <3>1. StageInStep(d)'
      BY <2>3, <2>4 DEF StageInStep
    <3>2. StageInStep(s)'
      BY <1>2, <2>3, <2>4, <2>5 DEF StageInStep
    <3> QED
      BY <1>1, <2>4, <3>1, <3>2, UntouchedInStep DEF Barrier
  <2>7. \A r \in done \cup layer : st'[r] = st[r]
    BY <1>0, <2>2, <2>4
  <2>8. ASSUME NEW r \in Stages, th'[r].pc # "none", NEW t \in mem.deps[r]
        PROVE  st'[t].status = "passed"
    <3>1. th[r].pc # "none" /\ r \in layer
      BY <1>1, <1>3, <2>8 DEF Walk
    <3>2. t \in done
      BY <3>1 DEF Walk
    <3> QED
      BY <2>7, <3>1, <3>2 DEF Barrier
  <2>9. \A r \in layer : th'[r].pc = "none" => th[r].pc = "none"
    BY <1>0, <1>1, <2>5
  <2> QED
    BY <1>1, <2>6, <2>7, <2>8, <2>9 DEF Barrier
<1> QED
  BY <1>5, <1>6, <1>7, <1>8, <1>9, <1>10, <1>11, <1>12, <1>13, <1>14, <1>15, <1>16,
     <1>17, <1>18, <1>19 DEF ThreadStep

(* An operator keeps the barrier: it acts when no layer is in progress. *)
LEMMA OperatorKeepsBarrier ==
  ASSUME Undisturbed, TypeOK, Walk, Barrier, OperatorStep
  PROVE  Barrier'
<1>0. /\ th \in [Stages -> Places] /\ st \in [Stages -> StageStates]
      /\ done \subseteq Stages /\ layer \subseteq Stages /\ mem \in Graphs
  BY DEF TypeOK
<1>1. CASE RequestSafeStop
  <2>1. UNCHANGED <<st, th, runVars>> /\ status' = "paused_safe_stop"
    BY <1>1 DEF RequestSafeStop
  <2> QED
    BY <2>1, UntouchedInStep DEF Barrier, runVars, Paused
<1>2. CASE Decide
  <2>1. UNCHANGED <<st, th, runVars, status>>
    BY <1>2 DEF Decide, Resolve
  <2> QED
    BY <2>1, UntouchedInStep DEF Barrier, runVars
<1>3. CASE Crash
  BY <1>3 DEF Crash, Operate, Undisturbed
<1>4. ASSUME pc = "idle", pc' = "idle", UNCHANGED <<th, done>>,
             \A s \in Stages : st'[s] = st[s] \/ st'[s] = NewStage
                                 \/ \E to \in {"rolled_back", "stale"} : st'[s] = Reset(st[s], to)
      PROVE  Barrier'
  <2>1. done = {} /\ \A s \in Stages : th[s].pc = "none"
    BY <1>4 DEF Walk
  <2>2. ASSUME NEW s \in Stages PROVE StageInStep(s)'
    <3>0. st[s] \in StageStates
      BY <1>0
    <3>1. CASE st'[s] = st[s]
      BY <1>4, <3>1 DEF Barrier, StageInStep
    <3>2. CASE st'[s] = NewStage
      BY <1>4, <2>1, <3>2 DEF NewStage, StageInStep
    <3>3. ASSUME NEW to \in {"rolled_back", "stale"}, st'[s] = Reset(st[s], to)
          PROVE  StageInStep(s)'
      <4>1. st'[s].status = to /\ st'[s].stale
        BY <3>0, <3>3 DEF Reset, StageStates
      <4> QED
        BY <1>4, <2>1, <4>1 DEF StageInStep
    <3> QED
      BY <1>4, <3>1, <3>2, <3>3
  <2> QED
    BY <1>4, <2>1, <2>2 DEF Barrier
<1>5. CASE ResumeFromSafeStop \/ Restart
  BY <1>4, <1>5 DEF ResumeFromSafeStop, Restart, Operate, Undisturbed, storeVars, runVars
<1>6. ASSUME NEW s \in Stages, Rollback(s) \/ Invalidate(s) PROVE Barrier'
  <2>1. pc = "idle" /\ UNCHANGED <<th, runVars>>
    BY <1>6 DEF Rollback, Invalidate, Operate, Undisturbed
  <2>2. \A r \in Stages : st'[r] = st[r]
                \/ \E to \in {"rolled_back", "stale"} : st'[r] = Reset(st[r], to)
    BY <1>6 DEF Rollback, Invalidate
  <2> QED
    BY <1>4, <2>1, <2>2 DEF runVars
<1>7. ASSUME NEW new \in Insertions, InsertStage(new) PROVE Barrier'
  <2>1. pc = "idle" /\ UNCHANGED <<th, runVars>>
    BY <1>7 DEF InsertStage, Operate, Undisturbed
  <2>2. \A r \in Stages : st'[r] = st[r] \/ st'[r] = NewStage \/ st'[r] = Reset(st[r], "stale")
    BY <1>7 DEF InsertStage
  <2> QED
    BY <1>4, <2>1, <2>2 DEF runVars
<1> QED
  BY <1>1, <1>2, <1>3, <1>5, <1>6, <1>7 DEF OperatorStep

(* The barrier holds in every reachable state. *)
LEMMA BarrierCorrect ==
  ASSUME Undisturbed
  PROVE  Spec => [](TypeOK /\ Walk /\ Barrier)
<1>1. Init => Barrier
  BY DEF Init, Barrier, StageInStep, NewStage, NoThread
<1>2. TypeOK /\ Walk /\ Barrier /\ [Next]_vars => Barrier'
  <2> SUFFICES ASSUME TypeOK, Walk, Barrier, [Next]_vars PROVE Barrier'
    OBVIOUS
  <2>1. CASE UNCHANGED vars
    BY <2>1, UntouchedInStep DEF Barrier, vars, storeVars, runVars
  <2> QED
    BY <2>1, RunKeepsBarrier, ThreadKeepsBarrier, OperatorKeepsBarrier DEF Next
<1> QED
  BY <1>1, <1>2, WalkCorrect, PTL DEF Spec

(* The layers are a barrier: while an agent runs, everything its stage     *)
(* depends on has passed (executor.py:9-14).                               *)
THEOREM DependenciesAlways ==
  ASSUME Undisturbed
  PROVE  Spec => []DependenciesFirst
<1>1. Barrier => DependenciesFirst
  BY DEF Barrier, DependenciesFirst
<1> QED
  BY <1>1, BarrierCorrect, PTL

-----------------------------------------------------------------------------
(* Governance: no stage passes, and no agent runs, without the approvals   *)
(* its gates ask for, granted by a person for the very incarnation at      *)
(* hand, across safe-stops, rollbacks, re-planning, revised decisions and  *)
(* crashes, provided that re-planning happens between calls of run().      *)

(* Re-planning waits for the executor to be idle. *)
HandsOff == LiveOperations \cap {"rollback", "invalidate", "insert"} = {}

(* A stage nothing happens to stays governed. *)
LEMMA UntouchedGoverned ==
  ASSUME NEW r \in Stages, StageGoverned(r), ThreadGoverned(r),
         th'[r] = th[r], st'[r] = st[r], granted \subseteq granted'
  PROVE  StageGoverned(r)' /\ ThreadGoverned(r)'
<1>1. \A gates, i : Granted(r, gates, i) => Granted(r, gates, i)'
  BY DEF Granted
<1>2. \A gates, i, n : GrantedBefore(r, gates, i, n) => GrantedBefore(r, gates, i, n)'
  BY DEF GrantedBefore
<1> QED
  BY <1>1, <1>2 DEF StageGoverned, ThreadGoverned, Waits, IsActionable

(* A step of run() keeps governance: it never touches an approval. *)
LEMMA RunGoverns == TypeOK /\ Walk /\ Governance /\ (CallRun \/ RunStep) => Governance'
<1> SUFFICES ASSUME TypeOK, Walk, Governance, CallRun \/ RunStep PROVE Governance'
  OBVIOUS
<1>0. th \in [Stages -> Places] /\ st \in [Stages -> StageStates]
  BY DEF TypeOK
<1>1. ASSUME UNCHANGED <<st, approvals, granted, th>>,
             pc' = "skip" => \A s \in runnable' : IsActionable(st[s])
      PROVE  Governance'
  <2>1. \A s \in Stages : StageGoverned(s)' /\ ThreadGoverned(s)'
    BY <1>1, UntouchedGoverned DEF Governance
  <2> QED
    BY <1>1, <2>1 DEF Governance, RequestsGoverned, IsActionable
<1>2. CASE CallRun \/ Unpause \/ StartLayer \/ Join \/ Pause \/ Reload \/ Finalize \/ Finish
  <2>1. UNCHANGED <<st, approvals, granted, th>> /\ pc' # "skip"
    BY <1>2 DEF CallRun, Unpause, StartLayer, Join, Pause, Reload, Finalize, Finish,
                Return, LayerDone, storeVars
  <2> QED
    BY <1>1, <2>1
<1>3. CASE PlanLayer
  BY <1>1, <1>3 DEF PlanLayer, storeVars
<1>4. CASE Submit
  <2>1. \A s \in Stages : StageGoverned(s)'
    BY <1>4 DEF Submit, storeVars, Governance, StageGoverned, Granted, Waits
  <2>2. \A s \in Stages : ThreadGoverned(s)'
    <3> SUFFICES ASSUME NEW s \in Stages PROVE ThreadGoverned(s)'
      OBVIOUS
    <3>1. CASE s \in runnable
      <4>1. th'[s].pc = "start" /\ st'[s] = st[s] /\ IsActionable(st[s])
        BY <1>4, <3>1 DEF Submit, storeVars, Governance, NoThread
      <4> QED
        BY <4>1 DEF ThreadGoverned, Working, IsActionable
    <3>2. CASE s \notin runnable
      <4>1. th'[s] = th[s] /\ st'[s] = st[s] /\ granted' = granted
        BY <1>4, <3>2 DEF Submit, storeVars
      <4> QED
        BY <4>1, UntouchedGoverned DEF Governance
    <3> QED
      BY <3>1, <3>2
  <2> QED
    BY <1>4, <2>1, <2>2 DEF Submit, storeVars, Governance, RequestsGoverned
<1>5. ASSUME NEW d \in Stages, SkipBlocked(d) PROVE Governance'
  <2>1. st' = [st EXCEPT ![d] = Skipped(@)] /\ UNCHANGED <<approvals, granted, th, runnable>>
    BY <1>5 DEF SkipBlocked
  <2>2. th[d].pc = "none" /\ d \notin runnable
    BY <1>5 DEF SkipBlocked, Walk
  <2>3. \A s \in Stages \ {d} : StageGoverned(s)' /\ ThreadGoverned(s)'
    BY <1>0, <2>1, UntouchedGoverned DEF Governance
  <2>4. st'[d].status = "skipped"
    BY <1>0, <2>1 DEF Skipped, StageStates
  <2>5. StageGoverned(d)' /\ ThreadGoverned(d)'
    BY <2>1, <2>2, <2>4 DEF StageGoverned, ThreadGoverned, Waits, Working
  <2>6. \A s \in runnable : st'[s] = st[s]
    BY <1>0, <2>1, <2>2 DEF TypeOK
  <2> QED
    BY <1>5, <2>1, <2>3, <2>5, <2>6 DEF Governance, RequestsGoverned, SkipBlocked, IsActionable
<1> QED
  BY <1>2, <1>3, <1>4, <1>5 DEF RunStep

(* A step of a thread keeps governance. *)
LEMMA ThreadGoverns ==
  ASSUME TypeOK, Walk, Governance, NEW s \in Stages, ThreadStep(s)
  PROVE  Governance'
<1>0. /\ th \in [Stages -> Places] /\ st \in [Stages -> StageStates]
      /\ th[s] \in Places /\ st[s] \in StageStates
      /\ Len(EntryGates[s]) \in Nat /\ Len(ExitGates[s]) \in Nat
  BY GatesAssumption DEF TypeOK
<1>1. /\ pc = "join" /\ pc' = "join" /\ s \in layer
      /\ \A r \in Stages \ {s} : th'[r] = th[r]
  BY ThreadFrame DEF runVars
<1>2. granted' = granted
  BY DEF ThreadStep, StartThread, CheckApproval, CheckPolicy, Block, Enter, BeginAttempt,
         AgentFails, AgentSucceeds, Accept, PassStage, RetryStage, InvokeFallback, GiveUp,
         FailStage, Propagate, Propagated, SkipDownstream
<1>3. StageGoverned(s) /\ ThreadGoverned(s) /\ RequestsGoverned
  BY DEF Governance
<1>4. ASSUME \A r \in Stages \ {s} : st'[r] = st[r],
             RequestsGoverned', StageGoverned(s)', ThreadGoverned(s)'
      PROVE  Governance'
  <2>1. \A r \in Stages \ {s} : StageGoverned(r)' /\ ThreadGoverned(r)'
    BY <1>1, <1>2, <1>4, UntouchedGoverned DEF Governance
  <2> QED
    BY <1>1, <1>4, <2>1 DEF Governance
<1>5. ASSUME st' = st, approvals' = approvals, ThreadGoverned(s)' PROVE Governance'
  <2>1. StageGoverned(s)' /\ RequestsGoverned'
    BY <1>2, <1>3, <1>5 DEF StageGoverned, RequestsGoverned, Granted, Waits
  <2> QED
    BY <1>4, <1>5, <2>1
<1>6. CASE StartThread(s)
  <2>1. st' = st /\ approvals' = approvals /\ IsActionable(st[s])
    BY <1>3, <1>6 DEF StartThread, At, ThreadGoverned
  <2>2. /\ th'[s].inc = st[s].inc /\ th'[s].gate = 1
        /\ th'[s].pc = IF Waits(st[s]) THEN "recheck" ELSE "entry"
    BY <1>0, <1>6 DEF StartThread, NoThread
  <2>3. ~Waits(st[s]) => st[s].stale \/ ~st[s].arts
    BY <1>0, <1>3, <2>1 DEF StageGoverned, Waits, IsActionable, StageStates
  <2>4. ThreadGoverned(s)'
    BY <1>0, <1>2, <1>3, <2>1, <2>2, <2>3
       DEF ThreadGoverned, StageGoverned, Working, Granted, GrantedBefore
  <2> QED
    BY <1>5, <2>1, <2>4
<1>7. CASE CheckApproval(s)
  <2> DEFINE g == Gate(s)
             n == th[s].gate
  <2>0. /\ th[s].pc \in {"entry", "exit", "recheck"} /\ n \in Nat /\ n <= Len(GatesOf(s))
        /\ g \in Gates /\ th[s].inc = st[s].inc /\ st[s].inc \in Incarnations
    BY <1>0, <1>3, <1>7, GatesAssumption
       DEF CheckApproval, AtGate, MoreGates, ThreadGoverned, Places, StageStates
  <2>1. st' = st
    BY <1>7 DEF CheckApproval
  <2>2. RequestsGoverned'
    <3>1. ASSUME NEW r \in Stages, NEW h \in Gates, NEW i \in Incarnations,
                 approvals'[r][h][i] = "approved"
          PROVE  <<r, h, i>> \in granted
      <4>1. approvals[r][h][i] = "approved"
        BY <1>7, <2>0, <3>1 DEF CheckApproval, RequestOf, TypeOK
      <4> QED
        BY <1>3, <4>1 DEF RequestsGoverned
    <3> QED
      BY <1>2, <3>1 DEF RequestsGoverned
  <2>3. StageGoverned(s)'
    BY <1>2, <1>3, <2>1 DEF StageGoverned, Granted, Waits
  <2>4. CASE approvals[s][g][RequestOf(s)] = "approved"
    <3>1. <<s, g, st[s].inc>> \in granted
      BY <1>3, <2>0, <2>4 DEF RequestsGoverned, RequestOf
    <3>2. th'[s] = [th[s] EXCEPT !.gate = n + 1]
      BY <1>0, <1>7, <2>4 DEF CheckApproval
    <3>3. /\ th'[s].pc = th[s].pc /\ th'[s].inc = th[s].inc /\ th'[s].gate = n + 1
      BY <1>0, <3>2 DEF Places
    <3>4. th[s].pc = "entry" => GrantedBefore(s, EntryGates, st[s].inc, n + 1)
      BY <1>0, <1>3, <2>0, <3>1 DEF ThreadGoverned, GrantedBefore, Gate, GatesOf
    <3>5. th[s].pc \in {"exit", "recheck"} => GrantedBefore(s, ExitGates, st[s].inc, n + 1)
      BY <1>0, <1>3, <2>0, <3>1 DEF ThreadGoverned, GrantedBefore, Gate, GatesOf
    <3>6. ThreadGoverned(s)'
      BY <1>2, <1>3, <2>0, <2>1, <3>3, <3>4, <3>5
         DEF ThreadGoverned, Working, GrantedBefore, Granted
    <3> QED
      BY <1>4, <2>1, <2>2, <2>3, <3>6
  <2>5. CASE approvals[s][g][RequestOf(s)] # "approved"
    <3>1. th'[s] = WhenRejected(s) \/ th'[s] = WhenBlocked(s)
      BY <1>0, <1>7, <2>5 DEF CheckApproval
    <3>2. \/ th'[s].pc \in {"none", "fail"}
          \/ th'[s].pc = "entry_block" /\ th[s].pc = "entry"
          \/ th'[s].pc \in {"exit_block", "attempt_failed"} /\ th[s].pc = "exit"
      BY <1>0, <2>0, <3>1 DEF WhenRejected, WhenBlocked, NoThread, Places
    <3>3. th'[s].pc = "none" \/ th'[s].inc = th[s].inc
      BY <1>0, <2>0, <3>1 DEF WhenRejected, WhenBlocked, NoThread, Places
    <3>4. ThreadGoverned(s)'
      BY <1>2, <1>3, <2>0, <2>1, <3>2, <3>3 DEF ThreadGoverned, Working, Granted
    <3> QED
      BY <1>4, <2>1, <2>2, <2>3, <3>4
  <2> QED
    BY <2>4, <2>5
<1>8. CASE CheckPolicy(s)
  <2> DEFINE n == th[s].gate
  <2>0. /\ th[s].pc \in {"entry", "exit", "recheck"} /\ n \in Nat
        /\ GatesOf(s)[n] \notin ApprovalGates /\ st' = st /\ approvals' = approvals
    BY <1>0, <1>8 DEF CheckPolicy, AtGate, Gate, Places
  <2>1. CASE th' = [th EXCEPT ![s].gate = @ + 1]
    <3>1. /\ th'[s].pc = th[s].pc /\ th'[s].inc = th[s].inc /\ th'[s].gate = n + 1
      BY <1>0, <2>1 DEF Places
    <3>2. th[s].pc = "entry" => GrantedBefore(s, EntryGates, st[s].inc, n + 1)
      BY <1>0, <1>3, <2>0 DEF ThreadGoverned, GrantedBefore, GatesOf
    <3>3. th[s].pc \in {"exit", "recheck"} => GrantedBefore(s, ExitGates, st[s].inc, n + 1)
      BY <1>0, <1>3, <2>0 DEF ThreadGoverned, GrantedBefore, GatesOf
    <3>4. ThreadGoverned(s)'
      BY <1>2, <1>3, <2>0, <3>1, <3>2, <3>3
         DEF ThreadGoverned, Working, GrantedBefore, Granted
    <3> QED
      BY <1>5, <2>0, <3>4
  <2>2. CASE th' = [th EXCEPT ![s] = WhenRejected(s)]
    <3>1. /\ th'[s].pc = "fail" \/ (th'[s].pc = "attempt_failed" /\ th[s].pc = "exit")
          /\ th'[s].inc = th[s].inc
      BY <1>0, <2>2 DEF WhenRejected, Places
    <3>2. ThreadGoverned(s)'
      BY <1>2, <1>3, <2>0, <3>1 DEF ThreadGoverned, Working, Granted
    <3> QED
      BY <1>5, <2>0, <3>2
  <2> QED
    BY <1>8, <2>1, <2>2 DEF CheckPolicy
<1>9. CASE Block(s)
  <2>1. /\ st' = [st EXCEPT ![s].status = "blocked_approval"] /\ approvals' = approvals
        /\ th'[s].pc = "none" /\ th[s].pc \in {"entry_block", "exit_block"}
    BY <1>0, <1>9 DEF Block, Exit, NoThread
  <2>2. /\ st'[s].status = "blocked_approval" /\ st'[s].stale = st[s].stale
        /\ st'[s].arts = st[s].arts /\ st'[s].inc = st[s].inc
    BY <1>0, <2>1 DEF StageStates
  <2>3. StageGoverned(s)'
    BY <1>2, <1>3, <2>1, <2>2 DEF StageGoverned, ThreadGoverned, Waits, Working, Granted
  <2>4. ThreadGoverned(s)'
    BY <2>1 DEF ThreadGoverned, Working
  <2>5. RequestsGoverned'
    BY <1>2, <1>3, <2>1 DEF RequestsGoverned
  <2> QED
    BY <1>0, <1>4, <2>1, <2>3, <2>4, <2>5
<1>10. CASE Enter(s)
  <2>1. st' = st /\ approvals' = approvals
    BY <1>10 DEF Enter
  <2>2. th'[s].pc = "begin" /\ th'[s].inc = th[s].inc
    BY <1>0, <1>10 DEF Enter, Places
  <2>3. Granted(s, EntryGates, st[s].inc)
    BY <1>0, <1>3, <1>10
       DEF Enter, At, MoreGates, GatesOf, ThreadGoverned, GrantedBefore, Granted, Places
  <2>4. ThreadGoverned(s)'
    BY <1>2, <1>3, <1>10, <2>1, <2>2, <2>3 DEF Enter, At, ThreadGoverned, Working, Granted, Waits
  <2> QED
    BY <1>5, <2>1, <2>4
<1>11. CASE BeginAttempt(s)
  <2>1. /\ st'[s].status \in {"running", "retrying"} /\ st'[s].inc = st[s].inc
        /\ approvals' = approvals /\ \A r \in Stages \ {s} : st'[r] = st[r]
    BY <1>0, <1>11 DEF BeginAttempt, StageStates
  <2>2. th'[s].pc = "agent" /\ th'[s].inc = th[s].inc /\ th[s].pc = "begin"
    BY <1>0, <1>11 DEF BeginAttempt, At, Places
  <2>3. StageGoverned(s)' /\ RequestsGoverned'
    BY <1>2, <1>3, <2>1 DEF StageGoverned, Waits, RequestsGoverned
  <2>4. ThreadGoverned(s)'
    BY <1>2, <1>3, <2>1, <2>2 DEF ThreadGoverned, Working, Granted, Waits
  <2> QED
    BY <1>4, <2>1, <2>3, <2>4
<1>12. CASE AgentFails(s)
  <2>1. st' = st /\ approvals' = approvals
    BY <1>12 DEF AgentFails
  <2>2. th'[s].pc = "attempt_failed" /\ (th'[s].pc = "none" \/ th'[s].inc = th[s].inc)
    BY <1>0, <1>12 DEF AgentFails, Goto, Exit, NoThread, Places
  <2>3. ThreadGoverned(s)'
    BY <1>2, <1>3, <1>12, <2>1, <2>2 DEF AgentFails, At, ThreadGoverned, Working, Granted
  <2> QED
    BY <1>5, <2>1, <2>3
<1>13. CASE AgentSucceeds(s)
  <2>1. PICK some \in BOOLEAN : st' = [st EXCEPT ![s].arts = @ \/ some]
    BY <1>13 DEF AgentSucceeds
  <2>2. /\ st'[s].status = st[s].status /\ st'[s].inc = st[s].inc
        /\ st'[s].stale = st[s].stale /\ \A r \in Stages \ {s} : st'[r] = st[r]
    BY <1>0, <2>1 DEF StageStates
  <2>3. /\ th'[s].pc = "exit" /\ th'[s].inc = th[s].inc /\ th'[s].gate = 1
        /\ th[s].pc = "agent" /\ approvals' = approvals
    BY <1>0, <1>13 DEF AgentSucceeds, At, Places
  <2>4. st[s].status \in {"running", "retrying"}
    BY <1>3, <2>3 DEF ThreadGoverned
  <2>5. StageGoverned(s)' /\ RequestsGoverned'
    BY <1>2, <1>3, <2>2, <2>3, <2>4 DEF StageGoverned, Waits, RequestsGoverned
  <2>6. ThreadGoverned(s)'
    BY <1>0, <1>2, <1>3, <2>2, <2>3, <2>4 DEF ThreadGoverned, Working, Granted, GrantedBefore, Waits
  <2> QED
    BY <1>4, <2>2, <2>5, <2>6
<1>14. CASE Accept(s)
  <2>1. st' = st /\ approvals' = approvals
    BY <1>14 DEF Accept
  <2>2. th'[s].pc = "pass" /\ th'[s].inc = th[s].inc /\ th[s].pc \in {"exit", "recheck"}
    BY <1>0, <1>14 DEF Accept, Goto, Places
  <2>3. Granted(s, ExitGates, st[s].inc)
    BY <1>0, <1>3, <1>14, <2>2
       DEF Accept, MoreGates, GatesOf, ThreadGoverned, GrantedBefore, Granted, Places
  <2>4. ThreadGoverned(s)'
    BY <1>2, <1>3, <2>1, <2>2, <2>3 DEF ThreadGoverned, Working, Granted
  <2> QED
    BY <1>5, <2>1, <2>4
<1>15. CASE PassStage(s)
  <2>1. /\ st'[s].status = "passed" /\ st'[s].inc = st[s].inc
        /\ approvals' = approvals /\ \A r \in Stages \ {s} : st'[r] = st[r]
    BY <1>0, <1>15 DEF PassStage, StageStates
  <2>2. th'[s].pc = "none" /\ th[s].pc = "pass"
    BY <1>0, <1>15 DEF PassStage, At, Exit, NoThread
  <2>3. StageGoverned(s)' /\ RequestsGoverned'
    BY <1>2, <1>3, <2>1, <2>2
       DEF StageGoverned, ThreadGoverned, Working, Granted, Waits, RequestsGoverned
  <2>4. ThreadGoverned(s)'
    BY <2>2 DEF ThreadGoverned, Working
  <2> QED
    BY <1>4, <2>1, <2>3, <2>4
<1>16. CASE RetryStage(s)
  <2>1. /\ st'[s].status = "retrying" /\ st'[s].inc = st[s].inc
        /\ approvals' = approvals /\ \A r \in Stages \ {s} : st'[r] = st[r]
    BY <1>0, <1>16 DEF RetryStage, StageStates
  <2>2. th'[s].pc = "begin" /\ th'[s].inc = th[s].inc /\ th[s].pc = "attempt_failed"
    BY <1>0, <1>16 DEF RetryStage, At, Goto, Places
  <2>3. StageGoverned(s)' /\ RequestsGoverned'
    BY <1>2, <1>3, <2>1 DEF StageGoverned, Waits, RequestsGoverned
  <2>4. ThreadGoverned(s)'
    BY <1>2, <1>3, <2>1, <2>2 DEF ThreadGoverned, Working, Granted, Waits
  <2> QED
    BY <1>4, <2>1, <2>3, <2>4
<1>17. CASE InvokeFallback(s)
  <2>1. st' = st /\ approvals' = approvals
    BY <1>17 DEF InvokeFallback
  <2>2. th'[s].pc = "begin" /\ (th'[s].pc = "none" \/ th'[s].inc = th[s].inc)
    BY <1>0, <1>17 DEF InvokeFallback, Goto, Exit, NoThread, Places
  <2>3. ThreadGoverned(s)'
    BY <1>2, <1>3, <1>17, <2>1, <2>2 DEF InvokeFallback, At, ThreadGoverned, Working, Granted
  <2> QED
    BY <1>5, <2>1, <2>3
<1>18. CASE GiveUp(s)
  <2>1. st' = st /\ approvals' = approvals
    BY <1>18 DEF GiveUp
  <2>2. th'[s].pc = "fail" /\ (th'[s].pc = "none" \/ th'[s].inc = th[s].inc)
    BY <1>0, <1>18 DEF GiveUp, Goto, Exit, NoThread, Places
  <2>3. ThreadGoverned(s)'
    BY <1>2, <1>3, <1>18, <2>1, <2>2 DEF GiveUp, At, ThreadGoverned, Working, Granted
  <2> QED
    BY <1>5, <2>1, <2>3
<1>19. CASE FailStage(s)
  <2>1. /\ st'[s].status = "failed" /\ st'[s].inc = st[s].inc
        /\ approvals' = approvals /\ \A r \in Stages \ {s} : st'[r] = st[r]
    BY <1>0, <1>19 DEF FailStage, StageStates
  <2>2. th'[s].pc = "propagate" /\ th'[s].inc = th[s].inc /\ th[s].pc = "fail"
    BY <1>0, <1>19 DEF FailStage, At, Goto, Places
  <2>3. StageGoverned(s)' /\ RequestsGoverned'
    BY <1>2, <1>3, <2>1 DEF StageGoverned, Waits, RequestsGoverned
  <2>4. ThreadGoverned(s)'
    BY <1>3, <2>1, <2>2 DEF ThreadGoverned, Working
  <2> QED
    BY <1>4, <2>1, <2>3, <2>4
<1>20. CASE Propagate(s)
  <2>1. st' = st /\ approvals' = approvals
    BY <1>20 DEF Propagate
  <2>2. th'[s].pc = "skip" /\ (th'[s].pc = "none" \/ th'[s].inc = th[s].inc)
    BY <1>0, <1>20 DEF Propagate, Goto, Exit, NoThread, Places
  <2>3. ThreadGoverned(s)'
    BY <1>2, <1>3, <1>20, <2>1, <2>2 DEF Propagate, At, ThreadGoverned, Working, Granted
  <2> QED
    BY <1>5, <2>1, <2>3
<1>21. CASE Propagated(s)
  <2>1. st' = st /\ approvals' = approvals
    BY <1>21 DEF Propagated
  <2>2. th'[s].pc = "none" /\ (th'[s].pc = "none" \/ th'[s].inc = th[s].inc)
    BY <1>0, <1>21 DEF Propagated, Goto, Exit, NoThread, Places
  <2>3. ThreadGoverned(s)'
    BY <1>2, <1>3, <1>21, <2>1, <2>2 DEF Propagated, At, ThreadGoverned, Working, Granted
  <2> QED
    BY <1>5, <2>1, <2>3
<1>22. ASSUME NEW d \in Stages, SkipDownstream(s, d) PROVE Governance'
  <2>1. /\ st'[d].status = "skipped" /\ approvals' = approvals
        /\ \A r \in Stages \ {d} : st'[r] = st[r]
    BY <1>0, <1>22 DEF SkipDownstream, Skipped, StageStates
  <2>2. d \in DownstreamOf(mem, s)
    BY <1>22 DEF SkipDownstream, Walk
  <2>3. d \notin layer
    BY <1>1, <2>2, DownstreamBeyond, ZenonT(40) DEF TypeOK, Walk
  <2>4. d # s /\ th'[d].pc = "none"
    BY <1>1, <2>3 DEF Walk
  <2>5. StageGoverned(d)' /\ ThreadGoverned(d)'
    BY <2>1, <2>4 DEF StageGoverned, ThreadGoverned, Waits, Working
  <2>6. \A r \in Stages \ {s, d} : StageGoverned(r)' /\ ThreadGoverned(r)'
    BY <1>1, <1>2, <2>1, UntouchedGoverned DEF Governance
  <2>7. th'[s].pc = "skip" /\ th'[s].inc = th[s].inc /\ th[s].pc = "skip"
    BY <1>0, <1>22 DEF SkipDownstream, At, Places
  <2>8. StageGoverned(s)' /\ ThreadGoverned(s)'
    BY <1>2, <1>3, <2>1, <2>4, <2>7 DEF StageGoverned, ThreadGoverned, Waits, Working, Granted
  <2> QED
    BY <1>1, <1>2, <1>3, <2>1, <2>5, <2>6, <2>8 DEF Governance, RequestsGoverned
<1> QED
  BY <1>6, <1>7, <1>8, <1>9, <1>10, <1>11, <1>12, <1>13, <1>14, <1>15, <1>16, <1>17,
     <1>18, <1>19, <1>20, <1>21, <1>22 DEF ThreadStep

(* Between calls of run() no thread is under way. *)
LEMMA IdleGoverned ==
  ASSUME Walk, pc = "idle", Governance, UNCHANGED <<approvals, granted, pc, th>>,
         \A s \in Stages : st'[s] = st[s] \/ st'[s] = NewStage
                             \/ \E to \in {"rolled_back", "stale"} : st'[s] = Reset(st[s], to),
         st \in [Stages -> StageStates]
  PROVE  Governance'
<1>1. \A s \in Stages : ThreadGoverned(s)'
  BY DEF Walk, ThreadGoverned, Working
<1>2. ASSUME NEW s \in Stages PROVE StageGoverned(s)'
  <2>1. CASE st'[s] = st[s]
    BY <2>1 DEF Governance, StageGoverned, Granted, Waits
  <2>2. CASE st'[s] = NewStage
    BY <2>2 DEF NewStage, StageGoverned, Waits
  <2>3. ASSUME NEW to \in {"rolled_back", "stale"}, st'[s] = Reset(st[s], to)
        PROVE  StageGoverned(s)'
    <3>0. st[s] \in StageStates
      OBVIOUS
    <3>1. st'[s].status = to /\ st'[s].stale
      BY <2>3, <3>0 DEF Reset, StageStates
    <3> QED
      BY <3>1 DEF StageGoverned, Waits
  <2> QED
    BY <2>1, <2>2, <2>3
<1> QED
  BY <1>1, <1>2 DEF Governance, RequestsGoverned

(* An operator keeps governance, unless the plan changes under run(). *)
LEMMA OperatorGoverns ==
  ASSUME HandsOff, TypeOK, Walk, Governance, OperatorStep
  PROVE  Governance'
<1>0. th \in [Stages -> Places] /\ st \in [Stages -> StageStates]
  BY DEF TypeOK
<1>1. CASE RequestSafeStop \/ ResumeFromSafeStop \/ Restart
  <2>1. UNCHANGED <<st, approvals, granted, th, pc, runnable>>
    BY <1>1 DEF RequestSafeStop, ResumeFromSafeStop, Restart, runVars, storeVars
  <2>2. \A s \in Stages : StageGoverned(s)' /\ ThreadGoverned(s)'
    BY <2>1, UntouchedGoverned DEF Governance
  <2> QED
    BY <2>1, <2>2 DEF Governance, RequestsGoverned, IsActionable
<1>2. CASE Crash
  <2>1. \A s \in Stages : th'[s].pc = "none"
    BY <1>2 DEF Crash, NoThread
  <2>2. UNCHANGED <<st, approvals, granted>> /\ pc' = "idle"
    BY <1>2 DEF Crash, Return, storeVars
  <2>3. \A s \in Stages : ThreadGoverned(s)'
    BY <2>1 DEF ThreadGoverned, Working
  <2>4. \A s \in Stages : StageGoverned(s)'
    BY <2>2 DEF Governance, StageGoverned, Granted, Waits
  <2> QED
    BY <2>2, <2>3, <2>4 DEF Governance, RequestsGoverned
<1>3. CASE Decide
  <2>1. PICK s \in Stages, g \in ApprovalGates, i \in Incarnations,
             decision \in {"approved", "rejected"} : Resolve(s, g, i, decision)
    BY <1>3 DEF Decide
  <2>2. granted \subseteq granted' /\ UNCHANGED <<st, th, pc, runnable>>
    BY <2>1 DEF Resolve, runVars
  <2>3. \A r \in Stages : StageGoverned(r)' /\ ThreadGoverned(r)'
    BY <2>2, UntouchedGoverned DEF Governance
  <2>4. ASSUME NEW r \in Stages, NEW h \in Gates, NEW j \in Incarnations,
               approvals'[r][h][j] = "approved"
        PROVE  <<r, h, j>> \in granted'
    <3>0. g \in Gates
      BY GatesAssumption
    <3>1. CASE r = s /\ h = g /\ j = i
      BY <2>1, <2>4, <3>0, <3>1 DEF Resolve, TypeOK
    <3>2. CASE ~(r = s /\ h = g /\ j = i)
      <4>1. approvals[r][h][j] = "approved"
        BY <2>1, <2>4, <3>0, <3>2 DEF Resolve, TypeOK
      <4> QED
        BY <2>2, <4>1 DEF Governance, RequestsGoverned
    <3> QED
      BY <3>1, <3>2
  <2> QED
    BY <2>2, <2>3, <2>4 DEF Governance, RequestsGoverned, IsActionable
<1>4. ASSUME NEW s \in Stages, Rollback(s) \/ Invalidate(s) PROVE Governance'
  <2>1. pc = "idle" /\ UNCHANGED <<approvals, granted, pc, th>>
    BY <1>4 DEF Rollback, Invalidate, Operate, HandsOff, runVars
  <2>2. \A r \in Stages : st'[r] = st[r]
                \/ \E to \in {"rolled_back", "stale"} : st'[r] = Reset(st[r], to)
    BY <1>4 DEF Rollback, Invalidate
  <2> QED
    BY <1>0, <2>1, <2>2, IdleGoverned
<1>5. ASSUME NEW new \in Insertions, InsertStage(new) PROVE Governance'
  <2>1. pc = "idle" /\ UNCHANGED <<approvals, granted, pc, th>>
    BY <1>5 DEF InsertStage, Operate, HandsOff, runVars
  <2>2. \A r \in Stages : st'[r] = st[r] \/ st'[r] = NewStage \/ st'[r] = Reset(st[r], "stale")
    BY <1>5 DEF InsertStage
  <2> QED
    BY <1>0, <2>1, <2>2, IdleGoverned
<1> QED
  BY <1>1, <1>2, <1>3, <1>4, <1>5 DEF OperatorStep

(* Governance holds in every reachable state. *)
LEMMA GovernanceCorrect ==
  ASSUME HandsOff
  PROVE  Spec => [](TypeOK /\ Walk /\ Governance)
<1>1. Init => Governance
  BY DEF Init, Governance, RequestsGoverned, StageGoverned, ThreadGoverned, Waits, Working,
         NewStage, NoThread
<1>2. TypeOK /\ Walk /\ Governance /\ [Next]_vars => Governance'
  <2> SUFFICES ASSUME TypeOK, Walk, Governance, [Next]_vars PROVE Governance'
    OBVIOUS
  <2>1. CASE UNCHANGED vars
    <3>1. UNCHANGED <<st, approvals, granted, th, pc, runnable>>
      BY <2>1 DEF vars, storeVars, runVars
    <3>2. \A s \in Stages : StageGoverned(s)' /\ ThreadGoverned(s)'
      BY <3>1, UntouchedGoverned DEF Governance
    <3> QED
      BY <3>1, <3>2 DEF Governance, RequestsGoverned, IsActionable
  <2> QED
    BY <2>1, RunGoverns, ThreadGoverns, OperatorGoverns DEF Next
<1> QED
  BY <1>1, <1>2, WalkCorrect, PTL DEF Spec

(* Governance: as long as re-planning happens between calls of run(), a    *)
(* stage counts as passed, and its agent runs, only with the approvals of  *)
(* its current incarnation (gates.py:66-71).                               *)
THEOREM GovernedAlways ==
  ASSUME HandsOff
  PROVE  Spec => []Governed
<1>1. Governance => Governed
  BY DEF Governance, StageGoverned, ThreadGoverned, Working, Governed
<1> QED
  BY <1>1, GovernanceCorrect, PTL

(* A stage that waits on its exit gate with output it has produced is not  *)
(* executed again, however often the run is resumed, crashes or has its    *)
(* approvals revised (executor.py:239-246).                                *)
THEOREM NoRerunAlways ==
  ASSUME HandsOff
  PROVE  Spec => NoRerunOnResume
<1> DEFINE Again(s) == /\ st[s].status = "blocked_approval" /\ st[s].arts /\ ~st[s].stale
                       /\ st'[s].inc = st[s].inc
                       /\ st'[s].status \in {"running", "retrying"}
           Never == \A s \in Stages : ~Again(s)
<1>1. TypeOK /\ Walk /\ Governance /\ [Next]_vars => Never
  <2> SUFFICES ASSUME TypeOK, Walk, Governance, [Next]_vars, NEW s \in Stages, Again(s)
               PROVE  FALSE
    OBVIOUS
  <2>0. /\ th \in [Stages -> Places] /\ st \in [Stages -> StageStates]
        /\ Waits(st[s]) /\ st'[s] # st[s] /\ st'[s].status \in {"running", "retrying"}
    BY DEF TypeOK, Waits
  <2>1. ASSUME NEW r \in Stages, ThreadStep(r) PROVE FALSE
    <3>1. BeginAttempt(r) \/ RetryStage(r)
      <4>1. ASSUME NEW d \in Stages, SkipDownstream(r, d) PROVE FALSE
        BY <2>0, <4>1 DEF SkipDownstream, Skipped, StageStates
      <4>2. ASSUME AgentSucceeds(r) PROVE FALSE
        BY <2>0, <4>2 DEF AgentSucceeds, Waits, StageStates
      <4>3. ASSUME Block(r) \/ PassStage(r) \/ FailStage(r) PROVE FALSE
        BY <2>0, <4>3 DEF Block, PassStage, FailStage, StageStates
      <4> QED
        BY <2>0, <2>1, <4>1, <4>2, <4>3
           DEF ThreadStep, StartThread, CheckApproval, CheckPolicy, Enter, AgentFails, Accept,
               InvokeFallback, GiveUp, Propagate, Propagated
    <3>2. r = s
      BY <2>0, <3>1 DEF BeginAttempt, RetryStage
    <3> QED
      BY <2>0, <3>1, <3>2 DEF BeginAttempt, RetryStage, At, Governance, ThreadGoverned
  <2>2. CASE CallRun \/ RunStep
    <3>1. ASSUME NEW d \in Stages, SkipBlocked(d) PROVE FALSE
      BY <2>0, <3>1 DEF SkipBlocked, Skipped, StageStates
    <3> QED
      BY <2>0, <2>2, <3>1
         DEF RunStep, CallRun, Unpause, StartLayer, PlanLayer, Submit, Join, Pause, Reload,
             Finalize, Finish, storeVars
  <2>3. CASE OperatorStep
    <3>1. ASSUME NEW r \in Stages, Rollback(r) \/ Invalidate(r) PROVE FALSE
      <4>1. st'[s] = Reset(st[s], "rolled_back") \/ st'[s] = Reset(st[s], "stale")
        BY <2>0, <3>1 DEF Rollback, Invalidate
      <4> QED
        BY <2>0, <4>1 DEF Reset, StageStates
    <3>2. ASSUME NEW new \in Insertions, InsertStage(new) PROVE FALSE
      BY <2>0, <3>2 DEF InsertStage, Reset, NewStage, StageStates
    <3> QED
      BY <2>0, <2>3, <3>1, <3>2
         DEF OperatorStep, RequestSafeStop, ResumeFromSafeStop, Crash, Restart, Decide, Resolve,
             storeVars
  <2>4. CASE UNCHANGED vars
    BY <2>0, <2>4 DEF vars, storeVars
  <2> QED
    BY <2>1, <2>2, <2>3, <2>4 DEF Next
<1>2. Spec => [][Never]_vars
  <2> HIDE DEF Never
  <2> QED
    BY <1>1, GovernanceCorrect, PTL DEF Spec
<1>3. Never => \A s \in Stages :
          /\ st[s].status = "blocked_approval" /\ st[s].arts /\ ~st[s].stale
          /\ st'[s].inc = st[s].inc
          => st'[s].status \notin {"running", "retrying"}
  OBVIOUS
<1> QED
  <2> HIDE DEF Never
  <2> QED
    BY <1>2, <1>3, PTL DEF NoRerunOnResume

-----------------------------------------------------------------------------
(* The attempts *)

(* A stage that may have nothing to show asks nobody about it: a stage     *)
(* that waits with no output is executed again, and counted again, on      *)
(* every resume (executor.py:237).                                         *)
EmptyNeverWaits ==
  \A s \in MayBeEmpty : \A k \in 1 .. Len(ExitGates[s]) : ExitGates[s][k] \notin ApprovalGates

(* Every stage gets an attempt. *)
LEMMA LimitPositive == \A s \in Stages : AttemptLimit(s) \in Nat \ {0}
  BY PolicyAssumption DEF AttemptLimit

(* Whatever a stage keeps of its attempts, its budget is kept. *)
LEMMA KeptFrugal ==
  ASSUME NEW r \in Stages, Frugal(r), th'[r] = th[r],
         st'[r] = st[r] \/ (st'[r] = Skipped(st[r]) /\ st[r] \in StageStates)
  PROVE  Frugal(r)'
<1>1. CASE st'[r] = st[r]
  BY <1>1 DEF Frugal, AttemptBudget
<1>2. CASE st'[r] = Skipped(st[r]) /\ st[r] \in StageStates
  <2>1. /\ st'[r].status = "skipped" /\ st'[r].attempts = st[r].attempts
        /\ st'[r].stale = st[r].stale /\ st'[r].arts = st[r].arts
    BY <1>2 DEF Skipped, StageStates
  <2> QED
    BY <2>1 DEF Frugal, AttemptBudget
<1> QED
  BY <1>1, <1>2

(* A step of run() makes no attempt. *)
LEMMA RunFrugal ==
  ASSUME TypeOK, Walk, \A s \in Stages : Frugal(s), CallRun \/ RunStep, NEW r \in Stages
  PROVE  Frugal(r)'
<1>0. /\ th \in [Stages -> Places] /\ st \in [Stages -> StageStates]
  BY DEF TypeOK
<1>1. CASE CallRun \/ Unpause \/ StartLayer \/ PlanLayer \/ Join \/ Pause \/ Reload \/ Finalize
           \/ Finish
  <2>1. UNCHANGED <<st, th>>
    BY <1>1 DEF CallRun, Unpause, StartLayer, PlanLayer, Join, Pause, Reload, Finalize, Finish,
                storeVars
  <2> QED
    BY <2>1, KeptFrugal
<1>2. CASE Submit
  <2>1. st' = st /\ (th'[r] = th[r] \/ (th'[r].pc = "start" /\ ~th'[r].fallback))
    BY <1>2 DEF Submit, NoThread, storeVars
  <2> QED
    BY <2>1, KeptFrugal DEF Frugal, AttemptBudget
<1>3. ASSUME NEW d \in Stages, SkipBlocked(d) PROVE Frugal(r)'
  <2>1. th' = th /\ (st'[r] = st[r] \/ st'[r] = Skipped(st[r]))
    BY <1>0, <1>3 DEF SkipBlocked
  <2> QED
    BY <1>0, <2>1, KeptFrugal
<1> QED
  BY <1>1, <1>2, <1>3 DEF RunStep

(* A step of a thread stays within the budget of its stage. *)
LEMMA ThreadFrugal ==
  ASSUME EmptyNeverWaits, TypeOK, Walk, Governance, \A r \in Stages : Frugal(r),
         NEW s \in Stages, ThreadStep(s), NEW r \in Stages
  PROVE  Frugal(r)'
<1>0. /\ th \in [Stages -> Places] /\ st \in [Stages -> StageStates]
      /\ th[s] \in Places /\ st[s] \in StageStates
      /\ th[s].attempt \in Nat /\ st[s].attempts \in Nat
      /\ AttemptLimit(s) \in Nat \ {0}
  BY LimitPositive DEF TypeOK, Places, StageStates
<1>1. /\ pc = "join" /\ s \in layer
      /\ \A d \in Stages \ {s} : th'[d] = th[d]
  BY ThreadFrame
<1>2. Frugal(s) /\ ThreadGoverned(s) /\ StageGoverned(s)
  BY DEF Governance
<1>3. ASSUME \A d \in Stages \ {s} : st'[d] = st[d], Frugal(s)' PROVE Frugal(r)'
  BY <1>1, <1>3, KeptFrugal
<1>4. CASE StartThread(s)
  <2>1. st' = st /\ IsActionable(st[s])
    BY <1>2, <1>4 DEF StartThread, At, ThreadGoverned
  <2>2. /\ th'[s].pc = IF Waits(st[s]) THEN "recheck" ELSE "entry"
        /\ th'[s].fallback = FALSE
    BY <1>0, <1>4 DEF StartThread, NoThread
  <2>3. ~Waits(st[s]) => st[s].attempts = 0 \/ st[s].stale
    BY <1>2, <2>1 DEF Frugal, Waits, IsActionable, StageGoverned
  <2>4. Frugal(s)'
    BY <1>2, <2>1, <2>2, <2>3 DEF Frugal, AttemptBudget
  <2> QED
    BY <1>3, <2>1, <2>4
<1>5. CASE CheckApproval(s) \/ CheckPolicy(s)
  <2>1. st' = st /\ th[s].pc \in {"entry", "exit", "recheck"} /\ th[s].gate \in Nat
    BY <1>0, <1>5 DEF CheckApproval, CheckPolicy, AtGate, Places
  <2>2. /\ \/ th'[s].pc = th[s].pc
           \/ th'[s].pc \in {"none", "fail"}
           \/ th[s].pc = "entry" /\ th'[s].pc = "entry_block"
           \/ th[s].pc = "exit" /\ th'[s].pc = "attempt_failed"
           \/ th[s].pc = "exit" /\ th'[s].pc = "exit_block" /\ CheckApproval(s)
        /\ \/ th'[s].pc = "none" /\ ~th'[s].fallback
           \/ th'[s].fallback = th[s].fallback /\ th'[s].attempt = th[s].attempt
    BY <1>0, <1>5, <2>1
       DEF CheckApproval, CheckPolicy, WhenBlocked, WhenRejected, NoThread, Places
  <2>3. CheckApproval(s) /\ th[s].pc = "exit" => s \notin MayBeEmpty
    <3> SUFFICES ASSUME CheckApproval(s), th[s].pc = "exit", s \in MayBeEmpty PROVE FALSE
      OBVIOUS
    <3>1. /\ th[s].gate \in 1 .. Len(ExitGates[s])
          /\ ExitGates[s][th[s].gate] \in ApprovalGates
      <4>1. MoreGates(s) /\ Gate(s) \in ApprovalGates /\ th[s].gate \in Nat \ {0}
        BY <1>0 DEF CheckApproval, AtGate, Places
      <4>2. GatesOf(s) = ExitGates[s] /\ Len(ExitGates[s]) \in Nat
        BY GatesAssumption DEF GatesOf
      <4> QED
        BY <4>1, <4>2 DEF MoreGates, Gate
    <3> QED
      BY <3>1 DEF EmptyNeverWaits
  <2>4. Frugal(s)'
    BY <1>2, <2>1, <2>2, <2>3 DEF Frugal, AttemptBudget
  <2> QED
    BY <1>3, <2>1, <2>4
<1>6. CASE Block(s)
  <2>1. /\ th[s].pc \in {"entry_block", "exit_block"} /\ th'[s].pc = "none" /\ ~th'[s].fallback
        /\ st'[s].status = "blocked_approval" /\ st'[s].attempts = st[s].attempts
        /\ st'[s].stale = st[s].stale /\ st'[s].arts = st[s].arts
        /\ \A d \in Stages \ {s} : st'[d] = st[d]
    BY <1>0, <1>6 DEF Block, Exit, NoThread, StageStates
  <2>2. Frugal(s)'
    BY <1>2, <2>1 DEF Frugal, AttemptBudget
  <2> QED
    BY <1>3, <2>1, <2>2
<1>7. CASE Enter(s)
  <2>1. /\ st' = st /\ th[s].pc = "entry" /\ th'[s].pc = "begin"
        /\ th'[s].fallback = th[s].fallback /\ th'[s].attempt = AttemptsSoFar(st[s])
    BY <1>0, <1>7 DEF Enter, At, Places
  <2>2. th'[s].attempt = 0 /\ ~th'[s].fallback
    BY <1>2, <2>1 DEF Frugal, AttemptsSoFar
  <2>3. Frugal(s)'
    BY <1>0, <1>2, <2>1, <2>2 DEF Frugal, AttemptBudget
  <2> QED
    BY <1>3, <2>1, <2>3
<1>8. CASE BeginAttempt(s)
  <2>1. /\ th[s].pc = "begin" /\ th'[s].pc = "agent" /\ th'[s].attempt = th[s].attempt + 1
        /\ th'[s].fallback = th[s].fallback
        /\ st'[s].status \in {"running", "retrying"} /\ st'[s].attempts = th[s].attempt + 1
        /\ \A d \in Stages \ {s} : st'[d] = st[d]
    BY <1>0, <1>8 DEF BeginAttempt, At, Places, StageStates
  <2>2. Frugal(s)'
    BY <1>0, <1>2, <2>1 DEF Frugal, AttemptBudget
  <2> QED
    BY <1>3, <2>1, <2>2
<1>9. CASE AgentFails(s)
  <2>1. /\ st' = st /\ th[s].pc = "agent" /\ th'[s].pc = "attempt_failed"
        /\ th'[s].fallback = th[s].fallback /\ th'[s].attempt = th[s].attempt
    BY <1>0, <1>9 DEF AgentFails, At, Goto, Places
  <2>2. Frugal(s)'
    BY <1>2, <2>1 DEF Frugal, AttemptBudget
  <2> QED
    BY <1>3, <2>1, <2>2
<1>10. CASE AgentSucceeds(s)
  <2>1. PICK some \in IF s \in MayBeEmpty THEN BOOLEAN ELSE {TRUE} :
            st' = [st EXCEPT ![s].arts = @ \/ some]
    BY <1>10 DEF AgentSucceeds
  <2>2. /\ th[s].pc = "agent" /\ th'[s].pc = "exit"
        /\ th'[s].fallback = th[s].fallback /\ th'[s].attempt = th[s].attempt
    BY <1>0, <1>10 DEF AgentSucceeds, At, Places
  <2>3. /\ st'[s].status = st[s].status /\ st'[s].attempts = st[s].attempts
        /\ st'[s].stale = st[s].stale /\ st'[s].arts = (st[s].arts \/ some)
        /\ \A d \in Stages \ {s} : st'[d] = st[d]
    BY <1>0, <2>1 DEF StageStates
  <2>4. st'[s].arts \/ s \in MayBeEmpty
    BY <2>1, <2>3
  <2>5. st[s].status \in {"running", "retrying"}
    BY <1>2, <2>2 DEF ThreadGoverned
  <2>6. Frugal(s)'
    BY <1>2, <2>2, <2>3, <2>4, <2>5 DEF Frugal, AttemptBudget
  <2> QED
    BY <1>3, <2>3, <2>6
<1>11. CASE Accept(s)
  <2>1. /\ st' = st /\ th[s].pc \in {"exit", "recheck"} /\ th'[s].pc = "pass"
        /\ th'[s].fallback = th[s].fallback /\ th'[s].attempt = th[s].attempt
    BY <1>0, <1>11 DEF Accept, At, Goto, Places
  <2>2. Frugal(s)'
    BY <1>2, <2>1 DEF Frugal, AttemptBudget
  <2> QED
    BY <1>3, <2>1, <2>2
<1>12. CASE PassStage(s)
  <2>1. /\ th'[s].pc = "none" /\ ~th'[s].fallback
        /\ st'[s].status = "passed" /\ st'[s].attempts = st[s].attempts
        /\ \A d \in Stages \ {s} : st'[d] = st[d]
    BY <1>0, <1>12 DEF PassStage, Exit, NoThread, StageStates
  <2>2. Frugal(s)'
    BY <1>2, <2>1 DEF Frugal, AttemptBudget
  <2> QED
    BY <1>3, <2>1, <2>2
<1>13. CASE RetryStage(s)
  <2>1. /\ th[s].pc = "attempt_failed" /\ th'[s].pc = "begin"
        /\ th[s].attempt < AttemptLimit(s)
        /\ th'[s].fallback = th[s].fallback /\ th'[s].attempt = th[s].attempt
        /\ st'[s].status = "retrying" /\ st'[s].attempts = th[s].attempt
        /\ \A d \in Stages \ {s} : st'[d] = st[d]
    BY <1>0, <1>13 DEF RetryStage, At, Goto, Places, StageStates
  <2>2. Frugal(s)'
    BY <1>0, <1>2, <2>1 DEF Frugal, AttemptBudget
  <2> QED
    BY <1>3, <2>1, <2>2
<1>14. CASE InvokeFallback(s)
  <2>1. /\ st' = st /\ th[s].pc = "attempt_failed" /\ th'[s].pc = "begin"
        /\ th[s].attempt >= AttemptLimit(s) /\ ~th[s].fallback /\ s \in WithFallback
        /\ th'[s].fallback = TRUE /\ th'[s].attempt = th[s].attempt
    BY <1>0, <1>14 DEF InvokeFallback, At, Places
  <2>2. Frugal(s)'
    BY <1>0, <1>2, <2>1 DEF Frugal, AttemptBudget
  <2> QED
    BY <1>3, <2>1, <2>2
<1>15. CASE GiveUp(s) \/ Propagate(s) \/ Propagated(s)
  <2>1. /\ st' = st /\ th'[s].pc \in {"fail", "skip", "none"}
        /\ th'[s].fallback => th[s].fallback
    <3>1. CASE GiveUp(s)
      BY <1>0, <3>1 DEF GiveUp, Goto, Places
    <3>2. CASE Propagate(s)
      BY <1>0, <3>2 DEF Propagate, Places
    <3>3. CASE Propagated(s)
      BY <1>0, <3>3 DEF Propagated, Exit, NoThread
    <3> QED
      BY <1>15, <3>1, <3>2, <3>3
  <2>2. Frugal(s)'
    BY <1>2, <2>1 DEF Frugal, AttemptBudget
  <2> QED
    BY <1>3, <2>1, <2>2
<1>16. CASE FailStage(s)
  <2>1. /\ th'[s].pc = "propagate" /\ th'[s].fallback = th[s].fallback
        /\ st'[s].status = "failed" /\ st'[s].attempts = st[s].attempts
        /\ \A d \in Stages \ {s} : st'[d] = st[d]
    BY <1>0, <1>16 DEF FailStage, Goto, Places, StageStates
  <2>2. Frugal(s)'
    BY <1>2, <2>1 DEF Frugal, AttemptBudget
  <2> QED
    BY <1>3, <2>1, <2>2
<1>17. ASSUME NEW d \in Stages, SkipDownstream(s, d) PROVE Frugal(r)'
  <2>1. st'[r] = st[r] \/ st'[r] = Skipped(st[r])
    BY <1>0, <1>17 DEF SkipDownstream
  <2>2. CASE r # s
    BY <1>0, <1>1, <2>1, <2>2, KeptFrugal
  <2>3. CASE r = s
    <3>1. th'[s].pc = "skip" /\ th'[s].fallback = th[s].fallback
      BY <1>0, <1>17 DEF SkipDownstream, At, Places
    <3>2. /\ st'[s].status \in {st[s].status, "skipped"} /\ st'[s].attempts = st[s].attempts
          /\ st'[s].stale = st[s].stale /\ st'[s].arts = st[s].arts
      BY <1>0, <2>1, <2>3 DEF Skipped, StageStates
    <3> QED
      BY <1>2, <2>3, <3>1, <3>2 DEF Frugal, AttemptBudget
  <2> QED
    BY <2>2, <2>3
<1> QED
  BY <1>4, <1>5, <1>6, <1>7, <1>8, <1>9, <1>10, <1>11, <1>12, <1>13, <1>14, <1>15, <1>16,
     <1>17 DEF ThreadStep

(* What is set aside may start over: its old attempts no longer count. *)
LEMMA OperatorFrugal ==
  ASSUME HandsOff, TypeOK, Walk, \A s \in Stages : Frugal(s), OperatorStep, NEW r \in Stages
  PROVE  Frugal(r)'
<1>0. /\ st[r] \in StageStates /\ Frugal(r) /\ AttemptLimit(r) \in Nat \ {0}
  BY LimitPositive DEF TypeOK
<1>1. CASE RequestSafeStop \/ ResumeFromSafeStop \/ Restart \/ Decide
  <2>1. UNCHANGED <<st, th>>
    BY <1>1 DEF RequestSafeStop, ResumeFromSafeStop, Restart, Decide, Resolve, storeVars
  <2> QED
    BY <1>0, <2>1, KeptFrugal
<1>2. CASE Crash
  <2>1. st' = st /\ th'[r].pc = "none" /\ ~th'[r].fallback
    BY <1>2 DEF Crash, NoThread, storeVars
  <2> QED
    BY <1>0, <2>1 DEF Frugal, AttemptBudget
<1>3. ASSUME pc = "idle", th' = th,
             st'[r] = st[r] \/ st'[r] = NewStage
               \/ \E to \in {"rolled_back", "stale"} : st'[r] = Reset(st[r], to)
      PROVE  Frugal(r)'
  <2>1. th'[r].pc = "none"
    BY <1>3 DEF Walk
  <2>2. CASE st'[r] = st[r]
    BY <1>0, <1>3, <2>2, KeptFrugal
  <2>3. CASE st'[r] = NewStage
    BY <1>0, <1>3, <2>1, <2>3 DEF NewStage, Frugal, AttemptBudget
  <2>4. ASSUME NEW to \in {"rolled_back", "stale"}, st'[r] = Reset(st[r], to) PROVE Frugal(r)'
    <3>1. st'[r].status = to /\ st'[r].attempts = st[r].attempts
      BY <1>0, <2>4 DEF Reset, StageStates
    <3> QED
      BY <1>0, <1>3, <2>1, <3>1 DEF Frugal, AttemptBudget
  <2> QED
    BY <1>3, <2>2, <2>3, <2>4
<1>4. ASSUME NEW s \in Stages, Rollback(s) \/ Invalidate(s) PROVE Frugal(r)'
  <2>1. pc = "idle" /\ th' = th
    BY <1>4 DEF Rollback, Invalidate, Operate, HandsOff
  <2>2. st'[r] = st[r] \/ \E to \in {"rolled_back", "stale"} : st'[r] = Reset(st[r], to)
    BY <1>4 DEF Rollback, Invalidate
  <2> QED
    BY <1>3, <2>1, <2>2
<1>5. ASSUME NEW new \in Insertions, InsertStage(new) PROVE Frugal(r)'
  <2>1. pc = "idle" /\ th' = th
    BY <1>5 DEF InsertStage, Operate, HandsOff
  <2>2. st'[r] = st[r] \/ st'[r] = NewStage \/ st'[r] = Reset(st[r], "stale")
    BY <1>5 DEF InsertStage
  <2> QED
    BY <1>3, <2>1, <2>2
<1> QED
  BY <1>1, <1>2, <1>4, <1>5 DEF OperatorStep

(* Retries are bounded: whatever is resumed, set aside or crashed, an      *)
(* incarnation of a stage gets at most its max_attempts and one attempt of *)
(* the fallback agent (executor.py:267-335).                               *)
THEOREM AttemptsAlwaysBounded ==
  ASSUME HandsOff, EmptyNeverWaits
  PROVE  Spec => []AttemptsBounded
<1> DEFINE AllFrugal == \A r \in Stages : Frugal(r)
<1>1. Init => AllFrugal
  BY LimitPositive DEF Init, Frugal, AttemptBudget, NewStage, NoThread
<1>2. TypeOK /\ Walk /\ Governance /\ AllFrugal /\ [Next]_vars => AllFrugal'
  <2> SUFFICES ASSUME TypeOK, Walk, Governance, AllFrugal, [Next]_vars, NEW r \in Stages
               PROVE  Frugal(r)'
    OBVIOUS
  <2>1. CASE UNCHANGED vars
    BY <2>1, KeptFrugal DEF vars, storeVars
  <2> QED
    BY <2>1, RunFrugal, ThreadFrugal, OperatorFrugal DEF Next
<1>3. AllFrugal => AttemptsBounded
  BY DEF Frugal, AttemptBudget, AttemptsBounded
<1> QED
  <2> HIDE DEF AllFrugal
  <2> QED
    BY <1>1, <1>2, <1>3, GovernanceCorrect, PTL DEF Spec

-----------------------------------------------------------------------------
(* The refinement *)

(* Operators leave run() alone while it is in progress, and change the     *)
(* plan only by setting stages aside.                                      *)
Contained == Undisturbed /\ "insert" \notin Operations

(* Nothing that was asked is forgotten. *)
StillAsked == \A s \in Stages, g \in ApprovalGates, i \in Incarnations :
                 approvals[s][g][i] # "none" => approvals'[s][g][i] # "none"

-----------------------------------------------------------------------------
(* The accounts *)

(* A stage nothing happens to stays accounted for, and what a thread is    *)
(* about to skip may have been skipped by another.                         *)
LEMMA UntouchedAccounted ==
  ASSUME TypeOK, NEW r \in Stages, StageAccounted(r), th'[r] = th[r], st'[r] = st[r],
         StillAsked,
         \A d \in th[r].skips : st'[d] = st[d] \/ st'[d].status = "skipped"
  PROVE  StageAccounted(r)'
<1>1. st[r].inc \in Incarnations
  BY DEF TypeOK, StageStates
<1>2. IsAsked(r) => IsAsked(r)'
  BY <1>1 DEF IsAsked, StillAsked
<1> QED
  BY <1>2 DEF StageAccounted, AtWork, IsActionable

(* A step of run() keeps the accounts. *)
LEMMA RunAccounts ==
  ASSUME TypeOK, Walk, Barrier, Accounted, CallRun \/ RunStep
  PROVE  Accounted'
<1>0. /\ th \in [Stages -> Places] /\ st \in [Stages -> StageStates]
      /\ layer \subseteq Stages /\ done \subseteq Stages /\ mem \in Graphs
      /\ InitialGraph.nodes \subseteq Stages
      /\ status \in RunStatuses
  BY GraphAssumption DEF TypeOK, Graphs
<1>a. ASSUME UNCHANGED <<st, th, approvals>> PROVE \A s \in Stages : StageAccounted(s)'
  BY <1>a, UntouchedAccounted DEF Accounted, StillAsked
<1>b. ASSUME UNCHANGED <<st, th, approvals, graph, mem, status>>, Return,
             status = "paused_approval" => HasBlocked(InitialGraph.nodes)
      PROVE  Accounted'
  BY <1>a, <1>b DEF Return, Accounted, HasBlocked
<1>1. CASE CallRun
  <2>1. /\ UNCHANGED <<st, th, approvals, graph, status, done, layer>>
        /\ mem' = graph /\ pc = "idle"
        /\ pc' \in {"idle", "unpause", "layer"}
        /\ status = "paused_approval" => pc' = "unpause"
    BY <1>1 DEF CallRun, storeVars
  <2> QED
    BY <1>a, <2>1 DEF Accounted, HasBlocked
<1>2. CASE Unpause
  BY <1>a, <1>2 DEF Unpause, Accounted
<1>3. CASE StartLayer
  <2>1. UNCHANGED <<st, th, approvals, graph, mem, status>> /\ pc = "layer"
    BY <1>3 DEF StartLayer, storeVars
  <2>2. status # "paused_approval"
    BY <2>1 DEF Accounted
  <2>3. CASE Return
    BY <1>b, <2>1, <2>2, <2>3
  <2>4. CASE pc' = "plan" /\ layer' = NextLayer(mem, done) /\ done' = done
    BY <1>a, <2>1, <2>2, <2>4 DEF Accounted, NextLayer
  <2> QED
    BY <1>3, <2>3, <2>4 DEF StartLayer
<1>4. CASE PlanLayer
  <2>1. /\ UNCHANGED <<st, th, approvals, graph, mem, status, done, layer>>
        /\ pc = "plan" /\ pc' = "skip"
        /\ \A s \in skipping' :
              IsActionable(st[s]) /\ \E d \in mem.deps[s] : BlocksDependents(st[d])
    BY <1>4 DEF PlanLayer, storeVars
  <2> QED
    BY <1>a, <2>1 DEF Accounted
<1>5. CASE Submit
  <2>1. /\ UNCHANGED <<st, approvals, graph, mem, status, done, layer>>
        /\ pc = "skip" /\ pc' = "join"
        /\ \A s \in Stages : (th'[s] = th[s])
              \/ (s \in runnable /\ th'[s].pc = "start" /\ th'[s].skips = {})
    BY <1>5 DEF Submit, storeVars, NoThread
  <2>2. ASSUME NEW s \in Stages PROVE StageAccounted(s)'
    <3>1. CASE th'[s] = th[s]
      BY <2>1, <3>1, UntouchedAccounted DEF Accounted, StillAsked
    <3>2. CASE th'[s].pc = "start" /\ th'[s].skips = {}
      BY <2>1, <3>2 DEF Accounted, StageAccounted, IsAsked
    <3> QED
      BY <2>1, <3>1, <3>2
  <2> QED
    BY <2>1, <2>2 DEF Accounted
<1>6. CASE Join
  <2>1. /\ UNCHANGED <<st, th, approvals, graph, mem, status>> /\ pc = "join"
    BY <1>6 DEF Join, storeVars
  <2>2. status # "paused_approval"
    BY <2>1 DEF Accounted
  <2>3. CASE pc' = "pause" /\ UNCHANGED <<done, layer>> /\ HasBlocked(layer)
    BY <1>a, <2>1, <2>2, <2>3 DEF Accounted, HasBlocked
  <2>4. CASE Return
    BY <1>b, <2>1, <2>2, <2>4
  <2>5. CASE LayerDone
    BY <1>a, <2>1, <2>2, <2>5 DEF Accounted, LayerDone
  <2> QED
    BY <1>6, <2>3, <2>4, <2>5 DEF Join, HasBlocked
<1>7. CASE Pause
  <2>1. /\ UNCHANGED <<st, th, approvals, graph, mem, done, layer>>
        /\ pc = "pause" /\ pc' = "reload"
    BY <1>7 DEF Pause
  <2>2. HasBlocked(InitialGraph.nodes)
    BY <2>1 DEF Accounted, HasBlocked
  <2> QED
    BY <1>a, <2>1, <2>2 DEF Accounted, HasBlocked
<1>8. CASE Reload
  <2>1. /\ UNCHANGED <<st, th, approvals, graph, mem, status>> /\ pc = "reload"
    BY <1>8 DEF Reload, storeVars
  <2>2. CASE Return
    BY <1>b, <2>1, <2>2 DEF Accounted
  <2>3. CASE LayerDone /\ status \notin Paused
    BY <1>a, <2>1, <2>3 DEF Accounted, LayerDone, Paused
  <2> QED
    BY <1>8, <2>2, <2>3 DEF Reload
<1>9. CASE Finalize
  <2>1. /\ UNCHANGED <<st, th, approvals, graph, mem, status, done, layer>>
        /\ pc = "layer" /\ pc' = "finish" /\ graph = InitialGraph
    BY <1>9 DEF Finalize, storeVars, Accounted
  <2>2. VerdictHolds'
    <3> DEFINE statuses == {st[s].status : s \in InitialGraph.nodes}
    <3>1. verdict' = CASE "failed" \in statuses -> "failed"
                       [] statuses \subseteq {"passed", "skipped"} -> "completed"
                       [] OTHER -> "running"
      BY <1>9, <2>1 DEF Finalize
    <3>2. CASE "failed" \in statuses
      <4>1. verdict' = "failed"
        BY <3>1, <3>2
      <4> QED
        BY <2>1, <3>2, <4>1 DEF VerdictHolds
    <3>3. CASE "failed" \notin statuses /\ statuses \subseteq {"passed", "skipped"}
      <4>1. verdict' = "completed"
        BY <3>1, <3>3
      <4>2. \A s \in InitialGraph.nodes : st[s].status \in {"passed", "skipped"}
        BY <3>3
      <4> QED
        BY <2>1, <4>1, <4>2 DEF VerdictHolds
    <3>4. CASE "failed" \notin statuses /\ ~(statuses \subseteq {"passed", "skipped"})
      <4>1. verdict' = "running"
        BY <3>1, <3>4
      <4> QED
        BY <4>1 DEF VerdictHolds
    <3> QED
      BY <3>2, <3>3, <3>4
  <2> QED
    BY <1>a, <2>1, <2>2 DEF Accounted
<1>10. CASE Finish
  <2>1. /\ UNCHANGED <<st, th, approvals, graph, mem>> /\ pc' = "idle"
        /\ done' = {} /\ layer' = {}
        /\ pc = "finish" /\ status' = verdict
    BY <1>10 DEF Finish, Return
  <2>2. status' # "paused_approval"
    BY <2>1 DEF Accounted, VerdictHolds
  <2> QED
    BY <1>a, <2>1, <2>2 DEF Accounted
<1>11. ASSUME NEW d \in Stages, SkipBlocked(d) PROVE Accounted'
  <2>1. /\ UNCHANGED <<th, approvals, graph, mem, status, done, layer>>
        /\ pc = "skip" /\ pc' = "skip" /\ d \in skipping /\ skipping' = skipping \ {d}
        /\ st'[d].status = "skipped" /\ st'[d].inc = st[d].inc
        /\ \A s \in Stages \ {d} : st'[s] = st[s]
    BY <1>0, <1>11 DEF SkipBlocked, Skipped, StageStates
  <2>2. th[d].pc = "none" /\ \A s \in Stages : th[s].pc = "none" /\ th[s].skips = {}
    BY <2>1 DEF Walk
  <2>3. ASSUME NEW s \in Stages PROVE StageAccounted(s)'
    <3>1. CASE s = d
      BY <2>1, <2>2, <3>1 DEF StageAccounted
    <3>2. CASE s # d
      BY <2>1, <2>2, <3>2, UntouchedAccounted DEF Accounted, StillAsked
    <3> QED
      BY <3>1, <3>2
  <2>4. ASSUME NEW s \in skipping'
        PROVE  IsActionable(st'[s]) /\ \E u \in mem.deps[s] : BlocksDependents(st'[u])
    <3>1. s \in skipping /\ s # d /\ s \in layer /\ d \in layer
      BY <2>1 DEF Walk
    <3>2. PICK u \in mem.deps[s] : BlocksDependents(st[u])
      BY <2>1, <3>1 DEF Accounted
    <3>3. u \in done /\ u # d /\ u \in Stages
      BY <1>0, <3>1 DEF Walk
    <3> QED
      BY <1>0, <2>1, <3>1, <3>2, <3>3 DEF Accounted
  <2>5. status # "paused_approval"
    BY <2>1 DEF Accounted
  <2> QED
    BY <2>1, <2>3, <2>4, <2>5 DEF Accounted
<1> QED
  BY <1>1, <1>2, <1>3, <1>4, <1>5, <1>6, <1>7, <1>8, <1>9, <1>10, <1>11 DEF RunStep

(* A step of a thread keeps the accounts. *)
LEMMA ThreadAccounts ==
  ASSUME TypeOK, Walk, Governance, Barrier, Accounted, NEW s \in Stages, ThreadStep(s)
  PROVE  Accounted'
<1>0. /\ th \in [Stages -> Places] /\ st \in [Stages -> StageStates]
      /\ th[s] \in Places /\ st[s] \in StageStates
      /\ done \subseteq Stages /\ layer \subseteq Stages /\ mem \in Graphs
  BY DEF TypeOK
<1>1. /\ pc = "join" /\ s \in layer
      /\ UNCHANGED <<pc, mem, done, layer, skipping, verdict, status, graph>>
      /\ \A r \in Stages \ {s} : th'[r] = th[r]
  BY ThreadFrame DEF runVars
<1>2. StageAccounted(s) /\ ThreadGoverned(s) /\ StageInStep(s)
  BY DEF Accounted, Governance, Barrier
<1>3. th[s].pc # "none"
  BY DEF ThreadStep, StartThread, CheckApproval, CheckPolicy, Block, Enter, BeginAttempt,
         AgentFails, AgentSucceeds, Accept, PassStage, RetryStage, InvokeFallback, GiveUp,
         FailStage, Propagate, Propagated, SkipDownstream, At, AtGate
<1>4. th[s].pc # "skip" => th[s].skips = {}
  BY DEF Walk
<1>5. ASSUME \A r \in Stages : StageAccounted(r)' PROVE Accounted'
  BY <1>1, <1>5 DEF Accounted
<1>6. ASSUME \A r \in Stages \ {s} : st'[r] = st[r], StillAsked, StageAccounted(s)'
      PROVE  Accounted'
  <2>1. ASSUME NEW r \in Stages \ {s}, NEW d \in th[r].skips PROVE st'[d] = st[d]
    <3>1. r \in layer /\ d \in DownstreamOf(mem, r) /\ d \in Stages
      BY <1>0, <2>1 DEF Walk, Places
    <3>2. d # s
      BY <1>0, <1>1, <3>1, DownstreamBeyond DEF Walk
    <3> QED
      BY <1>6, <3>1, <3>2
  <2> QED
    BY <1>1, <1>5, <1>6, <2>1, UntouchedAccounted DEF Accounted
<1>7. CASE StartThread(s)
  <2>1. st' = st /\ approvals' = approvals /\ th[s].pc = "start"
    BY <1>7 DEF StartThread, At
  <2>2. /\ th'[s].pc = IF Waits(st[s]) THEN "recheck" ELSE "entry"
        /\ th'[s].skips = {}
    BY <1>0, <1>7 DEF StartThread, NoThread
  <2>3. StageAccounted(s)'
    BY <1>2, <2>1, <2>2
       DEF StageAccounted, ThreadGoverned, Waits, IsActionable, AtWork, IsAsked
  <2> QED
    BY <1>6, <2>1, <2>3 DEF StillAsked
<1>8. CASE CheckApproval(s)
  <2>0. Gate(s) \in ApprovalGates /\ Gate(s) \in Gates
    BY <1>8, GatesAssumption DEF CheckApproval
  <2>1. st' = st /\ th[s].pc \in {"entry", "exit", "recheck"} /\ RequestOf(s) = st[s].inc
        /\ st[s].inc \in Incarnations
    BY <1>0, <1>2, <1>8 DEF CheckApproval, AtGate, RequestOf, ThreadGoverned, StageStates
  <2> DEFINE decision == approvals[s][Gate(s)][st[s].inc]
  <2>2. /\ approvals' = IF decision = "none"
                          THEN [approvals EXCEPT ![s][Gate(s)][st[s].inc] = "pending"]
                          ELSE approvals
        /\ th' = [th EXCEPT ![s] = CASE decision = "approved" -> [th[s] EXCEPT !.gate = @ + 1]
                                      [] decision = "rejected" -> WhenRejected(s)
                                      [] OTHER -> WhenBlocked(s)]
    BY <1>8, <2>1 DEF CheckApproval
  <2>3. /\ StillAsked
        /\ approvals'[s][Gate(s)][st[s].inc] # "none"
    BY <2>0, <2>1, <2>2, GatesAssumption DEF TypeOK, StillAsked
  <2>4. IsAsked(s)'
    BY <2>0, <2>1, <2>3 DEF IsAsked
  <2>5. /\ th'[s].skips = {}
        /\ \/ th'[s].pc = th[s].pc
           \/ th[s].pc = "entry" /\ th'[s].pc \in {"entry_block", "fail"}
           \/ th[s].pc = "exit" /\ th'[s].pc \in {"exit_block", "attempt_failed"}
           \/ th[s].pc = "recheck" /\ th'[s].pc \in {"none", "fail"}
    BY <1>0, <1>4, <2>1, <2>2 DEF WhenBlocked, WhenRejected, NoThread, Places
  <2>6. StageAccounted(s)'
    BY <1>2, <2>1, <2>4, <2>5
       DEF StageAccounted, StageInStep, IsActionable, AtWork
  <2> QED
    BY <1>6, <2>1, <2>3, <2>6
<1>9. CASE CheckPolicy(s)
  <2>1. st' = st /\ approvals' = approvals /\ th[s].pc \in {"entry", "exit", "recheck"}
    BY <1>9 DEF CheckPolicy, AtGate
  <2>2. /\ th'[s].skips = {}
        /\ \/ th'[s].pc = th[s].pc
           \/ th[s].pc \in {"entry", "recheck"} /\ th'[s].pc = "fail"
           \/ th[s].pc = "exit" /\ th'[s].pc = "attempt_failed"
    BY <1>0, <1>4, <1>9, <2>1 DEF CheckPolicy, WhenRejected, Places
  <2>3. StageAccounted(s)'
    BY <1>2, <2>1, <2>2 DEF StageAccounted, StageInStep, IsActionable, AtWork, IsAsked
  <2> QED
    BY <1>6, <2>1, <2>3 DEF StillAsked
<1>10. CASE Block(s)
  <2>1. /\ st'[s].status = "blocked_approval" /\ st'[s].inc = st[s].inc
        /\ th'[s].pc = "none" /\ th'[s].skips = {} /\ approvals' = approvals
        /\ \A r \in Stages \ {s} : st'[r] = st[r]
        /\ th[s].pc \in {"entry_block", "exit_block"}
    BY <1>0, <1>10 DEF Block, Exit, NoThread, StageStates
  <2>2. StageAccounted(s)'
    BY <1>2, <2>1 DEF StageAccounted, IsAsked
  <2> QED
    BY <1>6, <2>1, <2>2 DEF StillAsked
<1>11. CASE Enter(s)
  <2>1. /\ st' = st /\ approvals' = approvals /\ th[s].pc = "entry"
        /\ th'[s].pc = "begin" /\ th'[s].skips = th[s].skips
    BY <1>0, <1>11 DEF Enter, At, Places
  <2>2. StageAccounted(s)'
    BY <1>2, <1>4, <2>1 DEF StageAccounted, IsActionable, AtWork, IsAsked
  <2> QED
    BY <1>6, <2>1, <2>2 DEF StillAsked
<1>12. CASE BeginAttempt(s)
  <2>1. /\ st'[s].status \in {"running", "retrying"} /\ ~st'[s].stale
        /\ th'[s].pc = "agent" /\ th'[s].skips = {} /\ approvals' = approvals
        /\ \A r \in Stages \ {s} : st'[r] = st[r]
    BY <1>0, <1>4, <1>12 DEF BeginAttempt, At, Places, StageStates
  <2>2. StageAccounted(s)'
    BY <2>1 DEF StageAccounted, AtWork
  <2> QED
    BY <1>6, <2>1, <2>2 DEF StillAsked
<1>13. CASE AgentFails(s)
  <2>1. /\ st' = st /\ approvals' = approvals /\ th[s].pc = "agent"
        /\ th'[s].pc = "attempt_failed" /\ th'[s].skips = th[s].skips
    BY <1>0, <1>13 DEF AgentFails, At, Goto, Places
  <2>2. StageAccounted(s)'
    BY <1>2, <1>4, <2>1 DEF StageAccounted, AtWork, IsAsked
  <2> QED
    BY <1>6, <2>1, <2>2 DEF StillAsked
<1>14. CASE AgentSucceeds(s)
  <2>1. /\ st'[s].status = st[s].status /\ st'[s].stale = st[s].stale
        /\ th[s].pc = "agent" /\ th'[s].pc = "exit" /\ th'[s].skips = th[s].skips
        /\ approvals' = approvals
        /\ \A r \in Stages \ {s} : st'[r] = st[r]
    BY <1>0, <1>14 DEF AgentSucceeds, At, Places, StageStates
  <2>2. StageAccounted(s)'
    BY <1>2, <1>4, <2>1 DEF StageAccounted, AtWork
  <2> QED
    BY <1>6, <2>1, <2>2 DEF StillAsked
<1>15. CASE Accept(s)
  <2>1. /\ st' = st /\ approvals' = approvals /\ th[s].pc \in {"exit", "recheck"}
        /\ th'[s].pc = "pass" /\ th'[s].skips = th[s].skips
    BY <1>0, <1>15 DEF Accept, Goto, Places
  <2>2. StageAccounted(s)'
    BY <1>2, <1>4, <2>1 DEF StageAccounted, AtWork, IsAsked
  <2> QED
    BY <1>6, <2>1, <2>2 DEF StillAsked
<1>16. CASE PassStage(s)
  <2>1. /\ st'[s].status = "passed" /\ th'[s].pc = "none" /\ th'[s].skips = {}
        /\ approvals' = approvals /\ \A r \in Stages \ {s} : st'[r] = st[r]
    BY <1>0, <1>16 DEF PassStage, Exit, NoThread, StageStates
  <2>2. StageAccounted(s)'
    BY <2>1 DEF StageAccounted
  <2> QED
    BY <1>6, <2>1, <2>2 DEF StillAsked
<1>17. CASE RetryStage(s)
  <2>1. /\ st'[s].status = "retrying" /\ st'[s].stale = st[s].stale
        /\ th[s].pc = "attempt_failed" /\ th'[s].pc = "begin" /\ th'[s].skips = th[s].skips
        /\ approvals' = approvals /\ \A r \in Stages \ {s} : st'[r] = st[r]
    BY <1>0, <1>17 DEF RetryStage, At, Goto, Places, StageStates
  <2>2. StageAccounted(s)'
    BY <1>2, <1>4, <2>1 DEF StageAccounted, AtWork
  <2> QED
    BY <1>6, <2>1, <2>2 DEF StillAsked
<1>18. CASE InvokeFallback(s) \/ GiveUp(s)
  <2>1. /\ st' = st /\ approvals' = approvals /\ th[s].pc = "attempt_failed"
        /\ th'[s].pc \in {"begin", "fail"} /\ th'[s].skips = th[s].skips
    <3>1. CASE InvokeFallback(s)
      BY <1>0, <3>1 DEF InvokeFallback, At, Places
    <3>2. CASE GiveUp(s)
      BY <1>0, <3>2 DEF GiveUp, At, Goto, Places
    <3> QED
      BY <1>18, <3>1, <3>2
  <2>2. StageAccounted(s)'
    BY <1>2, <1>4, <2>1 DEF StageAccounted, AtWork, IsAsked
  <2> QED
    BY <1>6, <2>1, <2>2 DEF StillAsked
<1>19. CASE FailStage(s)
  <2>1. /\ st'[s].status = "failed" /\ th[s].pc = "fail" /\ th'[s].pc = "propagate"
        /\ th'[s].skips = th[s].skips
        /\ approvals' = approvals /\ \A r \in Stages \ {s} : st'[r] = st[r]
    BY <1>0, <1>19 DEF FailStage, At, Goto, Places, StageStates
  <2>2. StageAccounted(s)'
    BY <1>4, <2>1 DEF StageAccounted
  <2> QED
    BY <1>6, <2>1, <2>2 DEF StillAsked
<1>20. CASE Propagate(s)
  <2>1. /\ st' = st /\ approvals' = approvals /\ th[s].pc = "propagate"
        /\ th'[s].pc = "skip"
        /\ th'[s].skips = {d \in DownstreamOf(mem, s) : st[d].status \notin Terminal}
    BY <1>0, <1>20 DEF Propagate, At, Places
  <2>2. ASSUME NEW d \in th'[s].skips
        PROVE  st[d].status \in {"pending", "blocked_approval", "stale", "skipped"}
    <3>1. d \in DownstreamOf(mem, s) /\ st[d].status \notin Terminal
      BY <2>1, <2>2
    <3>a. d \in Stages
      BY <1>0, <3>1 DEF DownstreamOf, Graphs
    <3>b. d \notin layer
      BY <1>0, <1>1, <3>1, DownstreamBeyond DEF Walk
    <3>2. d \notin layer /\ d \in Stages
      BY <3>a, <3>b
    <3>3. th[d].pc = "none" /\ st[d].status \in StageStatuses
      BY <1>0, <3>2 DEF Walk, StageStates
    <3>4. st[d].status \notin {"running", "retrying"}
      BY <3>2, <3>3 DEF Barrier, StageInStep
    <3> QED
      BY <3>1, <3>3, <3>4 DEF StageStatuses, Terminal
  <2>3. StageAccounted(s)'
    BY <1>2, <2>1, <2>2 DEF StageAccounted, IsAsked
  <2> QED
    BY <1>6, <2>1, <2>3 DEF StillAsked
<1>21. CASE Propagated(s)
  <2>1. /\ st' = st /\ approvals' = approvals /\ th'[s].pc = "none" /\ th'[s].skips = {}
    BY <1>0, <1>21 DEF Propagated, At, Exit, NoThread
  <2>2. StageAccounted(s)'
    BY <1>2, <2>1 DEF StageAccounted, IsAsked
  <2> QED
    BY <1>6, <2>1, <2>2 DEF StillAsked
<1>22. ASSUME NEW d \in Stages, SkipDownstream(s, d) PROVE Accounted'
  <2>1. d \in DownstreamOf(mem, s)
    BY <1>22 DEF SkipDownstream, Walk
  <2>2. d # s /\ th'[d].pc = "none" /\ th'[d].skips = {}
    <3>1. d \notin layer
      BY <1>0, <1>1, <2>1, DownstreamBeyond DEF Walk
    <3> QED
      BY <1>0, <1>1, <3>1 DEF Walk
  <2>3. /\ st'[d].status = "skipped" /\ \A r \in Stages \ {d} : st'[r] = st[r]
        /\ approvals' = approvals
        /\ th[s].pc = "skip" /\ th'[s].pc = "skip" /\ th'[s].skips = th[s].skips \ {d}
    BY <1>0, <1>22 DEF SkipDownstream, Skipped, At, Places, StageStates
  <2>4. StageAccounted(d)'
    BY <2>2, <2>3 DEF StageAccounted
  <2>5. StageAccounted(s)'
    <3>1. \A u \in th'[s].skips : st'[u] = st[u]
      BY <1>0, <2>3 DEF Places
    <3> QED
      BY <1>2, <2>2, <2>3, <3>1 DEF StageAccounted, IsAsked
  <2>6. ASSUME NEW r \in Stages \ {s, d} PROVE StageAccounted(r)'
    <3>1. \A u \in th[r].skips : st'[u] = st[u] \/ st'[u].status = "skipped"
      BY <1>0, <2>3 DEF Places
    <3> QED
      BY <1>1, <2>3, <3>1, UntouchedAccounted DEF Accounted, StillAsked
  <2> QED
    BY <1>5, <2>4, <2>5, <2>6
<1> QED
  BY <1>7, <1>8, <1>9, <1>10, <1>11, <1>12, <1>13, <1>14, <1>15, <1>16, <1>17, <1>18,
     <1>19, <1>20, <1>21, <1>22 DEF ThreadStep

(* Between the calls of run() an operator keeps the accounts. *)
LEMMA OperatorAccounts ==
  ASSUME Contained, TypeOK, Walk, Accounted, OperatorStep
  PROVE  Accounted'
<1>0. /\ th \in [Stages -> Places] /\ st \in [Stages -> StageStates]
  BY DEF TypeOK
<1>1. ASSUME UNCHANGED <<st, th, graph, mem, pc, done, layer, skipping, verdict>>, StillAsked,
             status' # "paused_approval" \/ status' = status
      PROVE  Accounted'
  <2>1. \A s \in Stages : StageAccounted(s)'
    BY <1>1, UntouchedAccounted DEF Accounted
  <2>2. /\ VerdictHolds => VerdictHolds'
        /\ \A S : HasBlocked(S) => HasBlocked(S)'
    BY <1>1 DEF VerdictHolds, HasBlocked
  <2>3. HasBlocked(layer) => HasBlocked(layer')
    BY <1>1 DEF HasBlocked
  <2> QED
    BY <1>1, <2>1, <2>2, <2>3 DEF Accounted, HasBlocked
<1>2. CASE RequestSafeStop \/ ResumeFromSafeStop
  BY <1>1, <1>2 DEF RequestSafeStop, ResumeFromSafeStop, runVars, StillAsked
<1>3. CASE Crash
  BY <1>3 DEF Crash, Operate, Contained, Undisturbed
<1>4. CASE Restart
  BY <1>1, <1>4 DEF Restart, storeVars, StillAsked, Accounted
<1>5. CASE Decide
  <2>1. PICK s \in Stages, g \in ApprovalGates, i \in Incarnations,
             decision \in {"approved", "rejected"} : Resolve(s, g, i, decision)
    BY <1>5 DEF Decide
  <2>2. StillAsked
    BY <2>1, GatesAssumption DEF Resolve, StillAsked, TypeOK
  <2> QED
    BY <1>1, <2>1, <2>2 DEF Resolve, runVars
<1>6. ASSUME NEW s \in Stages, Rollback(s) \/ Invalidate(s) PROVE Accounted'
  <2>1. /\ pc = "idle" /\ UNCHANGED <<th, runVars, graph, approvals>> /\ status' = "running"
    BY <1>6 DEF Rollback, Invalidate, Operate, Contained, Undisturbed, Reopened
  <2>2. \A r \in Stages : st'[r] = st[r]
                \/ \E to \in {"rolled_back", "stale"} : st'[r] = Reset(st[r], to)
    BY <1>6 DEF Rollback, Invalidate
  <2>3. \A r \in Stages : th[r].pc = "none" /\ th[r].skips = {}
    BY <2>1 DEF Walk
  <2>4. ASSUME NEW r \in Stages PROVE StageAccounted(r)'
    <3>1. CASE st'[r] = st[r]
      BY <2>1, <2>3, <3>1, UntouchedAccounted DEF Accounted, StillAsked
    <3>2. ASSUME NEW to \in {"rolled_back", "stale"}, st'[r] = Reset(st[r], to)
          PROVE  StageAccounted(r)'
      <4>1. st'[r].status = to /\ st'[r].stale
        BY <1>0, <3>2 DEF Reset, StageStates
      <4> QED
        BY <2>1, <2>3, <4>1 DEF StageAccounted
    <3> QED
      BY <2>2, <3>1, <3>2
  <2> QED
    BY <2>1, <2>4 DEF Accounted, runVars
<1>7. ASSUME NEW new \in Insertions, InsertStage(new) PROVE Accounted'
  BY <1>7 DEF InsertStage, Operate, Contained
<1> QED
  BY <1>2, <1>3, <1>4, <1>5, <1>6, <1>7 DEF OperatorStep

(* The accounts hold in every reachable state, with all they rest on. *)
LEMMA AccountedCorrect ==
  ASSUME Contained
  PROVE  Spec => [](TypeOK /\ Walk /\ Governance /\ Barrier /\ Accounted)
<1>1. Init => Accounted
  BY GraphAssumption DEF Init, Accounted, StageAccounted, NewStage, NoThread, VerdictHolds
<1>2. TypeOK /\ Walk /\ Governance /\ Barrier /\ Accounted /\ [Next]_vars => Accounted'
  <2> SUFFICES ASSUME TypeOK, Walk, Governance, Barrier, Accounted, [Next]_vars
               PROVE  Accounted'
    OBVIOUS
  <2>1. CASE UNCHANGED vars
    <3>1. \A s \in Stages : StageAccounted(s)'
      BY <2>1, UntouchedAccounted DEF Accounted, StillAsked, vars, storeVars
    <3> QED
      BY <2>1, <3>1 DEF Accounted, vars, storeVars, runVars, VerdictHolds, HasBlocked
  <2> QED
    BY <2>1, RunAccounts, ThreadAccounts, OperatorAccounts DEF Next
<1>3. HandsOff
  BY DEF Contained, Undisturbed, HandsOff
<1> QED
  BY <1>1, <1>2, <1>3, GovernanceCorrect, BarrierCorrect, PTL DEF Spec, Contained

(* A stage that waits has somebody to wait for (gates.py:78-91).           *)
THEOREM BlockedAlwaysAsked ==
  ASSUME Contained
  PROVE  Spec => []BlockedIsAsked
<1>1. Accounted => BlockedIsAsked
  BY DEF Accounted, StageAccounted, IsAsked, BlockedIsAsked
<1> QED
  BY <1>1, AccountedCorrect, PTL

(* A run that is paused for approval has a stage that waits.               *)
THEOREM PausedAlwaysBlocked ==
  ASSUME Contained
  PROVE  Spec => []PausedIsBlocked
<1>1. Accounted => PausedIsBlocked
  BY DEF Accounted, HasBlocked, PausedIsBlocked
<1> QED
  BY <1>1, AccountedCorrect, PTL

-----------------------------------------------------------------------------
(* The refinement: every step is a step of the life, or invisible to it.   *)

(* A dependency counts among what its dependents are downstream of. *)
LEMMA DependentIsDownstream ==
  ASSUME NEW g, NEW t \in g.nodes, NEW d \in g.deps[t]
  PROVE  t \in DownstreamOf(g, d)
<1> SUFFICES ASSUME NEW S \in SUBSET g.nodes, ClosedUnder(g, d, S) PROVE t \in S
  BY DEF DownstreamOf
<1> QED
  BY DEF ClosedUnder, Dependents

(* What it is to the life when one stage is saved and keeps its round. *)
LEMMA OneStageSaved ==
  ASSUME st \in [Stages -> StageStates], st' \in [Stages -> StageStates],
         NEW s \in Stages, \A r \in Stages \ {s} : st'[r] = st[r],
         st'[s].inc = st[s].inc
  PROVE  /\ LifeNow' = [LifeNow EXCEPT ![s] = LifeOf(st'[s])]
         /\ RoundNow' = RoundNow
         /\ st'[s].stale = st[s].stale => RedoNow' = RedoNow
         /\ ~st'[s].stale => RedoNow' = RedoNow \ {s}
<1>1. \A r \in Stages \ {s} : LifeOf(st'[r]) = LifeOf(st[r])
  OBVIOUS
<1>2. LifeNow' = [r \in Stages |-> LifeOf(st'[r])]
  BY DEF LifeNow, LifeOf
<1>3. RoundNow' = [r \in Stages |-> st'[r].inc] /\ RedoNow' = {r \in Stages : st'[r].stale}
  BY DEF RoundNow, RedoNow
<1> QED
  BY <1>1, <1>2, <1>3 DEF LifeNow, RoundNow, RedoNow

(* When the rows of the stages stay, so does the life. *)
LEMMA NoStageSaved ==
  ASSUME st' = st
  PROVE  LifeNow' = LifeNow /\ RedoNow' = RedoNow /\ RoundNow' = RoundNow
  BY DEF LifeNow, RedoNow, RoundNow, LifeOf

(* When no approval is written, what was asked stays. *)
LEMMA NothingAsked ==
  ASSUME approvals' = approvals
  PROVE  AskedNow' = AskedNow
  BY DEF AskedNow

(* How a stage looks from the life. *)
LEMMA StageSeen ==
  ASSUME TypeOK, NEW s \in Stages
  PROVE  /\ LifeNow[s] = LifeOf(st[s])
         /\ RoundNow[s] = st[s].inc
         /\ s \in RedoNow <=> st[s].stale
         /\ Life!Open(s) <=> IsActionable(st[s]) \/ st[s].status = "rolled_back"
         /\ LifeNow[s] = "working" <=> AtWork(s)
         /\ LifeNow[s] = "waiting" <=> st[s].status = "blocked_approval"
         /\ \A final \in {"passed", "failed", "skipped"} :
               LifeNow[s] = final <=> st[s].status = final
<1>1. LifeNow[s] = LifeOf(st[s]) /\ RoundNow[s] = st[s].inc /\ (s \in RedoNow <=> st[s].stale)
  BY DEF LifeNow, RoundNow, RedoNow
<1>2. st[s].status \in StageStatuses
  BY DEF TypeOK, StageStates
<1>3. /\ LifeOf(st[s]) = "working" <=> AtWork(s)
      /\ LifeOf(st[s]) = "waiting" <=> st[s].status = "blocked_approval"
      /\ \A final \in {"passed", "failed", "skipped"} :
            LifeOf(st[s]) = final <=> st[s].status = final
      /\ LifeOf(st[s]) = "todo" <=> st[s].status \in {"pending", "stale", "rolled_back"}
  BY <1>2 DEF LifeOf, AtWork, StageStatuses
<1> QED
  BY <1>1, <1>3 DEF Life!Open, IsActionable

(* A stage with a thread finds its dependencies passed in the life, too. *)
LEMMA DependenciesSeen ==
  ASSUME TypeOK, Barrier, Accounted, NEW s \in Stages, th[s].pc # "none"
  PROVE  Life!DependenciesPassed(s)
<1>1. ASSUME NEW d \in InitialGraph.deps[s] PROVE LifeNow[d] = "passed"
  <2>1. d \in Stages /\ st[d].status = "passed"
    BY <1>1, GraphAssumption DEF Barrier, Accounted, Graphs
  <2> QED
    BY <2>1, StageSeen
<1> QED
  BY <1>1 DEF Life!DependenciesPassed

(* The approvals of the current incarnation are the approvals of the round. *)
LEMMA ApprovalsSeen ==
  ASSUME TypeOK, NEW s \in Stages, NEW gates \in [Stages -> Seq(Gates)],
         Granted(s, gates, st[s].inc)
  PROVE  Life!Approved(s, ApprovalsAmong(gates))
<1>1. ApprovalsAmong(gates)[s] = {gates[s][k] : k \in 1 .. Len(gates[s])} \cap ApprovalGates
  BY DEF ApprovalsAmong
<1> QED
  BY <1>1, StageSeen DEF Life!Approved, Granted

(* Downstream means the same to both. *)
LEMMA SameDownstream ==
  ASSUME NEW s
  PROVE  Life!DownstreamOf(InitialGraph, s) = DownstreamOf(InitialGraph, s)
  BY DEF Life!DownstreamOf, Life!ClosedUnder, Life!Dependents,
         DownstreamOf, ClosedUnder, Dependents

(* A skip of d below u, which will not pass. *)
LEMMA SkipSeen ==
  ASSUME TypeOK, TypeOK', NEW d \in Stages, NEW u \in Stages,
         d \in DownstreamOf(InitialGraph, u), st[u].status \in {"failed", "skipped"},
         IsActionable(st[d]) \/ st[d].status = "skipped",
         st' = [st EXCEPT ![d] = Skipped(@)],
         UNCHANGED <<status, approvals, granted>>
  PROVE  Life!Skip(d) \/ UNCHANGED Life!lifeVars
<1>0. st \in [Stages -> StageStates] /\ st' \in [Stages -> StageStates]
  BY DEF TypeOK
<1>1. /\ st'[d].status = "skipped" /\ st'[d].inc = st[d].inc
      /\ st'[d].stale = st[d].stale /\ \A r \in Stages \ {d} : st'[r] = st[r]
  BY <1>0 DEF Skipped, StageStates
<1>2. LifeOf(st'[d]) = "skipped"
  BY <1>1 DEF LifeOf
<1>3. LifeNow' = [LifeNow EXCEPT ![d] = "skipped"] /\ RoundNow' = RoundNow /\ RedoNow' = RedoNow
  BY <1>0, <1>1, <1>2, OneStageSaved
<1>4. AskedNow' = AskedNow
  BY NothingAsked
<1>5. CASE IsActionable(st[d])
  <2>1. Life!Open(d) /\ LifeNow[u] \in {"failed", "skipped"}
    BY <1>5, StageSeen
  <2> QED
    BY <1>3, <1>4, <2>1, SameDownstream DEF Life!Skip, Life!Become
<1>6. CASE st[d].status = "skipped"
  <2>1. LifeNow[d] = "skipped" /\ LifeNow \in [Stages -> {LifeNow[s] : s \in Stages}]
    BY <1>6, StageSeen DEF LifeNow
  <2>2. LifeNow' = LifeNow
    BY <1>3, <2>1
  <2> QED
    BY <1>3, <1>4, <2>2 DEF Life!lifeVars
<1> QED
  BY <1>5, <1>6

(* What run() does is seen as reports and skips. *)
LEMMA RunSimulates ==
  ASSUME TypeOK, TypeOK', Walk, Barrier, Accounted, CallRun \/ RunStep
  PROVE  [Life!Next]_(Life!lifeVars)
<1>0. layer \subseteq Stages /\ mem \in Graphs /\ InitialGraph.nodes \subseteq Stages
  BY GraphAssumption DEF TypeOK, Graphs
<1>1. ASSUME UNCHANGED <<st, approvals, granted>>,
             status' = status \/ Life!Report(status')
      PROVE  [Life!Next]_(Life!lifeVars)
  <2>1. LifeNow' = LifeNow /\ RedoNow' = RedoNow /\ RoundNow' = RoundNow /\ AskedNow' = AskedNow
    BY <1>1, NoStageSaved, NothingAsked
  <2>2. status' \in Life!Reports
    BY DEF TypeOK, RunStatuses, Life!Reports
  <2> QED
    BY <1>1, <2>1, <2>2 DEF Life!Next, Life!lifeVars
<1>2. ASSUME UNCHANGED <<st, approvals, granted>>, 
             CASE status' = "paused_approval" -> \E s \in Stages : LifeNow[s] = "waiting"
               [] status' = "completed" -> \A s \in InitialGraph.nodes :
                                              LifeNow[s] \in {"passed", "skipped"}
               [] status' = "failed" -> \E s \in InitialGraph.nodes : LifeNow[s] = "failed"
               [] OTHER -> status' \in {"running", "paused_safe_stop"}
      PROVE  [Life!Next]_(Life!lifeVars)
  <2>1. LifeNow' = LifeNow /\ RedoNow' = RedoNow /\ RoundNow' = RoundNow /\ AskedNow' = AskedNow
    BY <1>2, NoStageSaved, NothingAsked
  <2> QED
    BY <1>1, <1>2, <2>1 DEF Life!Report
<1>3. CASE CallRun \/ StartLayer \/ PlanLayer \/ Submit \/ Join \/ Reload \/ Finalize
  BY <1>1, <1>3 DEF CallRun, StartLayer, PlanLayer, Submit, Join, Reload, Finalize, storeVars
<1>4. CASE Unpause
  BY <1>2, <1>4 DEF Unpause
<1>5. CASE Pause
  <2>1. \E s \in Stages : LifeNow[s] = "waiting"
    BY <1>0, <1>5, StageSeen DEF Pause, Accounted, HasBlocked
  <2> QED
    BY <1>2, <1>5, <2>1 DEF Pause
<1>6. CASE Finish
  <2>1. status' = verdict /\ VerdictHolds /\ UNCHANGED <<st, approvals, granted>>
    BY <1>6 DEF Finish, Accounted
  <2>2. CASE verdict = "completed"
    BY <1>0, <1>2, <2>1, <2>2, StageSeen DEF VerdictHolds
  <2>3. CASE verdict = "failed"
    BY <1>0, <1>2, <2>1, <2>3, StageSeen DEF VerdictHolds
  <2>4. CASE verdict = "running"
    BY <1>2, <2>1, <2>4
  <2> QED
    BY <2>1, <2>2, <2>3, <2>4 DEF VerdictHolds
<1>7. ASSUME NEW d \in Stages, SkipBlocked(d) PROVE [Life!Next]_(Life!lifeVars)
  <2>1. /\ pc = "skip" /\ d \in skipping /\ st' = [st EXCEPT ![d] = Skipped(@)]
        /\ UNCHANGED <<status, approvals, granted>>
    BY <1>7 DEF SkipBlocked
  <2>2. IsActionable(st[d]) /\ d \in layer
    BY <2>1 DEF Accounted, Walk
  <2>3. PICK u \in mem.deps[d] : BlocksDependents(st[u])
    BY <2>1 DEF Accounted
  <2>4. mem = InitialGraph /\ d \in InitialGraph.nodes /\ u \in Stages
    BY <1>0, <2>2 DEF Accounted, Graphs
  <2>5. d \in DownstreamOf(InitialGraph, u)
    BY <2>3, <2>4, DependentIsDownstream
  <2>6. st[u].status \in {"failed", "skipped"}
    BY <2>3, <2>4 DEF BlocksDependents, Barrier, StageInStep
  <2>7. Life!Skip(d) \/ UNCHANGED Life!lifeVars
    BY <2>1, <2>2, <2>4, <2>5, <2>6, SkipSeen
  <2> QED
    BY <2>7 DEF Life!Next, Life!StageMoves
<1> QED
  BY <1>3, <1>4, <1>5, <1>6, <1>7 DEF RunStep

(* What a thread does is seen as moves of its stage, and skips below it. *)
LEMMA ThreadSimulates ==
  ASSUME TypeOK, TypeOK', Walk, Governance, Barrier, Accounted, NEW s \in Stages, ThreadStep(s)
  PROVE  [Life!Next]_(Life!lifeVars)
<1>0. /\ th \in [Stages -> Places] /\ th[s] \in Places /\ st[s] \in StageStates
      /\ st \in [Stages -> StageStates] /\ st' \in [Stages -> StageStates]
  BY DEF TypeOK
<1>1. pc = "join" /\ s \in layer /\ status' = status
  BY ThreadFrame
<1>2. th[s].pc # "none"
  BY DEF ThreadStep, StartThread, CheckApproval, CheckPolicy, Block, Enter, BeginAttempt,
         AgentFails, AgentSucceeds, Accept, PassStage, RetryStage, InvokeFallback, GiveUp,
         FailStage, Propagate, Propagated, SkipDownstream, At, AtGate
<1>3. StageAccounted(s) /\ ThreadGoverned(s) /\ StageInStep(s)
  BY DEF Accounted, Governance, Barrier
<1>4. Life!DependenciesPassed(s)
  BY <1>2, DependenciesSeen
<1>5. ASSUME UNCHANGED <<st, approvals, granted>> PROVE UNCHANGED Life!lifeVars
  BY <1>1, <1>5, NoStageSaved, NothingAsked DEF Life!lifeVars
<1>6. ASSUME Life!StageMoves(s) \/ UNCHANGED Life!lifeVars PROVE [Life!Next]_(Life!lifeVars)
  BY <1>6 DEF Life!Next
<1>7. CASE \/ StartThread(s) \/ CheckPolicy(s) \/ Enter(s) \/ AgentFails(s) \/ Accept(s)
           \/ InvokeFallback(s) \/ GiveUp(s) \/ Propagate(s) \/ Propagated(s)
  BY <1>5, <1>6, <1>7 DEF StartThread, CheckPolicy, Enter, AgentFails, Accept,
                     InvokeFallback, GiveUp, Propagate, Propagated
<1>8. ASSUME \A r \in Stages \ {s} : st'[r] = st[r], st'[s].inc = st[s].inc,
             st'[s].stale = st[s].stale, UNCHANGED <<approvals, granted>>
      PROVE  /\ LifeNow' = [LifeNow EXCEPT ![s] = LifeOf(st'[s])]
             /\ RoundNow' = RoundNow /\ RedoNow' = RedoNow /\ AskedNow' = AskedNow
  BY <1>0, <1>8, OneStageSaved, NothingAsked
<1>9. ASSUME \A r \in Stages \ {s} : st'[r] = st[r], st'[s].inc = st[s].inc,
             st'[s].stale = st[s].stale, LifeOf(st'[s]) = LifeOf(st[s]),
             UNCHANGED <<approvals, granted>>
      PROVE  UNCHANGED Life!lifeVars
  <2>1. [LifeNow EXCEPT ![s] = LifeOf(st'[s])] = LifeNow
    BY <1>9 DEF LifeNow
  <2> QED
    BY <1>1, <1>8, <1>9, <2>1 DEF Life!lifeVars
<1>10. CASE CheckApproval(s)
  <2>0. Gate(s) \in ApprovalGates /\ Gate(s) \in Gates /\ st' = st /\ granted' = granted
    BY <1>10, GatesAssumption DEF CheckApproval
  <2>1. th[s].pc \in {"entry", "exit", "recheck"} /\ RequestOf(s) = st[s].inc
        /\ st[s].inc \in Incarnations
    BY <1>0, <1>3, <1>10 DEF CheckApproval, AtGate, RequestOf, ThreadGoverned, StageStates
  <2>2. CASE approvals' = approvals
    BY <1>5, <1>6, <2>0, <2>2
  <2>3. CASE approvals' = [approvals EXCEPT ![s][Gate(s)][st[s].inc] = "pending"]
    <3>1. AskedNow' = AskedNow \cup {<<s, Gate(s), RoundNow[s]>>}
      <4>1. /\ approvals'[s][Gate(s)][st[s].inc] = "pending"
            /\ \A r \in Stages, g \in Gates, i \in Incarnations :
                  ~(r = s /\ g = Gate(s) /\ i = st[s].inc)
                     => approvals'[r][g][i] = approvals[r][g][i]
        BY <2>0, <2>1, <2>3 DEF TypeOK
      <4>2. <<s, Gate(s), st[s].inc>> \in Stages \X Gates \X Incarnations
        BY <2>0, <2>1
      <4> QED
        BY <4>1, <4>2, StageSeen DEF AskedNow
    <3>2. Life!Open(s) \/ LifeNow[s] = "working"
      BY <1>3, <2>1, StageSeen DEF StageAccounted, StageInStep, IsActionable
    <3>3. Life!Ask(s, Gate(s))
      BY <1>1, <1>4, <2>0, <3>1, <3>2, NoStageSaved DEF Life!Ask
    <3> QED
      BY <2>0, <3>3 DEF Life!Next
  <2> QED
    BY <1>10, <2>1, <2>2, <2>3 DEF CheckApproval
<1>11. CASE Block(s)
  <2>1. /\ st'[s].status = "blocked_approval" /\ st'[s].inc = st[s].inc
        /\ st'[s].stale = st[s].stale /\ UNCHANGED <<approvals, granted>>
        /\ \A r \in Stages \ {s} : st'[r] = st[r]
        /\ th[s].pc \in {"entry_block", "exit_block"}
    BY <1>0, <1>11 DEF Block, StageStates
  <2>2. LifeOf(st'[s]) = "waiting"
    BY <2>1 DEF LifeOf
  <2>3. LifeNow[s] = "working" \/ Life!Open(s)
    BY <1>3, <2>1, StageSeen DEF StageAccounted
  <2>4. \E g \in ApprovalGates : <<s, g, RoundNow[s]>> \in AskedNow
    <3>1. PICK g \in ApprovalGates : approvals[s][g][st[s].inc] # "none"
      BY <1>3, <2>1 DEF StageAccounted, IsAsked
    <3>2. <<s, g, st[s].inc>> \in Stages \X Gates \X Incarnations
      BY <1>0, GatesAssumption DEF StageStates
    <3> QED
      BY <3>1, <3>2, StageSeen DEF AskedNow
  <2>5. Life!Wait(s)
    BY <1>1, <1>4, <1>8, <2>1, <2>2, <2>3, <2>4 DEF Life!Wait, Life!Become
  <2> QED
    BY <1>6, <2>5 DEF Life!StageMoves
<1>12. CASE BeginAttempt(s)
  <2>1. /\ st'[s].status \in {"running", "retrying"} /\ ~st'[s].stale
        /\ st'[s].inc = st[s].inc /\ UNCHANGED <<approvals, granted>>
        /\ \A r \in Stages \ {s} : st'[r] = st[r]
        /\ th[s].pc = "begin"
    BY <1>0, <1>12 DEF BeginAttempt, At, Places, StageStates
  <2>2. LifeOf(st'[s]) = "working"
    BY <2>1 DEF LifeOf
  <2>3. CASE IsActionable(st[s])
    <3>1. Life!Open(s)
      BY <2>3, StageSeen
    <3>2. Life!Approved(s, ApprovalsAmong(EntryGates))
      BY <1>3, <2>1, ApprovalsSeen, GatesAssumption DEF ThreadGoverned, Working
    <3>3. /\ LifeNow' = [LifeNow EXCEPT ![s] = "working"]
          /\ RoundNow' = RoundNow /\ RedoNow' = RedoNow \ {s} /\ AskedNow' = AskedNow
      BY <1>0, <2>1, <2>2, OneStageSaved, NothingAsked
    <3>4. Life!Begin(s)
      BY <1>1, <1>4, <2>1, <3>1, <3>2, <3>3 DEF Life!Begin, Life!Become
    <3> QED
      BY <1>6, <3>4 DEF Life!StageMoves
  <2>4. CASE ~IsActionable(st[s])
    <3>1. AtWork(s) /\ ~st[s].stale
      BY <1>3, <2>1, <2>4 DEF StageAccounted, IsActionable
    <3>2. LifeOf(st[s]) = "working" /\ st'[s].stale = st[s].stale
      BY <1>0, <2>1, <3>1 DEF AtWork, LifeOf, StageStates
    <3> QED
      BY <1>6, <1>9, <2>1, <2>2, <3>2
  <2> QED
    BY <2>3, <2>4
<1>13. CASE AgentSucceeds(s)
  <2>1. /\ st'[s].status = st[s].status /\ st'[s].stale = st[s].stale
        /\ st'[s].inc = st[s].inc /\ UNCHANGED <<approvals, granted>>
        /\ \A r \in Stages \ {s} : st'[r] = st[r]
    BY <1>0, <1>13 DEF AgentSucceeds, StageStates
  <2>2. LifeOf(st'[s]) = LifeOf(st[s])
    BY <2>1 DEF LifeOf
  <2> QED
    BY <1>6, <1>9, <2>1, <2>2
<1>14. CASE PassStage(s)
  <2>1. /\ st'[s].status = "passed" /\ st'[s].inc = st[s].inc
        /\ st'[s].stale = st[s].stale /\ UNCHANGED <<approvals, granted>>
        /\ \A r \in Stages \ {s} : st'[r] = st[r]
        /\ th[s].pc = "pass"
    BY <1>0, <1>14 DEF PassStage, At, StageStates
  <2>2. LifeOf(st'[s]) = "passed"
    BY <2>1 DEF LifeOf
  <2>3. LifeNow[s] \in {"working", "waiting"} /\ s \notin RedoNow
    BY <1>3, <2>1, StageSeen DEF StageAccounted
  <2>4. /\ Life!Approved(s, ApprovalsAmong(EntryGates))
        /\ Life!Approved(s, ApprovalsAmong(ExitGates))
    BY <1>3, <2>1, ApprovalsSeen, GatesAssumption DEF ThreadGoverned, Working
  <2>5. Life!Pass(s)
    BY <1>1, <1>4, <1>8, <2>1, <2>2, <2>3, <2>4 DEF Life!Pass, Life!Become
  <2> QED
    BY <1>6, <2>5 DEF Life!StageMoves
<1>15. CASE RetryStage(s)
  <2>1. /\ st'[s].status = "retrying" /\ st'[s].stale = st[s].stale
        /\ st'[s].inc = st[s].inc /\ UNCHANGED <<approvals, granted>>
        /\ \A r \in Stages \ {s} : st'[r] = st[r]
        /\ th[s].pc = "attempt_failed"
    BY <1>0, <1>15 DEF RetryStage, At, StageStates
  <2>2. LifeOf(st'[s]) = LifeOf(st[s])
    BY <1>3, <2>1 DEF LifeOf, StageAccounted, AtWork
  <2> QED
    BY <1>6, <1>9, <2>1, <2>2
<1>16. CASE FailStage(s)
  <2>1. /\ st'[s].status = "failed" /\ st'[s].inc = st[s].inc
        /\ st'[s].stale = st[s].stale /\ UNCHANGED <<approvals, granted>>
        /\ \A r \in Stages \ {s} : st'[r] = st[r]
        /\ th[s].pc = "fail"
    BY <1>0, <1>16 DEF FailStage, At, StageStates
  <2>2. LifeOf(st'[s]) = "failed"
    BY <2>1 DEF LifeOf
  <2>3. LifeNow[s] = "working" \/ Life!Open(s)
    BY <1>3, <2>1, StageSeen DEF StageAccounted
  <2>4. Life!Fail(s)
    BY <1>1, <1>4, <1>8, <2>1, <2>2, <2>3 DEF Life!Fail, Life!Become
  <2> QED
    BY <1>6, <2>4 DEF Life!StageMoves
<1>17. ASSUME NEW d \in Stages, SkipDownstream(s, d) PROVE [Life!Next]_(Life!lifeVars)
  <2>1. /\ th[s].pc = "skip" /\ d \in th[s].skips /\ st' = [st EXCEPT ![d] = Skipped(@)]
        /\ UNCHANGED <<approvals, granted>>
    BY <1>17 DEF SkipDownstream, At
  <2>2. d \in DownstreamOf(InitialGraph, s)
    BY <2>1 DEF Walk, Accounted
  <2>3. st[s].status = "failed" /\ (IsActionable(st[d]) \/ st[d].status = "skipped")
    BY <1>3, <2>1 DEF StageInStep, StageAccounted, IsActionable
  <2>4. Life!Skip(d) \/ UNCHANGED Life!lifeVars
    BY <1>1, <2>1, <2>2, <2>3, SkipSeen
  <2> QED
    BY <2>4 DEF Life!Next, Life!StageMoves
<1> QED
  BY <1>7, <1>10, <1>11, <1>12, <1>13, <1>14, <1>15, <1>16, <1>17 DEF ThreadStep

(* What is set aside in the store is what the life sets aside. *)
LEMMA AsideSeen ==
  ASSUME TypeOK, TypeOK', Governance, Barrier, Accounted, NEW s \in Stages,
         NEW to \in {"rolled_back", "stale"},
         st' = [d \in Stages |-> IF d = s THEN Reset(st[d], to)
                                 ELSE IF d \in Affected(InitialGraph, s)
                                   THEN Reset(st[d], "stale") ELSE st[d]],
         status' = "running", UNCHANGED <<approvals, granted>>
  PROVE  Life!SetAside(s)
<1>0. st \in [Stages -> StageStates] /\ st' \in [Stages -> StageStates]
  BY DEF TypeOK
<1> DEFINE hit == {s} \cup {d \in DownstreamOf(InitialGraph, s) : ~Life!Untouched(d)}
<1>1. DownstreamOf(InitialGraph, s) \subseteq Stages
  BY GraphAssumption DEF DownstreamOf, Graphs
<1>2. ASSUME NEW d \in Stages PROVE Life!Untouched(d) <=> st[d].status = "pending"
  <2>1. /\ st[d].status \in {"stale", "rolled_back"} => st[d].stale
        /\ st[d].status = "pending" => ~st[d].stale
    BY DEF Governance, StageGoverned, Barrier, StageInStep, Accounted, StageAccounted
  <2>2. LifeOf(st[d]) = "todo" <=> st[d].status \in {"pending", "stale", "rolled_back"}
    BY <1>0 DEF LifeOf, StageStates, StageStatuses
  <2> QED
    BY <2>1, <2>2, StageSeen DEF Life!Untouched
<1>3. hit = {s} \cup Affected(InitialGraph, s)
  BY <1>1, <1>2 DEF Affected
<1> HIDE DEF hit
<1>4. ASSUME NEW d \in Stages
      PROVE  /\ LifeOf(st'[d]) = IF d \in hit THEN "todo" ELSE LifeOf(st[d])
             /\ st'[d].stale = (d \in hit \/ st[d].stale)
             /\ st'[d].inc = IF d \in hit THEN st[d].inc + 1 ELSE st[d].inc
  <2>1. CASE d \in hit
    <3>1. PICK as \in {"rolled_back", "stale"} : st'[d] = Reset(st[d], as)
      BY <1>3, <2>1
    <3>2. st'[d].status = as /\ st'[d].stale = TRUE /\ st'[d].inc = st[d].inc + 1
      BY <1>0, <3>1 DEF Reset, StageStates
    <3> QED
      BY <2>1, <3>2 DEF LifeOf
  <2>2. CASE d \notin hit
    <3>1. st'[d] = st[d] /\ st[d].stale \in BOOLEAN
      BY <1>0, <1>3, <2>2 DEF StageStates
    <3> QED
      BY <2>2, <3>1
  <2> QED
    BY <2>1, <2>2
<1>5. hit \subseteq Stages
  BY <1>1, <1>3 DEF Affected
<1>6. /\ LifeNow' = [d \in Stages |-> LifeOf(st'[d])]
      /\ RoundNow' = [d \in Stages |-> st'[d].inc]
      /\ RedoNow' = {d \in Stages : st'[d].stale}
  BY DEF LifeNow, RoundNow, RedoNow, LifeOf
<1>7. /\ LifeNow' = [d \in Stages |-> IF d \in hit THEN "todo" ELSE LifeNow[d]]
      /\ RoundNow' = [d \in Stages |-> IF d \in hit THEN RoundNow[d] + 1 ELSE RoundNow[d]]
  BY <1>4, <1>6 DEF LifeNow, RoundNow
<1>8. RedoNow' = RedoNow \cup hit
  BY <1>4, <1>5, <1>6 DEF RedoNow
<1>9. AskedNow' = AskedNow
  BY NothingAsked
<1> QED
  BY <1>7, <1>8, <1>9, SameDownstream DEF Life!SetAside, hit

(* What operators do is seen as reports, grants and stages set aside. *)
LEMMA OperatorSimulates ==
  ASSUME Contained, TypeOK, TypeOK', Governance, Barrier, Accounted, OperatorStep
  PROVE  [Life!Next]_(Life!lifeVars)
<1>1. CASE RequestSafeStop \/ ResumeFromSafeStop
  <2>1. UNCHANGED <<st, approvals, granted>> /\ status' \in {"paused_safe_stop", "running"}
    BY <1>1 DEF RequestSafeStop, ResumeFromSafeStop
  <2>2. Life!Report(status')
    BY <2>1, NoStageSaved, NothingAsked DEF Life!Report
  <2> QED
    BY <2>1, <2>2 DEF Life!Next, Life!Reports
<1>2. CASE Crash
  BY <1>2 DEF Crash, Operate, Contained, Undisturbed
<1>3. CASE Restart
  BY <1>3, NoStageSaved, NothingAsked DEF Restart, storeVars, Life!lifeVars
<1>4. CASE Decide
  <2>1. PICK s \in Stages, g \in ApprovalGates, i \in Incarnations,
             decision \in {"approved", "rejected"} : Resolve(s, g, i, decision)
    BY <1>4 DEF Decide
  <2>2. UNCHANGED <<status, st>> /\ <<s, g, i>> \in AskedNow /\ AskedNow' = AskedNow
    <3>1. g \in Gates /\ approvals[s][g][i] # "none"
      BY <2>1, GatesAssumption DEF Resolve
    <3>2. approvals' = [approvals EXCEPT ![s][g][i] = decision] /\ UNCHANGED <<status, st>>
      BY <2>1 DEF Resolve
    <3>3. \A r \in Stages, h \in Gates, j \in Incarnations :
             approvals'[r][h][j] # "none" <=> approvals[r][h][j] # "none"
      BY <3>1, <3>2 DEF TypeOK
    <3>4. <<s, g, i>> \in Stages \X Gates \X Incarnations
      BY <3>1
    <3> QED
      BY <3>1, <3>2, <3>3, <3>4 DEF AskedNow
  <2>3. CASE granted' = granted
    BY <2>2, <2>3, NoStageSaved DEF Life!lifeVars
  <2>4. CASE granted' = granted \cup {<<s, g, i>>}
    <3>1. Life!Grant(s, g, i)
      BY <2>2, <2>4, NoStageSaved DEF Life!Grant
    <3> QED
      BY <3>1 DEF Life!Next
  <2> QED
    BY <2>1, <2>3, <2>4 DEF Resolve
<1>5. ASSUME NEW s \in Stages, Rollback(s) PROVE [Life!Next]_(Life!lifeVars)
  <2>1. mem = InitialGraph
    BY DEF Accounted
  <2>2. Life!SetAside(s)
    BY <1>5, <2>1, AsideSeen DEF Rollback, Reopened
  <2> QED
    BY <2>2 DEF Life!Next, Life!StageMoves
<1>6. ASSUME NEW s \in Stages, Invalidate(s) PROVE [Life!Next]_(Life!lifeVars)
  <2>1. graph = InitialGraph
    BY DEF Accounted
  <2>2. st' = [d \in Stages |-> IF d = s THEN Reset(st[d], "stale")
                                ELSE IF d \in Affected(InitialGraph, s)
                                  THEN Reset(st[d], "stale") ELSE st[d]]
    BY <1>6, <2>1 DEF Invalidate
  <2>3. Life!SetAside(s)
    BY <1>6, <2>2, AsideSeen DEF Invalidate, Reopened
  <2> QED
    BY <2>3 DEF Life!Next, Life!StageMoves
<1>7. ASSUME NEW new \in Insertions, InsertStage(new) PROVE FALSE
  BY <1>7 DEF InsertStage, Operate, Contained
<1> QED
  BY <1>1, <1>2, <1>3, <1>4, <1>5, <1>6, <1>7 DEF OperatorStep

(* A run as the executor carries it out, with whatever is decided, rolled  *)
(* back, invalidated or stopped, is a run as RunLifecycle promises it.     *)
THEOREM Implements ==
  ASSUME Contained
  PROVE  Spec => KeepsThePromises
<1> DEFINE Inv == TypeOK /\ Walk /\ Governance /\ Barrier /\ Accounted
<1>1. Init => Life!Init
  <2> SUFFICES ASSUME Init PROVE Life!Init
    OBVIOUS
  <2>1. LifeNow = [s \in Stages |-> "todo"] /\ RedoNow = {} /\ RoundNow = [s \in Stages |-> 0]
    BY DEF Init, NewStage, LifeNow, LifeOf, RedoNow, RoundNow
  <2>2. AskedNow = {}
    BY DEF Init, AskedNow
  <2> QED
    BY <2>1, <2>2 DEF Init, Life!Init
<1>2. Inv /\ Inv' /\ [Next]_vars => [Life!Next]_(Life!lifeVars)
  <2>1. ASSUME UNCHANGED vars PROVE UNCHANGED Life!lifeVars
    BY <2>1, NoStageSaved, NothingAsked DEF vars, storeVars, Life!lifeVars
  <2> QED
    BY <2>1, RunSimulates, ThreadSimulates, OperatorSimulates DEF Next
<1>3. Spec => []Inv
  BY AccountedCorrect
<1> QED
  BY <1>1, <1>2, <1>3, PTL DEF Spec, KeepsThePromises, Life!Spec

LifeProofs == INSTANCE RunLifecycleProofs WITH
    Graph   <- InitialGraph,
    Gates   <- ApprovalGates,
    Before  <- ApprovalsAmong(EntryGates),
    After   <- ApprovalsAmong(ExitGates),
    Rounds  <- Incarnations,
    run     <- status,
    life    <- LifeNow,
    redo    <- RedoNow,
    round   <- RoundNow,
    asked   <- AskedNow,
    granted <- granted

(* So what has passed in the store rests on what has passed in the store:  *)
(* the abstract theorem carries over (architecture.md:88).                 *)
THEOREM PassesRestAlways ==
  ASSUME Contained
  PROVE  Spec => []PassedRestsOnPassed
<1>1. InitialGraph \in LifeProofs!Graphs
  BY GraphAssumption DEF Graphs, LifeProofs!Graphs
<1>2. LifeProofs!Spec => []LifeProofs!PassedRestsOnPassed
  BY <1>1, LifeProofs!PassedRestsAlways
<1>3. Life!Init => LifeProofs!Init
  BY DEF Life!Init, LifeProofs!Init
<1>4. [Life!Next]_(Life!lifeVars) => [LifeProofs!Next]_(LifeProofs!lifeVars)
  <2>1. ASSUME NEW s
        PROVE  /\ Life!Open(s) <=> LifeProofs!Open(s)
               /\ Life!Untouched(s) <=> LifeProofs!Untouched(s)
               /\ Life!DependenciesPassed(s) <=> LifeProofs!DependenciesPassed(s)
               /\ Life!DownstreamOf(InitialGraph, s) = LifeProofs!DownstreamOf(InitialGraph, s)
               /\ \A gates : Life!Approved(s, gates) <=> LifeProofs!Approved(s, gates)
               /\ \A what : Life!Become(s, what) <=> LifeProofs!Become(s, what)
    BY DEF Life!Open, LifeProofs!Open, Life!Untouched, LifeProofs!Untouched,
       Life!DependenciesPassed, LifeProofs!DependenciesPassed,
       Life!DownstreamOf, LifeProofs!DownstreamOf, Life!ClosedUnder,
       LifeProofs!ClosedUnder, Life!Dependents, LifeProofs!Dependents,
       Life!Approved, LifeProofs!Approved, Life!Become, LifeProofs!Become
  <2>2. ASSUME NEW s
        PROVE  Life!StageMoves(s) <=> LifeProofs!StageMoves(s)
    BY <2>1, ZenonT(40) DEF Life!StageMoves, LifeProofs!StageMoves, Life!Begin,
       LifeProofs!Begin, Life!Wait, LifeProofs!Wait, Life!Pass,
       LifeProofs!Pass, Life!Fail, LifeProofs!Fail, Life!Skip,
       LifeProofs!Skip, Life!SetAside, LifeProofs!SetAside
  <2>3. ASSUME NEW s, NEW g
        PROVE  /\ Life!Ask(s, g) <=> LifeProofs!Ask(s, g)
               /\ \A i : Life!Grant(s, g, i) <=> LifeProofs!Grant(s, g, i)
    BY <2>1 DEF Life!Ask, LifeProofs!Ask, Life!Grant, LifeProofs!Grant
  <2>4. ASSUME NEW what
        PROVE  Life!Report(what) <=> LifeProofs!Report(what)
    BY DEF Life!Report, LifeProofs!Report
  <2>5. Life!Next <=> LifeProofs!Next
    BY <2>2, <2>3, <2>4 DEF Life!Next, LifeProofs!Next, Life!Reports, LifeProofs!Reports
  <2> QED
    BY <2>5 DEF Life!lifeVars, LifeProofs!lifeVars
<1>5. LifeProofs!PassedRestsOnPassed => PassedRestsOnPassed
  BY DEF PassedRestsOnPassed, Life!PassedRestsOnPassed, LifeProofs!PassedRestsOnPassed,
     Life!DependenciesPassed, LifeProofs!DependenciesPassed
<1> QED
  BY <1>2, <1>3, <1>4, <1>5, Implements, PTL DEF KeepsThePromises, Life!Spec, LifeProofs!Spec

-----------------------------------------------------------------------------
(* What stays skipped, and what is completed *)

(* At the entry of a stage people decide, once.  A policy that refuses a   *)
(* stale stage at its entry and lets it through at the next call, or a     *)
(* decision that is revised, revives a failure without what it has skipped *)
(* (executor.py:213-217).                                                  *)
EntryIsFinal ==
  /\ \A s \in Stages : \A k \in 1 .. Len(EntryGates[s]) : EntryGates[s][k] \in ApprovalGates
  /\ "revise" \notin Operations

(* What has been decided stays decided. *)
StillDecided == \A s \in Stages, g \in Gates, i \in Incarnations :
                  approvals[s][g][i] \in {"approved", "rejected"}
                    => approvals'[s][g][i] = approvals[s][g][i]

(* Downstream of what is downstream is downstream. *)
LEMMA DownstreamOfDownstream ==
  ASSUME NEW g, NEW s, NEW t \in DownstreamOf(g, s), NEW u \in DownstreamOf(g, t)
  PROVE  u \in DownstreamOf(g, s)
<1> SUFFICES ASSUME NEW S \in SUBSET g.nodes, ClosedUnder(g, s, S) PROVE u \in S
  BY DEF DownstreamOf
<1>1. t \in S
  BY DEF DownstreamOf
<1>2. ClosedUnder(g, t, S)
  BY <1>1 DEF ClosedUnder, Dependents
<1> QED
  BY <1>2 DEF DownstreamOf

(* A stage that is refused its entry stays refused it. *)
LEMMA StaysBarred ==
  ASSUME TypeOK, NEW s \in Stages, Barred(s), StillDecided, st'[s].inc = st[s].inc
  PROVE  Barred(s)'
<1>1. st[s].inc \in Incarnations
  BY DEF TypeOK, StageStates
<1>2. PICK k \in 1 .. Len(EntryGates[s]) :
        /\ approvals[s][EntryGates[s][k]][st[s].inc] = "rejected"
        /\ \A j \in 1 .. k - 1 : approvals[s][EntryGates[s][j]][st[s].inc] = "approved"
  BY DEF Barred
<1>3. /\ EntryGates[s][k] \in Gates
      /\ \A j \in 1 .. k - 1 : EntryGates[s][j] \in Gates
  BY GatesAssumption
<1>4. /\ approvals'[s][EntryGates[s][k]][st'[s].inc] = "rejected"
      /\ \A j \in 1 .. k - 1 : approvals'[s][EntryGates[s][j]][st'[s].inc] = "approved"
  BY <1>1, <1>2, <1>3 DEF StillDecided
<1> QED
  BY <1>4 DEF Barred

(* A stage that is barred gets no further than the gate that refused it.   *)
LEMMA BarredAtTheGate ==
  ASSUME EntryIsFinal, TypeOK, GrantsStand, NEW s \in Stages, Barred(s), NEW n \in Nat \ {0},
         GrantedBefore(s, EntryGates, st[s].inc, n)
  PROVE  n <= Len(EntryGates[s]) /\ approvals[s][EntryGates[s][n]][st[s].inc] \in {"approved", "rejected"}
<1>1. st[s].inc \in Incarnations /\ Len(EntryGates[s]) \in Nat
  BY GatesAssumption DEF TypeOK, StageStates
<1>2. PICK k \in 1 .. Len(EntryGates[s]) :
        /\ approvals[s][EntryGates[s][k]][st[s].inc] = "rejected"
        /\ \A j \in 1 .. k - 1 : approvals[s][EntryGates[s][j]][st[s].inc] = "approved"
  BY DEF Barred
<1>3. EntryGates[s][k] \in Gates /\ EntryGates[s][k] \in ApprovalGates
  BY GatesAssumption DEF EntryIsFinal
<1>4. ~(k < n)
  <2> SUFFICES ASSUME k < n PROVE FALSE
    OBVIOUS
  <2>1. <<s, EntryGates[s][k], st[s].inc>> \in granted
    BY <1>3 DEF GrantedBefore
  <2> QED
    BY <1>1, <1>2, <1>3, <2>1 DEF GrantsStand
<1> QED
  BY <1>1, <1>2, <1>4

(* A stage nothing happens to stands as it did. *)
LEMMA UntouchedStands ==
  ASSUME TypeOK, NEW r \in Stages, FailureStands(r), StillDecided,
         th'[r] = th[r] \/ th'[r].pc \notin {"fail", "entry_block", "begin"}, st'[r] = st[r]
  PROVE  FailureStands(r)'
<1>1. Barred(r) => Barred(r)'
  BY StaysBarred
<1> QED
  BY <1>1 DEF FailureStands

(* What is skipped is below a failure that stands. *)
LEMMA StillBelowFailure ==
  ASSUME SkippedBelowFailure,
         \A r \in Stages : st'[r].status = "skipped" => st[r].status = "skipped",
         \A r \in InitialGraph.nodes : st[r].status = "failed" => st'[r].status = "failed"
  PROVE  SkippedBelowFailure'
  BY DEF SkippedBelowFailure

(* A step of run() lets what is dead and what is done stand. *)
LEMMA RunStands ==
  ASSUME EntryIsFinal, TypeOK, Walk, Barrier, Accounted, Standing, CallRun \/ RunStep
  PROVE  Standing'
<1>0. /\ th \in [Stages -> Places] /\ st \in [Stages -> StageStates]
      /\ layer \subseteq Stages /\ done \subseteq Stages
      /\ mem = InitialGraph /\ done \cup layer \subseteq InitialGraph.nodes
      /\ InitialGraph.nodes \subseteq Stages
      /\ \A s \in Stages : FailureStands(s)
      /\ SkippedBelowFailure
  BY GraphAssumption DEF TypeOK, Accounted, Standing, Graphs
<1>1. UNCHANGED <<approvals, granted>>
  BY DEF RunStep, CallRun, Unpause, StartLayer, PlanLayer, Submit, Join, Pause, Reload, Finalize,
         Finish, SkipBlocked, storeVars
<1>2. StillDecided /\ GrantsStand'
  BY <1>1 DEF StillDecided, Standing, GrantsStand
<1>3. ASSUME st' = st,
             \A r \in Stages : th'[r] = th[r] \/ th'[r].pc \notin {"fail", "entry_block", "begin"},
             pc' = "finish" => done' = InitialGraph.nodes,
             pc' = "idle" /\ status' \in {"completed", "failed"} =>
               \A s \in InitialGraph.nodes : st[s].status \in Settled,
             status' = "completed" => NothingLeft'
      PROVE  Standing'
  <2>1. \A s \in Stages : FailureStands(s)'
    BY <1>0, <1>2, <1>3, UntouchedStands
  <2>2. SkippedBelowFailure'
    BY <1>0, <1>3, StillBelowFailure
  <2> QED
    BY <1>2, <1>3, <2>1, <2>2 DEF Standing
<1>4. ASSUME UNCHANGED <<st, th>>, runnable' \subseteq runnable, skipping' \subseteq skipping
      PROVE  NothingLeft => NothingLeft'
  BY <1>4 DEF NothingLeft
<1>5. CASE CallRun
  <2>1. /\ UNCHANGED <<st, th, status, done, runnable, skipping>> /\ pc' # "finish"
        /\ pc' = "idle" => status = "paused_safe_stop"
    BY <1>5 DEF CallRun, storeVars
  <2> QED
    BY <1>3, <1>4, <2>1 DEF Standing
<1>6. CASE Unpause
  BY <1>3, <1>6 DEF Unpause
<1>7. CASE StartLayer
  <2>1. /\ UNCHANGED <<st, th, status>> /\ pc' # "finish"
        /\ pc' = "idle" => status = "paused_safe_stop"
        /\ runnable' \subseteq runnable /\ skipping' \subseteq skipping
    BY <1>7 DEF StartLayer, Return, storeVars
  <2> QED
    BY <1>3, <1>4, <2>1 DEF Standing
<1>8. CASE PlanLayer
  <2>1. UNCHANGED <<st, th, status>> /\ pc' = "skip"
    BY <1>8 DEF PlanLayer, storeVars
  <2>2. ASSUME NothingLeft PROVE NothingLeft'
    <3>1. \A s \in layer : ~IsActionable(st[s])
      BY <1>0, <2>2 DEF NothingLeft, FailureStands, IsActionable
    <3>2. runnable' = {} /\ skipping' = {}
      BY <1>8, <3>1 DEF PlanLayer
    <3> QED
      BY <2>1, <2>2, <3>2 DEF NothingLeft
  <2> QED
    BY <1>3, <2>1, <2>2 DEF Standing
<1>9. CASE Submit
  <2>1. UNCHANGED <<st, status, runnable, skipping>> /\ pc' = "join"
    BY <1>9 DEF Submit, storeVars
  <2>2. \A r \in Stages : IF r \in runnable THEN th'[r].pc = "start" ELSE th'[r] = th[r]
    BY <1>9 DEF Submit, NoThread
  <2>3. NothingLeft => NothingLeft'
    BY <2>1, <2>2 DEF NothingLeft
  <2> QED
    BY <1>3, <2>1, <2>2, <2>3 DEF Standing
<1>10. CASE Join \/ Reload
  <2>1. /\ UNCHANGED <<st, th, status>> /\ pc' # "finish"
        /\ pc' = "idle" => status \in Paused
        /\ runnable' \subseteq runnable /\ skipping' \subseteq skipping
    BY <1>10 DEF Join, Reload, Return, LayerDone, storeVars
  <2> QED
    BY <1>3, <1>4, <2>1 DEF Standing, Paused
<1>11. CASE Pause
  BY <1>3, <1>11 DEF Pause
<1>12. CASE Finalize
  <2>1. /\ UNCHANGED <<st, th, status, runnable, skipping>> /\ pc' = "finish"
        /\ done' = InitialGraph.nodes
    BY <1>0, <1>12 DEF Finalize, storeVars
  <2> QED
    BY <1>3, <1>4, <2>1 DEF Standing
<1>13. CASE Finish
  <2>1. /\ UNCHANGED <<st, th>> /\ pc' = "idle" /\ status' = verdict
        /\ runnable' = {} /\ skipping' = {} /\ pc = "finish"
    BY <1>13 DEF Finish, Return
  <2>2. \A s \in InitialGraph.nodes : st[s].status \in Settled
    BY <2>1 DEF Standing, Barrier
  <2>3. ASSUME verdict = "completed" PROVE NothingLeft'
    <3>1. \A s \in InitialGraph.nodes : st[s].status \in {"passed", "skipped"}
      BY <2>1, <2>3 DEF Accounted, VerdictHolds
    <3>2. \A s \in InitialGraph.nodes : st[s].status = "passed"
      BY <1>0, <3>1 DEF SkippedBelowFailure
    <3>3. \A s \in Stages : th[s].pc = "none"
      BY <2>1 DEF Walk
    <3> QED
      BY <2>1, <3>2, <3>3 DEF NothingLeft
  <2> QED
    BY <1>3, <2>1, <2>2, <2>3
<1>14. ASSUME NEW d \in Stages, SkipBlocked(d) PROVE Standing'
  <2>1. /\ pc = "skip" /\ UNCHANGED <<pc, th, status, done>> /\ d \in skipping
        /\ d \in layer /\ d \in InitialGraph.nodes /\ d \notin done
        /\ th[d].pc = "none"
    BY <1>0, <1>14 DEF SkipBlocked, Walk
  <2>2. /\ st'[d].status = "skipped" /\ \A r \in Stages \ {d} : st'[r] = st[r]
    BY <1>0, <1>14 DEF SkipBlocked, Skipped, StageStates
  <2>3. PICK e \in InitialGraph.deps[d] : BlocksDependents(st[e])
    BY <1>0, <2>1 DEF Accounted
  <2>4. /\ e \in done /\ e \in InitialGraph.nodes /\ e \in Stages
        /\ d \in DownstreamOf(InitialGraph, e)
    BY <1>0, <2>1, DependentIsDownstream DEF Walk
  <2>5. st[e].status \in {"failed", "skipped"}
    BY <2>3, <2>4 DEF BlocksDependents, Barrier, Settled
  <2>6. PICK u \in InitialGraph.nodes :
           st[u].status = "failed" /\ d \in DownstreamOf(InitialGraph, u)
    <3>1. CASE st[e].status = "failed"
      BY <2>4, <3>1
    <3>2. CASE st[e].status = "skipped"
      BY <1>0, <2>4, <3>2, DownstreamOfDownstream DEF SkippedBelowFailure
    <3> QED
      BY <2>5, <3>1, <3>2
  <2>7. u # d /\ st'[u].status = "failed"
    BY <1>0, <2>1, <2>2, <2>6, GraphAssumption DEF Valid, Acyclic
  <2>8. ASSUME NEW r \in Stages, st'[r].status = "skipped"
        PROVE  \E t \in InitialGraph.nodes :
                  st'[t].status = "failed" /\ r \in DownstreamOf(InitialGraph, t)
    <3>1. CASE r = d
      BY <2>6, <2>7, <3>1
    <3>2. CASE r # d
      <4>1. PICK t \in InitialGraph.nodes :
               st[t].status = "failed" /\ r \in DownstreamOf(InitialGraph, t)
        BY <1>0, <2>2, <2>8, <3>2 DEF SkippedBelowFailure
      <4>2. CASE t = d
        BY <2>6, <2>7, <4>1, <4>2, DownstreamOfDownstream
      <4>3. CASE t # d
        BY <1>0, <2>2, <4>1, <4>3
      <4> QED
        BY <4>2, <4>3
    <3> QED
      BY <3>1, <3>2
  <2>9. ASSUME NEW r \in Stages PROVE FailureStands(r)'
    <3>1. CASE r = d
      BY <2>1, <2>2, <3>1 DEF FailureStands
    <3>2. CASE r # d
      BY <1>0, <1>2, <2>1, <2>2, <3>2, UntouchedStands
    <3> QED
      BY <3>1, <3>2
  <2>10. status # "completed"
    BY <2>1 DEF Standing, NothingLeft
  <2> QED
    BY <1>2, <2>1, <2>8, <2>9, <2>10 DEF Standing, SkippedBelowFailure
<1> QED
  BY <1>5, <1>6, <1>7, <1>8, <1>9, <1>10, <1>11, <1>12, <1>13, <1>14 DEF RunStep

(* A step of a thread lets what is dead and what is done stand. *)
LEMMA ThreadStands ==
  ASSUME EntryIsFinal, TypeOK, Walk, Governance, Barrier, Accounted, Standing,
         NEW s \in Stages, ThreadStep(s)
  PROVE  Standing'
<1>0. /\ th \in [Stages -> Places] /\ st \in [Stages -> StageStates]
      /\ th[s] \in Places /\ st[s] \in StageStates /\ st[s].inc \in Incarnations
      /\ done \subseteq Stages /\ layer \subseteq Stages /\ mem \in Graphs
      /\ mem = InitialGraph /\ done \cup layer \subseteq InitialGraph.nodes
      /\ InitialGraph.nodes \subseteq Stages
      /\ \A r \in Stages : FailureStands(r)
      /\ SkippedBelowFailure
  BY GraphAssumption DEF TypeOK, StageStates, Accounted, Standing, Graphs
<1>1. /\ pc = "join" /\ s \in layer
      /\ UNCHANGED <<pc, done, status>>
      /\ \A r \in Stages \ {s} : th'[r] = th[r]
  BY ThreadFrame DEF runVars
<1>2. FailureStands(s) /\ StageAccounted(s) /\ ThreadGoverned(s) /\ StageInStep(s)
  BY DEF Standing, Accounted, Governance, Barrier
<1>3. th[s].pc # "none"
  BY DEF ThreadStep, StartThread, CheckApproval, CheckPolicy, Block, Enter, BeginAttempt,
         AgentFails, AgentSucceeds, Accept, PassStage, RetryStage, InvokeFallback, GiveUp,
         FailStage, Propagate, Propagated, SkipDownstream, At, AtGate
<1>4. status # "completed"
  BY <1>3 DEF Standing, NothingLeft
<1>5. granted' = granted
  BY DEF ThreadStep, StartThread, CheckApproval, CheckPolicy, Block, Enter, BeginAttempt,
         AgentFails, AgentSucceeds, Accept, PassStage, RetryStage, InvokeFallback, GiveUp,
         FailStage, Propagate, Propagated, SkipDownstream
<1>6. StillDecided /\ GrantsStand'
  <2>1. CASE approvals' = approvals
    BY <1>5, <2>1 DEF StillDecided, Standing, GrantsStand
  <2>2. CASE CheckApproval(s)
    <3>1. Gate(s) \in Gates /\ RequestOf(s) \in Incarnations
      BY <1>0, <2>2, GatesAssumption DEF CheckApproval, RequestOf, Places
    <3>2. \/ approvals' = approvals
          \/ /\ approvals[s][Gate(s)][RequestOf(s)] = "none"
             /\ approvals' = [approvals EXCEPT ![s][Gate(s)][RequestOf(s)] = "pending"]
      BY <2>2 DEF CheckApproval
    <3>3. ASSUME NEW r \in Stages, NEW h \in Gates, NEW j \in Incarnations,
                 approvals[r][h][j] \in {"approved", "rejected"}
          PROVE  approvals'[r][h][j] = approvals[r][h][j]
      <4>1. ~(r = s /\ h = Gate(s) /\ j = RequestOf(s)) \/ approvals' = approvals
        BY <3>2, <3>3
      <4> QED
        BY <3>1, <3>2, <4>1 DEF TypeOK
    <3>4. StillDecided
      BY <3>3 DEF StillDecided
    <3> QED
      BY <1>5, <3>4 DEF StillDecided, Standing, GrantsStand
  <2> QED
    BY <2>1, <2>2
       DEF ThreadStep, StartThread, CheckPolicy, Block, Enter, BeginAttempt, AgentFails,
           AgentSucceeds, Accept, PassStage, RetryStage, InvokeFallback, GiveUp, FailStage,
           Propagate, Propagated, SkipDownstream
<1>7. ASSUME \A r \in Stages \ {s} : st'[r] = st[r],
             st'[s].status = "skipped" => st[s].status = "skipped",
             st[s].status = "failed" => st'[s].status = "failed",
             FailureStands(s)'
      PROVE  Standing'
  <2>1. \A r \in Stages : FailureStands(r)'
    BY <1>0, <1>1, <1>6, <1>7, UntouchedStands
  <2>2. SkippedBelowFailure'
    BY <1>0, <1>7, StillBelowFailure
  <2> QED
    BY <1>1, <1>4, <1>6, <2>1, <2>2 DEF Standing
<1>8. ASSUME st' = st, th'[s].pc \notin {"fail", "entry_block", "begin"} PROVE Standing'
  BY <1>0, <1>6, <1>7, <1>8, UntouchedStands
<1>9. ASSUME st'[s].status \notin {"passed", "failed", "skipped"}, st[s].status # "failed",
             th'[s].pc # "fail", \A r \in Stages \ {s} : st'[r] = st[r]
      PROVE  Standing'
  BY <1>7, <1>9 DEF FailureStands
<1>10. ASSUME st[s].status = "failed", th[s].pc = "entry"
       PROVE  /\ Barred(s) /\ th[s].gate <= Len(EntryGates[s])
              /\ approvals[s][EntryGates[s][th[s].gate]][st[s].inc] \in {"approved", "rejected"}
  <2>1. Barred(s)
    BY <1>2, <1>10 DEF StageAccounted, IsActionable, FailureStands
  <2>2. GrantedBefore(s, EntryGates, st[s].inc, th[s].gate) /\ th[s].gate \in Nat \ {0}
    BY <1>0, <1>2, <1>10 DEF ThreadGoverned, Places
  <2> QED
    BY <2>1, <2>2, BarredAtTheGate DEF Standing
<1>11. CASE StartThread(s)
  <2>1. st' = st /\ th'[s].pc \in {"recheck", "entry"}
    BY <1>0, <1>11 DEF StartThread, NoThread
  <2> QED
    BY <1>8, <2>1
<1>12. CASE CheckApproval(s)
  <2> DEFINE n == th[s].gate
             decision == approvals[s][Gate(s)][st[s].inc]
  <2>1. /\ st' = st /\ th[s].pc \in {"entry", "exit", "recheck"} /\ th[s].inc = st[s].inc
        /\ n \in Nat \ {0} /\ Gate(s) \in Gates
        /\ th'[s] = CASE decision = "approved" -> [th[s] EXCEPT !.gate = @ + 1]
                      [] decision = "rejected" -> WhenRejected(s)
                      [] OTHER -> WhenBlocked(s)
    BY <1>0, <1>2, <1>12, GatesAssumption
       DEF CheckApproval, AtGate, RequestOf, ThreadGoverned, Places
  <2>2. th[s].pc = "entry" => Gate(s) = EntryGates[s][n] /\ n <= Len(EntryGates[s])
    BY <1>12 DEF CheckApproval, AtGate, MoreGates, Gate, GatesOf
  <2>3. CASE decision = "approved"
    <3>1. th'[s].pc = th[s].pc
      BY <1>0, <2>1, <2>3 DEF Places
    <3> QED
      BY <1>8, <2>1, <3>1
  <2>4. CASE decision = "rejected" /\ th[s].pc = "entry"
    <3>1. /\ GrantedBefore(s, EntryGates, st[s].inc, n)
          /\ Len(EntryGates[s]) \in Nat
      BY <1>2, <2>4, GatesAssumption DEF ThreadGoverned
    <3>2. ASSUME NEW j \in 1 .. n - 1
          PROVE  approvals[s][EntryGates[s][j]][st[s].inc] = "approved"
      <4>1. /\ j \in 1 .. Len(EntryGates[s]) /\ j < n
            /\ EntryGates[s][j] \in Gates /\ EntryGates[s][j] \in ApprovalGates
        BY <2>1, <2>2, <2>4, <3>1, GatesAssumption DEF EntryIsFinal
      <4>2. <<s, EntryGates[s][j], st[s].inc>> \in granted
        BY <3>1, <4>1 DEF GrantedBefore
      <4> QED
        BY <1>0, <4>1, <4>2 DEF Standing, GrantsStand
    <3>3. Barred(s)
      BY <2>1, <2>2, <2>4, <3>1, <3>2 DEF Barred
    <3>4. Barred(s)'
      BY <1>6, <2>1, <3>3, StaysBarred
    <3>5. th'[s].pc = "fail"
      BY <1>0, <2>1, <2>4 DEF WhenRejected, Places
    <3>6. FailureStands(s)'
      BY <1>2, <2>1, <3>4, <3>5 DEF FailureStands
    <3> QED
      BY <1>7, <2>1, <3>6
  <2>5. CASE decision = "rejected" /\ th[s].pc = "exit"
    <3>1. th'[s].pc = "attempt_failed"
      BY <1>0, <2>1, <2>5 DEF WhenRejected, Places
    <3> QED
      BY <1>8, <2>1, <3>1
  <2>6. CASE decision = "rejected" /\ th[s].pc = "recheck"
    <3>1. /\ th'[s].pc = "fail" /\ ~st[s].stale
      BY <1>0, <1>2, <2>1, <2>6 DEF WhenRejected, Places, StageAccounted
    <3>2. FailureStands(s)'
      BY <1>2, <2>1, <3>1 DEF FailureStands
    <3> QED
      BY <1>7, <2>1, <3>2
  <2>7. CASE decision \notin {"approved", "rejected"} /\ th[s].pc = "entry"
    <3>1. st[s].status # "failed"
      BY <1>10, <2>2, <2>7
    <3>2. th'[s].pc = "entry_block"
      BY <1>0, <2>1, <2>7 DEF WhenBlocked, Places
    <3>3. FailureStands(s)'
      BY <1>2, <2>1, <3>1, <3>2 DEF FailureStands
    <3> QED
      BY <1>7, <2>1, <3>3
  <2>8. CASE decision \notin {"approved", "rejected"} /\ th[s].pc # "entry"
    <3>1. th'[s].pc \in {"exit_block", "none"}
      BY <1>0, <2>1, <2>8 DEF WhenBlocked, NoThread, Places
    <3> QED
      BY <1>8, <2>1, <3>1
  <2> QED
    BY <2>1, <2>3, <2>4, <2>5, <2>6, <2>7, <2>8
<1>13. CASE CheckPolicy(s)
  <2>1. st' = st /\ th[s].pc \in {"entry", "exit", "recheck"}
    BY <1>13 DEF CheckPolicy, AtGate
  <2>2. th[s].pc # "entry"
    <3>1. th[s].pc = "entry" => th[s].gate \in 1 .. Len(EntryGates[s])
                                  /\ EntryGates[s][th[s].gate] \notin ApprovalGates
      BY <1>0, <1>13, GatesAssumption
         DEF CheckPolicy, AtGate, MoreGates, Gate, GatesOf, Places
    <3> QED
      BY <3>1 DEF EntryIsFinal
  <2>3. \/ th'[s].pc \in {"exit", "recheck", "attempt_failed"}
        \/ th'[s].pc = "fail" /\ th[s].pc = "recheck"
    BY <1>0, <1>13, <2>1, <2>2 DEF CheckPolicy, WhenRejected, Places
  <2>4. CASE th'[s].pc = "fail" /\ th[s].pc = "recheck"
    <3>1. FailureStands(s)'
      BY <1>2, <2>1, <2>4 DEF FailureStands, StageAccounted
    <3> QED
      BY <1>7, <2>1, <3>1
  <2> QED
    BY <1>8, <2>1, <2>3, <2>4
<1>14. CASE Block(s)
  <2>1. /\ st'[s].status = "blocked_approval" /\ th'[s].pc = "none"
        /\ th[s].pc \in {"entry_block", "exit_block"}
        /\ \A r \in Stages \ {s} : st'[r] = st[r]
    BY <1>0, <1>14 DEF Block, Exit, NoThread, StageStates
  <2>2. st[s].status # "failed"
    BY <1>2, <2>1 DEF FailureStands, StageAccounted, AtWork
  <2> QED
    BY <1>9, <2>1, <2>2
<1>15. CASE Enter(s)
  <2>1. st' = st /\ th[s].pc = "entry" /\ th'[s].pc = "begin"
    BY <1>0, <1>15 DEF Enter, At, Places
  <2>2. ~(th[s].gate <= Len(EntryGates[s]))
    BY <1>15, <2>1 DEF Enter, MoreGates, GatesOf
  <2>3. st[s].status # "failed"
    BY <1>10, <2>1, <2>2
  <2>4. FailureStands(s)'
    BY <1>2, <2>1, <2>3 DEF FailureStands
  <2> QED
    BY <1>7, <2>1, <2>4
<1>16. CASE BeginAttempt(s)
  <2>1. /\ st'[s].status \in {"running", "retrying"}
        /\ th[s].pc = "begin" /\ th'[s].pc = "agent"
        /\ \A r \in Stages \ {s} : st'[r] = st[r]
    BY <1>0, <1>16 DEF BeginAttempt, At, Places, StageStates
  <2>2. st[s].status # "failed"
    BY <1>2, <2>1 DEF FailureStands
  <2> QED
    BY <1>9, <2>1, <2>2
<1>17. CASE AgentFails(s)
  <2>1. st' = st /\ th'[s].pc = "attempt_failed"
    BY <1>0, <1>17 DEF AgentFails, Goto, Places
  <2> QED
    BY <1>8, <2>1
<1>18. CASE AgentSucceeds(s)
  <2>1. /\ st'[s].status = st[s].status /\ th[s].pc = "agent" /\ th'[s].pc = "exit"
        /\ \A r \in Stages \ {s} : st'[r] = st[r]
    BY <1>0, <1>18 DEF AgentSucceeds, At, Places, StageStates
  <2>2. st[s].status \in {"running", "retrying"}
    BY <1>2, <2>1 DEF StageAccounted, AtWork
  <2> QED
    BY <1>9, <2>1, <2>2
<1>19. CASE Accept(s)
  <2>1. st' = st /\ th'[s].pc = "pass"
    BY <1>0, <1>19 DEF Accept, Goto, Places
  <2> QED
    BY <1>8, <2>1
<1>20. CASE PassStage(s)
  <2>1. /\ st'[s].status = "passed" /\ st'[s].stale = st[s].stale
        /\ th[s].pc = "pass" /\ th'[s].pc = "none"
        /\ \A r \in Stages \ {s} : st'[r] = st[r]
    BY <1>0, <1>20 DEF PassStage, At, Exit, NoThread, StageStates
  <2>2. ~st[s].stale /\ st[s].status # "failed"
    BY <1>2, <2>1 DEF StageAccounted, AtWork
  <2>3. FailureStands(s)'
    BY <2>1, <2>2 DEF FailureStands
  <2> QED
    BY <1>7, <2>1, <2>2, <2>3
<1>21. CASE RetryStage(s)
  <2>1. /\ st'[s].status = "retrying" /\ th[s].pc = "attempt_failed" /\ th'[s].pc = "begin"
        /\ \A r \in Stages \ {s} : st'[r] = st[r]
    BY <1>0, <1>21 DEF RetryStage, At, Goto, Places, StageStates
  <2>2. st[s].status # "failed"
    BY <1>2, <2>1 DEF StageAccounted, AtWork
  <2> QED
    BY <1>9, <2>1, <2>2
<1>22. CASE InvokeFallback(s)
  <2>1. st' = st /\ th[s].pc = "attempt_failed" /\ th'[s].pc = "begin"
    BY <1>0, <1>22 DEF InvokeFallback, At, Places
  <2>2. st[s].status \in {"running", "retrying"}
    BY <1>2, <2>1 DEF StageAccounted, AtWork
  <2> QED
    BY <1>9, <2>1, <2>2
<1>23. CASE GiveUp(s)
  <2>1. st' = st /\ th[s].pc = "attempt_failed" /\ th'[s].pc = "fail"
    BY <1>0, <1>23 DEF GiveUp, At, Goto, Places
  <2>2. FailureStands(s)'
    BY <1>2, <2>1 DEF FailureStands, StageAccounted
  <2> QED
    BY <1>7, <2>1, <2>2
<1>24. CASE FailStage(s)
  <2>1. /\ st'[s].status = "failed" /\ st'[s].stale = st[s].stale /\ st'[s].inc = st[s].inc
        /\ th[s].pc = "fail" /\ th'[s].pc = "propagate"
        /\ \A r \in Stages \ {s} : st'[r] = st[r]
    BY <1>0, <1>24 DEF FailStage, At, Goto, Places, StageStates
  <2>2. Barred(s) => Barred(s)'
    BY <1>6, <2>1, StaysBarred
  <2>3. FailureStands(s)'
    BY <1>2, <2>1, <2>2 DEF FailureStands
  <2> QED
    BY <1>7, <2>1, <2>3
<1>25. CASE Propagate(s)
  <2>1. st' = st /\ th'[s].pc = "skip"
    BY <1>0, <1>25 DEF Propagate, Places
  <2> QED
    BY <1>8, <2>1
<1>26. CASE Propagated(s)
  <2>1. st' = st /\ th'[s].pc = "none"
    BY <1>0, <1>26 DEF Propagated, Exit, NoThread
  <2> QED
    BY <1>8, <2>1
<1>27. ASSUME NEW d \in Stages, SkipDownstream(s, d) PROVE Standing'
  <2>1. /\ th[s].pc = "skip" /\ th'[s].pc = "skip" /\ d \in th[s].skips
    BY <1>0, <1>27 DEF SkipDownstream, At, Places
  <2>2. /\ st'[d].status = "skipped" /\ \A r \in Stages \ {d} : st'[r] = st[r]
    BY <1>0, <1>27 DEF SkipDownstream, Skipped, StageStates
  <2>3. /\ d \in DownstreamOf(InitialGraph, s) /\ st[s].status = "failed"
        /\ st[d].status # "failed" /\ s \in InitialGraph.nodes
    BY <1>0, <1>1, <1>2, <2>1 DEF Walk, StageInStep, StageAccounted
  <2>4. d # s /\ th[d].pc = "none"
    <3>1. d \notin layer
      BY <1>0, <1>1, <2>3, DownstreamBeyond DEF Walk
    <3> QED
      BY <1>1, <3>1 DEF Walk
  <2>5. ASSUME NEW r \in Stages PROVE FailureStands(r)'
    <3>1. CASE r = d
      BY <1>1, <2>2, <2>4, <3>1 DEF FailureStands
    <3>2. CASE r # d
      BY <1>0, <1>1, <1>6, <2>1, <2>2, <3>2, UntouchedStands
    <3> QED
      BY <3>1, <3>2
  <2>6. SkippedBelowFailure'
    BY <1>0, <2>2, <2>3, <2>4 DEF SkippedBelowFailure
  <2> QED
    BY <1>1, <1>4, <1>6, <2>5, <2>6 DEF Standing
<1> QED
  BY <1>11, <1>12, <1>13, <1>14, <1>15, <1>16, <1>17, <1>18, <1>19, <1>20, <1>21, <1>22,
     <1>23, <1>24, <1>25, <1>26, <1>27 DEF ThreadStep

(* Between the calls of run() an operator lets what is dead and what is    *)
(* done stand: whoever takes a failure back takes back what it skipped.    *)
LEMMA OperatorStands ==
  ASSUME Contained, EntryIsFinal, TypeOK, Walk, Accounted, Standing, OperatorStep
  PROVE  Standing'
<1>0. /\ th \in [Stages -> Places] /\ st \in [Stages -> StageStates]
      /\ graph = InitialGraph /\ mem = InitialGraph
      /\ InitialGraph.nodes \subseteq Stages
      /\ \A s \in Stages : FailureStands(s)
      /\ SkippedBelowFailure
  BY GraphAssumption DEF TypeOK, Accounted, Standing, Graphs
<1>1. ASSUME UNCHANGED <<st, th, pc, done, runnable, skipping>>, StillDecided, GrantsStand',
             status' \in {"running", "paused_safe_stop"} \/ status' = status
      PROVE  Standing'
  <2>1. \A s \in Stages : FailureStands(s)'
    BY <1>0, <1>1, UntouchedStands
  <2>2. SkippedBelowFailure'
    BY <1>0, <1>1, StillBelowFailure
  <2>3. NothingLeft => NothingLeft'
    BY <1>1 DEF NothingLeft
  <2> QED
    BY <1>1, <2>1, <2>2, <2>3 DEF Standing
<1>2. CASE RequestSafeStop \/ ResumeFromSafeStop
  BY <1>1, <1>2
     DEF RequestSafeStop, ResumeFromSafeStop, runVars, StillDecided, Standing, GrantsStand
<1>3. CASE Crash
  BY <1>3 DEF Crash, Operate, Contained, Undisturbed
<1>4. CASE Restart
  BY <1>0, <1>4 DEF Restart
<1>5. CASE Decide
  <2>1. PICK s \in Stages, g \in ApprovalGates, i \in Incarnations,
             decision \in {"approved", "rejected"} : Resolve(s, g, i, decision)
    BY <1>5 DEF Decide
  <2>2. /\ g \in Gates /\ approvals[s][g][i] = "pending"
        /\ approvals' = [approvals EXCEPT ![s][g][i] = decision]
        /\ granted' = IF decision = "approved" THEN granted \cup {<<s, g, i>>} ELSE granted
    BY <2>1, GatesAssumption DEF Resolve, EntryIsFinal
  <2>3. StillDecided
    BY <2>2 DEF StillDecided, TypeOK
  <2>4. ASSUME NEW r \in Stages, NEW h \in Gates, NEW j \in Incarnations, <<r, h, j>> \in granted'
        PROVE  approvals'[r][h][j] = "approved"
    <3>1. CASE <<r, h, j>> \in granted
      <4>1. approvals[r][h][j] = "approved"
        BY <3>1 DEF Standing, GrantsStand
      <4> QED
        BY <2>3, <4>1 DEF StillDecided
    <3>2. CASE <<r, h, j>> \notin granted
      <4>1. r = s /\ h = g /\ j = i /\ decision = "approved"
        BY <2>2, <2>4, <3>2
      <4> QED
        BY <2>2, <4>1 DEF TypeOK
    <3> QED
      BY <3>1, <3>2
  <2>5. GrantsStand'
    BY <2>4 DEF GrantsStand
  <2> QED
    BY <1>1, <2>1, <2>3, <2>5 DEF Resolve, runVars
<1>6. ASSUME NEW s \in Stages, Rollback(s) \/ Invalidate(s) PROVE Standing'
  <2>1. /\ pc = "idle" /\ UNCHANGED <<th, runVars, approvals, granted>> /\ status' = "running"
        /\ s \in InitialGraph.nodes
    BY <1>0, <1>6 DEF Rollback, Invalidate, Operate, Contained, Undisturbed, Reopened
  <2>2. ASSUME NEW r \in Stages
        PROVE  IF r \in Affected(InitialGraph, s) \cup {s}
                 THEN \E to \in {"rolled_back", "stale"} : st'[r] = Reset(st[r], to)
                 ELSE st'[r] = st[r]
    BY <1>0, <1>6 DEF Rollback, Invalidate
  <2>3. ASSUME NEW r \in Stages
        PROVE  IF r \in Affected(InitialGraph, s) \cup {s}
                 THEN st'[r].status \in {"rolled_back", "stale"}
                 ELSE st'[r] = st[r]
    <3>1. st[r] \in StageStates
      BY <1>0
    <3> QED
      BY <2>2, <3>1 DEF Reset, StageStates
  <2>4. StillDecided /\ GrantsStand'
    BY <2>1 DEF StillDecided, Standing, GrantsStand
  <2>5. ASSUME NEW r \in Stages PROVE FailureStands(r)'
    <3>1. CASE r \in Affected(InitialGraph, s) \cup {s}
      BY <2>1, <2>3, <3>1 DEF FailureStands, Walk
    <3>2. CASE r \notin Affected(InitialGraph, s) \cup {s}
      BY <1>0, <2>1, <2>3, <2>4, <3>2, UntouchedStands
    <3> QED
      BY <3>1, <3>2
  <2>6. ASSUME NEW r \in Stages, st'[r].status = "skipped"
        PROVE  \E t \in InitialGraph.nodes :
                  st'[t].status = "failed" /\ r \in DownstreamOf(InitialGraph, t)
    <3>1. r \notin Affected(InitialGraph, s) \cup {s} /\ st[r].status = "skipped"
      BY <2>3, <2>6
    <3>2. PICK t \in InitialGraph.nodes :
             st[t].status = "failed" /\ r \in DownstreamOf(InitialGraph, t)
      BY <1>0, <3>1 DEF SkippedBelowFailure
    <3>3. t \notin Affected(InitialGraph, s) \cup {s}
      BY <3>1, <3>2, DownstreamOfDownstream DEF Affected
    <3> QED
      BY <1>0, <2>3, <3>2, <3>3
  <2> QED
    BY <2>1, <2>4, <2>5, <2>6 DEF Standing, SkippedBelowFailure, runVars
<1>7. ASSUME NEW new \in Insertions, InsertStage(new) PROVE Standing'
  BY <1>7 DEF InsertStage, Operate, Contained
<1> QED
  BY <1>2, <1>3, <1>4, <1>5, <1>6, <1>7 DEF OperatorStep

(* What is dead and what is done stands in every reachable state. *)
LEMMA StandingCorrect ==
  ASSUME Contained, EntryIsFinal
  PROVE  Spec => [](TypeOK /\ Walk /\ Governance /\ Barrier /\ Accounted /\ Standing)
<1>1. Init => Standing
  BY DEF Init, Standing, GrantsStand, FailureStands, SkippedBelowFailure, NewStage, NoThread
<1>2. /\ TypeOK /\ Walk /\ Governance /\ Barrier /\ Accounted /\ Standing /\ [Next]_vars
      => Standing'
  <2> SUFFICES ASSUME TypeOK, Walk, Governance, Barrier, Accounted, Standing, [Next]_vars
               PROVE  Standing'
    OBVIOUS
  <2>1. CASE UNCHANGED vars
    <3>1. UNCHANGED <<st, th, pc, done, runnable, skipping, approvals, granted, status>>
      BY <2>1 DEF vars, storeVars, runVars
    <3>2. StillDecided
      BY <3>1 DEF StillDecided
    <3>3. \A s \in Stages : FailureStands(s)'
      BY <3>1, <3>2, UntouchedStands DEF Standing
    <3> QED
      BY <3>1, <3>3 DEF Standing, GrantsStand, SkippedBelowFailure, NothingLeft
  <2> QED
    BY <2>1, RunStands, ThreadStands, OperatorStands DEF Next
<1> QED
  BY <1>1, <1>2, AccountedCorrect, PTL DEF Spec

(* A run that is reported completed has nothing left to do or to redo      *)
(* (executor.py:477-488): indeed everything in it has passed.              *)
THEOREM CompletedIsDoneAlways ==
  ASSUME Contained, EntryIsFinal
  PROVE  Spec => []CompletedIsDone
<1>1. Accounted /\ Standing => CompletedIsDone
  <2> SUFFICES ASSUME Accounted, Standing, status = "completed", NEW s \in graph.nodes
               PROVE  st[s].status = "passed" /\ ~st[s].stale
    BY DEF CompletedIsDone, IsActionable
  <2>1. s \in InitialGraph.nodes /\ s \in Stages
    BY GraphAssumption DEF Accounted, Graphs
  <2> QED
    BY <2>1 DEF Standing, NothingLeft, FailureStands
<1> QED
  BY <1>1, StandingCorrect, PTL

(* When a call of run() has settled the run, a stage that stays skipped    *)
(* depends on one that failed or was skipped itself: its failure stands    *)
(* above it, and nothing below a failure has passed                        *)
(* (architecture.md:92-95).                                                *)
THEOREM SkippedForAReasonAlways ==
  ASSUME Contained, EntryIsFinal
  PROVE  Spec => []SkippedForAReason
<1>1. Accounted /\ Standing /\ PassedRestsOnPassed => SkippedForAReason
  <2> SUFFICES ASSUME Accounted, Standing, PassedRestsOnPassed, pc = "idle",
                      status \in {"completed", "failed"},
                      NEW s \in graph.nodes, st[s].status = "skipped"
               PROVE  \E d \in graph.deps[s] : st[d].status \in {"failed", "skipped"}
    BY DEF SkippedForAReason
  <2>0. /\ graph = InitialGraph /\ InitialGraph \in Graphs /\ KnownDependencies(InitialGraph)
        /\ s \in Stages
    BY GraphAssumption DEF Accounted, Graphs, Valid
  <2>1. \A t \in InitialGraph.nodes : st[t].status \in Settled
    BY DEF Standing
  <2>2. PICK t \in InitialGraph.nodes :
           st[t].status = "failed" /\ s \in DownstreamOf(InitialGraph, t)
    BY <2>0 DEF Standing, SkippedBelowFailure
  <2> DEFINE dead == {r \in InitialGraph.nodes : st[r].status # "passed"}
  <2>3. ASSUME NEW r \in InitialGraph.nodes, NEW d \in InitialGraph.deps[r],
               st[r].status = "passed"
        PROVE  st[d].status = "passed"
    <3>1. r \in Stages /\ d \in Stages
      BY <2>0 DEF Graphs
    <3>2. LifeNow[r] = "passed"
      BY <2>3, <3>1 DEF LifeNow, LifeOf
    <3>3. LifeNow[d] = "passed"
      BY <3>2 DEF PassedRestsOnPassed, Life!PassedRestsOnPassed, Life!DependenciesPassed
    <3> QED
      BY <3>1, <3>3 DEF LifeNow, LifeOf
  <2>4. ClosedUnder(InitialGraph, t, dead)
    BY <2>2, <2>3 DEF ClosedUnder, Dependents
  <2>5. \E d \in InitialGraph.deps[s] : d = t \/ d \in dead
    <3> SUFFICES ASSUME \A d \in InitialGraph.deps[s] : d # t /\ d \notin dead PROVE FALSE
      OBVIOUS
    <3>1. ClosedUnder(InitialGraph, t, dead \ {s})
      BY <2>4 DEF ClosedUnder, Dependents
    <3> QED
      BY <2>2, <3>1 DEF DownstreamOf
  <2> QED
    BY <2>0, <2>1, <2>2, <2>5 DEF Settled, KnownDependencies
<1> QED
  BY <1>1, StandingCorrect, PassesRestAlways, PTL
=============================================================================
