------------------------------- MODULE Artifacts -------------------------------
(***************************************************************************)
(* What the stages of a run produce: the files under artifact_root, the    *)
(* table of artifacts with its versions, what an agent is handed of its    *)
(* upstream, and what the policy gates read (executor.py, agents/,         *)
(* guardrails.py).                                                         *)
(*                                                                         *)
(* A stage is at work from its first attempt to its pass, its failure or   *)
(* its wait for a person; stages whose dependencies have passed work at    *)
(* the same time.  Which stages run when, and the approvals, are the       *)
(* business of Executor.  A content is what a file holds and what the hash *)
(* of its record stands for.                                               *)
(***************************************************************************)
EXTENDS TaskGraph, SequencesExt

CONSTANTS
    Stages,
    Deps,         \* depends_on of each stage, in order
    AgentOf,      \* "author", "free" or "release", see Results
    KindOf,       \* the kind of the artifacts each stage produces
    Required,     \* REQUIRED_KINDS
    Paths,        \* paths relative to artifact_root
    Contents,     \* what a file may hold
    Forbidden,    \* contents some pattern of the guardrails matches
    None,         \* no file
    Inputs,       \* what scenario_input may tell each author to produce
    Replies,      \* what each free agent may answer
    Report,       \* the one output of the release agent
    Scanned,      \* the stages with policy exit gates
    Approved,     \* the stages with an approval as their last exit gate
    MaxAttempts,  \* retry_policy.max_attempts
    MaxSetAside   \* bound: how often stages are set aside

Outputs == [path : Paths, content : Contents]
Upstream(s) == ToSet(Deps[s])

ASSUME StagesAssumption ==
    /\ Deps \in [Stages -> Seq(Stages)]
    /\ \A s \in Stages : s \notin Upstream(s)
    /\ AgentOf \in [Stages -> {"author", "free", "release"}]
    /\ Scanned \subseteq Stages /\ Approved \subseteq Stages
ASSUME OutputsAssumption ==
    /\ Forbidden \subseteq Contents /\ None \notin Contents
    /\ Inputs \in [Stages -> SUBSET Seq(Outputs)]
    /\ \A s \in Stages : Inputs[s] # {}
    /\ Replies \in [Stages -> SUBSET Seq(Outputs)]
    /\ Report \in Outputs
ASSUME LimitsAssumption == MaxAttempts \in Nat \ {0} /\ MaxSetAside \in Nat

VARIABLES
    files,     \* the files under artifact_root
    rows,      \* the table artifacts: the records of each stage, in order
    input,     \* scenario_input, the part each author looks for
    phase,     \* where each stage is
    attempts,  \* attempts_used
    view,      \* upstream_artifacts of its AgentContext
    todo,      \* the outputs its agent returned that are still to persist
    refs,      \* the records of its current attempt
    unread,    \* the artifacts its policy gates have still to read
    setAside   \* how often stages were set aside

vars == <<files, rows, input, phase, attempts, view, todo, refs, unread, setAside>>

(* At work or "waiting", "blocked", "passed", "failed", or "lost" in a crash. *)
AtWork == {"retry", "agent", "write", "record", "inspect", "recheck"}

Init ==
    /\ files = [p \in Paths |-> None]
    /\ rows = [s \in Stages |-> <<>>]
    /\ input \in [Stages -> UNION {Inputs[s] : s \in Stages}]
    /\ \A s \in Stages : input[s] \in Inputs[s]
    /\ phase = [s \in Stages |-> "waiting"]
    /\ attempts = [s \in Stages |-> 0]
    /\ view = [s \in Stages |-> {}]
    /\ todo = [s \in Stages |-> <<>>]
    /\ refs = [s \in Stages |-> <<>>]
    /\ unread = [s \in Stages |-> {}]
    /\ setAside = 0

Goto(s, place) == phase' = [phase EXCEPT ![s] = place]

(* _latest_by_path: of each path, the first record with the highest version. *)
Latest(records) ==
    {records[n] : n \in {m \in DOMAIN records :
        \A k \in DOMAIN records : records[k].path = records[m].path =>
            \/ records[k].version < records[m].version
            \/ records[k].version = records[m].version /\ m <= k}}

(* _collect_upstream_artifacts *)
Collected(s) == Latest(FlattenSeq([n \in DOMAIN Deps[s] |-> rows[Deps[s][n]]]))

Begin(s) ==
    /\ phase[s] \in {"waiting", "retry"}
    /\ \A d \in Upstream(s) : phase[d] = "passed"
    /\ attempts' = [attempts EXCEPT ![s] = @ + 1]
    /\ view' = [view EXCEPT ![s] = Collected(s)]
    /\ refs' = [refs EXCEPT ![s] = <<>>]
    /\ Goto(s, "agent")
    /\ UNCHANGED <<files, rows, input, todo, unread, setAside>>

(* An attempt that failed is retried while there are attempts left.        *)
FailAttempt(s) == Goto(s, IF attempts[s] < MaxAttempts THEN "retry" ELSE "failed")

(* What an agent may return; nothing is a failure.                         *)

(* An author writes down what scenario_input holds for it.                 *)
Authored(s) == {input[s]}

(* The model behind a ClaudeAgent answers anything, the same file twice    *)
(* included, and a scan of the code base finds anything.                   *)
Generated(s) == Replies[s]

(* The release agent looks for kinds among its upstream.                   *)
ReleaseReadiness(s) ==
    IF Required \subseteq {KindOf[ref.stage] : ref \in view[s]} THEN {<<Report>>} ELSE {<<>>}

Results(s) ==
    CASE AgentOf[s] = "author" -> Authored(s)
      [] AgentOf[s] = "free" -> Generated(s)
      [] AgentOf[s] = "release" -> ReleaseReadiness(s)

RunAgent(s) ==
    /\ phase[s] = "agent"
    /\ \E result \in Results(s) :
         /\ todo' = [todo EXCEPT ![s] = result]
         /\ IF result = <<>> THEN FailAttempt(s) ELSE Goto(s, "write")
    /\ UNCHANGED <<files, rows, input, attempts, view, refs, unread, setAside>>

(* Bug: a file that is there is left as it is. *)
WrittenIfMissing(output) ==
    IF files[output.path] = None THEN [files EXCEPT ![output.path] = output.content] ELSE files
Written(output) == [files EXCEPT ![output.path] = output.content]

(* Bug: the records of this attempt are not among the existing ones. *)
NextVersionOfEarlier(s, path) ==
    1 + Cardinality({n \in DOMAIN rows[s] :
            rows[s][n].path = path /\ rows[s][n] \notin ToSet(refs[s])})
NextVersion(s, path) == 1 + Cardinality({n \in DOMAIN rows[s] : rows[s][n].path = path})

(* Bug: only the last output of an attempt is shown to the gates. *)
LastInspected(s) == IF refs[s] = <<>> THEN {} ELSE {Last(refs[s])}
(* The gates are shown the records of the attempt. *)
Inspected(s) == ToSet(refs[s])

(* _persist_artifacts: each output is written, then recorded; when all     *)
(* are, the gates are evaluated.                                           *)
Write(s) ==
    /\ phase[s] = "write"
    /\ IF todo[s] # <<>>
         THEN files' = Written(Head(todo[s])) /\ Goto(s, "record") /\ UNCHANGED unread
         ELSE /\ unread' = [unread EXCEPT ![s] = IF s \in Scanned THEN Inspected(s) ELSE {}]
              /\ Goto(s, "inspect")
              /\ UNCHANGED files
    /\ UNCHANGED <<rows, input, attempts, view, todo, refs, setAside>>

Record(s) ==
    /\ phase[s] = "record"
    /\ LET output == Head(todo[s])
           ref == [stage |-> s, path |-> output.path, content |-> output.content,
                   version |-> NextVersion(s, output.path)]
       IN  /\ rows' = [rows EXCEPT ![s] = Append(@, ref)]
           /\ refs' = [refs EXCEPT ![s] = Append(@, ref)]
    /\ todo' = [todo EXCEPT ![s] = Tail(@)]
    /\ Goto(s, "write")
    /\ UNCHANGED <<files, input, attempts, view, unread, setAside>>

(* A rule reads the files one after the other, and the first match fails   *)
(* the gate.                                                               *)
Inspect(s) ==
    /\ phase[s] \in {"inspect", "recheck"}
    /\ \E ref \in unread[s] :
         IF files[ref.path] \in Forbidden
           THEN /\ IF phase[s] = "inspect" THEN FailAttempt(s) ELSE Goto(s, "failed")
                /\ unread' = [unread EXCEPT ![s] = {}]
           ELSE unread' = [unread EXCEPT ![s] = @ \ {ref}] /\ UNCHANGED phase
    /\ UNCHANGED <<files, rows, input, attempts, view, todo, refs, setAside>>

(* The policies have passed; at an approval, the stage waits, or a person  *)
(* has decided.  A rejection found by a re-check is not retried.           *)
Conclude(s) ==
    /\ phase[s] \in {"inspect", "recheck"}
    /\ unread[s] = {}
    /\ \/ s \notin Approved /\ Goto(s, "passed")
       \/ s \in Approved /\ Goto(s, "blocked")
       \/ s \in Approved /\ phase[s] = "recheck" /\ (Goto(s, "passed") \/ Goto(s, "failed"))
    /\ UNCHANGED <<files, rows, input, attempts, view, todo, refs, unread, setAside>>

(* _recheck_blocked_exit_gate, in the next call of run(): the gates see    *)
(* the latest version of every path the stage has ever written.            *)
Recheck(s) ==
    /\ phase[s] = "blocked"
    /\ unread' = [unread EXCEPT ![s] = IF s \in Scanned THEN Latest(rows[s]) ELSE {}]
    /\ Goto(s, "recheck")
    /\ UNCHANGED <<files, rows, input, attempts, view, todo, refs, setAside>>

(* Files and records survive a crash; the stages in an attempt stay         *)
(* RUNNING, one that is only re-checked stays blocked.                     *)
Interrupted(place) ==
    CASE place = "recheck" -> "blocked"
      [] place \in AtWork \ {"recheck"} -> "lost"
      [] OTHER -> place

Crash ==
    /\ \E s \in Stages : phase[s] \in AtWork
    /\ phase' = [s \in Stages |-> Interrupted(phase[s])]
    /\ UNCHANGED <<files, rows, input, attempts, view, todo, refs, unread, setAside>>

(* Bug: what depends on the stage keeps its pass. *)
SetAsideAlone(s) == {s}
(* A rollback or a re-plan of s sets aside what is downstream of it too.   *)
ToSetAside(s) ==
    {s} \cup DownstreamOf([nodes |-> Stages, deps |-> [t \in Stages |-> Upstream(t)]], s)

(* Between calls of run(): s is to be done again, from a new input.        *)
SetAside(s) ==
    /\ setAside < MaxSetAside
    /\ \A t \in Stages : phase[t] \notin AtWork
    /\ phase' = [t \in Stages |-> IF t \in ToSetAside(s) THEN "waiting" ELSE phase[t]]
    /\ attempts' = [t \in Stages |-> IF t \in ToSetAside(s) THEN 0 ELSE attempts[t]]
    /\ \E new \in Inputs[s] : input' = [input EXCEPT ![s] = new]
    /\ setAside' = setAside + 1
    /\ UNCHANGED <<files, rows, view, todo, refs, unread>>

StageStep(s) ==
    \/ Begin(s) \/ RunAgent(s) \/ Write(s) \/ Record(s)
    \/ Inspect(s) \/ Conclude(s) \/ Recheck(s)

Next == (\E s \in Stages : StageStep(s) \/ SetAside(s)) \/ Crash

Spec == Init /\ [][Next]_vars

-----------------------------------------------------------------------------
(* Properties *)

(* Of each path, what was written there last. *)
Newest(records) ==
    {records[n] : n \in {m \in DOMAIN records :
        \A k \in DOMAIN records : records[k].path = records[m].path => k <= m}}

(* What a stage was handed of its upstream, when it started and for as     *)
(* long as its result stands, is the newest output of every dependency,    *)
(* whatever was rejected, redone, written twice or cut short by a crash in *)
(* between (executor.py:436-440).                                          *)
ViewIsCurrent ==
    \A s \in Stages : phase[s] # "waiting" =>
        \A d \in Upstream(s) : Newest(refs[d]) \subseteq view[s]

(* What a stage waits or has passed with is on disk as it was recorded,    *)
(* and stays so: no crash, retry or other stage comes in between           *)
(* (executor.py:446-465).                                                  *)
FilesAgree ==
    \A s \in Stages : phase[s] \in {"inspect", "blocked", "recheck", "passed"} =>
        \A ref \in Newest(refs[s]) : files[ref.path] = ref.content

(* Nothing that a guardrail forbids is part of the output a stage passed   *)
(* with, whichever attempt and re-check it passed by (guardrails.py:76).   *)
ForbiddenNeverPasses ==
    \A s \in Scanned : phase[s] = "passed" =>
        \A ref \in Newest(refs[s]) : ref.content \notin Forbidden
=============================================================================
