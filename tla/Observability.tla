---------------------------- MODULE Observability ----------------------------
(***************************************************************************)
(* What orchestrator/observability.py computes from the rows of the stages *)
(* and from the trail of decisions.  A time is told by what it is compared *)
(* with: a row holds whether its stage has started and ended and in which  *)
(* order, and the times of a trail are its positions.                      *)
(***************************************************************************)
EXTENDS Naturals, Sequences, FiniteSets, FiniteSetsExt, SequencesExt

FailureActions == {"attempt_failed", "exit_gate_failed", "entry_gate_rejected",
                   "stage_failed", "rolled_back"}

(* stage_durations: whether a stage has a duration, and its sign.  The span *)
(* of a row says which of its times are set, and "backwards" that it ended  *)
(* before it started.                                                       *)
StageDuration(row) == IF row.span \in {"forward", "backwards"} THEN row.span ELSE "none"

(* success_rate: the stages that passed, among those with an outcome. *)
SuccessRate(rows, stages) ==
    LET ended == {s \in stages : rows[s].status \in {"passed", "failed", "skipped"}}
    IN  [passed |-> Cardinality({s \in ended : rows[s].status = "passed"}),
         of |-> Cardinality(ended)]

(* retry_stats *)
Retries(row) == IF row.attempts > 1 THEN row.attempts - 1 ELSE 0
RetryStats(rows, stages) ==
    [stages |-> Cardinality({s \in stages : rows[s].attempts > 1}),
     total |-> MapThenSumSet(LAMBDA s : Retries(rows[s]), stages)]

(* rollback_stats *)
RollbackStats(rows, stages) ==
    [stages |-> Cardinality({s \in stages : rows[s].rollbacks > 0}),
     total |-> MapThenSumSet(LAMBDA s : rows[s].rollbacks, stages)]

(* Bug: a failure is recovered from by every pass that follows. *)
RecoveriesAgain(decisions) ==
    LET Next(scan, i) ==
          CASE decisions[i].action \in FailureActions -> [scan EXCEPT !.last = i]
            [] decisions[i].action = "stage_passed" /\ scan.last # 0 ->
                 [scan EXCEPT !.found = @ \cup {<<scan.last, i>>}]
            [] OTHER -> scan
    IN  FoldLeft(Next, [last |-> 0, found |-> {}],
                 [i \in 1 .. Len(decisions) |-> i]).found

(* mean_time_to_recovery, for one stage: each pass after a failure, with   *)
(* the last failure before it.  A failure is recovered from once.          *)
Recoveries(decisions) ==
    LET Next(scan, i) ==
          CASE decisions[i].action \in FailureActions -> [scan EXCEPT !.last = i]
            [] decisions[i].action = "stage_passed" /\ scan.last # 0 ->
                 [last |-> 0, found |-> scan.found \cup {<<scan.last, i>>}]
            [] OTHER -> scan
    IN  FoldLeft(Next, [last |-> 0, found |-> {}],
                 [i \in 1 .. Len(decisions) |-> i]).found

(* generate_run_report: the counts and the stages of a run's report. *)
RunReport(runStatus, rows, trail, audited) ==
    LET stages == {s \in DOMAIN rows : rows[s].status # "none"} IN
    [status |-> runStatus,
     success_rate |-> SuccessRate(rows, stages),
     retry |-> RetryStats(rows, stages),
     rollback |-> RollbackStats(rows, stages),
     recoveries |-> [s \in DOMAIN trail |-> Recoveries(trail[s])],
     stages |-> [s \in stages |-> [status |-> rows[s].status, attempts |-> rows[s].attempts,
                                  rollback_count |-> rows[s].rollbacks,
                                  duration |-> StageDuration(rows[s])]],
     decision_count |-> MapThenSumSet(LAMBDA s : Len(trail[s]), DOMAIN trail),
     audit_event_count |-> MapThenSumSet(LAMBDA s : Cardinality(audited[s]), DOMAIN audited)]
=============================================================================
