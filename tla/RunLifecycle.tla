---------------------------- MODULE RunLifecycle ----------------------------
(***************************************************************************)
(* What a run promises the people around it, whoever executes it and       *)
(* however: the life of its stages, the approvals it asks for and the      *)
(* status it reports.  There are no threads, layers, attempts, loads or    *)
(* saves here; RunRefinement shows that the executor implements it as long *)
(* as its process does not die and operators act between the calls of      *)
(* run(), a safe-stop apart.                                               *)
(***************************************************************************)
EXTENDS TaskGraph

CONSTANTS
    Stages,   \* the stages of the run
    Graph,    \* its task graph
    Gates,    \* the gates a person decides on
    Before,   \* those of each stage that must be granted before it starts
    After,    \* those that must be granted before it counts as passed
    Rounds    \* the numbers of times a stage can have been set aside

VARIABLES
    run,      \* what the run reports
    life,     \* what has become of each stage
    redo,     \* the stages set aside that have not been started again
    round,    \* how often each stage has been set aside
    asked,    \* the approvals asked of people, by stage, gate and round
    granted   \* the approvals people have given

lifeVars == <<run, life, redo, round, asked, granted>>

Init ==
    /\ run = "running"
    /\ life = [s \in Stages |-> "todo"]
    /\ redo = {}
    /\ round = [s \in Stages |-> 0]
    /\ asked = {}
    /\ granted = {}

(* The stage may be taken up. *)
Open(s) == life[s] \in {"todo", "waiting"} \/ s \in redo
Untouched(s) == life[s] = "todo" /\ s \notin redo
DependenciesPassed(s) == \A d \in Graph.deps[s] : life[d] = "passed"
Approved(s, gates) == \A g \in gates[s] : <<s, g, round[s]>> \in granted

Become(s, what) == life' = [life EXCEPT ![s] = what]

Begin(s) ==
    /\ Open(s)
    /\ DependenciesPassed(s)
    /\ Approved(s, Before)
    /\ Become(s, "working")
    /\ redo' = redo \ {s}
    /\ UNCHANGED <<run, round, asked, granted>>

(* A stage waits only for what a person has been asked. *)
Wait(s) ==
    /\ life[s] = "working" \/ Open(s)
    /\ DependenciesPassed(s)
    /\ \E g \in Gates : <<s, g, round[s]>> \in asked
    /\ Become(s, "waiting")
    /\ UNCHANGED <<run, redo, round, asked, granted>>

Pass(s) ==
    /\ life[s] \in {"working", "waiting"}
    /\ s \notin redo
    /\ DependenciesPassed(s)
    /\ Approved(s, Before) /\ Approved(s, After)
    /\ Become(s, "passed")
    /\ UNCHANGED <<run, redo, round, asked, granted>>

Fail(s) ==
    /\ life[s] = "working" \/ Open(s)
    /\ DependenciesPassed(s)
    /\ Become(s, "failed")
    /\ UNCHANGED <<run, redo, round, asked, granted>>

(* A branch dies below a failure only. *)
Skip(s) ==
    /\ Open(s)
    /\ \E u \in Stages : s \in DownstreamOf(Graph, u) /\ life[u] \in {"failed", "skipped"}
    /\ Become(s, "skipped")
    /\ UNCHANGED <<run, redo, round, asked, granted>>

(* A change to s: with it goes everything downstream that has begun. *)
SetAside(s) ==
    LET hit == {s} \cup {d \in DownstreamOf(Graph, s) : ~Untouched(d)} IN
    /\ life' = [d \in Stages |-> IF d \in hit THEN "todo" ELSE life[d]]
    /\ redo' = redo \cup hit
    /\ round' = [d \in Stages |-> IF d \in hit THEN round[d] + 1 ELSE round[d]]
    /\ run' = "running"
    /\ UNCHANGED <<asked, granted>>

Ask(s, g) ==
    /\ Open(s) \/ life[s] = "working"
    /\ DependenciesPassed(s)
    /\ asked' = asked \cup {<<s, g, round[s]>>}
    /\ UNCHANGED <<run, life, redo, round, granted>>

Grant(s, g, i) ==
    /\ <<s, g, i>> \in asked
    /\ granted' = granted \cup {<<s, g, i>>}
    /\ UNCHANGED <<run, life, redo, round, asked>>

(* What the run may say of itself. *)
Report(what) ==
    /\ CASE what = "paused_approval" -> \E s \in Stages : life[s] = "waiting"
         [] what = "completed" -> \A s \in Graph.nodes : life[s] \in {"passed", "skipped"}
         [] what = "failed" -> \E s \in Graph.nodes : life[s] = "failed"
         [] OTHER -> what \in {"running", "paused_safe_stop"}
    /\ run' = what
    /\ UNCHANGED <<life, redo, round, asked, granted>>

Reports == {"running", "paused_approval", "paused_safe_stop", "completed", "failed"}

StageMoves(s) == Begin(s) \/ Wait(s) \/ Pass(s) \/ Fail(s) \/ Skip(s) \/ SetAside(s)

Next ==
    \/ \E s \in Stages : StageMoves(s)
    \/ \E s \in Stages, g \in Gates : Ask(s, g)
    \/ \E s \in Stages, g \in Gates, i \in Rounds : Grant(s, g, i)
    \/ \E what \in Reports : Report(what)

Spec == Init /\ [][Next]_lifeVars

(* What has passed rests on what has passed: no stage keeps its pass when  *)
(* a stage it depends on is set aside, fails or is started again           *)
(* (architecture.md:88, executor.py:11-14).                                *)
PassedRestsOnPassed ==
    \A s \in Graph.nodes : life[s] = "passed" => DependenciesPassed(s)
=============================================================================
