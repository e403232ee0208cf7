# A verification of the agentic URL shortener

The repository holds two programs. The **orchestrator** (`orchestrator/`) walks
a graph of stages, each done by an agent, under retries, policy checks and human
approvals, with rollback and re-planning of a live run. The **service**
(`service/app/`) is the URL shortener that the orchestrator's scenarios build: a
FastAPI application over SQLite with an in-process cache.

This directory models the control of both in TLA+, checks it on small instances
with TLC, and proves the properties that carry the design for every value of the
constants with TLAPS. `PROJECT.json` lists components, runs, mutants, hazards
and findings, and maps every definition to the lines it stands for.

## 1. Inventory

### Orchestrator

| Component | State | Operations | Interacts with |
|---|---|---|---|
| Task graph (`models.py`) | a dictionary of stages with their dependencies | validate (cycle search), `topological_layers`, `downstream_of` | the executor walks its layers; rollback, failure and re-planning ask for what is downstream |
| State store (`state_store.py`) | tables `runs`, `stage_states`, `approvals`, `decisions`, `artifacts`, `audit_events` | load and save, one transaction each, behind one lock | shared by the executor's threads, by operators' processes and by the CLI |
| Executor (`executor.py`) | the store; in memory the graph and a pool of threads | `run`, `request_safe_stop`, `resume_from_safe_stop`, `rollback_stage` | gates, agents, store |
| Gates (`gates.py`) | the approvals in the store | `GateRunner.evaluate`, `ApprovalGateHandler.evaluate` | called by a stage thread before and after its agent |
| Guardrails (`guardrails.py`) | none | `check` | policy gates |
| Re-planning (`replanning.py`) | the store | `invalidate_downstream`, `insert_stage` | changes a run another process executes |
| CLI (`cli.py`) | the store | `approvals decide`; the rest reads | a person's decisions |
| Agents (`agents/`) | none | `run` | output or an error |
| Observability (`observability.py`) | none | durations, rates, recovery times | reads the store |
| Scenarios (`scenarios/`) | a database file per scenario, the files that are edited between the steps | one script per step: create, insert or invalidate, then build an executor and call `run()` | everything above |

What is hard here. A run is a conversation over days between `run()` calls,
people who approve, operators who stop, roll back and re-plan, and processes
that die; everything they agree on is what the store says. Within one call of
`run()`, the threads of a layer read and write the same rows, and operators'
processes write them too. A status, an incarnation or a graph that was read is
acted upon later.

What makes it correct: nothing passes without the approvals of its own
incarnation; a layer is a barrier; a branch below a failure is dead, and comes
back with what killed it; a change upstream reaches everything downstream;
retries are bounded; a pause has a reason and ends; a safe-stop holds; the run
comes to an end; and the trail of decisions that is kept about all this tells
the same story as the rows, even after a crash.

### Service

| Component | State | Operations | Interacts with |
|---|---|---|---|
| Creation (`api/urls.py`, `codegen.py`, `idempotency.py`, `rate_limiter.py`) | remembered keys, token buckets | `POST /api/urls` | database |
| Redirect (`api/redirect.py`, `cache.py`) | an LRU cache | `GET /{code}` | cache, database |
| Reports, deletion, analytics, metadata (`api/`) | none | `POST .../report`, `DELETE`, `GET` | database, cache |
| Database (`db.py`) | `urls`, and `clicks` that refer to it | one connection and one transaction per call | all handlers |
| Health, denylist, configuration, schemas | none | | |

What is hard here: handlers are synchronous functions in a pool of threads, and
each makes several calls of the database, the cache and the key store. Each call
is atomic; a handler is not. What makes it correct: a code leads where its
creator was told; the cache never answers what the database would not; reports
bar a URL exactly at the threshold; counters add up; a retry with a key makes one
URL; every answer is a documented one.

The hazards these lead to are listed at their lines in `PROJECT.json`, with the
properties that watch them. Those that no property watches yet say why.

## 2. Modules

| Module | Models |
|---|---|
| `TaskGraph` | what the graph operations mean: `DownstreamOf` as a least closed set, `NextLayer`, `Valid`, `WithStage` |
| `TaskGraphBuild` | the loops that compute them: the depth-first search for a cycle with its stack of visits, the layers, the fixed point of `downstream_of`, with sets and dictionaries iterated in any order |
| `Executor` | `run()`, its stage threads, the gates, the store, operators, people, crashes |
| `ExecutorInvariants` | the parts of the inductive invariants: `Walk`, `Governance`, `Barrier`, `Frugal`, `Standing` |
| `RunLifecycle` | the abstract specification: what a run promises the people around it |
| `RunRefinement` | the mapping from `Executor` to `RunLifecycle`, and the invariant `Accounted` behind it |
| `Lineage` | the executor and the re-planner again, one transaction of the store at a time: rows, decisions, audit events, and crashes between any two |
| `Observability` | the functions that turn rows and decisions into the report |
| `Scenarios` | the three scenarios: their graphs, their scripts in any order, the people and the files |
| `Artifacts` | what the stages produce: attempts, files, the table of artifacts with its versions, what agents are handed and policy gates read |
| `UrlService` | the handlers of the service as concurrent requests |
| `RateLimiter` | the token buckets, with the arithmetic of their refill |
| `TaskGraphProofs`, `ExecutorProofs`, `RunLifecycleProofs`, `LineageProofs`, `ArtifactsProofs`, `UrlServiceProofs`, `RateLimiterProofs`, `ScenariosProofs` | theorems |
| `MCTaskGraph`, `MCExecutor`, `MCLineage`, `MCArtifacts`, `MCUrlService` | instances for TLC; `Scenarios` and `RateLimiter` need none |

`Executor`, `Lineage`, `Scenarios`, `RunLifecycle` and `TaskGraphBuild` all
extend `TaskGraph`: the first four use the meaning of the graph operations,
`TaskGraphBuild` shows that the loops compute that meaning.

The executor appears at three grains, because what can go wrong in it has three
sizes. `Executor` has threads, gates and approvals, and a handler's save is a
step. `Lineage` splits that save, and every operator's call, into transactions,
and leaves gates and approvals to chance. `Scenarios` has whole stages as steps,
and the scripts and people around them.

Definitions under a comment *Bug:* are not part of any
specification: each is one way a definition could have been got wrong, and
replacing the definition by it makes TLC find the property it is listed with
violated.

### How `Executor` corresponds to the code

The store is `status`, `graph`, `st` (the stage states), `approvals`. `granted`
is a history variable: the approvals a person has ever given. `pc` is where
`run()` stands, and `mem`, `done`, `layer`, `skipping`, `runnable`, `verdict`
are `self.graph` and its locals; `th[s]` is the thread of stage `s`, with a
program counter and the locals of `_execute_stage`.

- `run()`: `CallRun`, `Unpause`, then for each layer `StartLayer`, `PlanLayer`
  (the one load that decides the layer), `SkipBlocked`, `Submit`, `Join`,
  `Pause`, `Reload`, and at the end `Finalize` and `Finish`.
- `_execute_stage`: `StartThread`, `CheckApproval` and `CheckPolicy` for each
  gate in turn, `Block`, `Enter`, `BeginAttempt`, `AgentFails` or
  `AgentSucceeds`, `Accept`, `PassStage`, `RetryStage`, `InvokeFallback`,
  `GiveUp`, `FailStage`, `Propagate` and `SkipDownstream`.
- Operators and people: `RequestSafeStop`, `ResumeFromSafeStop`, `Rollback`,
  `Invalidate`, `InsertStage`, `Resolve`. `Crash` loses `pc`, `mem` and `th` and
  keeps the store; `Restart` is a runner that builds the next `Executor` from the
  graph in its own source.

Between any two calls of the store, everybody else may act. The constant
`Operations` says what operators do in a run, `LiveOperations` what they do
while `run()` is in progress; the rest happens between its calls, which is how
the scenarios and the tests use it.

Abstractions, and what they cost:

- One load-modify-save of a thread (`_update_stage`) is one step, and one call
  of `rollback_stage`, `invalidate_downstream` or `insert_stage` is one step.
  What happens inside them is in `Lineage`.
- Artifacts are one bit per stage, whether it has any: that is all the control
  reads. Decisions, audit events, times and `rollback_count` are written and
  never read by the control; `Lineage` has them. `Artifacts` has the rest of the
  output.
- A policy gate may pass or fail at each evaluation; an agent may succeed, with
  no output if it is in `MayBeEmpty`, or fail.
- `RunStatus.ROLLED_BACK` and `StageStatus.READY` are never written by the code
  and do not occur. One executor works on a run at a time.

### What `RunLifecycle` says, and how `RunRefinement` maps it

`RunLifecycle` has no threads, layers, attempts or loads. A stage is to do, being
worked on, waiting, passed, failed or skipped (`life`); it may have been set
aside and not started again (`redo`), some number of times (`round`); people have
been asked (`asked`) and have granted (`granted`); and the run says something of
itself (`run`). Its actions say when each may happen: a stage begins only on
passed dependencies and granted entry approvals; passes only with all its
approvals of this round, and not if it was set aside meanwhile; waits only for
what a person has been asked; is skipped only below a failure; is set aside only
together with everything downstream that has begun. A run reports completed,
failed or paused only when its stages say so.

The mapping reads the rows: `stale`, `pending` and `rolled_back` are to do,
`running` and `retrying` are work, the flag `stale` is `redo`, the incarnation
is the round, and the rows of the approvals table are what was asked. Every step
of the executor between two of its saves is a stutter. That an entire
`rollback_stage` is one `SetAside`, that a thread's save finds its dependencies
still passed, and that a status is still true when it is written, is what the
refinement says of the concurrent code. It holds while operators act between the
calls of `run()`, a safe-stop apart, and no process dies; the runs that expect a
violation show why.

### How `Lineage` and `Observability` correspond to the code

The handlers of `executor.py` and `replanning.py` are lists of transactions:
`Update` is `_update_stage` (a load, a save of the whole row), `Log` is
`_log_decision` (record the decision, load the row, save it with the decision
linked, append the event), `Note` is `Replanner._log`, `Aside` one turn of the
loop over what is downstream. A worker, a thread of the pool or the thread that
called, works its list off, one transaction a step (`LoadRow`, `SaveRow`,
`RecordDecision`, ...), and only then decides what comes next (`Enter`,
`AgentFails`, `ExitPasses`, `Propagate`, ...). `RaiseKeyError` is the load of a
stage that a cut insertion has left without a row. `Crash` may come between any
two.

What `Executor` has and `Lineage` has not: gates and approvals answer at will,
agents always have output, incarnations are not kept, safe-stop is left out.
The `trail` of a stage is its decisions in order, and their positions stand for
timestamps and ids; `span` says whether a row has a start and an end, and which
is the later. Events other than those of decisions are left out. `cut` and `torn`
are history: stages whose transactions a crash has swallowed, and operators'
calls that were interrupted and not repeated. An interrupted call that sets stages
aside may have reached some of them and not others (`PartlyReset`), and an
insertion changes what is downstream of what (`Rerouted`): of the attempts
of the former `ReportAgreesWithTrail` says nothing until the call is repeated, of those
of the latter nothing; of the rollbacks it says the same for all stages.

`Observability` has the functions of `observability.py` over these rows and
trails, `RunReport` what `generate_run_report` puts together.

### How `Scenarios` corresponds to the code

`CallsOf` lists what each script calls, in order; `Invoke` starts one, whenever
none is in progress, in any order and any number. `CreateRun`, `InsertStage`,
`InvalidateDownstream` and `BuildExecutor` are its calls; `Raise` is the
exception that ends it when there is no such run, stage or dependency.
`PlanLayer`, `Recheck`, `EntryGate`, `AttemptFails`, `AttemptSucceeds`,
`EndLayer` and `Finalize` are `run()`. People `Decide` on requests, at any time
and again; the files under `service/` are `Edit`ed. An output is what it rests on:
the interpretations (`spec`) and the versions of the files (`files`) that went
into it. The release check fails when a stage it needs has made nothing
(`Supplied`). `signed` remembers what people were shown when they approved,
`rested` how the run was left, for a script that is repeated.

`Die(S)` is the death of a script: between two steps, when `S` is empty, or in
the attempts of the stages `S`, which the threads of one layer may be making at
the same time. Their rows have been saved as running and no longer stale, and
will say so for ever; their outputs are the old ones, the new ones or, where an
agent returns several files, some of each. `DieAsking` is a death between the
save of a request and that of the stage it is for. `left` remembers both: the
attempts that were cut short and the requests whose stage was not blocked.
A stage that is not cut short is one step here, a failure and the skips it
entails another part of the same step, and so is one call of the re-planner;
`Lineage` has their interruptions.

### How `Artifacts` corresponds to the code

`files` are the files under `artifact_root`, `rows[s]` the records of stage `s`
in the table `artifacts`, `input` what `scenario_input` holds for each stage.
The rest is a stage at work: its `phase`, the `view` in its `AgentContext`, the
outputs `todo`, the records `refs` of the attempt, and what its gates have still
`unread`. `Begin` collects the upstream (`_collect_upstream_artifacts`),
`RunAgent` is the agent, `Write` and `Record` are the loop of
`_persist_artifacts`, `Inspect` is a rule reading one file, `Conclude` the end of
the exit gates, `Recheck` the re-check of a stage that waits. `Crash` may come
between a file and its record; `SetAside` is a rollback or a re-plan, after which
the runner comes back with a new input.

Agents come in three kinds: those that write down what they are given, those
whose answer is free (the model behind `ClaudeAgent`, the scan of a code base),
and the release check. A content is a member of a small set, some of it
forbidden. Which stages run when is simpler than in `Executor`: a stage may start
once its dependencies have passed, which allows all that the layers allow, and
operators act when nothing is at work. The person's decision is a free choice at
the end of a re-check. What a failure skips is not modelled: it never starts.

### How `UrlService` corresponds to the code

`urls` and `clicks` are the tables, `cache` the LRU order, `idem` the remembered
keys, `tokens` the bucket of the one client, `req[r]` a request: the handler it
is in, where, its arguments, locals and answer. A handler is a chain of steps,
one for each call of the database, the cache, the key store or the limiter.
Owner token and destination are unique to a creation and are represented by the
request that made it. A tick of the clock is a day, an expiry period and a unit
of the TTL alike, and refills any number of tokens. An unhandled exception is
the answer `"error"`. The denylist is a free choice. A click is counted in the
total and, under its day, in the series of `get_analytics`, which reads the two
in two calls. A deleter's token may be one that is not ASCII: `compare_digest`
raises on it. Three fields are history: `after`, the requests that had been
answered when a request came; `barred`, whether the URL of a redirect was flagged
by then, and every report of it answered; and `by`, the redirect that put an
entry into the cache. Health and the order of routes are not modelled.

### How `RateLimiter` corresponds to the code

A call of `allow()` is `Enter`, which takes the lock and reads the clock and the
client's bucket, and `Allow` or `Refuse`, which write it back and release the
lock; the clock may move in between. A token is `Cost` parts and a unit of time
refills `Rate` of them, so that the code's fractions are integers here and
nothing is rounded. `admitted` is a history variable.

## 3. What the runs show

Runs that pass:

| Run | Instance | Properties |
|---|---|---|
| `core` | a diamond of four stages; a policy and an approval on the exit of one branch that also retries, a fallback on the other, an approval on the entry of the last; one rollback, invalidation or safe-stop, the last even within a layer; fair threads | `TypeOK`, `AttemptsBounded`, `CompletedIsDone`, `SkippedForAReason`, `DependenciesFirst`, `PassedRestsOnPassed`, `NoRerunOnResume`, `KeepsThePromises` (the refinement), `RunReturns`, `Settles` |
| `replan` | two stages and one to insert, exit and entry approvals; two of: rollback, invalidate, three insertions (one of them a cycle), a new process, safe-stop at any moment, a crash at any step; decisions may be revised, an agent may succeed with no output | `Governed`, `PausedIsBlocked` |
| `lineage` | two stages side by side and a third that joins them and has a fallback; one to insert, which retries and has entry and exit gates; three calls of `run()`, rollback, invalidation and insertion, with a crash between any two transactions of the second | `DecisionsAreLinked`, `TrailExplainsRows`, `ReportAgreesWithTrail`, `RecoveriesAreRight`, `DurationsRunForward`, `ReplanningSurvivesCrash` |
| `scenarios` | each of the three scenarios, any five scripts, one edit of the files, decisions at any time, and one mishap: an agent that fails, a policy that rejects, a script that dies between two steps, within its attempts or while it asks, a person who changes their mind | `SignedByPeople`, `NothingUnsigned`, `PassesAreCurrent`, `RevisionsAreIn`, `RepeatingIsHarmless` |
| `graph` | every graph over three stage ids, unknown dependencies and self-loops included, and every order of iteration | `AcceptsTheValid`, `LayersAreRight`, `FindsDownstream`, `Ends` |
| `artifacts` | two stages side by side and a release that needs both; one input that is forbidden, mended and moved to other paths; a model that fails, answers, or answers twice with the same file; policies on both, an approval on one, two attempts, a crash at any step, one re-plan | `ViewIsCurrent`, `FilesAgree`, `ForbiddenNeverPasses` |
| `concurrent` | four requests of any kind, two at a time, two codes, a cache of one entry, expiries without a time zone, tokens that are not ASCII | `WellFormed`, `CacheIsFresh`, `ClicksAgree`, `SeriesCoversTotal`, `FlaggedAtThreshold`, `ErrorsHaveCauses` |
| `keys` | three requests of any kind, all creations with the same key, two at a time, one code, a tick of the clock that ages what is remembered, fairness | `OneUrlPerKey`, `Answered` |
| `limiter` | two threads, two clients, two tokens, half a token a unit of time, six readings of the clock | `WindowBounded`, `RefusesOnlyWhenFull` |

Every property of these runs has a mutant of the code that breaks it
(`PROJECT.json`, "mutants").

Runs in which the code does not do what it, or its documentation, says; each
checks the one property and ends in a counterexample:

| Run | What happens |
|---|---|
| `safe_stop` | a safe-stop during a layer is overwritten by the pause for approval, which the next `run()` lifts, or by finalization |
| `crash_order` | a stage interrupted in an attempt stays RUNNING: the next `run()` passes it over and runs its dependents |
| `flag_race` | a slow redirect puts a flagged URL back into the cache, for good |

The passing runs therefore say where the limits are. `core` excludes crashes and
insertion. `scenarios` and the runs of the service exclude nothing of the kind:
their properties name what goes wrong, as an exception, and say that nothing else
does. The exceptions are these:

- A script that dies in an attempt leaves the stage RUNNING, and later scripts
  build on what there is of it (`executor.py:213-225`). In the ambiguous scenario
  `design` then starts on an interpretation that nobody has signed
  (`NothingUnsigned`); elsewhere a stage passes on dependencies that do not count
  (`PassesAreCurrent`).
- A script that dies between the save of a request and that of its stage
  (`executor.py:250-252`) leaves the stage pending. A revision does not set it aside
  then (`replanning.py:71-87`), and the approval of that request serves files that
  were edited after it was given (`SignedByPeople`).
- A delete or a report that overlaps the redirect which fills the cache leaves an
  entry that the database contradicts (`CacheIsFresh`).
- Internal errors, which the service does not document, have four causes
  (`ErrorsHaveCauses`): another request takes the code between the check and the
  insertion; the URL has an expiry without a time zone, and its redirects and
  metadata compare the two kinds of time (`redirect.py:33`, `urls.py:21`); a
  deleter's token is not ASCII, which `compare_digest` refuses to compare
  (`urls.py:114`), where `service/README.md:113` says 403; a report or a click
  finds that an overlapping request has deleted the URL (`db.py:97`, `db.py:125`).
- Overlapping requests with one key make two URLs, since the key is looked up
  (`urls.py:40`) and remembered (`urls.py:71`) in two calls, against
  `service/README.md:59-61`. `OneUrlPerKey` is about requests that come after the
  answer to another: drop its conjunct `q \in req[r].after` to see the two.

The same models show more, by changing the constants of an instance; no run is
kept for these:

- An insertion sets aside direct successors only (`replanning.py:106`): a stage
  further down keeps its pass on old output, although `models.py:186-187` names
  everything downstream as what re-planning has to invalidate:
  `PassedRestsOnPassed` with `"insert"` among the operations and an insertion
  before a stage that others depend on. The scripts of the scenarios insert
  before nothing, so they do not meet it (`PassesAreCurrent`).
- A crash of `insert_stage` between the graph and the row (`replanning.py:100-104`)
  leaves a stage without a row: every later `run()` ends in a KeyError, and
  `step_1_add_core_implementation.py`, which calls itself idempotent, skips the
  insertion when it is repeated. `RaiseKeyError` in `Lineage` is this state.
- Two siblings that fail at the same time both skip what is below them: one of
  the two decisions may stay unlinked from the row, since the later save is of an
  earlier load (`executor.py:404-425`). `DecisionsAreLinked` admits this case and
  no other; drop its exception to see it. A re-plan while `run()` is in progress
  can be undone as a whole by the same load and save; operators of `Lineage` act
  between the calls.
- `Replanner._log` never links its decisions, and `insert_stage` records nothing
  about the stages it sets aside (`replanning.py:106-112`), so that the trail does
  not explain their status: `Respliced` in `TrailExplainsRows`. The answers of
  people and gates that pass are not decisions at all, though `models.py:216-219`
  and `architecture.md:130` speak of each.
- A stage that runs again after it was set aside has the end of its last pass: its
  duration is negative until it is done, not None (`observability.py:32-34`).
  `DurationsRunForward` is about stages that are done.
- A crash in an attempt leaves the run undecided for ever: `_finalize` writes
  RUNNING (`executor.py:484`). Add `"crash"` to the operations of `core` and
  check `Settles`.
- A stage invalidated while its thread runs passes with the approval of the
  incarnation before, which the thread has read at its start
  (`executor.py:232`): `Governed` with `"invalidate"` in `LiveOperations`.
- A resume between the pause and the reload (`executor.py:205-209`) lets the next
  layer start: `DependenciesFirst` with `"safe_stop"` and `"resume"` in
  `LiveOperations`.
- An insertion before a failed stage revives it and leaves the stages it had
  skipped as they are, in a run that completes: `SkippedForAReason` with
  `"insert"`.
- A stale stage that an entry policy refuses, or an entry decision that is
  revised later, becomes FAILED and stays stale, hence actionable
  (`executor.py:213-217`, `executor.py:382-398`): at the next call it may pass
  while the dependents it skipped stay skipped, in a run that completes.
  `SkippedForAReason` with a policy on the entry of the first of two stages and
  `MaxOperations = 2`, or with `"revise"`.
- A stage blocked on its exit gate with no output is executed again on each
  resume, beyond its limit (`executor.py:237`): `AttemptsBounded` with the stage
  in `MayBeEmpty`.
- What a rejected attempt wrote to a path that the accepted attempt no longer
  writes stays the latest of its path. It is handed downstream
  (`executor.py:443`), whatever the gates said of it, and a stage that waits for
  approval is failed by it at the re-check (`executor.py:344`): look for a
  forbidden content in `view` of `Artifacts`.
- `rollback_stage` walks the graph the executor has in memory, and misses stages
  inserted since (`executor.py:165`); `resolve_approval` overwrites a decision
  (`state_store.py:310`). `Rollback` and `Resolve` do the same.

### Bounds, and why they are enough

- `MaxIncarnation = 2` and `MaxOperations` of 1 or 2: two operations may hit the
  same stage, so that an incarnation after a re-plan can itself be re-planned.
  What can go wrong between incarnations is between one and the next.
- Graphs of 2 to 4 stages have every relation the executor distinguishes:
  before, transitively before, beside, joined. `MaxWorkers = 2` of at most two
  stages in a layer. The graph loops are checked for all graphs of three stages:
  a stage may be met again on the path of the search, after it, and by two ways.
- One approval gate and one policy gate on a stage, in sequence, give each
  outcome of a gate after each other; `MaxAttempts` of 1 and 2 and a fallback
  give each way out of the attempt loop.
- In `artifacts` three paths and three contents tell apart what is new, what is old
  and what is forbidden; two attempts and one re-plan give a path up to three
  versions, and one more when it is written twice in an attempt. Paths of
  different stages differ, as in the scenarios: nothing in the code keeps two
  stages from the same path, whose versions are then counted apart.
- The service's races are each between two requests, after one that creates and
  before one that observes: four requests, two at a time. With two codes a cache of
  one entry is full at once and drops one URL for the other, and the code that was
  tried first may be taken. A threshold of two tells the report that flags from
  the one that does not. `concurrent` has neither keys nor a clock that moves, which
  would multiply its states: all expiries lie ahead, but those without a time zone
  fail none the less. `keys` has both, on one code, which makes every two creations
  collide and leaves none free: with `Ttl = 0` and `MaxTime = 1` a retry comes
  within the time for which a key is remembered, or after it, and expiries pass.
  Three requests are two that share a key and one in their way.
- Counters are not otherwise bounded: attempts, clicks and reports end with the
  operations and requests that raise them.
- In `lineage` three calls are one that leaves something behind, one that is cut,
  and one that has to live with it; `CrashCalls` says that the process may die in
  the second of them, so that one call precedes and one follows. Two siblings are what it takes for two
  threads to write one row. They are declared alike (`Alike`), and what is
  inserted comes between them and the third.
- In `scenarios` five scripts are the longest story that is told of a scenario:
  create, grow, ask for a release, revise underneath, release. Two
  interpretations and two versions of the files tell the old from the new. The
  one mishap keeps the size down; two of them meet in `replan` and `lineage`.
- In `limiter` six readings of the clock are three times what half a token takes
  to refill, and enough to fill the bucket and run it dry again.
- Deadlock is not checked in `graph`, `artifacts`, `concurrent`, `keys`,
  `lineage` and `scenarios`: the loops end, the stages are done, the requests,
  calls and scripts run out. `core` and `replan` check it, since `run()` can
  always be called, and so does `limiter`.

### Fairness

`Fairness` says that `run()` and each stage thread get processor time and every
agent returns: they are threads of one process under an ordinary scheduler, an
agent has no other contract than to return or raise, and `ThreadPoolExecutor`
takes up every submitted stage. `Attended` adds that people do their part:
`run()` is called again, and every pending request is decided one day. Nothing
is assumed of operators: they may act or not. `core` is checked under
`FairSpec`, which only adds `Fairness` and so weakens no safety property.
`RunReturns` needs `Fairness` alone, since a call of `run()` must return whoever decides or not;
`Settles` has `Attended` as its hypothesis, since a run that nobody attends to
waits, as designed. `Serve` of a request is weakly fair for the same reason as
threads.

## 4. What is proved

| Theorem | Statement | Assumes |
|---|---|---|
| `ExecutorProofs!TypeCorrect` | `Spec => []TypeOK` | the module's assumptions on its constants |
| `ExecutorProofs!WalkCorrect` | `Spec => [](TypeOK /\ Walk)` | the same |
| `ExecutorProofs!DependenciesAlways` | `Spec => []DependenciesFirst` | `Undisturbed` |
| `ExecutorProofs!GovernedAlways` | `Spec => []Governed` | `HandsOff` |
| `ExecutorProofs!NoRerunAlways` | `Spec => NoRerunOnResume` | `HandsOff` |
| `ExecutorProofs!AttemptsAlwaysBounded` | `Spec => []AttemptsBounded` | `HandsOff`, `EmptyNeverWaits` |
| `ExecutorProofs!Implements` | `Spec => KeepsThePromises`, the abstract specification | `Contained` |
| `ExecutorProofs!PassesRestAlways` | `Spec => []PassedRestsOnPassed`, through the refinement | `Contained` |
| `ExecutorProofs!BlockedAlwaysAsked` | `Spec => []BlockedIsAsked`; no run checks it by itself, since `KeepsThePromises` implies it | `Contained` |
| `ExecutorProofs!PausedAlwaysBlocked` | `Spec => []PausedIsBlocked` | `Contained` |
| `ExecutorProofs!CompletedIsDoneAlways` | `Spec => []CompletedIsDone` | `Contained`, `EntryIsFinal` |
| `ExecutorProofs!SkippedForAReasonAlways` | `Spec => []SkippedForAReason` | `Contained`, `EntryIsFinal` |
| `RunLifecycleProofs!PassedRestsAlways` | `RunLifecycle!Spec => []PassedRestsOnPassed` | any set of stages and any dependencies among them (`Graphs`) |
| `TaskGraphProofs!AcceptsTheValidAlways` | `Spec => []AcceptsTheValid` | a finite set of stages |
| `TaskGraphProofs!LayersAreRightAlways` | `Spec => []LayersAreRight` | the same |
| `TaskGraphProofs!DownstreamFound` | `Spec => []FindsDownstream` | the same |
| `ArtifactsProofs!ViewIsCurrentAlways` | `Spec => []ViewIsCurrent` | `OwnPaths` |
| `ArtifactsProofs!FilesAgreeAlways` | `Spec => []FilesAgree` | `OwnPaths` |
| `ArtifactsProofs!ForbiddenNeverPassesAlways` | `Spec => []ForbiddenNeverPasses` | `OwnPaths` |
| `UrlServiceProofs!TypesAlways` | `Spec => []WellFormed` | the module's assumptions |
| `UrlServiceProofs!ClicksAgreeAlways` | `Spec => []ClicksAgree` | the same |
| `UrlServiceProofs!FlaggedAtThresholdAlways` | `Spec => []FlaggedAtThreshold` | the same |
| `UrlServiceProofs!SeriesCoversTotalAlways` | `Spec => []SeriesCoversTotal` | the same |
| `UrlServiceProofs!CacheIsFreshAlways` | `Spec => []CacheIsFresh` | the same |
| `UrlServiceProofs!ErrorsHaveCausesAlways` | `Spec => ErrorsHaveCauses` | the same |
| `UrlServiceProofs!OneUrlPerKeyAlways` | `Spec => []OneUrlPerKey` | the same |
| `UrlServiceProofs!BarredUnlessOverlappedAlways` | `Spec => BarredUnlessOverlapped`: the race of `flag_race`, and a deletion, are the only ways to a flagged URL; checked by no run | the same |
| `RateLimiterProofs!WindowBoundedAlways` | `Spec => []WindowBounded` | the module's assumptions |
| `RateLimiterProofs!RefusesOnlyWhenFullAlways` | `Spec => RefusesOnlyWhenFull` | the same |
| `LineageProofs!InductiveAlways` | `Spec => []Inductive`, the invariant behind the next four | the module's assumptions |
| `LineageProofs!DecisionsAreLinkedAlways` | `Spec => []DecisionsAreLinked` | the same |
| `LineageProofs!TrailExplainsRowsAlways` | `Spec => []TrailExplainsRows` | the same |
| `LineageProofs!DurationsRunForwardAlways` | `Spec => []DurationsRunForward` | the same |
| `LineageProofs!ReportAgreesWithTrailAlways` | `Spec => []ReportAgreesWithTrail` | the same |
| `LineageProofs!RecoveriesAreRightAlways` | `Spec => []RecoveriesAreRight` | the same |
| `ScenariosProofs!PassesAreCurrentAlways` | `Spec => []PassesAreCurrent` | the names of the scenarios and scripts (`ScenariosAssumption`) |
| `ScenariosProofs!SignedByPeopleAlways` | `Spec => []SignedByPeople` | the same |
| `ScenariosProofs!NothingUnsignedAlways` | `Spec => []NothingUnsigned` | the same |
| `ScenariosProofs!RevisionsAreInAlways` | `Spec => []RevisionsAreIn` | the same |
| `ScenariosProofs!RepeatingIsHarmlessAlways` | `Spec => []RepeatingIsHarmless` | the same |

They hold for every graph, gate configuration, retry policy, number of workers
and bound; for every set of agents, paths and contents; for any number of
requests, codes, keys and days, and any number of requests at a time; those of the lineage for every number of calls
and insertions, and a process that may die at any step of any call; those of the limiter for every capacity, cost and
rate; and those of the scenarios, whose graphs and scripts are the shipped ones,
for any number of scripts, mishaps and edits.

### The hypotheses

They are hypotheses of the theorems and not assumptions of the modules, and each
is needed: section 3 tells what happens without it.

| Hypothesis | Says | Without it |
|---|---|---|
| `HandsOff` | no rollback, invalidation or insertion while `run()` is in progress | a thread passes with an approval of the incarnation before |
| `Undisturbed` | while `run()` is in progress operators at most request a safe-stop; no crashes | the run `crash_order`; a resume lets the next layer start |
| `Contained` | `Undisturbed`, and no insertion | an insertion leaves passes on old output |
| `EmptyNeverWaits` | a stage that may have no output has no approval among its exit gates | such a stage is executed again on each resume |
| `EntryIsFinal` | the entry gates are approvals, and no decision is revised | a failed stage that is stale passes later, and leaves what it skipped |
| `OwnPaths` | no two stages' agents may return the same path | stages overwrite each other's files, and versions of a path are counted apart |

The scripts of the scenarios act between the calls of `run()`, all their entry
gates are approvals, and their stages write paths of their own, which is `HandsOff`
and `OwnPaths`, and the first half of `EntryIsFinal`. The brownfield and ambiguous
scenarios insert nothing; the greenfield one does, and `PassesAreCurrentAlways` of
`ScenariosProofs` takes the place of `Contained`. The theorems about the service
and the scenarios have no hypotheses: what goes wrong with overlapping requests
and dying scripts is in the statements, as the exceptions of section 3.

### The executor

None of the properties is inductive. `Walk` says what the loop over the layers
maintains: threads exist only for the layer in progress, the finished layers and
the current one are closed under dependencies, and what a failing thread is
about to skip is strictly downstream of it, so that no thread writes the row of
another thread. The last point rests on a lemma about graphs: a layer has no
member downstream of another.

`Governance` adds how far each thread has come with the approvals of *its*
incarnation and that the incarnation is still the stage's; that a waiting stage
with output has had its entry granted; and that a request counts as approved only
if a person granted it, for which `granted` remembers decisions that were revised
later. The delicate part is the shortcut of a blocked stage to its exit gates,
which skips the entry gates: it is sound because output of an earlier
incarnation always comes with `stale`, which excludes the shortcut.
`NoRerunAlways` follows from the same invariant, step by step.

`Frugal` counts the attempts. The row's counter is bounded only together with
where the thread is: a stage is taken up from its entry with no attempt made, or
stale, in which case the base count is reset; one that waits with output does not
get to the attempt loop. No bound on the number of calls of `run()` is involved.

`Barrier` says when a stage may be running (only with a thread), that everything
in `done` has passed, failed or been skipped, and that every thread's
dependencies have passed. It is what `PlanLayer` establishes by one load, and
what `Join` hands on to the next layer.

`Accounted`, in `RunRefinement`, is what the refinement needs beyond these: what
the place of each thread says of the row it is about to save, what the place of
`run()` says of the status it is about to write, and that a paused run has a
stage that waits. With all four, `Implements` goes through the steps of
`Executor` one by one: a save is a step of `RunLifecycle` whose guard the
invariants supply, everything else a stutter. `PassesRestAlways` is then not
proved again of the threads: it is the theorem of `RunLifecycleProofs`, carried
over by the mapping.

`Standing` is about what failures leave behind, on top of `Accounted`: a skipped
stage has a failed one upstream of it, and a failure stands until its stage is
set aside together with what is below. A stage that failed may be stale, and
then `_is_actionable` takes it up again: `FailureStands` says that its entry
approval has been rejected for good (`Barred`, `GrantsStand`), so that all it can
do is fail once more. From there, a skipped stage has a dependency that did not pass
by `PassedRestsOnPassed` along the way up to its failure, and in a completed run
nothing has failed, so that nothing is skipped and everything has passed.

### The graph loops

`Progress` says that what has been found is downstream of the target, and that a
pass that has not noticed anything has seen every stage it has left to be
unreached: when such a pass is complete, the result is closed, hence contains the
least closed set.

`Search` relates the colours of the depth-first search to the calls of `visit()`
under way: the gray stages are exactly those being visited, each depends on all
that are visited inside it, and a black stage has only black dependencies and is
not downstream of itself. So a gray dependency is a cycle, and a search that has
visited everything has seen none. `Peeled` says that what remains is what no
layer has yet.

### The lineage

Each worker of `Lineage` works off a list of transactions, and the proof follows
these lists: what a handler puts on a list is examined once, when it is put
there, and what is left of it says what has been done. `Paired` says of a list
that every save follows its load, and that a decision is loaded for, linked and
audited in that order (`Preceded`, `Followed`, `Opens`); `Spoken` that every save
that changes a status is followed by a decision that accounts for it; `Grounded`
that the decision to come agrees with the row as it is. These hold of a tail of a
list if they hold of the list, and of two lists one after the other, which is
how `Skip`, `Fail` and the loops over what is downstream are put together
(`JoinWhole`, `AllWhole`).

`Phase` and `Walk` say who writes the row of a stage: its own thread, or the
calling thread while there are no others, or a *guest*: a sibling whose failure
skips it. Two stages of a layer are never downstream of each other
(`LayerApart`), so that a guest's stage has no thread of its own; two guests may
meet, and then both write a skip, from the same row. So what a worker holds of a row
is the row as it is (`HoldsRow`), except for the link of a skip, which is the
exception that `DecisionsAreLinked` makes.

`Linked` and `Told` say of the store what the two properties say, with the
transactions that are still on somebody's list in place of *settled*; a crash
turns those into `cut`. `Inserting` and `Grown` follow an insertion from the graph to the
row, and give a stage without a row to the case in which the process died
in between. `Rowed` and `AllForward` add that a thread works on a stage that has
a row, and that a row that is held, too, ends no earlier than it starts.

`ReportAgreesWithTrail` compares two counts that different transactions change:
the counter of a row goes up with the save that begins an attempt, and the trail with
the record that comes after it. `Tally`, which is inductive together with all of the
above, says for every row that the attempts recorded since the stage was last set
aside (`Since`), and one more while a record is `Owed`, are the row's count. For that it
needs of a thread that a list begins at most one attempt and records it afterwards
(`BeginsOnce`), that the number the thread goes by is the row's (`Attempt`,
`Numbers`), and that a guest leaves the counts of the row alone (`HoldsCounts`); of
the caller, that each save which sets a stage aside is at once followed by the record
of it (`Following`, `Said`), and which stages it still has to set aside (`Coming`).
A row is stale from the save to the next attempt, and a pending one has no attempt in its
trail at all (`Fresh`). Three things excuse a row that does not agree: the call under
way will set it aside (`Coming`); a call that would have done so was interrupted and
not repeated (`Unclosed`); or an insertion has put it below something new (`Rerouted`),
where `Known` says that graphs only grow, so that what is newly downstream of a stage
is downstream of what was inserted. A crash of `run()` can swallow a record whose save
is done, never the other way round, and leaves the trail short.

`RecoveriesAreRight` is about the fold in `Recoveries` and not about the steps:
`Scanned` gives what the scan has found of each prefix of a trail, in closed form.

### The artifacts

`Numbered` says that the records of a stage's current attempt are the last of its
rows, and that the version of a path never exceeds the number of its records and
rises from record to record; so `_latest_by_path`, which takes the highest
version, finds the newest record. `Handed` says that what a stage works from has
passed, and is in its view: nothing sets an upstream aside without it. `OnDisk`
follows the disk through the loop of `_persist_artifacts`: between a file and its
record, exactly that file is ahead. `Screened` says that what the gates have read
of an attempt is clean and that what they have not is still listed. The last two
need `OwnPaths`, since other stages write meanwhile.

### The service

`Counted` is inductive as the properties stand, with the types of the locals of a
request at each place: what a click, a report and an insert each write in their
one transaction keeps total and series, reports and flag together. `SeriesCoversTotal`
needs `Owned` besides: a row's owner has inserted it and does so once, so that a
row with the owner that was read is the row that was read, and its counter has
only grown.

The other four are about requests that overlap. `Past` says that what a request
came after is answered, so that two that are served at the same time overlap
(`ActiveOverlap`), and always will have (`OverlapStays`). `EntriesCurrent` and
`LinksCurrent` say of every entry of the cache, and of what every redirect or
report has read, that it is what the row says, or that a delete or a report of the
code has not evicted yet or overlapped whoever read it (`Excused`): somebody who
changes a row while it is being read overlaps the reader, and who evicts it takes
away the excuse together with the entry. `Current` is their conjunction with
`Owned`, and `CacheIsFresh` a part of it. For `ErrorsHaveCauses`, `TakenMeanwhile`
adds that a code which was free when it was chosen is taken by one that overlaps.
`KeysKept` says of a key under which a URL was made that it is remembered, or
older than `Ttl`, and of one who came after the answer and makes a URL all the
same that it is late. `BarringKept` follows a redirect that came to a flagged URL:
as long as nobody who overlapped it has deleted the row, the row stays flagged,
and whatever is in the cache for it, or was taken from there, was put in by a redirect that
overlapped a delete or a report.

`Exact` in `RateLimiterProofs` relates a bucket to its client's history: what is
in it is never more than what any window up to now has left, and there is one
window for which it is exactly that. The first half gives `WindowBounded`, the
second `RefusesOnlyWhenFull`; neither is inductive without the other, because the
refill is cut off at the brim.

### The scenarios

`IInv` of `ScenariosProofs` is the conjunction of what follows; TLC has checked it
on the instance of the run `scenarios` before it was proved.

`Walk` says which stages `run()` is through with, and that those to be executed
are actionable and rest on stages that are built on: that count, or were cut
short (`BuiltOn`, `Ready`). `Told` says what the status of a
stage tells of the rest of its row: that one that waits for its exit gate has
output and is not stale, that a skipped one has something failed or skipped below
it, and that a failed one is stale only if its approval has been rejected. With
`PassesAreCurrent` itself these are what keeps a pass current: an invalidation
reaches everything that rests on the stage, because what it does not reach is
pending, and an insertion comes below no other stage. A stage that was cut short
is built on like one that counts, and like it keeps what it has: nothing but an
invalidation touches it again, and that reaches what was built on it, too.
`Remembered` says that what there is of it is in `left`.

`Asked` is behind the signatures. A request is for the present incarnation of its
stage or is over (`Current`); as long as it is not, what it shows is what is there
(`Stands`): for an entry gate what the stage rests on, which cannot change since
all of it counts and nothing sets it aside without setting the stage aside too;
for an exit gate the output of the stage, which keeps waiting with it. So a
verdict is about what it lets pass. A request whose script died before its stage
was blocked is `Unblocked`: it shows what was there once. What a death leaves is
`DyingLeaves`, what it leaves alone, the stages that wait and all that requests
and passes rest on, `DyingSpares`. That only the execution of a stage makes one
count, and that nothing else touches what one that is built on rests on, is
`OnlyStepsPass`; the proofs about signatures, interpretations and revisions all
start from it.

`Revisions` follows a revising script from its invalidation to its end: in
between, the stage has taken in the files as they are, or does not count.
`Insertions` says that what a script that has been applied inserts is there, so
that a repetition finds nothing to insert. `Rest` says of a run at rest that no
decision has come, that its status is that of its rows, and that whatever is
actionable is skipped or waits - or that everything is behind the requirements,
which wait. Then planning a layer changes nothing, a stage that waits asks at
most for what it has asked already, and `run()` ends as it did.

### Recursive definitions

Three proofs rest on what a recursive definition of the community modules computes:
the sum of the clicks by day (`FoldFunction`), the concatenation of the outputs of
several dependencies or of the transactions about several stages (`FlattenSeq`), and
the scan of a trail for recoveries (`FoldLeft`). The induction theorems of the
library cannot be used, since their parameter is an operator. The recursions are
shown to be well defined, and the facts needed to hold of every number of days,
dependencies or decisions, by a least counterexample in a *set* of numbers (`EveryNumber`),
which the well-foundedness of the natural numbers supplies.

## 5. What is model-checked only, and what is not modelled

Model-checked only: the liveness properties (`RunReturns`, `Settles`, `Ends`,
`Answered`), which are out of the proof system's reach; `ReplanningSurvivesCrash` of
`Lineage`, whose proof would need, at the grain of transactions, what `Barrier` and
`Governance` say of `Executor`: which layers are through, and what a thread has
read of its dependencies.

Not modelled: the text the agents write and the model provider behind one of
them, the patterns of the guardrails, the wording of decisions and reports, the
commands that print, the text of the scenarios' inputs and the copies of the
service they produced, the service's health check and configuration, the
rounding of floating-point numbers, exceptions of the database other than
violated keys (one that is locked for longer than SQLite waits, say), tests and
documents. Operators that re-plan a run in progress are
in `Executor` (`LiveOperations`), where a save is one step, and not in `Lineage`.

## 6. Plan

In this order, most important first:

1. `TaskGraph`, `TaskGraphBuild`, `Executor` with gates, store, re-planning and
   crashes. *Done.*
2. `UrlService`; `Artifacts`. *Done.*
3. `RunLifecycle` and the refinement, with its proof. *Done.*
4. `Lineage` and `Observability`: the transactions, the trail, the report.
   *Done.*
5. `RateLimiter`, with its proof; `Scenarios`. *Done.*
6. Proofs of every safety property of `TaskGraphBuild`, `Executor`, `Artifacts`,
   `UrlService`, `RateLimiter` and `Scenarios`, and of `Lineage` but for the one that section 5
   names. *Done.*
7. Operators of `Lineage` during `run()`, with the lost update of
   `_log_decision` as a run; a property of deletion on the deleter's token, with
   a code that is reused within one request.
