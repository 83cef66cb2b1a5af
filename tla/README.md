# MESFlow QA Center: models, checks and proofs

This directory holds TLA+ models of the QA Center (`src/current`), TLC
configurations that check them on small instances, and proofs, for every
instance, of the safety properties of all components but the kiosk client and
the suites. The code is the reference: each
definition is translated from the lines `PROJECT.json` (`map`) gives for it.

The QA Center is a Flask application (`agent.py`, version 1.32.1) that tests
another system, MESFlow. It starts test runs, keeps a Bug Center and a feature
registry in SQLite (`engine/qa_store.py`), creates throwaway environments in
Docker (the UI Preview Lab and the Sandbox Manager), runs qualification
commands as subprocesses (`qualification/cli.py`), and resets a QA and a demo
database in PostgreSQL. Requests are served by threads (`threaded=True`), most
long operations go on in daemon threads after the request was answered, and
qualification commands are processes of their own over the same files and
tables. Almost nothing is locked between two statements, and most of what can
go wrong is there.

## 1. Inventory

| Component | Code | State | Operations | Correct when |
|---|---|---|---|---|
| Bug Center | `engine/bug_store.py`, `fingerprint.py` | `bugs` rows | `record_bug`, `mark_fixing`, `mark_ready_for_verify`, `verify`, `ignore` | a bug is RESOLVED only by a PASS on READY_FOR_VERIFY, reports are deduplicated and counted, ids are free |
| Feature registry | `engine/feature_registry.py`, `agent.py` 2425-2470 | `features` rows | `declare_behavior`, `attach_test_case`, `record_pass`, `record_fail`, `evaluate_stability`, `mark_changed`, `clear_needs_regression`, bootstrap | STABLE is earned, and taken away by a failure, a change or a bug |
| UI Preview Lab | `engine/preview_manager.py`, `preview_guard.py` | `preview_environments` rows; two containers, a network, a volume and the QA Center's place in it, per environment | create, start, stop, reset, delete | ports are distinct, READY means running and seeded, DELETED means that docker was asked to remove all there was, no environment stays in transition |
| UI coverage runner | `engine/coverage_runner.py` | `coverage_runs` rows, bugs | one run over an environment | it blames the product only for what the product does |
| Sandbox Manager | `qualification/deployment.py` | `qa_deployments` rows; containers and network of a namespace | deploy, destroy, retain, stop, start, reset, `reap_orphans` | a row is right about its containers; nothing is left hidden behind DESTROYED but what docker refused to remove |
| Job launcher | `qualification/api.py` | a JSON file per job, `_jobs_processes`, threads, subprocesses | start, cancel | the final status is what happened; every job gets one |
| Qualification runs | `qualification/service.py`, `cli.py`, `runner.py`, `store.py` | `qa_qualification_runs`, `qa_suite_runs` | `start_run`, suites, `finish_run`, cleanup | PASSED is earned, results stay, cancelled runs are closed, sandboxes go |
| Agent run lifecycle | `agent.py` | `_runs`, threads, subprocesses, `active_run.json` | start, `/api/stop`, resume of a soak after a restart | a verdict is what happened, a stop takes effect and lasts |
| Database reset, demo database | `agent.py` 500-720 | QA and demo databases, their templates | QA reset, demo prepare, demo reset | fail closed, no run meets a DROP, no production rows in the demo database |
| Certification policy | `qualification/policy.py` | `qa_certifications` rows | `evaluate`, `evaluate_tier` over the stored suites of finished and unfinished runs | no certificate without every required suite passed |
| Regression policy | `engine/regression_policy.py` | none | selection of scenarios | every affected feature is selected |
| Release build job | `agent.py` 845-930 | a lock, `release_build.json` | one background build | one build at a time, its state ends |
| Demo runner | `demo_runner.py`, `agent.py` | progress file, tickets in the product | demo, cleanup | what a demo created can be removed |
| Factory simulation | `engine/simulation/`, `qualification/long_simulation.py`, `load_soak.py` | `sim_runs`, a loop thread, actors with sessions of the product, metrics | start, stop, batches of actors, checkpoints; the verdict of a suite on it | one simulation acts, its status says how it ended, metrics agree with the product, no session stays open |
| Kiosk client | `qualification/kiosk_emulator.py`, `kiosk_registry.py` | sequence number, offline queue, replies | scan, go offline, reconnect and replay; certification of an axis | no event is lost or applied twice unnoticed |
| Qualification suites | `qualification/live.py`, `browser.py`, `recovery.py`, `upgrade.py`, `backup_restore.py`, `offline_burst.py`, `test_deployment.py`, ... | `qa_suite_runs`, `qa_scenario_runs`; what they do to the product, its database and containers | one scenario after the other, each a sequence of calls with assertions | a scenario fails only for a reason, what PASSED is so, nothing remains |
| Helpers, scenarios, reports, pages, installers | `qa.py`, `scenarios/`, `static/`, ... | none | | not state-changing logic of the QA Center |

How they interact:

- A verify in the Bug Center (`POST /api/bugs/<id>/verify`) calls the feature
  registry three times, each call with commits of its own; the registry reads
  the Bug Center before it grants STABLE.
- A coverage run reads an environment of the Preview Lab and records bugs.
- A job is a qualification command: the launcher's cancel sends it SIGTERM, and
  it turns that into `SystemExit` wherever it is. The command starts a
  qualification run, deploys a sandbox, and destroys it in `finally`, while HTTP
  requests and `reap_orphans` may touch the same sandbox.
- `certify` reads the suite rows of runs that may still be going on.
- The suites of `run-artifact` share one deployed product: what a scenario leaves
  open there meets the later ones. A suite raising an exception outside a
  scenario ends in a FAILED row that `cli.py` adds.
- `/api/simulation` and the two simulation suites drive the same `RunManager`
  class; its loop thread writes the status that `stop` writes too.
- Database operations are refused while a run of the agent is active; a restart
  of the QA Center resumes the soak `active_run.json` names.

The hard behaviours are read-then-write in separate statements, checks that are
old when they are acted upon, series of docker commands that fail, hang or
are cut off half way, cancels that race the end of what they cancel, calls whose answer
is lost after they had their effect, failures that reach a later scenario, and
restarts that leave persisted state without an owner. `PROJECT.json` (`hazards`) lists each of
them at its line with the properties that speak about it.

## 2. Modules

```
BugLifecycle  <-refines-  BugStore  <- MCBugStore, BugStoreProofs
FeatureLifecycle  <-refines-  FeatureRegistry  <- MCFeatureRegistry  <- FeatureRegistryProofs
QualificationRuns  <-extends-  Certification \
                                              > QualificationRunsProofs
                               JobLauncher   /
Sandboxes        <- MCSandboxes   <- SandboxesProofs
PreviewLab       <- MCPreviewLab  <- PreviewLabProofs
AgentRuns  <-extends-  DatabaseReset  <- MCDatabaseReset  <- DatabaseResetProofs
SimulationRuns, SimulatedEmployees    <- SimulationRunsProofs
KioskClient <- ScenarioScripts \
                                > DeploymentScripts <- ScenarioSuites <- ScenarioSuitesProofs
                     Containers /
```

In every module a *thread* (or process, request, admin) has a place in its
operation, and each action is one statement of it: one SQL statement with its
commit, one docker command, one access to a file or a table under its lock.
Between two actions any other thread may act. What a thread has read and not
yet used is in its own record (`req`, `call`, `job`, `stop`). Exceptions and
failed commands are disjuncts of the action they happen in or actions of their
own.

| Module | State and code |
|---|---|
| `BugLifecycle` | The lifecycle the docstrings of `bug_store.py` promise: OPEN, FIXING, READY_FOR_VERIFY, RESOLVED, REGRESSION, IGNORED. `bugStatus` is its only variable. |
| `BugStore` | `bugs[b]` is a row; `req[t]` a call. `RecordRead`, `RecordCount`, `RecordInsert` and `RecordUpdate` are the statements of `record_bug`; `RecordCollision` is the IntegrityError, after which the connection holds SQLite's write lock until it is dropped (`ConnectionClosed`). `ReadStatus` is the SELECT and check of a status operation and `StatusWrite` its UPDATE. Fingerprints are model values. Bug ids carry the day, and the count starts anew with each: one day is modelled. |
| `FeatureLifecycle` | The lifecycle the header of `feature_registry.py` promises: NEW, COVERED, STABLE, CHANGED, REGRESSION_RISK, BROKEN, with the streak of PASSes. `status` and `streak` are its only variables. |
| `FeatureRegistry` | `features[f]` is a row, `openBugs` what `list_bugs` would find. The verify request is one thread going through attach, pass, evaluation and clear. The matching of a tag with a test name is the relation `Covers`. |
| `JobLauncher` | `file[j]` is the status in the job's JSON file, `worker[j]` the place of its thread, `proc[j]` the subprocess, `cancellable` is `_jobs_processes`. The subprocess may end, and need not. |
| `Sandboxes` | `status`, `kept` are columns of `qa_deployments`; `app`, `db`, `net` what Docker has of a namespace. All seven operations are series of docker commands over them. Each command may fail, `docker rm -f` and `docker stop` unnoticed, since `destroy` and `stop` ignore their results; those without a timeout may also never end (`Hang`). `Tamper`, `Exits`, `Killed` are containers removed or ended behind the manager's back and processes killed. The package checks before a deploy and the health column are left out. |
| `QualificationRuns` | A process of one of four kinds of command: what `run-artifact` does, what the single-suite commands do, `long-simulation`, and suites against a given target. `run` is the status column, `table` is `qa_suite_runs` in the order of the INSERTs, `box` the containers of its sandbox, which a destroy may leave. `Raise`, `Terminate` and `Die` may come at any place, `Hang` at a docker command without a timeout. A command has each of its suites once; a suite configuration may list one again and says itself which are required, as nothing in `cli.py` (736-743) or the table forbids it. Commands are run without `--keep-environment`. Processes meet in the look of `start_run` for a RUNNING row and in the certification, so there is one beside one that is over (`Earlier`). |
| `Certification` | `certifier` is an evaluation of `policy.py` between its SELECTs, `certificate` the row it writes. It extends `QualificationRuns`, whose processes go on meanwhile. |
| `PreviewLab` | `rows` are the columns of `preview_environments`, `boxes` what Docker and the runtime tables hold; `blamed` the environments a coverage run has recorded a bug about. Each command of a delete may fail and be passed over, or time out and end it there. What a preset seeds is the preset itself. The single checks of a coverage run are its result: a bug if the application does not answer or shows other data than the manifest describes. |
| `AgentRuns` | `run` is `_runs`, `asked` the stop event, `worker`, `proc` and `handle` the thread, the subprocess and `state.process`, `SeeStop` the look at the stop event, which needs a line of output, `ThreadDies` an exception before the worker's `try`, `active` the file `active_run.json`, `stop` the calls of `/api/stop`, `waking` the resume thread. |
| `DatabaseReset` | Adds the contents of the databases: missing, baseline, used, damaged (an incomplete baseline), production rows, and the leftovers of production after the first truncate only. `Verified` is `verify_qa_baseline`, which looks at minimum counts and four empty tables. |
| `SimulationRuns` | `manager` is who holds the lock of `RunManager`, with the place in `start` or `stop`; `status[s]` and `flag` the fields of a `SimulationRun`, `row[s]` its `sim_runs` row, `loop[s]` the place of its thread. Each look of the loop at flag, cap and clock is a step. `suite` is the runner of long-simulation or load-soak that polls it, `patience` what it does at its deadline. What an actor does is that it may start a session. |
| `SimulatedEmployees` | The actors of one simulation in simulated time: `EmployeeActs`, the web users' and the kiosks' actions are whole, since one loop thread runs them; each call in them may fail, or its answer may be lost. `opened` are the product's sessions, `held` and `state` what the actor believes, `metrics` the counters of `RunMetrics`. |
| `KioskClient` | `KioskV2Client` with its offline queue, and the kiosk protocol of the product as far as the suites rely on it (external): a device's state, deduplication by event id, sessions and quantities. A request may be lost, its answer may be, or the answer is an HTTP error. |
| `ScenarioScripts` | The scenarios of `live.py`, `browser.py`, `build_integrity.py` and `kiosk_emulator.py` as scripts: steps with the answer that is asserted, and what a wrong answer or an exception does. Three pages stand for the browser's nine, one for the other twelve of the API contract; they are looked at alike. |
| `Containers`, `DeploymentScripts` | What `docker` commands do to containers, networks, volumes and databases (external), and the scripts of smoke, recovery, chaos, scheduler reliability, upgrade, rollback, backup-restore and test deployment over them. |
| `ScenarioSuites` | Runs the scripts as `cli.py` runs suites and `ScenarioRunner.run` and `_scenario` run scenarios: `plan`, `scenario`, `at` are the place, `status` and `row` the rows. Any call may fail, with or without its effect. `OfflineBurstRunner`, whose devices replay in parallel threads, has actions of its own. |

Definitions whose comment starts with `mutant:` are wrong on purpose: a
plausible bug in the definition below them. Nothing refers to them except
`PROJECT.json` (`mutants`), which says which property fails when one of them
takes the place of the right definition; that is how we know that each property
depends on the code it is about.

The `MC` modules add history variables and bounds. Where an instance needs bounds
on what is begun, the two are apart: in `MCDatabaseReset` and `MCPreviewLab`
`HistorySpec` has the history and every behavior of the component, and
`MCFairSpec`, which TLC explores, restricts it. The proofs are about
`HistorySpec`. A property called `Serial...`
is one that the code keeps while the operations it names do not overlap; the
module says precisely which overlap is excluded, and section 6 what happens
then. Properties without that prefix hold under every interleaving of the
instance.

## 3. Runs

| Run | Instance | What it shows |
|---|---|---|
| `BugStoreConcurrent` | 2 threads, 1 fingerprint, 2 rows, 3 finished reports, history of 2 | Under every overlap RESOLVED has its PASS and its timestamp, and occurrences add up to the reports that returned. |
| `BugStoreSerial` | 1 thread, 2 fingerprints, 2 rows, 4 reports | One call at a time the store implements `BugLifecycle`. |
| `Features` | 2 threads, 1 feature, 2 tests, streak of 2 | STABLE is earned under every overlap; serially it also means a full streak, no pending regression and no gap, tests and tags stay attached, and the registry implements `FeatureLifecycle`. |
| `Jobs` | 2 jobs, 2 cancels, 1 restart | SUCCESS and CANCELLED say what happened to the subprocess, every job gets to its subprocess and ends after it. |
| `Sandboxes` | 2 threads, 1 namespace, all operations and faults | What a DESTROYED sandbox still has of containers is what `docker rm -f` failed to remove, unless a destroy raced its deploy or it was reaped; a lone reap is complete; a deploy ends, unless it is killed or hangs. |
| `Runs` | 1 process of any kind after an earlier run, 2 rows of a required and an optional suite, SIGTERM, SIGKILL and commands that hang, 1 evaluation | PASSED is earned, results stay, a sandbox is removed or its removal was tried and failed, a run ends unless its process is killed or hangs; what is certified has passed, and agrees with `finish_run`, but for a suite that is not required or that a configuration lists twice. |
| `Preview` | 2 threads, 2 environments, 2 ports, 2 presets, 4 operations | What is left of a DELETED environment is what docker refused to remove, in an order in which it could, whatever overlaps; serially, READY is seeded and a coverage run blames the product for nothing of the Lab's; no environment stays in transition. |
| `Agent` | 2 runs, 1 stop, 2 admins, 1 restart | Verdicts, resume, fail closed, a clean demo database, a stop ends its run if the process talks or ends. |
| `Simulation` | 2 simulations, cap of 1 session, batches of 2, 1 restart; alone or under a suite | How a simulation ended is what its status says, of two loops one has been told to end, a suite passes only what was simulated, loops and suites end. |
| `Employees` | 2 employees, 1 web user, 1 kiosk, a day of 5 slots, 2 sessions, 2 faults | Metrics agree with the product when answers are lost, an employee holds its newest session, none stays open, every actor gets its turn. |
| `Suites` | 2 devices, the plans of `run-artifact`, the emulator's profiles, burst, chaos, rollback, backup-restore; 2 calls that fail | Failures have a cause, sessions are closed, lost events are noticed, what PASSED works, nothing is left of a suite's namespaces but for failing removals and a network joined in vain. |
| `KioskCertified` (violation) | the same, 1 call that fails | The certification of an axis calls a scenario passed that never ended. |

Bounds, and why they are enough:

- Two threads: each hazard here is a statement of one call between two
  statements of another. Three would repeat pairs, as no statement waits for a
  second thread.
- Two faults in a run of suites: one that disturbs a scenario and one in what
  should have undone it. The suites of `run-artifact` without the optional ones,
  the emulator and each suite with a command of its own have two; all suites one
  after the other have one, as failures of different suites meet only through
  what the first leaves behind. `load_soak` and `offline_burst`, optional and
  each with its own employees, are left out of that plan.
- Simulations: a session beyond the cap needs a batch of two, a replaced
  simulation two of them. A day of five slots has every kind of time (night,
  morning, lunch, afternoon, evening), and the clock goes around.
- Rows, jobs, namespaces and environments do not interact except through bug
  numbers (two rows), ports (two environments), `active_run.json` (two runs)
  and the table of jobs (two jobs); there are as many as that needs, else one.
- Counters that the code compares with a limit (history, streak) have a limit of
  2 instead of 10 and 3: one to reach it and one to go past it.
- `MaxReports`, `MaxBegun`, `MaxSuites`, `MaxEvaluations` and `MaxRestarts` bound the calls, and
  are chosen so that sequences of three to four operations occur, as in create
  that fails, start, coverage. Operations on a sandbox are not bounded.
  In `MCPreviewLab` an operation begins in the first idle thread, the first of them
  on the first environment with the first preset, since threads, environments and
  presets that nothing has used are alike. The bounds of `MCDatabaseReset` are in its
  header: database operations meet runs only where they ask for active runs and where a
  run uses a database, so one run beside them is enough.
- Symmetry of threads is used in the two runs that check no liveness.

Deadlock is checked except in `Jobs`, `Runs`, `Preview`, `Agent`, `Simulation`, `Suites`
and `KioskCertified`: there every job has been started, the processes
have ended, every environment has been deleted, the simulations and suites are
over, or the bound on calls is reached. In the other runs some call is always
possible, and TLC confirms it.

No run spends a property on a type invariant. Those of the modules with proofs are
proved (in `QualificationRunsProofs`, `Typed` and `CertTyped` are part of the
invariant); those of `KioskClient` and the suites are there to be read and were
checked while the models were written.

Fairness is weak fairness of the threads that have begun an operation, and of
nothing else; no call has to be made, nothing has to fail or be restarted.

- `JobLauncher`: threads and requests run. The subprocess need not end: a continuous
  long simulation (`long_simulation.py:27`) has no limit of time, and some docker commands
  have none. `JobsEnd` is about the way to the subprocess and the way from its end.
- `Sandboxes`: an operation goes on, but a docker command without a timeout may hang.
  In `deployment.py` those are the `pg_isready` of the readiness loop (151), `logs` and
  `rm -f` after a failed deploy (236, 244), the removals of network and volume (250-253),
  `stop` (316) and the `inspect` of reap (382); `Hang` ends the operation's steps there,
  and `DeployEnds` says so (`lost`). The other commands and waits have timeouts.
- `QualificationRuns`: the process goes on, unless it hangs at such a command, in its
  sandbox or in a suite (`Hang`); `RunsEnd` excepts those, and the signalled and killed.
- `PreviewLab`: here every docker command does have a timeout (`_exec`,
  `preview_manager.py:127-136`), and every wait counts its attempts.
- `SimulationRuns`: the loop thread, the thread in start or stop and the runner of
  a suite run; its calls have timeouts. The planned end of a simulation need
  not come, so `SimulationEnds` is about loops that are told to end.
- `SimulatedEmployees`: simulated time goes on and so does the loop. That no fault
  happens any more after the last of `MaxFaults` is the bound, and `LoopGoesOn`
  says so.
- `ScenarioSuites` checks no liveness; `WF_vars(Next)` only says that a run does
  not stop in the middle.
- `AgentRuns`: threads and stop requests run. No subprocess has to end: a soak
  runs as long as it likes. Nor has it to print a line, which is when the thread looks at
  the stop event: `SeeStop` has no fairness, and `StopEnds` assumes, run by run, that a
  process that was told to stop prints a line some time or ends (`Talks`). It must then hold
  also for one that ignores the signal, by the 15 seconds of `proc.wait`.

## 4. Proofs

All proofs are about specifications without bounds on what is begun, or for every
value of the bounds, and for any sets of threads, rows and the like, from the named
assumption on the constants that the component's module declares.

`BugStoreProofs`, from `BugStoreAssumption` (bounds are naturals, at least one row
and one sample of history, at least one fingerprint):

- `TypeCorrect`: `TypeOK` is invariant; it is inductive as it stands.
- `ResolvedVerified`, `RegressionResolved`. Neither invariant is inductive: a
  thread in `record_bug` writes a status computed from a row it read before.
  `VerdictInv` adds `SeenIsPast` (if a thread waiting to update has read RESOLVED
  or REGRESSION, the row's `resolved_at` is still set, because no write takes it
  back) and `NoRowNotResolved`. `RowStep` shows what any action may make of any
  row, `SeenStep` that what threads hold stays true.
- `BugIdsContiguous`: the numbers have no gap, so COUNT(*)+1 is free whenever no
  insert overlaps. `PlacesKnown` adds that whoever has counted has a row at each
  lower number, rows being never deleted.
- `NoReportLost`: for every fingerprint the occurrences of its rows add up to the
  reports that returned, although a report writes evidence from an old read. The sum
  over rows is a function on Nat; that a change of one row changes it by as much
  (`TotalPlusOne`, and `CountersStep` for every action) is shown by taking the least
  number of rows where it would fail.
- `SerialStoreDedups`: under `OneThread` all reports of a bug share a row.
- `SerialStoreImplementsLifecycle`: under `OneThread` the store implements
  `BugLifecycle`, with the status column as refinement mapping. `StillAsRead`
  says that nothing moved since the only thread read; `StepImplements` maps each
  action to a move or a stutter. With two threads both are false (sections 5, 6).

`FeatureRegistryProofs`, from `FeatureRegistryAssumption`:

- `TypeCorrect`, and `StableEarned`: a feature is STABLE only when
  `min_consecutive_passes` PASSes were recorded for it. `RowInv` says it of the
  rows, and that the streak is never above all its PASSes; `ThreadInv` says that a
  thread which will write STABLE, since it read STABLE or found the conditions met,
  does so rightly, however long ago it looked. It rests on `Grows`: no step takes
  away a row or what it has earned, so what the other threads know stays true.
- `StableIsWhole`, `GrantHasNoGap`. Overlapping threads can lose the streak and
  grant STABLE beside a gap, so these are about histories without overlap.
  `SerialInv` says for such histories that at most one thread is busy, that what it
  what it has read is still so (`Midway`), and that the stored gap of a declared feature is
  right except while it is being computed.
- `AttachedStays`, an action property of the same histories: an upsert writes the lists
  of a row whole, from a read that `Midway` says is still right.
- `FollowsLifecycle`: in these histories the registry implements `FeatureLifecycle`,
  step by step (`StepIsRight`). `FeatureLifecycle` does not ask for the absence of open
  bugs, since a bug may be reported between the look at them and the UPDATE.

`QualificationRunsProofs` on `JobLauncher`, from `JobLauncherAssumption` (there is a job):

- `JobsTypeCorrect`, and `SuccessEarned`, `CancelledStopped`, `TableHasThread`, all
  from `JobsInv`. A verdict depends on a read of the file and an exit code some
  steps earlier, so the invariant says for each place of the thread what has
  become of the subprocess by then (`JobOK`), and for each place of a cancel that
  its job has a subprocess that `terminate` has reached or that had ended
  (`CancelOK`). `ProcStep` shows that neither can be undone.

`QualificationRunsProofs`, from `QualificationRunsAssumption` and
`CertificationAssumption`, which says that the policy requires at least one suite:

- `PassedEarned`, `ResultKept`, `SandboxCleaned`. The invariant is said one
  process at a time (`ProcInv`). `ResultInv` says that a result is what
  `finish_run` would compute again from the rows, which is why the second call
  changes nothing, and that no suite begins after it; `SandboxInv` says where
  containers can be without the variable that `finally` tests, and when they are
  containers whose removal failed. The one table of
  all runs is what processes share: `Inserted` and `Updated` show that an INSERT
  and an UPDATE of one run leave the rows of the others alone.
- `CertifiedEarned`: a certificate over runs that were over when its evaluation
  began is right. The policy looks at the latest row of a suite, `finish_run` at
  all; that they agree needs `KeyInv` (a run of a command has two rows of a suite only
  where a runner raised, and then the second says FAILED). A suite configuration may have
  more; what is certified in spite of an earlier attempt that failed is `Retried`. `Judged` says of each place of
  the evaluation what it has established about its runs, `Certified` the same of
  what was written, and `ProvenStays` that no process takes it back. That a
  suite with rows has a latest one (`HasLast`) is by well-founded induction.

`SandboxesProofs`, from `SandboxesAssumption`:

- `TypeCorrect`, and `DestroyedIsGone`: a DESTROYED sandbox has only such containers as
  `docker rm -f` was run for and failed to remove, unless it was destroyed by request while
  being deployed, or reaped, whatever overlaps, fails, hangs and is killed. `ThreadInv` has
  the places of each operation; `OneDeploys` that one deploy of a namespace gets past its
  INSERT, the namespace being UNIQUE; and `SandboxInv` that, of a sandbox that has not raced,
  no thread creates what another removes, and what a removal has passed is gone or spared.
- `ReapFindsAll`, an action property: `ReapInv` says that a reap which has been alone
  has found, or has still to look at, every sandbox whose application is gone.

`PreviewLabProofs`, from `PreviewLabAssumption` (ports are positive, there is an
environment):

- `TypeCorrect`, and `DeleteIsComplete`: what there is of an environment whose row says
  DELETED, delete has tried to remove, after whatever docker wants removed before it, and
  docker has refused (`left`). This holds under every overlap, failure and restart: the guard
  of delete wants to see the application container, so the creation that could bring
  something back is past the statement that creates it (`CreateInv`, `PairInv`, `RemoveInv`).
- `ReadyIsSeeded`, `NoFalseBug`, for histories without overlap or restart.
  `Midway` says how far an operation has got with its environment, `Rest` what
  holds between operations, for all environments but the `spoiled` ones, on which an
  operation other than a start has ended halfway.

`DatabaseResetProofs`, from `AgentRunsAssumption` (a restart bound in Nat, a run):

- `TypeCorrect`, and `VerdictEarned`: PASSED and STOPPED are true of their runs.
  `RunInv` says that a verdict which the thread has reached and not yet written
  remains earned; `CallInv` that a stop writes back what it read of its own run.
- `ResetFailsClosed`: an incomplete QA database is in the hands of a reset that has
  yet to verify or to drop it (`QaInv`), unless its last steps were lost.
- `DemoIsClean`, one operation at a time: `DemoInv` says that whoever is about to
  clone the demo template has verified one without rows of production.
- `ResumeIsRight`, an action property: `BegunInv` and `FileInv` relate
  `active_run.json` to the newest soak, to the stops that have yet to write it and
  to those that have been answered, as long as no stop met the start of a soak.

`SimulationRunsProofs`, from `SimulationAssumption` (naturals, a batch of one at
least) and `EmployeesAssumption` (naturals, the times of a shift in their order
within a day, a finite set of employees):

- `TypeCorrect`, which says that a simulation never starts more than
  `MaxBatch - 1` sessions beyond its cap.
- `EndEarned`, `OneSimulationBegins`, `SuitePassEarned`, from one `IInv`. A status
  is written by three parties without a lock of their own, so `EndWasEarned`
  needs to know who may still write: `LockInv` says what a start or stop in
  progress may rely on, `GoesOnInv` that a loop without its flag is that of the
  active simulation, `LoopInv` what the place of a loop says of its simulation,
  and `SuiteInv` what the suite's runner has seen. `StepKeeps` goes through the
  27 actions.
- `ActorsTyped`, `HeldIsNewest`, `MetricsRight`, of the actors. `ActorStep` shows that
  a step leaves sessions and counters alone, or takes over, opens or finishes a
  session, the last two possibly without the employee learning of it. `HeldInv`
  adds that an open session is the newest of its employee, so that whatever a retry
  finds is the session it has lost. The counts of `MetricsAgree` are those
  of finite sets to which such a step adds, or from which it takes, one element.

`ScenarioSuitesProofs`, from `FaultsAreCounted` (the number of failing calls is in Nat),
for any devices:

- `LostNoticed`: the burst's threads replay in parallel and a queue is emptied before
  it is replayed, so the invariant relates, for each device, what is queued, answered
  and counted to the place of its thread.
- `NothingLeft`. Every step of a script acts on the namespaces of its suite only, which is
  shown by going through the operations at each place of each script; `NamespacesInv`
  then says where something can be left: in the namespaces of the active suite, or where
  a call of a cleanup has failed. `Cleared` is what a cleanup without such calls leaves of
  a namespace: nothing, or, of upgrade's, the network that it does not know to have joined
  (`JoinRaised`). In a cleanup the invariant says, place by place, what has been removed so
  far (`CleanupInv`).
- `PassedIsWorking`. A verdict comes long after the steps it speaks of, and from what
  the scenarios have noted, not from a look at the application. `FactsInv` says, place by
  place, what the script has achieved as long as nothing in it failed: which database
  holds what, what is dumped, which application serves (`UpgradeFacts`, `BackupFacts`, and
  those of recovery). `StepsAre` says that a scripted step which goes wrong ends its
  scenario or is noted, and `CourseInv` that a suite without a note has been through all its
  steps. `LeftInv` carries this to the verdict and past it: in recovery's case
  through test_deployment, which leaves the released application alone
  (`ElsewhereIsTheSame`).

Where one of these arguments is an induction on a natural number, it is made by
`WFMin` of the library, from the least counterexample: the induction theorems
proper take an operator as a parameter, which the installed provers cannot use.

Only model-checked:

- Liveness (`JobsEnd`, `DeployEnds`, `RunsEnd`, `Settles`, `StopEnds`,
  `SimulationEnds`, `LoopGoesOn`), which is out of the prover's reach.
- `FailuresHaveACause` and `NothingLeftOpen` of `ScenarioSuites`. They are about the
  outcome of every step of every script under every fault, those that the theorems above may
  set aside because the suite has already failed; TLC goes through all of them.

## 5. Where code and documentation disagree

`KioskCertified` ends in a counterexample; the others were met while modelling.

- `KioskCertified`: `kiosk_registry.py:262` answers PASSED, "all N testcase(s)
  passed", for an axis none of whose scenarios FAILED. A scenario that was
  interrupted has left its row RUNNING (`scenario_runner.py:43`), and is counted
  among those that passed.
- `kiosk_registry.py:246-247` says that a later run wins; the SELECT has no ORDER BY.
- `bug_store.py:193` calls verify "The only way a bug can become RESOLVED. Raises
  if not READY_FOR_VERIFY." The check and the UPDATE are separate statements and
  the UPDATE (`:201`) is by `bug_id` alone, so an older check resolves a bug that
  was put back to OPEN.
- `feature_registry.py:7` says an unresolved bug takes STABLE to REGRESSION_RISK.
  `record_bug` does not call the registry, `mark_regression_risk` has no caller,
  and `evaluate_stability` (`:233`) returns at once for a STABLE feature.
- `api.py:238` says a retained sandbox survives the cleanup of its run. The
  `finally` clauses (`cli.py:550`) look only at `--keep-environment`.
- `cli.py:290-299` says that SIGTERM becomes an exception so that rows are closed.
  It becomes `SystemExit`, which `except Exception` does not catch; only
  `long-simulation` (`:544`) handles it. The run stays RUNNING and `start_run`
  refuses the artifact from then on.
- `load_soak.py:94` expects `stop` to raise for a simulation that has ended. It does
  not, and relabels a COMPLETED simulation STOPPED.
- `scheduler.py`'s docstring keeps employees to their shift; one that finishes a
  session after midnight starts the next at once. `employee.py:45` says what
  `_planned` is for; a resumed session keeps that of an earlier one.
- `upgrade.py:113-117` calls its scenarios and those of recovery independent; each
  stands on what the one before has left.

## 6. What else the models show

Behaviours of the code that the properties had to make room for. None
contradicts a sentence of the documentation as plainly as those above.

- Bug Center: a report writes back the status it read (`bug_store.py:118`), so
  it undoes a transition in between; two first reports make two rows, or collide
  on the number and one is lost.
- Feature registry: STABLE may be granted after a change that came between
  reading and writing (`feature_registry.py:244`); overlapping attaches (not serial ones) lose a
  test (`:152`); the gap of a bootstrapped feature is never computed (`:180`).
- Job launcher: a cancel between the thread's read and its write is overwritten
  (`api.py:94-104`); a cancel after the end turns SUCCESS into CANCELLED
  (`:422-430`); a job whose QA Center restarted says RUNNING for ever.
- Job launcher and qualification runs: a job, run or deploy ends only as its docker
  commands do, some of which have no timeout (section 3); a continuous simulation
  launched as a job ends only when it is told to.
- Sandboxes: `destroy` looks at no result (`deployment.py:243-253`), so that a container that
  `docker rm -f` could not remove stays behind DESTROYED, where `reap_orphans` does not
  look; `stop` likewise says STOPPED of containers that run. A destroy or a reap during a
  deploy leaves containers behind DESTROYED, or READY without containers; stop of a destroyed sandbox makes it
  STOPPED; `reset` deploys into the namespace that is UNIQUE and taken, so it
  always ends in an exception with the sandbox destroyed; `reap_orphans` looks at
  the application container only.
- Qualification runs: two commands of one artifact may both pass the look for a
  RUNNING run; a cancel during deploy leaks the sandbox, because the variable
  that `finally` tests is not yet set (`cli.py:549`). A command says nothing of a container
  that its destroy could not remove.
- Certification: a suite that a configuration lists twice, FAILED and then PASSED, makes
  the run FAILED (`finish_run` counts every row) and certifiable (`_decide` takes the latest
  row). `_decide` ignores the status of the runs, so that one whose process
  was killed, or which still runs, is certifiable by the suites it has finished;
  nothing sets `qa_certifications.invalidated_at`, so later failures leave a
  CERTIFIED row; a suite the policy requires whose row says `required=0` is neither
  missing nor failed; suites outside the policy count as failed too; `started_at`
  has a resolution of seconds, and the latest attempt is by it.
- Simulation: `start` holds the lock through the bootstrap, and one that fails leaves
  what it created; an exception in a checkpoint ends the loop with the status
  RUNNING; after a restart `sim_runs` says RUNNING for ever (`SimClock.resume`,
  `EmployeeActor.restore` and `reconciliation.py` have no caller); at its deadline
  long-simulation raises without stopping the simulation, and it passes
  STOPPED_SAFETY and simulations with errors.
- Load soak: rejected starts and bad scans count as business events, rejected
  finishes as finished quantities; an exception in the sampler leaves the simulation
  running.
- Suites: burst inserts its employees outside any scenario, workflows logs in before
  its row exists, the screenshot of a failing page may itself fail: then a row stays
  RUNNING and `run-artifact` adds another, FAILED. The calls that close a session
  are not checked in the emulator, so that a PASSED scenario can leave QA-EMP-001
  at work for recovery's `duplicate_request`. The smoke's disposable workflow is
  PASSED when the login failed. A `docker network connect` that takes effect but
  times out is never undone (`upgrade.py`), so that the network stays, and its fallback for a bare host
  (69-76) cannot work. A request of a page that fails after the look at it counts
  against the next page, or none.
- Preview Lab: `delete` passes over each docker command that fails
  (`preview_manager.py:559-581`) and says DELETED, whatever stays; a command of stop or
  delete that times out, or raises, ends the operation with the row as it was, READY, which
  start, reset and coverage then believe. Start makes READY what a failed create or reset left behind,
  unseeded; start of a DELETED environment revives its row, which can then not
  be deleted, as the guard wants to inspect the application container; for the
  same reason an environment that failed before its container, or whose delete
  was cut short, keeps its port for ever; two creations may get one port; a
  coverage run that overlaps a reset records bugs the product does not have.
- Agent: an ended soak is resumed by the next restart, since
  `_mark_active_run_finished` has no caller; a stop and a start of soaks may
  overwrite each other's entry in `active_run.json`; a run whose process ignores
  the signal is FAILED, no longer counts as active, and its process goes on. If that
  process prints nothing more (or never got the signal), the thread does not see the stop
  (`agent.py:1166-1168`, 1220-1225, 1267-1276) and the run stays RUNNING; so does, without any
  stop, a run whose command line could not be put together, which is done before the
  worker's `try` (1186-1214): its thread is dead. A run that stays RUNNING refuses all
  database operations until the next restart.
- Databases: `active_runs` is asked once, before the DROP, and nothing keeps a
  run from starting after that; overlapping prepare and demo reset, or a prepare
  cut off between its truncates, leave rows of production in a template that
  `verify_qa_baseline` accepts; only the QA reset drops what fails verification.

## 7. Plan

Done, in this order: Bug Center with its abstract lifecycle and proofs; feature
registry; job launcher with its proofs; sandboxes; qualification runs; Preview
Lab with coverage; agent runs with the database operations; factory simulation,
its manager with proofs and its actors; kiosk client; the suites as scripts over
the product and over containers; certification; and the proofs of section 4, which
leave no invariant or action property of a run outside the suites unproved, and three of
the five invariants of the suites proved.

Next, by what they add:

1. `Qualification`: composition of `JobLauncher`, `QualificationRuns` and
   `Sandboxes`: a cancelled job's run and sandbox.
2. `ReleaseBuild` and `DemoRuns` from `agent.py`: the build lock and its state
   file, the demo ticket and its cleanup, which deletes order, template and
   employee one after the other.
3. The rows of `coverage_runs`, and the hardware suite `esp_hil`.

Proofs: those of the composition, for its promise that a cancelled job leaves no
sandbox; lemmas about `KioskClient` that do not depend on a script, such as that an
event in the queue has been neither answered nor dropped.

## 8. Not modelled

- Of the suites: `esp_hil` and `critical_unit` are one command each, whose outcome
  is a choice in `QualificationRuns`. Payloads, QR texts, the wording of
  assertions, timing of polls and evidence are left out; readings of many tables
  or pages that are alike are one.
- Regression policy: a selection over a table, without state. (It looks for a
  feature's key among the names of tests.) Demo runner: one browser session, with
  the cleanup noted in `PROJECT.json`. Release build: planned.
- Concurrency engine, fault injection, replay, state model and oracle: helpers of
  tests without state of their own; `qa.py` and `scenarios/` are test scripts
  against the product and the layout of their reports.
- `src/previous/agent.py` is an earlier version of `agent.py`.
- Data: evidence, reports, logs, formats, names, confirmation phrases and host
  checks that only refuse a call, the seeded rows of a preset.
- Writes of local files and of SQLite are taken not to fail, except where the
  code handles it. A restart of the agent is taken to end its container's
  processes (`AgentRuns`); `JobLauncher` allows the subprocess of a job to
  outlive it.
- Pages, installers, Docker images and reports.
