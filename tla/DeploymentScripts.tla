-------------------------- MODULE DeploymentScripts --------------------------
(***************************************************************************)
(* The suites that handle containers, as scripts like those of             *)
(* ScenarioScripts: post_deploy_smoke.py, recovery.py (and chaos.py),      *)
(* scheduler_reliability.py on the deployed product; upgrade.py,           *)
(* backup_restore.py and test_deployment.py on namespaces of their own,    *)
(* which they remove afterwards.                                           *)
(***************************************************************************)
EXTENDS ScenarioScripts, Containers

-----------------------------------------------------------------------------
(* Steps                                                                   *)

\* _run: an error ends the scenario.
Run(op, x) == Step("docker", op, x, "OK")
\* A command whose return code is not looked at ...
Silent(op, x) == Step("docker", op, x, "ANY")
\* ... or is looked at later
Tried(op, x) == Later(Run(op, x))
NoneFailed == Step("assert", "NONE", "NONE", "OK")

Ready(app) == Step("probe", "NONE", app, "OK")         \* _wait_ready, a request
Outage(app) == Step("probe", "NONE", app, "DOWN")      \* a request that must fail
Counts(want, site) == Step("counts", want, site, "OK") \* of the tables, against the earlier
Integrity(site) == Step("counts", "INTEGRITY", site, "OK")
Suite(app) == Step("suite", "NONE", app, "OK")         \* another suite, from a scenario

-----------------------------------------------------------------------------
(* On the deployed product                                                 *)

\* A session of its own, so that a failing login fails what follows it; a read
\* without login finds no fixture, and the workflow is skipped.
Smoke(step) == [step EXCEPT !.type = "SMOKE"]

DisposableWorkflow ==
    <<Step("items", "SMOKE", "NONE", "OK"), Start(Shared, "RUNNING", "OK"), End(Shared, Q(0, 0, 0))>>

PostDeploySmoke ==
    << Plain("smoke_health", <<Look>>), Plain("smoke_readiness", <<Look>>),
       Plain("smoke_login", <<Smoke(Login)>>),
       Plain("smoke_db_connectivity", <<Smoke(Read)>>), Plain("smoke_read_po", <<Smoke(Read)>>),
       Plain("smoke_read_employee", <<Smoke(Read)>>), Plain("smoke_dashboard", <<Smoke(Read)>>),
       Plain("smoke_kiosk", <<Look>>),
       Plain("smoke_disposable", DisposableWorkflow) >>

BackendRestart ==
    <<Ready("app"), Run("restart", "app"), Ready("app"), Integrity("release"), Ready("app")>>

DatabaseRestart == <<Run("restart_db", "release"), Ready("app"), Integrity("release")>>

Unavailability == <<Run("stop", "app"), Outage("app"), Run("start", "app"), Ready("app")>>

Partition ==
    <<Run("cut", "app"), Outage("app"), Run("reconnect", "app"), Ready("app"), Integrity("release")>>

Stall == <<Run("pause", "app"), Later(Outage("app")), Run("unpause", "app"), NoneFailed, Ready("app")>>

DuplicateRequest == <<Login, Look, Start(Shared, "RUNNING", "OK"), Repeat, Look>>

Recovery ==
    << Plain("backend_restart", BackendRestart), Plain("database_restart", DatabaseRestart),
       Plain("bounded_unavailability", Unavailability), Plain("network_partition", Partition),
       Plain("app_stall", Stall), Plain("duplicate_request", DuplicateRequest) >>

\* A job runs in the application's container.
Job == Run("exec", "app")

SchedulerReliability ==
    << Plain("job_runs", <<Job, Integrity("release")>>),
       Plain("duplicate_worker", <<Job, Job, Integrity("release")>>),
       Plain("restart_during_job",
             <<Run("restart", "app"), Ready("app"), Job, Integrity("release")>>),
       Plain("integrity_after_jobs", <<Integrity("release")>>) >>

-----------------------------------------------------------------------------
(* On namespaces of their own: the first scenario that fails is the last.   *)
(* What these suites do outside of a scenario is one as well, without row.  *)

OldDeploy ==
    <<Run("create_net", "upgrade"), Run("create_vol", "upgrade"), Run("run_db", "upgrade"),
      Run("run", "old"), Run("join", "upgrade"), Ready("old")>>

Swap == <<Run("rm", "old"), Run("run", "new"), Ready("new")>>

CriticalWorkflow == <<Silent("work", "upgrade"), Suite("new")>>

Upgrade(capture) ==
    << Plain("load_artifacts", <<Run("load", "old"), Run("load", "new")>>),
       Plain("old_version_deploys", OldDeploy),
       Plain("fixture_seeded", <<Run("seed", "upgrade")>>),
       Plain("before_row_counts", capture),
       Plain("new_artifact_migrates", Swap),
       Plain("historical_data_preserved", <<Counts("KEPT", "upgrade")>>),
       Plain("migration_head_valid", <<>>),
       Plain("integrity_after_migration", <<Integrity("upgrade")>>),
       Plain("critical_workflows", CriticalWorkflow),
       Plain("upgrade_verified", <<>>), Plain("migration_verified", <<>>) >>

Capture == <<Run("count", "upgrade")>>
CaptureAndDump == Capture \o <<Run("dump", "upgrade")>>

\* dropdb, createdb, pg_restore: their return codes are looked at at the end.
RestoreDump(site) ==
    <<Tried("drop", site), Tried("create", site), Tried("restore", site), NoneFailed>>

\* mutant: only pg_restore's return code is looked at
RevertHalf ==
    <<Silent("rm", "new"), Silent("drop", "upgrade"), Silent("create", "upgrade"),
      Tried("restore", "upgrade"), NoneFailed, Run("run", "old"), Ready("old")>>

Revert == <<Silent("rm", "new")>> \o RestoreDump("upgrade") \o <<Run("run", "old"), Ready("old")>>

Rollback ==
    << Plain("failure_injected", <<Run("stop", "new")>>),
       Plain("rollback_executed", Revert),
       Plain("rollback_data_preserved", <<Counts("KEPT", "upgrade"), Integrity("upgrade")>>),
       Plain("smoke_after_rollback", <<Suite("old")>>) >>

\* mutant: the network is removed while its containers are there
UpgradeCleanupNetworkFirst ==
    <<Silent("leave", "upgrade"), Silent("rm_net", "upgrade"), Silent("rm", "old"),
      Silent("rm", "new"), Silent("rm_db", "upgrade"), Silent("rm_vol", "upgrade")>>

UpgradeCleanup ==
    <<Silent("rm", "old"), Silent("rm", "new"), Silent("rm_db", "upgrade"),
      Silent("leave", "upgrade"), Silent("rm_net", "upgrade"), Silent("rm_vol", "upgrade")>>

RestoreSeparate ==
    <<Run("stop", "restoreApp")>> \o RestoreDump("restore")
        \o <<Run("start", "restoreApp"), Ready("restoreApp")>>

BackupRestore ==
    << Plain("deploy_both",
             <<Run("deploy", "source"), Run("deploy", "restore"), Run("seed", "source")>>),
       Plain("real_supported_backup", <<Run("dump", "source"), Run("count", "source")>>),
       Plain("restore_to_separate_sandbox", RestoreSeparate),
       Plain("post_restore_comparison", <<Counts("SAME", "restore"), Integrity("restore")>>),
       Plain("smoke_after_restore", <<Suite("restoreApp")>>) >>

BackupRestoreCleanup == <<Silent("destroy", "source"), Silent("destroy", "restore")>>

ComposeUp == <<Run("load", "composeApp"), Run("config", "composeApp"), Run("compose_up", "compose")>>

TestDeployment ==
    << Plain("sha_preserved", <<>>),
       Plain("installer_command", ComposeUp),
       Plain("runtime_healthy", <<Run("join", "compose"), Ready("composeApp")>>),
       Plain("database_initialized", <<Run("inspect_db", "compose")>>),
       Plain("critical_smoke_checks", <<Suite("composeApp")>>) >>

TestDeploymentCleanup ==
    <<Silent("leave", "compose"), Silent("compose_down", "compose"), Silent("alpine", "compose")>>

=============================================================================
