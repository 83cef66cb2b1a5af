--------------------------- MODULE ScenarioSuites ---------------------------
(***************************************************************************)
(* The suites, as the commands of cli.py run them: run-artifact's one       *)
(* after the other on one deployed product, with those that make           *)
(* namespaces of their own among them; alone, the emulator's profiles,     *)
(* OfflineBurstRunner (offline_burst.py), many devices that queue offline  *)
(* and replay in parallel, chaos, rollback and backup-restore.             *)
(* ScenarioRunner and LiveMESFlowQualification turn an exception of a      *)
(* scenario into a FAILED row and go on with the next one, so what a       *)
(* scenario leaves behind meets the later ones; the phases of a suite with *)
(* namespaces of its own stop at the first failure and clean up; an        *)
(* exception outside of a scenario ends the run.                           *)
(***************************************************************************)
EXTENDS DeploymentScripts, Integers, FiniteSets, SequencesExt

CONSTANTS
    Profiles        \* the profiles of the emulator that are run alone

VARIABLES
    plan,       \* the suites still to run, the current one first
    profile,    \* the emulator's, "ALL" for None: run-artifact, kiosk-certify's STANDARD
    status,     \* row of a suite -> its status, "NONE" before there is one
    row,        \* key -> status of the scenario, "NONE" before it runs
    current,    \* position of the scenario in the suite
    scenario,   \* the one that runs: its key and its script
    at,         \* position in its script
    last,       \* the latest answer in the script
    noted,      \* an assertion that fails at the end of the script
    hit,        \* history: the scenarios in which a call failed
    phase,      \* "before" the suite, "ready" in it, its "cleanup"; "raised"; burst: "short"
                \* of kiosks; browser: an error of a page is still to come, "late"
    joined_network,     \* that of the upgrade suite
    logged,     \* the HTTP session is logged in
    total       \* the quantities of QA-PO-RUN-OP that work-sessions reported

runVars == <<plan, profile>>
scenarioVars == <<row, current, scenario, at, last, noted>>
liveVars == <<logged, total>>
dockerVars == <<docker, joined_network>>
vars == <<clientVars, runVars, status, scenarioVars, hit, phase, liveVars, dockerVars>>

Burst ==
    << Plain("burst_online_phase", <<>>), Plain("burst_queue_phase", <<>>),
       Plain("burst_reconnect_phase", <<>>), Plain("burst_convergence", <<>>) >>

-----------------------------------------------------------------------------
(* The registry of the emulator's scenarios: PROFILES and the categories of kiosk_registry.py           *)

Reliability ==
    {"network_drop_per_phase", "queue_reconnect_replay", "offline_queue_many_events",
     "offline_queue_duplicate_replay_protected", "backend_unavailable_then_restored",
     "response_lost_after_commit_idempotent", "duplicate_scan_idempotent",
     "repeated_completion_idempotent"}

Quick ==
    {"valid_employee_scan", "operation_scan_creates_session", "session_close_with_quantities",
     "invalid_employee_rejected", "queue_reconnect_replay"}

Selected(key) ==
    CASE profile = "QUICK" -> key \in Quick
      [] profile = "RELIABILITY" -> key \in Reliability
      [] OTHER -> TRUE

Network == {"network_drop_per_phase"}

\* axis_status of kiosk_certification, of the artifact this is the only run of
AxisStatus(keys) ==
    IF \E k \in keys : row[k] = "FAILED" THEN "FAILED"
    ELSE IF \E k \in keys : row[k] = "NONE" THEN "BLOCKED"
    ELSE "PASSED"

-----------------------------------------------------------------------------
(* The run and its suites                                                  *)

\* The order of run-artifact, in which most can be skipped; "invariants" is a
\* check without a row.
Product == <<"api_contract", "integration", "mes_workflows", "invariants">>
Release ==
    <<"build_integrity", "post_deploy_smoke">> \o Product \o <<"ui_critical", "kiosk_emulator">>
        \o <<"recovery", "test_deployment", "upgrade", "scheduler_reliability">>

Suites == ToSet(Release) \cup {"offline_burst", "chaos", "rollback", "backup_restore"}

Scenarios == [s \in Suites |->
    CASE s = "api_contract" -> ApiContracts
      [] s = "integration" -> Integration
      [] s = "mes_workflows" -> Workflows
      [] s = "build_integrity" -> BuildIntegrity
      [] s = "ui_critical" -> Browser
      [] s = "kiosk_emulator" -> Emulator
      [] s = "offline_burst" -> Burst
      [] s = "post_deploy_smoke" -> PostDeploySmoke
      [] s \in {"recovery", "chaos"} -> Recovery
      [] s = "scheduler_reliability" -> SchedulerReliability
      [] s = "upgrade" -> Upgrade(Capture)
      [] s = "rollback" -> Upgrade(CaptureAndDump) \o Rollback
      [] s = "backup_restore" -> BackupRestore
      [] s = "test_deployment" -> TestDeployment
      [] OTHER -> <<>>]

Strict == {"upgrade", "rollback", "backup_restore", "test_deployment"}

CleanupOf(s) ==
    CASE s = "backup_restore" -> BackupRestoreCleanup
      [] s = "test_deployment" -> TestDeploymentCleanup
      [] OTHER -> UpgradeCleanup

RowsOf(s) ==
    CASE s = "rollback" -> {"upgrade", "rollback"}
      [] s = "backup_restore" -> {"backup_restore_database", "backup_restore_recovery"}
      [] s = "invariants" -> {}
      [] OTHER -> {s}

KeysOf == [s \in Suites |-> {c.key : c \in ToSet(Scenarios[s])}]

suite == IF plan = <<>> THEN "none" ELSE Head(plan)

\* The parameters of ScenarioRunner.run: the key and what fn does.
Idle == [key |-> "none", script |-> <<>>]
Upcoming == Scenarios[suite][current]
Script == scenario.script
Key == scenario.key

\* The first device is the one of the scenarios.
D == CHOOSE d \in Devices : \A c \in Devices : d <= c

\* The suites with a command of their own
Alone == {"offline_burst", "chaos", "rollback", "backup_restore"}

Init ==
    /\ \/ plan \in {Product, Release} /\ profile = "ALL"
       \/ plan = <<"kiosk_emulator">> /\ profile \in Profiles \cup {"ALL"}
       \/ plan \in {<<s>> : s \in Alone} /\ profile = "ALL"
    /\ status = [s \in UNION {RowsOf(s) : s \in ToSet(plan)} |-> "NONE"]
    /\ row = [k \in UNION {KeysOf[s] : s \in ToSet(plan)} |-> "NONE"]
    /\ current = 1
    /\ scenario = Idle
    /\ at = 0
    /\ last = "NONE"
    /\ noted = FALSE
    /\ hit = {}
    /\ phase = "before"
    /\ logged = FALSE
    /\ total = Q(0, 0, 0)
    /\ client = [d \in Devices |-> NewClient]
    /\ device = [d \in Devices |-> NewDevice]
    /\ opened = EmptyBag
    /\ counted = EmptyBag
    /\ docker = NewDocker
    /\ joined_network = FALSE
    /\ faults = IF plan = Release THEN MaxFaults - 1 ELSE 0     \* bound: one in all of them

\* The row of the suite, RUNNING and committed.  workflows logs in and reads the
\* fixture before it, the burst inserts its employees and operations after it,
\* invariants is nothing else: outside of any scenario, what they raise ends
\* the run.
BeginSuite ==
    /\ plan # <<>>
    /\ phase = "before"
    /\ \/ UNCHANGED faults /\ phase' = "ready"
       \/ Fault /\ suite \in {"mes_workflows", "invariants", "offline_burst"} /\ phase' = "raised"
    /\ status' = IF phase' = "raised" /\ suite # "offline_burst" THEN status
                 ELSE [s \in DOMAIN status |->
                         IF s \in RowsOf(suite) \ {"rollback"} THEN "RUNNING" ELSE status[s]]
    /\ logged' = CASE suite = "mes_workflows" -> TRUE
                   [] suite = "integration" -> logged
                   [] OTHER -> FALSE        \* an HTTP session of its own
    /\ joined_network' = FALSE
    /\ UNCHANGED <<client, productVars, runVars, scenarioVars, hit, total, docker>>

Outcome(s) == IF \E k \in KeysOf[s] : row[k] = "FAILED" THEN "FAILED" ELSE "PASSED"

Goes == /\ plan' = Tail(plan)
        /\ current' = 1
        /\ scenario' = Idle
        /\ at' = 0
        /\ phase' = "before"
        /\ UNCHANGED <<profile, row, last, noted, liveVars, dockerVars>>

\* _finish_suite and the end of the runners' run, after the cleanup if there is one
FinishSuite ==
    /\ IF suite \in Strict THEN phase = "cleanup" /\ at > Len(Script)
       ELSE phase \in {"ready", "short", "late"} /\ current > Len(Scenarios[suite])
    /\ status' = [s \in DOMAIN status |->
                     IF s \in RowsOf(suite) /\ status[s] = "RUNNING" THEN Outcome(suite) ELSE status[s]]
    /\ Goes
    /\ UNCHANGED <<clientVars, hit>>

\* A scenario that fails ends the suites that handle containers.  rollback's row,
\* and both of backup_restore, are written before anything is removed.
Cleaning ==
    /\ suite \in Strict
    /\ current > Len(Scenarios[suite]) \/ \E k \in KeysOf[suite] : row[k] = "FAILED"

BeginCleanup ==
    LET early == {"rollback", "backup_restore_database", "backup_restore_recovery"}
    IN  /\ Cleaning
        /\ phase = "ready"
        /\ at = 0
        /\ phase' = "cleanup"
        /\ scenario' = [key |-> "cleanup", script |-> CleanupOf(suite)]
        /\ at' = 1
        /\ status' = [s \in DOMAIN status |->
                         IF s \in early /\ status[s] = "RUNNING" THEN Outcome(suite) ELSE status[s]]
        /\ UNCHANGED <<clientVars, runVars, row, current, last, noted, hit, liveVars, dockerVars>>

\* The last command of test_deployment's cleanup may take too long: the row stays
\* RUNNING, and run-artifact adds another, FAILED.
CleanupRaises ==
    /\ phase = "cleanup"
    /\ at <= Len(Script)
    /\ Script[at].type = "alpine"
    /\ Fault
    /\ hit' = hit \cup {Key}
    /\ Goes
    /\ UNCHANGED <<client, productVars, status>>

\* The browser does not start, its login fails, its trace is not written, or the page
\* of a failing scenario cannot be photographed: the rows of the suite, and of that
\* scenario, stay RUNNING, and run-artifact adds one, FAILED.
BrowserRaises ==
    /\ suite = "ui_critical"
    /\ phase \in {"ready", "late"}
    /\ \/ at = 0 /\ current \in {1, 2, Len(Browser) + 1} /\ UNCHANGED hit
       \/ at = 1 /\ current \in 2..Len(Browser) /\ hit' = hit \cup {Key}
    /\ Fault
    /\ Goes
    /\ UNCHANGED <<client, productVars, status>>

-----------------------------------------------------------------------------
(* ScenarioRunner.run and _scenario                                        *)

\* The row of the scenario, RUNNING and committed; devices are a scenario's own.
Begin ==
    /\ phase \in {"ready", "short", "late"}
    /\ current <= Len(Scenarios[suite])
    /\ at = 0
    /\ ~Cleaning
    /\ suite = "kiosk_emulator" => Selected(Upcoming.key)
    /\ status' = IF Upcoming.key = Rollback[1].key THEN [status EXCEPT !["rollback"] = "RUNNING"] ELSE status
    /\ row' = [row EXCEPT ![Upcoming.key] = "RUNNING"]
    /\ scenario' = Upcoming
    /\ at' = 1
    /\ IF suite = "offline_burst" THEN UNCHANGED <<client, device>>
       ELSE /\ client' = [client EXCEPT ![D] = NewClient]
            /\ device' = [device EXCEPT ![D] = NewDevice]
    /\ UNCHANGED <<runVars, current, last, noted, hit, phase, liveVars, opened, counted, faults, dockerVars>>

\* An unselected scenario leaves no row.
Skip ==
    /\ phase = "ready"
    /\ suite = "kiosk_emulator"
    /\ current <= Len(Emulator)
    /\ at = 0
    /\ ~Selected(Upcoming.key)
    /\ current' = current + 1
    /\ UNCHANGED <<clientVars, runVars, status, row, scenario, at, last, noted, hit, phase, liveVars, dockerVars>>

\* The scenario returned or raised: its row, and on to the next one.
Ends(passed) ==
    /\ row' = [row EXCEPT ![Key] = IF passed THEN "PASSED" ELSE "FAILED"]
    /\ current' = current + 1
    /\ scenario' = Idle
    /\ at' = 0
    /\ last' = "NONE"
    /\ noted' = FALSE

HitNow == hit' = IF faults' # faults THEN hit \cup {Key} ELSE hit

-----------------------------------------------------------------------------
(* A step of the current script                                            *)

InScript == suite # "offline_burst" /\ at > 0
This == Script[at]
Event == [id |-> at, type |-> This.type, arg |-> This.arg]

GoOn(answer, n, miss) ==
    /\ at' = at + n
    /\ last' = answer
    /\ noted' = (noted \/ miss)
    /\ UNCHANGED <<row, current, scenario>>

Meets(answer) ==
    CASE This.want = "ANY" -> TRUE
      [] This.want = "REJECTED" -> answer \in {"STATE_INVALID_TRANSITION", "EMPLOYEE_NOT_FOUND"}
      [] This.want = "SAME" -> answer = last
      [] This.want = "FREE" -> answer # "OPEN"
      [] OTHER -> answer = This.want

Judge(answer) ==
    IF Meets(answer) THEN GoOn(answer, 1, FALSE)
    ELSE IF This.miss = 0 THEN Ends(FALSE)
    ELSE GoOn(answer, This.miss, TRUE)

Raised == IF This.caught THEN GoOn("NONE", This.miss, TRUE) ELSE Ends(FALSE)

Do(what) ==
    /\ InScript
    /\ at <= Len(Script)
    /\ This.do = what
    /\ UNCHANGED <<runVars, status, phase>>
    /\ what \notin {"login", "finish"} => UNCHANGED liveVars
    /\ what # "docker" => UNCHANGED dockerVars

\* A call to the product fails, because it does or because the product is down.
Up == Serves("app")
Fails == Fault \/ (~Up /\ UNCHANGED faults)

\* KioskV2Client.send
EventStep ==
    /\ Do("event")
    /\ IF client[D].online
       THEN /\ UNCHANGED client
            /\ \/ \E answer \in States \cup Errors : PostAnswered(D, Event, answer) /\ Judge(answer)
               \/ PostRaises(D, Event) /\ Raised
       ELSE /\ Queue(D, <<Event>>)
            /\ Judge("QUEUED")
            /\ UNCHANGED <<productVars, faults>>
    /\ HitNow

AgainStep ==
    LET body == [id |-> at - 1, type |-> Script[at - 1].type, arg |-> Script[at - 1].arg]
    IN  /\ Do("again")
        /\ \/ \E answer \in States \cup Errors : PostAnswered(D, body, answer) /\ Judge(answer)
           \/ PostRaises(D, body) /\ Raised
        /\ UNCHANGED client
        /\ HitNow

\* Calls that change nothing the suites look at; a bootstrap whose answer is an
\* HTTP error goes unnoticed by all scenarios but one.
QuietStep ==
    /\ \E what \in {"boot", "insert", "look", "read"} : Do(what)
    /\ \/ /\ Up
          /\ Judge(IF This.do = "read" /\ ~logged THEN "AUTH_REQUIRED" ELSE "OK")
          /\ UNCHANGED faults
       \/ Fails /\ Raised
       \/ /\ Fault
          /\ This.do = "boot"
          /\ IF Key = "backend_unavailable_then_restored" THEN Raised ELSE Judge("OK")
    /\ UNCHANGED <<client, productVars>>
    /\ HitNow

\* The fixture's rows, of which there are none without a login: then the scenario
\* is skipped, and counts as passed.
ItemsStep ==
    /\ Do("items")
    /\ \/ GoOn("OK", IF logged THEN 1 ELSE Len(Script), FALSE) /\ UNCHANGED faults
       \/ Fault /\ Raised
    /\ UNCHANGED <<client, productVars>>
    /\ HitNow

\* A check of the artifact; what the checks after it need is kept when it passes.
ArtifactStep ==
    /\ Do("artifact")
    /\ \/ /\ Judge(IF This.type = "NEEDS" /\ row["manifest_and_checksums"] # "PASSED"
                   THEN "WRONG" ELSE "OK")
          /\ UNCHANGED faults
       \/ Fault /\ Raised
    /\ UNCHANGED <<client, productVars>>
    /\ HitNow

\* A page of the browser is opened and looked at after 600 ms.  The answer to a
\* request of it that fails later counts against the next page, unless it
\* arrives before that one is opened.
PageStep ==
    /\ InScript /\ at <= Len(Script) /\ This.do = "page"
    /\ \/ /\ Up
          /\ IF phase = "late" THEN Ends(FALSE) ELSE GoOn("OK", 1, FALSE)
          /\ phase' = "ready"
          /\ UNCHANGED faults
       \/ Fails /\ Ends(FALSE) /\ phase' = "ready"
       \/ Fault /\ phase = "ready" /\ phase' \in {"ready", "late"} /\ GoOn("OK", 1, FALSE)
    /\ UNCHANGED <<client, productVars, runVars, status, liveVars, dockerVars>>
    /\ HitNow

LoginStep ==
    /\ Do("login")
    /\ \/ Up /\ logged' = TRUE /\ Judge("OK") /\ UNCHANGED faults
       \/ Fails /\ Raised /\ UNCHANGED logged
    /\ UNCHANGED <<client, productVars, total>>
    /\ HitNow

\* work-sessions/start
StartStep ==
    LET answer == IF ~logged THEN "AUTH_REQUIRED"
                  ELSE IF This.arg = Nobody THEN "EMPLOYEE_NOT_FOUND"
                  ELSE IF This.type = "GATED" \/ IsOpen(This.arg) THEN "BUSINESS_CONFLICT"
                  ELSE "OK"
        done == opened' = IF answer = "OK" THEN BagAdd(opened, This.arg) ELSE opened
    IN  /\ Do("start")
        /\ \/ Up /\ done /\ Judge(answer) /\ UNCHANGED faults
           \/ Fails /\ ((Up /\ done) \/ UNCHANGED opened) /\ Raised
        /\ UNCHANGED <<client, device, counted>>
        /\ HitNow

\* work-sessions/<id>/finish, of the session that this script started
EndStep ==
    LET op == (CHOOSE s \in ToSet(Script) : s.do = "start" /\ s.arg = This.arg).type
        done == /\ counted' = BagAdd(counted, This.arg)
                /\ total' = IF op = "RUNNING" THEN [f \in DOMAIN total |-> total[f] + This.qty[f]]
                            ELSE total
    IN  /\ Do("finish")
        /\ \/ done /\ Judge("OK") /\ UNCHANGED faults
           \/ Fault /\ (done \/ UNCHANGED <<counted, total>>) /\ Raised
        /\ UNCHANGED <<client, device, opened, logged>>
        /\ HitNow

\* The same request_id again is answered from the product's record of it.
RepeatStep ==
    /\ Do("repeat")
    /\ \/ Up /\ Judge("OK") /\ UNCHANGED faults
       \/ Fails /\ Raised
    /\ UNCHANGED <<client, productVars>>
    /\ HitNow

TotalStep ==
    /\ Do("total")
    /\ \/ /\ Judge(IF \A f \in DOMAIN This.qty : total[f] = This.qty[f] THEN "OK" ELSE "WRONG")
          /\ UNCHANGED faults
       \/ Fault /\ Raised
    /\ UNCHANGED <<client, productVars>>
    /\ HitNow

LocalStep ==
    /\ \E what \in {"offline", "take", "cut", "client"} : Do(what)
    /\ CASE This.do = "offline" -> GoOffline(D) /\ UNCHANGED device
         [] This.do \in {"take", "client"} ->
               /\ client' = [client EXCEPT ![D] = NewClient]
               /\ device' = IF This.do = "client" THEN [device EXCEPT ![D] = NewDevice] ELSE device
         [] OTHER -> UNCHANGED <<client, device>>
    /\ Judge("OK")
    /\ UNCHANGED <<opened, counted, faults, hit>>

\* DeterministicDatabase.query_json
DbStep ==
    LET e == This.arg
        found == IF IsOpen(e) THEN "OPEN"
                 ELSE IF Times(e, counted) = 1 THEN "CLOSED"
                 ELSE "NONE"
    IN  /\ Do("db")
        /\ \/ Judge(found) /\ UNCHANGED faults
           \/ Fault /\ Raised
        /\ UNCHANGED <<client, productVars>>
    /\ HitNow

\* The endpoints of the web kiosk.
WebStep ==
    LET refused == This.type = "START" /\ IsOpen(This.arg)
        done == /\ opened' = IF This.type = "START" /\ ~refused THEN BagAdd(opened, This.arg) ELSE opened
                /\ counted' = IF This.type = "FINISH" THEN BagAdd(counted, This.arg) ELSE counted
                /\ UNCHANGED device
    IN  /\ Do("web")
        /\ \/ done /\ Judge(IF refused THEN "BUSINESS_CONFLICT" ELSE "OK") /\ UNCHANGED faults
           \/ Fault /\ (done \/ UNCHANGED productVars) /\ Raised
        /\ UNCHANGED client
        /\ HitNow

\* reconnect_and_replay, then a look at what it returned, if it returned.
ReplayStep ==
    /\ Do("replay")
    /\ CASE client[D].queue # <<>> ->
               Reconnect(D) /\ GoOn(last, 0, FALSE) /\ UNCHANGED <<productVars, faults>>
         [] client[D].queue = <<>> /\ client[D].sending # <<>> ->
               ReplayOne(D) /\ GoOn(last, 0, FALSE)
         [] OTHER ->
               /\ IF client[D].raised THEN Raised
                  ELSE IF This.want = "FIRST"
                       THEN IF Head(client[D].replies) # "HTTP_ERROR" THEN GoOn(last, 1, FALSE)
                            ELSE Ends(FALSE)
                  ELSE IF "HTTP_ERROR" \in ToSet(client[D].replies) THEN Judge("HTTP_ERROR")
                  ELSE Judge(Last(client[D].replies))
               /\ UNCHANGED clientVars
    /\ HitNow

-----------------------------------------------------------------------------
(* Steps at containers                                                     *)

\* What a failing command may have done: nothing, all of it, half of a restart.
\* SandboxManager.deploy leaves its network and removes what it has begun, or,
\* with failing removals, does not.
Failed(op, x) ==
    {docker, After(IF op = "deploy" THEN "compose_up" ELSE op, x)}
        \cup {After("stop", x) : o \in {op} \cap {"restart"}}
        \cup {After("stop_db", x) : o \in {op} \cap {"restart_db"}}

\* UpgradeRunner disconnects from the network it knows to have joined.
DockerStep ==
    LET op == This.type
        x == This.arg
        omitted == suite \in {"upgrade", "rollback"} /\ op = "leave" /\ ~joined_network
        failed == IF op = "deploy" /\ docker' # docker THEN {Key, "cleanup"} ELSE {Key}
    IN  /\ Do("docker")
        /\ CASE omitted ->
                  GoOn("NONE", 1, FALSE) /\ UNCHANGED <<faults, dockerVars>>
             [] ~omitted /\ ~Can(op, x) ->
                  Judge("ERROR") /\ UNCHANGED <<faults, dockerVars>>
             [] OTHER ->
                  \/ /\ docker' = After(op, x)
                     /\ joined_network' = (joined_network \/ op = "join")
                     /\ Judge("OK")
                     /\ UNCHANGED faults
                  \/ /\ Fault
                     /\ docker' \in Failed(op, x)
                     /\ UNCHANGED joined_network
                     /\ Judge("ERROR")
        /\ UNCHANGED <<client, productVars>>
        /\ hit' = IF faults' # faults THEN hit \cup failed ELSE hit

\* A request to the application, or many until it answers
ProbeStep ==
    /\ Do("probe")
    /\ \/ Judge(IF Serves(This.arg) THEN "OK" ELSE "DOWN") /\ UNCHANGED faults
       \/ Fault /\ Judge("DOWN")
    /\ UNCHANGED <<client, productVars>>
    /\ HitNow

CountsStep ==
    LET s == This.arg
        rows == docker.data[s].rows
        right == /\ docker.db[s] = "up"
                 /\ docker.data[s].schema \notin {"none", "blank"}
                 /\ This.type = "KEPT" => rows >= docker.counts
                 /\ This.type = "SAME" => rows = docker.counts
    IN  /\ Do("counts")
        /\ \/ Judge(IF right THEN "OK" ELSE "WRONG") /\ UNCHANGED faults
           \/ Fault /\ Raised
        /\ UNCHANGED <<client, productVars>>
        /\ HitNow

AssertStep ==
    /\ Do("assert")
    /\ Judge(IF noted THEN "WRONG" ELSE "OK")
    /\ UNCHANGED <<clientVars, hit>>

\* PostDeploySmokeRunner.run or workflows, as a whole
SuiteStep ==
    /\ Do("suite")
    /\ \/ Judge(IF Serves(This.arg) THEN "OK" ELSE "FAILED") /\ UNCHANGED faults
       \/ Fault /\ Judge("FAILED")
    /\ UNCHANGED <<client, productVars>>
    /\ HitNow

ContainerStep == DockerStep \/ ProbeStep \/ CountsStep \/ AssertStep \/ SuiteStep

ScriptEnds ==
    /\ InScript
    /\ phase # "cleanup"
    /\ at > Len(Script)
    /\ Ends(~noted)
    /\ UNCHANGED <<clientVars, runVars, status, hit, phase, liveVars, dockerVars>>

ScriptStep ==
    \/ ContainerStep \/ ItemsStep \/ ArtifactStep \/ PageStep
    \/ EventStep \/ AgainStep \/ QuietStep \/ LocalStep \/ DbStep \/ WebStep \/ ReplayStep
    \/ LoginStep \/ StartStep \/ EndStep \/ RepeatStep \/ TotalStep \/ ScriptEnds

-----------------------------------------------------------------------------
(* OfflineBurstRunner                                                      *)

Worker(d) == <<"burst", d>>
InPhase(key) == suite = "offline_burst" /\ at > 0 /\ Key = key

\* online_phase: the kiosks bootstrap one by one, at is the next one.
OnlinePhase ==
    /\ InPhase("burst_online_phase")
    /\ IF at > Cardinality(Devices)
       THEN Ends(TRUE) /\ UNCHANGED <<faults, phase>>
       ELSE \/ GoOn(last, 1, FALSE) /\ UNCHANGED <<faults, phase>>
            \/ Fault /\ Ends(FALSE) /\ phase' = "short"
    /\ HitNow
    /\ UNCHANGED <<client, productVars, runVars, status, liveVars, dockerVars>>

\* queue_phase: three scans and the quantity, this one twice.  kiosks[i] raises
\* at the first kiosk that did not come online; which one that is, is not kept.
QueuePhase ==
    LET Ev(d, id, type, arg) == [id |-> id, type |-> type, arg |-> arg]
        Events(d) == <<Ev(d, 1, "EMP", Worker(d)), Ev(d, 2, "OP", "RUNNING"), Ev(d, 3, "EMP", Worker(d)),
                       Ev(d, 4, "QTY", "GOOD"), Ev(d, 4, "QTY", "GOOD")>>
        Before(missing) == {d \in Devices : d < missing}
    IN  /\ InPhase("burst_queue_phase")
        /\ \E there \in IF phase = "short" THEN {Before(d) : d \in Devices} ELSE {Devices} :
              client' = [d \in Devices |->
                            IF d \in there THEN [client[d] EXCEPT !.online = FALSE, !.queue = Events(d)]
                            ELSE client[d]]
        /\ Ends(phase # "short")
        /\ UNCHANGED <<productVars, faults, runVars, status, hit, phase, liveVars, dockerVars>>

\* reconnect_phase: a thread for each kiosk.
ReconnectAll ==
    /\ InPhase("burst_reconnect_phase")
    /\ at = 1
    /\ client' = [d \in Devices |->
            [client[d] EXCEPT !.online = TRUE, !.queue = <<>>, !.sending = client[d].queue]]
    /\ at' = 2
    /\ UNCHANGED <<productVars, faults, runVars, status, row, current, scenario, last, noted, hit, phase, liveVars, dockerVars>>

ReplayThread(d) ==
    /\ InPhase("burst_reconnect_phase")
    /\ at = 2
    /\ ReplayOne(d)
    /\ HitNow
    /\ UNCHANGED <<runVars, status, scenarioVars, phase, liveVars, dockerVars>>

\* The pool is joined; pool.map raises what a thread raised.
ReconnectEnds ==
    /\ InPhase("burst_reconnect_phase")
    /\ at = 2
    /\ \A d \in Devices : client[d].sending = <<>>
    /\ Ends(\A d \in Devices : ~client[d].raised)
    /\ UNCHANGED <<clientVars, runVars, status, hit, phase, liveVars, dockerVars>>

\* mutant: every reply is there, whatever it says
ConvergedReplies ==
    \A d \in Devices : ~client[d].raised /\ Len(client[d].replies) = 5

\* convergence_phase: every worker has all its replies, accepted, and has its
\* quantity once, in one session.
Converged ==
    \A d \in Devices :
        /\ client[d].replies # <<>>
        /\ ToSet(client[d].replies) \subseteq States
        /\ ~client[d].raised
        /\ Times(Worker(d), counted) = 1
        /\ Times(Worker(d), opened) = 1

ConvergencePhase ==
    /\ InPhase("burst_convergence")
    /\ \/ Ends(Converged) /\ UNCHANGED faults
       \/ Fault /\ Ends(FALSE)
    /\ HitNow
    /\ UNCHANGED <<client, productVars, runVars, status, phase, liveVars, dockerVars>>

BurstStep ==
    \/ OnlinePhase \/ QueuePhase \/ ReconnectAll
    \/ \E d \in Devices : ReplayThread(d)
    \/ ReconnectEnds \/ ConvergencePhase

Next == BeginSuite \/ FinishSuite \/ BeginCleanup \/ CleanupRaises \/ BrowserRaises \/ Begin \/ Skip \/ ScriptStep \/ BurstStep

\* A run goes on until it returns or raises.
Spec == Init /\ [][Next]_vars /\ WF_vars(Next)

-----------------------------------------------------------------------------
(* Properties                                                              *)

Runs(s) == s \in DOMAIN status
InOrder ==
    BuildIntegrity \o PostDeploySmoke \o ApiContracts \o Integration \o Workflows
        \o Browser \o Emulator \o Recovery \o SchedulerReliability
Own(e) == e \notin {Shared, Other, Nobody}

TypeOK ==
    /\ status \in [DOMAIN status -> {"NONE", "RUNNING", "PASSED", "FAILED"}]
    /\ row \in [DOMAIN row -> {"NONE", "RUNNING", "PASSED", "FAILED"}]
    /\ \A d \in Devices : device[d].state \in States
    /\ phase \in {"before", "ready", "cleanup", "short", "late", "raised"}
    /\ BagToSet(counted) \subseteq BagToSet(opened)
    /\ faults \in 0..MaxFaults

Disturbed(key) == key \in hit \/ (key \in DOMAIN row /\ row[key] = "FAILED")

\* What a script shares with others: the fixture employees whose sessions it
\* opens, the quantities of QA-PO-RUN-OP, a login, the application it stops, the
\* manifest of the artifact, the browser's page.
Opens(script, e) ==
    \E n \in DOMAIN script :
        /\ script[n].arg = e
        /\ \/ script[n].do = "start" /\ script[n].type # "GATED"
           \/ script[n].do = "web" /\ script[n].type = "START"
           \/ /\ script[n].type = "EMP"
              /\ \E m \in DOMAIN script : script[m].type = "OP" /\ script[m].arg \in {"RUNNING", "LATE"}
Does(script, what) == \E n \in DOMAIN script : script[n].do = what
Shares(c) ==
    LET script == c.script IN
    {e \in {Shared, Other} : Opens(script, e)}
        \cup {t \in {"total"} : Does(script, "total") \/ \E n \in DOMAIN script : script[n].type = "RUNNING"}
        \cup {t \in {"login"} : \E n \in DOMAIN script :
                    script[n].do \in {"login", "read", "start"} /\ script[n].type # "SMOKE"}
        \cup {t \in {"smoke"} : \E n \in DOMAIN script : script[n].type = "SMOKE"}
        \cup {t \in {"manifest"} : \E n \in DOMAIN script : script[n].type \in {"PARSES", "NEEDS"}}
        \cup {t \in {"page"} : Does(script, "page")}
        \cup {t \in {"app"} : c \in ToSet(Recovery \o SchedulerReliability)}

Sharing == [n \in 1..Len(InOrder) |-> Shares(InOrder[n])]

\* No scenario fails by itself: one of its own calls failed, or a call of an
\* earlier one, or that one as a whole, with which it shares an employee, the
\* quantities, the login, the manifest or the browser's page.  So what one leaves behind ("cross-scenario
\* pollution") reaches no scenario with an employee of its own, and nothing fails
\* in a run without failing calls.
FailuresHaveACause ==
    \A n \in 1..Len(InOrder) :
        LET c == InOrder[n]
        IN  Disturbed(c.key) /\ c.key \notin hit =>
                \E i \in 1..(n - 1) :
                    /\ Disturbed(InOrder[i].key)
                    /\ Sharing[i] \cap Sharing[n] # {}

\* A session is open after the emulator's suite only if a call failed in the
\* scenario whose employee it is, or, for the fixture's employees, if one that
\* opens sessions for it was disturbed: else the suites that follow find them free.
NothingLeftOpen ==
    /\ Runs("kiosk_emulator") /\ status["kiosk_emulator"] \in {"PASSED", "FAILED"}
    /\ Runs("recovery") => status["recovery"] = "NONE"
    => \A e \in BagToSet(opened) : IsOpen(e) =>
            IF Own(e) THEN e[1] \in hit
            ELSE \E c \in ToSet(InOrder) : Disturbed(c.key) /\ Opens(c.script, e)

\* reconnect_and_replay empties the queue before it posts: still a burst PASSES
\* only when each kiosk's quantity was counted once, and its reconnect phase
\* only when every queued event was answered.
LostIsNoticed ==
    Runs("offline_burst") =>
        /\ status["offline_burst"] = "PASSED" =>
              \A d \in Devices : Times(Worker(d), counted) = 1 /\ ~IsOpen(Worker(d))
        /\ row["burst_queue_phase"] = "PASSED" /\ row["burst_reconnect_phase"] = "PASSED" =>
              \A d \in Devices : Len(client[d].replies) = 5

\* What a suite that handles containers says has PASSED is so: the application it
\* has stopped, cut off and stalled answers; the upgraded database has the rows of
\* before under the new schema, the rolled back one is the one that was dumped,
\* under the old application, and so is the restored one, while it is there.
PassedLeftItWorking ==
    LET Passed(s) == Runs(s) /\ status[s] = "PASSED"
        removing == phase = "cleanup" /\ at = 1
        data(s) == docker.data[s]
    IN  /\ Passed("chaos") => Serves("app")
        /\ Passed("recovery") /\ suite = "test_deployment" => Serves("app")
        /\ removing /\ suite = "upgrade" /\ Outcome("upgrade") = "PASSED" =>
              Serves("new") /\ data("upgrade").schema = "new" /\ data("upgrade").rows >= docker.counts
        /\ removing /\ Passed("rollback") => Serves("old") /\ data("upgrade") = docker.dump
        /\ removing /\ Passed("backup_restore_recovery") =>
              Serves("restoreApp") /\ data("restore") = docker.dump

\* A suite removes the namespaces it made, whatever failed in it and however far
\* it got with making them: nothing is left but for a failing removal, and of
\* upgrade's the network, if the call that joined it failed and so left no sign
\* that there is something to leave.
NothingRemains ==
    LET over(s) == Runs(s) /\ status[s] \in {"PASSED", "FAILED"} /\ phase # "cleanup"
        left == docker.nets \cup {s \in Sites : Present(s)}
    IN  "cleanup" \notin hit =>
            /\ over("upgrade") =>
                  /\ \A a \in AppsOf("upgrade") : docker.app[a] = "absent"
                  /\ docker.db["upgrade"] = "absent"
                  /\ "upgrade" \notin docker.vols
                  /\ "upgrade" \in docker.nets =>
                        "upgrade" \in docker.joined /\ "old_version_deploys" \in hit
            /\ over("backup_restore_recovery") => left = {"release"}
            /\ over("test_deployment") => "compose" \notin left

\* "all N testcase(s) passed", says the certification of an axis that PASSED.
AxisPassedWasTested ==
    Runs("kiosk_emulator") /\ AxisStatus(Network) = "PASSED" => \A k \in Network : row[k] = "PASSED"

=============================================================================
