-------------------------- MODULE QualificationRuns --------------------------
(***************************************************************************)
(* The life of a qualification run: one process of qualification/cli.py    *)
(* starts a run (service.py), deploys a sandbox, runs suites, finishes the *)
(* run and destroys the sandbox.  The job launcher's cancel sends it       *)
(* SIGTERM, which the process turns into SystemExit wherever it is; it may *)
(* also be killed.  Each process is one run.  Its sandbox is represented   *)
(* by the two facts that matter here (Sandboxes.tla has the whole of it).  *)
(***************************************************************************)
EXTENDS Integers, Sequences, FiniteSets

CONSTANTS
    Procs,          \* the processes, all of one artifact
    Earlier,        \* those that were over before the others began
    Keys,           \* suite keys
    Optional,       \* the keys of suites whose rows have required=0
    MaxSuites,      \* bound: suite rows of a run
    Signals         \* subset of {"TERM", "KILL", "HANG"}: what happens to processes

\* "artifact" is run-artifact, "single" soak, offline-burst, chaos, hil,
\* kiosk-certify and replay-suite, "simulation" long-simulation, and "suites"
\* the command that runs a suite configuration against a given target.  They
\* are run without --keep-environment.
Kinds == {"artifact", "single", "simulation", "suites"}

ASSUME QualificationRunsAssumption ==
    /\ MaxSuites \in Nat
    /\ Signals \subseteq {"TERM", "KILL", "HANG"}
    /\ Earlier \subseteq Procs /\ Cardinality(Earlier) <= 1
    /\ Optional \subseteq Keys

VARIABLES
    kind,       \* process -> the command it runs (never changes)
    pc,         \* process -> where it is
    run,        \* process -> status column of its run
    table,      \* qa_suite_runs, in the order of the INSERTs, which started_at keeps
    broken,     \* process -> a FAILED invariant result was stored
    box,        \* process -> the containers of its sandbox
    held,       \* process -> the local variable deployment is set
    ended       \* process -> how it ended, or that it hangs

vars == <<kind, pc, run, table, broken, box, held, ended>>

NoRun    == "NONE"
Terminal == {"PASSED", "FAILED", "FLAKY", "BLOCKED", "CANCELLED"}

\* How a suite ends; FAILED stands for BLOCKED and NOT_CONFIGURED as well, which
\* nothing here tells apart.
SuiteEnds == {"PASSED", "FAILED", "FLAKY"}

\* "left" are those that docker rm -f was to remove and has failed to.
Boxes == {"none", "there", "left"}

Row(p, key, required, status) ==
    [run |-> p, key |-> key, required |-> required, status |-> status]
RowsOf(p) == {i \in 1..Len(table) : table[i].run = p}
SuitesOf(p) == {table[i] : i \in RowsOf(p)}

\* mutant: what did not fail has passed
StatusLenient(rows, failures) ==
    IF failures THEN "FAILED"
    ELSE IF rows = {} THEN "BLOCKED"
    ELSE IF \E r \in rows : r.required /\ r.status = "FAILED" THEN "FAILED"
    ELSE IF \E r \in rows : r.status = "FLAKY" THEN "FLAKY"
    ELSE "PASSED"

\* finish_run: the status of a run from the suites it recorded, and whether an
\* invariant failed.
StatusOf(rows, failures) ==
    IF failures THEN "FAILED"
    ELSE IF rows = {} THEN "BLOCKED"
    ELSE IF \E r \in rows : r.required /\ r.status = "FAILED" THEN "FAILED"
    ELSE IF \E r \in rows : r.status = "FLAKY" THEN "FLAKY"
    ELSE IF \A r \in rows : r.status = "PASSED" THEN "PASSED"
    ELSE "BLOCKED"

Places == {"new", "insert", "prepare", "deploy", "create", "undeploy", "suites",
           "suite", "finish", "report", "except", "cancelled", "cleanup", "end"}

\* The places inside the try statement, and those inside deploy().
InTry    == {"deploy", "create", "undeploy", "suites", "suite", "finish", "report"}
InDeploy == {"deploy", "create", "undeploy"}

TypeOK ==
    /\ kind \in [Procs -> Kinds]
    /\ pc \in [Procs -> Places]
    /\ run \in [Procs -> Terminal \cup {NoRun, "RUNNING"}]
    /\ table \in Seq([run: Procs, key: Keys, required: BOOLEAN, status: SuiteEnds \cup {"RUNNING"}])
    /\ \A p \in Procs : Cardinality(RowsOf(p)) <= MaxSuites
    /\ broken \in [Procs -> BOOLEAN]
    /\ box \in [Procs -> Boxes]
    /\ held \in [Procs -> BOOLEAN]
    /\ ended \in [Procs -> {"no", "return", "raise", "TERM", "KILL", "hangs"}]

\* An earlier run-artifact left one row, and the status of its end, or RUNNING when
\* its process was killed in the suite.
EarlierRows ==
    IF Earlier = {} THEN {<<>>}
    ELSE {<<Row(p, k, k \notin Optional, status)>> :
             p \in Earlier, k \in Keys, status \in SuiteEnds \cup {"RUNNING"}}

EarlierStatus(p) ==
    IF \E r \in SuitesOf(p) : r.status = "RUNNING" THEN "RUNNING" ELSE StatusOf(SuitesOf(p), FALSE)

Init ==
    /\ kind \in [Procs -> Kinds]
    /\ \A p \in Earlier : kind[p] = "artifact"
    /\ table \in EarlierRows
    /\ pc = [p \in Procs |-> IF p \in Earlier THEN "end" ELSE "new"]
    /\ run = [p \in Procs |-> IF p \in Earlier THEN EarlierStatus(p) ELSE NoRun]
    /\ broken = [p \in Procs |-> FALSE]
    /\ box = [p \in Procs |-> "none"]
    /\ held = [p \in Procs |-> FALSE]
    /\ ended = [p \in Procs |->
                   IF p \notin Earlier THEN "no"
                   ELSE IF run[p] = "RUNNING" THEN "KILL" ELSE "return"]

Move(p, from, to) == pc[p] = from /\ pc' = [pc EXCEPT ![p] = to]
Leave(p, how) == /\ pc' = [pc EXCEPT ![p] = "end"]
                 /\ ended' = [ended EXCEPT ![p] = how]

\* run-artifact derives its environment from the artifact and "suites" is given
\* a name; the other commands make an environment of their own each time.
SameEnv(p, q) ==
    p = q \/ (kind[p] = kind[q] /\ kind[p] \in {"artifact", "suites"})

SandboxUnchanged == UNCHANGED <<box, held>>
ResultsUnchanged == UNCHANGED <<table, broken>>

----------------------------------------------------------------------------
\* start_run: SELECT the RUNNING run of that artifact and environment; if there
\* is one QualificationError ends the process.
Check(p) ==
    /\ pc[p] = "new"
    /\ IF \E q \in Procs : SameEnv(p, q) /\ run[q] = "RUNNING"
       THEN Leave(p, "raise")
       ELSE Move(p, "new", "insert") /\ UNCHANGED ended
    /\ UNCHANGED run /\ ResultsUnchanged /\ SandboxUnchanged

\* INSERT ... 'RUNNING'
StartRun(p) ==
    /\ Move(p, "insert", "prepare")
    /\ run' = [run EXCEPT ![p] = "RUNNING"]
    /\ UNCHANGED ended /\ ResultsUnchanged /\ SandboxUnchanged

\* The try statement is entered, by run-artifact with suites that need no
\* sandbox; hil deploys none, and "suites" has neither sandbox nor try.
Enter(p) ==
    /\ \/ kind[p] \in {"artifact", "single", "suites"} /\ Move(p, "prepare", "suites")
       \/ kind[p] \in {"single", "simulation"} /\ Move(p, "prepare", "deploy")
    /\ UNCHANGED <<run, ended>> /\ ResultsUnchanged /\ SandboxUnchanged

\* run-artifact deploys after its first suites.
EnterDeploy(p) ==
    /\ kind[p] = "artifact"
    /\ ~held[p]
    /\ Move(p, "suites", "deploy")
    /\ UNCHANGED <<run, ended>> /\ ResultsUnchanged /\ SandboxUnchanged

\* deploy() creates containers one after the other ...
DeployCreate(p) ==
    /\ Move(p, "deploy", "create")
    /\ box' = [box EXCEPT ![p] = "there"]
    /\ UNCHANGED <<run, held, ended>> /\ ResultsUnchanged

\* ... and returns, or fails, with or without containers.
Deployed(p) ==
    /\ Move(p, "create", "suites")
    /\ held' = [held EXCEPT ![p] = TRUE]
    /\ UNCHANGED <<run, box, ended>> /\ ResultsUnchanged

DeployFails(p) ==
    /\ \E from \in {"deploy", "create"} : Move(p, from, "undeploy")
    /\ UNCHANGED <<run, ended>> /\ ResultsUnchanged /\ SandboxUnchanged

\* Where an Exception in the try statement goes: "simulation" does not catch
\* it, and "suites" has no try.
Raised(p) ==
    CASE kind[p] = "simulation" -> "cleanup"
      [] kind[p] = "suites"     -> "end"
      [] OTHER                  -> "except"

\* Before the exception leaves the process its finally clause still runs.
Raise(p) ==
    /\ pc' = [pc EXCEPT ![p] = Raised(p)]
    /\ ended' = [ended EXCEPT ![p] =
                    IF kind[p] \in {"simulation", "suites"} THEN "raise" ELSE @]

\* destroy: docker rm -f may fail, and nobody looks at its result.
DestroyBox(p) ==
    \/ box' = [box EXCEPT ![p] = "none"]
    \/ box[p] # "none" /\ box' = [box EXCEPT ![p] = "left"]

\* The except clause of deploy() destroys what it created and raises.
Undeploy(p) ==
    /\ pc[p] = "undeploy"
    /\ DestroyBox(p)
    /\ Raise(p)
    /\ UNCHANGED <<run, held>> /\ ResultsUnchanged

----------------------------------------------------------------------------
\* A suite runner inserts its row, RUNNING.  A command runs each of its suites once;
\* a suite configuration may list a key again, and says itself what is required.
SuiteStarts(p) ==
    /\ Cardinality(RowsOf(p)) < MaxSuites
    /\ Move(p, "suites", "suite")
    /\ \E k \in Keys, required \in BOOLEAN :
          /\ kind[p] # "suites" =>
                required = (k \notin Optional) /\ \A r \in SuitesOf(p) : r.key # k
          /\ table' = Append(table, Row(p, k, required, "RUNNING"))
    /\ UNCHANGED <<run, broken, ended>> /\ SandboxUnchanged

\* The suite that runs: the last one of its process.
Running(p) == CHOOSE i \in RowsOf(p) : \A j \in RowsOf(p) : j <= i

\* It writes its outcome, and results of invariants.
SuiteEnd(p) ==
    /\ Move(p, "suite", "suites")
    /\ \E outcome \in SuiteEnds : table' = [table EXCEPT ![Running(p)].status = outcome]
    /\ \/ UNCHANGED broken
       \/ broken' = [broken EXCEPT ![p] = TRUE]
    /\ UNCHANGED <<run, ended>> /\ SandboxUnchanged

\* _run_suite_or_record_failure of run-artifact: the runner raised, another row of
\* its key says FAILED, as required, and the first stays RUNNING.
SuiteRaisedRecorded(p) ==
    /\ kind[p] = "artifact"
    /\ Cardinality(RowsOf(p)) < MaxSuites
    /\ Move(p, "suite", "suites")
    /\ table' = Append(table, Row(p, table[Running(p)].key, TRUE, "FAILED"))
    /\ UNCHANGED <<run, broken, ended>> /\ SandboxUnchanged

\* A runner, or a step between two, raises into the try statement.
SuiteRaises(p) ==
    /\ pc[p] \in {"suites", "suite"}
    /\ Raise(p)
    /\ UNCHANGED run /\ ResultsUnchanged /\ SandboxUnchanged

AllRun(p) ==
    /\ kind[p] = "artifact" => held[p]
    /\ Move(p, "suites", "finish")
    /\ UNCHANGED <<run, ended>> /\ ResultsUnchanged /\ SandboxUnchanged

----------------------------------------------------------------------------
FinishRun(p) == run' = [run EXCEPT ![p] = StatusOf(SuitesOf(p), broken[p])]

Finish(p) ==
    /\ Move(p, "finish", "report")
    /\ FinishRun(p)
    /\ UNCHANGED ended /\ ResultsUnchanged /\ SandboxUnchanged

\* coverage_snapshot and the output: they may raise too ("suites" ignores it).
Report(p) ==
    /\ pc[p] = "report"
    /\ \/ /\ pc' = [pc EXCEPT ![p] = IF kind[p] = "suites" THEN "end" ELSE "cleanup"]
          /\ ended' = [ended EXCEPT ![p] = "return"]
       \/ kind[p] # "suites" /\ Raise(p)
    /\ UNCHANGED run /\ ResultsUnchanged /\ SandboxUnchanged

\* mutant: the except clause only returns 1
ExceptOnlyReturns(p) ==
    /\ Move(p, "except", "cleanup")
    /\ ended' = [ended EXCEPT ![p] = "return"]
    /\ UNCHANGED run /\ ResultsUnchanged /\ SandboxUnchanged

\* except Exception: finish_run once more, and return 1
Except(p) ==
    /\ Move(p, "except", "cleanup")
    /\ FinishRun(p)
    /\ ended' = [ended EXCEPT ![p] = "return"]
    /\ ResultsUnchanged /\ SandboxUnchanged

\* mutant: the status need not be RUNNING
MarkCancelledAlways(p) ==
    /\ Move(p, "cancelled", "cleanup")
    /\ run' = [run EXCEPT ![p] = "CANCELLED"]
    /\ UNCHANGED ended /\ ResultsUnchanged /\ SandboxUnchanged

\* mark_cancelled: UPDATE ... 'CANCELLED' WHERE status='RUNNING'
MarkCancelled(p) ==
    /\ Move(p, "cancelled", "cleanup")
    /\ run' = [run EXCEPT ![p] = IF @ = "RUNNING" THEN "CANCELLED" ELSE @]
    /\ UNCHANGED ended /\ ResultsUnchanged /\ SandboxUnchanged

\* mutant: the sandbox is destroyed only after a good end
CleanupOnReturn(p) ==
    /\ Move(p, "cleanup", "end")
    /\ IF held[p] /\ ended[p] = "return" THEN DestroyBox(p) ELSE UNCHANGED box
    /\ UNCHANGED <<run, held, ended>> /\ ResultsUnchanged

\* finally: if deployment: destroy
Cleanup(p) ==
    /\ Move(p, "cleanup", "end")
    /\ IF held[p] THEN DestroyBox(p) ELSE UNCHANGED box
    /\ UNCHANGED <<run, held, ended>> /\ ResultsUnchanged

----------------------------------------------------------------------------
\* SIGTERM: SystemExit is raised where the process is.  It is no Exception: no
\* except Exception clause handles it, neither here nor in deploy().
Terminate(p) ==
    /\ "TERM" \in Signals
    /\ pc[p] # "end"
    /\ ended' = [ended EXCEPT ![p] = "TERM"]
    /\ pc' = [pc EXCEPT ![p] =
                 IF kind[p] = "simulation" /\ pc[p] \in InTry THEN "cancelled"
                 ELSE IF kind[p] # "suites" /\ pc[p] \in InTry \cup {"except", "cancelled"}
                      THEN "cleanup"
                      ELSE "end"]
    /\ UNCHANGED run /\ ResultsUnchanged /\ SandboxUnchanged

\* The process is killed, or the machine stops.
Die(p) ==
    /\ "KILL" \in Signals
    /\ pc[p] # "end"
    /\ Leave(p, "KILL")
    /\ UNCHANGED run /\ ResultsUnchanged /\ SandboxUnchanged

\* A docker command without a timeout does not end: pg_isready and logs of deploy,
\* those of destroy, and some of the suites.
Hang(p) ==
    /\ "HANG" \in Signals
    /\ ended[p] # "hangs"
    /\ pc[p] \in {"create", "undeploy", "suites", "suite"} \/ (pc[p] = "cleanup" /\ held[p])
    /\ ended' = [ended EXCEPT ![p] = "hangs"]
    /\ UNCHANGED <<pc, run>> /\ ResultsUnchanged /\ SandboxUnchanged

Proceed(p) ==
    \/ Check(p)
    \/ StartRun(p)
    \/ Enter(p)
    \/ EnterDeploy(p)
    \/ DeployCreate(p)
    \/ Deployed(p)
    \/ DeployFails(p)
    \/ Undeploy(p)
    \/ SuiteStarts(p)
    \/ SuiteEnd(p)
    \/ SuiteRaisedRecorded(p)
    \/ SuiteRaises(p)
    \/ AllRun(p)
    \/ Finish(p)
    \/ Report(p)
    \/ Except(p)
    \/ MarkCancelled(p)
    \/ Cleanup(p)

Work(p)      == ended[p] # "hangs" /\ Proceed(p) /\ UNCHANGED kind
Signalled(p) == (Terminate(p) \/ Die(p) \/ Hang(p)) /\ UNCHANGED kind

Next == \E p \in Procs : Work(p) \/ Signalled(p)

Spec == Init /\ [][Next]_vars

\* A process that does not hang goes on: its suites, probes and most commands have
\* timeouts, and a command without one that never ends is Hang.
FairSpec == Spec /\ \A p \in Procs : WF_vars(Work(p))

----------------------------------------------------------------------------
\* A run is PASSED only if it ran a suite, every suite row of it is PASSED and
\* no invariant failed, wherever the process was interrupted or raised.
PassedWasEarned ==
    \A p \in Procs :
        run[p] = "PASSED" =>
            /\ SuitesOf(p) # {}
            /\ \A r \in SuitesOf(p) : r.status = "PASSED"
            /\ ~broken[p]

\* A run that has a result keeps it: neither a late cancel nor the second
\* finish_run of the except clause changes it ("never downgrades an already
\* terminal run").
ResultStays ==
    [][\A p \in Procs : run[p] \in Terminal => run'[p] = run[p]]_vars

\* A process that was neither signalled nor killed leaves a container of its sandbox
\* behind only if it has tried to remove it and docker rm -f failed, whatever raised
\* in it.
CleanedUp ==
    \A p \in Procs : pc[p] = "end" /\ ended[p] \in {"return", "raise"} => box[p] # "there"

\* Every run started gets a result, whatever raises, unless its process was signalled
\* or killed, or waits for a docker command that has no timeout: run-artifact and the
\* single suites catch all the rest.  (Each of the processes starts one run and never
\* takes it back: in the end none is left RUNNING.)
RunsEnd ==
    <>[]\A p \in Procs :
          kind[p] \in {"artifact", "single"} /\ run[p] = "RUNNING" =>
              ended[p] \in {"TERM", "KILL", "hangs"}

=============================================================================
