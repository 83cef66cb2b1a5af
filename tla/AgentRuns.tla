------------------------------ MODULE AgentRuns ------------------------------
(***************************************************************************)
(* The runs of agent.py: the table _runs, a daemon thread per run, the     *)
(* subprocess of those that have one, and the file active_run.json from    *)
(* which the last realtime soak is resumed when the QA Center starts.      *)
(* Requests of POST /api/stop work meanwhile; nothing but _runs itself is  *)
(* locked, so each look at the table, the file or the process is a step.   *)
(***************************************************************************)
EXTENDS Integers

CONSTANTS
    Runs,           \* run ids
    Stoppers,       \* the HTTP threads that stop runs
    MaxRestarts     \* bound: restarts of the QA Center


VARIABLES
    run,        \* run id -> its status in _runs
    kind,       \* run id -> what its thread is, "fresh" before it is used
    asked,      \* run id -> its stop_event is set
    worker,     \* run id -> where its thread is
    proc,       \* run id -> its subprocess
    handle,     \* run id -> state.process is set
    active,     \* active_run.json
    stop,       \* stopper -> its call in progress
    waking,     \* the run a resume thread is about to start again, if any
    restarts    \* counts the restarts (bound)

runVars == <<run, kind, asked, worker, proc, handle, active, stop, waking, restarts>>

NoRun  == "NONE"
Nobody == "nobody"

ASSUME AgentRunsAssumption == MaxRestarts \in Nat /\ Runs # {} /\ Nobody \notin Runs

\* COMPLETED_WITH_ERRORS and ERROR, of the kinds without a subprocess, count
\* as FAILED.
Ends     == {"PASSED", "FAILED", "STOPPED"}
RunState == Ends \cup {NoRun, "RUNNING"}

\* "soak" is realtime_soak, "script" factory_simulation, behavioral and demo,
\* "inner" the functional, api_soak, browser and release profile threads.
Kinds == {"soak", "script", "inner"}

Exited == {"zero", "nonzero"}

Entry == [run: Runs, status: {"RUNNING", "STOP_REQUESTED"}, resume: BOOLEAN]

NoEntry == [run |-> Nobody, status |-> "", resume |-> FALSE]

StopCall == [pc: {"idle", "read", "write", "signal"}, run: Runs,
             entry: Entry \cup {NoEntry}]

NoStop == [pc |-> "idle", run |-> CHOOSE r \in Runs : TRUE, entry |-> NoEntry]

RunsTypeOK ==
    /\ run \in [Runs -> RunState]
    /\ kind \in [Runs -> Kinds \cup {"fresh"}]
    /\ asked \in [Runs -> BOOLEAN]
    /\ worker \in [Runs -> Ends \cup {"none", "file", "begin", "assign", "output", "wait", "dead"}]
    /\ proc \in [Runs -> {"none", "running", "signalled"} \cup Exited]
    /\ handle \in [Runs -> BOOLEAN]
    /\ active \in Entry \cup {NoEntry}
    /\ stop \in [Stoppers -> StopCall]
    /\ waking \in Runs \cup {Nobody}
    /\ restarts \in 0..MaxRestarts

RunsInit ==
    /\ run = [r \in Runs |-> NoRun]
    /\ kind = [r \in Runs |-> "fresh"]
    /\ asked = [r \in Runs |-> FALSE]
    /\ worker = [r \in Runs |-> "none"]
    /\ proc = [r \in Runs |-> "none"]
    /\ handle = [r \in Runs |-> FALSE]
    /\ active = NoEntry
    /\ stop = [q \in Stoppers |-> NoStop]
    /\ waking = Nobody
    /\ restarts = 0

activeRuns == {r \in Runs : run[r] = "RUNNING"}

Step(r, from, to) == worker[r] = from /\ worker' = [worker EXCEPT ![r] = to]

----------------------------------------------------------------------------
\* api_start: a new id goes into _runs; a soak is written to the file before
\* its thread starts.
StartRun(r, k) ==
    /\ kind[r] = "fresh"
    /\ run' = [run EXCEPT ![r] = "RUNNING"]
    /\ kind' = [kind EXCEPT ![r] = k]
    /\ Step(r, "none", IF k = "soak" THEN "file" ELSE "begin")
    /\ UNCHANGED <<asked, proc, handle, active, stop, waking, restarts>>

WriteActive(r) ==
    /\ Step(r, "file", "begin")
    /\ active' = [run |-> r, status |-> "RUNNING", resume |-> TRUE]
    /\ UNCHANGED <<run, kind, asked, proc, handle, stop, waking, restarts>>

\* The command line is put together from the options, and the directory of a
\* demo made, before the try of the worker: if that raises, the thread is dead
\* and the run goes on without it.  Of the threads without a subprocess it is
\* those of the API soak that may die so.
ThreadDies(r) ==
    /\ Step(r, "begin", "dead")
    /\ UNCHANGED <<run, kind, asked, proc, handle, active, stop, waking, restarts>>

\* Popen; without script or password, or if Popen raises, the run has FAILED.
StartProcess(r) ==
    /\ kind[r] # "inner"
    /\ \/ Step(r, "begin", "FAILED") /\ UNCHANGED proc
       \/ Step(r, "begin", "assign") /\ proc' = [proc EXCEPT ![r] = "running"]
    /\ UNCHANGED <<run, kind, asked, handle, active, stop, waking, restarts>>

\* state.process=proc
Assign(r) ==
    /\ Step(r, "assign", "output")
    /\ handle' = [handle EXCEPT ![r] = TRUE]
    /\ UNCHANGED <<run, kind, asked, proc, active, stop, waking, restarts>>

Signal(r) == proc' = [proc EXCEPT ![r] = IF @ = "running" THEN "signalled" ELSE @]

\* mutant: the loop over the output does not look at the stop_event
SeeStopNot(r) ==
    /\ asked[r] /\ proc[r] \in Exited
    /\ Step(r, "output", "wait")
    /\ UNCHANGED <<run, kind, asked, proc, handle, active, stop, waking, restarts>>

\* A line of output arrives: if a stop is asked for, terminate and break.  As
\* long as the process prints nothing, the thread does not look.
SeeStop(r) ==
    /\ asked[r]
    /\ Step(r, "output", "wait")
    /\ Signal(r)
    /\ UNCHANGED <<run, kind, asked, handle, active, stop, waking, restarts>>

\* The output is at its end.
OutputEnds(r) ==
    /\ proc[r] \in Exited
    /\ Step(r, "output", "wait")
    /\ UNCHANGED <<run, kind, asked, proc, handle, active, stop, waking, restarts>>

\* mutant: the exit code is not asked for
VerdictNoCode(stopped, code) == IF stopped THEN "STOPPED" ELSE "PASSED"

\* STOPPED goes before the exit code.
Verdict(stopped, code) ==
    IF stopped THEN "STOPPED"
    ELSE IF code = "zero" THEN "PASSED"
    ELSE "FAILED"

\* proc.wait(timeout=15) returns, or raises: the run has FAILED and its process
\* is left to itself.
Wait(r) ==
    /\ Step(r, "wait", IF proc[r] \in Exited THEN Verdict(asked[r], proc[r])
                       ELSE "FAILED")
    /\ UNCHANGED <<run, kind, asked, proc, handle, active, stop, waking, restarts>>

\* A thread without a subprocess looks at its stop_event between two checks, so
\* that a stop asked for during the last one is not seen.
EndInner(r) ==
    /\ kind[r] = "inner"
    /\ \E end \in IF asked[r] THEN Ends ELSE Ends \ {"STOPPED"} : Step(r, "begin", end)
    /\ UNCHANGED <<run, kind, asked, proc, handle, active, stop, waking, restarts>>

\* finish: the status, then the report.  The file is not touched.
FinishRun(r) ==
    /\ worker[r] \in Ends
    /\ run' = [run EXCEPT ![r] = worker[r]]
    /\ worker' = [worker EXCEPT ![r] = "none"]
    /\ UNCHANGED <<kind, asked, proc, handle, active, stop, waking, restarts>>

\* The subprocess ends, after a SIGTERM with a code of its own choice.
ProcessEnds(r) ==
    /\ proc[r] \in {"running", "signalled"}
    /\ \E code \in Exited : proc' = [proc EXCEPT ![r] = code]
    /\ UNCHANGED <<run, kind, asked, worker, handle, active, stop, waking, restarts>>

----------------------------------------------------------------------------
\* api_stop: 404 unless the run is in _runs; otherwise its stop_event is set,
StopRun(q, r) ==
    /\ stop[q].pc = "idle"
    /\ run[r] # NoRun
    /\ asked' = [asked EXCEPT ![r] = TRUE]
    /\ stop' = [stop EXCEPT ![q] = [NoStop EXCEPT !.pc = "read", !.run = r]]
    /\ UNCHANGED <<run, kind, worker, proc, handle, active, waking, restarts>>

\* active_run.json is read,
StopRead(q) ==
    LET r == stop[q].run IN
    /\ stop[q].pc = "read"
    /\ stop' = [stop EXCEPT ![q] = IF active.run = r
                    THEN [pc |-> "write", run |-> r, entry |-> active]
                    ELSE [@ EXCEPT !.pc = "signal"]]
    /\ UNCHANGED <<run, kind, asked, worker, proc, handle, active, waking, restarts>>

\* mutant: auto_resume stays as it was
StopWriteStatus(q) ==
    /\ stop[q].pc = "write"
    /\ active' = stop[q].entry
    /\ stop' = [stop EXCEPT ![q] = [@ EXCEPT !.pc = "signal", !.entry = NoEntry]]
    /\ UNCHANGED <<run, kind, asked, worker, proc, handle, waking, restarts>>

\* written back if it is about this run,
StopWrite(q) ==
    /\ stop[q].pc = "write"
    /\ active' = [stop[q].entry EXCEPT !.status = "STOP_REQUESTED", !.resume = FALSE]
    /\ stop' = [stop EXCEPT ![q] = [@ EXCEPT !.pc = "signal", !.entry = NoEntry]]
    /\ UNCHANGED <<run, kind, asked, worker, proc, handle, waking, restarts>>

\* and the process, if there is one by now, is sent SIGTERM.
StopSignal(q) ==
    LET r == stop[q].run IN
    /\ stop[q].pc = "signal"
    /\ IF handle[r] THEN Signal(r) ELSE UNCHANGED proc
    /\ stop' = [stop EXCEPT ![q] = NoStop]
    /\ UNCHANGED <<run, kind, asked, worker, handle, active, waking, restarts>>

----------------------------------------------------------------------------
\* _resume_persistent_run_after_startup, AUTO_RESUME being on: the entries it
\* passes over.
Resumes(entry) == entry.status = "RUNNING" /\ entry.resume

\* The QA Center restarts, and the container's processes with it.
RestartAgent ==
    /\ restarts < MaxRestarts
    /\ restarts' = restarts + 1
    /\ run' = [r \in Runs |-> NoRun]
    /\ asked' = [r \in Runs |-> FALSE]
    /\ worker' = [r \in Runs |-> "none"]
    /\ proc' = [r \in Runs |-> "none"]
    /\ handle' = [r \in Runs |-> FALSE]
    /\ stop' = [q \in Stoppers |-> NoStop]
    /\ waking' = IF Resumes(active) THEN active.run ELSE Nobody
    /\ UNCHANGED <<kind, active>>

\* The resume thread has slept: the run is there again, under its old id.
Wake(r) ==
    /\ waking = r
    /\ waking' = Nobody
    /\ run' = [run EXCEPT ![r] = "RUNNING"]
    /\ Step(r, "none", "begin")
    /\ UNCHANGED <<kind, asked, proc, handle, active, stop, restarts>>

----------------------------------------------------------------------------
WorkRun(r) ==
    \/ WriteActive(r)
    \/ ThreadDies(r)
    \/ StartProcess(r)
    \/ Assign(r)
    \/ OutputEnds(r)
    \/ Wait(r)
    \/ EndInner(r)
    \/ FinishRun(r)

Stopping(q) == StopRead(q) \/ StopWrite(q) \/ StopSignal(q)

Starting == \E r \in Runs : Wake(r) \/ \E k \in Kinds : StartRun(r, k)

RunActs ==
    \/ Starting
    \/ \E r \in Runs : WorkRun(r) \/ SeeStop(r) \/ ProcessEnds(r)
    \/ \E q \in Stoppers : Stopping(q) \/ \E r \in Runs : StopRun(q, r)

\* Threads run and requests are answered.  No subprocess has to end, with or
\* without a signal, or to print a line for its thread to see the stop.
RunsFairness ==
    /\ \A r \in Runs : WF_runVars(WorkRun(r))
    /\ \A q \in Stoppers : WF_runVars(Stopping(q))

----------------------------------------------------------------------------
\* PASSED is said only of a run whose subprocess ended with code zero, and
\* STOPPED only of one that was asked to stop and whose subprocess is gone,
\* however the stop, the thread's reads of the stop_event and the end of the
\* process interleave.
VerdictWasEarned ==
    \A r \in Runs :
        /\ run[r] = "STOPPED" => asked[r]
        /\ run[r] = "PASSED" /\ kind[r] # "inner" => proc[r] = "zero"
        /\ run[r] = "STOPPED" /\ kind[r] # "inner" => proc[r] \in Exited

\* A process that goes on after its run was asked to stop prints a line some
\* time.
Talks(r) == WF_runVars(SeeStop(r))

\* A run that is asked to stop ends if its process still prints or does end,
\* also when the request came before the process was there to be signalled and
\* the process ignores the signal, unless the thread of the run was dead.
StopEnds ==
    \A r \in Runs :
        Talks(r) => (run[r] = "RUNNING" /\ asked[r]
                       ~> run[r] # "RUNNING" \/ worker[r] = "dead")
=============================================================================
