----------------------------- MODULE JobLauncher -----------------------------
(***************************************************************************)
(* The job launcher of qualification/api.py.  Each job has a JSON file,    *)
(* its only persisted state, a daemon thread that runs one subprocess, and *)
(* an entry in _jobs_processes while that subprocess may be cancelled.     *)
(* Each read or write of a file holds _jobs_file_lock and each look at     *)
(* _jobs_processes its own lock, so each is one step; nothing holds a lock *)
(* from one to the next.  Requests call POST /jobs/<id>/cancel meanwhile,  *)
(* and the QA Center may restart: its threads and its table are lost.      *)
(***************************************************************************)
EXTENDS Integers

CONSTANTS
    Jobs,           \* job ids
    Requests,       \* the HTTP threads that cancel
    MaxRestarts     \* bound: restarts of the QA Center

\* There is a job to start: NoCancel names one.
ASSUME JobLauncherAssumption == MaxRestarts \in Nat /\ Jobs # {}

VARIABLES
    file,           \* job -> status in its file
    worker,         \* job -> where its thread is
    proc,           \* job -> its subprocess
    cancellable,    \* the jobs in _jobs_processes
    cancel,         \* request -> the cancel call in progress
    restarts        \* counts the restarts (bound)

jobsVars == <<file, worker, proc, cancellable, cancel, restarts>>

FinalStatuses == {"SUCCESS", "FAILED", "CANCELLED"}
NoFile   == "NONE"
Files    == FinalStatuses \cup {NoFile, "QUEUED", "RUNNING"}

\* A subprocess that ended did so with exit code zero or with another one.
Ended == {"zero", "nonzero"}

Workers == {"none", "start", "popen", "register", "wait", "decide", "SUCCESS",
            "FAILED", "CANCELLED", "except", "pop"}

Cancel == [pc: {"idle", "terminate", "write"}, job: Jobs]

NoCancel == [pc |-> "idle", job |-> CHOOSE j \in Jobs : TRUE]

JobsTypeOK ==
    /\ file \in [Jobs -> Files]
    /\ worker \in [Jobs -> Workers]
    /\ proc \in [Jobs -> {"none", "running", "signalled"} \cup Ended]
    /\ cancellable \subseteq Jobs
    /\ cancel \in [Requests -> Cancel]
    /\ restarts \in 0..MaxRestarts

JobsInit ==
    /\ file = [j \in Jobs |-> NoFile]
    /\ worker = [j \in Jobs |-> "none"]
    /\ proc = [j \in Jobs |-> "none"]
    /\ cancellable = {}
    /\ cancel = [r \in Requests |-> NoCancel]
    /\ restarts = 0

\* The thread of j goes from one place to the next.
MoveThread(j, from, to) ==
    /\ worker[j] = from
    /\ worker' = [worker EXCEPT ![j] = to]

Update(j, status) == file' = [file EXCEPT ![j] = status]

----------------------------------------------------------------------------
\* _start_job: the file is written, then the thread started.
StartJob(j) ==
    /\ file[j] = NoFile
    /\ MoveThread(j, "none", "start")
    /\ Update(j, "QUEUED")
    /\ UNCHANGED <<proc, cancellable, cancel, restarts>>

\* _job_update(RUNNING)
JobRunning(j) ==
    /\ MoveThread(j, "start", "popen")
    /\ Update(j, "RUNNING")
    /\ UNCHANGED <<proc, cancellable, cancel, restarts>>

\* mutant: an exception of Popen ends the thread, its handler missing
PopenUncaught(j) ==
    /\ \/ /\ MoveThread(j, "popen", "register")
          /\ proc' = [proc EXCEPT ![j] = "running"]
       \/ /\ MoveThread(j, "popen", "none")
          /\ UNCHANGED proc
    /\ UNCHANGED <<file, cancellable, cancel, restarts>>

\* Popen starts the subprocess, or raises.
Popen(j) ==
    /\ \/ /\ MoveThread(j, "popen", "register")
          /\ proc' = [proc EXCEPT ![j] = "running"]
       \/ /\ MoveThread(j, "popen", "except")
          /\ UNCHANGED proc
    /\ UNCHANGED <<file, cancellable, cancel, restarts>>

Register(j) ==
    /\ MoveThread(j, "register", "wait")
    /\ cancellable' = cancellable \cup {j}
    /\ UNCHANGED <<file, proc, cancel, restarts>>

\* The subprocess ends with either code, even after SIGTERM: qualification.cli
\* turns it into SystemExit(143), but one that comes at its very end is too late.
Exit(j) ==
    /\ proc[j] \in {"running", "signalled"}
    /\ \E code \in Ended : proc' = [proc EXCEPT ![j] = code]
    /\ UNCHANGED <<file, worker, cancellable, cancel, restarts>>

\* stdout is at its end and proc.wait() returns.
Waited(j) ==
    /\ proc[j] \in Ended
    /\ MoveThread(j, "wait", "decide")
    /\ UNCHANGED <<file, proc, cancellable, cancel, restarts>>

\* mutant: any exit code is a success
OutcomeIgnoringCode(status, code) ==
    IF status = "CANCELLED" THEN "CANCELLED" ELSE "SUCCESS"

\* The final status, from what the file says and the exit code.
Outcome(status, code) ==
    IF status = "CANCELLED" THEN "CANCELLED"
    ELSE IF code = "zero" THEN "SUCCESS"
    ELSE "FAILED"

\* already_cancelled = _job_read(...) == "CANCELLED"
Decide(j) ==
    /\ MoveThread(j, "decide", Outcome(file[j], proc[j]))
    /\ UNCHANGED <<file, proc, cancellable, cancel, restarts>>

\* The final _job_update, with the status decided above.
WriteOutcome(j) ==
    /\ worker[j] \in FinalStatuses
    /\ MoveThread(j, worker[j], "pop")
    /\ Update(j, worker[j])
    /\ UNCHANGED <<proc, cancellable, cancel, restarts>>

\* except: _job_update(FAILED)
WriteException(j) ==
    /\ MoveThread(j, "except", "pop")
    /\ Update(j, "FAILED")
    /\ UNCHANGED <<proc, cancellable, cancel, restarts>>

\* finally: the entry is dropped and the thread ends.
Pop(j) ==
    /\ MoveThread(j, "pop", "none")
    /\ cancellable' = cancellable \ {j}
    /\ UNCHANGED <<file, proc, cancel, restarts>>

----------------------------------------------------------------------------
\* POST /jobs/<id>/cancel: 409 unless the job is in the table.
CancelLook(r, j) ==
    /\ cancel[r].pc = "idle"
    /\ j \in cancellable
    /\ cancel' = [cancel EXCEPT ![r] = [pc |-> "terminate", job |-> j]]
    /\ UNCHANGED <<file, worker, proc, cancellable, restarts>>

\* mutant: the cancel does not signal the subprocess
CancelOnPaper(r) ==
    /\ cancel[r].pc = "terminate"
    /\ cancel' = [cancel EXCEPT ![r].pc = "write"]
    /\ UNCHANGED <<file, worker, proc, cancellable, restarts>>

\* proc.terminate() does nothing to a process that ended.
CancelTerminate(r) ==
    LET j == cancel[r].job IN
    /\ cancel[r].pc = "terminate"
    /\ proc' = [proc EXCEPT ![j] = IF @ = "running" THEN "signalled" ELSE @]
    /\ cancel' = [cancel EXCEPT ![r].pc = "write"]
    /\ UNCHANGED <<file, worker, cancellable, restarts>>

CancelWrite(r) ==
    /\ cancel[r].pc = "write"
    /\ Update(cancel[r].job, "CANCELLED")
    /\ cancel' = [cancel EXCEPT ![r] = NoCancel]
    /\ UNCHANGED <<worker, proc, cancellable, restarts>>

\* The QA Center stops and starts again.  Files stay, and a subprocess may
\* outlive it or end with it (Exit); nothing reads the files of earlier jobs.
Restart ==
    /\ restarts < MaxRestarts
    /\ restarts' = restarts + 1
    /\ worker' = [j \in Jobs |-> "none"]
    /\ cancellable' = {}
    /\ cancel' = [r \in Requests |-> NoCancel]
    /\ UNCHANGED <<file, proc>>

----------------------------------------------------------------------------
JobWork(j) ==
    \/ JobRunning(j)
    \/ Popen(j)
    \/ Register(j)
    \/ Waited(j)
    \/ Decide(j)
    \/ WriteOutcome(j)
    \/ WriteException(j)
    \/ Pop(j)

Cancelling(r) == CancelTerminate(r) \/ CancelWrite(r)

JobsNext ==
    \/ \E j \in Jobs : StartJob(j) \/ JobWork(j) \/ Exit(j)
    \/ \E r \in Requests :
        \/ \E j \in Jobs : CancelLook(r, j)
        \/ Cancelling(r)
    \/ Restart

JobsSpec == JobsInit /\ [][JobsNext]_jobsVars

\* The threads run and a request once begun is answered.  A subprocess need not end:
\* a continuous long simulation has no limit, and some docker commands no timeout.
\* Nobody has to start a job, cancel one or restart.
FairJobsSpec ==
    /\ JobsSpec
    /\ \A j \in Jobs : WF_jobsVars(JobWork(j))
    /\ \A r \in Requests : WF_jobsVars(Cancelling(r))

----------------------------------------------------------------------------
\* SUCCESS is said only of a job whose subprocess ended with exit code zero,
\* however cancels, the thread's read of the file and its write interleave.
SuccessWasEarned == \A j \in Jobs : file[j] = "SUCCESS" => proc[j] = "zero"

\* Before a cancel is said to be done the subprocess was signalled or had
\* ended: no job is CANCELLED while its suite goes on untouched.
CancelledWasStopped ==
    \A j \in Jobs : file[j] = "CANCELLED" => proc[j] \in {"signalled"} \cup Ended

\* Only a job with a thread can be cancelled: at the end of the thread, however
\* it ended, the job left the table.
TableHasThreads ==
    \A j \in cancellable : worker[j] \in {"wait", "decide", "pop"} \cup FinalStatuses

\* A job launched comes to an end in its file and its thread ends, whatever is
\* cancelled and whatever raises: it does not stop short of its subprocess, and not
\* after that has ended either, unless the QA Center is restarted.
JobsEnd ==
    \A j \in Jobs :
        LET over == (file[j] \in FinalStatuses /\ worker[j] = "none") \/ restarts > 0
        IN  /\ file[j] = "QUEUED" ~> over \/ proc[j] # "none"
            /\ worker[j] # "none" /\ proc[j] \in Ended ~> over

=============================================================================
