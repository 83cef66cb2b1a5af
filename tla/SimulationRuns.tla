--------------------------- MODULE SimulationRuns ---------------------------
(***************************************************************************)
(* The orchestrator of a factory simulation: engine/simulation's           *)
(* RunManager, SimulationRun and Scheduler, and the two programs that use  *)
(* them.  In the QA Center the /api/simulation endpoints start and stop    *)
(* simulations of the one process-wide manager; in a qualification process *)
(* LongSimulationRunner or LoadSoakRunner, with a manager of its own,      *)
(* starts one, polls it and gives a verdict.  Each                         *)
(* simulation has a loop thread.  The manager's lock is held through the   *)
(* whole of start and of stop, but the loop never takes it: the statements *)
(* of stop and those of the loop interleave.  What an actor does is in     *)
(* SimulatedEmployees; here an action of an actor may start a session.     *)
(***************************************************************************)
EXTENDS Integers, FiniteSets

CONSTANTS
    Sims,           \* the simulations, numbered as they are started
    MaxSessions,    \* MAX_SESSIONS_PER_RUN
    MaxBatch,       \* pop_due's max_batch
    MaxRestarts,    \* bound: how often the program that hosts the manager ends
    NoSim           \* not a simulation

ASSUME SimulationAssumption ==
    MaxSessions \in Nat /\ MaxBatch \in Nat \ {0} /\ MaxRestarts \in Nat
    /\ Sims \subseteq Nat /\ NoSim \notin Sims

VARIABLES
    status,     \* simulation -> SimulationRun.status
    flag,       \* the simulations whose _stop_flag is set
    row,        \* simulation -> status of its row in sim_runs
    loop,       \* simulation -> where its loop thread is
    batch,      \* simulation -> the due actors still to act in this batch
    sessions,   \* simulation -> metrics.sessions_started
    elapsed,    \* the simulations whose planned end is past
    manager,    \* the start or stop in progress, that holds the lock
    active,     \* RunManager._active
    asked,      \* the simulations someone asked to stop (history)
    suite,      \* where the suite's runner is, "none" in the QA Center
    patience,   \* what LongSimulationRunner does at its deadline, "wait" for a
                \* CONTINUOUS simulation, or "soak" for LoadSoakRunner
    restarts    \* counts the restarts (bound)

vars == <<status, flag, row, loop, batch, sessions, elapsed, manager,
          active, asked, suite, patience, restarts>>

Final    == {"COMPLETED", "STOPPED_SAFETY", "STOPPED"}
Statuses == Final \cup {"none", "RUNNING", "lost"}
InLoop   == {"check", "due", "act", "tick"}
Alive    == InLoop \cup {"over", "full"}
Verdicts == {"PASSED", "FAILED"}
Patience == {"fail", "stop", "wait", "soak"}

Free == [op |-> "free", sim |-> NoSim]

TypeOK ==
    /\ status \in [Sims -> Statuses]
    /\ flag \subseteq Sims
    /\ row \in [Sims -> Statuses]
    /\ loop \in [Sims -> Alive \cup {"none", "done", "crashed"}]
    /\ batch \in [Sims -> 0..MaxBatch]
    /\ sessions \in [Sims -> 0..MaxSessions + MaxBatch - 1]
    /\ elapsed \subseteq Sims
    /\ manager \in {Free} \cup [op: {"factory", "persist", "thread", "activate", "mark", "flag"}, sim: Sims]
    /\ active \in Sims \cup {NoSim}
    /\ asked \subseteq Sims
    /\ suite \in Verdicts \cup {"none", "start", "starting", "poll", "stopping", "integrity"}
    /\ patience \in Patience
    /\ restarts \in 0..MaxRestarts

Init ==
    /\ status = [s \in Sims |-> "none"]
    /\ flag = {}
    /\ row = [s \in Sims |-> "none"]
    /\ loop = [s \in Sims |-> "none"]
    /\ batch = [s \in Sims |-> 0]
    /\ sessions = [s \in Sims |-> 0]
    /\ elapsed = {}
    /\ manager = Free
    /\ active = NoSim
    /\ asked = {}
    /\ suite \in {"none", "start"}
    /\ patience \in Patience
    /\ suite = "none" => patience \in {"fail", "wait"}
    /\ restarts = 0

-----------------------------------------------------------------------------
(* RunManager.start, with the lock held from here to StartActivate.        *)

\* mutant: start looks at nothing
RunningNever(s) == FALSE

Running(s) == s # NoSim /\ status[s] = "RUNNING"

\* Refused while the active simulation is RUNNING.
Start(s) ==
    /\ manager = Free
    /\ ~Running(active)
    /\ status[s] = "none"
    /\ \A t \in Sims : t < s => status[t] # "none"
    /\ status' = [status EXCEPT ![s] = "RUNNING"]
    /\ manager' = [op |-> "factory", sim |-> s]

Op(op, s) == manager.op = op /\ manager.sim = s

\* SimulationRun.bootstrap logs in and creates the factory through the API.
StartFactory(s) ==
    /\ Op("factory", s)
    /\ manager' = [manager EXCEPT !.op = "persist"]
    /\ UNCHANGED <<status, flag, row, loop, batch, sessions, elapsed, active, asked, suite, patience, restarts>>

\* Its actors are scheduled, its row is inserted.
StartPersist(s) ==
    /\ Op("persist", s)
    /\ row' = [row EXCEPT ![s] = status[s]]
    /\ manager' = [manager EXCEPT !.op = "thread"]
    /\ UNCHANGED <<status, flag, loop, batch, sessions, elapsed, active, asked, suite, patience, restarts>>

\* Any call of the bootstrap may raise, after some of the factory exists and
\* stays in the product: no thread, no row, and the previous simulation stays the active one.
StartRaises(s) ==
    /\ Op("factory", s) \/ Op("persist", s)
    /\ status' = [status EXCEPT ![s] = "lost"]
    /\ manager' = Free
    /\ suite' = IF suite = "starting" THEN "FAILED" ELSE suite
    /\ UNCHANGED <<flag, row, loop, batch, sessions, elapsed, active, asked, patience, restarts>>

StartThread(s) ==
    /\ Op("thread", s)
    /\ loop' = [loop EXCEPT ![s] = "check"]
    /\ manager' = [manager EXCEPT !.op = "activate"]
    /\ UNCHANGED <<status, flag, row, batch, sessions, elapsed, active, asked, suite, patience, restarts>>

StartActivate(s) ==
    /\ Op("activate", s)
    /\ active' = s
    /\ manager' = Free
    /\ suite' = IF suite = "starting" THEN "poll" ELSE suite
    /\ UNCHANGED <<status, flag, row, loop, batch, sessions, elapsed, asked, patience, restarts>>

-----------------------------------------------------------------------------
(* RunManager.stop, with the lock held: status and reason, then the flag.   *)
(* It asks nothing of the simulation's status.                              *)

Stop(s) ==
    /\ manager = Free
    /\ active = s
    /\ asked' = asked \cup {s}
    /\ manager' = [op |-> "mark", sim |-> s]

StopMark(s) ==
    /\ Op("mark", s)
    /\ status' = [status EXCEPT ![s] = "STOPPED"]
    /\ manager' = [manager EXCEPT !.op = "flag"]
    /\ UNCHANGED <<flag, row, loop, batch, sessions, elapsed, active, asked, suite, patience, restarts>>

StopFlag(s) ==
    /\ Op("flag", s)
    /\ flag' = flag \cup {s}
    /\ manager' = Free
    /\ suite' = IF suite = "stopping" THEN "integrity" ELSE suite
    /\ UNCHANGED <<status, row, loop, batch, sessions, elapsed, active, asked, patience, restarts>>

-----------------------------------------------------------------------------
(* run_until_empty_or_stopped in the loop thread of a simulation.  No actor *)
(* ever retires and there is always a kiosk: the schedule is never empty.   *)

LoopAt(s, at) == loop[s] = at
LoopTo(s, at) == loop' = [loop EXCEPT ![s] = at]

CapReached(s) == sessions[s] >= MaxSessions
PlanElapsed(s) == s \in elapsed

\* mutant: the loop only looks at the flag when it has slept
FlaggedUnseen(s) == s \in flag /\ batch[s] > 0

\* _should_stop looks at the flag, at the cap, at the planned end, in this
\* order, and the last two write the status.
Flagged(s) == s \in flag

ShouldStop(s) ==
    /\ LoopAt(s, "check")
    /\ \/ /\ Flagged(s)
          /\ UNCHANGED status
       \/ /\ ~Flagged(s)
          /\ CapReached(s)
          /\ status' = [status EXCEPT ![s] = "STOPPED_SAFETY"]
       \/ /\ ~Flagged(s)
          /\ ~CapReached(s)
          /\ PlanElapsed(s)
          /\ status' = [status EXCEPT ![s] = "COMPLETED"]
    /\ LoopTo(s, "over")
    /\ UNCHANGED <<flag, row, batch, sessions, elapsed, manager, active, asked, suite, patience, restarts>>

GoesOn(s) ==
    /\ LoopAt(s, "check")
    /\ ~Flagged(s) /\ ~CapReached(s) /\ ~PlanElapsed(s)
    /\ LoopTo(s, "due")
    /\ UNCHANGED <<status, flag, row, batch, sessions, elapsed, manager, active, asked, suite, patience, restarts>>

\* pop_due takes the due actors, MaxBatch of them at most; with none due the
\* loop sleeps five seconds at most.
PopDue(s) ==
    /\ LoopAt(s, "due")
    /\ \E n \in 0..MaxBatch :
          /\ batch' = [batch EXCEPT ![s] = n]
          /\ LoopTo(s, IF n = 0 THEN "tick" ELSE "act")
    /\ UNCHANGED <<status, flag, row, sessions, elapsed, manager, active, asked, suite, patience, restarts>>

\* _act_one catches whatever the actor raises, _record_result counts what it
\* did, and the actor is scheduled again; nobody looks at the flag meanwhile.
Act(s) ==
    /\ LoopAt(s, "act")
    /\ batch' = [batch EXCEPT ![s] = @ - 1]
    /\ \E started \in {0, 1} : sessions' = [sessions EXCEPT ![s] = @ + started]
    /\ LoopTo(s, IF batch[s] = 1 THEN "tick" ELSE "act")
    /\ UNCHANGED <<status, flag, row, elapsed, manager, active, asked, suite, patience, restarts>>

Checkpoint(s) == row' = [row EXCEPT ![s] = status[s]]

\* _tick_hook writes a checkpoint every five minutes.
TickHook(s) ==
    /\ LoopAt(s, "tick")
    /\ Checkpoint(s) \/ UNCHANGED row
    /\ LoopTo(s, "check")
    /\ UNCHANGED <<status, flag, batch, sessions, elapsed, manager, active, asked, suite, patience, restarts>>

\* mutant: run_loop takes any end of the loop for the planned one
LoopOverCompleted(s) ==
    /\ LoopAt(s, "over")
    /\ status' = [status EXCEPT ![s] = "COMPLETED"]
    /\ LoopTo(s, "full")
    /\ UNCHANGED <<flag, row, batch, sessions, elapsed, manager, active, asked, suite, patience, restarts>>

\* run_loop after the loop: a status still RUNNING becomes STOPPED ...
LoopOver(s) ==
    /\ LoopAt(s, "over")
    /\ status' = [status EXCEPT ![s] = IF @ = "RUNNING" THEN "STOPPED" ELSE @]
    /\ LoopTo(s, "full")
    /\ UNCHANGED <<flag, row, batch, sessions, elapsed, manager, active, asked, suite, patience, restarts>>

\* ... and the last checkpoint is written.
LoopEnds(s) ==
    /\ LoopAt(s, "full")
    /\ Checkpoint(s)
    /\ LoopTo(s, "done")
    /\ UNCHANGED <<status, flag, batch, sessions, elapsed, manager, active, asked, suite, patience, restarts>>

\* An exception of a checkpoint is caught by no one: the thread is gone.
CheckpointRaises(s) ==
    /\ loop[s] \in {"tick", "full"}
    /\ LoopTo(s, "crashed")
    /\ UNCHANGED <<status, flag, row, batch, sessions, elapsed, manager, active, asked, suite, patience, restarts>>

\* SimClock.now passes planned_end_sim_at; a CONTINUOUS simulation has none.
PlannedEnd(s) ==
    /\ loop[s] \in Alive
    /\ patience # "wait"
    /\ s \notin elapsed
    /\ elapsed' = elapsed \cup {s}
    /\ UNCHANGED <<status, flag, row, loop, batch, sessions, manager, active, asked, suite, patience, restarts>>

-----------------------------------------------------------------------------
(* The QA Center: POST /api/simulation/start and /stop.                     *)

CenterStart(s) ==
    /\ suite = "none"
    /\ Start(s)
    /\ UNCHANGED <<flag, row, loop, batch, sessions, elapsed, active, asked, suite, patience, restarts>>

CenterStop(s) ==
    /\ suite = "none"
    /\ Stop(s)
    /\ UNCHANGED <<status, flag, row, loop, batch, sessions, elapsed, active, suite, patience, restarts>>

(* LongSimulationRunner.run and LoadSoakRunner.run                          *)

SuiteStart(s) ==
    /\ suite = "start"
    /\ suite' = "starting"
    /\ Start(s)
    /\ UNCHANGED <<flag, row, loop, batch, sessions, elapsed, active, asked, patience, restarts>>

\* status() finds the simulation not RUNNING any more.
SuiteSeesEnd ==
    /\ suite = "poll"
    /\ patience # "soak"
    /\ manager = Free
    /\ ~Running(active)
    /\ suite' = "integrity"
    /\ UNCHANGED <<status, flag, row, loop, batch, sessions, elapsed, manager, active, asked, patience, restarts>>

\* mutant: the runner takes its deadline for an end
SuiteTimeoutPasses ==
    /\ suite = "poll"
    /\ manager = Free
    /\ suite' = "integrity"
    /\ UNCHANGED <<status, flag, row, loop, batch, sessions, elapsed, manager, active, asked, patience, restarts>>

\* The deadline passes first: a CONTINUOUS or bounded simulation is stopped, any
\* other one fails the suite and runs on.  "wait": CONTINUOUS in real time has
\* no deadline.
SuiteTimeout ==
    /\ suite = "poll"
    /\ Running(active)
    /\ \/ /\ patience = "stop"
          /\ suite' = "stopping"
          /\ Stop(active)
       \/ /\ patience = "fail"
          /\ manager = Free
          /\ suite' = "FAILED"
          /\ UNCHANGED <<asked, manager>>
    /\ UNCHANGED <<status, flag, row, loop, batch, sessions, elapsed, active, patience, restarts>>

\* A sample or a progress UPDATE raises: nothing stops the simulation.
PollRaises ==
    /\ suite = "poll"
    /\ suite' = "FAILED"
    /\ UNCHANGED <<status, flag, row, loop, batch, sessions, elapsed, manager, active, asked, patience, restarts>>

\* The window of the soak is over, or the simulation has stopped by itself: it is
\* stopped in any case, a COMPLETED one too, since stop() refuses nothing.
SoakStops ==
    /\ suite = "poll"
    /\ patience = "soak"
    /\ suite' = "stopping"
    /\ Stop(active)
    /\ UNCHANGED <<status, flag, row, loop, batch, sessions, elapsed, active, patience, restarts>>

\* assert_ok of the database decides, whatever the loop still does.
SuiteIntegrity ==
    /\ suite = "integrity"
    /\ patience # "soak"
    /\ suite' \in Verdicts
    /\ UNCHANGED <<status, flag, row, loop, batch, sessions, elapsed, manager, active, asked, patience, restarts>>

\* So it does of a soak, where a check that raises is a violation, and errors or
\* the absence of any event (metrics, data here) fail it as well.
SoakIntegrity ==
    /\ suite = "integrity"
    /\ patience = "soak"
    /\ suite' \in Verdicts
    /\ UNCHANGED <<status, flag, row, loop, batch, sessions, elapsed, manager, active, asked, patience, restarts>>

\* The process ends, with its manager and its threads; rows and factories stay.
Restart ==
    /\ suite = "none"
    /\ restarts < MaxRestarts
    /\ restarts' = restarts + 1
    /\ status' = [s \in Sims |-> IF status[s] = "none" THEN "none" ELSE "lost"]
    /\ loop' = [s \in Sims |-> IF loop[s] \in Alive THEN "crashed" ELSE loop[s]]
    /\ manager' = Free
    /\ active' = NoSim
    /\ UNCHANGED <<flag, row, batch, sessions, elapsed, asked, suite, patience>>

-----------------------------------------------------------------------------

StartSteps(s) ==
    StartFactory(s) \/ StartPersist(s) \/ StartRaises(s) \/ StartThread(s) \/ StartActivate(s)

StopSteps(s) == StopMark(s) \/ StopFlag(s)

LoopSteps(s) ==
    ShouldStop(s) \/ GoesOn(s) \/ PopDue(s) \/ Act(s) \/ TickHook(s) \/ LoopOver(s) \/ LoopEnds(s)

SuiteSteps ==
    \/ \E s \in Sims : SuiteStart(s)
    \/ SuiteSeesEnd \/ SuiteTimeout \/ SuiteIntegrity
    \/ SoakStops \/ SoakIntegrity

Next ==
    \/ \E s \in Sims : StartSteps(s) \/ StopSteps(s) \/ LoopSteps(s)
    \/ \E s \in Sims : CheckpointRaises(s) \/ PlannedEnd(s) \/ CenterStart(s) \/ CenterStop(s)
    \/ SuiteSteps \/ PollRaises
    \/ Restart

\* A loop thread, the call that holds the lock and the runner, whose deadline
\* is a wall-clock time, go on; users, exceptions and the end of the plan
\* owe nothing.
Fairness ==
    /\ \A s \in Sims : WF_vars(LoopSteps(s)) /\ WF_vars(StartSteps(s)) /\ WF_vars(StopSteps(s))
    /\ WF_vars(SuiteSteps)

Spec == Init /\ [][Next]_vars /\ Fairness

-----------------------------------------------------------------------------
(* Properties                                                              *)

\* What a simulation's status says, in memory or in sim_runs, happened: it is
\* COMPLETED only past its planned end, STOPPED_SAFETY only at the cap, STOPPED
\* only when asked; and an ended loop left no RUNNING row.  (_should_stop, stop
\* and run_loop write the status without a lock.)
EarnedBy(s) ==
    [COMPLETED |-> PlanElapsed(s), STOPPED_SAFETY |-> CapReached(s), STOPPED |-> s \in asked]

EndWasEarned ==
    \A s \in Sims :
        /\ status[s] \in Final => EarnedBy(s)[status[s]]
        /\ row[s] \in Final => EarnedBy(s)[row[s]]
        /\ loop[s] = "done" => row[s] \in Final

\* "Only ONE simulation run is active at a time" (run_manager.py:4): of two
\* loops that have not ended one has its flag set, so it begins no other batch.
OneBegins ==
    \A s, t \in Sims :
        s # t /\ loop[s] \in InLoop /\ loop[t] \in InLoop => s \in flag \/ t \in flag

\* The suite passes only a simulation that came to its planned end, to the cap
\* or to the runner's own stop, never one that merely ran into the deadline or
\* that another simulation replaced.
PassedWasSimulated ==
    suite = "PASSED" =>
        /\ status[active] \in Final
        /\ \/ PlanElapsed(active) \/ CapReached(active)
           \/ patience \in {"stop", "soak"} /\ active \in flag

\* What should_stop asks for.
Told(s) == Flagged(s) \/ CapReached(s) \/ PlanElapsed(s)

\* A loop told to end, by its flag, the cap or the plan, does end; and the suite
\* comes to a verdict unless it waits for a CONTINUOUS simulation in real time.
SimulationEnds ==
    /\ \A s \in Sims : loop[s] \in Alive /\ Told(s) ~> loop[s] \notin Alive
    /\ suite = "start" /\ patience # "wait" ~> suite \in Verdicts

=============================================================================
