------------------------ MODULE SimulationRunsProofs ------------------------
(***************************************************************************)
(* Proofs about the factory simulation: first of SimulationRuns, the       *)
(* orchestrator, for any number of simulations, any cap, batch and number  *)
(* of restarts; then of SimulatedEmployees, the actors of one simulation,  *)
(* for any finite number of employees, any day, bounds and faults.         *)
(***************************************************************************)
EXTENDS SimulationRuns, SimulatedEmployees, FiniteSetTheorems, TLAPS

Starting == {"factory", "persist", "thread", "activate"}
Stopping == {"mark", "flag"}

\* What whoever holds the manager's lock may rely on: a start found no RUNNING
\* simulation, and there is none but its own until it gives the lock back.
LockInv ==
    /\ manager.op \in Starting =>
          ~Running(active) /\ status[manager.sim] \notin {"none", "lost"}
    /\ manager.op \in {"factory", "persist", "thread"} =>
          status[manager.sim] = "RUNNING" /\ loop[manager.sim] = "none"
    /\ manager.op \in Stopping => manager.sim \in asked
    /\ manager.op = "flag" => status[manager.sim] \in Final
    /\ active # NoSim => status[active] # "none"

\* A loop that goes on is that of the active simulation, or of the one being
\* started, and no one has marked it yet.
GoesOnInv ==
    \A s \in Sims : loop[s] \in InLoop /\ s \notin flag =>
        /\ status[s] = "RUNNING" \/ Op("flag", s)
        /\ active = s \/ Op("activate", s)

\* What the place of a loop says about its simulation.
LoopInv ==
    \A s \in Sims :
        /\ status[s] = "none" => loop[s] = "none"
        /\ loop[s] \in Alive => status[s] \in Final \cup {"RUNNING"}
        /\ loop[s] = "over" /\ status[s] = "RUNNING" => s \in asked
        /\ loop[s] = "full" => status[s] \in Final
        /\ s \in flag => s \in asked
        /\ loop[s] = "due" => sessions[s] < MaxSessions
        /\ loop[s] = "act" => batch[s] > 0 /\ sessions[s] + batch[s] < MaxSessions + MaxBatch

\* A suite holds the lock while it starts or stops and at no other time, and
\* goes by what it has started.
SuiteInv ==
    /\ suite \in {"start", "poll", "integrity", "PASSED", "FAILED"} => manager = Free
    /\ suite = "starting" => manager.op \in Starting
    /\ suite = "stopping" =>
          manager.op \in Stopping /\ manager.sim = active /\ patience \in {"stop", "soak"}
    /\ suite \in {"start", "starting", "poll"} => asked = {}
    /\ suite \in {"poll", "stopping", "integrity", "PASSED"} =>
          active \in Sims /\ status[active] # "lost"
    /\ suite \in {"integrity", "PASSED"} =>
          /\ status[active] \in Final
          /\ \/ PlanElapsed(active) \/ CapReached(active)
             \/ patience \in {"stop", "soak"} /\ active \in flag

\* EndWasEarned, one status at a time.
Earned(st, s) ==
    /\ st = "COMPLETED" => PlanElapsed(s)
    /\ st = "STOPPED_SAFETY" => CapReached(s)
    /\ st = "STOPPED" => s \in asked

EarnedInv ==
    \A s \in Sims :
        /\ Earned(status[s], s)
        /\ Earned(row[s], s)
        /\ loop[s] = "done" => row[s] \in Final

IInv == TypeOK /\ LockInv /\ GoesOnInv /\ LoopInv /\ EarnedInv /\ SuiteInv

-----------------------------------------------------------------------------

\* The record EarnedBy, read one status at a time.
LEMMA EarnedMeans == EndWasEarned <=> EarnedInv
<1> SUFFICES ASSUME NEW s \in Sims, NEW st
             PROVE  (st \in Final => EarnedBy(s)[st]) <=> Earned(st, s)
  BY DEF EndWasEarned, EarnedInv
<1>1. CASE st \notin Final
  BY <1>1 DEF Final, Earned
<1>2. CASE st = "COMPLETED"
  BY <1>2 DEF Final, Earned, EarnedBy
<1>3. CASE st = "STOPPED_SAFETY"
  BY <1>3 DEF Final, Earned, EarnedBy
<1>4. CASE st = "STOPPED"
  BY <1>4 DEF Final, Earned, EarnedBy
<1> QED
  BY <1>1, <1>2, <1>3, <1>4 DEF Final

USE SimulationAssumption

\* The empty manager satisfies everything.
LEMMA Begins == Init => IInv
  BY DEF Init, IInv, TypeOK, LockInv, GoesOnInv, LoopInv, EarnedInv, Earned,
         SuiteInv, Running, Op, Final, Statuses, InLoop, Alive, Verdicts,
         Patience, Free, Starting, Stopping

\* Every statement of the manager, of a loop and of a suite keeps IInv.
LEMMA StepKeeps == IInv /\ [Next]_vars => IInv'
<1> SUFFICES ASSUME IInv, [Next]_vars PROVE IInv'
  OBVIOUS
<1> USE DEF TypeOK, Final, Statuses, InLoop, Alive, Verdicts, Patience, Free,
            Starting, Stopping, Op, Running, Earned, PlanElapsed, CapReached, Flagged
<1>1. ASSUME NEW s \in Sims, StartFactory(s) PROVE IInv'
  BY <1>1 DEF StartFactory, IInv, LockInv, GoesOnInv, LoopInv, EarnedInv,
         SuiteInv
<1>2. ASSUME NEW s \in Sims, StartPersist(s) PROVE IInv'
  BY <1>2 DEF StartPersist, IInv, LockInv, GoesOnInv, LoopInv, EarnedInv,
         SuiteInv
<1>3. ASSUME NEW s \in Sims, StartRaises(s) PROVE IInv'
  BY <1>3 DEF StartRaises, IInv, LockInv, GoesOnInv, LoopInv, EarnedInv,
         SuiteInv
<1>4. ASSUME NEW s \in Sims, StartThread(s) PROVE IInv'
  <2>1. TypeOK'
    BY <1>4 DEF IInv, StartThread, LockInv, LoopInv, SuiteInv
  <2>2. LockInv'
    BY <1>4 DEF IInv, StartThread, LockInv, LoopInv, SuiteInv
  <2>3. GoesOnInv'
    BY <1>4 DEF IInv, StartThread, LockInv, GoesOnInv, LoopInv, SuiteInv
  <2>4. LoopInv'
    BY <1>4 DEF IInv, StartThread, LockInv, LoopInv, SuiteInv
  <2>5. EarnedInv'
    BY <1>4 DEF IInv, StartThread, LockInv, LoopInv, SuiteInv, EarnedInv
  <2>6. SuiteInv'
    BY <1>4 DEF IInv, StartThread, LockInv, LoopInv, SuiteInv, EarnedInv
  <2> QED
    BY <2>1, <2>2, <2>3, <2>4, <2>5, <2>6 DEF IInv
<1>5. ASSUME NEW s \in Sims, StartActivate(s) PROVE IInv'
  BY <1>5 DEF StartActivate, IInv, LockInv, GoesOnInv, LoopInv, EarnedInv,
         SuiteInv
<1>6. ASSUME NEW s \in Sims, StopMark(s) PROVE IInv'
  <2>1. TypeOK'
    BY <1>6 DEF IInv, StopMark, LockInv, LoopInv, SuiteInv
  <2>2. LockInv'
    BY <1>6 DEF IInv, StopMark, LockInv, LoopInv, SuiteInv
  <2>3. GoesOnInv'
    BY <1>6 DEF IInv, StopMark, LockInv, GoesOnInv, LoopInv, SuiteInv
  <2>4. LoopInv'
    BY <1>6 DEF IInv, StopMark, LockInv, LoopInv, SuiteInv
  <2>5. EarnedInv'
    BY <1>6 DEF IInv, StopMark, LockInv, LoopInv, SuiteInv, EarnedInv
  <2>6. SuiteInv'
    BY <1>6 DEF IInv, StopMark, LockInv, LoopInv, SuiteInv, EarnedInv
  <2> QED
    BY <2>1, <2>2, <2>3, <2>4, <2>5, <2>6 DEF IInv
<1>7. ASSUME NEW s \in Sims, StopFlag(s) PROVE IInv'
  BY <1>7 DEF StopFlag, IInv, LockInv, GoesOnInv, LoopInv, EarnedInv,
         SuiteInv
<1>8. ASSUME NEW s \in Sims, ShouldStop(s) PROVE IInv'
  <2>1. TypeOK'
    BY <1>8 DEF IInv, ShouldStop, LoopAt, LoopTo, LockInv, LoopInv, SuiteInv
  <2>2. LockInv'
    <3>1. \A t \in Sims : status'[t] = status[t] \/ (t = s /\ status'[t] \in Final)
      BY <1>8 DEF IInv, ShouldStop
    <3>2. UNCHANGED <<manager, active, asked>> /\ loop[s] = "check"
          /\ loop' = [loop EXCEPT ![s] = "over"]
      BY <1>8 DEF ShouldStop, LoopAt, LoopTo
    <3>3. status[s] \in Final \cup {"RUNNING"}
      BY <3>2 DEF IInv, LoopInv
    <3>4. manager.op \in Starting \cup Stopping => manager.sim \in Sims
      BY DEF IInv
    <3> QED
      BY <3>1, <3>2, <3>3, <3>4 DEF IInv, LockInv
  <2>3. GoesOnInv'
    BY <1>8 DEF IInv, ShouldStop, LoopAt, LoopTo, LockInv, GoesOnInv,
           LoopInv, SuiteInv
  <2>4. LoopInv'
    BY <1>8 DEF IInv, ShouldStop, LoopAt, LoopTo, LockInv, LoopInv, SuiteInv
  <2>5. EarnedInv'
    BY <1>8 DEF IInv, ShouldStop, LoopAt, LoopTo, LockInv, LoopInv,
           SuiteInv, EarnedInv
  <2>6. SuiteInv'
    BY <1>8 DEF IInv, ShouldStop, LoopAt, LoopTo, LockInv, LoopInv,
           SuiteInv, EarnedInv
  <2> QED
    BY <2>1, <2>2, <2>3, <2>4, <2>5, <2>6 DEF IInv
<1>9. ASSUME NEW s \in Sims, GoesOn(s) PROVE IInv'
  BY <1>9 DEF GoesOn, LoopAt, LoopTo, IInv, LockInv, GoesOnInv, LoopInv,
         EarnedInv, SuiteInv
<1>10. ASSUME NEW s \in Sims, PopDue(s) PROVE IInv'
  BY <1>10 DEF PopDue, LoopAt, LoopTo, IInv, LockInv, GoesOnInv, LoopInv,
         EarnedInv, SuiteInv
<1>11. ASSUME NEW s \in Sims, Act(s) PROVE IInv'
  <2>1. TypeOK'
    BY <1>11 DEF IInv, Act, LoopAt, LoopTo, LockInv, LoopInv, SuiteInv
  <2>2. LockInv'
    BY <1>11 DEF IInv, Act, LoopAt, LoopTo, LockInv, LoopInv, SuiteInv
  <2>3. GoesOnInv'
    BY <1>11 DEF IInv, Act, LoopAt, LoopTo, LockInv, GoesOnInv, LoopInv,
           SuiteInv
  <2>4. LoopInv'
    BY <1>11 DEF IInv, Act, LoopAt, LoopTo, LockInv, LoopInv, SuiteInv
  <2>5. EarnedInv'
    BY <1>11 DEF IInv, Act, LoopAt, LoopTo, LockInv, LoopInv, SuiteInv,
           EarnedInv
  <2>6. SuiteInv'
    BY <1>11 DEF IInv, Act, LoopAt, LoopTo, LockInv, LoopInv, SuiteInv,
           EarnedInv
  <2> QED
    BY <2>1, <2>2, <2>3, <2>4, <2>5, <2>6 DEF IInv
<1>12. ASSUME NEW s \in Sims, TickHook(s) PROVE IInv'
  BY <1>12 DEF TickHook, LoopAt, LoopTo, Checkpoint, IInv, LockInv,
         GoesOnInv, LoopInv, EarnedInv, SuiteInv
<1>13. ASSUME NEW s \in Sims, LoopOver(s) PROVE IInv'
  <2>1. TypeOK'
    BY <1>13 DEF IInv, LoopOver, LoopAt, LoopTo, LockInv, LoopInv, SuiteInv
  <2>2. LockInv'
    BY <1>13 DEF IInv, LoopOver, LoopAt, LoopTo, LockInv, LoopInv, SuiteInv
  <2>3. GoesOnInv'
    BY <1>13 DEF IInv, LoopOver, LoopAt, LoopTo, LockInv, GoesOnInv,
           LoopInv, SuiteInv
  <2>4. LoopInv'
    BY <1>13 DEF IInv, LoopOver, LoopAt, LoopTo, LockInv, LoopInv, SuiteInv
  <2>5. EarnedInv'
    BY <1>13 DEF IInv, LoopOver, LoopAt, LoopTo, LockInv, LoopInv, SuiteInv,
           EarnedInv
  <2>6. SuiteInv'
    BY <1>13 DEF IInv, LoopOver, LoopAt, LoopTo, LockInv, LoopInv, SuiteInv,
           EarnedInv
  <2> QED
    BY <2>1, <2>2, <2>3, <2>4, <2>5, <2>6 DEF IInv
<1>14. ASSUME NEW s \in Sims, LoopEnds(s) PROVE IInv'
  BY <1>14 DEF LoopEnds, LoopAt, LoopTo, Checkpoint, IInv, LockInv,
         GoesOnInv, LoopInv, EarnedInv, SuiteInv
<1>15. ASSUME NEW s \in Sims, CheckpointRaises(s) PROVE IInv'
  BY <1>15 DEF CheckpointRaises, LoopTo, IInv, LockInv, GoesOnInv, LoopInv,
         EarnedInv, SuiteInv
<1>16. ASSUME NEW s \in Sims, PlannedEnd(s) PROVE IInv'
  <2>1. TypeOK'
    BY <1>16 DEF IInv, PlannedEnd, LockInv, LoopInv, SuiteInv
  <2>2. LockInv'
    BY <1>16 DEF IInv, PlannedEnd, LockInv, LoopInv, SuiteInv
  <2>3. GoesOnInv'
    BY <1>16 DEF IInv, PlannedEnd, LockInv, GoesOnInv, LoopInv, SuiteInv
  <2>4. LoopInv'
    BY <1>16 DEF IInv, PlannedEnd, LockInv, LoopInv, SuiteInv
  <2>5. EarnedInv'
    BY <1>16 DEF IInv, PlannedEnd, LockInv, LoopInv, SuiteInv, EarnedInv
  <2>6. SuiteInv'
    BY <1>16 DEF IInv, PlannedEnd, LockInv, LoopInv, SuiteInv, EarnedInv
  <2> QED
    BY <2>1, <2>2, <2>3, <2>4, <2>5, <2>6 DEF IInv
<1>17. ASSUME NEW s \in Sims, CenterStart(s) PROVE IInv'
  BY <1>17 DEF CenterStart, Start, IInv, LockInv, GoesOnInv, LoopInv,
         EarnedInv, SuiteInv
<1>18. ASSUME NEW s \in Sims, CenterStop(s) PROVE IInv'
  <2>1. TypeOK'
    BY <1>18 DEF IInv, CenterStop, Stop, LockInv, LoopInv, SuiteInv
  <2>2. LockInv'
    BY <1>18 DEF IInv, CenterStop, Stop, LockInv, LoopInv, SuiteInv
  <2>3. GoesOnInv'
    BY <1>18 DEF IInv, CenterStop, Stop, LockInv, GoesOnInv, LoopInv,
           SuiteInv
  <2>4. LoopInv'
    BY <1>18 DEF IInv, CenterStop, Stop, LockInv, LoopInv, SuiteInv
  <2>5. EarnedInv'
    BY <1>18 DEF IInv, CenterStop, Stop, LockInv, LoopInv, SuiteInv,
           EarnedInv
  <2>6. SuiteInv'
    BY <1>18 DEF IInv, CenterStop, Stop, LockInv, LoopInv, SuiteInv,
           EarnedInv
  <2> QED
    BY <2>1, <2>2, <2>3, <2>4, <2>5, <2>6 DEF IInv
<1>19. ASSUME NEW s \in Sims, SuiteStart(s) PROVE IInv'
  BY <1>19 DEF SuiteStart, Start, IInv, LockInv, GoesOnInv, LoopInv,
         EarnedInv, SuiteInv
<1>20. CASE SuiteSeesEnd
  <2>1. TypeOK'
    BY <1>20 DEF IInv, SuiteSeesEnd, LockInv, LoopInv, SuiteInv
  <2>2. LockInv'
    BY <1>20 DEF IInv, SuiteSeesEnd, LockInv, LoopInv, SuiteInv
  <2>3. GoesOnInv'
    BY <1>20 DEF IInv, SuiteSeesEnd, LockInv, GoesOnInv, LoopInv, SuiteInv
  <2>4. LoopInv'
    BY <1>20 DEF IInv, SuiteSeesEnd, LockInv, LoopInv, SuiteInv
  <2>5. EarnedInv'
    BY <1>20 DEF IInv, SuiteSeesEnd, LockInv, LoopInv, SuiteInv, EarnedInv
  <2>6. SuiteInv'
    BY <1>20 DEF IInv, SuiteSeesEnd, LockInv, LoopInv, SuiteInv, EarnedInv
  <2> QED
    BY <2>1, <2>2, <2>3, <2>4, <2>5, <2>6 DEF IInv
<1>21. CASE SuiteTimeout
  <2>1. TypeOK'
    <3>1. active \in Sims
      BY <1>21 DEF IInv, SuiteTimeout, SuiteInv
    <3>2. CASE Stop(active) /\ suite' = "stopping"
      BY <1>21, <3>1, <3>2 DEF IInv, SuiteTimeout, Stop
    <3>3. CASE suite' = "FAILED" /\ UNCHANGED <<asked, manager>>
      BY <1>21, <3>3 DEF IInv, SuiteTimeout
    <3> QED
      BY <1>21, <3>2, <3>3 DEF SuiteTimeout
  <2>2. LockInv'
    BY <1>21 DEF IInv, SuiteTimeout, Stop, LockInv, LoopInv, SuiteInv
  <2>3. GoesOnInv'
    BY <1>21 DEF IInv, SuiteTimeout, Stop, LockInv, GoesOnInv, LoopInv,
           SuiteInv
  <2>4. LoopInv'
    BY <1>21 DEF IInv, SuiteTimeout, Stop, LockInv, LoopInv, SuiteInv
  <2>5. EarnedInv'
    BY <1>21 DEF IInv, SuiteTimeout, Stop, LockInv, LoopInv, SuiteInv,
           EarnedInv
  <2>6. SuiteInv'
    BY <1>21 DEF IInv, SuiteTimeout, Stop, LockInv, LoopInv, SuiteInv,
           EarnedInv
  <2> QED
    BY <2>1, <2>2, <2>3, <2>4, <2>5, <2>6 DEF IInv
<1>22. CASE SuiteIntegrity
  BY <1>22 DEF SuiteIntegrity, IInv, LockInv, GoesOnInv, LoopInv, EarnedInv,
         SuiteInv
<1>23. CASE SoakStops
  <2>1. TypeOK'
    BY <1>23 DEF IInv, SoakStops, Stop, LockInv, LoopInv, SuiteInv
  <2>2. LockInv'
    BY <1>23 DEF IInv, SoakStops, Stop, LockInv, LoopInv, SuiteInv
  <2>3. GoesOnInv'
    BY <1>23 DEF IInv, SoakStops, Stop, LockInv, GoesOnInv, LoopInv,
           SuiteInv
  <2>4. LoopInv'
    BY <1>23 DEF IInv, SoakStops, Stop, LockInv, LoopInv, SuiteInv
  <2>5. EarnedInv'
    BY <1>23 DEF IInv, SoakStops, Stop, LockInv, LoopInv, SuiteInv,
           EarnedInv
  <2>6. SuiteInv'
    BY <1>23 DEF IInv, SoakStops, Stop, LockInv, LoopInv, SuiteInv,
           EarnedInv
  <2> QED
    BY <2>1, <2>2, <2>3, <2>4, <2>5, <2>6 DEF IInv
<1>24. CASE SoakIntegrity
  BY <1>24 DEF SoakIntegrity, IInv, LockInv, GoesOnInv, LoopInv, EarnedInv,
         SuiteInv
<1>25. CASE PollRaises
  BY <1>25 DEF PollRaises, IInv, LockInv, GoesOnInv, LoopInv, EarnedInv,
         SuiteInv
<1>26. CASE Restart
  BY <1>26 DEF Restart, IInv, LockInv, GoesOnInv, LoopInv, EarnedInv,
         SuiteInv
<1>27. CASE UNCHANGED vars
  BY <1>27 DEF vars, IInv, LockInv, GoesOnInv, LoopInv, EarnedInv, SuiteInv
<1> QED
  BY <1>1, <1>2, <1>3, <1>4, <1>5, <1>6, <1>7, <1>8, <1>9, <1>10, <1>11,
         <1>12, <1>13, <1>14, <1>15, <1>16, <1>17, <1>18, <1>19, <1>20,
         <1>21, <1>22, <1>23, <1>24, <1>25, <1>26, <1>27 DEF Next,
         StartSteps, StopSteps, LoopSteps, SuiteSteps

\* IInv is invariant.
LEMMA Invariant == Spec => []IInv
  BY Begins, StepKeeps, PTL DEF Spec

\* Types, and that a simulation starts MaxBatch - 1 sessions more than its cap at most.
THEOREM TypeCorrect == Spec => []TypeOK
  BY Invariant, PTL DEF IInv

\* A status of memory or of sim_runs that says how a simulation ended is true.
THEOREM EndEarned == Spec => []EndWasEarned
<1>1. IInv => EndWasEarned
  BY EarnedMeans DEF IInv
<1> QED
  BY <1>1, Invariant, PTL

\* Of two loops that go on one has been told to end.
THEOREM OneSimulationBegins == Spec => []OneBegins
<1>1. IInv => OneBegins
  BY DEF IInv, LockInv, GoesOnInv, OneBegins, Op, Running, Starting, InLoop
<1> QED
  BY <1>1, Invariant, PTL

\* long-simulation and load-soak pass no simulation that did not come to its end.
THEOREM SuitePassEarned == Spec => []PassedWasSimulated
<1>1. IInv => PassedWasSimulated
  BY DEF IInv, SuiteInv, PassedWasSimulated
<1> QED
  BY <1>1, Invariant, PTL

-----------------------------------------------------------------------------
(***************************************************************************)
(* The actors of one simulation.  A step of them leaves sessions and       *)
(* metrics alone, or is one of: an employee takes over a session, opens    *)
(* one, or finishes one, and the last two with or without knowing it.      *)
(***************************************************************************)

\* The product's table of sessions as the actors' calls change it.
Session == [by: Employees, open: BOOLEAN]

LEMMA AppendFields ==
    ASSUME NEW s \in Seq(Session), NEW x \in Session
    PROVE  /\ Append(s, x) \in Seq(Session)
           /\ Len(s) \in Nat /\ Len(Append(s, x)) = Len(s) + 1
           /\ \A i \in 1..Len(s) : Append(s, x)[i] = s[i]
           /\ Append(s, x)[Len(s) + 1] = x
  OBVIOUS

LEMMA CloseFields ==
    ASSUME NEW s \in Seq(Session), NEW i \in 1..Len(s)
    PROVE  LET c == [s EXCEPT ![i].open = FALSE]
           IN  /\ c \in Seq(Session)
               /\ Len(c) = Len(s)
               /\ \A j \in 1..Len(s) : c[j].by = s[j].by
               /\ \A j \in 1..Len(s) : c[j].open <=> s[j].open /\ j # i
<1> DEFINE c == [s EXCEPT ![i].open = FALSE]
<1>1. \A j \in 1..Len(s) : s[j] \in Session
  OBVIOUS
<1>2. \A j \in 1..Len(s) : c[j] = IF j = i THEN [s[i] EXCEPT !.open = FALSE] ELSE s[j]
  OBVIOUS
<1>3. [s[i] EXCEPT !.open = FALSE] \in Session
  BY <1>1 DEF Session
<1>4. \A j \in 1..Len(s) : c[j] \in Session
  BY <1>1, <1>2, <1>3
<1>5. c \in [1..Len(s) -> Session]
  <2>1. s \in [1..Len(s) -> Session]
    OBVIOUS
  <2>2. QED
    BY <1>3, <2>1
<1>6. Len(s) \in Nat
  OBVIOUS
<1>7. c \in Seq(Session) /\ Len(c) = Len(s)
  BY <1>5, <1>6
<1>8. \A j \in 1..Len(s) : /\ c[j].by = s[j].by
                           /\ c[j].open <=> s[j].open /\ j # i
  BY <1>1, <1>2 DEF Session
<1> QED
  BY <1>7, <1>8

\* An employee holds a session of the table, and an open session is the newest
\* of its employee.
HeldInv ==
    /\ \A e \in Employees : held[e] \in 0..Len(opened)
    /\ \A i, j \in 1..Len(opened) :
          opened[i].open /\ opened[j].by = opened[i].by => j <= i

ActorInv == ActorsTypeOK /\ HeldInv /\ NewestHeld /\ MetricsAgree

\* The workers whose session is over, which they do not know.
Late == {e \in Working : held[e] \in ClosedSessions}

Metrics == [started: Nat, resumed: Nat, finished: Nat]

\* What the step of an actor does to sessions and metrics.
NothingMoves == UNCHANGED <<state, held, opened, metrics>>

Takes(e) == state[e] = "IDLE" /\ state' = [state EXCEPT ![e] = "WORKING"]

Resumes(e) ==
    /\ Takes(e)
    /\ metrics' = [metrics EXCEPT !.resumed = @ + 1]
    /\ \E i \in OpenOf(e) : held' = [held EXCEPT ![e] = i]
    /\ UNCHANGED opened

Opens(e) ==
    /\ state[e] = "IDLE"
    /\ OpenOf(e) = {} /\ Len(opened) < MaxOpened
    /\ opened' = Append(opened, [by |-> e, open |-> TRUE])
    /\ \/ /\ Takes(e)
          /\ held' = [held EXCEPT ![e] = Len(opened) + 1]
          /\ metrics' = [metrics EXCEPT !.started = @ + 1]
       \/ UNCHANGED <<state, held, metrics>>

Finishes(e) ==
    /\ state[e] = "WORKING"
    /\ opened' \in {opened, [opened EXCEPT ![held[e]].open = FALSE]}
    /\ \/ /\ state' = [state EXCEPT ![e] = "IDLE"]
          /\ held' = [held EXCEPT ![e] = 0]
          /\ metrics' = [metrics EXCEPT !.finished = @ + 1]
       \/ UNCHANGED <<state, held, metrics>>

\* What the invariant says of the types of sessions and metrics.
LEMMA StateFacts ==
    ASSUME ActorInv
    PROVE  /\ state \in [Employees -> {"IDLE", "WORKING"}]
           /\ held \in [Employees -> 0..MaxOpened]
           /\ opened \in Seq(Session) /\ Len(opened) <= MaxOpened /\ Len(opened) \in Nat
           /\ metrics \in Metrics
           /\ MaxOpened \in Nat
           /\ \A e \in Employees : held[e] \in 0..Len(opened)
           /\ \A e \in Employees : state[e] = "WORKING" => held[e] \in 1..Len(opened)
<1>1. /\ state \in [Employees -> {"IDLE", "WORKING"}]
      /\ held \in [Employees -> 0..MaxOpened]
      /\ opened \in Seq(Session) /\ Len(opened) <= MaxOpened
      /\ metrics \in Metrics
      /\ MaxOpened \in Nat
  BY EmployeesAssumption DEF ActorInv, ActorsTypeOK, Session, Metrics
<1>2. \A e \in Employees : held[e] \in 0..Len(opened)
  BY DEF ActorInv, HeldInv
<1>3. \A e \in Employees : state[e] = "WORKING" => held[e] # 0
  BY DEF ActorInv, NewestHeld, Working
<1>4. Len(opened) \in Nat
  BY <1>1
<1> QED
  BY <1>1, <1>2, <1>3, <1>4

LEMMA CountFields ==
    ASSUME NEW m \in Metrics
    PROVE  /\ LET k == [m EXCEPT !.started = @ + 1]
              IN  k \in Metrics /\ k.started = m.started + 1 /\ k.resumed = m.resumed
                                /\ k.finished = m.finished
           /\ LET k == [m EXCEPT !.resumed = @ + 1]
              IN  k \in Metrics /\ k.started = m.started /\ k.resumed = m.resumed + 1
                                /\ k.finished = m.finished
           /\ LET k == [m EXCEPT !.finished = @ + 1]
              IN  k \in Metrics /\ k.started = m.started /\ k.resumed = m.resumed
                                /\ k.finished = m.finished + 1
  BY DEF Metrics

LEMMA ActorStep ==
    ASSUME ActorInv, [ActorsNext]_actorVars
    PROVE  NothingMoves \/ \E e \in Employees : Resumes(e) \/ Opens(e) \/ Finishes(e)
<1>1. ASSUME NEW e \in Employees, EmployeeActs(e)
      PROVE  NothingMoves \/ Resumes(e) \/ Opens(e) \/ Finishes(e)
  <2> USE DEF AtWork, Turn
  <2>1. CASE Resume(e)
    BY <2>1 DEF Resume, Count, Resumes, Takes
  <2>2. CASE StartAnswered(e)
    <3>1. Len(Append(opened, [by |-> e, open |-> TRUE])) = Len(opened) + 1
      BY AppendFields DEF Session, ActorInv, ActorsTypeOK
    <3>2. QED
      BY <2>2, <3>1 DEF StartAnswered, CanOpen, Opened, Count,
         Opens, Takes
  <2>3. CASE StartLost(e)
    BY <2>3 DEF StartLost, CanOpen, Opened, Opens
  <2>4. CASE FinishAnswered(e)
    BY <2>4 DEF FinishAnswered, SessionForgotten, Closed,
       Count, Finishes
  <2>5. CASE FinishRejected(e)
    BY <2>5 DEF FinishRejected, SessionForgotten, Count, Finishes
  <2>6. CASE FinishError(e)
    BY <2>6 DEF FinishError, Closed, Finishes
  <2>7. CASE Rest(e) \/ StartError(e) \/ NoStart(e)
    BY <2>7 DEF Rest, StartError, NoStart, NothingMoves
  <2>8. QED
    BY <1>1, <2>1, <2>2, <2>3, <2>4, <2>5, <2>6, <2>7 DEF EmployeeActs
<1>2. QED
  BY <1>1 DEF ActorsNext, Tick, PopDueActors, Acts, WebActs,
     KioskActs, actorVars, NothingMoves

\* Types are kept by the four kinds of step.
LEMMA ActorTypes ==
    ASSUME ActorInv, [ActorsNext]_actorVars
    PROVE  /\ state' \in [Employees -> {"IDLE", "WORKING"}]
           /\ held' \in [Employees -> 0..MaxOpened]
           /\ opened' \in Seq(Session) /\ Len(opened') <= MaxOpened
           /\ metrics' \in Metrics
<1> DEFINE Typed == /\ state' \in [Employees -> {"IDLE", "WORKING"}]
                    /\ held' \in [Employees -> 0..MaxOpened]
                    /\ opened' \in Seq(Session) /\ Len(opened') <= MaxOpened
                    /\ metrics' \in Metrics
<1>1. CASE NothingMoves
  BY <1>1, StateFacts DEF NothingMoves
<1>2. ASSUME NEW e \in Employees, Resumes(e) PROVE Typed
  <2>1. \A i \in OpenOf(e) : i \in 0..MaxOpened
    BY StateFacts DEF OpenOf
  <2>2. held' \in [Employees -> 0..MaxOpened]
    BY <1>2, <2>1, StateFacts DEF Resumes
  <2>3. metrics' \in Metrics
    BY <1>2, StateFacts, CountFields DEF Resumes
  <2>4. QED
    BY <1>2, <2>2, <2>3, StateFacts DEF Resumes, Takes
<1>3. ASSUME NEW e \in Employees, Opens(e) PROVE Typed
  <2>1. [by |-> e, open |-> TRUE] \in Session
    BY DEF Session
  <2>2. opened' \in Seq(Session) /\ Len(opened') <= MaxOpened
    BY <1>3, <2>1, StateFacts, AppendFields DEF Opens
  <2>3. Len(opened) + 1 \in 0..MaxOpened
    BY <1>3, StateFacts DEF Opens
  <2>4. held' \in [Employees -> 0..MaxOpened]
    BY <1>3, <2>3, StateFacts DEF Opens
  <2>5. metrics' \in Metrics
    BY <1>3, StateFacts, CountFields DEF Opens
  <2>6. state' \in [Employees -> {"IDLE", "WORKING"}]
    BY <1>3, StateFacts DEF Opens, Takes
  <2>7. QED
    BY <2>2, <2>4, <2>5, <2>6
<1>4. ASSUME NEW e \in Employees, Finishes(e) PROVE Typed
  <2>1. held[e] \in 1..Len(opened)
    BY <1>4, StateFacts DEF Finishes
  <2>2. opened' \in Seq(Session) /\ Len(opened') <= MaxOpened
    <3> DEFINE c == [opened EXCEPT ![held[e]].open = FALSE]
    <3>1. c \in Seq(Session) /\ Len(c) = Len(opened)
      BY <2>1, StateFacts, CloseFields
    <3>2. opened' \in {opened, c}
      BY <1>4 DEF Finishes
    <3> HIDE DEF c
    <3>3. QED
      BY <3>1, <3>2, StateFacts
  <2>3. 0 \in 0..MaxOpened
    BY StateFacts
  <2>4. held' \in [Employees -> 0..MaxOpened]
    BY <1>4, <2>3, StateFacts DEF Finishes
  <2>5. metrics' \in Metrics
    BY <1>4, StateFacts, CountFields DEF Finishes
  <2>6. state' \in [Employees -> {"IDLE", "WORKING"}]
    BY <1>4, StateFacts DEF Finishes
  <2>7. QED
    BY <2>2, <2>4, <2>5, <2>6
<1>5. QED
  BY <1>1, <1>2, <1>3, <1>4, ActorStep

\* NewestHeld, for one employee.
Holds(e) ==
    /\ state[e] = "WORKING" <=> held[e] # 0
    /\ state[e] = "WORKING" =>
          /\ opened[held[e]].by = e
          /\ \A i \in 1..Len(opened) : opened[i].by = e => i <= held[e]

LEMMA HoldsMeans == NewestHeld <=> \A e \in Employees : Holds(e)
  BY DEF NewestHeld, Working, Holds

LEMMA HeldStep ==
    ASSUME ActorInv, [ActorsNext]_actorVars
    PROVE  HeldInv' /\ NewestHeld'
<1>1. HeldInv /\ NewestHeld
  BY DEF ActorInv
<1>2. CASE NothingMoves
  BY <1>1, <1>2 DEF NothingMoves, HeldInv, NewestHeld, Working
<1>3. ASSUME NEW e \in Employees, Resumes(e) PROVE HeldInv' /\ NewestHeld'
  <2>1. PICK i \in OpenOf(e) : held' = [held EXCEPT ![e] = i]
    BY <1>3 DEF Resumes
  <2>2. i \in 1..Len(opened) /\ opened[i].by = e /\ opened[i].open
    BY <2>1 DEF OpenOf
  <2>3. \A u \in Employees :
           /\ held'[u] = IF u = e THEN i ELSE held[u]
           /\ state'[u] = IF u = e THEN "WORKING" ELSE state[u]
    BY <1>3, <2>1, StateFacts DEF Resumes, Takes
  <2>4. opened' = opened
    BY <1>3 DEF Resumes
  <2>5. \A u \in Employees : held'[u] \in 0..Len(opened)
    BY <2>2, <2>3, StateFacts
  <2>6. NewestHeld'
    <3>1. ASSUME NEW u \in Employees PROVE Holds(u)'
      <4>1. Holds(u)
        BY <1>1, HoldsMeans
      <4>2. \A j \in 1..Len(opened) : opened[j].by = e => j <= i
        BY <1>1, <2>2 DEF HeldInv
      <4>3. QED
        BY <2>2, <2>3, <2>4, <4>1, <4>2, StateFacts DEF Holds
    <3>2. QED
      BY <3>1 DEF NewestHeld, Working, Holds
  <2>7. QED
    BY <1>1, <2>4, <2>5, <2>6 DEF HeldInv
<1>4. ASSUME NEW e \in Employees, Opens(e) PROVE HeldInv' /\ NewestHeld'
  <2> DEFINE new == [by |-> e, open |-> TRUE]
  <2>1. new \in Session /\ new.by = e
    BY DEF Session
  <2>2. opened' = Append(opened, new)
    BY <1>4 DEF Opens
  <2> HIDE DEF new
  <2>3. /\ Len(opened') = Len(opened) + 1
        /\ \A i \in 1..Len(opened) : opened'[i] = opened[i]
        /\ opened'[Len(opened) + 1].by = e
    BY <2>1, <2>2, StateFacts, AppendFields
  <2>4. \A i \in 1..Len(opened) : opened[i].by = e => ~opened[i].open
    BY <1>4 DEF Opens, OpenOf
  <2>5. \A i \in 1..Len(opened') : i \in 1..Len(opened) \/ i = Len(opened) + 1
    BY <2>3, StateFacts
  <2>6. \A i, j \in 1..Len(opened') :
            opened'[i].open /\ opened'[j].by = opened'[i].by => j <= i
    <3>1. SUFFICES ASSUME NEW i \in 1..Len(opened'), NEW j \in 1..Len(opened'),
                          opened'[i].open, opened'[j].by = opened'[i].by
                   PROVE  j <= i
      OBVIOUS
    <3>2. CASE i = Len(opened) + 1
      BY <2>3, <3>2, StateFacts
    <3>3. CASE i \in 1..Len(opened)
      <4>1. opened[i].open /\ opened'[i].by = opened[i].by
        BY <2>3, <3>1, <3>3
      <4>2. opened[i].by # e
        BY <2>4, <3>3, <4>1
      <4>3. j \in 1..Len(opened) /\ opened[j].by = opened[i].by
        BY <2>3, <2>5, <3>1, <4>1, <4>2
      <4>4. QED
        BY <1>1, <3>3, <4>1, <4>3 DEF HeldInv
    <3>4. QED
      BY <2>5, <3>2, <3>3
  <2>7. \A u \in Employees \ {e} : held'[u] = held[u] /\ state'[u] = state[u]
    BY <1>4, StateFacts DEF Opens, Takes
  <2>8. \/ held'[e] = Len(opened) + 1 /\ state'[e] = "WORKING"
        \/ held'[e] = held[e] /\ state'[e] = "IDLE"
    BY <1>4, StateFacts DEF Opens, Takes
  <2>9. held[e] = 0
    BY <1>1, <1>4 DEF Opens, NewestHeld, Working
  <2>10. \A u \in Employees : held'[u] \in 0..Len(opened')
    BY <2>3, <2>7, <2>8, StateFacts
  <2>11. ASSUME NEW u \in Employees PROVE Holds(u)'
    <3>1. CASE u # e
      <4>1. Holds(u)
        BY <1>1, HoldsMeans
      <4>2. held'[u] = held[u] /\ state'[u] = state[u]
        BY <2>7, <3>1
      <4>3. state[u] = "WORKING" => held[u] \in 1..Len(opened)
        BY StateFacts
      <4>4. QED
        BY <2>3, <2>5, <3>1, <4>1, <4>2, <4>3 DEF Holds
    <3>2. CASE u = e
      BY <2>3, <2>5, <2>8, <2>9, <3>2, StateFacts DEF Holds
    <3>3. QED
      BY <3>1, <3>2
  <2>12. NewestHeld'
    BY <2>11 DEF NewestHeld, Working, Holds
  <2>13. QED
    BY <2>6, <2>10, <2>12 DEF HeldInv
<1>5. ASSUME NEW e \in Employees, Finishes(e) PROVE HeldInv' /\ NewestHeld'
  <2>1. held[e] \in 1..Len(opened)
    BY <1>5, StateFacts DEF Finishes
  <2>2. /\ Len(opened') = Len(opened)
        /\ \A j \in 1..Len(opened) : opened'[j].by = opened[j].by
        /\ \A j \in 1..Len(opened) : opened'[j].open => opened[j].open
    <3> DEFINE c == [opened EXCEPT ![held[e]].open = FALSE]
    <3>1. /\ Len(c) = Len(opened)
          /\ \A j \in 1..Len(opened) : c[j].by = opened[j].by
          /\ \A j \in 1..Len(opened) : c[j].open => opened[j].open
      BY <2>1, StateFacts, CloseFields
    <3>2. opened' \in {opened, c}
      BY <1>5 DEF Finishes
    <3> HIDE DEF c
    <3>3. QED
      BY <3>1, <3>2
  <2>3. \A u \in Employees \ {e} : held'[u] = held[u] /\ state'[u] = state[u]
    BY <1>5, StateFacts DEF Finishes
  <2>4. \/ held'[e] = 0 /\ state'[e] = "IDLE"
        \/ held'[e] = held[e] /\ state'[e] = state[e]
    BY <1>5, StateFacts DEF Finishes
  <2>5. \A u \in Employees : held'[u] \in 0..Len(opened')
    BY <2>2, <2>3, <2>4, StateFacts
  <2>6. \A i, j \in 1..Len(opened') :
            opened'[i].open /\ opened'[j].by = opened'[i].by => j <= i
    BY <1>1, <2>2 DEF HeldInv
  <2>7. NewestHeld'
    <3>1. ASSUME NEW u \in Employees PROVE Holds(u)'
      <4>1. Holds(u)
        BY <1>1, HoldsMeans
      <4>2. CASE u = e
        BY <2>1, <2>2, <2>4, <4>1, <4>2 DEF Holds
      <4>3. CASE u # e
        BY <2>2, <2>3, <4>1, <4>3, StateFacts DEF Holds
      <4>4. QED
        BY <4>2, <4>3
    <3>2. QED
      BY <3>1 DEF NewestHeld, Working, Holds
  <2>8. QED
    BY <2>5, <2>6, <2>7 DEF HeldInv
<1>6. QED
  BY <1>2, <1>3, <1>4, <1>5, ActorStep

\* What is counted: finite sets.
LEMMA CountedSets ==
    ASSUME ActorInv
    PROVE  /\ IsFiniteSet(Working) /\ Cardinality(Working) \in Nat
           /\ IsFiniteSet(Late) /\ Cardinality(Late) \in Nat
           /\ IsFiniteSet(ClosedSessions)
           /\ Cardinality(ClosedSessions) \in Nat
<1>1. IsFiniteSet(Employees) /\ IsFiniteSet(1..Len(opened))
  <2>1. 1 \in Int /\ Len(opened) \in Int
    BY StateFacts
  <2>2. IsFiniteSet(1..Len(opened))
    BY <2>1, FS_Interval
  <2>3. QED
    BY <2>2, EmployeesAssumption
<1>2. /\ Working \in SUBSET Employees /\ Late \in SUBSET Employees
      /\ ClosedSessions \in SUBSET (1..Len(opened))
  BY DEF Working, Late, ClosedSessions
<1>3. /\ IsFiniteSet(Working) /\ IsFiniteSet(Late)
      /\ IsFiniteSet(ClosedSessions)
  BY <1>1, <1>2, FS_Subset
<1> QED
  BY <1>3, FS_CardinalityType

LEMMA MetricsStep ==
    ASSUME ActorInv, [ActorsNext]_actorVars
    PROVE  MetricsAgree'
<1> DEFINE Known == ClosedSessions
           W == Working
<1>1. /\ metrics.started + metrics.resumed = metrics.finished + Cardinality(W)
      /\ Cardinality(Known) <= metrics.finished + Cardinality(Late)
      /\ metrics.started \in Nat /\ metrics.resumed \in Nat /\ metrics.finished \in Nat
      /\ metrics \in Metrics
  <2>1. metrics \in Metrics
    BY StateFacts
  <2>2. metrics.started \in Nat /\ metrics.resumed \in Nat /\ metrics.finished \in Nat
    BY <2>1 DEF Metrics
  <2>3. QED
    BY <2>1, <2>2 DEF ActorInv, MetricsAgree, Late
<1>2. SUFFICES /\ metrics'.started + metrics'.resumed
                      = metrics'.finished + Cardinality(W')
               /\ Cardinality(Known') <= metrics'.finished + Cardinality(Late')
  BY DEF MetricsAgree, Late
<1>3. CASE NothingMoves
  <2>1. W' = W /\ Known' = Known /\ Late' = Late /\ metrics' = metrics
    BY <1>3 DEF NothingMoves, Working, ClosedSessions, Late
  <2>2. QED
    BY <1>1, <2>1
<1>4. ASSUME NEW e \in Employees, Resumes(e)
      PROVE  /\ metrics'.started + metrics'.resumed
                    = metrics'.finished + Cardinality(W')
             /\ Cardinality(Known') <= metrics'.finished + Cardinality(Late')
  <2>1. PICK i \in OpenOf(e) : held' = [held EXCEPT ![e] = i]
    BY <1>4 DEF Resumes
  <2>2. i \notin Known
    BY <2>1 DEF OpenOf, ClosedSessions
  <2>3. e \notin W /\ W' = W \cup {e}
    BY <1>4, StateFacts DEF Resumes, Takes, Working
  <2>4. Known' = Known
    BY <1>4 DEF Resumes, ClosedSessions
  <2>5. Late' = Late
    BY <2>1, <2>2, <2>3, <2>4, StateFacts DEF Late
  <2>6. Cardinality(W') = Cardinality(W) + 1
    BY <2>3, CountedSets, FS_AddElement
  <2>7. /\ metrics'.started = metrics.started
        /\ metrics'.resumed = metrics.resumed + 1
        /\ metrics'.finished = metrics.finished
    BY <1>1, <1>4, CountFields DEF Resumes
  <2>8. QED
    BY <1>1, <2>4, <2>5, <2>6, <2>7, CountedSets
<1>5. ASSUME NEW e \in Employees, Opens(e)
      PROVE  /\ metrics'.started + metrics'.resumed
                    = metrics'.finished + Cardinality(W')
             /\ Cardinality(Known') <= metrics'.finished + Cardinality(Late')
  <2> DEFINE new == [by |-> e, open |-> TRUE]
  <2>1. new \in Session /\ new.open
    BY DEF Session
  <2>2. opened' = Append(opened, new)
    BY <1>5 DEF Opens
  <2> HIDE DEF new
  <2>3. /\ Len(opened') = Len(opened) + 1
        /\ \A i \in 1..Len(opened) : opened'[i] = opened[i]
        /\ opened'[Len(opened) + 1].open
    BY <2>1, <2>2, StateFacts, AppendFields
  <2>4. \A i : i \in 1..Len(opened') <=> i \in 1..Len(opened) \/ i = Len(opened) + 1
    BY <2>3, StateFacts
  <2>5. Known' = Known
    BY <2>3, <2>4 DEF ClosedSessions
  <2>6. Len(opened) + 1 \notin Known
    BY StateFacts DEF ClosedSessions
  <2>7. e \notin W
    BY <1>5 DEF Opens, Working
  <2>8. CASE UNCHANGED <<state, held, metrics>>
    <3>1. W' = W /\ Late' = Late
      BY <2>5, <2>8 DEF Working, Late
    <3>2. QED
      BY <1>1, <2>5, <2>8, <3>1
  <2>9. CASE /\ Takes(e)
             /\ held' = [held EXCEPT ![e] = Len(opened) + 1]
             /\ metrics' = [metrics EXCEPT !.started = @ + 1]
    <3>1. W' = W \cup {e}
      BY <2>9, StateFacts DEF Takes, Working
    <3>2. Late' = Late
      BY <2>5, <2>6, <2>7, <2>9, <3>1, StateFacts DEF Late
    <3>3. Cardinality(W') = Cardinality(W) + 1
      BY <2>7, <3>1, CountedSets, FS_AddElement
    <3>4. /\ metrics'.started = metrics.started + 1
          /\ metrics'.resumed = metrics.resumed
          /\ metrics'.finished = metrics.finished
      BY <1>1, <2>9, CountFields
    <3>5. QED
      BY <1>1, <2>5, <3>2, <3>3, <3>4, CountedSets
  <2>10. QED
    BY <1>5, <2>8, <2>9 DEF Opens
<1>6. ASSUME NEW e \in Employees, Finishes(e)
      PROVE  /\ metrics'.started + metrics'.resumed
                    = metrics'.finished + Cardinality(W')
             /\ Cardinality(Known') <= metrics'.finished + Cardinality(Late')
  <2> DEFINE h == held[e]
  <2>1. h \in 1..Len(opened) /\ e \in W
    BY <1>6, StateFacts DEF Finishes, Working
  <2>2. Known' = Known \/ Known' = Known \cup {h}
    <3> DEFINE c == [opened EXCEPT ![held[e]].open = FALSE]
    <3>1. /\ Len(c) = Len(opened)
          /\ \A j \in 1..Len(opened) : c[j].open <=> opened[j].open /\ j # h
      BY <2>1, StateFacts, CloseFields
    <3>2. opened' \in {opened, c}
      BY <1>6 DEF Finishes
    <3> HIDE DEF c
    <3>3. QED
      BY <2>1, <3>1, <3>2 DEF ClosedSessions
  <2>3. \A u \in W : u # e => held[u] # h
    <3>1. \A u \in W : opened[held[u]].by = u
      BY DEF ActorInv, NewestHeld, Working
    <3>2. QED
      BY <2>1, <3>1
  <2>4. e \in Late <=> h \in Known
    BY <2>1 DEF Late
  <2>5. Cardinality(Known') = Cardinality(Known) \/
            /\ h \in Known' /\ h \notin Known
            /\ Cardinality(Known') = Cardinality(Known) + 1
    BY <2>2, CountedSets, FS_AddElement
  <2>6. CASE UNCHANGED <<state, held, metrics>>
    <3>1. W' = W
      BY <2>6 DEF Working
    <3>2. Late' = {u \in W : held[u] \in Known'}
      BY <2>6, <3>1 DEF Late
    <3>3. CASE Known' = Known
      <4>1. Late' = Late
        BY <3>2, <3>3 DEF Late
      <4>2. QED
        BY <1>1, <2>6, <3>1, <3>3, <4>1
    <3>4. CASE Known' = Known \cup {h}
      <4>1. Late' = Late \cup {e}
        BY <2>1, <2>3, <3>2, <3>4 DEF Late
      <4>2. /\ Cardinality(Late') = Cardinality(Late) + IF e \in Late THEN 0 ELSE 1
            /\ Cardinality(Known') = Cardinality(Known) + IF h \in Known THEN 0 ELSE 1
        <5>1. IsFiniteSet(Late) /\ IsFiniteSet(Known)
              /\ Cardinality(Late) \in Nat /\ Cardinality(Known) \in Nat
          BY CountedSets
        <5> HIDE DEF Known, h
        <5>2. Cardinality(Late') = IF e \in Late THEN Cardinality(Late)
                                                 ELSE Cardinality(Late) + 1
          BY <4>1, <5>1, FS_AddElement
        <5>3. Cardinality(Known') = IF h \in Known THEN Cardinality(Known)
                                                   ELSE Cardinality(Known) + 1
          BY <3>4, <5>1, FS_AddElement
        <5>4. QED
          BY <5>1, <5>2, <5>3
      <4>3. QED
        BY <1>1, <2>4, <2>6, <3>1, <4>2, CountedSets
    <3>5. QED
      BY <2>2, <3>3, <3>4
  <2>7. CASE /\ state' = [state EXCEPT ![e] = "IDLE"]
             /\ held' = [held EXCEPT ![e] = 0]
             /\ metrics' = [metrics EXCEPT !.finished = @ + 1]
    <3>1. W' = W \ {e}
      BY <2>7, StateFacts DEF Working
    <3>2. Late' = Late \ {e}
      BY <2>2, <2>3, <2>7, <3>1, StateFacts DEF Late, Working
    <3>3. /\ Cardinality(W') = Cardinality(W) - 1
          /\ Cardinality(Late') = Cardinality(Late) - IF e \in Late THEN 1 ELSE 0
      <4>1. IsFiniteSet(Late) /\ IsFiniteSet(W)
            /\ Cardinality(Late) \in Nat /\ Cardinality(W) \in Nat
        BY CountedSets
      <4> HIDE DEF W
      <4>2. Cardinality(W') = Cardinality(W) - 1
        BY <2>1, <3>1, <4>1, FS_RemoveElement
      <4>3. Cardinality(Late') = IF e \in Late THEN Cardinality(Late) - 1
                                               ELSE Cardinality(Late)
        BY <3>2, <4>1, FS_RemoveElement
      <4>4. QED
        BY <4>1, <4>2, <4>3
    <3>4. /\ metrics'.started = metrics.started
          /\ metrics'.resumed = metrics.resumed
          /\ metrics'.finished = metrics.finished + 1
      BY <1>1, <2>7, CountFields
    <3>5. QED
      BY <1>1, <2>4, <2>5, <3>3, <3>4, CountedSets
  <2>8. QED
    BY <1>6, <2>6, <2>7 DEF Finishes
<1>7. QED
  BY <1>3, <1>4, <1>5, <1>6, ActorStep

\* The clock, the queue of the scheduler and the counters of faults.
LEMMA ClockTypes ==
    ASSUME ActorInv, [ActorsNext]_actorVars
    PROVE  /\ now' \in 0..Day - 1 /\ lag' \in 0..MaxLag
           /\ wait' \in [Actors -> Nat] /\ due' \subseteq Actors
           /\ logged' \subseteq Webs /\ faults' \in 0..MaxFaults
<1> DEFINE Typed == /\ now' \in 0..Day - 1 /\ lag' \in 0..MaxLag
                    /\ wait' \in [Actors -> Nat] /\ due' \subseteq Actors
                    /\ logged' \subseteq Webs /\ faults' \in 0..MaxFaults
<1>1. /\ {Day, ShiftStart, LunchStart, LunchEnd, ShiftEnd, RealDelay} \subseteq Nat
      /\ {MaxWork, MaxLag, MaxFaults} \subseteq Nat
      /\ 0 < ShiftStart /\ 0 < Day
  BY EmployeesAssumption
<1>2. /\ now \in 0..Day - 1 /\ lag \in 0..MaxLag
      /\ wait \in [Actors -> Nat] /\ due \subseteq Actors
      /\ logged \subseteq Webs /\ faults \in 0..MaxFaults
  BY DEF ActorInv, ActorsTypeOK
<1>3. \A t \in Int : t % Day \in 0..Day - 1
  BY <1>1
<1>4. BatchNow \in 0..Day - 1
  BY <1>1, <1>2, <1>3 DEF BatchNow
<1>5. ASSUME NEW a \in Actors, NEW w \in Nat, Reschedule(a, w)
      PROVE  wait' \in [Actors -> Nat] /\ due' \subseteq Actors
  BY <1>1, <1>2, <1>5 DEF Reschedule
<1>6. \A w \in NextShift(BatchNow) : w \in Nat
  BY <1>1, <1>4 DEF NextShift
<1>7. \A w \in Soon : w \in Nat /\ PushPastLunch(BatchNow, w) \in Nat
  <2>1. SUFFICES ASSUME NEW w \in Nat PROVE PushPastLunch(BatchNow, w) \in Nat
    BY DEF Soon
  <2>2. (BatchNow + w) % Day \in 0..Day - 1
    BY <1>3, <1>4, <1>1
  <2>3. QED
    BY <1>1, <2>2 DEF PushPastLunch
<1>8. ASSUME Fault \/ NoFault PROVE faults' \in 0..MaxFaults
  BY <1>1, <1>2, <1>8 DEF Fault, NoFault
<1>9. ASSUME NEW e \in Employees, EmployeeActs(e) PROVE Typed
  <2>1. e \in Actors
    BY DEF Actors
  <2>2. now' = now /\ lag' = lag /\ logged' = logged
    BY <1>9 DEF EmployeeActs, Rest, StartError, Resume,
       NoStart, StartAnswered, StartLost, FinishAnswered,
       FinishRejected, FinishError
  <2>3. faults' \in 0..MaxFaults
    BY <1>2, <1>8, <1>9 DEF EmployeeActs, Rest, StartError,
       Resume, NoStart, StartAnswered, StartLost,
       FinishAnswered, FinishRejected, FinishError
  <2>4. \E w \in Nat : Reschedule(e, w)
    <3>1. CASE Rest(e)
      BY <1>6, <3>1 DEF Rest
    <3>2. CASE StartAnswered(e)
      BY <1>1, <3>2 DEF StartAnswered
    <3>3. CASE FinishAnswered(e) \/ FinishRejected(e)
      BY <1>7, <3>3 DEF FinishAnswered, FinishRejected, SessionForgotten
    <3>4. CASE \/ StartError(e) \/ Resume(e) \/ NoStart(e)
               \/ StartLost(e) \/ FinishError(e)
      BY <1>7, <3>4 DEF StartError, Resume, NoStart,
         StartLost, FinishError
    <3>5. QED
      BY <1>9, <3>1, <3>2, <3>3, <3>4 DEF EmployeeActs
  <2>5. QED
    BY <1>2, <1>5, <2>1, <2>2, <2>3, <2>4
<1>10. ASSUME NEW a \in Webs \cup Kiosks,
               \/ a \in Webs /\ WebActs(a)
               \/ a \in Kiosks /\ KioskActs(a)
        PROVE  Typed
  <2>1. a \in Actors /\ RealDelay \in Nat
    BY <1>1 DEF Actors
  <2>2. Reschedule(a, RealDelay)
    BY <1>10 DEF WebActs, KioskActs
  <2>3. wait' \in [Actors -> Nat] /\ due' \subseteq Actors
    BY <1>5, <2>1, <2>2
  <2>4. QED
    BY <1>2, <1>10, <2>3 DEF WebActs, KioskActs
<1>11. CASE Tick
  <2>1. lag' \in 0..MaxLag
    BY <1>1, <1>2, <1>11 DEF Tick
  <2>2. now' \in 0..Day - 1
    BY <1>2, <1>3, <1>11 DEF Tick
  <2>3. \A a \in Actors : wait[a] > 0 => wait[a] - 1 \in Nat
    BY <1>2
  <2>4. wait' \in [Actors -> Nat]
    BY <1>2, <1>11, <2>3 DEF Tick
  <2>5. QED
    BY <1>2, <1>11, <2>1, <2>2, <2>4 DEF Tick
<1>12. CASE PopDueActors
  BY <1>1, <1>2, <1>12 DEF PopDueActors
<1>13. CASE UNCHANGED actorVars
  BY <1>2, <1>13 DEF actorVars
<1>14. QED
  BY <1>9, <1>10, <1>11, <1>12, <1>13 DEF ActorsNext, Acts

\* ActorInv is inductive.
LEMMA ActorInvariant ==
    ActorsSpec => []ActorInv
<1>1. ActorsInit => ActorInv
  <2> SUFFICES ASSUME ActorsInit PROVE ActorInv
    OBVIOUS
  <2>1. /\ \A e \in Employees : state[e] = "IDLE" /\ held[e] = 0
        /\ opened = <<>> /\ Len(opened) = 0
        /\ metrics = [started |-> 0, resumed |-> 0, finished |-> 0]
    BY DEF ActorsInit
  <2>2. ActorsTypeOK
    <3>1. /\ {Day, ShiftStart, LunchStart, LunchEnd, ShiftEnd} \subseteq Nat
          /\ {MaxLag, MaxFaults, MaxOpened} \subseteq Nat
          /\ 0 < ShiftStart /\ ShiftStart < Day /\ LunchStart < Day /\ 0 < Day
      BY EmployeesAssumption
    <3>2. now \in 0..Day - 1 /\ lag \in 0..MaxLag /\ faults \in 0..MaxFaults
      BY <3>1 DEF ActorsInit
    <3>3. /\ wait \in [Actors -> Nat]
          /\ due \subseteq Actors /\ logged \subseteq Webs
      BY <3>1 DEF ActorsInit
    <3>4. /\ state \in [Employees -> {"IDLE", "WORKING"}]
          /\ held \in [Employees -> 0..MaxOpened]
      BY <3>1 DEF ActorsInit
    <3>5. opened \in Seq([by: Employees, open: BOOLEAN]) /\ Len(opened) <= MaxOpened
      BY <2>1, <3>1
    <3>6. metrics \in [started: Nat, resumed: Nat, finished: Nat]
      BY <2>1
    <3>7. QED
      BY <3>2, <3>3, <3>4, <3>5, <3>6 DEF ActorsTypeOK
  <2>3. HeldInv
    BY <2>1 DEF HeldInv
  <2>4. NewestHeld
    BY <2>1 DEF NewestHeld, Working
  <2>5. MetricsAgree
    <3>1. Working = {} /\ Late = {} /\ ClosedSessions = {}
      BY <2>1 DEF Working, Late, ClosedSessions
    <3>2. Cardinality({}) = 0
      BY FS_EmptySet
    <3>3. QED
      BY <2>1, <3>1, <3>2 DEF MetricsAgree, Late
  <2>6. QED
    BY <2>2, <2>3, <2>4, <2>5 DEF ActorInv
<1>2. ActorInv /\ [ActorsNext]_actorVars => ActorInv'
  <2> SUFFICES ASSUME ActorInv, [ActorsNext]_actorVars PROVE ActorInv'
    OBVIOUS
  <2>1. ActorsTypeOK'
    BY ActorTypes, ClockTypes DEF ActorsTypeOK, Session, Metrics
  <2>2. QED
    BY <2>1, HeldStep, MetricsStep DEF ActorInv
<1>3. QED
  BY <1>1, <1>2, PTL DEF ActorsSpec

\* The type invariant of the actors.
THEOREM ActorsTyped ==
    ActorsSpec => []ActorsTypeOK
<1>1. ActorInv => ActorsTypeOK
  BY DEF ActorInv
<1>2. QED
  BY <1>1, ActorInvariant, PTL

\* Whatever calls fail and answers are lost, a worker holds the newest session
\* the product opened for it.
THEOREM HeldIsNewest ==
    ActorsSpec => []NewestHeld
<1>1. ActorInv => NewestHeld
  BY DEF ActorInv
<1>2. QED
  BY <1>1, ActorInvariant, PTL

\* Whatever calls fail and answers are lost, the metrics agree with the product.
THEOREM MetricsRight ==
    ActorsSpec => []MetricsAgree
<1>1. ActorInv => MetricsAgree
  BY DEF ActorInv
<1>2. QED
  BY <1>1, ActorInvariant, PTL
=============================================================================
