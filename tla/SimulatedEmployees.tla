------------------------- MODULE SimulatedEmployees -------------------------
(***************************************************************************)
(* The actors of one running simulation: EmployeeActor, WebUserActor and   *)
(* KioskDeviceActor of engine/simulation/actors, scheduled in simulated    *)
(* time by one loop thread, with the metrics of RunMetrics.  An action of  *)
(* an actor is a few HTTP calls of MesflowClient in a row and no other     *)
(* actor acts meanwhile, so it is one step; but any call may fail, and the *)
(* answer of a call the product has executed may be lost.  The product's   *)
(* sessions are external: one OPEN session per employee at most.           *)
(* Time is a day of a few slots, and goes on while the loop works: an      *)
(* action uses the time at which its batch was popped.  Names are distinct *)
(* from those of SimulationRuns: one module of proofs extends both.        *)
(***************************************************************************)
EXTENDS Integers, FiniteSets, Sequences

CONSTANTS
    Employees,
    Webs,           \* supervisors and managers
    Kiosks,         \* heartbeats
    Day,            \* slots of a day, numbered from zero
    ShiftStart, LunchStart, LunchEnd, ShiftEnd,
    RealDelay,      \* slots between the actions of the other actors
    MaxWork,        \* slots a session lasts at most
    MaxLag,         \* bound: slots the loop is behind the clock
    MaxOpened,      \* bound: sessions the product accepts
    MaxFaults       \* bound: failed calls, lost answers, rejected quantities

ASSUME EmployeesAssumption ==
    /\ 0 < ShiftStart /\ ShiftStart < LunchStart /\ LunchStart < LunchEnd
    /\ LunchEnd < ShiftEnd /\ ShiftEnd < Day
    /\ {Day, ShiftStart, LunchStart, LunchEnd, ShiftEnd} \subseteq Nat
    /\ {RealDelay, MaxWork, MaxLag, MaxOpened, MaxFaults} \subseteq Nat
    /\ IsFiniteSet(Employees)

Actors == Employees \cup Webs \cup Kiosks

VARIABLES
    now,        \* the slot of the simulated day
    lag,        \* slots since the loop read the clock for its batch, or since
                \* there is something to pop
    wait,       \* actor -> slots until its next action; 0 is due
    due,        \* the actors popped and not acted yet
    state,      \* employee -> IDLE or WORKING
    held,       \* employee -> open_session_id, 0 for None
    opened,     \* the product's sessions, in the order they were opened
    metrics,    \* sessions started, resumed (not in RunMetrics) and finished
    logged,     \* the web users with a logged-in session
    faults      \* counts the faults (bound)

actorVars == <<now, lag, wait, due, state, held, opened, metrics, logged, faults>>

ActorsTypeOK ==
    /\ now \in 0..Day - 1
    /\ lag \in 0..MaxLag
    /\ wait \in [Actors -> Nat]
    /\ due \subseteq Actors
    /\ state \in [Employees -> {"IDLE", "WORKING"}]
    /\ held \in [Employees -> 0..MaxOpened]
    /\ opened \in Seq([by: Employees, open: BOOLEAN]) /\ Len(opened) <= MaxOpened
    /\ metrics \in [started: Nat, resumed: Nat, finished: Nat]
    /\ logged \subseteq Webs
    /\ faults \in 0..MaxFaults

-----------------------------------------------------------------------------
(* Simulated time                                                          *)

\* The time an action is given.
BatchNow == (now + Day - lag) % Day

\* _next_shift_start: today's, up to a slot early, or tomorrow's if it is past.
NextShift(t) ==
    {IF c > t THEN c - t ELSE c + Day - t : c \in {ShiftStart - 1, ShiftStart}}

\* _push_past_lunch
PushPastLunch(t, w) ==
    LET at == (t + w) % Day
    IN  IF LunchStart <= at /\ at < LunchEnd THEN w + LunchEnd - at ELSE w

\* initial_action_at: at once in today's shift, else at its next start.
InitialWaits(t) ==
    IF ShiftStart <= t /\ t < ShiftEnd THEN {PushPastLunch(t, 0)} ELSE NextShift(t)

\* Retries and changeovers take seconds or minutes: now or in the next slot.
Soon == {0, 1}

\* Scheduler.schedule: from the time of the batch, which is lag slots ago.
Reschedule(a, w) ==
    /\ wait' = [wait EXCEPT ![a] = IF w > lag THEN w - lag ELSE 0]
    /\ due' = due \ {a}

ActorsInit ==
    /\ now \in {0, ShiftStart, LunchStart}
    /\ lag = 0
    /\ wait \in [Actors -> 0..Day]
    /\ \A e \in Employees : wait[e] \in InitialWaits(now)
    /\ \A a \in Webs \cup Kiosks : wait[a] = RealDelay
    /\ due = {}
    /\ state = [e \in Employees |-> "IDLE"]
    /\ held = [e \in Employees |-> 0]
    /\ opened = <<>>
    /\ metrics = [started |-> 0, resumed |-> 0, finished |-> 0]
    /\ logged = {}
    /\ faults = 0

\* SimClock.now goes on, also while actors are due and during a batch, but the
\* loop keeps up with it to MaxLag slots.
Overdue == due # {} \/ \E a \in Actors : wait[a] = 0

Tick ==
    /\ Overdue => lag < MaxLag
    /\ lag' = IF Overdue THEN lag + 1 ELSE 0
    /\ now' = (now + 1) % Day
    /\ wait' = [a \in Actors |-> IF wait[a] > 0 /\ a \notin due THEN wait[a] - 1 ELSE wait[a]]
    /\ UNCHANGED <<due, state, held, opened, metrics, logged, faults>>

\* pop_due
PopDueActors ==
    /\ due = {}
    /\ due' = {a \in Actors : wait[a] = 0}
    /\ due' # {}
    /\ lag' = 0
    /\ UNCHANGED <<now, wait, state, held, opened, metrics, logged, faults>>

-----------------------------------------------------------------------------
(* The product, as the actors see it                                       *)

OpenOf(e) == {i \in 1..Len(opened) : opened[i].by = e /\ opened[i].open}

\* POST /api/kiosk-web/start
Opened(e) == Append(opened, [by |-> e, open |-> TRUE])
CanOpen(e) == OpenOf(e) = {} /\ Len(opened) < MaxOpened

\* POST /api/kiosk-web/finish/<id>
Closed(i) == [opened EXCEPT ![i].open = FALSE]
CanClose(i) == opened[i].open

Fault == faults < MaxFaults /\ faults' = faults + 1
NoFault == UNCHANGED faults

Count(metric) == metrics' = [metrics EXCEPT ![metric] = @ + 1]

-----------------------------------------------------------------------------
(* EmployeeActor.act                                                       *)

Turn(e, st) == e \in due /\ state[e] = st
AtWork(e) == Turn(e, "IDLE") /\ BatchNow < ShiftEnd

Rest(e) ==
    /\ Turn(e, "IDLE")
    /\ BatchNow >= ShiftEnd
    /\ \E w \in NextShift(BatchNow) : Reschedule(e, w)
    /\ UNCHANGED <<now, lag, state, held, opened, metrics, logged, faults>>

\* The scan of the employee, or a later call of the start flow, fails without
\* effect, and the actor tries again.
StartError(e) ==
    /\ AtWork(e)
    /\ Fault
    /\ \E w \in Soon : Reschedule(e, w)
    /\ UNCHANGED <<now, lag, state, held, opened, metrics, logged>>

\* mutant: the open session in the answer of the scan is not looked at
SeesOpenNever(e) == FALSE

\* The scan answers with an open session, which the actor takes for its own.
SeesOpen(e) == OpenOf(e) # {}

Resume(e) ==
    /\ AtWork(e)
    /\ SeesOpen(e)
    /\ state' = [state EXCEPT ![e] = "WORKING"]
    /\ \E i \in OpenOf(e) : held' = [held EXCEPT ![e] = i]
    /\ \E w \in Soon : Reschedule(e, w)
    /\ Count("resumed")
    /\ NoFault
    /\ UNCHANGED <<now, lag, opened, logged>>

\* A bad scan made on purpose, or an operation or a start that the product
\* rejects: nothing is opened.
NoStart(e) ==
    /\ AtWork(e)
    /\ ~SeesOpen(e)
    /\ \E w \in Soon : Reschedule(e, w)
    /\ NoFault
    /\ UNCHANGED <<now, lag, state, held, opened, metrics, logged>>

StartAnswered(e) ==
    /\ AtWork(e)
    /\ ~SeesOpen(e)
    /\ CanOpen(e)
    /\ opened' = Opened(e)
    /\ state' = [state EXCEPT ![e] = "WORKING"]
    /\ held' = [held EXCEPT ![e] = Len(opened')]
    /\ \E w \in 0..MaxWork : Reschedule(e, w)
    /\ Count("started")
    /\ NoFault
    /\ UNCHANGED <<now, lag, logged>>

\* The session is open, the actor does not know.
StartLost(e) ==
    /\ AtWork(e)
    /\ ~SeesOpen(e)
    /\ CanOpen(e)
    /\ Fault
    /\ opened' = Opened(e)
    /\ \E w \in Soon : Reschedule(e, w)
    /\ UNCHANGED <<now, lag, state, held, metrics, logged>>

\* mutant: the rejected finish keeps its session id
SessionForgottenHalf(e) ==
    /\ state' = [state EXCEPT ![e] = "IDLE"]
    /\ UNCHANGED held
    /\ \E w \in Soon : Reschedule(e, PushPastLunch(BatchNow, w))
    /\ Count("finished")

\* The answer of a finish, good or bad, ends the actor's session.
SessionForgotten(e) ==
    /\ state' = [state EXCEPT ![e] = "IDLE"]
    /\ held' = [held EXCEPT ![e] = 0]
    /\ \E w \in Soon : Reschedule(e, PushPastLunch(BatchNow, w))
    /\ Count("finished")

FinishAnswered(e) ==
    /\ Turn(e, "WORKING")
    /\ CanClose(held[e])
    /\ opened' = Closed(held[e])
    /\ SessionForgotten(e)
    /\ NoFault
    /\ UNCHANGED <<now, lag, logged>>

\* 409 for a session that is closed already, 400 for a quantity with more rework
\* than defects, which the actor sends on purpose now and then.
FinishRejected(e) ==
    /\ Turn(e, "WORKING")
    /\ IF CanClose(held[e]) THEN Fault ELSE NoFault
    /\ SessionForgotten(e)
    /\ UNCHANGED <<now, lag, opened, logged>>

\* mutant: a failed finish is taken for a rejected one, and not counted
FinishErrorForgets(e) ==
    /\ Turn(e, "WORKING")
    /\ Fault
    /\ opened' \in {opened, Closed(held[e])}
    /\ state' = [state EXCEPT ![e] = "IDLE"]
    /\ held' = [held EXCEPT ![e] = 0]
    /\ \E w \in Soon : Reschedule(e, w)
    /\ UNCHANGED <<now, lag, metrics, logged>>

\* The scan or the finish fails, the finish with or without effect: the actor
\* stays WORKING and tries again.
FinishError(e) ==
    /\ Turn(e, "WORKING")
    /\ Fault
    /\ opened' \in {opened, Closed(held[e])}
    /\ \E w \in Soon : Reschedule(e, w)
    /\ UNCHANGED <<now, lag, state, held, metrics, logged>>

EmployeeActs(e) ==
    \/ Rest(e) \/ StartError(e) \/ Resume(e) \/ NoStart(e) \/ StartAnswered(e) \/ StartLost(e)
    \/ FinishAnswered(e) \/ FinishRejected(e) \/ FinishError(e)

-----------------------------------------------------------------------------
(* The other actors: their pace is real time, whatever the speed, so the    *)
(* simulated delay of their actions grows with the speed.                  *)

\* WebUserActor.act logs in once, then reads a page; a failed login or read only
\* delays the next one.
WebActs(u) ==
    /\ u \in due
    /\ logged' \in {logged, logged \cup {u}}
    /\ Reschedule(u, RealDelay)
    /\ UNCHANGED <<now, lag, state, held, opened, metrics, faults>>

\* KioskDeviceActor.act
KioskActs(k) ==
    /\ k \in due
    /\ Reschedule(k, RealDelay)
    /\ UNCHANGED <<now, lag, state, held, opened, metrics, logged, faults>>

Acts ==
    \/ \E e \in Employees : EmployeeActs(e)
    \/ \E u \in Webs : WebActs(u)
    \/ \E k \in Kiosks : KioskActs(k)

ActorsNext == Tick \/ PopDueActors \/ Acts

\* Time goes on and so does the loop thread.
ActorsSpec ==
    /\ ActorsInit /\ [][ActorsNext]_actorVars
    /\ WF_actorVars(Tick) /\ WF_actorVars(PopDueActors \/ Acts)

-----------------------------------------------------------------------------
(* Properties                                                              *)

Working == {e \in Employees : state[e] = "WORKING"}
ClosedSessions == {i \in 1..Len(opened) : ~opened[i].open}

\* The metrics agree with the product although answers are lost: every session
\* closed there is counted as finished once its employee has gone on, and what
\* was started or resumed is finished or in work.
MetricsAgree ==
    /\ metrics.started + metrics.resumed = metrics.finished + Cardinality(Working)
    /\ Cardinality(ClosedSessions)
          <= metrics.finished + Cardinality({e \in Working : held[e] \in ClosedSessions})

\* An employee at work holds the newest session the product opened for it: a
\* retried start or finish never lands on another one.
NewestHeld ==
    \A e \in Employees :
        /\ e \in Working <=> held[e] # 0
        /\ e \in Working =>
              /\ opened[held[e]].by = e
              /\ \A i \in 1..Len(opened) : opened[i].by = e => i <= held[e]

\* While faults stop at some time, no session stays open for ever, also one whose
\* start was lost at the end of a shift, and every actor gets its turn again
\* and again ("a single actor's crash must never kill the run").
LoopGoesOn ==
    /\ \A i \in 1..MaxOpened :
          i \in DOMAIN opened /\ opened[i].open ~> i \in DOMAIN opened /\ ~opened[i].open
    /\ \A a \in Actors : []<>(a \in due)

=============================================================================
