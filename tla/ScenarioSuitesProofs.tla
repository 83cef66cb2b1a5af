------------------------- MODULE ScenarioSuitesProofs -------------------------
(***************************************************************************)
(* Proofs about ScenarioSuites, for any devices and any number of failing  *)
(* calls: a burst that PASSED has lost nothing, a suite removes the        *)
(* namespaces it has made, and one that handles containers has PASSED only *)
(* when they work.  The scripts are finite and written out, so the lemmas  *)
(* about them go through them one by one.                                  *)
(***************************************************************************)
EXTENDS ScenarioSuites, SequenceTheorems, TLAPS

Statuses == {"NONE", "RUNNING", "PASSED", "FAILED"}
Over == {"PASSED", "FAILED"}

\* A step of a script is one of a scenario that is not the burst's.
LEMMA ScriptStepsInScripts == ScriptStep => InScript
  BY DEF ScriptStep, ContainerStep, DockerStep, ProbeStep, CountsStep, AssertStep, SuiteStep,
         ItemsStep, ArtifactStep, PageStep, EventStep, AgainStep, QuietStep, LocalStep, DbStep,
         WebStep, ReplayStep, LoginStep, StartStep, EndStep, RepeatStep, TotalStep, ScriptEnds, Do

\* The suites of run-artifact, by their names
Names == {"build_integrity", "post_deploy_smoke", "api_contract", "integration",
          "mes_workflows", "invariants", "ui_critical", "kiosk_emulator", "recovery",
          "test_deployment", "upgrade", "scheduler_reliability"}

\* Release, written out.
LEMMA ReleaseIs ==
    Release = <<"build_integrity", "post_deploy_smoke", "api_contract", "integration",
                "mes_workflows", "invariants", "ui_critical", "kiosk_emulator", "recovery",
                "test_deployment", "upgrade", "scheduler_reliability">>
<1> DEFINE R == <<"build_integrity", "post_deploy_smoke", "api_contract", "integration",
                "mes_workflows", "invariants", "ui_critical", "kiosk_emulator", "recovery",
                "test_deployment", "upgrade", "scheduler_reliability">>
<1>1. Release \in Seq(Names) /\ R \in Seq(Names)
  BY DEF Release, Product, Names
<1>2. Len(Release) = 12 /\ Len(R) = 12
  BY DEF Release, Product
<1>3. \A i \in 1..12 : Release[i] = R[i]
  BY DEF Release, Product
<1> QED
  BY <1>1, <1>2, <1>3, SeqEqual

\* The rows of the suites are those of the beginning.
LEMMA RowsStay == [Next]_vars => DOMAIN status' = DOMAIN status
<1>1. Begin => DOMAIN status' = DOMAIN status
  BY DEF Begin
<1>2. ScriptStep => status' = status
  BY DEF ScriptStep, ContainerStep, DockerStep, ProbeStep, CountsStep, AssertStep, SuiteStep,
         ItemsStep, ArtifactStep, PageStep, EventStep, AgainStep, QuietStep, LocalStep, DbStep,
         WebStep, ReplayStep, LoginStep, StartStep, EndStep, RepeatStep, TotalStep, ScriptEnds, Do
<1>3. BurstStep => status' = status
  BY DEF BurstStep, OnlinePhase, QueuePhase, ReconnectAll, ReplayThread, ReconnectEnds,
         ConvergencePhase
<1>4. BeginSuite \/ FinishSuite \/ BeginCleanup => DOMAIN status' = DOMAIN status
  BY DEF BeginSuite, FinishSuite, BeginCleanup
<1> QED
  BY <1>1, <1>2, <1>3, <1>4 DEF Next, CleanupRaises, BrowserRaises, Skip, vars

-----------------------------------------------------------------------------
(* The burst                                                               *)

BurstKeys == {"burst_online_phase", "burst_queue_phase", "burst_reconnect_phase", "burst_convergence"}

\* The scenarios of the burst, by their keys.
LEMMA BurstScenarios ==
    /\ Scenarios["offline_burst"] = Burst
    /\ KeysOf["offline_burst"] = BurstKeys
    /\ Len(Burst) = 4
    /\ Burst[1].key = "burst_online_phase"
    /\ Burst[2].key = "burst_queue_phase"
    /\ Burst[3].key = "burst_reconnect_phase"
    /\ Burst[4].key = "burst_convergence"
<1>1. "offline_burst" \in Suites
  BY DEF Suites
<1>2. Scenarios["offline_burst"] = Burst
  BY <1>1 DEF Scenarios
<1>3. /\ Len(Burst) = 4
      /\ Burst[1].key = "burst_online_phase"
      /\ Burst[2].key = "burst_queue_phase"
      /\ Burst[3].key = "burst_reconnect_phase"
      /\ Burst[4].key = "burst_convergence"
  BY DEF Burst, Plain
<1>4. ToSet(Burst) = {Burst[1], Burst[2], Burst[3], Burst[4]}
  BY DEF Burst, ToSet
<1>5. KeysOf["offline_burst"] = {c.key : c \in ToSet(Burst)}
  BY <1>1, <1>2 DEF KeysOf
<1>6. KeysOf["offline_burst"] = BurstKeys
  BY <1>3, <1>4, <1>5 DEF BurstKeys
<1> QED
  BY <1>2, <1>3, <1>6

\* Where a burst is: what it has not yet come to has no verdict, what it is past has one.
BurstPlace ==
    /\ plan \in {<<>>, <<"offline_burst">>}
    /\ status \in [{"offline_burst"} -> Statuses]
    /\ row \in [BurstKeys -> Statuses]
    /\ at \in Nat
    /\ current \in 1..5
    /\ phase \in {"before", "ready", "short", "raised"}
    /\ plan = <<>> => phase = "before" /\ at = 0
    /\ plan # <<>> =>
          /\ status["offline_burst"] # "PASSED"
          /\ at > 0 => current <= 4 /\ scenario = Burst[current] /\ phase \in {"ready", "short"}
          /\ phase = "before" => current = 1 /\ at = 0
          /\ \A k \in 1..4 : row[Burst[k].key] \in Over <=> k < current
    /\ plan = <<>> => \A k \in 1..4 : row[Burst[k].key] \in Over

Event5 == [id : 1..4, type : {"EMP", "OP", "QTY"},
           arg : {Worker(d) : d \in Devices} \cup {"RUNNING", "GOOD"}]

ClientType == [online : BOOLEAN, queue : Seq(Event5), sending : Seq(Event5),
               replies : Seq(States \cup Errors), raised : BOOLEAN]

\* The events of a kiosk, queued, under way or answered
Due(c) == Len(c.sending) + Len(c.replies)
Queued == \A d \in Devices : Len(client[d].queue) = 5 /\ client[d].replies = <<>>
UnderWay == \A d \in Devices : client[d].raised = FALSE => Due(client[d]) = 5
Answered == \A d \in Devices : Len(client[d].replies) = 5

\* An event that is answered is under way no more: the due ones stay the same.
LEMMA ReplayedIsDue ==
    ASSUME NEW c, NEW e, Len(c.sending) \in Nat, Len(c.replies) \in Nat,
           Len(e.sending) = Len(c.sending) - 1, Len(e.replies) = Len(c.replies) + 1
    PROVE  Due(e) = Due(c)
<1>1. \A a, b \in Nat : (a - 1) + (b + 1) = a + b
  OBVIOUS
<1>2. Due(e) = (Len(c.sending) - 1) + (Len(c.replies) + 1)
  BY DEF Due
<1> QED
  BY <1>1, <1>2 DEF Due

\* What the four phases have made of the clients so far
BurstData ==
    /\ client \in [Devices -> ClientType]
    /\ plan # <<>> /\ current <= 2 => client = [d \in Devices |-> NewClient]
    /\ plan # <<>> /\ current = 3 /\ row["burst_queue_phase"] = "PASSED" =>
          IF at <= 1 THEN Queued ELSE UnderWay
    /\ row["burst_queue_phase"] = "PASSED" /\ row["burst_reconnect_phase"] = "PASSED" => Answered
    /\ row["burst_convergence"] = "PASSED" => Converged

BurstInv ==
    Runs("offline_burst") =>
        /\ BurstPlace
        /\ BurstData
        /\ status["offline_burst"] = "PASSED" => plan = <<>> /\ row["burst_convergence"] = "PASSED"

\* A burst is run alone.
LEMMA BurstAlone == ASSUME Init, Runs("offline_burst") PROVE plan = <<"offline_burst">>
<1>1. \A s : "offline_burst" \in RowsOf(s) => s = "offline_burst"
  BY DEF RowsOf
<1>2. "offline_burst" \in ToSet(plan)
  BY <1>1 DEF Init, Runs
<1>3. plan # Product /\ plan # Release
  BY <1>2, ReleaseIs DEF Product, ToSet
<1> QED
  BY <1>2, <1>3 DEF Init, Alone, ToSet

\* A burst begins with nothing of it done.
LEMMA BurstBegins == Init => BurstInv
<1> SUFFICES ASSUME Init, Runs("offline_burst")
             PROVE  BurstPlace /\ BurstData /\ status["offline_burst"] = "NONE"
  BY DEF BurstInv
<1>1. plan = <<"offline_burst">>
  BY BurstAlone
<1>2. ToSet(plan) = {"offline_burst"}
  BY <1>1 DEF ToSet
<1>3. status = [s \in {"offline_burst"} |-> "NONE"] /\ row = [k \in BurstKeys |-> "NONE"]
  BY <1>2, BurstScenarios DEF Init, RowsOf
<1>4. BurstPlace
  BY <1>1, <1>3, BurstScenarios DEF Init, BurstPlace, BurstKeys, Statuses, Over
<1>5. NewClient \in ClientType
  BY DEF NewClient, ClientType
<1>6. BurstData
  BY <1>1, <1>3, <1>5 DEF Init, BurstData, BurstKeys
<1> QED
  BY <1>3, <1>4, <1>6

\* A scenario of the burst that ends gets its row and makes way for the next one.
LEMMA BurstEnds ==
    ASSUME BurstPlace, NEW passed \in BOOLEAN, plan = <<"offline_burst">>, at > 0,
           Ends(passed), UNCHANGED <<plan, status>>, phase' \in {"ready", "short"}
    PROVE  /\ BurstPlace'
           /\ current' = current + 1
           /\ at' = 0
           /\ row' = [row EXCEPT ![Burst[current].key] = IF passed THEN "PASSED" ELSE "FAILED"]
<1>1. current \in 1..4 /\ scenario = Burst[current]
  BY DEF BurstPlace
<1>2. /\ current' = current + 1
      /\ at' = 0
      /\ row' = [row EXCEPT ![Burst[current].key] = IF passed THEN "PASSED" ELSE "FAILED"]
  BY <1>1 DEF Ends, Key
<1>3. row' \in [BurstKeys -> Statuses]
  BY <1>1, <1>2, BurstScenarios DEF BurstPlace, BurstKeys, Statuses
<1>4. \A k \in 1..4 : row'[Burst[k].key] \in Over <=> k < current'
  BY <1>1, <1>2, BurstScenarios DEF BurstPlace, BurstKeys, Over
<1> QED
  BY <1>1, <1>2, <1>3, <1>4 DEF BurstPlace

\* Each action keeps a burst's invariant.
LEMMA BurstStepKeeps ==
    ASSUME BurstInv, Next, Runs("offline_burst") PROVE BurstInv'
<1> USE BurstScenarios
<1>1. /\ BurstPlace
      /\ BurstData
      /\ status["offline_burst"] = "PASSED" => plan = <<>> /\ row["burst_convergence"] = "PASSED"
  BY DEF BurstInv
<1>2. suite = IF plan = <<>> THEN "none" ELSE "offline_burst"
  BY <1>1 DEF BurstPlace, suite
<1>3. ~InScript
  BY <1>1, <1>2 DEF InScript, BurstPlace
<1>4. ~(BeginCleanup \/ CleanupRaises \/ BrowserRaises \/ Skip \/ ScriptStep)
  BY <1>1, <1>2, <1>3, ScriptStepsInScripts
  DEF BeginCleanup, Cleaning, Strict, CleanupRaises, BurstPlace, BrowserRaises, Skip
<1>5. CASE BeginSuite
  <2>1. plan = <<"offline_burst">> /\ current = 1 /\ at = 0
    BY <1>1, <1>5 DEF BeginSuite, BurstPlace
  <2>2. phase' \in {"ready", "raised"} /\ UNCHANGED <<plan, row, current, at, scenario, client>>
    BY <1>5 DEF BeginSuite, runVars, scenarioVars
  <2>3. status' = [s \in {"offline_burst"} |-> "RUNNING"]
    BY <1>1, <1>2, <1>5, <2>1 DEF BeginSuite, RowsOf, BurstPlace
  <2>4. BurstPlace'
    BY <1>1, <2>1, <2>2, <2>3 DEF BurstPlace, Statuses
  <2>5. BurstData'
    BY <1>1, <2>1, <2>2 DEF BurstData, BurstPlace, Over
  <2> QED
    BY <2>1, <2>3, <2>4, <2>5 DEF BurstInv
<1>6. CASE FinishSuite
  <2>1. plan = <<"offline_burst">> /\ current > 4
    BY <1>1, <1>2, <1>6 DEF FinishSuite, BurstPlace, Strict
  <2>2. plan' = <<>> /\ at' = 0 /\ current' = 1 /\ phase' = "before" /\ UNCHANGED <<row, clientVars>>
    BY <1>6, <2>1 DEF FinishSuite, Goes
  <2>3. \A k \in 1..4 : row[Burst[k].key] \in Over
    BY <1>1, <2>1 DEF BurstPlace
  <2>4. status' \in [{"offline_burst"} -> Statuses]
    BY <1>1, <1>6 DEF FinishSuite, BurstPlace, Statuses, Outcome
  <2>5. status'["offline_burst"] = "PASSED" => row["burst_convergence"] = "PASSED"
    BY <1>1, <1>2, <1>6, <2>1, <2>3 DEF FinishSuite, BurstPlace, Outcome, Over, BurstKeys
  <2>6. BurstPlace'
    BY <1>1, <2>2, <2>3, <2>4 DEF BurstPlace
  <2>7. BurstData'
    BY <1>1, <2>2 DEF BurstData, clientVars, Converged, productVars, Answered
  <2> QED
    BY <2>2, <2>5, <2>6, <2>7 DEF BurstInv
<1>7. CASE Begin
  <2>1. plan = <<"offline_burst">> /\ current <= 4 /\ at = 0 /\ phase \in {"ready", "short"}
    BY <1>1, <1>2, <1>7 DEF Begin, BurstPlace
  <2>2. Upcoming = Burst[current]
    BY <1>2, <2>1 DEF Upcoming
  <2>3. UNCHANGED <<plan, status, current, phase, client, opened, counted>>
    BY <1>1, <1>2, <1>7, <2>1, <2>2 DEF Begin, runVars, Rollback, Plain, BurstPlace
  <2>4. at' = 1 /\ scenario' = Burst[current] /\ row' = [row EXCEPT ![Burst[current].key] = "RUNNING"]
    BY <1>7, <2>2 DEF Begin
  <2>5. BurstPlace'
    <3>1. row' \in [BurstKeys -> Statuses]
      BY <1>1, <2>1, <2>4 DEF BurstPlace, BurstKeys, Statuses
    <3>2. \A k \in 1..4 : row'[Burst[k].key] \in Over <=> k < current
      BY <1>1, <2>1, <2>4 DEF BurstPlace, BurstKeys, Over
    <3> QED
      BY <1>1, <2>1, <2>3, <2>4, <3>1, <3>2 DEF BurstPlace
  <2>6. BurstData'
    BY <1>1, <2>1, <2>3, <2>4 DEF BurstData, BurstPlace, BurstKeys, Over, Converged, Queued, UnderWay, Answered
  <2> QED
    BY <1>1, <2>1, <2>3, <2>5, <2>6 DEF BurstInv
<1>8. CASE BurstStep
  <2>1. /\ plan = <<"offline_burst">> /\ at > 0 /\ current \in 1..4
        /\ scenario = Burst[current] /\ phase \in {"ready", "short"}
        /\ InPhase("burst_online_phase") => current = 1
        /\ InPhase("burst_queue_phase") => current = 2
        /\ InPhase("burst_reconnect_phase") => current = 3
        /\ InPhase("burst_convergence") => current = 4
    <3>1. suite = "offline_burst" /\ at > 0
      BY <1>8 DEF BurstStep, OnlinePhase, QueuePhase, ReconnectAll, ReplayThread,
         ReconnectEnds, ConvergencePhase, InPhase
    <3>2. /\ plan = <<"offline_burst">> /\ current \in 1..4
          /\ scenario = Burst[current] /\ phase \in {"ready", "short"}
      BY <1>1, <1>2, <3>1 DEF BurstPlace
    <3> QED
      BY <3>1, <3>2 DEF InPhase, Key
  <2>2. UNCHANGED <<plan, status>> /\ phase' \in {"ready", "short"}
    BY <1>8, <2>1 DEF BurstStep, OnlinePhase, QueuePhase, ReconnectAll, ReplayThread,
       ReconnectEnds, ConvergencePhase, runVars
  <2>3. status["offline_burst"] # "PASSED"
    BY <1>1, <2>1 DEF BurstPlace
  <2>4. ASSUME BurstPlace', BurstData' PROVE BurstInv'
    BY <2>2, <2>3, <2>4 DEF BurstInv
  <2>5. CASE OnlinePhase
    <3>1. current = 1 /\ UNCHANGED <<client, opened, counted>>
      BY <2>1, <2>5 DEF OnlinePhase, productVars
    <3>2. CASE at' = at + 1 /\ UNCHANGED <<row, current, scenario>>
      <4>1. BurstPlace'
        BY <1>1, <2>1, <2>2, <3>1, <3>2 DEF BurstPlace
      <4>2. BurstData'
        BY <1>1, <2>1, <3>1, <3>2 DEF BurstData, BurstPlace, Over, Converged, Answered
      <4> QED
        BY <2>4, <4>1, <4>2
    <3>3. CASE \E passed \in BOOLEAN : Ends(passed)
      <4>1. PICK passed \in BOOLEAN : Ends(passed)
        BY <3>3
      <4>2. /\ BurstPlace'
            /\ current' = 2
            /\ row' = [row EXCEPT !["burst_online_phase"] = IF passed THEN "PASSED" ELSE "FAILED"]
        BY <1>1, <2>1, <2>2, <3>1, <4>1, BurstEnds
      <4>3. BurstData'
        BY <1>1, <2>1, <3>1, <4>2 DEF BurstData, BurstPlace, BurstKeys, Over, Converged, Queued, UnderWay, Answered
      <4> QED
        BY <2>4, <4>2, <4>3
    <3> QED
      BY <2>5, <3>2, <3>3 DEF OnlinePhase, GoOn
  <2>6. CASE QueuePhase
    <3>1. current = 2 /\ UNCHANGED <<opened, counted>>
      <4>1. InPhase("burst_queue_phase") /\ UNCHANGED productVars
        BY <2>6 DEF QueuePhase
      <4> QED
        BY <2>1, <4>1 DEF productVars
    <3> DEFINE passed == phase # "short"
    <3>2. Ends(passed) /\ passed \in BOOLEAN
      BY <2>6 DEF QueuePhase
    <3> HIDE DEF passed
    <3>3. /\ BurstPlace'
          /\ current' = 3
          /\ at' = 0
          /\ row' = [row EXCEPT !["burst_queue_phase"] = IF passed THEN "PASSED" ELSE "FAILED"]
      BY <1>1, <2>1, <2>2, <3>1, <3>2, BurstEnds
    <3>4. client = [d \in Devices |-> NewClient]
      BY <1>1, <2>1, <3>1 DEF BurstData
    <3>5. row["burst_convergence"] \notin Over /\ row["burst_reconnect_phase"] \notin Over
      BY <1>1, <2>1, <3>1 DEF BurstPlace
    <3>6. /\ client' \in [Devices -> ClientType]
          /\ passed => Queued'
      <4> DEFINE Ev(d, id, type, arg) == [id |-> id, type |-> type, arg |-> arg]
                 Events(d) == <<Ev(d, 1, "EMP", Worker(d)), Ev(d, 2, "OP", "RUNNING"),
                                Ev(d, 3, "EMP", Worker(d)), Ev(d, 4, "QTY", "GOOD"),
                                Ev(d, 4, "QTY", "GOOD")>>
                 Off(d) == [client[d] EXCEPT !.online = FALSE, !.queue = Events(d)]
      <4>1. PICK there : /\ client' = [d \in Devices |-> IF d \in there THEN Off(d) ELSE client[d]]
                         /\ phase # "short" => there = Devices
        BY <2>6 DEF QueuePhase
      <4>2. ASSUME NEW d \in Devices PROVE Events(d) \in Seq(Event5) /\ Len(Events(d)) = 5
        BY DEF Event5
      <4>3. ASSUME NEW d \in Devices
            PROVE  Off(d) \in ClientType /\ Off(d).queue = Events(d) /\ Off(d).replies = <<>>
        <5>1. Off(d) = [NewClient EXCEPT !.online = FALSE, !.queue = Events(d)]
          BY <3>4
        <5>2. Events(d) \in Seq(Event5)
          BY <4>2
        <5> HIDE DEF Events, Off
        <5>3. Off(d) = [online |-> FALSE, queue |-> Events(d), sending |-> <<>>,
                        replies |-> <<>>, raised |-> FALSE]
          BY <5>1 DEF NewClient
        <5> QED
          BY <5>2, <5>3 DEF ClientType
      <4> HIDE DEF Events, Off
      <4>4. client' \in [Devices -> ClientType]
        <5>1. client \in [Devices -> ClientType]
          BY <1>1 DEF BurstData
        <5> QED
          BY <4>1, <4>3, <5>1
      <4>5. passed => Queued'
        <5> SUFFICES ASSUME passed, NEW d \in Devices
                     PROVE  Len(client'[d].queue) = 5 /\ client'[d].replies = <<>>
          BY DEF Queued
        <5>1. client'[d] = Off(d)
          BY <4>1 DEF passed
        <5> QED
          BY <4>2, <4>3, <5>1
      <4> QED
        BY <4>4, <4>5
    <3>7. BurstData'
      BY <1>1, <3>3, <3>5, <3>6 DEF BurstData, BurstPlace, BurstKeys, Over
    <3> QED
      BY <2>4, <3>3, <3>7
  <2>7. CASE ReconnectAll
    <3>1. current = 3 /\ at = 1 /\ at' = 2 /\ UNCHANGED <<row, current, scenario, opened, counted>>
      <4>1. InPhase("burst_reconnect_phase") /\ UNCHANGED productVars
        BY <2>7 DEF ReconnectAll
      <4> QED
        BY <2>1, <2>7, <4>1 DEF ReconnectAll, productVars
    <3>2. ASSUME NEW d \in Devices
          PROVE  /\ client'[d] \in ClientType
                 /\ client'[d].sending = client[d].queue
                 /\ client'[d].replies = client[d].replies
      <4>1. client[d] \in ClientType
        BY <1>1 DEF BurstData
      <4>2. client'[d] = [client[d] EXCEPT !.online = TRUE, !.queue = <<>>, !.sending = client[d].queue]
        BY <2>7 DEF ReconnectAll
      <4>3. <<>> \in Seq(Event5)
        OBVIOUS
      <4>4. client'[d] = [online |-> TRUE, queue |-> <<>>, sending |-> client[d].queue,
                          replies |-> client[d].replies, raised |-> client[d].raised]
        BY <4>1, <4>2 DEF ClientType
      <4> QED
        BY <4>1, <4>3, <4>4 DEF ClientType
    <3>3. client' \in [Devices -> ClientType]
      BY <2>7, <3>2 DEF ReconnectAll
    <3>4. BurstPlace'
      BY <1>1, <2>1, <2>2, <3>1 DEF BurstPlace
    <3>5. row["burst_convergence"] \notin Over /\ row["burst_reconnect_phase"] \notin Over
      BY <1>1, <2>1, <3>1 DEF BurstPlace
    <3>6. row["burst_queue_phase"] = "PASSED" => UnderWay'
      <4>1. row["burst_queue_phase"] = "PASSED" => Queued
        BY <1>1, <2>1, <3>1 DEF BurstData
      <4>2. ASSUME NEW d \in Devices, Queued PROVE Due(client'[d]) = 5
        <5>1. Len(client'[d].sending) = 5 /\ client'[d].replies = <<>>
          BY <3>2, <4>2 DEF Queued
        <5>2. Len(client'[d].replies) = 0
          BY <5>1
        <5> QED
          BY <5>1, <5>2 DEF Due
      <4> QED
        BY <4>1, <4>2 DEF UnderWay
    <3>7. BurstData'
      BY <3>1, <3>3, <3>5, <3>6 DEF BurstData, Over
    <3> QED
      BY <2>4, <3>4, <3>7
  <2>8. ASSUME NEW d \in Devices, ReplayThread(d) PROVE BurstInv'
    <3>1. current = 3 /\ at = 2 /\ UNCHANGED <<row, current, at, scenario>>
      BY <2>1, <2>8 DEF ReplayThread, scenarioVars
    <3>2. row["burst_convergence"] \notin Over /\ row["burst_reconnect_phase"] \notin Over
      BY <1>1, <2>1, <3>1 DEF BurstPlace
    <3>3. client[d] \in ClientType /\ client[d].sending # <<>>
      BY <1>1, <2>8 DEF ReplayThread, ReplayOne, BurstData
    <3>4. /\ client' = [client EXCEPT ![d] = client'[d]]
          /\ client'[d] \in ClientType
          /\ \/ client'[d].raised = TRUE
             \/ /\ client'[d].raised = client[d].raised
                /\ Len(client'[d].sending) = Len(client[d].sending) - 1
                /\ Len(client'[d].replies) = Len(client[d].replies) + 1
      <4>1. CASE \E reply \in States \cup Errors :
                    client' = [client EXCEPT ![d].sending = Tail(@), ![d].replies = Append(@, reply)]
        <5>1. PICK reply \in States \cup Errors :
                    client' = [client EXCEPT ![d].sending = Tail(@), ![d].replies = Append(@, reply)]
          BY <4>1
        <5>2. client'[d] = [client[d] EXCEPT !.sending = Tail(client[d].sending),
                                             !.replies = Append(client[d].replies, reply)]
          BY <1>1, <5>1 DEF BurstData, ClientType
        <5>3. Tail(client[d].sending) \in Seq(Event5) /\ Append(client[d].replies, reply) \in Seq(States \cup Errors)
          BY <3>3 DEF ClientType
        <5>4. client'[d] \in ClientType
          BY <3>3, <5>2, <5>3 DEF ClientType
        <5>5. /\ client'[d].raised = client[d].raised
              /\ client'[d].sending = Tail(client[d].sending)
              /\ client'[d].replies = Append(client[d].replies, reply)
          BY <3>3, <5>2 DEF ClientType
        <5>6. /\ Len(Tail(client[d].sending)) = Len(client[d].sending) - 1
              /\ Len(Append(client[d].replies, reply)) = Len(client[d].replies) + 1
          BY <3>3 DEF ClientType
        <5>7. client' = [client EXCEPT ![d] = client'[d]]
          BY <1>1, <5>1 DEF BurstData
        <5> QED
          BY <5>4, <5>5, <5>6, <5>7
      <4>2. CASE client' = [client EXCEPT ![d].sending = <<>>, ![d].raised = TRUE]
        <5>1. client'[d] = [client[d] EXCEPT !.sending = <<>>, !.raised = TRUE]
          BY <1>1, <4>2 DEF BurstData
        <5>2. client'[d] \in ClientType /\ client'[d].raised = TRUE
          <6>1. <<>> \in Seq(Event5)
            OBVIOUS
          <6>2. client'[d] = [online |-> client[d].online, queue |-> client[d].queue, sending |-> <<>>,
                              replies |-> client[d].replies, raised |-> TRUE]
            BY <3>3, <5>1 DEF ClientType
          <6> QED
            BY <3>3, <6>1, <6>2 DEF ClientType
        <5>3. client' = [client EXCEPT ![d] = client'[d]]
          BY <1>1, <4>2 DEF BurstData
        <5> QED
          BY <5>2, <5>3
      <4> QED
        BY <2>8, <4>1, <4>2 DEF ReplayThread, ReplayOne
    <3>5. BurstPlace'
      BY <1>1, <2>1, <2>2, <3>1 DEF BurstPlace
    <3>6. row["burst_queue_phase"] = "PASSED" => UnderWay'
      <4>1. row["burst_queue_phase"] = "PASSED" => UnderWay
        BY <1>1, <2>1, <3>1 DEF BurstData
      <4>2. ASSUME NEW c \in Devices, UnderWay, client'[c].raised = FALSE
            PROVE  Due(client'[c]) = 5
        <5>1. client[c].raised = FALSE => Due(client[c]) = 5
          BY <4>2 DEF UnderWay
        <5>2. CASE c = d
          <6>1. Due(client[d]) = 5
            BY <3>4, <4>2, <5>1, <5>2
          <6>2. Len(client[d].sending) \in Nat /\ Len(client[d].replies) \in Nat
            BY <3>3 DEF ClientType
          <6> QED
            BY <3>4, <4>2, <5>2, <6>1, <6>2, ReplayedIsDue
        <5>3. CASE c # d
          <6>1. client'[c] = client[c]
            BY <1>1, <3>4, <5>3 DEF BurstData
          <6> QED
            BY <4>2, <5>1, <6>1
        <5> QED
          BY <5>2, <5>3
      <4> QED
        BY <4>1, <4>2 DEF UnderWay
    <3>7. client' \in [Devices -> ClientType]
      BY <1>1, <3>4 DEF BurstData
    <3>8. BurstData'
      BY <3>1, <3>2, <3>6, <3>7 DEF BurstData, Over
    <3> QED
      BY <2>4, <3>5, <3>8
  <2>9. CASE ReconnectEnds
    <3>1. current = 3 /\ at = 2 /\ UNCHANGED <<client, opened, counted>>
      BY <2>1, <2>9 DEF ReconnectEnds, InPhase, Key, clientVars, productVars
    <3> DEFINE passed == \A d \in Devices : ~client[d].raised
    <3>2. Ends(passed) /\ passed \in BOOLEAN /\ \A d \in Devices : client[d].sending = <<>>
      BY <2>9 DEF ReconnectEnds
    <3>3. passed /\ row["burst_queue_phase"] = "PASSED" => Answered
      <4>1. row["burst_queue_phase"] = "PASSED" => UnderWay
        BY <1>1, <2>1, <3>1 DEF BurstData
      <4>2. ASSUME NEW d \in Devices, UnderWay, passed PROVE Len(client[d].replies) = 5
        <5>1. client[d] \in ClientType /\ client[d].sending = <<>>
          BY <1>1, <3>2 DEF BurstData
        <5>2. client[d].raised = FALSE
          BY <4>2, <5>1 DEF ClientType
        <5>3. Due(client[d]) = 5
          BY <4>2, <5>2 DEF UnderWay
        <5>4. Len(client[d].replies) \in Nat /\ Len(client[d].sending) = 0
          BY <5>1 DEF ClientType
        <5> QED
          BY <5>3, <5>4 DEF Due
      <4> QED
        BY <4>1, <4>2 DEF Answered
    <3> HIDE DEF passed
    <3>4. /\ BurstPlace'
          /\ current' = 4
          /\ row' = [row EXCEPT !["burst_reconnect_phase"] = IF passed THEN "PASSED" ELSE "FAILED"]
      BY <1>1, <2>1, <2>2, <3>1, <3>2, BurstEnds
    <3>5. BurstData'
      BY <1>1, <2>1, <3>1, <3>3, <3>4 DEF BurstData, BurstPlace, BurstKeys, Over, Converged, Queued, UnderWay, Answered
    <3> QED
      BY <2>4, <3>4, <3>5
  <2>10. CASE ConvergencePhase
    <3>1. current = 4 /\ UNCHANGED <<client, opened, counted>>
      BY <2>1, <2>10 DEF ConvergencePhase, InPhase, Key, productVars
    <3>2. PICK passed \in BOOLEAN : Ends(passed) /\ (passed => Converged)
      <4>1. Ends(Converged) \/ Ends(FALSE)
        BY <2>10 DEF ConvergencePhase
      <4>2. Converged \in BOOLEAN
        BY DEF Converged
      <4> QED
        BY <4>1, <4>2
    <3>3. /\ BurstPlace'
          /\ current' = 5
          /\ row' = [row EXCEPT !["burst_convergence"] = IF passed THEN "PASSED" ELSE "FAILED"]
      BY <1>1, <2>1, <2>2, <3>1, <3>2, BurstEnds
    <3>4. BurstData'
      BY <1>1, <2>1, <3>1, <3>2, <3>3 DEF BurstData, BurstPlace, BurstKeys, Over, Converged, Queued, UnderWay, Answered
    <3> QED
      BY <2>4, <3>3, <3>4
  <2> QED
    BY <1>8, <2>5, <2>6, <2>7, <2>8, <2>9, <2>10 DEF BurstStep
<1> QED
  BY <1>4, <1>5, <1>6, <1>7, <1>8 DEF Next

\* Whatever fails and however the threads interleave, a burst PASSES only when each
\* kiosk's quantity was counted once, and its reconnect phase only when every queued
\* event was answered.
THEOREM LostNoticed == Spec => []LostIsNoticed
<1>1. BurstInv /\ [Next]_vars => BurstInv'
  <2> SUFFICES ASSUME BurstInv, [Next]_vars, Runs("offline_burst")' PROVE BurstInv'
    BY DEF BurstInv
  <2>1. Runs("offline_burst")
    BY RowsStay DEF Runs
  <2>2. CASE Next
    BY <2>1, <2>2, BurstStepKeeps
  <2>3. CASE UNCHANGED vars
    BY <2>1, <2>3
    DEF vars, runVars, scenarioVars, clientVars, productVars, BurstInv, BurstPlace, BurstData,
        Converged, Queued, UnderWay, Answered
  <2> QED
    BY <2>2, <2>3
<1>2. BurstInv => LostIsNoticed
  BY DEF BurstInv, BurstPlace, BurstData, LostIsNoticed, Converged, IsOpen, Answered
<1> QED
  BY <1>1, <1>2, BurstBegins, PTL DEF Spec

-----------------------------------------------------------------------------
(* The namespaces: what is there while a suite runs, and after it          *)

\* What an operation is about: an application of the namespace s, s itself, or nothing seen here
AppOps == {"stop", "pause", "unpause", "reconnect", "cut", "start", "restart", "run", "rm"}
SiteOps == {"run_db", "rm_db", "create_net", "create_vol", "rm_net", "rm_vol", "join", "leave",
            "seed", "work", "dump", "count", "drop", "create", "restore", "deploy", "compose_up",
            "compose_down", "destroy", "restart_db", "stop_db"}
OtherOps == {"load", "config", "alpine", "inspect_db", "exec"}

Acts(op, x, s) ==
    \/ op \in AppOps /\ x \in AppsOf(s)
    \/ op \in SiteOps /\ x = s
    \/ op \in OtherOps

Data == [schema : {"none", "blank", "old", "new", "mixed"}, rows : 0..2]
AppStates == {"up", "down", "paused", "cut", "absent"}
DockerType ==
    [app : [Apps -> AppStates],
     db : [Sites -> {"up", "down", "absent"}], data : [Sites -> Data],
     nets : SUBSET Sites, vols : SUBSET Sites, joined : SUBSET Sites,
     dump : Data, counts : 0..2]

\* The namespaces that a suite works on
SitesOf(s) ==
    CASE s \in {"upgrade", "rollback"} -> {"upgrade"}
      [] s = "backup_restore" -> {"source", "restore"}
      [] s = "test_deployment" -> {"compose"}
      [] s \in {"recovery", "chaos", "scheduler_reliability"} -> {"release"}
      [] OTHER -> {}

OwnSites == Sites \ {"release"}
Closed(s) == ~Present(s) /\ s \notin docker.joined
Active(s) == plan # <<>> /\ phase # "before" /\ s \in SitesOf(suite)
Excused == "cleanup" \in hit
JoinRaised == "old_version_deploys" \in hit

\* What a cleanup without failing calls leaves: of upgrade's, the network when its join raised.
Cleared(s) ==
    /\ \A a \in AppsOf(s) : docker.app[a] = "absent"
    /\ docker.db[s] = "absent"
    /\ s \notin docker.vols
    /\ s \in docker.joined => s = "upgrade" /\ JoinRaised
    /\ s \in docker.nets => s \in docker.joined

\* A scenario of a suite keeps to the suite's namespaces.
Confined(c, s) ==
    /\ Len(c.script) \in Nat
    /\ \A n \in 1..Len(c.script) :
          LET step == c.script[n]
          IN  /\ step.miss \in Nat
              /\ step.do = "docker" =>
                    /\ \E p \in SitesOf(s) : Acts(step.type, step.arg, p)
                    /\ s \in {"upgrade", "rollback"} =>
                          step.type # "deploy" /\ (step.type = "join" => c.key = "old_version_deploys")

AllConfined == \A s \in Suites : \A k \in 1..Len(Scenarios[s]) : Confined(Scenarios[s][k], s)

Place ==
    /\ plan \in Seq(Suites)
    /\ current \in Nat \ {0}
    /\ at \in Nat
    /\ faults \in Int
    /\ joined_network \in BOOLEAN
    /\ plan = <<>> => phase = "before"
    /\ phase = "before" => at = 0
    /\ at > 0 /\ phase # "cleanup" =>
          current <= Len(Scenarios[suite]) /\ scenario = Scenarios[suite][current]
    /\ phase = "cleanup" =>
          /\ suite \in Strict
          /\ at > 0
          /\ scenario = [key |-> "cleanup", script |-> CleanupOf(suite)]

RowsRun ==
    /\ Runs("upgrade") /\ Active("upgrade") => status["upgrade"] = "RUNNING"
    /\ Runs("test_deployment") /\ Active("compose") => status["test_deployment"] = "RUNNING"
    /\ Runs("backup_restore_recovery") /\ Active("source") /\ phase # "cleanup" =>
          status["backup_restore_recovery"] = "RUNNING"

SitesInv == \A s \in OwnSites : ~Active(s) /\ ~Excused => Cleared(s)
JoinInv == Active("upgrade") /\ ~Excused /\ "upgrade" \in docker.joined => joined_network \/ JoinRaised
CleanupInv ==
    phase = "cleanup" /\ "cleanup" \notin hit =>
        /\ suite \in {"upgrade", "rollback"} =>
              /\ at >= 2 => docker.app["old"] = "absent"
              /\ at >= 3 => docker.app["new"] = "absent"
              /\ at >= 4 => docker.db["upgrade"] = "absent"
              /\ at >= 5 => ("upgrade" \in docker.joined => JoinRaised)
              /\ at >= 6 => ("upgrade" \in docker.nets => "upgrade" \in docker.joined)
              /\ at >= 7 => "upgrade" \notin docker.vols
        /\ suite = "test_deployment" =>
              /\ at >= 2 => "compose" \notin docker.joined
              /\ at >= 3 => Closed("compose")
        /\ suite = "backup_restore" =>
              /\ at >= 2 => Closed("source")
              /\ at >= 3 => Closed("restore")
BackupAlone ==
    Runs("backup_restore_recovery") =>
        /\ plan \in {<<>>, <<"backup_restore">>}
        /\ Closed("upgrade") /\ Closed("compose")
        /\ "release" \in docker.nets

NamespacesInv == docker \in DockerType /\ Place /\ RowsRun /\ SitesInv /\ JoinInv /\ CleanupInv /\ BackupAlone

-----------------------------------------------------------------------------
(* What the operations at containers change                                *)

\* The same is left of the namespace s.
Same(d, e, s) ==
    /\ s \in d.nets <=> s \in e.nets
    /\ s \in d.vols <=> s \in e.vols
    /\ s \in d.joined <=> s \in e.joined
    /\ d.db[s] = e.db[s]
    /\ d.data[s] = e.data[s]
    /\ \A a \in AppsOf(s) : d.app[a] = e.app[a]

\* The applications of the namespaces, written out: each is of one namespace.
LEMMA SitesAre ==
    /\ Apps = {"app", "old", "new", "sourceApp", "restoreApp", "composeApp"}
    /\ AppsOf("release") = {"app"} /\ AppsOf("upgrade") = {"old", "new"}
    /\ AppsOf("source") = {"sourceApp"} /\ AppsOf("restore") = {"restoreApp"}
    /\ AppsOf("compose") = {"composeApp"}
    /\ \A s \in Sites : \A a \in AppsOf(s) : a \in Apps /\ SiteOf(a) = s
    /\ \A s, r \in Sites : \A a \in AppsOf(s) : a \in AppsOf(r) => r = s
<1>1. /\ AppsOf("release") = {"app"} /\ AppsOf("upgrade") = {"old", "new"}
      /\ AppsOf("source") = {"sourceApp"} /\ AppsOf("restore") = {"restoreApp"}
      /\ AppsOf("compose") = {"composeApp"}
  BY DEF AppsOf
<1>2. Apps = {"app", "old", "new", "sourceApp", "restoreApp", "composeApp"}
  BY <1>1 DEF Apps, Sites
<1>3. \A s, r \in Sites : \A a \in AppsOf(s) : a \in AppsOf(r) => r = s
  BY <1>1 DEF Sites
<1>4. ASSUME NEW s \in Sites, NEW a \in AppsOf(s) PROVE a \in Apps /\ SiteOf(a) = s
  BY <1>3 DEF Apps, SiteOf
<1> QED
  BY <1>1, <1>2, <1>3, <1>4

\* What changes the namespace s only
OnlyAt(e, s) ==
    /\ e = [app |-> e.app, db |-> e.db, data |-> e.data, nets |-> e.nets, vols |-> e.vols,
            joined |-> e.joined, dump |-> e.dump, counts |-> e.counts]
    /\ e.app \in [Apps -> AppStates] /\ e.db \in [Sites -> {"up", "down", "absent"}]
    /\ e.data \in [Sites -> Data] /\ e.nets \subseteq Sites /\ e.vols \subseteq Sites
    /\ e.joined \subseteq Sites /\ e.dump \in Data /\ e.counts \in 0..2
    /\ \A r \in Sites \ {s} :
           /\ e.db[r] = docker.db[r] /\ e.data[r] = docker.data[r]
           /\ r \in e.nets <=> r \in docker.nets
           /\ r \in e.vols <=> r \in docker.vols
           /\ r \in e.joined <=> r \in docker.joined
           /\ \A a \in AppsOf(r) : e.app[a] = docker.app[a]

\* What changes one namespace only keeps Docker's type and the other namespaces.
LEMMA LocalChange ==
    ASSUME docker \in DockerType, NEW s \in Sites, NEW e, OnlyAt(e, s)
    PROVE  e \in DockerType /\ \A r \in Sites \ {s} : Same(docker, e, r)
<1>1. e \in DockerType
  BY DEF DockerType, AppStates, OnlyAt
<1>2. \A r \in Sites \ {s} : Same(docker, e, r)
  BY DEF Same, OnlyAt
<1> QED
  BY <1>1, <1>2

\* Each operation leaves the other namespaces alone.
LEMMA AfterIsLocal ==
    ASSUME docker \in DockerType, NEW s \in Sites, NEW op, NEW x, Acts(op, x, s)
    PROVE  After(op, x) \in DockerType /\ \A r \in Sites \ {s} : Same(docker, After(op, x), r)
<1> DEFINE Rec(app, db, data, nets, vols, joined, dump, counts) ==
               [app |-> app, db |-> db, data |-> data, nets |-> nets, vols |-> vols,
                joined |-> joined, dump |-> dump, counts |-> counts]
           DR == [app |-> docker.app, db |-> docker.db, data |-> docker.data, nets |-> docker.nets,
                  vols |-> docker.vols, joined |-> docker.joined, dump |-> docker.dump, counts |-> docker.counts]
<1>0. /\ docker.app \in [Apps -> AppStates]
      /\ docker.db \in [Sites -> {"up", "down", "absent"}] /\ docker.data \in [Sites -> Data]
      /\ docker.nets \in SUBSET Sites /\ docker.vols \in SUBSET Sites /\ docker.joined \in SUBSET Sites
      /\ docker.dump \in Data /\ docker.counts \in 0..2
      /\ docker = DR
  BY DEF DockerType, AppStates
<1>1. ASSUME op \notin AppOps, op \notin OtherOps PROVE x = s
  BY <1>1 DEF Acts
<1>2. CASE op \in AppOps
  <2>1. x \in AppsOf(s) /\ x \in Apps /\ SiteOf(x) = s
    BY <1>2, SitesAre DEF Acts, AppOps, SiteOps, OtherOps
  <2>2. Booted(x, docker.data[s]) \in Data
    BY <1>0 DEF Booted, Data
  <2>3. \E v \in AppStates, w \in Data :
           After(op, x) = Rec([docker.app EXCEPT ![x] = v], docker.db, [docker.data EXCEPT ![s] = w], docker.nets,
                              docker.vols, docker.joined, docker.dump, docker.counts)
    <3>1. CASE op \in {"start", "restart", "run"}
      <4>1. After(op, x) = [DR EXCEPT !.app = [docker.app EXCEPT ![x] = "up"],
                               !.data = [docker.data EXCEPT ![s] = Booted(x, docker.data[s])]]
        BY <1>0, <2>1, <3>1 DEF After
      <4> HIDE DEF After
      <4>2. After(op, x) = Rec([docker.app EXCEPT ![x] = "up"], docker.db, [docker.data EXCEPT ![s] = Booted(x, docker.data[s])],
                               docker.nets, docker.vols, docker.joined, docker.dump, docker.counts)
        BY <4>1
      <4> QED
        BY <2>2, <4>2 DEF AppStates
    <3>2. CASE op \notin {"start", "restart", "run"}
      <4>1. PICK v \in AppStates : After(op, x) = [DR EXCEPT !.app = [docker.app EXCEPT ![x] = v]]
        BY <1>0, <1>2, <2>1, <3>2 DEF After, AppOps, AppStates
      <4>2. docker.data = [docker.data EXCEPT ![s] = docker.data[s]] /\ docker.data[s] \in Data
        BY <1>0
      <4>3. After(op, x) = Rec([docker.app EXCEPT ![x] = v], docker.db, docker.data,
                               docker.nets, docker.vols, docker.joined, docker.dump, docker.counts)
        BY <4>1
      <4> QED
        BY <4>2, <4>3
    <3> QED
      BY <3>1, <3>2
  <2>4. PICK v \in AppStates, w \in Data :
           After(op, x) = Rec([docker.app EXCEPT ![x] = v], docker.db, [docker.data EXCEPT ![s] = w], docker.nets,
                              docker.vols, docker.joined, docker.dump, docker.counts)
    BY <2>3
  <2> DEFINE app == [docker.app EXCEPT ![x] = v]
             data == [docker.data EXCEPT ![s] = w]
  <2>5. /\ app \in [Apps -> AppStates] /\ data \in [Sites -> Data]
        /\ \A r \in Sites \ {s} : data[r] = docker.data[r] /\ \A a \in AppsOf(r) : app[a] = docker.app[a]
    BY <1>0, <2>1, SitesAre
  <2>6. After(op, x) = [app |-> app, db |-> docker.db, data |-> data, nets |-> docker.nets, vols |-> docker.vols,
                joined |-> docker.joined, dump |-> docker.dump, counts |-> docker.counts]
    BY <2>4
  <2> HIDE DEF app, data, After
  <2> DEFINE e == After(op, x)
  <2>7. /\ e.app = app /\ e.db = docker.db /\ e.data = data /\ e.nets = docker.nets
        /\ e.vols = docker.vols /\ e.joined = docker.joined /\ e.dump = docker.dump
        /\ e.counts = docker.counts
    BY <2>6
  <2>8. OnlyAt(e, s)
    BY <1>0, <2>5, <2>6, <2>7 DEF OnlyAt
  <2> QED
    BY <2>8, LocalChange
<1>3. CASE op \in SiteOps \ {"deploy", "compose_up", "compose_down", "destroy"}
  <2> DEFINE e == After(op, x)
  <2>1. x = s
    BY <1>1, <1>3 DEF AppOps, SiteOps, OtherOps
  <2>2. NoData \in Data /\ Blank \in Data /\ Restored(docker.data[s]) \in Data
        /\ [docker.data[s] EXCEPT !.rows = 1] \in Data /\ [docker.data[s] EXCEPT !.rows = 2] \in Data
        /\ docker.data[s] \in Data /\ docker.data[s].rows \in 0..2
    BY <1>0 DEF NoData, Blank, Restored, Data
  <2>3. CASE op = "run_db"
    <3>1. e = [DR EXCEPT !.db = [docker.db EXCEPT ![s] = "up"], !.data = [docker.data EXCEPT ![s] = Blank]]
      BY <1>0, <2>1, <2>3 DEF After
    <3> DEFINE db == [docker.db EXCEPT ![s] = "up"]
               data == [docker.data EXCEPT ![s] = Blank]
    <3>2. /\ db \in [Sites -> {"up", "down", "absent"}] /\ data \in [Sites -> Data]
          /\ \A r \in Sites \ {s} : db[r] = docker.db[r] /\ data[r] = docker.data[r]
      BY <1>0, <2>2
    <3> HIDE DEF db, data, After
    <3>3. e = [app |-> docker.app, db |-> db, data |-> data, nets |-> docker.nets,
               vols |-> docker.vols, joined |-> docker.joined, dump |-> docker.dump, counts |-> docker.counts]
      BY <3>1 DEF db, data
    <3>4. /\ e.app = docker.app /\ e.db = db /\ e.data = data /\ e.nets = docker.nets
          /\ e.vols = docker.vols /\ e.joined = docker.joined /\ e.dump = docker.dump
          /\ e.counts = docker.counts
      BY <3>3
    <3>5. OnlyAt(e, s)
      BY <1>0, <3>2, <3>3, <3>4 DEF OnlyAt
    <3> QED
      BY <3>5, LocalChange
  <2>9. CASE op \in {"rm_db", "stop_db"}
    <3>1. PICK v \in {"down", "absent"} : e = [DR EXCEPT !.db = [docker.db EXCEPT ![s] = v]]
      BY <1>0, <2>1, <2>2, <2>9 DEF After
    <3> DEFINE db == [docker.db EXCEPT ![s] = v]
    <3>2. /\ db \in [Sites -> {"up", "down", "absent"}]
          /\ \A r \in Sites \ {s} : db[r] = docker.db[r]
      BY <1>0, <2>2
    <3> HIDE DEF db, After
    <3>3. e = [app |-> docker.app, db |-> db, data |-> docker.data, nets |-> docker.nets,
               vols |-> docker.vols, joined |-> docker.joined, dump |-> docker.dump, counts |-> docker.counts]
      BY <3>1 DEF db
    <3>4. /\ e.app = docker.app /\ e.db = db /\ e.data = docker.data /\ e.nets = docker.nets
          /\ e.vols = docker.vols /\ e.joined = docker.joined /\ e.dump = docker.dump
          /\ e.counts = docker.counts
      BY <3>3
    <3>5. OnlyAt(e, s)
      BY <1>0, <3>2, <3>3, <3>4 DEF OnlyAt
    <3> QED
      BY <3>5, LocalChange
  <2>4. CASE op \in {"seed", "work", "drop", "create", "restore"}
    <3>1. PICK w \in Data : e = [DR EXCEPT !.data = [docker.data EXCEPT ![s] = w]]
      BY <1>0, <2>1, <2>2, <2>4 DEF After
    <3> DEFINE data == [docker.data EXCEPT ![s] = w]
    <3>2. /\ data \in [Sites -> Data]
          /\ \A r \in Sites \ {s} : data[r] = docker.data[r]
      BY <1>0, <2>2
    <3> HIDE DEF data, After
    <3>3. e = [app |-> docker.app, db |-> docker.db, data |-> data, nets |-> docker.nets,
               vols |-> docker.vols, joined |-> docker.joined, dump |-> docker.dump, counts |-> docker.counts]
      BY <3>1 DEF data
    <3>4. /\ e.app = docker.app /\ e.db = docker.db /\ e.data = data /\ e.nets = docker.nets
          /\ e.vols = docker.vols /\ e.joined = docker.joined /\ e.dump = docker.dump
          /\ e.counts = docker.counts
      BY <3>3
    <3>5. OnlyAt(e, s)
      BY <1>0, <3>2, <3>3, <3>4 DEF OnlyAt
    <3> QED
      BY <3>5, LocalChange
  <2>10. CASE op = "rm_vol"
    <3>1. e = [DR EXCEPT !.data = [docker.data EXCEPT ![s] = NoData], !.vols = docker.vols \ {s}]
      BY <1>0, <2>1, <2>10 DEF After
    <3> DEFINE data == [docker.data EXCEPT ![s] = NoData]
    <3>2. /\ data \in [Sites -> Data]
          /\ \A r \in Sites \ {s} : data[r] = docker.data[r]
      BY <1>0, <2>2
    <3> HIDE DEF data, After
    <3>3. e = [app |-> docker.app, db |-> docker.db, data |-> data, nets |-> docker.nets,
               vols |-> docker.vols \ {s}, joined |-> docker.joined, dump |-> docker.dump, counts |-> docker.counts]
      BY <3>1 DEF data
    <3>4. /\ e.app = docker.app /\ e.db = docker.db /\ e.data = data /\ e.nets = docker.nets
          /\ e.vols = docker.vols \ {s} /\ e.joined = docker.joined /\ e.dump = docker.dump
          /\ e.counts = docker.counts
      BY <3>3
    <3>5. OnlyAt(e, s)
      BY <1>0, <3>2, <3>3, <3>4 DEF OnlyAt
    <3> QED
      BY <3>5, LocalChange
  <2>5. CASE op \in {"create_net", "create_vol", "rm_net", "join", "leave"}
    <3>1. PICK nets \in {docker.nets, docker.nets \cup {s}, docker.nets \ {s}},
               vols \in {docker.vols, docker.vols \cup {s}},
               joined \in {docker.joined, docker.joined \cup {s}, docker.joined \ {s}} :
             e = [DR EXCEPT !.nets = nets, !.vols = vols, !.joined = joined]
      <4>1. CASE op = "create_net"
        <5>1. e = [DR EXCEPT !.nets = docker.nets \cup {s}, !.vols = docker.vols, !.joined = docker.joined]
          BY <1>0, <2>1, <4>1 DEF After
        <5> HIDE DEF e
        <5> QED
          BY <5>1
      <4>2. CASE op = "create_vol"
        <5>1. e = [DR EXCEPT !.nets = docker.nets, !.vols = docker.vols \cup {s}, !.joined = docker.joined]
          BY <1>0, <2>1, <4>2 DEF After
        <5> HIDE DEF e
        <5> QED
          BY <5>1
      <4>3. CASE op = "rm_net"
        <5>1. e = [DR EXCEPT !.nets = docker.nets \ {s}, !.vols = docker.vols, !.joined = docker.joined]
          BY <1>0, <2>1, <4>3 DEF After
        <5> HIDE DEF e
        <5> QED
          BY <5>1
      <4>4. CASE op = "join"
        <5>1. e = [DR EXCEPT !.nets = docker.nets, !.vols = docker.vols, !.joined = docker.joined \cup {s}]
          BY <1>0, <2>1, <4>4 DEF After
        <5> HIDE DEF e
        <5> QED
          BY <5>1
      <4>5. CASE op = "leave"
        <5>1. e = [DR EXCEPT !.nets = docker.nets, !.vols = docker.vols, !.joined = docker.joined \ {s}]
          BY <1>0, <2>1, <4>5 DEF After
        <5> HIDE DEF e
        <5> QED
          BY <5>1
      <4> QED
        BY <2>5, <4>1, <4>2, <4>3, <4>4, <4>5
    <3>2. /\ nets \subseteq Sites /\ vols \subseteq Sites /\ joined \subseteq Sites
          /\ \A r \in Sites \ {s} : /\ r \in nets <=> r \in docker.nets
                                    /\ r \in vols <=> r \in docker.vols
                                    /\ r \in joined <=> r \in docker.joined
      BY <1>0
    <3> HIDE DEF After
    <3>4. e = [app |-> docker.app, db |-> docker.db, data |-> docker.data, nets |-> nets, vols |-> vols,
               joined |-> joined, dump |-> docker.dump, counts |-> docker.counts]
      BY <3>1
    <3>5. /\ e.app = docker.app /\ e.db = docker.db /\ e.data = docker.data /\ e.nets = nets
          /\ e.vols = vols /\ e.joined = joined /\ e.dump = docker.dump
          /\ e.counts = docker.counts
      BY <3>4
    <3>6. OnlyAt(e, s)
      BY <1>0, <3>2, <3>4, <3>5 DEF OnlyAt
    <3> QED
      BY <3>6, LocalChange
  <2>6. CASE op = "dump"
    <3>1. e = [DR EXCEPT !.dump = docker.data[s]]
      BY <1>0, <2>1, <2>6 DEF After
    <3> HIDE DEF After
    <3>2. e = [app |-> docker.app, db |-> docker.db, data |-> docker.data, nets |-> docker.nets, vols |-> docker.vols,
               joined |-> docker.joined, dump |-> docker.data[s], counts |-> docker.counts]
      BY <3>1
    <3>3. OnlyAt(e, s)
      BY <1>0, <2>2, <3>2 DEF OnlyAt
    <3> QED
      BY <3>3, LocalChange
  <2>7. CASE op = "count"
    <3>1. e = [DR EXCEPT !.counts = docker.data[s].rows]
      BY <1>0, <2>1, <2>7 DEF After
    <3> HIDE DEF After
    <3>2. e = [app |-> docker.app, db |-> docker.db, data |-> docker.data, nets |-> docker.nets, vols |-> docker.vols,
               joined |-> docker.joined, dump |-> docker.dump, counts |-> docker.data[s].rows]
      BY <3>1
    <3>3. OnlyAt(e, s)
      BY <1>0, <2>2, <3>2 DEF OnlyAt
    <3> QED
      BY <3>3, LocalChange
  <2>8. CASE op = "restart_db"
    <3>1. e = docker
      BY <2>8 DEF After
    <3> QED
      BY <3>1 DEF Same
  <2> QED
    BY <1>3, <2>3, <2>4, <2>5, <2>6, <2>7, <2>8, <2>9, <2>10 DEF SiteOps
<1>4. CASE op \in {"deploy", "compose_up", "compose_down", "destroy"}
  <2>1. x = s
    BY <1>1, <1>4 DEF AppOps, OtherOps
  <2>2. PICK v \in {"up", "absent"}, w \in Data, nets \in {docker.nets \cup {s}, docker.nets, docker.nets \ {s}},
             vols \in {docker.vols \cup {s}, docker.vols \ {s}},
             joined \in {docker.joined, docker.joined \cup {s}, docker.joined \ {s}} :
           After(op, x) = Rec([a \in Apps |-> IF a \in AppsOf(s) THEN v ELSE docker.app[a]], [docker.db EXCEPT ![s] = v],
                              [docker.data EXCEPT ![s] = w], nets, vols, joined, docker.dump, docker.counts)
    <3>1. NoData \in Data /\ [schema |-> "new", rows |-> 0] \in Data
      BY DEF NoData, Data
    <3>2. CASE op \in {"deploy", "compose_up"}
      <4>1. PICK joined \in {docker.joined, docker.joined \cup {s}} :
               After(op, x) = [DR EXCEPT !.nets = docker.nets \cup {s}, !.vols = docker.vols \cup {s},
                                 !.db = [docker.db EXCEPT ![s] = "up"],
                                 !.data = [docker.data EXCEPT ![s] = [schema |-> "new", rows |-> 0]],
                                 !.app = [a \in Apps |-> IF a \in AppsOf(s) THEN "up" ELSE docker.app[a]],
                                 !.joined = joined]
        BY <1>0, <2>1, <3>2 DEF After, Deployed
      <4>2. After(op, x) = Rec([a \in Apps |-> IF a \in AppsOf(s) THEN "up" ELSE docker.app[a]], [docker.db EXCEPT ![s] = "up"],
                              [docker.data EXCEPT ![s] = [schema |-> "new", rows |-> 0]],
                              docker.nets \cup {s}, docker.vols \cup {s}, joined, docker.dump, docker.counts)
        BY <4>1
      <4> HIDE DEF Rec, DR
      <4> QED
        BY <3>1, <4>2
    <3>3. PICK nets \in {docker.nets, docker.nets \ {s}} :
             Removed(s) = Rec([a \in Apps |-> IF a \in AppsOf(s) THEN "absent" ELSE docker.app[a]], [docker.db EXCEPT ![s] = "absent"],
                              [docker.data EXCEPT ![s] = NoData], nets, docker.vols \ {s}, docker.joined, docker.dump, docker.counts)
      <4> DEFINE app == [a \in Apps |-> IF a \in AppsOf(s) THEN "absent" ELSE docker.app[a]]
                 db == [docker.db EXCEPT ![s] = "absent"]
                 data == [docker.data EXCEPT ![s] = NoData]
                 nets == IF s \in docker.joined THEN docker.nets ELSE docker.nets \ {s}
      <4>1. Removed(s) = [DR EXCEPT !.nets = nets, !.vols = docker.vols \ {s}, !.db = db, !.data = data, !.app = app]
        BY <1>0 DEF Removed
      <4>2. nets \in {docker.nets, docker.nets \ {s}}
        OBVIOUS
      <4> HIDE DEF app, db, data, nets
      <4>3. Removed(s) = Rec(app, db, data, nets, docker.vols \ {s}, docker.joined, docker.dump, docker.counts)
        BY <4>1
      <4> HIDE DEF Rec
      <4> QED
        BY <4>2, <4>3 DEF app, db, data
    <3>4. CASE op = "compose_down"
      <4>1. After(op, x) = Removed(s)
        BY <2>1, <3>4 DEF After
      <4> HIDE DEF Rec, DR
      <4> QED
        BY <3>1, <3>3, <4>1
    <3>5. CASE op = "destroy"
      <4>1. After(op, x) = [Removed(s) EXCEPT !.nets = Removed(s).nets \ {s}, !.joined = Removed(s).joined \ {s}]
        BY <2>1, <3>3, <3>5 DEF After
      <4> DEFINE app == [a \in Apps |-> IF a \in AppsOf(s) THEN "absent" ELSE docker.app[a]]
                 db == [docker.db EXCEPT ![s] = "absent"]
                 data == [docker.data EXCEPT ![s] = NoData]
      <4>2. After(op, x) = Rec(app, db, data, nets \ {s}, docker.vols \ {s}, docker.joined \ {s}, docker.dump, docker.counts)
        <5>1. Removed(s) = [app |-> app, db |-> db, data |-> data, nets |-> nets, vols |-> docker.vols \ {s},
                            joined |-> docker.joined, dump |-> docker.dump, counts |-> docker.counts]
          BY <3>3
        <5> HIDE DEF app, db, data, After
        <5>2. Removed(s).nets = nets /\ Removed(s).joined = docker.joined
          BY <5>1
        <5>3. After(op, x) = [[app |-> app, db |-> db, data |-> data, nets |-> nets, vols |-> docker.vols \ {s},
                            joined |-> docker.joined, dump |-> docker.dump, counts |-> docker.counts]
                         EXCEPT !.nets = nets \ {s}, !.joined = docker.joined \ {s}]
          BY <4>1, <5>1, <5>2
        <5> QED
          BY <5>3
      <4>3. nets \ {s} = docker.nets \ {s}
        OBVIOUS
      <4> HIDE DEF Rec, DR
      <4> QED
        BY <3>1, <4>2, <4>3
    <3> QED
      BY <1>4, <3>2, <3>4, <3>5
  <2> DEFINE app == [a \in Apps |-> IF a \in AppsOf(s) THEN v ELSE docker.app[a]]
             db == [docker.db EXCEPT ![s] = v]
             data == [docker.data EXCEPT ![s] = w]
  <2>3. /\ app \in [Apps -> AppStates] /\ data \in [Sites -> Data]
        /\ db \in [Sites -> {"up", "down", "absent"}]
        /\ \A r \in Sites \ {s} : /\ data[r] = docker.data[r] /\ db[r] = docker.db[r]
                                  /\ \A a \in AppsOf(r) : app[a] = docker.app[a]
    BY <1>0, SitesAre DEF AppStates
  <2>4. After(op, x) = [app |-> app, db |-> db, data |-> data, nets |-> nets, vols |-> vols,
                joined |-> joined, dump |-> docker.dump, counts |-> docker.counts]
    BY <2>2
  <2>5. /\ nets \in SUBSET Sites /\ vols \in SUBSET Sites /\ joined \in SUBSET Sites
        /\ \A r \in Sites \ {s} : /\ r \in nets <=> r \in docker.nets
                                  /\ r \in vols <=> r \in docker.vols
                                  /\ r \in joined <=> r \in docker.joined
    BY <1>0
  <2> HIDE DEF app, data, db
  <2> DEFINE e == After(op, x)
  <2>6. /\ e.app = app /\ e.db = db /\ e.data = data /\ e.nets = nets
        /\ e.vols = vols /\ e.joined = joined /\ e.dump = docker.dump /\ e.counts = docker.counts
    BY <2>4
  <2>7. OnlyAt(e, s)
    BY <1>0, <2>3, <2>4, <2>5, <2>6 DEF OnlyAt
  <2> QED
    BY <2>7, LocalChange
<1>5. CASE op \in OtherOps
  <2>1. After(op, x) = docker
    BY <1>5 DEF After, OtherOps
  <2> QED
    BY <2>1 DEF Same
<1> QED
  BY <1>2, <1>3, <1>4, <1>5 DEF Acts

\* Docker's state, written out
DR == [app |-> docker.app, db |-> docker.db, data |-> docker.data, nets |-> docker.nets,
       vols |-> docker.vols, joined |-> docker.joined, dump |-> docker.dump, counts |-> docker.counts]

\* Docker's state is its record of fields.
LEMMA DockerIs == docker \in DockerType => docker = DR
  BY DEF DockerType, DR

\* Only a join and a deployment connect the QA center to a network.
LEMMA AfterJoined ==
    ASSUME docker \in DockerType, NEW op, NEW x, op \notin {"join", "deploy"}
    PROVE  After(op, x).joined \subseteq docker.joined
<1>0. docker = DR
  BY DockerIs
<1>1. CASE op \in {"compose_up", "compose_down", "destroy"}
  <2>1. Removed(x).joined = docker.joined
    BY <1>0 DEF Removed, DR
  <2>2. CASE op = "compose_up"
    BY <1>0, <2>2 DEF After, Deployed, DR
  <2>3. CASE op = "compose_down"
    BY <2>1, <2>3 DEF After
  <2>4. CASE op = "destroy"
    <3>1. After(op, x) = [Removed(x) EXCEPT !.nets = @ \ {x}, !.joined = @ \ {x}]
      BY <2>4 DEF After
    <3>2. Removed(x) = [DR EXCEPT !.nets = Removed(x).nets, !.vols = Removed(x).vols, !.db = Removed(x).db,
                                  !.data = Removed(x).data, !.app = Removed(x).app]
      BY <1>0 DEF Removed, DR
    <3>3. After(op, x).joined = Removed(x).joined \ {x}
      BY <3>1, <3>2 DEF DR
    <3> QED
      BY <2>1, <3>3
  <2> QED
    BY <1>1, <2>2, <2>3, <2>4
<1>2. CASE op \notin {"compose_up", "compose_down", "destroy"}
  BY <1>0, <1>2 DEF After, DR
<1> QED
  BY <1>1, <1>2

\* What removes something
LEMMA RemovalsAre ==
    ASSUME docker \in DockerType, NEW s \in Sites, NEW a \in AppsOf(s)
    PROVE  /\ LET e == After("rm", a)
              IN  e.app[a] = "absent" /\ e.db = docker.db /\ e.nets = docker.nets /\ e.vols = docker.vols
                  /\ e.joined = docker.joined /\ \A b \in Apps \ {a} : e.app[b] = docker.app[b]
           /\ LET e == After("rm_db", s)
              IN  e.db[s] = "absent" /\ e.app = docker.app /\ e.nets = docker.nets /\ e.vols = docker.vols
                  /\ e.joined = docker.joined
           /\ LET e == After("leave", s)
              IN  e.joined = docker.joined \ {s} /\ e.db = docker.db /\ e.app = docker.app
                  /\ e.nets = docker.nets /\ e.vols = docker.vols
           /\ LET e == After("rm_net", s)
              IN  e.nets = docker.nets \ {s} /\ e.db = docker.db /\ e.app = docker.app
                  /\ e.joined = docker.joined /\ e.vols = docker.vols
           /\ LET e == After("rm_vol", s)
              IN  e.vols = docker.vols \ {s} /\ e.db = docker.db /\ e.app = docker.app
                  /\ e.joined = docker.joined /\ e.nets = docker.nets
           /\ After("alpine", s) = docker
<1>0. docker = DR /\ docker.app \in [Apps -> AppStates] /\ docker.db \in [Sites -> {"up", "down", "absent"}] /\ a \in Apps
  BY DockerIs, SitesAre DEF DockerType
<1>1. LET e == After("rm", a)
      IN  e.app[a] = "absent" /\ e.db = docker.db /\ e.nets = docker.nets /\ e.vols = docker.vols
          /\ e.joined = docker.joined /\ \A b \in Apps \ {a} : e.app[b] = docker.app[b]
  <2> DEFINE app == [docker.app EXCEPT ![a] = "absent"]
  <2>1. After("rm", a) = [DR EXCEPT !.app = app]
    BY <1>0 DEF After, DR
  <2>2. app[a] = "absent" /\ \A b \in Apps \ {a} : app[b] = docker.app[b]
    BY <1>0
  <2> HIDE DEF app
  <2>3. After("rm", a).app = app /\ After("rm", a).db = docker.db /\ After("rm", a).nets = docker.nets
        /\ After("rm", a).vols = docker.vols /\ After("rm", a).joined = docker.joined
    BY <2>1 DEF DR
  <2> QED
    BY <2>2, <2>3
<1>2. LET e == After("rm_db", s)
      IN  e.db[s] = "absent" /\ e.app = docker.app /\ e.nets = docker.nets /\ e.vols = docker.vols
          /\ e.joined = docker.joined
  <2> DEFINE db == [docker.db EXCEPT ![s] = "absent"]
  <2>1. After("rm_db", s) = [DR EXCEPT !.db = db]
    BY <1>0 DEF After, DR
  <2>2. db[s] = "absent"
    BY <1>0
  <2> HIDE DEF db
  <2> QED
    BY <2>1, <2>2 DEF DR
<1>3. LET e == After("leave", s)
      IN  e.joined = docker.joined \ {s} /\ e.db = docker.db /\ e.app = docker.app
          /\ e.nets = docker.nets /\ e.vols = docker.vols
  BY <1>0 DEF After, DR
<1>4. LET e == After("rm_net", s)
      IN  e.nets = docker.nets \ {s} /\ e.db = docker.db /\ e.app = docker.app
          /\ e.joined = docker.joined /\ e.vols = docker.vols
  BY <1>0 DEF After, DR
<1>5. LET e == After("rm_vol", s)
      IN  e.vols = docker.vols \ {s} /\ e.db = docker.db /\ e.app = docker.app
          /\ e.joined = docker.joined /\ e.nets = docker.nets
  BY <1>0 DEF After, DR
<1>6. After("alpine", s) = docker
  BY DEF After
<1> QED
  BY <1>1, <1>2, <1>3, <1>4, <1>5, <1>6

\* A namespace removed as a whole
LEMMA RemovedIs ==
    ASSUME docker \in DockerType, NEW s \in Sites
    PROVE  /\ LET e == After("compose_down", s)
              IN  s \notin docker.joined =>
                      /\ s \notin e.nets /\ s \notin e.vols /\ e.db[s] = "absent" /\ s \notin e.joined
                      /\ \A a \in AppsOf(s) : e.app[a] = "absent"
           /\ LET e == After("destroy", s)
              IN  /\ s \notin e.nets /\ s \notin e.vols /\ e.db[s] = "absent" /\ s \notin e.joined
                  /\ \A a \in AppsOf(s) : e.app[a] = "absent"
<1>0. docker = DR /\ docker.app \in [Apps -> AppStates] /\ docker.db \in [Sites -> {"up", "down", "absent"}]
      /\ \A a \in AppsOf(s) : a \in Apps
  BY DockerIs, SitesAre DEF DockerType
<1> DEFINE app == [a \in Apps |-> IF a \in AppsOf(s) THEN "absent" ELSE docker.app[a]]
           db == [docker.db EXCEPT ![s] = "absent"]
           data == [docker.data EXCEPT ![s] = NoData]
           nets == IF s \in docker.joined THEN docker.nets ELSE docker.nets \ {s}
<1>1. Removed(s) = [DR EXCEPT !.nets = nets, !.vols = docker.vols \ {s}, !.db = db, !.data = data, !.app = app]
  BY <1>0 DEF Removed, DR
<1>2. /\ db[s] = "absent" /\ \A a \in AppsOf(s) : app[a] = "absent"
      /\ s \notin docker.joined => s \notin nets
  BY <1>0
<1> HIDE DEF app, db, data, nets
<1>3. Removed(s) = [app |-> app, db |-> db, data |-> data, nets |-> nets, vols |-> docker.vols \ {s},
                    joined |-> docker.joined, dump |-> docker.dump, counts |-> docker.counts]
  BY <1>1 DEF DR
<1>4. After("compose_down", s) = Removed(s)
  BY DEF After
<1>5. After("destroy", s) = [app |-> app, db |-> db, data |-> data, nets |-> nets \ {s}, vols |-> docker.vols \ {s},
                    joined |-> docker.joined \ {s}, dump |-> docker.dump, counts |-> docker.counts]
  <2>1. After("destroy", s) = [Removed(s) EXCEPT !.nets = Removed(s).nets \ {s}, !.joined = Removed(s).joined \ {s}]
    BY DEF After
  <2>2. Removed(s).nets = nets /\ Removed(s).joined = docker.joined
    BY <1>3
  <2>3. After("destroy", s) = [[app |-> app, db |-> db, data |-> data, nets |-> nets, vols |-> docker.vols \ {s},
                    joined |-> docker.joined, dump |-> docker.dump, counts |-> docker.counts]
                       EXCEPT !.nets = nets \ {s}, !.joined = docker.joined \ {s}]
    BY <1>3, <2>1, <2>2
  <2> QED
    BY <2>3
<1> QED
  BY <1>2, <1>3, <1>4, <1>5

\* What a failing command leaves
LEMMA FailedIsLocal ==
    ASSUME docker \in DockerType, NEW s \in Sites, NEW op, NEW x, Acts(op, x, s), NEW e \in Failed(op, x)
    PROVE  /\ e \in DockerType
           /\ \A r \in Sites \ {s} : Same(docker, e, r)
           /\ op # "join" => e.joined \subseteq docker.joined
<1>1. \/ e = docker
      \/ e = After(op, x) /\ op # "deploy"
      \/ e = After("compose_up", x) /\ op = "deploy"
      \/ e = After("stop", x) /\ op = "restart"
      \/ e = After("stop_db", x) /\ op = "restart_db"
  BY DEF Failed
<1>2. CASE e = docker
  BY <1>2 DEF Same
<1>3. CASE e = After(op, x) /\ op # "deploy"
  BY <1>3, AfterIsLocal, AfterJoined
<1>4. CASE e = After("stop", x) /\ op = "restart"
  <2>1. Acts("stop", x, s)
    BY <1>4 DEF Acts, AppOps, SiteOps, OtherOps
  <2> QED
    BY <1>4, <2>1, AfterIsLocal, AfterJoined
<1>5. CASE e = After("stop_db", x) /\ op = "restart_db"
  <2>1. Acts("stop_db", x, s)
    BY <1>5 DEF Acts, AppOps, SiteOps, OtherOps
  <2> QED
    BY <1>5, <2>1, AfterIsLocal, AfterJoined
<1>6. CASE e = After("compose_up", x) /\ op = "deploy"
  <2>1. Acts("compose_up", x, s)
    BY <1>6 DEF Acts, AppOps, SiteOps, OtherOps
  <2> QED
    BY <1>6, <2>1, AfterIsLocal, AfterJoined
<1> QED
  BY <1>1, <1>2, <1>3, <1>4, <1>5, <1>6

-----------------------------------------------------------------------------
(* Each scenario keeps to the namespaces of its suite                      *)

\* A script that handles no container.
Quiet(script) ==
    /\ Len(script) \in Nat
    /\ \A n \in 1..Len(script) : script[n].miss \in Nat /\ script[n].do # "docker"

\* The emulator's scenarios handle no container.
LEMMA EmulatorIsQuiet == \A k \in 1..Len(Emulator) : Quiet(Emulator[k].script)
<1> USE DEF Step, Emp, Op, Qty, Again, Boot, New, Db, Local, Replay, Web, Later, Caught, Finish, AtOperation, Garbage,
        Quiet
<1>1. \A me : Quiet(ValidOperation(me))
  BY DEF ValidOperation
<1>2. \A me : Quiet(CloseQuantity(me)) 
  BY DEF CloseQuantity
<1>3. \A me : Quiet(ZeroQuantity(me)) 
  BY DEF ZeroQuantity
<1>4. \A me : Quiet(RepeatedCompletion(me)) 
  BY DEF RepeatedCompletion
<1>5. \A me : Quiet(LegacyWeb(me)) 
  BY DEF LegacyWeb
<1>6. \A a, b : Quiet(Group(a, b))
  <2>1. ASSUME NEW a
        PROVE  \E x, y, z : /\ GroupOne(a) = <<Emp(a, "ANY"), x, y, z>>
                            /\ x.miss \in Nat /\ y.miss \in Nat /\ z.miss \in Nat
                            /\ x.do = "event" /\ y.do = "event" /\ z.do = "event"
    <3> DEFINE x == [Op("RUNNING", "SESSION_ACTIVE") EXCEPT !.miss = 3]
               y == Caught(Emp(a, "ANY"), 2)
               z == Caught(Qty("GOOD", "WAIT_EMPLOYEE"), 1)
    <3>1. x.miss = 3 /\ x.do = "event"
      OBVIOUS
    <3>2. y.miss = 2 /\ y.do = "event"
      OBVIOUS
    <3>3. z.miss = 1 /\ z.do = "event"
      OBVIOUS
    <3>4. GroupOne(a) = <<Emp(a, "ANY"), x, y, z>>
      BY DEF GroupOne
    <3> HIDE DEF x, y, z
    <3> QED
      BY <3>1, <3>2, <3>3, <3>4
  <2> TAKE a, b
  <2>2. PICK x1, y1, z1 : /\ GroupOne(a) = <<Emp(a, "ANY"), x1, y1, z1>>
                            /\ x1.miss \in Nat /\ y1.miss \in Nat /\ z1.miss \in Nat
                            /\ x1.do = "event" /\ y1.do = "event" /\ z1.do = "event"
    BY <2>1
  <2>3. PICK x2, y2, z2 : /\ GroupOne(b) = <<Emp(b, "ANY"), x2, y2, z2>>
                            /\ x2.miss \in Nat /\ y2.miss \in Nat /\ z2.miss \in Nat
                            /\ x2.do = "event" /\ y2.do = "event" /\ z2.do = "event"
    BY <2>1
  <2>4. Group(a, b) = <<New, New, Db(a, "ANY"), Boot, Boot>> \o <<Emp(a, "ANY"), x1, y1, z1>>
                        \o <<Local("client")>> \o <<Emp(b, "ANY"), x2, y2, z2>>
                        \o <<Db(a, "CLOSED"), Db(b, "CLOSED")>>
    BY <2>2, <2>3 DEF Group
  <2> QED
    BY <2>2, <2>3, <2>4
<1>7. \A me : Quiet(DuplicateOperation(me)) 
  BY DEF DuplicateOperation
<1>8. \A me : Quiet(NegativeQuantity(me)) 
  BY DEF NegativeQuantity
<1>9. \A me : Quiet(NonIntegerQuantity(me)) 
  BY DEF NonIntegerQuantity
<1>10. \A me : Quiet(LostAck(me)) 
  BY DEF LostAck
<1>11. \A me : Quiet(NetworkDrop(me)) 
  BY DEF NetworkDrop
<1>12. \A me : Quiet(OfflineMany(me)) 
  BY DEF OfflineMany
<1>13. /\ Quiet(ValidEmployee) /\ Quiet(InvalidEmployee) /\ Quiet(InvalidOperation) /\ Quiet(NotWorkable)
       /\ Quiet(DuplicateScan) /\ Quiet(OfflineReplay) /\ Quiet(BackendUnavailable) /\ Quiet(MalformedQr)
       /\ Quiet(OperationBeforeEmployee) /\ Quiet(OfflineDuplicate)
  BY DEF ValidEmployee, InvalidEmployee, InvalidOperation, NotWorkable, DuplicateScan, OfflineReplay,
     BackendUnavailable, MalformedQr, OperationBeforeEmployee, OfflineDuplicate
<1>14. Quiet(EmployeeAsOperation)
  BY DEF EmployeeAsOperation
<1> HIDE DEF Quiet
<1> QED
  BY <1>1, <1>2, <1>3, <1>4, <1>5, <1>6, <1>7, <1>8, <1>9, <1>10, <1>11, <1>12, <1>13, <1>14
  DEF Emulator, Plain

\* Those of mes_workflows handle none.
LEMMA WorkflowsAreQuiet == \A k \in 1..Len(Workflows) : Quiet(Workflows[k].script)
<1> USE DEF Step, Emp, Op, Qty, Again, Boot, New, Db, Local, Replay, Web, Later, Look, Read, Login, Start, End, Repeat,
    Total, Session, Quiet
<1>1. Quiet(NormalProduction) /\ Quiet(ZeroWorkflow) /\ Quiet(MultipleWorkers) /\ Quiet(DuplicateProtection)
  BY DEF NormalProduction, ZeroWorkflow, MultipleWorkers, DuplicateProtection
<1>2. Quiet(RepairFlow) /\ Quiet(InvalidInput) /\ Quiet(AggregateProgress)
  BY DEF RepairFlow, InvalidInput, AggregateProgress
<1>3. Quiet(DependencySatisfied)
  BY DEF DependencySatisfied
<1>4. Quiet(LegacyWorkflow) /\ Quiet(OfflineWorkflow)
  BY DEF LegacyWorkflow, OfflineWorkflow
<1>5. Quiet(<<Look, Read, Look>>) /\ Quiet(<<Look, Read>>) /\ Quiet(<<Read>>) /\ Quiet(<<Read, Read>>)
  OBVIOUS
<1> HIDE DEF Quiet, Step, Look, Read
<1> QED
  BY <1>1, <1>2, <1>3, <1>4, <1>5 DEF Workflows, Plain

\* Nor do those of the API, the artifact, the browser and the burst.
LEMMA SmallIsQuiet ==
  /\ \A k \in 1..Len(ApiContracts) : Quiet(ApiContracts[k].script)
  /\ \A k \in 1..Len(BuildIntegrity) : Quiet(BuildIntegrity[k].script)
  /\ \A k \in 1..Len(Browser) : Quiet(Browser[k].script)
  /\ \A k \in 1..Len(Burst) : Quiet(Burst[k].script)
<1> USE DEF Step, Look, Read, Login, Start, Plain, File, Page, Quiet
<1>1. \A k \in 1..Len(ApiContracts) : Quiet(ApiContracts[k].script)
  <2>1. Quiet(<<Look, Login, Read, Start(Nobody, "NONE", "EMPLOYEE_NOT_FOUND")>>) /\ Quiet(<<Read>>)
    OBVIOUS
  <2> HIDE DEF Quiet, Step, Look, Login, Read, Start
  <2> QED
    BY <2>1 DEF ApiContracts
<1>2. \A k \in 1..Len(BuildIntegrity) : Quiet(BuildIntegrity[k].script)
  BY DEF BuildIntegrity
<1>3. \A k \in 1..Len(Browser) : Quiet(Browser[k].script)
  BY DEF Browser
<1>4. \A k \in 1..Len(Burst) : Quiet(Burst[k].script)
  BY DEF Burst
<1> QED
  BY <1>1, <1>2, <1>3, <1>4

\* Nor do those of post_deploy_smoke.
LEMMA SmokeIsQuiet == \A k \in 1..Len(PostDeploySmoke) : Quiet(PostDeploySmoke[k].script)
<1> USE DEF Step, Look, Read, Login, Start, End, Smoke, Quiet
<1>1. Quiet(<<Look>>) /\ Quiet(<<Smoke(Login)>>) /\ Quiet(<<Smoke(Read)>>) 
  OBVIOUS
<1>2. Quiet(DisposableWorkflow)
  BY DEF DisposableWorkflow
<1> HIDE DEF Quiet, Step, Look, Read, Smoke
<1> QED
  BY <1>1, <1>2 DEF PostDeploySmoke, Plain

\* Nor do those of integration.
LEMMA IntegrationIsQuiet == \A k \in 1..Len(Integration) : Quiet(Integration[k].script)
<1> USE DEF Step, Emp, Op, Qty, Again, Boot, New, Db, Local, Replay, Web, Later, Look, Read, Login, Start, End, Repeat,
    Total, Session, Quiet
<1>1. Quiet(DependencyGate) /\ Quiet(LegacyIntegration) /\ Quiet(OfflineIntegration)
  BY DEF DependencyGate, LegacyIntegration, OfflineIntegration
<1>2. Quiet(ReworkIntegration)
  BY DEF ReworkIntegration
<1>3. Quiet(SessionsIntegration)
  BY DEF SessionsIntegration
<1>4. Quiet(GroupIntegration)
  BY DEF GroupIntegration
<1>5. Quiet(<<Login, Read, Look>>) /\ Quiet(<<Look>>) /\ Quiet(<<Read, Look>>) /\ Quiet(<<Look, Read>>)
  OBVIOUS
<1> HIDE DEF Quiet, Step, Look, Read, Login
<1> QED
  BY <1>1, <1>2, <1>3, <1>4, <1>5 DEF Integration, Plain

\* Such a scenario keeps to any namespaces.
LEMMA QuietIsConfined ==
    ASSUME NEW c, Quiet(c.script), NEW s PROVE Confined(c, s)
  BY DEF Quiet, Confined

\* A step is at the namespace s, if at any.
Fits(step, s) == step.miss \in Nat /\ (step.do = "docker" => Acts(step.type, step.arg, s))

\* The operations that occur in the scripts, with what they are about.
LEMMA ActsAre ==
    /\ \A s : Acts("exec", "app", s) /\ Acts("load", "old", s) /\ Acts("load", "new", s) /\ Acts("load", "composeApp", s)
              /\ Acts("config", "composeApp", s) /\ Acts("inspect_db", "compose", s)
    /\ \A op \in AppOps : /\ Acts(op, "app", "release") /\ Acts(op, "old", "upgrade") /\ Acts(op, "new", "upgrade")
                          /\ Acts(op, "restoreApp", "restore")
    /\ \A op \in SiteOps : \A s : Acts(op, s, s)
<1>1. /\ "app" \in AppsOf("release") /\ "old" \in AppsOf("upgrade") /\ "new" \in AppsOf("upgrade")
      /\ "restoreApp" \in AppsOf("restore")
  BY SitesAre
<1> QED
  BY <1>1 DEF Acts, OtherOps

\* recovery, chaos and scheduler_reliability handle the deployed product's containers.
LEMMA RecoveryIsConfined ==
    /\ \A k \in 1..Len(Recovery) : Confined(Recovery[k], "recovery") /\ Confined(Recovery[k], "chaos")
    /\ \A k \in 1..Len(SchedulerReliability) : Confined(SchedulerReliability[k], "scheduler_reliability")
<1> DEFINE In(script) ==
      /\ Len(script) \in Nat
      /\ \A n \in 1..Len(script) : Fits(script[n], "release")
<1>1. ASSUME NEW c, In(c.script) PROVE Confined(c, "recovery") /\ Confined(c, "chaos") /\ Confined(c, "scheduler_reliability")
  BY <1>1 DEF Confined, SitesOf, Fits
<1>2. /\ Acts("restart", "app", "release") /\ Acts("stop", "app", "release") /\ Acts("start", "app", "release")
      /\ Acts("cut", "app", "release") /\ Acts("reconnect", "app", "release") /\ Acts("pause", "app", "release")
      /\ Acts("unpause", "app", "release") /\ Acts("exec", "app", "release")
      /\ Acts("restart_db", "release", "release")
  BY ActsAre DEF AppOps, SiteOps
<1> USE DEF Step, Run, Silent, Tried, Later, Ready, Outage, Suite, Counts, Integrity, NoneFailed, Start, Login, Look, Repeat, Fits
<1>3. /\ In(BackendRestart) /\ In(DatabaseRestart) /\ In(Unavailability) /\ In(Partition)
      /\ In(Stall) /\ In(DuplicateRequest)
  BY <1>2 DEF BackendRestart, DatabaseRestart, Unavailability, Partition, Stall, DuplicateRequest
<1>5. In(<<Job, Integrity("release")>>) /\ In(<<Job, Job, Integrity("release")>>)
      /\ In(<<Run("restart", "app"), Ready("app"), Job, Integrity("release")>>)
      /\ In(<<Integrity("release")>>)
  BY <1>2 DEF Job
<1> HIDE DEF In, Step, Run, Silent, Tried, Later, Ready, Outage, Suite, Counts, Integrity, NoneFailed, Start, Login, Look, Repeat, Fits
<1>6. \A k \in 1..Len(Recovery) : In(Recovery[k].script)
  BY <1>3 DEF Recovery, Plain
<1>7. \A k \in 1..Len(SchedulerReliability) : In(SchedulerReliability[k].script)
  BY <1>5 DEF SchedulerReliability, Plain
<1> QED
  BY <1>1, <1>6, <1>7

\* test_deployment handles the namespace that the installer's command makes.
LEMMA TestDeploymentIsConfined ==
    \A k \in 1..Len(TestDeployment) : Confined(TestDeployment[k], "test_deployment")
<1> DEFINE In(script) ==
      /\ Len(script) \in Nat
      /\ \A n \in 1..Len(script) : Fits(script[n], "compose")
<1>1. ASSUME NEW c, In(c.script) PROVE Confined(c, "test_deployment")
  BY <1>1 DEF Confined, SitesOf, Fits
<1>2. /\ Acts("load", "composeApp", "compose") /\ Acts("config", "composeApp", "compose")
      /\ Acts("compose_up", "compose", "compose") /\ Acts("join", "compose", "compose")
      /\ Acts("inspect_db", "compose", "compose")
  BY ActsAre DEF AppOps, SiteOps
<1> USE DEF Step, Run, Silent, Tried, Later, Ready, Outage, Suite, Counts, Integrity, NoneFailed, Start, Login, Look, Repeat, Fits
<1>3. /\ In(ComposeUp) /\ In(<<>>) /\ In(<<Run("join", "compose"), Ready("composeApp")>>)
      /\ In(<<Run("inspect_db", "compose")>>) /\ In(<<Suite("composeApp")>>)
  BY <1>2 DEF ComposeUp
<1> HIDE DEF In, Step, Run, Silent, Tried, Later, Ready, Outage, Suite, Counts, Integrity, NoneFailed, Start, Login, Look, Repeat, Fits
<1>4. \A k \in 1..Len(TestDeployment) : In(TestDeployment[k].script)
  BY <1>3 DEF TestDeployment, Plain
<1> QED
  BY <1>1, <1>4

\* backup_restore handles its source and the namespace it restores to.
LEMMA BackupRestoreIsConfined ==
    \A k \in 1..Len(BackupRestore) : Confined(BackupRestore[k], "backup_restore")
<1> DEFINE In(script) ==
      /\ Len(script) \in Nat
      /\ \A n \in 1..Len(script) : Fits(script[n], "source") \/ Fits(script[n], "restore")
<1>1. ASSUME NEW c, In(c.script) PROVE Confined(c, "backup_restore")
  BY <1>1 DEF Confined, SitesOf, Fits
<1>2. /\ Acts("deploy", "source", "source") /\ Acts("deploy", "restore", "restore")
      /\ Acts("seed", "source", "source") /\ Acts("dump", "source", "source") /\ Acts("count", "source", "source")
      /\ Acts("stop", "restoreApp", "restore") /\ Acts("start", "restoreApp", "restore")
      /\ Acts("drop", "restore", "restore") /\ Acts("create", "restore", "restore")
      /\ Acts("restore", "restore", "restore")
  BY ActsAre DEF AppOps, SiteOps
<1> USE DEF Step, Run, Silent, Tried, Later, Ready, Outage, Suite, Counts, Integrity, NoneFailed, Start, Login, Look, Repeat, Fits
<1>3. /\ In(<<Run("deploy", "source"), Run("deploy", "restore"), Run("seed", "source")>>)
      /\ In(<<Run("dump", "source"), Run("count", "source")>>)
      /\ In(<<Counts("SAME", "restore"), Integrity("restore")>>) /\ In(<<Suite("restoreApp")>>)
      /\ In(RestoreSeparate)
  BY <1>2 DEF RestoreSeparate, RestoreDump
<1> HIDE DEF In, Step, Run, Silent, Tried, Later, Ready, Outage, Suite, Counts, Integrity, NoneFailed, Start, Login, Look, Repeat, Fits
<1>4. \A k \in 1..Len(BackupRestore) : In(BackupRestore[k].script)
  BY <1>3 DEF BackupRestore, Plain
<1> QED
  BY <1>1, <1>4

\* upgrade and rollback handle one namespace, whose network one scenario joins.
LEMMA UpgradeIsConfined ==
    /\ \A k \in 1..Len(Upgrade(Capture)) : Confined(Upgrade(Capture)[k], "upgrade")
    /\ \A k \in 1..Len(Upgrade(CaptureAndDump) \o Rollback) : Confined((Upgrade(CaptureAndDump) \o Rollback)[k], "rollback")
<1> DEFINE In(script) ==
      /\ Len(script) \in Nat
      /\ \A n \in 1..Len(script) : Fits(script[n], "upgrade") /\ script[n].type # "deploy"
           NoJoin(script) == \A n \in 1..Len(script) : script[n].type # "join"
<1>1. ASSUME NEW c, In(c.script), NoJoin(c.script) \/ c.key = "old_version_deploys"
      PROVE  Confined(c, "upgrade") /\ Confined(c, "rollback")
  BY <1>1 DEF Confined, SitesOf, Fits
<1>2. /\ Acts("create_net", "upgrade", "upgrade") /\ Acts("create_vol", "upgrade", "upgrade")
      /\ Acts("run_db", "upgrade", "upgrade") /\ Acts("join", "upgrade", "upgrade") /\ Acts("seed", "upgrade", "upgrade")
      /\ Acts("work", "upgrade", "upgrade") /\ Acts("count", "upgrade", "upgrade") /\ Acts("dump", "upgrade", "upgrade")
      /\ Acts("drop", "upgrade", "upgrade") /\ Acts("create", "upgrade", "upgrade") /\ Acts("restore", "upgrade", "upgrade")
      /\ Acts("run", "old", "upgrade") /\ Acts("rm", "old", "upgrade") /\ Acts("run", "new", "upgrade")
      /\ Acts("rm", "new", "upgrade") /\ Acts("stop", "new", "upgrade")
      /\ Acts("load", "old", "upgrade") /\ Acts("load", "new", "upgrade")
  BY ActsAre DEF AppOps, SiteOps
<1> USE DEF Step, Run, Silent, Tried, Later, Ready, Outage, Suite, Counts, Integrity, NoneFailed, Start, Login, Look, Repeat, Fits
<1>3. In(OldDeploy)
  BY <1>2 DEF OldDeploy
<1>4. In(Swap) /\ NoJoin(Swap) /\ In(CriticalWorkflow) /\ NoJoin(CriticalWorkflow)
  BY <1>2 DEF Swap, CriticalWorkflow
<1>5. In(Revert) /\ NoJoin(Revert)
  BY <1>2 DEF Revert, RestoreDump
<1>6. In(Capture) /\ NoJoin(Capture) /\ In(CaptureAndDump) /\ NoJoin(CaptureAndDump)
  BY <1>2 DEF Capture, CaptureAndDump
<1>7. /\ In(<<Run("load", "old"), Run("load", "new")>>) /\ NoJoin(<<Run("load", "old"), Run("load", "new")>>)
      /\ In(<<Run("seed", "upgrade")>>) /\ NoJoin(<<Run("seed", "upgrade")>>)
      /\ In(<<Counts("KEPT", "upgrade")>>) /\ NoJoin(<<Counts("KEPT", "upgrade")>>)
      /\ In(<<Integrity("upgrade")>>) /\ NoJoin(<<Integrity("upgrade")>>)
      /\ In(<<>>) /\ NoJoin(<<>>)
  BY <1>2
<1>8. /\ In(<<Run("stop", "new")>>) /\ NoJoin(<<Run("stop", "new")>>)
      /\ In(<<Counts("KEPT", "upgrade"), Integrity("upgrade")>>) /\ NoJoin(<<Counts("KEPT", "upgrade"), Integrity("upgrade")>>)
      /\ In(<<Suite("old")>>) /\ NoJoin(<<Suite("old")>>)
  BY <1>2
<1> HIDE DEF In, NoJoin, Step, Run, Silent, Tried, Later, Ready, Outage, Suite, Counts, Integrity, NoneFailed, Start, Login, Look, Repeat, Fits
<1>9. ASSUME NEW capture, In(capture), NoJoin(capture)
      PROVE  \A k \in 1..Len(Upgrade(capture)) : In(Upgrade(capture)[k].script) /\ 
                  (NoJoin(Upgrade(capture)[k].script) \/ Upgrade(capture)[k].key = "old_version_deploys")
  BY <1>3, <1>4, <1>7, <1>9 DEF Upgrade, Plain
<1>10. \A k \in 1..Len(Rollback) : In(Rollback[k].script) /\ NoJoin(Rollback[k].script)
  BY <1>5, <1>8 DEF Rollback, Plain
<1>11. /\ Len(Upgrade(CaptureAndDump)) = 11 /\ Len(Rollback) = 4
       /\ Len(Upgrade(CaptureAndDump) \o Rollback) = 15
       /\ \A k \in 1..11 : (Upgrade(CaptureAndDump) \o Rollback)[k] = Upgrade(CaptureAndDump)[k]
       /\ \A k \in 12..15 : (Upgrade(CaptureAndDump) \o Rollback)[k] = Rollback[k - 11]
  BY DEF Upgrade, Rollback
<1>12. \A k \in 1..Len(Upgrade(Capture)) : Confined(Upgrade(Capture)[k], "upgrade")
  BY <1>1, <1>6, <1>9
<1>13. ASSUME NEW k \in 1..15 PROVE Confined((Upgrade(CaptureAndDump) \o Rollback)[k], "rollback")
  <2>1. CASE k \in 1..11
    <3>1. \A i \in 1..11 : Confined(Upgrade(CaptureAndDump)[i], "rollback")
      BY <1>1, <1>6, <1>9, <1>11
    <3> QED
      BY <1>11, <2>1, <3>1
  <2>2. CASE k \in 12..15
    <3>1. k - 11 \in 1..4
      BY <2>2
    <3>2. \A i \in 1..4 : Confined(Rollback[i], "rollback")
      BY <1>1, <1>10, <1>11
    <3> QED
      BY <1>11, <2>2, <3>1, <3>2
  <2>3. k \in 1..11 \/ k \in 12..15
    OBVIOUS
  <2> QED
    BY <2>1, <2>2, <2>3
<1> QED
  BY <1>11, <1>12, <1>13

\* The suites, by their names.
LEMMA SuitesAre ==
    Suites = {"build_integrity", "post_deploy_smoke", "api_contract", "integration",
          "mes_workflows", "invariants", "ui_critical", "kiosk_emulator", "recovery",
          "test_deployment", "upgrade", "scheduler_reliability", "offline_burst", "chaos", "rollback", "backup_restore"}
  BY DEF Suites, Release, Product, ToSet

\* A suite has finitely many scenarios.
LEMMA LengthsAre == \A s \in Suites : Len(Scenarios[s]) \in Nat
<1>1. /\ Len(Emulator) \in Nat /\ Len(Workflows) \in Nat /\ Len(Integration) \in Nat /\ Len(ApiContracts) \in Nat
      /\ Len(BuildIntegrity) \in Nat /\ Len(Browser) \in Nat /\ Len(Burst) \in Nat
  BY DEF Emulator, Workflows, Integration, ApiContracts, BuildIntegrity, Browser, Burst
<1>2. /\ Len(PostDeploySmoke) \in Nat /\ Len(Recovery) \in Nat /\ Len(SchedulerReliability) \in Nat
      /\ Len(Upgrade(Capture)) \in Nat /\ Len(Upgrade(CaptureAndDump) \o Rollback) \in Nat
      /\ Len(BackupRestore) \in Nat /\ Len(TestDeployment) \in Nat
  BY DEF PostDeploySmoke, Recovery, SchedulerReliability, Upgrade, Rollback, BackupRestore, TestDeployment
<1>3. Len(<<>>) \in Nat
  OBVIOUS
<1> QED
  BY <1>1, <1>2, <1>3 DEF Scenarios

\* Each scenario of each suite keeps to the suite's namespaces.
LEMMA ScenariosAreConfined == AllConfined
<1> SUFFICES ASSUME NEW s \in Suites, NEW k \in 1..Len(Scenarios[s]) PROVE Confined(Scenarios[s][k], s)
  BY DEF AllConfined
<1>1. CASE s \in {"api_contract", "integration", "mes_workflows", "build_integrity", "ui_critical", "kiosk_emulator",
                  "offline_burst", "post_deploy_smoke"}
  <2>1. Quiet(Scenarios[s][k].script)
    BY <1>1, EmulatorIsQuiet, WorkflowsAreQuiet, SmallIsQuiet, SmokeIsQuiet, IntegrationIsQuiet DEF Scenarios
  <2> QED
    BY <2>1, QuietIsConfined
<1>2. CASE s \in {"recovery", "chaos", "scheduler_reliability"}
  BY <1>2, RecoveryIsConfined DEF Scenarios
<1>3. CASE s \in {"upgrade", "rollback"}
  BY <1>3, UpgradeIsConfined DEF Scenarios
<1>4. CASE s \in {"backup_restore", "test_deployment"}
  BY <1>4, TestDeploymentIsConfined, BackupRestoreIsConfined DEF Scenarios
<1>5. CASE s = "invariants"
  BY <1>5 DEF Scenarios
<1> QED
  BY <1>1, <1>2, <1>3, <1>4, <1>5, SuitesAre

-----------------------------------------------------------------------------
(* The run, its suites and the steps that are not at a container           *)

\* A namespace that is the same is as closed as it was.
LEMMA SameIsClosed ==
    ASSUME docker \in DockerType, docker' \in DockerType, NEW s \in Sites, Same(docker, docker', s)
    PROVE  Closed(s)' <=> Closed(s)
  BY DEF Same, Closed, Present

\* A namespace that is closed is cleared; one that is cleared and the same stays so.
LEMMA SameIsCleared ==
    ASSUME docker \in DockerType, NEW s \in Sites
    PROVE  /\ Closed(s) => Cleared(s)
           /\ s # "upgrade" /\ Cleared(s) => Closed(s)
           /\ Same(docker, docker', s) /\ hit \subseteq hit' /\ Cleared(s) => Cleared(s)'
<1>1. /\ Closed(s) => Cleared(s)
      /\ s # "upgrade" /\ Cleared(s) => Closed(s)
  BY DEF Closed, Cleared, Present
<1>2. Same(docker, docker', s) /\ hit \subseteq hit' /\ Cleared(s) => Cleared(s)'
  BY DEF Same, Cleared, JoinRaised
<1> QED
  BY <1>1, <1>2

\* While there is a plan, its first suite is the current one.
LEMMA PlanStarts ==
    ASSUME Place, plan # <<>> PROVE suite \in Suites /\ Len(plan) > 0 /\ Tail(plan) \in Seq(Suites)
  BY DEF Place, suite

\* Only the suites that clean up have namespaces of their own.
LEMMA OwnSitesAre ==
    /\ OwnSites = {"upgrade", "source", "restore", "compose"}
    /\ \A s : SitesOf(s) \subseteq Sites
    /\ \A s : SitesOf(s) \cap OwnSites # {} => s \in Strict
    /\ SitesOf("none") = {}
  BY DEF OwnSites, Sites, SitesOf, Strict

\* What starts a run
LEMMA NothingYet == Init => NamespacesInv
<1> SUFFICES ASSUME Init PROVE NamespacesInv
  OBVIOUS
<1>1. docker \in DockerType
  <2> DEFINE app == [a \in Apps |-> IF a = "app" THEN "up" ELSE "absent"]
             db == [s \in Sites |-> IF s = "release" THEN "up" ELSE "absent"]
             data == [s \in Sites |-> IF s = "release" THEN [schema |-> "new", rows |-> 1] ELSE NoData]
  <2>1. app \in [Apps -> AppStates] /\ db \in [Sites -> {"up", "down", "absent"}] /\ data \in [Sites -> Data]
    BY DEF AppStates, Data, NoData
  <2>2. docker = [app |-> app, db |-> db, data |-> data, nets |-> {"release"}, vols |-> {"release"},
                  joined |-> {"release"}, dump |-> NoData, counts |-> 0]
    BY DEF Init, NewDocker
  <2>3. "release" \in Sites /\ NoData \in Data
    BY DEF Sites, NoData, Data
  <2> HIDE DEF app, db, data
  <2> QED
    BY <2>1, <2>2, <2>3 DEF DockerType
<1>2. \A s \in OwnSites : Closed(s)
  <2>1. /\ docker.nets = {"release"} /\ docker.vols = {"release"} /\ docker.joined = {"release"}
        /\ docker.db = [s \in Sites |-> IF s = "release" THEN "up" ELSE "absent"]
        /\ docker.app = [a \in Apps |-> IF a = "app" THEN "up" ELSE "absent"]
    BY DEF Init, NewDocker
  <2>2. \A s \in OwnSites : s \in Sites /\ s # "release" /\ \A a \in AppsOf(s) : a \in Apps /\ a # "app"
    <3>1. \A s \in OwnSites : s \in Sites /\ s # "release"
      BY DEF OwnSites
    <3>2. "app" \in AppsOf("release") /\ "release" \in Sites
      BY SitesAre DEF Sites
    <3> QED
      BY <3>1, <3>2, SitesAre
  <2> QED
    BY <2>1, <2>2 DEF Closed, Present
<1>3. plan \in Seq(Suites)
  <2>1. Release \in Seq(Suites) /\ Product \in Seq(Suites)
    BY SuitesAre DEF Release, Product
  <2>2. \A s \in Suites : <<s>> \in Seq(Suites)
    OBVIOUS
  <2> QED
    BY <2>1, <2>2, SuitesAre DEF Init, Alone
<1>4. plan # <<>>
  <2>1. plan \in {Product, Release} \/ plan = <<"kiosk_emulator">> \/ plan \in {<<s>> : s \in Alone}
    BY DEF Init
  <2>2. Product # <<>> /\ Release # <<>>
    BY DEF Product, Release
  <2>3. \A s : <<s>> # <<>>
    OBVIOUS
  <2> QED
    BY <2>1, <2>2, <2>3
<1>5. Place
  <2>1. current = 1 /\ at = 0 /\ faults \in Int /\ joined_network = FALSE /\ phase = "before"
    BY FaultsAreCounted DEF Init
  <2>2. current \in Nat \ {0} /\ at \in Nat /\ ~(at > 0) /\ phase # "cleanup"
    BY <2>1
  <2>3. joined_network \in BOOLEAN
    BY <2>1, Zenon
  <2> QED
    BY <1>3, <1>4, <2>1, <2>2, <2>3 DEF Place
<1>6. Runs("backup_restore_recovery") => plan = <<"backup_restore">>
  <2> SUFFICES ASSUME Runs("backup_restore_recovery") PROVE plan = <<"backup_restore">>
    OBVIOUS
  <2>1. PICK s \in ToSet(plan) : "backup_restore_recovery" \in RowsOf(s)
    BY DEF Init, Runs
  <2>2. s = "backup_restore"
    <3>1. s \in Suites
      BY <1>3 DEF ToSet
    <3>2. s # "backup_restore_recovery"
      BY <3>1, SuitesAre
    <3> QED
      BY <2>1, <3>2 DEF RowsOf
  <2>3. "backup_restore" \notin ToSet(Product) /\ "backup_restore" \notin ToSet(Release)
    BY ReleaseIs DEF Product, ToSet
  <2> QED
    BY <2>1, <2>2, <2>3 DEF Init, ToSet
<1>7. docker.nets = {"release"}
  BY DEF Init, NewDocker
<1>8. BackupAlone
  BY <1>2, <1>6, <1>7, OwnSitesAre DEF BackupAlone
<1>9. phase = "before"
  BY DEF Init
<1>10. SitesInv
  BY <1>1, <1>2, SameIsCleared DEF SitesInv, OwnSites
<1> QED
  BY <1>1, <1>2, <1>5, <1>8, <1>9, <1>10 DEF NamespacesInv, RowsRun, JoinInv, CleanupInv, Active

\* A suite that begins finds its namespaces closed, and its row is RUNNING.
LEMMA BeginSuiteKeeps == NamespacesInv /\ BeginSuite => NamespacesInv'
<1> SUFFICES ASSUME NamespacesInv, BeginSuite PROVE NamespacesInv'
  OBVIOUS
<1>1. /\ UNCHANGED <<plan, docker, current, at, scenario, hit>> /\ faults' \in Int
      /\ phase = "before" /\ phase' \in {"ready", "raised"} /\ plan # <<>>
      /\ joined_network' = FALSE
  BY DEF BeginSuite, runVars, scenarioVars, NamespacesInv, Place, Fault
<1>2. \A s : ~Active(s)
  BY <1>1 DEF Active
<1>3. Place'
  BY <1>1 DEF NamespacesInv, Place, suite
<1>4. RowsRun'
  <2>1. ASSUME NEW r \in {"upgrade", "test_deployment", "backup_restore_recovery"}, Runs(r)', r \in RowsOf(suite),
               suite \in {"upgrade", "rollback", "backup_restore", "test_deployment"}
        PROVE  status'[r] = "RUNNING"
    <3>1. status' = [s \in DOMAIN status |->
                         IF s \in RowsOf(suite) \ {"rollback"} THEN "RUNNING" ELSE status[s]]
      BY <2>1 DEF BeginSuite
    <3> QED
      BY <2>1, <3>1 DEF Runs
  <2>2. suite' = suite
    BY <1>1 DEF suite
  <2> QED
    BY <2>1, <2>2 DEF RowsRun, Active, SitesOf, RowsOf
<1>5. SitesInv'
  BY <1>1, <1>2 DEF NamespacesInv, SitesInv, Excused, Cleared, JoinRaised
<1>6. JoinInv'
  BY <1>1, <1>2, OwnSitesAre DEF NamespacesInv, SitesInv, JoinInv, Excused, Cleared, JoinRaised
<1>7. CleanupInv' /\ (docker \in DockerType)'
  BY <1>1 DEF NamespacesInv, CleanupInv
<1>8. Runs("backup_restore_recovery")' => Runs("backup_restore_recovery")
  BY DEF BeginSuite, Runs
<1>9. BackupAlone'
  BY <1>1, <1>8 DEF NamespacesInv, BackupAlone, Closed, Present
<1> QED
  BY <1>3, <1>4, <1>5, <1>6, <1>7, <1>9 DEF NamespacesInv

\* A suite that goes leaves its namespaces cleared, unless its cleanup failed.
LEMMA GoesKeeps ==
    ASSUME NamespacesInv, Goes, plan # <<>>, hit \subseteq hit', faults' \in Int, DOMAIN status' = DOMAIN status,
           \A s \in OwnSites \cap SitesOf(suite) : Excused' \/ Cleared(s)
    PROVE  NamespacesInv'
<1>1. /\ plan' = Tail(plan) /\ current' = 1 /\ at' = 0 /\ phase' = "before"
      /\ UNCHANGED <<docker, joined_network>>
  BY DEF Goes, dockerVars
<1>2. Place'
  BY <1>1, PlanStarts DEF NamespacesInv, Place
<1>3. \A s : ~Active(s)'
  BY <1>1 DEF Active
<1>4. Excused => Excused'
  BY DEF Excused
<1>5. SitesInv'
  <2> SUFFICES ASSUME NEW s \in OwnSites, ~Excused' PROVE Cleared(s)
    BY <1>1 DEF SitesInv, Cleared, JoinRaised
  <2> QED
    BY <1>4 DEF NamespacesInv, SitesInv, Active
<1>6. BackupAlone'
  <2> SUFFICES ASSUME Runs("backup_restore_recovery")' PROVE BackupAlone'
    BY DEF BackupAlone
  <2>1. /\ plan \in {<<>>, <<"backup_restore">>}
        /\ Closed("upgrade") /\ Closed("compose") /\ "release" \in docker.nets
    BY DEF NamespacesInv, BackupAlone, Runs
  <2>2. plan' = <<>>
    <3>1. Tail(<<"backup_restore">>) = <<>>
      OBVIOUS
    <3> QED
      BY <1>1, <2>1, <3>1
  <2>3. Closed("upgrade")' /\ Closed("compose")' /\ ("release" \in docker.nets)'
    BY <1>1, <2>1 DEF Closed, Present
  <2> QED
    BY <2>2, <2>3 DEF BackupAlone
<1> QED
  BY <1>1, <1>2, <1>3, <1>5, <1>6 DEF NamespacesInv, RowsRun, JoinInv, CleanupInv

\* A suite with namespaces of its own finishes at the end of its cleanup.
LEMMA FinishSuiteKeeps == NamespacesInv /\ FinishSuite => NamespacesInv'
<1> SUFFICES ASSUME NamespacesInv, FinishSuite PROVE NamespacesInv'
  OBVIOUS
<1>1. Goes /\ hit' = hit /\ faults' = faults /\ DOMAIN status' = DOMAIN status
  BY DEF FinishSuite, clientVars
<1>2. plan # <<>>
  BY DEF FinishSuite, NamespacesInv, Place
<1>3. ASSUME NEW s \in OwnSites \cap SitesOf(suite), ~Excused PROVE Cleared(s)
  <2>0. s \in Sites /\ docker \in DockerType
    BY <1>3 DEF OwnSites, NamespacesInv
  <2>1. suite \in Strict /\ phase = "cleanup" /\ at > Len(CleanupOf(suite))
    BY <1>3, OwnSitesAre DEF FinishSuite, NamespacesInv, Place, Script
  <2>2. "cleanup" \notin hit
    BY <1>3 DEF Excused
  <2>3. CASE suite \in {"upgrade", "rollback"}
    <3>1. s = "upgrade" /\ Len(CleanupOf(suite)) = 6
      BY <1>3, <2>3 DEF SitesOf, CleanupOf, UpgradeCleanup
    <3>2. at >= 7
      BY <2>1, <3>1 DEF NamespacesInv, Place
    <3> QED
      BY <1>3, <2>1, <2>2, <2>3, <3>1, <3>2, SitesAre DEF NamespacesInv, CleanupInv, Cleared, Place
  <2>4. CASE suite = "test_deployment"
    <3>1. s = "compose" /\ Len(CleanupOf(suite)) = 3
      BY <1>3, <2>4 DEF SitesOf, CleanupOf, TestDeploymentCleanup
    <3>2. at >= 3
      BY <2>1, <3>1 DEF NamespacesInv, Place
    <3> QED
      BY <2>0, <2>1, <2>2, <2>4, <3>1, <3>2, SameIsCleared DEF NamespacesInv, CleanupInv
  <2>5. CASE suite = "backup_restore"
    <3>1. s \in {"source", "restore"} /\ Len(CleanupOf(suite)) = 2
      BY <1>3, <2>5 DEF SitesOf, CleanupOf, BackupRestoreCleanup
    <3>2. at >= 3 /\ at >= 2
      BY <2>1, <3>1 DEF NamespacesInv, Place
    <3> QED
      BY <2>0, <2>1, <2>2, <2>5, <3>1, <3>2, SameIsCleared DEF NamespacesInv, CleanupInv
  <2> QED
    BY <2>1, <2>3, <2>4, <2>5 DEF Strict
<1>4. Excused' <=> Excused
  BY <1>1 DEF Excused
<1> QED
  BY <1>1, <1>2, <1>3, <1>4, GoesKeeps DEF NamespacesInv, Place

\* A cleanup begins with the suite's row still RUNNING.
LEMMA BeginCleanupKeeps == NamespacesInv /\ BeginCleanup => NamespacesInv'
<1> SUFFICES ASSUME NamespacesInv, BeginCleanup PROVE NamespacesInv'
  OBVIOUS
<1>1. /\ UNCHANGED <<plan, docker, joined_network, hit, current, faults>>
      /\ phase = "ready" /\ phase' = "cleanup" /\ at' = 1 /\ suite \in Strict /\ plan # <<>>
      /\ scenario' = [key |-> "cleanup", script |-> CleanupOf(suite)]
      /\ DOMAIN status' = DOMAIN status
  BY DEF BeginCleanup, runVars, dockerVars, Cleaning, NamespacesInv, Place, clientVars
<1>2. suite' = suite
  BY <1>1 DEF suite
<1>3. \A s : Active(s)' <=> Active(s)
  BY <1>1, <1>2 DEF Active
<1>4. \A r \in {"upgrade", "test_deployment"} : r \in DOMAIN status => status'[r] = status[r]
  BY DEF BeginCleanup
<1>5. Place'
  BY <1>1, <1>2 DEF NamespacesInv, Place
<1>6. RowsRun'
  BY <1>1, <1>3, <1>4 DEF NamespacesInv, RowsRun, Runs
<1>7. SitesInv' /\ JoinInv'
  BY <1>1, <1>3 DEF NamespacesInv, SitesInv, JoinInv, Excused, Cleared, JoinRaised
<1>8. CleanupInv' /\ (docker \in DockerType)'
  BY <1>1 DEF NamespacesInv, CleanupInv
<1>9. BackupAlone'
  BY <1>1 DEF NamespacesInv, BackupAlone, Closed, Present, Runs
<1> QED
  BY <1>5, <1>6, <1>7, <1>8, <1>9 DEF NamespacesInv

\* A command of the cleanup that takes too long counts as a failing removal; the browser's
\* suite has no namespace.
LEMMA RaisesKeeps == NamespacesInv /\ (CleanupRaises \/ BrowserRaises) => NamespacesInv'
<1>1. ASSUME NamespacesInv, CleanupRaises PROVE NamespacesInv'
  <2>1. /\ Goes /\ hit' = hit \cup {"cleanup"} /\ DOMAIN status' = DOMAIN status /\ plan # <<>>
        /\ faults' \in Int
    BY <1>1 DEF CleanupRaises, NamespacesInv, Place, Key, Fault
  <2>2. Excused'
    BY <2>1 DEF Excused
  <2> QED
    BY <1>1, <2>1, <2>2, GoesKeeps
<1>2. ASSUME NamespacesInv, BrowserRaises PROVE NamespacesInv'
  <2>1. /\ Goes /\ hit \subseteq hit' /\ DOMAIN status' = DOMAIN status /\ plan # <<>>
        /\ faults' \in Int /\ suite = "ui_critical"
    BY <1>2 DEF BrowserRaises, NamespacesInv, Place, Fault
  <2>2. SitesOf(suite) = {}
    BY <2>1 DEF SitesOf
  <2> QED
    BY <1>2, <2>1, <2>2, GoesKeeps
<1> QED
  BY <1>1, <1>2

\* The script goes on, or the scenario ends; what is noted is so because a step missed.
Moves ==
    /\ \/ at > 0 /\ (\E n \in Nat : at' = at + n) /\ UNCHANGED <<current, scenario>>
       \/ at' = 0 /\ current' = current + 1
    /\ DOMAIN row' = DOMAIN row
    /\ at' = 0 /\ noted' => at = 0 /\ noted
    /\ This.miss = 0 /\ ~This.caught /\ noted' => noted

\* What only changes something else
Elsewhere ==
    /\ UNCHANGED <<plan, docker, joined_network>>
    /\ DOMAIN status' = DOMAIN status
    /\ \A r \in {"upgrade", "test_deployment", "backup_restore_recovery"} :
          r \in DOMAIN status => status'[r] = status[r]
    /\ hit \subseteq hit'
    /\ faults' \in Int
    /\ plan # <<>> /\ phase \notin {"before", "cleanup"} /\ phase' \notin {"before", "cleanup"}

\* What handles no container, outside of a cleanup, leaves the namespaces as they are.
LEMMA ElsewhereKeeps == ASSUME NamespacesInv, Elsewhere, Place' PROVE NamespacesInv'
<1>1. suite' = suite
  BY DEF Elsewhere, suite
<1>2. \A s : Active(s)' <=> Active(s)
  BY <1>1 DEF Active, Elsewhere
<1>3. Excused => Excused'
  BY DEF Excused, Elsewhere
<1>4. \A s : (Closed(s)' <=> Closed(s)) /\ (Cleared(s) => Cleared(s)')
  BY DEF Closed, Present, Cleared, JoinRaised, Elsewhere
<1>5. RowsRun'
  BY <1>2 DEF NamespacesInv, RowsRun, Runs, Elsewhere
<1>6. SitesInv'
  BY <1>2, <1>3, <1>4 DEF NamespacesInv, SitesInv
<1>7. JoinInv'
  BY <1>2, <1>3 DEF NamespacesInv, JoinInv, JoinRaised, Elsewhere
<1>8. CleanupInv' /\ (docker \in DockerType)'
  BY DEF NamespacesInv, CleanupInv, Elsewhere
<1>9. BackupAlone'
  BY <1>4 DEF NamespacesInv, BackupAlone, Runs, Elsewhere
<1> QED
  BY <1>5, <1>6, <1>7, <1>8, <1>9 DEF NamespacesInv

\* A step of a script keeps the run where it is, or goes on to the next scenario.
LEMMA MovesKeepPlace == ASSUME Place, Elsewhere, Moves PROVE Place'
<1>1. suite' = suite
  BY DEF Elsewhere, suite
<1>2. CASE at' = 0 /\ current' = current + 1
  BY <1>1, <1>2 DEF Place, Elsewhere
<1>3. CASE at > 0 /\ (\E n \in Nat : at' = at + n) /\ UNCHANGED <<current, scenario>>
  BY <1>1, <1>3 DEF Place, Elsewhere
<1> QED
  BY <1>2, <1>3 DEF Moves

\* The scripts that clean up consist of commands whose result is not looked at.
LEMMA CleanupsAre ==
    ASSUME NEW s \in Strict
    PROVE  \A n \in 1..Len(CleanupOf(s)) : CleanupOf(s)[n].do = "docker" /\ CleanupOf(s)[n].want = "ANY"
<1> USE DEF Silent, Step
<1>1. CASE s = "backup_restore"
  BY <1>1 DEF CleanupOf, BackupRestoreCleanup
<1>2. CASE s = "test_deployment"
  BY <1>2 DEF CleanupOf, TestDeploymentCleanup
<1>3. CASE s \in {"upgrade", "rollback"}
  BY <1>3 DEF CleanupOf, UpgradeCleanup
<1> QED
  BY <1>1, <1>2, <1>3 DEF Strict

\* A step of a scenario
LEMMA InScenario ==
    ASSUME Place, InScript, at <= Len(Script), phase # "cleanup"
    PROVE  /\ plan # <<>> /\ phase # "before" /\ at > 0 /\ suite \in Suites
           /\ Confined(scenario, suite) /\ at \in 1..Len(Script)
           /\ This.miss \in Nat /\ Len(Script) \in Nat
<1>1. plan # <<>> /\ phase # "before" /\ at > 0
  BY DEF Place, InScript
<1>2. suite \in Suites
  BY <1>1, PlanStarts
<1>3. current \in 1..Len(Scenarios[suite]) /\ scenario = Scenarios[suite][current]
  <2>1. current <= Len(Scenarios[suite]) /\ scenario = Scenarios[suite][current] /\ current \in Nat /\ current # 0
    BY <1>1 DEF Place
  <2>2. Len(Scenarios[suite]) \in Nat
    BY <1>2, LengthsAre
  <2> QED
    BY <2>1, <2>2
<1>4. Confined(scenario, suite)
  BY <1>2, <1>3, ScenariosAreConfined DEF AllConfined
<1>5. at \in 1..Len(Script)
  BY <1>1, <1>4 DEF Place, Confined, Script
<1> QED
  BY <1>1, <1>2, <1>4, <1>5 DEF Confined, Script, This

\* A cleanup consists of steps at containers.
LEMMA NotCleaning ==
    ASSUME Place, InScript, at <= Len(Script), This.do # "docker" PROVE phase # "cleanup"
<1> SUFFICES ASSUME phase = "cleanup" PROVE FALSE
  OBVIOUS
<1>1. Script = CleanupOf(suite) /\ suite \in Strict /\ at \in Nat /\ at > 0
  BY DEF Place, Script
<1>2. Len(CleanupOf(suite)) \in Nat
  BY <1>1 DEF Strict, CleanupOf, BackupRestoreCleanup, TestDeploymentCleanup, UpgradeCleanup
<1>3. at \in 1..Len(CleanupOf(suite))
  BY <1>1, <1>2
<1> QED
  BY <1>1, <1>3, CleanupsAre DEF This

\* However an answer is judged, the script goes on or the scenario ends.
LEMMA AnswersMove ==
    ASSUME at \in Nat, at > 0, This.miss \in Nat
    PROVE  /\ \A a : Judge(a) => Moves
           /\ Raised => Moves
           /\ \A p : Ends(p) => Moves
           /\ \A a : \A n \in Nat : GoOn(a, n, FALSE) => Moves
<1>1. ASSUME NEW p, Ends(p) PROVE Moves
  <2>1. ~noted'
    BY <1>1 DEF Ends
  <2>2. at' = 0 /\ current' = current + 1 /\ DOMAIN row' = DOMAIN row
    BY <1>1 DEF Ends
  <2> QED
    BY <2>1, <2>2, Zenon DEF Moves
<1>2. ASSUME NEW a, NEW n \in Nat, NEW m, GoOn(a, n, m)
      PROVE  /\ at' # 0 /\ (\E i \in Nat : at' = at + i) /\ UNCHANGED <<current, scenario>>
             /\ DOMAIN row' = DOMAIN row
  BY <1>2 DEF GoOn
<1>3. ASSUME NEW a, NEW n \in Nat, GoOn(a, n, FALSE) PROVE Moves
  <2>1. noted' => noted
    BY <1>3, Zenon DEF GoOn
  <2> QED
    BY <1>2, <1>3, <2>1, Zenon DEF Moves
<1>4. ASSUME NEW a, NEW n \in Nat, GoOn(a, n, TRUE), This.miss # 0 \/ This.caught PROVE Moves
  BY <1>2, <1>4, Zenon DEF Moves
<1>5. \A a : Judge(a) => Moves
  BY <1>1, <1>3, <1>4 DEF Judge
<1>6. Raised => Moves
  BY <1>1, <1>4 DEF Raised
<1> QED
  BY <1>1, <1>3, <1>5, <1>6

\* A step of a script that is not at a container
OtherStep ==
    \/ ProbeStep \/ CountsStep \/ AssertStep \/ SuiteStep \/ ItemsStep \/ ArtifactStep \/ PageStep
    \/ EventStep \/ AgainStep \/ QuietStep \/ LocalStep \/ DbStep \/ WebStep \/ ReplayStep
    \/ LoginStep \/ StartStep \/ EndStep \/ RepeatStep \/ TotalStep \/ ScriptEnds

\* The faults that are counted stay a number.
LEMMA FaultsStay ==
    ASSUME faults \in Int
    PROVE  /\ Fault => faults' \in Int
           /\ Fails => faults' \in Int
           /\ \A d, e, r : PostAnswered(d, e, r) => faults' \in Int
           /\ \A d, e : PostRaises(d, e) => faults' \in Int
           /\ \A d : ReplayOne(d) => faults' \in Int
<1>1. Fault => faults' \in Int
  BY DEF Fault
<1>2. \A d, e, r : PostAnswered(d, e, r) => faults' \in Int
  BY <1>1 DEF PostAnswered
<1>3. \A d, e : PostRaises(d, e) => faults' \in Int
  BY <1>1 DEF PostRaises
<1>4. \A d : ReplayOne(d) => faults' \in Int
  BY <1>2, <1>3 DEF ReplayOne
<1> QED
  BY <1>1, <1>2, <1>3, <1>4 DEF Fails

\* A step that is not at a container handles none.
LEMMA DoIsElsewhere ==
    ASSUME Place, NEW what, Do(what), what # "docker", hit \subseteq hit', faults' \in Int
    PROVE  Elsewhere
<1>1. InScript /\ at <= Len(Script) /\ This.do # "docker" /\ UNCHANGED <<plan, status, phase>> /\ UNCHANGED dockerVars
  BY DEF Do, runVars
<1>2. phase # "cleanup"
  BY <1>1, NotCleaning
<1>3. plan # <<>> /\ phase # "before"
  BY <1>1, <1>2, InScenario
<1> QED
  BY <1>1, <1>2, <1>3 DEF Elsewhere, dockerVars

\* Each step that is not at a container goes on in its script, or ends its scenario.
LEMMA OtherStepsMove ==
    ASSUME Place, OtherStep
    PROVE  Elsewhere /\ Moves
<1>1. HitNow => hit \subseteq hit'
  BY DEF HitNow
<1>2. faults \in Int
  BY DEF Place
<1>3. ASSUME NEW what, what # "docker", Do(what)
      PROVE  at \in Nat /\ at > 0 /\ This.miss \in Nat /\ Len(Script) \in Nat
  <2>1. InScript /\ at <= Len(Script) /\ This.do # "docker"
    BY <1>3 DEF Do
  <2> QED
    BY <2>1, NotCleaning, InScenario DEF Place
<1>4. CASE ProbeStep
  <2>1. Do("probe") /\ hit \subseteq hit' /\ faults' \in Int /\ \E a : Judge(a)
    BY <1>1, <1>2, <1>4, FaultsStay DEF ProbeStep
  <2> QED
    BY <1>3, <2>1, DoIsElsewhere, AnswersMove
<1>5. CASE CountsStep
  <2>1. Do("counts") /\ hit \subseteq hit' /\ faults' \in Int /\ ((\E a : Judge(a)) \/ Raised)
    BY <1>1, <1>2, <1>5, FaultsStay DEF CountsStep
  <2> QED
    BY <1>3, <2>1, DoIsElsewhere, AnswersMove
<1>6. CASE AssertStep
  <2>1. Do("assert") /\ hit \subseteq hit' /\ faults' \in Int /\ \E a : Judge(a)
    BY <1>2, <1>6 DEF AssertStep, clientVars
  <2> QED
    BY <1>3, <2>1, DoIsElsewhere, AnswersMove
<1>7. CASE SuiteStep
  <2>1. Do("suite") /\ hit \subseteq hit' /\ faults' \in Int /\ \E a : Judge(a)
    BY <1>1, <1>2, <1>7, FaultsStay DEF SuiteStep
  <2> QED
    BY <1>3, <2>1, DoIsElsewhere, AnswersMove
<1>8. CASE ItemsStep
  <2>1. Do("items") /\ hit \subseteq hit' /\ faults' \in Int
    BY <1>1, <1>2, <1>8, FaultsStay DEF ItemsStep
  <2>2. at \in Nat /\ at > 0 /\ This.miss \in Nat /\ Len(Script) \in Nat
    BY <1>3, <2>1
  <2>3. (\E n \in Nat : GoOn("OK", n, FALSE)) \/ Raised
    <3>1. (IF logged THEN 1 ELSE Len(Script)) \in Nat
      BY <2>2
    <3> QED
      BY <1>8, <3>1 DEF ItemsStep
  <2> QED
    BY <2>1, <2>2, <2>3, DoIsElsewhere, AnswersMove
<1>9. CASE ArtifactStep
  <2>1. Do("artifact") /\ hit \subseteq hit' /\ faults' \in Int /\ ((\E a : Judge(a)) \/ Raised)
    BY <1>1, <1>2, <1>9, FaultsStay DEF ArtifactStep
  <2> QED
    BY <1>3, <2>1, DoIsElsewhere, AnswersMove
<1>10. CASE PageStep
  <2>1. InScript /\ at <= Len(Script) /\ This.do # "docker" /\ UNCHANGED <<plan, status>> /\ UNCHANGED dockerVars
        /\ hit \subseteq hit' /\ phase' \in {"ready", "late"}
    BY <1>1, <1>10 DEF PageStep, runVars
  <2>2. faults' \in Int
    BY <1>2, <1>10, FaultsStay DEF PageStep
  <2>3. phase # "cleanup"
    BY <2>1, NotCleaning
  <2>4. plan # <<>> /\ phase # "before" /\ at \in Nat /\ at > 0 /\ This.miss \in Nat
    BY <2>1, <2>3, InScenario DEF Place
  <2>5. Moves
    BY <1>10, <2>4, AnswersMove DEF PageStep
  <2> QED
    BY <2>1, <2>2, <2>3, <2>4, <2>5 DEF Elsewhere, dockerVars
<1>11. CASE EventStep
  <2>1. Do("event") /\ hit \subseteq hit' /\ faults' \in Int /\ ((\E a : Judge(a)) \/ Raised)
    BY <1>1, <1>2, <1>11, FaultsStay DEF EventStep
  <2> QED
    BY <1>3, <2>1, DoIsElsewhere, AnswersMove
<1>12. CASE AgainStep
  <2>1. Do("again") /\ hit \subseteq hit' /\ faults' \in Int /\ ((\E a : Judge(a)) \/ Raised)
    BY <1>1, <1>2, <1>12, FaultsStay DEF AgainStep
  <2> QED
    BY <1>3, <2>1, DoIsElsewhere, AnswersMove
<1>13. CASE QuietStep
  <2>1. PICK what \in {"boot", "insert", "look", "read"} : Do(what)
    BY <1>13 DEF QuietStep
  <2>2. hit \subseteq hit' /\ faults' \in Int /\ ((\E a : Judge(a)) \/ Raised)
    BY <1>1, <1>2, <1>13, FaultsStay DEF QuietStep
  <2>3. what # "docker"
    BY <2>1
  <2> QED
    BY <1>3, <2>1, <2>2, <2>3, DoIsElsewhere, AnswersMove
<1>14. CASE LocalStep
  <2>1. PICK what \in {"offline", "take", "cut", "client"} : Do(what)
    BY <1>14 DEF LocalStep
  <2>2. hit \subseteq hit' /\ faults' \in Int /\ Judge("OK")
    BY <1>2, <1>14 DEF LocalStep
  <2>3. what # "docker"
    BY <2>1
  <2> QED
    BY <1>3, <2>1, <2>2, <2>3, DoIsElsewhere, AnswersMove
<1>15. CASE DbStep
  <2>1. Do("db") /\ hit \subseteq hit' /\ faults' \in Int /\ ((\E a : Judge(a)) \/ Raised)
    BY <1>1, <1>2, <1>15, FaultsStay DEF DbStep
  <2> QED
    BY <1>3, <2>1, DoIsElsewhere, AnswersMove
<1>16. CASE WebStep
  <2>1. Do("web") /\ hit \subseteq hit' /\ faults' \in Int /\ ((\E a : Judge(a)) \/ Raised)
    BY <1>1, <1>2, <1>16, FaultsStay DEF WebStep
  <2> QED
    BY <1>3, <2>1, DoIsElsewhere, AnswersMove
<1>17. CASE ReplayStep
  <2>1. Do("replay") /\ hit \subseteq hit'
    BY <1>1, <1>17 DEF ReplayStep
  <2>2. faults' \in Int
    BY <1>2, <1>17, FaultsStay DEF ReplayStep, clientVars
  <2>3. (\E a : Judge(a)) \/ Raised \/ Ends(FALSE) \/ GoOn(last, 0, FALSE) \/ GoOn(last, 1, FALSE)
    BY <1>17 DEF ReplayStep
  <2> QED
    BY <1>3, <2>1, <2>2, <2>3, DoIsElsewhere, AnswersMove
<1>18. CASE LoginStep
  <2>1. Do("login") /\ hit \subseteq hit' /\ faults' \in Int /\ ((\E a : Judge(a)) \/ Raised)
    BY <1>1, <1>2, <1>18, FaultsStay DEF LoginStep
  <2> QED
    BY <1>3, <2>1, DoIsElsewhere, AnswersMove
<1>19. CASE StartStep
  <2>1. Do("start") /\ hit \subseteq hit' /\ faults' \in Int /\ ((\E a : Judge(a)) \/ Raised)
    BY <1>1, <1>2, <1>19, FaultsStay DEF StartStep
  <2> QED
    BY <1>3, <2>1, DoIsElsewhere, AnswersMove
<1>20. CASE EndStep
  <2>1. Do("finish") /\ hit \subseteq hit' /\ faults' \in Int /\ ((\E a : Judge(a)) \/ Raised)
    BY <1>1, <1>2, <1>20, FaultsStay DEF EndStep
  <2> QED
    BY <1>3, <2>1, DoIsElsewhere, AnswersMove
<1>21. CASE RepeatStep
  <2>1. Do("repeat") /\ hit \subseteq hit' /\ faults' \in Int /\ ((\E a : Judge(a)) \/ Raised)
    BY <1>1, <1>2, <1>21, FaultsStay DEF RepeatStep
  <2> QED
    BY <1>3, <2>1, DoIsElsewhere, AnswersMove
<1>22. CASE TotalStep
  <2>1. Do("total") /\ hit \subseteq hit' /\ faults' \in Int /\ ((\E a : Judge(a)) \/ Raised)
    BY <1>1, <1>2, <1>22, FaultsStay DEF TotalStep
  <2> QED
    BY <1>3, <2>1, DoIsElsewhere, AnswersMove
<1>23. CASE ScriptEnds
  <2>1. InScript /\ phase # "cleanup" /\ UNCHANGED <<plan, status, hit, phase, faults>> /\ UNCHANGED dockerVars
    BY <1>23 DEF ScriptEnds, runVars, clientVars
  <2>2. plan # <<>> /\ phase # "before"
    BY <2>1 DEF Place, InScript
  <2>3. Moves
    <3>1. ~noted' /\ at' = 0 /\ current' = current + 1 /\ DOMAIN row' = DOMAIN row
      BY <1>23 DEF ScriptEnds, Ends
    <3> QED
      BY <3>1, Zenon DEF Moves
  <2> QED
    BY <1>2, <2>1, <2>2, <2>3 DEF Elsewhere, dockerVars
<1> QED
  BY <1>4, <1>5, <1>6, <1>7, <1>8, <1>9, <1>10, <1>11, <1>12, <1>13, <1>14, <1>15, <1>16, <1>17, <1>18, <1>19,
     <1>20, <1>21, <1>22, <1>23 DEF OtherStep

\* So such a step keeps the invariant.
LEMMA OtherStepsKeep == NamespacesInv /\ OtherStep => NamespacesInv'
<1> SUFFICES ASSUME NamespacesInv, OtherStep PROVE NamespacesInv'
  OBVIOUS
<1>1. Place
  BY DEF NamespacesInv
<1>2. Elsewhere /\ Moves
  BY <1>1, OtherStepsMove
<1>3. Place'
  BY <1>1, <1>2, MovesKeepPlace
<1> QED
  BY <1>2, <1>3, ElsewhereKeeps

\* The steps of the burst go on or end a scenario, too.
LEMMA BurstMoves == ASSUME Place, BurstStep PROVE Elsewhere /\ Moves
<1>1. faults \in Int
  BY DEF Place
<1>2. suite = "offline_burst" /\ at > 0
  BY DEF BurstStep, OnlinePhase, QueuePhase, ReconnectAll, ReplayThread, ReconnectEnds, ConvergencePhase, InPhase
<1>3. plan # <<>> /\ phase \notin {"before", "cleanup"}
  BY <1>2 DEF Place, Strict
<1>4. hit \subseteq hit'
  BY DEF BurstStep, OnlinePhase, QueuePhase, ReconnectAll, ReplayThread, ReconnectEnds, ConvergencePhase, HitNow
<1>5. faults' \in Int
  BY <1>1, FaultsStay DEF BurstStep, OnlinePhase, QueuePhase, ReconnectAll, ReplayThread, ReconnectEnds,
     ConvergencePhase, clientVars
<1>6. UNCHANGED <<plan, status>> /\ UNCHANGED dockerVars /\ (phase' = phase \/ phase' = "short")
  BY DEF BurstStep, OnlinePhase, QueuePhase, ReconnectAll, ReplayThread, ReconnectEnds, ConvergencePhase, runVars
<1>7. Elsewhere
  BY <1>3, <1>4, <1>5, <1>6 DEF Elsewhere, dockerVars
<1>8. Moves
  <2>1. ASSUME NEW p, Ends(p) PROVE Moves
    <3>1. ~noted' /\ at' = 0 /\ current' = current + 1 /\ DOMAIN row' = DOMAIN row
      BY <2>1 DEF Ends
    <3> QED
      BY <3>1, Zenon DEF Moves
  <2>2. at \in Nat
    BY DEF Place
  <2>3. at' = at + 1 \/ at' = at + 0 => \E n \in Nat : at' = at + n
    OBVIOUS
  <2>4. ASSUME at' = at + 1 \/ at' = at, UNCHANGED <<current, scenario>>, row' = row, (noted' => noted) PROVE Moves
    <3>1. at' # 0 /\ \E n \in Nat : at' = at + n
      BY <1>2, <2>2, <2>3, <2>4
    <3> QED
      BY <1>2, <2>4, <3>1, Zenon DEF Moves
  <2>5. CASE OnlinePhase
    <3>1. GoOn(last, 1, FALSE) => (noted' => noted)
      BY Zenon DEF GoOn
    <3>2. (\E p : Ends(p)) \/ GoOn(last, 1, FALSE)
      BY <2>5 DEF OnlinePhase
    <3> QED
      BY <2>1, <2>4, <3>1, <3>2 DEF GoOn
  <2>6. CASE QueuePhase
    BY <2>1, <2>6 DEF QueuePhase
  <2>7. CASE ReconnectAll
    <3>1. at = 1 /\ at' = 2 /\ UNCHANGED <<current, scenario, row, noted>>
      BY <2>7 DEF ReconnectAll
    <3>2. at' = at + 1
      BY <3>1
    <3> QED
      BY <2>4, <3>1, <3>2
  <2>8. CASE \E d \in Devices : ReplayThread(d)
    BY <2>4, <2>8 DEF ReplayThread, scenarioVars
  <2>9. CASE ReconnectEnds
    BY <2>1, <2>9 DEF ReconnectEnds
  <2>10. CASE ConvergencePhase
    BY <2>1, <2>10 DEF ConvergencePhase
  <2> QED
    BY <2>5, <2>6, <2>7, <2>8, <2>9, <2>10 DEF BurstStep
<1> QED
  BY <1>7, <1>8

\* So they keep the invariant,
LEMMA BurstKeepsNamespaces == NamespacesInv /\ BurstStep => NamespacesInv'
  BY BurstMoves, MovesKeepPlace, ElsewhereKeeps DEF NamespacesInv

\* and the beginning of a scenario does.
LEMMA BeginsKeep == NamespacesInv /\ (Begin \/ Skip) => NamespacesInv'
<1>1. ASSUME NamespacesInv, Begin PROVE NamespacesInv'
  <2>1. /\ at = 0 /\ at' = 1 /\ scenario' = Upcoming /\ current <= Len(Scenarios[suite])
        /\ phase \in {"ready", "short", "late"} /\ UNCHANGED <<phase, current, plan, hit, faults, docker, joined_network>>
    BY <1>1 DEF Begin, runVars, dockerVars
  <2>2. plan # <<>>
    BY <1>1, <2>1 DEF NamespacesInv, Place
  <2>3. /\ DOMAIN status' = DOMAIN status
        /\ \A r \in {"upgrade", "test_deployment", "backup_restore_recovery"} :
              r \in DOMAIN status => status'[r] = status[r]
    BY <1>1 DEF Begin
  <2>4. Elsewhere
    BY <1>1, <2>1, <2>2, <2>3 DEF Elsewhere, NamespacesInv, Place
  <2>5. Place'
    <3>1. suite' = suite
      BY <2>1 DEF suite
    <3> QED
      BY <1>1, <2>1, <2>2, <3>1 DEF NamespacesInv, Place, Upcoming
  <2> QED
    BY <1>1, <2>4, <2>5, ElsewhereKeeps
<1>2. ASSUME NamespacesInv, Skip PROVE NamespacesInv'
  <2>1. /\ at = 0 /\ at' = 0 /\ current' = current + 1 /\ phase = "ready"
        /\ UNCHANGED <<phase, plan, hit, faults, docker, joined_network, status, row, noted>>
    BY <1>2 DEF Skip, runVars, dockerVars, clientVars
  <2>2. plan # <<>>
    BY <1>2, <2>1 DEF NamespacesInv, Place
  <2>3. Elsewhere /\ Moves
    BY <1>2, <2>1, <2>2 DEF Elsewhere, NamespacesInv, Place, Moves
  <2> QED
    BY <1>2, <2>3, MovesKeepPlace, ElsewhereKeeps DEF NamespacesInv
<1> QED
  BY <1>1, <1>2

-----------------------------------------------------------------------------
(* The steps at a container                                                *)

\* What a step at a container may do to the namespace s
LEMMA DockerOutcomes ==
    ASSUME docker \in DockerType, joined_network \in BOOLEAN, faults \in Int,
           NEW s \in Sites, Acts(This.type, This.arg, s), DockerStep
    PROVE  /\ docker' \in DockerType
           /\ \A r \in Sites \ {s} : Same(docker, docker', r)
           /\ hit \subseteq hit' /\ faults' \in Int
           /\ joined_network' \in BOOLEAN /\ (joined_network => joined_network')
           /\ UNCHANGED <<plan, status, phase>>
           /\ (\E a : Judge(a)) \/ GoOn("NONE", 1, FALSE)
           /\ This.type \notin {"join", "deploy"} => docker'.joined \subseteq docker.joined
           /\ This.type = "join" => joined_network' \/ docker' = docker \/ Key \in hit'
<1>1. hit \subseteq hit' /\ UNCHANGED <<plan, status, phase>>
  BY DEF DockerStep, Do, runVars
<1>2. (\E a : Judge(a)) \/ GoOn("NONE", 1, FALSE)
  BY DEF DockerStep
<1>3. \/ UNCHANGED <<docker, joined_network, faults>>
      \/ docker' = After(This.type, This.arg) /\ joined_network' = (joined_network \/ This.type = "join") /\ UNCHANGED faults
      \/ Fault /\ docker' \in Failed(This.type, This.arg) /\ UNCHANGED joined_network
  BY DEF DockerStep, dockerVars
<1>4. CASE UNCHANGED <<docker, joined_network, faults>>
  BY <1>1, <1>2, <1>4 DEF Same
<1>5. CASE /\ docker' = After(This.type, This.arg) /\ joined_network' = (joined_network \/ This.type = "join")
           /\ UNCHANGED faults
  <2>1. joined_network' \in BOOLEAN /\ (joined_network => joined_network') /\ (This.type = "join" => joined_network')
    BY <1>5, Zenon
  <2>2. docker' \in DockerType /\ \A r \in Sites \ {s} : Same(docker, docker', r)
    BY <1>5, AfterIsLocal
  <2>3. This.type \notin {"join", "deploy"} => docker'.joined \subseteq docker.joined
    BY <1>5, AfterJoined
  <2>4. faults' \in Int
    BY <1>5
  <2> QED
    BY <1>1, <1>2, <2>1, <2>2, <2>3, <2>4, Zenon
<1>6. CASE Fault /\ docker' \in Failed(This.type, This.arg) /\ UNCHANGED joined_network
  <2>1. faults' \in Int /\ Key \in hit'
    BY <1>6 DEF Fault, DockerStep
  <2>2. docker' \in DockerType /\ \A r \in Sites \ {s} : Same(docker, docker', r)
    BY <1>6, FailedIsLocal
  <2>3. This.type \notin {"join", "deploy"} => docker'.joined \subseteq docker.joined
    BY <1>6, FailedIsLocal
  <2> QED
    BY <1>1, <1>2, <1>6, <2>1, <2>2, <2>3
<1> QED
  BY <1>3, <1>4, <1>5, <1>6

\* A step at a container of its suite's namespaces
AtOwnSite(p) ==
    /\ p \in SitesOf(suite)
    /\ Acts(This.type, This.arg, p)
    /\ suite \in {"upgrade", "rollback"} =>
          This.type # "deploy" /\ (This.type = "join" => Key = "old_version_deploys")

\* A step at a container changes its suite's namespaces only; what it joins, the run knows of,
\* unless the joining raised.
LEMMA DockerKeeps ==
    ASSUME NamespacesInv, DockerStep, plan # <<>>, phase # "before", NEW p, AtOwnSite(p)
    PROVE  (docker \in DockerType)' /\ RowsRun' /\ SitesInv' /\ JoinInv' /\ BackupAlone'
<1>1. p \in Sites /\ docker \in DockerType /\ joined_network \in BOOLEAN /\ faults \in Int
  BY OwnSitesAre DEF AtOwnSite, NamespacesInv, Place
<1>2. /\ docker' \in DockerType
      /\ \A r \in Sites \ {p} : Same(docker, docker', r)
      /\ hit \subseteq hit'
      /\ joined_network => joined_network'
      /\ UNCHANGED <<plan, status, phase>>
      /\ This.type \notin {"join", "deploy"} => docker'.joined \subseteq docker.joined
      /\ This.type = "join" => joined_network' \/ docker' = docker \/ Key \in hit'
  BY <1>1, DockerOutcomes DEF AtOwnSite
<1>3. suite' = suite
  BY <1>2 DEF suite
<1>4. \A s : Active(s)' <=> Active(s)
  BY <1>2, <1>3 DEF Active
<1>5. Excused => Excused'
  BY <1>2 DEF Excused
<1>6. \A s \in Sites \ {p} : (Closed(s)' <=> Closed(s)) /\ (Cleared(s) => Cleared(s)')
  BY <1>1, <1>2, SameIsClosed, SameIsCleared
<1>7. RowsRun'
  BY <1>2, <1>4 DEF NamespacesInv, RowsRun, Runs
<1>8. SitesInv'
  <2> SUFFICES ASSUME NEW s \in OwnSites, ~Active(s)', ~Excused' PROVE Cleared(s)'
    BY DEF SitesInv
  <2>1. ~Active(s) /\ ~Excused /\ s \in Sites
    BY <1>4, <1>5 DEF OwnSites
  <2>2. s # p
    BY <2>1 DEF Active, AtOwnSite
  <2> QED
    BY <1>6, <2>1, <2>2 DEF NamespacesInv, SitesInv
<1>9. JoinInv'
  <2> SUFFICES ASSUME Active("upgrade")', ~Excused', "upgrade" \in docker'.joined, ~JoinRaised'
               PROVE  joined_network'
    BY DEF JoinInv
  <2>1. Active("upgrade") /\ ~Excused
    BY <1>4, <1>5
  <2>2. suite \in {"upgrade", "rollback"}
    BY <2>1 DEF Active, SitesOf
  <2>3. This.type # "deploy" /\ (This.type = "join" => Key = "old_version_deploys")
    BY <2>2 DEF AtOwnSite
  <2>4. "old_version_deploys" \notin hit'
    BY DEF JoinRaised
  <2>5. joined_network' \/ docker'.joined \subseteq docker.joined
    BY <1>2, <2>3, <2>4
  <2>6. joined_network' \/ joined_network
    BY <1>2, <2>1, <2>4, <2>5 DEF NamespacesInv, JoinInv, JoinRaised
  <2> QED
    BY <1>2, <2>6
<1>10. BackupAlone'
  <2> SUFFICES ASSUME Runs("backup_restore_recovery")' PROVE BackupAlone'
    BY DEF BackupAlone
  <2>1. /\ plan \in {<<>>, <<"backup_restore">>} /\ Closed("upgrade") /\ Closed("compose")
        /\ "release" \in docker.nets
    BY <1>2 DEF NamespacesInv, BackupAlone, Runs
  <2>2. suite = "backup_restore"
    BY <2>1 DEF suite
  <2>3. p \in {"source", "restore"}
    BY <2>2 DEF AtOwnSite, SitesOf
  <2>4. Closed("upgrade")' /\ Closed("compose")'
    BY <1>6, <2>1, <2>3 DEF Sites
  <2>5. Same(docker, docker', "release")
    BY <1>2, <2>3 DEF Sites
  <2>6. "release" \in docker'.nets
    BY <2>1, <2>5 DEF Same
  <2> QED
    BY <1>2, <2>1, <2>4, <2>6 DEF BackupAlone
<1> QED
  BY <1>2, <1>7, <1>8, <1>9, <1>10

\* In a scenario such a step is at a namespace of its suite, and goes on or ends the scenario.
LEMMA DockerMoves ==
    ASSUME NamespacesInv, DockerStep, phase # "cleanup"
    PROVE  /\ (\E p : AtOwnSite(p)) /\ Moves
           /\ plan # <<>> /\ phase # "before" /\ at > 0 /\ UNCHANGED <<plan, status, phase>>
           /\ faults' \in Int /\ joined_network' \in BOOLEAN
<1>1. Place /\ InScript /\ at <= Len(Script) /\ This.do = "docker" /\ at \in Nat
  BY DEF NamespacesInv, DockerStep, Do, Place
<1>2. /\ plan # <<>> /\ phase # "before" /\ at > 0 /\ suite \in Suites
      /\ Confined(scenario, suite) /\ at \in 1..Len(Script) /\ This.miss \in Nat
  BY <1>1, InScenario
<1>3. PICK p : AtOwnSite(p)
  BY <1>1, <1>2 DEF Confined, AtOwnSite, This, Script, Key
<1>4. /\ faults' \in Int /\ joined_network' \in BOOLEAN /\ UNCHANGED <<plan, status, phase>>
      /\ (\E a : Judge(a)) \/ GoOn("NONE", 1, FALSE)
  BY <1>3, DockerOutcomes, OwnSitesAre DEF AtOwnSite, NamespacesInv, Place
<1>5. Moves
  BY <1>1, <1>2, <1>4, AnswersMove
<1> QED
  BY <1>2, <1>3, <1>4, <1>5

\* So it keeps the invariant.
LEMMA DockerInScenarioKeeps == NamespacesInv /\ DockerStep /\ phase # "cleanup" => NamespacesInv'
<1> SUFFICES ASSUME NamespacesInv, DockerStep, phase # "cleanup" PROVE NamespacesInv'
  OBVIOUS
<1>1. /\ Moves /\ plan # <<>> /\ phase # "before" /\ at > 0 /\ UNCHANGED <<plan, status, phase>>
      /\ faults' \in Int /\ joined_network' \in BOOLEAN
  BY DockerMoves
<1>2. PICK p : AtOwnSite(p)
  BY DockerMoves
<1>3. (docker \in DockerType)' /\ RowsRun' /\ SitesInv' /\ JoinInv' /\ BackupAlone'
  BY <1>1, <1>2, DockerKeeps
<1>4. Place'
  <2>1. Place /\ suite' = suite
    BY <1>1 DEF suite, NamespacesInv
  <2>2. CASE at' = 0 /\ current' = current + 1
    BY <1>1, <2>1, <2>2 DEF Place
  <2>3. CASE at > 0 /\ (\E n \in Nat : at' = at + n) /\ UNCHANGED <<current, scenario>>
    BY <1>1, <2>1, <2>3 DEF Place
  <2> QED
    BY <1>1, <2>2, <2>3 DEF Moves
<1>5. CleanupInv'
  BY <1>1 DEF CleanupInv
<1> QED
  BY <1>3, <1>4, <1>5 DEF NamespacesInv

-----------------------------------------------------------------------------
(* The steps of a cleanup                                                  *)

\* The scripts that clean up, written out
LEMMA CleanupSteps ==
    /\ \A s \in {"upgrade", "rollback"} :
          /\ CleanupOf(s) = UpgradeCleanup
          /\ Len(UpgradeCleanup) = 6
          /\ UpgradeCleanup[1] = Silent("rm", "old") /\ UpgradeCleanup[2] = Silent("rm", "new")
          /\ UpgradeCleanup[3] = Silent("rm_db", "upgrade") /\ UpgradeCleanup[4] = Silent("leave", "upgrade")
          /\ UpgradeCleanup[5] = Silent("rm_net", "upgrade") /\ UpgradeCleanup[6] = Silent("rm_vol", "upgrade")
    /\ LET c == CleanupOf("test_deployment")
       IN  /\ Len(c) = 3 /\ c[1] = Silent("leave", "compose")
           /\ c[2] = Silent("compose_down", "compose") /\ c[3] = Silent("alpine", "compose")
    /\ LET c == CleanupOf("backup_restore")
       IN  Len(c) = 2 /\ c[1] = Silent("destroy", "source") /\ c[2] = Silent("destroy", "restore")
<1> HIDE DEF Silent
<1>1. ASSUME NEW s \in {"upgrade", "rollback"} PROVE CleanupOf(s) = UpgradeCleanup
  BY <1>1 DEF CleanupOf
<1>2. CleanupOf("test_deployment") = TestDeploymentCleanup /\ CleanupOf("backup_restore") = BackupRestoreCleanup
  BY DEF CleanupOf
<1> QED
  BY <1>1, <1>2 DEF UpgradeCleanup, TestDeploymentCleanup, BackupRestoreCleanup

\* A command whose result is not looked at.
LEMMA SilentIs ==
    \A op, x : LET c == Silent(op, x)
               IN  c.do = "docker" /\ c.type = op /\ c.arg = x /\ c.want = "ANY" /\ c.miss = 0
  BY DEF Silent, Step

\* What a removal that is not possible says
Vain(op, x) ==
    \/ op = "leave" /\ x \notin docker.joined
    \/ op = "rm_net" /\ ~(/\ x \in docker.nets \ docker.joined
                          /\ docker.db[x] = "absent"
                          /\ \A a \in AppsOf(x) : docker.app[a] = "absent")
    \/ op = "rm_vol" /\ ~(x \in docker.vols /\ docker.db[x] = "absent")

Removing == {"rm", "rm_db", "leave", "rm_net", "rm_vol", "compose_down", "alpine", "destroy"}

\* A removal is impossible only when there is nothing to remove, or something in its way.
LEMMA CannotRemove == \A op \in Removing : \A x : ~Can(op, x) => Vain(op, x)
  BY DEF Can, Vain, Removing

\* In a cleanup: where it is
LEMMA InCleanup ==
    ASSUME Place, InScript, at <= Len(Script), phase = "cleanup"
    PROVE  /\ suite \in Strict /\ plan # <<>> /\ Script = CleanupOf(suite) /\ Key = "cleanup"
           /\ at \in 1..Len(CleanupOf(suite)) /\ This = CleanupOf(suite)[at]
<1>1. suite \in Strict /\ Script = CleanupOf(suite) /\ at \in Nat /\ at > 0 /\ Key = "cleanup" /\ plan # <<>>
  BY DEF Place, Script, Key
<1>2. Len(CleanupOf(suite)) \in Nat
  BY <1>1 DEF Strict, CleanupOf, BackupRestoreCleanup, TestDeploymentCleanup, UpgradeCleanup
<1> QED
  BY <1>1, <1>2 DEF This

\* A cleanup removes what is of its suite's namespaces.
LEMMA CleanupIsAtOwnSite ==
    ASSUME suite \in Strict, at \in 1..Len(CleanupOf(suite)), This = CleanupOf(suite)[at]
    PROVE  \E p : AtOwnSite(p) /\ This.miss = 0 /\ This.want = "ANY" /\ This.type \in Removing
<1>1. CASE suite \in {"upgrade", "rollback"}
  <2>1. /\ This.type \in {"rm", "rm_db", "leave", "rm_net", "rm_vol"} /\ This.miss = 0 /\ This.want = "ANY"
        /\ This.type = "rm" => This.arg \in {"old", "new"}
        /\ This.type # "rm" => This.arg = "upgrade"
    <3>1. at \in {1, 2, 3, 4, 5, 6}
      BY <1>1, CleanupSteps
    <3> QED
      BY <1>1, <3>1, CleanupSteps, SilentIs
  <2>2. Acts(This.type, This.arg, "upgrade")
    BY <2>1, ActsAre DEF AppOps, SiteOps
  <2> QED
    BY <1>1, <2>1, <2>2 DEF AtOwnSite, SitesOf, Removing
<1>2. CASE suite = "test_deployment"
  <2>1. This.type \in {"leave", "compose_down", "alpine"} /\ This.arg = "compose" /\ This.miss = 0 /\ This.want = "ANY"
    <3>1. at \in {1, 2, 3}
      BY <1>2, CleanupSteps
    <3> QED
      BY <1>2, <3>1, CleanupSteps, SilentIs
  <2>2. Acts(This.type, This.arg, "compose")
    BY <2>1 DEF Acts, SiteOps, OtherOps
  <2> QED
    BY <1>2, <2>1, <2>2 DEF AtOwnSite, SitesOf, Removing
<1>3. CASE suite = "backup_restore"
  <2>1. This.type = "destroy" /\ This.arg \in {"source", "restore"} /\ This.miss = 0 /\ This.want = "ANY"
    <3>1. at \in {1, 2}
      BY <1>3, CleanupSteps
    <3> QED
      BY <1>3, <3>1, CleanupSteps, SilentIs
  <2>2. Acts(This.type, This.arg, This.arg)
    BY <2>1 DEF Acts, SiteOps
  <2> QED
    BY <1>3, <2>1, <2>2 DEF AtOwnSite, SitesOf, Removing
<1> QED
  BY <1>1, <1>2, <1>3 DEF Strict

\* What a command of a cleanup that does not fail does
Removes ==
    \/ docker' = After(This.type, This.arg)
    \/ docker' = docker /\ Vain(This.type, This.arg)
    \/ docker' = docker /\ suite \in {"upgrade", "rollback"} /\ This.type = "leave" /\ ~joined_network

\* A command of a cleanup that does not fail removes what it is about, or there was no need to.
LEMMA DockerRemoves ==
    ASSUME DockerStep, Key = "cleanup", "cleanup" \notin hit', faults \in Int, This.type \in Removing PROVE Removes
<1>1. ~Fault
  BY DEF DockerStep, Fault
<1>2. \/ docker' = After(This.type, This.arg)
      \/ docker' = docker /\ ~Can(This.type, This.arg)
      \/ docker' = docker /\ suite \in {"upgrade", "rollback"} /\ This.type = "leave" /\ ~joined_network
  BY <1>1 DEF DockerStep, dockerVars
<1>3. ~Can(This.type, This.arg) => Vain(This.type, This.arg)
  BY CannotRemove
<1> QED
  BY <1>2, <1>3, Zenon DEF Removes

UpgradeCleaned(d, n) ==
    /\ n >= 2 => d.app["old"] = "absent"
    /\ n >= 3 => d.app["new"] = "absent"
    /\ n >= 4 => d.db["upgrade"] = "absent"
    /\ n >= 5 => ("upgrade" \in d.joined => JoinRaised)
    /\ n >= 6 => ("upgrade" \in d.nets => "upgrade" \in d.joined)
    /\ n >= 7 => "upgrade" \notin d.vols

\* One command after the other, the cleanup of upgrade and rollback removes the containers,
\* leaves the network, and removes network and volume, which are then no longer in use.
LEMMA UpgradeIsCleaned ==
    ASSUME docker \in DockerType, at \in 1..6, This = UpgradeCleanup[at], UpgradeCleaned(docker, at), Removes,
           "upgrade" \in docker.joined => joined_network \/ JoinRaised
    PROVE  UpgradeCleaned(docker', at + 1)
<1> DEFINE U == "upgrade"
<1>0. U \in Sites /\ "old" \in AppsOf(U) /\ "new" \in AppsOf(U) /\ AppsOf(U) = {"old", "new"}
      /\ "old" \in Apps \ {"new"} /\ "new" \in Apps \ {"old"}
  BY SitesAre DEF Sites
<1>1. CASE at = 1
  <2>1. docker' = After("rm", "old")
    BY <1>1, CleanupSteps, SilentIs DEF Removes, Vain
  <2>2. docker'.app["old"] = "absent"
    BY <1>0, <2>1, RemovalsAre
  <2>3. at + 1 = 2
    BY <1>1
  <2> QED
    BY <2>2, <2>3 DEF UpgradeCleaned
<1>2. CASE at = 2
  <2>1. docker' = After("rm", "new")
    BY <1>2, CleanupSteps, SilentIs DEF Removes, Vain
  <2>2. docker'.app["new"] = "absent" /\ docker'.app["old"] = docker.app["old"]
    BY <1>0, <2>1, RemovalsAre
  <2>3. at + 1 = 3
    BY <1>2
  <2> QED
    BY <1>2, <2>2, <2>3 DEF UpgradeCleaned
<1>3. CASE at = 3
  <2>1. docker' = After("rm_db", U)
    BY <1>3, CleanupSteps, SilentIs DEF Removes, Vain
  <2>2. docker'.db[U] = "absent" /\ docker'.app = docker.app
    BY <1>0, <2>1, RemovalsAre
  <2>3. at + 1 = 4
    BY <1>3
  <2> QED
    BY <1>3, <2>2, <2>3 DEF UpgradeCleaned
<1>4. CASE at = 4
  <2>0. This.type = "leave" /\ This.arg = U
    BY <1>4, CleanupSteps, SilentIs
  <2>1. docker' = After("leave", U) \/ (docker' = docker /\ (U \in docker.joined => JoinRaised))
    BY <2>0 DEF Removes, Vain
  <2>2. (U \in docker'.joined => JoinRaised) /\ docker'.app = docker.app /\ docker'.db = docker.db
    BY <1>0, <2>1, RemovalsAre
  <2>3. at + 1 = 5
    BY <1>4
  <2> QED
    BY <1>4, <2>2, <2>3 DEF UpgradeCleaned
<1>5. CASE at = 5
  <2>0. This.type = "rm_net" /\ This.arg = U
    BY <1>5, CleanupSteps, SilentIs
  <2>1. docker.db[U] = "absent" /\ \A a \in AppsOf(U) : docker.app[a] = "absent"
    BY <1>0, <1>5 DEF UpgradeCleaned
  <2>3. docker' = After("rm_net", U) \/ (docker' = docker /\ (U \in docker.nets => U \in docker.joined))
    BY <2>0, <2>1 DEF Removes, Vain
  <2>4. (U \in docker'.nets => U \in docker'.joined) /\ docker'.app = docker.app /\ docker'.db = docker.db /\ docker'.joined = docker.joined
    BY <1>0, <2>3, RemovalsAre
  <2>5. at + 1 = 6
    BY <1>5
  <2> QED
    BY <1>5, <2>4, <2>5 DEF UpgradeCleaned
<1>6. CASE at = 6
  <2>0. This.type = "rm_vol" /\ This.arg = U
    BY <1>6, CleanupSteps, SilentIs
  <2>1. docker.db[U] = "absent"
    BY <1>6 DEF UpgradeCleaned
  <2>3. docker' = After("rm_vol", U) \/ (docker' = docker /\ U \notin docker.vols)
    BY <2>0, <2>1 DEF Removes, Vain
  <2>4. /\ U \notin docker'.vols /\ docker'.app = docker.app /\ docker'.db = docker.db
        /\ docker'.joined = docker.joined /\ docker'.nets = docker.nets
    BY <1>0, <2>3, RemovalsAre
  <2>5. at + 1 = 7
    BY <1>6
  <2> QED
    BY <1>6, <2>4, <2>5 DEF UpgradeCleaned
<1> QED
  BY <1>1, <1>2, <1>3, <1>4, <1>5, <1>6

\* The invariant of the cleanups, with that one's part named.
LEMMA CleanupInvIs ==
    CleanupInv <=>
      (phase = "cleanup" /\ "cleanup" \notin hit =>
        /\ suite \in {"upgrade", "rollback"} => UpgradeCleaned(docker, at)
        /\ suite = "test_deployment" =>
              /\ at >= 2 => "compose" \notin docker.joined
              /\ at >= 3 => Closed("compose")
        /\ suite = "backup_restore" =>
              /\ at >= 2 => Closed("source")
              /\ at >= 3 => Closed("restore"))
  BY DEF CleanupInv, UpgradeCleaned

\* A command of a cleanup keeps the invariant.
LEMMA DockerInCleanupKeeps == NamespacesInv /\ DockerStep /\ phase = "cleanup" => NamespacesInv'
<1> SUFFICES ASSUME NamespacesInv, DockerStep, phase = "cleanup" PROVE NamespacesInv'
  OBVIOUS
<1>1. Place /\ InScript /\ at <= Len(Script)
  BY DEF NamespacesInv, DockerStep, Do
<1>2. /\ suite \in Strict /\ plan # <<>> /\ Script = CleanupOf(suite) /\ Key = "cleanup"
      /\ at \in 1..Len(CleanupOf(suite)) /\ This = CleanupOf(suite)[at]
  BY <1>1, InCleanup
<1>3. PICK p : AtOwnSite(p) /\ This.miss = 0 /\ This.want = "ANY" /\ This.type \in Removing
  BY <1>2, CleanupIsAtOwnSite
<1>4. p \in Sites /\ docker \in DockerType /\ joined_network \in BOOLEAN /\ faults \in Int
  BY <1>3, OwnSitesAre DEF AtOwnSite, NamespacesInv, Place
<1>5. /\ docker' \in DockerType
      /\ \A r \in Sites \ {p} : Same(docker, docker', r)
      /\ hit \subseteq hit' /\ faults' \in Int
      /\ joined_network' \in BOOLEAN
      /\ UNCHANGED <<plan, status, phase>>
      /\ (\E a : Judge(a)) \/ GoOn("NONE", 1, FALSE)
      /\ This.type \notin {"join", "deploy"} => docker'.joined \subseteq docker.joined
  BY <1>3, <1>4, DockerOutcomes DEF AtOwnSite
<1>6. RowsRun' /\ SitesInv' /\ JoinInv' /\ BackupAlone'
  BY <1>2, <1>3, DockerKeeps
<1>7. at' = at + 1 /\ UNCHANGED <<current, scenario>>
  BY <1>3, <1>5 DEF Judge, Meets, GoOn
<1>8. suite' = suite
  BY <1>5 DEF suite
<1>9. Place'
  BY <1>1, <1>2, <1>5, <1>7, <1>8 DEF Place
<1>10. CleanupInv'
  <2> SUFFICES ASSUME "cleanup" \notin hit' PROVE CleanupInv'
    BY DEF CleanupInv
  <2>1. "cleanup" \notin hit
    BY <1>5
  <2>2. Removes
    BY <1>2, <1>3, <1>4, DockerRemoves
  <2>3. CASE suite \in {"upgrade", "rollback"}
    <3>1. UpgradeCleaned(docker', at')
      <4>1. ~Excused
        BY <2>1 DEF Excused
      <4>2. UpgradeCleaned(docker, at)
        BY <2>1, <2>3, <4>1, CleanupInvIs DEF NamespacesInv
      <4>3. "upgrade" \in docker.joined => joined_network \/ JoinRaised
        BY <1>2, <2>3, <4>1 DEF NamespacesInv, JoinInv, Active, SitesOf
      <4>4. at \in 1..6 /\ This = UpgradeCleanup[at]
        BY <1>2, <2>3, CleanupSteps
      <4>5. UpgradeCleaned(docker', at + 1)
        BY <1>4, <2>2, <4>2, <4>3, <4>4, UpgradeIsCleaned
      <4> QED
        BY <1>7, <4>4, <4>5 DEF UpgradeCleaned
    <3> QED
      BY <1>5, <1>8, <2>3, <3>1 DEF CleanupInv, UpgradeCleaned, JoinRaised
  <2>4. CASE suite = "test_deployment"
    <3> DEFINE C == "compose"
    <3>1. C \in Sites /\ "composeApp" \in AppsOf(C) /\ at \in {1, 2, 3}
      BY <1>2, <2>4, CleanupSteps, SitesAre DEF Sites
    <3>2. /\ at >= 2 => C \notin docker.joined
          /\ at >= 3 => Closed(C)
      BY <2>1, <2>4 DEF NamespacesInv, CleanupInv
    <3>3. CASE at = 1
      <4>0. This.type = "leave" /\ This.arg = C
        BY <1>2, <2>4, <3>3, CleanupSteps, SilentIs
      <4>1. docker' = After("leave", C) \/ (docker' = docker /\ C \notin docker.joined)
        BY <2>2, <2>4, <4>0 DEF Removes, Vain
      <4>2. C \notin docker'.joined
        BY <1>4, <3>1, <4>1, RemovalsAre
      <4>3. at' = 2
        BY <1>7, <3>3
      <4> QED
        BY <1>8, <2>4, <4>2, <4>3 DEF CleanupInv
    <3>4. CASE at = 2
      <4>1. docker' = After("compose_down", C)
        BY <1>2, <2>2, <2>4, <3>4, CleanupSteps, SilentIs DEF Removes, Vain
      <4>2. C \notin docker.joined
        BY <3>2, <3>4
      <4>3. Closed(C)'
        BY <1>4, <3>1, <4>1, <4>2, RemovedIs DEF Closed, Present
      <4> QED
        BY <1>8, <2>4, <4>3 DEF CleanupInv, Closed
    <3>5. CASE at = 3
      <4>1. docker' = docker
        <5>1. This.type = "alpine" /\ This.arg = C
          BY <1>2, <2>4, <3>5, CleanupSteps, SilentIs
        <5> QED
          BY <1>4, <2>2, <3>1, <5>1, RemovalsAre DEF Removes
      <4>2. Closed(C)
        BY <3>2, <3>5
      <4> QED
        BY <1>8, <2>4, <4>1, <4>2 DEF CleanupInv, Closed, Present
    <3> QED
      BY <3>1, <3>3, <3>4, <3>5
  <2>5. CASE suite = "backup_restore"
    <3>1. "source" \in Sites /\ "restore" \in Sites /\ at \in {1, 2}
      BY <1>2, <2>5, CleanupSteps DEF Sites
    <3>2. CASE at = 1
      <4>1. docker' = After("destroy", "source")
        BY <1>2, <2>2, <2>5, <3>2, CleanupSteps, SilentIs DEF Removes, Vain
      <4>2. Closed("source")'
        BY <1>4, <3>1, <4>1, RemovedIs DEF Closed, Present
      <4>3. at' = 2
        BY <1>7, <3>2
      <4> QED
        BY <1>8, <2>5, <4>2, <4>3 DEF CleanupInv
    <3>3. CASE at = 2
      <4>1. docker' = After("destroy", "restore")
        BY <1>2, <2>2, <2>5, <3>3, CleanupSteps, SilentIs DEF Removes, Vain
      <4>2. Closed("restore")'
        BY <1>4, <3>1, <4>1, RemovedIs DEF Closed, Present
      <4>3. Closed("source")'
        <5>1. Closed("source")
          BY <2>1, <2>5, <3>3 DEF NamespacesInv, CleanupInv
        <5>2. Acts("destroy", "restore", "restore")
          BY DEF Acts, SiteOps
        <5>3. Same(docker, docker', "source")
          BY <1>4, <3>1, <4>1, <5>2, AfterIsLocal
        <5> QED
          BY <1>4, <1>5, <3>1, <5>1, <5>3, SameIsClosed
      <4> QED
        BY <1>8, <2>5, <4>2, <4>3 DEF CleanupInv
    <3> QED
      BY <3>1, <3>2, <3>3
  <2> QED
    BY <1>2, <2>3, <2>4, <2>5 DEF Strict
<1> QED
  BY <1>5, <1>6, <1>9, <1>10 DEF NamespacesInv

\* Every step of the run keeps the invariant.
LEMMA NextKeeps == NamespacesInv /\ Next => NamespacesInv'
<1> SUFFICES ASSUME NamespacesInv, Next PROVE NamespacesInv'
  OBVIOUS
<1>1. ASSUME ScriptStep PROVE OtherStep \/ DockerStep
  BY <1>1 DEF ScriptStep, ContainerStep, OtherStep
<1>2. CASE ScriptStep
  BY <1>1, <1>2, OtherStepsKeep, DockerInScenarioKeeps, DockerInCleanupKeeps
<1> QED
  BY <1>2, BeginSuiteKeeps, FinishSuiteKeeps, BeginCleanupKeeps, RaisesKeeps, BeginsKeep, BurstKeepsNamespaces DEF Next

\* Whatever fails in it, a suite that makes namespaces removes their containers, networks
\* and volumes before its verdict, unless a call of its cleanup failed; only the network of
\* upgrade stays, and only if the QA center is connected to it and a call of the scenario
\* that joined it had failed.
THEOREM NothingLeft == Spec => []NothingRemains
<1>1. NamespacesInv /\ [Next]_vars => NamespacesInv'
  <2>1. CASE UNCHANGED vars
    <3>1. ASSUME NamespacesInv PROVE NamespacesInv'
      BY <2>1, <3>1
      DEF vars, runVars, scenarioVars, clientVars, dockerVars, NamespacesInv, Place, RowsRun, SitesInv, JoinInv, CleanupInv,
          BackupAlone, Active, Excused, Closed, Cleared, JoinRaised, Present, Runs, suite
    <3> QED
      BY <3>1
  <2> QED
    BY <2>1, NextKeeps
<1>2. NamespacesInv => NothingRemains
  <2> SUFFICES ASSUME NamespacesInv PROVE NothingRemains
    OBVIOUS
  <2> DEFINE over(s) == Runs(s) /\ status[s] \in {"PASSED", "FAILED"} /\ phase # "cleanup"
             left == docker.nets \cup {s \in Sites : Present(s)}
  <2>1. \A s \in OwnSites : Closed(s) => s \notin left
    BY DEF Closed, Present
  <2>0. docker \in DockerType /\ OwnSites \subseteq Sites
    BY DEF NamespacesInv, OwnSites
  <2>2. ASSUME over("upgrade"), "cleanup" \notin hit PROVE Cleared("upgrade")
    <3>1. ~Active("upgrade")
      BY <2>2 DEF NamespacesInv, RowsRun
    <3> QED
      BY <2>2, <3>1, OwnSitesAre DEF NamespacesInv, SitesInv, Excused
  <2>3. over("test_deployment") /\ "cleanup" \notin hit => "compose" \notin left
    <3>1. over("test_deployment") => ~Active("compose")
      BY DEF NamespacesInv, RowsRun
    <3> QED
      BY <2>0, <2>1, <3>1, OwnSitesAre, SameIsCleared DEF NamespacesInv, SitesInv, Excused
  <2>4. ASSUME over("backup_restore_recovery"), "cleanup" \notin hit PROVE left = {"release"}
    <3>1. ~Active("source")
      BY <2>4 DEF NamespacesInv, RowsRun
    <3>2. ~Active("restore")
      BY <3>1 DEF Active, SitesOf
    <3>3. Closed("source") /\ Closed("restore")
      BY <2>0, <2>4, <3>1, <3>2, OwnSitesAre, SameIsCleared DEF NamespacesInv, SitesInv, Excused
    <3>4. Closed("upgrade") /\ Closed("compose") /\ "release" \in docker.nets
      BY <2>4 DEF NamespacesInv, BackupAlone
    <3>5. docker.nets \subseteq Sites
      BY DEF NamespacesInv, DockerType
    <3>6. \A s \in OwnSites : s \notin left
      BY <2>1, <3>3, <3>4, OwnSitesAre
    <3> QED
      BY <3>4, <3>5, <3>6 DEF OwnSites
  <2> QED
    BY <2>2, <2>3, <2>4 DEF NothingRemains, Cleared, JoinRaised
<1> QED
  BY <1>1, <1>2, NothingYet, PTL DEF Spec

-----------------------------------------------------------------------------
(* The scenarios that handle containers: their scripts are finite, and a   *)
(* step of one goes on with nothing wrong, or what is wrong is seen        *)

\* The suites whose verdict says what state the containers are in
Tracked == {"recovery", "chaos", "upgrade", "rollback", "backup_restore"}

\* The scenarios of the suite that are over did not fail, and the current one has not so far.
Fine ==
    /\ \A k \in 1..(current - 1) : k <= Len(Scenarios[suite]) => row[Scenarios[suite][k].key] # "FAILED"
    /\ ~noted

\* A script whose steps are commands and looks at containers, or calls that handle none
Simple(script) ==
    /\ Len(script) \in Nat
    /\ \A n \in 1..Len(script) :
          /\ script[n].do \in {"docker", "probe", "counts", "assert", "suite", "login", "look", "start", "repeat"}
          /\ script[n].do = "docker" => script[n].type # "leave"
          /\ script[n].miss \in {0, 1}

\* The scripts of recovery, upgrade, rollback and backup-restore consist of such steps.
LEMMA SimpleScripts ==
    /\ \A k \in 1..6 : Simple(Recovery[k].script)
    /\ \A capture : Simple(capture) => \A k \in 1..11 : Simple(Upgrade(capture)[k].script)
    /\ \A k \in 1..4 : Simple(Rollback[k].script)
    /\ \A k \in 1..5 : Simple(BackupRestore[k].script)
    /\ Simple(Capture) /\ Simple(CaptureAndDump)
<1> USE DEF Step, Run, Silent, Tried, Later, Ready, Outage, Suite, Counts, Integrity, NoneFailed, Start, Login, Look,
        Repeat, Simple
<1>1. /\ Simple(BackendRestart) /\ Simple(DatabaseRestart) /\ Simple(Unavailability) /\ Simple(Partition)
      /\ Simple(Stall) /\ Simple(DuplicateRequest)
  BY DEF BackendRestart, DatabaseRestart, Unavailability, Partition, Stall, DuplicateRequest
<1>2. Simple(OldDeploy) /\ Simple(Swap) /\ Simple(CriticalWorkflow) /\ Simple(Capture) /\ Simple(CaptureAndDump)
  BY DEF OldDeploy, Swap, CriticalWorkflow, Capture, CaptureAndDump
<1>3. Simple(Revert) /\ Simple(RestoreSeparate)
  BY DEF Revert, RestoreDump, RestoreSeparate
<1>4. /\ Simple(<<Run("load", "old"), Run("load", "new")>>) /\ Simple(<<Run("seed", "upgrade")>>)
      /\ Simple(<<Counts("KEPT", "upgrade")>>) /\ Simple(<<Integrity("upgrade")>>) /\ Simple(<<>>)
      /\ Simple(<<Run("stop", "new")>>) /\ Simple(<<Counts("KEPT", "upgrade"), Integrity("upgrade")>>)
      /\ Simple(<<Suite("old")>>)
  OBVIOUS
<1>5. /\ Simple(<<Run("deploy", "source"), Run("deploy", "restore"), Run("seed", "source")>>)
      /\ Simple(<<Run("dump", "source"), Run("count", "source")>>)
      /\ Simple(<<Counts("SAME", "restore"), Integrity("restore")>>) /\ Simple(<<Suite("restoreApp")>>)
  OBVIOUS
<1> HIDE DEF Step, Run, Silent, Tried, Later, Ready, Outage, Suite, Counts, Integrity, NoneFailed, Start, Login, Look,
         Repeat, Simple
<1>6. \A k \in 1..6 : Simple(Recovery[k].script)
  BY <1>1 DEF Recovery, Plain
<1>7. ASSUME NEW capture, Simple(capture) PROVE \A k \in 1..11 : Simple(Upgrade(capture)[k].script)
  BY <1>2, <1>4, <1>7 DEF Upgrade, Plain
<1>8. \A k \in 1..4 : Simple(Rollback[k].script)
  BY <1>3, <1>4 DEF Rollback, Plain
<1>9. \A k \in 1..5 : Simple(BackupRestore[k].script)
  BY <1>3, <1>5 DEF BackupRestore, Plain
<1> QED
  BY <1>2, <1>6, <1>7, <1>8, <1>9

\* The scenarios of these suites, and how many they are
LEMMA TrackedAre ==
    /\ Tracked \subseteq Suites
    /\ \A s \in {"recovery", "chaos"} : Scenarios[s] = Recovery /\ Len(Scenarios[s]) = 6
    /\ Scenarios["upgrade"] = Upgrade(Capture) /\ Len(Scenarios["upgrade"]) = 11
    /\ Len(Scenarios["rollback"]) = 15
    /\ \A k \in 1..11 : Scenarios["rollback"][k] = Upgrade(CaptureAndDump)[k]
    /\ \A k \in 12..15 : Scenarios["rollback"][k] = Rollback[k - 11]
    /\ Scenarios["backup_restore"] = BackupRestore /\ Len(Scenarios["backup_restore"]) = 5
<1>1. /\ Len(Upgrade(CaptureAndDump)) = 11 /\ Len(Rollback) = 4 /\ Len(Upgrade(Capture)) = 11
      /\ Len(Upgrade(CaptureAndDump) \o Rollback) = 15
      /\ \A k \in 1..11 : (Upgrade(CaptureAndDump) \o Rollback)[k] = Upgrade(CaptureAndDump)[k]
      /\ \A k \in 12..15 : (Upgrade(CaptureAndDump) \o Rollback)[k] = Rollback[k - 11]
  BY DEF Upgrade, Rollback
<1>2. Len(Recovery) = 6 /\ Len(BackupRestore) = 5
  BY DEF Recovery, BackupRestore
<1>3. Tracked \subseteq Suites
  BY SuitesAre DEF Tracked
<1> DEFINE both == Upgrade(CaptureAndDump) \o Rollback
<1>4. /\ \A s \in {"recovery", "chaos"} : Scenarios[s] = Recovery
      /\ Scenarios["upgrade"] = Upgrade(Capture)
      /\ Scenarios["rollback"] = both
      /\ Scenarios["backup_restore"] = BackupRestore
  BY SuitesAre DEF Scenarios
<1>5. /\ Len(both) = 15
      /\ \A k \in 1..11 : both[k] = Upgrade(CaptureAndDump)[k]
      /\ \A k \in 12..15 : both[k] = Rollback[k - 11]
  BY <1>1
<1> HIDE DEF both
<1> QED
  BY <1>1, <1>2, <1>3, <1>4, <1>5

\* So all of their scripts are simple.
LEMMA TrackedAreSimple == \A s \in Tracked : \A k \in 1..Len(Scenarios[s]) : Simple(Scenarios[s][k].script)
<1> SUFFICES ASSUME NEW s \in Tracked, NEW k \in 1..Len(Scenarios[s]) PROVE Simple(Scenarios[s][k].script)
  OBVIOUS
<1>1. CASE s \in {"recovery", "chaos"}
  BY <1>1, SimpleScripts, TrackedAre
<1>2. CASE s = "upgrade"
  BY <1>2, SimpleScripts, TrackedAre
<1>3. CASE s = "backup_restore"
  BY <1>3, SimpleScripts, TrackedAre
<1>4. CASE s = "rollback"
  <2>1. k \in 1..11 \/ (k \in 12..15 /\ k - 11 \in 1..4)
    BY <1>4, TrackedAre
  <2>2. CASE k \in 1..11
    <3>1. Simple(Upgrade(CaptureAndDump)[k].script)
      BY <2>2, SimpleScripts
    <3> QED
      BY <1>4, <2>2, <3>1, TrackedAre
  <2>3. CASE k \in 12..15 /\ k - 11 \in 1..4
    <3>1. Simple(Rollback[k - 11].script)
      BY <2>3, SimpleScripts
    <3> QED
      BY <1>4, <2>3, <3>1, TrackedAre
  <2> QED
    BY <2>1, <2>2, <2>3
<1> QED
  BY <1>1, <1>2, <1>3, <1>4 DEF Tracked

\* A step that is over, with nothing wrong so far
Serving == docker' = docker /\ Serves(This.arg)

\* A command that must succeed has had its effect, another one may have had part of it.
Handled ==
    IF This.want = "OK" THEN docker' = After(This.type, This.arg)
    ELSE docker' = docker \/ docker' \in Failed(This.type, This.arg) \/ docker' = After(This.type, This.arg)
Stepped ==
    CASE This.do = "docker" -> Handled
      [] This.do \in {"probe", "suite"} /\ This.want = "OK" -> Serving
      [] OTHER -> docker' = docker

\* The scenario is over, it fails, or it goes on.
Ended == /\ at > Len(Script) /\ docker' = docker
         /\ Ends(~noted)
Failing == Ends(FALSE)
WentOn ==
    /\ UNCHANGED <<row, current, scenario>>
    /\ ~noted' => ~noted /\ at <= Len(Script) /\ at' = at + 1 /\ Stepped

\* An answer that is not the one wanted ends the scenario, or is noted.
LEMMA JudgedIs ==
    ASSUME This.miss \in {0, 1}, NEW a, Judge(a)
    PROVE  \/ Ends(FALSE)
           \/ /\ UNCHANGED <<row, current, scenario>>
              /\ ~noted' => ~noted /\ at' = at + 1 /\ Meets(a)
<1>1. CASE Meets(a)
  <2>1. GoOn(a, 1, FALSE)
    BY <1>1 DEF Judge
  <2>2. ~noted' => ~noted
    BY <2>1, Zenon DEF GoOn
  <2> QED
    BY <1>1, <2>1, <2>2 DEF GoOn
<1>2. CASE ~Meets(a)
  <2>1. This.miss = 0 \/ This.miss # 0
    OBVIOUS
  <2>2. Ends(FALSE) \/ GoOn(a, This.miss, TRUE)
    BY <1>2, <2>1, Zenon DEF Judge
  <2>3. GoOn(a, This.miss, TRUE) => noted' /\ UNCHANGED <<row, current, scenario>>
    BY Zenon DEF GoOn
  <2> QED
    BY <2>2, <2>3
<1> QED
  BY <1>1, <1>2

\* So does a call that raises.
LEMMA RaisedIs ==
    ASSUME Raised PROVE Ends(FALSE) \/ (UNCHANGED <<row, current, scenario>> /\ noted')
<1>1. Ends(FALSE) \/ GoOn("NONE", This.miss, TRUE)
  BY Zenon DEF Raised
<1>2. GoOn("NONE", This.miss, TRUE) => noted' /\ UNCHANGED <<row, current, scenario>>
  BY Zenon DEF GoOn
<1> QED
  BY <1>1, <1>2

\* A step that wants OK is met by nothing else.
LEMMA MeetsIs == \A a : Meets(a) /\ This.want = "OK" => a = "OK"
  BY DEF Meets

\* The steps of a simple script: the others do something else.
SimpleStep ==
    \/ DockerStep \/ ProbeStep \/ CountsStep \/ AssertStep \/ SuiteStep
    \/ QuietStep \/ LoginStep \/ StartStep \/ RepeatStep \/ ScriptEnds

\* A step of a simple script is one of these.
LEMMA StepsAreSimple ==
    ASSUME ScriptStep, Simple(Script), at \in Nat
    PROVE  /\ SimpleStep
           /\ ScriptEnds \/ (at \in 1..Len(Script) /\ Do(This.do) /\ This.miss \in {0, 1})
<1>1. ASSUME at > 0, at <= Len(Script)
      PROVE  /\ at \in 1..Len(Script)
             /\ This.do \in {"docker", "probe", "counts", "assert", "suite", "login", "look", "start", "repeat"}
             /\ This.miss \in {0, 1}
  BY <1>1 DEF Simple, This
<1>2. ASSUME NEW what, Do(what)
      PROVE  This.do = what /\ at \in 1..Len(Script) /\ This.miss \in {0, 1} /\ Do(This.do)
             /\ what \in {"docker", "probe", "counts", "assert", "suite", "login", "look", "start", "repeat"}
  <2>1. This.do = what /\ at > 0 /\ at <= Len(Script)
    BY <1>2 DEF Do, InScript
  <2>2. Do(This.do)
    BY <1>2, <2>1, Zenon
  <2> QED
    BY <1>1, <2>1, <2>2
<1>3. ~PageStep
  BY <1>1 DEF PageStep, InScript
<1>4. ~(ItemsStep \/ ArtifactStep \/ EventStep \/ AgainStep \/ DbStep \/ WebStep \/ ReplayStep)
  <2>1. \A what \in {"items", "artifact", "event", "again", "db", "web", "replay"} : ~Do(what)
    BY <1>2
  <2> QED
    BY <2>1 DEF ItemsStep, ArtifactStep, EventStep, AgainStep, DbStep, WebStep, ReplayStep
<1>5. ~(LocalStep \/ EndStep \/ TotalStep)
  <2>1. \A what \in {"offline", "take", "cut", "client", "finish", "total"} : ~Do(what)
    BY <1>2
  <2> QED
    BY <2>1 DEF LocalStep, EndStep, TotalStep
<1>6. SimpleStep
  BY <1>3, <1>4, <1>5 DEF ScriptStep, ContainerStep, SimpleStep
<1>7. ScriptEnds \/ \E what : Do(what)
  BY <1>6 DEF SimpleStep, DockerStep, ProbeStep, CountsStep, AssertStep, SuiteStep, QuietStep, LoginStep, StartStep,
     RepeatStep
<1> QED
  BY <1>2, <1>6, <1>7

\* It ends the scenario, fails it, or goes on and has done what the step says.
LEMMA StepsAre ==
    ASSUME ScriptStep, Simple(Script), at \in Nat
    PROVE  (Ended \/ Failing \/ WentOn) /\ UNCHANGED <<plan, status, phase>>
<1>1. SimpleStep /\ (ScriptEnds \/ (at \in 1..Len(Script) /\ Do(This.do) /\ This.miss \in {0, 1}))
  BY StepsAreSimple
<1>2. CASE ScriptEnds
  <2>1. Ended
    BY <1>2 DEF ScriptEnds, Ended, dockerVars
  <2> QED
    BY <1>2, <2>1 DEF ScriptEnds, runVars
<1>3. CASE ~ScriptEnds
  <2>1. at <= Len(Script) /\ This.miss \in {0, 1} /\ UNCHANGED <<plan, status, phase>>
    BY <1>1, <1>3 DEF Do, runVars
  <2>2. ASSUME NEW what, Do(what) PROVE This.do = what /\ (what # "docker" => docker' = docker)
    BY <2>2 DEF Do, dockerVars
  <2>3. ASSUME Raised PROVE Failing \/ WentOn
    BY <2>3, RaisedIs DEF Failing, WentOn
  <2>4. ASSUME NEW a, Judge(a), (This.want = "OK" /\ a # "OK") \/ Stepped PROVE Failing \/ WentOn
    <3>1. \/ Ends(FALSE)
          \/ /\ UNCHANGED <<row, current, scenario>>
             /\ ~noted' => ~noted /\ at' = at + 1 /\ Meets(a)
      BY <2>1, <2>4, JudgedIs
    <3>2. Meets(a) => Stepped
      BY <2>4, MeetsIs
    <3> QED
      BY <2>1, <3>1, <3>2 DEF Failing, WentOn
  <2>5. CASE DockerStep
    <3>1. This.do = "docker" /\ This.type # "leave"
      BY <1>1, <1>3, <2>2, <2>5 DEF DockerStep, Simple, This
    <3>2. \/ Judge("ERROR") /\ docker' = docker
          \/ Judge("OK") /\ docker' = After(This.type, This.arg)
          \/ Judge("ERROR") /\ docker' \in Failed(This.type, This.arg)
      BY <2>5, <3>1 DEF DockerStep, dockerVars
    <3>3. CASE Judge("ERROR") /\ (docker' = docker \/ docker' \in Failed(This.type, This.arg))
      <4>1. This.want = "OK" \/ Handled
        BY <3>3, Zenon DEF Handled
      <4>2. Handled => Stepped
        BY <3>1 DEF Stepped
      <4>3. PICK a : Judge(a) /\ a = "ERROR"
        BY <3>3
      <4> QED
        BY <2>1, <2>4, <4>1, <4>2, <4>3
    <3>4. CASE Judge("OK") /\ docker' = After(This.type, This.arg)
      <4>1. Handled
        BY <3>4, Zenon DEF Handled
      <4>2. Stepped
        BY <3>1, <4>1 DEF Stepped
      <4>3. PICK a : Judge(a)
        BY <3>4
      <4> QED
        BY <2>1, <2>4, <4>2, <4>3
    <3> QED
      BY <2>1, <3>2, <3>3, <3>4
  <2>6. CASE ProbeStep \/ SuiteStep
    <3>1. This.do \in {"probe", "suite"} /\ docker' = docker
      BY <2>2, <2>6 DEF ProbeStep, SuiteStep
    <3>2. PICK a : Judge(a) /\ (a = "OK" => Serves(This.arg))
      BY <2>6 DEF ProbeStep, SuiteStep
    <3>3. (This.want = "OK" /\ a # "OK") \/ Stepped
      BY <3>1, <3>2 DEF Stepped, Serving
    <3> QED
      BY <2>1, <2>4, <3>2, <3>3
  <2>7. CASE CountsStep \/ AssertStep \/ QuietStep \/ LoginStep \/ StartStep \/ RepeatStep
    <3>1. Stepped
      <4>1. \E what \in {"counts", "assert", "boot", "insert", "look", "read", "login", "start", "repeat"} : Do(what)
        BY <2>7 DEF CountsStep, AssertStep, QuietStep, LoginStep, StartStep, RepeatStep
      <4> QED
        BY <2>2, <4>1 DEF Stepped
    <3>2. Raised \/ \E a : Judge(a)
      BY <2>7 DEF CountsStep, AssertStep, QuietStep, LoginStep, StartStep, RepeatStep
    <3> QED
      BY <2>1, <2>3, <2>4, <3>1, <3>2
  <2> QED
    BY <1>1, <1>3, <2>5, <2>6, <2>7 DEF SimpleStep
<1> QED
  BY <1>2, <1>3

-----------------------------------------------------------------------------
(* What the operations do to the databases                                 *)

\* Operations after which the databases hold what they did
KeepOps == {"load", "config", "create_net", "create_vol", "rm_net", "join", "leave", "rm", "stop", "pause", "unpause",
            "cut", "reconnect", "rm_db", "stop_db", "restart_db", "exec", "alpine", "inspect_db"}

\* The databases, the dump and the counts are as before; or those of one namespace are not.
SameData(e) == e.data = docker.data /\ e.dump = docker.dump /\ e.counts = docker.counts

\* What an operation does to the databases: nothing, or something to one of them, ...
LEMMA KeepOpsKeep ==
    ASSUME docker \in DockerType, NEW op \in KeepOps, NEW x
    PROVE  SameData(After(op, x)) /\ \A e \in Failed(op, x) : SameData(e)
<1>0. docker = DR
  BY DockerIs
<1>1. ASSUME NEW o \in KeepOps PROVE SameData(After(o, x))
  <2>1. CASE o \in {"load", "config", "restart_db", "exec", "alpine", "inspect_db"}
    BY <2>1 DEF After, SameData
  <2>2. CASE o = "create_net" \/ o = "rm_net"
    <3>1. PICK v : After(o, x) = [DR EXCEPT !.nets = v]
      BY <1>0, <2>2 DEF After, DR
    <3> QED
      BY <3>1 DEF SameData, DR
  <2>3. CASE o = "create_vol"
    <3>1. After(o, x) = [DR EXCEPT !.vols = docker.vols \cup {x}]
      BY <1>0, <2>3 DEF After, DR
    <3> QED
      BY <3>1 DEF SameData, DR
  <2>4. CASE o = "join" \/ o = "leave"
    <3>1. PICK v : After(o, x) = [DR EXCEPT !.joined = v]
      BY <1>0, <2>4 DEF After, DR
    <3> QED
      BY <3>1 DEF SameData, DR
  <2>5. CASE o \in {"rm", "stop", "pause", "unpause", "cut", "reconnect"}
    <3>1. PICK v : After(o, x) = [DR EXCEPT !.app = v]
      BY <1>0, <2>5 DEF After, DR
    <3> QED
      BY <3>1 DEF SameData, DR
  <2>6. CASE o = "rm_db" \/ o = "stop_db"
    <3>1. PICK v : After(o, x) = [DR EXCEPT !.db = v]
      BY <1>0, <2>6 DEF After, DR
    <3> QED
      BY <3>1 DEF SameData, DR
  <2> QED
    BY <2>1, <2>2, <2>3, <2>4, <2>5, <2>6 DEF KeepOps
<1>2. "stop" \in KeepOps /\ "stop_db" \in KeepOps /\ SameData(docker)
  BY DEF KeepOps, SameData
<1>3. ASSUME NEW e \in Failed(op, x) PROVE SameData(e)
  <2>0. op # "deploy"
    BY DEF KeepOps
  <2>1. e = docker \/ e = After(op, x) \/ e = After("stop", x) \/ e = After("stop_db", x)
    BY <1>3, <2>0 DEF Failed
  <2> QED
    BY <1>1, <1>2, <2>1
<1> QED
  BY <1>1, <1>3

DataIs(e, s, data) == e.data[s] = data /\ e.dump = docker.dump /\ e.counts = docker.counts

\* ... according to the operation, ...
LEMMA DataEffects ==
    ASSUME docker \in DockerType, NEW s \in Sites, NEW a \in AppsOf(s)
    PROVE  /\ DataIs(After("run_db", s), s, Blank)
           /\ DataIs(After("seed", s), s, [schema |-> docker.data[s].schema, rows |-> 1])
           /\ DataIs(After("work", s), s, [schema |-> docker.data[s].schema, rows |-> 2])
           /\ DataIs(After("drop", s), s, NoData)
           /\ DataIs(After("create", s), s, Blank)
           /\ DataIs(After("restore", s), s, Restored(docker.data[s]))
           /\ DataIs(After("run", a), s, Booted(a, docker.data[s]))
           /\ DataIs(After("start", a), s, Booted(a, docker.data[s]))
           /\ DataIs(After("deploy", s), s, [schema |-> "new", rows |-> 0])
           /\ LET e == After("dump", s)
              IN  e.dump = docker.data[s] /\ e.data = docker.data /\ e.counts = docker.counts
           /\ LET e == After("count", s)
              IN  e.counts = docker.data[s].rows /\ e.data = docker.data /\ e.dump = docker.dump
<1>0. docker = DR /\ docker.data \in [Sites -> Data] /\ docker.data[s] \in Data /\ SiteOf(a) = s
  BY DockerIs, SitesAre DEF DockerType
<1>1. ASSUME NEW w, NEW e, e.data = [docker.data EXCEPT ![s] = w], e.dump = docker.dump, e.counts = docker.counts
      PROVE  DataIs(e, s, w)
  BY <1>0, <1>1 DEF DataIs
<1>2. DataIs(After("run_db", s), s, Blank)
  <2>1. After("run_db", s) = [DR EXCEPT !.db = [docker.db EXCEPT ![s] = "up"], !.data = [docker.data EXCEPT ![s] = Blank]]
    BY <1>0 DEF After, DR
  <2> QED
    BY <1>1, <2>1 DEF DR
<1>3. /\ [docker.data[s] EXCEPT !.rows = 1] = [schema |-> docker.data[s].schema, rows |-> 1]
      /\ [docker.data[s] EXCEPT !.rows = 2] = [schema |-> docker.data[s].schema, rows |-> 2]
  BY <1>0 DEF Data
<1>4. DataIs(After("seed", s), s, [docker.data[s] EXCEPT !.rows = 1])
  <2>1. After("seed", s) = [DR EXCEPT !.data = [docker.data EXCEPT ![s] = [docker.data[s] EXCEPT !.rows = 1]]]
    BY <1>0 DEF After, DR
  <2> DEFINE w == [docker.data[s] EXCEPT !.rows = 1]
  <2> HIDE DEF w
  <2>2. After("seed", s) = [DR EXCEPT !.data = [docker.data EXCEPT ![s] = w]]
    BY <2>1 DEF w
  <2>3. DataIs(After("seed", s), s, w)
    BY <1>1, <2>2 DEF DR
  <2> QED
    BY <2>3 DEF w
<1>5. DataIs(After("work", s), s, [docker.data[s] EXCEPT !.rows = 2])
  <2>1. After("work", s) = [DR EXCEPT !.data = [docker.data EXCEPT ![s] = [docker.data[s] EXCEPT !.rows = 2]]]
    BY <1>0 DEF After, DR
  <2> DEFINE w == [docker.data[s] EXCEPT !.rows = 2]
  <2> HIDE DEF w
  <2>2. After("work", s) = [DR EXCEPT !.data = [docker.data EXCEPT ![s] = w]]
    BY <2>1 DEF w
  <2>3. DataIs(After("work", s), s, w)
    BY <1>1, <2>2 DEF DR
  <2> QED
    BY <2>3 DEF w
<1>6. DataIs(After("drop", s), s, NoData) /\ DataIs(After("create", s), s, Blank)
  <2>1. After("drop", s) = [DR EXCEPT !.data = [docker.data EXCEPT ![s] = NoData]]
    BY <1>0 DEF After, DR
  <2>2. After("create", s) = [DR EXCEPT !.data = [docker.data EXCEPT ![s] = Blank]]
    BY <1>0 DEF After, DR
  <2> QED
    BY <1>1, <2>1, <2>2 DEF DR
<1>7. DataIs(After("restore", s), s, Restored(docker.data[s]))
  <2>1. After("restore", s) = [DR EXCEPT !.data = [docker.data EXCEPT ![s] = Restored(docker.data[s])]]
    BY <1>0 DEF After, DR
  <2> QED
    BY <1>1, <2>1 DEF DR
<1>8. ASSUME NEW op \in {"run", "start"} PROVE DataIs(After(op, a), s, Booted(a, docker.data[s]))
  <2>1. After(op, a) = [DR EXCEPT !.app = [docker.app EXCEPT ![a] = "up"],
                                  !.data = [docker.data EXCEPT ![s] = Booted(a, docker.data[s])]]
    BY <1>0, <1>8 DEF After, DR
  <2> QED
    BY <1>1, <2>1 DEF DR
<1>9. DataIs(After("deploy", s), s, [schema |-> "new", rows |-> 0])
  <2> DEFINE w == [schema |-> "new", rows |-> 0]
  <2>1. After("deploy", s) = [DR EXCEPT !.nets = docker.nets \cup {s}, !.vols = docker.vols \cup {s},
                                 !.db = [docker.db EXCEPT ![s] = "up"],
                                 !.data = [docker.data EXCEPT ![s] = w],
                                 !.app = [b \in Apps |-> IF b \in AppsOf(s) THEN "up" ELSE docker.app[b]],
                                 !.joined = docker.joined \cup {s}]
    BY <1>0 DEF After, Deployed, DR
  <2> HIDE DEF w
  <2>2. DataIs(After("deploy", s), s, w)
    BY <1>1, <2>1 DEF DR
  <2> QED
    BY <2>2 DEF w
<1>10. LET e == After("dump", s)
       IN  e.dump = docker.data[s] /\ e.data = docker.data /\ e.counts = docker.counts
  BY <1>0 DEF After, DR
<1>11. LET e == After("count", s)
       IN  e.counts = docker.data[s].rows /\ e.data = docker.data /\ e.dump = docker.dump
  BY <1>0 DEF After, DR
<1> QED
  BY <1>2, <1>3, <1>4, <1>5, <1>6, <1>7, <1>8, <1>9, <1>10, <1>11

\* ... and what an application makes of its database, pg_restore of a new one
LEMMA DataIsMade ==
    ASSUME docker \in DockerType, NEW data \in Data
    PROVE  /\ data.schema \in {"blank", "old"} => Booted("old", data) = [schema |-> "old", rows |-> data.rows]
           /\ data.schema = "old" => Booted("new", data) = [schema |-> "new", rows |-> data.rows]
           /\ data.schema = "new" => Booted("restoreApp", data) = data
           /\ data.schema = "old" => Booted("old", data) = data
           /\ data = Blank => Restored(data) = docker.dump
  BY DEF Booted, Restored, Blank, Data

-----------------------------------------------------------------------------
(* What upgrade and rollback have done at each of their steps              *)

\* The steps at the database of the upgrade suite, by their places
Commands(step, op, x) == step.do = "docker" /\ step.type = op /\ step.arg = x /\ step.want = "OK"
Looks(step, a) == step.do = "suite" /\ step.arg = a /\ step.want = "OK"
Keeping(step) == step.do = "docker" => step.type \in KeepOps

\* The step n of the scenario k of upgrade, from the twelfth on of rollback
UpgradeStep(k, n, step) ==
    \/ k = 2 /\ n = 3 /\ Commands(step, "run_db", "upgrade")
    \/ k = 2 /\ n = 4 /\ Commands(step, "run", "old")
    \/ k = 3 /\ n = 1 /\ Commands(step, "seed", "upgrade")
    \/ k = 4 /\ n = 1 /\ Commands(step, "count", "upgrade")
    \/ k = 4 /\ n = 2 /\ Commands(step, "dump", "upgrade")
    \/ k = 5 /\ n = 2 /\ Commands(step, "run", "new")
    \/ k = 9 /\ n = 1 /\ step.do = "docker" /\ step.type = "work" /\ step.arg = "upgrade" /\ step.want = "ANY"
    \/ k = 9 /\ n = 2 /\ Looks(step, "new")
    \/ k = 13 /\ n = 2 /\ Commands(step, "drop", "upgrade")
    \/ k = 13 /\ n = 3 /\ Commands(step, "create", "upgrade")
    \/ k = 13 /\ n = 4 /\ Commands(step, "restore", "upgrade")
    \/ k = 13 /\ n = 6 /\ Commands(step, "run", "old")
    \/ k = 15 /\ n = 1 /\ Looks(step, "old")
    \/ /\ Keeping(step)
       /\ k \notin {3, 4, 9, 15}
       /\ k = 2 => n \notin {3, 4}
       /\ k = 5 => n # 2
       /\ k = 13 => n \notin {2, 3, 4, 6}

UpgradeSteps(k, script) == \A n \in 1..Len(script) : UpgradeStep(k, n, script[n])

\* These are the steps of those scripts.
LEMMA UpgradeStepsAre ==
    /\ \A k \in 1..11 : UpgradeSteps(k, Upgrade(Capture)[k].script) /\ UpgradeSteps(k, Upgrade(CaptureAndDump)[k].script)
    /\ \A k \in 12..15 : UpgradeSteps(k, Rollback[k - 11].script)
    /\ Len(Upgrade(Capture)[10].script) = 0 /\ Len(Upgrade(Capture)[11].script) = 0
    /\ Len(Upgrade(Capture)[4].script) = 1 /\ Len(Upgrade(Capture)[9].script) = 2
<1> USE DEF UpgradeSteps, UpgradeStep, Commands, Looks, Keeping, KeepOps, Step, Run, Silent, Tried, Later, Ready, Suite, Counts,
            Integrity, NoneFailed
<1>1. UpgradeSteps(2, OldDeploy) /\ UpgradeSteps(5, Swap) /\ UpgradeSteps(9, CriticalWorkflow)
  <2>1. UpgradeSteps(2, OldDeploy)
    BY DEF OldDeploy
  <2>2. UpgradeSteps(5, Swap)
    BY DEF Swap
  <2>3. UpgradeSteps(9, CriticalWorkflow)
    BY DEF CriticalWorkflow
  <2> QED
    BY <2>1, <2>2, <2>3
<1>2. UpgradeSteps(4, Capture) /\ UpgradeSteps(4, CaptureAndDump)
  BY DEF Capture, CaptureAndDump
<1>3. UpgradeSteps(13, Revert)
  BY DEF Revert, RestoreDump
<1>4. /\ UpgradeSteps(1, <<Run("load", "old"), Run("load", "new")>>) /\ UpgradeSteps(3, <<Run("seed", "upgrade")>>)
      /\ UpgradeSteps(6, <<Counts("KEPT", "upgrade")>>) /\ UpgradeSteps(8, <<Integrity("upgrade")>>)
      /\ UpgradeSteps(7, <<>>) /\ UpgradeSteps(10, <<>>) /\ UpgradeSteps(11, <<>>)
      /\ UpgradeSteps(12, <<Run("stop", "new")>>)
      /\ UpgradeSteps(14, <<Counts("KEPT", "upgrade"), Integrity("upgrade")>>)
      /\ UpgradeSteps(15, <<Suite("old")>>)
  <2>1. UpgradeSteps(1, <<Run("load", "old"), Run("load", "new")>>)
    OBVIOUS
  <2>2. UpgradeSteps(3, <<Run("seed", "upgrade")>>)
    OBVIOUS
  <2>3. UpgradeSteps(6, <<Counts("KEPT", "upgrade")>>) /\ UpgradeSteps(8, <<Integrity("upgrade")>>)
    OBVIOUS
  <2>4. UpgradeSteps(7, <<>>) /\ UpgradeSteps(10, <<>>) /\ UpgradeSteps(11, <<>>)
    OBVIOUS
  <2>5. UpgradeSteps(12, <<Run("stop", "new")>>)
    OBVIOUS
  <2>6. UpgradeSteps(14, <<Counts("KEPT", "upgrade"), Integrity("upgrade")>>)
    OBVIOUS
  <2>7. UpgradeSteps(15, <<Suite("old")>>)
    OBVIOUS
  <2> QED
    BY <2>1, <2>2, <2>3, <2>4, <2>5, <2>6, <2>7
<1>5. Len(Capture) = 1 /\ Len(CriticalWorkflow) = 2
  BY DEF Capture, CriticalWorkflow
<1> HIDE DEF UpgradeSteps, UpgradeStep, Commands, Looks, Keeping, KeepOps, Step, Run, Silent, Tried, Later, Ready, Suite, Counts,
            Integrity, NoneFailed
<1>6. ASSUME NEW capture, UpgradeSteps(4, capture), NEW k \in 1..11 PROVE UpgradeSteps(k, Upgrade(capture)[k].script)
  BY <1>1, <1>4, <1>6 DEF Upgrade, Plain
<1>7. \A k \in 12..15 : UpgradeSteps(k, Rollback[k - 11].script)
  <2>1. /\ UpgradeSteps(12, Rollback[1].script) /\ UpgradeSteps(13, Rollback[2].script)
        /\ UpgradeSteps(14, Rollback[3].script) /\ UpgradeSteps(15, Rollback[4].script)
    BY <1>3, <1>4 DEF Rollback, Plain
  <2> QED
    BY <2>1
<1>8. /\ Len(Upgrade(Capture)[10].script) = 0 /\ Len(Upgrade(Capture)[11].script) = 0
      /\ Len(Upgrade(Capture)[4].script) = 1 /\ Len(Upgrade(Capture)[9].script) = 2
  BY <1>5 DEF Upgrade, Plain
<1> QED
  BY <1>2, <1>6, <1>7, <1>8

\* Step n of the scenario c of the suite is over.
Done(c, n) == current > c \/ (current = c /\ at > n)

\* What the steps of upgrade and rollback have done to the database, as long as nothing has failed
UpgradeFacts ==
    LET data == docker.data["upgrade"]
    IN  /\ Done(2, 3) /\ ~Done(2, 4) => data.schema = "blank"
        /\ Done(2, 4) /\ ~Done(5, 2) => data.schema = "old"
        /\ suite = "upgrade" =>
              /\ Done(4, 1) => data.rows >= docker.counts
              /\ Done(5, 2) => data.schema = "new"
              /\ Done(9, 2) => Serves("new")
        /\ suite = "rollback" =>
              /\ Done(4, 2) => docker.dump.schema = "old"
              /\ Done(13, 2) /\ ~Done(13, 3) => data = NoData
              /\ Done(13, 3) /\ ~Done(13, 4) => data = Blank
              /\ Done(13, 4) => data = docker.dump
              /\ Done(15, 1) => Serves("old")

\* The scenario of the suite goes on from its step n = at.
Forward == /\ current' = current /\ at' = at + 1 /\ plan' = plan /\ Stepped
           /\ current \in Nat /\ at \in Nat /\ docker \in DockerType

\* A step that goes on keeps them true of the place after it.
LEMMA UpgradeGoesOn ==
    ASSUME Forward, UpgradeFacts, suite \in {"upgrade", "rollback"}, UpgradeStep(current, at, This),
           suite = "upgrade" => ~Done(9, 2) /\ ~(current = 4 /\ at = 2) /\ current <= 11,
           suite = "rollback" => ~Done(15, 1)
    PROVE  UpgradeFacts'
<1> DEFINE data == docker.data["upgrade"]
<1>1. /\ suite' = suite /\ data \in Data /\ docker.counts \in 0..2 /\ docker.dump \in Data
      /\ "upgrade" \in Sites /\ "old" \in AppsOf("upgrade") /\ "new" \in AppsOf("upgrade")
  BY SitesAre DEF Forward, suite, DockerType, Sites
<1>2. /\ DataIs(After("run_db", "upgrade"), "upgrade", Blank)
      /\ DataIs(After("seed", "upgrade"), "upgrade", [schema |-> data.schema, rows |-> 1])
      /\ DataIs(After("work", "upgrade"), "upgrade", [schema |-> data.schema, rows |-> 2])
      /\ DataIs(After("drop", "upgrade"), "upgrade", NoData)
      /\ DataIs(After("create", "upgrade"), "upgrade", Blank)
      /\ DataIs(After("restore", "upgrade"), "upgrade", Restored(data))
      /\ DataIs(After("run", "old"), "upgrade", Booted("old", data))
      /\ DataIs(After("run", "new"), "upgrade", Booted("new", data))
      /\ LET e == After("dump", "upgrade")
         IN  e.dump = data /\ e.data = docker.data /\ e.counts = docker.counts
      /\ LET e == After("count", "upgrade")
         IN  e.counts = data.rows /\ e.data = docker.data /\ e.dump = docker.dump
  BY <1>1, DataEffects DEF Forward
<1>3. /\ data.schema \in {"blank", "old"} => Booted("old", data) = [schema |-> "old", rows |-> data.rows]
      /\ data.schema = "old" => Booted("new", data) = [schema |-> "new", rows |-> data.rows]
      /\ data.schema = "old" => Booted("old", data) = data
      /\ data = Blank => Restored(data) = docker.dump
  BY <1>1, DataIsMade DEF Forward
<1> USE DEF UpgradeFacts, Done, Forward
<1>4. ASSUME NEW op, NEW x, Commands(This, op, x) PROVE docker' = After(op, x)
  BY <1>4 DEF Commands, Stepped, Handled
<1>5. CASE current = 2 /\ at = 3 /\ Commands(This, "run_db", "upgrade")
  BY <1>1, <1>2, <1>4, <1>5 DEF DataIs, Blank
<1>6. CASE current = 2 /\ at = 4 /\ Commands(This, "run", "old")
  BY <1>1, <1>2, <1>3, <1>4, <1>6 DEF DataIs
<1>7. CASE current = 3 /\ at = 1 /\ Commands(This, "seed", "upgrade")
  BY <1>1, <1>2, <1>4, <1>7 DEF DataIs
<1>8. CASE current = 4 /\ at = 1 /\ Commands(This, "count", "upgrade")
  BY <1>1, <1>2, <1>4, <1>8 DEF DataIs, Data
<1>9. CASE current = 4 /\ at = 2 /\ Commands(This, "dump", "upgrade")
  BY <1>1, <1>2, <1>4, <1>9 DEF DataIs
<1>10. CASE current = 5 /\ at = 2 /\ Commands(This, "run", "new")
  BY <1>1, <1>2, <1>3, <1>4, <1>10 DEF DataIs
<1>11. CASE current = 9 /\ at = 1 /\ This.do = "docker" /\ This.type = "work" /\ This.arg = "upgrade" /\ This.want = "ANY"
  <2>1. docker' = docker \/ docker' = After("work", "upgrade")
    BY <1>11 DEF Stepped, Handled, Failed
  <2> QED
    BY <1>1, <1>2, <1>11, <2>1 DEF DataIs, Data
<1>12. CASE current = 9 /\ at = 2 /\ Looks(This, "new")
  <2>1. docker' = docker /\ Serves("new") /\ Serves("new")'
    BY <1>12 DEF Looks, Stepped, Serving, Serves
  <2> QED
    BY <1>1, <1>12, <2>1
<1>13. CASE current = 13 /\ at = 2 /\ Commands(This, "drop", "upgrade")
  BY <1>1, <1>2, <1>4, <1>13 DEF DataIs
<1>14. CASE current = 13 /\ at = 3 /\ Commands(This, "create", "upgrade")
  BY <1>1, <1>2, <1>4, <1>14 DEF DataIs
<1>15. CASE current = 13 /\ at = 4 /\ Commands(This, "restore", "upgrade")
  BY <1>1, <1>2, <1>3, <1>4, <1>15 DEF DataIs
<1>16. CASE current = 13 /\ at = 6 /\ Commands(This, "run", "old")
  BY <1>1, <1>2, <1>3, <1>4, <1>16 DEF DataIs
<1>17. CASE current = 15 /\ at = 1 /\ Looks(This, "old")
  <2>1. docker' = docker /\ Serves("old") /\ Serves("old")'
    BY <1>17 DEF Looks, Stepped, Serving, Serves
  <2> QED
    BY <1>1, <1>17, <2>1
<1>18. CASE /\ Keeping(This)
            /\ current \notin {3, 4, 9, 15}
            /\ current = 2 => at \notin {3, 4}
            /\ current = 5 => at # 2
            /\ current = 13 => at \notin {2, 3, 4, 6}
  <2>1. docker' = docker \/ SameData(docker')
    <3>1. CASE This.do = "docker"
      BY <1>18, <3>1, KeepOpsKeep DEF Keeping, Stepped, Handled
    <3>2. CASE This.do # "docker"
      BY <3>2 DEF Stepped, Serving
    <3> QED
      BY <3>1, <3>2
  <2>2. docker'.data = docker.data /\ docker'.dump = docker.dump /\ docker'.counts = docker.counts
    BY <2>1 DEF SameData
  <2> QED
    BY <1>1, <1>18, <2>2
<1> QED
  BY <1>5, <1>6, <1>7, <1>8, <1>9, <1>10, <1>11, <1>12, <1>13, <1>14, <1>15, <1>16, <1>17, <1>18 DEF UpgradeStep

-----------------------------------------------------------------------------
(* What backup-restore has done at each of its steps                       *)

\* The step n of the scenario k of backup-restore
BackupStep(k, n, step) ==
    \/ k = 1 /\ n = 1 /\ Commands(step, "deploy", "source")
    \/ k = 1 /\ n = 2 /\ Commands(step, "deploy", "restore")
    \/ k = 1 /\ n = 3 /\ Commands(step, "seed", "source")
    \/ k = 2 /\ n = 1 /\ Commands(step, "dump", "source")
    \/ k = 2 /\ n = 2 /\ Commands(step, "count", "source")
    \/ k = 3 /\ n = 2 /\ Commands(step, "drop", "restore")
    \/ k = 3 /\ n = 3 /\ Commands(step, "create", "restore")
    \/ k = 3 /\ n = 4 /\ Commands(step, "restore", "restore")
    \/ k = 3 /\ n = 6 /\ Commands(step, "start", "restoreApp")
    \/ k = 5 /\ n = 1 /\ Looks(step, "restoreApp")
    \/ /\ Keeping(step)
       /\ k \notin {1, 2, 5}
       /\ k = 3 => n \notin {2, 3, 4, 6}

BackupSteps(k, script) == \A n \in 1..Len(script) : BackupStep(k, n, script[n])

\* These are the steps of those scripts.
LEMMA BackupStepsAre ==
    \A k \in 1..5 : BackupSteps(k, BackupRestore[k].script)
<1> USE DEF BackupSteps, BackupStep, Commands, Looks, Keeping, KeepOps, Step, Run, Silent, Tried, Later, Ready, Suite, Counts,
            Integrity, NoneFailed
<1>1. BackupSteps(1, <<Run("deploy", "source"), Run("deploy", "restore"), Run("seed", "source")>>)
  OBVIOUS
<1>2. BackupSteps(2, <<Run("dump", "source"), Run("count", "source")>>)
  OBVIOUS
<1>3. BackupSteps(3, RestoreSeparate)
  BY DEF RestoreSeparate, RestoreDump
<1>4. BackupSteps(4, <<Counts("SAME", "restore"), Integrity("restore")>>)
  OBVIOUS
<1>5. BackupSteps(5, <<Suite("restoreApp")>>)
  OBVIOUS
<1> HIDE DEF BackupSteps, BackupStep, Commands, Looks, Keeping, KeepOps, Step, Run, Silent, Tried, Later, Ready, Suite, Counts,
            Integrity, NoneFailed
<1> QED
  BY <1>1, <1>2, <1>3, <1>4, <1>5 DEF BackupRestore, Plain

\* What the steps have done to the two databases, as long as nothing has failed
BackupFacts ==
    LET data == docker.data["restore"]
    IN  /\ Done(1, 1) => docker.data["source"].schema = "new"
        /\ Done(2, 1) => docker.dump.schema = "new"
        /\ Done(3, 2) /\ ~Done(3, 3) => data = NoData
        /\ Done(3, 3) /\ ~Done(3, 4) => data = Blank
        /\ Done(3, 4) => data = docker.dump
        /\ Done(5, 1) => Serves("restoreApp")

\* A step that goes on keeps them true of the place after it.
LEMMA BackupGoesOn ==
    ASSUME Forward, BackupFacts, BackupStep(current, at, This), ~Done(5, 1)
    PROVE  BackupFacts'
<1> DEFINE data == docker.data["restore"]
           source == docker.data["source"]
<1>1. /\ data \in Data /\ source \in Data /\ docker.dump \in Data
      /\ "source" \in Sites /\ "restore" \in Sites /\ "restoreApp" \in AppsOf("restore") /\ "sourceApp" \in AppsOf("source")
  BY SitesAre DEF Forward, DockerType, Sites
<1>2. /\ DataIs(After("deploy", "source"), "source", [schema |-> "new", rows |-> 0])
      /\ DataIs(After("seed", "source"), "source", [schema |-> source.schema, rows |-> 1])
      /\ DataIs(After("deploy", "restore"), "restore", [schema |-> "new", rows |-> 0])
      /\ DataIs(After("drop", "restore"), "restore", NoData)
      /\ DataIs(After("create", "restore"), "restore", Blank)
      /\ DataIs(After("restore", "restore"), "restore", Restored(data))
      /\ DataIs(After("start", "restoreApp"), "restore", Booted("restoreApp", data))
      /\ LET e == After("dump", "source")
         IN  e.dump = source /\ e.data = docker.data /\ e.counts = docker.counts
      /\ LET e == After("count", "source")
         IN  e.counts = source.rows /\ e.data = docker.data /\ e.dump = docker.dump
  BY <1>1, DataEffects DEF Forward
<1>3. /\ data.schema = "new" => Booted("restoreApp", data) = data
      /\ data = Blank => Restored(data) = docker.dump
  BY <1>1, DataIsMade DEF Forward
<1>4. /\ Acts("deploy", "restore", "restore") /\ Acts("drop", "restore", "restore") /\ Acts("create", "restore", "restore")
      /\ Acts("restore", "restore", "restore") /\ Acts("start", "restoreApp", "restore")
  BY ActsAre DEF SiteOps, AppOps
<1>5. ASSUME NEW op, NEW x, Acts(op, x, "restore") PROVE After(op, x).data["source"] = source
  <2>1. Same(docker, After(op, x), "source")
    BY <1>1, <1>5, AfterIsLocal DEF Forward
  <2> QED
    BY <2>1 DEF Same
<1>6. ASSUME NEW op, NEW x, Commands(This, op, x) PROVE docker' = After(op, x)
  BY <1>6 DEF Forward, Commands, Stepped, Handled
<1> USE DEF BackupFacts, Done, Forward
<1>7. CASE current = 1 /\ at = 1 /\ Commands(This, "deploy", "source")
  BY <1>1, <1>2, <1>6, <1>7 DEF DataIs
<1>8. CASE current = 1 /\ at = 2 /\ Commands(This, "deploy", "restore")
  BY <1>1, <1>2, <1>4, <1>5, <1>6, <1>8 DEF DataIs
<1>9. CASE current = 1 /\ at = 3 /\ Commands(This, "seed", "source")
  BY <1>1, <1>2, <1>6, <1>9 DEF DataIs
<1>10. CASE current = 2 /\ at = 1 /\ Commands(This, "dump", "source")
  BY <1>1, <1>2, <1>6, <1>10 DEF DataIs
<1>11. CASE current = 2 /\ at = 2 /\ Commands(This, "count", "source")
  BY <1>1, <1>2, <1>6, <1>11 DEF DataIs
<1>12. CASE current = 3 /\ at = 2 /\ Commands(This, "drop", "restore")
  BY <1>1, <1>2, <1>4, <1>5, <1>6, <1>12 DEF DataIs
<1>13. CASE current = 3 /\ at = 3 /\ Commands(This, "create", "restore")
  BY <1>1, <1>2, <1>4, <1>5, <1>6, <1>13 DEF DataIs
<1>14. CASE current = 3 /\ at = 4 /\ Commands(This, "restore", "restore")
  BY <1>1, <1>2, <1>3, <1>4, <1>5, <1>6, <1>14 DEF DataIs
<1>15. CASE current = 3 /\ at = 6 /\ Commands(This, "start", "restoreApp")
  BY <1>1, <1>2, <1>3, <1>4, <1>5, <1>6, <1>15 DEF DataIs
<1>16. CASE current = 5 /\ at = 1 /\ Looks(This, "restoreApp")
  <2>1. docker' = docker /\ Serves("restoreApp") /\ Serves("restoreApp")'
    BY <1>16 DEF Looks, Stepped, Serving, Serves
  <2> QED
    BY <1>1, <1>16, <2>1
<1>17. CASE /\ Keeping(This)
            /\ current \notin {1, 2, 5}
            /\ current = 3 => at \notin {2, 3, 4, 6}
  <2>1. docker' = docker \/ SameData(docker')
    <3>1. CASE This.do = "docker"
      BY <1>17, <3>1, KeepOpsKeep DEF Keeping, Stepped, Handled
    <3>2. CASE This.do # "docker"
      BY <3>2 DEF Stepped, Serving
    <3> QED
      BY <3>1, <3>2
  <2>2. docker'.data = docker.data /\ docker'.dump = docker.dump
    BY <2>1 DEF SameData
  <2> QED
    BY <1>1, <1>17, <2>2
<1> QED
  BY <1>7, <1>8, <1>9, <1>10, <1>11, <1>12, <1>13, <1>14, <1>15, <1>16, <1>17 DEF BackupStep

-----------------------------------------------------------------------------
(* What the suites have done, by the place they are at                     *)

\* The keys of a suite's scenarios differ.
LEMMA KeysDiffer ==
    \A s \in Tracked : \A i, j \in 1..Len(Scenarios[s]) : Scenarios[s][i].key = Scenarios[s][j].key => i = j
<1>1. \A i, j \in 1..6 : Recovery[i].key = Recovery[j].key => i = j
  BY DEF Recovery, Plain
<1>2. \A i, j \in 1..5 : BackupRestore[i].key = BackupRestore[j].key => i = j
  BY DEF BackupRestore, Plain
<1> DEFINE Position(key) ==
              CASE key = "load_artifacts" -> 1 [] key = "old_version_deploys" -> 2 [] key = "fixture_seeded" -> 3
                [] key = "before_row_counts" -> 4 [] key = "new_artifact_migrates" -> 5
                [] key = "historical_data_preserved" -> 6 [] key = "migration_head_valid" -> 7
                [] key = "integrity_after_migration" -> 8 [] key = "critical_workflows" -> 9
                [] key = "upgrade_verified" -> 10 [] key = "migration_verified" -> 11
                [] key = "failure_injected" -> 12 [] key = "rollback_executed" -> 13
                [] key = "rollback_data_preserved" -> 14 [] key = "smoke_after_rollback" -> 15
<1>3. \A capture : \A k \in 1..11 : Position(Upgrade(capture)[k].key) = k
  BY DEF Upgrade, Plain
<1>4. \A k \in 12..15 : Position(Rollback[k - 11].key) = k
  <2>1. /\ Position(Rollback[1].key) = 12 /\ Position(Rollback[2].key) = 13
        /\ Position(Rollback[3].key) = 14 /\ Position(Rollback[4].key) = 15
    BY DEF Rollback, Plain
  <2> HIDE DEF Position
  <2>2. ASSUME NEW k \in 12..15 PROVE Position(Rollback[k - 11].key) = k
    <3>1. k = 12 \/ k = 13 \/ k = 14 \/ k = 15
      OBVIOUS
    <3> QED
      BY <2>1, <3>1
  <2> QED
    BY <2>2
<1> HIDE DEF Position
<1>5. \A k \in 1..15 : Position(Scenarios["rollback"][k].key) = k
  BY <1>3, <1>4, TrackedAre
<1>6. ASSUME NEW s \in Tracked, NEW i \in 1..Len(Scenarios[s]), NEW j \in 1..Len(Scenarios[s]),
             Scenarios[s][i].key = Scenarios[s][j].key
      PROVE  i = j
  <2>1. CASE s \in {"recovery", "chaos"}
    <3>1. Scenarios[s] = Recovery /\ Len(Scenarios[s]) = 6
      BY <2>1, TrackedAre
    <3>2. i \in 1..6 /\ j \in 1..6 /\ Recovery[i].key = Recovery[j].key
      BY <1>6, <3>1
    <3> QED
      BY <1>1, <3>2
  <2>2. CASE s = "upgrade"
    BY <1>3, <1>6, <2>2, TrackedAre
  <2>3. CASE s = "rollback"
    BY <1>5, <1>6, <2>3, TrackedAre
  <2>4. CASE s = "backup_restore"
    BY <1>2, <1>6, <2>4, TrackedAre
  <2> QED
    BY <2>1, <2>2, <2>3, <2>4 DEF Tracked
<1> QED
  BY <1>6

\* The last step of recovery that handles a container is in its fifth scenario: a probe follows.
Five == Recovery[5].script

\* The application answers after it, and the sixth scenario handles no container.
LEMMA RecoveryStepsAre ==
    /\ Len(Five) = 5 /\ Five[5].do = "probe" /\ Five[5].arg = "app" /\ Five[5].want = "OK"
    /\ \A n \in 1..Len(Recovery[6].script) : Recovery[6].script[n].do # "docker"
<1> USE DEF Step, Run, Later, Ready, Outage, NoneFailed, Start, Login, Look, Repeat
<1>1. Len(Stall) = 5 /\ Stall[5].do = "probe" /\ Stall[5].arg = "app" /\ Stall[5].want = "OK"
  BY DEF Stall
<1>2. \A n \in 1..Len(DuplicateRequest) : DuplicateRequest[n].do # "docker"
  BY DEF DuplicateRequest
<1> HIDE DEF Step, Run, Later, Ready, Outage, NoneFailed, Start, Login, Look, Repeat
<1> QED
  BY <1>1, <1>2 DEF Recovery, Plain, Five

\* No step that the facts are about is after the last one of its scenario.
LEMMA LastSteps ==
    /\ Len(Scenarios["upgrade"][2].script) = 6 /\ Len(Scenarios["upgrade"][4].script) = 1
    /\ Len(Scenarios["upgrade"][5].script) = 3 /\ Len(Scenarios["upgrade"][9].script) = 2
    /\ Len(Scenarios["rollback"][2].script) = 6 /\ Len(Scenarios["rollback"][4].script) = 2
    /\ Len(Scenarios["rollback"][5].script) = 3
    /\ Len(Scenarios["rollback"][13].script) = 7 /\ Len(Scenarios["rollback"][15].script) = 1
    /\ Len(BackupRestore[1].script) = 3 /\ Len(BackupRestore[2].script) = 2
    /\ Len(BackupRestore[3].script) = 7 /\ Len(BackupRestore[5].script) = 1
<1>1. Len(OldDeploy) = 6 /\ Len(Swap) = 3 /\ Len(CriticalWorkflow) = 2
  BY DEF OldDeploy, Swap, CriticalWorkflow
<1>2. Len(Capture) = 1 /\ Len(CaptureAndDump) = 2
  BY DEF Capture, CaptureAndDump
<1>3. Len(Revert) = 7 /\ Len(RestoreSeparate) = 7
  BY DEF Revert, RestoreSeparate, RestoreDump
<1>4. \A capture : /\ Upgrade(capture)[2].script = OldDeploy /\ Upgrade(capture)[4].script = capture
                   /\ Upgrade(capture)[5].script = Swap /\ Upgrade(capture)[9].script = CriticalWorkflow
  BY DEF Upgrade, Plain
<1>5. Rollback[2].script = Revert /\ Len(Rollback[4].script) = 1
  BY DEF Rollback, Plain
<1>6. /\ Len(BackupRestore[1].script) = 3 /\ Len(BackupRestore[2].script) = 2
      /\ BackupRestore[3].script = RestoreSeparate /\ Len(BackupRestore[5].script) = 1
  BY DEF BackupRestore, Plain
<1>7. /\ Scenarios["rollback"][13] = Rollback[13 - 11] /\ Scenarios["rollback"][15] = Rollback[15 - 11]
      /\ Scenarios["rollback"][2] = Upgrade(CaptureAndDump)[2] /\ Scenarios["rollback"][4] = Upgrade(CaptureAndDump)[4]
      /\ Scenarios["rollback"][5] = Upgrade(CaptureAndDump)[5] /\ Scenarios["upgrade"] = Upgrade(Capture)
  BY TrackedAre
<1>8. 13 - 11 = 2 /\ 15 - 11 = 4
  OBVIOUS
<1>9. /\ Scenarios["upgrade"][2].script = OldDeploy /\ Scenarios["upgrade"][4].script = Capture
      /\ Scenarios["upgrade"][5].script = Swap /\ Scenarios["upgrade"][9].script = CriticalWorkflow
  BY <1>4, <1>7
<1>10. /\ Scenarios["rollback"][2].script = OldDeploy /\ Scenarios["rollback"][4].script = CaptureAndDump
       /\ Scenarios["rollback"][5].script = Swap
  BY <1>4, <1>7
<1>11. Scenarios["rollback"][13].script = Revert /\ Len(Scenarios["rollback"][15].script) = 1
  BY <1>5, <1>7, <1>8
<1> QED
  BY <1>1, <1>2, <1>3, <1>6, <1>9, <1>10, <1>11

\* What the current suite has done
Facts ==
    /\ suite \in {"upgrade", "rollback"} => UpgradeFacts
    /\ suite = "backup_restore" => BackupFacts
    /\ suite \in {"recovery", "chaos"} /\ Done(5, 5) => Serves("app")

\* In the suite, or at the first step of its cleanup after all of its scenarios
Watching ==
    /\ suite \in Tracked
    /\ \/ phase \notin {"before", "cleanup"}
       \/ phase = "cleanup" /\ at = 1 /\ current > Len(Scenarios[suite])

\* As long as no scenario has failed, that is what it should have done.
FactsInv == Watching /\ Fine => Facts

\* The scenarios that are to come have their rows.
KeysThere == \A i \in 1..Len(plan) : KeysOf[plan[i]] \subseteq DOMAIN row

\* The place in a scenario of a tracked suite
LEMMA InTracked ==
    ASSUME Place, InScript, phase # "cleanup", suite \in Tracked
    PROVE  /\ plan # <<>> /\ phase # "before" /\ at \in Nat /\ at > 0
           /\ Len(Scenarios[suite]) \in Nat
           /\ current \in 1..Len(Scenarios[suite]) /\ scenario = Scenarios[suite][current]
           /\ Script = Scenarios[suite][current].script /\ Key = Scenarios[suite][current].key
           /\ Simple(Script)
<1>1. plan # <<>> /\ phase # "before" /\ at > 0 /\ at \in Nat
  BY DEF Place, InScript
<1>2. Len(Scenarios[suite]) \in Nat /\ suite \in Suites
  BY LengthsAre, TrackedAre
<1>3. current \in 1..Len(Scenarios[suite]) /\ scenario = Scenarios[suite][current]
  BY <1>1, <1>2 DEF Place
<1>4. Script = Scenarios[suite][current].script /\ Key = Scenarios[suite][current].key
  BY <1>3 DEF Script, Key
<1> QED
  BY <1>1, <1>2, <1>3, <1>4, TrackedAreSimple

\* The keys of the current suite are rows.
LEMMA KeysAre ==
    ASSUME KeysThere, Place, plan # <<>>, NEW k \in 1..Len(Scenarios[suite])
    PROVE  Scenarios[suite][k].key \in DOMAIN row /\ Scenarios[suite][k].key \in KeysOf[suite]
<1>1. suite = plan[1] /\ suite \in Suites /\ Len(plan) \in Nat /\ 1 \in 1..Len(plan)
  BY PlanStarts DEF suite, Place
<1>2. Scenarios[suite][k].key \in {c.key : c \in ToSet(Scenarios[suite])}
  BY DEF ToSet
<1>3. Scenarios[suite][k].key \in KeysOf[suite]
  BY <1>1, <1>2 DEF KeysOf
<1> QED
  BY <1>1, <1>3 DEF KeysThere

\* What is over at the end of a scenario was so at its last step.
LEMMA EndingKeepsFacts ==
    ASSUME Place, InScript, phase # "cleanup", suite \in Tracked, Facts, at > Len(Script), docker' = docker,
           current' = current + 1, at' = 0, suite' = suite
    PROVE  Facts'
<1>1. /\ Script = Scenarios[suite][current].script
      /\ suite \in {"recovery", "chaos"} => Scenarios[suite] = Recovery
      /\ suite = "backup_restore" => Scenarios[suite] = BackupRestore
  <2>1. Script = Scenarios[suite][current].script
    BY InTracked
  <2> QED
    BY <2>1, TrackedAre
<1>7. Len(Script) \in Nat
  <2>1. Simple(Script)
    BY InTracked
  <2> QED
    BY <2>1 DEF Simple
<1>8. at \in Nat /\ current \in Nat
  BY DEF Place
<1>2. \A a : Serves(a)' <=> Serves(a)
  BY DEF Serves
<1>3. CASE suite = "upgrade"
  <2>2. /\ current = 2 => Len(Script) = 6
        /\ current = 4 => Len(Script) = 1
        /\ current = 5 => Len(Script) = 3
        /\ current = 9 => Len(Script) = 2
    BY <1>1, <1>3, LastSteps
  <2>3. /\ current = 2 => at > 6
        /\ current = 4 => at > 1
        /\ current = 5 => at > 3
        /\ current = 9 => at > 2
    BY <1>7, <1>8, <2>2
  <2>1. /\ (Done(2, 3)' <=> Done(2, 3)) /\ (Done(2, 4)' <=> Done(2, 4))
        /\ (Done(4, 1)' <=> Done(4, 1)) /\ (Done(5, 2)' <=> Done(5, 2))
        /\ (Done(9, 2)' <=> Done(9, 2))
    BY <1>8, <2>3 DEF Done
  <2> QED
    BY <1>2, <1>3, <2>1 DEF Facts, UpgradeFacts
<1>4. CASE suite = "rollback"
  <2>2. /\ current = 2 => Len(Script) = 6
        /\ current = 4 => Len(Script) = 2
        /\ current = 5 => Len(Script) = 3
        /\ current = 13 => Len(Script) = 7
        /\ current = 15 => Len(Script) = 1
    BY <1>1, <1>4, LastSteps
  <2>3. /\ current = 2 => at > 6
        /\ current = 4 => at > 2
        /\ current = 5 => at > 3
        /\ current = 13 => at > 7
        /\ current = 15 => at > 1
    BY <1>7, <1>8, <2>2
  <2>1. /\ (Done(2, 3)' <=> Done(2, 3)) /\ (Done(2, 4)' <=> Done(2, 4))
        /\ (Done(5, 2)' <=> Done(5, 2)) /\ (Done(4, 2)' <=> Done(4, 2))
        /\ (Done(13, 2)' <=> Done(13, 2)) /\ (Done(13, 3)' <=> Done(13, 3))
        /\ (Done(13, 4)' <=> Done(13, 4)) /\ (Done(15, 1)' <=> Done(15, 1))
    BY <1>8, <2>3 DEF Done
  <2> QED
    BY <1>2, <1>4, <2>1 DEF Facts, UpgradeFacts
<1>5. CASE suite = "backup_restore"
  <2>2. /\ current = 1 => Len(Script) = 3
        /\ current = 2 => Len(Script) = 2
        /\ current = 3 => Len(Script) = 7
        /\ current = 5 => Len(Script) = 1
    BY <1>1, <1>5, LastSteps
  <2>3. /\ current = 1 => at > 3
        /\ current = 2 => at > 2
        /\ current = 3 => at > 7
        /\ current = 5 => at > 1
    BY <1>7, <1>8, <2>2
  <2>1. /\ (Done(1, 1)' <=> Done(1, 1)) /\ (Done(2, 1)' <=> Done(2, 1))
        /\ (Done(3, 2)' <=> Done(3, 2)) /\ (Done(3, 3)' <=> Done(3, 3))
        /\ (Done(3, 4)' <=> Done(3, 4)) /\ (Done(5, 1)' <=> Done(5, 1))
    BY <1>8, <2>3 DEF Done
  <2> QED
    BY <1>2, <1>5, <2>1 DEF Facts, BackupFacts
<1>6. CASE suite \in {"recovery", "chaos"}
  <2>1. Done(5, 5)' <=> Done(5, 5)
    BY <1>1, <1>6, <1>7, <1>8, RecoveryStepsAre DEF Done, Five
  <2> QED
    BY <1>2, <1>6, <2>1 DEF Facts
<1> QED
  BY <1>3, <1>4, <1>5, <1>6 DEF Tracked

\* A step with nothing wrong keeps what the suite has done so far.
LEMMA GoingOnKeepsFacts ==
    ASSUME NamespacesInv, InScript, phase # "cleanup", suite \in Tracked, Facts, WentOn, ~noted', plan' = plan
    PROVE  Facts'
<1>1. Place /\ docker \in DockerType
  BY DEF NamespacesInv
<1>2. /\ at \in Nat /\ at > 0 /\ current \in 1..Len(Scenarios[suite]) /\ Len(Scenarios[suite]) \in Nat
      /\ Script = Scenarios[suite][current].script /\ Simple(Script)
  BY <1>1, InTracked
<1>3. at <= Len(Script) /\ at' = at + 1 /\ Stepped /\ current' = current
  BY DEF WentOn
<1>4. Len(Script) \in Nat
  BY <1>2 DEF Simple
<1>5. at \in 1..Len(Script) /\ This = Script[at]
  BY <1>2, <1>3, <1>4 DEF This
<1>6. Forward
  BY <1>1, <1>2, <1>3 DEF Forward
<1>7. suite' = suite
  BY DEF suite
<1>8. CASE suite = "upgrade"
  <2>1. /\ Scenarios[suite] = Upgrade(Capture) /\ current \in 1..11
    BY <1>2, <1>8, TrackedAre
  <2>2. UpgradeSteps(current, Script)
    BY <1>2, <2>1, UpgradeStepsAre
  <2>3. UpgradeStep(current, at, This)
    BY <1>5, <2>2 DEF UpgradeSteps
  <2>4. /\ current = 4 => Len(Script) = 1
        /\ current = 9 => Len(Script) = 2
        /\ current = 10 => Len(Script) = 0
        /\ current = 11 => Len(Script) = 0
    BY <1>2, <2>1, UpgradeStepsAre
  <2>5. ~Done(9, 2) /\ ~(current = 4 /\ at = 2) /\ current <= 11
    BY <1>5, <2>1, <2>4 DEF Done
  <2>6. UpgradeFacts'
    BY <1>6, <1>8, <2>3, <2>5, UpgradeGoesOn DEF Facts
  <2> QED
    BY <1>7, <1>8, <2>6 DEF Facts
<1>9. CASE suite = "rollback"
  <2>1. current \in 1..15
    BY <1>2, <1>9, TrackedAre
  <2>2. UpgradeSteps(current, Script)
    <3>1. CASE current \in 1..11
      BY <1>2, <1>9, <3>1, TrackedAre, UpgradeStepsAre
    <3>2. CASE current \in 12..15
      BY <1>2, <1>9, <3>2, TrackedAre, UpgradeStepsAre
    <3> QED
      BY <2>1, <3>1, <3>2
  <2>3. UpgradeStep(current, at, This)
    BY <1>5, <2>2 DEF UpgradeSteps
  <2>4. current = 15 => Len(Script) = 1
    BY <1>2, <1>9, LastSteps
  <2>5. ~Done(15, 1)
    BY <1>5, <2>1, <2>4 DEF Done
  <2>6. UpgradeFacts'
    BY <1>6, <1>9, <2>3, <2>5, UpgradeGoesOn DEF Facts
  <2> QED
    BY <1>7, <1>9, <2>6 DEF Facts
<1>10. CASE suite = "backup_restore"
  <2>1. Scenarios[suite] = BackupRestore /\ current \in 1..5
    BY <1>2, <1>10, TrackedAre
  <2>2. BackupSteps(current, Script)
    BY <1>2, <2>1, BackupStepsAre
  <2>3. BackupStep(current, at, This)
    BY <1>5, <2>2 DEF BackupSteps
  <2>4. current = 5 => Len(Script) = 1
    BY <1>2, <2>1, LastSteps
  <2>5. ~Done(5, 1)
    BY <1>5, <2>1, <2>4 DEF Done
  <2>6. BackupFacts'
    BY <1>6, <1>10, <2>3, <2>5, BackupGoesOn DEF Facts
  <2> QED
    BY <1>7, <1>10, <2>6 DEF Facts
<1>11. CASE suite \in {"recovery", "chaos"}
  <2>1. Scenarios[suite] = Recovery /\ current \in 1..6
    BY <1>2, <1>11, TrackedAre
  <2>2. CASE current = 6
    <3>1. This.do # "docker"
      BY <1>2, <1>5, <2>1, <2>2, RecoveryStepsAre
    <3>2. docker' = docker
      BY <1>3, <3>1 DEF Stepped, Serving
    <3>3. Done(5, 5) /\ Serves("app")
      BY <1>11, <2>2 DEF Facts, Done
    <3>4. Serves("app")'
      BY <3>2, <3>3 DEF Serves
    <3> QED
      BY <1>7, <1>11, <3>4 DEF Facts
  <2>3. CASE current = 5 /\ at = 5
    <3>1. This.do = "probe" /\ This.arg = "app" /\ This.want = "OK"
      BY <1>2, <1>5, <2>1, <2>3, RecoveryStepsAre DEF Five
    <3>2. docker' = docker /\ Serves("app")
      BY <1>3, <3>1 DEF Stepped, Serving
    <3>3. Serves("app")'
      BY <3>2 DEF Serves
    <3> QED
      BY <1>7, <1>11, <3>3 DEF Facts
  <2>4. CASE current < 5 \/ (current = 5 /\ at # 5)
    <3>1. current = 5 => at < 5
      BY <1>2, <1>5, <2>1, <2>4, RecoveryStepsAre DEF Five
    <3>2. ~Done(5, 5)'
      BY <1>2, <1>3, <2>1, <2>4, <3>1 DEF Done
    <3> QED
      BY <1>7, <1>11, <3>2 DEF Facts
  <2> QED
    BY <2>1, <2>2, <2>3, <2>4
<1> QED
  BY <1>8, <1>9, <1>10, <1>11 DEF Tracked

\* A scenario that failed is seen, one that goes on or has passed has done what it should.
LEMMA ScriptKeepsFacts ==
    ASSUME NamespacesInv, FactsInv, KeysThere, ScriptStep, phase # "cleanup", suite \in Tracked
    PROVE  FactsInv'
<1>1. Place /\ InScript
  BY ScriptStepsInScripts DEF NamespacesInv
<1>2. /\ plan # <<>> /\ phase # "before" /\ at \in Nat /\ at > 0
      /\ Len(Scenarios[suite]) \in Nat /\ current \in 1..Len(Scenarios[suite])
      /\ Key = Scenarios[suite][current].key /\ Simple(Script)
  BY <1>1, InTracked
<1>3. (Ended \/ Failing \/ WentOn) /\ UNCHANGED <<plan, status, phase>>
  BY <1>2, StepsAre
<1>4. suite' = suite /\ Watching
  BY <1>2, <1>3 DEF suite, Watching
<1>5. \A k \in 1..Len(Scenarios[suite]) : Scenarios[suite][k].key \in DOMAIN row
  BY <1>1, <1>2, KeysAre
<1>6. ASSUME Ends(FALSE) PROVE ~Fine'
  <2>1. row'[Scenarios[suite][current].key] = "FAILED" /\ current' = current + 1
    BY <1>2, <1>5, <1>6 DEF Ends
  <2>2. current \in 1..(current' - 1) /\ current <= Len(Scenarios[suite])
    BY <1>2, <2>1
  <2> QED
    BY <1>4, <2>1, <2>2 DEF Fine
<1>7. SUFFICES ASSUME Fine' PROVE Facts'
  BY DEF FactsInv
<1>8. CASE Ended
  <2>1. at > Len(Script) /\ docker' = docker /\ (noted => Ends(FALSE)) /\ (~noted => Ends(TRUE))
    BY <1>8 DEF Ended
  <2>2. ~noted /\ Ends(TRUE)
    BY <1>6, <1>7, <2>1
  <2>3. /\ row' = [row EXCEPT ![Key] = "PASSED"] /\ current' = current + 1 /\ at' = 0
    BY <2>2 DEF Ends
  <2>4. ASSUME NEW k \in 1..(current - 1), k <= Len(Scenarios[suite])
        PROVE  row[Scenarios[suite][k].key] # "FAILED"
    <3>1. k \in 1..Len(Scenarios[suite]) /\ k # current /\ k \in 1..(current' - 1)
      BY <1>2, <2>3, <2>4
    <3>2. Scenarios[suite][k].key # Key
      BY <1>2, <3>1, KeysDiffer
    <3>3. row'[Scenarios[suite][k].key] = row[Scenarios[suite][k].key]
      BY <2>3, <3>2
    <3> QED
      BY <1>4, <1>7, <2>4, <3>1, <3>3 DEF Fine
  <2>5. Facts
    BY <1>4, <2>2, <2>4 DEF FactsInv, Fine
  <2> QED
    BY <1>1, <1>4, <2>1, <2>3, <2>5, EndingKeepsFacts
<1>9. CASE Failing
  BY <1>6, <1>7, <1>9 DEF Failing
<1>10. CASE WentOn
  <2>1. ~noted' /\ ~noted /\ UNCHANGED <<row, current>>
    <3>1. ~noted'
      BY <1>7 DEF Fine
    <3> QED
      BY <1>10, <3>1, Zenon DEF WentOn
  <2>2. Fine
    BY <1>4, <1>7, <2>1 DEF Fine
  <2>3. Facts
    BY <1>4, <2>2 DEF FactsInv
  <2> QED
    BY <1>1, <1>3, <1>10, <2>1, <2>3, GoingOnKeepsFacts
<1> QED
  BY <1>3, <1>8, <1>9, <1>10

-----------------------------------------------------------------------------
(* The course of a run                                                     *)

\* A step in a scenario: it goes on or ends the scenario, and handles its suite's namespaces only.
Working ==
    /\ plan # <<>> /\ at > 0
    /\ phase \notin {"before", "cleanup"} /\ phase' \notin {"before", "cleanup"}
    /\ UNCHANGED <<plan, status>>
    /\ Moves
    /\ \A s \in Sites \ SitesOf(suite) : Same(docker, docker', s)

\* A step of a cleanup: the next command
Tidying ==
    /\ phase = "cleanup" /\ at > 0 /\ suite \in Strict
    /\ UNCHANGED <<plan, status, phase, row, current>>
    /\ at' = at + 1
    /\ noted' => noted
    /\ \A s \in Sites \ SitesOf(suite) : Same(docker, docker', s)

\* Every step of a script is one of the two.
LEMMA ScriptStepsWorkOrTidy ==
    ASSUME NamespacesInv, ScriptStep
    PROVE  IF phase = "cleanup" THEN Tidying ELSE Working
<1>1. Place /\ InScript /\ (OtherStep \/ DockerStep)
  BY ScriptStepsInScripts DEF NamespacesInv, ScriptStep, ContainerStep, OtherStep
<1>2. CASE OtherStep
  <2>1. Elsewhere /\ Moves
    BY <1>1, <1>2, OtherStepsMove
  <2>2. status' = status
    BY <1>2 DEF OtherStep, ProbeStep, CountsStep, AssertStep, SuiteStep, ItemsStep, ArtifactStep, PageStep, EventStep,
       AgainStep, QuietStep, LocalStep, DbStep, WebStep, ReplayStep, LoginStep, StartStep, EndStep, RepeatStep, TotalStep,
       ScriptEnds, Do
  <2>3. \A s \in Sites : Same(docker, docker', s)
    BY <2>1 DEF Elsewhere, Same
  <2> QED
    BY <1>1, <2>1, <2>2, <2>3 DEF Working, Elsewhere, InScript
<1>3. CASE DockerStep /\ phase # "cleanup"
  <2>1. /\ Moves /\ plan # <<>> /\ phase # "before" /\ at > 0 /\ UNCHANGED <<plan, status, phase>>
    BY <1>3, DockerMoves
  <2>2. PICK p : AtOwnSite(p)
    BY <1>3, DockerMoves
  <2>3. \A s \in Sites \ {p} : Same(docker, docker', s)
    BY <1>3, <2>2, DockerOutcomes, OwnSitesAre DEF AtOwnSite, NamespacesInv, Place
  <2> QED
    BY <1>3, <2>1, <2>2, <2>3 DEF Working, AtOwnSite
<1>4. CASE DockerStep /\ phase = "cleanup"
  <2>0. at <= Len(Script)
    BY <1>4 DEF DockerStep, Do
  <2>1. /\ suite \in Strict /\ plan # <<>> /\ at > 0
        /\ at \in 1..Len(CleanupOf(suite)) /\ This = CleanupOf(suite)[at]
    BY <1>1, <1>4, <2>0, InCleanup DEF InScript
  <2>2. PICK p : AtOwnSite(p) /\ This.miss = 0 /\ This.want = "ANY" /\ This.type \in Removing
    BY <2>1, CleanupIsAtOwnSite
  <2>3. /\ \A s \in Sites \ {p} : Same(docker, docker', s)
        /\ UNCHANGED <<plan, status, phase>>
        /\ (\E a : Judge(a)) \/ GoOn("NONE", 1, FALSE)
    BY <1>4, <2>2, DockerOutcomes, OwnSitesAre DEF AtOwnSite, NamespacesInv, Place
  <2>4. PICK a : GoOn(a, 1, FALSE)
    BY <2>2, <2>3 DEF Judge, Meets
  <2>5. at' = at + 1 /\ UNCHANGED <<row, current>>
    BY <2>4 DEF GoOn
  <2>6. noted' => noted
    BY <2>4, Zenon DEF GoOn
  <2> QED
    BY <1>4, <2>1, <2>2, <2>3, <2>5, <2>6 DEF Tidying, AtOwnSite
<1> QED
  BY <1>1, <1>2, <1>3, <1>4

\* A step of the burst is one in a scenario.
LEMMA BurstStepsWork ==
    ASSUME NamespacesInv, BurstStep PROVE Working /\ suite = "offline_burst"
<1>1. Elsewhere /\ Moves
  BY BurstMoves DEF NamespacesInv
<1>2. suite = "offline_burst" /\ at > 0 /\ status' = status
  BY DEF BurstStep, OnlinePhase, QueuePhase, ReconnectAll, ReplayThread, ReconnectEnds, ConvergencePhase, InPhase
<1>3. \A s \in Sites : Same(docker, docker', s)
  BY <1>1 DEF Elsewhere, Same
<1> QED
  BY <1>1, <1>2, <1>3 DEF Working, Elsewhere

\* What a suite's end, and what raises in it, does
Going ==
    /\ plan # <<>> /\ phase # "before"
    /\ plan' = Tail(plan) /\ current' = 1 /\ at' = 0 /\ phase' = "before"
    /\ UNCHANGED <<row, noted, docker>>
    /\ at = 0 \/ phase = "cleanup" \/ suite = "ui_critical"
    /\ FinishSuite \/ status' = status

\* Each of the three leaves the scenarios' rows and the containers as they are.
LEMMA SuitesGo ==
    ASSUME NamespacesInv, FinishSuite \/ CleanupRaises \/ BrowserRaises PROVE Going
<1>1. Goes /\ plan # <<>> /\ phase # "before"
  BY DEF FinishSuite, CleanupRaises, BrowserRaises, NamespacesInv, Place
<1>2. at = 0 \/ phase = "cleanup" \/ suite = "ui_critical"
  <2>1. ASSUME FinishSuite, phase # "cleanup" PROVE at = 0
    <3>1. current > Len(Scenarios[suite]) /\ current \in Nat /\ at \in Nat
      BY <2>1 DEF FinishSuite, NamespacesInv, Place
    <3>2. Len(Scenarios[suite]) \in Nat
      BY <1>1, PlanStarts, LengthsAre DEF NamespacesInv
    <3>3. ~(current <= Len(Scenarios[suite]))
      BY <3>1, <3>2
    <3> QED
      BY <2>1, <3>1, <3>3 DEF NamespacesInv, Place
  <2> QED
    BY <2>1 DEF CleanupRaises, BrowserRaises
<1> QED
  BY <1>1, <1>2 DEF Going, Goes, CleanupRaises, BrowserRaises, dockerVars

\* Between scenarios, in a cleanup and in the browser nothing is noted,
NotedInv == at = 0 \/ phase = "cleanup" \/ suite = "ui_critical" => ~noted

\* a suite starts with its first scenario,
StartInv == phase = "before" => current = 1

\* and cleans up when a scenario has failed, or after the last one.
Unfailed == \A k \in KeysOf[suite] : row[k] # "FAILED"
TidyInv == phase = "cleanup" /\ Unfailed => current > Len(Scenarios[suite])

CourseInv == NotedInv /\ StartInv /\ KeysThere /\ TidyInv

\* No step of the browser's is one whose result is looked at later.
LEMMA BrowserStepsAre ==
    \A k \in 1..Len(Browser) :
        /\ Len(Browser[k].script) = 1
        /\ Browser[k].script[1].miss = 0 /\ ~Browser[k].script[1].caught
  BY DEF Browser, Plain, Look, Page, Step

\* This is so at the start,
LEMMA CourseStarts == Init => CourseInv
<1> SUFFICES ASSUME Init PROVE CourseInv
  OBVIOUS
<1>1. current = 1 /\ phase = "before" /\ row = [k \in UNION {KeysOf[s] : s \in ToSet(plan)} |-> "NONE"]
  BY DEF Init
<1>2. ~noted
  BY Zenon DEF Init
<1>3. KeysThere
  <2>1. \A i \in 1..Len(plan) : plan[i] \in ToSet(plan)
    BY DEF ToSet
  <2> QED
    BY <1>1, <2>1 DEF KeysThere
<1> QED
  BY <1>1, <1>2, <1>3, Zenon DEF CourseInv, NotedInv, StartInv, TidyInv

\* after every step in a scenario,
LEMMA WorkKeepsCourse ==
    ASSUME NamespacesInv, CourseInv, Working, ScriptStep \/ suite # "ui_critical"
    PROVE  CourseInv'
<1>1. plan' = plan /\ suite' = suite /\ phase' \notin {"before", "cleanup"} /\ DOMAIN row' = DOMAIN row /\ Place
  BY DEF Working, suite, Moves, NamespacesInv
<1>2. KeysThere' /\ StartInv' /\ TidyInv'
  BY <1>1 DEF CourseInv, KeysThere, StartInv, TidyInv
<1>3. at' = 0 => ~noted'
  BY Zenon DEF Working, Moves, CourseInv, NotedInv
<1>4. ASSUME suite = "ui_critical" PROVE ~noted'
  <2>1. ~noted
    BY <1>4, Zenon DEF CourseInv, NotedInv
  <2>2. CASE at <= Len(Script)
    <3>1. Scenarios[suite] = Browser
      BY <1>4, SuitesAre DEF Scenarios
    <3>2. current \in Nat /\ current # 0 /\ current <= Len(Browser) /\ scenario = Browser[current] /\ at \in Nat
      BY <1>1, <3>1 DEF Working, Place
    <3>3. Len(Browser) \in Nat
      BY DEF Browser
    <3>4. current \in 1..Len(Browser)
      BY <3>2, <3>3
    <3>5. Script = Browser[current].script /\ at > 0
      BY <3>2 DEF Script, Working
    <3>6. at = 1
      <4>1. Len(Script) = 1
        BY <3>4, <3>5, BrowserStepsAre
      <4> QED
        BY <2>2, <3>2, <3>5, <4>1
    <3>7. This.miss = 0 /\ ~This.caught
      BY <3>4, <3>5, <3>6, BrowserStepsAre DEF This
    <3>8. noted' => noted
      BY <3>7, Zenon DEF Working, Moves
    <3> QED
      BY <2>1, <3>8
  <2>3. CASE ~(at <= Len(Script))
    <3>1. ScriptEnds
      BY <1>4, <2>3 DEF ScriptStep, ContainerStep, DockerStep, ProbeStep, CountsStep, AssertStep, SuiteStep, ItemsStep,
         ArtifactStep, PageStep, EventStep, AgainStep, QuietStep, LocalStep, DbStep, WebStep, ReplayStep, LoginStep,
         StartStep, EndStep, RepeatStep, TotalStep, Do
    <3> QED
      BY <3>1 DEF ScriptEnds, Ends
  <2> QED
    BY <2>2, <2>3
<1>5. NotedInv'
  BY <1>1, <1>3, <1>4 DEF NotedInv
<1> QED
  BY <1>2, <1>5 DEF CourseInv

\* and after every other one.
LEMMA CourseKeeps == NamespacesInv /\ CourseInv /\ Next => CourseInv'
<1> SUFFICES ASSUME NamespacesInv, CourseInv, Next PROVE CourseInv'
  OBVIOUS
<1>1. Place
  BY DEF NamespacesInv
<1>2. CASE BeginSuite
  <2>1. UNCHANGED <<plan, row, current, at, noted>> /\ phase' \in {"ready", "raised"} /\ phase = "before"
    BY <1>2 DEF BeginSuite, runVars, scenarioVars
  <2>2. at = 0 /\ suite' = suite
    BY <1>1, <2>1 DEF Place, suite
  <2>3. ~noted
    BY <2>2, Zenon DEF CourseInv, NotedInv
  <2> QED
    BY <2>1, <2>2, <2>3 DEF CourseInv, NotedInv, StartInv, KeysThere, TidyInv
<1>3. CASE FinishSuite \/ CleanupRaises \/ BrowserRaises
  <2>1. Going
    BY <1>3, SuitesGo
  <2>2. ~noted'
    BY <2>1, Zenon DEF Going, CourseInv, NotedInv
  <2>3. KeysThere'
    <3>1. plan \in Seq(Suites) /\ plan' = Tail(plan) /\ plan # <<>> /\ row' = row
      BY <1>1, <2>1 DEF Going, Place
    <3>2. ASSUME NEW i \in 1..Len(plan') PROVE i + 1 \in 1..Len(plan) /\ plan'[i] = plan[i + 1]
      BY <3>1, <3>2
    <3> QED
      BY <3>1, <3>2 DEF CourseInv, KeysThere
  <2> QED
    BY <2>1, <2>2, <2>3 DEF CourseInv, NotedInv, StartInv, TidyInv, Going
<1>4. CASE BeginCleanup
  <2>1. UNCHANGED <<plan, row, current, noted>> /\ phase' = "cleanup" /\ at = 0 /\ Cleaning
    BY <1>4 DEF BeginCleanup, runVars
  <2>2. suite' = suite
    BY <2>1 DEF suite
  <2>3. ~noted
    BY <2>1, Zenon DEF CourseInv, NotedInv
  <2>4. (Unfailed' <=> Unfailed) /\ (Unfailed => current > Len(Scenarios[suite]))
    BY <2>1, <2>2 DEF Unfailed, Cleaning
  <2> QED
    BY <2>1, <2>2, <2>3, <2>4 DEF CourseInv, NotedInv, StartInv, KeysThere, TidyInv
<1>5. CASE Begin
  <2>1. /\ UNCHANGED <<plan, noted, phase>> /\ DOMAIN row' = DOMAIN row /\ at = 0
        /\ phase \in {"ready", "short", "late"}
    BY <1>5 DEF Begin, runVars
  <2>2. ~noted
    BY <2>1, Zenon DEF CourseInv, NotedInv
  <2> QED
    BY <2>1, <2>2 DEF CourseInv, NotedInv, StartInv, KeysThere, TidyInv
<1>6. CASE Skip
  <2>1. UNCHANGED <<plan, noted, phase, row>> /\ at = 0 /\ phase = "ready"
    BY <1>6 DEF Skip, runVars
  <2>2. ~noted
    BY <2>1, Zenon DEF CourseInv, NotedInv
  <2> QED
    BY <2>1, <2>2 DEF CourseInv, NotedInv, StartInv, KeysThere, TidyInv
<1>7. CASE ScriptStep
  <2>1. CASE phase = "cleanup"
    <3>1. Tidying
      BY <1>7, <2>1, ScriptStepsWorkOrTidy
    <3>2. UNCHANGED <<plan, phase, row, current>> /\ suite' = suite
      BY <3>1 DEF Tidying, suite
    <3>3. ~noted'
      BY <2>1, <3>1, Zenon DEF Tidying, CourseInv, NotedInv
    <3> QED
      BY <2>1, <3>2, <3>3 DEF CourseInv, NotedInv, StartInv, KeysThere, TidyInv, Unfailed
  <2>2. CASE phase # "cleanup"
    BY <1>7, <2>2, ScriptStepsWorkOrTidy, WorkKeepsCourse
  <2> QED
    BY <2>1, <2>2
<1>8. CASE BurstStep
  BY <1>8, BurstStepsWork, WorkKeepsCourse
<1> QED
  BY <1>2, <1>3, <1>4, <1>5, <1>6, <1>7, <1>8 DEF Next

-----------------------------------------------------------------------------
(* What was done is kept by the steps outside of scripts                   *)

\* What a suite has done is the same for another place of it where the same steps are over.
LEMMA SameFacts ==
    ASSUME docker' = docker, suite' = suite, \A c \in Nat, n \in Nat \ {0} : Done(c, n)' <=> Done(c, n)
    PROVE  Facts' <=> Facts
<1>1. \A a : Serves(a)' <=> Serves(a)
  BY DEF Serves
<1>2. /\ Done(2, 3)' <=> Done(2, 3)
      /\ Done(2, 4)' <=> Done(2, 4)
      /\ Done(4, 1)' <=> Done(4, 1)
      /\ Done(5, 2)' <=> Done(5, 2)
      /\ Done(9, 2)' <=> Done(9, 2)
      /\ Done(4, 2)' <=> Done(4, 2)
      /\ Done(13, 2)' <=> Done(13, 2)
      /\ Done(13, 3)' <=> Done(13, 3)
      /\ Done(13, 4)' <=> Done(13, 4)
      /\ Done(15, 1)' <=> Done(15, 1)
  OBVIOUS
<1>3. /\ Done(1, 1)' <=> Done(1, 1)
      /\ Done(2, 1)' <=> Done(2, 1)
      /\ Done(3, 2)' <=> Done(3, 2)
      /\ Done(3, 3)' <=> Done(3, 3)
      /\ Done(3, 4)' <=> Done(3, 4)
      /\ Done(5, 1)' <=> Done(5, 1)
      /\ Done(5, 5)' <=> Done(5, 5)
  OBVIOUS
<1>4. UpgradeFacts' <=> UpgradeFacts
  BY <1>1, <1>2 DEF UpgradeFacts
<1>5. BackupFacts' <=> BackupFacts
  BY <1>1, <1>3 DEF BackupFacts
<1> QED
  BY <1>1, <1>3, <1>4, <1>5 DEF Facts

\* A suite that begins has done nothing yet,
LEMMA BeginSuiteKeepsFacts == ASSUME NamespacesInv, CourseInv, BeginSuite PROVE FactsInv'
<1>1. current = 1 /\ at = 0 /\ UNCHANGED <<current, at>>
  BY DEF BeginSuite, scenarioVars, NamespacesInv, Place, CourseInv, StartInv
<1>2. ASSUME NEW c \in Nat \ {0}, NEW n \in Nat \ {0} PROVE ~Done(c, n)'
  BY <1>1 DEF Done
<1>3. UpgradeFacts' /\ BackupFacts' /\ ~Done(5, 5)'
  BY <1>2 DEF UpgradeFacts, BackupFacts
<1> QED
  BY <1>3 DEF FactsInv, Facts

\* nor has a scenario that begins done more than those before it,
LEMMA BeginKeepsFacts == ASSUME NamespacesInv, CourseInv, FactsInv, Begin PROVE FactsInv'
<1>1. /\ at = 0 /\ at' = 1 /\ UNCHANGED <<plan, current, noted, phase, docker>>
      /\ phase \in {"ready", "short", "late"} /\ current <= Len(Scenarios[suite])
      /\ row' = [row EXCEPT ![Scenarios[suite][current].key] = "RUNNING"]
  BY DEF Begin, runVars, dockerVars, Upcoming
<1>2. suite' = suite /\ current \in Nat \ {0} /\ plan # <<>> /\ Place
  BY <1>1 DEF suite, NamespacesInv, Place
<1>3. SUFFICES ASSUME Watching', Fine' PROVE Facts'
  BY DEF FactsInv
<1>4. suite \in Tracked /\ Watching
  BY <1>1, <1>2, <1>3 DEF Watching
<1>5. Len(Scenarios[suite]) \in Nat
  BY <1>2, PlanStarts, LengthsAre
<1>6. current \in 1..Len(Scenarios[suite])
  BY <1>1, <1>2, <1>5
<1>7. ASSUME NEW k \in 1..(current - 1), k <= Len(Scenarios[suite]) PROVE row[Scenarios[suite][k].key] # "FAILED"
  <2>1. k \in 1..Len(Scenarios[suite]) /\ k # current
    BY <1>5, <1>6, <1>7
  <2>2. Scenarios[suite][k].key # Scenarios[suite][current].key
    BY <1>4, <1>6, <2>1, KeysDiffer
  <2>3. row'[Scenarios[suite][k].key] = row[Scenarios[suite][k].key]
    BY <1>1, <2>2
  <2>4. row'[Scenarios[suite][k].key] # "FAILED"
    BY <1>1, <1>2, <1>3, <1>7 DEF Fine
  <2> QED
    BY <2>3, <2>4
<1>8. Fine
  <2>1. ~noted
    BY <1>1, <1>3, Zenon DEF Fine
  <2> QED
    BY <1>7, <2>1 DEF Fine
<1>9. \A c \in Nat, n \in Nat \ {0} : Done(c, n)' <=> Done(c, n)
  BY <1>1, <1>2 DEF Done
<1> QED
  BY <1>1, <1>2, <1>4, <1>8, <1>9, SameFacts DEF FactsInv

\* and when the cleanup begins all that was done is still there.
LEMMA BeginCleanupKeepsFacts == ASSUME NamespacesInv, FactsInv, BeginCleanup PROVE FactsInv'
<1>1. /\ at = 0 /\ at' = 1 /\ UNCHANGED <<plan, current, noted, row, docker>>
      /\ phase = "ready"
  BY DEF BeginCleanup, runVars, dockerVars
<1>2. suite' = suite /\ current \in Nat \ {0}
  BY <1>1 DEF suite, NamespacesInv, Place
<1>3. SUFFICES ASSUME Watching', Fine' PROVE Facts'
  BY DEF FactsInv
<1>4. Watching /\ Fine
  BY <1>1, <1>2, <1>3 DEF Watching, Fine
<1>5. \A c \in Nat, n \in Nat \ {0} : Done(c, n)' <=> Done(c, n)
  BY <1>1, <1>2 DEF Done
<1> QED
  BY <1>1, <1>2, <1>4, <1>5, SameFacts DEF FactsInv

\* So every step of the run keeps the invariant.
LEMMA FactsKeep == NamespacesInv /\ CourseInv /\ FactsInv /\ Next => FactsInv'
<1> SUFFICES ASSUME NamespacesInv, CourseInv, FactsInv, Next PROVE FactsInv'
  OBVIOUS
<1>1. CASE FinishSuite \/ CleanupRaises \/ BrowserRaises
  BY <1>1, SuitesGo DEF Going, FactsInv, Watching
<1>2. CASE Skip
  <2>1. suite' = "kiosk_emulator"
    BY <1>2 DEF Skip, runVars, suite
  <2> QED
    BY <2>1 DEF FactsInv, Watching, Tracked
<1>3. CASE BurstStep
  <2>1. suite' = "offline_burst"
    BY <1>3, BurstStepsWork DEF Working, suite
  <2> QED
    BY <2>1 DEF FactsInv, Watching, Tracked
<1>4. CASE ScriptStep /\ phase = "cleanup"
  <2>1. Tidying /\ at \in Nat
    BY <1>4, ScriptStepsWorkOrTidy DEF NamespacesInv, Place
  <2>2. at' # 1 /\ phase' = "cleanup"
    BY <1>4, <2>1 DEF Tidying
  <2> QED
    BY <2>2 DEF FactsInv, Watching
<1>5. CASE ScriptStep /\ phase # "cleanup"
  <2>1. CASE suite \in Tracked
    BY <1>5, <2>1, ScriptKeepsFacts DEF CourseInv
  <2>2. CASE suite \notin Tracked
    <3>1. suite' = suite
      BY <1>5, ScriptStepsWorkOrTidy DEF Working, suite
    <3> QED
      BY <2>2, <3>1 DEF FactsInv, Watching
  <2> QED
    BY <2>1, <2>2
<1> QED
  BY <1>1, <1>2, <1>3, <1>4, <1>5, BeginSuiteKeepsFacts, BeginKeepsFacts, BeginCleanupKeepsFacts DEF Next

-----------------------------------------------------------------------------
(* What the suites leave                                                   *)

\* The rows of commands that run one suite, and that suite
AloneRows == {"chaos", "rollback", "backup_restore_recovery"}
Command(r) == IF r = "backup_restore_recovery" THEN "backup_restore" ELSE r

\* The verdict of such a suite comes with its end, or with its cleanup when nothing failed.
AloneInv ==
    \A r \in AloneRows : Runs(r) =>
        /\ plan \in {<<>>, <<Command(r)>>}
        /\ plan # <<>> /\ phase # "cleanup" => status[r] # "PASSED"
        /\ phase = "cleanup" /\ status[r] = "PASSED" => Unfailed

\* What chaos has tested stays as it left it,
ChaosInv == Runs("chaos") /\ plan = <<>> /\ status["chaos"] = "PASSED" => Serves("app")

\* what recovery has stays so while the next suite tests a deployment of its own.
RecoveryInv ==
    Runs("recovery") =>
        /\ Len(plan) <= 12
        /\ \A j \in 1..Len(plan) : plan[j] = Release[12 - Len(plan) + j]
        /\ Len(plan) > 3 => status["recovery"] # "PASSED"
        /\ Len(plan) = 3 /\ status["recovery"] = "PASSED" => Serves("app")

LeftInv == AloneInv /\ ChaosInv /\ RecoveryInv

\* No row has a verdict at the start.
LEMMA LeftStarts == Init => LeftInv
<1> SUFFICES ASSUME Init PROVE LeftInv
  OBVIOUS
<1>1. /\ DOMAIN status = UNION {RowsOf(s) : s \in ToSet(plan)} /\ \A r \in DOMAIN status : status[r] = "NONE"
      /\ phase = "before" /\ plan \in Seq(Suites)
  <2>1. plan \in Seq(Suites)
    BY NothingYet DEF NamespacesInv, Place
  <2> QED
    BY <2>1 DEF Init
<1>2. ASSUME NEW r \in AloneRows \cup {"recovery"}, Runs(r)
      PROVE  Command(r) \in ToSet(plan) /\ status[r] = "NONE"
  <2>1. PICK s \in ToSet(plan) : r \in RowsOf(s)
    BY <1>1, <1>2 DEF Runs
  <2>2. s \in Suites
    BY <1>1, <2>1 DEF ToSet
  <2>3. s # "backup_restore_recovery"
    BY <2>2, SuitesAre
  <2>4. s = Command(r)
    BY <2>1, <2>3 DEF RowsOf, Command, AloneRows
  <2> QED
    BY <1>1, <1>2, <2>1, <2>4 DEF Runs
<1>3. /\ \A r \in AloneRows : Command(r) \notin ToSet(Product) /\ Command(r) \notin ToSet(Release)
      /\ "recovery" \notin ToSet(Product)
  BY ReleaseIs DEF Product, ToSet, AloneRows, Command
<1>4. \A r \in AloneRows : Command(r) # "kiosk_emulator"
  BY DEF AloneRows, Command
<1>5. AloneInv
  <2> SUFFICES ASSUME NEW r \in AloneRows, Runs(r) PROVE plan = <<Command(r)>> /\ status[r] = "NONE"
    BY <1>1 DEF AloneInv
  <2>1. Command(r) \in ToSet(plan) /\ status[r] = "NONE"
    BY <1>2
  <2>2. \E s \in Suites : plan = <<s>>
    BY <1>3, <2>1, SuitesAre DEF Init, Alone
  <2>3. plan = <<Command(r)>>
    BY <2>1, <2>2 DEF ToSet
  <2> QED
    BY <2>1, <2>3
<1>6. RecoveryInv
  <2> SUFFICES ASSUME Runs("recovery") PROVE RecoveryInv
    BY DEF RecoveryInv
  <2>1. "recovery" \in ToSet(plan) /\ status["recovery"] = "NONE"
    BY <1>2 DEF Command
  <2>2. plan = Release
    BY <1>3, <2>1 DEF Init, Alone, ToSet
  <2>3. Len(plan) = 12
    BY <2>2, ReleaseIs
  <2> QED
    BY <2>1, <2>2, <2>3 DEF RecoveryInv
<1>7. ChaosInv
  BY <1>2 DEF ChaosInv, AloneRows
<1> QED
  BY <1>5, <1>6, <1>7 DEF LeftInv

\* What is outside of its suite's namespaces, no step touches.
LEMMA ElsewhereIsTheSame ==
    ASSUME NamespacesInv, Next PROVE \A s \in Sites \ SitesOf(suite) : Same(docker, docker', s)
<1>1. CASE BeginSuite \/ BeginCleanup \/ Begin \/ Skip
  BY <1>1 DEF BeginSuite, BeginCleanup, Begin, Skip, dockerVars, Same
<1>2. CASE FinishSuite \/ CleanupRaises \/ BrowserRaises
  BY <1>2, SuitesGo DEF Going, Same
<1>3. CASE ScriptStep
  BY <1>3, ScriptStepsWorkOrTidy DEF Working, Tidying
<1>4. CASE BurstStep
  BY <1>4, BurstStepsWork DEF Working
<1> QED
  BY <1>1, <1>2, <1>3, <1>4 DEF Next

\* So the deployed application answers as it did while a suite works on namespaces of its own.
LEMMA AppIsTheSame ==
    ASSUME NamespacesInv, Next, "release" \notin SitesOf(suite) PROVE Serves("app")' <=> Serves("app")
<1>1. "release" \in Sites /\ "app" \in AppsOf("release") /\ SiteOf("app") = "release"
  BY SitesAre DEF Sites
<1>2. Same(docker, docker', "release")
  BY <1>1, ElsewhereIsTheSame
<1> QED
  BY <1>1, <1>2 DEF Same, Serves

\* A suite that stopped the application has PASSED only after all of its scenarios did.
LEMMA FinishedWell ==
    ASSUME NamespacesInv, CourseInv, FactsInv, FinishSuite, suite \in {"recovery", "chaos"}, Outcome(suite) = "PASSED"
    PROVE  Serves("app")
<1>1. /\ phase \in {"ready", "short", "late"} /\ current > Len(Scenarios[suite]) /\ suite \in Tracked
      /\ Len(Scenarios[suite]) = 6 /\ current \in Nat /\ Place
  BY TrackedAre DEF FinishSuite, Strict, NamespacesInv, Place, Tracked
<1>2. Going /\ plan # <<>>
  BY SuitesGo DEF Going
<1>3. ~noted
  <2>1. at = 0
    BY <1>1, <1>2 DEF Going
  <2> QED
    BY <2>1, Zenon DEF CourseInv, NotedInv
<1>4. \A k \in KeysOf[suite] : row[k] # "FAILED"
  BY DEF Outcome
<1>5. ASSUME NEW k \in 1..6 PROVE row[Scenarios[suite][k].key] # "FAILED"
  BY <1>1, <1>2, <1>4, <1>5, KeysAre DEF CourseInv
<1>6. Fine
  <2>1. \A k \in 1..(current - 1) : k <= Len(Scenarios[suite]) => k \in 1..6
    BY <1>1
  <2> QED
    BY <1>3, <1>5, <2>1 DEF Fine
<1>7. Watching
  BY <1>1 DEF Watching
<1>8. Done(5, 5)
  BY <1>1 DEF Done
<1> QED
  BY <1>6, <1>7, <1>8 DEF FactsInv, Facts

\* What a step does to the verdict in row r
LEMMA VerdictsCome ==
    ASSUME NamespacesInv, Next, NEW r, Runs(r)
    PROVE  /\ Runs(r)'
           /\ \/ status'[r] = status[r]
              \/ status'[r] = "RUNNING" /\ (BeginSuite \/ Begin)
              \/ status'[r] = Outcome(suite) /\ r \in RowsOf(suite) /\ FinishSuite
              \/ status'[r] = Outcome(suite) /\ BeginCleanup
<1>1. r \in DOMAIN status
  BY DEF Runs
<1>2. CASE BeginSuite
  BY <1>1, <1>2 DEF BeginSuite, Runs
<1>3. CASE FinishSuite
  BY <1>1, <1>3 DEF FinishSuite, Runs
<1>4. CASE BeginCleanup
  BY <1>1, <1>4 DEF BeginCleanup, Runs
<1>5. CASE Begin
  BY <1>1, <1>5 DEF Begin, Runs
<1>6. CASE CleanupRaises \/ BrowserRaises \/ Skip
  BY <1>1, <1>6 DEF CleanupRaises, BrowserRaises, Skip, Runs
<1>7. CASE ScriptStep
  BY <1>1, <1>7, ScriptStepsWorkOrTidy DEF Working, Tidying, Runs
<1>8. CASE BurstStep
  BY <1>1, <1>8, BurstStepsWork DEF Working, Runs
<1> QED
  BY <1>2, <1>3, <1>4, <1>5, <1>6, <1>7, <1>8 DEF Next

\* A step ends a suite, or stays in it.
LEMMA SuitesStay ==
    ASSUME NamespacesInv, Next
    PROVE  /\ plan # <<>>
           /\ \/ Going /\ (FinishSuite \/ CleanupRaises \/ BrowserRaises)
              \/ /\ plan' = plan /\ suite' = suite
                 /\ \/ phase' # "cleanup" /\ phase # "cleanup"
                    \/ phase = "cleanup" /\ phase' = "cleanup" /\ row' = row
                    \/ BeginCleanup
<1>1. CASE BeginSuite \/ Begin \/ Skip
  <2>1. plan' = plan /\ plan # <<>> /\ phase # "cleanup" /\ phase' # "cleanup"
    BY <1>1 DEF BeginSuite, Begin, Skip, runVars, NamespacesInv, Place
  <2> QED
    BY <2>1 DEF suite
<1>2. CASE BeginCleanup
  <2>1. plan' = plan /\ plan # <<>>
    BY <1>2 DEF BeginCleanup, runVars, NamespacesInv, Place
  <2> QED
    BY <1>2, <2>1 DEF suite
<1>3. CASE FinishSuite \/ CleanupRaises \/ BrowserRaises
  BY <1>3, SuitesGo DEF Going
<1>4. CASE ScriptStep
  <2>1. plan' = plan /\ plan # <<>> /\ (IF phase = "cleanup" THEN phase' = "cleanup" /\ row' = row ELSE phase' # "cleanup")
    BY <1>4, ScriptStepsWorkOrTidy DEF Working, Tidying, NamespacesInv, Place
  <2> QED
    BY <2>1 DEF suite
<1>5. CASE BurstStep
  <2>1. plan' = plan /\ plan # <<>> /\ phase # "cleanup" /\ phase' # "cleanup"
    BY <1>5, BurstStepsWork DEF Working
  <2> QED
    BY <2>1 DEF suite
<1> QED
  BY <1>1, <1>2, <1>3, <1>4, <1>5 DEF Next

\* Each step keeps the verdicts of the suites that run alone,
LEMMA AloneKeeps == NamespacesInv /\ AloneInv /\ Next => AloneInv'
<1> SUFFICES ASSUME NamespacesInv, AloneInv, Next, NEW r \in AloneRows, Runs(r)'
             PROVE  /\ plan' \in {<<>>, <<Command(r)>>}
                    /\ plan' # <<>> /\ phase' # "cleanup" => status'[r] # "PASSED"
                    /\ phase' = "cleanup" /\ status'[r] = "PASSED" => Unfailed'
  BY DEF AloneInv
<1>1. Runs(r)
  BY RowsStay DEF Runs
<1>2. plan = <<Command(r)>>
  BY <1>1, SuitesStay DEF AloneInv
<1>3. CASE Going
  <2>1. plan' = <<>> /\ phase' = "before"
    BY <1>2, <1>3 DEF Going
  <2> QED
    BY <2>1
<1>4. CASE BeginCleanup /\ plan' = plan /\ suite' = suite
  <2>1. phase' = "cleanup" /\ phase # "cleanup" /\ row' = row
    BY <1>4 DEF BeginCleanup
  <2>2. status[r] # "PASSED"
    BY <1>1, <1>2, <2>1 DEF AloneInv
  <2>3. status'[r] = status[r] \/ status'[r] = Outcome(suite) \/ status'[r] = "RUNNING"
    BY <1>1, VerdictsCome
  <2>4. Outcome(suite) = "PASSED" => Unfailed
    BY DEF Outcome, Unfailed
  <2>5. Unfailed' <=> Unfailed
    BY <1>4, <2>1 DEF Unfailed
  <2> QED
    BY <1>2, <1>4, <2>1, <2>2, <2>3, <2>4, <2>5
<1>5. CASE plan' = plan /\ suite' = suite /\ ~BeginCleanup
  <2>1. ~FinishSuite
    <3>1. FinishSuite => plan' = <<>>
      BY <1>2 DEF FinishSuite, Goes
    <3> QED
      BY <1>2, <1>5, <3>1
  <2>2. status'[r] = status[r] \/ status'[r] = "RUNNING"
    BY <1>1, <1>5, <2>1, VerdictsCome
  <2>3. CASE phase' # "cleanup" /\ phase # "cleanup"
    BY <1>1, <1>2, <1>5, <2>2, <2>3 DEF AloneInv
  <2>4. CASE phase = "cleanup" /\ phase' = "cleanup" /\ row' = row
    <3>1. Unfailed' <=> Unfailed
      BY <1>5, <2>4 DEF Unfailed
    <3> QED
      BY <1>1, <1>2, <1>5, <2>2, <2>4, <3>1 DEF AloneInv
  <2>5. ~Going
    BY <1>2, <1>5 DEF Going
  <2> QED
    BY <1>5, <2>3, <2>4, <2>5, SuitesStay
<1> QED
  BY <1>3, <1>4, <1>5, SuitesStay

\* what chaos has left,
LEMMA ChaosKeeps == NamespacesInv /\ CourseInv /\ FactsInv /\ AloneInv /\ ChaosInv /\ Next => ChaosInv'
<1> SUFFICES ASSUME NamespacesInv, CourseInv, FactsInv, AloneInv, ChaosInv, Next,
                    Runs("chaos")', plan' = <<>>, status'["chaos"] = "PASSED"
             PROVE  Serves("app")'
  BY DEF ChaosInv
<1>1. Runs("chaos") /\ "chaos" \in AloneRows
  BY RowsStay DEF Runs, AloneRows
<1>2. plan = <<"chaos">>
  BY <1>1, SuitesStay DEF AloneInv, Command
<1>3. suite = "chaos" /\ Going
  BY <1>2, SuitesStay DEF suite
<1>4. phase # "cleanup"
  BY <1>3 DEF NamespacesInv, Place, Strict
<1>5. status["chaos"] # "PASSED"
  BY <1>1, <1>2, <1>4 DEF AloneInv
<1>6. FinishSuite /\ Outcome(suite) = "PASSED"
  <2>1. ~BeginSuite /\ ~Begin /\ ~BeginCleanup
    BY <1>2 DEF BeginSuite, Begin, BeginCleanup, runVars
  <2> QED
    BY <1>1, <1>5, <2>1, VerdictsCome
<1>7. Serves("app")
  BY <1>3, <1>6, FinishedWell
<1> QED
  BY <1>3, <1>7 DEF Going, Serves

\* Which suites of run-artifact are recovery and the one after it
LEMMA RecoveryPlace ==
    ASSUME Place, RecoveryInv, Runs("recovery"), plan # <<>>
    PROVE  /\ Len(plan) \in 1..12
           /\ Len(plan) = 4 <=> suite = "recovery"
           /\ Len(plan) = 3 <=> suite = "test_deployment"
<1>1. plan \in Seq(Suites) /\ suite = plan[1] /\ Len(plan) \in Nat /\ Len(plan) # 0 /\ Len(plan) <= 12
  BY DEF Place, RecoveryInv, suite
<1>2. PICK l \in 1..12 : l = Len(plan)
  <2>1. \A l \in Nat : l # 0 /\ l <= 12 => l \in 1..12
    OBVIOUS
  <2>2. Len(plan) \in 1..12
    BY <1>1, <2>1
  <2> QED
    BY <2>2
<1>3. suite = Release[12 - l + 1]
  <2>1. 1 \in 1..Len(plan)
    BY <1>1
  <2>2. plan[1] = Release[12 - Len(plan) + 1]
    BY <2>1 DEF RecoveryInv
  <2> QED
    BY <1>1, <1>2, <2>2
<1>4. /\ \A i \in 1..12 : Release[i] = "recovery" <=> i = 9
      /\ \A i \in 1..12 : Release[i] = "test_deployment" <=> i = 10
  BY ReleaseIs
<1>5. 12 - l + 1 \in 1..12 /\ (l = 4 <=> 12 - l + 1 = 9) /\ (l = 3 <=> 12 - l + 1 = 10)
  OBVIOUS
<1> QED
  BY <1>2, <1>3, <1>4, <1>5

\* and what recovery has.
LEMMA RecoveryKeeps == NamespacesInv /\ CourseInv /\ FactsInv /\ RecoveryInv /\ Next => RecoveryInv'
<1> SUFFICES ASSUME NamespacesInv, CourseInv, FactsInv, RecoveryInv, Next, Runs("recovery")' PROVE RecoveryInv'
  BY DEF RecoveryInv
<1>1. Runs("recovery") /\ Place /\ plan # <<>> /\ plan \in Seq(Suites)
  BY RowsStay, SuitesStay DEF Runs, NamespacesInv, Place
<1>2. PICK l \in 1..12 : l = Len(plan) /\ (l = 4 <=> suite = "recovery") /\ (l = 3 <=> suite = "test_deployment")
  BY <1>1, RecoveryPlace
<1>3. RowsOf(suite) \cap {"recovery"} # {} => suite = "recovery"
  BY DEF RowsOf
<1>4. ASSUME status'["recovery"] = "PASSED"
      PROVE  status["recovery"] = "PASSED" \/ (suite = "recovery" /\ FinishSuite /\ Outcome(suite) = "PASSED")
  <2>1. ASSUME BeginCleanup PROVE status'["recovery"] = status["recovery"]
    BY <1>1, <2>1 DEF BeginCleanup, Runs
  <2> QED
    BY <1>1, <1>3, <1>4, <2>1, VerdictsCome
<1>5. CASE plan' = plan
  <2>1. ~FinishSuite
    <3>1. Len(Tail(plan)) = Len(plan) - 1
      BY <1>1
    <3>2. Len(Tail(plan)) # Len(plan)
      <4>1. l - 1 # l
        OBVIOUS
      <4> QED
        BY <1>2, <3>1, <4>1
    <3> QED
      BY <1>5, <3>2 DEF FinishSuite, Goes
  <2>2. status'["recovery"] = "PASSED" => status["recovery"] = "PASSED"
    BY <1>4, <2>1
  <2>3. ASSUME Len(plan) = 3 PROVE Serves("app")' <=> Serves("app")
    <3>1. "release" \notin SitesOf(suite)
      BY <1>2, <2>3 DEF SitesOf
    <3> QED
      BY <3>1, AppIsTheSame
  <2> QED
    BY <1>1, <1>5, <2>2, <2>3 DEF RecoveryInv
<1>6. CASE Going
  <2>1. /\ plan' = Tail(plan) /\ docker' = docker
        /\ \A j \in 1..(Len(plan) - 1) : plan'[j] = plan[j + 1]
        /\ Len(plan') = Len(plan) - 1
    BY <1>1, <1>6 DEF Going
  <2>2. Len(plan') = l - 1 /\ l - 1 <= 12
    <3>1. l - 1 <= 12
      OBVIOUS
    <3>2. Len(plan') = l - 1
      BY <1>2, <2>1
    <3> QED
      BY <3>1, <3>2
  <2>3. ASSUME NEW j \in 1..(l - 1) PROVE plan'[j] = Release[12 - (l - 1) + j]
    <3>1. j + 1 \in 1..l /\ 12 - l + (j + 1) = 12 - (l - 1) + j
      OBVIOUS
    <3>2. plan[j + 1] = Release[12 - l + (j + 1)]
      BY <1>1, <1>2, <3>1 DEF RecoveryInv
    <3> QED
      BY <1>2, <2>1, <3>1, <3>2
  <2>4. ASSUME l - 1 > 3 PROVE status'["recovery"] # "PASSED"
    <3>1. l > 3 /\ l # 4
      BY <2>4
    <3>2. status["recovery"] # "PASSED"
      BY <1>1, <1>2, <3>1 DEF RecoveryInv
    <3> QED
      BY <1>2, <1>4, <3>1, <3>2
  <2>5. ASSUME l - 1 = 3, status'["recovery"] = "PASSED" PROVE Serves("app")'
    <3>1. l = 4 /\ l > 3
      BY <2>5
    <3>2. status["recovery"] # "PASSED"
      BY <1>1, <1>2, <3>1 DEF RecoveryInv
    <3>3. Serves("app")
      BY <1>2, <1>4, <2>5, <3>1, <3>2, FinishedWell
    <3> QED
      BY <2>1, <3>3 DEF Serves
  <2> QED
    BY <2>2, <2>3, <2>4, <2>5 DEF RecoveryInv
<1> QED
  BY <1>5, <1>6, SuitesStay

\* A scenario left over after the last one of a cleaned up suite: none, and none failed.
LEMMA RemovedAfterAll ==
    ASSUME NamespacesInv, CourseInv, FactsInv, phase = "cleanup", at = 1, Unfailed, suite \in Tracked
    PROVE  Facts /\ current > Len(Scenarios[suite]) /\ current \in Nat
<1>1. current > Len(Scenarios[suite]) /\ current \in Nat /\ Place /\ plan # <<>>
  BY DEF CourseInv, TidyInv, NamespacesInv, Place
<1>2. Watching
  BY <1>1 DEF Watching
<1>3. ~noted
  BY Zenon DEF CourseInv, NotedInv
<1>4. Len(Scenarios[suite]) \in Nat
  BY LengthsAre, TrackedAre
<1>5. ASSUME NEW k \in 1..(current - 1), k <= Len(Scenarios[suite]) PROVE row[Scenarios[suite][k].key] # "FAILED"
  <2>1. k \in 1..Len(Scenarios[suite])
    BY <1>1, <1>4, <1>5
  <2> QED
    BY <1>1, <2>1, KeysAre DEF CourseInv, Unfailed
<1>6. Fine
  BY <1>3, <1>5 DEF Fine
<1> QED
  BY <1>1, <1>2, <1>6 DEF FactsInv

\* The inductive invariant: the places, what was done at them, and what the verdicts say of it
WorkInv == NamespacesInv /\ CourseInv /\ FactsInv /\ LeftInv

\* What a suite that handles containers says has PASSED is so, however many calls fail and
\* wherever: the application that it stopped, cut off and stalled answers, and the database
\* that it upgraded, rolled back or restored holds what it should.
THEOREM PassedIsWorking == Spec => []PassedLeftItWorking
<1>1. Init => WorkInv
  <2>1. Init => FactsInv
    BY DEF Init, FactsInv, Watching
  <2> QED
    BY <2>1, NothingYet, CourseStarts, LeftStarts DEF WorkInv
<1>2. WorkInv /\ [Next]_vars => WorkInv'
  <2>1. CASE Next
    BY <2>1, NextKeeps, CourseKeeps, FactsKeep, AloneKeeps, ChaosKeeps, RecoveryKeeps DEF WorkInv, LeftInv
  <2>2. CASE UNCHANGED vars
    <3>1. /\ UNCHANGED <<plan, status, row, current, scenario, at, noted, hit, phase, joined_network, docker, faults>>
          /\ suite' = suite
      BY <2>2 DEF vars, runVars, scenarioVars, clientVars, dockerVars, suite
    <3>2. NamespacesInv => NamespacesInv'
      BY <3>1 DEF NamespacesInv, Place, RowsRun, SitesInv, JoinInv, CleanupInv, BackupAlone, Active, Excused, Closed,
         Cleared, JoinRaised, Present, Runs
    <3>3. CourseInv => CourseInv'
      <4>1. NotedInv => NotedInv'
        BY <3>1, Zenon DEF NotedInv
      <4>2. StartInv /\ KeysThere /\ TidyInv => StartInv' /\ KeysThere' /\ TidyInv'
        BY <3>1 DEF StartInv, KeysThere, TidyInv, Unfailed
      <4> QED
        BY <4>1, <4>2 DEF CourseInv
    <3>4. FactsInv => FactsInv'
      <4>1. Watching' => Watching
        BY <3>1 DEF Watching
      <4>2. Fine' => Fine
        <5>1. noted' <=> noted
          BY <3>1, Zenon
        <5> QED
          BY <3>1, <5>1 DEF Fine
      <4>3. \A c \in Nat, n \in Nat \ {0} : Done(c, n)' <=> Done(c, n)
        BY <3>1 DEF Done
      <4>4. Facts => Facts'
        BY <3>1, <4>3, SameFacts
      <4> QED
        BY <4>1, <4>2, <4>4 DEF FactsInv
    <3>5. LeftInv => LeftInv'
      BY <3>1 DEF LeftInv, AloneInv, ChaosInv, RecoveryInv, Unfailed, Runs, Serves
    <3> QED
      BY <3>2, <3>3, <3>4, <3>5 DEF WorkInv
  <2> QED
    BY <2>1, <2>2
<1>3. WorkInv => PassedLeftItWorking
  <2> SUFFICES ASSUME WorkInv PROVE PassedLeftItWorking
    OBVIOUS
  <2> DEFINE Passed(s) == Runs(s) /\ status[s] = "PASSED"
             removing == phase = "cleanup" /\ at = 1
             data(s) == docker.data[s]
  <2>0. /\ NamespacesInv /\ CourseInv /\ FactsInv /\ AloneInv /\ ChaosInv /\ RecoveryInv /\ Place
        /\ phase = "cleanup" => plan # <<>>
        /\ "chaos" \in AloneRows /\ "rollback" \in AloneRows /\ "backup_restore_recovery" \in AloneRows
    BY DEF WorkInv, LeftInv, NamespacesInv, Place, AloneRows
  <2>1. ASSUME Passed("chaos") PROVE Serves("app")
    <3>1. plan = <<>>
      <4>1. plan \in {<<>>, <<"chaos">>} /\ (plan # <<>> => phase = "cleanup")
        BY <2>0, <2>1 DEF AloneInv, Command
      <4>2. plan = <<"chaos">> => phase # "cleanup"
        BY <2>0 DEF Place, Strict, suite
      <4> QED
        BY <4>1, <4>2
    <3> QED
      BY <2>0, <2>1, <3>1 DEF ChaosInv
  <2>2. ASSUME Passed("recovery"), suite = "test_deployment" PROVE Serves("app")
    <3>1. plan # <<>>
      BY <2>2 DEF suite
    <3>2. Len(plan) = 3
      BY <2>0, <2>2, <3>1, RecoveryPlace
    <3> QED
      BY <2>0, <2>2, <3>2 DEF RecoveryInv
  <2>3. ASSUME removing, suite = "upgrade", Outcome("upgrade") = "PASSED"
        PROVE  Serves("new") /\ data("upgrade").schema = "new" /\ data("upgrade").rows >= docker.counts
    <3>1. Unfailed /\ suite \in Tracked
      BY <2>3 DEF Outcome, Unfailed, Tracked
    <3>2. Facts /\ current > Len(Scenarios[suite]) /\ current \in Nat
      BY <2>0, <2>3, <3>1, RemovedAfterAll
    <3>3. current > 11 /\ current \in Nat
      BY <2>3, <3>2, TrackedAre
    <3>4. Done(4, 1) /\ Done(5, 2) /\ Done(9, 2)
      BY <3>3 DEF Done
    <3> QED
      BY <2>3, <3>2, <3>4 DEF Facts, UpgradeFacts
  <2>4. ASSUME removing, Passed("rollback") PROVE Serves("old") /\ data("upgrade") = docker.dump
    <3>1. plan = <<"rollback">> /\ Unfailed
      BY <2>0, <2>4 DEF AloneInv, Command
    <3>2. suite = "rollback" /\ suite \in Tracked
      BY <3>1 DEF suite, Tracked
    <3>3. Facts /\ current > Len(Scenarios[suite]) /\ current \in Nat
      BY <2>0, <2>4, <3>1, <3>2, RemovedAfterAll
    <3>4. current > 15 /\ current \in Nat
      BY <3>2, <3>3, TrackedAre
    <3>5. Done(13, 4) /\ Done(15, 1)
      BY <3>4 DEF Done
    <3> QED
      BY <3>2, <3>3, <3>5 DEF Facts, UpgradeFacts
  <2>5. ASSUME removing, Passed("backup_restore_recovery") PROVE Serves("restoreApp") /\ data("restore") = docker.dump
    <3>1. plan = <<"backup_restore">> /\ Unfailed
      BY <2>0, <2>5 DEF AloneInv, Command
    <3>2. suite = "backup_restore" /\ suite \in Tracked
      BY <3>1 DEF suite, Tracked
    <3>3. Facts /\ current > Len(Scenarios[suite]) /\ current \in Nat
      BY <2>0, <2>5, <3>1, <3>2, RemovedAfterAll
    <3>4. current > 5 /\ current \in Nat
      BY <3>2, <3>3, TrackedAre
    <3>5. Done(3, 4) /\ Done(5, 1)
      BY <3>4 DEF Done
    <3> QED
      BY <3>2, <3>3, <3>5 DEF Facts, BackupFacts
  <2> QED
    BY <2>1, <2>2, <2>3, <2>4, <2>5 DEF PassedLeftItWorking
<1> QED
  BY <1>1, <1>2, <1>3, PTL DEF Spec

=============================================================================
