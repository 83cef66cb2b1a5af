------------------------ MODULE FeatureRegistryProofs ------------------------
(***************************************************************************)
(* Proofs of FeatureRegistry for any threads, features, tests and tags: a  *)
(* status is written some statements after it was read or decided upon,    *)
(* but what earned it cannot be lost meanwhile, only the streak can.       *)
(***************************************************************************)
EXTENDS MCFeatureRegistry, TLAPS

\* What makes STABLE deserved.  Nothing that is done to a row undoes it.
Earned(f) == features[f].sources /\ features[f].earned = MinPasses

\* A streak is part of all PASSes.
RowInv(f) ==
    /\ features[f].passes <= features[f].earned
    /\ Stable(f) => Earned(f)

\* The row a thread has found exists for good; a thread that will write STABLE,
\* because it has read it or because the conditions held, does so rightly.
ThreadInv(t) ==
    LET c == call[t]
    IN  /\ c.pc \notin {"idle", "create", "insert"} => Exists(c.f)
        /\ c.do = "verify" => c.arg \in Tests
        /\ c.do = "declare" => c.arg \in Tags
        /\ c.pc = "pass" => c.seen # NoRow /\ (c.seen = "STABLE" => Earned(c.f))
        /\ c.pc = "evalBugs" /\ c.flag => Earned(c.f)
        /\ c.pc = "grant" => Earned(c.f)

IInv ==
    /\ TypeOK
    /\ \A f \in Features : RowInv(f)
    /\ \A t \in Threads : ThreadInv(t)

USE FeatureRegistryAssumption DEF Lifecycle!Statuses, Lifecycle!NoRow

\* An idle thread names some feature and some argument.
LEMMA IdleIsCall == Idle \in Call /\ Idle.pc = "idle" /\ Idle.do = "pass"
<1>1. (CHOOSE f \in Features : TRUE) \in Features
  OBVIOUS
<1>2. (CHOOSE a \in Tests \cup Tags : TRUE) \in Tests \cup Tags
  OBVIOUS
<1> QED
  BY <1>1, <1>2 DEF Idle, Call, Steps, NoRow

\* The bootstrapped registry.
LEMMA Begins == Init => IInv
<1> SUFFICES ASSUME Init PROVE IInv
  OBVIOUS
<1>1. /\ NewFeature(TRUE, FirstTests, FirstTags) \in Feature
      /\ [NewFeature(FALSE, {}, {}) EXCEPT !.status = NoRow] \in Feature
  <2>1. NewFeature(TRUE, FirstTests, FirstTags) \in Feature
    BY DEF NewFeature, Feature, Statuses
  <2>2. NewFeature(FALSE, {}, {}) \in Feature
    BY DEF NewFeature, Feature, Statuses
  <2>3. [NewFeature(FALSE, {}, {}) EXCEPT !.status = NoRow] \in Feature
    BY <2>2 DEF Feature
  <2> QED
    BY <2>1, <2>3
<1>2. PICK defaults \in SUBSET Features :
        features = [f \in Features |->
                       IF f \in defaults THEN NewFeature(TRUE, FirstTests, FirstTags)
                       ELSE [NewFeature(FALSE, {}, {}) EXCEPT !.status = NoRow]]
  BY DEF Init
<1>3. TypeOK
  BY <1>1, <1>2, IdleIsCall DEF Init, TypeOK
<1>4. \A f \in Features : RowInv(f)
  BY <1>2 DEF RowInv, Stable, NewFeature, NoRow
<1>5. \A t \in Threads : ThreadInv(t)
  BY IdleIsCall DEF Init, ThreadInv
<1> QED
  BY <1>3, <1>4, <1>5 DEF IInv

\* A row never disappears, nor does what it has earned.
Grows == \A f \in Features : Exists(f) => Exists(f)' /\ (Earned(f) => Earned(f)')

\* What a step of a thread has to keep.
Kept(t) ==
    /\ TypeOK'
    /\ \A f \in Features : RowInv(f)'
    /\ Grows
    /\ ThreadInv(t)'
    /\ \A u \in Threads \ {t} : call'[u] = call[u]

\* What other threads know stays true.
LEMMA OthersKeep ==
    ASSUME TypeOK, Grows, NEW u \in Threads, ThreadInv(u), call'[u] = call[u]
    PROVE  ThreadInv(u)'
<1>1. call[u].f \in Features
  BY DEF TypeOK, Call
<1> QED
  BY <1>1 DEF Grows, ThreadInv

\* Where reading a row lets an operation go on.
LEMMA ReadGoes ==
    ASSUME TypeOK, NEW t \in Threads, NEW c \in Call, Read(t, c),
           c.do = "verify" => c.arg \in Tests, c.do = "declare" => c.arg \in Tags
    PROVE  \E d \in Call :
             /\ call' = [call EXCEPT ![t] = d]
             /\ d = Idle \/ (/\ d.f = c.f
                             /\ d.arg = c.arg /\ d.do \in {c.do, "clear"}
                             /\ d.pc \in {"read", "upsert", "gapRead", "pass", "fail", "risk",
                                "change"}
                             /\ d.pc = "pass" => d.seen = features[c.f].status
                             /\ d.pc = "upsert" => d.do \in {"verify", "declare"}
                             /\ d.pc = "upsert" /\ d.do = "verify" =>
                                    features[c.f].tests \subseteq d.tests
                             /\ d.pc = "upsert" /\ d.do = "declare" =>
                                    features[c.f].tags \subseteq d.tags
                             /\ d.pc \in {"change", "risk"} => features[c.f].status # "BROKEN"
                             /\ d.pc = "risk" => features[c.f].status # "CHANGED")
<1>1. c.f \in Features /\ features[c.f] \in Feature /\ call \in [Threads -> Call]
  BY DEF TypeOK, Call
<1>2. CASE c.do = "verify" /\ c.arg \in features[c.f].tests
  <2> [c EXCEPT !.pc = "read", !.do = "clear"] \in Call
    BY DEF Call, Steps
  <2> QED
    BY <1>2, <1>1 DEF Read, Goto, Call
<1>3. CASE c.do = "verify" /\ c.arg \notin features[c.f].tests
  <2> [c EXCEPT !.pc = "upsert", !.tests = Attached(c.f, c.arg)] \in Call
    BY <1>1, <1>3 DEF Call, Steps, Attached, Feature
  <2> QED
    BY <1>3, <1>1 DEF Read, Goto, Call, Attached
<1>4. CASE c.do = "declare" /\ c.arg \in features[c.f].tags
  <2> [c EXCEPT !.pc = "gapRead"] \in Call
    BY DEF Call, Steps
  <2> QED
    BY <1>4, <1>1 DEF Read, Goto, Call
<1>5. CASE c.do = "declare" /\ c.arg \notin features[c.f].tags
  <2> [c EXCEPT !.pc = "upsert", !.tags = features[c.f].tags \cup {c.arg}] \in Call
    BY <1>1, <1>5 DEF Call, Steps, Feature
  <2> QED
    BY <1>5, <1>1 DEF Read, Goto, Call
<1>6. CASE c.do \in {"pass", "clear"}
  <2> [c EXCEPT !.pc = "pass", !.seen = features[c.f].status] \in Call
    BY <1>1 DEF Call, Steps, Feature
  <2> QED
    BY <1>6, <1>1 DEF Read, Goto, Call
<1>7. CASE c.do \in {"fail", "risk", "change"}
  <2>1. Idle \in Call /\ \A pc \in {"fail", "risk", "change"} : [c EXCEPT !.pc = pc] \in Call
    BY IdleIsCall DEF Call, Steps
  <2> HIDE DEF Idle
  <2> QED
    BY <1>7, <1>1, <2>1 DEF Read, Goto, Return, Call
<1> QED
  BY <1>2, <1>3, <1>4, <1>5, <1>6, <1>7 DEF Call

\* Reading a row decides where to go on, and changes no row.
LEMMA ReadKeeps ==
    ASSUME IInv, NEW t \in Threads, NEW c \in Call, Read(t, c), UNCHANGED <<features,
       openBugs>>,
           Exists(c.f), c.do = "verify" => c.arg \in Tests, c.do = "declare" => c.arg \in Tags
    PROVE  Kept(t)
<1>1. c.f \in Features /\ features[c.f] \in Feature /\ call \in [Threads -> Call]
  BY DEF IInv, TypeOK, Call
<1>2. PICK d \in Call :
        /\ call' = [call EXCEPT ![t] = d]
        /\ d = Idle \/ (/\ d.f = c.f
                        /\ d.arg = c.arg /\ d.do \in {c.do, "clear"}
                        /\ d.pc \in {"read", "upsert", "gapRead", "pass", "fail", "risk",
                           "change"}
                        /\ d.pc = "pass" => d.seen = features[c.f].status)
  BY ReadGoes DEF IInv
<1>3. TypeOK' /\ (\A f \in Features : RowInv(f)') /\ Grows
  BY <1>1, <1>2 DEF IInv, TypeOK, RowInv, Stable, Earned, Exists, Grows
<1>4. call'[t] = d /\ \A u \in Threads \ {t} : call'[u] = call[u]
  BY <1>1, <1>2
<1>5. ThreadInv(t)'
  <2>1. CASE d = Idle
    BY <2>1, <1>4, IdleIsCall DEF ThreadInv
  <2>2. CASE d # Idle
    <3>1. features[c.f].status = "STABLE" => Earned(c.f)
      BY <1>1 DEF IInv, RowInv, Stable
    <3>2. Exists(c.f)' /\ (Earned(c.f) => Earned(c.f)')
      BY DEF Exists, Earned
    <3> QED
      BY <2>2, <1>2, <1>4, <3>1, <3>2 DEF ThreadInv, Exists
  <2> QED
    BY <2>1, <2>2
<1> QED
  BY <1>3, <1>4, <1>5 DEF Kept

\* A call begins with a look for its row.
LEMMA BeginKeeps ==
    ASSUME IInv, NEW t \in Threads, NEW f \in Features, NEW arg \in Tests \cup Tags,
           NEW do \in {"verify", "declare", "pass", "fail", "risk", "change"}, Begin(t, do, f,
              arg),
           do = "verify" => arg \in Tests, do = "declare" => arg \in Tags
    PROVE  Kept(t)
<1> DEFINE c == [Idle EXCEPT !.do = do, !.f = f, !.arg = arg]
<1>1. c \in Call /\ c.do = do /\ c.f = f /\ c.arg = arg
  BY IdleIsCall DEF Call
<1>2. [c EXCEPT !.pc = "create"] \in Call
  BY <1>1 DEF Call, Steps
<1>3. UNCHANGED <<features, openBugs>>
  BY DEF Begin
<1>4. IF Exists(f) THEN Read(t, c) ELSE Goto(t, [c EXCEPT !.pc = "create"])
  BY DEF Begin
<1> HIDE DEF c
<1>5. CASE Exists(f)
  BY <1>1, <1>3, <1>4, <1>5, ReadKeeps
<1>6. CASE ~Exists(f)
  <2> DEFINE d == [c EXCEPT !.pc = "create"]
  <2>1. d \in Call /\ d.pc = "create" /\ d.do = do /\ d.arg = arg
    BY <1>1, <1>2 DEF Call
  <2>2. call' = [call EXCEPT ![t] = d]
    BY <1>4, <1>6 DEF Goto
  <2> HIDE DEF d
  <2>3. call'[t] = d /\ \A u \in Threads \ {t} : call'[u] = call[u]
    BY <2>2 DEF IInv, TypeOK
  <2>4. TypeOK' /\ (\A g \in Features : RowInv(g)') /\ Grows
    BY <1>3, <2>1, <2>2 DEF IInv, TypeOK, RowInv, Stable, Earned, Exists, Grows
  <2>5. ThreadInv(t)'
    BY <2>1, <2>3 DEF ThreadInv
  <2> QED
    BY <2>3, <2>4, <2>5 DEF Kept
<1> QED
  BY <1>5, <1>6

\* evaluate_stability returns, in the verify chain to the clearing of the regression.
LEMMA AfterEvalGoes ==
    ASSUME TypeOK, NEW t \in Threads, AfterEval(t)
    PROVE  \E d \in Call :
              /\ call' = [call EXCEPT ![t] = d]
              /\ d.do = "pass"
              /\ d.pc = "idle" \/ (d.pc = "clear" /\ d.f = call[t].f)
<1> DEFINE d == [Idle EXCEPT !.pc = "clear", !.f = call[t].f]
<1>1. d \in Call /\ d.pc = "clear" /\ d.f = call[t].f /\ d.do = "pass"
  BY IdleIsCall DEF Call, Steps, TypeOK
<1> HIDE DEF Idle, d
<1>2. call' = [call EXCEPT ![t] = d] \/ call' = [call EXCEPT ![t] = Idle]
  BY DEF AfterEval, Goto, Return, d
<1> QED
  BY <1>1, <1>2, IdleIsCall

\* The statements of a call after the first, except for those that read the row.
LEMMA StatementKeeps ==
    ASSUME IInv, NEW t \in Threads,
           \/ Create(t) \/ Insert(t) \/ Rewrite(t) \/ Upsert(t) \/ UpsertWrite(t) \/ GapRead(t)
           \/ GapWrite(t) \/ Pass(t) \/ Fail(t) \/ EvalRow(t) \/ EvalBugs(t) \/ Grant(t)
           \/ Clear(t) \/ MarkChanged(t) \/ MarkRegressionRisk(t)
    PROVE  Kept(t)
<1> DEFINE c == call[t]
<1>0. /\ c \in Call /\ c.f \in Features /\ features[c.f] \in Feature
      /\ ThreadInv(t) /\ RowInv(c.f)
      /\ features \in [Features -> Feature] /\ call \in [Threads -> Call] /\ openBugs \subseteq
         Features
  BY DEF IInv, TypeOK, Call
<1>1. CASE Create(t)
  <2>1. UNCHANGED <<features, openBugs>>
    BY <1>1 DEF Create
  <2>2. TypeOK'
    BY ZenonT(40), <1>0, <1>1, <2>1, IdleIsCall DEF Create, Row, Goto, TypeOK, Call, Steps, Feature
  <2>3. (\A f \in Features : RowInv(f)') /\ Grows
    BY <2>1 DEF IInv, RowInv, Stable, Earned, Exists, Grows
  <2>4. ThreadInv(t)'
    BY <1>0, <1>1, IdleIsCall DEF Create, Row, Goto, ThreadInv, RowInv, Earned, Exists,
       Call,
       Feature, Steps, NoRow
  <2>5. \A u \in Threads \ {t} : call'[u] = call[u]
    BY <1>0, <1>1 DEF Create, Row, Goto
  <2> QED
    BY <2>2, <2>3, <2>4, <2>5 DEF Kept
<1>2. CASE Insert(t)
  <2>1. CASE Exists(c.f)
    <3>1. UNCHANGED <<features, openBugs>> /\ call' = [call EXCEPT ![t] = Idle]
      BY <1>2, <2>1 DEF Insert, Return, Goto
    <3> HIDE DEF Idle
    <3>2. TypeOK'
      BY <1>0, <3>1, IdleIsCall DEF TypeOK
    <3>3. (\A f \in Features : RowInv(f)') /\ Grows
      BY <3>1 DEF IInv, RowInv, Stable, Earned, Exists, Grows
    <3>4. ThreadInv(t)' /\ \A u \in Threads \ {t} : call'[u] = call[u]
      BY <1>0, <3>1, IdleIsCall DEF ThreadInv
    <3> QED
      BY <3>2, <3>3, <3>4 DEF Kept
  <2>2. CASE ~Exists(c.f)
    <3> DEFINE d == [c EXCEPT !.pc = "read"]
               row == NewFeature(FALSE, {}, {})
    <3>1. row \in Feature /\ row.status = "NEW" /\ row.passes = 0 /\ row.earned = 0
      BY DEF NewFeature, Feature, Statuses
    <3>2. d \in Call /\ d.pc = "read" /\ d.f = c.f /\ d.do = c.do /\ d.arg = c.arg
      BY <1>0 DEF Call, Steps
    <3>3. /\ features' = [features EXCEPT ![c.f] = row] /\ openBugs' = openBugs
          /\ call' = [call EXCEPT ![t] = d]
      BY <1>2, <2>2 DEF Insert, Goto, Write
    <3> HIDE DEF d, row
    <3>4. TypeOK'
      BY <1>0, <3>1, <3>2, <3>3 DEF TypeOK
    <3>5. (\A f \in Features : RowInv(f)') /\ Grows
      BY <1>0, <2>2, <3>1, <3>3 DEF IInv, RowInv, Stable, Earned, Exists, Grows
    <3>6. ThreadInv(t)' /\ \A u \in Threads \ {t} : call'[u] = call[u]
      BY <1>0, <3>1, <3>2, <3>3 DEF ThreadInv, Exists, NoRow
    <3> QED
      BY <3>4, <3>5, <3>6 DEF Kept
  <2> QED
    BY <2>1, <2>2
<1>3. CASE Rewrite(t)
  <2>2. TypeOK'
    BY <1>0, <1>3, IdleIsCall DEF Rewrite, Row, Goto, Write, TypeOK, Call, Steps, Feature,
       Statuses
  <2>3. (\A f \in Features : RowInv(f)') /\ Grows
    BY <1>0, <1>3 DEF Rewrite, Row, Goto, Write, IInv, ThreadInv, RowInv, Stable, Earned,
       Exists, Grows, Feature, NoRow
  <2>4. ThreadInv(t)'
    BY <1>0, <1>3, IdleIsCall DEF Rewrite, Row, Goto, Write, ThreadInv, RowInv, Earned,
       Exists,
       Call, Feature, Steps, NoRow
  <2>5. \A u \in Threads \ {t} : call'[u] = call[u]
    BY <1>0, <1>3 DEF Rewrite, Row, Goto, Write
  <2> QED
    BY <2>2, <2>3, <2>4, <2>5 DEF Kept
<1>4. CASE Upsert(t)
  <2>1. UNCHANGED <<features, openBugs>>
    BY <1>4 DEF Upsert
  <2>2. TypeOK'
    BY ZenonT(40), <1>0, <1>4, <2>1, IdleIsCall DEF Upsert, Row, Goto, TypeOK, Call, Steps, Feature
  <2>3. (\A f \in Features : RowInv(f)') /\ Grows
    BY <2>1 DEF IInv, RowInv, Stable, Earned, Exists, Grows
  <2>4. ThreadInv(t)'
    BY <1>0, <1>4, IdleIsCall DEF Upsert, Row, Goto, ThreadInv, RowInv, Earned, Exists,
       Call,
       Feature, Steps, NoRow
  <2>5. \A u \in Threads \ {t} : call'[u] = call[u]
    BY <1>0, <1>4 DEF Upsert, Row, Goto
  <2> QED
    BY <2>2, <2>3, <2>4, <2>5 DEF Kept
<1>5. CASE UpsertWrite(t)
  <2>2. TypeOK'
    BY ZenonT(40), <1>0, <1>5, IdleIsCall DEF UpsertWrite, Row, Goto, Write, TypeOK, Call, Steps,
       Feature,
       Statuses
  <2>3. (\A f \in Features : RowInv(f)') /\ Grows
    BY <1>0, <1>5 DEF UpsertWrite, Row, Goto, Write, IInv, ThreadInv, RowInv, Stable,
       Earned,
       Exists, Grows, Feature, NoRow
  <2>4. ThreadInv(t)'
    BY <1>0, <1>5, IdleIsCall DEF UpsertWrite, Row, Goto, Write, ThreadInv, RowInv, Earned,
       Exists, Call, Feature, Steps, NoRow
  <2>5. \A u \in Threads \ {t} : call'[u] = call[u]
    BY <1>0, <1>5 DEF UpsertWrite, Row, Goto, Write
  <2> QED
    BY <2>2, <2>3, <2>4, <2>5 DEF Kept
<1>6. CASE GapRead(t)
  <2>1. UNCHANGED <<features, openBugs>>
    BY <1>6 DEF GapRead
  <2>2. TypeOK'
    BY ZenonT(40), <1>0, <1>6, <2>1, IdleIsCall DEF GapRead, Row, Goto, TypeOK, Call, Steps, Feature
  <2>3. (\A f \in Features : RowInv(f)') /\ Grows
    BY <2>1 DEF IInv, RowInv, Stable, Earned, Exists, Grows
  <2>4. ThreadInv(t)'
    BY <1>0, <1>6, IdleIsCall DEF GapRead, Row, Goto, ThreadInv, RowInv, Earned, Exists,
       Call,
       Feature, Steps, NoRow
  <2>5. \A u \in Threads \ {t} : call'[u] = call[u]
    BY <1>0, <1>6 DEF GapRead, Row, Goto
  <2> QED
    BY <2>2, <2>3, <2>4, <2>5 DEF Kept
<1>7. CASE GapWrite(t)
  <2>2. TypeOK'
    BY <1>0, <1>7, IdleIsCall DEF GapWrite, Row, Goto, Return, Write, TypeOK, Call, Steps,
       Feature, Statuses
  <2>3. (\A f \in Features : RowInv(f)') /\ Grows
    BY <1>0, <1>7 DEF GapWrite, Row, Goto, Return, Write, IInv, ThreadInv, RowInv, Stable,
       Earned, Exists, Grows, Feature, NoRow
  <2>4. ThreadInv(t)'
    BY <1>0, <1>7, IdleIsCall DEF GapWrite, Row, Goto, Return, Write, ThreadInv, RowInv,
       Earned,
       Exists, Call, Feature, Steps, NoRow
  <2>5. \A u \in Threads \ {t} : call'[u] = call[u]
    BY <1>0, <1>7 DEF GapWrite, Row, Goto, Return, Write
  <2> QED
    BY <2>2, <2>3, <2>4, <2>5 DEF Kept
<1>8. CASE Pass(t)
  <2> DEFINE s == IF c.seen \in {"NEW", "BROKEN", "REGRESSION_RISK"} THEN "COVERED" ELSE c.seen
             old == features[c.f]
             row == [old EXCEPT !.passes = Counted(@), !.earned = Counted(@), !.status = s]
             d == [c EXCEPT !.pc = "evalRow", !.seen = NoRow]
  <2>1. s \in Statuses /\ (s = "STABLE" => Earned(c.f))
    BY <1>0, <1>8 DEF Pass, ThreadInv, Call, Statuses, NoRow
  <2>2. \A i \in 0..MinPasses : Counted(i) \in 0..MinPasses /\ i <= Counted(i)
    BY DEF Counted
  <2>3. \A i, j \in 0..MinPasses : i <= j => Counted(i) <= Counted(j)
    BY DEF Counted
  <2>4. /\ row \in Feature /\ row.status = s /\ row.sources = old.sources
        /\ row.passes = Counted(old.passes) /\ row.earned = Counted(old.earned)
        /\ old.passes \in 0..MinPasses /\ old.earned \in 0..MinPasses
    <3> HIDE DEF s, Counted
    <3> QED
      BY <1>0, <2>1, <2>2 DEF Feature
  <2>5. d \in Call /\ d.pc = "evalRow" /\ d.f = c.f /\ d.do = c.do /\ d.arg = c.arg
    BY <1>0 DEF Call, Steps
  <2>6. /\ features' = [features EXCEPT ![c.f] = row] /\ openBugs' = openBugs
        /\ call' = [call EXCEPT ![t] = d]
    BY <1>8 DEF Pass, Goto, Write, Row
  <2> HIDE DEF d, row, s, old, Counted
  <2>7. TypeOK'
    BY <1>0, <2>4, <2>5, <2>6 DEF TypeOK
  <2>8. Exists(c.f) /\ old.passes <= old.earned /\ old = features[c.f]
    BY <1>0, <1>8 DEF Pass, ThreadInv, RowInv, old
  <2>9. row.passes <= row.earned /\ (Earned(c.f) => row.sources /\ row.earned = MinPasses)
    BY <2>2, <2>3, <2>4, <2>8 DEF Earned
  <2>10. s # NoRow
    BY <2>1 DEF Statuses, NoRow
  <2>11. (\A f \in Features : RowInv(f)') /\ Grows
    BY <1>0, <2>1, <2>4, <2>6, <2>9, <2>10 DEF IInv, RowInv, Stable, Earned, Exists, Grows
  <2>12. ThreadInv(t)' /\ \A u \in Threads \ {t} : call'[u] = call[u]
    BY <1>0, <2>4, <2>5, <2>6, <2>10 DEF ThreadInv, Exists
  <2> QED
    BY <2>7, <2>11, <2>12 DEF Kept
<1>9. CASE Fail(t)
  <2> DEFINE old == features[c.f]
             row == [old EXCEPT !.status = "BROKEN", !.passes = 0]
  <2>1. /\ row \in Feature /\ row.status = "BROKEN" /\ row.sources = old.sources
        /\ row.passes = 0 /\ row.earned = old.earned /\ old.earned \in 0..MinPasses
    <3>1. old \in Feature /\ 0 \in 0..MinPasses
      BY <1>0
    <3>2. row \in Feature
      BY <3>1 DEF Feature, Statuses
    <3> QED
      BY <3>1, <3>2 DEF Feature
  <2>2. /\ features' = [features EXCEPT ![c.f] = row] /\ openBugs' = openBugs
        /\ call' = [call EXCEPT ![t] = Idle]
    BY <1>9 DEF Fail, Goto, Return, Write, Row
  <2> HIDE DEF row, Idle
  <2>3. TypeOK'
    BY <1>0, <2>1, <2>2, IdleIsCall DEF TypeOK
  <2>4. (\A f \in Features : RowInv(f)') /\ Grows
    BY <1>0, <2>1, <2>2 DEF IInv, RowInv, Stable, Earned, Exists, Grows, NoRow
  <2>5. ThreadInv(t)' /\ \A u \in Threads \ {t} : call'[u] = call[u]
    BY <1>0, <2>2, IdleIsCall DEF ThreadInv
  <2> QED
    BY <2>3, <2>4, <2>5 DEF Kept
<1>10. CASE EvalRow(t)
  <2> DEFINE d == [c EXCEPT !.pc = "evalBugs", !.flag = RowGrants(features[c.f])]
  <2>1. d \in Call /\ d.pc = "evalBugs" /\ d.f = c.f /\ d.do = c.do /\ d.arg = c.arg
    BY <1>0 DEF Call, Steps, RowGrants
  <2>2. UNCHANGED <<features, openBugs>>
    BY <1>10 DEF EvalRow
  <2>3. (call' = [call EXCEPT ![t] = d] /\ d.flag = RowGrants(features[c.f])) \/ AfterEval(t)
    BY <1>10 DEF EvalRow, Goto, Row
  <2> HIDE DEF d
  <2>4. (\A f \in Features : RowInv(f)') /\ Grows
    BY <2>2 DEF IInv, RowInv, Stable, Earned, Exists, Grows
  <2>5. Exists(c.f)
    BY <1>0, <1>10 DEF EvalRow, ThreadInv
  <2>6. CASE call' = [call EXCEPT ![t] = d] /\ d.flag = RowGrants(features[c.f])
    <3>1. TypeOK'
      BY <1>0, <2>1, <2>2, <2>6 DEF TypeOK
    <3>2. call'[t] = d /\ \A u \in Threads \ {t} : call'[u] = call[u]
      BY <1>0, <2>6
    <3>3. d.flag => Earned(c.f)
      <4>1. /\ features[c.f].passes \in 0..MinPasses /\ features[c.f].earned \in 0..MinPasses
            /\ features[c.f].passes <= features[c.f].earned
        BY <1>0 DEF Feature, RowInv
      <4>2. RowGrants(features[c.f]) => features[c.f].sources /\ features[c.f].passes >=
         MinPasses
        BY DEF RowGrants
      <4> HIDE DEF RowGrants
      <4>3. d.flag => RowGrants(features[c.f])
        BY <2>6
      <4> QED
        BY <4>1, <4>2, <4>3 DEF Earned
    <3>4. ThreadInv(t)'
      BY <1>0, <2>1, <2>2, <2>5, <3>2, <3>3 DEF ThreadInv, Exists, Earned
    <3> QED
      BY <2>4, <3>1, <3>2, <3>4 DEF Kept
  <2>7. CASE AfterEval(t)
    <3>1. PICK e \in Call : /\ call' = [call EXCEPT ![t] = e]
                            /\ e.do = "pass"
                            /\ e.pc = "idle" \/ (e.pc = "clear" /\ e.f = c.f)
      BY <2>7, AfterEvalGoes DEF IInv
    <3>2. TypeOK'
      BY <1>0, <2>2, <3>1 DEF TypeOK
    <3>3. call'[t] = e /\ \A u \in Threads \ {t} : call'[u] = call[u]
      BY <1>0, <3>1
    <3>4. ThreadInv(t)'
      BY <2>2, <2>5, <3>1, <3>3 DEF ThreadInv, Exists
    <3> QED
      BY <2>4, <3>2, <3>3, <3>4 DEF Kept
  <2> QED
    BY <2>3, <2>6, <2>7
<1>11. CASE EvalBugs(t)
  <2> DEFINE d == [c EXCEPT !.pc = "grant"]
  <2>1. d \in Call /\ d.pc = "grant" /\ d.f = c.f /\ d.do = c.do /\ d.arg = c.arg
    BY <1>0 DEF Call, Steps
  <2>2. UNCHANGED <<features, openBugs>>
    BY <1>11 DEF EvalBugs
  <2>3. (call' = [call EXCEPT ![t] = d] /\ c.flag) \/ AfterEval(t)
    BY <1>11 DEF EvalBugs, Goto, Row
  <2> HIDE DEF d
  <2>4. (\A f \in Features : RowInv(f)') /\ Grows
    BY <2>2 DEF IInv, RowInv, Stable, Earned, Exists, Grows
  <2>5. Exists(c.f)
    BY <1>0, <1>11 DEF EvalBugs, ThreadInv
  <2>6. CASE call' = [call EXCEPT ![t] = d] /\ c.flag
    <3>1. TypeOK'
      BY <1>0, <2>1, <2>2, <2>6 DEF TypeOK
    <3>2. call'[t] = d /\ \A u \in Threads \ {t} : call'[u] = call[u]
      BY <1>0, <2>6
    <3>3. Earned(c.f)
      BY <1>0, <1>11, <2>6 DEF EvalBugs, ThreadInv
    <3>4. ThreadInv(t)'
      BY <1>0, <2>1, <2>2, <2>5, <3>2, <3>3 DEF ThreadInv, Exists, Earned
    <3> QED
      BY <2>4, <3>1, <3>2, <3>4 DEF Kept
  <2>7. CASE AfterEval(t)
    <3>1. PICK e \in Call : /\ call' = [call EXCEPT ![t] = e]
                            /\ e.do = "pass"
                            /\ e.pc = "idle" \/ (e.pc = "clear" /\ e.f = c.f)
      BY <2>7, AfterEvalGoes DEF IInv
    <3>2. TypeOK'
      BY <1>0, <2>2, <3>1 DEF TypeOK
    <3>3. call'[t] = e /\ \A u \in Threads \ {t} : call'[u] = call[u]
      BY <1>0, <3>1
    <3>4. ThreadInv(t)'
      BY <2>2, <2>5, <3>1, <3>3 DEF ThreadInv, Exists
    <3> QED
      BY <2>4, <3>2, <3>3, <3>4 DEF Kept
  <2> QED
    BY <2>3, <2>6, <2>7
<1>12. CASE Grant(t)
  <2> DEFINE old == features[c.f]
             row == [old EXCEPT !.status = "STABLE"]
  <2>1. /\ row \in Feature /\ row.status = "STABLE" /\ row.sources = old.sources
        /\ row.passes = old.passes /\ row.earned = old.earned
    BY <1>0 DEF Feature, Statuses
  <2>2. features' = [features EXCEPT ![c.f] = row] /\ openBugs' = openBugs /\ AfterEval(t)
    BY <1>12 DEF Grant, Write, Row
  <2> HIDE DEF row
  <2>3. PICK e \in Call : /\ call' = [call EXCEPT ![t] = e]
                          /\ e.do = "pass"
                          /\ e.pc = "idle" \/ (e.pc = "clear" /\ e.f = c.f)
    BY <2>2, AfterEvalGoes DEF IInv
  <2>4. TypeOK'
    BY <1>0, <2>1, <2>2, <2>3 DEF TypeOK
  <2>5. Earned(c.f)
    BY <1>0, <1>12 DEF Grant, ThreadInv
  <2>6. (\A f \in Features : RowInv(f)') /\ Grows
    BY <1>0, <2>1, <2>2, <2>5 DEF IInv, RowInv, Stable, Earned, Exists, Grows, NoRow
  <2>7. call'[t] = e /\ \A u \in Threads \ {t} : call'[u] = call[u]
    BY <1>0, <2>3
  <2>8. ThreadInv(t)'
    BY <1>0, <2>1, <2>2, <2>3, <2>7 DEF ThreadInv, Exists, NoRow
  <2> QED
    BY <2>4, <2>6, <2>7, <2>8 DEF Kept
<1>13. CASE Clear(t)
  <2>2. TypeOK'
    BY <1>0, <1>13, IdleIsCall DEF Clear, Row, Goto, Write, TypeOK, Call, Steps, Feature,
       Statuses
  <2>3. (\A f \in Features : RowInv(f)') /\ Grows
    BY <1>0, <1>13 DEF Clear, Row, Goto, Write, IInv, ThreadInv, RowInv, Stable, Earned,
       Exists,
       Grows, Feature, NoRow
  <2>4. ThreadInv(t)'
    BY <1>0, <1>13, IdleIsCall DEF Clear, Row, Goto, Write, ThreadInv, RowInv, Earned,
       Exists,
       Call, Feature, Steps, NoRow
  <2>5. \A u \in Threads \ {t} : call'[u] = call[u]
    BY <1>0, <1>13 DEF Clear, Row, Goto, Write
  <2> QED
    BY <2>2, <2>3, <2>4, <2>5 DEF Kept
<1>14. CASE MarkChanged(t)
  <2> DEFINE old == features[c.f]
             row == [old EXCEPT !.status = "CHANGED", !.needs = TRUE, !.passes = 0]
  <2>1. /\ row \in Feature /\ row.status = "CHANGED" /\ row.sources = old.sources
        /\ row.passes = 0 /\ row.earned = old.earned /\ old.earned \in 0..MinPasses
    <3>1. old \in Feature /\ 0 \in 0..MinPasses
      BY <1>0
    <3>2. row \in Feature
      BY <3>1 DEF Feature, Statuses
    <3> QED
      BY <3>1, <3>2 DEF Feature
  <2>2. /\ features' = [features EXCEPT ![c.f] = row] /\ openBugs' = openBugs
        /\ call' = [call EXCEPT ![t] = Idle]
    BY <1>14 DEF MarkChanged, Goto, Return, Write, Row
  <2> HIDE DEF row, Idle
  <2>3. TypeOK'
    BY <1>0, <2>1, <2>2, IdleIsCall DEF TypeOK
  <2>4. (\A f \in Features : RowInv(f)') /\ Grows
    BY <1>0, <2>1, <2>2 DEF IInv, RowInv, Stable, Earned, Exists, Grows, NoRow
  <2>5. ThreadInv(t)' /\ \A u \in Threads \ {t} : call'[u] = call[u]
    BY <1>0, <2>2, IdleIsCall DEF ThreadInv
  <2> QED
    BY <2>3, <2>4, <2>5 DEF Kept
<1>15. CASE MarkRegressionRisk(t)
  <2>2. TypeOK'
    BY <1>0, <1>15, IdleIsCall DEF MarkRegressionRisk, Row, Goto, Return, Write, TypeOK,
       Call,
       Steps, Feature, Statuses
  <2>3. (\A f \in Features : RowInv(f)') /\ Grows
    BY <1>0, <1>15 DEF MarkRegressionRisk, Row, Goto, Return, Write, IInv, ThreadInv,
       RowInv,
       Stable, Earned, Exists, Grows, Feature, NoRow
  <2>4. ThreadInv(t)'
    BY <1>0, <1>15, IdleIsCall DEF MarkRegressionRisk, Row, Goto, Return, Write, ThreadInv,
       RowInv, Earned, Exists, Call, Feature, Steps, NoRow
  <2>5. \A u \in Threads \ {t} : call'[u] = call[u]
    BY <1>0, <1>15 DEF MarkRegressionRisk, Row, Goto, Return, Write
  <2> QED
    BY <2>2, <2>3, <2>4, <2>5 DEF Kept
<1> QED
  BY <1>1, <1>2, <1>3, <1>4, <1>5, <1>6, <1>7, <1>8, <1>9, <1>10, <1>11, <1>12, <1>13,
     <1>14,
     <1>15

\* Every step keeps the invariant.
LEMMA StepKeeps == IInv /\ [Next]_vars => IInv'
<1> SUFFICES ASSUME IInv, [Next]_vars PROVE IInv'
  OBVIOUS
<1>1. ASSUME NEW t \in Threads, Kept(t) PROVE IInv'
  <2>1. \A u \in Threads \ {t} : ThreadInv(u)'
    BY <1>1, OthersKeep DEF IInv, Kept
  <2> QED
    BY <1>1, <2>1 DEF IInv, Kept
<1>2. ASSUME UNCHANGED <<features, call>>, openBugs' \subseteq Features PROVE IInv'
  BY <1>2 DEF IInv, TypeOK, RowInv, ThreadInv, Stable, Earned, Exists
<1>3. CASE UNCHANGED vars
  BY <1>2, <1>3 DEF vars, IInv, TypeOK
<1>4. ASSUME NEW f \in Features, BugReported(f) \/ BugsClosed(f) PROVE IInv'
  BY <1>2, <1>4 DEF BugReported, BugsClosed, IInv, TypeOK
<1>5. ASSUME NEW t \in Threads, NEW f \in Features,
             \/ \E test \in Tests : VerifyChain(t, f, test)
             \/ \E tag \in Tags : DeclareBehavior(t, f, tag)
             \/ RecordPass(t, f) \/ RecordFail(t, f) \/ MarkChangedRead(t, f) \/ RiskRead(t, f)
      PROVE  IInv'
  <2>1. Idle.arg \in Tests \cup Tags
    BY IdleIsCall DEF Call
  <2>2. Kept(t)
    BY <1>5, <2>1, BeginKeeps DEF VerifyChain, DeclareBehavior, RecordPass, RecordFail,
       MarkChangedRead, RiskRead
  <2> QED
    BY <1>1, <2>2
<1>6. ASSUME NEW t \in Threads, ReadRow(t) PROVE IInv'
  <2>1. call[t] \in Call /\ ThreadInv(t)
    BY DEF IInv, TypeOK
  <2>2. Kept(t)
    BY <1>6, <2>1, ReadKeeps DEF ReadRow, ThreadInv
  <2> QED
    BY <1>1, <2>2
<1>7. ASSUME NEW t \in Threads,
             \/ Create(t) \/ Insert(t) \/ Rewrite(t) \/ Upsert(t) \/ UpsertWrite(t) \/
                GapRead(t)
             \/ GapWrite(t) \/ Pass(t) \/ Fail(t) \/ EvalRow(t) \/ EvalBugs(t) \/ Grant(t)
             \/ Clear(t) \/ MarkChanged(t) \/ MarkRegressionRisk(t)
      PROVE  IInv'
  BY <1>1, <1>7, StatementKeeps
<1> QED
  BY <1>3, <1>4, <1>5, <1>6, <1>7 DEF Next

\* IInv is invariant.
LEMMA Invariant == Spec => []IInv
  BY Begins, StepKeeps, PTL DEF Spec

\* Types of the table and of what threads hold.
THEOREM TypeCorrect == Spec => []TypeOK
  BY Invariant, PTL DEF IInv

\* evaluate_stability and record_result write STABLE by key alone, long after they
\* looked; still each STABLE feature has its source paths and its PASSes.
THEOREM StableEarned == Spec => []StableWasEarned
<1>1. IInv => StableWasEarned
  BY DEF IInv, RowInv, Earned, StableWasEarned
<1> QED
  BY <1>1, Invariant, PTL

-----------------------------------------------------------------------------
(* One operation at a time                                                 *)

Whole(f) ==
    Stable(f) => features[f].passes = MinPasses /\ ~features[f].needs

GapKnown(f) ==
    Missing(features[f].tags, features[f].tests) # {} => features[f].gap

\* What an operation has read is still so when it writes.
Midway(t) ==
    LET c == call[t]  row == features[c.f] IN
    /\ c.pc = "pass" => c.seen = row.status
    /\ c.pc = "grant" \/ (c.pc = "evalBugs" /\ c.flag) => RowGrants(row)
    /\ c.pc = "rewrite" => c.tests = row.tests /\ c.tags = row.tags
    /\ c.pc \in {"upsert", "upsertWrite"} => c.do \in {"verify", "declare"}
    /\ c.pc \in {"upsert", "upsertWrite"} /\ c.do = "verify" => row.tests \subseteq c.tests
    /\ c.pc \in {"upsert", "upsertWrite"} /\ c.do = "declare" => row.tags \subseteq c.tags
    /\ c.pc = "upsertWrite" =>
           IF c.do = "verify" THEN c.tags = row.tags ELSE c.tests = row.tests
    /\ c.pc \in {"evalRow", "clear"} => row.status \in {"COVERED", "CHANGED", "STABLE"}
    /\ c.pc \in {"evalBugs", "grant"} => row.status \in {"COVERED", "CHANGED"}
    /\ c.pc \in {"change", "risk"} => row.status # "BROKEN"
    /\ c.pc = "risk" => row.status # "CHANGED"
    /\ c.pc = "gapWrite" => c.flag = (Missing(row.tags, row.tests) # {})

\* The coverage gap of f is being computed.
Computing(c, f) == c.f = f /\ c.pc \in {"gapRead", "gapWrite"}

SerialInv ==
    /\ declared \subseteq Features
    /\ ~overlap =>
        /\ \A t, u \in Busy : t = u
        /\ \A f \in Features : Whole(f)
        /\ \A t \in Busy : Midway(t)
        /\ \A f \in declared : (\A t \in Busy : ~Computing(call[t], f)) => GapKnown(f)

\* Nothing is detached from f.
StaysAttached(f) ==
    Exists(f) => /\ features[f].tests \subseteq features'[f].tests
                 /\ features[f].tags \subseteq features'[f].tags

\* The row of f makes a move of the documented lifecycle, or none.
MovesOn(f) ==
    LET old == features[f]  new == features'[f] IN
    \/ new.status = old.status /\ new.passes = old.passes
    \/ old.status = NoRow /\ new.status = "NEW" /\ new.passes = 0
    \/ /\ old.status \in {"NEW", "BROKEN", "REGRESSION_RISK"} /\ new.status = "COVERED"
       /\ new.passes = Counted(old.passes)
    \/ /\ old.status \in {"COVERED", "CHANGED", "STABLE"} /\ new.status = old.status
       /\ new.passes = Counted(old.passes)
    \/ /\ old.status \in {"COVERED", "CHANGED"} /\ new.status = "STABLE"
       /\ old.passes = MinPasses /\ new.passes = MinPasses
    \/ old.status # NoRow /\ new.status = "BROKEN" /\ new.passes = 0
    \/ old.status \notin {NoRow, "BROKEN"} /\ new.status = "CHANGED" /\ new.passes = 0
    \/ /\ old.status \notin {NoRow, "BROKEN", "CHANGED"} /\ new.status = "REGRESSION_RISK"
       /\ new.passes = old.passes

\* What a step does to the rows while no operations have overlapped.
StepIsRight ==
    /\ \A f \in declared : GrantWithoutGap(f)
    /\ \A f \in Features : StaysAttached(f)
    /\ Lifecycle!LifecycleNext \/ UNCHANGED <<statuses, streaks>>

\* A move of one row is a move of the lifecycle.
LEMMA MoveIsLifecycle ==
    ASSUME TypeOK, TypeOK', NEW f \in Features, MovesOn(f),
           \A g \in Features \ {f} : features'[g] = features[g]
    PROVE  Lifecycle!LifecycleNext \/ UNCHANGED <<statuses, streaks>>
<1> DEFINE old == features[f]
           new == features'[f]
<1>1. /\ statuses' = [statuses EXCEPT ![f] = new.status]
      /\ streaks' = [streaks EXCEPT ![f] = new.passes]
      /\ statuses[f] = old.status /\ streaks[f] = old.passes
  BY DEF statuses, streaks
<1>2. /\ new.status = old.status => statuses' = statuses
      /\ new.passes = old.passes => streaks' = streaks
  BY DEF statuses, streaks
<1>3. old.status \in Lifecycle!Statuses \cup {Lifecycle!NoRow}
  BY DEF TypeOK, Feature, Statuses, NoRow
<1>4. ASSUME NEW from, old.status \in from
      PROVE  Lifecycle!Move(f, from, new.status, new.passes)
  BY <1>1, <1>4 DEF Lifecycle!Move
<1>5. Lifecycle!Longer(streaks[f]) = Counted(old.passes)
  BY <1>1 DEF Lifecycle!Longer, Counted
<1> HIDE DEF old, new
<1>6. \/ new.status = old.status /\ new.passes = old.passes
      \/ Lifecycle!Register(f)
      \/ Lifecycle!FirstPass(f)
      \/ Lifecycle!NextPass(f)
      \/ Lifecycle!Promote(f)
      \/ Lifecycle!RecordFail(f)
      \/ Lifecycle!TouchSource(f)
      \/ Lifecycle!Endanger(f)
  <2> USE <1>1, <1>3, <1>4, <1>5 DEF NoRow, Lifecycle!Register, Lifecycle!FirstPass, Lifecycle!NextPass,
          Lifecycle!Promote, Lifecycle!RecordFail, Lifecycle!TouchSource, Lifecycle!Endanger
  <2>1. MovesOn(f)
    OBVIOUS
  <2> QED
    BY <2>1 DEF MovesOn, old, new
<1> QED
  BY <1>2, <1>6 DEF Lifecycle!LifecycleNext

\* A thread at work on f leaves f whole, is right about it, and knows its
\* coverage gap if it was known or has just been computed.
Onward(t, f) ==
    /\ call[t].pc # "idle" /\ call[t].f = f
    /\ call'[t].pc # "idle" => call'[t].f = f
    /\ \A g \in Features \ {f} : features'[g] = features[g]
    /\ Whole(f)'
    /\ call'[t].pc # "idle" => Midway(t)'
    /\ call[t].pc = "gapWrite" \/ f \in declared =>
           Computing(call'[t], f) \/ GapKnown(f)'
    /\ f \in declared /\ ~Stable(f) /\ Stable(f)' =>
           Missing(features[f].tags, features[f].tests) = {}

\* What an operation writes to the row it works on is right.
LEMMA StatementIsRight ==
    ASSUME IInv, NEW t \in Threads, NEW f \in Features, call[t].f = f, Whole(f), Midway(t),
           f \in declared /\ ~Computing(call[t], f) => GapKnown(f),
           \/ Create(t) \/ Insert(t) \/ Rewrite(t) \/ Upsert(t) \/ UpsertWrite(t) \/ GapRead(t)
           \/ GapWrite(t) \/ Pass(t) \/ Fail(t) \/ EvalRow(t) \/ EvalBugs(t) \/ Grant(t)
           \/ Clear(t) \/ MarkChanged(t) \/ MarkRegressionRisk(t)
    PROVE  Onward(t, f)
<1>0. /\ call[t] \in Call /\ features[f] \in Feature /\ ThreadInv(t)
      /\ features \in [Features -> Feature] /\ call \in [Threads -> Call]
  BY DEF IInv, TypeOK, Call
<1>16. AfterEval(t) => call'[t].pc = "idle" \/ (call'[t].pc = "clear" /\ call'[t].f = f)
  BY <1>0, AfterEvalGoes DEF IInv
<1> USE <1>0 DEF Onward, Whole, Midway, GapKnown, Computing, Stable, RowGrants, Row, Goto,
        Return, Write, Exists, Call, Feature
<1>1. CASE Create(t)
  BY <1>1, IdleIsCall DEF Create
<1>2. CASE Insert(t)
  BY <1>2, IdleIsCall DEF Insert, NewFeature, Missing
<1>3. CASE Rewrite(t)
  BY <1>3 DEF Rewrite
<1>4. CASE Upsert(t)
  BY <1>4 DEF Upsert
<1>5. CASE UpsertWrite(t)
  BY <1>5 DEF UpsertWrite, Missing
<1>6. CASE GapRead(t)
  BY <1>6 DEF GapRead
<1>7. CASE GapWrite(t)
  BY <1>7, IdleIsCall DEF GapWrite
<1>8. CASE Pass(t)
  <2> DEFINE s == IF call[t].seen \in {"NEW", "BROKEN", "REGRESSION_RISK"} THEN "COVERED"
                  ELSE call[t].seen
  <2>1. s \in {"COVERED", "CHANGED", "STABLE"}
    BY <1>8 DEF Pass, ThreadInv, Statuses, NoRow
  <2>2. /\ features' = [features EXCEPT ![f] = [features[f] EXCEPT
                           !.passes = Counted(@), !.earned = Counted(@), !.status = s]]
        /\ call' = [call EXCEPT ![t] = [call[t] EXCEPT !.pc = "evalRow", !.seen = NoRow]]
        /\ call[t].pc = "pass" /\ (call[t].seen = "STABLE" => s = "STABLE")
        /\ s = "STABLE" => call[t].seen = "STABLE"
    BY <1>8 DEF Pass
  <2> HIDE DEF s
  <2> QED
    BY <2>1, <2>2 DEF Counted
<1>9. CASE Fail(t)
  BY <1>9, IdleIsCall DEF Fail
<1>10. CASE EvalRow(t)
  <2>1. UNCHANGED features
    BY <1>10 DEF EvalRow
  <2>2. CASE AfterEval(t)
    BY <1>10, <1>16, <2>1, <2>2 DEF EvalRow
  <2>3. CASE call' = [call EXCEPT ![t] = [call[t] EXCEPT !.pc = "evalBugs", !.flag = RowGrants(Row(t))]]
    <3> HIDE DEF RowGrants
    <3>1. call'[t].pc = "evalBugs" /\ call'[t].f = f /\ call'[t].flag = RowGrants(features[f])
      BY <2>3
    <3>2. call'[t].flag => RowGrants(features'[f])
      BY <2>1, <3>1
    <3>3. features'[f].status \in {"COVERED", "CHANGED"} /\ call[t].pc = "evalRow"
      <4>1. Row(t).status # "STABLE"
        BY <1>10, <2>3, <3>1, <1>16, IdleIsCall DEF EvalRow
      <4> QED
        BY <1>10, <2>1, <4>1 DEF EvalRow
    <3> QED
      BY <2>1, <3>1, <3>2, <3>3
  <2> QED
    BY <1>10, <2>2, <2>3 DEF EvalRow
<1>11. CASE EvalBugs(t)
  BY <1>11, <1>16 DEF EvalBugs
<1>12. CASE Grant(t)
  <2> DEFINE row == [features[f] EXCEPT !.status = "STABLE"]
  <2>1. features' = [features EXCEPT ![f] = row] /\ AfterEval(t) /\ call[t].pc = "grant"
    BY <1>12 DEF Grant
  <2>2. /\ row.passes = MinPasses /\ ~row.needs /\ row.gap = features[f].gap
        /\ row.status = "STABLE"
        /\ row.tags = features[f].tags /\ row.tests = features[f].tests
        /\ ~features[f].gap
    <3>1. /\ features[f].passes >= MinPasses /\ features[f].passes \in 0..MinPasses
          /\ ~features[f].gap /\ ~features[f].needs
      BY <2>1
    <3>2. features[f].passes = MinPasses
      <4>1. \A i \in 0..MinPasses : i >= MinPasses => i = MinPasses
        OBVIOUS
      <4> QED
        BY <3>1, <4>1, Zenon
    <3>3. /\ row.passes = features[f].passes /\ row.needs = features[f].needs
          /\ row.gap = features[f].gap /\ row.status = "STABLE"
          /\ row.tags = features[f].tags /\ row.tests = features[f].tests
      OBVIOUS
    <3> HIDE DEF row
    <3> QED
      BY <3>1, <3>2, <3>3
  <2> HIDE DEF row
  <2>3. features'[f] = row /\ \A g \in Features \ {f} : features'[g] = features[g]
    BY <2>1
  <2> QED
    BY <1>16, <2>1, <2>2, <2>3
<1>13. CASE Clear(t)
  BY <1>13, IdleIsCall DEF Clear
<1>14. CASE MarkChanged(t)
  BY <1>14, IdleIsCall DEF MarkChanged
<1>15. CASE MarkRegressionRisk(t)
  BY <1>15, IdleIsCall DEF MarkRegressionRisk
<1> QED
  BY <1>1, <1>2, <1>3, <1>4, <1>5, <1>6, <1>7, <1>8, <1>9, <1>10, <1>11, <1>12, <1>13,
     <1>14, <1>15

\* It attaches or moves it as the header says.
LEMMA StatementMoves ==
    ASSUME IInv, NEW t \in Threads, NEW f \in Features, call[t].f = f, Midway(t),
           \/ Create(t) \/ Insert(t) \/ Rewrite(t) \/ Upsert(t) \/ UpsertWrite(t) \/ GapRead(t)
           \/ GapWrite(t) \/ Pass(t) \/ Fail(t) \/ EvalRow(t) \/ EvalBugs(t) \/ Grant(t)
           \/ Clear(t) \/ MarkChanged(t) \/ MarkRegressionRisk(t)
    PROVE  StaysAttached(f) /\ MovesOn(f)
<1> DEFINE old == features[f]
           new == features'[f]
<1>0. /\ old \in Feature /\ features \in [Features -> Feature] /\ ThreadInv(t)
  BY DEF IInv, TypeOK
<1>1. ASSUME UNCHANGED features PROVE StaysAttached(f) /\ MovesOn(f)
  BY <1>1 DEF StaysAttached, MovesOn
<1>2. ASSUME new.tests = old.tests, new.tags = old.tags PROVE StaysAttached(f)
  BY <1>2 DEF StaysAttached
<1>3. CASE Create(t) \/ Upsert(t) \/ GapRead(t) \/ EvalRow(t) \/ EvalBugs(t)
  BY <1>1, <1>3 DEF Create, Upsert, GapRead, EvalRow, EvalBugs
<1>4. CASE Insert(t)
  <2>1. CASE Exists(f)
    BY <1>1, <1>4, <2>1 DEF Insert
  <2>2. CASE ~Exists(f)
    <3>1. new = NewFeature(FALSE, {}, {}) /\ old.status = NoRow
      BY <1>0, <1>4, <2>2 DEF Insert, Write, Exists
    <3>2. new.status = "NEW" /\ new.passes = 0
      BY <3>1 DEF NewFeature
    <3> QED
      BY <2>2, <3>1, <3>2 DEF StaysAttached, MovesOn
  <2> QED
    BY <2>1, <2>2
<1>5. CASE Rewrite(t) \/ UpsertWrite(t)
  <2>1. new = [old EXCEPT !.tests = call[t].tests, !.tags = call[t].tags]
    BY <1>0, <1>5 DEF Rewrite, UpsertWrite, Write, Row
  <2>2. new.tests = call[t].tests /\ new.tags = call[t].tags /\ new.status = old.status
        /\ new.passes = old.passes
    BY <1>0, <2>1 DEF Feature
  <2>3. old.tests \subseteq call[t].tests /\ old.tags \subseteq call[t].tags
    BY <1>5 DEF Rewrite, UpsertWrite, Midway
  <2> HIDE DEF old, new
  <2> QED
    BY <2>2, <2>3 DEF StaysAttached, MovesOn, old, new
<1>6. CASE GapWrite(t) \/ Clear(t)
  <2>1. new = [old EXCEPT !.gap = call[t].flag] \/ new = [old EXCEPT !.needs = FALSE]
    BY <1>0, <1>6 DEF GapWrite, Clear, Write, Row
  <2>2. /\ new.tests = old.tests /\ new.tags = old.tags
        /\ new.status = old.status /\ new.passes = old.passes
    BY <1>0, <2>1 DEF Feature
  <2> QED
    BY <1>2, <2>2 DEF MovesOn
<1>7. CASE Pass(t)
  <2> DEFINE s == IF call[t].seen \in {"NEW", "BROKEN", "REGRESSION_RISK"} THEN "COVERED"
                  ELSE call[t].seen
  <2>1. new = [old EXCEPT !.passes = Counted(@), !.earned = Counted(@), !.status = s]
    BY <1>0, <1>7 DEF Pass, Write, Row
  <2>2. /\ new.tests = old.tests /\ new.tags = old.tags
        /\ new.status = s /\ new.passes = Counted(old.passes)
    BY <1>0, <2>1 DEF Feature
  <2>3. call[t].seen = old.status /\ old.status # NoRow
    BY <1>0, <1>7 DEF Pass, Midway, ThreadInv
  <2>4. old.status \in Statuses
    BY <1>0, <2>3 DEF Feature
  <2> HIDE DEF old, new
  <2> QED
    BY <1>2, <2>2, <2>3, <2>4 DEF MovesOn, Statuses, old, new
<1>8. CASE Fail(t)
  <2>1. new = [old EXCEPT !.status = "BROKEN", !.passes = 0]
    BY <1>0, <1>8 DEF Fail, Write, Row
  <2>2. /\ new.tests = old.tests /\ new.tags = old.tags
        /\ new.status = "BROKEN" /\ new.passes = 0
    BY <1>0, <2>1 DEF Feature
  <2>3. old.status # NoRow
    BY <1>0, <1>8 DEF Fail, ThreadInv, Exists
  <2> QED
    BY <1>2, <2>2, <2>3 DEF MovesOn
<1>9. CASE Grant(t)
  <2>1. new = [old EXCEPT !.status = "STABLE"]
    BY <1>0, <1>9 DEF Grant, Write, Row
  <2>2. /\ new.tests = old.tests /\ new.tags = old.tags
        /\ new.status = "STABLE" /\ new.passes = old.passes
    BY <1>0, <2>1 DEF Feature
  <2>3. old.status \in {"COVERED", "CHANGED"} /\ RowGrants(old)
    BY <1>9 DEF Grant, Midway
  <2>4. old.passes >= MinPasses /\ old.passes \in 0..MinPasses
    BY <1>0, <2>3 DEF RowGrants, Feature
  <2>5. old.passes = MinPasses
    <3>1. \A i \in 0..MinPasses : i >= MinPasses => i = MinPasses
      OBVIOUS
    <3> QED
      BY <2>4, <3>1, Zenon
  <2> QED
    BY <1>2, <2>2, <2>3, <2>5 DEF MovesOn
<1>10. CASE MarkChanged(t)
  <2>1. new = [old EXCEPT !.status = "CHANGED", !.needs = TRUE, !.passes = 0]
    BY <1>0, <1>10 DEF MarkChanged, Write, Row
  <2>2. /\ new.tests = old.tests /\ new.tags = old.tags
        /\ new.status = "CHANGED" /\ new.passes = 0
    BY <1>0, <2>1 DEF Feature
  <2>3. old.status # NoRow /\ old.status # "BROKEN"
    BY <1>0, <1>10 DEF MarkChanged, Midway, ThreadInv, Exists
  <2> QED
    BY <1>2, <2>2, <2>3 DEF MovesOn
<1>11. CASE MarkRegressionRisk(t)
  <2>1. new = [old EXCEPT !.status = "REGRESSION_RISK"]
    BY <1>0, <1>11 DEF MarkRegressionRisk, Write, Row
  <2>2. /\ new.tests = old.tests /\ new.tags = old.tags
        /\ new.status = "REGRESSION_RISK" /\ new.passes = old.passes
    BY <1>0, <2>1 DEF Feature
  <2>3. old.status # NoRow /\ old.status # "BROKEN" /\ old.status # "CHANGED"
    BY <1>0, <1>11 DEF MarkRegressionRisk, Midway, ThreadInv, Exists
  <2> QED
    BY <1>2, <2>2, <2>3 DEF MovesOn
<1> QED
  BY <1>3, <1>4, <1>5, <1>6, <1>7, <1>8, <1>9, <1>10, <1>11

\* A call that has read its row is right about it.
LEMMA ReadIsRight ==
    ASSUME TypeOK, NEW t \in Threads, NEW c \in Call, Read(t, c), UNCHANGED features,
           c.do = "verify" => c.arg \in Tests, c.do = "declare" => c.arg \in Tags
    PROVE  call'[t].pc # "idle" =>
               call'[t].f = c.f /\ Midway(t)' /\ call'[t].pc # "gapWrite"
<1>1. PICK d \in Call :
        /\ call' = [call EXCEPT ![t] = d]
        /\ d = Idle \/ (/\ d.f = c.f
                        /\ d.arg = c.arg /\ d.do \in {c.do, "clear"}
                        /\ d.pc \in {"read", "upsert", "gapRead", "pass", "fail", "risk",
                           "change"}
                        /\ d.pc = "pass" => d.seen = features[c.f].status
                        /\ d.pc = "upsert" => d.do \in {"verify", "declare"}
                        /\ d.pc = "upsert" /\ d.do = "verify" =>
                               features[c.f].tests \subseteq d.tests
                        /\ d.pc = "upsert" /\ d.do = "declare" =>
                               features[c.f].tags \subseteq d.tags
                        /\ d.pc \in {"change", "risk"} => features[c.f].status # "BROKEN"
                        /\ d.pc = "risk" => features[c.f].status # "CHANGED")
  BY ReadGoes
<1>2. call'[t] = d
  BY <1>1 DEF TypeOK
<1> QED
  BY <1>1, <1>2, IdleIsCall DEF Midway

\* So is a call that has begun.
LEMMA BeginIsRight ==
    ASSUME TypeOK, NEW t \in Threads, NEW f \in Features, NEW arg \in Tests \cup Tags,
           NEW do \in {"verify", "declare", "pass", "fail", "risk", "change"},
           Begin(t, do, f, arg),
           do = "verify" => arg \in Tests, do = "declare" => arg \in Tags
    PROVE  call'[t].pc # "idle" => Midway(t)' /\ call'[t].pc # "gapWrite"
<1> DEFINE c == [Idle EXCEPT !.do = do, !.f = f, !.arg = arg]
<1>1. c \in Call /\ c.do = do /\ c.f = f /\ c.arg = arg
  BY IdleIsCall DEF Call
<1>2. IF Exists(f) THEN Read(t, c) ELSE Goto(t, [c EXCEPT !.pc = "create"])
  BY DEF Begin
<1>3. UNCHANGED features
  BY DEF Begin
<1> HIDE DEF c
<1>4. CASE Exists(f)
  BY <1>1, <1>2, <1>3, <1>4, ReadIsRight
<1>5. CASE ~Exists(f)
  <2>1. call'[t].pc = "create"
    BY <1>1, <1>2, <1>5 DEF Goto, TypeOK, Call
  <2> QED
    BY <2>1 DEF Midway
<1> QED
  BY <1>4, <1>5

\* What the history variables say of a step.
LEMMA HistoryGrows ==
    ASSUME MCNext
    PROVE  /\ overlap => overlap'
           /\ ~overlap' => \A t, u \in Busy' : t = u
           /\ declared \subseteq declared'
           /\ \A f \in declared' : f \in declared \/
                  \E t \in Threads : GapWrite(t) /\ call[t].f = f
<1>1. overlap' = (overlap \/ \E t, u \in Busy' : t # u)
  BY DEF MCNext
<1>2. declared' = declared \cup {call[t].f : t \in {u \in Threads : GapWrite(u)}}
  BY DEF MCNext
<1>3. ASSUME NEW f \in declared', f \notin declared
      PROVE  \E t \in Threads : GapWrite(t) /\ call[t].f = f
  BY <1>2, <1>3
<1> QED
  BY <1>1, <1>2, <1>3

\* Every step keeps SerialInv, and grants STABLE with every behavior covered.
LEMMA SerialKept ==
    ASSUME IInv, SerialInv, [MCNext]_MCvars
    PROVE  /\ SerialInv'
           /\ ~overlap' => StepIsRight
<1> USE DEF Busy
<1>0. IInv' /\ \A t \in Threads : call[t].f \in Features
  <2>1. [Next]_vars
    BY DEF MCNext, MCvars
  <2> QED
    BY <2>1, StepKeeps DEF IInv, TypeOK, Call
<1>1. CASE UNCHANGED MCvars
  <2>1. SerialInv'
    <3>1. /\ features' = features /\ call' = call /\ overlap' = overlap
          /\ declared' = declared
      BY <1>1 DEF MCvars, vars
    <3> QED
      BY <3>1 DEF SerialInv, Whole, Midway, GapKnown, Stable, Computing
  <2>2. StepIsRight
    BY <1>1 DEF MCvars, vars, Stable, StepIsRight, GrantWithoutGap, StaysAttached, statuses,
       streaks
  <2> QED
    BY <2>1, <2>2
<1>2. CASE MCNext
  <2>1. declared' \subseteq Features
    BY <1>0, <1>2, HistoryGrows DEF SerialInv
  <2>2. CASE overlap'
    BY <2>1, <2>2 DEF SerialInv
  <2>3. CASE ~overlap'
    <3>1. /\ ~overlap
          /\ \A t, u \in Busy' : t = u
          /\ \A f \in declared' : f \in declared \/
                 \E t \in Threads : GapWrite(t) /\ call[t].f = f
      BY <1>2, <2>3, HistoryGrows
    \* A step of the bug store.
    <3>2. ASSUME UNCHANGED <<features, call>> PROVE SerialInv' /\ StepIsRight
      <4>1. \A t \in Threads : ~GapWrite(t)
        BY <3>2, IdleIsCall DEF GapWrite, Return, Goto, IInv, TypeOK
      <4>2. declared' \subseteq declared
        BY <3>1, <4>1
      <4>3. /\ \A f \in Features : Whole(f)' /\ (GapKnown(f) => GapKnown(f)')
            /\ \A t \in Busy' : Midway(t)'
        BY <3>1, <3>2 DEF SerialInv, Whole, Midway, Stable, GapKnown
      <4>4. \A f \in declared : (\A u \in Busy' : ~Computing(call'[u], f)) => GapKnown(f)
        BY <3>1, <3>2 DEF SerialInv
      <4> QED
        BY <2>1, <3>1, <3>2, <4>2, <4>3, <4>4
           DEF SerialInv, Stable, StepIsRight, GrantWithoutGap, StaysAttached, statuses, streaks
    \* A thread takes up an operation.
    <3>3. ASSUME NEW t \in Threads, call[t].pc = "idle", UNCHANGED features,
                 \A u \in Threads \ {t} : call'[u] = call[u],
                 call'[t].pc # "idle" => Midway(t)' /\ call'[t].pc # "gapWrite"
          PROVE  SerialInv' /\ StepIsRight
      <4>1. \A u \in Threads : ~GapWrite(u)
        BY <3>3, IdleIsCall DEF GapWrite, Return, Goto, IInv, TypeOK
      <4>2. ASSUME NEW u \in Busy' PROVE Midway(u)'
        <5>1. CASE u = t
          BY <3>3, <5>1
        <5>2. CASE u # t
          <6>1. call'[u] = call[u] /\ u \in Busy
            BY <3>3, <5>2
          <6>2. Midway(u)
            BY <3>1, <6>1 DEF SerialInv
          <6> QED
            BY <3>3, <6>1, <6>2 DEF Midway
        <5> QED
          BY <5>1, <5>2
      <4>3. \A f \in Features : Whole(f)' /\ (GapKnown(f) => GapKnown(f)')
        BY <3>1, <3>3 DEF SerialInv, Whole, Stable, GapKnown
      <4>4. \A f \in declared : (\A u \in Busy' : ~Computing(call'[u], f)) => GapKnown(f)
        BY <3>1, <3>3 DEF SerialInv, Computing
      <4> QED
        BY <2>1, <3>1, <3>3, <4>1, <4>2, <4>3, <4>4
           DEF SerialInv, StepIsRight, GrantWithoutGap, Stable, StaysAttached, statuses, streaks
    \* A thread goes on with its operation.
    <3>4. ASSUME NEW t \in Threads, NEW f \in Features, Kept(t), Onward(t, f),
                 StaysAttached(f), MovesOn(f)
          PROVE  SerialInv' /\ StepIsRight
      <4>1. t \in Busy /\ Busy = {t} /\ Busy' \subseteq {t}
        BY <3>1, <3>4 DEF SerialInv, Kept, Onward
      <4>2. \A u \in Threads : GapWrite(u) => u = t /\ call[t].pc = "gapWrite"
        BY <4>1 DEF GapWrite
      <4>3. \A g \in Features : Whole(g)'
        BY <3>1, <3>4 DEF SerialInv, Onward, Whole, Stable
      <4>4. \A u \in Busy' : Midway(u)'
        BY <3>4, <4>1 DEF Onward
      <4>5. ASSUME NEW g \in declared', \A u \in Busy' : ~Computing(call'[u], g)
            PROVE  GapKnown(g)'
        <5>1. CASE g = f
          <6>1. f \in declared \/ call[t].pc = "gapWrite"
            BY <3>1, <4>2, <5>1
          <6>2. ~Computing(call'[t], f)
            BY <4>5, <5>1 DEF Computing
          <6> QED
            BY <3>4, <5>1, <6>1, <6>2 DEF Onward
        <5>2. CASE g # f
          <6>1. g \in declared
            BY <3>1, <3>4, <4>2, <5>2 DEF Onward
          <6>2. g \in Features /\ features'[g] = features[g] /\ GapKnown(g)
            BY <3>1, <3>4, <4>1, <5>2, <6>1 DEF Onward, SerialInv, Computing
          <6> QED
            BY <6>2 DEF GapKnown
        <5> QED
          BY <5>1, <5>2
      <4>6. \A g \in declared : GrantWithoutGap(g)
        BY <3>4 DEF SerialInv, Onward, GrantWithoutGap, Stable
      <4>7. \A g \in Features : StaysAttached(g)
        BY <3>4 DEF Onward, StaysAttached
      <4>8. Lifecycle!LifecycleNext \/ UNCHANGED <<statuses, streaks>>
        BY <1>0, <3>4, MoveIsLifecycle DEF Onward, IInv
      <4> QED
        BY <2>1, <3>1, <4>1, <4>3, <4>4, <4>5, <4>6, <4>7, <4>8 DEF SerialInv, StepIsRight
    <3>5. ASSUME NEW t \in Threads, NEW f \in Features,
                 \/ \E test \in Tests : VerifyChain(t, f, test)
                 \/ \E tag \in Tags : DeclareBehavior(t, f, tag)
                 \/ RecordPass(t, f) \/ RecordFail(t, f) \/ MarkChangedRead(t, f)
                 \/ RiskRead(t, f)
          PROVE  SerialInv' /\ StepIsRight
      <4>1. Idle.arg \in Tests \cup Tags
        BY IdleIsCall DEF Call
      <4>2. PICK do \in {"verify", "declare", "pass", "fail", "risk", "change"},
                 arg \in Tests \cup Tags :
                 /\ Begin(t, do, f, arg)
                 /\ do = "verify" => arg \in Tests
                 /\ do = "declare" => arg \in Tags
        BY <3>5, <4>1
           DEF VerifyChain, DeclareBehavior, RecordPass, RecordFail, MarkChangedRead, RiskRead
      <4>3. Kept(t)
        BY <4>2, BeginKeeps
      <4>4. call'[t].pc # "idle" => Midway(t)' /\ call'[t].pc # "gapWrite"
        BY <4>2, BeginIsRight DEF IInv
      <4>5. call[t].pc = "idle" /\ UNCHANGED features
        BY <4>2 DEF Begin
      <4> QED
        BY <3>3, <4>3, <4>4, <4>5 DEF Kept
    <3>6. ASSUME NEW t \in Threads, NEW f \in Features, call[t].f = f, call[t].pc # "idle"
          PROVE  Whole(f) /\ Midway(t) /\ (f \in declared /\ ~Computing(call[t], f) => GapKnown(f))
      BY <3>1, <3>6 DEF SerialInv, Computing
    <3>7. ASSUME NEW t \in Threads, NEW f \in Features, call[t].f = f, ReadRow(t)
          PROVE  SerialInv' /\ StepIsRight
      <4>1. call[t] \in Call /\ ThreadInv(t) /\ TypeOK
        BY DEF IInv, TypeOK
      <4>2. call[t].pc = "read" /\ UNCHANGED <<features, openBugs>> /\ Read(t, call[t])
        BY <3>7 DEF ReadRow
      <4>3. /\ Exists(call[t].f)
            /\ call[t].do = "verify" => call[t].arg \in Tests
            /\ call[t].do = "declare" => call[t].arg \in Tags
        BY <4>1, <4>2 DEF ThreadInv
      <4>4. Kept(t)
        BY <4>1, <4>2, <4>3, ReadKeeps
      <4>5. call'[t].pc # "idle" => call'[t].f = f /\ Midway(t)'
        BY <3>7, <4>1, <4>2, <4>3, ReadIsRight
      <4>6. /\ Whole(f) /\ (f \in declared => GapKnown(f))
        BY <3>6, <3>7, <4>2 DEF Computing
      <4>7. Onward(t, f)
        BY <3>7, <4>2, <4>5, <4>6 DEF Onward, Whole, Stable, GapKnown
      <4>8. StaysAttached(f) /\ MovesOn(f)
        BY <4>2 DEF StaysAttached, MovesOn
      <4> QED
        BY <3>4, <4>4, <4>7, <4>8
    <3>8. ASSUME NEW t \in Threads, NEW f \in Features, call[t].f = f,
                 \/ Create(t) \/ Insert(t) \/ Rewrite(t) \/ Upsert(t) \/ UpsertWrite(t)
                 \/ GapRead(t) \/ GapWrite(t) \/ Pass(t) \/ Fail(t) \/ EvalRow(t)
                 \/ EvalBugs(t) \/ Grant(t) \/ Clear(t) \/ MarkChanged(t)
                 \/ MarkRegressionRisk(t)
          PROVE  SerialInv' /\ StepIsRight
      <4>1. call[t].pc # "idle"
        BY <3>8 DEF Create, Insert, Rewrite, Upsert, UpsertWrite, GapRead, GapWrite,
           Pass, Fail,
           EvalRow, EvalBugs, Grant, Clear, MarkChanged, MarkRegressionRisk
      <4>2. Onward(t, f)
        BY <3>6, <3>8, <4>1, StatementIsRight
      <4>3. Kept(t)
        BY <3>8, StatementKeeps
      <4>4. StaysAttached(f) /\ MovesOn(f)
        BY <3>6, <3>8, <4>1, StatementMoves
      <4> QED
        BY <3>4, <4>2, <4>3, <4>4
    <3>9. ASSUME NEW f \in Features, BugReported(f) \/ BugsClosed(f)
          PROVE  SerialInv' /\ StepIsRight
      BY <3>2, <3>9 DEF BugReported, BugsClosed
    <3>10. Next
      BY <1>2 DEF MCNext
    <3> QED
      BY <1>0, <3>5, <3>7, <3>8, <3>9, <3>10 DEF Next
  <2> QED
    BY <2>2, <2>3
<1> QED
  BY <1>1, <1>2

\* SerialInv holds in every reachable state.
LEMMA SerialInductive == MCSpec => [](IInv /\ SerialInv)
<1>1. MCInit => IInv /\ SerialInv
  <2>1. MCInit => Init /\ declared = {}
    BY DEF MCInit
  <2>2. Init => \A t \in Threads : call[t].pc = "idle"
    BY IdleIsCall DEF Init
  <2>3. Init => \A f \in Features : ~Stable(f)
    BY DEF Init, Stable, NewFeature, NoRow
  <2> QED
    BY <2>1, <2>2, <2>3, Begins DEF SerialInv, Busy, Whole
<1>2. IInv /\ SerialInv /\ [MCNext]_MCvars => (IInv /\ SerialInv)'
  <2>1. [MCNext]_MCvars => [Next]_vars
    BY DEF MCNext, MCvars
  <2> QED
    BY <2>1, StepKeeps, SerialKept
<1> QED
  BY <1>1, <1>2, PTL DEF MCSpec

\* One operation at a time: a FAIL and a source change both take STABLE away,
\* so what is STABLE has its whole streak and waits for no regression run.
THEOREM StableIsWhole == MCSpec => []SerialStable
<1>1. SerialInv => SerialStable
  BY DEF SerialInv, SerialStable, Whole, StableHasStreak, StableHasNoPendingRegression
<1> QED
  BY <1>1, SerialInductive, PTL

\* One operation at a time: the stored coverage_gap that evaluate_stability
\* trusts is right once it was computed, so STABLE is granted to no feature
\* with a declared behavior that has no test case.
THEOREM GrantHasNoGap == MCSpec => SerialGrantHasNoGap
<1>1. IInv /\ SerialInv /\ [MCNext]_MCvars
        => [~overlap' => \A f \in declared : GrantWithoutGap(f)]_MCvars
  BY SerialKept DEF StepIsRight
<1> QED
  BY <1>1, SerialInductive, PTL DEF MCSpec, SerialGrantHasNoGap

\* One operation at a time: what attach_regression_test_case attached and
\* declare_behavior declared stays on the row, whatever writes it whole.
THEOREM AttachedStays == MCSpec => SerialAttachedStays
<1>1. IInv /\ SerialInv /\ [MCNext]_MCvars
        => [~overlap' => \A f \in Features : Exists(f) =>
               /\ features[f].tests \subseteq features'[f].tests
               /\ features[f].tags \subseteq features'[f].tags]_MCvars
  BY SerialKept DEF StepIsRight, StaysAttached
<1> QED
  BY <1>1, SerialInductive, PTL DEF MCSpec, SerialAttachedStays

\* One operation at a time the registry refines FeatureLifecycle, step by step.
THEOREM FollowsLifecycle == MCSpec => SerialFollowsLifecycle
<1>1. IInv /\ SerialInv /\ [MCNext]_MCvars
        => [~overlap' => Lifecycle!LifecycleNext \/ UNCHANGED <<statuses, streaks>>]_MCvars
  BY SerialKept DEF StepIsRight
<1>2. MCInit => Lifecycle!LifecycleInit
  BY DEF MCInit, Init, NewFeature, NoRow, Lifecycle!LifecycleInit, statuses, streaks
<1> QED
  BY <1>1, <1>2, SerialInductive, PTL DEF MCSpec, SerialFollowsLifecycle

=============================================================================
