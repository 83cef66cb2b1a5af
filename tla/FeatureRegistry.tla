--------------------------- MODULE FeatureRegistry ---------------------------
(***************************************************************************)
(* Feature stability, engine/feature_registry.py, over the features table. *)
(* Threads run its operations, alone or as the chain that                  *)
(* POST /api/bugs/<id>/verify runs after a PASS: attach the regression     *)
(* test, record the PASS, clear the pending regression.  As in BugStore a  *)
(* thread reads a row, decides and writes it back in separate statements.  *)
(* The Bug Center is represented by openBugs, the features that list_bugs  *)
(* would find an unresolved bug for.                                       *)
(***************************************************************************)
EXTENDS Integers

CONSTANTS
    Threads,
    Features,       \* feature keys
    Tests,          \* test cases
    Tags,           \* behavior tags
    Covers,         \* pairs <<tag, test>>: the tag is a segment of the name
    FirstTests,     \* test cases of a bootstrapped feature
    FirstTags,      \* behavior tags of a bootstrapped feature
    MinPasses       \* min_consecutive_passes, 3 in the code

ASSUME FeatureRegistryAssumption ==
    /\ Features # {}
    /\ Tests # {}
    /\ FirstTests \subseteq Tests
    /\ FirstTags \subseteq Tags
    /\ Covers \subseteq Tags \X Tests
    /\ MinPasses \in Nat \ {0}

VARIABLES
    features,   \* the features table
    openBugs,   \* features with an OPEN, FIXING, READY_FOR_VERIFY or REGRESSION bug
    call        \* thread -> its operation in progress

vars == <<features, openBugs, call>>

statuses == [f \in Features |-> features[f].status]
streaks == [f \in Features |-> features[f].passes]

Lifecycle == INSTANCE FeatureLifecycle WITH status <- statuses, streak <- streaks

Statuses == Lifecycle!Statuses
NoRow == Lifecycle!NoRow

\* passes and earned count to MinPasses at most, the only bound the code
\* compares with; sources tells that source_paths is not empty; earned counts
\* every PASS ever recorded (history).
Feature == [status: Statuses \cup {NoRow}, passes: 0..MinPasses,
            needs: BOOLEAN, gap: BOOLEAN, sources: BOOLEAN,
            tests: SUBSET Tests, tags: SUBSET Tags, earned: 0..MinPasses]

NewFeature(sources, tests, tags) ==
    [status |-> "NEW", passes |-> 0, needs |-> FALSE, gap |-> FALSE,
     sources |-> sources, tests |-> tests, tags |-> tags, earned |-> 0]

Steps == {"idle", "create", "insert", "rewrite", "read", "upsert",
          "upsertWrite", "pass", "fail", "evalRow", "evalBugs", "grant",
          "clear", "change", "risk", "gapRead", "gapWrite"}

\* do: the operation; "verify" is the whole chain of api_bugs_verify, "clear"
\* its last part.  test and tag are its argument; seen, tests, tags and flag
\* hold what the thread read, or will write.
Call == [pc: Steps, do: {"verify", "clear", "declare", "pass", "fail", "risk", "change"},
         f: Features, arg: Tests \cup Tags, seen: Statuses \cup {NoRow},
         tests: SUBSET Tests, tags: SUBSET Tags, flag: BOOLEAN]

Idle == [pc |-> "idle", do |-> "pass", f |-> CHOOSE f \in Features : TRUE,
         arg |-> CHOOSE a \in Tests \cup Tags : TRUE, seen |-> NoRow,
         tests |-> {}, tags |-> {}, flag |-> FALSE]

TypeOK ==
    /\ features \in [Features -> Feature]
    /\ openBugs \subseteq Features
    /\ call \in [Threads -> Call]

\* ensure_bootstrapped has run: upsert_feature for each default feature, which
\* gives it source paths and does not check the coverage of its tags.
Init ==
    /\ \E defaults \in SUBSET Features :
          features = [f \in Features |->
                         IF f \in defaults THEN NewFeature(TRUE, FirstTests, FirstTags)
                         ELSE [NewFeature(FALSE, {}, {}) EXCEPT !.status = NoRow]]
    /\ openBugs = {}
    /\ call = [t \in Threads |-> Idle]

Goto(t, c) == call' = [call EXCEPT ![t] = c]
Return(t)  == Goto(t, Idle)
Row(t)     == features[call[t].f]
Exists(f)  == features[f].status # NoRow
Write(t, row) == features' = [features EXCEPT ![call[t].f] = row]

Missing(tags, tests) == {g \in tags : \A c \in tests : <<g, c>> \notin Covers}

----------------------------------------------------------------------------
\* The bug store: a bug of f becomes unresolved, or its last one is resolved
\* or ignored.  Neither touches the features table.
BugReported(f) ==
    /\ f \notin openBugs
    /\ openBugs' = openBugs \cup {f}
    /\ UNCHANGED <<features, call>>

BugsClosed(f) ==
    /\ f \in openBugs
    /\ openBugs' = openBugs \ {f}
    /\ UNCHANGED <<features, call>>

----------------------------------------------------------------------------
\* mutant: the new test case replaces the list
AttachedAlone(f, test) == {test}

\* tests.append(test_case)
Attached(f, test) == features[f].tests \cup {test}

\* What an operation does with the row of its feature once it has read it:
\* attach_regression_test_case upserts a test case that is new, and
\* declare_behavior a tag; record_result keeps the status in mind.
Read(t, c) ==
    LET row == features[c.f]
    IN  \/ /\ c.do = "verify" /\ c.arg \in row.tests
           /\ Goto(t, [c EXCEPT !.pc = "read", !.do = "clear"])
        \/ /\ c.do = "verify" /\ c.arg \notin row.tests
           /\ Goto(t, [c EXCEPT !.pc = "upsert", !.tests = Attached(c.f, c.arg)])
        \/ /\ c.do = "declare" /\ c.arg \in row.tags
           /\ Goto(t, [c EXCEPT !.pc = "gapRead"])
        \/ /\ c.do = "declare" /\ c.arg \notin row.tags
           /\ Goto(t, [c EXCEPT !.pc = "upsert", !.tags = row.tags \cup {c.arg}])
        \/ /\ c.do \in {"pass", "clear"}
           /\ Goto(t, [c EXCEPT !.pc = "pass", !.seen = row.status])
        \/ /\ c.do = "fail"
           /\ Goto(t, [c EXCEPT !.pc = "fail"])
        \/ /\ c.do = "risk" /\ row.status \notin {"BROKEN", "CHANGED"}
           /\ Goto(t, [c EXCEPT !.pc = "risk"])
        \/ /\ c.do = "change" /\ row.status # "BROKEN"
           /\ Goto(t, [c EXCEPT !.pc = "change"])
        \/ /\ \/ c.do = "risk" /\ row.status \in {"BROKEN", "CHANGED"}
              \/ c.do = "change" /\ row.status = "BROKEN"
           /\ Return(t)

\* get_feature(key) or upsert_feature(key)
Begin(t, do, f, arg) ==
    /\ call[t].pc = "idle"
    /\ LET c == [Idle EXCEPT !.do = do, !.f = f, !.arg = arg]
       IN  IF Exists(f) THEN Read(t, c) ELSE Goto(t, [c EXCEPT !.pc = "create"])
    /\ UNCHANGED <<features, openBugs>>

\* POST .../verify with a test case, the bug verified
VerifyChain(t, f, test) == Begin(t, "verify", f, test)

DeclareBehavior(t, f, tag) == Begin(t, "declare", f, tag)

\* upsert_feature SELECTs the row once more; if by now there is one it will be
\* written back as it is.
Create(t) ==
    /\ call[t].pc = "create"
    /\ Goto(t, IF Exists(call[t].f)
               THEN [call[t] EXCEPT !.pc = "rewrite", !.tests = Row(t).tests,
                                    !.tags = Row(t).tags]
               ELSE [call[t] EXCEPT !.pc = "insert"])
    /\ UNCHANGED <<features, openBugs>>

\* The INSERT of an unknown key, NEW and empty; if another thread inserted it
\* first the exception leaves the operation, and whatever was to follow it.
Insert(t) ==
    /\ call[t].pc = "insert"
    /\ IF Exists(call[t].f)
       THEN Return(t) /\ UNCHANGED features
       ELSE /\ Write(t, NewFeature(FALSE, {}, {}))
            /\ Goto(t, [call[t] EXCEPT !.pc = "read"])
    /\ UNCHANGED openBugs

Rewrite(t) ==
    /\ call[t].pc = "rewrite"
    /\ Write(t, [Row(t) EXCEPT !.tests = call[t].tests, !.tags = call[t].tags])
    /\ Goto(t, [call[t] EXCEPT !.pc = "read"])
    /\ UNCHANGED openBugs

\* upsert_feature returns the row it wrote, and the operation goes on with it;
\* in the verify chain record_result reads it once more.
ReadRow(t) ==
    /\ call[t].pc = "read"
    /\ Read(t, call[t])
    /\ UNCHANGED <<features, openBugs>>

\* SELECT of upsert_feature: the column that is not being set is re-read, to
\* be written back as it was.
Upsert(t) ==
    LET c == call[t] IN
    /\ c.pc = "upsert"
    /\ Goto(t, IF c.do = "verify"
               THEN [c EXCEPT !.pc = "upsertWrite", !.tags = Row(t).tags]
               ELSE [c EXCEPT !.pc = "upsertWrite", !.tests = Row(t).tests])
    /\ UNCHANGED <<features, openBugs>>

\* UPDATE features SET ... test_cases=?, behavior_tags=? of upsert_feature
UpsertWrite(t) ==
    LET c == call[t] IN
    /\ c.pc = "upsertWrite"
    /\ Write(t, [Row(t) EXCEPT !.tests = c.tests, !.tags = c.tags])
    /\ Goto(t, IF c.do = "verify"
               THEN [c EXCEPT !.pc = "read", !.do = "clear", !.tests = {}, !.tags = {}]
               ELSE [c EXCEPT !.pc = "gapRead", !.tests = {}, !.tags = {}])
    /\ UNCHANGED openBugs

\* check_coverage_gap: read tags and tests ...
GapRead(t) ==
    /\ call[t].pc = "gapRead"
    /\ Goto(t, [call[t] EXCEPT !.pc = "gapWrite",
                               !.flag = Missing(Row(t).tags, Row(t).tests) # {}])
    /\ UNCHANGED <<features, openBugs>>

\* ... and store whether a tag has no test.
GapWrite(t) ==
    /\ call[t].pc = "gapWrite"
    /\ Write(t, [Row(t) EXCEPT !.gap = call[t].flag])
    /\ Return(t)
    /\ UNCHANGED openBugs

----------------------------------------------------------------------------
Counted(n) == IF n < MinPasses THEN n + 1 ELSE n

\* record_result(PASS) and (FAIL), called on its own
RecordPass(t, f) == Begin(t, "pass", f, Idle.arg)
RecordFail(t, f) == Begin(t, "fail", f, Idle.arg)

\* The INSERT of the run and the UPDATE of the feature, one commit: the streak
\* grows in the database, the status comes from the row that was read.
Pass(t) ==
    LET c == call[t]
        s == IF c.seen \in {"NEW", "BROKEN", "REGRESSION_RISK"} THEN "COVERED"
             ELSE c.seen
    IN  /\ c.pc = "pass"
        /\ Write(t, [Row(t) EXCEPT !.passes = Counted(@), !.earned = Counted(@),
                                   !.status = s])
        /\ Goto(t, [c EXCEPT !.pc = "evalRow", !.seen = NoRow])
        /\ UNCHANGED openBugs

\* mutant: a FAIL leaves the streak
FailKeepsStreak(t) ==
    /\ call[t].pc = "fail"
    /\ Write(t, [Row(t) EXCEPT !.status = "BROKEN"])
    /\ Return(t)
    /\ UNCHANGED openBugs

\* A FAIL is written whatever the row was.
Fail(t) ==
    /\ call[t].pc = "fail"
    /\ Write(t, [Row(t) EXCEPT !.status = "BROKEN", !.passes = 0])
    /\ Return(t)
    /\ UNCHANGED openBugs

\* mutant: the streak that is enough is one too short
RowGrantsTooSoon(row) ==
    /\ row.tests # {}
    /\ row.sources
    /\ row.passes >= MinPasses - 1
    /\ ~row.gap
    /\ ~row.needs

\* mutant: the pending regression is not asked for
RowGrantsChanged(row) ==
    /\ row.tests # {}
    /\ row.sources
    /\ row.passes >= MinPasses
    /\ ~row.gap

\* mutant: an open coverage gap is not asked for
RowGrantsDespiteGap(row) ==
    /\ row.tests # {}
    /\ row.sources
    /\ row.passes >= MinPasses
    /\ ~row.needs

\* The conditions of evaluate_stability on the feature's own row.
RowGrants(row) ==
    /\ row.tests # {}
    /\ row.sources
    /\ row.passes >= MinPasses
    /\ ~row.gap
    /\ ~row.needs

\* Where evaluate_stability returns to: in the verify chain a pending
\* regression is still to be cleared.
AfterEval(t) ==
    LET c == call[t] IN
    IF c.do = "clear"
    THEN Goto(t, [Idle EXCEPT !.pc = "clear", !.f = c.f])
    ELSE Return(t)

\* evaluate_stability: get_feature, and return at once if it is STABLE
EvalRow(t) ==
    LET c == call[t] IN
    /\ c.pc = "evalRow"
    /\ IF Row(t).status # "STABLE"
       THEN Goto(t, [c EXCEPT !.pc = "evalBugs", !.flag = RowGrants(Row(t))])
       ELSE AfterEval(t)
    /\ UNCHANGED <<features, openBugs>>

\* list_bugs(feature=...): is any of them unresolved?
EvalBugs(t) ==
    /\ call[t].pc = "evalBugs"
    /\ IF call[t].flag /\ call[t].f \notin openBugs
       THEN Goto(t, [call[t] EXCEPT !.pc = "grant"])
       ELSE AfterEval(t)
    /\ UNCHANGED <<features, openBugs>>

\* UPDATE features SET status='STABLE', by key alone
Grant(t) ==
    /\ call[t].pc = "grant"
    /\ Write(t, [Row(t) EXCEPT !.status = "STABLE"])
    /\ AfterEval(t)
    /\ UNCHANGED openBugs

\* clear_needs_regression, the end of the chain, re-evaluates too.
Clear(t) ==
    /\ call[t].pc = "clear"
    /\ Write(t, [Row(t) EXCEPT !.needs = FALSE])
    /\ Goto(t, [Idle EXCEPT !.pc = "evalRow", !.f = call[t].f])
    /\ UNCHANGED openBugs

----------------------------------------------------------------------------
\* mark_changed, from compute_impact: only features with source_paths are
\* touched; a BROKEN one is left as it is.
MarkChangedRead(t, f) == features[f].sources /\ Begin(t, "change", f, Idle.arg)

\* passes is reset and the regression run is pending, whatever was read.
MarkChanged(t) ==
    /\ call[t].pc = "change"
    /\ Write(t, [Row(t) EXCEPT !.status = "CHANGED", !.needs = TRUE,
                               !.passes = 0])
    /\ Return(t)
    /\ UNCHANGED openBugs

\* mark_regression_risk leaves BROKEN and CHANGED features alone.
RiskRead(t, f) == Begin(t, "risk", f, Idle.arg)

MarkRegressionRisk(t) ==
    /\ call[t].pc = "risk"
    /\ Write(t, [Row(t) EXCEPT !.status = "REGRESSION_RISK"])
    /\ Return(t)
    /\ UNCHANGED openBugs

----------------------------------------------------------------------------
Next ==
    \/ \E f \in Features : BugReported(f) \/ BugsClosed(f)
    \/ \E t \in Threads :
        \/ \E f \in Features :
            \/ \E test \in Tests : VerifyChain(t, f, test)
            \/ \E tag \in Tags : DeclareBehavior(t, f, tag)
            \/ RecordPass(t, f)
            \/ RecordFail(t, f)
            \/ MarkChangedRead(t, f)
            \/ RiskRead(t, f)
        \/ Create(t)
        \/ Insert(t)
        \/ Rewrite(t)
        \/ ReadRow(t)
        \/ Upsert(t)
        \/ UpsertWrite(t)
        \/ GapRead(t)
        \/ GapWrite(t)
        \/ Pass(t)
        \/ Fail(t)
        \/ EvalRow(t)
        \/ EvalBugs(t)
        \/ Grant(t)
        \/ Clear(t)
        \/ MarkChanged(t)
        \/ MarkRegressionRisk(t)

Spec == Init /\ [][Next]_vars

----------------------------------------------------------------------------
Stable(f) == features[f].status = "STABLE"

\* A feature is never promoted by a single PASS: whatever operations overlap,
\* a STABLE feature has source paths and earned min_consecutive_passes PASSes.
StableWasEarned ==
    \A f \in Features :
        Stable(f) => features[f].sources /\ features[f].earned = MinPasses

\* A STABLE feature has its whole streak.
StableHasStreak ==
    \A f \in Features : Stable(f) => features[f].passes = MinPasses

\* No STABLE feature waits for a regression run.
StableHasNoPendingRegression ==
    \A f \in Features : Stable(f) => ~features[f].needs

\* A step that grants STABLE to f finds every declared behavior of f covered.
GrantWithoutGap(f) ==
    ~Stable(f) /\ Stable(f)' => Missing(features[f].tags, features[f].tests) = {}
=============================================================================
