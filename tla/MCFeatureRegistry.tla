-------------------------- MODULE MCFeatureRegistry --------------------------
\* Instances of FeatureRegistry for TLC.  Tags and test cases are strings, and
\* a test case covers the tag of the same name.  The history variable overlap
\* tells whether two operations have ever been in progress at once: what the
\* header of the module promises is checked while they have not, and what is
\* left of it afterwards is checked always.  declared holds the features whose
\* coverage_gap a declare_behavior has computed.
EXTENDS FeatureRegistry, TLC

VARIABLES overlap, declared

MCvars == <<vars, overlap, declared>>

MCCovers == {<<n, n>> : n \in Tags \cap Tests}

Busy == {t \in Threads : call[t].pc # "idle"}

MCInit == Init /\ overlap = FALSE /\ declared = {}

MCNext ==
    /\ Next
    /\ overlap' = (overlap \/ \E t, u \in Busy' : t # u)
    /\ declared' = declared \cup {call[t].f : t \in {u \in Threads : GapWrite(u)}}

MCSpec == MCInit /\ [][MCNext]_MCvars

ThreadSymmetry == Permutations(Threads)

\* One operation at a time, a STABLE feature has its whole streak and no
\* regression run pending: a FAIL and a source change both take STABLE away.
SerialStable ==
    ~overlap => StableHasStreak /\ StableHasNoPendingRegression

\* One operation at a time, STABLE is granted only to a feature whose every
\* declared behavior has a test case (condition 6 of the header), once
\* declare_behavior has computed its coverage_gap: evaluate_stability trusts
\* that stored flag, and ensure_bootstrapped stores tags without computing it.
SerialGrantHasNoGap ==
    [][~overlap' => \A f \in declared : GrantWithoutGap(f)]_MCvars
\* One operation at a time, no test case is detached and no behavior taken
\* back: attach_regression_test_case attaches "permanently", although every
\* upsert_feature writes both lists whole, one of them as it was read before.
SerialAttachedStays ==
    [][~overlap' => \A f \in Features : Exists(f) =>
           /\ features[f].tests \subseteq features'[f].tests
           /\ features[f].tags \subseteq features'[f].tags]_MCvars

\* One operation at a time, every status and streak moves as the header of
\* the module says: one PASS never promotes, a FAIL and a source change
\* always take the streak, and a risk never hides a BROKEN or CHANGED.
SerialFollowsLifecycle ==
    /\ Lifecycle!LifecycleInit
    /\ [][~overlap' => Lifecycle!LifecycleNext \/ UNCHANGED <<statuses, streaks>>]_MCvars
=============================================================================
