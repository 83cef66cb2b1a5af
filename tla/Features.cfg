SPECIFICATION MCSpec
CONSTANTS
    Threads = {t1, t2}
    Features = {f1}
    Tests = {"a", "b"}
    Tags = {"b"}
    Covers <- MCCovers
    FirstTests = {"a"}
    FirstTags = {"b"}
    MinPasses = 2
SYMMETRY ThreadSymmetry
INVARIANTS
    StableWasEarned
    SerialStable
PROPERTIES
    SerialGrantHasNoGap
    SerialAttachedStays
    SerialFollowsLifecycle
