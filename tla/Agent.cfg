SPECIFICATION MCFairSpec
CONSTANTS
    Runs = {r1, r2}
    Stoppers = {q1}
    MaxRestarts = 1
    Admins = {a1, a2}
    MaxBegun = 3
INVARIANTS
    VerdictWasEarned
    FailClosed
    SerialDemoIsClean
PROPERTIES
    SerialResumeIsRight
    StopEnds
CHECK_DEADLOCK FALSE
