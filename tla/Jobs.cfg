SPECIFICATION FairJobsSpec
CONSTANTS
    Jobs = {j1, j2}
    Requests = {r1, r2}
    MaxRestarts = 1
INVARIANTS
    SuccessWasEarned
    CancelledWasStopped
PROPERTIES
    JobsEnd
CHECK_DEADLOCK FALSE
