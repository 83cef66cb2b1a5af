\* Two simulations, a cap of one session, batches of two actors.  It ends when
\* the simulations are over and the suite has its verdict.
CONSTANTS
    NoSim = 0
    Sims = {1, 2}
    MaxSessions = 1
    MaxBatch = 2
    MaxRestarts = 1

SPECIFICATION Spec

INVARIANTS
    EndWasEarned
    OneBegins
    PassedWasSimulated

PROPERTY
    SimulationEnds

CHECK_DEADLOCK FALSE
