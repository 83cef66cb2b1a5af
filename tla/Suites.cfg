\* The product suites of run-artifact on one deployment, the emulator's scenarios,
\* all and two profiles of them, a burst of two kiosks, chaos, rollback and
\* backup-restore, with two calls that fail anywhere; all of run-artifact's
\* suites, one after the other, with one.
CONSTANTS
    Devices = {1, 2}
    Nobody = Nobody
    Shared = Shared
    Other = Other
    Profiles = {"QUICK", "RELIABILITY"}
    MaxFaults = 2

SPECIFICATION Spec

INVARIANTS
    FailuresHaveACause
    NothingLeftOpen
    LostIsNoticed
    PassedLeftItWorking
    NothingRemains

CHECK_DEADLOCK FALSE
