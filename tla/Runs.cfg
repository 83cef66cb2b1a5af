\* One process after an earlier run of the artifact, whatever happens to it; a suite
\* of the policy and the optional esp_hil; one evaluation.
CONSTANTS
    p0 = p0
    p1 = p1
    Procs = {p0, p1}
    Earlier = {p0}
    unit = unit
    hil = hil
    Keys = {unit, hil}
    Optional = {hil}
    Required = {unit}
    BlockFlaky = {unit}
    Hil = hil
    MaxSuites = 2
    MaxEvaluations = 1
    Signals = {"TERM", "KILL", "HANG"}

SPECIFICATION FairCertSpec

INVARIANTS
    PassedWasEarned
    CleanedUp
    CertifiedWasEarned

PROPERTIES
    ResultStays
    RunsEnd

CHECK_DEADLOCK FALSE
