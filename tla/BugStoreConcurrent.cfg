SPECIFICATION Spec
CONSTANTS
    Threads = {t1, t2}
    Fingerprints = {f1}
    MaxBugs = 2
    MaxReports = 3
    MaxHistory = 2
SYMMETRY ThreadSymmetry
INVARIANTS
    ResolvedWasVerified
    OccurrencesExact
