SPECIFICATION Spec
CONSTANTS
    Threads = {t1}
    Fingerprints = {f1, f2}
    MaxBugs = 2
    MaxReports = 4
    MaxHistory = 2
PROPERTIES
    ImplementsLifecycle
