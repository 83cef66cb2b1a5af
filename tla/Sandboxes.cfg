SPECIFICATION MCFairSpec
CONSTANTS
    Threads = {t1, t2}
    Namespaces = {n1}
    Ops = {"deploy", "destroy", "cleanup", "stop", "start", "reap", "reset"}
    Faults = {"exit", "remove", "kill", "hang"}
INVARIANTS
    HiddenWasSpared
PROPERTIES
    ReapIsComplete
    DeployEnds
