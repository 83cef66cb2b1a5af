SPECIFICATION MCFairSpec
CONSTANTS
    Threads = {t1, t2}
    Envs = {e1, e2}
    Ports = {1, 2}
    Presets = {"FULL_UI", "EDGE_CASES"}
    MaxBegun = 4
INVARIANTS
    DeletedForgetsNothing
    SerialReadyIsSeeded
    SerialNoFalseBug
PROPERTIES
    Settles
CHECK_DEADLOCK FALSE
