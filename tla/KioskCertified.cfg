\* The suites of Suites.cfg, one call that fails anywhere.
CONSTANTS
    Devices = {1, 2}
    Nobody = Nobody
    Shared = Shared
    Other = Other
    Profiles = {"QUICK", "RELIABILITY"}
    MaxFaults = 1

SPECIFICATION Spec

INVARIANT
    AxisPassedWasTested

CHECK_DEADLOCK FALSE
