\* Two employees, a supervisor and a kiosk; a day of five slots: night, morning,
\* lunch, afternoon, evening.
CONSTANTS
    e1 = e1
    e2 = e2
    w1 = w1
    k1 = k1
    Employees = {e1, e2}
    Webs = {w1}
    Kiosks = {k1}
    Day = 5
    ShiftStart = 1
    LunchStart = 2
    LunchEnd = 3
    ShiftEnd = 4
    RealDelay = 1
    MaxWork = 2
    MaxLag = 1
    MaxOpened = 2
    MaxFaults = 2

SPECIFICATION ActorsSpec

INVARIANTS
    MetricsAgree
    NewestHeld

PROPERTY
    LoopGoesOn
