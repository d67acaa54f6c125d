SPECIFICATION Spec
CONSTANTS
    NoAlert = NoAlert
    Engines = {e1, e2}
    Ids = {a1, a2}
    Duration = 0
    Cooldown = 0
    AutoResolves = {TRUE}
    HasAbsence = TRUE
    PortScans = FALSE
    Suppression = TRUE
    Acts = {"resolve"}
    MaxFaults = 1
    MaxCrashes = 1
    MaxFailures = 1
SYMMETRY Interchangeable
INVARIANT AlertedOnce
