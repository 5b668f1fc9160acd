\* One workflow, limit 2, midnight inside _increment_usage.
CONSTANTS
    Procs = {p1}
    Users = {u1}
    System = system
    Assocs = {"NONE", "OWNER"}
    ConfigDoc <- MCConfigDoc2
    MaxDay = 2
    MaxRuns = 2
SPECIFICATION Spec
INVARIANT DayIsolation
CHECK_DEADLOCK FALSE
