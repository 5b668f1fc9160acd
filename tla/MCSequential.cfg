\* One workflow at a time (no overlap), limits 1 and mentions unlimited, two UTC days.
CONSTANTS
    Procs = {p1}
    Users = {u1}
    System = system
    Assocs = {"NONE", "OWNER"}
    ConfigDoc <- MCConfigDoc
    MaxDay = 2
    MaxRuns = 5
SPECIFICATION Spec
PROPERTY QuotaRefinement
PROPERTY MeteredAppends
CHECK_DEADLOCK FALSE
