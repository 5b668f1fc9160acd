\* Two racing workflows, limit 1: the spec bounds the overshoot by 1.
CONSTANTS
    Procs = {p1, p2}
    Users = {u1}
    System = system
    Assocs = {"NONE", "OWNER"}
    ConfigDoc <- MCConfigDoc
    MaxDay = 2
    MaxRuns = 4
SPECIFICATION Spec
INVARIANT RaceOvershootBounded
CHECK_DEADLOCK FALSE
