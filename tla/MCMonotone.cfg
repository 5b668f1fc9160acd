\* Two racing workflows, limit 2, one day: a stale post lowers the count.
CONSTANTS
    Procs = {p1, p2}
    Users = {u1}
    System = system
    Assocs = {"NONE", "OWNER"}
    ConfigDoc <- MCConfigDoc2
    MaxDay = 1
    MaxRuns = 3
SPECIFICATION Spec
PROPERTY SnapshotMonotone
CHECK_DEADLOCK FALSE
