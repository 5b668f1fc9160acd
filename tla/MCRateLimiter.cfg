\* Two workflows racing on the tracker issue, limit 2, over two UTC days.
CONSTANTS
    Procs = {p1, p2}
    Users = {u1}
    System = system
    Assocs = {"NONE", "OWNER"}
    ConfigDoc <- MCConfigDoc2
    MaxDay = 2
    MaxRuns = 4
SPECIFICATION Spec
INVARIANT TypeOK
INVARIANT NoPhantomUsage
CHECK_DEADLOCK FALSE
