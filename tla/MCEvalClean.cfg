CONSTANTS
    ConfigDoc <- MCEvalDoc
    Assocs = {"NONE", "OWNER"}
    MaxRuns = 2
    UniqueSession = FALSE
    Faults = FALSE
SPECIFICATION Spec
INVARIANT CleanRunsSucceed
CHECK_DEADLOCK FALSE
