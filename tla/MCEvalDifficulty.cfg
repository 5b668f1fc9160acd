CONSTANTS
    ConfigDoc <- MCEvalDoc
    Assocs = {"NONE", "OWNER"}
    MaxRuns = 2
    UniqueSession = FALSE
    Faults = TRUE
SPECIFICATION Spec
INVARIANT DifficultyMeansNoPR
CHECK_DEADLOCK FALSE
