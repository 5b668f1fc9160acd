CONSTANTS
    ConfigDoc <- MCEvalDoc
    Assocs = {"NONE", "OWNER"}
    MaxRuns = 3
    UniqueSession = FALSE
    Faults = TRUE
SPECIFICATION Spec
INVARIANTS DenialDecidesComments ImplementationGated PRAnnounced
CHECK_DEADLOCK FALSE
