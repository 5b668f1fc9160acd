\* Three pull-request events with faults, two review slots a day.
CONSTANTS
    ConfigDoc <- MCReviewDoc
    MaxRuns = 3
    Faults = TRUE
SPECIFICATION Spec
INVARIANTS SkipsAreFree ReviewGated
PROPERTY ServiceRefinement
\* The model stops when the three events have been handled.
CHECK_DEADLOCK FALSE
