\* Three pull-request events with faults, no review limit, drafts reviewed.
CONSTANTS
    ConfigDoc <- MCReviewUnlimitedDoc
    MaxRuns = 3
    Faults = TRUE
SPECIFICATION Spec
INVARIANT ReviewGated
\* The model stops when the three events have been handled.
CHECK_DEADLOCK FALSE
