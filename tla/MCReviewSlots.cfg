\* Three pull-request events, no faults: does every slot buy a review?
CONSTANTS
    ConfigDoc <- MCReviewDoc
    MaxRuns = 3
    Faults = FALSE
SPECIFICATION Spec
INVARIANT SlotsBuyReviews
CHECK_DEADLOCK FALSE
