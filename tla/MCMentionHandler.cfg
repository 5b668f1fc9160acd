\* Three events of two authors, with faults; owners are exempt.
CONSTANTS
    ConfigDoc <- MCMentionDoc
    Users = {u1, u2}
    Assocs = {"NONE", "OWNER"}
    MaxRuns = 3
    Faults = TRUE
SPECIFICATION FairSpec
INVARIANT ReplyGated
PROPERTY ServiceRefinement
PROPERTY MentionAnswered
\* The model stops when the three events have been handled.
CHECK_DEADLOCK FALSE
