---------------------------- MODULE MCCodeReview ----------------------------
EXTENDS CodeReview

\* Two reviews a day, and a file window of 1..2 so that both file-count
\* exits are reachable; the skip settings keep their defaults (true).
MCReviewDoc ==
    [rate_limits |-> [reviews_per_day |-> 2],
     code_review |-> [min_files_changed |-> 1, max_files_changed |-> 2]]

\* No review limit (reviews_per_day 0: check_code_review records nothing),
\* drafts reviewed (skip_draft_prs false), and a window of 2..3 files.
MCReviewUnlimitedDoc ==
    [rate_limits |-> [reviews_per_day |-> 0],
     code_review |-> [skip_draft_prs |-> FALSE,
                      min_files_changed |-> 2, max_files_changed |-> 3]]
=============================================================================
