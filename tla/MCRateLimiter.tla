--------------------------- MODULE MCRateLimiter ---------------------------
EXTENDS RateLimiter

\* A configuration file with limits small enough to be reached, mentions
\* unlimited (0) and the team exemption left at its default (true).
MCConfigDoc ==
    [rate_limits |-> [issues_per_user_per_day   |-> 1,
                      mentions_per_user_per_day |-> 0,
                      reviews_per_day           |-> 1]]

\* A configuration with limit 2, so that two rounds of racing checks fit.
MCConfigDoc2 ==
    [rate_limits |-> [issues_per_user_per_day |-> 2, reviews_per_day |-> 0],
     exempt_team_members |-> FALSE]
=============================================================================
