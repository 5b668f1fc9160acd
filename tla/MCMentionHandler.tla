-------------------------- MODULE MCMentionHandler --------------------------
EXTENDS MentionHandler

\* One mention a day per author, so that a second mention is denied; the
\* team exemption keeps its default (true).
MCMentionDoc == [rate_limits |-> [mentions_per_user_per_day |-> 1]]
=============================================================================
