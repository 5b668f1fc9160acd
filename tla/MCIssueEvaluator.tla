-------------------------- MODULE MCIssueEvaluator --------------------------
EXTENDS IssueEvaluator

\* No configuration file: every setting takes its default.
MCEvalDoc == <<>>
=============================================================================
