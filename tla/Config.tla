------------------------------- MODULE Config -------------------------------
(***************************************************************************)
(* The settings the scripts read from .github/claude-config.yml.  The     *)
(* document is loaded once per invocation (RateLimiter._load_config) and  *)
(* every setting is looked up with dict.get and a default; the document   *)
(* itself is a constant of the model.                                      *)
(***************************************************************************)
CONSTANT ConfigDoc  \* the parsed YAML document, a record of sections

\* dict.get(key, default) on a YAML mapping.
Get(doc, key, default) == IF key \in DOMAIN doc THEN doc[key] ELSE default

\* _is_team_member
TeamAssocs == {"OWNER", "MEMBER", "COLLABORATOR"}

\* self.config.get("rate_limits", {})
RateLimitsSection == Get(ConfigDoc, "rate_limits", <<>>)

LimitKey == [issue_eval |-> "issues_per_user_per_day",
             mention    |-> "mentions_per_user_per_day",
             review     |-> "reviews_per_day"]

DefaultLimit == [issue_eval |-> 3, mention |-> 10, review |-> 20]

\* config.get("<op>_per_...", default) in the three check_* methods.
Limit(op) == Get(RateLimitsSection, LimitKey[op], DefaultLimit[op])

\* self.config.get("exempt_team_members", True)
ExemptTeamMembers == Get(ConfigDoc, "exempt_team_members", TRUE)

\* should_auto_implement: the "issue_evaluation" section decides, by the
\* author's association, whether the evaluator implements an issue.
ShouldAutoImplement(assoc) ==
    LET section == Get(ConfigDoc, "issue_evaluation", <<>>)
    IN  IF assoc \in TeamAssocs
          THEN Get(section, "auto_implement_team_member_issues", TRUE)
          ELSE Get(section, "auto_implement_external_issues", FALSE)

\* get_review_config: self.config.get("code_review", {})
ReviewConfig == Get(ConfigDoc, "code_review", <<>>)

\* The settings perform_code_review reads from the code_review section.
SkipDraftPRs == Get(ReviewConfig, "skip_draft_prs", TRUE)

AllowSkipLabel == Get(ReviewConfig, "allow_skip_label", TRUE)

MinFiles == Get(ReviewConfig, "min_files_changed", 1)

MaxFiles == Get(ReviewConfig, "max_files_changed", 50)
=============================================================================
