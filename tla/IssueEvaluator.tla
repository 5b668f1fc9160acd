--------------------------- MODULE IssueEvaluator ---------------------------
(***************************************************************************)
(* The issue evaluator of .github/scripts/claude_issue_evaluator.py: the  *)
(* runs of the workflow for one new issue.  A run loads the issue, asks   *)
(* the rate limiter, lets the model judge the issue, posts its evaluation  *)
(* and, when should_auto_implement allows it, pushes a branch and opens a *)
(* draft pull request (attempt_implementation).  A finished run may be    *)
(* re-run from the Actions page; a re-run replays the same event.          *)
(*                                                                         *)
(* The rate limiter's check is one step here (RateLimiter models it).  Any *)
(* GitHub call may fail before it took effect or lose its reply after it  *)
(* did; git commands may fail.  An exception that escapes evaluate_issue  *)
(* is caught in main, which exits with status 1.                           *)
(***************************************************************************)
EXTENDS Naturals, Sequences, FiniteSets, Config

CONSTANTS
    Assocs,         \* author_association values an issue may carry
    MaxRuns,        \* bound: the first run and its re-runs
    UniqueSession,  \* GITHUB_SESSION_ID is set, to a value unique per run
    Faults          \* GitHub calls and git commands may fail

ASSUME EvaluatorAssumption ==
    /\ Assocs # {}
    /\ MaxRuns \in Nat \ {0}
    /\ UniqueSession \in BOOLEAN
    /\ Faults \in BOOLEAN
    /\ \A a \in Assocs : ShouldAutoImplement(a) \in BOOLEAN

Runs == 1..MaxRuns

\* What json.loads makes of the model's answer: an object that says
\* implementable, one that does not, text it rejects (also the "Error:
\* Unable to get response" string create_claude_conversation returns when
\* the API call fails), and JSON that is not an object.
Responses == {"implementable", "not_implementable", "unparseable",
              "non_object"}

\* The comments the evaluator posts on the issue.
CommentKinds == {"limit_notice", "plan_impl", "plan_only", "clarify",
                 "difficulty", "pr_link"}

Comment == [run : Runs, kind : CommentKinds]

\* branch_name = f"claude/issue-{issue_number}-{session_id}": with
\* GITHUB_SESSION_ID unset every run of the issue uses the same name.
Branch(r) == IF UniqueSession THEN r ELSE 0

\* The outcomes of one GitHub call: it took effect and returned, it raised
\* before taking effect, or it took effect and its reply was lost.
CallOutcomes == IF Faults THEN {"ok", "fails", "reply_lost"} ELSE {"ok"}

\* The outcomes of a git command run by run_command.
GitOutcomes == IF Faults THEN BOOLEAN ELSE {TRUE}

PCs == {"load", "check", "notice", "evaluate", "post_plan", "checkout",
        "write", "commit", "push", "create_pull", "link", "followup",
        "clarify", "done"}

VARIABLES
    assoc,        \* the issue author's author_association
    run,          \* the run in progress or last finished
    pc,           \* its program point
    admitted,     \* history: the runs the rate limiter admitted
    should,       \* should_implement of the run
    successSet,   \* the local success has been assigned
    success,      \* its value, once assigned
    branchLocal,  \* git checkout -b created the branch in this run
    committed,    \* git commit recorded the plan file in this run
    comments,     \* the comments posted on the issue, in order
    remote,       \* the branch names pushed to GitHub
    prs,          \* the pull requests opened: run and head branch
    exits         \* the exit status of each finished run, in order

vars == <<assoc, run, pc, admitted, should, successSet, success, branchLocal,
          committed, comments, remote, prs, exits>>

TypeOK ==
    /\ assoc \in Assocs
    /\ run \in Runs
    /\ pc \in PCs
    /\ admitted \subseteq Runs
    /\ should \in BOOLEAN
    /\ successSet \in BOOLEAN
    /\ success \in BOOLEAN
    /\ branchLocal \in BOOLEAN
    /\ committed \in BOOLEAN
    /\ comments \in Seq(Comment)
    /\ remote \subseteq {Branch(r) : r \in Runs}
    /\ prs \subseteq [run : Runs, head : {Branch(r) : r \in Runs}]
    /\ exits \in Seq({0, 1})

-----------------------------------------------------------------------------
\* The comment this run appends when a create_comment call took effect.
Post(kind, o) ==
    comments' = IF o = "fails" THEN comments
                ELSE Append(comments, [run |-> run, kind |-> kind])

\* The run ends with the given exit status.
Finish(status) ==
    /\ pc' = "done"
    /\ exits' = Append(exits, status)

\* check_issue_evaluation needs no GitHub call when it returns early.
CheckNeedsLedger ==
    /\ ~(ExemptTeamMembers /\ assoc \in TeamAssocs)
    /\ Limit("issue_eval") # 0

Init ==
    /\ assoc \in Assocs
    /\ run = 1
    /\ pc = "load"
    /\ admitted = {}
    /\ should = FALSE
    /\ successSet = FALSE
    /\ success = FALSE
    /\ branchLocal = FALSE
    /\ committed = FALSE
    /\ comments = <<>>
    /\ remote = {}
    /\ prs = {}
    /\ exits = <<>>

\* Lines 30-39: get_repo, get_issue and the issue's fields.
Load ==
    /\ pc = "load"
    /\ \E o \in CallOutcomes \ {"reply_lost"} :
         IF o = "ok" THEN pc' = "check" /\ UNCHANGED exits ELSE Finish(1)
    /\ UNCHANGED <<assoc, run, admitted, should, successSet, success, branchLocal,
                   committed, comments, remote, prs>>

\* Variant of Check with the test of line 45 inverted (if allowed:).
CheckInverted ==
    /\ pc = "check"
    /\ \/ /\ admitted' = admitted \cup {run}
          /\ pc' = "notice"
          /\ UNCHANGED exits
       \/ /\ CheckNeedsLedger
          /\ pc' = "evaluate"
          /\ UNCHANGED <<admitted, exits>>
       \/ /\ CheckNeedsLedger /\ Faults
          /\ Finish(1)
          /\ UNCHANGED admitted
    /\ UNCHANGED <<assoc, run, should, successSet, success, branchLocal,
                   committed, comments, remote, prs>>

\* Lines 42-52: RateLimiter(...).check_issue_evaluation.  A denial posts
\* the limit notice; an exception of the check ends the run.
Check ==
    /\ pc = "check"
    /\ \/ /\ admitted' = admitted \cup {run}
          /\ pc' = "evaluate"
          /\ UNCHANGED exits
       \/ /\ CheckNeedsLedger
          /\ pc' = "notice"
          /\ UNCHANGED <<admitted, exits>>
       \/ /\ CheckNeedsLedger /\ Faults
          /\ Finish(1)
          /\ UNCHANGED admitted
    /\ UNCHANGED <<assoc, run, should, successSet, success, branchLocal, committed,
                   comments, remote, prs>>

\* Lines 47-52: issue.create_comment(limit notice); sys.exit(0).
Notice ==
    /\ pc = "notice"
    /\ \E o \in CallOutcomes :
         /\ Post("limit_notice", o)
         /\ Finish(IF o = "ok" THEN 0 ELSE 1)
    /\ UNCHANGED <<assoc, run, admitted, should, successSet, success, branchLocal,
                   committed, remote, prs>>

\* Lines 57-139: the repository context, the model's evaluation and its
\* parse.  Text json.loads rejects falls back to a clarification request;
\* JSON that is not an object makes evaluation.get raise.
Evaluate ==
    /\ pc = "evaluate"
    /\ \E resp \in Responses :
         CASE resp = "implementable" ->
                /\ should' = ShouldAutoImplement(assoc)
                /\ pc' = "post_plan"
                /\ UNCHANGED exits
           [] resp = "non_object" ->
                Finish(1) /\ UNCHANGED should
           [] OTHER ->
                pc' = "clarify" /\ UNCHANGED <<should, exits>>
    /\ UNCHANGED <<assoc, run, admitted, successSet, success, branchLocal,
                   committed,
                   comments, remote, prs>>

\* Variant of PostPlan that calls attempt_implementation whatever
\* should_implement says.
PostPlanUngated ==
    /\ pc = "post_plan"
    /\ \E o \in CallOutcomes :
         /\ Post(IF should THEN "plan_impl" ELSE "plan_only", o)
         /\ IF o = "ok"
              THEN pc' = "checkout" /\ UNCHANGED exits
              ELSE Finish(1)
    /\ UNCHANGED <<assoc, run, admitted, should, successSet, success,
                   branchLocal, committed, remote, prs>>

\* Variant of PostPlan that catches an exception of create_comment and
\* goes on as if the comment had been posted.
PostPlanIgnoresFailure ==
    /\ pc = "post_plan"
    /\ \E o \in CallOutcomes :
         /\ Post(IF should THEN "plan_impl" ELSE "plan_only", o)
         /\ pc' = IF should THEN "checkout" ELSE "followup"
         /\ UNCHANGED exits
    /\ UNCHANGED <<assoc, run, admitted, should, successSet, success,
                   branchLocal, committed, remote, prs>>

\* Lines 139-185: the plan comment, announcing an implementation when
\* should_implement holds; attempt_implementation follows it, and the
\* other branch goes on to line 187 without assigning success.
PostPlan ==
    /\ pc = "post_plan"
    /\ \E o \in CallOutcomes :
         /\ Post(IF should THEN "plan_impl" ELSE "plan_only", o)
         /\ IF o = "ok"
              THEN /\ pc' = IF should THEN "checkout" ELSE "followup"
                   /\ UNCHANGED exits
              ELSE Finish(1)
    /\ UNCHANGED <<assoc, run, admitted, should, successSet, success, branchLocal,
                   committed, remote, prs>>

\* Lines 227-275: git checkout -b branch_name, whose status is ignored,
\* then the model's implementation (create_claude_conversation returns a
\* string and never raises).
Checkout ==
    /\ pc = "checkout"
    /\ \E ok \in GitOutcomes : branchLocal' = ok
    /\ pc' = "write"
    /\ UNCHANGED <<assoc, run, admitted, should, successSet, success, committed,
                   comments, remote, prs, exits>>

\* Lines 283-286: the plan file is written; an OSError is caught at 346
\* and attempt_implementation returns False.
Write ==
    /\ pc = "write"
    /\ \/ pc' = "commit" /\ UNCHANGED <<successSet, success>>
       \/ Faults /\ pc' = "followup" /\ success' = FALSE /\ successSet' = TRUE
    /\ UNCHANGED <<assoc, run, admitted, should, branchLocal, committed,
                   comments, remote, prs, exits>>

\* Lines 288-293: git add and git commit, whose status is ignored.
Commit ==
    /\ pc = "commit"
    /\ \E ok \in GitOutcomes : committed' = ok
    /\ pc' = "push"
    /\ UNCHANGED <<assoc, run, admitted, should, successSet, success, branchLocal,
                   comments, remote, prs, exits>>

\* Lines 295-303: git push -u; a non-zero status returns False.  GitHub
\* refuses a branch that exists already (the commits differ), and git
\* fails without a local branch.  The push may also complete after
\* run_command's 300 s timeout has reported status 1.
Push ==
    /\ pc = "push"
    /\ \E o \in CallOutcomes :
         LET accepted == branchLocal /\ Branch(run) \notin remote
                           /\ o # "fails"
         IN  /\ remote' = IF accepted THEN remote \cup {Branch(run)}
                                      ELSE remote
             /\ IF accepted /\ o = "ok"
                  THEN pc' = "create_pull" /\ UNCHANGED <<successSet, success>>
                  ELSE pc' = "followup" /\ success' = FALSE /\ successSet' = TRUE
    /\ UNCHANGED <<assoc, run, admitted, should, branchLocal, committed,
                   comments, prs, exits>>

\* Lines 305-336: repo.create_pull(draft=True).  GitHub refuses a head
\* with no commit over the base and a head that has a pull request; the
\* exception is caught at 346 and the method returns False.
CreatePull ==
    /\ pc = "create_pull"
    /\ \E o \in CallOutcomes :
         LET accepted == committed /\ o # "fails"
                           /\ \A pr \in prs : pr.head # Branch(run)
         IN  /\ prs' = IF accepted
                         THEN prs \cup {[run |-> run, head |-> Branch(run)]}
                         ELSE prs
             /\ IF accepted /\ o = "ok"
                  THEN pc' = "link" /\ UNCHANGED <<successSet, success>>
                  ELSE pc' = "followup" /\ success' = FALSE /\ successSet' = TRUE
    /\ UNCHANGED <<assoc, run, admitted, should, branchLocal, committed,
                   comments, remote, exits>>

\* Lines 338-350: the comment linking the pull request, then return True;
\* an exception of create_comment returns False.
Link ==
    /\ pc = "link"
    /\ \E o \in CallOutcomes :
         /\ Post("pr_link", o)
         /\ success' = (o = "ok")
    /\ successSet' = TRUE
    /\ pc' = "followup"
    /\ UNCHANGED <<assoc, run, admitted, should, branchLocal, committed,
                   remote, prs, exits>>

\* Lines 187-192: if not success, the follow-up comment.  With success
\* never assigned the name lookup raises UnboundLocalError.
Followup ==
    /\ pc = "followup"
    /\ CASE ~successSet -> Finish(1) /\ UNCHANGED comments
         [] success -> Finish(0) /\ UNCHANGED comments
         [] OTHER -> \E o \in CallOutcomes :
                       /\ Post("difficulty", o)
                       /\ Finish(IF o = "ok" THEN 0 ELSE 1)
    /\ UNCHANGED <<assoc, run, admitted, should, successSet, success, branchLocal,
                   committed, remote, prs>>

\* Lines 194-217: the clarification request.
Clarify ==
    /\ pc = "clarify"
    /\ \E o \in CallOutcomes :
         /\ Post("clarify", o)
         /\ Finish(IF o = "ok" THEN 0 ELSE 1)
    /\ UNCHANGED <<assoc, run, admitted, should, successSet, success, branchLocal,
                   committed, remote, prs>>

\* A maintainer re-runs the finished workflow: a fresh runner and checkout
\* replay the same issue event.
ReRun ==
    /\ pc = "done"
    /\ run < MaxRuns
    /\ run' = run + 1
    /\ pc' = "load"
    /\ should' = FALSE
    /\ successSet' = FALSE
    /\ success' = FALSE
    /\ branchLocal' = FALSE
    /\ committed' = FALSE
    /\ UNCHANGED <<assoc, admitted, comments, remote, prs, exits>>

Next ==
    \/ Load \/ Check \/ Notice \/ Evaluate \/ PostPlan \/ Clarify
    \/ Checkout \/ Write \/ Commit \/ Push \/ CreatePull \/ Link
    \/ Followup \/ ReRun

Spec == Init /\ [][Next]_vars

-----------------------------------------------------------------------------
\* Properties.

\* The comments run r posted.
KindsOf(r) == {comments[i].kind : i \in {j \in 1..Len(comments) :
                                          comments[j].run = r}}

(***************************************************************************)
(* A run the rate limiter turned away posts the limit notice and nothing  *)
(* else, and a run it admitted never posts the notice: check_issue_       *)
(* evaluation's verdict decides which comments evaluate_issue writes.     *)
(***************************************************************************)
DenialDecidesComments ==
    \A i \in 1..Len(comments) :
        (comments[i].kind = "limit_notice") <=> (comments[i].run \notin admitted)

(***************************************************************************)
(* Nothing is pushed and no pull request is opened for an author whom     *)
(* should_auto_implement excludes, over all runs and re-runs, whatever    *)
(* GitHub or git fail.                                                    *)
(***************************************************************************)
ImplementationGated ==
    remote # {} \/ prs # {} => ShouldAutoImplement(assoc)

(***************************************************************************)
(* Every pull request was opened by a run that had announced it on the    *)
(* issue with the plan comment: attempt_implementation never starts      *)
(* unless create_comment of line 161 returned.                           *)
(***************************************************************************)
PRAnnounced ==
    \A pr \in prs : "plan_impl" \in KindsOf(pr.run)

(***************************************************************************)
(* When GitHub and git do not fail, every run ends with exit status 0:     *)
(* only an API error reaches main's handler.                              *)
(***************************************************************************)
CleanRunsSucceed ==
    \A i \in 1..Len(exits) : exits[i] = 0

(***************************************************************************)
(* A run that tells the author it "encountered some difficulties          *)
(* implementing this" (line 189) has opened no pull request.              *)
(***************************************************************************)
DifficultyMeansNoPR ==
    \A r \in Runs :
        "difficulty" \in KindsOf(r) => \A pr \in prs : pr.run # r
=============================================================================
