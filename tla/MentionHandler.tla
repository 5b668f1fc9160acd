--------------------------- MODULE MentionHandler ---------------------------
(***************************************************************************)
(* main, handle_pr_mention and handle_issue_mention of                    *)
(* .github/scripts/claude_mention_handler.py: the workflow runs of the    *)
(* comment and review events that mention @claude, one after the other,   *)
(* on one UTC day.  A run loads the repository, dispatches on the event   *)
(* name, checks the author's mention limit (check_mention_response, one   *)
(* step here, detailed in RateLimiter), and answers on the PR (with its   *)
(* diff) or on the issue.  Every GitHub call may raise before taking      *)
(* effect or lose its reply after it (when Faults); main catches nothing, *)
(* so an exception ends the run with status 1.                            *)
(***************************************************************************)
EXTENDS Integers, FiniteSets, Config

CONSTANTS
    Users,     \* GitHub logins of the comment authors
    Assocs,    \* author_association values the events carry
    MaxRuns,   \* bound: the number of events (workflow runs)
    Faults     \* whether GitHub calls may fail

ASSUME MentionAssumption ==
    /\ Users # {} /\ Assocs # {}
    /\ MaxRuns \in Nat
    /\ Faults \in BOOLEAN
    /\ Limit("mention") \in Nat
    /\ ExemptTeamMembers \in BOOLEAN

Runs == 1..MaxRuns

\* GITHUB_EVENT_NAME: the three kinds main handles, and any other.
EventNames == {"issue_comment", "pull_request_review",
               "pull_request_review_comment", "other"}

\* An event: its name, whether its issue has a "pull_request" key (line
\* 151, meaningful for issue_comment), its author and author_association.
Events == [name : EventNames, onPR : BOOLEAN, user : Users, assoc : Assocs]

\* The handler that answers a run: handle_pr_mention or handle_issue_mention.
Handlers == {"none", "pr", "issue"}

\* The thread an event belongs to: a review or review comment is on a PR;
\* an issue comment is on a PR exactly when its issue has "pull_request".
Thread(e) == IF e.name = "issue_comment" /\ ~e.onPR THEN "issue" ELSE "pr"

CallOutcomes == IF Faults THEN {"ok", "fails", "reply_lost"} ELSE {"ok"}

PCs == {"idle", "load", "dispatch", "pr", "issue", "done"}

VARIABLES
    run,       \* the number of runs started
    pc,        \* the program point of the current run
    event,     \* per run: the event that started it
    used,      \* per user: the mention slots of the day in the ledger
    slot,      \* per run: whether its check recorded a slot
    admitted,  \* per run: whether check_mention_response returned allowed
    replied,   \* per run: the handler whose reply comment was posted
    exit       \* per run: its exit status, -1 while it has not ended

vars == <<run, pc, event, used, slot, admitted, replied, exit>>

\* The event of a run not started yet.
NoEvent == [name |-> "other", onPR |-> FALSE, user |-> CHOOSE u \in Users : TRUE,
            assoc |-> CHOOSE a \in Assocs : TRUE]

TypeOK ==
    /\ run \in 0..MaxRuns
    /\ pc \in PCs
    /\ event \in [Runs -> Events]
    /\ used \in [Users -> Nat]
    /\ slot \in [Runs -> BOOLEAN]
    /\ admitted \in [Runs -> BOOLEAN]
    /\ replied \in [Runs -> Handlers]
    /\ exit \in [Runs -> {-1, 0, 1}]

Init ==
    /\ run = 0
    /\ pc = "idle"
    /\ event = [r \in Runs |-> NoEvent]
    /\ used = [u \in Users |-> 0]
    /\ slot = [r \in Runs |-> FALSE]
    /\ admitted = [r \in Runs |-> FALSE]
    /\ replied = [r \in Runs |-> "none"]
    /\ exit = [r \in Runs |-> -1]

\* The current run ends with status s.
Finish(s) ==
    /\ pc' = "done"
    /\ exit' = [exit EXCEPT ![run] = s]

\* An event starts the workflow once the previous run ended.
Start ==
    /\ pc \in {"idle", "done"}
    /\ run < MaxRuns
    /\ run' = run + 1
    /\ \E e \in Events : event' = [event EXCEPT ![run + 1] = e]
    /\ pc' = "load"
    /\ UNCHANGED <<used, slot, admitted, replied, exit>>

\* Lines 128-133: get_repo, and the RateLimiter (another get_repo).
Load ==
    /\ pc = "load"
    /\ \E o \in CallOutcomes \ {"reply_lost"} :
          IF o = "ok" THEN pc' = "dispatch" /\ UNCHANGED exit
                      ELSE Finish(1)
    /\ UNCHANGED <<run, event, used, slot, admitted, replied>>

\* Variant of MentionCheck that denies only when the author's mentions
\* exceed the limit (current > limit instead of current >= limit at
\* rate_limiter.py 135).
MentionCheckOffByOne(handler) ==
    LET u == event[run].user
    IN  \/ /\ \/ ExemptTeamMembers /\ event[run].assoc \in TeamAssocs
              \/ Limit("mention") = 0
           /\ admitted' = [admitted EXCEPT ![run] = TRUE]
           /\ pc' = handler
           /\ UNCHANGED <<used, slot, exit>>
        \/ /\ ~(ExemptTeamMembers /\ event[run].assoc \in TeamAssocs)
           /\ Limit("mention") > 0
           /\ \E o \in CallOutcomes :
                \/ /\ o = "fails"
                   /\ Finish(1)
                   /\ UNCHANGED <<used, slot, admitted>>
                \/ /\ o # "fails" /\ used[u] > Limit("mention")
                   /\ Finish(0)
                   /\ UNCHANGED <<used, slot, admitted>>
                \/ /\ o # "fails" /\ used[u] <= Limit("mention")
                   /\ used' = [used EXCEPT ![u] = @ + 1]
                   /\ slot' = [slot EXCEPT ![run] = TRUE]
                   /\ IF o = "ok"
                        THEN /\ admitted' = [admitted EXCEPT ![run] = TRUE]
                             /\ pc' = handler
                             /\ UNCHANGED exit
                        ELSE Finish(1) /\ UNCHANGED admitted

\* check_mention_response (rate_limiter.py 118-141) for the current run's
\* author, then the run's denial exit (sys.exit(0)) or its handler.
MentionCheck(handler) ==
    LET u == event[run].user
    IN  \/ /\ \/ ExemptTeamMembers /\ event[run].assoc \in TeamAssocs
              \/ Limit("mention") = 0
           /\ admitted' = [admitted EXCEPT ![run] = TRUE]
           /\ pc' = handler
           /\ UNCHANGED <<used, slot, exit>>
        \/ /\ ~(ExemptTeamMembers /\ event[run].assoc \in TeamAssocs)
           /\ Limit("mention") > 0
           /\ \E o \in CallOutcomes :
                \/ /\ o = "fails"
                   /\ Finish(1)
                   /\ UNCHANGED <<used, slot, admitted>>
                \/ /\ o # "fails" /\ used[u] >= Limit("mention")
                   /\ Finish(0)
                   /\ UNCHANGED <<used, slot, admitted>>
                \/ /\ o # "fails" /\ used[u] < Limit("mention")
                   /\ used' = [used EXCEPT ![u] = @ + 1]
                   /\ slot' = [slot EXCEPT ![run] = TRUE]
                   /\ IF o = "ok"
                        THEN /\ admitted' = [admitted EXCEPT ![run] = TRUE]
                             /\ pc' = handler
                             /\ UNCHANGED exit
                        ELSE Finish(1) /\ UNCHANGED admitted

\* Variant of Dispatch whose pull_request_review_comment branch checks the
\* limit but never calls handle_pr_mention (line 192 missing).
DispatchDropsReviewComment ==
    /\ pc = "dispatch"
    /\ \/ /\ event[run].name \in {"issue_comment", "pull_request_review"}
          /\ MentionCheck(Thread(event[run]))
       \/ /\ event[run].name = "pull_request_review_comment"
          /\ MentionCheck("done")
       \/ /\ event[run].name = "other"
          /\ Finish(1)
          /\ UNCHANGED <<used, slot, admitted>>
    /\ UNCHANGED <<run, event, replied>>

\* Variant of Dispatch whose pull_request_review branch ignores a denial
\* (lines 168-170 missing).
DispatchReviewIgnoresDenial ==
    /\ pc = "dispatch"
    /\ \/ /\ event[run].name # "other"
          /\ MentionCheck(Thread(event[run]))
       \/ /\ event[run].name = "pull_request_review"
          /\ used[event[run].user] >= Limit("mention")
          /\ pc' = "pr"
          /\ UNCHANGED <<used, slot, admitted, exit>>
       \/ /\ event[run].name = "other"
          /\ Finish(1)
          /\ UNCHANGED <<used, slot, admitted>>
    /\ UNCHANGED <<run, event, replied>>

\* Lines 136-196: each of the three event kinds checks the limit, then an
\* issue comment goes to handle_pr_mention when its issue has a
\* "pull_request" key and to handle_issue_mention otherwise; reviews and
\* review comments go to handle_pr_mention.  Any other event exits 1.
Dispatch ==
    /\ pc = "dispatch"
    /\ \/ /\ event[run].name # "other"
          /\ MentionCheck(Thread(event[run]))
       \/ /\ event[run].name = "other"
          /\ Finish(1)
          /\ UNCHANGED <<used, slot, admitted>>
    /\ UNCHANGED <<run, event, replied>>

\* A handler fetches its thread with outcome f, then posts its reply with
\* outcome o (the diff and the model's answer never raise).
Answer(h, f, o) ==
    /\ replied' = [replied EXCEPT ![run] =
                     IF f = "ok" /\ o # "fails" THEN h ELSE @]
    /\ Finish(IF f = "ok" /\ o = "ok" THEN 0 ELSE 1)

\* handle_pr_mention (lines 18-67): get_pull, the diff, the model's answer
\* and pr.create_issue_comment.
HandlePR ==
    /\ pc = "pr"
    /\ \E f \in CallOutcomes \ {"reply_lost"}, o \in CallOutcomes :
          Answer("pr", f, o)
    /\ UNCHANGED <<run, event, used, slot, admitted>>

\* handle_issue_mention (lines 70-110): get_issue, the model's answer and
\* issue.create_comment.
HandleIssue ==
    /\ pc = "issue"
    /\ \E f \in CallOutcomes \ {"reply_lost"}, o \in CallOutcomes :
          Answer("issue", f, o)
    /\ UNCHANGED <<run, event, used, slot, admitted>>

Next == Start \/ Load \/ Dispatch \/ HandlePR \/ HandleIssue

Spec == Init /\ [][Next]_vars

\* The runner executes a started run to its end: each of its steps is a
\* call that returns or raises, so a step that stays enabled is taken.
\* New events are not assumed to arrive.
FairSpec == Spec /\ WF_vars(Load \/ Dispatch \/ HandlePR \/ HandleIssue)

(***************************************************************************)
(* A reply is posted only for a run that check_mention_response admitted *)
(* (a denial exits 0 without a comment), by the handler of the event's    *)
(* thread (handle_pr_mention for a PR, so that the diff is in the         *)
(* prompt); and only the three supported event kinds take a mention slot. *)
(***************************************************************************)
ReplyGated ==
    \A r \in Runs :
        /\ replied[r] # "none" => admitted[r] /\ replied[r] = Thread(event[r])
        /\ slot[r] => event[r].name # "other"

(***************************************************************************)
(* The mention handler implements the metered-service promise with one    *)
(* key per author: a run recorded a slot of its author only while fewer   *)
(* than mentions_per_user_per_day were recorded for them, it passed       *)
(* without a slot only when the limit is 0 or exempt_team_members is on,  *)
(* and it posts its reply once, after one of the two.                     *)
(***************************************************************************)
Service == INSTANCE MeteredService
               WITH Keys <- Users, Budget <- Limit("mention"),
                    Exemptible <- ExemptTeamMembers,
                    charged <- [u \in Users |->
                                  {r \in Runs : slot[r] /\ event[r].user = u}],
                    waived <- {r \in Runs : admitted[r] /\ ~slot[r]},
                    served <- {r \in Runs : replied[r] # "none"}

ServiceRefinement == Service!Spec

(***************************************************************************)
(* Every mention the limiter admits is answered: the run goes on to post  *)
(* its reply, unless a GitHub call raises and the run exits 1.            *)
(***************************************************************************)
MentionAnswered ==
    \A r \in Runs : admitted[r] ~> (replied[r] # "none" \/ exit[r] = 1)

=============================================================================
