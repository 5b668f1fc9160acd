----------------------------- MODULE CodeReview -----------------------------
(***************************************************************************)
(* perform_code_review and main of .github/scripts/claude_code_review.py: *)
(* the workflow runs of the pull-request events of a repository, one      *)
(* after the other, on one UTC day.  Each run loads the PR, skips drafts  *)
(* and PRs labelled skip-claude-review, takes a slot of the global daily  *)
(* review limit (check_code_review, one step here, detailed in            *)
(* RateLimiter), counts the changed files, and posts a limit notice, a    *)
(* too-many-files notice or the review.  Every GitHub call may raise      *)
(* before taking effect or lose its reply after it (when Faults); main    *)
(* turns any exception into exit status 1.                                *)
(***************************************************************************)
EXTENDS Integers, FiniteSets, Config

CONSTANTS
    MaxRuns,   \* bound: the number of pull-request events (workflow runs)
    Faults     \* whether GitHub calls and git commands may fail

ASSUME ReviewAssumption ==
    /\ MaxRuns \in Nat
    /\ Faults \in BOOLEAN
    /\ Limit("review") \in Nat
    /\ MinFiles \in Nat /\ MaxFiles \in Nat
    /\ SkipDraftPRs \in BOOLEAN /\ AllowSkipLabel \in BOOLEAN

Runs == 1..MaxRuns

\* What the event's PR looks like to the run: pr.draft, whether one of
\* pr.labels is "skip-claude-review", and how many files the branch
\* changes; file counts one past max_files_changed are enough to exceed it.
Events == [draft : BOOLEAN, label : BOOLEAN, files : 0..(MaxFiles + 1)]

\* The comments perform_code_review posts on the PR.
Kinds == {"limit_notice", "too_many_files", "review"}

\* "ok": the call took effect and returned; "fails": it raised before
\* taking effect; "reply_lost": it took effect, then raised.
CallOutcomes == IF Faults THEN {"ok", "fails", "reply_lost"} ELSE {"ok"}

\* The event of a run not started yet.
NoEvent == [draft |-> FALSE, label |-> FALSE, files |-> 0]

PCs == {"idle", "load", "skips", "check", "notice", "files", "too_many",
        "review", "done"}

VARIABLES
    run,       \* the number of runs started
    pc,        \* the program point of the current run
    event,     \* per run: the event that started it
    used,      \* the review slots of the day recorded in the ledger
    slot,      \* per run: whether its check recorded a slot
    admitted,  \* per run: whether check_code_review returned allowed
    changed,   \* per run: len(changed_files) as the run computed it
    posted,    \* per run: the comments it posted
    exit       \* per run: its exit status, -1 while it has not ended

vars == <<run, pc, event, used, slot, admitted, changed, posted, exit>>

TypeOK ==
    /\ run \in 0..MaxRuns
    /\ pc \in PCs
    /\ event \in [Runs -> Events]
    /\ used \in Nat
    /\ slot \in [Runs -> BOOLEAN]
    /\ admitted \in [Runs -> BOOLEAN]
    /\ changed \in [Runs -> 0..(MaxFiles + 1)]
    /\ posted \in [Runs -> SUBSET Kinds]
    /\ exit \in [Runs -> {-1, 0, 1}]

Init ==
    /\ run = 0
    /\ pc = "idle"
    /\ event = [r \in Runs |-> NoEvent]
    /\ used = 0
    /\ slot = [r \in Runs |-> FALSE]
    /\ admitted = [r \in Runs |-> FALSE]
    /\ changed = [r \in Runs |-> 0]
    /\ posted = [r \in Runs |-> {}]
    /\ exit = [r \in Runs |-> -1]

\* The current run ends with status s (sys.exit(s), or main's sys.exit(1)).
Finish(s) ==
    /\ pc' = "done"
    /\ exit' = [exit EXCEPT ![run] = s]

\* The current run posts a comment of kind k with a call of outcome o: on
\* "ok" it goes on to next (or exits with status s), otherwise it exits 1.
Post(k, o, s) ==
    /\ posted' = [posted EXCEPT ![run] = IF o = "fails" THEN @ ELSE @ \cup {k}]
    /\ Finish(IF o = "ok" THEN s ELSE 1)

\* A pull-request event starts the workflow once the previous run ended.
Start ==
    /\ pc \in {"idle", "done"}
    /\ run < MaxRuns
    /\ run' = run + 1
    /\ \E e \in Events : event' = [event EXCEPT ![run + 1] = e]
    /\ pc' = "load"
    /\ UNCHANGED <<used, slot, admitted, changed, posted, exit>>

\* Lines 33-40: get_repo, get_pull and the RateLimiter (another get_repo).
Load ==
    /\ pc = "load"
    /\ \E o \in CallOutcomes \ {"reply_lost"} :
          IF o = "ok" THEN pc' = "skips" /\ UNCHANGED exit
                      ELSE Finish(1)
    /\ UNCHANGED <<run, event, used, slot, admitted, changed, posted>>

\* The skip conditions of lines 43-51.
Skipped(e) == \/ SkipDraftPRs /\ e.draft
              \/ AllowSkipLabel /\ e.label

\* Variant of Skip that forgets the skip label (lines 47-51 missing).
SkipDraftOnly ==
    /\ pc = "skips"
    /\ IF SkipDraftPRs /\ event[run].draft
         THEN Finish(0)
         ELSE pc' = "check" /\ UNCHANGED exit
    /\ UNCHANGED <<run, event, used, slot, admitted, changed, posted>>

\* Lines 43-51: a draft PR, or one labelled skip-claude-review, exits 0
\* before the limit is checked.
Skip ==
    /\ pc = "skips"
    /\ IF Skipped(event[run])
         THEN Finish(0)
         ELSE pc' = "check" /\ UNCHANGED exit
    /\ UNCHANGED <<run, event, used, slot, admitted, changed, posted>>

\* Variant of Check that denies only when the day's slots exceed the limit
\* (current > limit instead of current >= limit at rate_limiter.py 157).
CheckOffByOne ==
    /\ pc = "check"
    /\ \/ /\ Limit("review") = 0
          /\ admitted' = [admitted EXCEPT ![run] = TRUE]
          /\ pc' = "files"
          /\ UNCHANGED <<used, slot, exit>>
       \/ /\ Limit("review") > 0
          /\ \E o \in CallOutcomes :
               \/ /\ o = "fails"
                  /\ Finish(1)
                  /\ UNCHANGED <<used, slot, admitted>>
               \/ /\ o # "fails" /\ used > Limit("review")
                  /\ pc' = "notice"
                  /\ UNCHANGED <<used, slot, admitted, exit>>
               \/ /\ o # "fails" /\ used <= Limit("review")
                  /\ used' = used + 1
                  /\ slot' = [slot EXCEPT ![run] = TRUE]
                  /\ IF o = "ok"
                       THEN /\ admitted' = [admitted EXCEPT ![run] = TRUE]
                            /\ pc' = "files"
                            /\ UNCHANGED exit
                       ELSE Finish(1) /\ UNCHANGED admitted
    /\ UNCHANGED <<run, event, changed, posted>>

\* Lines 54-62 with check_code_review (rate_limiter.py 143-165): no slot
\* when the limit is 0; a denial when the day's slots are all used;
\* otherwise a slot recorded by _increment_usage.  A ledger call may fail
\* before the record, or the record's reply may be lost.
Check ==
    /\ pc = "check"
    /\ \/ /\ Limit("review") = 0
          /\ admitted' = [admitted EXCEPT ![run] = TRUE]
          /\ pc' = "files"
          /\ UNCHANGED <<used, slot, exit>>
       \/ /\ Limit("review") > 0
          /\ \E o \in CallOutcomes :
               \/ /\ o = "fails"
                  /\ Finish(1)
                  /\ UNCHANGED <<used, slot, admitted>>
               \/ /\ o # "fails" /\ used >= Limit("review")
                  /\ pc' = "notice"
                  /\ UNCHANGED <<used, slot, admitted, exit>>
               \/ /\ o # "fails" /\ used < Limit("review")
                  /\ used' = used + 1
                  /\ slot' = [slot EXCEPT ![run] = TRUE]
                  /\ IF o = "ok"
                       THEN /\ admitted' = [admitted EXCEPT ![run] = TRUE]
                            /\ pc' = "files"
                            /\ UNCHANGED exit
                       ELSE Finish(1) /\ UNCHANGED admitted
    /\ UNCHANGED <<run, event, changed, posted>>

\* Lines 58-61: the limit notice, then exit 0.
Notice ==
    /\ pc = "notice"
    /\ \E o \in CallOutcomes : Post("limit_notice", o, 0)
    /\ UNCHANGED <<run, event, used, slot, admitted, changed>>

\* Variant of Files without the max_files_changed test (lines 80-86).
FilesNoMax ==
    /\ pc = "files"
    /\ \E gitOk \in IF Faults THEN BOOLEAN ELSE {TRUE} :
         LET n == IF gitOk THEN event[run].files ELSE 0
         IN  /\ changed' = [changed EXCEPT ![run] = n]
             /\ IF n < MinFiles
                  THEN Finish(0)
                  ELSE pc' = "review" /\ UNCHANGED exit
    /\ UNCHANGED <<run, event, used, slot, admitted, posted>>

\* Lines 69-86 with get_changed_files (claude_utils.py 59-65): a failing
\* git diff yields no files.  Fewer than min_files_changed exits 0 without
\* a comment; more than max_files_changed goes on to the notice.
Files ==
    /\ pc = "files"
    /\ \E gitOk \in IF Faults THEN BOOLEAN ELSE {TRUE} :
         LET n == IF gitOk THEN event[run].files ELSE 0
         IN  /\ changed' = [changed EXCEPT ![run] = n]
             /\ IF n < MinFiles
                  THEN Finish(0)
                  ELSE /\ pc' = IF n > MaxFiles THEN "too_many" ELSE "review"
                       /\ UNCHANGED exit
    /\ UNCHANGED <<run, event, used, slot, admitted, posted>>

\* Lines 82-86: the too-many-files notice, then exit 0.
TooMany ==
    /\ pc = "too_many"
    /\ \E o \in CallOutcomes : Post("too_many_files", o, 0)
    /\ UNCHANGED <<run, event, used, slot, admitted, changed>>

\* Lines 89-156: the diff and the model's answer (neither raises; an API
\* error comes back as the text of the review), then the review comment.
Review ==
    /\ pc = "review"
    /\ \E o \in CallOutcomes : Post("review", o, 0)
    /\ UNCHANGED <<run, event, used, slot, admitted, changed>>

Next ==
    \/ Start \/ Load \/ Skip \/ Check \/ Notice \/ Files \/ TooMany
    \/ Review

Spec == Init /\ [][Next]_vars

(***************************************************************************)
(* Skips cost nothing: a run for a draft PR (when skip_draft_prs) or a PR *)
(* labelled skip-claude-review (when allow_skip_label) records no review  *)
(* slot and posts no comment, because lines 43-51 come before the check   *)
(* of line 54.                                                             *)
(***************************************************************************)
SkipsAreFree ==
    \A r \in Runs : Skipped(event[r]) => ~slot[r] /\ posted[r] = {}

(***************************************************************************)
(* A review is posted only for a PR that is not skipped, that the limiter *)
(* admitted, and whose changed files were within min_files_changed and    *)
(* max_files_changed as the run counted them; and the day's reviews never *)
(* exceed reviews_per_day.                                                 *)
(***************************************************************************)
ReviewGated ==
    /\ \A r \in Runs :
          "review" \in posted[r] =>
              /\ ~Skipped(event[r]) /\ admitted[r]
              /\ changed[r] \in MinFiles..MaxFiles
    /\ Limit("review") > 0 =>
          Cardinality({r \in Runs : "review" \in posted[r]}) <= Limit("review")

(***************************************************************************)
(* perform_code_review implements the metered-service promise for the    *)
(* global review key: a run recorded a slot at line 54 only while fewer   *)
(* than reviews_per_day were recorded, it passed without a slot only when *)
(* reviews_per_day is 0 (reviews are never exempt), and it posts its      *)
(* review comment once, after one of the two.                             *)
(***************************************************************************)
Service == INSTANCE MeteredService
               WITH Keys <- {"system"}, Budget <- Limit("review"),
                    Exemptible <- FALSE,
                    charged <- [k \in {"system"} |-> {r \in Runs : slot[r]}],
                    waived <- {r \in Runs : admitted[r] /\ ~slot[r]},
                    served <- {r \in Runs : "review" \in posted[r]}

ServiceRefinement == Service!Spec

(***************************************************************************)
(* What reviews_per_day is for (spec: the global limit on automated code  *)
(* reviews): a run that takes a review slot and ends normally (exit 0)    *)
(* has posted a review.  check_code_review records the slot at line 54,   *)
(* before the file-count exits of lines 76-86.                            *)
(***************************************************************************)
SlotsBuyReviews ==
    \A r \in Runs : slot[r] /\ exit[r] = 0 => "review" \in posted[r]

=============================================================================
