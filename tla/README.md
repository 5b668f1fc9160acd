# Verification of the Claude automation scripts of dpup/prefab

This directory holds TLA+ models of the scripts under `.github/scripts/`.
It also holds the TLC configurations that check them and TLAPS proofs of
their main safety properties. `PROJECT.json` lists the components, runs,
mutants, the definition-to-source map, findings, hazards and theorems.

## The system

Three GitHub Actions entry points share one rate limiter:

| Script | What it does | Limiter call |
|---|---|---|
| `claude_issue_evaluator.py` | Evaluates a new issue. It may push a branch and open a draft PR. | `check_issue_evaluation` (per author, exemptible) |
| `claude_mention_handler.py` | Answers `@claude` mentions on issues and PRs. | `check_mention_response` (per author, exemptible) |
| `claude_code_review.py` | Reviews a PR. | `check_code_review` (one global counter under the actor `system`) |

`claude_utils.py` holds the client and git helpers. `run_command` never
raises, and its status is sometimes ignored. `create_claude_conversation`
never raises: on an API error it returns an `"Error: ..."` string.

`rate_limiter.py` keeps no state of its own. Its ledger is a GitHub issue
labelled `claude:rate-limit-tracker`, with one comment
`USAGE: date|user|op|count` per admission. A check runs these steps:

1. Find the tracker, or create it when there is none (`_get_rate_limit_issue`).
2. Read all comments and keep today's last count per key (`_parse_usage_from_comments`).
3. Compare the count with the limit.
4. Call `_increment_usage`. It reads the comments again, reads the clock
   again, and posts `count+1`.

Nothing locks the ledger, and any number of workflows may run at once.
Every GitHub call may fail; the exception ends the workflow (fail closed).

## Modules

| Module | Models | State and actions |
|---|---|---|
| `Config` | `_load_config`, every `config.get(...)`, `_is_team_member`, `should_auto_implement` | Constant `ConfigDoc` (the YAML document). No variables. |
| `UsageParser` | `_parse_usage_from_comments` and the review total | Operators over a sequence of structured records. `LastCount` is the last record of a key for a day (line 76). `ReviewTotal` sums it over the actors. |
| `RateLimiter` | the three `check_*` methods and the tracker issue | See below. |
| `IssueEvaluator` | `evaluate_issue`, `attempt_implementation`, `main` | See below. |
| `DailyQuota` | what the limiter promises (spec P2), not code | `used[day][actor][op]`, the day. `Admit` grants a use on a day that has begun while its count is below the limit; `NewDay`. |
| `CodeReview` | `perform_code_review`, `main` of `claude_code_review.py`, `get_changed_files` | See below. |
| `MentionHandler` | `main`, `handle_pr_mention`, `handle_issue_mention` | See below. |
| `MeteredService` | what a rate-limited entry point promises (spec 4.1, 4.3, 5), not code | `charged[key]` (runs holding a slot), `waived`, `served`. `Charge` takes a slot while the key holds fewer than `Budget`; `Waive` only when the limit is 0 or the operation is exemptible; `Serve` once, after one of the two. |
| `RateLimiterProofs`, `IssueEvaluatorProofs`, `CodeReviewProofs`, `MentionHandlerProofs` | TLAPS proofs | |
| `RateLimiterRefinement` | TLAPS proof that `RateLimiter` with one slot implements `DailyQuota` | Proof-only definitions: the ledger `Led`, the floor day `Floor`, the inductive invariant `RefInv`, a sum lemma for `SumOver`. |
| `MCRateLimiter`, `MCIssueEvaluator`, `MCCodeReview`, `MCMentionHandler` | configuration documents for TLC | |

**RateLimiter.** The three checks are one state machine, with the
operation, the actor and `author_association` as the request. There are
`Procs` workflow slots. Each slot has a program counter `pc` whose values
are the points between calls:

| Action | Code |
|---|---|
| `GetIssues` | `get_issues` (newest tracker first) |
| `CreateIssue` | `create_issue` |
| `ParseToday` | the clock read inside a parse |
| `CheckUsage` | the check's `get_comments` and the comparison |
| `IncrementRead` | the re-read in `_increment_usage` |
| `IncrementToday` | the second clock read (line 85) |
| `CreateComment` | the posted record |
| `ApiFails` | a GitHub call raising before it took effect |
| `Midnight` | the UTC day advancing |

`CreateIssue` and `CreateComment` also have a disjunct where the effect
happens but the reply is lost. `trackers` is the sequence of open tracker
issues, each a sequence of records. `grants` is a history variable: the
admissions returned, per admitting day and key.

**IssueEvaluator.** Models one issue, its workflow run and the re-runs a
maintainer may start. The actions follow the code in order:

1. `Load`: `get_repo`, `get_issue`.
2. `Check`: the limiter as one step. It allows, or it denies or raises,
   but only when the check needs the ledger.
3. `Notice`: the limit notice, on a denial.
4. `Evaluate`: the model's answer, abstracted to four parse outcomes: an
   implementable object, another object, unparseable text, and JSON that
   is not an object.
5. `PostPlan` or `Clarify`: the evaluation comment.
6. `Checkout`, `Write`, `Commit`, `Push`, `CreatePull`, `Link`: the steps
   of `attempt_implementation`.
7. `Followup`: lines 187-192.
8. `ReRun`: a re-run of the finished workflow.

Each GitHub call takes effect and returns, raises before taking effect,
or takes effect with its reply lost (`CallOutcomes`). Git commands
succeed or fail (`GitOutcomes`). GitHub refuses a push to a branch that
exists, and a PR whose head has no commit or already has a PR.
`successSet`/`success` model the local `success`, which one path never
assigns.

**CodeReview.** Pull-request events are handled one run after the other
on one day (the workflow's runs for one repository; the race between
concurrent runs is the limiter's and is checked in `RateLimiter`). A run
steps through `Load` (lines 33-40), `Skip` (draft and skip-label exits,
43-51), `Check` (`check_code_review` as one step: no slot when the limit
is 0, a denial, a failure before the record, or a slot whose reply may be
lost), `Notice` (58-61), `Files` (69-86 with `get_changed_files`, which
returns no files when `git diff` fails), `TooMany` (82-86) and `Review`
(89-156). `used` is the day's review count in the ledger; `slot`,
`admitted`, `changed`, `posted` and `exit` are per run. The model's
answer is abstracted: it never raises, and its text is not modelled.

**MentionHandler.** Comment and review events are handled one run after
the other. `Load` is `get_repo` and the limiter's construction; `Dispatch`
is lines 136-196: each supported event kind calls
`check_mention_response` (exemption, unlimited, denial exiting 0, slot,
failures) and hands the run to `handle_pr_mention` or
`handle_issue_mention` by `Thread` (an issue comment whose issue has a
`pull_request` key goes to the PR handler); any other event exits 1.
`HandlePR` and `HandleIssue` fetch the thread and post the reply, either
of which may raise. `used` counts the mention slots per user.

## Runs

| Run | cfg | Result | Shows |
|---|---|---|---|
| `limiter_concurrent` | `MCRateLimiter.cfg` | pass, 11.4 M states | `TypeOK`, `NoPhantomUsage`: no record claims more uses than the ledger holds for its key |
| `limiter_sequential` | `MCSequential.cfg` | pass, 12 K states | `QuotaRefinement`: with one workflow at a time the limiter implements `DailyQuota` (see Refinement); `MeteredAppends`: only a request that is neither exempt nor unlimited appends a usage record (the early returns at lines 98-99 and 103-104 never write) |
| `overshoot` | `MCOvershoot.cfg` | violation | `RaceOvershootBounded` (the spec's limit + racers − 1) fails: duplicate trackers admit 3 uses with limit 1 and 2 workflows |
| `monotone` | `MCMonotone.cfg` | violation | `SnapshotMonotone` fails: a stale racer's later, lower count lowers the day's count (last-wins parse, not the spec's max) |
| `day_isolation` | `MCDayIsolation.cfg` | violation | `DayIsolation` fails: midnight between lines 84 and 85 posts yesterday's count under today |
| `evaluator` | `MCIssueEvaluator.cfg` | pass, 8.8 K states | `DenialDecidesComments`, `ImplementationGated`, `PRAnnounced` |
| `evaluator_clean` | `MCEvalClean.cfg` | violation | `CleanRunsSucceed` fails: with no faults a run still exits 1 (non-object JSON at 139; unbound `success` at 187) |
| `evaluator_difficulty` | `MCEvalDifficulty.cfg` | violation | `DifficultyMeansNoPR` fails: the author is told of difficulties although the PR was opened |
| `review` | `MCCodeReview.cfg` | pass, 179 K states | `SkipsAreFree`: skipped PRs take no slot and get no comment; `ReviewGated`: a review needs an admitted, unskipped PR within the file window, and reviews never exceed `reviews_per_day`; `ServiceRefinement`: `CodeReview` implements `MeteredService` for the key `system` |
| `review_unlimited` | `MCReviewUnlimited.cfg` | pass, 461 K states | `ReviewGated` with `reviews_per_day` 0 (no slot taken), drafts reviewed, window 2..3 |
| `review_slots` | `MCReviewSlots.cfg` | violation | `SlotsBuyReviews` fails with no fault at all: a PR with no changed files (or too many) takes a review slot at line 54 and exits 0 without a review |
| `mention` | `MCMentionHandler.cfg` | pass, 2.4 M states | `ReplyGated`: replies only for admitted runs, by the thread's handler, and slots only for supported events; `MentionAnswered` (liveness): every admitted mention is answered unless a call raises; `ServiceRefinement`: `MentionHandler` implements `MeteredService` with one key per author |

**Bounds.**
- *Limiter runs.* The concurrent run has two slots, two days, four runs,
  one user plus `system`, and the associations `NONE` and `OWNER`. Its
  limits are 2 for issue evaluations and 0 (unlimited) for reviews, and
  exemption is off. That is enough for two racers, duplicate trackers,
  lost replies and a midnight, and for a limit of 2 to be reached. The
  sequential run has one slot, five runs and limit 1.
  It keeps exemption on (the default) and mentions unlimited, so exempt,
  unlimited, admitted and denied requests all occur. `MeteredOnly` proves
  `MeteredAppends` for any number of racing slots.
- *Evaluator runs.* These have three runs (two re-runs) and both kinds of
  author. The configuration has no file, so the defaults hold: team
  members are implemented and external authors are not.
- *Code-review runs.* Three events with every draft/label/file-count
  combination and faults on. `review` has two slots and a window 1..2, so
  the limit is reached, and both file-count exits and the limit notice
  happen; `review_unlimited` takes the `reviews_per_day: 0` branch and a
  window 2..3 (so `min_files_changed` rejects 1 file).
- *Mention run.* Three events of every kind, two users with limit 1 (so a
  second non-exempt mention of one author is denied while the other
  author's is admitted: the per-author keys of `ServiceRefinement`), and a
  team and a non-team association (so the exemption and the denial both
  happen).
- *Deadlock checking.* All cfgs turn it off, because the model stops when
  the run bound is spent.

**Mutants.** Each property of a passing run is broken by a plausible bug
in the code it is about (`PROJECT.json`, `mutants`). For example:
- `>` instead of `>=` breaks `QuotaRefinement`;
- summing counts instead of keeping the last breaks `NoPhantomUsage`;
- an inverted `if not allowed` breaks `DenialDecidesComments`;
- a missing `if should_implement` breaks `ImplementationGated`;
- swallowing a failed plan comment breaks `PRAnnounced`;
- forgetting the skip label breaks `SkipsAreFree`;
- dropping the `max_files_changed` test breaks `ReviewGated`;
- a review branch that ignores a denial breaks `ReplyGated`;
- a review-comment branch that never calls its handler breaks
  `MentionAnswered`.

**Fairness.** Only `MentionHandler` has a fairness assumption:
`FairSpec` adds weak fairness of the run's own steps (`Load`, `Dispatch`,
`HandlePR`, `HandleIssue`). The runner executes a started job to its end,
and each step is a call that returns or raises, so a step that stays
enabled is taken. No fairness is put on `Start`: new events are not
assumed to arrive. A GitHub call cannot hang: PyGithub's requester has a
default timeout, so a stalled call raises, and the model treats that as
a call that fails.

**Refinement.** `DailyQuota` is the abstract limiter: a use is granted on
a day that has begun, while its count is below the limit. `RateLimiter`
maps its history variable `grants` to `used`
(`Quota == INSTANCE DailyQuota WITH used <- grants`), and
`limiter_sequential` checks `Quota!Spec` as a property. With one workflow
at a time every admission is an `Admit` step and every midnight a
`NewDay` step. With two workflows the refinement fails, as `overshoot`
shows.

`MeteredService` is what each entry point promises on top of the limiter.
A run is served (a review or reply posted) only after it was charged a
slot of its key while the key held fewer than `Budget`, or was let
through without one: only for limit 0 or an exemption, and reviews are
never exempt. `CodeReview` maps `charged` to the runs with a review slot
(one key, `system`), `waived` to the runs admitted without a slot, and
`served` to the runs that posted a review. `MentionHandler` does the same
with one key per author. The `review` and `mention` runs check
`Service!Spec` as the property `ServiceRefinement`.

## Proofs

### `RateLimiterProofs`

Both theorems hold for every value of the constants under
`ConstantsAssumption`: finite non-empty slots, limits in `Nat`, and a
Boolean `exempt_team_members`.

- **`TypeCorrect`:** `Spec => []TypeOK`. The inductive invariant is
  `TypeInv = TypeOK /\ TrackerHeld`. `TrackerHeld` says every slot past
  `get_issues` holds the index of an existing tracker. Without it,
  `trackers[tk[p]]` is not known to be a sequence of records.
- **`NoPhantom`:** `Spec => []NoPhantomUsage`. The inductive invariant
  `PhantomInv` adds two facts to `TypeInv`. First, every tracker is
  `Backed`: each record's count is at most the number of records of its
  key in that tracker. Second, `PendingBacked`: a slot between the re-read
  and the post holds a `new_count` at most that number + 1.
  - `IncrementRead` keeps `PendingBacked` by `LastCountBacked`: the last
    count of a backed tracker is at most its key count.
  - `CreateComment` keeps `Backed` by `AppendBacked`. It keeps the other
    slots' `PendingBacked` by `AppendKeyCount`: appending never lowers a
    key count.
  - `LastIndexIsMax` shows the `CHOOSE` of the last index exists, by
    well-foundedness of `<` on `Nat`.

  The invariant needs `PendingBacked` because a slot may post a count
  read long before, from a tracker that other slots have changed since.

- **`MeteredOnly`:** `Spec => MeteredAppends`, the action property of
  the `limiter_sequential` run. The inductive invariant `MeteredInv` adds to
  `TypeInv` that a slot past `idle` serves a metered request (neither
  exempt nor unlimited): `Start` lets only those past `idle`, and no
  other action changes a busy slot's request. `MeteredStep` then shows
  that a step changing a tracker's length is a `CreateComment` of such a
  slot.

### `RateLimiterRefinement`

**`SequentialRefinement`:** `Procs = {q} => (Spec => QuotaRefinement)`.
With one workflow the limiter implements `DailyQuota` under the mapping
`used[d][a][o] = grants[d][a][o]` (the admissions it returned). The
hypothesis is needed: with two workflows the `overshoot` run breaks the
quota. Each `CreateComment` that grants is `Quota!Admit(admitDay[q], u, o)`.
`Midnight` is `NewDay`. Every other step is a stutter.

The `Admit` guard `used < Limit` is the hard part. The code compares
the tracker's count with the limit (or, for reviews, the sum over all
actors) on a day it read earlier, and posts later. The inductive
invariant `RefInv` carries that comparison to the post:
- `OneTracker`: one slot never creates a second tracker, so the ledger
  `Led` is well defined;
- `DaysOrdered`: the day read at the check (`admitDay`), at the parse
  (`pday`) and at the write are ordered and never ahead of the clock;
- `GrantsBacked`: on and after the floor day `Floor(q)` every grant is
  at most the ledger's `LastCount` for that key, and after it nothing
  was granted. The floor is the day the slot's pending read refers to,
  so a midnight in between cannot invalidate the bound;
- `PendingCount`: the count the slot will post is `LastCount + 1`, and
  the grants on the check day were below the limit.

For reviews the guard compares `SumOver` of all actors' counts. The
lemma `SumOverBound` (one term is at most the sum) needs the sum's
recursive function to be solved for every finite set. `SumFnSolves`
shows this without an induction scheme: the cardinality of
`Blocks(f,S)` (one block of `f[y]` elements per `y`) solves the
recursion, and uniqueness is by a least counterexample (`WFMin` on
`Nat`).

### `IssueEvaluatorProofs`

The proofs hold for every set of associations, number of re-runs and
configuration document allowed by `EvaluatorAssumption`.

- `EvaluatorInvariant: Spec => []IInv`.
- `DenialDecides`, `Gated` and `Announced` follow from it. They state
  `DenialDecidesComments`, `ImplementationGated` and `PRAnnounced` for
  every instance.

`IInv` adds these facts to the three properties and `TypeOK`:
- `RunInv`: where the current run stands relative to its check. A run at
  its check has posted nothing, and runs past an admitting check are in
  `admitted`. Without it, a denial could concern comments the run had
  already posted.
- `GateInv`: `should_implement` is only ever `should_auto_implement`'s
  answer, and `attempt_implementation` runs only after the `plan_impl`
  comment.
- `AnnouncedInv`: the `plan_impl` comment of every PR's run.
- `success => successSet`: this makes `Followup`'s cases exclusive.

The `CASE` arms of `Evaluate` and `Followup` are lemmas proved with Zenon.
The step proof has one step per action, and under it one per invariant
conjunct the action can disturb.

### `CodeReviewProofs`

The proofs hold for every number of runs, review limit, file window and
skip setting, with or without faults (`ReviewAssumption`).

- `ReviewInvariant: Spec => []ReviewInv`.
- `SkipsFree` states `SkipsAreFree` for every instance.
- `ReviewsGated` states `ReviewGated` for every instance.

`ReviewInv` has three parts:
- `TypeOK`.
- `RunInv`: what the current run has established. It has passed the
  skips, been admitted, and counted its files; it posts nothing before it
  ends. This carries the guards of lines 43-86 to the post at line 155.
- `LedgerInv`: what ended runs left behind. In particular, under a review
  limit every admission has a slot, and the ledger count `used` equals
  `Cardinality(SlotRuns)` and stays at most the limit.

The review bound then follows: `ReviewRuns ⊆ SlotRuns`, by
`FS_Subset`. Recording a slot adds one to the count; the lemma `SlotAdd`
shows this from `FS_AddElement`.

- **`ReviewServiceRefinement`:** `Spec => ServiceRefinement`. `ReviewInv`
  is enough for every step. `ServiceStep` takes one case per action.
  - The slot of `Check` is `Charge("system", run)`: the run held no slot
    and no admission (`RunInv`), and `used = Cardinality(SlotRuns)`
    (`LedgerInv`), so the guard `used < reviews_per_day` is the abstract
    bound.
  - The admission with `reviews_per_day` 0 is a `Waive`.
  - A review comment that took effect is a `Serve`: the run is admitted
    and has posted nothing yet (`RunInv`).
  - All other steps leave slots, admissions and reviews alone
    (`ServiceStutter`).

### `MentionHandlerProofs`

The proofs hold for every set of users and associations, number of runs
and mention limit (`MentionAssumption`).

- `MentionInvariant: Spec => []MentionInv`.
- `RepliesGated` states `ReplyGated` for every instance.

`MentionInv` is `TypeOK /\ RunInv /\ ReplyGated`. `RunInv` says two
things about the current run:
- before its check it has no slot and no admission;
- at a handler it was admitted, and the handler is `Thread` of its event.

This carries the dispatch's decision to the reply. `CheckCases` sums up
`check_mention_response`'s outcomes as three cases.

- **`LedgerCounted`:** `Spec => [](MentionInv /\ LedgerCount)`.
  `LedgerCount` says each author's count `used[u]` is the number of their
  runs holding a slot (`SlotsOf(u)`). `MentionInv` is not enough to show
  the mention refinement, because the check compares `used[u]` while the
  abstract `Charge` counts slots. `Start` changes the event only of a run
  with no slot yet, which keeps the sets (`SlotsKept`); the slot step adds
  the run to its author's set only (`SlotsAdd`, `FS_AddElement`).
- **`MentionServiceRefinement`:** `Spec => ServiceRefinement`. This
  follows from `LedgerCounted`:
  - the exempt or unlimited admission is a `Waive` (`CheckStep`);
  - the slot is a `Charge` of the author's key;
  - a reply that took effect is a `Serve` (`AnswerStep`).

### What stays with TLC

The race bounds (`RaceOvershootBounded`, `SnapshotMonotone`,
`DayIsolation`) are violation runs, and so are model-checked only. The
`DailyQuota` refinement is proved for one workflow, which is when it
holds. With several workflows it fails, and TLC shows how. Liveness (`MentionAnswered`) and
`ENABLED` are beyond TLAPS and stay with TLC, as does
anything that needs induction over a recursive definition. `UsageParser`
uses a recursive function rather than a `RECURSIVE` operator so that it
can be proved about.

## Findings

The violation runs each show one disagreement between the code and what
the spec or a comment says. `PROJECT.json` (`findings`) gives each one's
source line. The code-review one is new:
`check_code_review` records the review slot at line 54. This happens
before the `min_files_changed` and `max_files_changed` exits of lines
76-86. So a PR with no changed files, or too many, uses up one of the
day's `reviews_per_day` and gets no review. A failing `git diff` also
yields no changed files, so it has the same effect.

## Not modelled, and the plan

- **Text encoding.** The USAGE text encoding (strip, split, `int()`) is
  abstracted. Malformed comments, and comments forged by other users on
  the public tracker, are not modelled.
- **Entry points in sequence.** `CodeReview` and `MentionHandler` run
  one workflow at a time and take the limiter as one step; their races on
  the ledger are those of `RateLimiter`. The missing-environment exits
  (`PR_NUMBER`, `GITHUB_EVENT_PATH`) are left out. The workflow files that
  set these variables are not in the repository, and an exit there
  happens before any state is touched. The model's answers are abstracted. In particular, a
  failed API call makes `create_claude_conversation` return an error text,
  which is posted as the review or the reply; this is listed as a hazard
  without a property.
- **Ledger environment.** Planned: comments forged by users, and the
  tracker closed by a human (which makes the next check create a new,
  empty one).
- **More proofs.** Planned: the refinement of `DailyQuota` by
  `RateLimiter` with one slot, in TLAPS. Its step proof needs the last-wins
  parse to equal the grant count, which `NoPhantom`'s invariant only
  bounds.
- **Out of scope.** Client construction, `get_repo_context`,
  `truncate_text` and the prompts are pure I/O or formatting. The LLM's
  text matters only through the four parse outcomes.
