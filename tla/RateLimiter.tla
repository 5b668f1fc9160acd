---------------------------- MODULE RateLimiter ----------------------------
(***************************************************************************)
(* The rate limiter of .github/scripts/rate_limiter.py, run by concurrent  *)
(* workflow invocations that share one GitHub tracker issue.  Each        *)
(* invocation calls one of check_issue_evaluation, check_mention_response *)
(* and check_code_review.  Every network call (get_issues, create_issue,  *)
(* get_comments, create_comment) and every read of the UTC clock          *)
(* (_get_today_key) is a step of its own, so that other invocations and   *)
(* midnight can fall between any two of them.  Any network call may raise *)
(* (GithubException); the exception ends the invocation.                  *)
(***************************************************************************)
EXTENDS Naturals, Sequences, FiniteSets, UsageParser, Config

CONSTANTS
    Procs,      \* workflow runs that may be in flight at the same time
    Users,      \* GitHub logins
    System,     \* the synthetic actor "system" of check_code_review
    Assocs,     \* author_association values the events carry
    MaxDay,     \* bound: the last UTC day of a behaviour
    MaxRuns     \* bound: the number of invocations of a behaviour

Ops == {"issue_eval", "mention", "review"}

\* The checks that look at exempt_team_members.
Exemptible == {"issue_eval", "mention"}

Actors == Users \cup {System}

Days == 1..MaxDay

ASSUME ConstantsAssumption ==
    /\ IsFiniteSet(Procs) /\ Procs # {}
    /\ IsFiniteSet(Users) /\ System \notin Users
    /\ MaxDay \in Nat \ {0}
    /\ MaxRuns \in Nat
    /\ Assocs # {}
    /\ \A op \in Ops : Limit(op) \in Nat
    /\ ExemptTeamMembers \in BOOLEAN

\* A comment "USAGE: date|user|op|count" on the tracker issue.
UsageRecord == [date : Days, user : Actors, op : Ops, count : Nat]

\* One call of a check_* method: the operation, the actor its usage is
\* counted under (the fixed "system" for reviews) and author_association.
Request == [op : Ops, user : Actors, assoc : Assocs]

\* The program points between the calls of a check_* method; "idle" is a
\* workflow slot with no check in progress.
PCs == {"idle", "get_issues", "create_issue", "p1_today", "p1_comments",
        "p2_today", "p2_comments", "inc_today", "create_comment"}

\* The program points where the next step is a GitHub API call.
NetworkPCs == {"get_issues", "create_issue", "p1_comments", "p2_comments",
               "create_comment"}

VARIABLES
    day,       \* the current UTC day
    trackers,  \* the open tracker issues, oldest first, each its comments
    pc,        \* per slot: the program point of its check
    req,       \* per slot: the request being checked
    tk,        \* per slot: the tracker issue it holds (index in trackers)
    pday,      \* per slot: today as read by the current _parse_usage...
    admitDay,  \* per slot: the day of the parse that admitted the request
    newCount,  \* per slot: new_count of _increment_usage
    wday,      \* per slot: today as read by _increment_usage (line 85)
    runs,      \* the number of invocations started so far
    grants     \* history: admissions returned, per admitting day and key

vars == <<day, trackers, pc, req, tk, pday, admitDay, newCount, wday,
          runs, grants>>

procVars == <<req, tk, pday, admitDay, newCount, wday>>

TypeOK ==
    /\ day \in Days
    /\ trackers \in Seq(Seq(UsageRecord))
    /\ pc \in [Procs -> PCs]
    /\ req \in [Procs -> Request]
    /\ tk \in [Procs -> Nat]
    /\ pday \in [Procs -> Days]
    /\ admitDay \in [Procs -> Days]
    /\ newCount \in [Procs -> Nat]
    /\ wday \in [Procs -> Days]
    /\ runs \in Nat
    /\ grants \in [Days -> [Actors -> [Ops -> Nat]]]

-----------------------------------------------------------------------------
\* Decisions of the check_* methods, with no API call.

\* The early return "Team member - no limits".
IsExempt(r) ==
    r.op \in Exemptible /\ ExemptTeamMembers /\ r.assoc \in TeamAssocs

\* The early return "No limit configured".
IsUnlimited(r) == Limit(r.op) = 0

\* current (check_issue_evaluation, check_mention_response) or total
\* (check_code_review) as computed from the comments c for day d.
CurrentUsage(c, d, r) ==
    IF r.op = "review" THEN ReviewTotal(c, d, Actors)
                       ELSE LastCount(c, d, r.user, r.op)

-----------------------------------------------------------------------------
Init ==
    /\ day = 1
    /\ trackers = <<>>
    /\ pc = [p \in Procs |-> "idle"]
    /\ req = [p \in Procs |-> [op |-> "review", user |-> System,
                               assoc |-> CHOOSE as \in Assocs : TRUE]]
    /\ tk = [p \in Procs |-> 0]
    /\ pday = [p \in Procs |-> 1]
    /\ admitDay = [p \in Procs |-> 1]
    /\ newCount = [p \in Procs |-> 0]
    /\ wday = [p \in Procs |-> 1]
    /\ runs = 0
    /\ grants = [d \in Days |-> [a \in Actors |-> [o \in Ops |-> 0]]]

\* Variant of Start without the "Team member - no limits" return (lines
\* 97-99, 121-124): an exempt member's check goes on to the tracker.
StartIgnoresExemption(p) ==
    /\ pc[p] = "idle"
    /\ runs < MaxRuns
    /\ \E op \in Ops, u \in Users, as \in Assocs :
         LET r == [op |-> op, user |-> IF op = "review" THEN System ELSE u,
                   assoc |-> as]
         IN  /\ req' = [req EXCEPT ![p] = r]
             /\ pc' = [pc EXCEPT ![p] = IF IsUnlimited(r) THEN "idle"
                                                       ELSE "get_issues"]
    /\ runs' = runs + 1
    /\ UNCHANGED <<day, trackers, tk, pday, admitDay, newCount, wday, grants>>

\* A workflow starts and calls a check_* method.  The exemption and the
\* unlimited returns need no API call and end the check at once.
Start(p) ==
    /\ pc[p] = "idle"
    /\ runs < MaxRuns
    /\ \E op \in Ops, u \in Users, as \in Assocs :
         LET r == [op |-> op, user |-> IF op = "review" THEN System ELSE u,
                   assoc |-> as]
         IN  /\ req' = [req EXCEPT ![p] = r]
             /\ pc' = [pc EXCEPT ![p] = IF IsExempt(r) \/ IsUnlimited(r)
                                        THEN "idle" ELSE "get_issues"]
    /\ runs' = runs + 1
    /\ UNCHANGED <<day, trackers, tk, pday, admitDay, newCount, wday, grants>>

\* _get_rate_limit_issue: get_issues(state="open", labels=[tracker label])
\* returns the newest open tracker first (GitHub's default order); with
\* none the method goes on to create one.
GetIssues(p) ==
    /\ pc[p] = "get_issues"
    /\ IF trackers # <<>>
         THEN /\ tk' = [tk EXCEPT ![p] = Len(trackers)]
              /\ pc' = [pc EXCEPT ![p] = "p1_today"]
         ELSE /\ pc' = [pc EXCEPT ![p] = "create_issue"]
              /\ UNCHANGED tk
    /\ UNCHANGED <<day, trackers, req, pday, admitDay, newCount, wday,
                   runs, grants>>

\* _get_rate_limit_issue: create_issue.  The reply may be lost after the
\* issue was created, which raises and ends the invocation.
CreateIssue(p) ==
    /\ pc[p] = "create_issue"
    /\ trackers' = Append(trackers, <<>>)
    /\ \/ /\ tk' = [tk EXCEPT ![p] = Len(trackers')]
          /\ pc' = [pc EXCEPT ![p] = "p1_today"]
       \/ /\ pc' = [pc EXCEPT ![p] = "idle"]
          /\ UNCHANGED tk
    /\ UNCHANGED <<day, req, pday, admitDay, newCount, wday, runs, grants>>

\* _parse_usage_from_comments, line 58: today = self._get_today_key(),
\* in the check's parse (p1) and in _increment_usage's parse (p2).
ParseToday(p) ==
    /\ pc[p] \in {"p1_today", "p2_today"}
    /\ pday' = [pday EXCEPT ![p] = day]
    /\ pc' = [pc EXCEPT ![p] = IF pc[p] = "p1_today" THEN "p1_comments"
                                                    ELSE "p2_comments"]
    /\ UNCHANGED <<day, trackers, req, tk, admitDay, newCount, wday,
                   runs, grants>>

\* Variant of CheckUsage that denies only when current > limit.
CheckUsageOffByOne(p) ==
    /\ pc[p] = "p1_comments"
    /\ LET current == CurrentUsage(trackers[tk[p]], pday[p], req[p])
       IN  IF current > Limit(req[p].op)
             THEN /\ pc' = [pc EXCEPT ![p] = "idle"]
                  /\ UNCHANGED admitDay
             ELSE /\ pc' = [pc EXCEPT ![p] = "p2_today"]
                  /\ admitDay' = [admitDay EXCEPT ![p] = pday[p]]
    /\ UNCHANGED <<day, trackers, req, tk, pday, newCount, wday, runs, grants>>

\* check_*: usage = self._parse_usage_from_comments(tracker) reads the
\* comments; current >= limit returns "Rate limit exceeded", otherwise the
\* method calls _increment_usage.
CheckUsage(p) ==
    /\ pc[p] = "p1_comments"
    /\ LET current == CurrentUsage(trackers[tk[p]], pday[p], req[p])
       IN  IF current >= Limit(req[p].op)
             THEN /\ pc' = [pc EXCEPT ![p] = "idle"]
                  /\ UNCHANGED admitDay
             ELSE /\ pc' = [pc EXCEPT ![p] = "p2_today"]
                  /\ admitDay' = [admitDay EXCEPT ![p] = pday[p]]
    /\ UNCHANGED <<day, trackers, req, tk, pday, newCount, wday, runs, grants>>

\* Variant of IncrementRead with the sign of the increment swapped.
IncrementReadDecrements(p) ==
    /\ pc[p] = "p2_comments"
    /\ newCount' = [newCount EXCEPT ![p] =
           LastCount(trackers[tk[p]], pday[p], req[p].user, req[p].op) - 1]
    /\ pc' = [pc EXCEPT ![p] = "inc_today"]
    /\ UNCHANGED <<day, trackers, req, tk, pday, admitDay, wday, runs, grants>>

\* _increment_usage, lines 84-88: the comments are read again and
\* new_count = current + 1 from this second read.
IncrementRead(p) ==
    /\ pc[p] = "p2_comments"
    /\ newCount' = [newCount EXCEPT ![p] =
           LastCount(trackers[tk[p]], pday[p], req[p].user, req[p].op) + 1]
    /\ pc' = [pc EXCEPT ![p] = "inc_today"]
    /\ UNCHANGED <<day, trackers, req, tk, pday, admitDay, wday, runs, grants>>

\* _increment_usage, line 85: today = self._get_today_key() again.
IncrementToday(p) ==
    /\ pc[p] = "inc_today"
    /\ wday' = [wday EXCEPT ![p] = day]
    /\ pc' = [pc EXCEPT ![p] = "create_comment"]
    /\ UNCHANGED <<day, trackers, req, tk, pday, admitDay, newCount,
                   runs, grants>>

\* The comment "USAGE: today|user|operation|new_count" this slot posts.
PostedRecord(p) ==
    [date |-> wday[p], user |-> req[p].user, op |-> req[p].op,
     count |-> newCount[p]]

\* _increment_usage, line 91: create_comment; the check then returns
\* (True, "Usage: ...").  The reply may be lost after the comment was
\* posted, which raises and ends the invocation without the admission.
CreateComment(p) ==
    /\ pc[p] = "create_comment"
    /\ trackers' = [trackers EXCEPT ![tk[p]] = Append(@, PostedRecord(p))]
    /\ pc' = [pc EXCEPT ![p] = "idle"]
    /\ \/ grants' = [grants EXCEPT
                       ![admitDay[p]][req[p].user][req[p].op] = @ + 1]
       \/ UNCHANGED grants
    /\ UNCHANGED <<day, req, tk, pday, admitDay, newCount, wday, runs>>

\* A GitHub API call raises before it took effect; the exception leaves
\* the check_* method and ends the workflow (fail closed).
ApiFails(p) ==
    /\ pc[p] \in NetworkPCs
    /\ pc' = [pc EXCEPT ![p] = "idle"]
    /\ UNCHANGED <<day, trackers, req, tk, pday, admitDay, newCount, wday,
                   runs, grants>>

\* UTC midnight: datetime.utcnow() moves to the next day.
Midnight ==
    /\ day < MaxDay
    /\ day' = day + 1
    /\ UNCHANGED <<trackers, pc, req, tk, pday, admitDay, newCount, wday,
                   runs, grants>>

Next ==
    \/ \E p \in Procs :
         \/ Start(p)
         \/ GetIssues(p)
         \/ CreateIssue(p)
         \/ ParseToday(p)
         \/ CheckUsage(p)
         \/ IncrementRead(p)
         \/ IncrementToday(p)
         \/ CreateComment(p)
         \/ ApiFails(p)
    \/ Midnight

Spec == Init /\ [][Next]_vars

-----------------------------------------------------------------------------
\* The usage comments of ledger c for user a and op o, of any date.
KeyRecords(c, a, o) == {i \in 1..Len(c) : c[i].user = a /\ c[i].op = o}

(***************************************************************************)
(* No phantom usage: every count the ledger holds is backed by that many   *)
(* usage comments of the same key on the same tracker issue.  A check can *)
(* lose increments (races, duplicate trackers), but _parse_usage_from_    *)
(* comments and _increment_usage never invent usage, so a user is denied  *)
(* only after at least "limit" metered admissions of that key.             *)
(***************************************************************************)
NoPhantomUsage ==
    \A t \in DOMAIN trackers :
        \A i \in 1..Len(trackers[t]) :
            trackers[t][i].count
                <= Cardinality(KeyRecords(trackers[t], trackers[t][i].user,
                                          trackers[t][i].op))

(***************************************************************************)
(* Spec P1 and P3: a team member's exemptible check and a check whose    *)
(* limit is 0 return before any API call and are never metered.  Every   *)
(* step that adds a usage comment to a tracker issue is the create_comment *)
(* of a slot, on the tracker it holds, whose request is neither exempt   *)
(* nor unlimited: the early returns decided at the start of check_* hold *)
(* across all its calls and all the other workflows' steps.              *)
(***************************************************************************)
MeteredAppends ==
    [][\A t \in DOMAIN trackers :
          Len(trackers'[t]) # Len(trackers[t]) =>
            \E p \in Procs : /\ pc[p] = "create_comment" /\ tk[p] = t
                             /\ ~IsExempt(req[p]) /\ ~IsUnlimited(req[p])
      ]_trackers

\* The admissions returned (grants) and the UTC day, seen as the abstract
\* per-key daily quota of DailyQuota.
Quota == INSTANCE DailyQuota WITH used <- grants

(***************************************************************************)
(* Spec P2 for runs that do not overlap, as a refinement: with one        *)
(* workflow in flight at a time, every admission the checks return is an  *)
(* admission of the abstract daily quota (at most "limit" per key and     *)
(* day, on a day that has begun) and every other step, midnight included, *)
(* is a step of the quota or a stutter, over API failures, lost replies   *)
(* and a midnight in the middle of a check.                               *)
(***************************************************************************)
QuotaRefinement == Quota!Spec

(***************************************************************************)
(* Spec section 5: racing checks may exceed a limit, but by at most the   *)
(* number of racing invocations minus one; duplicate trackers only affect *)
(* accuracy (section 7).  Stated for Procs, the slots that can race.       *)
(***************************************************************************)
RaceOvershootBounded ==
    \A d \in Days, a \in Actors, o \in Ops :
        grants[d][a][o] <= Limit(o) + Cardinality(Procs) - 1

(***************************************************************************)
(* Spec 4.2 and section 3: the snapshot keeps the maximum count per key,   *)
(* so the usage a check reads for a key and day never goes down when a    *)
(* comment is posted.  The code keeps the last count seen (line 76).      *)
(***************************************************************************)
SnapshotMonotone ==
    [][\A t \in DOMAIN trackers, d \in Days, a \in Actors, o \in Ops :
          t \in DOMAIN trackers' =>
            LastCount(trackers'[t], d, a, o) >= LastCount(trackers[t], d, a, o)
      ]_trackers

(***************************************************************************)
(* Spec P4 (day isolation): usage of day D never counts against day D+1.  *)
(* On every tracker the count a usage comment carries for a date and key  *)
(* is at most the number of usage comments of that date and key, so no    *)
(* count is inherited from another day.                                   *)
(***************************************************************************)
DayIsolation ==
    \A t \in DOMAIN trackers :
        \A i \in 1..Len(trackers[t]) :
            LET r == trackers[t][i]
            IN  r.count <= Cardinality(Matching(trackers[t], r.date, r.user, r.op))
=============================================================================
