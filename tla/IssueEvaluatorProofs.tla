------------------------ MODULE IssueEvaluatorProofs ------------------------
(***************************************************************************)
(* Proofs that the issue evaluator keeps its safety invariants for every  *)
(* set of associations, every number of re-runs and every configuration  *)
(* document allowed by EvaluatorAssumption.                                *)
(***************************************************************************)
EXTENDS IssueEvaluator, TLAPS, SequenceTheorems

\* The program points after an admitting check.
AfterAdmit == {"evaluate", "post_plan", "checkout", "write", "commit", "push",
               "create_pull", "link", "followup", "clarify"}

\* The program points of attempt_implementation.
ImplPCs == {"checkout", "write", "commit", "push", "create_pull", "link"}

\* Run r posted a comment of kind k on the issue with comment sequence s.
PostedIn(s, r, k) == \E i \in 1..Len(s) : s[i].run = r /\ s[i].kind = k

\* Where the current run is relative to its check: only a run past an
\* admitting check writes comments other than the notice, and a run at its
\* check has written nothing yet.
RunInv ==
    /\ admitted \subseteq 1..run
    /\ \A i \in 1..Len(comments) : comments[i].run <= run
    /\ pc \in {"load", "check"} =>
          /\ run \notin admitted
          /\ \A i \in 1..Len(comments) : comments[i].run # run
    /\ pc = "notice" => run \notin admitted
    /\ pc \in AfterAdmit => run \in admitted

\* should_implement is should_auto_implement's answer, and
\* attempt_implementation runs only after the plan_impl comment.
GateInv ==
    /\ should => ShouldAutoImplement(assoc)
    /\ pc \in ImplPCs => should /\ PostedIn(comments, run, "plan_impl")

\* Every pull request's run posted plan_impl (PRAnnounced by PostedIn).
AnnouncedInv == \A pr \in prs : PostedIn(comments, pr.run, "plan_impl")

(***************************************************************************)
(* The inductive invariant.  Besides the three properties it says where   *)
(* the current run is relative to its check (so that the check's verdict *)
(* can only concern comments the run has not posted yet), that           *)
(* should_implement is only ever should_auto_implement's answer, and that *)
(* attempt_implementation runs only after the plan_impl comment.  A      *)
(* successful attempt has assigned success, so Followup's cases are       *)
(* exclusive.                                                             *)
(***************************************************************************)
IInv ==
    /\ TypeOK
    /\ success => successSet
    /\ RunInv
    /\ DenialDecidesComments
    /\ GateInv
    /\ ImplementationGated
    /\ AnnouncedInv

-----------------------------------------------------------------------------
\* Lemmas on the comment sequence.

\* Appending a comment keeps every comment posted before it.
LEMMA PostedAppend ==
    ASSUME NEW s \in Seq(Comment), NEW c \in Comment, NEW r, NEW k,
           PostedIn(s, r, k)
    PROVE  PostedIn(Append(s, c), r, k)
<1>1. PICK i \in 1..Len(s) : s[i].run = r /\ s[i].kind = k
    BY DEF PostedIn
<1>2. i \in 1..Len(Append(s, c)) /\ Append(s, c)[i] = s[i]
    BY <1>1, AppendProperties
<1>. QED
    BY <1>1, <1>2 DEF PostedIn

\* The appended comment is posted.
LEMMA PostedLast ==
    ASSUME NEW s \in Seq(Comment), NEW c \in Comment
    PROVE  PostedIn(Append(s, c), c.run, c.kind)
<1>1. Len(s) + 1 \in 1..Len(Append(s, c)) /\ Append(s, c)[Len(s) + 1] = c
    BY AppendProperties
<1>. QED
    BY <1>1 DEF PostedIn

\* KindsOf, which the properties use, is PostedIn of the comments.
LEMMA KindsPosted ==
    ASSUME NEW r, NEW k
    PROVE  k \in KindsOf(r) <=> PostedIn(comments, r, k)
BY DEF KindsOf, PostedIn

\* An appended comment keeps DenialDecidesComments when its kind is the
\* limit notice exactly when its run was not admitted.
LEMMA DenialAppend ==
    ASSUME NEW s \in Seq(Comment), NEW c \in Comment, NEW adm,
           \A i \in 1..Len(s) : (s[i].kind = "limit_notice") <=> (s[i].run \notin adm),
           (c.kind = "limit_notice") <=> (c.run \notin adm)
    PROVE  \A i \in 1..Len(Append(s, c)) :
              (Append(s, c)[i].kind = "limit_notice")
                  <=> (Append(s, c)[i].run \notin adm)
BY AppendProperties

-----------------------------------------------------------------------------
\* The invariant is inductive.

\* The three arms of Evaluate's CASE.
LEMMA EvaluateArms ==
    ASSUME Evaluate
    PROVE  \E resp \in Responses :
              \/ /\ resp = "implementable"
                 /\ should' = ShouldAutoImplement(assoc) /\ pc' = "post_plan"
                 /\ exits' = exits
              \/ /\ resp = "non_object"
                 /\ pc' = "done" /\ exits' = Append(exits, 1)
                 /\ should' = should
              \/ /\ resp \in {"not_implementable", "unparseable"}
                 /\ pc' = "clarify" /\ should' = should /\ exits' = exits
BY Zenon DEF Evaluate, Finish, Responses

\* The three arms of Followup's CASE, exclusive once success implies
\* successSet.
LEMMA FollowupArms ==
    ASSUME Followup, success => successSet
    PROVE  \/ /\ ~successSet /\ pc' = "done" /\ exits' = Append(exits, 1)
              /\ comments' = comments
           \/ /\ success /\ pc' = "done" /\ exits' = Append(exits, 0)
              /\ comments' = comments
           \/ /\ successSet /\ ~success
              /\ \E o \in CallOutcomes :
                    /\ Post("difficulty", o)
                    /\ Finish(IF o = "ok" THEN 0 ELSE 1)
BY Zenon DEF Followup, Finish

\* A comment of a known kind keeps the comments a sequence of comments.
LEMMA PostType ==
    ASSUME comments \in Seq(Comment), run \in Runs, NEW k \in CommentKinds,
           NEW o, Post(k, o)
    PROVE  comments' \in Seq(Comment)
BY AppendProperties DEF Post, Comment

\* Finish keeps the exit statuses a sequence of 0s and 1s.
LEMMA FinishType ==
    ASSUME exits \in Seq({0, 1}), NEW st \in {0, 1}, Finish(st)
    PROVE  exits' \in Seq({0, 1}) /\ pc' \in PCs
BY AppendProperties DEF Finish, PCs

\* Type correctness of the evaluator.
LEMMA NextTypeOK ==
    ASSUME TypeOK, success => successSet, [Next]_vars
    PROVE  TypeOK' /\ (success => successSet)'
<1> USE EvaluatorAssumption DEF TypeOK
<1>1. CASE Load
    <2>1. UNCHANGED <<assoc, run, admitted, should, successSet, success,
                       branchLocal, committed, comments, remote, prs>>
        BY <1>1 DEF Load
    <2>2. exits' \in Seq({0, 1}) /\ pc' \in PCs
        BY <1>1, FinishType DEF Load, PCs
    <2>. QED
        BY <2>1, <2>2
<1>2. CASE Check
    <2>1. UNCHANGED <<assoc, run, should, successSet, success,
                       branchLocal, committed, comments, remote, prs>>
        BY <1>2 DEF Check
    <2>2. exits' \in Seq({0, 1}) /\ pc' \in PCs /\ admitted' \subseteq Runs
        BY <1>2, FinishType DEF Check, PCs
    <2>. QED
        BY <2>1, <2>2
<1>3. CASE Notice
    <2>1. UNCHANGED <<assoc, run, admitted, should, successSet, success,
                       branchLocal, committed, remote, prs>>
        BY <1>3 DEF Notice
    <2>2. exits' \in Seq({0, 1}) /\ pc' \in PCs /\ comments' \in Seq(Comment)
        BY <1>3, FinishType, PostType DEF Notice, CommentKinds
    <2>. QED
        BY <2>1, <2>2
<1>4. CASE Evaluate
    <2>1. UNCHANGED <<assoc, run, admitted, successSet, success,
                       branchLocal, committed, comments, remote, prs>>
        BY <1>4 DEF Evaluate
    <2>2. exits' \in Seq({0, 1}) /\ pc' \in PCs /\ should' \in BOOLEAN
        BY <1>4, EvaluateArms, AppendProperties DEF PCs
    <2>. QED
        BY <2>1, <2>2
<1>5. CASE PostPlan
    <2>1. UNCHANGED <<assoc, run, admitted, should, successSet, success,
                       branchLocal, committed, remote, prs>>
        BY <1>5 DEF PostPlan
    <2>2. exits' \in Seq({0, 1}) /\ pc' \in PCs /\ comments' \in Seq(Comment)
        BY <1>5, FinishType, PostType DEF PostPlan, CommentKinds, PCs
    <2>. QED
        BY <2>1, <2>2
<1>6. CASE Clarify
    <2>1. UNCHANGED <<assoc, run, admitted, should, successSet, success,
                       branchLocal, committed, remote, prs>>
        BY <1>6 DEF Clarify
    <2>2. exits' \in Seq({0, 1}) /\ pc' \in PCs /\ comments' \in Seq(Comment)
        BY <1>6, FinishType, PostType DEF Clarify, CommentKinds
    <2>. QED
        BY <2>1, <2>2
<1>7. CASE Checkout
    <2>1. UNCHANGED <<assoc, run, admitted, should, successSet, success,
                       committed, comments, remote, prs, exits>>
        BY <1>7 DEF Checkout
    <2>2. pc' \in PCs /\ branchLocal' \in BOOLEAN
        BY <1>7 DEF Checkout, GitOutcomes, PCs
    <2>. QED
        BY <2>1, <2>2
<1>8. CASE Write
    <2>1. UNCHANGED <<assoc, run, admitted, should, branchLocal, committed,
                       comments, remote, prs, exits>>
        BY <1>8 DEF Write
    <2>2. /\ pc' \in PCs /\ successSet' \in BOOLEAN /\ success' \in BOOLEAN
          /\ (success => successSet)'
        <3>1. CASE pc' = "commit" /\ UNCHANGED <<successSet, success>>
            BY <3>1 DEF PCs
        <3>2. CASE Faults /\ pc' = "followup" /\ success' = FALSE
                   /\ successSet' = TRUE
            BY <3>2 DEF PCs
        <3>. QED
            BY <1>8, <3>1, <3>2 DEF Write
    <2>. QED
        BY <2>1, <2>2
<1>9. CASE Commit
    <2>1. UNCHANGED <<assoc, run, admitted, should, successSet, success,
                       branchLocal, comments, remote, prs, exits>>
        BY <1>9 DEF Commit
    <2>2. pc' \in PCs /\ committed' \in BOOLEAN
        BY <1>9 DEF Commit, GitOutcomes, PCs
    <2>. QED
        BY <2>1, <2>2
<1>10. CASE Push
    <2>1. UNCHANGED <<assoc, run, admitted, should, branchLocal, committed,
                       comments, prs, exits>>
        BY <1>10 DEF Push
    <2>2. /\ pc' \in PCs /\ successSet' \in BOOLEAN /\ success' \in BOOLEAN
          /\ (success => successSet)'
          /\ remote' \subseteq {Branch(r) : r \in Runs}
        BY <1>10 DEF Push, PCs
    <2>. QED
        BY <2>1, <2>2
<1>11. CASE CreatePull
    <2>1. UNCHANGED <<assoc, run, admitted, should, branchLocal, committed,
                       comments, remote, exits>>
        BY <1>11 DEF CreatePull
    <2>2. /\ pc' \in PCs /\ successSet' \in BOOLEAN /\ success' \in BOOLEAN
          /\ (success => successSet)'
          /\ prs' \subseteq [run : Runs, head : {Branch(r) : r \in Runs}]
        <3>1. PICK o \in CallOutcomes :
                 LET accepted == committed /\ o # "fails"
                                   /\ \A pr \in prs : pr.head # Branch(run)
                 IN  /\ prs' = IF accepted
                                 THEN prs \cup {[run |-> run, head |-> Branch(run)]}
                                 ELSE prs
                     /\ IF accepted /\ o = "ok"
                          THEN pc' = "link" /\ UNCHANGED <<successSet, success>>
                          ELSE /\ pc' = "followup" /\ success' = FALSE
                               /\ successSet' = TRUE
            BY <1>11 DEF CreatePull
        <3>2. [run |-> run, head |-> Branch(run)]
                 \in [run : Runs, head : {Branch(r) : r \in Runs}]
            OBVIOUS
        <3>3. prs' \subseteq prs \cup {[run |-> run, head |-> Branch(run)]}
            BY <3>1
        <3>4. /\ pc' \in PCs /\ successSet' \in BOOLEAN /\ success' \in BOOLEAN
              /\ (success => successSet)'
            BY <3>1 DEF PCs
        <3>. QED
            BY <3>2, <3>3, <3>4
    <2>. QED
        BY <2>1, <2>2
<1>12. CASE Link
    <2>1. UNCHANGED <<assoc, run, admitted, should, branchLocal, committed,
                       remote, prs, exits>>
        BY <1>12 DEF Link
    <2>2. PICK o \in CallOutcomes : Post("pr_link", o) /\ success' = (o = "ok")
        BY <1>12 DEF Link
    <2>3. /\ pc' \in PCs /\ successSet' \in BOOLEAN /\ success' \in BOOLEAN
          /\ (success => successSet)'
        BY <1>12, <2>2 DEF Link, PCs
    <2>4. comments' \in Seq(Comment)
        BY <2>2, PostType DEF CommentKinds
    <2>. QED
        BY <2>1, <2>3, <2>4
<1>13. CASE Followup
    <2>1. UNCHANGED <<assoc, run, admitted, should, successSet, success,
                       branchLocal, committed, remote, prs>>
        BY <1>13 DEF Followup
    <2>2. exits' \in Seq({0, 1}) /\ pc' \in PCs /\ comments' \in Seq(Comment)
        <3>1. CASE ~successSet /\ pc' = "done" /\ exits' = Append(exits, 1)
                   /\ comments' = comments
            BY <3>1, AppendProperties DEF PCs
        <3>2. CASE success /\ pc' = "done" /\ exits' = Append(exits, 0)
                   /\ comments' = comments
            BY <3>2, AppendProperties DEF PCs
        <3>3. CASE \E o \in CallOutcomes :
                      /\ Post("difficulty", o)
                      /\ Finish(IF o = "ok" THEN 0 ELSE 1)
            <4>1. PICK o \in CallOutcomes :
                      /\ Post("difficulty", o)
                      /\ Finish(IF o = "ok" THEN 0 ELSE 1)
                BY <3>3
            <4>2. (IF o = "ok" THEN 0 ELSE 1) \in {0, 1}
                OBVIOUS
            <4>. QED
                BY <4>1, <4>2, FinishType, PostType DEF CommentKinds
        <3>. QED
            BY <1>13, <3>1, <3>2, <3>3, FollowupArms
    <2>. QED
        BY <2>1, <2>2
<1>14. CASE ReRun
    <2>1. UNCHANGED <<assoc, admitted, comments, remote, prs, exits>>
        BY <1>14 DEF ReRun
    <2>2. /\ run' \in Runs /\ pc' \in PCs /\ should' \in BOOLEAN
          /\ successSet' \in BOOLEAN /\ success' \in BOOLEAN
          /\ branchLocal' \in BOOLEAN /\ committed' \in BOOLEAN
          /\ (success => successSet)'
        <3>1. run' \in Runs
            BY <1>14 DEF ReRun, Runs
        <3>2. /\ pc' \in PCs /\ should' \in BOOLEAN
              /\ successSet' \in BOOLEAN /\ success' \in BOOLEAN
              /\ branchLocal' \in BOOLEAN /\ committed' \in BOOLEAN
              /\ (success => successSet)'
            BY <1>14 DEF ReRun, PCs
        <3>. QED
            BY <3>1, <3>2
    <2>. QED
        BY <2>1, <2>2
<1>15. CASE UNCHANGED vars
    BY <1>15 DEF vars
<1>. QED
    BY <1>1, <1>2, <1>3, <1>4, <1>5, <1>6, <1>7, <1>8, <1>9, <1>10, <1>11,
       <1>12, <1>13, <1>14, <1>15 DEF Next

LEMMA InitIInv == Init => IInv
<1> SUFFICES ASSUME Init PROVE IInv
    OBVIOUS
<1>1. TypeOK
    <2>1. run \in Runs /\ pc \in PCs /\ assoc \in Assocs
        BY EvaluatorAssumption DEF Init, Runs, PCs
    <2>2. comments \in Seq(Comment) /\ exits \in Seq({0, 1})
        BY EmptySeq DEF Init
    <2>. QED
        BY <2>1, <2>2 DEF Init, TypeOK
<1>2. RunInv /\ GateInv
    BY DEF Init, RunInv, GateInv, AfterAdmit, ImplPCs
<1>. QED
    BY <1>1, <1>2 DEF Init, IInv, DenialDecidesComments, ImplementationGated,
                      AnnouncedInv


\* What a comment posted by the current run keeps: the bound on the runs
\* of the comments, DenialDecidesComments when the kind is the notice
\* exactly for a run not admitted, every earlier comment, and the
\* announcements of the pull requests.
LEMMA PostKeeps ==
    ASSUME IInv, NEW k \in CommentKinds, NEW o, Post(k, o),
           (k = "limit_notice") <=> (run \notin admitted),
           UNCHANGED <<run, admitted, prs>>
    PROVE  /\ \A i \in 1..Len(comments') : comments'[i].run <= run
           /\ DenialDecidesComments'
           /\ AnnouncedInv'
           /\ \A r, kk : PostedIn(comments, r, kk) => PostedIn(comments', r, kk)
           /\ o # "fails" => PostedIn(comments', run, k)
<1> DEFINE c == [run |-> run, kind |-> k]
<1>1. comments \in Seq(Comment) /\ c \in Comment /\ run \in Nat
    BY DEF IInv, TypeOK, Comment, Runs
<1>2. CASE o = "fails"
    <2>1. comments' = comments
        BY <1>2 DEF Post
    <2>. QED
        BY <1>2, <2>1 DEF IInv, RunInv, DenialDecidesComments, AnnouncedInv
<1>3. CASE o # "fails"
    <2>1. comments' = Append(comments, c)
        BY <1>3 DEF Post
    <2>2. \A i \in 1..Len(comments') : comments'[i].run <= run
        BY <1>1, <2>1, AppendProperties DEF IInv, RunInv
    <2>3. DenialDecidesComments'
        BY <1>1, <2>1, DenialAppend DEF IInv, DenialDecidesComments
    <2>4. \A r, kk : PostedIn(comments, r, kk) => PostedIn(comments', r, kk)
        BY <1>1, <2>1, PostedAppend
    <2>5. AnnouncedInv'
        BY <2>4 DEF IInv, AnnouncedInv
    <2>6. PostedIn(comments', run, k)
        BY <1>1, <2>1, PostedLast
    <2>. QED
        BY <2>2, <2>3, <2>4, <2>5, <2>6
<1>. QED
    BY <1>2, <1>3

\* One step per action of Next, and under it one per part of IInv.
LEMMA NextIInv == IInv /\ [Next]_vars => IInv'
<1> SUFFICES ASSUME IInv, [Next]_vars PROVE IInv'
    OBVIOUS
<1>0. TypeOK' /\ (success => successSet)'
    BY NextTypeOK DEF IInv
<1> USE DEF IInv
<1>1. CASE Load
    <2>1. UNCHANGED <<assoc, run, admitted, should, comments, remote, prs>>
        BY <1>1 DEF Load
    <2>2. RunInv'
        BY <1>1, <2>1 DEF Load, Finish, RunInv, AfterAdmit
    <2>3. DenialDecidesComments'
        BY <1>1, <2>1 DEF Load, DenialDecidesComments, RunInv
    <2>4. GateInv'
        BY <1>1, <2>1 DEF Load, Finish, GateInv, ImplPCs
    <2>5. ImplementationGated' /\ AnnouncedInv'
        BY <2>1 DEF ImplementationGated, AnnouncedInv, PostedIn
    <2>. QED
        BY <1>0, <2>2, <2>3, <2>4, <2>5
<1>2. CASE Check
    <2>1. UNCHANGED <<assoc, run, should, comments, remote, prs>>
        BY <1>2 DEF Check
    <2>2. RunInv'
        <3>1. run \in Nat \ {0} /\ pc = "check"
            BY <1>2 DEF TypeOK, Runs, Check
        <3>2. CASE admitted' = admitted \cup {run} /\ pc' = "evaluate"
            BY <2>1, <3>1, <3>2 DEF RunInv, AfterAdmit
        <3>3. CASE UNCHANGED admitted /\ pc' \in {"notice", "done"}
            BY <2>1, <3>1, <3>3 DEF RunInv, AfterAdmit
        <3>. QED
            BY <1>2, <3>2, <3>3 DEF Check, Finish
    <2>3. DenialDecidesComments'
        BY <1>2, <2>1 DEF Check, DenialDecidesComments, RunInv
    <2>4. GateInv'
        BY <1>2, <2>1 DEF Check, Finish, GateInv, ImplPCs
    <2>5. ImplementationGated' /\ AnnouncedInv'
        BY <2>1 DEF ImplementationGated, AnnouncedInv, PostedIn
    <2>. QED
        BY <1>0, <2>2, <2>3, <2>4, <2>5
<1>3. CASE Notice
    <2>1. PICK o \in CallOutcomes : Post("limit_notice", o) /\ Finish(IF o = "ok" THEN 0 ELSE 1)
        BY <1>3 DEF Notice
    <2>2. UNCHANGED <<assoc, run, admitted, should, remote, prs>>
        BY <1>3 DEF Notice
    <2>3. pc = "notice" /\ pc' = "done"
        BY <1>3, <2>1 DEF Notice, Finish
    <2>4. run \notin admitted
        BY <2>3 DEF RunInv, AfterAdmit
    <2>5. /\ \A i \in 1..Len(comments') : comments'[i].run <= run
          /\ DenialDecidesComments'
          /\ AnnouncedInv'
          /\ \A r, kk : PostedIn(comments, r, kk) => PostedIn(comments', r, kk)
          /\ o # "fails" => PostedIn(comments', run, "limit_notice")
        BY <2>1, <2>2, <2>4, PostKeeps DEF CommentKinds
    <2>6. RunInv'
        BY <2>2, <2>3, <2>4, <2>5 DEF RunInv, AfterAdmit
    <2>7. GateInv'
        BY <2>2, <2>3 DEF GateInv, ImplPCs
    <2>8. ImplementationGated'
        BY <2>2 DEF ImplementationGated
    <2>. QED
        BY <1>0, <2>5, <2>6, <2>7, <2>8
<1>4. CASE Evaluate
    <2>1. UNCHANGED <<assoc, run, admitted, comments, remote, prs>>
        BY <1>4 DEF Evaluate
    <2>2. RunInv'
        BY <1>4, <2>1, EvaluateArms DEF Evaluate, RunInv, AfterAdmit
    <2>3. DenialDecidesComments'
        BY <1>4, <2>1 DEF Evaluate, DenialDecidesComments, RunInv
    <2>4. GateInv'
        BY <1>4, <2>1, EvaluateArms DEF Evaluate, GateInv, ImplPCs, PostedIn
    <2>5. ImplementationGated' /\ AnnouncedInv'
        BY <2>1 DEF ImplementationGated, AnnouncedInv, PostedIn
    <2>. QED
        BY <1>0, <2>2, <2>3, <2>4, <2>5
<1>5. CASE PostPlan
    <2>1. PICK o \in CallOutcomes : /\ Post(IF should THEN "plan_impl" ELSE "plan_only", o)
                   /\ IF o = "ok"
                        THEN /\ pc' = IF should THEN "checkout" ELSE "followup"
                             /\ UNCHANGED exits
                        ELSE Finish(1)
        BY <1>5 DEF PostPlan
    <2>2. UNCHANGED <<assoc, run, admitted, should, remote, prs>>
        BY <1>5 DEF PostPlan
    <2>3. /\ pc = "post_plan"
          /\ pc' \in {"checkout", "followup", "done"}
          /\ pc' = "checkout" => should /\ o = "ok"
        BY <1>5, <2>1 DEF PostPlan, Finish
    <2>4. run \in admitted
        BY <2>3 DEF RunInv, AfterAdmit
    <2>5. /\ \A i \in 1..Len(comments') : comments'[i].run <= run
          /\ DenialDecidesComments'
          /\ AnnouncedInv'
          /\ \A r, kk : PostedIn(comments, r, kk) => PostedIn(comments', r, kk)
          /\ o # "fails" => PostedIn(comments', run, (IF should THEN "plan_impl" ELSE "plan_only"))
        BY <2>1, <2>2, <2>4, PostKeeps DEF CommentKinds
    <2>6. RunInv'
        BY <2>2, <2>3, <2>4, <2>5 DEF RunInv, AfterAdmit
    <2>7. GateInv'
        BY <2>2, <2>3, <2>5 DEF GateInv, ImplPCs
    <2>8. ImplementationGated'
        BY <2>2 DEF ImplementationGated
    <2>. QED
        BY <1>0, <2>5, <2>6, <2>7, <2>8
<1>6. CASE Clarify
    <2>1. PICK o \in CallOutcomes : Post("clarify", o) /\ Finish(IF o = "ok" THEN 0 ELSE 1)
        BY <1>6 DEF Clarify
    <2>2. UNCHANGED <<assoc, run, admitted, should, remote, prs>>
        BY <1>6 DEF Clarify
    <2>3. pc = "clarify" /\ pc' = "done"
        BY <1>6, <2>1 DEF Clarify, Finish
    <2>4. run \in admitted
        BY <2>3 DEF RunInv, AfterAdmit
    <2>5. /\ \A i \in 1..Len(comments') : comments'[i].run <= run
          /\ DenialDecidesComments'
          /\ AnnouncedInv'
          /\ \A r, kk : PostedIn(comments, r, kk) => PostedIn(comments', r, kk)
          /\ o # "fails" => PostedIn(comments', run, "clarify")
        BY <2>1, <2>2, <2>4, PostKeeps DEF CommentKinds
    <2>6. RunInv'
        BY <2>2, <2>3, <2>4, <2>5 DEF RunInv, AfterAdmit
    <2>7. GateInv'
        BY <2>2, <2>3 DEF GateInv, ImplPCs
    <2>8. ImplementationGated'
        BY <2>2 DEF ImplementationGated
    <2>. QED
        BY <1>0, <2>5, <2>6, <2>7, <2>8
<1>7. CASE Checkout
    <2>1. UNCHANGED <<assoc, run, admitted, should, comments, remote, prs>>
        BY <1>7 DEF Checkout
    <2>2. RunInv'
        BY <1>7, <2>1 DEF Checkout, RunInv, AfterAdmit
    <2>3. DenialDecidesComments'
        BY <1>7, <2>1 DEF Checkout, DenialDecidesComments, RunInv
    <2>4. GateInv'
        BY <1>7, <2>1 DEF Checkout, GateInv, ImplPCs, PostedIn
    <2>5. ImplementationGated' /\ AnnouncedInv'
        BY <2>1 DEF ImplementationGated, AnnouncedInv, PostedIn
    <2>. QED
        BY <1>0, <2>2, <2>3, <2>4, <2>5
<1>8. CASE Write
    <2>1. UNCHANGED <<assoc, run, admitted, should, comments, remote, prs>>
        BY <1>8 DEF Write
    <2>2. RunInv'
        BY <1>8, <2>1 DEF Write, RunInv, AfterAdmit
    <2>3. DenialDecidesComments'
        BY <1>8, <2>1 DEF Write, DenialDecidesComments, RunInv
    <2>4. GateInv'
        BY <1>8, <2>1 DEF Write, GateInv, ImplPCs, PostedIn
    <2>5. ImplementationGated' /\ AnnouncedInv'
        BY <2>1 DEF ImplementationGated, AnnouncedInv, PostedIn
    <2>. QED
        BY <1>0, <2>2, <2>3, <2>4, <2>5
<1>9. CASE Commit
    <2>1. UNCHANGED <<assoc, run, admitted, should, comments, remote, prs>>
        BY <1>9 DEF Commit
    <2>2. RunInv'
        BY <1>9, <2>1 DEF Commit, RunInv, AfterAdmit
    <2>3. DenialDecidesComments'
        BY <1>9, <2>1 DEF Commit, DenialDecidesComments, RunInv
    <2>4. GateInv'
        BY <1>9, <2>1 DEF Commit, GateInv, ImplPCs, PostedIn
    <2>5. ImplementationGated' /\ AnnouncedInv'
        BY <2>1 DEF ImplementationGated, AnnouncedInv, PostedIn
    <2>. QED
        BY <1>0, <2>2, <2>3, <2>4, <2>5
<1>10. CASE Push
    <2>1. UNCHANGED <<assoc, run, admitted, should, comments, prs>>
        BY <1>10 DEF Push
    <2>2. pc = "push" /\ pc' \in {"create_pull", "followup"}
        BY <1>10 DEF Push
    <2>3. RunInv' /\ DenialDecidesComments' /\ AnnouncedInv'
        BY <2>1, <2>2 DEF RunInv, AfterAdmit, DenialDecidesComments,
                          AnnouncedInv, PostedIn
    <2>4. GateInv'
        BY <2>1, <2>2 DEF GateInv, ImplPCs, PostedIn
    <2>5. ShouldAutoImplement(assoc)
        BY <2>2 DEF GateInv, ImplPCs
    <2>6. ImplementationGated'
        BY <2>1, <2>5 DEF ImplementationGated
    <2>. QED
        BY <1>0, <2>3, <2>4, <2>6
<1>11. CASE CreatePull
    <2>1. UNCHANGED <<assoc, run, admitted, should, comments, remote>>
        BY <1>11 DEF CreatePull
    <2>2. pc = "create_pull" /\ pc' \in {"link", "followup"}
        BY <1>11 DEF CreatePull
    <2>3. prs' \subseteq prs \cup {[run |-> run, head |-> Branch(run)]}
        BY <1>11 DEF CreatePull
    <2>4. RunInv' /\ DenialDecidesComments'
        BY <2>1, <2>2 DEF RunInv, AfterAdmit, DenialDecidesComments
    <2>5. GateInv'
        BY <2>1, <2>2 DEF GateInv, ImplPCs, PostedIn
    <2>6. ShouldAutoImplement(assoc) /\ PostedIn(comments, run, "plan_impl")
        BY <2>2 DEF GateInv, ImplPCs
    <2>7. ImplementationGated'
        BY <2>1, <2>6 DEF ImplementationGated
    <2>8. AnnouncedInv'
        BY <2>1, <2>3, <2>6 DEF AnnouncedInv
    <2>. QED
        BY <1>0, <2>4, <2>5, <2>7, <2>8
<1>12. CASE Link
    <2>1. PICK o \in CallOutcomes : Post("pr_link", o) /\ success' = (o = "ok")
        BY <1>12 DEF Link
    <2>2. UNCHANGED <<assoc, run, admitted, should, remote, prs>>
        BY <1>12 DEF Link
    <2>3. pc = "link" /\ pc' = "followup"
        BY <1>12, <2>1 DEF Link, Finish
    <2>4. run \in admitted
        BY <2>3 DEF RunInv, AfterAdmit
    <2>5. /\ \A i \in 1..Len(comments') : comments'[i].run <= run
          /\ DenialDecidesComments'
          /\ AnnouncedInv'
          /\ \A r, kk : PostedIn(comments, r, kk) => PostedIn(comments', r, kk)
          /\ o # "fails" => PostedIn(comments', run, "pr_link")
        BY <2>1, <2>2, <2>4, PostKeeps DEF CommentKinds
    <2>6. RunInv'
        BY <2>2, <2>3, <2>4, <2>5 DEF RunInv, AfterAdmit
    <2>7. GateInv'
        BY <2>2, <2>3 DEF GateInv, ImplPCs
    <2>8. ImplementationGated'
        BY <2>2 DEF ImplementationGated
    <2>. QED
        BY <1>0, <2>5, <2>6, <2>7, <2>8
<1>13. CASE Followup
    <2>1. UNCHANGED <<assoc, run, admitted, should, remote, prs>>
        BY <1>13 DEF Followup
    <2>2. pc = "followup" /\ run \in admitted
        BY <1>13 DEF Followup, RunInv, AfterAdmit
    <2>3. pc' = "done"
        BY <1>13, FollowupArms DEF Finish
    <2>4. /\ \A i \in 1..Len(comments') : comments'[i].run <= run
          /\ DenialDecidesComments'
          /\ AnnouncedInv'
          /\ \A r, kk : PostedIn(comments, r, kk) => PostedIn(comments', r, kk)
        <3>1. CASE comments' = comments
            BY <2>1, <3>1 DEF RunInv, DenialDecidesComments, AnnouncedInv
        <3>2. CASE \E o \in CallOutcomes : Post("difficulty", o)
            <4>1. PICK o \in CallOutcomes : Post("difficulty", o)
                BY <3>2
            <4>. QED
                BY <2>1, <2>2, <4>1, PostKeeps DEF CommentKinds
        <3>. QED
            BY <1>13, <3>1, <3>2, FollowupArms
    <2>5. RunInv'
        BY <2>1, <2>3, <2>4 DEF RunInv, AfterAdmit
    <2>6. GateInv' /\ ImplementationGated'
        BY <2>1, <2>3 DEF GateInv, ImplPCs, ImplementationGated
    <2>. QED
        BY <1>0, <2>4, <2>5, <2>6
<1>14. CASE ReRun
    <2>1. UNCHANGED <<assoc, admitted, comments, remote, prs>>
        BY <1>14 DEF ReRun
    <2>2. RunInv'
        <3>1. run \in Nat /\ run' = run + 1 /\ pc' = "load"
            BY <1>14 DEF TypeOK, Runs, ReRun
        <3>2. \A i \in 1..Len(comments) : comments[i].run \in Nat
            <4>1. TAKE i \in 1..Len(comments)
            <4>2. comments[i] \in Comment
                BY ElementOfSeq DEF TypeOK
            <4>. QED
                BY <4>2 DEF Comment, Runs
        <3>. QED
            BY <2>1, <3>1, <3>2 DEF RunInv, AfterAdmit
    <2>3. DenialDecidesComments'
        BY <1>14, <2>1 DEF ReRun, DenialDecidesComments, RunInv
    <2>4. GateInv'
        BY <1>14, <2>1 DEF ReRun, GateInv, ImplPCs, PostedIn
    <2>5. ImplementationGated' /\ AnnouncedInv'
        BY <2>1 DEF ImplementationGated, AnnouncedInv, PostedIn
    <2>. QED
        BY <1>0, <2>2, <2>3, <2>4, <2>5
<1>15. CASE UNCHANGED vars
    <2>1. RunInv' /\ DenialDecidesComments'
        BY <1>15 DEF vars, RunInv, DenialDecidesComments
    <2>2. GateInv' /\ ImplementationGated' /\ AnnouncedInv'
        BY <1>15 DEF vars, GateInv, ImplementationGated, AnnouncedInv,
                     PostedIn
    <2>. QED
        BY <1>0, <2>1, <2>2
<1>. QED
    BY <1>0, <1>1, <1>2, <1>3, <1>4, <1>5, <1>6, <1>7, <1>8, <1>9, <1>10,
       <1>11, <1>12, <1>13, <1>14, <1>15 DEF Next

-----------------------------------------------------------------------------
\* The theorems.

\* IInv holds in every state of every behaviour.
THEOREM EvaluatorInvariant == Spec => []IInv
<1>1. Init => IInv
    BY InitIInv
<1>2. IInv /\ [Next]_vars => IInv'
    BY NextIInv
<1>. QED
    BY <1>1, <1>2, PTL DEF Spec

(***************************************************************************)
(* check_issue_evaluation's verdict decides the comments, for every       *)
(* configuration and number of re-runs: a run turned away posts only the  *)
(* limit notice and an admitted run never posts it.                       *)
(***************************************************************************)
THEOREM DenialDecides == Spec => []DenialDecidesComments
<1>1. IInv => DenialDecidesComments
    BY DEF IInv
<1>. QED
    BY <1>1, EvaluatorInvariant, PTL

(***************************************************************************)
(* No branch is pushed and no pull request opened for an author whom      *)
(* should_auto_implement excludes, whatever GitHub and git do.            *)
(***************************************************************************)
THEOREM Gated == Spec => []ImplementationGated
<1>1. IInv => ImplementationGated
    BY DEF IInv
<1>. QED
    BY <1>1, EvaluatorInvariant, PTL

(***************************************************************************)
(* Every pull request attempt_implementation opens was announced by the   *)
(* plan_impl comment of its run.                                          *)
(***************************************************************************)
THEOREM Announced == Spec => []PRAnnounced
<1>1. IInv => PRAnnounced
    <2> SUFFICES ASSUME IInv, NEW pr \in prs
                 PROVE  "plan_impl" \in KindsOf(pr.run)
        BY DEF PRAnnounced
    <2>1. PostedIn(comments, pr.run, "plan_impl")
        BY DEF IInv, AnnouncedInv
    <2>. QED
        BY <2>1, KindsPosted
<1>. QED
    BY <1>1, EvaluatorInvariant, PTL
=============================================================================
