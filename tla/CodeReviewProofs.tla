-------------------------- MODULE CodeReviewProofs --------------------------
(***************************************************************************)
(* Proofs that perform_code_review keeps skips free and reviews gated for *)
(* every number of runs and every configuration document allowed by      *)
(* ReviewAssumption, with or without faults.                              *)
(***************************************************************************)
EXTENDS CodeReview, TLAPS, FiniteSetTheorems

\* The program points of a run that has passed the skips of lines 43-51.
PastSkips == {"check", "notice", "files", "too_many", "review"}

\* The runs that recorded a review slot, and those that posted a review.
SlotRuns == {r \in Runs : slot[r]}

ReviewRuns == {r \in Runs : "review" \in posted[r]}

\* Where the current run stands: a run that has not ended has posted
\* nothing (every post ends it) and has recorded no slot before its check;
\* past the skips its PR is not skipped; past the check it was admitted;
\* at the review its file count is within the window.  Runs not started
\* yet have no slot, no admission and no comment.
RunInv ==
    /\ pc \notin {"idle", "done"} => run \in Runs /\ posted[run] = {}
    /\ \A r \in Runs : r > run => ~slot[r] /\ ~admitted[r] /\ posted[r] = {}
    /\ pc \in {"load", "skips", "check"} => ~slot[run]
    /\ pc \in {"load", "skips", "check", "notice"} => ~admitted[run]
    /\ pc \in PastSkips => ~Skipped(event[run])
    /\ pc \in {"files", "too_many", "review"} => admitted[run]
    /\ pc = "review" => changed[run] \in MinFiles..MaxFiles

\* What a run leaves behind: a slot, an admission or a comment only for a
\* PR that is not skipped; a review only for an admitted PR within the
\* window; under a review limit, an admission only with a slot, and the
\* ledger's count is the number of slots, never above the limit.
LedgerInv ==
    /\ \A r \in Runs : slot[r] \/ admitted[r] \/ posted[r] # {} =>
                           ~Skipped(event[r])
    /\ \A r \in Runs : "review" \in posted[r] =>
                           admitted[r] /\ changed[r] \in MinFiles..MaxFiles
    /\ Limit("review") > 0 => \A r \in Runs : admitted[r] => slot[r]
    /\ used = Cardinality(SlotRuns)
    /\ used <= Limit("review")

(***************************************************************************)
(* The inductive invariant.  SkipsAreFree and ReviewGated speak of runs   *)
(* that have ended; RunInv carries what the current run has established   *)
(* so far (its skips passed, its admission, its file count) to the step   *)
(* that posts, and the slot count carries the review limit from the      *)
(* check of line 54 to the review of line 155.                            *)
(***************************************************************************)
ReviewInv == TypeOK /\ RunInv /\ LedgerInv

-----------------------------------------------------------------------------
\* Lemmas on the set of runs that hold a slot.

\* Every set of runs is finite.
LEMMA RunSetFinite ==
    ASSUME NEW S \in SUBSET Runs
    PROVE  IsFiniteSet(S)
<1>1. IsFiniteSet(Runs)
  BY ReviewAssumption, FS_Interval DEF Runs
<1>. QED
  BY <1>1, FS_Subset

\* Recording the slot of a run that held none adds one to the slot count.
LEMMA SlotAdd ==
    ASSUME NEW s \in [Runs -> BOOLEAN], NEW x \in Runs, ~s[x]
    PROVE  Cardinality({r \in Runs : [s EXCEPT ![x] = TRUE][r]}) =
           Cardinality({r \in Runs : s[r]}) + 1
<1> DEFINE Old == {r \in Runs : s[r]}
<1>1. {r \in Runs : [s EXCEPT ![x] = TRUE][r]} = Old \cup {x}
  OBVIOUS
<1>2. IsFiniteSet(Old) /\ x \notin Old
  BY RunSetFinite
<1>. QED
  BY <1>1, <1>2, FS_AddElement

\* The inductive invariant holds initially: no run has started.
LEMMA InitInv == Init => ReviewInv
<1> SUFFICES ASSUME Init PROVE ReviewInv
  OBVIOUS
<1>1. TypeOK
  BY ReviewAssumption DEF Init, TypeOK, PCs, Events, NoEvent, Runs
<1>2. RunInv
  BY DEF Init, RunInv, PastSkips
<1>3. SlotRuns = {}
  BY DEF Init, SlotRuns
<1>4. LedgerInv
  BY <1>3, FS_EmptySet, ReviewAssumption DEF Init, LedgerInv
<1>. QED
  BY <1>1, <1>2, <1>4 DEF ReviewInv

\* Every step keeps the inductive invariant.
LEMMA NextInv == ReviewInv /\ [Next]_vars => ReviewInv'
<1> SUFFICES ASSUME ReviewInv, [Next]_vars PROVE ReviewInv'
  OBVIOUS
<1>0. /\ TypeOK /\ RunInv /\ LedgerInv
      /\ Limit("review") \in Nat /\ MinFiles \in Nat /\ MaxFiles \in Nat
  BY ReviewAssumption DEF ReviewInv
<1>1. CASE Start
  <2>1. PICK e \in Events : event' = [event EXCEPT ![run + 1] = e]
    BY <1>1 DEF Start
  <2>2. run + 1 \in Runs /\ run' = run + 1 /\ pc' = "load"
    <3>1. run \in 0..MaxRuns /\ MaxRuns \in Nat
      BY <1>0, ReviewAssumption DEF TypeOK
    <3>2. run < MaxRuns /\ run' = run + 1 /\ pc' = "load"
      BY <1>1 DEF Start
    <3>. QED
      BY <3>1, <3>2 DEF Runs
  <2>3. UNCHANGED <<used, slot, admitted, changed, posted, exit>>
    BY <1>1 DEF Start
  <2>4. TypeOK'
    <3>1. event' \in [Runs -> Events]
      BY <1>0, <2>1, <2>2 DEF TypeOK
    <3>. QED
      BY <1>0, <2>2, <2>3, <3>1 DEF TypeOK, PCs, Runs
  <2>5. RunInv'
    <3>1. posted[run + 1] = {} /\ ~slot[run + 1] /\ ~admitted[run + 1]
      BY <1>0, <2>2 DEF RunInv, Runs, TypeOK
    <3>2. \A r \in Runs : r > run + 1 =>
                             ~slot[r] /\ ~admitted[r] /\ posted[r] = {}
      BY <1>0, <2>2 DEF RunInv, TypeOK, Runs
    <3>. QED
      BY <2>2, <2>3, <3>1, <3>2 DEF RunInv, PastSkips
  <2>6. SlotRuns' = SlotRuns
    BY <2>3 DEF SlotRuns
  <2>7. LedgerInv'
    BY <1>0, <2>1, <2>2, <2>3, <2>6 DEF LedgerInv, TypeOK, RunInv, Runs
  <2>. QED
    BY <2>4, <2>5, <2>7 DEF ReviewInv
<1>2. CASE Load
  <2>1. UNCHANGED <<run, event, used, slot, admitted, changed, posted>>
    BY <1>2 DEF Load
  <2>2. \/ pc' = "skips" /\ exit' = exit
        \/ pc' = "done" /\ exit' = [exit EXCEPT ![run] = 1]
    BY <1>2 DEF Load, Finish
  <2>3. pc = "load" /\ run \in Runs
    BY <1>0, <1>2 DEF Load, RunInv
  <2>4. TypeOK'
    BY <1>0, <2>1, <2>2, <2>3 DEF TypeOK, PCs
  <2>5. RunInv'
    BY <1>0, <2>1, <2>2, <2>3 DEF RunInv, PastSkips
  <2>6. LedgerInv'
    BY <1>0, <2>1 DEF LedgerInv, SlotRuns
  <2>. QED
    BY <2>4, <2>5, <2>6 DEF ReviewInv
<1>3. CASE Skip
  <2>1. UNCHANGED <<run, event, used, slot, admitted, changed, posted>>
    BY <1>3 DEF Skip
  <2>2. \/ pc' = "check" /\ exit' = exit /\ ~Skipped(event[run])
        \/ pc' = "done" /\ exit' = [exit EXCEPT ![run] = 0]
    BY <1>3 DEF Skip, Finish
  <2>3. pc = "skips" /\ run \in Runs
    BY <1>0, <1>3 DEF Skip, RunInv
  <2>4. TypeOK'
    BY <1>0, <2>1, <2>2, <2>3 DEF TypeOK, PCs
  <2>5. RunInv'
    BY <1>0, <2>1, <2>2, <2>3 DEF RunInv, PastSkips
  <2>6. LedgerInv'
    BY <1>0, <2>1 DEF LedgerInv, SlotRuns
  <2>. QED
    BY <2>4, <2>5, <2>6 DEF ReviewInv
<1>4. CASE Check
  <2>0. /\ pc = "check" /\ run \in Runs
        /\ ~slot[run] /\ ~admitted[run] /\ ~Skipped(event[run])
        /\ UNCHANGED <<run, event, changed, posted>>
    BY <1>0, <1>4 DEF Check, RunInv, PastSkips
  <2>1. CASE Limit("review") = 0
    <3>a. /\ admitted' = [admitted EXCEPT ![run] = TRUE] /\ pc' = "files"
          /\ UNCHANGED <<used, slot, exit>>
      BY <1>4, <2>1 DEF Check
    <3>b. TypeOK'
      BY <1>0, <2>0, <3>a DEF TypeOK, PCs
    <3>c. RunInv'
      BY <1>0, <2>0, <3>a DEF RunInv, PastSkips, TypeOK
    <3>d. LedgerInv'
      BY <1>0, <2>0, <2>1, <3>a DEF LedgerInv, SlotRuns, TypeOK
    <3>. QED
      BY <3>b, <3>c, <3>d DEF ReviewInv
  <2>2. CASE Limit("review") > 0
    <3>p. PICK o \in CallOutcomes :
            \/ o = "fails" /\ Finish(1) /\ UNCHANGED <<used, slot, admitted>>
            \/ /\ o # "fails" /\ used >= Limit("review")
               /\ pc' = "notice" /\ UNCHANGED <<used, slot, admitted, exit>>
            \/ /\ o # "fails" /\ used < Limit("review")
               /\ used' = used + 1
               /\ slot' = [slot EXCEPT ![run] = TRUE]
               /\ IF o = "ok"
                    THEN /\ admitted' = [admitted EXCEPT ![run] = TRUE]
                         /\ pc' = "files" /\ UNCHANGED exit
                    ELSE Finish(1) /\ UNCHANGED admitted
      BY <1>0, <1>4, <2>2 DEF Check
    <3>3. CASE o = "fails" /\ Finish(1) /\ UNCHANGED <<used, slot, admitted>>
      <4>1. TypeOK'
        BY <1>0, <2>0, <3>3 DEF TypeOK, PCs, Finish
      <4>2. RunInv'
        BY <1>0, <2>0, <3>3 DEF RunInv, Finish
      <4>3. LedgerInv'
        BY <1>0, <2>0, <3>3 DEF LedgerInv, SlotRuns
      <4>. QED
        BY <4>1, <4>2, <4>3 DEF ReviewInv
    <3>4. CASE /\ o # "fails" /\ used >= Limit("review")
               /\ pc' = "notice" /\ UNCHANGED <<used, slot, admitted, exit>>
      <4>1. TypeOK'
        BY <1>0, <2>0, <3>4 DEF TypeOK, PCs
      <4>2. RunInv'
        BY <1>0, <2>0, <3>4 DEF RunInv, PastSkips
      <4>3. LedgerInv'
        BY <1>0, <2>0, <3>4 DEF LedgerInv, SlotRuns
      <4>. QED
        BY <4>1, <4>2, <4>3 DEF ReviewInv
    <3>5. CASE /\ o # "fails" /\ used < Limit("review")
               /\ used' = used + 1
               /\ slot' = [slot EXCEPT ![run] = TRUE]
               /\ IF o = "ok"
                    THEN /\ admitted' = [admitted EXCEPT ![run] = TRUE]
                         /\ pc' = "files" /\ UNCHANGED exit
                    ELSE Finish(1) /\ UNCHANGED admitted
      <4>0. /\ \/ admitted' = [admitted EXCEPT ![run] = TRUE] /\ pc' = "files"
               \/ admitted' = admitted /\ pc' = "done"
            /\ exit' \in [Runs -> {-1, 0, 1}]
        BY <1>0, <2>0, <3>5 DEF Finish, TypeOK
      <4>1. Cardinality(SlotRuns') = Cardinality(SlotRuns) + 1
        <5>1. SlotRuns' = {r \in Runs : [slot EXCEPT ![run] = TRUE][r]}
          BY <3>5 DEF SlotRuns
        <5>2. slot \in [Runs -> BOOLEAN] /\ run \in Runs /\ ~slot[run]
          BY <1>0, <2>0 DEF TypeOK
        <5>. QED
          BY <5>1, <5>2, SlotAdd DEF SlotRuns
      <4>2. TypeOK'
        <5>1. used' \in Nat /\ slot' \in [Runs -> BOOLEAN]
          BY <1>0, <2>0, <3>5 DEF TypeOK
        <5>2. admitted' \in [Runs -> BOOLEAN] /\ pc' \in PCs
          BY <1>0, <2>0, <4>0 DEF TypeOK, PCs
        <5>. QED
          BY <1>0, <2>0, <3>5, <4>0, <5>1, <5>2 DEF TypeOK
      <4>3. RunInv'
        BY <1>0, <2>0, <3>5, <4>0 DEF RunInv, PastSkips, TypeOK
      <4>4. LedgerInv'
        BY <1>0, <2>0, <3>5, <4>0, <4>1 DEF LedgerInv, TypeOK
      <4>. QED
        BY <4>2, <4>3, <4>4 DEF ReviewInv
    <3>. QED
      BY <3>p, <3>3, <3>4, <3>5
  <2>. QED
    BY <1>0, <2>1, <2>2
\* The three posting steps end the run with at most their kind posted.
<1>5. ASSUME NEW k \in Kinds, NEW o \in CallOutcomes, NEW st \in {0},
             pc \in {"notice", "too_many", "review"}, Post(k, o, st),
             UNCHANGED <<run, event, used, slot, admitted, changed>>,
             k = "review" => pc = "review"
      PROVE  ReviewInv'
  <2>0. /\ run \in Runs /\ posted[run] = {} /\ ~Skipped(event[run])
        /\ pc' = "done" /\ exit' \in [Runs -> {-1, 0, 1}]
        /\ posted' = [posted EXCEPT ![run] = IF o = "fails" THEN {} ELSE {k}]
    BY <1>0, <1>5 DEF RunInv, PastSkips, Post, Finish, TypeOK
  <2>1. TypeOK'
    BY <1>0, <1>5, <2>0 DEF TypeOK, PCs
  <2>2. RunInv'
    BY <1>0, <1>5, <2>0 DEF RunInv, TypeOK
  <2>3. "review" \in posted'[run] =>
            admitted[run] /\ changed[run] \in MinFiles..MaxFiles
    BY <1>0, <1>5, <2>0 DEF RunInv
  <2>4. LedgerInv'
    BY <1>0, <1>5, <2>0, <2>3 DEF LedgerInv, SlotRuns, TypeOK
  <2>. QED
    BY <2>1, <2>2, <2>4 DEF ReviewInv
<1>6. CASE Notice
  BY <1>6, <1>5 DEF Notice, Kinds
<1>7. CASE TooMany
  BY <1>7, <1>5 DEF TooMany, Kinds
<1>8. CASE Review
  BY <1>8, <1>5 DEF Review, Kinds
<1>9. CASE Files
  <2>0. /\ pc = "files" /\ run \in Runs /\ admitted[run] /\ posted[run] = {}
        /\ ~Skipped(event[run])
        /\ UNCHANGED <<run, event, used, slot, admitted, posted>>
    BY <1>0, <1>9 DEF Files, RunInv, PastSkips
  <2>1. PICK n \in 0..(MaxFiles + 1) :
          /\ changed' = [changed EXCEPT ![run] = n]
          /\ \/ n < MinFiles /\ pc' = "done"
                /\ exit' = [exit EXCEPT ![run] = 0]
             \/ n >= MinFiles /\ n > MaxFiles /\ pc' = "too_many"
                /\ exit' = exit
             \/ n >= MinFiles /\ n <= MaxFiles /\ pc' = "review"
                /\ exit' = exit
    <3>1. PICK g \in BOOLEAN :
            LET n == IF g THEN event[run].files ELSE 0
            IN  /\ changed' = [changed EXCEPT ![run] = n]
                /\ IF n < MinFiles
                     THEN Finish(0)
                     ELSE /\ pc' = IF n > MaxFiles THEN "too_many" ELSE "review"
                          /\ UNCHANGED exit
      BY <1>9 DEF Files
    <3>2. (IF g THEN event[run].files ELSE 0) \in 0..(MaxFiles + 1)
      BY <1>0, <2>0 DEF TypeOK, Events
    <3> DEFINE m == IF g THEN event[run].files ELSE 0
    <3>3. /\ changed' = [changed EXCEPT ![run] = m]
          /\ m < MinFiles => pc' = "done" /\ exit' = [exit EXCEPT ![run] = 0]
          /\ ~(m < MinFiles) => pc' = IF m > MaxFiles THEN "too_many" ELSE "review"
          /\ ~(m < MinFiles) => exit' = exit
      BY <3>1 DEF Finish
    <3>4. m \in 0..(MaxFiles + 1)
      BY <3>2
    <3>5. CASE m < MinFiles
      BY <3>3, <3>4, <3>5
    <3>6. CASE ~(m < MinFiles) /\ m > MaxFiles
      <4>1. m >= MinFiles /\ m > MaxFiles
        BY <1>0, <3>4, <3>6
      <4>2. pc' = "too_many" /\ exit' = exit
        BY <3>3, <3>6
      <4>. QED
        BY <3>3, <3>4, <4>1, <4>2
    <3>7. CASE ~(m < MinFiles) /\ ~(m > MaxFiles)
      <4>1. m >= MinFiles /\ m <= MaxFiles
        BY <1>0, <3>4, <3>7
      <4>2. pc' = "review" /\ exit' = exit
        BY <3>3, <3>7
      <4>. QED
        BY <3>3, <3>4, <4>1, <4>2
    <3>. QED
      BY <3>5, <3>6, <3>7
  <2>2. TypeOK'
    <3>1. changed' \in [Runs -> 0..(MaxFiles + 1)]
      BY <1>0, <2>0, <2>1 DEF TypeOK
    <3>2. pc' \in PCs /\ exit' \in [Runs -> {-1, 0, 1}]
      BY <1>0, <2>0, <2>1 DEF TypeOK, PCs
    <3>. QED
      BY <1>0, <2>0, <3>1, <3>2 DEF TypeOK
  <2>3. RunInv'
    BY <1>0, <2>0, <2>1 DEF RunInv, PastSkips, TypeOK
  <2>4. LedgerInv'
    BY <1>0, <2>0, <2>1 DEF LedgerInv, SlotRuns, TypeOK
  <2>. QED
    BY <2>2, <2>3, <2>4 DEF ReviewInv
<1>10. CASE UNCHANGED vars
  BY <1>0, <1>10 DEF vars, ReviewInv, TypeOK, RunInv, LedgerInv, SlotRuns
<1>. QED
  BY <1>1, <1>2, <1>3, <1>4, <1>6, <1>7, <1>8, <1>9, <1>10 DEF Next

-----------------------------------------------------------------------------
\* The theorems.

(***************************************************************************)
(* perform_code_review keeps the inductive invariant in every behaviour:  *)
(* for every number of runs, review limit and file window, with or        *)
(* without GitHub and git failures.                                        *)
(***************************************************************************)
THEOREM ReviewInvariant == Spec => []ReviewInv
<1>1. Init => ReviewInv
  BY InitInv
<1>2. ReviewInv /\ [Next]_vars => ReviewInv'
  BY NextInv
<1>. QED
  BY <1>1, <1>2, PTL DEF Spec

(***************************************************************************)
(* Skipped PRs never cost a review slot or get a comment: the draft and   *)
(* skip-label exits of lines 43-51 come before check_code_review.         *)
(***************************************************************************)
THEOREM SkipsFree == Spec => []SkipsAreFree
<1>1. ReviewInv => SkipsAreFree
  BY DEF ReviewInv, LedgerInv, SkipsAreFree
<1>. QED
  BY <1>1, ReviewInvariant, PTL

(***************************************************************************)
(* A review is posted only for an admitted, unskipped PR whose counted    *)
(* files are within min_files_changed..max_files_changed, and never more  *)
(* reviews a day than reviews_per_day, for every configuration.           *)
(***************************************************************************)
THEOREM ReviewsGated == Spec => []ReviewGated
<1>1. ASSUME ReviewInv PROVE ReviewGated
  <2>1. \A r \in Runs : "review" \in posted[r] =>
            /\ ~Skipped(event[r]) /\ admitted[r]
            /\ changed[r] \in MinFiles..MaxFiles
    BY <1>1 DEF ReviewInv, LedgerInv
  <2>2. ASSUME Limit("review") > 0
        PROVE  Cardinality(ReviewRuns) <= Limit("review")
    <3>1. ReviewRuns \subseteq SlotRuns
      BY <1>1, <2>1, <2>2 DEF ReviewInv, LedgerInv, ReviewRuns, SlotRuns
    <3>2. IsFiniteSet(SlotRuns) /\ Cardinality(ReviewRuns) <= Cardinality(SlotRuns)
      BY <3>1, RunSetFinite, FS_Subset DEF SlotRuns
    <3>3. Cardinality(SlotRuns) <= Limit("review")
      BY <1>1 DEF ReviewInv, LedgerInv
    <3>4. Cardinality(ReviewRuns) \in Nat /\ Cardinality(SlotRuns) \in Nat
      BY <3>1, <3>2, FS_Subset, FS_CardinalityType
    <3>. QED
      BY <3>2, <3>3, <3>4, ReviewAssumption
  <2>. QED
    BY <2>1, <2>2 DEF ReviewGated, ReviewRuns
<1>. QED
  BY <1>1, ReviewInvariant, PTL


-----------------------------------------------------------------------------
\* The refinement of MeteredService (ServiceRefinement).

\* The runs admitted without a slot: those of reviews_per_day 0.
WaivedRuns == {r \in Runs : admitted[r] /\ ~slot[r]}

\* Under the refinement mapping the abstract sets are the slot runs, the
\* runs admitted without a slot and the runs that posted a review.
LEMMA ServiceSets ==
    /\ Service!Charged = SlotRuns
    /\ Service!Passed = SlotRuns \cup WaivedRuns
    /\ Service!vars = <<[k \in {"system"} |-> SlotRuns], WaivedRuns, ReviewRuns>>
  BY DEF Service!Charged, Service!Passed, Service!vars, SlotRuns, WaivedRuns,
         ReviewRuns

\* A step that changes no slot, no admission and no review comment is a
\* stutter of the metered service.
LEMMA ServiceStutter ==
    ASSUME slot' = slot, admitted' = admitted, ReviewRuns' = ReviewRuns
    PROVE  UNCHANGED Service!vars
  BY DEF Service!vars, SlotRuns, WaivedRuns, ReviewRuns

\* Initially no run holds a slot, was admitted or posted a review.
LEMMA ServiceInit == Init => Service!Init
  BY DEF Init, Service!Init

\* Every step of perform_code_review is a step of the metered service or
\* a stutter: the slot of line 54 is a Charge, the admission of a
\* reviews_per_day of 0 a Waive, the review comment of line 155 a Serve.
LEMMA ServiceStep == ReviewInv /\ [Next]_vars => [Service!Next]_Service!vars
<1> SUFFICES ASSUME ReviewInv, [Next]_vars
             PROVE  [Service!Next]_Service!vars
  OBVIOUS
<1>0. /\ TypeOK /\ RunInv /\ LedgerInv
      /\ Limit("review") \in Nat
  BY ReviewAssumption DEF ReviewInv
<1>1. CASE Start \/ Load \/ Skip \/ Files
  <2>1. UNCHANGED <<slot, admitted, posted>>
    BY <1>1 DEF Start, Load, Skip, Files
  <2>. QED
    BY <2>1, ServiceStutter DEF ReviewRuns
<1>2. CASE Check
  <2>0. /\ pc = "check" /\ run \in Runs /\ ~slot[run] /\ ~admitted[run]
        /\ UNCHANGED posted
    BY <1>0, <1>2 DEF Check, RunInv
  <2>1. run \notin Service!Passed
    BY <2>0, ServiceSets DEF SlotRuns, WaivedRuns
  <2>2. CASE Limit("review") = 0
    <3>1. admitted' = [admitted EXCEPT ![run] = TRUE] /\ slot' = slot
      BY <1>2, <2>2 DEF Check
    <3>2. WaivedRuns' = WaivedRuns \cup {run} /\ SlotRuns' = SlotRuns
      BY <1>0, <2>0, <3>1 DEF WaivedRuns, SlotRuns, TypeOK
    <3>3. ReviewRuns' = ReviewRuns
      BY <2>0 DEF ReviewRuns
    <3>4. Service!Waive(run)
      BY <2>1, <2>2, <3>2, <3>3, ServiceSets
      DEF Service!Waive, WaivedRuns, SlotRuns, ReviewRuns
    <3>. QED
      BY <2>0, <3>4 DEF Service!Next, Service!Waive
  <2>3. CASE Limit("review") > 0
    <3>p. PICK o \in CallOutcomes :
            \/ o = "fails" /\ UNCHANGED <<slot, admitted>>
            \/ o # "fails" /\ used >= Limit("review")
               /\ UNCHANGED <<slot, admitted>>
            \/ /\ o # "fails" /\ used < Limit("review")
               /\ slot' = [slot EXCEPT ![run] = TRUE]
               /\ admitted' \in {admitted, [admitted EXCEPT ![run] = TRUE]}
      BY <1>2, <2>3 DEF Check
    <3>1. CASE UNCHANGED <<slot, admitted>>
      BY <2>0, <3>1, ServiceStutter DEF ReviewRuns
    <3>2. CASE /\ used < Limit("review")
               /\ slot' = [slot EXCEPT ![run] = TRUE]
               /\ admitted' \in {admitted, [admitted EXCEPT ![run] = TRUE]}
      <4>1. SlotRuns' = SlotRuns \cup {run}
        BY <1>0, <2>0, <3>2 DEF SlotRuns, TypeOK
      <4>2. WaivedRuns' = WaivedRuns
        BY <1>0, <2>0, <3>2 DEF WaivedRuns, TypeOK
      <4>3. ReviewRuns' = ReviewRuns
        BY <2>0 DEF ReviewRuns
      <4>4. Cardinality(SlotRuns) < Limit("review")
        BY <1>0, <3>2 DEF LedgerInv
      <4>5. [k \in {"system"} |-> SlotRuns'] =
            [[k \in {"system"} |-> SlotRuns] EXCEPT !["system"] = @ \cup {run}]
        BY <4>1
      <4>6. Service!Cardinality(SlotRuns) = Cardinality(SlotRuns)
        BY DEF Service!Cardinality, Cardinality
      <4>7. Service!Charge("system", run)
        BY <2>1, <2>3, <4>2, <4>3, <4>4, <4>5, <4>6, ServiceSets
        DEF Service!Charge, WaivedRuns, SlotRuns, ReviewRuns
      <4>. QED
        BY <2>0, <4>7 DEF Service!Next, Service!Charge
    <3>. QED
      BY <3>p, <3>1, <3>2
  <2>. QED
    BY <1>0, <2>2, <2>3
<1>3. CASE Notice \/ TooMany
  <2>1. UNCHANGED <<slot, admitted>>
    BY <1>3 DEF Notice, TooMany
  <2>2. ReviewRuns' = ReviewRuns
    BY <1>0, <1>3 DEF Notice, TooMany, Post, ReviewRuns, TypeOK
  <2>. QED
    BY <2>1, <2>2, ServiceStutter
<1>4. CASE Review
  <2>0. /\ pc = "review" /\ run \in Runs /\ posted[run] = {} /\ admitted[run]
        /\ UNCHANGED <<slot, admitted>>
    BY <1>0, <1>4 DEF Review, RunInv
  <2>1. PICK o \in CallOutcomes :
          posted' = [posted EXCEPT ![run] = IF o = "fails" THEN @ ELSE @ \cup {"review"}]
    BY <1>4 DEF Review, Post
  <2>2. CASE o = "fails"
    <3>1. ReviewRuns' = ReviewRuns
      BY <1>0, <2>1, <2>2 DEF ReviewRuns, TypeOK
    <3>. QED
      BY <2>0, <3>1, ServiceStutter
  <2>3. CASE o # "fails"
    <3>1. ReviewRuns' = ReviewRuns \cup {run} /\ run \notin ReviewRuns
      BY <1>0, <2>0, <2>1, <2>3 DEF ReviewRuns, TypeOK
    <3>2. run \in SlotRuns \cup WaivedRuns
      BY <2>0 DEF SlotRuns, WaivedRuns
    <3>3. SlotRuns' = SlotRuns /\ WaivedRuns' = WaivedRuns
      BY <2>0 DEF SlotRuns, WaivedRuns
    <3>4. Service!Serve(run)
      BY <3>1, <3>2, <3>3, ServiceSets
      DEF Service!Serve, WaivedRuns, SlotRuns, ReviewRuns
    <3>. QED
      BY <2>0, <3>4 DEF Service!Next, Service!Serve
  <2>. QED
    BY <2>2, <2>3
<1>5. CASE UNCHANGED vars
  BY <1>5, ServiceStutter DEF vars, ReviewRuns
<1>. QED
  BY <1>1, <1>2, <1>3, <1>4, <1>5 DEF Next

(***************************************************************************)
(* perform_code_review implements the metered-service promise for every  *)
(* number of runs, review limit and file window, with or without         *)
(* failures: each review follows a slot recorded while fewer than        *)
(* reviews_per_day were taken, or an unlimited configuration.             *)
(***************************************************************************)
THEOREM ReviewServiceRefinement == Spec => ServiceRefinement
<1>1. ReviewInv /\ [Next]_vars => [Service!Next]_Service!vars
  BY ServiceStep
<1>. QED
  BY <1>1, ServiceInit, ReviewInvariant, PTL
     DEF Spec, ServiceRefinement, Service!Spec

=============================================================================
