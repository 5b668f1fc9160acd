------------------------ MODULE MentionHandlerProofs ------------------------
(***************************************************************************)
(* Proofs that the mention handler replies only to admitted mentions, on  *)
(* the thread of their event, and takes slots only for supported events,  *)
(* for every set of users and associations, every number of runs and      *)
(* every configuration allowed by MentionAssumption.                      *)
(***************************************************************************)
EXTENDS MentionHandler, TLAPS, FiniteSetTheorems

\* Where the current run stands: a run that has not ended has not replied
\* (the reply ends it); before its check it has no slot and no admission;
\* at a handler it was admitted and the handler is its thread's.  Runs not
\* started yet have no slot, no admission and no reply.
RunInv ==
    /\ pc \notin {"idle", "done"} => run \in Runs /\ replied[run] = "none"
    /\ \A r \in Runs : r > run => ~slot[r] /\ ~admitted[r] /\ replied[r] = "none"
    /\ pc \in {"load", "dispatch"} => ~slot[run] /\ ~admitted[run]
    /\ pc \in {"pr", "issue"} => admitted[run] /\ pc = Thread(event[run])

(***************************************************************************)
(* The inductive invariant: ReplyGated for the runs that have ended, and  *)
(* RunInv to carry the dispatch's choice of handler, made from the event  *)
(* at lines 149-158, to the reply the handler posts.                      *)
(***************************************************************************)
MentionInv == TypeOK /\ RunInv /\ ReplyGated

-----------------------------------------------------------------------------

\* The inductive invariant holds initially: no run has started.
LEMMA InitInv == Init => MentionInv
<1> SUFFICES ASSUME Init PROVE MentionInv
  OBVIOUS
<1>1. NoEvent \in Events
  BY MentionAssumption DEF NoEvent, Events, EventNames
<1>2. TypeOK
  BY <1>1, MentionAssumption DEF Init, TypeOK, PCs, Handlers, Runs
<1>. QED
  BY <1>2 DEF Init, MentionInv, RunInv, ReplyGated

\* The check's outcomes for the current run, with the handler h it hands
\* the run to: an admission at h, a denial or failure that ends the run,
\* or a slot whose reply was lost.
LEMMA CheckCases ==
    ASSUME NEW h, MentionCheck(h)
    PROVE  \/ /\ admitted' = [admitted EXCEPT ![run] = TRUE] /\ pc' = h
              /\ exit' = exit
              /\ \/ UNCHANGED <<used, slot>>
                 \/ used' = [used EXCEPT ![event[run].user] = @ + 1]
                    /\ slot' = [slot EXCEPT ![run] = TRUE]
           \/ /\ pc' = "done" /\ exit' = [exit EXCEPT ![run] = 1]
              /\ admitted' = admitted
              /\ \/ UNCHANGED <<used, slot>>
                 \/ used' = [used EXCEPT ![event[run].user] = @ + 1]
                    /\ slot' = [slot EXCEPT ![run] = TRUE]
           \/ /\ pc' = "done" /\ exit' = [exit EXCEPT ![run] = 0]
              /\ UNCHANGED <<used, slot, admitted>>
  BY DEF MentionCheck, Finish

\* Every step keeps the inductive invariant.
LEMMA NextInv == MentionInv /\ [Next]_vars => MentionInv'
<1> SUFFICES ASSUME MentionInv, [Next]_vars PROVE MentionInv'
  OBVIOUS
<1>0. TypeOK /\ RunInv /\ ReplyGated
  BY DEF MentionInv
<1>1. CASE Start
  <2>1. PICK e \in Events : event' = [event EXCEPT ![run + 1] = e]
    BY <1>1 DEF Start
  <2>2. run + 1 \in Runs /\ run' = run + 1 /\ pc' = "load"
    <3>1. run \in 0..MaxRuns /\ MaxRuns \in Nat
      BY <1>0, MentionAssumption DEF TypeOK
    <3>2. run < MaxRuns /\ run' = run + 1 /\ pc' = "load"
      BY <1>1 DEF Start
    <3>. QED
      BY <3>1, <3>2 DEF Runs
  <2>3. UNCHANGED <<used, slot, admitted, replied, exit>>
    BY <1>1 DEF Start
  <2>4. TypeOK'
    <3>1. event' \in [Runs -> Events]
      BY <1>0, <2>1, <2>2 DEF TypeOK
    <3>. QED
      BY <1>0, <2>2, <2>3, <3>1 DEF TypeOK, PCs, Runs
  <2>5. RunInv'
    <3>1. replied[run + 1] = "none" /\ ~slot[run + 1] /\ ~admitted[run + 1]
      BY <1>0, <2>2 DEF RunInv, Runs, TypeOK
    <3>2. \A r \in Runs : r > run + 1 =>
              ~slot[r] /\ ~admitted[r] /\ replied[r] = "none"
      BY <1>0, <2>2 DEF RunInv, TypeOK, Runs
    <3>. QED
      BY <2>2, <2>3, <3>1, <3>2 DEF RunInv
  <2>6. ReplyGated'
    BY <1>0, <2>1, <2>2, <2>3, <2>5 DEF ReplyGated, RunInv, TypeOK
  <2>. QED
    BY <2>4, <2>5, <2>6 DEF MentionInv
<1>2. CASE Load
  <2>1. UNCHANGED <<run, event, used, slot, admitted, replied>>
    BY <1>2 DEF Load
  <2>2. \/ pc' = "dispatch" /\ exit' = exit
        \/ pc' = "done" /\ exit' = [exit EXCEPT ![run] = 1]
    BY <1>2 DEF Load, Finish
  <2>3. pc = "load" /\ run \in Runs
    BY <1>0, <1>2 DEF Load, RunInv
  <2>4. TypeOK'
    BY <1>0, <2>1, <2>2, <2>3 DEF TypeOK, PCs
  <2>5. RunInv'
    BY <1>0, <2>1, <2>2, <2>3 DEF RunInv
  <2>6. ReplyGated'
    BY <1>0, <2>1 DEF ReplyGated
  <2>. QED
    BY <2>4, <2>5, <2>6 DEF MentionInv
<1>3. CASE Dispatch
  <2>0. /\ pc = "dispatch" /\ run \in Runs /\ replied[run] = "none"
        /\ ~slot[run] /\ ~admitted[run]
        /\ UNCHANGED <<run, event, replied>>
    BY <1>0, <1>3 DEF Dispatch, RunInv
  <2>1. CASE event[run].name = "other"
    <3>1. /\ pc' = "done" /\ exit' = [exit EXCEPT ![run] = 1]
          /\ UNCHANGED <<used, slot, admitted>>
      BY <1>3, <2>1 DEF Dispatch, Finish
    <3>2. TypeOK'
      BY <1>0, <2>0, <3>1 DEF TypeOK, PCs
    <3>3. RunInv' /\ ReplyGated'
      BY <1>0, <2>0, <3>1 DEF RunInv, ReplyGated
    <3>. QED
      BY <3>2, <3>3 DEF MentionInv
  <2>2. CASE event[run].name # "other"
    <3> DEFINE h == Thread(event[run])
               u == event[run].user
    <3>0. h \in {"pr", "issue"} /\ u \in Users
      BY <1>0, <2>0 DEF Thread, TypeOK, Events
    <3>1. MentionCheck(h)
      BY <1>3, <2>2 DEF Dispatch
    <3>2. \/ UNCHANGED <<used, slot>>
          \/ used' = [used EXCEPT ![u] = @ + 1] /\ slot' = [slot EXCEPT ![run] = TRUE]
      BY <3>1, CheckCases
    <3>3. used' \in [Users -> Nat] /\ slot' \in [Runs -> BOOLEAN]
      <4>1. used \in [Users -> Nat] /\ slot \in [Runs -> BOOLEAN]
        BY <1>0 DEF TypeOK
      <4>2. CASE UNCHANGED <<used, slot>>
        BY <4>1, <4>2
      <4>3. CASE used' = [used EXCEPT ![u] = @ + 1]
                 /\ slot' = [slot EXCEPT ![run] = TRUE]
        BY <2>0, <3>0, <4>1, <4>3
      <4>. QED
        BY <3>2, <4>2, <4>3
    <3>4. \A r \in Runs : slot'[r] => event'[r].name # "other"
      BY <1>0, <2>0, <2>2, <3>2 DEF ReplyGated, TypeOK
    <3>5. CASE /\ admitted' = [admitted EXCEPT ![run] = TRUE] /\ pc' = h
               /\ exit' = exit
      <4>1. TypeOK'
        BY <1>0, <2>0, <3>0, <3>3, <3>5 DEF TypeOK, PCs
      <4>2. RunInv'
        BY <1>0, <2>0, <3>0, <3>2, <3>5 DEF RunInv, TypeOK
      <4>3. ReplyGated'
        BY <1>0, <2>0, <3>4, <3>5 DEF ReplyGated, TypeOK
      <4>. QED
        BY <4>1, <4>2, <4>3 DEF MentionInv
    <3>6. CASE /\ pc' = "done" /\ exit' \in {[exit EXCEPT ![run] = 1],
                                             [exit EXCEPT ![run] = 0]}
               /\ admitted' = admitted
      <4>1. TypeOK'
        BY <1>0, <2>0, <3>3, <3>6 DEF TypeOK, PCs
      <4>2. RunInv'
        BY <1>0, <2>0, <3>2, <3>6 DEF RunInv, TypeOK
      <4>3. ReplyGated'
        BY <1>0, <2>0, <3>4, <3>6 DEF ReplyGated
      <4>. QED
        BY <4>1, <4>2, <4>3 DEF MentionInv
    <3>. QED
      BY <3>1, <3>5, <3>6, CheckCases
  <2>. QED
    BY <2>1, <2>2
\* Both handlers: the reply, if any, is the current handler's.
<1>4. ASSUME NEW h \in {"pr", "issue"}, pc = h,
             NEW f \in CallOutcomes, NEW o \in CallOutcomes, Answer(h, f, o),
             UNCHANGED <<run, event, used, slot, admitted>>
      PROVE  MentionInv'
  <2>0. /\ run \in Runs /\ replied[run] = "none" /\ admitted[run]
        /\ h = Thread(event[run])
    BY <1>0, <1>4 DEF RunInv
  <2>1. /\ replied' \in {replied, [replied EXCEPT ![run] = h]}
        /\ pc' = "done" /\ exit' \in [Runs -> {-1, 0, 1}]
    BY <1>0, <1>4, <2>0 DEF Answer, Finish, TypeOK
  <2>2. TypeOK'
    BY <1>0, <1>4, <2>0, <2>1 DEF TypeOK, PCs, Handlers
  <2>3. RunInv'
    BY <1>0, <1>4, <2>0, <2>1 DEF RunInv, TypeOK
  <2>4. ReplyGated'
    BY <1>0, <1>4, <2>0, <2>1 DEF ReplyGated, TypeOK
  <2>. QED
    BY <2>2, <2>3, <2>4 DEF MentionInv
<1>5. CASE HandlePR
  BY <1>4, <1>5 DEF HandlePR
<1>6. CASE HandleIssue
  BY <1>4, <1>6 DEF HandleIssue
<1>7. CASE UNCHANGED vars
  BY <1>0, <1>7 DEF vars, MentionInv, TypeOK, RunInv, ReplyGated
<1>. QED
  BY <1>1, <1>2, <1>3, <1>5, <1>6, <1>7 DEF Next

-----------------------------------------------------------------------------
\* The theorems.

(***************************************************************************)
(* The mention handler keeps the inductive invariant in every behaviour,  *)
(* for every set of users and associations, every number of runs and      *)
(* every mention limit, with or without GitHub failures.                  *)
(***************************************************************************)
THEOREM MentionInvariant == Spec => []MentionInv
<1>1. Init => MentionInv
  BY InitInv
<1>2. MentionInv /\ [Next]_vars => MentionInv'
  BY NextInv
<1>. QED
  BY <1>1, <1>2, PTL DEF Spec

(***************************************************************************)
(* Replies come only from runs that check_mention_response admitted, by   *)
(* the handler of the event's thread, and only the three supported event *)
(* kinds take a mention slot, in every instance.                          *)
(***************************************************************************)
THEOREM RepliesGated == Spec => []ReplyGated
<1>1. MentionInv => ReplyGated
  BY DEF MentionInv
<1>. QED
  BY <1>1, MentionInvariant, PTL


-----------------------------------------------------------------------------
\* The refinement of MeteredService (ServiceRefinement).

\* The runs that hold a mention slot of author u, those admitted without a
\* slot (exempt, or an unlimited configuration), and those that replied.
SlotsOf(u) == {r \in Runs : slot[r] /\ event[r].user = u}

WaivedRuns == {r \in Runs : admitted[r] /\ ~slot[r]}

RepliedRuns == {r \in Runs : replied[r] # "none"}

(***************************************************************************)
(* The ledger count: an author's mention count in the tracker is the      *)
(* number of runs of theirs that recorded a slot.  It carries the limit   *)
(* from the comparison of rate_limiter.py 135 (used[u] < limit) to the    *)
(* abstract Charge, which counts the slots of the key.                    *)
(***************************************************************************)
LedgerCount == \A u \in Users : used[u] = Cardinality(SlotsOf(u))

ServiceInv == MentionInv /\ LedgerCount


\* Every set of runs is finite.
LEMMA RunSetFinite ==
    ASSUME NEW S \in SUBSET Runs
    PROVE  IsFiniteSet(S)
<1>1. IsFiniteSet(Runs)
  BY MentionAssumption, FS_Interval DEF Runs
<1>. QED
  BY <1>1, FS_Subset

\* A step that changes no slot and no event of a run with a slot leaves
\* every author's slot runs as they were.
LEMMA SlotsKept ==
    ASSUME slot' = slot,
           \A r \in Runs : slot[r] => event'[r] = event[r]
    PROVE  \A u \in Users : SlotsOf(u)' = SlotsOf(u)
  BY DEF SlotsOf

\* Recording the slot of the current run, which held none, adds it to the
\* slot runs of its author and to no one else's.
LEMMA SlotsAdd ==
    ASSUME TypeOK, run \in Runs, ~slot[run],
           slot' = [slot EXCEPT ![run] = TRUE], event' = event
    PROVE  \A u \in Users :
              SlotsOf(u)' = IF u = event[run].user THEN SlotsOf(u) \cup {run}
                                                   ELSE SlotsOf(u)
  BY DEF SlotsOf, TypeOK

\* The ledger count holds initially: no slot, and every count is 0.
LEMMA InitLedger == Init => LedgerCount
<1> SUFFICES ASSUME Init PROVE LedgerCount
  OBVIOUS
<1>1. \A u \in Users : SlotsOf(u) = {}
  BY DEF Init, SlotsOf
<1>. QED
  BY <1>1, FS_EmptySet DEF Init, LedgerCount

\* Every step keeps the ledger count: the only step that records a slot
\* also adds one to its author's count.
LEMMA NextLedger == ServiceInv /\ [Next]_vars => LedgerCount'
<1> SUFFICES ASSUME ServiceInv, [Next]_vars PROVE LedgerCount'
  OBVIOUS
<1>0. TypeOK /\ RunInv /\ LedgerCount
  BY DEF ServiceInv, MentionInv
<1>1. ASSUME used' = used, \A u \in Users : SlotsOf(u)' = SlotsOf(u)
      PROVE  LedgerCount'
  BY <1>0, <1>1 DEF LedgerCount
<1>2. CASE Start
  <2>2. \A r \in Runs : slot[r] => r # run + 1
    BY <1>0, MentionAssumption DEF RunInv, TypeOK, Runs
  <2>3. PICK e \in Events : event' = [event EXCEPT ![run + 1] = e]
    BY <1>2 DEF Start
  <2>4. \A r \in Runs : slot[r] => event'[r] = event[r]
    BY <2>2, <2>3
  <2>. QED
    BY <1>1, <1>2, <2>4, SlotsKept DEF Start
<1>3. CASE Load \/ HandlePR \/ HandleIssue
  BY <1>1, <1>3, SlotsKept DEF Load, HandlePR, HandleIssue
<1>4. CASE Dispatch
  <2>0. /\ pc = "dispatch" /\ run \in Runs /\ ~slot[run] /\ event' = event
    BY <1>0, <1>4 DEF Dispatch, RunInv
  <2>1. CASE UNCHANGED <<used, slot>>
    BY <1>1, <2>0, <2>1, SlotsKept
  <2>2. CASE /\ used' = [used EXCEPT ![event[run].user] = @ + 1]
             /\ slot' = [slot EXCEPT ![run] = TRUE]
    <3> DEFINE w == event[run].user
    <3>1. w \in Users
      BY <1>0, <2>0 DEF TypeOK, Events
    <3>2. \A u \in Users : SlotsOf(u)' = IF u = w THEN SlotsOf(u) \cup {run}
                                                 ELSE SlotsOf(u)
      BY <1>0, <2>0, <2>2, SlotsAdd
    <3>3. IsFiniteSet(SlotsOf(w)) /\ run \notin SlotsOf(w)
      BY <2>0, RunSetFinite DEF SlotsOf
    <3>4. Cardinality(SlotsOf(w) \cup {run}) = Cardinality(SlotsOf(w)) + 1
      BY <3>3, FS_AddElement
    <3>5. used[w] = Cardinality(SlotsOf(w))
      BY <1>0, <3>1 DEF LedgerCount
    <3>6. \A u \in Users : used'[u] = IF u = w THEN used[u] + 1 ELSE used[u]
      BY <1>0, <2>2, <3>1 DEF TypeOK
    <3>. QED
      BY <1>0, <3>2, <3>4, <3>5, <3>6 DEF LedgerCount
  <2>. QED
    <3>2. \/ event[run].name = "other" /\ UNCHANGED <<used, slot>>
          \/ \E h : MentionCheck(h)
      BY <1>4 DEF Dispatch
    <3>. QED
      BY <2>1, <2>2, <3>2, CheckCases
<1>5. CASE UNCHANGED vars
  BY <1>1, <1>5, SlotsKept DEF vars
<1>. QED
  BY <1>2, <1>3, <1>4, <1>5 DEF Next


\* Under the refinement mapping a run has passed the limiter exactly when
\* it holds a slot or was admitted.
LEMMA PassedRuns ==
    ASSUME TypeOK
    PROVE  \A r \in Runs : r \in Service!Passed <=> slot[r] \/ admitted[r]
  BY DEF Service!Passed, Service!Charged, TypeOK, Events

\* A step that changes no slot, admission or reply, and no event of a run
\* with a slot, is a stutter of the metered service.
LEMMA ServiceStutter ==
    ASSUME slot' = slot, admitted' = admitted, replied' = replied,
           \A r \in Runs : slot[r] => event'[r] = event[r]
    PROVE  UNCHANGED Service!vars
<1>1. \A u \in Users : SlotsOf(u)' = SlotsOf(u)
  BY SlotsKept
<1>. QED
  BY <1>1 DEF Service!vars, SlotsOf

\* Initially no run holds a slot, was admitted or replied.
LEMMA ServiceInit == Init => Service!Init
  BY DEF Init, Service!Init

\* The dispatch's check is a step of the metered service or a stutter:
\* the exempt or unlimited admission a Waive, the slot of
\* _increment_usage a Charge of the author's key, a failure or denial a
\* stutter.
LEMMA CheckStep ==
    ASSUME ServiceInv, NEW h, MentionCheck(h),
           pc = "dispatch", UNCHANGED <<run, event, replied>>
    PROVE  [Service!Next]_Service!vars
<1> DEFINE w == event[run].user
<1>0. /\ TypeOK /\ LedgerCount /\ run \in Runs /\ ~slot[run] /\ ~admitted[run]
      /\ w \in Users /\ Limit("mention") \in Nat
  BY MentionAssumption DEF ServiceInv, MentionInv, RunInv, TypeOK, Events
<1>1. run \notin Service!Passed
  BY <1>0, PassedRuns
<1>2. CASE /\ \/ ExemptTeamMembers /\ event[run].assoc \in TeamAssocs
              \/ Limit("mention") = 0
           /\ admitted' = [admitted EXCEPT ![run] = TRUE]
           /\ UNCHANGED <<used, slot>>
  <2>1. WaivedRuns' = WaivedRuns \cup {run}
    BY <1>0, <1>2 DEF WaivedRuns, TypeOK
  <2>2. /\ [u \in Users |-> SlotsOf(u)]' = [u \in Users |-> SlotsOf(u)]
        /\ RepliedRuns' = RepliedRuns
    BY <1>2 DEF SlotsOf, RepliedRuns
  <2>3. Service!Waive(run)
    BY <1>1, <1>2, <2>1, <2>2 DEF Service!Waive, WaivedRuns, SlotsOf, RepliedRuns
  <2>. QED
    BY <1>0, <2>3 DEF Service!Next, Service!Waive
<1>3. CASE /\ ~(ExemptTeamMembers /\ event[run].assoc \in TeamAssocs)
           /\ Limit("mention") > 0
           /\ \E o \in CallOutcomes :
                \/ o = "fails" /\ UNCHANGED <<slot, admitted>>
                \/ o # "fails" /\ used[w] >= Limit("mention")
                   /\ UNCHANGED <<slot, admitted>>
                \/ /\ o # "fails" /\ used[w] < Limit("mention")
                   /\ used' = [used EXCEPT ![w] = @ + 1]
                   /\ slot' = [slot EXCEPT ![run] = TRUE]
                   /\ admitted' \in {admitted, [admitted EXCEPT ![run] = TRUE]}
  <2>1. CASE UNCHANGED <<slot, admitted>>
    BY <1>0, <2>1, ServiceStutter
  <2>2. CASE /\ used[w] < Limit("mention")
             /\ slot' = [slot EXCEPT ![run] = TRUE]
             /\ admitted' \in {admitted, [admitted EXCEPT ![run] = TRUE]}
    <3>1. \A u \in Users : SlotsOf(u)' = IF u = w THEN SlotsOf(u) \cup {run}
                                                 ELSE SlotsOf(u)
      BY <1>0, <2>2, SlotsAdd
    <3>2. [u \in Users |-> SlotsOf(u)]' =
          [[u \in Users |-> SlotsOf(u)] EXCEPT ![w] = @ \cup {run}]
      BY <1>0, <3>1 DEF SlotsOf
    <3>3. WaivedRuns' = WaivedRuns /\ RepliedRuns' = RepliedRuns
      BY <1>0, <2>2 DEF WaivedRuns, RepliedRuns, TypeOK
    <3>4. Cardinality(SlotsOf(w)) < Limit("mention")
      BY <1>0, <2>2 DEF LedgerCount
    <3>5. Service!Cardinality(SlotsOf(w)) = Cardinality(SlotsOf(w))
      BY DEF Service!Cardinality, Cardinality
    <3>6. Service!Charge(w, run)
      <4>1. Limit("mention") > 0 /\ run \notin Service!Passed
        BY <1>1, <1>3
      <4>2. Service!Cardinality([u \in Users |-> SlotsOf(u)][w]) < Limit("mention")
        BY <1>0, <3>4, <3>5
      <4>3. UNCHANGED <<WaivedRuns, RepliedRuns>>
        BY <3>3
      <4>. QED
        BY <4>1, <4>2, <4>3, <3>2, Zenon
        DEF Service!Charge, SlotsOf, WaivedRuns, RepliedRuns
    <3>. QED
      BY <1>0, <3>6 DEF Service!Next, Service!Charge
  <2>. QED
    BY <1>3, <2>1, <2>2
<1>. QED
  BY <1>2, <1>3 DEF MentionCheck, Finish

\* A handler's reply is a Serve of the metered service, or a stutter when
\* its call failed before taking effect.
LEMMA AnswerStep ==
    ASSUME ServiceInv, NEW h \in {"pr", "issue"}, pc = h,
           NEW f, NEW o, Answer(h, f, o),
           UNCHANGED <<run, event, used, slot, admitted>>
    PROVE  [Service!Next]_Service!vars
<1>0. /\ TypeOK /\ run \in Runs /\ replied[run] = "none" /\ admitted[run]
  BY DEF ServiceInv, MentionInv, RunInv
<1>1. replied' = [replied EXCEPT ![run] = IF f = "ok" /\ o # "fails" THEN h ELSE @]
  BY DEF Answer
<1>2. CASE f = "ok" /\ o # "fails"
  <2>1. RepliedRuns' = RepliedRuns \cup {run} /\ run \notin RepliedRuns
    BY <1>0, <1>1, <1>2 DEF RepliedRuns, TypeOK
  <2>2. run \in Service!Passed
    BY <1>0, PassedRuns
  <2>3. /\ [u \in Users |-> SlotsOf(u)]' = [u \in Users |-> SlotsOf(u)]
        /\ WaivedRuns' = WaivedRuns
    BY DEF SlotsOf, WaivedRuns
  <2>4. Service!Serve(run)
    BY <2>1, <2>2, <2>3 DEF Service!Serve, SlotsOf, WaivedRuns, RepliedRuns
  <2>. QED
    BY <1>0, <2>4 DEF Service!Next, Service!Serve
<1>3. CASE ~(f = "ok" /\ o # "fails")
  <2>1. replied' = replied
    BY <1>0, <1>1, <1>3 DEF TypeOK
  <2>. QED
    BY <2>1, ServiceStutter
<1>. QED
  BY <1>2, <1>3

\* Every step of the mention handler is a step of the metered service or
\* a stutter.
LEMMA ServiceStep == ServiceInv /\ [Next]_vars => [Service!Next]_Service!vars
<1> SUFFICES ASSUME ServiceInv, [Next]_vars
             PROVE  [Service!Next]_Service!vars
  OBVIOUS
<1>0. TypeOK /\ RunInv
  BY DEF ServiceInv, MentionInv
<1>1. CASE Start
  <2>1. \A r \in Runs : slot[r] => r # run + 1
    BY <1>0, MentionAssumption DEF RunInv, TypeOK, Runs
  <2>2. PICK e \in Events : event' = [event EXCEPT ![run + 1] = e]
    BY <1>1 DEF Start
  <2>3. \A r \in Runs : slot[r] => event'[r] = event[r]
    BY <2>1, <2>2
  <2>. QED
    BY <1>1, <2>3, ServiceStutter DEF Start
<1>2. CASE Load
  BY <1>2, ServiceStutter DEF Load
<1>3. CASE Dispatch
  <2>1. CASE event[run].name = "other"
    BY <1>3, <2>1, ServiceStutter DEF Dispatch
  <2>2. CASE event[run].name # "other"
    BY <1>3, <2>2, CheckStep DEF Dispatch
  <2>. QED
    BY <2>1, <2>2
<1>4. CASE HandlePR
  BY <1>4, AnswerStep DEF HandlePR
<1>5. CASE HandleIssue
  BY <1>5, AnswerStep DEF HandleIssue
<1>6. CASE UNCHANGED vars
  BY <1>6, ServiceStutter DEF vars
<1>. QED
  BY <1>1, <1>2, <1>3, <1>4, <1>5, <1>6 DEF Next

-----------------------------------------------------------------------------

(***************************************************************************)
(* Besides MentionInv, an author's mention count in the tracker is the    *)
(* number of their runs that recorded a slot, in every behaviour.         *)
(***************************************************************************)
THEOREM LedgerCounted == Spec => [](MentionInv /\ LedgerCount)
<1>1. Init => ServiceInv
  BY InitInv, InitLedger DEF ServiceInv
<1>2. ServiceInv /\ [Next]_vars => ServiceInv'
  BY NextInv, NextLedger DEF ServiceInv
<1>. QED
  BY <1>1, <1>2, PTL DEF Spec, ServiceInv

(***************************************************************************)
(* The mention handler implements the metered-service promise for every  *)
(* set of users and associations, number of runs and mention limit, with *)
(* or without failures: each reply follows a slot of its author recorded *)
(* while fewer than mentions_per_user_per_day were taken, an exemption,  *)
(* or an unlimited configuration.                                        *)
(***************************************************************************)
THEOREM MentionServiceRefinement == Spec => ServiceRefinement
<1>1. Spec => []ServiceInv
  BY LedgerCounted, PTL DEF ServiceInv
<1>2. ServiceInv /\ [Next]_vars => [Service!Next]_Service!vars
  BY ServiceStep
<1>. QED
  BY <1>1, <1>2, ServiceInit, PTL DEF Spec, ServiceRefinement, Service!Spec

=============================================================================
