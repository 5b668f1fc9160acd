------------------------- MODULE RateLimiterProofs -------------------------
(***************************************************************************)
(* Proofs about the rate limiter model RateLimiter, for every value of the *)
(* constants that satisfies ConstantsAssumption.                           *)
(***************************************************************************)
EXTENDS RateLimiter, TLAPS, FiniteSetTheorems, SequenceTheorems,
        WellFoundedInduction

\* The program points at which a slot holds a tracker issue (tk).
HoldsTracker == {"p1_today", "p1_comments", "p2_today", "p2_comments",
                 "inc_today", "create_comment"}

\* A slot past _get_rate_limit_issue holds an existing tracker issue.
TrackerHeld ==
    \A p \in Procs : pc[p] \in HoldsTracker => tk[p] \in 1..Len(trackers)

\* The inductive invariant behind TypeOK.
TypeInv == TypeOK /\ TrackerHeld

\* The number of usage comments of ledger c for user a and op o.
KeyCount(c, a, o) == Cardinality(KeyRecords(c, a, o))

\* Every count on ledger c is backed by that many comments of its key.
Backed(c) ==
    \A i \in 1..Len(c) : c[i].count <= KeyCount(c, c[i].user, c[i].op)

\* The program points between _increment_usage's read and its post.
Pending == {"inc_today", "create_comment"}

\* A new_count about to be posted is at most one more than the comments
\* of its key on the tracker it will be posted to.
PendingBacked ==
    \A p \in Procs :
        pc[p] \in Pending =>
            newCount[p] <= KeyCount(trackers[tk[p]], req[p].user, req[p].op) + 1

\* The inductive invariant behind NoPhantomUsage.
PhantomInv ==
    /\ TypeInv
    /\ \A t \in 1..Len(trackers) : Backed(trackers[t])
    /\ PendingBacked

-----------------------------------------------------------------------------
(***************************************************************************)
(* A non-empty set of positions 1..n has a largest element, and LastIndex *)
(* picks it: the comment _parse_usage_from_comments assigns last.          *)
(***************************************************************************)
LEMMA LastIndexIsMax ==
    ASSUME NEW n \in Nat, NEW S \in SUBSET (1..n), S # {}
    PROVE  /\ LastIndex(S) \in S
           /\ \A j \in S : j <= LastIndex(S)
<1>1. \E i \in S : \A j \in S : j <= i
  <2> DEFINE T == {n - i : i \in S}
  <2>1. \A i \in S : n - i \in Nat
    OBVIOUS
  <2>2. T \subseteq Nat /\ T # {}
    BY <2>1
  <2>3. \E x \in T : \A y \in T : ~(<<y, x>> \in OpToRel(<, Nat))
    BY <2>2, NatLessThanWellFounded, WFMin, Zenon
  <2>4. PICK x \in T : \A y \in T : ~(<<y, x>> \in OpToRel(<, Nat))
    BY <2>3, Zenon
  <2>5. \A y \in T : y < x => <<y, x>> \in OpToRel(<, Nat)
    BY <2>2, Zenon DEF OpToRel
  <2>6. \A y \in T : ~(y < x)
    BY <2>4, <2>5, Zenon
  <2>7. PICK i \in S : x = n - i
    BY Zenon
  <2>8. \A j \in S : n - j \in T /\ j \in Nat
    OBVIOUS
  <2>9. \A j \in S : ~(n - j < n - i)
    BY <2>6, <2>7, <2>8
  <2>10. \A j \in S : j <= i
    BY <2>8, <2>9
  <2>11. QED
    BY <2>10
<1>2. QED
  BY <1>1 DEF LastIndex

(***************************************************************************)
(* The snapshot value of a key is a natural number.                       *)
(***************************************************************************)
LEMMA LastCountType ==
    ASSUME NEW c \in Seq(UsageRecord), NEW d, NEW a, NEW o
    PROVE  LastCount(c, d, a, o) \in Nat
<1> DEFINE idx == Matching(c, d, a, o)
<1>1. idx \in SUBSET (1..Len(c))
  BY DEF Matching
<1>2. CASE idx = {}
  BY <1>2 DEF LastCount
<1>3. CASE idx # {}
  <2>0. \A S \in SUBSET (1..Len(c)) : S # {} => LastIndex(S) \in S
    BY LastIndexIsMax, LenProperties
  <2>1. LastIndex(idx) \in 1..Len(c)
    BY <1>1, <1>3, <2>0
  <2>2. c[LastIndex(idx)] \in UsageRecord
    BY <2>1
  <2>3. QED
    BY <1>3, <2>2 DEF LastCount, UsageRecord
<1>4. QED
  BY <1>2, <1>3

(***************************************************************************)
(* The usage comments of a key form a finite set.                         *)
(***************************************************************************)
LEMMA KeyCountType ==
    ASSUME NEW c \in Seq(UsageRecord), NEW a, NEW o
    PROVE  /\ IsFiniteSet(KeyRecords(c, a, o))
           /\ KeyCount(c, a, o) \in Nat
<1>1. IsFiniteSet(1..Len(c))
  BY FS_Interval
<1>2. KeyRecords(c, a, o) \subseteq 1..Len(c)
  BY DEF KeyRecords
<1>3. IsFiniteSet(KeyRecords(c, a, o))
  BY <1>1, <1>2, FS_Subset
<1>4. QED
  BY <1>3, FS_CardinalityType DEF KeyCount

(***************************************************************************)
(* On a ledger whose counts are backed, the count the parser returns for  *)
(* a key is at most the number of comments of that key.                   *)
(***************************************************************************)
LEMMA LastCountBacked ==
    ASSUME NEW c \in Seq(UsageRecord), Backed(c), NEW d, NEW a, NEW o
    PROVE  LastCount(c, d, a, o) <= KeyCount(c, a, o)
<1> DEFINE idx == Matching(c, d, a, o)
<1>1. KeyCount(c, a, o) \in Nat
  BY KeyCountType
<1>2. CASE idx = {}
  BY <1>1, <1>2 DEF LastCount
<1>3. CASE idx # {}
  <2>1. idx \in SUBSET (1..Len(c))
    BY DEF Matching
  <2>2. LastIndex(idx) \in idx
    BY <1>3, <2>1, LastIndexIsMax
  <2>3. /\ LastIndex(idx) \in 1..Len(c)
        /\ c[LastIndex(idx)].user = a
        /\ c[LastIndex(idx)].op = o
    BY <2>2 DEF Matching
  <2>4. c[LastIndex(idx)].count <= KeyCount(c, a, o)
    BY <2>3 DEF Backed
  <2>5. QED
    BY <1>3, <2>4 DEF LastCount
<1>4. QED
  BY <1>2, <1>3

(***************************************************************************)
(* Posting a comment adds one comment to its own key and none to others.  *)
(***************************************************************************)
LEMMA AppendKeyCount ==
    ASSUME NEW c \in Seq(UsageRecord), NEW r \in UsageRecord, NEW a, NEW o
    PROVE  KeyCount(Append(c, r), a, o) =
             IF r.user = a /\ r.op = o THEN KeyCount(c, a, o) + 1
                                       ELSE KeyCount(c, a, o)
<1> DEFINE n == Len(c)
           old == KeyRecords(c, a, o)
           new == KeyRecords(Append(c, r), a, o)
<1>1. /\ Len(Append(c, r)) = n + 1
      /\ \A i \in 1..n : Append(c, r)[i] = c[i]
      /\ Append(c, r)[n + 1] = r
      /\ n \in Nat
  BY AppendProperties, LenProperties
<1>2. IsFiniteSet(old)
  BY KeyCountType
<1>3. n + 1 \notin old
  BY <1>1 DEF KeyRecords
<1>4. CASE r.user = a /\ r.op = o
  <2>1. new = old \cup {n + 1}
    BY <1>1, <1>4 DEF KeyRecords
  <2>2. Cardinality(old \cup {n + 1}) = Cardinality(old) + 1
    BY <1>2, <1>3, FS_AddElement
  <2>3. QED
    BY <1>4, <2>1, <2>2 DEF KeyCount
<1>5. CASE ~(r.user = a /\ r.op = o)
  <2>1. new = old
    BY <1>1, <1>5 DEF KeyRecords
  <2>2. QED
    BY <1>5, <2>1 DEF KeyCount
<1>6. QED
  BY <1>4, <1>5

(***************************************************************************)
(* Posting a comment keeps every count of the ledger backed, provided the *)
(* new count is at most one more than the comments of its key.            *)
(***************************************************************************)
LEMMA AppendBacked ==
    ASSUME NEW c \in Seq(UsageRecord), Backed(c), NEW r \in UsageRecord,
           r.count <= KeyCount(c, r.user, r.op) + 1
    PROVE  Backed(Append(c, r))
<1> DEFINE n == Len(c)
           c2 == Append(c, r)
<1>1. /\ Len(c2) = n + 1
      /\ \A i \in 1..n : c2[i] = c[i]
      /\ c2[n + 1] = r
      /\ n \in Nat
  BY AppendProperties, LenProperties
<1>2. SUFFICES ASSUME NEW i \in 1..Len(c2)
               PROVE  c2[i].count <= KeyCount(c2, c2[i].user, c2[i].op)
  BY DEF Backed
<1>3. CASE i \in 1..n
  <2>1. c[i] \in UsageRecord
    BY <1>3, ElementOfSeq
  <2>2. c[i].count <= KeyCount(c, c[i].user, c[i].op)
    BY <1>3 DEF Backed
  <2>3. KeyCount(c, c[i].user, c[i].op) <= KeyCount(c2, c[i].user, c[i].op)
    <3>1. KeyCount(c, c[i].user, c[i].op) \in Nat
      BY KeyCountType
    <3>2. QED
      BY <3>1, AppendKeyCount
  <2>4. /\ c[i].count \in Nat
        /\ KeyCount(c, c[i].user, c[i].op) \in Nat
        /\ KeyCount(c2, c[i].user, c[i].op) \in Nat
    <3>1. c2 \in Seq(UsageRecord)
      BY AppendProperties
    <3>2. QED
      BY <2>1, <3>1, KeyCountType DEF UsageRecord
  <2>5. c2[i] = c[i]
    BY <1>1, <1>3
  <2>6. QED
    BY <2>2, <2>3, <2>4, <2>5
<1>4. CASE i = n + 1
  <2>1. KeyCount(c2, r.user, r.op) = KeyCount(c, r.user, r.op) + 1
    BY AppendKeyCount
  <2>2. QED
    BY <1>1, <1>4, <2>1
<1>5. QED
  BY <1>1, <1>3, <1>4

-----------------------------------------------------------------------------
LEMMA InitTypeInv == Init => TypeInv
<1> SUFFICES ASSUME Init PROVE TypeInv
  OBVIOUS
<1>1. (CHOOSE as \in Assocs : TRUE) \in Assocs
  BY ConstantsAssumption
<1>2. MaxDay \in Nat \ {0}
  BY ConstantsAssumption
<1>3. QED
  BY <1>1, <1>2 DEF Init, TypeInv, TypeOK, TrackerHeld, Request, Days,
     Actors, PCs, Ops, HoldsTracker

LEMMA NextTypeInv == TypeInv /\ [Next]_vars => TypeInv'
<1> SUFFICES ASSUME TypeInv, [Next]_vars PROVE TypeInv'
  OBVIOUS
<1> USE ConstantsAssumption DEF TypeInv, TypeOK, PCs
<1>1. ASSUME NEW p \in Procs, Start(p) PROVE TypeInv'
  <2>1. PICK op \in Ops, u \in Users, as \in Assocs :
          LET r == [op |-> op, user |-> IF op = "review" THEN System ELSE u,
                    assoc |-> as]
          IN  /\ req' = [req EXCEPT ![p] = r]
              /\ pc' = [pc EXCEPT ![p] = IF IsExempt(r) \/ IsUnlimited(r)
                                         THEN "idle" ELSE "get_issues"]
    BY <1>1 DEF Start
  <2>2. req' \in [Procs -> Request]
    BY <2>1 DEF Request, Actors
  <2>3. pc' \in [Procs -> PCs] /\ pc'[p] \notin HoldsTracker
    BY <2>1 DEF HoldsTracker
  <2>4. QED
    BY <1>1, <2>2, <2>3 DEF Start, TrackerHeld
<1>2. ASSUME NEW p \in Procs, GetIssues(p) PROVE TypeInv'
  <2>1. trackers # <<>> => Len(trackers) \in Nat \ {0}
    BY EmptySeq
  <2>2. CASE trackers # <<>>
    <3>1. /\ tk' = [tk EXCEPT ![p] = Len(trackers)]
          /\ pc' = [pc EXCEPT ![p] = "p1_today"]
          /\ trackers' = trackers
      BY <1>2, <2>2 DEF GetIssues
    <3>2. Len(trackers) \in 1..Len(trackers)
      BY <2>1, <2>2
    <3>3. TrackerHeld'
      BY <3>1, <3>2 DEF TrackerHeld
    <3>4. QED
      BY <1>2, <3>1, <3>2, <3>3 DEF GetIssues
  <2>3. CASE trackers = <<>>
    BY <1>2, <2>3 DEF GetIssues, TrackerHeld, HoldsTracker
  <2>4. QED
    BY <2>2, <2>3
<1>3. ASSUME NEW p \in Procs, CreateIssue(p) PROVE TypeInv'
  <2>1. /\ trackers' \in Seq(Seq(UsageRecord))
        /\ Len(trackers') = Len(trackers) + 1
    BY <1>3, EmptySeq, AppendProperties DEF CreateIssue
  <2>2. CASE /\ tk' = [tk EXCEPT ![p] = Len(trackers')]
              /\ pc' = [pc EXCEPT ![p] = "p1_today"]
    BY <1>3, <2>1, <2>2 DEF CreateIssue, TrackerHeld, HoldsTracker
  <2>3. CASE pc' = [pc EXCEPT ![p] = "idle"] /\ UNCHANGED tk
    BY <1>3, <2>1, <2>3 DEF CreateIssue, TrackerHeld, HoldsTracker
  <2>4. QED
    BY <1>3, <2>2, <2>3 DEF CreateIssue
<1>4. ASSUME NEW p \in Procs, ParseToday(p) PROVE TypeInv'
  BY <1>4 DEF ParseToday, TrackerHeld, HoldsTracker
<1>5. ASSUME NEW p \in Procs, CheckUsage(p) PROVE TypeInv'
  BY <1>5 DEF CheckUsage, TrackerHeld, HoldsTracker
<1>6. ASSUME NEW p \in Procs, IncrementRead(p) PROVE TypeInv'
  <2>1. trackers[tk[p]] \in Seq(UsageRecord)
    BY <1>6 DEF IncrementRead, TrackerHeld, HoldsTracker
  <2>2. LastCount(trackers[tk[p]], pday[p], req[p].user, req[p].op) \in Nat
    BY <2>1, LastCountType
  <2>3. QED
    BY <1>6, <2>2 DEF IncrementRead, TrackerHeld, HoldsTracker
<1>7. ASSUME NEW p \in Procs, IncrementToday(p) PROVE TypeInv'
  BY <1>7 DEF IncrementToday, TrackerHeld, HoldsTracker
<1>8. ASSUME NEW p \in Procs, CreateComment(p) PROVE TypeInv'
  <2>1. tk[p] \in 1..Len(trackers)
    BY <1>8 DEF CreateComment, TrackerHeld, HoldsTracker
  <2>2. PostedRecord(p) \in UsageRecord
    BY DEF PostedRecord, UsageRecord, Request
  <2>3. Append(trackers[tk[p]], PostedRecord(p)) \in Seq(UsageRecord)
    BY <2>1, <2>2, ElementOfSeq, AppendProperties
  <2>4. trackers' \in Seq(Seq(UsageRecord)) /\ Len(trackers') = Len(trackers)
    BY <1>8, <2>1, <2>3, ExceptSeq DEF CreateComment
  <2>5. /\ admitDay[p] \in Days
        /\ req[p].user \in Actors
        /\ req[p].op \in Ops
    BY DEF Request
  <2>6. grants' \in [Days -> [Actors -> [Ops -> Nat]]]
    <3>1. grants[admitDay[p]][req[p].user][req[p].op] + 1 \in Nat
      BY <2>5
    <3>2. CASE grants' = [grants EXCEPT
                            ![admitDay[p]][req[p].user][req[p].op] = @ + 1]
      BY <2>5, <3>1, <3>2
    <3>3. QED
      BY <1>8, <3>2 DEF CreateComment
  <2>7. QED
    BY <1>8, <2>4, <2>6 DEF CreateComment, TrackerHeld, HoldsTracker
<1>9. ASSUME NEW p \in Procs, ApiFails(p) PROVE TypeInv'
  BY <1>9 DEF ApiFails, TrackerHeld, HoldsTracker
<1>10. CASE Midnight
  BY <1>10 DEF Midnight, TrackerHeld, Days
<1>11. CASE UNCHANGED vars
  BY <1>11 DEF vars, TrackerHeld
<1>12. QED
  BY <1>1, <1>2, <1>3, <1>4, <1>5, <1>6, <1>7, <1>8, <1>9, <1>10, <1>11
  DEF Next

(***************************************************************************)
(* Type correctness of every state the checks can reach.                  *)
(***************************************************************************)
THEOREM TypeCorrect == Spec => []TypeOK
<1>1. Spec => []TypeInv
  BY InitTypeInv, NextTypeInv, PTL DEF Spec
<1>2. QED
  BY <1>1, PTL DEF TypeInv

-----------------------------------------------------------------------------
\* Every tracker issue's counts are backed.
TrackersBacked == \A t \in 1..Len(trackers) : Backed(trackers[t])

(***************************************************************************)
(* A step of slot p that leaves the trackers alone, changes no other slot *)
(* and leaves p outside the pending window keeps the counts backed.       *)
(***************************************************************************)
LEMMA StepOffPending ==
    ASSUME PhantomInv, NEW p \in Procs,
           trackers' = trackers,
           \A q \in Procs \ {p} : /\ pc'[q] = pc[q]
                                  /\ tk'[q] = tk[q]
                                  /\ newCount'[q] = newCount[q]
                                  /\ req'[q] = req[q],
           pc'[p] \notin Pending
    PROVE  TrackersBacked' /\ PendingBacked'
<1>1. TrackersBacked'
  BY DEF PhantomInv, TrackersBacked
<1>2. PendingBacked'
  BY DEF PhantomInv, PendingBacked
<1>3. QED
  BY <1>1, <1>2

LEMMA InitPhantomInv == Init => PhantomInv
<1> SUFFICES ASSUME Init PROVE PhantomInv
  OBVIOUS
<1>1. TypeInv
  BY InitTypeInv
<1>2. Len(trackers) = 0
  BY EmptySeq DEF Init
<1>3. QED
  BY <1>1, <1>2 DEF Init, PhantomInv, PendingBacked, Pending

LEMMA NextPhantomInv == PhantomInv /\ [Next]_vars => PhantomInv'
<1> SUFFICES ASSUME PhantomInv, [Next]_vars
             PROVE  TypeInv' /\ TrackersBacked' /\ PendingBacked'
  BY DEF PhantomInv, TrackersBacked
<1>0. TypeInv'
  BY NextTypeInv DEF PhantomInv
<1> USE <1>0
<1>00. /\ pc \in [Procs -> PCs] /\ tk \in [Procs -> Nat]
       /\ newCount \in [Procs -> Nat] /\ req \in [Procs -> Request]
  BY DEF PhantomInv, TypeInv, TypeOK
<1> HIDE DEF PhantomInv
<1>1. ASSUME NEW p \in Procs, Start(p) PROVE TrackersBacked' /\ PendingBacked'
  <2>1. pc'[p] \notin Pending
    BY <1>1 DEF Start, Pending
  <2>2. QED
    BY <1>1, <2>1, <1>00, StepOffPending DEF Start
<1>2. ASSUME NEW p \in Procs, GetIssues(p)
      PROVE  TrackersBacked' /\ PendingBacked'
  BY <1>2, <1>00, StepOffPending DEF GetIssues, Pending
<1>3. ASSUME NEW p \in Procs, CreateIssue(p)
      PROVE  TrackersBacked' /\ PendingBacked'
  <2>1. /\ trackers \in Seq(Seq(UsageRecord))
        /\ TrackerHeld /\ TrackersBacked /\ PendingBacked
    BY DEF PhantomInv, TypeInv, TypeOK, TrackersBacked
  <2>2. /\ Len(trackers') = Len(trackers) + 1
        /\ \A t \in 1..Len(trackers) : trackers'[t] = trackers[t]
        /\ trackers'[Len(trackers) + 1] = <<>>
        /\ Len(trackers) \in Nat
    BY <1>3, <2>1, EmptySeq, AppendProperties, LenProperties DEF CreateIssue
  <2>3. Backed(<<>>)
    BY EmptySeq DEF Backed
  <2>4. TrackersBacked'
    BY <2>1, <2>2, <2>3 DEF TrackersBacked
  <2>5. PendingBacked'
    <3>1. pc'[p] \notin Pending
      BY <1>3, <1>00 DEF CreateIssue, Pending
    <3>2. QED
      BY <1>3, <1>00, <2>1, <2>2, <3>1 DEF CreateIssue, PendingBacked, TrackerHeld,
         HoldsTracker, Pending
  <2>6. QED
    BY <2>4, <2>5
<1>4. ASSUME NEW p \in Procs, ParseToday(p)
      PROVE  TrackersBacked' /\ PendingBacked'
  BY <1>4, <1>00, StepOffPending DEF ParseToday, Pending
<1>5. ASSUME NEW p \in Procs, CheckUsage(p)
      PROVE  TrackersBacked' /\ PendingBacked'
  BY <1>5, <1>00, StepOffPending DEF CheckUsage, Pending
<1>6. ASSUME NEW p \in Procs, IncrementRead(p)
      PROVE  TrackersBacked' /\ PendingBacked'
  <2>1. /\ trackers \in Seq(Seq(UsageRecord))
        /\ TrackerHeld /\ TrackersBacked /\ PendingBacked
        /\ req \in [Procs -> Request]
    BY DEF PhantomInv, TypeInv, TypeOK, TrackersBacked
  <2> DEFINE c == trackers[tk[p]]
  <2>2. tk[p] \in 1..Len(trackers)
    BY <1>6, <2>1 DEF IncrementRead, TrackerHeld, HoldsTracker
  <2>3. c \in Seq(UsageRecord) /\ Backed(c)
    BY <2>1, <2>2, ElementOfSeq DEF TrackersBacked
  <2>4. /\ LastCount(c, pday[p], req[p].user, req[p].op)
             <= KeyCount(c, req[p].user, req[p].op)
        /\ LastCount(c, pday[p], req[p].user, req[p].op) \in Nat
        /\ KeyCount(c, req[p].user, req[p].op) \in Nat
    BY <2>3, LastCountBacked, LastCountType, KeyCountType
  <2>5. TrackersBacked'
    BY <1>6, <2>1 DEF IncrementRead, TrackersBacked
  <2>6. PendingBacked'
    BY <1>6, <1>00, <2>1, <2>4 DEF IncrementRead, PendingBacked
  <2>7. QED
    BY <2>5, <2>6
<1>7. ASSUME NEW p \in Procs, IncrementToday(p)
      PROVE  TrackersBacked' /\ PendingBacked'
  <2>1. TrackersBacked /\ PendingBacked
    BY DEF PhantomInv, TrackersBacked
  <2>2. QED
    BY <1>7, <2>1 DEF IncrementToday, TrackersBacked, PendingBacked, Pending
<1>8. ASSUME NEW p \in Procs, CreateComment(p)
      PROVE  TrackersBacked' /\ PendingBacked'
  <2>1. /\ trackers \in Seq(Seq(UsageRecord))
        /\ TrackerHeld /\ TrackersBacked /\ PendingBacked
        /\ req \in [Procs -> Request]
        /\ tk \in [Procs -> Nat]
        /\ newCount \in [Procs -> Nat]
        /\ pc \in [Procs -> PCs]
    BY DEF PhantomInv, TypeInv, TypeOK, TrackersBacked
  <2> DEFINE t0 == tk[p]
             c == trackers[t0]
             r == PostedRecord(p)
  <2>2. t0 \in 1..Len(trackers)
    BY <1>8, <2>1 DEF CreateComment, TrackerHeld, HoldsTracker
  <2>3. c \in Seq(UsageRecord) /\ Backed(c)
    BY <2>1, <2>2, ElementOfSeq DEF TrackersBacked
  <2>4. r \in UsageRecord
    BY <2>1 DEF PostedRecord, UsageRecord, Request, TypeInv, TypeOK,
       PhantomInv
  <2>5. r.count <= KeyCount(c, r.user, r.op) + 1
    BY <1>8, <2>1 DEF CreateComment, PendingBacked, Pending, PostedRecord
  <2>6. /\ Len(trackers') = Len(trackers)
        /\ trackers'[t0] = Append(c, r)
        /\ \A t \in 1..Len(trackers) \ {t0} : trackers'[t] = trackers[t]
    BY <1>8, <2>1, <2>2 DEF CreateComment
  <2>7. Backed(Append(c, r))
    BY <2>3, <2>4, <2>5, AppendBacked
  <2>8. TrackersBacked'
    BY <2>1, <2>6, <2>7 DEF TrackersBacked
  <2>9. PendingBacked'
    <3> SUFFICES ASSUME NEW q \in Procs, pc'[q] \in Pending
                 PROVE  newCount'[q] <= KeyCount(trackers'[tk'[q]],
                                                 req'[q].user, req'[q].op) + 1
      BY DEF PendingBacked
    <3>1. q # p /\ pc[q] \in Pending
      BY <1>8, <2>1 DEF CreateComment, Pending
    <3>2. /\ tk[q] \in 1..Len(trackers)
          /\ newCount[q] <= KeyCount(trackers[tk[q]], req[q].user, req[q].op) + 1
      BY <2>1, <3>1 DEF TrackerHeld, HoldsTracker, Pending, PendingBacked
    <3>3. /\ trackers[tk[q]] \in Seq(UsageRecord)
          /\ KeyCount(trackers[tk[q]], req[q].user, req[q].op) \in Nat
      BY <2>1, <3>2, ElementOfSeq, KeyCountType
    <3>4. KeyCount(trackers[tk[q]], req[q].user, req[q].op)
            <= KeyCount(trackers'[tk[q]], req[q].user, req[q].op)
      <4>1. CASE tk[q] = t0
        <5>1. KeyCount(Append(c, r), req[q].user, req[q].op) =
                IF r.user = req[q].user /\ r.op = req[q].op
                  THEN KeyCount(c, req[q].user, req[q].op) + 1
                  ELSE KeyCount(c, req[q].user, req[q].op)
          BY <2>3, <2>4, AppendKeyCount
        <5>2. trackers'[tk[q]] = Append(c, r)
          BY <2>6, <4>1
        <5>3. QED
          BY <3>3, <4>1, <5>1, <5>2
      <4>2. CASE tk[q] # t0
        <5>1. trackers'[tk[q]] = trackers[tk[q]]
          BY <2>6, <3>2, <4>2
        <5>2. QED
          BY <3>3, <5>1
      <4>3. QED
        BY <4>1, <4>2
    <3>5. KeyCount(trackers'[tk[q]], req[q].user, req[q].op) \in Nat
      <4>1. trackers' \in Seq(Seq(UsageRecord)) /\ Len(trackers') = Len(trackers)
        BY <2>6 DEF TypeInv, TypeOK
      <4>2. QED
        BY <3>2, <4>1, ElementOfSeq, KeyCountType
    <3>6. /\ newCount'[q] = newCount[q] /\ tk'[q] = tk[q] /\ req'[q] = req[q]
      BY <1>8 DEF CreateComment
    <3>7. newCount[q] <= KeyCount(trackers'[tk[q]], req[q].user, req[q].op) + 1
      BY <1>00, <3>2, <3>3, <3>4, <3>5
    <3>8. QED
      BY <3>6, <3>7, Zenon
  <2>10. QED
    BY <2>8, <2>9
<1>9. ASSUME NEW p \in Procs, ApiFails(p)
      PROVE  TrackersBacked' /\ PendingBacked'
  BY <1>9, <1>00, StepOffPending DEF ApiFails, Pending
<1>10. CASE Midnight
  BY <1>10 DEF Midnight, PhantomInv, TrackersBacked, PendingBacked
<1>11. CASE UNCHANGED vars
  BY <1>11 DEF vars, PhantomInv, TrackersBacked, PendingBacked
<1>12. QED
  BY <1>1, <1>2, <1>3, <1>4, <1>5, <1>6, <1>7, <1>8, <1>9, <1>10, <1>11
  DEF Next

(***************************************************************************)
(* No phantom usage, for every number of workflows, users, days and every *)
(* limit: races between concurrent checks, duplicate tracker issues, lost *)
(* replies and midnight can make the ledger undercount, never overcount.   *)
(***************************************************************************)
THEOREM NoPhantom == Spec => []NoPhantomUsage
<1>1. Spec => []PhantomInv
  BY InitPhantomInv, NextPhantomInv, PTL DEF Spec
<1>2. PhantomInv => NoPhantomUsage
  <2> SUFFICES ASSUME PhantomInv PROVE NoPhantomUsage
    OBVIOUS
  <2>1. trackers \in Seq(Seq(UsageRecord))
    BY DEF PhantomInv, TypeInv, TypeOK, TrackersBacked
  <2>2. DOMAIN trackers = 1..Len(trackers)
    BY <2>1, LenProperties
  <2>3. QED
    BY <2>2 DEF PhantomInv, Backed, KeyCount, NoPhantomUsage
<1>3. QED
  BY <1>1, <1>2, PTL
-----------------------------------------------------------------------------
\* Slot p's request passed the exemption and unlimited returns of check_*.
Metered(p) == ~IsExempt(req[p]) /\ ~IsUnlimited(req[p])

\* The inductive invariant behind MeteredAppends: a slot that is in a
\* check (not idle) holds a request that passed the early returns.
MeteredInv == TypeInv /\ \A p \in Procs : pc[p] # "idle" => Metered(p)

LEMMA InitMeteredInv == Init => MeteredInv
BY InitTypeInv DEF Init, MeteredInv

\* The steps other than Start keep every request and start no check.
LEMMA NoStartKeepsIdle ==
    ASSUME TypeInv, NEW p0 \in Procs,
           \/ GetIssues(p0) \/ CreateIssue(p0) \/ ParseToday(p0)
           \/ CheckUsage(p0) \/ IncrementRead(p0) \/ IncrementToday(p0)
           \/ CreateComment(p0) \/ ApiFails(p0)
    PROVE  /\ req' = req
           /\ \A p \in Procs : pc'[p] # "idle" => pc[p] # "idle"
<1>1. pc[p0] # "idle"
  BY DEF GetIssues, CreateIssue, ParseToday, CheckUsage, IncrementRead,
     IncrementToday, CreateComment, ApiFails, NetworkPCs
<1>2. \E x : pc' = [pc EXCEPT ![p0] = x]
  BY Zenon DEF GetIssues, CreateIssue, ParseToday, CheckUsage, IncrementRead,
     IncrementToday, CreateComment, ApiFails
<1>3. req' = req
  BY DEF GetIssues, CreateIssue, ParseToday, CheckUsage, IncrementRead,
     IncrementToday, CreateComment, ApiFails
<1>4. QED
  BY <1>1, <1>2, <1>3 DEF TypeInv, TypeOK

LEMMA NextMeteredInv == MeteredInv /\ [Next]_vars => MeteredInv'
<1> SUFFICES ASSUME MeteredInv, [Next]_vars PROVE MeteredInv'
  OBVIOUS
<1>1. TypeInv' /\ TypeInv
  BY NextTypeInv DEF MeteredInv
<1>2. SUFFICES ASSUME NEW p \in Procs, pc'[p] # "idle" PROVE Metered(p)'
  BY <1>1 DEF MeteredInv
<1>3. ASSUME NEW p0 \in Procs, Start(p0) PROVE Metered(p)'
  <2>1. CASE p0 = p
    <3>1. PICK op \in Ops, u \in Users, as \in Assocs :
            LET r == [op |-> op, user |-> IF op = "review" THEN System ELSE u,
                      assoc |-> as]
            IN  /\ req' = [req EXCEPT ![p0] = r]
                /\ pc' = [pc EXCEPT ![p0] = IF IsExempt(r) \/ IsUnlimited(r)
                                           THEN "idle" ELSE "get_issues"]
      BY <1>3 DEF Start
    <3>2. QED
      BY <1>1, <2>1, <3>1, <1>2 DEF TypeInv, TypeOK, Metered
  <2>2. CASE p0 # p
    BY <1>1, <1>2, <1>3, <2>2 DEF Start, TypeInv, TypeOK, MeteredInv, Metered
  <2>3. QED
    BY <2>1, <2>2
<1>4. ASSUME NEW p0 \in Procs,
             \/ GetIssues(p0) \/ CreateIssue(p0) \/ ParseToday(p0)
             \/ CheckUsage(p0) \/ IncrementRead(p0) \/ IncrementToday(p0)
             \/ CreateComment(p0) \/ ApiFails(p0)
      PROVE  Metered(p)'
  <2>1. req' = req /\ pc[p] # "idle"
    BY <1>1, <1>2, <1>4, NoStartKeepsIdle
  <2>2. QED
    BY <2>1 DEF MeteredInv, Metered
<1>5. CASE Midnight \/ UNCHANGED vars
  BY <1>2, <1>5 DEF Midnight, vars, MeteredInv, Metered
<1>6. QED
  BY <1>3, <1>4, <1>5 DEF Next

(***************************************************************************)
(* The only step that lengthens an existing tracker issue is the          *)
(* create_comment of a slot holding it, whose request is then metered.    *)
(***************************************************************************)
LEMMA MeteredStep ==
    MeteredInv /\ [Next]_vars =>
      [\A t \in DOMAIN trackers :
          Len(trackers'[t]) # Len(trackers[t]) =>
            \E p \in Procs : /\ pc[p] = "create_comment" /\ tk[p] = t
                             /\ ~IsExempt(req[p]) /\ ~IsUnlimited(req[p])
      ]_trackers
<1> SUFFICES ASSUME MeteredInv, [Next]_vars, NEW t \in DOMAIN trackers,
                    Len(trackers'[t]) # Len(trackers[t])
             PROVE  \E p \in Procs : /\ pc[p] = "create_comment" /\ tk[p] = t
                                     /\ Metered(p)
  BY DEF Metered
<1>1. /\ trackers \in Seq(Seq(UsageRecord))
      /\ DOMAIN trackers = 1..Len(trackers)
      /\ TrackerHeld
  BY LenProperties DEF MeteredInv, TypeInv, TypeOK
<1>2. ASSUME NEW p0 \in Procs, CreateIssue(p0) PROVE FALSE
  <2>1. trackers'[t] = trackers[t]
    BY <1>1, <1>2, AppendProperties DEF CreateIssue
  <2>2. QED
    BY <2>1
<1>3. ASSUME NEW p0 \in Procs, CreateComment(p0)
      PROVE  \E p \in Procs : /\ pc[p] = "create_comment" /\ tk[p] = t
                              /\ Metered(p)
  <2>1. tk[p0] \in 1..Len(trackers) /\ pc[p0] = "create_comment"
    BY <1>1, <1>3 DEF CreateComment, TrackerHeld, HoldsTracker
  <2>2. CASE t = tk[p0]
    BY <1>3, <2>1, <2>2 DEF MeteredInv
  <2>3. CASE t # tk[p0]
    <3>1. trackers'[t] = trackers[t]
      BY <1>3, <2>1, <2>3 DEF CreateComment
    <3>2. QED
      BY <3>1
  <2>4. QED
    BY <2>2, <2>3
<1>4. ASSUME NEW p0 \in Procs,
             \/ Start(p0) \/ GetIssues(p0) \/ ParseToday(p0) \/ CheckUsage(p0)
             \/ IncrementRead(p0) \/ IncrementToday(p0) \/ ApiFails(p0)
      PROVE  FALSE
  BY <1>4 DEF Start, GetIssues, ParseToday, CheckUsage, IncrementRead,
     IncrementToday, ApiFails
<1>5. CASE Midnight \/ UNCHANGED vars
  BY <1>5 DEF Midnight, vars
<1>6. QED
  BY <1>2, <1>3, <1>4, <1>5 DEF Next

(***************************************************************************)
(* Spec P1 and P3 for every number of workflows: exempt team members and  *)
(* unlimited operations are never metered, whatever the other workflows  *)
(* do between the calls of a check.                                       *)
(***************************************************************************)
THEOREM MeteredOnly == Spec => MeteredAppends
<1>1. Spec => []MeteredInv
  BY InitMeteredInv, NextMeteredInv, PTL DEF Spec
<1>2. QED
  BY <1>1, MeteredStep, PTL DEF Spec, MeteredAppends
=============================================================================
