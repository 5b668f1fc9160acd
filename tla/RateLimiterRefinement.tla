------------------------ MODULE RateLimiterRefinement ------------------------
(***************************************************************************)
(* Proof that the rate limiter implements the per-key daily quota of      *)
(* DailyQuota (QuotaRefinement, spec property P2) when one workflow runs   *)
(* at a time, for every value of the constants.  The refinement mapping   *)
(* is the one of RateLimiter: used <- grants, day <- day.  A granted      *)
(* CreateComment is Quota!Admit on the day of the check that admitted it, *)
(* Midnight is Quota!NewDay, and every other step leaves both unchanged.  *)
(***************************************************************************)
EXTENDS RateLimiterProofs

\* The only tracker issue of a run without overlap, as a list of comments.
Led == IF trackers = <<>> THEN <<>> ELSE trackers[1]

\* The program points after check_* decided to admit (CheckUsage passed).
AfterCheck == {"p2_today", "p2_comments", "inc_today", "create_comment"}

\* The program points of _increment_usage after its first read of today.
AfterRead == {"p2_comments", "inc_today", "create_comment"}

\* The first day whose usage comments the slot q can still rely on: the
\* day its parse read once it has read one, and today before that.
Floor(q) ==
    IF pc[q] = "p1_comments" THEN pday[q]
    ELSE IF pc[q] \in AfterCheck THEN admitDay[q]
    ELSE day

\* The shape of the tracker list with one workflow: at most one tracker,
\* created only when there was none, and held at index 1.
OneTracker(q) ==
    /\ Len(trackers) <= 1
    /\ pc[q] = "create_issue" => trackers = <<>>
    /\ pc[q] \in HoldsTracker => tk[q] = 1

\* The days the slot read are days that have begun, in the order read.
DaysOrdered(q) ==
    /\ pday[q] <= day /\ admitDay[q] <= day /\ wday[q] <= day
    /\ pc[q] \in AfterRead => admitDay[q] <= pday[q]
    /\ pc[q] = "create_comment" => pday[q] <= wday[q]

\* Admissions g (per day and key) are backed by the counts of ledger l
\* for every day from F on, and none was returned for a day after F.
GB(g, l, F) ==
    \A d \in Days, a \in Actors, o \in Ops :
        /\ d >= F => g[d][a][o] <= LastCount(l, d, a, o)
        /\ d > F => g[d][a][o] = 0

\* Every admission returned for a day from Floor(q) on is backed by the
\* count the tracker shows for its key that day, and none was returned
\* for a later day.
GrantsBacked(q) == GB(grants, Led, Floor(q))

\* Between _increment_usage's read and its post, new_count is the count
\* read plus one, and the admitted key still has room on the admitting day.
PendingCount(q) ==
    /\ pc[q] \in Pending =>
         newCount[q] = LastCount(Led, pday[q], req[q].user, req[q].op) + 1
    /\ pc[q] \in AfterCheck =>
         grants[admitDay[q]][req[q].user][req[q].op] < Limit(req[q].op)

\* The inductive invariant behind QuotaRefinement for the single slot q.
RefInv(q) ==
    /\ TypeInv
    /\ OneTracker(q)
    /\ req[q].op = "review" => req[q].user = System
    /\ DaysOrdered(q)
    /\ GrantsBacked(q)
    /\ PendingCount(q)
-----------------------------------------------------------------------------
(***************************************************************************)
(* The sum SumOver of check_code_review's total.  SumOver is a recursive  *)
(* function over the subsets of S; SumFn names it, and Blocks(f, T) lays  *)
(* f[y] out as the f[y] pairs <<y, 1>>, ..., <<y, f[y]>> for each y in T, *)
(* so that a solution of the recursion is a cardinality.                  *)
(***************************************************************************)
SumEq(f, S, s) ==
    s = [T \in SUBSET S |->
           IF T = {} THEN 0
           ELSE LET x == CHOOSE y \in T : TRUE IN f[x] + s[T \ {x}]]

SumFn(f, S) == CHOOSE s : SumEq(f, S, s)

Block(f, y) == {y} \X (1..f[y])

Blocks(f, T) == UNION {Block(f, y) : y \in T}

\* SumOver is the value at S of the function that solves its recursion.
LEMMA SumOverIsSumFn ==
    ASSUME NEW f, NEW S
    PROVE  SumOver(f, S) = SumFn(f, S)[S]
BY DEF SumOver, SumFn, SumEq

\* A block of f[y] pairs is a finite set of f[y] elements.
LEMMA BlockCard ==
    ASSUME NEW f, NEW y, f[y] \in Nat
    PROVE  /\ IsFiniteSet(Block(f, y))
           /\ Cardinality(Block(f, y)) = f[y]
<1>1. IsFiniteSet({y}) /\ Cardinality({y}) = 1
  BY FS_Singleton
<1>2. IsFiniteSet(1..f[y]) /\ Cardinality(1..f[y]) = f[y]
  BY FS_Interval
<1>3. IsFiniteSet({y} \X (1..f[y]))
      /\ Cardinality({y} \X (1..f[y])) = 1 * f[y]
  BY <1>1, <1>2, FS_Product
<1>4. QED
  BY <1>3 DEF Block

\* The blocks of a finite set of naturals-valued points form a finite set.
LEMMA BlocksFinite ==
    ASSUME NEW S, IsFiniteSet(S), NEW f \in [S -> Nat], NEW T \in SUBSET S
    PROVE  IsFiniteSet(Blocks(f, T))
<1>1. IsFiniteSet(T)
  BY FS_Subset
<1> DEFINE BS == {Block(f, y) : y \in T}
           g == [y \in T |-> Block(f, y)]
<1>2. g \in Surjection(T, BS)
  BY DEF Surjection
<1>3. IsFiniteSet(BS)
  BY <1>1, <1>2, FS_Surjection
<1>4. \A B \in BS : IsFiniteSet(B)
  BY BlockCard
<1>5. QED
  BY <1>3, <1>4, FS_UNION DEF Blocks
\* Taking one point x out of T splits off its block, disjoint from the rest.
LEMMA BlocksSplit ==
    ASSUME NEW S, IsFiniteSet(S), NEW f \in [S -> Nat], NEW T \in SUBSET S,
           NEW x \in T
    PROVE  Cardinality(Blocks(f, T))
             = f[x] + Cardinality(Blocks(f, T \ {x}))
<1>1. Blocks(f, T) = Block(f, x) \cup Blocks(f, T \ {x})
  BY DEF Blocks
<1>2. Block(f, x) \cap Blocks(f, T \ {x}) = {}
  BY DEF Blocks, Block
<1>3. IsFiniteSet(Block(f, x)) /\ Cardinality(Block(f, x)) = f[x]
  BY BlockCard
<1>4. IsFiniteSet(Blocks(f, T \ {x}))
  BY BlocksFinite
<1>5. Cardinality(Blocks(f, T \ {x})) \in Nat
  BY <1>4, FS_CardinalityType
<1> DEFINE B == Block(f, x)
           R == Blocks(f, T \ {x})
<1>6. Cardinality(B \cup R) = Cardinality(B) + Cardinality(R) - Cardinality(B \cap R)
  BY <1>3, <1>4, FS_Union
<1>7. Cardinality(B \cap R) = 0
  BY <1>2, FS_EmptySet
<1>8. QED
  BY <1>1, <1>3, <1>5, <1>6, <1>7

\* The cardinalities of the blocks solve SumOver's recursion, so SumFn
\* picks a solution.
LEMMA SumFnSolves ==
    ASSUME NEW S, IsFiniteSet(S), NEW f \in [S -> Nat]
    PROVE  SumEq(f, S, SumFn(f, S))
<1> DEFINE g == [T \in SUBSET S |-> Cardinality(Blocks(f, T))]
<1>1. ASSUME NEW T \in SUBSET S
      PROVE  g[T] = IF T = {} THEN 0
                    ELSE LET x == CHOOSE y \in T : TRUE IN f[x] + g[T \ {x}]
  <2>1. CASE T = {}
    <3>1. Blocks(f, T) = {}
      BY <2>1 DEF Blocks
    <3>2. QED
      BY <2>1, <3>1, FS_EmptySet
  <2>2. CASE T # {}
    <3> DEFINE x == CHOOSE y \in T : TRUE
    <3>1. x \in T
      BY <2>2
    <3>2. \A z \in T : Cardinality(Blocks(f, T))
                         = f[z] + Cardinality(Blocks(f, T \ {z}))
      BY BlocksSplit
    <3>3. T \ {x} \in SUBSET S
      OBVIOUS
    <3>4. QED
      BY <2>2, <3>2, <3>3
  <2>3. QED
    BY <2>1, <2>2
<1>2. SumEq(f, S, g)
  BY <1>1 DEF SumEq
<1>3. QED
  BY <1>2 DEF SumFn
\* Every solution of the recursion is the block count: a least subset by
\* cardinality where they differ cannot exist.
LEMMA SumFnIsBlocks ==
    ASSUME NEW S, IsFiniteSet(S), NEW f \in [S -> Nat]
    PROVE  \A T \in SUBSET S : SumFn(f, S)[T] = Cardinality(Blocks(f, T))
<1> DEFINE s == SumFn(f, S)
           Bad == {T \in SUBSET S : s[T] # Cardinality(Blocks(f, T))}
           CS == {Cardinality(T) : T \in Bad}
<1>1. SumEq(f, S, s)
  BY SumFnSolves
<1>2. \A T \in SUBSET S : IsFiniteSet(T) /\ Cardinality(T) \in Nat
  BY FS_Subset, FS_CardinalityType
<1> SUFFICES ASSUME Bad # {} PROVE FALSE
  OBVIOUS
<1>3. CS \subseteq Nat /\ CS # {}
  BY <1>2
<1>4. PICK n \in CS : \A m \in CS : ~(<<m, n>> \in OpToRel(<, Nat))
  BY <1>3, NatLessThanWellFounded, WFMin
<1>5. PICK T \in Bad : Cardinality(T) = n
  OBVIOUS
<1>6. T # {}
  <2>1. Blocks(f, {}) = {}
    BY DEF Blocks
  <2>2. s[{}] = 0
    BY <1>1 DEF SumEq
  <2>3. QED
    BY <2>1, <2>2, FS_EmptySet
<1> DEFINE x == CHOOSE y \in T : TRUE
<1>7. x \in T
  BY <1>6
<1>8. s[T] = f[x] + s[T \ {x}]
  BY <1>1, <1>6 DEF SumEq
<1>9. Cardinality(T \ {x}) = n - 1 /\ n \in Nat
  BY <1>2, <1>5, <1>7, FS_RemoveElement
<1>10. T \ {x} \notin Bad
  <2> SUFFICES ASSUME T \ {x} \in Bad PROVE FALSE
    OBVIOUS
  <2>1. n - 1 \in CS
    BY <1>9
  <2>2. <<n - 1, n>> \in OpToRel(<, Nat)
    BY <1>9, <1>2, <1>5, <1>7 DEF OpToRel
  <2>3. QED
    BY <1>4, <2>1, <2>2
<1>11. \A z \in T : Cardinality(Blocks(f, T))
                     = f[z] + Cardinality(Blocks(f, T \ {z}))
  BY BlocksSplit
<1>12. QED
  BY <1>7, <1>8, <1>10, <1>11

(***************************************************************************)
(* Every summand is at most SumOver: in check_code_review the "review"    *)
(* count of one actor never exceeds the total compared with the limit.    *)
(***************************************************************************)
LEMMA SumOverBound ==
    ASSUME NEW S, IsFiniteSet(S), NEW f \in [S -> Nat], NEW x \in S
    PROVE  /\ SumOver(f, S) \in Nat
           /\ f[x] <= SumOver(f, S)
<1>1. SumOver(f, S) = Cardinality(Blocks(f, S))
  BY SumOverIsSumFn, SumFnIsBlocks
<1>2. IsFiniteSet(Blocks(f, S))
  BY BlocksFinite
<1>3. Block(f, x) \subseteq Blocks(f, S)
  BY DEF Blocks
<1>4. Cardinality(Block(f, x)) = f[x]
  BY BlockCard
<1>5. QED
  BY <1>1, <1>2, <1>3, <1>4, FS_Subset, FS_CardinalityType
-----------------------------------------------------------------------------
(***************************************************************************)
(* The usage a check compares with the limit is at least the snapshot     *)
(* count of its own key: equal for issue_eval and mention, and for review *)
(* the "system" count is one summand of the total of check_code_review.   *)
(***************************************************************************)
LEMMA CurrentUsageBound ==
    ASSUME NEW c \in Seq(UsageRecord), NEW d, NEW r \in Request,
           r.op = "review" => r.user = System
    PROVE  /\ CurrentUsage(c, d, r) \in Nat
           /\ LastCount(c, d, r.user, r.op) <= CurrentUsage(c, d, r)
<1>1. CASE r.op = "review"
  <2> DEFINE f == [a \in Actors |-> LastCount(c, d, a, "review")]
  <2>1. IsFiniteSet(Actors)
    BY ConstantsAssumption, FS_AddElement DEF Actors
  <2>2. f \in [Actors -> Nat]
    BY LastCountType
  <2>3. System \in Actors
    BY DEF Actors
  <2>4. /\ SumOver(f, Actors) \in Nat
        /\ f[System] <= SumOver(f, Actors)
    BY <2>1, <2>2, <2>3, SumOverBound
  <2>5. QED
    BY <1>1, <2>3, <2>4 DEF CurrentUsage, ReviewTotal
<1>2. CASE r.op # "review"
  BY <1>2, LastCountType DEF CurrentUsage
<1>3. QED
  BY <1>1, <1>2

(***************************************************************************)
(* Posting a comment sets the snapshot of its own date and key to its     *)
(* count, as the last matching comment, and changes no other snapshot.    *)
(***************************************************************************)
LEMMA LastCountAppend ==
    ASSUME NEW c \in Seq(UsageRecord), NEW r \in UsageRecord,
           NEW d, NEW a, NEW o
    PROVE  LastCount(Append(c, r), d, a, o) =
             IF r.date = d /\ r.user = a /\ r.op = o THEN r.count
                                                    ELSE LastCount(c, d, a, o)
<1> DEFINE n == Len(c)
           c2 == Append(c, r)
           old == Matching(c, d, a, o)
           new == Matching(c2, d, a, o)
<1>1. /\ Len(c2) = n + 1
      /\ \A i \in 1..n : c2[i] = c[i]
      /\ c2[n + 1] = r
      /\ n \in Nat
  BY AppendProperties, LenProperties
<1>2. CASE r.date = d /\ r.user = a /\ r.op = o
  <2>1. new \in SUBSET (1..(n + 1)) /\ n + 1 \in new
    BY <1>1, <1>2 DEF Matching
  <2>2. LastIndex(new) \in new /\ n + 1 <= LastIndex(new)
    <3>1. \A m \in Nat : \A T \in SUBSET (1..m) :
            T # {} => LastIndex(T) \in T /\ \A j \in T : j <= LastIndex(T)
      BY LastIndexIsMax
    <3>2. n + 1 \in Nat
      BY <1>1
    <3>3. QED
      BY <2>1, <3>1, <3>2
  <2>3. LastIndex(new) = n + 1
    BY <1>1, <2>1, <2>2
  <2>4. QED
    BY <1>1, <1>2, <2>1, <2>3 DEF LastCount
<1>3. CASE ~(r.date = d /\ r.user = a /\ r.op = o)
  <2>1. new = old
    BY <1>1, <1>3 DEF Matching
  <2>2. old \in SUBSET (1..n)
    BY DEF Matching
  <2>3. old # {} => LastIndex(old) \in 1..n
    BY <1>1, <2>2, LastIndexIsMax
  <2>4. QED
    BY <1>1, <1>3, <2>1, <2>3 DEF LastCount
<1>4. QED
  BY <1>2, <1>3
-----------------------------------------------------------------------------
(***************************************************************************)
(* Raising the first relied-on day keeps the admissions backed: a check   *)
(* that ends, or a midnight outside a check, only forgets days.           *)
(***************************************************************************)
LEMMA GBRaise ==
    ASSUME NEW g, NEW l, NEW F1 \in Int, NEW F2 \in Int, F1 <= F2,
           GB(g, l, F1)
    PROVE  GB(g, l, F2)
BY DEF GB, Days

\* The empty tracker list shows no usage.
LEMMA LastCountEmpty ==
    ASSUME NEW d, NEW a, NEW o
    PROVE  LastCount(<<>>, d, a, o) = 0
BY DEF LastCount, Matching

\* The admission CreateComment returns adds one to one day and key.
LEMMA GrantInc ==
    ASSUME NEW g \in [Days -> [Actors -> [Ops -> Nat]]],
           NEW A \in Days, NEW u \in Actors, NEW o \in Ops,
           NEW h, h = [g EXCEPT ![A][u][o] = @ + 1]
    PROVE  \A d \in Days, a \in Actors, o2 \in Ops :
             h[d][a][o2] =
               IF d = A /\ a = u /\ o2 = o THEN g[d][a][o2] + 1 ELSE g[d][a][o2]
<1> SUFFICES ASSUME NEW d \in Days, NEW a \in Actors, NEW o2 \in Ops
             PROVE  h[d][a][o2] =
                      IF d = A /\ a = u /\ o2 = o THEN g[d][a][o2] + 1
                                                  ELSE g[d][a][o2]
  OBVIOUS
<1>1. h = [g EXCEPT ![A] = [g[A] EXCEPT ![u] = [g[A][u] EXCEPT ![o] = g[A][u][o] + 1]]]
  OBVIOUS
<1>2. h[d] = IF d = A THEN [g[A] EXCEPT ![u] = [g[A][u] EXCEPT ![o] = g[A][u][o] + 1]]
                      ELSE g[d]
  BY <1>1
<1>3. CASE d = A
  <2>1. h[d][a] = IF a = u THEN [g[A][u] EXCEPT ![o] = g[A][u][o] + 1] ELSE g[A][a]
    BY <1>2, <1>3
  <2>2. QED
    BY <1>3, <2>1
<1>4. CASE d # A
  BY <1>2, <1>4
<1>5. QED
  BY <1>3, <1>4

LEMMA InitRefInv ==
    ASSUME NEW q, Procs = {q}
    PROVE  Init => RefInv(q)
<1> SUFFICES ASSUME Init PROVE RefInv(q)
  OBVIOUS
<1>1. TypeInv
  BY InitTypeInv
<1>2. Led = <<>> /\ Floor(q) = 1
  BY DEF Init, Led, Floor, AfterCheck
<1>3. GrantsBacked(q)
  BY <1>2, LastCountEmpty DEF Init, GrantsBacked, GB
<1>4. QED
  BY <1>1, <1>3 DEF Init, RefInv, OneTracker, DaysOrdered, PendingCount,
     HoldsTracker, AfterRead, AfterCheck, Pending
\* Facts of the invariant the step proofs use throughout.
LEMMA RefInvFacts ==
    ASSUME NEW q, Procs = {q}, RefInv(q)
    PROVE  /\ Floor(q) \in Days
           /\ Floor(q) <= day
           /\ pc[q] \in HoldsTracker =>
                /\ trackers # <<>> /\ Len(trackers) = 1 /\ tk[q] = 1
                /\ trackers[tk[q]] = Led
           /\ Led \in Seq(UsageRecord)
<1>1. q \in Procs /\ TypeOK /\ TrackerHeld /\ OneTracker(q) /\ DaysOrdered(q)
  BY DEF RefInv, TypeInv
<1>2. Floor(q) \in Days /\ Floor(q) <= day
  BY <1>1 DEF TypeOK, DaysOrdered, Floor, Days
<1>3. ASSUME pc[q] \in HoldsTracker
      PROVE  /\ trackers # <<>> /\ Len(trackers) = 1 /\ tk[q] = 1
             /\ trackers[tk[q]] = Led
  <2>1. tk[q] = 1 /\ 1 \in 1..Len(trackers) /\ Len(trackers) <= 1
    BY <1>1, <1>3 DEF OneTracker, TrackerHeld
  <2>2. Len(trackers) = 1 /\ trackers # <<>>
    <3>1. Len(trackers) \in Nat
      BY <1>1, LenProperties DEF TypeOK
    <3>2. Len(<<>>) = 0
      BY EmptySeq
    <3>3. Len(trackers) = 1
      BY <2>1, <3>1, SMT
    <3>4. trackers # <<>>
      BY <3>2, <3>3, SMTT(30)
    <3>5. QED
      BY <3>3, <3>4
  <2>3. QED
    BY <2>1, <2>2 DEF Led
<1>4. Led \in Seq(UsageRecord)
  <2>1. CASE trackers = <<>>
    BY <2>1, EmptySeq DEF Led
  <2>2. CASE trackers # <<>>
    <3>1. Len(trackers) \in Nat \ {0}
      BY <1>1, <2>2, EmptySeq, LenProperties DEF TypeOK
    <3>2. QED
      BY <1>1, <2>2, <3>1, ElementOfSeq DEF Led, TypeOK
  <2>3. QED
    BY <2>1, <2>2
<1>5. QED
  BY <1>2, <1>3, <1>4

LEMMA NextRefInv ==
    ASSUME NEW q, Procs = {q}
    PROVE  RefInv(q) /\ [Next]_vars => RefInv(q)'
<1> SUFFICES ASSUME RefInv(q), [Next]_vars PROVE RefInv(q)'
  OBVIOUS
<1>1. TypeInv' /\ TypeInv /\ q \in Procs
  BY NextTypeInv DEF RefInv
<1>0. /\ pc \in [Procs -> PCs] /\ req \in [Procs -> Request]
      /\ tk \in [Procs -> Nat] /\ pday \in [Procs -> Days]
      /\ admitDay \in [Procs -> Days] /\ wday \in [Procs -> Days]
      /\ newCount \in [Procs -> Nat] /\ day \in Days
      /\ trackers \in Seq(Seq(UsageRecord))
      /\ grants \in [Days -> [Actors -> [Ops -> Nat]]]
  BY <1>1 DEF TypeInv, TypeOK
<1>2. /\ Floor(q) \in Days /\ Floor(q) <= day
      /\ pc[q] \in HoldsTracker =>
           /\ trackers # <<>> /\ Len(trackers) = 1 /\ tk[q] = 1
           /\ trackers[tk[q]] = Led
      /\ Led \in Seq(UsageRecord)
  BY RefInvFacts
<1>3. CASE Start(q)
  <2>1. /\ UNCHANGED <<day, trackers, tk, pday, admitDay, newCount, wday,
                       grants>>
        /\ pc[q] = "idle"
    BY <1>3 DEF Start
  <2>2. /\ pc'[q] \in {"idle", "get_issues"}
        /\ req'[q].op = "review" => req'[q].user = System
    BY <1>0, <1>1, <1>3 DEF Start
  <2>3. Led' = Led /\ Floor(q)' = day /\ Floor(q) = day
    BY <2>1, <2>2 DEF Led, Floor, AfterCheck
  <2>4. GrantsBacked(q)'
    BY <2>1, <2>3 DEF GrantsBacked, RefInv
  <2>5. QED
    BY <1>1, <2>1, <2>2, <2>4 DEF RefInv, OneTracker, DaysOrdered,
       PendingCount, HoldsTracker, AfterRead, AfterCheck, Pending
<1>4. CASE GetIssues(q)
  <2>1. /\ UNCHANGED <<day, trackers, req, pday, admitDay, newCount, wday,
                       grants>>
        /\ pc[q] = "get_issues"
    BY <1>4 DEF GetIssues
  <2>2. CASE trackers # <<>>
    <3>1. pc'[q] = "p1_today" /\ tk'[q] = Len(trackers)
      BY <1>0, <1>1, <1>4, <2>2 DEF GetIssues
    <3>2. Len(trackers) = 1
      <4>1. Len(trackers) \in Nat \ {0}
        BY <1>0, <2>2, EmptySeq
      <4>2. Len(trackers) <= 1
        BY DEF RefInv, OneTracker
      <4>3. QED
        BY <4>1, <4>2
    <3>3. Led' = Led /\ Floor(q)' = day /\ Floor(q) = day
      BY <2>1, <3>1 DEF Led, Floor, AfterCheck
    <3>4. GrantsBacked(q)'
      BY <2>1, <3>3 DEF GrantsBacked, RefInv
    <3>5. QED
      BY <2>1, <3>1, <3>2, <3>4, <1>1 DEF RefInv, OneTracker, DaysOrdered,
         PendingCount, HoldsTracker, AfterRead, AfterCheck, Pending
  <2>3. CASE trackers = <<>>
    <3>1. pc'[q] = "create_issue"
      BY <1>0, <1>1, <1>4, <2>3 DEF GetIssues
    <3>2. Led' = Led /\ Floor(q)' = day /\ Floor(q) = day
      BY <2>1, <3>1 DEF Led, Floor, AfterCheck
    <3>3. GrantsBacked(q)'
      BY <2>1, <3>2 DEF GrantsBacked, RefInv
    <3>4. QED
      BY <2>1, <2>3, <3>1, <3>3, <1>1 DEF RefInv, OneTracker, DaysOrdered,
         PendingCount, HoldsTracker, AfterRead, AfterCheck, Pending
  <2>4. QED
    BY <2>2, <2>3
<1>5. CASE CreateIssue(q)
  <2>1. /\ UNCHANGED <<day, req, pday, admitDay, newCount, wday, grants>>
        /\ pc[q] = "create_issue"
        /\ trackers = <<>>
    BY <1>5 DEF CreateIssue, RefInv, OneTracker
  <2>2. trackers' = <<<<>>>> /\ Len(trackers') = 1
    BY <1>5, <2>1 DEF CreateIssue
  <2>3. \/ pc'[q] = "p1_today" /\ tk'[q] = 1
        \/ pc'[q] = "idle"
    BY <1>0, <1>1, <1>5, <2>2 DEF CreateIssue
  <2>4. Led' = Led /\ Floor(q)' = day /\ Floor(q) = day
    BY <2>1, <2>2, <2>3 DEF Led, Floor, AfterCheck
  <2>5. GrantsBacked(q)'
    BY <2>1, <2>4 DEF GrantsBacked, RefInv
  <2>6. QED
    BY <2>1, <2>2, <2>3, <2>5, <1>1 DEF RefInv, OneTracker, DaysOrdered,
       PendingCount, HoldsTracker, AfterRead, AfterCheck, Pending
<1>6. CASE ParseToday(q)
  <2>1. /\ UNCHANGED <<day, trackers, req, tk, admitDay, newCount, wday,
                       grants>>
        /\ pday' = [pday EXCEPT ![q] = day]
    BY <1>6 DEF ParseToday
  <2>2. Led' = Led
    BY <2>1 DEF Led
  <2>3. CASE pc[q] = "p1_today"
    <3>1. pc'[q] = "p1_comments" /\ pday'[q] = day
      BY <1>0, <1>1, <1>6, <2>3 DEF ParseToday
    <3>2. Floor(q)' = day /\ Floor(q) = day
      BY <2>1, <2>3, <3>1 DEF Floor, AfterCheck
    <3>3. GrantsBacked(q)'
      BY <2>1, <2>2, <3>2 DEF GrantsBacked, RefInv
    <3>4. OneTracker(q)'
      BY <1>2, <2>1, <2>3, <3>1 DEF RefInv, OneTracker, HoldsTracker
    <3>5. DaysOrdered(q)'
      BY <1>0, <1>1, <2>1, <3>1 DEF RefInv, DaysOrdered, AfterRead, Days
    <3>6. PendingCount(q)'
      BY <3>1 DEF PendingCount, Pending, AfterCheck
    <3>7. QED
      BY <1>1, <2>1, <3>3, <3>4, <3>5, <3>6 DEF RefInv
  <2>4. CASE pc[q] = "p2_today"
    <3>1. pc'[q] = "p2_comments" /\ pday'[q] = day
      BY <1>0, <1>1, <1>6, <2>4 DEF ParseToday
    <3>2. Floor(q)' = admitDay[q] /\ Floor(q) = admitDay[q]
      BY <2>1, <2>4, <3>1 DEF Floor, AfterCheck
    <3>3. GrantsBacked(q)'
      BY <2>1, <2>2, <3>2 DEF GrantsBacked, RefInv
    <3>4. admitDay[q] <= day
      BY DEF RefInv, DaysOrdered
    <3>5. OneTracker(q)'
      BY <1>2, <2>1, <2>4, <3>1 DEF RefInv, OneTracker, HoldsTracker
    <3>6. DaysOrdered(q)'
      BY <1>0, <1>1, <2>1, <3>1, <3>4 DEF RefInv, DaysOrdered, AfterRead, Days
    <3>7. PendingCount(q)'
      BY <2>1, <2>4, <3>1 DEF RefInv, PendingCount, Pending, AfterCheck
    <3>8. QED
      BY <1>1, <2>1, <3>3, <3>5, <3>6, <3>7 DEF RefInv
  <2>5. QED
    BY <1>6, <2>3, <2>4 DEF ParseToday
<1>7. CASE CheckUsage(q)
  <2> DEFINE r == req[q]
             current == CurrentUsage(Led, pday[q], r)
  <2>1. /\ UNCHANGED <<day, trackers, req, tk, pday, newCount, wday, grants>>
        /\ pc[q] = "p1_comments"
        /\ Floor(q) = pday[q]
    BY <1>7 DEF CheckUsage, Floor
  <2>2. /\ trackers[tk[q]] = Led
        /\ Led' = Led
    BY <1>2, <2>1 DEF HoldsTracker, Led
  <2>3. /\ current \in Nat
        /\ LastCount(Led, pday[q], r.user, r.op) <= current
    BY <1>0, <1>2, CurrentUsageBound DEF RefInv
  <2>4. grants[pday[q]][r.user][r.op] <= LastCount(Led, pday[q], r.user, r.op)
    <3>1. pday[q] \in Days /\ r.user \in Actors /\ r.op \in Ops
      BY <1>0, <1>1 DEF Request
    <3>2. GB(grants, Led, pday[q])
      BY <2>1 DEF RefInv, GrantsBacked
    <3>3. pday[q] >= pday[q]
      BY <3>1 DEF Days
    <3>4. QED
      BY <3>1, <3>2, <3>3, Zenon DEF GB
  <2>5. CASE current >= Limit(r.op)
    <3>1. pc'[q] = "idle" /\ admitDay' = admitDay
      BY <1>0, <1>7, <2>2, <2>5 DEF CheckUsage
    <3>2. Floor(q)' = day
      BY <2>1, <3>1 DEF Floor, AfterCheck
    <3>3. GB(grants, Led, day)
      <4>1. Floor(q) \in Int /\ day \in Int /\ Floor(q) <= day
        BY <1>0, <1>2 DEF Days
      <4>2. GB(grants, Led, Floor(q))
        BY DEF RefInv, GrantsBacked
      <4>3. QED
        BY <4>1, <4>2, GBRaise
    <3>4. GrantsBacked(q)'
      BY <2>1, <2>2, <3>2, <3>3 DEF GrantsBacked
    <3>5. QED
      BY <1>1, <2>1, <3>1, <3>4 DEF RefInv, OneTracker, DaysOrdered,
         PendingCount, HoldsTracker, AfterRead, AfterCheck, Pending
  <2>6. CASE ~(current >= Limit(r.op))
    <3>1. pc'[q] = "p2_today" /\ admitDay' = [admitDay EXCEPT ![q] = pday[q]]
      BY <1>0, <1>7, <2>2, <2>6 DEF CheckUsage
    <3>2. admitDay'[q] = pday[q] /\ Floor(q)' = pday[q]
      BY <1>0, <1>1, <2>1, <3>1 DEF Floor, AfterCheck
    <3>3. GrantsBacked(q)'
      BY <2>1, <2>2, <3>2 DEF GrantsBacked, RefInv
    <3>4. grants'[admitDay'[q]][req'[q].user][req'[q].op] < Limit(req'[q].op)
      <4>1. Limit(r.op) \in Nat /\ grants[pday[q]][r.user][r.op] \in Nat
            /\ LastCount(Led, pday[q], r.user, r.op) \in Nat
        BY <1>0, <1>1, <1>2, ConstantsAssumption, LastCountType DEF Request
      <4>2. grants[pday[q]][r.user][r.op] < Limit(r.op)
        BY <2>3, <2>4, <2>6, <4>1, SMTT(30)
      <4>3. QED
        BY <2>1, <3>2, <4>2
    <3>5. pday[q] <= day
      BY DEF RefInv, DaysOrdered
    <3>6. QED
      BY <1>1, <2>1, <3>1, <3>2, <3>3, <3>4, <3>5 DEF RefInv, OneTracker,
         DaysOrdered, PendingCount, HoldsTracker, AfterRead, AfterCheck,
         Pending
  <2>7. QED
    BY <2>5, <2>6
<1>8. CASE IncrementRead(q)
  <2>1. /\ UNCHANGED <<day, trackers, req, tk, pday, admitDay, wday, grants>>
        /\ pc[q] = "p2_comments"
        /\ pc'[q] = "inc_today"
    BY <1>0, <1>1, <1>8 DEF IncrementRead
  <2>2. /\ trackers[tk[q]] = Led
        /\ Led' = Led
    BY <1>2, <2>1 DEF HoldsTracker, Led
  <2>3. newCount'[q] = LastCount(Led, pday[q], req[q].user, req[q].op) + 1
    BY <1>0, <1>1, <1>8, <2>2 DEF IncrementRead
  <2>4. Floor(q)' = Floor(q)
    BY <2>1 DEF Floor, AfterCheck
  <2>5. GrantsBacked(q)'
    BY <2>1, <2>2, <2>4 DEF RefInv, GrantsBacked
  <2>6. OneTracker(q)'
    BY <2>1 DEF RefInv, OneTracker, HoldsTracker
  <2>7. DaysOrdered(q)'
    BY <2>1 DEF RefInv, DaysOrdered, AfterRead
  <2>8. PendingCount(q)'
    BY <2>1, <2>2, <2>3 DEF RefInv, PendingCount, Pending, AfterCheck
  <2>9. QED
    BY <1>1, <2>1, <2>5, <2>6, <2>7, <2>8 DEF RefInv
<1>9. CASE IncrementToday(q)
  <2>1. /\ UNCHANGED <<day, trackers, req, tk, pday, admitDay, newCount,
                       grants>>
        /\ pc[q] = "inc_today"
        /\ pc'[q] = "create_comment"
        /\ wday'[q] = day
    BY <1>0, <1>1, <1>9 DEF IncrementToday
  <2>2. Led' = Led /\ Floor(q)' = Floor(q)
    BY <2>1 DEF Led, Floor, AfterCheck
  <2>3. GrantsBacked(q)'
    BY <2>1, <2>2 DEF RefInv, GrantsBacked
  <2>4. OneTracker(q)'
    BY <2>1 DEF RefInv, OneTracker, HoldsTracker
  <2>5. DaysOrdered(q)'
    BY <1>0, <2>1 DEF RefInv, DaysOrdered, AfterRead, Days
  <2>6. PendingCount(q)'
    BY <2>1, <2>2 DEF RefInv, PendingCount, Pending, AfterCheck
  <2>7. QED
    BY <1>1, <2>1, <2>3, <2>4, <2>5, <2>6 DEF RefInv
<1>10. CASE ApiFails(q)
  <2>1. /\ UNCHANGED <<day, trackers, req, tk, pday, admitDay, newCount,
                       wday, grants>>
        /\ pc'[q] = "idle"
    BY <1>0, <1>1, <1>10 DEF ApiFails
  <2>2. Led' = Led /\ Floor(q)' = day
    BY <2>1 DEF Led, Floor, AfterCheck
  <2>3. GrantsBacked(q)'
    <3>1. Floor(q) \in Int /\ day \in Int /\ Floor(q) <= day
      BY <1>0, <1>2 DEF Days
    <3>2. GB(grants, Led, Floor(q))
      BY DEF RefInv, GrantsBacked
    <3>3. GB(grants, Led, day)
      BY <3>1, <3>2, GBRaise
    <3>4. QED
      BY <2>1, <2>2, <3>3 DEF GrantsBacked
  <2>4. QED
    BY <1>1, <2>1, <2>3 DEF RefInv, OneTracker, DaysOrdered, PendingCount,
       HoldsTracker, AfterRead, AfterCheck, Pending
<1>11. CASE Midnight
  <2>1. /\ UNCHANGED <<trackers, pc, req, tk, pday, admitDay, newCount, wday,
                       grants>>
        /\ day' = day + 1
    BY <1>11 DEF Midnight
  <2>2. Led' = Led
    BY <2>1 DEF Led
  <2>3. Floor(q) \in Int /\ Floor(q)' \in Int /\ Floor(q) <= Floor(q)'
    BY <1>0, <1>2, <2>1 DEF Floor, Days
  <2>4. GrantsBacked(q)'
    <3>1. GB(grants, Led, Floor(q))
      BY DEF RefInv, GrantsBacked
    <3>2. GB(grants, Led, Floor(q)')
      BY <2>3, <3>1, GBRaise
    <3>3. QED
      BY <2>1, <2>2, <3>2 DEF GrantsBacked
  <2>5. DaysOrdered(q)'
    BY <1>0, <2>1 DEF RefInv, DaysOrdered, Days
  <2>6. OneTracker(q)'
    BY <2>1 DEF RefInv, OneTracker
  <2>7. PendingCount(q)'
    BY <2>1, <2>2 DEF RefInv, PendingCount
  <2>8. QED
    BY <1>1, <2>1, <2>4, <2>5, <2>6, <2>7 DEF RefInv
<1>12. CASE UNCHANGED vars
  BY <1>12 DEF vars, RefInv, TypeInv, TypeOK, TrackerHeld, OneTracker,
     DaysOrdered, GrantsBacked, PendingCount, Floor, Led
<1>13. CASE CreateComment(q)
  <2> DEFINE u == req[q].user
             o == req[q].op
             A == admitDay[q]
             W == wday[q]
             P == pday[q]
             rec == PostedRecord(q)
  <2>1. /\ UNCHANGED <<day, req, tk, pday, admitDay, newCount, wday>>
        /\ pc[q] = "create_comment"
        /\ pc'[q] = "idle"
        /\ trackers' = [trackers EXCEPT ![tk[q]] = Append(@, rec)]
    BY <1>0, <1>1, <1>13 DEF CreateComment
  <2>2. /\ trackers # <<>> /\ Len(trackers) = 1 /\ tk[q] = 1
        /\ trackers[1] = Led
    BY <1>2, <2>1 DEF HoldsTracker
  <2>3. /\ rec \in UsageRecord
        /\ rec.date = W /\ rec.user = u /\ rec.op = o
        /\ rec.count = newCount[q]
        /\ u \in Actors /\ o \in Ops /\ A \in Days /\ W \in Days
        /\ P \in Days
    BY <1>0, <1>1 DEF PostedRecord, UsageRecord, Request
  <2>4. /\ Len(trackers') = 1
        /\ trackers' # <<>>
        /\ Led' = Append(Led, rec)
    <3>1. Append(Led, rec) \in Seq(UsageRecord)
      BY <1>2, <2>3, AppendProperties
    <3>2. trackers' = [trackers EXCEPT ![1] = Append(Led, rec)]
      BY <2>1, <2>2
    <3>3. /\ Len(trackers') = 1
          /\ trackers'[1] = Append(Led, rec)
      BY <1>0, <2>2, <3>1, <3>2, ExceptSeq
    <3>4. trackers' # <<>>
      BY <3>3, EmptySeq
    <3>5. QED
      BY <3>3, <3>4 DEF Led
  <2>5. /\ A <= P /\ P <= W /\ W <= day
        /\ newCount[q] = LastCount(Led, P, u, o) + 1
        /\ grants[A][u][o] < Limit(o)
        /\ Floor(q) = A
    BY <2>1 DEF RefInv, DaysOrdered, PendingCount, AfterRead, Pending,
       AfterCheck, Floor
  <2>6. \A d, a, o2 :
          LastCount(Led', d, a, o2) =
            IF W = d /\ u = a /\ o = o2 THEN newCount[q]
                                        ELSE LastCount(Led, d, a, o2)
    <3>1. \A d, a, o2 :
            LastCount(Append(Led, rec), d, a, o2) =
              IF rec.date = d /\ rec.user = a /\ rec.op = o2 THEN rec.count
                                        ELSE LastCount(Led, d, a, o2)
      BY <1>2, <2>3, LastCountAppend
    <3>2. QED
      BY <2>3, <2>4, <3>1
  <2>7. Floor(q)' = day
    BY <2>1 DEF Floor, AfterCheck
  <2>8. GB(grants, Led, A)
    BY <2>5 DEF RefInv, GrantsBacked
  <2>9. /\ OneTracker(q)'
        /\ (req[q].op = "review" => req[q].user = System)'
        /\ DaysOrdered(q)'
        /\ PendingCount(q)'
    BY <2>1, <2>4 DEF RefInv, OneTracker, DaysOrdered, PendingCount,
       HoldsTracker, AfterRead, Pending, AfterCheck
  <2>10. LastCount(Led, P, u, o) \in Nat /\ Limit(o) \in Nat
    BY <1>2, <2>3, LastCountType, ConstantsAssumption
  <2>11. GB(grants', Led', day)
    <3> SUFFICES ASSUME NEW d \in Days, NEW a \in Actors, NEW o2 \in Ops
                 PROVE  /\ d >= day => grants'[d][a][o2] <= LastCount(Led', d, a, o2)
                        /\ d > day => grants'[d][a][o2] = 0
      BY DEF GB
    <3>1. /\ d >= A => grants[d][a][o2] <= LastCount(Led, d, a, o2)
          /\ d > A => grants[d][a][o2] = 0
      BY <2>8 DEF GB
    <3>2. /\ grants[d][a][o2] \in Nat
          /\ LastCount(Led, d, a, o2) \in Nat
          /\ grants[A][u][o] \in Nat
      <4>1. grants[d][a][o2] \in Nat /\ grants[A][u][o] \in Nat
        BY <1>0, <2>3
      <4>2. LastCount(Led, d, a, o2) \in Nat
        BY <1>2, LastCountType
      <4>3. QED
        BY <4>1, <4>2
    <3>3. grants'[d][a][o2] =
            IF d = A /\ a = u /\ o2 = o /\ grants' # grants
              THEN grants[d][a][o2] + 1 ELSE grants[d][a][o2]
      <4>1. CASE grants' = [grants EXCEPT ![A][u][o] = @ + 1]
        <5>1. \A dd \in Days, aa \in Actors, oo \in Ops :
                grants'[dd][aa][oo] =
                  IF dd = A /\ aa = u /\ oo = o THEN grants[dd][aa][oo] + 1
                                               ELSE grants[dd][aa][oo]
          <6>1. grants \in [Days -> [Actors -> [Ops -> Nat]]]
                /\ A \in Days /\ u \in Actors /\ o \in Ops
            BY <1>0, <2>3
          <6>2. QED
            BY <4>1, <6>1, GrantInc
        <5>2. grants' # grants
          BY <2>3, <3>2, <5>1, SMTT(30)
        <5>3. QED
          BY <5>1, <5>2
      <4>2. CASE grants' = grants
        BY <4>2
      <4>3. QED
        BY <1>13, <4>1, <4>2 DEF CreateComment
    <3>4. CASE d = W /\ a = u /\ o2 = o
      <4>1. LastCount(Led', d, a, o2) = LastCount(Led, P, u, o) + 1
        BY <2>5, <2>6, <3>4
      <4>2. CASE W = A
        <5>1. P = A
          BY <2>3, <2>5, <4>2, SMTT(30) DEF Days
        <5>2. grants[A][u][o] <= LastCount(Led, P, u, o)
          <6>1. A >= A
            BY <2>3 DEF Days
          <6>2. QED
            BY <2>3, <2>8, <5>1, <6>1, Zenon DEF GB
        <5>3. grants'[d][a][o2] <= grants[A][u][o] + 1
          BY <3>2, <3>3, <3>4, <4>2, SMTT(30)
        <5>4. ~(d > day)
          BY <1>0, <2>3, <2>5, <3>4, SMTT(30) DEF Days
        <5>5. grants'[d][a][o2] \in Nat
          BY <1>1 DEF TypeInv, TypeOK
        <5>6. QED
          BY <2>10, <3>2, <4>1, <5>2, <5>3, <5>4, <5>5, SMTT(30)
      <4>3. CASE W # A
        <5>1. d > A /\ d # A
          BY <2>3, <2>5, <3>4, <4>3, SMTT(30) DEF Days
        <5>2. QED
          BY <2>10, <3>1, <3>3, <4>1, <5>1, SMTT(30)
      <4>4. QED
        BY <4>2, <4>3
    <3>5. CASE ~(d = W /\ a = u /\ o2 = o)
      <4>1. LastCount(Led', d, a, o2) = LastCount(Led, d, a, o2)
        BY <2>6, <3>5
      <4>2. d >= day => d >= A /\ ~(d = A /\ a = u /\ o2 = o)
        BY <1>0, <2>3, <2>5, <3>5, SMTT(30) DEF Days
      <4>3. d > day => d > A
        BY <1>0, <2>3, <2>5 DEF Days
      <4>4. d >= day => grants'[d][a][o2] = grants[d][a][o2]
        BY <3>3, <4>2
      <4>5. d > day => d >= day
        BY <1>0 DEF Days
      <4>6. QED
        BY <3>1, <4>1, <4>2, <4>3, <4>4, <4>5
    <3>6. QED
      BY <3>4, <3>5
  <2>12. QED
    BY <1>1, <2>7, <2>9, <2>11 DEF RefInv, GrantsBacked
<1>14. QED
  <2>1. \A p \in Procs : p = q
    OBVIOUS
  <2>2. QED
    BY <1>3, <1>4, <1>5, <1>6, <1>7, <1>8, <1>9, <1>10, <1>11, <1>12, <1>13,
       <2>1 DEF Next
-----------------------------------------------------------------------------
\* The initial state maps to the initial state of the daily quota.
LEMMA InitRefines == Init => Quota!Init
BY DEF Init, Quota!Init, Days, Quota!Days, Actors, Quota!Actors, Ops,
   Quota!Ops

(***************************************************************************)
(* Every step maps to a step of the quota or a stutter: a CreateComment   *)
(* whose reply arrives is Admit on the admitting day, Midnight is NewDay, *)
(* and no other step touches the day or the admissions.                  *)
(***************************************************************************)
LEMMA StepRefines ==
    ASSUME NEW q, Procs = {q}
    PROVE  RefInv(q) /\ [Next]_vars => [Quota!Next]_<<day, grants>>
<1> SUFFICES ASSUME RefInv(q), [Next]_vars
             PROVE  [Quota!Next]_<<day, grants>>
  OBVIOUS
<1>1. \A p \in Procs : p = q
  OBVIOUS
<1>2. CASE CreateComment(q)
  <2> DEFINE u == req[q].user
             o == req[q].op
             A == admitDay[q]
  <2>1. CASE grants' = [grants EXCEPT ![A][u][o] = @ + 1]
    <3>1. /\ A \in Days /\ u \in Actors /\ o \in Ops
          /\ q \in Procs
      BY DEF RefInv, TypeInv, TypeOK, Request
    <3>2. /\ A <= day
          /\ grants[A][u][o] < Limit(o)
      BY <1>2 DEF CreateComment, RefInv, DaysOrdered, PendingCount,
         AfterCheck
    <3>3. day' = day
      BY <1>2 DEF CreateComment
    <3>4. Quota!Limit(o) = Limit(o)
      BY DEF Quota!Limit, Limit, Quota!RateLimitsSection, RateLimitsSection,
         Quota!LimitKey, LimitKey, Quota!DefaultLimit, DefaultLimit, Quota!Get,
         Get
    <3>5. Quota!Admit(A, u, o)
      BY <2>1, <3>2, <3>3, <3>4 DEF Quota!Admit
    <3>6. QED
      BY <3>1, <3>5 DEF Quota!Next, Days, Quota!Days, Actors, Quota!Actors,
         Ops, Quota!Ops
  <2>2. CASE grants' = grants
    BY <1>2, <2>2 DEF CreateComment
  <2>3. QED
    BY <1>2, <2>1, <2>2 DEF CreateComment
<1>3. CASE Midnight
  BY <1>3 DEF Midnight, Quota!Next, Quota!NewDay
<1>4. CASE \/ Start(q) \/ GetIssues(q) \/ CreateIssue(q) \/ ParseToday(q)
           \/ CheckUsage(q) \/ IncrementRead(q) \/ IncrementToday(q)
           \/ ApiFails(q) \/ UNCHANGED vars
  BY <1>4 DEF Start, GetIssues, CreateIssue, ParseToday, CheckUsage,
     IncrementRead, IncrementToday, ApiFails, vars
<1>5. QED
  BY <1>1, <1>2, <1>3, <1>4 DEF Next

(***************************************************************************)
(* With one workflow in flight at a time (the code has no lock; the       *)
(* schedule of the workflows ensures it), the admissions check_* returns *)
(* implement the per-key daily quota: at most Limit(op) per UTC day, actor *)
(* and operation, on a day that has begun, over API failures, lost        *)
(* replies and a midnight anywhere inside a check.                        *)
(***************************************************************************)
THEOREM SequentialRefinement ==
    ASSUME NEW q, Procs = {q}
    PROVE  Spec => QuotaRefinement
<1>1. Spec => []RefInv(q)
  <2>1. Init => RefInv(q)
    BY InitRefInv
  <2>2. RefInv(q) /\ [Next]_vars => RefInv(q)'
    BY NextRefInv
  <2>3. QED
    BY <2>1, <2>2, PTL DEF Spec
<1>2. RefInv(q) /\ [Next]_vars => [Quota!Next]_<<day, grants>>
  BY StepRefines
<1>3. QED
  BY <1>1, <1>2, InitRefines, PTL DEF Spec, QuotaRefinement, Quota!Spec
=============================================================================
