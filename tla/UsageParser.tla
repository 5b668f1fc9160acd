---------------------------- MODULE UsageParser ----------------------------
(***************************************************************************)
(* The Usage Parser of rate_limiter.py: _parse_usage_from_comments turns   *)
(* the comments of the tracker issue into the snapshot                     *)
(* usage[user][op_type] for today.  A comment is modelled by the record    *)
(* it encodes, "USAGE: date|user|op|count"; the text format is abstracted *)
(* away.  The code assigns usage[user][op_type] = int(count) for each     *)
(* matching comment in list order, so the snapshot keeps the count of the *)
(* LAST matching comment (not the largest).                               *)
(***************************************************************************)
EXTENDS Naturals, Sequences, FiniteSets

\* The positions of the comments of ledger c that the loop keeps for
\* (date d, user a, op o): same date as today, same user, same op_type.
Matching(c, d, a, o) ==
    {i \in 1..Len(c) : c[i].date = d /\ c[i].user = a /\ c[i].op = o}

\* The largest position of a non-empty set of positions.
LastIndex(S) == CHOOSE i \in S : \A j \in S : j <= i

\* The sum of f[x] over the finite set S.
SumOver(f, S) ==
    LET s[T \in SUBSET S] ==
          IF T = {} THEN 0
          ELSE LET x == CHOOSE y \in T : TRUE IN f[x] + s[T \ {x}]
    IN  s[S]

\* Variant of LastCount for a parser that adds the counts of the matching
\* comments (usage[user][op_type] += int(count)) instead of replacing them.
LastCountSummed(c, d, a, o) ==
    LET idx == Matching(c, d, a, o)
    IN  SumOver([i \in idx |-> c[i].count], idx)

\* usage.get(user, {}).get(op, 0): the count of the last matching comment,
\* 0 when there is none.
LastCount(c, d, a, o) ==
    LET idx == Matching(c, d, a, o)
    IN  IF idx = {} THEN 0 ELSE c[LastIndex(idx)].count

\* check_code_review: the sum over every user of the snapshot's
\* "review" count (users absent from the snapshot add 0).
ReviewTotal(c, d, actors) ==
    SumOver([a \in actors |-> LastCount(c, d, a, "review")], actors)
=============================================================================
