----------------------------- MODULE DailyQuota -----------------------------
(***************************************************************************)
(* What the rate limiter promises its callers (spec sections 4.3 and 5,   *)
(* property P2): per UTC day, actor and operation, at most Limit(op)      *)
(* admissions are granted, one at a time, on a day that has begun.  An    *)
(* operation whose limit is 0 is unlimited and never counted here.        *)
(***************************************************************************)
EXTENDS Naturals, Config

CONSTANTS Users, System, MaxDay

Ops == {"issue_eval", "mention", "review"}

Actors == Users \cup {System}

Days == 1..MaxDay

VARIABLES day, used

Init ==
    /\ day = 1
    /\ used = [d \in Days |-> [a \in Actors |-> [o \in Ops |-> 0]]]

\* A metered admission for actor a and operation o, counted on day d.
Admit(d, a, o) ==
    /\ d <= day
    /\ used[d][a][o] < Limit(o)
    /\ used' = [used EXCEPT ![d][a][o] = @ + 1]
    /\ UNCHANGED day

NewDay ==
    /\ day < MaxDay
    /\ day' = day + 1
    /\ UNCHANGED used

Next ==
    \/ \E d \in Days, a \in Actors, o \in Ops : Admit(d, a, o)
    \/ NewDay

Spec == Init /\ [][Next]_<<day, used>>
=============================================================================
