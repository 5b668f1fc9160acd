--------------------------- MODULE MeteredService ---------------------------
(***************************************************************************)
(* What an entry point gated by the rate limiter promises on one UTC day  *)
(* (spec sections 4.1, 4.3 and 5), not code.  A run is served only after *)
(* the limiter let it through, in one of two ways:                        *)
(*   - it is charged one slot of its key (the author for mentions, the    *)
(*     synthetic "system" actor for reviews) while the key holds fewer    *)
(*     than Budget slots;                                                 *)
(*   - the limit is waived for it, which happens only when the limit is 0 *)
(*     (unlimited) or the operation is exemptible (team members; never    *)
(*     for reviews).                                                      *)
(* A run is charged or waived at most once, and served at most once.      *)
(***************************************************************************)
EXTENDS Naturals, FiniteSets

CONSTANTS
    Keys,        \* the actors whose slots are counted
    Runs,        \* the workflow runs of the day
    Budget,      \* the daily limit per key; 0 is unlimited
    Exemptible   \* whether the operation has a team-member exemption

VARIABLES
    charged,     \* per key: the runs that hold one of its slots
    waived,      \* the runs let through without a slot
    served       \* the runs that delivered their answer

vars == <<charged, waived, served>>

\* The runs that hold a slot of some key.
Charged == UNION {charged[k] : k \in Keys}

\* The runs the limiter let through.
Passed == Charged \cup waived

Init ==
    /\ charged = [k \in Keys |-> {}]
    /\ waived = {}
    /\ served = {}

\* The limiter records a slot of key k for run r.
Charge(k, r) ==
    /\ Budget > 0
    /\ r \notin Passed
    /\ Cardinality(charged[k]) < Budget
    /\ charged' = [charged EXCEPT ![k] = @ \cup {r}]
    /\ UNCHANGED <<waived, served>>

\* The limiter lets r through without counting it.
Waive(r) ==
    /\ Budget = 0 \/ Exemptible
    /\ r \notin Passed
    /\ waived' = waived \cup {r}
    /\ UNCHANGED <<charged, served>>

\* Run r delivers its answer.
Serve(r) ==
    /\ r \in Passed
    /\ r \notin served
    /\ served' = served \cup {r}
    /\ UNCHANGED <<charged, waived>>

Next ==
    \E r \in Runs : \/ \E k \in Keys : Charge(k, r)
                    \/ Waive(r)
                    \/ Serve(r)

Spec == Init /\ [][Next]_vars

(***************************************************************************)
(* The promise in one formula: every served run was let through, and no   *)
(* key holds more than Budget slots when there is a limit.                *)
(***************************************************************************)
WithinBudget ==
    /\ served \subseteq Passed
    /\ Budget > 0 => \A k \in Keys : Cardinality(charged[k]) <= Budget
=============================================================================
