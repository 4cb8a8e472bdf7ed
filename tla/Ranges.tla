------------------------------- MODULE Ranges -------------------------------
(***************************************************************************)
(* Version ranges <<first, last>> as __lrcu_get_synchronized collects them, *)
(* and what the range tree answers about a set of them.  A range may be     *)
(* reversed: a reader that entered after the scan read current_version      *)
(* yields <<newer, current_version>>, which covers nothing.                 *)
(***************************************************************************)
EXTENDS Naturals

Least(S) == {x \in S : \A y \in S : x <= y}
Covers(range, v) == range[1] <= v /\ v <= range[2]

\* lrcu_rangetree_find after lrcu_rangetree_optimize.  On an empty tree the
\* search still looks at r[0], where an earlier scan or the stack left stale.
Lookup(R, stale, v) == IF R = {} THEN Covers(stale, v)
                                 ELSE \E range \in R : Covers(range, v)

\* What lrcu_rangetree_optimize leaves in r[0]: the first range in sort
\* order, grown until it touches no other one.
FirstMerged(R) ==
    LET ends == {r[2] : r \in R}
        grown(lo, hi) == /\ \E r \in R : r[1] = lo /\ r[2] <= hi
                         /\ \A r \in R : r[1] <= hi => r[2] <= hi
    IN {first \in Least({r[1] : r \in R}) \X ends :
            first[2] \in Least({h \in ends : grown(first[1], h)})}
=============================================================================
