---------------------------- MODULE RangeTreeInv ----------------------------
(***************************************************************************)
(* The inductive invariant of RangeTree: what the ranges in the array still *)
(* say about those a scan has added, whatever was merged and squeezed.      *)
(***************************************************************************)
EXTENDS RangeTree

Live(s) == {s[i] : i \in 1 .. Len(s)}
Reversed(range) == range[1] > range[2]
CoversAny(R, v) == \E range \in R : Covers(range, v)

\* The ranges of R start and end where some of S do, and the oldest start of S
\* is still there.
Within(R, S) ==
    /\ \A x \in R : (\E y \in S : y[1] = x[1]) /\ (\E y \in S : y[2] = x[2])
    /\ \A y \in S : \E x \in R : x[1] <= y[1]

\* Merging up to h ends there: a range of R that starts up to h ends up to h.
Closed(R, h) == \A x \in R : x[1] <= h => x[2] <= h
Oldest(S, m) == \A x \in S : m <= x[1]
Reaches(R, m, h) == \E x \in R : x[1] = m /\ x[2] <= h

\* The versions that the counter has passed when a version of the model occurs.
Passed == UNION {0 .. v : v \in Version}

\* R and S cover the same versions, and their first segments end at the same.
SameAnswers(R, S) ==
    /\ \A v \in Passed : CoversAny(R, v) <=> CoversAny(S, v)
    /\ \A h \in Version : Closed(R, h) <=> Closed(S, h)
    /\ \A m \in Version : Oldest(R, m) <=> Oldest(S, m)
    /\ \A m, h \in Version : Oldest(S, m) /\ Closed(S, h) => (Reaches(R, m, h) <=> Reaches(S, m, h))

\* The segments are apart, in the order of cmp_ranges.
Separated(s) ==
    \A i \in 1 .. Len(s) - 1 : s[i][2] < s[i + 1][1] /\ ~Before(s[i + 1], s[i])

\* A reader that is newer than the scan leaves a reversed range up to cur; no
\* version up to cur that was covered is lost.
ScanInv ==
    /\ cur \in Version
    /\ Within(Live(r), added)
    /\ \A x \in Live(r) : Reversed(x) => x[2] = cur
    /\ \A v \in 0 .. cur : CoversAny(added, v) => CoversAny(Live(r), v)
    /\ ~squeezed => SameAnswers(Live(r), added)

ReadyInv ==
    /\ Separated(r)
    /\ r # <<>> => slot0 = r[1]

TreeInv ==
    /\ TreeTypeOK
    /\ sorted <=> phase = "ready"
    /\ phase # "idle" => ScanInv
    /\ phase = "ready" => ReadyInv
=============================================================================
