------------------------------ MODULE RangeTree ------------------------------
(***************************************************************************)
(* The range tree (src/range.c): a sorted array of version ranges that one  *)
(* scan after another fills, merges, and searches, always in the same       *)
(* uninitialised array.  Only r[0] of a dead part of the array is ever read *)
(* again, so the model keeps the live ranges and that slot.                 *)
(***************************************************************************)
EXTENDS Ranges, Integers, Sequences, FiniteSets, SequencesExt

CONSTANTS
    Version,      \* the versions that occur; 0 is that of a thread before its first section
    Capacity,     \* slots of ranges[] (LRCU_THREADS_MAX in the program)
    MaxAdds,      \* bound: active threads one scan meets
    Garbage       \* what the uninitialised r[0] may hold

ASSUME TreeAssumption ==
    /\ Version \subseteq Nat /\ Version \ {0} # {}
    /\ Capacity \in Nat \ {0, 1} /\ MaxAdds \in Nat
    /\ Garbage \subseteq Nat \X Nat /\ Garbage # {}

VARIABLES
    phase,        \* "idle", "adding" (inside a scan), "ready" (optimised)
    r,            \* the live ranges, r[0] .. r[len - 1]
    sorted,       \* rbt->sorted
    slot0,        \* the content of r[0], live or not
    cur,          \* current_version of the scan
    added,        \* history: the ranges this scan added
    adds,         \* history: how many calls added them
    squeezed      \* history: whether this scan ran out of slots

vars == <<phase, r, sorted, slot0, cur, added, adds, squeezed>>

-----------------------------------------------------------------------------
\* Mutant: compares the ends first.
BeforeByEnd(a, b) == a[2] < b[2] \/ (a[2] = b[2] /\ a[1] < b[1])

\* cmp_ranges.
Before(a, b) == a[1] < b[1] \/ (a[1] = b[1] /\ a[2] < b[2])

\* LRCU_QSORT: the same ranges in an order that cmp_ranges accepts.
Sorted(s) ==
    LET I == 1 .. Len(s)
        from == CHOOSE p \in [I -> I] :
                    /\ \A i \in I : \E j \in I : p[j] = i
                    /\ \A i, j \in I : i < j => ~Before(s[p[j]], s[p[i]])
    IN [i \in I |-> s[from[i]]]

\* Mutant: the array is taken to be sorted.
InOrderUnsorted == r
InOrder == IF sorted THEN r ELSE Sorted(r)

\* Mutant: a range that starts where the segment ends does not touch it.
TouchesInside(done, range) == done # <<>> /\ range[1] < Last(done)[2]

Touches(done, range) == done # <<>> /\ range[1] <= Last(done)[2]

\* Mutant: the segment ends where the last range in it ends.
ExtendedToLast(segment, range) == <<segment[1], range[2]>>

Extended(segment, range) ==
    <<segment[1], IF range[2] > segment[2] THEN range[2] ELSE segment[2]>>

\* A range that starts within the segment grown so far extends it.
RemoveOverlapping(s) ==
    LET done[i \in 0 .. Len(s)] ==
            IF i = 0 THEN <<>>
            ELSE IF Touches(done[i - 1], s[i])
            THEN [done[i - 1] EXCEPT ![Len(done[i - 1])] = Extended(@, s[i])]
            ELSE Append(done[i - 1], s[i])
    IN done[Len(s)]

\* The loop goes down from the last pair and never looks at the first one; of
\* equal gaps the last pair's wins.
Gap(s, i) == s[i + 1][1] - s[i][2]
SqueezeIndex(s) ==
    IF Len(s) = 2 THEN 1
    ELSE CHOOSE i \in 2 .. Len(s) - 1 :
             \A j \in 2 .. Len(s) - 1 : IF j > i THEN Gap(s, i) < Gap(s, j)
                                                 ELSE Gap(s, i) <= Gap(s, j)

Squeeze(s) ==
    LET i == SqueezeIndex(s)
    IN SubSeq(s, 1, i - 1) \o <<<<s[i][1], s[i + 1][2]>>>> \o SubSeq(s, i + 2, Len(s))

\* bintree_range_search: the index of a range with the value, or -1.  A C
\* division, so the middle of 0 and -1 is 0, and r[0] is looked at.
Slot(i) == IF r = <<>> THEN slot0 ELSE r[i + 1]
Middle(low, high) == IF high = -1 THEN 0 ELSE (low + high) \div 2

\* Mutant: going up skips a slot.
NarrowedSkipping(v, low, high) ==
    LET mid == Middle(low, high)
    IN IF Slot(mid)[1] > v THEN <<low, mid - 1>> ELSE <<mid + 2, high>>

\* Where to look next for v.
Narrowed(v, low, high) ==
    LET mid == Middle(low, high)
    IN IF Slot(mid)[1] > v THEN <<low, mid - 1>> ELSE <<mid + 1, high>>

Search(v) ==
    LET find[w \in (0 .. Len(r)) \X (-1 .. Len(r) - 1)] ==
            LET mid == Middle(w[1], w[2])
                next == Narrowed(v, w[1], w[2])
            IN IF Covers(Slot(mid), v) THEN mid
               ELSE IF next[1] <= next[2] THEN find[next] ELSE -1
    IN find[<<0, Len(r) - 1>>]

Find(v) == Search(v) # -1
GetMin == IF r = <<>> THEN 0 ELSE r[1][1]

-----------------------------------------------------------------------------
Init ==
    /\ phase = "idle" /\ r = <<>> /\ sorted = FALSE /\ slot0 \in Garbage
    /\ cur = 0 /\ added = {} /\ adds = 0 /\ squeezed = FALSE

\* Mutant: the new tree keeps the length of the last one.
BeginLen ==
    /\ phase \in {"idle", "ready"}
    /\ phase' = "adding" /\ sorted' = FALSE
    /\ cur' \in Version \ {0}
    /\ added' = {} /\ adds' = 0 /\ squeezed' = FALSE
    /\ UNCHANGED <<r, slot0>>

\* RANGE_BINTREE_INIT over the same array, and the scan's first load.
Begin ==
    /\ phase \in {"idle", "ready"}
    /\ phase' = "adding" /\ r' = <<>> /\ sorted' = FALSE
    /\ cur' \in Version \ {0}
    /\ added' = {} /\ adds' = 0 /\ squeezed' = FALSE
    /\ UNCHANGED slot0

\* Mutant: the flag that a merge has set stays.
PutStillSorted(s, range) ==
    /\ phase = "adding" /\ adds < MaxAdds
    /\ range[2] = cur \/ (range[1] <= range[2] /\ range[2] > 0)
    /\ r' = Append(s, range) /\ sorted' = (sorted \/ Len(r) = Capacity) /\ slot0' = Head(r')
    /\ added' = added \cup {range} /\ adds' = adds + 1
    /\ UNCHANGED <<phase, cur>>

\* The scan adds <<lns.version, current_version>>, or up to a hung_lns.version
\* that is no older than lns.version and was a current_version.
Put(s, range) ==
    /\ phase = "adding" /\ adds < MaxAdds
    /\ range[2] = cur \/ (range[1] <= range[2] /\ range[2] > 0)
    /\ r' = Append(s, range) /\ sorted' = FALSE /\ slot0' = Head(r')
    /\ added' = added \cup {range} /\ adds' = adds + 1
    /\ UNCHANGED <<phase, cur>>

Add(range) == Len(r) < Capacity /\ Put(r, range) /\ UNCHANGED squeezed

\* A full array is merged first ...
AddMerging(range) ==
    LET merged == RemoveOverlapping(InOrder)
    IN /\ Len(r) = Capacity /\ Len(merged) < Capacity
       /\ Put(merged, range) /\ UNCHANGED squeezed

\* ... and when that frees no slot, two neighbours become one range.
AddSqueezing(range) ==
    LET merged == RemoveOverlapping(InOrder)
    IN /\ Len(r) = Capacity /\ Len(merged) = Capacity
       /\ Put(Squeeze(merged), range) /\ squeezed' = TRUE

Optimize ==
    /\ phase = "adding"
    /\ phase' = "ready"
    /\ r' = RemoveOverlapping(InOrder) /\ sorted' = TRUE
    /\ slot0' = IF r' = <<>> THEN slot0 ELSE Head(r')
    /\ UNCHANGED <<cur, added, adds, squeezed>>

Next == \/ Begin \/ Optimize
        \/ \E range \in Version \X Version :
               Add(range) \/ AddMerging(range) \/ AddSqueezing(range)

Spec == Init /\ [][Next]_vars

-----------------------------------------------------------------------------
(* Properties.                                                             *)

\* Every variable keeps its type, and the sorted flag is not stale.
TreeTypeOK ==
    /\ phase \in {"idle", "adding", "ready"}
    /\ r \in Seq(Version \X Version) /\ Len(r) <= Capacity
    /\ sorted \in BOOLEAN /\ squeezed \in BOOLEAN
    /\ slot0 \in Nat \X Nat /\ cur \in Version \cup {0}
    /\ added \subseteq Version \X Version /\ adds \in 0 .. MaxAdds
    /\ sorted => \A i \in 1 .. Len(r) - 1 : ~Before(r[i + 1], r[i])

\* The search (range.c, lines 188-207) finds every version up to the scan's
\* current_version that some reader's range covers, however often the array
\* filled up on the way: no callback and no synchronize is let go too early.
FindsCovered ==
    phase = "ready" => \A v \in 0 .. cur :
        (\E range \in added : Covers(range, v)) => Find(v)

\* As long as the array did not fill up, binary search over the merged array
\* answers what Lrcu assumes of it, for reversed ranges and for an empty tree.
FindIsLookup ==
    phase = "ready" /\ ~squeezed =>
        \A v \in Version : Find(v) <=> Lookup(added, slot0, v)

\* Squeezing (lines 80-112) only closes gaps between readers' ranges.
FindsBetween ==
    phase = "ready" /\ added # {} => \A v \in Version : Find(v) =>
        (\E a \in added : a[1] <= v) /\ (\E b \in added : v <= b[2])

\* getmin (lines 139-148) is the oldest version a reader entered at.
MinIsOldest ==
    phase = "ready" => IF added = {} THEN GetMin = 0
                                     ELSE GetMin \in Least({a[1] : a \in added})

\* What a scan leaves in r[0] for a later empty one to find.
StaleIsFirstMerged ==
    phase = "ready" /\ added # {} /\ ~squeezed => {slot0} = FirstMerged(added)
=============================================================================
