-------------------------- MODULE RangeTreeProofs ---------------------------
(***************************************************************************)
(* The range tree, for every array size and every number of readers: the    *)
(* sort, the merge, the squeeze and the binary search of range.c, each      *)
(* first by itself, by induction over the array or the window, and then as  *)
(* a step that keeps RangeTreeInv!TreeInv.                                  *)
(***************************************************************************)
EXTENDS RangeTreeInv, SequenceTheorems, NatInduct

Segment == Version \X Version

\* The parts of a segment, as numbers.
LEMMA SegmentParts ==
  ASSUME NEW x \in Segment
  PROVE  /\ x[1] \in Version /\ x[2] \in Version /\ x = <<x[1], x[2]>>
         /\ x[1] \in Nat /\ x[2] \in Nat
<1>1. x[1] \in Version /\ x[2] \in Version /\ x = <<x[1], x[2]>>
  BY DEF Segment
<1>2. \A v \in Version : v \in Nat
  BY TreeAssumption
<1> QED BY <1>1, <1>2

-----------------------------------------------------------------------------
(* The sort.                                                               *)

\* cmp_ranges is a strict total order.
LEMMA BeforeIsOrder ==
  /\ \A x, y, z \in Segment : ~Before(x, y) /\ ~Before(y, z) => ~Before(x, z)
  /\ \A x \in Segment : ~Before(x, x)
  /\ \A x, y \in Segment : ~Before(x, y) => y[1] <= x[1]
<1> SUFFICES ASSUME NEW x \in Segment, NEW y \in Segment, NEW z \in Segment
             PROVE  /\ ~Before(x, y) /\ ~Before(y, z) => ~Before(x, z)
                    /\ ~Before(x, x)
                    /\ ~Before(x, y) => y[1] <= x[1]
  OBVIOUS
<1>1. /\ x[1] \in Nat /\ x[2] \in Nat /\ y[1] \in Nat /\ y[2] \in Nat
      /\ z[1] \in Nat /\ z[2] \in Nat
  BY SegmentParts
<1> QED BY <1>1 DEF Before

\* Some segment of a set of places has none before it.
LEMMA FirstOfPlaces ==
  ASSUME NEW T \in SUBSET Nat, T # {}, NEW g, \A j \in T : g[j] \in Segment
  PROVE  \E m \in T : \A j \in T : ~Before(g[j], g[m])
<1>1. \A j \in T : g[j][1] \in Nat /\ g[j][2] \in Nat
  BY SegmentParts
<1> DEFINE A == {g[j][1] : j \in T}
<1>2. PICK a \in A : \A b \in A : a <= b
  <2>1. A \in SUBSET Nat /\ A # {}
    BY <1>1
  <2> HIDE DEF A
  <2> QED BY <2>1, LeastElement
<1> DEFINE B == {g[j][2] : j \in {i \in T : g[i][1] = a}}
<1>3. PICK c \in B : \A b \in B : c <= b
  <2>1. B \in SUBSET Nat /\ B # {}
    BY <1>1
  <2> HIDE DEF B
  <2> QED BY <2>1, LeastElement
<1>4. PICK m \in T : g[m][1] = a /\ g[m][2] = c
  OBVIOUS
<1>5. ASSUME NEW j \in T PROVE ~Before(g[j], g[m])
  <2>1. a <= g[j][1] /\ (g[j][1] = a => c <= g[j][2])
    BY <1>2, <1>3
  <2>2. /\ g[j][1] \in Nat /\ g[j][2] \in Nat /\ a \in Nat /\ c \in Nat
        /\ g[m][1] = a /\ g[m][2] = c
    BY <1>1, <1>4
  <2> HIDE DEF A, B
  <2> QED BY <2>1, <2>2 DEF Before
<1> QED BY <1>5

\* There is an order that the sort may choose: selection sort finds one.
LEMMA OrderExists ==
  ASSUME NEW s \in Seq(Segment), NEW I, I = 1 .. Len(s)
  PROVE  \E p \in [I -> I] : /\ \A i \in I : \E j \in I : p[j] = i
                             /\ \A i, j \in I : i < j => ~Before(s[p[j]], s[p[i]])
<1> DEFINE Onto(p) == \A i \in I : \E j \in I : p[j] = i
           Upto(p, k) == \A i, j \in I : i < j /\ i <= k => ~Before(s[p[j]], s[p[i]])
           T == {k \in Nat : k <= Len(s) => \E p \in [I -> I] : Onto(p) /\ Upto(p, k)}
<1>0. Len(s) \in Nat /\ \A i \in I : s[i] \in Segment
  OBVIOUS
<1>1. 0 \in T
  <2> DEFINE p == [i \in I |-> i]
  <2>1. p \in [I -> I] /\ Onto(p) /\ Upto(p, 0)
    OBVIOUS
  <2> HIDE DEF p, Onto, Upto
  <2> QED BY <2>1
<1>2. ASSUME NEW k \in Nat, k \in T PROVE k + 1 \in T
  <2> SUFFICES ASSUME k + 1 <= Len(s) PROVE \E p \in [I -> I] : Onto(p) /\ Upto(p, k + 1)
    <3> HIDE DEF Onto, Upto
    <3> QED OBVIOUS
  <2>a. k <= Len(s) => \E p \in [I -> I] : Onto(p) /\ Upto(p, k)
    <3> HIDE DEF Onto, Upto
    <3> QED BY <1>2
  <2>b. k <= Len(s)
    BY <1>0
  <2>1. PICK p \in [I -> I] : Onto(p) /\ Upto(p, k)
    BY <2>a, <2>b
  <2> DEFINE J == k + 1 .. Len(s)
             g == [j \in J |-> s[p[j]]]
  <2>2. J \subseteq I /\ k + 1 \in J /\ J \in SUBSET Nat
    BY <1>0
  <2>3. PICK m \in J : \A j \in J : ~Before(s[p[j]], s[p[m]])
    <3>1. \A j \in J : g[j] = s[p[j]] /\ g[j] \in Segment
      BY <1>0, <2>2
    <3> HIDE DEF J, g
    <3>2. PICK m \in J : \A j \in J : ~Before(g[j], g[m])
      BY <2>2, <3>1, FirstOfPlaces
    <3> QED BY <3>1, <3>2
  <2> DEFINE q == [p EXCEPT ![k + 1] = p[m], ![m] = p[k + 1]]
  <2>4. m \in I /\ k + 1 \in I
    BY <2>2
  <2>5. q \in [I -> I] /\ \A j \in I : q[j] = IF j = m THEN p[k + 1] ELSE IF j = k + 1 THEN p[m] ELSE p[j]
    BY <2>4
  <2> HIDE DEF q, J
  <2>6. Onto(q)
    <3> SUFFICES ASSUME NEW i \in I PROVE \E j \in I : q[j] = i
      OBVIOUS
    <3>1. PICK j \in I : p[j] = i
      BY <2>1
    <3>2. q[IF j = m THEN k + 1 ELSE IF j = k + 1 THEN m ELSE j] = i
      BY <2>4, <2>5, <3>1
    <3> QED BY <2>4, <3>2
  <2>7. Upto(q, k + 1)
    <3> SUFFICES ASSUME NEW i \in I, NEW j \in I, i < j, i <= k + 1 PROVE ~Before(s[q[j]], s[q[i]])
      OBVIOUS
    <3>0. i \in Nat /\ j \in Nat /\ m >= k + 1 /\ m \in Nat /\ j <= Len(s)
      BY <1>0, <2>2, <2>4 DEF J
    <3>1. \E c \in I : q[j] = p[c] /\ (i <= k => c > i) /\ (i = k + 1 => c \in J)
      <4>1. CASE j = m
        BY <2>4, <2>5, <3>0, <4>1 DEF J
      <4>2. CASE j # m /\ j = k + 1
        BY <2>4, <2>5, <3>0, <4>2 DEF J
      <4>3. CASE j # m /\ j # k + 1
        BY <2>4, <2>5, <3>0, <4>3 DEF J
      <4> QED BY <4>1, <4>2, <4>3
    <3>2. CASE i = k + 1
      <4>1. q[i] = p[m]
        BY <2>4, <2>5, <3>2
      <4> QED BY <2>3, <3>1, <3>2, <4>1
    <3>3. CASE i # k + 1
      <4>1. i <= k /\ q[i] = p[i]
        BY <2>5, <3>0, <3>3
      <4> QED BY <2>1, <3>1, <4>1
    <3> QED BY <3>2, <3>3
  <2> QED BY <2>5, <2>6, <2>7
<1> HIDE DEF T
<1>3. Len(s) \in T
  BY <1>0, <1>1, <1>2, Induct
<1>4. PICK p \in [I -> I] : Onto(p) /\ Upto(p, Len(s))
  <2> HIDE DEF Onto, Upto
  <2>1. Len(s) <= Len(s)
    BY <1>0
  <2> QED BY <1>3, <2>1 DEF T
<1>5. \A i \in I : i <= Len(s)
  BY <1>0
<1> QED BY <1>4, <1>5

\* The sorted array holds the same segments, in order.
LEMMA SortedIs ==
  ASSUME NEW s \in Seq(Segment)
  PROVE  /\ Sorted(s) \in Seq(Segment) /\ Len(Sorted(s)) = Len(s)
         /\ Live(Sorted(s)) = Live(s)
         /\ \A i, j \in 1 .. Len(s) : i < j => ~Before(Sorted(s)[j], Sorted(s)[i])
<1> DEFINE I == 1 .. Len(s)
           Good(p) == /\ \A i \in I : \E j \in I : p[j] = i
                      /\ \A i, j \in I : i < j => ~Before(s[p[j]], s[p[i]])
           from == CHOOSE p \in [I -> I] : Good(p)
           t == [i \in I |-> s[from[i]]]
<1>1. from \in [I -> I] /\ Good(from)
  <2>1. \E p \in [I -> I] : Good(p)
    BY OrderExists
  <2> HIDE DEF Good, I
  <2> QED BY <2>1
<1>2. Sorted(s) = t
  BY Zenon DEF Sorted
<1>3. \A i \in I : s[i] \in Segment
  OBVIOUS
<1> HIDE DEF from
<1>4. t \in Seq(Segment) /\ Len(t) = Len(s) /\ \A i \in I : t[i] = s[from[i]]
  <2>1. Len(s) \in Nat /\ t \in [1 .. Len(s) -> Segment]
    BY <1>1, <1>3
  <2>2. \A i \in I : t[i] = s[from[i]]
    OBVIOUS
  <2> HIDE DEF t
  <2> QED BY <2>1, <2>2
<1> HIDE DEF t
<1>5. Live(t) = Live(s)
  <2>1. \A i \in I : from[i] \in I /\ \E j \in I : from[j] = i
    BY <1>1
  <2>2. Live(t) = {t[i] : i \in I} /\ Live(s) = {s[i] : i \in I}
    BY <1>4 DEF Live
  <2> HIDE DEF I, Good
  <2>3. \A i \in I : t[i] \in Live(s) /\ s[i] \in Live(t)
    BY <1>4, <2>1, <2>2
  <2> QED BY <2>2, <2>3
<1> QED BY <1>1, <1>2, <1>4, <1>5

-----------------------------------------------------------------------------
(* What merging keeps of a set of segments.                                *)

\* Every version of the model has been passed, and so has every smaller one.
LEMMA PassedIs ==
  /\ Passed \subseteq Nat /\ Version \subseteq Passed
  /\ \A v \in Version : 0 .. v \subseteq Passed
<1>1. \A v \in Version : v \in Nat
  BY TreeAssumption
<1>2. \A v \in Version : v \in 0 .. v /\ 0 .. v \subseteq Nat
  BY <1>1
<1> QED BY <1>2 DEF Passed

\* A scan that has added nothing begins with an empty array.
LEMMA SameNone == SameAnswers({}, {}) /\ Within({}, {})
BY DEF SameAnswers, Within

\* What one step keeps of the answers, and the next step, both keep ...
LEMMA SameTrans ==
  ASSUME NEW R, NEW S, NEW U, SameAnswers(R, S), SameAnswers(S, U)
  PROVE  SameAnswers(R, U)
BY DEF SameAnswers

\* ... and so for where segments start and end.
LEMMA WithinTrans ==
  ASSUME NEW R \in SUBSET Segment, NEW S \in SUBSET Segment, NEW U \in SUBSET Segment,
         Within(R, S), Within(S, U)
  PROVE  Within(R, U)
<1>1. ASSUME NEW x \in R PROVE (\E y \in U : y[1] = x[1]) /\ (\E y \in U : y[2] = x[2])
  <2>1. PICK y \in S, z \in S : y[1] = x[1] /\ z[2] = x[2]
    BY DEF Within
  <2>2. (\E u \in U : u[1] = y[1]) /\ (\E u \in U : u[2] = z[2])
    BY DEF Within
  <2> QED BY <2>1, <2>2
<1>2. ASSUME NEW y \in U PROVE \E x \in R : x[1] <= y[1]
  <2>1. PICK z \in S : z[1] <= y[1]
    BY DEF Within
  <2>2. PICK x \in R : x[1] <= z[1]
    BY DEF Within
  <2>3. x[1] \in Nat /\ y[1] \in Nat /\ z[1] \in Nat
    BY SegmentParts
  <2> QED BY <2>1, <2>2, <2>3
<1> QED BY <1>1, <1>2 DEF Within

\* Both sets get the same segment.
LEMMA SameAdd ==
  ASSUME NEW R, NEW S, NEW x, SameAnswers(R, S), Within(R, S)
  PROVE  SameAnswers(R \cup {x}, S \cup {x}) /\ (x[1] <= x[1] => Within(R \cup {x}, S \cup {x}))
<1>1. \A v \in Passed : CoversAny(R \cup {x}, v) <=> CoversAny(S \cup {x}, v)
  BY DEF SameAnswers, CoversAny
<1>2. \A h \in Version : Closed(R \cup {x}, h) <=> Closed(S \cup {x}, h)
  BY DEF SameAnswers, Closed
<1>3. \A m \in Version : Oldest(R \cup {x}, m) <=> Oldest(S \cup {x}, m)
  BY DEF SameAnswers, Oldest
<1>4. ASSUME NEW m \in Version, NEW h \in Version, Oldest(S \cup {x}, m), Closed(S \cup {x}, h)
      PROVE  Reaches(R \cup {x}, m, h) <=> Reaches(S \cup {x}, m, h)
  <2>1. Oldest(S, m) /\ Closed(S, h)
    BY <1>4 DEF Oldest, Closed
  <2>2. Reaches(R, m, h) <=> Reaches(S, m, h)
    BY <2>1 DEF SameAnswers
  <2> QED BY <2>2 DEF Reaches
<1>5. x[1] <= x[1] => Within(R \cup {x}, S \cup {x})
  BY DEF Within
<1> QED BY <1>1, <1>2, <1>3, <1>4, <1>5 DEF SameAnswers

\* A segment and a range that starts in it are one segment.
LEMMA MergePair ==
  ASSUME NEW F \in SUBSET Segment, NEW a \in Segment, NEW x \in Segment,
         ~Before(x, a), x[1] <= a[2], NEW b, b = Extended(a, x)
  PROVE  /\ b \in Segment /\ b[1] = a[1] /\ b[1] <= b[2] /\ a[2] <= b[2]
         /\ SameAnswers(F \cup {b}, F \cup {a, x}) /\ Within(F \cup {b}, F \cup {a, x})
<1>1. /\ a[1] \in Nat /\ a[2] \in Nat /\ x[1] \in Nat /\ x[2] \in Nat
      /\ a[1] \in Version /\ a[2] \in Version /\ x[1] \in Version /\ x[2] \in Version
  BY SegmentParts
<1>0. a[1] <= x[1] /\ (a[1] = x[1] => a[2] <= x[2])
  BY <1>1 DEF Before
<1>2. b[1] = a[1] /\ b[2] = (IF x[2] > a[2] THEN x[2] ELSE a[2])
  BY DEF Extended
<1>3. b \in Segment /\ b[1] <= b[2] /\ a[2] <= b[2] /\ x[2] <= b[2] /\ b[1] \in Nat /\ b[2] \in Nat
  <2>1. b = <<b[1], b[2]>> /\ b[1] \in Version /\ b[2] \in Version
    BY <1>1, <1>2 DEF Extended
  <2> QED BY <1>0, <1>1, <1>2, <2>1 DEF Segment
<1>4. \A v \in Version : v \in Nat
  BY TreeAssumption
<1>5. ASSUME NEW v \in Passed PROVE Covers(b, v) <=> Covers(a, v) \/ Covers(x, v)
  <2>1. v \in Nat
    BY PassedIs
  <2> QED BY <1>0, <1>1, <1>2, <2>1 DEF Covers
<1>6. ASSUME NEW h \in Version
      PROVE  (b[1] <= h => b[2] <= h) <=> (a[1] <= h => a[2] <= h) /\ (x[1] <= h => x[2] <= h)
  BY <1>0, <1>1, <1>2, <1>4
<1>7. ASSUME NEW m \in Version PROVE m <= b[1] <=> m <= a[1] /\ m <= x[1]
  BY <1>0, <1>1, <1>2, <1>4
<1>8. ASSUME NEW m \in Version, NEW h \in Version, m <= a[1], m <= x[1],
             a[1] <= h => a[2] <= h, x[1] <= h => x[2] <= h
      PROVE  b[1] = m /\ b[2] <= h <=> (a[1] = m /\ a[2] <= h) \/ (x[1] = m /\ x[2] <= h)
  BY <1>0, <1>1, <1>2, <1>4, <1>8
<1>9. SameAnswers(F \cup {b}, F \cup {a, x})
  <2>1. \A v \in Passed : CoversAny(F \cup {b}, v) <=> CoversAny(F \cup {a, x}, v)
    BY <1>5 DEF CoversAny
  <2>2. \A h \in Version : Closed(F \cup {b}, h) <=> Closed(F \cup {a, x}, h)
    BY <1>6 DEF Closed
  <2>3. \A m \in Version : Oldest(F \cup {b}, m) <=> Oldest(F \cup {a, x}, m)
    BY <1>7 DEF Oldest
  <2>4. ASSUME NEW m \in Version, NEW h \in Version, Oldest(F \cup {a, x}, m), Closed(F \cup {a, x}, h)
        PROVE  Reaches(F \cup {b}, m, h) <=> Reaches(F \cup {a, x}, m, h)
    <3>1. m <= a[1] /\ m <= x[1] /\ (a[1] <= h => a[2] <= h) /\ (x[1] <= h => x[2] <= h)
      BY <2>4 DEF Oldest, Closed
    <3>2. b[1] = m /\ b[2] <= h <=> (a[1] = m /\ a[2] <= h) \/ (x[1] = m /\ x[2] <= h)
      BY <1>8, <3>1
    <3> QED BY <3>2 DEF Reaches
  <2> QED BY <2>1, <2>2, <2>3, <2>4 DEF SameAnswers
<1>10. Within(F \cup {b}, F \cup {a, x})
  <2>1. \A y \in F : y[1] <= y[1]
    BY SegmentParts
  <2>2. b[1] <= a[1] /\ b[1] <= x[1]
    BY <1>0, <1>1, <1>2
  <2>3. \E y \in F \cup {a, x} : y[2] = b[2]
    BY <1>2
  <2> QED BY <1>2, <2>1, <2>2, <2>3 DEF Within
<1> QED BY <1>2, <1>3, <1>9, <1>10

-----------------------------------------------------------------------------
(* lrcu_rangetree_remove_overlapping.                                      *)

\* What the loop has merged after i ranges, as the recursion of the model.
IsGrown(f, s, m) ==
    f = [i \in 0 .. m |->
            IF i = 0 THEN <<>>
            ELSE IF Touches(f[i - 1], s[i])
            THEN [f[i - 1] EXCEPT ![Len(f[i - 1])] = Extended(@, s[i])]
            ELSE Append(f[i - 1], s[i])]

\* One iteration.
Grow(d, x) == IF Touches(d, x) THEN [d EXCEPT ![Len(d)] = Extended(@, x)] ELSE Append(d, x)

\* The recursion defines a function.
LEMMA GrownExists == \A s, m : m \in Nat => \E f : IsGrown(f, s, m)
<1> SUFFICES ASSUME NEW s PROVE \A m \in Nat : \E f : IsGrown(f, s, m)
  OBVIOUS
<1> DEFINE T == {m \in Nat : \E f : IsGrown(f, s, m)}
<1>0. ASSUME NEW f, NEW m \in Nat
      PROVE  IsGrown(f, s, m) <=> f = [i \in 0 .. m |-> IF i = 0 THEN <<>> ELSE Grow(f[i - 1], s[i])]
  BY Zenon DEF IsGrown, Grow
<1>1. 0 \in T
  <2> DEFINE f == [i \in 0 .. 0 |-> <<>>]
  <2>1. f = [i \in 0 .. 0 |-> IF i = 0 THEN <<>> ELSE Grow(f[i - 1], s[i])]
    OBVIOUS
  <2> HIDE DEF f
  <2> QED BY <1>0, <2>1
<1>2. ASSUME NEW m \in Nat, m \in T PROVE m + 1 \in T
  <2>1. PICK f : IsGrown(f, s, m)
    BY <1>2
  <2> DEFINE g == [i \in 0 .. m + 1 |-> IF i <= m THEN f[i] ELSE Grow(f[m], s[m + 1])]
             h == [i \in 0 .. m + 1 |-> IF i = 0 THEN <<>> ELSE Grow(g[i - 1], s[i])]
  <2>2. \A i \in 0 .. m : f[i] = IF i = 0 THEN <<>> ELSE Grow(f[i - 1], s[i])
    <3>1. f = [i \in 0 .. m |-> IF i = 0 THEN <<>> ELSE Grow(f[i - 1], s[i])]
      BY <1>0, <2>1
    <3> QED BY <3>1, Zenon
  <2>3. \A i \in 0 .. m : g[i] = f[i]
    OBVIOUS
  <2>4. ASSUME NEW i \in 0 .. m + 1 PROVE g[i] = h[i]
    <3>1. CASE i = 0
      BY <2>2, <2>3, <3>1
    <3>2. CASE i \in 1 .. m
      <4>1. i - 1 \in 0 .. m /\ i \in 0 .. m /\ i # 0
        BY <3>2
      <4>2. g[i - 1] = f[i - 1]
        BY <2>3, <4>1
      <4> HIDE DEF g
      <4>3. h[i] = Grow(f[i - 1], s[i])
        BY <4>1, <4>2
      <4> QED BY <2>2, <2>3, <4>1, <4>3
    <3>3. CASE i = m + 1
      <4>1. i # 0 /\ ~(i <= m) /\ i - 1 = m /\ g[m] = f[m]
        BY <3>3
      <4>2. g[i] = Grow(f[m], s[m + 1])
        BY <4>1
      <4> HIDE DEF g
      <4>3. h[i] = Grow(f[m], s[m + 1])
        BY <3>3, <4>1
      <4> QED BY <4>2, <4>3
    <3> QED BY <3>1, <3>2, <3>3
  <2>5. g = h
    <3>1. g = [i \in 0 .. m + 1 |-> g[i]] /\ h = [i \in 0 .. m + 1 |-> h[i]]
      OBVIOUS
    <3> HIDE DEF g, h
    <3> QED BY <2>4, <3>1
  <2> HIDE DEF g
  <2>6. IsGrown(g, s, m + 1)
    BY <1>0, <2>5
  <2> QED BY <2>6
<1> HIDE DEF T
<1>3. Nat \subseteq T
  BY <1>1, <1>2, Induct
<1> QED BY <1>3 DEF T

\* The loop, iteration by iteration.
LEMMA GrownStep ==
  ASSUME NEW s, Len(s) \in Nat
  PROVE  \E f : /\ f[0] = <<>> /\ RemoveOverlapping(s) = f[Len(s)]
                /\ \A i \in 1 .. Len(s) : f[i] = Grow(f[i - 1], s[i])
<1> DEFINE done[i \in 0 .. Len(s)] ==
               IF i = 0 THEN <<>>
               ELSE IF Touches(done[i - 1], s[i])
               THEN [done[i - 1] EXCEPT ![Len(done[i - 1])] = Extended(@, s[i])]
               ELSE Append(done[i - 1], s[i])
<1>1. done = CHOOSE f : IsGrown(f, s, Len(s))
  BY Zenon DEF IsGrown
<1>2. IsGrown(done, s, Len(s))
  BY <1>1, GrownExists, Zenon
<1>3. RemoveOverlapping(s) = done[Len(s)]
  BY Zenon DEF RemoveOverlapping
<1> HIDE DEF done
<1>4. done = [i \in 0 .. Len(s) |-> IF i = 0 THEN <<>> ELSE Grow(done[i - 1], s[i])]
  BY <1>2, Zenon DEF IsGrown, Grow
<1>5. \A i \in 0 .. Len(s) : done[i] = IF i = 0 THEN <<>> ELSE Grow(done[i - 1], s[i])
  BY <1>4, Zenon
<1>6. done[0] = <<>> /\ \A i \in 1 .. Len(s) : done[i] = Grow(done[i - 1], s[i])
  BY <1>5
<1> QED BY <1>3, <1>6

Prefix(s, i) == {s[k] : k \in 1 .. i}

\* The segments d that i iterations have made of the sorted ranges s.
Merged(d, s, i) ==
    /\ d \in Seq(Segment) /\ Len(d) <= i /\ (d = <<>> <=> i = 0)
    /\ Separated(d)
    /\ d # <<>> => \A j \in i + 1 .. Len(s) : ~Before(s[j], d[Len(d)])
    /\ SameAnswers(Live(d), Prefix(s, i)) /\ Within(Live(d), Prefix(s, i))
    /\ \A x \in Live(d) : Reversed(x) => x \in Prefix(s, i)

\* A new last element, or another one in the place of the last.
LEMMA LiveOf ==
  ASSUME NEW d \in Seq(Segment), NEW x \in Segment
  PROVE  /\ Append(d, x) \in Seq(Segment) /\ Len(Append(d, x)) = Len(d) + 1
         /\ \A k \in 1 .. Len(d) + 1 : Append(d, x)[k] = IF k = Len(d) + 1 THEN x ELSE d[k]
         /\ Live(Append(d, x)) = Live(d) \cup {x}
         /\ Live(d) \subseteq Segment
<1>1. /\ Append(d, x) \in Seq(Segment) /\ Len(Append(d, x)) = Len(d) + 1
      /\ \A k \in 1 .. Len(d) + 1 : Append(d, x)[k] = IF k = Len(d) + 1 THEN x ELSE d[k]
  OBVIOUS
<1> DEFINE a == Append(d, x)
<1>2. Live(a) = {a[k] : k \in 1 .. Len(d) + 1} /\ Live(d) = {d[k] : k \in 1 .. Len(d)}
  BY <1>1 DEF Live
<1>3. Live(d) \subseteq Segment
  BY DEF Live
<1>4. Len(d) \in Nat
  OBVIOUS
<1> HIDE DEF a
<1>5. Live(a) = Live(d) \cup {x}
  <2>1. \A k \in 1 .. Len(d) : k \in 1 .. Len(d) + 1 /\ a[k] = d[k]
    BY <1>1, <1>4 DEF a
  <2>2. Len(d) + 1 \in 1 .. Len(d) + 1 /\ a[Len(d) + 1] = x
    BY <1>1, <1>4 DEF a
  <2>3. \A k \in 1 .. Len(d) + 1 : k \in 1 .. Len(d) \/ k = Len(d) + 1
    BY <1>4
  <2> QED BY <1>2, <2>1, <2>2, <2>3
<1> QED BY <1>1, <1>3, <1>5 DEF a

\* u is d with b as its last segment.
LastReplaced(d, b, u) == u = [d EXCEPT ![Len(d)] = b]

\* The sets differ in one segment.
OneReplaced(D, a, b, U) == \E F \in SUBSET Segment : D = F \cup {a} /\ U = F \cup {b}

\* The last segment replaced: the others are the set F.
LEMMA LiveLast ==
  ASSUME NEW d, d \in Seq(Segment), d # <<>>, NEW b, b \in Segment,
         NEW u, LastReplaced(d, b, u)
  PROVE  /\ u \in Seq(Segment) /\ Len(u) = Len(d) /\ Len(d) \in Nat \ {0}
         /\ \A k \in 1 .. Len(d) : u[k] = IF k = Len(d) THEN b ELSE d[k]
         /\ OneReplaced(Live(d), d[Len(d)], b, Live(u))
<1>1. Len(d) \in Nat \ {0} /\ Len(d) \in 1 .. Len(d) /\ \A k \in 1 .. Len(d) : d[k] \in Segment
  OBVIOUS
<1>2. /\ u \in Seq(Segment) /\ Len(u) = Len(d)
      /\ \A k \in 1 .. Len(d) : u[k] = IF k = Len(d) THEN b ELSE d[k]
  BY <1>1 DEF LastReplaced
<1> DEFINE F == {d[k] : k \in 1 .. Len(d) - 1}
<1>3. \A k \in 1 .. Len(d) : k = Len(d) \/ k \in 1 .. Len(d) - 1
  BY <1>1
<1>4. \A k \in 1 .. Len(d) - 1 : k \in 1 .. Len(d) /\ k # Len(d)
  BY <1>1
<1>5. F \in SUBSET Segment
  BY <1>1, <1>4
<1>6. Live(d) = F \cup {d[Len(d)]}
  BY <1>1, <1>3, <1>4 DEF Live
<1>7. Live(u) = F \cup {b}
  <2>1. Live(u) = {u[k] : k \in 1 .. Len(d)}
    BY <1>2 DEF Live
  <2>2. \A k \in 1 .. Len(d) - 1 : u[k] = d[k]
    BY <1>2, <1>4
  <2> QED BY <1>1, <1>2, <1>3, <1>4, <2>1, <2>2
<1> QED BY <1>1, <1>2, <1>5, <1>6, <1>7 DEF OneReplaced

\* One more range of the sorted array.
LEMMA MergedStep ==
  ASSUME NEW s \in Seq(Segment), \A i, j \in 1 .. Len(s) : i < j => ~Before(s[j], s[i]),
         NEW i \in 1 .. Len(s), NEW d, Merged(d, s, i - 1)
  PROVE  Merged(Grow(d, s[i]), s, i)
<1> DEFINE x == s[i]
           P == Prefix(s, i - 1)
<1>0. /\ Len(s) \in Nat /\ i \in Nat \ {0} /\ x \in Segment /\ i - 1 + 1 = i
      /\ d \in Seq(Segment) /\ Len(d) \in Nat /\ Len(d) <= i - 1
  BY DEF Merged
<1>1. Prefix(s, i) = P \cup {x} /\ P \subseteq Segment
  <2>1. \A k \in 1 .. i : k = i \/ k \in 1 .. i - 1
    BY <1>0
  <2>2. \A k \in 1 .. i - 1 : k \in 1 .. i /\ s[k] \in Segment
    BY <1>0
  <2> QED BY <1>0, <2>1, <2>2 DEF Prefix
<1>2. \A j \in i + 1 .. Len(s) : s[j] \in Segment /\ ~Before(s[j], x) /\ j \in i - 1 + 1 .. Len(s)
  BY <1>0
<1>3. d # <<>> => ~Before(x, d[Len(d)]) /\ \A j \in i + 1 .. Len(s) : ~Before(s[j], d[Len(d)])
  BY <1>0, <1>2 DEF Merged
<1>4. /\ SameAnswers(Live(d), P) /\ Within(Live(d), P) /\ Separated(d)
      /\ \A y \in Live(d) : Reversed(y) => y \in P
  BY DEF Merged
<1>5. x[1] <= x[1] /\ x[1] \in Nat /\ x[2] \in Nat
  BY <1>0, SegmentParts
<1> HIDE DEF x, P
<1>6. SameAnswers(Live(d) \cup {x}, P \cup {x}) /\ Within(Live(d) \cup {x}, P \cup {x})
  BY <1>4, <1>5, SameAdd
<1>7. CASE ~Touches(d, x)
  <2> DEFINE u == Append(d, x)
  <2>1. Grow(d, x) = u
    BY <1>7 DEF Grow
  <2>2. /\ u \in Seq(Segment) /\ Len(u) = Len(d) + 1
        /\ \A k \in 1 .. Len(d) + 1 : u[k] = IF k = Len(d) + 1 THEN x ELSE d[k]
        /\ Live(u) = Live(d) \cup {x}
    BY <1>0, LiveOf
  <2> HIDE DEF u
  <2>3. Separated(u)
    <3> SUFFICES ASSUME NEW k \in 1 .. Len(d) PROVE u[k][2] < u[k + 1][1] /\ ~Before(u[k + 1], u[k])
      BY <1>0, <2>2 DEF Separated
    <3>1. u[k] = d[k] /\ u[k + 1] = IF k = Len(d) THEN x ELSE d[k + 1]
      BY <1>0, <2>2
    <3>2. CASE k = Len(d)
      <4>1. d # <<>> /\ d[Len(d)] \in Segment
        BY <1>0, <3>2
      <4>2. d[k][2] < x[1]
        <5>1. d[k][2] \in Nat
          BY <3>2, <4>1, SegmentParts
        <5> QED BY <1>5, <1>7, <3>2, <4>1, <5>1 DEF Touches, Last
      <4> QED BY <1>3, <3>1, <3>2, <4>1, <4>2
    <3>3. CASE k # Len(d)
      <4>1. k \in 1 .. Len(d) - 1
        BY <1>0, <3>3
      <4> QED BY <1>4, <3>1, <3>3, <4>1 DEF Separated
    <3> QED BY <3>2, <3>3
  <2>4. u[Len(u)] = x /\ u # <<>> /\ Len(u) <= i
    BY <1>0, <2>2
  <2>5. \A y \in Live(u) : Reversed(y) => y \in P \cup {x}
    BY <1>4, <2>2
  <2> QED BY <1>0, <1>1, <1>2, <1>6, <2>1, <2>2, <2>3, <2>4, <2>5 DEF Merged, x
<1>8. CASE Touches(d, x)
  <2> DEFINE a == d[Len(d)]
             b == Extended(a, x)
             u == [d EXCEPT ![Len(d)] = b]
  <2>1. d # <<>> /\ x[1] <= a[2] /\ Grow(d, x) = u
    BY <1>8 DEF Touches, Grow, Last
  <2>2. a \in Segment /\ Len(d) \in 1 .. Len(d)
    BY <1>0, <2>1
  <2>3. ~Before(x, a) /\ \A j \in i + 1 .. Len(s) : ~Before(s[j], a)
    BY <1>3, <2>1
  <2>u. u = [d EXCEPT ![Len(d)] = b] /\ a = d[Len(d)]
    OBVIOUS
  <2> HIDE DEF a, u
  <2>4. \A F \in SUBSET Segment :
           /\ b \in Segment /\ b[1] = a[1] /\ b[1] <= b[2] /\ a[2] <= b[2]
           /\ SameAnswers(F \cup {b}, F \cup {a, x}) /\ Within(F \cup {b}, F \cup {a, x})
    BY <1>0, <2>1, <2>2, <2>3, MergePair
  <2>5. b \in Segment /\ b[1] = a[1] /\ b[1] <= b[2] /\ a[2] <= b[2]
    BY <2>4
  <2>b. b[2] = IF x[2] > a[2] THEN x[2] ELSE a[2]
    BY DEF Extended
  <2> HIDE DEF b
  <2>6. /\ u \in Seq(Segment) /\ Len(u) = Len(d) /\ Len(d) \in Nat \ {0}
        /\ \A k \in 1 .. Len(d) : u[k] = IF k = Len(d) THEN b ELSE d[k]
        /\ \E F \in SUBSET Segment : Live(d) = F \cup {a} /\ Live(u) = F \cup {b}
    <3>1. d \in Seq(Segment) /\ d # <<>> /\ b \in Segment
      BY <1>0, <2>1, <2>5
    <3>2. LastReplaced(d, b, u) /\ d[Len(d)] = a
      BY <2>u DEF LastReplaced
    <3>3. /\ u \in Seq(Segment) /\ Len(u) = Len(d) /\ Len(d) \in Nat \ {0}
          /\ \A k \in 1 .. Len(d) : u[k] = IF k = Len(d) THEN b ELSE d[k]
          /\ OneReplaced(Live(d), a, b, Live(u))
      BY <3>1, <3>2, LiveLast
    <3> QED BY <3>3 DEF OneReplaced
  <2>7. PICK F \in SUBSET Segment : Live(d) = F \cup {a} /\ Live(u) = F \cup {b}
    BY <2>6
  <2>8. Live(d) \cup {x} = F \cup {a, x} /\ Live(u) \in SUBSET Segment
    BY <2>5, <2>7
  <2>9. SameAnswers(Live(u), P \cup {x}) /\ Within(Live(u), P \cup {x})
    <3>1. SameAnswers(Live(u), Live(d) \cup {x}) /\ Within(Live(u), Live(d) \cup {x})
      BY <2>4, <2>7, <2>8
    <3>2. Live(d) \cup {x} \in SUBSET Segment /\ P \cup {x} \in SUBSET Segment
      BY <1>0, <1>1, <2>2, <2>8 DEF x
    <3> QED BY <1>6, <2>8, <3>1, <3>2, SameTrans, WithinTrans
  <2>10. /\ a[1] \in Nat /\ a[2] \in Nat /\ b[1] \in Nat /\ b[2] \in Nat
    BY <2>2, <2>5, SegmentParts
  <2>11. Separated(u)
    <3> SUFFICES ASSUME NEW k \in 1 .. Len(d) - 1 PROVE u[k][2] < u[k + 1][1] /\ ~Before(u[k + 1], u[k])
      BY <2>6 DEF Separated
    <3>1. k \in 1 .. Len(d) /\ k + 1 \in 1 .. Len(d) /\ k # Len(d)
      BY <1>0
    <3>2. u[k] = d[k] /\ u[k + 1] = (IF k + 1 = Len(d) THEN b ELSE d[k + 1]) /\ d[k] \in Segment
      BY <1>0, <2>6, <3>1
    <3>3. d[k][2] < d[k + 1][1] /\ ~Before(d[k + 1], d[k])
      BY <1>4 DEF Separated
    <3>4. CASE k + 1 = Len(d)
      <4>1. d[k + 1] = a /\ d[k][1] \in Nat /\ d[k][2] \in Nat
        BY <3>2, <3>4, SegmentParts DEF a
      <4>2. ~Before(b, d[k])
        BY <2>5, <2>10, <3>3, <4>1 DEF Before
      <4> QED BY <2>5, <3>2, <3>3, <3>4, <4>1, <4>2
    <3>5. CASE k + 1 # Len(d)
      BY <3>2, <3>3, <3>5
    <3> QED BY <3>4, <3>5
  <2>12. ASSUME NEW j \in i + 1 .. Len(s) PROVE ~Before(s[j], b)
    <3>1. s[j][1] \in Nat /\ s[j][2] \in Nat
      BY <1>2, SegmentParts
    <3>2. ~Before(s[j], a) /\ ~Before(s[j], x) /\ ~Before(x, a)
      BY <1>2, <2>3
    <3> QED BY <1>5, <2>5, <2>b, <2>10, <3>1, <3>2 DEF Before
  <2>13. \A y \in Live(u) : Reversed(y) => y \in P \cup {x}
    <3>1. ~Reversed(b)
      BY <2>5, <2>10 DEF Reversed
    <3> QED BY <1>4, <2>7, <3>1
  <2>14. u[Len(u)] = b /\ u # <<>> /\ Len(u) <= i
    BY <1>0, <2>2, <2>6
  <2> QED BY <1>0, <1>1, <2>1, <2>6, <2>9, <2>11, <2>12, <2>13, <2>14 DEF Merged, x
<1> QED BY <1>7, <1>8 DEF x

\* What the merge makes of a sorted array.
LEMMA RemoveMerges ==
  ASSUME NEW s \in Seq(Segment), \A i, j \in 1 .. Len(s) : i < j => ~Before(s[j], s[i])
  PROVE  Merged(RemoveOverlapping(s), s, Len(s)) /\ Prefix(s, Len(s)) = Live(s)
<1>1. Len(s) \in Nat
  OBVIOUS
<1>2. PICK f : /\ f[0] = <<>> /\ RemoveOverlapping(s) = f[Len(s)]
               /\ \A i \in 1 .. Len(s) : f[i] = Grow(f[i - 1], s[i])
  BY <1>1, GrownStep
<1> DEFINE T == {m \in Nat : m <= Len(s) => Merged(f[m], s, m)}
<1>3. 0 \in T
  <2>1. Live(<<>>) = {} /\ Prefix(s, 0) = {} /\ Separated(<<>>)
    BY DEF Live, Prefix, Separated
  <2>2. SameAnswers({}, {}) /\ Within({}, {})
    BY SameNone
  <2>3. <<>> \in Seq(Segment) /\ Len(<<>>) = 0
    OBVIOUS
  <2>4. Merged(<<>>, s, 0)
    <3>1. SameAnswers(Live(<<>>), Prefix(s, 0)) /\ Within(Live(<<>>), Prefix(s, 0))
      BY <2>1, <2>2
    <3>2. \A x \in Live(<<>>) : Reversed(x) => x \in Prefix(s, 0)
      BY <2>1
    <3>3. Len(<<>>) <= 0
      BY <2>3
    <3> QED BY <2>1, <2>3, <3>1, <3>2, <3>3, Zenon DEF Merged
  <2> QED BY <1>2, <2>4
<1>4. ASSUME NEW m \in Nat, m \in T PROVE m + 1 \in T
  <2> SUFFICES ASSUME m + 1 <= Len(s) PROVE Merged(f[m + 1], s, m + 1)
    OBVIOUS
  <2>1. Merged(f[m], s, m) /\ m + 1 \in 1 .. Len(s) /\ m + 1 - 1 = m
    BY <1>1, <1>4
  <2>2. f[m + 1] = Grow(f[m], s[m + 1])
    BY <1>2, <2>1
  <2> QED BY <2>1, <2>2, MergedStep
<1> HIDE DEF T
<1>5. Len(s) \in T
  BY <1>1, <1>3, <1>4, Induct
<1>6. Merged(f[Len(s)], s, Len(s))
  BY <1>1, <1>5 DEF T
<1> QED BY <1>2, <1>6 DEF Prefix, Live

-----------------------------------------------------------------------------
(* lrcu_rangetree_squeeze.                                                 *)

\* The loop picks a pair of neighbours, the first one only when there is no
\* other.
LEMMA SqueezeIndexIs ==
  ASSUME NEW s \in Seq(Segment), Len(s) >= 2, Separated(s)
  PROVE  SqueezeIndex(s) \in 1 .. Len(s) - 1
<1> DEFINE n == Len(s)
           K == 2 .. n - 1
<1>0. n \in Nat /\ n >= 2 /\ \A i \in 1 .. n : s[i] \in Segment
  OBVIOUS
<1>1. CASE n = 2
  BY <1>1 DEF SqueezeIndex
<1>2. CASE n # 2
  <2> DEFINE g == [i \in K |-> Gap(s, i)]
             A == {g[i] : i \in K}
  <2>1. ASSUME NEW i \in K PROVE g[i] \in Nat /\ g[i] = Gap(s, i) /\ i \in Nat /\ i <= n
    <3>1. i \in 1 .. n - 1 /\ i \in 1 .. n /\ i + 1 \in 1 .. n
      BY <1>0
    <3>2. s[i][2] \in Nat /\ s[i + 1][1] \in Nat
      BY <1>0, <3>1, SegmentParts
    <3>3. s[i][2] < s[i + 1][1]
      BY <3>1 DEF Separated
    <3>4. Gap(s, i) \in Nat
      BY <3>2, <3>3 DEF Gap
    <3> QED BY <1>0, <3>1, <3>4
  <2>2. 2 \in K
    <3> HIDE DEF n
    <3>1. n \in Nat /\ n >= 2 /\ n # 2
      BY <1>0, <1>2
    <3> QED BY <3>1
  <2> HIDE DEF g
  <2>3. PICK a \in A : \A b \in A : a <= b
    <3>1. A \in SUBSET Nat /\ A # {}
      BY <2>1, <2>2
    <3> HIDE DEF A
    <3> QED BY <3>1, LeastElement
  <2> DEFINE B == {n - i : i \in {j \in K : g[j] = a}}
  <2>4. PICK b \in B : \A c \in B : b <= c
    <3>1. B \in SUBSET Nat /\ B # {}
      BY <1>0, <2>1
    <3> HIDE DEF B
    <3> QED BY <3>1, LeastElement
  <2>5. PICK m \in K : g[m] = a /\ b = n - m
    OBVIOUS
  <2>6. ASSUME NEW j \in K
        PROVE  IF j > m THEN Gap(s, m) < Gap(s, j) ELSE Gap(s, m) <= Gap(s, j)
    <3>1. g[m] <= g[j] /\ (g[j] = g[m] => n - m <= n - j)
      BY <2>3, <2>4, <2>5
    <3>2. /\ g[m] \in Nat /\ g[j] \in Nat /\ m \in Nat /\ j \in Nat
          /\ g[m] = Gap(s, m) /\ g[j] = Gap(s, j)
      BY <2>1
    <3> HIDE DEF A, B, K
    <3> QED BY <1>0, <3>1, <3>2
  <2>7. \E i \in K : \A j \in K : IF j > i THEN Gap(s, i) < Gap(s, j)
                                           ELSE Gap(s, i) <= Gap(s, j)
    BY <2>6
  <2>8. SqueezeIndex(s) = CHOOSE i \in K : \A j \in K : IF j > i THEN Gap(s, i) < Gap(s, j)
                                                                ELSE Gap(s, i) <= Gap(s, j)
    BY <1>2 DEF SqueezeIndex
  <2>9. SqueezeIndex(s) \in K
    <3> HIDE DEF K
    <3> QED BY <2>7, <2>8
  <2> QED BY <1>0, <2>9
<1> QED BY <1>1, <1>2

\* The pair at i becomes one segment, the others stay.
LEMMA SqueezedIs ==
  ASSUME NEW s \in Seq(Segment), Len(s) >= 2, Separated(s),
         NEW i, i = SqueezeIndex(s), NEW q, q = Squeeze(s)
  PROVE  /\ i \in 1 .. Len(s) - 1 /\ Len(s) \in Nat
         /\ q \in Seq(Segment) /\ Len(q) = Len(s) - 1
         /\ \A k \in 1 .. Len(s) - 1 :
                q[k] = IF k < i THEN s[k]
                       ELSE IF k = i THEN <<s[i][1], s[i + 1][2]>> ELSE s[k + 1]
<1> DEFINE n == Len(s)
           x == <<s[i][1], s[i + 1][2]>>
           a == SubSeq(s, 1, i - 1)
           c == SubSeq(s, i + 2, n)
<1>1. i \in 1 .. n - 1 /\ n \in Nat /\ i \in Nat /\ \A k \in 1 .. n : s[k] \in Segment
  BY SqueezeIndexIs
<1>2. x \in Segment
  <2>1. s[i] \in Segment /\ s[i + 1] \in Segment
    BY <1>1
  <2> QED BY <2>1, SegmentParts DEF Segment
<1>3. q = a \o <<x>> \o c
  BY DEF Squeeze
<1>4. a \in Seq(Segment) /\ Len(a) = i - 1 /\ \A k \in 1 .. i - 1 : a[k] = s[k]
  <2> HIDE DEF x, c
  <2> QED BY <1>1
<1>5. c \in Seq(Segment) /\ Len(c) = n - i - 1 /\ \A k \in 1 .. n - i - 1 : c[k] = s[k + i + 1]
  <2> HIDE DEF x, a
  <2>1. i + 2 \in 1 .. n + 1
    BY <1>1
  <2>2. CASE i + 2 <= n
    BY <1>1, <2>2
  <2>3. CASE i + 2 = n + 1
    BY <1>1, <2>3
  <2> QED BY <1>1, <2>2, <2>3
<1> HIDE DEF a, c, x
<1> DEFINE b == a \o <<x>>
<1>6. /\ b \in Seq(Segment) /\ Len(b) = i
      /\ \A k \in 1 .. i : b[k] = IF k < i THEN s[k] ELSE x
  BY <1>1, <1>2, <1>4
<1>7. q = b \o c
  BY <1>3
<1> HIDE DEF b
<1>8. /\ q \in Seq(Segment) /\ Len(q) = n - 1
      /\ \A k \in 1 .. n - 1 : q[k] = IF k <= i THEN b[k] ELSE c[k - i]
  <2>1. /\ b \o c \in Seq(Segment) /\ Len(b \o c) = Len(b) + Len(c)
        /\ \A k \in 1 .. Len(b) + Len(c) : (b \o c)[k] = IF k <= Len(b) THEN b[k] ELSE c[k - Len(b)]
    BY <1>5, <1>6
  <2>2. Len(b) = i /\ Len(b) + Len(c) = n - 1
    BY <1>1, <1>5, <1>6
  <2> QED BY <1>7, <2>1, <2>2
<1>9. ASSUME NEW k \in 1 .. n - 1
      PROVE  q[k] = IF k < i THEN s[k] ELSE IF k = i THEN x ELSE s[k + 1]
  <2>1. CASE k <= i
    BY <1>1, <1>6, <1>8, <2>1
  <2>2. CASE k > i
    <3>1. k - i \in 1 .. n - i - 1 /\ k - i + i + 1 = k + 1 /\ k \in Nat
      BY <1>1, <2>2
    <3>2. q[k] = c[k - i]
      BY <1>1, <1>8, <2>2
    <3>3. c[k - i] = s[k - i + i + 1]
      BY <1>5, <3>1
    <3>4. ~(k < i) /\ k # i
      BY <1>1, <2>2
    <3> QED BY <3>1, <3>2, <3>3, <3>4
  <2> QED BY <1>1, <2>1, <2>2
<1> QED BY <1>1, <1>8, <1>9 DEF x

\* Squeezing loses no version up to the one every reversed segment ends at.
LEMMA SqueezeKeeps ==
  ASSUME NEW s \in Seq(Segment), Len(s) >= 2, Separated(s),
         NEW m \in Nat, \A x \in Live(s) : Reversed(x) => x[2] = m,
         NEW q, q = Squeeze(s)
  PROVE  /\ q \in Seq(Segment) /\ Len(q) = Len(s) - 1
         /\ Within(Live(q), Live(s))
         /\ \A x \in Live(q) : Reversed(x) => x[2] = m
         /\ \A v \in 0 .. m : CoversAny(Live(s), v) => CoversAny(Live(q), v)
<1> DEFINE n == Len(s)
<1>1. PICK i : i = SqueezeIndex(s)
  OBVIOUS
<1>2. /\ i \in 1 .. n - 1 /\ n \in Nat /\ q \in Seq(Segment) /\ Len(q) = n - 1
      /\ \A k \in 1 .. n - 1 :
             q[k] = IF k < i THEN s[k] ELSE IF k = i THEN <<s[i][1], s[i + 1][2]>> ELSE s[k + 1]
  BY <1>1, SqueezedIs
<1> HIDE DEF n
<1> DEFINE a == s[i]
           b == s[i + 1]
           x == <<a[1], b[2]>>
<1>3. /\ i \in Nat /\ i \in 1 .. n /\ i + 1 \in 1 .. n
      /\ \A k \in 1 .. n - 1 : k \in 1 .. n /\ k + 1 \in 1 .. n /\ k \in Nat
      /\ \A k \in 1 .. n : k \in Nat /\ (k < i => k \in 1 .. n - 1)
                           /\ (k > i + 1 => k - 1 \in 1 .. n - 1 /\ ~(k - 1 < i) /\ k - 1 # i /\ k - 1 + 1 = k)
                           /\ (k < i \/ k = i \/ k = i + 1 \/ k > i + 1)
  BY <1>2
<1>4. \A k \in 1 .. n : s[k] \in Segment /\ s[k] \in Live(s)
  BY DEF n, Live
<1>5. a \in Segment /\ b \in Segment /\ a \in Live(s) /\ b \in Live(s)
  BY <1>3, <1>4
<1>6. /\ a[1] \in Nat /\ a[2] \in Nat /\ b[1] \in Nat /\ b[2] \in Nat
      /\ a[2] < b[1] /\ a[1] <= b[1]
  <2>1. a[2] < b[1] /\ ~Before(b, a)
    BY <1>2 DEF Separated, n
  <2> QED BY <1>5, <2>1, SegmentParts, BeforeIsOrder
<1>7. q[i] = x /\ x[1] = a[1] /\ x[2] = b[2]
  BY <1>2, <1>3
<1>8. \A k \in 1 .. n : /\ k < i => q[k] = s[k]
                        /\ k > i + 1 => q[k - 1] = s[k]
  BY <1>2, <1>3
<1>9. Live(q) = {q[k] : k \in 1 .. n - 1} /\ Live(s) = {s[k] : k \in 1 .. n}
  BY <1>2 DEF Live, n
<1>10. \A y \in Live(q) : y \in Live(s) \/ y = x
  <2>1. ASSUME NEW k \in 1 .. n - 1 PROVE q[k] \in Live(s) \/ q[k] = x
    BY <1>2, <1>3, <1>4
  <2> QED BY <1>9, <2>1
<1> HIDE DEF x
<1>11. x \in Live(q)
  BY <1>2, <1>7, <1>9
<1>12. \A y \in Live(s) : y \in Live(q) \/ y = a \/ y = b
  <2>1. ASSUME NEW k \in 1 .. n PROVE s[k] \in Live(q) \/ s[k] = a \/ s[k] = b
    <3>1. CASE k < i
      BY <1>3, <1>8, <1>9, <3>1
    <3>2. CASE k > i + 1
      <4>1. k - 1 \in 1 .. n - 1 /\ q[k - 1] = s[k]
        BY <1>3, <1>8, <3>2
      <4> QED BY <1>9, <4>1
    <3> QED BY <1>3, <3>1, <3>2
  <2> QED BY <1>9, <2>1
<1>13. \A y \in Live(s) : y \in Segment
  BY <1>4, <1>9
<1> HIDE DEF a, b
<1>14. Within(Live(q), Live(s))
  <2>1. ASSUME NEW y \in Live(q)
        PROVE  (\E z \in Live(s) : z[1] = y[1]) /\ (\E z \in Live(s) : z[2] = y[2])
    BY <1>5, <1>7, <1>10
  <2>2. ASSUME NEW y \in Live(s) PROVE \E z \in Live(q) : z[1] <= y[1]
    <3>1. y[1] \in Nat
      BY <1>13, SegmentParts
    <3>2. CASE y \in Live(q)
      BY <3>1, <3>2
    <3>3. CASE y = a \/ y = b
      <4>1. x[1] <= y[1]
        BY <1>6, <1>7, <3>3
      <4> QED BY <1>11, <4>1
    <3> QED BY <1>12, <3>2, <3>3
  <2> QED BY <2>1, <2>2 DEF Within
<1>15. (Reversed(a) => a[2] = m) /\ (Reversed(b) => b[2] = m)
  BY <1>5
<1>16. Reversed(x) => x[2] = m
  BY <1>6, <1>7, <1>15 DEF Reversed
<1>17. ASSUME NEW v \in 0 .. m, Covers(a, v) \/ Covers(b, v) PROVE Covers(x, v)
  BY <1>6, <1>7, <1>15, <1>17 DEF Reversed, Covers
<1>18. \A v \in 0 .. m : CoversAny(Live(s), v) => CoversAny(Live(q), v)
  BY <1>11, <1>12, <1>17 DEF CoversAny
<1> QED BY <1>2, <1>10, <1>14, <1>16, <1>18 DEF n

-----------------------------------------------------------------------------
(* bintree_range_search.                                                   *)

\* A recursion over W that returns val[w] at the w of stop, and goes on with
\* nx[w] from the others; and one whose argument shrinks.
Recursion(W, stop, val, nx) ==
    \E f : \A w \in W : f[w] = IF w \in stop THEN val[w] ELSE f[nx[w]]
Shrinks(W, stop, nx, size, m) ==
    /\ \A w \in W : size[w] \in Nat /\ size[w] < m
    /\ \A w \in W : w \notin stop => nx[w] \in W /\ size[nx[w]] < size[w]

\* A recursion whose argument shrinks defines a function.
LEMMA ShrinkingRecursion ==
  ASSUME NEW W, NEW stop, NEW val, NEW nx, NEW size, NEW m \in Nat,
         Shrinks(W, stop, nx, size, m)
  PROVE  Recursion(W, stop, val, nx)
<1> USE DEF Shrinks
<1> DEFINE Good(f, w) == f[w] = IF w \in stop THEN val[w] ELSE f[nx[w]]
           T == {k \in Nat : \E f : f = [w \in W |-> f[w]] /\ \A w \in W : size[w] < k => Good(f, w)}
<1>1. 0 \in T
  <2> DEFINE f == [w \in W |-> 0]
  <2>1. f = [w \in W |-> f[w]] /\ \A w \in W : ~(size[w] < 0)
    OBVIOUS
  <2> HIDE DEF f, Good
  <2> QED BY <2>1
<1>2. ASSUME NEW k \in Nat, k \in T PROVE k + 1 \in T
  <2>1. PICK f : \A w \in W : size[w] < k => Good(f, w)
    BY <1>2
  <2> DEFINE g == [w \in W |-> IF w \in stop THEN val[w] ELSE f[nx[w]]]
  <2>2. \A w \in W : g[w] = IF w \in stop THEN val[w] ELSE f[nx[w]]
    OBVIOUS
  <2>3. g = [w \in W |-> g[w]]
    OBVIOUS
  <2> HIDE DEF g
  <2>4. ASSUME NEW w \in W, size[w] < k + 1 PROVE Good(g, w)
    <3>1. CASE w \in stop
      BY <2>2, <3>1
    <3>2. CASE w \notin stop
      <4>1. nx[w] \in W /\ size[nx[w]] < size[w]
        BY <3>2
      <4>2. size[nx[w]] < k
        <5>1. size[nx[w]] \in Nat /\ size[w] \in Nat
          BY <4>1
        <5> QED BY <2>4, <4>1, <5>1
      <4>3. f[nx[w]] = g[nx[w]]
        BY <2>1, <2>2, <4>1, <4>2
      <4> QED BY <2>2, <3>2, <4>3
    <3> QED BY <3>1, <3>2
  <2> HIDE DEF Good
  <2> QED BY <2>3, <2>4
<1> HIDE DEF T
<1>3. m \in T
  BY <1>1, <1>2, Induct
<1>4. PICK f : f = [w \in W |-> f[w]] /\ \A w \in W : size[w] < m => Good(f, w)
  BY <1>3 DEF T
<1>5. \A w \in W : f[w] = IF w \in stop THEN val[w] ELSE f[nx[w]]
  BY <1>4
<1> QED BY <1>5 DEF Recursion

\* What bintree_range_search looks at: a pair of low and high.
Window(n) == (0 .. n) \X (-1 .. n - 1)

\* The loop of bintree_range_search, as the recursion of the model.
IsFind(f, v) ==
    f = [w \in (0 .. Len(r)) \X (-1 .. Len(r) - 1) |->
            LET mid == Middle(w[1], w[2])
                next == Narrowed(v, w[1], w[2])
            IN IF Covers(Slot(mid), v) THEN mid
               ELSE IF next[1] <= next[2] THEN f[next] ELSE -1]

\* The loop only goes on in a smaller window of the array.
LEMMA NarrowedShrinks ==
  ASSUME NEW n \in Nat, NEW w \in Window(n), NEW v,
         NEW next, next = Narrowed(v, w[1], w[2]),
         NEW mid, mid = Middle(w[1], w[2])
  PROVE  /\ next = <<next[1], next[2]>>
         /\ w[1] <= w[2] => w[1] <= mid /\ mid <= w[2] /\ mid \in 0 .. n - 1
         /\ next[1] <= next[2] => w[1] <= w[2] /\ next \in Window(n) /\ next[2] - next[1] < w[2] - w[1]
         /\ next = IF Slot(mid)[1] > v THEN <<w[1], mid - 1>> ELSE <<mid + 1, w[2]>>
<1>1. PICK low \in 0 .. n, high \in -1 .. n - 1 : w = <<low, high>>
  BY DEF Window
<1>2. w[1] = low /\ w[2] = high /\ low \in Int /\ high \in Int /\ low >= 0 /\ high >= -1 /\ high < n /\ low <= n
  BY <1>1
<1>3. mid = IF high = -1 THEN 0 ELSE (low + high) \div 2
  BY <1>2 DEF Middle
<1>4. mid \in Int /\ mid >= 0 /\ (low <= high => low <= mid /\ mid <= high)
      /\ (low > high => mid <= low /\ mid >= high)
  BY <1>2, <1>3
<1>5. next = IF Slot(mid)[1] > v THEN <<low, mid - 1>> ELSE <<mid + 1, high>>
  BY <1>2 DEF Narrowed
<1> DEFINE up == Slot(mid)[1] > v
<1>6. next[1] = (IF up THEN low ELSE mid + 1) /\ next[2] = IF up THEN mid - 1 ELSE high
  BY <1>5
<1> HIDE DEF up
<1>7. next[1] <= next[2] => /\ low <= high /\ next[1] \in 0 .. n /\ next[2] \in -1 .. n - 1
                            /\ next[2] - next[1] < high - low
  BY <1>2, <1>4, <1>6
<1>8. next = <<next[1], next[2]>>
  BY <1>5
<1>9. w[1] <= w[2] => mid \in 0 .. n - 1
  BY <1>2, <1>4
<1> QED BY <1>2, <1>4, <1>5, <1>7, <1>8, <1>9 DEF Window

\* The recursion defines a function.
LEMMA FindExists ==
  ASSUME r \in Seq(Segment), NEW v
  PROVE  \E f : IsFind(f, v)
<1> DEFINE n == Len(r)
           W == Window(n)
           mid(w) == Middle(w[1], w[2])
           next(w) == Narrowed(v, w[1], w[2])
<1>1. n \in Nat
  OBVIOUS
<1> HIDE DEF n
<1>2. ASSUME NEW w \in W PROVE w[1] \in Int /\ w[2] \in Int /\ w[1] >= 0 /\ w[2] < n
  BY <1>1 DEF Window
<1>3. PICK size : /\ size = [w \in W |-> size[w]]
                  /\ \A w \in W : size[w] = IF w[1] <= w[2] THEN w[2] - w[1] + 1 ELSE 0
  <2> DEFINE sz == [w \in W |-> IF w[1] <= w[2] THEN w[2] - w[1] + 1 ELSE 0]
  <2>1. /\ sz = [w \in W |-> sz[w]]
        /\ \A w \in W : sz[w] = IF w[1] <= w[2] THEN w[2] - w[1] + 1 ELSE 0
    OBVIOUS
  <2> HIDE DEF sz
  <2> QED BY <2>1
<1>4. PICK stop : \A w \in W : w \in stop <=> Covers(Slot(mid(w)), v) \/ ~(next(w)[1] <= next(w)[2])
  <2> DEFINE st == {w \in W : Covers(Slot(mid(w)), v) \/ ~(next(w)[1] <= next(w)[2])}
  <2>1. \A w \in W : w \in st <=> Covers(Slot(mid(w)), v) \/ ~(next(w)[1] <= next(w)[2])
    OBVIOUS
  <2> HIDE DEF st
  <2> QED BY <2>1
<1>5. PICK val, nx : \A w \in W : /\ val[w] = IF Covers(Slot(mid(w)), v) THEN mid(w) ELSE -1
                                  /\ nx[w] = next(w)
  <2> DEFINE va == [w \in W |-> IF Covers(Slot(mid(w)), v) THEN mid(w) ELSE -1]
             go == [w \in W |-> next(w)]
  <2>1. \A w \in W : /\ va[w] = IF Covers(Slot(mid(w)), v) THEN mid(w) ELSE -1
                     /\ go[w] = next(w)
    OBVIOUS
  <2> HIDE DEF va, go, mid, next
  <2> QED BY <2>1
<1>6. \A w \in W : size[w] \in Nat /\ size[w] < n + 1
  <2> HIDE DEF W
  <2> QED BY <1>1, <1>2, <1>3
<1>8. ASSUME NEW w \in W, w \notin stop PROVE nx[w] \in W /\ size[nx[w]] < size[w]
  <2> DEFINE x == Narrowed(v, w[1], w[2])
  <2>1. nx[w] = x /\ x[1] <= x[2]
    BY <1>4, <1>5, <1>8
  <2>2. x[1] <= x[2] => w[1] <= w[2] /\ x \in W /\ x[2] - x[1] < w[2] - w[1]
    BY <1>1, NarrowedShrinks
  <2> HIDE DEF x
  <2>3. x \in W /\ w[1] <= w[2] /\ x[2] - x[1] < w[2] - w[1]
    BY <2>1, <2>2
  <2>4. size[x] = x[2] - x[1] + 1 /\ size[w] = w[2] - w[1] + 1
    BY <1>3, <2>1, <2>3
  <2>5. x[1] \in Int /\ x[2] \in Int /\ w[1] \in Int /\ w[2] \in Int
    BY <1>2, <2>3
  <2> HIDE DEF W
  <2>6. size[x] < size[w]
    BY <2>3, <2>4, <2>5
  <2> QED BY <2>1, <2>3, <2>6
<1>9. PICK h : \A w \in W : h[w] = IF w \in stop THEN val[w] ELSE h[nx[w]]
  <2>1. n + 1 \in Nat
    BY <1>1
  <2>2. Shrinks(W, stop, nx, size, n + 1)
    BY <1>6, <1>8 DEF Shrinks
  <2>3. Recursion(W, stop, val, nx)
    BY <2>1, <2>2, ShrinkingRecursion
  <2> QED BY <2>3 DEF Recursion
<1> DEFINE f == [w \in W |-> h[w]]
           g == [w \in W |-> IF Covers(Slot(mid(w)), v) THEN mid(w)
                            ELSE IF next(w)[1] <= next(w)[2] THEN f[next(w)] ELSE -1]
<1>10. ASSUME NEW w \in W
       PROVE  h[w] = IF Covers(Slot(mid(w)), v) THEN mid(w)
                     ELSE IF next(w)[1] <= next(w)[2] THEN f[next(w)] ELSE -1
  <2>1. h[w] = IF Covers(Slot(mid(w)), v) THEN mid(w)
               ELSE IF next(w)[1] <= next(w)[2] THEN h[next(w)] ELSE -1
    BY <1>4, <1>5, <1>9, Zenon
  <2>2. ~Covers(Slot(mid(w)), v) /\ next(w)[1] <= next(w)[2] => next(w) \in W
    BY <1>4, <1>5, <1>8, Zenon
  <2>3. next(w) \in W => f[next(w)] = h[next(w)]
    BY Zenon
  <2> QED BY <2>1, <2>2, <2>3, Zenon
<1>11. f = g
  BY <1>10, Zenon
<1>12. IsFind(f, v)
  <2> HIDE DEF f
  <2> QED BY <1>11, Zenon DEF IsFind, Window, n
<1> HIDE DEF f
<1> QED BY <1>12

\* Of two segments, the first one ends before the second one starts.
LEMMA SeparatedApart ==
  ASSUME NEW s \in Seq(Segment), Separated(s),
         NEW i \in 1 .. Len(s), NEW j \in 1 .. Len(s), i < j
  PROVE  s[i][2] < s[j][1] /\ s[i][1] <= s[j][1]
<1> DEFINE n == Len(s)
           start == [k \in 1 .. n |-> s[k][1]]
           T == {k \in Nat : \A l \in 1 .. n : l + k \in 1 .. n => start[l] <= start[l + k]}
<1>1. n \in Nat /\ \A k \in 1 .. n : s[k] \in Segment
  OBVIOUS
<1>2. \A k \in 1 .. n : start[k] = s[k][1] /\ start[k] \in Nat /\ s[k][2] \in Nat
  BY <1>1, SegmentParts
<1>3. ASSUME NEW k \in 1 .. n - 1 PROVE s[k][2] < start[k + 1] /\ start[k] <= start[k + 1]
  <2>1. k \in 1 .. n /\ k + 1 \in 1 .. n
    BY <1>1
  <2>2. s[k][2] < s[k + 1][1] /\ ~Before(s[k + 1], s[k])
    BY DEF Separated
  <2>3. s[k][1] <= s[k + 1][1]
    BY <1>1, <2>1, <2>2, BeforeIsOrder
  <2> QED BY <1>2, <2>1, <2>2, <2>3
<1> HIDE DEF n, start
<1>4. 0 \in T
  BY <1>1, <1>2
<1>5. ASSUME NEW k \in Nat, k \in T PROVE k + 1 \in T
  <2> SUFFICES ASSUME NEW l \in 1 .. n, l + (k + 1) \in 1 .. n PROVE start[l] <= start[l + (k + 1)]
    OBVIOUS
  <2>1. l + k \in 1 .. n /\ l + k \in 1 .. n - 1 /\ l + k + 1 = l + (k + 1)
    BY <1>1
  <2>2. start[l] <= start[l + k] /\ start[l + k] <= start[l + k + 1]
    BY <1>3, <1>5, <2>1
  <2>3. start[l] \in Nat /\ start[l + k] \in Nat /\ start[l + (k + 1)] \in Nat
    BY <1>2, <2>1
  <2> QED BY <2>1, <2>2, <2>3
<1> HIDE DEF T
<1>6. Nat \subseteq T
  BY <1>4, <1>5, Induct
<1>7. \A l, m \in 1 .. n : l <= m => start[l] <= start[m]
  <2> SUFFICES ASSUME NEW l \in 1 .. n, NEW m \in 1 .. n, l <= m PROVE start[l] <= start[m]
    OBVIOUS
  <2>1. m - l \in Nat /\ l + (m - l) = m
    BY <1>1
  <2> QED BY <1>6, <2>1 DEF T
<1>8. i \in 1 .. n /\ j \in 1 .. n
  BY DEF n
<1>9. i \in 1 .. n - 1 /\ i + 1 \in 1 .. n /\ i + 1 <= j /\ i <= j
  BY <1>1, <1>8
<1>10. s[i][2] < start[i + 1] /\ start[i + 1] <= start[j] /\ start[i] <= start[j]
  BY <1>3, <1>7, <1>8, <1>9
<1>11. s[i][2] \in Nat /\ start[i + 1] \in Nat /\ start[j] \in Nat
  BY <1>2, <1>8, <1>9
<1>12. start[i] = s[i][1] /\ start[j] = s[j][1]
  BY <1>2, <1>8
<1> QED BY <1>10, <1>11, <1>12

\* The window that is left has every slot of the last one that has v.
LEMMA NarrowedKeeps ==
  ASSUME r \in Seq(Segment), Separated(r), NEW n, n = Len(r), NEW v \in Nat,
         NEW mid \in 0 .. n - 1, ~Covers(Slot(mid), v), NEW i \in 0 .. n - 1, Covers(Slot(i), v)
  PROVE  IF Slot(mid)[1] > v THEN i < mid ELSE i > mid
<1>1. n \in Nat /\ r # <<>> /\ \A k \in 0 .. n - 1 : k + 1 \in 1 .. n /\ Slot(k) = r[k + 1] /\ Slot(k) \in Segment
  <2>1. n \in Nat
    OBVIOUS
  <2>2. r # <<>>
    BY <2>1
  <2>3. \A k \in 0 .. n - 1 : k + 1 \in 1 .. n
    BY <2>1
  <2>4. \A k \in 1 .. n : r[k] \in Segment
    OBVIOUS
  <2> QED BY <2>1, <2>2, <2>3, <2>4 DEF Slot
<1>2. \A k \in 0 .. n - 1 : Slot(k)[1] \in Nat /\ Slot(k)[2] \in Nat
  BY <1>1, SegmentParts
<1>3. \A k, l \in 0 .. n - 1 : k < l => Slot(k)[2] < Slot(l)[1] /\ Slot(k)[1] <= Slot(l)[1]
  <2> SUFFICES ASSUME NEW k \in 0 .. n - 1, NEW l \in 0 .. n - 1, k < l
               PROVE  Slot(k)[2] < Slot(l)[1] /\ Slot(k)[1] <= Slot(l)[1]
    OBVIOUS
  <2>1. k + 1 \in 1 .. Len(r) /\ l + 1 \in 1 .. Len(r) /\ k + 1 < l + 1
    BY <1>1
  <2>2. r[k + 1][2] < r[l + 1][1] /\ r[k + 1][1] <= r[l + 1][1]
    BY <2>1, SeparatedApart
  <2> QED BY <1>1, <2>2
<1>4. Slot(i)[1] <= v /\ v <= Slot(i)[2] /\ ~(Slot(mid)[1] <= v /\ v <= Slot(mid)[2]) /\ i # mid
  BY DEF Covers
<1>5. i < mid => Slot(i)[2] < Slot(mid)[1]
  BY <1>3
<1>6. mid < i => Slot(mid)[1] <= Slot(i)[1]
  BY <1>3
<1>7. /\ Slot(i)[1] \in Nat /\ Slot(i)[2] \in Nat /\ Slot(mid)[1] \in Nat /\ Slot(mid)[2] \in Nat
      /\ i \in Int /\ mid \in Int
  BY <1>2
<1> QED BY <1>4, <1>5, <1>6, <1>7

\* The search finds v exactly when a live segment covers it.
LEMMA SearchFinds ==
  ASSUME r \in Seq(Segment), Separated(r), r # <<>>, NEW v \in Nat
  PROVE  Find(v) <=> \E i \in 0 .. Len(r) - 1 : Covers(Slot(i), v)
<1> DEFINE n == Len(r)
           W == Window(n)
<1>1. n \in Nat /\ n > 0
  OBVIOUS
<1>2. PICK f : IsFind(f, v) /\ Search(v) = f[<<0, n - 1>>]
  <2> DEFINE find[w \in (0 .. Len(r)) \X (-1 .. Len(r) - 1)] ==
                 LET mid == Middle(w[1], w[2])
                     next == Narrowed(v, w[1], w[2])
                 IN IF Covers(Slot(mid), v) THEN mid
                    ELSE IF next[1] <= next[2] THEN find[next] ELSE -1
  <2>1. find = CHOOSE f : IsFind(f, v)
    BY Zenon DEF IsFind
  <2>2. IsFind(find, v)
    BY <2>1, FindExists, Zenon
  <2>3. Search(v) = find[<<0, n - 1>>]
    BY Zenon DEF Search
  <2> HIDE DEF find, n
  <2> QED BY <2>2, <2>3
<1> DEFINE Has(w) == \E i \in w[1] .. w[2] : Covers(Slot(i), v)
<1>3. ASSUME NEW w \in W
      PROVE  f[w] = LET mid == Middle(w[1], w[2])
                        next == Narrowed(v, w[1], w[2])
                    IN IF Covers(Slot(mid), v) THEN mid
                       ELSE IF next[1] <= next[2] THEN f[next] ELSE -1
  BY <1>2, Zenon DEF IsFind, Window
<1> HIDE DEF n
<1>4. ASSUME NEW w \in W PROVE w[1] \in Int /\ w[2] \in Int /\ w[1] >= 0 /\ w[2] < n
  BY <1>1 DEF Window
<1> DEFINE T == {k \in Nat : \A w \in W : w[1] <= w[2] /\ w[2] - w[1] < k => (f[w] # -1 <=> Has(w))}
<1>5. 0 \in T
  <2>1. \A w \in W : ~(w[1] <= w[2] /\ w[2] - w[1] < 0)
    BY <1>4
  <2> HIDE DEF Has, W
  <2> QED BY <2>1
<1>6. ASSUME NEW k \in Nat, k \in T PROVE k + 1 \in T
  <2> SUFFICES ASSUME NEW w \in W, w[1] <= w[2], w[2] - w[1] < k + 1 PROVE f[w] # -1 <=> Has(w)
    OBVIOUS
  <2>1. PICK mid, next : mid = Middle(w[1], w[2]) /\ next = Narrowed(v, w[1], w[2])
    OBVIOUS
  <2>2. f[w] = IF Covers(Slot(mid), v) THEN mid ELSE IF next[1] <= next[2] THEN f[next] ELSE -1
    BY <1>3, <2>1
  <2>3. /\ w[1] <= mid /\ mid <= w[2] /\ mid \in 0 .. n - 1
        /\ next[1] <= next[2] => next \in W /\ next[2] - next[1] < w[2] - w[1]
        /\ next = IF Slot(mid)[1] > v THEN <<w[1], mid - 1>> ELSE <<mid + 1, w[2]>>
    <3>1. w \in Window(n) /\ n \in Nat /\ w[1] <= w[2]
      BY <1>1
    <3> HIDE DEF W, T, Has
    <3>2. /\ w[1] <= w[2] => w[1] <= mid /\ mid <= w[2] /\ mid \in 0 .. n - 1
          /\ next[1] <= next[2] => w[1] <= w[2] /\ next \in Window(n) /\ next[2] - next[1] < w[2] - w[1]
          /\ next = IF Slot(mid)[1] > v THEN <<w[1], mid - 1>> ELSE <<mid + 1, w[2]>>
      <4> DEFINE x == Narrowed(v, w[1], w[2])
                 y == Middle(w[1], w[2])
      <4>1. /\ w[1] <= w[2] => w[1] <= y /\ y <= w[2] /\ y \in 0 .. n - 1
            /\ x[1] <= x[2] => w[1] <= w[2] /\ x \in Window(n) /\ x[2] - x[1] < w[2] - w[1]
            /\ x = IF Slot(y)[1] > v THEN <<w[1], y - 1>> ELSE <<y + 1, w[2]>>
        <5>1. w[1] <= w[2] => w[1] <= y /\ y <= w[2] /\ y \in 0 .. n - 1
          BY <3>1, NarrowedShrinks
        <5>2. x[1] <= x[2] => w[1] <= w[2] /\ x \in Window(n) /\ x[2] - x[1] < w[2] - w[1]
          BY <3>1, NarrowedShrinks
        <5>3. x = IF Slot(y)[1] > v THEN <<w[1], y - 1>> ELSE <<y + 1, w[2]>>
          BY Zenon DEF Narrowed
        <5> QED BY <5>1, <5>2, <5>3
      <4> QED BY <2>1, <4>1
    <3> QED BY <3>1, <3>2 DEF W
  <2>4. w[1] \in Int /\ w[2] \in Int /\ w[1] >= 0 /\ w[2] < n /\ mid \in Int
    BY <1>4, <2>3
  <2>5. CASE Covers(Slot(mid), v)
    <3>1. f[w] # -1
      BY <2>2, <2>3, <2>5
    <3>2. mid \in w[1] .. w[2]
      BY <2>3, <2>4
    <3> QED BY <2>5, <3>1, <3>2
  <2>6. CASE ~Covers(Slot(mid), v)
    <3>1. ASSUME NEW i \in w[1] .. w[2], Covers(Slot(i), v) PROVE i \in next[1] .. next[2]
      <4>1. i \in 0 .. n - 1
        BY <1>1, <2>4
      <4>2. IF Slot(mid)[1] > v THEN i < mid ELSE i > mid
        BY <2>3, <2>6, <3>1, <4>1, NarrowedKeeps DEF n
      <4>3. next[1] = (IF Slot(mid)[1] > v THEN w[1] ELSE mid + 1) /\ next[2] = IF Slot(mid)[1] > v THEN mid - 1 ELSE w[2]
        BY <2>3
      <4> QED BY <2>4, <4>2, <4>3
    <3>2. next[1] .. next[2] \subseteq w[1] .. w[2] /\ next[1] \in Int /\ next[2] \in Int
      <4>3. next[1] = (IF Slot(mid)[1] > v THEN w[1] ELSE mid + 1) /\ next[2] = IF Slot(mid)[1] > v THEN mid - 1 ELSE w[2]
        BY <2>3
      <4> QED BY <2>3, <2>4, <4>3
    <3>3. Has(w) <=> Has(next)
      BY <3>1, <3>2
    <3>4. CASE next[1] <= next[2]
      <4>1. next \in W /\ next[2] - next[1] < k
        <5>1. next \in W /\ next[2] - next[1] < w[2] - w[1]
          BY <2>3, <3>4
        <5> HIDE DEF W, T, Has
        <5> QED BY <2>4, <3>2, <5>1
      <4>2. f[next] # -1 <=> Has(next)
        BY <1>6, <3>4, <4>1
      <4> HIDE DEF Has
      <4> QED BY <2>2, <2>6, <3>3, <3>4, <4>2
    <3>5. CASE ~(next[1] <= next[2])
      <4>1. ~Has(next)
        BY <3>2, <3>5
      <4> HIDE DEF Has
      <4> QED BY <2>2, <2>6, <3>3, <3>5, <4>1
    <3> QED BY <3>4, <3>5
  <2> QED BY <2>5, <2>6
<1> HIDE DEF T
<1>7. n \in T
  BY <1>1, <1>5, <1>6, Induct
<1> DEFINE w == <<0, n - 1>>
<1>8. w \in W /\ w[1] = 0 /\ w[2] = n - 1 /\ w[1] <= w[2] /\ w[2] - w[1] < n
  BY <1>1 DEF Window
<1>9. f[w] # -1 <=> \E i \in 0 .. n - 1 : Covers(Slot(i), v)
  <2>1. f[w] # -1 <=> Has(w)
    <3> HIDE DEF w, Has, W
    <3> QED BY <1>7, <1>8 DEF T
  <2> QED BY <1>8, <2>1
<1> QED BY <1>2, <1>9 DEF Find, n

\* What lrcu_rangetree_find answers: an empty array has its stale r[0] looked
\* at, any other one answers for its segments.
LEMMA FindAnswers ==
  ASSUME r \in Seq(Segment), Separated(r), NEW v \in Nat
  PROVE  Find(v) <=> IF r = <<>> THEN Covers(slot0, v) ELSE CoversAny(Live(r), v)
<1>1. CASE r # <<>>
  <2>1. Find(v) <=> \E i \in 0 .. Len(r) - 1 : Covers(Slot(i), v)
    BY <1>1, SearchFinds
  <2>2. \A i \in 0 .. Len(r) - 1 : Slot(i) = r[i + 1] /\ i + 1 \in 1 .. Len(r)
    BY <1>1 DEF Slot
  <2>3. \A i \in 1 .. Len(r) : i - 1 \in 0 .. Len(r) - 1 /\ i - 1 + 1 = i
    OBVIOUS
  <2>4. (\E i \in 0 .. Len(r) - 1 : Covers(Slot(i), v)) <=> \E i \in 1 .. Len(r) : Covers(r[i], v)
    BY <2>2, <2>3
  <2>5. CoversAny(Live(r), v) <=> \E i \in 1 .. Len(r) : Covers(r[i], v)
    BY DEF CoversAny, Live
  <2> QED BY <1>1, <2>1, <2>4, <2>5
<1>2. CASE r = <<>>
  <2> DEFINE w == <<0, -1>>
             find[u \in (0 .. Len(r)) \X (-1 .. Len(r) - 1)] ==
                 LET mid == Middle(u[1], u[2])
                     next == Narrowed(v, u[1], u[2])
                 IN IF Covers(Slot(mid), v) THEN mid
                    ELSE IF next[1] <= next[2] THEN find[next] ELSE -1
  <2>1. find = CHOOSE f : IsFind(f, v)
    BY Zenon DEF IsFind
  <2>2. IsFind(find, v)
    BY <2>1, FindExists, Zenon
  <2>3. Search(v) = find[<<0, Len(r) - 1>>]
    BY Zenon DEF Search
  <2> HIDE DEF find
  <2>4. Len(r) = 0 /\ w \in (0 .. Len(r)) \X (-1 .. Len(r) - 1) /\ <<0, Len(r) - 1>> = w
    BY <1>2
  <2>5. PICK next : next = Narrowed(v, 0, -1)
    OBVIOUS
  <2>6. find[w] = IF Covers(Slot(0), v) THEN 0 ELSE IF next[1] <= next[2] THEN find[next] ELSE -1
    <3>1. w[1] = 0 /\ w[2] = -1 /\ Middle(0, -1) = 0
      BY DEF Middle
    <3>2. find[w] = IF Covers(Slot(Middle(w[1], w[2])), v) THEN Middle(w[1], w[2])
                    ELSE IF Narrowed(v, w[1], w[2])[1] <= Narrowed(v, w[1], w[2])[2]
                    THEN find[Narrowed(v, w[1], w[2])] ELSE -1
      <4> HIDE DEF w
      <4> QED BY <2>2, <2>4, Zenon DEF IsFind
    <3> HIDE DEF w
    <3> QED BY <2>5, <3>1, <3>2
  <2>7. ~(next[1] <= next[2])
    BY <2>5 DEF Narrowed, Middle
  <2>8. Slot(0) = slot0
    BY <1>2 DEF Slot
  <2>9. Search(v) = IF Covers(slot0, v) THEN 0 ELSE -1
    BY <2>3, <2>4, <2>6, <2>7, <2>8
  <2> QED BY <1>2, <2>9 DEF Find
<1> QED BY <1>1, <1>2

-----------------------------------------------------------------------------
(* The steps.                                                              *)

\* What ScanInv says of the segments s when the scan has squeezed or not.
ScanOf(s, lossy) ==
    /\ Within(Live(s), added)
    /\ \A x \in Live(s) : Reversed(x) => x[2] = cur
    /\ \A v \in 0 .. cur : CoversAny(added, v) => CoversAny(Live(s), v)
    /\ ~lossy => SameAnswers(Live(s), added)

\* Sorting and merging the array keeps what it says.
LEMMA MergeKept ==
  ASSUME TreeInv, phase = "adding", NEW m, m = RemoveOverlapping(InOrder)
  PROVE  /\ m \in Seq(Segment) /\ Len(m) <= Len(r) /\ Separated(m) /\ ScanOf(m, squeezed)
<1>1. r \in Seq(Segment) /\ ~sorted /\ ScanInv /\ added \in SUBSET Segment /\ Len(r) \in Nat
  BY DEF TreeInv, TreeTypeOK, Segment
<1>2. PICK s : s = Sorted(r)
  OBVIOUS
<1>3. m = RemoveOverlapping(s)
  BY <1>1, <1>2 DEF InOrder
<1>4. /\ s \in Seq(Segment) /\ Len(s) = Len(r) /\ Live(s) = Live(r)
      /\ \A i, j \in 1 .. Len(s) : i < j => ~Before(s[j], s[i])
  BY <1>1, <1>2, SortedIs
<1>5. Merged(m, s, Len(s)) /\ Prefix(s, Len(s)) = Live(r)
  BY <1>3, <1>4, RemoveMerges
<1>6. /\ m \in Seq(Segment) /\ Len(m) <= Len(r) /\ Separated(m)
      /\ SameAnswers(Live(m), Live(r)) /\ Within(Live(m), Live(r))
      /\ \A x \in Live(m) : Reversed(x) => x \in Live(r)
  BY <1>4, <1>5 DEF Merged
<1>7. Live(m) \in SUBSET Segment /\ Live(r) \in SUBSET Segment
  BY <1>1, <1>6 DEF Live
<1>8. Within(Live(m), added)
  BY <1>1, <1>6, <1>7, WithinTrans DEF ScanInv
<1>9. \A x \in Live(m) : Reversed(x) => x[2] = cur
  BY <1>1, <1>6 DEF ScanInv
<1>10. \A v \in 0 .. cur : CoversAny(added, v) => CoversAny(Live(m), v)
  <2>1. \A v \in 0 .. cur : v \in Passed
    BY <1>1, PassedIs DEF ScanInv
  <2> QED BY <1>1, <1>6, <2>1 DEF ScanInv, SameAnswers
<1>11. ~squeezed => SameAnswers(Live(m), added)
  BY <1>1, <1>6, SameTrans DEF ScanInv
<1> QED BY <1>6, <1>8, <1>9, <1>10, <1>11 DEF ScanOf

\* One more range, behind segments that say what the array said.
LEMMA PutKept ==
  ASSUME TreeInv, NEW s \in Seq(Segment), Len(s) < Capacity, ScanOf(s, squeezed'),
         NEW range \in Segment, Put(s, range), squeezed' \in BOOLEAN
  PROVE  TreeInv'
<1> DEFINE q == Append(s, range)
<1>1. /\ TreeTypeOK /\ ScanInv /\ phase = "adding" /\ adds < MaxAdds
      /\ range[2] = cur \/ range[1] <= range[2]
      /\ r' = q /\ sorted' = FALSE /\ slot0' = Head(r')
      /\ added' = added \cup {range} /\ adds' = adds + 1
      /\ phase' = phase /\ cur' = cur
  BY DEF Put, TreeInv
<1>2. /\ q \in Seq(Segment) /\ Len(q) = Len(s) + 1 /\ Live(q) = Live(s) \cup {range}
      /\ \A k \in 1 .. Len(s) + 1 : q[k] = IF k = Len(s) + 1 THEN range ELSE s[k]
  BY LiveOf
<1>3. range[1] \in Nat /\ range[2] \in Nat /\ range[1] <= range[1]
  BY SegmentParts
<1>4. Len(s) \in Nat /\ cur \in Nat
  BY <1>1, TreeAssumption DEF ScanInv
<1>5. TreeTypeOK'
  <2>1. q # <<>> /\ Head(q) \in Segment
    BY <1>2, <1>4
  <2> HIDE DEF q
  <2>2. slot0' \in Nat \X Nat
    <3>1. Segment \subseteq Nat \X Nat
      BY TreeAssumption DEF Segment
    <3> QED BY <1>1, <2>1, <3>1
  <2>3. Len(q) <= Capacity
    BY <1>2, <1>4, TreeAssumption
  <2>4. adds' \in 0 .. MaxAdds
    BY <1>1, TreeAssumption DEF TreeTypeOK
  <2> QED BY <1>1, <1>2, <2>2, <2>3, <2>4 DEF TreeTypeOK, Segment
<1> HIDE DEF q
<1>6. Within(Live(q), added')
  BY <1>1, <1>2, <1>3 DEF ScanOf, Within
<1>7. ASSUME NEW x \in Live(q), Reversed(x) PROVE x[2] = cur
  BY <1>1, <1>2, <1>3, <1>7 DEF ScanOf, Reversed
<1>8. ASSUME NEW v \in 0 .. cur, CoversAny(added', v) PROVE CoversAny(Live(q), v)
  BY <1>1, <1>2, <1>8 DEF ScanOf, CoversAny
<1>9. ~squeezed' => SameAnswers(Live(q), added')
  <2>1. ~squeezed' => SameAnswers(Live(s), added) /\ Within(Live(s), added)
    BY DEF ScanOf
  <2> QED BY <1>1, <1>2, <2>1, SameAdd
<1>10. ScanInv'
  <2>1. cur' \in Version
    BY <1>1 DEF ScanInv
  <2> QED BY <1>1, <1>6, <1>7, <1>8, <1>9, <2>1 DEF ScanInv
<1>11. sorted' <=> phase' = "ready"
  BY <1>1
<1>12. phase' # "ready"
  BY <1>1
<1> QED BY <1>5, <1>10, <1>11, <1>12 DEF TreeInv

\* The invariant holds at first.
LEMMA TreeInit == Init => TreeInv
<1> SUFFICES ASSUME Init PROVE TreeInv
  OBVIOUS
<1>1. <<>> \in Seq(Version \X Version) /\ Len(<<>>) = 0
  OBVIOUS
<1>2. TreeTypeOK
  <2>1. slot0 \in Nat \X Nat /\ 0 \in 0 .. MaxAdds /\ 0 <= Capacity
    BY TreeAssumption DEF Init
  <2> QED BY <1>1, <2>1 DEF Init, TreeTypeOK
<1> QED BY <1>2 DEF Init, TreeInv

\* Every step keeps it.
LEMMA TreeStep == TreeInv /\ [Next]_vars => TreeInv'
<1> SUFFICES ASSUME TreeInv, [Next]_vars PROVE TreeInv'
  OBVIOUS
<1>0. TreeTypeOK /\ r \in Seq(Segment) /\ Len(r) \in Nat
  BY DEF TreeInv, TreeTypeOK, Segment
<1>1. CASE Begin
  <2>1. /\ phase' = "adding" /\ r' = <<>> /\ sorted' = FALSE /\ cur' \in Version \ {0}
        /\ added' = {} /\ adds' = 0 /\ squeezed' = FALSE /\ slot0' = slot0
    BY <1>1 DEF Begin
  <2>2. <<>> \in Seq(Version \X Version) /\ Len(<<>>) = 0
    OBVIOUS
  <2>3. TreeTypeOK'
    <3>1. 0 \in 0 .. MaxAdds /\ 0 <= Capacity
      BY TreeAssumption
    <3> QED BY <1>0, <2>1, <2>2, <3>1 DEF TreeTypeOK
  <2>4. Live(r') = {}
    BY <2>1 DEF Live
  <2>5. ScanInv'
    <3>1. SameAnswers({}, {}) /\ Within({}, {})
      BY SameNone
    <3>2. \A v \in 0 .. cur' : ~CoversAny({}, v)
      BY DEF CoversAny
    <3> QED BY <2>1, <2>4, <3>1, <3>2 DEF ScanInv
  <2> QED BY <2>1, <2>3, <2>5 DEF TreeInv
<1>2. CASE Optimize
  <2>1. PICK m : m = RemoveOverlapping(InOrder)
    OBVIOUS
  <2>2. /\ phase = "adding" /\ phase' = "ready" /\ r' = m /\ sorted' = TRUE
        /\ slot0' = IF r' = <<>> THEN slot0 ELSE Head(r')
        /\ cur' = cur /\ added' = added /\ adds' = adds /\ squeezed' = squeezed
    BY <1>2, <2>1 DEF Optimize
  <2>3. m \in Seq(Segment) /\ Len(m) <= Len(r) /\ Separated(m) /\ ScanOf(m, squeezed)
    BY <2>1, <2>2, MergeKept
  <2>4. m # <<>> => Head(m) = m[1] /\ m[1] \in Segment
    BY <2>3
  <2>5. TreeTypeOK'
    <3>1. Segment \subseteq Nat \X Nat
      BY TreeAssumption DEF Segment
    <3>2. slot0' \in Nat \X Nat
      BY <1>0, <2>2, <2>4, <3>1 DEF TreeTypeOK
    <3>3. Len(m) <= Capacity
      BY <1>0, <2>3, TreeAssumption DEF TreeTypeOK
    <3>4. \A i \in 1 .. Len(m) - 1 : ~Before(m[i + 1], m[i])
      BY <2>3 DEF Separated
    <3> QED BY <1>0, <2>2, <2>3, <3>2, <3>3, <3>4 DEF TreeTypeOK, Segment
  <2>6. ScanInv'
    <3>1. cur \in Version
      BY <2>2 DEF TreeInv, ScanInv
    <3> QED BY <2>2, <2>3, <3>1 DEF ScanInv, ScanOf
  <2>7. ReadyInv'
    BY <2>2, <2>3, <2>4 DEF ReadyInv
  <2> QED BY <2>2, <2>5, <2>6, <2>7 DEF TreeInv
<1>3. ASSUME NEW range \in Version \X Version, Add(range) PROVE TreeInv'
  <2>1. Len(r) < Capacity /\ Put(r, range) /\ squeezed' = squeezed /\ range \in Segment
    BY <1>3 DEF Add, Segment
  <2>2. ScanOf(r, squeezed') /\ squeezed' \in BOOLEAN
    BY <1>0, <2>1 DEF TreeInv, ScanInv, ScanOf, Put, TreeTypeOK
  <2> QED BY <1>0, <2>1, <2>2, PutKept
<1>4. ASSUME NEW range \in Version \X Version, AddMerging(range) PROVE TreeInv'
  <2>1. PICK m : m = RemoveOverlapping(InOrder)
    OBVIOUS
  <2>2. Len(m) < Capacity /\ Put(m, range) /\ squeezed' = squeezed /\ range \in Segment
    BY <1>4, <2>1 DEF AddMerging, Segment
  <2>3. m \in Seq(Segment) /\ ScanOf(m, squeezed)
    BY <2>1, <2>2, MergeKept DEF Put
  <2>4. squeezed' \in BOOLEAN
    BY <1>0, <2>2 DEF TreeTypeOK
  <2> QED BY <2>2, <2>3, <2>4, PutKept
<1>5. ASSUME NEW range \in Version \X Version, AddSqueezing(range) PROVE TreeInv'
  <2>1. PICK m : m = RemoveOverlapping(InOrder)
    OBVIOUS
  <2>2. PICK q : q = Squeeze(m)
    OBVIOUS
  <2>3. Len(m) = Capacity /\ Put(q, range) /\ squeezed' = TRUE /\ range \in Segment
    BY <1>5, <2>1, <2>2 DEF AddSqueezing, Segment
  <2>4. m \in Seq(Segment) /\ Separated(m) /\ ScanOf(m, squeezed)
    BY <2>1, <2>3, MergeKept DEF Put
  <2>5. cur \in Version /\ cur \in Nat /\ added \in SUBSET Segment
    BY <1>0, <2>3, TreeAssumption DEF Put, TreeInv, ScanInv, TreeTypeOK, Segment
  <2>6. Len(m) >= 2
    BY <2>3, TreeAssumption
  <2>7. /\ q \in Seq(Segment) /\ Len(q) = Len(m) - 1
        /\ Within(Live(q), Live(m))
        /\ \A x \in Live(q) : Reversed(x) => x[2] = cur
        /\ \A v \in 0 .. cur : CoversAny(Live(m), v) => CoversAny(Live(q), v)
    <3>1. \A x \in Live(m) : Reversed(x) => x[2] = cur
      BY <2>4 DEF ScanOf
    <3>2. PICK c : c = cur
      OBVIOUS
    <3>3. c \in Nat /\ \A x \in Live(m) : Reversed(x) => x[2] = c
      BY <2>5, <3>1, <3>2
    <3>4. /\ q \in Seq(Segment) /\ Len(q) = Len(m) - 1
          /\ Within(Live(q), Live(m))
          /\ \A x \in Live(q) : Reversed(x) => x[2] = c
          /\ \A v \in 0 .. c : CoversAny(Live(m), v) => CoversAny(Live(q), v)
      BY <2>2, <2>4, <2>6, <3>3, SqueezeKeeps
    <3> QED BY <3>2, <3>4
  <2>8. Within(Live(q), added)
    <3>1. Live(q) \in SUBSET Segment /\ Live(m) \in SUBSET Segment
      BY <2>4, <2>7 DEF Live
    <3> QED BY <2>4, <2>5, <2>7, <3>1, WithinTrans DEF ScanOf
  <2>9. ScanOf(q, squeezed')
    BY <2>3, <2>4, <2>7, <2>8 DEF ScanOf
  <2>10. Len(q) < Capacity /\ squeezed' \in BOOLEAN
    BY <2>3, <2>7, TreeAssumption
  <2> QED BY <2>3, <2>7, <2>9, <2>10, PutKept
<1>6. CASE UNCHANGED vars
  BY <1>6 DEF vars, TreeInv, TreeTypeOK, ScanInv, ReadyInv
<1> QED BY <1>1, <1>2, <1>3, <1>4, <1>5, <1>6 DEF Next

\* The invariant holds in every state: what the array still says of the ranges
\* that a scan added, after any number of merges and squeezes (range.c).
THEOREM TreeInvariant == Spec => []TreeInv
<1> QED BY TreeInit, TreeStep, PTL DEF Spec

-----------------------------------------------------------------------------
(* What the runs check, for every array size and every number of readers.  *)

\* The array never holds more than capacity ranges, and the sorted flag is set
\* only on an array that cmp_ranges accepts.
THEOREM TreeTypes == Spec => []TreeTypeOK
<1>1. TreeInv => TreeTypeOK
  BY DEF TreeInv
<1> QED BY <1>1, TreeInvariant, PTL

\* What the optimised array of a scan is.
LEMMA ReadyParts ==
  ASSUME TreeInv, phase = "ready"
  PROVE  /\ r \in Seq(Segment) /\ Len(r) \in Nat /\ Separated(r) /\ ScanInv
         /\ Live(r) \in SUBSET Segment /\ added \in SUBSET Segment
         /\ (r = <<>> <=> added = {})
         /\ r # <<>> => /\ slot0 = r[1] /\ r[1] \in Live(r)
                        /\ \A x \in Live(r) : x = r[1] \/ (r[1][1] <= x[1] /\ r[1][2] < x[1])
<1>1. r \in Seq(Segment) /\ Len(r) \in Nat /\ Separated(r) /\ ScanInv /\ added \in SUBSET Segment
  BY DEF TreeInv, TreeTypeOK, ReadyInv, Segment
<1>2. Live(r) \in SUBSET Segment
  BY <1>1 DEF Live
<1>3. r # <<>> => 1 \in 1 .. Len(r)
  BY <1>1
<1>4. r = <<>> <=> Live(r) = {}
  <2>1. r = <<>> => Live(r) = {}
    BY DEF Live
  <2>2. r # <<>> => r[1] \in Live(r)
    BY <1>3 DEF Live
  <2> QED BY <2>1, <2>2
<1>5. r = <<>> <=> added = {}
  BY <1>1, <1>4 DEF ScanInv, Within
<1>6. ASSUME r # <<>>, NEW i \in 1 .. Len(r) PROVE r[i] = r[1] \/ (r[1][1] <= r[i][1] /\ r[1][2] < r[i][1])
  <2>1. CASE i = 1
    BY <2>1
  <2>2. CASE i # 1
    <3>1. 1 \in 1 .. Len(r) /\ 1 < i
      BY <1>1, <1>3, <1>6, <2>2
    <3> QED BY <1>1, <3>1, SeparatedApart
  <2> QED BY <2>1, <2>2
<1>7. r # <<>> => slot0 = r[1] /\ r[1] \in Live(r)
  BY <1>3 DEF TreeInv, ReadyInv, Live
<1> QED BY <1>1, <1>2, <1>5, <1>6, <1>7 DEF Live

\* Of one state: lrcu_rangetree_find says yes to a version up to the current
\* one that a range added by the scan covers.
LEMMA FindsCoveredHolds == TreeInv => FindsCovered
<1> SUFFICES ASSUME TreeInv, phase = "ready", NEW v \in 0 .. cur, NEW range \in added, Covers(range, v)
             PROVE  Find(v)
  BY DEF FindsCovered
<1>1. r \in Seq(Segment) /\ Separated(r) /\ ScanInv /\ r # <<>>
  BY ReadyParts
<1>2. CoversAny(Live(r), v)
  BY <1>1 DEF ScanInv, CoversAny
<1>3. v \in Nat
  BY <1>1, TreeAssumption DEF ScanInv
<1> QED BY <1>1, <1>2, <1>3, FindAnswers

\* No squeeze and no merge makes lrcu_rangetree_find miss a version that a
\* reader still holds (range.c 80-112, 187-218).
THEOREM TreeFindsCovered == Spec => []FindsCovered
BY FindsCoveredHolds, TreeInvariant, PTL

\* Of one state: merged but not squeezed, the array answers as the set of ranges.
LEMMA FindIsLookupHolds == TreeInv => FindIsLookup
<1> SUFFICES ASSUME TreeInv, phase = "ready", ~squeezed, NEW v \in Version
             PROVE  Find(v) <=> Lookup(added, slot0, v)
  BY DEF FindIsLookup
<1>1. r \in Seq(Segment) /\ Separated(r) /\ ScanInv /\ (r = <<>> <=> added = {})
  BY ReadyParts
<1>2. v \in Nat /\ v \in Passed
  BY PassedIs
<1>3. Find(v) <=> IF r = <<>> THEN Covers(slot0, v) ELSE CoversAny(Live(r), v)
  BY <1>1, <1>2, FindAnswers
<1>4. CoversAny(Live(r), v) <=> CoversAny(added, v)
  BY <1>1, <1>2 DEF ScanInv, SameAnswers
<1> QED BY <1>1, <1>3, <1>4 DEF Lookup, CoversAny

\* Until the array overflows twice, the binary search answers exactly what
\* Ranges!Lookup says, the stale r[0] of an empty array included.
THEOREM TreeFindIsLookup == Spec => []FindIsLookup
BY FindIsLookupHolds, TreeInvariant, PTL

\* Of one state: what is found lies between a start and an end that were added.
LEMMA FindsBetweenHolds == TreeInv => FindsBetween
<1> SUFFICES ASSUME TreeInv, phase = "ready", added # {}, NEW v \in Version, Find(v)
             PROVE  (\E a \in added : a[1] <= v) /\ (\E b \in added : v <= b[2])
  BY DEF FindsBetween
<1>1. r \in Seq(Segment) /\ Separated(r) /\ ScanInv /\ r # <<>>
  BY ReadyParts
<1>2. CoversAny(Live(r), v)
  <2>1. v \in Nat
    BY PassedIs
  <2> QED BY <1>1, <2>1, FindAnswers
<1>3. PICK x \in Live(r) : x[1] <= v /\ v <= x[2]
  BY <1>2 DEF CoversAny, Covers
<1> QED BY <1>1, <1>3 DEF ScanInv, Within

\* However much is squeezed together, lrcu_rangetree_find never says yes to a
\* version older than every reader or newer than all their ranges.
THEOREM TreeFindsBetween == Spec => []FindsBetween
BY FindsBetweenHolds, TreeInvariant, PTL

\* The first segment starts at the oldest version of all.
LEMMA FirstIsOldest ==
  ASSUME TreeInv, phase = "ready", added # {}
  PROVE  Least({a[1] : a \in added}) = {r[1][1]} /\ Oldest(added, r[1][1])
<1> DEFINE m == r[1][1]
<1>1. /\ ScanInv /\ r # <<>> /\ r[1] \in Live(r)
      /\ Live(r) \in SUBSET Segment /\ added \in SUBSET Segment
      /\ \A x \in Live(r) : x = r[1] \/ m <= x[1]
  BY ReadyParts
<1>2. m \in Nat
  BY <1>1, SegmentParts
<1> HIDE DEF m
<1>3. \E a \in added : a[1] = m
  BY <1>1 DEF ScanInv, Within, m
<1>4. ASSUME NEW a \in added PROVE m <= a[1] /\ a[1] \in Nat
  <2>1. PICK x \in Live(r) : x[1] <= a[1]
    BY <1>1 DEF ScanInv, Within
  <2>2. a[1] \in Nat /\ x[1] \in Nat
    BY <1>1, SegmentParts
  <2>3. m <= x[1]
    BY <1>1, <1>2, <2>2 DEF m
  <2> QED BY <1>2, <2>1, <2>2, <2>3
<1> DEFINE S == {a[1] : a \in added}
<1>5. m \in S /\ \A y \in S : m <= y /\ y \in Nat
  BY <1>3, <1>4
<1> HIDE DEF S
<1>6. \A x \in S : (\A y \in S : x <= y) => x = m
  BY <1>2, <1>5
<1>7. Least(S) = {m}
  BY <1>5, <1>6 DEF Least
<1>8. Oldest(added, m)
  BY <1>4 DEF Oldest
<1> QED BY <1>7, <1>8 DEF S, m

\* Of one state: getmin is the least start.
LEMMA MinIsOldestHolds == TreeInv => MinIsOldest
<1> SUFFICES ASSUME TreeInv, phase = "ready"
             PROVE  IF added = {} THEN GetMin = 0 ELSE GetMin \in Least({a[1] : a \in added})
  BY DEF MinIsOldest
<1>1. r = <<>> <=> added = {}
  BY ReadyParts
<1>2. CASE added = {}
  BY <1>1, <1>2 DEF GetMin
<1>3. CASE added # {}
  BY <1>1, <1>3, FirstIsOldest DEF GetMin
<1> QED BY <1>2, <1>3

\* lrcu_rangetree_getmin is the oldest version a reader entered at, and 0 when
\* no reader was met (range.c 139-148).
THEOREM TreeMinIsOldest == Spec => []MinIsOldest
BY MinIsOldestHolds, TreeInvariant, PTL

\* Of one state: r[0] is the first segment, from the oldest start to the least
\* end at which no range that starts before goes on.
LEMMA StaleHolds == TreeInv => StaleIsFirstMerged
<1> SUFFICES ASSUME TreeInv, phase = "ready", added # {}, ~squeezed
             PROVE  {slot0} = FirstMerged(added)
  BY DEF StaleIsFirstMerged
<1> DEFINE m == r[1][1]
           H == r[1][2]
           ends == {a[2] : a \in added}
           grown(lo, hi) == /\ \E a \in added : a[1] = lo /\ a[2] <= hi
                            /\ \A a \in added : a[1] <= hi => a[2] <= hi
<1>1. /\ ScanInv /\ r # <<>> /\ slot0 = r[1] /\ r[1] \in Live(r)
      /\ Live(r) \in SUBSET Segment /\ added \in SUBSET Segment
      /\ \A x \in Live(r) : x = r[1] \/ (m <= x[1] /\ H < x[1])
  BY ReadyParts
<1>2. m \in Nat /\ H \in Nat /\ m \in Version /\ H \in Version /\ slot0 = <<m, H>>
  BY <1>1, SegmentParts
<1>3. Least({a[1] : a \in added}) = {m} /\ Oldest(added, m)
  BY FirstIsOldest
<1>4. H \in ends /\ \A h \in ends : h \in Version /\ h \in Nat
  <2>1. \A a \in added : a[2] \in Version /\ a[2] \in Nat
    BY <1>1, SegmentParts
  <2> QED BY <1>1, <2>1 DEF ScanInv, Within
<1> HIDE DEF m, H
<1>5. ASSUME NEW h \in Version PROVE grown(m, h) <=> Closed(Live(r), h) /\ Reaches(Live(r), m, h)
  <2>1. SameAnswers(Live(r), added)
    BY <1>1 DEF ScanInv
  <2>2. grown(m, h) <=> Reaches(added, m, h) /\ Closed(added, h)
    BY DEF Reaches, Closed
  <2> HIDE DEF grown, ends
  <2> QED BY <1>2, <1>3, <2>1, <2>2 DEF SameAnswers
<1>6. grown(m, H)
  <2>1. ASSUME NEW x \in Live(r), x[1] <= H PROVE x[2] <= H
    <3>1. x[1] \in Nat
      BY <1>1, SegmentParts
    <3>2. x = r[1]
      BY <1>1, <1>2, <2>1, <3>1
    <3> QED BY <1>2, <3>2 DEF H
  <2>2. Closed(Live(r), H)
    BY <2>1 DEF Closed
  <2>3. Reaches(Live(r), m, H)
    BY <1>1, <1>2 DEF Reaches, m, H
  <2> HIDE DEF grown
  <2> QED BY <1>2, <1>5, <2>2, <2>3
<1>7. ASSUME NEW h \in ends, grown(m, h) PROVE H <= h
  <2>1. Closed(Live(r), h) /\ Reaches(Live(r), m, h) /\ h \in Nat
    BY <1>4, <1>5, <1>7
  <2>2. PICK x \in Live(r) : x[1] = m /\ x[2] <= h
    BY <2>1 DEF Reaches
  <2>3. x[2] \in Nat
    BY <1>1, SegmentParts
  <2>4. CASE x = r[1]
    BY <2>2, <2>4 DEF H
  <2>5. CASE x # r[1]
    <3>1. H < m
      BY <1>1, <2>2, <2>5
    <3>2. H = cur
      BY <1>1, <1>2, <3>1 DEF ScanInv, Reversed, m, H
    <3>3. CASE Reversed(x)
      BY <1>1, <2>2, <3>2, <3>3 DEF ScanInv
    <3>4. CASE ~Reversed(x)
      BY <1>2, <2>1, <2>2, <2>3, <3>1, <3>4 DEF Reversed
    <3> QED BY <3>3, <3>4
  <2> QED BY <2>4, <2>5
<1>8. Least({h \in ends : grown(m, h)}) = {H}
  <2> DEFINE G == {h \in ends : grown(m, h)}
  <2>1. H \in G /\ \A h \in G : H <= h /\ h \in Nat
    BY <1>4, <1>6, <1>7
  <2> HIDE DEF G
  <2>2. \A x \in G : (\A y \in G : x <= y) => x = H
    BY <1>2, <2>1
  <2>3. Least(G) = {H}
    BY <2>1, <2>2 DEF Least
  <2> QED BY <2>3 DEF G
<1>9. FirstMerged(added) = {first \in Least({a[1] : a \in added}) \X ends :
                               first[2] \in Least({h \in ends : grown(first[1], h)})}
  BY DEF FirstMerged
<1>10. FirstMerged(added) = {first \in {m} \X ends : first[2] \in {H}}
  <2>1. \A first \in {m} \X ends : first[1] = m
    OBVIOUS
  <2> HIDE DEF grown, ends
  <2> QED BY <1>3, <1>8, <1>9, <2>1
<1>11. FirstMerged(added) = {<<m, H>>}
  <2> HIDE DEF grown, ends
  <2> QED BY <1>4, <1>10
<1> QED BY <1>2, <1>11

\* A scan that did not squeeze leaves in r[0] what Ranges!FirstMerged says, which
\* is what Lrcu carries from one scan to the next.
THEOREM TreeStaleIsFirstMerged == Spec => []StaleIsFirstMerged
BY StaleHolds, TreeInvariant, PTL
=============================================================================
