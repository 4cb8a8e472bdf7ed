---------------------------- MODULE QueuesProofs ----------------------------
(***************************************************************************)
(* The pointers of a callback queue, for any number of callers and          *)
(* elements: QueuesInv!QueueInv is inductive, so that no element is lost,   *)
(* queued twice or leaked and no step reads a freed one.  The walk along    *)
(* e->next is a recursive function; that it finds the list is shown by      *)
(* induction on the number of elements left.                                *)
(***************************************************************************)
EXTENDS QueuesInv, FiniteSetTheorems, SequenceTheorems, NatInduct

-----------------------------------------------------------------------------
(* Walk.                                                                   *)

\* What the walk has collected from each pointer after at most k elements.
IsWalk(f, nx, m) ==
    f = [k \in 0 .. m |-> [p \in Ptr |-> IF p = NULL \/ k = 0 THEN <<>>
                                         ELSE <<p>> \o f[k - 1][nx[p]]]]

\* The recursion of Walk defines a function.
LEMMA WalkExists == \A nx, m : m \in Nat => \E f : IsWalk(f, nx, m)
<1> SUFFICES ASSUME NEW nx PROVE \A m \in Nat : \E f : IsWalk(f, nx, m)
  OBVIOUS
<1> DEFINE T == {m \in Nat : \E f : IsWalk(f, nx, m)}
<1>1. 0 \in T
  <2> DEFINE f == [k \in 0 .. 0 |-> [p \in Ptr |-> <<>>]]
  <2>1. f = [k \in 0 .. 0 |-> [p \in Ptr |-> IF p = NULL \/ k = 0 THEN <<>>
                                             ELSE <<p>> \o f[k - 1][nx[p]]]]
    OBVIOUS
  <2> QED BY <2>1 DEF IsWalk
<1>2. ASSUME NEW m \in Nat, m \in T PROVE m + 1 \in T
  <2>1. PICK f : IsWalk(f, nx, m)
    BY <1>2
  <2> DEFINE g == [k \in 0 .. m + 1 |->
                      IF k <= m THEN f[k]
                      ELSE [p \in Ptr |-> IF p = NULL THEN <<>> ELSE <<p>> \o f[m][nx[p]]]]
             h == [k \in 0 .. m + 1 |-> [p \in Ptr |-> IF p = NULL \/ k = 0 THEN <<>>
                                                       ELSE <<p>> \o g[k - 1][nx[p]]]]
  <2>2. \A k \in 0 .. m : f[k] = [p \in Ptr |-> IF p = NULL \/ k = 0 THEN <<>>
                                                ELSE <<p>> \o f[k - 1][nx[p]]]
    BY <2>1, Zenon DEF IsWalk
  <2>3. \A k \in 0 .. m : g[k] = f[k]
    OBVIOUS
  <2>4. ASSUME NEW k \in 0 .. m + 1 PROVE g[k] = h[k]
    <3>1. CASE k = 0
      BY <2>2, <2>3, <3>1
    <3>2. CASE k \in 1 .. m
      <4>1. k - 1 \in 0 .. m /\ k \in 0 .. m /\ k # 0
        BY <3>2
      <4>2. g[k - 1] = f[k - 1]
        BY <2>3, <4>1
      <4> HIDE DEF g
      <4>3. h[k] = [p \in Ptr |-> IF p = NULL \/ k = 0 THEN <<>> ELSE <<p>> \o f[k - 1][nx[p]]]
        BY <4>2
      <4> QED BY <2>2, <2>3, <4>1, <4>3
    <3>3. CASE k = m + 1
      <4>1. k # 0 /\ ~(k <= m) /\ k - 1 = m /\ g[m] = f[m]
        BY <3>3
      <4>2. g[k] = [p \in Ptr |-> IF p = NULL THEN <<>> ELSE <<p>> \o f[m][nx[p]]]
        BY <3>3, <4>1
      <4> HIDE DEF g
      <4>3. h[k] = [p \in Ptr |-> IF p = NULL THEN <<>> ELSE <<p>> \o f[m][nx[p]]]
        BY <4>1
      <4> QED BY <4>2, <4>3
    <3> QED BY <3>1, <3>2, <3>3
  <2>5. g = h
    <3>1. DOMAIN g = 0 .. m + 1 /\ DOMAIN h = 0 .. m + 1
      OBVIOUS
    <3>2. g = [k \in 0 .. m + 1 |-> g[k]] /\ h = [k \in 0 .. m + 1 |-> h[k]]
      OBVIOUS
    <3> HIDE DEF g, h
    <3> QED BY <2>4, <3>2
  <2>6. IsWalk(g, nx, m + 1)
    BY <2>5, Zenon DEF IsWalk
  <2> HIDE DEF g
  <2> QED BY <2>6
<1> HIDE DEF T
<1>3. Nat \subseteq T
  BY <1>1, <1>2, Induct
<1> QED BY <1>3 DEF T

\* One step of the walk.
LEMMA WalkStep ==
  ASSUME NEW nx
  PROVE  \E f : IsWalk(f, nx, Cardinality(Node)) /\ \A h : Walk(nx, h) = f[Cardinality(Node)][h]
<1> DEFINE walk[k \in 0 .. Cardinality(Node)] ==
               [p \in Ptr |-> IF p = NULL \/ k = 0 THEN <<>> ELSE <<p>> \o walk[k - 1][nx[p]]]
<1>1. walk = CHOOSE f : IsWalk(f, nx, Cardinality(Node))
  BY Zenon DEF IsWalk
<1>2. Cardinality(Node) \in Nat
  BY NodeAssumption, FS_CardinalityType
<1>3. IsWalk(walk, nx, Cardinality(Node))
  BY <1>1, <1>2, WalkExists, Zenon
<1>4. \A h : Walk(nx, h) = walk[Cardinality(Node)][h]
  BY Zenon DEF Walk
<1> HIDE DEF walk
<1> QED BY <1>3, <1>4

\* A list without repetitions is no longer than there are elements.
LEMMA ListLength ==
  ASSUME NEW s \in Seq(Node), \A i, j \in 1 .. Len(s) : s[i] = s[j] => i = j
  PROVE  /\ Len(s) <= Cardinality(Node)
         /\ IsFiniteSet(Elements(s)) /\ Cardinality(Elements(s)) = Len(s)
<1>1. s \in [1 .. Len(s) -> Node] /\ DOMAIN s = 1 .. Len(s) /\ Len(s) \in Nat
  OBVIOUS
<1>2. s \in [1 .. Len(s) -> Elements(s)] /\ Elements(s) \subseteq Node
  BY <1>1 DEF Elements
<1>3. \A x \in Elements(s) : \E i \in 1 .. Len(s) : s[i] = x
  BY <1>1 DEF Elements
<1>4. s \in Surjection(1 .. Len(s), Elements(s)) /\ s \in Injection(1 .. Len(s), Elements(s))
  BY <1>1, <1>2, <1>3 DEF Surjection, Injection, IsInjective
<1>5. IsFiniteSet(1 .. Len(s)) /\ Cardinality(1 .. Len(s)) = Len(s)
  <2> DEFINE k == Len(s)
  <2>1. k \in Nat
    BY <1>1
  <2> HIDE DEF k
  <2>2. IsFiniteSet(1 .. k) /\ Cardinality(1 .. k) = k
    BY <2>1, FS_Interval
  <2> QED BY <2>2 DEF k
<1>6. IsFiniteSet(Elements(s)) /\ Cardinality(Elements(s)) = Len(s)
  BY <1>4, <1>5, FS_Surjection
<1>7. Cardinality(Elements(s)) <= Cardinality(Node)
  BY <1>2, NodeAssumption, FS_Subset
<1> QED BY <1>6, <1>7

\* The walk along a list finds the list.
LEMMA WalkLinked ==
  ASSUME NEW nx, NEW h, NEW s, Linked(nx, h, s)
  PROVE  Walk(nx, h) = s
<1> DEFINE C == Cardinality(Node)
           at(i) == IF i > Len(s) THEN NULL ELSE s[i]
<1>1. s \in Seq(Node) /\ Len(s) \in Nat /\ C \in Nat /\ Len(s) <= C
  BY ListLength, NodeAssumption, FS_CardinalityType DEF Linked
<1>2. PICK f : IsWalk(f, nx, C) /\ \A p : Walk(nx, p) = f[C][p]
  BY WalkStep
<1>3. ASSUME NEW k \in 0 .. C, NEW p \in Ptr
      PROVE  f[k][p] = IF p = NULL \/ k = 0 THEN <<>> ELSE <<p>> \o f[k - 1][nx[p]]
  <2>1. f[k] = [q \in Ptr |-> IF q = NULL \/ k = 0 THEN <<>> ELSE <<q>> \o f[k - 1][nx[q]]]
    BY <1>2, Zenon DEF IsWalk
  <2> QED BY <2>1
<1>4. NULL \in Ptr /\ \A i \in 1 .. Len(s) : s[i] \in Ptr /\ s[i] # NULL
  BY <1>1, NodeAssumption DEF Ptr
<1> DEFINE T == {m \in Nat : m <= Len(s) => \A k \in m .. C :
                                 f[k][at(Len(s) - m + 1)] = SubSeq(s, Len(s) - m + 1, Len(s))}
<1>5. 0 \in T
  <2>1. SubSeq(s, Len(s) + 1, Len(s)) = <<>>
    BY <1>1, SubSeqEmpty
  <2>2. Len(s) - 0 + 1 = Len(s) + 1 /\ at(Len(s) + 1) = NULL
    BY <1>1
  <2>3. \A k \in 0 .. C : f[k][NULL] = <<>>
    BY <1>1, <1>3, <1>4
  <2> QED BY <2>1, <2>2, <2>3
<1>6. ASSUME NEW m \in Nat, m \in T PROVE m + 1 \in T
  <2> SUFFICES ASSUME m + 1 <= Len(s), NEW k \in m + 1 .. C
               PROVE  f[k][at(Len(s) - m)] = SubSeq(s, Len(s) - m, Len(s))
    BY <1>1
  <2> DEFINE i == Len(s) - m
  <2>1. i \in 1 .. Len(s) /\ i + 1 = Len(s) - m + 1 /\ k \in 0 .. C /\ k # 0 /\ k - 1 \in m .. C
    BY <1>1
  <2>2. at(i) = s[i]
    BY <1>1, <2>1
  <2>3. nx[s[i]] = at(i + 1)
    BY <1>1, <2>1 DEF Linked
  <2>4. f[k - 1][at(i + 1)] = SubSeq(s, i + 1, Len(s))
    BY <1>1, <1>6, <2>1
  <2>5. SubSeq(s, i, Len(s)) = <<s[i]>> \o SubSeq(s, i + 1, Len(s))
    BY <1>1, <2>1, SubSeqRecursiveFirst
  <2> HIDE DEF i, at
  <2>6. f[k][s[i]] = <<s[i]>> \o f[k - 1][nx[s[i]]]
    BY <1>3, <1>4, <2>1
  <2>7. f[k][at(i)] = SubSeq(s, i, Len(s))
    BY <2>2, <2>3, <2>4, <2>5, <2>6
  <2> QED BY <2>7 DEF i
<1> HIDE DEF T
<1>7. Nat \subseteq T
  BY <1>5, <1>6, Induct
<1>8. f[C][at(1)] = SubSeq(s, 1, Len(s))
  <2>1. Len(s) \in T /\ C \in Len(s) .. C /\ Len(s) - Len(s) + 1 = 1
    BY <1>1, <1>7
  <2> QED BY <2>1 DEF T
<1>9. h = at(1) /\ SubSeq(s, 1, Len(s)) = s
  BY <1>1, SubSeqFull DEF Linked
<1> HIDE DEF at
<1>10. f[C][h] = s
  BY <1>1, <1>8, <1>9
<1> QED BY <1>2, <1>10

-----------------------------------------------------------------------------
(* What the stores to next do to a list.                                   *)

\* The elements of a list are its members; the empty one has none.
LEMMA ElementsOf ==
  ASSUME NEW s \in Seq(Node)
  PROVE  /\ Elements(s) = {s[i] : i \in 1 .. Len(s)}
         /\ Elements(s) \subseteq Node
<1> QED BY DEF Elements

\* The members of two lists, one behind the other.
LEMMA ElementsConcat ==
  ASSUME NEW s \in Seq(Node), NEW t \in Seq(Node)
  PROVE  Elements(s \o t) = Elements(s) \cup Elements(t)
<1>1. /\ s \o t \in Seq(Node) /\ Len(s \o t) = Len(s) + Len(t)
      /\ \A i \in 1 .. Len(s) + Len(t) :
             (s \o t)[i] = IF i <= Len(s) THEN s[i] ELSE t[i - Len(s)]
  BY ConcatProperties
<1>2. \A i \in 1 .. Len(s) : i \in 1 .. Len(s) + Len(t) /\ (s \o t)[i] = s[i]
  BY <1>1
<1>3. \A i \in 1 .. Len(t) : Len(s) + i \in 1 .. Len(s) + Len(t) /\ (s \o t)[Len(s) + i] = t[i]
  BY <1>1
<1>4. \A i \in 1 .. Len(s) + Len(t) : i \in 1 .. Len(s) \/ i - Len(s) \in 1 .. Len(t)
  OBVIOUS
<1> DEFINE u == s \o t
<1>5. /\ Elements(s) = {s[i] : i \in 1 .. Len(s)} /\ Elements(t) = {t[i] : i \in 1 .. Len(t)}
      /\ Elements(u) = {u[i] : i \in 1 .. Len(s) + Len(t)}
  BY <1>1, ElementsOf
<1> HIDE DEF u
<1>6. \A i \in 1 .. Len(s) + Len(t) : u[i] \in Elements(s) \cup Elements(t)
  BY <1>1, <1>4, <1>5 DEF u
<1>7. (\A i \in 1 .. Len(s) : s[i] \in Elements(u)) /\ (\A i \in 1 .. Len(t) : t[i] \in Elements(u))
  BY <1>2, <1>3, <1>5 DEF u
<1> QED BY <1>5, <1>6, <1>7 DEF u

\* Stores to other elements leave a list as it is.
LEMMA LinkedFrame ==
  ASSUME NEW nx, NEW ny, NEW h, NEW s, Linked(nx, h, s), \A x \in Elements(s) : ny[x] = nx[x]
  PROVE  Linked(ny, h, s)
<1>1. \A i \in 1 .. Len(s) : ny[s[i]] = nx[s[i]]
  BY ElementsOf DEF Linked
<1> QED BY <1>1 DEF Linked

\* A new element in front of a list.
LEMMA LinkedPush ==
  ASSUME NEW nx, NEW h, NEW s, Linked(nx, h, s), NEW x \in Node, x \notin Elements(s), nx[x] = h
  PROVE  Linked(nx, x, <<x>> \o s) /\ Elements(<<x>> \o s) = Elements(s) \cup {x}
<1>1. s \in Seq(Node) /\ <<x>> \in Seq(Node) /\ Len(<<x>>) = 1 /\ Len(s) \in Nat
  BY DEF Linked
<1>2. /\ <<x>> \o s \in Seq(Node) /\ Len(<<x>> \o s) = Len(s) + 1
      /\ \A i \in 1 .. Len(s) + 1 : (<<x>> \o s)[i] = IF i = 1 THEN x ELSE s[i - 1]
  BY <1>1, ConcatProperties
<1>3. \A i \in 1 .. Len(s) : s[i] # x
  BY <1>1, ElementsOf
<1> DEFINE t == <<x>> \o s
<1> HIDE DEF t
<1>4. \A i, j \in 1 .. Len(t) : t[i] = t[j] => i = j
  <2> SUFFICES ASSUME NEW i \in 1 .. Len(t), NEW j \in 1 .. Len(t), t[i] = t[j], i < j PROVE FALSE
    BY <1>1, <1>2 DEF t
  <2>1. t[j] = s[j - 1] /\ j - 1 \in 1 .. Len(s)
    BY <1>1, <1>2 DEF t
  <2>2. CASE i = 1
    BY <1>1, <1>2, <1>3, <2>1, <2>2 DEF t
  <2>3. CASE i # 1
    <3>1. t[i] = s[i - 1] /\ i - 1 \in 1 .. Len(s) /\ i - 1 # j - 1
      BY <1>1, <1>2, <2>3 DEF t
    <3> QED BY <2>1, <3>1 DEF Linked
  <2> QED BY <2>2, <2>3
<1>5. \A i \in 1 .. Len(t) : nx[t[i]] = IF i = Len(t) THEN NULL ELSE t[i + 1]
  <2> SUFFICES ASSUME NEW i \in 1 .. Len(t) PROVE nx[t[i]] = IF i = Len(t) THEN NULL ELSE t[i + 1]
    OBVIOUS
  <2>1. CASE i = 1
    <3>1. t[i] = x /\ nx[t[i]] = h
      BY <1>1, <1>2, <2>1 DEF t
    <3>2. CASE s = <<>>
      BY <1>1, <1>2, <2>1, <3>1, <3>2 DEF t, Linked
    <3>3. CASE s # <<>>
      <4>1. Len(s) > 0 /\ h = s[1]
        BY <1>1, <3>3 DEF Linked
      <4>2. t[i + 1] = s[1] /\ i # Len(t)
        BY <1>1, <1>2, <2>1, <4>1 DEF t
      <4> QED BY <3>1, <4>1, <4>2
    <3> QED BY <3>2, <3>3
  <2>2. CASE i # 1
    <3>1. i - 1 \in 1 .. Len(s) /\ t[i] = s[i - 1] /\ (i - 1 = Len(s) <=> i = Len(t))
      BY <1>1, <1>2, <2>2 DEF t
    <3>2. i # Len(t) => t[i + 1] = s[i - 1 + 1]
      BY <1>1, <1>2, <2>2 DEF t
    <3> QED BY <3>1, <3>2 DEF Linked
  <2> QED BY <2>1, <2>2
<1>6. t # <<>> /\ t[1] = x
  BY <1>1, <1>2 DEF t
<1>7. Linked(nx, x, t)
  BY <1>2, <1>4, <1>5, <1>6 DEF Linked, t
<1>8. Elements(<<x>>) = {x}
  BY <1>1 DEF Elements
<1>9. Elements(t) = Elements(<<x>>) \cup Elements(s)
  BY <1>1, ElementsConcat DEF t
<1> QED BY <1>7, <1>8, <1>9 DEF t

\* A list attached behind the last element of another.
LEMMA LinkedConcat ==
  ASSUME NEW nx \in [Node -> Ptr], NEW h, NEW s, Linked(nx, h, s), s # <<>>,
         NEW g \in Ptr, NEW t, Linked(nx, g, t), Apart(s, t)
  PROVE  Linked([nx EXCEPT ![s[Len(s)]] = g], h, s \o t)
<1> DEFINE ny == [nx EXCEPT ![s[Len(s)]] = g]
           u == s \o t
<1>1. s \in Seq(Node) /\ t \in Seq(Node) /\ Len(s) \in Nat \ {0} /\ Len(t) \in Nat
  BY DEF Linked
<1>2. /\ u \in Seq(Node) /\ Len(u) = Len(s) + Len(t)
      /\ \A i \in 1 .. Len(s) + Len(t) : u[i] = IF i <= Len(s) THEN s[i] ELSE t[i - Len(s)]
  <2>1. /\ s \o t \in Seq(Node) /\ Len(s \o t) = Len(s) + Len(t)
        /\ \A i \in 1 .. Len(s) + Len(t) :
              (s \o t)[i] = IF i <= Len(s) THEN s[i] ELSE t[i - Len(s)]
    BY <1>1, ConcatProperties
  <2> QED BY <2>1
<1>3. \A i \in 1 .. Len(s), j \in 1 .. Len(t) : s[i] # t[j]
  <2>1. Elements(s) = {s[i] : i \in 1 .. Len(s)} /\ Elements(t) = {t[j] : j \in 1 .. Len(t)}
    BY <1>1, ElementsOf
  <2>2. \A x : x \in Elements(s) => x \notin Elements(t)
    BY DEF Apart
  <2> QED BY <2>1, <2>2
<1>4. /\ \A i, j \in 1 .. Len(s) : s[i] = s[j] => i = j
      /\ \A i, j \in 1 .. Len(t) : t[i] = t[j] => i = j
  BY DEF Linked
<1>5. /\ ny[s[Len(s)]] = g
      /\ \A i \in 1 .. Len(s) : i # Len(s) => ny[s[i]] = s[i + 1]
      /\ \A i \in 1 .. Len(t) : ny[t[i]] = IF i = Len(t) THEN NULL ELSE t[i + 1]
  <2>1. \A i \in 1 .. Len(s) : s[i] \in Node /\ (i # Len(s) => s[i] # s[Len(s)])
    BY <1>1, <1>4
  <2>2. \A i \in 1 .. Len(t) : t[i] \in Node /\ t[i] # s[Len(s)]
    BY <1>1, <1>3
  <2>3. \A x \in Node : ny[x] = IF x = s[Len(s)] THEN g ELSE nx[x]
    OBVIOUS
  <2> HIDE DEF ny
  <2> QED BY <1>1, <2>1, <2>2, <2>3 DEF Linked
<1> HIDE DEF u, ny
<1>6. \A i, j \in 1 .. Len(u) : u[i] = u[j] => i = j
  <2> SUFFICES ASSUME NEW i \in 1 .. Len(s) + Len(t), NEW j \in 1 .. Len(s) + Len(t),
                      u[i] = u[j], i < j
               PROVE  FALSE
    BY <1>1, <1>2
  <2>1. CASE j <= Len(s)
    BY <1>1, <1>2, <1>4, <2>1
  <2>2. CASE i <= Len(s) /\ ~(j <= Len(s))
    <3>1. u[i] = s[i] /\ u[j] = t[j - Len(s)] /\ i \in 1 .. Len(s) /\ j - Len(s) \in 1 .. Len(t)
      BY <1>1, <1>2, <2>2
    <3> QED BY <1>3, <3>1
  <2>3. CASE ~(i <= Len(s))
    <3>1. /\ u[i] = t[i - Len(s)] /\ u[j] = t[j - Len(s)] /\ i - Len(s) # j - Len(s)
          /\ i - Len(s) \in 1 .. Len(t) /\ j - Len(s) \in 1 .. Len(t)
      BY <1>1, <1>2, <2>3
    <3> QED BY <1>4, <3>1
  <2> QED BY <2>1, <2>2, <2>3
<1>7. ASSUME NEW i \in 1 .. Len(u) PROVE ny[u[i]] = IF i = Len(u) THEN NULL ELSE u[i + 1]
  <2>1. CASE i < Len(s)
    <3>1. i \in 1 .. Len(s) /\ i # Len(s) /\ u[i] = s[i] /\ u[i + 1] = s[i + 1] /\ i # Len(u)
      BY <1>1, <1>2, <2>1
    <3> QED BY <1>5, <3>1
  <2>2. CASE i = Len(s)
    <3>1. u[i] = s[Len(s)]
      BY <1>1, <1>2, <2>2
    <3>2. CASE t = <<>>
      BY <1>1, <1>2, <1>5, <2>2, <3>1, <3>2 DEF Linked
    <3>3. CASE t # <<>>
      <4>1. g = t[1] /\ Len(t) > 0
        BY <1>1, <3>3 DEF Linked
      <4>2. i + 1 \in 1 .. Len(s) + Len(t) /\ ~(i + 1 <= Len(s)) /\ i + 1 - Len(s) = 1
        BY <1>1, <2>2, <4>1
      <4>3. u[i + 1] = t[1] /\ i # Len(u)
        BY <1>1, <1>2, <2>2, <4>2
      <4> QED BY <1>5, <3>1, <4>1, <4>3
    <3> QED BY <3>2, <3>3
  <2>3. CASE i > Len(s)
    <3> DEFINE k == i - Len(s)
    <3>1. k \in 1 .. Len(t) /\ u[i] = t[k] /\ (i = Len(u) <=> k = Len(t))
      BY <1>1, <1>2, <2>3
    <3>2. ASSUME i # Len(u) PROVE u[i + 1] = t[k + 1]
      <4>1. i + 1 \in 1 .. Len(s) + Len(t) /\ ~(i + 1 <= Len(s)) /\ i + 1 - Len(s) = k + 1
        <5>1. Len(u) = Len(s) + Len(t) /\ Len(s) \in Nat /\ Len(t) \in Nat
          BY <1>1, <1>2
        <5> QED BY <2>3, <3>2, <5>1
      <4> QED BY <1>2, <4>1
    <3> QED BY <1>5, <3>1, <3>2
  <2> QED BY <1>1, <1>2, <2>1, <2>2, <2>3
<1>8. u # <<>> /\ h = u[1]
  BY <1>1, <1>2 DEF Linked
<1>9. Linked(ny, h, u)
  BY <1>2, <1>6, <1>7, <1>8 DEF Linked
<1> QED BY <1>9 DEF ny, u

\* What is left of a sequence without one of its elements.
LEMMA WithoutOne ==
  ASSUME NEW s \in Seq(Node), NEW i \in 1 .. Len(s), \A j, k \in 1 .. Len(s) : s[j] = s[k] => j = k
  PROVE  LET t == Abstract!Without(s, i)
         IN  /\ t \in Seq(Node) /\ Len(t) = Len(s) - 1
             /\ \A j \in 1 .. Len(t) : t[j] = IF j < i THEN s[j] ELSE s[j + 1]
             /\ Elements(t) = Elements(s) \ {s[i]}
<1> DEFINE a == SubSeq(s, 1, i - 1)
           b == SubSeq(s, i + 1, Len(s))
           t == Abstract!Without(s, i)
<1>1. Len(s) \in Nat /\ i \in Int /\ i - 1 \in Int /\ i + 1 \in Int /\ \A j \in 1 .. Len(s) : s[j] \in Node
  OBVIOUS
<1>2. a \in Seq(Node) /\ Len(a) = i - 1 /\ \A j \in 1 .. i - 1 : a[j] = s[j]
  <2>1. \A j \in 1 .. i - 1 : s[j] \in Node
    BY <1>1
  <2>2. /\ a \in Seq(Node) /\ Len(a) = IF 1 <= i - 1 THEN (i - 1) - 1 + 1 ELSE 0
        /\ \A j \in 1 .. (i - 1) - 1 + 1 : a[j] = s[1 + j - 1]
    BY <1>1, <2>1, SubSeqProperties
  <2> HIDE DEF a
  <2> QED BY <1>1, <2>2
<1>3. b \in Seq(Node) /\ Len(b) = Len(s) - i /\ \A j \in 1 .. Len(s) - i : b[j] = s[i + j]
  <2>1. \A j \in i + 1 .. Len(s) : s[j] \in Node
    BY <1>1
  <2>2. /\ b \in Seq(Node) /\ Len(b) = IF i + 1 <= Len(s) THEN Len(s) - (i + 1) + 1 ELSE 0
        /\ \A j \in 1 .. Len(s) - (i + 1) + 1 : b[j] = s[(i + 1) + j - 1]
    BY <1>1, <2>1, SubSeqProperties
  <2> HIDE DEF b
  <2> QED BY <1>1, <2>2
<1>4. t = a \o b
  BY DEF Abstract!Without
<1> HIDE DEF a, b, t
<1>5. /\ t \in Seq(Node) /\ Len(t) = Len(s) - 1
      /\ \A j \in 1 .. Len(a) + Len(b) : t[j] = IF j <= Len(a) THEN a[j] ELSE b[j - Len(a)]
  <2>1. /\ a \o b \in Seq(Node) /\ Len(a \o b) = Len(a) + Len(b)
        /\ \A j \in 1 .. Len(a) + Len(b) : (a \o b)[j] = IF j <= Len(a) THEN a[j] ELSE b[j - Len(a)]
    <3>1. a \in Seq(Node) /\ b \in Seq(Node)
      BY <1>2, <1>3
    <3> QED BY <3>1, ConcatProperties
  <2> QED BY <1>1, <1>2, <1>3, <1>4, <2>1
<1>6. \A j \in 1 .. Len(t) : t[j] = IF j < i THEN s[j] ELSE s[j + 1]
  <2> SUFFICES ASSUME NEW j \in 1 .. Len(t) PROVE t[j] = IF j < i THEN s[j] ELSE s[j + 1]
    OBVIOUS
  <2>1. CASE j < i
    <3>1. j \in 1 .. Len(a) + Len(b) /\ j <= Len(a) /\ j \in 1 .. i - 1
      BY <1>1, <1>2, <1>3, <1>5, <2>1
    <3> QED BY <1>2, <1>5, <2>1, <3>1
  <2>2. CASE ~(j < i)
    <3>1. j \in 1 .. Len(a) + Len(b) /\ ~(j <= Len(a)) /\ j - Len(a) = j - i + 1 /\ j - i + 1 \in 1 .. Len(s) - i
      BY <1>1, <1>2, <1>3, <1>5, <2>2
    <3>2. t[j] = b[j - i + 1] /\ b[j - i + 1] = s[i + (j - i + 1)] /\ i + (j - i + 1) = j + 1
      BY <1>1, <1>3, <1>5, <3>1
    <3> QED BY <2>2, <3>2
  <2> QED BY <2>1, <2>2
<1>7. Elements(t) = Elements(s) \ {s[i]}
  <2>1. Elements(t) = {t[j] : j \in 1 .. Len(t)} /\ Elements(s) = {s[j] : j \in 1 .. Len(s)}
    BY <1>5, ElementsOf
  <2>2. \A j \in 1 .. Len(t) : t[j] \in Elements(s) /\ t[j] # s[i]
    <3> SUFFICES ASSUME NEW j \in 1 .. Len(t) PROVE t[j] \in Elements(s) /\ t[j] # s[i]
      OBVIOUS
    <3>1. PICK k \in 1 .. Len(s) : k # i /\ t[j] = s[k]
      BY <1>1, <1>5, <1>6
    <3> QED BY <2>1, <3>1
  <2>3. \A j \in 1 .. Len(s) : j # i => s[j] \in Elements(t)
    <3> SUFFICES ASSUME NEW j \in 1 .. Len(s), j # i PROVE \E k \in 1 .. Len(t) : t[k] = s[j]
      BY <2>1
    <3>1. CASE j < i
      BY <1>1, <1>5, <1>6, <3>1
    <3>2. CASE j > i
      <4>1. j - 1 \in 1 .. Len(t) /\ ~(j - 1 < i) /\ j - 1 + 1 = j
        BY <1>1, <1>5, <3>2
      <4>2. t[j - 1] = s[j - 1 + 1]
        BY <1>6, <4>1
      <4> QED BY <4>1, <4>2
    <3> QED BY <3>1, <3>2
  <2>4. Elements(t) \subseteq Elements(s) \ {s[i]}
    BY <2>1, <2>2
  <2>5. Elements(s) \ {s[i]} \subseteq Elements(t)
    BY <2>1, <2>3
  <2> QED BY <2>4, <2>5
<1> QED BY <1>5, <1>6, <1>7 DEF t

\* The first element unlinked.
LEMMA LinkedUnlinkFirst ==
  ASSUME NEW nx \in [Node -> Ptr], NEW h, NEW s, Linked(nx, h, s), s # <<>>
  PROVE  Linked([nx EXCEPT ![h] = NULL], nx[h], Abstract!Without(s, 1))
<1> DEFINE ny == [nx EXCEPT ![h] = NULL]
           t == Abstract!Without(s, 1)
<1>1. /\ s \in Seq(Node) /\ Len(s) \in Nat /\ 1 \in 1 .. Len(s) /\ h = s[1]
      /\ \A i, j \in 1 .. Len(s) : s[i] = s[j] => i = j
      /\ \A i \in 1 .. Len(s) : s[i] \in Node /\ nx[s[i]] = IF i = Len(s) THEN NULL ELSE s[i + 1]
  BY DEF Linked
<1>2. t \in Seq(Node) /\ Len(t) = Len(s) - 1 /\ \A j \in 1 .. Len(t) : t[j] = s[j + 1]
  <2>1. t \in Seq(Node) /\ Len(t) = Len(s) - 1 /\ \A j \in 1 .. Len(t) : t[j] = IF j < 1 THEN s[j] ELSE s[j + 1]
    BY <1>1, WithoutOne
  <2> HIDE DEF t
  <2> QED BY <1>1, <2>1
<1>3. \A x \in Node : ny[x] = IF x = s[1] THEN NULL ELSE nx[x]
  BY <1>1
<1> HIDE DEF t, ny
<1>4. \A j \in 1 .. Len(t) : j + 1 \in 1 .. Len(s) /\ j + 1 # 1 /\ (j = Len(t) <=> j + 1 = Len(s))
  BY <1>1, <1>2
<1>5. \A i, j \in 1 .. Len(t) : t[i] = t[j] => i = j
  <2> SUFFICES ASSUME NEW i \in 1 .. Len(t), NEW j \in 1 .. Len(t), t[i] = t[j] PROVE i = j
    OBVIOUS
  <2>1. i + 1 = j + 1
    BY <1>1, <1>2, <1>4
  <2> QED BY <2>1
<1>6. \A j \in 1 .. Len(t) : ny[t[j]] = IF j = Len(t) THEN NULL ELSE t[j + 1]
  <2> SUFFICES ASSUME NEW j \in 1 .. Len(t) PROVE ny[t[j]] = IF j = Len(t) THEN NULL ELSE t[j + 1]
    OBVIOUS
  <2>1. s[j + 1] \in Node /\ s[j + 1] # s[1] /\ t[j] = s[j + 1]
    BY <1>1, <1>2, <1>4
  <2>2. ny[t[j]] = IF j = Len(t) THEN NULL ELSE s[j + 1 + 1]
    BY <1>1, <1>3, <1>4, <2>1
  <2>3. j # Len(t) => j + 1 \in 1 .. Len(t)
    BY <1>1, <1>2
  <2> QED BY <1>2, <2>2, <2>3
<1>7. nx[h] = IF t = <<>> THEN NULL ELSE t[1]
  <2>1. CASE t = <<>>
    BY <1>1, <1>2, <2>1
  <2>2. CASE t # <<>>
    <3>1. 1 \in 1 .. Len(t) /\ Len(s) # 1
      BY <1>1, <1>2, <2>2
    <3> QED BY <1>1, <1>2, <2>2, <3>1
  <2> QED BY <2>1, <2>2
<1>8. Linked(ny, nx[h], t)
  BY <1>2, <1>5, <1>6, <1>7 DEF Linked
<1> QED BY <1>8 DEF ny, t

\* The element behind another unlinked.
LEMMA LinkedUnlinkNext ==
  ASSUME NEW nx \in [Node -> Ptr], NEW h, NEW s, Linked(nx, h, s), NEW j \in 1 .. Len(s) - 1
  PROVE  Linked([nx EXCEPT ![s[j + 1]] = NULL, ![s[j]] = nx[s[j + 1]]], h, Abstract!Without(s, j + 1))
<1> DEFINE ny == [nx EXCEPT ![s[j + 1]] = NULL, ![s[j]] = nx[s[j + 1]]]
           t == Abstract!Without(s, j + 1)
<1>1. /\ s \in Seq(Node) /\ Len(s) \in Nat /\ j \in 1 .. Len(s) /\ j + 1 \in 1 .. Len(s)
      /\ \A i, k \in 1 .. Len(s) : s[i] = s[k] => i = k
      /\ \A i \in 1 .. Len(s) : s[i] \in Node /\ nx[s[i]] = IF i = Len(s) THEN NULL ELSE s[i + 1]
  BY DEF Linked
<1>2. t \in Seq(Node) /\ Len(t) = Len(s) - 1 /\ \A i \in 1 .. Len(t) : t[i] = IF i < j + 1 THEN s[i] ELSE s[i + 1]
  BY <1>1, WithoutOne
<1>3. \A x \in Node : ny[x] = IF x = s[j] THEN nx[s[j + 1]] ELSE IF x = s[j + 1] THEN NULL ELSE nx[x]
  BY <1>1
<1> HIDE DEF t, ny
<1> DEFINE at(i) == IF i < j + 1 THEN i ELSE i + 1
<1>4. \A i \in 1 .. Len(t) : at(i) \in 1 .. Len(s) /\ at(i) # j + 1 /\ t[i] = s[at(i)]
  BY <1>1, <1>2
<1>5. \A i, k \in 1 .. Len(t) : t[i] = t[k] => i = k
  <2> SUFFICES ASSUME NEW i \in 1 .. Len(t), NEW k \in 1 .. Len(t), t[i] = t[k] PROVE i = k
    OBVIOUS
  <2>1. at(i) \in 1 .. Len(s) /\ at(k) \in 1 .. Len(s) /\ s[at(i)] = s[at(k)]
    BY <1>4
  <2>2. \A a, b \in 1 .. Len(s) : s[a] = s[b] => a = b
    BY <1>1
  <2>3. at(i) = at(k)
    <3> HIDE DEF at
    <3> QED BY <2>1, <2>2
  <2> QED BY <2>3
<1>6. \A i \in 1 .. Len(t) : ny[t[i]] = IF i = Len(t) THEN NULL ELSE t[i + 1]
  <2> SUFFICES ASSUME NEW i \in 1 .. Len(t) PROVE ny[t[i]] = IF i = Len(t) THEN NULL ELSE t[i + 1]
    OBVIOUS
  <2>1. i # Len(t) => i + 1 \in 1 .. Len(t)
    <3>1. Len(t) \in Nat
      BY <1>2
    <3> QED BY <3>1
  <2>2. CASE i < j
    <3>1. i \in 1 .. Len(s) /\ i # j /\ i # j + 1 /\ i # Len(s) /\ i # Len(t) /\ i + 1 < j + 1 /\ i < j + 1
      BY <1>1, <1>2, <2>2
    <3>2. t[i] = s[i] /\ t[i + 1] = s[i + 1]
      BY <1>2, <2>1, <3>1
    <3>3. s[i] \in Node /\ s[i] # s[j] /\ s[i] # s[j + 1] /\ nx[s[i]] = s[i + 1]
      BY <1>1, <3>1
    <3> QED BY <1>3, <3>1, <3>2, <3>3
  <2>3. CASE i = j
    <3>1. t[i] = s[j] /\ (i = Len(t) <=> j + 1 = Len(s))
      BY <1>1, <1>2, <2>3
    <3>2. i # Len(t) => t[i + 1] = s[j + 1 + 1]
      BY <1>1, <1>2, <2>1, <2>3
    <3>3. ny[t[i]] = nx[s[j + 1]]
      BY <1>1, <1>3, <3>1
    <3> QED BY <1>1, <3>1, <3>2, <3>3
  <2>4. CASE i > j
    <3>1. /\ i + 1 \in 1 .. Len(s) /\ i + 1 # j /\ i + 1 # j + 1 /\ ~(i < j + 1) /\ ~(i + 1 < j + 1)
          /\ (i = Len(t) <=> i + 1 = Len(s))
      BY <1>1, <1>2, <2>4
    <3>2. t[i] = s[i + 1] /\ (i # Len(t) => t[i + 1] = s[i + 1 + 1])
      BY <1>2, <2>1, <3>1
    <3>3. s[i + 1] \in Node /\ s[i + 1] # s[j] /\ s[i + 1] # s[j + 1]
      BY <1>1, <3>1
    <3> QED BY <1>1, <1>3, <3>1, <3>2, <3>3
  <2> QED BY <1>1, <1>2, <2>2, <2>3, <2>4
<1>7. h = IF t = <<>> THEN NULL ELSE t[1]
  <2>1. 1 \in 1 .. Len(t) /\ 1 < j + 1
    BY <1>1, <1>2
  <2>2. t # <<>> /\ t[1] = s[1] /\ s # <<>>
    BY <1>1, <1>2, <2>1
  <2> QED BY <2>2 DEF Linked
<1>8. Linked(ny, h, t)
  BY <1>2, <1>5, <1>6, <1>7 DEF Linked
<1> QED BY <1>8 DEF ny, t

\* lrcu_list_get_tail finds the last element.
LEMMA LastOfLinked ==
  ASSUME NEW h, NEW s, Linked(next, h, s), s # <<>>
  PROVE  LastOf(h) = s[Len(s)]
<1>1. /\ s \in Seq(Node) /\ Len(s) \in Nat \ {0} /\ DOMAIN s = 1 .. Len(s)
      /\ \A i \in 1 .. Len(s) : s[i] \in Node /\ next[s[i]] = IF i = Len(s) THEN NULL ELSE s[i + 1]
  BY DEF Linked
<1>2. \A i \in 1 .. Len(s) : next[s[i]] = NULL => i = Len(s)
  <2> SUFFICES ASSUME NEW i \in 1 .. Len(s), i # Len(s) PROVE next[s[i]] # NULL
    OBVIOUS
  <2>0. Len(s) \in Nat
    BY <1>1
  <2>1. i + 1 \in 1 .. Len(s)
    BY <2>0
  <2> QED BY <1>1, <2>1, NodeAssumption
<1>3. Len(s) \in 1 .. Len(s) /\ next[s[Len(s)]] = NULL /\ s[Len(s)] \in Node
  <2>1. Len(s) \in Nat \ {0}
    BY <1>1
  <2>2. Len(s) \in 1 .. Len(s)
    BY <2>1
  <2> QED BY <1>1, <2>2
<1>4. \A x \in Node : next[x] = NULL /\ (\E i \in DOMAIN s : s[i] = x) <=> x = s[Len(s)]
  BY <1>1, <1>2, <1>3
<1>5. LastOf(h) = CHOOSE x \in Node : next[x] = NULL /\ \E i \in DOMAIN s : s[i] = x
  BY WalkLinked DEF LastOf, Path
<1> QED BY <1>3, <1>4, <1>5

-----------------------------------------------------------------------------
(* The steps of the callers.                                               *)

\* What the paths of a state are when proper lists start where it points.
LEMMA PathsAre ==
  ASSUME NEW s, NEW w, NEW t, Lists(s, w, t)
  PROVE  Path(head) = s /\ Path(workHead) = w /\ Taken = t
<1>1. Path(head) = s /\ Path(workHead) = w /\ (worker = "attach" => Path(chain) = t)
  BY WalkLinked DEF Lists, Path
<1> QED BY <1>1 DEF Lists, Taken

\* The members of the lists are elements.
LEMMA ListsInNode ==
  ASSUME NEW s, NEW w, NEW t, Lists(s, w, t)
  PROVE  /\ Elements(s) \subseteq Node /\ Elements(w) \subseteq Node /\ Elements(t) \subseteq Node
         /\ s \in Seq(Node) /\ w \in Seq(Node) /\ t \in Seq(Node)
         /\ Elements(<<>>) = {} /\ <<>> \in Seq(Node)
<1>2. Elements(<<>>) = {} /\ <<>> \in Seq(Node)
  BY DEF Elements
<1>1. s \in Seq(Node) /\ w \in Seq(Node) /\ t \in Seq(Node)
  BY <1>2 DEF Lists, Linked
<1> QED BY <1>1, <1>2, ElementsOf

\* An empty list is where no pointer leads.
LEMMA LinkedNull ==
  ASSUME NEW nx
  PROVE  Linked(nx, NULL, <<>>)
BY DEF Linked

\* Stores to elements in none of the lists leave them as they are.
LEMMA ListsFrame ==
  ASSUME NEW s, NEW w, NEW t, Lists(s, w, t),
         head' = head, workHead' = workHead, chain' = chain, worker' = worker,
         \A x \in Elements(s) \cup Elements(w) \cup Elements(t) : next'[x] = next[x]
  PROVE  Lists(s, w, t)'
<1>1. Linked(next', head', s) /\ Linked(next', workHead', w)
  BY LinkedFrame DEF Lists
<1>2. worker' = "attach" => Linked(next', chain', t)
  BY LinkedFrame DEF Lists
<1> QED BY <1>1, <1>2 DEF Lists

\* The cursor's place does not depend on the queue.
LEMMA CursorFrame ==
  ASSUME NEW w, Cursor(w), UNCHANGED <<kind, worker, n, nPrev>>
  PROVE  Cursor(w)'
BY DEF Cursor, At, InRound

\* A call takes list_lock and an element that is in no list.
LEMMA CallKeeps ==
  ASSUME NEW s, NEW w, NEW t, QTypeOK, HeldInv, QueueIs(s, w, t), NEW p \in Proc, Call(p)
  PROVE  QTypeOK' /\ HeldInv' /\ QueueIs(s, w, t)'
<1>1. PICK x \in Node \ live : /\ live' = live \cup {x} /\ e' = [e EXCEPT ![p] = x]
                               /\ call' = [call EXCEPT ![p] = "link"] /\ call[p] = "idle"
                               /\ p = Worker => worker = "func"
                               /\ IF build.atomic THEN UNCHANGED lock ELSE lock = NoProc /\ lock' = p
                               /\ UNCHANGED <<build, kind, head, next, workVars>>
  BY DEF Call
<1>2. QTypeOK'
  BY <1>1 DEF QTypeOK, workVars, Ptr
<1>3. HeldInv'
  <2>1. \A q \in Proc : call'[q] = (IF q = p THEN "link" ELSE call[q])
    BY <1>1 DEF QTypeOK
  <2>2. \A q \in Proc : q # p => e'[q] = e[q]
    BY <1>1 DEF QTypeOK
  <2>3. \A q \in Proc : q # p /\ call[q] # "idle" => build.atomic \/ lock' = q
    BY <1>1, NodeAssumption DEF HeldInv
  <2> QED BY <1>1, <2>1, <2>2, <2>3, NodeAssumption DEF HeldInv, workVars, Proc
<1>4. Lists(s, w, t)'
  BY <1>1, ListsFrame DEF QueueIs, workVars
<1>5. Places(s, w, t)'
  <2>1. Inserting' = Inserting \cup {p} /\ p \notin Inserting
    BY <1>1 DEF Inserting, QTypeOK
  <2>2. e'[p] = x /\ \A q \in Inserting : e'[q] = e[q] /\ e[q] # x
    BY <1>1, <2>1 DEF QTypeOK, QueueIs, Places, Inserting
  <2>3. x \notin Elements(w) \cup Elements(t) \cup Queued(s)
    BY DEF QueueIs, Places
  <2>4. x \notin Elements(s)
    BY <1>1, <2>3, NodeAssumption DEF HeldInv, Queued, Proc
  <2> QED BY <1>1, <2>1, <2>2, <2>3, <2>4 DEF QueueIs, Places, Queued, workVars
<1>6. Cursor(w)'
  BY <1>1, CursorFrame DEF QueueIs, workVars
<1>7. Checks(s)'
  BY <1>1 DEF QueueIs, Checks, QTypeOK
<1> QED BY <1>2, <1>3, <1>4, <1>5, <1>6, <1>7 DEF QueueIs

\* e->next is stored before anyone else sees e.
LEMMA LinkKeeps ==
  ASSUME NEW s, NEW w, NEW t, QTypeOK, HeldInv, QueueIs(s, w, t), NEW p \in Proc, Link(p)
  PROVE  QTypeOK' /\ HeldInv' /\ QueueIs(s, w, t)'
<1>1. QTypeOK'
  BY DEF Link, QTypeOK, workVars
<1>2. p \in Inserting /\ e[p] \in Node /\ e[p] \notin Elements(s) \cup Elements(w) \cup Elements(t)
  BY DEF Link, Inserting, QueueIs, Places, QTypeOK
<1>3. HeldInv'
  <2>1. next'[e[p]] = head /\ \A x \in Node : x # e[p] => next'[x] = next[x]
    BY <1>2 DEF Link, QTypeOK
  <2>2. \A q \in Proc : call'[q] = IF q = p THEN "publish" ELSE call[q]
    BY DEF Link, QTypeOK
  <2>3. \A q \in Proc : q # p /\ call[q] = "publish" => e[q] # e[p] /\ e[q] \in Node
    BY <1>2 DEF Inserting, QueueIs, Places, QTypeOK
  <2> QED BY <2>1, <2>2, <2>3 DEF HeldInv, Link, workVars
<1>4. Lists(s, w, t)'
  <2>1. \A x \in Elements(s) \cup Elements(w) \cup Elements(t) : next'[x] = next[x]
    BY <1>2, ListsInNode DEF Link, QTypeOK, QueueIs
  <2> QED BY <2>1, ListsFrame DEF QueueIs, Link, workVars
<1>5. Places(s, w, t)'
  <2>1. Inserting' = Inserting
    BY DEF Inserting, Link, QTypeOK
  <2> QED BY <2>1 DEF QueueIs, Places, Queued, Link, workVars
<1>6. Cursor(w)'
  BY CursorFrame DEF QueueIs, Link, workVars
<1>7. Checks(s)'
  BY DEF QueueIs, Checks, Link, QTypeOK
<1> QED BY <1>1, <1>3, <1>4, <1>5, <1>6, <1>7 DEF QueueIs

\* The head that is replaced is the one the new element points to.
LEMMA InsertedKeeps ==
  ASSUME NEW s, NEW w, NEW t, QTypeOK, HeldInv, QueueIs(s, w, t), NEW p \in Proc,
         call[p] = "publish", head = next[e[p]], Inserted(p), NEW x, x = e[p]
  PROVE  QTypeOK' /\ HeldInv' /\ QueueIs(<<x>> \o s, w, t)'
<1> DEFINE u == <<x>> \o s
<1>1. QTypeOK'
  BY DEF Inserted, QTypeOK, workVars
<1>2. /\ p \in Inserting /\ e[p] \in Node /\ e[p] \in live
      /\ e[p] \notin Elements(s) \cup Elements(w) \cup Elements(t)
  BY DEF Inserting, QueueIs, Places, QTypeOK
<1>3. worker # "init"
  BY NodeAssumption DEF HeldInv, Proc
<1>4. \A q \in Proc : call'[q] = IF q = p THEN IF build.check THEN "check" ELSE "unlock" ELSE call[q]
  BY DEF Inserted, QTypeOK
<1>5. HeldInv'
  <2>1. \A q \in Proc : q # p /\ call[q] # "idle" => build.atomic
    BY DEF HeldInv
  <2> QED BY <1>3, <1>4, <2>1 DEF HeldInv, Inserted, workVars
<1>6. Linked(next, x, u) /\ Elements(u) = Elements(s) \cup {x}
  BY <1>2, LinkedPush DEF QueueIs, Lists
<1> HIDE DEF u
<1>7. Lists(u, w, t)'
  BY <1>6 DEF QueueIs, Lists, Inserted, workVars
<1>8. Places(u, w, t)'
  <2>1. Inserting' = Inserting \ {p}
    BY <1>4 DEF Inserting
  <2>2. \A q \in Inserting \ {p} : e[q] # e[p]
    BY <1>2 DEF QueueIs, Places
  <2>3. worker' # "init"
    BY <1>3 DEF Inserted, workVars
  <2> QED BY <1>2, <1>3, <1>6, <2>1, <2>2, <2>3 DEF QueueIs, Places, Apart, Queued, Inserted, workVars
<1>9. Cursor(w)'
  BY CursorFrame DEF QueueIs, Inserted, workVars
<1>10. Checks(u)'
  BY <1>4, <1>6 DEF QueueIs, Checks, Inserted
<1> QED BY <1>1, <1>5, <1>7, <1>8, <1>9, <1>10 DEF QueueIs, u

\* A failed compare-and-exchange gives the element the head it has read.
LEMMA RetryKeeps ==
  ASSUME NEW s, NEW w, NEW t, QTypeOK, HeldInv, QueueIs(s, w, t), NEW p \in Proc,
         call[p] = "publish", build.atomic,
         next' = [next EXCEPT ![e[p]] = head],
         UNCHANGED <<build, kind, head, live, lock, call, e, workVars>>
  PROVE  QTypeOK' /\ HeldInv' /\ QueueIs(s, w, t)'
<1>1. QTypeOK'
  BY DEF QTypeOK, workVars
<1>2. p \in Inserting /\ e[p] \in Node /\ e[p] \notin Elements(s) \cup Elements(w) \cup Elements(t)
  BY DEF Inserting, QueueIs, Places, QTypeOK
<1>3. HeldInv'
  BY DEF HeldInv, workVars
<1>4. Lists(s, w, t)'
  <2>1. \A x \in Elements(s) \cup Elements(w) \cup Elements(t) : next'[x] = next[x]
    BY <1>2, ListsInNode DEF QTypeOK, QueueIs
  <2> QED BY <2>1, ListsFrame DEF QueueIs, workVars
<1>5. Places(s, w, t)'
  BY DEF QueueIs, Places, Queued, workVars, Inserting
<1>6. Cursor(w)'
  BY CursorFrame DEF QueueIs, workVars
<1>7. Checks(s)'
  BY DEF QueueIs, Checks
<1> QED BY <1>1, <1>3, <1>4, <1>5, <1>6, <1>7 DEF QueueIs

\* lrcu_list_check_loop stays on the queue until its end.
LEMMA CheckLoopKeeps ==
  ASSUME NEW s, NEW w, NEW t, QTypeOK, HeldInv, QueueIs(s, w, t), NEW p \in Proc, CheckLoop(p)
  PROVE  QTypeOK' /\ HeldInv' /\ QueueIs(s, w, t)'
<1>1. e[p] \in Node /\ next[e[p]] \in Ptr
  BY DEF CheckLoop, QTypeOK, Ptr
<1>2. \A q \in Proc : /\ call'[q] = IF q = p THEN IF next[e[p]] = NULL THEN "unlock" ELSE "check"
                                    ELSE call[q]
                      /\ e'[q] = IF q = p THEN next[e[p]] ELSE e[q]
  BY DEF CheckLoop, QTypeOK
<1>3. QTypeOK'
  BY <1>1 DEF CheckLoop, QTypeOK, workVars
<1>4. HeldInv'
  BY <1>2 DEF HeldInv, CheckLoop, workVars
<1>5. Lists(s, w, t)'
  BY ListsFrame DEF QueueIs, CheckLoop, workVars
<1>6. Places(s, w, t)'
  <2>1. Inserting' = Inserting /\ p \notin Inserting
    BY <1>2 DEF Inserting, CheckLoop
  <2>2. \A q \in Inserting : e'[q] = e[q]
    BY <1>2, <2>1 DEF Inserting
  <2> QED BY <2>1, <2>2 DEF QueueIs, Places, Queued, CheckLoop, workVars
<1>7. Cursor(w)'
  BY CursorFrame DEF QueueIs, CheckLoop, workVars
<1>8. ASSUME e[p] \in Elements(s), next[e[p]] # NULL PROVE next[e[p]] \in Elements(s)
  <2>1. /\ s \in Seq(Node) /\ Elements(s) = {s[i] : i \in 1 .. Len(s)} /\ Len(s) \in Nat
        /\ \A i \in 1 .. Len(s) : next[s[i]] = IF i = Len(s) THEN NULL ELSE s[i + 1]
    BY ElementsOf DEF QueueIs, Lists, Linked
  <2>2. PICK i \in 1 .. Len(s) : e[p] = s[i]
    BY <1>8, <2>1
  <2>3. i # Len(s) /\ next[e[p]] = s[i + 1]
    BY <1>8, <2>1, <2>2
  <2>4. i + 1 \in 1 .. Len(s)
    <3>1. Len(s) \in Nat
      BY <2>1
    <3> QED BY <2>3, <3>1
  <2> QED BY <2>1, <2>3, <2>4
<1>9. Checks(s)'
  BY <1>2, <1>8 DEF QueueIs, Checks, CheckLoop
<1> QED BY <1>3, <1>4, <1>5, <1>6, <1>7, <1>9 DEF QueueIs

\* The end of a call.
LEMMA ReturnKeeps ==
  ASSUME NEW s, NEW w, NEW t, QTypeOK, HeldInv, QueueIs(s, w, t), NEW p \in Proc, Return(p)
  PROVE  QTypeOK' /\ HeldInv' /\ QueueIs(s, w, t)'
<1>2. \A q \in Proc : /\ call'[q] = IF q = p THEN "idle" ELSE call[q]
                      /\ e'[q] = IF q = p THEN NULL ELSE e[q]
  BY DEF Return, QTypeOK
<1>3. QTypeOK'
  BY DEF Return, QTypeOK, workVars, Ptr
<1>4. HeldInv'
  <2>1. \A q \in Proc : q # p /\ call[q] # "idle" => build.atomic
    BY DEF HeldInv, Return
  <2>2. worker # "init" \/ build.atomic
    BY NodeAssumption DEF HeldInv, Return, Proc
  <2> QED BY <1>2, <2>1, <2>2 DEF HeldInv, Return, workVars
<1>5. Lists(s, w, t)'
  BY ListsFrame DEF QueueIs, Return, workVars
<1>6. Places(s, w, t)'
  <2>1. Inserting' = Inserting /\ p \notin Inserting
    BY <1>2 DEF Inserting, Return
  <2>2. \A q \in Inserting : e'[q] = e[q]
    BY <1>2, <2>1 DEF Inserting
  <2> QED BY <2>1, <2>2 DEF QueueIs, Places, Queued, Return, workVars
<1>7. Cursor(w)'
  BY CursorFrame DEF QueueIs, Return, workVars
<1>9. Checks(s)'
  BY <1>2 DEF QueueIs, Checks, Return
<1> QED BY <1>3, <1>4, <1>5, <1>6, <1>7, <1>9 DEF QueueIs

-----------------------------------------------------------------------------
(* The steps of the worker.                                                *)

\* Steps of the worker that change neither list nor queue: what is left to show.
LEMMA WorkerFrame ==
  ASSUME NEW s, NEW w, NEW t, QTypeOK, HeldInv, QueueIs(s, w, t),
         UNCHANGED <<build, kind, listVars, workHead>>,
         worker \notin {"init", "attach"}, worker' \notin {"init", "attach"}, QTypeOK',
         worker' = "reset" => build.atomic, worker' = "splice" => ~build.atomic,
         worker = "func" => worker' = "func" \/ call[Worker] = "idle",
         Cursor(w)'
  PROVE  QTypeOK' /\ HeldInv' /\ QueueIs(s, w, t)'
<1>1. HeldInv'
  BY DEF HeldInv, listVars
<1>2. Lists(s, w, t)'
  BY DEF QueueIs, Lists, listVars
<1>3. Places(s, w, t)'
  BY DEF QueueIs, Places, Queued, Inserting, listVars
<1>4. Checks(s)'
  BY DEF QueueIs, Checks, listVars
<1> QED BY <1>1, <1>2, <1>3, <1>4 DEF QueueIs

\* The test of the queue's head.
LEMMA TestKeeps ==
  ASSUME NEW s, NEW w, NEW t, QTypeOK, HeldInv, QueueIs(s, w, t), Test
  PROVE  QTypeOK' /\ HeldInv' /\ QueueIs(s, w, t)'
<1>1. QTypeOK'
  BY DEF Test, QTypeOK, listVars
<1>2. Cursor(w)'
  BY DEF Test, Cursor, InRound
<1> QED BY <1>1, <1>2, WorkerFrame DEF Test

\* Keeping an element, calling it, and the return of a destructor of a hlist
\* leave the cursor where it is.
LEMMA KeepKeeps ==
  ASSUME NEW s, NEW w, NEW t, QTypeOK, HeldInv, QueueIs(s, w, t), Keep \/ Run \/ HeadFuncReturns,
         NEW j \in 0 .. Len(w), At(w, j)
  PROVE  QTypeOK' /\ HeldInv' /\ QueueIs(s, w, t)' /\ At(w, j)'
<1>1. QTypeOK'
  BY DEF Keep, Run, HeadFuncReturns, QTypeOK, listVars
<1>2. At(w, j)'
  BY NodeAssumption DEF At, Keep, Run, HeadFuncReturns, QTypeOK, listVars
<1>3. Cursor(w)'
  BY <1>2 DEF Cursor
<1> QED BY <1>1, <1>2, <1>3, WorkerFrame DEF Keep, Run, HeadFuncReturns

\* A round starts in front of the list.
LEMMA RoundKeeps ==
  ASSUME NEW s, NEW w, NEW t, QTypeOK, HeldInv, QueueIs(s, w, t), Round
  PROVE  QTypeOK' /\ HeldInv' /\ QueueIs(s, w, t)'
<1>1. QTypeOK'
  BY DEF Round, QTypeOK, listVars, Ptr
<1>2. Cursor(w)'
  <2>1. CASE workHead = NULL
    BY <2>1 DEF Round, Cursor, InRound
  <2>2. CASE workHead # NULL
    <3>1. NULL \notin Elements(w)
      BY ListsInNode, NodeAssumption DEF QueueIs
    <3>2. At(w, 0)'
      BY <2>2, <3>1 DEF Round, At
    <3>3. 0 \in 0 .. Len(w)
      BY ListsInNode DEF QueueIs
    <3> QED BY <3>2, <3>3 DEF Cursor
  <2> QED BY <2>1, <2>2
<1> QED BY <1>1, <1>2, WorkerFrame DEF Round

\* What the cursor reads: nPrev is NULL in front of the list only, and behind
\* nPrev comes the next element of the list, or none.
LEMMA CursorReads ==
  ASSUME NEW s, NEW w, NEW t, QueueIs(s, w, t), NEW j \in 0 .. Len(w), At(w, j)
  PROVE  /\ w \in Seq(Node) /\ Len(w) \in Nat /\ \A i \in 1 .. Len(w) : w[i] \in Elements(w)
         /\ nPrev = NULL <=> j = 0
         /\ \A i \in 1 .. Len(w) : w[i] \in Node /\ w[i] # NULL
         /\ \A i, k \in 1 .. Len(w) : w[i] = w[k] => i = k
         /\ \A i \in 1 .. Len(w) : next[w[i]] = IF i = Len(w) THEN NULL ELSE w[i + 1]
         /\ workHead = IF Len(w) = 0 THEN NULL ELSE w[1]
         /\ Target = IF j = Len(w) THEN NULL ELSE w[j + 1]
<1>1. /\ w \in Seq(Node) /\ Len(w) \in Nat /\ (w = <<>> <=> Len(w) = 0)
      /\ \A i \in 1 .. Len(w) : w[i] \in Elements(w) /\ w[i] \in Node
  BY ListsInNode, ElementsOf DEF QueueIs
<1>2. \A i \in 1 .. Len(w) : w[i] # NULL
  BY <1>1, NodeAssumption
<1>3. /\ \A i, k \in 1 .. Len(w) : w[i] = w[k] => i = k
      /\ \A i \in 1 .. Len(w) : next[w[i]] = IF i = Len(w) THEN NULL ELSE w[i + 1]
      /\ workHead = IF Len(w) = 0 THEN NULL ELSE w[1]
  BY <1>1 DEF QueueIs, Lists, Linked
<1>4. j = 0 \/ j \in 1 .. Len(w)
  BY <1>1
<1>5. nPrev = NULL <=> j = 0
  BY <1>2, <1>4 DEF At
<1>6. Target = IF j = Len(w) THEN NULL ELSE w[j + 1]
  <2>1. CASE j = 0
    BY <1>1, <1>3, <1>5, <2>1 DEF Target
  <2>2. CASE j # 0
    BY <1>3, <1>4, <1>5, <2>2 DEF Target, At
  <2> QED BY <2>1, <2>2
<1> QED BY <1>1, <1>2, <1>3, <1>5, <1>6

\* The cursor goes to the element after the last one it has kept.
LEMMA IterateKeeps ==
  ASSUME NEW s, NEW w, NEW t, QTypeOK, HeldInv, QueueIs(s, w, t), Iterate,
         NEW j \in 0 .. Len(w), At(w, j)
  PROVE  /\ QTypeOK' /\ HeldInv' /\ QueueIs(s, w, t)'
         /\ \E k \in j .. j + 1 :
                /\ k = (IF n \in Elements(w) THEN j + 1 ELSE j) /\ k <= Len(w)
                /\ n' = IF k = Len(w) THEN NULL ELSE w[k + 1]
                /\ n' # NULL => At(w, k)'
<1>1. /\ w \in Seq(Node) /\ Len(w) \in Nat /\ \A i \in 1 .. Len(w) : w[i] \in Elements(w)
      /\ nPrev = NULL <=> j = 0
      /\ \A i \in 1 .. Len(w) : w[i] \in Node /\ w[i] # NULL
      /\ \A i \in 1 .. Len(w) : next[w[i]] = IF i = Len(w) THEN NULL ELSE w[i + 1]
      /\ workHead = IF Len(w) = 0 THEN NULL ELSE w[1]
  BY CursorReads
<1>2. \E k \in j .. j + 1 :
          /\ k = (IF n \in Elements(w) THEN j + 1 ELSE j) /\ k <= Len(w)
          /\ n' = IF k = Len(w) THEN NULL ELSE w[k + 1]
          /\ IF k = 0 THEN nPrev' = NULL ELSE nPrev' = w[k]
  <2>1. CASE n \notin Elements(w)
    <3>1. CASE j = 0
      <4>1. n = NULL \/ n # workHead
        BY <1>1, <2>1
      <4>2. n' = workHead /\ nPrev' = NULL
        BY <1>1, <3>1, <4>1 DEF Iterate, StepCursor
      <4> QED BY <1>1, <2>1, <3>1, <4>2
    <3>2. CASE j # 0
      <4>1. nPrev = w[j] /\ j \in 1 .. Len(w) /\ n \in Node /\ n # NULL
        BY <1>1, <3>2, NodeAssumption DEF At
      <4>2. next[nPrev] = (IF j = Len(w) THEN NULL ELSE w[j + 1]) /\ (j # Len(w) => j + 1 \in 1 .. Len(w))
        BY <1>1, <4>1
      <4>3. next[nPrev] # n
        BY <1>1, <2>1, <4>1, <4>2
      <4>4. n' = next[nPrev] /\ nPrev' = w[j]
        BY <1>1, <3>2, <4>1, <4>3 DEF Iterate, StepCursor
      <4> QED BY <1>1, <2>1, <3>2, <4>1, <4>2, <4>4
    <3> QED BY <3>1, <3>2
  <2>2. CASE n \in Elements(w)
    <3>1. j < Len(w) /\ n = w[j + 1] /\ j + 1 \in 1 .. Len(w)
      BY <1>1, <2>2 DEF At, Iterate
    <3>2. CASE j = 0
      <4>0. n = w[1] /\ 1 \in 1 .. Len(w) /\ 1 + 1 = 2
        BY <3>1, <3>2
      <4>a. next[w[1]] = IF 1 = Len(w) THEN NULL ELSE w[1 + 1]
        BY <1>1, <4>0
      <4>b. Len(w) # 0 /\ w[1] # NULL
        BY <1>1, <4>0
      <4>1. n = workHead /\ n # NULL /\ next[n] = IF 1 = Len(w) THEN NULL ELSE w[2]
        BY <1>1, <4>0, <4>a, <4>b
      <4>2. n' = next[n] /\ nPrev' = w[1]
        BY <1>1, <3>1, <3>2, <4>1 DEF Iterate, StepCursor
      <4> QED BY <1>1, <2>2, <3>1, <3>2, <4>1, <4>2
    <3>3. CASE j # 0
      <4>1. nPrev = w[j] /\ j \in 1 .. Len(w)
        BY <1>1, <3>3 DEF At
      <4>2. next[nPrev] = n /\ next[n] = IF j + 1 = Len(w) THEN NULL ELSE w[j + 1 + 1]
        BY <1>1, <3>1, <4>1
      <4>3. n' = next[n] /\ nPrev' = w[j + 1]
        BY <1>1, <3>1, <3>3, <4>1, <4>2 DEF Iterate, StepCursor
      <4>4. j + 1 # 0 /\ j + 1 \in j .. j + 1 /\ j + 1 <= Len(w)
        BY <3>1
      <4> QED BY <2>2, <4>2, <4>3, <4>4
    <3> QED BY <3>2, <3>3
  <2> QED BY <2>1, <2>2
<1>3. PICK k \in j .. j + 1 :
          /\ k = (IF n \in Elements(w) THEN j + 1 ELSE j) /\ k <= Len(w)
          /\ n' = IF k = Len(w) THEN NULL ELSE w[k + 1]
          /\ IF k = 0 THEN nPrev' = NULL ELSE nPrev' = w[k]
  BY <1>2
<1>4. k \in 0 .. Len(w) /\ (k # Len(w) => k < Len(w) /\ k + 1 \in 1 .. Len(w))
  <2>1. Len(w) \in Nat
    BY <1>1
  <2> QED BY <1>3, <2>1
<1>5. n' \in Ptr /\ nPrev' \in Ptr
  <2>1. k # 0 => k \in 1 .. Len(w)
    BY <1>4
  <2> QED BY <1>1, <1>3, <1>4, <2>1 DEF Ptr
<1>6. QTypeOK'
  BY <1>5 DEF QTypeOK, Iterate, listVars
<1>7. n' # NULL => At(w, k)'
  <2> SUFFICES ASSUME n' # NULL PROVE At(w, k)'
    OBVIOUS
  <2>1. k < Len(w) /\ n' = w[k + 1] /\ n' \in Node /\ worker' = "visit"
    BY <1>1, <1>3, <1>4 DEF Iterate
  <2> QED BY <1>3, <2>1 DEF At
<1>8. Cursor(w)'
  BY <1>4, <1>7 DEF Cursor, InRound, Iterate
<1>9. QTypeOK' /\ HeldInv' /\ QueueIs(s, w, t)'
  BY <1>6, <1>8, WorkerFrame DEF Iterate
<1> QED BY <1>3, <1>7, <1>9

\* The exchange of the queue's head with NULL takes the whole queue.
LEMMA ResetKeeps ==
  ASSUME NEW s, NEW w, NEW t, QTypeOK, HeldInv, QueueIs(s, w, t), Reset
  PROVE  /\ QTypeOK' /\ HeldInv'
         /\ IF head = chain THEN QueueIs(<<>>, w, s)' ELSE QueueIs(s, w, t)'
<1>1. QTypeOK'
  BY DEF Reset, QTypeOK, Ptr
<1>2. HeldInv'
  BY DEF HeldInv, Reset
<1>3. Cursor(w)'
  BY DEF Cursor, InRound, Reset
<1>4. CASE head = chain
  <2>1. Lists(<<>>, w, s)'
    BY <1>4, LinkedNull DEF QueueIs, Lists, Reset
  <2>2. Places(<<>>, w, s)'
    <3>1. Elements(<<>>) = {} /\ Elements(t) = {}
      BY ListsInNode DEF QueueIs, Lists, Reset
    <3>2. worker' = "attach" /\ Inserting' = Inserting
      BY <1>4 DEF Reset, Inserting
    <3> QED BY <3>1, <3>2 DEF QueueIs, Places, Queued, Apart, Reset
  <2>3. Checks(<<>>)'
    BY DEF QueueIs, Checks, HeldInv, Reset
  <2> QED BY <1>1, <1>2, <1>3, <1>4, <2>1, <2>2, <2>3 DEF QueueIs
<1>5. CASE head # chain
  BY <1>1, <1>3, <1>5, WorkerFrame DEF Reset, listVars, HeldInv
<1> QED BY <1>4, <1>5

\* Attaching a list behind the worker's.
LEMMA ConcatLinked ==
  ASSUME NEW w, NEW u, NEW h \in Ptr, QTypeOK, Linked(next, workHead, w), Linked(next, h, u), Apart(w, u), Concat(h)
  PROVE  /\ Linked(next', workHead', w \o u) /\ Linked(next', h, u)
         /\ next' \in [Node -> Ptr] /\ workHead' \in Ptr
         /\ \A x \in Node : x \notin Elements(w) => next'[x] = next[x]
         /\ w \o u \in Seq(Node) /\ Elements(w \o u) = Elements(w) \cup Elements(u)
<1>0. w \in Seq(Node) /\ u \in Seq(Node) /\ (w = <<>> <=> workHead = NULL)
  <2>1. w # <<>> => w[1] \in Node
    BY DEF Linked
  <2> QED BY <2>1, NodeAssumption DEF Linked
<1>1. w \o u \in Seq(Node) /\ Elements(w \o u) = Elements(w) \cup Elements(u)
  BY <1>0, ElementsConcat
<1>2. CASE workHead = NULL
  <2>1. next' = next /\ workHead' = h /\ w = <<>>
    BY <1>0, <1>2 DEF Concat
  <2>2. w \o u = u
    BY <1>0, <2>1
  <2> QED BY <1>1, <2>1, <2>2 DEF QTypeOK
<1>3. CASE workHead # NULL
  <2>1. w # <<>> /\ LastOf(workHead) = w[Len(w)]
    BY <1>0, <1>3, LastOfLinked
  <2>2. next' = [next EXCEPT ![w[Len(w)]] = h] /\ workHead' = workHead
    BY <1>3, <2>1 DEF Concat
  <2>3. w[Len(w)] \in Node /\ w[Len(w)] \in Elements(w)
    BY <1>0, <2>1 DEF Elements
  <2>4. next \in [Node -> Ptr]
    BY DEF QTypeOK
  <2>5. Linked(next', workHead', w \o u)
    BY <2>1, <2>2, <2>4, LinkedConcat
  <2>6. next' \in [Node -> Ptr] /\ workHead' \in Ptr
    BY <2>2, <2>4 DEF QTypeOK
  <2>7. \A x \in Node : x \notin Elements(w) => next'[x] = next[x]
    BY <2>2, <2>3, <2>4
  <2>8. Linked(next', h, u)
    <3>1. Elements(u) \subseteq Node
      BY <1>0, ElementsOf
    <3> QED BY <2>7, <3>1, LinkedFrame DEF Apart
  <2> QED BY <1>1, <2>5, <2>6, <2>7, <2>8
<1> QED BY <1>2, <1>3

\* lrcu_list_splice_atomic appends what it has taken.
LEMMA AttachKeeps ==
  ASSUME NEW s, NEW w, NEW t, QTypeOK, HeldInv, QueueIs(s, w, t), Attach
  PROVE  QTypeOK' /\ HeldInv' /\ QueueIs(s, w \o t, <<>>)'
<1>1. Apart(w, t) /\ Linked(next, workHead, w) /\ Linked(next, chain, t) /\ chain \in Ptr
  BY DEF QueueIs, Places, Lists, Attach, QTypeOK
<1>2. /\ Linked(next', workHead', w \o t) /\ next' \in [Node -> Ptr] /\ workHead' \in Ptr
      /\ \A x \in Node : x \notin Elements(w) => next'[x] = next[x]
      /\ Elements(w \o t) = Elements(w) \cup Elements(t)
  BY <1>1, ConcatLinked DEF Attach
<1> DEFINE v == w \o t
<1> HIDE DEF v
<1>3. QTypeOK'
  BY <1>2 DEF Attach, QTypeOK, Ptr
<1>4. HeldInv'
  BY DEF HeldInv, Attach
<1>5. Linked(next', head', s)
  <2>1. Elements(s) \subseteq Node /\ Elements(s) \cap Elements(w) = {}
    BY ListsInNode DEF QueueIs, Places, Queued, Attach
  <2> QED BY <1>2, <2>1, LinkedFrame DEF QueueIs, Lists, Attach
<1>6. Lists(s, v, <<>>)'
  BY <1>2, <1>5 DEF Lists, Attach, v
<1>7. Places(s, v, <<>>)'
  <2>1. Inserting' = Inserting /\ Elements(<<>>) = {}
    BY ListsInNode DEF Inserting, Attach, QueueIs
  <2> QED BY <1>2, <2>1 DEF QueueIs, Places, Queued, Apart, Attach, v
<1>8. Cursor(v)' /\ Checks(s)'
  BY DEF QueueIs, Cursor, InRound, Checks, Attach
<1> QED BY <1>3, <1>4, <1>6, <1>7, <1>8 DEF QueueIs, v

\* lrcu_list_splice appends the queue, which stays the queue for a moment.
LEMMA SpliceKeeps ==
  ASSUME NEW s, NEW w, NEW t, QTypeOK, HeldInv, QueueIs(s, w, t), Splice
  PROVE  QTypeOK' /\ HeldInv' /\ QueueIs(s, w \o s, <<>>)'
<1>1. Apart(w, s) /\ Linked(next, workHead, w) /\ Linked(next, head, s) /\ head \in Ptr
  BY DEF QueueIs, Places, Queued, Apart, Lists, Splice, QTypeOK
<1>2. /\ Linked(next', workHead', w \o s) /\ next' \in [Node -> Ptr] /\ workHead' \in Ptr
      /\ Linked(next', head, s)
      /\ \A x \in Node : x \notin Elements(w) => next'[x] = next[x]
      /\ Elements(w \o s) = Elements(w) \cup Elements(s)
  BY <1>1, ConcatLinked DEF Splice
<1> DEFINE v == w \o s
<1> HIDE DEF v
<1>3. QTypeOK'
  BY <1>2 DEF Splice, QTypeOK, Proc
<1>4. HeldInv' /\ \A p \in Proc : call[p] = "idle"
  <2>1. \A p \in Proc : call[p] = "idle"
    BY NodeAssumption DEF HeldInv, Splice
  <2> QED BY <2>1 DEF HeldInv, Splice, Proc
<1>5. t = <<>>
  BY DEF QueueIs, Lists, Splice
<1>6. Lists(s, v, <<>>)'
  BY <1>2 DEF Lists, Splice, v
<1>7. Places(s, v, <<>>)'
  <2>1. Inserting' = {} /\ Inserting = {} /\ Elements(<<>>) = {}
    BY <1>4, ListsInNode DEF Inserting, Splice, QueueIs
  <2> QED BY <1>2, <1>5, <2>1 DEF QueueIs, Places, Queued, Apart, Splice, v
<1>8. Cursor(v)' /\ Checks(s)'
  BY DEF QueueIs, Cursor, InRound, Checks, Splice
<1> QED BY <1>3, <1>4, <1>6, <1>7, <1>8 DEF QueueIs, v

\* lrcu_list_init at the end of a splice.
LEMMA SpliceInitKeeps ==
  ASSUME NEW s, NEW w, NEW t, QTypeOK, HeldInv, QueueIs(s, w, t), SpliceInit
  PROVE  QTypeOK' /\ HeldInv' /\ QueueIs(<<>>, w, t)'
<1>1. QTypeOK'
  BY DEF SpliceInit, QTypeOK, Ptr
<1>2. \A p \in Proc : call[p] = "idle"
  BY DEF HeldInv, SpliceInit
<1>3. HeldInv'
  BY <1>2 DEF HeldInv, SpliceInit, Proc
<1>4. Lists(<<>>, w, t)'
  BY LinkedNull DEF QueueIs, Lists, SpliceInit
<1>5. Places(<<>>, w, t)'
  <2>1. Inserting' = {} /\ Inserting = {} /\ Elements(<<>>) = {}
    BY <1>2, ListsInNode DEF Inserting, SpliceInit, QueueIs
  <2> QED BY <2>1 DEF QueueIs, Places, Queued, Apart, SpliceInit
<1>6. Cursor(w)' /\ Checks(<<>>)'
  BY <1>2 DEF QueueIs, Cursor, InRound, Checks, SpliceInit
<1> QED BY <1>1, <1>3, <1>4, <1>5, <1>6 DEF QueueIs

\* The element at the cursor is unlinked, and nothing else is.
LEMMA UnlinkKeeps ==
  ASSUME NEW s, NEW w, NEW t, QTypeOK, HeldInv, QueueIs(s, w, t), NEW j \in 0 .. Len(w), At(w, j),
         FuncReturns \/ UnlinkHead
  PROVE  /\ QTypeOK' /\ HeldInv' /\ QueueIs(s, Abstract!Without(w, j + 1), t)'
         /\ At(Abstract!Without(w, j + 1), j)'
         /\ j < Len(w) /\ n = w[j + 1] /\ Target = n /\ n \in live
         /\ n \notin Elements(Abstract!Without(w, j + 1)) /\ t = <<>>
         /\ Len(Abstract!Without(w, j + 1)) = Len(w) - 1
<1>1. /\ w \in Seq(Node) /\ Len(w) \in Nat /\ \A i \in 1 .. Len(w) : w[i] \in Elements(w)
      /\ nPrev = NULL <=> j = 0
      /\ \A i \in 1 .. Len(w) : w[i] \in Node /\ w[i] # NULL
      /\ \A i, k \in 1 .. Len(w) : w[i] = w[k] => i = k
      /\ workHead = IF Len(w) = 0 THEN NULL ELSE w[1]
      /\ Target = IF j = Len(w) THEN NULL ELSE w[j + 1]
  BY CursorReads
<1>2. j < Len(w) /\ n = w[j + 1] /\ j + 1 \in 1 .. Len(w) /\ Target = n /\ n \in Node
  <2>1. j < Len(w) /\ n = w[j + 1]
    BY DEF At, FuncReturns, UnlinkHead
  <2> QED BY <1>1, <2>1
<1>0. PICK v : v = Abstract!Without(w, j + 1)
  OBVIOUS
<1>3. /\ v \in Seq(Node) /\ Len(v) = Len(w) - 1 /\ Elements(v) = Elements(w) \ {n}
      /\ \A i \in 1 .. Len(v) : v[i] = IF i < j + 1 THEN w[i] ELSE w[i + 1]
  <2>1. w \in Seq(Node) /\ j + 1 \in 1 .. Len(w) /\ \A i, k \in 1 .. Len(w) : w[i] = w[k] => i = k
    BY <1>1, <1>2
  <2> QED BY <1>0, <1>2, <2>1, WithoutOne
<1>4. next \in [Node -> Ptr] /\ Linked(next, workHead, w) /\ Linked(next, head, s) /\ t = <<>>
  BY DEF QueueIs, Lists, QTypeOK, FuncReturns, UnlinkHead
<1>5. Linked(next', workHead', v)
  <2>1. CASE j = 0
    <3>1. w # <<>> /\ nPrev = NULL
      BY <1>1, <1>2, <2>1
    <3>2. workHead' = next[workHead] /\ next' = [next EXCEPT ![workHead] = NULL]
      BY <3>1 DEF FuncReturns, UnlinkHead, Unlink
    <3>3. v = Abstract!Without(w, 1)
      BY <1>0, <2>1
    <3> QED BY <1>4, <3>1, <3>2, <3>3, LinkedUnlinkFirst
  <2>2. CASE j # 0
    <3>1. j \in 1 .. Len(w) - 1 /\ nPrev = w[j] /\ nPrev # NULL
      BY <1>1, <1>2, <2>2 DEF At
    <3>2. /\ next' = [next EXCEPT ![w[j + 1]] = NULL, ![w[j]] = next[w[j + 1]]]
          /\ workHead' = workHead
      BY <1>2, <3>1 DEF FuncReturns, UnlinkHead, Unlink
    <3> QED BY <1>0, <1>4, <3>1, <3>2, LinkedUnlinkNext
  <2> QED BY <2>1, <2>2
<1>6. /\ next' \in [Node -> Ptr] /\ workHead' \in Ptr
      /\ \A x \in Node : x \notin Elements(w) => next'[x] = next[x]
  <2>1. CASE j = 0
    <3>1. nPrev = NULL /\ workHead = w[1] /\ w[1] \in Node /\ w[1] \in Elements(w)
      BY <1>1, <1>2, <2>1
    <3>2. workHead' = next[workHead] /\ next' = [next EXCEPT ![workHead] = NULL]
      BY <3>1 DEF FuncReturns, UnlinkHead, Unlink
    <3> QED BY <1>4, <3>1, <3>2 DEF Ptr
  <2>2. CASE j # 0
    <3>1. /\ nPrev = w[j] /\ nPrev # NULL /\ w[j] \in Node /\ w[j + 1] \in Node
          /\ w[j] \in Elements(w) /\ w[j + 1] \in Elements(w)
      BY <1>1, <1>2, <2>2 DEF At
    <3>2. /\ next' = [next EXCEPT ![w[j + 1]] = NULL, ![w[j]] = next[w[j + 1]]]
          /\ workHead' = workHead
      BY <1>2, <3>1 DEF FuncReturns, UnlinkHead, Unlink
    <3>3. next[w[j + 1]] \in Ptr /\ NULL \in Ptr /\ workHead' \in Ptr
      BY <1>4, <3>1, <3>2 DEF QTypeOK, Ptr
    <3> QED BY <1>4, <3>1, <3>2, <3>3
  <2> QED BY <2>1, <2>2
<1>7. QTypeOK'
  BY <1>6 DEF QTypeOK, FuncReturns, UnlinkHead
<1>8. n \in Elements(w) /\ worker # "init" /\ Elements(w) \cap Elements(s) = {}
  BY <1>1, <1>2 DEF QueueIs, Places, Queued, FuncReturns, UnlinkHead
<1>9. HeldInv'
  <2>1. \A p \in Proc : call[p] = "publish" => next'[e[p]] = next[e[p]]
    BY <1>6 DEF QueueIs, Places, Inserting, QTypeOK
  <2>2. worker # "func" \/ call[Worker] = "idle"
    BY DEF FuncReturns, UnlinkHead
  <2>3. call[Worker] = "idle" /\ UNCHANGED <<build, call, lock, e, head>> /\ worker' \in {"iter", "func"}
    BY <2>2 DEF HeldInv, FuncReturns, UnlinkHead
  <2> QED BY <2>1, <2>3 DEF HeldInv
<1>10. Lists(s, v, t)'
  <2>1. Linked(next', head', s)
    <3>1. \A x \in Elements(s) : next'[x] = next[x]
      BY <1>6, <1>8, ListsInNode DEF QueueIs
    <3> QED BY <1>4, <3>1, LinkedFrame DEF FuncReturns, UnlinkHead
  <2> QED BY <1>4, <1>5, <2>1 DEF Lists, FuncReturns, UnlinkHead
<1>11. Places(s, v, t)'
  <2>1. Inserting' = Inserting
    BY DEF Inserting, FuncReturns, UnlinkHead
  <2>2. Elements(t) = {}
    BY <1>4, ListsInNode DEF QueueIs
  <2>3. \A p \in Inserting : e[p] # n
    BY <1>8 DEF QueueIs, Places
  <2> QED BY <1>3, <1>8, <2>1, <2>2, <2>3 DEF QueueIs, Places, Queued, Apart, FuncReturns, UnlinkHead
<1>12. Cursor(v)' /\ At(v, j)'
  <2>1. j \in 0 .. Len(v) /\ (j # 0 => j \in 1 .. Len(v) /\ v[j] = w[j])
    BY <1>1, <1>2, <1>3
  <2>2. n \notin Elements(v)
    BY <1>3
  <2>3. At(v, j)'
    BY <1>2, <2>1, <2>2 DEF At, FuncReturns, UnlinkHead
  <2> QED BY <2>1, <2>3 DEF Cursor
<1>13. Checks(s)'
  BY DEF QueueIs, Checks, FuncReturns, UnlinkHead
<1>14. n \in live /\ n \notin Elements(v)
  BY <1>3, <1>8 DEF QueueIs, Places
<1> QED BY <1>2, <1>3, <1>4, <1>7, <1>9, <1>10, <1>11, <1>12, <1>13, <1>14, <1>0 DEF QueueIs

\* The pointers start some lists with what the invariant says of them.
SomeLists == \E s, w, t : QueueIs(s, w, t)

\* These lists are the paths.
LEMMA ListsArePaths == QueueInv <=> QTypeOK /\ HeldInv /\ SomeLists
<1>1. ASSUME NEW s, NEW w, NEW t, QueueIs(s, w, t) PROVE QueueIs(Path(head), Path(workHead), Taken)
  BY <1>1, PathsAre DEF QueueIs
<1> QED BY <1>1 DEF QueueInv, SomeLists

\* An empty queue at the start.
LEMMA InitInv == Init => QueueInv
<1> SUFFICES ASSUME Init PROVE QTypeOK /\ HeldInv /\ QueueIs(<<>>, <<>>, <<>>)
  BY ListsArePaths DEF SomeLists
<1>1. QTypeOK
  BY DEF Init, QTypeOK, Ptr
<1>2. \A p \in Proc : call[p] = "idle"
  BY DEF Init
<1>3. HeldInv
  BY <1>2 DEF Init, HeldInv, Proc
<1>4. Lists(<<>>, <<>>, <<>>)
  BY LinkedNull DEF Lists, Init
<1>5. Places(<<>>, <<>>, <<>>)
  <2>1. Inserting = {} /\ Elements(<<>>) = {}
    BY <1>2 DEF Inserting, Elements
  <2> QED BY <2>1 DEF Places, Queued, Apart, Init
<1>6. Cursor(<<>>) /\ Checks(<<>>)
  BY <1>2 DEF Init, Cursor, InRound, Checks
<1> QED BY <1>1, <1>3, <1>4, <1>5, <1>6 DEF QueueIs

\* Every step of a caller or of the worker keeps the invariant.
LEMMA StepInv == QueueInv /\ [Next]_vars => QueueInv'
<1> SUFFICES ASSUME QTypeOK, HeldInv, NEW s, NEW w, NEW t, QueueIs(s, w, t), [Next]_vars
             PROVE  QTypeOK' /\ HeldInv' /\ \E s2, w2, t2 : QueueIs(s2, w2, t2)'
  <2>1. QueueInv' <=> QTypeOK' /\ HeldInv' /\ SomeLists'
    BY ListsArePaths, PTL
  <2> QED BY <2>1, ListsArePaths DEF SomeLists
<1>1. ASSUME NEW p \in Proc, Call(p) PROVE QTypeOK' /\ HeldInv' /\ QueueIs(s, w, t)'
  BY <1>1, CallKeeps
<1>2. ASSUME NEW p \in Proc, CallFails(p) PROVE QTypeOK' /\ HeldInv' /\ QueueIs(s, w, t)'
  BY <1>2 DEF CallFails, vars, listVars, workVars, QTypeOK, HeldInv, QueueIs, Lists, Places, Queued,
              Inserting, Cursor, InRound, At, Checks
<1>3. ASSUME NEW p \in Proc, Link(p) PROVE QTypeOK' /\ HeldInv' /\ QueueIs(s, w, t)'
  BY <1>3, LinkKeeps
<1>4. ASSUME NEW p \in Proc, Publish(p)
      PROVE  QTypeOK' /\ HeldInv' /\ \E s2 : QueueIs(s2, w, t)'
  <2>1. head = next[e[p]] \/ build.atomic
    BY <1>4 DEF HeldInv, Publish
  <2>2. CASE Inserted(p) /\ head = next[e[p]]
    <3>1. QTypeOK' /\ HeldInv' /\ \A x : x = e[p] => QueueIs(<<x>> \o s, w, t)'
      BY <1>4, <2>2, InsertedKeeps DEF Publish
    <3> QED BY <3>1
  <2>3. CASE ~(Inserted(p) /\ head = next[e[p]])
    BY <1>4, <2>1, <2>3, RetryKeeps DEF Publish
  <2> QED BY <2>2, <2>3
<1>5. ASSUME NEW p \in Proc, CheckLoop(p) PROVE QTypeOK' /\ HeldInv' /\ QueueIs(s, w, t)'
  BY <1>5, CheckLoopKeeps
<1>6. ASSUME NEW p \in Proc, Return(p) PROVE QTypeOK' /\ HeldInv' /\ QueueIs(s, w, t)'
  BY <1>6, ReturnKeeps
<1>7. CASE Test
  BY <1>7, TestKeeps
<1>8. CASE Reset
  BY <1>8, ResetKeeps
<1>9. CASE Attach
  BY <1>9, AttachKeeps
<1>10. CASE Splice
  BY <1>10, SpliceKeeps
<1>11. CASE SpliceInit
  BY <1>11, SpliceInitKeeps
<1>12. CASE Round
  BY <1>12, RoundKeeps
<1>13. CASE Iterate
  <2>1. PICK j \in 0 .. Len(w) : At(w, j)
    BY <1>13 DEF QueueIs, Cursor, InRound, Iterate
  <2> QED BY <1>13, <2>1, IterateKeeps
<1>14. CASE Keep \/ Run \/ HeadFuncReturns
  <2>1. PICK j \in 0 .. Len(w) : At(w, j)
    BY <1>14 DEF QueueIs, Cursor, InRound, Keep, Run, HeadFuncReturns
  <2> QED BY <1>14, <2>1, KeepKeeps
<1>15. CASE FuncReturns \/ UnlinkHead
  <2>1. PICK j \in 0 .. Len(w) : At(w, j)
    BY <1>15 DEF QueueIs, Cursor, InRound, FuncReturns, UnlinkHead
  <2> QED BY <1>15, <2>1, UnlinkKeeps
<1>16. CASE UNCHANGED vars
  BY <1>16 DEF vars, listVars, workVars, QTypeOK, HeldInv, QueueIs, Lists, Places, Queued,
               Inserting, Cursor, InRound, At, Checks
<1> QED
  BY <1>1, <1>2, <1>3, <1>4, <1>5, <1>6, <1>7, <1>8, <1>9, <1>10, <1>11, <1>12, <1>13, <1>14, <1>15, <1>16
     DEF Next, CallStep, WorkerStep

\* The inductive invariant holds in every reachable state.
THEOREM QueueInvariant == Spec => []QueueInv
BY InitInv, StepInv, PTL DEF Spec

\* Every variable keeps its type: no walk or cursor leaves the elements.
THEOREM QueueTypes == Spec => []QTypeOK
<1>1. QueueInv => QTypeOK
  BY DEF QueueInv
<1> QED BY <1>1, QueueInvariant, PTL

-----------------------------------------------------------------------------
(* What the invariant implies.                                             *)

\* The elements on their way into the queue are as many as their callers.
LEMMA InsertingCount ==
  ASSUME QTypeOK, \A p, q \in Inserting : e[q] = e[p] => q = p
  PROVE  LET I == {e[p] : p \in Inserting}
         IN  IsFiniteSet(I) /\ Cardinality(I) = Cardinality(Inserting)
<1> DEFINE I == {e[p] : p \in Inserting}
           f == [p \in Inserting |-> e[p]]
<1>1. I \subseteq Node
  BY DEF Inserting, QTypeOK
<1>2. IsFiniteSet(I)
  BY <1>1, NodeAssumption, FS_Subset
<1>3. f \in [Inserting -> I]
  OBVIOUS
<1>4. \A x \in I : \E p \in Inserting : f[p] = x
  OBVIOUS
<1>5. \A p, q \in Inserting : f[p] = f[q] => p = q
  OBVIOUS
<1> HIDE DEF I, f
<1>6. f \in Injection(Inserting, I) /\ f \in Surjection(Inserting, I)
  BY <1>3, <1>4, <1>5, Zenon DEF Injection, Surjection, IsInjective
<1>7. Cardinality(Inserting) = Cardinality(I)
  BY <1>2, <1>6, FS_Injection
<1> QED BY <1>2, <1>7 DEF I

\* Lists apart from each other and from a set count together.
LEMMA PlacesCount ==
  ASSUME NEW a, NEW b, NEW c, NEW d,
         IsFiniteSet(a), IsFiniteSet(b), IsFiniteSet(c), IsFiniteSet(d),
         a \cap b = {}, a \cap c = {}, b \cap c = {}, d \cap (a \cup b \cup c) = {}
  PROVE  Cardinality(a \cup b \cup c \cup d)
             = Cardinality(a) + Cardinality(b) + Cardinality(c) + Cardinality(d)
<1>0. Cardinality({}) = 0
  BY FS_EmptySet
<1>1. /\ Cardinality(a) \in Nat /\ Cardinality(b) \in Nat /\ Cardinality(c) \in Nat
      /\ Cardinality(d) \in Nat
  BY FS_CardinalityType
<1>2. IsFiniteSet(a \cup b) /\ Cardinality(a \cup b) = Cardinality(a) + Cardinality(b) - Cardinality({})
  BY FS_Union
<1> DEFINE ab == a \cup b
           abc == ab \cup c
<1>3. ab \cap c = {} /\ abc \cap d = {}
  OBVIOUS
<1>4. IsFiniteSet(abc) /\ Cardinality(abc) = Cardinality(ab) + Cardinality(c) - Cardinality({})
  <2> HIDE DEF ab
  <2> QED BY <1>2, <1>3, FS_Union DEF ab
<1>5. Cardinality(abc \cup d) = Cardinality(abc) + Cardinality(d) - Cardinality({})
  <2> HIDE DEF abc
  <2> QED BY <1>3, <1>4, FS_Union
<1> QED BY <1>0, <1>1, <1>2, <1>4, <1>5

\* Nothing is lost, queued twice or leaked.
THEOREM QueueEachOnce == Spec => []EachOnce
<1>1. ASSUME QueueInv PROVE EachOnce
  <2> DEFINE s == Path(head)
             w == Path(workHead)
             t == Taken
             q == Pending
             I == {e[p] : p \in Inserting}
  <2>1. QTypeOK /\ QueueIs(s, w, t)
    BY <1>1 DEF QueueInv
  <2>2. w \in Seq(Node) /\ t \in Seq(Node) /\ q \in Seq(Node) /\ Elements(<<>>) = {}
    BY <2>1, ListsInNode DEF QueueIs, Pending
  <2>3. Elements(q) = Queued(s) /\ Batch = w \o t
    BY <2>2 DEF Queued, Pending, Batch, Taken
  <2>4. Elements(Batch) = Elements(w) \cup Elements(t) /\ Len(Batch) = Len(w) + Len(t)
    <3> HIDE DEF w, t
    <3> QED BY <2>2, <2>3, ElementsConcat, ConcatProperties
  <2>5. /\ IsFiniteSet(Elements(q)) /\ Cardinality(Elements(q)) = Len(q)
        /\ IsFiniteSet(Elements(w)) /\ Cardinality(Elements(w)) = Len(w)
        /\ IsFiniteSet(Elements(t)) /\ Cardinality(Elements(t)) = Len(t)
    <3>1. /\ \A i, j \in 1 .. Len(w) : w[i] = w[j] => i = j
          /\ \A i, j \in 1 .. Len(s) : s[i] = s[j] => i = j
      BY <2>1 DEF QueueIs, Lists, Linked
    <3>2. \A i, j \in 1 .. Len(t) : t[i] = t[j] => i = j
      <4>1. CASE worker = "attach"
        BY <2>1, <4>1 DEF QueueIs, Lists, Linked
      <4>2. CASE worker # "attach"
        BY <4>2 DEF Taken
      <4> QED BY <4>1, <4>2
    <3>3. \A i, j \in 1 .. Len(q) : q[i] = q[j] => i = j
      BY <3>1 DEF Pending
    <3> HIDE DEF q, w, t
    <3> QED BY <2>2, <3>1, <3>2, <3>3, ListLength
  <2>6. IsFiniteSet(I) /\ Cardinality(I) = Cardinality(Inserting)
    <3>1. \A p, r \in Inserting : e[r] = e[p] => r = p
      BY <2>1 DEF QueueIs, Places
    <3> QED BY <2>1, <3>1, InsertingCount
  <2>7. /\ Elements(q) \cap Elements(w) = {} /\ Elements(q) \cap Elements(t) = {}
        /\ Elements(w) \cap Elements(t) = {}
        /\ live = Elements(q) \cup Elements(w) \cup Elements(t) \cup I
    BY <2>1, <2>3 DEF QueueIs, Places, Queued, Apart
  <2>8. I \cap (Elements(q) \cup Elements(w) \cup Elements(t)) = {}
    BY <2>1, <2>3 DEF QueueIs, Places, Queued
  <2> HIDE DEF s, w, t, q, I
  <2>9. Cardinality(live) = Len(q) + Len(w) + Len(t) + Cardinality(Inserting)
    <3>1. Cardinality(Elements(q) \cup Elements(w) \cup Elements(t) \cup I)
              = Cardinality(Elements(q)) + Cardinality(Elements(w)) + Cardinality(Elements(t)) + Cardinality(I)
      <4> DEFINE a == Elements(q)
                 b == Elements(w)
                 c == Elements(t)
      <4>1. /\ IsFiniteSet(a) /\ IsFiniteSet(b) /\ IsFiniteSet(c) /\ IsFiniteSet(I)
            /\ a \cap b = {} /\ a \cap c = {} /\ b \cap c = {} /\ I \cap (a \cup b \cup c) = {}
        BY <2>5, <2>6, <2>7, <2>8
      <4> HIDE DEF a, b, c
      <4>2. Cardinality(a \cup b \cup c \cup I)
                = Cardinality(a) + Cardinality(b) + Cardinality(c) + Cardinality(I)
        BY <4>1, PlacesCount
      <4> QED BY <4>2 DEF a, b, c
    <3> QED BY <2>5, <2>6, <2>7, <3>1
  <2>10. Cardinality(Inserting) \in Nat /\ Len(q) \in Nat /\ Len(w) \in Nat /\ Len(t) \in Nat
    BY <2>2, <2>6, FS_CardinalityType
  <2>11. Cardinality(live) = Len(q) + Len(Batch) + Cardinality(Inserting)
    BY <2>4, <2>9, <2>10
  <2>12. live = Elements(q) \cup Elements(Batch) \cup I
    BY <2>4, <2>7
  <2> QED BY <2>11, <2>12 DEF EachOnce, Inserting, q, I
<1> QED BY <1>1, QueueInvariant, PTL

\* The worker and lrcu_list_check_loop read allocated elements only, unless a
\* build walks its lists although it takes no list_lock.
THEOREM QueueTouchesLive ==
  ASSUME \A b \in Build : ~(b.atomic /\ b.check)
  PROVE  Spec => []TouchesLive
<1>1. ASSUME QueueInv PROVE TouchesLive
  <2> DEFINE s == Path(head)
             w == Path(workHead)
             t == Taken
  <2>1. QTypeOK /\ HeldInv /\ QueueIs(s, w, t)
    BY <1>1 DEF QueueInv
  <2> HIDE DEF s, w, t
  <2>2. Elements(w) \subseteq live /\ (worker # "init" => Elements(s) \subseteq live)
    BY <2>1 DEF QueueIs, Places, Queued
  <2>3. ASSUME NEW p \in Proc, call[p] = "check" PROVE e[p] \in live
    <3>1. e[p] \in Elements(s) /\ ~build.atomic
      BY <2>1, <2>3 DEF QueueIs, Checks, QTypeOK
    <3>2. worker # "init"
      BY <2>1, <2>3, <3>1 DEF HeldInv
    <3> QED BY <2>2, <3>1, <3>2
  <2>4. ASSUME InRound
        PROVE  /\ worker = "iter" =>
                      /\ nPrev # NULL => nPrev \in live /\ (next[nPrev] = n => n \in live)
                      /\ nPrev = NULL /\ n # NULL /\ n = workHead => n \in live
               /\ worker = "visit" => n \in live /\ Target = n
               /\ worker \in {"func", "unlink"} /\ (worker = "func" => kind = "list") => Target = n
    <3>1. PICK j \in 0 .. Len(w) : At(w, j)
      BY <2>1, <2>4 DEF QueueIs, Cursor
    <3>2. /\ Len(w) \in Nat /\ \A i \in 1 .. Len(w) : w[i] \in Elements(w)
          /\ nPrev = NULL <=> j = 0
          /\ \A i \in 1 .. Len(w) : next[w[i]] = IF i = Len(w) THEN NULL ELSE w[i + 1]
          /\ workHead = IF Len(w) = 0 THEN NULL ELSE w[1]
          /\ Target = IF j = Len(w) THEN NULL ELSE w[j + 1]
      BY <2>1, <3>1, CursorReads
    <3>3. worker \in {"visit", "unlink"} \/ (worker = "func" /\ kind = "list") =>
              Target = n /\ n \in Elements(w)
      <4>1. ASSUME j < Len(w), n = w[j + 1] PROVE Target = n /\ n \in Elements(w)
        BY <3>2, <4>1
      <4> QED BY <3>1, <4>1 DEF At
    <3>4. nPrev # NULL => nPrev \in Elements(w) /\ (next[nPrev] = n => n \in Elements(w))
      <4> SUFFICES ASSUME nPrev # NULL
                   PROVE  nPrev \in Elements(w) /\ (next[nPrev] = n => n \in Elements(w))
        OBVIOUS
      <4>1. j \in 1 .. Len(w) /\ nPrev = w[j] /\ n \in Node
        BY <3>1, <3>2 DEF At
      <4>2. j # Len(w) => j + 1 \in 1 .. Len(w)
        BY <3>2, <4>1
      <4> QED BY <3>2, <4>1, <4>2, NodeAssumption
    <3>5. n # NULL /\ n = workHead => n \in Elements(w)
      BY <3>2
    <3> QED BY <2>2, <3>3, <3>4, <3>5
  <2> QED BY <2>3, <2>4 DEF TouchesLive, InRound
<1> QED BY <1>1, QueueInvariant, PTL

-----------------------------------------------------------------------------
(* Queues implements CallQueue, for any number of callers and elements: the *)
(* stores of an insertion and of a splice map to one step each, the cursor  *)
(* to the number of elements kept, whatever it has unlinked.                *)

\* What the abstract queue's variables are, in terms of the lists.
MapsTo(s, w, t) ==
    /\ Pending = IF worker = "init" THEN <<>> ELSE s
    /\ Batch = w \o t
    /\ InRound => \A j \in 0 .. Len(w) : At(w, j) =>
           Kept = IF worker = "iter" /\ n \in Elements(w) THEN j + 1 ELSE j

\* It is so in every state with the types and lists of the invariant ...
MapOK == QTypeOK => \A s, w, t : QueueIs(s, w, t) => MapsTo(s, w, t)

\* The cursor tells how many elements have been kept.
LEMMA MapHolds == MapOK
<1> SUFFICES ASSUME QTypeOK, NEW s, NEW w, NEW t, QueueIs(s, w, t) PROVE MapsTo(s, w, t)
  BY DEF MapOK
<1>1. Path(head) = s /\ Path(workHead) = w /\ Taken = t
  BY PathsAre DEF QueueIs
<1>2. Pending = (IF worker = "init" THEN <<>> ELSE s) /\ Batch = w \o t
  BY <1>1 DEF Pending, Batch, Taken
<1>3. ASSUME InRound, NEW j \in 0 .. Len(w), At(w, j)
      PROVE  Kept = IF worker = "iter" /\ n \in Elements(w) THEN j + 1 ELSE j
  <2>1. /\ w \in Seq(Node) /\ Len(w) \in Nat /\ \A i \in 1 .. Len(w) : w[i] \in Elements(w)
        /\ nPrev = NULL <=> j = 0
        /\ \A i, k \in 1 .. Len(w) : w[i] = w[k] => i = k
    BY <1>3, CursorReads
  <2>2. ASSUME NEW i \in 1 .. Len(w) PROVE IndexOf(w[i]) = i
    <3>1. i \in DOMAIN w /\ \A k \in DOMAIN w : w[k] = w[i] => k = i
      BY <2>1
    <3> QED BY <1>1, <3>1 DEF IndexOf
  <2>3. CASE n \in Elements(w)
    <3>1. j < Len(w) /\ n = w[j + 1]
      BY <1>3, <2>3, NodeAssumption DEF At, InRound, QTypeOK
    <3>2. j + 1 \in 1 .. Len(w)
      BY <2>1, <3>1
    <3>3. IndexOf(n) = j + 1
      BY <2>2, <3>1, <3>2
    <3>4. Kept = IF worker = "iter" THEN j + 1 ELSE (j + 1) - 1
      BY <1>1, <2>3, <3>3 DEF Kept
    <3> QED BY <2>3, <3>4
  <2>4. CASE n \notin Elements(w)
    <3>1. CASE j = 0
      BY <1>1, <2>1, <2>4, <3>1 DEF Kept
    <3>2. CASE j # 0
      <4>1. j \in 1 .. Len(w) /\ nPrev = w[j] /\ nPrev # NULL
        BY <1>3, <2>1, <3>2 DEF At
      <4>2. IndexOf(nPrev) = j
        BY <2>2, <4>1
      <4> QED BY <1>1, <2>4, <4>1, <4>2 DEF Kept
    <3> QED BY <3>1, <3>2
  <2> QED BY <2>3, <2>4
<1> QED BY <1>2, <1>3 DEF MapsTo

\* ... and in the next one.
LEMMA MapNext == MapOK'
BY MapHolds, PTL

\* Steps that leave the lists and the cursor's place as they are stutter.
LEMMA Stutters ==
  ASSUME QTypeOK, QTypeOK', NEW s, NEW w, NEW t, QueueIs(s, w, t), QueueIs(s, w, t)', InRound' <=> InRound,
         worker = "init" <=> worker' = "init",
         InRound => \E j, k \in 0 .. Len(w) :
                        /\ At(w, j) /\ At(w, k)'
                        /\ (IF worker = "iter" /\ n \in Elements(w) THEN j + 1 ELSE j)
                               = IF worker' = "iter" /\ n' \in Elements(w) THEN k + 1 ELSE k
  PROVE  UNCHANGED Abstract!vars
<1>1. MapsTo(s, w, t) /\ MapsTo(s, w, t)'
  BY MapHolds, MapNext DEF MapOK
<1>2. Pending' = Pending /\ Batch' = Batch
  BY <1>1 DEF MapsTo
<1>3. InRound => Kept' = Kept
  BY <1>1 DEF MapsTo
<1> QED BY <1>2, <1>3 DEF Abstract!vars, InRound

\* A step of a caller stutters but for its insertion.
LEMMA CallStutters ==
  ASSUME QTypeOK, QTypeOK', NEW s, NEW w, NEW t, QueueIs(s, w, t), QueueIs(s, w, t)',
         UNCHANGED <<kind, worker, n, nPrev>>
  PROVE  UNCHANGED Abstract!vars
<1>1. InRound => \E j \in 0 .. Len(w) : At(w, j) /\ At(w, j)'
  BY DEF QueueIs, Cursor, At
<1> QED BY <1>1, Stutters DEF InRound

\* The members of a list, for both specifications.
LEMMA MembersAre == \A s \in Seq(Node) : Abstract!Members(s) = Elements(s)
BY DEF Abstract!Members, Elements

\* Every step of the pointers is a step of the abstract queue, or none.
LEMMA QueueStepRefines == QueueInv /\ QueueInv' /\ [Next]_vars => [Abstract!Next]_Abstract!vars
<1> SUFFICES ASSUME QTypeOK, HeldInv, NEW s, NEW w, NEW t, QueueIs(s, w, t), QTypeOK', [Next]_vars
             PROVE  Abstract!Next \/ UNCHANGED Abstract!vars
  BY DEF QueueInv
<1>1. MapsTo(s, w, t) /\ \A s2, w2, t2 : QueueIs(s2, w2, t2)' => MapsTo(s2, w2, t2)'
  BY MapHolds, MapNext DEF MapOK
<1>2. s \in Seq(Node) /\ w \in Seq(Node) /\ t \in Seq(Node)
  BY ListsInNode DEF QueueIs
<1>3. ASSUME NEW v \in Seq(Node) PROVE v \o <<>> = v
  OBVIOUS
<1>4. ASSUME NEW p \in Proc, CallStep(p) PROVE Abstract!Next \/ UNCHANGED Abstract!vars
  <2>1. CASE Call(p)
    BY <2>1, CallKeeps, CallStutters DEF Call, workVars
  <2>2. CASE CallFails(p)
    <3>1. QueueIs(s, w, t)'
      BY <2>2 DEF CallFails, vars, listVars, workVars, QueueIs, Lists, Places, Queued,
                  Inserting, Cursor, InRound, At, Checks
    <3> QED BY <2>2, <3>1, CallStutters DEF CallFails, vars, workVars
  <2>3. CASE Link(p)
    BY <2>3, LinkKeeps, CallStutters DEF Link, workVars
  <2>4. CASE Publish(p) /\ ~(Inserted(p) /\ head = next[e[p]])
    <3>1. head = next[e[p]] \/ build.atomic
      BY <2>4 DEF HeldInv, Publish
    <3>2. QueueIs(s, w, t)'
      BY <2>4, <3>1, RetryKeeps DEF Publish
    <3> QED BY <2>4, <3>1, <3>2, CallStutters DEF Publish, workVars
  <2>5. CASE Publish(p) /\ Inserted(p) /\ head = next[e[p]]
    <3>1. PICK x : x = e[p]
      OBVIOUS
    <3>2. PICK u : u = <<x>> \o s
      OBVIOUS
    <3>3. QueueIs(u, w, t)' /\ x \in Node /\ x \notin Elements(s) \cup Elements(w) \cup Elements(t)
      BY <2>5, <3>1, <3>2, InsertedKeeps DEF Publish, QueueIs, Places, Inserting, QTypeOK
    <3>4. worker # "init" /\ UNCHANGED <<kind, worker, n, nPrev>>
      BY <2>5, NodeAssumption DEF HeldInv, Publish, Inserted, workVars, Proc
    <3>5. Pending' = <<x>> \o Pending /\ Batch' = Batch /\ InRound' = InRound
      BY <1>1, <3>2, <3>3, <3>4 DEF MapsTo, InRound
    <3>6. InRound => Kept' = Kept
      <4>1. InRound => \E j \in 0 .. Len(w) : At(w, j) /\ At(w, j)'
        BY <3>4 DEF QueueIs, Cursor, At
      <4> QED BY <1>1, <3>3, <3>4, <3>5, <4>1 DEF MapsTo
    <3>7. x \notin Abstract!Members(Pending) \cup Abstract!Members(Batch)
      <4>1. Pending = s /\ Batch = w \o t
        BY <1>1, <3>4 DEF MapsTo
      <4>2. w \o t \in Seq(Node) /\ Elements(w \o t) = Elements(w) \cup Elements(t)
        BY <1>2, ElementsConcat
      <4> QED BY <1>2, <3>3, <4>1, <4>2, MembersAre
    <3>8. Abstract!Push(x)
      BY <3>5, <3>6, <3>7 DEF Abstract!Push
    <3> QED BY <3>3, <3>8 DEF Abstract!Next
  <2>6. CASE CheckLoop(p)
    BY <2>6, CheckLoopKeeps, CallStutters DEF CheckLoop, workVars
  <2>7. CASE Return(p)
    BY <2>7, ReturnKeeps, CallStutters DEF Return, workVars
  <2> QED BY <1>4, <2>1, <2>2, <2>3, <2>4, <2>5, <2>6, <2>7 DEF CallStep
<1>5. CASE Test
  BY <1>5, TestKeeps, Stutters DEF Test, InRound
<1>6. CASE Reset
  <2>1. t = <<>> /\ ~InRound /\ ~InRound' /\ worker # "init" /\ worker' # "init"
    BY <1>6 DEF Reset, QueueIs, Lists, InRound
  <2>2. CASE head = chain
    <3>1. QueueIs(<<>>, w, s)'
      BY <1>6, <2>2, ResetKeeps
    <3>2. Pending' = <<>> /\ Pending = s /\ Batch' = w \o s /\ Batch = w
      BY <1>1, <1>2, <1>3, <2>1, <3>1 DEF MapsTo
    <3>3. Abstract!TakeAll
      BY <2>1, <3>2 DEF Abstract!TakeAll, InRound
    <3> QED BY <3>3 DEF Abstract!Next
  <2>3. CASE head # chain
    BY <1>6, <2>1, <2>3, ResetKeeps, Stutters
  <2> QED BY <2>2, <2>3
<1>7. CASE Attach
  <2>1. PICK v : v = w \o t
    OBVIOUS
  <2>2. QueueIs(s, v, <<>>)' /\ v \in Seq(Node) /\ ~InRound /\ ~InRound'
    BY <1>2, <1>7, <2>1, AttachKeeps DEF Attach, InRound
  <2>3. Pending' = Pending /\ Batch' = Batch
    BY <1>1, <1>3, <1>7, <2>1, <2>2 DEF MapsTo, Attach
  <2> QED BY <2>2, <2>3 DEF Abstract!vars, InRound
<1>8. CASE Splice
  <2>1. PICK v : v = w \o s
    OBVIOUS
  <2>2. QueueIs(s, v, <<>>)' /\ v \in Seq(Node) /\ ~InRound /\ ~InRound' /\ t = <<>>
    BY <1>2, <1>8, <2>1, SpliceKeeps DEF Splice, InRound, QueueIs, Lists
  <2>3. Pending' = <<>> /\ Pending = s /\ Batch' = v /\ Batch = w
    BY <1>1, <1>2, <1>3, <1>8, <2>2 DEF MapsTo, Splice
  <2>4. Abstract!TakeAll
    BY <2>1, <2>2, <2>3 DEF Abstract!TakeAll, InRound
  <2> QED BY <2>4 DEF Abstract!Next
<1>9. CASE SpliceInit
  <2>1. QueueIs(<<>>, w, t)' /\ ~InRound /\ ~InRound'
    BY <1>9, SpliceInitKeeps DEF SpliceInit, InRound
  <2>2. Pending' = Pending /\ Batch' = Batch
    BY <1>1, <1>9, <2>1 DEF MapsTo, SpliceInit
  <2> QED BY <2>1, <2>2 DEF Abstract!vars, InRound
<1>10. CASE Round
  <2>1. QueueIs(s, w, t)' /\ ~InRound /\ worker # "init" /\ worker' # "init"
    BY <1>10, RoundKeeps DEF Round, InRound
  <2>2. CASE workHead = NULL
    <3>1. ~InRound'
      BY <1>10, <2>2 DEF Round, InRound
    <3> QED BY <2>1, <3>1, Stutters
  <2>3. CASE workHead # NULL
    <3>1. InRound' /\ worker' = "iter" /\ n' = NULL /\ nPrev' = NULL
      BY <1>10, <2>3 DEF Round, InRound
    <3>2. NULL \notin Elements(w) /\ 0 \in 0 .. Len(w)
      BY <1>2, ElementsOf, NodeAssumption
    <3>3. At(w, 0)'
      BY <3>1, <3>2 DEF At
    <3>4. Kept' = 0 /\ Pending' = Pending /\ Batch' = Batch
      BY <1>1, <2>1, <3>1, <3>2, <3>3 DEF MapsTo
    <3>5. Abstract!Begin
      BY <2>1, <3>1, <3>4 DEF Abstract!Begin
    <3> QED BY <3>5 DEF Abstract!Next
  <2> QED BY <2>2, <2>3
<1>11. CASE Iterate
  <2>1. PICK j \in 0 .. Len(w) : At(w, j)
    BY <1>11 DEF QueueIs, Cursor, InRound, Iterate
  <2>2. PICK k \in j .. j + 1 :
            /\ k = (IF n \in Elements(w) THEN j + 1 ELSE j) /\ k <= Len(w)
            /\ n' = IF k = Len(w) THEN NULL ELSE w[k + 1]
            /\ n' # NULL => At(w, k)'
    BY <1>11, <2>1, IterateKeeps
  <2>3. QueueIs(s, w, t)' /\ InRound /\ worker = "iter" /\ worker' \notin {"init", "iter"}
    BY <1>11, <2>1, IterateKeeps DEF Iterate, InRound
  <2>4. Len(w) \in Nat /\ k \in 0 .. Len(w)
    BY <1>2, <2>2
  <2>5. Kept = k
    BY <1>1, <2>1, <2>2, <2>3 DEF MapsTo
  <2>6. CASE n' # NULL
    <3>1. InRound' /\ At(w, k)'
      BY <1>11, <2>2, <2>6 DEF Iterate, InRound
    <3> QED BY <2>1, <2>2, <2>3, <2>4, <3>1, Stutters
  <2>7. CASE n' = NULL
    <3>1. ~InRound' /\ t = <<>>
      BY <1>11, <2>7 DEF Iterate, InRound, QueueIs, Lists
    <3>2. k = Len(w)
      <4>1. k # Len(w) => k + 1 \in 1 .. Len(w) /\ w[k + 1] \in Node
        BY <1>2, <2>4
      <4> QED BY <2>2, <2>7, <4>1, NodeAssumption
    <3>3. Pending' = Pending /\ Batch' = Batch /\ Batch = w
      BY <1>1, <1>2, <1>3, <2>3, <3>1 DEF MapsTo
    <3>4. Abstract!End
      BY <2>3, <2>5, <3>1, <3>2, <3>3 DEF Abstract!End
    <3> QED BY <3>4 DEF Abstract!Next
  <2> QED BY <2>6, <2>7
<1>12. CASE Keep \/ Run \/ HeadFuncReturns
  <2>1. PICK j \in 0 .. Len(w) : At(w, j)
    BY <1>12 DEF QueueIs, Cursor, InRound, Keep, Run, HeadFuncReturns
  <2>2. QueueIs(s, w, t)' /\ At(w, j)' /\ InRound /\ InRound' /\ worker # "init" /\ worker' # "init"
    BY <1>12, <2>1, KeepKeeps DEF Keep, Run, HeadFuncReturns, InRound
  <2>3. CASE Keep
    <3>1. j < Len(w) /\ n = w[j + 1] /\ n' = n /\ t = <<>> /\ worker = "visit" /\ worker' = "iter"
      BY <2>1, <2>3 DEF Keep, At, QueueIs, Lists
    <3>2. n \in Elements(w)
      BY <1>2, <3>1, ElementsOf
    <3>3. Kept = j /\ Kept' = j + 1 /\ Pending' = Pending /\ Batch' = Batch /\ Batch = w
      BY <1>1, <1>2, <1>3, <2>1, <2>2, <3>1, <3>2 DEF MapsTo
    <3>4. Abstract!Keep
      BY <2>2, <3>1, <3>3 DEF Abstract!Keep
    <3> QED BY <3>4 DEF Abstract!Next
  <2>4. CASE Run
    BY <2>1, <2>2, <2>4, Stutters DEF Run
  <2>5. CASE HeadFuncReturns
    <3>1. n \notin Elements(w) /\ n' = n
      BY <2>1, <2>5 DEF At, HeadFuncReturns
    <3> QED BY <2>1, <2>2, <2>5, <3>1, Stutters DEF HeadFuncReturns
  <2> QED BY <1>12, <2>3, <2>4, <2>5
<1>13. CASE FuncReturns \/ UnlinkHead
  <2>1. PICK j \in 0 .. Len(w) : At(w, j)
    BY <1>13 DEF QueueIs, Cursor, InRound, FuncReturns, UnlinkHead
  <2>2. PICK v : v = Abstract!Without(w, j + 1)
    OBVIOUS
  <2>3. /\ QueueIs(s, v, t)' /\ j < Len(w) /\ n \notin Elements(v) /\ t = <<>>
        /\ Len(v) = Len(w) - 1 /\ v \in Seq(Node)
    <3>1. QueueIs(s, v, t)' /\ j < Len(w) /\ n \notin Elements(v) /\ t = <<>> /\ Len(v) = Len(w) - 1
      BY <1>13, <2>1, <2>2, UnlinkKeeps
    <3> QED BY <3>1 DEF QueueIs, Lists, Linked
  <2>4. j \in 0 .. Len(v)
    BY <1>2, <2>3
  <2>5. InRound /\ InRound' /\ worker # "init" /\ worker # "iter" /\ worker' # "init" /\ n' = n /\ nPrev' = nPrev
    BY <1>13 DEF FuncReturns, UnlinkHead, InRound
  <2>6. At(v, j)'
    BY <1>13, <2>1, <2>2, UnlinkKeeps
  <2>7. Kept = j /\ Kept' = j /\ Pending' = Pending /\ Batch = w /\ Batch' = v
    BY <1>1, <1>2, <1>3, <2>1, <2>3, <2>4, <2>5, <2>6 DEF MapsTo
  <2>8. Abstract!Run
    BY <2>2, <2>3, <2>5, <2>7 DEF Abstract!Run
  <2> QED BY <2>8 DEF Abstract!Next
<1>14. CASE UNCHANGED vars
  <2>1. QueueIs(s, w, t)'
    BY <1>14 DEF vars, listVars, workVars, QueueIs, Lists, Places, Queued,
                 Inserting, Cursor, InRound, At, Checks
  <2> QED BY <1>14, <2>1, CallStutters DEF vars, workVars
<1> QED BY <1>4, <1>5, <1>6, <1>7, <1>8, <1>9, <1>10, <1>11, <1>12, <1>13, <1>14 DEF Next, WorkerStep

\* The pointers start as the empty abstract queue.
LEMMA QueueInitRefines == Init => Abstract!Init
<1> SUFFICES ASSUME Init PROVE Abstract!Init
  OBVIOUS
<1>1. Linked(next, NULL, <<>>)
  BY LinkedNull
<1>2. Path(NULL) = <<>>
  BY <1>1, WalkLinked DEF Path
<1>3. Pending = <<>> /\ Batch = <<>> /\ ~InRound
  BY <1>2 DEF Init, Pending, Batch, InRound
<1> QED BY <1>3 DEF Abstract!Init

\* The pointers implement the abstract queue.
THEOREM QueueRefines == Spec => ImplementsCallQueue
<1>1. QueueInv /\ QueueInv' /\ [Next]_vars => [Abstract!Next]_Abstract!vars
  BY QueueStepRefines
<1> QED BY <1>1, QueueInitRefines, QueueInvariant, PTL DEF Spec, ImplementsCallQueue, Abstract!Spec
=============================================================================
