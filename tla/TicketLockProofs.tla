-------------------------- MODULE TicketLockProofs --------------------------
(***************************************************************************)
(* Mutual exclusion of the ticket lock, for any number of threads smaller   *)
(* than Wrap.  The argument counts: as many threads are in line as there    *)
(* are tickets given and not yet served, so a new ticket never equals one   *)
(* that is still out, although the two words wrap around.                   *)
(*                                                                         *)
(* From the same invariant: the lock implements FifoLock.  Whoever drew the *)
(* ticket i places behind the one now served is at place i + 1 of the line, *)
(* and nobody else is.                                                      *)
(***************************************************************************)
EXTENDS TicketLock, FiniteSetTheorems, SequenceTheorems, TLAPS

InLineSet == {p \in Proc : InLine(p)}

\* How far a ticket is behind the one now served.
Dist(x) == IF x >= ticket THEN x - ticket ELSE x + Wrap - ticket

LineInv ==
    /\ Cardinality(InLineSet) = Dist(users)
    /\ \A p \in Proc : InLine(p) => Dist(me[p]) < Dist(users)
    /\ \A p, q \in Proc : InLine(p) /\ InLine(q) /\ me[p] = me[q] => p = q
    /\ \A p \in Proc : Owns(p) => me[p] = ticket

LockInv == LockTypeOK /\ LineInv

\* The successor of a ticket stays in range and is one more except at the wrap.
LEMMA SuccValue ==
  ASSUME NEW x \in 0 .. Wrap - 1
  PROVE  Succ(x) = IF x + 1 = Wrap THEN 0 ELSE x + 1
<1>1. Wrap \in Nat /\ Wrap > 0
  BY LockAssumption
<1>2. CASE x + 1 = Wrap
  BY <1>1, <1>2 DEF Succ
<1>3. CASE x + 1 # Wrap
  BY <1>1, <1>3 DEF Succ
<1> QED BY <1>2, <1>3

\* Some thread outside the line leaves room for one more ticket.
LEMMA Room ==
  ASSUME NEW p \in Proc, ~InLine(p)
  PROVE  /\ IsFiniteSet(InLineSet)
         /\ Cardinality(InLineSet) \in Nat
         /\ Cardinality(InLineSet) + 1 < Wrap
<1>1. InLineSet \subseteq Proc \ {p}
  BY DEF InLineSet
<1>2. IsFiniteSet(Proc \ {p}) /\ Cardinality(Proc \ {p}) = Cardinality(Proc) - 1
  BY LockAssumption, FS_RemoveElement
<1>3. IsFiniteSet(InLineSet) /\ Cardinality(InLineSet) <= Cardinality(Proc \ {p})
  BY <1>1, <1>2, FS_Subset
<1>4. Cardinality(Proc) \in Nat /\ Cardinality(InLineSet) \in Nat
  BY <1>3, LockAssumption, FS_CardinalityType
<1> QED BY <1>2, <1>3, <1>4, LockAssumption

\* A thread with a new ticket joins the line at its end.
LEMMA Join ==
  ASSUME LockInv, NEW p \in Proc, ~InLine(p),
         ticket' = ticket, users' = Succ(users),
         pc' \in [Proc -> {"idle", "spin", "try", "locked", "unlock"}],
         me' \in [Proc -> 0 .. Wrap - 1],
         me'[p] = users, InLine(p)', Owns(p)' => users = ticket,
         \A q \in Proc \ {p} : pc'[q] = pc[q] /\ me'[q] = me[q]
  PROVE  LockInv'
<1>1. Wrap \in Nat /\ IsFiniteSet(InLineSet) /\ Dist(users) + 1 < Wrap
  BY Room, LockAssumption DEF LockInv, LineInv
<1>2. users' \in 0 .. Wrap - 1 /\ Dist(users)' = Dist(users) + 1 /\ Dist(users) \in Nat
  BY <1>1, SuccValue DEF LockInv, LockTypeOK, Dist
<1>3. \A q \in Proc \ {p} : (InLine(q)' <=> InLine(q)) /\ (Owns(q)' <=> Owns(q))
                             /\ Dist(me[q])' = Dist(me[q])
  BY DEF InLine, Owns, Dist
<1>4. Dist(me[p])' = Dist(users)
  BY DEF Dist
<1>5. LockTypeOK'
  BY <1>2 DEF LockInv, LockTypeOK
<1>6. Cardinality(InLineSet)' = Dist(users)'
  <2>1. InLineSet' = InLineSet \cup {p}
    BY <1>3 DEF InLineSet
  <2>2. p \notin InLineSet
    BY DEF InLineSet
  <2>3. Cardinality(InLineSet \cup {p}) = Cardinality(InLineSet) + 1
    BY <1>1, <2>2, FS_AddElement
  <2> QED BY <1>2, <2>1, <2>3 DEF LockInv, LineInv
<1>7. \A q \in Proc : InLine(q)' => (Dist(me[q]) < Dist(users))'
  <2>1. \A q \in Proc \ {p} : Dist(me[q]) \in Int
    BY LockAssumption DEF LockInv, LockTypeOK, Dist
  <2> QED BY <1>2, <1>3, <1>4, <2>1 DEF LockInv, LineInv
<1>8. \A q \in Proc \ {p} : InLine(q) => me[q] # users
  BY <1>2 DEF LockInv, LineInv
<1>9. \A q, s \in Proc : InLine(q)' /\ InLine(s)' /\ me'[q] = me'[s] => q = s
  BY <1>3, <1>8 DEF LockInv, LineInv
<1>10. \A q \in Proc : Owns(q)' => me'[q] = ticket'
  BY <1>3 DEF LockInv, LineInv
<1> QED BY <1>5, <1>6, <1>7, <1>9, <1>10 DEF LockInv, LineInv

\* The owner leaves the line at its head.
LEMMA Depart ==
  ASSUME LockInv, NEW p \in Proc, UnlockStore(p)
  PROVE  LockInv'
<1> USE DEF UnlockStore, Goto
<1>1. Wrap \in Nat /\ me[p] = ticket /\ InLine(p) /\ ~InLine(p)'
  BY LockAssumption DEF LockInv, LineInv, LockTypeOK, InLine, Owns
<1>2. ticket' = IF ticket + 1 = Wrap THEN 0 ELSE ticket + 1
  BY <1>1, SuccValue DEF LockInv, LockTypeOK
<1>3. \A x \in 0 .. Wrap - 1 : x # ticket => Dist(x)' = Dist(x) - 1
  BY <1>1, <1>2 DEF LockInv, LockTypeOK, Dist
<1>4. \A q \in Proc \ {p} : (InLine(q)' <=> InLine(q)) /\ (Owns(q)' <=> Owns(q)) /\ me'[q] = me[q]
  BY DEF InLine, Owns, LockInv, LockTypeOK
<1>5. \A q \in Proc \ {p} : InLine(q) => me[q] # ticket
  BY <1>1 DEF LockInv, LineInv
<1>6. LockTypeOK'
  BY <1>1, <1>2 DEF LockInv, LockTypeOK
<1>7. users # ticket
  BY <1>1 DEF LockInv, LineInv, LockTypeOK, Dist
<1>8. Dist(users)' = Dist(users) - 1
  BY <1>3, <1>7 DEF LockInv, LockTypeOK, Dist
<1>9. Cardinality(InLineSet)' = Dist(users)'
  <2>1. InLineSet' = InLineSet \ {p} /\ p \in InLineSet
    BY <1>1, <1>4 DEF InLineSet
  <2>2. IsFiniteSet(InLineSet)
    BY LockAssumption, FS_Subset DEF InLineSet
  <2>3. Cardinality(InLineSet \ {p}) = Cardinality(InLineSet) - 1
    BY <2>1, <2>2, FS_RemoveElement
  <2> QED BY <1>8, <2>1, <2>3 DEF LockInv, LineInv
<1>10. \A q \in Proc : InLine(q)' => (Dist(me[q]) < Dist(users))'
  <2> SUFFICES ASSUME NEW q \in Proc, InLine(q)' PROVE (Dist(me[q]) < Dist(users))'
    OBVIOUS
  <2>1. q # p /\ InLine(q) /\ me'[q] = me[q] /\ me[q] # ticket
    BY <1>1, <1>4, <1>5
  <2>2. Dist(me[q])' = Dist(me[q]) - 1
    BY <1>3, <2>1 DEF LockInv, LockTypeOK, Dist
  <2>3. Dist(me[q]) < Dist(users) /\ Dist(me[q]) \in Int /\ Dist(users) \in Int
    BY <1>1, <2>1 DEF LockInv, LineInv, LockTypeOK, Dist
  <2> QED BY <1>8, <2>2, <2>3
<1>11. \A q \in Proc : Owns(q)' => me'[q] = ticket'
  BY <1>1, <1>4, <1>5 DEF LockInv, LineInv, InLine
<1>12. \A q, s \in Proc : InLine(q)' /\ InLine(s)' /\ me'[q] = me'[s] => q = s
  BY <1>1, <1>4 DEF LockInv, LineInv
<1> QED BY <1>6, <1>9, <1>10, <1>11, <1>12 DEF LockInv, LineInv

\* A step that neither joins nor leaves the line keeps it as it is.
LEMMA Stay ==
  ASSUME LockInv, LockTypeOK', ticket' = ticket, users' = users,
         \A q \in Proc : /\ InLine(q)' <=> InLine(q)
                         /\ InLine(q) => me'[q] = me[q]
                         /\ Owns(q)' => Owns(q) \/ me'[q] = ticket
  PROVE  LockInv'
<1>1. InLineSet' = InLineSet
  BY DEF InLineSet
<1>2. Dist(users)' = Dist(users) /\ \A q \in Proc : InLine(q) => Dist(me[q])' = Dist(me[q])
  BY DEF Dist
<1>3. \A q \in Proc : Owns(q)' => me'[q] = ticket'
  BY DEF LockInv, LineInv, InLine
<1> QED BY <1>1, <1>2, <1>3 DEF LockInv, LineInv

\* Every step preserves the invariant.
LEMMA LockNext == LockInv /\ [Next]_vars => LockInv'
<1> SUFFICES ASSUME LockInv, [Next]_vars PROVE LockInv'
  OBVIOUS
<1> USE DEF Goto, Draw
<1>1. ASSUME NEW p \in Proc, Lock(p) PROVE LockInv'
  BY <1>1, Join DEF Lock, LockInv, LockTypeOK, InLine, Owns
<1>2. ASSUME NEW p \in Proc, Enter(p) PROVE LockInv'
  BY <1>2, Stay DEF Enter, LockInv, LockTypeOK, InLine, Owns
<1>3. ASSUME NEW p \in Proc, Unlock(p) PROVE LockInv'
  BY <1>3, Stay DEF Unlock, LockInv, LineInv, LockTypeOK, InLine, Owns
<1>4. ASSUME NEW p \in Proc, UnlockStore(p) PROVE LockInv'
  BY <1>4, Depart
<1>5. ASSUME NEW p \in Proc, TryRead(p) PROVE LockInv'
  BY <1>5, Stay DEF TryRead, LockInv, LockTypeOK, InLine, Owns
<1>6. ASSUME NEW p \in Proc, TryTake(p) PROVE LockInv'
  BY <1>6, Join DEF TryTake, LockInv, LockTypeOK, InLine, Owns
<1>7. ASSUME NEW p \in Proc, TryBusy(p) PROVE LockInv'
  BY <1>7, Stay DEF TryBusy, LockInv, LockTypeOK, InLine, Owns
<1>8. CASE UNCHANGED vars
  BY <1>8, Stay DEF vars, LockInv, LockTypeOK, InLine, Owns
<1> QED BY <1>1, <1>2, <1>3, <1>4, <1>5, <1>6, <1>7, <1>8 DEF Next

\* The initial state satisfies the invariant.
LEMMA LockInit == Init => LockInv
<1> SUFFICES ASSUME Init PROVE LockInv
  OBVIOUS
<1>1. Wrap \in Nat /\ Wrap > 0
  BY LockAssumption, FS_CardinalityType
<1>2. InLineSet = {}
  BY DEF Init, InLineSet, InLine, Owns
<1>3. Cardinality(InLineSet) = 0
  BY <1>2, FS_EmptySet
<1> QED BY <1>1, <1>3 DEF Init, LockInv, LockTypeOK, LineInv, Dist, InLine, Owns

\* At most one thread owns the lock (lrcu_spin_lock, _unlock and _trylock,
\* spinlock.c lines 6-39), for any number of threads below Wrap.
THEOREM Exclusion == Spec => []MutualExclusion
<1>1. LockInv => MutualExclusion
  BY DEF LockInv, LineInv, MutualExclusion, InLine
<1> QED BY <1>1, LockInit, LockNext, PTL DEF Spec

\* ticket and users stay within their 16 bits.
THEOREM LockTypes == Spec => []LockTypeOK
<1>1. LockInv => LockTypeOK
  BY DEF LockInv
<1> QED BY <1>1, LockInit, LockNext, PTL DEF Spec

-----------------------------------------------------------------------------
(* The lock implements FifoLock.                                           *)

\* What Abstract substitutes for owner.
Owner == IF \E p \in Proc : Owns(p) THEN CHOOSE p \in Proc : Owns(p) ELSE NoOwner

\* The distance of a ticket is the difference the program computes modulo Wrap.
LEMMA DistValue ==
  ASSUME LockInv, NEW x \in 0 .. Wrap - 1
  PROVE  /\ Dist(x) \in 0 .. Wrap - 1
         /\ (x + Wrap - ticket) % Wrap = Dist(x)
         /\ \A d \in 0 .. Wrap - 1 : x = (ticket + d) % Wrap <=> Dist(x) = d
<1>1. Wrap \in Nat /\ Wrap > 0 /\ ticket \in 0 .. Wrap - 1
  BY LockAssumption DEF LockInv, LockTypeOK
<1>2. Dist(x) \in 0 .. Wrap - 1
  BY <1>1 DEF Dist
<1>3. (x + Wrap - ticket) % Wrap = Dist(x)
  <2>1. CASE x >= ticket
    BY <1>1, <2>1 DEF Dist
  <2>2. CASE x < ticket
    BY <1>1, <2>2 DEF Dist
  <2> QED BY <1>1, <2>1, <2>2
<1>4. ASSUME NEW d \in 0 .. Wrap - 1 PROVE x = (ticket + d) % Wrap <=> Dist(x) = d
  <2>1. CASE ticket + d < Wrap
    BY <1>1, <2>1 DEF Dist
  <2>2. CASE ticket + d >= Wrap
    <3>1. (ticket + d) % Wrap = ticket + d - Wrap
      BY <1>1, <2>2
    <3> QED BY <1>1, <2>2, <3>1 DEF Dist
  <2> QED BY <1>1, <2>1, <2>2
<1> QED BY <1>2, <1>3, <1>4

\* Every ticket given and not yet served is some thread's: as many threads are
\* in line as there are such tickets, and no two have the same one.
LEMMA EachPlaceTaken ==
  ASSUME LockInv, NEW d \in 0 .. Dist(users) - 1
  PROVE  \E p \in Proc : InLine(p) /\ Dist(me[p]) = d
<1> DEFINE Place == 0 .. Dist(users) - 1
           place == [p \in InLineSet |-> Dist(me[p])]
<1>1. users \in 0 .. Wrap - 1 /\ me \in [Proc -> 0 .. Wrap - 1] /\ Wrap \in Nat /\ ticket \in 0 .. Wrap - 1
  BY LockAssumption DEF LockInv, LockTypeOK
<1>2. Dist(users) \in 0 .. Wrap - 1 /\ \A p \in Proc : Dist(me[p]) \in 0 .. Wrap - 1
  BY <1>1, DistValue
<1>3. place \in [InLineSet -> Place]
  BY <1>1, <1>2 DEF LockInv, LineInv, InLineSet
<1>4. \A p, q \in InLineSet : place[p] = place[q] => p = q
  <2> SUFFICES ASSUME NEW p \in InLineSet, NEW q \in InLineSet, place[p] = place[q] PROVE p = q
    OBVIOUS
  <2>1. p \in Proc /\ q \in Proc /\ InLine(p) /\ InLine(q) /\ Dist(me[p]) = Dist(me[q])
    BY DEF InLineSet
  <2>2. me[p] = me[q]
    BY <1>1, <2>1 DEF Dist
  <2> QED BY <2>1, <2>2 DEF LockInv, LineInv
<1>5. place \in Injection(InLineSet, Place)
  BY <1>3, <1>4 DEF Injection, IsInjective
<1>6. IsFiniteSet(Place) /\ Cardinality(Place) = Dist(users)
  BY <1>2, FS_Interval
<1>7. place \in Surjection(InLineSet, Place)
  BY <1>5, <1>6, FS_Injection DEF LockInv, LineInv
<1>8. PICK p \in InLineSet : place[p] = d
  BY <1>7 DEF Surjection
<1> QED BY <1>8 DEF InLineSet

\* The line as a sequence: its length, and who is at which place.
LineOK ==
    /\ Line \in Seq(Proc) /\ Len(Line) = Dist(users)
    /\ \A i \in 1 .. Dist(users), p \in Proc :
           Line[i] = p <=> InLine(p) /\ Dist(me[p]) = i - 1

\* Each place of the line is the one of the ticket drawn there.
LEMMA LineValue == LockInv => LineOK
<1> SUFFICES ASSUME LockInv PROVE LineOK
  OBVIOUS
<1> DEFINE At(i) == CHOOSE p \in Proc : InLine(p) /\ me[p] = (ticket + i - 1) % Wrap
<1>1. users \in 0 .. Wrap - 1 /\ me \in [Proc -> 0 .. Wrap - 1] /\ Wrap \in Nat /\ ticket \in 0 .. Wrap - 1
  BY LockAssumption DEF LockInv, LockTypeOK
<1>2. Dist(users) \in 0 .. Wrap - 1 /\ (users + Wrap - ticket) % Wrap = Dist(users)
  BY <1>1, DistValue
<1>3. Line = [i \in 1 .. Dist(users) |-> At(i)]
  BY <1>2 DEF Line
<1>4. ASSUME NEW i \in 1 .. Dist(users), NEW p \in Proc
      PROVE  me[p] = (ticket + i - 1) % Wrap <=> Dist(me[p]) = i - 1
  <2>1. i - 1 \in 0 .. Wrap - 1 /\ ticket + i - 1 = ticket + (i - 1)
    BY <1>1, <1>2
  <2>2. me[p] \in 0 .. Wrap - 1
    BY <1>1
  <2> QED BY <2>1, <2>2, DistValue
<1>5. ASSUME NEW i \in 1 .. Dist(users)
      PROVE  At(i) \in Proc /\ InLine(At(i)) /\ Dist(me[At(i)]) = i - 1
  <2>1. i - 1 \in 0 .. Dist(users) - 1
    BY <1>2
  <2>2. \E p \in Proc : InLine(p) /\ Dist(me[p]) = i - 1
    BY <2>1, EachPlaceTaken
  <2>3. \E p \in Proc : InLine(p) /\ me[p] = (ticket + i - 1) % Wrap
    BY <1>4, <2>2
  <2>4. At(i) \in Proc /\ InLine(At(i)) /\ me[At(i)] = (ticket + i - 1) % Wrap
    BY <2>3
  <2> QED BY <1>4, <2>4
<1> HIDE DEF At
<1>6. ASSUME NEW i \in 1 .. Dist(users), NEW p \in Proc, InLine(p), Dist(me[p]) = i - 1
      PROVE  At(i) = p
  <2>1. me[At(i)] = me[p]
    BY <1>4, <1>5, <1>6
  <2> QED BY <1>5, <1>6, <2>1 DEF LockInv, LineInv
<1>7. Line \in [1 .. Dist(users) -> Proc]
  BY <1>3, <1>5
<1>8. Line \in Seq(Proc) /\ Len(Line) = Dist(users)
  BY <1>2, <1>7
<1> QED BY <1>5, <1>6, <1>8, <1>3 DEF LineOK

\* Who holds the lock.
OwnerOK == /\ \A p \in Proc : Owner = p <=> Owns(p)
           /\ Owner = NoOwner <=> \A p \in Proc : ~Owns(p)

\* The owner is the only thread that owns the lock.
LEMMA OwnerValue == LockInv => OwnerOK
<1> SUFFICES ASSUME LockInv PROVE OwnerOK
  OBVIOUS
<1>1. \A p, q \in Proc : Owns(p) /\ Owns(q) => p = q
  BY DEF LockInv, LineInv, InLine
<1>2. NoOwner \notin Proc
  BY LockAssumption
<1> QED BY <1>1, <1>2 DEF Owner, OwnerOK

\* The owner is at the head of the line.
LEMMA OwnerFirst ==
  ASSUME LockInv, NEW p \in Proc, InLine(p), me[p] = ticket
  PROVE  Dist(users) > 0 /\ Line # <<>> /\ Head(Line) = p
<1>1. Wrap \in Nat /\ ticket \in 0 .. Wrap - 1 /\ users \in 0 .. Wrap - 1
  BY LockAssumption DEF LockInv, LockTypeOK
<1>2. Dist(me[p]) = 0 /\ Dist(users) > 0
  BY <1>1 DEF LockInv, LineInv, Dist
<1>3. Dist(users) \in Nat
  BY <1>1 DEF Dist
<1>4. Line[1] = p /\ Line \in Seq(Proc) /\ Len(Line) = Dist(users)
  BY <1>2, <1>3, LineValue DEF LineOK
<1> QED BY <1>2, <1>4

\* A step that changes no one's place leaves the line as it is.
LEMMA SameLine ==
  ASSUME LockInv, LockInv', ticket' = ticket, users' = users,
         \A q \in Proc : (InLine(q)' <=> InLine(q)) /\ (InLine(q) => me'[q] = me[q])
  PROVE  Line' = Line
<1>1. Dist(users)' = Dist(users) /\ \A q \in Proc : InLine(q) => Dist(me[q])' = Dist(me[q])
  BY DEF Dist
<1>2. /\ Line \in Seq(Proc) /\ Len(Line) = Dist(users)
      /\ \A i \in 1 .. Dist(users), p \in Proc :
             Line[i] = p <=> InLine(p) /\ Dist(me[p]) = i - 1
  BY LineValue DEF LineOK
<1>3. /\ Line' \in Seq(Proc) /\ Len(Line') = Dist(users)'
      /\ \A i \in 1 .. Dist(users)', p \in Proc :
             Line'[i] = p <=> InLine(p)' /\ Dist(me[p])' = i - 1
  <2>1. LineOK'
    BY LineValue, PTL
  <2> QED BY <2>1 DEF LineOK
<1>4. \A i \in 1 .. Dist(users) : Line'[i] = Line[i]
  BY <1>1, <1>2, <1>3
<1> QED BY <1>1, <1>2, <1>3, <1>4, SeqEqual

\* A new ticket puts its thread at the end of the line.
LEMMA JoinsLine ==
  ASSUME LockInv, LockInv', NEW p \in Proc, ~InLine(p), InLine(p)',
         ticket' = ticket, users' = Succ(users), me'[p] = users,
         \A q \in Proc \ {p} : (InLine(q)' <=> InLine(q)) /\ me'[q] = me[q]
  PROVE  Line' = Append(Line, p)
<1>1. Wrap \in Nat /\ Dist(users) + 1 < Wrap /\ users \in 0 .. Wrap - 1
  BY Room, LockAssumption DEF LockInv, LineInv, LockTypeOK
<1>2. Dist(users)' = Dist(users) + 1 /\ Dist(users) \in Nat
  BY <1>1, SuccValue DEF LockInv, LockTypeOK, Dist
<1>3. Dist(me[p])' = Dist(users) /\ \A q \in Proc \ {p} : Dist(me[q])' = Dist(me[q])
  BY DEF Dist
<1>4. /\ Line \in Seq(Proc) /\ Len(Line) = Dist(users)
      /\ \A i \in 1 .. Dist(users), q \in Proc :
             Line[i] = q <=> InLine(q) /\ Dist(me[q]) = i - 1
  BY LineValue DEF LineOK
<1>5. /\ Line' \in Seq(Proc) /\ Len(Line') = Dist(users)'
      /\ \A i \in 1 .. Dist(users)', q \in Proc :
             Line'[i] = q <=> InLine(q)' /\ Dist(me[q])' = i - 1
  <2>1. LineOK'
    BY LineValue, PTL
  <2> QED BY <2>1 DEF LineOK
<1>6. \A i \in 1 .. Dist(users) : Line'[i] = Line[i]
  <2> SUFFICES ASSUME NEW i \in 1 .. Dist(users) PROVE Line'[i] = Line[i]
    OBVIOUS
  <2>1. PICK q \in Proc : q = Line[i]
    BY <1>4
  <2>2. InLine(q) /\ Dist(me[q]) = i - 1 /\ q # p
    BY <1>4, <2>1
  <2>3. InLine(q)' /\ Dist(me[q])' = i - 1
    BY <1>3, <2>2
  <2> QED BY <1>2, <1>5, <2>1, <2>3
<1>7. Line'[Dist(users) + 1] = p
  BY <1>2, <1>3, <1>5
<1>8. /\ Append(Line, p) \in Seq(Proc) /\ Len(Append(Line, p)) = Dist(users)'
      /\ \A i \in 1 .. Dist(users)' : Append(Line, p)[i] = Line'[i]
  BY <1>2, <1>4, <1>6, <1>7
<1> QED BY <1>2, <1>5, <1>8, SeqEqual

\* The owner's store takes the head off the line.
LEMMA LeavesLine ==
  ASSUME LockInv, LockInv', NEW p \in Proc, UnlockStore(p)
  PROVE  Line' = Tail(Line)
<1> USE DEF UnlockStore, Goto
<1>1. Wrap \in Nat /\ me[p] = ticket /\ InLine(p) /\ ~InLine(p)' /\ ticket \in 0 .. Wrap - 1 /\ users \in 0 .. Wrap - 1
  BY LockAssumption DEF LockInv, LineInv, LockTypeOK, InLine, Owns
<1>2. ticket' = IF ticket + 1 = Wrap THEN 0 ELSE ticket + 1
  BY <1>1, SuccValue
<1>3. \A x \in 0 .. Wrap - 1 : x # ticket => Dist(x)' = Dist(x) - 1
  BY <1>1, <1>2 DEF Dist
<1>4. Dist(users) > 0 /\ Line # <<>>
  BY <1>1, OwnerFirst
<1>5. Dist(users)' = Dist(users) - 1 /\ Dist(users) \in Nat
  BY <1>1, <1>3, <1>4 DEF Dist
<1>6. /\ Line \in Seq(Proc) /\ Len(Line) = Dist(users)
      /\ \A i \in 1 .. Dist(users), q \in Proc :
             Line[i] = q <=> InLine(q) /\ Dist(me[q]) = i - 1
  BY LineValue DEF LineOK
<1>7. /\ Line' \in Seq(Proc) /\ Len(Line') = Dist(users)'
      /\ \A i \in 1 .. Dist(users)', q \in Proc :
             Line'[i] = q <=> InLine(q)' /\ Dist(me[q])' = i - 1
  <2>1. LineOK'
    BY LineValue, PTL
  <2> QED BY <2>1 DEF LineOK
<1>8. ASSUME NEW i \in 1 .. Dist(users)' PROVE Line'[i] = Line[i + 1]
  <2>1. PICK q \in Proc : q = Line[i + 1]
    BY <1>5, <1>6
  <2>2. InLine(q) /\ Dist(me[q]) = i
    BY <1>5, <1>6, <2>1
  <2>3. me[q] # ticket /\ me[q] \in 0 .. Wrap - 1
    BY <1>1, <2>2 DEF Dist, LockInv, LockTypeOK
  <2>4. InLine(q)' /\ me'[q] = me[q]
    BY <1>1, <2>2, <2>3 DEF InLine, Owns, LockInv, LockTypeOK
  <2>5. Dist(me[q])' = Dist(me[q]) - 1
    BY <1>3, <2>3, <2>4 DEF Dist
  <2> QED BY <1>7, <2>1, <2>2, <2>4, <2>5
<1>9. /\ Tail(Line) \in Seq(Proc) /\ Len(Tail(Line)) = Dist(users)'
      /\ \A i \in 1 .. Dist(users)' : Tail(Line)[i] = Line'[i]
  BY <1>4, <1>5, <1>6, <1>8
<1> QED BY <1>7, <1>9, SeqEqual

-----------------------------------------------------------------------------
\* Each step of the ticket lock is a step of FifoLock, or none.
LEMMA LockStepRefines ==
  LockInv /\ LockInv' /\ [Next]_vars => [Abstract!Next]_(Abstract!lockVars)
<1> SUFFICES ASSUME LockInv, LockInv', [Next]_vars
             PROVE  [Abstract!Next]_(Abstract!lockVars)
  OBVIOUS
<1> USE DEF Goto, Draw
<1>a. pc \in [Proc -> {"idle", "spin", "try", "locked", "unlock"}] /\ me \in [Proc -> 0 .. Wrap - 1]
  BY DEF LockInv, LockTypeOK
<1>b. (\A p \in Proc : Owner = p <=> Owns(p)) /\ (Owner = NoOwner <=> \A p \in Proc : ~Owns(p))
  BY OwnerValue DEF OwnerOK
<1>c. (\A p \in Proc : Owner' = p <=> Owns(p)') /\ (Owner' = NoOwner <=> \A p \in Proc : ~Owns(p)')
  <2>1. OwnerOK'
    BY OwnerValue, PTL
  <2> QED BY <2>1 DEF OwnerOK
<1>d. Owner \in Proc \cup {NoOwner} /\ Owner' \in Proc \cup {NoOwner}
  BY DEF Owner
<1>e. ASSUME \A q \in Proc : Owns(q)' <=> Owns(q) PROVE Owner' = Owner
  BY <1>b, <1>c, <1>d, <1>e
<1>f. ASSUME Line' = Line, Owner' = Owner PROVE UNCHANGED Abstract!lockVars
  BY <1>f DEF Abstract!lockVars, Owner
<1>1. ASSUME NEW p \in Proc, Lock(p) PROVE Abstract!Arrive(p)
  <2>1. Line' = Append(Line, p)
    BY <1>a, <1>1, JoinsLine DEF Lock, InLine, Owns
  <2>2. Owner' = Owner
    BY <1>a, <1>e, <1>1 DEF Lock, Owns
  <2> QED BY <2>1, <2>2 DEF Abstract!Arrive, Owner
<1>2. ASSUME NEW p \in Proc, Enter(p) PROVE Abstract!Acquire(p)
  <2>1. Line # <<>> /\ Head(Line) = p
    BY <1>2, OwnerFirst DEF Enter, InLine
  <2>2. Line' = Line
    BY <1>a, <1>2, SameLine DEF Enter, InLine, Owns
  <2>3. Owner = NoOwner
    BY <1>b, <1>2 DEF Enter, LockInv, LineInv, InLine, Owns
  <2>4. Owner' = p
    BY <1>a, <1>c, <1>2 DEF Enter, Owns
  <2> QED BY <2>1, <2>2, <2>3, <2>4 DEF Abstract!Acquire, Owner
<1>3. ASSUME NEW p \in Proc, Unlock(p) PROVE UNCHANGED Abstract!lockVars
  <2>1. Line' = Line
    BY <1>a, <1>3, SameLine DEF Unlock, InLine, Owns, LockInv, LineInv
  <2>2. Owner' = Owner
    BY <1>a, <1>e, <1>3 DEF Unlock, Owns
  <2> QED BY <1>f, <2>1, <2>2
<1>4. ASSUME NEW p \in Proc, UnlockStore(p) PROVE Abstract!Release(p)
  <2>1. Line' = Tail(Line)
    BY <1>4, LeavesLine
  <2>2. Owner = p
    BY <1>b, <1>4 DEF UnlockStore, Owns
  <2>3. Owner' = NoOwner
    BY <1>a, <1>b, <1>c, <1>4, <2>2 DEF UnlockStore, Owns
  <2> QED BY <2>1, <2>2, <2>3 DEF Abstract!Release, Owner
<1>5. ASSUME NEW p \in Proc, TryRead(p) PROVE UNCHANGED Abstract!lockVars
  <2>1. Line' = Line
    BY <1>a, <1>5, SameLine DEF TryRead, InLine, Owns
  <2>2. Owner' = Owner
    BY <1>a, <1>e, <1>5 DEF TryRead, Owns
  <2> QED BY <1>f, <2>1, <2>2
<1>6. ASSUME NEW p \in Proc, TryTake(p) PROVE Abstract!Try(p)
  <2>1. Dist(users) = 0
    BY <1>6, LockAssumption DEF TryTake, Dist, LockInv, LockTypeOK
  <2>2. Line = <<>>
    BY <2>1, LineValue DEF LineOK
  <2>3. Line' = Append(Line, p)
    BY <1>a, <1>6, JoinsLine DEF TryTake, InLine, Owns
  <2>4. Line' = <<p>>
    BY <2>2, <2>3
  <2>5. Owner' = p
    BY <1>a, <1>c, <1>6 DEF TryTake, Owns
  <2> QED BY <2>2, <2>4, <2>5 DEF Abstract!Try, Owner
<1>7. ASSUME NEW p \in Proc, TryBusy(p) PROVE UNCHANGED Abstract!lockVars
  <2>1. Line' = Line
    BY <1>a, <1>7, SameLine DEF TryBusy, InLine, Owns
  <2>2. Owner' = Owner
    BY <1>a, <1>e, <1>7 DEF TryBusy, Owns
  <2> QED BY <1>f, <2>1, <2>2
<1>8. CASE UNCHANGED vars
  <2>1. Line' = Line
    BY <1>8, SameLine DEF vars, InLine, Owns
  <2>2. Owner' = Owner
    BY <1>e, <1>8 DEF vars, Owns
  <2> QED BY <1>f, <2>1, <2>2
<1> QED BY <1>1, <1>2, <1>3, <1>4, <1>5, <1>6, <1>7, <1>8 DEF Next, Abstract!Next

\* Nobody is in line at the start.
LEMMA LockInitRefines == Init => Abstract!Init
<1> SUFFICES ASSUME Init PROVE Abstract!Init
  OBVIOUS
<1>1. LockInv
  BY LockInit
<1>2. Dist(users) = 0
  BY LockAssumption DEF Init, Dist
<1>3. Line = <<>>
  BY <1>1, <1>2, LineValue DEF LineOK
<1>4. \A p \in Proc : ~Owns(p)
  BY DEF Init, Owns
<1> QED BY <1>3, <1>4 DEF Abstract!Init

\* lrcu_spin_lock, _unlock and _trylock (spinlock.c lines 6-39) grant the lock
\* in the order of arrival and never let a try overtake anyone, for any number
\* of threads below Wrap and however often the two words wrap around.
THEOREM LockIsFifo == Spec => Fifo
<1> QED BY LockInitRefines, LockStepRefines, LockInit, LockNext, PTL DEF Spec, Fifo, Abstract!Spec
=============================================================================
