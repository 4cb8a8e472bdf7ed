----------------------------- MODULE LrcuProofs -----------------------------
(***************************************************************************)
(* Proofs about Lrcu for every number of threads and objects and every      *)
(* bound.  Nothing is assumed of version++: TypeCorrect and RunsOnce hold    *)
(* whatever increments overlap, Grace and Waiting until one takes the       *)
(* version back, and Serial says when none ever does.                       *)
(*                                                                         *)
(* Each part of IndInv has a lemma <part>Next that says how the step        *)
(* preserves it, with one proof step per action.                            *)
(***************************************************************************)
EXTENDS LrcuInv, TLAPS

\* The initial state is well typed.
LEMMA TypeInit == Init => TypeOK
<1> SUFFICES ASSUME Init PROVE TypeOK
  OBVIOUS
<1>1. /\ pc \in [Proc -> ThreadPc \cup WorkerPc]
      /\ pc[Worker] \in WorkerPc /\ \A t \in Thread : pc[t] \in ThreadPc
  BY ThreadAssumption DEF Init, Proc, ThreadPc, WorkerPc
<1>2. slot0 \in [Scanner -> Nat \X Nat]
  BY BoundAssumption DEF Init
<1>3. ptr \in Obj \cup {NoObj} /\ fresh \subseteq Obj
  BY DEF Init
<1> QED BY <1>1, <1>2, <1>3 DEF Init, TypeOK, Kind, Part

\* What a scan leaves in its first slot (range.c, lines 115-137) is a pair of versions.
LEMMA FirstMergedType == \A R \in SUBSET (Nat \X Nat) : FirstMerged(R) \subseteq Nat \X Nat
<1> SUFFICES ASSUME NEW R \in SUBSET (Nat \X Nat) PROVE FirstMerged(R) \subseteq Nat \X Nat
  OBVIOUS
<1> DEFINE lows == {r[1] : r \in R}
<1> DEFINE ends == {r[2] : r \in R}
<1>1. lows \subseteq Nat /\ ends \subseteq Nat
  OBVIOUS
<1>2. Least(lows) \subseteq Nat
  BY <1>1 DEF Least
<1>3. FirstMerged(R) \subseteq Least(lows) \X ends
  BY DEF FirstMerged
<1> QED BY <1>1, <1>2, <1>3

\* No step of the code breaks a type (lines 103-613).
LEMMA TypeNext == TypeOK /\ ObjInv /\ [Next]_vars => TypeOK'
<1> SUFFICES ASSUME TypeOK, ObjInv, [Next]_vars PROVE TypeOK'
  OBVIOUS
<1> USE ThreadAssumption
<1> USE DEF TypeOK, Kind, nsVars, readVars, hungVars, updVars, listVars, scanVars, syncVars,
     Proc, Scanner
<1>1. ASSUME NEW s \in Thread, ReadLock(s) PROVE TypeOK'
  BY <1>1 DEF ReadLock, Goto, ThreadPc, WorkerPc, SyncPc, ScanPc
<1>2. ASSUME NEW s \in Thread, ReadLockLoad(s) PROVE TypeOK'
  BY <1>2 DEF ReadLockLoad, Goto, LoadVersion, ThreadPc, WorkerPc, SyncPc, ScanPc
<1>3. ASSUME NEW s \in Thread, ReadLockStore(s) PROVE TypeOK'
  BY <1>3 DEF ReadLockStore, Goto, ThreadPc, WorkerPc, SyncPc, ScanPc
<1>4. ASSUME NEW s \in Thread, Dereference(s) PROVE TypeOK'
  BY <1>4 DEF Dereference, ThreadPc, WorkerPc, SyncPc, ScanPc
<1>5. ASSUME NEW s \in Thread, ReadUnlock(s) PROVE TypeOK'
  BY <1>5 DEF ReadUnlock, ThreadPc, WorkerPc, SyncPc, ScanPc
<1>6. ASSUME NEW s \in Thread, WriteLock(s) PROVE TypeOK'
  BY <1>6 DEF WriteLock, Goto, LoadVersion, ThreadPc, WorkerPc, SyncPc, ScanPc
<1>7. ASSUME NEW s \in Thread, WriteLockStore(s) PROVE TypeOK'
  BY <1>7 DEF WriteLockStore, Goto, StoreBump, ThreadPc, WorkerPc, SyncPc, ScanPc
<1>8. ASSUME NEW s \in Thread, AssignLoad(s) PROVE TypeOK'
  BY <1>8 DEF AssignLoad, Goto, LoadVersion, ThreadPc, WorkerPc, SyncPc, ScanPc
<1>9. ASSUME NEW s \in Thread, AssignStore(s) PROVE TypeOK'
  BY <1>9 DEF AssignStore, Goto, StoreBump, ThreadPc, WorkerPc, SyncPc, ScanPc
<1>10. ASSUME NEW s \in Thread, AssignPtr(s) PROVE TypeOK'
  BY <1>10 DEF AssignPtr, ThreadPc, WorkerPc, SyncPc, ScanPc
<1>11. ASSUME NEW s \in Thread, WriteUnlock(s) PROVE TypeOK'
  BY <1>11 DEF WriteUnlock, ThreadPc, WorkerPc, SyncPc, ScanPc
<1>12. ASSUME NEW s \in Thread, CallLoad(s) PROVE TypeOK'
  BY <1>12 DEF CallLoad, Goto, LoadVersion, ThreadPc, WorkerPc, SyncPc, ScanPc
<1>13. ASSUME NEW s \in Thread, CallAdd(s) PROVE TypeOK'
  <2> USE <1>13 DEF CallAdd, Goto
  <2>1. old[s] \in Obj /\ reg[s] \in Nat
    BY DEF ObjInv
  <2>2. [obj |-> old[s], ver |-> reg[s]] \in Callback
    BY <2>1 DEF Callback
  <2>3. freeList' \in [Kind -> SUBSET Callback]
    BY <2>2, BoundAssumption
  <2> QED BY <2>3 DEF ThreadPc
<1>14. ASSUME NEW s \in Thread, TimerExpire(s) PROVE TypeOK'
  BY <1>14 DEF TimerExpire, ThreadPc, WorkerPc, SyncPc, ScanPc
<1>15. ASSUME NEW s \in Syncer, SyncStart(s) PROVE TypeOK'
  <2> USE <1>15 DEF SyncStart, Goto
  <2>1. slot0' \in [Scanner -> Nat \X Nat]
    BY BoundAssumption
  <2>2. {c.obj : c \in Queued} \subseteq Obj
    BY DEF Queued, Listed, Kind, Callback
  <2>3. owed' \in [Thread -> SUBSET Obj]
    BY <2>2
  <2> QED BY <2>1, <2>3 DEF ThreadPc, SyncPc, ScanPc
<1>16. ASSUME NEW s \in Syncer, SyncRetry(s) PROVE TypeOK'
  BY <1>16 DEF SyncRetry, Goto, ThreadPc, WorkerPc, SyncPc, ScanPc
<1>17. ASSUME NEW s \in Syncer, SyncReturn(s) PROVE TypeOK'
  BY <1>17 DEF SyncReturn, Goto, ForgetScan, ThreadPc, WorkerPc, SyncPc, ScanPc
<1>18. ASSUME NEW s \in Syncer, BarrierLoad(s) PROVE TypeOK'
  BY <1>18 DEF BarrierLoad, Goto, ThreadPc, WorkerPc, SyncPc, ScanPc
<1>19. ASSUME NEW s \in Syncer, BarrierReturn(s) PROVE TypeOK'
  BY <1>19 DEF BarrierReturn, Goto, ThreadPc, WorkerPc, SyncPc, ScanPc
<1>20. ASSUME NEW q \in Scanner, ScanStart(q) PROVE TypeOK'
  BY <1>20 DEF ScanStart, Goto, ThreadPc, WorkerPc, SyncPc, ScanPc
<1>21. ASSUME NEW q \in Scanner, ScanLock(q) PROVE TypeOK'
  BY <1>21 DEF ScanLock, Goto, ThreadPc, WorkerPc, SyncPc, ScanPc
<1>22. ASSUME NEW q \in Scanner, ScanRead(q) PROVE TypeOK'
  BY <1>22 DEF ScanRead, Part
<1>23. ASSUME NEW q \in Scanner, ScanIdle(q) PROVE TypeOK'
  <2> USE <1>23 DEF ScanIdle, Visited
  <2>1. Seen \in Thread /\ SeenCounter \in Nat /\ SeenVersion \in Nat
    BY DEF Visit, Seen, SeenCounter, SeenVersion
  <2>2. part' \in Part
    BY DEF Part
  <2> QED BY <2>1, <2>2
<1>24. ASSUME NEW q \in Scanner, ScanActive(q) PROVE TypeOK'
  <2> USE <1>24 DEF ScanActive, Visited
  <2>1. Seen \in Thread /\ SeenCounter \in Nat /\ SeenVersion \in Nat
    BY DEF Visit, Seen, SeenCounter, SeenVersion
  <2>2. part' \in Part
    BY DEF Part
  <2> QED BY <2>1, <2>2
<1>25. ASSUME NEW q \in Scanner, ScanThreadsDone(q) PROVE TypeOK'
  BY <1>25 DEF ScanThreadsDone, Goto, ThreadPc, WorkerPc, SyncPc, ScanPc
<1>26. ASSUME NEW q \in Scanner, ScanHung(q) PROVE TypeOK'
  <2> USE <1>26 DEF ScanHung, Visited
  <2>1. Seen \in Thread /\ SeenCounter \in Nat /\ SeenVersion \in Nat
    BY DEF Visit, Seen, SeenCounter, SeenVersion
  <2>2. part' \in Part
    BY DEF Part
  <2> QED BY <2>1, <2>2
<1>27. ASSUME NEW q \in Scanner, ScanUnlock(q) PROVE TypeOK'
  <2> USE <1>27 DEF ScanUnlock, Goto
  <2>1. slot0' \in [Scanner -> Nat \X Nat]
    <3>1. rbt[q] \in SUBSET (Nat \X Nat)
      OBVIOUS
    <3>2. FirstMerged(rbt[q]) \subseteq Nat \X Nat
      BY <3>1, FirstMergedType
    <3>3. CASE rbt[q] = {}
      BY <3>3
    <3>4. CASE rbt[q] # {}
      <4>1. PICK first \in FirstMerged(rbt[q]) : slot0' = [slot0 EXCEPT ![q] = first]
        BY <3>4
      <4>2. first \in Nat \X Nat
        BY <3>2
      <4> QED BY <4>1, <4>2
    <3> QED BY <3>3, <3>4
  <2>2. /\ pc' \in [Proc -> ThreadPc \cup WorkerPc]
        /\ pc'[Worker] \in WorkerPc /\ \A t \in Thread : pc'[t] \in ThreadPc
    BY DEF ThreadPc, WorkerPc, SyncPc, ScanPc
  <2> QED BY <2>1, <2>2
<1>28. ASSUME WorkerSplice PROVE TypeOK'
  BY <1>28 DEF WorkerSplice, Splice, Goto, ThreadPc, WorkerPc, SyncPc, ScanPc
<1>29. ASSUME WorkerSpliceHead PROVE TypeOK'
  BY <1>29 DEF WorkerSpliceHead, Splice, Goto, ThreadPc, WorkerPc, SyncPc, ScanPc
<1>30. ASSUME NEW k \in Kind, WorkerRun(k) PROVE TypeOK'
  <2> USE <1>30 DEF WorkerRun
  <2>1. \A c \in Ready(k) : c.obj \in Obj
    BY DEF Ready, Callback, Kind
  <2> QED BY <2>1
<1>31. ASSUME WorkerRunDone PROVE TypeOK'
  <2> USE <1>31 DEF WorkerRunDone, Goto, ForgetScan
  <2>1. processed' \in Nat
    BY DEF Least
  <2> QED BY <2>1 DEF WorkerPc
<1>32. ASSUME WorkerZero PROVE TypeOK'
  BY <1>32 DEF WorkerZero, LoadVersion, Goto, ThreadPc, WorkerPc, SyncPc, ScanPc
<1>33. ASSUME WorkerBumpLoad PROVE TypeOK'
  BY <1>33 DEF WorkerBumpLoad, Goto, LoadVersion, ThreadPc, WorkerPc, SyncPc, ScanPc
<1>34. ASSUME WorkerBumpStore PROVE TypeOK'
  BY <1>34 DEF WorkerBumpStore, Goto, StoreBump, ThreadPc, WorkerPc, SyncPc, ScanPc
<1>35. ASSUME WorkerSkipBump PROVE TypeOK'
  BY <1>35 DEF WorkerSkipBump, Goto, ThreadPc, WorkerPc, SyncPc, ScanPc
<1>36. ASSUME WorkerZeroStore PROVE TypeOK'
  BY <1>36 DEF WorkerZeroStore, StoreProcessed, Goto, ThreadPc, WorkerPc, SyncPc, ScanPc
<1>37. ASSUME WorkerIdle PROVE TypeOK'
  BY <1>37 DEF WorkerIdle, LoadVersion, Goto, ThreadPc, WorkerPc, SyncPc, ScanPc
<1>38. ASSUME WorkerIdleStore PROVE TypeOK'
  BY <1>38 DEF WorkerIdleStore, StoreProcessed, Goto, ThreadPc, WorkerPc, SyncPc, ScanPc
<1>39. CASE UNCHANGED vars
  BY <1>39 DEF vars, ThreadPc, WorkerPc, SyncPc, ScanPc
<1> QED BY <1>1, <1>2, <1>3, <1>4, <1>5, <1>6, <1>7, <1>8, <1>9, <1>10, <1>11, <1>12, <1>13,
     <1>14, <1>15, <1>16, <1>17, <1>18, <1>19, <1>20, <1>21, <1>22, <1>23, <1>24, <1>25, <1>26,
     <1>27, <1>28, <1>29, <1>30, <1>31, <1>32, <1>33, <1>34, <1>35, <1>36, <1>37, <1>38, <1>39
  DEF Next, ReaderStep, UpdaterStep, SyncStep, ScanStep, WorkerStep

-----------------------------------------------------------------------------
(* Versions.                                                               *)

\* A version++ that does not take the version back leaves it where it is or
\* further on.
LEMMA BumpForward ==
  ASSUME TypeOK, NEW p \in Proc, StoreBump(p), ~setBack'
  PROVE  version' \in Nat /\ version <= version' /\ reg' = [reg EXCEPT ![p] = 0]
<1>1. ~(reg[p] + 1 < version)
  BY Zenon DEF StoreBump
<1> QED BY <1>1 DEF StoreBump, TypeOK

\* Every recorded version was read from ns->version, which does not go back
\* unless setBack says so (lines 103-128, 186-240 and 567).
LEMMA VersionNext == TypeOK /\ ObjInv /\ VersionInv /\ ~setBack' /\ [Next]_vars => VersionInv'
<1> SUFFICES ASSUME TypeOK, ObjInv, VersionInv, ~setBack', [Next]_vars PROVE VersionInv'
  OBVIOUS
<1> USE ThreadAssumption
<1> USE DEF TypeOK, VersionInv, Queued, Listed, Kind, Callback, nsVars, readVars, hungVars,
     updVars, listVars, scanVars, syncVars, Proc, Scanner
<1>1. ASSUME NEW s \in Thread, ReadLock(s) PROVE VersionInv'
  BY <1>1 DEF ReadLock, Goto
<1>2. ASSUME NEW s \in Thread, ReadLockLoad(s) PROVE VersionInv'
  BY <1>2 DEF ReadLockLoad, Goto, LoadVersion
<1>3. ASSUME NEW s \in Thread, ReadLockStore(s) PROVE VersionInv'
  BY <1>3 DEF ReadLockStore, Goto
<1>4. ASSUME NEW s \in Thread, Dereference(s) PROVE VersionInv'
  BY <1>4 DEF Dereference
<1>5. ASSUME NEW s \in Thread, ReadUnlock(s) PROVE VersionInv'
  BY <1>5 DEF ReadUnlock
<1>6. ASSUME NEW s \in Thread, WriteLock(s) PROVE VersionInv'
  BY <1>6 DEF WriteLock, Goto, LoadVersion
<1>7. ASSUME NEW s \in Thread, WriteLockStore(s) PROVE VersionInv'
  <2>1. version' \in Nat /\ version <= version' /\ reg' = [reg EXCEPT ![s] = 0]
    BY <1>7, BumpForward DEF WriteLockStore
  <2>2. /\ \A p \in Proc : reg'[p] <= version'
        /\ UNCHANGED <<lversion, freeList, workList, target>>
    BY <1>7, <2>1 DEF WriteLockStore
  <2>3. \A t \in Thread : pc'[t] = "rl_store" => pc[t] = "rl_store" /\ reg'[t] = reg[t]
    BY <1>7, <2>1 DEF WriteLockStore, Goto
  <2>4. \A c \in Queued : c.ver \in Nat /\ c.ver <= version'
    BY <2>1
  <2> QED BY <2>1, <2>2, <2>3, <2>4
<1>8. ASSUME NEW s \in Thread, AssignLoad(s) PROVE VersionInv'
  BY <1>8 DEF AssignLoad, Goto, LoadVersion
<1>9. ASSUME NEW s \in Thread, AssignStore(s) PROVE VersionInv'
  <2>1. version' \in Nat /\ version <= version' /\ reg' = [reg EXCEPT ![s] = 0]
    BY <1>9, BumpForward DEF AssignStore
  <2>2. /\ \A p \in Proc : reg'[p] <= version'
        /\ UNCHANGED <<lversion, freeList, workList, target>>
    BY <1>9, <2>1 DEF AssignStore
  <2>3. \A t \in Thread : pc'[t] = "rl_store" => pc[t] = "rl_store" /\ reg'[t] = reg[t]
    BY <1>9, <2>1 DEF AssignStore, Goto
  <2>4. \A c \in Queued : c.ver \in Nat /\ c.ver <= version'
    BY <2>1
  <2> QED BY <2>1, <2>2, <2>3, <2>4
<1>10. ASSUME NEW s \in Thread, AssignPtr(s) PROVE VersionInv'
  BY <1>10 DEF AssignPtr
<1>11. ASSUME NEW s \in Thread, WriteUnlock(s) PROVE VersionInv'
  BY <1>11 DEF WriteUnlock
<1>12. ASSUME NEW s \in Thread, CallLoad(s) PROVE VersionInv'
  BY <1>12 DEF CallLoad, Goto, LoadVersion
<1>13. ASSUME NEW s \in Thread, CallAdd(s) PROVE VersionInv'
  BY <1>13 DEF CallAdd, Goto
<1>14. ASSUME NEW s \in Thread, TimerExpire(s) PROVE VersionInv'
  BY <1>14 DEF TimerExpire
<1>15. ASSUME NEW s \in Syncer, SyncStart(s) PROVE VersionInv'
  BY <1>15 DEF SyncStart, Goto
<1>16. ASSUME NEW s \in Syncer, SyncRetry(s) PROVE VersionInv'
  BY <1>16 DEF SyncRetry, Goto
<1>17. ASSUME NEW s \in Syncer, SyncReturn(s) PROVE VersionInv'
  BY <1>17 DEF SyncReturn, Goto, ForgetScan
<1>18. ASSUME NEW s \in Syncer, BarrierLoad(s) PROVE VersionInv'
  BY <1>18 DEF BarrierLoad, Goto
<1>19. ASSUME NEW s \in Syncer, BarrierReturn(s) PROVE VersionInv'
  BY <1>19 DEF BarrierReturn, Goto
<1>20. ASSUME NEW q \in Scanner, ScanStart(q) PROVE VersionInv'
  BY <1>20 DEF ScanStart, Goto
<1>21. ASSUME NEW q \in Scanner, ScanLock(q) PROVE VersionInv'
  BY <1>21 DEF ScanLock, Goto
<1>22. ASSUME NEW q \in Scanner, ScanRead(q) PROVE VersionInv'
  BY <1>22 DEF ScanRead
<1>23. ASSUME NEW q \in Scanner, ScanIdle(q) PROVE VersionInv'
  BY <1>23 DEF ScanIdle, Visited, Visit, Seen, SeenCounter, SeenVersion
<1>24. ASSUME NEW q \in Scanner, ScanActive(q) PROVE VersionInv'
  BY <1>24 DEF ScanActive, Visited, Visit, Seen, SeenCounter, SeenVersion
<1>25. ASSUME NEW q \in Scanner, ScanThreadsDone(q) PROVE VersionInv'
  BY <1>25 DEF ScanThreadsDone, Goto
<1>26. ASSUME NEW q \in Scanner, ScanHung(q) PROVE VersionInv'
  BY <1>26 DEF ScanHung, Visited, Visit, Seen, SeenCounter, SeenVersion
<1>27. ASSUME NEW q \in Scanner, ScanUnlock(q) PROVE VersionInv'
  BY <1>27 DEF ScanUnlock, Goto
<1>28. ASSUME WorkerSplice PROVE VersionInv'
  BY <1>28 DEF WorkerSplice, Splice, Goto
<1>29. ASSUME WorkerSpliceHead PROVE VersionInv'
  BY <1>29 DEF WorkerSpliceHead, Splice, Goto
<1>30. ASSUME NEW k \in Kind, WorkerRun(k) PROVE VersionInv'
  BY <1>30 DEF WorkerRun, Ready
<1>31. ASSUME WorkerRunDone PROVE VersionInv'
  BY <1>31 DEF WorkerRunDone, Goto, ForgetScan
<1>32. ASSUME WorkerZero PROVE VersionInv'
  BY <1>32 DEF WorkerZero, LoadVersion, Goto
<1>33. ASSUME WorkerBumpLoad PROVE VersionInv'
  BY <1>33 DEF WorkerBumpLoad, Goto, LoadVersion
<1>34. ASSUME WorkerBumpStore PROVE VersionInv'
  <2>1. version' \in Nat /\ version <= version' /\ reg' = [reg EXCEPT ![Worker] = 0]
    BY <1>34, BumpForward DEF WorkerBumpStore
  <2>2. /\ \A p \in Proc : reg'[p] <= version'
        /\ UNCHANGED <<lversion, freeList, workList, target>>
    BY <1>34, <2>1 DEF WorkerBumpStore
  <2>3. \A t \in Thread : pc'[t] = "rl_store" => pc[t] = "rl_store" /\ reg'[t] = reg[t]
    BY <1>34, <2>1 DEF WorkerBumpStore, Goto
  <2>4. \A c \in Queued : c.ver \in Nat /\ c.ver <= version'
    BY <2>1
  <2> QED BY <2>1, <2>2, <2>3, <2>4
<1>35. ASSUME WorkerSkipBump PROVE VersionInv'
  BY <1>35 DEF WorkerSkipBump, Goto
<1>36. ASSUME WorkerZeroStore PROVE VersionInv'
  BY <1>36 DEF WorkerZeroStore, StoreProcessed, Goto
<1>37. ASSUME WorkerIdle PROVE VersionInv'
  BY <1>37 DEF WorkerIdle, LoadVersion, Goto
<1>38. ASSUME WorkerIdleStore PROVE VersionInv'
  BY <1>38 DEF WorkerIdleStore, StoreProcessed, Goto
<1>39. CASE UNCHANGED vars
  BY <1>39 DEF vars
<1> QED BY <1>1, <1>2, <1>3, <1>4, <1>5, <1>6, <1>7, <1>8, <1>9, <1>10, <1>11, <1>12, <1>13,
     <1>14, <1>15, <1>16, <1>17, <1>18, <1>19, <1>20, <1>21, <1>22, <1>23, <1>24, <1>25, <1>26,
     <1>27, <1>28, <1>29, <1>30, <1>31, <1>32, <1>33, <1>34, <1>35, <1>36, <1>37, <1>38, <1>39
  DEF Next, ReaderStep, UpdaterStep, SyncStep, ScanStep, WorkerStep

-----------------------------------------------------------------------------
(* Objects, read sections, the lock.                                       *)

\* An object moves from published to unlinked, queued and freed, one place at
\* a time (lines 82-99, 186-240 and 455-503).
LEMMA ObjNext == TypeOK /\ ObjInv /\ [Next]_vars => ObjInv'
<1> SUFFICES ASSUME TypeOK, ObjInv, [Next]_vars PROVE ObjInv'
  OBVIOUS
<1> USE ThreadAssumption
<1> USE DEF TypeOK, Queued, Listed, Kind, Callback, nsVars, readVars, hungVars, updVars,
     listVars, scanVars, syncVars, Proc, Scanner
<1>1. ASSUME NEW s \in Thread, ReadLock(s) PROVE ObjInv'
  BY <1>1 DEF ReadLock, Goto, ObjInv, CalledOnce, RunOnce, NoneLost
<1>2. ASSUME NEW s \in Thread, ReadLockLoad(s) PROVE ObjInv'
  BY <1>2 DEF ReadLockLoad, Goto, LoadVersion, ObjInv, CalledOnce, RunOnce, NoneLost
<1>3. ASSUME NEW s \in Thread, ReadLockStore(s) PROVE ObjInv'
  BY <1>3 DEF ReadLockStore, Goto, ObjInv, CalledOnce, RunOnce, NoneLost
<1>4. ASSUME NEW s \in Thread, Dereference(s) PROVE ObjInv'
  BY <1>4 DEF Dereference, ObjInv, CalledOnce, RunOnce, NoneLost
<1>5. ASSUME NEW s \in Thread, ReadUnlock(s) PROVE ObjInv'
  BY <1>5 DEF ReadUnlock, ObjInv, CalledOnce, RunOnce, NoneLost
<1>6. ASSUME NEW s \in Thread, WriteLock(s) PROVE ObjInv'
  BY <1>6 DEF WriteLock, Goto, LoadVersion, ObjInv, CalledOnce, RunOnce, NoneLost
<1>7. ASSUME NEW s \in Thread, WriteLockStore(s) PROVE ObjInv'
  BY <1>7 DEF WriteLockStore, Goto, StoreBump, ObjInv, CalledOnce, RunOnce, NoneLost
<1>8. ASSUME NEW s \in Thread, AssignLoad(s) PROVE ObjInv'
  BY <1>8 DEF AssignLoad, Goto, LoadVersion, ObjInv, CalledOnce, RunOnce, NoneLost
<1>9. ASSUME NEW s \in Thread, AssignStore(s) PROVE ObjInv'
  BY <1>9 DEF AssignStore, Goto, StoreBump, ObjInv, CalledOnce, RunOnce, NoneLost
<1>10. ASSUME NEW s \in Thread, AssignPtr(s) PROVE ObjInv'
  <2>1. PICK new \in (fresh \cup {NoObj}) \ {ptr} : ptr' = new /\ fresh' = fresh \ {new}
    BY <1>10 DEF AssignPtr
  <2>2. /\ old[s] = NoObj /\ old' = [old EXCEPT ![s] = ptr]
        /\ Queued' = Queued /\ UNCHANGED <<freeList, workList, freed>>
        /\ \A t \in Thread : pc'[t] = "call_add" => pc[t] = "call_add" /\ t # s
    BY <1>10 DEF AssignPtr
  <2>4. \A c \in Queued : c.obj \in Obj
    BY DEF Queued, Listed, Kind, Callback
  <2> HIDE DEF Queued
  <2>3. CalledOnce'
    <3>1. RunOnce'
      BY <2>2 DEF ObjInv, CalledOnce, RunOnce
    <3>2. NoneLost'
      <4> SUFFICES ASSUME NEW o \in Obj
                   PROVE  \/ o \in fresh' \cup freed' \cup {ptr'}
                          \/ \E t \in Thread : old'[t] = o
                          \/ \E c \in Queued' : c.obj = o
        BY DEF NoneLost
      <4>1. \/ o \in fresh \cup freed \cup {ptr}
            \/ \E t \in Thread : old[t] = o
            \/ \E c \in Queued : c.obj = o
        BY DEF ObjInv, CalledOnce, NoneLost
      <4>2. CASE o = ptr
        <5>1. old'[s] = o
          BY <2>2, <4>2
        <5> QED BY <5>1
      <4>3. CASE \E t \in Thread : old[t] = o
        <5>1. \E t \in Thread : old'[t] = o
          BY <2>2, <4>3, ObjAssumption
        <5> QED BY <5>1
      <4>4. CASE o \in fresh
        BY <2>1, <4>4
      <4>5. CASE o \in freed
        BY <2>2, <4>5
      <4>6. CASE \E c \in Queued : c.obj = o
        BY <2>2, <4>6
      <4> QED BY <4>1, <4>2, <4>3, <4>4, <4>5, <4>6
    <3> QED BY <3>1, <3>2 DEF CalledOnce
  <2> QED BY <2>1, <2>2, <2>3, <2>4, ObjAssumption DEF ObjInv
<1>11. ASSUME NEW s \in Thread, WriteUnlock(s) PROVE ObjInv'
  BY <1>11 DEF WriteUnlock, ObjInv, CalledOnce, RunOnce, NoneLost
<1>12. ASSUME NEW s \in Thread, CallLoad(s) PROVE ObjInv'
  BY <1>12 DEF CallLoad, Goto, LoadVersion, ObjInv, CalledOnce, RunOnce, NoneLost
<1>13. ASSUME NEW s \in Thread, CallAdd(s) PROVE ObjInv'
  <2> DEFINE new == [obj |-> old[s], ver |-> reg[s]]
  <2>1. PICK k \in Kinds : freeList' = [freeList EXCEPT ![k] = @ \cup {new}]
    BY <1>13 DEF CallAdd
  <2>2. old[s] \in Obj /\ new \in Callback /\ k \in Kind /\ new.obj = old[s]
    BY <1>13, BoundAssumption DEF CallAdd, Goto, ObjInv
  <2>3. Queued' = Queued \cup {new} /\ workList' = workList
    BY <1>13, <2>1, <2>2 DEF CallAdd
  <2>4. (\A c \in Queued : c.obj # old[s]) /\ new \notin Queued
    BY <2>2 DEF ObjInv
  <2>5. /\ \A m, l \in Kind : freeList'[m] \cap workList'[l] = {}
        /\ \A lists \in {freeList', workList'} : lists["list"] \cap lists["hlist"] = {}
    BY <2>1, <2>2, <2>3, <2>4 DEF ObjInv, CalledOnce, RunOnce
  <2>6. \A t \in Thread : pc'[t] = "call_add" => pc[t] = "call_add" /\ t # s
    BY <1>13 DEF CallAdd, Goto
  <2>7. UNCHANGED <<ptr, fresh, freed>> /\ old' = [old EXCEPT ![s] = NoObj]
    BY <1>13 DEF CallAdd
  <2> HIDE DEF new, Queued
  <2>8. CalledOnce'
    <3>1. RunOnce'
      BY <2>2, <2>3, <2>4, <2>5, <2>7 DEF ObjInv, CalledOnce, RunOnce
    <3>2. NoneLost'
      BY <2>2, <2>3, <2>7 DEF ObjInv, CalledOnce, NoneLost
    <3> QED BY <3>1, <3>2 DEF CalledOnce
  <2> QED BY <2>2, <2>3, <2>4, <2>6, <2>7, <2>8, ObjAssumption DEF ObjInv
<1>14. ASSUME NEW s \in Thread, TimerExpire(s) PROVE ObjInv'
  BY <1>14 DEF TimerExpire, ObjInv, CalledOnce, RunOnce, NoneLost
<1>15. ASSUME NEW s \in Syncer, SyncStart(s) PROVE ObjInv'
  BY <1>15 DEF SyncStart, Goto, ObjInv, CalledOnce, RunOnce, NoneLost
<1>16. ASSUME NEW s \in Syncer, SyncRetry(s) PROVE ObjInv'
  BY <1>16 DEF SyncRetry, Goto, ObjInv, CalledOnce, RunOnce, NoneLost
<1>17. ASSUME NEW s \in Syncer, SyncReturn(s) PROVE ObjInv'
  BY <1>17 DEF SyncReturn, Goto, ForgetScan, ObjInv, CalledOnce, RunOnce, NoneLost
<1>18. ASSUME NEW s \in Syncer, BarrierLoad(s) PROVE ObjInv'
  BY <1>18 DEF BarrierLoad, Goto, ObjInv, CalledOnce, RunOnce, NoneLost
<1>19. ASSUME NEW s \in Syncer, BarrierReturn(s) PROVE ObjInv'
  BY <1>19 DEF BarrierReturn, Goto, ObjInv, CalledOnce, RunOnce, NoneLost
<1>20. ASSUME NEW q \in Scanner, ScanStart(q) PROVE ObjInv'
  BY <1>20 DEF ScanStart, Goto, ObjInv, CalledOnce, RunOnce, NoneLost
<1>21. ASSUME NEW q \in Scanner, ScanLock(q) PROVE ObjInv'
  BY <1>21 DEF ScanLock, Goto, ObjInv, CalledOnce, RunOnce, NoneLost
<1>22. ASSUME NEW q \in Scanner, ScanRead(q) PROVE ObjInv'
  BY <1>22 DEF ScanRead, ObjInv, CalledOnce, RunOnce, NoneLost
<1>23. ASSUME NEW q \in Scanner, ScanIdle(q) PROVE ObjInv'
  BY <1>23 DEF ScanIdle, Visited, Visit, Seen, SeenCounter, SeenVersion, ObjInv, CalledOnce, RunOnce, NoneLost
<1>24. ASSUME NEW q \in Scanner, ScanActive(q) PROVE ObjInv'
  BY <1>24 DEF ScanActive, Visited, Visit, Seen, SeenCounter, SeenVersion, ObjInv, CalledOnce, RunOnce, NoneLost
<1>25. ASSUME NEW q \in Scanner, ScanThreadsDone(q) PROVE ObjInv'
  BY <1>25 DEF ScanThreadsDone, Goto, ObjInv, CalledOnce, RunOnce, NoneLost
<1>26. ASSUME NEW q \in Scanner, ScanHung(q) PROVE ObjInv'
  BY <1>26 DEF ScanHung, Visited, Visit, Seen, SeenCounter, SeenVersion, ObjInv, CalledOnce, RunOnce, NoneLost
<1>27. ASSUME NEW q \in Scanner, ScanUnlock(q) PROVE ObjInv'
  BY <1>27 DEF ScanUnlock, Goto, ObjInv, CalledOnce, RunOnce, NoneLost
<1>28. ASSUME WorkerSplice PROVE ObjInv'
  <2>1. Queued' = Queued
    BY <1>28 DEF WorkerSplice, Splice
  <2>2. /\ \A m, l \in Kind : freeList'[m] \cap workList'[l] = {}
        /\ \A lists \in {freeList', workList'} : lists["list"] \cap lists["hlist"] = {}
    BY <1>28 DEF WorkerSplice, Splice, ObjInv, CalledOnce, RunOnce
  <2>3. UNCHANGED <<ptr, fresh, old, freed>> /\ \A t \in Thread : pc'[t] = pc[t]
    BY <1>28 DEF WorkerSplice, Splice, Goto
  <2> HIDE DEF Queued
  <2> QED BY <2>1, <2>2, <2>3 DEF ObjInv, CalledOnce, RunOnce, NoneLost
<1>29. ASSUME WorkerSpliceHead PROVE ObjInv'
  <2>1. Queued' = Queued
    BY <1>29 DEF WorkerSpliceHead, Splice
  <2>2. /\ \A m, l \in Kind : freeList'[m] \cap workList'[l] = {}
        /\ \A lists \in {freeList', workList'} : lists["list"] \cap lists["hlist"] = {}
    BY <1>29 DEF WorkerSpliceHead, Splice, ObjInv, CalledOnce, RunOnce
  <2>3. UNCHANGED <<ptr, fresh, old, freed>> /\ \A t \in Thread : pc'[t] = pc[t]
    BY <1>29 DEF WorkerSpliceHead, Splice, Goto
  <2> HIDE DEF Queued
  <2> QED BY <2>1, <2>2, <2>3 DEF ObjInv, CalledOnce, RunOnce, NoneLost
<1>30. ASSUME NEW k \in Kind, WorkerRun(k) PROVE ObjInv'
  <2>1. PICK c \in workList[k] : /\ workList' = [workList EXCEPT ![k] = @ \ {c}]
                                /\ freed' = freed \cup {c.obj}
    BY <1>30 DEF WorkerRun, Ready
  <2>2. c \in Queued /\ freeList' = freeList
    BY <1>30 DEF WorkerRun
  <2>3. Queued' = Queued \ {c}
    BY <2>1, <2>2 DEF ObjInv, CalledOnce, RunOnce
  <2>4. \A d \in Queued' : d.obj # c.obj
    BY <2>2, <2>3 DEF ObjInv, CalledOnce, RunOnce
  <2>5. /\ \A m, l \in Kind : freeList'[m] \cap workList'[l] = {}
        /\ \A lists \in {freeList', workList'} : lists["list"] \cap lists["hlist"] = {}
    BY <2>1, <2>2 DEF ObjInv, CalledOnce, RunOnce
  <2>6. UNCHANGED <<ptr, fresh, old>> /\ pc' = pc
    BY <1>30 DEF WorkerRun
  <2> HIDE DEF Queued
  <2>7. CalledOnce'
    <3>1. RunOnce'
      BY <2>1, <2>3, <2>4, <2>5 DEF ObjInv, CalledOnce, RunOnce
    <3>2. NoneLost'
      BY <2>1, <2>2, <2>3, <2>6 DEF ObjInv, CalledOnce, NoneLost
    <3> QED BY <3>1, <3>2 DEF CalledOnce
  <2> QED BY <2>1, <2>2, <2>3, <2>4, <2>6, <2>7 DEF ObjInv
<1>31. ASSUME WorkerRunDone PROVE ObjInv'
  BY <1>31 DEF WorkerRunDone, Goto, ForgetScan, ObjInv, CalledOnce, RunOnce, NoneLost
<1>32. ASSUME WorkerZero PROVE ObjInv'
  BY <1>32 DEF WorkerZero, LoadVersion, Goto, ObjInv, CalledOnce, RunOnce, NoneLost
<1>33. ASSUME WorkerBumpLoad PROVE ObjInv'
  BY <1>33 DEF WorkerBumpLoad, Goto, LoadVersion, ObjInv, CalledOnce, RunOnce, NoneLost
<1>34. ASSUME WorkerBumpStore PROVE ObjInv'
  BY <1>34 DEF WorkerBumpStore, Goto, StoreBump, ObjInv, CalledOnce, RunOnce, NoneLost
<1>35. ASSUME WorkerSkipBump PROVE ObjInv'
  BY <1>35 DEF WorkerSkipBump, Goto, ObjInv, CalledOnce, RunOnce, NoneLost
<1>36. ASSUME WorkerZeroStore PROVE ObjInv'
  BY <1>36 DEF WorkerZeroStore, StoreProcessed, Goto, ObjInv, CalledOnce, RunOnce, NoneLost
<1>37. ASSUME WorkerIdle PROVE ObjInv'
  BY <1>37 DEF WorkerIdle, LoadVersion, Goto, ObjInv, CalledOnce, RunOnce, NoneLost
<1>38. ASSUME WorkerIdleStore PROVE ObjInv'
  BY <1>38 DEF WorkerIdleStore, StoreProcessed, Goto, ObjInv, CalledOnce, RunOnce, NoneLost
<1>39. CASE UNCHANGED vars
  BY <1>39 DEF vars, ObjInv, CalledOnce, RunOnce, NoneLost
<1> QED BY <1>1, <1>2, <1>3, <1>4, <1>5, <1>6, <1>7, <1>8, <1>9, <1>10, <1>11, <1>12, <1>13,
     <1>14, <1>15, <1>16, <1>17, <1>18, <1>19, <1>20, <1>21, <1>22, <1>23, <1>24, <1>25, <1>26,
     <1>27, <1>28, <1>29, <1>30, <1>31, <1>32, <1>33, <1>34, <1>35, <1>36, <1>37, <1>38, <1>39
  DEF Next, ReaderStep, UpdaterStep, SyncStep, ScanStep, WorkerStep

\* Threads are waited for only inside read sections (lines 103-182).
LEMMA ReaderNext == TypeOK /\ ReaderInv /\ [Next]_vars => ReaderInv'
<1> SUFFICES ASSUME TypeOK, ReaderInv, [Next]_vars PROVE ReaderInv'
  OBVIOUS
<1> USE ThreadAssumption
<1> USE DEF TypeOK, ReaderInv, InSection, SyncPc, ScanPc, nsVars, readVars, hungVars, updVars,
     listVars, scanVars, syncVars, Proc, Scanner
<1>1. ASSUME NEW s \in Thread, ReadLock(s) PROVE ReaderInv'
  BY <1>1 DEF ReadLock, Goto
<1>2. ASSUME NEW s \in Thread, ReadLockLoad(s) PROVE ReaderInv'
  BY <1>2 DEF ReadLockLoad, Goto, LoadVersion
<1>3. ASSUME NEW s \in Thread, ReadLockStore(s) PROVE ReaderInv'
  BY <1>3 DEF ReadLockStore, Goto
<1>4. ASSUME NEW s \in Thread, Dereference(s) PROVE ReaderInv'
  BY <1>4 DEF Dereference
<1>5. ASSUME NEW s \in Thread, ReadUnlock(s) PROVE ReaderInv'
  BY <1>5 DEF ReadUnlock
<1>6. ASSUME NEW s \in Thread, WriteLock(s) PROVE ReaderInv'
  BY <1>6 DEF WriteLock, Goto, LoadVersion
<1>7. ASSUME NEW s \in Thread, WriteLockStore(s) PROVE ReaderInv'
  BY <1>7 DEF WriteLockStore, Goto, StoreBump
<1>8. ASSUME NEW s \in Thread, AssignLoad(s) PROVE ReaderInv'
  BY <1>8 DEF AssignLoad, Goto, LoadVersion
<1>9. ASSUME NEW s \in Thread, AssignStore(s) PROVE ReaderInv'
  BY <1>9 DEF AssignStore, Goto, StoreBump
<1>10. ASSUME NEW s \in Thread, AssignPtr(s) PROVE ReaderInv'
  BY <1>10 DEF AssignPtr
<1>11. ASSUME NEW s \in Thread, WriteUnlock(s) PROVE ReaderInv'
  BY <1>11 DEF WriteUnlock
<1>12. ASSUME NEW s \in Thread, CallLoad(s) PROVE ReaderInv'
  BY <1>12 DEF CallLoad, Goto, LoadVersion
<1>13. ASSUME NEW s \in Thread, CallAdd(s) PROVE ReaderInv'
  BY <1>13 DEF CallAdd, Goto
<1>14. ASSUME NEW s \in Thread, TimerExpire(s) PROVE ReaderInv'
  BY <1>14 DEF TimerExpire
<1>15. ASSUME NEW s \in Syncer, SyncStart(s) PROVE ReaderInv'
  BY <1>15 DEF SyncStart, Goto
<1>16. ASSUME NEW s \in Syncer, SyncRetry(s) PROVE ReaderInv'
  BY <1>16 DEF SyncRetry, Goto
<1>17. ASSUME NEW s \in Syncer, SyncReturn(s) PROVE ReaderInv'
  BY <1>17 DEF SyncReturn, Goto, ForgetScan
<1>18. ASSUME NEW s \in Syncer, BarrierLoad(s) PROVE ReaderInv'
  BY <1>18 DEF BarrierLoad, Goto
<1>19. ASSUME NEW s \in Syncer, BarrierReturn(s) PROVE ReaderInv'
  BY <1>19 DEF BarrierReturn, Goto
<1>20. ASSUME NEW q \in Scanner, ScanStart(q) PROVE ReaderInv'
  BY <1>20 DEF ScanStart, Goto
<1>21. ASSUME NEW q \in Scanner, ScanLock(q) PROVE ReaderInv'
  BY <1>21 DEF ScanLock, Goto
<1>22. ASSUME NEW q \in Scanner, ScanRead(q) PROVE ReaderInv'
  BY <1>22 DEF ScanRead
<1>23. ASSUME NEW q \in Scanner, ScanIdle(q) PROVE ReaderInv'
  BY <1>23 DEF ScanIdle, Visited, Visit, Seen, SeenCounter, SeenVersion
<1>24. ASSUME NEW q \in Scanner, ScanActive(q) PROVE ReaderInv'
  BY <1>24 DEF ScanActive, Visited, Visit, Seen, SeenCounter, SeenVersion
<1>25. ASSUME NEW q \in Scanner, ScanThreadsDone(q) PROVE ReaderInv'
  BY <1>25 DEF ScanThreadsDone, Goto
<1>26. ASSUME NEW q \in Scanner, ScanHung(q) PROVE ReaderInv'
  BY <1>26 DEF ScanHung, Visited, Visit, Seen, SeenCounter, SeenVersion
<1>27. ASSUME NEW q \in Scanner, ScanUnlock(q) PROVE ReaderInv'
  BY <1>27 DEF ScanUnlock, Goto
<1>28. ASSUME WorkerSplice PROVE ReaderInv'
  BY <1>28 DEF WorkerSplice, Splice, Goto
<1>29. ASSUME WorkerSpliceHead PROVE ReaderInv'
  BY <1>29 DEF WorkerSpliceHead, Splice, Goto
<1>30. ASSUME NEW k \in Kind, WorkerRun(k) PROVE ReaderInv'
  BY <1>30 DEF WorkerRun, Ready
<1>31. ASSUME WorkerRunDone PROVE ReaderInv'
  BY <1>31 DEF WorkerRunDone, Goto, ForgetScan
<1>32. ASSUME WorkerZero PROVE ReaderInv'
  BY <1>32 DEF WorkerZero, LoadVersion, Goto
<1>33. ASSUME WorkerBumpLoad PROVE ReaderInv'
  BY <1>33 DEF WorkerBumpLoad, Goto, LoadVersion
<1>34. ASSUME WorkerBumpStore PROVE ReaderInv'
  BY <1>34 DEF WorkerBumpStore, Goto, StoreBump
<1>35. ASSUME WorkerSkipBump PROVE ReaderInv'
  BY <1>35 DEF WorkerSkipBump, Goto
<1>36. ASSUME WorkerZeroStore PROVE ReaderInv'
  BY <1>36 DEF WorkerZeroStore, StoreProcessed, Goto
<1>37. ASSUME WorkerIdle PROVE ReaderInv'
  BY <1>37 DEF WorkerIdle, LoadVersion, Goto
<1>38. ASSUME WorkerIdleStore PROVE ReaderInv'
  BY <1>38 DEF WorkerIdleStore, StoreProcessed, Goto
<1>39. CASE UNCHANGED vars
  BY <1>39 DEF vars
<1> QED BY <1>1, <1>2, <1>3, <1>4, <1>5, <1>6, <1>7, <1>8, <1>9, <1>10, <1>11, <1>12, <1>13,
     <1>14, <1>15, <1>16, <1>17, <1>18, <1>19, <1>20, <1>21, <1>22, <1>23, <1>24, <1>25, <1>26,
     <1>27, <1>28, <1>29, <1>30, <1>31, <1>32, <1>33, <1>34, <1>35, <1>36, <1>37, <1>38, <1>39
  DEF Next, ReaderStep, UpdaterStep, SyncStep, ScanStep, WorkerStep

\* A section that was open at a call recorded a version no newer than the call's
\* (lines 103-128 against 186-240 and 567).
LEMMA RetireNext == TypeOK /\ VersionInv /\ ObjInv /\ ReaderInv /\ RetireInv /\ [Next]_vars => RetireInv'
<1> SUFFICES ASSUME TypeOK, VersionInv, ObjInv, ReaderInv, RetireInv, [Next]_vars PROVE RetireInv'
  OBVIOUS
<1> USE ThreadAssumption
<1> USE DEF TypeOK, RetireInv, ReaderInv, VersionInv, ObjInv, InSection, SyncPc, ScanPc, Queued,
     Listed, Kind, Callback, nsVars, readVars, hungVars, updVars, listVars, scanVars, syncVars,
     Proc, Scanner
<1>1. ASSUME NEW s \in Thread, ReadLock(s) PROVE RetireInv'
  BY <1>1 DEF ReadLock, Goto
<1>2. ASSUME NEW s \in Thread, ReadLockLoad(s) PROVE RetireInv'
  BY <1>2 DEF ReadLockLoad, Goto, LoadVersion
<1>3. ASSUME NEW s \in Thread, ReadLockStore(s) PROVE RetireInv'
  BY <1>3 DEF ReadLockStore, Goto
<1>4. ASSUME NEW s \in Thread, Dereference(s) PROVE RetireInv'
  BY <1>4 DEF Dereference
<1>5. ASSUME NEW s \in Thread, ReadUnlock(s) PROVE RetireInv'
  BY <1>5 DEF ReadUnlock
<1>6. ASSUME NEW s \in Thread, WriteLock(s) PROVE RetireInv'
  BY <1>6 DEF WriteLock, Goto, LoadVersion
<1>7. ASSUME NEW s \in Thread, WriteLockStore(s) PROVE RetireInv'
  BY <1>7 DEF WriteLockStore, Goto, StoreBump
<1>8. ASSUME NEW s \in Thread, AssignLoad(s) PROVE RetireInv'
  BY <1>8 DEF AssignLoad, Goto, LoadVersion
<1>9. ASSUME NEW s \in Thread, AssignStore(s) PROVE RetireInv'
  BY <1>9 DEF AssignStore, Goto, StoreBump
<1>10. ASSUME NEW s \in Thread, AssignPtr(s) PROVE RetireInv'
  BY <1>10 DEF AssignPtr
<1>11. ASSUME NEW s \in Thread, WriteUnlock(s) PROVE RetireInv'
  BY <1>11 DEF WriteUnlock
<1>12. ASSUME NEW s \in Thread, CallLoad(s) PROVE RetireInv'
  BY <1>12 DEF CallLoad, Goto, LoadVersion
<1>13. ASSUME NEW s \in Thread, CallAdd(s) PROVE RetireInv'
  BY <1>13 DEF CallAdd, Goto
<1>14. ASSUME NEW s \in Thread, TimerExpire(s) PROVE RetireInv'
  BY <1>14 DEF TimerExpire
<1>15. ASSUME NEW s \in Syncer, SyncStart(s) PROVE RetireInv'
  BY <1>15 DEF SyncStart, Goto
<1>16. ASSUME NEW s \in Syncer, SyncRetry(s) PROVE RetireInv'
  BY <1>16 DEF SyncRetry, Goto
<1>17. ASSUME NEW s \in Syncer, SyncReturn(s) PROVE RetireInv'
  BY <1>17 DEF SyncReturn, Goto, ForgetScan
<1>18. ASSUME NEW s \in Syncer, BarrierLoad(s) PROVE RetireInv'
  BY <1>18 DEF BarrierLoad, Goto
<1>19. ASSUME NEW s \in Syncer, BarrierReturn(s) PROVE RetireInv'
  BY <1>19 DEF BarrierReturn, Goto
<1>20. ASSUME NEW q \in Scanner, ScanStart(q) PROVE RetireInv'
  BY <1>20 DEF ScanStart, Goto
<1>21. ASSUME NEW q \in Scanner, ScanLock(q) PROVE RetireInv'
  BY <1>21 DEF ScanLock, Goto
<1>22. ASSUME NEW q \in Scanner, ScanRead(q) PROVE RetireInv'
  BY <1>22 DEF ScanRead
<1>23. ASSUME NEW q \in Scanner, ScanIdle(q) PROVE RetireInv'
  BY <1>23 DEF ScanIdle, Visited, Visit, Seen, SeenCounter, SeenVersion
<1>24. ASSUME NEW q \in Scanner, ScanActive(q) PROVE RetireInv'
  BY <1>24 DEF ScanActive, Visited, Visit, Seen, SeenCounter, SeenVersion
<1>25. ASSUME NEW q \in Scanner, ScanThreadsDone(q) PROVE RetireInv'
  BY <1>25 DEF ScanThreadsDone, Goto
<1>26. ASSUME NEW q \in Scanner, ScanHung(q) PROVE RetireInv'
  BY <1>26 DEF ScanHung, Visited, Visit, Seen, SeenCounter, SeenVersion
<1>27. ASSUME NEW q \in Scanner, ScanUnlock(q) PROVE RetireInv'
  BY <1>27 DEF ScanUnlock, Goto
<1>28. ASSUME WorkerSplice PROVE RetireInv'
  BY <1>28 DEF WorkerSplice, Splice, Goto
<1>29. ASSUME WorkerSpliceHead PROVE RetireInv'
  BY <1>29 DEF WorkerSpliceHead, Splice, Goto
<1>30. ASSUME NEW k \in Kind, WorkerRun(k) PROVE RetireInv'
  BY <1>30 DEF WorkerRun, Ready
<1>31. ASSUME WorkerRunDone PROVE RetireInv'
  BY <1>31 DEF WorkerRunDone, Goto, ForgetScan
<1>32. ASSUME WorkerZero PROVE RetireInv'
  BY <1>32 DEF WorkerZero, LoadVersion, Goto
<1>33. ASSUME WorkerBumpLoad PROVE RetireInv'
  BY <1>33 DEF WorkerBumpLoad, Goto, LoadVersion
<1>34. ASSUME WorkerBumpStore PROVE RetireInv'
  BY <1>34 DEF WorkerBumpStore, Goto, StoreBump
<1>35. ASSUME WorkerSkipBump PROVE RetireInv'
  BY <1>35 DEF WorkerSkipBump, Goto
<1>36. ASSUME WorkerZeroStore PROVE RetireInv'
  BY <1>36 DEF WorkerZeroStore, StoreProcessed, Goto
<1>37. ASSUME WorkerIdle PROVE RetireInv'
  BY <1>37 DEF WorkerIdle, LoadVersion, Goto
<1>38. ASSUME WorkerIdleStore PROVE RetireInv'
  BY <1>38 DEF WorkerIdleStore, StoreProcessed, Goto
<1>39. CASE UNCHANGED vars
  BY <1>39 DEF vars
<1> QED BY <1>1, <1>2, <1>3, <1>4, <1>5, <1>6, <1>7, <1>8, <1>9, <1>10, <1>11, <1>12, <1>13,
     <1>14, <1>15, <1>16, <1>17, <1>18, <1>19, <1>20, <1>21, <1>22, <1>23, <1>24, <1>25, <1>26,
     <1>27, <1>28, <1>29, <1>30, <1>31, <1>32, <1>33, <1>34, <1>35, <1>36, <1>37, <1>38, <1>39
  DEF Next, ReaderStep, UpdaterStep, SyncStep, ScanStep, WorkerStep

\* threads_lock guards the scan, which visits the threads of one list and then
\* those of the other (lines 277-407).
LEMMA LockNext == TypeOK /\ LockInv /\ [Next]_vars => LockInv'
<1> SUFFICES ASSUME TypeOK, LockInv, [Next]_vars PROVE LockInv'
  OBVIOUS
<1> USE ThreadAssumption
<1> USE DEF TypeOK, LockInv, HoldsLock, nsVars, readVars, hungVars, updVars, listVars, scanVars,
     syncVars, Proc, Scanner
<1>1. ASSUME NEW s \in Thread, ReadLock(s) PROVE LockInv'
  BY <1>1 DEF ReadLock, Goto
<1>2. ASSUME NEW s \in Thread, ReadLockLoad(s) PROVE LockInv'
  BY <1>2 DEF ReadLockLoad, Goto, LoadVersion
<1>3. ASSUME NEW s \in Thread, ReadLockStore(s) PROVE LockInv'
  BY <1>3 DEF ReadLockStore, Goto
<1>4. ASSUME NEW s \in Thread, Dereference(s) PROVE LockInv'
  BY <1>4 DEF Dereference
<1>5. ASSUME NEW s \in Thread, ReadUnlock(s) PROVE LockInv'
  BY <1>5 DEF ReadUnlock
<1>6. ASSUME NEW s \in Thread, WriteLock(s) PROVE LockInv'
  BY <1>6 DEF WriteLock, Goto, LoadVersion
<1>7. ASSUME NEW s \in Thread, WriteLockStore(s) PROVE LockInv'
  BY <1>7 DEF WriteLockStore, Goto, StoreBump
<1>8. ASSUME NEW s \in Thread, AssignLoad(s) PROVE LockInv'
  BY <1>8 DEF AssignLoad, Goto, LoadVersion
<1>9. ASSUME NEW s \in Thread, AssignStore(s) PROVE LockInv'
  BY <1>9 DEF AssignStore, Goto, StoreBump
<1>10. ASSUME NEW s \in Thread, AssignPtr(s) PROVE LockInv'
  BY <1>10 DEF AssignPtr
<1>11. ASSUME NEW s \in Thread, WriteUnlock(s) PROVE LockInv'
  BY <1>11 DEF WriteUnlock
<1>12. ASSUME NEW s \in Thread, CallLoad(s) PROVE LockInv'
  BY <1>12 DEF CallLoad, Goto, LoadVersion
<1>13. ASSUME NEW s \in Thread, CallAdd(s) PROVE LockInv'
  BY <1>13 DEF CallAdd, Goto
<1>14. ASSUME NEW s \in Thread, TimerExpire(s) PROVE LockInv'
  BY <1>14 DEF TimerExpire
<1>15. ASSUME NEW s \in Syncer, SyncStart(s) PROVE LockInv'
  BY <1>15 DEF SyncStart, Goto
<1>16. ASSUME NEW s \in Syncer, SyncRetry(s) PROVE LockInv'
  BY <1>16 DEF SyncRetry, Goto
<1>17. ASSUME NEW s \in Syncer, SyncReturn(s) PROVE LockInv'
  BY <1>17 DEF SyncReturn, Goto, ForgetScan
<1>18. ASSUME NEW s \in Syncer, BarrierLoad(s) PROVE LockInv'
  BY <1>18 DEF BarrierLoad, Goto
<1>19. ASSUME NEW s \in Syncer, BarrierReturn(s) PROVE LockInv'
  BY <1>19 DEF BarrierReturn, Goto
<1>20. ASSUME NEW q \in Scanner, ScanStart(q) PROVE LockInv'
  BY <1>20 DEF ScanStart, Goto
<1>21. ASSUME NEW q \in Scanner, ScanLock(q) PROVE LockInv'
  BY <1>21 DEF ScanLock, Goto
<1>22. ASSUME NEW q \in Scanner, ScanRead(q) PROVE LockInv'
  BY <1>22 DEF ScanRead
<1>23. ASSUME NEW q \in Scanner, ScanIdle(q) PROVE LockInv'
  BY <1>23 DEF ScanIdle, Visited, Visit, Seen, SeenCounter, SeenVersion
<1>24. ASSUME NEW q \in Scanner, ScanActive(q) PROVE LockInv'
  BY <1>24 DEF ScanActive, Visited, Visit, Seen, SeenCounter, SeenVersion
<1>25. ASSUME NEW q \in Scanner, ScanThreadsDone(q) PROVE LockInv'
  BY <1>25 DEF ScanThreadsDone, Goto
<1>26. ASSUME NEW q \in Scanner, ScanHung(q) PROVE LockInv'
  BY <1>26 DEF ScanHung, Visited, Visit, Seen, SeenCounter, SeenVersion
<1>27. ASSUME NEW q \in Scanner, ScanUnlock(q) PROVE LockInv'
  BY <1>27 DEF ScanUnlock, Goto
<1>28. ASSUME WorkerSplice PROVE LockInv'
  BY <1>28 DEF WorkerSplice, Splice, Goto
<1>29. ASSUME WorkerSpliceHead PROVE LockInv'
  BY <1>29 DEF WorkerSpliceHead, Splice, Goto
<1>30. ASSUME NEW k \in Kind, WorkerRun(k) PROVE LockInv'
  BY <1>30 DEF WorkerRun, Ready
<1>31. ASSUME WorkerRunDone PROVE LockInv'
  BY <1>31 DEF WorkerRunDone, Goto, ForgetScan
<1>32. ASSUME WorkerZero PROVE LockInv'
  BY <1>32 DEF WorkerZero, LoadVersion, Goto
<1>33. ASSUME WorkerBumpLoad PROVE LockInv'
  BY <1>33 DEF WorkerBumpLoad, Goto, LoadVersion
<1>34. ASSUME WorkerBumpStore PROVE LockInv'
  BY <1>34 DEF WorkerBumpStore, Goto, StoreBump
<1>35. ASSUME WorkerSkipBump PROVE LockInv'
  BY <1>35 DEF WorkerSkipBump, Goto
<1>36. ASSUME WorkerZeroStore PROVE LockInv'
  BY <1>36 DEF WorkerZeroStore, StoreProcessed, Goto
<1>37. ASSUME WorkerIdle PROVE LockInv'
  BY <1>37 DEF WorkerIdle, LoadVersion, Goto
<1>38. ASSUME WorkerIdleStore PROVE LockInv'
  BY <1>38 DEF WorkerIdleStore, StoreProcessed, Goto
<1>39. CASE UNCHANGED vars
  BY <1>39 DEF vars
<1> QED BY <1>1, <1>2, <1>3, <1>4, <1>5, <1>6, <1>7, <1>8, <1>9, <1>10, <1>11, <1>12, <1>13,
     <1>14, <1>15, <1>16, <1>17, <1>18, <1>19, <1>20, <1>21, <1>22, <1>23, <1>24, <1>25, <1>26,
     <1>27, <1>28, <1>29, <1>30, <1>31, <1>32, <1>33, <1>34, <1>35, <1>36, <1>37, <1>38, <1>39
  DEF Next, ReaderStep, UpdaterStep, SyncStep, ScanStep, WorkerStep

-----------------------------------------------------------------------------
(* What a single step may do.                                              *)

\* What a scanner waits for only shrinks while it scans: a retired object can
\* no longer be dereferenced, and a section that ends does not come back.
LEMMA NoNewWaits ==
  ASSUME TypeOK, ObjInv, [Next]_vars,
         NEW p \in Scanner, Scanning(p)', NEW t \in Thread, NEW v \in Sought(p)', Waits(p, t, v)'
  PROVE  Waits(p, t, v) /\ v \in Sought(p) /\ (Scanning(p) \/ pc[p] = "scan")
<1> USE ThreadAssumption
<1> USE DEF TypeOK, ObjInv, Waits, Sought, Scanning, Scanned, HoldsLock, Queued, Listed, Kind
<1> USE DEF nsVars, readVars, hungVars, updVars, listVars, scanVars, syncVars, Proc, Scanner
<1>1. ASSUME NEW s \in Thread, ReadLock(s) PROVE Waits(p, t, v) /\ v \in Sought(p) /\ (Scanning(p) \/ pc[p] = "scan")
  BY <1>1 DEF ReadLock, Goto
<1>2. ASSUME NEW s \in Thread, ReadLockLoad(s) PROVE Waits(p, t, v) /\ v \in Sought(p) /\ (Scanning(p) \/ pc[p] = "scan")
  BY <1>2 DEF ReadLockLoad, Goto, LoadVersion
<1>3. ASSUME NEW s \in Thread, ReadLockStore(s) PROVE Waits(p, t, v) /\ v \in Sought(p) /\ (Scanning(p) \/ pc[p] = "scan")
  BY <1>3 DEF ReadLockStore, Goto
<1>4. ASSUME NEW s \in Thread, Dereference(s) PROVE Waits(p, t, v) /\ v \in Sought(p) /\ (Scanning(p) \/ pc[p] = "scan")
  BY <1>4 DEF Dereference
<1>5. ASSUME NEW s \in Thread, ReadUnlock(s) PROVE Waits(p, t, v) /\ v \in Sought(p) /\ (Scanning(p) \/ pc[p] = "scan")
  <2>1. UNCHANGED <<pc, workList, target>>
    BY <1>5 DEF ReadUnlock
  <2>2. \A c \in Listed(workList) : c.obj \in Obj
    BY DEF Callback
  <2>3. \A c \in Listed(workList) : due'[c.obj] \subseteq due[c.obj]
    BY <1>5, <2>2 DEF ReadUnlock
  <2>4. \A r \in Thread : pre'[r] \subseteq pre[r]
    BY <1>5 DEF ReadUnlock
  <2> QED BY <2>1, <2>3, <2>4
<1>6. ASSUME NEW s \in Thread, WriteLock(s) PROVE Waits(p, t, v) /\ v \in Sought(p) /\ (Scanning(p) \/ pc[p] = "scan")
  BY <1>6 DEF WriteLock, Goto, LoadVersion
<1>7. ASSUME NEW s \in Thread, WriteLockStore(s) PROVE Waits(p, t, v) /\ v \in Sought(p) /\ (Scanning(p) \/ pc[p] = "scan")
  BY <1>7 DEF WriteLockStore, Goto, StoreBump
<1>8. ASSUME NEW s \in Thread, AssignLoad(s) PROVE Waits(p, t, v) /\ v \in Sought(p) /\ (Scanning(p) \/ pc[p] = "scan")
  BY <1>8 DEF AssignLoad, Goto, LoadVersion
<1>9. ASSUME NEW s \in Thread, AssignStore(s) PROVE Waits(p, t, v) /\ v \in Sought(p) /\ (Scanning(p) \/ pc[p] = "scan")
  BY <1>9 DEF AssignStore, Goto, StoreBump
<1>10. ASSUME NEW s \in Thread, AssignPtr(s) PROVE Waits(p, t, v) /\ v \in Sought(p) /\ (Scanning(p) \/ pc[p] = "scan")
  BY <1>10 DEF AssignPtr
<1>11. ASSUME NEW s \in Thread, WriteUnlock(s) PROVE Waits(p, t, v) /\ v \in Sought(p) /\ (Scanning(p) \/ pc[p] = "scan")
  BY <1>11 DEF WriteUnlock
<1>12. ASSUME NEW s \in Thread, CallLoad(s) PROVE Waits(p, t, v) /\ v \in Sought(p) /\ (Scanning(p) \/ pc[p] = "scan")
  BY <1>12 DEF CallLoad, Goto, LoadVersion
<1>13. ASSUME NEW s \in Thread, CallAdd(s) PROVE Waits(p, t, v) /\ v \in Sought(p) /\ (Scanning(p) \/ pc[p] = "scan")
  BY <1>13 DEF CallAdd, Goto
<1>14. ASSUME NEW s \in Thread, TimerExpire(s) PROVE Waits(p, t, v) /\ v \in Sought(p) /\ (Scanning(p) \/ pc[p] = "scan")
  BY <1>14 DEF TimerExpire
<1>15. ASSUME NEW s \in Syncer, SyncStart(s) PROVE Waits(p, t, v) /\ v \in Sought(p) /\ (Scanning(p) \/ pc[p] = "scan")
  BY <1>15 DEF SyncStart, Goto
<1>16. ASSUME NEW s \in Syncer, SyncRetry(s) PROVE Waits(p, t, v) /\ v \in Sought(p) /\ (Scanning(p) \/ pc[p] = "scan")
  BY <1>16 DEF SyncRetry, Goto
<1>17. ASSUME NEW s \in Syncer, SyncReturn(s) PROVE Waits(p, t, v) /\ v \in Sought(p) /\ (Scanning(p) \/ pc[p] = "scan")
  BY <1>17 DEF SyncReturn, Goto, ForgetScan
<1>18. ASSUME NEW s \in Syncer, BarrierLoad(s) PROVE Waits(p, t, v) /\ v \in Sought(p) /\ (Scanning(p) \/ pc[p] = "scan")
  BY <1>18 DEF BarrierLoad, Goto
<1>19. ASSUME NEW s \in Syncer, BarrierReturn(s) PROVE Waits(p, t, v) /\ v \in Sought(p) /\ (Scanning(p) \/ pc[p] = "scan")
  BY <1>19 DEF BarrierReturn, Goto
<1>20. ASSUME NEW q \in Scanner, ScanStart(q) PROVE Waits(p, t, v) /\ v \in Sought(p) /\ (Scanning(p) \/ pc[p] = "scan")
  BY <1>20 DEF ScanStart, Goto
<1>21. ASSUME NEW q \in Scanner, ScanLock(q) PROVE Waits(p, t, v) /\ v \in Sought(p) /\ (Scanning(p) \/ pc[p] = "scan")
  BY <1>21 DEF ScanLock, Goto
<1>22. ASSUME NEW q \in Scanner, ScanRead(q) PROVE Waits(p, t, v) /\ v \in Sought(p) /\ (Scanning(p) \/ pc[p] = "scan")
  BY <1>22 DEF ScanRead
<1>23. ASSUME NEW q \in Scanner, ScanIdle(q) PROVE Waits(p, t, v) /\ v \in Sought(p) /\ (Scanning(p) \/ pc[p] = "scan")
  BY <1>23 DEF ScanIdle, Visited, Visit, Seen, SeenCounter, SeenVersion
<1>24. ASSUME NEW q \in Scanner, ScanActive(q) PROVE Waits(p, t, v) /\ v \in Sought(p) /\ (Scanning(p) \/ pc[p] = "scan")
  BY <1>24 DEF ScanActive, Visited, Visit, Seen, SeenCounter, SeenVersion
<1>25. ASSUME NEW q \in Scanner, ScanThreadsDone(q) PROVE Waits(p, t, v) /\ v \in Sought(p) /\ (Scanning(p) \/ pc[p] = "scan")
  BY <1>25 DEF ScanThreadsDone, Goto
<1>26. ASSUME NEW q \in Scanner, ScanHung(q) PROVE Waits(p, t, v) /\ v \in Sought(p) /\ (Scanning(p) \/ pc[p] = "scan")
  BY <1>26 DEF ScanHung, Visited, Visit, Seen, SeenCounter, SeenVersion
<1>27. ASSUME NEW q \in Scanner, ScanUnlock(q) PROVE Waits(p, t, v) /\ v \in Sought(p) /\ (Scanning(p) \/ pc[p] = "scan")
  BY <1>27 DEF ScanUnlock, Goto
<1>28. ASSUME WorkerSplice PROVE Waits(p, t, v) /\ v \in Sought(p) /\ (Scanning(p) \/ pc[p] = "scan")
  BY <1>28 DEF WorkerSplice, Splice, Goto
<1>29. ASSUME WorkerSpliceHead PROVE Waits(p, t, v) /\ v \in Sought(p) /\ (Scanning(p) \/ pc[p] = "scan")
  BY <1>29 DEF WorkerSpliceHead, Splice, Goto
<1>30. ASSUME NEW k \in Kind, WorkerRun(k) PROVE Waits(p, t, v) /\ v \in Sought(p) /\ (Scanning(p) \/ pc[p] = "scan")
  BY <1>30 DEF WorkerRun, Ready
<1>31. ASSUME WorkerRunDone PROVE Waits(p, t, v) /\ v \in Sought(p) /\ (Scanning(p) \/ pc[p] = "scan")
  BY <1>31 DEF WorkerRunDone, Goto, ForgetScan
<1>32. ASSUME WorkerZero PROVE Waits(p, t, v) /\ v \in Sought(p) /\ (Scanning(p) \/ pc[p] = "scan")
  BY <1>32 DEF WorkerZero, LoadVersion, Goto
<1>33. ASSUME WorkerBumpLoad PROVE Waits(p, t, v) /\ v \in Sought(p) /\ (Scanning(p) \/ pc[p] = "scan")
  BY <1>33 DEF WorkerBumpLoad, Goto, LoadVersion
<1>34. ASSUME WorkerBumpStore PROVE Waits(p, t, v) /\ v \in Sought(p) /\ (Scanning(p) \/ pc[p] = "scan")
  BY <1>34 DEF WorkerBumpStore, Goto, StoreBump
<1>35. ASSUME WorkerSkipBump PROVE Waits(p, t, v) /\ v \in Sought(p) /\ (Scanning(p) \/ pc[p] = "scan")
  BY <1>35 DEF WorkerSkipBump, Goto
<1>36. ASSUME WorkerZeroStore PROVE Waits(p, t, v) /\ v \in Sought(p) /\ (Scanning(p) \/ pc[p] = "scan")
  BY <1>36 DEF WorkerZeroStore, StoreProcessed, Goto
<1>37. ASSUME WorkerIdle PROVE Waits(p, t, v) /\ v \in Sought(p) /\ (Scanning(p) \/ pc[p] = "scan")
  BY <1>37 DEF WorkerIdle, LoadVersion, Goto
<1>38. ASSUME WorkerIdleStore PROVE Waits(p, t, v) /\ v \in Sought(p) /\ (Scanning(p) \/ pc[p] = "scan")
  BY <1>38 DEF WorkerIdleStore, StoreProcessed, Goto
<1>39. CASE UNCHANGED vars
  BY <1>39 DEF vars
<1> QED BY <1>1, <1>2, <1>3, <1>4, <1>5, <1>6, <1>7, <1>8, <1>9, <1>10, <1>11, <1>12, <1>13,
     <1>14, <1>15, <1>16, <1>17, <1>18, <1>19, <1>20, <1>21, <1>22, <1>23, <1>24, <1>25, <1>26,
     <1>27, <1>28, <1>29, <1>30, <1>31, <1>32, <1>33, <1>34, <1>35, <1>36, <1>37, <1>38, <1>39
  DEF Next, ReaderStep, UpdaterStep, SyncStep, ScanStep, WorkerStep

\* How a step changes the words the scan looks at.
LEMMA SmallSteps ==
  ASSUME TypeOK, [Next]_vars
  PROVE  /\ part' \in {part, NoPart} \/ \E q \in Scanner : ScanRead(q)
         /\ freed' = freed \/ \E k \in Kind : WorkerRun(k)
         /\ \A o \in Obj : due'[o] \subseteq due[o] \/ \E s \in Thread : CallLoad(s) /\ old[s] = o
         /\ \A t \in Thread : lversion'[t] = lversion[t] \/ ReadLockStore(t)
         /\ \A p \in Scanner : /\ Scanned(p)' => Scanned(p) \/ ScanLock(p)
                               /\ HoldsLock(p)' => HoldsLock(p) \/ ScanLock(p)
         /\ setBack => setBack'
<1> DEFINE Small == /\ part' \in {part, NoPart} \/ \E q \in Scanner : ScanRead(q)
                    /\ freed' = freed \/ \E k \in Kind : WorkerRun(k)
                    /\ \A o \in Obj : due'[o] \subseteq due[o] \/ \E s \in Thread : CallLoad(s) /\ old[s] = o
                    /\ \A t \in Thread : lversion'[t] = lversion[t] \/ ReadLockStore(t)
                    /\ \A p \in Scanner : /\ Scanned(p)' => Scanned(p) \/ ScanLock(p)
                                          /\ HoldsLock(p)' => HoldsLock(p) \/ ScanLock(p)
                    /\ setBack => setBack'
<1> SUFFICES Small
  OBVIOUS
<1> USE ThreadAssumption
<1> USE DEF TypeOK, Scanned, HoldsLock, nsVars, readVars, hungVars, updVars, listVars, scanVars,
     syncVars, Proc, Scanner
<1>1. ASSUME NEW s \in Thread, ReadLock(s) PROVE Small
  BY <1>1 DEF ReadLock, Goto
<1>2. ASSUME NEW s \in Thread, ReadLockLoad(s) PROVE Small
  BY <1>2 DEF ReadLockLoad, Goto, LoadVersion
<1>3. ASSUME NEW s \in Thread, ReadLockStore(s) PROVE Small
  BY <1>3 DEF ReadLockStore, Goto
<1>4. ASSUME NEW s \in Thread, Dereference(s) PROVE Small
  BY <1>4 DEF Dereference
<1>5. ASSUME NEW s \in Thread, ReadUnlock(s) PROVE Small
  BY <1>5 DEF ReadUnlock
<1>6. ASSUME NEW s \in Thread, WriteLock(s) PROVE Small
  BY <1>6 DEF WriteLock, Goto, LoadVersion
<1>7. ASSUME NEW s \in Thread, WriteLockStore(s) PROVE Small
  BY <1>7 DEF WriteLockStore, Goto, StoreBump
<1>8. ASSUME NEW s \in Thread, AssignLoad(s) PROVE Small
  BY <1>8 DEF AssignLoad, Goto, LoadVersion
<1>9. ASSUME NEW s \in Thread, AssignStore(s) PROVE Small
  BY <1>9 DEF AssignStore, Goto, StoreBump
<1>10. ASSUME NEW s \in Thread, AssignPtr(s) PROVE Small
  BY <1>10 DEF AssignPtr
<1>11. ASSUME NEW s \in Thread, WriteUnlock(s) PROVE Small
  BY <1>11 DEF WriteUnlock
<1>12. ASSUME NEW s \in Thread, CallLoad(s) PROVE Small
  <2>1. \A o \in Obj : due'[o] \subseteq due[o] \/ old[s] = o
    BY <1>12 DEF CallLoad
  <2>2. /\ UNCHANGED <<part, freed, lversion, setBack>>
        /\ \A p \in Scanner : pc'[p] = pc[p] \/ pc'[p] = "call_add"
    BY <1>12 DEF CallLoad, Goto
  <2> QED BY <1>12, <2>1, <2>2
<1>13. ASSUME NEW s \in Thread, CallAdd(s) PROVE Small
  BY <1>13 DEF CallAdd, Goto
<1>14. ASSUME NEW s \in Thread, TimerExpire(s) PROVE Small
  BY <1>14 DEF TimerExpire
<1>15. ASSUME NEW s \in Syncer, SyncStart(s) PROVE Small
  BY <1>15 DEF SyncStart, Goto
<1>16. ASSUME NEW s \in Syncer, SyncRetry(s) PROVE Small
  BY <1>16 DEF SyncRetry, Goto
<1>17. ASSUME NEW s \in Syncer, SyncReturn(s) PROVE Small
  BY <1>17 DEF SyncReturn, Goto, ForgetScan
<1>18. ASSUME NEW s \in Syncer, BarrierLoad(s) PROVE Small
  BY <1>18 DEF BarrierLoad, Goto
<1>19. ASSUME NEW s \in Syncer, BarrierReturn(s) PROVE Small
  BY <1>19 DEF BarrierReturn, Goto
<1>20. ASSUME NEW q \in Scanner, ScanStart(q) PROVE Small
  BY <1>20 DEF ScanStart, Goto
<1>21. ASSUME NEW q \in Scanner, ScanLock(q) PROVE Small
  BY <1>21 DEF ScanLock, Goto
<1>22. ASSUME NEW q \in Scanner, ScanRead(q) PROVE Small
  BY <1>22 DEF ScanRead
<1>23. ASSUME NEW q \in Scanner, ScanIdle(q) PROVE Small
  BY <1>23 DEF ScanIdle, Visited, Visit, Seen, SeenCounter, SeenVersion
<1>24. ASSUME NEW q \in Scanner, ScanActive(q) PROVE Small
  BY <1>24 DEF ScanActive, Visited, Visit, Seen, SeenCounter, SeenVersion
<1>25. ASSUME NEW q \in Scanner, ScanThreadsDone(q) PROVE Small
  BY <1>25 DEF ScanThreadsDone, Goto
<1>26. ASSUME NEW q \in Scanner, ScanHung(q) PROVE Small
  BY <1>26 DEF ScanHung, Visited, Visit, Seen, SeenCounter, SeenVersion
<1>27. ASSUME NEW q \in Scanner, ScanUnlock(q) PROVE Small
  BY <1>27 DEF ScanUnlock, Goto
<1>28. ASSUME WorkerSplice PROVE Small
  BY <1>28 DEF WorkerSplice, Splice, Goto
<1>29. ASSUME WorkerSpliceHead PROVE Small
  BY <1>29 DEF WorkerSpliceHead, Splice, Goto
<1>30. ASSUME NEW k \in Kind, WorkerRun(k) PROVE Small
  BY <1>30 DEF WorkerRun, Ready
<1>31. ASSUME WorkerRunDone PROVE Small
  BY <1>31 DEF WorkerRunDone, Goto, ForgetScan
<1>32. ASSUME WorkerZero PROVE Small
  BY <1>32 DEF WorkerZero, LoadVersion, Goto
<1>33. ASSUME WorkerBumpLoad PROVE Small
  BY <1>33 DEF WorkerBumpLoad, Goto, LoadVersion
<1>34. ASSUME WorkerBumpStore PROVE Small
  BY <1>34 DEF WorkerBumpStore, Goto, StoreBump
<1>35. ASSUME WorkerSkipBump PROVE Small
  BY <1>35 DEF WorkerSkipBump, Goto
<1>36. ASSUME WorkerZeroStore PROVE Small
  BY <1>36 DEF WorkerZeroStore, StoreProcessed, Goto
<1>37. ASSUME WorkerIdle PROVE Small
  BY <1>37 DEF WorkerIdle, LoadVersion, Goto
<1>38. ASSUME WorkerIdleStore PROVE Small
  BY <1>38 DEF WorkerIdleStore, StoreProcessed, Goto
<1>39. CASE UNCHANGED vars
  BY <1>39 DEF vars
<1> QED BY <1>1, <1>2, <1>3, <1>4, <1>5, <1>6, <1>7, <1>8, <1>9, <1>10, <1>11, <1>12, <1>13,
     <1>14, <1>15, <1>16, <1>17, <1>18, <1>19, <1>20, <1>21, <1>22, <1>23, <1>24, <1>25, <1>26,
     <1>27, <1>28, <1>29, <1>30, <1>31, <1>32, <1>33, <1>34, <1>35, <1>36, <1>37, <1>38, <1>39
  DEF Next, ReaderStep, UpdaterStep, SyncStep, ScanStep, WorkerStep

\* A thread that is waited for stays in its section, so its version stays.
LEMMA VersionFrozen ==
  ASSUME TypeOK, ReaderInv, [Next]_vars, NEW p \in Scanner, NEW t \in Thread, NEW v, Waits(p, t, v)
  PROVE  InSection(t) /\ lversion'[t] = lversion[t]
<1>1. InSection(t)
  <2>1. CASE p = Worker
    <3>1. PICK c \in Listed(workList) : t \in due[c.obj]
      BY <2>1 DEF Waits
    <3>2. c.obj \in Obj
      BY DEF TypeOK, Listed, Kind, Callback
    <3> QED BY <3>1, <3>2 DEF ReaderInv
  <2>2. CASE p # Worker
    BY <2>2 DEF ReaderInv, Waits, Scanner
  <2> QED BY <2>1, <2>2
<1>2. ~ReadLockStore(t)
  BY <1>1 DEF InSection, ReadLockStore, Goto
<1> QED BY <1>1, <1>2, SmallSteps

-----------------------------------------------------------------------------
(* The scan.                                                               *)

\* A scan's current_version (line 275) is no older than what it is asked about.
LEMMA CurNext == TypeOK /\ VersionInv /\ ObjInv /\ CurInv /\ [Next]_vars => CurInv'
<1> SUFFICES ASSUME TypeOK, VersionInv, ObjInv, CurInv, [Next]_vars,
                    NEW p \in Scanner, Scanning(p)',
                    NEW t \in Thread, NEW v \in Sought(p)', Waits(p, t, v)'
             PROVE  v <= cur'[p]
  BY DEF CurInv
<1>a. Waits(p, t, v) /\ v \in Sought(p) /\ (Scanning(p) \/ pc[p] = "scan")
  BY NoNewWaits
<1>b. v \in Nat /\ v <= version
  BY <1>a, ThreadAssumption DEF TypeOK, VersionInv, Sought, Queued, Listed, Kind, Callback,
       Scanner
<1>c. Scanning(p) => v <= cur[p]
  BY <1>a DEF CurInv
<1> USE <1>a, <1>b, <1>c, ThreadAssumption
<1> USE DEF TypeOK, Scanning, Scanned, HoldsLock, nsVars, readVars, hungVars, updVars, listVars,
     scanVars, syncVars, Proc, Scanner
<1>1. ASSUME NEW s \in Thread, ReadLock(s) PROVE v <= cur'[p]
  BY <1>1 DEF ReadLock, Goto
<1>2. ASSUME NEW s \in Thread, ReadLockLoad(s) PROVE v <= cur'[p]
  BY <1>2 DEF ReadLockLoad, Goto, LoadVersion
<1>3. ASSUME NEW s \in Thread, ReadLockStore(s) PROVE v <= cur'[p]
  BY <1>3 DEF ReadLockStore, Goto
<1>4. ASSUME NEW s \in Thread, Dereference(s) PROVE v <= cur'[p]
  BY <1>4 DEF Dereference
<1>5. ASSUME NEW s \in Thread, ReadUnlock(s) PROVE v <= cur'[p]
  BY <1>5 DEF ReadUnlock
<1>6. ASSUME NEW s \in Thread, WriteLock(s) PROVE v <= cur'[p]
  BY <1>6 DEF WriteLock, Goto, LoadVersion
<1>7. ASSUME NEW s \in Thread, WriteLockStore(s) PROVE v <= cur'[p]
  BY <1>7 DEF WriteLockStore, Goto, StoreBump
<1>8. ASSUME NEW s \in Thread, AssignLoad(s) PROVE v <= cur'[p]
  BY <1>8 DEF AssignLoad, Goto, LoadVersion
<1>9. ASSUME NEW s \in Thread, AssignStore(s) PROVE v <= cur'[p]
  BY <1>9 DEF AssignStore, Goto, StoreBump
<1>10. ASSUME NEW s \in Thread, AssignPtr(s) PROVE v <= cur'[p]
  BY <1>10 DEF AssignPtr
<1>11. ASSUME NEW s \in Thread, WriteUnlock(s) PROVE v <= cur'[p]
  BY <1>11 DEF WriteUnlock
<1>12. ASSUME NEW s \in Thread, CallLoad(s) PROVE v <= cur'[p]
  BY <1>12 DEF CallLoad, Goto, LoadVersion
<1>13. ASSUME NEW s \in Thread, CallAdd(s) PROVE v <= cur'[p]
  BY <1>13 DEF CallAdd, Goto
<1>14. ASSUME NEW s \in Thread, TimerExpire(s) PROVE v <= cur'[p]
  BY <1>14 DEF TimerExpire
<1>15. ASSUME NEW s \in Syncer, SyncStart(s) PROVE v <= cur'[p]
  BY <1>15 DEF SyncStart, Goto
<1>16. ASSUME NEW s \in Syncer, SyncRetry(s) PROVE v <= cur'[p]
  BY <1>16 DEF SyncRetry, Goto
<1>17. ASSUME NEW s \in Syncer, SyncReturn(s) PROVE v <= cur'[p]
  BY <1>17 DEF SyncReturn, Goto, ForgetScan
<1>18. ASSUME NEW s \in Syncer, BarrierLoad(s) PROVE v <= cur'[p]
  BY <1>18 DEF BarrierLoad, Goto
<1>19. ASSUME NEW s \in Syncer, BarrierReturn(s) PROVE v <= cur'[p]
  BY <1>19 DEF BarrierReturn, Goto
<1>20. ASSUME NEW q \in Scanner, ScanStart(q) PROVE v <= cur'[p]
  BY <1>20 DEF ScanStart, Goto
<1>21. ASSUME NEW q \in Scanner, ScanLock(q) PROVE v <= cur'[p]
  BY <1>21 DEF ScanLock, Goto
<1>22. ASSUME NEW q \in Scanner, ScanRead(q) PROVE v <= cur'[p]
  BY <1>22 DEF ScanRead
<1>23. ASSUME NEW q \in Scanner, ScanIdle(q) PROVE v <= cur'[p]
  BY <1>23 DEF ScanIdle, Visited, Visit, Seen, SeenCounter, SeenVersion
<1>24. ASSUME NEW q \in Scanner, ScanActive(q) PROVE v <= cur'[p]
  BY <1>24 DEF ScanActive, Visited, Visit, Seen, SeenCounter, SeenVersion
<1>25. ASSUME NEW q \in Scanner, ScanThreadsDone(q) PROVE v <= cur'[p]
  BY <1>25 DEF ScanThreadsDone, Goto
<1>26. ASSUME NEW q \in Scanner, ScanHung(q) PROVE v <= cur'[p]
  BY <1>26 DEF ScanHung, Visited, Visit, Seen, SeenCounter, SeenVersion
<1>27. ASSUME NEW q \in Scanner, ScanUnlock(q) PROVE v <= cur'[p]
  BY <1>27 DEF ScanUnlock, Goto
<1>28. ASSUME WorkerSplice PROVE v <= cur'[p]
  BY <1>28 DEF WorkerSplice, Splice, Goto
<1>29. ASSUME WorkerSpliceHead PROVE v <= cur'[p]
  BY <1>29 DEF WorkerSpliceHead, Splice, Goto
<1>30. ASSUME NEW k \in Kind, WorkerRun(k) PROVE v <= cur'[p]
  BY <1>30 DEF WorkerRun, Ready
<1>31. ASSUME WorkerRunDone PROVE v <= cur'[p]
  BY <1>31 DEF WorkerRunDone, Goto, ForgetScan
<1>32. ASSUME WorkerZero PROVE v <= cur'[p]
  BY <1>32 DEF WorkerZero, LoadVersion, Goto
<1>33. ASSUME WorkerBumpLoad PROVE v <= cur'[p]
  BY <1>33 DEF WorkerBumpLoad, Goto, LoadVersion
<1>34. ASSUME WorkerBumpStore PROVE v <= cur'[p]
  BY <1>34 DEF WorkerBumpStore, Goto, StoreBump
<1>35. ASSUME WorkerSkipBump PROVE v <= cur'[p]
  BY <1>35 DEF WorkerSkipBump, Goto
<1>36. ASSUME WorkerZeroStore PROVE v <= cur'[p]
  BY <1>36 DEF WorkerZeroStore, StoreProcessed, Goto
<1>37. ASSUME WorkerIdle PROVE v <= cur'[p]
  BY <1>37 DEF WorkerIdle, LoadVersion, Goto
<1>38. ASSUME WorkerIdleStore PROVE v <= cur'[p]
  BY <1>38 DEF WorkerIdleStore, StoreProcessed, Goto
<1>39. CASE UNCHANGED vars
  BY <1>39 DEF vars
<1> QED BY <1>1, <1>2, <1>3, <1>4, <1>5, <1>6, <1>7, <1>8, <1>9, <1>10, <1>11, <1>12, <1>13,
     <1>14, <1>15, <1>16, <1>17, <1>18, <1>19, <1>20, <1>21, <1>22, <1>23, <1>24, <1>25, <1>26,
     <1>27, <1>28, <1>29, <1>30, <1>31, <1>32, <1>33, <1>34, <1>35, <1>36, <1>37, <1>38, <1>39
  DEF Next, ReaderStep, UpdaterStep, SyncStep, ScanStep, WorkerStep

\* What half a copy says of a thread that is waited for stays true.
LEMMA PartNext == TypeOK /\ VersionInv /\ ObjInv /\ ReaderInv /\ LockInv /\ PartInv /\ [Next]_vars => PartInv'
<1> SUFFICES ASSUME TypeOK, VersionInv, ObjInv, ReaderInv, LockInv, PartInv, [Next]_vars,
                    part' # NoPart, NEW t \in Thread, t = Seen'
             PROVE  /\ part'.field = "counter" /\ part'.val = 0 =>
                          /\ \A o \in freed' : t \notin due'[o]
                          /\ \A p \in Scanner : Scanned(p)' => \A v \in Sought(p)' : ~Waits(p, t, v)'
                    /\ part'.field = "version" =>
                          /\ part'.val <= lversion'[t]
                          /\ \A p \in Scanner : HoldsLock(p)' =>
                                \A v \in Sought(p)' : Waits(p, t, v)' => part'.val = lversion'[t]
  <2>1. TypeOK' => part' = NoPart \/ Seen' \in Thread
    BY DEF TypeOK, Part, Seen
  <2> QED BY <2>1, TypeNext DEF PartInv
<1>a. part' = part \/ \E q \in Scanner : ScanRead(q)
  BY SmallSteps
<1>b. part' = part => part # NoPart /\ t = Seen
  BY DEF Seen
<1>c. ASSUME NEW q \in Scanner, ScanRead(q)
      PROVE  /\ part'.field = "counter" => part'.val = counter[t]
             /\ part'.field = "version" => part'.val = lversion[t]
             /\ UNCHANGED <<counter, lversion, due, freed>>
  BY <1>c DEF ScanRead, Seen, readVars, listVars, syncVars
<1>1. ASSUME part'.field = "counter", part'.val = 0, NEW o \in freed' PROVE t \notin due'[o]
  <2>1. CASE \E q \in Scanner : ScanRead(q)
    <3>1. o \in Obj /\ due' = due /\ counter[t] = 0
      BY <1>1, <1>c, <2>1 DEF TypeOK
    <3> QED BY <3>1 DEF ReaderInv, InSection
  <2>2. CASE part' = part
    <3>1. /\ \A x \in freed : t \notin due[x]
          /\ \A p \in Scanner : Scanned(p) => \A v \in Sought(p) : ~Waits(p, t, v)
      BY <1>1, <1>b, <2>2 DEF PartInv
    <3>2. CASE \E k \in Kind : WorkerRun(k)
      <4>1. PICK k \in Kind : WorkerRun(k)
        BY <3>2
      <4>2. PICK c \in workList[k] : freed' = freed \cup {c.obj}
        BY <4>1 DEF WorkerRun, Ready
      <4>3. due' = due /\ pc[Worker] = "w_run" /\ Worker \in Scanner
        BY <4>1 DEF WorkerRun, syncVars, Scanner
      <4>4. c.ver \in Sought(Worker) /\ (t \in due[c.obj] => Waits(Worker, t, c.ver))
        BY DEF Sought, Waits, Listed, Kind
      <4>5. t \notin due[c.obj]
        BY <3>1, <4>3, <4>4 DEF Scanned
      <4> QED BY <1>1, <3>1, <4>2, <4>3, <4>5
    <3>3. CASE freed' = freed
      <4>1. o \in freed /\ o \in Obj
        BY <1>1, <3>3 DEF TypeOK
      <4>2. due'[o] \subseteq due[o]
        BY <4>1, SmallSteps DEF ObjInv
      <4> QED BY <3>1, <4>1, <4>2
    <3> QED BY <3>2, <3>3, SmallSteps
  <2> QED BY <1>a, <2>1, <2>2
<1>2. ASSUME part'.field = "version" PROVE part'.val <= lversion'[t]
  <2>1. lversion'[t] \in Nat /\ lversion[t] \in Nat /\ lversion[t] <= lversion'[t]
    <3>1. CASE ReadLockStore(t)
      BY <3>1 DEF ReadLockStore, Goto, TypeOK, VersionInv, Proc
    <3>2. CASE lversion'[t] = lversion[t]
      BY <3>2 DEF TypeOK
    <3> QED BY <3>1, <3>2, SmallSteps
  <2>2. part' = part => part.val \in Nat /\ part.val <= lversion[t]
    BY <1>2, <1>b DEF PartInv, TypeOK, Part
  <2> QED BY <1>2, <1>a, <1>c, <2>1, <2>2
<1>3. ASSUME NEW p \in Scanner, Scanned(p)', NEW v \in Sought(p)', Waits(p, t, v)'
      PROVE  /\ ~(part'.field = "counter" /\ part'.val = 0)
             /\ part'.field = "version" /\ HoldsLock(p)' => part'.val = lversion'[t]
  <2>1. Waits(p, t, v) /\ v \in Sought(p)
    BY <1>3, NoNewWaits DEF Scanning
  <2>2. InSection(t) /\ lversion'[t] = lversion[t]
    BY <2>1, VersionFrozen
  <2>3. CASE \E q \in Scanner : ScanRead(q)
    BY <1>c, <2>2, <2>3 DEF InSection, TypeOK
  <2>4. CASE part' = part
    <3>1. ~ScanLock(p)
      BY <1>b, <2>4 DEF LockInv, ScanLock
    <3>2. Scanned(p) /\ (HoldsLock(p)' => HoldsLock(p))
      BY <1>3, <3>1, SmallSteps
    <3> QED BY <3>2, <1>b, <2>1, <2>2, <2>4 DEF PartInv
  <2> QED BY <1>a, <2>3, <2>4
<1>4. \A p \in Scanner : HoldsLock(p)' => Scanned(p)'
  BY DEF Scanned
<1> QED BY <1>1, <1>2, <1>3, <1>4

\* The scan's step over one thread settles it; later steps leave it settled.
LEMMA CoverNext == TypeOK /\ VersionInv /\ ObjInv /\ ReaderInv /\ RetireInv /\ LockInv /\ CurInv
                   /\ PartInv /\ CoverInv /\ [Next]_vars => CoverInv'
<1> DEFINE Cover(p, t, v) ==
       /\ pc[p] = "s_threads" /\ t \notin todo /\ t \notin hungThreads => InRange(p, v)
       /\ pc[p] = "s_hung" /\ t \notin todo => Settled(p, t, v)
       /\ pc[p] \in {"w_run", "y_find"} => Settled(p, t, v)
<1> SUFFICES ASSUME TypeOK, VersionInv, ObjInv, ReaderInv, RetireInv, LockInv, CurInv,
                    PartInv, CoverInv, [Next]_vars,
                    NEW p \in Scanner, Scanned(p)',
                    NEW t \in Thread, NEW v \in Sought(p)', Waits(p, t, v)'
             PROVE  Cover(p, t, v)'
  BY DEF CoverInv, Scanned, HoldsLock
<1>a. Waits(p, t, v) /\ v \in Sought(p) /\ (Scanning(p) \/ pc[p] = "scan")
  BY NoNewWaits DEF Scanning
<1>b. InSection(t) /\ lversion'[t] = lversion[t]
  BY <1>a, VersionFrozen
<1>c. Cover(p, t, v)
  BY <1>a DEF CoverInv
<1>d. lversion[t] <= v /\ v \in Nat /\ (Scanning(p) => v <= cur[p])
  <2>1. Scanning(p) => v <= cur[p]
    BY <1>a DEF CurInv
  <2>2. CASE p = Worker
    <3>1. PICK c \in Listed(workList) : c.ver = v /\ t \in due[c.obj]
      BY <1>a, <2>2 DEF Waits
    <3>2. c \in Queued /\ c.ver \in Nat
      BY DEF TypeOK, Queued, Listed, Kind, Callback
    <3> QED BY <2>1, <3>1, <3>2 DEF RetireInv
  <2>3. CASE p # Worker
    <3>1. p \in Syncer /\ t \in pre[p] /\ v = target[p]
      BY <1>a, <2>3 DEF Waits, Scanner
    <3> QED BY <2>1, <3>1, ThreadAssumption DEF TypeOK, RetireInv
  <2> QED BY <2>2, <2>3
<1>e. part # NoPart /\ Seen = t =>
        /\ part.field = "counter" /\ Scanned(p) => part.val # 0
        /\ part.field = "version" => /\ part.val <= lversion[t]
                                     /\ HoldsLock(p) => part.val = lversion[t]
  BY <1>a DEF PartInv
<1>f. /\ \A q \in Scanner : HoldsLock(q) => threadsLock = q
      /\ \A q \in Scanner : pc[q] = "s_threads" => todo \cap hungThreads = {}
      /\ \A q \in Scanner : pc[q] = "s_hung" => todo \subseteq hungThreads
      /\ p # NoProc
  BY ThreadAssumption DEF LockInv, Scanner, Proc
<1> HIDE DEF Cover
<1> USE <1>a, <1>b, <1>c, <1>d, <1>e, <1>f, ThreadAssumption
<1> USE DEF TypeOK, Cover, Settled, InRange, Exempt, InSection, Scanning, Scanned, HoldsLock,
     NoPart
<1> USE DEF nsVars, readVars, hungVars, updVars, listVars, scanVars, syncVars, Proc, Scanner
<1>1. ASSUME NEW s \in Thread, ReadLock(s) PROVE Cover(p, t, v)'
  BY <1>1 DEF ReadLock, Goto
<1>2. ASSUME NEW s \in Thread, ReadLockLoad(s) PROVE Cover(p, t, v)'
  BY <1>2 DEF ReadLockLoad, Goto, LoadVersion
<1>3. ASSUME NEW s \in Thread, ReadLockStore(s) PROVE Cover(p, t, v)'
  BY <1>3 DEF ReadLockStore, Goto
<1>4. ASSUME NEW s \in Thread, Dereference(s) PROVE Cover(p, t, v)'
  BY <1>4 DEF Dereference
<1>5. ASSUME NEW s \in Thread, ReadUnlock(s) PROVE Cover(p, t, v)'
  BY <1>5 DEF ReadUnlock
<1>6. ASSUME NEW s \in Thread, WriteLock(s) PROVE Cover(p, t, v)'
  BY <1>6 DEF WriteLock, Goto, LoadVersion
<1>7. ASSUME NEW s \in Thread, WriteLockStore(s) PROVE Cover(p, t, v)'
  BY <1>7 DEF WriteLockStore, Goto, StoreBump
<1>8. ASSUME NEW s \in Thread, AssignLoad(s) PROVE Cover(p, t, v)'
  BY <1>8 DEF AssignLoad, Goto, LoadVersion
<1>9. ASSUME NEW s \in Thread, AssignStore(s) PROVE Cover(p, t, v)'
  BY <1>9 DEF AssignStore, Goto, StoreBump
<1>10. ASSUME NEW s \in Thread, AssignPtr(s) PROVE Cover(p, t, v)'
  BY <1>10 DEF AssignPtr
<1>11. ASSUME NEW s \in Thread, WriteUnlock(s) PROVE Cover(p, t, v)'
  BY <1>11 DEF WriteUnlock
<1>12. ASSUME NEW s \in Thread, CallLoad(s) PROVE Cover(p, t, v)'
  BY <1>12 DEF CallLoad, Goto, LoadVersion
<1>13. ASSUME NEW s \in Thread, CallAdd(s) PROVE Cover(p, t, v)'
  BY <1>13 DEF CallAdd, Goto
<1>14. ASSUME NEW s \in Thread, TimerExpire(s) PROVE Cover(p, t, v)'
  BY <1>14 DEF TimerExpire
<1>15. ASSUME NEW s \in Syncer, SyncStart(s) PROVE Cover(p, t, v)'
  BY <1>15 DEF SyncStart, Goto
<1>16. ASSUME NEW s \in Syncer, SyncRetry(s) PROVE Cover(p, t, v)'
  BY <1>16 DEF SyncRetry, Goto
<1>17. ASSUME NEW s \in Syncer, SyncReturn(s) PROVE Cover(p, t, v)'
  BY <1>17 DEF SyncReturn, Goto, ForgetScan
<1>18. ASSUME NEW s \in Syncer, BarrierLoad(s) PROVE Cover(p, t, v)'
  BY <1>18 DEF BarrierLoad, Goto
<1>19. ASSUME NEW s \in Syncer, BarrierReturn(s) PROVE Cover(p, t, v)'
  BY <1>19 DEF BarrierReturn, Goto
<1>20. ASSUME NEW q \in Scanner, ScanStart(q) PROVE Cover(p, t, v)'
  BY <1>20 DEF ScanStart, Goto
<1>21. ASSUME NEW q \in Scanner, ScanLock(q) PROVE Cover(p, t, v)'
  BY <1>21 DEF ScanLock, Goto
<1>22. ASSUME NEW q \in Scanner, ScanRead(q) PROVE Cover(p, t, v)'
  BY <1>22 DEF ScanRead
<1>23. ASSUME NEW q \in Scanner, ScanIdle(q) PROVE Cover(p, t, v)'
  BY <1>23 DEF ScanIdle, Visited, Visit, Seen, SeenCounter, SeenVersion
<1>24. ASSUME NEW q \in Scanner, ScanActive(q) PROVE Cover(p, t, v)'
  <2> USE <1>24 DEF ScanActive, Visited
  <2>1. /\ pc[q] = "s_threads" /\ part # NoPart
        /\ Seen \in todo /\ SeenVersion \in Nat
        /\ pc' = pc /\ todo' = todo \ {Seen} /\ hungThreads \subseteq hungThreads'
    BY DEF Visit, Seen, SeenVersion
  <2>2. CASE q = p
    <3>1. rbt'[p] = rbt[p] \cup {<<SeenVersion, cur[p]>>}
      BY <2>2
    <3>2. CASE t = Seen
      <4>1. SeenVersion <= lversion[t]
        BY <3>2, <2>1 DEF SeenVersion, Visit
      <4>2. Covers(<<SeenVersion, cur[p]>>, v)
        BY <4>1, <2>1, <2>2 DEF Covers
      <4> QED BY <3>1, <4>2, <2>1, <2>2
    <3>3. CASE t # Seen
      BY <3>1, <3>3, <2>1, <2>2
    <3> QED BY <3>2, <3>3
  <2>3. CASE q # p
    <3>1. pc[p] \in {"w_run", "y_find"} /\ rbt'[p] = rbt[p]
      BY <2>1, <2>3
    <3>2. t \in hungThreads => hungVersion'[t] = hungVersion[t]
      BY <2>1
    <3> QED BY <3>1, <3>2, <2>1
  <2> QED BY <2>2, <2>3
<1>25. ASSUME NEW q \in Scanner, ScanThreadsDone(q) PROVE Cover(p, t, v)'
  BY <1>25 DEF ScanThreadsDone, Goto
<1>26. ASSUME NEW q \in Scanner, ScanHung(q) PROVE Cover(p, t, v)'
  <2> USE <1>26 DEF ScanHung, Visited
  <2>1. /\ pc[q] = "s_hung" /\ part # NoPart
        /\ Seen \in todo /\ SeenVersion \in Nat
        /\ pc' = pc /\ todo' = todo \ {Seen} /\ hungVersion' = hungVersion
        /\ hungThreads \ {Seen} \subseteq hungThreads'
        /\ SeenVersion <= hungVersion[Seen] /\ SeenCounter # 0 => hungThreads' = hungThreads
    BY DEF Visit, Seen, SeenVersion
  <2>2. t = Seen => SeenCounter # 0 /\ SeenVersion <= lversion[t]
    BY <2>1 DEF Visit, SeenCounter, SeenVersion
  <2>3. CASE q = p
    <3>1. rbt[p] \subseteq rbt'[p]
      BY <2>3
    <3>2. CASE t = Seen /\ SeenVersion > hungVersion[t]
      <4>1. rbt'[p] = rbt[p] \cup {<<SeenVersion, cur[p]>>}
        BY <2>2, <2>3, <3>2
      <4>2. Covers(<<SeenVersion, cur[p]>>, v)
        BY <2>1, <2>2, <2>3, <3>2 DEF Covers
      <4> QED BY <4>1, <4>2, <2>1, <2>3
    <3>3. CASE t = Seen /\ ~(SeenVersion > hungVersion[t])
      <4>1. rbt'[p] = rbt[p] \cup {<<SeenVersion, hungVersion[t]>>}
        BY <2>2, <2>3, <3>3
      <4>2. SeenVersion = lversion[t]
        BY <2>1, <2>3, <3>3 DEF Visit, SeenVersion
      <4>3. CASE v <= hungVersion[t]
        <5>1. Covers(<<SeenVersion, hungVersion[t]>>, v)
          BY <4>2, <4>3 DEF Covers
        <5> QED BY <4>1, <5>1, <2>1, <2>3
      <4>4. CASE ~(v <= hungVersion[t])
        BY <2>1, <2>2, <2>3, <3>3, <4>2, <4>4
      <4> QED BY <4>3, <4>4
    <3>4. CASE t # Seen
      BY <3>1, <3>4, <2>1, <2>3
    <3> QED BY <3>2, <3>3, <3>4
  <2>4. CASE q # p
    <3>1. pc[p] \in {"w_run", "y_find"} /\ rbt'[p] = rbt[p]
      BY <2>1, <2>4
    <3>2. Exempt(t) => Exempt(t)'
      BY <2>1, <2>2
    <3> QED BY <3>1, <3>2, <2>1
  <2> QED BY <2>3, <2>4
<1>27. ASSUME NEW q \in Scanner, ScanUnlock(q) PROVE Cover(p, t, v)'
  BY <1>27 DEF ScanUnlock, Goto
<1>28. ASSUME WorkerSplice PROVE Cover(p, t, v)'
  BY <1>28 DEF WorkerSplice, Splice, Goto
<1>29. ASSUME WorkerSpliceHead PROVE Cover(p, t, v)'
  BY <1>29 DEF WorkerSpliceHead, Splice, Goto
<1>30. ASSUME NEW k \in Kind, WorkerRun(k) PROVE Cover(p, t, v)'
  BY <1>30 DEF WorkerRun, Ready
<1>31. ASSUME WorkerRunDone PROVE Cover(p, t, v)'
  BY <1>31 DEF WorkerRunDone, Goto, ForgetScan
<1>32. ASSUME WorkerZero PROVE Cover(p, t, v)'
  BY <1>32 DEF WorkerZero, LoadVersion, Goto
<1>33. ASSUME WorkerBumpLoad PROVE Cover(p, t, v)'
  BY <1>33 DEF WorkerBumpLoad, Goto, LoadVersion
<1>34. ASSUME WorkerBumpStore PROVE Cover(p, t, v)'
  BY <1>34 DEF WorkerBumpStore, Goto, StoreBump
<1>35. ASSUME WorkerSkipBump PROVE Cover(p, t, v)'
  BY <1>35 DEF WorkerSkipBump, Goto
<1>36. ASSUME WorkerZeroStore PROVE Cover(p, t, v)'
  BY <1>36 DEF WorkerZeroStore, StoreProcessed, Goto
<1>37. ASSUME WorkerIdle PROVE Cover(p, t, v)'
  BY <1>37 DEF WorkerIdle, LoadVersion, Goto
<1>38. ASSUME WorkerIdleStore PROVE Cover(p, t, v)'
  BY <1>38 DEF WorkerIdleStore, StoreProcessed, Goto
<1>39. CASE UNCHANGED vars
  BY <1>39 DEF vars
<1> QED BY <1>1, <1>2, <1>3, <1>4, <1>5, <1>6, <1>7, <1>8, <1>9, <1>10, <1>11, <1>12, <1>13,
     <1>14, <1>15, <1>16, <1>17, <1>18, <1>19, <1>20, <1>21, <1>22, <1>23, <1>24, <1>25, <1>26,
     <1>27, <1>28, <1>29, <1>30, <1>31, <1>32, <1>33, <1>34, <1>35, <1>36, <1>37, <1>38, <1>39
  DEF Next, ReaderStep, UpdaterStep, SyncStep, ScanStep, WorkerStep

\* A callback that runs was not found, so the sections it had to wait for are
\* those of exempt threads (lines 455-503 against 277-407).
LEMMA FreedNext == TypeOK /\ ObjInv /\ ReaderInv /\ LockInv /\ PartInv /\ CoverInv /\ FreedInv /\ [Next]_vars
                   => FreedInv'
<1> SUFFICES ASSUME TypeOK, ObjInv, ReaderInv, LockInv, PartInv, CoverInv, FreedInv, [Next]_vars,
                    NEW o \in freed', NEW t \in due'[o]
             PROVE  Exempt(t)'
  BY DEF FreedInv
<1>a. /\ o \in freed /\ t \in due[o] => Exempt(t) /\ InSection(t)
      /\ t \in Thread /\ o \in Obj
  <2>1. TypeOK'
    BY TypeNext
  <2>2. t \in Thread /\ o \in Obj
    BY <2>1 DEF TypeOK
  <2> QED BY <2>2 DEF FreedInv, ReaderInv
<1>b. /\ \A s \in Thread : old[s] \in Obj => old[s] \notin freed
      /\ \A q \in Scanner : pc[q] = "s_threads" => todo \cap hungThreads = {}
  BY ThreadAssumption DEF ObjInv, LockInv, Scanner, Proc
<1> USE <1>a, <1>b, ThreadAssumption DEF TypeOK, Exempt, InSection, nsVars, readVars, hungVars, updVars, listVars, scanVars, syncVars, Proc, Scanner
<1>1. ASSUME NEW s \in Thread, ReadLock(s) PROVE Exempt(t)'
  BY <1>1 DEF ReadLock, Goto
<1>2. ASSUME NEW s \in Thread, ReadLockLoad(s) PROVE Exempt(t)'
  BY <1>2 DEF ReadLockLoad, Goto, LoadVersion
<1>3. ASSUME NEW s \in Thread, ReadLockStore(s) PROVE Exempt(t)'
  BY <1>3 DEF ReadLockStore, Goto
<1>4. ASSUME NEW s \in Thread, Dereference(s) PROVE Exempt(t)'
  BY <1>4 DEF Dereference
<1>5. ASSUME NEW s \in Thread, ReadUnlock(s) PROVE Exempt(t)'
  BY <1>5 DEF ReadUnlock
<1>6. ASSUME NEW s \in Thread, WriteLock(s) PROVE Exempt(t)'
  BY <1>6 DEF WriteLock, Goto, LoadVersion
<1>7. ASSUME NEW s \in Thread, WriteLockStore(s) PROVE Exempt(t)'
  BY <1>7 DEF WriteLockStore, Goto, StoreBump
<1>8. ASSUME NEW s \in Thread, AssignLoad(s) PROVE Exempt(t)'
  BY <1>8 DEF AssignLoad, Goto, LoadVersion
<1>9. ASSUME NEW s \in Thread, AssignStore(s) PROVE Exempt(t)'
  BY <1>9 DEF AssignStore, Goto, StoreBump
<1>10. ASSUME NEW s \in Thread, AssignPtr(s) PROVE Exempt(t)'
  BY <1>10 DEF AssignPtr
<1>11. ASSUME NEW s \in Thread, WriteUnlock(s) PROVE Exempt(t)'
  BY <1>11 DEF WriteUnlock
<1>12. ASSUME NEW s \in Thread, CallLoad(s) PROVE Exempt(t)'
  BY <1>12 DEF CallLoad, Goto, LoadVersion
<1>13. ASSUME NEW s \in Thread, CallAdd(s) PROVE Exempt(t)'
  BY <1>13 DEF CallAdd, Goto
<1>14. ASSUME NEW s \in Thread, TimerExpire(s) PROVE Exempt(t)'
  BY <1>14 DEF TimerExpire
<1>15. ASSUME NEW s \in Syncer, SyncStart(s) PROVE Exempt(t)'
  BY <1>15 DEF SyncStart, Goto
<1>16. ASSUME NEW s \in Syncer, SyncRetry(s) PROVE Exempt(t)'
  BY <1>16 DEF SyncRetry, Goto
<1>17. ASSUME NEW s \in Syncer, SyncReturn(s) PROVE Exempt(t)'
  BY <1>17 DEF SyncReturn, Goto, ForgetScan
<1>18. ASSUME NEW s \in Syncer, BarrierLoad(s) PROVE Exempt(t)'
  BY <1>18 DEF BarrierLoad, Goto
<1>19. ASSUME NEW s \in Syncer, BarrierReturn(s) PROVE Exempt(t)'
  BY <1>19 DEF BarrierReturn, Goto
<1>20. ASSUME NEW q \in Scanner, ScanStart(q) PROVE Exempt(t)'
  BY <1>20 DEF ScanStart, Goto
<1>21. ASSUME NEW q \in Scanner, ScanLock(q) PROVE Exempt(t)'
  BY <1>21 DEF ScanLock, Goto
<1>22. ASSUME NEW q \in Scanner, ScanRead(q) PROVE Exempt(t)'
  BY <1>22 DEF ScanRead
<1>23. ASSUME NEW q \in Scanner, ScanIdle(q) PROVE Exempt(t)'
  BY <1>23 DEF ScanIdle, Visited, Visit, Seen, SeenCounter, SeenVersion
<1>24. ASSUME NEW q \in Scanner, ScanActive(q) PROVE Exempt(t)'
  BY <1>24 DEF ScanActive, Visited, Visit, Seen, SeenCounter, SeenVersion
<1>25. ASSUME NEW q \in Scanner, ScanThreadsDone(q) PROVE Exempt(t)'
  BY <1>25 DEF ScanThreadsDone, Goto
<1>26. ASSUME NEW q \in Scanner, ScanHung(q) PROVE Exempt(t)'
  <2> USE <1>26 DEF ScanHung, Visited
  <2>1. o \in freed /\ t \in due[o] /\ Exempt(t) /\ InSection(t)
    OBVIOUS
  <2>2. part # NoPart /\ (t = Seen => SeenCounter # 0 /\ SeenVersion <= lversion[t] /\ SeenVersion \in Nat)
    BY <2>1 DEF Visit, NoPart, PartInv, InSection, Seen, SeenCounter, SeenVersion
  <2> QED BY <2>1, <2>2
<1>27. ASSUME NEW q \in Scanner, ScanUnlock(q) PROVE Exempt(t)'
  BY <1>27 DEF ScanUnlock, Goto
<1>28. ASSUME WorkerSplice PROVE Exempt(t)'
  BY <1>28 DEF WorkerSplice, Splice, Goto
<1>29. ASSUME WorkerSpliceHead PROVE Exempt(t)'
  BY <1>29 DEF WorkerSpliceHead, Splice, Goto
<1>30. ASSUME NEW k \in Kind, WorkerRun(k) PROVE Exempt(t)'
  <2>1. PICK c \in workList[k] : ~Found(Worker, c.ver) /\ freed' = freed \cup {c.obj}
    BY <1>30 DEF WorkerRun, Ready
  <2>2. /\ UNCHANGED <<due, lversion, hungThreads, hungVersion>>
        /\ pc[Worker] = "w_run" /\ Worker \in Scanner
    BY <1>30 DEF WorkerRun
  <2>3. CASE c.obj = o
    <3>1. c.ver \in Sought(Worker) /\ Waits(Worker, t, c.ver)
      BY <2>2, <2>3 DEF Sought, Waits, Listed, Kind
    <3>2. Settled(Worker, t, c.ver)
      BY <2>2, <3>1 DEF CoverInv
    <3> QED BY <2>1, <2>2, <3>2 DEF Settled, InRange, Found, Lookup
  <2>4. CASE c.obj # o
    BY <2>1, <2>2, <2>4
  <2> QED BY <2>3, <2>4
<1>31. ASSUME WorkerRunDone PROVE Exempt(t)'
  BY <1>31 DEF WorkerRunDone, Goto, ForgetScan
<1>32. ASSUME WorkerZero PROVE Exempt(t)'
  BY <1>32 DEF WorkerZero, LoadVersion, Goto
<1>33. ASSUME WorkerBumpLoad PROVE Exempt(t)'
  BY <1>33 DEF WorkerBumpLoad, Goto, LoadVersion
<1>34. ASSUME WorkerBumpStore PROVE Exempt(t)'
  BY <1>34 DEF WorkerBumpStore, Goto, StoreBump
<1>35. ASSUME WorkerSkipBump PROVE Exempt(t)'
  BY <1>35 DEF WorkerSkipBump, Goto
<1>36. ASSUME WorkerZeroStore PROVE Exempt(t)'
  BY <1>36 DEF WorkerZeroStore, StoreProcessed, Goto
<1>37. ASSUME WorkerIdle PROVE Exempt(t)'
  BY <1>37 DEF WorkerIdle, LoadVersion, Goto
<1>38. ASSUME WorkerIdleStore PROVE Exempt(t)'
  BY <1>38 DEF WorkerIdleStore, StoreProcessed, Goto
<1>39. CASE UNCHANGED vars
  BY <1>39 DEF vars
<1> QED BY <1>1, <1>2, <1>3, <1>4, <1>5, <1>6, <1>7, <1>8, <1>9, <1>10, <1>11, <1>12, <1>13,
     <1>14, <1>15, <1>16, <1>17, <1>18, <1>19, <1>20, <1>21, <1>22, <1>23, <1>24, <1>25, <1>26,
     <1>27, <1>28, <1>29, <1>30, <1>31, <1>32, <1>33, <1>34, <1>35, <1>36, <1>37, <1>38, <1>39
  DEF Next, ReaderStep, UpdaterStep, SyncStep, ScanStep, WorkerStep


-----------------------------------------------------------------------------
\* Every reachable state satisfies the invariant.
THEOREM Invariant == Spec => []IndInv
<1>1. Init => IndInv
  <2> SUFFICES ASSUME Init PROVE IndInv
    OBVIOUS
  <2>1. TypeOK
    BY TypeInit
  <2>2. Queued = {} /\ Listed(workList) = {} /\ part = NoPart /\ freed = {}
    BY DEF Init, Queued, Listed, Kind
  <2> USE ThreadAssumption, ObjAssumption, <2>2 DEF Init, Proc, Scanner
  <2>3. VersionInv
    BY DEF VersionInv
  <2>4. ObjInv
    BY DEF ObjInv, CalledOnce, RunOnce, NoneLost, Kind
  <2>5. ReaderInv /\ RetireInv /\ FreedInv
    BY DEF ReaderInv, RetireInv, FreedInv
  <2>6. LockInv
    BY DEF LockInv, HoldsLock
  <2>7. CurInv /\ CoverInv
    BY DEF CurInv, CoverInv, Scanning, Scanned, HoldsLock
  <2>8. PartInv
    BY DEF PartInv
  <2> QED BY <2>1, <2>3, <2>4, <2>5, <2>6, <2>7, <2>8 DEF IndInv, VersionsHold
<1>2. IndInv /\ [Next]_vars => IndInv'
  <2> SUFFICES ASSUME IndInv, [Next]_vars PROVE IndInv'
    OBVIOUS
  <2>1. TypeOK' /\ ObjInv' /\ ReaderInv' /\ LockInv'
    BY TypeNext, ObjNext, ReaderNext, LockNext DEF IndInv
  <2>2. ASSUME ~setBack' PROVE VersionsHold'
    <3>1. VersionsHold
      BY <2>2, SmallSteps DEF IndInv
    <3> QED BY <2>2, <3>1, VersionNext, RetireNext, CurNext, PartNext, CoverNext, FreedNext
            DEF IndInv, VersionsHold
  <2> QED BY <2>1, <2>2 DEF IndInv
<1> QED BY <1>1, <1>2, PTL DEF Spec

\* Every variable keeps its type, whatever version++ does.
THEOREM TypeCorrect == Spec => []TypeOK
<1>1. IndInv => TypeOK
  BY DEF IndInv
<1> QED BY <1>1, Invariant, PTL

\* A callback (lines 186-257 and 455-503) is queued in one list at a time, is not
\* lost from it and runs once, whatever version++ does.
THEOREM RunsOnce == Spec => []CalledOnce
<1>1. IndInv => CalledOnce
  BY DEF IndInv, ObjInv
<1> QED BY <1>1, Invariant, PTL

\* Until a version++ takes the version back, a destructor outlives the read
\* sections that were open when lrcu_call took its object, unless their thread
\* has been declared hung (lines 186-240 against 432-551 and 103-182).
THEOREM Grace == Spec => []GracePeriod
<1>1. IndInv => GracePeriod
  BY DEF IndInv, VersionsHold, FreedInv, Exempt, GracePeriod
<1> QED BY <1>1, Invariant, PTL

-----------------------------------------------------------------------------
(* When the version goes back.                                             *)

\* Which processes are between the load and the store of a version++.
Bumping(p) == pc[p] \in {"wl_store", "as_store", "w_store"}
BumpsApart == \A p, q \in Proc : Bumping(p) /\ Bumping(q) => p = q
SerialInv == ~setBack /\ \A p \in Proc : Bumping(p) => reg[p] = version

\* A version++ that nobody else's overlaps adds one (lines 24, 40 and 541).
LEMMA SerialNext == TypeOK /\ SerialInv /\ BumpsApart /\ [Next]_vars => SerialInv'
<1> SUFFICES ASSUME TypeOK, SerialInv, BumpsApart, [Next]_vars PROVE SerialInv'
  OBVIOUS
<1> USE ThreadAssumption
<1> USE DEF TypeOK, SerialInv, BumpsApart, Bumping, nsVars, readVars, hungVars, updVars, listVars,
     scanVars, syncVars, Proc, Scanner
<1>1. ASSUME NEW s \in Thread, ReadLock(s) PROVE SerialInv'
  BY <1>1 DEF ReadLock, Goto
<1>2. ASSUME NEW s \in Thread, ReadLockLoad(s) PROVE SerialInv'
  BY <1>2 DEF ReadLockLoad, Goto, LoadVersion
<1>3. ASSUME NEW s \in Thread, ReadLockStore(s) PROVE SerialInv'
  BY <1>3 DEF ReadLockStore, Goto
<1>4. ASSUME NEW s \in Thread, Dereference(s) PROVE SerialInv'
  BY <1>4 DEF Dereference
<1>5. ASSUME NEW s \in Thread, ReadUnlock(s) PROVE SerialInv'
  BY <1>5 DEF ReadUnlock
<1>6. ASSUME NEW s \in Thread, WriteLock(s) PROVE SerialInv'
  BY <1>6 DEF WriteLock, Goto, LoadVersion
<1>7. ASSUME NEW s \in Thread, WriteLockStore(s) PROVE SerialInv'
  BY <1>7 DEF WriteLockStore, Goto, StoreBump
<1>8. ASSUME NEW s \in Thread, AssignLoad(s) PROVE SerialInv'
  BY <1>8 DEF AssignLoad, Goto, LoadVersion
<1>9. ASSUME NEW s \in Thread, AssignStore(s) PROVE SerialInv'
  BY <1>9 DEF AssignStore, Goto, StoreBump
<1>10. ASSUME NEW s \in Thread, AssignPtr(s) PROVE SerialInv'
  BY <1>10 DEF AssignPtr
<1>11. ASSUME NEW s \in Thread, WriteUnlock(s) PROVE SerialInv'
  BY <1>11 DEF WriteUnlock
<1>12. ASSUME NEW s \in Thread, CallLoad(s) PROVE SerialInv'
  BY <1>12 DEF CallLoad, Goto, LoadVersion
<1>13. ASSUME NEW s \in Thread, CallAdd(s) PROVE SerialInv'
  BY <1>13 DEF CallAdd, Goto
<1>14. ASSUME NEW s \in Thread, TimerExpire(s) PROVE SerialInv'
  BY <1>14 DEF TimerExpire
<1>15. ASSUME NEW s \in Syncer, SyncStart(s) PROVE SerialInv'
  BY <1>15 DEF SyncStart, Goto
<1>16. ASSUME NEW s \in Syncer, SyncRetry(s) PROVE SerialInv'
  BY <1>16 DEF SyncRetry, Goto
<1>17. ASSUME NEW s \in Syncer, SyncReturn(s) PROVE SerialInv'
  BY <1>17 DEF SyncReturn, Goto, ForgetScan
<1>18. ASSUME NEW s \in Syncer, BarrierLoad(s) PROVE SerialInv'
  BY <1>18 DEF BarrierLoad, Goto
<1>19. ASSUME NEW s \in Syncer, BarrierReturn(s) PROVE SerialInv'
  BY <1>19 DEF BarrierReturn, Goto
<1>20. ASSUME NEW q \in Scanner, ScanStart(q) PROVE SerialInv'
  BY <1>20 DEF ScanStart, Goto
<1>21. ASSUME NEW q \in Scanner, ScanLock(q) PROVE SerialInv'
  BY <1>21 DEF ScanLock, Goto
<1>22. ASSUME NEW q \in Scanner, ScanRead(q) PROVE SerialInv'
  BY <1>22 DEF ScanRead
<1>23. ASSUME NEW q \in Scanner, ScanIdle(q) PROVE SerialInv'
  BY <1>23 DEF ScanIdle, Visited, Visit, Seen, SeenCounter, SeenVersion
<1>24. ASSUME NEW q \in Scanner, ScanActive(q) PROVE SerialInv'
  BY <1>24 DEF ScanActive, Visited, Visit, Seen, SeenCounter, SeenVersion
<1>25. ASSUME NEW q \in Scanner, ScanThreadsDone(q) PROVE SerialInv'
  BY <1>25 DEF ScanThreadsDone, Goto
<1>26. ASSUME NEW q \in Scanner, ScanHung(q) PROVE SerialInv'
  BY <1>26 DEF ScanHung, Visited, Visit, Seen, SeenCounter, SeenVersion
<1>27. ASSUME NEW q \in Scanner, ScanUnlock(q) PROVE SerialInv'
  BY <1>27 DEF ScanUnlock, Goto
<1>28. ASSUME WorkerSplice PROVE SerialInv'
  BY <1>28 DEF WorkerSplice, Splice, Goto
<1>29. ASSUME WorkerSpliceHead PROVE SerialInv'
  BY <1>29 DEF WorkerSpliceHead, Splice, Goto
<1>30. ASSUME NEW k \in Kind, WorkerRun(k) PROVE SerialInv'
  BY <1>30 DEF WorkerRun, Ready
<1>31. ASSUME WorkerRunDone PROVE SerialInv'
  BY <1>31 DEF WorkerRunDone, Goto, ForgetScan
<1>32. ASSUME WorkerZero PROVE SerialInv'
  BY <1>32 DEF WorkerZero, LoadVersion, Goto
<1>33. ASSUME WorkerBumpLoad PROVE SerialInv'
  BY <1>33 DEF WorkerBumpLoad, Goto, LoadVersion
<1>34. ASSUME WorkerBumpStore PROVE SerialInv'
  BY <1>34 DEF WorkerBumpStore, Goto, StoreBump
<1>35. ASSUME WorkerSkipBump PROVE SerialInv'
  BY <1>35 DEF WorkerSkipBump, Goto
<1>36. ASSUME WorkerZeroStore PROVE SerialInv'
  BY <1>36 DEF WorkerZeroStore, StoreProcessed, Goto
<1>37. ASSUME WorkerIdle PROVE SerialInv'
  BY <1>37 DEF WorkerIdle, LoadVersion, Goto
<1>38. ASSUME WorkerIdleStore PROVE SerialInv'
  BY <1>38 DEF WorkerIdleStore, StoreProcessed, Goto
<1>39. CASE UNCHANGED vars
  BY <1>39 DEF vars
<1> QED BY <1>1, <1>2, <1>3, <1>4, <1>5, <1>6, <1>7, <1>8, <1>9, <1>10, <1>11, <1>12, <1>13,
     <1>14, <1>15, <1>16, <1>17, <1>18, <1>19, <1>20, <1>21, <1>22, <1>23, <1>24, <1>25, <1>26,
     <1>27, <1>28, <1>29, <1>30, <1>31, <1>32, <1>33, <1>34, <1>35, <1>36, <1>37, <1>38, <1>39
  DEF Next, ReaderStep, UpdaterStep, SyncStep, ScanStep, WorkerStep

\* Only overlapping increments take the version back: with an atomic version++,
\* or one under a common lock, the other theorems hold without their exception.
THEOREM Serial == Spec /\ []BumpsApart => []~setBack
<1>1. Init => SerialInv
  BY ThreadAssumption DEF Init, SerialInv, Bumping, Proc
<1>2. TypeOK /\ SerialInv /\ BumpsApart /\ [Next]_vars => SerialInv'
  BY SerialNext
<1>3. SerialInv => ~setBack
  BY DEF SerialInv
<1> QED BY <1>1, <1>2, <1>3, TypeCorrect, PTL DEF Spec

-----------------------------------------------------------------------------
(* lrcu_synchronize.                                                       *)

\* Only SyncReturn leaves the loop of lrcu_synchronize.
LEMMA ReturnSteps ==
  ASSUME TypeOK, [Next]_vars, NEW t \in Syncer, pc[t] = "y_find", pc'[t] \in {"idle", "b_load"}
  PROVE  SyncReturn(t)
<1> USE ThreadAssumption DEF TypeOK, nsVars, readVars, hungVars, updVars, listVars, scanVars, syncVars, Proc, Scanner
<1>1. ASSUME NEW s \in Thread, ReadLock(s) PROVE SyncReturn(t)
  BY <1>1 DEF ReadLock, Goto
<1>2. ASSUME NEW s \in Thread, ReadLockLoad(s) PROVE SyncReturn(t)
  BY <1>2 DEF ReadLockLoad, Goto, LoadVersion
<1>3. ASSUME NEW s \in Thread, ReadLockStore(s) PROVE SyncReturn(t)
  BY <1>3 DEF ReadLockStore, Goto
<1>4. ASSUME NEW s \in Thread, Dereference(s) PROVE SyncReturn(t)
  BY <1>4 DEF Dereference
<1>5. ASSUME NEW s \in Thread, ReadUnlock(s) PROVE SyncReturn(t)
  BY <1>5 DEF ReadUnlock
<1>6. ASSUME NEW s \in Thread, WriteLock(s) PROVE SyncReturn(t)
  BY <1>6 DEF WriteLock, Goto, LoadVersion
<1>7. ASSUME NEW s \in Thread, WriteLockStore(s) PROVE SyncReturn(t)
  BY <1>7 DEF WriteLockStore, Goto, StoreBump
<1>8. ASSUME NEW s \in Thread, AssignLoad(s) PROVE SyncReturn(t)
  BY <1>8 DEF AssignLoad, Goto, LoadVersion
<1>9. ASSUME NEW s \in Thread, AssignStore(s) PROVE SyncReturn(t)
  BY <1>9 DEF AssignStore, Goto, StoreBump
<1>10. ASSUME NEW s \in Thread, AssignPtr(s) PROVE SyncReturn(t)
  BY <1>10 DEF AssignPtr
<1>11. ASSUME NEW s \in Thread, WriteUnlock(s) PROVE SyncReturn(t)
  BY <1>11 DEF WriteUnlock
<1>12. ASSUME NEW s \in Thread, CallLoad(s) PROVE SyncReturn(t)
  BY <1>12 DEF CallLoad, Goto, LoadVersion
<1>13. ASSUME NEW s \in Thread, CallAdd(s) PROVE SyncReturn(t)
  BY <1>13 DEF CallAdd, Goto
<1>14. ASSUME NEW s \in Thread, TimerExpire(s) PROVE SyncReturn(t)
  BY <1>14 DEF TimerExpire
<1>15. ASSUME NEW s \in Syncer, SyncStart(s) PROVE SyncReturn(t)
  BY <1>15 DEF SyncStart, Goto
<1>16. ASSUME NEW s \in Syncer, SyncRetry(s) PROVE SyncReturn(t)
  BY <1>16 DEF SyncRetry, Goto
<1>17. ASSUME NEW s \in Syncer, SyncReturn(s) PROVE SyncReturn(t)
  BY <1>17 DEF SyncReturn, Goto, ForgetScan
<1>18. ASSUME NEW s \in Syncer, BarrierLoad(s) PROVE SyncReturn(t)
  BY <1>18 DEF BarrierLoad, Goto
<1>19. ASSUME NEW s \in Syncer, BarrierReturn(s) PROVE SyncReturn(t)
  BY <1>19 DEF BarrierReturn, Goto
<1>20. ASSUME NEW q \in Scanner, ScanStart(q) PROVE SyncReturn(t)
  BY <1>20 DEF ScanStart, Goto
<1>21. ASSUME NEW q \in Scanner, ScanLock(q) PROVE SyncReturn(t)
  BY <1>21 DEF ScanLock, Goto
<1>22. ASSUME NEW q \in Scanner, ScanRead(q) PROVE SyncReturn(t)
  BY <1>22 DEF ScanRead
<1>23. ASSUME NEW q \in Scanner, ScanIdle(q) PROVE SyncReturn(t)
  BY <1>23 DEF ScanIdle, Visited, Visit, Seen, SeenCounter, SeenVersion
<1>24. ASSUME NEW q \in Scanner, ScanActive(q) PROVE SyncReturn(t)
  BY <1>24 DEF ScanActive, Visited, Visit, Seen, SeenCounter, SeenVersion
<1>25. ASSUME NEW q \in Scanner, ScanThreadsDone(q) PROVE SyncReturn(t)
  BY <1>25 DEF ScanThreadsDone, Goto
<1>26. ASSUME NEW q \in Scanner, ScanHung(q) PROVE SyncReturn(t)
  BY <1>26 DEF ScanHung, Visited, Visit, Seen, SeenCounter, SeenVersion
<1>27. ASSUME NEW q \in Scanner, ScanUnlock(q) PROVE SyncReturn(t)
  BY <1>27 DEF ScanUnlock, Goto
<1>28. ASSUME WorkerSplice PROVE SyncReturn(t)
  BY <1>28 DEF WorkerSplice, Splice, Goto
<1>29. ASSUME WorkerSpliceHead PROVE SyncReturn(t)
  BY <1>29 DEF WorkerSpliceHead, Splice, Goto
<1>30. ASSUME NEW k \in Kind, WorkerRun(k) PROVE SyncReturn(t)
  BY <1>30 DEF WorkerRun, Ready
<1>31. ASSUME WorkerRunDone PROVE SyncReturn(t)
  BY <1>31 DEF WorkerRunDone, Goto, ForgetScan
<1>32. ASSUME WorkerZero PROVE SyncReturn(t)
  BY <1>32 DEF WorkerZero, LoadVersion, Goto
<1>33. ASSUME WorkerBumpLoad PROVE SyncReturn(t)
  BY <1>33 DEF WorkerBumpLoad, Goto, LoadVersion
<1>34. ASSUME WorkerBumpStore PROVE SyncReturn(t)
  BY <1>34 DEF WorkerBumpStore, Goto, StoreBump
<1>35. ASSUME WorkerSkipBump PROVE SyncReturn(t)
  BY <1>35 DEF WorkerSkipBump, Goto
<1>36. ASSUME WorkerZeroStore PROVE SyncReturn(t)
  BY <1>36 DEF WorkerZeroStore, StoreProcessed, Goto
<1>37. ASSUME WorkerIdle PROVE SyncReturn(t)
  BY <1>37 DEF WorkerIdle, LoadVersion, Goto
<1>38. ASSUME WorkerIdleStore PROVE SyncReturn(t)
  BY <1>38 DEF WorkerIdleStore, StoreProcessed, Goto
<1>39. CASE UNCHANGED vars
  BY <1>39 DEF vars
<1> QED BY <1>1, <1>2, <1>3, <1>4, <1>5, <1>6, <1>7, <1>8, <1>9, <1>10, <1>11, <1>12, <1>13,
     <1>14, <1>15, <1>16, <1>17, <1>18, <1>19, <1>20, <1>21, <1>22, <1>23, <1>24, <1>25, <1>26,
     <1>27, <1>28, <1>29, <1>30, <1>31, <1>32, <1>33, <1>34, <1>35, <1>36, <1>37, <1>38, <1>39
  DEF Next, ReaderStep, UpdaterStep, SyncStep, ScanStep, WorkerStep


\* At that return every section the call waits for belongs to an exempt thread.
LEMMA SettledAtReturn ==
  ASSUME TypeOK, CoverInv, NEW t \in Syncer, SyncReturn(t)
  PROVE  pre[t] \subseteq hungThreads
<1> SUFFICES ASSUME NEW s \in pre[t] PROVE s \in hungThreads
  OBVIOUS
<1>1. t \in Scanner /\ t # Worker /\ s \in Thread
  BY ThreadAssumption DEF Scanner, TypeOK
<1>2. Settled(t, s, target[t])
  BY <1>1 DEF SyncReturn, Goto, CoverInv, Waits, Sought
<1>3. ~InRange(t, target[t])
  BY DEF SyncReturn, Found, Lookup, InRange
<1> QED BY <1>2, <1>3 DEF Settled, Exempt

\* Until a version++ takes the version back, lrcu_synchronize (lines 555-583)
\* outlives every section open at the call, whatever the empty-tree search finds,
\* hung threads excepted.
THEOREM Waiting == Spec => SyncWaits
<1>1. IndInv /\ [Next]_vars => \A t \in Syncer : pc[t] = "y_find" /\ pc'[t] \in {"idle", "b_load"}
                                                   => setBack \/ pre[t] \subseteq hungThreads
  BY ReturnSteps, SettledAtReturn DEF IndInv, VersionsHold
<1> QED BY <1>1, Invariant, PTL DEF Spec, SyncWaits
=============================================================================
