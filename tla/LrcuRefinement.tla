--------------------------- MODULE LrcuRefinement ---------------------------
(***************************************************************************)
(* Lrcu implements Rcu, for every number of threads and objects: initial    *)
(* states map to initial states, and each step maps to one abstract step or *)
(* to none, the step that takes the version back to the one that makes the  *)
(* promise void.  What Rcu promises its readers then holds of the namespace *)
(* too (Safe).                                                              *)
(***************************************************************************)
EXTENDS LrcuProofs

\* A step that keeps the promise.
Kept == Abstract!Keep \/ UNCHANGED Abstract!promised

\* What Abstract substitutes for inSection, calling and retired.
Section == {t \in Thread : InSection(t)}
Calling == {t \in Thread : pc[t] \in SyncPc}
Retired == {c.obj : c \in Queued} \cup {old[t] : t \in {s \in Thread : pc[s] = "call_add"}}

\* What the mapping reads, and what it reads of where a thread is.
Mapped == <<ptr, fresh, old, held, freed, hungThreads, pre, due, freeList, workList>>
Stays(t) == /\ InSection(t)' <=> InSection(t)
            /\ pc'[t] \in SyncPc <=> pc[t] \in SyncPc
            /\ pc'[t] = "call_add" <=> pc[t] = "call_add"

\* An object is handed over by lrcu_call and stays so until its callback runs.
LEMMA StaysRetired ==
  ASSUME Queued' = Queued,
         \A t \in Thread : (pc'[t] = "call_add" <=> pc[t] = "call_add"),
         \A t \in Thread : pc[t] = "call_add" => old'[t] = old[t]
  PROVE  Retired' = Retired
<1>1. {s \in Thread : pc[s] = "call_add"}' = {s \in Thread : pc[s] = "call_add"}
  OBVIOUS
<1>2. {old[t] : t \in {s \in Thread : pc[s] = "call_add"}}'
      = {old[t] : t \in {s \in Thread : pc[s] = "call_add"}}
  BY <1>1
<1> QED BY <1>2 DEF Retired

\* A step that leaves the mapped variables alone is an abstract stutter.
LEMMA Stutter ==
  ASSUME UNCHANGED Mapped, \A t \in Thread : Stays(t)
  PROVE  Kept
<1>1. Retired' = Retired
  BY StaysRetired DEF Mapped, Stays, Queued, Listed
<1>2. Section' = Section /\ Calling' = Calling
  BY DEF Section, Calling, Stays
<1> QED BY <1>1, <1>2 DEF Mapped, Kept, Abstract!promised, Section, Calling, Retired

\* Each step that does not take the version back keeps the promise.
LEMMA StepKeeps == IndInv /\ IndInv' /\ ~setBack /\ ~setBack' /\ [Next]_vars => Kept
<1> SUFFICES ASSUME IndInv, IndInv', ~setBack, ~setBack', [Next]_vars PROVE Kept
  OBVIOUS
<1>a. TypeOK /\ ObjInv /\ ReaderInv /\ CoverInv /\ FreedInv /\ FreedInv'
  BY DEF IndInv, VersionsHold
<1> USE <1>a, ThreadAssumption DEF TypeOK, InSection, SyncPc, ScanPc, nsVars, readVars, hungVars, updVars, listVars, scanVars, syncVars, Proc, Scanner
<1>1. ASSUME NEW s \in Thread, ReadLock(s) PROVE Kept
  <2>1. UNCHANGED Mapped
    BY <1>1 DEF Mapped, ReadLock, Goto
  <2>2. \A t \in Thread : Stays(t)
    BY <1>1 DEF Stays, ReadLock, Goto
  <2> QED BY <2>1, <2>2, Stutter
<1>2. ASSUME NEW s \in Thread, ReadLockLoad(s) PROVE Kept
  <2>1. UNCHANGED Mapped
    BY <1>2 DEF Mapped, ReadLockLoad, Goto, LoadVersion
  <2>2. \A t \in Thread : Stays(t)
    BY <1>2 DEF Stays, ReadLockLoad, Goto, LoadVersion
  <2> QED BY <2>1, <2>2, Stutter
<1>3. ASSUME NEW s \in Thread, ReadLockStore(s) PROVE Kept
  <2>0. counter[s] > 0
    BY <1>3 DEF ReadLockStore, Goto, ReaderInv
  <2>1. \A t \in Thread : InSection(t)' <=> InSection(t) \/ t = s
    BY <1>3, <2>0 DEF ReadLockStore, Goto
  <2>2. \A t \in Thread : pc'[t] \in SyncPc <=> pc[t] \in SyncPc
    BY <1>3 DEF ReadLockStore, Goto
  <2>3. Section' = Section \cup {s} /\ Calling' = Calling
    BY <1>3, <2>1, <2>2 DEF Section, Calling
  <2>4. Retired' = Retired
    BY <1>3, StaysRetired DEF ReadLockStore, Goto, Queued, Listed
  <2>5. s \notin Section
    BY <1>3 DEF ReadLockStore, Goto, Section
  <2>6. Abstract!Enter(s)
    BY <1>3, <2>3, <2>4, <2>5 DEF ReadLockStore, Abstract!Enter, Section, Calling, Retired
  <2> QED BY <2>6 DEF Kept, Abstract!Keep
<1>4. ASSUME NEW s \in Thread, Dereference(s) PROVE Kept
  <2>1. \A t \in Thread : InSection(t)' <=> InSection(t)
    BY <1>4 DEF Dereference
  <2>2. \A t \in Thread : pc'[t] \in SyncPc <=> pc[t] \in SyncPc
    BY <1>4 DEF Dereference
  <2>3. Section' = Section /\ Calling' = Calling
    BY <1>4, <2>1, <2>2 DEF Section, Calling
  <2>4. Retired' = Retired
    BY <1>4, StaysRetired DEF Dereference, Queued, Listed
  <2>5. s \in Section
    BY <1>4 DEF Dereference, Section
  <2>6. Abstract!Take(s)
    BY <1>4, <2>3, <2>4, <2>5 DEF Dereference, Abstract!Take, Section, Calling, Retired
  <2> QED BY <2>6 DEF Kept, Abstract!Keep
<1>5. ASSUME NEW s \in Thread, ReadUnlock(s) PROVE Kept
  <2>1. CASE counter[s] = 1
    <3>1. \A t \in Thread : InSection(t)' <=> InSection(t) /\ t # s
      BY <1>5, <2>1 DEF ReadUnlock
    <3>2. Section' = Section \ {s} /\ Calling' = Calling /\ s \in Section
      BY <1>5, <2>1, <3>1 DEF Section, Calling, ReadUnlock
    <3>3. /\ pre' = [t \in Thread |-> pre[t] \ {s}]
          /\ due' = [o \in Obj |-> due[o] \ {s}] /\ Retired' = Retired
      BY <1>5, <2>1, StaysRetired DEF ReadUnlock, Queued, Listed
    <3>4. Abstract!Leave(s)
      BY <1>5, <2>1, <3>2, <3>3 DEF ReadUnlock, Abstract!Leave, Section, Calling, Retired
    <3> QED BY <3>4 DEF Kept, Abstract!Keep
  <2>2. CASE counter[s] # 1
    <3>1. UNCHANGED Mapped
      BY <1>5, <2>2 DEF Mapped, ReadUnlock
    <3>2. \A t \in Thread : Stays(t)
      BY <1>5, <2>2 DEF Stays, ReadUnlock
    <3> QED BY <3>1, <3>2, Stutter
  <2> QED BY <2>1, <2>2
<1>6. ASSUME NEW s \in Thread, WriteLock(s) PROVE Kept
  <2>1. UNCHANGED Mapped
    BY <1>6 DEF Mapped, WriteLock, Goto, LoadVersion
  <2>2. \A t \in Thread : Stays(t)
    BY <1>6 DEF Stays, WriteLock, Goto, LoadVersion
  <2> QED BY <2>1, <2>2, Stutter
<1>7. ASSUME NEW s \in Thread, WriteLockStore(s) PROVE Kept
  <2>1. UNCHANGED Mapped
    BY <1>7 DEF Mapped, WriteLockStore, Goto, StoreBump
  <2>2. \A t \in Thread : Stays(t)
    BY <1>7 DEF Stays, WriteLockStore, Goto, StoreBump
  <2> QED BY <2>1, <2>2, Stutter
<1>8. ASSUME NEW s \in Thread, AssignLoad(s) PROVE Kept
  <2>1. UNCHANGED Mapped
    BY <1>8 DEF Mapped, AssignLoad, Goto, LoadVersion
  <2>2. \A t \in Thread : Stays(t)
    BY <1>8 DEF Stays, AssignLoad, Goto, LoadVersion
  <2> QED BY <2>1, <2>2, Stutter
<1>9. ASSUME NEW s \in Thread, AssignStore(s) PROVE Kept
  <2>1. UNCHANGED Mapped
    BY <1>9 DEF Mapped, AssignStore, Goto, StoreBump
  <2>2. \A t \in Thread : Stays(t)
    BY <1>9 DEF Stays, AssignStore, Goto, StoreBump
  <2> QED BY <2>1, <2>2, Stutter
<1>10. ASSUME NEW s \in Thread, AssignPtr(s) PROVE Kept
  <2>1. \A t \in Thread : InSection(t)' <=> InSection(t)
    BY <1>10 DEF AssignPtr
  <2>2. \A t \in Thread : pc'[t] \in SyncPc <=> pc[t] \in SyncPc
    BY <1>10 DEF AssignPtr
  <2>3. Section' = Section /\ Calling' = Calling
    BY <1>10, <2>1, <2>2 DEF Section, Calling
  <2>4. Retired' = Retired
    BY <1>10, StaysRetired DEF AssignPtr, Queued, Listed
  <2>5. Abstract!Publish
    BY <1>10, <2>3, <2>4 DEF AssignPtr, Abstract!Publish, Section, Calling, Retired
  <2> QED BY <2>5 DEF Kept, Abstract!Keep
<1>11. ASSUME NEW s \in Thread, WriteUnlock(s) PROVE Kept
  <2>1. UNCHANGED Mapped
    BY <1>11 DEF Mapped, WriteUnlock
  <2>2. \A t \in Thread : Stays(t)
    BY <1>11 DEF Stays, WriteUnlock
  <2> QED BY <2>1, <2>2, Stutter
<1>12. ASSUME NEW s \in Thread, CallLoad(s) PROVE Kept
  <2>1. PICK o \in Obj : o = old[s] /\ o \notin fresh \cup {ptr} \cup freed /\ \A c \in Queued : c.obj # o
    BY <1>12 DEF CallLoad, ObjInv
  <2>2. \A t \in Thread : pc[t] = "call_add" => old[t] # o
    BY <1>12, <2>1 DEF CallLoad, Goto, ObjInv
  <2>3. o \notin Retired
    BY <2>1, <2>2 DEF Retired
  <2>4. Retired' = Retired \cup {o}
    <3>1. Queued' = Queued /\ old' = old
      BY <1>12 DEF CallLoad, Queued, Listed
    <3>2. \A t \in Thread : pc'[t] = "call_add" <=> pc[t] = "call_add" \/ t = s
      BY <1>12 DEF CallLoad, Goto
    <3>3. {t \in Thread : pc[t] = "call_add"}' = {t \in Thread : pc[t] = "call_add"} \cup {s}
      BY <3>2
    <3> QED BY <2>1, <3>1, <3>3 DEF Retired
  <2>5. \A t \in Thread : (InSection(t)' <=> InSection(t)) /\ (pc'[t] \in SyncPc <=> pc[t] \in SyncPc)
    BY <1>12 DEF CallLoad, Goto
  <2>6. Section' = Section /\ Calling' = Calling
    BY <2>5 DEF Section, Calling
  <2>7. due' = [due EXCEPT ![o] = Section]
    BY <1>12, <2>1 DEF CallLoad, Section
  <2>8. Abstract!Retire(o)
    BY <1>12, <2>1, <2>3, <2>4, <2>6, <2>7 DEF CallLoad, Abstract!Retire, Section, Calling, Retired
  <2> QED BY <2>8 DEF Kept, Abstract!Keep
<1>13. ASSUME NEW s \in Thread, CallAdd(s) PROVE Kept
  <2> DEFINE new == [obj |-> old[s], ver |-> reg[s]]
  <2>1. PICK k \in Kind : freeList' = [freeList EXCEPT ![k] = @ \cup {new}]
    BY <1>13, BoundAssumption DEF CallAdd
  <2>2. Queued' = Queued \cup {new} /\ new.obj = old[s]
    BY <1>13, <2>1 DEF CallAdd, Queued, Listed, Kind
  <2>3. \A t \in Thread : pc[t] = "call_add" <=> pc'[t] = "call_add" \/ t = s
    BY <1>13 DEF CallAdd, Goto
  <2>4. \A t \in Thread : pc'[t] = "call_add" => t # s /\ old'[t] = old[t]
    BY <1>13 DEF CallAdd, Goto
  <2> HIDE DEF new
  <2>5. Retired' = Retired
    <3>1. \A x : x \in Retired' <=> \/ \E c \in Queued' : x = c.obj
                                   \/ \E t \in Thread : pc'[t] = "call_add" /\ x = old'[t]
      BY DEF Retired
    <3>2. \A x : x \in Retired <=> \/ \E c \in Queued : x = c.obj
                                  \/ \E t \in Thread : pc[t] = "call_add" /\ x = old[t]
      BY DEF Retired
    <3>3. \A x : (\E c \in Queued' : x = c.obj) <=> (\E c \in Queued : x = c.obj) \/ x = old[s]
      BY ONLY <2>2, Zenon
    <3>4. \A x : (\E t \in Thread : pc[t] = "call_add" /\ x = old[t])
                 <=> (\E t \in Thread : pc'[t] = "call_add" /\ x = old'[t]) \/ x = old[s]
      BY <2>3, <2>4
    <3>5. \A x : x \in Retired' <=> x \in Retired
      BY ONLY <3>1, <3>2, <3>3, <3>4, Zenon
    <3> QED BY <3>5
  <2>6. \A t \in Thread : (InSection(t)' <=> InSection(t)) /\ (pc'[t] \in SyncPc <=> pc[t] \in SyncPc)
    BY <1>13 DEF CallAdd, Goto
  <2>7. Section' = Section /\ Calling' = Calling
    BY <2>6 DEF Section, Calling
  <2> QED BY <1>13, <2>5, <2>7 DEF CallAdd, Kept, Abstract!promised, Section, Calling, Retired
<1>14. ASSUME NEW s \in Thread, TimerExpire(s) PROVE Kept
  <2>1. UNCHANGED Mapped
    BY <1>14 DEF Mapped, TimerExpire
  <2>2. \A t \in Thread : Stays(t)
    BY <1>14 DEF Stays, TimerExpire
  <2> QED BY <2>1, <2>2, Stutter
<1>15. ASSUME NEW s \in Syncer, SyncStart(s) PROVE Kept
  <2>1. \A t \in Thread : InSection(t)' <=> InSection(t)
    BY <1>15 DEF SyncStart, Goto
  <2>2. \A t \in Thread : pc'[t] \in SyncPc <=> pc[t] \in SyncPc \/ t = s
    BY <1>15 DEF SyncStart, Goto
  <2>3. Section' = Section /\ Calling' = Calling \cup {s}
    BY <1>15, <2>1, <2>2 DEF Section, Calling
  <2>4. Retired' = Retired
    BY <1>15, StaysRetired DEF SyncStart, Goto, Queued, Listed
  <2>5. s \notin Calling /\ pre' = [pre EXCEPT ![s] = Section]
    BY <1>15 DEF SyncStart, Goto, Calling, Section
  <2>6. Abstract!WaitBegin(s)
    BY <1>15, <2>3, <2>4, <2>5 DEF SyncStart, Abstract!WaitBegin, Section, Calling, Retired
  <2> QED BY <2>6 DEF Kept, Abstract!Keep
<1>16. ASSUME NEW s \in Syncer, SyncRetry(s) PROVE Kept
  <2>1. UNCHANGED Mapped
    BY <1>16 DEF Mapped, SyncRetry, Goto
  <2>2. \A t \in Thread : Stays(t)
    BY <1>16 DEF Stays, SyncRetry, Goto
  <2> QED BY <2>1, <2>2, Stutter
<1>17. ASSUME NEW s \in Syncer, SyncReturn(s) PROVE Kept
  <2>1. \A t \in Thread : InSection(t)' <=> InSection(t)
    BY <1>17 DEF SyncReturn, Goto, ForgetScan
  <2>2. \A t \in Thread : pc'[t] \in SyncPc <=> pc[t] \in SyncPc /\ t # s
    BY <1>17 DEF SyncReturn, Goto, ForgetScan
  <2>3. Section' = Section /\ Calling' = Calling \ {s}
    BY <1>17, <2>1, <2>2 DEF Section, Calling
  <2>4. Retired' = Retired
    BY <1>17, StaysRetired DEF SyncReturn, Goto, ForgetScan, Queued, Listed
  <2>5. s \in Calling /\ pre[s] \subseteq hungThreads
    BY <1>17, SettledAtReturn DEF SyncReturn, Goto, Calling
  <2>6. Abstract!WaitEnd(s)
    BY <1>17, <2>3, <2>4, <2>5 DEF SyncReturn, Abstract!WaitEnd, Section, Calling, Retired
  <2> QED BY <2>6 DEF Kept, Abstract!Keep
<1>18. ASSUME NEW s \in Syncer, BarrierLoad(s) PROVE Kept
  <2>1. UNCHANGED Mapped
    BY <1>18 DEF Mapped, BarrierLoad, Goto
  <2>2. \A t \in Thread : Stays(t)
    BY <1>18 DEF Stays, BarrierLoad, Goto
  <2> QED BY <2>1, <2>2, Stutter
<1>19. ASSUME NEW s \in Syncer, BarrierReturn(s) PROVE Kept
  <2>1. UNCHANGED Mapped
    BY <1>19 DEF Mapped, BarrierReturn, Goto
  <2>2. \A t \in Thread : Stays(t)
    BY <1>19 DEF Stays, BarrierReturn, Goto
  <2> QED BY <2>1, <2>2, Stutter
<1>20. ASSUME NEW q \in Scanner, ScanStart(q) PROVE Kept
  <2>1. UNCHANGED Mapped
    BY <1>20 DEF Mapped, ScanStart, Goto
  <2>2. \A t \in Thread : Stays(t)
    BY <1>20 DEF Stays, ScanStart, Goto
  <2> QED BY <2>1, <2>2, Stutter
<1>21. ASSUME NEW q \in Scanner, ScanLock(q) PROVE Kept
  <2>1. UNCHANGED Mapped
    BY <1>21 DEF Mapped, ScanLock, Goto
  <2>2. \A t \in Thread : Stays(t)
    BY <1>21 DEF Stays, ScanLock, Goto
  <2> QED BY <2>1, <2>2, Stutter
<1>22. ASSUME NEW q \in Scanner, ScanRead(q) PROVE Kept
  <2>1. UNCHANGED Mapped
    BY <1>22 DEF Mapped, ScanRead
  <2>2. \A t \in Thread : Stays(t)
    BY <1>22 DEF Stays, ScanRead
  <2> QED BY <2>1, <2>2, Stutter
<1>23. ASSUME NEW q \in Scanner, ScanIdle(q) PROVE Kept
  <2>1. UNCHANGED Mapped
    BY <1>23 DEF Mapped, ScanIdle, Visited, Visit, Seen, SeenCounter, SeenVersion
  <2>2. \A t \in Thread : Stays(t)
    BY <1>23 DEF Stays, ScanIdle, Visited, Visit, Seen, SeenCounter, SeenVersion
  <2> QED BY <2>1, <2>2, Stutter
<1>24. ASSUME NEW q \in Scanner, ScanActive(q) PROVE Kept
  <2>1. PICK t \in Thread : t = Seen
    BY <1>24 DEF ScanActive, Visit, Seen
  <2>2. /\ UNCHANGED <<ptr, fresh, old, held, freed, pre, due, freeList, workList, pc, counter>>
        /\ hungThreads' = hungThreads \/ hungThreads' = hungThreads \cup {t}
    BY <1>24, <2>1 DEF ScanActive, Visited
  <2>3. CASE hungThreads' = hungThreads
    BY <2>2, <2>3, Stutter DEF Mapped, Stays
  <2>4. CASE hungThreads' = hungThreads \cup {t}
    <3>1. Retired' = Retired /\ Section' = Section /\ Calling' = Calling
      BY <2>2, StaysRetired DEF Queued, Listed, Section, Calling
    <3>2. Abstract!Stall(t)
      BY <2>2, <2>4, <3>1 DEF Abstract!Stall, Section, Calling, Retired
    <3> QED BY <3>2 DEF Kept, Abstract!Keep
  <2> QED BY <2>2, <2>3, <2>4
<1>25. ASSUME NEW q \in Scanner, ScanThreadsDone(q) PROVE Kept
  <2>1. UNCHANGED Mapped
    BY <1>25 DEF Mapped, ScanThreadsDone, Goto
  <2>2. \A t \in Thread : Stays(t)
    BY <1>25 DEF Stays, ScanThreadsDone, Goto
  <2> QED BY <2>1, <2>2, Stutter
<1>26. ASSUME NEW q \in Scanner, ScanHung(q) PROVE Kept
  <2>1. PICK t \in Thread : t = Seen
    BY <1>26 DEF ScanHung, Visit, Seen
  <2>2. /\ UNCHANGED <<ptr, fresh, old, held, freed, pre, due, freeList, workList, pc, counter>>
        /\ hungThreads' = hungThreads \/ hungThreads' = hungThreads \ {t}
    BY <1>26, <2>1 DEF ScanHung, Visited
  <2>3. CASE hungThreads' = hungThreads
    BY <2>2, <2>3, Stutter DEF Mapped, Stays
  <2>4. CASE hungThreads' = hungThreads \ {t}
    <3>1. \A o \in freed : t \notin due[o]
      BY <2>2, <2>4 DEF FreedInv, Exempt
    <3>2. Retired' = Retired /\ Section' = Section /\ Calling' = Calling
      BY <2>2, StaysRetired DEF Queued, Listed, Section, Calling
    <3>3. Abstract!Recover(t)
      BY <2>2, <2>4, <3>1, <3>2 DEF Abstract!Recover, Section, Calling, Retired
    <3> QED BY <3>3 DEF Kept, Abstract!Keep
  <2> QED BY <2>2, <2>3, <2>4
<1>27. ASSUME NEW q \in Scanner, ScanUnlock(q) PROVE Kept
  <2>1. UNCHANGED Mapped
    BY <1>27 DEF Mapped, ScanUnlock, Goto
  <2>2. \A t \in Thread : Stays(t)
    BY <1>27 DEF Stays, ScanUnlock, Goto
  <2> QED BY <2>1, <2>2, Stutter
<1>28. ASSUME WorkerSplice PROVE Kept
  <2>1. UNCHANGED <<ptr, fresh, old, held, freed, hungThreads, pre, due, counter>> /\ Queued' = Queued
    BY <1>28 DEF WorkerSplice, Splice, Goto, Queued, Listed, Kind
  <2>2. \A t \in Thread : pc'[t] = pc[t]
    BY <1>28 DEF WorkerSplice, Goto
  <2>3. Retired' = Retired /\ Section' = Section /\ Calling' = Calling
    BY <2>1, <2>2, StaysRetired DEF Section, Calling
  <2> QED BY <2>1, <2>3 DEF Kept, Abstract!promised, Section, Calling, Retired
<1>29. ASSUME WorkerSpliceHead PROVE Kept
  <2>1. UNCHANGED <<ptr, fresh, old, held, freed, hungThreads, pre, due, counter>> /\ Queued' = Queued
    BY <1>29 DEF WorkerSpliceHead, Splice, Goto, Queued, Listed, Kind
  <2>2. \A t \in Thread : pc'[t] = pc[t]
    BY <1>29 DEF WorkerSpliceHead, Goto
  <2>3. Retired' = Retired /\ Section' = Section /\ Calling' = Calling
    BY <2>1, <2>2, StaysRetired DEF Section, Calling
  <2> QED BY <2>1, <2>3 DEF Kept, Abstract!promised, Section, Calling, Retired
<1>30. ASSUME NEW k \in Kind, WorkerRun(k) PROVE Kept
  <2>1. PICK c \in Ready(k) : /\ workList' = [workList EXCEPT ![k] = @ \ {c}]
                              /\ freed' = freed \cup {c.obj}
    BY <1>30 DEF WorkerRun
  <2>2. /\ UNCHANGED <<ptr, fresh, old, held, hungThreads, pre, due, counter, pc, freeList>>
        /\ c \in workList[k] /\ c \in Queued /\ c.obj \in Obj
    BY <1>30 DEF WorkerRun, Ready, Queued, Listed, Kind, Callback
  <2>3. Queued' = Queued \ {c}
    BY <2>1, <2>2 DEF ObjInv, CalledOnce, RunOnce, Queued, Listed, Kind
  <2>4. {d.obj : d \in Queued}' = {d.obj : d \in Queued} \ {c.obj}
    BY <2>2, <2>3 DEF ObjInv, CalledOnce, RunOnce
  <2>5. \A t \in Thread : pc[t] = "call_add" => old[t] # c.obj
    BY <2>2 DEF ObjInv
  <2>6. Retired' = Retired \ {c.obj} /\ c.obj \in Retired
    <3> DEFINE taken == {old[t] : t \in {s \in Thread : pc[s] = "call_add"}}
    <3>1. taken' = taken
      BY <2>2
    <3>2. c.obj \notin taken
      BY <2>5
    <3>3. Retired = {d.obj : d \in Queued} \cup taken /\ c.obj \in {d.obj : d \in Queued}
      BY <2>2 DEF Retired
    <3>4. Retired' = {d.obj : d \in Queued}' \cup taken'
      BY DEF Retired
    <3> HIDE DEF taken
    <3> QED BY ONLY <2>4, <3>1, <3>2, <3>3, <3>4
  <2>7. due[c.obj] \subseteq hungThreads
    BY <2>1, <2>2 DEF FreedInv, Exempt
  <2>8. Section' = Section /\ Calling' = Calling
    BY <2>2 DEF Section, Calling
  <2>9. Abstract!Reclaim(c.obj)
    BY <2>1, <2>2, <2>6, <2>7, <2>8 DEF Abstract!Reclaim, Section, Calling, Retired
  <2> QED BY <2>2, <2>9 DEF Kept, Abstract!Keep
<1>31. ASSUME WorkerRunDone PROVE Kept
  <2>1. UNCHANGED Mapped
    BY <1>31 DEF Mapped, WorkerRunDone, Goto, ForgetScan
  <2>2. \A t \in Thread : Stays(t)
    BY <1>31 DEF Stays, WorkerRunDone, Goto, ForgetScan
  <2> QED BY <2>1, <2>2, Stutter
<1>32. ASSUME WorkerZero PROVE Kept
  <2>1. UNCHANGED Mapped
    BY <1>32 DEF Mapped, WorkerZero, LoadVersion, Goto
  <2>2. \A t \in Thread : Stays(t)
    BY <1>32 DEF Stays, WorkerZero, LoadVersion, Goto
  <2> QED BY <2>1, <2>2, Stutter
<1>33. ASSUME WorkerBumpLoad PROVE Kept
  <2>1. UNCHANGED Mapped
    BY <1>33 DEF Mapped, WorkerBumpLoad, Goto, LoadVersion
  <2>2. \A t \in Thread : Stays(t)
    BY <1>33 DEF Stays, WorkerBumpLoad, Goto, LoadVersion
  <2> QED BY <2>1, <2>2, Stutter
<1>34. ASSUME WorkerBumpStore PROVE Kept
  <2>1. UNCHANGED Mapped
    BY <1>34 DEF Mapped, WorkerBumpStore, Goto, StoreBump
  <2>2. \A t \in Thread : Stays(t)
    BY <1>34 DEF Stays, WorkerBumpStore, Goto, StoreBump
  <2> QED BY <2>1, <2>2, Stutter
<1>35. ASSUME WorkerSkipBump PROVE Kept
  <2>1. UNCHANGED Mapped
    BY <1>35 DEF Mapped, WorkerSkipBump, Goto
  <2>2. \A t \in Thread : Stays(t)
    BY <1>35 DEF Stays, WorkerSkipBump, Goto
  <2> QED BY <2>1, <2>2, Stutter
<1>36. ASSUME WorkerZeroStore PROVE Kept
  <2>1. UNCHANGED Mapped
    BY <1>36 DEF Mapped, WorkerZeroStore, StoreProcessed, Goto
  <2>2. \A t \in Thread : Stays(t)
    BY <1>36 DEF Stays, WorkerZeroStore, StoreProcessed, Goto
  <2> QED BY <2>1, <2>2, Stutter
<1>37. ASSUME WorkerIdle PROVE Kept
  <2>1. UNCHANGED Mapped
    BY <1>37 DEF Mapped, WorkerIdle, LoadVersion, Goto
  <2>2. \A t \in Thread : Stays(t)
    BY <1>37 DEF Stays, WorkerIdle, LoadVersion, Goto
  <2> QED BY <2>1, <2>2, Stutter
<1>38. ASSUME WorkerIdleStore PROVE Kept
  <2>1. UNCHANGED Mapped
    BY <1>38 DEF Mapped, WorkerIdleStore, StoreProcessed, Goto
  <2>2. \A t \in Thread : Stays(t)
    BY <1>38 DEF Stays, WorkerIdleStore, StoreProcessed, Goto
  <2> QED BY <2>1, <2>2, Stutter
<1>39. CASE UNCHANGED vars
  <2>1. UNCHANGED Mapped
    BY <1>39 DEF vars, Mapped
  <2>2. \A t \in Thread : Stays(t)
    BY <1>39 DEF vars, Stays
  <2> QED BY <2>1, <2>2, Stutter
<1> QED BY <1>1, <1>2, <1>3, <1>4, <1>5, <1>6, <1>7, <1>8, <1>9, <1>10, <1>11, <1>12, <1>13,
     <1>14, <1>15, <1>16, <1>17, <1>18, <1>19, <1>20, <1>21, <1>22, <1>23, <1>24, <1>25, <1>26,
     <1>27, <1>28, <1>29, <1>30, <1>31, <1>32, <1>33, <1>34, <1>35, <1>36, <1>37, <1>38, <1>39
  DEF Next, ReaderStep, UpdaterStep, SyncStep, ScanStep, WorkerStep

\* Each step of the namespace is a step of Rcu.
LEMMA StepRefines == IndInv /\ IndInv' /\ [Next]_vars => [Abstract!Next]_(Abstract!vars)
<1> SUFFICES ASSUME IndInv, IndInv', [Next]_vars PROVE [Abstract!Next]_(Abstract!vars)
  OBVIOUS
<1>1. setBack \in BOOLEAN /\ setBack' \in BOOLEAN
  BY DEF IndInv, TypeOK
<1>2. CASE setBack'
  BY <1>1, <1>2 DEF Abstract!Next, Abstract!Void
<1>3. CASE ~setBack'
  <2>1. ~setBack /\ setBack' = setBack
    BY <1>1, <1>3, SmallSteps DEF IndInv
  <2>2. Kept
    BY <1>3, <2>1, StepKeeps
  <2> QED BY <2>1, <2>2 DEF Kept, Abstract!Next, Abstract!vars
<1> QED BY <1>2, <1>3

\* A namespace of light-rcu (lines 103-613) keeps the promises of Rcu.
THEOREM Implements == Spec => Refines
<1>1. Init => Abstract!Init
  <2> SUFFICES ASSUME Init PROVE Abstract!Init
    OBVIOUS
  <2>1. Queued = {}
    BY DEF Init, Queued, Listed, Kind
  <2>2. Section = {} /\ Calling = {} /\ \A t \in Thread : pc[t] # "call_add"
    BY ThreadAssumption DEF Init, Section, Calling, InSection, SyncPc, ScanPc, Proc
  <2>3. Retired = {}
    BY <2>1, <2>2 DEF Retired
  <2> QED BY <2>2, <2>3 DEF Init, Abstract!Init, Section, Calling, Retired
<1>2. IndInv /\ IndInv' /\ [Next]_vars => [Abstract!Next]_(Abstract!vars)
  BY StepRefines
<1> QED BY <1>1, <1>2, Invariant, PTL DEF Spec, Refines, Abstract!Spec

\* Until a version++ takes the version back, no destructor runs on an object that
\* a thread still uses, unless that thread has been declared hung (lines 432-551
\* against 82-182): what it uses it took before lrcu_call, in a section that
\* lrcu_call makes the destructor outlive.
THEOREM Safe == Spec => []SafeUntilSetBack
<1>1. Abstract!Spec => [](setBack \/ Abstract!NoUseAfterFree)
  BY Abstract!NeverUsedAfterFree, ObjAssumption
<1>2. setBack \/ Abstract!NoUseAfterFree => SafeUntilSetBack
  BY DEF Abstract!NoUseAfterFree, NoUseAfterFree, SafeUntilSetBack
<1> QED BY <1>1, <1>2, Implements, PTL DEF Refines
=============================================================================
