------------------------- MODULE RegistrationProofs -------------------------
(***************************************************************************)
(* RegInv is an invariant of Registration, for any threads and namespaces.  *)
(***************************************************************************)
EXTENDS RegistrationInv, TLAPS

\* LRCU_NS_DEFAULT.
LEMMA ZeroIsNs == 0 \in Ns
  BY NsAssumption DEF Ns

\* Who is who.
LEMMA Procs ==
  /\ Main \in Proc /\ Worker \in Proc /\ Worker \in Record /\ Main # Worker /\ Main \notin Record
  /\ \A r \in Record : r \in Proc /\ r # Main /\ r # NoProc /\ (r \in Thread \/ r = Worker)
  /\ \A t \in Thread : t \in Proc /\ t \in Record /\ t # Main /\ t # Worker
  /\ Main # NoProc /\ Worker \notin Thread /\ Main \notin Thread
  BY ProcAssumption DEF Proc, Record

\* Loop indexes.
LEMMA Indexes ==
  /\ 0 \in 0 .. NsMax /\ 1 \in 0 .. NsMax /\ NsMax \in Nat
  /\ \A i \in Ns : i \in 0 .. NsMax /\ i + 1 \in 0 .. NsMax /\ i \in Nat /\ i < NsMax
  /\ \A i \in 0 .. NsMax : i \in Nat /\ (i < NsMax => i \in Ns /\ i + 1 \in 0 .. NsMax)
  BY NsAssumption DEF Ns

\* A list of counts with one count changed.
LEMMA ListUpdate ==
  ASSUME NEW f \in [Ns -> [Record -> Nat]], NEW i \in Ns, NEW r \in Record, NEW n \in Nat
  PROVE  /\ [f EXCEPT ![i][r] = n] \in [Ns -> [Record -> Nat]]
         /\ \A j \in Ns, q \in Record :
                [f EXCEPT ![i][r] = n][j][q] = IF j = i /\ q = r THEN n ELSE f[j][q]
<1> DEFINE row == [f[i] EXCEPT ![r] = n]
<1>1. row \in [Record -> Nat] /\ \A q \in Record : row[q] = IF q = r THEN n ELSE f[i][q]
  OBVIOUS
<1>2. [f EXCEPT ![i][r] = n] = [f EXCEPT ![i] = row]
  OBVIOUS
<1> HIDE DEF row
<1>3. /\ [f EXCEPT ![i] = row] \in [Ns -> [Record -> Nat]]
      /\ \A j \in Ns : [f EXCEPT ![i] = row][j] = IF j = i THEN row ELSE f[j]
  BY <1>1
<1> QED BY <1>1, <1>2, <1>3

\* What an insertion and a removal do to ns->threads.
LEMMA AddKeeps ==
  ASSUME RegTypeOK, NEW i \in Ns, NEW r \in Record, AddEntry(i, r)
  PROVE  /\ threads' \in [Ns -> [Record -> Nat]]
         /\ threads'[i][r] = threads[i][r] + 1
         /\ \A j \in Ns, q \in Record : j # i \/ q # r => threads'[j][q] = threads[j][q]
<1>1. threads \in [Ns -> [Record -> Nat]] /\ threads[i][r] + 1 \in Nat
  BY DEF RegTypeOK
<1>2. threads' = [threads EXCEPT ![i][r] = threads[i][r] + 1]
  BY DEF AddEntry
<1> QED BY <1>1, <1>2, ListUpdate

\* The same when an element is dropped.
LEMMA DropKeeps ==
  ASSUME RegTypeOK, NEW i \in Ns, NEW r \in Record, threads[i][r] > 0, DropEntry(i, r)
  PROVE  /\ threads' \in [Ns -> [Record -> Nat]]
         /\ threads'[i][r] = threads[i][r] - 1
         /\ \A j \in Ns, q \in Record : j # i \/ q # r => threads'[j][q] = threads[j][q]
<1>1. threads \in [Ns -> [Record -> Nat]] /\ threads[i][r] - 1 \in Nat
  <2>1. threads[i][r] \in Nat
    BY DEF RegTypeOK
  <2> QED BY <2>1 DEF RegTypeOK
<1>2. threads' = [threads EXCEPT ![i][r] = threads[i][r] - 1]
  BY DEF DropEntry
<1> QED BY <1>1, <1>2, ListUpdate

\* A scan moves the elements that point to a record between the two lists, and
\* leaves those of a thread outside its section in ns->threads.
LEMMA ScanKeeps ==
  ASSUME RegTypeOK, NEW i \in Ns, Scan(i)
  PROVE  /\ threads' \in [Ns -> [Record -> Nat]] /\ hung' \in [Ns -> [Record -> Nat]]
         /\ timed' \subseteq Record \X Ns /\ newer' \subseteq Record \X Ns
         /\ \A j \in Ns, r \in Record : threads'[j][r] + hung'[j][r] = threads[j][r] + hung[j][r]
         /\ \A j \in Ns, r \in Record : hung[j][r] = 0 /\ (r \in Thread => j \notin open[r])
                => hung'[j][r] = 0 /\ threads'[j][r] = threads[j][r]
<1>1. PICK moved \in [Record -> 0 .. MaxEntries], ahead \in SUBSET VisitedActive(i) :
        /\ \A r \in Record : moved[r] \in Hangs(r, i)
        /\ threads' = [threads EXCEPT ![i] = [r \in Record |->
              IF r \in TakenBack(i, ahead) THEN threads[i][r] + hung[i][r] ELSE threads[i][r] - moved[r]]]
        /\ hung' = [hung EXCEPT ![i] = [r \in Record |->
              IF r \in TakenBack(i, ahead) THEN 0 ELSE hung[i][r] + moved[r]]]
  BY DEF Scan
<1>2. \A j \in Ns, r \in Record : threads[j][r] \in Nat /\ hung[j][r] \in Nat
  BY DEF RegTypeOK
<1>3. \A r \in Record : moved[r] \in Nat /\ moved[r] <= threads[i][r] /\ (moved[r] > 0 => Active(r, i))
  <2> SUFFICES ASSUME NEW r \in Record
               PROVE  moved[r] \in Nat /\ moved[r] <= threads[i][r] /\ (moved[r] > 0 => Active(r, i))
    OBVIOUS
  <2>1. moved[r] \in Hangs(r, i) /\ threads[i][r] \in Nat
    BY <1>1, <1>2
  <2> QED BY <2>1 DEF Hangs
<1>4. \A r \in Record :
        /\ threads'[i][r] = IF r \in TakenBack(i, ahead) THEN threads[i][r] + hung[i][r]
                                                 ELSE threads[i][r] - moved[r]
        /\ hung'[i][r] = IF r \in TakenBack(i, ahead) THEN 0 ELSE hung[i][r] + moved[r]
  <2> DEFINE T == [r \in Record |-> IF r \in TakenBack(i, ahead) THEN threads[i][r] + hung[i][r]
                                                          ELSE threads[i][r] - moved[r]]
             H == [r \in Record |-> IF r \in TakenBack(i, ahead) THEN 0 ELSE hung[i][r] + moved[r]]
  <2>1. threads' = [threads EXCEPT ![i] = T] /\ hung' = [hung EXCEPT ![i] = H]
    BY <1>1
  <2>2. \A r \in Record : /\ T[r] = IF r \in TakenBack(i, ahead) THEN threads[i][r] + hung[i][r]
                                                          ELSE threads[i][r] - moved[r]
                          /\ H[r] = IF r \in TakenBack(i, ahead) THEN 0 ELSE hung[i][r] + moved[r]
    OBVIOUS
  <2> HIDE DEF T, H
  <2>3. threads'[i] = T /\ hung'[i] = H
    BY <2>1 DEF RegTypeOK
  <2> QED BY <2>2, <2>3
<1>5. \A j \in Ns \ {i}, r \in Record : threads'[j][r] = threads[j][r] /\ hung'[j][r] = hung[j][r]
  BY <1>1 DEF RegTypeOK
<1>7. threads' \in [Ns -> [Record -> Nat]] /\ hung' \in [Ns -> [Record -> Nat]]
  <2> DEFINE T == [r \in Record |-> IF r \in TakenBack(i, ahead) THEN threads[i][r] + hung[i][r]
                            ELSE threads[i][r] - moved[r]]
             H == [r \in Record |-> IF r \in TakenBack(i, ahead) THEN 0 ELSE hung[i][r] + moved[r]]
  <2>1. threads' = [threads EXCEPT ![i] = T] /\ hung' = [hung EXCEPT ![i] = H]
    BY <1>1
  <2>2. T \in [Record -> Nat] /\ H \in [Record -> Nat]
    BY <1>2, <1>3
  <2> HIDE DEF T, H
  <2> QED BY <2>1, <2>2 DEF RegTypeOK
<1>8. timed' \subseteq Record \X Ns /\ newer' \subseteq Record \X Ns
  BY DEF Scan, RegTypeOK, Recorded, Visited, VisitedActive
<1>9. \A r \in Record : threads'[i][r] + hung'[i][r] = threads[i][r] + hung[i][r]
  <2> SUFFICES ASSUME NEW r \in Record
               PROVE  threads'[i][r] + hung'[i][r] = threads[i][r] + hung[i][r]
    OBVIOUS
  <2>1. threads[i][r] \in Nat /\ hung[i][r] \in Nat
    BY <1>2
  <2> QED BY <1>3, <1>4, <2>1
<1>10. \A r \in Record : hung[i][r] = 0 /\ (r \in Thread => i \notin open[r])
                => hung'[i][r] = 0 /\ threads'[i][r] = threads[i][r]
  <2> SUFFICES ASSUME NEW r \in Record, hung[i][r] = 0, r \in Thread => i \notin open[r]
               PROVE  hung'[i][r] = 0 /\ threads'[i][r] = threads[i][r]
    OBVIOUS
  <2>1. ~Active(r, i)
    BY DEF Active
  <2>2. moved[r] = 0 /\ r \in TakenBack(i, ahead)
    BY <1>3, <2>1 DEF TakenBack
  <2>3. threads[i][r] \in Nat
    BY <1>2
  <2>4. hung'[i][r] = 0 /\ threads'[i][r] = threads[i][r] + hung[i][r]
    BY <1>4, <2>2
  <2> QED BY <2>3, <2>4
<1> QED BY <1>5, <1>7, <1>8, <1>9, <1>10

\* Types are kept: an element is only taken off a list on which it was found.
LEMMA TypeStep == RegInv /\ [Next]_vars => RegTypeOK'
<1> SUFFICES ASSUME RegInv, [Next]_vars PROVE RegTypeOK'
  OBVIOUS
<1> USE Procs, Indexes DEF RegInv, RegTypeOK, MainPc, WorkerPc, ThreadPc
<1> USE DEF lifeVars, listVars, useVars, scanVars, pcVars
<1>1. ASSUME LrcuInit PROVE RegTypeOK'
  BY <1>1 DEF LrcuInit, Running
<1>2. ASSUME LrcuInitWait PROVE RegTypeOK'
  BY <1>2 DEF LrcuInitWait, Fail, Goto
<1>3. ASSUME NEW from \in {"default_ns", "up"}, NEW i \in Ns, from = "default_ns" => i = 0, NsInit(from, i) PROVE RegTypeOK'
  <2>1. CASE record[Worker] = "live"
    <3>1. threads' \in [Ns -> [Record -> Nat]]
      BY <1>3, <2>1, AddKeeps DEF NsInit
    <3>2. pc' = [pc EXCEPT ![Main] = "store_ns"] /\ at' = [at EXCEPT ![Main] = i] /\ nsLock' = Main
      BY <1>3, <2>1 DEF NsInit, Goto
    <3>3. UNCHANGED <<lifeVars, hung, useVars, scanVars, found, failed, excused>>
      BY <1>3, <2>1 DEF NsInit
    <3>4. /\ pc' \in [Proc -> MainPc \cup WorkerPc \cup ThreadPc]
          /\ pc'[Main] \in MainPc /\ pc'[Worker] \in WorkerPc
          /\ \A t \in Thread : pc'[t] \in ThreadPc
      BY <3>2
    <3>5. at' \in [Proc -> 0 .. NsMax] /\ nsLock' \in Proc \cup {NoProc}
      BY <3>2
    <3> QED BY <3>1, <3>3, <3>4, <3>5
  <2> QED BY <1>3, <2>1 DEF NsInit, Fail
<1>4. ASSUME NEW from \in {"default_ns", "up"}, NEW i \in Ns, NsInitFails(from, i) PROVE RegTypeOK'
  <2>1. from \in MainPc
    OBVIOUS
  <2> QED BY <1>4, <2>1 DEF NsInitFails, Goto
<1>5. ASSUME StoreNs PROVE RegTypeOK'
  <2>1. at[Main] \in Ns
    BY <1>5 DEF StoreNs, Goto, SlotInv, Publishing
  <2> QED BY <1>5, <2>1 DEF StoreNs, Goto
<1>6. ASSUME StoreWorkerNs PROVE RegTypeOK'
  <2>1. at[Main] \in Ns
    BY <1>6 DEF StoreWorkerNs, Goto, SlotInv, Publishing
  <2> QED BY <1>6, <2>1 DEF StoreWorkerNs, Goto
<1>7. ASSUME NEW i \in Ns, NsDeinit(i) PROVE RegTypeOK'
  BY <1>7 DEF NsDeinit, Acquire, Goto
<1>8. ASSUME NsDeinitAssert PROVE RegTypeOK'
  BY <1>8 DEF NsDeinitAssert, Fail
<1>9. ASSUME NEW from \in {"stop", "up"}, LrcuDeinit(from) PROVE RegTypeOK'
  BY <1>9 DEF LrcuDeinit, Goto
<1>10. ASSUME Join PROVE RegTypeOK'
  BY <1>10 DEF Join, Goto
<1>11. ASSUME WorkerStart PROVE RegTypeOK'
  BY <1>11 DEF WorkerStart, Goto
<1>12. ASSUME WorkerAnnounce PROVE RegTypeOK'
  BY <1>12 DEF WorkerAnnounce, Goto
<1>13. ASSUME WorkerLoop PROVE RegTypeOK'
  BY <1>13 DEF WorkerLoop, Goto
<1>14. ASSUME WorkerSkip PROVE RegTypeOK'
  BY <1>14 DEF WorkerSkip, Goto
<1>15. ASSUME WorkerVisit PROVE RegTypeOK'
  <2>1. at[Worker] \in Ns
    BY <1>15 DEF WorkerVisit
  <2>2. CASE Scan(at[Worker])
    BY <1>15, <2>1, <2>2, ScanKeeps DEF WorkerVisit, Goto
  <2>3. CASE UNCHANGED <<listVars, scanVars>>
    BY <1>15, <2>3 DEF WorkerVisit, Goto
  <2> QED BY <1>15, <2>2, <2>3 DEF WorkerVisit
<1>16. ASSUME WorkerBump PROVE RegTypeOK'
  BY <1>16 DEF WorkerBump, Goto
<1>17. ASSUME WorkerBumpAssert PROVE RegTypeOK'
  BY <1>17 DEF WorkerBumpAssert, Fail
<1>18. ASSUME WorkerRoundDone PROVE RegTypeOK'
  BY <1>18 DEF WorkerRoundDone, Goto
<1>19. ASSUME WorkerDone PROVE RegTypeOK'
  BY <1>19 DEF WorkerDone, Goto
<1>20. ASSUME NEW t \in Thread, ThreadInit(t) PROVE RegTypeOK'
  BY <1>20 DEF ThreadInit, Running
<1>21. ASSUME NEW t \in Thread, NEW i \in Ns, SetNs(t, i) PROVE RegTypeOK'
  BY <1>21 DEF SetNs, Goto
<1>22. ASSUME NEW t \in Thread, SetNsAdd(t) PROVE RegTypeOK'
  <2>1. at[t] \in Ns /\ AddEntry(at[t], t)
    BY <1>22 DEF SetNsAdd, SlotInv, Goto
  <2>2. threads' \in [Ns -> [Record -> Nat]]
    BY <2>1, AddKeeps
  <2>3. joined' \in [Thread -> SUBSET Ns]
    BY <1>22, <2>1 DEF SetNsAdd
  <2>4. pc' = [pc EXCEPT ![t] = "idle"] /\ at' = [at EXCEPT ![t] = 0]
    BY <1>22 DEF SetNsAdd, Goto
  <2>5. UNCHANGED <<lifeVars, nsLock, hung, record, open, scanVars, found, failed, excused>>
    BY <1>22 DEF SetNsAdd
  <2>6. /\ pc' \in [Proc -> MainPc \cup WorkerPc \cup ThreadPc]
        /\ pc'[Main] \in MainPc /\ pc'[Worker] \in WorkerPc
        /\ \A q \in Thread : pc'[q] \in ThreadPc
    BY <2>4
  <2>7. at' \in [Proc -> 0 .. NsMax]
    BY <2>4
  <2> QED BY <2>2, <2>3, <2>5, <2>6, <2>7
<1>23. ASSUME NEW t \in Thread, SetNsFails(t) PROVE RegTypeOK'
  <2>1. PICK to \in {"idle", "exit_call"} : pc' = [pc EXCEPT ![t] = to]
    BY <1>23 DEF SetNsFails, Goto
  <2>2. /\ at' = [at EXCEPT ![t] = 0]
        /\ UNCHANGED <<lifeVars, nsLock, listVars, useVars, scanVars, found, failed, excused>>
    BY <1>23 DEF SetNsFails
  <2>3. /\ pc' \in [Proc -> MainPc \cup WorkerPc \cup ThreadPc]
        /\ pc'[Main] \in MainPc /\ pc'[Worker] \in WorkerPc
        /\ \A q \in Thread : pc'[q] \in ThreadPc
    BY <2>1
  <2>4. at' \in [Proc -> 0 .. NsMax]
    BY <2>2
  <2> QED BY <2>2, <2>3, <2>4
<1>24. ASSUME NEW t \in Thread, NEW i \in Ns, DelNs(t, i) PROVE RegTypeOK'
  <2>1. CASE threads[i][t] > 0
    BY <1>24, <2>1, DropKeeps DEF DelNs, Goto
  <2> QED BY <1>24, <2>1 DEF DelNs, Goto
<1>25. ASSUME NEW t \in Thread, NEW i \in Ns, Enter(t, i) PROVE RegTypeOK'
  BY <1>25 DEF Enter, Goto
<1>26. ASSUME NEW t \in Thread, NEW i \in Ns, Leave(t, i) PROVE RegTypeOK'
  BY <1>26 DEF Leave, Goto
<1>27. ASSUME NEW t \in Thread, NEW i \in Ns, Synchronize(t, i) PROVE RegTypeOK'
  BY <1>27, ScanKeeps DEF Synchronize, Goto
<1>28. ASSUME NEW p \in Record, NEW from \in {"idle", "exit_call"}, ThreadDeinit(p, from) PROVE RegTypeOK'
  BY <1>28 DEF ThreadDeinit, Acquire, Goto
<1>29. ASSUME NEW p \in Record, RemoveFromNs(p) PROVE RegTypeOK'
  <2>1. at[p] \in Ns
    BY <1>29 DEF RemoveFromNs
  <2>2. CASE threads[at[p]][p] > 0
    BY <1>29, <2>1, <2>2, DropKeeps DEF RemoveFromNs, Goto
  <2> QED BY <1>29, <2>1, <2>2 DEF RemoveFromNs, Goto
<1>30. ASSUME NEW p \in Record, RemoveAssert(p) PROVE RegTypeOK'
  BY <1>30 DEF RemoveAssert, Fail
<1>31. ASSUME NEW p \in Record, FreeRecord(p) PROVE RegTypeOK'
  BY <1>31 DEF FreeRecord, Goto
<1>32. ASSUME LrcuInitFails PROVE RegTypeOK'
  BY <1>32 DEF LrcuInitFails, Fail
<1>33. ASSUME WorkerStartFails PROVE RegTypeOK'
  BY <1>33 DEF WorkerStartFails, Fail
<1>34. ASSUME NEW t \in Thread, ThreadInitFails(t) PROVE RegTypeOK'
  BY <1>34 DEF ThreadInitFails, Fail
<1>35. ASSUME UNCHANGED vars PROVE RegTypeOK'
  BY <1>35 DEF vars, lifeVars, listVars, useVars, scanVars, pcVars
<1> QED BY <1>1, <1>2, <1>3, <1>4, <1>5, <1>6, <1>7, <1>8, <1>9, <1>10, <1>11, <1>12, <1>13, <1>14, <1>15, <1>16, <1>17, <1>18, <1>19, <1>20, <1>21, <1>22, <1>23, <1>24, <1>25, <1>26, <1>27, <1>28, <1>29, <1>30, <1>31, <1>32, <1>33, <1>34, <1>35, ZeroIsNs
  DEF Next, MainStep, MainCall, WorkerStep, ThreadCall, ThreadStep, ExitStep

\* The main thread and the worker stay in step, and ns_lock excludes.
LEMMA PhaseStep == RegInv /\ [Next]_vars => (PhaseInv /\ RecordInv /\ LockInv)'
<1> SUFFICES ASSUME RegInv, [Next]_vars PROVE (PhaseInv /\ RecordInv /\ LockInv)'
  OBVIOUS
<1> USE Procs, Indexes DEF RegInv, RegTypeOK, PhaseInv, RecordInv, LockInv, Publishing, Serving, MainPc, WorkerPc, ThreadPc
<1> USE DEF lifeVars, listVars, useVars, scanVars, pcVars
<1>1. ASSUME LrcuInit PROVE (PhaseInv /\ RecordInv /\ LockInv)'
  BY <1>1 DEF LrcuInit, Running
<1>2. ASSUME LrcuInitWait PROVE (PhaseInv /\ RecordInv /\ LockInv)'
  BY <1>2 DEF LrcuInitWait, Fail, Goto
<1>3. ASSUME NEW from \in {"default_ns", "up"}, NEW i \in Ns, from = "default_ns" => i = 0, NsInit(from, i) PROVE (PhaseInv /\ RecordInv /\ LockInv)'
  BY <1>3 DEF NsInit, AddEntry, Fail, Goto
<1>4. ASSUME NEW from \in {"default_ns", "up"}, NEW i \in Ns, NsInitFails(from, i) PROVE (PhaseInv /\ RecordInv /\ LockInv)'
  BY <1>4 DEF NsInitFails, Goto
<1>5. ASSUME StoreNs PROVE (PhaseInv /\ RecordInv /\ LockInv)'
  BY <1>5 DEF StoreNs, Goto
<1>6. ASSUME StoreWorkerNs PROVE (PhaseInv /\ RecordInv /\ LockInv)'
  BY <1>6 DEF StoreWorkerNs, Goto
<1>7. ASSUME NEW i \in Ns, NsDeinit(i) PROVE (PhaseInv /\ RecordInv /\ LockInv)'
  BY <1>7 DEF NsDeinit, Acquire, Goto
<1>8. ASSUME NsDeinitAssert PROVE (PhaseInv /\ RecordInv /\ LockInv)'
  BY <1>8 DEF NsDeinitAssert, Fail
<1>9. ASSUME NEW from \in {"stop", "up"}, LrcuDeinit(from) PROVE (PhaseInv /\ RecordInv /\ LockInv)'
  BY <1>9 DEF LrcuDeinit, Goto
<1>10. ASSUME Join PROVE (PhaseInv /\ RecordInv /\ LockInv)'
  BY <1>10 DEF Join, Goto
<1>11. ASSUME WorkerStart PROVE (PhaseInv /\ RecordInv /\ LockInv)'
  BY <1>11 DEF WorkerStart, Goto
<1>12. ASSUME WorkerAnnounce PROVE (PhaseInv /\ RecordInv /\ LockInv)'
  BY <1>12 DEF WorkerAnnounce, Goto
<1>13. ASSUME WorkerLoop PROVE (PhaseInv /\ RecordInv /\ LockInv)'
  BY <1>13 DEF WorkerLoop, Goto
<1>14. ASSUME WorkerSkip PROVE (PhaseInv /\ RecordInv /\ LockInv)'
  BY <1>14 DEF WorkerSkip, Goto
<1>15. ASSUME WorkerVisit PROVE (PhaseInv /\ RecordInv /\ LockInv)'
  BY <1>15 DEF WorkerVisit, Goto
<1>16. ASSUME WorkerBump PROVE (PhaseInv /\ RecordInv /\ LockInv)'
  BY <1>16 DEF WorkerBump, Goto
<1>17. ASSUME WorkerBumpAssert PROVE (PhaseInv /\ RecordInv /\ LockInv)'
  BY <1>17 DEF WorkerBumpAssert, Fail
<1>18. ASSUME WorkerRoundDone PROVE (PhaseInv /\ RecordInv /\ LockInv)'
  BY <1>18 DEF WorkerRoundDone, Goto
<1>19. ASSUME WorkerDone PROVE (PhaseInv /\ RecordInv /\ LockInv)'
  BY <1>19 DEF WorkerDone, Goto
<1>20. ASSUME NEW t \in Thread, ThreadInit(t) PROVE (PhaseInv /\ RecordInv /\ LockInv)'
  BY <1>20 DEF ThreadInit, Running
<1>21. ASSUME NEW t \in Thread, NEW i \in Ns, SetNs(t, i) PROVE (PhaseInv /\ RecordInv /\ LockInv)'
  BY <1>21 DEF SetNs, Goto
<1>22. ASSUME NEW t \in Thread, SetNsAdd(t) PROVE (PhaseInv /\ RecordInv /\ LockInv)'
  <2>1. /\ pc[t] \notin {"exit", "freed", "done"} /\ pc' = [pc EXCEPT ![t] = "idle"]
        /\ UNCHANGED <<state, nsLock, record>>
    BY <1>22 DEF SetNsAdd, Goto
  <2> QED BY <2>1
<1>23. ASSUME NEW t \in Thread, SetNsFails(t) PROVE (PhaseInv /\ RecordInv /\ LockInv)'
  <2>1. /\ pc[t] \notin {"exit", "freed", "done"} /\ UNCHANGED <<state, nsLock, record>>
        /\ \E to \in {"idle", "exit_call"} : pc' = [pc EXCEPT ![t] = to]
    BY <1>23 DEF SetNsFails, Goto
  <2> QED BY <2>1
<1>24. ASSUME NEW t \in Thread, NEW i \in Ns, DelNs(t, i) PROVE (PhaseInv /\ RecordInv /\ LockInv)'
  BY <1>24 DEF DelNs, DropEntry, Goto
<1>25. ASSUME NEW t \in Thread, NEW i \in Ns, Enter(t, i) PROVE (PhaseInv /\ RecordInv /\ LockInv)'
  BY <1>25 DEF Enter, Goto
<1>26. ASSUME NEW t \in Thread, NEW i \in Ns, Leave(t, i) PROVE (PhaseInv /\ RecordInv /\ LockInv)'
  BY <1>26 DEF Leave, Goto
<1>27. ASSUME NEW t \in Thread, NEW i \in Ns, Synchronize(t, i) PROVE (PhaseInv /\ RecordInv /\ LockInv)'
  BY <1>27 DEF Synchronize, Goto
<1>28. ASSUME NEW p \in Record, NEW from \in {"idle", "exit_call"}, ThreadDeinit(p, from) PROVE (PhaseInv /\ RecordInv /\ LockInv)'
  BY <1>28 DEF ThreadDeinit, Acquire, Goto
<1>29. ASSUME NEW p \in Record, RemoveFromNs(p) PROVE (PhaseInv /\ RecordInv /\ LockInv)'
  BY <1>29 DEF RemoveFromNs, DropEntry, Goto
<1>30. ASSUME NEW p \in Record, RemoveAssert(p) PROVE (PhaseInv /\ RecordInv /\ LockInv)'
  BY <1>30 DEF RemoveAssert, Fail
<1>31. ASSUME NEW p \in Record, FreeRecord(p) PROVE (PhaseInv /\ RecordInv /\ LockInv)'
  BY <1>31 DEF FreeRecord, Goto
<1>32. ASSUME LrcuInitFails PROVE (PhaseInv /\ RecordInv /\ LockInv)'
  BY <1>32 DEF LrcuInitFails, Fail
<1>33. ASSUME WorkerStartFails PROVE (PhaseInv /\ RecordInv /\ LockInv)'
  BY <1>33 DEF WorkerStartFails, Fail
<1>34. ASSUME NEW t \in Thread, ThreadInitFails(t) PROVE (PhaseInv /\ RecordInv /\ LockInv)'
  BY <1>34 DEF ThreadInitFails, Fail
<1>35. ASSUME UNCHANGED vars PROVE (PhaseInv /\ RecordInv /\ LockInv)'
  BY <1>35 DEF vars, lifeVars, listVars, useVars, scanVars, pcVars
<1> QED BY <1>1, <1>2, <1>3, <1>4, <1>5, <1>6, <1>7, <1>8, <1>9, <1>10, <1>11, <1>12, <1>13, <1>14, <1>15, <1>16, <1>17, <1>18, <1>19, <1>20, <1>21, <1>22, <1>23, <1>24, <1>25, <1>26, <1>27, <1>28, <1>29, <1>30, <1>31, <1>32, <1>33, <1>34, <1>35, ZeroIsNs
  DEF Next, MainStep, MainCall, WorkerStep, ThreadCall, ThreadStep, ExitStep

\* The two arrays of namespaces differ only while one is created or removed, and
\* a thread is only ever registered in namespaces the worker visits.
LEMMA SlotStep == RegInv /\ [Next]_vars => SlotInv'
<1> SUFFICES ASSUME RegInv, [Next]_vars PROVE SlotInv'
  OBVIOUS
<1> USE Procs, Indexes DEF RegInv, RegTypeOK, SlotInv, LockInv, Publishing, MainPc, WorkerPc, ThreadPc
<1> USE DEF lifeVars, listVars, useVars, scanVars, pcVars
<1>1. ASSUME LrcuInit PROVE SlotInv'
  BY <1>1 DEF LrcuInit, Running
<1>2. ASSUME LrcuInitWait PROVE SlotInv'
  BY <1>2 DEF LrcuInitWait, Fail, Goto
<1>3. ASSUME NEW from \in {"default_ns", "up"}, NEW i \in Ns, from = "default_ns" => i = 0, NsInit(from, i) PROVE SlotInv'
  BY <1>3 DEF NsInit, AddEntry, Fail, Goto
<1>4. ASSUME NEW from \in {"default_ns", "up"}, NEW i \in Ns, NsInitFails(from, i) PROVE SlotInv'
  BY <1>4 DEF NsInitFails, Goto
<1>5. ASSUME StoreNs PROVE SlotInv'
  BY <1>5 DEF StoreNs, Goto
<1>6. ASSUME StoreWorkerNs PROVE SlotInv'
  BY <1>6 DEF StoreWorkerNs, Goto
<1>7. ASSUME NEW i \in Ns, NsDeinit(i) PROVE SlotInv'
  BY <1>7 DEF NsDeinit, Acquire, Goto
<1>8. ASSUME NsDeinitAssert PROVE SlotInv'
  BY <1>8 DEF NsDeinitAssert, Fail
<1>9. ASSUME NEW from \in {"stop", "up"}, LrcuDeinit(from) PROVE SlotInv'
  BY <1>9 DEF LrcuDeinit, Goto
<1>10. ASSUME Join PROVE SlotInv'
  BY <1>10 DEF Join, Goto
<1>11. ASSUME WorkerStart PROVE SlotInv'
  BY <1>11 DEF WorkerStart, Goto
<1>12. ASSUME WorkerAnnounce PROVE SlotInv'
  BY <1>12 DEF WorkerAnnounce, Goto
<1>13. ASSUME WorkerLoop PROVE SlotInv'
  BY <1>13 DEF WorkerLoop, Goto
<1>14. ASSUME WorkerSkip PROVE SlotInv'
  BY <1>14 DEF WorkerSkip, Goto
<1>15. ASSUME WorkerVisit PROVE SlotInv'
  BY <1>15 DEF WorkerVisit, Goto
<1>16. ASSUME WorkerBump PROVE SlotInv'
  BY <1>16 DEF WorkerBump, Goto
<1>17. ASSUME WorkerBumpAssert PROVE SlotInv'
  BY <1>17 DEF WorkerBumpAssert, Fail
<1>18. ASSUME WorkerRoundDone PROVE SlotInv'
  BY <1>18 DEF WorkerRoundDone, Goto
<1>19. ASSUME WorkerDone PROVE SlotInv'
  BY <1>19 DEF WorkerDone, Goto
<1>20. ASSUME NEW t \in Thread, ThreadInit(t) PROVE SlotInv'
  BY <1>20 DEF ThreadInit, Running
<1>21. ASSUME NEW t \in Thread, NEW i \in Ns, SetNs(t, i) PROVE SlotInv'
  BY <1>21 DEF SetNs, Goto
<1>22. ASSUME NEW t \in Thread, SetNsAdd(t) PROVE SlotInv'
  BY <1>22 DEF SetNsAdd, AddEntry, Goto
<1>23. ASSUME NEW t \in Thread, SetNsFails(t) PROVE SlotInv'
  BY <1>23 DEF SetNsFails, Goto
<1>24. ASSUME NEW t \in Thread, NEW i \in Ns, DelNs(t, i) PROVE SlotInv'
  BY <1>24 DEF DelNs, DropEntry, Goto
<1>25. ASSUME NEW t \in Thread, NEW i \in Ns, Enter(t, i) PROVE SlotInv'
  BY <1>25 DEF Enter, Goto
<1>26. ASSUME NEW t \in Thread, NEW i \in Ns, Leave(t, i) PROVE SlotInv'
  BY <1>26 DEF Leave, Goto
<1>27. ASSUME NEW t \in Thread, NEW i \in Ns, Synchronize(t, i) PROVE SlotInv'
  BY <1>27 DEF Synchronize, Goto
<1>28. ASSUME NEW p \in Record, NEW from \in {"idle", "exit_call"}, ThreadDeinit(p, from) PROVE SlotInv'
  BY <1>28 DEF ThreadDeinit, Acquire, Goto
<1>29. ASSUME NEW p \in Record, RemoveFromNs(p) PROVE SlotInv'
  BY <1>29 DEF RemoveFromNs, DropEntry, Goto
<1>30. ASSUME NEW p \in Record, RemoveAssert(p) PROVE SlotInv'
  BY <1>30 DEF RemoveAssert, Fail
<1>31. ASSUME NEW p \in Record, FreeRecord(p) PROVE SlotInv'
  BY <1>31 DEF FreeRecord, Goto
<1>32. ASSUME LrcuInitFails PROVE SlotInv'
  BY <1>32 DEF LrcuInitFails, Fail
<1>33. ASSUME WorkerStartFails PROVE SlotInv'
  BY <1>33 DEF WorkerStartFails, Fail
<1>34. ASSUME NEW t \in Thread, ThreadInitFails(t) PROVE SlotInv'
  BY <1>34 DEF ThreadInitFails, Fail
<1>35. ASSUME UNCHANGED vars PROVE SlotInv'
  BY <1>35 DEF vars, lifeVars, listVars, useVars, scanVars, pcVars
<1> QED BY <1>1, <1>2, <1>3, <1>4, <1>5, <1>6, <1>7, <1>8, <1>9, <1>10, <1>11, <1>12, <1>13, <1>14, <1>15, <1>16, <1>17, <1>18, <1>19, <1>20, <1>21, <1>22, <1>23, <1>24, <1>25, <1>26, <1>27, <1>28, <1>29, <1>30, <1>31, <1>32, <1>33, <1>34, <1>35, ZeroIsNs
  DEF Next, MainStep, MainCall, WorkerStep, ThreadCall, ThreadStep, ExitStep

\* Registered threads stay on one of the two lists, the worker on ns->threads.
LEMMA ListStep == RegInv /\ [Next]_vars => ListInv'
<1> SUFFICES ASSUME RegInv, [Next]_vars PROVE ListInv'
  OBVIOUS
<1> USE Procs, Indexes DEF RegInv, RegTypeOK, ListInv, ReaderListed, Entries, Publishing, Exiting, MainPc, WorkerPc, ThreadPc
<1> USE DEF lifeVars, listVars, useVars, scanVars, pcVars
<1>1. ASSUME LrcuInit PROVE ListInv'
  BY <1>1 DEF LrcuInit, Running, PhaseInv
<1>2. ASSUME LrcuInitWait PROVE ListInv'
  BY <1>2 DEF LrcuInitWait, Fail, Goto
<1>3. ASSUME NEW from \in {"default_ns", "up"}, NEW i \in Ns, from = "default_ns" => i = 0, NsInit(from, i) PROVE ListInv'
  <2>1. CASE record[Worker] = "live"
    <3>1. /\ threads'[i][Worker] = threads[i][Worker] + 1 /\ threads[i][Worker] \in Nat
          /\ \A j \in Ns, q \in Record : j # i \/ q # Worker => threads'[j][q] = threads[j][q]
      BY <1>3, <2>1, AddKeeps DEF NsInit
    <3>2. pc[Main] = from /\ (from = "default_ns" \/ from = "up")
      BY <1>3, <2>1 DEF NsInit, Goto
    <3> QED BY <1>3, <2>1, <3>1, <3>2 DEF NsInit, Goto
  <2> QED BY <1>3, <2>1 DEF NsInit, Fail
<1>4. ASSUME NEW from \in {"default_ns", "up"}, NEW i \in Ns, NsInitFails(from, i) PROVE ListInv'
  BY <1>4 DEF NsInitFails, Goto
<1>5. ASSUME StoreNs PROVE ListInv'
  BY <1>5 DEF StoreNs, Goto
<1>6. ASSUME StoreWorkerNs PROVE ListInv'
  BY <1>6 DEF StoreWorkerNs, Goto
<1>7. ASSUME NEW i \in Ns, NsDeinit(i) PROVE ListInv'
  BY <1>7 DEF NsDeinit, Acquire, Goto
<1>8. ASSUME NsDeinitAssert PROVE ListInv'
  BY <1>8 DEF NsDeinitAssert, Fail
<1>9. ASSUME NEW from \in {"stop", "up"}, LrcuDeinit(from) PROVE ListInv'
  BY <1>9 DEF LrcuDeinit, Goto
<1>10. ASSUME Join PROVE ListInv'
  BY <1>10 DEF Join, Goto
<1>11. ASSUME WorkerStart PROVE ListInv'
  BY <1>11 DEF WorkerStart, Goto
<1>12. ASSUME WorkerAnnounce PROVE ListInv'
  BY <1>12 DEF WorkerAnnounce, Goto
<1>13. ASSUME WorkerLoop PROVE ListInv'
  BY <1>13 DEF WorkerLoop, Goto
<1>14. ASSUME WorkerSkip PROVE ListInv'
  BY <1>14 DEF WorkerSkip, Goto
<1>15. ASSUME WorkerVisit PROVE ListInv'
  <2>1. at[Worker] \in Ns
    BY <1>15 DEF WorkerVisit
  <2>2. CASE Scan(at[Worker])
    <3>1. /\ \A j \in Ns, r \in Record : threads'[j][r] + hung'[j][r] = threads[j][r] + hung[j][r]
          /\ \A j \in Ns : hung'[j][Worker] = 0 /\ threads'[j][Worker] = threads[j][Worker]
      BY <2>1, <2>2, ScanKeeps
    <3> QED BY <1>15, <3>1 DEF WorkerVisit, Goto
  <2>3. CASE UNCHANGED <<listVars, scanVars>>
    BY <1>15, <2>3 DEF WorkerVisit, Goto
  <2> QED BY <1>15, <2>2, <2>3 DEF WorkerVisit
<1>16. ASSUME WorkerBump PROVE ListInv'
  BY <1>16 DEF WorkerBump, Goto
<1>17. ASSUME WorkerBumpAssert PROVE ListInv'
  BY <1>17 DEF WorkerBumpAssert, Fail
<1>18. ASSUME WorkerRoundDone PROVE ListInv'
  BY <1>18 DEF WorkerRoundDone, Goto
<1>19. ASSUME WorkerDone PROVE ListInv'
  BY <1>19 DEF WorkerDone, Goto
<1>20. ASSUME NEW t \in Thread, ThreadInit(t) PROVE ListInv'
  BY <1>20 DEF ThreadInit, Running
<1>21. ASSUME NEW t \in Thread, NEW i \in Ns, SetNs(t, i) PROVE ListInv'
  <2>1. PICK to \in {"set_add", "init_add"} :
            pc[t] \notin {"exit", "done"} /\ pc' = [pc EXCEPT ![t] = to]
    BY <1>21 DEF SetNs, Goto
  <2>2. /\ at' = [at EXCEPT ![t] = i]
        /\ UNCHANGED <<lifeVars, nsLock, listVars, useVars, scanVars, found, failed, excused>>
    BY <1>21 DEF SetNs
  <2>3. /\ pc'[Main] = pc[Main] /\ pc'[Worker] = pc[Worker] /\ at'[Main] = at[Main]
        /\ \A s \in Thread : pc'[s] \in {"exit", "done"} <=> pc[s] \in {"exit", "done"}
    BY <2>1, <2>2
  <2> QED BY <2>2, <2>3
<1>22. ASSUME NEW t \in Thread, SetNsAdd(t) PROVE ListInv'
  <2>1. at[t] \in Ns /\ AddEntry(at[t], t)
    BY <1>22 DEF SetNsAdd, SlotInv, Goto
  <2>2. /\ threads'[at[t]][t] = threads[at[t]][t] + 1
        /\ threads[at[t]][t] \in Nat /\ hung[at[t]][t] \in Nat
        /\ \A j \in Ns, q \in Record : j # at[t] \/ q # t => threads'[j][q] = threads[j][q]
    BY <2>1, AddKeeps
  <2>3. joined' = [joined EXCEPT ![t] = joined[t] \cup {at[t]}]
    BY <1>22 DEF SetNsAdd
  <2>4. ReaderListed'
    <3> SUFFICES ASSUME NEW s \in Thread, NEW i \in joined'[s], pc'[s] \notin {"exit", "done"}
                 PROVE  threads'[i][s] + hung'[i][s] > 0
      OBVIOUS
    <3>1. hung' = hung /\ pc[s] \notin {"exit", "done"}
      BY <1>22 DEF SetNsAdd, Goto
    <3>2. CASE s = t /\ i = at[t]
      BY <2>2, <3>1, <3>2
    <3>3. CASE ~(s = t /\ i = at[t])
      <4>1. i \in joined[s] /\ i \in Ns
        BY <2>3, <3>3
      <4>2. threads'[i][s] = threads[i][s]
        BY <2>2, <3>3, <4>1
      <4> QED BY <3>1, <4>1, <4>2
    <3> QED BY <3>2, <3>3
  <2>5. \A i \in Ns : threads'[i][Worker] = threads[i][Worker]
    BY <2>2
  <2>6. /\ pc[t] \notin {"exit", "done"} /\ pc' = [pc EXCEPT ![t] = "idle"]
        /\ at' = [at EXCEPT ![t] = 0] /\ UNCHANGED <<workerNs, hung, open>>
    BY <1>22 DEF SetNsAdd, Goto
  <2>7. /\ pc'[Main] = pc[Main] /\ pc'[Worker] = pc[Worker] /\ at'[Main] = at[Main]
        /\ \A s \in Thread : pc'[s] \in {"exit", "done"} => pc[s] \in {"exit", "done"}
    BY <2>6
  <2> QED BY <2>4, <2>5, <2>6, <2>7
<1>23. ASSUME NEW t \in Thread, SetNsFails(t) PROVE ListInv'
  BY <1>23 DEF SetNsFails, Goto
<1>24. ASSUME NEW t \in Thread, NEW i \in Ns, DelNs(t, i) PROVE ListInv'
  <2>1. CASE threads[i][t] > 0
    <3>1. \A j \in Ns, q \in Record : j # i \/ q # t => threads'[j][q] = threads[j][q]
      BY <1>24, <2>1, DropKeeps DEF DelNs
    <3> QED BY <1>24, <2>1, <3>1 DEF DelNs, Goto
  <2> QED BY <1>24, <2>1 DEF DelNs, Goto
<1>25. ASSUME NEW t \in Thread, NEW i \in Ns, Enter(t, i) PROVE ListInv'
  BY <1>25 DEF Enter, Goto
<1>26. ASSUME NEW t \in Thread, NEW i \in Ns, Leave(t, i) PROVE ListInv'
  BY <1>26 DEF Leave, Goto
<1>27. ASSUME NEW t \in Thread, NEW i \in Ns, Synchronize(t, i) PROVE ListInv'
  <2>1. /\ \A j \in Ns, r \in Record : threads'[j][r] + hung'[j][r] = threads[j][r] + hung[j][r]
        /\ \A j \in Ns : hung'[j][Worker] = 0 /\ threads'[j][Worker] = threads[j][Worker]
    BY <1>27, ScanKeeps DEF Synchronize
  <2> QED BY <1>27, <2>1 DEF Synchronize, Goto
<1>28. ASSUME NEW p \in Record, NEW from \in {"idle", "exit_call"}, ThreadDeinit(p, from) PROVE ListInv'
  <2>1. p \in Thread => open[p] = {}
    BY <1>28 DEF ThreadDeinit
  <2> QED BY <1>28, <2>1 DEF ThreadDeinit, Acquire, Goto
<1>29. ASSUME NEW p \in Record, RemoveFromNs(p) PROVE ListInv'
  <2>1. at[p] \in Ns /\ pc[p] = "exit"
    BY <1>29 DEF RemoveFromNs, Goto
  <2>2. CASE threads[at[p]][p] > 0
    <3>1. \A j \in Ns, q \in Record : j # at[p] \/ q # p => threads'[j][q] = threads[j][q]
      BY <1>29, <2>1, <2>2, DropKeeps DEF RemoveFromNs
    <3> QED BY <1>29, <2>1, <2>2, <3>1 DEF RemoveFromNs, Goto
  <2> QED BY <1>29, <2>1, <2>2 DEF RemoveFromNs, Goto
<1>30. ASSUME NEW p \in Record, RemoveAssert(p) PROVE ListInv'
  BY <1>30 DEF RemoveAssert, Fail
<1>31. ASSUME NEW p \in Record, FreeRecord(p) PROVE ListInv'
  BY <1>31 DEF FreeRecord, Goto
<1>32. ASSUME LrcuInitFails PROVE ListInv'
  BY <1>32 DEF LrcuInitFails, Fail
<1>33. ASSUME WorkerStartFails PROVE ListInv'
  BY <1>33 DEF WorkerStartFails, Fail
<1>34. ASSUME NEW t \in Thread, ThreadInitFails(t) PROVE ListInv'
  BY <1>34 DEF ThreadInitFails, Fail
<1>35. ASSUME UNCHANGED vars PROVE ListInv'
  BY <1>35 DEF vars, lifeVars, listVars, useVars, scanVars, pcVars
<1> QED BY <1>1, <1>2, <1>3, <1>4, <1>5, <1>6, <1>7, <1>8, <1>9, <1>10, <1>11, <1>12, <1>13, <1>14, <1>15, <1>16, <1>17, <1>18, <1>19, <1>20, <1>21, <1>22, <1>23, <1>24, <1>25, <1>26, <1>27, <1>28, <1>29, <1>30, <1>31, <1>32, <1>33, <1>34, <1>35, ZeroIsNs
  DEF Next, MainStep, MainCall, WorkerStep, ThreadCall, ThreadStep, ExitStep

\* A step that leaves those who exit, and what their loop has found, as it was.
LEMMA ExitFrame ==
  ASSUME ExitInv, SearchInv, \A j \in Ns : hung[j][Worker] = 0,
         UNCHANGED <<workerNs, excused, at, found>>,
         \A r \in Record : pc'[r] = "exit" => pc[r] = "exit",
         \A t \in Thread : pc'[t] = "exit" => joined'[t] = joined[t],
         \A j \in Ns, r \in Record : hung[j][r] = 0 /\ pc[r] = "exit" /\ pc'[r] = "exit"
            => hung'[j][r] = 0 /\ threads'[j][r] = threads[j][r]
  PROVE  ExitInv' /\ SearchInv'
<1>1. ASSUME NEW r \in Record, pc'[r] = "exit", r \notin excused
      PROVE  \A j \in Ns : hung'[j][r] = 0 /\ threads'[j][r] = threads[j][r]
  BY <1>1 DEF ExitInv
<1>2. ExitInv'
  BY <1>1 DEF ExitInv
<1>3. ASSUME pc'[Worker] = "exit"
      PROVE  threads'[0][Worker] = threads[0][Worker]
  BY <1>3, Procs, ZeroIsNs
<1>4. SearchInv'
  BY <1>1, <1>3, Procs, ZeroIsNs DEF SearchInv
<1> QED BY <1>2, <1>4

\* While a thread that is not excused exits, no scan moves its elements: the loop
\* takes the only one off.
LEMMA ExitLoopStep == RegInv /\ [Next]_vars => (ExitInv /\ SearchInv)'
<1> SUFFICES ASSUME RegInv, [Next]_vars PROVE (ExitInv /\ SearchInv)'
  OBVIOUS
<1> USE Procs, Indexes DEF RegInv, RegTypeOK, ExitInv, SearchInv, MainPc, WorkerPc, ThreadPc
<1> USE DEF lifeVars, listVars, useVars, scanVars, pcVars
<1>1. ASSUME LrcuInit PROVE (ExitInv /\ SearchInv)'
  BY <1>1 DEF LrcuInit, Running
<1>2. ASSUME LrcuInitWait PROVE (ExitInv /\ SearchInv)'
  BY <1>2 DEF LrcuInitWait, Fail, Goto
<1>3. ASSUME NEW from \in {"default_ns", "up"}, NEW i \in Ns, from = "default_ns" => i = 0, NsInit(from, i) PROVE (ExitInv /\ SearchInv)'
  <2>1. CASE record[Worker] = "live"
    <3>1. \A r \in Record : pc'[r] # "exit"
      BY <1>3, <2>1 DEF NsInit, Goto, LockInv
    <3> QED BY <1>3, <3>1
  <2> QED BY <1>3, <2>1 DEF NsInit, Fail
<1>4. ASSUME NEW from \in {"default_ns", "up"}, NEW i \in Ns, NsInitFails(from, i) PROVE (ExitInv /\ SearchInv)'
  BY <1>4 DEF NsInitFails, Goto
<1>5. ASSUME StoreNs PROVE (ExitInv /\ SearchInv)'
  BY <1>5 DEF StoreNs, Goto
<1>6. ASSUME StoreWorkerNs PROVE (ExitInv /\ SearchInv)'
  <2>1. \A r \in Record : pc'[r] # "exit"
    BY <1>6 DEF StoreWorkerNs, Goto, LockInv, Publishing
  <2> QED BY <2>1
<1>7. ASSUME NEW i \in Ns, NsDeinit(i) PROVE (ExitInv /\ SearchInv)'
  BY <1>7 DEF NsDeinit, Acquire, Goto
<1>8. ASSUME NsDeinitAssert PROVE (ExitInv /\ SearchInv)'
  BY <1>8 DEF NsDeinitAssert, Fail
<1>9. ASSUME NEW from \in {"stop", "up"}, LrcuDeinit(from) PROVE (ExitInv /\ SearchInv)'
  BY <1>9 DEF LrcuDeinit, Goto
<1>10. ASSUME Join PROVE (ExitInv /\ SearchInv)'
  BY <1>10 DEF Join, Goto
<1>11. ASSUME WorkerStart PROVE (ExitInv /\ SearchInv)'
  BY <1>11 DEF WorkerStart, Goto
<1>12. ASSUME WorkerAnnounce PROVE (ExitInv /\ SearchInv)'
  BY <1>12 DEF WorkerAnnounce, Goto
<1>13. ASSUME WorkerLoop PROVE (ExitInv /\ SearchInv)'
  BY <1>13 DEF WorkerLoop, Goto
<1>14. ASSUME WorkerSkip PROVE (ExitInv /\ SearchInv)'
  BY <1>14 DEF WorkerSkip, Goto
<1>15. ASSUME WorkerVisit PROVE (ExitInv /\ SearchInv)'
  <2>1. at[Worker] \in Ns
    BY <1>15 DEF WorkerVisit
  <2>2. CASE Scan(at[Worker])
    <3>1. \A r \in Record : pc[r] = "exit" /\ r # Worker => open[r] = {}
      BY DEF ListInv
    <3>2. \A j \in Ns, r \in Record : hung[j][r] = 0 /\ pc[r] = "exit"
            => hung'[j][r] = 0 /\ threads'[j][r] = threads[j][r]
      BY <2>1, <2>2, <3>1, ScanKeeps
    <3>3. \A j \in Ns : threads'[j][Worker] = threads[j][Worker]
      BY <2>1, <2>2, ScanKeeps DEF ListInv
    <3>4. pc'[Worker] = "bump" /\ \A t \in Thread : pc'[t] = pc[t]
      BY <1>15 DEF WorkerVisit, Goto
    <3> QED BY <1>15, <3>2, <3>3, <3>4 DEF WorkerVisit
  <2>3. CASE UNCHANGED <<listVars, scanVars>>
    BY <1>15, <2>3 DEF WorkerVisit, Goto
  <2> QED BY <1>15, <2>2, <2>3 DEF WorkerVisit
<1>16. ASSUME WorkerBump PROVE (ExitInv /\ SearchInv)'
  BY <1>16 DEF WorkerBump, Goto
<1>17. ASSUME WorkerBumpAssert PROVE (ExitInv /\ SearchInv)'
  BY <1>17 DEF WorkerBumpAssert, Fail
<1>18. ASSUME WorkerRoundDone PROVE (ExitInv /\ SearchInv)'
  BY <1>18 DEF WorkerRoundDone, Goto
<1>19. ASSUME WorkerDone PROVE (ExitInv /\ SearchInv)'
  BY <1>19 DEF WorkerDone, Goto
<1>20. ASSUME NEW t \in Thread, ThreadInit(t) PROVE (ExitInv /\ SearchInv)'
  BY <1>20 DEF ThreadInit, Running
<1>21. ASSUME NEW t \in Thread, NEW i \in Ns, SetNs(t, i) PROVE (ExitInv /\ SearchInv)'
  BY <1>21 DEF SetNs, Goto
<1>22. ASSUME NEW t \in Thread, SetNsAdd(t) PROVE (ExitInv /\ SearchInv)'
  <2>1. at[t] \in Ns /\ AddEntry(at[t], t)
    BY <1>22 DEF SetNsAdd, SlotInv, Goto
  <2>2. \A j \in Ns, q \in Record : q # t => threads'[j][q] = threads[j][q]
    BY <2>1, AddKeeps
  <2>3. pc'[t] = "idle" /\ \A q \in Record : q # t => pc'[q] = pc[q] /\ at'[q] = at[q]
    BY <1>22 DEF SetNsAdd, Goto
  <2>4. \A q \in Thread : q # t => joined'[q] = joined[q]
    BY <1>22 DEF SetNsAdd
  <2> QED BY <1>22, <2>2, <2>3, <2>4 DEF SetNsAdd
<1>23. ASSUME NEW t \in Thread, SetNsFails(t) PROVE (ExitInv /\ SearchInv)'
  BY <1>23 DEF SetNsFails, Goto
<1>24. ASSUME NEW t \in Thread, NEW i \in Ns, DelNs(t, i) PROVE (ExitInv /\ SearchInv)'
  <2>1. pc'[t] = "idle" /\ \A q \in Record : q # t => pc'[q] = pc[q]
    BY <1>24 DEF DelNs, Goto
  <2>2. \A j \in Ns, q \in Record : q # t => threads'[j][q] = threads[j][q]
    <3>1. CASE threads[i][t] > 0
      BY <1>24, <3>1, DropKeeps DEF DelNs
    <3> QED BY <1>24, <3>1 DEF DelNs
  <2>3. \A q \in Thread : q # t => joined'[q] = joined[q]
    BY <1>24 DEF DelNs
  <2>4. UNCHANGED <<hung, workerNs, excused, at, found>>
    BY <1>24 DEF DelNs
  <2>5. ExitInv /\ SearchInv /\ \A j \in Ns : hung[j][Worker] = 0
    BY DEF ListInv
  <2> HIDE DEF RegInv, RegTypeOK, ExitInv, SearchInv
  <2> QED BY <2>1, <2>2, <2>3, <2>4, <2>5, ExitFrame
<1>25. ASSUME NEW t \in Thread, NEW i \in Ns, Enter(t, i) PROVE (ExitInv /\ SearchInv)'
  BY <1>25 DEF Enter, Goto
<1>26. ASSUME NEW t \in Thread, NEW i \in Ns, Leave(t, i) PROVE (ExitInv /\ SearchInv)'
  BY <1>26 DEF Leave, Goto
<1>27. ASSUME NEW t \in Thread, NEW i \in Ns, Synchronize(t, i) PROVE (ExitInv /\ SearchInv)'
  <2>1. \A r \in Record : pc[r] = "exit" /\ r # Worker => open[r] = {}
    BY DEF ListInv
  <2>2. \A j \in Ns, r \in Record : hung[j][r] = 0 /\ pc[r] = "exit"
          => hung'[j][r] = 0 /\ threads'[j][r] = threads[j][r]
    BY <1>27, <2>1, ScanKeeps DEF Synchronize
  <2>3. UNCHANGED <<joined, workerNs, excused, at, found>>
    BY <1>27 DEF Synchronize
  <2>4. \A r \in Record : pc'[r] = "exit" => pc[r] = "exit"
    BY <1>27 DEF Synchronize, Goto
  <2>5. ExitInv /\ SearchInv /\ \A j \in Ns : hung[j][Worker] = 0
    BY DEF ListInv
  <2> HIDE DEF RegInv, RegTypeOK, ExitInv, SearchInv
  <2> QED BY <2>2, <2>3, <2>4, <2>5, ExitFrame
<1>28. ASSUME NEW p \in Record, NEW from \in {"idle", "exit_call"}, ThreadDeinit(p, from) PROVE (ExitInv /\ SearchInv)'
  <2>1. /\ pc'[p] = "exit" /\ at'[p] = 0 /\ found'[p] = FALSE
        /\ \A r \in Record : r # p => pc'[r] # "exit"
    BY <1>28 DEF ThreadDeinit, Acquire, Goto, LockInv
  <2>2. p \notin excused' => ~Scattered(p)
    BY <1>28 DEF ThreadDeinit
  <2>3. ASSUME ~Scattered(p)
        PROVE  /\ \A i \in Ns : hung[i][p] = 0 /\ threads[i][p] <= 1
               /\ \A i, j \in Ns : threads[i][p] > 0 /\ threads[j][p] > 0 => i = j
    BY <2>3 DEF Scattered
  <2>4. ExitInv'
    BY <1>28, <2>1, <2>2, <2>3 DEF ThreadDeinit
  <2>5. p \in Thread /\ 0 \in joined[p] /\ p \notin excused' => threads[0][p] > 0
    <3> SUFFICES ASSUME p \in Thread, 0 \in joined[p], p \notin excused' PROVE threads[0][p] > 0
      OBVIOUS
    <3>1. pc[p] \in {"idle", "exit_call"}
      BY <1>28 DEF ThreadDeinit, Goto
    <3>2. threads[0][p] + hung[0][p] > 0 /\ hung[0][p] = 0 /\ threads[0][p] \in Nat
      BY <2>2, <2>3, <3>1, ZeroIsNs DEF ListInv, ReaderListed, Entries
    <3> QED BY <3>2
  <2>6. p = Worker /\ workerNs # {} => threads[0][p] > 0
    BY <1>28, ZeroIsNs DEF ThreadDeinit, Goto, ListInv, Exiting, SlotInv
  <2>7. SearchInv'
    BY <1>28, <2>1, <2>5, <2>6 DEF ThreadDeinit
  <2> QED BY <2>4, <2>7
<1>29. ASSUME NEW p \in Record, RemoveFromNs(p) PROVE (ExitInv /\ SearchInv)'
  <2>1. at[p] \in Ns /\ pc[p] = "exit" /\ pc' = pc /\ ~found[p] /\ hung' = hung
    BY <1>29 DEF RemoveFromNs, Goto
  <2>2. \A r \in Record : r # p => pc[r] # "exit"
    BY <2>1 DEF LockInv
  <2>3. at'[p] = at[p] + 1 /\ found'[p] = (threads[at[p]][p] > 0)
    BY <1>29 DEF RemoveFromNs
  <2>4. CASE threads[at[p]][p] > 0
    <3>1. /\ threads'[at[p]][p] = threads[at[p]][p] - 1
          /\ \A j \in Ns, q \in Record : j # at[p] \/ q # p => threads'[j][q] = threads[j][q]
      BY <1>29, <2>1, <2>4, DropKeeps DEF RemoveFromNs
    <3>2. p \notin excused => \A j \in Ns : threads'[j][p] = 0
      <4> SUFFICES ASSUME p \notin excused, NEW j \in Ns PROVE threads'[j][p] = 0
        OBVIOUS
      <4>1. threads[j][p] \in Nat /\ threads[j][p] <= 1 /\ (threads[j][p] > 0 => j = at[p])
        BY <2>1, <2>4
      <4> QED BY <2>1, <2>4, <3>1, <4>1
    <3>3. UNCHANGED <<joined, workerNs, excused, hung>>
      BY <1>29 DEF RemoveFromNs
    <3>4. p \notin excused => \A j \in Ns : hung'[j][p] = 0
      BY <2>1
    <3>5. ExitInv'
      BY <2>1, <2>2, <3>2, <3>3, <3>4
    <3>6. SearchInv'
      BY <2>1, <2>2, <2>3, <2>4, <3>3
    <3> QED BY <3>5, <3>6
  <2>5. CASE ~(threads[at[p]][p] > 0)
    <3>1. threads' = threads /\ threads[at[p]][p] = 0
      BY <1>29, <2>1, <2>5 DEF RemoveFromNs
    <3>2. \A j \in Ns : j < at'[p] => j < at[p] \/ j = at[p]
      <4> HIDE DEF RegInv
      <4>1. at[p] \in Nat /\ at'[p] = at[p] + 1
        BY <2>1, <2>3
      <4> QED BY <4>1 DEF Ns
    <3> QED BY <1>29, <2>1, <2>2, <2>3, <2>5, <3>1, <3>2, ZeroIsNs DEF RemoveFromNs
  <2> QED BY <2>4, <2>5
<1>30. ASSUME NEW p \in Record, RemoveAssert(p) PROVE (ExitInv /\ SearchInv)'
  BY <1>30 DEF RemoveAssert, Fail
<1>31. ASSUME NEW p \in Record, FreeRecord(p) PROVE (ExitInv /\ SearchInv)'
  BY <1>31 DEF FreeRecord, Goto
<1>32. ASSUME LrcuInitFails PROVE (ExitInv /\ SearchInv)'
  BY <1>32 DEF LrcuInitFails, Fail
<1>33. ASSUME WorkerStartFails PROVE (ExitInv /\ SearchInv)'
  BY <1>33 DEF WorkerStartFails, Fail
<1>34. ASSUME NEW t \in Thread, ThreadInitFails(t) PROVE (ExitInv /\ SearchInv)'
  BY <1>34 DEF ThreadInitFails, Fail
<1>35. ASSUME UNCHANGED vars PROVE (ExitInv /\ SearchInv)'
  BY <1>35 DEF vars, lifeVars, listVars, useVars, scanVars, pcVars
<1> QED BY <1>1, <1>2, <1>3, <1>4, <1>5, <1>6, <1>7, <1>8, <1>9, <1>10, <1>11, <1>12, <1>13, <1>14, <1>15, <1>16, <1>17, <1>18, <1>19, <1>20, <1>21, <1>22, <1>23, <1>24, <1>25, <1>26, <1>27, <1>28, <1>29, <1>30, <1>31, <1>32, <1>33, <1>34, <1>35, ZeroIsNs
  DEF Next, MainStep, MainCall, WorkerStep, ThreadCall, ThreadStep, ExitStep

\* What is freed is on no list, and only a removed namespace or an excused thread
\* makes an assertion fail.
LEMMA AssertStep == RegInv /\ [Next]_vars => (OnlyExcusedDangles /\ AssertsHold)'
<1> SUFFICES ASSUME RegInv, [Next]_vars PROVE (OnlyExcusedDangles /\ AssertsHold)'
  OBVIOUS
<1> USE Procs, Indexes DEF RegInv, RegTypeOK, OnlyExcusedDangles, AssertsHold, Entries, Running, MainPc, WorkerPc, ThreadPc
<1> USE DEF lifeVars, listVars, useVars, scanVars, pcVars
<1>1. ASSUME LrcuInit PROVE (OnlyExcusedDangles /\ AssertsHold)'
  BY <1>1 DEF LrcuInit, Running
<1>2. ASSUME LrcuInitWait PROVE (OnlyExcusedDangles /\ AssertsHold)'
  BY <1>2 DEF LrcuInitWait, Fail, Goto
<1>3. ASSUME NEW from \in {"default_ns", "up"}, NEW i \in Ns, from = "default_ns" => i = 0, NsInit(from, i) PROVE (OnlyExcusedDangles /\ AssertsHold)'
  <2>1. record[Worker] = "live"
    <3>1. pc[Main] = from /\ (from = "default_ns" \/ from = "up")
      BY <1>3 DEF NsInit, Goto, Fail
    <3>2. Serving
      BY <3>1 DEF PhaseInv
    <3> QED BY <3>2 DEF Serving, RecordInv
  <2>2. \A j \in Ns, q \in Record : q # Worker => threads'[j][q] = threads[j][q]
    BY <1>3, <2>1, AddKeeps DEF NsInit
  <2>3. UNCHANGED <<hung, record, excused, failed>> /\ failed = "no"
    BY <1>3, <2>1 DEF NsInit, Goto
  <2> QED BY <2>1, <2>2, <2>3
<1>4. ASSUME NEW from \in {"default_ns", "up"}, NEW i \in Ns, NsInitFails(from, i) PROVE (OnlyExcusedDangles /\ AssertsHold)'
  BY <1>4 DEF NsInitFails, Goto
<1>5. ASSUME StoreNs PROVE (OnlyExcusedDangles /\ AssertsHold)'
  BY <1>5 DEF StoreNs, Goto
<1>6. ASSUME StoreWorkerNs PROVE (OnlyExcusedDangles /\ AssertsHold)'
  BY <1>6 DEF StoreWorkerNs, Goto
<1>7. ASSUME NEW i \in Ns, NsDeinit(i) PROVE (OnlyExcusedDangles /\ AssertsHold)'
  BY <1>7 DEF NsDeinit, Acquire, Goto
<1>8. ASSUME NsDeinitAssert PROVE (OnlyExcusedDangles /\ AssertsHold)'
  BY <1>8 DEF NsDeinitAssert, Fail
<1>9. ASSUME NEW from \in {"stop", "up"}, LrcuDeinit(from) PROVE (OnlyExcusedDangles /\ AssertsHold)'
  BY <1>9 DEF LrcuDeinit, Goto
<1>10. ASSUME Join PROVE (OnlyExcusedDangles /\ AssertsHold)'
  BY <1>10 DEF Join, Goto
<1>11. ASSUME WorkerStart PROVE (OnlyExcusedDangles /\ AssertsHold)'
  BY <1>11 DEF WorkerStart, Goto
<1>12. ASSUME WorkerAnnounce PROVE (OnlyExcusedDangles /\ AssertsHold)'
  BY <1>12 DEF WorkerAnnounce, Goto
<1>13. ASSUME WorkerLoop PROVE (OnlyExcusedDangles /\ AssertsHold)'
  BY <1>13 DEF WorkerLoop, Goto
<1>14. ASSUME WorkerSkip PROVE (OnlyExcusedDangles /\ AssertsHold)'
  BY <1>14 DEF WorkerSkip, Goto
<1>15. ASSUME WorkerVisit PROVE (OnlyExcusedDangles /\ AssertsHold)'
  <2>1. at[Worker] \in Ns
    BY <1>15 DEF WorkerVisit
  <2>2. CASE Scan(at[Worker])
    <3>1. \A j \in Ns, r \in Record : threads'[j][r] + hung'[j][r] = threads[j][r] + hung[j][r]
      BY <2>1, <2>2, ScanKeeps
    <3> QED BY <1>15, <3>1 DEF WorkerVisit, Goto
  <2>3. CASE UNCHANGED <<listVars, scanVars>>
    BY <1>15, <2>3 DEF WorkerVisit, Goto
  <2> QED BY <1>15, <2>2, <2>3 DEF WorkerVisit
<1>16. ASSUME WorkerBump PROVE (OnlyExcusedDangles /\ AssertsHold)'
  BY <1>16 DEF WorkerBump, Goto
<1>17. ASSUME WorkerBumpAssert PROVE (OnlyExcusedDangles /\ AssertsHold)'
  BY <1>17 DEF WorkerBumpAssert, Fail, SlotInv
<1>18. ASSUME WorkerRoundDone PROVE (OnlyExcusedDangles /\ AssertsHold)'
  BY <1>18 DEF WorkerRoundDone, Goto
<1>19. ASSUME WorkerDone PROVE (OnlyExcusedDangles /\ AssertsHold)'
  BY <1>19 DEF WorkerDone, Goto
<1>20. ASSUME NEW t \in Thread, ThreadInit(t) PROVE (OnlyExcusedDangles /\ AssertsHold)'
  BY <1>20 DEF ThreadInit, Running
<1>21. ASSUME NEW t \in Thread, NEW i \in Ns, SetNs(t, i) PROVE (OnlyExcusedDangles /\ AssertsHold)'
  BY <1>21 DEF SetNs, Goto
<1>22. ASSUME NEW t \in Thread, SetNsAdd(t) PROVE (OnlyExcusedDangles /\ AssertsHold)'
  <2>1. at[t] \in Ns /\ AddEntry(at[t], t)
    BY <1>22 DEF SetNsAdd, SlotInv, Goto
  <2>2. \A j \in Ns, q \in Record : q # t => threads'[j][q] = threads[j][q]
    BY <2>1, AddKeeps
  <2>3. record[t] # "freed"
    BY <1>22 DEF SetNsAdd, Goto, RecordInv
  <2>4. UNCHANGED <<hung, record, excused, failed>> /\ failed = "no"
    BY <1>22 DEF SetNsAdd, Goto
  <2> QED BY <2>2, <2>3, <2>4
<1>23. ASSUME NEW t \in Thread, SetNsFails(t) PROVE (OnlyExcusedDangles /\ AssertsHold)'
  BY <1>23 DEF SetNsFails, Goto
<1>24. ASSUME NEW t \in Thread, NEW i \in Ns, DelNs(t, i) PROVE (OnlyExcusedDangles /\ AssertsHold)'
  <2>1. record[t] # "freed"
    BY <1>24 DEF DelNs, Goto, RecordInv
  <2>2. \A j \in Ns, q \in Record : q # t => threads'[j][q] = threads[j][q]
    <3>1. CASE threads[i][t] > 0
      BY <1>24, <3>1, DropKeeps DEF DelNs
    <3> QED BY <1>24, <3>1 DEF DelNs
  <2>3. UNCHANGED <<hung, record, failed, excused>> /\ failed = "no"
    BY <1>24 DEF DelNs, Goto
  <2> QED BY <2>1, <2>2, <2>3
<1>25. ASSUME NEW t \in Thread, NEW i \in Ns, Enter(t, i) PROVE (OnlyExcusedDangles /\ AssertsHold)'
  BY <1>25 DEF Enter, Goto
<1>26. ASSUME NEW t \in Thread, NEW i \in Ns, Leave(t, i) PROVE (OnlyExcusedDangles /\ AssertsHold)'
  BY <1>26 DEF Leave, Goto
<1>27. ASSUME NEW t \in Thread, NEW i \in Ns, Synchronize(t, i) PROVE (OnlyExcusedDangles /\ AssertsHold)'
  <2>1. \A j \in Ns, r \in Record : threads'[j][r] + hung'[j][r] = threads[j][r] + hung[j][r]
    BY <1>27, ScanKeeps DEF Synchronize
  <2> QED BY <1>27, <2>1 DEF Synchronize, Goto
<1>28. ASSUME NEW p \in Record, NEW from \in {"idle", "exit_call"}, ThreadDeinit(p, from) PROVE (OnlyExcusedDangles /\ AssertsHold)'
  BY <1>28 DEF ThreadDeinit, Acquire, Goto
<1>29. ASSUME NEW p \in Record, RemoveFromNs(p) PROVE (OnlyExcusedDangles /\ AssertsHold)'
  <2>1. at[p] \in Ns /\ record[p] # "freed"
    BY <1>29 DEF RemoveFromNs, Goto, RecordInv
  <2>2. \A j \in Ns, q \in Record : q # p => threads'[j][q] = threads[j][q]
    <3>1. CASE threads[at[p]][p] > 0
      BY <1>29, <2>1, <3>1, DropKeeps DEF RemoveFromNs
    <3> QED BY <1>29, <3>1 DEF RemoveFromNs
  <2> QED BY <1>29, <2>1, <2>2 DEF RemoveFromNs, Goto
<1>30. ASSUME NEW p \in Record, RemoveAssert(p) PROVE (OnlyExcusedDangles /\ AssertsHold)'
  <2>1. pc[p] = "exit" /\ ~found[p] /\ at[p] \notin workerNs /\ failed' = "remove"
        /\ UNCHANGED <<lifeVars, listVars, useVars, pcVars, excused>>
    BY <1>30 DEF RemoveAssert, Fail
  <2>2. p \in Thread /\ 0 \in joined[p] => p \in excused
    BY <2>1 DEF SearchInv, SlotInv
  <2>3. p = Worker => workerNs = {}
    BY <2>1 DEF SearchInv, SlotInv
  <2> QED BY <2>1, <2>2, <2>3
<1>31. ASSUME NEW p \in Record, FreeRecord(p) PROVE (OnlyExcusedDangles /\ AssertsHold)'
  <2>1. /\ pc[p] = "exit" /\ (at[p] = NsMax \/ found[p])
        /\ UNCHANGED <<lifeVars, listVars, joined, excused, failed>> /\ failed = "no"
        /\ \A r \in Record : r # p => record'[r] = record[r]
    BY <1>31 DEF FreeRecord, Goto, Running
  <2>2. p \notin excused => \A i \in Ns : threads[i][p] = 0 /\ hung[i][p] = 0
    BY <2>1 DEF ExitInv
  <2> QED BY <2>1, <2>2
<1>32. ASSUME LrcuInitFails PROVE (OnlyExcusedDangles /\ AssertsHold)'
  BY <1>32 DEF LrcuInitFails, Fail
<1>33. ASSUME WorkerStartFails PROVE (OnlyExcusedDangles /\ AssertsHold)'
  BY <1>33 DEF WorkerStartFails, Fail
<1>34. ASSUME NEW t \in Thread, ThreadInitFails(t) PROVE (OnlyExcusedDangles /\ AssertsHold)'
  BY <1>34 DEF ThreadInitFails, Fail
<1>35. ASSUME UNCHANGED vars PROVE (OnlyExcusedDangles /\ AssertsHold)'
  BY <1>35 DEF vars, lifeVars, listVars, useVars, scanVars, pcVars
<1> QED BY <1>1, <1>2, <1>3, <1>4, <1>5, <1>6, <1>7, <1>8, <1>9, <1>10, <1>11, <1>12, <1>13, <1>14, <1>15, <1>16, <1>17, <1>18, <1>19, <1>20, <1>21, <1>22, <1>23, <1>24, <1>25, <1>26, <1>27, <1>28, <1>29, <1>30, <1>31, <1>32, <1>33, <1>34, <1>35, ZeroIsNs
  DEF Next, MainStep, MainCall, WorkerStep, ThreadCall, ThreadStep, ExitStep

\* It holds at first.
LEMMA InitInv == Init => RegInv
<1> SUFFICES ASSUME Init PROVE RegInv
  OBVIOUS
<1> USE Procs, ZeroIsNs, Indexes DEF Init
<1>1. RegTypeOK
  BY DEF RegTypeOK, MainPc, WorkerPc, ThreadPc
<1>2. PhaseInv /\ RecordInv /\ LockInv
  BY DEF PhaseInv, RecordInv, LockInv, Publishing, Serving, MainPc, WorkerPc
<1>3. SlotInv
  BY DEF SlotInv, Publishing
<1>4. ListInv
  BY DEF ListInv, ReaderListed, Publishing
<1>5. ExitInv /\ SearchInv
  BY DEF ExitInv, SearchInv
<1>6. OnlyExcusedDangles /\ AssertsHold
  BY DEF OnlyExcusedDangles, AssertsHold
<1> QED BY <1>1, <1>2, <1>3, <1>4, <1>5, <1>6 DEF RegInv

\* The inductive invariant of registration holds in every reachable state.
THEOREM RegInvariant == Spec => []RegInv
<1>1. RegInv /\ [Next]_vars => RegInv'
  BY TypeStep, PhaseStep, SlotStep, ListStep, ExitLoopStep, AssertStep DEF RegInv
<1> QED BY InitInv, <1>1, PTL DEF Spec

\* Every variable of Registration keeps its type; a count of list elements never
\* becomes negative.
THEOREM RegTypes == Spec => []RegTypeOK
<1>1. RegInv => RegTypeOK
  BY DEF RegInv
<1> QED BY RegInvariant, <1>1, PTL

\* A thread that has set a namespace and not left it is on one of the two lists,
\* whatever the scans move meanwhile: no scan misses a registered reader.
THEOREM ReadersAreListed == Spec => []ReaderListed
<1>1. RegInv => ReaderListed
  BY DEF RegInv, ListInv
<1> QED BY RegInvariant, <1>1, PTL

\* The exit of a thread that was on no hung_threads and in one namespace at most
\* leaves no list element that points to its freed record.
THEOREM ExitLeavesNothing == Spec => []OnlyExcusedDangles
<1>1. RegInv => OnlyExcusedDangles
  BY DEF RegInv
<1> QED BY RegInvariant, <1>1, PTL

\* Start, stop, creation of namespaces and the worker's rounds never fail an
\* assertion; only a removed namespace and an excused or never registered thread do.
THEOREM AssertionsHold == Spec => []AssertsHold
<1>1. RegInv => AssertsHold
  BY DEF RegInv
<1> QED BY RegInvariant, <1>1, PTL
=============================================================================
