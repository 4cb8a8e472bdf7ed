-------------------------------- MODULE Lrcu --------------------------------
(***************************************************************************)
(* One namespace of light-rcu (src/lrcu.c): read sections, the write lock   *)
(* and pointer publication, lrcu_call, the worker thread, and the two       *)
(* waiting calls lrcu_synchronize and lrcu_barrier.                         *)
(*                                                                         *)
(* Every shared word (version, counter, lns.version, the protected pointer) *)
(* is read and written in a step of its own.  What the code does under one  *)
(* of its ticket locks is one step when nothing outside the lock looks at   *)
(* what it touches (list_lock, list_hlock); the scan under threads_lock     *)
(* takes one step per load, because readers change what it reads without    *)
(* any lock.  Memory is sequentially consistent.                            *)
(***************************************************************************)
EXTENDS Naturals, FiniteSets, Ranges

CONSTANTS
    Thread,       \* registered threads (lrcu_thread_init and thread_set_ns done)
    Reader,       \* the threads that open read sections
    Updater,      \* the threads that take the write lock
    Syncer,       \* the threads that call lrcu_synchronize
    BarrierCaller,\* those among them that do so inside lrcu_barrier
    HangProne,    \* the threads LRCU_HANG_TIMEOUT_S may run out on
    Worker,       \* the thread that runs lrcu_worker
    Obj,          \* the protected objects
    NoObj,        \* a NULL protected pointer
    NoProc,       \* the owner of a free lock
    Kinds,        \* the queues callers use: "list" (lrcu_call), "hlist" (lrcu_call_head)
    Garbage,      \* what the uninitialised first slot of a ranges[] array may hold
    MaxVersion,   \* bound: no updater bumps the version beyond it
    MaxNest       \* bound: depth of nested read sections

Proc == Thread \cup {Worker}
Scanner == Syncer \cup {Worker}
Kind == {"list", "hlist"}

ASSUME ThreadAssumption ==
    /\ Reader \subseteq Thread /\ Updater \subseteq Thread
    /\ Syncer \subseteq Thread /\ BarrierCaller \subseteq Syncer /\ HangProne \subseteq Thread
    /\ Worker \notin Thread /\ NoProc \notin Proc
ASSUME ObjAssumption == NoObj \notin Obj
ASSUME BoundAssumption ==
    /\ MaxVersion \in Nat /\ MaxNest \in Nat
    /\ Kinds \subseteq Kind /\ Garbage \subseteq Nat \X Nat

VARIABLES
    version,      \* ns->version
    processed,    \* ns->processed_version
    setBack,      \* history: a version++ has taken the version back
    pc,           \* where each process is
    reg,          \* the version a process has loaded and not stored yet
    counter,      \* lns->counter of each thread
    lversion,     \* lns->version of each thread
    held,         \* objects a thread got from lrcu_dereference in its open section
    hungThreads,  \* the threads on ns->hung_threads (the others are on ns->threads)
    hungVersion,  \* hung_lns->version of each thread
    timer,        \* ti->timeval: unset, running, or older than the hang timeout
    writeLock,    \* owner of ns->write_lock
    ptr,          \* the protected pointer
    fresh,        \* objects never published
    old,          \* the object an updater has unlinked and not yet given to lrcu_call
    freeList,     \* ns->free_list and ns->free_hlist
    workList,     \* ns->worker_list and ns->worker_hlist
    freed,        \* objects whose destructor has run
    threadsLock,  \* owner of ns->threads_lock
    todo,         \* threads the scan loop has still to visit
    part,         \* first half of a struct copy of lns in progress
    cur,          \* current_version of __lrcu_get_synchronized, per scanner
    rbt,          \* the ranges a scanner has collected
    slot0,        \* first slot of its ranges[] as the last non-empty scan left it
    target,       \* current_version of lrcu_synchronize or lrcu_barrier
    pre,          \* history: read sections open since before the call
    owed,         \* history: objects queued before the barrier
    due           \* history: read sections open since before lrcu_call took the object

nsVars   == <<version, processed, setBack>>
readVars == <<counter, lversion, held>>
hungVars == <<hungThreads, hungVersion, timer>>
updVars  == <<writeLock, ptr, fresh, old>>
listVars == <<freeList, workList, freed>>
scanVars == <<threadsLock, todo, part, cur, rbt, slot0>>
syncVars == <<target, pre, owed, due>>
vars == <<nsVars, pc, reg, readVars, hungVars, updVars, listVars, scanVars, syncVars>>

Callback == [obj : Obj, ver : Nat]
NoPart == [thread |-> NoProc, field |-> "none", val |-> 0]
Part == [thread : Thread, field : {"counter", "version"}, val : Nat] \cup {NoPart}

-----------------------------------------------------------------------------
(* Helpers.                                                                *)

\* lrcu_rangetree_find on the ranges of a scan (RangeTree checks Lookup).
Found(p, v) == Lookup(rbt[p], slot0[p], v)

Listed(list) == list["list"] \cup list["hlist"]
Queued == Listed(freeList) \cup Listed(workList)
WorkEmpty == Listed(workList) = {}

\* Inside a read section: lrcu_read_lock has returned.
InSection(t) == counter[t] > 0 /\ pc[t] \notin {"rl_load", "rl_store"}

Goto(p, from, to) == pc[p] = from /\ pc' = [pc EXCEPT ![p] = to]

\* The two halves of ns->version++, which the code does without atomicity: the
\* store may lose bumps that others did since the load, and take the version back.
LoadVersion(p) == reg' = [reg EXCEPT ![p] = version]
StoreBump(p) ==
    /\ version' = reg[p] + 1
    /\ setBack' = (setBack \/ reg[p] + 1 < version)
    /\ reg' = [reg EXCEPT ![p] = 0]

-----------------------------------------------------------------------------
(* Readers.                                                                *)

\* Mutant: a nested lock records the version again.
ReadLockAgain(t) ==
    /\ t \in Reader /\ counter[t] < MaxNest
    /\ Goto(t, "idle", "rl_load")
    /\ counter' = [counter EXCEPT ![t] = @ + 1]
    /\ UNCHANGED <<nsVars, reg, lversion, held, hungVars, updVars, listVars, scanVars, syncVars>>

\* counter++; only the outermost lock goes on to record the version.
ReadLock(t) ==
    /\ t \in Reader /\ counter[t] < MaxNest
    /\ Goto(t, "idle", IF counter[t] = 0 THEN "rl_load" ELSE "idle")
    /\ counter' = [counter EXCEPT ![t] = @ + 1]
    /\ UNCHANGED <<nsVars, reg, lversion, held, hungVars, updVars, listVars, scanVars, syncVars>>

ReadLockLoad(t) ==
    /\ Goto(t, "rl_load", "rl_store")
    /\ LoadVersion(t)
    /\ UNCHANGED <<nsVars, readVars, hungVars, updVars, listVars, scanVars, syncVars>>

ReadLockStore(t) ==
    /\ Goto(t, "rl_store", "idle")
    /\ lversion' = [lversion EXCEPT ![t] = reg[t]]
    /\ reg' = [reg EXCEPT ![t] = 0]
    /\ UNCHANGED <<nsVars, counter, held, hungVars, updVars, listVars, scanVars, syncVars>>

Dereference(t) ==
    /\ t \in Reader /\ pc[t] = "idle" /\ counter[t] > 0
    /\ ptr \in Obj \ held[t]
    /\ held' = [held EXCEPT ![t] = @ \cup {ptr}]
    /\ UNCHANGED <<nsVars, pc, reg, counter, lversion, hungVars, updVars, listVars, scanVars, syncVars>>

\* Mutant: no check that a section is open.
ReadUnlockUnchecked(t) ==
    /\ t \in Reader /\ pc[t] = "idle"
    /\ counter' = [counter EXCEPT ![t] = @ - 1]
    /\ held' = [held EXCEPT ![t] = IF counter[t] = 1 THEN {} ELSE @]
    /\ pre' = [s \in Thread |-> IF counter[t] = 1 THEN pre[s] \ {t} ELSE pre[s]]
    /\ due' = [o \in Obj |-> IF counter[t] = 1 THEN due[o] \ {t} ELSE due[o]]
    /\ UNCHANGED <<nsVars, pc, reg, lversion, hungVars, updVars, listVars, scanVars,
                   target, owed>>

\* Leaving the outermost section ends the use of everything dereferenced.
ReadUnlock(t) ==
    /\ t \in Reader /\ pc[t] = "idle" /\ counter[t] > 0
    /\ counter' = [counter EXCEPT ![t] = @ - 1]
    /\ held' = [held EXCEPT ![t] = IF counter[t] = 1 THEN {} ELSE @]
    /\ pre' = [s \in Thread |-> IF counter[t] = 1 THEN pre[s] \ {t} ELSE pre[s]]
    /\ due' = [o \in Obj |-> IF counter[t] = 1 THEN due[o] \ {t} ELSE due[o]]
    /\ UNCHANGED <<nsVars, pc, reg, lversion, hungVars, updVars, listVars, scanVars,
                   target, owed>>

-----------------------------------------------------------------------------
(* Updaters.                                                               *)

\* Takes the ticket lock and loads the version it is about to increment.
WriteLock(t) ==
    /\ t \in Updater /\ writeLock = NoProc /\ version < MaxVersion
    /\ Goto(t, "idle", "wl_store")
    /\ writeLock' = t
    /\ LoadVersion(t)
    /\ UNCHANGED <<nsVars, readVars, hungVars, ptr, fresh, old, listVars, scanVars, syncVars>>

WriteLockStore(t) ==
    /\ Goto(t, "wl_store", "idle")
    /\ StoreBump(t)
    /\ UNCHANGED <<processed, readVars, hungVars, updVars, listVars, scanVars, syncVars>>

\* lrcu_assign_pointer bumps the version before it stores the pointer.
AssignLoad(t) ==
    /\ writeLock = t /\ old[t] = NoObj /\ version < MaxVersion
    /\ Goto(t, "idle", "as_store")
    /\ LoadVersion(t)
    /\ UNCHANGED <<nsVars, readVars, hungVars, updVars, listVars, scanVars, syncVars>>

AssignStore(t) ==
    /\ Goto(t, "as_store", "as_ptr")
    /\ StoreBump(t)
    /\ UNCHANGED <<processed, readVars, hungVars, updVars, listVars, scanVars, syncVars>>

\* The store of the pointer, after a bump or as __lrcu_assign_ptr without one.
\* The caller keeps the object it has unlinked until it calls lrcu_call.
AssignPtr(t) ==
    /\ pc[t] \in {"idle", "as_ptr"} /\ writeLock = t /\ old[t] = NoObj
    /\ \E new \in (fresh \cup {NoObj}) \ {ptr} :
          /\ ptr' = new
          /\ fresh' = fresh \ {new}
    /\ old' = [old EXCEPT ![t] = ptr]
    /\ pc' = [pc EXCEPT ![t] = "idle"]
    /\ UNCHANGED <<nsVars, reg, readVars, hungVars, writeLock, listVars, scanVars, syncVars>>

WriteUnlock(t) ==
    /\ writeLock = t /\ pc[t] = "idle"
    /\ writeLock' = NoProc
    /\ UNCHANGED <<nsVars, pc, reg, readVars, hungVars, ptr, fresh, old, listVars, scanVars, syncVars>>

\* Mutant: the callback gets the version before the current one.
CallLoadBefore(t) ==
    /\ old[t] \in Obj
    /\ Goto(t, "idle", "call_add")
    /\ reg' = [reg EXCEPT ![t] = version - 1]
    /\ due' = [due EXCEPT ![old[t]] = {s \in Thread : InSection(s)}]
    /\ UNCHANGED <<nsVars, readVars, hungVars, updVars, listVars, scanVars, target, pre, owed>>

\* lrcu_call and lrcu_call_head: the version is read before the list lock is
\* taken, inside or outside the write lock.
CallLoad(t) ==
    /\ old[t] \in Obj
    /\ Goto(t, "idle", "call_add")
    /\ LoadVersion(t)
    /\ due' = [due EXCEPT ![old[t]] = {s \in Thread : InSection(s)}]
    /\ UNCHANGED <<nsVars, readVars, hungVars, updVars, listVars, scanVars, target, pre, owed>>

CallAdd(t) ==
    /\ Goto(t, "call_add", "idle")
    /\ \E k \in Kinds :
          freeList' = [freeList EXCEPT ![k] = @ \cup {[obj |-> old[t], ver |-> reg[t]]}]
    /\ old' = [old EXCEPT ![t] = NoObj]
    /\ reg' = [reg EXCEPT ![t] = 0]
    /\ UNCHANGED <<nsVars, readVars, hungVars, writeLock, ptr, fresh, workList, freed, scanVars, syncVars>>

-----------------------------------------------------------------------------
(* __lrcu_get_synchronized, run by the worker and by lrcu_synchronize.     *)

ScanStart(p) ==
    /\ Goto(p, "scan", "s_lock")
    /\ cur' = [cur EXCEPT ![p] = version]
    /\ rbt' = [rbt EXCEPT ![p] = {}]
    /\ UNCHANGED <<nsVars, reg, readVars, hungVars, updVars, listVars,
                   threadsLock, todo, part, slot0, syncVars>>

ScanLock(p) ==
    /\ threadsLock = NoProc
    /\ Goto(p, "s_lock", "s_threads")
    /\ threadsLock' = p
    /\ todo' = Thread \ hungThreads
    /\ UNCHANGED <<nsVars, reg, readVars, hungVars, updVars, listVars,
                   part, cur, rbt, slot0, syncVars>>

\* lns = *LRCU_GET_LNS(ti, ns) copies two words; this is the first load,
\* whichever of the two the compiler puts first.
ScanRead(p) ==
    /\ pc[p] \in {"s_threads", "s_hung"} /\ part = NoPart
    /\ \E t \in todo : part' \in
          {[thread |-> t, field |-> "counter", val |-> counter[t]],
           [thread |-> t, field |-> "version", val |-> lversion[t]]}
    /\ UNCHANGED <<nsVars, pc, reg, readVars, hungVars, updVars, listVars,
                   threadsLock, todo, cur, rbt, slot0, syncVars>>

\* The second load completes the copy: what the scan believes of the thread.
Seen == part.thread
SeenCounter == IF part.field = "counter" THEN part.val ELSE counter[Seen]
SeenVersion == IF part.field = "version" THEN part.val ELSE lversion[Seen]

Visit == part \in [thread : todo, field : {"counter", "version"}, val : Nat]
Visited(p, ranges) ==
    /\ rbt' = [rbt EXCEPT ![p] = @ \cup ranges]
    /\ todo' = todo \ {Seen}
    /\ part' = NoPart
    /\ UNCHANGED <<nsVars, pc, reg, readVars, updVars, listVars,
                   threadsLock, cur, slot0, syncVars>>

ScanIdle(p) ==
    /\ pc[p] = "s_threads" /\ Visit /\ SeenCounter = 0
    /\ timer' = [timer EXCEPT ![Seen] = "unset"]
    /\ UNCHANGED <<hungThreads, hungVersion>>
    /\ Visited(p, {})

\* Mutant: the range of an active thread begins after the version it recorded.
ScanActiveNext(p) ==
    /\ pc[p] = "s_threads" /\ Visit /\ SeenCounter # 0
    /\ hungThreads' = IF timer[Seen] = "expired" /\ SeenVersion <= hungVersion[Seen]
                      THEN hungThreads \cup {Seen} ELSE hungThreads
    /\ timer' = [timer EXCEPT ![Seen] = IF @ = "unset" THEN "set" ELSE @]
    /\ hungVersion' = [hungVersion EXCEPT ![Seen] = cur[p]]
    /\ Visited(p, {<<SeenVersion + 1, cur[p]>>})

\* A thread whose timer ran out moves to hung_threads unless its version is
\* newer than the last scan that saw it active.
ScanActive(p) ==
    /\ pc[p] = "s_threads" /\ Visit /\ SeenCounter # 0
    /\ hungThreads' = IF timer[Seen] = "expired" /\ SeenVersion <= hungVersion[Seen]
                      THEN hungThreads \cup {Seen} ELSE hungThreads
    /\ timer' = [timer EXCEPT ![Seen] = IF @ = "unset" THEN "set" ELSE @]
    /\ hungVersion' = [hungVersion EXCEPT ![Seen] = cur[p]]
    /\ Visited(p, {<<SeenVersion, cur[p]>>})

ScanThreadsDone(p) ==
    /\ todo = {} /\ part = NoPart
    /\ Goto(p, "s_threads", "s_hung")
    /\ todo' = hungThreads
    /\ UNCHANGED <<nsVars, reg, readVars, hungVars, updVars, listVars,
                   threadsLock, part, cur, rbt, slot0, syncVars>>

\* Mutant: the range of a thread that moved on still ends at its hang version.
ScanHungOldEnd(p) ==
    LET awake == SeenVersion > hungVersion[Seen]
    IN /\ pc[p] = "s_hung" /\ Visit
       /\ hungThreads' = IF awake \/ SeenCounter = 0 THEN hungThreads \ {Seen} ELSE hungThreads
       /\ UNCHANGED <<hungVersion, timer>>
       /\ Visited(p, IF SeenCounter # 0 THEN {<<SeenVersion, hungVersion[Seen]>>} ELSE {})

\* The second loop: a hung thread that moved on goes back to ns->threads.
ScanHung(p) ==
    LET awake == SeenVersion > hungVersion[Seen]
        last  == IF awake THEN cur[p] ELSE hungVersion[Seen]
    IN /\ pc[p] = "s_hung" /\ Visit
       /\ hungThreads' = IF awake \/ SeenCounter = 0 THEN hungThreads \ {Seen} ELSE hungThreads
       /\ UNCHANGED <<hungVersion, timer>>
       /\ Visited(p, IF SeenCounter # 0 THEN {<<SeenVersion, last>>} ELSE {})

\* Mutant: threads_lock stays taken when a scan saw no active thread.
ScanUnlockForgotten(p) ==
    /\ todo = {} /\ part = NoPart
    /\ Goto(p, "s_hung", IF p = Worker THEN "w_run" ELSE "y_find")
    /\ threadsLock' = IF rbt[p] = {} THEN threadsLock ELSE NoProc
    /\ IF rbt[p] = {} THEN UNCHANGED slot0
       ELSE \E first \in FirstMerged(rbt[p]) : slot0' = [slot0 EXCEPT ![p] = first]
    /\ UNCHANGED <<nsVars, reg, readVars, hungVars, updVars, listVars,
                   todo, part, cur, rbt, syncVars>>

\* Unlock, then sort and merge the ranges.
ScanUnlock(p) ==
    /\ todo = {} /\ part = NoPart
    /\ Goto(p, "s_hung", IF p = Worker THEN "w_run" ELSE "y_find")
    /\ threadsLock' = NoProc
    /\ IF rbt[p] = {} THEN UNCHANGED slot0
       ELSE \E first \in FirstMerged(rbt[p]) : slot0' = [slot0 EXCEPT ![p] = first]
    /\ UNCHANGED <<nsVars, reg, readVars, hungVars, updVars, listVars,
                   todo, part, cur, rbt, syncVars>>

ScanStep(p) == \/ ScanStart(p)  \/ ScanLock(p)        \/ ScanRead(p) \/ ScanIdle(p)
               \/ ScanActive(p) \/ ScanThreadsDone(p) \/ ScanHung(p) \/ ScanUnlock(p)

-----------------------------------------------------------------------------
(* lrcu_synchronize and lrcu_barrier.                                      *)

\* Mutant: waits for the version after the current one.
SyncStartNext(t) ==
    /\ counter[t] = 0 /\ version <= MaxVersion
    /\ Goto(t, "idle", "scan")
    /\ target' = [target EXCEPT ![t] = version + 1]
    /\ \E g \in Garbage : slot0' = [slot0 EXCEPT ![t] = g]
    /\ pre' = [pre EXCEPT ![t] = {s \in Thread : InSection(s)}]
    /\ owed' = [owed EXCEPT ![t] = IF t \in BarrierCaller THEN {c.obj : c \in Queued} ELSE {}]
    /\ UNCHANGED <<nsVars, reg, readVars, hungVars, updVars, listVars,
                   threadsLock, todo, part, cur, rbt, due>>

SyncStart(t) ==
    /\ counter[t] = 0 /\ version <= MaxVersion
    /\ Goto(t, "idle", "scan")
    /\ target' = [target EXCEPT ![t] = version]
    /\ \E g \in Garbage : slot0' = [slot0 EXCEPT ![t] = g]
    /\ pre' = [pre EXCEPT ![t] = {s \in Thread : InSection(s)}]
    /\ owed' = [owed EXCEPT ![t] = IF t \in BarrierCaller THEN {c.obj : c \in Queued} ELSE {}]
    /\ UNCHANGED <<nsVars, reg, readVars, hungVars, updVars, listVars,
                   threadsLock, todo, part, cur, rbt, due>>

\* The call's locals go out of scope.
ForgetScan(p) ==
    /\ cur' = [cur EXCEPT ![p] = 0]
    /\ rbt' = [rbt EXCEPT ![p] = {}]

SyncRetry(t) ==
    /\ Goto(t, "y_find", "scan")
    /\ Found(t, target[t])
    /\ UNCHANGED <<nsVars, reg, readVars, hungVars, updVars, listVars, scanVars, syncVars>>

SyncReturn(t) ==
    /\ Goto(t, "y_find", IF t \in BarrierCaller THEN "b_load" ELSE "idle")
    /\ ~Found(t, target[t])
    /\ ForgetScan(t)
    /\ slot0' = [slot0 EXCEPT ![t] = <<0, 0>>]
    /\ target' = [target EXCEPT ![t] = 0]
    /\ pre' = [pre EXCEPT ![t] = {}]
    /\ UNCHANGED <<nsVars, reg, readVars, hungVars, updVars, listVars, threadsLock, todo, part, owed, due>>

BarrierLoad(t) ==
    /\ Goto(t, "b_load", "b_wait")
    /\ target' = [target EXCEPT ![t] = version]
    /\ UNCHANGED <<nsVars, reg, readVars, hungVars, updVars, listVars, scanVars,
                   pre, owed, due>>

BarrierReturn(t) ==
    /\ target[t] < processed
    /\ Goto(t, "b_wait", "idle")
    /\ target' = [target EXCEPT ![t] = 0]
    /\ owed' = [owed EXCEPT ![t] = {}]
    /\ UNCHANGED <<nsVars, reg, readVars, hungVars, updVars, listVars, scanVars, pre, due>>

-----------------------------------------------------------------------------
(* The worker's loop.                                                      *)

\* Mutant: the free list is emptied but its elements are not attached.
SpliceDropping(k) ==
    /\ freeList' = [freeList EXCEPT ![k] = {}]
    /\ UNCHANGED <<nsVars, reg, readVars, hungVars, updVars, workList, freed, scanVars, syncVars>>

\* Each queue is looked at without its lock and taken under it.
Splice(k) ==
    /\ freeList' = [freeList EXCEPT ![k] = {}]
    /\ workList' = [workList EXCEPT ![k] = @ \cup freeList[k]]
    /\ UNCHANGED <<nsVars, reg, readVars, hungVars, updVars, freed, scanVars, syncVars>>

WorkerSplice == Goto(Worker, "w_splice", "w_spliceh") /\ Splice("list")

WorkerSpliceHead ==
    /\ Splice("hlist")
    /\ Goto(Worker, "w_spliceh", IF Listed(workList') = {} THEN "w_bump" ELSE "scan")

\* Mutant: a callback older than the current version is run at once.
ReadyOld(k) == {c \in workList[k] : c.ver < version \/ ~Found(Worker, c.ver)}
Ready(k) == {c \in workList[k] : ~Found(Worker, c.ver)}

\* Runs one callback and drops it from its list; worker_list goes first.
WorkerRun(k) ==
    /\ pc[Worker] = "w_run"
    /\ k = "hlist" => Ready("list") = {}
    /\ \E c \in Ready(k) :
          /\ workList' = [workList EXCEPT ![k] = @ \ {c}]
          /\ freed' = freed \cup {c.obj}
    /\ UNCHANGED <<nsVars, pc, reg, readVars, hungVars, updVars, freeList, scanVars, syncVars>>

\* processed_version = getmin, which is 0 for an empty tree ...
WorkerRunDone ==
    /\ Goto(Worker, "w_run", "w_zero")
    /\ Ready("list") = {} /\ Ready("hlist") = {}
    /\ IF rbt[Worker] = {} THEN processed' = 0
       ELSE \E low \in Least({r[1] : r \in rbt[Worker]}) : processed' = low
    /\ ForgetScan(Worker)
    /\ UNCHANGED <<version, setBack, reg, readVars, hungVars, updVars, listVars,
                   threadsLock, todo, part, slot0, syncVars>>

\* ... and then 0, from whichever source, becomes version + 1.
WorkerZero ==
    /\ Goto(Worker, "w_zero", IF processed = 0 THEN "w_zstore" ELSE "w_bump")
    /\ IF processed = 0 THEN LoadVersion(Worker) ELSE UNCHANGED reg
    /\ UNCHANGED <<nsVars, readVars, hungVars, updVars, listVars, scanVars, syncVars>>

\* Stores what the worker made of the version it loaded.
StoreProcessed(val) ==
    /\ processed' = val
    /\ reg' = [reg EXCEPT ![Worker] = 0]
    /\ UNCHANGED <<version, setBack, readVars, hungVars, updVars, listVars, scanVars, syncVars>>

WorkerZeroStore == Goto(Worker, "w_zstore", "w_bump") /\ StoreProcessed(reg[Worker] + 1)

\* The worker bumps the version on every round.  Beyond MaxVersion the model
\* keeps only the bumps something waits for.
CanBump == \/ version < MaxVersion
           \/ \E c \in Queued : c.ver >= version
           \/ \E t \in Syncer : target[t] >= version

WorkerBumpLoad ==
    /\ CanBump
    /\ Goto(Worker, "w_bump", "w_store")
    /\ LoadVersion(Worker)
    /\ UNCHANGED <<nsVars, readVars, hungVars, updVars, listVars, scanVars, syncVars>>

\* Mutant: the worker does not bump the version.
WorkerBumpLost ==
    /\ Goto(Worker, "w_store", "w_idle")
    /\ reg' = [reg EXCEPT ![Worker] = 0]
    /\ UNCHANGED <<nsVars, readVars, hungVars, updVars, listVars, scanVars, syncVars>>

WorkerBumpStore ==
    /\ Goto(Worker, "w_store", "w_idle")
    /\ StoreBump(Worker)
    /\ UNCHANGED <<processed, readVars, hungVars, updVars, listVars, scanVars, syncVars>>

\* Bound: the round without a bump.
WorkerSkipBump ==
    /\ ~CanBump
    /\ Goto(Worker, "w_bump", "w_idle")
    /\ UNCHANGED <<nsVars, reg, readVars, hungVars, updVars, listVars, scanVars, syncVars>>

WorkerIdle ==
    /\ Goto(Worker, "w_idle", IF WorkEmpty THEN "w_istore" ELSE "w_splice")
    /\ IF WorkEmpty THEN LoadVersion(Worker) ELSE UNCHANGED reg
    /\ UNCHANGED <<nsVars, readVars, hungVars, updVars, listVars, scanVars, syncVars>>

WorkerIdleStore == Goto(Worker, "w_istore", "w_splice") /\ StoreProcessed(reg[Worker])

WorkerStep == \/ WorkerSplice    \/ WorkerSpliceHead \/ (\E k \in Kind : WorkerRun(k))
              \/ WorkerRunDone   \/ WorkerZero       \/ WorkerZeroStore
              \/ WorkerBumpLoad  \/ WorkerBumpStore  \/ WorkerSkipBump
              \/ WorkerIdle      \/ WorkerIdleStore

-----------------------------------------------------------------------------
\* LRCU_HANG_TIMEOUT_S seconds pass since the timer was started.
TimerExpire(t) ==
    /\ t \in HangProne /\ timer[t] = "set"
    /\ timer' = [timer EXCEPT ![t] = "expired"]
    /\ UNCHANGED <<nsVars, pc, reg, readVars, hungThreads, hungVersion,
                   updVars, listVars, scanVars, syncVars>>

Init ==
    /\ version = 1 /\ processed = 0 /\ setBack = FALSE
    /\ pc = [p \in Proc |-> IF p = Worker THEN "w_splice" ELSE "idle"]
    /\ reg = [p \in Proc |-> 0]
    /\ counter = [t \in Thread |-> 0] /\ lversion = [t \in Thread |-> 0]
    /\ held = [t \in Thread |-> {}]
    /\ hungThreads = {} /\ hungVersion = [t \in Thread |-> 0]
    /\ timer = [t \in Thread |-> "unset"]
    /\ writeLock = NoProc /\ ptr \in Obj \cup {NoObj} /\ fresh = Obj \ {ptr}
    /\ old = [t \in Thread |-> NoObj]
    /\ freeList = [k \in Kind |-> {}] /\ workList = [k \in Kind |-> {}] /\ freed = {}
    /\ threadsLock = NoProc /\ todo = {} /\ part = NoPart
    /\ cur = [p \in Scanner |-> 0] /\ rbt = [p \in Scanner |-> {}]
    /\ slot0 \in {f \in [Scanner -> Garbage \cup {<<0, 0>>}] : \A t \in Syncer : f[t] = <<0, 0>>}
    /\ target = [t \in Thread |-> 0]
    /\ pre = [t \in Thread |-> {}] /\ owed = [t \in Thread |-> {}]
    /\ due = [o \in Obj |-> {}]

ReaderStep(t) == \/ ReadLock(t) \/ ReadLockLoad(t) \/ ReadLockStore(t)
                 \/ Dereference(t) \/ ReadUnlock(t)
UpdaterStep(t) == \/ WriteLock(t) \/ WriteLockStore(t) \/ AssignLoad(t) \/ AssignStore(t)
                  \/ AssignPtr(t) \/ WriteUnlock(t) \/ CallLoad(t) \/ CallAdd(t)
SyncStep(t) == \/ SyncStart(t) \/ SyncRetry(t) \/ SyncReturn(t)
               \/ BarrierLoad(t) \/ BarrierReturn(t)

Next == \/ \E t \in Thread : ReaderStep(t) \/ UpdaterStep(t) \/ TimerExpire(t)
        \/ \E t \in Syncer : SyncStep(t)
        \/ \E p \in Scanner : ScanStep(p)
        \/ WorkerStep

Spec == Init /\ [][Next]_vars

\* The unlock that ends a section, however deep the section has been nested.
LeaveSection(t) == counter[t] = 1 /\ ReadUnlock(t)

\* What the scheduler and the callers owe: a call that has begun goes on, the
\* worker thread runs, a read section ends (it is not nested and unnested for
\* ever), and threads_lock is granted in ticket order, so whoever asks for it
\* again and again gets it.
Fairness ==
    /\ \A t \in Thread : /\ WF_vars(ReadLockLoad(t))   /\ WF_vars(ReadLockStore(t))
                        /\ WF_vars(WriteLockStore(t)) /\ WF_vars(AssignStore(t))
                        /\ WF_vars(CallAdd(t))        /\ WF_vars(ReadUnlock(t))
                        /\ SF_vars(LeaveSection(t))
    /\ \A t \in Syncer : /\ WF_vars(SyncRetry(t))   /\ WF_vars(SyncReturn(t))
                        /\ WF_vars(BarrierLoad(t)) /\ WF_vars(BarrierReturn(t))
    /\ \A p \in Scanner : WF_vars(ScanStep(p)) /\ SF_vars(ScanLock(p))
    /\ WF_vars(WorkerStep)

FairSpec == Spec /\ Fairness

-----------------------------------------------------------------------------
(* Properties.                                                             *)

ScanPc == {"scan", "s_lock", "s_threads", "s_hung"}
SyncPc == ScanPc \cup {"y_find"}
ThreadPc == {"idle", "rl_load", "rl_store", "wl_store", "as_store", "as_ptr", "call_add",
             "b_load", "b_wait"} \cup SyncPc
WorkerPc == {"w_splice", "w_spliceh", "w_run", "w_zero", "w_zstore", "w_bump", "w_store",
             "w_idle", "w_istore"} \cup ScanPc

\* Every variable keeps its type.
TypeOK ==
    /\ version \in Nat /\ processed \in Nat /\ setBack \in BOOLEAN
    /\ pc \in [Proc -> ThreadPc \cup WorkerPc]
    /\ pc[Worker] \in WorkerPc /\ \A t \in Thread : pc[t] \in ThreadPc
    /\ reg \in [Proc -> Nat]
    /\ counter \in [Thread -> Nat] /\ lversion \in [Thread -> Nat]
    /\ held \in [Thread -> SUBSET Obj]
    /\ hungThreads \subseteq Thread /\ hungVersion \in [Thread -> Nat]
    /\ timer \in [Thread -> {"unset", "set", "expired"}]
    /\ writeLock \in Thread \cup {NoProc}
    /\ ptr \in Obj \cup {NoObj} /\ fresh \subseteq Obj
    /\ old \in [Thread -> Obj \cup {NoObj}]
    /\ freeList \in [Kind -> SUBSET Callback] /\ workList \in [Kind -> SUBSET Callback]
    /\ freed \subseteq Obj
    /\ threadsLock \in Proc \cup {NoProc} /\ todo \subseteq Thread /\ part \in Part
    /\ cur \in [Scanner -> Nat] /\ rbt \in [Scanner -> SUBSET (Nat \X Nat)]
    /\ slot0 \in [Scanner -> Nat \X Nat]
    /\ target \in [Thread -> Nat]
    /\ pre \in [Thread -> SUBSET Thread] /\ owed \in [Thread -> SUBSET Obj]
    /\ due \in [Obj -> SUBSET Thread]

\* The destructor of an object runs (lines 485-503) only when no thread still
\* uses what it dereferenced, threads declared hung excepted.  The overlapping
\* increments of lines 24, 40 and 541 break it ...
NoUseAfterFree == \A t \in Thread : held[t] \cap freed # {} => t \in hungThreads

\* ... but only by taking the version back: an increment that is lost does no
\* harm, nor does anything else the threads do at the same time.
SafeUntilSetBack == setBack \/ NoUseAfterFree

\* The grace period of lrcu_call (lines 186-240 against 455-503), whatever a
\* section has dereferenced: until a version++ takes the version back, the
\* destructor of an object runs only when every section that was open when
\* lrcu_call read the version (line 199) has been left or belongs to a thread
\* declared hung.
GracePeriod == setBack \/ \A o \in freed : due[o] \subseteq hungThreads

\* A callback runs once (lines 186-257 and 455-503): what is still queued, in
\* whichever list, has not been destroyed, and no object is queued twice ...
RunOnce ==
    /\ \A c \in Queued : c.obj \notin freed
    /\ \A c, d \in Queued : c.obj = d.obj => c = d
    /\ \A k, l \in Kind : freeList[k] \cap workList[l] = {}
    /\ \A lists \in {freeList, workList} : lists["list"] \cap lists["hlist"] = {}

\* ... and none is lost: an object that was published is still so, in the hands
\* of the updater that unlinked it, in one of the lists, or destroyed.
NoneLost == \A o \in Obj :
    \/ o \in fresh \cup freed \cup {ptr}
    \/ \E t \in Thread : old[t] = o
    \/ \E c \in Queued : c.obj = o

CalledOnce == RunOnce /\ NoneLost

\* lrcu_synchronize (lines 555-583) returns only when every read section that was
\* open at the call has been left or belongs to a thread declared hung, as long
\* as no version++ has taken the version back.
SyncWaits == [][\A t \in Syncer : (pc[t] = "y_find" /\ pc'[t] \in {"idle", "b_load"})
                                       => setBack \/ pre[t] \subseteq hungThreads]_vars

\* A callback that stays queued for ever is one the empty-tree search (range.c,
\* lines 188-207) keeps finding in a stale slot: from some point on every scan
\* finds no reader at all.  No reader, and no hung thread, delays it for ever.
StaleSlot(p, v) == rbt[p] = {} /\ Covers(slot0[p], v)
OnlyStaleSlotKeepsCallback == \A o \in Obj :
    <>[](\E c \in Queued : c.obj = o)
        => <>[](\E c \in Queued : c.obj = o /\ StaleSlot(Worker, c.ver))

\* Likewise lrcu_synchronize only loops for ever over a stale slot.
OnlyStaleSlotKeepsSync == \A t \in Syncer :
    <>[](pc[t] \in SyncPc) => <>[]StaleSlot(t, target[t])

\* What doc/api.txt line 30 says of lrcu_synchronize: it waits for the running
\* read sections to complete, so it returns once they have.
SyncReturns == \A t \in Syncer : pc[t] \in SyncPc ~> pc[t] \notin SyncPc

\* What doc/api.txt line 31 says of lrcu_barrier: when it returns, the
\* destructors accepted before the call have finished.
BarrierDrains == [][\A t \in BarrierCaller : (pc[t] = "b_wait" /\ pc'[t] = "idle")
                                                 => owed[t] \subseteq freed]_vars

\* The namespace keeps what Rcu promises, which is void once the version has
\* gone back.
Abstract == INSTANCE Rcu WITH
    current   <- ptr,
    inSection <- {t \in Thread : InSection(t)},
    retired   <- {c.obj : c \in Queued} \cup {old[t] : t \in {s \in Thread : pc[s] = "call_add"}},
    stalled   <- hungThreads,
    calling   <- {t \in Thread : pc[t] \in SyncPc},
    waiting   <- pre,
    void      <- setBack
Refines == Abstract!Spec
=============================================================================
