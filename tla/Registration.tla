---------------------------- MODULE Registration ----------------------------
(***************************************************************************)
(* Who is on which thread list (src/lrcu.c): start and stop of the library  *)
(* and its worker, creation and removal of namespaces, registration and     *)
(* exit of threads, and the scan that moves threads between ns->threads and *)
(* ns->hung_threads meanwhile.                                              *)
(*                                                                         *)
(* Every step that takes threads_lock does all its work under it, so it is  *)
(* one step.  ns_lock is held over several steps and is modelled.  A list   *)
(* is the number of its elements that point to each record (Queues has      *)
(* the pointers).  A failed LRCU_ASSERT ends the program.                   *)
(***************************************************************************)
EXTENDS Naturals, FiniteSets

CONSTANTS
    Thread,       \* the threads that use the library
    Main,         \* the thread that calls lrcu_init, lrcu_ns_init and lrcu_deinit
    Worker,       \* the thread that runs lrcu_worker
    NoProc,       \* the owner of a free lock
    NsMax,        \* LRCU_NS_MAX
    MaxEntries    \* bound: elements of one list that point to the same thread

Ns == 0 .. NsMax - 1
Record == Thread \cup {Worker}      \* whose lrcu_thread_info it is
Proc == Record \cup {Main}

ASSUME ProcAssumption == Main \notin Record /\ Worker \notin Thread /\ NoProc \notin Proc
ASSUME NsAssumption == NsMax \in Nat \ {0} /\ MaxEntries \in Nat

VARIABLES
    state,        \* h->worker_state
    ns,           \* the slots of h->ns[] that are set
    workerNs,     \* the slots of h->worker_ns[] that are set
    nsLock,       \* owner of h->ns_lock
    threads,      \* ns->threads: how many elements point to each record
    hung,         \* ns->hung_threads
    record,       \* the lrcu_thread_info of each thread
    joined,       \* namespaces a thread set and has not left, as its calls told it
    open,         \* namespaces in which a thread is inside a read section
    timed,        \* <<r, i>>: the hang timer of r in i is set
    newer,        \* <<r, i>>: lns.version of r in i is greater than hung_lns.version
    pc, at, found,\* where each process is, its loop index, and its local found
    failed,       \* the assertion that ended the program, if any
    excused       \* history: records that were Scattered when their exit began

lifeVars == <<state, ns, workerNs>>
listVars == <<threads, hung>>
scanVars == <<timed, newer>>
useVars  == <<record, joined, open>>
pcVars   == <<pc, at, found>>
vars == <<lifeVars, nsLock, listVars, useVars, scanVars, pcVars, failed, excused>>

-----------------------------------------------------------------------------
Running == failed = "no"
Goto(p, from, to) == Running /\ pc[p] = from /\ pc' = [pc EXCEPT ![p] = to]

\* LRCU_ASSERT: the process that fails it takes the program down.
Fail(p, from, what) ==
    /\ Running /\ pc[p] = from /\ failed' = what
    /\ UNCHANGED <<lifeVars, nsLock, listVars, useVars, scanVars, pcVars, excused>>

Acquire(p) == nsLock = NoProc /\ nsLock' = p
Entries(i, r) == threads[i][r] + hung[i][r]
AddEntry(i, r) == threads' = [threads EXCEPT ![i][r] = @ + 1]
DropEntry(i, r) == threads' = [threads EXCEPT ![i][r] = @ - 1]

\* More than one element points to r, or one of hung_threads does.
Scattered(r) == \/ \E i \in Ns : hung[i][r] > 0 \/ threads[i][r] > 1
                \/ \E i, j \in Ns : i # j /\ threads[i][r] > 0 /\ threads[j][r] > 0

-----------------------------------------------------------------------------
(* lrcu_init, lrcu_deinit: the main thread.                                *)

\* __lrcu_init: the handler is set and the worker created ...
LrcuInit ==
    /\ Running /\ pc[Main] = "start"
    /\ state' = "RUN"
    /\ pc' = [pc EXCEPT ![Main] = "wait", ![Worker] = "start"]
    /\ UNCHANGED <<ns, workerNs, nsLock, listVars, useVars, scanVars, at, found, failed, excused>>

\* __lrcu_init without memory or without a thread returns NULL: LRCU_ASSERT(h).
LrcuInitFails == Fail(Main, "start", "init")

\* Mutant: does not wait for the worker.
LrcuInitNoWait ==
    /\ Goto(Main, "wait", "default_ns")
    /\ UNCHANGED <<lifeVars, nsLock, listVars, useVars, scanVars, at, found, failed, excused>>

\* ... and waited for; then lrcu_init creates LRCU_NS_DEFAULT.
LrcuInitWait ==
    /\ state # "RUN"
    /\ IF state # "RUNNING" THEN Fail(Main, "wait", "init")
       ELSE /\ Goto(Main, "wait", "default_ns")
            /\ UNCHANGED <<lifeVars, nsLock, listVars, useVars, scanVars, at, found, failed, excused>>

\* lrcu_ns_init of slot i, up to the stores that publish the namespace.  It
\* asserts h->worker_ti.  The new namespace is private: its list needs no lock.
\* (A slot that is pending removal, lines 702-721, is not reached: NsDeinitAssert
\* comes first.)
NsInit(from, i) ==
    /\ i \notin ns \cup workerNs /\ nsLock = NoProc
    /\ IF record[Worker] # "live" THEN Fail(Main, from, "worker_ti")
       ELSE /\ Goto(Main, from, "store_ns")
            /\ nsLock' = Main
            /\ at' = [at EXCEPT ![Main] = i]
            /\ AddEntry(i, Worker)
            /\ UNCHANGED <<lifeVars, hung, useVars, scanVars, found, failed, excused>>

\* Out of memory: lrcu_ns_init returns NULL, and lrcu_init calls lrcu_deinit.
NsInitFails(from, i) ==
    /\ i \notin ns \cup workerNs /\ record[Worker] = "live" /\ nsLock = NoProc
    /\ Goto(Main, from, IF from = "default_ns" THEN "stop" ELSE from)
    /\ UNCHANGED <<lifeVars, nsLock, listVars, useVars, scanVars, at, found, failed, excused>>

\* h->ns[id] is stored first, so that the worker finds it set.
StoreNs ==
    /\ Goto(Main, "store_ns", "store_worker_ns")
    /\ ns' = ns \cup {at[Main]}
    /\ UNCHANGED <<state, workerNs, nsLock, listVars, useVars, scanVars, at, found, failed, excused>>

StoreWorkerNs ==
    /\ Goto(Main, "store_worker_ns", "up")
    /\ workerNs' = workerNs \cup {at[Main]}
    /\ nsLock' = NoProc
    /\ at' = [at EXCEPT ![Main] = 0]
    /\ UNCHANGED <<state, ns, listVars, useVars, scanVars, found, failed, excused>>

\* lrcu_ns_deinit and lrcu_ns_deinit_safe clear the slot ...
NsDeinit(i) ==
    /\ i \in ns
    /\ Acquire(Main)
    /\ Goto(Main, "up", "ns_deinit")
    /\ ns' = ns \ {i}
    /\ UNCHANGED <<state, workerNs, listVars, useVars, scanVars, at, found, failed, excused>>

\* ... and call lrcu_write_barrier_ns, which asserts that it is set.
NsDeinitAssert == Fail(Main, "ns_deinit", "barrier")

\* lrcu_deinit, after every thread has called lrcu_thread_deinit.
LrcuDeinit(from) ==
    /\ \A t \in Thread : pc[t] \in {"none", "done"}
    /\ Goto(Main, from, "join")
    /\ state' = "STOP"
    /\ UNCHANGED <<ns, workerNs, nsLock, listVars, useVars, scanVars, at, found, failed, excused>>

Join ==
    /\ pc[Worker] = "done"
    /\ Goto(Main, "join", "end")
    /\ UNCHANGED <<lifeVars, nsLock, listVars, useVars, scanVars, at, found, failed, excused>>

MainStep == \/ LrcuInitWait \/ StoreNs \/ StoreWorkerNs
            \/ NsInit("default_ns", 0) \/ NsInitFails("default_ns", 0)
            \/ NsDeinitAssert \/ LrcuDeinit("stop") \/ Join
MainCall == \/ LrcuInit \/ LrcuInitFails \/ LrcuDeinit("up")
            \/ \E i \in Ns : NsInit("up", i) \/ NsInitFails("up", i) \/ NsDeinit(i)

-----------------------------------------------------------------------------
(* The part of __lrcu_get_synchronized that concerns the lists of slot i.  *)

\* A freed record still reads as it was left, outside every section.
Active(r, i) == r \in Thread /\ i \in open[r]

Visited(i) == {r \in Record : threads[i][r] > 0}
VisitedActive(i) == {r \in Visited(i) : Active(r, i)}

\* How many elements of an active thread may move to hung_threads: it must have
\* a timer from an earlier scan, and the first visit of a thread that has moved
\* on since only records its new version.
Hangs(r, i) == {k \in 0 .. threads[i][r] :
                    k > 0 => /\ Active(r, i) /\ <<r, i>> \in timed
                             /\ <<r, i>> \in newer => k < threads[i][r]}

\* What the second loop takes back: idle threads, and those whose version is
\* newer than hung_lns.version, which the first loop has set to the scan's
\* current_version if it visited the thread.  That was loaded before
\* threads_lock, so the thread may have recorded a newer one: ahead.
TakenBack(i, ahead) ==
    {r \in Record : ~Active(r, i) \/ r \in ahead
                        \/ (r \notin Visited(i) /\ <<r, i>> \in newer)}

\* What a scan stores in the timers and in hung_lns.version.
Recorded(i, ahead) ==
    /\ timed' = (timed \ {<<r, i>> : r \in Visited(i)}) \cup {<<r, i>> : r \in VisitedActive(i)}
    /\ newer' = (newer \ {<<r, i>> : r \in VisitedActive(i)}) \cup {<<r, i>> : r \in ahead}

\* Mutant: a hung thread that woke up is unlinked and not inserted.
ScanDropping(i) ==
    \E moved \in [Record -> 0 .. MaxEntries], ahead \in SUBSET VisitedActive(i) :
        /\ \A r \in Record : moved[r] \in Hangs(r, i)
        /\ threads' = [threads EXCEPT ![i] = [r \in Record |-> threads[i][r] - moved[r]]]
        /\ hung' = [hung EXCEPT ![i] = [r \in Record |->
                IF r \in TakenBack(i, ahead) THEN 0 ELSE hung[i][r] + moved[r]]]
        /\ Recorded(i, ahead)

\* The first loop moves the elements of hung threads, sets and clears timers;
\* the second takes back those that are idle or have moved on, the elements the
\* first loop has just inserted included.
Scan(i) ==
    \E moved \in [Record -> 0 .. MaxEntries], ahead \in SUBSET VisitedActive(i) :
        /\ \A r \in Record : moved[r] \in Hangs(r, i)
        /\ threads' = [threads EXCEPT ![i] = [r \in Record |->
                IF r \in TakenBack(i, ahead) THEN threads[i][r] + hung[i][r]
                ELSE threads[i][r] - moved[r]]]
        /\ hung' = [hung EXCEPT ![i] = [r \in Record |->
                IF r \in TakenBack(i, ahead) THEN 0 ELSE hung[i][r] + moved[r]]]
        /\ Recorded(i, ahead)

-----------------------------------------------------------------------------
(* lrcu_worker.                                                            *)

\* Its own record first ...
WorkerStart ==
    /\ Goto(Worker, "start", "announce")
    /\ record' = [record EXCEPT ![Worker] = "live"]
    /\ UNCHANGED <<lifeVars, nsLock, listVars, joined, open, scanVars, at, found, failed, excused>>

\* ... without memory LRCU_ASSERT(h->worker_ti) ends the program ...
WorkerStartFails == Fail(Worker, "start", "worker_init")

\* ... then the state the initialising thread waits for.
WorkerAnnounce ==
    /\ Goto(Worker, "announce", "loop")
    /\ state' = "RUNNING"
    /\ UNCHANGED <<ns, workerNs, nsLock, listVars, useVars, scanVars, at, found, failed, excused>>

WorkerLoop ==
    /\ Goto(Worker, "loop", IF state = "STOP" THEN "exit_call" ELSE "round")
    /\ at' = [at EXCEPT ![Worker] = 0]
    /\ UNCHANGED <<lifeVars, nsLock, listVars, useVars, scanVars, found, failed, excused>>

\* A slot without namespace is skipped.
WorkerSkip ==
    /\ at[Worker] < NsMax /\ at[Worker] \notin workerNs
    /\ Goto(Worker, "round", "round")
    /\ at' = [at EXCEPT ![Worker] = @ + 1]
    /\ UNCHANGED <<lifeVars, nsLock, listVars, useVars, scanVars, found, failed, excused>>

\* Scans when callbacks are queued, and only then.
WorkerVisit ==
    /\ at[Worker] < NsMax /\ at[Worker] \in workerNs
    /\ Goto(Worker, "round", "bump")
    /\ Scan(at[Worker]) \/ UNCHANGED <<listVars, scanVars>>
    /\ UNCHANGED <<lifeVars, nsLock, useVars, at, found, failed, excused>>

WorkerBump ==
    /\ at[Worker] \in ns
    /\ Goto(Worker, "bump", "round")
    /\ at' = [at EXCEPT ![Worker] = @ + 1]
    /\ UNCHANGED <<lifeVars, nsLock, listVars, useVars, scanVars, found, failed, excused>>

\* lrcu_write_barrier_ns asserts h->ns[i].  (With empty lists the worker would
\* wait for ns_lock first, which is held until the other assertion fails.)
WorkerBumpAssert == at[Worker] \notin ns /\ Fail(Worker, "bump", "barrier")

WorkerRoundDone ==
    /\ at[Worker] = NsMax
    /\ Goto(Worker, "round", "loop")
    /\ UNCHANGED <<lifeVars, nsLock, listVars, useVars, scanVars, at, found, failed, excused>>

WorkerDone ==
    /\ Goto(Worker, "freed", "done")
    /\ state' = "DONE"
    /\ UNCHANGED <<ns, workerNs, nsLock, listVars, useVars, scanVars, at, found, failed, excused>>

-----------------------------------------------------------------------------
(* Threads.                                                                *)

\* __lrcu_thread_init, alone or in lrcu_thread_init.
ThreadInit(t) ==
    /\ pc[Main] = "up"
    /\ Running /\ pc[t] = "none"
    /\ \E next \in {"idle", "set_default"} : pc' = [pc EXCEPT ![t] = next]
    /\ record' = [record EXCEPT ![t] = "live"]
    /\ UNCHANGED <<lifeVars, nsLock, listVars, joined, open, scanVars, at, found, failed, excused>>

\* Without memory lrcu_thread_init asserts; __lrcu_thread_init alone returns NULL
\* and leaves everything as it was.
ThreadInitFails(t) == pc[Main] = "up" /\ Fail(t, "none", "thread_init")

\* Mutant: looks the namespace up without ns_lock.
SetNsUnlocked(t, i) ==
    /\ i \in ns \ joined[t]
    /\ \/ Goto(t, "idle", "set_add")
       \/ i = 0 /\ Goto(t, "set_default", "init_add")
    /\ at' = [at EXCEPT ![t] = i]
    /\ UNCHANGED <<lifeVars, nsLock, listVars, useVars, scanVars, found, failed, excused>>

\* lrcu_thread_set_ns looks the namespace up under ns_lock ...
SetNs(t, i) ==
    /\ nsLock = NoProc /\ i \in ns \ joined[t]
    /\ \/ Goto(t, "idle", "set_add")
       \/ i = 0 /\ Goto(t, "set_default", "init_add")
    /\ at' = [at EXCEPT ![t] = i]
    /\ UNCHANGED <<lifeVars, nsLock, listVars, useVars, scanVars, found, failed, excused>>

\* ... and adds the thread under threads_lock.
SetNsAdd(t) ==
    /\ Goto(t, "set_add", "idle") \/ Goto(t, "init_add", "idle")
    /\ Entries(at[t], t) < MaxEntries
    /\ AddEntry(at[t], t)
    /\ joined' = [joined EXCEPT ![t] = @ \cup {at[t]}]
    /\ at' = [at EXCEPT ![t] = 0]
    /\ UNCHANGED <<lifeVars, nsLock, hung, record, open, scanVars, found, failed, excused>>

\* Out of memory: lrcu_thread_init takes the thread out again.
SetNsFails(t) ==
    /\ Goto(t, "set_add", "idle") \/ Goto(t, "init_add", "exit_call")
    /\ at' = [at EXCEPT ![t] = 0]
    /\ UNCHANGED <<lifeVars, nsLock, listVars, useVars, scanVars, found, failed, excused>>

\* Mutant: takes an element off although none was found.
DelNsUnchecked(t, i) ==
    /\ nsLock = NoProc /\ i \in joined[t] \ open[t] /\ i \in workerNs
    /\ Goto(t, "idle", "idle")
    /\ DropEntry(i, t)
    /\ joined' = [joined EXCEPT ![t] = @ \ {i}]
    /\ UNCHANGED <<lifeVars, nsLock, hung, record, open, scanVars, at, found, failed, excused>>

\* lrcu_thread_del_ns: only ns->threads is searched, found or not the caller is
\* out of the namespace.
DelNs(t, i) ==
    /\ nsLock = NoProc /\ i \in joined[t] \ open[t] /\ i \in workerNs
    /\ Goto(t, "idle", "idle")
    /\ IF threads[i][t] > 0 THEN DropEntry(i, t) ELSE UNCHANGED threads
    /\ joined' = [joined EXCEPT ![t] = @ \ {i}]
    /\ UNCHANGED <<lifeVars, nsLock, hung, record, open, scanVars, at, found, failed, excused>>

\* lrcu_read_lock: the version recorded is newer than hung_lns.version if the
\* worker has bumped it since that was stored.
Enter(t, i) ==
    /\ i \in joined[t] \ open[t] /\ i \in ns
    /\ Goto(t, "idle", "idle")
    /\ open' = [open EXCEPT ![t] = @ \cup {i}]
    /\ newer' = newer \/ newer' = newer \cup {<<t, i>>}
    /\ UNCHANGED <<lifeVars, nsLock, listVars, record, joined, timed, at, found, failed, excused>>

Leave(t, i) ==
    /\ i \in open[t]
    /\ Goto(t, "idle", "idle")
    /\ open' = [open EXCEPT ![t] = @ \ {i}]
    /\ UNCHANGED <<lifeVars, nsLock, listVars, record, joined, scanVars, at, found, failed, excused>>

\* lrcu_synchronize: any thread scans, outside its own sections.
Synchronize(t, i) ==
    /\ i \in joined[t] \ open[t] /\ i \in ns
    /\ Goto(t, "idle", "idle")
    /\ Scan(i)
    /\ UNCHANGED <<lifeVars, nsLock, useVars, at, found, failed, excused>>

\* Mutant: the loop begins behind LRCU_NS_DEFAULT.
ThreadDeinitFromOne(p, from) ==
    /\ p \in Thread => open[p] = {}
    /\ Acquire(p)
    /\ Goto(p, from, "exit")
    /\ at' = [at EXCEPT ![p] = 1]
    /\ found' = [found EXCEPT ![p] = FALSE]
    /\ excused' = IF Scattered(p) THEN excused \cup {p} ELSE excused
    /\ UNCHANGED <<lifeVars, listVars, useVars, scanVars, failed>>

\* lrcu_thread_deinit: thread_destructor_callback takes ns_lock for its loop.
ThreadDeinit(p, from) ==
    /\ p \in Thread => open[p] = {}
    /\ Acquire(p)
    /\ Goto(p, from, "exit")
    /\ at' = [at EXCEPT ![p] = 0]
    /\ found' = [found EXCEPT ![p] = FALSE]
    /\ excused' = IF Scattered(p) THEN excused \cup {p} ELSE excused
    /\ UNCHANGED <<lifeVars, listVars, useVars, scanVars, failed>>

\* thread_remove_from_ns of the next slot, until one slot had the thread.
RemoveFromNs(p) ==
    LET i == at[p] IN
    /\ i < NsMax /\ ~found[p] /\ i \in workerNs
    /\ Goto(p, "exit", "exit")
    /\ found' = [found EXCEPT ![p] = threads[i][p] > 0]
    /\ IF threads[i][p] > 0 THEN DropEntry(i, p) ELSE UNCHANGED threads
    /\ at' = [at EXCEPT ![p] = @ + 1]
    /\ UNCHANGED <<lifeVars, nsLock, hung, useVars, scanVars, failed, excused>>

\* LRCU_ASSERT(ns): the slot has no namespace.
RemoveAssert(p) ==
    /\ at[p] < NsMax /\ ~found[p] /\ at[p] \notin workerNs
    /\ Fail(p, "exit", "remove")

\* Mutant: returns without ns_lock when nothing was found.
FreeRecordLocked(p) ==
    /\ at[p] = NsMax \/ found[p]
    /\ Goto(p, "exit", IF p = Worker THEN "freed" ELSE "done")
    /\ nsLock' = IF found[p] THEN NoProc ELSE nsLock
    /\ record' = [record EXCEPT ![p] = "freed"]
    /\ at' = [at EXCEPT ![p] = 0] /\ found' = [found EXCEPT ![p] = FALSE]
    /\ UNCHANGED <<lifeVars, listVars, joined, open, scanVars, failed, excused>>

FreeRecord(p) ==
    /\ at[p] = NsMax \/ found[p]
    /\ Goto(p, "exit", IF p = Worker THEN "freed" ELSE "done")
    /\ nsLock' = NoProc
    /\ record' = [record EXCEPT ![p] = "freed"]
    /\ at' = [at EXCEPT ![p] = 0] /\ found' = [found EXCEPT ![p] = FALSE]
    /\ UNCHANGED <<lifeVars, listVars, joined, open, scanVars, failed, excused>>

ExitStep(p) == RemoveFromNs(p) \/ RemoveAssert(p) \/ FreeRecord(p)
ThreadCall(t) == \/ ThreadInit(t) \/ ThreadInitFails(t) \/ ThreadDeinit(t, "idle")
                 \/ \E i \in Ns : \/ SetNs(t, i) \/ DelNs(t, i) \/ Enter(t, i)
                                  \/ Leave(t, i) \/ Synchronize(t, i)
ThreadStep(t) == SetNsAdd(t) \/ SetNsFails(t)
WorkerStep == \/ WorkerStart \/ WorkerStartFails \/ WorkerAnnounce \/ WorkerLoop
              \/ WorkerSkip \/ WorkerVisit \/ WorkerBump \/ WorkerBumpAssert
              \/ WorkerRoundDone \/ WorkerDone

-----------------------------------------------------------------------------
Init ==
    /\ state = "READY" /\ ns = {} /\ workerNs = {} /\ nsLock = NoProc
    /\ threads = [i \in Ns |-> [r \in Record |-> 0]]
    /\ hung = [i \in Ns |-> [r \in Record |-> 0]]
    /\ record = [r \in Record |-> "none"]
    /\ joined = [t \in Thread |-> {}] /\ open = [t \in Thread |-> {}]
    /\ timed = {} /\ newer = {}
    /\ pc = [p \in Proc |-> IF p = Main THEN "start" ELSE "none"]
    /\ at = [p \in Proc |-> 0] /\ found = [p \in Proc |-> FALSE]
    /\ failed = "no" /\ excused = {}

Next == \/ MainStep \/ MainCall \/ WorkerStep
        \/ \E t \in Thread : ThreadCall(t) \/ ThreadStep(t)
        \/ \E p \in Record : ExitStep(p) \/ ThreadDeinit(p, "exit_call")

Spec == Init /\ [][Next]_vars

\* A call that has begun goes on, and the ticket lock ns_lock is granted to
\* whoever waits for it.  Nobody has to begin a call.
FairSpec == /\ Spec /\ WF_vars(MainStep) /\ WF_vars(WorkerStep)
            /\ SF_vars(NsInit("default_ns", 0) \/ NsInitFails("default_ns", 0))
            /\ \A t \in Thread : WF_vars(ThreadStep(t)) /\ SF_vars(SetNs(t, 0) /\ pc[t] = "set_default")
            /\ \A p \in Record : WF_vars(ExitStep(p)) /\ SF_vars(ThreadDeinit(p, "exit_call"))

-----------------------------------------------------------------------------
(* Properties.                                                             *)

MainPc == {"start", "wait", "default_ns", "store_ns", "store_worker_ns", "up", "ns_deinit",
           "stop", "join", "end"}
WorkerPc == {"none", "start", "announce", "loop", "round", "bump", "exit_call", "exit",
             "freed", "done"}
ThreadPc == {"none", "idle", "set_default", "set_add", "init_add", "exit_call", "exit", "done"}

\* Every variable keeps its type.
RegTypeOK ==
    /\ state \in {"READY", "RUN", "RUNNING", "STOP", "DONE"}
    /\ ns \subseteq Ns /\ workerNs \subseteq Ns /\ nsLock \in Proc \cup {NoProc}
    /\ threads \in [Ns -> [Record -> Nat]] /\ hung \in [Ns -> [Record -> Nat]]
    /\ record \in [Record -> {"none", "live", "freed"}]
    /\ joined \in [Thread -> SUBSET Ns] /\ open \in [Thread -> SUBSET Ns]
    /\ timed \subseteq Record \X Ns /\ newer \subseteq Record \X Ns
    /\ pc \in [Proc -> MainPc \cup WorkerPc \cup ThreadPc]
    /\ pc[Main] \in MainPc /\ pc[Worker] \in WorkerPc /\ \A t \in Thread : pc[t] \in ThreadPc
    /\ at \in [Proc -> 0 .. NsMax] /\ found \in [Proc -> BOOLEAN]
    /\ failed \in {"no", "init", "worker_init", "thread_init", "worker_ti", "barrier", "remove"}
    /\ excused \subseteq Record

\* No scan misses a reader: however often scans move its elements between the
\* lists while it sets and leaves namespaces, a thread that has set a namespace
\* (line 837) and not left it is on one of the two lists.
ReaderListed == \A t \in Thread : \A i \in joined[t] :
    pc[t] \notin {"exit", "done"} => Entries(i, t) > 0

\* An exit (lines 880-897) leaves no list element that points to the freed
\* record, unless at its begin the thread was on hung_threads or in several
\* namespaces.
OnlyExcusedDangles == \A r \in Record : \A i \in Ns :
    record[r] = "freed" /\ Entries(i, r) > 0 => r \in excused

\* Out of memory apart, the assertions on h->worker_ti (line 700), h->ns[] (22) and
\* h->worker_ns[] (850) fail only when a namespace is removed, or when the exiting
\* thread was excused or never set LRCU_NS_DEFAULT: not because of the order in
\* which start, creation of namespaces, rounds of the worker and stop overlap.
AssertsHold ==
    /\ failed # "worker_ti"
    /\ failed = "barrier" => pc[Main] = "ns_deinit"
    /\ failed = "remove" => \E p \in Record :
           /\ pc[p] = "exit" /\ at[p] \notin workerNs
           /\ p \in Thread /\ 0 \in joined[p] => p \in excused
           /\ p = Worker => workerNs = {}

\* lrcu_init, lrcu_deinit and lrcu_thread_deinit return, unless an assertion
\* fails: nobody waits for ever for worker_state, for the worker or for ns_lock.
CallsReturn ==
    /\ pc[Main] = "wait" ~> pc[Main] \in {"up", "end"} \/ ~Running
    /\ pc[Main] = "join" ~> pc[Main] = "end" \/ ~Running
    /\ \A t \in Thread : pc[t] = "exit" ~> pc[t] = "done" \/ ~Running

\* What the comment at line 905 says of lrcu_thread_deinit, and the loop over all
\* slots (889-891) is for: the exit removes the thread from all its namespaces.
\* (A thread that is not found, says line 860, had failed to set its namespace.)
RemovedFromAll == [][\A t \in Thread :
    pc[t] = "exit" /\ pc'[t] = "done" => \A i \in joined[t] : Entries(i, t) = 0]_vars
=============================================================================
