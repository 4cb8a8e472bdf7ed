# light-rcu in TLA+

light-rcu is a user-space (and kernel-module) RCU library: readers enter and
leave read sections with plain stores to a per-thread record, updaters publish
pointers and hand over unlinked objects with `lrcu_call`, and one worker thread
scans the readers' records, collects the version ranges that are still in use,
and runs the destructors of the objects nobody can still see.
`lrcu_synchronize` does the same scan in the caller's thread. This directory
holds the models, the model-checking configurations and the proofs for it.

All source references are to files below the repository's root: `src/lrcu.c`,
`src/range.c`, `src/spinlock.c`, `include/lrcu/*.h`, `doc/api.txt`.

## 1. Inventory

| component | state | operations | talks to | hard part | what makes it correct |
|---|---|---|---|---|---|
| read sections (`lrcu.c` 103-182) | `lns.counter`, `lns.version` per thread and namespace | `read_lock`, `read_unlock` (nested), `dereference` | read without a lock by every scan | two unsynchronised stores; a scan may run between them | nothing a section dereferenced is destroyed before it ends |
| write side (15-99) | `ns->version`, `write_lock`, the protected pointer | `write_lock/unlock`, `write_barrier`, `assign_pointer`, `assign_ptr` | readers load version and pointer | `version++` is not atomic and the worker does it without the lock | versions never go back; new pointer only with a new version |
| callback queues (186-240, `list.h`) | `free_list`, `free_hlist`, `worker_list`, `worker_hlist` | `lrcu_call`, `lrcu_call_head`, splice, unlink | updaters add, the worker takes all | version read before the list lock; list looked at without lock | no callback lost, none run twice |
| scan and hang detection (270-409) | `ns->threads`, `ns->hung_threads`, `hung_lns`, `timeval` | `__lrcu_get_synchronized` | called by the worker and by synchronizers, under `threads_lock` | torn copies of `lns`, stale `current_version`, threads that hang and come back | every reader that can see a version is in a range that covers it |
| worker (432-551) | `processed_version`, `worker_state` | one loop over the namespaces | scan, queues, barrier | order of splice, scan, callbacks, processed version, bump | destructors only for unseen objects; every callback runs in the end |
| synchronize, barrier (555-613) | locals `current_version`, `ranges[]` | `lrcu_synchronize`, `lrcu_barrier` | scan; the worker's `processed_version` | waiting for sections that were open, and for no others | returns after them, and does return |
| range tree (`range.c`) | `r[]`, `len`, `sorted` | add, optimize (merge, squeeze), find, getmin | the scan fills it; worker and synchronize search it | the array is full; reversed ranges; an empty tree; the array is never cleared | finds every covered version, and no others |
| ticket spinlock (`spinlock.c`) | two 16-bit words in one | lock, unlock, trylock | under every lock above | wrap-around, mixed atomic and plain accesses | mutual exclusion, order of arrival |
| thread registration (790-922) | `lrcu_thread_info`, membership in the lists | thread init/deinit, set_ns/del_ns | scan (same lists), lifecycle | exit of a hung thread, several namespaces | no scan reaches a freed record |
| namespace lifecycle (411-430, 525-539, 618-788) | `h->ns[]`, `h->worker_ns[]`, `worker_state` | init/deinit of library and namespace, destructor, worker start and stop | everything | deferred free of a namespace | a namespace in use is not freed |
| list (`list.h`) | singly linked list | insert, splice, iterate with removal | queues, thread lists | iteration while elements are unlinked or prepended; compare-and-exchange build | the iteration meets each element once and reads no freed one |
| OS layer (`user.h`, `linux.h`) | - | threads, timers, allocation | - | - | - |

`PROJECT.json` lists the components again with what is modelled, and under
`hazards` each place where the code could go wrong in a way a test would
hardly reach, with the properties that look for it.

## 2. Modules

| module | content |
|---|---|
| `Ranges` | what a scan's set of ranges answers: `Covers`, `Lookup`, `FirstMerged` |
| `RangeTree` | `range.c` in full: the array, merging, squeezing, binary search |
| `Lrcu` | one namespace: readers, updaters, scan, hang detection, worker, synchronize, barrier |
| `LrcuInv` | the inductive invariant, in named parts |
| `Rcu` | the abstract specification: what a namespace promises, and the proof that nobody uses a destroyed object if it is kept |
| `LrcuProofs` | types, the invariant, grace periods |
| `LrcuRefinement` | `Lrcu` implements `Rcu`, and inherits its safety |
| `TicketLock`, `FifoLock`, `TicketLockProofs` | the spinlock, the FIFO lock it implements, and its proofs |
| `Registration` | who is on which thread list: start and stop, namespaces, thread init and exit, scans |
| `RegistrationInv`, `RegistrationProofs` | its inductive invariant in named parts, and the proofs |
| `Queues` | one callback queue with its pointers (`list.h`), its callers and the worker's loop |
| `CallQueue` | the abstract queue that `Queues` implements |
| `QueuesInv`, `QueuesProofs` | the inductive invariant of the pointers, its proof, and the proof that `Queues` implements `CallQueue` |
| `RangeTreeInv`, `RangeTreeProofs` | the inductive invariant of the array, and the proofs about sort, merge, squeeze and search |
| `NatInduct` | induction over the natural numbers, for the proofs about lists and ranges |
| `LrcuTso` | `Lrcu` with the readers' stores in store buffers |
| `MCLrcu`, `MCRangeTree`, `MCQueues`, `MCLrcuTso` | instances for TLC |

`Lrcu` does not contain the range array. It keeps the set of ranges a scan has
added and asks `Ranges!Lookup`; `RangeTree` models the array, and its
invariants `FindIsLookup` and `StaleIsFirstMerged`, proved for every array size, say that the array computes
exactly `Lookup` and leaves exactly `FirstMerged` in its first slot as long as
it does not run out of slots, `FindsCovered` that even then it finds whatever a
reader covers. In the same way `Lrcu` has atomic locks, which `TicketLock`
implements (`FifoLock`), queues that are sets, which `Queues` shows to be lists
from which nothing is lost, and threads that are registered all the time, which
`Registration` covers: its `ReaderListed` is what allows `Lrcu` to let every scan
visit every thread.

### 2.1 Lrcu and the code

Every load or store of a word that another thread may change meanwhile is a step
of its own; the program counters name the places between them. (The last load of a
copy of `lns` is one step with what the loop body does, under `threads_lock`.)

| action | code |
|---|---|
| `ReadLock`, `ReadLockLoad`, `ReadLockStore` | `counter++`; load `ns->version`; store `lns->version` (117-122) |
| `Dereference`, `ReadUnlock` | 168-182, 132-164; `held` is what the section still uses |
| `WriteLock`, `WriteLockStore` | take `write_lock` and load the version; store version + 1 (39-40) |
| `AssignLoad`, `AssignStore`, `AssignPtr` | `version++` in two halves, then the pointer (82-94); `AssignPtr` alone is `__lrcu_assign_ptr` |
| `CallLoad`, `CallAdd` | load the version (199, 230); add to the list under its lock |
| `ScanStart`, `ScanLock` | `current_version = ns->version`, then the lock, in that order (275-277) |
| `ScanRead`, then `ScanIdle`, `ScanActive` or `ScanHung` | the two loads of the struct copy `lns = *LRCU_GET_LNS(ti, ns)`, in either order, the second together with what the loop body does |
| `ScanThreadsDone`, `ScanUnlock` | from the first loop to the second; unlock and optimize (407-408) |
| `SyncStart`, `SyncRetry`, `SyncReturn` | 570-581 |
| `BarrierLoad`, `BarrierReturn` | 603-611, after the synchronize at 593 |
| `WorkerSplice`, `WorkerSpliceHead` | 455-475 |
| `WorkerRun`, `WorkerRunDone` | one callback that is not found; `processed_version = getmin` (485-507) |
| `WorkerZero`, `WorkerZeroStore` | the zero case: load the version; store `processed_version` (508-509) |
| `WorkerBumpLoad`, `WorkerBumpStore` | `version++` in two halves (541) |
| `WorkerIdle`, `WorkerIdleStore` | with both worker lists empty: load the version; store `processed_version` (542-544) |
| `TimerExpire` | the passing of `LRCU_HANG_TIMEOUT_S` since the timer was set |

State that no code has: `held` (what a section dereferenced), `old` (an
unlinked object before `lrcu_call`), `fresh`, `freed`, and the histories `due`,
`pre`, `owed`, `setBack`, which no guard reads: the sections that were open when
`lrcu_call` read the version for an object, those that were open when
`lrcu_synchronize` read it, the callbacks that were queued when `lrcu_barrier`
entered its synchronize, and whether a `version++` has ever stored a smaller
version than the one it replaced.

What the model assumes, or leaves out:

- Memory is sequentially consistent. `lrcu_read_lock` has only a compiler
  barrier and a store barrier between its stores and the section's loads;
  `LrcuTso` shows what that means on a processor with store buffers.
- One namespace, a fixed set of registered threads (the worker's own record is
  never in a section and is left out), a worker that is not stopped
  (`Registration` has all three), allocations that succeed, and destructors that
  do not call the library (`Queues` has both).
- Callers behave as `doc/api.txt` asks: dereference inside a section, pointer
  stores under a write lock (`writeLock` may also be read as the caller's own
  lock), one `lrcu_call` per unlinked object, no synchronize in a section.
- Queues are sets: no property depends on their order, and the worker's order
  of `worker_list` before `worker_hlist` is kept.
- What is under `list_lock` or `list_hlock` is one step, since nothing outside
  those locks looks at the lists except the worker's own emptiness test, whose
  only effect is whether the splice happens in this round.
- `Garbage`: what an uninitialised `ranges[]` may hold. The TLC runs of `Lrcu` start
  from zeroes (`NoGarbage`); `MCRangeTree` also starts from an arbitrary range;
  the proofs hold for every `Garbage`.

The three places that increment the version (24, 40, 541) hold no common lock, so
their loads and stores interleave freely in every run. A store may lose the
increments made since its load, and it may take the version back, which `setBack`
records. The safety properties hold in all executions up to that store and not
after it: `lost_bump` shows a destructor run under a reader. They are stated
accordingly (`SafeUntilSetBack`, `GracePeriod`, `SyncWaits`, and `Rcu`, whose promises
become void), so they also say that nothing else goes wrong: increments that are
only lost do no harm. `CalledOnce` and the types have no such exception. `Serial` is
the other half: without overlapping increments the version never goes back, so a
fix of `version++` makes the exception disappear.

### 2.2 Registration and the code

`Registration` leaves out versions and callbacks and keeps what decides on which
lists a record is. A list is a function from records to the number of its
elements that point to them, because `lrcu_thread_set_ns` does not look whether
the thread is there already.

| action | code |
|---|---|
| `LrcuInit`, `LrcuInitWait` | `__lrcu_init` to the creation of the worker; the wait for `worker_state` (631-667), then `lrcu_init` (618-628) |
| `LrcuInitFails`, `WorkerStartFails`, `ThreadInitFails` | no memory, or no thread: the assertions at 621, 441 and 793 |
| `NsInit`, `StoreNs`, `StoreWorkerNs`, `NsInitFails` | `lrcu_ns_init`: lock, assertions and the worker's list element; the two stores (738, 739); no memory (724, 731) |
| `NsDeinit`, `NsDeinitAssert` | `lrcu_ns_deinit`, `lrcu_ns_deinit_safe`: the slot is cleared (758, 776), and `lrcu_write_barrier_ns` asserts that it is set (761, 780) |
| `LrcuDeinit`, `Join` | 678, 680 |
| `WorkerStart` ... `WorkerDone` | `lrcu_worker`: 440, 443, the loop over the slots with the scan and the version bump, 548-549 |
| `ThreadInit`, `SetNs`, `SetNsAdd`, `SetNsFails` | 804-818; the two halves of `lrcu_thread_set_ns` on either side of line 833; no memory |
| `DelNs` | 845-877 |
| `ThreadDeinit`, `RemoveFromNs`, `RemoveAssert`, `FreeRecord` | `thread_destructor_callback` (880-897), one step per slot of its loop |
| `Enter`, `Leave` | `lrcu_read_lock`, `lrcu_read_unlock`, as far as a scan sees them |
| `Scan`, in `WorkerVisit` and `Synchronize` | `__lrcu_get_synchronized`: which elements its two loops move, which timers it sets |

What each process knows of a thread is reduced to what the moves depend on:
`open` (the counter), `timed` (the hang timer is set), `newer` (the version is
greater than `hung_lns.version`); that the timer has expired is a free choice
for each element, and so is which of the active threads have already recorded a
version newer than the scan's `current_version`, which was loaded before the lock
(`ahead`): the second loop takes these back at once and leaves them `newer`. A failed `LRCU_ASSERT`
is a step that ends the behaviour, as `assert` does in user space (in the kernel it is a `WARN`).

Limits: one record per thread, addresses are not reused (a freed record reads
as it was left, outside every section; in the program it may read as anything),
copies of `lns` are not torn (`Lrcu` has that), namespaces are created by one
thread. `lrcu_ns_destructor` and what follows the barrier in the two deinit
functions are not modelled: no execution reaches them with assertions on.

### 2.3 Queues and the code

`head`, `workHead`, `next`, `n`, `nPrev` are the pointers of `list.h` and of
`lrcu_worker`. `Call`, `Link`, `Publish`, `CheckLoop`, `Return` are one
`lrcu_call` or `lrcu_call_head` (allocation under the lock, `e->next`, the head,
`lrcu_list_check_loop`, unlock), the `worker` steps are lines 455-503 with the
macros expanded. `Kind` chooses between the two queues: elements of `free_list`
are allocated by `lrcu_call` and freed by the worker after the destructor;
those of `free_hlist` are the caller's and are unlinked before the destructor
frees them. `Build` chooses `LRCU_LIST_ATOMIC` and `LRCU_LIST_DEBUG`. Which
callbacks may run is left open (`Lrcu` decides it): `Keep` or `Run` for each.
Addresses are reused as soon as they are freed.

`worker_list` is private to the worker, so its stores are made in one step; the
steps of a splice are apart where a caller can see them.

### 2.4 LrcuTso and the code

The reader's two stores go to a buffer that drains at any time, in order; its
loads of `ns->version` and of protected pointers go to memory. `wmb()` is
`sfence` (`include/lrcu/compiler.h:17`), which orders stores among themselves,
as x86 does anyway. Readers take no locks, so nothing else drains the buffer.
Everything else is `Lrcu`.

### 2.5 Bounds

- `MaxVersion`: no updater takes the version beyond it, and the worker bumps
  beyond it only while a queued callback or a synchronize waits for the version
  to move (`CanBump`; otherwise `WorkerSkipBump`). Only the order of versions
  matters. Two to four of them let a section, a retired object, a scan and a
  hang version all be different and reversed ranges appear.
- `MaxNest` (2 in `readers`, else 1): the second level is the only one treated differently.
- One object, two in `hang`: two are needed for one callback to be held back while
  another runs, and for an object to be republished under a reader.
- `MaxAdds` 5 in an array of 3 slots, 4 versions, 0 (a thread that has never stored
  one) among them: merging, squeezing and both in
  turn. The program has 128 slots.
- `Wrap` 4 with 3 threads: the smallest width that exceeds the number of
  threads, so every wrap-around occurs.

- `NsMax` 2 in `registration` (1 in `hung_exit`): with two slots a thread can be
  in several namespaces and the exit loop has a slot before and one behind the
  one it is found in. The repository has `LRCU_NS_MAX` 1 and asks users to add
  their own.
- `MaxEntries` 2: a thread that was hung when it left a namespace and sets it
  again has two elements, which is enough for them to move apart. It is a guard
  of `SetNsAdd` only, and 1 in `hung_exit`. One thread, the main thread and the worker: threads meet only
  at `ns_lock`, and the proofs have any number.
- `Node`: four addresses for two callers and a worker whose destructors also call.
  Three elements are the least with one before, at and behind the cursor.
- `LrcuTso`: one reader, one updater, one object, `MaxVersion` 2; it needs no more
  to fail.

`SYMMETRY` (on the objects) is used in `hang`, which checks an invariant and a
refinement without fairness. `hang` needs `MaxVersion` 4: the
thread then comes back from `hung_threads` with a newer version while a callback
waits for it. To afford that bound the run has one thread in both roles (the
documentation asks for `lrcu_call` inside the read section); `readers` has them
in two threads, with `lrcu_call` where `hang` has `lrcu_call_head`, and the proofs
have any number. `sync` has `MaxVersion` 2 and no updater, because it also checks liveness; a synchronizer that scans while the
worker scans for callbacks, or beside more versions, is covered by the proofs.

## 3. Runs

| run | shows |
|---|---|
| `readers` | types; no use after free until the version is taken back (`SafeUntilSetBack`), and no destructor before the sections open at its `lrcu_call` have ended (`GracePeriod`), whatever they use; no callback lost, queued twice or run twice (`CalledOnce`); what can keep a callback queued for ever: only the stale slot |
| `hang` | the inductive invariant, and `Lrcu` implements `Rcu`, with a thread that reads, updates, is declared hung and comes back while callbacks wait for it |
| `sync` | `lrcu_synchronize` in `lrcu_barrier` waits for every section open at the call, except those of hung threads; the inductive invariant for a synchronizer; what can keep it looping for ever: only the stale slot |
| `ranges` | the range tree against its definition, and the inductive invariant of its proofs |
| `ticket` | the ticket lock excludes, is FIFO, starves nobody |
| `registration` | readers stay listed under every order of scans; an exit leaves no element behind unless the lists were scattered; which assertions can fail, and why; the inductive invariant; init, deinit and exit return |
| `queues` | the pointers implement the abstract queue; nothing is lost, queued twice or leaked; no freed element is read; the inductive invariant of the proofs |
| `lost_bump` | violation: overlapping `version++` takes the version back |
| `sync_returns` | violation: synchronize never returns |
| `barrier` | violation: barrier returns too early |
| `hung_exit` | violation: a thread that exits while hung is not found and stays listed |
| `tso` | violation: a section that is still in the store buffer is not seen |

Every property of a passing run has a mutant in `PROJECT.json`: a plausible bug
(a dropped check, a missing reset, an off-by-one) defined next to the operator
it replaces, which the property must catch.

### 3.1 What the violations say

- **Overlapping increments** (`lost_bump`). `ns->version++` at line 541 is done
  by the worker without a lock, at 40 under `write_lock`, at 24 under whatever
  the caller has. A store of an old value takes the version back, `lrcu_call`
  records a version older than that of a reader already in its section, no range covers it, and
  the destructor runs under the reader.
- **Synchronize without end** (`sync_returns`). A first scan sees an active
  reader and stores `<<v, current>>` in `ranges[0]`. The reader leaves. From then
  on every scan is empty, but the search of an empty tree computes `mid = 0` and
  compares `ranges[0]`, which still covers the caller's version. Only another
  active reader at a later scan changes the slot. The same slot keeps callbacks
  in the worker's list.
- **Barrier** (`barrier`). `processed_version` says nothing about callbacks that
  were in `free_list` when the worker took its round, so a barrier that starts
  after the splice can be released by the end of that round.
- **Exit while hung** (`hung_exit`). A scan moves a thread to `hung_threads`; the
  thread leaves its section and exits before another scan takes it back.
  `thread_remove_from_ns` looks at `ns->threads` only, finds nothing, and the
  record is freed with an element of `hung_threads` pointing to it.
- **Store buffer** (`tso`). The reader's `counter` and `version` are still in its
  store buffer when it loads the pointer; the updater unlinks the object and
  hands it over, the scan reads counter 0, and the worker destroys the object.

What the code does wrong besides, and what the properties that hold say of it:

- Exit from two namespaces: `found = found || ...` at line 890 does not look any
  further once it has found the thread, so its freed record stays listed in the
  second one. `RemovedFromAll` excludes this too: with `NsMax` 2 in `hung_exit.cfg`
  TLC reports it in place of the thread that exits while hung. A caller that leaves its own
  namespaces with `lrcu_thread_del_ns` first avoids it, unless a scan has just moved
  it to `hung_threads`.
- Removal of a namespace: `lrcu_ns_deinit` and `lrcu_ns_deinit_safe` clear `h->ns[id]`
  and then bump the version through it; the assertion at line 22 fails every time
  (`NsDeinitAssert` is all its thread can do after `NsDeinit`).
- Failed start: with `lrcu_ns_init` out of memory, `lrcu_init` stops the worker, whose
  exit asserts `worker_ns[0]` (line 850), so `lrcu_init` does not return NULL.
- The squeeze loop of the range tree (`range.c` 91) stops before the first pair, so
  the first two ranges are never merged unless they are the only ones, however small
  the gap between them; `range.h` 55 speaks of minimal gaps. Readers stay covered
  (`FindsCovered`); more versions than needed are kept.
- The hang timer (line 349) is set at the first scan that sees a thread active and
  cleared only by one that sees it idle, so a thread may be exempted because of a
  section it left long ago. The safety properties are about threads that are not
  exempted.
- `OnlyExcusedDangles` names exactly the threads that may leave a pointer to
  their freed record behind: those that, when their exit began, were on a
  `hung_threads`, or had elements in two namespaces, or had two elements in one (after
  `lrcu_thread_del_ns` while hung). Every other exit is clean.
- `AssertsHold`: apart from the assertions on failed allocations (621, 441, 793), the
  assertion in `lrcu_write_barrier_ns` fails only after `lrcu_ns_deinit` or
  `lrcu_ns_deinit_safe`; the one in `thread_remove_from_ns` only for a thread that has not
  set `LRCU_NS_DEFAULT` and meets an empty slot (`__lrcu_thread_init` alone, or
  `lrcu_thread_init` running out of memory), for an excused one, and for the worker when
  no namespace could be created. What it rules out is that they fail because of
  the order in which start, creation, rounds and stop overlap.
- With `LRCU_LIST_ATOMIC` and `LRCU_LIST_DEBUG` at once, `TouchesLive` does not hold: a
  caller walks the list after its insert, without a lock, while the worker frees its
  elements. The two options are in the instance one at a time.

### 3.2 Fairness

`FairSpec` assumes of the environment: a call that has begun goes on (weak
fairness of its next step), a read section ends (`LeaveSection`), the worker
thread is scheduled, and whoever waits for `threads_lock` gets it (strong
fairness of `ScanLock`, because the lock is free again and again while others
take it in between). The last one is what a ticket lock gives: `ticket` checks
that it is granted in order of arrival and that everyone is served if critical
sections end. Nothing is assumed of updaters starting anything, of
readers entering, or of timers expiring. Without the fairness of the unlock
every RCU waits.

In `Registration` a call that has begun goes on (weak fairness of its next step,
strong fairness where that step waits for `ns_lock`), and nobody has to begin
one. The one thing that is not assumed is that threads ever call
`lrcu_thread_deinit`, so `CallsReturn` speaks of `lrcu_deinit` from the point where it
waits for the worker. `Queues` has safety properties only.

A thread that stays in its section for ever is excluded by the fairness of
`LeaveSection` (strong, since the thread may call other operations in between).

`OnlyStaleSlotKeepsCallback` and `OnlyStaleSlotKeepsSync` are the liveness the
code has: if a callback stays queued (a synchronize keeps looping) for ever,
then from some point on every scan finds no reader at all and the stale slot
covers the version. A fix of the empty search would turn the two into plain
"every callback runs" and "every synchronize returns".

## 4. Proofs

All proofs are checked by TLAPS for arbitrary constants; the assumptions are
those named in the modules (`ThreadAssumption`, `ObjAssumption`,
`BoundAssumption`, `LockAssumption`, `ProcAssumption`, `NsAssumption`,
`NodeAssumption`, `TreeAssumption`). None of the theorems about `Lrcu` restricts how
increments of the version interleave, except `Serial`, which is about that.

- `Invariant`: `IndInv` is inductive. It has a part that always holds (types,
  objects, sections, the lock) and one, `VersionsHold`, that holds until a `version++`
  takes the version back.
- `TypeCorrect`, `RunsOnce` (`CalledOnce`: nothing is lost, nothing runs twice) follow from
  the first part, `Grace` (`GracePeriod`) and `Waiting` (`SyncWaits`) from the second: what
  `lrcu_call` and `lrcu_synchronize` promise about sections, without a word about
  pointers.
- `Serial`: if no two processes are ever both between the load and the store of a
  `version++`, the version never goes back, and the theorems hold without their exception.
- `Implements`: every step of `Lrcu` is a step or a stutter of `Rcu`, until the step
  that takes the version back, which makes the promises of `Rcu` void.
- `NeverUsedAfterFree`, in `Rcu`: a grace period is enough. Whoever uses an object
  took it while it was published, so its section was open when the object was
  handed over. `Safe` (`SafeUntilSetBack`) is this theorem read through
  `Implements`.
- `Exclusion`, `LockTypes`, `LockIsFifo`: the ticket lock excludes and implements
  `FifoLock`, for any number of threads below `Wrap`.

- `RegInvariant`: `RegInv` is inductive; `ReadersAreListed`, `ExitLeavesNothing`,
  `AssertionsHold` and `RegTypes` follow.

Why the invariant is what it is. `GracePeriod` says nothing about a scan in
progress, yet the worker decides by what it has collected. The argument:

1. `VersionInv`: nobody has recorded a version newer than the namespace's, and nobody
   holds one in a register. A store of `version++` keeps this unless it takes the
   version back; a store that only loses increments repeats the version.
2. `RetireInv`: a section that was open when `lrcu_call` or `lrcu_synchronize` read the
   version was entered no later than at the version it read, and keeps that version.
3. `CurInv`: a scan looks up only versions up to its `current_version`; the
   callbacks it decides about were spliced before it began.
4. `CoverInv`: each thread a scan has visited and must wait for is settled: a
   range covers the version, or the thread is on `hung_threads` with an old
   version (`Exempt`). Both clients use one definition, `Waits`: the worker waits
   for `t` at `v` if `t`'s section has been open since the `lrcu_call` of a callback
   of version `v`, a synchronize if it has been since the synchronize was called.
5. `PartInv`: what a half-made copy of `lns` may get wrong. A counter read as 0 is
   of a thread nobody waits for; a version read early is not newer than the real
   one, and equal to it if the thread is waited for (its section is open, so
   its version does not change).
6. `FreedInv`: a destroyed object has outlived the sections due to it, except those
   of exempt threads, and exempt threads stay so until their section ends.

`LrcuRefinement` maps the objects handed over, those between the two steps of
`lrcu_call` included, to `retired`, `hungThreads` to `stalled`, `pre` to `waiting` and
`due` to itself. The abstract `Retire` is the load of the version (`CallLoad`), since
that is the point from which sections count; adding to the list stutters. It uses
`IndInv` for `Retire` (an object is handed over once), `Reclaim` (only stalled
threads' sections are still due), `Recover` (a thread that is taken back is in no
section that a destroyed object should have outlived) and `WaitEnd`.

`TicketLockProofs` shows that the tickets of those in line are pairwise
different and lie in the window of `users - ticket` numbers, counted modulo
`Wrap`; the window never closes because there are fewer threads than numbers.

`RegInv` is what the four registration theorems need of each other. `PhaseInv`,
`RecordInv`: the main thread and the worker start each other in order, so
`worker_ti` is set when `lrcu_ns_init` asserts it. `LockInv`: `ns_lock` excludes.
`SlotInv`: `ns[]` and `worker_ns[]` differ only while a namespace is created or
removed, and nobody is registered in a slot the worker does not visit. `ListInv`:
a scan preserves how many elements point to a record (`ScanKeeps`), whichever list
they are on, and does not move those of a thread outside its sections; hence
registered readers stay listed and the worker stays on `ns->threads`. `ExitInv`,
`SearchInv`: while a thread that is not excused exits, no scan touches its one
element, so the loop finds it, takes it off and leaves nothing.

`LockIsFifo` needs no more than that: whoever drew the ticket `i` places behind the
one now served is at place `i + 1` of the abstract line, so an unlock, which
advances `ticket` by one, takes the head off, and a trylock that finds
`ticket = users` finds the line empty.

### 4.1 The queues

`QueueInvariant`: `QueueInv` is inductive. It says what the pointers mean:
`head`, `workHead` and, in the middle of an atomic splice, `chain` start three
proper lists (`Lists`), no element is on two of them or also on its way in, and
every allocated one is somewhere (`Places`). `Cursor` places the worker's
iteration: `j` elements have been kept, `nPrev` is the last of them, and `n` is
either the next one or an element that has just been unlinked, which may have been
freed and inserted again by then. That is the disjunction on which
`__lrcu_list_for_each_get___n` decides, and the reason why comparing
`next[nPrev]` with `n` is enough: an address that comes back is on the other list,
never behind `nPrev`. `HeldInv` says what `list_lock` protects in the build
without compare-and-exchange.

`Path` cuts the walk off after as many steps as there are addresses. That it
returns exactly the linked list is shown by induction on the number of elements left.
From the invariant:

- `QueueTypes`, `QueueEachOnce`: for every set of builds and both kinds of queue.
- `QueueTouchesLive`: if no build has both `LRCU_LIST_ATOMIC` and
  `LRCU_LIST_DEBUG`; with both it is false (3.1). `defines.h` sets one of them.
- `QueueRefines`: `Queues` implements `CallQueue`. `head` changes at one store of an
  insertion and that is the abstract insert; a splice is abstractly done at the step
  that makes the elements the worker's (`Splice`, or `Reset` with compare-and-exchange),
  and its other steps stutter; the cursor maps to the number `j` of `Cursor`, so unlinking the element at `n` and
  stepping over an address that has been used again both leave the abstract
  position where it should be.

### 4.2 The range tree

`TreeInvariant`: `TreeInv` is inductive. Five parts of `range.c` come first, each by
itself, for arrays of any length:

- `SortedIs`: `qsort` is any order that `cmp_ranges` accepts; one exists
  (`OrderExists`), and it holds the same ranges.
- `RemoveMerges`: after `i` iterations of the merge the segments are apart, sorted,
  and answer as the first `i` ranges do (`Merged`). `SameAnswers` is what
  "answers" means: the same versions are covered, and the first segment ends at the
  same place. The second half speaks of reversed ranges as well, which cover
  nothing but still decide where merging goes on.
- `SqueezeKeeps`: the pair that is squeezed is neither reversed the wrong way nor
  out of order, so no version up to `cur` is lost. It needs that every reversed
  range ends at `cur`, which is so because a reversed range comes from a reader
  newer than the scan.
- `SearchFinds`: the window shrinks, so the search ends (`FindExists`), and the slots
  it gives up cannot hold the version (`NarrowedKeeps`), reversed ones included.
- `FindAnswers`: an empty array answers for its stale slot, any other for its segments.

`TreeTypes`, `TreeFindsCovered`, `TreeFindIsLookup`, `TreeFindsBetween`,
`TreeMinIsOldest` and `TreeStaleIsFirstMerged` follow, for every capacity from two
up, every number of ranges and every content of the uninitialised array. So the
two facts about the array that `Lrcu` is built on hold of the 128 slots of the program,
as long as a scan does not squeeze; when it does, `TreeFindsCovered` still holds,
and that is the half on which safety depends.

### 4.3 How induction is done

The modules that are proved about declare no recursive operator: the walk along a list,
the merge and the search are recursive functions. For each the proofs show first that the
recursion has a solution, then what the solution computes, by `NatInduct!Induct`,
which gives induction in the form of a set of numbers that contains 0 and with
each number the next; it rests on the well-foundedness of the natural numbers.

### 4.4 Only model-checked

Everything under fairness: `OnlyStaleSlotKeepsCallback`, `OnlyStaleSlotKeepsSync`,
`NoStarvation`, `CallsReturn` (the proof system has no fairness and no `ENABLED`).
Every other property of a passing run is also a theorem, under the hypotheses named
above.

## 5. Not modelled, and the plan

Done, in this order: `Ranges`, `Lrcu`, `LrcuInv`, `Rcu`, `RangeTree`, `TicketLock`,
`FifoLock`, their proofs, `Registration` and its proofs, `Queues`, `LrcuTso`, the
refinement of `FifoLock`, the proofs about `Queues` and `RangeTree`, grace
periods (`due`) with the proof that `Rcu` implies what it is for, and the proofs
about `Lrcu` for increments that overlap (`setBack`).
What could still be added:

1. Composition of `TicketLock` with the scan, so that the strong fairness of
   `ScanLock` is derived instead of assumed.
2. `LrcuTso` with `mfence` in place of `sfence`, as the corrected design, and with
   the other threads' stores buffered too.
3. Several elements of one thread, and freed records, in `Lrcu` itself.

Not modelled:

- `lrcu_ns_destructor` (411-430), its call in the worker (525-539), the rest of
  `lrcu_ns_deinit` (781-784) and `lrcu_ns_init` of a slot that is pending removal
  (702-721): they follow an assertion that always fails.
- `lrcu_ptr_init` and the getters: they store or read one field.
- `lrcu_rangetree_init`, `deinit`, `print`: not called by the library.
- `src/list.h`: an older copy of `include/lrcu/list.h` that no file includes.
- The OS layer (`user.h`, `linux.h`, `linux.c`, the kernel-module example), tests
  and examples: macros over pthreads and the kernel, and clients of the library.
