------------------------------ MODULE LrcuInv -------------------------------
(***************************************************************************)
(* The inductive invariant behind GracePeriod and SyncWaits, and behind the *)
(* refinement of Rcu, from which NoUseAfterFree follows.                    *)
(*                                                                         *)
(* The worker and lrcu_synchronize use one argument.  A scanner p has to    *)
(* wait for thread t at version v when Waits(p, t, v): t has been in its    *)
(* read section since before a call of version v, the lrcu_call of a        *)
(* callback the worker has to run or the lrcu_synchronize p itself is in.   *)
(* A scan settles such a pair when it collects a range around v or finds t  *)
(* on hung_threads with a version no newer than its hang version (Exempt).  *)
(***************************************************************************)
EXTENDS Lrcu

Waits(p, t, v) ==
    IF p = Worker THEN \E c \in Listed(workList) : c.ver = v /\ t \in due[c.obj]
                  ELSE t \in pre[p] /\ v = target[p]

\* The versions scanner p looks up in its ranges.
Sought(p) == IF p = Worker THEN {c.ver : c \in Listed(workList)} ELSE {target[p]}

InRange(p, v) == \E range \in rbt[p] : Covers(range, v)
Exempt(t) == t \in hungThreads /\ lversion[t] <= hungVersion[t]
Settled(p, t, v) == InRange(p, v) \/ Exempt(t)

HoldsLock(p) == pc[p] \in {"s_threads", "s_hung"}
Scanned(p) == HoldsLock(p) \/ pc[p] \in {"w_run", "y_find"}
Scanning(p) == Scanned(p) \/ pc[p] = "s_lock"

\* No recorded version is newer than the namespace's.
VersionInv ==
    /\ \A p \in Proc : reg[p] <= version
    /\ \A t \in Thread : lversion[t] <= version
    /\ \A t \in Thread : pc[t] = "rl_store" => lversion[t] <= reg[t]
    /\ \A c \in Queued : c.ver <= version
    /\ \A t \in Syncer : target[t] <= version

\* An object is fresh, published, kept by one updater, queued once, or freed.
ObjInv ==
    /\ ptr \notin fresh \cup freed /\ fresh \cap freed = {}
    /\ \A c \in Queued : c.obj \notin fresh \cup freed \cup {ptr}
    /\ \A t \in Thread : old[t] \in Obj =>
          /\ old[t] \notin fresh \cup freed \cup {ptr}
          /\ \A c \in Queued : c.obj # old[t]
          /\ \A s \in Thread : old[s] = old[t] => s = t
    /\ \A t \in Thread : pc[t] = "call_add" => old[t] \in Obj
    /\ CalledOnce

\* Only a thread inside its read section is waited for.
ReaderInv ==
    /\ \A t \in Thread : pc[t] \in {"rl_load", "rl_store"} => counter[t] > 0
    /\ \A s \in Syncer : /\ pre[s] # {} => pc[s] \in SyncPc
                        /\ \A t \in pre[s] : InSection(t)
    /\ \A o \in Obj : \A t \in due[o] : InSection(t)

\* A section that a call has to wait for was entered no later than its version.
RetireInv == \A t \in Thread :
    /\ \A s \in Thread : pc[s] = "call_add" /\ t \in due[old[s]] => lversion[t] <= reg[s]
    /\ \A c \in Queued : t \in due[c.obj] => lversion[t] <= c.ver
    /\ \A s \in Syncer : t \in pre[s] => lversion[t] <= target[s]

\* threads_lock protects the scan; its first loop visits the threads that are
\* not hung, its second loop those that are.
LockInv ==
    /\ \A p \in Proc : HoldsLock(p) => threadsLock = p
    /\ threadsLock = NoProc => part = NoPart
    /\ \A p \in Proc : pc[p] = "s_threads" => todo \cap hungThreads = {}
    /\ \A p \in Proc : pc[p] = "s_hung" => todo \subseteq hungThreads

\* A scan looks for versions no newer than the current_version it started with.
CurInv == \A p \in Scanner : Scanning(p) =>
    \A t \in Thread : \A v \in Sought(p) : Waits(p, t, v) => v <= cur[p]

\* What a half-made copy of lns may be wrong about: not about a thread that is
\* waited for, nor about one whose section a destroyed object did not outlive.
PartInv == part # NoPart =>
    /\ part.field = "counter" /\ part.val = 0 =>
          /\ \A o \in freed : Seen \notin due[o]
          /\ \A p \in Scanner : Scanned(p) => \A v \in Sought(p) : ~Waits(p, Seen, v)
    /\ part.field = "version" =>
          /\ part.val <= lversion[Seen]
          /\ \A p \in Scanner : HoldsLock(p) =>
                \A v \in Sought(p) : Waits(p, Seen, v) => part.val = lversion[Seen]

\* Every thread a scan has visited is settled for every version it waits for.
CoverInv == \A p \in Scanner : \A t \in Thread : \A v \in Sought(p) :
    Waits(p, t, v) =>
        /\ pc[p] = "s_threads" /\ t \notin todo /\ t \notin hungThreads => InRange(p, v)
        /\ pc[p] = "s_hung" /\ t \notin todo => Settled(p, t, v)
        /\ pc[p] \in {"w_run", "y_find"} => Settled(p, t, v)

\* An object outlives the sections it is due to, those of exempt threads
\* excepted, and they stay exempt.
FreedInv == \A o \in freed : \A t \in due[o] : Exempt(t)

\* Types, objects, sections and the lock need nothing of the version.  The rest
\* compares versions and lasts until a version++ takes the version back.
VersionsHold == /\ VersionInv /\ RetireInv /\ CurInv
                /\ PartInv    /\ CoverInv  /\ FreedInv

IndInv == /\ TypeOK /\ ObjInv /\ ReaderInv /\ LockInv
          /\ setBack \/ VersionsHold
=============================================================================
