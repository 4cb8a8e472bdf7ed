------------------------------ MODULE LrcuTso -------------------------------
(***************************************************************************)
(* Lrcu on x86 (include/lrcu/compiler.h: wmb is sfence, which does not make *)
(* loads wait for stores): what a reader stores to its lns is in its store  *)
(* buffer until the processor drains it, while it goes on to load pointers. *)
(* The stores of the others are not delayed, which they may be as well.     *)
(***************************************************************************)
EXTENDS Lrcu, Sequences

VARIABLE buffer      \* stores to counter and lns.version, the oldest first
tsoVars == <<vars, buffer>>

Store == [field : {"counter", "version"}, val : Nat]
Put(t, f, v) == buffer' = [buffer EXCEPT ![t] = Append(@, [field |-> f, val |-> v])]

\* A thread reads its own latest store.
OwnCounter(t) ==
    LET mine == {i \in DOMAIN buffer[t] : buffer[t][i].field = "counter"}
    IN IF mine = {} THEN counter[t]
       ELSE buffer[t][CHOOSE i \in mine : \A j \in mine : j <= i].val

TsoReadLock(t) ==
    /\ t \in Reader /\ OwnCounter(t) < MaxNest
    /\ Goto(t, "idle", IF OwnCounter(t) = 0 THEN "rl_load" ELSE "idle")
    /\ Put(t, "counter", OwnCounter(t) + 1)
    /\ UNCHANGED <<nsVars, reg, readVars, hungVars, updVars, listVars, scanVars, syncVars>>

TsoReadLockStore(t) ==
    /\ Goto(t, "rl_store", "idle")
    /\ Put(t, "version", reg[t])
    /\ reg' = [reg EXCEPT ![t] = 0]
    /\ UNCHANGED <<nsVars, readVars, hungVars, updVars, listVars, scanVars, syncVars>>

TsoDereference(t) ==
    /\ t \in Reader /\ pc[t] = "idle" /\ OwnCounter(t) > 0
    /\ ptr \in Obj \ held[t]
    /\ held' = [held EXCEPT ![t] = @ \cup {ptr}]
    /\ UNCHANGED <<nsVars, pc, reg, counter, lversion, hungVars, updVars, listVars, scanVars,
                   syncVars, buffer>>

TsoReadUnlock(t) ==
    /\ t \in Reader /\ pc[t] = "idle" /\ OwnCounter(t) > 0
    /\ Put(t, "counter", OwnCounter(t) - 1)
    /\ held' = [held EXCEPT ![t] = IF OwnCounter(t) = 1 THEN {} ELSE @]
    /\ UNCHANGED <<nsVars, pc, reg, counter, lversion, hungVars, updVars, listVars, scanVars,
                   syncVars>>

\* The oldest store of a buffer reaches memory.
Drain(t) ==
    /\ buffer[t] # <<>>
    /\ LET s == Head(buffer[t])
       IN IF s.field = "counter"
          THEN counter' = [counter EXCEPT ![t] = s.val] /\ UNCHANGED lversion
          ELSE lversion' = [lversion EXCEPT ![t] = s.val] /\ UNCHANGED counter
    /\ buffer' = [buffer EXCEPT ![t] = Tail(@)]
    /\ UNCHANGED <<nsVars, pc, reg, held, hungVars, updVars, listVars, scanVars, syncVars>>

TsoInit == Init /\ buffer = [t \in Thread |-> <<>>]

\* Readers take no lock, whose locked instructions would drain their buffer:
\* Reader and Updater are disjoint here.
TsoNext ==
    \/ \E t \in Thread : \/ TsoReadLock(t) \/ TsoReadLockStore(t) \/ TsoDereference(t)
                         \/ TsoReadUnlock(t) \/ Drain(t)
    \/ /\ \/ \E t \in Thread : ReadLockLoad(t) \/ UpdaterStep(t) \/ TimerExpire(t)
          \/ \E p \in Scanner : ScanStep(p)
          \/ WorkerStep
       /\ UNCHANGED buffer

TsoSpec == TsoInit /\ [][TsoNext]_tsoVars

\* What the test light-access-check asserts in its reader (line 50): what a
\* section dereferenced has not been destroyed.  (Not for the reason that the
\* version was taken back, which lost_bump shows.)
NoUseInSection == setBack \/ \A t \in Thread : held[t] \cap freed = {}
=============================================================================
