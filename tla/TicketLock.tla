----------------------------- MODULE TicketLock -----------------------------
(***************************************************************************)
(* The ticket spinlock (src/spinlock.c) behind write_lock, threads_lock,    *)
(* list_lock, list_hlock and ns_lock: two 16-bit words, ticket (now served) *)
(* and users (next to be given), in one 32-bit word.                        *)
(***************************************************************************)
EXTENDS Naturals, FiniteSets, Sequences

CONSTANTS
    Proc,         \* the threads that use the lock
    Wrap,         \* 2^16 in the program: where ticket and users wrap around
    NoOwner       \* the owner of a free lock

ASSUME LockAssumption ==
    /\ IsFiniteSet(Proc) /\ NoOwner \notin Proc
    /\ Wrap \in Nat /\ Cardinality(Proc) < Wrap

VARIABLES
    ticket,       \* t->s.ticket
    users,        \* t->s.users
    pc,           \* where each thread is
    me            \* its local: the ticket drawn, tried, or about to be passed on

vars == <<ticket, users, pc, me>>

\* Mutant: the word does not wrap around.
SuccUnbounded(x) == x + 1
Succ(x) == (x + 1) % Wrap
Goto(p, from, to) == pc[p] = from /\ pc' = [pc EXCEPT ![p] = to]
Draw(p) == me' = [me EXCEPT ![p] = users]

-----------------------------------------------------------------------------
\* lrcu_spin_lock: one atomic fetch-and-add, then a loop that only reads.
Lock(p) ==
    /\ Goto(p, "idle", "spin")
    /\ Draw(p)
    /\ users' = Succ(users)
    /\ UNCHANGED ticket

\* Mutant: waits for a free lock, not for its own ticket.
EnterUnordered(p) ==
    /\ \A q \in Proc : pc[q] \notin {"locked", "unlock"}
    /\ Goto(p, "spin", "locked")
    /\ UNCHANGED <<ticket, users, me>>

Enter(p) ==
    /\ ticket = me[p]
    /\ Goto(p, "spin", "locked")
    /\ UNCHANGED <<ticket, users, me>>

\* lrcu_spin_unlock: t->s.ticket++ is a plain load and a plain store.
Unlock(p) ==
    /\ Goto(p, "locked", "unlock")
    /\ me' = [me EXCEPT ![p] = ticket]
    /\ UNCHANGED <<ticket, users>>

UnlockStore(p) ==
    /\ Goto(p, "unlock", "idle")
    /\ ticket' = Succ(me[p])
    /\ UNCHANGED <<users, me>>

\* lrcu_spin_trylock: a plain load of users, then one compare-and-swap of the
\* whole word against "nobody holds it and users is still the same".
TryRead(p) ==
    /\ Goto(p, "idle", "try")
    /\ Draw(p)
    /\ UNCHANGED <<ticket, users>>

\* Mutant: compares only users, the half it has read.
TryTakeUsers(p) ==
    /\ users = me[p]
    /\ Goto(p, "try", "locked")
    /\ users' = Succ(me[p])
    /\ UNCHANGED <<ticket, me>>

\* Mutant: compares only ticket.
TryTakeTicket(p) ==
    /\ ticket = me[p]
    /\ Goto(p, "try", "locked")
    /\ users' = Succ(me[p])
    /\ UNCHANGED <<ticket, me>>

TryTake(p) ==
    /\ ticket = me[p] /\ users = me[p]
    /\ Goto(p, "try", "locked")
    /\ users' = Succ(me[p])
    /\ UNCHANGED <<ticket, me>>

TryBusy(p) ==
    /\ ~(ticket = me[p] /\ users = me[p])
    /\ Goto(p, "try", "idle")
    /\ UNCHANGED <<ticket, users, me>>

-----------------------------------------------------------------------------
Init ==
    /\ ticket = 0 /\ users = 0
    /\ pc = [p \in Proc |-> "idle"] /\ me = [p \in Proc |-> 0]

Next == \E p \in Proc : \/ Lock(p)   \/ Enter(p)       \/ TryRead(p) \/ TryTake(p)
                        \/ Unlock(p) \/ UnlockStore(p) \/ TryBusy(p)

Spec == Init /\ [][Next]_vars

\* A thread that spins keeps reading, and a critical section ends.
FairSpec == Spec /\ \A p \in Proc : /\ WF_vars(Enter(p))  /\ WF_vars(UnlockStore(p))
                                    /\ WF_vars(Unlock(p)) /\ WF_vars(TryTake(p) \/ TryBusy(p))

-----------------------------------------------------------------------------
(* Properties.                                                             *)

\* Every variable keeps its type, ticket and users their 16 bits.
LockTypeOK ==
    /\ ticket \in 0 .. Wrap - 1 /\ users \in 0 .. Wrap - 1
    /\ pc \in [Proc -> {"idle", "spin", "try", "locked", "unlock"}]
    /\ me \in [Proc -> 0 .. Wrap - 1]

Owns(p) == pc[p] \in {"locked", "unlock"}

\* No two threads are between lrcu_spin_lock, or a lrcu_spin_trylock that
\* returned 0, and the store of lrcu_spin_unlock, wrap-around or not.
MutualExclusion == \A p, q \in Proc : Owns(p) /\ Owns(q) => p = q

\* Whoever draws a ticket in lrcu_spin_lock gets the lock, whatever the others
\* and their trylocks do.
NoStarvation == \A p \in Proc : pc[p] = "spin" ~> pc[p] = "locked"

\* Those who drew a ticket and have not passed it on, in ticket order.
InLine(p) == pc[p] = "spin" \/ Owns(p)
Line == LET length == (users + Wrap - ticket) % Wrap
        IN [i \in 1 .. length |->
                CHOOSE p \in Proc : InLine(p) /\ me[p] = (ticket + i - 1) % Wrap]

\* The lock is granted in ticket order, and a try never overtakes anyone.
Abstract == INSTANCE FifoLock WITH
    line  <- Line,
    owner <- IF \E p \in Proc : Owns(p) THEN CHOOSE p \in Proc : Owns(p) ELSE NoOwner
Fifo == Abstract!Spec
=============================================================================
