------------------------------ MODULE FifoLock ------------------------------
(***************************************************************************)
(* What a ticket lock promises: one owner at a time, granted in the order   *)
(* of arrival; a try succeeds only on a lock nobody holds or waits for.     *)
(***************************************************************************)
EXTENDS Sequences

CONSTANTS Proc, NoOwner
VARIABLES line, owner    \* everyone who arrived and has not left; who holds the lock

lockVars == <<line, owner>>

Init == line = <<>> /\ owner = NoOwner

Arrive(p)  == line' = Append(line, p) /\ UNCHANGED owner
Acquire(p) == /\ line # <<>> /\ Head(line) = p /\ owner = NoOwner
              /\ owner' = p /\ UNCHANGED line
Try(p)     == line = <<>> /\ line' = <<p>> /\ owner' = p
Release(p) == owner = p /\ owner' = NoOwner /\ line' = Tail(line)

Next == \E p \in Proc : Arrive(p) \/ Acquire(p) \/ Try(p) \/ Release(p)

Spec == Init /\ [][Next]_lockVars
=============================================================================
