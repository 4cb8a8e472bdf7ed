----------------------------- MODULE CallQueue ------------------------------
(***************************************************************************)
(* What a callback queue of light-rcu promises: a queued element is in one  *)
(* place, the worker takes all that is pending behind what it has, and each *)
(* of its rounds comes to every element once, in order, to run or keep it.  *)
(***************************************************************************)
EXTENDS Naturals, Sequences

CONSTANT Node

VARIABLES
    pending,     \* queued and not yet taken, the youngest first
    batch,       \* taken by the worker
    round,       \* whether the worker is going through batch
    pos          \* how many elements this round has kept so far

vars == <<pending, batch, round, pos>>

Members(s) == {s[i] : i \in 1 .. Len(s)}
Without(s, i) == SubSeq(s, 1, i - 1) \o SubSeq(s, i + 1, Len(s))

Init == pending = <<>> /\ batch = <<>> /\ round = FALSE /\ pos = 0

Push(e) ==
    /\ e \notin Members(pending) \cup Members(batch)
    /\ pending' = <<e>> \o pending
    /\ UNCHANGED <<batch, round, pos>>

TakeAll ==
    /\ ~round
    /\ batch' = batch \o pending /\ pending' = <<>>
    /\ UNCHANGED <<round, pos>>

Begin == ~round /\ round' = TRUE /\ UNCHANGED <<pending, batch, pos>>

Keep ==
    /\ round /\ pos < Len(batch)
    /\ pos' = pos + 1
    /\ UNCHANGED <<pending, batch, round>>

Run ==
    /\ round /\ pos < Len(batch)
    /\ batch' = Without(batch, pos + 1)
    /\ UNCHANGED <<pending, round, pos>>

End ==
    /\ round /\ pos = Len(batch)
    /\ round' = FALSE /\ pos' = 0
    /\ UNCHANGED <<pending, batch>>

Next == TakeAll \/ Begin \/ Keep \/ Run \/ End \/ \E e \in Node : Push(e)

Spec == Init /\ [][Next]_vars
=============================================================================
