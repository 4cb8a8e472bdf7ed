------------------------------ MODULE MCQueues ------------------------------
(* The builds of defines.h:19-20 as records.                                *)
EXTENDS QueuesInv

Default == [atomic |-> FALSE, check |-> TRUE]
Atomic == [atomic |-> TRUE, check |-> FALSE]

MCBuilds == {Default, Atomic}
=============================================================================
