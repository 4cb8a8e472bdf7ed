SPECIFICATION Spec
CONSTANTS
    Caller = {c1, c2}
    Worker = worker
    Node = {n1, n2, n3, n4}
    NULL = NULL
    NoProc = NoProc
    Build <- MCBuilds
    Kind = {"list", "hlist"}
INVARIANTS QTypeOK EachOnce TouchesLive QueueInv
PROPERTIES ImplementsCallQueue
