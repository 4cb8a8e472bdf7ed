SPECIFICATION FairSpec
CONSTANTS
    Proc = {p1, p2, p3}
    Wrap = 4
    NoOwner = NoOwner
INVARIANTS LockTypeOK MutualExclusion
PROPERTIES Fifo NoStarvation
