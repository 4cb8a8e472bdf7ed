SPECIFICATION FairSpec
CONSTANTS
    r1 = r1  r2 = r2  u1 = u1  s1 = s1  o1 = o1  o2 = o2
    Thread = {r1, u1}
    Reader = {r1}
    Updater = {u1}
    Syncer = {}
    BarrierCaller = {}
    HangProne = {r1}
    Obj = {o1}
    Worker = worker  NoObj = NoObj  NoProc = NoProc
    Kinds = {"list"}
    Garbage <- NoGarbage
    MaxVersion = 3
    MaxNest = 2
INVARIANTS TypeOK SafeUntilSetBack GracePeriod CalledOnce
PROPERTIES OnlyStaleSlotKeepsCallback
