SPECIFICATION FairSpec
CONSTANTS
    r1 = r1  r2 = r2  u1 = u1  s1 = s1  o1 = o1  o2 = o2
    Thread = {r1, s1}
    Reader = {r1}
    Updater = {}
    Syncer = {s1}
    BarrierCaller = {s1}
    HangProne = {r1}
    Obj = {o1}
    Worker = worker  NoObj = NoObj  NoProc = NoProc
    Kinds = {"list"}
    Garbage <- NoGarbage
    MaxVersion = 2
    MaxNest = 1
INVARIANTS IndInv
PROPERTIES SyncWaits OnlyStaleSlotKeepsSync
