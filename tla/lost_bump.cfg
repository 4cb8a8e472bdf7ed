SPECIFICATION Spec
CONSTANTS
    r1 = r1  r2 = r2  u1 = u1  s1 = s1  o1 = o1  o2 = o2
    Thread = {r1, u1}
    Reader = {r1}
    Updater = {u1}
    Syncer = {}
    BarrierCaller = {}
    HangProne = {}
    Obj = {o1, o2}
    Worker = worker  NoObj = NoObj  NoProc = NoProc
    Kinds = {"list"}
    Garbage <- NoGarbage
    MaxVersion = 3
    MaxNest = 1
INVARIANTS NoUseAfterFree
