SPECIFICATION Spec
CONSTANTS
    r1 = r1  r2 = r2  u1 = u1  s1 = s1  o1 = o1  o2 = o2
    Thread = {u1}
    Reader = {u1}
    Updater = {u1}
    Syncer = {u1}
    BarrierCaller = {u1}
    HangProne = {}
    Obj = {o1}
    Worker = worker  NoObj = NoObj  NoProc = NoProc
    Kinds = {"list"}
    Garbage <- NoGarbage
    MaxVersion = 2
    MaxNest = 1
PROPERTIES BarrierDrains
