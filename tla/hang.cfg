SPECIFICATION Spec
CONSTANTS
    r1 = r1  r2 = r2  u1 = u1  s1 = s1  o1 = o1  o2 = o2
    Thread = {r1}
    Reader = {r1}
    Updater = {r1}
    Syncer = {}
    BarrierCaller = {}
    HangProne = {r1}
    Obj = {o1, o2}
    Worker = worker  NoObj = NoObj  NoProc = NoProc
    Kinds = {"hlist"}
    Garbage <- NoGarbage
    MaxVersion = 4
    MaxNest = 1
SYMMETRY Symmetry
INVARIANTS IndInv
PROPERTIES Refines
