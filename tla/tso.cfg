SPECIFICATION TsoSpec
CONSTANTS
    Thread = {r1, u1}
    Reader = {r1}
    Updater = {u1}
    Syncer = {}
    BarrierCaller = {}
    HangProne = {}
    Obj = {o1}
    Worker = worker  NoObj = NoObj  NoProc = NoProc
    Kinds = {"list"}
    Garbage <- NoGarbage
    MaxVersion = 2
    MaxNest = 1
INVARIANTS NoUseInSection
