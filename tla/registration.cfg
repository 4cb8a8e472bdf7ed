SPECIFICATION FairSpec
CONSTANTS
    Thread = {t1}
    Main = main
    Worker = worker
    NoProc = NoProc
    NsMax = 2
    MaxEntries = 2
INVARIANTS RegTypeOK ReaderListed OnlyExcusedDangles AssertsHold RegInv
PROPERTIES CallsReturn
CHECK_DEADLOCK FALSE
