SPECIFICATION Spec
CONSTANTS
    Thread = {t1}
    Main = main
    Worker = worker
    NoProc = NoProc
    NsMax = 1
    MaxEntries = 1
PROPERTIES RemovedFromAll
CHECK_DEADLOCK FALSE
