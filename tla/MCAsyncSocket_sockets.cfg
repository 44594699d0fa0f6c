SPECIFICATION Spec
CONSTANTS
    f1 = f1
    f2 = f2
    Fd <- MCFd
    Opens <- MCOpens
    MaxSocket = 1
    QueueLen = 2
    MaxSent = 2
    NULL = NULL
INVARIANTS TypeOK TableMatchesSockets OnlySktThreadFaults SizesAddUp
PROPERTY CallsReturn
CHECK_DEADLOCK FALSE
