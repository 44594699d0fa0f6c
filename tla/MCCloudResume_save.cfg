SPECIFICATION Spec
CONSTANTS
    Apps = {SOCKET, ONENET, CDP}
    Sockets = {SOCKET}
    KeepAlive = {CDP}
    Addrs = {i1, i2}
    None = None
SYMMETRY AddrSymmetry
INVARIANTS TypeOK SavedSessionSurvives FlaggedIsNotLive GivenUpIsNotResumed
