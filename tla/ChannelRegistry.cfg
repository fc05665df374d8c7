CONSTANTS
    c1 = c1
    c2 = c2
    c3 = c3
    f1 = f1
    f2 = f2
    Channels = {c1, c2, c3}
    Fds = {f1, f2}
    TokenBits = 4
    MaxGeneration = 3
    NoChannel = NoChannel
    NoFd = NoFd
SYMMETRY Symmetry
CHECK_DEADLOCK FALSE
SPECIFICATION Spec
INVARIANTS
    RegistrationsAgree
    DataIsSignalled
PROPERTIES
    EventsReachTheirChannel
