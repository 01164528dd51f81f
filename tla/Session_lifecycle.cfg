\* Two sessions, a client, a workspace that closes and a server that crashes.
SPECIFICATION Spec
CONSTANTS
    s1 = s1
    s2 = s2
    w1 = w1
    c1 = c1
    None = None
    Sessions = {s1, s2}
    Workspaces = {w1}
    Callers = {c1}
    MaxFaults = 1
INVARIANTS
    TypeOK
    LiveHasTerminal
    OnlyTheLiving
    CloseLeavesNothing
PROPERTIES
    CallsReturn
CHECK_DEADLOCK FALSE
