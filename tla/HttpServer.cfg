CONSTANTS
    Requests = {r1}
    Sockets = {s1, s2}
    Conns = {c1, c2}
    NoSocket = NoSocket
    Owner = Owner
    User = User
    Reuses = FALSE
SPECIFICATION ServerSpec
INVARIANTS
    OpenSocketsHaveConnections
PROPERTIES
    FirstAnswerIsFinal
    WaitsOfTheServerEnd
CHECK_DEADLOCK FALSE
