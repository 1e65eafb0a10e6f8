CONSTANTS
    ComRequests = {r1, r2, r3}
    Grouped = {r1, r2}
    Addrs = {a1, a2, a3}
    Null = Null
    Reuses = FALSE
SPECIFICATION GroupSpec
INVARIANTS
    SettledRequestsHaveResponses
    ResponsesComeUnderTheirHandle
CHECK_DEADLOCK FALSE
