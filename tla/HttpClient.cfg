CONSTANTS
    Requests = {r1, r2, r3}
    Callers = {c1, c2}
    Poll = Poll
    Owner = Owner
    NoReq = NoReq
SPECIFICATION Spec
INVARIANTS
    DroppedRequestsAreDetached
    DestructionAnswersAll
PROPERTIES
    ClientKeepsPromise
CHECK_DEADLOCK FALSE
