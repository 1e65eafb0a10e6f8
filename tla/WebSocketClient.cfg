CONSTANTS
    MaxMsgs = 3
    Reconnects = TRUE
SPECIFICATION Spec
INVARIANTS
    SocketIsAttendedOnce
    MessagesStayWholeAndInOrder
PROPERTY SocketFollowsItsOwner
CHECK_DEADLOCK FALSE
