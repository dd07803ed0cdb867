SPECIFICATION FairSpec
CONSTANTS
    s1 = s1
    s2 = s2
    room = room
    nobody = nobody
    Sockets = {s1, s2}
    Ids = {room, nobody}
    Rooms = {room}
    Room = room
    Retries = 3
INVARIANT TypeOK
INVARIANT ReceivedIsTrue
INVARIANT ShownToAll
PROPERTY KeepsPromise
CHECK_DEADLOCK FALSE
