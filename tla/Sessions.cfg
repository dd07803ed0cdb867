SPECIFICATION Spec
CONSTANTS
    s1 = s1
    s2 = s2
    user = user
    b1 = b1
    d1 = d1
    q1 = q1
    q2 = q2
    SessionIds = {s1, s2}
    Users = {user}
    UserOf <- OneUser
    Businesses = {b1}
    Devices = {d1}
    Requests = {q1, q2}
    MaxToken = 2
SYMMETRY Symmetry
INVARIANT TypeOK
INVARIANT TokenHeld
INVARIANT FollowsReported
INVARIANT OwnedOnly
INVARIANT PushesAddressed
INVARIANT GoesWhenEnded
CHECK_DEADLOCK FALSE
