SPECIFICATION GateSpec
CONSTANTS
    p1 = p1
    p2 = p2
    q1 = q1
    q2 = q2
    School = {1}
    Replica = {p1, p2}
    Request = {q1, q2}
    Admin = {a1}
    TTL = 1
    WAIT_MARGIN_SECONDS = 2
    FETCH = 1
    MaxTime = 6
PROPERTY
    ActiveKeepsLogins
