SPECIFICATION ResultsSpec
CONSTANTS
    p1 = p1
    p2 = p2
    p3 = p3
    x1 = x1
    x2 = x2
    w1 = w1
    w2 = w2
    Pupil = {p1, p2, p3}
    Mover = {p3}
    Subject = {x1, x2}
    Mark = {m1}
    Batch = {{p1}, {p2, p3}}
    NoMark = NoMark
    Followed = {p1, p3}
    Worker = {w1, w2}
SYMMETRY Symmetry
INVARIANTS
    ResultsTypeOK
    SubmittedIsComplete
    ApprovedIsComplete
    CardsAreComplete
    StayersTogether
