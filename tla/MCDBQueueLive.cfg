\* Without symmetry, for liveness.
CONSTANTS
    Clients = {p1, p2, p3}
    Values = {v1}
    Nil = Nil
    Width = 4
    MaxTail = 2
SPECIFICATION FairSpec
PROPERTY EveryCallAnswered
