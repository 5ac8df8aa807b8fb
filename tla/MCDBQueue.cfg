\* Three clients: two in a race and a third that overtakes.
CONSTANTS
    Clients = {p1, p2, p3}
    Values = {v1, v2}
    Nil = Nil
    Width = 4
    MaxTail = 3
SPECIFICATION Spec
SYMMETRY Sym
INVARIANTS TypeOK IndexInv
PROPERTY ImplementsFifo
