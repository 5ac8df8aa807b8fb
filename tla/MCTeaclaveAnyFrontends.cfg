\* Two frontends.
CONSTANTS
    u1 = u1  u2 = u2
    Users = {u1, u2}
    TaskIds = {t1}
    FileIds = {f1, f2}
    FunctionIds = {g1}
    InNames = {"in"}
    OutNames = {"out"}
    Nil = Nil
    MaxQueue = 1
    Connections = {c1, c2}
    Executors = {e1}
    FunctionSpecs <- MCPrivate
    InputOwnerReqs <- MCInOwner
    OutputOwnerReqs <- MCOutOwner
    MaxErrors = 0
    MaxCrashes = 0
SPECIFICATION Spec
SYMMETRY Sym
INVARIANTS TypeOK ConsentInv CopiesCoherent FinishedOutputsTagged
