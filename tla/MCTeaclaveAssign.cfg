\* Two frontends; a task with an input and an output of one user.
CONSTANTS
    u1 = u1  u2 = u2
    Users = {u1}
    TaskIds = {t1}
    FileIds = {f1, f2}
    FunctionIds = {g1}
    InNames = {"in"}
    OutNames = {"out"}
    Nil = Nil
    MaxQueue = 2
    Connections = {c1, c2}
    Executors = {e1}
    FunctionSpecs <- MCPublic
    InputOwnerReqs <- MCInOwner
    OutputOwnerReqs <- MCOneOwner
    MaxErrors = 0
    MaxCrashes = 0
SPECIFICATION Spec
PROPERTY AssignOnlyCreated
