\* One frontend, two executors of which one may be restarted, two tasks that
\* may share their output file, which is of u2 or of both users.
CONSTANTS
    u1 = u1  u2 = u2
    Users = {u1, u2}
    TaskIds = {t1, t2}
    FileIds = {f1}
    FunctionIds = {g1}
    InNames = {"in"}
    OutNames = {"out"}
    Nil = Nil
    MaxQueue = 2
    Connections = {c1}
    Executors = {e1, e2}
    FunctionSpecs <- MCOutOnly
    InputOwnerReqs <- MCNoInputs
    OutputOwnerReqs <- MCOutOwners
    MaxErrors = 0
    MaxCrashes = 1
SPECIFICATION Spec
SYMMETRY Sym
INVARIANTS StagedOnce 
PROPERTIES ImplementsLifecycle
