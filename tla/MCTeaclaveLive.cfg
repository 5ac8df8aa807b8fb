\* Two tasks of one user that may share the output file, two executors,
\* no failures.
CONSTANTS
    u1 = u1  u2 = u2
    Users = {u1}
    TaskIds = {t1, t2}
    FileIds = {f1}
    FunctionIds = {g1}
    InNames = {"in"}
    OutNames = {"out"}
    Nil = Nil
    MaxQueue = 2
    Connections = {c1}
    Executors = {e1, e2}
    FunctionSpecs <- MCOutOnly
    InputOwnerReqs <- MCNoInputs
    OutputOwnerReqs <- MCOneOwner
    MaxErrors = 0
    MaxCrashes = 0
SPECIFICATION FairSpec
PROPERTIES QueueDrains RunningFinishes
