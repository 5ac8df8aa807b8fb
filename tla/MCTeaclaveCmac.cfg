\* One task of one user with two output slots and one output file.
CONSTANTS
    u1 = u1  u2 = u2
    Users = {u1}
    TaskIds = {t1}
    FileIds = {f1}
    FunctionIds = {g1}
    InNames = {"in"}
    OutNames = {"out1", "out2"}
    Nil = Nil
    MaxQueue = 2
    Connections = {c1}
    Executors = {e1}
    FunctionSpecs <- MCOutOnly
    InputOwnerReqs <- MCNoInputs
    OutputOwnerReqs <- MCOneOwner
    MaxErrors = 0
    MaxCrashes = 0
SPECIFICATION Spec
PROPERTY CmacWrittenOnce
