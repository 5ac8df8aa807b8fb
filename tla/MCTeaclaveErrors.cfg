\* One frontend, two executors, a private function of u1, an input of u1 or
\* u2 and an output of u2 or of both.  Two storage calls may fail, and an
\* executor may be restarted.
CONSTANTS
    u1 = u1  u2 = u2
    Users = {u1, u2}
    TaskIds = {t1}
    FileIds = {f1, f2}
    FunctionIds = {g1}
    InNames = {"in"}
    OutNames = {"out"}
    Nil = Nil
    MaxQueue = 2
    Connections = {c1}
    Executors = {e1, e2}
    FunctionSpecs <- MCPrivate
    InputOwnerReqs <- MCInOwners
    OutputOwnerReqs <- MCOutOwners
    MaxErrors = 2
    MaxCrashes = 1
SPECIFICATION Spec
SYMMETRY Sym
INVARIANTS ConsentInv StagedAsApproved
PROPERTIES ApprovalBinding
