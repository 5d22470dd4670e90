SPECIFICATION Spec
CONSTANTS
    None = None
    Absent = Absent
    Free = Free
    i1 = i1
    i2 = i2
    c1 = c1
    c2 = c2
    c3 = c3
    V4Bits = 2
    V6Bits = 2
    Callers = {c1, c2}
    Instances = {i1, i2}
    InstanceOf <- TwoInstances
    CrashingInstances = {i1, i2}
    Requests <- ChildRequests
    Attempts = 2
    MaxVersion = 4
    CreateExisting = "error"
    UpdateMissing = "error"
    DeleteMissing = "ok"
INVARIANTS
    LeasesDisjoint
    LeaseIsStored
PROPERTIES
    CommitsChangeOneThing
CHECK_DEADLOCK FALSE
