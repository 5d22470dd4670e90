SPECIFICATION FairSpec
CONSTANTS
    None = None
    Absent = Absent
    Free = Free
    i1 = i1
    i2 = i2
    c1 = c1
    c2 = c2
    c3 = c3
    V4Bits = 2
    V6Bits = 1
    Callers = {c1, c2, c3}
    Instances = {i1}
    InstanceOf <- OneInstance
    CrashingInstances = {i1}
    Requests <- CreateRequests
    Attempts = 2
    MaxVersion = 1
    CreateExisting = "error"
    UpdateMissing = "conflict"
    DeleteMissing = "error"
INVARIANTS
    TopLevelDisjoint
PROPERTIES
    CallsReturn
CHECK_DEADLOCK FALSE
