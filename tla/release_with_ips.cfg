SPECIFICATION Spec
CONSTANTS
    None = None
    Absent = Absent
    Free = Free
    i1 = i1
    i2 = i2
    c1 = c1
    c2 = c2
    c3 = c3
    V4Bits = 3
    V6Bits = 2
    Callers = {c1}
    Instances = {i1}
    InstanceOf <- OneInstance
    CrashingInstances = {}
    Requests <- ReleaseWithIPsRequests
    Attempts = 2
    MaxVersion = 3
    CreateExisting = "error"
    UpdateMissing = "error"
    DeleteMissing = "ok"
INVARIANTS
    LeasesDisjoint
CHECK_DEADLOCK FALSE
