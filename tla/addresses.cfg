SPECIFICATION Spec
CONSTANTS
    None = None
    Absent = Absent
    Free = Free
    i1 = i1
    i2 = i2
    c1 = c1
    c2 = c2
    c3 = c3
    V4Bits = 2
    V6Bits = 2
    Callers = {c1, c2, c3}
    Instances = {i1}
    InstanceOf <- OneInstance
    CrashingInstances = {i1}
    Requests <- AddressRequests
    Attempts = 2
    MaxVersion = 3
    CreateExisting = "error"
    UpdateMissing = "error"
    DeleteMissing = "ok"
SYMMETRY Symmetric
INVARIANTS
    AddressesUnique
    HeldIsStored
    BlockedNotHeld
    ParentHasNoIPs
PROPERTIES
    CommitsChangeOneThing
CHECK_DEADLOCK FALSE
