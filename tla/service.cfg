SPECIFICATION Spec
CONSTANTS
    None = None
    Absent = Absent
    Malformed = Malformed
    c1 = c1
    c2 = c2
    root = root
    a = a
    long = long
    whole = whole
    left = left
    right = right
    beside = beside
    Clients = {c1, c2}
    Scenarios <- MCScenarios
    Namespaces = {root, a, long}
    Root = root
    Cidrs = {whole, left, right, beside}
    Covers <- MCCovers
INVARIANTS
    TypeOK
    TopLevelDisjoint
PROPERTIES
    PrefixesKept
    LoadRestores
    ListedWereStored
    RequestsAnswered
