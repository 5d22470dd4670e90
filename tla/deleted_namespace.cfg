SPECIFICATION Spec
CONSTANTS
    Absent = Absent
    None = None
    c1 = c1
    c2 = c2
    c3 = c3
    p1 = p1
    p2 = p2
    Callers = {c1, c2, c3}
    Processes = {p1, p2}
    Namespaces <- MCNamespaces
    Root <- MCRoot
    NamespaceKey <- MCNamespaceKey
    MaxIdLength = 3
    Keys = {"a", "b"}
    MaxVersion = 2
    Deployments <- MongodbDeleting
PROPERTIES
    MissingNamespaceTold
