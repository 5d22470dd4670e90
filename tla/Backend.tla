------------------------------ MODULE Backend ------------------------------
(***************************************************************************)
(* What the storages of memory.go, sql.go, redis.go, etcd.go, mongodb.go   *)
(* and file.go have in common: callers in processes, in each process a     *)
(* lock and the namespaces it knows of, and one database behind all of     *)
(* them.  A step is one command that the database executes, together with  *)
(* the private work around it.                                             *)
(***************************************************************************)
EXTENDS Naturals, FiniteSets, Sequences

CONSTANTS
    Callers,        \* goroutines
    Processes,      \* each with a storage object of its own
    Namespaces,     \* the names of namespaces, as sequences of letters
    Root,           \* the namespace every storage starts with
    Keys,           \* the cidrs of the prefixes
    MaxVersion,     \* bound: no update starts from this version
    MaxIdLength,    \* the longest name of a table
    NamespaceKey,   \* what the keys begin with under which etcd lists the namespaces
    Deployments,    \* the storages and the processes on them to look at
    Absent, None

Storages == {"memory", "postgres", "redis", "etcd", "mongodb", "file"}

PrefixCalls == {"CreatePrefix", "ReadPrefix", "UpdatePrefix", "DeletePrefix"}

ListCalls == {"ReadAllPrefixes", "ReadAllPrefixCidrs"}

NamespaceCalls ==
    ListCalls \cup {"DeleteAllPrefixes", "CreateNamespace", "DeleteNamespace", "ListNamespaces"}

\* A call: those of a namespace have no key, and only a create and an update
\* have a version.
Operations ==
    [name : PrefixCalls \cup NamespaceCalls, ns : Namespaces, key : Keys \cup {None}, version : Nat]

ASSUME BackendAssumption ==
    /\ MaxVersion \in Nat /\ MaxIdLength \in Nat
    /\ Root \in Namespaces
    /\ Namespaces \cup {NamespaceKey} \subseteq Seq(STRING)
    /\ Deployments \subseteq
           [storage    : Storages,
            processOf  : UNION { [S -> Processes] : S \in SUBSET Callers },
            crashing   : SUBSET Processes,
            restarting : SUBSET Processes,
            calls      : SUBSET (PrefixCalls \cup NamespaceCalls),
            names      : SUBSET Namespaces,
            keys       : SUBSET Keys,
            versions   : SUBSET Nat]
    /\ \A d \in Deployments : d.storage = "memory" => d.crashing = {} /\ d.restarting = {}
    /\ Absent \notin Nat /\ None \notin Nat /\ None \notin Keys
    /\ None \notin Callers /\ None \notin Operations
    /\ None \notin [ns : Namespaces, key : Keys, version : Nat]

VARIABLES
    deployment,     \* never changes: the storage in use, the process of each caller
                    \* there is, the processes that stop in the middle of calls
                    \* (crashing) or between them (restarting), what callers call,
                    \* the versions of the prefixes they create: not 0 in a load
    spaces,         \* the namespaces the database has
    data,           \* per namespace, the version of the record under a key
    cache,          \* per process, the namespaces it has seen
    op,             \* per caller, the call it is in
    ans,            \* per caller, the last answer
    copy,           \* per caller, the record it read and may update
    got,            \* per caller, the list it was given, or as far as it got
    todo,           \* per caller, what a call that goes record by record has left
    pc,             \* per caller, the command that comes next
    lock            \* per process, the callers that hold the lock of the storage object

baseVars == <<deployment, spaces, data, cache, op, ans, copy, got, todo, pc, lock>>

Empty == [k \in Keys |-> Absent]

RecordsIn(records) ==
    { [key |-> k, version |-> records[k]] : k \in { k \in Keys : records[k] # Absent } }

Operation(c) ==
    [name : deployment.calls \cap {"CreatePrefix"},
     ns : deployment.names, key : deployment.keys, version : deployment.versions]
      \cup [name : deployment.calls \cap {"ReadPrefix", "DeletePrefix"},
            ns : deployment.names, key : deployment.keys, version : {0}]
      \cup [name : deployment.calls \cap (NamespaceCalls \ {"ListNamespaces"}),
            ns : deployment.names, key : {None}, version : {0}]
      \cup [name : deployment.calls \cap {"ListNamespaces"},
            ns : {Root}, key : {None}, version : {0}]
      \cup { [name |-> "UpdatePrefix", ns |-> r.ns, key |-> r.key, version |-> r.version] :
                r \in { r \in {copy[c]} \ {None} :
                          r.version < MaxVersion /\ "UpdatePrefix" \in deployment.calls } }

\* Every storage begins with the root namespace.  mongodb notes a collection it
\* has made itself, and not one that it finds there.
BaseInit ==
    /\ deployment \in Deployments
    /\ spaces = {Root}
    /\ data = [n \in Namespaces |-> Empty]
    /\ IF deployment.storage = "mongodb"
       THEN \E p \in Processes : cache = [q \in Processes |-> IF q = p THEN {Root} ELSE {}]
       ELSE cache = [p \in Processes |-> {Root}]
    /\ op = [c \in Callers |-> None]
    /\ ans = [c \in Callers |-> None]
    /\ copy = [c \in Callers |-> None]
    /\ got = [c \in Callers |-> None]
    /\ todo = [c \in Callers |-> {}]
    /\ pc = [c \in Callers |-> "idle"]
    /\ lock = [p \in Processes |-> {}]

-----------------------------------------------------------------------------
Uses(storage) == deployment.storage = storage

ProcessOf(c) == deployment.processOf[c]

CallersOf(p) == { c \in DOMAIN deployment.processOf : ProcessOf(c) = p }

Idle(c) == c \in DOMAIN deployment.processOf /\ pc[c] = "idle"

\* The ipamer calls the storage.  It updates the record it has read, and reads
\* again before it tries again.
Call(c) ==
    /\ Idle(c)
    /\ \E o \in Operation(c) : op' = [op EXCEPT ![c] = o]
    /\ ans' = [ans EXCEPT ![c] = None]
    /\ pc' = [pc EXCEPT ![c] = "called"]
    /\ copy' = [copy EXCEPT ![c] = None]
    /\ got' = [got EXCEPT ![c] = None]
    /\ UNCHANGED <<deployment, spaces, data, cache, todo, lock>>

\* The call name of caller c has sent no command yet.
Begins(c, name) == pc[c] = "called" /\ op[c].name = name

Known(c) == op[c].ns \in cache[ProcessOf(c)]

\* The same, and the namespace of the call is known to exist.
Called(c, name) ==
    /\ pc[c] \in {"called", "checked"}
    /\ op[c].name = name
    /\ pc[c] = "called" => Known(c)

-----------------------------------------------------------------------------
(***************************************************************************)
(* The sync.RWMutex of a storage object.  Some calls only take it for      *)
(* reading.  The second half of a DeleteNamespace ("Forget") takes it for  *)
(* writing.  Who wants to read waits for those who wait to write, until    *)
(* the next of them is done.                                               *)
(***************************************************************************)
SharedCalls ==
    CASE Uses("redis") -> ListCalls \cup {"ReadPrefix", "DeleteAllPrefixes", "DeleteNamespace"}
      [] Uses("etcd")  -> {"DeleteAllPrefixes", "DeleteNamespace"}
      [] Uses("file")  -> ListCalls \cup {"ReadPrefix", "DeleteAllPrefixes"}
      [] OTHER         -> {}

Shares(c) == op[c].name \in SharedCalls /\ pc[c] # "Forget"

Holds(c) == c \in lock[ProcessOf(c)]

WaitsToWrite(c) == pc[c] \in {"called", "Forget"} /\ ~ Holds(c) /\ ~ Shares(c)

MayLock(c) ==
    \/ Holds(c)
    \/ IF Shares(c)
       THEN \A d \in CallersOf(ProcessOf(c)) : ~ WaitsToWrite(d) /\ (Holds(d) => Shares(d))
       ELSE lock[ProcessOf(c)] = {}

Lock(c) == lock' = [lock EXCEPT ![ProcessOf(c)] = @ \cup {c}]

Unlock(c) ==
    lock' = [lock EXCEPT ![ProcessOf(c)] =
                IF Shares(c)
                THEN @ \ {c}
                ELSE { d \in CallersOf(ProcessOf(c)) \ {c} : pc[d] = "called" /\ Shares(d) }]

-----------------------------------------------------------------------------
\* Where the records of a namespace lie.  The name of a table begins with
\* "prefixes_", here one letter, and PostgreSQL cuts what is too long.
Place(n) ==
    IF Uses("postgres") /\ Len(n) > MaxIdLength - 1 THEN SubSeq(n, 1, MaxIdLength - 1) ELSE n

Stored(c) == data[Place(op[c].ns)][op[c].key]

Write(c, version) == data' = [data EXCEPT ![Place(op[c].ns)][op[c].key] = version]

Clear(n) == data' = [data EXCEPT ![n] = Empty]

Learn(c, names) == cache' = [cache EXCEPT ![ProcessOf(c)] = @ \cup names]

GoTo(c, next) == pc' = [pc EXCEPT ![c] = next] /\ UNCHANGED <<deployment, op, ans, copy>>

\* The call ends with an answer, a record and a list.
Give(c, a, r, g) ==
    /\ ans' = [ans EXCEPT ![c] = a]
    /\ copy' = [copy EXCEPT ![c] = r]
    /\ got' = [got EXCEPT ![c] = g]
    /\ op' = [op EXCEPT ![c] = None]
    /\ pc' = [pc EXCEPT ![c] = "idle"]
    /\ UNCHANGED deployment

Answer(c, a) == Give(c, a, None, None)

GiveRecord(c, version) ==
    IF version = Absent
    THEN Answer(c, "notfound")
    ELSE Give(c, "ok", [ns |-> op[c].ns, key |-> op[c].key, version |-> version], None)

\* What a list call hands out of these records.
Listed(name, records) ==
    IF name = "ReadAllPrefixCidrs" THEN { r.key : r \in records } ELSE records

\* The version an accepted call leaves.
Committed(o) ==
    CASE o.name = "CreatePrefix" -> 0
      [] o.name = "UpdatePrefix" -> o.version + 1
      [] OTHER                   -> Absent

\* The namespace of the call is not known in the process: one command asks the
\* database, and names is what the process learns.
CheckNamespace(c, names) ==
    /\ pc[c] = "called"
    /\ op[c].name \notin {"CreateNamespace", "ListNamespaces"}
    /\ ~ Known(c)
    /\ Learn(c, names)
    /\ IF op[c].ns \in names
       THEN GoTo(c, "checked") /\ UNCHANGED got
       ELSE Answer(c, "nospace")
    /\ UNCHANGED <<spaces, data>>

\* The same with the lock held from here to the end of the call.
CheckNamespaceLocked(c, names) ==
    /\ CheckNamespace(c, names)
    /\ MayLock(c)
    /\ IF op[c].ns \in names THEN Lock(c) ELSE Unlock(c)

-----------------------------------------------------------------------------
\* The namespaces once a process has started; that of file starts with its memory.
Started == IF Uses("file") THEN spaces ELSE spaces \cup {Root}

\* A process stops, in the middle of its calls or between them, and starts
\* again: it creates the root namespace and so knows it.  mongodb does not note a
\* collection that is there.
Stop(p) ==
    /\ \/ p \in deployment.crashing /\ \E c \in CallersOf(p) : pc[c] # "idle"
       \/ p \in deployment.restarting /\ \A c \in CallersOf(p) : pc[c] = "idle"
    /\ op' = [c \in Callers |-> IF c \in CallersOf(p) THEN None ELSE op[c]]
    /\ ans' = [c \in Callers |-> IF c \in CallersOf(p) THEN None ELSE ans[c]]
    /\ copy' = [c \in Callers |-> IF c \in CallersOf(p) THEN None ELSE copy[c]]
    /\ got' = [c \in Callers |-> IF c \in CallersOf(p) THEN None ELSE got[c]]
    /\ todo' = [c \in Callers |-> IF c \in CallersOf(p) THEN {} ELSE todo[c]]
    /\ pc' = [c \in Callers |-> IF c \in CallersOf(p) THEN "idle" ELSE pc[c]]
    /\ lock' = [lock EXCEPT ![p] = {}]
    /\ cache' = [cache EXCEPT ![p] = IF Uses("mongodb") /\ Root \in spaces THEN {} ELSE {Root}]
    /\ UNCHANGED deployment

=============================================================================
