------------------------------ MODULE Service ------------------------------
(***************************************************************************)
(* The gRPC service of pkg/service: one process, one ipamer with its       *)
(* mutex, and requests of many clients at a time, in many namespaces.  A   *)
(* handler makes a call of the ipamer, which makes a few calls of the      *)
(* storage; those are the steps.  The storage does here what module        *)
(* Storage promises; what the implementations do differently comes with    *)
(* the storage that the service runs on.                                   *)
(*                                                                         *)
(* This is the part of the service that Ipam leaves out: namespaces, lists,*)
(* Dump and Load, and the codes of errors.  Children and addresses are     *)
(* acquired there; here they come with the dumps that clients load.        *)
(***************************************************************************)
EXTENDS Naturals, FiniteSets

CONSTANTS
    Clients,
    Scenarios,      \* what clients ask, with which dump, on which storage
    Namespaces,     \* the names of namespaces
    Root,           \* defaultNamespace
    Cidrs,          \* masked prefixes
    Covers,         \* the addresses of each of them
    Malformed,      \* a text that is no prefix, or no dump
    Absent,         \* no record under a cidr
    None            \* no request, no parent, nobody

\* A stored prefix.  ips says whether hasIPs() finds addresses in it.
Record == [ParentCidr : Cidrs \cup {None}, isParent : BOOLEAN, childPrefixLength : Nat,
           ips : BOOLEAN, version : Nat]

Ops == {"CreatePrefix", "DeletePrefix", "GetPrefix", "PrefixUsage", "ListPrefixes", "Dump",
        "Load", "CreateNamespace", "DeleteNamespace", "ListNamespaces"}

\* A message: Load sends the dump its client has.  namespaceFromContext gives
\* Root when the message names none.
Request == [op : Ops, ns : Namespaces, cidr : Cidrs \cup {Malformed}]

\* A prefixJSON, the form of a prefix in a dump.
PrefixJSON == [Cidr : Cidrs, ParentCidr : Cidrs \cup {None}, IsParent : BOOLEAN,
               ChildPrefixLength : Nat, IPs : BOOLEAN, Version : Nat]

(***************************************************************************)
(* A storage: what it answers to a create of a stored prefix and to a      *)
(* delete of one that is missing, whether a create keeps the version it is *)
(* given (sql.go:67 does not), which names of namespaces are too long for  *)
(* it, and the prefixes that the default namespace has at the start.       *)
(***************************************************************************)
Storage == [createExisting : {"error", "existing"}, deleteMissing : {"ok", "error"},
            createVersion : {"kept", "reset"}, tooLong : SUBSET (Namespaces \ {Root}),
            has : [Cidrs -> Record \cup {Absent}]]

\* As toPrefix promises to every reader of a dump.
WellFormed(p) == p.childPrefixLength > 0 => p.isParent

\* What each client may ask, the storages, and the dumps that clients may have
\* from an earlier version.
Workloads == { s.asks : s \in Scenarios }

Storages == { s.storage : s \in Scenarios }

Dumps == { s.dump : s \in Scenarios }

ASSUME ServiceAssumption ==
    /\ Root \in Namespaces
    /\ Covers \in [Cidrs -> SUBSET Nat]
    /\ Malformed \notin Cidrs
    /\ \A w \in Workloads : w \in [Clients -> SUBSET Request]
    /\ Storages \subseteq Storage
    /\ \A s \in Storages : \A k \in Cidrs : s.has[k] # Absent => WellFormed(s.has[k])

ASSUME DumpsAssumption == \A d \in Dumps : d = Malformed \/ d \subseteq PrefixJSON

ASSUME NoneAssumption ==
    /\ None \notin Clients
    /\ None \notin Request
    /\ None # "OK"
    /\ Absent \notin Record

VARIABLES
    workload,       \* the workload of this behaviour
    storage,        \* the storage of this behaviour
    db,             \* per namespace that exists, the records
    mu,             \* the client whose request holds ipamer.mu
    req,            \* per client, the request it waits for
    pc,             \* per client, the step its request has come to
    todo,           \* per client, what the loop of its request has left
    list,           \* per client, what the loop of its request has collected
    resp,           \* per client, the code of the last response
    dumped,         \* per client, the dump it has, and the records it was made from
    seen,           \* per client, what was stored at each moment it waited for a list
    old             \* per client, the prefixes stored since its Load or DeleteNamespace began

vars == <<workload, storage, db, mu, req, pc, todo, list, resp, dumped, seen, old>>

-----------------------------------------------------------------------------
(***************************************************************************)
(* json.go.  A dump is a set of prefixJSON; one of an old version may have *)
(* a ChildPrefixLength where IsParent is missing.  The field Namespace is  *)
(* never filled.                                                           *)
(***************************************************************************)
\* Mutant: the parent is forgotten.
toPrefixJSONOrphaned(k, p) ==
    [Cidr |-> k, ParentCidr |-> None, IsParent |-> p.isParent,
     ChildPrefixLength |-> p.childPrefixLength, IPs |-> p.ips, Version |-> p.version]

toPrefixJSON(k, p) ==
    [Cidr |-> k, ParentCidr |-> p.ParentCidr, IsParent |-> p.isParent,
     ChildPrefixLength |-> p.childPrefixLength, IPs |-> p.ips, Version |-> p.version]

\* Mutant: an old prefix is taken as it is.
toPrefixAsItIs(j) ==
    [ParentCidr |-> j.ParentCidr, isParent |-> j.IsParent,
     childPrefixLength |-> j.ChildPrefixLength, ips |-> j.IPs, version |-> j.Version]

toPrefix(j) ==
    [ParentCidr |-> j.ParentCidr, isParent |-> j.IsParent \/ j.ChildPrefixLength > 0,
     childPrefixLength |-> j.ChildPrefixLength, ips |-> j.IPs, version |-> j.Version]

StoredIn(d, n) == IF n \in DOMAIN d THEN { k \in Cidrs : d[n][k] # Absent } ELSE {}

toJSON(records) ==
    { toPrefixJSON(k, records[k]) : k \in { k \in Cidrs : records[k] # Absent } }

fromJSONs(dump) == { [cidr |-> j.Cidr, record |-> toPrefix(j)] : j \in dump }

newPrefix == [ParentCidr |-> None, isParent |-> FALSE, childPrefixLength |-> 0,
              ips |-> FALSE, version |-> 0]

-----------------------------------------------------------------------------
(***************************************************************************)
(* The storage.                                                            *)
(***************************************************************************)
Empty == [k \in Cidrs |-> Absent]

Exists(n) == n \in DOMAIN db

PrefixFrom(n, k) ==
    IF k = Malformed THEN "malformed"
    ELSE IF ~Exists(n) THEN "nospace"
    ELSE IF db[n][k] = Absent THEN "notfound"
    ELSE "ok"

CreateOutcome(n, k) ==
    IF ~Exists(n) THEN "nospace"
    ELSE IF db[n][k] # Absent THEN storage.createExisting
    ELSE "ok"

Put(n, k, p) == db' = [db EXCEPT ![n][k] = p]

\* The record that a create stores.
AsCreated(p) == IF storage.createVersion = "kept" THEN p ELSE [p EXCEPT !.version = 0]

\* A namespace is there, if need be empty.
WithNamespace(n) ==
    IF Exists(n) THEN db ELSE [m \in DOMAIN db \cup {n} |-> IF Exists(m) THEN db[m] ELSE Empty]

-----------------------------------------------------------------------------
(***************************************************************************)
(* Requests.                                                               *)
(***************************************************************************)
Call(c) ==
    /\ req[c] = None
    /\ \E r \in workload[c] : req' = [req EXCEPT ![c] = r]
    /\ pc' = [pc EXCEPT ![c] = "start"]
    /\ resp' = [resp EXCEPT ![c] = None]
    /\ list' = [list EXCEPT ![c] = {}]
    /\ UNCHANGED <<db, mu, todo, dumped>>

At(c, op, step) == req[c] # None /\ req[c].op = op /\ pc[c] = step

GoTo(c, step) == pc' = [pc EXCEPT ![c] = step] /\ UNCHANGED <<req, resp>>

Respond(c, code) ==
    /\ resp' = [resp EXCEPT ![c] = code]
    /\ req' = [req EXCEPT ![c] = None]
    /\ pc' = [pc EXCEPT ![c] = "idle"]

\* The loop of a request goes on with what is left, or ends with success.
Loop(c, step, left) ==
    /\ todo' = [todo EXCEPT ![c] = left]
    /\ IF left = {} THEN Respond(c, "OK") ELSE GoTo(c, step)

(***************************************************************************)
(* CreatePrefix: NewPrefix, under the mutex from before it reads the       *)
(* prefixes of its namespace until it has created the new one.             *)
(***************************************************************************)
Overlapping(n, k) == \E other \in StoredIn(db, n) : Covers[other] \cap Covers[k] # {}

Refused(n, k) == ~Exists(n) \/ k = Malformed \/ Overlapping(n, k)

\* Mutant: the prefixes of the default namespace are read.
NewPrefixReadRoot(c) ==
    /\ At(c, "CreatePrefix", "start")
    /\ mu = None
    /\ IF Refused(Root, req[c].cidr)
       THEN Respond(c, "InvalidArgument") /\ UNCHANGED mu
       ELSE GoTo(c, "Create") /\ mu' = c
    /\ UNCHANGED <<db, todo, list, dumped>>

\* Mutant: an error leaves the mutex locked.
NewPrefixReadKeepsLock(c) ==
    /\ At(c, "CreatePrefix", "start")
    /\ mu = None
    /\ mu' = c
    /\ IF Refused(req[c].ns, req[c].cidr)
       THEN Respond(c, "InvalidArgument")
       ELSE GoTo(c, "Create")
    /\ UNCHANGED <<db, todo, list, dumped>>

NewPrefixRead(c) ==
    /\ At(c, "CreatePrefix", "start")
    /\ mu = None
    /\ IF Refused(req[c].ns, req[c].cidr)
       THEN Respond(c, "InvalidArgument") /\ UNCHANGED mu
       ELSE GoTo(c, "Create") /\ mu' = c
    /\ UNCHANGED <<db, todo, list, dumped>>

NewPrefixCreate(c) ==
    /\ At(c, "CreatePrefix", "Create")
    /\ mu' = None
    /\ LET outcome == CreateOutcome(req[c].ns, req[c].cidr) IN
       /\ IF outcome = "ok"
          THEN Put(req[c].ns, req[c].cidr, AsCreated(newPrefix))
          ELSE UNCHANGED db
       /\ Respond(c, IF outcome \in {"ok", "existing"} THEN "OK" ELSE "InvalidArgument")
    /\ UNCHANGED <<todo, list, dumped>>

CreatePrefix(c) == NewPrefixRead(c) \/ NewPrefixCreate(c)

(***************************************************************************)
(* DeletePrefix: whatever the read says, its failure is NotFound.          *)
(***************************************************************************)
DeletePrefixRead(c) ==
    /\ At(c, "DeletePrefix", "start")
    /\ IF PrefixFrom(req[c].ns, req[c].cidr) # "ok" THEN Respond(c, "NotFound")
       ELSE IF db[req[c].ns][req[c].cidr].ips THEN Respond(c, "InvalidArgument")
       ELSE GoTo(c, "Delete")
    /\ UNCHANGED <<db, mu, todo, list, dumped>>

DeletePrefixStore(c) ==
    /\ At(c, "DeletePrefix", "Delete")
    /\ LET found == PrefixFrom(req[c].ns, req[c].cidr) IN
       /\ IF found = "ok" THEN Put(req[c].ns, req[c].cidr, Absent) ELSE UNCHANGED db
       /\ Respond(c, IF \/ found = "ok"
                        \/ found = "notfound" /\ storage.deleteMissing = "ok"
                     THEN "OK" ELSE "InvalidArgument")
    /\ UNCHANGED <<mu, todo, list, dumped>>

DeletePrefix(c) == DeletePrefixRead(c) \/ DeletePrefixStore(c)

(***************************************************************************)
(* GetPrefix and PrefixUsage read one prefix.                              *)
(***************************************************************************)
ReadOne(c) ==
    Respond(c, CASE PrefixFrom(req[c].ns, req[c].cidr) = "ok" -> "OK"
                 [] PrefixFrom(req[c].ns, req[c].cidr) = "notfound" -> "NotFound"
                 [] OTHER -> "InvalidArgument")

GetPrefix(c) ==
    At(c, "GetPrefix", "start") /\ ReadOne(c) /\ UNCHANGED <<db, mu, todo, list, dumped>>

PrefixUsage(c) ==
    At(c, "PrefixUsage", "start") /\ ReadOne(c) /\ UNCHANGED <<db, mu, todo, list, dumped>>

(***************************************************************************)
(* ListPrefixes: the cidrs of the default namespace, and then one record   *)
(* after the other, of the namespace of the request, for its ParentCidr.   *)
(***************************************************************************)
Entry == [cidr : Cidrs, ParentCidr : Cidrs \cup {None}]

EntryIn(d, n, k) == [cidr |-> k, ParentCidr |-> d[n][k].ParentCidr]

EntriesIn(d, n) == { EntryIn(d, n, k) : k \in StoredIn(d, n) }

ListCidrs(c) ==
    /\ At(c, "ListPrefixes", "start")
    /\ IF Exists(Root)
       THEN Loop(c, "Each", StoredIn(db, Root))
       ELSE Respond(c, "InvalidArgument") /\ UNCHANGED todo
    /\ UNCHANGED <<db, mu, list, dumped>>

\* Mutant: prefixes that are gone are left out.
ListEachLeavingOut(c) ==
    /\ At(c, "ListPrefixes", "Each")
    /\ \E k \in todo[c] :
           /\ Loop(c, "Each", todo[c] \ {k})
           /\ list' = [list EXCEPT ![c] =
                           IF PrefixFrom(req[c].ns, k) = "ok"
                           THEN @ \cup {EntryIn(db, req[c].ns, k)}
                           ELSE @]
    /\ UNCHANGED <<db, mu, dumped>>

ListEach(c) ==
    /\ At(c, "ListPrefixes", "Each")
    /\ \E k \in todo[c] :
           IF PrefixFrom(req[c].ns, k) = "ok"
           THEN /\ Loop(c, "Each", todo[c] \ {k})
                /\ list' = [list EXCEPT ![c] = @ \cup {EntryIn(db, req[c].ns, k)}]
           ELSE /\ Respond(c, "Internal")
                /\ todo' = [todo EXCEPT ![c] = {}] /\ list' = [list EXCEPT ![c] = {}]
    /\ UNCHANGED <<db, mu, dumped>>

ListPrefixes(c) == ListCidrs(c) \/ ListEach(c)

(***************************************************************************)
(* Dump and Load: of the default namespace, whatever the message names.    *)
(* Load does not delete the prefixes there are, as ipam.go:55 says: it     *)
(* refuses to load while there are some, and deletes what has come since.  *)
(***************************************************************************)
NamespacedDump(n) == [json |-> toJSON(db[n]), of |-> db[n]]

Dump(c) ==
    /\ At(c, "Dump", "start")
    /\ IF Exists(Root)
       THEN /\ dumped' = [dumped EXCEPT ![c] = NamespacedDump(Root)]
            /\ Respond(c, "OK")
       ELSE Respond(c, "InvalidArgument") /\ UNCHANGED dumped
    /\ UNCHANGED <<db, mu, todo, list>>

\* Mutant: existing prefixes do not matter.
LoadCheckNothing(c) ==
    /\ At(c, "Load", "start")
    /\ IF Exists(Root) /\ dumped[c].json # Malformed
       THEN GoTo(c, "DeleteAll")
       ELSE Respond(c, "InvalidArgument")
    /\ UNCHANGED <<db, mu, todo, list, dumped>>

LoadCheck(c) ==
    /\ At(c, "Load", "start")
    /\ IF Exists(Root) /\ StoredIn(db, Root) = {} /\ dumped[c].json # Malformed
       THEN GoTo(c, "DeleteAll")
       ELSE Respond(c, "InvalidArgument")
    /\ UNCHANGED <<db, mu, todo, list, dumped>>

LoadDeleteAll(c) ==
    /\ At(c, "Load", "DeleteAll")
    /\ IF Exists(Root)
       THEN db' = [db EXCEPT ![Root] = Empty] /\ Loop(c, "Each", fromJSONs(dumped[c].json))
       ELSE Respond(c, "InvalidArgument") /\ UNCHANGED <<db, todo>>
    /\ UNCHANGED <<mu, list, dumped>>

\* The first error ends it.
LoadCreate(c) ==
    /\ At(c, "Load", "Each")
    /\ \E p \in todo[c] :
           LET outcome == CreateOutcome(Root, p.cidr) IN
           /\ IF outcome = "ok" THEN Put(Root, p.cidr, AsCreated(p.record)) ELSE UNCHANGED db
           /\ IF outcome \in {"ok", "existing"}
              THEN Loop(c, "Each", todo[c] \ {p})
              ELSE Respond(c, "InvalidArgument") /\ todo' = [todo EXCEPT ![c] = {}]
    /\ UNCHANGED <<mu, list, dumped>>

Load(c) == LoadCheck(c) \/ LoadDeleteAll(c) \/ LoadCreate(c)

(***************************************************************************)
(* Namespaces.  The handlers return the error without a code, and the      *)
(* client gets Unknown.                                                    *)
(***************************************************************************)
CreateNamespace(c) ==
    /\ At(c, "CreateNamespace", "start")
    /\ IF req[c].ns \in storage.tooLong
       THEN Respond(c, "Unknown") /\ UNCHANGED db
       ELSE Respond(c, "OK") /\ db' = WithNamespace(req[c].ns)
    /\ UNCHANGED <<mu, todo, list, dumped>>

DeleteNamespaceRead(c) ==
    /\ At(c, "DeleteNamespace", "start")
    /\ IF Exists(req[c].ns) /\ StoredIn(db, req[c].ns) = {}
       THEN GoTo(c, "Delete")
       ELSE Respond(c, "Unknown")
    /\ UNCHANGED <<db, mu, todo, list, dumped>>

DeleteNamespaceStore(c) ==
    /\ At(c, "DeleteNamespace", "Delete")
    /\ db' = [n \in DOMAIN db \ {req[c].ns} |-> db[n]]
    /\ Respond(c, IF Exists(req[c].ns) THEN "OK" ELSE "Unknown")
    /\ UNCHANGED <<mu, todo, list, dumped>>

DeleteNamespace(c) == DeleteNamespaceRead(c) \/ DeleteNamespaceStore(c)

ListNamespaces(c) ==
    /\ At(c, "ListNamespaces", "start")
    /\ list' = [list EXCEPT ![c] = DOMAIN db]
    /\ Respond(c, "OK")
    /\ UNCHANGED <<db, mu, todo, dumped>>

-----------------------------------------------------------------------------
Init ==
    /\ \E s \in Scenarios :
           /\ workload = s.asks
           /\ storage = s.storage
           /\ db = [n \in {Root} |-> s.storage.has]
           /\ dumped = [c \in Clients |-> [json |-> s.dump, of |-> None]]
    /\ mu = None
    /\ req = [c \in Clients |-> None]
    /\ pc = [c \in Clients |-> "idle"]
    /\ todo = [c \in Clients |-> {}]
    /\ list = [c \in Clients |-> {}]
    /\ resp = [c \in Clients |-> None]
    /\ seen = [c \in Clients |-> {}]
    /\ old = [c \in Clients |-> {}]

Step(c) ==
    \/ CreatePrefix(c) \/ DeletePrefix(c) \/ GetPrefix(c) \/ PrefixUsage(c) \/ ListPrefixes(c)
    \/ Dump(c) \/ Load(c)
    \/ CreateNamespace(c) \/ DeleteNamespace(c) \/ ListNamespaces(c)

\* The process stops and starts again on a storage that keeps its records, and
\* makes the default namespace if it is not there.
Restart ==
    /\ \E c \in Clients : req[c] # None
    /\ mu' = None
    /\ req' = [c \in Clients |-> None]
    /\ pc' = [c \in Clients |-> "idle"]
    /\ todo' = [c \in Clients |-> {}]
    /\ list' = [c \in Clients |-> {}]
    /\ resp' = [c \in Clients |-> None]
    /\ db' = WithNamespace(Root)
    /\ UNCHANGED dumped

\* The requests that empty a namespace, and the namespace.
Empties(r, n) == (r.op = "DeleteNamespace" /\ r.ns = n) \/ (r.op = "Load" /\ n = Root)

\* What is stored while a list is made, and what has been stored ever since
\* the call of a request that empties a namespace: histories for the properties.
Observe ==
    /\ seen' = [c \in Clients |->
                   IF req'[c] # None /\ req'[c].op = "ListPrefixes"
                   THEN seen[c] \cup {EntriesIn(db', req'[c].ns)}
                   ELSE {}]
    /\ old' = [c \in Clients |->
                  { k \in Cidrs : \E n \in DOMAIN db' :
                        /\ req'[c] # None /\ Empties(req'[c], n) /\ k \in StoredIn(db', n)
                        /\ req[c] # None => k \in old[c] }]

Next ==
    /\ \/ \E c \in Clients : Call(c) \/ Step(c)
       \/ Restart
    /\ Observe
    /\ UNCHANGED <<workload, storage>>

(***************************************************************************)
(* A request in progress goes on; one that waits for the mutex gets it, if *)
(* it is free again and again, because sync.Mutex lets nobody starve.      *)
(***************************************************************************)
Fairness == \A c \in Clients : SF_vars(Step(c) /\ Observe /\ UNCHANGED <<workload, storage>>)

Spec == Init /\ [][Next]_vars /\ Fairness

-----------------------------------------------------------------------------
\* Whatever is stored is well formed, that of an old dump too: a prefix with a
\* child prefix length is a parent, as toPrefix promises to every reader.
TypeOK ==
    /\ Root \in Namespaces /\ DOMAIN db \subseteq Namespaces
    /\ \A n \in DOMAIN db : \A k \in StoredIn(db, n) :
           /\ db[n][k] \in Record
           /\ WellFormed(db[n][k])
    /\ mu \in Clients \cup {None}
    /\ \A c \in Clients : (req[c] = None) <=> (pc[c] = "idle")

(***************************************************************************)
(* Prefixes that NewPrefix created do not overlap within a namespace,      *)
(* whatever comes and goes with the namespace while the mutex is held.     *)
(***************************************************************************)
TopLevelDisjoint ==
    \A n \in DOMAIN db : \A j, k \in StoredIn(db, n) :
        (j # k /\ db[n][j].ParentCidr = None /\ db[n][k].ParentCidr = None)
            => Covers[j] \cap Covers[k] = {}

\* The request of c is answered with this code.
Answered(c, op, code) ==
    req[c] # None /\ req[c].op = op /\ req'[c] = None /\ resp'[c] = code

(***************************************************************************)
(* A prefix leaves the storage by a DeletePrefix of it, or with a Load or  *)
(* DeleteNamespace that it is younger than.  Both look for prefixes first  *)
(* and empty the namespace later, without a mutex: a prefix that is        *)
(* created in between is lost, one that was there before never is.  (Of    *)
(* Load ipam.go:55 says that it "deletes all prefixes before loading".)    *)
(***************************************************************************)
PrefixesKept ==
    [][\A n \in DOMAIN db : \A k \in StoredIn(db, n) \ StoredIn(db', n) :
          \E c \in Clients :
              \/ At(c, "DeletePrefix", "Delete") /\ req[c].ns = n /\ req[c].cidr = k
              \/ /\ At(c, "DeleteNamespace", "Delete") \/ At(c, "Load", "DeleteAll")
                 /\ pc'[c] # pc[c]
                 /\ Empties(req[c], n) /\ k \notin old[c]]_vars

(***************************************************************************)
(* Load brings back what Dump has seen: when it succeeds with a dump the   *)
(* service made, the default namespace is what it was then, parents and    *)
(* addresses included, and nothing else.  Its versions come back too,      *)
(* unless the storage starts every version at 0.                           *)
(***************************************************************************)
Reloaded(p) ==
    IF p = Absent THEN Absent
    ELSE [p EXCEPT !.version = IF storage.createVersion = "reset" THEN 0 ELSE @]

LoadRestores ==
    [][\A c \in Clients :
          (Answered(c, "Load", "OK") /\ dumped[c].of # None)
              => Exists(Root)' /\ db'[Root] = [k \in Cidrs |-> Reloaded(dumped[c].of[k])]]_vars

(***************************************************************************)
(* A list names the prefixes of one moment of the request, and gives each  *)
(* a parent that it had at a moment of the request, although the service   *)
(* reads the prefixes one by one and others delete them and create them    *)
(* again meanwhile.  It need not be what was stored at any one moment.     *)
(***************************************************************************)
CidrsOf(entries) == { e.cidr : e \in entries }

ListedWereStored ==
    [][\A c \in Clients : Answered(c, "ListPrefixes", "OK") =>
          /\ \E s \in seen[c] : CidrsOf(list'[c]) = CidrsOf(s)
          /\ list'[c] \subseteq UNION seen[c]]_vars

(***************************************************************************)
(* Every request is answered or lost with the process: no error path keeps *)
(* the mutex that the other requests wait for.                             *)
(***************************************************************************)
RequestsAnswered == \A c \in Clients : (req[c] # None) ~> (req[c] = None)

=============================================================================
