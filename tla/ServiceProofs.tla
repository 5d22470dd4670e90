--------------------------- MODULE ServiceProofs ---------------------------
(***************************************************************************)
(* Theorems about Service for every set of clients, namespaces, prefixes,  *)
(* dumps, workloads and storages.                                          *)
(***************************************************************************)
EXTENDS Service, TLAPS

(***************************************************************************)
(* The invariant that the others build on.  Every variable has its type,   *)
(* the prefixes that a Load has left and the prefixes of a dump included;  *)
(* a request in progress is one its client may make; the loops work on     *)
(* what their request is about; and a NewPrefix that is about to create    *)
(* holds the mutex.                                                        *)
(***************************************************************************)
GoodRecord == { p \in Record : p.childPrefixLength > 0 => p.isParent }

Records == [Cidrs -> GoodRecord \cup {Absent}]

Databases == UNION { [N -> Records] : N \in SUBSET Namespaces }

Item == [cidr : Cidrs, record : GoodRecord]

Dumped ==
    { d \in [json : {Malformed} \cup SUBSET PrefixJSON, of : Records \cup {None}] :
        d.of # None => d.json = toJSON(d.of) }

PCs == {"idle", "start", "Create", "Delete", "Each", "DeleteAll"}

Codes == {"OK", "InvalidArgument", "NotFound", "Internal", "Unknown"}

ClientOK(c) ==
    /\ (req[c] = None) <=> (pc[c] = "idle")
    /\ req[c] # None => req[c] \in workload[c]
    /\ At(c, "CreatePrefix", "Create") => req[c].cidr \in Cidrs /\ mu = c
    /\ At(c, "Load", "DeleteAll") => dumped[c].json # Malformed
    /\ At(c, "Load", "Each") => todo[c] \subseteq Item
    /\ At(c, "ListPrefixes", "Each") => todo[c] \subseteq Cidrs

IInv ==
    /\ workload \in Workloads /\ storage \in Storages
    /\ db \in Databases
    /\ mu \in Clients \cup {None}
    /\ req \in [Clients -> Request \cup {None}]
    /\ pc \in [Clients -> PCs]
    /\ todo \in [Clients -> SUBSET (Item \cup Cidrs)]
    /\ list \in [Clients -> SUBSET (Entry \cup Namespaces)]
    /\ resp \in [Clients -> Codes \cup {None}]
    /\ dumped \in [Clients -> Dumped]
    /\ \A c \in Clients : ClientOK(c)

-----------------------------------------------------------------------------
\* The empty default namespace is a database.
LEMMA EmptyOK == Empty \in Records
  BY DEF Empty, Records

\* A new prefix can be stored.
LEMMA NewOK == newPrefix \in GoodRecord
  BY DEF newPrefix, GoodRecord, Record

\* A namespace of a database has records.
LEMMA DatabaseParts ==
    ASSUME NEW d \in Databases
    PROVE  /\ DOMAIN d \subseteq Namespaces
           /\ \A n \in DOMAIN d : d[n] \in Records
           /\ d \in [DOMAIN d -> Records]
           /\ \A n : StoredIn(d, n) \subseteq Cidrs
  BY DEF Databases, StoredIn

\* Functions from namespaces to records are databases.
LEMMA DatabaseFromParts ==
    ASSUME NEW N \in SUBSET Namespaces, NEW d \in [N -> Records]
    PROVE  d \in Databases
  BY DEF Databases

\* A record is written.
LEMMA PutOK ==
    ASSUME db \in Databases, NEW n \in DOMAIN db, NEW k \in Cidrs,
           NEW p \in GoodRecord \cup {Absent}, Put(n, k, p)
    PROVE  db' \in Databases
<1>1. db \in [DOMAIN db -> Records] /\ DOMAIN db \subseteq Namespaces
  BY DatabaseParts
<1>2. [db[n] EXCEPT ![k] = p] \in Records
  BY <1>1 DEF Records
<1>3. db' = [db EXCEPT ![n] = [db[n] EXCEPT ![k] = p]]
  BY DEF Put
<1>4. db' \in [DOMAIN db -> Records]
  BY <1>1, <1>2, <1>3
<1> QED
  BY <1>1, <1>4, DatabaseFromParts

\* A create stores a good record, with the parent it was given.
LEMMA AsCreatedOK ==
    ASSUME NEW p \in GoodRecord
    PROVE  AsCreated(p) \in GoodRecord /\ AsCreated(p).ParentCidr = p.ParentCidr
<1>1. CASE AsCreated(p) = p
  BY <1>1
<1>2. CASE AsCreated(p) = [p EXCEPT !.version = 0]
  BY <1>2 DEF GoodRecord, Record
<1> QED
  BY <1>1, <1>2 DEF AsCreated

\* A create that succeeds finds no record.
LEMMA OutcomeOK ==
    ASSUME storage \in Storages, NEW n, NEW k, CreateOutcome(n, k) = "ok"
    PROVE  n \in DOMAIN db /\ db[n][k] = Absent
<1>1. storage.createExisting # "ok"
  BY ServiceAssumption DEF Storage
<1> QED
  BY <1>1 DEF CreateOutcome, Exists

\* A namespace is made.
LEMMA WithNamespaceOK ==
    ASSUME db \in Databases, NEW n \in Namespaces, db' = WithNamespace(n)
    PROVE  /\ db' \in Databases
           /\ DOMAIN db' = DOMAIN db \cup {n}
           /\ \A m \in DOMAIN db : db'[m] = db[m]
           /\ \A m \in DOMAIN db' \ DOMAIN db : db'[m] = Empty
<1>1. db \in [DOMAIN db -> Records] /\ DOMAIN db \subseteq Namespaces
  BY DatabaseParts
<1>2. CASE Exists(n)
  BY <1>2 DEF WithNamespace, Exists
<1>3. CASE ~Exists(n)
  <2> DEFINE N == DOMAIN db \cup {n}
  <2>1. N \in SUBSET Namespaces
    BY <1>1
  <2>2. db' = [m \in N |-> IF Exists(m) THEN db[m] ELSE Empty]
    BY <1>3 DEF WithNamespace
  <2>3. \A m \in DOMAIN db : m \in N
    OBVIOUS
  <2>4. N = DOMAIN db \cup {n}
    OBVIOUS
  <2> HIDE DEF N
  <2>5. db' \in [N -> Records]
    BY <1>1, <2>2, EmptyOK DEF Exists
  <2>6. /\ \A m \in DOMAIN db : db'[m] = db[m]
        /\ \A m \in DOMAIN db' \ DOMAIN db : db'[m] = Empty
    BY <2>2, <2>3 DEF Exists
  <2> QED
    BY <2>1, <2>4, <2>5, <2>6, DatabaseFromParts
<1> QED
  BY <1>2, <1>3

\* A dump of good records is well formed.
LEMMA ToJSONOK ==
    ASSUME NEW r \in Records
    PROVE  toJSON(r) \in SUBSET PrefixJSON
  BY DEF Records, toJSON, toPrefixJSON, PrefixJSON, GoodRecord, Record

\* The prefixes of a dump, an old one too, can be stored.
LEMMA FromJSONsOK ==
    ASSUME NEW d \in SUBSET PrefixJSON
    PROVE  fromJSONs(d) \subseteq Item
<1>1. ASSUME NEW j \in PrefixJSON PROVE toPrefix(j) \in GoodRecord
  BY DEF PrefixJSON, toPrefix, GoodRecord, Record
<1>2. \A j \in PrefixJSON : j.Cidr \in Cidrs
  BY DEF PrefixJSON
<1> QED
  BY <1>1, <1>2 DEF fromJSONs, Item

-----------------------------------------------------------------------------
(***************************************************************************)
(* How a step of c changes the state of its request, and what it leaves    *)
(* alone.                                                                  *)
(***************************************************************************)
Others(c) ==
    \A d \in Clients \ {c} :
        /\ req'[d] = req[d] /\ pc'[d] = pc[d] /\ todo'[d] = todo[d]
        /\ list'[d] = list[d] /\ dumped'[d] = dumped[d]

\* A response ends the request.
LEMMA RespondOK ==
    ASSUME IInv, NEW c \in Clients, NEW code \in Codes, Respond(c, code)
    PROVE  /\ req' \in [Clients -> Request \cup {None}]
           /\ pc' \in [Clients -> PCs]
           /\ resp' \in [Clients -> Codes \cup {None}]
           /\ req'[c] = None /\ pc'[c] = "idle" /\ resp'[c] = code
           /\ \A d \in Clients \ {c} : req'[d] = req[d] /\ pc'[d] = pc[d]
  BY DEF IInv, Respond, PCs

\* A request goes on to its next step.
LEMMA GoToOK ==
    ASSUME IInv, NEW c \in Clients, NEW step \in PCs, GoTo(c, step)
    PROVE  /\ req' \in [Clients -> Request \cup {None}]
           /\ pc' \in [Clients -> PCs]
           /\ resp' \in [Clients -> Codes \cup {None}]
           /\ req' = req /\ pc'[c] = step
           /\ \A d \in Clients \ {c} : req'[d] = req[d] /\ pc'[d] = pc[d]
  BY DEF IInv, GoTo

\* The others are where they were, when the mutex is left to its holder.
LEMMA OthersOK ==
    ASSUME IInv, NEW c \in Clients, Others(c), UNCHANGED <<workload, storage>>,
           mu' = mu \/ mu = None \/ mu = c,
           NEW d \in Clients \ {c}
    PROVE  ClientOK(d)'
<1>1. ClientOK(d) /\ d # None
  BY NoneAssumption DEF IInv
<1>2. /\ req'[d] = req[d] /\ pc'[d] = pc[d] /\ todo'[d] = todo[d] /\ dumped'[d] = dumped[d]
      /\ workload' = workload /\ storage' = storage
  BY DEF Others
<1>3. At(d, "CreatePrefix", "Create") => mu' = d
  BY <1>1 DEF ClientOK
<1> QED
  BY <1>1, <1>2, <1>3 DEF ClientOK, At

\* A client without a request.
LEMMA IdleClientOK ==
    ASSUME NEW c \in Clients, req'[c] = None, pc'[c] = "idle"
    PROVE  ClientOK(c)'
  BY DEF ClientOK, At

-----------------------------------------------------------------------------
(***************************************************************************)
(* The invariant, action by action.                                        *)
(***************************************************************************)
\* What is left to show of a step of c.
LEMMA StepOK ==
    ASSUME IInv, NEW c \in Clients, UNCHANGED <<workload, storage>>,
           db' \in Databases,
           mu' \in Clients \cup {None}, mu' = mu \/ mu = None \/ mu = c,
           req' \in [Clients -> Request \cup {None}],
           pc' \in [Clients -> PCs],
           todo' \in [Clients -> SUBSET (Item \cup Cidrs)],
           list' \in [Clients -> SUBSET (Entry \cup Namespaces)],
           resp' \in [Clients -> Codes \cup {None}],
           dumped' \in [Clients -> Dumped],
           Others(c), ClientOK(c)'
    PROVE  IInv'
<1>1. \A d \in Clients \ {c} : ClientOK(d)'
  BY OthersOK
<1>2. \A d \in Clients : ClientOK(d)'
  BY <1>1
<1> QED
  BY <1>2 DEF IInv

\* What IInv says of one client.
LEMMA Parts ==
    ASSUME IInv, NEW c \in Clients
    PROVE  /\ ClientOK(c)
           /\ workload[c] \subseteq Request
           /\ req[c] # None => /\ req[c] \in Request
                               /\ req[c].ns \in Namespaces
                               /\ req[c].cidr \in Cidrs \cup {Malformed}
           /\ todo[c] \subseteq Item \cup Cidrs
           /\ dumped[c] \in Dumped
           /\ \A n : StoredIn(db, n) \subseteq Cidrs
           /\ \A n \in DOMAIN db : db[n] \in Records
  BY ServiceAssumption, DatabaseParts DEF IInv, Request

\* A request is made.
LEMMA CallOK ==
    ASSUME IInv, NEW c \in Clients, Call(c), UNCHANGED <<workload, storage>>
    PROVE  IInv'
<1> USE DEF IInv
<1>1. PICK r \in workload[c] : req' = [req EXCEPT ![c] = r]
  BY DEF Call
<1>2. r \in Request /\ r # None
  BY <1>1, Parts, NoneAssumption
<1>3. /\ req' \in [Clients -> Request \cup {None}]
      /\ pc' \in [Clients -> PCs]
      /\ list' \in [Clients -> SUBSET (Entry \cup Namespaces)]
      /\ resp' \in [Clients -> Codes \cup {None}]
      /\ req'[c] = r /\ pc'[c] = "start"
      /\ UNCHANGED <<db, mu, todo, dumped>>
      /\ Others(c)
  BY <1>1, <1>2 DEF Call, PCs, Others
<1>4. ClientOK(c)'
  BY <1>1, <1>2, <1>3 DEF ClientOK, At
<1> HIDE DEF IInv
<1> QED
  BY <1>3, <1>4, StepOK DEF IInv

\* A step that answers and leaves the loop, the storage and the dump alone.
LEMMA AnswerOK ==
    ASSUME IInv, NEW c \in Clients, UNCHANGED <<workload, storage>>, NEW code \in Codes,
           Respond(c, code), UNCHANGED <<todo, list, dumped>>,
           db' \in Databases, mu' = mu \/ (mu = c /\ mu' = None)
    PROVE  IInv'
<1>1. Others(c)
  BY RespondOK DEF Others
<1>2. ClientOK(c)'
  BY RespondOK, IdleClientOK
<1>3. /\ todo' \in [Clients -> SUBSET (Item \cup Cidrs)]
      /\ list' \in [Clients -> SUBSET (Entry \cup Namespaces)]
      /\ dumped' \in [Clients -> Dumped]
      /\ mu' \in Clients \cup {None}
  BY DEF IInv
<1> QED
  BY <1>1, <1>2, <1>3, RespondOK, StepOK

\* The first step of NewPrefix.
LEMMA NewPrefixReadOK ==
    ASSUME IInv, NEW c \in Clients, NewPrefixRead(c), UNCHANGED <<workload, storage>>
    PROVE  IInv'
<1>1. CASE Refused(req[c].ns, req[c].cidr)
  BY <1>1, AnswerOK DEF NewPrefixRead, Codes, IInv
<1>2. CASE ~Refused(req[c].ns, req[c].cidr)
  <2>1. GoTo(c, "Create") /\ mu = None /\ mu' = c /\ UNCHANGED <<db, todo, list, dumped>>
    BY <1>2 DEF NewPrefixRead
  <2>2. req[c] # None /\ req[c].op = "CreatePrefix" /\ req[c].cidr \in Cidrs
    BY <1>2, Parts DEF NewPrefixRead, Refused, At
  <2>3. "Create" \in PCs
    BY DEF PCs
  <2>4. Others(c)
    BY <2>1, <2>3, GoToOK DEF Others
  <2>5. ClientOK(c)'
    BY <2>1, <2>2, <2>3, GoToOK, Parts DEF ClientOK, At
  <2>6. /\ db' \in Databases
        /\ todo' \in [Clients -> SUBSET (Item \cup Cidrs)]
        /\ list' \in [Clients -> SUBSET (Entry \cup Namespaces)]
        /\ dumped' \in [Clients -> Dumped]
    BY <2>1 DEF IInv
  <2> QED
    BY <2>1, <2>3, <2>4, <2>5, <2>6, GoToOK, StepOK
<1> QED
  BY <1>1, <1>2

\* The second step of NewPrefix.
LEMMA NewPrefixCreateOK ==
    ASSUME IInv, NEW c \in Clients, NewPrefixCreate(c), UNCHANGED <<workload, storage>>
    PROVE  IInv'
<1>1. req[c] # None /\ req[c].cidr \in Cidrs /\ mu = c
  BY Parts DEF NewPrefixCreate, ClientOK, At
<1>2. db' \in Databases
  <2>1. CASE CreateOutcome(req[c].ns, req[c].cidr) = "ok"
    <3>1. req[c].ns \in DOMAIN db
      BY <2>1 DEF CreateOutcome, Exists
    <3>2. Put(req[c].ns, req[c].cidr, AsCreated(newPrefix))
      BY <2>1 DEF NewPrefixCreate
    <3>3. AsCreated(newPrefix) \in GoodRecord
      BY NewOK, AsCreatedOK
    <3> QED
      BY <1>1, <3>1, <3>2, <3>3, PutOK DEF IInv
  <2>2. CASE CreateOutcome(req[c].ns, req[c].cidr) # "ok"
    BY <2>2 DEF NewPrefixCreate, IInv
  <2> QED
    BY <2>1, <2>2
<1>3. \E code \in Codes : Respond(c, code)
  BY DEF NewPrefixCreate, Codes
<1> QED
  BY <1>1, <1>2, <1>3, AnswerOK DEF NewPrefixCreate

\* A request that has found what it looked for goes on to the step that writes.
LEMMA GoOnOK ==
    ASSUME IInv, NEW c \in Clients, UNCHANGED <<workload, storage>>, NEW step \in {"Delete", "DeleteAll"},
           req[c] # None, GoTo(c, step), UNCHANGED <<db, mu, todo, list, dumped>>,
           At(c, "Load", "start") => dumped[c].json # Malformed, pc[c] = "start"
    PROVE  IInv'
<1>1. step \in PCs
  BY DEF PCs
<1>2. Others(c)
  BY <1>1, GoToOK DEF Others
<1>3. ClientOK(c)'
  BY <1>1, GoToOK, Parts DEF ClientOK, At
<1>4. /\ db' \in Databases /\ mu' \in Clients \cup {None}
      /\ todo' \in [Clients -> SUBSET (Item \cup Cidrs)]
      /\ list' \in [Clients -> SUBSET (Entry \cup Namespaces)]
      /\ dumped' \in [Clients -> Dumped]
  BY DEF IInv
<1> QED
  BY <1>1, <1>2, <1>3, <1>4, GoToOK, StepOK

\* A turn of a loop.
LEMMA LoopOK ==
    ASSUME IInv, NEW c \in Clients, UNCHANGED <<workload, storage>>, NEW left \in SUBSET (Item \cup Cidrs),
           req[c] # None, Loop(c, "Each", left), UNCHANGED <<mu, dumped>>,
           db' \in Databases,
           req[c].op = "Load" => left \subseteq Item,
           req[c].op = "ListPrefixes" => left \subseteq Cidrs,
           list' \in [Clients -> SUBSET (Entry \cup Namespaces)],
           \A d \in Clients \ {c} : list'[d] = list[d]
    PROVE  IInv'
<1>1. /\ todo' \in [Clients -> SUBSET (Item \cup Cidrs)]
      /\ todo'[c] = left
      /\ \A d \in Clients \ {c} : todo'[d] = todo[d]
  BY DEF Loop, IInv
<1>2. "Each" \in PCs /\ "OK" \in Codes
  BY DEF PCs, Codes
<1>3. mu' \in Clients \cup {None} /\ dumped' \in [Clients -> Dumped]
  BY DEF IInv
<1>4. CASE left = {}
  <2>1. Respond(c, "OK")
    BY <1>4 DEF Loop
  <2>2. Others(c)
    BY <1>1, <1>2, <2>1, RespondOK DEF Others
  <2>3. ClientOK(c)'
    BY <1>2, <2>1, RespondOK, IdleClientOK
  <2> QED
    BY <1>1, <1>2, <1>3, <2>1, <2>2, <2>3, RespondOK, StepOK
<1>5. CASE left # {}
  <2>1. GoTo(c, "Each")
    BY <1>5 DEF Loop
  <2>2. Others(c)
    BY <1>1, <1>2, <2>1, GoToOK DEF Others
  <2>3. ClientOK(c)'
    BY <1>1, <1>2, <2>1, GoToOK, Parts DEF ClientOK, At
  <2> QED
    BY <1>1, <1>2, <1>3, <2>1, <2>2, <2>3, GoToOK, StepOK
<1> QED
  BY <1>4, <1>5

\* The first step of DeletePrefix.
LEMMA DeletePrefixReadOK ==
    ASSUME IInv, NEW c \in Clients, DeletePrefixRead(c), UNCHANGED <<workload, storage>>
    PROVE  IInv'
<1>1. db' \in Databases
  BY DEF DeletePrefixRead, IInv
<1>2. CASE \E code \in Codes : Respond(c, code)
  BY <1>1, <1>2, AnswerOK DEF DeletePrefixRead
<1>3. CASE GoTo(c, "Delete")
  BY <1>3, GoOnOK DEF DeletePrefixRead, At
<1> QED
  BY <1>2, <1>3 DEF DeletePrefixRead, Codes

\* The second step of DeletePrefix.
LEMMA DeletePrefixStoreOK ==
    ASSUME IInv, NEW c \in Clients, DeletePrefixStore(c), UNCHANGED <<workload, storage>>
    PROVE  IInv'
<1>1. db' \in Databases
  <2>1. CASE PrefixFrom(req[c].ns, req[c].cidr) = "ok"
    <3>1. req[c].ns \in DOMAIN db /\ req[c].cidr \in Cidrs
      BY <2>1, Parts DEF PrefixFrom, Exists, DeletePrefixStore, At
    <3>2. Put(req[c].ns, req[c].cidr, Absent)
      BY <2>1 DEF DeletePrefixStore
    <3> QED
      BY <3>1, <3>2, PutOK DEF IInv
  <2>2. CASE PrefixFrom(req[c].ns, req[c].cidr) # "ok"
    BY <2>2 DEF DeletePrefixStore, IInv
  <2> QED
    BY <2>1, <2>2
<1>2. \E code \in Codes : Respond(c, code)
  BY DEF DeletePrefixStore, Codes
<1> QED
  BY <1>1, <1>2, AnswerOK DEF DeletePrefixStore

\* GetPrefix and PrefixUsage.
LEMMA ReadOneOK ==
    ASSUME IInv, NEW c \in Clients, GetPrefix(c) \/ PrefixUsage(c), UNCHANGED <<workload, storage>>
    PROVE  IInv'
<1>1. \E code \in Codes : Respond(c, code)
  BY DEF GetPrefix, PrefixUsage, ReadOne, Codes
<1> QED
  BY <1>1, AnswerOK DEF GetPrefix, PrefixUsage, IInv

\* The first step of ListPrefixes.
LEMMA ListCidrsOK ==
    ASSUME IInv, NEW c \in Clients, ListCidrs(c), UNCHANGED <<workload, storage>>
    PROVE  IInv'
<1>1. CASE Exists(Root)
  <2>1. StoredIn(db, Root) \in SUBSET (Item \cup Cidrs) /\ StoredIn(db, Root) \subseteq Cidrs
    BY Parts
  <2>2. req[c] # None /\ req[c].op = "ListPrefixes" /\ Loop(c, "Each", StoredIn(db, Root))
    BY <1>1 DEF ListCidrs, At
  <2>3. UNCHANGED <<db, mu, list, dumped>>
    BY DEF ListCidrs
  <2> QED
    BY <2>1, <2>2, <2>3, LoopOK DEF IInv
<1>2. CASE ~Exists(Root)
  BY <1>2, AnswerOK DEF ListCidrs, Codes, IInv
<1> QED
  BY <1>1, <1>2

\* A step that ends a loop with an error.
LEMMA LoopFailsOK ==
    ASSUME IInv, NEW c \in Clients, UNCHANGED <<workload, storage>>, NEW code \in Codes,
           Respond(c, code), UNCHANGED <<db, mu, dumped>>,
           todo' = [todo EXCEPT ![c] = {}],
           list' = list \/ list' = [list EXCEPT ![c] = {}]
    PROVE  IInv'
<1>1. /\ todo' \in [Clients -> SUBSET (Item \cup Cidrs)]
      /\ list' \in [Clients -> SUBSET (Entry \cup Namespaces)]
      /\ dumped' \in [Clients -> Dumped]
      /\ mu' \in Clients \cup {None}
      /\ db' \in Databases
      /\ \A d \in Clients \ {c} : todo'[d] = todo[d] /\ list'[d] = list[d]
  BY DEF IInv
<1>2. Others(c)
  BY <1>1, RespondOK DEF Others
<1>3. ClientOK(c)'
  BY RespondOK, IdleClientOK
<1> QED
  BY <1>1, <1>2, <1>3, RespondOK, StepOK

\* What a list says of a stored prefix.
LEMMA EntryInOK ==
    ASSUME IInv, NEW n \in DOMAIN db, NEW k \in StoredIn(db, n)
    PROVE  EntryIn(db, n, k) \in Entry
<1>1. k \in Cidrs /\ db[n][k] \in GoodRecord
  BY DatabaseParts DEF IInv, StoredIn, Records
<1> QED
  BY <1>1 DEF EntryIn, Entry, GoodRecord, Record

\* A turn of ListPrefixes.
LEMMA ListEachOK ==
    ASSUME IInv, NEW c \in Clients, ListEach(c), UNCHANGED <<workload, storage>>
    PROVE  IInv'
<1>1. /\ req[c] # None /\ req[c].op = "ListPrefixes" /\ todo[c] \subseteq Cidrs
      /\ UNCHANGED <<db, mu, dumped>>
  BY Parts DEF ListEach, At, ClientOK
<1>2. PICK k \in todo[c] :
           IF PrefixFrom(req[c].ns, k) = "ok"
           THEN /\ Loop(c, "Each", todo[c] \ {k})
                /\ list' = [list EXCEPT ![c] = @ \cup {EntryIn(db, req[c].ns, k)}]
           ELSE /\ Respond(c, "Internal")
                /\ todo' = [todo EXCEPT ![c] = {}] /\ list' = [list EXCEPT ![c] = {}]
  BY DEF ListEach
<1>3. CASE PrefixFrom(req[c].ns, k) = "ok"
  <2>1. /\ Loop(c, "Each", todo[c] \ {k})
        /\ list' = [list EXCEPT ![c] = @ \cup {EntryIn(db, req[c].ns, k)}]
    BY <1>2, <1>3
  <2>2. todo[c] \ {k} \in SUBSET (Item \cup Cidrs) /\ todo[c] \ {k} \subseteq Cidrs
    BY <1>1
  <2>3. EntryIn(db, req[c].ns, k) \in Entry
    <3>1. req[c].ns \in DOMAIN db /\ k \in StoredIn(db, req[c].ns)
      BY <1>1, <1>2, <1>3 DEF PrefixFrom, Exists, StoredIn
    <3> QED
      BY <3>1, EntryInOK
  <2>4. /\ list' \in [Clients -> SUBSET (Entry \cup Namespaces)]
        /\ \A d \in Clients \ {c} : list'[d] = list[d]
        /\ db' \in Databases
    BY <1>1, <2>1, <2>3 DEF IInv
  <2> QED
    BY <1>1, <2>1, <2>2, <2>4, LoopOK
<1>4. CASE PrefixFrom(req[c].ns, k) # "ok"
  BY <1>1, <1>2, <1>4, LoopFailsOK DEF Codes
<1> QED
  BY <1>3, <1>4

\* Dump.
LEMMA DumpOK ==
    ASSUME IInv, NEW c \in Clients, Dump(c), UNCHANGED <<workload, storage>>
    PROVE  IInv'
<1>1. CASE Exists(Root)
  <2>1. db[Root] \in Records
    BY <1>1, Parts DEF Exists
  <2>2. NamespacedDump(Root) \in Dumped
    BY <2>1, ToJSONOK DEF NamespacedDump, Dumped
  <2>3. dumped' = [dumped EXCEPT ![c] = NamespacedDump(Root)] /\ Respond(c, "OK")
        /\ UNCHANGED <<db, mu, todo, list>>
    BY <1>1 DEF Dump
  <2>4. "OK" \in Codes
    BY DEF Codes
  <2>5. /\ dumped' \in [Clients -> Dumped]
        /\ \A d \in Clients \ {c} : dumped'[d] = dumped[d]
    BY <2>2, <2>3 DEF IInv
  <2>6. Others(c)
    BY <2>3, <2>4, <2>5, RespondOK DEF Others
  <2>7. ClientOK(c)'
    BY <2>3, <2>4, RespondOK, IdleClientOK
  <2>8. /\ todo' \in [Clients -> SUBSET (Item \cup Cidrs)]
        /\ list' \in [Clients -> SUBSET (Entry \cup Namespaces)]
        /\ mu' \in Clients \cup {None}
        /\ db' \in Databases
    BY <2>3 DEF IInv
  <2> QED
    BY <2>3, <2>4, <2>5, <2>6, <2>7, <2>8, RespondOK, StepOK
<1>2. CASE ~Exists(Root)
  BY <1>2, AnswerOK DEF Dump, Codes, IInv
<1> QED
  BY <1>1, <1>2

\* The first step of Load.
LEMMA LoadCheckOK ==
    ASSUME IInv, NEW c \in Clients, LoadCheck(c), UNCHANGED <<workload, storage>>
    PROVE  IInv'
<1>1. CASE Exists(Root) /\ StoredIn(db, Root) = {} /\ dumped[c].json # Malformed
  BY <1>1, GoOnOK DEF LoadCheck, At
<1>2. CASE ~(Exists(Root) /\ StoredIn(db, Root) = {} /\ dumped[c].json # Malformed)
  BY <1>2, AnswerOK DEF LoadCheck, Codes, IInv
<1> QED
  BY <1>1, <1>2

\* A namespace is emptied.
LEMMA EmptiedOK ==
    ASSUME db \in Databases, NEW n \in DOMAIN db, db' = [db EXCEPT ![n] = Empty]
    PROVE  db' \in Databases
<1>1. db \in [DOMAIN db -> Records] /\ DOMAIN db \subseteq Namespaces
  BY DatabaseParts
<1>2. db' \in [DOMAIN db -> Records]
  BY <1>1, EmptyOK
<1> QED
  BY <1>1, <1>2, DatabaseFromParts

\* The second step of Load.
LEMMA LoadDeleteAllOK ==
    ASSUME IInv, NEW c \in Clients, LoadDeleteAll(c), UNCHANGED <<workload, storage>>
    PROVE  IInv'
<1>1. CASE Exists(Root)
  <2>1. /\ db' = [db EXCEPT ![Root] = Empty] /\ Loop(c, "Each", fromJSONs(dumped[c].json))
        /\ UNCHANGED <<mu, list, dumped>>
        /\ req[c] # None /\ req[c].op = "Load"
    BY <1>1 DEF LoadDeleteAll, At
  <2>2. dumped[c].json \in SUBSET PrefixJSON
    BY Parts DEF LoadDeleteAll, ClientOK, Dumped
  <2>3. fromJSONs(dumped[c].json) \subseteq Item
    BY <2>2, FromJSONsOK
  <2>4. fromJSONs(dumped[c].json) \in SUBSET (Item \cup Cidrs)
    BY <2>3
  <2>5. db' \in Databases
    BY <1>1, <2>1, EmptiedOK DEF Exists, IInv
  <2>6. list' \in [Clients -> SUBSET (Entry \cup Namespaces)]
    BY <2>1 DEF IInv
  <2> QED
    BY <2>1, <2>3, <2>4, <2>5, <2>6, LoopOK
<1>2. CASE ~Exists(Root)
  BY <1>2, AnswerOK DEF LoadDeleteAll, Codes, IInv
<1> QED
  BY <1>1, <1>2

\* A turn of Load.
LEMMA LoadCreateOK ==
    ASSUME IInv, NEW c \in Clients, LoadCreate(c), UNCHANGED <<workload, storage>>
    PROVE  IInv'
<1>1. /\ req[c] # None /\ req[c].op = "Load" /\ todo[c] \subseteq Item
      /\ UNCHANGED <<mu, list, dumped>>
  BY Parts DEF LoadCreate, At, ClientOK
<1>2. PICK p \in todo[c] :
           /\ IF CreateOutcome(Root, p.cidr) = "ok" THEN Put(Root, p.cidr, AsCreated(p.record))
              ELSE UNCHANGED db
           /\ IF CreateOutcome(Root, p.cidr) \in {"ok", "existing"}
              THEN Loop(c, "Each", todo[c] \ {p})
              ELSE Respond(c, "InvalidArgument") /\ todo' = [todo EXCEPT ![c] = {}]
  BY DEF LoadCreate
<1>3. db' \in Databases
  <2>1. CASE CreateOutcome(Root, p.cidr) = "ok"
    <3>1. Root \in DOMAIN db
      BY <2>1 DEF CreateOutcome, Exists
    <3>2. p.cidr \in Cidrs /\ AsCreated(p.record) \in GoodRecord
      BY <1>1, <1>2, AsCreatedOK DEF Item
    <3> QED
      BY <1>2, <2>1, <3>1, <3>2, PutOK DEF IInv
  <2>2. CASE CreateOutcome(Root, p.cidr) # "ok"
    BY <1>2, <2>2 DEF IInv
  <2> QED
    BY <2>1, <2>2
<1>4. CASE CreateOutcome(Root, p.cidr) \in {"ok", "existing"}
  <2>1. todo[c] \ {p} \in SUBSET (Item \cup Cidrs) /\ todo[c] \ {p} \subseteq Item
    BY <1>1
  <2>2. list' \in [Clients -> SUBSET (Entry \cup Namespaces)]
    BY <1>1 DEF IInv
  <2> QED
    BY <1>1, <1>2, <1>3, <1>4, <2>1, <2>2, LoopOK
<1>5. CASE CreateOutcome(Root, p.cidr) \notin {"ok", "existing"}
  BY <1>1, <1>2, <1>5, LoopFailsOK DEF Codes
<1> QED
  BY <1>4, <1>5

\* CreateNamespace.
LEMMA CreateNamespaceOK ==
    ASSUME IInv, NEW c \in Clients, CreateNamespace(c), UNCHANGED <<workload, storage>>
    PROVE  IInv'
<1>1. CASE req[c].ns \in storage.tooLong
  BY <1>1, AnswerOK DEF CreateNamespace, Codes, IInv
<1>2. CASE req[c].ns \notin storage.tooLong
  <2>1. req[c].ns \in Namespaces /\ db' = WithNamespace(req[c].ns)
    BY <1>2, Parts DEF CreateNamespace, At
  <2>2. db' \in Databases
    BY <2>1, WithNamespaceOK DEF IInv
  <2> QED
    BY <1>2, <2>2, AnswerOK DEF CreateNamespace, Codes
<1> QED
  BY <1>1, <1>2

\* The first step of DeleteNamespace.
LEMMA DeleteNamespaceReadOK ==
    ASSUME IInv, NEW c \in Clients, DeleteNamespaceRead(c), UNCHANGED <<workload, storage>>
    PROVE  IInv'
<1>1. CASE Exists(req[c].ns) /\ StoredIn(db, req[c].ns) = {}
  BY <1>1, GoOnOK DEF DeleteNamespaceRead, At
<1>2. CASE ~(Exists(req[c].ns) /\ StoredIn(db, req[c].ns) = {})
  BY <1>2, AnswerOK DEF DeleteNamespaceRead, Codes, IInv
<1> QED
  BY <1>1, <1>2

\* The second step of DeleteNamespace.
LEMMA DeleteNamespaceStoreOK ==
    ASSUME IInv, NEW c \in Clients, DeleteNamespaceStore(c), UNCHANGED <<workload, storage>>
    PROVE  IInv'
<1> DEFINE N == DOMAIN db \ {req[c].ns}
<1>1. N \in SUBSET Namespaces
  BY DatabaseParts DEF IInv
<1>2. db' = [n \in N |-> db[n]]
  BY DEF DeleteNamespaceStore
<1>3. \A n \in N : db[n] \in Records
  BY Parts
<1> HIDE DEF N
<1>4. db' \in [N -> Records]
  BY <1>2, <1>3
<1>5. db' \in Databases
  BY <1>1, <1>4, DatabaseFromParts
<1>6. \E code \in Codes : Respond(c, code)
  BY DEF DeleteNamespaceStore, Codes
<1> QED
  BY <1>5, <1>6, AnswerOK DEF DeleteNamespaceStore

\* ListNamespaces.
LEMMA ListNamespacesOK ==
    ASSUME IInv, NEW c \in Clients, ListNamespaces(c), UNCHANGED <<workload, storage>>
    PROVE  IInv'
<1>1. DOMAIN db \subseteq Namespaces
  BY DatabaseParts DEF IInv
<1>2. list' = [list EXCEPT ![c] = DOMAIN db] /\ Respond(c, "OK") /\ UNCHANGED <<db, mu, todo, dumped>>
  BY DEF ListNamespaces
<1>3. "OK" \in Codes
  BY DEF Codes
<1>4. /\ list' \in [Clients -> SUBSET (Entry \cup Namespaces)]
      /\ \A d \in Clients \ {c} : list'[d] = list[d]
  BY <1>1, <1>2 DEF IInv
<1>5. Others(c)
  BY <1>2, <1>3, <1>4, RespondOK DEF Others
<1>6. ClientOK(c)'
  BY <1>2, <1>3, RespondOK, IdleClientOK
<1>7. /\ todo' \in [Clients -> SUBSET (Item \cup Cidrs)]
      /\ dumped' \in [Clients -> Dumped]
      /\ mu' \in Clients \cup {None}
      /\ db' \in Databases
  BY <1>2 DEF IInv
<1> QED
  BY <1>2, <1>3, <1>4, <1>5, <1>6, <1>7, RespondOK, StepOK

\* The process stops and starts again.
LEMMA RestartOK ==
    ASSUME IInv, Restart, UNCHANGED <<workload, storage>>
    PROVE  IInv'
<1>1. /\ mu' = None
      /\ req' = [c \in Clients |-> None]
      /\ pc' = [c \in Clients |-> "idle"]
      /\ todo' = [c \in Clients |-> {}]
      /\ list' = [c \in Clients |-> {}]
      /\ resp' = [c \in Clients |-> None]
      /\ db' = WithNamespace(Root)
      /\ UNCHANGED <<dumped, workload, storage>>
  BY DEF Restart
<1>2. \A c \in Clients : ClientOK(c)'
  BY <1>1, IdleClientOK
<1>3. db' \in Databases
  BY <1>1, ServiceAssumption, WithNamespaceOK DEF IInv
<1> QED
  BY <1>1, <1>2, <1>3 DEF IInv, PCs

\* The service starts with the prefixes of its storage in the default namespace.
LEMMA InitOK == Init => IInv
<1> SUFFICES ASSUME Init PROVE IInv
  OBVIOUS
<1>0. PICK s \in Scenarios :
         /\ workload = s.asks /\ storage = s.storage
         /\ db = [n \in {Root} |-> s.storage.has]
         /\ dumped = [c \in Clients |-> [json |-> s.dump, of |-> None]]
  BY DEF Init
<1>1. db \in Databases
  <2>1. {Root} \in SUBSET Namespaces
    BY ServiceAssumption
  <2>2. s.storage \in Storages
    BY DEF Storages
  <2>3. s.storage.has \in Records
    <3>1. s.storage.has \in [Cidrs -> Record \cup {Absent}]
      BY <2>2, ServiceAssumption DEF Storage
    <3>2. \A k \in Cidrs : s.storage.has[k] # Absent => WellFormed(s.storage.has[k])
      BY <2>2, ServiceAssumption
    <3> QED
      BY <3>1, <3>2 DEF Records, GoodRecord, WellFormed
  <2>4. db \in [{Root} -> Records]
    BY <1>0, <2>3
  <2> QED
    BY <2>1, <2>4, DatabaseFromParts
<1>2. dumped \in [Clients -> Dumped]
  <2>1. s.dump \in {Malformed} \cup SUBSET PrefixJSON
    BY DumpsAssumption DEF Dumps
  <2>2. [json |-> s.dump, of |-> None] \in Dumped
    BY <2>1 DEF Dumped
  <2> QED
    BY <1>0, <2>2
<1>3. \A c \in Clients : ClientOK(c)
  BY DEF Init, ClientOK, At
<1>4. workload \in Workloads /\ storage \in Storages
  BY <1>0 DEF Workloads, Storages
<1> QED
  BY <1>1, <1>2, <1>3, <1>4 DEF Init, IInv, PCs

\* A step of a request.
LEMMA StepsOK ==
    ASSUME IInv, NEW c \in Clients, Step(c), UNCHANGED <<workload, storage>>
    PROVE  IInv'
  BY NewPrefixReadOK, NewPrefixCreateOK, DeletePrefixReadOK, DeletePrefixStoreOK, ReadOneOK,
     ListCidrsOK, ListEachOK, DumpOK, LoadCheckOK, LoadDeleteAllOK, LoadCreateOK,
     CreateNamespaceOK, DeleteNamespaceReadOK, DeleteNamespaceStoreOK, ListNamespacesOK
  DEF Step, CreatePrefix, DeletePrefix, ListPrefixes, Load, DeleteNamespace

\* The invariant is inductive.
LEMMA NextOK ==
    ASSUME IInv, [Next]_vars
    PROVE  IInv'
<1>1. CASE UNCHANGED vars
  <2>1. ASSUME NEW c \in Clients PROVE ClientOK(c)'
    <3>1. ClientOK(c)
      BY DEF IInv
    <3> QED
      BY <1>1, <3>1 DEF vars, ClientOK, At
  <2> QED
    BY <1>1, <2>1 DEF vars, IInv
<1>2. CASE Next
  BY <1>2, CallOK, StepsOK, RestartOK DEF Next
<1> QED
  BY <1>1, <1>2

\* The invariant is one.
LEMMA Invariance == Spec => []IInv
  BY InitOK, NextOK, PTL DEF Spec

(***************************************************************************)
(* Every record that the service stores is well formed, those of a dump of *)
(* an earlier version too; nobody but a client has the mutex; and a        *)
(* request is in progress as long as its client waits.                     *)
(***************************************************************************)
THEOREM TypeCorrect == Spec => []TypeOK
<1>1. IInv => TypeOK
  <2> SUFFICES ASSUME IInv PROVE TypeOK
    OBVIOUS
  <2>1. ASSUME NEW n \in DOMAIN db, NEW k \in StoredIn(db, n)
        PROVE  db[n][k] \in GoodRecord
    BY DatabaseParts DEF IInv, StoredIn, Records
  <2>2. ASSUME NEW n \in DOMAIN db, NEW k \in StoredIn(db, n)
        PROVE  db[n][k] \in Record /\ (db[n][k].childPrefixLength > 0 => db[n][k].isParent)
    BY <2>1 DEF GoodRecord
  <2>3. \A c \in Clients : (req[c] = None) <=> (pc[c] = "idle")
    BY DEF IInv, ClientOK
  <2>4. DOMAIN db \subseteq Namespaces
    BY DatabaseParts DEF IInv
  <2> QED
    BY <2>2, <2>3, <2>4, ServiceAssumption DEF TypeOK, WellFormed, IInv
<1> QED
  BY <1>1, Invariance, PTL

-----------------------------------------------------------------------------
(***************************************************************************)
(* What a step of a client can do to the records and to the other clients, *)
(* and how its request comes to a step behind the first.                   *)
(***************************************************************************)
\* Nothing is stored that was not.
Fewer ==
    \A n \in DOMAIN db' : \A k \in StoredIn(db', n) :
        n \in DOMAIN db /\ k \in StoredIn(db, n) /\ db'[n][k] = db[n][k]

\* One prefix is stored that was not.
Added(n, k, p) == n \in DOMAIN db /\ k \in Cidrs /\ db[n][k] = Absent /\ Put(n, k, p)

Moves(c) == Call(c) \/ Step(c)

\* A step leaves the requests of the others alone and does not swap its own.
LEMMA MovesOthers ==
    ASSUME IInv, NEW c \in Clients, Moves(c)
    PROVE  /\ \A d \in Clients \ {c} :
                 /\ req'[d] = req[d] /\ pc'[d] = pc[d] /\ todo'[d] = todo[d]
                 /\ list'[d] = list[d] /\ dumped'[d] = dumped[d] /\ resp'[d] = resp[d]
           /\ (Step(c) /\ req'[c] # None) => req'[c] = req[c]
<1> USE DEF IInv
<1>1. CASE Call(c)
  BY <1>1 DEF Call, Step, CreatePrefix, DeletePrefix, ListPrefixes, Load, DeleteNamespace, At,
     NewPrefixRead, NewPrefixCreate, DeletePrefixRead, DeletePrefixStore, GetPrefix, PrefixUsage,
     ListCidrs, ListEach, Dump, LoadCheck, LoadDeleteAll, LoadCreate, CreateNamespace,
     DeleteNamespaceRead, DeleteNamespaceStore, ListNamespaces
<1>2. ASSUME NEW code, Respond(c, code)
      PROVE  /\ \A d \in Clients \ {c} : req'[d] = req[d] /\ pc'[d] = pc[d] /\ resp'[d] = resp[d]
             /\ req'[c] = None
  BY <1>2 DEF Respond
<1>3. ASSUME NEW step, GoTo(c, step)
      PROVE  /\ \A d \in Clients \ {c} : req'[d] = req[d] /\ pc'[d] = pc[d] /\ resp'[d] = resp[d]
             /\ req' = req
  BY <1>3 DEF GoTo
<1>4. ASSUME NEW step, NEW left, Loop(c, step, left)
      PROVE  /\ \A d \in Clients \ {c} : req'[d] = req[d] /\ pc'[d] = pc[d] /\ resp'[d] = resp[d]
             /\ \A d \in Clients \ {c} : todo'[d] = todo[d]
             /\ req'[c] # None => req'[c] = req[c]
  BY <1>2, <1>3, <1>4 DEF Loop
<1> DEFINE Good == /\ \A d \in Clients \ {c} :
                         /\ req'[d] = req[d] /\ pc'[d] = pc[d] /\ todo'[d] = todo[d]
                         /\ list'[d] = list[d] /\ dumped'[d] = dumped[d] /\ resp'[d] = resp[d]
                   /\ req'[c] # None => req'[c] = req[c]
<1>5. CASE NewPrefixRead(c) \/ NewPrefixCreate(c)
  <2>1. Good
    BY <1>2, <1>3, <1>5 DEF NewPrefixRead, NewPrefixCreate
  <2> QED
    BY <2>1
<1>6. CASE DeletePrefixRead(c) \/ DeletePrefixStore(c)
  <2>1. Good
    BY <1>2, <1>3, <1>6 DEF DeletePrefixRead, DeletePrefixStore
  <2> QED
    BY <2>1
<1>7. CASE GetPrefix(c) \/ PrefixUsage(c) \/ Dump(c) \/ ListNamespaces(c)
  <2>1. Good
    BY <1>2, <1>7 DEF GetPrefix, PrefixUsage, ReadOne, Dump, ListNamespaces
  <2> QED
    BY <2>1
<1>8. CASE ListCidrs(c) \/ ListEach(c)
  <2>1. Good
    BY <1>2, <1>4, <1>8 DEF ListCidrs, ListEach
  <2> QED
    BY <2>1
<1>9. CASE LoadCheck(c) \/ LoadDeleteAll(c) \/ LoadCreate(c)
  <2>1. Good
    BY <1>2, <1>3, <1>4, <1>9 DEF LoadCheck, LoadDeleteAll, LoadCreate
  <2> QED
    BY <2>1
<1>10. CASE CreateNamespace(c) \/ DeleteNamespaceRead(c) \/ DeleteNamespaceStore(c)
  <2>1. Good
    BY <1>2, <1>3, <1>10 DEF CreateNamespace, DeleteNamespaceRead, DeleteNamespaceStore
  <2> QED
    BY <2>1
<1> QED
  BY <1>1, <1>5, <1>6, <1>7, <1>8, <1>9, <1>10
  DEF Moves, Step, CreatePrefix, DeletePrefix, ListPrefixes, Load, DeleteNamespace

\* A write of one record.
LEMMA PutEffect ==
    ASSUME db \in Databases, NEW n \in DOMAIN db, NEW k \in Cidrs, NEW p, Put(n, k, p)
    PROVE  /\ DOMAIN db' = DOMAIN db
           /\ db'[n][k] = p
           /\ \A m \in DOMAIN db, j \in Cidrs : (m # n \/ j # k) => db'[m][j] = db[m][j]
<1>1. db \in [DOMAIN db -> Records]
  BY DatabaseParts
<1>2. db' = [db EXCEPT ![n] = [db[n] EXCEPT ![k] = p]]
  BY DEF Put
<1> QED
  BY <1>1, <1>2 DEF Records

\* A new namespace has no prefixes.
LEMMA MadeFewer ==
    ASSUME IInv, NEW n \in Namespaces, db' = WithNamespace(n)
    PROVE  Fewer
<1>1. /\ \A m \in DOMAIN db : db'[m] = db[m]
      /\ \A m \in DOMAIN db' \ DOMAIN db : db'[m] = Empty
  BY WithNamespaceOK DEF IInv
<1> QED
  BY <1>1 DEF Fewer, StoredIn, Empty

\* What a step can do to the records.
LEMMA Effect ==
    ASSUME IInv, NEW c \in Clients, Moves(c)
    PROVE  \/ Fewer
           \/ NewPrefixCreate(c) /\ Added(req[c].ns, req[c].cidr, AsCreated(newPrefix))
           \/ LoadCreate(c) /\ \E p \in todo[c] : Added(Root, p.cidr, AsCreated(p.record))
<1> USE DEF IInv
<1>1. CASE UNCHANGED db
  BY <1>1 DEF Fewer, StoredIn
<1>2. CASE NewPrefixCreate(c)
  <2>1. CASE CreateOutcome(req[c].ns, req[c].cidr) = "ok"
    <3>1. req[c].cidr \in Cidrs
      BY <1>2, Parts DEF NewPrefixCreate, ClientOK
    <3>2. Put(req[c].ns, req[c].cidr, AsCreated(newPrefix))
      BY <1>2, <2>1 DEF NewPrefixCreate
    <3>3. req[c].ns \in DOMAIN db /\ db[req[c].ns][req[c].cidr] = Absent
      BY <2>1, OutcomeOK
    <3> QED
      BY <1>2, <3>1, <3>2, <3>3 DEF Added
  <2>2. CASE CreateOutcome(req[c].ns, req[c].cidr) # "ok"
    BY <1>1, <1>2, <2>2 DEF NewPrefixCreate
  <2> QED
    BY <2>1, <2>2
<1>3. CASE DeletePrefixStore(c)
  <2>1. CASE PrefixFrom(req[c].ns, req[c].cidr) = "ok"
    <3>1. req[c].ns \in DOMAIN db /\ req[c].cidr \in Cidrs
      BY <1>3, <2>1, Parts DEF PrefixFrom, Exists, DeletePrefixStore, At
    <3>2. Put(req[c].ns, req[c].cidr, Absent)
      BY <1>3, <2>1 DEF DeletePrefixStore
    <3> QED
      BY <3>1, <3>2, PutEffect DEF Fewer, StoredIn
  <2>2. CASE PrefixFrom(req[c].ns, req[c].cidr) # "ok"
    BY <1>1, <1>3, <2>2 DEF DeletePrefixStore
  <2> QED
    BY <2>1, <2>2
<1>4. CASE LoadDeleteAll(c)
  <2>1. CASE Exists(Root)
    <3>1. db' = [db EXCEPT ![Root] = Empty]
      BY <1>4, <2>1 DEF LoadDeleteAll
    <3> QED
      BY <3>1 DEF Fewer, StoredIn, Empty
  <2>2. CASE ~Exists(Root)
    BY <1>1, <1>4, <2>2 DEF LoadDeleteAll
  <2> QED
    BY <2>1, <2>2
<1>5. CASE LoadCreate(c)
  <2>1. PICK p \in todo[c] :
           IF CreateOutcome(Root, p.cidr) = "ok" THEN Put(Root, p.cidr, AsCreated(p.record))
           ELSE UNCHANGED db
    BY <1>5 DEF LoadCreate
  <2>2. CASE CreateOutcome(Root, p.cidr) = "ok"
    <3>1. p.cidr \in Cidrs
      BY <1>5, Parts DEF LoadCreate, ClientOK, Item
    <3>2. Root \in DOMAIN db /\ db[Root][p.cidr] = Absent
      BY <2>2, OutcomeOK
    <3> QED
      BY <1>5, <2>1, <2>2, <3>1, <3>2 DEF Added
  <2>3. CASE CreateOutcome(Root, p.cidr) # "ok"
    BY <1>1, <2>1, <2>3
  <2> QED
    BY <2>2, <2>3
<1>6. CASE CreateNamespace(c)
  <2>1. CASE db' = WithNamespace(req[c].ns)
    BY <1>6, <2>1, Parts, MadeFewer DEF CreateNamespace, At
  <2> QED
    BY <1>1, <1>6, <2>1 DEF CreateNamespace
<1>7. CASE DeleteNamespaceStore(c)
  BY <1>7 DEF DeleteNamespaceStore, Fewer, StoredIn
<1> QED
  BY <1>1, <1>2, <1>3, <1>4, <1>5, <1>6, <1>7
  DEF Moves, Step, CreatePrefix, DeletePrefix, ListPrefixes, Load, DeleteNamespace,
      Call, NewPrefixRead, DeletePrefixRead, GetPrefix, PrefixUsage, ListCidrs, ListEach, Dump,
      LoadCheck, DeleteNamespaceRead, ListNamespaces

\* How a request of c comes to a step behind the first.
LEMMA Entered ==
    ASSUME IInv, NEW c \in Clients, Moves(c), req'[c] # None, pc'[c] # "start"
    PROVE  /\ req[c] # None /\ req'[c] = req[c]
           /\ \/ /\ NewPrefixRead(c) /\ pc'[c] = "Create" /\ req[c].op = "CreatePrefix"
                 /\ ~Refused(req[c].ns, req[c].cidr)
              \/ /\ DeletePrefixRead(c) /\ pc'[c] = "Delete" /\ req[c].op = "DeletePrefix"
              \/ /\ (ListCidrs(c) \/ ListEach(c)) /\ pc'[c] = "Each"
                 /\ req[c].op = "ListPrefixes"
              \/ /\ LoadCheck(c) /\ pc'[c] = "DeleteAll" /\ req[c].op = "Load"
                 /\ StoredIn(db, Root) = {}
              \/ /\ (LoadDeleteAll(c) \/ LoadCreate(c)) /\ pc'[c] = "Each" /\ req[c].op = "Load"
              \/ /\ DeleteNamespaceRead(c) /\ pc'[c] = "Delete"
                 /\ req[c].op = "DeleteNamespace" /\ StoredIn(db, req[c].ns) = {}
<1> USE DEF IInv
<1>1. ~Call(c)
  BY DEF Call
<1>2. Step(c) /\ req'[c] = req[c] /\ req[c] # None
  BY <1>1, MovesOthers DEF Moves
<1>3. \A code : ~Respond(c, code)
  BY DEF Respond
<1>4. ASSUME NEW step, GoTo(c, step) PROVE pc'[c] = step
  BY <1>4 DEF GoTo
<1>5. ASSUME NEW step, NEW left, Loop(c, step, left) PROVE pc'[c] = step
  BY <1>3, <1>4, <1>5 DEF Loop
<1>6. ~(\/ NewPrefixCreate(c) \/ DeletePrefixStore(c) \/ GetPrefix(c) \/ PrefixUsage(c)
        \/ Dump(c) \/ CreateNamespace(c) \/ DeleteNamespaceStore(c) \/ ListNamespaces(c))
  BY <1>3 DEF NewPrefixCreate, DeletePrefixStore, GetPrefix, PrefixUsage, ReadOne, Dump,
              CreateNamespace, DeleteNamespaceStore, ListNamespaces
<1>7. CASE NewPrefixRead(c)
  BY <1>2, <1>3, <1>4, <1>7 DEF NewPrefixRead, At
<1>8. CASE DeletePrefixRead(c)
  BY <1>2, <1>3, <1>4, <1>8 DEF DeletePrefixRead, At
<1>9. CASE ListCidrs(c)
  BY <1>2, <1>3, <1>5, <1>9 DEF ListCidrs, At
<1>10. CASE ListEach(c)
  BY <1>2, <1>3, <1>5, <1>10 DEF ListEach, At
<1>11. CASE LoadCheck(c)
  BY <1>2, <1>3, <1>4, <1>11 DEF LoadCheck, At
<1>12. CASE LoadDeleteAll(c)
  BY <1>2, <1>3, <1>5, <1>12 DEF LoadDeleteAll, At
<1>13. CASE LoadCreate(c)
  BY <1>2, <1>3, <1>5, <1>13 DEF LoadCreate, At
<1>14. CASE DeleteNamespaceRead(c)
  BY <1>2, <1>3, <1>4, <1>14 DEF DeleteNamespaceRead, At
<1> QED
  BY <1>2, <1>6, <1>7, <1>8, <1>9, <1>10, <1>11, <1>12, <1>13, <1>14
  DEF Step, CreatePrefix, DeletePrefix, ListPrefixes, Load, DeleteNamespace

-----------------------------------------------------------------------------
(***************************************************************************)
(* Requests of two clients that must not meet.  Load asks for an empty     *)
(* namespace and then writes without the mutex: what it and a NewPrefix in *)
(* the default namespace create may overlap.  A deployment in which one    *)
(* client at most does such things is safe.                                *)
(***************************************************************************)
\* Requests that store prefixes in n.
Fills(r, n) == (r.op = "CreatePrefix" /\ r.ns = n) \/ (r.op = "Load" /\ n = Root)

\* What one client loads, no other client adds to.
LoadsApart ==
    \A w \in Workloads : \A c, d \in Clients : \A r \in w[c], s \in w[d] :
        (c # d /\ r.op = "Load") => ~Fills(s, Root)

\* The dumps that clients bring have no overlaps.
ApartItems(S) ==
    \A i, j \in S :
        (i.cidr # j.cidr /\ i.record.ParentCidr = None /\ j.record.ParentCidr = None)
            => Covers[i.cidr] \cap Covers[j.cidr] = {}

DumpsApart == \A d \in Dumps : d = Malformed \/ ApartItems(fromJSONs(d))

\* And neither have the storages at the start.
StoragesApart ==
    \A s \in Storages : \A j, k \in Cidrs :
        (/\ j # k /\ s.has[j] # Absent /\ s.has[k] # Absent
         /\ s.has[j].ParentCidr = None /\ s.has[k].ParentCidr = None)
            => Covers[j] \cap Covers[k] = {}

(***************************************************************************)
(* The invariant: between the read and the write of a NewPrefix nothing    *)
(* comes into its namespace that overlaps; a dump has no overlaps, because *)
(* the storage it was made from had none; and while a dump is loaded, the  *)
(* default namespace has prefixes of this dump only.                       *)
(***************************************************************************)
CreateClear(c) ==
    At(c, "CreatePrefix", "Create") =>
        \A k \in StoredIn(db, req[c].ns) : Covers[k] \cap Covers[req[c].cidr] = {}

DumpApart(c) == dumped[c].json # Malformed => ApartItems(fromJSONs(dumped[c].json))

LoadOwn(c) ==
    At(c, "Load", "Each") =>
        /\ dumped[c].json # Malformed
        /\ todo[c] \subseteq fromJSONs(dumped[c].json)
        /\ \A k \in StoredIn(db, Root) : \E i \in fromJSONs(dumped[c].json) :
               i.cidr = k /\ i.record.ParentCidr = db[Root][k].ParentCidr

DisjointInv ==
    /\ TopLevelDisjoint
    /\ \A c \in Clients : CreateClear(c) /\ DumpApart(c) /\ LoadOwn(c)

\* A dump of good records has the items that were stored.
LEMMA RoundTrip ==
    ASSUME NEW r \in Records
    PROVE  fromJSONs(toJSON(r))
              = { [cidr |-> k, record |-> r[k]] : k \in { k \in Cidrs : r[k] # Absent } }
<1> DEFINE S == { k \in Cidrs : r[k] # Absent }
<1>1. ASSUME NEW k \in S
      PROVE  [cidr |-> toPrefixJSON(k, r[k]).Cidr, record |-> toPrefix(toPrefixJSON(k, r[k]))]
                = [cidr |-> k, record |-> r[k]]
  <2>1. r[k] \in GoodRecord
    BY DEF Records
  <2>2. toPrefixJSON(k, r[k]).Cidr = k
    BY DEF toPrefixJSON
  <2>3. toPrefix(toPrefixJSON(k, r[k])) = r[k]
    <3>1. /\ r[k] \in Record /\ r[k].childPrefixLength \in Nat /\ r[k].isParent \in BOOLEAN
          /\ r[k].childPrefixLength > 0 => r[k].isParent
      BY <2>1 DEF GoodRecord, Record
    <3>2. toPrefix(toPrefixJSON(k, r[k]))
             = [ParentCidr |-> r[k].ParentCidr,
                isParent |-> r[k].isParent \/ r[k].childPrefixLength > 0,
                childPrefixLength |-> r[k].childPrefixLength, ips |-> r[k].ips,
                version |-> r[k].version]
      BY DEF toPrefix, toPrefixJSON
    <3>3. (r[k].isParent \/ r[k].childPrefixLength > 0) = r[k].isParent
      BY <3>1
    <3> QED
      BY <3>1, <3>2, <3>3 DEF Record
  <2> QED
    BY <2>2, <2>3
<1>2. toJSON(r) = { toPrefixJSON(k, r[k]) : k \in S }
  BY DEF toJSON
<1> HIDE DEF S
<1>3. fromJSONs(toJSON(r))
         = { [cidr |-> toPrefixJSON(k, r[k]).Cidr, record |-> toPrefix(toPrefixJSON(k, r[k]))] :
             k \in S }
  BY <1>2 DEF fromJSONs
<1>4. fromJSONs(toJSON(r)) = { [cidr |-> k, record |-> r[k]] : k \in S }
  BY <1>1, <1>3
<1> QED
  BY <1>4 DEF S

\* Who loads meets nobody who fills the default namespace.
LEMMA LoaderMeetsNone ==
    ASSUME LoadsApart, IInv, NEW c \in Clients, NEW d \in Clients \ {c},
           req[c] # None, req[c].op = "Load", req[d] # None
    PROVE  ~Fills(req[d], Root)
<1>1. req[c] \in workload[c] /\ req[d] \in workload[d] /\ workload \in Workloads
  BY DEF IInv, ClientOK
<1> QED
  BY <1>1 DEF LoadsApart

\* A step that adds nothing keeps prefixes apart.
LEMMA FewerApart ==
    ASSUME TopLevelDisjoint, Fewer
    PROVE  TopLevelDisjoint'
  BY DEF TopLevelDisjoint, Fewer

\* What is stored after a prefix has been added.
LEMMA AddedEffect ==
    ASSUME IInv, NEW n, NEW k, NEW p, Added(n, k, p)
    PROVE  /\ DOMAIN db' = DOMAIN db /\ n \in DOMAIN db /\ k \in Cidrs
           /\ db'[n][k] = p
           /\ \A m \in DOMAIN db' : \A j \in StoredIn(db', m) :
                 \/ m = n /\ j = k
                 \/ j \in StoredIn(db, m) /\ db'[m][j] = db[m][j]
<1>1. db \in Databases /\ n \in DOMAIN db /\ k \in Cidrs /\ Put(n, k, p)
  BY DEF IInv, Added
<1>2. /\ DOMAIN db' = DOMAIN db /\ db'[n][k] = p
      /\ \A m \in DOMAIN db, j \in Cidrs : (m # n \/ j # k) => db'[m][j] = db[m][j]
  BY <1>1, PutEffect
<1> QED
  BY <1>1, <1>2 DEF StoredIn

\* A step that adds a prefix without overlap keeps prefixes apart.
LEMMA AddedApart ==
    ASSUME IInv, TopLevelDisjoint, NEW n, NEW k, NEW p, Added(n, k, p),
           \A j \in StoredIn(db, n) :
               (j # k /\ db[n][j].ParentCidr = None /\ p.ParentCidr = None)
                   => Covers[j] \cap Covers[k] = {}
    PROVE  TopLevelDisjoint'
<1> SUFFICES ASSUME NEW m \in DOMAIN db', NEW i \in StoredIn(db', m), NEW j \in StoredIn(db', m),
                    i # j, db'[m][i].ParentCidr = None, db'[m][j].ParentCidr = None
             PROVE  Covers[i] \cap Covers[j] = {}
  BY DEF TopLevelDisjoint
<1>1. DOMAIN db' = DOMAIN db /\ db'[n][k] = p
  BY AddedEffect
<1>2. (m = n /\ i = k) \/ (i \in StoredIn(db, m) /\ db'[m][i] = db[m][i])
  BY AddedEffect
<1>3. (m = n /\ j = k) \/ (j \in StoredIn(db, m) /\ db'[m][j] = db[m][j])
  BY AddedEffect
<1>4. CASE i \in StoredIn(db, m) /\ db'[m][i] = db[m][i]
           /\ j \in StoredIn(db, m) /\ db'[m][j] = db[m][j]
  BY <1>1, <1>4 DEF TopLevelDisjoint
<1>5. CASE m = n /\ i = k /\ j \in StoredIn(db, m) /\ db'[m][j] = db[m][j]
  BY <1>1, <1>5
<1>6. CASE m = n /\ j = k /\ i \in StoredIn(db, m) /\ db'[m][i] = db[m][i]
  BY <1>1, <1>6
<1> QED
  BY <1>2, <1>3, <1>4, <1>5, <1>6

\* Prefixes without a parent stay apart.
LEMMA ApartStep ==
    ASSUME IInv, DisjointInv, NEW c \in Clients, Moves(c)
    PROVE  TopLevelDisjoint'
<1>0. TopLevelDisjoint /\ CreateClear(c) /\ LoadOwn(c) /\ DumpApart(c)
  BY DEF DisjointInv
<1>1. CASE Fewer
  BY <1>0, <1>1, FewerApart
<1>2. CASE NewPrefixCreate(c) /\ Added(req[c].ns, req[c].cidr, AsCreated(newPrefix))
  <2>1. \A j \in StoredIn(db, req[c].ns) : Covers[j] \cap Covers[req[c].cidr] = {}
    BY <1>0, <1>2 DEF CreateClear, NewPrefixCreate
  <2> QED
    BY <1>0, <1>2, <2>1, AddedApart
<1>3. CASE LoadCreate(c) /\ \E p \in todo[c] : Added(Root, p.cidr, AsCreated(p.record))
  <2>1. PICK p \in todo[c] : Added(Root, p.cidr, AsCreated(p.record))
    BY <1>3
  <2>2. /\ p \in fromJSONs(dumped[c].json) /\ ApartItems(fromJSONs(dumped[c].json))
        /\ \A k \in StoredIn(db, Root) : \E i \in fromJSONs(dumped[c].json) :
              i.cidr = k /\ i.record.ParentCidr = db[Root][k].ParentCidr
        /\ p \in Item
    BY <1>0, <1>3, <2>1, Parts DEF LoadOwn, DumpApart, LoadCreate, ClientOK
  <2>3. ASSUME NEW j \in StoredIn(db, Root), j # p.cidr,
               db[Root][j].ParentCidr = None, AsCreated(p.record).ParentCidr = None
        PROVE  Covers[j] \cap Covers[p.cidr] = {}
    <3>1. PICK i \in fromJSONs(dumped[c].json) :
             i.cidr = j /\ i.record.ParentCidr = db[Root][j].ParentCidr
      BY <2>2
    <3>2. p.record.ParentCidr = None
      BY <2>2, <2>3, AsCreatedOK DEF Item
    <3> QED
      BY <2>2, <2>3, <3>1, <3>2 DEF ApartItems
  <2> QED
    BY <1>0, <2>1, <2>3, AddedApart
<1> QED
  BY <1>1, <1>2, <1>3, Effect

\* Nothing comes between the read and the write of a NewPrefix.
LEMMA CreateClearStep ==
    ASSUME LoadsApart, IInv, DisjointInv, NEW c \in Clients, Moves(c), NEW d \in Clients
    PROVE  CreateClear(d)'
<1> SUFFICES ASSUME At(d, "CreatePrefix", "Create")', NEW k \in StoredIn(db', req'[d].ns)
             PROVE  Covers[k] \cap Covers[req'[d].cidr] = {}
  BY DEF CreateClear
<1>1. CASE d = c
  <2>1. NewPrefixRead(c) /\ req'[c] = req[c] /\ ~Refused(req[c].ns, req[c].cidr)
    BY <1>1, Entered DEF At
  <2>2. UNCHANGED db
    BY <2>1 DEF NewPrefixRead
  <2> QED
    BY <1>1, <2>1, <2>2 DEF Refused, Overlapping
<1>2. CASE d # c
  <2>1. At(d, "CreatePrefix", "Create") /\ req'[d] = req[d]
    BY <1>2, MovesOthers DEF At
  <2>2. /\ \A j \in StoredIn(db, req[d].ns) : Covers[j] \cap Covers[req[d].cidr] = {}
        /\ mu = d /\ req[d] # None /\ req[d].op = "CreatePrefix"
    BY <2>1, Parts DEF DisjointInv, CreateClear, ClientOK, At
  <2>3. req[d].ns \in DOMAIN db'
    BY <2>1 DEF StoredIn
  <2>4. CASE Fewer
    BY <2>1, <2>2, <2>3, <2>4 DEF Fewer
  <2>5. CASE NewPrefixCreate(c)
    BY <1>2, <2>2, <2>5, Parts DEF NewPrefixCreate, ClientOK
  <2>6. CASE LoadCreate(c) /\ \E p \in todo[c] : Added(Root, p.cidr, AsCreated(p.record))
    <3>1. PICK p \in todo[c] : Added(Root, p.cidr, AsCreated(p.record))
      BY <2>6
    <3>2. req[d].ns # Root
      BY <1>2, <2>2, <2>6, LoaderMeetsNone DEF Fills, LoadCreate, At
    <3>3. k \in StoredIn(db, req[d].ns)
      BY <2>1, <2>3, <3>1, <3>2, AddedEffect
    <3> QED
      BY <2>1, <2>2, <3>3
  <2> QED
    BY <2>4, <2>5, <2>6, Effect
<1> QED
  BY <1>1, <1>2

\* A dump has no overlaps.
LEMMA DumpApartStep ==
    ASSUME IInv, DisjointInv, NEW c \in Clients, Moves(c), NEW d \in Clients
    PROVE  DumpApart(d)'
<1>1. CASE dumped'[d] = dumped[d]
  BY <1>1 DEF DisjointInv, DumpApart
<1>2. CASE dumped'[d] # dumped[d]
  <2>1. d = c /\ UNCHANGED dumped => FALSE
    BY <1>2
  <2>2. d = c
    BY <1>2, MovesOthers
  <2>3. Dump(c)
    BY <2>1, <2>2
    DEF Moves, Step, CreatePrefix, DeletePrefix, ListPrefixes, Load, DeleteNamespace,
        Call, NewPrefixRead, NewPrefixCreate, DeletePrefixRead, DeletePrefixStore, GetPrefix,
        PrefixUsage, ListCidrs, ListEach, LoadCheck, LoadDeleteAll, LoadCreate,
        CreateNamespace, DeleteNamespaceRead, DeleteNamespaceStore, ListNamespaces
  <2>4. Exists(Root) /\ dumped' = [dumped EXCEPT ![c] = NamespacedDump(Root)]
    BY <2>1, <2>2, <2>3 DEF Dump
  <2>5. dumped'[c].json = toJSON(db[Root])
    BY <2>4 DEF NamespacedDump, IInv
  <2>6. Root \in DOMAIN db /\ db[Root] \in Records
    BY <2>4, Parts DEF Exists
  <2>7. fromJSONs(toJSON(db[Root]))
           = { [cidr |-> k, record |-> db[Root][k]] : k \in { k \in Cidrs : db[Root][k] # Absent } }
    BY <2>6, RoundTrip
  <2>8. { k \in Cidrs : db[Root][k] # Absent } = StoredIn(db, Root)
    BY <2>6 DEF StoredIn
  <2>9. \A j, k \in StoredIn(db, Root) :
            (j # k /\ db[Root][j].ParentCidr = None /\ db[Root][k].ParentCidr = None)
                => Covers[j] \cap Covers[k] = {}
    BY <2>6 DEF DisjointInv, TopLevelDisjoint
  <2>10. ApartItems(fromJSONs(toJSON(db[Root])))
    BY <2>7, <2>8, <2>9 DEF ApartItems
  <2> QED
    BY <2>2, <2>5, <2>10 DEF DumpApart
<1> QED
  BY <1>1, <1>2

\* While a dump is loaded, the default namespace has prefixes of this dump only.
LEMMA LoadOwnStep ==
    ASSUME LoadsApart, IInv, DisjointInv, NEW c \in Clients, Moves(c), NEW d \in Clients
    PROVE  LoadOwn(d)'
<1> SUFFICES ASSUME At(d, "Load", "Each")'
             PROVE  /\ dumped'[d].json # Malformed
                    /\ todo'[d] \subseteq fromJSONs(dumped'[d].json)
                    /\ \A k \in StoredIn(db', Root) : \E i \in fromJSONs(dumped'[d].json) :
                          i.cidr = k /\ i.record.ParentCidr = db'[Root][k].ParentCidr
  BY DEF LoadOwn
<1>1. CASE d = c /\ LoadDeleteAll(c)
  <2>1. ~Respond(c, "InvalidArgument")
    BY <1>1 DEF At, Respond, IInv
  <2>2. /\ db' = [db EXCEPT ![Root] = Empty] /\ Loop(c, "Each", fromJSONs(dumped[c].json))
        /\ UNCHANGED dumped /\ Root \in DOMAIN db
    BY <1>1, <2>1 DEF LoadDeleteAll, Exists
  <2>3. todo'[c] = fromJSONs(dumped[c].json)
    BY <2>2 DEF Loop, IInv
  <2>4. StoredIn(db', Root) = {}
    BY <2>2 DEF StoredIn, Empty
  <2>5. dumped[c].json # Malformed
    BY <1>1, Parts DEF LoadDeleteAll, ClientOK
  <2> QED
    BY <1>1, <2>2, <2>3, <2>4, <2>5
<1>2. CASE d = c /\ LoadCreate(c)
  <2>1. /\ dumped[c].json # Malformed
        /\ todo[c] \subseteq fromJSONs(dumped[c].json)
        /\ \A k \in StoredIn(db, Root) : \E i \in fromJSONs(dumped[c].json) :
              i.cidr = k /\ i.record.ParentCidr = db[Root][k].ParentCidr
        /\ UNCHANGED dumped
    BY <1>2 DEF LoadCreate, LoadOwn, DisjointInv
  <2>2. PICK p \in todo[c] :
           /\ IF CreateOutcome(Root, p.cidr) = "ok" THEN Put(Root, p.cidr, AsCreated(p.record))
              ELSE UNCHANGED db
           /\ IF CreateOutcome(Root, p.cidr) \in {"ok", "existing"}
              THEN Loop(c, "Each", todo[c] \ {p})
              ELSE Respond(c, "InvalidArgument") /\ todo' = [todo EXCEPT ![c] = {}]
    BY <1>2 DEF LoadCreate
  <2>3. todo'[c] \subseteq todo[c]
    BY <2>2 DEF Loop, IInv
  <2>4. p \in Item /\ p \in fromJSONs(dumped[c].json)
    BY <1>2, <2>1, <2>2, Parts DEF LoadCreate, ClientOK
  <2>5. p.record \in GoodRecord /\ AsCreated(p.record).ParentCidr = p.record.ParentCidr
    BY <2>4, AsCreatedOK DEF Item
  <2>6. ASSUME NEW k \in StoredIn(db', Root)
        PROVE  \E i \in fromJSONs(dumped[c].json) :
                  i.cidr = k /\ i.record.ParentCidr = db'[Root][k].ParentCidr
    <3>1. CASE CreateOutcome(Root, p.cidr) = "ok"
      <4>1. Added(Root, p.cidr, AsCreated(p.record))
        BY <2>2, <2>4, <3>1, OutcomeOK DEF Added, IInv, Item
      <4>2. /\ db'[Root][p.cidr] = AsCreated(p.record) /\ Root \in DOMAIN db'
            /\ k = p.cidr \/ (k \in StoredIn(db, Root) /\ db'[Root][k] = db[Root][k])
        BY <4>1, AddedEffect
      <4>3. CASE k = p.cidr
        BY <2>4, <2>5, <4>2, <4>3
      <4>4. CASE k \in StoredIn(db, Root) /\ db'[Root][k] = db[Root][k]
        BY <2>1, <4>4
      <4> QED
        BY <4>2, <4>3, <4>4
    <3>2. CASE CreateOutcome(Root, p.cidr) # "ok"
      BY <2>1, <2>2, <3>2
    <3> QED
      BY <3>1, <3>2
  <2> QED
    BY <1>2, <2>1, <2>3, <2>6
<1>3. CASE d # c
  <2>1. /\ At(d, "Load", "Each") /\ req[d] # None /\ req[d].op = "Load"
        /\ todo'[d] = todo[d] /\ dumped'[d] = dumped[d]
    BY <1>3, MovesOthers DEF At
  <2>2. /\ dumped[d].json # Malformed
        /\ todo[d] \subseteq fromJSONs(dumped[d].json)
        /\ \A k \in StoredIn(db, Root) : \E i \in fromJSONs(dumped[d].json) :
              i.cidr = k /\ i.record.ParentCidr = db[Root][k].ParentCidr
    BY <2>1 DEF LoadOwn, DisjointInv
  <2>3. req[c] # None => ~Fills(req[c], Root)
    BY <1>3, <2>1, LoaderMeetsNone
  <2>4. ~LoadCreate(c)
    BY <2>3 DEF LoadCreate, At, Fills
  <2>5. NewPrefixCreate(c) => req[c].ns # Root
    BY <2>3 DEF NewPrefixCreate, At, Fills
  <2>6. ASSUME NEW k \in StoredIn(db', Root)
        PROVE  k \in StoredIn(db, Root) /\ db'[Root][k] = db[Root][k]
    <3>1. Root \in DOMAIN db'
      BY DEF StoredIn
    <3>2. CASE Fewer
      BY <3>1, <3>2 DEF Fewer
    <3>3. CASE NewPrefixCreate(c) /\ Added(req[c].ns, req[c].cidr, AsCreated(newPrefix))
      BY <2>5, <3>1, <3>3, AddedEffect
    <3> QED
      BY <2>4, <3>2, <3>3, Effect
  <2> QED
    BY <2>1, <2>2, <2>6
<1>4. d = c => LoadDeleteAll(c) \/ LoadCreate(c)
  BY Entered DEF At
<1> QED
  BY <1>1, <1>2, <1>3, <1>4

\* The service starts apart.
LEMMA DisjointInit == DumpsApart /\ StoragesApart /\ Init => DisjointInv
<1> SUFFICES ASSUME DumpsApart, StoragesApart, Init PROVE DisjointInv
  OBVIOUS
<1>1. PICK s \in Scenarios :
         /\ db = [n \in {Root} |-> s.storage.has]
         /\ dumped = [c \in Clients |-> [json |-> s.dump, of |-> None]]
  BY DEF Init
<1>2. s.storage \in Storages /\ s.dump \in Dumps
  BY DEF Storages, Dumps
<1>3. TopLevelDisjoint
  BY <1>1, <1>2 DEF StoragesApart, TopLevelDisjoint, StoredIn
<1>4. \A c \in Clients : DumpApart(c)
  BY <1>1, <1>2 DEF DumpsApart, DumpApart
<1>5. \A c \in Clients : CreateClear(c) /\ LoadOwn(c)
  BY DEF Init, CreateClear, LoadOwn, At
<1> QED
  BY <1>3, <1>4, <1>5 DEF DisjointInv

\* And stays apart.
LEMMA DisjointNext ==
    ASSUME LoadsApart, IInv, DisjointInv, [Next]_vars
    PROVE  DisjointInv'
<1>1. CASE \E c \in Clients : Moves(c)
  BY <1>1, ApartStep, CreateClearStep, DumpApartStep, LoadOwnStep DEF DisjointInv
<1>2. CASE Restart
  <2>1. /\ req' = [c \in Clients |-> None]
        /\ db' = WithNamespace(Root)
        /\ UNCHANGED dumped
    BY <1>2 DEF Restart
  <2>2. TopLevelDisjoint'
    BY <2>1, MadeFewer, FewerApart, ServiceAssumption DEF DisjointInv
  <2>3. ASSUME NEW c \in Clients PROVE DumpApart(c)'
    BY <2>1 DEF DisjointInv, DumpApart
  <2>4. ASSUME NEW c \in Clients PROVE CreateClear(c)' /\ LoadOwn(c)'
    BY <2>1 DEF CreateClear, LoadOwn, At
  <2> QED
    BY <2>2, <2>3, <2>4 DEF DisjointInv
<1>3. CASE UNCHANGED vars
  <2>1. TopLevelDisjoint'
    BY <1>3 DEF DisjointInv, TopLevelDisjoint, vars
  <2>2. ASSUME NEW c \in Clients PROVE CreateClear(c)' /\ DumpApart(c)' /\ LoadOwn(c)'
    BY <1>3 DEF DisjointInv, CreateClear, DumpApart, LoadOwn, At, vars
  <2> QED
    BY <2>1, <2>2 DEF DisjointInv
<1> QED
  BY <1>1, <1>2, <1>3 DEF Next, Moves

(***************************************************************************)
(* Prefixes without a parent do not overlap within a namespace, whatever   *)
(* is created, deleted, dumped and loaded, namespaces and restarts         *)
(* included: if the dumps that clients bring and what the storage has at   *)
(* the start have no overlaps, and nobody else adds to the default         *)
(* namespace where a client loads.  Load takes no mutex, so this has to be *)
(* the clients' own agreement.                                             *)
(***************************************************************************)
THEOREM TopLevelApart ==
    LoadsApart /\ DumpsApart /\ StoragesApart /\ Spec => []TopLevelDisjoint
<1>1. DisjointInv => TopLevelDisjoint
  BY DEF DisjointInv
<1>2. CASE LoadsApart /\ DumpsApart /\ StoragesApart
  <2>1. Init => DisjointInv
    BY <1>2, DisjointInit
  <2>2. IInv /\ DisjointInv /\ [Next]_vars => DisjointInv'
    BY <1>2, DisjointNext
  <2> QED
    BY <1>1, <2>1, <2>2, Invariance, PTL DEF Spec
<1> QED
  BY <1>2

-----------------------------------------------------------------------------
(***************************************************************************)
(* DeleteNamespace and Load look for prefixes and write later, without a   *)
(* mutex.  What has come in between is not older than the request: when it *)
(* writes, nothing is left of what was stored when it was called.          *)
(***************************************************************************)
Writes(c) == At(c, "DeleteNamespace", "Delete") \/ At(c, "Load", "DeleteAll")

NoneOld(c) == Writes(c) => old[c] = {}

\* What is old at the next step was old before, and is stored.
LEMMA OldShrinks ==
    ASSUME Observe, NEW c \in Clients
    PROVE  /\ req[c] # None => old'[c] \subseteq old[c]
           /\ \A k \in old'[c] : \E n \in DOMAIN db' :
                 Empties(req'[c], n) /\ k \in StoredIn(db', n)
  BY DEF Observe

\* A request that looked and found nothing has nothing old to write over.
LEMMA NoneOldNext ==
    ASSUME IInv, \A c \in Clients : NoneOld(c), [Next]_vars
    PROVE  \A c \in Clients : NoneOld(c)'
<1>1. CASE Observe /\ \E c \in Clients : Moves(c)
  <2>1. PICK c \in Clients : Moves(c)
    BY <1>1
  <2> SUFFICES ASSUME NEW d \in Clients, Writes(d)' PROVE old'[d] = {}
    BY DEF NoneOld
  <2>2. CASE d = c
    <3>1. /\ req'[c] = req[c] /\ UNCHANGED db
          /\ \A n : Empties(req[c], n) => StoredIn(db, n) = {}
      <4>1. CASE At(c, "DeleteNamespace", "Delete")'
        BY <2>1, <4>1, Entered DEF At, DeleteNamespaceRead, Empties
      <4>2. CASE At(c, "Load", "DeleteAll")'
        BY <2>1, <4>2, Entered DEF At, LoadCheck, Empties
      <4> QED
        BY <2>2, <4>1, <4>2 DEF Writes
    <3> QED
      BY <1>1, <2>2, <3>1, OldShrinks
  <2>3. CASE d # c
    <3>1. req'[d] = req[d] /\ pc'[d] = pc[d]
      BY <2>1, <2>3, MovesOthers
    <3>2. Writes(d) /\ req[d] # None
      BY <3>1 DEF Writes, At
    <3> QED
      BY <1>1, <3>2, OldShrinks DEF NoneOld
  <2> QED
    BY <2>2, <2>3
<1>2. CASE Restart
  BY <1>2 DEF Restart, NoneOld, Writes, At
<1>3. CASE UNCHANGED vars
  BY <1>3 DEF vars, NoneOld, Writes, At
<1> QED
  BY <1>1, <1>2, <1>3 DEF Next, Moves

\* How a prefix leaves the storage.
LEMMA Removed ==
    ASSUME IInv, \A c \in Clients : NoneOld(c), [Next]_vars,
           NEW n \in DOMAIN db, NEW k \in StoredIn(db, n) \ StoredIn(db', n)
    PROVE  \E c \in Clients :
              \/ At(c, "DeletePrefix", "Delete") /\ req[c].ns = n /\ req[c].cidr = k
              \/ Writes(c) /\ pc'[c] # pc[c] /\ Empties(req[c], n) /\ k \notin old[c]
<1>1. db' # db
  OBVIOUS
<1>0. \A m \in Namespaces : db' # WithNamespace(m)
  <2>1. ASSUME NEW m \in Namespaces, db' = WithNamespace(m) PROVE FALSE
    <3>1. n \in DOMAIN db' /\ db'[n] = db[n]
      BY <2>1, WithNamespaceOK DEF IInv
    <3> QED
      BY <3>1 DEF StoredIn
  <2> QED
    BY <2>1
<1>2. PICK c \in Clients : Moves(c)
  BY <1>0, <1>1, ServiceAssumption DEF Next, Moves, Restart, vars
<1>3. k \in Cidrs /\ db[n][k] # Absent
  BY DEF StoredIn
<1>4. ASSUME NEW m, NEW j, NEW p, Added(m, j, p) PROVE FALSE
  <2>1. /\ DOMAIN db' = DOMAIN db /\ db[m][j] = Absent
        /\ \A i \in DOMAIN db, l \in Cidrs : (i # m \/ l # j) => db'[i][l] = db[i][l]
    BY <1>4, PutEffect DEF Added, IInv
  <2> QED
    BY <1>3, <2>1 DEF StoredIn
<1>5. CASE DeletePrefixStore(c)
  <2>1. PrefixFrom(req[c].ns, req[c].cidr) = "ok" /\ Put(req[c].ns, req[c].cidr, Absent)
    BY <1>1, <1>5 DEF DeletePrefixStore
  <2>2. req[c].ns \in DOMAIN db /\ req[c].cidr \in Cidrs
    BY <1>5, <2>1, Parts DEF PrefixFrom, Exists, DeletePrefixStore, At
  <2>3. req[c].ns = n /\ req[c].cidr = k
    BY <1>3, <2>1, <2>2, PutEffect DEF StoredIn, IInv
  <2> QED
    BY <1>5, <2>3 DEF DeletePrefixStore
<1>6. CASE LoadDeleteAll(c)
  <2>1. db' = [db EXCEPT ![Root] = Empty] /\ Loop(c, "Each", fromJSONs(dumped[c].json))
    BY <1>1, <1>6 DEF LoadDeleteAll
  <2>2. n = Root
    BY <1>3, <2>1 DEF StoredIn
  <2>3. Writes(c) /\ Empties(req[c], n) /\ pc[c] = "DeleteAll"
    BY <1>6, <2>2 DEF LoadDeleteAll, Writes, Empties, At
  <2>4. pc'[c] # pc[c]
    BY <2>1, <2>3 DEF Loop, Respond, GoTo, IInv
  <2> QED
    BY <2>3, <2>4 DEF NoneOld
<1>7. CASE DeleteNamespaceStore(c)
  <2>1. /\ db' = [m \in DOMAIN db \ {req[c].ns} |-> db[m]]
        /\ \E code : Respond(c, code)
    BY <1>7 DEF DeleteNamespaceStore
  <2>2. n = req[c].ns
    BY <1>3, <2>1 DEF StoredIn
  <2>3. Writes(c) /\ Empties(req[c], n) /\ pc[c] = "Delete"
    BY <1>7, <2>2 DEF DeleteNamespaceStore, Writes, Empties, At
  <2>4. pc'[c] # pc[c]
    BY <2>1, <2>3 DEF Respond, IInv
  <2> QED
    BY <2>3, <2>4 DEF NoneOld
<1>8. ~CreateNamespace(c)
  BY <1>0, <1>1, Parts DEF CreateNamespace, At
<1>9. ~(NewPrefixCreate(c) \/ LoadCreate(c))
  <2>1. ASSUME NewPrefixCreate(c) PROVE FALSE
    <3>1. /\ CreateOutcome(req[c].ns, req[c].cidr) = "ok"
          /\ Put(req[c].ns, req[c].cidr, AsCreated(newPrefix))
      BY <1>1, <2>1 DEF NewPrefixCreate
    <3>2. req[c].cidr \in Cidrs
      BY <2>1, Parts DEF NewPrefixCreate, ClientOK
    <3> QED
      BY <1>4, <3>1, <3>2, OutcomeOK DEF Added, IInv
  <2>2. ASSUME LoadCreate(c) PROVE FALSE
    <3>1. PICK p \in todo[c] :
             CreateOutcome(Root, p.cidr) = "ok" /\ Put(Root, p.cidr, AsCreated(p.record))
      BY <1>1, <2>2 DEF LoadCreate
    <3>2. p.cidr \in Cidrs
      BY <2>2, Parts DEF LoadCreate, ClientOK, Item
    <3> QED
      BY <1>4, <3>1, <3>2, OutcomeOK DEF Added, IInv
  <2> QED
    BY <2>1, <2>2
<1> QED
  BY <1>1, <1>2, <1>5, <1>6, <1>7, <1>8, <1>9
  DEF Moves, Step, CreatePrefix, DeletePrefix, ListPrefixes, Load, DeleteNamespace,
      Call, NewPrefixRead, DeletePrefixRead, GetPrefix, PrefixUsage, ListCidrs, ListEach, Dump,
      LoadCheck, DeleteNamespaceRead, ListNamespaces

(***************************************************************************)
(* A prefix leaves the storage by a DeletePrefix of it, or by a            *)
(* DeleteNamespace or Load that was called before it was created.  Both    *)
(* ask for prefixes first and write later, without the mutex: a prefix     *)
(* that comes in between is lost, as in NamespaceRace and LoadRace of      *)
(* MCService, but nothing that was there when they were called.            *)
(***************************************************************************)
THEOREM OldPrefixesStay == Spec => PrefixesKept
<1> DEFINE Inv == \A c \in Clients : NoneOld(c)
           Kept == \A n \in DOMAIN db : \A k \in StoredIn(db, n) \ StoredIn(db', n) :
                       \E c \in Clients :
                           \/ At(c, "DeletePrefix", "Delete") /\ req[c].ns = n /\ req[c].cidr = k
                           \/ /\ At(c, "DeleteNamespace", "Delete") \/ At(c, "Load", "DeleteAll")
                              /\ pc'[c] # pc[c]
                              /\ Empties(req[c], n) /\ k \notin old[c]
<1>1. Init => Inv
  BY DEF Init, NoneOld, Writes, At
<1>2. IInv /\ Inv /\ [Next]_vars => Inv'
  BY NoneOldNext
<1>3. IInv /\ Inv /\ [Next]_vars => [Kept]_vars
  BY Removed DEF Writes
<1> QED
  BY <1>1, <1>2, <1>3, Invariance, PTL DEF Spec, PrefixesKept

-----------------------------------------------------------------------------
(***************************************************************************)
(* ListPrefixes of the default namespace.  The loop has the cidrs of one   *)
(* moment, and reads the parent of each at a later one; a prefix that was  *)
(* deleted meanwhile makes the whole list fail.                            *)
(***************************************************************************)
ListsInRoot ==
    \A w \in Workloads : \A c \in Clients : \A r \in w[c] : r.op = "ListPrefixes" => r.ns = Root

Lists(c) == req[c] # None /\ req[c].op = "ListPrefixes"

Watched(c) ==
    Lists(c) =>
        /\ EntriesIn(db, Root) \in seen[c]
        /\ pc[c] = "start" => list[c] = {}
        /\ pc[c] = "Each" =>
               /\ \E s \in seen[c] : CidrsOf(s) = CidrsOf(list[c]) \cup todo[c]
               /\ list[c] \subseteq UNION seen[c]

\* The cidrs of a list.
LEMMA CidrsOfEntries ==
    /\ \A n : CidrsOf(EntriesIn(db, n)) = StoredIn(db, n)
    /\ \A S, n, k : CidrsOf(S \cup {EntryIn(db, n, k)}) = CidrsOf(S) \cup {k}
    /\ CidrsOf({}) = {}
<1>1. \A n, k : EntryIn(db, n, k).cidr = k
  BY DEF EntryIn
<1>2. ASSUME NEW n PROVE CidrsOf(EntriesIn(db, n)) = StoredIn(db, n)
  <2>1. CidrsOf(EntriesIn(db, n)) = { EntryIn(db, n, k).cidr : k \in StoredIn(db, n) }
    BY DEF CidrsOf, EntriesIn
  <2> QED
    BY <1>1, <2>1
<1>3. ASSUME NEW S, NEW n, NEW k
      PROVE  CidrsOf(S \cup {EntryIn(db, n, k)}) = CidrsOf(S) \cup {k}
  BY <1>1 DEF CidrsOf
<1> QED
  BY <1>2, <1>3 DEF CidrsOf

\* What is stored after a step has been seen by everybody who waits for a list.
LEMMA Observed ==
    ASSUME ListsInRoot, IInv', Observe, NEW c \in Clients, Lists(c)'
    PROVE  /\ EntriesIn(db', Root) \in seen'[c]
           /\ seen[c] \subseteq seen'[c]
<1>1. req'[c].ns = Root
  BY DEF IInv, ClientOK, Lists, ListsInRoot
<1> QED
  BY <1>1 DEF Observe, Lists

\* A turn of a list adds a prefix that is stored.
LEMMA ListedOneMore ==
    ASSUME ListsInRoot, IInv, NEW c \in Clients, Lists(c), Watched(c), pc[c] = "Each",
           NEW k \in todo[c], PrefixFrom(req[c].ns, k) = "ok",
           NEW more, more = list[c] \cup {EntryIn(db, req[c].ns, k)}
    PROVE  /\ \E s \in seen[c] : CidrsOf(s) = CidrsOf(more) \cup (todo[c] \ {k})
           /\ more \subseteq UNION seen[c]
<1>1. /\ EntriesIn(db, Root) \in seen[c]
      /\ list[c] \subseteq UNION seen[c]
  BY DEF Watched
<1>2. PICK s \in seen[c] : CidrsOf(s) = CidrsOf(list[c]) \cup todo[c]
  BY DEF Watched
<1>3. req[c].ns = Root /\ todo[c] \subseteq Cidrs
  BY Parts DEF IInv, ClientOK, Lists, ListsInRoot, At
<1>4. EntryIn(db, req[c].ns, k) \in EntriesIn(db, Root)
  BY <1>3 DEF EntriesIn, StoredIn, PrefixFrom, Exists
<1>5. CidrsOf(more) = CidrsOf(list[c]) \cup {k}
  BY CidrsOfEntries
<1>6. CidrsOf(s) = CidrsOf(more) \cup (todo[c] \ {k})
  BY <1>2, <1>5
<1>7. more \subseteq UNION seen[c]
  BY <1>1, <1>4
<1> QED
  BY <1>6, <1>7

\* What a list names and what its loop has left were stored together.
LEMMA WatchedNext ==
    ASSUME ListsInRoot, IInv, IInv', \A c \in Clients : Watched(c), [Next]_vars
    PROVE  \A c \in Clients : Watched(c)'
<1>1. CASE Observe /\ \E c \in Clients : Moves(c)
  <2>1. PICK c \in Clients : Moves(c)
    BY <1>1
  <2> SUFFICES ASSUME NEW d \in Clients, Lists(d)'
               PROVE  /\ EntriesIn(db', Root) \in seen'[d]
                      /\ pc'[d] = "start" => list'[d] = {}
                      /\ pc'[d] = "Each" =>
                            /\ \E s \in seen'[d] : CidrsOf(s) = CidrsOf(list'[d]) \cup todo'[d]
                            /\ list'[d] \subseteq UNION seen'[d]
    BY DEF Watched, CidrsOf
  <2>2. EntriesIn(db', Root) \in seen'[d] /\ seen[d] \subseteq seen'[d]
    BY <1>1, Observed
  <2>3. CASE d # c
    <3>1. /\ req'[d] = req[d] /\ pc'[d] = pc[d] /\ todo'[d] = todo[d] /\ list'[d] = list[d]
      BY <2>1, <2>3, MovesOthers
    <3> QED
      BY <2>2, <3>1 DEF Watched, Lists
  <2>4. CASE d = c /\ pc'[c] = "start"
    <3>1. CASE Call(c)
      BY <2>2, <2>4, <3>1 DEF Call, IInv
    <3>2. CASE ~Call(c)
      <4>1. Step(c) /\ req'[c] = req[c] /\ Lists(c)
        BY <2>1, <2>4, <3>2, MovesOthers DEF Moves, Lists
      <4>2. ListCidrs(c) \/ ListEach(c)
        BY <4>1 DEF Lists, Step, CreatePrefix, DeletePrefix, ListPrefixes, Load, DeleteNamespace,
           At, NewPrefixRead, NewPrefixCreate, DeletePrefixRead, DeletePrefixStore, GetPrefix,
           PrefixUsage, Dump, LoadCheck, LoadDeleteAll, LoadCreate,
           CreateNamespace, DeleteNamespaceRead, DeleteNamespaceStore, ListNamespaces
      <4>3. pc'[c] # "start"
        BY <4>2 DEF ListCidrs, ListEach, Loop, GoTo, Respond, IInv
      <4> QED
        BY <2>4, <4>3
    <3> QED
      BY <3>1, <3>2
  <2>5. CASE d = c /\ pc'[c] = "Each"
    <3>1. req'[c] = req[c] /\ Lists(c) /\ (ListCidrs(c) \/ ListEach(c)) /\ req'[c] # None
      BY <2>1, <2>5, Entered DEF Lists
    <3>2. ~ \E code : Respond(c, code)
      BY <3>1 DEF Respond, IInv
    <3>3. CASE ListCidrs(c)
      <4>1. Loop(c, "Each", StoredIn(db, Root)) /\ UNCHANGED list
        BY <3>2, <3>3 DEF ListCidrs
      <4>2. todo'[c] = StoredIn(db, Root)
        BY <4>1 DEF Loop, IInv
      <4>3. list'[c] = {} /\ EntriesIn(db, Root) \in seen[c]
        BY <3>1, <3>3, <4>1 DEF Watched, ListCidrs, At
      <4>4. CidrsOf(EntriesIn(db, Root)) = CidrsOf(list'[c]) \cup todo'[c]
        BY <4>2, <4>3, CidrsOfEntries
      <4> QED
        BY <2>2, <2>5, <4>3, <4>4
    <3>4. CASE ListEach(c)
      <4>1. PICK k \in todo[c] :
               /\ PrefixFrom(req[c].ns, k) = "ok" /\ Loop(c, "Each", todo[c] \ {k})
               /\ list' = [list EXCEPT ![c] = @ \cup {EntryIn(db, req[c].ns, k)}]
        BY <3>2, <3>4 DEF ListEach
      <4>2. /\ todo'[c] = todo[c] \ {k}
            /\ list'[c] = list[c] \cup {EntryIn(db, req[c].ns, k)}
        BY <4>1 DEF Loop, IInv
      <4>3. Watched(c) /\ pc[c] = "Each"
        BY <3>4 DEF ListEach, At
      <4>4. PICK more : more = list[c] \cup {EntryIn(db, req[c].ns, k)}
        OBVIOUS
      <4>5. /\ \E s \in seen[c] : CidrsOf(s) = CidrsOf(more) \cup (todo[c] \ {k})
            /\ more \subseteq UNION seen[c]
        BY <3>1, <4>1, <4>3, <4>4, ListedOneMore
      <4>6. list'[c] = more /\ todo'[c] = todo[c] \ {k}
        BY <4>2, <4>4
      <4>7. list'[c] \subseteq UNION seen'[c]
        BY <2>2, <2>5, <4>5, <4>6
      <4>8. \E s \in seen'[c] : CidrsOf(s) = CidrsOf(list'[c]) \cup todo'[c]
        BY <2>2, <2>5, <4>5, <4>6
      <4> QED
        BY <2>2, <2>5, <4>7, <4>8
    <3> QED
      BY <3>1, <3>3, <3>4
  <2> QED
    BY <2>2, <2>3, <2>4, <2>5
<1>2. CASE Restart
  BY <1>2 DEF Restart, Watched, Lists
<1>3. CASE UNCHANGED vars
  BY <1>3 DEF vars, Watched, Lists
<1> QED
  BY <1>1, <1>2, <1>3 DEF Next, Moves

\* Who answers a client with OK.
LEMMA AnsweredBy ==
    ASSUME IInv, [Next]_vars, NEW d \in Clients, NEW op, Answered(d, op, "OK")
    PROVE  Step(d) /\ req[d].op = op
<1>1. req[d] # None /\ req[d].op = op /\ req'[d] = None /\ resp'[d] = "OK"
  BY DEF Answered
<1>2. ~Restart
  BY <1>1, NoneAssumption DEF Restart
<1>3. PICK c \in Clients : Moves(c)
  BY <1>1, <1>2 DEF Next, Moves, vars
<1>4. d = c
  BY <1>1, <1>3, MovesOthers
<1>5. ~Call(c)
  BY <1>1, <1>4 DEF Call
<1> QED
  BY <1>1, <1>3, <1>4, <1>5 DEF Moves

\* The last turn of a list.
LEMMA ListedAtLast ==
    ASSUME ListsInRoot, IInv, \A c \in Clients : Watched(c), [Next]_vars,
           NEW c \in Clients, Answered(c, "ListPrefixes", "OK")
    PROVE  /\ \E s \in seen[c] : CidrsOf(list'[c]) = CidrsOf(s)
           /\ list'[c] \subseteq UNION seen[c]
<1>1. Step(c) /\ Lists(c) /\ resp'[c] = "OK"
  BY AnsweredBy DEF Answered, Lists
<1>2. ListCidrs(c) \/ ListEach(c)
  BY <1>1 DEF Lists, Step, CreatePrefix, DeletePrefix, ListPrefixes, Load, DeleteNamespace,
     At, NewPrefixRead, NewPrefixCreate, DeletePrefixRead, DeletePrefixStore, GetPrefix,
     PrefixUsage, Dump, LoadCheck, LoadDeleteAll, LoadCreate,
     CreateNamespace, DeleteNamespaceRead, DeleteNamespaceStore, ListNamespaces
<1>3. \A step : ~GoTo(c, step)
  BY DEF GoTo, Answered
<1>4. \A code : Respond(c, code) => code = "OK"
  BY <1>1 DEF Respond, IInv
<1>5. CASE ListCidrs(c)
  <2>1. Loop(c, "Each", StoredIn(db, Root)) /\ UNCHANGED list
    BY <1>4, <1>5 DEF ListCidrs
  <2>2. StoredIn(db, Root) = {}
    BY <1>3, <2>1 DEF Loop
  <2>3. list'[c] = {} /\ EntriesIn(db, Root) \in seen[c]
    BY <1>1, <1>5, <2>1 DEF Watched, ListCidrs, At
  <2>4. CidrsOf(list'[c]) = CidrsOf(EntriesIn(db, Root))
    BY <2>2, <2>3, CidrsOfEntries
  <2> QED
    BY <2>3, <2>4
<1>6. CASE ListEach(c)
  <2>1. PICK k \in todo[c] :
           /\ PrefixFrom(req[c].ns, k) = "ok" /\ Loop(c, "Each", todo[c] \ {k})
           /\ list' = [list EXCEPT ![c] = @ \cup {EntryIn(db, req[c].ns, k)}]
    BY <1>4, <1>6 DEF ListEach
  <2>2. todo[c] \ {k} = {}
    BY <1>3, <2>1 DEF Loop
  <2>3. list'[c] = list[c] \cup {EntryIn(db, req[c].ns, k)}
    BY <2>1 DEF IInv
  <2>4. Watched(c) /\ pc[c] = "Each"
    BY <1>6 DEF ListEach, At
  <2>5. /\ \E s \in seen[c] : CidrsOf(s) = CidrsOf(list'[c]) \cup (todo[c] \ {k})
        /\ list'[c] \subseteq UNION seen[c]
    BY <1>1, <2>1, <2>3, <2>4, ListedOneMore
  <2> QED
    BY <2>2, <2>5
<1> QED
  BY <1>2, <1>5, <1>6

(***************************************************************************)
(* A list of the default namespace that succeeds names the prefixes of one *)
(* moment of the request, with a parent each had at some moment of it,     *)
(* whoever creates, deletes and loads meanwhile.  It need not be what was  *)
(* stored at one moment: the parents come later than the cidrs.  Lists of  *)
(* other namespaces are left out: the service reads the cidrs of the       *)
(* default namespace for them.                                             *)
(***************************************************************************)
THEOREM ListsAreTrue == ListsInRoot /\ Spec => ListedWereStored
<1>1. CASE ListsInRoot
  <2> DEFINE Inv == \A c \in Clients : Watched(c)
             True == \A c \in Clients : Answered(c, "ListPrefixes", "OK") =>
                         /\ \E s \in seen[c] : CidrsOf(list'[c]) = CidrsOf(s)
                         /\ list'[c] \subseteq UNION seen[c]
  <2>1. Init => Inv
    BY DEF Init, Watched, Lists
  <2>2. IInv /\ IInv' /\ Inv /\ [Next]_vars => Inv'
    BY <1>1, WatchedNext
  <2>3. IInv /\ Inv /\ [Next]_vars => [True]_vars
    BY <1>1, ListedAtLast
  <2> QED
    BY <2>1, <2>2, <2>3, Invariance, PTL DEF Spec, ListedWereStored
<1> QED
  BY <1>1

-----------------------------------------------------------------------------
(***************************************************************************)
(* Load after Dump.  Where a client loads, nobody else changes the default *)
(* namespace; then it has, at every turn of the loop, what the storage     *)
(* makes of the dumped records, but for those that are left to do.         *)
(***************************************************************************)
LoadsAlone ==
    \A w \in Workloads : \A c, d \in Clients : \A r \in w[c], s \in w[d] :
        (c # d /\ r.op = "Load") =>
            /\ ~Fills(s, Root) /\ ~Empties(s, Root)
            /\ ~(s.op = "DeletePrefix" /\ s.ns = Root)

Restored(c) ==
    (At(c, "Load", "Each") /\ dumped[c].of # None) =>
        /\ Root \in DOMAIN db
        /\ todo[c] \subseteq fromJSONs(dumped[c].json)
        /\ \A k \in Cidrs :
               db[Root][k] = IF \E p \in todo[c] : p.cidr = k THEN Absent
                               ELSE Reloaded(dumped[c].of[k])

\* Where a client loads, nobody else changes the default namespace.
LEMMA RootLeftAlone ==
    ASSUME LoadsAlone, IInv, NEW c \in Clients, Moves(c), NEW d \in Clients \ {c},
           req[d] # None, req[d].op = "Load", Root \in DOMAIN db
    PROVE  Root \in DOMAIN db' /\ db'[Root] = db[Root]
<1>1. req[c] # None => /\ ~Fills(req[c], Root) /\ ~Empties(req[c], Root)
                       /\ ~(req[c].op = "DeletePrefix" /\ req[c].ns = Root)
  <2>1. req[d] \in workload[d] /\ (req[c] # None => req[c] \in workload[c])
        /\ workload \in Workloads
    BY DEF IInv, ClientOK
  <2> QED
    BY <2>1 DEF LoadsAlone
<1>2. CASE UNCHANGED db
  BY <1>2
<1>3. ASSUME NEW n, NEW k, NEW p, n # Root, Put(n, k, p)
      PROVE  Root \in DOMAIN db' /\ db'[Root] = db[Root]
  BY <1>3 DEF Put
<1>4. CASE NewPrefixCreate(c) \/ DeletePrefixStore(c)
  <2>1. req[c].ns # Root
    BY <1>1, <1>4 DEF NewPrefixCreate, DeletePrefixStore, At, Fills
  <2> QED
    BY <1>2, <1>3, <1>4, <2>1 DEF NewPrefixCreate, DeletePrefixStore
<1>5. ~(LoadCheck(c) \/ LoadDeleteAll(c) \/ LoadCreate(c))
  BY <1>1 DEF LoadCheck, LoadDeleteAll, LoadCreate, At, Fills
<1>6. CASE CreateNamespace(c)
  <2>1. CASE db' = WithNamespace(req[c].ns)
    BY <1>6, <2>1, Parts, WithNamespaceOK DEF CreateNamespace, At, IInv
  <2> QED
    BY <1>2, <1>6, <2>1 DEF CreateNamespace
<1>7. CASE DeleteNamespaceStore(c)
  <2>1. req[c].ns # Root
    BY <1>1, <1>7 DEF DeleteNamespaceStore, At, Empties
  <2> QED
    BY <1>7, <2>1 DEF DeleteNamespaceStore
<1> QED
  BY <1>2, <1>4, <1>5, <1>6, <1>7
  DEF Moves, Step, CreatePrefix, DeletePrefix, ListPrefixes, Load, DeleteNamespace,
      Call, NewPrefixRead, DeletePrefixRead, GetPrefix, PrefixUsage, ListCidrs, ListEach, Dump,
      DeleteNamespaceRead, ListNamespaces

\* What a create makes of a good record is what Load promises to bring back.
LEMMA ReloadedIs ==
    ASSUME storage \in Storages, NEW p \in GoodRecord
    PROVE  Reloaded(p) = AsCreated(p) /\ Reloaded(p) \in GoodRecord
<1>1. storage.createVersion \in {"kept", "reset"}
  BY ServiceAssumption DEF Storage
<1>2. p \in Record /\ p # Absent
  BY NoneAssumption DEF GoodRecord
<1>3. [p EXCEPT !.version = @] = p
  BY <1>2 DEF Record
<1>4. Reloaded(p) = AsCreated(p)
  BY <1>1, <1>2, <1>3 DEF Reloaded, AsCreated
<1> QED
  BY <1>4, AsCreatedOK

\* The items of a dump that the service made.
LEMMA DumpedItems ==
    ASSUME IInv, NEW c \in Clients, dumped[c].of # None
    PROVE  /\ dumped[c].of \in Records
           /\ fromJSONs(dumped[c].json)
                = { [cidr |-> k, record |-> dumped[c].of[k]] :
                    k \in { k \in Cidrs : dumped[c].of[k] # Absent } }
<1>1. dumped[c].of \in Records /\ dumped[c].json = toJSON(dumped[c].of)
  BY Parts DEF Dumped
<1> QED
  BY <1>1, RoundTrip

\* The step of Load that deletes leaves everything to do.
LEMMA RestoredAtFirst ==
    ASSUME IInv, NEW c \in Clients, LoadDeleteAll(c), Exists(Root), dumped[c].of # None
    PROVE  /\ Root \in DOMAIN db' /\ db'[Root] = Empty
           /\ todo'[c] = fromJSONs(dumped[c].json) /\ UNCHANGED dumped
           /\ \A k \in Cidrs :
                 db'[Root][k] = IF \E p \in todo'[c] : p.cidr = k THEN Absent
                               ELSE Reloaded(dumped[c].of[k])
<1>1. /\ db' = [db EXCEPT ![Root] = Empty] /\ Loop(c, "Each", fromJSONs(dumped[c].json))
      /\ UNCHANGED dumped /\ Root \in DOMAIN db
  BY DEF LoadDeleteAll, Exists
<1>2. todo'[c] = fromJSONs(dumped[c].json)
  BY <1>1 DEF Loop, IInv
<1>3. Root \in DOMAIN db' /\ db'[Root] = Empty
  BY <1>1
<1>4. ASSUME NEW k \in Cidrs
      PROVE  db'[Root][k] = IF \E p \in todo'[c] : p.cidr = k THEN Absent
                               ELSE Reloaded(dumped[c].of[k])
  <2>1. db'[Root][k] = Absent
    BY <1>3 DEF Empty
  <2>2. (\E p \in todo'[c] : p.cidr = k) \/ dumped[c].of[k] = Absent
    <3>1. CASE dumped[c].of[k] # Absent
      <4> DEFINE i == [cidr |-> k, record |-> dumped[c].of[k]]
      <4>1. i \in todo'[c] /\ i.cidr = k
        BY <1>2, <3>1, DumpedItems
      <4> HIDE DEF i
      <4> QED
        BY <4>1
    <3> QED
      BY <3>1
  <2> QED
    BY <2>1, <2>2 DEF Reloaded
<1> QED
  BY <1>1, <1>2, <1>3, <1>4

\* A turn of Load brings one record back.
LEMMA RestoredOneMore ==
    ASSUME IInv, NEW c \in Clients, LoadCreate(c), Restored(c), dumped[c].of # None
    PROVE  /\ Root \in DOMAIN db'
           /\ todo'[c] \subseteq fromJSONs(dumped[c].json) /\ UNCHANGED dumped
           /\ \A k \in Cidrs :
                 db'[Root][k] = IF \E p \in todo'[c] : p.cidr = k THEN Absent
                               ELSE Reloaded(dumped[c].of[k])
           /\ \E p \in todo[c] : Loop(c, "Each", todo[c] \ {p})
<1>1. /\ Root \in DOMAIN db
      /\ todo[c] \subseteq fromJSONs(dumped[c].json)
      /\ \A k \in Cidrs :
            db[Root][k] = IF \E p \in todo[c] : p.cidr = k THEN Absent
                               ELSE Reloaded(dumped[c].of[k])
      /\ UNCHANGED dumped
  BY DEF Restored, LoadCreate
<1>2. PICK p \in todo[c] :
         /\ IF CreateOutcome(Root, p.cidr) = "ok" THEN Put(Root, p.cidr, AsCreated(p.record))
            ELSE UNCHANGED db
         /\ IF CreateOutcome(Root, p.cidr) \in {"ok", "existing"}
            THEN Loop(c, "Each", todo[c] \ {p})
            ELSE Respond(c, "InvalidArgument") /\ todo' = [todo EXCEPT ![c] = {}]
  BY DEF LoadCreate
<1>3. \A q \in todo[c] : q.cidr \in Cidrs /\ q.record = dumped[c].of[q.cidr]
                         /\ q = [cidr |-> q.cidr, record |-> dumped[c].of[q.cidr]]
  BY <1>1, DumpedItems
<1>4. p.cidr \in Cidrs /\ p.record = dumped[c].of[p.cidr] /\ p.record \in GoodRecord
  BY <1>2, <1>3, Parts DEF LoadCreate, ClientOK, Item
<1>5. db[Root][p.cidr] = Absent
  BY <1>1, <1>2, <1>4
<1>6. CreateOutcome(Root, p.cidr) = "ok"
  BY <1>1, <1>5 DEF CreateOutcome, Exists
<1>7. Put(Root, p.cidr, AsCreated(p.record)) /\ Loop(c, "Each", todo[c] \ {p})
  BY <1>2, <1>6
<1>8. todo'[c] = todo[c] \ {p}
  BY <1>7 DEF Loop, IInv
<1>9. /\ DOMAIN db' = DOMAIN db /\ db'[Root][p.cidr] = Reloaded(dumped[c].of[p.cidr])
      /\ \A k \in Cidrs : k # p.cidr => db'[Root][k] = db[Root][k]
  BY <1>1, <1>4, <1>7, PutEffect, ReloadedIs DEF IInv
<1>10. ASSUME NEW k \in Cidrs
       PROVE  db'[Root][k] = IF \E q \in todo'[c] : q.cidr = k THEN Absent
                               ELSE Reloaded(dumped[c].of[k])
  <2>1. CASE k = p.cidr
    <3>1. ~ \E q \in todo'[c] : q.cidr = k
      BY <1>2, <1>3, <1>8, <2>1
    <3> QED
      BY <1>4, <1>9, <2>1, <3>1
  <2>2. CASE k # p.cidr
    <3>1. (\E q \in todo'[c] : q.cidr = k) <=> (\E q \in todo[c] : q.cidr = k)
      BY <1>8, <2>2
    <3> QED
      BY <1>1, <1>9, <2>2, <3>1
  <2> QED
    BY <2>1, <2>2
<1> QED
  BY <1>1, <1>7, <1>8, <1>9, <1>10

\* At every turn of Load the rest is restored.
LEMMA RestoredNext ==
    ASSUME LoadsAlone, IInv, \A c \in Clients : Restored(c), [Next]_vars
    PROVE  \A c \in Clients : Restored(c)'
<1>1. CASE (\E c \in Clients : Moves(c)) /\ UNCHANGED storage
  <2>1. PICK c \in Clients : Moves(c)
    BY <1>1
  <2> SUFFICES ASSUME NEW d \in Clients, At(d, "Load", "Each")', dumped'[d].of # None
               PROVE  /\ Root \in DOMAIN db'
                      /\ todo'[d] \subseteq fromJSONs(dumped'[d].json)
                      /\ \A k \in Cidrs :
                            db'[Root][k] = IF \E p \in todo'[d] : p.cidr = k THEN Absent
                                           ELSE Reloaded(dumped'[d].of[k])
    BY <1>1 DEF Restored, Reloaded
  <2>2. CASE d = c
    <3>1. (LoadDeleteAll(c) \/ LoadCreate(c)) /\ req'[c] # None /\ UNCHANGED dumped
      BY <2>1, <2>2, Entered DEF At, LoadDeleteAll, LoadCreate
    <3>2. CASE LoadDeleteAll(c)
      <4>1. ~Respond(c, "InvalidArgument")
        BY <3>1 DEF Respond, IInv
      <4>2. Exists(Root)
        BY <3>2, <4>1 DEF LoadDeleteAll
      <4> QED
        BY <2>2, <3>1, <3>2, <4>2, RestoredAtFirst
    <3>3. CASE LoadCreate(c)
      BY <2>2, <3>1, <3>3, RestoredOneMore
    <3> QED
      BY <3>1, <3>2, <3>3
  <2>3. CASE d # c
    <3>1. /\ At(d, "Load", "Each") /\ req[d] # None /\ req[d].op = "Load"
          /\ todo'[d] = todo[d] /\ dumped'[d] = dumped[d]
      BY <2>1, <2>3, MovesOthers DEF At
    <3>2. /\ Root \in DOMAIN db
          /\ todo[d] \subseteq fromJSONs(dumped[d].json)
          /\ \A k \in Cidrs :
                db[Root][k] = IF \E p \in todo[d] : p.cidr = k THEN Absent
                              ELSE Reloaded(dumped[d].of[k])
      BY <3>1 DEF Restored
    <3>3. Root \in DOMAIN db' /\ db'[Root] = db[Root]
      BY <2>1, <2>3, <3>1, <3>2, RootLeftAlone
    <3> QED
      BY <3>1, <3>2, <3>3
  <2> QED
    BY <2>2, <2>3
<1>2. CASE Restart
  BY <1>2 DEF Restart, Restored, At
<1>3. CASE UNCHANGED vars
  BY <1>3 DEF vars, Restored, Reloaded, At
<1> QED
  BY <1>1, <1>2, <1>3 DEF Next, Moves

\* The last turn of Load.
LEMMA RestoredAtLast ==
    ASSUME IInv, IInv', \A c \in Clients : Restored(c), [Next]_vars,
           NEW c \in Clients, Answered(c, "Load", "OK"), dumped[c].of # None
    PROVE  Exists(Root)' /\ db'[Root] = [k \in Cidrs |-> Reloaded(dumped[c].of[k])]
<1>1. Step(c) /\ req[c].op = "Load" /\ req'[c] = None /\ req[c] # None /\ resp'[c] = "OK"
  BY AnsweredBy DEF Answered
<1>2. LoadCheck(c) \/ LoadDeleteAll(c) \/ LoadCreate(c)
  BY <1>1 DEF Step, CreatePrefix, DeletePrefix, ListPrefixes, Load, DeleteNamespace,
     At, NewPrefixRead, NewPrefixCreate, DeletePrefixRead, DeletePrefixStore, GetPrefix,
     PrefixUsage, ListCidrs, ListEach, Dump,
     CreateNamespace, DeleteNamespaceRead, DeleteNamespaceStore, ListNamespaces
<1>3. \A step : ~GoTo(c, step)
  BY <1>1 DEF GoTo
<1>4. ~Respond(c, "InvalidArgument")
  BY <1>1 DEF Respond, IInv
<1>5. ~LoadCheck(c)
  BY <1>3, <1>4 DEF LoadCheck
<1>6. /\ Root \in DOMAIN db'
      /\ \A k \in Cidrs :
            db'[Root][k] = IF \E p \in todo'[c] : p.cidr = k THEN Absent
                               ELSE Reloaded(dumped[c].of[k])
      /\ todo'[c] = {}
  <2>1. CASE LoadDeleteAll(c)
    <3>1. Exists(Root)
      BY <1>4, <2>1 DEF LoadDeleteAll
    <3>2. Loop(c, "Each", fromJSONs(dumped[c].json))
      BY <2>1, <3>1 DEF LoadDeleteAll
    <3>3. todo'[c] = {}
      BY <1>3, <3>2 DEF Loop, IInv
    <3> QED
      BY <2>1, <3>1, <3>3, RestoredAtFirst
  <2>2. CASE LoadCreate(c)
    <3>1. PICK p \in todo[c] : Loop(c, "Each", todo[c] \ {p})
      BY <2>2, RestoredOneMore
    <3>2. todo'[c] = {}
      BY <1>3, <3>1 DEF Loop, IInv
    <3> QED
      BY <2>2, <3>2, RestoredOneMore
  <2> QED
    BY <1>2, <1>5, <2>1, <2>2
<1>7. \A k \in Cidrs : db'[Root][k] = Reloaded(dumped[c].of[k])
  BY <1>6
<1>8. db'[Root] \in Records
  <2>1. db' \in Databases
    BY DEF IInv
  <2> QED
    BY <1>6, <2>1, DatabaseParts
<1>9. db'[Root] = [k \in Cidrs |-> Reloaded(dumped[c].of[k])]
  BY <1>7, <1>8 DEF Records
<1> QED
  BY <1>6, <1>9 DEF Exists

(***************************************************************************)
(* A Load that succeeds with a dump the service made leaves the default    *)
(* namespace as it was when the dump was made, its versions too unless the *)
(* storage starts them at 0, if nobody else changes this namespace where a *)
(* client loads: after restarts too, and whatever was created and deleted  *)
(* between the Dump and the Load.                                          *)
(***************************************************************************)
THEOREM LoadsRestore == LoadsAlone /\ Spec => LoadRestores
<1>1. CASE LoadsAlone
  <2> DEFINE Inv == \A c \in Clients : Restored(c)
             Back == \A c \in Clients :
                        (Answered(c, "Load", "OK") /\ dumped[c].of # None)
                            => Exists(Root)' /\ db'[Root] = [k \in Cidrs |->
                                                               Reloaded(dumped[c].of[k])]
  <2>1. Init => Inv
    BY DEF Init, Restored, At
  <2>2. IInv /\ Inv /\ [Next]_vars => Inv'
    BY <1>1, RestoredNext
  <2>3. IInv /\ IInv' /\ Inv /\ [Next]_vars => [Back]_vars
    BY RestoredAtLast
  <2> QED
    BY <2>1, <2>2, <2>3, Invariance, PTL DEF Spec, LoadRestores
<1> QED
  BY <1>1

=============================================================================
