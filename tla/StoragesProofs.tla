--------------------------- MODULE StoragesProofs ---------------------------
(***************************************************************************)
(* The storages implement Storage: for every set of callers, processes,    *)
(* namespaces and keys, and for the deployments that Supported describes.  *)
(***************************************************************************)
EXTENDS Storages, TLAPS

(***************************************************************************)
(* What a storage has to be used for to keep the promise.                  *)
(*                                                                         *)
(* memory, in the one process that has it: all calls, but DeleteAllPrefixes*)
(* only where the namespace is there for sure.                             *)
(*                                                                         *)
(* file, in one process that is never stopped in the middle of a call, and *)
(* that starts again between calls only where one caller is alone: all     *)
(* calls, but DeleteAllPrefixes only by one caller and where the namespace *)
(* is there for sure, and DeleteNamespace next to a restart only of other  *)
(* namespaces than the root.                                               *)
(*                                                                         *)
(* postgres, in any processes that stop in the middle of anything: all     *)
(* calls (Deletes below), and no name that is cut.                         *)
(*                                                                         *)
(* mongodb, likewise, but no name that needs a new collection; or that     *)
(* too, from at most two processes that are never stopped in the middle of *)
(* a call. Never DeleteNamespace.                                          *)
(*                                                                         *)
(* redis, in one process that stops in the middle of anything: all calls.  *)
(*                                                                         *)
(* etcd, likewise, but the calls that go key by key only where no name of  *)
(* a namespace begins with another one.                                    *)
(*                                                                         *)
(* Deletes: DeleteNamespace is in all of this only where one caller is     *)
(* alone, and not of the root namespace. It has two commands, and whatever *)
(* comes in between is lost or left over.                                  *)
(***************************************************************************)
OneProcess(d) == \A b, c \in DOMAIN d.processOf : d.processOf[b] = d.processOf[c]

TwoProcesses(d) ==
    \A a, b, c \in DOMAIN d.processOf :
        \/ d.processOf[a] = d.processOf[b]
        \/ d.processOf[b] = d.processOf[c]
        \/ d.processOf[a] = d.processOf[c]

OneCaller(d) == \A b, c \in DOMAIN d.processOf : b = c

Deletes(d) == "DeleteNamespace" \in d.calls => OneCaller(d) /\ Root \notin d.names

KeysApart(d) ==
    \A n \in d.names :
        ~IsPrefix(n, NamespaceKey) /\ \A m \in d.names \cup {Root} : IsPrefix(n, m) => n = m

SupportsMemory(d) ==
    /\ OneProcess(d) /\ d.crashing = {} /\ d.restarting = {}
    /\ "DeleteAllPrefixes" \in d.calls => d.names = {Root} /\ "DeleteNamespace" \notin d.calls

SupportsFile(d) ==
    /\ OneProcess(d) /\ d.crashing = {}
    /\ d.restarting # {} =>
           OneCaller(d) /\ ("DeleteNamespace" \in d.calls => Root \notin d.names)
    /\ "DeleteAllPrefixes" \in d.calls =>
           OneCaller(d) /\ d.names = {Root} /\ "DeleteNamespace" \notin d.calls

SupportsPostgres(d) ==
    /\ Deletes(d)
    /\ Len(Root) < MaxIdLength /\ \A n \in d.names : Len(n) # MaxIdLength

SupportsMongodb(d) ==
    /\ "DeleteNamespace" \notin d.calls
    /\ "CreateNamespace" \in d.calls => TwoProcesses(d) /\ d.crashing = {}

SupportsRedis(d) == OneProcess(d) /\ Deletes(d)

SupportsEtcd(d) ==
    /\ OneProcess(d) /\ Deletes(d)
    /\ d.calls \subseteq PrefixCalls \cup {"CreateNamespace", "ListNamespaces"} \/ KeysApart(d)

Supports(d) ==
    \/ d.storage = "memory" /\ SupportsMemory(d)
    \/ d.storage = "file" /\ SupportsFile(d)
    \/ d.storage = "postgres" /\ SupportsPostgres(d)
    \/ d.storage = "mongodb" /\ SupportsMongodb(d)
    \/ d.storage = "redis" /\ SupportsRedis(d)
    \/ d.storage = "etcd" /\ SupportsEtcd(d)

AllSupported == \A d \in Deployments : Supports(d)

-----------------------------------------------------------------------------
(***************************************************************************)
(* The invariant.  Types first.                                            *)
(***************************************************************************)
Versions == Nat \cup {Absent}

Copies == [ns : Namespaces, key : Keys, version : Nat]

MidCalls == {"checked", "Insert", "Update", "Commit", "InsertOne", "CreateMany",
             "HSet", "HGet", "Exec", "CreatePut", "UpdatePut", "NextKey"}

\* Those of the file storage.
Loads == {"ReadFile", "Clear", "Fill"}

Saves == {"Truncate", "WriteData"}

FileCalls == Loads \cup {"Parent"} \cup Saves

PCs == {"idle", "called"} \cup MidCalls \cup FileCalls

Typed ==
    /\ deployment \in Deployments
    /\ spaces \in SUBSET Namespaces
    /\ data \in [Namespaces -> [Keys -> Versions]]
    /\ cache \in [Processes -> SUBSET Namespaces]
    /\ op \in [Callers -> Operations \cup {None}]
    /\ copy \in [Callers -> Copies \cup {None}]
    /\ got = [c \in Callers |-> got[c]]
    /\ lock \in [Processes -> SUBSET Callers]
    /\ row \in [Namespaces -> [Keys -> Callers \cup {None}]]
    /\ dirty \in [Callers -> BOOLEAN]
    /\ indexed \in SUBSET Namespaces

Types == Typed /\ pc \in [Callers -> PCs]

USE DEF Typed

\* Nobody deletes the root namespace.
RootStays == "DeleteNamespace" \in deployment.calls => Root \notin deployment.names

\* A namespace that is not there is empty.  A process knows no namespace that is
\* not there, and the table of a namespace has its name.
Spaces ==
    /\ \A n \in Namespaces \ spaces : data[n] = Empty
    /\ ~Uses("memory") => \A c \in DOMAIN deployment.processOf : cache[ProcessOf(c)] \subseteq spaces
    /\ \A n \in spaces : Place(n) = n
    /\ RootStays => Root \in spaces

\* The steps of a call in the storage that has them, and what it is about.
At(c, storage, steps, names) ==
    pc[c] \in steps => Uses(storage) /\ op[c].name \in names

Shape(c) ==
    /\ (op[c] = None) <=> (pc[c] = "idle")
    /\ op[c] # None =>
           /\ c \in DOMAIN deployment.processOf
           /\ op[c].name \in deployment.calls
           /\ op[c].name \in PrefixCalls => op[c].key \in Keys
           /\ op[c].name \in NamespaceCalls \ {"ListNamespaces"} => op[c].ns \in deployment.names
    /\ pc[c] \in MidCalls => op[c].ns \in spaces /\ ~Uses("memory")
    /\ pc[c] = "checked" => op[c].name \notin {"CreateNamespace", "ListNamespaces"}
    /\ pc[c] \notin FileCalls
    /\ At(c, "postgres", {"Insert"}, {"CreatePrefix"})
    /\ At(c, "postgres", {"Update"}, {"UpdatePrefix"})
    /\ At(c, "postgres", {"Commit"}, {"CreatePrefix", "UpdatePrefix", "DeletePrefix"})
    /\ At(c, "mongodb", {"InsertOne"}, {"CreatePrefix"})
    /\ At(c, "mongodb", {"CreateMany"}, {"CreateNamespace"})
    /\ At(c, "redis", {"HSet"}, {"CreatePrefix"})
    /\ At(c, "redis", {"HGet", "Exec"}, {"UpdatePrefix"})
    /\ At(c, "etcd", {"CreatePut"}, {"CreatePrefix"})
    /\ At(c, "etcd", {"UpdatePut"}, {"UpdatePrefix"})
    /\ At(c, "etcd", {"NextKey"}, ListCalls \cup {"DeleteAllPrefixes", "DeleteNamespace"})

\* What a call has found is still so when it writes.
Pending(c) ==
    /\ pc[c] \in {"Update", "Commit"} => row[op[c].ns][op[c].key] = c
    /\ pc[c] \in {"HSet", "CreatePut"} \/ (pc[c] = "Commit" /\ op[c].name = "CreatePrefix")
           => data[op[c].ns][op[c].key] = Absent
    /\ pc[c] \in {"Update", "Exec", "UpdatePut"} \/ (pc[c] = "Commit" /\ op[c].name = "UpdatePrefix")
           => data[op[c].ns][op[c].key] = op[c].version
    /\ pc[c] \in {"HGet", "Exec"} => ~dirty[c]
    /\ pc[c] = "InsertOne" /\ op[c].ns \notin indexed => data[op[c].ns][op[c].key] = Absent

\* The lock of a process: writers have it alone, from the first command of a call
\* to the last, and nobody has it without a call.
Locks ==
    /\ \A c \in Callers : c \in DOMAIN deployment.processOf =>
           /\ (pc[c] \in MidCalls /\ ~Uses("postgres")) => Holds(c)
           /\ (Holds(c) /\ pc[c] = "called") => Shares(c)
    /\ \A p \in Processes : lock[p] \subseteq CallersOf(p)
    /\ \A p \in Processes : \A c \in lock[p] : op[c] # None
    /\ \A p \in Processes : \A b, c \in lock[p] : b # c => Shares(b) /\ Shares(c)
    /\ Uses("memory") \/ Uses("postgres") => \A p \in Processes : lock[p] = {}

\* A collection has its index, unless the call that creates both is between them.
Indexes ==
    Uses("mongodb") =>
        \A n \in spaces \ indexed : \E c \in Callers : pc[c] = "CreateMany" /\ op[c].ns = n

RInv ==
    /\ Types /\ Spaces /\ Locks /\ Indexes
    /\ \A c \in Callers : Shape(c) /\ Pending(c)

\* The records under these keys.
RecordsOf(items) == { [key |-> i.key, version |-> data[i.ns][i.key]] : i \in items }

\* A call of etcd that goes key by key: what it has left to delete, or to read.
KeysLeft(c) ==
    /\ todo[c] \subseteq [ns : {op[c].ns}, key : Keys]
    /\ op[c].name \notin ListCalls =>
           \A k \in Keys : data[op[c].ns][k] # Absent => [ns |-> op[c].ns, key |-> k] \in todo[c]
    /\ op[c].name \in ListCalls =>
           /\ \A i \in todo[c] : data[i.ns][i.key] # Absent
           /\ Listed(op[c].name, RecordsIn(data[op[c].ns]))
                = got[c] \cup Listed(op[c].name, RecordsOf(todo[c]))

Lists ==
    Uses("etcd") =>
        /\ todo = [c \in Callers |-> todo[c]]
        /\ spaces \subseteq deployment.names \cup {Root}
        /\ \A c \in Callers : pc[c] = "NextKey" => KeysLeft(c)

\* A DeleteNamespace between its two halves: the namespace is empty, and nobody
\* else does anything.
Halfway(c) ==
    /\ Typed /\ pc = [d \in Callers |-> pc[d]]
    /\ OneCaller(deployment) /\ Root \notin deployment.names
    /\ ~Uses("memory") /\ ~Uses("mongodb") /\ ~Uses("file")
    /\ c \in DOMAIN deployment.processOf /\ pc[c] = "Forget"
    /\ op[c] # None /\ op[c].name = "DeleteNamespace" /\ op[c].ns \in deployment.names
    /\ \A d \in Callers \ {c} : op[d] = None /\ pc[d] = "idle"
    /\ \A p \in Processes : lock[p] = {}
    /\ Root \in spaces /\ (op[c].ns \in spaces <=> ~Uses("postgres"))
    /\ cache[ProcessOf(c)] \subseteq spaces \cup {op[c].ns}
    /\ \A n \in spaces \cup {op[c].ns} : Place(n) = n
    /\ \A n \in (Namespaces \ spaces) \cup {op[c].ns} : data[n] = Empty

(***************************************************************************)
(* The file storage: what it has is what the file has, as the maps of a    *)
(* memory.  The memory of the process is a copy of it, unless a call loads *)
(* it, or has changed it and has not yet saved it.                         *)
(***************************************************************************)
Maps == [spaces : SUBSET Namespaces, data : [Namespaces -> [Keys -> Versions]]]

Contents == [spaces |-> spaces, data |-> data]

ParentOf(c) == parent[ProcessOf(c)]

\* What the call does to it.
Outcome(c) == MemoryCall(Contents, op[c])

EmptyOutside(maps) == \A n \in Namespaces \ maps.spaces : maps.data[n] = Empty

FileTypes ==
    /\ Types
    /\ todo = [c \in Callers |-> todo[c]]
    /\ exists \in BOOLEAN
    /\ synced \in [Processes -> BOOLEAN]
    /\ parent \in [Processes -> Maps]

FileHolds ==
    /\ EmptyOutside(Contents)
    /\ RootStays => Root \in spaces
    /\ ~exists => Contents = Blank
    /\ ~torn

FileShape(c) ==
    /\ (op[c] = None) <=> (pc[c] = "idle")
    /\ op[c] # None =>
           /\ c \in DOMAIN deployment.processOf
           /\ op[c].name \in deployment.calls
           /\ op[c].name \in PrefixCalls => op[c].key \in Keys
           /\ op[c].name \in NamespaceCalls \ {"ListNamespaces"} => op[c].ns \in deployment.names
    /\ pc[c] \notin MidCalls

\* Who loads or saves has the lock, and whoever has it next to another one shares it.
FileLocks ==
    \A c \in DOMAIN deployment.processOf :
        /\ pc[c] \in FileCalls => Holds(c)
        /\ Holds(c) => op[c] # None
        /\ (Holds(c) /\ pc[c] = "called") => Shares(c)
        /\ \A d \in DOMAIN deployment.processOf \ {c} :
               (Holds(c) /\ Holds(d)) => (Shares(c) /\ Shares(d))

\* A load has filled the memory with all that there is but for the items that are
\* left.
Filling(maps, items, from) ==
    /\ items \subseteq Image(from)
    /\ from.spaces = maps.spaces \cup { i.ns : i \in { i \in items : i.key = None } }
    /\ \A n \in Namespaces, k \in Keys :
           maps.data[n][k] =
               IF \E i \in items : i.ns = n /\ i.key = k THEN Absent ELSE from.data[n][k]

AtFile(c) ==
    /\ (pc[c] \in Loads /\ exists) => deployment.restarting # {}
    /\ pc[c] = "Clear" => todo[c] = IF exists THEN Image(Contents) ELSE {}
    /\ pc[c] = "Fill" => exists /\ Filling(ParentOf(c), todo[c], Contents)
    /\ pc[c] = "Parent" => ParentOf(c) = Contents
    /\ pc[c] \in Saves =>
           op[c].name \in Persisted /\ Outcome(c).ans = "ok" /\ ParentOf(c) = Outcome(c).maps
    /\ pc[c] = "WriteData" => exists /\ todo[c] = Image(ParentOf(c))

\* The modification time is known only where the memory is that of the file, and
\* known for good where nobody starts again.
Synced(c) ==
    /\ synced[ProcessOf(c)] => exists
    /\ (\A d \in Callers : pc[d] \notin Saves) =>
           /\ ~exists => ParentOf(c) = Contents
           /\ (exists /\ deployment.restarting = {}) => synced[ProcessOf(c)]
           /\ (synced[ProcessOf(c)] /\ \A d \in Callers : pc[d] \notin {"Clear", "Fill"})
                  => ParentOf(c) = Contents

FileInv ==
    /\ FileTypes /\ FileHolds /\ FileLocks
    /\ \A c \in Callers : FileShape(c) /\ AtFile(c)
    /\ \A c \in DOMAIN deployment.processOf : Synced(c)

CommonInv == Lists /\ (RInv \/ \E c \in Callers : Halfway(c))

Inv == IF Uses("file") THEN FileInv ELSE CommonInv

-----------------------------------------------------------------------------
(***************************************************************************)
(* Steps as Storage sees them.                                             *)
(***************************************************************************)
AbsDb == [n \in There |-> data[n]]

AbsGot == [c \in Callers |-> IF op[c] = None THEN got[c] ELSE None]

AbsVars == <<AbsDb, op, ans, copy, AbsGot>>

\* The namespaces that are there are those of the database.
LEMMA ThereIs ==
    ASSUME Types
    PROVE  There = spaces /\ AbsDb = [n \in spaces |-> data[n]]
<1>1. \A c \in Callers : pc[c] # "Forget"
  BY DEF Types, PCs, MidCalls, FileCalls, Loads, Saves
<1>2. There = spaces
  BY <1>1 DEF There
<1> QED
  BY <1>2 DEF AbsDb

\* The same in the next state.
LEMMA ThereIsPrimed ==
    ASSUME Types'
    PROVE  AbsDb' = [n \in spaces' |-> data'[n]]
<1>1. \A c \in Callers : pc'[c] # "Forget"
  BY DEF Types, PCs, MidCalls, FileCalls, Loads, Saves
<1>2. There' = spaces'
  BY <1>1 DEF There
<1> QED
  BY <1>2 DEF AbsDb

\* The list of an answer.
LEMMA GotIs ==
    ASSUME Types, NEW c \in Callers, NEW g,
           got' = [got EXCEPT ![c] = g], op' = [op EXCEPT ![c] = None]
    PROVE  AbsGot' = [AbsGot EXCEPT ![c] = g]
<1>1. c \in DOMAIN got /\ c \in DOMAIN op
  BY DEF Types
<1>2. /\ got'[c] = g /\ op'[c] = None
      /\ \A d \in Callers \ {c} : got'[d] = got[d] /\ op'[d] = op[d]
  BY <1>1 DEF Types
<1> QED
  BY <1>2 DEF AbsGot

\* An answer is an answer.
LEMMA Answers ==
    ASSUME Types, NEW c \in Callers, NEW a, Answer(c, a)
    PROVE  Abstract!Reply(c, a)
  BY GotIs DEF Answer, Give, Abstract!Reply, Abstract!Answer, AbsGot

\* A command that is not the one that counts is not seen.
LEMMA Unseen ==
    ASSUME Types, Types', NEW c \in Callers, op[c] # None,
           UNCHANGED <<spaces, data, op, ans, copy, got>>
    PROVE  UNCHANGED AbsVars
<1>1. AbsDb' = AbsDb
  BY ThereIs, ThereIsPrimed
<1>2. AbsGot' = AbsGot
  BY DEF AbsGot
<1> QED
  BY <1>1, <1>2 DEF AbsVars

\* A write is a write.
LEMMA WriteIs ==
    ASSUME Types, Types', NEW c \in Callers, op[c].ns \in spaces, NEW v,
           data' = [data EXCEPT ![op[c].ns][op[c].key] = v], spaces' = spaces
    PROVE  AbsDb' = [AbsDb EXCEPT ![op[c].ns][op[c].key] = v]
<1> DEFINE n == op[c].ns
           k == op[c].key
<1>1. data' = [data EXCEPT ![n] = [data[n] EXCEPT ![k] = v]]
  OBVIOUS
<1>2. AbsDb = [m \in spaces |-> data[m]] /\ AbsDb' = [m \in spaces |-> data'[m]]
  BY ThereIs, ThereIsPrimed
<1>3. AbsDb' = [AbsDb EXCEPT ![n] = [AbsDb[n] EXCEPT ![k] = v]]
  BY <1>1, <1>2 DEF Types
<1> QED
  BY <1>3

\* What is stored under the key of a call.
LEMMA StoredIs ==
    ASSUME Types, NEW c \in Callers, op[c].ns \in spaces
    PROVE  /\ Abstract!Stored(c) = data[op[c].ns][op[c].key]
           /\ AbsDb[op[c].ns] = data[op[c].ns]
           /\ op[c].ns \in There
           /\ Place(op[c].ns) = op[c].ns => Stored(c) = data[op[c].ns][op[c].key]
  BY ThereIs DEF Abstract!Stored, AbsDb, Stored

\* A call of the storage in a namespace that is there, and the record it is about.
CallIn(c, names) ==
    /\ Types /\ Types' /\ op[c] # None /\ op[c].name \in names
    /\ op[c].ns \in spaces /\ op[c].ns \in Namespaces /\ Place(op[c].ns) = op[c].ns

RecordCall(c, name) == CallIn(c, {name}) /\ op[c].key \in Keys /\ spaces' = spaces

\* The end of a CreatePrefix.
LEMMA ServesCreate ==
    ASSUME NEW c \in Callers, RecordCall(c, "CreatePrefix"),
           \/ /\ Stored(c) = Absent /\ Answer(c, "ok")
              /\ Write(c, 0) \/ Write(c, op[c].version)
           \/ Stored(c) # Absent /\ UNCHANGED data /\ (Answer(c, "existing") \/ Answer(c, "error"))
    PROVE  Abstract!Serve(c)
<1> USE DEF RecordCall, CallIn
<1>1. Abstract!Stored(c) = Stored(c) /\ op[c].ns \in There
  BY StoredIs
<1>2. \A a : Answer(c, a) => Abstract!Reply(c, a)
  BY Answers
<1>3. CASE Stored(c) = Absent /\ Answer(c, "ok") /\ (Write(c, 0) \/ Write(c, op[c].version))
  <2> PICK v : /\ v \in {0, op[c].version}
               /\ data' = [data EXCEPT ![Place(op[c].ns)][op[c].key] = v]
    BY <1>3 DEF Write
  <2>0. AbsDb' = [AbsDb EXCEPT ![op[c].ns][op[c].key] = v]
    <3>1. data' = [data EXCEPT ![op[c].ns][op[c].key] = v]
      OBVIOUS
    <3> HIDE DEF RecordCall, CallIn
    <3>2. Types /\ Types' /\ op[c].ns \in spaces /\ spaces' = spaces
      BY DEF RecordCall, CallIn
    <3> QED
      BY <3>1, <3>2, WriteIs
  <2>1. Abstract!Write(c, 0) \/ Abstract!Write(c, op[c].version)
    BY <2>0 DEF Abstract!Write, AbsDb
  <2>2. Abstract!CreatePrefix(c)
    BY <1>1, <1>2, <1>3, <2>1 DEF Abstract!CreatePrefix, Abstract!Is
  <2> QED
    BY <1>1, <2>2 DEF Abstract!Serve, Abstract!InNamespace
<1>4. CASE Stored(c) # Absent /\ UNCHANGED data /\ (Answer(c, "existing") \/ Answer(c, "error"))
  <2>1. UNCHANGED AbsDb
    BY <1>4, ThereIs, ThereIsPrimed
  <2>2. Abstract!CreatePrefix(c)
    BY <1>1, <1>2, <1>4, <2>1 DEF Abstract!CreatePrefix, Abstract!Is, AbsDb
  <2> QED
    BY <1>1, <2>2 DEF Abstract!Serve, Abstract!InNamespace
<1> QED
  BY <1>3, <1>4

\* The end of a ReadPrefix.
LEMMA ServesRead ==
    ASSUME NEW c \in Callers, RecordCall(c, "ReadPrefix"), GiveRecord(c, Stored(c)), UNCHANGED data
    PROVE  Abstract!Serve(c)
<1> USE DEF RecordCall, CallIn
<1>1. Abstract!Stored(c) = Stored(c) /\ op[c].ns \in There
  BY StoredIs
<1>2. UNCHANGED AbsDb
  BY ThereIs, ThereIsPrimed
<1>3. IF Stored(c) = Absent
      THEN Abstract!Reply(c, "notfound")
      ELSE Abstract!Answer(c, "ok", [ns |-> op[c].ns, key |-> op[c].key, version |-> Stored(c)], None)
  BY Answers, GotIs DEF GiveRecord, Give, Abstract!Answer, AbsGot
<1>4. Abstract!ReadPrefix(c)
  BY <1>1, <1>2, <1>3 DEF Abstract!ReadPrefix, Abstract!Is, AbsDb
<1> QED
  BY <1>1, <1>4 DEF Abstract!Serve, Abstract!InNamespace

\* The end of an UpdatePrefix.
LEMMA ServesUpdate ==
    ASSUME NEW c \in Callers, RecordCall(c, "UpdatePrefix"),
           \/ Stored(c) = op[c].version /\ Write(c, op[c].version + 1) /\ Answer(c, "ok")
           \/ /\ Stored(c) # op[c].version /\ UNCHANGED data
              /\ Answer(c, "conflict") \/ (Stored(c) = Absent /\ Answer(c, "error"))
    PROVE  Abstract!Serve(c)
<1> USE DEF RecordCall, CallIn
<1>1. Abstract!Stored(c) = Stored(c) /\ op[c].ns \in There
  BY StoredIs
<1>2. \A a : Answer(c, a) => Abstract!Reply(c, a)
  BY Answers
<1>3. CASE Stored(c) = op[c].version /\ Write(c, op[c].version + 1) /\ Answer(c, "ok")
  <2>0. AbsDb' = [AbsDb EXCEPT ![op[c].ns][op[c].key] = op[c].version + 1]
    BY <1>3, WriteIs DEF Write
  <2>1. Abstract!Write(c, op[c].version + 1)
    BY <2>0 DEF Abstract!Write, AbsDb
  <2>2. Abstract!UpdatePrefix(c)
    BY <1>1, <1>2, <1>3, <2>1 DEF Abstract!UpdatePrefix, Abstract!Is
  <2> QED
    BY <1>1, <2>2 DEF Abstract!Serve, Abstract!InNamespace
<1>4. CASE /\ Stored(c) # op[c].version /\ UNCHANGED data
           /\ Answer(c, "conflict") \/ (Stored(c) = Absent /\ Answer(c, "error"))
  <2>1. UNCHANGED AbsDb
    BY <1>4, ThereIs, ThereIsPrimed
  <2>2. Abstract!UpdatePrefix(c)
    BY <1>1, <1>2, <1>4, <2>1 DEF Abstract!UpdatePrefix, Abstract!Is, AbsDb
  <2> QED
    BY <1>1, <2>2 DEF Abstract!Serve, Abstract!InNamespace
<1> QED
  BY <1>3, <1>4

\* The end of a DeletePrefix.
LEMMA ServesDelete ==
    ASSUME NEW c \in Callers, RecordCall(c, "DeletePrefix"),
           Write(c, Absent) \/ (Stored(c) = Absent /\ UNCHANGED data),
           Answer(c, "ok") \/ (Stored(c) = Absent /\ Answer(c, "error"))
    PROVE  Abstract!Serve(c)
<1> USE DEF RecordCall, CallIn
<1>1. Abstract!Stored(c) = Stored(c) /\ op[c].ns \in There
  BY StoredIs
<1>2. \A a : Answer(c, a) => Abstract!Reply(c, a)
  BY Answers
<1>3. data' = [data EXCEPT ![op[c].ns][op[c].key] = Absent]
  <2>1. CASE Stored(c) = Absent /\ UNCHANGED data
    <3>1. data[op[c].ns] \in [Keys -> Versions] /\ data[op[c].ns][op[c].key] = Absent
      BY <2>1, StoredIs DEF Types
    <3>2. data[op[c].ns] = [data[op[c].ns] EXCEPT ![op[c].key] = Absent]
      BY <3>1
    <3>3. data' = [data EXCEPT ![op[c].ns][op[c].key] = Absent]
      BY <2>1, <3>2 DEF Types
    <3> QED
      BY <3>3
  <2>2. CASE Write(c, Absent)
    BY <2>2 DEF Write
  <2> QED
    BY <2>1, <2>2
<1>4. AbsDb' = [AbsDb EXCEPT ![op[c].ns][op[c].key] = Absent]
  <2> HIDE DEF RecordCall, CallIn
  <2>1. Types /\ Types' /\ op[c].ns \in spaces /\ spaces' = spaces
    BY DEF RecordCall, CallIn
  <2> QED
    BY <1>3, <2>1, WriteIs
<1>5. Abstract!DeletePrefix(c)
  BY <1>1, <1>2, <1>4 DEF Abstract!DeletePrefix, Abstract!Is, Abstract!Write, AbsDb
<1> QED
  BY <1>1, <1>5 DEF Abstract!Serve, Abstract!InNamespace

\* The end of a ReadAllPrefixes or ReadAllPrefixCidrs.
LEMMA ServesList ==
    ASSUME NEW c \in Callers, CallIn(c, ListCalls),
           Give(c, "ok", None, Listed(op[c].name, RecordsIn(data[op[c].ns]))),
           UNCHANGED <<spaces, data>>
    PROVE  Abstract!Serve(c)
<1> USE DEF CallIn
<1>1. AbsDb[op[c].ns] = data[op[c].ns] /\ op[c].ns \in There
  BY StoredIs
<1>2. UNCHANGED AbsDb
  BY ThereIs, ThereIsPrimed
<1>3. /\ AbsGot' = [AbsGot EXCEPT ![c] = Listed(op[c].name, RecordsIn(data[op[c].ns]))]
      /\ ans' = [ans EXCEPT ![c] = "ok"] /\ copy' = [copy EXCEPT ![c] = None]
      /\ op' = [op EXCEPT ![c] = None]
  BY GotIs DEF Give
<1>4. Abstract!RecordsIn(AbsDb[op[c].ns]) = RecordsIn(data[op[c].ns])
  BY <1>1 DEF Abstract!RecordsIn, RecordsIn
<1>5. CASE op[c].name = "ReadAllPrefixes"
  <2>1. Abstract!ReadAllPrefixes(c)
    BY <1>2, <1>3, <1>4, <1>5 DEF Abstract!ReadAllPrefixes, Abstract!Is, Listed, Abstract!Answer,
                                  AbsDb, AbsGot
  <2> QED
    BY <1>1, <2>1 DEF Abstract!Serve, Abstract!InNamespace
<1>6. CASE op[c].name = "ReadAllPrefixCidrs"
  <2>1. Abstract!ReadAllPrefixCidrs(c)
    BY <1>2, <1>3, <1>4, <1>6 DEF Abstract!ReadAllPrefixCidrs, Abstract!Is, Listed, Abstract!Answer,
                                  AbsDb, AbsGot
  <2> QED
    BY <1>1, <2>1 DEF Abstract!Serve, Abstract!InNamespace
<1> QED
  BY <1>5, <1>6 DEF ListCalls

\* The end of a DeleteAllPrefixes.
LEMMA ServesDeleteAll ==
    ASSUME NEW c \in Callers, CallIn(c, {"DeleteAllPrefixes"}),
           Clear(op[c].ns), Answer(c, "ok"), spaces' = spaces
    PROVE  Abstract!Serve(c)
<1> USE DEF CallIn
<1>1. AbsDb = [n \in spaces |-> data[n]] /\ AbsDb' = [n \in spaces |-> data'[n]]
      /\ op[c].ns \in There
  BY ThereIs, ThereIsPrimed
<1>2. AbsDb' = [AbsDb EXCEPT ![op[c].ns] = Empty]
  BY <1>1 DEF Clear, Types
<1>3. Abstract!Reply(c, "ok")
  BY Answers
<1>4. Abstract!DeleteAllPrefixes(c)
  BY <1>2, <1>3 DEF Abstract!DeleteAllPrefixes, Abstract!Is, AbsDb, Abstract!Empty, Empty
<1> QED
  BY <1>1, <1>4 DEF Abstract!Serve, Abstract!InNamespace

\* A namespace is there, whether or not its creator has the answer.
LEMMA ServesCreateNamespace ==
    ASSUME NEW c \in Callers, Types, Types', op[c] # None, op[c].name = "CreateNamespace",
           op[c].ns \notin spaces => data[op[c].ns] = Empty,
           spaces' = spaces \cup {op[c].ns}, data' = data,
           Answer(c, "ok") \/ UNCHANGED <<op, ans, copy, got>>
    PROVE  Abstract!Serve(c)
<1>1. AbsDb = [n \in spaces |-> data[n]] /\ AbsDb' = [n \in spaces \cup {op[c].ns} |-> data[n]]
  BY ThereIs, ThereIsPrimed
<1>2. AbsDb' = [n \in DOMAIN AbsDb \cup {op[c].ns} |-> IF n \in DOMAIN AbsDb THEN AbsDb[n] ELSE Empty]
  BY <1>1
<1>3. Answer(c, "ok") => Abstract!Reply(c, "ok")
  BY Answers
<1>4. UNCHANGED <<op, ans, copy, got>> => UNCHANGED <<op, ans, copy, AbsGot>>
  BY DEF AbsGot
<1>5. Abstract!CreateNamespace(c)
  BY <1>2, <1>3, <1>4
  DEF Abstract!CreateNamespace, Abstract!Is, AbsDb, AbsGot, Abstract!Empty, Empty
<1> QED
  BY <1>5 DEF Abstract!Serve

\* The end of a call that changes nothing: ListNamespaces, a name that is too
\* long, and a namespace that is not there.
LEMMA ServesOthers ==
    ASSUME NEW c \in Callers, Types, Types', op[c] # None, UNCHANGED <<spaces, data>>,
           \/ op[c].name = "ListNamespaces" /\ Give(c, "ok", None, spaces)
           \/ op[c].name = "CreateNamespace" /\ op[c].ns \notin spaces /\ Answer(c, "toolong")
           \/ /\ op[c].name \notin {"CreateNamespace", "ListNamespaces"}
              /\ op[c].ns \notin spaces /\ Answer(c, "nospace")
    PROVE  Abstract!Serve(c)
<1>1. There = spaces /\ DOMAIN AbsDb = spaces /\ AbsDb' = AbsDb
  BY ThereIs, ThereIsPrimed
<1>2. \A a : Answer(c, a) => Abstract!Reply(c, a)
  BY Answers
<1>3. CASE op[c].name = "ListNamespaces" /\ Give(c, "ok", None, spaces)
  <2>1. /\ AbsGot' = [AbsGot EXCEPT ![c] = DOMAIN AbsDb]
        /\ ans' = [ans EXCEPT ![c] = "ok"] /\ copy' = [copy EXCEPT ![c] = None]
        /\ op' = [op EXCEPT ![c] = None]
    BY <1>1, <1>3, GotIs DEF Give
  <2>2. Abstract!ListNamespaces(c)
    BY <1>1, <1>3, <2>1 DEF Abstract!ListNamespaces, Abstract!Is, Abstract!Answer, AbsDb, AbsGot
  <2> QED
    BY <2>2 DEF Abstract!Serve
<1>4. CASE op[c].name = "CreateNamespace" /\ op[c].ns \notin spaces /\ Answer(c, "toolong")
  BY <1>1, <1>2, <1>4 DEF Abstract!Serve, Abstract!RefuseNamespace, Abstract!Is, AbsDb
<1>5. CASE /\ op[c].name \notin {"CreateNamespace", "ListNamespaces"}
           /\ op[c].ns \notin spaces /\ Answer(c, "nospace")
  BY <1>1, <1>2, <1>5 DEF Abstract!Serve, Abstract!NoSuchNamespace, AbsDb
<1> QED
  BY <1>3, <1>4, <1>5

\* The end of a DeleteNamespace of the memory storage.
LEMMA ServesDeleteNamespace ==
    ASSUME NEW c \in Callers, CallIn(c, {"DeleteNamespace"}),
           spaces' = spaces \ {op[c].ns}, Clear(op[c].ns), Answer(c, "ok")
    PROVE  Abstract!Serve(c)
<1> USE DEF CallIn
<1>1. AbsDb = [n \in spaces |-> data[n]] /\ AbsDb' = [n \in spaces \ {op[c].ns} |-> data'[n]]
      /\ op[c].ns \in There
  BY ThereIs, ThereIsPrimed
<1>2. AbsDb' = [n \in DOMAIN AbsDb \ {op[c].ns} |-> AbsDb[n]]
  BY <1>1 DEF Clear, Types
<1>3. Abstract!Reply(c, "ok")
  BY Answers
<1>4. Abstract!DeleteNamespace(c)
  BY <1>2, <1>3 DEF Abstract!DeleteNamespace, Abstract!Is, AbsDb
<1> QED
  BY <1>1, <1>4 DEF Abstract!Serve, Abstract!InNamespace

-----------------------------------------------------------------------------
(***************************************************************************)
(* How a step of one caller changes its own state.                         *)
(***************************************************************************)
Others(c) == \A d \in Callers \ {c} : op'[d] = op[d] /\ pc'[d] = pc[d]

Ends(c) ==
    /\ op' = [op EXCEPT ![c] = None] /\ pc' = [pc EXCEPT ![c] = "idle"]
    /\ \E r \in Copies \cup {None} : copy' = [copy EXCEPT ![c] = r]
    /\ \E g : got' = [got EXCEPT ![c] = g]
    /\ UNCHANGED deployment

Goes(c, next) == GoTo(c, next) /\ UNCHANGED got

Collects(c, next) == GoTo(c, next) /\ \E g : got' = [got EXCEPT ![c] = g]

\* What the deployment is.
LEMMA DeploymentFacts ==
    ASSUME AllSupported, Types
    PROVE  /\ Supports(deployment)
           /\ deployment.processOf \in [DOMAIN deployment.processOf -> Processes]
           /\ DOMAIN deployment.processOf \subseteq Callers
           /\ deployment.names \subseteq Namespaces
           /\ deployment.calls \subseteq PrefixCalls \cup NamespaceCalls
           /\ deployment.keys \subseteq Keys
           /\ deployment.versions \subseteq Nat
  BY BackendAssumption DEF AllSupported, Types

\* What is known of a caller that is in a call.
LEMMA CallerFacts ==
    ASSUME AllSupported, RInv, NEW c \in Callers, pc[c] # "idle"
    PROVE  /\ op[c] # None /\ op[c] \in Operations
           /\ op[c].ns \in Namespaces /\ op[c].version \in Nat
           /\ op[c].name \in deployment.calls
           /\ op[c].name \in PrefixCalls => op[c].key \in Keys
           /\ c \in DOMAIN deployment.processOf /\ ProcessOf(c) \in Processes
           /\ c \in CallersOf(ProcessOf(c))
           /\ Shape(c) /\ Pending(c) /\ Types
<1>1. Shape(c) /\ Pending(c) /\ Types
  BY DEF RInv
<1>2. op[c] # None /\ op[c] \in Operations /\ c \in DOMAIN deployment.processOf
      /\ op[c].name \in deployment.calls /\ (op[c].name \in PrefixCalls => op[c].key \in Keys)
  BY <1>1 DEF Shape, Types
<1>3. op[c].ns \in Namespaces /\ op[c].version \in Nat
  BY <1>2 DEF Operations
<1>4. ProcessOf(c) \in Processes
  BY <1>1, <1>2, DeploymentFacts DEF ProcessOf
<1> QED
  BY <1>1, <1>2, <1>3, <1>4 DEF CallersOf

\* The place of a namespace that is there is its own.
LEMMA PlaceIs ==
    ASSUME RInv, NEW c \in Callers, op[c].ns \in spaces
    PROVE  /\ Place(op[c].ns) = op[c].ns
           /\ Stored(c) = data[op[c].ns][op[c].key]
           /\ Table(c) = op[c].ns
  BY DEF RInv, Spaces, Stored, Table

\* A call ends.
LEMMA EndsOK ==
    ASSUME Types, NEW c \in Callers, Ends(c)
    PROVE  /\ deployment' \in Deployments /\ deployment' = deployment
           /\ op' \in [Callers -> Operations \cup {None}]
           /\ pc' \in [Callers -> PCs]
           /\ copy' \in [Callers -> Copies \cup {None}]
           /\ got' = [d \in Callers |-> got'[d]]
           /\ op'[c] = None /\ pc'[c] = "idle" /\ Others(c)
<1>1. got' = [d \in Callers |-> got'[d]]
  BY DEF Types, Ends
<1> QED
  BY <1>1 DEF Types, Ends, PCs, Others

\* A call goes on.
LEMMA GoesOK ==
    ASSUME Types, NEW c \in Callers, NEW next \in MidCalls, Goes(c, next) \/ Collects(c, next)
    PROVE  /\ deployment' \in Deployments /\ deployment' = deployment
           /\ op' \in [Callers -> Operations \cup {None}]
           /\ pc' \in [Callers -> PCs]
           /\ copy' \in [Callers -> Copies \cup {None}]
           /\ got' = [d \in Callers |-> got'[d]]
           /\ op' = op /\ pc'[c] = next /\ Others(c)
<1>1. got' = [d \in Callers |-> got'[d]]
  BY DEF Types, Goes, Collects
<1> QED
  BY <1>1 DEF Types, Goes, Collects, GoTo, PCs, Others

\* Whatever an answer says, the call ends.
LEMMA AnswerEnds ==
    ASSUME NEW c \in Callers, NEW a, Answer(c, a)
    PROVE  Ends(c)
  BY DEF Answer, Give, Ends

-----------------------------------------------------------------------------
(***************************************************************************)
(* The shape of the calls.                                                 *)
(***************************************************************************)
\* The others have their shape, where namespaces do not go away.
LEMMA ShapeOthers ==
    ASSUME RInv, NEW c \in Callers, Others(c), deployment' = deployment,
           spaces \subseteq spaces' \/ Uses("memory"), NEW d \in Callers \ {c}
    PROVE  Shape(d)'
<1>1. Shape(d) /\ op'[d] = op[d] /\ pc'[d] = pc[d]
  BY DEF RInv, Others
<1> QED
  BY <1>1 DEF Shape, At, Uses

\* A caller without a call.
LEMMA ShapeIdle ==
    ASSUME NEW c \in Callers, op'[c] = None, pc'[c] = "idle"
    PROVE  Shape(c)' /\ Pending(c)'
  BY DEF Shape, At, Pending, MidCalls, FileCalls, Loads, Saves

\* A call that goes on has the shape of its next step.
LEMMA ShapeGoes ==
    ASSUME AllSupported, RInv, NEW c \in Callers, pc[c] # "idle",
           NEW next \in MidCalls, Goes(c, next) \/ Collects(c, next), spaces \subseteq spaces',
           op[c].ns \in spaces', ~Uses("memory"),
           next = "checked" => op[c].name \notin {"CreateNamespace", "ListNamespaces"},
           next \in {"Insert", "Update", "Commit"} => Uses("postgres"),
           next \in {"InsertOne", "CreateMany"} => Uses("mongodb"),
           next \in {"HSet", "HGet", "Exec"} => Uses("redis"),
           next \in {"CreatePut", "UpdatePut", "NextKey"} => Uses("etcd"),
           next \in {"Insert", "InsertOne", "HSet", "CreatePut"} => op[c].name = "CreatePrefix",
           next \in {"Update", "HGet", "Exec", "UpdatePut"} => op[c].name = "UpdatePrefix",
           next = "CreateMany" => op[c].name = "CreateNamespace",
           next = "NextKey" =>
               op[c].name \in ListCalls \cup {"DeleteAllPrefixes", "DeleteNamespace"},
           next = "Commit" => op[c].name \in {"CreatePrefix", "UpdatePrefix", "DeletePrefix"}
    PROVE  Shape(c)'
<1>1. Shape(c) /\ op[c] # None /\ Types
  BY CallerFacts
<1>2. op' = op /\ pc'[c] = next /\ deployment' = deployment
  BY <1>1, GoesOK
<1>3. next # "idle" /\ next \notin FileCalls
  BY DEF MidCalls, FileCalls, Loads, Saves
<1> QED
  BY <1>1, <1>2, <1>3 DEF Shape, At, Uses

-----------------------------------------------------------------------------
(***************************************************************************)
(* The lock of a storage object.                                           *)
(***************************************************************************)
\* Whether a call shares the lock depends on the call.
LEMMA SharesKept ==
    ASSUME NEW d \in Callers, op'[d] = op[d], deployment' = deployment,
           (pc[d] = "Forget") <=> (pc'[d] = "Forget")
    PROVE  Shares(d)' = Shares(d)
  BY DEF Shares, SharedCalls, Uses

\* Who may take the lock, or has it, for writing is alone.
LEMMA WriterAlone ==
    ASSUME AllSupported, RInv, NEW c \in Callers, pc[c] # "idle", MayLock(c), ~Shares(c)
    PROVE  lock[ProcessOf(c)] \subseteq {c}
<1>1. ProcessOf(c) \in Processes
  BY CallerFacts
<1>2. CASE Holds(c)
  BY <1>1, <1>2 DEF RInv, Locks, Holds
<1> QED
  BY <1>2 DEF MayLock

\* While a writer is between two commands, nobody else of its process sends one.
LEMMA Excluded ==
    ASSUME AllSupported, RInv, NEW c \in Callers, pc[c] \in MidCalls, ~Shares(c),
           ~Uses("postgres"),
           NEW d \in Callers \ {c}, pc[d] # "idle", ProcessOf(d) = ProcessOf(c),
           MayLock(d) \/ pc[d] \in MidCalls
    PROVE  FALSE
<1>1. pc[c] # "idle"
  BY DEF MidCalls
<1>2. Holds(c) /\ c \in CallersOf(ProcessOf(c)) /\ ProcessOf(c) \in Processes
  BY <1>1, CallerFacts DEF RInv, Locks
<1>3. lock[ProcessOf(c)] \subseteq {c}
  BY <1>1, <1>2, WriterAlone DEF MayLock
<1>4. ~Holds(d)
  BY <1>3 DEF Holds
<1>5. pc[d] \notin MidCalls
  BY <1>4, CallerFacts DEF RInv, Locks
<1> QED
  BY <1>2, <1>4, <1>5 DEF MayLock, Holds

\* What is left to show of the lock after a step of c that leaves the locks of
\* the other processes alone.
LEMMA LocksStep ==
    ASSUME AllSupported, RInv, NEW c \in Callers, pc[c] # "idle", Others(c),
           pc' \in [Callers -> PCs],
           deployment' = deployment, lock' \in [Processes -> SUBSET Callers],
           ~Uses("memory"), ~Uses("postgres"),
           \A p \in Processes \ {ProcessOf(c)} : lock'[p] = lock[p],
           \/ op'[c] = None /\ pc'[c] = "idle" /\ c \notin lock'[ProcessOf(c)]
           \/ op'[c] = op[c] /\ pc'[c] \in MidCalls /\ c \in lock'[ProcessOf(c)],
           \A d \in Callers \ {c} : d \in lock[ProcessOf(c)] => d \in lock'[ProcessOf(c)],
           \A d \in lock'[ProcessOf(c)] \ {c} :
               \/ d \in lock[ProcessOf(c)]
               \/ d \in CallersOf(ProcessOf(c)) /\ pc[d] = "called" /\ Shares(d),
           \A b, d \in lock'[ProcessOf(c)] : b # d => Shares(b) /\ Shares(d)
    PROVE  Locks'
<1>1. ProcessOf(c) \in Processes /\ c \in DOMAIN deployment.processOf /\ op[c] # None
      /\ c \in CallersOf(ProcessOf(c)) /\ Types /\ Locks
  BY CallerFacts DEF RInv
<1>2. \A d \in Callers : (pc[d] # "Forget") /\ (pc'[d] # "Forget")
  BY <1>1 DEF Types, PCs, MidCalls, FileCalls, Loads, Saves
<1>3. \A d \in Callers : op'[d] = op[d] => Shares(d)' = Shares(d)
  BY <1>2, SharesKept
<1>4. \A d \in Callers \ {c} : op'[d] = op[d] /\ pc'[d] = pc[d] /\ Shares(d)' = Shares(d)
  BY <1>3 DEF Others
<1>5. \A d \in Callers : d \in DOMAIN deployment.processOf => ProcessOf(d) \in Processes
  BY <1>1, DeploymentFacts DEF ProcessOf
<1>6. \A p \in Processes : lock'[p] \subseteq CallersOf(p)
  BY <1>1 DEF Locks
<1>7. \A p \in Processes : CallersOf(p)' = CallersOf(p)
  BY DEF CallersOf, ProcessOf
<1>8. \A d \in Callers : ProcessOf(d)' = ProcessOf(d)
  BY DEF ProcessOf
<1>9. ASSUME NEW p \in Processes, NEW d \in lock'[p] PROVE op'[d] # None
  <2>1. CASE d = c
    <3>1. p = ProcessOf(c)
      BY <1>6, <2>1, <1>9 DEF CallersOf
    <3> QED
      BY <1>1, <2>1, <1>9, <3>1
  <2>2. CASE d # c
    <3>1. d \in Callers
      BY <1>9
    <3>2. op'[d] = op[d] /\ (pc[d] # "idle" => op[d] # None)
      BY <1>4, <2>2, <3>1 DEF RInv, Shape
    <3>3. CASE d \in lock[p]
      BY <1>1, <3>2, <3>3 DEF Locks
    <3>4. CASE d \notin lock[p]
      BY <1>9, <2>2, <3>2, <3>4
    <3> QED
      BY <3>3, <3>4
  <2> QED
    BY <2>1, <2>2
<1>10. ASSUME NEW p \in Processes, NEW b \in lock'[p], NEW d \in lock'[p], b # d
       PROVE  Shares(b)' /\ Shares(d)'
  <2>1. b \in Callers /\ d \in Callers
    BY <1>10
  <2>2. CASE p = ProcessOf(c)
    <3>1. Shares(b) /\ Shares(d)
      BY <1>10, <2>2
    <3>2. op'[b] = op[b] /\ op'[d] = op[d]
      BY <1>4, <1>10, <2>1, <2>2
    <3> QED
      BY <1>3, <2>1, <3>1, <3>2
  <2>3. CASE p # ProcessOf(c)
    <3>1. c \notin lock[p]
      BY <1>1, <2>3 DEF Locks, CallersOf
    <3>2. Shares(b) /\ Shares(d) /\ b # c /\ d # c
      BY <1>1, <1>10, <2>3, <3>1 DEF Locks
    <3> QED
      BY <1>4, <2>1, <3>2
  <2> QED
    BY <2>2, <2>3
<1>11. ASSUME NEW d \in Callers, d \in DOMAIN deployment.processOf
       PROVE  /\ pc'[d] \in MidCalls => d \in lock'[ProcessOf(d)]
              /\ (d \in lock'[ProcessOf(d)] /\ pc'[d] = "called") => Shares(d)'
  <2>1. CASE d = c
    <3>1. "idle" \notin MidCalls /\ "called" \notin MidCalls
      BY DEF MidCalls
    <3> QED
      BY <2>1, <3>1
  <2>2. CASE d # c
    <3>1. pc'[d] = pc[d] /\ Shares(d)' = Shares(d) /\ ProcessOf(d) \in Processes
      BY <1>4, <1>5, <1>11, <2>2
    <3>2. /\ pc[d] \in MidCalls => d \in lock[ProcessOf(d)]
          /\ (d \in lock[ProcessOf(d)] /\ pc[d] = "called") => Shares(d)
      BY <1>1, <1>11 DEF Locks, Holds
    <3>3. CASE ProcessOf(d) = ProcessOf(c)
      BY <2>2, <3>1, <3>2, <3>3
    <3>4. CASE ProcessOf(d) # ProcessOf(c)
      BY <3>1, <3>2, <3>4
    <3> QED
      BY <3>3, <3>4
  <2> QED
    BY <2>1, <2>2
<1> QED
  BY <1>6, <1>7, <1>8, <1>9, <1>10, <1>11 DEF Locks, Holds, Uses

\* Between two commands a call has the lock.
LEMMA MidHolds ==
    ASSUME AllSupported, RInv, NEW c \in Callers, pc[c] \in MidCalls, ~Uses("postgres")
    PROVE  Holds(c) /\ MayLock(c)
<1>1. pc[c] # "idle"
  BY DEF MidCalls
<1> QED
  BY <1>1, CallerFacts DEF RInv, Locks, MayLock

\* The lock after the last command of a call.
LEMMA UnlockOK ==
    ASSUME AllSupported, RInv, NEW c \in Callers, pc[c] # "idle",
           ~Uses("memory"), ~Uses("postgres"), MayLock(c), Ends(c), Unlock(c)
    PROVE  Locks' /\ lock' \in [Processes -> SUBSET Callers]
<1> DEFINE p == ProcessOf(c)
<1>1. /\ p \in Processes /\ Types /\ Locks /\ CallersOf(p) \subseteq Callers
      /\ lock \in [Processes -> SUBSET Callers]
  BY CallerFacts, DeploymentFacts DEF RInv, CallersOf, Types
<1>2. /\ deployment' = deployment /\ op'[c] = None /\ pc'[c] = "idle" /\ Others(c)
      /\ pc' \in [Callers -> PCs]
  BY <1>1, EndsOK
<1> HIDE DEF p
<1>3. /\ lock' \in [Processes -> SUBSET Callers]
      /\ \A q \in Processes \ {p} : lock'[q] = lock[q]
      /\ lock'[p] = IF Shares(c) THEN lock[p] \ {c}
                    ELSE { d \in CallersOf(p) \ {c} : pc[d] = "called" /\ Shares(d) }
  BY <1>1 DEF Unlock, p
<1>4. ~Shares(c) => lock[p] \subseteq {c}
  BY WriterAlone DEF p
<1>5. c \notin lock'[p]
  BY <1>3
<1>6. \A d \in Callers \ {c} : d \in lock[p] => d \in lock'[p]
  BY <1>3, <1>4
<1>7. \A d \in lock'[p] \ {c} :
          \/ d \in lock[p]
          \/ d \in CallersOf(p) /\ pc[d] = "called" /\ Shares(d)
  BY <1>3
<1>8. \A b, d \in lock'[p] : b # d => Shares(b) /\ Shares(d)
  BY <1>1, <1>3 DEF Locks
<1> QED
  BY <1>2, <1>3, <1>5, <1>6, <1>7, <1>8, LocksStep DEF p

\* The lock after a command that another one follows.
LEMMA LockOK ==
    ASSUME AllSupported, RInv, NEW c \in Callers, pc[c] # "idle",
           ~Uses("memory"), ~Uses("postgres"), MayLock(c),
           NEW next \in MidCalls, Goes(c, next) \/ Collects(c, next), Lock(c)
    PROVE  Locks' /\ lock' \in [Processes -> SUBSET Callers]
<1> DEFINE p == ProcessOf(c)
<1>1. /\ p \in Processes /\ Types /\ Locks /\ lock \in [Processes -> SUBSET Callers]
      /\ lock[p] \subseteq CallersOf(p)
  BY CallerFacts DEF RInv, Types, Locks
<1>2. /\ deployment' = deployment /\ op' = op /\ pc'[c] = next /\ Others(c)
      /\ pc' \in [Callers -> PCs]
  BY <1>1, GoesOK
<1> HIDE DEF p
<1>3. /\ lock' \in [Processes -> SUBSET Callers]
      /\ \A q \in Processes \ {p} : lock'[q] = lock[q]
      /\ lock'[p] = lock[p] \cup {c}
  BY <1>1 DEF Lock, p
<1>4. ~Shares(c) => lock[p] \subseteq {c}
  BY WriterAlone DEF p
<1>5. ASSUME NEW b \in lock'[p], NEW d \in lock'[p], b # d PROVE Shares(b) /\ Shares(d)
  <2>1. Shares(c)
    BY <1>3, <1>4, <1>5
  <2>2. \A e \in lock[p] : e # c => Shares(e)
    <3>1. CASE Holds(c)
      BY <1>1, <3>1 DEF Locks, Holds, p
    <3>2. CASE ~Holds(c)
      <4>1. \A e \in CallersOf(p) : Holds(e) => Shares(e)
        BY <2>1, <3>2 DEF MayLock, p
      <4>2. \A e \in lock[p] : Holds(e)
        BY <1>1 DEF Holds, CallersOf
      <4> QED
        BY <1>1, <4>1, <4>2
    <3> QED
      BY <3>1, <3>2
  <2> QED
    BY <1>3, <1>5, <2>1, <2>2
<1> QED
  BY <1>2, <1>3, <1>5, LocksStep DEF p

\* In the storages whose calls all take the lock for writing, a call that takes
\* the lock and releases it within one command leaves it as it was.
LEMMA SoleUnlock ==
    ASSUME AllSupported, RInv, NEW c \in Callers, pc[c] = "called", Uses("mongodb"),
           MayLock(c), UNCHANGED lock
    PROVE  Unlock(c)
<1>1. \A d \in Callers : ~Shares(d)
  BY DEF Shares, SharedCalls, Uses
<1>2. /\ ProcessOf(c) \in Processes /\ CallersOf(ProcessOf(c)) \subseteq Callers
      /\ lock \in [Processes -> SUBSET Callers]
  BY CallerFacts, DeploymentFacts DEF CallersOf, Types
<1>3. ~Holds(c)
  BY <1>1, CallerFacts DEF RInv, Locks
<1>4. lock[ProcessOf(c)] = {}
  BY <1>1, <1>3 DEF MayLock
<1>5. { d \in CallersOf(ProcessOf(c)) \ {c} : pc[d] = "called" /\ Shares(d) } = {}
  BY <1>1, <1>2
<1> QED
  BY <1>1, <1>2, <1>4, <1>5 DEF Unlock

-----------------------------------------------------------------------------
(***************************************************************************)
(* What a step does to the database, and what stays true of it.            *)
(***************************************************************************)
\* Nothing, a record of the namespace of the call, or all of them.
DataStep(c) ==
    \/ data' = data
    \/ /\ op[c].ns \in spaces
       /\ \/ \E v \in Versions : data' = [data EXCEPT ![op[c].ns][op[c].key] = v]
          \/ \E k \in Keys : data' = [data EXCEPT ![op[c].ns][k] = Absent]
          \/ Clear(op[c].ns)

\* The namespace of the call may come.
SpacesStep(c) ==
    spaces' = spaces \/ (spaces' = spaces \cup {op[c].ns} /\ Place(op[c].ns) = op[c].ns)

\* The process may learn of namespaces that are there.
CacheStep(c) == cache' = cache \/ \E names \in SUBSET spaces' : Learn(c, names)

\* After such a step the database is what it should be.
LEMMA DatabaseOK ==
    ASSUME AllSupported, RInv, NEW c \in Callers, pc[c] # "idle", deployment' = deployment,
           DataStep(c), SpacesStep(c), CacheStep(c), ~Uses("memory")
    PROVE  /\ spaces' \in SUBSET Namespaces /\ spaces \subseteq spaces'
           /\ data' \in [Namespaces -> [Keys -> Versions]]
           /\ cache' \in [Processes -> SUBSET Namespaces]
           /\ Spaces'
<1>1. /\ op[c].ns \in Namespaces /\ ProcessOf(c) \in Processes /\ Types /\ Spaces
  BY CallerFacts DEF RInv
<1>2. spaces' \in SUBSET Namespaces /\ spaces \subseteq spaces'
  BY <1>1 DEF SpacesStep, Types
<1>3. Empty \in [Keys -> Versions]
  BY DEF Empty, Versions
<1>4. data' \in [Namespaces -> [Keys -> Versions]]
  <2>1. CASE data' = data
    BY <1>1, <2>1 DEF Types
  <2>2. ASSUME NEW v \in Versions, data' = [data EXCEPT ![op[c].ns][op[c].key] = v]
        PROVE  data' \in [Namespaces -> [Keys -> Versions]]
    <3>1. data \in [Namespaces -> [Keys -> Versions]] /\ data[op[c].ns] \in [Keys -> Versions]
      BY <1>1 DEF Types
    <3>2. [data[op[c].ns] EXCEPT ![op[c].key] = v] \in [Keys -> Versions]
      BY <3>1
    <3> QED
      BY <1>1, <2>2, <3>1, <3>2
  <2>3. CASE Clear(op[c].ns)
    BY <1>1, <1>3, <2>3 DEF Types, Clear
  <2>4. ASSUME NEW k \in Keys, data' = [data EXCEPT ![op[c].ns][k] = Absent]
        PROVE  data' \in [Namespaces -> [Keys -> Versions]]
    <3>1. /\ data \in [Namespaces -> [Keys -> Versions]] /\ data[op[c].ns] \in [Keys -> Versions]
          /\ Absent \in Versions
      BY <1>1 DEF Types, Versions
    <3>2. [data[op[c].ns] EXCEPT ![k] = Absent] \in [Keys -> Versions]
      BY <3>1
    <3> QED
      BY <1>1, <2>4, <3>1, <3>2
  <2> QED
    BY <2>1, <2>2, <2>3, <2>4 DEF DataStep
<1>5. \A n \in Namespaces \ spaces : data'[n] = data[n]
  BY <1>1 DEF DataStep, Types, Clear
<1>6. /\ cache' \in [Processes -> SUBSET Namespaces]
      /\ \A d \in DOMAIN deployment.processOf : cache'[ProcessOf(d)] \subseteq spaces'
  <2>1. \A d \in DOMAIN deployment.processOf :
            ProcessOf(d) \in Processes /\ cache[ProcessOf(d)] \subseteq spaces
    BY <1>1, DeploymentFacts DEF Spaces, ProcessOf
  <2>2. CASE cache' = cache
    BY <1>1, <1>2, <2>1, <2>2 DEF Types
  <2>3. ASSUME NEW names \in SUBSET spaces', Learn(c, names)
        PROVE  /\ cache' \in [Processes -> SUBSET Namespaces]
               /\ \A d \in DOMAIN deployment.processOf : cache'[ProcessOf(d)] \subseteq spaces'
    BY <1>1, <1>2, <2>1, <2>3 DEF Types, Learn
  <2> QED
    BY <2>2, <2>3 DEF CacheStep
<1>7. \A n \in Namespaces : Place(n)' = Place(n)
  BY DEF Place, Uses
<1>8. \A n \in Namespaces \ spaces' : data'[n] = Empty
  BY <1>1, <1>2, <1>5 DEF Spaces
<1>9. \A n \in spaces' : Place(n)' = n
  BY <1>1, <1>2, <1>7 DEF Spaces, SpacesStep
<1>10. RootStays' => Root \in spaces'
  BY <1>1, <1>2 DEF Spaces, RootStays
<1>11. \A d \in DOMAIN deployment.processOf : cache'[ProcessOf(d)'] \subseteq spaces'
  BY <1>6 DEF ProcessOf
<1> QED
  BY <1>2, <1>4, <1>6, <1>8, <1>9, <1>10, <1>11 DEF Spaces, Uses, Empty

\* A collection comes without an index only with a call that goes on to create it.
IndexStep(c) ==
    /\ indexed' \in SUBSET Namespaces
    /\ Uses("mongodb") =>
           \A n \in spaces' \ indexed' :
               \/ n \in spaces \ indexed /\ (pc[c] = "CreateMany" => n # op[c].ns)
               \/ n \notin spaces /\ pc'[c] = "CreateMany" /\ op'[c].ns = n

\* After such a step Indexes holds.
LEMMA IndexesOK ==
    ASSUME RInv, NEW c \in Callers, Others(c), deployment' = deployment, IndexStep(c)
    PROVE  Indexes'
<1> SUFFICES ASSUME Uses("mongodb"), NEW n \in spaces' \ indexed'
             PROVE  \E d \in Callers : pc'[d] = "CreateMany" /\ op'[d].ns = n
  BY DEF Indexes, Uses
<1>1. CASE pc'[c] = "CreateMany" /\ op'[c].ns = n
  BY <1>1
<1>2. CASE n \in spaces \ indexed /\ (pc[c] = "CreateMany" => n # op[c].ns)
  <2>1. PICK d \in Callers : pc[d] = "CreateMany" /\ op[d].ns = n
    BY <1>2 DEF RInv, Indexes
  <2> QED
    BY <1>2, <2>1 DEF Others
<1> QED
  BY <1>1, <1>2 DEF IndexStep

\* Whoever inserts where there is no index is in one process, and whoever creates
\* the index in the other one: nobody else has a lock to go on with.
LEMMA InsertAlone ==
    ASSUME AllSupported, RInv, NEW c \in Callers, pc[c] # "idle", MayLock(c),
           Uses("mongodb"), IndexStep(c), spaces \subseteq spaces',
           NEW d \in Callers \ {c}, pc[d] = "InsertOne", op[d].ns \notin indexed'
    PROVE  FALSE
<1>1. pc[d] \in MidCalls /\ pc[d] # "idle" /\ ~Uses("postgres") /\ \A b \in Callers : ~Shares(b)
  BY DEF MidCalls, Uses, Shares, SharedCalls
<1>2. op[d].ns \in spaces
  BY <1>1, CallerFacts DEF Shape
<1>3. op[d].ns \notin indexed /\ (pc[c] = "CreateMany" => op[d].ns # op[c].ns)
  BY <1>2 DEF IndexStep
<1>4. PICK e \in Callers : pc[e] = "CreateMany" /\ op[e].ns = op[d].ns
  BY <1>2, <1>3 DEF RInv, Indexes
<1>5. pc[e] \in MidCalls /\ pc[e] # "idle" /\ e # c /\ e # d
  BY <1>3, <1>4 DEF MidCalls
<1>6. op[e].name = "CreateNamespace" /\ op[e].name \in deployment.calls
  BY <1>4, <1>5, CallerFacts DEF Shape, At
<1>7. TwoProcesses(deployment)
  BY <1>6, DeploymentFacts DEF RInv, Supports, SupportsMongodb, Uses
<1>8. /\ c \in DOMAIN deployment.processOf /\ d \in DOMAIN deployment.processOf
      /\ e \in DOMAIN deployment.processOf
  BY <1>1, <1>5, CallerFacts
<1>9. \/ ProcessOf(c) = ProcessOf(d)
      \/ ProcessOf(d) = ProcessOf(e)
      \/ ProcessOf(c) = ProcessOf(e)
  BY <1>7, <1>8 DEF TwoProcesses, ProcessOf
<1>10. CASE ProcessOf(c) = ProcessOf(d)
  BY <1>1, <1>10, Excluded
<1>11. CASE ProcessOf(c) = ProcessOf(e)
  BY <1>1, <1>5, <1>11, Excluded
<1>12. CASE ProcessOf(d) = ProcessOf(e)
  BY <1>1, <1>5, <1>12, Excluded
<1> QED
  BY <1>9, <1>10, <1>11, <1>12

\* Behind a lock, nobody else is between finding and writing.
LEMMA PendingBehindLock ==
    ASSUME AllSupported, RInv, NEW c \in Callers, pc[c] # "idle", MayLock(c), Others(c),
           Uses("redis") \/ Uses("etcd") \/ Uses("mongodb"), IndexStep(c),
           spaces \subseteq spaces', NEW d \in Callers \ {c}
    PROVE  Pending(d)'
<1>1. pc'[d] = pc[d] /\ op'[d] = op[d] /\ Shape(d)
  BY DEF Others, RInv
<1>2. pc[d] \notin {"Update", "Commit"}
  BY <1>1 DEF Shape, At, Uses
<1>3. ASSUME pc[d] \in {"HSet", "HGet", "Exec", "CreatePut", "UpdatePut"} PROVE FALSE
  <2>1. /\ pc[d] \in MidCalls /\ pc[d] # "idle"
        /\ Uses("redis") \/ Uses("etcd")
        /\ op[d].name \in {"CreatePrefix", "UpdatePrefix"}
    BY <1>1, <1>3 DEF Shape, At, MidCalls
  <2>2. ~Shares(d) /\ ~Uses("postgres")
    BY <2>1 DEF Shares, SharedCalls, Uses, ListCalls
  <2>3. ProcessOf(c) = ProcessOf(d)
    <3>1. c \in DOMAIN deployment.processOf /\ d \in DOMAIN deployment.processOf
      BY <2>1, CallerFacts
    <3>2. OneProcess(deployment)
      BY <2>1, DeploymentFacts DEF RInv, Supports, SupportsRedis, SupportsEtcd, Uses
    <3> QED
      BY <3>1, <3>2 DEF OneProcess, ProcessOf
  <2> QED
    BY <2>1, <2>2, <2>3, Excluded
<1>4. ~(pc[d] = "InsertOne" /\ op[d].ns \notin indexed')
  BY <1>1, InsertAlone DEF Shape, At
<1> QED
  BY <1>1, <1>2, <1>3, <1>4 DEF Pending

-----------------------------------------------------------------------------
(***************************************************************************)
(* The steps of the storages that lock: what is left to show of one.       *)
(***************************************************************************)
Locking == Uses("redis") \/ Uses("etcd") \/ Uses("mongodb")

\* The rest of the state.
LockingStep(c) ==
    /\ DataStep(c) /\ SpacesStep(c) /\ CacheStep(c) /\ IndexStep(c)
    /\ row' = row /\ dirty' \in [Callers -> BOOLEAN]

\* The last command of a call.
LEMMA LockingEnds ==
    ASSUME AllSupported, RInv, NEW c \in Callers, pc[c] # "idle", Locking,
           MayLock(c), Unlock(c), Ends(c), LockingStep(c)
    PROVE  RInv'
<1> USE DEF LockingStep
<1>1. ~Uses("memory") /\ ~Uses("postgres") /\ Types
  BY DEF Locking, Uses, RInv
<1>2. /\ deployment' \in Deployments /\ deployment' = deployment
      /\ op' \in [Callers -> Operations \cup {None}]
      /\ pc' \in [Callers -> PCs]
      /\ copy' \in [Callers -> Copies \cup {None}]
      /\ got' = [d \in Callers |-> got'[d]]
      /\ op'[c] = None /\ pc'[c] = "idle" /\ Others(c)
  BY <1>1, EndsOK
<1>3. Locks' /\ lock' \in [Processes -> SUBSET Callers]
  BY <1>1, UnlockOK
<1>4. /\ spaces' \in SUBSET Namespaces /\ spaces \subseteq spaces'
      /\ data' \in [Namespaces -> [Keys -> Versions]]
      /\ cache' \in [Processes -> SUBSET Namespaces]
      /\ Spaces'
  BY <1>1, <1>2, DatabaseOK
<1>5. Indexes'
  BY <1>2, IndexesOK
<1>6. Types'
  BY <1>1, <1>2, <1>3, <1>4 DEF Types, IndexStep
<1>7. \A d \in Callers \ {c} : Shape(d)' /\ Pending(d)'
  BY <1>2, <1>4, ShapeOthers, PendingBehindLock DEF Locking
<1>8. Shape(c)' /\ Pending(c)'
  BY <1>2, ShapeIdle
<1> QED
  BY <1>3, <1>4, <1>5, <1>6, <1>7, <1>8 DEF RInv

\* A command that another one follows.
LEMMA LockingGoes ==
    ASSUME AllSupported, RInv, NEW c \in Callers, pc[c] # "idle", Locking,
           MayLock(c), Lock(c), NEW next \in MidCalls, Goes(c, next) \/ Collects(c, next),
           LockingStep(c), Shape(c)', Pending(c)'
    PROVE  RInv'
<1> USE DEF LockingStep
<1>1. ~Uses("memory") /\ ~Uses("postgres") /\ Types
  BY DEF Locking, Uses, RInv
<1>2. /\ deployment' \in Deployments /\ deployment' = deployment
      /\ op' \in [Callers -> Operations \cup {None}]
      /\ pc' \in [Callers -> PCs]
      /\ copy' \in [Callers -> Copies \cup {None}]
      /\ got' = [d \in Callers |-> got'[d]]
      /\ op' = op /\ pc'[c] = next /\ Others(c)
  BY <1>1, GoesOK
<1>3. Locks' /\ lock' \in [Processes -> SUBSET Callers]
  BY <1>1, LockOK
<1>4. /\ spaces' \in SUBSET Namespaces /\ spaces \subseteq spaces'
      /\ data' \in [Namespaces -> [Keys -> Versions]]
      /\ cache' \in [Processes -> SUBSET Namespaces]
      /\ Spaces'
  BY <1>1, <1>2, DatabaseOK
<1>5. Indexes'
  BY <1>2, IndexesOK
<1>6. Types'
  BY <1>1, <1>2, <1>3, <1>4 DEF Types, IndexStep
<1>7. \A d \in Callers \ {c} : Shape(d)' /\ Pending(d)'
  BY <1>2, <1>4, ShapeOthers, PendingBehindLock DEF Locking
<1> QED
  BY <1>3, <1>4, <1>5, <1>6, <1>7 DEF RInv

-----------------------------------------------------------------------------
(***************************************************************************)
(* The commands that the storages behind a lock have in common.            *)
(***************************************************************************)
\* A step keeps the invariant, and Storage serves the call or sees nothing.
Simulates(c) == RInv' /\ (Abstract!Serve(c) \/ UNCHANGED AbsVars)

\* A call whose namespace was looked up is in a namespace that is there.
LEMMA CalledFacts ==
    ASSUME AllSupported, RInv, NEW c \in Callers, ~Uses("memory"), NEW name, Called(c, name)
    PROVE  /\ pc[c] \in {"called", "checked"} /\ pc[c] # "idle" /\ op[c].name = name
           /\ op[c] # None /\ op[c].ns \in spaces /\ op[c].ns \in Namespaces
           /\ op[c].version \in Nat /\ op[c].version \in Versions
           /\ op[c].version + 1 \in Versions /\ op[c].version # Absent
           /\ op[c].name \in PrefixCalls => op[c].key \in Keys
           /\ Place(op[c].ns) = op[c].ns /\ Stored(c) = data[op[c].ns][op[c].key]
           /\ Table(c) = op[c].ns
           /\ Types /\ Shape(c)
<1>1. pc[c] \in {"called", "checked"} /\ pc[c] # "idle" /\ op[c].name = name
  BY DEF Called
<1>2. /\ op[c] # None /\ op[c].ns \in Namespaces /\ op[c].version \in Nat
      /\ op[c].name \in PrefixCalls => op[c].key \in Keys
      /\ ProcessOf(c) \in Processes /\ Shape(c) /\ Types
  BY <1>1, CallerFacts
<1>3. op[c].ns \in spaces
  <2>1. CASE pc[c] = "called"
    BY <1>1, <1>2, <2>1, CallerFacts DEF Called, Known, RInv, Spaces
  <2>2. CASE pc[c] = "checked"
    BY <1>2, <2>2 DEF Shape, MidCalls
  <2> QED
    BY <1>1, <2>1, <2>2
<1> QED
  BY <1>1, <1>2, <1>3, PlaceIs, BackendAssumption DEF Versions

\* The same of a call between two commands.
LEMMA MidFacts ==
    ASSUME AllSupported, RInv, NEW c \in Callers, pc[c] \in MidCalls
    PROVE  /\ pc[c] # "idle" /\ ~Uses("memory")
           /\ op[c] # None /\ op[c].ns \in spaces /\ op[c].ns \in Namespaces
           /\ op[c].version \in Nat /\ op[c].version \in Versions
           /\ op[c].version + 1 \in Versions /\ op[c].version # Absent
           /\ op[c].name \in PrefixCalls => op[c].key \in Keys
           /\ Place(op[c].ns) = op[c].ns /\ Stored(c) = data[op[c].ns][op[c].key]
           /\ Table(c) = op[c].ns
           /\ Types /\ Shape(c) /\ Pending(c)
<1>1. pc[c] # "idle"
  BY DEF MidCalls
<1>2. /\ op[c] # None /\ op[c].ns \in Namespaces /\ op[c].version \in Nat
      /\ op[c].name \in PrefixCalls => op[c].key \in Keys
      /\ Shape(c) /\ Pending(c) /\ Types
  BY <1>1, CallerFacts
<1>3. op[c].ns \in spaces /\ ~Uses("memory")
  BY <1>2 DEF Shape
<1> QED
  BY <1>1, <1>2, <1>3, PlaceIs, BackendAssumption DEF Versions

\* The rest of the state when only records change.
LEMMA RecordsStep ==
    ASSUME Types, NEW c \in Callers, DataStep(c), UNCHANGED <<spaces, cache, indexed, row>>,
           pc[c] # "CreateMany", dirty' \in [Callers -> BOOLEAN]
    PROVE  LockingStep(c)
  BY DEF Types, LockingStep, SpacesStep, CacheStep, IndexStep

\* A call looks its namespace up.
LEMMA LockingCheck ==
    ASSUME AllSupported, RInv, NEW c \in Callers, Locking,
           \/ CheckNamespaceLocked(c, spaces)
           \/ CheckNamespaceLocked(c, spaces \cap {op[c].ns}),
           UNCHANGED <<dirty, indexed, row>>
    PROVE  Simulates(c)
<1>0. ~Uses("memory") /\ ~Uses("postgres")
  BY DEF Locking, Uses
<1>1. /\ pc[c] = "called" /\ op[c].name \notin {"CreateNamespace", "ListNamespaces"}
      /\ MayLock(c) /\ UNCHANGED <<spaces, data>>
      /\ \/ op[c].ns \in spaces /\ Goes(c, "checked") /\ Lock(c)
         \/ op[c].ns \notin spaces /\ Answer(c, "nospace") /\ Unlock(c)
      /\ \E names \in SUBSET spaces : Learn(c, names)
  BY DEF CheckNamespaceLocked, CheckNamespace, Goes
<1>2. pc[c] # "idle" /\ Types /\ op[c] # None
  BY <1>1, CallerFacts
<1>3. LockingStep(c)
  BY <1>1, <1>2 DEF LockingStep, DataStep, SpacesStep, CacheStep, IndexStep, Types
<1>4. CASE op[c].ns \in spaces /\ Goes(c, "checked") /\ Lock(c)
  <2>1. "checked" \in MidCalls
    BY DEF MidCalls
  <2>2. Shape(c)'
    BY <1>0, <1>1, <1>2, <1>4, <2>1, ShapeGoes
  <2>3. Pending(c)'
    BY <1>2, <1>4, <2>1, GoesOK DEF Pending
  <2>4. RInv'
    BY <1>1, <1>2, <1>3, <1>4, <2>1, <2>2, <2>3, LockingGoes
  <2>5. UNCHANGED AbsVars
    BY <1>1, <1>2, <1>4, <2>4, Unseen DEF RInv, Goes, GoTo
  <2> QED
    BY <2>4, <2>5 DEF Simulates
<1>5. CASE op[c].ns \notin spaces /\ Answer(c, "nospace") /\ Unlock(c)
  <2>1. RInv'
    BY <1>1, <1>2, <1>3, <1>5, AnswerEnds, LockingEnds
  <2>2. Abstract!Serve(c)
    BY <1>1, <1>2, <1>5, <2>1, ServesOthers DEF RInv
  <2> QED
    BY <2>1, <2>2 DEF Simulates
<1> QED
  BY <1>1, <1>4, <1>5

\* A CreatePrefix looks whether the record is there.
LEMMA LockingFind ==
    ASSUME AllSupported, RInv, NEW c \in Callers, Locking, Called(c, "CreatePrefix"), MayLock(c),
           NEW next \in {"InsertOne", "HSet", "CreatePut"},
           next = "InsertOne" => Uses("mongodb"),
           next = "HSet" => Uses("redis"),
           next = "CreatePut" => Uses("etcd"),
           \/ Stored(c) = Absent /\ Goes(c, next) /\ Lock(c)
           \/ Stored(c) # Absent /\ Answer(c, "error") /\ Unlock(c),
           UNCHANGED <<spaces, data, cache, dirty, indexed, row>>
    PROVE  Simulates(c)
<1>0. ~Uses("memory") /\ ~Uses("postgres") /\ "CreatePrefix" \in PrefixCalls
  BY DEF Locking, Uses, PrefixCalls
<1>1. /\ pc[c] \in {"called", "checked"} /\ pc[c] # "idle" /\ op[c].name = "CreatePrefix"
      /\ op[c] # None /\ op[c].ns \in spaces /\ op[c].ns \in Namespaces
      /\ op[c].key \in Keys
      /\ Place(op[c].ns) = op[c].ns /\ Stored(c) = data[op[c].ns][op[c].key] /\ Types
  BY <1>0, CalledFacts
<1>2. LockingStep(c)
  BY <1>1, RecordsStep DEF DataStep, Types
<1>3. CASE Stored(c) = Absent /\ Goes(c, next) /\ Lock(c)
  <2>1. next \in MidCalls
    BY DEF MidCalls
  <2>2. Shape(c)'
    BY <1>0, <1>1, <1>3, <2>1, ShapeGoes
  <2>3. op' = op /\ pc'[c] = next
    BY <1>1, <1>3, <2>1, GoesOK
  <2>4. Pending(c)'
    BY <1>1, <1>3, <2>3 DEF Pending
  <2>5. RInv'
    BY <1>1, <1>2, <1>3, <2>1, <2>2, <2>4, LockingGoes
  <2>6. UNCHANGED AbsVars
    BY <1>1, <1>3, <2>5, Unseen DEF RInv, Goes, GoTo
  <2> QED
    BY <2>5, <2>6 DEF Simulates
<1>4. CASE Stored(c) # Absent /\ Answer(c, "error") /\ Unlock(c)
  <2>1. RInv'
    BY <1>1, <1>2, <1>4, AnswerEnds, LockingEnds
  <2>2. Abstract!Serve(c)
    BY <1>1, <1>4, <2>1, ServesCreate DEF RInv, RecordCall, CallIn
  <2> QED
    BY <2>1, <2>2 DEF Simulates
<1> QED
  BY <1>3, <1>4

\* A ReadPrefix ends with what is there.
LEMMA RecordEnds ==
    ASSUME RInv, NEW c \in Callers, op[c].ns \in Namespaces, op[c].key \in Keys,
           op[c].ns \in spaces, GiveRecord(c, Stored(c))
    PROVE  Ends(c)
<1>1. Stored(c) = data[op[c].ns][op[c].key]
  BY PlaceIs
<1>2. Stored(c) \in Versions
  BY <1>1 DEF RInv, Types
<1>3. CASE Stored(c) = Absent
  BY <1>3, AnswerEnds DEF GiveRecord
<1>4. CASE Stored(c) # Absent
  <2> DEFINE r == [ns |-> op[c].ns, key |-> op[c].key, version |-> Stored(c)]
  <2>1. r \in Copies
    BY <1>2, <1>4 DEF Copies, Versions
  <2>2. Give(c, "ok", r, None)
    BY <1>4 DEF GiveRecord
  <2> QED
    BY <2>1, <2>2 DEF Give, Ends
<1> QED
  BY <1>3, <1>4

\* A list ends the call.
LEMMA ListEnds ==
    ASSUME NEW c \in Callers, NEW g,
           ans' = [ans EXCEPT ![c] = "ok"], copy' = [copy EXCEPT ![c] = None],
           got' = [got EXCEPT ![c] = g], op' = [op EXCEPT ![c] = None],
           pc' = [pc EXCEPT ![c] = "idle"], UNCHANGED deployment
    PROVE  Ends(c)
  BY DEF Ends

\* A ReadPrefix.
LEMMA LockingRead ==
    ASSUME AllSupported, RInv, NEW c \in Callers, Locking, Called(c, "ReadPrefix"), MayLock(c),
           GiveRecord(c, Stored(c)), Unlock(c),
           UNCHANGED <<spaces, data, cache, dirty, indexed, row>>
    PROVE  Simulates(c)
<1>0. ~Uses("memory") /\ ~Uses("postgres") /\ "ReadPrefix" \in PrefixCalls
  BY DEF Locking, Uses, PrefixCalls
<1>1. /\ pc[c] \in {"called", "checked"} /\ pc[c] # "idle" /\ op[c].name = "ReadPrefix"
      /\ op[c] # None /\ op[c].ns \in spaces /\ op[c].ns \in Namespaces
      /\ op[c].key \in Keys /\ Place(op[c].ns) = op[c].ns /\ Types
  BY <1>0, CalledFacts
<1>2. LockingStep(c)
  BY <1>1, RecordsStep DEF DataStep, Types
<1>3. Ends(c)
  BY <1>1, RecordEnds
<1>4. RInv'
  BY <1>1, <1>2, <1>3, LockingEnds
<1>5. Abstract!Serve(c)
  BY <1>1, <1>4, ServesRead DEF RInv, RecordCall, CallIn
<1> QED
  BY <1>4, <1>5 DEF Simulates

\* A record is written and the call ends.
LEMMA LockingWrites ==
    ASSUME AllSupported, RInv, NEW c \in Callers, Locking, pc[c] \notin {"idle", "CreateMany"},
           op[c].ns \in spaces, MayLock(c), Unlock(c), Ends(c),
           NEW v \in Versions, data' = [data EXCEPT ![op[c].ns][op[c].key] = v],
           UNCHANGED <<spaces, cache, indexed, row>>, dirty' \in [Callers -> BOOLEAN]
    PROVE  RInv'
<1>1. pc[c] # "idle" /\ Types
  BY DEF RInv
<1>2. LockingStep(c)
  BY <1>1, RecordsStep DEF DataStep
<1> QED
  BY <1>1, <1>2, LockingEnds

\* A CreatePrefix writes the record that it found missing.
LEMMA LockingInsert ==
    ASSUME AllSupported, RInv, NEW c \in Callers, Locking,
           pc[c] \in {"InsertOne", "HSet", "CreatePut"},
           Stored(c) = Absent, Write(c, op[c].version), Answer(c, "ok"), Unlock(c),
           UNCHANGED <<spaces, cache, indexed, row>>, dirty' \in [Callers -> BOOLEAN]
    PROVE  Simulates(c)
<1>0. pc[c] \in MidCalls /\ pc[c] \notin {"idle", "CreateMany"} /\ "CreatePrefix" \in PrefixCalls
      /\ ~Uses("postgres")
  BY DEF MidCalls, PrefixCalls, Locking, Uses
<1>1. /\ op[c] # None /\ op[c].ns \in spaces /\ op[c].ns \in Namespaces
      /\ op[c].name \in PrefixCalls => op[c].key \in Keys
      /\ Place(op[c].ns) = op[c].ns /\ Types /\ Shape(c)
  BY <1>0, MidFacts
<1>2. op[c].name = "CreatePrefix" /\ MayLock(c)
  BY <1>0, <1>1, MidHolds DEF Shape, At
<1>3. PICK v \in Versions : data' = [data EXCEPT ![op[c].ns][op[c].key] = v]
  <2>1. op[c].version \in Nat
    BY <1>1 DEF Types, Operations
  <2>2. PICK v : v = op[c].version
    OBVIOUS
  <2>3. v \in Versions /\ data' = [data EXCEPT ![op[c].ns][op[c].key] = v]
    BY <1>1, <2>1, <2>2 DEF Write, Versions
  <2> QED
    BY <2>3
<1>4. RInv'
  BY <1>0, <1>1, <1>2, <1>3, AnswerEnds, LockingWrites
<1>5. Abstract!Serve(c)
  BY <1>0, <1>1, <1>2, <1>4, ServesCreate DEF RInv, RecordCall, CallIn
<1> QED
  BY <1>4, <1>5 DEF Simulates

\* A DeletePrefix.
LEMMA LockingDelete ==
    ASSUME AllSupported, RInv, NEW c \in Callers, Locking, Called(c, "DeletePrefix"), MayLock(c),
           Write(c, Absent), Answer(c, "ok") \/ (Stored(c) = Absent /\ Answer(c, "error")),
           Unlock(c), UNCHANGED <<spaces, cache, indexed, row>>, dirty' \in [Callers -> BOOLEAN]
    PROVE  Simulates(c)
<1>0. ~Uses("memory") /\ ~Uses("postgres") /\ "DeletePrefix" \in PrefixCalls
  BY DEF Locking, Uses, PrefixCalls
<1>1. /\ pc[c] \in {"called", "checked"} /\ pc[c] # "idle" /\ op[c].name = "DeletePrefix"
      /\ op[c] # None /\ op[c].ns \in spaces /\ op[c].ns \in Namespaces
      /\ op[c].key \in Keys /\ Place(op[c].ns) = op[c].ns /\ Types
  BY <1>0, CalledFacts
<1>2. data' = [data EXCEPT ![op[c].ns][op[c].key] = Absent] /\ Absent \in Versions
  BY <1>1 DEF Write, Versions
<1>3. Ends(c) /\ pc[c] \notin {"idle", "CreateMany"}
  BY <1>1, AnswerEnds
<1>4. RInv'
  BY <1>1, <1>2, <1>3, LockingWrites
<1>5. Abstract!Serve(c)
  BY <1>1, <1>4, ServesDelete DEF RInv, RecordCall, CallIn
<1> QED
  BY <1>4, <1>5 DEF Simulates

\* An UpdatePrefix ends, with the record written or without.
LEMMA LockingUpdate ==
    ASSUME AllSupported, RInv, NEW c \in Callers, Locking, pc[c] \notin {"idle", "CreateMany"},
           op[c].name = "UpdatePrefix", op[c].ns \in spaces, MayLock(c),
           \/ Stored(c) = op[c].version /\ Write(c, op[c].version + 1) /\ Answer(c, "ok")
           \/ /\ Stored(c) # op[c].version /\ UNCHANGED data
              /\ Answer(c, "conflict") \/ (Stored(c) = Absent /\ Answer(c, "error")),
           Unlock(c), UNCHANGED <<spaces, cache, indexed, row>>, dirty' \in [Callers -> BOOLEAN]
    PROVE  Simulates(c)
<1>1. /\ pc[c] # "idle" /\ op[c] # None /\ op[c].ns \in Namespaces /\ op[c].key \in Keys
      /\ Place(op[c].ns) = op[c].ns /\ op[c].version \in Nat /\ Types
  BY CallerFacts, PlaceIs DEF PrefixCalls
<1>2. Ends(c)
  BY AnswerEnds
<1>3. RInv'
  <2>1. CASE data' = data
    <3>1. LockingStep(c)
      BY <1>1, <2>1, RecordsStep DEF DataStep
    <3> QED
      BY <1>1, <1>2, <3>1, LockingEnds
  <2>2. CASE Write(c, op[c].version + 1)
    <3>1. /\ data' = [data EXCEPT ![op[c].ns][op[c].key] = op[c].version + 1]
          /\ op[c].version + 1 \in Versions
      BY <1>1, <2>2 DEF Write, Versions
    <3> QED
      BY <1>2, <3>1, LockingWrites
  <2> QED
    BY <2>1, <2>2
<1>4. Abstract!Serve(c)
  BY <1>1, <1>3, ServesUpdate DEF RInv, RecordCall, CallIn
<1> QED
  BY <1>3, <1>4 DEF Simulates

\* A list of the records of a namespace, or of their cidrs.
LEMMA LockingList ==
    ASSUME AllSupported, RInv, NEW c \in Callers, Locking,
           \E name \in ListCalls :
               Called(c, name) /\ Give(c, "ok", None, Listed(name, RecordsIn(data[op[c].ns]))),
           MayLock(c), Unlock(c), UNCHANGED <<spaces, data, cache, dirty, indexed, row>>
    PROVE  Simulates(c)
<1>0. ~Uses("memory") /\ ~Uses("postgres")
  BY DEF Locking, Uses
<1>1. PICK name \in ListCalls :
          Called(c, name) /\ Give(c, "ok", None, Listed(name, RecordsIn(data[op[c].ns])))
  OBVIOUS
<1>2. /\ pc[c] \in {"called", "checked"} /\ pc[c] # "idle" /\ op[c].name = name
      /\ op[c] # None /\ op[c].ns \in spaces /\ op[c].ns \in Namespaces
      /\ Place(op[c].ns) = op[c].ns /\ Types
  BY <1>0, <1>1, CalledFacts
<1>3. LockingStep(c)
  BY <1>2, RecordsStep DEF DataStep, Types
<1>4. Ends(c)
  BY <1>1, ListEnds DEF Give
<1>5. RInv'
  BY <1>2, <1>3, <1>4, LockingEnds
<1>6. Give(c, "ok", None, Listed(op[c].name, RecordsIn(data[op[c].ns])))
  BY <1>1, <1>2
<1>7. Abstract!Serve(c)
  BY <1>2, <1>5, <1>6, ServesList DEF RInv, CallIn
<1> QED
  BY <1>5, <1>7 DEF Simulates

\* A DeleteAllPrefixes in one command.
LEMMA LockingDeleteAll ==
    ASSUME AllSupported, RInv, NEW c \in Callers, Locking, Called(c, "DeleteAllPrefixes"),
           MayLock(c), Clear(op[c].ns), Answer(c, "ok"), Unlock(c),
           UNCHANGED <<spaces, cache, indexed, row>>, dirty' \in [Callers -> BOOLEAN]
    PROVE  Simulates(c)
<1>0. ~Uses("memory") /\ ~Uses("postgres")
  BY DEF Locking, Uses
<1>1. /\ pc[c] \in {"called", "checked"} /\ pc[c] # "idle" /\ op[c].name = "DeleteAllPrefixes"
      /\ op[c] # None /\ op[c].ns \in spaces /\ op[c].ns \in Namespaces
      /\ Place(op[c].ns) = op[c].ns /\ Types
  BY <1>0, CalledFacts
<1>2. LockingStep(c)
  BY <1>1, RecordsStep DEF DataStep
<1>3. RInv'
  BY <1>1, <1>2, AnswerEnds, LockingEnds
<1>4. Abstract!Serve(c)
  BY <1>1, <1>3, ServesDeleteAll DEF RInv, CallIn
<1> QED
  BY <1>3, <1>4 DEF Simulates

\* A namespace that is not there yet is empty, and in the storages without tables
\* it has its own place.
LEMMA NewNamespace ==
    ASSUME AllSupported, RInv, NEW c \in Callers, pc[c] # "idle"
    PROVE  /\ op[c].ns \notin spaces => data[op[c].ns] = Empty
           /\ ~Uses("postgres") => Place(op[c].ns) = op[c].ns
           /\ ~Uses("memory") /\ Known(c) => op[c].ns \in spaces
<1>1. op[c].ns \in Namespaces /\ c \in DOMAIN deployment.processOf
  BY CallerFacts
<1> QED
  BY <1>1 DEF RInv, Spaces, Place, Known

\* A CreateNamespace in one command.
LEMMA LockingCreateNamespace ==
    ASSUME AllSupported, RInv, NEW c \in Callers, Uses("redis") \/ Uses("etcd"),
           Begins(c, "CreateNamespace"), MayLock(c),
           \/ Known(c) /\ UNCHANGED <<spaces, cache>>
           \/ spaces' = spaces \cup {op[c].ns} /\ Learn(c, {op[c].ns}),
           Answer(c, "ok"), Unlock(c), UNCHANGED <<data, dirty, indexed, row>>
    PROVE  Simulates(c)
<1>0. ~Uses("memory") /\ ~Uses("postgres") /\ Locking /\ ~Uses("mongodb")
  BY DEF Locking, Uses
<1>1. /\ pc[c] = "called" /\ pc[c] # "idle" /\ op[c].name = "CreateNamespace"
      /\ op[c] # None /\ op[c].ns \in Namespaces /\ Types
  BY CallerFacts DEF Begins
<1>2. /\ op[c].ns \notin spaces => data[op[c].ns] = Empty
      /\ Place(op[c].ns) = op[c].ns /\ spaces' = spaces \cup {op[c].ns}
  BY <1>0, <1>1, NewNamespace
<1>3. CacheStep(c)
  <2>1. CASE UNCHANGED <<spaces, cache>>
    BY <2>1 DEF CacheStep
  <2>2. CASE Learn(c, {op[c].ns})
    <3>1. {op[c].ns} \in SUBSET spaces'
      BY <1>2
    <3> QED
      BY <2>2, <3>1 DEF CacheStep
  <2> QED
    BY <2>1, <2>2
<1>4. LockingStep(c)
  BY <1>0, <1>1, <1>2, <1>3 DEF LockingStep, DataStep, SpacesStep, IndexStep, Types
<1>5. RInv'
  BY <1>0, <1>1, <1>4, AnswerEnds, LockingEnds
<1>6. Abstract!Serve(c)
  BY <1>1, <1>2, <1>5, ServesCreateNamespace DEF RInv
<1> QED
  BY <1>5, <1>6 DEF Simulates

\* A ListNamespaces.
LEMMA LockingListNamespaces ==
    ASSUME AllSupported, RInv, NEW c \in Callers, Locking, Begins(c, "ListNamespaces"), MayLock(c),
           Give(c, "ok", None, spaces), Unlock(c), cache' = cache \/ Learn(c, spaces),
           UNCHANGED <<spaces, data, dirty, indexed, row>>
    PROVE  Simulates(c)
<1>1. /\ pc[c] = "called" /\ pc[c] # "idle" /\ op[c].name = "ListNamespaces"
      /\ op[c] # None /\ Types
  BY CallerFacts DEF Begins
<1>2. CacheStep(c)
  BY DEF CacheStep
<1>3. LockingStep(c)
  BY <1>1, <1>2 DEF LockingStep, DataStep, SpacesStep, IndexStep, Types
<1>4. Ends(c)
  BY ListEnds DEF Give
<1>5. RInv'
  BY <1>1, <1>3, <1>4, LockingEnds
<1>6. Abstract!Serve(c)
  BY <1>1, <1>5, ServesOthers DEF RInv
<1> QED
  BY <1>5, <1>6 DEF Simulates

-----------------------------------------------------------------------------
(***************************************************************************)
(* DeleteNamespace has two halves in redis, etcd and postgres: the records *)
(* go, then the namespace is forgotten.                                    *)
(***************************************************************************)
\* Between them the namespace is still there.
LEMMA HalfwayThere ==
    ASSUME NEW c \in Callers, Halfway(c)
    PROVE  AbsDb = [n \in spaces \cup {op[c].ns} |-> data[n]]
<1>1. \A d \in Callers : pc[d] = "Forget" <=> d = c
  BY DEF Halfway
<1>2. CASE Uses("postgres")
  <2>1. There = spaces \cup {op[c].ns}
    BY <1>1, <1>2 DEF There
  <2> QED
    BY <2>1 DEF AbsDb
<1>3. CASE ~Uses("postgres")
  <2>1. There = spaces /\ spaces \cup {op[c].ns} = spaces
    BY <1>1, <1>3 DEF There, Halfway
  <2> QED
    BY <2>1 DEF AbsDb
<1> QED
  BY <1>2, <1>3

\* The same in the next state.
LEMMA HalfwayTherePrimed ==
    ASSUME NEW c \in Callers, Halfway(c)'
    PROVE  AbsDb' = [n \in spaces' \cup {op'[c].ns} |-> data'[n]]
<1>1. \A d \in Callers : pc'[d] = "Forget" <=> d = c
  BY DEF Halfway
<1>2. CASE Uses("postgres")'
  <2>1. There' = spaces' \cup {op'[c].ns}
    BY <1>1, <1>2 DEF There
  <2> QED
    BY <2>1 DEF AbsDb
<1>3. CASE ~Uses("postgres")'
  <2>1. There' = spaces' /\ spaces' \cup {op'[c].ns} = spaces'
    BY <1>1, <1>3 DEF There, Halfway
  <2> QED
    BY <2>1 DEF AbsDb
<1> QED
  BY <1>2, <1>3

\* A namespace is deleted by the only caller.
LEMMA OnlyCaller ==
    ASSUME AllSupported, RInv, NEW c \in Callers, pc[c] # "idle", op[c].name = "DeleteNamespace",
           ~Uses("memory"), ~Uses("file")
    PROVE  /\ OneCaller(deployment) /\ Root \notin deployment.names /\ ~Uses("mongodb")
           /\ op[c].ns \in deployment.names /\ Root \in spaces
           /\ \A d \in Callers \ {c} : op[d] = None /\ pc[d] = "idle"
           /\ \A p \in Processes : lock[p] \subseteq {c}
           /\ \A p \in Processes \ {ProcessOf(c)} : lock[p] = {}
<1>1. /\ "DeleteNamespace" \in deployment.calls /\ c \in DOMAIN deployment.processOf
      /\ Types /\ Locks /\ Spaces /\ Shape(c) /\ op[c] # None
  BY CallerFacts DEF RInv
<1>2. Deletes(deployment) /\ ~Uses("mongodb")
  BY <1>1, DeploymentFacts
  DEF Supports, SupportsPostgres, SupportsMongodb, SupportsRedis, SupportsEtcd, Uses
<1>3. OneCaller(deployment) /\ Root \notin deployment.names
  BY <1>1, <1>2 DEF Deletes
<1>4. \A d \in Callers \ {c} : op[d] = None /\ pc[d] = "idle"
  BY <1>1, <1>3 DEF RInv, Shape, OneCaller
<1>5. op[c].ns \in deployment.names
  BY <1>1 DEF Shape, NamespaceCalls
<1>6. Root \in spaces
  BY <1>1, <1>3 DEF Spaces, RootStays
<1>7. \A p \in Processes : CallersOf(p) \subseteq {c} /\ (p # ProcessOf(c) => CallersOf(p) = {})
  BY <1>1, <1>3 DEF CallersOf, OneCaller
<1> QED
  BY <1>1, <1>2, <1>3, <1>4, <1>5, <1>6, <1>7 DEF Locks

\* What a call that empties a namespace does to some of its records.
LEMMA ServesTake ==
    ASSUME NEW c \in Callers, op[c] # None, op[c].name \in {"DeleteAllPrefixes", "DeleteNamespace"},
           op[c].ns \in spaces, op[c].ns \in Namespaces, Typed, NEW S \in SUBSET Keys,
           AbsDb = [n \in spaces |-> data[n]], AbsDb' = [n \in spaces |-> data'[n]],
           data' = [data EXCEPT ![op[c].ns] =
                       [k \in Keys |-> IF k \in S THEN Absent ELSE data[op[c].ns][k]]],
           UNCHANGED <<op, ans, copy>>, \A d \in Callers : op[d] = None => got'[d] = got[d]
    PROVE  Abstract!Serve(c)
<1>1. DOMAIN AbsDb = spaces /\ AbsDb[op[c].ns] = data[op[c].ns]
  OBVIOUS
<1>2. AbsDb' = [AbsDb EXCEPT ![op[c].ns] =
                   [k \in Keys |-> IF k \in S THEN Absent ELSE AbsDb[op[c].ns][k]]]
  OBVIOUS
<1>3. AbsGot' = AbsGot
  BY DEF AbsGot
<1>4. Abstract!TakeRecords(c)
  BY <1>1, <1>2, <1>3 DEF Abstract!TakeRecords, Abstract!Is, AbsDb, AbsGot
<1> QED
  BY <1>4 DEF Abstract!Serve

\* The first half.
LEMMA FirstHalf ==
    ASSUME AllSupported, RInv, NEW c \in Callers, pc[c] # "idle", op[c].name = "DeleteNamespace",
           ~Uses("memory"), ~Uses("file"), op[c].ns \in spaces, GoTo(c, "Forget"), UNCHANGED <<got, cache, indexed>>,
           NEW S \in SUBSET Keys,
           data' = [data EXCEPT ![op[c].ns] =
                       [k \in Keys |-> IF k \in S THEN Absent ELSE data[op[c].ns][k]]],
           data'[op[c].ns] = Empty,
           spaces' = IF Uses("postgres") THEN spaces \ {op[c].ns} ELSE spaces,
           row' \in [Namespaces -> [Keys -> Callers \cup {None}]], dirty' \in [Callers -> BOOLEAN],
           lock' \in [Processes -> SUBSET Callers], \A p \in Processes : lock'[p] = {}
    PROVE  Halfway(c)' /\ Abstract!Serve(c)
<1>1. /\ OneCaller(deployment) /\ Root \notin deployment.names /\ ~Uses("mongodb")
      /\ op[c].ns \in deployment.names /\ Root \in spaces
      /\ \A d \in Callers \ {c} : op[d] = None /\ pc[d] = "idle"
  BY OnlyCaller
<1>2. /\ op[c] # None /\ op[c].ns \in Namespaces /\ c \in DOMAIN deployment.processOf
      /\ Types /\ Spaces
  BY CallerFacts DEF RInv
<1>3. /\ UNCHANGED <<deployment, op, ans, copy>> /\ pc'[c] = "Forget"
      /\ \A d \in Callers \ {c} : pc'[d] = pc[d]
      /\ pc' = [d \in Callers |-> pc'[d]]
  BY <1>2 DEF GoTo, Types
<1>4. data' \in [Namespaces -> [Keys -> Versions]] /\ \A n \in Namespaces \ {op[c].ns} : data'[n] = data[n]
  <2>1. data \in [Namespaces -> [Keys -> Versions]] /\ Absent \in Versions
    BY <1>2 DEF Types, Versions
  <2>2. [k \in Keys |-> IF k \in S THEN Absent ELSE data[op[c].ns][k]] \in [Keys -> Versions]
    BY <1>2, <2>1
  <2> QED
    BY <1>2, <2>1, <2>2
<1>5. Typed'
  BY <1>2, <1>3, <1>4 DEF Types
<1>6. Root # op[c].ns
  BY <1>1
<1>7. /\ cache[ProcessOf(c)] \subseteq spaces
      /\ \A n \in spaces : Place(n) = n
      /\ \A n \in Namespaces \ spaces : data[n] = Empty
  BY <1>2 DEF Spaces
<1>8. /\ \A n : Place(n)' = Place(n)
      /\ \A storage : Uses(storage)' = Uses(storage)
      /\ ProcessOf(c)' = ProcessOf(c) /\ Empty' = Empty
      /\ spaces' \cup {op[c].ns} = spaces
  BY <1>3 DEF Place, Uses, ProcessOf, Empty
<1>9. Halfway(c)'
  <2>1. \A n \in (Namespaces \ spaces') \cup {op'[c].ns} : data'[n] = Empty
    BY <1>2, <1>3, <1>4, <1>7
  <2>2. cache'[ProcessOf(c)'] \subseteq spaces' \cup {op'[c].ns}
    BY <1>3, <1>7, <1>8
  <2>3. \A n \in spaces' \cup {op'[c].ns} : Place(n)' = n
    BY <1>3, <1>7, <1>8
  <2>4. Root \in spaces' /\ (op'[c].ns \in spaces' <=> ~Uses("postgres")')
    BY <1>1, <1>3, <1>6, <1>8
  <2> QED
    BY <1>1, <1>2, <1>3, <1>5, <1>8, <2>1, <2>2, <2>3, <2>4 DEF Halfway
<1>10. AbsDb = [n \in spaces |-> data[n]]
  BY <1>2, ThereIs
<1>11. AbsDb' = [n \in spaces |-> data'[n]]
  BY <1>3, <1>8, <1>9, HalfwayTherePrimed
<1>12. Typed
  BY <1>2 DEF Types
<1>13. \A d \in Callers : op[d] = None => got'[d] = got[d]
  OBVIOUS
<1>14. Abstract!Serve(c)
  BY <1>2, <1>3, <1>10, <1>11, <1>12, <1>13, ServesTake
<1> QED
  BY <1>9, <1>14

\* Where nobody is in a call there is little to show.
LEMMA AllIdle ==
    ASSUME Types', Spaces', ~Uses("mongodb")',
           \A d \in Callers : op'[d] = None /\ pc'[d] = "idle",
           \A p \in Processes : lock'[p] = {}
    PROVE  RInv'
<1>1. \A d \in Callers : Shape(d)' /\ Pending(d)'
  BY ShapeIdle
<1>2. \A d \in DOMAIN deployment'.processOf : ProcessOf(d)' \in Processes
  BY BackendAssumption DEF Types, ProcessOf
<1>3. Locks'
  BY <1>2 DEF Locks, Holds, MidCalls
<1>4. Indexes'
  BY DEF Indexes
<1> QED
  BY <1>1, <1>3, <1>4 DEF RInv

\* The second half.
LEMMA SecondHalf ==
    ASSUME NEW c \in Callers, Halfway(c),
           spaces' = spaces \ {op[c].ns}, Answer(c, "ok"),
           cache' = [cache EXCEPT ![ProcessOf(c)] = @ \ {op[c].ns}],
           lock' \in [Processes -> SUBSET Callers], \A p \in Processes : lock'[p] = {},
           UNCHANGED <<data, row, dirty, indexed>>
    PROVE  RInv' /\ Abstract!Serve(c)
<1> USE DEF Halfway
<1>1. /\ UNCHANGED deployment /\ op' = [op EXCEPT ![c] = None] /\ ans' = [ans EXCEPT ![c] = "ok"]
      /\ copy' = [copy EXCEPT ![c] = None] /\ got' = [got EXCEPT ![c] = None]
      /\ pc' = [pc EXCEPT ![c] = "idle"]
  BY DEF Answer, Give
<1>2. ProcessOf(c) \in Processes /\ op[c].ns \in Namespaces
  BY BackendAssumption DEF ProcessOf
<1>3. \A d \in Callers : op'[d] = None /\ pc'[d] = "idle"
  BY <1>1
<1>4. /\ op' \in [Callers -> Operations \cup {None}] /\ copy' \in [Callers -> Copies \cup {None}]
      /\ pc' \in [Callers -> PCs] /\ got' = [d \in Callers |-> got'[d]]
  BY <1>1 DEF PCs
<1>5. cache' \in [Processes -> SUBSET Namespaces]
  BY <1>2
<1>6. Types'
  BY <1>1, <1>4, <1>5 DEF Types
<1>7. Spaces'
  <2>1. \A d \in DOMAIN deployment.processOf : cache'[ProcessOf(d)'] \subseteq spaces'
    <3>1. \A d \in DOMAIN deployment.processOf : ProcessOf(d)' = ProcessOf(c)
      BY <1>1 DEF OneCaller, ProcessOf
    <3>2. cache'[ProcessOf(c)] = cache[ProcessOf(c)] \ {op[c].ns}
      BY <1>2
    <3> QED
      BY <3>1, <3>2
  <2>2. \A n : Place(n)' = Place(n)
    BY <1>1 DEF Place, Uses
  <2>3. Root \in spaces'
    OBVIOUS
  <2>4. \A n \in Namespaces \ spaces' : data'[n] = Empty'
    BY DEF Empty
  <2> QED
    BY <1>1, <2>1, <2>2, <2>3, <2>4 DEF Spaces
<1>8. ~Uses("mongodb")'
  BY <1>1 DEF Uses
<1>9. RInv'
  BY <1>3, <1>6, <1>7, <1>8, AllIdle
<1>10. AbsDb = [n \in spaces \cup {op[c].ns} |-> data[n]]
  BY HalfwayThere
<1>11. AbsDb' = [n \in DOMAIN AbsDb \ {op[c].ns} |-> AbsDb[n]]
  <2>1. AbsDb' = [n \in spaces \ {op[c].ns} |-> data[n]]
    BY <1>6, ThereIsPrimed
  <2> QED
    BY <1>10, <2>1
<1>12. AbsGot' = [AbsGot EXCEPT ![c] = None]
  BY <1>1, <1>3 DEF AbsGot
<1>13. Abstract!DeleteNamespace(c)
  BY <1>1, <1>11, <1>12 DEF Abstract!DeleteNamespace, Abstract!Is, Abstract!Reply, Abstract!Answer,
                            AbsDb, AbsGot
<1>14. op[c].ns \in DOMAIN AbsDb
  BY <1>10
<1>15. Abstract!Serve(c)
  BY <1>13, <1>14 DEF Abstract!Serve, Abstract!InNamespace, AbsDb
<1> QED
  BY <1>9, <1>15

\* A process that starts finds the root namespace.
LEMMA StartsThere ==
    ASSUME Root \in spaces, NEW p \in Processes, MongoStart, FileStop(p),
           \A c \in CallersOf(p) : pc[c] # "WriteData"
    PROVE  UNCHANGED <<spaces, data, indexed>>
<1>1. spaces \cup {Root} = spaces
  OBVIOUS
<1> QED
  BY <1>1 DEF FileStop, MongoStart, Started

\* The process stops between the halves, or one that nobody uses does.
LEMMA HalfwayStops ==
    ASSUME NEW c \in Callers, Halfway(c),
           NEW p \in Processes, Stop(p), MongoStart, SqlRollback(p), FileStop(p), UNCHANGED dirty
    PROVE  /\ RInv' \/ Halfway(c)'
           /\ UNCHANGED <<spaces, data>>
           /\ \E S \in SUBSET Callers : Abstract!Stop(S)
<1> DEFINE S == CallersOf(p)
<1>1. /\ op' = [d \in Callers |-> IF d \in S THEN None ELSE op[d]]
      /\ ans' = [d \in Callers |-> IF d \in S THEN None ELSE ans[d]]
      /\ copy' = [d \in Callers |-> IF d \in S THEN None ELSE copy[d]]
      /\ got' = [d \in Callers |-> IF d \in S THEN None ELSE got[d]]
      /\ pc' = [d \in Callers |-> IF d \in S THEN "idle" ELSE pc[d]]
      /\ lock' = [lock EXCEPT ![p] = {}]
      /\ cache' = [cache EXCEPT ![p] = {Root}]
      /\ row' = [n \in Namespaces |-> [k \in Keys |->
                    IF row[n][k] \in S THEN None ELSE row[n][k]]]
      /\ UNCHANGED deployment
  BY DEF Stop, SqlRollback, Halfway
<1>2. \A d \in Callers : pc[d] # "WriteData"
  BY DEF Halfway
<1>3. ProcessOf(c) \in Processes /\ op[c].ns \in Namespaces /\ Root \in Namespaces
      /\ \A d \in DOMAIN deployment.processOf : d = c
      /\ DOMAIN deployment.processOf \subseteq Callers
  BY BackendAssumption DEF ProcessOf, Halfway, OneCaller
<1>4. S \subseteq {c} /\ (c \in S <=> p = ProcessOf(c))
  BY <1>3 DEF CallersOf, Halfway
<1>5. UNCHANGED <<spaces, data, indexed>>
  BY <1>2, <1>4, StartsThere DEF Halfway
<1> HIDE DEF S
<1>6. /\ op' \in [Callers -> Operations \cup {None}] /\ copy' \in [Callers -> Copies \cup {None}]
      /\ got' = [d \in Callers |-> got'[d]] /\ pc' = [d \in Callers |-> pc'[d]]
      /\ row' \in [Namespaces -> [Keys -> Callers \cup {None}]]
      /\ lock' \in [Processes -> SUBSET Callers] /\ cache' \in [Processes -> SUBSET Namespaces]
  BY <1>1, <1>3 DEF Halfway
<1>7. Typed'
  BY <1>1, <1>5, <1>6 DEF Halfway
<1>8. \A q \in Processes : lock'[q] = {}
  BY <1>1 DEF Halfway
<1>9. /\ \A n : Place(n)' = Place(n) /\ \A storage : Uses(storage)' = Uses(storage)
      /\ ProcessOf(c)' = ProcessOf(c) /\ Empty' = Empty
  BY <1>1 DEF Place, Uses, ProcessOf, Empty
<1>10. AbsDb = [n \in spaces \cup {op[c].ns} |-> data[n]]
  BY HalfwayThere
<1>11. AbsGot' = [d \in Callers |-> IF d \in S THEN None ELSE AbsGot[d]]
  BY <1>1 DEF AbsGot
<1>12. S \in SUBSET Callers
  BY <1>4
<1>13. CASE c \in S
  <2>1. \A d \in Callers : op'[d] = None /\ pc'[d] = "idle"
    BY <1>1, <1>13 DEF Halfway
  <2>2. Types'
    BY <1>6, <1>7, <2>1 DEF Types, PCs
  <2>3. Spaces'
    <3>1. \A d \in DOMAIN deployment.processOf : cache'[ProcessOf(d)'] \subseteq spaces'
      <4>1. cache'[ProcessOf(c)] = {Root} /\ Root \in spaces
        BY <1>1, <1>3, <1>4, <1>13 DEF Halfway
      <4> QED
        BY <1>3, <1>5, <1>9, <4>1
    <3>2. \A n \in Namespaces \ spaces' : data'[n] = Empty'
      BY <1>5, <1>9 DEF Halfway
    <3> QED
      BY <1>1, <1>5, <1>9, <3>1, <3>2 DEF Spaces, Halfway
  <2>4. RInv'
    BY <1>8, <1>9, <2>1, <2>2, <2>3, AllIdle DEF Halfway
  <2>5. AbsDb' = [n \in spaces |-> data[n]]
    BY <1>5, <2>2, ThereIsPrimed
  <2>6. PICK gone \in SUBSET {op[c].ns} : spaces = (spaces \cup {op[c].ns}) \ gone
    <3>1. CASE op[c].ns \in spaces
      <4>1. spaces = (spaces \cup {op[c].ns}) \ {}
        BY <3>1
      <4> QED
        BY <4>1
    <3>2. CASE op[c].ns \notin spaces
      <4>1. spaces = (spaces \cup {op[c].ns}) \ {op[c].ns}
        BY <3>2
      <4> QED
        BY <4>1
    <3> QED
      BY <3>1, <3>2
  <2>7. AbsDb' = [n \in DOMAIN AbsDb \ gone |-> AbsDb[n]]
    BY <1>10, <2>5, <2>6
  <2>8. gone \in SUBSET { op[d].ns : d \in { d \in S : Abstract!Is(d, "DeleteNamespace") } }
    BY <1>13 DEF Abstract!Is, Halfway
  <2>9. Abstract!Stop(S)
    BY <1>1, <1>11, <2>7, <2>8 DEF Abstract!Stop, AbsDb, AbsGot
  <2>10. \E T \in SUBSET Callers : Abstract!Stop(T)
    BY <1>12, <2>9 DEF Abstract!Stop
  <2> QED
    BY <1>5, <2>4, <2>10
<1>14. CASE c \notin S
  <2>1. S = {} /\ p # ProcessOf(c)
    BY <1>4, <1>14
  <2>2. \A d \in Callers : op'[d] = op[d] /\ pc'[d] = pc[d]
    BY <1>1, <2>1
  <2>3. cache'[ProcessOf(c)] = cache[ProcessOf(c)]
    BY <1>1, <1>3, <2>1 DEF Halfway
  <2>4. Halfway(c)'
    BY <1>1, <1>5, <1>6, <1>7, <1>8, <1>9, <2>2, <2>3 DEF Halfway
  <2>5. AbsDb' = [n \in DOMAIN AbsDb \ {} |-> AbsDb[n]]
    BY <1>5, <1>10, <2>2, <2>4, HalfwayTherePrimed
  <2>6. Abstract!Stop(S)
    BY <1>1, <1>11, <2>5 DEF Abstract!Stop, AbsDb, AbsGot
  <2>7. \E T \in SUBSET Callers : Abstract!Stop(T)
    BY <1>12, <2>6 DEF Abstract!Stop
  <2> QED
    BY <1>5, <2>4, <2>7
<1> QED
  BY <1>5, <1>13, <1>14

\* Who is not in a call sends no command.
LEMMA IdleSendsNothing ==
    ASSUME NEW d, pc[d] = "idle"
    PROVE  ~RedisStep(d) /\ ~EtcdStep(d) /\ ~SqlStep(d)
<1>1. ~RedisStep(d)
  BY DEF RedisStep, RedisCheckNamespace, RedisHExists, RedisHSet, RedisReadPrefix, RedisWatch,
         RedisHGet, RedisExec, RedisHDel, RedisHGetAll, RedisDel, RedisSRem, RedisSAdd,
         RedisSMembers, CheckNamespaceLocked, CheckNamespace, Called, Begins
<1>2. ~EtcdStep(d)
  BY DEF EtcdStep, EtcdCheckNamespace, EtcdCreateGet, EtcdCreatePut, EtcdReadPrefix,
         EtcdUpdateGet, EtcdUpdatePut, EtcdDelete, EtcdGetKeys, EtcdDeleteKey, EtcdGetKey,
         EtcdForget, EtcdCreateNamespace, EtcdListNamespaces, CheckNamespaceLocked,
         CheckNamespace, Called, Begins
<1>3. ~SqlStep(d)
  BY DEF SqlStep, SqlCheckNamespace, SqlPrefixExists, SqlInsert, SqlReadPrefix,
         SqlSelectForUpdate, SqlUpdate, SqlDelete, SqlCommit, SqlSelectAll, SqlDeleteAll,
         SqlCreateTable, SqlListNamespaces, SqlDropTable, SqlForget, CheckNamespace, Called, Begins
<1> QED
  BY <1>1, <1>2, <1>3

\* Between the halves comes the second one.
LEMMA OnlyForget ==
    ASSUME NEW c, pc[c] = "Forget"
    PROVE  /\ RedisStep(c) => RedisSRem(c)
           /\ EtcdStep(c) => EtcdForget(c)
           /\ SqlStep(c) => SqlForget(c)
<1>1. RedisStep(c) => RedisSRem(c)
  BY DEF RedisStep, RedisCheckNamespace, RedisHExists, RedisHSet, RedisReadPrefix, RedisWatch,
         RedisHGet, RedisExec, RedisHDel, RedisHGetAll, RedisDel, RedisSAdd,
         RedisSMembers, CheckNamespaceLocked, CheckNamespace, Called, Begins
<1>2. EtcdStep(c) => EtcdForget(c)
  BY DEF EtcdStep, EtcdCheckNamespace, EtcdCreateGet, EtcdCreatePut, EtcdReadPrefix,
         EtcdUpdateGet, EtcdUpdatePut, EtcdDelete, EtcdGetKeys, EtcdDeleteKey, EtcdGetKey,
         EtcdCreateNamespace, EtcdListNamespaces, CheckNamespaceLocked,
         CheckNamespace, Called, Begins
<1>3. SqlStep(c) => SqlForget(c)
  BY DEF SqlStep, SqlCheckNamespace, SqlPrefixExists, SqlInsert, SqlReadPrefix,
         SqlSelectForUpdate, SqlUpdate, SqlDelete, SqlCommit, SqlSelectAll, SqlDeleteAll,
         SqlCreateTable, SqlListNamespaces, SqlDropTable, CheckNamespace, Called, Begins
<1> QED
  BY <1>1, <1>2, <1>3

\* And then the namespace is gone.
LEMMA HalfwaySimulates ==
    ASSUME NEW c \in Callers, Halfway(c), NEW d \in Callers, Step(d)
    PROVE  RInv' /\ Abstract!Serve(d)
<1>1. d = c /\ pc[c] = "Forget"
  <2>1. pc[d] # "idle"
    BY IdleSendsNothing DEF Step, Halfway, Uses
  <2> QED
    BY <2>1 DEF Halfway
<1>2. /\ ProcessOf(c) \in Processes /\ CallersOf(ProcessOf(c)) \subseteq {c}
      /\ lock \in [Processes -> SUBSET Callers] /\ \A p \in Processes : lock[p] = {}
  BY BackendAssumption DEF ProcessOf, CallersOf, Halfway, OneCaller
<1>3. ASSUME Unlock(c) PROVE lock' \in [Processes -> SUBSET Callers] /\ \A p \in Processes : lock'[p] = {}
  <2>1. ~Shares(c)
    BY <1>1 DEF Shares
  <2>2. lock' = [lock EXCEPT ![ProcessOf(c)] = {}]
    BY <1>2, <1>3, <2>1 DEF Unlock
  <2> QED
    BY <1>2, <2>2
<1>4. CASE Uses("redis")
  <2>1. RedisSRem(c) /\ UNCHANGED <<indexed, row>>
    BY <1>1, <1>4, OnlyForget DEF Step, Uses
  <2> QED
    BY <1>1, <1>3, <2>1, SecondHalf DEF RedisSRem
<1>5. CASE Uses("etcd")
  <2>1. EtcdForget(c) /\ UNCHANGED <<dirty, indexed, row>>
    BY <1>1, <1>5, OnlyForget DEF Step, Uses
  <2> QED
    BY <1>1, <1>3, <2>1, SecondHalf DEF EtcdForget
<1>6. CASE Uses("postgres")
  <2>1. SqlForget(c) /\ UNCHANGED <<dirty, indexed>>
    BY <1>1, <1>6, OnlyForget DEF Step, Uses
  <2>2. spaces' = spaces \ {op[c].ns}
    BY <1>6, <2>1 DEF SqlForget, Halfway
  <2>3. lock' \in [Processes -> SUBSET Callers] /\ \A p \in Processes : lock'[p] = {}
    BY <1>2, <2>1 DEF SqlForget
  <2> QED
    BY <1>1, <2>1, <2>2, <2>3, SecondHalf DEF SqlForget
<1>7. Uses("redis") \/ Uses("etcd") \/ Uses("postgres")
  BY <1>1 DEF Step, Halfway
<1> QED
  BY <1>4, <1>5, <1>6, <1>7

\* A step of a DeleteNamespace that is its first half.
Halves(c) == Halfway(c)' /\ Abstract!Serve(c)

\* With the first half the lock is given back.
LEMMA HalfUnlock ==
    ASSUME AllSupported, RInv, NEW c \in Callers, pc[c] # "idle", op[c].name = "DeleteNamespace",
           Uses("redis") \/ Uses("etcd"), Unlock(c)
    PROVE  lock' \in [Processes -> SUBSET Callers] /\ \A p \in Processes : lock'[p] = {}
<1>1. Types /\ ProcessOf(c) \in Processes /\ ~Uses("memory") /\ ~Uses("file")
  BY CallerFacts DEF Uses
<1>2. pc[c] # "Forget"
  BY <1>1 DEF Types, PCs, MidCalls, FileCalls, Loads, Saves
<1>3. Shares(c)
  BY <1>2 DEF Shares, SharedCalls, Uses
<1>4. lock' = [lock EXCEPT ![ProcessOf(c)] = lock[ProcessOf(c)] \ {c}]
  BY <1>3 DEF Unlock
<1>5. lock[ProcessOf(c)] \ {c} = {} /\ \A p \in Processes \ {ProcessOf(c)} : lock[p] = {}
  BY <1>1, OnlyCaller
<1> QED
  BY <1>1, <1>4, <1>5 DEF Types

-----------------------------------------------------------------------------
(***************************************************************************)
(* redis.                                                                  *)
(***************************************************************************)
\* The marks of the WATCHes are marks.
LEMMA DirtyTyped ==
    ASSUME Types, NEW c \in Callers,
           HashWritten(c) \/ UNCHANGED dirty \/ dirty' = [dirty EXCEPT ![c] = FALSE]
    PROVE  dirty' \in [Callers -> BOOLEAN]
<1>1. dirty \in [Callers -> BOOLEAN]
  BY DEF Types
<1>2. CASE HashWritten(c)
  <2>1. \A d \in Callers :
            (dirty[d] \/ (d # c /\ pc[d] \in {"HGet", "Exec"} /\ op[d].ns = op[c].ns)) \in BOOLEAN
    OBVIOUS
  <2> QED
    BY <1>2, <2>1, Zenon DEF HashWritten
<1> QED
  BY <1>1, <1>2

\* UpdatePrefix sends its WATCH.
LEMMA RedisWatchSimulates ==
    ASSUME AllSupported, RInv, NEW c \in Callers, Uses("redis"), RedisWatch(c),
           UNCHANGED <<indexed, row>>
    PROVE  Simulates(c)
<1> USE DEF RedisWatch
<1>0. Locking /\ ~Uses("memory") /\ ~Uses("postgres")
  BY DEF Locking, Uses
<1>1. /\ pc[c] \in {"called", "checked"} /\ pc[c] # "idle" /\ op[c].name = "UpdatePrefix"
      /\ op[c] # None /\ op[c].ns \in spaces /\ Types
  BY <1>0, CalledFacts
<1>2. dirty' \in [Callers -> BOOLEAN] /\ ~dirty'[c]
  BY <1>1, DirtyTyped DEF Types
<1>3. LockingStep(c)
  BY <1>1, <1>2, RecordsStep DEF DataStep
<1>4. "HGet" \in MidCalls /\ Goes(c, "HGet")
  BY DEF MidCalls, Goes
<1>5. op' = op /\ pc'[c] = "HGet"
  BY <1>1, <1>4, GoesOK
<1>6. Shape(c)'
  BY <1>0, <1>1, <1>4, ShapeGoes
<1>7. Pending(c)'
  BY <1>2, <1>5 DEF Pending
<1>8. RInv'
  BY <1>0, <1>1, <1>3, <1>4, <1>6, <1>7, LockingGoes
<1>9. UNCHANGED AbsVars
  BY <1>1, <1>4, <1>8, Unseen DEF RInv, Goes, GoTo
<1> QED
  BY <1>8, <1>9 DEF Simulates

\* UpdatePrefix reads and decides.
LEMMA RedisHGetSimulates ==
    ASSUME AllSupported, RInv, NEW c \in Callers, Uses("redis"), RedisHGet(c),
           UNCHANGED <<indexed, row>>
    PROVE  Simulates(c)
<1> USE DEF RedisHGet
<1>0. Locking /\ ~Uses("memory") /\ ~Uses("postgres") /\ pc[c] \in MidCalls
  BY DEF Locking, Uses, MidCalls
<1>1. /\ pc[c] \notin {"idle", "CreateMany"} /\ op[c].name = "UpdatePrefix"
      /\ op[c] # None /\ op[c].ns \in spaces /\ op[c].ns \in Namespaces /\ op[c].key \in Keys
      /\ Stored(c) = data[op[c].ns][op[c].key] /\ Types /\ ~dirty[c]
  BY <1>0, MidFacts DEF Shape, At, Pending, PrefixCalls
<1>2. MayLock(c) /\ Holds(c) /\ dirty' \in [Callers -> BOOLEAN] /\ dirty' = dirty
  BY <1>0, <1>1, MidHolds DEF Types
<1>3. CASE Stored(c) = op[c].version
  <2>1. LockingStep(c)
    BY <1>1, <1>2, RecordsStep DEF DataStep
  <2>2. "Exec" \in MidCalls /\ Goes(c, "Exec")
    BY <1>3 DEF MidCalls, Goes
  <2>3. op' = op /\ pc'[c] = "Exec"
    BY <1>1, <2>2, GoesOK
  <2>4. Shape(c)'
    BY <1>0, <1>1, <2>2, ShapeGoes
  <2>5. Pending(c)'
    BY <1>1, <1>2, <1>3, <2>3 DEF Pending
  <2>6. Lock(c)
    BY <1>0, <1>1, <1>2, <1>3, CallerFacts DEF Lock, Holds, Types
  <2>7. RInv'
    BY <1>0, <1>1, <1>2, <2>1, <2>2, <2>4, <2>5, <2>6, LockingGoes
  <2>8. UNCHANGED AbsVars
    BY <1>1, <2>2, <2>7, Unseen DEF RInv, Goes, GoTo
  <2> QED
    BY <2>7, <2>8 DEF Simulates
<1>4. CASE Stored(c) # op[c].version
  BY <1>0, <1>1, <1>2, <1>4, LockingUpdate
<1> QED
  BY <1>3, <1>4

\* UpdatePrefix sends its EXEC.
LEMMA RedisExecSimulates ==
    ASSUME AllSupported, RInv, NEW c \in Callers, Uses("redis"), RedisExec(c),
           UNCHANGED <<indexed, row>>
    PROVE  Simulates(c)
<1> USE DEF RedisExec
<1>0. Locking /\ ~Uses("postgres") /\ pc[c] \in MidCalls
  BY DEF Locking, Uses, MidCalls
<1>1. /\ pc[c] \notin {"idle", "CreateMany"} /\ op[c].name = "UpdatePrefix"
      /\ op[c].ns \in spaces /\ Stored(c) = op[c].version /\ Types /\ ~dirty[c]
  BY <1>0, MidFacts DEF Shape, At, Pending
<1>2. MayLock(c) /\ dirty' \in [Callers -> BOOLEAN]
  BY <1>0, <1>1, MidHolds, DirtyTyped
<1> QED
  BY <1>0, <1>1, <1>2, LockingUpdate

\* The hash is deleted.
LEMMA RedisDelSimulates ==
    ASSUME AllSupported, RInv, NEW c \in Callers, Uses("redis"), RedisDel(c), UNCHANGED <<indexed, row>>
    PROVE  Simulates(c) \/ Halves(c)
<1> USE DEF RedisDel
<1>0. Locking /\ ~Uses("memory") /\ ~Uses("file") /\ ~Uses("postgres") /\ Types
  BY DEF Locking, Uses, RInv
<1>1. dirty' \in [Callers -> BOOLEAN]
  BY <1>0, DirtyTyped
<1>2. CASE Called(c, "DeleteAllPrefixes") /\ Answer(c, "ok")
  BY <1>0, <1>1, <1>2, LockingDeleteAll
<1>3. CASE Called(c, "DeleteNamespace") /\ GoTo(c, "Forget") /\ UNCHANGED got
  <2>1. pc[c] # "idle" /\ op[c].name = "DeleteNamespace" /\ op[c].ns \in spaces /\ op[c].ns \in Namespaces
    BY <1>0, <1>3, CalledFacts
  <2>2. lock' \in [Processes -> SUBSET Callers] /\ \A p \in Processes : lock'[p] = {}
    BY <2>1, HalfUnlock
  <2>3. data' = [data EXCEPT ![op[c].ns] = [k \in Keys |-> IF k \in Keys THEN Absent ELSE data[op[c].ns][k]]]
    BY DEF Clear, Empty
  <2>4. data'[op[c].ns] = Empty
    BY <1>0, <2>1 DEF Clear, Types
  <2>5. row' \in [Namespaces -> [Keys -> Callers \cup {None}]] /\ Keys \in SUBSET Keys
    BY <1>0 DEF Types
  <2>6. Halfway(c)' /\ Abstract!Serve(c)
    BY <1>0, <1>1, <1>3, <2>1, <2>2, <2>3, <2>4, <2>5, FirstHalf
  <2> QED
    BY <2>6 DEF Halves
<1> QED
  BY <1>2, <1>3

\* Every command of redis.
LEMMA RedisSimulates ==
    ASSUME AllSupported, RInv, NEW c \in Callers, Uses("redis"), RedisStep(c),
           UNCHANGED <<indexed, row>>
    PROVE  Simulates(c) \/ Halves(c)
<1>0. Locking /\ Types /\ ~Uses("memory")
  BY DEF Locking, RInv, Uses
<1>1. CASE RedisCheckNamespace(c)
  BY <1>0, <1>1, LockingCheck DEF RedisCheckNamespace
<1>2. CASE RedisHExists(c)
  BY <1>0, <1>2, LockingFind DEF RedisHExists, Goes
<1>3. CASE RedisHSet(c)
  <2>1. pc[c] \in MidCalls /\ pc[c] = "HSet"
    BY <1>3 DEF RedisHSet, MidCalls
  <2>2. Stored(c) = Absent
    BY <2>1, MidFacts DEF Pending
  <2>3. dirty' \in [Callers -> BOOLEAN]
    BY <1>0, <1>3, DirtyTyped DEF RedisHSet
  <2> QED
    BY <1>0, <1>3, <2>2, <2>3, LockingInsert DEF RedisHSet
<1>4. CASE RedisReadPrefix(c)
  BY <1>0, <1>4, LockingRead DEF RedisReadPrefix
<1>5. CASE RedisWatch(c)
  BY <1>5, RedisWatchSimulates
<1>6. CASE RedisHGet(c)
  BY <1>6, RedisHGetSimulates
<1>7. CASE RedisExec(c)
  BY <1>7, RedisExecSimulates
<1>8. CASE RedisHDel(c)
  <2>1. dirty' \in [Callers -> BOOLEAN]
    BY <1>0, <1>8, DirtyTyped DEF RedisHDel
  <2> QED
    BY <1>0, <1>8, <2>1, LockingDelete DEF RedisHDel
<1>9. CASE RedisHGetAll(c)
  BY <1>0, <1>9, LockingList DEF RedisHGetAll
<1>10. CASE RedisDel(c)
  BY <1>10, RedisDelSimulates
<1>11. ~RedisSRem(c)
  BY <1>0 DEF RedisSRem, Types, PCs, MidCalls, FileCalls, Loads, Saves
<1>12. CASE RedisSAdd(c)
  BY <1>0, <1>12, LockingCreateNamespace DEF RedisSAdd
<1>13. CASE RedisSMembers(c)
  BY <1>0, <1>13, LockingListNamespaces DEF RedisSMembers
<1> QED
  BY <1>1, <1>2, <1>3, <1>4, <1>5, <1>6, <1>7, <1>8, <1>9, <1>10, <1>11, <1>12, <1>13
  DEF RedisStep

-----------------------------------------------------------------------------
(***************************************************************************)
(* etcd.                                                                   *)
(***************************************************************************)
\* UpdatePrefix reads and decides.
LEMMA EtcdUpdateGetSimulates ==
    ASSUME AllSupported, RInv, NEW c \in Callers, Uses("etcd"), EtcdUpdateGet(c),
           UNCHANGED <<dirty, indexed, row>>
    PROVE  Simulates(c)
<1> USE DEF EtcdUpdateGet
<1>0. Locking /\ ~Uses("memory") /\ ~Uses("postgres") /\ "UpdatePrefix" \in PrefixCalls
  BY DEF Locking, Uses, PrefixCalls
<1>1. /\ pc[c] \in {"called", "checked"} /\ pc[c] # "idle" /\ op[c].name = "UpdatePrefix"
      /\ op[c] # None /\ op[c].ns \in spaces /\ op[c].ns \in Namespaces /\ op[c].key \in Keys
      /\ Stored(c) = data[op[c].ns][op[c].key] /\ Types
  BY <1>0, CalledFacts
<1>2. dirty' \in [Callers -> BOOLEAN]
  BY <1>1 DEF Types
<1>3. CASE Stored(c) = op[c].version
  <2>1. LockingStep(c)
    BY <1>1, <1>2, RecordsStep DEF DataStep
  <2>2. "UpdatePut" \in MidCalls /\ Goes(c, "UpdatePut")
    BY <1>3 DEF MidCalls, Goes
  <2>3. op' = op /\ pc'[c] = "UpdatePut"
    BY <1>1, <2>2, GoesOK
  <2>4. Shape(c)'
    BY <1>0, <1>1, <2>2, ShapeGoes
  <2>5. Pending(c)'
    BY <1>1, <1>3, <2>3 DEF Pending
  <2>6. RInv'
    BY <1>0, <1>1, <1>3, <2>1, <2>2, <2>4, <2>5, LockingGoes
  <2>7. UNCHANGED AbsVars
    BY <1>1, <2>2, <2>6, Unseen DEF RInv, Goes, GoTo
  <2> QED
    BY <2>6, <2>7 DEF Simulates
<1>4. CASE Stored(c) # op[c].version
  BY <1>0, <1>1, <1>2, <1>4, LockingUpdate
<1> QED
  BY <1>3, <1>4

-----------------------------------------------------------------------------
(***************************************************************************)
(* etcd, key by key.                                                       *)
(***************************************************************************)
KeyCalls == ListCalls \cup {"DeleteAllPrefixes", "DeleteNamespace"}

\* The keys that begin with the name of a namespace are those of its records.
LEMMA KeysAre ==
    ASSUME AllSupported, RInv, Lists, Uses("etcd"), NEW c \in Callers, pc[c] # "idle",
           op[c].name \in KeyCalls
    PROVE  KeysWithPrefix(op[c].ns)
             = { i \in [ns : {op[c].ns}, key : Keys] : data[i.ns][i.key] # Absent }
<1> DEFINE n0 == op[c].ns
<1>1. /\ Types /\ n0 \in Namespaces /\ op[c].name \in deployment.calls /\ Shape(c)
      /\ \A n \in Namespaces \ spaces : data[n] = Empty
      /\ spaces \subseteq deployment.names \cup {Root}
  BY CallerFacts DEF RInv, Spaces, Lists
<1>2. KeysApart(deployment)
  BY <1>1, DeploymentFacts
  DEF Supports, SupportsEtcd, Uses, KeyCalls, ListCalls, PrefixCalls
<1>3. n0 \in deployment.names
  BY <1>1 DEF Shape, KeyCalls, NamespaceCalls, ListCalls
<1>4. ~IsPrefix(n0, NamespaceKey) /\ \A m \in spaces : IsPrefix(n0, m) => n0 = m
  BY <1>1, <1>2, <1>3 DEF KeysApart
<1>5. IsPrefix(n0, n0)
  <2>1. n0 \in Seq(STRING)
    BY <1>1, BackendAssumption
  <2> QED
    BY <2>1 DEF IsPrefix
<1>6. \A n \in Namespaces, k \in Keys : data[n][k] # Absent => n \in spaces
  BY <1>1 DEF Empty
<1> HIDE DEF n0
<1>7. KeysWithPrefix(n0) = { i \in [ns : {n0}, key : Keys] : data[i.ns][i.key] # Absent }
  <2>1. { i \in [ns : spaces, key : {None}] : IsPrefix(n0, NamespaceKey) } = {}
    BY <1>4
  <2>2. \A i \in [ns : Namespaces, key : Keys] :
            (IsPrefix(n0, i.ns) /\ data[i.ns][i.key] # Absent)
              <=> (i \in [ns : {n0}, key : Keys] /\ data[i.ns][i.key] # Absent)
    BY <1>4, <1>5, <1>6
  <2>3. [ns : {n0}, key : Keys] \subseteq [ns : Namespaces, key : Keys]
    BY <1>1 DEF n0
  <2> QED
    BY <2>1, <2>2, <2>3 DEF KeysWithPrefix
<1> QED
  BY <1>7 DEF n0

\* The call goes from key to key.
LEMMA EtcdCollects ==
    ASSUME AllSupported, RInv, NEW c \in Callers, Uses("etcd"), pc[c] # "idle",
           op[c].name \in KeyCalls, op[c].ns \in spaces, MayLock(c), Lock(c),
           Collects(c, "NextKey") \/ Goes(c, "NextKey"), DataStep(c),
           UNCHANGED <<spaces, cache, dirty, indexed, row>>
    PROVE  RInv'
<1>0. Locking /\ ~Uses("memory") /\ Types /\ "NextKey" \in MidCalls
  BY DEF Locking, Uses, RInv, MidCalls
<1>1. pc[c] # "CreateMany"
  BY DEF RInv, Shape, At, Uses
<1>2. LockingStep(c)
  BY <1>0, <1>1, RecordsStep DEF Types
<1>3. Shape(c)'
  BY <1>0, ShapeGoes DEF KeyCalls
<1>4. pc'[c] = "NextKey"
  BY <1>0, GoesOK
<1>5. Pending(c)'
  BY <1>4 DEF Pending
<1> QED
  BY <1>0, <1>2, <1>3, <1>5, LockingGoes

\* A call that goes key by key, when it begins and later.
AtKeys(c) ==
    \/ \E name \in KeyCalls : Called(c, name)
    \/ pc[c] = "NextKey"

\* Where it is, and what it has.
LEMMA KeyCallFacts ==
    ASSUME AllSupported, RInv, NEW c \in Callers, Uses("etcd"), AtKeys(c)
    PROVE  /\ pc[c] \notin {"idle", "CreateMany"} /\ op[c].name \in KeyCalls
           /\ op[c] # None /\ op[c].ns \in spaces /\ op[c].ns \in Namespaces
           /\ Place(op[c].ns) = op[c].ns /\ Types
           /\ pc[c] = "NextKey" => Holds(c) /\ MayLock(c)
<1>0. ~Uses("memory") /\ ~Uses("postgres")
  BY DEF Uses
<1>1. CASE \E name \in KeyCalls : Called(c, name)
  <2>1. PICK name \in KeyCalls : Called(c, name)
    BY <1>1
  <2> QED
    BY <1>0, <2>1, CalledFacts
<1>2. CASE pc[c] = "NextKey"
  <2>1. pc[c] \in MidCalls
    BY <1>2 DEF MidCalls
  <2>2. Shape(c)
    BY DEF RInv
  <2>3. op[c].name \in KeyCalls
    BY <1>2, <2>2 DEF Shape, At, KeyCalls
  <2> QED
    BY <1>0, <1>2, <2>1, <2>3, MidFacts, MidHolds
<1> QED
  BY <1>1, <1>2 DEF AtKeys

\* Nothing is left of the namespace.
LEMMA EtcdEmptiedSimulates ==
    ASSUME AllSupported, RInv, NEW c \in Callers, Uses("etcd"), AtKeys(c), MayLock(c),
           op[c].name \notin ListCalls, EtcdEmptied(c),
           NEW S \in SUBSET Keys,
           data' = [data EXCEPT ![op[c].ns] =
                       [k \in Keys |-> IF k \in S THEN Absent ELSE data[op[c].ns][k]]],
           data'[op[c].ns] = Empty,
           UNCHANGED <<spaces, cache, dirty, indexed, row>>
    PROVE  Simulates(c) \/ Halves(c)
<1>0. Locking /\ ~Uses("memory") /\ ~Uses("file") /\ ~Uses("postgres")
  BY DEF Locking, Uses
<1>1. /\ pc[c] \notin {"idle", "CreateMany"} /\ op[c].name \in {"DeleteAllPrefixes", "DeleteNamespace"}
      /\ op[c] # None /\ op[c].ns \in spaces /\ op[c].ns \in Namespaces
      /\ Place(op[c].ns) = op[c].ns /\ Types
  BY KeyCallFacts DEF KeyCalls
<1>2. row' \in [Namespaces -> [Keys -> Callers \cup {None}]] /\ dirty' \in [Callers -> BOOLEAN]
  BY <1>1 DEF Types
<1>3. CASE op[c].name = "DeleteNamespace"
  <2>1. GoTo(c, "Forget") /\ UNCHANGED got /\ Unlock(c)
    BY <1>3 DEF EtcdEmptied
  <2>2. lock' \in [Processes -> SUBSET Callers] /\ \A p \in Processes : lock'[p] = {}
    BY <1>1, <1>3, <2>1, HalfUnlock
  <2>3. Halfway(c)' /\ Abstract!Serve(c)
    BY <1>0, <1>1, <1>2, <1>3, <2>1, <2>2, FirstHalf
  <2> QED
    BY <2>3 DEF Halves
<1>4. CASE op[c].name = "DeleteAllPrefixes"
  <2>1. Answer(c, "ok") /\ Unlock(c)
    BY <1>4 DEF EtcdEmptied
  <2>2. Clear(op[c].ns)
    BY <1>1 DEF Clear, Types
  <2>3. LockingStep(c)
    BY <1>1, <1>2, <2>2, RecordsStep DEF DataStep
  <2>4. RInv'
    BY <1>0, <1>1, <2>1, <2>3, AnswerEnds, LockingEnds
  <2>5. Abstract!Serve(c)
    BY <1>1, <1>4, <2>1, <2>2, <2>4, ServesDeleteAll DEF RInv, CallIn
  <2> QED
    BY <2>4, <2>5 DEF Simulates
<1> QED
  BY <1>1, <1>3, <1>4

\* All of the namespace has been listed.
LEMMA EtcdListedSimulates ==
    ASSUME AllSupported, RInv, NEW c \in Callers, Uses("etcd"), AtKeys(c), MayLock(c),
           op[c].name \in ListCalls,
           Give(c, "ok", None, Listed(op[c].name, RecordsIn(data[op[c].ns]))), Unlock(c),
           UNCHANGED <<spaces, data, cache, dirty, indexed, row>>
    PROVE  Simulates(c)
<1>0. Locking /\ ~Uses("memory") /\ ~Uses("postgres")
  BY DEF Locking, Uses
<1>1. /\ pc[c] \notin {"idle", "CreateMany"} /\ op[c] # None /\ op[c].ns \in spaces
      /\ op[c].ns \in Namespaces /\ Place(op[c].ns) = op[c].ns /\ Types
  BY KeyCallFacts
<1>2. LockingStep(c)
  BY <1>1, RecordsStep DEF DataStep, Types
<1>3. Ends(c)
  BY ListEnds DEF Give
<1>4. RInv'
  BY <1>0, <1>1, <1>2, <1>3, LockingEnds
<1>5. Abstract!Serve(c)
  BY <1>1, <1>4, ServesList DEF RInv, CallIn
<1> QED
  BY <1>4, <1>5 DEF Simulates

\* A record less is a record less.
LEMMA TakenIs ==
    ASSUME Types, NEW n \in Namespaces, NEW k \in Keys
    PROVE  [data EXCEPT ![n][k] = Absent]
             = [data EXCEPT ![n] = [j \in Keys |-> IF j \in {k} THEN Absent ELSE data[n][j]]]
<1>1. data[n] \in [Keys -> Versions]
  BY DEF Types
<1>2. [data[n] EXCEPT ![k] = Absent] = [j \in Keys |-> IF j \in {k} THEN Absent ELSE data[n][j]]
  BY <1>1
<1> QED
  BY <1>2

\* A list that grows is not given yet.
LEMMA CollectsUnseen ==
    ASSUME Types, Types', NEW c \in Callers, op[c] # None, NEW g,
           got' = [got EXCEPT ![c] = g], UNCHANGED <<spaces, data, op, ans, copy>>
    PROVE  UNCHANGED AbsVars
<1>1. AbsDb' = AbsDb
  BY ThereIs, ThereIsPrimed
<1>2. \A d \in Callers \ {c} : got'[d] = got[d]
  BY DEF Types
<1>3. AbsGot' = AbsGot
  BY <1>2 DEF AbsGot
<1> QED
  BY <1>1, <1>3 DEF AbsVars

\* A call asks for the keys of its namespace.
LEMMA EtcdGetKeysSimulates ==
    ASSUME AllSupported, RInv, Lists, NEW c \in Callers, Uses("etcd"), EtcdGetKeys(c),
           UNCHANGED <<dirty, indexed, row>>
    PROVE  Simulates(c) \/ Halves(c)
<1> USE DEF EtcdGetKeys
<1>0. AtKeys(c) /\ MayLock(c)
  BY DEF AtKeys, KeyCalls
<1>1. /\ pc[c] \notin {"idle", "CreateMany"} /\ op[c].name \in KeyCalls
      /\ op[c] # None /\ op[c].ns \in spaces /\ op[c].ns \in Namespaces /\ Types
  BY <1>0, KeyCallFacts
<1>2. todo'[c] = KeysWithPrefix(op[c].ns)
  BY DEF Lists
<1>3. KeysWithPrefix(op[c].ns)
        = { i \in [ns : {op[c].ns}, key : Keys] : data[i.ns][i.key] # Absent }
  BY <1>1, KeysAre
<1>4. ASSUME todo'[c] = {} PROVE data[op[c].ns] = Empty
  <2>1. \A k \in Keys : [ns |-> op[c].ns, key |-> k] \notin todo'[c]
    BY <1>4
  <2>2. ASSUME NEW k \in Keys, data[op[c].ns][k] # Absent PROVE FALSE
    <3> DEFINE i == [ns |-> op[c].ns, key |-> k]
    <3>1. i \in [ns : {op[c].ns}, key : Keys] /\ data[i.ns][i.key] # Absent
      BY <2>2
    <3>2. i \in KeysWithPrefix(op[c].ns)
      BY <1>3, <3>1
    <3> QED
      BY <1>2, <2>1, <3>2
  <2>3. data[op[c].ns] \in [Keys -> Versions]
    BY <1>1 DEF Types
  <2> QED
    BY <2>2, <2>3 DEF Empty
<1>5. CASE todo'[c] = {} /\ op[c].name \in ListCalls
  <2>1. Give(c, "ok", None, {}) /\ Unlock(c)
    BY <1>5
  <2>2. RecordsIn(data[op[c].ns]) = {}
    BY <1>4, <1>5 DEF RecordsIn, Empty
  <2>3. Listed(op[c].name, RecordsIn(data[op[c].ns])) = {}
    BY <2>2 DEF Listed
  <2>4. Give(c, "ok", None, Listed(op[c].name, RecordsIn(data[op[c].ns])))
    BY <2>1, <2>3
  <2> QED
    BY <1>0, <1>5, <2>1, <2>4, EtcdListedSimulates
<1>6. CASE todo'[c] = {} /\ op[c].name \notin ListCalls
  <2>1. data' = [data EXCEPT ![op[c].ns] =
                    [k \in Keys |-> IF k \in {} THEN Absent ELSE data[op[c].ns][k]]]
    <3>1. data[op[c].ns] = [k \in Keys |-> IF k \in {} THEN Absent ELSE data[op[c].ns][k]]
      BY <1>1 DEF Types
    <3> QED
      BY <1>1, <3>1 DEF Types
  <2>2. data'[op[c].ns] = Empty /\ {} \in SUBSET Keys
    BY <1>4, <1>6
  <2>3. EtcdEmptied(c)
    BY <1>6
  <2> QED
    BY <1>0, <1>6, <2>1, <2>2, <2>3, EtcdEmptiedSimulates
<1>7. CASE todo'[c] # {}
  <2>1. GoTo(c, "NextKey") /\ Lock(c) /\ got' = [got EXCEPT ![c] = {}]
    BY <1>7
  <2>2. Collects(c, "NextKey")
    BY <2>1 DEF Collects
  <2>3. RInv'
    BY <1>0, <1>1, <2>1, <2>2, EtcdCollects DEF DataStep
  <2>4. UNCHANGED AbsVars
    BY <1>1, <2>1, <2>3, CollectsUnseen DEF RInv, GoTo
  <2> QED
    BY <2>3, <2>4 DEF Simulates
<1> QED
  BY <1>5, <1>6, <1>7

\* Who has the lock has it after taking it.
LEMMA HoldsLock ==
    ASSUME AllSupported, RInv, NEW c \in Callers, pc[c] # "idle", Holds(c), UNCHANGED lock
    PROVE  Lock(c)
  BY CallerFacts DEF Lock, Holds, Types

\* A call deletes a key.
LEMMA EtcdDeleteKeySimulates ==
    ASSUME AllSupported, RInv, Lists, NEW c \in Callers, Uses("etcd"), EtcdDeleteKey(c),
           UNCHANGED <<dirty, indexed, row>>
    PROVE  Simulates(c) \/ Halves(c)
<1> USE DEF EtcdDeleteKey
<1>0. AtKeys(c) /\ KeysLeft(c)
  BY DEF AtKeys, Lists
<1>1. /\ pc[c] \notin {"idle", "CreateMany"} /\ op[c].name \in KeyCalls
      /\ op[c] # None /\ op[c].ns \in spaces /\ op[c].ns \in Namespaces /\ Types
      /\ Holds(c) /\ MayLock(c)
  BY <1>0, KeyCallFacts
<1>2. PICK i \in todo[c] :
          /\ IF i.key = None
             THEN spaces' = spaces \ {i.ns} /\ UNCHANGED data
             ELSE data' = [data EXCEPT ![i.ns][i.key] = Absent] /\ UNCHANGED spaces
          /\ IF todo[c] = {i} THEN EtcdEmptied(c) ELSE GoTo(c, "NextKey") /\ UNCHANGED <<got, lock>>
  OBVIOUS
<1>3. i.ns = op[c].ns /\ i.key \in Keys
  BY <1>0 DEF KeysLeft
<1>4. i.key # None
  BY <1>3, BackendAssumption
<1>5. data' = [data EXCEPT ![op[c].ns][i.key] = Absent] /\ UNCHANGED spaces
  BY <1>2, <1>3, <1>4
<1>6. data' = [data EXCEPT ![op[c].ns] =
                  [k \in Keys |-> IF k \in {i.key} THEN Absent ELSE data[op[c].ns][k]]]
  BY <1>1, <1>3, <1>5, TakenIs
<1>7. {i.key} \in SUBSET Keys
  BY <1>3
<1>8. CASE todo[c] = {i}
  <2>1. \A k \in Keys : data[op[c].ns][k] # Absent => k = i.key
    <3>1. \A k \in Keys : [ns |-> op[c].ns, key |-> k] \in todo[c] => k = i.key
      BY <1>8
    <3> QED
      BY <1>0, <3>1 DEF KeysLeft
  <2>2. data'[op[c].ns] = [k \in Keys |-> IF k \in {i.key} THEN Absent ELSE data[op[c].ns][k]]
    BY <1>1, <1>6 DEF Types
  <2>3. data'[op[c].ns] = Empty
    BY <2>1, <2>2 DEF Empty
  <2>4. EtcdEmptied(c)
    BY <1>2, <1>8
  <2> QED
    BY <1>0, <1>1, <1>5, <1>6, <1>7, <2>3, <2>4, EtcdEmptiedSimulates
<1>9. CASE todo[c] # {i}
  <2>1. GoTo(c, "NextKey") /\ UNCHANGED <<got, lock>>
    BY <1>2, <1>9
  <2>2. Goes(c, "NextKey") /\ Lock(c)
    BY <1>1, <2>1, HoldsLock DEF Goes
  <2>3. DataStep(c)
    BY <1>1, <1>3, <1>5 DEF DataStep
  <2>4. RInv'
    BY <1>1, <1>5, <2>2, <2>3, EtcdCollects
  <2>5. AbsDb = [n \in spaces |-> data[n]] /\ AbsDb' = [n \in spaces |-> data'[n]]
    BY <1>1, <1>5, <2>4, ThereIs, ThereIsPrimed DEF RInv
  <2>6. op[c].name \in {"DeleteAllPrefixes", "DeleteNamespace"} /\ Typed
    BY <1>1 DEF KeyCalls, Types
  <2>7. UNCHANGED <<op, ans, copy>> /\ \A d \in Callers : op[d] = None => got'[d] = got[d]
    BY <2>1 DEF GoTo
  <2>8. Abstract!Serve(c)
    BY <1>1, <1>6, <1>7, <2>5, <2>6, <2>7, ServesTake
  <2> QED
    BY <2>4, <2>8 DEF Simulates
<1> QED
  BY <1>8, <1>9

\* A call reads a key.
LEMMA EtcdGetKeySimulates ==
    ASSUME AllSupported, RInv, Lists, NEW c \in Callers, Uses("etcd"), EtcdGetKey(c),
           UNCHANGED <<dirty, indexed, row>>
    PROVE  Simulates(c)
<1> USE DEF EtcdGetKey
<1>0. AtKeys(c) /\ KeysLeft(c)
  BY DEF AtKeys, Lists
<1>1. /\ pc[c] \notin {"idle", "CreateMany"} /\ op[c].name \in KeyCalls
      /\ op[c] # None /\ op[c].ns \in spaces /\ op[c].ns \in Namespaces /\ Types
      /\ Holds(c) /\ MayLock(c)
  BY <1>0, KeyCallFacts
<1> DEFINE Rest(i, version, list) ==
               IF version \in {None, Absent}
               THEN /\ Answer(c, IF version = None THEN "error" ELSE "panic")
                    /\ todo' = [todo EXCEPT ![c] = {}]
                    /\ Unlock(c)
               ELSE /\ Left(c, i)
                    /\ IF todo[c] = {i}
                       THEN Give(c, "ok", None, list) /\ Unlock(c)
                       ELSE /\ GoTo(c, "NextKey")
                            /\ got' = [got EXCEPT ![c] = list]
                            /\ UNCHANGED lock
<1>2. PICK i \in todo[c] :
          Rest(i, IF i.key = None THEN None ELSE data[i.ns][i.key],
               got[c] \cup Listed(op[c].name,
                   {[key |-> i.key, version |-> IF i.key = None THEN None ELSE data[i.ns][i.key]]}))
  OBVIOUS
<1>3. i.ns = op[c].ns /\ i.key \in Keys /\ i.key # None
  BY <1>0, BackendAssumption DEF KeysLeft
<1>4. data[i.ns][i.key] \notin {None, Absent}
  <2>1. data[i.ns][i.key] # Absent
    BY <1>0 DEF KeysLeft
  <2>2. data[i.ns][i.key] \in Nat
    BY <1>1, <1>3, <2>1 DEF Types, Versions
  <2> QED
    BY <2>1, <2>2, BackendAssumption
<1>5. PICK list : list = got[c] \cup Listed(op[c].name,
                             {[key |-> i.key, version |-> data[i.ns][i.key]]})
  OBVIOUS
<1>6. IF todo[c] = {i}
      THEN Give(c, "ok", None, list) /\ Unlock(c)
      ELSE GoTo(c, "NextKey") /\ got' = [got EXCEPT ![c] = list] /\ UNCHANGED lock
  BY <1>2, <1>3, <1>4, <1>5
<1>7. CASE todo[c] = {i}
  <2>1. list = Listed(op[c].name, RecordsIn(data[op[c].ns]))
    <3>1. RecordsOf({i}) = {[key |-> i.key, version |-> data[i.ns][i.key]]}
      BY DEF RecordsOf
    <3> QED
      BY <1>0, <1>1, <1>5, <1>7, <3>1 DEF KeysLeft, KeyCalls
  <2>2. Give(c, "ok", None, Listed(op[c].name, RecordsIn(data[op[c].ns]))) /\ Unlock(c)
    BY <1>6, <1>7, <2>1
  <2> QED
    BY <1>0, <1>1, <2>2, EtcdListedSimulates
<1>8. CASE todo[c] # {i}
  <2>1. GoTo(c, "NextKey") /\ got' = [got EXCEPT ![c] = list] /\ UNCHANGED lock
    BY <1>6, <1>8
  <2>2. Collects(c, "NextKey") /\ Lock(c)
    BY <1>1, <2>1, HoldsLock DEF Collects
  <2>3. RInv'
    BY <1>1, <2>2, EtcdCollects DEF DataStep
  <2>4. UNCHANGED AbsVars
    BY <1>1, <2>1, <2>3, CollectsUnseen DEF RInv, GoTo
  <2> QED
    BY <2>3, <2>4 DEF Simulates
<1> QED
  BY <1>7, <1>8

\* What a call has left, where nothing happens that it would see.
LEMMA KeysLeftKept ==
    ASSUME NEW d \in Callers, KeysLeft(d), op'[d] = op[d], todo'[d] = todo[d], got'[d] = got[d],
           \/ data' = data
           \/ /\ op[d].name \notin ListCalls
              /\ \A k \in Keys : data'[op[d].ns][k] # Absent => data[op[d].ns][k] # Absent
    PROVE  KeysLeft(d)'
<1>1. CASE data' = data
  BY <1>1 DEF KeysLeft, Listed, RecordsIn, RecordsOf
<1>2. CASE /\ op[d].name \notin ListCalls
           /\ \A k \in Keys : data'[op[d].ns][k] # Absent => data[op[d].ns][k] # Absent
  BY <1>2 DEF KeysLeft
<1> QED
  BY <1>1, <1>2

\* What every command of etcd does: it needs the lock, it is about its own call,
\* and no namespace comes but of a call that creates it.
EtcdActs(c) ==
    /\ pc[c] # "idle" /\ MayLock(c) /\ deployment' = deployment
    /\ Others(c) /\ \A d \in Callers \ {c} : got'[d] = got[d] /\ todo'[d] = todo[d]
    /\ todo' = [d \in Callers |-> todo'[d]]
    /\ \/ spaces' \subseteq spaces
       \/ op[c].name = "CreateNamespace" /\ spaces' = spaces \cup {op[c].ns}
    /\ pc'[c] = "NextKey" => EtcdGetKeys(c) \/ EtcdDeleteKey(c) \/ EtcdGetKey(c)
    /\ op[c].name \in KeyCalls => data' = data \/ EtcdDeleteKey(c)

\* An answer and the next command leave the other calls alone.
LEMMA OthersAlone ==
    ASSUME Types, NEW c \in Callers
    PROVE  /\ \A a, r, g : Give(c, a, r, g) =>
                  /\ deployment' = deployment /\ Others(c) /\ pc'[c] # "NextKey"
                  /\ \A d \in Callers \ {c} : got'[d] = got[d]
           /\ \A a : Answer(c, a) =>
                  /\ deployment' = deployment /\ Others(c) /\ pc'[c] # "NextKey"
                  /\ \A d \in Callers \ {c} : got'[d] = got[d]
           /\ \A version : GiveRecord(c, version) =>
                  /\ deployment' = deployment /\ Others(c) /\ pc'[c] # "NextKey"
                  /\ \A d \in Callers \ {c} : got'[d] = got[d]
           /\ \A next : GoTo(c, next) => deployment' = deployment /\ Others(c) /\ pc'[c] = next
<1>1. ASSUME NEW a, NEW r, NEW g, Give(c, a, r, g)
      PROVE  /\ deployment' = deployment /\ Others(c) /\ pc'[c] # "NextKey"
             /\ \A d \in Callers \ {c} : got'[d] = got[d]
  BY <1>1 DEF Types, Give, Others
<1>2. ASSUME NEW next, GoTo(c, next)
      PROVE  deployment' = deployment /\ Others(c) /\ pc'[c] = next
  BY <1>2 DEF Types, GoTo, Others
<1> QED
  BY <1>1, <1>2 DEF Answer, GiveRecord

\* And so it is.
LEMMA EtcdDoes ==
    ASSUME AllSupported, RInv, Lists, NEW c \in Callers, Uses("etcd"), EtcdStep(c)
    PROVE  EtcdActs(c)
<1>0. /\ Types /\ Shape(c) /\ todo = [d \in Callers |-> todo[d]] /\ ~Uses("postgres")
      /\ \A d \in Callers \ {c} : UNCHANGED got => got'[d] = got[d]
  BY DEF RInv, Lists, Uses
<1>1. ASSUME pc[c] \in {"CreatePut", "UpdatePut", "NextKey"}
      PROVE  pc[c] # "idle" /\ MayLock(c)
  BY <1>0, <1>1, MidHolds DEF MidCalls
<1> USE OthersAlone
<1>2. CASE EtcdCheckNamespace(c)
  BY <1>0, <1>2 DEF EtcdActs, EtcdCheckNamespace, CheckNamespaceLocked, CheckNamespace
<1>3. CASE EtcdCreateGet(c)
  BY <1>0, <1>3 DEF EtcdActs, EtcdCreateGet, Called
<1>4. CASE EtcdCreatePut(c)
  <2>1. op[c].name \notin KeyCalls
    BY <1>0, <1>4 DEF EtcdCreatePut, Shape, At, KeyCalls, ListCalls
  <2> QED
    BY <1>0, <1>1, <1>4, <2>1 DEF EtcdActs, EtcdCreatePut
<1>5. CASE EtcdReadPrefix(c)
  BY <1>0, <1>5 DEF EtcdActs, EtcdReadPrefix, Called
<1>6. CASE EtcdUpdateGet(c)
  BY <1>0, <1>6 DEF EtcdActs, EtcdUpdateGet, Called
<1>7. CASE EtcdUpdatePut(c)
  <2>1. op[c].name \notin KeyCalls
    BY <1>0, <1>7 DEF EtcdUpdatePut, Shape, At, KeyCalls, ListCalls
  <2> QED
    BY <1>0, <1>1, <1>7, <2>1 DEF EtcdActs, EtcdUpdatePut
<1>8. CASE EtcdDelete(c)
  BY <1>0, <1>8 DEF EtcdActs, EtcdDelete, Called, KeyCalls, ListCalls
<1>9. CASE EtcdGetKeys(c)
  <2>1. pc[c] # "idle" /\ MayLock(c) /\ UNCHANGED <<spaces, data>>
    BY <1>9 DEF EtcdGetKeys, Called
  <2>2. todo' = [d \in Callers |-> todo'[d]] /\ \A d \in Callers \ {c} : todo'[d] = todo[d]
    BY <1>0, <1>9 DEF EtcdGetKeys
  <2>3. \/ Give(c, "ok", None, {})
        \/ EtcdEmptied(c)
        \/ GoTo(c, "NextKey") /\ got' = [got EXCEPT ![c] = {}]
    BY <1>9 DEF EtcdGetKeys
  <2>4. /\ deployment' = deployment /\ Others(c)
        /\ \A d \in Callers \ {c} : got'[d] = got[d]
    <3>1. got' = [got EXCEPT ![c] = {}] => \A d \in Callers \ {c} : got'[d] = got[d]
      BY <1>0 DEF Types
    <3> QED
      BY <1>0, <2>3, <3>1 DEF EtcdEmptied
  <2> QED
    BY <1>9, <2>1, <2>2, <2>4 DEF EtcdActs
<1>10. CASE EtcdDeleteKey(c)
  <2>1. pc[c] = "NextKey" /\ MayLock(c) /\ pc[c] # "idle"
    BY <1>1, <1>10 DEF EtcdDeleteKey
  <2>2. PICK i \in todo[c] :
            /\ spaces' = spaces \ {i.ns} \/ UNCHANGED spaces
            /\ Left(c, i)
            /\ IF todo[c] = {i} THEN EtcdEmptied(c) ELSE GoTo(c, "NextKey") /\ UNCHANGED <<got, lock>>
    BY <1>10 DEF EtcdDeleteKey
  <2>3. /\ todo' = [d \in Callers |-> todo'[d]] /\ \A d \in Callers \ {c} : todo'[d] = todo[d]
        /\ spaces' \subseteq spaces
    BY <1>0, <2>2 DEF Left
  <2>4. /\ deployment' = deployment /\ Others(c)
        /\ \A d \in Callers \ {c} : got'[d] = got[d]
    BY <1>0, <2>2 DEF EtcdEmptied
  <2> QED
    BY <1>10, <2>1, <2>3, <2>4 DEF EtcdActs
<1>11. CASE EtcdGetKey(c)
  <2>1. pc[c] = "NextKey" /\ MayLock(c) /\ pc[c] # "idle" /\ UNCHANGED <<spaces, data>>
    BY <1>1, <1>11 DEF EtcdGetKey
  <2>2. \/ /\ todo' = [todo EXCEPT ![c] = {}]
           /\ \E a : Answer(c, a)
        \/ /\ \E i : Left(c, i)
           /\ \/ \E g : Give(c, "ok", None, g)
              \/ \E g : GoTo(c, "NextKey") /\ got' = [got EXCEPT ![c] = g]
    BY <1>11, Zenon DEF EtcdGetKey
  <2>3. todo' = [d \in Callers |-> todo'[d]] /\ \A d \in Callers \ {c} : todo'[d] = todo[d]
    BY <1>0, <2>2 DEF Left
  <2>4. /\ deployment' = deployment /\ Others(c)
        /\ \A d \in Callers \ {c} : got'[d] = got[d]
    <3>1. \A g : got' = [got EXCEPT ![c] = g] => \A d \in Callers \ {c} : got'[d] = got[d]
      BY <1>0 DEF Types
    <3> QED
      BY <1>0, <2>2, <3>1
  <2> QED
    BY <1>11, <2>1, <2>3, <2>4 DEF EtcdActs
<1>12. CASE EtcdForget(c)
  BY <1>0, <1>12 DEF EtcdActs, EtcdForget
<1>13. CASE EtcdCreateNamespace(c)
  BY <1>0, <1>13 DEF EtcdActs, EtcdCreateNamespace, Begins
<1>14. CASE EtcdListNamespaces(c)
  BY <1>0, <1>14 DEF EtcdActs, EtcdListNamespaces, Begins
<1> QED
  BY <1>2, <1>3, <1>4, <1>5, <1>6, <1>7, <1>8, <1>9, <1>10, <1>11, <1>12, <1>13, <1>14
  DEF EtcdStep

\* The others that go key by key see nothing of it, or a record less.
LEMMA KeysLeftOthers ==
    ASSUME AllSupported, RInv, Lists, NEW c \in Callers, Uses("etcd"), EtcdStep(c),
           NEW d \in Callers \ {c}, pc'[d] = "NextKey"
    PROVE  KeysLeft(d)'
<1>1. EtcdActs(c)
  BY EtcdDoes
<1>2. pc[d] = "NextKey" /\ op'[d] = op[d] /\ got'[d] = got[d] /\ todo'[d] = todo[d]
  BY <1>1 DEF EtcdActs, Others
<1>3. KeysLeft(d) /\ op[d].name \in KeyCalls /\ op[d].ns \in Namespaces /\ pc[d] \in MidCalls
  <2>1. Shape(d) /\ pc[d] # "idle"
    BY <1>2 DEF RInv
  <2> QED
    BY <1>2, <2>1, CallerFacts DEF Lists, Shape, At, KeyCalls, MidCalls
<1>4. Holds(d) /\ ~Uses("postgres")
  BY <1>3, MidHolds DEF Uses
<1>5. ProcessOf(c) = ProcessOf(d)
  <2>1. c \in DOMAIN deployment.processOf /\ d \in DOMAIN deployment.processOf
    BY <1>1, <1>2, CallerFacts DEF EtcdActs
  <2>2. OneProcess(deployment)
    BY DeploymentFacts DEF RInv, Supports, SupportsEtcd, Uses
  <2> QED
    BY <2>1, <2>2 DEF OneProcess, ProcessOf
<1>6. Shares(d)
  BY <1>1, <1>3, <1>4, <1>5, Excluded DEF EtcdActs
<1>7. Shares(c)
  <2>1. ~Shares(c) => lock[ProcessOf(c)] \subseteq {c}
    BY <1>1, WriterAlone DEF EtcdActs
  <2> QED
    BY <1>4, <1>5, <2>1 DEF Holds
<1>8. op[c].name \in KeyCalls /\ op[d].name \notin ListCalls
  BY <1>6, <1>7 DEF Shares, SharedCalls, Uses, KeyCalls, ListCalls
<1>9. CASE data' = data
  BY <1>2, <1>3, <1>9, KeysLeftKept
<1>10. CASE EtcdDeleteKey(c)
  <2>1. KeysLeft(c) /\ Types
    BY <1>10 DEF EtcdDeleteKey, Lists, RInv
  <2>2. PICK i \in todo[c] : data' = data \/ data' = [data EXCEPT ![i.ns][i.key] = Absent]
    BY <1>10 DEF EtcdDeleteKey
  <2>3. \A k \in Keys : data'[op[d].ns][k] # Absent => data[op[d].ns][k] # Absent
    <3>1. data[op[d].ns] \in [Keys -> Versions] /\ op[d].ns \in DOMAIN data
      BY <1>3, <2>1 DEF Types
    <3> QED
      BY <2>2, <3>1
  <2> QED
    BY <1>2, <1>3, <1>8, <2>3, KeysLeftKept
<1> QED
  BY <1>1, <1>8, <1>9, <1>10 DEF EtcdActs

\* The call itself has less left.
LEMMA KeysLeftOwn ==
    ASSUME AllSupported, RInv, Lists, NEW c \in Callers, Uses("etcd"), EtcdStep(c),
           pc'[c] = "NextKey"
    PROVE  KeysLeft(c)'
<1>1. EtcdActs(c)
  BY EtcdDoes
<1>2. Types /\ todo = [d \in Callers |-> todo[d]]
  BY DEF RInv, Lists
<1>3. CASE EtcdGetKeys(c)
  <2>1. op[c].name \in KeyCalls /\ op[c].ns \in Namespaces
    BY <1>1, <1>3, CallerFacts DEF EtcdGetKeys, Called, KeyCalls, EtcdActs
  <2>2. todo'[c] = { i \in [ns : {op[c].ns}, key : Keys] : data[i.ns][i.key] # Absent }
    BY <1>1, <1>2, <1>3, <2>1, KeysAre DEF EtcdGetKeys, EtcdActs
  <2>3. GoTo(c, "NextKey") /\ got' = [got EXCEPT ![c] = {}] /\ data' = data
    <3>1. ~Give(c, "ok", None, {}) /\ ~EtcdEmptied(c)
      BY <1>2, OthersAlone DEF EtcdEmptied
    <3> QED
      BY <1>3, <3>1 DEF EtcdGetKeys
  <2>4. got'[c] = {} /\ op'[c] = op[c]
    BY <1>2, <2>3 DEF Types, GoTo
  <2>5. RecordsOf(todo'[c]) = RecordsIn(data[op[c].ns])
    <3> DEFINE n == op[c].ns
    <3>1. ASSUME NEW r
          PROVE  r \in RecordsIn(data[n]) <=>
                     \E k \in Keys : data[n][k] # Absent /\ r = [key |-> k, version |-> data[n][k]]
      BY DEF RecordsIn
    <3>2. ASSUME NEW r
          PROVE  r \in RecordsOf(todo'[c]) <=>
                     \E i \in todo'[c] : r = [key |-> i.key, version |-> data[i.ns][i.key]]
      BY DEF RecordsOf
    <3>3. ASSUME NEW k \in Keys, data[n][k] # Absent
          PROVE  [ns |-> n, key |-> k] \in todo'[c]
      BY <2>2, <3>3
    <3>4. ASSUME NEW i \in todo'[c]
          PROVE  i.ns = n /\ i.key \in Keys /\ data[n][i.key] # Absent
      BY <2>2
    <3> HIDE DEF n
    <3>5. ASSUME NEW r PROVE r \in RecordsOf(todo'[c]) <=> r \in RecordsIn(data[n])
      <4>1. CASE r \in RecordsOf(todo'[c])
        <5>1. PICK i \in todo'[c] : r = [key |-> i.key, version |-> data[i.ns][i.key]]
          BY <3>2, <4>1
        <5>2. i.ns = n /\ i.key \in Keys /\ data[n][i.key] # Absent
          BY <3>4
        <5>3. r = [key |-> i.key, version |-> data[n][i.key]]
          BY <5>1, <5>2
        <5> QED
          BY <3>1, <4>1, <5>2, <5>3
      <4>2. CASE r \in RecordsIn(data[n])
        <5>1. PICK k \in Keys : data[n][k] # Absent /\ r = [key |-> k, version |-> data[n][k]]
          BY <3>1, <4>2
        <5>2. PICK i : i = [ns |-> n, key |-> k]
          OBVIOUS
        <5>3. i \in todo'[c] /\ i.ns = n /\ i.key = k
          BY <3>3, <5>1, <5>2
        <5> QED
          BY <3>2, <4>2, <5>1, <5>3
      <4> QED
        BY <4>1, <4>2
    <3>6. RecordsOf(todo'[c]) = RecordsIn(data[n])
      BY <3>5
    <3> QED
      BY <3>6 DEF n
  <2>6. RecordsOf(todo[c])' = RecordsOf(todo'[c]) /\ RecordsIn(data[op[c].ns])' = RecordsIn(data[op[c].ns])
    BY <2>3, <2>4 DEF RecordsOf, RecordsIn
  <2>8. \A i \in todo'[c] : data[i.ns][i.key] # Absent
    BY <2>2
  <2>9. todo'[c] \subseteq [ns : {op[c].ns}, key : Keys]
    BY <2>2
  <2>10. \A k \in Keys : data[op[c].ns][k] # Absent => [ns |-> op[c].ns, key |-> k] \in todo'[c]
    BY <2>2
  <2> QED
    BY <2>3, <2>4, <2>5, <2>6, <2>8, <2>9, <2>10 DEF KeysLeft, Listed
<1>4. CASE EtcdDeleteKey(c)
  <2>1. KeysLeft(c) /\ op[c].name \in KeyCalls /\ op[c].ns \in Namespaces /\ op[c].name \notin ListCalls
    BY <1>1, <1>4, CallerFacts DEF EtcdDeleteKey, EtcdActs, Lists, RInv, Shape, At, KeyCalls
  <2>2. PICK i \in todo[c] :
            /\ i.key # None => data' = [data EXCEPT ![i.ns][i.key] = Absent]
            /\ Left(c, i)
            /\ IF todo[c] = {i} THEN EtcdEmptied(c) ELSE GoTo(c, "NextKey") /\ UNCHANGED <<got, lock>>
    BY <1>4 DEF EtcdDeleteKey
  <2>3. GoTo(c, "NextKey")
    <3>1. ~EtcdEmptied(c)
      BY <1>2, OthersAlone DEF EtcdEmptied
    <3> QED
      BY <2>2, <3>1
  <2>4. op' = op /\ todo'[c] = todo[c] \ {i}
    BY <1>2, <2>2, <2>3 DEF GoTo, Left
  <2>5. i.ns = op[c].ns /\ i.key \in Keys /\ i.key # None
    BY <2>1, BackendAssumption DEF KeysLeft
  <2>6. /\ data[op[c].ns] \in [Keys -> Versions] /\ op[c].ns \in DOMAIN data
        /\ data' = [data EXCEPT ![op[c].ns][i.key] = Absent]
    BY <1>2, <2>1, <2>2, <2>5 DEF Types
  <2>7. \A k \in Keys : data'[op[c].ns][k] # Absent => data[op[c].ns][k] # Absent /\ k # i.key
    BY <2>5, <2>6
  <2>8. \A k \in Keys : data'[op[c].ns][k] # Absent => [ns |-> op[c].ns, key |-> k] \in todo'[c]
    <3>1. \A k \in Keys : [ns |-> op[c].ns, key |-> k] = i => k = i.key
      OBVIOUS
    <3> QED
      BY <2>1, <2>4, <2>7, <3>1 DEF KeysLeft
  <2> QED
    BY <2>1, <2>4, <2>8 DEF KeysLeft
<1>5. CASE EtcdGetKey(c)
  <2>1. KeysLeft(c) /\ op[c].name \in ListCalls /\ data' = data
    BY <1>5 DEF EtcdGetKey, Lists
  <2>2. \A a, g : ~Answer(c, a) /\ ~Give(c, "ok", None, g)
    BY <1>2, OthersAlone
  <2>3. PICK i \in todo[c] :
            LET version == IF i.key = None THEN None ELSE data[i.ns][i.key]
                list    == got[c] \cup Listed(op[c].name, {[key |-> i.key, version |-> version]})
            IN  Left(c, i) /\ GoTo(c, "NextKey") /\ got' = [got EXCEPT ![c] = list]
    BY <1>5, <2>2 DEF EtcdGetKey
  <2>4. i.key # None
    BY <2>1, BackendAssumption DEF KeysLeft
  <2>5. /\ op' = op /\ todo'[c] = todo[c] \ {i}
        /\ got'[c] = got[c] \cup Listed(op[c].name, {[key |-> i.key, version |-> data[i.ns][i.key]]})
    BY <1>2, <2>3, <2>4 DEF GoTo, Left, Types
  <2>6. RecordsOf(todo[c]) = {[key |-> i.key, version |-> data[i.ns][i.key]]} \cup RecordsOf(todo'[c])
    BY <2>5 DEF RecordsOf
  <2>7. \A R, S : Listed(op[c].name, R \cup S) = Listed(op[c].name, R) \cup Listed(op[c].name, S)
    <3>1. \A R, S : { r.key : r \in R \cup S } = { r.key : r \in R } \cup { r.key : r \in S }
      OBVIOUS
    <3> QED
      BY <3>1 DEF Listed
  <2>8. Listed(op[c].name, RecordsOf(todo[c]))
          = Listed(op[c].name, {[key |-> i.key, version |-> data[i.ns][i.key]]})
              \cup Listed(op[c].name, RecordsOf(todo'[c]))
    BY <2>6, <2>7
  <2>9. Listed(op[c].name, RecordsIn(data[op[c].ns]))
          = got'[c] \cup Listed(op[c].name, RecordsOf(todo'[c]))
    BY <2>1, <2>5, <2>8 DEF KeysLeft
  <2>10. RecordsOf(todo[c])' = RecordsOf(todo'[c]) /\ RecordsIn(data[op[c].ns])' = RecordsIn(data[op[c].ns])
    BY <2>1, <2>5 DEF RecordsOf, RecordsIn
  <2>11. /\ todo'[c] \subseteq [ns : {op[c].ns}, key : Keys]
         /\ \A j \in todo'[c] : data[j.ns][j.key] # Absent
    BY <2>1, <2>5 DEF KeysLeft
  <2> QED
    BY <2>1, <2>5, <2>9, <2>10, <2>11 DEF KeysLeft, Listed
<1> QED
  BY <1>1, <1>3, <1>4, <1>5 DEF EtcdActs

\* After every command of etcd.
LEMMA ListsStep ==
    ASSUME AllSupported, RInv, Lists, NEW c \in Callers, Uses("etcd"), EtcdStep(c)
    PROVE  Lists'
<1>1. EtcdActs(c)
  BY EtcdDoes
<1>2. spaces' \subseteq deployment'.names \cup {Root}
  <2>1. spaces \subseteq deployment.names \cup {Root}
    BY DEF Lists
  <2>2. op[c].name = "CreateNamespace" => op[c].ns \in deployment.names
    BY <1>1, CallerFacts DEF EtcdActs, Shape, NamespaceCalls
  <2> QED
    BY <1>1, <2>1, <2>2 DEF EtcdActs
<1>3. ASSUME NEW d \in Callers, pc'[d] = "NextKey" PROVE KeysLeft(d)'
  BY <1>3, KeysLeftOwn, KeysLeftOthers
<1> QED
  BY <1>1, <1>2, <1>3 DEF Lists, EtcdActs

\* After a call has begun.
LEMMA ListsCall ==
    ASSUME RInv, Lists, NEW c \in Callers, Call(c)
    PROVE  Lists'
<1>1. Types /\ UNCHANGED <<deployment, spaces, data, todo>>
  BY DEF RInv, Call
<1>2. pc'[c] = "called" /\ \A d \in Callers \ {c} : pc'[d] = pc[d] /\ op'[d] = op[d] /\ got'[d] = got[d]
  BY <1>1 DEF Types, Call
<1>3. ASSUME Uses("etcd"), NEW d \in Callers, pc'[d] = "NextKey" PROVE KeysLeft(d)'
  BY <1>1, <1>2, <1>3, KeysLeftKept DEF Lists
<1> QED
  BY <1>1, <1>3 DEF Lists, Uses

\* After a process has stopped.
LEMMA ListsStop ==
    ASSUME Lists, pc = [d \in Callers |-> pc[d]], NEW p \in Processes, Stop(p), UNCHANGED <<spaces, data>>
    PROVE  Lists'
<1>1. /\ UNCHANGED deployment /\ todo' = [d \in Callers |-> todo'[d]]
      /\ \A d \in Callers \ CallersOf(p) :
             pc'[d] = pc[d] /\ op'[d] = op[d] /\ got'[d] = got[d] /\ todo'[d] = todo[d]
      /\ \A d \in Callers \cap CallersOf(p) : pc'[d] = "idle"
  BY DEF Stop
<1>2. ASSUME Uses("etcd"), NEW d \in Callers, pc'[d] = "NextKey" PROVE KeysLeft(d)'
  BY <1>1, <1>2, KeysLeftKept DEF Lists
<1> QED
  BY <1>1, <1>2 DEF Lists, Uses

\* After the second half of a DeleteNamespace.
LEMMA ListsHalfway ==
    ASSUME Lists, NEW c \in Callers, Halfway(c), NEW d \in Callers, Step(d)
    PROVE  Lists'
<1>1. d = c /\ pc[c] = "Forget"
  <2>1. pc[d] # "idle"
    BY IdleSendsNothing DEF Step, Halfway, Uses
  <2> QED
    BY <2>1 DEF Halfway
<1>2. CASE Uses("etcd")
  <2>1. EtcdForget(c)
    BY <1>1, <1>2, OnlyForget DEF Step, Uses
  <2>2. /\ UNCHANGED <<deployment, todo>> /\ spaces' \subseteq spaces
        /\ pc' = [pc EXCEPT ![c] = "idle"]
    BY <2>1 DEF EtcdForget, Answer, Give
  <2>3. \A e \in Callers : pc'[e] = "idle"
    BY <2>2 DEF Halfway
  <2>4. /\ todo = [e \in Callers |-> todo[e]]
        /\ spaces \subseteq deployment.names \cup {Root}
    BY <1>2 DEF Lists
  <2>5. todo' = [e \in Callers |-> todo'[e]] /\ spaces' \subseteq deployment'.names \cup {Root}
    BY <2>2, <2>4
  <2>6. \A e \in Callers : pc'[e] # "NextKey"
    BY <2>3
  <2> QED
    BY <2>5, <2>6 DEF Lists
<1>3. CASE ~Uses("etcd")
  <2>1. UNCHANGED deployment
    BY <1>1, <1>3, OnlyForget
    DEF Step, Halfway, Uses, RedisSRem, SqlForget, Answer, Give
  <2> QED
    BY <1>3, <2>1 DEF Lists, Uses
<1> QED
  BY <1>2, <1>3

\* Every command of etcd.
LEMMA EtcdSimulates ==
    ASSUME AllSupported, RInv, Lists, NEW c \in Callers, Uses("etcd"), EtcdStep(c),
           UNCHANGED <<dirty, indexed, row>>
    PROVE  Simulates(c) \/ Halves(c)
<1>0. Locking /\ Types /\ ~Uses("memory") /\ ~Uses("postgres")
  BY DEF Locking, RInv, Uses
<1>1. CASE EtcdCheckNamespace(c)
  BY <1>0, <1>1, LockingCheck DEF EtcdCheckNamespace
<1>2. CASE EtcdCreateGet(c)
  BY <1>0, <1>2, LockingFind DEF EtcdCreateGet, Goes
<1>3. CASE EtcdCreatePut(c)
  <2>1. pc[c] \in MidCalls /\ pc[c] = "CreatePut"
    BY <1>3 DEF EtcdCreatePut, MidCalls
  <2>2. Stored(c) = Absent
    BY <2>1, MidFacts DEF Pending
  <2>3. dirty' \in [Callers -> BOOLEAN]
    BY <1>0 DEF Types
  <2> QED
    BY <1>0, <1>3, <2>2, <2>3, LockingInsert DEF EtcdCreatePut
<1>4. CASE EtcdReadPrefix(c)
  BY <1>0, <1>4, LockingRead DEF EtcdReadPrefix
<1>5. CASE EtcdUpdateGet(c)
  BY <1>5, EtcdUpdateGetSimulates
<1>6. CASE EtcdUpdatePut(c)
  <2>1. pc[c] \in MidCalls /\ pc[c] = "UpdatePut"
    BY <1>6 DEF EtcdUpdatePut, MidCalls
  <2>2. /\ Stored(c) = op[c].version /\ op[c].name = "UpdatePrefix" /\ op[c].ns \in spaces
        /\ MayLock(c)
    BY <1>0, <2>1, MidFacts, MidHolds DEF Pending, Shape, At
  <2>3. dirty' \in [Callers -> BOOLEAN] /\ pc[c] \notin {"idle", "CreateMany"}
    BY <1>0, <2>1 DEF Types
  <2> QED
    BY <1>0, <1>6, <2>2, <2>3, LockingUpdate DEF EtcdUpdatePut
<1>7. CASE EtcdDelete(c)
  <2>1. dirty' \in [Callers -> BOOLEAN]
    BY <1>0 DEF Types
  <2> QED
    BY <1>0, <1>7, <2>1, LockingDelete DEF EtcdDelete
<1>8. CASE EtcdGetKeys(c)
  BY <1>8, EtcdGetKeysSimulates
<1>9. CASE EtcdDeleteKey(c)
  BY <1>9, EtcdDeleteKeySimulates
<1>10. CASE EtcdGetKey(c)
  BY <1>10, EtcdGetKeySimulates
<1>11. CASE EtcdCreateNamespace(c)
  BY <1>0, <1>11, LockingCreateNamespace DEF EtcdCreateNamespace
<1>12. CASE EtcdListNamespaces(c)
  BY <1>0, <1>12, LockingListNamespaces DEF EtcdListNamespaces
<1>13. ~EtcdForget(c)
  BY <1>0 DEF EtcdForget, Types, PCs, MidCalls, FileCalls, Loads, Saves
<1> QED
  BY <1>1, <1>2, <1>3, <1>4, <1>5, <1>6, <1>7, <1>8, <1>9, <1>10, <1>11, <1>12, <1>13
  DEF EtcdStep

-----------------------------------------------------------------------------
(***************************************************************************)
(* mongodb.                                                                *)
(***************************************************************************)
\* A record is inserted, unless it is there.
LEMMA MongoInsertOneSimulates ==
    ASSUME AllSupported, RInv, NEW c \in Callers, Uses("mongodb"), MongoInsertOne(c),
           UNCHANGED <<dirty, row>>
    PROVE  Simulates(c)
<1> USE DEF MongoInsertOne
<1>0. Locking /\ ~Uses("postgres") /\ pc[c] \in MidCalls /\ "CreatePrefix" \in PrefixCalls
  BY DEF Locking, Uses, MidCalls, PrefixCalls
<1>1. /\ pc[c] # "idle" /\ op[c] # None /\ op[c].ns \in spaces /\ op[c].ns \in Namespaces
      /\ op[c].name \in PrefixCalls => op[c].key \in Keys
      /\ Place(op[c].ns) = op[c].ns /\ Types /\ Shape(c)
  BY <1>0, MidFacts
<1>2. op[c].name = "CreatePrefix" /\ MayLock(c) /\ dirty' \in [Callers -> BOOLEAN]
      /\ (op[c].ns \notin indexed => Stored(c) = Absent)
  BY <1>0, <1>1, MidFacts, MidHolds DEF Shape, At, Types, Pending
<1>3. spaces' = spaces
  BY <1>1
<1>4. CASE Stored(c) = Absent
  BY <1>0, <1>2, <1>3, <1>4, LockingInsert
<1>5. CASE Stored(c) # Absent
  <2>1. LockingStep(c)
    BY <1>1, <1>2, <1>3, <1>5, RecordsStep DEF DataStep
  <2>2. RInv'
    BY <1>0, <1>1, <1>2, <1>5, <2>1, AnswerEnds, LockingEnds
  <2>3. Abstract!Serve(c)
    BY <1>0, <1>1, <1>2, <1>3, <1>5, <2>2, ServesCreate DEF RInv, RecordCall, CallIn
  <2> QED
    BY <2>2, <2>3 DEF Simulates
<1> QED
  BY <1>4, <1>5

\* A collection is made, unless it is there.
LEMMA MongoCreateCollectionSimulates ==
    ASSUME AllSupported, RInv, NEW c \in Callers, Uses("mongodb"), MongoCreateCollection(c),
           UNCHANGED <<dirty, row>>
    PROVE  Simulates(c)
<1> USE DEF MongoCreateCollection
<1>0. Locking /\ ~Uses("memory") /\ ~Uses("postgres")
  BY DEF Locking, Uses
<1>1. /\ pc[c] = "called" /\ pc[c] # "idle" /\ op[c].name = "CreateNamespace"
      /\ op[c] # None /\ op[c].ns \in Namespaces /\ Types /\ dirty' \in [Callers -> BOOLEAN]
  BY CallerFacts DEF Begins, Types
<1>2. /\ op[c].ns \notin spaces => data[op[c].ns] = Empty
      /\ Place(op[c].ns) = op[c].ns /\ (Known(c) => op[c].ns \in spaces)
  BY <1>0, <1>1, NewNamespace
<1>3. CASE op[c].ns \in spaces
  <2>1. Answer(c, "ok") /\ spaces' = spaces /\ Unlock(c)
    BY <1>1, <1>3, SoleUnlock
  <2>2. LockingStep(c)
    BY <1>1, <2>1, RecordsStep DEF DataStep
  <2>3. RInv'
    BY <1>0, <1>1, <2>1, <2>2, AnswerEnds, LockingEnds
  <2>4. spaces' = spaces \cup {op[c].ns}
    BY <1>3, <2>1
  <2>5. Abstract!Serve(c)
    BY <1>1, <1>2, <2>1, <2>3, <2>4, ServesCreateNamespace DEF RInv
  <2> QED
    BY <2>3, <2>5 DEF Simulates
<1>4. CASE op[c].ns \notin spaces
  <2>1. Goes(c, "CreateMany") /\ Lock(c) /\ spaces' = spaces \cup {op[c].ns}
    BY <1>2, <1>4 DEF Goes
  <2>2. "CreateMany" \in MidCalls
    BY DEF MidCalls
  <2>3. op' = op /\ pc'[c] = "CreateMany"
    BY <1>1, <2>1, <2>2, GoesOK
  <2>4. IndexStep(c)
    BY <1>1, <2>1, <2>3 DEF IndexStep, Types
  <2>5. LockingStep(c)
    BY <1>1, <1>2, <2>1, <2>4 DEF LockingStep, DataStep, SpacesStep, CacheStep
  <2>6. Shape(c)'
    BY <1>0, <1>1, <2>1, <2>2, ShapeGoes
  <2>7. Pending(c)'
    BY <2>3 DEF Pending
  <2>8. RInv'
    BY <1>0, <1>1, <2>1, <2>2, <2>5, <2>6, <2>7, LockingGoes
  <2>9. Abstract!Serve(c)
    BY <1>1, <1>2, <2>1, <2>8, ServesCreateNamespace DEF RInv, Goes, GoTo
  <2> QED
    BY <2>8, <2>9 DEF Simulates
<1> QED
  BY <1>3, <1>4

\* The index is made.
LEMMA MongoCreateManySimulates ==
    ASSUME AllSupported, RInv, NEW c \in Callers, Uses("mongodb"), MongoCreateMany(c),
           UNCHANGED <<dirty, row>>
    PROVE  Simulates(c)
<1> USE DEF MongoCreateMany
<1>0. Locking /\ ~Uses("postgres") /\ pc[c] \in MidCalls
  BY DEF Locking, Uses, MidCalls
<1>1. /\ pc[c] # "idle" /\ op[c] # None /\ op[c].ns \in spaces /\ op[c].ns \in Namespaces
      /\ Types /\ op[c].name = "CreateNamespace" /\ MayLock(c)
      /\ dirty' \in [Callers -> BOOLEAN] /\ spaces' = spaces
  BY <1>0, MidFacts, MidHolds DEF Shape, At, Types
<1>2. {op[c].ns} \in SUBSET spaces'
  BY <1>1
<1>3. IndexStep(c)
  BY <1>1 DEF IndexStep, Types
<1>4. LockingStep(c)
  BY <1>1, <1>2, <1>3 DEF LockingStep, DataStep, SpacesStep, CacheStep
<1>5. RInv'
  BY <1>0, <1>1, <1>4, AnswerEnds, LockingEnds
<1>6. Abstract!Serve(c)
  BY <1>1, <1>5, ServesCreateNamespace DEF RInv
<1> QED
  BY <1>5, <1>6 DEF Simulates

\* Every command of mongodb.
LEMMA MongoSimulates ==
    ASSUME AllSupported, RInv, NEW c \in Callers, Uses("mongodb"), MongoStep(c),
           UNCHANGED <<dirty, row>>
    PROVE  Simulates(c)
<1>0. /\ Locking /\ Types /\ ~Uses("memory") /\ "DeleteNamespace" \notin deployment.calls
      /\ dirty' \in [Callers -> BOOLEAN]
  BY DeploymentFacts DEF Locking, RInv, Supports, SupportsMongodb, Uses, Types
<1>1. CASE MongoCheckNamespace(c)
  BY <1>0, <1>1, LockingCheck DEF MongoCheckNamespace
<1>2. CASE MongoFindOne(c)
  BY <1>0, <1>2, LockingFind DEF MongoFindOne, Goes
<1>3. CASE MongoInsertOne(c)
  BY <1>3, MongoInsertOneSimulates
<1>4. CASE MongoReadPrefix(c)
  BY <1>0, <1>4, LockingRead DEF MongoReadPrefix
<1>5. CASE MongoReplaceOne(c)
  <2>1. pc[c] \notin {"idle", "CreateMany"} /\ op[c].name = "UpdatePrefix" /\ op[c].ns \in spaces
    BY <1>0, <1>5, CalledFacts DEF MongoReplaceOne
  <2> QED
    BY <1>0, <1>5, <2>1, LockingUpdate DEF MongoReplaceOne
<1>6. CASE MongoFindOneAndDelete(c)
  BY <1>0, <1>6, LockingDelete DEF MongoFindOneAndDelete
<1>7. CASE MongoFindAll(c)
  BY <1>0, <1>7, LockingList DEF MongoFindAll
<1>8. CASE MongoDeleteMany(c)
  BY <1>0, <1>8, LockingDeleteAll DEF MongoDeleteMany
<1>9. CASE MongoCreateCollection(c)
  BY <1>9, MongoCreateCollectionSimulates
<1>10. CASE MongoCreateMany(c)
  BY <1>10, MongoCreateManySimulates
<1>11. CASE MongoListNamespaces(c)
  <2>1. Unlock(c)
    BY <1>11, SoleUnlock DEF MongoListNamespaces, Begins
  <2> QED
    BY <1>0, <1>11, <2>1, LockingListNamespaces DEF MongoListNamespaces
<1>12. ~MongoDrop(c)
  BY <1>0, CallerFacts DEF MongoDrop, Called
<1> QED
  BY <1>1, <1>2, <1>3, <1>4, <1>5, <1>6, <1>7, <1>8, <1>9, <1>10, <1>11, <1>12 DEF MongoStep

-----------------------------------------------------------------------------
(***************************************************************************)
(* postgres.                                                               *)
(***************************************************************************)
\* Nobody has a lock that nobody takes.
LEMMA LocksFree ==
    ASSUME RInv, Uses("memory") \/ Uses("postgres"), deployment' = deployment, lock' = lock,
           \A d \in Callers : Shape(d)'
    PROVE  Locks' /\ lock' \in [Processes -> SUBSET Callers]
<1>1. \A p \in Processes : lock'[p] = {}
  BY DEF RInv, Locks
<1>2. lock' \in [Processes -> SUBSET Callers]
  BY DEF RInv, Types
<1>3. \A d \in Callers : pc'[d] \in MidCalls => Uses("postgres")'
  BY DEF Shape, Uses
<1>4. \A d \in Callers : d \in DOMAIN deployment.processOf => ProcessOf(d) \in Processes
  BY BackendAssumption DEF RInv, Types, ProcessOf
<1>5. \A d \in Callers : d \in DOMAIN deployment.processOf => ~Holds(d)'
  BY <1>1, <1>4 DEF Holds, ProcessOf
<1> QED
  BY <1>1, <1>2, <1>3, <1>5 DEF Locks, Uses

\* A row that another transaction has locked stays locked and as it is.
RowsKept(c) ==
    \A n \in Namespaces, k \in Keys :
        row[n][k] \notin {c, None} => row'[n][k] = row[n][k] /\ data'[n][k] = data[n][k]

SqlRest(c) ==
    /\ DataStep(c) /\ SpacesStep(c) /\ CacheStep(c) /\ RowsKept(c)
    /\ row' \in [Namespaces -> [Keys -> Callers \cup {None}]]
    /\ UNCHANGED <<lock, dirty, indexed>>

\* What a transaction has found stays so.
LEMMA PendingBehindRow ==
    ASSUME AllSupported, RInv, NEW c \in Callers, Others(c), Uses("postgres"), RowsKept(c),
           NEW d \in Callers \ {c}
    PROVE  Pending(d)'
<1>1. pc'[d] = pc[d] /\ op'[d] = op[d] /\ Shape(d) /\ Pending(d)
  BY DEF Others, RInv
<1>2. pc[d] \notin {"HSet", "HGet", "Exec", "InsertOne", "CreatePut", "UpdatePut"}
  BY <1>1 DEF Shape, At, Uses
<1>3. CASE pc[d] \in {"Update", "Commit"}
  <2>1. pc[d] \in MidCalls
    BY <1>3 DEF MidCalls
  <2>2. op[d].ns \in Namespaces /\ op[d].key \in Keys /\ row[op[d].ns][op[d].key] = d
    BY <1>1, <1>3, <2>1, MidFacts DEF Shape, At, PrefixCalls, Pending
  <2>3. d \notin {c, None}
    BY BackendAssumption
  <2>4. /\ row'[op[d].ns][op[d].key] = row[op[d].ns][op[d].key]
        /\ data'[op[d].ns][op[d].key] = data[op[d].ns][op[d].key]
    BY <2>2, <2>3 DEF RowsKept
  <2> QED
    BY <1>1, <1>2, <2>2, <2>4 DEF Pending
<1>4. CASE pc[d] \notin {"Update", "Commit"}
  BY <1>1, <1>2, <1>4 DEF Pending
<1> QED
  BY <1>3, <1>4

\* What is left to show of a step.
LEMMA SqlStepOK ==
    ASSUME AllSupported, RInv, NEW c \in Callers, pc[c] # "idle", Uses("postgres"), SqlRest(c),
           \/ Ends(c)
           \/ (\E next \in MidCalls : Goes(c, next)) /\ Shape(c)' /\ Pending(c)'
    PROVE  RInv'
<1> USE DEF SqlRest
<1>1. ~Uses("memory") /\ ~Uses("mongodb") /\ Types
  BY DEF Uses, RInv
<1>2. /\ deployment' \in Deployments /\ deployment' = deployment
      /\ op' \in [Callers -> Operations \cup {None}]
      /\ pc' \in [Callers -> PCs]
      /\ copy' \in [Callers -> Copies \cup {None}]
      /\ got' = [d \in Callers |-> got'[d]]
      /\ Others(c)
  BY <1>1, EndsOK, GoesOK
<1>3. Shape(c)' /\ Pending(c)'
  BY <1>1, EndsOK, ShapeIdle
<1>4. /\ spaces' \in SUBSET Namespaces /\ spaces \subseteq spaces'
      /\ data' \in [Namespaces -> [Keys -> Versions]]
      /\ cache' \in [Processes -> SUBSET Namespaces]
      /\ Spaces'
  BY <1>1, <1>2, DatabaseOK
<1>5. \A d \in Callers \ {c} : Shape(d)' /\ Pending(d)'
  BY <1>2, <1>4, ShapeOthers, PendingBehindRow
<1>6. Locks' /\ lock' \in [Processes -> SUBSET Callers]
  BY <1>2, <1>3, <1>5, LocksFree
<1>7. Indexes'
  BY <1>1, <1>2 DEF Indexes, Uses
<1>8. Types'
  BY <1>1, <1>2, <1>4, <1>6 DEF Types
<1> QED
  BY <1>3, <1>4, <1>5, <1>6, <1>7, <1>8 DEF RInv

\* Nothing but the state of the caller changes.
LEMMA SqlNothing ==
    ASSUME Types, NEW c \in Callers, UNCHANGED <<spaces, data, cache, lock, row, dirty, indexed>>
    PROVE  SqlRest(c)
  BY DEF Types, SqlRest, DataStep, SpacesStep, CacheStep, RowsKept

\* A row is locked or unlocked by the transaction that may.
LEMMA RowSet ==
    ASSUME Types, NEW c \in Callers, NEW h \in {c, None},
           op[c].ns \in Namespaces, op[c].key \in Keys, Table(c) = op[c].ns,
           row[op[c].ns][op[c].key] \in {c, None}, SetRow(c, h)
    PROVE  /\ row' \in [Namespaces -> [Keys -> Callers \cup {None}]]
           /\ row'[op[c].ns][op[c].key] = h
           /\ \A n \in Namespaces, k \in Keys :
                  row[n][k] \notin {c, None} =>
                      row'[n][k] = row[n][k] /\ (n # op[c].ns \/ k # op[c].key)
<1> DEFINE n0 == op[c].ns
           k0 == op[c].key
<1>1. /\ row \in [Namespaces -> [Keys -> Callers \cup {None}]]
      /\ row' = [row EXCEPT ![n0][k0] = h]
      /\ n0 \in Namespaces /\ k0 \in Keys /\ row[n0][k0] \in {c, None}
  BY DEF Types, SetRow
<1> HIDE DEF n0, k0
<1>2. [row[n0] EXCEPT ![k0] = h] \in [Keys -> Callers \cup {None}]
  BY <1>1
<1>3. row' = [row EXCEPT ![n0] = [row[n0] EXCEPT ![k0] = h]]
  BY <1>1
<1>4. /\ row' \in [Namespaces -> [Keys -> Callers \cup {None}]]
      /\ row'[n0][k0] = h
      /\ \A n \in Namespaces, k \in Keys : n # n0 \/ k # k0 => row'[n][k] = row[n][k]
  BY <1>1, <1>2, <1>3
<1>5. \A n \in Namespaces, k \in Keys : row[n][k] \notin {c, None} => n # n0 \/ k # k0
  BY <1>1
<1> QED
  BY <1>4, <1>5 DEF n0, k0

\* A call looks its namespace up.
LEMMA SqlCheckSimulates ==
    ASSUME AllSupported, RInv, NEW c \in Callers, Uses("postgres"), SqlCheckNamespace(c),
           UNCHANGED <<dirty, indexed>>
    PROVE  Simulates(c)
<1>0. ~Uses("memory") /\ Types
  BY DEF Uses, RInv
<1>1. /\ pc[c] = "called" /\ op[c].name \notin {"CreateNamespace", "ListNamespaces"}
      /\ UNCHANGED <<spaces, data, lock, row>> /\ Learn(c, spaces)
      /\ \/ op[c].ns \in spaces /\ Goes(c, "checked")
         \/ op[c].ns \notin spaces /\ Answer(c, "nospace")
  BY DEF SqlCheckNamespace, CheckNamespace, Goes
<1>2. pc[c] # "idle" /\ op[c] # None
  BY <1>1, CallerFacts
<1>3. SqlRest(c)
  BY <1>0, <1>1 DEF SqlRest, DataStep, SpacesStep, CacheStep, RowsKept, Types
<1>4. CASE op[c].ns \in spaces /\ Goes(c, "checked")
  <2>1. "checked" \in MidCalls
    BY DEF MidCalls
  <2>2. Shape(c)'
    BY <1>0, <1>1, <1>2, <1>4, <2>1, ShapeGoes
  <2>3. Pending(c)'
    BY <1>0, <1>4, <2>1, GoesOK DEF Pending
  <2>4. RInv'
    BY <1>2, <1>3, <1>4, <2>1, <2>2, <2>3, SqlStepOK
  <2>5. UNCHANGED AbsVars
    BY <1>0, <1>1, <1>2, <1>4, <2>4, Unseen DEF RInv, Goes, GoTo
  <2> QED
    BY <2>4, <2>5 DEF Simulates
<1>5. CASE op[c].ns \notin spaces /\ Answer(c, "nospace")
  <2>1. RInv'
    BY <1>2, <1>3, <1>5, AnswerEnds, SqlStepOK
  <2>2. Abstract!Serve(c)
    BY <1>0, <1>1, <1>2, <1>5, <2>1, ServesOthers DEF RInv
  <2> QED
    BY <2>1, <2>2 DEF Simulates
<1> QED
  BY <1>1, <1>4, <1>5

\* A statement that another one follows.
LEMMA SqlGoesOn ==
    ASSUME AllSupported, RInv, NEW c \in Callers, Uses("postgres"), pc[c] # "idle",
           op[c].ns \in spaces, NEW next \in {"Insert", "Update", "Commit"}, Goes(c, next),
           next = "Insert" => op[c].name = "CreatePrefix",
           next = "Update" => op[c].name = "UpdatePrefix",
           op[c].name \in {"CreatePrefix", "UpdatePrefix", "DeletePrefix"},
           UNCHANGED <<spaces, data, cache, lock, dirty, indexed>>,
           next # "Insert" => row'[op[c].ns][op[c].key] = c,
           next = "Update" \/ (next = "Commit" /\ op[c].name = "UpdatePrefix")
               => Stored(c) = op[c].version,
           next = "Commit" /\ op[c].name = "CreatePrefix" => Stored(c) = Absent,
           row' \in [Namespaces -> [Keys -> Callers \cup {None}]],
           \A n \in Namespaces, k \in Keys : row[n][k] \notin {c, None} => row'[n][k] = row[n][k]
    PROVE  Simulates(c)
<1>0. ~Uses("memory") /\ Types /\ op[c] # None /\ next \in MidCalls
      /\ Stored(c) = data[op[c].ns][op[c].key]
  BY CallerFacts, PlaceIs DEF Uses, RInv, MidCalls
<1>1. SqlRest(c)
  BY DEF SqlRest, DataStep, SpacesStep, CacheStep, RowsKept
<1>2. Shape(c)'
  BY <1>0, ShapeGoes
<1>3. op' = op /\ pc'[c] = next
  BY <1>0, GoesOK
<1>4. Pending(c)'
  BY <1>0, <1>3 DEF Pending
<1>5. RInv'
  BY <1>0, <1>1, <1>2, <1>4, SqlStepOK
<1>6. UNCHANGED AbsVars
  BY <1>0, <1>5, Unseen DEF RInv, Goes, GoTo
<1> QED
  BY <1>5, <1>6 DEF Simulates

\* CreatePrefix: the SELECT.
LEMMA SqlPrefixExistsSimulates ==
    ASSUME AllSupported, RInv, NEW c \in Callers, Uses("postgres"), SqlPrefixExists(c),
           UNCHANGED <<dirty, indexed>>
    PROVE  Simulates(c)
<1> USE DEF SqlPrefixExists
<1>0. ~Uses("memory") /\ "CreatePrefix" \in PrefixCalls
  BY DEF Uses, PrefixCalls
<1>1. /\ pc[c] # "idle" /\ op[c].name = "CreatePrefix" /\ op[c] # None
      /\ op[c].ns \in spaces /\ op[c].ns \in Namespaces /\ op[c].key \in Keys
      /\ Place(op[c].ns) = op[c].ns /\ Types /\ ~Dropped(c)
      /\ row' \in [Namespaces -> [Keys -> Callers \cup {None}]]
  BY <1>0, CalledFacts DEF Dropped, Types
<1>2. CASE Stored(c) = Absent
  BY <1>1, <1>2, SqlGoesOn DEF Goes
<1>3. CASE Stored(c) # Absent
  <2>1. SqlRest(c) /\ Ends(c)
    BY <1>1, <1>3, SqlNothing, AnswerEnds
  <2>2. RInv'
    BY <1>1, <2>1, SqlStepOK
  <2>3. Abstract!Serve(c)
    BY <1>1, <1>3, <2>2, ServesCreate DEF RInv, RecordCall, CallIn
  <2> QED
    BY <2>2, <2>3 DEF Simulates
<1> QED
  BY <1>2, <1>3

\* CreatePrefix: the INSERT.
LEMMA SqlInsertSimulates ==
    ASSUME AllSupported, RInv, NEW c \in Callers, Uses("postgres"), SqlInsert(c),
           UNCHANGED <<dirty, indexed>>
    PROVE  Simulates(c)
<1> USE DEF SqlInsert
<1>0. pc[c] \in MidCalls /\ "CreatePrefix" \in PrefixCalls
  BY DEF MidCalls, PrefixCalls
<1>1. /\ pc[c] # "idle" /\ op[c] # None /\ op[c].ns \in spaces /\ op[c].ns \in Namespaces
      /\ op[c].name \in PrefixCalls => op[c].key \in Keys
      /\ Place(op[c].ns) = op[c].ns /\ Table(c) = op[c].ns /\ Types /\ Shape(c)
  BY <1>0, MidFacts
<1>2. op[c].name = "CreatePrefix" /\ op[c].key \in Keys /\ ~Dropped(c)
  BY <1>0, <1>1 DEF Shape, At, Dropped
<1>3. row[op[c].ns][op[c].key] = None
  BY <1>1, <1>2 DEF RowFree
<1>4. CASE Stored(c) = Absent
  <2>1. Goes(c, "Commit") /\ SetRow(c, c)
    BY <1>2, <1>4 DEF Goes
  <2>2. /\ row' \in [Namespaces -> [Keys -> Callers \cup {None}]]
        /\ row'[op[c].ns][op[c].key] = c
        /\ \A n \in Namespaces, k \in Keys : row[n][k] \notin {c, None} => row'[n][k] = row[n][k]
    BY <1>1, <1>2, <1>3, <2>1, RowSet
  <2> QED
    BY <1>1, <1>2, <1>4, <2>1, <2>2, SqlGoesOn
<1>5. CASE Stored(c) # Absent
  <2>1. SqlRest(c) /\ Ends(c)
    BY <1>1, <1>5, SqlNothing, AnswerEnds
  <2>2. RInv'
    BY <1>1, <2>1, SqlStepOK
  <2>3. Abstract!Serve(c)
    BY <1>1, <1>2, <1>5, <2>2, ServesCreate DEF RInv, RecordCall, CallIn
  <2> QED
    BY <2>2, <2>3 DEF Simulates
<1> QED
  BY <1>4, <1>5

\* ReadPrefix.
LEMMA SqlReadSimulates ==
    ASSUME AllSupported, RInv, NEW c \in Callers, Uses("postgres"), SqlReadPrefix(c),
           UNCHANGED <<dirty, indexed>>
    PROVE  Simulates(c)
<1> USE DEF SqlReadPrefix
<1>0. ~Uses("memory") /\ "ReadPrefix" \in PrefixCalls
  BY DEF Uses, PrefixCalls
<1>1. /\ pc[c] # "idle" /\ op[c].name = "ReadPrefix" /\ op[c] # None
      /\ op[c].ns \in spaces /\ op[c].ns \in Namespaces /\ op[c].key \in Keys
      /\ Place(op[c].ns) = op[c].ns /\ Types /\ ~Dropped(c)
  BY <1>0, CalledFacts DEF Dropped
<1>2. SqlRest(c) /\ Ends(c)
  BY <1>1, SqlNothing, RecordEnds
<1>3. RInv'
  BY <1>1, <1>2, SqlStepOK
<1>4. Abstract!Serve(c)
  BY <1>1, <1>3, ServesRead DEF RInv, RecordCall, CallIn
<1> QED
  BY <1>3, <1>4 DEF Simulates

\* UpdatePrefix: the SELECT ... FOR UPDATE.
LEMMA SqlSelectSimulates ==
    ASSUME AllSupported, RInv, NEW c \in Callers, Uses("postgres"), SqlSelectForUpdate(c),
           UNCHANGED <<dirty, indexed>>
    PROVE  Simulates(c)
<1> USE DEF SqlSelectForUpdate
<1>0. ~Uses("memory") /\ "UpdatePrefix" \in PrefixCalls
  BY DEF Uses, PrefixCalls
<1>1. /\ pc[c] # "idle" /\ op[c].name = "UpdatePrefix" /\ op[c] # None
      /\ op[c].ns \in spaces /\ op[c].ns \in Namespaces /\ op[c].key \in Keys
      /\ op[c].version # Absent /\ Table(c) = op[c].ns
      /\ Place(op[c].ns) = op[c].ns /\ Types
  BY <1>0, CalledFacts
<1>2. CASE Stored(c) = op[c].version
  <2>1. Goes(c, "Update") /\ SetRow(c, c) /\ row[op[c].ns][op[c].key] = None
    BY <1>1, <1>2 DEF Goes, SeenRowFree, RowFree
  <2>2. /\ row' \in [Namespaces -> [Keys -> Callers \cup {None}]]
        /\ row'[op[c].ns][op[c].key] = c
        /\ \A n \in Namespaces, k \in Keys : row[n][k] \notin {c, None} => row'[n][k] = row[n][k]
    BY <1>1, <2>1, RowSet
  <2> QED
    BY <1>1, <1>2, <2>1, <2>2, SqlGoesOn
<1>3. CASE Stored(c) # op[c].version
  <2>1. SqlRest(c) /\ Ends(c)
    BY <1>1, <1>3, SqlNothing, AnswerEnds
  <2>2. RInv'
    BY <1>1, <2>1, SqlStepOK
  <2>3. Abstract!Serve(c)
    BY <1>1, <1>3, <2>2, ServesUpdate DEF RInv, RecordCall, CallIn
  <2> QED
    BY <2>2, <2>3 DEF Simulates
<1> QED
  BY <1>2, <1>3

\* UpdatePrefix: the UPDATE finds what the SELECT has locked.
LEMMA SqlUpdateSimulates ==
    ASSUME AllSupported, RInv, NEW c \in Callers, Uses("postgres"), SqlUpdate(c),
           UNCHANGED <<dirty, indexed>>
    PROVE  Simulates(c)
<1> USE DEF SqlUpdate
<1>0. pc[c] \in MidCalls
  BY DEF MidCalls
<1>1. /\ pc[c] # "idle" /\ op[c].name = "UpdatePrefix"
      /\ op[c].ns \in spaces /\ op[c].ns \in Namespaces
      /\ Stored(c) = op[c].version /\ row[op[c].ns][op[c].key] = c
      /\ row \in [Namespaces -> [Keys -> Callers \cup {None}]]
  BY <1>0, MidFacts DEF Shape, At, Pending, Types
<1>2. Goes(c, "Commit") /\ row' = row
  BY <1>1 DEF Goes
<1> QED
  BY <1>1, <1>2, SqlGoesOn

\* DeletePrefix: the DELETE.
LEMMA SqlDeleteSimulates ==
    ASSUME AllSupported, RInv, NEW c \in Callers, Uses("postgres"), SqlDelete(c),
           UNCHANGED <<dirty, indexed>>
    PROVE  Simulates(c)
<1> USE DEF SqlDelete
<1>0. ~Uses("memory") /\ "DeletePrefix" \in PrefixCalls
  BY DEF Uses, PrefixCalls
<1>1. /\ pc[c] # "idle" /\ op[c].name = "DeletePrefix" /\ op[c] # None
      /\ op[c].ns \in spaces /\ op[c].ns \in Namespaces /\ op[c].key \in Keys
      /\ Table(c) = op[c].ns /\ ~Dropped(c)
      /\ Place(op[c].ns) = op[c].ns /\ Types
  BY <1>0, CalledFacts DEF Dropped
<1>2. CASE Stored(c) # Absent
  <2>1. Goes(c, "Commit") /\ SetRow(c, c) /\ row[op[c].ns][op[c].key] = None
    BY <1>1, <1>2 DEF Goes, SeenRowFree, RowFree
  <2>2. /\ row' \in [Namespaces -> [Keys -> Callers \cup {None}]]
        /\ row'[op[c].ns][op[c].key] = c
        /\ \A n \in Namespaces, k \in Keys : row[n][k] \notin {c, None} => row'[n][k] = row[n][k]
    BY <1>1, <2>1, RowSet
  <2> QED
    BY <1>1, <1>2, <2>1, <2>2, SqlGoesOn
<1>3. CASE Stored(c) = Absent
  <2>1. SqlRest(c) /\ Ends(c)
    BY <1>1, <1>3, SqlNothing, AnswerEnds
  <2>2. RInv'
    BY <1>1, <2>1, SqlStepOK
  <2>3. Abstract!Serve(c)
    BY <1>1, <1>3, <2>2, ServesDelete DEF RInv, RecordCall, CallIn
  <2> QED
    BY <2>2, <2>3 DEF Simulates
<1> QED
  BY <1>2, <1>3

\* The COMMIT writes.
LEMMA SqlCommitSimulates ==
    ASSUME AllSupported, RInv, NEW c \in Callers, Uses("postgres"), SqlCommit(c),
           UNCHANGED <<dirty, indexed>>
    PROVE  Simulates(c)
<1> USE DEF SqlCommit
<1>0. pc[c] \in MidCalls
  BY DEF MidCalls
<1>1. /\ pc[c] # "idle" /\ op[c] # None /\ op[c].ns \in spaces /\ op[c].ns \in Namespaces
      /\ op[c].key \in Keys /\ op[c].name \in {"CreatePrefix", "UpdatePrefix", "DeletePrefix"}
      /\ op[c].version + 1 \in Versions
      /\ Place(op[c].ns) = op[c].ns /\ Table(c) = op[c].ns /\ Types
      /\ row[op[c].ns][op[c].key] = c
      /\ op[c].name = "CreatePrefix" => Stored(c) = Absent
      /\ op[c].name = "UpdatePrefix" => Stored(c) = op[c].version
  BY <1>0, MidFacts DEF Shape, At, Pending, PrefixCalls
<1> DEFINE v == Committed(op[c])
<1>2. /\ op[c].name = "CreatePrefix" => v = 0
      /\ op[c].name = "UpdatePrefix" => v = op[c].version + 1
      /\ op[c].name = "DeletePrefix" => v = Absent
      /\ Write(c, v)
  BY DEF Committed
<1>3. v \in Versions
  BY <1>1, <1>2 DEF Versions
<1>4. data' = [data EXCEPT ![op[c].ns][op[c].key] = v]
  BY <1>1, <1>2 DEF Write
<1> HIDE DEF v
<1>5. DataStep(c)
  BY <1>1, <1>3, <1>4 DEF DataStep
<1>6. /\ row' \in [Namespaces -> [Keys -> Callers \cup {None}]]
      /\ \A n \in Namespaces, k \in Keys :
             row[n][k] \notin {c, None} =>
                 row'[n][k] = row[n][k] /\ (n # op[c].ns \/ k # op[c].key)
  BY <1>1, RowSet
<1>7. \A n \in Namespaces, k \in Keys :
          n # op[c].ns \/ k # op[c].key => data'[n][k] = data[n][k]
  <2> DEFINE n0 == op[c].ns
             k0 == op[c].key
  <2>1. data \in [Namespaces -> [Keys -> Versions]] /\ data' = [data EXCEPT ![n0][k0] = v]
    BY <1>1, <1>4 DEF Types
  <2> HIDE DEF n0, k0
  <2>2. \A n \in Namespaces, k \in Keys : n # n0 \/ k # k0 => data'[n][k] = data[n][k]
    BY <2>1
  <2> QED
    BY <2>2 DEF n0, k0
<1>8. SqlRest(c)
  BY <1>5, <1>6, <1>7 DEF SqlRest, SpacesStep, CacheStep, RowsKept
<1>9. RInv'
  BY <1>1, <1>8, AnswerEnds, SqlStepOK
<1>10. CASE op[c].name = "CreatePrefix"
  <2>1. Write(c, 0)
    BY <1>2, <1>10
  <2>2. RecordCall(c, "CreatePrefix")
    BY <1>1, <1>9, <1>10 DEF RInv, RecordCall, CallIn
  <2>3. Abstract!Serve(c)
    BY <1>1, <1>10, <2>1, <2>2, ServesCreate
  <2> QED
    BY <1>9, <2>3 DEF Simulates
<1>11. CASE op[c].name = "UpdatePrefix"
  <2>1. Write(c, op[c].version + 1)
    BY <1>1, <1>2, <1>4, <1>11 DEF Write
  <2>2. RecordCall(c, "UpdatePrefix")
    BY <1>1, <1>9, <1>11 DEF RInv, RecordCall, CallIn
  <2>3. Abstract!Serve(c)
    BY <1>1, <1>11, <2>1, <2>2, ServesUpdate
  <2> QED
    BY <1>9, <2>3 DEF Simulates
<1>12. CASE op[c].name = "DeletePrefix"
  <2>1. Write(c, Absent)
    BY <1>2, <1>12
  <2>2. RecordCall(c, "DeletePrefix")
    BY <1>1, <1>9, <1>12 DEF RInv, RecordCall, CallIn
  <2>3. Abstract!Serve(c)
    BY <2>1, <2>2, ServesDelete
  <2> QED
    BY <1>9, <2>3 DEF Simulates
<1> QED
  BY <1>1, <1>10, <1>11, <1>12

\* The lists.
LEMMA SqlSelectAllSimulates ==
    ASSUME AllSupported, RInv, NEW c \in Callers, Uses("postgres"), SqlSelectAll(c),
           UNCHANGED <<dirty, indexed>>
    PROVE  Simulates(c)
<1>0. ~Uses("memory")
  BY DEF Uses
<1>1. PICK name \in ListCalls :
          /\ Called(c, name)
          /\ IF Dropped(c)
             THEN Answer(c, "error")
             ELSE Give(c, "ok", None, Listed(name, RecordsIn(data[Table(c)])))
  BY DEF SqlSelectAll
<1>2. /\ pc[c] # "idle" /\ op[c].name = name /\ op[c] # None
      /\ op[c].ns \in spaces /\ op[c].ns \in Namespaces
      /\ Table(c) = op[c].ns /\ ~Dropped(c) /\ Place(op[c].ns) = op[c].ns /\ Types
  BY <1>0, <1>1, CalledFacts DEF Dropped
<1>3. Give(c, "ok", None, Listed(op[c].name, RecordsIn(data[op[c].ns])))
  BY <1>1, <1>2
<1>4. SqlRest(c) /\ Ends(c)
  BY <1>2, <1>3, SqlNothing, ListEnds DEF SqlSelectAll, Give
<1>5. RInv'
  BY <1>2, <1>4, SqlStepOK
<1>6. Abstract!Serve(c)
  BY <1>2, <1>3, <1>5, ServesList DEF RInv, CallIn, SqlSelectAll
<1> QED
  BY <1>5, <1>6 DEF Simulates

\* DeleteAllPrefixes: no row that it takes is locked.
LEMMA SqlDeleteAllSimulates ==
    ASSUME AllSupported, RInv, NEW c \in Callers, Uses("postgres"), SqlDeleteAll(c),
           UNCHANGED <<dirty, indexed>>
    PROVE  Simulates(c)
<1> USE DEF SqlDeleteAll
<1>0. ~Uses("memory")
  BY DEF Uses
<1>1. /\ pc[c] # "idle" /\ op[c].name = "DeleteAllPrefixes" /\ op[c] # None
      /\ op[c].ns \in spaces /\ op[c].ns \in Namespaces
      /\ Table(c) = op[c].ns /\ ~Dropped(c) /\ Place(op[c].ns) = op[c].ns /\ Types
  BY <1>0, CalledFacts DEF Dropped
<1>2. Clear(op[c].ns) /\ Answer(c, "ok")
  BY <1>1
<1>3. RowsKept(c)
  <2> SUFFICES ASSUME NEW n \in Namespaces, NEW k \in Keys, row[n][k] \notin {c, None}
               PROVE  data'[n][k] = data[n][k]
    BY DEF RowsKept
  <2>1. data' = [data EXCEPT ![op[c].ns] = Empty] /\ data \in [Namespaces -> [Keys -> Versions]]
    BY <1>1, <1>2 DEF Clear, Types
  <2>2. CASE n = op[c].ns
    <3>1. data[n][k] = Absent
      BY <1>1, <2>2
    <3>2. data'[n] = Empty
      BY <1>1, <2>1, <2>2
    <3> QED
      BY <3>1, <3>2 DEF Empty
  <2>3. CASE n # op[c].ns
    BY <2>1, <2>3
  <2> QED
    BY <2>2, <2>3
<1>4. SqlRest(c)
  BY <1>1, <1>2, <1>3 DEF SqlRest, DataStep, SpacesStep, CacheStep, Types
<1>5. RInv'
  BY <1>1, <1>2, <1>4, AnswerEnds, SqlStepOK
<1>6. Abstract!Serve(c)
  BY <1>1, <1>2, <1>5, ServesDeleteAll DEF RInv, CallIn
<1> QED
  BY <1>5, <1>6 DEF Simulates

\* CreateNamespace: a table with the name, unless the name is too long.
LEMMA SqlCreateTableSimulates ==
    ASSUME AllSupported, RInv, NEW c \in Callers, Uses("postgres"), SqlCreateTable(c),
           UNCHANGED <<dirty, indexed>>
    PROVE  Simulates(c)
<1> USE DEF SqlCreateTable
<1>0. ~Uses("memory")
  BY DEF Uses
<1>1. /\ pc[c] = "called" /\ pc[c] # "idle" /\ op[c].name = "CreateNamespace"
      /\ op[c] # None /\ op[c].ns \in Namespaces /\ Types /\ Shape(c)
  BY CallerFacts DEF Begins
<1>2. op[c].ns \in deployment.names
  BY <1>1 DEF Shape, NamespaceCalls
<1>3. Len(op[c].ns) # MaxIdLength /\ Len(op[c].ns) \in Nat /\ MaxIdLength \in Nat
  <2>1. op[c].ns \in Seq(STRING)
    BY <1>1, BackendAssumption
  <2>2. Len(op[c].ns) # MaxIdLength
    BY <1>1, <1>2, DeploymentFacts DEF Supports, SupportsPostgres, Uses
  <2> QED
    BY <2>1, <2>2, BackendAssumption
<1>4. Len(op[c].ns) <= MaxIdLength => Place(op[c].ns) = op[c].ns /\ Table(c) = op[c].ns
  BY <1>3 DEF Place, Table
<1>5. /\ op[c].ns \notin spaces => data[op[c].ns] = Empty
      /\ Known(c) => op[c].ns \in spaces
  BY <1>0, <1>1, NewNamespace
<1>6. CASE Len(op[c].ns) > MaxIdLength
  <2>1. Place(op[c].ns) # op[c].ns
    <3>1. Place(op[c].ns) = SubSeq(op[c].ns, 1, MaxIdLength - 1)
      BY <1>3, <1>6 DEF Place
    <3>2. op[c].ns \in Seq(STRING)
      BY <1>1, BackendAssumption
    <3>3. CASE MaxIdLength = 0
      <4>1. Len(SubSeq(op[c].ns, 1, MaxIdLength - 1)) = 0
        BY <1>3, <3>2, <3>3
      <4> QED
        BY <1>3, <1>6, <3>1, <4>1
    <3>4. CASE MaxIdLength # 0
      <4>1. Len(SubSeq(op[c].ns, 1, MaxIdLength - 1)) = MaxIdLength - 1
        BY <1>3, <1>6, <3>2, <3>4
      <4> QED
        BY <1>3, <1>6, <3>1, <4>1
    <3> QED
      BY <3>3, <3>4
  <2>2. op[c].ns \notin spaces
    BY <1>1, <2>1 DEF RInv, Spaces
  <2>3. Answer(c, "toolong") /\ UNCHANGED <<spaces, cache>>
    BY <1>6
  <2>4. SqlRest(c)
    BY <1>1, <2>3, SqlNothing
  <2>5. RInv'
    BY <1>1, <2>3, <2>4, AnswerEnds, SqlStepOK
  <2>6. Abstract!Serve(c)
    BY <1>1, <2>2, <2>3, <2>5, ServesOthers DEF RInv
  <2> QED
    BY <2>5, <2>6 DEF Simulates
<1>7. CASE ~(Len(op[c].ns) > MaxIdLength)
  <2>1. Place(op[c].ns) = op[c].ns /\ Table(c) = op[c].ns
    BY <1>3, <1>4, <1>7
  <2>2. spaces' = spaces \cup {op[c].ns} /\ Answer(c, "ok")
    BY <1>5, <1>7, <2>1
  <2>3. CacheStep(c)
    <3>1. {op[c].ns} \in SUBSET spaces'
      BY <2>2
    <3> QED
      BY <1>7, <3>1 DEF CacheStep
  <2>4. SqlRest(c)
    BY <1>1, <2>1, <2>2, <2>3 DEF SqlRest, DataStep, SpacesStep, RowsKept, Types
  <2>5. RInv'
    BY <1>1, <2>2, <2>4, AnswerEnds, SqlStepOK
  <2>6. Abstract!Serve(c)
    BY <1>1, <1>5, <2>2, <2>5, ServesCreateNamespace DEF RInv
  <2> QED
    BY <2>5, <2>6 DEF Simulates
<1> QED
  BY <1>6, <1>7

\* ListNamespaces.
LEMMA SqlListNamespacesSimulates ==
    ASSUME AllSupported, RInv, NEW c \in Callers, Uses("postgres"), SqlListNamespaces(c),
           UNCHANGED <<dirty, indexed>>
    PROVE  Simulates(c)
<1> USE DEF SqlListNamespaces
<1>1. /\ pc[c] # "idle" /\ op[c].name = "ListNamespaces" /\ op[c] # None /\ Types
  BY CallerFacts DEF Begins
<1>2. SqlRest(c)
  BY <1>1 DEF SqlRest, DataStep, SpacesStep, CacheStep, RowsKept, Types
<1>3. Ends(c)
  BY ListEnds DEF Give
<1>4. RInv'
  BY <1>1, <1>2, <1>3, SqlStepOK
<1>5. Abstract!Serve(c)
  BY <1>1, <1>4, ServesOthers DEF RInv
<1> QED
  BY <1>4, <1>5 DEF Simulates

\* The table is dropped.
LEMMA SqlDropTableSimulates ==
    ASSUME AllSupported, RInv, NEW c \in Callers, Uses("postgres"), SqlDropTable(c),
           UNCHANGED <<dirty, indexed>>
    PROVE  Halves(c)
<1> USE DEF SqlDropTable
<1>0. ~Uses("memory") /\ ~Uses("file") /\ Types
  BY DEF Uses, RInv
<1>1. /\ pc[c] # "idle" /\ op[c].name = "DeleteNamespace" /\ op[c].ns \in spaces
      /\ op[c].ns \in Namespaces /\ Table(c) = op[c].ns
  BY <1>0, CalledFacts
<1>2. GoTo(c, "Forget") /\ UNCHANGED got
  BY <1>1 DEF Dropped
<1>3. data' = [data EXCEPT ![op[c].ns] = [k \in Keys |-> IF k \in Keys THEN Absent ELSE data[op[c].ns][k]]]
  BY <1>1 DEF Clear, Empty
<1>4. data'[op[c].ns] = Empty
  BY <1>0, <1>1 DEF Clear, Types
<1>5. /\ row' \in [Namespaces -> [Keys -> Callers \cup {None}]] /\ dirty' \in [Callers -> BOOLEAN]
      /\ lock' \in [Processes -> SUBSET Callers] /\ Keys \in SUBSET Keys
  BY <1>0 DEF Types
<1>6. \A p \in Processes : lock'[p] = {}
  BY DEF RInv, Locks
<1>7. Halfway(c)' /\ Abstract!Serve(c)
  BY <1>0, <1>1, <1>2, <1>3, <1>4, <1>5, <1>6, FirstHalf
<1> QED
  BY <1>7 DEF Halves

\* Every command of postgres.
LEMMA SqlSimulates ==
    ASSUME AllSupported, RInv, NEW c \in Callers, Uses("postgres"), SqlStep(c),
           UNCHANGED <<dirty, indexed>>
    PROVE  Simulates(c) \/ Halves(c)
<1>1. pc[c] # "Forget"
  BY DEF RInv, Types, PCs, MidCalls, FileCalls, Loads, Saves
<1>2. ~SqlForget(c)
  BY <1>1 DEF SqlForget
<1> QED
  BY <1>2, SqlCheckSimulates, SqlPrefixExistsSimulates, SqlInsertSimulates, SqlReadSimulates,
     SqlSelectSimulates, SqlUpdateSimulates, SqlDeleteSimulates, SqlCommitSimulates,
     SqlSelectAllSimulates, SqlDeleteAllSimulates, SqlCreateTableSimulates,
     SqlListNamespacesSimulates, SqlDropTableSimulates
  DEF SqlStep

-----------------------------------------------------------------------------
(***************************************************************************)
(* memory.                                                                 *)
(***************************************************************************)
\* What is left to show of a call, which is one step.
LEMMA MemoryEnds ==
    ASSUME AllSupported, RInv, NEW c \in Callers, pc[c] # "idle", Uses("memory"), Ends(c),
           spaces' = spaces \/ spaces' = spaces \cup {op[c].ns} \/
               (op[c].name = "DeleteNamespace" /\ spaces' = spaces \ {op[c].ns} /\ Clear(op[c].ns)),
           DataStep(c) \/ Clear(op[c].ns), UNCHANGED <<cache, lock, row, dirty, indexed>>
    PROVE  RInv'
<1>1. Types /\ Spaces /\ op[c].ns \in Namespaces /\ op[c].name \in deployment.calls
      /\ ~Uses("mongodb") /\ ~Uses("postgres")
  BY CallerFacts DEF RInv, Uses
<1>2. /\ deployment' \in Deployments /\ deployment' = deployment
      /\ op' \in [Callers -> Operations \cup {None}]
      /\ pc' \in [Callers -> PCs]
      /\ copy' \in [Callers -> Copies \cup {None}]
      /\ got' = [d \in Callers |-> got'[d]]
      /\ Others(c) /\ op'[c] = None /\ pc'[c] = "idle"
  BY <1>1, EndsOK
<1>3. \A d \in Callers : Shape(d)'
  BY <1>2, ShapeOthers, ShapeIdle
<1>4. Locks' /\ lock' \in [Processes -> SUBSET Callers]
  BY <1>2, <1>3, LocksFree
<1>5. \A d \in Callers : Pending(d)'
  <2> SUFFICES ASSUME NEW d \in Callers PROVE Pending(d)'
    OBVIOUS
  <2>1. pc'[d] \notin MidCalls
    BY <1>2, <1>3 DEF Shape, Uses
  <2> QED
    BY <2>1 DEF Pending, MidCalls
<1>6. Empty \in [Keys -> Versions]
  BY DEF Empty, Versions
<1>7. Clear(op[c].ns) => /\ data' \in [Namespaces -> [Keys -> Versions]]
                         /\ data'[op[c].ns] = Empty
                         /\ \A n \in Namespaces \ {op[c].ns} : data'[n] = data[n]
  BY <1>1, <1>6 DEF Clear, Types
<1>8. ASSUME NEW v \in Versions, NEW k, data' = [data EXCEPT ![op[c].ns][k] = v]
      PROVE  /\ data' \in [Namespaces -> [Keys -> Versions]]
             /\ \A n \in Namespaces \ {op[c].ns} : data'[n] = data[n]
  <2>1. data \in [Namespaces -> [Keys -> Versions]] /\ data[op[c].ns] \in [Keys -> Versions]
    BY <1>1 DEF Types
  <2>2. [data[op[c].ns] EXCEPT ![k] = v] \in [Keys -> Versions]
    BY <2>1
  <2> QED
    BY <1>1, <1>8, <2>1, <2>2
<1>9. /\ data' \in [Namespaces -> [Keys -> Versions]]
      /\ \A n \in Namespaces \ {op[c].ns} : data'[n] = data[n]
      /\ data'[op[c].ns] # data[op[c].ns] => op[c].ns \in spaces \/ data'[op[c].ns] = Empty
  BY <1>1, <1>7, <1>8 DEF DataStep, Types, Versions
<1>10. spaces' \in SUBSET Namespaces
  BY <1>1 DEF Types
<1>11. \A n \in Namespaces \ spaces' : data'[n] = Empty
  <2> SUFFICES ASSUME NEW n \in Namespaces \ spaces' PROVE data'[n] = Empty
    OBVIOUS
  <2>1. CASE n \notin spaces
    BY <1>1, <1>9, <2>1 DEF Spaces
  <2>2. CASE n \in spaces
    BY <1>7, <2>2
  <2> QED
    BY <2>1, <2>2
<1>12. \A n \in spaces' : Place(n)' = n
  BY <1>1, <1>2 DEF Place, Uses
<1>13. RootStays' => Root \in spaces'
  <2>1. op[c].name = "DeleteNamespace" => op[c].ns \in deployment.names
    BY CallerFacts DEF Shape, NamespaceCalls
  <2> QED
    BY <1>1, <1>2, <2>1 DEF Spaces, RootStays
<1>14. Spaces' /\ Indexes'
  BY <1>1, <1>2, <1>11, <1>12, <1>13 DEF Spaces, RootStays, Indexes, Uses, Empty
<1>15. Types'
  BY <1>1, <1>2, <1>4, <1>9, <1>10 DEF Types
<1> QED
  BY <1>3, <1>4, <1>5, <1>14, <1>15 DEF RInv

\* A call served from what the storage has.
Served(c) ==
    LET result == MemoryCall(Contents, op[c]) IN
        /\ spaces' = result.maps.spaces
        /\ data' = result.maps.data
        /\ Give(c, result.ans, result.copy, result.got)

\* What that does.
LEMMA MemoryMeans ==
    ASSUME Types, NEW c \in Callers, op[c] # None, Served(c),
           op[c].name \in PrefixCalls \cup NamespaceCalls
    PROVE  /\ op[c].name = "CreateNamespace" =>
                  spaces' = spaces \cup {op[c].ns} /\ data' = data /\ Answer(c, "ok")
           /\ op[c].name = "ListNamespaces" =>
                  spaces' = spaces /\ data' = data /\ Give(c, "ok", None, spaces)
           /\ op[c].name = "DeleteAllPrefixes" =>
                  spaces' = spaces \cup {op[c].ns} /\ Clear(op[c].ns) /\ Answer(c, "ok")
           /\ op[c].name \notin {"CreateNamespace", "ListNamespaces", "DeleteAllPrefixes"} =>
                \/ /\ op[c].ns \notin spaces /\ UNCHANGED <<spaces, data>> /\ Answer(c, "nospace")
                \/ /\ op[c].ns \in spaces
                   /\ op[c].name = "DeleteNamespace" =>
                          spaces' = spaces \ {op[c].ns} /\ Clear(op[c].ns) /\ Answer(c, "ok")
                   /\ op[c].name # "DeleteNamespace" => spaces' = spaces
                   /\ op[c].name = "CreatePrefix" =>
                        IF data[op[c].ns][op[c].key] = Absent
                        THEN /\ data' = [data EXCEPT ![op[c].ns][op[c].key] = op[c].version]
                             /\ Answer(c, "ok")
                        ELSE data' = data /\ Answer(c, "error")
                   /\ op[c].name = "ReadPrefix" =>
                        data' = data /\ GiveRecord(c, data[op[c].ns][op[c].key])
                   /\ op[c].name = "UpdatePrefix" =>
                        IF data[op[c].ns][op[c].key] = op[c].version
                        THEN /\ data' = [data EXCEPT ![op[c].ns][op[c].key] = op[c].version + 1]
                             /\ Answer(c, "ok")
                        ELSE /\ data' = data
                             /\ \/ Answer(c, "conflict")
                                \/ data[op[c].ns][op[c].key] = Absent /\ Answer(c, "error")
                   /\ op[c].name = "DeletePrefix" =>
                        data' = [data EXCEPT ![op[c].ns][op[c].key] = Absent] /\ Answer(c, "ok")
                   /\ op[c].name \in ListCalls =>
                        /\ data' = data
                        /\ Give(c, "ok", None, Listed(op[c].name, RecordsIn(data[op[c].ns])))
<1> DEFINE maps == [spaces |-> spaces, data |-> data]
           result == MemoryCall(maps, op[c])
<1>1. /\ spaces' = result.maps.spaces /\ data' = result.maps.data
      /\ Give(c, result.ans, result.copy, result.got)
  BY DEF Served, Contents
<1>2. CASE op[c].name = "CreateNamespace"
  <2>1. result = MemoryCreateNamespace(maps, op[c])
    BY <1>2 DEF MemoryCall
  <2> HIDE DEF result
  <2> QED
    BY <1>1, <1>2, <2>1 DEF MemoryCreateNamespace, Says, Result, Answer, ListCalls
<1>3. CASE op[c].name = "ListNamespaces"
  <2>1. result = MemoryListNamespaces(maps)
    BY <1>3 DEF MemoryCall
  <2> HIDE DEF result
  <2> QED
    BY <1>1, <1>3, <2>1 DEF MemoryListNamespaces, Result, ListCalls
<1>4. CASE op[c].name = "DeleteAllPrefixes"
  <2>1. result = MemoryDeleteAllPrefixes(maps, op[c])
    BY <1>4 DEF MemoryCall
  <2> HIDE DEF result
  <2> QED
    BY <1>1, <1>4, <2>1 DEF MemoryDeleteAllPrefixes, Says, Result, Answer, Clear, ListCalls
<1>5. CASE /\ op[c].name \notin {"CreateNamespace", "ListNamespaces", "DeleteAllPrefixes"}
           /\ op[c].ns \notin spaces
  <2>1. result = Says(maps, "nospace")
    BY <1>5 DEF MemoryCall
  <2> HIDE DEF result
  <2> QED
    BY <1>1, <1>5, <2>1 DEF Says, Result, Answer
<1>6. CASE /\ op[c].name \notin {"CreateNamespace", "ListNamespaces", "DeleteAllPrefixes"}
           /\ op[c].ns \in spaces
  <2>1. CASE op[c].name = "DeleteNamespace"
    <3>1. result = MemoryDeleteNamespace(maps, op[c])
      BY <1>6, <2>1 DEF MemoryCall, ListCalls
    <3> HIDE DEF result
    <3> QED
      BY <1>1, <1>6, <2>1, <3>1 DEF MemoryDeleteNamespace, Says, Result, Answer, Clear, ListCalls
  <2>2. CASE op[c].name = "CreatePrefix"
    <3>1. result = MemoryCreatePrefix(maps, op[c])
      BY <1>6, <2>2 DEF MemoryCall, ListCalls
    <3> HIDE DEF result
    <3> QED
      BY <1>1, <1>6, <2>2, <3>1 DEF MemoryCreatePrefix, Says, Result, Answer, ListCalls
  <2>3. CASE op[c].name = "ReadPrefix"
    <3>1. result = MemoryReadPrefix(maps, op[c])
      BY <1>6, <2>3 DEF MemoryCall, ListCalls
    <3> HIDE DEF result
    <3> QED
      BY <1>1, <1>6, <2>3, <3>1 DEF MemoryReadPrefix, Says, Result, Answer, GiveRecord, ListCalls
  <2>4. CASE op[c].name = "UpdatePrefix"
    <3>1. result = MemoryUpdatePrefix(maps, op[c])
      BY <1>6, <2>4 DEF MemoryCall, ListCalls
    <3> HIDE DEF result
    <3> QED
      BY <1>1, <1>6, <2>4, <3>1 DEF MemoryUpdatePrefix, Says, Result, Answer, ListCalls
  <2>5. CASE op[c].name = "DeletePrefix"
    <3>1. result = MemoryDeletePrefix(maps, op[c])
      BY <1>6, <2>5 DEF MemoryCall, ListCalls
    <3> HIDE DEF result
    <3> QED
      BY <1>1, <1>6, <2>5, <3>1 DEF MemoryDeletePrefix, Says, Result, Answer, ListCalls
  <2>6. CASE op[c].name \in ListCalls
    <3>1. result = MemoryReadAll(maps, op[c])
      BY <1>6, <2>6 DEF MemoryCall, ListCalls
    <3> HIDE DEF result
    <3> QED
      BY <1>1, <1>6, <2>6, <3>1 DEF MemoryReadAll, Result, ListCalls
  <2> QED
    BY <1>6, <2>1, <2>2, <2>3, <2>4, <2>5, <2>6 DEF PrefixCalls, NamespaceCalls
<1> QED
  BY <1>2, <1>3, <1>4, <1>5, <1>6

\* It is what Storage promises: the calls about one record.
LEMMA ServedPrefix ==
    ASSUME Types, Types', NEW c \in Callers, op[c] # None, Served(c),
           op[c].ns \in Namespaces, Place(op[c].ns) = op[c].ns,
           op[c].name \in PrefixCalls, op[c].key \in Keys, op[c].ns \in spaces
    PROVE  Abstract!Serve(c)
<1>1. /\ Stored(c) = data[op[c].ns][op[c].key]
      /\ op[c].name \notin {"CreateNamespace", "ListNamespaces", "DeleteAllPrefixes",
                            "DeleteNamespace"}
  BY DEF Stored, PrefixCalls
<1>2. spaces' = spaces
  BY <1>1, MemoryMeans
<1>3. ASSUME NEW name, op[c].name = name PROVE RecordCall(c, name)
  BY <1>2, <1>3 DEF RecordCall, CallIn
<1>4. CASE op[c].name = "CreatePrefix"
  <2>1. \/ Stored(c) = Absent /\ Answer(c, "ok") /\ Write(c, op[c].version)
        \/ Stored(c) # Absent /\ data' = data /\ Answer(c, "error")
    BY <1>1, <1>4, MemoryMeans DEF Write
  <2> QED
    BY <1>3, <1>4, <2>1, ServesCreate
<1>5. CASE op[c].name = "ReadPrefix"
  <2>1. data' = data /\ GiveRecord(c, Stored(c))
    BY <1>1, <1>5, MemoryMeans
  <2> QED
    BY <1>3, <1>5, <2>1, ServesRead
<1>6. CASE op[c].name = "UpdatePrefix"
  <2>1. \/ /\ Stored(c) = op[c].version /\ Answer(c, "ok")
           /\ Write(c, op[c].version + 1)
        \/ /\ Stored(c) # op[c].version /\ data' = data
           /\ Answer(c, "conflict") \/ (Stored(c) = Absent /\ Answer(c, "error"))
    BY <1>1, <1>6, MemoryMeans DEF Write
  <2>2. RecordCall(c, "UpdatePrefix")
    BY <1>3, <1>6
  <2> QED
    BY <2>1, <2>2, ServesUpdate
<1>7. CASE op[c].name = "DeletePrefix"
  <2>1. Write(c, Absent) /\ Answer(c, "ok")
    BY <1>1, <1>7, MemoryMeans DEF Write
  <2> QED
    BY <1>3, <1>7, <2>1, ServesDelete
<1> QED
  BY <1>4, <1>5, <1>6, <1>7 DEF PrefixCalls

\* Every call, but a DeleteAllPrefixes of a namespace that is not there.
LEMMA ServedServes ==
    ASSUME Types, Types', NEW c \in Callers, op[c] # None, Served(c),
           op[c].ns \in Namespaces, Place(op[c].ns) = op[c].ns,
           op[c].name \in PrefixCalls \cup NamespaceCalls,
           op[c].name \in PrefixCalls => op[c].key \in Keys,
           op[c].ns \notin spaces => data[op[c].ns] = Empty,
           op[c].name = "DeleteAllPrefixes" => op[c].ns \in spaces
    PROVE  Abstract!Serve(c)
<1>1. CASE op[c].name = "CreateNamespace"
  <2>1. spaces' = spaces \cup {op[c].ns} /\ data' = data /\ Answer(c, "ok")
    BY <1>1, MemoryMeans
  <2> QED
    BY <1>1, <2>1, ServesCreateNamespace
<1>2. CASE op[c].name = "ListNamespaces"
  <2>1. spaces' = spaces /\ data' = data /\ Give(c, "ok", None, spaces)
    BY <1>2, MemoryMeans
  <2> QED
    BY <1>2, <2>1, ServesOthers
<1>3. CASE op[c].name = "DeleteAllPrefixes"
  <2>1. spaces' = spaces /\ Clear(op[c].ns) /\ Answer(c, "ok")
    BY <1>3, MemoryMeans
  <2> QED
    BY <1>3, <2>1, ServesDeleteAll DEF CallIn
<1>4. CASE /\ op[c].name \notin {"CreateNamespace", "ListNamespaces", "DeleteAllPrefixes"}
           /\ op[c].ns \notin spaces
  <2>1. UNCHANGED <<spaces, data>> /\ Answer(c, "nospace")
    BY <1>4, MemoryMeans
  <2> QED
    BY <1>4, <2>1, ServesOthers
<1>5. CASE op[c].name = "DeleteNamespace" /\ op[c].ns \in spaces
  <2>1. spaces' = spaces \ {op[c].ns} /\ Clear(op[c].ns) /\ Answer(c, "ok")
    BY <1>5, MemoryMeans
  <2> QED
    BY <1>5, <2>1, ServesDeleteNamespace DEF CallIn
<1>6. CASE op[c].name \in ListCalls /\ op[c].ns \in spaces
  <2>1. /\ UNCHANGED <<spaces, data>>
        /\ Give(c, "ok", None, Listed(op[c].name, RecordsIn(data[op[c].ns])))
    BY <1>6, MemoryMeans DEF ListCalls
  <2> QED
    BY <1>6, <2>1, ServesList DEF CallIn
<1>7. CASE op[c].name \in PrefixCalls /\ op[c].ns \in spaces
  BY <1>7, ServedPrefix
<1> QED
  BY <1>1, <1>2, <1>3, <1>4, <1>5, <1>6, <1>7 DEF NamespaceCalls

\* A DeleteAllPrefixes of the memory storage is of a namespace that is there.
LEMMA DeletesAllInside ==
    ASSUME AllSupported, RInv, NEW c \in Callers, Uses("memory"), pc[c] # "idle",
           op[c].name = "DeleteAllPrefixes"
    PROVE  op[c].ns \in spaces
<1>1. Types /\ Shape(c) /\ op[c] # None /\ op[c].name \in deployment.calls
  BY CallerFacts
<1>2. deployment.names = {Root} /\ "DeleteNamespace" \notin deployment.calls
  BY <1>1, DeploymentFacts DEF Supports, SupportsMemory, Uses
<1>3. op[c].ns \in deployment.names
  BY <1>1 DEF Shape, NamespaceCalls
<1> QED
  BY <1>2, <1>3 DEF RInv, Spaces, RootStays

\* Every call of the memory storage.
LEMMA MemorySimulates ==
    ASSUME AllSupported, RInv, NEW c \in Callers, Uses("memory"), MemoryStep(c),
           UNCHANGED <<row, dirty, indexed>>
    PROVE  Simulates(c)
<1>1. pc[c] # "idle" /\ UNCHANGED <<cache, lock>> /\ Served(c)
  BY DEF MemoryStep, Served, Contents
<1>2. /\ op[c] # None /\ op[c].ns \in Namespaces /\ op[c].name \in deployment.calls
      /\ op[c].name \in PrefixCalls \cup NamespaceCalls /\ Types /\ Shape(c)
      /\ op[c].name \in PrefixCalls => op[c].key \in Keys
      /\ op[c].version + 1 \in Versions /\ op[c].version \in Versions /\ Absent \in Versions
  BY <1>1, CallerFacts, DeploymentFacts DEF Versions
<1>3. /\ op[c].ns \notin spaces => data[op[c].ns] = Empty
      /\ Place(op[c].ns) = op[c].ns
  BY <1>1, NewNamespace DEF Uses
<1>4. op[c].name = "DeleteAllPrefixes" => op[c].ns \in spaces
  BY <1>1, DeletesAllInside
<1>5. /\ \/ spaces' = spaces \/ spaces' = spaces \cup {op[c].ns}
         \/ op[c].name = "DeleteNamespace" /\ spaces' = spaces \ {op[c].ns} /\ Clear(op[c].ns)
      /\ DataStep(c) \/ Clear(op[c].ns)
      /\ Ends(c)
  <2>1. CASE op[c].name = "CreateNamespace"
    BY <1>1, <1>2, <2>1, MemoryMeans, AnswerEnds DEF DataStep
  <2>2. CASE op[c].name = "ListNamespaces"
    BY <1>1, <1>2, <2>2, MemoryMeans, ListEnds DEF DataStep, Give
  <2>3. CASE op[c].name = "DeleteAllPrefixes"
    BY <1>1, <1>2, <2>3, MemoryMeans, AnswerEnds
  <2>4. CASE /\ op[c].name \notin {"CreateNamespace", "ListNamespaces", "DeleteAllPrefixes"}
             /\ op[c].ns \notin spaces
    BY <1>1, <1>2, <2>4, MemoryMeans, AnswerEnds DEF DataStep
  <2>5. CASE op[c].name = "DeleteNamespace" /\ op[c].ns \in spaces
    BY <1>1, <1>2, <2>5, MemoryMeans, AnswerEnds
  <2>6. CASE op[c].name \in ListCalls /\ op[c].ns \in spaces
    BY <1>1, <1>2, <2>6, MemoryMeans, ListEnds DEF DataStep, Give, ListCalls
  <2>7. CASE op[c].name \in PrefixCalls /\ op[c].ns \in spaces
    <3>1. /\ op[c].name \notin {"CreateNamespace", "ListNamespaces", "DeleteAllPrefixes",
                                "DeleteNamespace"}
          /\ op[c].key \in Keys /\ Place(op[c].ns) = op[c].ns
          /\ Stored(c) = data[op[c].ns][op[c].key]
      BY <1>2, <1>3, <2>7 DEF PrefixCalls, Stored
    <3>2. CASE op[c].name = "CreatePrefix"
      BY <1>1, <1>2, <2>7, <3>1, <3>2, MemoryMeans, AnswerEnds DEF DataStep
    <3>3. CASE op[c].name = "ReadPrefix"
      <4>1. spaces' = spaces /\ data' = data /\ GiveRecord(c, Stored(c))
        BY <1>1, <1>2, <2>7, <3>1, <3>3, MemoryMeans
      <4> QED
        BY <1>2, <3>1, <4>1, <2>7, RecordEnds DEF DataStep
    <3>4. CASE op[c].name = "UpdatePrefix"
      BY <1>1, <1>2, <2>7, <3>1, <3>4, MemoryMeans, AnswerEnds DEF DataStep
    <3>5. CASE op[c].name = "DeletePrefix"
      BY <1>1, <1>2, <2>7, <3>1, <3>5, MemoryMeans, AnswerEnds DEF DataStep
    <3> QED
      BY <2>7, <3>2, <3>3, <3>4, <3>5 DEF PrefixCalls
  <2> QED
    BY <1>2, <2>1, <2>2, <2>3, <2>4, <2>5, <2>6, <2>7 DEF NamespaceCalls
<1>6. RInv'
  BY <1>1, <1>5, MemoryEnds
<1>7. Abstract!Serve(c)
  BY <1>1, <1>2, <1>3, <1>4, <1>6, ServedServes DEF RInv
<1> QED
  BY <1>6, <1>7 DEF Simulates

-----------------------------------------------------------------------------
(***************************************************************************)
(* A call begins, a process stops, and the beginning of all.               *)
(***************************************************************************)
\* What a caller may call.
LEMMA OperationIs ==
    ASSUME AllSupported, Types, NEW c \in Callers, NEW o \in Operation(c)
    PROVE  /\ o \in Operations /\ o # None /\ o.name \in deployment.calls
           /\ o.name \in PrefixCalls => o.key \in Keys
           /\ o.name \in NamespaceCalls \ {"ListNamespaces"} => o.ns \in deployment.names
           /\ o.name = "UpdatePrefix" =>
                  copy[c] = [ns |-> o.ns, key |-> o.key, version |-> o.version]
<1>1. /\ deployment.names \subseteq Namespaces /\ deployment.keys \subseteq Keys
      /\ deployment.versions \subseteq Nat
      /\ Root \in Namespaces /\ None \notin Operations
      /\ PrefixCalls \cap NamespaceCalls = {} /\ "UpdatePrefix" \in PrefixCalls
  BY DeploymentFacts, BackendAssumption DEF PrefixCalls, NamespaceCalls, ListCalls
<1>2. CASE \/ o \in [name : deployment.calls \cap {"CreatePrefix"},
                     ns : deployment.names, key : deployment.keys, version : deployment.versions]
           \/ o \in [name : deployment.calls \cap {"ReadPrefix", "DeletePrefix"},
                     ns : deployment.names, key : deployment.keys, version : {0}]
  BY <1>1, <1>2 DEF Operations, PrefixCalls, NamespaceCalls, ListCalls
<1>3. CASE o \in [name : deployment.calls \cap (NamespaceCalls \ {"ListNamespaces"}),
                  ns : deployment.names, key : {None}, version : {0}]
  BY <1>1, <1>3 DEF Operations
<1>4. CASE o \in [name : deployment.calls \cap {"ListNamespaces"},
                  ns : {Root}, key : {None}, version : {0}]
  BY <1>1, <1>4 DEF Operations, NamespaceCalls
<1>5. CASE o \in { [name |-> "UpdatePrefix", ns |-> r.ns, key |-> r.key, version |-> r.version] :
                     r \in { r \in {copy[c]} \ {None} :
                               r.version < MaxVersion /\ "UpdatePrefix" \in deployment.calls } }
  <2>1. /\ copy[c] # None /\ "UpdatePrefix" \in deployment.calls
        /\ o = [name |-> "UpdatePrefix", ns |-> copy[c].ns, key |-> copy[c].key,
                version |-> copy[c].version]
    BY <1>5
  <2>2. copy[c] \in Copies
    BY <2>1 DEF Types
  <2>3. /\ copy[c] = [ns |-> copy[c].ns, key |-> copy[c].key, version |-> copy[c].version]
        /\ copy[c].ns \in Namespaces /\ copy[c].key \in Keys /\ copy[c].version \in Nat
    BY <2>2 DEF Copies
  <2>4. o.name = "UpdatePrefix" /\ o.ns = copy[c].ns /\ o.key = copy[c].key
        /\ o.version = copy[c].version
    BY <2>1
  <2>5. o \in Operations
    BY <1>1, <2>1, <2>3 DEF Operations
  <2> QED
    BY <1>1, <2>1, <2>3, <2>4, <2>5
<1> QED
  BY <1>2, <1>3, <1>4, <1>5 DEF Operation

\* A caller begins a call, and has one afterwards.
LEMMA CallSeen ==
    ASSUME AllSupported, Types, NEW c \in Callers, op[c] = None, Call(c),
           UNCHANGED <<dirty, indexed, row>>
    PROVE  /\ Types' /\ Others(c) /\ pc'[c] = "called" /\ op'[c] # None
           /\ op'[c].name \in deployment.calls
           /\ op'[c].name \in PrefixCalls => op'[c].key \in Keys
           /\ op'[c].name \in NamespaceCalls \ {"ListNamespaces"} => op'[c].ns \in deployment.names
           /\ Abstract!Call(c)
<1> USE DEF Call, Idle
<1>1. /\ Types /\ pc[c] = "idle" /\ op[c] = None /\ c \in DOMAIN deployment.processOf
      /\ deployment' = deployment
  OBVIOUS
<1>2. PICK o \in Operation(c) : op' = [op EXCEPT ![c] = o]
  OBVIOUS
<1>3. /\ o \in Operations /\ o # None /\ o.name \in deployment.calls
      /\ o.name \in PrefixCalls => o.key \in Keys
      /\ o.name \in NamespaceCalls \ {"ListNamespaces"} => o.ns \in deployment.names
      /\ o.name = "UpdatePrefix" =>
             copy[c] = [ns |-> o.ns, key |-> o.key, version |-> o.version]
  BY <1>1, <1>2, OperationIs
<1>4. op'[c] = o /\ pc'[c] = "called" /\ Others(c)
  BY <1>1, <1>2 DEF Types, Others
<1>5. Types'
  <2>1. got' = [d \in Callers |-> got'[d]]
    BY <1>1 DEF Types
  <2> QED
    BY <1>1, <1>2, <1>3, <2>1 DEF Types, PCs
<1>6. AbsDb' = AbsDb
  BY <1>1, <1>5, ThereIs, ThereIsPrimed
<1>7. AbsGot' = [AbsGot EXCEPT ![c] = None]
  <2>1. AbsGot'[c] = None
    BY <1>3, <1>4 DEF AbsGot
  <2>2. \A d \in Callers \ {c} : AbsGot'[d] = AbsGot[d]
    BY <1>1, <1>4 DEF AbsGot, Others, Types
  <2> QED
    BY <2>1, <2>2 DEF AbsGot
<1>8. Abstract!Call(c)
  BY <1>1, <1>2, <1>3, <1>4, <1>6, <1>7 DEF Abstract!Call, AbsDb, AbsGot
<1> QED
  BY <1>3, <1>4, <1>5, <1>8

\* The invariant afterwards.
LEMMA CallSimulates ==
    ASSUME AllSupported, RInv, NEW c \in Callers, Call(c), UNCHANGED <<dirty, indexed, row>>
    PROVE  RInv' /\ Abstract!Call(c)
<1>1. /\ Types /\ pc[c] = "idle" /\ op[c] = None /\ c \in DOMAIN deployment.processOf
      /\ UNCHANGED <<deployment, spaces, data, cache, lock>>
  BY DEF RInv, Shape, Call, Idle
<1>2. /\ Types' /\ Others(c) /\ pc'[c] = "called" /\ op'[c] # None
      /\ op'[c].name \in deployment.calls
      /\ op'[c].name \in PrefixCalls => op'[c].key \in Keys
      /\ op'[c].name \in NamespaceCalls \ {"ListNamespaces"} => op'[c].ns \in deployment.names
      /\ Abstract!Call(c)
  BY <1>1, CallSeen
<1>3. \A d \in Callers \ {c} : Shape(d)' /\ Pending(d)'
  <2> SUFFICES ASSUME NEW d \in Callers \ {c} PROVE Shape(d)' /\ Pending(d)'
    OBVIOUS
  <2>1. Shape(d)'
    BY <1>1, <1>2, ShapeOthers
  <2>2. Pending(d)'
    BY <1>1, <1>2 DEF RInv, Pending, Others
  <2> QED
    BY <2>1, <2>2
<1>4. Shape(c)' /\ Pending(c)'
  BY <1>1, <1>2 DEF Shape, At, Pending, MidCalls, FileCalls, Loads, Saves
<1>5. \A p \in Processes : c \notin lock[p]
  BY <1>1 DEF RInv, Locks
<1>6. Locks'
  <2>1. \A d \in Callers : pc[d] # "Forget" /\ pc'[d] # "Forget"
    BY <1>1, <1>2 DEF Types, PCs, MidCalls, FileCalls, Loads, Saves
  <2>2. \A d \in Callers \ {c} : op'[d] = op[d] /\ pc'[d] = pc[d] /\ Shares(d)' = Shares(d)
    BY <1>1, <1>2, <2>1, SharesKept DEF Others
  <2>3. \A d \in Callers : Holds(d)' = Holds(d)
    BY <1>1 DEF Holds, ProcessOf
  <2>4. ~Holds(c)
    BY <1>1, <1>5, DeploymentFacts DEF Holds, ProcessOf
  <2>5. \A p \in Processes : lock[p] \subseteq CallersOf(p) /\ CallersOf(p)' = CallersOf(p)
    BY <1>1 DEF RInv, Locks, CallersOf, ProcessOf
  <2>6. \A p \in Processes : \A d \in lock[p] : d \in Callers \ {c}
    BY <1>1, <1>5 DEF Types
  <2>7. "called" \notin MidCalls /\ Locks
    BY DEF MidCalls, RInv
  <2>8. ASSUME NEW d \in Callers, d \in DOMAIN deployment.processOf
        PROVE  /\ (pc'[d] \in MidCalls /\ ~Uses("postgres")) => Holds(d)'
               /\ (Holds(d)' /\ pc'[d] = "called") => Shares(d)'
    BY <1>2, <2>2, <2>3, <2>4, <2>7, <2>8 DEF Locks
  <2>9. ASSUME NEW p \in Processes
        PROVE  /\ lock'[p] \subseteq CallersOf(p)'
               /\ \A d \in lock'[p] : op'[d] # None
               /\ \A b, d \in lock'[p] : b # d => Shares(b)' /\ Shares(d)'
    BY <1>1, <2>2, <2>5, <2>6, <2>7 DEF Locks
  <2>10. Uses("memory") \/ Uses("postgres") => \A p \in Processes : lock'[p] = {}
    BY <1>1, <2>7 DEF Locks
  <2> QED
    BY <1>1, <2>8, <2>9, <2>10 DEF Locks, Uses
<1>7. Spaces' /\ Indexes'
  BY <1>1, <1>2 DEF RInv, Spaces, RootStays, Indexes, Uses, Place, Empty, Others, ProcessOf
<1>8. RInv'
  BY <1>2, <1>3, <1>4, <1>6, <1>7 DEF RInv
<1> QED
  BY <1>2, <1>8

\* A process stops, and its callers are without a call.
LEMMA StopSeen ==
    ASSUME AllSupported, Types, NEW p \in Processes, Stop(p), SqlRollback(p),
           UNCHANGED <<spaces, data, dirty, indexed>>
    PROVE  /\ Types' /\ deployment' = deployment
           /\ CallersOf(p) \in SUBSET Callers
           /\ \A c \in CallersOf(p) : op'[c] = None /\ pc'[c] = "idle"
           /\ \A c \in Callers \ CallersOf(p) : op'[c] = op[c] /\ pc'[c] = pc[c]
           /\ \E S \in SUBSET Callers : Abstract!Stop(S)
<1> DEFINE S == CallersOf(p)
<1>1. Types /\ deployment' = deployment /\ S \in SUBSET Callers /\ Root \in Namespaces
  BY DeploymentFacts, BackendAssumption DEF Stop, CallersOf
<1>2. /\ op' = [c \in Callers |-> IF c \in S THEN None ELSE op[c]]
      /\ ans' = [c \in Callers |-> IF c \in S THEN None ELSE ans[c]]
      /\ copy' = [c \in Callers |-> IF c \in S THEN None ELSE copy[c]]
      /\ got' = [c \in Callers |-> IF c \in S THEN None ELSE got[c]]
      /\ pc' = [c \in Callers |-> IF c \in S THEN "idle" ELSE pc[c]]
      /\ lock' = [lock EXCEPT ![p] = {}]
      /\ cache' = [cache EXCEPT ![p] = IF Uses("mongodb") /\ Root \in spaces THEN {} ELSE {Root}]
      /\ row' = [n \in Namespaces |-> [k \in Keys |->
                    IF row[n][k] \in S THEN None ELSE row[n][k]]]
  BY DEF Stop, SqlRollback
<1> HIDE DEF S
<1>3. /\ \A c \in S : op'[c] = None /\ pc'[c] = "idle"
      /\ \A c \in Callers \ S : op'[c] = op[c] /\ pc'[c] = pc[c]
  BY <1>1, <1>2
<1>4. Types'
  <2>1. got' = [c \in Callers |-> got'[c]]
    BY <1>2
  <2>2. op' \in [Callers -> Operations \cup {None}] /\ pc' \in [Callers -> PCs]
        /\ copy' \in [Callers -> Copies \cup {None}]
    BY <1>1, <1>2 DEF Types, PCs
  <2>3. row' \in [Namespaces -> [Keys -> Callers \cup {None}]]
    BY <1>1, <1>2 DEF Types
  <2>4. lock' \in [Processes -> SUBSET Callers]
    BY <1>1, <1>2 DEF Types
  <2>5. cache' \in [Processes -> SUBSET Namespaces]
    BY <1>1, <1>2 DEF Types
  <2> QED
    BY <1>1, <2>1, <2>2, <2>3, <2>4, <2>5 DEF Types
<1>5. AbsDb' = [n \in DOMAIN AbsDb \ {} |-> AbsDb[n]]
  BY <1>1, <1>4, ThereIs, ThereIsPrimed
<1>6. AbsGot' = [c \in Callers |-> IF c \in S THEN None ELSE AbsGot[c]]
  BY <1>2 DEF AbsGot
<1>7. Abstract!Stop(S)
  BY <1>2, <1>5, <1>6 DEF Abstract!Stop, AbsDb, AbsGot
<1>8. \E T \in SUBSET Callers : Abstract!Stop(T)
  BY <1>1, <1>7 DEF Abstract!Stop
<1> QED
  BY <1>1, <1>3, <1>4, <1>8 DEF S

\* The invariant afterwards.
LEMMA StopSimulates ==
    ASSUME AllSupported, RInv, ~Uses("file"), NEW p \in Processes,
           Stop(p), MongoStart, SqlRollback(p), FileStop(p), UNCHANGED dirty
    PROVE  RInv' /\ UNCHANGED <<spaces, data>> /\ \E S \in SUBSET Callers : Abstract!Stop(S)
<1> DEFINE S == CallersOf(p)
<1>1. /\ Types /\ Spaces /\ Locks /\ Indexes /\ deployment' = deployment
      /\ S \in SUBSET Callers /\ Supports(deployment)
      /\ S = { c \in DOMAIN deployment.processOf : ProcessOf(c) = p }
      /\ S' = S
  BY DeploymentFacts DEF RInv, Stop, CallersOf, ProcessOf
<1>2. /\ op' = [c \in Callers |-> IF c \in S THEN None ELSE op[c]]
      /\ ans' = [c \in Callers |-> IF c \in S THEN None ELSE ans[c]]
      /\ copy' = [c \in Callers |-> IF c \in S THEN None ELSE copy[c]]
      /\ got' = [c \in Callers |-> IF c \in S THEN None ELSE got[c]]
      /\ pc' = [c \in Callers |-> IF c \in S THEN "idle" ELSE pc[c]]
      /\ lock' = [lock EXCEPT ![p] = {}]
      /\ cache' = [cache EXCEPT ![p] = IF Uses("mongodb") /\ Root \in spaces THEN {} ELSE {Root}]
      /\ row' = [n \in Namespaces |-> [k \in Keys |->
                    IF row[n][k] \in S THEN None ELSE row[n][k]]]
      /\ p \in deployment.crashing \/
             (p \in deployment.restarting /\ \A c \in S : pc[c] = "idle")
  BY DEF Stop, SqlRollback
<1>3. \A c \in Callers : pc[c] # "WriteData"
  BY DEF RInv, Shape, FileCalls, Saves
<1>5. ~Uses("memory") /\ Root \in spaces
  <2>1. ~Uses("memory")
    BY <1>1, <1>2 DEF Supports, SupportsMemory, Uses
  <2>2. RootStays
    BY <1>1, <2>1 DEF Supports, SupportsPostgres, SupportsMongodb, SupportsRedis, SupportsEtcd,
                      Deletes, RootStays, Uses
  <2> QED
    BY <1>1, <2>1, <2>2 DEF Spaces
<1>4. UNCHANGED <<spaces, data, indexed>>
  BY <1>1, <1>3, <1>5, StartsThere
<1> HIDE DEF S
<1>6. /\ \A c \in S : op'[c] = None /\ pc'[c] = "idle"
      /\ \A c \in Callers \ S : op'[c] = op[c] /\ pc'[c] = pc[c]
      /\ Types' /\ \E T \in SUBSET Callers : Abstract!Stop(T)
  BY <1>1, <1>4, StopSeen DEF S
<1>7. Types'
  BY <1>6
<1>8. Spaces'
  <2>1. \A c \in DOMAIN deployment.processOf : cache'[ProcessOf(c)] \subseteq spaces
    <3>1. \A c \in DOMAIN deployment.processOf : ProcessOf(c) \in Processes
      BY <1>1, DeploymentFacts DEF ProcessOf
    <3> QED
      BY <1>1, <1>2, <1>5, <3>1 DEF Types, Spaces
  <2> QED
    BY <1>1, <1>4, <2>1 DEF Spaces, RootStays, Uses, Place, Empty, ProcessOf
<1>9. Locks'
  <2>1. lock'[p] = {} /\ \A q \in Processes \ {p} : lock'[q] = lock[q]
    BY <1>1, <1>2 DEF Types
  <2>2. \A c \in Callers \ S : Shares(c)' = Shares(c)
    BY <1>1, <1>6, SharesKept
  <2>3. \A q \in Processes : lock[q] \subseteq CallersOf(q) /\ CallersOf(q)' = CallersOf(q)
    BY <1>1 DEF Locks, CallersOf, ProcessOf
  <2>4. \A q \in Processes \ {p} : \A c \in lock[q] : c \in Callers \ S
    BY <1>1, <2>3 DEF CallersOf, Types
  <2>5. "idle" \notin MidCalls
    BY DEF MidCalls
  <2>6. ASSUME NEW c \in Callers, c \in DOMAIN deployment.processOf
        PROVE  /\ (pc'[c] \in MidCalls /\ ~Uses("postgres")) => Holds(c)'
               /\ (Holds(c)' /\ pc'[c] = "called") => Shares(c)'
    <3>1. ProcessOf(c) \in Processes /\ ProcessOf(c)' = ProcessOf(c)
      BY <1>1, <2>6, DeploymentFacts DEF ProcessOf
    <3>2. CASE c \in S
      BY <1>6, <2>5, <3>2
    <3>3. CASE c \notin S
      <4>1. ProcessOf(c) # p
        BY <1>1, <2>6, <3>3
      <4>2. Holds(c)' = Holds(c)
        BY <2>1, <3>1, <4>1 DEF Holds
      <4> QED
        BY <1>1, <1>6, <2>2, <2>6, <3>3, <4>2 DEF Locks
    <3> QED
      BY <3>2, <3>3
  <2>7. ASSUME NEW q \in Processes
        PROVE  /\ lock'[q] \subseteq CallersOf(q)'
               /\ \A c \in lock'[q] : op'[c] # None
               /\ \A b, c \in lock'[q] : b # c => Shares(b)' /\ Shares(c)'
    <3>1. CASE q = p
      BY <2>1, <3>1
    <3>2. CASE q # p
      BY <1>1, <1>6, <2>1, <2>2, <2>3, <2>4, <3>2 DEF Locks
    <3> QED
      BY <3>1, <3>2
  <2>8. Uses("memory") \/ Uses("postgres") => \A q \in Processes : lock'[q] = {}
    BY <1>1, <2>1 DEF Locks
  <2> QED
    BY <1>1, <2>6, <2>7, <2>8 DEF Locks, Uses
<1>10. Indexes'
  <2> SUFFICES ASSUME Uses("mongodb"), NEW n \in spaces \ indexed
               PROVE  \E c \in Callers : pc'[c] = "CreateMany" /\ op'[c].ns = n
    BY <1>1, <1>4 DEF Indexes, Uses
  <2>1. PICK c \in Callers : pc[c] = "CreateMany" /\ op[c].ns = n
    BY <1>1 DEF Indexes
  <2>2. pc[c] # "idle" /\ "CreateNamespace" \in deployment.calls
    BY <2>1, CallerFacts DEF Shape, At
  <2>3. c \notin S
    BY <1>1, <1>2, <2>2 DEF Supports, SupportsMongodb, Uses
  <2> QED
    BY <1>6, <2>1, <2>3
<1>11. ASSUME NEW c \in Callers PROVE Shape(c)' /\ Pending(c)'
  <2>1. CASE c \in S
    BY <1>6, <2>1, ShapeIdle
  <2>2. CASE c \notin S
    <3>1. Shape(c) /\ Pending(c) /\ op'[c] = op[c] /\ pc'[c] = pc[c]
      BY <1>6, <2>2 DEF RInv
    <3>2. Shape(c)'
      BY <1>1, <1>4, <3>1 DEF Shape, At, Uses
    <3>3. pc[c] \in {"Update", "Commit"} => row'[op[c].ns][op[c].key] = row[op[c].ns][op[c].key]
      <4> SUFFICES ASSUME pc[c] \in {"Update", "Commit"}
                   PROVE  row'[op[c].ns][op[c].key] = row[op[c].ns][op[c].key]
        OBVIOUS
      <4>1. pc[c] \in MidCalls
        BY DEF MidCalls
      <4>2. op[c].ns \in Namespaces /\ op[c].key \in Keys /\ row[op[c].ns][op[c].key] = c
        BY <3>1, <4>1, MidFacts DEF Shape, At, PrefixCalls, Pending
      <4> QED
        BY <1>2, <2>2, <4>2
    <3> QED
      BY <1>4, <3>1, <3>2, <3>3 DEF Pending
  <2> QED
    BY <2>1, <2>2
<1>12. RInv'
  BY <1>7, <1>8, <1>9, <1>10, <1>11 DEF RInv
<1> QED
  BY <1>4, <1>6, <1>12

-----------------------------------------------------------------------------
(***************************************************************************)
(* file: the memory and the file.                                          *)
(***************************************************************************)
\* A record that is written.
LEMMA WrittenMaps ==
    ASSUME NEW maps \in Maps, EmptyOutside(maps), NEW n \in maps.spaces, NEW k \in Keys,
           NEW v \in Versions, NEW new, new = [maps EXCEPT !.data[n][k] = v]
    PROVE  new \in Maps /\ EmptyOutside(new) /\ new.spaces = maps.spaces
<1>1. maps.spaces \in SUBSET Namespaces /\ maps.data \in [Namespaces -> [Keys -> Versions]]
      /\ maps = [spaces |-> maps.spaces, data |-> maps.data]
  BY DEF Maps
<1>2. new = [spaces |-> maps.spaces, data |-> [maps.data EXCEPT ![n] = [maps.data[n] EXCEPT ![k] = v]]]
  BY <1>1
<1>3. [maps.data[n] EXCEPT ![k] = v] \in [Keys -> Versions]
  BY <1>1
<1>4. new.data = [maps.data EXCEPT ![n] = [maps.data[n] EXCEPT ![k] = v]] /\ new.spaces = maps.spaces
  BY <1>2
<1>5. new \in Maps
  <2> DEFINE f == [maps.data[n] EXCEPT ![k] = v]
             g == [maps.data EXCEPT ![n] = f]
  <2>1. f \in [Keys -> Versions] /\ n \in Namespaces
    BY <1>1, <1>3
  <2> HIDE DEF f
  <2>2. g \in [Namespaces -> [Keys -> Versions]]
    BY <1>1, <2>1
  <2> HIDE DEF g
  <2>3. new = [spaces |-> maps.spaces, data |-> g]
    BY <1>2 DEF f, g
  <2>4. ASSUME NEW S \in SUBSET Namespaces, NEW h \in [Namespaces -> [Keys -> Versions]]
        PROVE  [spaces |-> S, data |-> h] \in Maps
    BY DEF Maps
  <2>5. maps.spaces \in SUBSET Namespaces
    BY <1>1
  <2>6. [spaces |-> maps.spaces, data |-> g] \in Maps
    BY <2>2, <2>4, <2>5
  <2> QED
    BY <2>3, <2>6
<1>6. ASSUME NEW m \in Namespaces \ new.spaces PROVE new.data[m] = Empty
  BY <1>1, <1>4, <1>6 DEF EmptyOutside
<1> QED
  BY <1>4, <1>5, <1>6 DEF EmptyOutside

\* A namespace that is emptied, and is there or not afterwards.
LEMMA EmptiedMaps ==
    ASSUME NEW maps \in Maps, EmptyOutside(maps), NEW n \in Namespaces, NEW S \in SUBSET Namespaces,
           maps.spaces \ {n} \subseteq S, NEW new,
           new = [spaces |-> S, data |-> [maps.data EXCEPT ![n] = Empty]]
    PROVE  new \in Maps /\ EmptyOutside(new)
<1>1. maps.data \in [Namespaces -> [Keys -> Versions]] /\ Empty \in [Keys -> Versions]
  BY DEF Maps, Empty, Versions
<1>2. new \in Maps
  BY <1>1 DEF Maps
<1>3. ASSUME NEW m \in Namespaces \ S PROVE new.data[m] = Empty
  BY <1>1, <1>3 DEF EmptyOutside
<1> QED
  BY <1>2, <1>3 DEF EmptyOutside

\* What a call does to the maps of a memory.
LEMMA MemoryKeeps ==
    ASSUME NEW maps \in Maps, EmptyOutside(maps), NEW o \in Operations,
           o.name \in PrefixCalls => o.key \in Keys
    PROVE  LET result == MemoryCall(maps, o) IN
           /\ result.maps \in Maps /\ EmptyOutside(result.maps)
           /\ (o.name \notin Persisted \/ result.ans # "ok") => result.maps = maps
           /\ o.name \in Persisted => result.copy = None /\ result.got = None
           /\ (Root \in maps.spaces /\ (o.name = "DeleteNamespace" => o.ns # Root))
                  => Root \in result.maps.spaces
<1> DEFINE result == MemoryCall(maps, o)
<1>1. /\ o.name \in PrefixCalls \cup NamespaceCalls /\ o.ns \in Namespaces /\ o.version \in Nat
      /\ maps.spaces \in SUBSET Namespaces /\ maps.data \in [Namespaces -> [Keys -> Versions]]
      /\ maps = [spaces |-> maps.spaces, data |-> maps.data]
  BY DEF Operations, Maps
<1> DEFINE goal(r) ==
           /\ r.maps \in Maps /\ EmptyOutside(r.maps)
           /\ (o.name \notin Persisted \/ r.ans # "ok") => r.maps = maps
           /\ o.name \in Persisted => r.copy = None /\ r.got = None
           /\ (Root \in maps.spaces /\ (o.name = "DeleteNamespace" => o.ns # Root))
                  => Root \in r.maps.spaces
<1> SUFFICES goal(result)
  OBVIOUS
<1>2. CASE o.name = "CreateNamespace"
  <2>1. result = Says([maps EXCEPT !.spaces = @ \cup {o.ns}], "ok") /\ o.name \in Persisted
    BY <1>2 DEF MemoryCall, MemoryCreateNamespace, Persisted, NamespaceCalls, ListCalls
  <2> HIDE DEF result
  <2>2. result.maps = [spaces |-> maps.spaces \cup {o.ns}, data |-> maps.data] /\ result.ans = "ok"
        /\ result.copy = None /\ result.got = None
    BY <1>1, <2>1 DEF Says, Result
  <2>3. result.maps \in Maps
    BY <1>1, <2>2 DEF Maps
  <2>4. EmptyOutside(result.maps)
    BY <1>1, <2>2 DEF EmptyOutside
  <2> QED
    BY <2>1, <2>2, <2>3, <2>4
<1>3. CASE o.name = "ListNamespaces"
  <2>1. result.maps = maps /\ o.name \notin Persisted
    BY <1>3 DEF MemoryCall, MemoryListNamespaces, Result, Persisted
  <2> QED
    BY <2>1, <1>3
<1>4. CASE o.name = "DeleteAllPrefixes"
  <2>1. result = Says([spaces |-> maps.spaces \cup {o.ns}, data |-> [maps.data EXCEPT ![o.ns] = Empty]], "ok")
        /\ o.name \in Persisted
    BY <1>4 DEF MemoryCall, MemoryDeleteAllPrefixes, Persisted, NamespaceCalls, ListCalls
  <2> HIDE DEF result
  <2>2. result.maps = [spaces |-> maps.spaces \cup {o.ns}, data |-> [maps.data EXCEPT ![o.ns] = Empty]]
        /\ result.ans = "ok" /\ result.copy = None /\ result.got = None
    BY <2>1 DEF Says, Result
  <2>3. result.maps \in Maps /\ EmptyOutside(result.maps)
    <3>1. PICK S \in SUBSET Namespaces : S = maps.spaces \cup {o.ns}
      BY <1>1
    <3>2. PICK emptied : emptied = [spaces |-> S, data |-> [maps.data EXCEPT ![o.ns] = Empty]]
      OBVIOUS
    <3>3. PICK n \in Namespaces : n = o.ns
      BY <1>1
    <3>4. maps.spaces \ {n} \subseteq S
      BY <3>1
    <3>5. emptied = [spaces |-> S, data |-> [maps.data EXCEPT ![n] = Empty]]
      BY <3>2, <3>3
    <3>6. emptied \in Maps /\ EmptyOutside(emptied)
      BY <3>4, <3>5, EmptiedMaps
    <3>7. result.maps = emptied
      BY <2>2, <3>1, <3>2
    <3> QED
      BY <3>6, <3>7
  <2> QED
    BY <2>1, <2>2, <2>3
<1>5. CASE /\ o.name \notin {"CreateNamespace", "ListNamespaces", "DeleteAllPrefixes"}
           /\ o.ns \notin maps.spaces
  <2>1. result = Says(maps, "nospace")
    BY <1>5 DEF MemoryCall
  <2> HIDE DEF result
  <2> QED
    BY <2>1 DEF Says, Result
<1>6. CASE /\ o.name \notin {"CreateNamespace", "ListNamespaces", "DeleteAllPrefixes"}
           /\ o.ns \in maps.spaces
  <2>1. CASE o.name = "DeleteNamespace"
    <3>1. result = Says([spaces |-> maps.spaces \ {o.ns}, data |-> [maps.data EXCEPT ![o.ns] = Empty]], "ok")
          /\ o.name \in Persisted
      BY <1>6, <2>1 DEF MemoryCall, MemoryDeleteNamespace, Persisted, NamespaceCalls, ListCalls
    <3> HIDE DEF result
    <3>2. result.maps = [spaces |-> maps.spaces \ {o.ns}, data |-> [maps.data EXCEPT ![o.ns] = Empty]]
          /\ result.ans = "ok" /\ result.copy = None /\ result.got = None
      BY <3>1 DEF Says, Result
    <3>3. result.maps \in Maps /\ EmptyOutside(result.maps)
      BY <1>1, <3>2, EmptiedMaps
    <3> QED
      BY <2>1, <3>1, <3>2, <3>3
  <2>2. ASSUME NEW v \in Versions, o.name \in {"CreatePrefix", "UpdatePrefix", "DeletePrefix"},
               \/ result = Says([maps EXCEPT !.data[o.ns][o.key] = v], "ok")
               \/ \E a : a # "ok" /\ result = Says(maps, a)
        PROVE  goal(result)
    <3> HIDE DEF result
    <3>1. CASE result = Says([maps EXCEPT !.data[o.ns][o.key] = v], "ok")
      <4>1. result.maps = [maps EXCEPT !.data[o.ns][o.key] = v] /\ result.ans = "ok"
            /\ result.copy = None /\ result.got = None
        BY <3>1 DEF Says, Result
      <4>2. result.maps \in Maps /\ EmptyOutside(result.maps) /\ result.maps.spaces = maps.spaces
        <5>1. o.key \in Keys
          BY <2>2 DEF PrefixCalls
        <5> QED
          BY <1>6, <2>2, <4>1, <5>1, WrittenMaps
      <4>3. o.name \in Persisted
        BY <2>2 DEF Persisted, PrefixCalls, ListCalls
      <4> QED
        BY <4>1, <4>2, <4>3
    <3>2. CASE \E a : a # "ok" /\ result = Says(maps, a)
      BY <3>2 DEF Says, Result
    <3> QED
      BY <2>2, <3>1, <3>2
  <2>3. ASSUME o.name \in ListCalls \cup {"ReadPrefix"}, result.maps = maps
        PROVE  goal(result)
    <3>1. o.name \notin Persisted /\ o.name # "DeleteNamespace"
      BY <2>3 DEF Persisted, ListCalls
    <3> HIDE DEF result
    <3> QED
      BY <2>3, <3>1
  <2>4. o.version \in Versions /\ Absent \in Versions /\ o.version + 1 \in Versions
    BY <1>1 DEF Versions
  <2>5. CASE o.name = "CreatePrefix"
    <3>1. result = MemoryCreatePrefix(maps, o)
      BY <1>6, <2>5 DEF MemoryCall, ListCalls
    <3>2. \/ result = Says([maps EXCEPT !.data[o.ns][o.key] = o.version], "ok")
          \/ result = Says(maps, "error")
      BY <3>1 DEF MemoryCreatePrefix
    <3> HIDE DEF goal, result
    <3> QED
      BY <2>2, <2>4, <2>5, <3>2
  <2>6. CASE o.name = "UpdatePrefix"
    <3>1. result = MemoryUpdatePrefix(maps, o)
      BY <1>6, <2>6 DEF MemoryCall, ListCalls
    <3>2. \/ result = Says([maps EXCEPT !.data[o.ns][o.key] = o.version + 1], "ok")
          \/ result = Says(maps, "error")
          \/ result = Says(maps, "conflict")
      BY <3>1 DEF MemoryUpdatePrefix
    <3> HIDE DEF goal, result
    <3> QED
      BY <2>2, <2>4, <2>6, <3>2
  <2>7. CASE o.name = "DeletePrefix"
    <3>1. result = MemoryDeletePrefix(maps, o)
      BY <1>6, <2>7 DEF MemoryCall, ListCalls
    <3>2. result = Says([maps EXCEPT !.data[o.ns][o.key] = Absent], "ok")
      BY <3>1 DEF MemoryDeletePrefix
    <3> HIDE DEF goal, result
    <3> QED
      BY <2>2, <2>4, <2>7, <3>2
  <2>8. CASE o.name = "ReadPrefix"
    <3>1. result = MemoryReadPrefix(maps, o)
      BY <1>6, <2>8 DEF MemoryCall, ListCalls
    <3>2. result.maps = maps
      BY <3>1 DEF MemoryReadPrefix, Says, Result
    <3> HIDE DEF goal, result
    <3> QED
      BY <2>3, <2>8, <3>2
  <2>9. CASE o.name \in ListCalls
    <3>1. result = MemoryReadAll(maps, o)
      BY <1>6, <2>9 DEF MemoryCall, ListCalls
    <3>2. result.maps = maps
      BY <3>1 DEF MemoryReadAll, Result
    <3> HIDE DEF goal, result
    <3> QED
      BY <2>3, <2>9, <3>2
  <2> HIDE DEF goal, result
  <2> QED
    BY <1>1, <1>6, <2>1, <2>5, <2>6, <2>7, <2>8, <2>9 DEF PrefixCalls, NamespaceCalls
<1> QED
  BY <1>2, <1>3, <1>4, <1>5, <1>6

\* A call of a memory gives a record or none.
LEMMA MemoryCopies ==
    ASSUME NEW maps \in Maps, NEW o \in Operations, o.name \in PrefixCalls => o.key \in Keys
    PROVE  MemoryCall(maps, o).copy \in Copies \cup {None}
<1> DEFINE result == MemoryCall(maps, o)
<1>1. o.name \in PrefixCalls \cup NamespaceCalls /\ o.ns \in Namespaces
      /\ maps.data \in [Namespaces -> [Keys -> Versions]]
  BY DEF Operations, Maps
<1>2. CASE o.name = "ReadPrefix" /\ o.ns \in maps.spaces
  <2>1. result = MemoryReadPrefix(maps, o) /\ o.key \in Keys
    BY <1>2 DEF MemoryCall, ListCalls, PrefixCalls
  <2>2. CASE maps.data[o.ns][o.key] = Absent
    BY <2>1, <2>2 DEF MemoryReadPrefix, Says, Result
  <2>3. CASE maps.data[o.ns][o.key] # Absent
    <3>1. maps.data[o.ns][o.key] \in Nat
      BY <1>1, <2>1, <2>3 DEF Versions
    <3>2. result.copy = [ns |-> o.ns, key |-> o.key, version |-> maps.data[o.ns][o.key]]
      BY <2>1, <2>3 DEF MemoryReadPrefix, Result
    <3> QED
      BY <1>1, <2>1, <3>1, <3>2 DEF Copies
  <2> QED
    BY <2>2, <2>3
<1>3. CASE ~(o.name = "ReadPrefix" /\ o.ns \in maps.spaces)
  <2>1. \/ result = MemoryCreateNamespace(maps, o) \/ result = MemoryListNamespaces(maps)
        \/ result = MemoryDeleteAllPrefixes(maps, o) \/ result = Says(maps, "nospace")
        \/ result = MemoryCreatePrefix(maps, o) \/ result = MemoryUpdatePrefix(maps, o)
        \/ result = MemoryDeletePrefix(maps, o) \/ result = MemoryReadAll(maps, o)
        \/ result = MemoryDeleteNamespace(maps, o)
    BY <1>1, <1>3 DEF MemoryCall, PrefixCalls, NamespaceCalls, ListCalls
  <2> HIDE DEF result
  <2>2. result.copy = None
    BY <2>1 DEF MemoryCreateNamespace, MemoryListNamespaces, MemoryDeleteAllPrefixes,
                MemoryCreatePrefix, MemoryUpdatePrefix, MemoryDeletePrefix, MemoryReadAll,
                MemoryDeleteNamespace, Says, Result
  <2> QED
    BY <2>2 DEF result
<1> QED
  BY <1>2, <1>3

\* What an item of a file is.
LEMMA ItemIs ==
    ASSUME NEW maps \in Maps
    PROVE  \A i : i \in Image(maps) <=>
               \/ \E n \in maps.spaces : i = [ns |-> n, key |-> None, version |-> Absent]
               \/ \E n \in maps.spaces, k \in Keys :
                      /\ maps.data[n][k] # Absent
                      /\ i = [ns |-> n, key |-> k, version |-> maps.data[n][k]]
<1> DEFINE A == [ns : maps.spaces, key : {None}, version : {Absent}]
           B(n) == { [ns |-> n, key |-> r.key, version |-> r.version] : r \in RecordsIn(maps.data[n]) }
<1>1. \A i : i \in A <=> \E n \in maps.spaces : i = [ns |-> n, key |-> None, version |-> Absent]
  OBVIOUS
<1>2. \A n, i : i \in B(n) <=>
          \E k \in Keys : maps.data[n][k] # Absent /\ i = [ns |-> n, key |-> k, version |-> maps.data[n][k]]
  <2> TAKE n, i
  <2>1. \A r : r \in RecordsIn(maps.data[n]) <=>
            \E k \in Keys : maps.data[n][k] # Absent /\ r = [key |-> k, version |-> maps.data[n][k]]
    BY DEF RecordsIn
  <2>2. i \in B(n) <=> \E r \in RecordsIn(maps.data[n]) : i = [ns |-> n, key |-> r.key, version |-> r.version]
    OBVIOUS
  <2>3. ASSUME i \in B(n)
        PROVE  \E k \in Keys : maps.data[n][k] # Absent /\ i = [ns |-> n, key |-> k, version |-> maps.data[n][k]]
    <3>1. PICK r \in RecordsIn(maps.data[n]) : i = [ns |-> n, key |-> r.key, version |-> r.version]
      BY <2>2, <2>3
    <3>2. PICK k \in Keys : maps.data[n][k] # Absent /\ r = [key |-> k, version |-> maps.data[n][k]]
      BY <2>1
    <3> QED
      BY <3>1, <3>2
  <2>4. ASSUME NEW k \in Keys, maps.data[n][k] # Absent,
               i = [ns |-> n, key |-> k, version |-> maps.data[n][k]]
        PROVE  i \in B(n)
    <3> DEFINE r == [key |-> k, version |-> maps.data[n][k]]
    <3>1. r \in RecordsIn(maps.data[n])
      BY <2>1, <2>4
    <3>2. r.key = k /\ r.version = maps.data[n][k]
      OBVIOUS
    <3> HIDE DEF r
    <3> QED
      BY <2>2, <2>4, <3>1, <3>2
  <2> HIDE DEF B
  <2> QED
    BY <2>3, <2>4
<1>3. Image(maps) = A \cup UNION { B(n) : n \in maps.spaces }
  BY DEF Image
<1> HIDE DEF A, B
<1>4. \A i : i \in UNION { B(n) : n \in maps.spaces } <=> \E n \in maps.spaces : i \in B(n)
  OBVIOUS
<1> QED
  BY <1>1, <1>2, <1>3, <1>4

\* What is written to the file and read is what was in the memory.
LEMMA ContentOfImage ==
    ASSUME NEW maps \in Maps, EmptyOutside(maps)
    PROVE  Content(Image(maps)) = maps
<1> DEFINE I == Image(maps)
           E(n, k) == IF \E i \in I : i.ns = n /\ i.key = k
                      THEN (CHOOSE i \in I : i.ns = n /\ i.key = k).version
                      ELSE Absent
<1>1. /\ maps.spaces \in SUBSET Namespaces /\ maps.data \in [Namespaces -> [Keys -> Versions]]
      /\ maps = [spaces |-> maps.spaces, data |-> maps.data]
  BY DEF Maps
<1>2. None \notin Keys
  BY BackendAssumption
<1>3. Content(I) = [spaces |-> { i.ns : i \in I },
                    data   |-> [n \in Namespaces |-> [k \in Keys |-> E(n, k)]]]
  BY DEF Content
<1>4. \A i : i \in I <=>
               \/ \E n \in maps.spaces : i = [ns |-> n, key |-> None, version |-> Absent]
               \/ \E n \in maps.spaces, k \in Keys :
                      /\ maps.data[n][k] # Absent
                      /\ i = [ns |-> n, key |-> k, version |-> maps.data[n][k]]
  BY ItemIs
<1> HIDE DEF I
<1>5. { i.ns : i \in I } = maps.spaces
  <2>1. ASSUME NEW i \in I PROVE i.ns \in maps.spaces
    BY <1>4
  <2>2. ASSUME NEW n \in maps.spaces PROVE \E i \in I : i.ns = n
    <3>1. [ns |-> n, key |-> None, version |-> Absent] \in I
      BY <1>4
    <3> QED
      BY <3>1
  <2> QED
    BY <2>1, <2>2
<1>6. ASSUME NEW n \in Namespaces, NEW k \in Keys PROVE E(n, k) = maps.data[n][k]
  <2>1. \A i \in I : i.ns = n /\ i.key = k => n \in maps.spaces /\ maps.data[n][k] # Absent
                                              /\ i.version = maps.data[n][k]
    BY <1>2, <1>4
  <2>2. CASE n \in maps.spaces /\ maps.data[n][k] # Absent
    <3>1. \E i \in I : i.ns = n /\ i.key = k
      <4>1. [ns |-> n, key |-> k, version |-> maps.data[n][k]] \in I
        BY <1>4, <2>2
      <4> QED
        BY <4>1
    <3> QED
      BY <2>1, <3>1
  <2>3. CASE ~(n \in maps.spaces /\ maps.data[n][k] # Absent)
    <3>1. maps.data[n][k] = Absent
      BY <2>3 DEF EmptyOutside, Empty
    <3> QED
      BY <2>1, <2>3, <3>1
  <2> QED
    BY <2>2, <2>3
<1> HIDE DEF E
<1>7. [n \in Namespaces |-> [k \in Keys |-> E(n, k)]] = maps.data
  <2>1. \A n \in Namespaces : [k \in Keys |-> E(n, k)] = [k \in Keys |-> maps.data[n][k]]
    BY <1>6, Zenon
  <2>2. \A n \in Namespaces : [k \in Keys |-> maps.data[n][k]] = maps.data[n]
    BY <1>1
  <2>3. \A n \in Namespaces : [k \in Keys |-> E(n, k)] = maps.data[n]
    BY <2>1, <2>2, Zenon
  <2>4. [n \in Namespaces |-> maps.data[n]] = maps.data
    BY <1>1
  <2>5. [n \in Namespaces |-> [k \in Keys |-> E(n, k)]] = [n \in Namespaces |-> maps.data[n]]
    BY <2>3, Zenon
  <2> QED
    BY <2>4, <2>5, Zenon
<1>8. Content(I) = [spaces |-> maps.spaces, data |-> maps.data]
  BY <1>3, <1>5, <1>7, Zenon
<1> QED
  BY <1>1, <1>8 DEF I

\* A load begins with an empty root namespace, or with nothing.
LEMMA FillStarts ==
    ASSUME NEW from \in Maps, EmptyOutside(from), Root \in from.spaces, NEW S, NEW maps,
           maps = [Blank EXCEPT !.spaces = @ \cap S]
    PROVE  maps \in Maps /\ Image(from) # {} /\ Filling(maps, Image(from), from)
<1> DEFINE I == Image(from)
<1>1. /\ from.spaces \in SUBSET Namespaces /\ from.data \in [Namespaces -> [Keys -> Versions]]
      /\ None \notin Keys
  BY BackendAssumption DEF Maps
<1>2. maps = [spaces |-> {Root} \cap S, data |-> [n \in Namespaces |-> Empty]]
  BY DEF Blank
<1>3. maps \in Maps
  <2>1. ASSUME NEW T \in SUBSET Namespaces, NEW f \in [Namespaces -> [Keys -> Versions]]
        PROVE  [spaces |-> T, data |-> f] \in Maps
    BY DEF Maps
  <2>2. {Root} \cap S \in SUBSET Namespaces
    BY <1>1
  <2>3. [n \in Namespaces |-> Empty] \in [Namespaces -> [Keys -> Versions]]
    BY DEF Empty, Versions
  <2> QED
    BY <1>2, <2>1, <2>2, <2>3
<1>4. \A i : i \in I <=>
               \/ \E n \in from.spaces : i = [ns |-> n, key |-> None, version |-> Absent]
               \/ \E n \in from.spaces, k \in Keys :
                      /\ from.data[n][k] # Absent
                      /\ i = [ns |-> n, key |-> k, version |-> from.data[n][k]]
  BY ItemIs
<1> HIDE DEF I
<1>5. \A n \in from.spaces : \E i \in I : i.ns = n /\ i.key = None
  <2> TAKE n \in from.spaces
  <2>1. [ns |-> n, key |-> None, version |-> Absent] \in I
    BY <1>4
  <2> QED
    BY <2>1
<1>6. \A i \in I : i.ns \in from.spaces
  BY <1>4
<1>7. from.spaces = maps.spaces \cup { i.ns : i \in { i \in I : i.key = None } }
  BY <1>2, <1>5, <1>6
<1>8. ASSUME NEW n \in Namespaces, NEW k \in Keys, ~ \E i \in I : i.ns = n /\ i.key = k
      PROVE  from.data[n][k] = Absent
  <2>1. CASE n \in from.spaces
    <3>1. [ns |-> n, key |-> k, version |-> from.data[n][k]] \notin I
      BY <1>8
    <3> QED
      BY <1>4, <2>1, <3>1
  <2>2. CASE n \notin from.spaces
    BY <2>2 DEF EmptyOutside, Empty
  <2> QED
    BY <2>1, <2>2
<1>9. \A n \in Namespaces, k \in Keys : maps.data[n][k] = Absent
  BY <1>2 DEF Empty
<1>10. Filling(maps, I, from)
  BY <1>7, <1>8, <1>9 DEF Filling, I
<1>11. I # {}
  BY <1>5
<1> QED
  BY <1>3, <1>10, <1>11 DEF I

\* When nothing is left the memory has all of it.
LEMMA FilledAll ==
    ASSUME NEW from \in Maps, NEW maps \in Maps, Filling(maps, {}, from)
    PROVE  maps = from
<1>1. /\ from.data \in [Namespaces -> [Keys -> Versions]] /\ maps.data \in [Namespaces -> [Keys -> Versions]]
      /\ from = [spaces |-> from.spaces, data |-> from.data]
      /\ maps = [spaces |-> maps.spaces, data |-> maps.data]
  BY DEF Maps
<1>2. maps.spaces = from.spaces
  BY DEF Filling
<1>3. \A n \in Namespaces, k \in Keys : maps.data[n][k] = from.data[n][k]
  BY DEF Filling
<1>4. maps.data = from.data
  <2>1. ASSUME NEW n \in Namespaces PROVE maps.data[n] = from.data[n]
    BY <1>1, <1>3
  <2> QED
    BY <1>1, <2>1
<1> QED
  BY <1>1, <1>2, <1>4

\* One item more.
LEMMA FillsOne ==
    ASSUME NEW from \in Maps, NEW maps \in Maps, NEW items, Filling(maps, items, from),
           NEW i \in items, \A j \in items : (j.ns = i.ns /\ j.key = None) => j = i
    PROVE  LET result == Filled(maps, i) IN
           /\ result.ans = "ok" /\ result.maps \in Maps
           /\ Filling(result.maps, items \ {i}, from)
<1> DEFINE result == Filled(maps, i)
           goal(r) == /\ r.ans = "ok" /\ r.maps \in Maps
                      /\ Filling(r.maps, items \ {i}, from)
<1> SUFFICES goal(result)
  OBVIOUS
<1>1. /\ maps.spaces \in SUBSET Namespaces /\ maps.data \in [Namespaces -> [Keys -> Versions]]
      /\ from.spaces \in SUBSET Namespaces
      /\ maps = [spaces |-> maps.spaces, data |-> maps.data]
      /\ None \notin Keys
  BY BackendAssumption DEF Maps
<1>2. \A j : j \in Image(from) <=>
               \/ \E n \in from.spaces : j = [ns |-> n, key |-> None, version |-> Absent]
               \/ \E n \in from.spaces, k \in Keys :
                      /\ from.data[n][k] # Absent
                      /\ j = [ns |-> n, key |-> k, version |-> from.data[n][k]]
  BY ItemIs
<1>3. /\ items \subseteq Image(from)
      /\ from.spaces = maps.spaces \cup { j.ns : j \in { j \in items : j.key = None } }
      /\ \A n \in Namespaces, k \in Keys :
             maps.data[n][k] =
                 IF \E j \in items : j.ns = n /\ j.key = k THEN Absent ELSE from.data[n][k]
  BY DEF Filling
<1>4. \A j \in items : (j.ns = i.ns /\ j.key = i.key) => j = i
  BY <1>2, <1>3
<1>5. CASE i.key = None
  <2>1. result = Says([maps EXCEPT !.spaces = @ \cup {i.ns}], "ok")
    BY <1>5 DEF Filled, MemoryCreateNamespace
  <2> HIDE DEF result
  <2>2. result.ans = "ok" /\ result.maps = [spaces |-> maps.spaces \cup {i.ns}, data |-> maps.data]
    BY <1>1, <2>1 DEF Says, Result
  <2>3. i.ns \in from.spaces
    BY <1>2, <1>3
  <2>4. result.maps \in Maps
    BY <1>1, <2>2, <2>3 DEF Maps
  <2>5. from.spaces = maps.spaces \cup {i.ns} \cup { j.ns : j \in { j \in items \ {i} : j.key = None } }
    BY <1>3, <2>3
  <2>6. \A n \in Namespaces, k \in Keys :
            (\E j \in items : j.ns = n /\ j.key = k) <=> (\E j \in items \ {i} : j.ns = n /\ j.key = k)
    BY <1>1, <1>5
  <2>7. Filling(result.maps, items \ {i}, from)
    BY <1>3, <2>2, <2>5, <2>6 DEF Filling
  <2> QED
    BY <2>2, <2>4, <2>7
<1>6. CASE i.key # None
  <2>1. /\ i.ns \in from.spaces /\ i.key \in Keys /\ i.version = from.data[i.ns][i.key]
        /\ i.ns \in Namespaces /\ i.version \in Versions
    <3>1. PICK n \in from.spaces, k \in Keys : i = [ns |-> n, key |-> k, version |-> from.data[n][k]]
      BY <1>2, <1>3, <1>6
    <3>2. from.data \in [Namespaces -> [Keys -> Versions]]
      BY DEF Maps
    <3> QED
      BY <1>1, <3>1, <3>2
  <2>2. i.ns \in maps.spaces
    BY <1>3, <1>6, <2>1
  <2>3. maps.data[i.ns][i.key] = Absent
    BY <1>3, <2>1
  <2>5. result = Says([maps EXCEPT !.data[i.ns][i.key] = i.version], "ok")
    BY <1>6, <2>2, <2>3 DEF Filled, MemoryCreatePrefix
  <2> HIDE DEF result
  <2>6. /\ result.ans = "ok"
        /\ result.maps = [spaces |-> maps.spaces,
                          data   |-> [maps.data EXCEPT ![i.ns] = [maps.data[i.ns] EXCEPT ![i.key] = i.version]]]
    BY <1>1, <2>5 DEF Says, Result
  <2>7. result.maps \in Maps
    <3>1. ASSUME NEW T \in SUBSET Namespaces, NEW f \in [Namespaces -> [Keys -> Versions]]
          PROVE  [spaces |-> T, data |-> f] \in Maps
      BY DEF Maps
    <3>2. [maps.data[i.ns] EXCEPT ![i.key] = i.version] \in [Keys -> Versions]
      BY <1>1, <2>1
    <3>3. PICK f : f = [maps.data[i.ns] EXCEPT ![i.key] = i.version]
      OBVIOUS
    <3>4. [maps.data EXCEPT ![i.ns] = f] \in [Namespaces -> [Keys -> Versions]]
      BY <1>1, <2>1, <3>2, <3>3
    <3>5. PICK g : g = [maps.data EXCEPT ![i.ns] = f]
      OBVIOUS
    <3>6. result.maps = [spaces |-> maps.spaces, data |-> g]
      BY <2>6, <3>3, <3>5, Zenon
    <3>7. maps.spaces \in SUBSET Namespaces /\ g \in [Namespaces -> [Keys -> Versions]]
      BY <1>1, <3>4, <3>5
    <3>8. [spaces |-> maps.spaces, data |-> g] \in Maps
      BY <3>1, <3>7
    <3> QED
      BY <3>6, <3>8
  <2>8. from.spaces = maps.spaces \cup { j.ns : j \in { j \in items \ {i} : j.key = None } }
    BY <1>3, <1>6
  <2>9. ASSUME NEW n \in Namespaces, NEW k \in Keys
        PROVE  result.maps.data[n][k] =
                   IF \E j \in items \ {i} : j.ns = n /\ j.key = k THEN Absent ELSE from.data[n][k]
    <3>1. CASE n = i.ns /\ k = i.key
      BY <1>1, <1>4, <2>1, <2>6, <3>1
    <3>2. CASE ~(n = i.ns /\ k = i.key)
      <4>1. (\E j \in items : j.ns = n /\ j.key = k) <=> (\E j \in items \ {i} : j.ns = n /\ j.key = k)
        BY <3>2
      <4>2. result.maps.data[n][k] = maps.data[n][k]
        BY <1>1, <2>1, <2>6, <3>2
      <4> QED
        BY <1>3, <4>1, <4>2
    <3> QED
      BY <3>1, <3>2
  <2>10. Filling(result.maps, items \ {i}, from)
    <3>1. items \ {i} \subseteq Image(from) /\ result.maps.spaces = maps.spaces
      BY <1>3, <2>6
    <3> QED
      BY <2>8, <2>9, <3>1 DEF Filling
  <2> QED
    BY <2>6, <2>7, <2>10
<1> QED
  BY <1>5, <1>6

\* What the deployment is.
LEMMA FileDeployment ==
    ASSUME AllSupported, Types, Uses("file")
    PROVE  /\ SupportsFile(deployment)
           /\ DOMAIN deployment.processOf \subseteq Callers
           /\ \A c, d \in DOMAIN deployment.processOf : ProcessOf(c) = ProcessOf(d)
           /\ \A c \in DOMAIN deployment.processOf :
                  ProcessOf(c) \in Processes /\ CallersOf(ProcessOf(c)) = DOMAIN deployment.processOf
<1>1. SupportsFile(deployment)
  BY DeploymentFacts DEF Supports, Uses
<1>2. \A c, d \in DOMAIN deployment.processOf : ProcessOf(c) = ProcessOf(d)
  BY <1>1 DEF SupportsFile, OneProcess, ProcessOf
<1>3. \A c \in DOMAIN deployment.processOf : ProcessOf(c) \in Processes
  BY DeploymentFacts DEF ProcessOf
<1>4. \A c \in DOMAIN deployment.processOf : CallersOf(ProcessOf(c)) = DOMAIN deployment.processOf
  BY <1>2 DEF CallersOf
<1> QED
  BY <1>1, <1>2, <1>3, <1>4, DeploymentFacts

\* What is known of a caller that is in a call.
LEMMA FileFacts ==
    ASSUME AllSupported, FileInv, Uses("file"), NEW c \in Callers, pc[c] # "idle"
    PROVE  /\ Types /\ op[c] # None /\ op[c] \in Operations /\ op[c].ns \in Namespaces
           /\ op[c].name \in deployment.calls
           /\ op[c].name \in PrefixCalls \cup NamespaceCalls
           /\ op[c].name \in PrefixCalls => op[c].key \in Keys
           /\ op[c].name \in NamespaceCalls \ {"ListNamespaces"} => op[c].ns \in deployment.names
           /\ c \in DOMAIN deployment.processOf /\ ProcessOf(c) \in Processes
           /\ Place(op[c].ns) = op[c].ns
           /\ AtFile(c) /\ Synced(c)
           /\ ParentOf(c) \in Maps
           /\ Contents \in Maps /\ EmptyOutside(Contents)
<1>1. Types /\ FileShape(c) /\ AtFile(c) /\ EmptyOutside(Contents)
  BY DEF FileInv, FileTypes, FileHolds
<1>2. op[c] # None /\ op[c] \in Operations /\ c \in DOMAIN deployment.processOf
      /\ op[c].name \in deployment.calls /\ (op[c].name \in PrefixCalls => op[c].key \in Keys)
      /\ (op[c].name \in NamespaceCalls \ {"ListNamespaces"} => op[c].ns \in deployment.names)
  <2>1. op[c] # None
    BY <1>1 DEF FileShape
  <2>2. op[c] \in Operations
    BY <1>1, <2>1 DEF Types
  <2> QED
    BY <1>1, <2>1, <2>2 DEF FileShape
<1>3. op[c].ns \in Namespaces /\ op[c].name \in PrefixCalls \cup NamespaceCalls
  BY <1>2 DEF Operations
<1>4. ProcessOf(c) \in Processes
  BY <1>1, <1>2, FileDeployment
<1>5. ParentOf(c) \in Maps
  BY <1>4 DEF FileInv, FileTypes, ParentOf
<1>6. Contents \in Maps
  <2>1. ASSUME NEW S \in SUBSET Namespaces, NEW f \in [Namespaces -> [Keys -> Versions]]
        PROVE  [spaces |-> S, data |-> f] \in Maps
    BY DEF Maps
  <2> QED
    BY <1>1, <2>1 DEF Contents, Types
<1>7. Place(op[c].ns) = op[c].ns
  BY DEF Place, Uses
<1>8. Synced(c)
  BY <1>2 DEF FileInv
<1> QED
  BY <1>1, <1>2, <1>3, <1>4, <1>5, <1>6, <1>7, <1>8

\* Two calls that have the lock change nothing, and nobody starts again.
LEMMA TwoRead ==
    ASSUME AllSupported, FileInv, Uses("file"), NEW c \in Callers, pc[c] # "idle", MayLock(c),
           NEW d \in Callers \ {c}, pc[d] \in FileCalls
    PROVE  /\ op[c].name \notin Persisted /\ op[d].name \notin Persisted
           /\ pc[d] \notin Saves /\ deployment.restarting = {}
           /\ exists => pc[d] \notin Loads
<1>1. pc[d] # "idle"
  BY DEF FileCalls, Loads, Saves
<1>2. /\ c \in DOMAIN deployment.processOf /\ d \in DOMAIN deployment.processOf
      /\ op[c].name \in deployment.calls /\ op[d].name \in deployment.calls
      /\ Types /\ AtFile(d) /\ SupportsFile(deployment)
      /\ ProcessOf(d) = ProcessOf(c) /\ d \in CallersOf(ProcessOf(c))
  BY <1>1, FileFacts, FileDeployment
<1>3. Holds(d)
  BY <1>2 DEF FileInv, FileLocks
<1>4. Shares(c) /\ Shares(d)
  <2>1. CASE Holds(c)
    BY <1>2, <1>3, <2>1 DEF FileInv, FileLocks
  <2>2. CASE ~Holds(c)
    <3>1. lock[ProcessOf(c)] # {}
      BY <1>2, <1>3 DEF Holds
    <3> QED
      BY <1>2, <1>3, <2>2, <3>1 DEF MayLock
  <2> QED
    BY <2>1, <2>2
<1>5. ~OneCaller(deployment)
  BY <1>2 DEF OneCaller
<1>6. "DeleteAllPrefixes" \notin deployment.calls /\ deployment.restarting = {}
  BY <1>2, <1>5 DEF SupportsFile
<1>7. op[c].name \notin Persisted /\ op[d].name \notin Persisted
  BY <1>2, <1>4, <1>6 DEF Shares, SharedCalls, Uses, Persisted
<1> QED
  BY <1>2, <1>6, <1>7 DEF AtFile

\* The lock of the process after a step of one caller.
LEMMA FileLocksStep ==
    ASSUME AllSupported, FileInv, Uses("file"), NEW c \in Callers, pc[c] # "idle", Others(c),
           pc' \in [Callers -> PCs], deployment' = deployment,
           \/ op'[c] = None /\ pc'[c] = "idle" /\ c \notin lock'[ProcessOf(c)]
           \/ op'[c] = op[c] /\ pc'[c] \in FileCalls /\ c \in lock'[ProcessOf(c)],
           \A d \in DOMAIN deployment.processOf \ {c} :
               /\ d \in lock[ProcessOf(c)] => d \in lock'[ProcessOf(c)]
               /\ d \in lock'[ProcessOf(c)] =>
                      d \in lock[ProcessOf(c)] \/ (pc[d] = "called" /\ Shares(d)),
           \A b, d \in lock'[ProcessOf(c)] \cap DOMAIN deployment.processOf :
               b # d => Shares(b) /\ Shares(d)
    PROVE  FileLocks'
<1> DEFINE D == DOMAIN deployment.processOf
           p == ProcessOf(c)
<1>1. /\ c \in D /\ D \subseteq Callers /\ Types /\ FileLocks /\ op[c] # None
      /\ \A d \in D : ProcessOf(d) = p
      /\ \A d \in Callers : op[d] = None <=> pc[d] = "idle"
  BY FileFacts, FileDeployment DEF FileInv, FileShape
<1>2. \A d \in Callers : pc[d] # "Forget" /\ pc'[d] # "Forget"
  BY <1>1 DEF Types, PCs, MidCalls, FileCalls, Loads, Saves
<1>3. \A d \in Callers : op'[d] = op[d] => Shares(d)' = Shares(d)
  BY <1>2, SharesKept
<1>4. \A d \in Callers \ {c} : op'[d] = op[d] /\ pc'[d] = pc[d] /\ Shares(d)' = Shares(d)
  BY <1>3 DEF Others
<1>5. \A d \in D : Holds(d) = (d \in lock[p])
  BY <1>1 DEF Holds
<1>6. \A d \in D : Holds(d)' = (d \in lock'[p])
  <2>1. \A d \in Callers : ProcessOf(d)' = ProcessOf(d)
    BY DEF ProcessOf
  <2> QED
    BY <1>1, <2>1 DEF Holds
<1>7. c \in lock'[p] => op'[c] = op[c] /\ Shares(c)' = Shares(c) /\ pc'[c] \in FileCalls
  BY <1>3
<1> HIDE DEF D, p
<1>8. ASSUME NEW d \in D
      PROVE  /\ pc'[d] \in FileCalls => d \in lock'[p]
             /\ d \in lock'[p] => op'[d] # None
             /\ (d \in lock'[p] /\ pc'[d] = "called") => Shares(d)'
  <2>1. "idle" \notin FileCalls /\ "called" \notin FileCalls
    BY DEF FileCalls, Loads, Saves
  <2>2. CASE d = c
    BY <1>1, <1>7, <2>1, <2>2 DEF p
  <2>3. CASE d # c
    <3>1. d \in Callers \ {c}
      BY <1>1, <2>3
    <3>2. /\ pc[d] \in FileCalls => d \in lock[p]
          /\ d \in lock[p] => op[d] # None
          /\ (d \in lock[p] /\ pc[d] = "called") => Shares(d)
      BY <1>1, <1>5 DEF FileLocks, D
    <3>3. /\ d \in lock[p] => d \in lock'[p]
          /\ d \in lock'[p] => d \in lock[p] \/ (pc[d] = "called" /\ Shares(d))
      BY <2>3 DEF D, p
    <3>4. /\ pc'[d] = pc[d] /\ op'[d] = op[d] /\ Shares(d)' = Shares(d)
          /\ pc[d] = "called" => op[d] # None
      BY <1>1, <1>4, <3>1
    <3> QED
      BY <3>2, <3>3, <3>4
  <2> QED
    BY <2>2, <2>3
<1>9. ASSUME NEW b \in D, NEW d \in D, b # d, b \in lock'[p], d \in lock'[p]
      PROVE  Shares(b)' /\ Shares(d)'
  <2>1. Shares(b) /\ Shares(d)
    BY <1>9 DEF D, p
  <2>2. \A e \in D : e \in lock'[p] => Shares(e)' = Shares(e)
    BY <1>1, <1>4, <1>7
  <2> QED
    BY <1>9, <2>1, <2>2
<1>10. D' = D
  BY DEF D
<1> QED
  BY <1>6, <1>8, <1>9, <1>10 DEF FileLocks, D

\* The other calls keep their shape, and so does this one.
LEMMA FileShapeStep ==
    ASSUME FileInv, NEW c \in Callers, Others(c), deployment' = deployment,
           \/ op'[c] = None /\ pc'[c] = "idle"
           \/ op'[c] = op[c] /\ op[c] # None /\ pc'[c] \in FileCalls
    PROVE  \A d \in Callers : FileShape(d)'
<1>1. ASSUME NEW d \in Callers \ {c} PROVE FileShape(d)'
  BY <1>1 DEF FileInv, FileShape, Others
<1>2. FileShape(c)'
  BY DEF FileInv, FileShape, MidCalls, FileCalls, Loads, Saves
<1> QED
  BY <1>1, <1>2

\* A command that another one follows.
LEMMA FileGoes ==
    ASSUME AllSupported, FileInv, Uses("file"), NEW c \in Callers, pc[c] # "idle", MayLock(c),
           NEW next \in FileCalls, GoTo(c, next),
           Lock(c) \/ (Holds(c) /\ UNCHANGED lock),
           UNCHANGED <<spaces, data, cache, got, row, dirty, indexed>>
    PROVE  /\ Types' /\ FileLocks' /\ \A d \in Callers : FileShape(d)'
           /\ Others(c) /\ op' = op /\ pc'[c] = next /\ deployment' = deployment
           /\ UNCHANGED AbsVars
<1> DEFINE p == ProcessOf(c)
<1>1. /\ Types /\ op[c] # None /\ p \in Processes /\ c \in DOMAIN deployment.processOf
      /\ FileLocks /\ CallersOf(p) = DOMAIN deployment.processOf
      /\ \A d \in DOMAIN deployment.processOf : ProcessOf(d) = p
  BY FileFacts, FileDeployment DEF FileInv
<1>2. /\ Others(c) /\ op' = op /\ pc'[c] = next /\ deployment' = deployment
      /\ pc' \in [Callers -> PCs] /\ UNCHANGED <<ans, copy>>
  BY <1>1 DEF GoTo, Types, PCs, Others
<1> HIDE DEF p
<1>3. lock' \in [Processes -> SUBSET Callers] /\ lock'[p] = lock[p] \cup {c}
  BY <1>1 DEF Lock, Holds, Types, p
<1>4. Types'
  <2>1. got' = [d \in Callers |-> got'[d]]
    BY <1>1 DEF Types
  <2> QED
    BY <1>1, <1>2, <1>3, <2>1 DEF Types
<1>5. \A d \in Callers : FileShape(d)'
  BY <1>1, <1>2, FileShapeStep
<1>6. ASSUME NEW d \in lock[p] \cap DOMAIN deployment.processOf, d # c
      PROVE  Shares(c) /\ Shares(d)
  <2>1. Holds(d) /\ d \in CallersOf(p) /\ lock[p] # {}
    BY <1>1, <1>6 DEF Holds
  <2>2. CASE Holds(c)
    BY <1>1, <1>6, <2>1, <2>2 DEF FileLocks
  <2>3. CASE ~Holds(c)
    BY <2>1, <2>3 DEF MayLock, p
  <2> QED
    BY <2>2, <2>3
<1>7. ASSUME NEW b \in (lock[p] \cup {c}) \cap DOMAIN deployment.processOf,
             NEW d \in (lock[p] \cup {c}) \cap DOMAIN deployment.processOf, b # d
      PROVE  Shares(b) /\ Shares(d)
  BY <1>6, <1>7
<1>8. FileLocks'
  BY <1>2, <1>3, <1>7, FileLocksStep DEF p
<1>9. UNCHANGED AbsVars
  BY <1>1, <1>2, <1>4, Unseen
<1> QED
  BY <1>2, <1>4, <1>5, <1>8, <1>9

\* The last command of a call.
LEMMA FileEnds ==
    ASSUME AllSupported, FileInv, Uses("file"), NEW c \in Callers, pc[c] \in FileCalls,
           Ends(c), Unlock(c), spaces' \in SUBSET Namespaces,
           data' \in [Namespaces -> [Keys -> Versions]], UNCHANGED <<cache, row, dirty, indexed>>
    PROVE  /\ Types' /\ FileLocks' /\ \A d \in Callers : FileShape(d)'
           /\ Others(c) /\ op'[c] = None /\ pc'[c] = "idle" /\ deployment' = deployment
<1> DEFINE p == ProcessOf(c)
           D == DOMAIN deployment.processOf
<1>0. pc[c] # "idle"
  BY DEF FileCalls, Loads, Saves
<1>1. /\ Types /\ p \in Processes /\ c \in D /\ D \subseteq Callers
      /\ FileLocks /\ CallersOf(p) = D
      /\ \A d \in D : ProcessOf(d) = p
  BY <1>0, FileFacts, FileDeployment DEF FileInv
<1>2. /\ op' \in [Callers -> Operations \cup {None}] /\ pc' \in [Callers -> PCs]
      /\ copy' \in [Callers -> Copies \cup {None}] /\ got' = [d \in Callers |-> got'[d]]
      /\ Others(c) /\ op'[c] = None /\ pc'[c] = "idle" /\ deployment' = deployment
  BY <1>1, EndsOK
<1>3. \A d \in D : Holds(d) = (d \in lock[p])
  BY <1>1 DEF Holds
<1> HIDE DEF p
<1>4. /\ lock' \in [Processes -> SUBSET Callers]
      /\ lock'[p] = IF Shares(c) THEN lock[p] \ {c}
                    ELSE { d \in D \ {c} : pc[d] = "called" /\ Shares(d) }
  BY <1>1 DEF Unlock, Types, p
<1>5. \A d \in D \ {c} : ~(~Shares(c) /\ d \in lock[p])
  BY <1>1, <1>3 DEF FileLocks
<1>6. Types'
  BY <1>1, <1>2, <1>4 DEF Types
<1>7. \A d \in Callers : FileShape(d)'
  BY <1>2, FileShapeStep
<1>8. ASSUME NEW b \in lock'[p] \cap D, NEW d \in lock'[p] \cap D, b # d
      PROVE  Shares(b) /\ Shares(d)
  BY <1>1, <1>3, <1>4, <1>8 DEF FileLocks
<1>9. FileLocks'
  BY <1>0, <1>2, <1>4, <1>5, <1>8, FileLocksStep DEF p
<1> QED
  BY <1>2, <1>6, <1>7, <1>9

\* What is known of a call that does not load or save, or whose step touches nothing of it.
LEMMA AtFileKept ==
    ASSUME NEW d \in Callers, FileInv,
           pc'[d] = pc[d], op'[d] = op[d], todo'[d] = todo[d], deployment' = deployment,
           UNCHANGED <<spaces, data, exists>>,
           pc[d] \in {"ReadFile", "Clear"} \/ ParentOf(d)' = ParentOf(d)
    PROVE  AtFile(d)'
<1>1. AtFile(d)
  BY DEF FileInv
<1>2. Contents' = Contents /\ Outcome(d)' = Outcome(d)
  BY DEF Contents, Outcome
<1>3. /\ (pc[d] \in Loads /\ exists) => deployment.restarting # {}
      /\ pc[d] = "Clear" => todo[d] = IF exists THEN Image(Contents) ELSE {}
      /\ pc[d] = "Fill" => exists /\ Filling(ParentOf(d), todo[d], Contents)
      /\ pc[d] = "Parent" => ParentOf(d) = Contents
      /\ pc[d] \in Saves =>
             op[d].name \in Persisted /\ Outcome(d).ans = "ok" /\ ParentOf(d) = Outcome(d).maps
      /\ pc[d] = "WriteData" => exists /\ todo[d] = Image(ParentOf(d))
  BY <1>1 DEF AtFile
<1>4. ~(pc[d] \in {"ReadFile", "Clear"}) => ParentOf(d)' = ParentOf(d)
  OBVIOUS
<1>5. pc[d] \in {"ReadFile", "Clear"} => pc[d] \notin {"Fill", "Parent", "WriteData"} \cup Saves
  BY DEF Saves
<1>6. /\ (pc'[d] \in Loads /\ exists') => deployment'.restarting # {}
      /\ pc'[d] = "Clear" => todo'[d] = IF exists' THEN Image(Contents') ELSE {}
      /\ pc'[d] = "Fill" => exists' /\ Filling(ParentOf(d)', todo'[d], Contents')
      /\ pc'[d] = "Parent" => ParentOf(d)' = Contents'
      /\ pc'[d] \in Saves =>
             op'[d].name \in Persisted /\ Outcome(d)'.ans = "ok" /\ ParentOf(d)' = Outcome(d)'.maps
      /\ pc'[d] = "WriteData" => exists' /\ todo'[d] = Image(ParentOf(d)')
  BY <1>2, <1>3, <1>4, <1>5
<1> QED
  BY <1>6 DEF AtFile

\* A call that neither loads nor saves.
LEMMA AtFileIdle ==
    ASSUME NEW d \in Callers, pc'[d] \notin FileCalls
    PROVE  AtFile(d)'
  BY DEF AtFile, FileCalls, Loads, Saves

\* A step that does not touch the memories or the file, and does not end a load or a
\* save.
LEMMA SyncedKept ==
    ASSUME FileInv, NEW c \in Callers, Others(c), deployment' = deployment,
           pc[c] \notin {"Clear", "Fill"} \cup Saves,
           UNCHANGED <<spaces, data, exists, synced, parent>>
    PROVE  \A d \in DOMAIN deployment'.processOf : Synced(d)'
<1> SUFFICES ASSUME NEW d \in DOMAIN deployment.processOf PROVE Synced(d)'
  OBVIOUS
<1>1. Synced(d)
  BY DEF FileInv
<1>2. /\ Contents' = Contents /\ ParentOf(d)' = ParentOf(d) /\ ProcessOf(d)' = ProcessOf(d)
      /\ synced'[ProcessOf(d)] = synced[ProcessOf(d)]
  BY DEF Contents, ParentOf, ProcessOf
<1>3. /\ (\A b \in Callers : pc'[b] \notin Saves) => \A b \in Callers : pc[b] \notin Saves
      /\ (\A b \in Callers : pc'[b] \notin {"Clear", "Fill"})
             => \A b \in Callers : pc[b] \notin {"Clear", "Fill"}
  BY DEF Others
<1> QED
  BY <1>1, <1>2, <1>3 DEF Synced

\* The memories of the processes, after one of them has changed.
LEMMA ParentStep ==
    ASSUME AllSupported, FileInv, Uses("file"), NEW c \in Callers, pc[c] # "idle",
           deployment' = deployment, NEW maps \in Maps,
           parent' = [parent EXCEPT ![ProcessOf(c)] = maps]
    PROVE  /\ parent' \in [Processes -> Maps]
           /\ \A d \in DOMAIN deployment.processOf : ParentOf(d)' = maps
<1>1. /\ parent \in [Processes -> Maps] /\ ProcessOf(c) \in Processes
      /\ c \in DOMAIN deployment.processOf
      /\ \A d \in DOMAIN deployment.processOf : ProcessOf(d) = ProcessOf(c)
  BY FileFacts, FileDeployment DEF FileInv, FileTypes
<1>2. \A d \in Callers : ProcessOf(d)' = ProcessOf(d)
  BY DEF ProcessOf
<1>3. parent' \in [Processes -> Maps] /\ parent'[ProcessOf(c)] = maps
  BY <1>1
<1> QED
  BY <1>1, <1>3 DEF ParentOf, ProcessOf

\* Who loads or saves has the lock.
LEMMA FileHasLock ==
    ASSUME AllSupported, FileInv, Uses("file"), NEW c \in Callers, pc[c] \in FileCalls
    PROVE  Holds(c) /\ MayLock(c) /\ pc[c] # "idle"
<1>1. pc[c] # "idle"
  BY DEF FileCalls, Loads, Saves
<1> QED
  BY <1>1, FileFacts DEF FileInv, FileLocks, MayLock

FileSimulates(c) == FileInv' /\ (Abstract!Serve(c) \/ UNCHANGED AbsVars)

\* reload: is the file the one of the last look?
LEMMA FileLockSimulates ==
    ASSUME AllSupported, FileInv, Uses("file"), NEW c \in Callers, FileLock(c),
           UNCHANGED <<cache, dirty, indexed, row>>
    PROVE  FileSimulates(c)
<1> DEFINE next == IF synced[ProcessOf(c)] THEN "Parent" ELSE "ReadFile"
<1>1. /\ pc[c] = "called" /\ MayLock(c) /\ Lock(c) /\ GoTo(c, next)
      /\ UNCHANGED <<spaces, data, got, todo, exists, torn, parent, synced>>
      /\ pc[c] # "idle" /\ next \in FileCalls /\ next \notin Saves
  BY DEF FileLock, fileVars, FileCalls, Loads, Saves
<1>2. /\ Types' /\ FileLocks' /\ \A d \in Callers : FileShape(d)'
      /\ Others(c) /\ op' = op /\ pc'[c] = next /\ deployment' = deployment /\ UNCHANGED AbsVars
  BY <1>1, FileGoes
<1>3. \A d \in DOMAIN deployment'.processOf : Synced(d)'
  BY <1>1, <1>2, SyncedKept DEF Saves
<1>4. ASSUME NEW d \in Callers \ {c} PROVE AtFile(d)'
  BY <1>1, <1>2, AtFileKept DEF Others, ParentOf, ProcessOf
<1>5. \A d \in Callers : pc[d] \notin Saves
  <2>1. \A d \in Callers \ {c} : pc[d] \in Saves => pc[d] \in FileCalls
    BY DEF FileCalls
  <2>2. pc[c] \notin Saves
    BY <1>1 DEF Saves
  <2> QED
    BY <1>1, <2>1, <2>2, TwoRead
<1>6. AtFile(c)'
  <2>1. Synced(c) /\ Contents' = Contents /\ ParentOf(c)' = ParentOf(c)
    BY <1>1, <1>2, FileFacts DEF Contents, ParentOf, ProcessOf
  <2>2. CASE synced[ProcessOf(c)]
    <3>1. exists
      BY <2>1, <2>2 DEF Synced
    <3>2. \A d \in Callers : pc[d] \notin {"Clear", "Fill"}
      <4>1. \A d \in Callers : pc[d] \in {"Clear", "Fill"} => pc[d] \in Loads /\ pc[d] \in FileCalls
        BY DEF FileCalls, Loads
      <4> QED
        BY <1>1, <3>1, <4>1, TwoRead
    <3>3. ParentOf(c) = Contents
      BY <1>5, <2>1, <2>2, <3>2 DEF Synced
    <3> QED
      BY <1>2, <2>1, <2>2, <3>3 DEF AtFile, Loads, Saves
  <2>3. CASE ~synced[ProcessOf(c)]
    <3>1. exists => deployment.restarting # {}
      BY <1>5, <2>1, <2>3 DEF Synced
    <3> QED
      BY <1>1, <1>2, <2>3, <3>1 DEF AtFile, Loads, Saves
  <2> QED
    BY <2>2, <2>3
<1>7. FileTypes' /\ FileHolds'
  BY <1>1, <1>2 DEF FileInv, FileTypes, FileHolds, RootStays, Contents, EmptyOutside, Blank, Empty
<1> QED
  BY <1>2, <1>3, <1>4, <1>6, <1>7 DEF FileInv, FileSimulates

\* What the file holds is read.
LEMMA FileReadFileSimulates ==
    ASSUME AllSupported, FileInv, Uses("file"), NEW c \in Callers, FileReadFile(c),
           UNCHANGED <<cache, dirty, indexed, row>>
    PROVE  FileSimulates(c)
<1> DEFINE read == IF exists THEN Image(Contents) ELSE {}
<1>0. ~BeingWritten
  <2>1. \A d \in Callers : pc[d] = "WriteData" => pc[d] \in FileCalls /\ pc[d] \in Saves
    BY DEF FileCalls, Saves
  <2>2. pc[c] = "ReadFile" /\ pc[c] \in FileCalls
    BY DEF FileReadFile, FileCalls, Loads
  <2> QED
    BY <2>1, <2>2, FileHasLock, TwoRead DEF BeingWritten
<1>1. /\ pc[c] = "ReadFile" /\ Holds(c) /\ MayLock(c) /\ GoTo(c, "Clear")
      /\ UNCHANGED <<spaces, data, lock, got, exists, torn, parent>>
      /\ synced' = [synced EXCEPT ![ProcessOf(c)] = exists]
      /\ pc[c] # "idle" /\ pc[c] \in Loads /\ pc[c] \notin Saves /\ "Clear" \in FileCalls
  BY <1>0, FileHasLock DEF FileReadFile, FileCalls, Loads, Saves, FileInv, FileHolds
<1>2. /\ Types' /\ FileLocks' /\ \A d \in Callers : FileShape(d)'
      /\ Others(c) /\ op' = op /\ pc'[c] = "Clear" /\ deployment' = deployment /\ UNCHANGED AbsVars
  BY <1>1, FileGoes
<1>3. /\ ProcessOf(c) \in Processes /\ todo = [d \in Callers |-> todo[d]] /\ AtFile(c)
      /\ synced \in [Processes -> BOOLEAN] /\ exists \in BOOLEAN
      /\ c \in DOMAIN deployment.processOf
      /\ \A d \in DOMAIN deployment.processOf : ProcessOf(d) = ProcessOf(c) /\ Synced(d)
  BY <1>1, FileFacts, FileDeployment DEF FileInv, FileTypes
<1>4. todo' = [todo EXCEPT ![c] = read]
  BY <1>0 DEF FileReadFile, Contents, FileInv, FileHolds
<1>5. todo' = [d \in Callers |-> todo'[d]] /\ todo'[c] = read /\ \A d \in Callers \ {c} : todo'[d] = todo[d]
  BY <1>3, <1>4
<1>6. ASSUME NEW d \in Callers \ {c} PROVE AtFile(d)'
  BY <1>1, <1>2, <1>5, AtFileKept DEF Others, ParentOf, ProcessOf
<1>7. AtFile(c)'
  <2>1. exists => deployment.restarting # {}
    BY <1>1, <1>3 DEF AtFile
  <2>2. Contents' = Contents
    BY <1>1 DEF Contents
  <2> HIDE DEF read
  <2>3. todo'[c] = IF exists' THEN Image(Contents') ELSE {}
    BY <1>1, <1>5, <2>2 DEF read
  <2> QED
    BY <1>1, <1>2, <2>1, <2>3 DEF AtFile, Loads, Saves
<1>8. ASSUME NEW d \in DOMAIN deployment'.processOf PROVE Synced(d)'
  <2>1. /\ ProcessOf(d) = ProcessOf(c) /\ ProcessOf(d)' = ProcessOf(d) /\ Synced(d)
        /\ synced'[ProcessOf(d)] = exists
    BY <1>1, <1>2, <1>3 DEF ProcessOf
  <2>2. Contents' = Contents /\ ParentOf(d)' = ParentOf(d)
    BY <1>1, <2>1 DEF Contents, ParentOf
  <2>3. (\A b \in Callers : pc'[b] \notin Saves) => \A b \in Callers : pc[b] \notin Saves
    BY <1>1, <1>2 DEF Others
  <2> QED
    BY <1>1, <1>2, <2>1, <2>2, <2>3 DEF Synced
<1>9. FileTypes' /\ FileHolds'
  <2>1. synced' \in [Processes -> BOOLEAN]
    BY <1>1, <1>3
  <2> QED
    BY <1>1, <1>2, <1>5, <2>1 DEF FileInv, FileTypes, FileHolds, RootStays, Contents, EmptyOutside, Blank, Empty
<1> QED
  BY <1>2, <1>6, <1>7, <1>8, <1>9 DEF FileInv, FileSimulates

\* The memory is emptied.
LEMMA FileClearSimulates ==
    ASSUME AllSupported, FileInv, Uses("file"), NEW c \in Callers, FileClear(c),
           UNCHANGED <<cache, dirty, indexed, row>>
    PROVE  FileSimulates(c)
<1> DEFINE next == IF todo[c] = {} THEN "Parent" ELSE "Fill"
           D == DOMAIN deployment.processOf
<1>1. /\ pc[c] = "Clear" /\ Holds(c) /\ MayLock(c) /\ GoTo(c, next)
      /\ UNCHANGED <<spaces, data, lock, got, todo, exists, torn, synced>>
      /\ pc[c] # "idle" /\ pc[c] \in Loads /\ next \in FileCalls /\ next \notin Saves
  BY FileHasLock DEF FileClear, FileCalls, Loads, Saves
<1>2. PICK maps : maps = [Blank EXCEPT !.spaces = @ \cap ParentOf(c).spaces]
  OBVIOUS
<1>3. parent' = [parent EXCEPT ![ProcessOf(c)] = maps]
  BY <1>2 DEF FileClear, ParentOf
<1>4. /\ Types' /\ FileLocks' /\ \A d \in Callers : FileShape(d)'
      /\ Others(c) /\ op' = op /\ pc'[c] = next /\ deployment' = deployment /\ UNCHANGED AbsVars
  BY <1>1, FileGoes
<1>5. /\ AtFile(c) /\ Synced(c) /\ Types /\ c \in D /\ D \subseteq Callers /\ SupportsFile(deployment)
      /\ Contents \in Maps /\ EmptyOutside(Contents) /\ Contents' = Contents
      /\ \A d \in D : ProcessOf(d) = ProcessOf(c) /\ ProcessOf(d)' = ProcessOf(d) /\ Synced(d)
      /\ FileHolds
  BY <1>1, <1>4, FileFacts, FileDeployment DEF Contents, FileInv, ProcessOf
<1>6. \A d \in Callers : pc[d] \notin Saves
  <2>1. \A d \in Callers \ {c} : pc[d] \in Saves => pc[d] \in FileCalls
    BY DEF FileCalls
  <2> QED
    BY <1>1, <2>1, TwoRead DEF Saves
<1>7. CASE ~exists
  <2>1. todo[c] = {} /\ ParentOf(c) = Contents /\ Contents = Blank
    BY <1>1, <1>5, <1>6, <1>7 DEF AtFile, Synced, FileHolds
  <2>2. maps = Blank
    <3>1. Blank = [spaces |-> {Root}, data |-> Blank.data] /\ Blank.spaces = {Root}
      BY DEF Blank
    <3> QED
      BY <1>2, <2>1, <3>1
  <2>3. maps \in Maps /\ maps = Contents
    BY <1>5, <2>1, <2>2
  <2>4. parent' \in [Processes -> Maps] /\ \A d \in D : ParentOf(d)' = Contents
    BY <1>1, <1>3, <1>4, <2>3, ParentStep
  <2>5. ASSUME NEW d \in Callers \ {c} PROVE AtFile(d)'
    <3>1. CASE pc[d] \notin FileCalls
      <4>1. pc'[d] \notin FileCalls
        BY <1>4, <3>1 DEF Others
      <4> QED
        BY <4>1, AtFileIdle
    <3>2. CASE pc[d] \in FileCalls
      <4>1. d \in D
        BY <3>2, FileHasLock, FileFacts
      <4>2. ParentOf(d) = Contents
        <5>1. pc[d] # "Fill" => ParentOf(d) = ParentOf(c)
          BY <1>5, <4>1 DEF ParentOf
        <5>2. pc[d] # "Fill"
          BY <1>7 DEF FileInv, AtFile
        <5> QED
          BY <2>1, <5>1, <5>2
      <4> QED
        BY <1>1, <1>4, <1>5, <2>4, <4>1, <4>2, AtFileKept DEF Others
    <3> QED
      BY <3>1, <3>2
  <2>6. AtFile(c)'
    BY <1>1, <1>4, <1>5, <1>7, <2>1, <2>4 DEF AtFile, Loads, Saves
  <2>7. ASSUME NEW d \in DOMAIN deployment'.processOf PROVE Synced(d)'
    <3>1. d \in D
      BY <1>4
    <3>2. synced'[ProcessOf(d)'] = synced[ProcessOf(d)] /\ Synced(d)
      BY <1>1, <1>5, <3>1
    <3>3. ParentOf(d)' = Contents'
      BY <1>5, <2>4, <3>1
    <3> QED
      BY <1>1, <1>7, <3>2, <3>3 DEF Synced
  <2>8. FileTypes' /\ FileHolds'
    BY <1>1, <1>4, <1>5, <2>4 DEF FileInv, FileTypes, FileHolds, RootStays, EmptyOutside, Blank, Empty
  <2> QED
    BY <1>4, <2>5, <2>6, <2>7, <2>8 DEF FileInv, FileSimulates
<1>8. CASE exists
  <2>1. deployment.restarting # {} /\ todo[c] = Image(Contents)
    BY <1>1, <1>5, <1>8 DEF AtFile
  <2>2. Root \in Contents.spaces
    BY <1>5, <2>1 DEF SupportsFile, FileHolds, RootStays, Contents
  <2>3. maps \in Maps /\ todo[c] # {} /\ Filling(maps, todo[c], Contents)
    BY <1>2, <1>5, <2>1, <2>2, FillStarts
  <2>4. parent' \in [Processes -> Maps] /\ \A d \in D : ParentOf(d)' = maps
    BY <1>1, <1>3, <1>4, <2>3, ParentStep
  <2>5. ASSUME NEW d \in Callers \ {c} PROVE AtFile(d)'
    <3>1. pc[d] \notin FileCalls
      BY <1>1, <2>1, TwoRead
    <3>2. pc'[d] \notin FileCalls
      BY <1>4, <3>1 DEF Others
    <3> QED
      BY <3>2, AtFileIdle
  <2>6. AtFile(c)'
    <3>1. pc'[c] = "Fill"
      BY <1>4, <2>3
    <3>2. Filling(ParentOf(c)', todo'[c], Contents')
      BY <1>1, <1>5, <2>3, <2>4
    <3> QED
      BY <1>1, <1>4, <1>8, <2>1, <3>1, <3>2 DEF AtFile, Saves
  <2>7. ASSUME NEW d \in DOMAIN deployment'.processOf PROVE Synced(d)'
    <3>1. pc'[c] = "Fill"
      BY <1>4, <2>3
    <3> QED
      BY <1>1, <1>4, <1>8, <2>1, <3>1 DEF Synced
  <2>8. FileTypes' /\ FileHolds'
    BY <1>1, <1>4, <1>5, <2>4 DEF FileInv, FileTypes, FileHolds, RootStays, EmptyOutside, Blank, Empty
  <2> QED
    BY <1>4, <2>5, <2>6, <2>7, <2>8 DEF FileInv, FileSimulates
<1> QED
  BY <1>7, <1>8

\* One item of the file gets into the memory, and no load ends with an error.
LEMMA FileFillSimulates ==
    ASSUME AllSupported, FileInv, Uses("file"), NEW c \in Callers, FileFill(c),
           UNCHANGED <<cache, dirty, indexed, row>>
    PROVE  FileSimulates(c)
<1> DEFINE D == DOMAIN deployment.processOf
<1>1. /\ pc[c] = "Fill" /\ Holds(c) /\ MayLock(c) /\ UNCHANGED <<spaces, data, exists, torn, synced>>
      /\ pc[c] # "idle" /\ pc[c] \in Loads /\ pc[c] \notin Saves
  BY FileHasLock DEF FileFill, FileCalls, Loads, Saves
<1>2. /\ AtFile(c) /\ Types /\ c \in D /\ D \subseteq Callers /\ ParentOf(c) \in Maps
      /\ Contents \in Maps /\ EmptyOutside(Contents) /\ Contents' = Contents
      /\ \A d \in D : ProcessOf(d) = ProcessOf(c) /\ Synced(d)
      /\ todo = [d \in Callers |-> todo[d]]
  BY <1>1, FileFacts, FileDeployment DEF Contents, FileInv, FileTypes
<1>3. exists /\ deployment.restarting # {} /\ Filling(ParentOf(c), todo[c], Contents)
  BY <1>1, <1>2 DEF AtFile
<1>4. PICK i \in todo[c] :
          LET result == Filled(ParentOf(c), i)
              left   == IF result.ans = "ok" THEN todo[c] \ {i} ELSE {}
          IN  /\ \A j \in todo[c] : (j.ns = i.ns /\ j.key = None) => j = i
              /\ parent' = [parent EXCEPT ![ProcessOf(c)] = result.maps]
              /\ todo' = [todo EXCEPT ![c] = left]
              /\ IF result.ans = "ok"
                 THEN GoTo(c, IF left = {} THEN "Parent" ELSE "Fill") /\ UNCHANGED <<got, lock>>
                 ELSE Answer(c, "error") /\ Unlock(c)
  BY DEF FileFill, ParentOf
<1>5. PICK maps : maps = Filled(ParentOf(c), i).maps
  OBVIOUS
<1>6. /\ Filled(ParentOf(c), i).ans = "ok" /\ maps \in Maps
      /\ Filling(maps, todo[c] \ {i}, Contents)
  BY <1>2, <1>3, <1>4, <1>5, FillsOne
<1>7. PICK next : next = IF todo[c] \ {i} = {} THEN "Parent" ELSE "Fill"
  OBVIOUS
<1>8. /\ parent' = [parent EXCEPT ![ProcessOf(c)] = maps]
      /\ todo' = [todo EXCEPT ![c] = todo[c] \ {i}]
      /\ GoTo(c, next) /\ UNCHANGED <<got, lock>>
      /\ next \in FileCalls /\ next \notin Saves
  BY <1>4, <1>5, <1>6, <1>7 DEF FileCalls, Loads, Saves
<1>9. /\ Types' /\ FileLocks' /\ \A d \in Callers : FileShape(d)'
      /\ Others(c) /\ op' = op /\ pc'[c] = next /\ deployment' = deployment /\ UNCHANGED AbsVars
  BY <1>1, <1>8, FileGoes
<1>10. parent' \in [Processes -> Maps] /\ \A d \in D : ParentOf(d)' = maps
  BY <1>1, <1>6, <1>8, <1>9, ParentStep
<1>11. todo' = [d \in Callers |-> todo'[d]] /\ todo'[c] = todo[c] \ {i}
  BY <1>2, <1>8
<1>12. todo[c] \ {i} = {} => maps = Contents
  BY <1>2, <1>6, FilledAll
<1>13. ASSUME NEW d \in Callers \ {c} PROVE AtFile(d)'
  <2>1. pc[d] \notin FileCalls
    BY <1>1, <1>3, TwoRead
  <2>2. pc'[d] \notin FileCalls
    BY <1>9, <2>1 DEF Others
  <2> QED
    BY <2>2, AtFileIdle
<1>14. AtFile(c)'
  <2>1. CASE todo[c] \ {i} = {}
    <3>1. pc'[c] = "Parent" /\ ParentOf(c)' = Contents'
      BY <1>2, <1>7, <1>9, <1>10, <1>12, <2>1
    <3> QED
      BY <1>1, <1>3, <1>9, <3>1 DEF AtFile, Loads, Saves
  <2>2. CASE todo[c] \ {i} # {}
    <3>1. pc'[c] = "Fill" /\ Filling(ParentOf(c)', todo'[c], Contents')
      BY <1>2, <1>6, <1>7, <1>9, <1>10, <1>11, <2>2
    <3> QED
      BY <1>1, <1>3, <1>9, <3>1 DEF AtFile, Saves
  <2> QED
    BY <2>1, <2>2
<1>15. ASSUME NEW d \in DOMAIN deployment'.processOf PROVE Synced(d)'
  <2>1. d \in D /\ exists'
    BY <1>1, <1>3, <1>9
  <2>2. pc'[c] \notin {"Clear", "Fill"} => ParentOf(d)' = Contents'
    BY <1>2, <1>7, <1>9, <1>10, <1>12, <2>1
  <2> QED
    BY <1>3, <1>9, <2>1, <2>2 DEF Synced
<1>16. FileTypes' /\ FileHolds'
  BY <1>1, <1>2, <1>9, <1>10, <1>11
  DEF FileInv, FileTypes, FileHolds, RootStays, EmptyOutside, Blank, Empty
<1> QED
  BY <1>9, <1>13, <1>14, <1>15, <1>16 DEF FileInv, FileSimulates

\* Nobody else changes what a call is about to persist.
LEMMA SavesAlone ==
    ASSUME AllSupported, FileInv, Uses("file"), NEW c \in Callers, pc[c] \in FileCalls,
           op[c].name \in Persisted, Others(c)
    PROVE  \A d \in Callers \ {c} : AtFile(d)'
<1> SUFFICES ASSUME NEW d \in Callers \ {c} PROVE AtFile(d)'
  OBVIOUS
<1>1. pc[d] \notin FileCalls
  BY FileHasLock, TwoRead
<1>2. pc'[d] \notin FileCalls
  BY <1>1 DEF Others
<1> QED
  BY <1>2, AtFileIdle

\* A DeleteAllPrefixes is of a namespace that is there.
LEMMA FileDeletesInside ==
    ASSUME AllSupported, FileInv, Uses("file"), NEW c \in Callers, pc[c] # "idle",
           op[c].name = "DeleteAllPrefixes"
    PROVE  op[c].ns \in spaces
<1>1. SupportsFile(deployment) /\ op[c].name \in deployment.calls /\ op[c].ns \in deployment.names
  BY FileFacts, FileDeployment DEF NamespaceCalls
<1> QED
  BY <1>1 DEF SupportsFile, FileInv, FileHolds, RootStays

\* The call of the memory, of which nobody sees anything when it has changed something.
LEMMA FileParentSimulates ==
    ASSUME AllSupported, FileInv, Uses("file"), NEW c \in Callers, FileParent(c),
           UNCHANGED <<cache, dirty, indexed, row>>
    PROVE  FileSimulates(c)
<1> DEFINE D == DOMAIN deployment.processOf
<1>1. /\ pc[c] = "Parent" /\ Holds(c) /\ MayLock(c)
      /\ UNCHANGED <<spaces, data, todo, exists, torn, synced>>
      /\ pc[c] # "idle" /\ pc[c] \in FileCalls /\ pc[c] \notin {"Clear", "Fill"} \cup Saves
  BY FileHasLock DEF FileParent, FileCalls, Loads, Saves
<1>2. /\ AtFile(c) /\ Types /\ c \in D /\ ParentOf(c) \in Maps /\ ProcessOf(c) \in Processes
      /\ op[c] # None /\ op[c] \in Operations /\ op[c].ns \in Namespaces
      /\ op[c].name \in PrefixCalls \cup NamespaceCalls
      /\ op[c].name \in PrefixCalls => op[c].key \in Keys
      /\ Place(op[c].ns) = op[c].ns
      /\ Contents \in Maps /\ EmptyOutside(Contents) /\ Contents' = Contents
      /\ FileTypes /\ FileHolds
  BY <1>1, FileFacts DEF Contents, FileInv
<1>3. ParentOf(c) = Contents
  BY <1>1, <1>2 DEF AtFile
<1>4. PICK result : result = Outcome(c)
  OBVIOUS
<1>5. /\ parent' = [parent EXCEPT ![ProcessOf(c)] = result.maps]
      /\ IF op[c].name \in Persisted /\ result.ans = "ok"
         THEN GoTo(c, "Truncate") /\ UNCHANGED <<got, lock>>
         ELSE Give(c, result.ans, result.copy, result.got) /\ Unlock(c)
  BY <1>3, <1>4 DEF FileParent, ParentOf, Outcome
<1>6. /\ result.maps \in Maps
      /\ (op[c].name \notin Persisted \/ result.ans # "ok") => result.maps = Contents
  BY <1>2, <1>4, MemoryKeeps DEF Outcome
<1>7. CASE op[c].name \in Persisted /\ result.ans = "ok"
  <2>1. GoTo(c, "Truncate") /\ UNCHANGED <<got, lock>> /\ "Truncate" \in FileCalls
    BY <1>5, <1>7 DEF FileCalls, Saves
  <2>2. /\ Types' /\ FileLocks' /\ \A d \in Callers : FileShape(d)'
        /\ Others(c) /\ op' = op /\ pc'[c] = "Truncate" /\ deployment' = deployment
        /\ UNCHANGED AbsVars
    BY <1>1, <2>1, FileGoes
  <2>3. parent' \in [Processes -> Maps] /\ \A d \in D : ParentOf(d)' = result.maps
    BY <1>1, <1>5, <1>6, <2>2, ParentStep
  <2>4. \A d \in Callers \ {c} : AtFile(d)'
    BY <1>1, <1>7, <2>2, SavesAlone
  <2>5. AtFile(c)'
    <3>1. Outcome(c)' = result /\ ParentOf(c)' = result.maps
      BY <1>2, <1>4, <2>2, <2>3 DEF Outcome
    <3> QED
      BY <1>7, <2>2, <3>1 DEF AtFile, Loads
  <2>6. ASSUME NEW d \in DOMAIN deployment'.processOf PROVE Synced(d)'
    <3>1. synced[ProcessOf(d)] => exists
      BY <2>2 DEF FileInv, Synced
    <3>2. ProcessOf(d)' = ProcessOf(d) /\ pc'[c] \in Saves
      BY <2>2 DEF ProcessOf, Saves
    <3> QED
      BY <1>1, <3>1, <3>2 DEF Synced
  <2>7. FileTypes' /\ FileHolds'
    BY <1>1, <1>2, <2>2, <2>3 DEF FileTypes, FileHolds, RootStays, EmptyOutside, Blank, Empty
  <2> QED
    BY <2>2, <2>4, <2>5, <2>6, <2>7 DEF FileInv, FileSimulates
<1>8. CASE op[c].name \notin Persisted \/ result.ans # "ok"
  <2>1. Give(c, result.ans, result.copy, result.got) /\ Unlock(c) /\ result.maps = Contents
    BY <1>5, <1>6, <1>8
  <2>2. parent' = parent
    <3>1. parent \in [Processes -> Maps] /\ parent[ProcessOf(c)] = result.maps
      BY <1>2, <1>3, <2>1 DEF FileTypes, ParentOf
    <3> QED
      BY <1>5, <3>1
  <2>3. Served(c)
    <3>1. result.maps.spaces = spaces /\ result.maps.data = data
      BY <2>1 DEF Contents
    <3> QED
      BY <1>1, <1>4, <2>1, <3>1 DEF Served, Outcome
  <2>4. Ends(c)
    <3>1. result.copy \in Copies \cup {None}
      BY <1>2, <1>4, MemoryCopies DEF Outcome
    <3> QED
      BY <2>1, <3>1 DEF Give, Ends
  <2>5. /\ Types' /\ FileLocks' /\ \A d \in Callers : FileShape(d)'
        /\ Others(c) /\ op'[c] = None /\ pc'[c] = "idle" /\ deployment' = deployment
    <3>1. spaces' \in SUBSET Namespaces /\ data' \in [Namespaces -> [Keys -> Versions]]
      BY <1>1, <1>2 DEF Types
    <3>2. pc[c] \in FileCalls /\ UNCHANGED <<cache, row, dirty, indexed>>
      BY <1>1
    <3> QED
      BY <2>1, <2>4, <3>1, <3>2, FileEnds
  <2>6. Abstract!Serve(c)
    <3>1. op[c].ns \notin spaces => data[op[c].ns] = Empty
      BY <1>2 DEF EmptyOutside, Contents
    <3>2. op[c].name = "DeleteAllPrefixes" => op[c].ns \in spaces
      BY <1>1, FileDeletesInside
    <3> QED
      BY <1>2, <2>3, <2>5, <3>1, <3>2, ServedServes
  <2>7. ASSUME NEW d \in Callers \ {c} PROVE AtFile(d)'
    <3>1. ParentOf(d)' = ParentOf(d)
      BY <2>2, <2>5 DEF ParentOf, ProcessOf
    <3>2. pc'[d] = pc[d] /\ op'[d] = op[d]
      BY <2>5 DEF Others
    <3> QED
      BY <1>1, <2>5, <3>1, <3>2, AtFileKept
  <2>8. AtFile(c)'
    BY <2>5, AtFileIdle DEF FileCalls, Loads, Saves
  <2>9. \A d \in DOMAIN deployment'.processOf : Synced(d)'
    BY <1>1, <2>2, <2>5, SyncedKept
  <2>10. FileTypes' /\ FileHolds'
    BY <1>1, <1>2, <2>2, <2>5 DEF FileTypes, FileHolds, RootStays, EmptyOutside, Blank, Empty
  <2> QED
    BY <2>5, <2>6, <2>7, <2>8, <2>9, <2>10 DEF FileInv, FileSimulates
<1> QED
  BY <1>7, <1>8

\* The file is cut.
LEMMA FileTruncateSimulates ==
    ASSUME AllSupported, FileInv, Uses("file"), NEW c \in Callers, FileTruncate(c),
           UNCHANGED <<cache, dirty, indexed, row>>
    PROVE  FileSimulates(c)
<1>1. /\ pc[c] = "Truncate" /\ Holds(c) /\ MayLock(c) /\ GoTo(c, "WriteData")
      /\ UNCHANGED <<spaces, data, lock, got, parent>>
      /\ todo' = [todo EXCEPT ![c] = Image(ParentOf(c))]
      /\ exists' = TRUE /\ torn' = FALSE /\ synced' = [p \in Processes |-> FALSE]
      /\ pc[c] # "idle" /\ pc[c] \in Saves /\ pc[c] \in FileCalls /\ "WriteData" \in FileCalls
  BY FileHasLock DEF FileTruncate, FileCalls, Loads, Saves, ParentOf
<1>2. /\ Types' /\ FileLocks' /\ \A d \in Callers : FileShape(d)'
      /\ Others(c) /\ op' = op /\ pc'[c] = "WriteData" /\ deployment' = deployment
      /\ UNCHANGED AbsVars
  BY <1>1, FileGoes
<1>3. /\ AtFile(c) /\ todo = [d \in Callers |-> todo[d]] /\ FileTypes /\ FileHolds
      /\ Contents' = Contents /\ Outcome(c)' = Outcome(c) /\ ParentOf(c)' = ParentOf(c)
  BY <1>1, <1>2, FileFacts DEF FileInv, FileTypes, Contents, Outcome, ParentOf, ProcessOf
<1>4. /\ op[c].name \in Persisted /\ Outcome(c).ans = "ok" /\ ParentOf(c) = Outcome(c).maps
  BY <1>1, <1>3 DEF AtFile
<1>5. todo' = [d \in Callers |-> todo'[d]] /\ todo'[c] = Image(ParentOf(c))
  BY <1>1, <1>3
<1>6. \A d \in Callers \ {c} : AtFile(d)'
  BY <1>1, <1>2, <1>4, SavesAlone
<1>7. AtFile(c)'
  BY <1>1, <1>2, <1>3, <1>4, <1>5 DEF AtFile, Loads
<1>8. \A d \in DOMAIN deployment'.processOf : Synced(d)'
  BY <1>1, <1>2 DEF Synced, Saves
<1>9. FileTypes' /\ FileHolds'
  BY <1>1, <1>2, <1>3, <1>5 DEF FileTypes, FileHolds, RootStays, EmptyOutside, Empty
<1> QED
  BY <1>2, <1>6, <1>7, <1>8, <1>9 DEF FileInv, FileSimulates

\* The file is written: it has what the memory has, and the call has been served.
LEMMA FileWriteDataSimulates ==
    ASSUME AllSupported, FileInv, Uses("file"), NEW c \in Callers, FileWriteData(c),
           UNCHANGED <<cache, dirty, indexed, row>>
    PROVE  FileSimulates(c)
<1> DEFINE D == DOMAIN deployment.processOf
<1>1. /\ pc[c] = "WriteData" /\ Holds(c) /\ MayLock(c) /\ Answer(c, "ok") /\ Unlock(c)
      /\ spaces' = Content(todo[c]).spaces /\ data' = Content(todo[c]).data
      /\ synced' = [p \in Processes |-> p = ProcessOf(c)]
      /\ todo' = [todo EXCEPT ![c] = {}]
      /\ UNCHANGED <<exists, torn, parent>>
      /\ pc[c] # "idle" /\ pc[c] \in Saves /\ pc[c] \in FileCalls
  BY FileHasLock DEF FileWriteData, FileCalls, Saves
<1>2. /\ AtFile(c) /\ Types /\ c \in D /\ ParentOf(c) \in Maps /\ ProcessOf(c) \in Processes
      /\ op[c] # None /\ op[c] \in Operations /\ op[c].ns \in Namespaces
      /\ op[c].name \in PrefixCalls \cup NamespaceCalls /\ op[c].name \in deployment.calls
      /\ op[c].name \in PrefixCalls => op[c].key \in Keys
      /\ op[c].name \in NamespaceCalls \ {"ListNamespaces"} => op[c].ns \in deployment.names
      /\ Place(op[c].ns) = op[c].ns
      /\ Contents \in Maps /\ EmptyOutside(Contents)
      /\ \A d \in D : ProcessOf(d) = ProcessOf(c)
      /\ FileTypes /\ FileHolds
  BY <1>1, FileFacts, FileDeployment DEF FileInv
<1>3. PICK result : result = Outcome(c)
  OBVIOUS
<1>4. /\ op[c].name \in Persisted /\ result.ans = "ok" /\ ParentOf(c) = result.maps
      /\ exists /\ todo[c] = Image(result.maps)
  BY <1>1, <1>2, <1>3 DEF AtFile
<1>5. /\ result.maps \in Maps /\ EmptyOutside(result.maps)
      /\ result.copy = None /\ result.got = None
      /\ (Root \in spaces /\ (op[c].name = "DeleteNamespace" => op[c].ns # Root))
             => Root \in result.maps.spaces
  <2>1. Contents.spaces = spaces
    BY DEF Contents
  <2> QED
    BY <1>2, <1>3, <1>4, <2>1, MemoryKeeps DEF Outcome
<1>6. spaces' = result.maps.spaces /\ data' = result.maps.data /\ Contents' = result.maps
  <2>1. Content(todo[c]) = result.maps
    BY <1>4, <1>5, ContentOfImage
  <2>2. result.maps = [spaces |-> result.maps.spaces, data |-> result.maps.data]
    BY <1>5 DEF Maps
  <2> QED
    BY <1>1, <2>1, <2>2 DEF Contents
<1>7. Served(c)
  BY <1>1, <1>3, <1>4, <1>5, <1>6 DEF Served, Outcome, Answer
<1>8. /\ Types' /\ FileLocks' /\ \A d \in Callers : FileShape(d)'
      /\ Others(c) /\ op'[c] = None /\ pc'[c] = "idle" /\ deployment' = deployment
  <2>1. spaces' \in SUBSET Namespaces /\ data' \in [Namespaces -> [Keys -> Versions]]
    BY <1>5, <1>6 DEF Maps
  <2>2. Ends(c) /\ UNCHANGED <<cache, row, dirty, indexed>>
    BY <1>1, AnswerEnds
  <2> QED
    BY <1>1, <2>1, <2>2, FileEnds
<1>9. Abstract!Serve(c)
  <2>1. op[c].ns \notin spaces => data[op[c].ns] = Empty
    BY <1>2 DEF EmptyOutside, Contents
  <2>2. op[c].name = "DeleteAllPrefixes" => op[c].ns \in spaces
    BY <1>1, FileDeletesInside
  <2> QED
    BY <1>2, <1>7, <1>8, <2>1, <2>2, ServedServes
<1>10. \A d \in Callers \ {c} : AtFile(d)'
  BY <1>1, <1>4, <1>8, SavesAlone
<1>11. AtFile(c)'
  BY <1>8, AtFileIdle DEF FileCalls, Loads, Saves
<1>12. ASSUME NEW d \in DOMAIN deployment'.processOf PROVE Synced(d)'
  <2>1. ProcessOf(d)' = ProcessOf(c) /\ exists'
    BY <1>1, <1>2, <1>4, <1>8 DEF ProcessOf
  <2>2. synced'[ProcessOf(d)'] /\ ParentOf(d)' = Contents'
    BY <1>1, <1>2, <1>4, <1>6, <2>1 DEF ParentOf
  <2> QED
    BY <2>1, <2>2 DEF Synced
<1>13. FileTypes'
  <2>1. todo' = [d \in Callers |-> todo'[d]]
    BY <1>1, <1>2 DEF FileTypes
  <2>2. synced' \in [Processes -> BOOLEAN]
    BY <1>1
  <2> QED
    BY <1>1, <1>2, <1>8, <2>1, <2>2 DEF FileTypes
<1>14. FileHolds'
  <2>1. EmptyOutside(Contents')
    BY <1>5, <1>6
  <2>2. RootStays => Root \in spaces'
    <3>1. RootStays => (op[c].name = "DeleteNamespace" => op[c].ns # Root)
      BY <1>2 DEF RootStays, NamespaceCalls
    <3> QED
      BY <1>2, <1>5, <1>6, <3>1 DEF FileHolds
  <2> QED
    BY <1>1, <1>2, <1>4, <1>8, <2>1, <2>2 DEF FileHolds, RootStays, EmptyOutside, Empty
<1> QED
  BY <1>8, <1>9, <1>10, <1>11, <1>12, <1>13, <1>14 DEF FileInv, FileSimulates

\* Every command of the file storage.
LEMMA FileStepSimulates ==
    ASSUME AllSupported, FileInv, Uses("file"), NEW c \in Callers, FileStep(c),
           UNCHANGED <<dirty, indexed, row>>
    PROVE  FileSimulates(c) /\ deployment' = deployment
<1>1. deployment' = deployment
  BY DEF FileStep, FileLock, FileReadFile, FileClear, FileFill, FileParent, FileTruncate,
         FileWriteData, GoTo, Give, Answer
<1>2. FileSimulates(c)
  BY FileLockSimulates, FileReadFileSimulates, FileClearSimulates, FileFillSimulates,
     FileParentSimulates, FileTruncateSimulates, FileWriteDataSimulates DEF FileStep
<1> QED
  BY <1>1, <1>2

\* A call begins.
LEMMA FileCallSimulates ==
    ASSUME AllSupported, FileInv, Uses("file"), NEW c \in Callers, Call(c),
           UNCHANGED <<dirty, indexed, row, fileVars>>
    PROVE  FileInv' /\ Abstract!Call(c)
<1> DEFINE D == DOMAIN deployment.processOf
<1>1. /\ Types /\ pc[c] = "idle" /\ op[c] = None /\ c \in D /\ D \subseteq Callers
      /\ UNCHANGED <<deployment, spaces, data, lock, todo, exists, torn, parent, synced>>
  BY FileDeployment DEF FileInv, FileTypes, FileShape, Call, Idle, fileVars
<1>2. /\ Types' /\ Others(c) /\ pc'[c] = "called" /\ op'[c] # None
      /\ op'[c].name \in deployment.calls
      /\ op'[c].name \in PrefixCalls => op'[c].key \in Keys
      /\ op'[c].name \in NamespaceCalls \ {"ListNamespaces"} => op'[c].ns \in deployment.names
      /\ Abstract!Call(c)
  BY <1>1, CallSeen
<1>3. ASSUME NEW d \in Callers \ {c} PROVE FileShape(d)' /\ AtFile(d)'
  <2>1. FileShape(d)'
    BY <1>1, <1>2 DEF FileInv, FileShape, Others
  <2>2. AtFile(d)'
    BY <1>1, <1>2, AtFileKept DEF Others, ParentOf, ProcessOf
  <2> QED
    BY <2>1, <2>2
<1>4. FileShape(c)' /\ AtFile(c)'
  BY <1>1, <1>2, AtFileIdle DEF FileShape, MidCalls, FileCalls, Loads, Saves
<1>5. \A d \in DOMAIN deployment'.processOf : Synced(d)'
  BY <1>1, <1>2, SyncedKept DEF Saves
<1>6. FileLocks'
  <2>1. \A d \in Callers : pc[d] # "Forget" /\ pc'[d] # "Forget"
    BY <1>1, <1>2 DEF Types, PCs, MidCalls, FileCalls, Loads, Saves
  <2>2. \A d \in Callers \ {c} : op'[d] = op[d] /\ pc'[d] = pc[d] /\ Shares(d)' = Shares(d)
    BY <1>1, <1>2, <2>1, SharesKept DEF Others
  <2>3. \A d \in Callers : Holds(d)' = Holds(d)
    BY <1>1 DEF Holds, ProcessOf
  <2>4. ~Holds(c)
    BY <1>1 DEF FileInv, FileLocks
  <2>5. "called" \notin FileCalls
    BY DEF FileCalls, Loads, Saves
  <2> HIDE DEF D
  <2>6. ASSUME NEW d \in D
        PROVE  /\ pc'[d] \in FileCalls => Holds(d)'
               /\ Holds(d)' => op'[d] # None
               /\ (Holds(d)' /\ pc'[d] = "called") => Shares(d)'
               /\ \A e \in D \ {d} : (Holds(d)' /\ Holds(e)') => (Shares(d)' /\ Shares(e)')
    BY <1>1, <1>2, <2>2, <2>3, <2>4, <2>5 DEF FileInv, FileLocks, D
  <2> QED
    BY <1>1, <2>6 DEF FileLocks, D
<1>7. FileTypes' /\ FileHolds'
  BY <1>1, <1>2 DEF FileInv, FileTypes, FileHolds, RootStays, Contents, EmptyOutside, Blank, Empty
<1> QED
  BY <1>2, <1>3, <1>4, <1>5, <1>6, <1>7 DEF FileInv

\* The only caller starts again with an empty memory, and will load the file.
LEMMA FileStopSimulates ==
    ASSUME AllSupported, FileInv, Uses("file"), NEW p \in Processes,
           Stop(p), MongoStart, SqlRollback(p), FileStop(p), UNCHANGED dirty
    PROVE  FileInv' /\ \E S \in SUBSET Callers : Abstract!Stop(S)
<1> DEFINE D == DOMAIN deployment.processOf
<1>1. /\ Types /\ D \subseteq Callers /\ SupportsFile(deployment) /\ deployment' = deployment
      /\ \A c \in D : ProcessOf(c) \in Processes
  BY FileDeployment DEF FileInv, FileTypes, Stop
<1>2. deployment.restarting # {} /\ OneCaller(deployment) /\ \A c \in CallersOf(p) : pc[c] = "idle"
  BY <1>1 DEF Stop, SupportsFile
<1>3. /\ UNCHANGED <<spaces, data, exists, torn, indexed>>
      /\ parent' = [parent EXCEPT ![p] = Blank] /\ synced' = [synced EXCEPT ![p] = FALSE]
      /\ lock' = [lock EXCEPT ![p] = {}]
      /\ todo' = [c \in Callers |-> IF c \in CallersOf(p) THEN {} ELSE todo[c]]
  <2>1. Root \in spaces
    BY <1>1, <1>2 DEF SupportsFile, FileInv, FileHolds, RootStays
  <2>2. UNCHANGED <<spaces, data, indexed>>
    BY <1>2, <2>1, StartsThere
  <2> QED
    BY <1>2, <2>2 DEF FileStop, Stop
<1>4. /\ Types' /\ CallersOf(p) \subseteq D
      /\ \A c \in CallersOf(p) : op'[c] = None /\ pc'[c] = "idle"
      /\ \A c \in Callers \ CallersOf(p) : op'[c] = op[c] /\ pc'[c] = pc[c] /\ todo'[c] = todo[c]
      /\ \E S \in SUBSET Callers : Abstract!Stop(S)
  BY <1>1, <1>3, StopSeen DEF CallersOf
<1>5. \A c \in D : (c \in CallersOf(p)) <=> (ProcessOf(c) = p)
  BY DEF CallersOf
<1>6. /\ parent \in [Processes -> Maps] /\ synced \in [Processes -> BOOLEAN] /\ Blank \in Maps
      /\ todo' = [c \in Callers |-> todo'[c]]
  <2>1. ASSUME NEW S \in SUBSET Namespaces, NEW f \in [Namespaces -> [Keys -> Versions]]
        PROVE  [spaces |-> S, data |-> f] \in Maps
    BY DEF Maps
  <2>2. {Root} \in SUBSET Namespaces /\ [n \in Namespaces |-> Empty] \in [Namespaces -> [Keys -> Versions]]
    BY BackendAssumption DEF Empty, Versions
  <2>3. Blank \in Maps
    BY <2>1, <2>2 DEF Blank
  <2> QED
    BY <1>3, <2>3 DEF FileInv, FileTypes
<1>7. /\ parent' \in [Processes -> Maps] /\ synced' \in [Processes -> BOOLEAN]
      /\ parent'[p] = Blank /\ synced'[p] = FALSE
      /\ \A q \in Processes \ {p} : parent'[q] = parent[q] /\ synced'[q] = synced[q] /\ lock'[q] = lock[q]
      /\ lock'[p] = {}
  BY <1>1, <1>3, <1>6 DEF Types
<1>8. \A c \in Callers : ProcessOf(c)' = ProcessOf(c)
  BY <1>1 DEF ProcessOf
<1>9. ASSUME NEW c \in Callers PROVE FileShape(c)' /\ AtFile(c)'
  <2>1. CASE c \in CallersOf(p)
    BY <1>4, <2>1, AtFileIdle DEF FileShape, MidCalls, FileCalls, Loads, Saves
  <2>2. CASE c \notin CallersOf(p)
    <3>0. op'[c] = op[c] /\ pc'[c] = pc[c] /\ todo'[c] = todo[c]
      BY <1>4, <2>2
    <3>1. FileShape(c)'
      BY <1>1, <3>0 DEF FileInv, FileShape
    <3>2. CASE pc[c] \notin FileCalls
      BY <3>0, <3>1, <3>2, AtFileIdle
    <3>3. CASE pc[c] \in FileCalls
      <4>1. c \in D
        BY <3>3, FileHasLock, FileFacts
      <4>2. ParentOf(c)' = ParentOf(c)
        BY <1>1, <1>5, <1>7, <1>8, <2>2, <4>1 DEF ParentOf
      <4> QED
        BY <1>1, <1>3, <3>0, <3>1, <4>2, AtFileKept
    <3> QED
      BY <3>1, <3>2, <3>3
  <2> QED
    BY <2>1, <2>2
<1>10. FileLocks'
  <2>1. ASSUME NEW c \in D, Holds(c)'
        PROVE  /\ Holds(c) /\ op'[c] = op[c] /\ pc'[c] = pc[c]
               /\ Shares(c)' = Shares(c)
    <3>1. ProcessOf(c) # p
      BY <1>1, <1>7, <1>8, <2>1 DEF Holds
    <3>2. Holds(c) /\ op'[c] = op[c] /\ pc'[c] = pc[c]
      BY <1>1, <1>4, <1>5, <1>7, <1>8, <2>1, <3>1 DEF Holds
    <3> QED
      BY <1>1, <3>2, SharesKept
  <2>2. ASSUME NEW c \in D, pc'[c] \in FileCalls PROVE Holds(c)'
    <3>1. c \notin CallersOf(p)
      BY <1>4, <2>2 DEF FileCalls, Loads, Saves
    <3>2. ProcessOf(c) # p /\ Holds(c)
      BY <1>1, <1>4, <1>5, <2>2, <3>1 DEF FileInv, FileLocks
    <3> QED
      BY <1>1, <1>7, <1>8, <3>2 DEF Holds
  <2> HIDE DEF D
  <2>3. ASSUME NEW c \in D
        PROVE  /\ Holds(c)' => op'[c] # None
               /\ (Holds(c)' /\ pc'[c] = "called") => Shares(c)'
               /\ \A d \in D \ {c} : (Holds(c)' /\ Holds(d)') => (Shares(c)' /\ Shares(d)')
    BY <2>1 DEF FileInv, FileLocks, D
  <2> QED
    BY <1>1, <2>2, <2>3 DEF FileLocks, D
<1>11. ASSUME NEW c \in DOMAIN deployment'.processOf PROVE Synced(c)'
  <2>1. c \in D /\ Synced(c)
    BY <1>1 DEF FileInv
  <2>2. CASE c \in CallersOf(p)
    <3>0. ProcessOf(c) = p /\ ProcessOf(c)' = p
      BY <1>1, <1>5, <1>8, <2>1, <2>2
    <3>1. ~exists => ParentOf(c)' = Contents'
      BY <1>3, <1>7, <3>0 DEF FileInv, FileHolds, ParentOf, Contents
    <3>2. ~synced'[ProcessOf(c)']
      BY <1>7, <3>0
    <3> QED
      BY <1>1, <1>2, <1>3, <3>1, <3>2 DEF Synced
  <2>3. CASE c \notin CallersOf(p)
    <3>1. ParentOf(c)' = ParentOf(c) /\ synced'[ProcessOf(c)'] = synced[ProcessOf(c)]
          /\ Contents' = Contents
      BY <1>1, <1>3, <1>5, <1>7, <1>8, <2>1, <2>3 DEF ParentOf, Contents
    <3>2. \A d \in Callers : pc'[d] = pc[d]
      BY <1>2, <1>4
    <3> QED
      BY <1>1, <1>3, <2>1, <3>1, <3>2 DEF Synced
  <2> QED
    BY <2>2, <2>3
<1>12. FileTypes' /\ FileHolds'
  BY <1>1, <1>3, <1>4, <1>6, <1>7
  DEF FileInv, FileTypes, FileHolds, RootStays, Contents, EmptyOutside, Blank, Empty
<1> QED
  BY <1>4, <1>9, <1>10, <1>11, <1>12 DEF FileInv

-----------------------------------------------------------------------------
(***************************************************************************)
(* The theorem.                                                            *)
(***************************************************************************)
\* All storages begin with an empty root namespace.
LEMMA InitSimulates ==
    ASSUME AllSupported, Init
    PROVE  Inv /\ Abstract!Init
<1> USE DEF Init, BaseInit, RedisInit, MongoInit, SqlInit
<1>1. Root \in Namespaces /\ Namespaces \subseteq Seq(STRING) /\ MaxIdLength \in Nat
  BY BackendAssumption
<1>2. Types
  <2>1. Empty \in [Keys -> Versions]
    BY DEF Empty, Versions
  <2>2. cache \in [Processes -> SUBSET Namespaces]
    BY <1>1
  <2> QED
    BY <1>1, <2>1, <2>2 DEF Types, PCs
<1>3. Spaces
  <2>1. Place(Root) = Root
    <3>1. Uses("postgres") => Len(Root) < MaxIdLength
      BY <1>2, DeploymentFacts DEF Supports, SupportsPostgres, Uses
    <3>2. Len(Root) \in Nat
      BY <1>1
    <3> QED
      BY <1>1, <3>1, <3>2 DEF Place
  <2>2. \A c \in DOMAIN deployment.processOf : cache[ProcessOf(c)] \subseteq {Root}
    <3>1. \A c \in DOMAIN deployment.processOf : ProcessOf(c) \in Processes
      BY <1>2, DeploymentFacts DEF ProcessOf
    <3> QED
      BY <3>1
  <2> QED
    BY <2>1, <2>2 DEF Spaces
<1>4. Locks
  <2>1. \A c \in Callers : c \in DOMAIN deployment.processOf => ~Holds(c)
    BY <1>2, DeploymentFacts DEF Holds, ProcessOf
  <2> QED
    BY <2>1 DEF Locks, MidCalls
<1>5. \A c \in Callers : Shape(c) /\ Pending(c)
  BY DEF Shape, Pending, At, MidCalls, FileCalls, Loads, Saves
<1>6. Indexes
  BY DEF Indexes
<1>7. RInv
  BY <1>2, <1>3, <1>4, <1>5, <1>6 DEF RInv
<1>8. AbsDb = [n \in {Root} |-> Empty]
  BY <1>1, <1>2, ThereIs
<1>9. AbsGot = [c \in Callers |-> None]
  BY DEF AbsGot
<1>10. Abstract!Init
  BY <1>8, <1>9 DEF Abstract!Init, AbsDb, AbsGot, Abstract!Empty, Empty
<1>11. Lists
  BY DEF Lists
<1>12. Uses("file") => FileInv
  <2>1. FileTypes
    <3>1. [n \in Namespaces |-> Empty] \in [Namespaces -> [Keys -> Versions]]
      BY DEF Empty, Versions
    <3>2. Blank \in Maps
      BY <1>1, <3>1 DEF Blank, Maps
    <3> QED
      BY <1>2, <3>2 DEF FileInit, FileTypes
  <2>2. Contents = Blank
    BY DEF Contents, Blank
  <2>3. FileHolds
    BY <2>2 DEF FileInit, FileHolds, EmptyOutside, Blank
  <2>4. FileLocks
    <3>1. \A c \in DOMAIN deployment.processOf : ~Holds(c) /\ c \in Callers
      BY <1>2, DeploymentFacts DEF Holds, ProcessOf
    <3> QED
      BY <3>1 DEF FileLocks, FileCalls, Loads, Saves
  <2>5. \A c \in Callers : FileShape(c) /\ AtFile(c)
    BY DEF FileShape, AtFile, MidCalls, Loads, Saves
  <2>6. ASSUME NEW c \in DOMAIN deployment.processOf PROVE Synced(c)
    <3>1. ProcessOf(c) \in Processes
      BY <1>2, DeploymentFacts DEF ProcessOf
    <3>2. ParentOf(c) = Contents /\ ~synced[ProcessOf(c)] /\ ~exists
      BY <2>2, <3>1 DEF FileInit, ParentOf
    <3> QED
      BY <3>2 DEF Synced
  <2> QED
    BY <2>1, <2>3, <2>4, <2>5, <2>6 DEF FileInv
<1> QED
  BY <1>7, <1>10, <1>11, <1>12 DEF Inv, CommonInv

\* A step leaves the deployment as it is.
LEMMA StepStays ==
    ASSUME NEW c \in Callers, Step(c), ~Uses("file")
    PROVE  deployment' = deployment
<1>1. /\ \A next : GoTo(c, next) => deployment' = deployment
      /\ \A a, r, g : Give(c, a, r, g) => deployment' = deployment
      /\ \A a : Answer(c, a) => deployment' = deployment
      /\ \A version : GiveRecord(c, version) => deployment' = deployment
      /\ \A names : CheckNamespace(c, names) => deployment' = deployment
  BY DEF GoTo, Give, Answer, GiveRecord, CheckNamespace
<1>2. MemoryStep(c) => deployment' = deployment
  BY <1>1 DEF MemoryStep
<1>3. MongoStep(c) => deployment' = deployment
  BY <1>1 DEF MongoStep, MongoCheckNamespace, MongoFindOne, MongoInsertOne, MongoReadPrefix,
              MongoReplaceOne, MongoFindOneAndDelete, MongoFindAll, MongoDeleteMany,
              MongoCreateCollection, MongoCreateMany, MongoListNamespaces, MongoDrop,
              CheckNamespaceLocked
<1>4. RedisStep(c) => deployment' = deployment
  BY <1>1 DEF RedisStep, RedisCheckNamespace, RedisHExists, RedisHSet, RedisReadPrefix, RedisWatch,
              RedisHGet, RedisExec, RedisHDel, RedisHGetAll, RedisDel, RedisSRem, RedisSAdd,
              RedisSMembers, CheckNamespaceLocked
<1>5. SqlStep(c) => deployment' = deployment
  BY <1>1 DEF SqlStep, SqlCheckNamespace, SqlPrefixExists, SqlInsert, SqlReadPrefix,
              SqlSelectForUpdate, SqlUpdate, SqlDelete, SqlCommit, SqlSelectAll, SqlDeleteAll,
              SqlCreateTable, SqlListNamespaces, SqlDropTable, SqlForget
<1>6. EtcdStep(c) => deployment' = deployment
  <2>1. EtcdEmptied(c) => deployment' = deployment
    BY <1>1 DEF EtcdEmptied
  <2>2. EtcdGetKeys(c) => deployment' = deployment
    BY <1>1, <2>1 DEF EtcdGetKeys
  <2>3. EtcdDeleteKey(c) => deployment' = deployment
    BY <1>1, <2>1 DEF EtcdDeleteKey
  <2>4. EtcdGetKey(c) => deployment' = deployment
    BY <1>1 DEF EtcdGetKey
  <2> QED
    BY <1>1, <2>2, <2>3, <2>4
    DEF EtcdStep, EtcdCheckNamespace, EtcdCreateGet, EtcdCreatePut, EtcdReadPrefix, EtcdUpdateGet,
        EtcdUpdatePut, EtcdDelete, EtcdForget, EtcdCreateNamespace, EtcdListNamespaces,
        CheckNamespaceLocked
<1> QED
  BY <1>2, <1>3, <1>4, <1>5, <1>6 DEF Step

\* From outside of a DeleteNamespace.
LEMMA NextFromRest ==
    ASSUME AllSupported, RInv, Lists, ~Uses("file"), Next
    PROVE  CommonInv' /\ [Abstract!Next]_(Abstract!vars)
<1>1. Abstract!vars = AbsVars
  BY DEF Abstract!vars, AbsVars, AbsDb, AbsGot
<1>2. ASSUME NEW c \in Callers, Call(c), UNCHANGED <<dirty, indexed, row, fileVars>>
      PROVE  CommonInv' /\ [Abstract!Next]_(Abstract!vars)
  <2>1. RInv' /\ Abstract!Call(c)
    BY <1>2, CallSimulates
  <2>2. Lists'
    BY <1>2, ListsCall
  <2> QED
    BY <2>1, <2>2 DEF CommonInv, Abstract!Next
<1>3. ASSUME NEW c \in Callers, Step(c)
      PROVE  CommonInv' /\ [Abstract!Next]_(Abstract!vars)
  <2>1. Simulates(c) \/ Halves(c)
    BY <1>3, MemorySimulates, MongoSimulates, EtcdSimulates, RedisSimulates, SqlSimulates
    DEF Step
  <2>2. Lists'
    <3>1. CASE Uses("etcd")
      BY <1>3, <3>1, ListsStep DEF Step, Uses
    <3>2. CASE ~Uses("etcd")
      BY <1>3, <3>2, StepStays DEF Lists, Uses
    <3> QED
      BY <3>1, <3>2
  <2>3. CASE Simulates(c)
    <3>1. RInv' /\ [Abstract!Next]_(Abstract!vars)
      BY <2>3 DEF Simulates, AbsVars, AbsDb, AbsGot, Abstract!Next, Abstract!vars
    <3> QED
      BY <2>2, <3>1 DEF CommonInv
  <2>4. CASE Halves(c)
    BY <2>2, <2>4 DEF CommonInv, Halves, Abstract!Next
  <2> QED
    BY <2>1, <2>3, <2>4
<1>4. ASSUME NEW p \in Processes, Stop(p), MongoStart, SqlRollback(p), FileStop(p), UNCHANGED dirty
      PROVE  CommonInv' /\ [Abstract!Next]_(Abstract!vars)
  <2>1. RInv' /\ UNCHANGED <<spaces, data>> /\ \E S \in SUBSET Callers : Abstract!Stop(S)
    BY <1>4, StopSimulates
  <2>4. Lists'
    BY <1>4, <2>1, ListsStop DEF RInv, Types
  <2> QED
    BY <2>1, <2>4 DEF CommonInv, Abstract!Next
<1> QED
  BY <1>2, <1>3, <1>4 DEF Next

\* From between the halves of one.
LEMMA NextFromHalfway ==
    ASSUME AllSupported, Lists, NEW c \in Callers, Halfway(c), Next
    PROVE  CommonInv' /\ [Abstract!Next]_(Abstract!vars)
<1>1. ASSUME NEW d \in Callers PROVE ~Call(d)
  BY DEF Call, Idle, Halfway, OneCaller
<1>2. ASSUME NEW d \in Callers, Step(d)
      PROVE  CommonInv' /\ [Abstract!Next]_(Abstract!vars)
  BY <1>2, HalfwaySimulates, ListsHalfway DEF CommonInv, Abstract!Next
<1>3. ASSUME NEW p \in Processes, Stop(p), MongoStart, SqlRollback(p), FileStop(p), UNCHANGED dirty
      PROVE  CommonInv' /\ [Abstract!Next]_(Abstract!vars)
  <2>1. /\ RInv' \/ Halfway(c)'
        /\ UNCHANGED <<spaces, data>>
        /\ \E S \in SUBSET Callers : Abstract!Stop(S)
    BY <1>3, HalfwayStops
  <2>4. Lists'
    BY <1>3, <2>1, ListsStop DEF Halfway
  <2> QED
    BY <2>1, <2>4 DEF CommonInv, Abstract!Next
<1> QED
  BY <1>1, <1>2, <1>3 DEF Next

\* Of the file storage.
LEMMA NextFromFile ==
    ASSUME AllSupported, FileInv, Uses("file"), Next
    PROVE  FileInv' /\ deployment' = deployment /\ [Abstract!Next]_(Abstract!vars)
<1>1. ASSUME NEW c \in Callers, Call(c), UNCHANGED <<dirty, indexed, row, fileVars>>
      PROVE  FileInv' /\ deployment' = deployment /\ [Abstract!Next]_(Abstract!vars)
  <2>1. FileInv' /\ Abstract!Call(c)
    BY <1>1, FileCallSimulates
  <2> QED
    BY <1>1, <2>1 DEF Call, Abstract!Next
<1>2. ASSUME NEW c \in Callers, Step(c)
      PROVE  FileInv' /\ deployment' = deployment /\ [Abstract!Next]_(Abstract!vars)
  <2>1. FileStep(c) /\ UNCHANGED <<dirty, indexed, row>>
    BY <1>2 DEF Step, Uses
  <2>2. FileSimulates(c) /\ deployment' = deployment
    BY <2>1, FileStepSimulates
  <2> QED
    BY <2>2 DEF FileSimulates, AbsVars, AbsDb, AbsGot, Abstract!Next, Abstract!vars
<1>3. ASSUME NEW p \in Processes, Stop(p), MongoStart, SqlRollback(p), FileStop(p), UNCHANGED dirty
      PROVE  FileInv' /\ deployment' = deployment /\ [Abstract!Next]_(Abstract!vars)
  <2>1. FileInv' /\ \E S \in SUBSET Callers : Abstract!Stop(S)
    BY <1>3, FileStopSimulates
  <2> QED
    BY <1>3, <2>1 DEF Stop, Abstract!Next
<1> QED
  BY <1>1, <1>2, <1>3 DEF Next

\* Every step keeps the invariant and is a step of Storage, or not seen.
LEMMA NextSimulates ==
    ASSUME AllSupported, Inv, [Next]_vars
    PROVE  Inv' /\ [Abstract!Next]_(Abstract!vars)
<1>1. CASE Next /\ Uses("file")
  BY <1>1, NextFromFile DEF Inv, Uses
<1>2. CASE Next /\ ~Uses("file")
  <2>1. deployment' = deployment
    BY <1>2, StepStays DEF Next, Call, Stop
  <2>2. CommonInv' /\ [Abstract!Next]_(Abstract!vars)
    BY <1>2, NextFromRest, NextFromHalfway DEF Inv, CommonInv
  <2> QED
    BY <1>2, <2>1, <2>2 DEF Inv, Uses
<1>3. CASE UNCHANGED vars
  <2>1. RInv => RInv'
    BY <1>3 DEF vars, RInv, Types, Spaces, RootStays, Locks, Indexes, Shape, Pending, At, Uses, Place, Empty,
                Holds, Shares, SharedCalls, ProcessOf, CallersOf
  <2>2. Lists => Lists'
    BY <1>3 DEF vars, Lists, KeysLeft, RecordsOf, RecordsIn, Listed, Uses
  <2>3. \A c \in Callers : Halfway(c) => Halfway(c)'
    BY <1>3 DEF vars, Halfway, Uses, Place, Empty, ProcessOf
  <2>4. FileInv => FileInv'
    <3>1. /\ Contents' = Contents /\ \A c : ParentOf(c)' = ParentOf(c) /\ Outcome(c)' = Outcome(c)
          /\ \A c : ProcessOf(c)' = ProcessOf(c)
      BY <1>3 DEF vars, fileVars, Contents, ParentOf, Outcome, ProcessOf
    <3>2. FileTypes => FileTypes'
      BY <1>3 DEF vars, fileVars, FileTypes, Types
    <3>3. FileHolds => FileHolds'
      BY <1>3, <3>1 DEF vars, fileVars, FileHolds, EmptyOutside, RootStays, Blank, Empty
    <3>4. FileLocks => FileLocks'
      BY <1>3 DEF vars, FileLocks, Holds, Shares, SharedCalls, Uses, ProcessOf
    <3>5. \A c \in Callers : FileShape(c) => FileShape(c)'
      BY <1>3 DEF vars, FileShape
    <3>6. \A c \in Callers : FileInv => AtFile(c)'
      BY <1>3, <3>1, AtFileKept DEF vars, fileVars
    <3>7. \A c \in DOMAIN deployment.processOf : Synced(c) => Synced(c)'
      BY <1>3, <3>1 DEF vars, fileVars, Synced
    <3>8. deployment' = deployment
      BY <1>3 DEF vars
    <3> QED
      BY <3>2, <3>3, <3>4, <3>5, <3>6, <3>7, <3>8 DEF FileInv
  <2>5. UNCHANGED Abstract!vars
    BY <1>3 DEF vars, Abstract!vars, There, Uses
  <2>6. Uses("file")' = Uses("file")
    BY <1>3 DEF vars, Uses
  <2> QED
    BY <2>1, <2>2, <2>3, <2>4, <2>5, <2>6 DEF Inv, CommonInv
<1> QED
  BY <1>1, <1>2, <1>3

(***************************************************************************)
(* Where every deployment is a supported one, the storages do what the     *)
(* Storage interface promises, however the commands of the calls           *)
(* interleave and whatever process stops in between.                       *)
(***************************************************************************)
THEOREM StoragesImplementStorage ==
    AllSupported /\ Spec => ImplementsStorage
<1>1. CASE AllSupported
  <2>1. Init => Inv /\ Abstract!Init
    BY <1>1, InitSimulates
  <2>2. Inv /\ [Next]_vars => Inv' /\ [Abstract!Next]_(Abstract!vars)
    BY <1>1, NextSimulates
  <2> QED
    BY <1>1, <2>1, <2>2, PTL DEF Spec, ImplementsStorage, Abstract!Spec
<1>2. CASE ~AllSupported
  BY <1>2
<1> QED
  BY <1>1, <1>2

=============================================================================
