# A TLA+ verification of go-ipam

go-ipam hands out IP prefixes and addresses. It is a Go library with a gRPC
service on top, and keeps its records in one of six storages. Many goroutines of
many processes may use one storage at a time; what keeps them apart is a version
number in every record and, in one place, a mutex. This project models the calls
of the library, the algorithms on one record, the interface to the storage, its
six implementations with their namespaces, and the handlers of the service.

## The system

| Component | State | Operations | Hard parts |
|---|---|---|---|
| `ipamer` (`prefix.go`, `ipam.go`) | a mutex | `NewPrefix`, `DeletePrefix`, `Acquire(Specific)ChildPrefix`, `ReleaseChildPrefix`, `Acquire(Specific)IP`, `ReleaseIP`, `ReleaseIPFromPrefix`, `PrefixFrom`, `Dump`, `Load`, namespaces | read, compute, write back under optimistic locking, ten attempts; calls that need two writes |
| `Prefix` (`prefix.go`) | `Cidr`, `ParentCidr`, `isParent`, `availableChildPrefixes`, `ips`, `version` | the search for a free child or address, `hasIPs`, `Usage` | fragmentation, IPv4 next to IPv6, host bits, capped counters |
| `Storage` (`storage.go`, `errors.go`) | records by namespace and cidr | create, read, update, delete, read all, delete all, namespaces | an update compares versions |
| `memory` | maps, a lock | the interface | two namespace calls write without the write lock |
| `sql` (PostgreSQL) | a table per namespace, a cache of their names | the interface | transactions and row locks |
| `redis` | a hash per namespace, a set of names and its cache, a lock per process | the interface | create in two commands, WATCH in an update |
| `etcd` | keys `namespace@cidr`, a cache of namespaces, a lock per process | the interface | create, update and read-all are several commands |
| `mongodb` | a collection per namespace, a cache of their names, a lock per process | the interface | create in two commands over a unique index |
| `file` | a JSON file, a copy of it in a `memory`, a modification time | the interface | reload before and rewrite after every change, readers that share a lock and reload too, crashes |
| namespaces (all storages) | a set of names, in four storages cached per process | create, list, delete | caches that do not hear of a deletion, two commands to delete, names that begin alike or are too long |
| JSON form (`json.go`) | none | `toPrefixJSON`, `toPrefix` | dumps of older versions |
| service (`pkg/service`) | none | one handler per call | `ReleaseChildPrefix` makes two calls, `ListPrefixes` one per prefix, `Load` one per record |
| server, client, generated API | none of their own | flags, wiring, transport | |

A call of the service becomes a call of the `ipamer`, which becomes a few calls
of the `Storage`. Goroutines meet in the records of the storage and in the mutex
that `NewPrefix` holds; the mutex is per process, the records are shared. A
library caller keeps the `*Prefix` and `*IP` values it was given and passes them
to the release calls, possibly long after the record has changed.

What makes each part correct:

* **ipamer**: no address is out twice; an address that is out stays recorded;
  children that are out do not overlap and have a record; a prefix that
  gives out an address is not split; top-level prefixes do not overlap; no commit
  loses another one; every call returns.
* **Prefix**: a free child is found exactly when there is one; children are
  placed so that the largest hole survives; the numbers of `Usage` agree with
  what the searches find.
* **Storage**: every call is one step for its callers, and an update succeeds on
  the version it was given only.
* **each storage**: it does what `Storage` says, and nobody waits forever.
* **namespaces**: separate from each other, empty when created, and gone with
  their records when deleted; a call in one that is not there says so.
* **service**: what a list says was stored while it was made; what empties a
  namespace takes no prefix that was there when its client asked; `Load` brings
  back what was dumped; every request is answered.

## The modules

```
Netip -+- Prefix --+-- Usage --+--- MCUsage
       |           |           +--- UsageProofs (with NetipProofs)
       |           +-- Ipam --+---- MCIpam
       |                      +---- IpamProofs (with NetipProofs)
       +- NetipProofs                   |
                                    IpamLockProofs --+-- IpamForestProofs
                                                     +-- IpamLeaseProofs
Backend -+- Memory --- File -+
         +- Mongodb ---------+
         +- Etcd ------------+-- Storages -+- MCStorages
         +- Redis -----------+      :      +- StoragesProofs
         +- Sql -------------+      ImplementsStorage (INSTANCE)
                                    :
                                 Storage
Service -+- MCService
         +- ServiceProofs
```

`Ipam` and `Service` stand on what `Storage` promises, and `Storages` shows which
storage keeps that promise, and where.

**Netip** is external: the part of `net/netip` and `go4.org/netipx` that
`prefix.go` calls, from how it calls it. The address widths are the constants
`V4Bits` and `V6Bits`. `RawPrefix` is what `ParsePrefix` accepts, host bits
included; `Cidr` is what `Masked()` returns. `RemoveFreePrefix` takes the
smallest free block that is large enough, at the lowest address.

**Prefix** is the record and everything the library computes on one copy of it:
`newPrefix`, `hasIPs`, `AvailableChild` (lines 195-263), `AvailableIP` (358-393).
`taken` is the set of keys that `availableChildPrefixes` maps to `false`, and
keeps the host bits of the request as line 270 does; `ips` is the key set of the
map of that name. The searches return a set of at most one result, so that "none"
needs no special value.

**Usage** is one record under a sequence of changes, with the numbers `Usage()`
reports. A word of `uint64` has `WordBits` bits, `math.MaxInt32` is
`2^CapBits - 1`.

**Ipam** is the library under concurrency. Its steps are the calls of the storage;
what happens between two of them touches a private copy and belongs to the step
before. `call[c]` holds what a Go stack frame would: the request, the copy that
will be written, the child, the address, the number of attempts. `held` and
`leases` are what the callers were given and did not give back: they are the
history that the properties need and, for `leases`, the `*Prefix` arguments of
`ReleaseChildPrefix`. One action stands for each storage call:

| Code | Actions |
|---|---|
| `NewPrefix` 120-142 | `NewPrefixCall`, `NewPrefixRead` (locks), `NewPrefixCreate` (unlocks) |
| `DeletePrefix` 144-162 | `DeletePrefixRead`, `DeletePrefixStore` |
| `acquireChildPrefixInternal` 185-287 | `AcquireChildRead`, `AcquireChildUpdate`, `AcquireChildCreate` |
| `releaseChildPrefixInternal` 297-321 | `ReleaseChildCall`, `ReleaseChildRead`, `ReleaseChildUpdate`, then `DeletePrefix` |
| `acquireSpecificIPInternal`, `acquireAndStore` 350-406 | `AcquireIPRead`, `AcquireIPUpdate` |
| `releaseIPFromPrefixInternal` 428-446 | `ReleaseIPRead`, `ReleaseIPUpdate` |
| `retryOnOptimisticLock` 706-716 | `UpdateFails` |
| the process stops | `Crash` |

Three answers of the storage differ between the implementations and are constants
(the table at the top of the module).

**Storage** is the abstract specification of the interface: a call is served in
one step. A record is its version there, because nothing else decides what a
storage answers. `db` has a record per key for each namespace that exists. Where
the implementations differ and the ipamer cannot tell, the specification is a
choice: a create of an existing prefix is an error or hands out the one that is
there, the calls that empty a namespace may take some records before the others
(`TakeRecords`), a new namespace may be there before its creator knows, and a name
may be refused (`RefuseNamespace`). What it does not leave open: an update is of
the version it was given, a list is of one moment, a call in a namespace that
does not exist changes nothing and says so.

**Backend**, **Memory**, **Mongodb**, **Etcd**, **Redis**, **Sql**, **File** and
**Storages** are the implementations, one step per command of the database.
`Backend` has what they share: callers in processes, the namespaces a process has
seen (`cache`), and the `sync.RWMutex` of a storage object (`sql` has none), with
the calls that take it for reading only, the writer that keeps new readers out
and the hand-over to the readers that wait. `Storages` puts them side by side:
`deployment` says which storage a behaviour is about, which process each caller
is in, which processes may stop, in the middle of calls or between them, which
calls are made, and which versions the prefixes have that are created (one other
than 0 comes from a `Load`); it never changes. A process that starts again makes
the root namespace if it is not there, in every storage that has one outside the
process (`Stop`, `Started`, `MongoStart`). A create keeps the version it is
given, except on postgres, which starts at 0 (`Committed`, sql.go:67). In detail:

* `Memory`: a call is a function of the maps, and one step; its maps go with the
  process, so no deployment of it stops. `DeleteAllPrefixes`
  of a namespace that does not exist creates it (memory.go:52-57).
* `File` calls the same functions on the memory of its process. `ReadFile` (lines
  112-120, which notes the modification time), `Clear`, `Fill` item by item, the
  call, `Truncate` and `WriteData` are steps of their own. `data` is the content
  of the file, `parent` the memory of each process, `synced` the comparison of
  `modTime`. A file that is being written reads as empty, which is no error, or
  cannot be parsed, and its modification time is noted in either case
  (`FileReadFile`); a stop in the middle of a write leaves it so (`FileStop`,
  `torn`).
* `Etcd`: the calls on all records go key by key, over the keys that begin with
  the name of the namespace (`KeysWithPrefix`); a namespace is therefore a
  sequence of letters.
* `Redis`: `dirty` is what WATCH remembers; `DeleteNamespace` empties the hash
  under the read lock and forgets the name under the write lock.
* `Mongodb`: `indexed` are the collections with a unique index, which comes in a
  command after the collection; a collection that was dropped stays in `cache`.
* `Sql`: `row` are row locks; the table of a namespace has `prefixes_` in front
  (`Place`: one letter), and PostgreSQL cuts what is longer than `MaxIdLength`.

PostgreSQL's row locks and `read committed`, Redis' WATCH and MongoDB's unique
index are external and modelled by their documented effect on the statements the
code sends. The refinement maps `db` to the records of the namespaces that are
`There`: those of the database and, on PostgreSQL, one whose table is dropped
while the process still knows it; a list is given when the call ends.

**Service** is the process with its one ipamer, seen by clients: the handlers of
prefixes, lists, dumps and namespaces with the codes of their errors, each step a
call of the storage. `mu` is the mutex of `NewPrefix`. `dumped` is the dump a
client has, with the records it was made from; `seen` is what was stored at each
moment a client waited for its list, and `old` the prefixes that have been there
ever since a client asked for a `Load` or a `DeleteNamespace`: history for the
properties. `toPrefixJSON` and `toPrefix` convert records; an old dump has a
child prefix length where a new one says `IsParent`. An entry of a list is a cidr
with the `ParentCidr` that `PrefixFrom` reads for it later. Children and addresses
are acquired in `Ipam`; here they come with a dump or are there at the start.
`storage` says what the service runs on: how a create of a stored prefix and a
delete of a missing one are answered, whether a create keeps the version it is
given or starts at 0 (`AsCreated`, sql.go:67), and which names of namespaces are
too long (sql.go:232). It never changes.

| Code | Actions |
|---|---|
| `NewPrefix`, `CreatePrefix` | `NewPrefixRead` (locks), `NewPrefixCreate` (unlocks) |
| `DeletePrefix` | `DeletePrefixRead`, `DeletePrefixStore` |
| `GetPrefix`, `PrefixUsage` | one read each |
| `ListPrefixes` | `ListCidrs`, then `ListEach` per prefix |
| `Dump` | one read |
| `Load` | `LoadCheck`, `LoadDeleteAll`, then `LoadCreate` per record |
| `CreateNamespace`, `ListNamespaces` | one step |
| `DeleteNamespace` | `DeleteNamespaceRead`, `DeleteNamespaceStore` |
| the process stops and starts | `Restart`, which makes the default namespace if it is not there |

## The runs

| Run | Shows | Bounds |
|---|---|---|
| `usage` | The child search finds a free block exactly when there is one (`ChildFoundIffFree`) and leaves the largest hole (`LargestHoleKept`); `Usage` is exact up to its cap (`SmallestPrefixesExact`, `FullIffNoIPLeft`) | IPv4 of 3 and IPv6 of 5 bits, cap 2, word 4: the order 31 < 32 < 64 < 128 is kept. Up to 3 children at a time, so the free space has up to four fragments |
| `addresses` | `AddressesUnique`, `HeldIsStored`, `BlockedNotHeld`, `ParentHasNoIPs`, `CommitsChangeOneThing` for three callers on an IPv4 and an IPv6 prefix, which they also split, retries, crashes | 2-bit addresses: one or two free per prefix, so callers collide and prefixes fill up. 2 attempts: a caller can be refused after its last one. Versions up to 3: an address is acquired, released and acquired by somebody else, or a prefix fills up and one address comes back |
| `children` | `LeasesDisjoint`, `LeaseIsStored`, `CommitsChangeOneThing` for two processes that stop independently, children by length and by name, with host bits, released through library and service | four addresses, children of two lengths |
| `mixed` | `TakenDisjoint`, `TypeOK` with every call, deletes and releases of blocked addresses included, on PostgreSQL's answers | versions up to 2 |
| `create` | `TopLevelDisjoint` and, under fairness, `CallsReturn`, for three callers of one process that may stop, on MongoDB's answers | four overlapping prefixes in two families |
| `storages` | `ImplementsStorage` and `CallsAnswered` for the deployments below | three callers in two processes, versions up to 2. Prefix calls on one record of the root namespace: no command of theirs depends on another record. All calls in one or two other namespaces, with two records on etcd, where a call goes from one to the next, and a name that is too long for postgres. Creates of version 0, and of version 1 too where one caller is alone and for memory and etcd with two callers |
| `service` | `TopLevelDisjoint` in every namespace, `PrefixesKept`, `LoadRestores`, `ListedWereStored`, `RequestsAnswered`, `TypeOK` (old dumps included), for two clients and a process that restarts, on the answers of memory and of postgres | a prefix, its halves and one beside them, three namespaces, one of them with a name too long for postgres, dumps of two prefixes with and without addresses and one that is malformed; the five workloads of `MCService!MCScenarios` |
| `lost_update` | violated: a prefix that is deleted and created again starts at version 0, and a copy of the old one overwrites it | two callers |
| `release_with_ips` | violated: `ReleaseChildPrefix` of a child with addresses fails, but only after its range was made available in the parent, which gives it away again | one caller |
| `host_bits` | violated: a child requested as `10.0.0.1/25` is marked under that text and released under `10.0.0.0/25`; its range is lost | two callers |
| `file_readers` | violated: after a restart, two reads load the file at once, one clears what the other has filled and stops at a record the other has created; a record is missing in the memory, which counts as up to date, and the next change writes the file without it | two callers, two records |
| `deleted_namespace` | violated: mongodb deletes a namespace and does not forget it; the next call in it is answered with success | one caller |

`CHECK_DEADLOCK FALSE` is set where the system may stop: no caller has to make a
call (`Ipam`, with the bound on versions), and a single address can neither be
split nor handed out (`Usage`). `Storages` and `Service` never stop.

### What the storages are good for

`storages` has the deployments in which a storage keeps the promise
(`MCStorages!Supported`):

* prefix calls in the root namespace: memory in one process, redis and etcd in
  one process that crashes, postgres and mongodb in two processes of which one
  crashes, the file in one process that does not stop, or with one caller in a
  process that stops between its calls;
* all calls of one caller, in other namespaces too: postgres, redis and etcd with
  crashes; mongodb, which restarts between calls, without deletions of namespaces;
  memory and file with `DeleteAllPrefixes` in namespaces that exist only;
* two callers in a namespace that is created, listed and emptied but not deleted:
  redis and etcd in one process, postgres and mongodb in one and in two; and three
  callers in two processes of mongodb that create the namespace and a record in it.

In the following ones `ImplementsStorage` fails, and the reasons are worth knowing.
Put the deployment into `Supported` and TLC prints the steps.

* etcd in two processes (`EtcdApart`): `UpdatePrefix` is a Get and a Put, and the
  second process overwrites the first; a list panics on a key that the other
  process has deleted (etcd.go:222).
* redis in two processes: a create is HEXISTS and HSET, and an update that loses
  the race is told by an error that is not retried (redis.go:186).
* etcd with namespaces whose names begin alike: emptying the one empties the
  other (etcd.go:159).
* `DeleteNamespace` of redis and etcd next to another caller: it empties the
  namespace, lets go of the lock and forgets it later; a prefix created in between
  is back when the namespace is created again.
* `DeleteNamespace` between processes on redis, etcd, mongodb and postgres: the
  cache of the other process does not hear of it. On mongodb its own does not
  either (`deleted_namespace`).
* postgres in two processes, with a name that is short enough by itself and too
  long with `prefixes_` in front (sql.go:232): the name of the table is cut, and
  the other process finds a namespace of the cut name that nobody created.
* mongodb, a crash between the collection and its index (mongodb.go:281): the
  next `CreateNamespace` returns early and the collection stays without one.
* mongodb in three processes: the first has made the collection and not yet its
  index (mongodb.go:274 and 281), and the two others create the same record in it
  and are both told that all went well. With two processes nobody but the caller
  that makes the collection and one that inserts can go on, because each of them
  has the lock of its process.
* the file in two processes, or stopped in the middle of a write: it is then empty,
  or no call can read it, except that the second call of a process finds the
  modification time it has noted (file.go:120) and goes on with an empty memory.
* memory and file, `DeleteAllPrefixes` of a namespace that does not exist.

### What the other runs leave out, and why

`addresses` and `children` do not delete prefixes: `DeletePrefix` checks a copy
and deletes whatever is there, so a prefix that got an address after the check
goes with it and `HeldIsStored` fails; `lost_update` shows another thing a delete
breaks. `children` acquires no addresses, because `release_with_ips` does;
`NothingLost` is checked where it fails only; and `TopLevelDisjoint` is claimed
for the callers of one process, since the mutex of `prefix.go:121` is not shared.
A blocked address that is released by its text (`ReleaseIPFromPrefix`) can be
acquired afterwards; `BlockedNotHeld` is checked for callers that release what
they acquired. So is `ParentHasNoIPs`: with the network address of an IPv4 prefix
released, the record has one address less than `hasIPs` (prefix.go:608) takes for
blocked, somebody acquires one, and `AcquireChildPrefix` splits the prefix
although it gives out an address. Put `ParentHasNoIPs` into `mixed.cfg`, whose
requests have the release, and TLC prints these steps. The prefixes of `usage`
have counts that fit a word: beyond, `1 << bits` is 0 (`ShiftedOne`, from 64 bits
on in the code), and `SmallestPrefixesExact` fails for the largest IPv6 prefixes.

The workloads of `service` are one for each question: one client changes, loads
and dumps the default namespace while another one reads it (`LoadAndList`); both
create and delete prefixes in two namespaces (`CreateTogether`); the default
namespace is deleted and made again, by a client or by a restart (`WithoutRoot`);
and two in which the gap is met that `DeleteNamespace` and `Load` leave between
their look for prefixes and the step that empties the namespace, without a mutex
(`NamespaceRace`, `LoadRace`). A prefix that another client creates in the gap is
lost, although its client was told that it exists; `PrefixesKept` says that this is
all that is lost: what was there before the client asked goes only if somebody
deletes it.

A list is not a snapshot. Its cidrs are those of one moment; the `ParentCidr` of
each is read later (ipam-service.go:114), and a prefix that is gone by then makes
the list fail, but one that was deleted and created again does not. With a parent
`whole` and its child `left` stored, a client may delete both and create `left`
again while a list is made that has read the parent of `whole`: the list has
`whole` and `left`, both without a parent, which were never stored together.
`ListedWereStored` is what remains true: one moment for the cidrs, one for each
parent.

It is asked for lists of the default namespace. For any other it fails:
`ReadAllPrefixCidrs`, `Dump` and `Load` use the default namespace (prefix.go:504,
521, 552), while ipam.go:50-59 speaks of the namespace in the context.
`LoadRestores` says nothing of failed loads, nor of what they leave: a `Load` that
stops half way leaves the records it has created, and the next one refuses to run.

### Where code and comments disagree without a run of their own

* ipam.go:55 says that `Load` "deletes all prefixes before loading". It refuses to
  load while there are prefixes (prefix.go:526-532); the delete that follows
  (prefix.go:537) finds only what was created since that look. The model does what
  the code does (`LoadCheck`, `LoadDeleteAll`).
* ipam.go:50-59 and the namespace of `Dump`, `Load` and lists, as above.

### Fairness

`Ipam!Fairness`: a call in progress goes on (weak fairness), because goroutines
are scheduled and a storage call returns. A `NewPrefix` that waits for the mutex
gets it if it is free again and again (strong fairness): `sync.Mutex` hands over
to a waiter that has waited for more than 1 ms. Nothing obliges anybody to make a
call. `Storages!Fairness` is strong fairness of the steps of a call, for the same
reason and because PostgreSQL queues those who wait for a row. `Service!Fairness`
is strong fairness of the steps of a request: the mutex is handed to a waiter, and
a storage call returns. A client need not ask, and the process may restart again
and again, which ends the requests it had.

## The theorems

TLAPS checks the `*Proofs` modules. A theorem is about every set of callers, every
number of processes, every address width, every number of attempts and every
answer of the storage that the constants allow. Where a result needs more, the
theorem says so in a hypothesis on constants. The passing runs satisfy the
hypotheses of what they check, except that in the workload `LoadRace` of `service`
somebody creates a prefix next to a `Load`; it overlaps nothing, and no dump of
the service is loaded there.

| Theorem | Hypothesis | Property |
|---|---|---|
| `IpamProofs!TypeCorrect`, `ChildrenDoNotOverlap` | none | `TypeOK`, `TakenDisjoint` |
| `IpamProofs!BlockedStayBlocked` | `NoReleaseByText` | `BlockedNotHeld` |
| `IpamLockProofs!AddressesKept` | `NoDeletes`, `NoReleaseByText` | `HeldIsStored`, `GrantedOnce` |
| `IpamLockProofs!NoLostUpdate` | `NoDeletes` | `CommitsChangeOneThing` |
| `IpamForestProofs!SplitOrUsed` | `NoDeletes`, `NoReleaseByText` | `ParentHasNoIPs` |
| `IpamForestProofs!TopLevelApart` | `NoDeletes`, `OneMutex` | `TopLevelDisjoint` |
| `IpamForestProofs!NoAddressTwice` | `NoDeletes`, `NoReleaseByText`, `OneMutex` | `AddressesUnique` |
| `IpamLeaseProofs!LeasesKeptApart` | `FlatChildren` | `LeasesDisjoint` |
| `IpamLeaseProofs!LeasesStayStored` | `FlatChildren` | `LeaseIsStored` |
| `IpamLeaseProofs!NoLostChild` | `FlatChildren` | `CommitsChangeOneThing` |
| `UsageProofs!TypeCorrect`, `SearchExact`, `BestFitKeepsLargestHole`, `FullWhenCountsEqual` | none | `TypeOK`, `ChildFoundIffFree`, `LargestHoleKept`, `FullIffNoIPLeft` |
| `UsageProofs!SmallestPrefixesCounted` | `CountsFit` | `SmallestPrefixesExact` |
| `ServiceProofs!TypeCorrect` | none | `TypeOK` |
| `ServiceProofs!TopLevelApart` | `LoadsApart`, `DumpsApart`, `StoragesApart` | `TopLevelDisjoint` |
| `ServiceProofs!OldPrefixesStay` | none | `PrefixesKept` |
| `ServiceProofs!ListsAreTrue` | `ListsInRoot` | `ListedWereStored` |
| `ServiceProofs!LoadsRestore` | `LoadsAlone` | `LoadRestores` |
| `StoragesProofs!StoragesImplementStorage` | `AllSupported` | `ImplementsStorage` |

The hypotheses:

* `NoDeletes`: no delete of a prefix and no release of a child. `lost_update`
  shows why `NoLostUpdate` needs it; a `DeletePrefix` that has checked a copy also
  takes an address with it that came later. `TopLevelDisjoint` fails without it as
  well: a copy read before a delete is written back over a successor. The run
  `create` has no deletes.
* `NoReleaseByText`: no `ReleaseIPFromPrefix`, which releases what the caller
  need not hold. `BlockedStayBlocked` and `SplitOrUsed` need it for the blocked
  addresses, as told above.
* `OneMutex`: all callers use one ipamer, as in the runs `addresses` and `create`.
* `FlatChildren`: callers make prefixes, acquire children and release them, of
  prefixes that are not inside each other, and take no addresses
  (`release_with_ips`); and to create a record that is there is an error, as it is
  on every storage but PostgreSQL. There (sql.go:63-65) a child that is acquired
  between the two writes of its release is handed the old record, which the
  release then deletes: `LeaseIsStored` fails for `MCIpam!ReleaseRaceRequests`
  with `CreateExisting = "existing"`.
* `CountsFit`: the number of smallest children of a prefix fits a word, as it does
  for every IPv4 prefix and for IPv6 prefixes of `/63` and longer in the code.
  Beyond, the count really wraps around.
* `LoadsApart`, `LoadsAlone`: where one client loads, no other client adds to the
  default namespace (changes it, for `LoadsAlone`); `DumpsApart`, `StoragesApart`:
  the dumps that clients bring, and what the storages have at the start, have no
  overlaps; `ListsInRoot`: lists are of the default namespace.
* `AllSupported`: every deployment is one that its storage is good for. memory in
  one process that does not stop; postgres in any processes and redis and etcd in
  one, which stop in the middle of any command, with all calls, `DeleteNamespace`
  where one caller is alone, and the calls of etcd that go key by key where no
  name of a namespace begins with another; mongodb in any processes for prefixes,
  and with new namespaces in at most two processes that are not stopped in the
  middle of a call; the file in one process that is not stopped in the middle of
  a call, and that starts again only where one caller is alone (`file_readers`
  shows why). memory and file with `DeleteAllPrefixes` where the namespace is
  there for sure, the file only by one caller. All deployments of the run
  `storages` are among them.

### How the proofs go

**Blocks** (`NetipProofs`). A power of two divides a larger one, hence two blocks
that overlap are nested. The prefixes of a set of addresses lie apart, each block
inside the set lies in one of them, and the smallest one that is large enough is
found. The proofs are by a smallest counterexample, with the well-foundedness of
`<` from the library.

**Records** (`IpamProofs`). `TakenDisjoint` is not inductive: a stale copy could
bring a record back that has overlaps. The invariant `IInv` asks it of every record
there is, in the storage, in the copies of calls in progress and in the hands of
callers (`GoodRecord`), and so it does with the blocked addresses and with what
the code tests before it splits: a split record has no address by the count of
`hasIPs`. It also says that sets of addresses are finite, without which
`Cardinality` means nothing, and that a call has the arguments its next step uses
(`CallShape`). Each operation of `Prefix` is shown to keep a record good, once, as
a lemma; each action then follows. These results need no optimistic locking: each
call checks the very copy it writes.

**Versions** (`IpamLockProofs`). `LockInv` says of a call that is about to write
that its copy is no newer than the stored record and that, if it is as new, it is
the stored record with the one change of the call (`CopyOK`, `Intended`). The
comparison in `UpdatePrefix` then makes every commit one change of what is stored.

**The forest** (`IpamForestProofs`). `ForestInv`: a stored prefix inside another
one lies in a child that the other has marked and that is stored too; top-level
prefixes lie apart; a `NewPrefix` between its read and its write holds the mutex
and still overlaps nothing, because only children come meanwhile and they lie
inside stored prefixes; a child about to be created is marked in its parent. A
held address is in its stored record by `LockInv`, next to the blocked ones, which
nobody takes away; so `hasIPs` counts it, and by `IInv` the record is not split
(`HeldInLeaf`, `SplitOrUsed`). If an address were out twice, the two prefixes would
overlap and the larger one would be split.

**Leases** (`IpamLeaseProofs`). Who holds a child, or has marked it and is about to
create it, has a claim. `LeaseInv`: claims are marked in the stored parent and
those in one parent do not overlap; a lease is the stored record; whoever gave a
lease back and is about to delete the record is the only one who knows it
(`OneDeleter`), so the second half of a release never hits a successor; the copy
of a parent that will be written is out of date or differs in one child. TLC
checked `LeaseInv` on the instance of the run `children` before it was proved.

**One record** (`UsageProofs`). The search agrees with plain free space because of
the canonical list. For the largest hole: let `c` be free after another choice than
the best fit. It lies in a free prefix of the list; if that is not the best fit, it
is untouched and at least as large; if it is, then the other choice came from
another free prefix, which is at least as large and now untouched, or from the
same one, and then its upper half is left (`Counterpart`). The counts are
equal only if the set of addresses and the block have the same size, and the block
has `2^n` addresses (`FiniteSetTheorems`). The count of smallest children is a sum
over the free prefixes, each a power of two (`PowerSum`, `SumOfSizes`): their
blocks lie apart and fill the free space (`BlocksCounted`), so the sum is the size
of it, and less than a word by `CountsFit`.

**Service** (`ServiceProofs`). `IInv` is the types with what a request may be about
and who has the mutex, and each theorem adds one clause about a request between
two steps: what a create has read is still clear; a request that has
found a namespace empty and is about to empty it sees nothing there that is as old
as itself (`NoneOld`); the
cidrs that a list has collected and will collect are those of one set it has seen,
and each entry is of one of them (`Watched`); what a `Load` has created and will
create is what the storage makes of the dump (`Restored`).

**Storages** (`StoragesProofs`). Each step of the implementation is a step of
`Storage` under the mapping or leaves it unchanged: a call takes effect in one of
its commands. `RInv` is needed for the commands after a check: what a call has
found is still so when it writes, because of the lock of the process (redis,
etcd, memory), the row lock (postgres), WATCH, or the unique index (mongodb). It
says who has these, that a namespace that is not there is empty, and that a process
knows no namespace that is not there. Two kinds of calls take effect in several
commands. A `DeleteNamespace` is, between its two halves, in a state that `RInv`
excludes: the namespace is empty, and the database and the process do not agree
whether it is there (`Halfway`). The invariant is `RInv` or such a state, and a stop
there is a step of `Storage` too. A call of etcd that goes key by key has read a
list of keys and visits them one at a time: what it has deleted are the
`TakeRecords` of `Storage`, and what it has read and still has to read is what is
stored, since the lock keeps the writers of the one process out (`Lists`,
`KeysLeft`). `KeysWithPrefix` are the keys of the namespace alone only where no name
begins with another one (`KeysApart`). An insert of mongodb may come before the
index does. What it has not found is still not there then: whoever creates the
index has the lock of one process, whoever inserts that of the other, and there is
no third (`InsertAlone`).

The file storage has an invariant of its own, `FileInv`. What `Storage` has is
what the file has. The memory of the process is a copy of it, except while a call
loads it or saves it (`AtFile`, `Synced`): half way through a load it is the file
without the items that are left (`Filling`); before a save it is already what the
call makes of the file (`Outcome`), and `WriteData` is where the call takes
effect. A modification time that is known is one of a file that is there. Callers
that have the lock together only read (`FileLocks`), and where several share it
the process does not start again, so none of them loads. TLC checked `FileInv` on
the file deployments of the run `storages` before it was proved.

### Assumptions

The named `ASSUME`s of the modules; TLC evaluates them in the runs. They say what
a constant is, that the special values (`None`, `Absent`, `Free`) are no records,
`None` no version and no key either, and two facts more: `PowersAssumption`, what
exponentiation is, which the provers do not know; and, in `UsageAssumption`, that
the cap is less than a word and a word no wider than the two kinds of addresses
together, as 31, 64 and 32 + 128 bits are in the code.

### Only model-checked

* Liveness (`CallsReturn`, `CallsAnswered`, `RequestsAnswered`): the prover does
  no fairness.
* Deletes next to addresses (`mixed` checks what holds), two instances with nested
  prefixes, and children of children that are released.

## Not modelled

* Text: parsing errors beyond "malformed", formatting, error messages, the JSON
  text of a dump.
* Errors of the network and timeouts of a database command: a command that took
  effect and was not answered is a crash here.
* The fatal error that the Go runtime raises when it notices unsynchronised map
  writes (memory.go:55 and 146, redis.go:57). The writes themselves are steps.
* Two `CREATE TABLE IF NOT EXISTS` at once, of which PostgreSQL may refuse one.
* In the service: `Version`, and the codes of errors of `AcquireChildPrefix`,
  `AcquireIP` and `ReleaseIP`; the calls themselves are in `Ipam`.
* `mongodb.ReadPrefixes`, which nobody calls.
* Server and client (flags, wiring, one remote call) and the generated API: they
  have no state of their own.

## Plan

1. Done: `Netip`, `Prefix`, `Usage`, `Ipam`, their runs and theorems.
2. Done: `Storage` and the six storages with namespaces, lists and deletes of all
   prefixes, the refinement between them, and its proof for all six.
3. Done: `Service` with lists, dumps, loads, namespaces and the JSON form, and
   its theorems.
4. Proofs left: `LeasesDisjoint` for children of children.
5. Commands that time out after they took effect, and are tried again.
