-------------------------------- MODULE Ipam --------------------------------
(***************************************************************************)
(* The ipamer of prefix.go and ipam.go, for one namespace.                 *)
(*                                                                         *)
(* Callers are goroutines that call the methods of an ipamer.  A process   *)
(* that embeds the library or runs the gRPC service is an instance: it has *)
(* one ipamer, with one mutex, and several instances may share a storage.  *)
(* A call is a sequence of calls of the Storage interface, and those are   *)
(* the steps of this specification: everything between two of them works   *)
(* on a private copy of a record.  The first step of a call also stands    *)
(* for its invocation, the last one for its return.                        *)
(*                                                                         *)
(* The storage is the interface of storage.go as its callers see it: every *)
(* call atomic, an update that compares versions.  What the               *)
(* implementations answer differently is left to three constants:          *)
(*                                                                         *)
(*                      memory.go      sql.go        mongodb.go            *)
(*    CreateExisting    "error"        "existing"    "error"               *)
(*    UpdateMissing     "error"        "conflict"    "conflict"            *)
(*    DeleteMissing     "ok"           "ok"          "error"               *)
(***************************************************************************)
EXTENDS Prefix

CONSTANTS
    Callers,            \* goroutines
    Instances,          \* processes with an ipamer of their own
    InstanceOf,         \* the instance a caller belongs to
    CrashingInstances,  \* the instances that may stop and start again
    Requests,           \* the calls the callers may make
    Attempts,           \* retry.Attempts, 10 in the code
    MaxVersion,         \* bound: no call starts once a record has this version
    CreateExisting, UpdateMissing, DeleteMissing,
    Absent,             \* no record under a key
    Free                \* an unlocked mutex

Ops == {"NewPrefix", "DeletePrefix", "AcquireChildPrefix", "ReleaseChildPrefix",
        "ServiceReleaseChildPrefix", "AcquireIP", "ReleaseIP", "ReleaseIPFromPrefix"}

(***************************************************************************)
(* A call with its arguments.  child is the childCidr of AcquireSpecific-  *)
(* ChildPrefix, ip the specificIP of AcquireSpecificIP or the address to   *)
(* release; both are None when the argument is empty.                      *)
(***************************************************************************)
Request == [op     : Ops,
            cidr   : RawPrefix,
            child  : RawPrefix \cup {None},
            length : Nat,
            ip     : Address \cup {None}]

ASSUME IpamAssumption ==
    /\ InstanceOf \in [Callers -> Instances]
    /\ CrashingInstances \subseteq Instances
    /\ Requests \subseteq Request
    /\ Attempts \in Nat \ {0} /\ MaxVersion \in Nat
    /\ CreateExisting \in {"error", "existing"}
    /\ UpdateMissing \in {"error", "conflict"}
    /\ DeleteMissing \in {"ok", "error"}

ASSUME AbsentAssumption ==
    /\ Absent \notin PrefixRecord
    /\ None \notin PrefixRecord
    /\ None \notin Request
    /\ None \notin Address
    /\ Free \notin Callers

VARIABLES
    store,      \* the records of the namespace, by Cidr
    mu,         \* per instance, the caller that holds ipamer.mu
    call,       \* per caller, the call it is in
    held,       \* per caller, the addresses it acquired and did not release
    leases      \* per caller, the child prefixes it acquired and did not release

vars == <<store, mu, call, held, leases>>

-----------------------------------------------------------------------------
(***************************************************************************)
(* Calls.  pc names the storage call that comes next; cur is the record    *)
(* that call will write or delete, child the child prefix in question, ip  *)
(* the address in question, tries the attempts retry.Do has made.          *)
(***************************************************************************)
Updating == {"AcquireChildUpdate", "ReleaseChildUpdate", "AcquireIPUpdate", "ReleaseIPUpdate"}

PCs == Updating \cup {"idle", "retry", "NewPrefixLock", "NewPrefixCreate", "AcquireChildCreate",
                      "ReleaseChildRead", "DeletePrefixRead", "DeletePrefixStore"}

Idle == [pc |-> "idle", req |-> None, cur |-> None, child |-> None, ip |-> None, tries |-> 0]

Bounded == \A k \in Cidr : store[k] # Absent => store[k].version < MaxVersion

\* The call r of caller c begins, or retry.Do begins it once more.
Entering(c, r) ==
    \/ call[c].pc = "idle" /\ r \in Requests /\ Bounded
    \/ call[c].pc = "retry" /\ r = call[c].req

Proceed(c, pc, r, cur, child, ip) ==
    call' = [call EXCEPT ![c] = [pc |-> pc, req |-> r, cur |-> cur, child |-> child,
                                 ip |-> ip, tries |-> call[c].tries + 1]]

GoTo(c, pc) == call' = [call EXCEPT ![c].pc = pc]

Return(c) == call' = [call EXCEPT ![c] = Idle]

(***************************************************************************)
(* The Storage interface.  PrefixFrom masks the cidr it is given.          *)
(***************************************************************************)
PrefixFrom(cidr) == store[Masked(cidr)]

ReadAllPrefixCidrs == { k \in Cidr : store[k] # Absent }

\* Mutant: the versions are not compared.
UpdateOutcomeUnversioned(p) == IF store[p.Cidr] = Absent THEN UpdateMissing ELSE "ok"

UpdateOutcome(p) ==
    IF store[p.Cidr] = Absent THEN UpdateMissing
    ELSE IF store[p.Cidr].version # p.version THEN "conflict"
    ELSE "ok"

\* Mutant: the version is not increased.
UpdatePrefixSameVersion(p) == store' = [store EXCEPT ![p.Cidr] = p]

UpdatePrefix(p) == store' = [store EXCEPT ![p.Cidr] = [p EXCEPT !.version = @ + 1]]

\* Mutant: nobody is told that the record existed.
CreateOutcomeUnchecked(p) == "ok"

CreateOutcome(p) == IF store[p.Cidr] # Absent THEN CreateExisting ELSE "ok"

CreatePrefix(p) ==
    store' = IF store[p.Cidr] = Absent THEN [store EXCEPT ![p.Cidr] = p] ELSE store

DeleteOutcome(p) == IF store[p.Cidr] = Absent THEN DeleteMissing ELSE "ok"

DeletePrefix(p) == store' = [store EXCEPT ![p.Cidr] = Absent]

(***************************************************************************)
(* retryOnOptimisticLock: an update that met another version is attempted  *)
(* again from its first read, up to Attempts times; any other error is     *)
(* returned at once.                                                       *)
(***************************************************************************)
UpdateFails(c) ==
    LET outcome == UpdateOutcome(call[c].cur)
    IN  /\ call[c].pc \in Updating
        /\ outcome # "ok"
        /\ IF outcome = "conflict" /\ call[c].tries < Attempts
           THEN call' = [call EXCEPT ![c].pc = "retry", ![c].cur = None, ![c].ip = None]
           ELSE Return(c)
        /\ UNCHANGED <<store, mu, held, leases>>

-----------------------------------------------------------------------------
(***************************************************************************)
(* NewPrefix: the whole call holds the mutex of the instance.              *)
(***************************************************************************)
NewPrefixCall(c, r) ==
    /\ r.op = "NewPrefix"
    /\ Entering(c, r)
    /\ Proceed(c, "NewPrefixLock", r, None, None, None)
    /\ UNCHANGED <<store, mu, held, leases>>

\* Mutant: the mutex is not locked.
NewPrefixReadUnlocked(c) ==
    LET cidr == call[c].req.cidr
    IN  /\ call[c].pc = "NewPrefixLock"
        /\ IF PrefixesOverlapping(ReadAllPrefixCidrs, cidr)
           THEN Return(c)
           ELSE Proceed(c, "NewPrefixCreate", call[c].req, newPrefix(cidr, None), None, None)
        /\ UNCHANGED <<store, mu, held, leases>>

\* Mutant: the error path returns with the mutex locked.
NewPrefixReadKeepsLock(c) ==
    LET cidr == call[c].req.cidr
    IN  /\ call[c].pc = "NewPrefixLock"
        /\ mu[InstanceOf[c]] = Free
        /\ IF PrefixesOverlapping(ReadAllPrefixCidrs, cidr)
           THEN Return(c)
           ELSE Proceed(c, "NewPrefixCreate", call[c].req, newPrefix(cidr, None), None, None)
        /\ mu' = [mu EXCEPT ![InstanceOf[c]] = c]
        /\ UNCHANGED <<store, held, leases>>

NewPrefixRead(c) ==
    LET cidr == call[c].req.cidr
    IN  /\ call[c].pc = "NewPrefixLock"
        /\ mu[InstanceOf[c]] = Free
        /\ IF PrefixesOverlapping(ReadAllPrefixCidrs, cidr)
           THEN Return(c) /\ UNCHANGED mu
           ELSE /\ Proceed(c, "NewPrefixCreate", call[c].req, newPrefix(cidr, None), None, None)
                /\ mu' = [mu EXCEPT ![InstanceOf[c]] = c]
        /\ UNCHANGED <<store, held, leases>>

NewPrefixCreate(c) ==
    /\ call[c].pc = "NewPrefixCreate"
    /\ CreatePrefix(call[c].cur)
    /\ mu' = [mu EXCEPT ![InstanceOf[c]] = Free]
    /\ Return(c)
    /\ UNCHANGED <<held, leases>>

(***************************************************************************)
(* DeletePrefix: nothing holds the record between the check for addresses  *)
(* and the delete.  It is also the second half of ReleaseChildPrefix; when *)
(* that half fails, the caller is told so and keeps its child prefix.      *)
(***************************************************************************)
DeletePrefixEntering(c, r) ==
    \/ r.op = "DeletePrefix" /\ Entering(c, r)
    \/ call[c].pc = "DeletePrefixRead" /\ r = call[c].req

LeasesAfterError(c) ==
    leases' = [leases EXCEPT ![c] = @ \cup ({call[c].child} \ {None})]

DeletePrefixRead(c, r) ==
    LET p == PrefixFrom(r.cidr)
    IN  /\ DeletePrefixEntering(c, r)
        /\ IF p = Absent \/ hasIPs(p)
           THEN Return(c) /\ LeasesAfterError(c)
           ELSE /\ Proceed(c, "DeletePrefixStore", r, p, call[c].child, None)
                /\ UNCHANGED leases
        /\ UNCHANGED <<store, mu, held>>

DeletePrefixStore(c) ==
    /\ call[c].pc = "DeletePrefixStore"
    /\ DeletePrefix(call[c].cur)
    /\ IF DeleteOutcome(call[c].cur) = "ok" THEN UNCHANGED leases ELSE LeasesAfterError(c)
    /\ Return(c)
    /\ UNCHANGED <<mu, held>>

-----------------------------------------------------------------------------
(***************************************************************************)
(* AcquireChildPrefix and AcquireSpecificChildPrefix: the parent is marked *)
(* first, the child created afterwards.                                    *)
(***************************************************************************)
AcquireChildRead(c, r) ==
    LET parent   == PrefixFrom(r.cidr)
        children == IF parent = Absent THEN {} ELSE AvailableChild(parent, r.child, r.length)
    IN  /\ r.op = "AcquireChildPrefix"
        /\ Entering(c, r)
        /\ IF children = {}
           THEN Return(c)
           ELSE \E cp \in children :
                    Proceed(c, "AcquireChildUpdate", r, WithChild(parent, cp),
                            newPrefix(cp, r.cidr), None)
        /\ UNCHANGED <<store, mu, held, leases>>

AcquireChildUpdate(c) ==
    /\ call[c].pc = "AcquireChildUpdate"
    /\ UpdateOutcome(call[c].cur) = "ok"
    /\ UpdatePrefix(call[c].cur)
    /\ GoTo(c, "AcquireChildCreate")
    /\ UNCHANGED <<mu, held, leases>>

AcquireChildCreate(c) ==
    /\ call[c].pc = "AcquireChildCreate"
    /\ CreatePrefix(call[c].child)
    /\ leases' = IF CreateOutcome(call[c].child) = "error"
                 THEN leases
                 ELSE [leases EXCEPT ![c] = @ \cup {call[c].child}]
    /\ Return(c)
    /\ UNCHANGED <<mu, held>>

(***************************************************************************)
(* ReleaseChildPrefix is given a *Prefix: through the library the one that *)
(* AcquireChildPrefix returned, through the service a fresh copy from      *)
(* PrefixFrom.  Its addresses are counted on that copy, however old it is, *)
(* and by the limit of IPv4 for both families.                             *)
(***************************************************************************)
ChildArgument(c, r) ==
    CASE r.op = "ReleaseChildPrefix"        -> { h \in leases[c] : h.Cidr = r.cidr }
      [] r.op = "ServiceReleaseChildPrefix" -> { PrefixFrom(r.cidr) } \ { Absent }
      [] OTHER                              -> {}

ReleaseChildCall(c, r) ==
    /\ call[c].pc = "idle"
    /\ Entering(c, r)
    /\ \E h \in leases[c] : h.Cidr = Masked(r.cidr)
    /\ \E child \in ChildArgument(c, r) :
           call' = [call EXCEPT ![c].pc = "ReleaseChildRead", ![c].req = r, ![c].child = child]
    /\ UNCHANGED <<store, mu, held, leases>>

ReleaseChildEntering(c) ==
    \/ call[c].pc = "ReleaseChildRead"
    \/ call[c].pc = "retry" /\ call[c].req.op \in {"ReleaseChildPrefix", "ServiceReleaseChildPrefix"}

ChildHasIPs(child) == Cardinality(child.ips) > 2

ReleaseChildRead(c) ==
    LET child  == call[c].child
        parent == IF child.ParentCidr = None THEN Absent ELSE PrefixFrom(child.ParentCidr)
    IN  /\ ReleaseChildEntering(c)
        /\ IF parent = Absent \/ ~ parent.isParent \/ ChildHasIPs(child)
           THEN Return(c)
           ELSE Proceed(c, "ReleaseChildUpdate", call[c].req,
                        WithoutChild(parent, child.Cidr), child, None)
        /\ UNCHANGED <<store, mu, held, leases>>

ReleaseChildUpdate(c) ==
    LET child == call[c].child
    IN  /\ call[c].pc = "ReleaseChildUpdate"
        /\ UpdateOutcome(call[c].cur) = "ok"
        /\ UpdatePrefix(call[c].cur)
        /\ leases' = [leases EXCEPT ![c] = { h \in @ : h.Cidr # child.Cidr }]
        /\ GoTo(c, "DeletePrefixRead")
        /\ UNCHANGED <<mu, held>>

-----------------------------------------------------------------------------
(***************************************************************************)
(* AcquireIP and AcquireSpecificIP, ReleaseIP and ReleaseIPFromPrefix.     *)
(* ReleaseIP takes the *IP an earlier call returned; ReleaseIPFromPrefix   *)
(* takes any text.                                                         *)
(***************************************************************************)
AcquireIPRead(c, r) ==
    LET p   == PrefixFrom(r.cidr)
        ips == IF p = Absent THEN {} ELSE AvailableIP(p, r.ip)
    IN  /\ r.op = "AcquireIP"
        /\ Entering(c, r)
        /\ IF ips = {}
           THEN Return(c)
           ELSE \E ip \in ips : Proceed(c, "AcquireIPUpdate", r, WithIP(p, ip), None, ip)
        /\ UNCHANGED <<store, mu, held, leases>>

AcquireIPUpdate(c) ==
    LET p == call[c].cur
    IN  /\ call[c].pc = "AcquireIPUpdate"
        /\ UpdateOutcome(p) = "ok"
        /\ UpdatePrefix(p)
        /\ held' = [held EXCEPT ![c] = @ \cup {[cidr |-> p.Cidr, ip |-> call[c].ip]}]
        /\ Return(c)
        /\ UNCHANGED <<mu, leases>>

ReleaseIPRead(c, r) ==
    LET p == PrefixFrom(r.cidr)
    IN  /\ r.op \in {"ReleaseIP", "ReleaseIPFromPrefix"}
        /\ r.op = "ReleaseIP" => [cidr |-> Masked(r.cidr), ip |-> r.ip] \in held[c]
        /\ Entering(c, r)
        /\ IF p = Absent \/ r.ip \notin p.ips
           THEN Return(c)
           ELSE Proceed(c, "ReleaseIPUpdate", r, WithoutIP(p, r.ip), None, r.ip)
        /\ UNCHANGED <<store, mu, held, leases>>

ReleaseIPUpdate(c) ==
    LET p == call[c].cur
    IN  /\ call[c].pc = "ReleaseIPUpdate"
        /\ UpdateOutcome(p) = "ok"
        /\ UpdatePrefix(p)
        /\ held' = [held EXCEPT ![c] = @ \ {[cidr |-> p.Cidr, ip |-> call[c].ip]}]
        /\ Return(c)
        /\ UNCHANGED <<mu, leases>>

-----------------------------------------------------------------------------
(***************************************************************************)
(* A process stops in the middle of its calls and starts again: what it    *)
(* wrote stays, its mutex and its copies are gone.                         *)
(***************************************************************************)
Crash(i) ==
    /\ i \in CrashingInstances
    /\ \E c \in Callers : InstanceOf[c] = i /\ call[c].pc # "idle"
    /\ call' = [c \in Callers |-> IF InstanceOf[c] = i THEN Idle ELSE call[c]]
    /\ mu' = [mu EXCEPT ![i] = Free]
    /\ UNCHANGED <<store, held, leases>>

-----------------------------------------------------------------------------
Init ==
    /\ store = [k \in Cidr |-> Absent]
    /\ mu = [i \in Instances |-> Free]
    /\ call = [c \in Callers |-> Idle]
    /\ held = [c \in Callers |-> {}]
    /\ leases = [c \in Callers |-> {}]

\* A step that reads for the first time, or again after a conflict.
ReadStep(c, r) ==
    \/ NewPrefixCall(c, r)
    \/ DeletePrefixRead(c, r)
    \/ AcquireChildRead(c, r)
    \/ ReleaseChildCall(c, r)
    \/ AcquireIPRead(c, r)
    \/ ReleaseIPRead(c, r)

\* A step that continues a call.
OtherStep(c) ==
    \/ NewPrefixRead(c)
    \/ NewPrefixCreate(c)
    \/ DeletePrefixStore(c)
    \/ AcquireChildUpdate(c)
    \/ AcquireChildCreate(c)
    \/ ReleaseChildRead(c)
    \/ ReleaseChildUpdate(c)
    \/ AcquireIPUpdate(c)
    \/ ReleaseIPUpdate(c)
    \/ UpdateFails(c)

Next ==
    \/ \E c \in Callers : (\E r \in Requests : ReadStep(c, r)) \/ OtherStep(c)
    \/ \E i \in Instances : Crash(i)

(***************************************************************************)
(* A call in progress goes on: goroutines are scheduled, and a storage     *)
(* call returns.  Nothing obliges anybody to make a call.  sync.Mutex      *)
(* hands the lock to a goroutine that has waited for more than 1ms, so a   *)
(* waiting NewPrefix gets the lock if it is free again and again.          *)
(***************************************************************************)
Fairness ==
    \A c \in Callers :
        /\ WF_vars(call[c].pc # "idle" /\ ((\E r \in Requests : ReadStep(c, r)) \/ OtherStep(c)))
        /\ SF_vars(NewPrefixRead(c))

Spec == Init /\ [][Next]_vars

FairSpec == Spec /\ Fairness

\* Two habits of callers under which more can be promised: nobody deletes a
\* prefix or releases a child, and nobody releases an address by its text.
NoDeletes ==
    \A r \in Requests :
        r.op \notin {"DeletePrefix", "ReleaseChildPrefix", "ServiceReleaseChildPrefix"}

NoReleaseByText == \A r \in Requests : r.op # "ReleaseIPFromPrefix"

-----------------------------------------------------------------------------
Handle == [cidr : Cidr, ip : Address]

Calls == [pc    : PCs,
          req   : Request \cup {None},
          cur   : PrefixRecord \cup {None},
          child : PrefixRecord \cup {None},
          ip    : Address \cup {None},
          tries : Nat]

(***************************************************************************)
(* Every record, in the storage, in a call and in a caller's hands, is one *)
(* newPrefix could have made and the calls could have changed: its Cidr    *)
(* and ParentCidr have no host bits, its version never goes below 0.       *)
(***************************************************************************)
TypeOK ==
    /\ store \in [Cidr -> PrefixRecord \cup {Absent}]
    /\ mu \in [Instances -> Callers \cup {Free}]
    /\ call \in [Callers -> Calls]
    /\ held \in [Callers -> SUBSET Handle]
    /\ leases \in [Callers -> SUBSET PrefixRecord]

Stored == { store[k] : k \in ReadAllPrefixCidrs }

(***************************************************************************)
(* A prefix is split into children or gives out addresses, never both,     *)
(* whatever calls run at the same time: no caller holds an address of a    *)
(* prefix that is split.  AcquireIP refuses a parent and                   *)
(* AcquireChildPrefix a prefix with addresses, each on a copy of the       *)
(* record that the other may be changing.  The code tells by counting      *)
(* (hasIPs); held tells by what callers were given, and so the property    *)
(* fails where the count is wrong: a release by its text can take out a    *)
(* blocked address, and the next address that is given out is not counted. *)
(***************************************************************************)
ParentHasNoIPs ==
    \A c \in Callers : \A a \in held[c] :
        store[a.cidr] # Absent => ~ store[a.cidr].isParent

(***************************************************************************)
(* The children a parent has marked as taken lie inside it and do not      *)
(* overlap, for lengths and specific children in any mix and with host     *)
(* bits set: no address is given to two children.                          *)
(***************************************************************************)
TakenDisjoint ==
    \A p \in Stored :
        /\ \A t \in p.taken : RangeOfPrefix(t) \subseteq RangeOfPrefix(p.Cidr)
        /\ \A t, u \in p.taken : Overlaps(t, u) => t = u

(***************************************************************************)
(* The prefixes made by NewPrefix do not overlap: the mutex makes reading  *)
(* the existing cidrs and creating the new prefix one step.                *)
(***************************************************************************)
TopLevelDisjoint ==
    \A p, q \in Stored :
        (p.ParentCidr = None /\ q.ParentCidr = None /\ Overlaps(p.Cidr, q.Cidr)) => p = q

(***************************************************************************)
(* No address is out twice: AcquireIP "will return the next unused IP".    *)
(***************************************************************************)
AddressesUnique ==
    \A c, d \in Callers : \A a \in held[c], b \in held[d] :
        a.ip = b.ip => c = d /\ a = b

\* The part of it that one prefix can answer for.
GrantedOnce == \A c, d \in Callers : c # d => held[c] \cap held[d] = {}

(***************************************************************************)
(* An address a caller holds stays in the ips of its prefix, so a later    *)
(* search passes over it: no commit of another caller loses it.            *)
(***************************************************************************)
HeldIsStored ==
    \A c \in Callers : \A a \in held[c] :
        store[a.cidr] # Absent /\ a.ip \in store[a.cidr].ips

(***************************************************************************)
(* No lost update: a commit adds or removes one address or one child of    *)
(* the record it finds, and changes nothing else in it.                    *)
(***************************************************************************)
Differing(S, T) == (S \ T) \cup (T \ S)

OneChange(p, q) ==
    /\ q.version = p.version + 1
    /\ q.ParentCidr = p.ParentCidr
    /\ Cardinality(Differing(p.ips, q.ips)) + Cardinality(Differing(p.taken, q.taken)) <= 1

CommitsChangeOneThing ==
    [][\A k \in Cidr : (store[k] # Absent /\ store'[k] # Absent /\ store'[k] # store[k])
                          => OneChange(store[k], store'[k])]_vars

(***************************************************************************)
(* Two child prefixes of the same parent that are leased do not overlap.   *)
(***************************************************************************)
LeasesDisjoint ==
    \A c, d \in Callers : \A a \in leases[c], b \in leases[d] :
        (a.ParentCidr = b.ParentCidr /\ Overlaps(a.Cidr, b.Cidr)) => c = d /\ a = b

(***************************************************************************)
(* A leased child prefix has a record of its own, so addresses can be      *)
(* acquired from it, and its parent has it marked as taken.                *)
(***************************************************************************)
LeaseIsStored ==
    \A c \in Callers : \A a \in leases[c] :
        /\ store[a.Cidr] # Absent
        /\ store[a.ParentCidr] # Absent
        /\ \E t \in store[a.ParentCidr].taken : Masked(t) = a.Cidr

(***************************************************************************)
(* A child that a parent has marked as taken exists, or a call that will   *)
(* create it or has marked it and is about to fail is still running: no    *)
(* part of a parent is lost for good.                                      *)
(***************************************************************************)
InProgress(cidr) ==
    \E c \in Callers : call[c].pc # "idle" /\ call[c].child # None /\ call[c].child.Cidr = cidr

NothingLost ==
    \A p \in Stored : \A t \in p.taken : store[Masked(t)] # Absent \/ InProgress(Masked(t))

(***************************************************************************)
(* The network address of a prefix, and the broadcast address of an IPv4   *)
(* prefix, are never given to a caller.                                    *)
(***************************************************************************)
BlockedNotHeld ==
    \A c \in Callers : \A a \in held[c] : a.ip \notin Blocked(a.cidr)

(***************************************************************************)
(* Every call returns: no caller waits forever for the mutex, and the      *)
(* retries end.                                                            *)
(***************************************************************************)
CallsReturn == \A c \in Callers : (call[c].pc # "idle") ~> (call[c].pc = "idle")

=============================================================================
