----------------------------- MODULE IpamProofs -----------------------------
(***************************************************************************)
(* Theorems about Ipam for every set of callers, instances and requests,   *)
(* every address width and every answer of the storage.                    *)
(***************************************************************************)
EXTENDS Ipam, NetipProofs, FiniteSetTheorems

(***************************************************************************)
(* The inductive invariant.  A split prefix must stay without addresses in *)
(* every copy of it that a caller may still write back, so the property is *)
(* asked of every record there is, stored or private; so is that its       *)
(* children lie apart, that its addresses lie in it and, when no caller    *)
(* releases an address by its text, that the blocked addresses are still   *)
(* among them.  The sets of addresses are finite, or counting them would   *)
(* say nothing; a record is stored under its own cidr; and a call has the  *)
(* arguments its next step uses.                                           *)
(***************************************************************************)
ChildrenApart(p) ==
    /\ \A t \in p.taken : RangeOfPrefix(t) \subseteq RangeOfPrefix(p.Cidr)
    /\ \A t, u \in p.taken : Overlaps(t, u) => t = u

GoodRecord ==
    { p \in PrefixRecord :
        /\ IsFiniteSet(p.ips)
        /\ p.isParent => ~ hasIPs(p)
        /\ ChildrenApart(p)
        /\ p.taken # {} => p.isParent
        /\ p.ips \subseteq RangeOfPrefix(p.Cidr)
        /\ NoReleaseByText => Blocked(p.Cidr) \subseteq p.ips }

GoodCalls == [pc    : PCs,
              req   : Request \cup {None},
              cur   : GoodRecord \cup {None},
              child : GoodRecord \cup {None},
              ip    : Address \cup {None},
              tries : Nat]

ReleaseOps == {"ReleaseChildPrefix", "ServiceReleaseChildPrefix"}

CallShape(k) ==
    /\ k.pc # "idle" => k.req # None
    /\ k.pc = "NewPrefixLock" => k.req.op = "NewPrefix"
    /\ k.pc \in Updating \cup {"NewPrefixCreate", "DeletePrefixStore"} => k.cur # None
    /\ k.pc \in {"AcquireChildUpdate", "AcquireChildCreate", "ReleaseChildRead",
                 "ReleaseChildUpdate"} => k.child # None
    /\ k.pc \in {"AcquireIPUpdate", "ReleaseIPUpdate"} => k.ip # None
    /\ (k.pc = "AcquireIPUpdate" /\ NoReleaseByText) => k.ip \notin Blocked(k.cur.Cidr)
    /\ (k.pc # "idle" /\ k.req.op \in ReleaseOps) => k.child # None

CallsOK ==
    /\ call \in [Callers -> GoodCalls]
    /\ \A c \in Callers : CallShape(call[c])

OwnKeys(s) == \A k \in Cidr : s[k] # Absent => s[k].Cidr = k

GoodHandle == { h \in Handle : NoReleaseByText => h.ip \notin Blocked(h.cidr) }

IInv ==
    /\ store \in [Cidr -> GoodRecord \cup {Absent}]
    /\ OwnKeys(store)
    /\ mu \in [Instances -> Callers \cup {Free}]
    /\ CallsOK
    /\ held \in [Callers -> SUBSET GoodHandle]
    /\ leases \in [Callers -> SUBSET GoodRecord]

-----------------------------------------------------------------------------
\* The addresses of a prefix are addresses.
LEMMA RangeIsAddress ==
    ASSUME NEW p \in RawPrefix
    PROVE  /\ From(p) \in Address
           /\ To(p) \in Address
           /\ RangeOfPrefix(p) \subseteq Address
<1>1. Masked(p).addr \in Int
  BY MaskedIsRaw DEF RawPrefix
<1>2. Size(p) \in Int
  BY SizePositive
<1>3. p.fam \in Families
  BY DEF RawPrefix
<1>4. Masked(p).addr + Size(p) - 1 \in Int
  BY <1>1, <1>2
<1>5. From(p) \in Address /\ To(p) \in Address
  BY <1>1, <1>3, <1>4 DEF From, To, Address
<1>6. RangeOfPrefix(p) \subseteq Address
  BY <1>3 DEF RangeOfPrefix, Address
<1> QED
  BY <1>5, <1>6

\* The blocked addresses do not depend on the host bits.
LEMMA BlockedMasked ==
    ASSUME NEW p \in RawPrefix
    PROVE  Blocked(Masked(p)) = Blocked(p)
<1>1. Masked(Masked(p)) = Masked(p)
  BY MaskedIsCidr, MaskedOfCidr
<1>2. Masked(p).fam = p.fam /\ Size(Masked(p)) = Size(p)
  BY MaskedParts
<1> QED
  BY <1>1, <1>2 DEF Blocked, From, To, Is4

-----------------------------------------------------------------------------
(***************************************************************************)
(* What the operations on one record return.                               *)
(***************************************************************************)
LEMMA NewIsGood ==
    ASSUME NEW cidr \in RawPrefix,
           NEW parentCidr \in RawPrefix \cup {None}
    PROVE  newPrefix(cidr, parentCidr) \in GoodRecord
<1> DEFINE p == newPrefix(cidr, parentCidr)
<1>1. p.Cidr \in Cidr
  BY MaskedIsCidr DEF newPrefix
<1>2. p.ParentCidr \in Cidr \cup {None}
  BY MaskedIsCidr DEF newPrefix
<1>3. Blocked(cidr) \subseteq Address
  BY RangeIsAddress DEF Blocked
<1>4. IsFiniteSet(Blocked(cidr))
  <2>1. IsFiniteSet({From(cidr)}) /\ IsFiniteSet({To(cidr)}) /\ IsFiniteSet({})
    BY FS_EmptySet, FS_Singleton
  <2>2. IsFiniteSet({From(cidr)} \cup {To(cidr)}) /\ IsFiniteSet({From(cidr)} \cup {})
    BY <2>1, FS_Union
  <2> QED
    BY <2>2 DEF Blocked
<1>5. p \in PrefixRecord
  BY <1>1, <1>2, <1>3 DEF newPrefix, PrefixRecord
<1>6. p.ips = Blocked(cidr) /\ p.isParent = FALSE /\ p.taken = {}
  BY DEF newPrefix
<1>7. ChildrenApart(p)
  BY <1>6 DEF ChildrenApart
<1>8. Blocked(p.Cidr) = Blocked(cidr)
  BY BlockedMasked DEF newPrefix
<1>9. p.ips \subseteq RangeOfPrefix(p.Cidr)
  BY <1>6, EndsInRange, MaskedRange DEF newPrefix, Blocked
<1> HIDE DEF p
<1> QED
  BY <1>4, <1>5, <1>6, <1>7, <1>8, <1>9 DEF GoodRecord, p

(***************************************************************************)
(* Marking a child keeps a record good when the record has no addresses    *)
(* and the child lies in its free space, as acquireChildPrefixInternal     *)
(* checks: the free space has no address of another child.                 *)
(***************************************************************************)
LEMMA WithChildIsGood ==
    ASSUME NEW p \in GoodRecord, NEW cp \in RawPrefix, ~ hasIPs(p),
           ContainsPrefix(FreeSpace(p), cp)
    PROVE  WithChild(p, cp) \in GoodRecord
<1> DEFINE q == WithChild(p, cp)
<1>1. q \in PrefixRecord
  BY DEF GoodRecord, PrefixRecord, WithChild
<1>2. q.ips = p.ips /\ q.Cidr = p.Cidr /\ q.taken = p.taken \cup {cp} /\ q.isParent = TRUE
  BY DEF GoodRecord, PrefixRecord, WithChild
<1>3. ~ hasIPs(q)
  BY <1>2 DEF hasIPs
<1>4. RangeOfPrefix(cp) \subseteq RangeOfPrefix(p.Cidr)
  BY DEF ContainsPrefix, FreeSpace, IPSet
<1>5. \A t \in p.taken : ~ Overlaps(t, cp) /\ ~ Overlaps(cp, t)
  BY DEF ContainsPrefix, FreeSpace, IPSet, Overlaps
<1> HIDE DEF q
<1>6. ChildrenApart(q)
  BY <1>2, <1>4, <1>5 DEF ChildrenApart, GoodRecord
<1> QED
  BY <1>1, <1>2, <1>3, <1>6 DEF GoodRecord, q

\* Releasing a child keeps a record good.
LEMMA WithoutChildIsGood ==
    ASSUME NEW p \in GoodRecord, NEW cp
    PROVE  WithoutChild(p, cp) \in GoodRecord
<1> DEFINE q == WithoutChild(p, cp)
<1>1. q \in PrefixRecord
  BY DEF GoodRecord, PrefixRecord, WithoutChild
<1>2. q.ips = p.ips /\ q.Cidr = p.Cidr /\ q.isParent = p.isParent /\ q.taken \subseteq p.taken
  BY DEF GoodRecord, PrefixRecord, WithoutChild
<1>3. hasIPs(q) <=> hasIPs(p)
  BY <1>2 DEF hasIPs
<1>4. ChildrenApart(q)
  BY <1>2 DEF ChildrenApart, GoodRecord
<1> QED
  BY <1>1, <1>2, <1>3, <1>4 DEF GoodRecord

\* Adding an address keeps a record good when it is no parent, as
\* acquireSpecificIPInternal checks.
LEMMA WithIPIsGood ==
    ASSUME NEW p \in GoodRecord, NEW ip \in RangeOfPrefix(p.Cidr), ~ p.isParent
    PROVE  WithIP(p, ip) \in GoodRecord
<1> DEFINE q == WithIP(p, ip)
<1>1. q \in PrefixRecord
  <2>1. ip \in Address
    BY RangeIsAddress, CidrIsRaw DEF GoodRecord, PrefixRecord
  <2> QED
    BY <2>1 DEF GoodRecord, PrefixRecord, WithIP
<1>2. q.ips = p.ips \cup {ip} /\ q.isParent = p.isParent /\ q.Cidr = p.Cidr
      /\ q.taken = p.taken
  BY DEF GoodRecord, PrefixRecord, WithIP
<1>3. IsFiniteSet(q.ips)
  BY <1>2, FS_AddElement DEF GoodRecord
<1>4. ChildrenApart(q)
  BY <1>2 DEF ChildrenApart, GoodRecord
<1> QED
  BY <1>1, <1>2, <1>3, <1>4 DEF GoodRecord

\* Removing an address that is not blocked keeps a record good: fewer
\* addresses than before.
LEMMA WithoutIPIsGood ==
    ASSUME NEW p \in GoodRecord, NEW ip, NoReleaseByText => ip \notin Blocked(p.Cidr)
    PROVE  WithoutIP(p, ip) \in GoodRecord
<1> DEFINE q == WithoutIP(p, ip)
<1>1. q \in PrefixRecord
  BY DEF GoodRecord, PrefixRecord, WithoutIP
<1>2. q.ips = p.ips \ {ip} /\ q.isParent = p.isParent /\ q.Cidr = p.Cidr
      /\ q.taken = p.taken
  BY DEF GoodRecord, PrefixRecord, WithoutIP
<1>3. IsFiniteSet(p.ips)
  BY DEF GoodRecord
<1>4. IsFiniteSet(q.ips) /\ Cardinality(q.ips) <= Cardinality(p.ips)
  BY <1>2, <1>3, FS_Subset
<1>5. Cardinality(q.ips) \in Nat /\ Cardinality(p.ips) \in Nat
  BY <1>3, <1>4, FS_CardinalityType
<1>6. hasIPs(q) => hasIPs(p)
  BY <1>2, <1>4, <1>5 DEF hasIPs
<1>7. ChildrenApart(q)
  BY <1>2 DEF ChildrenApart, GoodRecord
<1> QED
  BY <1>1, <1>2, <1>4, <1>6, <1>7 DEF GoodRecord

\* What UpdatePrefix stores is as good as what it was given.
LEMMA NextVersionIsGood ==
    ASSUME NEW p \in GoodRecord
    PROVE  [p EXCEPT !.version = @ + 1] \in GoodRecord
<1> DEFINE q == [p EXCEPT !.version = @ + 1]
<1>1. q \in PrefixRecord
  BY DEF GoodRecord, PrefixRecord
<1>2. q.ips = p.ips /\ q.isParent = p.isParent /\ q.Cidr = p.Cidr
      /\ q.taken = p.taken
  BY DEF GoodRecord, PrefixRecord
<1>3. hasIPs(q) <=> hasIPs(p)
  BY <1>2 DEF hasIPs
<1>4. ChildrenApart(q)
  BY <1>2 DEF ChildrenApart, GoodRecord
<1> QED
  BY <1>1, <1>2, <1>3, <1>4 DEF GoodRecord

(***************************************************************************)
(* A child the parent can give is a prefix in the free space of the        *)
(* parent, and the parent has no addresses; an address a prefix can give   *)
(* lies in it, and the prefix is not split.                                *)
(***************************************************************************)
LEMMA AvailableChildOK ==
    ASSUME NEW p \in PrefixRecord, NEW r \in Request,
           NEW cp \in AvailableChild(p, r.child, r.length)
    PROVE  /\ cp \in RawPrefix
           /\ ~ hasIPs(p)
           /\ ContainsPrefix(FreeSpace(p), cp)
           /\ cp.bits > p.Cidr.bits
<1>1. /\ cp \in CandidateChild(p, r.child, r.length) /\ IsValid(cp) /\ ~ hasIPs(p)
      /\ cp.bits > p.Cidr.bits
  BY DEF AvailableChild
<1>2. CASE r.child # None
  BY <1>1, <1>2 DEF CandidateChild, SpecificChild, Request
<1>3. CASE r.child = None
  <2>1. PICK q \in BestFit(FreeSpace(p), r.length) : cp = [q EXCEPT !.bits = r.length]
    BY <1>1, <1>3 DEF CandidateChild, ChildOfLength, RemoveFreePrefix
  <2>2. q \in Cidr /\ ContainsPrefix(FreeSpace(p), q) /\ q.bits <= r.length
    BY DEF BestFit, Fitting, Prefixes
  <2>3. q = [fam |-> q.fam, addr |-> q.addr, bits |-> q.bits]
    BY <2>2, CidrIsRaw, RawParts
  <2>4. cp.fam = q.fam /\ cp.bits = r.length
    BY <2>1, <2>3
  <2>5. r.length \in Nat /\ r.length <= BitLen(q.fam)
    BY <1>1, <2>4 DEF IsValid, Request
  <2>6. cp \in RawPrefix /\ RangeOfPrefix(cp) \subseteq RangeOfPrefix(q)
    BY <2>1, <2>2, <2>5, FirstBlockInside
  <2> QED
    BY <1>1, <2>2, <2>6 DEF ContainsPrefix
<1> QED
  BY <1>2, <1>3

\* The address search gives addresses, and none for a parent.
LEMMA AvailableIPOK ==
    ASSUME NEW p \in PrefixRecord, NEW x, NEW ip \in AvailableIP(p, x)
    PROVE  ip \in RangeOfPrefix(p.Cidr) /\ ip \in Address /\ ip \notin p.ips /\ ~ p.isParent
<1>1. ~ p.isParent /\ ip \in FreeIPs(p)
  BY DEF AvailableIP
<1>2. RangeOfPrefix(p.Cidr) \subseteq Address
  BY RangeIsAddress, CidrIsRaw DEF PrefixRecord
<1> QED
  BY <1>1, <1>2 DEF FreeIPs

-----------------------------------------------------------------------------
(***************************************************************************)
(* How a step changes the call of one caller, and the storage.             *)
(***************************************************************************)
LEMMA NoneIsNoRecord == None \notin GoodRecord /\ Absent \notin GoodRecord
  BY AbsentAssumption DEF GoodRecord

\* A caller outside of any call is well formed.
LEMMA IdleOK == Idle \in GoodCalls /\ CallShape(Idle)
  BY DEF Idle, GoodCalls, CallShape, PCs, Updating

\* A return leaves the calls well formed.
LEMMA ReturnOK ==
    ASSUME CallsOK, NEW c \in Callers, Return(c)
    PROVE  CallsOK'
  BY IdleOK DEF CallsOK, Return

\* A call that goes on with good records stays well formed.
LEMMA ProceedOK ==
    ASSUME CallsOK, NEW c \in Callers,
           NEW pc \in PCs, NEW r \in Request,
           NEW cur \in GoodRecord \cup {None}, NEW child \in GoodRecord \cup {None},
           NEW ip \in Address \cup {None},
           \A n \in Nat : CallShape([pc |-> pc, req |-> r, cur |-> cur, child |-> child,
                                     ip |-> ip, tries |-> n]),
           Proceed(c, pc, r, cur, child, ip)
    PROVE  CallsOK'
<1> DEFINE k == [pc |-> pc, req |-> r, cur |-> cur, child |-> child, ip |-> ip,
                 tries |-> call[c].tries + 1]
<1>1. call[c].tries + 1 \in Nat
  BY DEF CallsOK, GoodCalls
<1>2. k \in GoodCalls /\ CallShape(k)
  BY <1>1 DEF GoodCalls
<1>3. call' = [call EXCEPT ![c] = k]
  BY DEF Proceed
<1> HIDE DEF k
<1> QED
  BY <1>2, <1>3 DEF CallsOK

\* UpdatePrefix of a good record leaves the storage good.
LEMMA UpdateOK ==
    ASSUME IInv, NEW p \in GoodRecord, UpdatePrefix(p)
    PROVE  store' \in [Cidr -> GoodRecord \cup {Absent}] /\ OwnKeys(store')
<1>1. [p EXCEPT !.version = @ + 1] \in GoodRecord
  BY NextVersionIsGood
<1>2. p.Cidr \in Cidr /\ [p EXCEPT !.version = @ + 1].Cidr = p.Cidr
  BY DEF GoodRecord, PrefixRecord
<1> QED
  BY <1>1, <1>2 DEF IInv, OwnKeys, UpdatePrefix

\* CreatePrefix of a good record leaves the storage good.
LEMMA CreateOK ==
    ASSUME IInv, NEW p \in GoodRecord, CreatePrefix(p)
    PROVE  store' \in [Cidr -> GoodRecord \cup {Absent}] /\ OwnKeys(store')
<1>1. p.Cidr \in Cidr
  BY DEF GoodRecord, PrefixRecord
<1> QED
  BY <1>1 DEF IInv, OwnKeys, CreatePrefix

\* PrefixFrom returns a good record or none.
LEMMA PrefixFromOK ==
    ASSUME IInv, NEW cidr \in RawPrefix
    PROVE  /\ PrefixFrom(cidr) \in GoodRecord \cup {Absent}
           /\ PrefixFrom(cidr) # Absent => PrefixFrom(cidr).Cidr = Masked(cidr)
  BY MaskedIsCidr DEF IInv, OwnKeys, PrefixFrom

\* The records a call needs for its next step are there.
LEMMA CallOK ==
    ASSUME IInv, NEW c \in Callers
    PROVE  /\ call[c] \in GoodCalls
           /\ CallShape(call[c])
           /\ call[c].pc # "idle" => call[c].req \in Request
           /\ call[c].pc \in Updating \cup {"NewPrefixCreate", "DeletePrefixStore"}
                => call[c].cur \in GoodRecord
           /\ call[c].pc \in {"AcquireChildUpdate", "AcquireChildCreate", "ReleaseChildRead",
                              "ReleaseChildUpdate"} => call[c].child \in GoodRecord
           /\ call[c].pc \in {"AcquireIPUpdate", "ReleaseIPUpdate"} => call[c].ip \in Address
<1>1. call[c] \in GoodCalls /\ CallShape(call[c])
  BY DEF IInv, CallsOK
<1>2. /\ call[c].req \in Request \cup {None}
      /\ call[c].cur \in GoodRecord \cup {None}
      /\ call[c].child \in GoodRecord \cup {None}
      /\ call[c].ip \in Address \cup {None}
  BY <1>1 DEF GoodCalls
<1> QED
  BY <1>1, <1>2 DEF CallShape

-----------------------------------------------------------------------------
\* The empty storage satisfies the invariant.
LEMMA InitOK == Init => IInv
  BY IdleOK DEF Init, IInv, OwnKeys, CallsOK

\* The steps that read keep the invariant.
LEMMA ReadStepsOK ==
    ASSUME IInv, NEW c \in Callers, NEW r \in Requests, ReadStep(c, r)
    PROVE  IInv'
<1>1. r \in Request /\ r.cidr \in RawPrefix
  BY IpamAssumption DEF Request
<1>2. r # None
  BY <1>1, AbsentAssumption
<1> USE <1>1
<1>3. CASE NewPrefixCall(c, r)
  <2>1. CallsOK'
    <3>1. Proceed(c, "NewPrefixLock", r, None, None, None)
      BY <1>3 DEF NewPrefixCall
    <3>2. \A n \in Nat : CallShape([pc |-> "NewPrefixLock", req |-> r, cur |-> None,
                                    child |-> None, ip |-> None, tries |-> n])
      BY <1>2, <1>3 DEF CallShape, NewPrefixCall, Updating, ReleaseOps
    <3> QED
      BY <3>1, <3>2, ProceedOK DEF IInv, PCs
  <2> QED
    BY <1>3, <2>1 DEF NewPrefixCall, IInv
<1>4. CASE DeletePrefixRead(c, r)
  <2> DEFINE p == PrefixFrom(r.cidr)
  <2>1. p \in GoodRecord \cup {Absent}
    BY PrefixFromOK
  <2>2. call[c] \in GoodCalls /\ CallShape(call[c])
    BY CallOK
  <2>3. call[c].child \in GoodRecord \cup {None}
    BY <2>2 DEF GoodCalls
  <2>4. CASE p = Absent \/ hasIPs(p)
    <3>1. Return(c) /\ LeasesAfterError(c)
      BY <1>4, <2>4 DEF DeletePrefixRead
    <3>2. leases' \in [Callers -> SUBSET GoodRecord]
      BY <2>3, <3>1 DEF LeasesAfterError, IInv
    <3> QED
      BY <1>4, <3>1, <3>2, ReturnOK DEF DeletePrefixRead, IInv
  <2>5. CASE ~ (p = Absent \/ hasIPs(p))
    <3>1. Proceed(c, "DeletePrefixStore", r, p, call[c].child, None) /\ UNCHANGED leases
      BY <1>4, <2>5 DEF DeletePrefixRead
    <3>2. p \in GoodRecord /\ p # None
      BY <2>1, <2>5, NoneIsNoRecord
    <3>3. r.op \in ReleaseOps => call[c].child # None
      BY <1>4, <2>2 DEF DeletePrefixRead, DeletePrefixEntering, CallShape, ReleaseOps
    <3>4. \A n \in Nat : CallShape([pc |-> "DeletePrefixStore", req |-> r, cur |-> p,
                                    child |-> call[c].child, ip |-> None, tries |-> n])
      BY <1>2, <3>2, <3>3 DEF CallShape, Updating
    <3>5. CallsOK'
      BY <2>3, <3>1, <3>2, <3>4, ProceedOK DEF IInv, PCs
    <3> QED
      BY <1>4, <3>1, <3>5 DEF DeletePrefixRead, IInv
  <2> QED
    BY <2>4, <2>5
<1>5. CASE AcquireChildRead(c, r)
  <2> DEFINE p == PrefixFrom(r.cidr)
             children == IF p = Absent THEN {} ELSE AvailableChild(p, r.child, r.length)
  <2>1. p \in GoodRecord \cup {Absent}
    BY PrefixFromOK
  <2>2. CASE children = {}
    <3>1. Return(c)
      BY <1>5, <2>2 DEF AcquireChildRead
    <3> QED
      BY <1>5, <3>1, ReturnOK DEF AcquireChildRead, IInv
  <2>3. CASE children # {}
    <3>1. PICK cp \in children :
            Proceed(c, "AcquireChildUpdate", r, WithChild(p, cp), newPrefix(cp, r.cidr), None)
      BY <1>5, <2>3 DEF AcquireChildRead
    <3>2. p \in GoodRecord /\ cp \in AvailableChild(p, r.child, r.length)
      BY <2>1, <3>1
    <3>3. cp \in RawPrefix /\ ~ hasIPs(p) /\ ContainsPrefix(FreeSpace(p), cp)
      BY <3>2, AvailableChildOK DEF GoodRecord
    <3>4. WithChild(p, cp) \in GoodRecord /\ newPrefix(cp, r.cidr) \in GoodRecord
      BY <3>2, <3>3, WithChildIsGood, NewIsGood
    <3>5. WithChild(p, cp) # None /\ newPrefix(cp, r.cidr) # None
      BY <3>4, NoneIsNoRecord
    <3>6. \A n \in Nat : CallShape([pc |-> "AcquireChildUpdate", req |-> r, cur |-> WithChild(p, cp),
                                    child |-> newPrefix(cp, r.cidr), ip |-> None, tries |-> n])
      BY <1>2, <3>5 DEF CallShape
    <3>7. CallsOK'
      BY <3>1, <3>4, <3>6, ProceedOK DEF IInv, PCs, Updating
    <3> QED
      BY <1>5, <3>7 DEF AcquireChildRead, IInv
  <2> QED
    BY <2>2, <2>3
<1>6. CASE ReleaseChildCall(c, r)
  <2>1. PICK child \in ChildArgument(c, r) :
          call' = [call EXCEPT ![c].pc = "ReleaseChildRead", ![c].req = r, ![c].child = child]
    BY <1>6 DEF ReleaseChildCall
  <2>2. child \in GoodRecord /\ child # None
    BY <2>1, PrefixFromOK, NoneIsNoRecord DEF ChildArgument, IInv
  <2>3. call[c] \in GoodCalls
    BY CallOK
  <2> DEFINE k == [call[c] EXCEPT !.pc = "ReleaseChildRead", !.req = r, !.child = child]
  <2>4. call' = [call EXCEPT ![c] = k]
    BY <2>1, <2>3 DEF IInv, CallsOK, GoodCalls
  <2>5. k \in GoodCalls /\ CallShape(k)
    BY <1>2, <2>2, <2>3 DEF GoodCalls, CallShape, PCs, Updating
  <2> HIDE DEF k
  <2>6. CallsOK'
    BY <2>4, <2>5 DEF IInv, CallsOK
  <2> QED
    BY <1>6, <2>6 DEF ReleaseChildCall, IInv
<1>7. CASE AcquireIPRead(c, r)
  <2> DEFINE p == PrefixFrom(r.cidr)
             ips == IF p = Absent THEN {} ELSE AvailableIP(p, r.ip)
  <2>1. p \in GoodRecord \cup {Absent}
    BY PrefixFromOK
  <2>2. CASE ips = {}
    <3>1. Return(c)
      BY <1>7, <2>2 DEF AcquireIPRead
    <3> QED
      BY <1>7, <3>1, ReturnOK DEF AcquireIPRead, IInv
  <2>3. CASE ips # {}
    <3>1. PICK ip \in ips : Proceed(c, "AcquireIPUpdate", r, WithIP(p, ip), None, ip)
      BY <1>7, <2>3 DEF AcquireIPRead
    <3>2. p \in GoodRecord /\ ip \in AvailableIP(p, r.ip)
      BY <2>1, <3>1
    <3>3. ip \in Address /\ ip \in RangeOfPrefix(p.Cidr) /\ ip \notin p.ips /\ ~ p.isParent
      BY <3>2, AvailableIPOK DEF GoodRecord
    <3>4. WithIP(p, ip) \in GoodRecord
      BY <3>2, <3>3, WithIPIsGood
    <3>5. /\ WithIP(p, ip) # None /\ ip # None
          /\ NoReleaseByText => ip \notin Blocked(WithIP(p, ip).Cidr)
      <4>1. WithIP(p, ip).Cidr = p.Cidr
        BY <3>2 DEF WithIP, GoodRecord, PrefixRecord
      <4> QED
        BY <3>2, <3>3, <3>4, <4>1, NoneIsNoRecord, AbsentAssumption DEF GoodRecord
    <3>6. \A n \in Nat : CallShape([pc |-> "AcquireIPUpdate", req |-> r, cur |-> WithIP(p, ip),
                                    child |-> None, ip |-> ip, tries |-> n])
      BY <1>2, <1>7, <3>5 DEF CallShape, AcquireIPRead, ReleaseOps
    <3>7. CallsOK'
      BY <3>1, <3>3, <3>4, <3>6, ProceedOK DEF IInv, PCs, Updating
    <3> QED
      BY <1>7, <3>7 DEF AcquireIPRead, IInv
  <2> QED
    BY <2>2, <2>3
<1>8. CASE ReleaseIPRead(c, r)
  <2> DEFINE p == PrefixFrom(r.cidr)
  <2>1. p \in GoodRecord \cup {Absent}
    BY PrefixFromOK
  <2>2. CASE p = Absent \/ r.ip \notin p.ips
    <3>1. Return(c)
      BY <1>8, <2>2 DEF ReleaseIPRead
    <3> QED
      BY <1>8, <3>1, ReturnOK DEF ReleaseIPRead, IInv
  <2>3. CASE ~ (p = Absent \/ r.ip \notin p.ips)
    <3>1. Proceed(c, "ReleaseIPUpdate", r, WithoutIP(p, r.ip), None, r.ip)
      BY <1>8, <2>3 DEF ReleaseIPRead
    <3>2. p \in GoodRecord /\ r.ip \in p.ips
      BY <2>1, <2>3
    <3>3. r.ip \in Address /\ r.ip # None
      BY <3>2, AbsentAssumption DEF GoodRecord, PrefixRecord
    <3>4. WithoutIP(p, r.ip) \in GoodRecord /\ WithoutIP(p, r.ip) # None
      <4>1. p.Cidr = Masked(r.cidr)
        BY <2>3, PrefixFromOK
      <4>2. NoReleaseByText => [cidr |-> Masked(r.cidr), ip |-> r.ip] \in GoodHandle
        BY <1>8 DEF ReleaseIPRead, NoReleaseByText, IInv
      <4>3. NoReleaseByText => r.ip \notin Blocked(p.Cidr)
        BY <4>1, <4>2 DEF GoodHandle
      <4> QED
        BY <3>2, <4>3, WithoutIPIsGood, NoneIsNoRecord
    <3>5. \A n \in Nat : CallShape([pc |-> "ReleaseIPUpdate", req |-> r, cur |-> WithoutIP(p, r.ip),
                                    child |-> None, ip |-> r.ip, tries |-> n])
      BY <1>2, <1>8, <3>3, <3>4 DEF CallShape, ReleaseIPRead, ReleaseOps
    <3>6. CallsOK'
      BY <3>1, <3>3, <3>4, <3>5, ProceedOK DEF IInv, PCs, Updating
    <3> QED
      BY <1>8, <3>6 DEF ReleaseIPRead, IInv
  <2> QED
    BY <2>2, <2>3
<1> QED
  BY <1>3, <1>4, <1>5, <1>6, <1>7, <1>8 DEF ReadStep

\* A step that only moves a call to a later storage call keeps its arguments.
LEMMA GoToOK ==
    ASSUME CallsOK, NEW c \in Callers, NEW pc \in PCs,
           CallShape([call[c] EXCEPT !.pc = pc]),
           GoTo(c, pc)
    PROVE  CallsOK'
<1> DEFINE k == [call[c] EXCEPT !.pc = pc]
<1>1. call[c] \in GoodCalls
  BY DEF CallsOK
<1>2. call' = [call EXCEPT ![c] = k]
  BY <1>1 DEF GoTo, CallsOK, GoodCalls
<1>3. k \in GoodCalls
  BY <1>1 DEF GoodCalls
<1> HIDE DEF k
<1> QED
  BY <1>2, <1>3 DEF CallsOK, k

\* The steps that continue a call keep the invariant.
LEMMA OtherStepsOK ==
    ASSUME IInv, NEW c \in Callers, OtherStep(c)
    PROVE  IInv'
<1> DEFINE k == call[c]
<1>1. /\ k \in GoodCalls /\ CallShape(k)
      /\ k.pc # "idle" => k.req \in Request
      /\ k.pc \in Updating \cup {"NewPrefixCreate", "DeletePrefixStore"} => k.cur \in GoodRecord
      /\ k.pc \in {"AcquireChildUpdate", "AcquireChildCreate", "ReleaseChildRead",
                   "ReleaseChildUpdate"} => k.child \in GoodRecord
      /\ k.pc \in {"AcquireIPUpdate", "ReleaseIPUpdate"} => k.ip \in Address
  BY CallOK
<1>2. k.child \in GoodRecord \cup {None}
  BY <1>1 DEF GoodCalls
<1>3. CASE NewPrefixRead(c)
  <2>1. k.req \in Request /\ k.req # None /\ k.req.cidr \in RawPrefix
    BY <1>1, <1>3, AbsentAssumption DEF NewPrefixRead, Request
  <2>2. CASE PrefixesOverlapping(ReadAllPrefixCidrs, k.req.cidr)
    <3>1. Return(c) /\ UNCHANGED mu
      BY <1>3, <2>2 DEF NewPrefixRead
    <3> QED
      BY <1>3, <3>1, ReturnOK DEF NewPrefixRead, IInv
  <2>3. CASE ~ PrefixesOverlapping(ReadAllPrefixCidrs, k.req.cidr)
    <3> DEFINE p == newPrefix(k.req.cidr, None)
    <3>1. /\ Proceed(c, "NewPrefixCreate", k.req, p, None, None)
          /\ mu' = [mu EXCEPT ![InstanceOf[c]] = c]
      BY <1>3, <2>3 DEF NewPrefixRead
    <3>2. p \in GoodRecord /\ p # None
      BY <2>1, NewIsGood, NoneIsNoRecord
    <3>3. \A n \in Nat : CallShape([pc |-> "NewPrefixCreate", req |-> k.req, cur |-> p,
                                    child |-> None, ip |-> None, tries |-> n])
      BY <1>1, <1>3, <2>1, <3>2 DEF CallShape, NewPrefixRead, Updating, ReleaseOps
    <3>4. CallsOK'
      BY <2>1, <3>1, <3>2, <3>3, ProceedOK DEF IInv, PCs
    <3>5. mu' \in [Instances -> Callers \cup {Free}]
      BY <3>1, IpamAssumption DEF IInv
    <3> QED
      BY <1>3, <3>4, <3>5 DEF NewPrefixRead, IInv
  <2> QED
    BY <2>2, <2>3
<1>4. CASE NewPrefixCreate(c)
  <2>1. k.cur \in GoodRecord
    BY <1>1, <1>4 DEF NewPrefixCreate
  <2>2. store' \in [Cidr -> GoodRecord \cup {Absent}] /\ OwnKeys(store')
    BY <1>4, <2>1, CreateOK DEF NewPrefixCreate
  <2>3. mu' \in [Instances -> Callers \cup {Free}]
    BY <1>4, IpamAssumption DEF NewPrefixCreate, IInv
  <2>4. CallsOK'
    BY <1>4, ReturnOK DEF NewPrefixCreate, IInv
  <2> QED
    BY <1>4, <2>2, <2>3, <2>4 DEF NewPrefixCreate, IInv
<1>5. CASE DeletePrefixStore(c)
  <2>1. k.cur \in GoodRecord
    BY <1>1, <1>5 DEF DeletePrefixStore
  <2>2. store' \in [Cidr -> GoodRecord \cup {Absent}] /\ OwnKeys(store')
    BY <1>5, <2>1 DEF DeletePrefixStore, DeletePrefix, IInv, OwnKeys
  <2>3. leases' \in [Callers -> SUBSET GoodRecord]
    BY <1>2, <1>5 DEF DeletePrefixStore, LeasesAfterError, IInv
  <2>4. CallsOK'
    BY <1>5, ReturnOK DEF DeletePrefixStore, IInv
  <2> QED
    BY <1>5, <2>2, <2>3, <2>4 DEF DeletePrefixStore, IInv
<1>6. CASE AcquireChildUpdate(c)
  <2>1. k.cur \in GoodRecord /\ k.child \in GoodRecord
    BY <1>1, <1>6 DEF AcquireChildUpdate, Updating
  <2>2. store' \in [Cidr -> GoodRecord \cup {Absent}] /\ OwnKeys(store')
    BY <1>6, <2>1, UpdateOK DEF AcquireChildUpdate
  <2>3. CallShape([k EXCEPT !.pc = "AcquireChildCreate"])
    BY <1>1, <1>6, <2>1, NoneIsNoRecord DEF CallShape, AcquireChildUpdate, GoodCalls, Updating
  <2>4. CallsOK'
    BY <1>6, <2>3, GoToOK DEF AcquireChildUpdate, IInv, PCs
  <2> QED
    BY <1>6, <2>2, <2>4 DEF AcquireChildUpdate, IInv
<1>7. CASE AcquireChildCreate(c)
  <2>1. k.child \in GoodRecord
    BY <1>1, <1>7 DEF AcquireChildCreate
  <2>2. store' \in [Cidr -> GoodRecord \cup {Absent}] /\ OwnKeys(store')
    BY <1>7, <2>1, CreateOK DEF AcquireChildCreate
  <2>3. leases' \in [Callers -> SUBSET GoodRecord]
    BY <1>7, <2>1 DEF AcquireChildCreate, IInv
  <2>4. CallsOK'
    BY <1>7, ReturnOK DEF AcquireChildCreate, IInv
  <2> QED
    BY <1>7, <2>2, <2>3, <2>4 DEF AcquireChildCreate, IInv
<1>8. CASE ReleaseChildRead(c)
  <2>1. k.req \in Request /\ k.req # None /\ k.child \in GoodRecord /\ k.child # None
    BY <1>1, <1>2, <1>8, AbsentAssumption, NoneIsNoRecord
       DEF ReleaseChildRead, ReleaseChildEntering, CallShape, ReleaseOps
  <2> DEFINE parent == IF k.child.ParentCidr = None THEN Absent
                       ELSE PrefixFrom(k.child.ParentCidr)
             stays == parent = Absent \/ ~ parent.isParent \/ ChildHasIPs(k.child)
  <2>2. parent \in GoodRecord \cup {Absent}
    <3>1. k.child.ParentCidr \in Cidr \cup {None}
      BY <2>1 DEF GoodRecord, PrefixRecord
    <3> QED
      BY <3>1, CidrIsRaw, PrefixFromOK
  <2>3. CASE stays
    <3>1. Return(c)
      BY <1>8, <2>3 DEF ReleaseChildRead
    <3> QED
      BY <1>8, <3>1, ReturnOK DEF ReleaseChildRead, IInv
  <2>4. CASE ~ stays
    <3> DEFINE p == WithoutChild(parent, k.child.Cidr)
    <3>1. Proceed(c, "ReleaseChildUpdate", k.req, p, k.child, None)
      BY <1>8, <2>4 DEF ReleaseChildRead
    <3>2. p \in GoodRecord /\ p # None
      BY <2>2, <2>4, WithoutChildIsGood, NoneIsNoRecord
    <3>3. \A n \in Nat : CallShape([pc |-> "ReleaseChildUpdate", req |-> k.req, cur |-> p,
                                    child |-> k.child, ip |-> None, tries |-> n])
      BY <2>1, <3>2 DEF CallShape
    <3>4. CallsOK'
      BY <2>1, <3>1, <3>2, <3>3, ProceedOK DEF IInv, PCs, Updating
    <3> QED
      BY <1>8, <3>4 DEF ReleaseChildRead, IInv
  <2> QED
    BY <2>3, <2>4
<1>9. CASE ReleaseChildUpdate(c)
  <2>1. k.cur \in GoodRecord /\ k.child \in GoodRecord
    BY <1>1, <1>9 DEF ReleaseChildUpdate, Updating
  <2>2. store' \in [Cidr -> GoodRecord \cup {Absent}] /\ OwnKeys(store')
    BY <1>9, <2>1, UpdateOK DEF ReleaseChildUpdate
  <2>3. leases' \in [Callers -> SUBSET GoodRecord]
    BY <1>9 DEF ReleaseChildUpdate, IInv
  <2>4. CallShape([k EXCEPT !.pc = "DeletePrefixRead"])
    BY <1>1, <1>9, <2>1, NoneIsNoRecord DEF CallShape, ReleaseChildUpdate, GoodCalls, Updating
  <2>5. CallsOK'
    BY <1>9, <2>4, GoToOK DEF ReleaseChildUpdate, IInv, PCs
  <2> QED
    BY <1>9, <2>2, <2>3, <2>5 DEF ReleaseChildUpdate, IInv
<1>10. CASE AcquireIPUpdate(c) \/ ReleaseIPUpdate(c)
  <2>1. k.cur \in GoodRecord /\ k.ip \in Address
    BY <1>1, <1>10 DEF AcquireIPUpdate, ReleaseIPUpdate, Updating
  <2>2. store' \in [Cidr -> GoodRecord \cup {Absent}] /\ OwnKeys(store')
    BY <1>10, <2>1, UpdateOK DEF AcquireIPUpdate, ReleaseIPUpdate
  <2>3. AcquireIPUpdate(c) => [cidr |-> k.cur.Cidr, ip |-> k.ip] \in GoodHandle
    BY <1>1, <2>1 DEF AcquireIPUpdate, CallShape, GoodHandle, Handle, GoodRecord, PrefixRecord
  <2>4. held' \in [Callers -> SUBSET GoodHandle]
    BY <1>10, <2>3 DEF AcquireIPUpdate, ReleaseIPUpdate, IInv
  <2>5. CallsOK'
    BY <1>10, ReturnOK DEF AcquireIPUpdate, ReleaseIPUpdate, IInv
  <2> QED
    BY <1>10, <2>2, <2>4, <2>5 DEF AcquireIPUpdate, ReleaseIPUpdate, IInv
<1>11. CASE UpdateFails(c)
  <2>1. k.req \in Request /\ k.req # None
    BY <1>1, <1>11, AbsentAssumption DEF UpdateFails, Updating
  <2> DEFINE r == [k EXCEPT !.pc = "retry", !.cur = None, !.ip = None]
  <2>2. CASE Return(c)
    BY <1>11, <2>2, ReturnOK DEF UpdateFails, IInv
  <2>3. CASE call' = [call EXCEPT ![c].pc = "retry", ![c].cur = None, ![c].ip = None]
    <3>1. call' = [call EXCEPT ![c] = r]
      BY <1>1, <2>3 DEF IInv, CallsOK, GoodCalls
    <3>2. r \in GoodCalls /\ CallShape(r)
      BY <1>1, <1>11, <2>1 DEF GoodCalls, CallShape, UpdateFails, PCs, Updating
    <3> HIDE DEF r
    <3>3. CallsOK'
      BY <3>1, <3>2 DEF IInv, CallsOK
    <3> QED
      BY <1>11, <3>3 DEF UpdateFails, IInv
  <2> QED
    BY <1>11, <2>2, <2>3 DEF UpdateFails
<1> QED
  BY <1>3, <1>4, <1>5, <1>6, <1>7, <1>8, <1>9, <1>10, <1>11 DEF OtherStep

\* A crash keeps the invariant.
LEMMA CrashOK ==
    ASSUME IInv, NEW i \in Instances, Crash(i)
    PROVE  IInv'
<1>1. CallsOK'
  BY IdleOK DEF Crash, IInv, CallsOK
<1>2. mu' \in [Instances -> Callers \cup {Free}]
  BY DEF Crash, IInv
<1> QED
  BY <1>1, <1>2 DEF Crash, IInv

\* IInv is an invariant of the specification.
LEMMA Invariance == Spec => []IInv
<1>1. IInv /\ [Next]_vars => IInv'
  <2> SUFFICES ASSUME IInv, [Next]_vars PROVE IInv'
    OBVIOUS
  <2>1. CASE UNCHANGED vars
    BY <2>1 DEF vars, IInv, CallsOK
  <2>2. ASSUME NEW c \in Callers, NEW r \in Requests, ReadStep(c, r) PROVE IInv'
    BY <2>2, ReadStepsOK
  <2>3. ASSUME NEW c \in Callers, OtherStep(c) PROVE IInv'
    BY <2>3, OtherStepsOK
  <2>4. ASSUME NEW i \in Instances, Crash(i) PROVE IInv'
    BY <2>4, CrashOK
  <2> QED
    BY <2>1, <2>2, <2>3, <2>4 DEF Next
<1> QED
  BY InitOK, <1>1, PTL DEF Spec

(***************************************************************************)
(* The state always has its type: in particular a caller never writes a    *)
(* record under a key with host bits, and every step finds the record, the *)
(* child and the address that an earlier step of its call left for it.     *)
(***************************************************************************)
THEOREM TypeCorrect == Spec => []TypeOK
<1>1. GoodRecord \subseteq PrefixRecord
  BY DEF GoodRecord
<1>2. GoodCalls \subseteq Calls
  BY <1>1 DEF GoodCalls, Calls
<1>3. GoodHandle \subseteq Handle
  BY DEF GoodHandle
<1>4. IInv => TypeOK
  BY <1>1, <1>2, <1>3 DEF IInv, CallsOK, TypeOK
<1> QED
  BY Invariance, <1>4, PTL

(***************************************************************************)
(* The children a parent has marked lie inside it and apart from each      *)
(* other, whatever calls run at the same time, deletes, stale copies and   *)
(* crashes included: acquireChildPrefixInternal looks for the free space   *)
(* and marks the child in the same copy of the record, and any record that *)
(* is ever written descends from such copies.                              *)
(***************************************************************************)
THEOREM ChildrenDoNotOverlap == Spec => []TakenDisjoint
<1>1. IInv => TakenDisjoint
  BY DEF IInv, TakenDisjoint, Stored, ReadAllPrefixCidrs, GoodRecord, ChildrenApart
<1> QED
  BY Invariance, <1>1, PTL

(***************************************************************************)
(* Unless somebody releases an address by its text, the network address of *)
(* a prefix and the broadcast address of an IPv4 prefix are never given    *)
(* out, deletes, stale copies and crashes included: newPrefix puts them    *)
(* into ips, and a release only takes out what AcquireIP put in.           *)
(***************************************************************************)
THEOREM BlockedStayBlocked == NoReleaseByText /\ Spec => []BlockedNotHeld
<1>1. NoReleaseByText /\ IInv => BlockedNotHeld
  BY DEF IInv, GoodHandle, BlockedNotHeld
<1> QED
  <2>1. CASE NoReleaseByText
    BY <2>1, Invariance, <1>1, PTL
  <2>2. CASE ~ NoReleaseByText
    BY <2>2
  <2> QED
    BY <2>1, <2>2

=============================================================================
