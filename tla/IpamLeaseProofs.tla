-------------------------- MODULE IpamLeaseProofs --------------------------
(***************************************************************************)
(* Child prefixes that come and go: theorems about Ipam for callers that   *)
(* acquire and release children of prefixes which are themselves no        *)
(* children, on any number of instances, with crashes.                     *)
(***************************************************************************)
EXTENDS IpamLockProofs

(***************************************************************************)
(* The habits of the callers, and of the storage.  Prefixes are created,   *)
(* and children acquired and released, but no address is acquired and no   *)
(* prefix deleted by its cidr; a prefix children are acquired from does    *)
(* not lie in another such prefix; and creating a record that exists is    *)
(* an error.                                                               *)
(***************************************************************************)
Parents == { Masked(r.cidr) : r \in { s \in Requests : s.op = "AcquireChildPrefix" } }

FlatChildren ==
    /\ CreateExisting = "error"
    /\ \A r \in Requests : r.op \in ReleaseOps \cup {"NewPrefix", "AcquireChildPrefix"}
    /\ \A k, l \in Parents : Overlaps(k, l) => k = l

(***************************************************************************)
(* The inductive invariant, next to IInv.  Who has a child prefix, or has  *)
(* marked it and is about to create it, has a claim; claims in one parent  *)
(* do not overlap.  The record of a leased child is the lease itself and   *)
(* is marked in its parent.  Whoever gave a lease back and is about to     *)
(* delete the record is the only one who knows it.  The copy of a parent   *)
(* that a call will write is out of date or differs from the stored record *)
(* in the one child the call is for.                                       *)
(***************************************************************************)
IsChild(a) == a.ParentCidr \in Parents /\ a.Cidr \in Cidr \ Parents /\ ~ hasIPs(a)

MarkedIn(p, a) == \E t \in p.taken : Masked(t) = a.Cidr

Marked(a) == store[a.ParentCidr] # Absent /\ MarkedIn(store[a.ParentCidr], a)

Claims(c) ==
    leases[c] \cup IF call[c].pc = "AcquireChildCreate" THEN {call[c].child} ELSE {}

ClaimsApart ==
    \A c, d \in Callers : \A a \in Claims(c), b \in Claims(d) :
        (a.ParentCidr = b.ParentCidr /\ Overlaps(a.Cidr, b.Cidr)) => c = d /\ a = b

ClaimsMarked == \A c \in Callers : \A a \in Claims(c) : IsChild(a) /\ Marked(a)

LeasesStored == \A c \in Callers : \A a \in leases[c] : store[a.Cidr] = a

NothingHasIPs ==
    /\ \A k \in Cidr : store[k] # Absent => ~ hasIPs(store[k])
    /\ \A c \in Callers : call[c].pc = "NewPrefixCreate" => ~ hasIPs(call[c].cur)

Intends(k, q) ==
    \/ /\ k.pc = "AcquireChildUpdate"
       /\ \E cp \in RawPrefix : /\ ContainsPrefix(FreeSpace(q), cp)
                                /\ k.cur = WithChild(q, cp)
                                /\ k.child.Cidr = Masked(cp)
    \/ k.pc = "ReleaseChildUpdate" /\ k.cur = WithoutChild(q, k.child.Cidr)

ParentCopy(k) ==
    k.pc \in Updating =>
        LET q == store[k.cur.Cidr]
        IN  /\ k.pc \in {"AcquireChildUpdate", "ReleaseChildUpdate"}
            /\ IsChild(k.child) /\ k.child.ParentCidr = k.cur.Cidr
            /\ q # Absent
            /\ k.cur.version <= q.version
            /\ k.cur.version = q.version => Intends(k, q)

Releasing(k) ==
    k.pc \in {"ReleaseChildRead", "ReleaseChildUpdate"}
        \/ (k.pc = "retry" /\ k.req.op \in ReleaseOps)

Deleting(k) == k.pc \in {"DeletePrefixRead", "DeletePrefixStore"}

OneDeleter ==
    \A c \in Callers : Deleting(call[c]) =>
        LET child == call[c].child
        IN  /\ child # None /\ IsChild(child) /\ store[child.Cidr] = child
            /\ Masked(call[c].req.cidr) = child.Cidr
            /\ call[c].pc = "DeletePrefixStore" => call[c].cur.Cidr = child.Cidr
            /\ \A d \in Callers : \A b \in leases[d] : b.Cidr # child.Cidr
            /\ \A d \in Callers \ {c} : Deleting(call[d]) => call[d].child.Cidr # child.Cidr

LeaseCall(c) ==
    /\ call[c].pc # "idle" => call[c].req \in Requests
    /\ call[c].pc = "AcquireChildUpdate" => call[c].req.op = "AcquireChildPrefix"
    /\ ParentCopy(call[c])
    /\ Releasing(call[c]) => /\ call[c].child \in leases[c]
                             /\ Masked(call[c].req.cidr) = call[c].child.Cidr

LeaseInv ==
    /\ NothingHasIPs
    /\ ClaimsMarked
    /\ ClaimsApart
    /\ LeasesStored
    /\ OneDeleter
    /\ \A c \in Callers : LeaseCall(c)

-----------------------------------------------------------------------------
\* With nothing stored and nobody in a call the invariant is true.
LEMMA LeaseInit == Init => LeaseInv
  BY DEF Init, LeaseInv, NothingHasIPs, ClaimsMarked, ClaimsApart, Claims, LeasesStored,
         OneDeleter, Deleting, LeaseCall, ParentCopy, Releasing, Updating, Idle

(***************************************************************************)
(* What newPrefix makes.                                                   *)
(***************************************************************************)
\* A new prefix has no addresses but the blocked ones.
LEMMA NewHasNoIPs ==
    ASSUME NEW cidr \in RawPrefix, NEW parentCidr
    PROVE  ~ hasIPs(newPrefix(cidr, parentCidr))
<1> DEFINE p == newPrefix(cidr, parentCidr)
           B == {From(cidr)}
<1>1. p.ips = Blocked(cidr) /\ p.Cidr = Masked(cidr)
  BY DEF newPrefix
<1>2. Is4(p.Cidr) <=> Is4(cidr)
  BY <1>1, MaskedParts DEF Is4
<1>3. IsFiniteSet(B) /\ Cardinality(B) = 1
  BY FS_Singleton
<1> HIDE DEF p
<1>4. CASE Is4(cidr)
  <2>1. Blocked(cidr) = B \cup {To(cidr)}
    BY <1>4 DEF Blocked
  <2>2. Cardinality(B \cup {To(cidr)}) \in {1, 2}
    BY <1>3, FS_AddElement
  <2>3. Cardinality(p.ips) \in {1, 2}
    BY <1>1, <2>1, <2>2
  <2> QED
    BY <1>2, <1>4, <2>3 DEF hasIPs, p
<1>5. CASE ~ Is4(cidr)
  <2>1. Blocked(cidr) = B
    BY <1>5 DEF Blocked
  <2>2. Cardinality(p.ips) = 1
    BY <1>1, <1>3, <2>1
  <2> QED
    BY <1>2, <1>5, <2>2 DEF hasIPs, p
<1> QED
  BY <1>4, <1>5

\* A child cut from the free space of a parent is no parent itself.
LEMMA NewIsChild ==
    ASSUME FlatChildren, NEW p \in GoodRecord, p.Cidr \in Parents,
           NEW cidr \in RawPrefix, Masked(cidr) = p.Cidr,
           NEW cp \in RawPrefix, ContainsPrefix(FreeSpace(p), cp), cp.bits > p.Cidr.bits
    PROVE  /\ IsChild(newPrefix(cp, cidr))
           /\ newPrefix(cp, cidr).ParentCidr = p.Cidr
           /\ newPrefix(cp, cidr).Cidr = Masked(cp)
<1> DEFINE a == newPrefix(cp, cidr)
<1>1. a.Cidr = Masked(cp) /\ a.ParentCidr = p.Cidr
  BY NoneAssumption DEF newPrefix
<1>2. ~ hasIPs(a)
  BY NewHasNoIPs
<1>3. Masked(cp) \in Cidr /\ Masked(cp).bits = cp.bits
      /\ RangeOfPrefix(Masked(cp)) = RangeOfPrefix(cp)
  BY MaskedIsCidr, MaskedParts, MaskedRange
<1>4. Overlaps(Masked(cp), p.Cidr)
  <2>1. RangeOfPrefix(cp) \subseteq RangeOfPrefix(p.Cidr)
    BY DEF ContainsPrefix, FreeSpace, IPSet
  <2>2. From(cp) \in RangeOfPrefix(cp)
    BY EndsInRange
  <2> QED
    BY <1>3, <2>1, <2>2 DEF Overlaps
<1>5. p.Cidr.bits \in Int /\ cp.bits \in Int
  BY CidrIsRaw, RawParts DEF GoodRecord, PrefixRecord
<1>6. Masked(cp) \notin Parents
  BY <1>3, <1>4, <1>5 DEF FlatChildren
<1> HIDE DEF a
<1> QED
  BY <1>1, <1>2, <1>3, <1>6 DEF IsChild, a

\* The parents are keys of the storage.
LEMMA ParentsAreKeys == Parents \subseteq Cidr
<1>1. \A r \in Requests : r.cidr \in RawPrefix
  BY IpamAssumption DEF Request
<1> QED
  BY <1>1, MaskedIsCidr DEF Parents

\* Overlapping is symmetric, and a key overlaps itself.
LEMMA OverlapFacts ==
    /\ \A k, l : Overlaps(k, l) => Overlaps(l, k)
    /\ \A k \in Cidr : Overlaps(k, k)
<1>1. \A k \in Cidr : From(k) \in RangeOfPrefix(k)
  BY CidrIsRaw, EndsInRange
<1> QED
  BY <1>1 DEF Overlaps

-----------------------------------------------------------------------------
(***************************************************************************)
(* Steps that leave the storage and the leases alone: a call that changes  *)
(* begins neither to create nor to delete.                                 *)
(***************************************************************************)
QuietNow(d) ==
    /\ LeaseCall(d)'
    /\ call'[d].pc # "AcquireChildCreate"
    /\ call'[d].pc = "NewPrefixCreate" => ~ hasIPs(call'[d].cur)
    /\ Deleting(call'[d]) =>
           /\ Deleting(call[d])
           /\ call'[d].child = call[d].child /\ call'[d].req = call[d].req
           /\ call'[d].pc = "DeletePrefixStore" => call'[d].cur.Cidr = call[d].child.Cidr

\* Such steps keep the invariant.
LEMMA QuietStep ==
    ASSUME LeaseInv, UNCHANGED <<store, leases>>,
           \A d \in Callers : call'[d] = call[d] \/ QuietNow(d)
    PROVE  LeaseInv'
<1>1. \A d \in Callers : Claims(d)' \subseteq Claims(d)
  BY DEF Claims, QuietNow
<1>2. NothingHasIPs'
  BY DEF LeaseInv, NothingHasIPs, QuietNow
<1>3. ClaimsMarked'
  BY <1>1 DEF LeaseInv, ClaimsMarked, Marked
<1>4. ClaimsApart'
  BY <1>1 DEF LeaseInv, ClaimsApart
<1>5. LeasesStored'
  BY DEF LeaseInv, LeasesStored
<1>6. OneDeleter'
  <2>1. \A d \in Callers : Deleting(call'[d]) =>
            /\ Deleting(call[d])
            /\ call'[d].child = call[d].child /\ call'[d].req = call[d].req
            /\ call'[d].pc = "DeletePrefixStore" => call'[d].cur.Cidr = call[d].child.Cidr
    BY DEF QuietNow, LeaseInv, OneDeleter
  <2> QED
    BY <2>1 DEF LeaseInv, OneDeleter
<1>7. ASSUME NEW d \in Callers, call'[d] = call[d] PROVE LeaseCall(d)'
  BY <1>7 DEF LeaseInv, LeaseCall, ParentCopy, Intends
<1>8. \A d \in Callers : LeaseCall(d)'
  BY <1>7 DEF QuietNow
<1> QED
  BY <1>2, <1>3, <1>4, <1>5, <1>6, <1>8 DEF LeaseInv

\* A call that ends, or is at a step that owes nothing, is quiet.
LEMMA QuietCalls ==
    ASSUME NEW d \in Callers,
           call'[d] = Idle \/ (/\ call'[d].pc \in {"retry", "NewPrefixLock", "NewPrefixCreate"}
                               /\ call'[d].req \in Requests /\ call'[d].req.op \notin ReleaseOps
                               /\ call'[d].pc = "NewPrefixCreate" => ~ hasIPs(call'[d].cur))
    PROVE  QuietNow(d)
  BY DEF QuietNow, LeaseCall, ParentCopy, Releasing, Deleting, Idle, Updating

\* A return is quiet.
LEMMA ReturnIsQuiet ==
    ASSUME IInv, LeaseInv, NEW c \in Callers, Return(c), UNCHANGED <<store, leases>>
    PROVE  LeaseInv'
<1>1. call'[c] = Idle /\ \A d \in Callers \ {c} : call'[d] = call[d]
  BY ReturnChanges
<1> QED
  BY <1>1, QuietCalls, QuietStep

-----------------------------------------------------------------------------
\* The steps that read keep the invariant.
LEMMA LeaseReadSteps ==
    ASSUME FlatChildren, IInv, LeaseInv, NEW c \in Callers, NEW r \in Requests, ReadStep(c, r)
    PROVE  LeaseInv'
<1>1. r.op \in ReleaseOps \cup {"NewPrefix", "AcquireChildPrefix"}
  BY DEF FlatChildren
<1>2. r \in Request /\ r.cidr \in RawPrefix
  BY IpamAssumption DEF Request
<1> DEFINE p == PrefixFrom(r.cidr)
<1>3. CASE NewPrefixCall(c, r)
  <2>1. Proceed(c, "NewPrefixLock", r, None, None, None) /\ r.op = "NewPrefix"
    BY <1>3 DEF NewPrefixCall
  <2>2. call'[c].pc = "NewPrefixLock" /\ call'[c].req = r
        /\ \A d \in Callers \ {c} : call'[d] = call[d]
    BY <2>1, ProceedChanges
  <2>3. QuietNow(c)
    BY <2>1, <2>2, QuietCalls DEF ReleaseOps
  <2> QED
    BY <1>3, <2>2, <2>3, QuietStep DEF NewPrefixCall
<1>4. CASE DeletePrefixRead(c, r)
  <2>1. call[c].pc = "DeletePrefixRead" /\ r = call[c].req
    BY <1>1, <1>4 DEF DeletePrefixRead, DeletePrefixEntering, ReleaseOps
  <2> DEFINE child == call[c].child
  <2>2. child # None /\ IsChild(child) /\ store[child.Cidr] = child /\ Masked(r.cidr) = child.Cidr
    BY <2>1 DEF LeaseInv, OneDeleter, Deleting
  <2>3. child \in GoodRecord
    BY <2>2, CallOK DEF GoodCalls
  <2>4. p = child /\ p # Absent /\ ~ hasIPs(p)
    BY <2>2, <2>3, NoneIsNoRecord DEF PrefixFrom, IsChild
  <2>5. Proceed(c, "DeletePrefixStore", r, p, child, None) /\ UNCHANGED <<store, leases>>
    BY <1>4, <2>4 DEF DeletePrefixRead
  <2>6. /\ call'[c].pc = "DeletePrefixStore" /\ call'[c].req = r
        /\ call'[c].cur = p /\ call'[c].child = child
        /\ \A d \in Callers \ {c} : call'[d] = call[d]
    BY <2>5, ProceedChanges
  <2>7. QuietNow(c)
    BY <2>1, <2>4, <2>6 DEF QuietNow, LeaseCall, ParentCopy, Releasing, Deleting, Updating
  <2> QED
    BY <2>5, <2>6, <2>7, QuietStep
<1>5. CASE AcquireChildRead(c, r)
  <2> DEFINE children == IF p = Absent THEN {} ELSE AvailableChild(p, r.child, r.length)
  <2>1. UNCHANGED <<store, leases>> /\ r.op = "AcquireChildPrefix"
    BY <1>5 DEF AcquireChildRead
  <2>2. CASE children = {}
    <3>1. Return(c)
      BY <1>5, <2>2 DEF AcquireChildRead
    <3> QED
      BY <2>1, <3>1, ReturnIsQuiet
  <2>3. CASE children # {}
    <3>1. PICK cp \in children :
            Proceed(c, "AcquireChildUpdate", r, WithChild(p, cp), newPrefix(cp, r.cidr), None)
      BY <1>5, <2>3 DEF AcquireChildRead
    <3>2. p # Absent /\ cp \in AvailableChild(p, r.child, r.length)
      BY <3>1
    <3>3. p \in GoodRecord /\ p.Cidr = Masked(r.cidr) /\ p \in PrefixRecord
      BY <1>2, <3>2, PrefixFromOK DEF GoodRecord
    <3>4. cp \in RawPrefix /\ ContainsPrefix(FreeSpace(p), cp) /\ cp.bits > p.Cidr.bits
      BY <1>2, <3>2, <3>3, AvailableChildOK
    <3>5. p.Cidr \in Parents
      BY <2>1, <3>3 DEF Parents
    <3> DEFINE a == newPrefix(cp, r.cidr)
    <3>6. IsChild(a) /\ a.ParentCidr = p.Cidr /\ a.Cidr = Masked(cp)
      BY <1>2, <3>3, <3>4, <3>5, NewIsChild
    <3>7. /\ call'[c].pc = "AcquireChildUpdate" /\ call'[c].req = r
          /\ call'[c].cur = WithChild(p, cp) /\ call'[c].child = a
          /\ \A d \in Callers \ {c} : call'[d] = call[d]
      BY <3>1, ProceedChanges
    <3> HIDE DEF a
    <3>8. WithChild(p, cp).Cidr = p.Cidr /\ WithChild(p, cp).version = p.version
          /\ p.version \in Nat
      BY <3>3 DEF WithChild, PrefixRecord
    <3>9. store'[p.Cidr] = p
      BY <2>1, <3>3 DEF PrefixFrom
    <3>10. Intends(call'[c], p)
      BY <3>4, <3>6, <3>7 DEF Intends
    <3>11. ParentCopy(call[c])'
      BY <3>2, <3>6, <3>7, <3>8, <3>9, <3>10 DEF ParentCopy, Intends
    <3>12. QuietNow(c)
      BY <2>1, <3>7, <3>11 DEF QuietNow, LeaseCall, Releasing, Deleting
    <3> QED
      BY <2>1, <3>7, <3>12, QuietStep
  <2> QED
    BY <2>2, <2>3
<1>6. CASE ReleaseChildCall(c, r)
  <2>1. PICK child \in ChildArgument(c, r) :
            call' = [call EXCEPT ![c].pc = "ReleaseChildRead", ![c].req = r, ![c].child = child]
    BY <1>6 DEF ReleaseChildCall
  <2>2. PICK h \in leases[c] : h.Cidr = Masked(r.cidr)
    BY <1>6 DEF ReleaseChildCall
  <2>3. r.op \in ReleaseOps
    BY <2>1 DEF ChildArgument, ReleaseOps
  <2>4. child \in leases[c] /\ Masked(r.cidr) = child.Cidr
    <3>1. CASE r.op = "ReleaseChildPrefix"
      <4>1. child \in leases[c] /\ child.Cidr = r.cidr
        BY <2>1, <3>1 DEF ChildArgument
      <4>2. child.Cidr \in Cidr
        BY <4>1 DEF IInv, GoodRecord, PrefixRecord
      <4> QED
        BY <4>1, <4>2, MaskedOfCidr
    <3>2. CASE r.op = "ServiceReleaseChildPrefix"
      <4>1. child = PrefixFrom(r.cidr)
        BY <2>1, <3>2 DEF ChildArgument
      <4>2. store[h.Cidr] = h
        BY DEF LeaseInv, LeasesStored
      <4> QED
        BY <2>2, <4>1, <4>2 DEF PrefixFrom
    <3> QED
      BY <2>3, <3>1, <3>2 DEF ReleaseOps
  <2>5. /\ call'[c].pc = "ReleaseChildRead" /\ call'[c].req = r /\ call'[c].child = child
        /\ \A d \in Callers \ {c} : call'[d] = call[d]
    BY <2>1 DEF IInv, CallsOK, GoodCalls
  <2>6. UNCHANGED <<store, leases>>
    BY <1>6 DEF ReleaseChildCall
  <2>7. QuietNow(c)
    BY <2>4, <2>5, <2>6 DEF QuietNow, LeaseCall, ParentCopy, Deleting, Updating
  <2> QED
    BY <2>5, <2>6, <2>7, QuietStep
<1>7. CASE AcquireIPRead(c, r) \/ ReleaseIPRead(c, r)
  BY <1>1, <1>7 DEF AcquireIPRead, ReleaseIPRead, ReleaseOps
<1> QED
  BY <1>3, <1>4, <1>5, <1>6, <1>7 DEF ReadStep

-----------------------------------------------------------------------------
(***************************************************************************)
(* A step of c that commits a change of a parent.                          *)
(***************************************************************************)
LEMMA ParentCommit ==
    ASSUME IInv, LeaseInv, NEW c \in Callers, call[c].pc \in Updating,
           UpdateOutcome(call[c].cur) = "ok", UpdatePrefix(call[c].cur),
           \A d \in Callers \ {c} : call'[d] = call[d] /\ leases'[d] = leases[d]
    PROVE  LET k == call[c]
               q == store[k.cur.Cidr]
               n == [k.cur EXCEPT !.version = @ + 1]
           IN  /\ k.child.ParentCidr = k.cur.Cidr /\ IsChild(k.child)
               /\ k.cur.Cidr \in Parents /\ k.cur.Cidr \in Cidr
               /\ q \in GoodRecord /\ q # Absent /\ q.Cidr = k.cur.Cidr
               /\ Intends(k, q)
               /\ n \in GoodRecord /\ n # Absent /\ n.taken = k.cur.taken /\ n.ips = q.ips
               /\ \A x \in Cidr : store'[x] = IF x = k.cur.Cidr THEN n ELSE store[x]
               /\ \A d \in Callers \ {c} : LeaseCall(d)'
<1> DEFINE k == call[c]
           p == k.cur
           q == store[p.Cidr]
           n == [p EXCEPT !.version = @ + 1]
<1>1. p \in GoodRecord /\ p \in PrefixRecord /\ p.Cidr \in Cidr /\ p.version \in Nat
  BY CallOK DEF GoodRecord, PrefixRecord
<1>2. q # Absent /\ q.version = p.version
  BY IpamAssumption DEF UpdateOutcome
<1>3. q \in GoodRecord /\ q.Cidr = p.Cidr /\ q \in PrefixRecord
  BY <1>1, <1>2 DEF IInv, OwnKeys, GoodRecord
<1>4. /\ Intends(k, q) /\ IsChild(k.child) /\ k.child.ParentCidr = p.Cidr
  BY <1>2 DEF LeaseInv, LeaseCall, ParentCopy
<1>5. p.Cidr \in Parents
  BY <1>4 DEF IsChild
<1>6. n \in GoodRecord /\ n # Absent
  BY <1>1, NextVersionIsGood, NoneIsNoRecord
<1>7. n.taken = p.taken /\ n.ips = p.ips /\ n.version = p.version + 1 /\ n.Cidr = p.Cidr
  BY <1>1 DEF PrefixRecord
<1>8. p.ips = q.ips
  BY <1>3, <1>4 DEF Intends, WithChild, WithoutChild, PrefixRecord
<1> HIDE DEF n
<1>9. \A x \in Cidr : store'[x] = IF x = p.Cidr THEN n ELSE store[x]
  BY DEF UpdatePrefix, IInv, n
<1>10. ASSUME NEW d \in Callers \ {c} PROVE LeaseCall(d)'
  <2>1. call'[d] = call[d] /\ leases'[d] = leases[d] /\ LeaseCall(d)
    BY DEF LeaseInv
  <2>2. ParentCopy(call[d])'
    <3> SUFFICES ASSUME call[d].pc \in Updating PROVE ParentCopy(call[d])'
      BY <2>1 DEF ParentCopy
    <3>1. call[d].cur \in GoodRecord /\ call[d].cur.Cidr \in Cidr /\ call[d].cur.version \in Nat
      BY CallOK DEF GoodRecord, PrefixRecord
    <3>2. CASE call[d].cur.Cidr # p.Cidr
      <4>1. store'[call[d].cur.Cidr] = store[call[d].cur.Cidr]
        BY <1>9, <3>1, <3>2
      <4> QED
        BY <2>1, <4>1 DEF LeaseCall, ParentCopy, Intends
    <3>3. CASE call[d].cur.Cidr = p.Cidr
      <4>1. store'[p.Cidr].version = p.version + 1 /\ store'[p.Cidr] # Absent
        BY <1>1, <1>6, <1>7, <1>9
      <4>2. call[d].cur.version <= p.version
        BY <1>2, <2>1, <3>3 DEF LeaseCall, ParentCopy
      <4>3. call[d].cur.version <= p.version + 1 /\ call[d].cur.version # p.version + 1
        BY <1>1, <3>1, <4>2
      <4> QED
        BY <2>1, <3>3, <4>1, <4>3 DEF LeaseCall, ParentCopy
    <3> QED
      BY <3>2, <3>3
  <2> QED
    BY <2>1, <2>2 DEF LeaseCall
<1> QED
  BY <1>1, <1>2, <1>3, <1>4, <1>5, <1>6, <1>7, <1>8, <1>9, <1>10 DEF n

(***************************************************************************)
(* A step of c that creates a record where there was none: nobody has a    *)
(* lease of it or is about to delete it, for then it would be stored.      *)
(***************************************************************************)
LEMMA CreateKeeps ==
    ASSUME IInv, LeaseInv, NEW c \in Callers, NEW p \in GoodRecord, ~ hasIPs(p),
           store[p.Cidr] = Absent, CreatePrefix(p), call'[c] = Idle,
           \A d \in Callers \ {c} : call'[d] = call[d] /\ leases'[d] = leases[d]
    PROVE  /\ NothingHasIPs'
           /\ OneDeleter' \/ leases'[c] # leases[c]
           /\ \A x \in Cidr : store[x] # Absent => store'[x] = store[x]
           /\ store'[p.Cidr] = p /\ p # Absent /\ p.Cidr \in Cidr
           /\ \A d \in Callers : LeaseCall(d)'
           /\ \A a : IsChild(a) /\ Marked(a) => Marked(a)'
<1>1. p.Cidr \in Cidr /\ p # Absent
  BY NoneIsNoRecord DEF GoodRecord, PrefixRecord
<1>2. \A x \in Cidr : store'[x] = IF x = p.Cidr THEN p ELSE store[x]
  BY <1>1 DEF CreatePrefix, IInv
<1>3. NothingHasIPs'
  BY <1>2 DEF LeaseInv, NothingHasIPs, Idle
<1>4. ASSUME leases'[c] = leases[c] PROVE OneDeleter'
  <2>1. \A d \in Callers : Deleting(call'[d]) => d # c /\ call'[d] = call[d]
    BY DEF Deleting, Idle
  <2>2. \A d \in Callers : leases'[d] = leases[d]
    BY <1>4
  <2>3. ASSUME NEW d \in Callers, Deleting(call[d])
        PROVE  store'[call[d].child.Cidr] = call[d].child
    <3>1. store[call[d].child.Cidr] = call[d].child /\ call[d].child # None
          /\ call[d].child.Cidr \in Cidr
      BY <2>3 DEF LeaseInv, OneDeleter, IsChild
    <3>2. call[d].child # Absent
      BY <3>1, CallOK, NoneIsNoRecord DEF GoodCalls
    <3> QED
      BY <1>2, <3>1, <3>2
  <2> QED
    BY <2>1, <2>2, <2>3 DEF LeaseInv, OneDeleter
<1>5. \A x \in Cidr : store[x] # Absent => store'[x] = store[x]
  BY <1>2
<1>6. ASSUME NEW d \in Callers PROVE LeaseCall(d)'
  <2>1. CASE d = c
    BY <2>1 DEF LeaseCall, ParentCopy, Releasing, Idle, Updating
  <2>2. CASE d # c
    <3>1. call'[d] = call[d] /\ leases'[d] = leases[d] /\ LeaseCall(d)
      BY <2>2 DEF LeaseInv
    <3>2. call[d].pc \in Updating => call[d].cur.Cidr \in Cidr
      BY CallOK DEF GoodRecord, PrefixRecord
    <3>3. ParentCopy(call[d])'
      BY <1>5, <3>1, <3>2 DEF LeaseCall, ParentCopy, Intends
    <3> QED
      BY <3>1, <3>3 DEF LeaseCall
  <2> QED
    BY <2>1, <2>2
<1>7. \A a : IsChild(a) /\ Marked(a) => Marked(a)'
  BY <1>5, ParentsAreKeys DEF IsChild, Marked
<1> QED
  BY <1>1, <1>2, <1>3, <1>4, <1>5, <1>6, <1>7

\* A claim that is marked in a parent lies apart from its free space.
LEMMA FreeOfClaims ==
    ASSUME NEW q \in GoodRecord, NEW a, MarkedIn(q, a), a.Cidr \in Cidr,
           NEW cp \in RawPrefix, ContainsPrefix(FreeSpace(q), cp)
    PROVE  ~ Overlaps(a.Cidr, Masked(cp))
<1>1. PICK t \in q.taken : Masked(t) = a.Cidr
  BY DEF MarkedIn
<1>2. t \in RawPrefix
  BY DEF GoodRecord, PrefixRecord
<1>3. RangeOfPrefix(a.Cidr) = RangeOfPrefix(t) /\ RangeOfPrefix(Masked(cp)) = RangeOfPrefix(cp)
  BY <1>1, <1>2, MaskedRange
<1> QED
  BY <1>3 DEF ContainsPrefix, FreeSpace, IPSet, Overlaps

-----------------------------------------------------------------------------
\* Marking a child: its caller has the only claim on these addresses.
LEMMA LeaseMark ==
    ASSUME IInv, LeaseInv, NEW c \in Callers, AcquireChildUpdate(c)
    PROVE  LeaseInv'
<1> DEFINE k == call[c]
           P == k.cur.Cidr
           q == store[P]
           n == [k.cur EXCEPT !.version = @ + 1]
<1>0. PICK a : a = k.child
  OBVIOUS
<1>1. k.pc = "AcquireChildUpdate" /\ UpdateOutcome(k.cur) = "ok" /\ UpdatePrefix(k.cur)
      /\ leases' = leases /\ GoTo(c, "AcquireChildCreate")
  BY DEF AcquireChildUpdate
<1>2. call'[c].pc = "AcquireChildCreate" /\ call'[c].req = k.req /\ call'[c].child = a
      /\ \A d \in Callers \ {c} : call'[d] = call[d]
  BY <1>0, <1>1 DEF GoTo, IInv, CallsOK, GoodCalls
<1>3. /\ a.ParentCidr = P /\ IsChild(a) /\ P \in Parents /\ P \in Cidr
      /\ q \in GoodRecord /\ q # Absent
      /\ Intends(k, q)
      /\ n # Absent /\ n.taken = k.cur.taken /\ n.ips = q.ips /\ n \in GoodRecord
      /\ q.Cidr = P
      /\ \A x \in Cidr : store'[x] = IF x = P THEN n ELSE store[x]
      /\ \A d \in Callers \ {c} : LeaseCall(d)'
  BY <1>0, <1>1, <1>2, ParentCommit DEF Updating
<1>4. PICK cp \in RawPrefix : /\ ContainsPrefix(FreeSpace(q), cp)
                              /\ k.cur = WithChild(q, cp) /\ a.Cidr = Masked(cp)
  BY <1>0, <1>1, <1>3 DEF Intends
<1>5. n.taken = q.taken \cup {cp}
  BY <1>3, <1>4 DEF WithChild, GoodRecord, PrefixRecord
<1>6. n.Cidr = q.Cidr
  <2>1. k.cur \in GoodRecord
    BY <1>1, CallOK DEF Updating
  <2> QED
    BY <1>3, <2>1 DEF GoodRecord, PrefixRecord
<1> HIDE DEF n, P, q
<1>7. \A x : (IsChild(x) /\ Marked(x)) => Marked(x)'
  <2> SUFFICES ASSUME NEW x, IsChild(x), Marked(x) PROVE Marked(x)'
    OBVIOUS
  <2>1. x.ParentCidr \in Cidr
    BY ParentsAreKeys DEF IsChild
  <2>2. CASE x.ParentCidr = P
    BY <1>3, <1>5, <2>1, <2>2 DEF Marked, MarkedIn, q
  <2>3. CASE x.ParentCidr # P
    BY <1>3, <2>1, <2>3 DEF Marked
  <2> QED
    BY <2>2, <2>3
<1>8. Marked(a)'
  <2>1. store'[P] = n
    BY <1>3
  <2> QED
    BY <1>3, <1>4, <1>5, <2>1 DEF Marked, MarkedIn
<1>9. \A d \in Callers : Claims(d)' \subseteq Claims(d) \cup (IF d = c THEN {a} ELSE {})
  BY <1>1, <1>2 DEF Claims
<1>10. ClaimsMarked'
  BY <1>3, <1>7, <1>8, <1>9 DEF LeaseInv, ClaimsMarked
<1>11. ASSUME NEW d \in Callers, NEW b \in Claims(d), b.ParentCidr = P
       PROVE  ~ Overlaps(b.Cidr, a.Cidr) /\ ~ Overlaps(a.Cidr, b.Cidr)
  <2>1. IsChild(b) /\ Marked(b)
    BY DEF LeaseInv, ClaimsMarked
  <2>2. MarkedIn(q, b) /\ b.Cidr \in Cidr
    BY <1>11, <2>1 DEF Marked, q, IsChild
  <2> QED
    BY <1>3, <1>4, <2>2, FreeOfClaims, OverlapFacts
<1>12. ClaimsApart'
  <2> SUFFICES ASSUME NEW d \in Callers, NEW e \in Callers,
                      NEW x \in Claims(d)', NEW y \in Claims(e)',
                      x.ParentCidr = y.ParentCidr, Overlaps(x.Cidr, y.Cidr)
               PROVE  d = e /\ x = y
    BY DEF ClaimsApart
  <2>1. (x \in Claims(d) \/ (d = c /\ x = a)) /\ (y \in Claims(e) \/ (e = c /\ y = a))
    BY <1>9
  <2>2. CASE x \in Claims(d) /\ y \in Claims(e)
    BY <2>2 DEF LeaseInv, ClaimsApart
  <2>3. CASE x \in Claims(d) /\ e = c /\ y = a
    BY <1>3, <1>11, <2>3
  <2>4. CASE d = c /\ x = a /\ y \in Claims(e)
    BY <1>3, <1>11, <2>4
  <2> QED
    BY <2>1, <2>2, <2>3, <2>4
<1>13. LeasesStored'
  <2>1. \A d \in Callers : \A b \in leases[d] : b.Cidr \in Cidr /\ b.Cidr # P
    BY <1>3 DEF LeaseInv, ClaimsMarked, Claims, IsChild
  <2> QED
    BY <1>1, <1>3, <2>1 DEF LeaseInv, LeasesStored
<1>14. NothingHasIPs'
  <2>1. ~ hasIPs(n)
    <3>1. ~ hasIPs(q)
      BY <1>3 DEF LeaseInv, NothingHasIPs, q
    <3> QED
      BY <1>3, <1>6, <3>1 DEF hasIPs
  <2>2. \A x \in Cidr : store'[x] # Absent => ~ hasIPs(store'[x])
    BY <1>3, <2>1 DEF LeaseInv, NothingHasIPs
  <2>3. \A d \in Callers : call'[d].pc = "NewPrefixCreate" => ~ hasIPs(call'[d].cur)
    BY <1>2 DEF LeaseInv, NothingHasIPs
  <2> QED
    BY <2>2, <2>3 DEF NothingHasIPs
<1>15. OneDeleter'
  <2>1. \A d \in Callers : Deleting(call'[d]) => d # c /\ call'[d] = call[d]
    BY <1>2 DEF Deleting
  <2>2. \A d \in Callers : Deleting(call[d]) => call[d].child.Cidr \in Cidr /\ call[d].child.Cidr # P
    BY <1>3 DEF LeaseInv, OneDeleter, IsChild
  <2> QED
    BY <1>1, <1>3, <2>1, <2>2 DEF LeaseInv, OneDeleter
<1>16. LeaseCall(c)'
  <2>1. k.req \in Requests
    BY <1>1 DEF LeaseInv, LeaseCall
  <2> QED
    BY <1>2, <2>1 DEF LeaseCall, ParentCopy, Releasing, Updating
<1> QED
  BY <1>3, <1>10, <1>12, <1>13, <1>14, <1>15, <1>16 DEF LeaseInv

\* Creating the child turns the claim into a lease, or gives it up.
LEMMA LeaseGrant ==
    ASSUME FlatChildren, IInv, LeaseInv, NEW c \in Callers, AcquireChildCreate(c)
    PROVE  LeaseInv'
<1> DEFINE a == call[c].child
<1>1. call[c].pc = "AcquireChildCreate" /\ CreatePrefix(a) /\ Return(c)
      /\ leases' = IF CreateOutcome(a) = "error" THEN leases
                   ELSE [leases EXCEPT ![c] = @ \cup {a}]
  BY DEF AcquireChildCreate
<1>2. a \in GoodRecord /\ IsChild(a) /\ Marked(a) /\ a \in Claims(c)
  <2>1. a \in GoodRecord
    BY <1>1, CallOK
  <2>2. a \in Claims(c)
    BY <1>1 DEF Claims
  <2> QED
    BY <2>1, <2>2 DEF LeaseInv, ClaimsMarked
<1>3. call'[c] = Idle /\ \A d \in Callers \ {c} : call'[d] = call[d]
  BY <1>1, ReturnChanges
<1>4. CASE store[a.Cidr] # Absent
  <2>1. CreateOutcome(a) = "error" /\ store' = store
    BY <1>1, <1>4 DEF CreateOutcome, CreatePrefix, FlatChildren
  <2> QED
    BY <1>1, <2>1, ReturnIsQuiet
<1>5. CASE store[a.Cidr] = Absent
  <2>1. leases' = [leases EXCEPT ![c] = @ \cup {a}]
    BY <1>1, <1>5 DEF CreateOutcome
  <2>2. leases'[c] = leases[c] \cup {a} /\ \A d \in Callers \ {c} : leases'[d] = leases[d]
    BY <2>1 DEF IInv
  <2>3. ~ hasIPs(a)
    BY <1>2 DEF IsChild
  <2>4. /\ NothingHasIPs'
        /\ \A x \in Cidr : store[x] # Absent => store'[x] = store[x]
        /\ store'[a.Cidr] = a /\ a # Absent /\ a.Cidr \in Cidr
        /\ \A d \in Callers : LeaseCall(d)'
        /\ \A x : IsChild(x) /\ Marked(x) => Marked(x)'
    BY <1>1, <1>2, <1>3, <1>5, <2>2, <2>3, CreateKeeps
  <2> HIDE DEF a
  <2>5. \A d \in Callers : Claims(d)' \subseteq Claims(d)
    BY <1>2, <1>3, <2>2 DEF Claims, Idle, a
  <2>6. ClaimsMarked'
    BY <2>4, <2>5 DEF LeaseInv, ClaimsMarked
  <2>7. ClaimsApart'
    BY <2>5 DEF LeaseInv, ClaimsApart
  <2>8. LeasesStored'
    <3>1. \A d \in Callers : \A b \in leases[d] :
              b.Cidr \in Cidr /\ store[b.Cidr] = b /\ b # Absent
      BY NoneIsNoRecord DEF LeaseInv, LeasesStored, IInv, GoodRecord, PrefixRecord
    <3> QED
      BY <2>2, <2>4, <3>1 DEF LeasesStored
  <2>9. OneDeleter'
    <3>1. \A d \in Callers : Deleting(call'[d]) => d # c /\ call'[d] = call[d]
      BY <1>3 DEF Deleting, Idle
    <3>2. ASSUME NEW d \in Callers, Deleting(call[d])
          PROVE  /\ store'[call[d].child.Cidr] = call[d].child
                 /\ call[d].child.Cidr # a.Cidr
      <4>1. store[call[d].child.Cidr] = call[d].child /\ call[d].child # None
            /\ call[d].child.Cidr \in Cidr
        BY <3>2 DEF LeaseInv, OneDeleter, IsChild
      <4>2. call[d].child # Absent
        BY <4>1, CallOK, NoneIsNoRecord DEF GoodCalls
      <4> QED
        BY <1>5, <2>4, <4>1, <4>2
    <3> QED
      BY <2>2, <3>1, <3>2 DEF LeaseInv, OneDeleter
  <2> QED
    BY <2>4, <2>6, <2>7, <2>8, <2>9 DEF LeaseInv
<1> QED
  BY <1>4, <1>5

\* Taking the mark back: the lease was the only claim, and its holder is
\* from now on the only one who will delete the record.
LEMMA LeaseGiveBack ==
    ASSUME IInv, LeaseInv, NEW c \in Callers, ReleaseChildUpdate(c)
    PROVE  LeaseInv'
<1> DEFINE k == call[c]
           P == k.cur.Cidr
           q == store[P]
           n == [k.cur EXCEPT !.version = @ + 1]
<1>0. PICK a : a = k.child
  OBVIOUS
<1>1. k.pc = "ReleaseChildUpdate" /\ UpdateOutcome(k.cur) = "ok" /\ UpdatePrefix(k.cur)
      /\ leases' = [leases EXCEPT ![c] = { h \in @ : h.Cidr # a.Cidr }]
      /\ GoTo(c, "DeletePrefixRead")
  BY <1>0 DEF ReleaseChildUpdate
<1>2. /\ call'[c].pc = "DeletePrefixRead" /\ call'[c].req = k.req /\ call'[c].child = a
      /\ \A d \in Callers \ {c} : call'[d] = call[d] /\ leases'[d] = leases[d]
      /\ leases'[c] = { h \in leases[c] : h.Cidr # a.Cidr }
  BY <1>0, <1>1 DEF GoTo, IInv, CallsOK, GoodCalls
<1>3. /\ a.ParentCidr = P /\ IsChild(a) /\ P \in Parents /\ P \in Cidr
      /\ q \in GoodRecord /\ q # Absent
      /\ Intends(k, q)
      /\ n # Absent /\ n.taken = k.cur.taken /\ n.ips = q.ips /\ n \in GoodRecord
      /\ q.Cidr = P
      /\ \A x \in Cidr : store'[x] = IF x = P THEN n ELSE store[x]
      /\ \A d \in Callers \ {c} : LeaseCall(d)'
  BY <1>0, <1>1, <1>2, ParentCommit DEF Updating
<1>4. n.taken = q.taken \ {a.Cidr}
  <2>1. k.cur = WithoutChild(q, a.Cidr)
    BY <1>0, <1>1, <1>3 DEF Intends
  <2> QED
    BY <1>3, <2>1 DEF WithoutChild, GoodRecord, PrefixRecord
<1>5. n.Cidr = q.Cidr
  <2>1. k.cur \in GoodRecord
    BY <1>1, CallOK DEF Updating
  <2> QED
    BY <1>3, <2>1 DEF GoodRecord, PrefixRecord
<1>6. a \in leases[c] /\ Masked(k.req.cidr) = a.Cidr /\ k.req \in Requests
  BY <1>0, <1>1 DEF LeaseInv, LeaseCall, Releasing
<1>7. a \in Claims(c) /\ a.Cidr \in Cidr /\ store[a.Cidr] = a /\ a # None
  <2>1. a # None
    BY <1>6, NoneIsNoRecord DEF IInv
  <2> QED
    BY <1>3, <1>6, <2>1 DEF Claims, LeaseInv, LeasesStored, IsChild
<1> HIDE DEF n, P, q
<1>8. \A d \in Callers : Claims(d)' \subseteq Claims(d) /\ leases'[d] \subseteq leases[d]
  BY <1>1, <1>2 DEF Claims
<1>9. ASSUME NEW d \in Callers, NEW b \in leases[d], b.Cidr = a.Cidr
      PROVE  d = c /\ b = a
  <2>1. b = a
    BY <1>7, <1>9 DEF LeaseInv, LeasesStored
  <2>2. a \in Claims(d)
    BY <2>1 DEF Claims
  <2>3. Overlaps(a.Cidr, a.Cidr)
    BY <1>7, OverlapFacts
  <2> QED
    BY <1>7, <2>1, <2>2, <2>3 DEF LeaseInv, ClaimsApart
<1>10. ASSUME NEW d \in Callers, NEW b \in Claims(d)', b.ParentCidr = P
       PROVE  b.Cidr # a.Cidr
  <2> SUFFICES ASSUME b.Cidr = a.Cidr PROVE FALSE
    OBVIOUS
  <2>1. b \in Claims(d)
    BY <1>8
  <2>2. Overlaps(b.Cidr, a.Cidr)
    BY <1>7, OverlapFacts
  <2>3. d = c /\ b = a
    BY <1>3, <1>7, <1>10, <2>1, <2>2 DEF LeaseInv, ClaimsApart
  <2>4. Claims(c)' = leases'[c]
    BY <1>2 DEF Claims
  <2> QED
    BY <1>2, <2>3, <2>4
<1>11. ClaimsMarked'
  <2> SUFFICES ASSUME NEW d \in Callers, NEW b \in Claims(d)' PROVE IsChild(b) /\ Marked(b)'
    BY DEF ClaimsMarked
  <2>1. IsChild(b) /\ Marked(b)
    BY <1>8 DEF LeaseInv, ClaimsMarked
  <2>2. b.ParentCidr \in Cidr
    BY <2>1, ParentsAreKeys DEF IsChild
  <2>3. CASE b.ParentCidr # P
    BY <1>3, <2>1, <2>2, <2>3 DEF Marked
  <2>4. CASE b.ParentCidr = P
    <3>1. PICK t \in q.taken : Masked(t) = b.Cidr
      BY <2>1, <2>4 DEF Marked, MarkedIn, q
    <3>2. t # a.Cidr
      BY <1>7, <1>10, <2>4, <3>1, MaskedOfCidr
    <3>3. MarkedIn(n, b)
      BY <1>4, <3>1, <3>2 DEF MarkedIn
    <3>4. store'[P] = n
      BY <1>3
    <3> QED
      BY <1>3, <2>1, <2>4, <3>3, <3>4 DEF Marked, MarkedIn
  <2> QED
    BY <2>1, <2>3, <2>4
<1>12. ClaimsApart'
  BY <1>8 DEF LeaseInv, ClaimsApart
<1>13. LeasesStored'
  <2>1. \A d \in Callers : \A b \in leases[d] : b.Cidr \in Cidr /\ b.Cidr # P
    BY <1>3 DEF LeaseInv, ClaimsMarked, Claims, IsChild
  <2> QED
    BY <1>3, <1>8, <2>1 DEF LeaseInv, LeasesStored
<1>14. NothingHasIPs'
  <2>1. ~ hasIPs(n)
    <3>1. ~ hasIPs(q)
      BY <1>3 DEF LeaseInv, NothingHasIPs, q
    <3> QED
      BY <1>3, <1>5, <3>1 DEF hasIPs
  <2>2. \A x \in Cidr : store'[x] # Absent => ~ hasIPs(store'[x])
    BY <1>3, <2>1 DEF LeaseInv, NothingHasIPs
  <2>3. \A d \in Callers : call'[d].pc = "NewPrefixCreate" => ~ hasIPs(call'[d].cur)
    BY <1>2 DEF LeaseInv, NothingHasIPs
  <2> QED
    BY <2>2, <2>3 DEF NothingHasIPs
<1>15. OneDeleter'
  <2>1. \A d \in Callers \ {c} : Deleting(call[d]) =>
            /\ call[d].child # None /\ IsChild(call[d].child)
            /\ store[call[d].child.Cidr] = call[d].child
            /\ call[d].child.Cidr # a.Cidr
            /\ call[d].child.Cidr \in Cidr /\ call[d].child.Cidr # P
    BY <1>3, <1>6 DEF LeaseInv, OneDeleter, IsChild
  <2>2. \A d \in Callers : \A b \in leases'[d] : b.Cidr # a.Cidr
    BY <1>2, <1>9
  <2>3. store'[a.Cidr] = a
    BY <1>3, <1>7 DEF IsChild
  <2> SUFFICES ASSUME NEW d \in Callers, Deleting(call'[d])
               PROVE  LET child == call'[d].child
                      IN  /\ child # None /\ IsChild(child) /\ store'[child.Cidr] = child
                          /\ Masked(call'[d].req.cidr) = child.Cidr
                          /\ call'[d].pc = "DeletePrefixStore" => call'[d].cur.Cidr = child.Cidr
                          /\ \A e \in Callers : \A b \in leases'[e] : b.Cidr # child.Cidr
                          /\ \A e \in Callers \ {d} :
                                Deleting(call'[e]) => call'[e].child.Cidr # child.Cidr
    BY DEF OneDeleter
  <2>4. CASE d = c
    BY <1>2, <1>3, <1>6, <1>7, <2>1, <2>2, <2>3, <2>4
  <2>5. CASE d # c
    <3>1. call'[d] = call[d] /\ Deleting(call[d])
      BY <1>2, <2>5
    <3>2. store'[call[d].child.Cidr] = call[d].child
      BY <1>3, <2>1, <2>5, <3>1
    <3>3. \A e \in Callers : \A b \in leases'[e] : b.Cidr # call[d].child.Cidr
      BY <1>8, <3>1 DEF LeaseInv, OneDeleter
    <3>4. \A e \in Callers \ {d} : Deleting(call'[e]) => call'[e].child.Cidr # call[d].child.Cidr
      BY <1>2, <2>1, <2>5, <3>1 DEF LeaseInv, OneDeleter
    <3>5. /\ Masked(call[d].req.cidr) = call[d].child.Cidr
          /\ call[d].pc = "DeletePrefixStore" => call[d].cur.Cidr = call[d].child.Cidr
      BY <3>1 DEF LeaseInv, OneDeleter
    <3> QED
      BY <2>1, <2>5, <3>1, <3>2, <3>3, <3>4, <3>5
  <2> QED
    BY <2>4, <2>5
<1>16. LeaseCall(c)'
  BY <1>2, <1>6 DEF LeaseCall, ParentCopy, Releasing, Updating
<1> QED
  BY <1>3, <1>11, <1>12, <1>13, <1>14, <1>15, <1>16 DEF LeaseInv

\* Deleting the record of a child that nobody has a claim on.
LEMMA LeaseDelete ==
    ASSUME IInv, LeaseInv, NEW c \in Callers, DeletePrefixStore(c)
    PROVE  LeaseInv'
<1>0. PICK a : a = call[c].child
  OBVIOUS
<1>1. call[c].pc = "DeletePrefixStore" /\ DeletePrefix(call[c].cur) /\ Return(c)
  BY DEF DeletePrefixStore
<1>2. /\ a # None /\ IsChild(a) /\ store[a.Cidr] = a /\ call[c].cur.Cidr = a.Cidr
      /\ \A d \in Callers : \A b \in leases[d] : b.Cidr # a.Cidr
      /\ \A d \in Callers \ {c} : Deleting(call[d]) => call[d].child.Cidr # a.Cidr
  BY <1>0, <1>1 DEF LeaseInv, OneDeleter, Deleting
<1>3. a # Absent
  BY <1>0, <1>2, CallOK, NoneIsNoRecord DEF GoodCalls
<1>4. leases' = leases
  BY <1>2, <1>3 DEF DeletePrefixStore, DeleteOutcome
<1>5. call'[c] = Idle /\ \A d \in Callers \ {c} : call'[d] = call[d]
  BY <1>1, ReturnChanges
<1>6. a.Cidr \in Cidr /\ a.Cidr \notin Parents
  BY <1>2 DEF IsChild
<1>7. \A x \in Cidr : store'[x] = IF x = a.Cidr THEN Absent ELSE store[x]
  BY <1>1, <1>2, <1>6 DEF DeletePrefix, IInv
<1>8. \A x : IsChild(x) /\ Marked(x) => Marked(x)'
  BY <1>6, <1>7, ParentsAreKeys DEF IsChild, Marked
<1>9. \A d \in Callers : Claims(d)' \subseteq Claims(d)
  BY <1>4, <1>5 DEF Claims, Idle
<1>10. ClaimsMarked'
  BY <1>8, <1>9 DEF LeaseInv, ClaimsMarked
<1>11. ClaimsApart'
  BY <1>9 DEF LeaseInv, ClaimsApart
<1>12. LeasesStored'
  <2>1. \A d \in Callers : \A b \in leases[d] : b.Cidr \in Cidr /\ b.Cidr # a.Cidr
    BY <1>2 DEF IInv, GoodRecord, PrefixRecord
  <2> QED
    BY <1>4, <1>7, <2>1 DEF LeaseInv, LeasesStored
<1>13. NothingHasIPs'
  BY <1>5, <1>7 DEF LeaseInv, NothingHasIPs, Idle
<1>14. OneDeleter'
  <2>1. \A d \in Callers : Deleting(call'[d]) => d # c /\ call'[d] = call[d]
    BY <1>5 DEF Deleting, Idle
  <2>2. \A d \in Callers \ {c} : Deleting(call[d]) =>
            call[d].child.Cidr \in Cidr /\ call[d].child.Cidr # a.Cidr
    BY <1>2 DEF LeaseInv, OneDeleter, IsChild
  <2> QED
    BY <1>4, <1>7, <2>1, <2>2 DEF LeaseInv, OneDeleter
<1>15. ASSUME NEW d \in Callers PROVE LeaseCall(d)'
  <2>1. CASE d = c
    BY <1>5, <2>1 DEF LeaseCall, ParentCopy, Releasing, Idle, Updating
  <2>2. CASE d # c
    <3>1. call'[d] = call[d] /\ LeaseCall(d)
      BY <1>5, <2>2 DEF LeaseInv
    <3>2. call[d].pc \in Updating => call[d].cur.Cidr \in Parents
      BY <3>1 DEF LeaseCall, ParentCopy, IsChild
    <3>3. call[d].pc \in Updating => store'[call[d].cur.Cidr] = store[call[d].cur.Cidr]
      BY <1>6, <1>7, <3>2, ParentsAreKeys
    <3>4. ParentCopy(call[d])'
      BY <3>1, <3>3 DEF LeaseCall, ParentCopy, Intends
    <3> QED
      BY <1>4, <3>1, <3>4 DEF LeaseCall
  <2> QED
    BY <2>1, <2>2
<1> QED
  BY <1>10, <1>11, <1>12, <1>13, <1>14, <1>15 DEF LeaseInv

-----------------------------------------------------------------------------
\* The steps that continue a call keep the invariant.
LEMMA LeaseOtherSteps ==
    ASSUME FlatChildren, IInv, LeaseInv, NEW c \in Callers, OtherStep(c)
    PROVE  LeaseInv'
<1> DEFINE k == call[c]
<1>1. k.pc # "idle" => /\ k.req \in Requests /\ k.req.cidr \in RawPrefix
                       /\ k.req.op \in ReleaseOps \cup {"NewPrefix", "AcquireChildPrefix"}
  BY IpamAssumption DEF LeaseInv, LeaseCall, FlatChildren, Request
<1>2. CASE NewPrefixRead(c)
  <2>1. k.req \in Requests /\ k.req.cidr \in RawPrefix /\ k.req.op = "NewPrefix"
        /\ UNCHANGED <<store, leases>>
    BY <1>1, <1>2, CallOK DEF NewPrefixRead, CallShape
  <2>2. CASE Return(c)
    BY <2>1, <2>2, ReturnIsQuiet
  <2>3. CASE Proceed(c, "NewPrefixCreate", k.req, newPrefix(k.req.cidr, None), None, None)
    <3>1. /\ call'[c].pc = "NewPrefixCreate" /\ call'[c].req = k.req
          /\ call'[c].cur = newPrefix(k.req.cidr, None)
          /\ \A d \in Callers \ {c} : call'[d] = call[d]
      BY <2>3, ProceedChanges
    <3>2. ~ hasIPs(newPrefix(k.req.cidr, None))
      BY <2>1, NewHasNoIPs
    <3>3. QuietNow(c)
      BY <2>1, <3>1, <3>2, QuietCalls DEF ReleaseOps
    <3> QED
      BY <2>1, <3>1, <3>3, QuietStep
  <2> QED
    BY <1>2, <2>2, <2>3 DEF NewPrefixRead
<1>3. CASE NewPrefixCreate(c)
  <2> DEFINE p == k.cur
  <2>1. k.pc = "NewPrefixCreate" /\ CreatePrefix(p) /\ Return(c) /\ leases' = leases
    BY <1>3 DEF NewPrefixCreate
  <2>2. p \in GoodRecord /\ ~ hasIPs(p)
    BY <2>1, CallOK DEF LeaseInv, NothingHasIPs
  <2>3. call'[c] = Idle /\ \A d \in Callers \ {c} : call'[d] = call[d]
    BY <2>1, ReturnChanges
  <2>4. CASE store[p.Cidr] # Absent
    <3>1. store' = store
      BY <2>1, <2>4 DEF CreatePrefix
    <3> QED
      BY <2>1, <3>1, ReturnIsQuiet
  <2>5. CASE store[p.Cidr] = Absent
    <3>1. /\ NothingHasIPs' /\ OneDeleter'
          /\ \A x \in Cidr : store[x] # Absent => store'[x] = store[x]
          /\ \A d \in Callers : LeaseCall(d)'
          /\ \A a : IsChild(a) /\ Marked(a) => Marked(a)'
      BY <2>1, <2>2, <2>3, <2>5, CreateKeeps
    <3>2. \A d \in Callers : Claims(d)' \subseteq Claims(d)
      BY <2>1, <2>3 DEF Claims, Idle
    <3>3. ClaimsMarked' /\ ClaimsApart'
      BY <3>1, <3>2 DEF LeaseInv, ClaimsMarked, ClaimsApart
    <3>4. LeasesStored'
      <4>1. \A d \in Callers : \A b \in leases[d] :
                b.Cidr \in Cidr /\ store[b.Cidr] = b /\ b # Absent
        BY NoneIsNoRecord DEF LeaseInv, LeasesStored, IInv, GoodRecord, PrefixRecord
      <4> QED
        BY <2>1, <3>1, <4>1 DEF LeasesStored
    <3> QED
      BY <3>1, <3>3, <3>4 DEF LeaseInv
  <2> QED
    BY <2>4, <2>5
<1>4. CASE DeletePrefixStore(c)
  BY <1>4, LeaseDelete
<1>5. CASE AcquireChildUpdate(c)
  BY <1>5, LeaseMark
<1>6. CASE AcquireChildCreate(c)
  BY <1>6, LeaseGrant
<1>7. CASE ReleaseChildRead(c)
  <2> DEFINE child == k.child
             parent == PrefixFrom(child.ParentCidr)
  <2>1. ReleaseChildEntering(c) /\ UNCHANGED <<store, leases>>
    BY <1>7 DEF ReleaseChildRead
  <2>2. child \in leases[c] /\ Masked(k.req.cidr) = child.Cidr
    BY <2>1 DEF LeaseInv, LeaseCall, Releasing, ReleaseChildEntering, ReleaseOps
  <2>3. IsChild(child) /\ child.ParentCidr \in Parents /\ child.ParentCidr # None
    <3>1. child \in Claims(c)
      BY <2>2 DEF Claims
    <3> QED
      BY <3>1, ParentsAreKeys, CidrIsRaw, NoneAssumption DEF LeaseInv, ClaimsMarked, IsChild
  <2>4. child.ParentCidr \in Cidr /\ Masked(child.ParentCidr) = child.ParentCidr
        /\ child.ParentCidr \in RawPrefix
    BY <2>3, ParentsAreKeys, CidrParts
  <2>5. CASE Return(c)
    BY <2>1, <2>5, ReturnIsQuiet
  <2>6. CASE parent # Absent
             /\ Proceed(c, "ReleaseChildUpdate", k.req, WithoutChild(parent, child.Cidr), child, None)
    <3>1. /\ call'[c].pc = "ReleaseChildUpdate" /\ call'[c].req = k.req
          /\ call'[c].cur = WithoutChild(parent, child.Cidr) /\ call'[c].child = child
          /\ \A d \in Callers \ {c} : call'[d] = call[d]
      BY <2>6, ProceedChanges
    <3>2. parent \in PrefixRecord /\ parent.Cidr = child.ParentCidr
      BY <2>4, <2>6, PrefixFromOK DEF GoodRecord
    <3>3. /\ WithoutChild(parent, child.Cidr).Cidr = parent.Cidr
          /\ WithoutChild(parent, child.Cidr).version = parent.version
          /\ parent.version \in Nat
      BY <3>2 DEF WithoutChild, PrefixRecord
    <3>4. store'[child.ParentCidr] = parent
      BY <2>1, <2>4 DEF PrefixFrom
    <3> HIDE DEF parent, child
    <3>5. Intends(call'[c], parent)
      BY <3>1 DEF Intends
    <3>6. ParentCopy(call[c])'
      BY <2>3, <2>6, <3>1, <3>2, <3>3, <3>4, <3>5 DEF ParentCopy
    <3>7. k.req \in Requests
      BY <1>1, <2>1 DEF ReleaseChildEntering
    <3>8. QuietNow(c)
      BY <2>1, <2>2, <3>1, <3>6, <3>7 DEF QuietNow, LeaseCall, Deleting
    <3> QED
      BY <2>1, <3>1, <3>8, QuietStep
  <2> QED
    BY <1>7, <2>3, <2>5, <2>6 DEF ReleaseChildRead
<1>8. CASE ReleaseChildUpdate(c)
  BY <1>8, LeaseGiveBack
<1>9. CASE AcquireIPUpdate(c) \/ ReleaseIPUpdate(c)
  BY <1>9 DEF AcquireIPUpdate, ReleaseIPUpdate, LeaseInv, LeaseCall, ParentCopy, Updating
<1>10. CASE UpdateFails(c)
  <2>1. k.pc \in Updating /\ UNCHANGED <<store, leases>>
    BY <1>10 DEF UpdateFails
  <2>2. CASE Return(c)
    BY <2>1, <2>2, ReturnIsQuiet
  <2>3. CASE call' = [call EXCEPT ![c].pc = "retry", ![c].cur = None, ![c].ip = None]
    <3>1. call'[c].pc = "retry" /\ call'[c].req = k.req /\ call'[c].child = k.child
          /\ \A d \in Callers \ {c} : call'[d] = call[d]
      BY <2>3 DEF IInv, CallsOK, GoodCalls
    <3>2. k.pc \in {"AcquireChildUpdate", "ReleaseChildUpdate"} /\ k.req \in Requests
      BY <1>1, <2>1 DEF LeaseInv, LeaseCall, ParentCopy, Updating
    <3>3. CASE k.pc = "ReleaseChildUpdate"
      <4>1. k.child \in leases[c] /\ Masked(k.req.cidr) = k.child.Cidr
        BY <3>3 DEF LeaseInv, LeaseCall, Releasing
      <4>2. QuietNow(c)
        BY <2>1, <3>1, <3>2, <4>1 DEF QuietNow, LeaseCall, ParentCopy, Deleting, Updating
      <4> QED
        BY <2>1, <3>1, <4>2, QuietStep
    <3>4. CASE k.pc = "AcquireChildUpdate"
      <4>1. k.req.op \notin ReleaseOps
        BY <3>4 DEF LeaseInv, LeaseCall, ReleaseOps
      <4>2. QuietNow(c)
        BY <3>1, <3>2, <4>1, QuietCalls
      <4> QED
        BY <2>1, <3>1, <4>2, QuietStep
    <3> QED
      BY <3>2, <3>3, <3>4
  <2> QED
    BY <1>10, <2>2, <2>3 DEF UpdateFails
<1> QED
  BY <1>2, <1>3, <1>4, <1>5, <1>6, <1>7, <1>8, <1>9, <1>10 DEF OtherStep

\* A crash drops calls, and with them claims that are no leases.
LEMMA LeaseCrash ==
    ASSUME LeaseInv, NEW i \in Instances, Crash(i)
    PROVE  LeaseInv'
<1>1. \A d \in Callers : call'[d] = Idle \/ call'[d] = call[d]
  BY DEF Crash
<1>2. \A d \in Callers : call'[d] = call[d] \/ QuietNow(d)
  BY <1>1, QuietCalls
<1> QED
  BY <1>2, QuietStep DEF Crash

\* LeaseInv is an invariant for callers with these habits.
LEMMA LeaseInvariance == FlatChildren /\ Spec => []LeaseInv
<1>1. FlatChildren /\ IInv /\ LeaseInv /\ [Next]_vars => LeaseInv'
  <2> SUFFICES ASSUME FlatChildren, IInv, LeaseInv, [Next]_vars PROVE LeaseInv'
    OBVIOUS
  <2>1. CASE UNCHANGED vars
    BY <2>1, QuietStep DEF vars
  <2>2. ASSUME NEW c \in Callers, NEW r \in Requests, ReadStep(c, r) PROVE LeaseInv'
    BY <2>2, LeaseReadSteps
  <2>3. ASSUME NEW c \in Callers, OtherStep(c) PROVE LeaseInv'
    BY <2>3, LeaseOtherSteps
  <2>4. ASSUME NEW i \in Instances, Crash(i) PROVE LeaseInv'
    BY <2>4, LeaseCrash
  <2> QED
    BY <2>1, <2>2, <2>3, <2>4 DEF Next
<1> QED
  <2>1. CASE ~ FlatChildren
    BY <2>1
  <2>2. CASE FlatChildren
    BY <2>2, <1>1, LeaseInit, Invariance, PTL DEF Spec
  <2> QED
    BY <2>1, <2>2

\* What the invariant says of the leases.
LEMMA LeasesKept == IInv /\ LeaseInv => LeasesDisjoint /\ LeaseIsStored
<1> SUFFICES ASSUME IInv, LeaseInv PROVE LeasesDisjoint /\ LeaseIsStored
  OBVIOUS
<1>1. \A c \in Callers : leases[c] \subseteq Claims(c)
  BY DEF Claims
<1>2. LeasesDisjoint
  BY <1>1 DEF LeaseInv, ClaimsApart, LeasesDisjoint
<1>3. \A c \in Callers : \A a \in leases[c] : store[a.Cidr] = a /\ a # Absent /\ Marked(a)
  BY <1>1, NoneIsNoRecord DEF LeaseInv, LeasesStored, ClaimsMarked, IInv
<1> QED
  BY <1>2, <1>3 DEF LeaseIsStored, Marked, MarkedIn

(***************************************************************************)
(* Child prefixes that AcquireChildPrefix returned and that were not       *)
(* released do not overlap: for any number of callers and instances, with  *)
(* retries, crashes, host bits in the requests, and a release and an       *)
(* acquisition of the same child at the same time.                         *)
(***************************************************************************)
THEOREM LeasesKeptApart == FlatChildren /\ Spec => []LeasesDisjoint
<1>1. CASE ~ FlatChildren
  BY <1>1
<1>2. CASE FlatChildren
  BY <1>2, LeaseInvariance, Invariance, LeasesKept, PTL
<1> QED
  BY <1>1, <1>2

(***************************************************************************)
(* Every child prefix that is out is stored, and so is its parent, which   *)
(* has the child's addresses marked as taken: no call of anybody,          *)
(* finished, retried or cut off by a crash, takes either away.             *)
(***************************************************************************)
THEOREM LeasesStayStored == FlatChildren /\ Spec => []LeaseIsStored
<1>1. CASE ~ FlatChildren
  BY <1>1
<1>2. CASE FlatChildren
  BY <1>2, LeaseInvariance, Invariance, LeasesKept, PTL
<1> QED
  BY <1>1, <1>2

-----------------------------------------------------------------------------
\* What a call means to write differs from what it read in one child.
LEMMA IntendsOneChange ==
    ASSUME NEW k, NEW q \in PrefixRecord, Intends(k, q)
    PROVE  OneChange(q, [k.cur EXCEPT !.version = @ + 1])
<1> DEFINE n == [k.cur EXCEPT !.version = @ + 1]
<1>1. PICK x : \/ n.taken = q.taken \cup {x} /\ k.cur = WithChild(q, x)
               \/ n.taken = q.taken \ {x} /\ k.cur = WithoutChild(q, x)
  BY DEF Intends, WithChild, WithoutChild, PrefixRecord
<1>2. n.version = q.version + 1 /\ n.ParentCidr = q.ParentCidr /\ n.ips = q.ips
  BY <1>1 DEF WithChild, WithoutChild, PrefixRecord
<1> HIDE DEF n
<1>3. /\ Cardinality(Differing(q.ips, q.ips)) = 0
      /\ Cardinality(Differing(q.taken, q.taken \cup {x})) \in {0, 1}
      /\ Cardinality(Differing(q.taken, q.taken \ {x})) \in {0, 1}
  BY AtMostOne
<1>4. Cardinality(Differing(q.ips, n.ips)) + Cardinality(Differing(q.taken, n.taken)) <= 1
  BY <1>1, <1>2, <1>3
<1> QED
  BY <1>2, <1>4 DEF OneChange, n

\* A step writes what its call means to write, on the version it read.
LEMMA ChildStepChangesOneThing ==
    ASSUME FlatChildren, IInv, LeaseInv, [Next]_vars
    PROVE  ChangesOneThing
<1>1. CASE store' = store
  BY <1>1 DEF ChangesOneThing
<1>2. ASSUME NEW p \in GoodRecord, CreatePrefix(p) PROVE ChangesOneThing
  BY <1>2 DEF CreatePrefix, ChangesOneThing, IInv, GoodRecord, PrefixRecord
<1>3. ASSUME NEW c \in Callers, call[c].pc \in Updating,
             UpdateOutcome(call[c].cur) = "ok", UpdatePrefix(call[c].cur)
      PROVE  ChangesOneThing
  <2> DEFINE p == call[c].cur
             q == store[p.Cidr]
  <2>1. p \in GoodRecord /\ p.Cidr \in Cidr
    BY <1>3, CallOK DEF GoodRecord, PrefixRecord
  <2>2. q # Absent /\ q.version = p.version
    BY <1>3, IpamAssumption DEF UpdateOutcome
  <2>3. q \in PrefixRecord
    BY <2>1, <2>2 DEF IInv, GoodRecord
  <2>4. Intends(call[c], q)
    BY <1>3, <2>2 DEF LeaseInv, LeaseCall, ParentCopy
  <2>5. OneChange(q, [p EXCEPT !.version = @ + 1])
    BY <2>3, <2>4, IntendsOneChange
  <2>6. store' = [store EXCEPT ![p.Cidr] = [p EXCEPT !.version = @ + 1]]
    BY <1>3 DEF UpdatePrefix
  <2> QED
    BY <2>1, <2>5, <2>6 DEF ChangesOneThing, IInv
<1>4. ASSUME NEW c \in Callers, DeletePrefixStore(c) PROVE ChangesOneThing
  <2>1. call[c].cur.Cidr \in Cidr
    BY <1>4, CallOK DEF DeletePrefixStore, GoodRecord, PrefixRecord
  <2> QED
    BY <1>4, <2>1 DEF DeletePrefixStore, DeletePrefix, ChangesOneThing, IInv
<1>5. ASSUME NEW c \in Callers, NEW r \in Requests, ReadStep(c, r) PROVE store' = store
  BY <1>5 DEF ReadStep, NewPrefixCall, DeletePrefixRead, AcquireChildRead, ReleaseChildCall,
     AcquireIPRead, ReleaseIPRead
<1>6. ASSUME NEW c \in Callers, OtherStep(c) PROVE ChangesOneThing
  <2>1. CASE NewPrefixRead(c) \/ ReleaseChildRead(c) \/ UpdateFails(c)
    BY <1>1, <2>1 DEF NewPrefixRead, ReleaseChildRead, UpdateFails
  <2>2. CASE NewPrefixCreate(c) \/ AcquireChildCreate(c)
    BY <1>2, <2>2, CallOK DEF NewPrefixCreate, AcquireChildCreate
  <2>3. CASE AcquireChildUpdate(c) \/ AcquireIPUpdate(c) \/ ReleaseIPUpdate(c)
             \/ ReleaseChildUpdate(c)
    BY <1>3, <2>3 DEF AcquireChildUpdate, AcquireIPUpdate, ReleaseIPUpdate,
       ReleaseChildUpdate, Updating
  <2> QED
    BY <1>4, <1>6, <2>1, <2>2, <2>3 DEF OtherStep
<1>7. ASSUME NEW i \in Instances, Crash(i) PROVE store' = store
  BY <1>7 DEF Crash
<1> QED
  BY <1>1, <1>5, <1>6, <1>7 DEF Next, vars

(***************************************************************************)
(* No lost update with releases either: marking and taking back children   *)
(* of a parent never undoes what another caller committed after the read.  *)
(***************************************************************************)
THEOREM NoLostChild == FlatChildren /\ Spec => CommitsChangeOneThing
<1>1. FlatChildren /\ IInv /\ LeaseInv /\ [Next]_vars => [ChangesOneThing]_vars
  BY ChildStepChangesOneThing
<1>2. CASE ~ FlatChildren
  BY <1>2
<1>3. CASE FlatChildren
  <2>1. Spec => [][ChangesOneThing]_vars
    BY <1>1, <1>3, LeaseInvariance, Invariance, PTL DEF Spec
  <2> QED
    BY <2>1 DEF ChangesOneThing, CommitsChangeOneThing
<1> QED
  BY <1>2, <1>3

=============================================================================
