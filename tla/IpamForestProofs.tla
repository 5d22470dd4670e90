-------------------------- MODULE IpamForestProofs --------------------------
(***************************************************************************)
(* The stored prefixes are a forest: theorems about Ipam for one instance  *)
(* whose callers do not delete prefixes, any number of them, with crashes. *)
(* Two prefixes that overlap are a prefix and a child of it, of a child of *)
(* it, ..., and so no address is in two prefixes that give out addresses.  *)
(***************************************************************************)
EXTENDS IpamLockProofs

\* One process with one ipamer, as every caller of NewPrefix needs it.
OneMutex == \A c, d \in Callers : InstanceOf[c] = InstanceOf[d]

(***************************************************************************)
(* The inductive invariant, next to IInv and LockInv.  A stored prefix     *)
(* inside another one lies in a child that the other has marked and that   *)
(* is stored too.  A NewPrefix that has found no overlap holds the mutex   *)
(* and still overlaps nothing: only children are created meanwhile, and    *)
(* they lie inside stored prefixes.  A child that is about to be created   *)
(* is marked in its parent, and the parent is stored.                      *)
(***************************************************************************)
Exists(k) == store[k] # Absent

Nested ==
    \A k, l \in Cidr :
        (Exists(k) /\ Exists(l) /\ Overlaps(k, l) /\ k.bits < l.bits) =>
            \E t \in store[k].taken :
                Exists(Masked(t)) /\ RangeOfPrefix(l) \subseteq RangeOfPrefix(t)

TopApart ==
    \A k, l \in Cidr :
        (/\ Exists(k) /\ store[k].ParentCidr = None
         /\ Exists(l) /\ store[l].ParentCidr = None
         /\ Overlaps(k, l)) => k = l

Marks(p, child) == \E t \in p.taken : Masked(t) = child.Cidr

NewInProgress(c) ==
    call[c].pc = "NewPrefixCreate" =>
        /\ mu[InstanceOf[c]] = c
        /\ \A k \in Cidr : Exists(k) => ~ Overlaps(k, call[c].cur.Cidr)

ChildInProgress(c) ==
    LET child == call[c].child
    IN  /\ call[c].pc = "AcquireChildUpdate" =>
               child.ParentCidr = call[c].cur.Cidr /\ Marks(call[c].cur, child)
        /\ call[c].pc = "AcquireChildCreate" =>
               /\ child.ParentCidr \in Cidr /\ Exists(child.ParentCidr)
               /\ Marks(store[child.ParentCidr], child)

ForestInv ==
    /\ Nested
    /\ TopApart
    /\ \A c \in Callers : NewInProgress(c) /\ ChildInProgress(c)

-----------------------------------------------------------------------------
\* With nothing stored and nobody in a call the invariant is true.
LEMMA ForestInit == Init => ForestInv
  BY DEF Init, ForestInv, Nested, TopApart, Exists, NewInProgress, ChildInProgress, Idle

\* A caller that is not about to create or to mark a prefix owes nothing.
LEMMA NoCreation ==
    ASSUME NEW c \in Callers,
           call'[c].pc \notin {"NewPrefixCreate", "AcquireChildUpdate", "AcquireChildCreate"}
    PROVE  NewInProgress(c)' /\ ChildInProgress(c)'
  BY DEF NewInProgress, ChildInProgress

(***************************************************************************)
(* A step that leaves the storage and the mutex alone.                     *)
(***************************************************************************)
LEMMA ForestPrivate ==
    ASSUME ForestInv, NEW c \in Callers,
           UNCHANGED <<store, mu>>,
           \A d \in Callers \ {c} : call'[d] = call[d],
           NewInProgress(c)' /\ ChildInProgress(c)'
    PROVE  ForestInv'
<1>1. Nested' /\ TopApart'
  BY DEF ForestInv, Nested, TopApart, Exists
<1>2. ASSUME NEW d \in Callers PROVE NewInProgress(d)' /\ ChildInProgress(d)'
  BY DEF ForestInv, NewInProgress, ChildInProgress, Exists
<1> QED
  BY <1>1, <1>2 DEF ForestInv

(***************************************************************************)
(* A commit: the same prefixes are stored, each has the parent it had and  *)
(* the children it had, and perhaps one more.                              *)
(***************************************************************************)
LEMMA ForestCommit ==
    ASSUME IInv, LockInv, ForestInv, NEW c \in Callers, call[c].pc \in Updating,
           UpdateOutcome(call[c].cur) = "ok", UpdatePrefix(call[c].cur),
           UNCHANGED mu,
           \A d \in Callers \ {c} : call'[d] = call[d],
           call'[c].pc # "NewPrefixCreate",
           ChildInProgress(c)'
    PROVE  ForestInv'
<1> DEFINE p == call[c].cur
           n == [p EXCEPT !.version = @ + 1]
           q == store[p.Cidr]
<1>1. p \in GoodRecord /\ p.Cidr \in Cidr
  BY CallOK DEF GoodRecord, PrefixRecord
<1>2. q # Absent /\ q.version = p.version
  BY IpamAssumption DEF UpdateOutcome
<1>3. q \in GoodRecord
  BY <1>1, <1>2 DEF IInv
<1>4. Intended(call[c], q)
  BY <1>2 DEF LockInv, LockCall, CopyOK
<1>5. n # Absent
  BY <1>1, NextVersionIsGood, NoneIsNoRecord
<1>6. n.taken = p.taken /\ n.ParentCidr = p.ParentCidr
  BY <1>1 DEF GoodRecord, PrefixRecord
<1>7. q.taken \subseteq p.taken /\ p.ParentCidr = q.ParentCidr
  <2>1. \/ \E x : p = WithIP(q, x)
        \/ \E x : p = WithoutIP(q, x)
        \/ \E x : p = WithChild(q, x)
    BY <1>4 DEF Intended
  <2> HIDE DEF p
  <2> QED
    BY <1>3, <2>1 DEF WithIP, WithoutIP, WithChild, GoodRecord, PrefixRecord
<1>8. store' = [store EXCEPT ![p.Cidr] = n]
  BY DEF UpdatePrefix
<1>9. \A k \in Cidr : /\ Exists(k)' <=> Exists(k)
                      /\ Exists(k) => /\ store[k].taken \subseteq store'[k].taken
                                      /\ store'[k].ParentCidr = store[k].ParentCidr
  <2> HIDE DEF n
  <2> QED
    BY <1>1, <1>2, <1>5, <1>6, <1>7, <1>8 DEF IInv, Exists
<1>10. \A k \in Cidr : Exists(k) => \A t \in store[k].taken : Masked(t) \in Cidr
  BY MaskedIsCidr DEF IInv, Exists, GoodRecord, PrefixRecord
<1>11. Nested'
  <2> SUFFICES ASSUME NEW k \in Cidr, NEW l \in Cidr,
                      Exists(k)', Exists(l)', Overlaps(k, l), k.bits < l.bits
               PROVE  \E t \in store'[k].taken :
                        Exists(Masked(t))' /\ RangeOfPrefix(l) \subseteq RangeOfPrefix(t)
    BY DEF Nested
  <2>1. Exists(k) /\ Exists(l)
    BY <1>9
  <2>2. PICK t \in store[k].taken :
          Exists(Masked(t)) /\ RangeOfPrefix(l) \subseteq RangeOfPrefix(t)
    BY <2>1 DEF ForestInv, Nested
  <2> QED
    BY <1>9, <1>10, <2>1, <2>2
<1>12. TopApart'
  BY <1>9 DEF ForestInv, TopApart
<1>13. ASSUME NEW d \in Callers PROVE NewInProgress(d)' /\ ChildInProgress(d)'
  <2>1. CASE d = c
    BY <2>1 DEF NewInProgress
  <2>2. CASE d # c
    <3>1. call'[d] = call[d] /\ NewInProgress(d) /\ ChildInProgress(d)
      BY <2>2 DEF ForestInv
    <3>2. NewInProgress(d)'
      BY <1>9, <3>1 DEF NewInProgress
    <3>3. ChildInProgress(d)'
      BY <1>9, <3>1 DEF ChildInProgress, Marks
    <3> QED
      BY <3>2, <3>3
  <2> QED
    BY <2>1, <2>2
<1> QED
  BY <1>11, <1>12, <1>13 DEF ForestInv

-----------------------------------------------------------------------------
(***************************************************************************)
(* A new record that overlaps nothing keeps the forest.                    *)
(***************************************************************************)
LEMMA ForestNew ==
    ASSUME IInv, LockInv, ForestInv, OneMutex, NEW c \in Callers, NewPrefixCreate(c)
    PROVE  ForestInv'
<1> DEFINE p == call[c].cur
<1>1. p \in GoodRecord /\ p.Cidr \in Cidr /\ p # Absent
  BY CallOK, NoneIsNoRecord DEF NewPrefixCreate, GoodRecord, PrefixRecord
<1>2. mu[InstanceOf[c]] = c /\ \A k \in Cidr : Exists(k) => ~ Overlaps(k, p.Cidr)
  BY DEF ForestInv, NewInProgress, NewPrefixCreate
<1>3. \A k \in Cidr : Exists(k) => k # p.Cidr /\ ~ Overlaps(k, p.Cidr) /\ ~ Overlaps(p.Cidr, k)
  <2>1. Overlaps(p.Cidr, p.Cidr)
    BY <1>1, CidrIsRaw, EndsInRange DEF Overlaps
  <2>2. \A k : Overlaps(k, p.Cidr) <=> Overlaps(p.Cidr, k)
    BY DEF Overlaps
  <2> QED
    BY <1>2, <2>1, <2>2
<1>4. store' = [store EXCEPT ![p.Cidr] = p]
  BY <1>1, <1>3 DEF NewPrefixCreate, CreatePrefix, Exists
<1>5. \A k \in Cidr : /\ Exists(k) => store'[k] = store[k]
                      /\ Exists(k)' => Exists(k) \/ k = p.Cidr
  BY <1>1, <1>3, <1>4 DEF IInv, Exists
<1>6. Nested'
  <2> SUFFICES ASSUME NEW k \in Cidr, NEW l \in Cidr,
                      Exists(k)', Exists(l)', Overlaps(k, l), k.bits < l.bits
               PROVE  \E t \in store'[k].taken :
                        Exists(Masked(t))' /\ RangeOfPrefix(l) \subseteq RangeOfPrefix(t)
    BY DEF Nested
  <2>1. k.bits \in Int /\ l.bits \in Int /\ k # l
    BY CidrIsRaw, RawParts
  <2>2. Exists(k) /\ Exists(l)
    BY <1>3, <1>5, <2>1
  <2>3. PICK t \in store[k].taken :
          Exists(Masked(t)) /\ RangeOfPrefix(l) \subseteq RangeOfPrefix(t)
    BY <2>2 DEF ForestInv, Nested
  <2>4. Masked(t) \in Cidr
    BY <2>2, MaskedIsCidr DEF IInv, Exists, GoodRecord, PrefixRecord
  <2> QED
    BY <1>5, <2>2, <2>3, <2>4 DEF Exists
<1>7. TopApart'
  <2> SUFFICES ASSUME NEW k \in Cidr, NEW l \in Cidr,
                      Exists(k)', store'[k].ParentCidr = None,
                      Exists(l)', store'[l].ParentCidr = None, Overlaps(k, l), k # l
               PROVE  FALSE
    BY DEF TopApart
  <2>1. Exists(k) /\ Exists(l)
    BY <1>3, <1>5
  <2> QED
    BY <1>5, <2>1 DEF ForestInv, TopApart
<1>8. call'[c] = Idle /\ \A d \in Callers \ {c} : call'[d] = call[d]
  BY ReturnChanges DEF NewPrefixCreate
<1>9. ASSUME NEW d \in Callers PROVE NewInProgress(d)' /\ ChildInProgress(d)'
  <2>1. CASE d = c
    BY <1>8, <2>1, NoCreation DEF Idle
  <2>2. CASE d # c
    <3>1. call'[d] = call[d] /\ NewInProgress(d) /\ ChildInProgress(d)
      BY <1>8, <2>2 DEF ForestInv
    <3>2. call[d].pc # "NewPrefixCreate"
      BY <1>2, <2>2, <3>1 DEF NewInProgress, OneMutex
    <3>3. ChildInProgress(d)'
      BY <1>5, <3>1 DEF ChildInProgress, Exists
    <3> QED
      BY <3>1, <3>2, <3>3 DEF NewInProgress
  <2> QED
    BY <2>1, <2>2
<1> QED
  BY <1>6, <1>7, <1>9 DEF ForestInv

(***************************************************************************)
(* A block inside one of two blocks that overlap, against the other: the   *)
(* blocks of prefixes are nested or disjoint.                              *)
(***************************************************************************)
LEMMA OverlapsInside ==
    ASSUME NEW k \in RawPrefix, NEW l \in RawPrefix, NEW m \in RawPrefix,
           RangeOfPrefix(l) \subseteq RangeOfPrefix(m), Overlaps(k, l) \/ Overlaps(l, k)
    PROVE  Overlaps(k, m) /\ Overlaps(m, k)
  BY DEF Overlaps

(***************************************************************************)
(* The record of a marked child keeps the forest.  Its parent P has it     *)
(* marked as t.  A stored prefix larger than the child that overlaps it is *)
(* P, or encloses P and has a stored child around P, or lies in P: then it *)
(* lies in a stored child of P, that overlaps t and so is t, and is not    *)
(* larger.  A stored prefix inside the child would lie in a stored child   *)
(* of P, which again is t: the child is stored already.                    *)
(***************************************************************************)
LEMMA ForestChild ==
    ASSUME IInv, LockInv, ForestInv, NEW c \in Callers, AcquireChildCreate(c)
    PROVE  ForestInv'
<1> DEFINE p == call[c].child
           P == p.ParentCidr
           z == p.Cidr
<1>1. p \in GoodRecord /\ z \in Cidr /\ p # Absent
  BY CallOK, NoneIsNoRecord DEF AcquireChildCreate, GoodRecord, PrefixRecord
<1>2. P \in Cidr /\ Exists(P) /\ Marks(store[P], p)
  BY DEF ForestInv, ChildInProgress, AcquireChildCreate
<1>3. PICK t \in store[P].taken : Masked(t) = z
  BY <1>2 DEF Marks
<1>4. store[P] \in GoodRecord /\ store[P].Cidr = P
  BY <1>2 DEF IInv, Exists, OwnKeys
<1>5. /\ \A u \in store[P].taken : u \in RawPrefix /\ RangeOfPrefix(u) \subseteq RangeOfPrefix(P)
      /\ \A u \in store[P].taken : (Overlaps(t, u) \/ Overlaps(u, t)) => u = t
  BY <1>4 DEF GoodRecord, PrefixRecord, ChildrenApart
<1>6. t \in RawPrefix /\ RangeOfPrefix(z) = RangeOfPrefix(t)
  BY <1>3, <1>5, MaskedRange
<1>7. RangeOfPrefix(z) \subseteq RangeOfPrefix(P)
  BY <1>5, <1>6
<1>8. call'[c] = Idle /\ \A d \in Callers \ {c} : call'[d] = call[d]
  BY ReturnChanges DEF AcquireChildCreate
<1>9. mu' = mu
  BY DEF AcquireChildCreate
<1>10. CASE Exists(z)
  <2>1. store' = store
    BY <1>10 DEF AcquireChildCreate, CreatePrefix, Exists
  <2>2. NewInProgress(c)' /\ ChildInProgress(c)'
    BY <1>8, NoCreation DEF Idle
  <2> QED
    BY <1>8, <1>9, <2>1, <2>2, ForestPrivate
<1>11. CASE ~ Exists(z)
  <2>1. store' = [store EXCEPT ![z] = p]
    BY <1>11 DEF AcquireChildCreate, CreatePrefix, Exists
  <2>2. \A k \in Cidr : /\ Exists(k) => store'[k] = store[k] /\ Exists(k)'
                        /\ Exists(k)' => Exists(k) \/ k = z
    BY <1>1, <1>11, <2>1 DEF IInv, Exists
  <2>3. store'[z] # Absent /\ store'[z] = p
    BY <1>1, <2>1 DEF IInv, Exists
  <2>4. \A k \in Cidr : k \in RawPrefix /\ k.bits \in Int
    BY CidrIsRaw, RawParts
  <2>5. ASSUME NEW l \in Cidr, Exists(l), Overlaps(l, z), ~ (l.bits < z.bits)
        PROVE  FALSE
    <3>1. CASE l.bits = z.bits
      BY <1>1, <1>11, <2>5, <3>1, SameRangeSameKey
    <3>2. CASE l.bits # z.bits
      <4>1. z.bits < l.bits
        BY <1>1, <2>4, <2>5, <3>2
      <4>2. Overlaps(z, l)
        BY <2>5 DEF Overlaps
      <4>3. RangeOfPrefix(l) \subseteq RangeOfPrefix(z)
        BY <1>1, <2>4, <4>1, <4>2, OverlapIsNested
      <4>4. P.bits <= z.bits
        BY <1>1, <1>2, <1>7, <2>4, InsideHasMoreBits
      <4>5. P.bits < l.bits /\ Overlaps(P, l)
        BY <1>1, <1>2, <1>7, <2>4, <4>1, <4>2, <4>4, OverlapsInside
      <4>6. PICK u \in store[P].taken :
              Exists(Masked(u)) /\ RangeOfPrefix(l) \subseteq RangeOfPrefix(u)
        BY <1>2, <2>5, <4>5 DEF ForestInv, Nested
      <4>7. Overlaps(t, u)
        BY <1>6, <2>4, <4>3, <4>6, EndsInRange DEF Overlaps
      <4>8. u = t
        BY <1>5, <4>7
      <4> QED
        BY <1>3, <1>11, <4>6, <4>8
    <3> QED
      BY <3>1, <3>2
  <2>6. ASSUME NEW k \in Cidr, Exists(k), Overlaps(k, z), k.bits < z.bits
        PROVE  \E u \in store[k].taken :
                 Exists(Masked(u))' /\ RangeOfPrefix(z) \subseteq RangeOfPrefix(u)
    <3>1. Overlaps(k, P) /\ Overlaps(P, k)
      BY <1>1, <1>2, <1>7, <2>4, <2>6, OverlapsInside
    <3>2. CASE k = P
      BY <1>3, <1>6, <2>3, <3>2 DEF Exists
    <3>3. CASE k # P
      <4>1. k.bits # P.bits
        BY <1>2, <2>6, <3>1, <3>3, SameRangeSameKey
      <4>2. CASE k.bits < P.bits
        <5>1. PICK u \in store[k].taken :
                Exists(Masked(u)) /\ RangeOfPrefix(P) \subseteq RangeOfPrefix(u)
          BY <1>2, <2>6, <3>1, <4>2 DEF ForestInv, Nested
        <5>2. Masked(u) \in Cidr
          BY <2>6, MaskedIsCidr DEF IInv, Exists, GoodRecord, PrefixRecord
        <5> QED
          BY <1>7, <2>2, <5>1, <5>2
      <4>3. CASE P.bits < k.bits
        <5>1. PICK u \in store[P].taken :
                Exists(Masked(u)) /\ RangeOfPrefix(k) \subseteq RangeOfPrefix(u)
          BY <1>2, <2>6, <3>1, <4>3 DEF ForestInv, Nested
        <5>2. Overlaps(u, t)
          BY <1>6, <2>6, <5>1 DEF Overlaps
        <5>3. u = t
          BY <1>5, <5>2
        <5> QED
          BY <1>3, <1>11, <5>1, <5>3
      <4> QED
        BY <1>2, <2>4, <4>1, <4>2, <4>3
    <3> QED
      BY <3>2, <3>3
  <2>7. Nested'
    <3> SUFFICES ASSUME NEW k \in Cidr, NEW l \in Cidr,
                        Exists(k)', Exists(l)', Overlaps(k, l), k.bits < l.bits
                 PROVE  \E u \in store'[k].taken :
                          Exists(Masked(u))' /\ RangeOfPrefix(l) \subseteq RangeOfPrefix(u)
      BY DEF Nested
    <3>1. CASE Exists(k) /\ Exists(l)
      <4>1. PICK u \in store[k].taken :
              Exists(Masked(u)) /\ RangeOfPrefix(l) \subseteq RangeOfPrefix(u)
        BY <3>1 DEF ForestInv, Nested
      <4>2. Masked(u) \in Cidr
        BY <3>1, MaskedIsCidr DEF IInv, Exists, GoodRecord, PrefixRecord
      <4> QED
        BY <2>2, <3>1, <4>1, <4>2
    <3>2. CASE Exists(k) /\ ~ Exists(l)
      <4>1. l = z
        BY <2>2, <3>2
      <4> QED
        BY <2>2, <2>6, <3>2, <4>1
    <3>3. CASE ~ Exists(k)
      <4>1. k = z
        BY <2>2, <3>3
      <4>2. l # z /\ Exists(l)
        BY <1>1, <2>2, <2>4, <4>1
      <4>3. Overlaps(l, z)
        BY <4>1 DEF Overlaps
      <4>4. ~ (l.bits < z.bits)
        BY <1>1, <2>4, <4>1
      <4> QED
        BY <2>5, <4>2, <4>3, <4>4
    <3> QED
      BY <3>1, <3>2, <3>3
  <2>8. TopApart'
    <3>1. p.ParentCidr # None
      BY <1>2, CidrIsRaw, NoneAssumption
    <3> QED
      BY <2>2, <2>3, <3>1 DEF ForestInv, TopApart
  <2>9. ASSUME NEW d \in Callers PROVE NewInProgress(d)' /\ ChildInProgress(d)'
    <3>1. CASE d = c
      BY <1>8, <3>1, NoCreation DEF Idle
    <3>2. CASE d # c
      <4>1. call'[d] = call[d] /\ NewInProgress(d) /\ ChildInProgress(d)
        BY <1>8, <3>2 DEF ForestInv
      <4>2. ChildInProgress(d)'
        BY <2>2, <4>1 DEF ChildInProgress
      <4>3. NewInProgress(d)'
        <5> SUFFICES ASSUME call[d].pc = "NewPrefixCreate" PROVE NewInProgress(d)'
          BY <4>1 DEF NewInProgress
        <5> DEFINE y == call[d].cur.Cidr
        <5>1. y \in Cidr
          BY CallOK DEF GoodRecord, PrefixRecord
        <5>2. ~ Overlaps(P, y)
          BY <1>2, <4>1 DEF NewInProgress
        <5>3. ~ Overlaps(z, y)
          BY <1>1, <1>2, <1>7, <2>4, <5>1, <5>2, OverlapsInside
        <5> QED
          BY <1>9, <2>2, <4>1, <5>3 DEF NewInProgress
      <4> QED
        BY <4>2, <4>3
    <3> QED
      BY <3>1, <3>2
  <2> QED
    BY <2>7, <2>8, <2>9 DEF ForestInv
<1> QED
  BY <1>10, <1>11

-----------------------------------------------------------------------------
\* The steps that read keep the forest: at most a child is chosen.
LEMMA ForestReadSteps ==
    ASSUME IInv, LockInv, ForestInv, NEW c \in Callers, NEW r \in Requests, ReadStep(c, r)
    PROVE  ForestInv'
<1>1. r \in Request /\ r.cidr \in RawPrefix
  BY IpamAssumption DEF Request
<1>2. UNCHANGED <<store, mu>>
  BY DEF ReadStep, NewPrefixCall, DeletePrefixRead, AcquireChildRead, ReleaseChildCall,
         AcquireIPRead, ReleaseIPRead
<1>3. ASSUME Return(c) PROVE ForestInv'
  BY <1>2, <1>3, ReturnChanges, NoCreation, ForestPrivate DEF Idle
<1>4. ASSUME NEW pc \in {"NewPrefixLock", "DeletePrefixStore", "AcquireIPUpdate", "ReleaseIPUpdate"},
             NEW cur, NEW child, NEW ip, Proceed(c, pc, r, cur, child, ip)
      PROVE  ForestInv'
  BY <1>2, <1>4, ProceedChanges, NoCreation, ForestPrivate
<1>5. CASE NewPrefixCall(c, r)
  BY <1>4, <1>5 DEF NewPrefixCall
<1>6. CASE DeletePrefixRead(c, r)
  BY <1>3, <1>4, <1>6 DEF DeletePrefixRead
<1>7. CASE AcquireChildRead(c, r)
  <2> DEFINE p == PrefixFrom(r.cidr)
             children == IF p = Absent THEN {} ELSE AvailableChild(p, r.child, r.length)
  <2>1. CASE children = {}
    BY <1>3, <1>7, <2>1 DEF AcquireChildRead
  <2>2. CASE children # {}
    <3>1. PICK cp \in children :
            Proceed(c, "AcquireChildUpdate", r, WithChild(p, cp), newPrefix(cp, r.cidr), None)
      BY <1>7, <2>2 DEF AcquireChildRead
    <3>2. p # Absent
      BY <3>1
    <3>3. p \in GoodRecord /\ p.Cidr = Masked(r.cidr)
      BY <1>1, <3>2, PrefixFromOK
    <3>4. /\ call'[c].pc = "AcquireChildUpdate" /\ call'[c].cur = WithChild(p, cp)
          /\ call'[c].child = newPrefix(cp, r.cidr)
          /\ \A d \in Callers \ {c} : call'[d] = call[d]
      BY <3>1, ProceedChanges
    <3>5. WithChild(p, cp).Cidr = p.Cidr /\ cp \in WithChild(p, cp).taken
      BY <3>3 DEF WithChild, GoodRecord, PrefixRecord
    <3>6. newPrefix(cp, r.cidr).Cidr = Masked(cp) /\ newPrefix(cp, r.cidr).ParentCidr = Masked(r.cidr)
      BY <1>1, NoneAssumption DEF newPrefix
    <3>7. NewInProgress(c)' /\ ChildInProgress(c)'
      BY <3>3, <3>4, <3>5, <3>6 DEF NewInProgress, ChildInProgress, Marks
    <3> QED
      BY <1>2, <3>4, <3>7, ForestPrivate
  <2> QED
    BY <2>1, <2>2
<1>8. CASE ReleaseChildCall(c, r)
  <2>1. call'[c].pc = "ReleaseChildRead" /\ \A d \in Callers \ {c} : call'[d] = call[d]
    BY <1>8 DEF ReleaseChildCall, IInv, CallsOK, GoodCalls
  <2> QED
    BY <1>2, <2>1, NoCreation, ForestPrivate
<1>9. CASE AcquireIPRead(c, r)
  BY <1>3, <1>4, <1>9 DEF AcquireIPRead
<1>10. CASE ReleaseIPRead(c, r)
  BY <1>3, <1>4, <1>10 DEF ReleaseIPRead
<1> QED
  BY <1>5, <1>6, <1>7, <1>8, <1>9, <1>10 DEF ReadStep

(***************************************************************************)
(* NewPrefix looks for an overlap with the mutex in its hands: no other    *)
(* NewPrefix of the instance has looked and not yet created.               *)
(***************************************************************************)
LEMMA ForestNewRead ==
    ASSUME IInv, ForestInv, OneMutex, NEW c \in Callers, NewPrefixRead(c)
    PROVE  ForestInv'
<1> DEFINE r == call[c].req
           p == newPrefix(r.cidr, None)
<1>1. store' = store /\ mu[InstanceOf[c]] = Free
  BY DEF NewPrefixRead
<1>2. r \in Request /\ r.cidr \in RawPrefix
  BY CallOK DEF NewPrefixRead, Request
<1>3. CASE PrefixesOverlapping(ReadAllPrefixCidrs, r.cidr)
  <2>1. Return(c) /\ UNCHANGED mu
    BY <1>3 DEF NewPrefixRead
  <2> QED
    BY <1>1, <2>1, ReturnChanges, NoCreation, ForestPrivate DEF Idle
<1>4. CASE ~ PrefixesOverlapping(ReadAllPrefixCidrs, r.cidr)
  <2>1. /\ Proceed(c, "NewPrefixCreate", r, p, None, None)
        /\ mu' = [mu EXCEPT ![InstanceOf[c]] = c]
    BY <1>4 DEF NewPrefixRead
  <2>2. /\ call'[c].pc = "NewPrefixCreate" /\ call'[c].cur = p
        /\ \A d \in Callers \ {c} : call'[d] = call[d]
    BY <2>1, ProceedChanges
  <2>3. mu'[InstanceOf[c]] = c
    BY <2>1, IpamAssumption DEF IInv
  <2>4. \A k \in Cidr : Exists(k) => ~ Overlaps(k, p.Cidr)
    <3>1. p.Cidr = Masked(r.cidr)
      BY DEF newPrefix
    <3>2. RangeOfPrefix(p.Cidr) = RangeOfPrefix(r.cidr)
      BY <1>2, <3>1, MaskedRange
    <3> QED
      BY <1>4, <3>2 DEF PrefixesOverlapping, ReadAllPrefixCidrs, Exists, Overlaps
  <2>5. NewInProgress(c)' /\ ChildInProgress(c)'
    BY <1>1, <2>2, <2>3, <2>4 DEF NewInProgress, ChildInProgress, Exists
  <2>6. ASSUME NEW d \in Callers \ {c} PROVE NewInProgress(d)' /\ ChildInProgress(d)'
    <3>1. call'[d] = call[d] /\ NewInProgress(d) /\ ChildInProgress(d)
      BY <2>2 DEF ForestInv
    <3>2. call[d].pc # "NewPrefixCreate"
      BY <1>1, <3>1, AbsentAssumption DEF NewInProgress, OneMutex
    <3> QED
      BY <1>1, <3>1, <3>2 DEF NewInProgress, ChildInProgress, Exists
  <2>7. Nested' /\ TopApart'
    BY <1>1 DEF ForestInv, Nested, TopApart, Exists
  <2> QED
    BY <2>5, <2>6, <2>7 DEF ForestInv
<1> QED
  BY <1>3, <1>4

\* The steps that continue a call keep the forest.
LEMMA ForestOtherSteps ==
    ASSUME NoDeletes, OneMutex, IInv, LockInv, ForestInv, NEW c \in Callers, OtherStep(c)
    PROVE  ForestInv'
<1> DEFINE k == call[c]
           p == k.cur
<1>1. LockCall(c)
  BY DEF LockInv
<1>2. k.pc # "idle" => k.req \in Requests /\ k.req.op \notin ReleaseOps
  BY <1>1 DEF LockCall, NoDeletes, ReleaseOps
<1>3. CASE NewPrefixRead(c)
  BY <1>3, ForestNewRead
<1>4. CASE NewPrefixCreate(c)
  BY <1>4, ForestNew
<1>5. CASE DeletePrefixStore(c) \/ ReleaseChildUpdate(c) \/ ReleaseChildRead(c)
  BY <1>1, <1>2, <1>5 DEF DeletePrefixStore, ReleaseChildUpdate, ReleaseChildRead,
     ReleaseChildEntering, LockCall, ForbiddenPCs, ReleaseOps
<1>6. CASE AcquireChildCreate(c)
  BY <1>6, ForestChild
<1>7. CASE AcquireChildUpdate(c)
  <2>1. k.pc = "AcquireChildUpdate" /\ UpdateOutcome(p) = "ok" /\ UpdatePrefix(p)
        /\ mu' = mu /\ GoTo(c, "AcquireChildCreate")
    BY <1>7 DEF AcquireChildUpdate
  <2>2. call'[c].pc = "AcquireChildCreate" /\ call'[c].child = k.child
        /\ \A d \in Callers \ {c} : call'[d] = call[d]
    BY <2>1 DEF GoTo, IInv, CallsOK, GoodCalls
  <2>3. k.child.ParentCidr = p.Cidr /\ Marks(p, k.child)
    BY <2>1 DEF ForestInv, ChildInProgress
  <2>4. p \in GoodRecord /\ p.Cidr \in Cidr
    BY <2>1, CallOK DEF Updating, GoodRecord, PrefixRecord
  <2>5. /\ store'[p.Cidr] = [p EXCEPT !.version = @ + 1] /\ store'[p.Cidr] # Absent
        /\ store'[p.Cidr].taken = p.taken
    <3>1. store'[p.Cidr] = [p EXCEPT !.version = @ + 1]
      BY <2>1, <2>4 DEF UpdatePrefix, IInv
    <3>2. [p EXCEPT !.version = @ + 1].taken = p.taken
      BY <2>4 DEF GoodRecord, PrefixRecord
    <3> QED
      BY <2>4, <3>1, <3>2, NextVersionIsGood, NoneIsNoRecord
  <2>6. ChildInProgress(c)'
    BY <2>2, <2>3, <2>4, <2>5 DEF ChildInProgress, Marks, Exists
  <2> QED
    BY <2>1, <2>2, <2>6, ForestCommit DEF Updating
<1>8. CASE AcquireIPUpdate(c) \/ ReleaseIPUpdate(c)
  <2>1. k.pc \in Updating /\ UpdateOutcome(p) = "ok" /\ UpdatePrefix(p) /\ mu' = mu /\ Return(c)
    BY <1>8 DEF AcquireIPUpdate, ReleaseIPUpdate, Updating
  <2>2. call'[c] = Idle /\ \A d \in Callers \ {c} : call'[d] = call[d]
    BY <2>1, ReturnChanges
  <2>3. call'[c].pc # "NewPrefixCreate" /\ ChildInProgress(c)'
    BY <2>2, NoCreation DEF Idle
  <2> QED
    BY <2>1, <2>2, <2>3, ForestCommit
<1>9. CASE UpdateFails(c)
  <2>1. UNCHANGED <<store, mu>>
    BY <1>9 DEF UpdateFails
  <2>2. CASE Return(c)
    BY <2>1, <2>2, ReturnChanges, NoCreation, ForestPrivate DEF Idle
  <2>3. CASE call' = [call EXCEPT ![c].pc = "retry", ![c].cur = None, ![c].ip = None]
    <3>1. call'[c].pc = "retry" /\ \A d \in Callers \ {c} : call'[d] = call[d]
      BY <2>3 DEF IInv, CallsOK, GoodCalls
    <3> QED
      BY <2>1, <3>1, NoCreation, ForestPrivate
  <2> QED
    BY <1>9, <2>2, <2>3 DEF UpdateFails
<1> QED
  BY <1>3, <1>4, <1>5, <1>6, <1>7, <1>8, <1>9 DEF OtherStep

\* A crash drops the creations in progress together with the mutex.
LEMMA ForestCrash ==
    ASSUME IInv, ForestInv, NEW i \in Instances, Crash(i)
    PROVE  ForestInv'
<1>1. store' = store /\ mu' = [mu EXCEPT ![i] = Free]
  BY DEF Crash
<1>2. Nested' /\ TopApart'
  BY <1>1 DEF ForestInv, Nested, TopApart, Exists
<1>3. ASSUME NEW c \in Callers PROVE NewInProgress(c)' /\ ChildInProgress(c)'
  <2>1. CASE InstanceOf[c] = i
    BY <2>1, NoCreation DEF Crash, Idle
  <2>2. CASE InstanceOf[c] # i
    <3>1. call'[c] = call[c] /\ mu'[InstanceOf[c]] = mu[InstanceOf[c]]
      BY <1>1, <2>2, IpamAssumption DEF Crash, IInv
    <3> QED
      BY <1>1, <3>1 DEF ForestInv, NewInProgress, ChildInProgress, Exists
  <2> QED
    BY <2>1, <2>2
<1> QED
  BY <1>2, <1>3 DEF ForestInv

\* ForestInv is an invariant of one instance when no prefix is deleted.
LEMMA ForestInvariance == NoDeletes /\ OneMutex /\ Spec => []ForestInv
<1>1. NoDeletes /\ OneMutex /\ IInv /\ LockInv /\ ForestInv /\ [Next]_vars => ForestInv'
  <2> SUFFICES ASSUME NoDeletes, OneMutex, IInv, LockInv, ForestInv, [Next]_vars PROVE ForestInv'
    OBVIOUS
  <2>1. CASE UNCHANGED vars
    BY <2>1 DEF vars, ForestInv, Nested, TopApart, Exists, NewInProgress, ChildInProgress
  <2>2. ASSUME NEW c \in Callers, NEW r \in Requests, ReadStep(c, r) PROVE ForestInv'
    BY <2>2, ForestReadSteps
  <2>3. ASSUME NEW c \in Callers, OtherStep(c) PROVE ForestInv'
    BY <2>3, ForestOtherSteps
  <2>4. ASSUME NEW i \in Instances, Crash(i) PROVE ForestInv'
    BY <2>4, ForestCrash
  <2> QED
    BY <2>1, <2>2, <2>3, <2>4 DEF Next
<1> QED
  <2>1. CASE ~ (NoDeletes /\ OneMutex)
    BY <2>1
  <2>2. CASE NoDeletes /\ OneMutex
    BY <2>2, <1>1, ForestInit, Invariance, LockInvariance, PTL DEF Spec
  <2> QED
    BY <2>1, <2>2

(***************************************************************************)
(* The prefixes made by NewPrefix do not overlap, for any number of        *)
(* callers of one instance, next to calls that split prefixes and take     *)
(* addresses without the mutex, and through crashes.  With deletes it      *)
(* fails: a copy read before a delete can be written back over a child     *)
(* that was created in its place.                                          *)
\* A set of two.
LEMMA TwoElements ==
    ASSUME NEW x, NEW y, x # y
    PROVE  IsFiniteSet({x, y}) /\ Cardinality({x, y}) = 2
<1>1. IsFiniteSet({x}) /\ Cardinality({x}) = 1
  BY FS_Singleton
<1>2. y \notin {x}
  OBVIOUS
<1>3. IsFiniteSet({x} \cup {y}) /\ Cardinality({x} \cup {y}) = Cardinality({x}) + 1
  BY <1>1, <1>2, FS_AddElement
<1>4. {x, y} = {x} \cup {y}
  OBVIOUS
<1> QED
  BY <1>1, <1>3, <1>4

\* The same with a third one.
LEMMA ThreeElements ==
    ASSUME NEW x, NEW y, NEW z, x # y, x # z, y # z
    PROVE  Cardinality({x, y, z}) = 3
<1> DEFINE S == {x, y}
<1>1. IsFiniteSet(S) /\ Cardinality(S) = 2
  BY TwoElements
<1>2. z \notin S /\ {x, y, z} = S \cup {z}
  OBVIOUS
<1> HIDE DEF S
<1>3. Cardinality(S \cup {z}) = Cardinality(S) + 1
  BY <1>1, <1>2, FS_AddElement
<1> QED
  BY <1>1, <1>2, <1>3

(***************************************************************************)
THEOREM TopLevelApart == NoDeletes /\ OneMutex /\ Spec => []TopLevelDisjoint
<1>1. IInv /\ ForestInv => TopLevelDisjoint
  BY DEF IInv, OwnKeys, ForestInv, TopApart, Exists, TopLevelDisjoint, Stored, ReadAllPrefixCidrs
<1> QED
  <2>1. CASE ~ (NoDeletes /\ OneMutex)
    BY <2>1
  <2>2. CASE NoDeletes /\ OneMutex
    BY <2>2, <1>1, Invariance, ForestInvariance, PTL
  <2> QED
    BY <2>1, <2>2

-----------------------------------------------------------------------------
(***************************************************************************)
(* A prefix without addresses of its own has its blocked addresses and no  *)
(* other: hasIPs counts, and the blocked ones are what newPrefix counted   *)
(* on.  A prefix of one address has its network and its broadcast address  *)
(* in one, and that is its only address.                                   *)
(***************************************************************************)
LEMMA NoIPsButBlocked ==
    ASSUME NEW p \in GoodRecord, NoReleaseByText, ~ hasIPs(p)
    PROVE  p.ips \subseteq Blocked(p.Cidr)
<1> SUFFICES ASSUME NEW x \in p.ips, x \notin Blocked(p.Cidr) PROVE FALSE
  OBVIOUS
<1> DEFINE k == p.Cidr
<1>1. /\ IsFiniteSet(p.ips) /\ Blocked(k) \subseteq p.ips /\ x \in RangeOfPrefix(k)
      /\ k \in RawPrefix
  BY CidrIsRaw DEF GoodRecord, PrefixRecord
<1>2. Cardinality(p.ips) \in Nat
  BY <1>1, FS_CardinalityType
<1>3. CASE ~ Is4(k)
  <2>1. From(k) # x /\ {From(k), x} \subseteq p.ips
    BY <1>1 DEF Blocked
  <2>2. Cardinality({From(k), x}) = 2 /\ Cardinality({From(k), x}) <= Cardinality(p.ips)
    BY <1>1, <2>1, TwoElements, FS_Subset
  <2> QED
    BY <1>2, <1>3, <2>2 DEF hasIPs
<1>4. CASE Is4(k) /\ From(k) = To(k)
  <2>1. Masked(k).addr \in Nat /\ Size(k) \in Nat
    BY <1>1, MaskedParts, SizePositive
  <2>2. Size(k) = 1
    BY <1>4, <2>1 DEF From, To
  <2>3. PICK a \in Int : x = <<k.fam, a>> /\ Masked(k).addr <= a /\ a < Masked(k).addr + Size(k)
    BY <1>1, RangeMembers
  <2>4. x = From(k)
    BY <2>1, <2>2, <2>3 DEF From
  <2> QED
    BY <2>4 DEF Blocked
<1>5. CASE Is4(k) /\ From(k) # To(k)
  <2>1. From(k) # x /\ To(k) # x /\ {From(k), To(k), x} \subseteq p.ips
    BY <1>1, <1>5 DEF Blocked
  <2>2. Cardinality({From(k), To(k), x}) = 3
    BY <1>5, <2>1, ThreeElements
  <2>3. Cardinality({From(k), To(k), x}) <= Cardinality(p.ips)
    BY <1>1, <2>1, FS_Subset
  <2> QED
    BY <1>2, <1>5, <2>2, <2>3 DEF hasIPs
<1> QED
  BY <1>3, <1>4, <1>5

\* An address that a caller holds is in a stored prefix that is not split:
\* it is not one of the blocked ones, so hasIPs counts it.
LEMMA HeldInLeaf ==
    ASSUME NoReleaseByText, IInv, LockInv, NEW c \in Callers, NEW a \in held[c]
    PROVE  /\ a = [cidr |-> a.cidr, ip |-> a.ip] /\ a.cidr \in Cidr /\ Exists(a.cidr)
           /\ a.ip \in RangeOfPrefix(a.cidr)
           /\ store[a.cidr].taken = {} /\ ~ store[a.cidr].isParent
<1>1. a \in GoodHandle /\ HeldIsStored
  BY DEF IInv, LockInv
<1>2. a.cidr \in Cidr /\ a = [cidr |-> a.cidr, ip |-> a.ip] /\ a.ip \notin Blocked(a.cidr)
  BY <1>1 DEF GoodHandle, Handle
<1>3. Exists(a.cidr) /\ a.ip \in store[a.cidr].ips
  BY <1>1 DEF HeldIsStored, Exists
<1>4. store[a.cidr] \in GoodRecord /\ store[a.cidr].Cidr = a.cidr
  BY <1>2, <1>3 DEF IInv, Exists, OwnKeys
<1>5. a.ip \in RangeOfPrefix(a.cidr)
  BY <1>3, <1>4 DEF GoodRecord
<1>6. hasIPs(store[a.cidr])
  BY <1>2, <1>3, <1>4, NoIPsButBlocked
<1>7. store[a.cidr].taken = {} /\ ~ store[a.cidr].isParent
  BY <1>4, <1>6 DEF GoodRecord
<1> QED
  BY <1>2, <1>3, <1>5, <1>7

(***************************************************************************)
(* A prefix is split or has addresses out, never both, for any number of   *)
(* callers and instances, with retries and crashes, where nobody deletes   *)
(* a prefix or releases an address by its text: AcquireIP and              *)
(* AcquireChildPrefix exclude each other through the record alone.  The    *)
(* two hypotheses make the count of hasIPs tell what is out: a held        *)
(* address stays in the record, next to the blocked ones.                  *)
(***************************************************************************)
THEOREM SplitOrUsed == NoDeletes /\ NoReleaseByText /\ Spec => []ParentHasNoIPs
<1>1. NoReleaseByText /\ IInv /\ LockInv => ParentHasNoIPs
  BY HeldInLeaf DEF ParentHasNoIPs
<1> QED
  <2>1. CASE ~ (NoDeletes /\ NoReleaseByText)
    BY <2>1
  <2>2. CASE NoDeletes /\ NoReleaseByText
    BY <2>2, <1>1, Invariance, LockInvariance, PTL
  <2> QED
    BY <2>1, <2>2

(***************************************************************************)
(* No address is out twice, from whichever prefixes of the storage the     *)
(* callers took it: for any number of callers of one instance that make    *)
(* prefixes, split them at any depth, take and return addresses and crash. *)
(* Two prefixes that hold the address overlap, so one lies in a child of   *)
(* the other; the other is split then, and gives out no addresses.         *)
(***************************************************************************)
THEOREM NoAddressTwice ==
    NoDeletes /\ NoReleaseByText /\ OneMutex /\ Spec => []AddressesUnique
<1>1. NoReleaseByText /\ IInv /\ LockInv /\ ForestInv => AddressesUnique
  <2> SUFFICES ASSUME NoReleaseByText, IInv, LockInv, ForestInv,
                      NEW c \in Callers, NEW d \in Callers,
                      NEW a \in held[c], NEW b \in held[d], a.ip = b.ip
               PROVE  c = d /\ a = b
    BY DEF AddressesUnique
  <2>1. /\ a = [cidr |-> a.cidr, ip |-> a.ip] /\ a.cidr \in Cidr /\ Exists(a.cidr)
        /\ a.ip \in RangeOfPrefix(a.cidr) /\ store[a.cidr].taken = {}
    BY HeldInLeaf
  <2>2. /\ b = [cidr |-> b.cidr, ip |-> b.ip] /\ b.cidr \in Cidr /\ Exists(b.cidr)
        /\ b.ip \in RangeOfPrefix(b.cidr) /\ store[b.cidr].taken = {}
    BY HeldInLeaf
  <2>3. Overlaps(a.cidr, b.cidr) /\ Overlaps(b.cidr, a.cidr)
    BY <2>1, <2>2 DEF Overlaps
  <2>4. a.cidr.bits \in Int /\ b.cidr.bits \in Int
    BY <2>1, <2>2, CidrIsRaw, RawParts
  <2>5. ~ (a.cidr.bits < b.cidr.bits)
    BY <2>1, <2>2, <2>3 DEF ForestInv, Nested
  <2>6. ~ (b.cidr.bits < a.cidr.bits)
    BY <2>1, <2>2, <2>3 DEF ForestInv, Nested
  <2>7. a.cidr = b.cidr
    BY <2>1, <2>2, <2>3, <2>4, <2>5, <2>6, SameRangeSameKey
  <2>8. a = b
    BY <2>1, <2>2, <2>7
  <2> QED
    BY <2>8 DEF LockInv, GrantedOnce
<1> QED
  <2>1. CASE ~ (NoDeletes /\ NoReleaseByText /\ OneMutex)
    BY <2>1
  <2>2. CASE NoDeletes /\ NoReleaseByText /\ OneMutex
    BY <2>2, <1>1, Invariance, LockInvariance, ForestInvariance, PTL
  <2> QED
    BY <2>1, <2>2

=============================================================================
