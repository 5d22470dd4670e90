--------------------------- MODULE IpamLockProofs ---------------------------
(***************************************************************************)
(* Optimistic locking keeps the addresses apart: theorems about Ipam for   *)
(* callers that do not delete prefixes, any number of them on any number   *)
(* of instances, with crashes.                                             *)
(***************************************************************************)
EXTENDS IpamProofs

(***************************************************************************)
(* The inductive invariant, next to IInv.  A call that is about to write   *)
(* has read a record that is still stored, at this version or at an        *)
(* earlier one; if at this one, what it will write is the stored record    *)
(* with the one change the call is for.  A call that releases an address   *)
(* holds it.                                                               *)
(***************************************************************************)
ForbiddenPCs == {"ReleaseChildRead", "ReleaseChildUpdate", "DeletePrefixRead", "DeletePrefixStore"}

Intended(k, q) ==
    \/ k.pc = "AcquireIPUpdate" /\ k.ip \notin q.ips /\ k.cur = WithIP(q, k.ip)
    \/ k.pc = "ReleaseIPUpdate" /\ k.cur = WithoutIP(q, k.ip)
    \/ k.pc = "AcquireChildUpdate" /\ \E cp \in RawPrefix : k.cur = WithChild(q, cp)

CopyOK(k) ==
    k.pc \in Updating =>
        LET q == store[k.cur.Cidr]
        IN  /\ q # Absent
            /\ k.cur.version <= q.version
            /\ k.cur.version = q.version => Intended(k, q)

LockCall(c) ==
    /\ call[c].pc \notin ForbiddenPCs
    /\ call[c].pc # "idle" => call[c].req \in Requests
    /\ CopyOK(call[c])
    /\ (call[c].pc = "ReleaseIPUpdate" /\ NoReleaseByText) =>
           [cidr |-> call[c].cur.Cidr, ip |-> call[c].ip] \in held[c]

LockInv ==
    /\ \A c \in Callers : LockCall(c)
    /\ NoReleaseByText => HeldIsStored /\ GrantedOnce

-----------------------------------------------------------------------------
\* With nothing stored and nothing held the invariant is true.
LEMMA LockInit == Init => LockInv
  BY DEF Init, LockInv, LockCall, CopyOK, HeldIsStored, GrantedOnce, Idle, Updating,
         ForbiddenPCs

\* An idle caller and one that will begin its call once more owe nothing.
LEMMA QuietCall ==
    ASSUME NEW c \in Callers,
           call'[c] = Idle \/ (call'[c].pc \in {"retry", "NewPrefixLock", "NewPrefixCreate",
                                               "AcquireChildCreate"} /\ call'[c].req \in Requests)
    PROVE  LockCall(c)'
  BY DEF LockCall, CopyOK, Idle, Updating, ForbiddenPCs

\* A return changes the call of its caller only.
LEMMA ReturnChanges ==
    ASSUME IInv, NEW c \in Callers, Return(c)
    PROVE  call'[c] = Idle /\ \A d \in Callers \ {c} : call'[d] = call[d]
  BY DEF IInv, CallsOK, Return

\* Going on with a call changes the call of its caller only.
LEMMA ProceedChanges ==
    ASSUME IInv, NEW c \in Callers, NEW pc, NEW r, NEW cur, NEW child, NEW ip,
           Proceed(c, pc, r, cur, child, ip)
    PROVE  /\ call'[c].pc = pc /\ call'[c].req = r /\ call'[c].cur = cur
           /\ call'[c].child = child /\ call'[c].ip = ip
           /\ \A d \in Callers \ {c} : call'[d] = call[d]
  BY DEF IInv, CallsOK, Proceed

(***************************************************************************)
(* A step of c that leaves the storage and the held addresses alone.       *)
(***************************************************************************)
LEMMA PrivateStep ==
    ASSUME LockInv, NEW c \in Callers,
           UNCHANGED <<store, held>>,
           \A d \in Callers \ {c} : call'[d] = call[d],
           LockCall(c)'
    PROVE  LockInv'
<1>1. ASSUME NEW d \in Callers PROVE LockCall(d)'
  <2>1. CASE d = c
    BY <2>1
  <2>2. CASE d # c
    BY <2>2 DEF LockInv, LockCall, CopyOK
  <2> QED
    BY <2>1, <2>2
<1>2. NoReleaseByText => HeldIsStored' /\ GrantedOnce'
  BY DEF LockInv, HeldIsStored, GrantedOnce
<1> QED
  BY <1>1, <1>2 DEF LockInv

(***************************************************************************)
(* A step of c that creates a record, or finds that there is one.          *)
(***************************************************************************)
LEMMA CreateStep ==
    ASSUME IInv, LockInv, NEW c \in Callers, NEW p \in GoodRecord,
           CreatePrefix(p), UNCHANGED held,
           \A d \in Callers \ {c} : call'[d] = call[d],
           call'[c] = Idle
    PROVE  LockInv'
<1>1. p.Cidr \in Cidr /\ p # Absent
  BY NoneIsNoRecord DEF GoodRecord, PrefixRecord
<1>2. \A k \in Cidr : store[k] # Absent => store'[k] = store[k]
  BY <1>1 DEF CreatePrefix, IInv
<1>3. \A k \in Cidr : store'[k] = store[k] \/ (k = p.Cidr /\ store'[k] = p)
  BY <1>1 DEF CreatePrefix, IInv
<1>4. ASSUME NEW d \in Callers PROVE LockCall(d)'
  <2>1. CASE d = c
    BY <2>1, QuietCall
  <2>2. CASE d # c
    <3>1. call'[d] = call[d]
      BY <2>2
    <3>2. call[d].pc \in Updating => call[d].cur.Cidr \in Cidr
      BY CallOK DEF GoodRecord, PrefixRecord
    <3> QED
      BY <1>2, <3>1, <3>2 DEF LockInv, LockCall, CopyOK
  <2> QED
    BY <2>1, <2>2
<1>5. NoReleaseByText => HeldIsStored'
  BY <1>2 DEF LockInv, HeldIsStored, IInv, GoodHandle, Handle
<1>6. NoReleaseByText => GrantedOnce'
  BY DEF LockInv, GrantedOnce
<1> QED
  BY <1>4, <1>5, <1>6 DEF LockInv

(***************************************************************************)
(* A step of c that commits: every other caller that read the record now   *)
(* has an old version.                                                     *)
(***************************************************************************)
LEMMA CommitStep ==
    ASSUME IInv, LockInv, NEW c \in Callers, call[c].pc \in Updating,
           UpdateOutcome(call[c].cur) = "ok", UpdatePrefix(call[c].cur),
           \A d \in Callers \ {c} : call'[d] = call[d] /\ held'[d] = held[d]
    PROVE  /\ Intended(call[c], store[call[c].cur.Cidr])
           /\ store[call[c].cur.Cidr] \in GoodRecord
           /\ store' = [store EXCEPT ![call[c].cur.Cidr] = [call[c].cur EXCEPT !.version = @ + 1]]
           /\ call[c].cur.Cidr \in Cidr
           /\ \A d \in Callers \ {c} : LockCall(d)'
<1> DEFINE p == call[c].cur
           q == store[p.Cidr]
<1>1. p \in GoodRecord /\ p.Cidr \in Cidr /\ p.version \in Nat
  BY CallOK DEF GoodRecord, PrefixRecord
<1>2. q # Absent /\ q.version = p.version
  BY IpamAssumption DEF UpdateOutcome
<1>3. q \in GoodRecord
  BY <1>1, <1>2 DEF IInv
<1>4. Intended(call[c], q)
  BY <1>2 DEF LockInv, LockCall, CopyOK
<1>5. store' = [store EXCEPT ![p.Cidr] = [p EXCEPT !.version = @ + 1]]
  BY DEF UpdatePrefix
<1>6. [p EXCEPT !.version = @ + 1].Cidr = p.Cidr /\ [p EXCEPT !.version = @ + 1].version = p.version + 1
  BY <1>1 DEF GoodRecord, PrefixRecord
<1>7. [p EXCEPT !.version = @ + 1] # Absent
  BY <1>1, NextVersionIsGood, NoneIsNoRecord
<1>8. ASSUME NEW d \in Callers \ {c} PROVE LockCall(d)'
  <2>1. call'[d] = call[d] /\ held'[d] = held[d] /\ LockCall(d)
    BY DEF LockInv
  <2>2. CopyOK(call[d])'
    <3> SUFFICES ASSUME call[d].pc \in Updating PROVE CopyOK(call[d])'
      BY <2>1 DEF CopyOK
    <3>1. call[d].cur \in GoodRecord /\ call[d].cur.Cidr \in Cidr /\ call[d].cur.version \in Nat
      BY CallOK DEF GoodRecord, PrefixRecord
    <3>2. CASE call[d].cur.Cidr # p.Cidr
      <4>1. store'[call[d].cur.Cidr] = store[call[d].cur.Cidr]
        BY <1>1, <1>5, <3>1, <3>2 DEF IInv
      <4> QED
        BY <2>1, <4>1 DEF LockCall, CopyOK
    <3>3. CASE call[d].cur.Cidr = p.Cidr
      <4>1. store'[p.Cidr].version = p.version + 1 /\ store'[p.Cidr] # Absent
        BY <1>1, <1>5, <1>6, <1>7 DEF IInv
      <4>2. call[d].cur.version <= p.version
        BY <1>2, <2>1, <3>3 DEF LockCall, CopyOK
      <4> QED
        BY <1>1, <2>1, <3>1, <3>3, <4>1, <4>2 DEF CopyOK
    <3> QED
      BY <3>2, <3>3
  <2> QED
    BY <2>1, <2>2 DEF LockCall, CopyOK
<1> QED
  BY <1>1, <1>3, <1>4, <1>5, <1>8

\* A copy of a stored record with one change is what a call means to write.
LEMMA FreshCopy ==
    ASSUME IInv, LockInv, NEW cidr \in RawPrefix, PrefixFrom(cidr) # Absent
    PROVE  LET p == PrefixFrom(cidr)
           IN  /\ p \in GoodRecord /\ p.version \in Nat
               /\ p.Cidr = Masked(cidr) /\ store[p.Cidr] = p
               /\ \A x : /\ WithIP(p, x).Cidr = p.Cidr /\ WithIP(p, x).version = p.version
                         /\ WithoutIP(p, x).Cidr = p.Cidr /\ WithoutIP(p, x).version = p.version
                         /\ WithChild(p, x).Cidr = p.Cidr /\ WithChild(p, x).version = p.version
<1> DEFINE p == PrefixFrom(cidr)
<1>1. p \in GoodRecord
  BY PrefixFromOK
<1>2. p.Cidr = Masked(cidr) /\ store[p.Cidr] = p
  BY MaskedIsCidr DEF PrefixFrom, IInv, OwnKeys
<1>3. p \in PrefixRecord
  BY <1>1 DEF GoodRecord
<1> HIDE DEF p
<1>4. \A x : /\ WithIP(p, x).Cidr = p.Cidr /\ WithIP(p, x).version = p.version
             /\ WithoutIP(p, x).Cidr = p.Cidr /\ WithoutIP(p, x).version = p.version
             /\ WithChild(p, x).Cidr = p.Cidr /\ WithChild(p, x).version = p.version
  BY <1>3 DEF PrefixRecord, WithIP, WithoutIP, WithChild
<1>5. p.version \in Nat
  BY <1>3 DEF PrefixRecord
<1> QED
  BY <1>1, <1>2, <1>4, <1>5 DEF p

\* The steps that read keep the invariant: what they copy is fresh.
LEMMA LockReadSteps ==
    ASSUME NoDeletes, IInv, LockInv, NEW c \in Callers, NEW r \in Requests, ReadStep(c, r)
    PROVE  LockInv'
<1>1. r.op \in {"NewPrefix", "AcquireChildPrefix", "AcquireIP", "ReleaseIP", "ReleaseIPFromPrefix"}
  BY IpamAssumption DEF NoDeletes, Request, Ops
<1>2. r \in Request /\ r.cidr \in RawPrefix
  BY IpamAssumption DEF Request
<1> DEFINE p == PrefixFrom(r.cidr)
<1>3. CASE NewPrefixCall(c, r)
  <2>1. Proceed(c, "NewPrefixLock", r, None, None, None)
    BY <1>3 DEF NewPrefixCall
  <2>2. LockCall(c)' /\ \A d \in Callers \ {c} : call'[d] = call[d]
    BY <2>1, ProceedChanges, QuietCall
  <2> QED
    BY <1>3, <2>2, PrivateStep DEF NewPrefixCall
<1>4. CASE DeletePrefixRead(c, r)
  BY <1>1, <1>4 DEF DeletePrefixRead, DeletePrefixEntering, LockInv, LockCall, ForbiddenPCs
<1>5. CASE AcquireChildRead(c, r)
  <2> DEFINE children == IF p = Absent THEN {} ELSE AvailableChild(p, r.child, r.length)
  <2>1. CASE children = {}
    <3>1. Return(c)
      BY <1>5, <2>1 DEF AcquireChildRead
    <3> QED
      BY <1>5, <3>1, ReturnChanges, QuietCall, PrivateStep DEF AcquireChildRead
  <2>2. CASE children # {}
    <3>1. PICK cp \in children :
            Proceed(c, "AcquireChildUpdate", r, WithChild(p, cp), newPrefix(cp, r.cidr), None)
      BY <1>5, <2>2 DEF AcquireChildRead
    <3>2. p # Absent /\ cp \in AvailableChild(p, r.child, r.length)
      BY <3>1
    <3>3. p \in GoodRecord
      BY <1>2, <3>2, PrefixFromOK
    <3>4. cp \in RawPrefix
      BY <1>2, <3>2, <3>3, AvailableChildOK DEF GoodRecord
    <3>5. /\ call'[c].pc = "AcquireChildUpdate" /\ call'[c].req = r
          /\ call'[c].cur = WithChild(p, cp)
          /\ \A d \in Callers \ {c} : call'[d] = call[d]
      BY <3>1, ProceedChanges
    <3>6. store' = store
      BY <1>5 DEF AcquireChildRead
    <3>7. call'[c].cur.Cidr = p.Cidr /\ store[p.Cidr] = p /\ call'[c].cur.version = p.version
          /\ p.version \in Nat
      BY <1>2, <3>2, <3>5, FreshCopy
    <3>8. Intended(call'[c], p)
      BY <3>4, <3>5 DEF Intended
    <3>9. CopyOK(call[c])'
      BY <3>2, <3>6, <3>7, <3>8 DEF CopyOK, Intended
    <3>10. LockCall(c)'
      BY <3>5, <3>9 DEF LockCall, ForbiddenPCs
    <3> QED
      BY <1>5, <3>5, <3>10, PrivateStep DEF AcquireChildRead
  <2> QED
    BY <2>1, <2>2
<1>6. CASE ReleaseChildCall(c, r)
  BY <1>1, <1>6 DEF ReleaseChildCall, ChildArgument
<1>7. CASE AcquireIPRead(c, r)
  <2> DEFINE ips == IF p = Absent THEN {} ELSE AvailableIP(p, r.ip)
  <2>1. CASE ips = {}
    <3>1. Return(c)
      BY <1>7, <2>1 DEF AcquireIPRead
    <3> QED
      BY <1>7, <3>1, ReturnChanges, QuietCall, PrivateStep DEF AcquireIPRead
  <2>2. CASE ips # {}
    <3>1. PICK ip \in ips : Proceed(c, "AcquireIPUpdate", r, WithIP(p, ip), None, ip)
      BY <1>7, <2>2 DEF AcquireIPRead
    <3>2. p # Absent /\ ip \in AvailableIP(p, r.ip)
      BY <3>1
    <3>3. p \in GoodRecord
      BY <1>2, <3>2, PrefixFromOK
    <3>4. ip \notin p.ips
      BY <3>2, <3>3, AvailableIPOK DEF GoodRecord
    <3>5. /\ call'[c].pc = "AcquireIPUpdate" /\ call'[c].req = r
          /\ call'[c].cur = WithIP(p, ip) /\ call'[c].ip = ip
          /\ \A d \in Callers \ {c} : call'[d] = call[d]
      BY <3>1, ProceedChanges
    <3>6. store' = store
      BY <1>7 DEF AcquireIPRead
    <3>7. call'[c].cur.Cidr = p.Cidr /\ store[p.Cidr] = p /\ call'[c].cur.version = p.version
          /\ p.version \in Nat
      BY <1>2, <3>2, <3>5, FreshCopy
    <3>8. Intended(call'[c], p)
      BY <3>4, <3>5 DEF Intended
    <3>9. CopyOK(call[c])'
      BY <3>2, <3>6, <3>7, <3>8 DEF CopyOK, Intended
    <3>10. LockCall(c)'
      BY <3>5, <3>9 DEF LockCall, ForbiddenPCs
    <3> QED
      BY <1>7, <3>5, <3>10, PrivateStep DEF AcquireIPRead
  <2> QED
    BY <2>1, <2>2
<1>8. CASE ReleaseIPRead(c, r)
  <2>1. CASE p = Absent \/ r.ip \notin p.ips
    <3>1. Return(c)
      BY <1>8, <2>1 DEF ReleaseIPRead
    <3> QED
      BY <1>8, <3>1, ReturnChanges, QuietCall, PrivateStep DEF ReleaseIPRead
  <2>2. CASE ~ (p = Absent \/ r.ip \notin p.ips)
    <3>1. Proceed(c, "ReleaseIPUpdate", r, WithoutIP(p, r.ip), None, r.ip)
      BY <1>8, <2>2 DEF ReleaseIPRead
    <3>2. NoReleaseByText => [cidr |-> Masked(r.cidr), ip |-> r.ip] \in held[c]
      BY <1>8 DEF ReleaseIPRead, NoReleaseByText
    <3>3. /\ call'[c].pc = "ReleaseIPUpdate" /\ call'[c].req = r
          /\ call'[c].cur = WithoutIP(p, r.ip) /\ call'[c].ip = r.ip
          /\ \A d \in Callers \ {c} : call'[d] = call[d]
      BY <3>1, ProceedChanges
    <3>4. store' = store /\ held' = held
      BY <1>8 DEF ReleaseIPRead
    <3>5. /\ call'[c].cur.Cidr = p.Cidr /\ store[p.Cidr] = p /\ p.Cidr = Masked(r.cidr)
          /\ call'[c].cur.version = p.version /\ p.version \in Nat
      BY <1>2, <2>2, <3>3, FreshCopy
    <3>6. Intended(call'[c], p)
      BY <3>3 DEF Intended
    <3>7. CopyOK(call[c])'
      BY <2>2, <3>4, <3>5, <3>6 DEF CopyOK, Intended
    <3>8. LockCall(c)'
      BY <3>2, <3>3, <3>4, <3>5, <3>7 DEF LockCall, ForbiddenPCs
    <3> QED
      BY <1>8, <3>3, <3>8, PrivateStep DEF ReleaseIPRead
  <2> QED
    BY <2>1, <2>2
<1> QED
  BY <1>3, <1>4, <1>5, <1>6, <1>7, <1>8 DEF ReadStep

\* The steps that continue a call keep the invariant: only a copy whose
\* version is still the stored one is written.
LEMMA LockOtherSteps ==
    ASSUME NoDeletes, IInv, LockInv, NEW c \in Callers, OtherStep(c)
    PROVE  LockInv'
<1> DEFINE k == call[c]
           p == k.cur
           q == store[p.Cidr]
           h == [cidr |-> p.Cidr, ip |-> k.ip]
<1>1. LockCall(c)
  BY DEF LockInv
<1>2. k.pc # "idle" => k.req \in Requests /\ k.req.op \notin ReleaseOps
  BY <1>1 DEF LockCall, NoDeletes, ReleaseOps
<1>3. CASE NewPrefixRead(c)
  <2>1. k.req \in Requests
    BY <1>2, <1>3 DEF NewPrefixRead
  <2>2. \/ Return(c)
        \/ Proceed(c, "NewPrefixCreate", k.req, newPrefix(k.req.cidr, None), None, None)
    BY <1>3 DEF NewPrefixRead
  <2>3. LockCall(c)' /\ \A d \in Callers \ {c} : call'[d] = call[d]
    BY <2>1, <2>2, ReturnChanges, ProceedChanges, QuietCall
  <2> QED
    BY <1>3, <2>3, PrivateStep DEF NewPrefixRead
<1>4. CASE NewPrefixCreate(c)
  BY <1>4, CallOK, ReturnChanges, CreateStep DEF NewPrefixCreate
<1>5. CASE DeletePrefixStore(c) \/ ReleaseChildUpdate(c) \/ ReleaseChildRead(c)
  BY <1>1, <1>2, <1>5 DEF DeletePrefixStore, ReleaseChildUpdate, ReleaseChildRead,
     ReleaseChildEntering, LockCall, ForbiddenPCs, ReleaseOps
<1>6. CASE AcquireChildCreate(c)
  BY <1>6, CallOK, ReturnChanges, CreateStep DEF AcquireChildCreate
<1>7. CASE AcquireChildUpdate(c)
  <2>1. k.pc = "AcquireChildUpdate" /\ UpdateOutcome(p) = "ok" /\ UpdatePrefix(p)
        /\ held' = held /\ GoTo(c, "AcquireChildCreate")
    BY <1>7 DEF AcquireChildUpdate
  <2>2. call'[c].pc = "AcquireChildCreate" /\ call'[c].req = k.req
        /\ \A d \in Callers \ {c} : call'[d] = call[d]
    BY <2>1 DEF GoTo, IInv, CallsOK, GoodCalls
  <2>3. /\ Intended(k, q) /\ q \in GoodRecord /\ p.Cidr \in Cidr
        /\ store' = [store EXCEPT ![p.Cidr] = [p EXCEPT !.version = @ + 1]]
        /\ \A d \in Callers \ {c} : LockCall(d)'
    BY <2>1, <2>2, CommitStep DEF Updating
  <2>4. LockCall(c)'
    BY <1>2, <2>1, <2>2, QuietCall
  <2>5. PICK cp : p = WithChild(q, cp)
    BY <2>1, <2>3 DEF Intended
  <2>6. [p EXCEPT !.version = @ + 1].ips = q.ips
    BY <2>3, <2>5 DEF WithChild, GoodRecord, PrefixRecord
  <2>7. [p EXCEPT !.version = @ + 1] # Absent
    BY <2>1, CallOK, NextVersionIsGood, NoneIsNoRecord DEF Updating
  <2>8. NoReleaseByText => HeldIsStored'
    BY <2>1, <2>3, <2>6, <2>7 DEF LockInv, HeldIsStored, IInv, GoodHandle, Handle
  <2>9. NoReleaseByText => GrantedOnce'
    BY <2>1 DEF LockInv, GrantedOnce
  <2> QED
    BY <2>3, <2>4, <2>8, <2>9 DEF LockInv
<1>8. CASE AcquireIPUpdate(c)
  <2>1. k.pc = "AcquireIPUpdate" /\ UpdateOutcome(p) = "ok" /\ UpdatePrefix(p)
        /\ held' = [held EXCEPT ![c] = @ \cup {h}] /\ Return(c)
    BY <1>8 DEF AcquireIPUpdate
  <2>2. call'[c] = Idle /\ \A d \in Callers \ {c} : call'[d] = call[d] /\ held'[d] = held[d]
    BY <2>1, ReturnChanges DEF IInv
  <2>3. /\ Intended(k, q) /\ q \in GoodRecord /\ p.Cidr \in Cidr
        /\ store' = [store EXCEPT ![p.Cidr] = [p EXCEPT !.version = @ + 1]]
        /\ \A d \in Callers \ {c} : LockCall(d)'
    BY <2>1, <2>2, CommitStep DEF Updating
  <2>4. LockCall(c)'
    BY <2>2, QuietCall
  <2>5. k.ip \notin q.ips /\ p = WithIP(q, k.ip)
    BY <2>1, <2>3 DEF Intended
  <2>6. [p EXCEPT !.version = @ + 1].ips = q.ips \cup {k.ip}
    BY <2>3, <2>5 DEF WithIP, GoodRecord, PrefixRecord
  <2>7. [p EXCEPT !.version = @ + 1] # Absent
    BY <2>1, CallOK, NextVersionIsGood, NoneIsNoRecord DEF Updating
  <2>8. \A x \in Cidr : x # p.Cidr => store'[x] = store[x]
    BY <2>3 DEF IInv
  <2>9. store'[p.Cidr] # Absent /\ store'[p.Cidr].ips = q.ips \cup {k.ip}
    BY <2>3, <2>6, <2>7 DEF IInv
  <2>10. \A d \in Callers : \A a \in held'[d] : a \in held[d] \/ a = h
    BY <2>1, <2>2 DEF IInv
  <2>11. \A d \in Callers : \A a \in held[d] : a.cidr \in Cidr
    BY DEF IInv, GoodHandle, Handle
  <2>12. NoReleaseByText => HeldIsStored'
    BY <2>8, <2>9, <2>10, <2>11 DEF LockInv, HeldIsStored
  <2>13. NoReleaseByText => \A d \in Callers : h \notin held[d]
    BY <2>5 DEF LockInv, HeldIsStored
  <2>14. NoReleaseByText => GrantedOnce'
    BY <2>1, <2>2, <2>13 DEF LockInv, GrantedOnce, IInv
  <2> QED
    BY <2>3, <2>4, <2>12, <2>14 DEF LockInv
<1>9. CASE ReleaseIPUpdate(c)
  <2>1. k.pc = "ReleaseIPUpdate" /\ UpdateOutcome(p) = "ok" /\ UpdatePrefix(p)
        /\ held' = [held EXCEPT ![c] = @ \ {h}] /\ Return(c)
    BY <1>9 DEF ReleaseIPUpdate
  <2>2. call'[c] = Idle /\ \A d \in Callers \ {c} : call'[d] = call[d] /\ held'[d] = held[d]
    BY <2>1, ReturnChanges DEF IInv
  <2>3. /\ Intended(k, q) /\ q \in GoodRecord /\ p.Cidr \in Cidr
        /\ store' = [store EXCEPT ![p.Cidr] = [p EXCEPT !.version = @ + 1]]
        /\ \A d \in Callers \ {c} : LockCall(d)'
    BY <2>1, <2>2, CommitStep DEF Updating
  <2>4. LockCall(c)'
    BY <2>2, QuietCall
  <2>5. p = WithoutIP(q, k.ip)
    BY <2>1, <2>3 DEF Intended
  <2>6. [p EXCEPT !.version = @ + 1].ips = q.ips \ {k.ip}
    BY <2>3, <2>5 DEF WithoutIP, GoodRecord, PrefixRecord
  <2>7. [p EXCEPT !.version = @ + 1] # Absent
    BY <2>1, CallOK, NextVersionIsGood, NoneIsNoRecord DEF Updating
  <2>8. \A x \in Cidr : x # p.Cidr => store'[x] = store[x]
    BY <2>3 DEF IInv
  <2>9. store'[p.Cidr] # Absent /\ store'[p.Cidr].ips = q.ips \ {k.ip}
    BY <2>3, <2>6, <2>7 DEF IInv
  <2>10. NoReleaseByText => h \in held[c]
    BY <1>1, <2>1 DEF LockCall
  <2>11. NoReleaseByText => \A d \in Callers : \A a \in held'[d] : a \in held[d] /\ a # h
    BY <2>1, <2>2, <2>10 DEF LockInv, GrantedOnce, IInv
  <2>12. \A d \in Callers : \A a \in held[d] :
            a.cidr \in Cidr /\ (a.cidr = p.Cidr /\ a.ip = k.ip => a = h)
    BY DEF IInv, GoodHandle, Handle
  <2>13. NoReleaseByText => HeldIsStored'
    BY <2>8, <2>9, <2>11, <2>12 DEF LockInv, HeldIsStored
  <2>14. NoReleaseByText => GrantedOnce'
    BY <2>11 DEF LockInv, GrantedOnce
  <2> QED
    BY <2>3, <2>4, <2>13, <2>14 DEF LockInv
<1>10. CASE UpdateFails(c)
  <2>1. k.pc # "idle" /\ UNCHANGED <<store, held>>
    BY <1>10 DEF UpdateFails, Updating
  <2>2. CASE Return(c)
    BY <2>1, <2>2, ReturnChanges, QuietCall, PrivateStep
  <2>3. CASE call' = [call EXCEPT ![c].pc = "retry", ![c].cur = None, ![c].ip = None]
    <3>1. call'[c].pc = "retry" /\ call'[c].req = k.req
          /\ \A d \in Callers \ {c} : call'[d] = call[d]
      BY <2>3 DEF IInv, CallsOK, GoodCalls
    <3> QED
      BY <1>2, <2>1, <3>1, QuietCall, PrivateStep
  <2> QED
    BY <1>10, <2>2, <2>3 DEF UpdateFails
<1> QED
  BY <1>3, <1>4, <1>5, <1>6, <1>7, <1>8, <1>9, <1>10 DEF OtherStep

\* A crash drops copies and keeps the invariant.
LEMMA LockCrash ==
    ASSUME IInv, LockInv, NEW i \in Instances, Crash(i)
    PROVE  LockInv'
<1>1. ASSUME NEW c \in Callers PROVE LockCall(c)'
  <2>1. call'[c] = Idle \/ call'[c] = call[c]
    BY DEF Crash
  <2>2. store' = store /\ held' = held
    BY DEF Crash
  <2>3. CASE call'[c] = Idle
    BY <2>3, QuietCall
  <2>4. CASE call'[c] = call[c]
    BY <2>2, <2>4 DEF LockInv, LockCall, CopyOK
  <2> QED
    BY <2>1, <2>3, <2>4
<1> QED
  BY <1>1 DEF Crash, LockInv, HeldIsStored, GrantedOnce

\* LockInv is an invariant when no prefix is deleted.
LEMMA LockInvariance == NoDeletes /\ Spec => []LockInv
<1>1. NoDeletes /\ IInv /\ LockInv /\ [Next]_vars => LockInv'
  <2> SUFFICES ASSUME NoDeletes, IInv, LockInv, [Next]_vars PROVE LockInv'
    OBVIOUS
  <2>1. CASE UNCHANGED vars
    BY <2>1 DEF vars, LockInv, LockCall, CopyOK, HeldIsStored, GrantedOnce
  <2>2. ASSUME NEW c \in Callers, NEW r \in Requests, ReadStep(c, r) PROVE LockInv'
    BY <2>2, LockReadSteps
  <2>3. ASSUME NEW c \in Callers, OtherStep(c) PROVE LockInv'
    BY <2>3, LockOtherSteps
  <2>4. ASSUME NEW i \in Instances, Crash(i) PROVE LockInv'
    BY <2>4, LockCrash
  <2> QED
    BY <2>1, <2>2, <2>3, <2>4 DEF Next
<1> QED
  <2>1. CASE ~ NoDeletes
    BY <2>1
  <2>2. CASE NoDeletes
    BY <2>2, <1>1, LockInit, Invariance, PTL DEF Spec
  <2> QED
    BY <2>1, <2>2

(***************************************************************************)
(* While nobody deletes prefixes or releases an address by its text, an    *)
(* address that AcquireIP returned stays in the record of its prefix until *)
(* its holder releases it, and no other caller gets it from that prefix:   *)
(* for any number of callers, instances and retries, comparing the version *)
(* in UpdatePrefix is enough.                                              *)
(***************************************************************************)
THEOREM AddressesKept == NoDeletes /\ NoReleaseByText /\ Spec => [](HeldIsStored /\ GrantedOnce)
<1>1. NoReleaseByText /\ LockInv => HeldIsStored /\ GrantedOnce
  BY DEF LockInv
<1>2. CASE ~ NoReleaseByText
  BY <1>2
<1>3. CASE NoReleaseByText
  BY <1>3, LockInvariance, <1>1, PTL
<1> QED
  BY <1>2, <1>3

-----------------------------------------------------------------------------
(***************************************************************************)
(* What a commit changes.                                                  *)
(***************************************************************************)
LEMMA AtMostOne ==
    ASSUME NEW S, NEW x
    PROVE  /\ Cardinality(Differing(S, S)) = 0
           /\ Cardinality(Differing(S, S \cup {x})) \in {0, 1}
           /\ Cardinality(Differing(S, S \ {x})) \in {0, 1}
<1>1. Cardinality({}) = 0 /\ Cardinality({x}) = 1
  BY FS_EmptySet, FS_Singleton
<1>2. Differing(S, S) = {}
  BY DEF Differing
<1>3. Differing(S, S \cup {x}) \in {{}, {x}}
  BY DEF Differing
<1>4. Differing(S, S \ {x}) \in {{}, {x}}
  BY DEF Differing
<1> QED
  BY <1>1, <1>2, <1>3, <1>4

\* What a call means to write differs from what it read in one thing.
LEMMA IntendedIsOneChange ==
    ASSUME NEW k, NEW q \in PrefixRecord, Intended(k, q)
    PROVE  OneChange(q, [k.cur EXCEPT !.version = @ + 1])
<1> DEFINE n == [k.cur EXCEPT !.version = @ + 1]
<1>1. CASE k.pc = "AcquireIPUpdate" /\ k.cur = WithIP(q, k.ip)
  <2>1. n.version = q.version + 1 /\ n.ParentCidr = q.ParentCidr
        /\ n.ips = q.ips \cup {k.ip} /\ n.taken = q.taken
    BY <1>1 DEF PrefixRecord, WithIP
  <2> HIDE DEF n
  <2>2. /\ Cardinality(Differing(q.ips, q.ips \cup {k.ip})) \in {0, 1}
        /\ Cardinality(Differing(q.taken, q.taken)) = 0
    BY AtMostOne
  <2>3. Cardinality(Differing(q.ips, n.ips)) + Cardinality(Differing(q.taken, n.taken)) <= 1
    BY <2>1, <2>2
  <2> QED
    BY <2>1, <2>3 DEF OneChange, n
<1>2. CASE k.pc = "ReleaseIPUpdate" /\ k.cur = WithoutIP(q, k.ip)
  <2>1. n.version = q.version + 1 /\ n.ParentCidr = q.ParentCidr
        /\ n.ips = q.ips \ {k.ip} /\ n.taken = q.taken
    BY <1>2 DEF PrefixRecord, WithoutIP
  <2> HIDE DEF n
  <2>2. /\ Cardinality(Differing(q.ips, q.ips \ {k.ip})) \in {0, 1}
        /\ Cardinality(Differing(q.taken, q.taken)) = 0
    BY AtMostOne
  <2>3. Cardinality(Differing(q.ips, n.ips)) + Cardinality(Differing(q.taken, n.taken)) <= 1
    BY <2>1, <2>2
  <2> QED
    BY <2>1, <2>3 DEF OneChange, n
<1>3. CASE k.pc = "AcquireChildUpdate" /\ \E cp \in RawPrefix : k.cur = WithChild(q, cp)
  <2>1. PICK cp : k.cur = WithChild(q, cp)
    BY <1>3
  <2>2. n.version = q.version + 1 /\ n.ParentCidr = q.ParentCidr
        /\ n.ips = q.ips /\ n.taken = q.taken \cup {cp}
    BY <2>1 DEF PrefixRecord, WithChild
  <2> HIDE DEF n
  <2>3. /\ Cardinality(Differing(q.ips, q.ips)) = 0
        /\ Cardinality(Differing(q.taken, q.taken \cup {cp})) \in {0, 1}
    BY AtMostOne
  <2>4. Cardinality(Differing(q.ips, n.ips)) + Cardinality(Differing(q.taken, n.taken)) <= 1
    BY <2>2, <2>3
  <2> QED
    BY <2>2, <2>4 DEF OneChange, n
<1> QED
  BY <1>1, <1>2, <1>3 DEF Intended

ChangesOneThing ==
    \A k \in Cidr : (store[k] # Absent /\ store'[k] # Absent /\ store'[k] # store[k])
                       => OneChange(store[k], store'[k])

\* A step writes what its call means to write, on the version it read.
LEMMA StepChangesOneThing ==
    ASSUME NoDeletes, IInv, LockInv, [Next]_vars
    PROVE  ChangesOneThing
<1>1. CASE store' = store
  BY <1>1 DEF ChangesOneThing
<1>2. ASSUME NEW p \in GoodRecord, CreatePrefix(p) PROVE ChangesOneThing
  BY <1>2 DEF CreatePrefix, ChangesOneThing, IInv, GoodRecord, PrefixRecord
<1>3. ASSUME NEW c \in Callers, call[c].pc \in Updating,
             UpdateOutcome(call[c].cur) = "ok", UpdatePrefix(call[c].cur)
      PROVE  ChangesOneThing
  <2> DEFINE p == call[c].cur
             q == store[p.Cidr]
  <2>1. p \in GoodRecord /\ p.Cidr \in Cidr
    BY <1>3, CallOK DEF GoodRecord, PrefixRecord
  <2>2. q # Absent /\ q.version = p.version
    BY <1>3, IpamAssumption DEF UpdateOutcome
  <2>3. q \in PrefixRecord
    BY <2>1, <2>2 DEF IInv, GoodRecord
  <2>4. Intended(call[c], q)
    BY <1>3, <2>2 DEF LockInv, LockCall, CopyOK
  <2>5. OneChange(q, [p EXCEPT !.version = @ + 1])
    BY <2>3, <2>4, IntendedIsOneChange
  <2>6. store' = [store EXCEPT ![p.Cidr] = [p EXCEPT !.version = @ + 1]]
    BY <1>3 DEF UpdatePrefix
  <2> QED
    BY <2>1, <2>5, <2>6 DEF ChangesOneThing, IInv
<1>4. ASSUME NEW c \in Callers, NEW r \in Requests, ReadStep(c, r) PROVE store' = store
  BY <1>4 DEF ReadStep, NewPrefixCall, DeletePrefixRead, AcquireChildRead, ReleaseChildCall,
     AcquireIPRead, ReleaseIPRead
<1>5. ASSUME NEW c \in Callers, OtherStep(c) PROVE ChangesOneThing
  <2>1. LockCall(c)
    BY DEF LockInv
  <2>2. CASE NewPrefixRead(c) \/ ReleaseChildRead(c) \/ UpdateFails(c)
    BY <1>1, <2>2 DEF NewPrefixRead, ReleaseChildRead, UpdateFails
  <2>3. CASE NewPrefixCreate(c) \/ AcquireChildCreate(c)
    BY <1>2, <2>3, CallOK DEF NewPrefixCreate, AcquireChildCreate
  <2>4. CASE DeletePrefixStore(c) \/ ReleaseChildUpdate(c)
    BY <2>1, <2>4 DEF DeletePrefixStore, ReleaseChildUpdate, LockCall, ForbiddenPCs
  <2>5. CASE AcquireChildUpdate(c) \/ AcquireIPUpdate(c) \/ ReleaseIPUpdate(c)
    BY <1>3, <2>5 DEF AcquireChildUpdate, AcquireIPUpdate, ReleaseIPUpdate, Updating
  <2> QED
    BY <1>5, <2>2, <2>3, <2>4, <2>5 DEF OtherStep
<1>6. ASSUME NEW i \in Instances, Crash(i) PROVE store' = store
  BY <1>6 DEF Crash
<1> QED
  BY <1>1, <1>4, <1>5, <1>6 DEF Next, vars

(***************************************************************************)
(* No lost update: while nobody deletes prefixes, every UpdatePrefix that  *)
(* succeeds changes one address or one child of the record it finds, and   *)
(* so never undoes what another caller committed after the read.           *)
(***************************************************************************)
THEOREM NoLostUpdate == NoDeletes /\ Spec => CommitsChangeOneThing
<1>1. NoDeletes /\ IInv /\ LockInv /\ [Next]_vars => [ChangesOneThing]_vars
  BY StepChangesOneThing
<1>2. CASE ~ NoDeletes
  BY <1>2
<1>3. CASE NoDeletes
  <2>1. Spec => [][ChangesOneThing]_vars
    BY <1>1, <1>3, LockInvariance, Invariance, PTL DEF Spec
  <2> QED
    BY <2>1 DEF ChangesOneThing, CommitsChangeOneThing
<1> QED
  BY <1>2, <1>3

=============================================================================
