---------------------------- MODULE UsageProofs ----------------------------
(***************************************************************************)
(* Theorems about Usage for every address width, every word width, every   *)
(* root and every set of lengths: the search for a free child is exact, it *)
(* keeps the largest hole, the address counts of Usage() say when no       *)
(* address is left, and the count of smallest prefixes is exact.  TypeOK   *)
(* is inductive, and the other invariants follow from it.                  *)
(***************************************************************************)
EXTENDS Usage, NetipProofs, FiniteSetTheorems, FunctionTheorems

UsageRecord(p) ==
    p \in [Cidr : Cidr, ParentCidr : {None}, isParent : BOOLEAN, taken : SUBSET Cidr,
           ips : SUBSET RangeOfPrefix(p.Cidr), version : {0}]

-----------------------------------------------------------------------------
(***************************************************************************)
(* The search for a free child.                                            *)
(***************************************************************************)
\* None is no prefix.
LEMMA NoneIsNoCidr == None \notin Cidr
  BY NoneAssumption, CidrIsRaw

\* Free space is a part of the prefix, so a free block is of its family.
LEMMA FreeSpaceInside ==
    ASSUME NEW p, UsageRecord(p), NEW q \in Cidr, ContainsPrefix(FreeSpace(p), q)
    PROVE  q.fam = p.Cidr.fam /\ p.Cidr.bits <= q.bits
<1>1. RangeOfPrefix(q) \subseteq RangeOfPrefix(p.Cidr)
  BY DEF ContainsPrefix, FreeSpace, IPSet
<1>2. p.Cidr \in RawPrefix /\ q \in RawPrefix
  BY CidrIsRaw DEF UsageRecord
<1> QED
  BY <1>1, <1>2, InsideHasMoreBits

\* A child of a length is the first block of the best fitting free prefix.
LEMMA ChildIsFirstBlock ==
    ASSUME NEW p, UsageRecord(p), NEW length \in Nat,
           NEW cp \in AvailableChild(p, None, length)
    PROVE  \E q \in BestFit(FreeSpace(p), length) :
               /\ cp = [q EXCEPT !.bits = length]
               /\ q \in Prefixes(FreeSpace(p)) /\ q \in Cidr
               /\ q.fam = p.Cidr.fam /\ q.bits <= length /\ length <= BitLen(q.fam)
               /\ cp.bits = length /\ cp.fam = q.fam
               /\ RangeOfPrefix(cp) \subseteq RangeOfPrefix(q)
               /\ cp \in FreeBlocks(p, length)
               /\ ~ hasIPs(p) /\ cp.bits > p.Cidr.bits
<1>1. /\ cp \in RemoveFreePrefix(FreeSpace(p), length) /\ IsValid(cp)
      /\ ~ hasIPs(p) /\ cp.bits > p.Cidr.bits
  BY DEF AvailableChild, CandidateChild, ChildOfLength
<1>2. PICK q \in BestFit(FreeSpace(p), length) : cp = [q EXCEPT !.bits = length]
  BY <1>1 DEF RemoveFreePrefix
<1>3. /\ q \in Prefixes(FreeSpace(p)) /\ q \in Cidr /\ q.bits <= length
      /\ ContainsPrefix(FreeSpace(p), q)
  BY DEF BestFit, Fitting, Prefixes
<1>4. q.fam = p.Cidr.fam
  BY <1>3, FreeSpaceInside
<1>5. cp.fam = q.fam /\ cp.bits = length
  BY <1>2, <1>3, CidrParts
<1>6. length <= BitLen(q.fam)
  BY <1>1, <1>5 DEF IsValid
<1>7. cp \in Cidr /\ RangeOfPrefix(cp) \subseteq RangeOfPrefix(q)
  BY <1>2, <1>3, <1>6, FirstBlockIsCidr, FirstBlockInside
<1>8. cp \in FreeBlocks(p, length)
  BY <1>3, <1>4, <1>5, <1>7 DEF FreeBlocks, ContainsPrefix
<1> QED
  BY <1>1, <1>2, <1>3, <1>4, <1>5, <1>6, <1>7, <1>8

\* A length that is free somewhere is found.
LEMMA FreeIsFound ==
    ASSUME NEW p, UsageRecord(p), NEW length \in Nat,
           FreeBlocks(p, length) # {}, ~ hasIPs(p), length > p.Cidr.bits
    PROVE  AvailableChild(p, None, length) # {}
<1>1. PICK b \in Cidr : b.fam = p.Cidr.fam /\ b.bits = length /\ ContainsPrefix(FreeSpace(p), b)
  BY DEF FreeBlocks
<1>2. PICK q1 \in Prefixes(FreeSpace(p)) : q1.bits <= b.bits
  BY <1>1, CoveredByFree
<1>3. q1 \in Fitting(FreeSpace(p), length)
  BY <1>1, <1>2 DEF Fitting
<1>4. PICK q \in BestFit(FreeSpace(p), length) : TRUE
  BY <1>3, BestFitExists
<1>5. q \in Cidr /\ ContainsPrefix(FreeSpace(p), q)
  BY DEF BestFit, Fitting, Prefixes
<1>6. q.fam = p.Cidr.fam
  BY <1>5, FreeSpaceInside
<1> DEFINE cp == [q EXCEPT !.bits = length]
<1>7. cp.fam = q.fam /\ cp.bits = length
  BY <1>5, CidrParts
<1>8. cp \in CandidateChild(p, None, length)
  BY DEF CandidateChild, ChildOfLength, RemoveFreePrefix
<1> HIDE DEF cp
<1>9. length <= BitLen(q.fam)
  BY <1>1, <1>6, CidrParts
<1>10. cp \in AvailableChild(p, None, length)
  BY <1>7, <1>8, <1>9 DEF AvailableChild, IsValid
<1> QED
  BY <1>10

-----------------------------------------------------------------------------
(***************************************************************************)
(* The type invariant.                                                     *)
(***************************************************************************)
\* newPrefix makes a record of the type, whatever host bits it is given.
LEMMA InitTyped == Init => TypeOK
<1> SUFFICES ASSUME NEW cidr \in Roots, prefix = newPrefix(cidr, None) PROVE TypeOK
  BY DEF Init
<1>1. cidr \in RawPrefix
  BY UsageAssumption
<1>2. Masked(cidr) \in Cidr
  BY <1>1, MaskedIsCidr
<1>3. Blocked(cidr) \subseteq RangeOfPrefix(Masked(cidr))
  BY <1>1, EndsInRange, MaskedRange DEF Blocked
<1> QED
  BY <1>2, <1>3 DEF newPrefix, TypeOK

\* Every step keeps the type.
LEMMA NextTyped == TypeOK /\ [Next]_prefix => TypeOK'
<1> SUFFICES ASSUME TypeOK, [Next]_prefix PROVE TypeOK'
  OBVIOUS
<1>1. UsageRecord(prefix)
  BY DEF TypeOK, UsageRecord
<1>2. ASSUME NEW cp \in Cidr, prefix' = WithChild(prefix, cp) PROVE TypeOK'
  BY <1>2 DEF TypeOK, WithChild
<1>3. ASSUME NEW length \in Lengths, AcquireChildPrefix(length) PROVE TypeOK'
  <2>1. PICK cp \in AvailableChild(prefix, None, length) : prefix' = WithChild(prefix, cp)
    BY <1>3 DEF AcquireChildPrefix
  <2>2. length \in Nat
    BY UsageAssumption
  <2>3. cp \in Cidr
    BY <1>1, <2>2, ChildIsFirstBlock DEF FreeBlocks
  <2> QED
    BY <1>2, <2>1, <2>3
<1>4. ASSUME NEW cidr \in Cidr, AcquireSpecificChildPrefix(cidr) PROVE TypeOK'
  <2>1. PICK cp \in AvailableChild(prefix, cidr, 0) : prefix' = WithChild(prefix, cp)
    BY <1>4 DEF AcquireSpecificChildPrefix
  <2>2. cp = cidr
    BY NoneIsNoCidr DEF AvailableChild, CandidateChild, SpecificChild
  <2> QED
    BY <1>2, <2>1, <2>2
<1>5. ASSUME NEW cidr \in prefix.taken, ReleaseChildPrefix(cidr) PROVE TypeOK'
  BY <1>5 DEF ReleaseChildPrefix, WithoutChild, TypeOK
<1>6. CASE AcquireIP
  <2>1. PICK ip \in AvailableIP(prefix, None) : prefix' = WithIP(prefix, ip)
    BY <1>6 DEF AcquireIP
  <2>2. ip \in RangeOfPrefix(prefix.Cidr)
    BY DEF AvailableIP, FreeIPs
  <2> QED
    BY <2>1, <2>2 DEF WithIP, TypeOK
<1>7. ASSUME NEW ip \in prefix.ips, ReleaseIP(ip) PROVE TypeOK'
  BY <1>7 DEF ReleaseIP, WithoutIP, TypeOK
<1>8. CASE UNCHANGED prefix
  BY <1>8 DEF TypeOK
<1> QED
  BY <1>3, <1>4, <1>5, <1>6, <1>7, <1>8 DEF Next

(***************************************************************************)
(* The record stays a masked prefix: masked children, and no address       *)
(* outside the prefix, whatever host bits newPrefix was given.             *)
(***************************************************************************)
THEOREM TypeCorrect == Spec => []TypeOK
  BY InitTyped, NextTyped, PTL DEF Spec

-----------------------------------------------------------------------------
(***************************************************************************)
(* In every record of the type the search is exact.                        *)
(***************************************************************************)
LEMMA SearchIsExact == TypeOK => ChildFoundIffFree
<1> SUFFICES ASSUME TypeOK, NEW length \in Lengths
             PROVE  /\ AvailableChild(prefix, None, length) \subseteq FreeBlocks(prefix, length)
                    /\ (AvailableChild(prefix, None, length) = {}) <=>
                         (FreeBlocks(prefix, length) = {} \/ hasIPs(prefix)
                            \/ length <= prefix.Cidr.bits)
  BY DEF ChildFoundIffFree
<1>1. UsageRecord(prefix) /\ length \in Nat
  BY UsageAssumption DEF TypeOK, UsageRecord
<1>2. prefix.Cidr.bits \in Int
  BY CidrParts DEF TypeOK
<1>3. AvailableChild(prefix, None, length) \subseteq FreeBlocks(prefix, length)
  BY <1>1, ChildIsFirstBlock
<1>4. ASSUME NEW cp \in AvailableChild(prefix, None, length)
      PROVE  ~ hasIPs(prefix) /\ length > prefix.Cidr.bits
  BY <1>1, <1>4, ChildIsFirstBlock
<1>5. ASSUME FreeBlocks(prefix, length) # {}, ~ hasIPs(prefix), ~ (length <= prefix.Cidr.bits)
      PROVE  AvailableChild(prefix, None, length) # {}
  <2>1. length > prefix.Cidr.bits
    BY <1>1, <1>2, <1>5
  <2> QED
    BY <1>1, <1>5, <2>1, FreeIsFound
<1>6. ASSUME AvailableChild(prefix, None, length) # {}
      PROVE  ~ (FreeBlocks(prefix, length) = {} \/ hasIPs(prefix) \/ length <= prefix.Cidr.bits)
  <2>1. ~ hasIPs(prefix) /\ length > prefix.Cidr.bits
    BY <1>4, <1>6
  <2>2. ~ (length <= prefix.Cidr.bits)
    BY <1>1, <1>2, <2>1
  <2> QED
    BY <1>3, <1>6, <2>1, <2>2
<1> QED
  BY <1>3, <1>5, <1>6

(***************************************************************************)
(* acquireChildPrefixInternal gives a child of a length exactly when the   *)
(* prefix has no addresses and a block of that length lies free in it.     *)
(***************************************************************************)
THEOREM SearchExact == Spec => []ChildFoundIffFree
  BY TypeCorrect, SearchIsExact, PTL

-----------------------------------------------------------------------------
(***************************************************************************)
(* The largest hole.                                                       *)
(***************************************************************************)
\* A set of addresses with a block at least as large as every block of
\* another set has the larger largest free prefix.
LEMMA LargerFree ==
    ASSUME NEW S, NEW T,
           \A b \in Cidr : ContainsPrefix(T, b) =>
               \E c \in Cidr : ContainsPrefix(S, c) /\ c.bits <= b.bits
    PROVE  LargestFree(S) <= LargestFree(T)
<1> DEFINE W == V4Bits + V6Bits
           Widths(X) == { q.bits : q \in Prefixes(X) } \cup {W}
<1>1. W \in Nat
  BY WidthsAssumption
<1> HIDE DEF W
<1>2. ASSUME NEW X
      PROVE  /\ LargestFree(X) \in Widths(X)
             /\ \A n \in Widths(X) : LargestFree(X) <= n
             /\ Widths(X) \subseteq Nat
  <2>1. \A q \in Prefixes(X) : q.bits \in Nat
    BY CidrParts DEF Prefixes
  <2>2. Widths(X) \subseteq Nat /\ Widths(X) # {}
    BY <1>1, <2>1
  <2>3. LargestFree(X) = Min(Widths(X))
    BY DEF LargestFree, W
  <2> HIDE DEF Widths
  <2>4. \E m \in Widths(X) : \A n \in Widths(X) : m <= n
    BY <2>2, SmallestOf
  <2> QED
    BY <2>2, <2>3, <2>4 DEF Min
<1>3. CASE LargestFree(T) = W
  BY <1>2, <1>3
<1>4. CASE LargestFree(T) # W
  <2>1. PICK b \in Prefixes(T) : LargestFree(T) = b.bits
    BY <1>2, <1>4
  <2>2. b \in Cidr /\ ContainsPrefix(T, b)
    BY DEF Prefixes
  <2>3. PICK c \in Cidr : ContainsPrefix(S, c) /\ c.bits <= b.bits
    BY <2>2
  <2>4. PICK q \in Prefixes(S) : q.bits <= c.bits
    BY <2>3, CoveredByFree
  <2>5. LargestFree(S) <= q.bits
    BY <1>2
  <2>6. q \in Cidr
    BY DEF Prefixes
  <2>7. b.bits \in Int /\ c.bits \in Int /\ q.bits \in Int /\ LargestFree(S) \in Int
    BY <1>2, <2>2, <2>6, CidrParts
  <2> QED
    BY <2>1, <2>3, <2>4, <2>5, <2>7
<1> QED
  BY <1>3, <1>4

(***************************************************************************)
(* Whatever other block q of the length is taken away, a block b that is   *)
(* then still free has a counterpart when the best fitting child cp is     *)
(* taken: b itself if it lies apart from cp; otherwise b and cp lie in the *)
(* same free prefix q0, and the free prefix around q, which is no smaller, *)
(* is untouched or is q0 too: then b is at most half of q0, and the upper  *)
(* half of q0 is left.                                                     *)
(***************************************************************************)
LEMMA Counterpart ==
    ASSUME NEW p, UsageRecord(p), NEW length \in Nat,
           NEW cp \in AvailableChild(p, None, length),
           NEW q \in FreeBlocks(p, length),
           NEW b \in Cidr, ContainsPrefix(FreeSpace(p) \ RangeOfPrefix(q), b)
    PROVE  \E c \in Cidr : /\ ContainsPrefix(FreeSpace(p) \ RangeOfPrefix(cp), c)
                           /\ c.bits <= b.bits
<1> DEFINE S == FreeSpace(p)
<1>1. PICK q0 \in BestFit(S, length) :
          /\ cp = [q0 EXCEPT !.bits = length]
          /\ q0 \in Prefixes(S) /\ q0 \in Cidr
          /\ q0.bits <= length /\ length <= BitLen(q0.fam)
          /\ RangeOfPrefix(cp) \subseteq RangeOfPrefix(q0)
  BY ChildIsFirstBlock
<1>2. q \in Cidr /\ q.bits = length /\ ContainsPrefix(S, q)
  BY DEF FreeBlocks
<1>3. /\ b.bits \in Int /\ q0.bits \in Int /\ q.bits \in Int /\ b.bits \in Nat
      /\ b \in RawPrefix /\ q \in RawPrefix /\ q0 \in RawPrefix
  BY <1>1, <1>2, CidrParts
<1>4. ContainsPrefix(S, b) /\ RangeOfPrefix(b) \cap RangeOfPrefix(q) = {}
  BY DEF ContainsPrefix
<1>5. ContainsPrefix(S, q0)
  BY <1>1 DEF Prefixes
<1> HIDE DEF S
<1>6. CASE ~ Overlaps(b, cp)
  <2>1. ContainsPrefix(S \ RangeOfPrefix(cp), b)
    BY <1>4, <1>6 DEF ContainsPrefix, Overlaps
  <2> QED
    BY <1>3, <2>1 DEF S
<1>7. CASE Overlaps(b, cp)
  <2>1. PICK q2 \in Prefixes(S) : RangeOfPrefix(b) \subseteq RangeOfPrefix(q2) /\ q2.bits <= b.bits
    BY <1>4, CoveredByFree
  <2>2. Overlaps(q0, q2)
    BY <1>1, <1>7, <2>1 DEF Overlaps
  <2>3. q2 = q0
    BY <1>1, <2>2, FreeApart
  <2>4. RangeOfPrefix(b) \subseteq RangeOfPrefix(q0) /\ q0.bits <= b.bits
    BY <2>1, <2>3
  <2>5. PICK q1 \in Prefixes(S) : RangeOfPrefix(q) \subseteq RangeOfPrefix(q1) /\ q1.bits <= length
    BY <1>2, CoveredByFree
  <2>6. q1 \in Cidr /\ ContainsPrefix(S, q1)
    BY DEF Prefixes
  <2>7. q1.bits \in Int
    BY <2>6, CidrParts
  <2>8. q1.bits <= q0.bits
    <3>1. q1 \in Fitting(S, length)
      BY <2>5 DEF Fitting
    <3>2. q1.bits < q0.bits \/ q1.bits = q0.bits
      BY <1>1, <3>1 DEF BestFit
    <3> QED
      BY <1>3, <2>7, <3>2
  <2>9. CASE q1 # q0
    <3>1. ~ Overlaps(q0, q1)
      BY <1>1, <2>9, FreeApart
    <3>2. ContainsPrefix(S \ RangeOfPrefix(cp), q1)
      BY <1>1, <2>6, <3>1 DEF ContainsPrefix, Overlaps
    <3>3. q1.bits <= b.bits
      BY <1>3, <2>4, <2>7, <2>8
    <3> QED
      BY <2>6, <3>2, <3>3 DEF S
  <2>10. CASE q1 = q0
    <3>1. RangeOfPrefix(q) \subseteq RangeOfPrefix(q0)
      BY <2>5, <2>10
    <3>2. From(q) \in RangeOfPrefix(q) /\ From(b) \in RangeOfPrefix(b)
      BY <1>3, EndsInRange
    <3>3. q0.bits # b.bits
      <4> SUFFICES ASSUME q0.bits = b.bits PROVE FALSE
        OBVIOUS
      <4>1. Overlaps(q0, b)
        BY <2>4, <3>2 DEF Overlaps
      <4>2. q0 = b
        BY <1>1, <4>1, SameRangeSameKey
      <4> QED
        BY <1>4, <3>1, <3>2, <4>2
    <3>4. q0.bits # length
      <4> SUFFICES ASSUME q0.bits = length PROVE FALSE
        OBVIOUS
      <4>1. Overlaps(q0, q)
        BY <3>1, <3>2 DEF Overlaps
      <4>2. q0 = q
        BY <1>1, <1>2, <4>1, SameRangeSameKey
      <4> QED
        BY <1>4, <2>4, <3>2, <4>2
    <3>5. q0.bits < length /\ q0.bits < BitLen(q0.fam)
      <4>1. BitLen(q0.fam) \in Nat
        BY <1>1, CidrParts
      <4> QED
        BY <1>1, <1>3, <3>4, <4>1
    <3>6. PICK h \in Cidr : /\ h.bits = q0.bits + 1
                            /\ RangeOfPrefix(h) \subseteq RangeOfPrefix(q0)
                            /\ ~ Overlaps(h, [q0 EXCEPT !.bits = length])
      BY <1>1, <3>5, UpperHalf
    <3>7. ContainsPrefix(S \ RangeOfPrefix(cp), h)
      BY <1>1, <1>5, <3>6 DEF ContainsPrefix, Overlaps
    <3>8. h.bits <= b.bits
      BY <1>3, <2>4, <3>3, <3>6
    <3> QED
      BY <3>6, <3>7, <3>8 DEF S
  <2> QED
    BY <2>9, <2>10
<1> QED
  BY <1>6, <1>7

\* In every record of the type the choice keeps the largest hole.
LEMMA ChoiceKeepsHole == TypeOK => LargestHoleKept
<1> SUFFICES ASSUME TypeOK, NEW length \in Lengths,
                    NEW cp \in AvailableChild(prefix, None, length),
                    NEW q \in FreeBlocks(prefix, length)
             PROVE  LargestFree(FreeSpace(prefix) \ RangeOfPrefix(cp))
                      <= LargestFree(FreeSpace(prefix) \ RangeOfPrefix(q))
  BY DEF LargestHoleKept
<1>1. UsageRecord(prefix) /\ length \in Nat
  BY UsageAssumption DEF TypeOK, UsageRecord
<1>2. \A b \in Cidr : ContainsPrefix(FreeSpace(prefix) \ RangeOfPrefix(q), b) =>
        \E c \in Cidr : ContainsPrefix(FreeSpace(prefix) \ RangeOfPrefix(cp), c)
                          /\ c.bits <= b.bits
  BY <1>1, Counterpart
<1> QED
  BY <1>2, LargerFree

(***************************************************************************)
(* Best fit: no other free block of the same length could be given away    *)
(* and leave a larger free block in the prefix.                            *)
(***************************************************************************)
THEOREM BestFitKeepsLargestHole == Spec => []LargestHoleKept
  BY TypeCorrect, ChoiceKeepsHole, PTL

-----------------------------------------------------------------------------
(***************************************************************************)
(* Counting addresses.                                                     *)
(***************************************************************************)
\* A larger power of two is larger.
LEMMA PowerGrows ==
    ASSUME NEW d \in Exponents, NEW e \in Exponents, d < e
    PROVE  2 ^ d < 2 ^ e
<1>1. e - 1 \in Exponents /\ d <= e - 1 /\ e - 1 \in 0 .. (V4Bits + V6Bits) /\ (e - 1) + 1 = e
  BY WidthsAssumption DEF Exponents
<1> HIDE DEF Exponents
<1>2. PICK k \in Nat \ {0} : 2 ^ (e - 1) = k * 2 ^ d
  BY <1>1, PowerDivides
<1>3. 2 ^ e = 2 * 2 ^ (e - 1)
  BY <1>1, PowersAssumption
<1>4. 2 ^ d \in Nat /\ 2 ^ d > 0
  BY PowerPositive
<1>5. k * 2 ^ d >= 2 ^ d /\ k * 2 ^ d \in Nat
  BY <1>4
<1> QED
  BY <1>2, <1>3, <1>4, <1>5

\* A prefix has as many addresses as its size says.
LEMMA RangeCardinality ==
    ASSUME NEW p \in RawPrefix
    PROVE  IsFiniteSet(RangeOfPrefix(p)) /\ Cardinality(RangeOfPrefix(p)) = Size(p)
<1> DEFINE a == Masked(p).addr
           I == a .. (a + Size(p) - 1)
           f == [n \in I |-> <<p.fam, n>>]
<1>1. a \in Nat /\ Size(p) \in Nat /\ Size(p) > 0
  BY MaskedParts, SizePositive
<1> HIDE DEF a
<1>2. RangeOfPrefix(p) = { <<p.fam, n>> : n \in I }
  BY DEF RangeOfPrefix, From, To, a
<1>3. IsFiniteSet(I) /\ Cardinality(I) = Size(p)
  <2>1. a + Size(p) - 1 \in Int /\ ~ (a > a + Size(p) - 1) /\ (a + Size(p) - 1) - a + 1 = Size(p)
    BY <1>1
  <2> QED
    BY <1>1, <2>1, FS_Interval
<1> HIDE DEF I
<1>4. f \in [I -> RangeOfPrefix(p)]
  BY <1>2
<1>5. \A m, n \in I : f[m] = f[n] => m = n
  OBVIOUS
<1>6. \A x \in RangeOfPrefix(p) : \E n \in I : f[n] = x
  BY <1>2
<1> HIDE DEF f
<1>7. f \in Bijection(I, RangeOfPrefix(p))
  BY <1>4, <1>5, <1>6, Fun_IsBij
<1>8. ExistsBijection(I, RangeOfPrefix(p))
  BY <1>7, Fun_ExistsBij
<1> QED
  BY <1>3, <1>8, FS_Bijection

\* An address search fails only when every address of the prefix is in ips.
LEMMA SearchFindsLowest ==
    ASSUME NEW p, UsageRecord(p), ~ p.isParent
    PROVE  (AvailableIP(p, None) = {}) <=> (FreeIPs(p) = {})
<1>1. AvailableIP(p, None) \subseteq FreeIPs(p)
  BY DEF AvailableIP
<1>2. ASSUME FreeIPs(p) # {}
      PROVE  AvailableIP(p, None) # {}
  <2> DEFINE numbers == { ip[2] : ip \in FreeIPs(p) }
  <2>1. p.Cidr \in RawPrefix
    BY CidrIsRaw DEF UsageRecord
  <2>2. \A ip \in FreeIPs(p) : ip[2] \in Nat
    <3> TAKE ip \in FreeIPs(p)
    <3>1. PICK a \in Int : ip = <<p.Cidr.fam, a>> /\ Masked(p.Cidr).addr <= a
      BY <2>1, RangeMembers DEF FreeIPs
    <3>2. Masked(p.Cidr).addr \in Nat
      BY <2>1, MaskedParts
    <3> QED
      BY <3>1, <3>2
  <2>3. numbers \subseteq Nat /\ numbers # {}
    BY <1>2, <2>2
  <2>4. PICK m \in numbers : \A n \in numbers : m <= n
    <3> HIDE DEF numbers
    <3> QED
      BY <2>3, SmallestOf
  <2>5. PICK ip \in FreeIPs(p) : ip[2] = m
    OBVIOUS
  <2>6. ip \in AvailableIP(p, None)
    BY <2>4, <2>5 DEF AvailableIP
  <2> QED
    BY <2>6
<1> QED
  BY <1>1, <1>2

\* In every record of the type the counts are equal when no address is left.
LEMMA CountsAgree == TypeOK => FullIffNoIPLeft
<1> DEFINE host == BitLen(prefix.Cidr.fam) - prefix.Cidr.bits
<1> SUFFICES ASSUME TypeOK, ~ prefix.isParent, host <= CapBits
             PROVE  (AvailableIP(prefix, None) = {}) <=>
                      (availableips(prefix) = acquiredips(prefix))
  BY DEF FullIffNoIPLeft
<1>1. UsageRecord(prefix) /\ prefix.Cidr \in RawPrefix /\ prefix.Cidr \in Cidr
      /\ prefix.ips \subseteq RangeOfPrefix(prefix.Cidr)
  BY CidrIsRaw DEF TypeOK, UsageRecord
<1>2. host \in Exponents /\ host \in Int
  BY <1>1, RawParts DEF Exponents
<1>3. CapBits \in Nat /\ WordBits \in Nat /\ host < WordBits /\ WordBits \in Exponents
  BY <1>2, UsageAssumption, WidthsAssumption DEF Exponents
<1>4. Size(prefix.Cidr) = 2 ^ host
  BY DEF Size
<1>5. ~ (host > CapBits)
  BY <1>2, <1>3
<1>6. availableips(prefix) = ShiftedOne(host)
  BY <1>5 DEF availableips
<1> HIDE DEF host, Exponents
<1>7. 2 ^ host \in Nat /\ 2 ^ WordBits \in Nat /\ 2 ^ host < 2 ^ WordBits
  BY <1>2, <1>3, PowerPositive, PowerGrows
<1>8. ShiftedOne(host) = 2 ^ host
  <2>1. ASSUME NEW m \in Nat, NEW n \in Nat, m < n
        PROVE  m % n = m
    BY <2>1
  <2> QED
    BY <1>7, <2>1 DEF ShiftedOne
<1>9. IsFiniteSet(RangeOfPrefix(prefix.Cidr))
      /\ Cardinality(RangeOfPrefix(prefix.Cidr)) = availableips(prefix)
  BY <1>1, <1>4, <1>6, <1>8, RangeCardinality
<1>10. (prefix.ips = RangeOfPrefix(prefix.Cidr)) <=> (availableips(prefix) = acquiredips(prefix))
  BY <1>1, <1>9, FS_Subset DEF acquiredips
<1>11. (FreeIPs(prefix) = {}) <=> (prefix.ips = RangeOfPrefix(prefix.Cidr))
  BY <1>1 DEF FreeIPs
<1> QED
  BY <1>1, <1>10, <1>11, SearchFindsLowest

(***************************************************************************)
(* AvailableIPs equals AcquiredIPs exactly when AcquireIP has no address   *)
(* left to give, for a prefix whose addresses the count can express.       *)
(***************************************************************************)
THEOREM FullWhenCountsEqual == Spec => []FullIffNoIPLeft
  BY TypeCorrect, CountsAgree, PTL

-----------------------------------------------------------------------------
(***************************************************************************)
(* Counting the children with two host bits.                               *)
(***************************************************************************)
\* The blocks of a length in a prefix.
BlocksOf(q, length) ==
    { b \in Cidr : /\ b.fam = q.fam /\ b.bits = length
                   /\ RangeOfPrefix(b) \subseteq RangeOfPrefix(q) }

\* The power of a sum is the product of the powers.
LEMMA PowerSum ==
    ASSUME NEW d \in Nat, NEW e \in Nat, d + e \in Exponents
    PROVE  2 ^ (d + e) = 2 ^ d * 2 ^ e
<1> DEFINE bad == { n \in 0 .. e : 2 ^ (d + n) # 2 ^ d * 2 ^ n }
<1>1. ASSUME NEW n \in 0 .. e
      PROVE  d + n \in Exponents /\ n \in Exponents
  BY WidthsAssumption DEF Exponents
<1>2. d \in Exponents
  BY WidthsAssumption DEF Exponents
<1>3. bad = {}
  <2> SUFFICES ASSUME bad # {} PROVE FALSE
    OBVIOUS
  <2>1. PICK m \in bad : \A n \in bad : m <= n
    <3>1. bad \subseteq Nat
      OBVIOUS
    <3> HIDE DEF bad
    <3> QED
      BY <3>1, SmallestOf
  <2>2. m # 0
    <3>1. 2 ^ d \in Nat
      BY <1>2, PowerPositive
    <3>2. 2 ^ 0 = 1
      BY PowersAssumption
    <3>3. d + 0 = d /\ 2 ^ d * 1 = 2 ^ d
      BY <3>1
    <3> QED
      BY <3>2, <3>3
  <2>3. m - 1 \in 0 .. e /\ m - 1 \notin bad
    BY <2>1, <2>2
  <2>4. 2 ^ (d + (m - 1)) = 2 ^ d * 2 ^ (m - 1)
    BY <2>3
  <2>5. 2 ^ m = 2 * 2 ^ (m - 1)
    <3>1. m - 1 \in 0 .. (V4Bits + V6Bits) /\ (m - 1) + 1 = m
      BY <2>1, <2>3, <1>1, WidthsAssumption DEF Exponents
    <3> QED
      BY <3>1, PowersAssumption
  <2>6. 2 ^ (d + m) = 2 * 2 ^ (d + (m - 1))
    <3>1. d + (m - 1) \in 0 .. (V4Bits + V6Bits) /\ (d + (m - 1)) + 1 = d + m
      BY <2>1, <2>3, <1>1, WidthsAssumption DEF Exponents
    <3> QED
      BY <3>1, PowersAssumption
  <2>7. 2 ^ d \in Nat /\ 2 ^ (m - 1) \in Nat
    BY <1>1, <1>2, <2>3, PowerPositive
  <2>8. \A x, y \in Nat : 2 * (x * y) = x * (2 * y)
    OBVIOUS
  <2> QED
    BY <2>1, <2>4, <2>5, <2>6, <2>7, <2>8
<1>4. e \in 0 .. e
  OBVIOUS
<1> QED
  BY <1>3, <1>4

(***************************************************************************)
(* A prefix of bits b holds 2^(length - b) blocks of a length: the block   *)
(* number i begins i sizes above the address of the prefix.                *)
(***************************************************************************)
LEMMA BlocksCounted ==
    ASSUME NEW q \in Cidr, NEW length \in Nat, q.bits <= length, length <= BitLen(q.fam)
    PROVE  /\ IsFiniteSet(BlocksOf(q, length))
           /\ Cardinality(BlocksOf(q, length)) = 2 ^ (length - q.bits)
<1> DEFINE s == 2 ^ (BitLen(q.fam) - length)
           n == 2 ^ (length - q.bits)
           Block(i) == [fam |-> q.fam, addr |-> q.addr + i * s, bits |-> length]
           I == 0 .. (n - 1)
           f == [i \in I |-> Block(i)]
<1>1. /\ q \in RawPrefix /\ Masked(q) = q /\ q.fam \in Families /\ BitLen(q.fam) \in Nat
      /\ q.bits \in Nat /\ q.bits <= BitLen(q.fam) /\ q.addr \in Nat
      /\ Size(q) \in Nat /\ Size(q) > 0
  BY CidrParts
<1>2. BitLen(q.fam) \in Exponents
  BY <1>1, RawParts
<1>3. /\ BitLen(q.fam) - length \in Exponents /\ length - q.bits \in Exponents
      /\ BitLen(q.fam) - q.bits \in Exponents /\ q.bits \in Exponents
      /\ BitLen(q.fam) - length \in Nat /\ length - q.bits \in Nat
      /\ BitLen(q.fam) - q.bits \in Nat
      /\ (length - q.bits) + (BitLen(q.fam) - length) = BitLen(q.fam) - q.bits
      /\ q.bits + (BitLen(q.fam) - q.bits) = BitLen(q.fam)
  BY <1>1, <1>2, WidthsAssumption DEF Exponents
<1>4. s \in Nat /\ s > 0 /\ n \in Nat /\ n > 0
  BY <1>3, PowerPositive
<1>5. Size(q) = n * s
  BY <1>3, PowerSum DEF Size
<1>6. PICK k \in Nat : q.addr = k * Size(q)
  BY CidrParts
<1>7. q.addr + n * s <= 2 ^ BitLen(q.fam)
  <2>1. 2 ^ BitLen(q.fam) = 2 ^ q.bits * Size(q)
    <3>1. q.bits + (BitLen(q.fam) - q.bits) \in Exponents
      BY <1>2, <1>3
    <3> QED
      BY <1>1, <1>3, <3>1, PowerSum DEF Size
  <2>2. q.addr < 2 ^ BitLen(q.fam)
    BY <1>1, RawParts
  <2>3. 2 ^ q.bits \in Nat
    BY <1>3, PowerPositive
  <2>4. k + 1 <= 2 ^ q.bits
    BY <1>1, <1>6, <2>1, <2>2, <2>3, MultiplesApart
  <2>5. (k + 1) * Size(q) <= 2 ^ q.bits * Size(q)
    BY <1>1, <2>3, <2>4, MultiplesApart
  <2>6. (k + 1) * Size(q) = k * Size(q) + Size(q)
    BY <1>1
  <2> QED
    BY <1>5, <1>6, <2>1, <2>5, <2>6
<1> HIDE DEF s, n
<1>8. ASSUME NEW i \in I
      PROVE  /\ i \in Nat /\ i * s \in Nat /\ i * s + s <= n * s
             /\ Block(i).fam = q.fam /\ Block(i).addr = q.addr + i * s /\ Block(i).bits = length
  <2>1. i \in Nat /\ i + 1 <= n
    BY <1>4
  <2>2. (i + 1) * s <= n * s /\ (i + 1) * s = i * s + s /\ i * s \in Nat
    BY <1>4, <2>1, MultiplesApart
  <2> QED
    BY <2>1, <2>2
<1>9. ASSUME NEW i \in I
      PROVE  Block(i) \in BlocksOf(q, length)
  <2>1. /\ i \in Nat /\ i * s \in Nat /\ i * s + s <= n * s /\ n * s \in Nat
    BY <1>4, <1>8
  <2>2. q.addr + i * s < 2 ^ BitLen(q.fam) /\ q.addr + i * s \in Nat
    <3>1. 2 ^ BitLen(q.fam) \in Nat
      BY <1>2, PowerPositive
    <3> QED
      BY <1>1, <1>4, <1>7, <2>1, <3>1
  <2>3. Block(i) \in RawPrefix
    BY <1>1, <2>2, RawFromParts
  <2>4. Size(Block(i)) = s
    BY <1>8 DEF Size, s
  <2>5. Block(i).addr = (k * n + i) * s /\ k * n + i \in Nat
    <3>1. \A x, y, z, t \in Nat : x * (y * t) + z * t = (x * y + z) * t /\ x * y + z \in Nat
      OBVIOUS
    <3> QED
      BY <1>4, <1>5, <1>6, <1>8, <3>1
  <2>6. Block(i) \in Cidr
    BY <2>3, <2>4, <2>5, AlignedIsCidr
  <2>7. RangeOfPrefix(Block(i)) \subseteq RangeOfPrefix(q)
    <3> SUFFICES ASSUME NEW x \in RangeOfPrefix(Block(i)) PROVE x \in RangeOfPrefix(q)
      OBVIOUS
    <3>1. Masked(Block(i)) = Block(i)
      BY <2>6, CidrParts
    <3>2. PICK a \in Int : x = <<q.fam, a>> /\ q.addr + i * s <= a /\ a < q.addr + i * s + s
      BY <1>8, <2>3, <2>4, <3>1, RangeMembers
    <3>3. q.addr <= a /\ a < q.addr + Size(q)
      BY <1>1, <1>4, <1>5, <2>1, <3>2
    <3> QED
      BY <1>1, <3>2, <3>3, RangeMembers
  <2> QED
    BY <1>8, <2>6, <2>7 DEF BlocksOf
<1>10. ASSUME NEW b \in BlocksOf(q, length)
       PROVE  \E i \in I : b = Block(i)
  <2>1. /\ b \in Cidr /\ b.fam = q.fam /\ b.bits = length
        /\ RangeOfPrefix(b) \subseteq RangeOfPrefix(q)
    BY DEF BlocksOf
  <2>2. /\ b \in RawPrefix /\ Masked(b) = b /\ b.addr \in Nat
        /\ b = [fam |-> b.fam, addr |-> b.addr, bits |-> b.bits]
    BY <2>1, CidrParts
  <2>3. Size(b) = s
    BY <2>1 DEF Size, s
  <2>4. PICK j \in Nat : b.addr = j * s
    BY <2>1, <2>3, CidrParts
  <2>5. <<q.fam, b.addr>> \in RangeOfPrefix(q)
    <3>1. From(b) \in RangeOfPrefix(b)
      BY <2>2, EndsInRange
    <3> QED
      BY <2>1, <2>2, <3>1 DEF From
  <2>6. q.addr <= b.addr /\ b.addr < q.addr + n * s
    BY <1>1, <1>5, <2>2, <2>5, RangeMembers
  <2>7. q.addr = (k * n) * s /\ q.addr + n * s = (k * n + n) * s /\ k * n \in Nat
    <3>1. \A x, y, t \in Nat : x * (y * t) = (x * y) * t /\ x * y \in Nat
                                 /\ x * (y * t) + y * t = (x * y + y) * t
      OBVIOUS
    <3> QED
      BY <1>4, <1>5, <1>6, <3>1
  <2>8. j + 1 <= k * n + n
    <3>1. k * n + n \in Int /\ j \in Int /\ j * s < (k * n + n) * s
      BY <1>4, <2>4, <2>6, <2>7
    <3> QED
      BY <1>4, <3>1, MultiplesApart
  <2>9. k * n <= j
    <3> SUFFICES ASSUME j < k * n PROVE FALSE
      BY <2>7
    <3>1. (j + 1) * s <= (k * n) * s /\ (j + 1) * s = j * s + s /\ j * s \in Nat
      BY <1>4, <2>7, MultiplesApart
    <3>2. q.addr <= j * s /\ j * s + s <= q.addr
      BY <2>4, <2>6, <2>7, <3>1
    <3> QED
      BY <1>1, <1>4, <3>1, <3>2
  <2>10. PICK i \in I : j = k * n + i
    <3>1. j - k * n \in 0 .. (n - 1) /\ j = k * n + (j - k * n)
      BY <1>4, <2>7, <2>8, <2>9
    <3> QED
      BY <3>1
  <2>11. b.addr = q.addr + i * s
    <3>1. i \in Int /\ k * n \in Int /\ s \in Nat /\ s > 0
      BY <1>4, <2>7
    <3>2. (k * n + i) * s = (k * n) * s + i * s
      BY <3>1, MultiplesApart
    <3> QED
      BY <2>4, <2>7, <2>10, <3>2
  <2> QED
    BY <2>1, <2>2, <2>11
<1>11. \A i, j \in I : f[i] = f[j] => i = j
  <2> SUFFICES ASSUME NEW i \in I, NEW j \in I, Block(i) = Block(j), i < j PROVE FALSE
    <3>1. \A i, j \in I : i < j \/ j < i \/ i = j
      BY <1>4
    <3> QED
      BY <3>1
  <2>1. q.addr + i * s = q.addr + j * s /\ i * s \in Nat /\ j * s \in Nat
    BY <1>8
  <2>2. i \in Nat /\ j \in Nat /\ i + 1 <= j
    BY <1>8
  <2>3. (i + 1) * s <= j * s /\ (i + 1) * s = i * s + s
    BY <1>4, <2>2, MultiplesApart
  <2> QED
    BY <1>1, <1>4, <2>1, <2>3
<1>12. f \in Bijection(I, BlocksOf(q, length))
  <2>1. f \in [I -> BlocksOf(q, length)]
    BY <1>9
  <2>2. \A b \in BlocksOf(q, length) : \E i \in I : f[i] = b
    BY <1>10
  <2> HIDE DEF f, I
  <2> QED
    BY <1>11, <2>1, <2>2, Fun_IsBij
<1>13. IsFiniteSet(I) /\ Cardinality(I) = n
  <2>1. n - 1 \in Int /\ ~ (0 > n - 1) /\ (n - 1) - 0 + 1 = n
    BY <1>4
  <2> QED
    BY <2>1, FS_Interval
<1>14. ExistsBijection(I, BlocksOf(q, length))
  <2> HIDE DEF f, I
  <2> QED
    BY <1>12, Fun_ExistsBij
<1> QED
  <2> HIDE DEF f, I
  <2> QED
    BY <1>13, <1>14, FS_Bijection DEF n

-----------------------------------------------------------------------------
(***************************************************************************)
(* The fold of MapThenSumSet.  W gives every element of U a weight; the    *)
(* sum takes one element after the other out of the set.                   *)
(***************************************************************************)
\* f sums the weights of every part of U.
Sums(f, U, W) ==
    f = [T \in SUBSET U |->
           IF T = {} THEN 0
           ELSE W[CHOOSE x \in T : TRUE] + f[T \ {CHOOSE x \in T : TRUE}]]

\* How many members the sets of a part of U have together.
Joint(U, S) == [T \in SUBSET U |-> Cardinality(UNION { S[x] : x \in T })]

\* Only one function sums the weights of a finite set.
LEMMA OneSum ==
    ASSUME NEW U, NEW W, IsFiniteSet(U), NEW f, NEW g, Sums(f, U, W), Sums(g, U, W)
    PROVE  f = g
<1> DEFINE bad == { T \in SUBSET U : f[T] # g[T] }
           sizes == { Cardinality(T) : T \in bad }
<1>1. ASSUME NEW h, Sums(h, U, W), NEW T \in SUBSET U
      PROVE  h[T] = IF T = {} THEN 0
                    ELSE W[CHOOSE x \in T : TRUE] + h[T \ {CHOOSE x \in T : TRUE}]
  BY <1>1, Zenon DEF Sums
<1>2. bad = {}
  <2> SUFFICES ASSUME bad # {} PROVE FALSE
    OBVIOUS
  <2>1. \A T \in SUBSET U : IsFiniteSet(T) /\ Cardinality(T) \in Nat
    BY FS_Subset, FS_CardinalityType
  <2>2. sizes \subseteq Nat /\ sizes # {}
    BY <2>1
  <2>3. PICK m \in sizes : \A n \in sizes : m <= n
    <3> HIDE DEF sizes
    <3> QED
      BY <2>2, SmallestOf
  <2>4. PICK T \in bad : Cardinality(T) = m
    OBVIOUS
  <2>5. T \in SUBSET U /\ f[T] # g[T]
    OBVIOUS
  <2>6. T # {}
    BY <1>1, <2>5
  <2>7. PICK x \in T : x = CHOOSE y \in T : TRUE
    BY <2>6
  <2>8. T \ {x} \in SUBSET U /\ Cardinality(T \ {x}) = Cardinality(T) - 1
    BY <2>1, <2>5, <2>7, FS_RemoveElement
  <2>9. T \ {x} \notin bad
    <3> SUFFICES ASSUME T \ {x} \in bad PROVE FALSE
      OBVIOUS
    <3>1. Cardinality(T \ {x}) \in sizes
      OBVIOUS
    <3>2. Cardinality(T) <= Cardinality(T \ {x})
      BY <2>3, <2>4, <3>1
    <3> QED
      BY <2>1, <2>5, <2>8, <3>2
  <2>10. f[T \ {x}] = g[T \ {x}]
    BY <2>8, <2>9
  <2>11. f[T] = W[x] + f[T \ {x}] /\ g[T] = W[x] + g[T \ {x}]
    BY <1>1, <2>5, <2>6, <2>7
  <2> QED
    BY <2>5, <2>10, <2>11
<1>3. \A T \in SUBSET U : f[T] = g[T]
  BY <1>2
<1>4. f = [T \in SUBSET U |-> f[T]] /\ g = [T \in SUBSET U |-> g[T]]
  <2>1. ASSUME NEW h, Sums(h, U, W)
        PROVE  h = [T \in SUBSET U |-> h[T]]
    <3>1. DOMAIN h = SUBSET U
      BY <2>1 DEF Sums
    <3>2. h = [T \in DOMAIN h |-> h[T]]
      BY <2>1 DEF Sums
    <3> QED
      BY <3>1, <3>2
  <2> QED
    BY <2>1
<1> QED
  BY <1>3, <1>4, Zenon

(***************************************************************************)
(* When the weight of every element is the number of members of a finite   *)
(* set of its own, and these sets are apart, the sum is the number of      *)
(* members of their union.                                                 *)
(***************************************************************************)
LEMMA SumOfSizes ==
    ASSUME NEW U, NEW S, NEW W, IsFiniteSet(U),
           \A x \in U : IsFiniteSet(S[x]) /\ Cardinality(S[x]) = W[x],
           \A x, y \in U : S[x] \cap S[y] # {} => x = y
    PROVE  Sums(Joint(U, S), U, W)
<1> DEFINE All(T) == UNION { S[x] : x \in T }
           F == [T \in SUBSET U |-> Cardinality(All(T))]
           G == [T \in SUBSET U |->
                   IF T = {} THEN 0
                   ELSE W[CHOOSE x \in T : TRUE] + F[T \ {CHOOSE x \in T : TRUE}]]
<1>1. ASSUME NEW T \in SUBSET U
      PROVE  IsFiniteSet(All(T))
  <2>1. PICK h : h = [x \in T |-> S[x]]
    OBVIOUS
  <2>2. h \in Surjection(T, { S[x] : x \in T })
    <3>1. h \in [T -> { S[x] : x \in T }]
      BY <2>1
    <3>2. \A t \in { S[x] : x \in T } : \E x \in T : h[x] = t
      BY <2>1
    <3> QED
      BY <3>1, <3>2 DEF Surjection
  <2>3. IsFiniteSet(T)
    BY FS_Subset
  <2>4. IsFiniteSet({ S[x] : x \in T })
    BY <2>2, <2>3, FS_Surjection
  <2>5. \A t \in { S[x] : x \in T } : IsFiniteSet(t)
    OBVIOUS
  <2> QED
    BY <2>4, <2>5, FS_UNION
<1>2. ASSUME NEW T \in SUBSET U
      PROVE  F[T] = G[T]
  <2>1. CASE T = {}
    <3>1. All(T) = {}
      BY <2>1
    <3>2. G[T] = 0
      BY <2>1
    <3>3. F[T] = Cardinality(All(T))
      OBVIOUS
    <3> QED
      BY <3>1, <3>2, <3>3, FS_EmptySet
  <2>2. CASE T # {}
    <3>1. PICK x \in T : x = CHOOSE y \in T : TRUE
      BY <2>2
    <3>2. PICK R \in SUBSET U : R = T \ {x}
      OBVIOUS
    <3>3. G[T] = W[x] + F[R]
      <4> HIDE DEF F
      <4> QED
        BY <2>2, <3>1, <3>2
    <3>4. F[R] = Cardinality(All(R)) /\ F[T] = Cardinality(All(T))
      OBVIOUS
    <3>5. All(T) = S[x] \cup All(R)
      BY <3>2
    <3>6. S[x] \cap All(R) = {}
      <4> SUFFICES ASSUME NEW e, e \in S[x], e \in All(R) PROVE FALSE
        OBVIOUS
      <4>1. PICK y \in R : e \in S[y]
        OBVIOUS
      <4>2. y = x
        BY <4>1
      <4> QED
        BY <3>2, <4>2
    <3>7. IsFiniteSet(S[x]) /\ Cardinality(S[x]) = W[x] /\ W[x] \in Nat
      BY FS_CardinalityType
    <3>8. IsFiniteSet(All(R)) /\ Cardinality(All(R)) \in Nat
      BY <1>1, FS_CardinalityType
    <3> HIDE DEF All, F, G
    <3>9. Cardinality(S[x] \cup All(R))
            = Cardinality(S[x]) + Cardinality(All(R)) - Cardinality(S[x] \cap All(R))
      BY <3>7, <3>8, FS_Union
    <3>10. Cardinality(S[x] \cap All(R)) = 0
      BY <3>6, FS_EmptySet
    <3> QED
      BY <3>3, <3>4, <3>5, <3>7, <3>8, <3>9, <3>10
  <2> QED
    BY <2>1, <2>2
<1>3. F = G
  <2>1. DOMAIN F = SUBSET U /\ DOMAIN G = SUBSET U
    OBVIOUS
  <2>2. F = [T \in SUBSET U |-> F[T]] /\ G = [T \in SUBSET U |-> G[T]]
    OBVIOUS
  <2> HIDE DEF F, G
  <2> QED
    BY <1>2, <2>2, Zenon
<1> QED
  BY <1>3, Zenon DEF Sums, Joint

-----------------------------------------------------------------------------
(***************************************************************************)
(* What AvailableSmallestPrefixes sums up.                                 *)
(***************************************************************************)
(***************************************************************************)
(* The free blocks of a length are those of the free prefixes that are at  *)
(* least as large: each lies in exactly one of them.                       *)
(***************************************************************************)
LEMMA FreeBlocksSplit ==
    ASSUME NEW p, UsageRecord(p), NEW length \in Nat
    PROVE  LET U == { q \in Prefixes(FreeSpace(p)) : q.bits <= length }
           IN  /\ FreeBlocks(p, length) = UNION { BlocksOf(q, length) : q \in U }
               /\ \A q, r \in U : BlocksOf(q, length) \cap BlocksOf(r, length) # {} => q = r
               /\ \A q \in U : q \in Cidr /\ q.fam = p.Cidr.fam /\ p.Cidr.bits <= q.bits
               /\ FreeBlocks(p, length) \subseteq BlocksOf(p.Cidr, length)
<1> DEFINE U == { q \in Prefixes(FreeSpace(p)) : q.bits <= length }
<1>1. ASSUME NEW q \in U
      PROVE  /\ q \in Cidr /\ q \in Prefixes(FreeSpace(p)) /\ ContainsPrefix(FreeSpace(p), q)
             /\ q.fam = p.Cidr.fam /\ p.Cidr.bits <= q.bits
  <2>1. q \in Cidr /\ ContainsPrefix(FreeSpace(p), q)
    BY DEF Prefixes
  <2> QED
    BY <2>1, FreeSpaceInside
<1>2. ASSUME NEW b \in FreeBlocks(p, length)
      PROVE  \E q \in U : b \in BlocksOf(q, length)
  <2>1. b \in Cidr /\ b.fam = p.Cidr.fam /\ b.bits = length /\ ContainsPrefix(FreeSpace(p), b)
    BY DEF FreeBlocks
  <2>2. PICK q \in Prefixes(FreeSpace(p)) :
            RangeOfPrefix(b) \subseteq RangeOfPrefix(q) /\ q.bits <= b.bits /\ q.fam = b.fam
    BY <2>1, CoveredByFree
  <2> QED
    BY <2>1, <2>2 DEF BlocksOf
<1>3. ASSUME NEW q \in U, NEW b \in BlocksOf(q, length)
      PROVE  b \in FreeBlocks(p, length)
  <2>1. b \in Cidr /\ b.fam = q.fam /\ b.bits = length /\ RangeOfPrefix(b) \subseteq RangeOfPrefix(q)
    BY DEF BlocksOf
  <2>2. ContainsPrefix(FreeSpace(p), b)
    BY <1>1, <2>1 DEF ContainsPrefix
  <2> QED
    BY <1>1, <2>1, <2>2 DEF FreeBlocks
<1>4. ASSUME NEW q \in U, NEW r \in U, NEW b \in BlocksOf(q, length) \cap BlocksOf(r, length)
      PROVE  q = r
  <2>1. /\ b \in Cidr /\ RangeOfPrefix(b) \subseteq RangeOfPrefix(q)
        /\ RangeOfPrefix(b) \subseteq RangeOfPrefix(r)
    BY DEF BlocksOf
  <2>2. From(b) \in RangeOfPrefix(b)
    BY <2>1, CidrIsRaw, EndsInRange
  <2>3. Overlaps(q, r)
    BY <2>1, <2>2 DEF Overlaps
  <2> QED
    BY <1>1, <2>3, FreeApart
<1>5. FreeBlocks(p, length) \subseteq BlocksOf(p.Cidr, length)
  BY DEF FreeBlocks, BlocksOf, ContainsPrefix, FreeSpace, IPSet
<1> HIDE DEF U
<1>6. FreeBlocks(p, length) = UNION { BlocksOf(q, length) : q \in U }
  BY <1>2, <1>3
<1> QED
  BY <1>1, <1>4, <1>5, <1>6 DEF U

\* Sets apart, none of them empty and all in a finite set, are finitely many.
LEMMA FewApart ==
    ASSUME NEW U, NEW S, NEW B, IsFiniteSet(B),
           \A x \in U : S[x] \subseteq B /\ S[x] # {},
           \A x, y \in U : S[x] \cap S[y] # {} => x = y
    PROVE  IsFiniteSet(U)
<1> DEFINE f == [x \in U |-> CHOOSE e \in S[x] : TRUE]
<1>1. \A x \in U : f[x] \in S[x]
  OBVIOUS
<1>2. f \in [U -> B]
  BY <1>1
<1>3. \A x, y \in U : f[x] = f[y] => x = y
  <2> HIDE DEF f
  <2> QED
    BY <1>1
<1>4. f \in Injection(U, B)
  <2> HIDE DEF f
  <2> QED
    BY <1>2, <1>3, Fun_IsInj
<1> QED
  <2> HIDE DEF f
  <2> QED
    BY <1>4, FS_Injection

\* Remainders of numbers that fit are the numbers.
LEMMA FitsWord ==
    ASSUME NEW d \in Nat, d < WordBits, NEW n \in Nat, n <= 2 ^ d
    PROVE  n % (2 ^ WordBits) = n /\ 2 ^ d < 2 ^ WordBits
<1>1. WordBits \in Exponents /\ d \in Exponents
  BY UsageAssumption, WidthsAssumption DEF Exponents
<1>2. 2 ^ d \in Nat /\ 2 ^ WordBits \in Nat /\ 2 ^ d < 2 ^ WordBits
  BY <1>1, PowerPositive, PowerGrows
<1>3. ASSUME NEW m \in Nat, NEW k \in Nat, m < k
      PROVE  m % k = m
  BY <1>3
<1>4. n < 2 ^ WordBits
  BY <1>2
<1> QED
  BY <1>2, <1>3, <1>4

(***************************************************************************)
(* The sum over the usable prefixes is the number of free blocks with two  *)
(* host bits, when the prefix has fewer of them than a word can hold.      *)
(***************************************************************************)
LEMMA TotalIsCount ==
    ASSUME NEW p, UsageRecord(p), maxBits(p) - p.Cidr.bits < WordBits
    PROVE  /\ totalAvailable(p) = Cardinality(FreeBlocks(p, maxBits(p)))
           /\ totalAvailable(p) \in Nat
<1> DEFINE m == maxBits(p)
           U == UsablePrefixes(p)
           Free == FreeBlocks(p, m)
<1>1. p.Cidr \in Cidr /\ p.Cidr.bits \in Nat /\ BitLen(p.Cidr.fam) \in Nat /\ m \in Int
      /\ m = BitLen(p.Cidr.fam) - 2
  BY CidrParts DEF UsageRecord, maxBits
<1>2. \A q \in Prefixes(FreeSpace(p)) : p.Cidr.bits <= q.bits /\ q.bits \in Nat
  <2> TAKE q \in Prefixes(FreeSpace(p))
  <2>1. q \in Cidr /\ ContainsPrefix(FreeSpace(p), q)
    BY DEF Prefixes
  <2> QED
    BY <2>1, FreeSpaceInside, CidrParts
<1>3. U = { q \in Prefixes(FreeSpace(p)) : q.bits <= m }
  BY DEF UsablePrefixes
<1> DEFINE S == [q \in U |-> BlocksOf(q, m)]
           W == [q \in U |-> ShiftedOne(m - q.bits)]
           F == Joint(U, S)
<1>4. ASSUME IsFiniteSet(U),
             \A q \in U : IsFiniteSet(S[q]) /\ Cardinality(S[q]) = W[q],
             \A q, r \in U : S[q] \cap S[r] # {} => q = r
      PROVE  MapThenSumSet(LAMBDA q : ShiftedOne(maxBits(p) - q.bits), UsablePrefixes(p)) = F[U]
  <2> DEFINE Eq(f) == f = [T \in SUBSET U |->
                            IF T = {} THEN 0
                            ELSE ShiftedOne(m - (CHOOSE x \in T : TRUE).bits)
                                   + f[T \ {CHOOSE x \in T : TRUE}]]
  <2>1. ASSUME NEW f
        PROVE  Eq(f) <=> Sums(f, U, W)
    <3>1. ASSUME NEW T \in SUBSET U, T # {}
          PROVE  ShiftedOne(m - (CHOOSE x \in T : TRUE).bits) = W[CHOOSE x \in T : TRUE]
      <4>1. PICK x \in T : x = CHOOSE y \in T : TRUE
        BY <3>1
      <4> HIDE DEF U
      <4> QED
        BY <4>1
    <3> HIDE DEF W, U
    <3>2. [T \in SUBSET U |->
             IF T = {} THEN 0
             ELSE ShiftedOne(m - (CHOOSE x \in T : TRUE).bits) + f[T \ {CHOOSE x \in T : TRUE}]]
          = [T \in SUBSET U |->
             IF T = {} THEN 0
             ELSE W[CHOOSE x \in T : TRUE] + f[T \ {CHOOSE x \in T : TRUE}]]
      BY <3>1
    <3> QED
      BY <3>2, Zenon DEF Sums
  <2>2. Sums(F, U, W)
    <3> HIDE DEF S, W, U
    <3> QED
      BY <1>4, SumOfSizes
  <2>3. \A f : Sums(f, U, W) => f = F
    <3> HIDE DEF S, W, U, F
    <3> SUFFICES ASSUME NEW g, Sums(g, U, W) PROVE g = F
      OBVIOUS
    <3>1. IsFiniteSet(U)
      BY <1>4
    <3> QED
      BY <2>2, <3>1, OneSum, Zenon
  <2>4. Eq(F) /\ \A f : Eq(f) => f = F
    <3> HIDE DEF S, W, U, F, Eq
    <3> QED
      BY <2>1, <2>2, <2>3, Zenon
  <2> HIDE DEF F, W, S
  <2> QED
    BY <2>4, Zenon DEF MapThenSumSet, MapThenFoldSet
<1>5. CASE m < p.Cidr.bits
  <2>1. U = {}
    BY <1>1, <1>2, <1>3, <1>5
  <2>2. Free = {}
    <3> SUFFICES ASSUME NEW b \in Free PROVE FALSE
      OBVIOUS
    <3>1. b \in Cidr /\ b.bits = m /\ ContainsPrefix(FreeSpace(p), b)
      BY DEF FreeBlocks
    <3>2. p.Cidr.bits <= b.bits
      BY <3>1, FreeSpaceInside
    <3> QED
      BY <1>1, <1>5, <3>1, <3>2
  <2>3. IsFiniteSet(U)
    BY <2>1, FS_EmptySet
  <2>4. MapThenSumSet(LAMBDA q : ShiftedOne(maxBits(p) - q.bits), UsablePrefixes(p)) = F[U]
    <3>1. \A q \in U : IsFiniteSet(S[q]) /\ Cardinality(S[q]) = W[q]
      BY <2>1
    <3>2. \A q, r \in U : S[q] \cap S[r] # {} => q = r
      BY <2>1
    <3> HIDE DEF U, F, S, W
    <3> QED
      BY <1>4, <2>3, <3>1, <3>2
  <2>5. F[U] = 0
    <3>1. UNION { S[q] : q \in U } = {}
      BY <2>1
    <3>2. F[U] = Cardinality(UNION { S[q] : q \in U })
      BY DEF Joint
    <3> QED
      BY <3>1, <3>2, FS_EmptySet
  <2>6. 0 % (2 ^ WordBits) = 0
    <3>1. WordBits \in Exponents
      BY UsageAssumption, WidthsAssumption DEF Exponents
    <3>2. 2 ^ WordBits \in Nat /\ 2 ^ WordBits > 0
      BY <3>1, PowerPositive
    <3>3. \A k \in Nat : k > 0 => 0 % k = 0
      OBVIOUS
    <3> QED
      BY <3>2, <3>3
  <2>7. totalAvailable(p) = 0
    BY <2>4, <2>5, <2>6 DEF totalAvailable
  <2> QED
    BY <2>2, <2>7, FS_EmptySet
<1>6. CASE p.Cidr.bits <= m
  <2>1. m \in Nat /\ m <= BitLen(p.Cidr.fam) /\ m - p.Cidr.bits \in Nat
        /\ m - p.Cidr.bits < WordBits
    BY <1>1, <1>6
  <2> DEFINE d == m - p.Cidr.bits
  <2>2. /\ Free = UNION { BlocksOf(q, m) : q \in U }
        /\ \A q, r \in U : BlocksOf(q, m) \cap BlocksOf(r, m) # {} => q = r
        /\ \A q \in U : q \in Cidr /\ q.fam = p.Cidr.fam /\ p.Cidr.bits <= q.bits
        /\ Free \subseteq BlocksOf(p.Cidr, m)
    <3> HIDE DEF m
    <3> QED
      BY <1>3, <2>1, FreeBlocksSplit
  <2>3. IsFiniteSet(BlocksOf(p.Cidr, m)) /\ Cardinality(BlocksOf(p.Cidr, m)) = 2 ^ d
    <3> HIDE DEF m
    <3> QED
      BY <1>1, <1>6, <2>1, BlocksCounted
  <2>4. ASSUME NEW q \in U
        PROVE  /\ IsFiniteSet(S[q]) /\ Cardinality(S[q]) = W[q]
               /\ S[q] \subseteq Free /\ S[q] # {}
    <3>1. q \in Cidr /\ q.fam = p.Cidr.fam /\ q.bits <= m /\ q.bits \in Nat
          /\ p.Cidr.bits <= q.bits
      BY <1>2, <1>3, <2>2
    <3>2. /\ IsFiniteSet(BlocksOf(q, m))
          /\ Cardinality(BlocksOf(q, m)) = 2 ^ (m - q.bits)
      <4> HIDE DEF m
      <4> QED
        BY <2>1, <3>1, BlocksCounted
    <3>3. m - q.bits \in Nat /\ m - q.bits < WordBits /\ m - q.bits \in Exponents
      <4>1. m - q.bits \in Nat /\ m - q.bits <= m - p.Cidr.bits /\ WordBits \in Nat
        BY <1>1, <2>1, <3>1, UsageAssumption
      <4> QED
        BY <1>1, <2>1, <4>1, UsageAssumption, WidthsAssumption DEF Exponents
    <3>4. 2 ^ (m - q.bits) \in Nat /\ 2 ^ (m - q.bits) > 0
      BY <3>3, PowerPositive
    <3>5. ShiftedOne(m - q.bits) = 2 ^ (m - q.bits)
      <4> HIDE DEF m
      <4>1. 2 ^ (m - q.bits) <= 2 ^ (m - q.bits)
        BY <3>4
      <4> QED
        BY <3>3, <3>4, <4>1, FitsWord DEF ShiftedOne
    <3>6. S[q] = BlocksOf(q, m) /\ W[q] = 2 ^ (m - q.bits)
      BY <3>5
    <3>7. S[q] # {}
      <4> SUFFICES ASSUME S[q] = {} PROVE FALSE
        OBVIOUS
      <4> HIDE DEF S, m, U, W
      <4> QED
        BY <3>2, <3>4, <3>6, FS_EmptySet
    <3>8. S[q] \subseteq Free
      <4> HIDE DEF S, m, Free
      <4> QED
        BY <2>2, <3>6
    <3> QED
      BY <3>2, <3>6, <3>7, <3>8
  <2>5. \A q, r \in U : S[q] \cap S[r] # {} => q = r
    BY <2>2
  <2>6. IsFiniteSet(Free) /\ Cardinality(Free) \in Nat /\ Cardinality(Free) <= 2 ^ d
    <3> HIDE DEF Free, m, d
    <3> QED
      BY <2>2, <2>3, FS_Subset, FS_CardinalityType
  <2>7. IsFiniteSet(U)
    <3> HIDE DEF Free, S, W, U
    <3> QED
      BY <2>4, <2>5, <2>6, FewApart
  <2>8. MapThenSumSet(LAMBDA q : ShiftedOne(maxBits(p) - q.bits), UsablePrefixes(p)) = F[U]
    <3>1. \A q \in U : IsFiniteSet(S[q]) /\ Cardinality(S[q]) = W[q]
      BY <2>4
    <3> HIDE DEF U, F, S, W
    <3> QED
      BY <1>4, <2>5, <2>7, <3>1
  <2>9. F[U] = Cardinality(Free)
    <3>1. \A q \in U : S[q] = BlocksOf(q, m)
      OBVIOUS
    <3>2. F[U] = Cardinality(UNION { S[q] : q \in U })
      BY DEF Joint
    <3>3. UNION { S[q] : q \in U } = UNION { BlocksOf(q, m) : q \in U }
      <4> HIDE DEF S, U, m
      <4> QED
        BY <3>1
    <3> HIDE DEF F, S, U, Free, m
    <3> QED
      BY <2>2, <3>2, <3>3
  <2>10. Cardinality(Free) % (2 ^ WordBits) = Cardinality(Free)
    <3> HIDE DEF Free, m
    <3> QED
      BY <2>1, <2>6, FitsWord
  <2>11. totalAvailable(p) = Cardinality(Free)
    <3> HIDE DEF Free, F
    <3> QED
      BY <2>8, <2>9, <2>10 DEF totalAvailable
  <2> QED
    BY <2>6, <2>11
<1> QED
  BY <1>1, <1>5, <1>6

-----------------------------------------------------------------------------
(***************************************************************************)
(* No root has as many children with two host bits as a word has values.   *)
(* It is needed: nothing of such a root is taken at first, and the count   *)
(* of 2^WordBits children wraps around to none.                            *)
(***************************************************************************)
CountsFit == \A r \in Roots : BitLen(r.fam) - 2 - r.bits < WordBits

\* The record is always the one of a root.
RootKept == \E r \in Roots : prefix.Cidr = Masked(r)

\* A step changes what is taken of the prefix, not the prefix.
LEMMA SameRoot ==
    /\ Init => RootKept
    /\ TypeOK /\ RootKept /\ [Next]_prefix => RootKept'
<1>1. Init => RootKept
  BY DEF Init, RootKept, newPrefix
<1>2. ASSUME TypeOK, [Next]_prefix
      PROVE  prefix'.Cidr = prefix.Cidr
  BY <1>2 DEF TypeOK, Next, AcquireChildPrefix, AcquireSpecificChildPrefix, ReleaseChildPrefix,
       AcquireIP, ReleaseIP, WithChild, WithoutChild, WithIP, WithoutIP
<1> QED
  BY <1>1, <1>2 DEF RootKept

\* In every record of a root that fits the count is exact.
LEMMA CountIsExact == CountsFit /\ TypeOK /\ RootKept => SmallestPrefixesExact
<1> SUFFICES ASSUME CountsFit, TypeOK, RootKept PROVE SmallestPrefixesExact
  OBVIOUS
<1>1. UsageRecord(prefix)
  BY DEF TypeOK, UsageRecord
<1>2. PICK r \in Roots : prefix.Cidr = Masked(r)
  BY DEF RootKept
<1>3. r \in RawPrefix
  BY UsageAssumption
<1>4. prefix.Cidr.fam = r.fam /\ prefix.Cidr.bits = r.bits
  BY <1>2, <1>3, MaskedParts
<1>5. maxBits(prefix) - prefix.Cidr.bits < WordBits
  BY <1>4 DEF CountsFit, maxBits
<1>6. totalAvailable(prefix) = Cardinality(FreeBlocks(prefix, maxBits(prefix)))
  BY <1>1, <1>5, TotalIsCount
<1> QED
  BY <1>6 DEF SmallestPrefixesExact, availablePrefixes

(***************************************************************************)
(* AvailableSmallestPrefixes is the number of children with two host bits  *)
(* that lie free in the prefix, or MaxInt32 if that is less, for every     *)
(* root whose count a uint64 can hold: the sum over the canonical list of  *)
(* free prefixes counts every such block once and never wraps around.      *)
(***************************************************************************)
THEOREM SmallestPrefixesCounted == CountsFit /\ Spec => []SmallestPrefixesExact
<1>1. CASE CountsFit
  <2>1. Spec => []TypeOK
    BY TypeCorrect
  <2>2. Init => RootKept
    BY SameRoot
  <2>3. TypeOK /\ RootKept /\ [Next]_prefix => RootKept'
    BY SameRoot
  <2>4. TypeOK /\ RootKept => SmallestPrefixesExact
    BY <1>1, CountIsExact
  <2> QED
    BY <2>1, <2>2, <2>3, <2>4, PTL DEF Spec
<1>2. CASE ~ CountsFit
  BY <1>2
<1> QED
  BY <1>1, <1>2

=============================================================================
