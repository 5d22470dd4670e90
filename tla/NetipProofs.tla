---------------------------- MODULE NetipProofs ----------------------------
(***************************************************************************)
(* Lemmas about the blocks of addresses of Netip, for every address width: *)
(* a block is never empty, and two blocks are nested or disjoint.  The     *)
(* theorems about the ipamer rest on them.                                 *)
(***************************************************************************)
EXTENDS Netip, WellFoundedInduction, TLAPS

(***************************************************************************)
(* Induction by a smallest counterexample.                                 *)
(***************************************************************************)
LEMMA SmallestOf ==
    ASSUME NEW T, T \subseteq Nat, T # {}
    PROVE  \E m \in T : \A n \in T : m <= n
<1>1. PICK m \in T : \A n \in T : ~ (<<n, m>> \in OpToRel(<, Nat))
  BY NatLessThanWellFounded, WFMin
<1>2. \A n \in T : ~ (n < m)
  BY <1>1 DEF OpToRel
<1> QED
  BY <1>2

\* The exponents that occur, and one more.
Exponents == 0 .. (V4Bits + V6Bits + 1)

\* A power of two is positive.
LEMMA PowerPositive ==
    ASSUME NEW e \in Exponents
    PROVE  2 ^ e \in Nat /\ 2 ^ e > 0
<1> DEFINE bad == { n \in Exponents : ~ (2 ^ n \in Nat /\ 2 ^ n > 0) }
<1> SUFFICES ASSUME bad # {} PROVE FALSE
  OBVIOUS
<1>1. bad \subseteq Nat /\ bad \subseteq Exponents
  BY WidthsAssumption DEF Exponents
<1>2. PICK m \in bad : \A n \in bad : m <= n
  <2> HIDE DEF bad
  <2> QED
    BY <1>1, SmallestOf
<1>3. 0 \notin bad
  BY PowersAssumption
<1>4. m # 0 /\ m \in Exponents
  <2> HIDE DEF bad
  <2> QED
    BY <1>1, <1>3
<1>5. m - 1 \in 0 .. (V4Bits + V6Bits) /\ m - 1 \in Exponents
  BY <1>4, WidthsAssumption DEF Exponents
<1>6. m - 1 \notin bad
  <2> HIDE DEF bad
  <2> QED
    BY <1>1, <1>2, <1>5
<1>7. 2 ^ (m - 1) \in Nat /\ 2 ^ (m - 1) > 0
  BY <1>5, <1>6
<1>8. 2 ^ ((m - 1) + 1) = 2 * 2 ^ (m - 1)
  BY <1>5, PowersAssumption
<1>9. (m - 1) + 1 = m
  BY <1>4, WidthsAssumption DEF Exponents
<1> QED
  BY <1>2, <1>7, <1>8, <1>9

\* A smaller power of two divides a larger one.
LEMMA PowerDivides ==
    ASSUME NEW d \in Exponents, NEW e \in Exponents, d <= e
    PROVE  \E k \in Nat \ {0} : 2 ^ e = k * 2 ^ d
<1> DEFINE Multiple(n) == \E k \in Nat \ {0} : 2 ^ n = k * 2 ^ d
           bad == { n \in d .. (V4Bits + V6Bits + 1) : ~ Multiple(n) }
<1>1. d \in Nat /\ e \in d .. (V4Bits + V6Bits + 1)
  BY WidthsAssumption DEF Exponents
<1> SUFFICES ASSUME bad # {} PROVE FALSE
  BY <1>1
<1>2. bad \subseteq Nat /\ bad \subseteq d .. (V4Bits + V6Bits + 1)
  BY <1>1, WidthsAssumption
<1>3. PICK m \in bad : \A n \in bad : m <= n
  <2> HIDE DEF bad
  <2> QED
    BY <1>2, SmallestOf
<1>4. Multiple(d)
  <2>1. 2 ^ d \in Nat
    BY PowerPositive
  <2>2. 2 ^ d = 1 * 2 ^ d
    BY <2>1
  <2> QED
    BY <2>2
<1>5. ~ Multiple(m) /\ m \in d .. (V4Bits + V6Bits + 1)
  BY <1>3
<1>6. m # d
  <2> HIDE DEF Multiple
  <2> QED
    BY <1>4, <1>5
<1>7. m - 1 \in d .. (V4Bits + V6Bits + 1) /\ m - 1 \in 0 .. (V4Bits + V6Bits) /\ (m - 1) + 1 = m
  BY <1>1, <1>5, <1>6, WidthsAssumption
<1>8. m - 1 \notin bad
  <2> HIDE DEF bad
  <2> QED
    BY <1>2, <1>3, <1>7
<1>9. Multiple(m - 1)
  <2> HIDE DEF Multiple
  <2> QED
    BY <1>7, <1>8
<1>10. PICK k \in Nat \ {0} : 2 ^ (m - 1) = k * 2 ^ d
  BY <1>9
<1>11. 2 ^ m = 2 * 2 ^ (m - 1)
  BY <1>7, PowersAssumption
<1>12. 2 ^ m = (2 * k) * 2 ^ d
  <2>1. 2 ^ d \in Nat
    BY PowerPositive
  <2> QED
    BY <1>10, <1>11, <2>1
<1>13. 2 * k \in Nat \ {0}
  OBVIOUS
<1>14. Multiple(m)
  BY <1>12, <1>13
<1> QED
  <2> HIDE DEF Multiple
  <2> QED
    BY <1>5, <1>14

-----------------------------------------------------------------------------
\* The parts of a prefix.
LEMMA RawParts ==
    ASSUME NEW p \in RawPrefix
    PROVE  /\ p.fam \in Families /\ BitLen(p.fam) \in Nat
           /\ p.bits \in 0 .. BitLen(p.fam) /\ p.addr \in Nat
           /\ p.addr < 2 ^ BitLen(p.fam)
           /\ p = [fam |-> p.fam, addr |-> p.addr, bits |-> p.bits]
           /\ BitLen(p.fam) - p.bits \in Exponents
           /\ BitLen(p.fam) \in Exponents
<1>1. PICK f \in Families : p \in [fam : {f}, addr : 0 .. (2 ^ BitLen(f) - 1), bits : 0 .. BitLen(f)]
  BY DEF RawPrefix
<1>2. p.fam = f /\ p.addr \in 0 .. (2 ^ BitLen(f) - 1) /\ p.bits \in 0 .. BitLen(f)
      /\ p = [fam |-> p.fam, addr |-> p.addr, bits |-> p.bits]
  BY <1>1
<1>3. BitLen(f) \in Nat /\ BitLen(f) <= V4Bits + V6Bits
  BY WidthsAssumption DEF BitLen
<1>4. BitLen(f) - p.bits \in Exponents /\ BitLen(f) \in Exponents
  BY <1>2, <1>3, WidthsAssumption DEF Exponents
<1>5. 2 ^ BitLen(f) \in Nat
  BY <1>4, PowerPositive
<1> QED
  BY <1>2, <1>3, <1>4, <1>5

\* A record of these parts is a prefix.
LEMMA RawFromParts ==
    ASSUME NEW f \in Families, NEW a \in Nat, NEW b \in Nat, b <= BitLen(f), a < 2 ^ BitLen(f)
    PROVE  [fam |-> f, addr |-> a, bits |-> b] \in RawPrefix
<1>1. BitLen(f) \in Nat /\ BitLen(f) \in Exponents
  BY WidthsAssumption DEF BitLen, Exponents
<1>2. 2 ^ BitLen(f) \in Nat
  BY <1>1, PowerPositive
<1>3. a \in 0 .. (2 ^ BitLen(f) - 1) /\ b \in 0 .. BitLen(f)
  BY <1>1, <1>2
<1> QED
  BY <1>3 DEF RawPrefix

\* A block has at least one address.
LEMMA SizePositive ==
    ASSUME NEW p \in RawPrefix
    PROVE  Size(p) \in Nat /\ Size(p) > 0
  BY RawParts, PowerPositive DEF Size

\* The size of a block is a multiple of the size of a block with more bits.
LEMMA SizeDivides ==
    ASSUME NEW p \in RawPrefix, NEW q \in RawPrefix, p.fam = q.fam, p.bits <= q.bits
    PROVE  \E k \in Nat \ {0} : Size(p) = k * Size(q)
<1>1. /\ BitLen(p.fam) \in Nat /\ p.bits \in 0 .. BitLen(p.fam) /\ q.bits \in 0 .. BitLen(p.fam)
      /\ BitLen(p.fam) - p.bits \in Exponents /\ BitLen(p.fam) - q.bits \in Exponents
  BY RawParts
<1>2. BitLen(p.fam) - q.bits <= BitLen(p.fam) - p.bits
  BY <1>1
<1> HIDE DEF Exponents
<1> QED
  BY <1>1, <1>2, PowerDivides DEF Size

\* A multiple, written with % and with a factor.
LEMMA Multiples ==
    ASSUME NEW a \in Nat, NEW s \in Nat, s > 0
    PROVE  /\ a \div s \in Nat /\ a - (a % s) = (a \div s) * s
           /\ a - (a % s) \in 0 .. a
           /\ \A i \in Nat : (i * s) % s = 0
           /\ a % s = 0 => a = (a \div s) * s
  OBVIOUS

(***************************************************************************)
(* Masked clears the host bits: the address becomes a multiple of the size *)
(* and the rest stays.                                                     *)
(***************************************************************************)
LEMMA MaskedParts ==
    ASSUME NEW p \in RawPrefix
    PROVE  /\ Masked(p).fam = p.fam /\ Masked(p).bits = p.bits
           /\ Masked(p).addr \in Nat /\ Masked(p).addr <= p.addr
           /\ Masked(p).addr = p.addr - (p.addr % Size(p))
           /\ \E i \in Nat : Masked(p).addr = i * Size(p)
           /\ Size(Masked(p)) = Size(p)
           /\ Masked(p) \in RawPrefix
<1> DEFINE m == p.addr - (p.addr % Size(p))
<1>1. Size(p) \in Nat /\ Size(p) > 0
  BY SizePositive
<1>2. /\ p.fam \in Families /\ BitLen(p.fam) \in Nat
      /\ p.bits \in 0 .. BitLen(p.fam) /\ p.addr \in Nat
      /\ p.addr < 2 ^ BitLen(p.fam)
      /\ p = [fam |-> p.fam, addr |-> p.addr, bits |-> p.bits]
      /\ BitLen(p.fam) \in Exponents
  BY RawParts
<1>3. m \in 0 .. p.addr /\ \E i \in Nat : m = i * Size(p)
  BY <1>1, <1>2, Multiples
<1>4. Masked(p) = [fam |-> p.fam, addr |-> m, bits |-> p.bits]
  BY <1>2 DEF Masked
<1>5. 2 ^ BitLen(p.fam) \in Nat
  BY <1>2, PowerPositive
<1>6. m < 2 ^ BitLen(p.fam) /\ m \in Nat /\ m <= p.addr
  BY <1>2, <1>3, <1>5
<1> HIDE DEF m
<1>7. Masked(p) \in RawPrefix
  BY <1>2, <1>4, <1>6, RawFromParts
<1>8. Masked(p).fam = p.fam /\ Masked(p).bits = p.bits /\ Masked(p).addr = m
  BY <1>4
<1>9. Size(Masked(p)) = Size(p)
  BY <1>8 DEF Size
<1> QED
  BY <1>3, <1>6, <1>7, <1>8, <1>9 DEF m

\* Clearing the host bits leaves a prefix that can be parsed.
LEMMA MaskedIsRaw ==
    ASSUME NEW p \in RawPrefix
    PROVE  Masked(p) \in RawPrefix
  BY MaskedParts

\* Every key of the storage is a prefix that can be parsed.
LEMMA CidrIsRaw == Cidr \subseteq RawPrefix
  BY MaskedIsRaw DEF Cidr

\* PrefixFrom and newPrefix always use a key of the storage.
LEMMA MaskedIsCidr ==
    ASSUME NEW p \in RawPrefix
    PROVE  Masked(p) \in Cidr
  BY DEF Cidr

\* Masking a second time changes nothing.
LEMMA MaskedOfCidr ==
    ASSUME NEW k \in Cidr
    PROVE  Masked(k) = k
<1>1. PICK p \in RawPrefix : k = Masked(p)
  BY DEF Cidr
<1>2. k \in RawPrefix /\ Size(k) \in Nat /\ Size(k) > 0
  BY CidrIsRaw, SizePositive
<1>3. PICK i \in Nat : k.addr = i * Size(k)
  BY <1>1, MaskedParts
<1>4. k.addr % Size(k) = 0
  BY <1>2, <1>3, Multiples
<1>5. k.addr \in Nat /\ k = [fam |-> k.fam, addr |-> k.addr, bits |-> k.bits]
  BY <1>2, RawParts
<1>6. k.addr - (k.addr % Size(k)) = k.addr
  BY <1>4, <1>5
<1> QED
  BY <1>5, <1>6 DEF Masked

-----------------------------------------------------------------------------
\* The addresses of a prefix.
LEMMA RangeMembers ==
    ASSUME NEW p \in RawPrefix
    PROVE  /\ \A x : x \in RangeOfPrefix(p) <=>
                       \E a \in Int : /\ x = <<p.fam, a>>
                                      /\ Masked(p).addr <= a
                                      /\ a < Masked(p).addr + Size(p)
           /\ \A a \in Int : <<p.fam, a>> \in RangeOfPrefix(p) <=>
                               Masked(p).addr <= a /\ a < Masked(p).addr + Size(p)
           /\ \A x \in RangeOfPrefix(p) : x[1] = p.fam /\ x[2] \in Int
<1>1. Masked(p).addr \in Nat /\ Size(p) \in Nat /\ Size(p) > 0
  BY MaskedParts, SizePositive
<1>2. From(p)[2] = Masked(p).addr /\ To(p)[2] = Masked(p).addr + Size(p) - 1
  BY DEF From, To
<1>3. RangeOfPrefix(p) = { <<p.fam, a>> : a \in Masked(p).addr .. (Masked(p).addr + Size(p) - 1) }
  BY <1>2 DEF RangeOfPrefix
<1> QED
  BY <1>1, <1>3

\* A block holds its first and its last address.
LEMMA EndsInRange ==
    ASSUME NEW p \in RawPrefix
    PROVE  From(p) \in RangeOfPrefix(p) /\ To(p) \in RangeOfPrefix(p)
<1>1. Masked(p).addr \in Nat /\ Size(p) \in Nat /\ Size(p) > 0
  BY MaskedParts, SizePositive
<1> QED
  BY <1>1, RangeMembers DEF From, To

\* The host bits do not matter for the addresses of a prefix.
LEMMA MaskedRange ==
    ASSUME NEW p \in RawPrefix
    PROVE  RangeOfPrefix(Masked(p)) = RangeOfPrefix(p)
<1>1. Masked(p) \in Cidr
  BY MaskedIsCidr
<1>2. Masked(Masked(p)) = Masked(p)
  BY <1>1, MaskedOfCidr
<1>3. Masked(p).fam = p.fam /\ Size(Masked(p)) = Size(p)
  BY MaskedParts
<1> QED
  BY <1>2, <1>3 DEF RangeOfPrefix, From, To

\* Two multiples of s that are less than s apart.
LEMMA MultiplesApart ==
    ASSUME NEW i \in Int, NEW j \in Int, NEW s \in Nat, s > 0
    PROVE  /\ i * s < j * s => i + 1 <= j
           /\ i <= j => i * s <= j * s
           /\ (i + j) * s = i * s + j * s
           /\ i * (j * s) = (i * j) * s
           /\ i * j \in Int
  OBVIOUS

(***************************************************************************)
(* Two blocks that overlap are nested: the one with more bits lies in the  *)
(* other.                                                                  *)
(***************************************************************************)
LEMMA OverlapIsNested ==
    ASSUME NEW p \in RawPrefix, NEW q \in RawPrefix, Overlaps(p, q), p.bits <= q.bits
    PROVE  RangeOfPrefix(q) \subseteq RangeOfPrefix(p) /\ p.fam = q.fam
<1> DEFINE s == Size(q)
           a == Masked(q).addr
           b == Masked(p).addr
<1>1. PICK x : x \in RangeOfPrefix(p) /\ x \in RangeOfPrefix(q)
  BY DEF Overlaps
<1>2. p.fam = q.fam
  BY <1>1, RangeMembers
<1>3. PICK n \in Int : a <= n /\ n < a + s /\ b <= n /\ n < b + Size(p)
  BY <1>1, RangeMembers
<1>4. PICK k \in Nat \ {0} : Size(p) = k * s
  BY <1>2, SizeDivides
<1>5. PICK i \in Nat : a = i * s
  BY MaskedParts
<1>6. PICK j \in Nat : b = j * Size(p)
  BY MaskedParts
<1>7. s \in Nat /\ s > 0
  BY SizePositive
<1> HIDE DEF s, a, b
<1>8. b = (j * k) * s /\ j * k \in Int
  BY <1>4, <1>6, <1>7, MultiplesApart
<1>9. b <= a
  <2>1. (j * k) * s < (i + 1) * s
    <3>1. (i + 1) * s = a + s
      BY <1>5, <1>7
    <3>2. a \in Int /\ b \in Int
      BY <1>5, <1>7, <1>8
    <3> QED
      BY <1>3, <1>7, <1>8, <3>1, <3>2
  <2>2. j * k + 1 <= i + 1
    BY <1>7, <1>8, <2>1, MultiplesApart
  <2>3. j * k <= i
    BY <1>8, <2>2
  <2> QED
    BY <1>5, <1>7, <1>8, <2>3, MultiplesApart
<1>10. a + s <= b + Size(p)
  <2>1. b + Size(p) = (j * k + k) * s
    BY <1>4, <1>7, <1>8, MultiplesApart
  <2>2. j * k + k \in Int
    BY <1>8
  <2>3. i * s < (j * k + k) * s
    <3>1. a \in Int /\ b \in Int /\ Size(p) \in Int
      BY <1>4, <1>5, <1>7, <1>8
    <3> QED
      BY <1>3, <1>5, <1>7, <2>1, <3>1
  <2>4. i + 1 <= j * k + k
    BY <1>7, <2>2, <2>3, MultiplesApart
  <2>5. (i + 1) * s <= (j * k + k) * s
    BY <1>7, <2>2, <2>4, MultiplesApart
  <2>6. (i + 1) * s = a + s
    BY <1>5, <1>7
  <2> QED
    BY <2>1, <2>5, <2>6
<1>11. a \in Int /\ b \in Int /\ Size(p) \in Int
  BY <1>4, <1>5, <1>7, <1>8
<1>12. ASSUME NEW y \in RangeOfPrefix(q) PROVE y \in RangeOfPrefix(p)
  <2>1. PICK m \in Int : y = <<q.fam, m>> /\ a <= m /\ m < a + s
    BY RangeMembers DEF a, s
  <2>2. b <= m /\ m < b + Size(p)
    BY <1>7, <1>9, <1>10, <1>11, <2>1
  <2> QED
    BY <1>2, <2>1, <2>2, RangeMembers DEF b
<1> QED
  BY <1>2, <1>12

(***************************************************************************)
(* RemoveFreePrefix cuts the first block of the wanted length out of a     *)
(* free block, and that is a part of the free block.                       *)
(***************************************************************************)
LEMMA FirstBlockInside ==
    ASSUME NEW q \in Cidr, NEW length \in Nat, q.bits <= length, length <= BitLen(q.fam)
    PROVE  LET cp == [q EXCEPT !.bits = length]
           IN  /\ cp \in RawPrefix
               /\ RangeOfPrefix(cp) \subseteq RangeOfPrefix(q)
<1> DEFINE cp == [q EXCEPT !.bits = length]
<1>1. q \in RawPrefix /\ Masked(q) = q
  BY CidrIsRaw, MaskedOfCidr
<1>2. /\ q.fam \in Families /\ q.addr \in Nat /\ q.addr < 2 ^ BitLen(q.fam)
      /\ q = [fam |-> q.fam, addr |-> q.addr, bits |-> q.bits]
  BY <1>1, RawParts
<1>3. cp = [fam |-> q.fam, addr |-> q.addr, bits |-> length]
  BY <1>2
<1>4. cp \in RawPrefix /\ cp.fam = q.fam /\ cp.bits = length /\ cp.addr = q.addr
  BY <1>2, <1>3, RawFromParts
<1> HIDE DEF cp
<1>5. Overlaps(q, cp)
  <2> DEFINE x == <<q.fam, q.addr>>
  <2>1. x \in RangeOfPrefix(q)
    BY <1>1, EndsInRange DEF From
  <2>2. Masked(cp).addr = q.addr - (q.addr % Size(cp)) /\ Size(cp) \in Nat /\ Size(cp) > 0
    BY <1>4, MaskedParts, SizePositive
  <2>3. q.addr - (q.addr % Size(cp)) <= q.addr /\ q.addr < q.addr - (q.addr % Size(cp)) + Size(cp)
    BY <1>2, <2>2
  <2>4. x \in RangeOfPrefix(cp)
    BY <1>2, <1>4, <2>2, <2>3, RangeMembers
  <2> QED
    BY <2>1, <2>4 DEF Overlaps
<1>6. RangeOfPrefix(cp) \subseteq RangeOfPrefix(q)
  BY <1>1, <1>4, <1>5, OverlapIsNested
<1> QED
  BY <1>4, <1>6 DEF cp

\* A block with fewer bits is strictly larger.
LEMMA FewerBitsLarger ==
    ASSUME NEW p \in RawPrefix, NEW q \in RawPrefix, p.fam = q.fam, p.bits < q.bits
    PROVE  Size(p) > Size(q)
<1> DEFINE e == BitLen(p.fam) - p.bits
<1>1. /\ BitLen(p.fam) \in Nat /\ p.bits \in 0 .. BitLen(p.fam) /\ q.bits \in 0 .. BitLen(p.fam)
      /\ e \in Exponents /\ BitLen(p.fam) - q.bits \in Exponents
      /\ BitLen(p.fam) <= V4Bits + V6Bits
  BY RawParts, WidthsAssumption DEF BitLen
<1>2. e - 1 \in 0 .. (V4Bits + V6Bits) /\ e - 1 \in Exponents /\ (e - 1) + 1 = e
  BY <1>1, WidthsAssumption DEF Exponents
<1>3. BitLen(p.fam) - q.bits <= e - 1
  BY <1>1
<1>4. Size(p) = 2 ^ e /\ Size(q) = 2 ^ (BitLen(p.fam) - q.bits)
  BY DEF Size
<1> HIDE DEF e, Exponents
<1>5. 2 ^ e = 2 * 2 ^ (e - 1)
  BY <1>2, PowersAssumption
<1>6. PICK k \in Nat \ {0} : 2 ^ (e - 1) = k * 2 ^ (BitLen(p.fam) - q.bits)
  BY <1>1, <1>2, <1>3, PowerDivides
<1>7. Size(q) \in Nat /\ Size(q) > 0
  BY SizePositive
<1>8. k * Size(q) >= Size(q)
  BY <1>7
<1>9. Size(p) = 2 * (k * Size(q)) /\ k * Size(q) \in Nat
  BY <1>4, <1>5, <1>6, <1>7
<1> QED
  BY <1>7, <1>8, <1>9

\* A block that lies in another has at least as many bits.
LEMMA InsideHasMoreBits ==
    ASSUME NEW p \in RawPrefix, NEW q \in RawPrefix, RangeOfPrefix(q) \subseteq RangeOfPrefix(p)
    PROVE  p.bits <= q.bits /\ p.fam = q.fam
<1> DEFINE a == Masked(q).addr
           b == Masked(p).addr
<1>1. From(q) \in RangeOfPrefix(p) /\ To(q) \in RangeOfPrefix(p)
  BY EndsInRange
<1>2. p.fam = q.fam
  BY <1>1, RangeMembers DEF From
<1>3. a \in Nat /\ b \in Nat /\ Size(q) \in Nat /\ Size(q) > 0 /\ Size(p) \in Nat
  BY MaskedParts, SizePositive
<1>4. b <= a /\ a + Size(q) - 1 < b + Size(p)
  BY <1>1, <1>2, <1>3, RangeMembers DEF From, To
<1>5. Size(q) <= Size(p)
  BY <1>3, <1>4
<1>6. p.bits \in Int /\ q.bits \in Int
  BY RawParts
<1>7. ~ (q.bits < p.bits)
  <2> SUFFICES ASSUME q.bits < p.bits PROVE FALSE
    OBVIOUS
  <2>1. Size(q) > Size(p)
    BY <1>2, FewerBitsLarger
  <2> QED
    BY <1>3, <1>5, <2>1
<1> QED
  BY <1>2, <1>6, <1>7

\* Two blocks of the same addresses are the same key of the storage.
LEMMA SameRangeSameKey ==
    ASSUME NEW p \in Cidr, NEW q \in Cidr, Overlaps(p, q), p.bits = q.bits
    PROVE  p = q
<1>1. p \in RawPrefix /\ q \in RawPrefix /\ Masked(p) = p /\ Masked(q) = q
  BY CidrIsRaw, MaskedOfCidr
<1>2. p.bits \in Int /\ p.addr \in Nat /\ q.addr \in Nat
      /\ p = [fam |-> p.fam, addr |-> p.addr, bits |-> p.bits]
      /\ q = [fam |-> q.fam, addr |-> q.addr, bits |-> q.bits]
  BY <1>1, RawParts
<1>3. Overlaps(q, p)
  BY DEF Overlaps
<1>4. RangeOfPrefix(q) \subseteq RangeOfPrefix(p) /\ RangeOfPrefix(p) \subseteq RangeOfPrefix(q)
      /\ p.fam = q.fam
  BY <1>1, <1>2, <1>3, OverlapIsNested
<1>5. <<p.fam, p.addr>> \in RangeOfPrefix(q) /\ <<p.fam, q.addr>> \in RangeOfPrefix(p)
  BY <1>1, <1>4, EndsInRange DEF From
<1>6. q.addr <= p.addr /\ p.addr <= q.addr
  BY <1>1, <1>2, <1>4, <1>5, RangeMembers
<1>7. p.addr = q.addr
  BY <1>2, <1>6
<1> QED
  BY <1>2, <1>4, <1>7

-----------------------------------------------------------------------------
(***************************************************************************)
(* The canonical list of the prefixes of a set of addresses, and the parts *)
(* of one block.                                                           *)
(***************************************************************************)
\* A prefix at a multiple of its size has no host bits.
LEMMA AlignedIsCidr ==
    ASSUME NEW q \in RawPrefix, NEW i \in Nat, q.addr = i * Size(q)
    PROVE  q \in Cidr
<1>1. Size(q) \in Nat /\ Size(q) > 0
  BY SizePositive
<1>2. q.addr % Size(q) = 0
  BY <1>1, Multiples
<1>3. q.addr \in Nat /\ q = [fam |-> q.fam, addr |-> q.addr, bits |-> q.bits]
  BY RawParts
<1>4. q.addr - (q.addr % Size(q)) = q.addr
  BY <1>2, <1>3
<1>5. Masked(q) = q
  BY <1>3, <1>4 DEF Masked
<1> QED
  BY <1>5, MaskedIsCidr

\* The parts of a key of the storage: its address is a multiple of its size.
LEMMA CidrParts ==
    ASSUME NEW q \in Cidr
    PROVE  /\ q \in RawPrefix /\ Masked(q) = q
           /\ q.fam \in Families /\ BitLen(q.fam) \in Nat
           /\ q.bits \in 0 .. BitLen(q.fam) /\ q.addr \in Nat
           /\ q = [fam |-> q.fam, addr |-> q.addr, bits |-> q.bits]
           /\ Size(q) \in Nat /\ Size(q) > 0
           /\ \E i \in Nat : q.addr = i * Size(q)
<1>1. q \in RawPrefix /\ Masked(q) = q
  BY CidrIsRaw, MaskedOfCidr
<1>2. \E i \in Nat : q.addr = i * Size(q)
  BY <1>1, MaskedParts
<1> QED
  BY <1>1, <1>2, RawParts, SizePositive

\* The first block of a block has no host bits either.
LEMMA FirstBlockIsCidr ==
    ASSUME NEW q \in Cidr, NEW length \in Nat, q.bits <= length, length <= BitLen(q.fam)
    PROVE  [q EXCEPT !.bits = length] \in Cidr
<1> DEFINE cp == [q EXCEPT !.bits = length]
<1>1. cp \in RawPrefix
  BY FirstBlockInside
<1>2. cp.fam = q.fam /\ cp.bits = length /\ cp.addr = q.addr
  BY CidrParts
<1> HIDE DEF cp
<1>3. PICK k \in Nat \ {0} : Size(q) = k * Size(cp)
  BY <1>1, <1>2, CidrParts, SizeDivides
<1>4. PICK i \in Nat : q.addr = i * Size(q)
  BY CidrParts
<1>5. Size(cp) \in Nat /\ Size(cp) > 0
  BY <1>1, SizePositive
<1>6. cp.addr = (i * k) * Size(cp) /\ i * k \in Nat
  BY <1>2, <1>3, <1>4, <1>5
<1>7. cp \in Cidr
  BY <1>1, <1>6, AlignedIsCidr
<1> QED
  BY <1>7 DEF cp

\* The block one bit larger around a block.
LEMMA EnclosingParts ==
    ASSUME NEW q \in Cidr, q.bits # 0
    PROVE  /\ Enclosing(q) \in Cidr
           /\ Enclosing(q).bits = q.bits - 1
           /\ RangeOfPrefix(q) \subseteq RangeOfPrefix(Enclosing(q))
<1> DEFINE e == [q EXCEPT !.bits = @ - 1]
<1>1. /\ q \in RawPrefix /\ q.fam \in Families /\ BitLen(q.fam) \in Nat /\ q.addr \in Nat
      /\ q.bits \in 0 .. BitLen(q.fam) /\ q.addr < 2 ^ BitLen(q.fam)
      /\ q = [fam |-> q.fam, addr |-> q.addr, bits |-> q.bits]
  BY CidrParts, RawParts
<1>2. e.fam = q.fam /\ e.addr = q.addr /\ e.bits = q.bits - 1
      /\ e = [fam |-> q.fam, addr |-> q.addr, bits |-> q.bits - 1]
  BY <1>1
<1>3. q.bits - 1 \in Nat /\ q.bits - 1 <= BitLen(q.fam)
  BY <1>1
<1>4. e \in RawPrefix
  BY <1>1, <1>2, <1>3, RawFromParts
<1> HIDE DEF e
<1>5. Overlaps(e, q)
  <2> DEFINE x == <<q.fam, q.addr>>
  <2>1. x \in RangeOfPrefix(q)
    BY <1>1, CidrParts, EndsInRange DEF From
  <2>2. Masked(e).addr = q.addr - (q.addr % Size(e)) /\ Size(e) \in Nat /\ Size(e) > 0
    BY <1>2, <1>4, MaskedParts, SizePositive
  <2>3. q.addr - (q.addr % Size(e)) <= q.addr /\ q.addr < q.addr - (q.addr % Size(e)) + Size(e)
    BY <1>1, <2>2
  <2>4. x \in RangeOfPrefix(e)
    BY <1>1, <1>2, <1>4, <2>2, <2>3, RangeMembers
  <2> QED
    BY <2>1, <2>4 DEF Overlaps
<1>6. RangeOfPrefix(q) \subseteq RangeOfPrefix(e)
  BY <1>1, <1>2, <1>4, <1>5, OverlapIsNested
<1>7. Enclosing(q) = Masked(e)
  BY DEF Enclosing, e
<1> QED
  BY <1>2, <1>4, <1>6, <1>7, MaskedIsCidr, MaskedParts, MaskedRange

(***************************************************************************)
(* A block with a host bit left has an upper half, and the blocks cut from *)
(* its start lie apart from it.                                            *)
(***************************************************************************)
LEMMA UpperHalf ==
    ASSUME NEW q \in Cidr, q.bits < BitLen(q.fam)
    PROVE  \E h \in Cidr :
               /\ h.bits = q.bits + 1
               /\ RangeOfPrefix(h) \subseteq RangeOfPrefix(q)
               /\ \A length \in Nat : (q.bits < length /\ length <= BitLen(q.fam)) =>
                    ~ Overlaps(h, [q EXCEPT !.bits = length])
<1> DEFINE e == BitLen(q.fam) - q.bits - 1
           s == 2 ^ e
           h == [fam |-> q.fam, addr |-> q.addr + s, bits |-> q.bits + 1]
<1>1. /\ q \in RawPrefix /\ q.fam \in Families /\ BitLen(q.fam) \in Nat /\ q.addr \in Nat
      /\ q.bits \in 0 .. BitLen(q.fam) /\ q.addr < 2 ^ BitLen(q.fam)
      /\ q = [fam |-> q.fam, addr |-> q.addr, bits |-> q.bits]
      /\ Masked(q) = q /\ Size(q) \in Nat /\ Size(q) > 0
  BY CidrParts, RawParts
<1>2. BitLen(q.fam) <= V4Bits + V6Bits
  BY WidthsAssumption DEF BitLen
<1>3. /\ e \in 0 .. (V4Bits + V6Bits) /\ e \in Exponents /\ e + 1 = BitLen(q.fam) - q.bits
      /\ BitLen(q.fam) \in Exponents /\ BitLen(q.fam) - q.bits \in Exponents
      /\ BitLen(q.fam) - q.bits <= BitLen(q.fam)
  BY <1>1, <1>2, WidthsAssumption DEF Exponents
<1> HIDE DEF e, Exponents
<1>4. s \in Nat /\ s > 0
  BY <1>3, PowerPositive
<1>5. Size(q) = 2 * s
  BY <1>3, PowersAssumption DEF Size
<1>6. PICK i \in Nat : q.addr = i * Size(q)
  BY CidrParts
<1>7. PICK k \in Nat \ {0} : 2 ^ BitLen(q.fam) = k * Size(q)
  BY <1>3, PowerDivides DEF Size
<1> HIDE DEF s
<1>8. q.addr + Size(q) <= 2 ^ BitLen(q.fam)
  <2>1. i + 1 <= k
    BY <1>1, <1>6, <1>7, MultiplesApart
  <2>2. (i + 1) * Size(q) <= k * Size(q)
    <3>1. i + 1 \in Int /\ k \in Int
      OBVIOUS
    <3> QED
      BY <1>1, <2>1, <3>1, MultiplesApart
  <2>3. (i + 1) * Size(q) = q.addr + Size(q)
    BY <1>1, <1>6
  <2> QED
    BY <1>7, <2>2, <2>3
<1>9. q.addr + s \in Nat /\ q.addr + s < 2 ^ BitLen(q.fam)
      /\ q.bits + 1 \in Nat /\ q.bits + 1 <= BitLen(q.fam)
  <2>1. 2 ^ BitLen(q.fam) \in Nat
    BY <1>3, PowerPositive
  <2> QED
    BY <1>1, <1>4, <1>5, <1>8, <2>1
<1>10. h \in RawPrefix
  BY <1>1, <1>9, RawFromParts
<1>11. h.fam = q.fam /\ h.addr = q.addr + s /\ h.bits = q.bits + 1
  OBVIOUS
<1> HIDE DEF h
<1>12. Size(h) = s
  <2>1. BitLen(q.fam) - (q.bits + 1) = e
    BY <1>1 DEF e
  <2> QED
    BY <1>11, <2>1 DEF Size, s
<1>13. h.addr = (2 * i + 1) * Size(h) /\ 2 * i + 1 \in Nat
  <2>1. (2 * i + 1) * s = i * (2 * s) + s
    BY <1>4
  <2> QED
    BY <1>5, <1>6, <1>11, <1>12, <2>1
<1>14. h \in Cidr
  BY <1>10, <1>13, AlignedIsCidr
<1>15. Masked(h) = h
  BY <1>14, MaskedOfCidr
<1>16. ASSUME NEW x \in RangeOfPrefix(h)
       PROVE  x \in RangeOfPrefix(q)
  <2>1. PICK a \in Int : x = <<h.fam, a>> /\ h.addr <= a /\ a < h.addr + s
    BY <1>10, <1>12, <1>15, RangeMembers
  <2>2. q.addr <= a /\ a < q.addr + Size(q)
    BY <1>1, <1>4, <1>5, <1>11, <2>1
  <2> QED
    BY <1>1, <1>11, <2>1, <2>2, RangeMembers
<1>17. ASSUME NEW length \in Nat, q.bits < length, length <= BitLen(q.fam)
       PROVE  ~ Overlaps(h, [q EXCEPT !.bits = length])
  <2> DEFINE cp == [q EXCEPT !.bits = length]
  <2>1. cp \in Cidr
    BY <1>1, <1>17, FirstBlockIsCidr
  <2>2. cp.fam = q.fam /\ cp.addr = q.addr /\ cp.bits = length
    BY <1>1
  <2> HIDE DEF cp
  <2>3. cp \in RawPrefix /\ Masked(cp) = cp /\ Size(cp) \in Nat
    BY <2>1, CidrParts
  <2>4. h.bits <= cp.bits
    BY <1>1, <1>11, <1>17, <2>2
  <2>5. PICK m \in Nat \ {0} : Size(h) = m * Size(cp)
    BY <1>10, <1>11, <2>2, <2>3, <2>4, SizeDivides
  <2>6. Size(cp) <= s
    BY <1>4, <1>12, <2>3, <2>5
  <2> SUFFICES ASSUME NEW x \in RangeOfPrefix(h), x \in RangeOfPrefix(cp) PROVE FALSE
    BY DEF Overlaps, cp
  <2>7. PICK a \in Int : x = <<h.fam, a>> /\ h.addr <= a
    BY <1>10, <1>15, RangeMembers
  <2>8. a < q.addr + Size(cp)
    BY <1>11, <2>2, <2>3, <2>7, RangeMembers
  <2> QED
    BY <1>1, <1>4, <1>11, <2>3, <2>6, <2>7, <2>8
<1> QED
  BY <1>11, <1>14, <1>16, <1>17

(***************************************************************************)
(* Every block inside a set of addresses lies in a prefix of its canonical *)
(* list: the largest block around it that is still inside the set.         *)
(***************************************************************************)
LEMMA CoveredByFree ==
    ASSUME NEW S, NEW b \in Cidr, ContainsPrefix(S, b)
    PROVE  \E q \in Prefixes(S) : /\ RangeOfPrefix(b) \subseteq RangeOfPrefix(q)
                                  /\ q.bits <= b.bits
                                  /\ q.fam = b.fam
<1> DEFINE around == { q \in Cidr : /\ ContainsPrefix(S, q)
                                    /\ RangeOfPrefix(b) \subseteq RangeOfPrefix(q) }
           widths == { q.bits : q \in around }
<1>1. b \in around
  OBVIOUS
<1>2. \A q \in around : q.bits \in Nat
  BY CidrParts
<1>3. widths \subseteq Nat /\ widths # {}
  <2> HIDE DEF around
  <2> QED
    BY <1>1, <1>2
<1>4. PICK m \in widths : \A n \in widths : m <= n
  <2> HIDE DEF widths
  <2> QED
    BY <1>3, SmallestOf
<1>5. PICK q \in around : q.bits = m
  OBVIOUS
<1>6. \A r \in around : q.bits <= r.bits
  BY <1>4, <1>5
<1>7. q \in Cidr /\ ContainsPrefix(S, q) /\ RangeOfPrefix(b) \subseteq RangeOfPrefix(q)
  OBVIOUS
<1>8. q.bits <= b.bits
  BY <1>1, <1>6
<1>9. q.fam = b.fam
  BY <1>7, CidrParts, InsideHasMoreBits
<1>10. q.bits = 0 \/ ~ ContainsPrefix(S, Enclosing(q))
  <2> SUFFICES ASSUME q.bits # 0, ContainsPrefix(S, Enclosing(q)) PROVE FALSE
    OBVIOUS
  <2>1. Enclosing(q) \in Cidr /\ Enclosing(q).bits = q.bits - 1
        /\ RangeOfPrefix(q) \subseteq RangeOfPrefix(Enclosing(q))
    BY <1>7, EnclosingParts
  <2>2. Enclosing(q) \in around
    BY <1>7, <2>1
  <2>3. q.bits \in Nat
    BY <1>7, CidrParts
  <2> HIDE DEF around
  <2> QED
    BY <1>6, <2>1, <2>2, <2>3
<1>11. q \in Prefixes(S)
  BY <1>7, <1>10 DEF Prefixes
<1> QED
  BY <1>7, <1>8, <1>9, <1>11

\* The prefixes of a canonical list lie apart.
LEMMA FreeApart ==
    ASSUME NEW S, NEW q \in Prefixes(S), NEW r \in Prefixes(S), Overlaps(q, r)
    PROVE  q = r
<1>1. ASSUME NEW p \in Prefixes(S), NEW t \in Prefixes(S), Overlaps(p, t), p.bits < t.bits
      PROVE  FALSE
  <2>1. /\ p \in Cidr /\ t \in Cidr /\ ContainsPrefix(S, p)
        /\ t.bits = 0 \/ ~ ContainsPrefix(S, Enclosing(t))
    BY DEF Prefixes
  <2>2. p \in RawPrefix /\ t \in RawPrefix /\ p.bits \in Nat /\ t.bits \in Nat
    BY <2>1, CidrParts
  <2>3. t.bits # 0
    BY <1>1, <2>2
  <2>4. /\ Enclosing(t) \in Cidr /\ Enclosing(t).bits = t.bits - 1
        /\ RangeOfPrefix(t) \subseteq RangeOfPrefix(Enclosing(t))
    BY <2>1, <2>3, EnclosingParts
  <2>5. Overlaps(p, Enclosing(t))
    BY <1>1, <2>4 DEF Overlaps
  <2>6. p.bits <= Enclosing(t).bits /\ Enclosing(t) \in RawPrefix
    BY <1>1, <2>2, <2>4, CidrParts
  <2>7. RangeOfPrefix(Enclosing(t)) \subseteq RangeOfPrefix(p)
    BY <2>2, <2>5, <2>6, OverlapIsNested
  <2> QED
    BY <2>1, <2>3, <2>7 DEF ContainsPrefix
<1>2. Overlaps(r, q)
  BY DEF Overlaps
<1>3. q \in Cidr /\ r \in Cidr
  BY DEF Prefixes
<1>4. q.bits \in Int /\ r.bits \in Int
  BY <1>3, CidrParts
<1>5. q.bits = r.bits
  BY <1>1, <1>2, <1>4
<1> QED
  BY <1>3, <1>5, SameRangeSameKey

\* The search for a free prefix finds one whenever one is large enough.
LEMMA BestFitExists ==
    ASSUME NEW S, NEW length, Fitting(S, length) # {}
    PROVE  BestFit(S, length) # {}
<1> DEFINE F == Fitting(S, length)
           W == V4Bits + V6Bits
           spare == { W - q.bits : q \in F }
<1>1. \A q \in F : q.bits \in Nat /\ q.addr \in Nat /\ W - q.bits \in Nat /\ q.bits \in Int
  <2> TAKE q \in F
  <2>1. q \in Cidr
    BY DEF Fitting, Prefixes
  <2>2. q.bits \in 0 .. BitLen(q.fam) /\ q.addr \in Nat
    BY <2>1, CidrParts
  <2> QED
    BY <2>2, WidthsAssumption DEF BitLen
<1> HIDE DEF F, W
<1>2. spare \subseteq Nat /\ spare # {}
  BY <1>1 DEF F
<1>3. PICK m \in spare : \A n \in spare : m <= n
  <2> HIDE DEF spare
  <2> QED
    BY <1>2, SmallestOf
<1>4. PICK q0 \in F : m = W - q0.bits
  OBVIOUS
<1>5. W \in Nat
  BY WidthsAssumption DEF W
<1>6. \A r \in F : r.bits <= q0.bits
  <2> TAKE r \in F
  <2>1. m <= W - r.bits
    BY <1>3
  <2>2. r.bits \in Int /\ q0.bits \in Int
    BY <1>1
  <2> QED
    BY <1>4, <1>5, <2>1, <2>2
<1> DEFINE lows == { q.addr : q \in { r \in F : r.bits = q0.bits } }
<1>7. lows \subseteq Nat /\ q0.addr \in lows
  BY <1>1
<1>8. PICK a \in lows : \A n \in lows : a <= n
  <2> HIDE DEF lows
  <2> QED
    BY <1>7, SmallestOf
<1>9. PICK q1 \in F : q1.bits = q0.bits /\ q1.addr = a
  OBVIOUS
<1>10. \A r \in F : r.bits < q1.bits \/ (r.bits = q1.bits /\ q1.addr <= r.addr)
  <2> TAKE r \in F
  <2>1. r.bits \in Int /\ q0.bits \in Int /\ r.bits <= q0.bits
    BY <1>1, <1>6
  <2>2. CASE r.bits = q0.bits
    BY <1>8, <1>9, <2>2
  <2>3. CASE r.bits < q0.bits
    BY <1>9, <2>3
  <2> QED
    BY <2>1, <2>2, <2>3
<1>11. q1 \in BestFit(S, length)
  BY <1>9, <1>10 DEF BestFit, F
<1> QED
  BY <1>11

=============================================================================
