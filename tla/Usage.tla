------------------------------- MODULE Usage -------------------------------
(***************************************************************************)
(* What Prefix.Usage() reports, and the search for a free child, on one    *)
(* prefix whose children and addresses come and go.  A single record is    *)
(* changed the way the calls of the ipamer change it when nobody else is   *)
(* calling: concurrency is the business of module Ipam.                    *)
(***************************************************************************)
EXTENDS Prefix, FiniteSetsExt

CONSTANTS
    Roots,      \* the prefixes the behaviours start from
    Lengths,    \* the lengths asked of AcquireChildPrefix
    MaxChildren,\* bound: children a prefix has at a time
    MaxIPs,     \* bound: size of a prefix that addresses are acquired from
    WordBits,   \* the width of uint64, 64 in the code
    CapBits     \* MaxInt32 is 2^CapBits - 1: 31 in the code

ASSUME UsageAssumption ==
    /\ Roots \subseteq RawPrefix
    /\ Lengths \subseteq Nat
    /\ MaxChildren \in Nat /\ MaxIPs \in Nat
    /\ WordBits \in Nat /\ CapBits \in Nat
    /\ CapBits < WordBits /\ WordBits <= V4Bits + V6Bits

VARIABLES prefix    \* the record

-----------------------------------------------------------------------------
(***************************************************************************)
(* The numbers Usage() reports.  A shift in Go by at least the width of    *)
(* the operand gives 0, and a sum wraps around: both are the remainder     *)
(* modulo 2^WordBits.                                                      *)
(***************************************************************************)
MaxInt32 == 2 ^ CapBits - 1

ShiftedOne(n) == (2 ^ n) % (2 ^ WordBits)

\* Mutant: the cap is applied one bit too early.
availableipsCapped(p) ==
    LET hostBits == BitLen(p.Cidr.fam) - p.Cidr.bits
    IN  IF hostBits >= CapBits THEN MaxInt32 ELSE ShiftedOne(hostBits)

availableips(p) ==
    LET hostBits == BitLen(p.Cidr.fam) - p.Cidr.bits
    IN  IF hostBits > CapBits THEN MaxInt32 ELSE ShiftedOne(hostBits)

acquiredips(p) == Cardinality(p.ips)

maxBits(p) == BitLen(p.Cidr.fam) - 2

\* Mutant: a free prefix that is itself a smallest one is not counted.
UsablePrefixesLarger(p) == { q \in Prefixes(FreeSpace(p)) : q.bits < maxBits(p) }

UsablePrefixes(p) == { q \in Prefixes(FreeSpace(p)) : q.bits <= maxBits(p) }

totalAvailable(p) ==
    MapThenSumSet(LAMBDA q : ShiftedOne(maxBits(p) - q.bits), UsablePrefixes(p))
        % (2 ^ WordBits)

availablePrefixes(p) ==
    IF totalAvailable(p) > MaxInt32 THEN MaxInt32 ELSE totalAvailable(p)

acquiredPrefixes(p) == Cardinality(p.taken)

-----------------------------------------------------------------------------
Init == \E cidr \in Roots : prefix = newPrefix(cidr, None)

AcquireChildPrefix(length) ==
    /\ acquiredPrefixes(prefix) < MaxChildren
    /\ \E cp \in AvailableChild(prefix, None, length) : prefix' = WithChild(prefix, cp)

AcquireSpecificChildPrefix(childCidr) ==
    /\ acquiredPrefixes(prefix) < MaxChildren
    /\ \E cp \in AvailableChild(prefix, childCidr, 0) : prefix' = WithChild(prefix, cp)

ReleaseChildPrefix(childCidr) ==
    /\ prefix.isParent
    /\ childCidr \in prefix.taken
    /\ prefix' = WithoutChild(prefix, childCidr)

AcquireIP ==
    /\ Size(prefix.Cidr) <= MaxIPs
    /\ \E ip \in AvailableIP(prefix, None) : prefix' = WithIP(prefix, ip)

ReleaseIP(ip) ==
    /\ ip \in prefix.ips \ Blocked(prefix.Cidr)
    /\ prefix' = WithoutIP(prefix, ip)

Next ==
    \/ \E length \in Lengths : AcquireChildPrefix(length)
    \/ \E cidr \in Cidr : AcquireSpecificChildPrefix(cidr)
    \/ \E cidr \in prefix.taken : ReleaseChildPrefix(cidr)
    \/ AcquireIP
    \/ \E ip \in prefix.ips : ReleaseIP(ip)

Spec == Init /\ [][Next]_prefix

-----------------------------------------------------------------------------
(***************************************************************************)
(* The record stays the masked prefix newPrefix makes, whatever host bits  *)
(* the request had: its children are masked too, and every address in ips  *)
(* lies inside it.                                                         *)
(***************************************************************************)
TypeOK == prefix \in [Cidr : Cidr, ParentCidr : {None}, isParent : BOOLEAN,
                      taken : SUBSET Cidr, ips : SUBSET RangeOfPrefix(prefix.Cidr),
                      version : {0}]

FreeBlocks(p, length) ==
    { q \in Cidr : q.fam = p.Cidr.fam /\ q.bits = length /\ ContainsPrefix(FreeSpace(p), q) }

(***************************************************************************)
(* AcquireChildPrefix(length) gives a child exactly when the parent has no *)
(* addresses and an aligned block of that length lies free inside it, and  *)
(* the child it gives is such a block: the detour over the canonical list  *)
(* of free prefixes loses nothing and never hands out a taken address.     *)
(***************************************************************************)
ChildFoundIffFree ==
    \A length \in Lengths :
        LET found == AvailableChild(prefix, None, length)
            free  == FreeBlocks(prefix, length)
        IN  /\ found \subseteq free
            /\ (found = {}) <=> (free = {} \/ hasIPs(prefix) \/ length <= prefix.Cidr.bits)

LargestFree(ipset) == Min({ q.bits : q \in Prefixes(ipset) } \cup {V4Bits + V6Bits})

(***************************************************************************)
(* Best fit: no other choice of a child of the same length would leave a   *)
(* larger free block in the parent than the choice acquireChildPrefix-     *)
(* Internal makes, so small children never break up a large hole while a   *)
(* small hole would do.                                                    *)
(***************************************************************************)
LargestHoleKept ==
    \A length \in Lengths :
        \A cp \in AvailableChild(prefix, None, length) :
            \A q \in FreeBlocks(prefix, length) :
                LargestFree(FreeSpace(prefix) \ RangeOfPrefix(cp))
                    <= LargestFree(FreeSpace(prefix) \ RangeOfPrefix(q))

(***************************************************************************)
(* AvailableSmallestPrefixes is the number of children with two host bits  *)
(* that could be acquired one after the other, or MaxInt32 if that is      *)
(* less: "the count of available Prefixes with 2 countable Bits", "No more *)
(* than 2^31 available Prefixes are reported".                             *)
(***************************************************************************)
SmallestPrefixesExact ==
    LET count == Cardinality(FreeBlocks(prefix, maxBits(prefix)))
    IN  availablePrefixes(prefix) = IF count > MaxInt32 THEN MaxInt32 ELSE count

(***************************************************************************)
(* For a prefix that was not split, AvailableIPs and AcquiredIPs agree     *)
(* with the address search: they are equal exactly when AcquireIP has      *)
(* nothing left to give.                                                   *)
(***************************************************************************)
FullIffNoIPLeft ==
    (~ prefix.isParent /\ BitLen(prefix.Cidr.fam) - prefix.Cidr.bits <= CapBits) =>
        ((AvailableIP(prefix, None) = {}) <=> (availableips(prefix) = acquiredips(prefix)))

=============================================================================
