------------------------------- MODULE Netip -------------------------------
(***************************************************************************)
(* The part of net/netip and go4.org/netipx that prefix.go builds on.      *)
(* Both are libraries outside the repository, so this module is written    *)
(* from how prefix.go uses them and scales the two address widths down.    *)
(*                                                                         *)
(* An address is a pair <<family, number>>, a prefix a record of a family, *)
(* an address number and a number of bits.  netip.ParsePrefix accepts a    *)
(* prefix whose host bits are set ("10.0.0.1/24"): RawPrefix is the set of *)
(* everything it accepts, Cidr the subset a call to Masked() produces.     *)
(***************************************************************************)
EXTENDS Integers, FiniteSets

CONSTANTS
    V4Bits,     \* the width of an IPv4 address, 32 in the code
    V6Bits      \* the width of an IPv6 address, 128 in the code

ASSUME WidthsAssumption == V4Bits \in Nat /\ V6Bits \in Nat

\* What exponentiation is: the provers have no definition of it.
ASSUME PowersAssumption == 2 ^ 0 = 1 /\ \A n \in 0 .. (V4Bits + V6Bits) : 2 ^ (n + 1) = 2 * 2 ^ n

Families == {"v4", "v6"}

BitLen(f) == IF f = "v4" THEN V4Bits ELSE V6Bits

Is4(p) == p.fam = "v4"

RawPrefix ==
    UNION { [fam  : {f},
             addr : 0 .. (2 ^ BitLen(f) - 1),
             bits : 0 .. BitLen(f)] : f \in Families }

(***************************************************************************)
(* netip.Prefix.Masked: the same prefix with its host bits cleared.        *)
(***************************************************************************)
Size(p) == 2 ^ (BitLen(p.fam) - p.bits)

Masked(p) == [p EXCEPT !.addr = @ - (@ % Size(p))]

Cidr == { Masked(p) : p \in RawPrefix }

(***************************************************************************)
(* netipx.RangeOfPrefix: From, To and the addresses between them.  The     *)
(* host bits of the prefix do not matter.                                  *)
(***************************************************************************)
From(p) == <<p.fam, Masked(p).addr>>

To(p) == <<p.fam, Masked(p).addr + Size(p) - 1>>

RangeOfPrefix(p) == { <<p.fam, a>> : a \in From(p)[2] .. To(p)[2] }

Overlaps(p, q) == RangeOfPrefix(p) \cap RangeOfPrefix(q) # {}

(***************************************************************************)
(* netipx.IPSetBuilder: one prefix added, a set of prefixes removed; and   *)
(* IPSet.Prefixes, the canonical list of the prefixes that make up a set:  *)
(* the aligned blocks inside it that no larger aligned block covers.       *)
(***************************************************************************)
IPSet(added, removed) ==
    RangeOfPrefix(added) \ UNION { RangeOfPrefix(q) : q \in removed }

ContainsPrefix(ipset, p) == RangeOfPrefix(p) \subseteq ipset

Enclosing(p) == Masked([p EXCEPT !.bits = @ - 1])

Prefixes(ipset) ==
    { q \in Cidr : /\ ContainsPrefix(ipset, q)
                   /\ q.bits = 0 \/ ~ ContainsPrefix(ipset, Enclosing(q)) }

(***************************************************************************)
(* IPSet.RemoveFreePrefix(length): of the prefixes of the set that are at  *)
(* least that large, the smallest, at the lowest address; its first block  *)
(* of the wanted length is the result.  The value is the set of that one   *)
(* prefix, or empty when there is none.  The prefix is not valid when the  *)
(* length exceeds the width of the family.                                 *)
(***************************************************************************)
\* Mutant: only blocks strictly larger than the wanted one are split.
FittingStrictly(ipset, length) == { q \in Prefixes(ipset) : q.bits < length }

Fitting(ipset, length) == { q \in Prefixes(ipset) : q.bits <= length }

\* Mutant: the first block that is large enough.
FirstFit(ipset, length) ==
    { q \in Fitting(ipset, length) : \A r \in Fitting(ipset, length) : q.addr <= r.addr }

BestFit(ipset, length) ==
    { q \in Fitting(ipset, length) :
        \A r \in Fitting(ipset, length) :
            r.bits < q.bits \/ (r.bits = q.bits /\ q.addr <= r.addr) }

RemoveFreePrefix(ipset, length) ==
    { [q EXCEPT !.bits = length] : q \in BestFit(ipset, length) }

IsValid(p) == p.bits <= BitLen(p.fam)

=============================================================================
