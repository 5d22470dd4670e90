------------------------------- MODULE Prefix -------------------------------
(***************************************************************************)
(* The Prefix record of prefix.go and the operations on one record that    *)
(* the calls of the ipamer and Usage() are made of.  No storage here: the  *)
(* modules Ipam and Usage say when a record is read and written.           *)
(***************************************************************************)
EXTENDS Netip

CONSTANTS
    None        \* the empty string: no parent, no specific child, no specific ip

ASSUME NoneAssumption == None \notin RawPrefix

Address == Families \X Int

(***************************************************************************)
(* The struct.  taken is the set of keys that availableChildPrefixes maps  *)
(* to false: a key mapped to true and a missing key are never told apart.  *)
(* A key is the text of a child as it was requested, so it may be a prefix *)
(* with host bits.  ips is the key set of the map ips, whose values are    *)
(* always true.  childPrefixLength is only read when a dump is loaded.     *)
(***************************************************************************)
PrefixRecord ==
    [Cidr       : Cidr,
     ParentCidr : Cidr \cup {None},
     isParent   : BOOLEAN,
     taken      : SUBSET RawPrefix,
     ips        : SUBSET Address,
     version    : Nat]

(***************************************************************************)
(* newPrefix: the network address is blocked, and the broadcast address of *)
(* an IPv4 prefix.                                                         *)
(***************************************************************************)
Blocked(cidr) == {From(cidr)} \cup IF Is4(cidr) THEN {To(cidr)} ELSE {}

\* Mutant: the prefix keeps the host bits of the request.
newPrefixUnmasked(cidr, parentCidr) ==
    [Cidr       |-> cidr,
     ParentCidr |-> parentCidr,
     isParent   |-> FALSE,
     taken      |-> {},
     ips        |-> Blocked(cidr),
     version    |-> 0]

\* Mutant: the broadcast address is not blocked.
newPrefixNoBroadcast(cidr, parentCidr) ==
    [Cidr       |-> Masked(cidr),
     ParentCidr |-> IF parentCidr = None THEN None ELSE Masked(parentCidr),
     isParent   |-> FALSE,
     taken      |-> {},
     ips        |-> {From(cidr)},
     version    |-> 0]

newPrefix(cidr, parentCidr) ==
    [Cidr       |-> Masked(cidr),
     ParentCidr |-> IF parentCidr = None THEN None ELSE Masked(parentCidr),
     isParent   |-> FALSE,
     taken      |-> {},
     ips        |-> Blocked(cidr),
     version    |-> 0]

(***************************************************************************)
(* hasIPs counts the keys of ips: more of them than newPrefix blocked.     *)
(***************************************************************************)
hasIPs(p) == Cardinality(p.ips) > IF Is4(p.Cidr) THEN 2 ELSE 1

PrefixesOverlapping(existingPrefixes, cidr) ==
    \E e \in existingPrefixes : Overlaps(e, cidr)

(***************************************************************************)
(* The part of acquireChildPrefixInternal between reading the parent and   *)
(* writing it: which children the parent can give for a request.  A        *)
(* request names either a child or a length; the result is the set of at   *)
(* most one child.                                                         *)
(***************************************************************************)
\* Mutant: children that were requested with host bits are overlooked.
FreeSpaceMaskedOnly(parent) == IPSet(parent.Cidr, parent.taken \cap Cidr)

FreeSpace(parent) == IPSet(parent.Cidr, parent.taken)

ChildOfLength(parent, length) == RemoveFreePrefix(FreeSpace(parent), length)

\* Mutant: a specific child only has to lie inside the parent.
SpecificChildInside(parent, childCidr) ==
    { cp \in {childCidr} : ContainsPrefix(RangeOfPrefix(parent.Cidr), cp) }

SpecificChild(parent, childCidr) ==
    { cp \in {childCidr} : ContainsPrefix(FreeSpace(parent), cp) }

CandidateChild(parent, childCidr, length) ==
    IF childCidr = None THEN ChildOfLength(parent, length) ELSE SpecificChild(parent, childCidr)

\* Mutant: the parent's addresses are not looked at.
AvailableChildIgnoringIPs(parent, childCidr, length) ==
    { cp \in CandidateChild(parent, childCidr, length) :
        IsValid(cp) /\ cp.bits > parent.Cidr.bits }

AvailableChild(parent, childCidr, length) ==
    { cp \in CandidateChild(parent, childCidr, length) :
        IsValid(cp) /\ cp.bits > parent.Cidr.bits /\ ~ hasIPs(parent) }

WithChild(parent, cp) == [parent EXCEPT !.taken = @ \cup {cp}, !.isParent = TRUE]

WithoutChild(parent, cp) == [parent EXCEPT !.taken = @ \ {cp}]

(***************************************************************************)
(* The same for acquireSpecificIPInternal: the wanted address if it is in  *)
(* the prefix and not in ips, or the lowest address not in ips; and for    *)
(* releaseIPFromPrefixInternal.                                            *)
(***************************************************************************)
FreeIPs(p) == RangeOfPrefix(p.Cidr) \ p.ips

AvailableIP(p, specificIP) ==
    IF p.isParent THEN {}
    ELSE { ip \in FreeIPs(p) :
             IF specificIP # None
             THEN ip = specificIP
             ELSE \A other \in FreeIPs(p) : ip[2] <= other[2] }

WithIP(p, ip) == [p EXCEPT !.ips = @ \cup {ip}]

WithoutIP(p, ip) == [p EXCEPT !.ips = @ \ {ip}]

=============================================================================
