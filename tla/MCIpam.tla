------------------------------- MODULE MCIpam -------------------------------
(***************************************************************************)
(* Ipam for TLC: address widths of two or three bits, two or three callers *)
(* and one set of requests for each question.                              *)
(***************************************************************************)
EXTENDS Ipam, TLC

CONSTANTS i1, i2, c1, c2, c3

OneInstance == [c \in Callers |-> i1]

TwoInstances == (c1 :> i1) @@ (c2 :> i2)

Symmetric == Permutations(Callers)

V4(addr, bits) == [fam |-> "v4", addr |-> addr, bits |-> bits]

V6(addr, bits) == [fam |-> "v6", addr |-> addr, bits |-> bits]

Call(op, cidr) == [op |-> op, cidr |-> cidr, child |-> None, length |-> 0, ip |-> None]

NewPrefixes(cidrs) == { Call("NewPrefix", k) : k \in cidrs }

DeletePrefixes(cidrs) == { Call("DeletePrefix", k) : k \in cidrs }

AcquireIPs(cidrs, ips) == { [Call("AcquireIP", k) EXCEPT !.ip = a] : k \in cidrs, a \in ips }

ReleaseIPs(cidrs) ==
    UNION { { [Call("ReleaseIP", k) EXCEPT !.ip = a] : a \in RangeOfPrefix(k) } : k \in cidrs }

AcquireLengths(cidr, lengths) ==
    { [Call("AcquireChildPrefix", cidr) EXCEPT !.length = l] : l \in lengths }

AcquireSpecific(cidr, children) ==
    { [Call("AcquireChildPrefix", cidr) EXCEPT !.child = k] : k \in children }

ReleaseChildren(ops, children) == { Call(op, k) : op \in ops, k \in children }

-----------------------------------------------------------------------------
\* Addresses come and go in one IPv4 prefix of four addresses and one IPv6
\* prefix of two, which may be split meanwhile; no prefix is deleted.
AddressRequests ==
    NewPrefixes({V4(1, 0), V6(2, 1)})
        \cup AcquireIPs({V4(0, 0), V6(3, 1)}, {None})
        \cup AcquireIPs({V4(0, 0)}, {<<"v4", 2>>})
        \cup ReleaseIPs({V4(0, 0), V6(2, 1)})
        \cup AcquireLengths(V6(2, 1), {2})

\* Children of two lengths, one of them also named, come and go in one IPv4
\* prefix; their owners release them through the library and the service.
Children == { V4(a, 1) : a \in {0, 2} } \cup { V4(a, 2) : a \in 0 .. 3 }

BothReleases == {"ReleaseChildPrefix", "ServiceReleaseChildPrefix"}

ChildRequests ==
    NewPrefixes({V4(0, 0)})
        \cup AcquireLengths(V4(1, 0), {1, 2})
        \cup AcquireSpecific(V4(0, 0), {V4(2, 1), V4(3, 1)})
        \cup ReleaseChildren(BothReleases, Children)

\* Everything on one IPv4 prefix: deletes, children with host bits in the
\* request, releases of a blocked address.
MixedRequests ==
    NewPrefixes({V4(0, 0)})
        \cup DeletePrefixes({V4(0, 0), V4(2, 1)})
        \cup AcquireIPs({V4(0, 0)}, {None})
        \cup ReleaseIPs({V4(0, 0)})
        \cup { [Call("ReleaseIPFromPrefix", V4(0, 0)) EXCEPT !.ip = <<"v4", 0>>] }
        \cup AcquireSpecific(V4(0, 0), {V4(2, 1), V4(3, 1)})
        \cup ReleaseChildren({"ReleaseChildPrefix"}, {V4(2, 1)})

\* NewPrefix by several callers, for prefixes that overlap, next to callers
\* that split them or take their addresses, in both families.
CreateRequests ==
    NewPrefixes({V4(0, 0), V4(1, 1), V4(2, 1), V6(1, 0)})
        \cup AcquireLengths(V4(0, 0), {1})
        \cup AcquireSpecific(V4(2, 1), {V4(3, 2)})
        \cup AcquireLengths(V6(0, 0), {1})
        \cup AcquireIPs({V6(0, 0)}, {None})

-----------------------------------------------------------------------------
\* One prefix, deleted and filled at the same time.
DeleteRequests ==
    NewPrefixes({V4(0, 0)})
        \cup DeletePrefixes({V4(0, 0)})
        \cup AcquireIPs({V4(0, 0)}, {None})
        \cup ReleaseIPs({V4(0, 0)})

\* The same, with a second address to ask for by name.
RecreateRequests == DeleteRequests \cup AcquireIPs({V4(0, 0)}, {<<"v4", 3>>})

\* A child that has addresses is released with the copy its owner has.
ReleaseWithIPsRequests ==
    NewPrefixes({V4(0, 0)})
        \cup AcquireLengths(V4(0, 0), {1, 2})
        \cup AcquireIPs({V4(0, 1)}, {None})
        \cup ReleaseChildren({"ReleaseChildPrefix"}, {V4(0, 1)})

\* A child is requested with host bits and released.
HostBitsRequests ==
    NewPrefixes({V4(0, 0)})
        \cup AcquireSpecific(V4(0, 0), {V4(3, 1)})
        \cup ReleaseChildren(BothReleases, {V4(2, 1)})

\* A child is released while another caller acquires one.
ReleaseRaceRequests ==
    NewPrefixes({V4(0, 0)})
        \cup AcquireLengths(V4(0, 0), {1})
        \cup ReleaseChildren({"ReleaseChildPrefix"}, {V4(0, 1), V4(2, 1)})

=============================================================================
