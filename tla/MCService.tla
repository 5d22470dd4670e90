----------------------------- MODULE MCService ------------------------------
(***************************************************************************)
(* Service for TLC: a prefix, its two halves, a prefix beside it and a     *)
(* client or two for each question.                                        *)
(***************************************************************************)
EXTENDS Service, TLC

CONSTANTS c1, c2, root, a, long, whole, left, right, beside

MCCovers == (whole :> {0, 1}) @@ (left :> {0}) @@ (right :> {1}) @@ (beside :> {2})

Ask(op, n, k) == [op |-> op, ns |-> n, cidr |-> k]

AskAll(ops, names, cidrs) == { Ask(op, n, k) : op \in ops, n \in names, k \in cidrs }

\* Requests whose message has no cidr.
AskIn(ops, names) == AskAll(ops, names, {Malformed})

-----------------------------------------------------------------------------
(***************************************************************************)
(* A dump of a version that knew child prefix lengths only: a parent with  *)
(* a child, at a version that a new prefix does not have.                  *)
(***************************************************************************)
OldDump ==
    { [Cidr |-> whole, ParentCidr |-> None, IsParent |-> FALSE, ChildPrefixLength |-> 1,
       IPs |-> FALSE, Version |-> 1],
      [Cidr |-> left, ParentCidr |-> whole, IsParent |-> FALSE, ChildPrefixLength |-> 0,
       IPs |-> FALSE, Version |-> 0] }

\* The same with addresses in the child.
OldDumpInUse == { IF j.Cidr = left THEN [j EXCEPT !.IPs = TRUE] ELSE j : j \in OldDump }

-----------------------------------------------------------------------------
(***************************************************************************)
(* Two storages.  memory and file refuse to create what is there and keep  *)
(* the version they are given; the service starts without a prefix.        *)
(* PostgreSQL answers such a create with the record, starts every version  *)
(* at 0 and refuses long names of namespaces; the service finds a prefix   *)
(* that was split, and its child.                                          *)
(***************************************************************************)
InMemory ==
    [createExisting |-> "error", deleteMissing |-> "ok", createVersion |-> "kept",
     tooLong |-> {}, has |-> Empty]

Split ==
    [Empty EXCEPT ![whole] = [newPrefix EXCEPT !.isParent = TRUE, !.version = 1],
                  ![left] = [newPrefix EXCEPT !.ParentCidr = whole]]

Postgres ==
    [createExisting |-> "existing", deleteMissing |-> "ok", createVersion |-> "reset",
     tooLong |-> {long}, has |-> Split]

-----------------------------------------------------------------------------
\* One client changes the default namespace, loads and dumps it; the other one
\* reads it.
LoadAndList ==
    [c \in Clients |->
        IF c = c1
        THEN AskAll({"CreatePrefix", "DeletePrefix"}, {root}, {whole, left})
                 \cup AskIn({"Dump", "Load"}, {root, a})
        ELSE AskAll({"GetPrefix", "PrefixUsage"}, {root}, {left})
                 \cup AskIn({"ListPrefixes"}, {root})]

\* Both create and delete prefixes of both namespaces.
CreateTogether ==
    [c \in Clients |->
        AskAll({"CreatePrefix"}, {root, a}, {whole, left, right, Malformed})
            \cup AskAll({"DeletePrefix"}, {a}, {whole, left, Malformed})
            \cup AskAll({"GetPrefix"}, {a}, {Malformed})
            \cup AskIn({"CreateNamespace", "ListNamespaces"}, {a})]

\* The default namespace is a namespace like any other: it can be deleted.
WithoutRoot ==
    [c \in Clients |->
        IF c = c1
        THEN AskIn({"CreateNamespace", "DeleteNamespace", "Load"}, {root})
                 \cup AskAll({"DeletePrefix"}, {root}, {whole, left})
        ELSE AskIn({"ListPrefixes", "Dump"}, {root})]

\* A namespace is deleted while a prefix is created in it: the prefix may go
\* with it, although its client was told that it exists.
NamespaceRace ==
    [c \in Clients |->
        AskIn({"CreateNamespace", "DeleteNamespace"}, {a, long})
            \cup AskAll({"CreatePrefix"}, {a}, {left})]

\* A dump is loaded while a prefix is created: the same may happen to it.
LoadRace ==
    [c \in Clients |->
        IF c = c1
        THEN AskIn({"Load"}, {root}) \cup AskAll({"DeletePrefix"}, {root}, {whole, left})
        ELSE AskAll({"CreatePrefix", "DeletePrefix"}, {root}, {beside})]

Scenario(asks, storages, dumps) ==
    { [asks |-> asks, storage |-> s, dump |-> d] : s \in storages, d \in dumps }

MCScenarios ==
    UNION { Scenario(LoadAndList, {InMemory, Postgres}, {OldDump, OldDumpInUse}),
            Scenario(CreateTogether, {InMemory, Postgres}, {Malformed}),
            Scenario(WithoutRoot, {InMemory, Postgres}, {OldDump, Malformed}),
            Scenario(NamespaceRace, {InMemory, Postgres}, {Malformed}),
            Scenario(LoadRace, {InMemory, Postgres}, {OldDump}) }

=============================================================================
