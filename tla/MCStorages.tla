----------------------------- MODULE MCStorages -----------------------------
(***************************************************************************)
(* Storages for TLC: up to three callers in two processes, a key and two   *)
(* versions in the root namespace, or two namespaces next to it.           *)
(***************************************************************************)
EXTENDS Storages

CONSTANTS c1, c2, c3, p1, p2

MCRoot == <<"root">>

A == <<"a">>
AB == <<"a", "b">>
ABC == <<"a", "b", "c">>
ABCD == <<"a", "b", "c", "d">>

MCNamespaces == {MCRoot, A, AB, ABC, ABCD}

MCNamespaceKey == <<"n", "s">>

Together == [c \in Callers |-> p1]

Apart == [c \in Callers |-> IF c = c1 THEN p1 ELSE p2]

TwoTogether == [c \in {c1, c2} |-> p1]

TwoApart == [c \in {c1, c2} |-> IF c = c1 THEN p1 ELSE p2]

Alone == [c \in {c1} |-> p1]

\* The calls that read and change prefixes, in the root namespace.
On(storage, processOf, crashing, restarting) ==
    [storage |-> storage, processOf |-> processOf,
     crashing |-> crashing, restarting |-> restarting,
     calls |-> PrefixCalls, names |-> {MCRoot}, keys |-> {"a"}, versions |-> {0}]

\* The given calls in other namespaces.
In(names, calls, d) ==
    [d EXCEPT !.names = names, !.calls = calls]

\* A dump is loaded as well: the prefixes that are created have a version.
Loading(d) == [d EXCEPT !.versions = {0, 1}]

AllCalls == PrefixCalls \cup NamespaceCalls

\* What the storages are good for.  Prefix calls in the root namespace: memory,
\* redis and etcd in one process, postgres and mongodb in several, the file in
\* one process that does not stop or with one caller that is not in a call when
\* it does.
RootSupported ==
    { Loading(On("memory", TwoTogether, {}, {})),
      On("redis", Together, {p1}, {}),
      Loading(On("etcd", TwoTogether, {p1}, {})),
      On("mongodb", Apart, {p1}, {}),
      On("postgres", Apart, {p1}, {}),
      On("file", Together, {}, {}),
      On("file", Alone, {}, {p1}) }

\* All calls of one caller: except that memory and file empty namespaces that
\* they should refuse, and that mongodb does not forget deleted ones.  A name
\* can be too long for postgres.
OneSupported ==
    LET Several ==
            { In({A, ABCD}, AllCalls, On("postgres", Alone, {p1}, {})),
              In({A, AB}, AllCalls, On("redis", Alone, {p1}, {})),
              In({A}, AllCalls, [On("etcd", Alone, {p1}, {}) EXCEPT !.keys = {"a", "b"}]),
              In({A, AB}, AllCalls \ {"DeleteNamespace"}, On("mongodb", Alone, {}, {p1})),
              In({A, AB}, AllCalls \ {"DeleteAllPrefixes"}, On("memory", Alone, {}, {})),
              In({A}, AllCalls \ {"DeleteAllPrefixes"}, On("file", Alone, {}, {p1})) }
        Emptying ==
            { In({MCRoot}, PrefixCalls \cup {"DeleteAllPrefixes"} \cup ListCalls,
                 On(s, Alone, {}, {})) : s \in {"memory", "file"} }
    IN  { Loading(d) : d \in Several \cup Emptying }

\* Two callers, and namespaces that come but do not go.
TwoSupported ==
    { In({A}, {"CreatePrefix", "DeletePrefix", "ReadAllPrefixes", "ReadAllPrefixCidrs",
               "DeleteAllPrefixes", "CreateNamespace"}, d) :
        d \in { On("redis", TwoTogether, {p1}, {}),
                On("etcd", TwoTogether, {p1}, {}),
                On("mongodb", TwoTogether, {}, {p1}),
                On("mongodb", TwoApart, {}, {p2}),
                On("postgres", TwoTogether, {p1}, {}),
                On("postgres", TwoApart, {p1}, {}) } }

\* Two callers in one process and one in another that create the same record
\* while the collection has no index yet.  With a third process they would create
\* it twice.
ThreeSupported ==
    { In({A}, {"CreatePrefix", "CreateNamespace"}, On("mongodb", Apart, {}, {})) }

Supported == RootSupported \cup OneSupported \cup TwoSupported \cup ThreeSupported

\* Two processes on etcd: ImplementsStorage does not hold, and no run asks for it.
EtcdApart == { On("etcd", Apart, {}, {}) }

FileRestarting ==
    { [On("file", TwoTogether, {}, {p1}) EXCEPT !.keys = {"a", "b"}] }

\* A caller that deletes a namespace and goes on.
MongodbDeleting == { In({A}, AllCalls, On("mongodb", Alone, {}, {})) }

=============================================================================
