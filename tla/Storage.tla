------------------------------ MODULE Storage ------------------------------
(***************************************************************************)
(* What the Storage interface of storage.go promises to the ipamer: every  *)
(* call takes effect and is answered in one step, an update succeeds only  *)
(* on the version it was given, and a call in a namespace that does not    *)
(* exist is told so.  A record is its version: what else it holds is the   *)
(* business of the caller.                                                 *)
(***************************************************************************)
EXTENDS Naturals

CONSTANTS
    Callers,        \* goroutines
    Namespaces,     \* the names of namespaces
    Root,           \* the namespace every storage starts with
    Keys,           \* the cidrs of the prefixes
    MaxVersion,     \* bound: no update starts from this version
    Absent,         \* no record under a key
    None            \* no call, no answer, no copy, no list

VARIABLES
    db,             \* per namespace that exists, the version stored under a key
    op,             \* per caller, the call that waits for its answer
    ans,            \* per caller, the last answer
    copy,           \* per caller, the record it read and may update
    got             \* per caller, the list it was given

vars == <<db, op, ans, copy, got>>

Empty == [k \in Keys |-> Absent]

RecordsIn(records) ==
    { [key |-> k, version |-> records[k]] : k \in { k \in Keys : records[k] # Absent } }

Init ==
    /\ db = [n \in {Root} |-> Empty]
    /\ op = [c \in Callers |-> None]
    /\ ans = [c \in Callers |-> None]
    /\ copy = [c \in Callers |-> None]
    /\ got = [c \in Callers |-> None]

\* An update is of the record the caller has read.  The copy is used up: the
\* ipamer reads again before it tries again.
Call(c) ==
    /\ op[c] = None
    /\ op'[c] # None
    /\ op'[c].name = "UpdatePrefix" =>
           copy[c] = [ns |-> op'[c].ns, key |-> op'[c].key, version |-> op'[c].version]
    /\ op' = [op EXCEPT ![c] = op'[c]]
    /\ ans' = [ans EXCEPT ![c] = None]
    /\ copy' = [copy EXCEPT ![c] = None]
    /\ got' = [got EXCEPT ![c] = None]
    /\ UNCHANGED db

-----------------------------------------------------------------------------
\* What is stored under the key of the call.
Stored(c) == db[op[c].ns][op[c].key]

Is(c, name) == op[c] # None /\ op[c].name = name

\* The call is answered: with a, the record r and the list g.
Answer(c, a, r, g) ==
    /\ ans' = [ans EXCEPT ![c] = a]
    /\ copy' = [copy EXCEPT ![c] = r]
    /\ got' = [got EXCEPT ![c] = g]
    /\ op' = [op EXCEPT ![c] = None]

Reply(c, a) == Answer(c, a, None, None)

Write(c, version) == db' = [db EXCEPT ![op[c].ns][op[c].key] = version]

\* A prefix that is loaded comes with a version, which a storage keeps or resets.
\* "existing" is a success that hands out the record that was there.
CreatePrefix(c) ==
    /\ Is(c, "CreatePrefix")
    /\ IF Stored(c) = Absent
       THEN (Write(c, op[c].version) \/ Write(c, 0)) /\ Reply(c, "ok")
       ELSE UNCHANGED db /\ (Reply(c, "existing") \/ Reply(c, "error"))

ReadPrefix(c) ==
    /\ Is(c, "ReadPrefix")
    /\ IF Stored(c) = Absent
       THEN Reply(c, "notfound")
       ELSE Answer(c, "ok", [ns |-> op[c].ns, key |-> op[c].key, version |-> Stored(c)], None)
    /\ UNCHANGED db

\* "conflict" is ErrOptimisticLockError, the error that makes the ipamer try
\* again.
UpdatePrefix(c) ==
    /\ Is(c, "UpdatePrefix")
    /\ IF Stored(c) = op[c].version
       THEN Write(c, op[c].version + 1) /\ Reply(c, "ok")
       ELSE /\ UNCHANGED db
            /\ Reply(c, "conflict") \/ (Stored(c) = Absent /\ Reply(c, "error"))

DeletePrefix(c) ==
    /\ Is(c, "DeletePrefix")
    /\ Write(c, Absent)
    /\ Reply(c, "ok") \/ (Stored(c) = Absent /\ Reply(c, "error"))

ReadAllPrefixes(c) ==
    /\ Is(c, "ReadAllPrefixes")
    /\ Answer(c, "ok", None, RecordsIn(db[op[c].ns]))
    /\ UNCHANGED db

ReadAllPrefixCidrs(c) ==
    /\ Is(c, "ReadAllPrefixCidrs")
    /\ Answer(c, "ok", None, { r.key : r \in RecordsIn(db[op[c].ns]) })
    /\ UNCHANGED db

DeleteAllPrefixes(c) ==
    /\ Is(c, "DeleteAllPrefixes")
    /\ db' = [db EXCEPT ![op[c].ns] = Empty]
    /\ Reply(c, "ok")

\* A namespace goes with all of its records.
DeleteNamespace(c) ==
    /\ Is(c, "DeleteNamespace")
    /\ db' = [n \in DOMAIN db \ {op[c].ns} |-> db[n]]
    /\ Reply(c, "ok")

\* The calls that empty a namespace may take some records before the others.
TakeRecords(c) ==
    /\ Is(c, "DeleteAllPrefixes") \/ Is(c, "DeleteNamespace")
    /\ op[c].ns \in DOMAIN db
    /\ \E S \in SUBSET Keys :
           db' = [db EXCEPT ![op[c].ns] = [k \in Keys |-> IF k \in S THEN Absent ELSE @[k]]]
    /\ UNCHANGED <<op, ans, copy, got>>

\* A namespace that exists already is created again with success, and it may be
\* there before its creator has the answer.
CreateNamespace(c) ==
    /\ Is(c, "CreateNamespace")
    /\ db' = [n \in DOMAIN db \cup {op[c].ns} |-> IF n \in DOMAIN db THEN db[n] ELSE Empty]
    /\ Reply(c, "ok") \/ UNCHANGED <<op, ans, copy, got>>

\* Names that the database cannot take are refused.
RefuseNamespace(c) ==
    /\ Is(c, "CreateNamespace")
    /\ op[c].ns \notin DOMAIN db
    /\ Reply(c, "toolong")
    /\ UNCHANGED db

ListNamespaces(c) ==
    /\ Is(c, "ListNamespaces")
    /\ Answer(c, "ok", None, DOMAIN db)
    /\ UNCHANGED db

\* A call in a namespace that does not exist.
NoSuchNamespace(c) ==
    /\ op[c] # None
    /\ op[c].name \notin {"CreateNamespace", "ListNamespaces"}
    /\ op[c].ns \notin DOMAIN db
    /\ Reply(c, "nospace")
    /\ UNCHANGED db

InNamespace(c) ==
    /\ op[c] # None /\ op[c].ns \in DOMAIN db
    /\ \/ CreatePrefix(c) \/ ReadPrefix(c) \/ UpdatePrefix(c) \/ DeletePrefix(c)
       \/ ReadAllPrefixes(c) \/ ReadAllPrefixCidrs(c) \/ DeleteAllPrefixes(c)
       \/ DeleteNamespace(c)

Serve(c) ==
    \/ InNamespace(c) \/ NoSuchNamespace(c) \/ TakeRecords(c)
    \/ CreateNamespace(c) \/ RefuseNamespace(c) \/ ListNamespaces(c)

\* A process stops: its callers get no answer.  A namespace that one of them
\* deletes may be gone.
Stop(S) ==
    /\ \E gone \in SUBSET { op[c].ns : c \in { c \in S : Is(c, "DeleteNamespace") } } :
           db' = [n \in DOMAIN db \ gone |-> db[n]]
    /\ op' = [c \in Callers |-> IF c \in S THEN None ELSE op[c]]
    /\ ans' = [c \in Callers |-> IF c \in S THEN None ELSE ans[c]]
    /\ copy' = [c \in Callers |-> IF c \in S THEN None ELSE copy[c]]
    /\ got' = [c \in Callers |-> IF c \in S THEN None ELSE got[c]]

Next ==
    \/ \E c \in Callers : Call(c) \/ Serve(c)
    \/ \E S \in SUBSET Callers : Stop(S)

Spec == Init /\ [][Next]_vars

=============================================================================
