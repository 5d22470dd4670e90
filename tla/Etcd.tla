-------------------------------- MODULE Etcd --------------------------------
(***************************************************************************)
(* The storage of etcd.go.  A record lies under "<namespace>@<cidr>", and  *)
(* the namespaces under keys that begin with NamespaceKey.  A create and   *)
(* an update are a Get, a decision and a Put; only the lock of the process *)
(* lies around them.                                                       *)
(***************************************************************************)
EXTENDS Backend, SequencesExt

EtcdCheckNamespace(c) == CheckNamespaceLocked(c, spaces \cap {op[c].ns}) /\ UNCHANGED todo

EtcdCreateGet(c) ==
    /\ Called(c, "CreatePrefix")
    /\ MayLock(c)
    /\ IF Stored(c) = Absent
       THEN GoTo(c, "CreatePut") /\ Lock(c) /\ UNCHANGED got
       ELSE Answer(c, "error") /\ Unlock(c)
    /\ UNCHANGED <<spaces, data, cache, todo>>

EtcdCreatePut(c) ==
    /\ pc[c] = "CreatePut"
    /\ Write(c, op[c].version)
    /\ Answer(c, "ok")
    /\ Unlock(c)
    /\ UNCHANGED <<spaces, cache, todo>>

EtcdReadPrefix(c) ==
    /\ Called(c, "ReadPrefix")
    /\ MayLock(c)
    /\ GiveRecord(c, Stored(c))
    /\ Unlock(c)
    /\ UNCHANGED <<spaces, data, cache, todo>>

EtcdUpdateGet(c) ==
    /\ Called(c, "UpdatePrefix")
    /\ MayLock(c)
    /\ IF Stored(c) = op[c].version
       THEN GoTo(c, "UpdatePut") /\ Lock(c) /\ UNCHANGED got
       ELSE /\ Answer(c, IF Stored(c) = Absent THEN "error" ELSE "conflict")
            /\ Unlock(c)
    /\ UNCHANGED <<spaces, data, cache, todo>>

EtcdUpdatePut(c) ==
    /\ pc[c] = "UpdatePut"
    /\ Write(c, op[c].version + 1)
    /\ Answer(c, "ok")
    /\ Unlock(c)
    /\ UNCHANGED <<spaces, cache, todo>>

EtcdDelete(c) ==
    /\ Called(c, "DeletePrefix")
    /\ MayLock(c)
    /\ Write(c, Absent)
    /\ Answer(c, "ok")
    /\ Unlock(c)
    /\ UNCHANGED <<spaces, cache, todo>>

-----------------------------------------------------------------------------
(***************************************************************************)
(* The keys that begin with the name of a namespace: those of its records, *)
(* those of every namespace whose name begins alike and, for a name that   *)
(* NamespaceKey begins with, those of the namespaces themselves.           *)
(***************************************************************************)
KeysWithPrefix(n) ==
    { i \in [ns : Namespaces, key : Keys] : IsPrefix(n, i.ns) /\ data[i.ns][i.key] # Absent }
      \cup { i \in [ns : spaces, key : {None}] : IsPrefix(n, NamespaceKey) }

\* DeleteAllPrefixes ends, or the half of a DeleteNamespace that calls it.
EtcdEmptied(c) ==
    /\ IF op[c].name = "DeleteNamespace"
       THEN GoTo(c, "Forget") /\ UNCHANGED got
       ELSE Answer(c, "ok")
    /\ Unlock(c)

EtcdGetKeys(c) ==
    /\ \E name \in ListCalls \cup {"DeleteAllPrefixes", "DeleteNamespace"} : Called(c, name)
    /\ MayLock(c)
    /\ todo' = [todo EXCEPT ![c] = KeysWithPrefix(op[c].ns)]
    /\ CASE todo'[c] = {} /\ op[c].name \in ListCalls -> Give(c, "ok", None, {}) /\ Unlock(c)
         [] todo'[c] = {} /\ op[c].name \notin ListCalls -> EtcdEmptied(c)
         [] OTHER -> GoTo(c, "NextKey") /\ Lock(c) /\ got' = [got EXCEPT ![c] = {}]
    /\ UNCHANGED <<spaces, data, cache>>

Left(c, i) == todo' = [todo EXCEPT ![c] = @ \ {i}]

EtcdDeleteKey(c) ==
    /\ pc[c] = "NextKey"
    /\ op[c].name \notin ListCalls
    /\ \E i \in todo[c] :
           /\ IF i.key = None
              THEN spaces' = spaces \ {i.ns} /\ UNCHANGED data
              ELSE data' = [data EXCEPT ![i.ns][i.key] = Absent] /\ UNCHANGED spaces
           /\ Left(c, i)
           /\ IF todo[c] = {i} THEN EtcdEmptied(c) ELSE GoTo(c, "NextKey") /\ UNCHANGED <<got, lock>>
    /\ UNCHANGED cache

\* The value of a namespace is no record, and a key that is gone has no value
\* to take the first of.
EtcdGetKey(c) ==
    /\ pc[c] = "NextKey"
    /\ op[c].name \in ListCalls
    /\ \E i \in todo[c] :
           LET version == IF i.key = None THEN None ELSE data[i.ns][i.key]
               list    == got[c] \cup Listed(op[c].name, {[key |-> i.key, version |-> version]})
           IN  IF version \in {None, Absent}
               THEN /\ Answer(c, IF version = None THEN "error" ELSE "panic")
                    /\ todo' = [todo EXCEPT ![c] = {}]
                    /\ Unlock(c)
               ELSE /\ Left(c, i)
                    /\ IF todo[c] = {i}
                       THEN Give(c, "ok", None, list) /\ Unlock(c)
                       ELSE /\ GoTo(c, "NextKey")
                            /\ got' = [got EXCEPT ![c] = list]
                            /\ UNCHANGED lock
    /\ UNCHANGED <<spaces, data, cache>>

-----------------------------------------------------------------------------
EtcdForget(c) ==
    /\ pc[c] = "Forget"
    /\ MayLock(c)
    /\ spaces' = spaces \ {op[c].ns}
    /\ cache' = [cache EXCEPT ![ProcessOf(c)] = @ \ {op[c].ns}]
    /\ Answer(c, "ok")
    /\ Unlock(c)
    /\ UNCHANGED <<data, todo>>

EtcdCreateNamespace(c) ==
    /\ Begins(c, "CreateNamespace")
    /\ MayLock(c)
    /\ IF Known(c)
       THEN UNCHANGED <<spaces, cache>>
       ELSE spaces' = spaces \cup {op[c].ns} /\ Learn(c, {op[c].ns})
    /\ Answer(c, "ok")
    /\ Unlock(c)
    /\ UNCHANGED <<data, todo>>

EtcdListNamespaces(c) ==
    /\ Begins(c, "ListNamespaces")
    /\ MayLock(c)
    /\ Give(c, "ok", None, spaces)
    /\ Unlock(c)
    /\ UNCHANGED <<spaces, data, cache, todo>>

EtcdStep(c) ==
    \/ EtcdCheckNamespace(c)
    \/ EtcdCreateGet(c)
    \/ EtcdCreatePut(c)
    \/ EtcdReadPrefix(c)
    \/ EtcdUpdateGet(c)
    \/ EtcdUpdatePut(c)
    \/ EtcdDelete(c)
    \/ EtcdGetKeys(c)
    \/ EtcdDeleteKey(c)
    \/ EtcdGetKey(c)
    \/ EtcdForget(c)
    \/ EtcdCreateNamespace(c)
    \/ EtcdListNamespaces(c)

=============================================================================
