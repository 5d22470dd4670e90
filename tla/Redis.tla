------------------------------- MODULE Redis -------------------------------
(***************************************************************************)
(* The storage of redis.go.  A namespace is one hash, and a set holds the  *)
(* names of the namespaces.  A create is HEXISTS and HSET; an update is    *)
(* WATCH on the whole hash, HGET, a decision and MULTI/EXEC, which the     *)
(* server refuses when the hash was written since.                         *)
(***************************************************************************)
EXTENDS Backend

VARIABLES dirty     \* per caller, the hash was written after its WATCH

RedisInit == dirty = [c \in Callers |-> FALSE]

\* The hash of the namespace of caller c is written.
HashWritten(c) ==
    dirty' = [d \in Callers |->
                 dirty[d] \/ (d # c /\ pc[d] \in {"HGet", "Exec"} /\ op[d].ns = op[c].ns)]

RedisCheckNamespace(c) ==
    /\ CheckNamespaceLocked(c, spaces \cap {op[c].ns})
    /\ UNCHANGED dirty

RedisHExists(c) ==
    /\ Called(c, "CreatePrefix")
    /\ MayLock(c)
    /\ IF Stored(c) = Absent
       THEN GoTo(c, "HSet") /\ Lock(c) /\ UNCHANGED got
       ELSE Answer(c, "error") /\ Unlock(c)
    /\ UNCHANGED <<spaces, data, cache, dirty>>

RedisHSet(c) ==
    /\ pc[c] = "HSet"
    /\ Write(c, op[c].version)
    /\ HashWritten(c)
    /\ Answer(c, "ok")
    /\ Unlock(c)
    /\ UNCHANGED <<spaces, cache>>

RedisReadPrefix(c) ==
    /\ Called(c, "ReadPrefix")
    /\ MayLock(c)
    /\ GiveRecord(c, Stored(c))
    /\ Unlock(c)
    /\ UNCHANGED <<spaces, data, cache, dirty>>

RedisWatch(c) ==
    /\ Called(c, "UpdatePrefix")
    /\ MayLock(c)
    /\ GoTo(c, "HGet")
    /\ Lock(c)
    /\ dirty' = [dirty EXCEPT ![c] = FALSE]
    /\ UNCHANGED <<spaces, data, cache, got>>

RedisHGet(c) ==
    /\ pc[c] = "HGet"
    /\ IF Stored(c) = op[c].version
       THEN GoTo(c, "Exec") /\ UNCHANGED <<got, lock>>
       ELSE /\ Answer(c, IF Stored(c) = Absent THEN "error" ELSE "conflict")
            /\ Unlock(c)
    /\ UNCHANGED <<spaces, data, cache, dirty>>

\* redigo.TxFailedErr is returned as it is: it is no ErrOptimisticLockError.
RedisExec(c) ==
    /\ pc[c] = "Exec"
    /\ IF dirty[c]
       THEN Answer(c, "error") /\ UNCHANGED <<data, dirty>>
       ELSE Write(c, op[c].version + 1) /\ Answer(c, "ok") /\ HashWritten(c)
    /\ Unlock(c)
    /\ UNCHANGED <<spaces, cache>>

RedisHDel(c) ==
    /\ Called(c, "DeletePrefix")
    /\ MayLock(c)
    /\ Write(c, Absent)
    /\ Answer(c, "ok")
    /\ Unlock(c)
    /\ IF Stored(c) = Absent THEN UNCHANGED dirty ELSE HashWritten(c)
    /\ UNCHANGED <<spaces, cache>>

\* One HGETALL, for the records or for the cidrs.
RedisHGetAll(c) ==
    /\ \E name \in ListCalls :
           Called(c, name) /\ Give(c, "ok", None, Listed(name, RecordsIn(data[op[c].ns])))
    /\ MayLock(c)
    /\ Unlock(c)
    /\ UNCHANGED <<spaces, data, cache, dirty>>

\* The hash is deleted with the lock held for reading.  In a DeleteNamespace
\* the lock is then released, and "Forget" takes it for writing.
RedisDel(c) ==
    /\ \/ Called(c, "DeleteAllPrefixes") /\ Answer(c, "ok")
       \/ Called(c, "DeleteNamespace") /\ GoTo(c, "Forget") /\ UNCHANGED got
    /\ MayLock(c)
    /\ Clear(op[c].ns)
    /\ HashWritten(c)
    /\ Unlock(c)
    /\ UNCHANGED <<spaces, cache>>

RedisSRem(c) ==
    /\ pc[c] = "Forget"
    /\ MayLock(c)
    /\ spaces' = spaces \ {op[c].ns}
    /\ cache' = [cache EXCEPT ![ProcessOf(c)] = @ \ {op[c].ns}]
    /\ Answer(c, "ok")
    /\ Unlock(c)
    /\ UNCHANGED <<data, dirty>>

RedisSAdd(c) ==
    /\ Begins(c, "CreateNamespace")
    /\ MayLock(c)
    /\ IF Known(c)
       THEN UNCHANGED <<spaces, cache>>
       ELSE spaces' = spaces \cup {op[c].ns} /\ Learn(c, {op[c].ns})
    /\ Answer(c, "ok")
    /\ Unlock(c)
    /\ UNCHANGED <<data, dirty>>

RedisSMembers(c) ==
    /\ Begins(c, "ListNamespaces")
    /\ MayLock(c)
    /\ Give(c, "ok", None, spaces)
    /\ Unlock(c)
    /\ UNCHANGED <<spaces, data, cache, dirty>>

RedisStep(c) ==
    \/ RedisCheckNamespace(c)
    \/ RedisHExists(c)
    \/ RedisHSet(c)
    \/ RedisReadPrefix(c)
    \/ RedisWatch(c)
    \/ RedisHGet(c)
    \/ RedisExec(c)
    \/ RedisHDel(c)
    \/ RedisHGetAll(c)
    \/ RedisDel(c)
    \/ RedisSRem(c)
    \/ RedisSAdd(c)
    \/ RedisSMembers(c)

=============================================================================
