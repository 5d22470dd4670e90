------------------------------ MODULE Storages ------------------------------
(***************************************************************************)
(* The storages next to each other: a behaviour picks a deployment, that   *)
(* is a storage and the processes that use it, and stays with it.          *)
(***************************************************************************)
EXTENDS File, Mongodb, Etcd, Redis, Sql

vars == <<deployment, spaces, data, cache, op, ans, copy, got, todo, pc, lock,
          dirty, indexed, row, exists, torn, parent, synced>>

Init == BaseInit /\ RedisInit /\ MongoInit /\ SqlInit /\ FileInit

Step(c) ==
    \/ Uses("memory") /\ MemoryStep(c) /\ UNCHANGED <<todo, dirty, indexed, row, fileVars>>
    \/ Uses("mongodb") /\ MongoStep(c) /\ UNCHANGED <<todo, dirty, row, fileVars>>
    \/ Uses("etcd") /\ EtcdStep(c) /\ UNCHANGED <<dirty, indexed, row, fileVars>>
    \/ Uses("redis") /\ RedisStep(c) /\ UNCHANGED <<todo, indexed, row, fileVars>>
    \/ Uses("postgres") /\ SqlStep(c) /\ UNCHANGED <<todo, dirty, indexed, fileVars>>
    \/ Uses("file") /\ FileStep(c) /\ UNCHANGED <<dirty, indexed, row>>

Next ==
    \/ \E c \in Callers :
           \/ Call(c) /\ UNCHANGED <<dirty, indexed, row, fileVars>>
           \/ Step(c)
    \/ \E p \in Processes :
           Stop(p) /\ MongoStart /\ SqlRollback(p) /\ FileStop(p) /\ UNCHANGED dirty

(***************************************************************************)
(* A call in progress goes on.  It may have to wait for a lock again and   *)
(* again: sync.Mutex and sync.RWMutex let nobody wait forever, and         *)
(* PostgreSQL serves those who wait for a row in turn.                     *)
(***************************************************************************)
Fairness == \A c \in Callers : SF_vars(Step(c))

Spec == Init /\ [][Next]_vars /\ Fairness

-----------------------------------------------------------------------------
\* A namespace is there while the database has it and, on postgres, until the
\* call that dropped its table has forgotten it; a list is given when the call
\* ends.
There ==
    spaces \cup { op[c].ns : c \in { c \in Callers : Uses("postgres") /\ pc[c] = "Forget" } }

Abstract ==
    INSTANCE Storage
        WITH db  <- [n \in There |-> data[n]],
             got <- [c \in Callers |-> IF op[c] = None THEN got[c] ELSE None]

(***************************************************************************)
(* A storage does what its interface promises: as seen by its callers, a   *)
(* create, an update or a delete is one step, an update succeeds on the    *)
(* version it was given and on no other, a failure to do so is told as     *)
(* ErrOptimisticLockError, a list is what was stored at one moment, a      *)
(* namespace is separate from the others, empty when it is created and     *)
(* gone with its records when it is deleted, and a call in a namespace     *)
(* that does not exist fails with ErrNamespaceDoesNotExist, however the    *)
(* commands of the calls interleave and whatever process stops in between. *)
(***************************************************************************)
ImplementsStorage == Abstract!Spec

(***************************************************************************)
(* What is stored stays stored: a record leaves the storage in no step but *)
(* one of a delete of it, of all records of its namespace or of the        *)
(* namespace, whoever reads and whoever starts again.                      *)
(***************************************************************************)
RecordsKept ==
    [][\A n \in Namespaces, k \in Keys :
          (data[n][k] # Absent /\ data'[n][k] = Absent)
              => \E c \in Callers :
                     /\ op[c] # None
                     /\ op[c].ns = n
                     /\ \/ op[c].name = "DeletePrefix" /\ op[c].key = k
                        \/ op[c].name \in {"DeleteAllPrefixes", "DeleteNamespace"}]_vars

(***************************************************************************)
(* A call that ends well was in a namespace that exists: a namespace that  *)
(* was never created, or that was deleted, is told as                      *)
(* ErrNamespaceDoesNotExist.                                               *)
(***************************************************************************)
MissingNamespaceTold ==
    [][\A c \in Callers :
          (op[c] # None /\ op'[c] = None /\ ans'[c] = "ok"
             /\ op[c].name \notin {"CreateNamespace", "ListNamespaces"})
              => op[c].ns \in spaces]_vars

(***************************************************************************)
(* Every call is answered, or its process stops: nobody waits forever for  *)
(* the lock of the storage object or of a row.                             *)
(***************************************************************************)
CallsAnswered == \A c \in Callers : (op[c] # None) ~> (op[c] = None)

=============================================================================
