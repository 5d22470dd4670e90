------------------------------ MODULE Mongodb ------------------------------
(***************************************************************************)
(* The storage of mongodb.go.  A namespace is a collection.  A unique      *)
(* index on the cidr makes InsertOne fail when a record appeared after     *)
(* FindOne; ReplaceOne and FindOneAndDelete match and write in one         *)
(* command.  The index comes in a command after the one that makes the     *)
(* collection, and an InsertOne makes a collection that is not there.      *)
(***************************************************************************)
EXTENDS Backend

VARIABLES indexed   \* the collections with a unique index

MongoInit == indexed = {Root}

\* The names of all collections are noted, and never forgotten.
MongoCheckNamespace(c) ==
    /\ CheckNamespaceLocked(c, spaces)
    /\ UNCHANGED indexed

MongoFindOne(c) ==
    /\ Called(c, "CreatePrefix")
    /\ MayLock(c)
    /\ IF Stored(c) = Absent
       THEN GoTo(c, "InsertOne") /\ Lock(c) /\ UNCHANGED got
       ELSE Answer(c, "error") /\ Unlock(c)
    /\ UNCHANGED <<spaces, data, cache, indexed>>

\* Mutant: the collection has no unique index.
MongoInsertOneNotUnique(c) ==
    /\ pc[c] = "InsertOne"
    /\ Write(c, op[c].version)
    /\ Answer(c, "ok")
    /\ Unlock(c)
    /\ UNCHANGED <<spaces, cache, indexed>>

MongoInsertOne(c) ==
    /\ pc[c] = "InsertOne"
    /\ IF Stored(c) = Absent \/ op[c].ns \notin indexed
       THEN Write(c, op[c].version) /\ Answer(c, "ok") /\ spaces' = spaces \cup {op[c].ns}
       ELSE Answer(c, "error") /\ UNCHANGED <<spaces, data>>
    /\ Unlock(c)
    /\ UNCHANGED <<cache, indexed>>

MongoReadPrefix(c) ==
    /\ Called(c, "ReadPrefix")
    /\ MayLock(c)
    /\ GiveRecord(c, Stored(c))
    /\ Unlock(c)
    /\ UNCHANGED <<spaces, data, cache, indexed>>

MongoReplaceOne(c) ==
    /\ Called(c, "UpdatePrefix")
    /\ MayLock(c)
    /\ IF Stored(c) = op[c].version
       THEN Write(c, op[c].version + 1) /\ Answer(c, "ok")
       ELSE Answer(c, "conflict") /\ UNCHANGED data
    /\ Unlock(c)
    /\ UNCHANGED <<spaces, cache, indexed>>

MongoFindOneAndDelete(c) ==
    /\ Called(c, "DeletePrefix")
    /\ MayLock(c)
    /\ Write(c, Absent)
    /\ Answer(c, IF Stored(c) = Absent THEN "error" ELSE "ok")
    /\ Unlock(c)
    /\ UNCHANGED <<spaces, cache, indexed>>

\* Both read the documents; ReadAllPrefixCidrs keeps their cidrs.
MongoFindAll(c) ==
    /\ \E name \in ListCalls :
           Called(c, name) /\ Give(c, "ok", None, Listed(name, RecordsIn(data[op[c].ns])))
    /\ MayLock(c)
    /\ Unlock(c)
    /\ UNCHANGED <<spaces, data, cache, indexed>>

MongoDeleteMany(c) ==
    /\ Called(c, "DeleteAllPrefixes")
    /\ MayLock(c)
    /\ Clear(op[c].ns)
    /\ Answer(c, "ok")
    /\ Unlock(c)
    /\ UNCHANGED <<spaces, cache, indexed>>

\* A collection that is there already is not noted and gets no index.
MongoCreateCollection(c) ==
    /\ Begins(c, "CreateNamespace")
    /\ MayLock(c)
    /\ IF Known(c) \/ op[c].ns \in spaces
       THEN Answer(c, "ok") /\ UNCHANGED <<spaces, lock>>
       ELSE /\ spaces' = spaces \cup {op[c].ns}
            /\ GoTo(c, "CreateMany")
            /\ Lock(c)
            /\ UNCHANGED got
    /\ UNCHANGED <<data, cache, indexed>>

MongoCreateMany(c) ==
    /\ pc[c] = "CreateMany"
    /\ indexed' = indexed \cup {op[c].ns}
    /\ spaces' = spaces \cup {op[c].ns}
    /\ Learn(c, {op[c].ns})
    /\ Answer(c, "ok")
    /\ Unlock(c)
    /\ UNCHANGED data

MongoListNamespaces(c) ==
    /\ Begins(c, "ListNamespaces")
    /\ MayLock(c)
    /\ Learn(c, spaces)
    /\ Give(c, "ok", None, spaces)
    /\ UNCHANGED <<spaces, data, lock, indexed>>

\* The name stays among those the process knows.
MongoDrop(c) ==
    /\ Called(c, "DeleteNamespace")
    /\ MayLock(c)
    /\ spaces' = spaces \ {op[c].ns}
    /\ indexed' = indexed \ {op[c].ns}
    /\ Clear(op[c].ns)
    /\ Answer(c, "ok")
    /\ Unlock(c)
    /\ UNCHANGED cache

\* A process that starts makes the root collection when it is not there.
MongoStart == indexed' = IF Root \in spaces THEN indexed ELSE indexed \cup {Root}

MongoStep(c) ==
    \/ MongoCheckNamespace(c)
    \/ MongoFindOne(c)
    \/ MongoInsertOne(c)
    \/ MongoReadPrefix(c)
    \/ MongoReplaceOne(c)
    \/ MongoFindOneAndDelete(c)
    \/ MongoFindAll(c)
    \/ MongoDeleteMany(c)
    \/ MongoCreateCollection(c)
    \/ MongoCreateMany(c)
    \/ MongoListNamespaces(c)
    \/ MongoDrop(c)

=============================================================================
