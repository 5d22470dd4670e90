-------------------------------- MODULE Sql --------------------------------
(***************************************************************************)
(* The storage of sql.go on PostgreSQL in its default isolation level,     *)
(* read committed.  A namespace is a table.  There is no lock in the       *)
(* process.  A statement that writes or selects for update takes the lock  *)
(* of its row, waits while another transaction has it, and looks at the    *)
(* row as it is then; what a transaction writes is seen once it commits.   *)
(* DROP TABLE waits for the transactions that are open on the table; it    *)
(* and its commit, a DELETE of all rows and a CREATE TABLE are one step.   *)
(***************************************************************************)
EXTENDS Backend

VARIABLES row       \* per table and key, the caller whose transaction has locked the row

SqlInit == row = [n \in Namespaces |-> [k \in Keys |-> None]]

Table(c) == Place(op[c].ns)

\* A process that knows a table does not look whether it is still there.
Dropped(c) == Table(c) \notin spaces

RowFree(c) == row[Table(c)][op[c].key] = None

\* A row that nobody has committed yet is not seen, so nobody waits for it.
SeenRowFree(c) == Stored(c) # Absent => RowFree(c)

SetRow(c, holder) == row' = [row EXCEPT ![Table(c)][op[c].key] = holder]

\* All tables are listed, and their namespaces noted.
SqlCheckNamespace(c) == CheckNamespace(c, spaces) /\ UNCHANGED <<lock, row>>

\* CreatePrefix: a SELECT outside of the transaction, whose errors count as
\* not found, then the INSERT.
SqlPrefixExists(c) ==
    /\ Called(c, "CreatePrefix")
    /\ IF Dropped(c) \/ Stored(c) = Absent
       THEN GoTo(c, "Insert") /\ UNCHANGED got
       ELSE Answer(c, "existing")
    /\ UNCHANGED <<spaces, data, cache, lock, row>>

SqlInsert(c) ==
    /\ pc[c] = "Insert"
    /\ Dropped(c) \/ RowFree(c)
    /\ IF ~ Dropped(c) /\ Stored(c) = Absent
       THEN GoTo(c, "Commit") /\ SetRow(c, c) /\ UNCHANGED got
       ELSE Answer(c, "error") /\ UNCHANGED row
    /\ UNCHANGED <<spaces, data, cache, lock>>

SqlReadPrefix(c) ==
    /\ Called(c, "ReadPrefix")
    /\ IF Dropped(c) THEN Answer(c, "error") ELSE GiveRecord(c, Stored(c))
    /\ UNCHANGED <<spaces, data, cache, lock, row>>

\* UpdatePrefix: SELECT ... FOR UPDATE, then UPDATE, both for the version.
\* An error of either is told as ErrOptimisticLockError.
SqlSelectForUpdate(c) ==
    /\ Called(c, "UpdatePrefix")
    /\ SeenRowFree(c)
    /\ IF Stored(c) = op[c].version
       THEN GoTo(c, "Update") /\ SetRow(c, c) /\ UNCHANGED got
       ELSE Answer(c, "conflict") /\ UNCHANGED row
    /\ UNCHANGED <<spaces, data, cache, lock>>

SqlUpdate(c) ==
    /\ pc[c] = "Update"
    /\ IF Stored(c) = op[c].version
       THEN GoTo(c, "Commit") /\ UNCHANGED <<got, row>>
       ELSE Answer(c, "conflict") /\ SetRow(c, None)
    /\ UNCHANGED <<spaces, data, cache, lock>>

\* A transaction that deleted no row has nothing to commit.
SqlDelete(c) ==
    /\ Called(c, "DeletePrefix")
    /\ SeenRowFree(c)
    /\ IF Stored(c) = Absent
       THEN Answer(c, IF Dropped(c) THEN "error" ELSE "ok") /\ UNCHANGED row
       ELSE GoTo(c, "Commit") /\ SetRow(c, c) /\ UNCHANGED got
    /\ UNCHANGED <<spaces, data, cache, lock>>

\* Mutant: the transaction is left open and keeps its row locked.
SqlCommitLeftOpen(c) ==
    /\ pc[c] = "Commit"
    /\ Write(c, Committed(op[c]))
    /\ Answer(c, "ok")
    /\ UNCHANGED <<spaces, cache, lock, row>>

SqlCommit(c) ==
    /\ pc[c] = "Commit"
    /\ Write(c, Committed(op[c]))
    /\ Answer(c, "ok")
    /\ SetRow(c, None)
    /\ UNCHANGED <<spaces, cache, lock>>

SqlSelectAll(c) ==
    /\ \E name \in ListCalls :
           /\ Called(c, name)
           /\ IF Dropped(c)
              THEN Answer(c, "error")
              ELSE Give(c, "ok", None, Listed(name, RecordsIn(data[Table(c)])))
    /\ UNCHANGED <<spaces, data, cache, lock, row>>

SqlDeleteAll(c) ==
    /\ Called(c, "DeleteAllPrefixes")
    /\ \A k \in Keys : data[Table(c)][k] # Absent => row[Table(c)][k] = None
    /\ Clear(Table(c))
    /\ Answer(c, IF Dropped(c) THEN "error" ELSE "ok")
    /\ UNCHANGED <<spaces, cache, lock, row>>

-----------------------------------------------------------------------------
\* The length of the name is looked at, not that of the table's.
SqlCreateTable(c) ==
    /\ Begins(c, "CreateNamespace")
    /\ IF Len(op[c].ns) > MaxIdLength
       THEN Answer(c, "toolong") /\ UNCHANGED <<spaces, cache>>
       ELSE /\ IF Known(c)
               THEN UNCHANGED <<spaces, cache>>
               ELSE spaces' = spaces \cup {Table(c)} /\ Learn(c, {op[c].ns})
            /\ Answer(c, "ok")
    /\ UNCHANGED <<data, lock, row>>

SqlListNamespaces(c) ==
    /\ Begins(c, "ListNamespaces")
    /\ Learn(c, spaces)
    /\ Give(c, "ok", None, spaces)
    /\ UNCHANGED <<spaces, data, lock, row>>

SqlDropTable(c) ==
    /\ Called(c, "DeleteNamespace")
    /\ \A d \in Callers : pc[d] \in {"Update", "Commit"} => Table(d) # Table(c)
    /\ spaces' = spaces \ {Table(c)}
    /\ Clear(Table(c))
    /\ IF Dropped(c) THEN Answer(c, "error") ELSE GoTo(c, "Forget") /\ UNCHANGED got
    /\ UNCHANGED <<cache, lock, row>>

SqlForget(c) ==
    /\ pc[c] = "Forget"
    /\ cache' = [cache EXCEPT ![ProcessOf(c)] = @ \ {op[c].ns}]
    /\ Answer(c, "ok")
    /\ UNCHANGED <<spaces, data, lock, row>>

\* The server rolls the transactions of a lost connection back.
SqlRollback(p) ==
    row' = [n \in Namespaces |-> [k \in Keys |->
               IF row[n][k] \in CallersOf(p) THEN None ELSE row[n][k]]]

SqlStep(c) ==
    \/ SqlCheckNamespace(c)
    \/ SqlPrefixExists(c)
    \/ SqlInsert(c)
    \/ SqlReadPrefix(c)
    \/ SqlSelectForUpdate(c)
    \/ SqlUpdate(c)
    \/ SqlDelete(c)
    \/ SqlCommit(c)
    \/ SqlSelectAll(c)
    \/ SqlDeleteAll(c)
    \/ SqlCreateTable(c)
    \/ SqlListNamespaces(c)
    \/ SqlDropTable(c)
    \/ SqlForget(c)

=============================================================================
