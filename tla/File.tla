-------------------------------- MODULE File --------------------------------
(***************************************************************************)
(* The storage of file.go: a memory storage per process, loaded from the   *)
(* file when its modification time is another one than that of the last    *)
(* look, and written to the file after every change.  Some calls share the *)
(* lock, and they load too; the modification time is noted before the      *)
(* memory is cleared and filled.  spaces and data are what the file holds  *)
(* or, while it is being written, held; the file is torn when its writer   *)
(* stopped in the middle and left what cannot be parsed.  Two writes never *)
(* get the same modification time.                                         *)
(***************************************************************************)
EXTENDS Memory

VARIABLES
    exists,         \* there is a file
    torn,           \* and it cannot be parsed
    parent,         \* per process, the maps of the memory storage
    synced          \* per process, modTime is that of the file

fileVars == <<exists, torn, parent, synced>>

Blank == [spaces |-> {Root}, data |-> [n \in Namespaces |-> Empty]]

FileInit ==
    /\ exists = FALSE
    /\ torn = FALSE
    /\ parent = [p \in Processes |-> Blank]
    /\ synced = [p \in Processes |-> FALSE]

\* The file as a set: an item for each namespace and one for each record.
Image(maps) ==
    [ns : maps.spaces, key : {None}, version : {Absent}]
      \cup UNION { { [ns |-> n, key |-> r.key, version |-> r.version] :
                       r \in RecordsIn(maps.data[n]) } : n \in maps.spaces }

Content(image) ==
    [spaces |-> { i.ns : i \in image },
     data   |-> [n \in Namespaces |-> [k \in Keys |->
                    IF \E i \in image : i.ns = n /\ i.key = k
                    THEN (CHOOSE i \in image : i.ns = n /\ i.key = k).version
                    ELSE Absent]]]

-----------------------------------------------------------------------------
\* reload has nothing to do when the modification time is the one it knows; a
\* file that does not exist has none.
FileLock(c) ==
    /\ pc[c] = "called"
    /\ MayLock(c)
    /\ Lock(c)
    /\ GoTo(c, IF synced[ProcessOf(c)] THEN "Parent" ELSE "ReadFile")
    /\ UNCHANGED <<spaces, data, got, todo, fileVars>>

BeingWritten == \E d \in Callers : pc[d] = "WriteData"

\* A file that is being written is empty, which is no error, or broken.  The
\* modification time of a file that cannot be parsed is noted as well.
FileReadFile(c) ==
    /\ pc[c] = "ReadFile"
    /\ synced' = [synced EXCEPT ![ProcessOf(c)] = exists]
    /\ \E broken \in (IF BeingWritten THEN BOOLEAN ELSE {torn}) :
           IF broken
           THEN Answer(c, "error") /\ Unlock(c) /\ UNCHANGED todo
           ELSE /\ todo' = [todo EXCEPT ![c] =
                               IF ~ exists \/ BeingWritten
                               THEN {}
                               ELSE Image([spaces |-> spaces, data |-> data])]
                /\ GoTo(c, "Clear")
                /\ UNCHANGED <<got, lock>>
    /\ UNCHANGED <<spaces, data, exists, torn, parent>>

\* The root namespace is emptied, the others go.
FileClear(c) ==
    /\ pc[c] = "Clear"
    /\ parent' = [parent EXCEPT ![ProcessOf(c)] =
                     [Blank EXCEPT !.spaces = @ \cap parent[ProcessOf(c)].spaces]]
    /\ GoTo(c, IF todo[c] = {} THEN "Parent" ELSE "Fill")
    /\ UNCHANGED <<spaces, data, lock, got, todo, exists, torn, synced>>

\* What filling the memory with one item does: a namespace is created before
\* its records.
Filled(maps, i) ==
    IF i.key = None
    THEN MemoryCreateNamespace(maps, i)
    ELSE IF i.ns \in maps.spaces THEN MemoryCreatePrefix(maps, i) ELSE Says(maps, "nospace")

\* One after the other, in any order.  A record that another reader has created
\* meanwhile, or a namespace it has deleted, ends the load and the call with an
\* error.
FileFill(c) ==
    /\ pc[c] = "Fill"
    /\ \E i \in todo[c] :
           LET result == Filled(parent[ProcessOf(c)], i)
               left   == IF result.ans = "ok" THEN todo[c] \ {i} ELSE {}
           IN  /\ \A j \in todo[c] : (j.ns = i.ns /\ j.key = None) => j = i
               /\ parent' = [parent EXCEPT ![ProcessOf(c)] = result.maps]
               /\ todo' = [todo EXCEPT ![c] = left]
               /\ IF result.ans = "ok"
                  THEN GoTo(c, IF left = {} THEN "Parent" ELSE "Fill") /\ UNCHANGED <<got, lock>>
                  ELSE Answer(c, "error") /\ Unlock(c)
    /\ UNCHANGED <<spaces, data, exists, torn, synced>>

-----------------------------------------------------------------------------
Persisted == (PrefixCalls \cup NamespaceCalls) \ (ListCalls \cup {"ReadPrefix", "ListNamespaces"})

\* The call of the memory storage; a change that succeeds is persisted.
FileParent(c) ==
    /\ pc[c] = "Parent"
    /\ LET result == MemoryCall(parent[ProcessOf(c)], op[c]) IN
           /\ parent' = [parent EXCEPT ![ProcessOf(c)] = result.maps]
           /\ IF op[c].name \in Persisted /\ result.ans = "ok"
              THEN GoTo(c, "Truncate") /\ UNCHANGED <<got, lock>>
              ELSE Give(c, result.ans, result.copy, result.got) /\ Unlock(c)
    /\ UNCHANGED <<spaces, data, todo, exists, torn, synced>>

\* What is to be written is put together; os.WriteFile cuts the file and then
\* writes it.
FileTruncate(c) ==
    /\ pc[c] = "Truncate"
    /\ todo' = [todo EXCEPT ![c] = Image(parent[ProcessOf(c)])]
    /\ exists' = TRUE
    /\ torn' = FALSE
    /\ synced' = [p \in Processes |-> FALSE]
    /\ GoTo(c, "WriteData")
    /\ UNCHANGED <<spaces, data, lock, got, parent>>

FileWriteData(c) ==
    /\ pc[c] = "WriteData"
    /\ spaces' = Content(todo[c]).spaces
    /\ data' = Content(todo[c]).data
    /\ synced' = [p \in Processes |-> p = ProcessOf(c)]
    /\ todo' = [todo EXCEPT ![c] = {}]
    /\ Answer(c, "ok")
    /\ Unlock(c)
    /\ UNCHANGED <<exists, torn, parent>>

\* The memory goes with the process, and so does the file in the middle of a
\* write: it is left empty or torn.  The other storages keep what they have, and
\* the process that starts makes the root namespace there.
FileStop(p) ==
    /\ IF \E c \in CallersOf(p) : pc[c] = "WriteData"
       THEN spaces' = Blank.spaces /\ data' = Blank.data /\ torn' \in BOOLEAN
       ELSE spaces' = Started /\ UNCHANGED <<data, torn>>
    /\ parent' = [parent EXCEPT ![p] = Blank]
    /\ synced' = [synced EXCEPT ![p] = FALSE]
    /\ UNCHANGED exists

FileStep(c) ==
    /\ \/ FileLock(c)
       \/ FileReadFile(c)
       \/ FileClear(c)
       \/ FileFill(c)
       \/ FileParent(c)
       \/ FileTruncate(c)
       \/ FileWriteData(c)
    /\ UNCHANGED cache

=============================================================================
