------------------------------- MODULE Memory -------------------------------
(***************************************************************************)
(* The storage of memory.go.  Every call looks at the maps once, so it is  *)
(* one step; a call is a function of the maps, which file.go uses as well. *)
(* Maps are a record of the namespaces there are and what lies in them.    *)
(***************************************************************************)
EXTENDS Backend

\* What a call leaves and answers.
Result(maps, a, r, g) == [maps |-> maps, ans |-> a, copy |-> r, got |-> g]

Says(maps, a) == Result(maps, a, None, None)

MemoryCreatePrefix(maps, o) ==
    IF maps.data[o.ns][o.key] = Absent
    THEN Says([maps EXCEPT !.data[o.ns][o.key] = o.version], "ok")
    ELSE Says(maps, "error")

MemoryReadPrefix(maps, o) ==
    LET version == maps.data[o.ns][o.key] IN
    IF version = Absent
    THEN Says(maps, "notfound")
    ELSE Result(maps, "ok", [ns |-> o.ns, key |-> o.key, version |-> version], None)

MemoryUpdatePrefix(maps, o) ==
    LET version == maps.data[o.ns][o.key] IN
    IF version = o.version
    THEN Says([maps EXCEPT !.data[o.ns][o.key] = o.version + 1], "ok")
    ELSE Says(maps, IF version = Absent THEN "error" ELSE "conflict")

MemoryDeletePrefix(maps, o) == Says([maps EXCEPT !.data[o.ns][o.key] = Absent], "ok")

MemoryReadAll(maps, o) ==
    Result(maps, "ok", None, Listed(o.name, RecordsIn(maps.data[o.ns])))

\* A namespace that does not exist is not refused: it is there afterwards.
MemoryDeleteAllPrefixes(maps, o) ==
    Says([spaces |-> maps.spaces \cup {o.ns}, data |-> [maps.data EXCEPT ![o.ns] = Empty]], "ok")

MemoryCreateNamespace(maps, o) == Says([maps EXCEPT !.spaces = @ \cup {o.ns}], "ok")

MemoryListNamespaces(maps) == Result(maps, "ok", None, maps.spaces)

MemoryDeleteNamespace(maps, o) ==
    Says([spaces |-> maps.spaces \ {o.ns}, data |-> [maps.data EXCEPT ![o.ns] = Empty]], "ok")

MemoryCall(maps, o) ==
    CASE o.name = "CreateNamespace"   -> MemoryCreateNamespace(maps, o)
      [] o.name = "ListNamespaces"    -> MemoryListNamespaces(maps)
      [] o.name = "DeleteAllPrefixes" -> MemoryDeleteAllPrefixes(maps, o)
      [] OTHER ->
         IF o.ns \notin maps.spaces THEN Says(maps, "nospace") ELSE
         CASE o.name = "CreatePrefix"    -> MemoryCreatePrefix(maps, o)
           [] o.name = "ReadPrefix"      -> MemoryReadPrefix(maps, o)
           [] o.name = "UpdatePrefix"    -> MemoryUpdatePrefix(maps, o)
           [] o.name = "DeletePrefix"    -> MemoryDeletePrefix(maps, o)
           [] o.name \in ListCalls       -> MemoryReadAll(maps, o)
           [] o.name = "DeleteNamespace" -> MemoryDeleteNamespace(maps, o)

MemoryStep(c) ==
    /\ pc[c] = "called"
    /\ LET result == MemoryCall([spaces |-> spaces, data |-> data], op[c]) IN
           /\ spaces' = result.maps.spaces
           /\ data' = result.maps.data
           /\ Give(c, result.ans, result.copy, result.got)
    /\ UNCHANGED <<cache, lock>>

=============================================================================
