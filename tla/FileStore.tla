----------------------------- MODULE FileStore ------------------------------
(***************************************************************************)
(* The stores of the standalone deployment (packages/chain/src/service/    *)
(* store): a map in memory, which the file store writes to its file every  *)
(* 30 seconds and at shutdown, and reads at start.  Of its entries two are *)
(* kept: the last block, and the ongoing incident of the one condition     *)
(* that is watched.  The entries that expire hold results of queries.      *)
(***************************************************************************)
EXTENDS Optional

VARIABLES
  storeType,   \* of the configuration: "file" or "inMemory"
  kv,          \* the map: last block and ongoing incident, None if not there
  isDirty,     \* it has changed since it was written
  file         \* the map in the file, None without one or if it does not parse

fileStore == <<storeType, kv, isDirty, file>>

EmptyMap == [last |-> None, ongoing |-> None]

\* load: a file that does not parse is as good as none.
Load == IF storeType = "inMemory" THEN EmptyMap ELSE Or(file, EmptyMap)

\* Mutant: the entry stays.
DelNothing(key) == UNCHANGED <<kv, isDirty>>

Set(key, value) == kv' = [kv EXCEPT ![key] = value] /\ isDirty' = TRUE
Del(key) == kv' = [kv EXCEPT ![key] = None] /\ isDirty' = (isDirty \/ kv[key] # None)

\* save, of the map m.
Written(m) == IF storeType = "file" THEN m ELSE file

Save ==
  /\ storeType = "file" /\ isDirty
  /\ file' = Written(kv) /\ isDirty' = FALSE
  /\ UNCHANGED <<storeType, kv>>
=============================================================================
