---------------------------- MODULE ConfigLoader ----------------------------
(***************************************************************************)
(* The loader of the configuration (packages/config/src/loader.ts): the    *)
(* files are read again when their fingerprint has changed, and the last   *)
(* good snapshot is served while they are wrong.  It never waits for       *)
(* anything, so that of all there is only the editing of the files goes on *)
(* while it reads them.                                                    *)
(*                                                                         *)
(* The edits of a directory are numbered.  No two leave the same contents, *)
(* so that the number stands for the fingerprint, and for the groups that  *)
(* MonitoringConfig makes of the contents.                                 *)
(***************************************************************************)
EXTENDS MonitoringConfig

CONSTANTS
  Chain,        \* the chain of the service
  Directories   \* what may become of a directory: for each edit, its files

Verdict(files) ==
  [isGood |-> files # <<>> /\ ~ConfigsAreRejected(files),
   isWatching |-> MonitoringGroups(files, Chain) # <<>>]

Verdicts == [d \in Directories |-> [e \in DOMAIN d |-> Verdict(d[e])]]

\* Neither a number nor a snapshot.
ASSUME NoneAssumption == None \notin Nat /\ None \notin [fingerprint : Nat, groups : Nat]

\* In the end the files are right and watch something.
ASSUME DirectoriesAssumption ==
  \A d \in Directories :
    /\ Len(d) \in Nat \ {0} /\ DOMAIN d = 1 .. Len(d)
    /\ \A i, j \in DOMAIN d : d[i] = d[j] => i = j
    /\ Verdicts[d][Len(d)] = [isGood |-> TRUE, isWatching |-> TRUE]

VARIABLES
  verdict,         \* of Verdicts, for the directory of this behaviour
  edit,            \* the last edit
  cachedSnapshot   \* of the process: [fingerprint, groups], or None

loader == <<verdict, edit, cachedSnapshot>>

\* Mutant: the fingerprint is computed after the files are read.
LoadedBefore(read) ==
  IF cachedSnapshot # None /\ cachedSnapshot.fingerprint = edit THEN cachedSnapshot
  ELSE IF verdict[edit].isGood THEN [fingerprint |-> read, groups |-> edit] ELSE cachedSnapshot

\* The snapshot after the fingerprint of this edit and the files of the edit
\* read, which may be the next one: None when it throws.
Loaded(read) ==
  IF cachedSnapshot # None /\ cachedSnapshot.fingerprint = edit THEN cachedSnapshot
  ELSE IF verdict[read].isGood THEN [fingerprint |-> edit, groups |-> read] ELSE cachedSnapshot

LoadSnapshot ==
  \E read \in {edit, edit + 1} \intersect DOMAIN verdict :
    /\ edit' = read
    /\ cachedSnapshot' = Loaded(read)
    /\ UNCHANGED verdict

Edit ==
  /\ edit + 1 \in DOMAIN verdict
  /\ edit' = edit + 1
  /\ UNCHANGED <<verdict, cachedSnapshot>>
=============================================================================
