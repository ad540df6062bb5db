------------------------------ MODULE Optional ------------------------------
(***************************************************************************)
(* Values that may be left out: null and undefined, and `??`.              *)
(***************************************************************************)
EXTENDS Integers, Sequences, FiniteSets, SequencesExt

CONSTANT None   \* null, undefined

Lookup(f, key) == IF key \in DOMAIN f THEN f[key] ELSE None
Or(x, default) == IF x = None THEN default ELSE x
=============================================================================
