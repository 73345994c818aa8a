----------------------------- MODULE MCIndexing -----------------------------
(***************************************************************************)
(* Small instances of Indexing for TLC: one memory with two revisions, of  *)
(* which the later one sorts before the backfill cursor.                   *)
(***************************************************************************)
EXTENDS IndexingRefinement

CONSTANT m1

OneMemory == [r \in 1..2 |-> m1]

\* The second revision has the smaller uuid.
Descending2 == [r \in 1..2 |-> 3 - r]
=============================================================================
