-------------------------- MODULE IndexingRefinement --------------------------
(***************************************************************************)
(* Indexing implements MemorySpace.  A revision is searchable when its     *)
(* memory is live and the active index holds its vectors; its status is    *)
(* that of the operation of its ordinary job.  Candidate indexes, leases,  *)
(* workers, scanners and pauses are invisible to the client.               *)
(***************************************************************************)
EXTENDS Indexing

SearchableNow == {r \in LiveRevs : <<r, active>> \in emb}
StatusNow == [r \in Revision |-> opState[Ordinary(r)]]

Space == INSTANCE MemorySpace
            WITH standing <- memState, status <- StatusNow, searchable <- SearchableNow

\* Every step of the queue, the workers, the backfill, the administration and
\* the restore is one promised to the client, or invisible to it.  In
\* particular no step reports a revision ready before it can be found, gives up
\* work on a live revision except in a cutover to an index that holds all of
\* them, or takes a live revision out of the search.
ImplementsSpace == Space!Spec

=============================================================================
