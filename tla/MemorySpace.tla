----------------------------- MODULE MemorySpace -----------------------------
(***************************************************************************)
(* What semantic indexing promises a client of one memory space, without   *)
(* jobs, leases, workers or indexes: where a memory stands, which accepted *)
(* revisions a semantic search can find, and what GET /v1/operations says  *)
(* of each revision.  Indexing implements it (IndexingRefinement).         *)
(*                                                                         *)
(* The promise is in what there is no action for.  A revision is reported  *)
(* ready in the step that makes it findable.  Work on a live revision is   *)
(* given up only in the step that makes all live revisions findable in     *)
(* another index.  A withdrawal hides all of a memory at once and for good,*)
(* and nothing else takes a revision out of the search.                    *)
(***************************************************************************)
CONSTANTS
    Memory,     \* memories of the space
    Revision,   \* immutable revisions
    MemoryOf    \* [Revision -> Memory]

VARIABLES
    standing,   \* absent, live, deleted (withdrawn), purged (erased)
    status,     \* what the operation of a revision reports
    searchable  \* revisions that semantic search can return

vars == <<standing, status, searchable>>

InProgress == {"accepted", "indexing"}
Owed == InProgress \cup {"failed"}

Live(r) == status[r] # "none" /\ standing[MemoryOf[r]] = "live"

Init ==
    /\ standing = [m \in Memory |-> "absent"]
    /\ status = [r \in Revision |-> "none"]
    /\ searchable = {}

Report(r, from, to) ==
    /\ status[r] \in from
    /\ status' = [status EXCEPT ![r] = to]

\* A memory is saved or revised.
Accept(r) ==
    /\ standing[MemoryOf[r]] \in {"absent", "live"}
    /\ standing' = [standing EXCEPT ![MemoryOf[r]] = "live"]
    /\ Report(r, {"none"}, "accepted")
    /\ UNCHANGED searchable

\* Work on a revision begins, is put off, fails for good, is asked for again.
Advance(r) ==
    /\ \/ Report(r, {"accepted"}, "indexing")
       \/ Report(r, {"indexing"}, "accepted")
       \/ Report(r, InProgress, "failed")
       \/ Report(r, {"failed"}, "accepted")
    /\ UNCHANGED <<standing, searchable>>

Index(r) ==
    /\ Live(r)
    /\ Report(r, {"indexing"}, "ready")
    /\ searchable' = searchable \cup {r}
    /\ UNCHANGED standing

\* Another index takes over: it finds every live revision, so that nothing is owed.
CutOver ==
    /\ searchable' = {r \in Revision : Live(r)}
    /\ status' = [r \in Revision |-> IF status[r] \in Owed THEN "cancelled" ELSE status[r]]
    /\ UNCHANGED standing

Withdraw(m) ==
    /\ standing[m] = "live"
    /\ standing' = [standing EXCEPT ![m] = "deleted"]
    /\ status' = [r \in Revision |-> IF MemoryOf[r] = m /\ status[r] \in Owed
                                     THEN "cancelled" ELSE status[r]]
    /\ searchable' = {r \in searchable : MemoryOf[r] # m}

Erase(m) ==
    /\ standing[m] = "deleted"
    /\ standing' = [standing EXCEPT ![m] = "purged"]
    /\ UNCHANGED <<status, searchable>>

\* The space comes back from a backup: work in hand starts over, withdrawals
\* are carried out.
Recover ==
    /\ standing' = [m \in Memory |-> IF standing[m] = "deleted" THEN "purged" ELSE standing[m]]
    /\ status' = [r \in Revision |-> IF status[r] = "indexing" THEN "accepted" ELSE status[r]]
    /\ UNCHANGED searchable

Next ==
    \/ \E r \in Revision : Accept(r) \/ Advance(r) \/ Index(r)
    \/ CutOver
    \/ \E m \in Memory : Withdraw(m) \/ Erase(m)
    \/ Recover

Spec == Init /\ [][Next]_vars

=============================================================================
