---------------------------- MODULE MCLibrarian ----------------------------
(***************************************************************************)
(* Librarian for TLC, with prompts that hold one memory each.              *)
(***************************************************************************)
EXTENDS Librarian

TwoAreTooMany ==
    Modes \X {s \in SUBSET (Memory \X (1..VersionBound)) : Cardinality(s) > 1}
=============================================================================
