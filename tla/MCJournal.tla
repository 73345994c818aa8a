------------------------------ MODULE MCJournal ------------------------------
(***************************************************************************)
(* Small instances of Journal for TLC.  One memory suffices: the events of *)
(* two meet only in a batch, which the theorems of JournalProofs cover.    *)
(***************************************************************************)
EXTENDS Journal, TLC
=============================================================================
