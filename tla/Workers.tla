------------------------------- MODULE Workers -------------------------------
(***************************************************************************)
(* The workers and connector runners, side by side: whose turn a claim is  *)
(* (Dispatch), the history of a journal (JournalBackfill, JournalFiling,   *)
(* which write of the same events), the retention of captures              *)
(* (CaptureCustody), scans of a source and the requests for them           *)
(* (ConnectorSync, SyncRequests).  Services runs them; WorkersProofs holds *)
(* their invariants.                                                       *)
(***************************************************************************)
EXTENDS Naturals, FiniteSets, Sequences

CONSTANTS
    LastMemory, VersionBound, PolicyBound, ForeignBound, NoteBatch, Lineage, LastRevision,
    Grant, Cleaner, RetentionAges, FirstAge, Horizon, BatchSize, Nobody, LastPolicy, LastTenant,
    LastSpace, DispatchWorker, LastItem, LastSourceRevision, LastScan, ChangeBound, Discussed,
    EditBound, SweepSize, ScanRunner, Retained, RequestBound

VARIABLES
    \* the events of the journal
    standing, version, action, state, policy,
    \* JournalBackfill
    approver, backfill, approved, cursor, rejected, pc, unapproved,
    \* JournalFiling
    branch, aged, fpc, plan, shown,
    \* CaptureCustody
    now, paused, retired, ages, grants, record, accepted, denied, expiry, claimant, claimLive,
    cleaning,
    \* Dispatch
    tenantOrder, spaceOrder, due, writing, seenOrder, locked, passes, overtaken, spaceOvertaken,
    \* ConnectorSync
    source, moved, open, operatorPaused, runs, sent, skipping, item, text, edition, gone,
    offered, review,
    \* SyncRequests
    requested, completed, scan, control, reports, began, covered

B == INSTANCE JournalBackfill
F == INSTANCE JournalFiling
C == INSTANCE CaptureCustody
D == INSTANCE Dispatch
Y == INSTANCE ConnectorSync
Q == INSTANCE SyncRequests

ASSUME JournalBackfillAssumption == B!ConstantAssumption
ASSUME JournalFilingAssumption == F!ConstantAssumption
ASSUME CaptureCustodyAssumption == C!ConstantAssumption
ASSUME DispatchAssumption == D!ConstantAssumption
ASSUME ConnectorSyncAssumption == Y!ConstantAssumption
ASSUME SyncRequestsAssumption == Q!ConstantAssumption
=============================================================================
