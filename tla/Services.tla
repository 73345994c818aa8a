------------------------------ MODULE Services ------------------------------
(***************************************************************************)
(* The components that share no state with one another, side by side, so   *)
(* that TLC can check several in one run: a behaviour of this module is    *)
(* one of the component "part", while the others stay as they began.       *)
(* Since no action of a component reads a variable of another one,         *)
(* whatever holds of a component here holds of it among the others.        *)
(* Two components that write of the same events (JournalBackfill and       *)
(* JournalFiling) name the same variables.  A component with theorems of   *)
(* its own is instantiated with them; the workers come from Workers.       *)
(***************************************************************************)
EXTENDS Workers

CONSTANTS
    Parts,  \* components that run
    LibrarianMemory, LastRun, PromptLimit, Runner, Modes, MaxMemories, DailyCalls, Backlog,
    SettingsBound, ActBound, None, IndexMemory, IndexRevision, IndexGen, DefaultGen, HttpGen,
    ReindexRun, IndexWorker, Scanner, Sourced, MaxAttempts, ScanBatch, PendingLimit,
    AttemptBound, MayRestore, LastRelease, Migrating, NewSeries, Connector, Handler, Key, NoKey,
    WriteMemory, NoMemory, ExpectedBound, Caller, Keeper, Session, MaxQueued, BatchBound

VARIABLES
    part,
    \* Librarian
    memoryStanding, memoryVersion, written, settings, runState, runMode, runSettings, selected,
    todo, lease, leaseLive, seen, skipped, reserved, proposal, depends, applied, job, step,
    batch, asked, charged, chosen, passedOver,
    \* Indexing
    memState, revs, emb, jobState, opState, jobGen, holder, jobLeaseLive, jobDue, attempts,
    active, cand, inferencePaused, reindexState, runGen, scanCursor, scanned, scanHolder,
    scanLive, wpc, wjob, spc, srun, srows, srcCurrent, withheld,
    \* ServiceUpdates
    activeRuntime, candidate, seenRelease, previous, failed, journal, upgrade, slots, schema,
    serving, updater, waiting, scanning, op, orphan, updatePc, broken,
    \* CanonicalWrites
    memoryRows, receipts, fence, writePc, writeRequest, writtenBy, frozen, answers,
    \* InferenceGate
    gatePc, gateOwner, gateWaiters, session, left, loaded, gatePasses

\* A prompt is as long as the versions of its memories add up to.
LongPrompts ==
    {p \in Modes \X SUBSET (LibrarianMemory \X (1..VersionBound)) :
        Cardinality({t \in LibrarianMemory \X (1..VersionBound) :
                        \E x \in p[2] : x[1] = t[1] /\ t[2] <= x[2]}) > PromptLimit}

L == INSTANCE LibrarianProofs WITH Memory <- LibrarianMemory, TooLarge <- LongPrompts,
                                   standing <- memoryStanding, version <- memoryVersion
I == INSTANCE IndexingProofs WITH Memory <- IndexMemory, Revision <- IndexRevision, Gen <- IndexGen,
                              MemoryOf <- [r \in IndexRevision |-> CHOOSE m \in IndexMemory : TRUE],
                              Rank <- [r \in IndexRevision |-> r], BatchSize <- ScanBatch,
                              Run <- ReindexRun, Worker <- IndexWorker, runState <- reindexState,
                              leaseLive <- jobLeaseLive, due <- jobDue, cursor <- scanCursor,
                              paused <- inferencePaused
U == INSTANCE ServiceUpdatesProofs WITH active <- activeRuntime, seen <- seenRelease, pc <- updatePc
W == INSTANCE CanonicalWritesProofs WITH Memory <- WriteMemory, memory <- memoryRows, pc <- writePc, request <- writeRequest,
                                   written <- writtenBy
G == INSTANCE InferenceGateProofs WITH pc <- gatePc, owner <- gateOwner, waiters <- gateWaiters,
                                 passes <- gatePasses

librarianVars ==
    <<memoryStanding, memoryVersion, written, settings, runState, runMode, runSettings,
      selected, todo, lease, leaseLive, seen, skipped, reserved, proposal, depends, applied,
      job, step, batch, asked, charged, chosen, passedOver>>
backfillVars ==
    <<approver, backfill, approved, cursor, rejected, pc, unapproved>>
filingVars ==
    <<branch, aged, fpc, plan, shown>>
custodyVars ==
    <<now, paused, retired, ages, grants, record, accepted, denied, expiry, claimant, claimLive,
      cleaning>>
dispatchVars ==
    <<tenantOrder, spaceOrder, due, writing, seenOrder, locked, passes, overtaken,
      spaceOvertaken>>
indexingVars ==
    <<memState, revs, emb, jobState, opState, jobGen, holder, jobLeaseLive, jobDue, attempts,
      active, cand, inferencePaused, reindexState, runGen, scanCursor, scanned, scanHolder,
      scanLive, wpc, wjob, spc, srun, srows, srcCurrent, withheld>>
syncVars ==
    <<source, moved, open, operatorPaused, runs, sent, skipping, item, text, edition, gone,
      offered, review>>
requestVars ==
    <<requested, completed, scan, control, reports, began, covered>>
updatesVars ==
    <<activeRuntime, candidate, seenRelease, previous, failed, journal, upgrade, slots, schema,
      serving, updater, waiting, scanning, op, orphan, updatePc, broken>>
writesVars ==
    <<memoryRows, receipts, fence, writePc, writeRequest, writtenBy, frozen, answers>>
gateVars ==
    <<gatePc, gateOwner, gateWaiters, session, left, loaded, gatePasses>>
eventVars == <<standing, version, action, state, policy>>
\* The variables a component leaves alone.
librarianLeaves ==
    <<part, backfillVars, filingVars, custodyVars, dispatchVars, indexingVars, syncVars, requestVars,
      updatesVars, writesVars, gateVars, eventVars>>
backfillLeaves ==
    <<part, librarianVars, filingVars, custodyVars, dispatchVars, indexingVars, syncVars, requestVars,
      updatesVars, writesVars, gateVars>>
filingLeaves ==
    <<part, librarianVars, backfillVars, custodyVars, dispatchVars, indexingVars, syncVars,
      requestVars, updatesVars, writesVars, gateVars>>
custodyLeaves ==
    <<part, librarianVars, backfillVars, filingVars, dispatchVars, indexingVars, syncVars,
      requestVars, updatesVars, writesVars, gateVars, eventVars>>
dispatchLeaves ==
    <<part, librarianVars, backfillVars, filingVars, custodyVars, indexingVars, syncVars, requestVars,
      updatesVars, writesVars, gateVars, eventVars>>
indexingLeaves ==
    <<part, librarianVars, backfillVars, filingVars, custodyVars, dispatchVars, syncVars, requestVars,
      updatesVars, writesVars, gateVars, eventVars>>
syncLeaves ==
    <<part, librarianVars, backfillVars, filingVars, custodyVars, dispatchVars, indexingVars,
      requestVars, updatesVars, writesVars, gateVars, eventVars>>
requestLeaves ==
    <<part, librarianVars, backfillVars, filingVars, custodyVars, dispatchVars, indexingVars,
      syncVars, updatesVars, writesVars, gateVars, eventVars>>
updatesLeaves ==
    <<part, librarianVars, backfillVars, filingVars, custodyVars, dispatchVars, indexingVars,
      syncVars, requestVars, writesVars, gateVars, eventVars>>
writesLeaves ==
    <<part, librarianVars, backfillVars, filingVars, custodyVars, dispatchVars, indexingVars,
      syncVars, requestVars, updatesVars, gateVars, eventVars>>
gateLeaves ==
    <<part, librarianVars, backfillVars, filingVars, custodyVars, dispatchVars, indexingVars,
      syncVars, requestVars, updatesVars, writesVars, eventVars>>
vars ==
    <<part, librarianVars, backfillVars, filingVars, custodyVars, dispatchVars, indexingVars,
      syncVars, requestVars, updatesVars, writesVars, gateVars, eventVars>>

ASSUME PartsAssumption ==
    Parts \subseteq {"librarian", "backfill", "filing", "custody", "dispatch", "indexing", "sync",
               "request", "updates", "writes", "gate"}
ASSUME LibrarianAssumption == L!ConstantAssumption
ASSUME IndexingAssumption == I!ConstantAssumption
ASSUME ServiceUpdatesAssumption == U!ConstantAssumption
ASSUME CanonicalWritesAssumption == W!ConstantAssumption
ASSUME InferenceGateAssumption == G!ConstantAssumption

Init ==
    /\ part \in Parts
    /\ L!Init
    /\ B!Init
    /\ F!Init
    /\ C!Init
    /\ D!Init
    /\ I!Init
    /\ Y!Init
    /\ Q!Init
    /\ U!Init
    /\ W!Init
    /\ G!Init
    \* Only a component that runs has several initial states.
    /\ part \in {"backfill", "filing"} \/ standing = [m \in B!Memory |-> "none"]

Next ==
    \/ part = "librarian" /\ L!Next /\ UNCHANGED librarianLeaves
    \/ part = "backfill" /\ B!Next /\ UNCHANGED backfillLeaves
    \/ part = "filing" /\ F!Next /\ UNCHANGED filingLeaves
    \/ part = "custody" /\ C!Next /\ UNCHANGED custodyLeaves
    \/ part = "dispatch" /\ D!Next /\ UNCHANGED dispatchLeaves
    \/ part = "indexing" /\ I!Next /\ UNCHANGED indexingLeaves
    \/ part = "sync" /\ Y!Next /\ UNCHANGED syncLeaves
    \/ part = "request" /\ Q!Next /\ UNCHANGED requestLeaves
    \/ part = "updates" /\ U!Next /\ UNCHANGED updatesLeaves
    \/ part = "writes" /\ W!Next /\ UNCHANGED writesLeaves
    \/ part = "gate" /\ G!Next /\ UNCHANGED gateLeaves

Spec == Init /\ [][Next]_vars

(***************************************************************************)
(* Fairness.  Only one component runs, so the conditions of the components *)
(* share their places: the i-th ones of all of them are one condition.     *)
(***************************************************************************)

\* The loop of a Librarian's runner claims and goes on; the database that a
\* failure could not reach comes back; a lease is not extended beyond the time
\* budget of its run.
LibrarianWeak(i) ==
    \/ i = 1 /\ \E w \in Runner : L!Claim(w)
    \/ i = 2 /\ \E w \in Runner : L!Works(w)
    \/ i = 3 /\ \E r \in 1..LastRun : L!LeaseExpires(r)
LibrarianStrong(i) ==
    \/ i = 1 /\ \E w \in Runner : L!RecordFailure(w)

\* The schedule claims and pushes; a batch that begins again and again does
\* something, and a scan that is repeated again and again comes to a result.
JournalBackfillWeak(i) ==
    \/ i = 1 /\ B!Deliver
    \/ i = 2 /\ B!Claim
JournalBackfillStrong(i) ==
    \/ i = 1 /\ (B!Examine \/ B!Scan \/ B!Complete)
    \/ i = 2 /\ (B!Queue \/ B!Refuse \/ B!Block)

\* The schedule files again and again and every attempt ends; failures of it
\* do not repeat for ever.
JournalFilingWeak(i) ==
    \/ i = 1 /\ \E notes \in SUBSET F!Memory, files \in SUBSET F!Event : F!PlanFiling(notes, files)
    \/ i = 2 /\ (F!CheckFiling \/ F!PushFiling \/ F!FilingStops)
JournalFilingStrong(i) ==
    \/ i = 1 /\ F!CheckFiling
    \/ i = 2 /\ F!PushFiling

\* An attempt of the retention worker ends, whether it succeeds or not; a lease
\* ends; a family that can be claimed again and again is claimed, and an attempt
\* that is repeated again and again succeeds.
CaptureCustodyWeak(i) ==
    \/ i = 1 /\ \E w \in Cleaner, l \in Lineage : C!Process(w, l) \/ C!NotOwned(w, l) \/ C!Fail(w, l)
    \/ i = 2 /\ \E l \in Lineage : C!LeaseExpires(l)
CaptureCustodyStrong(i) ==
    \/ i = 1 /\ \E w \in Cleaner, l \in Lineage : C!Claim(w, l)
    \/ i = 2 /\ \E w \in Cleaner : C!Process(w, 1)
    \/ i = 3 /\ \E w \in Cleaner : C!Process(w, 2)

\* Indexing: its Fairness, with one condition for several jobs of which each is
\* soon done.
IndexingWeak(i) ==
    \/ i = 1 /\ \E w \in IndexWorker : I!LeaseLost(w) \/ I!Begin(w) \/ I!Publish(w) \/ I!PurgeStep(w)
    \/ i = 2 /\ \E s \in Scanner, n \in ReindexRun : I!ClaimScan(s, n)
    \/ i = 3 /\ \E s \in Scanner : I!ScanStops(s) \/ I!ScanBackpressure(s)
    \/ i = 4 /\ \E s \in Scanner : ~(srows[s] \subseteq revs) /\ I!ScanAborts(s)
    \/ i = 5 /\ \E j \in I!Job : ~I!Working(j) /\ I!LeaseExpires(j)
    \/ i = 6 /\ \E j \in I!Job : I!BecomesDue(j)
    \/ i = 7 /\ \E n \in ReindexRun : I!ScanLeaseExpires(n)
IndexingStrong(i) ==
    \/ i = 1 /\ \E w \in IndexWorker, j \in I!PurgeJob : I!ClaimPurge(w, j)
    \/ i = 2 /\ \E w \in IndexWorker, r \in IndexRevision : I!ClaimEmbed(w, I!Ordinary(r))
    \/ i = 3 /\ \E w \in IndexWorker, r \in IndexRevision, n \in ReindexRun : I!ClaimEmbed(w, I!Candidate(r, n))
    \/ i = 4 /\ \E w \in IndexWorker : I!Publish(w)
    \/ i = 5 /\ \E s \in Scanner : I!ReadBatch(s)
    \/ i = 6 /\ \E s \in Scanner : I!EnqueueBatch(s)

\* Connector runners scan again and again and check access before they do; the
\* lease of a run is not renewed for ever.
ConnectorSyncWeak(i) ==
    \/ i = 1 /\ Y!Refresh
    \/ i = 2 /\ \E r \in Y!Scan : Y!RunLapses(r)
ConnectorSyncStrong(i) ==
    \/ i = 1 /\ \E r \in Y!Scan : Y!Begin(r)

\* A runner polls its source again and again; scans do not always fail, reports
\* are not always lost.
SyncRequestsWeak(i) ==
    \/ i = 1 /\ \E c \in ScanRunner : Q!StartScan(c)
SyncRequestsStrong(i) ==
    \/ i = 1 /\ \E c \in ScanRunner : Q!ScanEnds(c)
    \/ i = 2 /\ \E c \in ScanRunner : Q!SendReport(c)
    \/ i = 3 /\ Q!ReportSync(requested)

\* Supervisor starts the updater again, every step of an operation ends, a
\* migration whose command is gone ends, and so does a scan; a recovery that is
\* repeated again and again succeeds, and a turn that could be taken again and again
\* is taken.
ServiceUpdatesWeak(i) ==
    \/ i = 1 /\ (U!UpdaterStarts \/ U!LooksForUpgrade \/ U!LooksForJournal)
    \/ i = 2 /\ U!Step
    \/ i = 3 /\ U!OrphanEnds
    \/ i = 4 /\ \E c \in Connector : U!ScanEnds(c)
ServiceUpdatesStrong(i) ==
    \/ i = 1 /\ U!Recover
    \/ i = 2 /\ U!Undo /\ updatePc' = "revert"
    \/ i = 3 /\ U!Restart /\ updatePc' = "hold"
    \/ i = 4 /\ U!TakeTurn

Weak(i) ==
    \/ part = "librarian" /\ LibrarianWeak(i) /\ UNCHANGED librarianLeaves
    \/ part = "backfill" /\ JournalBackfillWeak(i) /\ UNCHANGED backfillLeaves
    \/ part = "filing" /\ JournalFilingWeak(i) /\ UNCHANGED filingLeaves
    \/ part = "custody" /\ CaptureCustodyWeak(i) /\ UNCHANGED custodyLeaves
    \/ part = "indexing" /\ IndexingWeak(i) /\ UNCHANGED indexingLeaves
    \/ part = "sync" /\ ConnectorSyncWeak(i) /\ UNCHANGED syncLeaves
    \/ part = "request" /\ SyncRequestsWeak(i) /\ UNCHANGED requestLeaves
    \/ part = "updates" /\ ServiceUpdatesWeak(i) /\ UNCHANGED updatesLeaves

Strong(i) ==
    \/ part = "librarian" /\ LibrarianStrong(i) /\ UNCHANGED librarianLeaves
    \/ part = "backfill" /\ JournalBackfillStrong(i) /\ UNCHANGED backfillLeaves
    \/ part = "filing" /\ JournalFilingStrong(i) /\ UNCHANGED filingLeaves
    \/ part = "custody" /\ CaptureCustodyStrong(i) /\ UNCHANGED custodyLeaves
    \/ part = "indexing" /\ IndexingStrong(i) /\ UNCHANGED indexingLeaves
    \/ part = "sync" /\ ConnectorSyncStrong(i) /\ UNCHANGED syncLeaves
    \/ part = "request" /\ SyncRequestsStrong(i) /\ UNCHANGED requestLeaves
    \/ part = "updates" /\ ServiceUpdatesStrong(i) /\ UNCHANGED updatesLeaves

FairSpec ==
    /\ Spec
    /\ \A i \in 1..7 : WF_vars(Weak(i))
    /\ \A i \in 1..6 : SF_vars(Strong(i))

(***************************************************************************)
(* Properties: those of the components, which say what they are about.     *)
(***************************************************************************)

\* Every component keeps its rows, files and locals well typed.
TypeOK ==
    /\ L!TypeOK
    /\ B!TypeOK
    /\ F!TypeOK
    /\ C!TypeOK
    /\ D!TypeOK
    /\ I!TypeOK
    /\ Y!TypeOK
    /\ Q!TypeOK
    /\ U!TypeOK
    /\ W!TypeOK
    /\ G!TypeOK

\* Librarian: quarantine and deletion erase suggestions, and late answers are
\* not applied; what may have been charged is swept again by way of a person only;
\* decisions do not overwrite what people wrote; runs come to an end.
WithdrawnLeavesNoSuggestion == L!WithdrawnLeavesNoSuggestion
ChargedIsRetriedByHand == L!ChargedIsRetriedByHand
DecisionsRespectPeople == L!DecisionsRespectPeople
RunsEnd == L!RunsEnd

\* JournalBackfill: nothing is left out, nothing queued without an approval; a
\* backfill comes to an end.
BackfillIsExact == B!BackfillIsExact
BackfillEnds == B!BackfillEnds

\* JournalFiling: notes follow the records, withdrawn texts do not come back;
\* filing settles.
NotesFollowRecords == F!NotesFollowRecords
FilingSettles == F!FilingSettles

\* CaptureCustody: what was withdrawn or expired is gone and does not come back;
\* deadlines are kept; families expire.
ForgottenIsGone == C!ForgottenIsGone
DeadlineHolds == C!DeadlineHolds
NothingComesBack == C!NothingComesBack
FamiliesExpire == C!FamiliesExpire

\* Dispatch: the turns of tenants and spaces are fair.
TurnsAreFair == D!TurnsAreFair

\* Indexing, whose safety has runs of its own: a backfill comes to an end.
BackfillCompletes == I!BackfillCompletes

\* ConnectorSync: inventories remove and bring up to date exactly what they should;
\* people decide on what they wrote; what became unreadable stays hidden; a dead
\* scan gives way.
HiddenUntilReadAgain == Y!HiddenUntilReadAgain
InventoryIsExact == Y!InventoryIsExact
PeopleDecide == Y!PeopleDecide
ScopeIsFreed == Y!ScopeIsFreed

\* SyncRequests: a request is served by a scan that began after it, and it is served.
RequestIsHonoured == Q!RequestIsHonoured
RequestsAreServed == Q!RequestsAreServed

\* ServiceUpdates: runtime and database fit, a recovery finds what it needs, a
\* release that was undone is not tried again unasked; cutovers are recovered.
ServesItsSchema == U!ServesItsSchema
HostIsRecoverable == U!HostIsRecoverable
BrokenIsHeld == U!BrokenIsHeld
CutoverSettles == U!CutoverSettles
TurnComes == U!TurnComes

\* CanonicalWrites: every write is exactly one that was asked for; to its
\* clients a request is one step.
WritesAreExact == W!WritesAreExact
ImplementsStore == W!ImplementsStore

\* InferenceGate: computations take their turns, one at a time, on sessions that are there.
TurnsAreExact == G!TurnsAreExact

\* The leased work of the Librarian, the journal's history, the retention of
\* captures and the index comes to an end.
BackgroundWorkEnds == RunsEnd /\ BackfillEnds /\ FilingSettles /\ FamiliesExpire /\ BackfillCompletes

\* Dead scans give way, and requests for a scan are served.
ScansGoOn == ScopeIsFreed /\ RequestsAreServed

\* Interrupted cutovers are recovered, and the updater gets its turn.
UpdatesGoOn == CutoverSettles /\ TurnComes
=============================================================================
