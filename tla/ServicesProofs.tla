---------------------------- MODULE ServicesProofs ----------------------------
(***************************************************************************)
(* What holds of a component holds of it among the others, for all values  *)
(* of all constants.  A component with variables of its own runs or        *)
(* stutters in every step of Services, so the theorems of its proof module *)
(* hold here, and so do the invariants of WorkersProofs.                   *)
(***************************************************************************)
EXTENDS Services, WorkersProofs

(***************************************************************************)
(* Every step of Services is a step of the component or leaves it alone.   *)
(***************************************************************************)

\* Librarian, CaptureCustody, ServiceUpdates, CanonicalWrites, InferenceGate and
\* SyncRequests name no variable of another component.
LEMMA CustodyRuns == [Next]_vars => [C!Next]_C!vars
<1> SUFFICES ASSUME [Next]_vars PROVE [C!Next]_C!vars
  OBVIOUS
<1>1. UNCHANGED custodyVars => UNCHANGED C!vars
  BY DEF custodyVars, C!vars, C!custodyVars, C!eventVars, C!expiryVars
<1> QED
  BY <1>1 DEF Next, vars, librarianLeaves, backfillLeaves, filingLeaves, dispatchLeaves,
         indexingLeaves, syncLeaves,
     requestLeaves, updatesLeaves, writesLeaves, gateLeaves

LEMMA UpdatesRuns == [Next]_vars => [U!Next]_U!vars
<1> SUFFICES ASSUME [Next]_vars PROVE [U!Next]_U!vars
  OBVIOUS
<1>1. UNCHANGED updatesVars => UNCHANGED U!vars
  BY DEF updatesVars, U!vars
<1> QED
  BY <1>1 DEF Next, vars, librarianLeaves, backfillLeaves, filingLeaves, custodyLeaves,
         dispatchLeaves,
     indexingLeaves, syncLeaves, requestLeaves, writesLeaves, gateLeaves

LEMMA WritesRuns == [Next]_vars => [W!Next]_W!vars
<1> SUFFICES ASSUME [Next]_vars PROVE [W!Next]_W!vars
  OBVIOUS
<1>1. UNCHANGED writesVars => UNCHANGED W!vars
  BY DEF writesVars, W!vars
<1> QED
  BY <1>1 DEF Next, vars, librarianLeaves, backfillLeaves, filingLeaves, custodyLeaves,
         dispatchLeaves,
     indexingLeaves, syncLeaves, requestLeaves, updatesLeaves, gateLeaves

LEMMA GateRuns == [Next]_vars => [G!Next]_G!vars
<1> SUFFICES ASSUME [Next]_vars PROVE [G!Next]_G!vars
  OBVIOUS
<1>1. UNCHANGED gateVars => UNCHANGED G!vars
  BY DEF gateVars, G!vars
<1> QED
  BY <1>1 DEF Next, vars, librarianLeaves, backfillLeaves, filingLeaves, custodyLeaves,
         dispatchLeaves,
     indexingLeaves, syncLeaves, requestLeaves, updatesLeaves, writesLeaves

LEMMA RequestsRuns == [Next]_vars => [Q!Next]_Q!vars
<1> SUFFICES ASSUME [Next]_vars PROVE [Q!Next]_Q!vars
  OBVIOUS
<1>1. UNCHANGED requestVars => UNCHANGED Q!vars
  BY DEF requestVars, Q!vars
<1> QED
  BY <1>1 DEF Next, vars, librarianLeaves, backfillLeaves, filingLeaves, custodyLeaves,
         dispatchLeaves,
     indexingLeaves, syncLeaves, updatesLeaves, writesLeaves, gateLeaves

LEMMA LibrarianRuns == [Next]_vars => [L!Next]_L!vars
<1> SUFFICES ASSUME [Next]_vars PROVE [L!Next]_L!vars
  OBVIOUS
<1>1. UNCHANGED librarianVars => UNCHANGED L!vars
  BY DEF librarianVars, L!vars, L!memoryVars, L!runVars, L!noteVars, L!proposalVars, L!runnerVars,
         L!historyVars
<1> QED
  BY <1>1 DEF Next, vars, backfillLeaves, filingLeaves, custodyLeaves, dispatchLeaves,
         indexingLeaves, syncLeaves,
     requestLeaves, updatesLeaves, writesLeaves, gateLeaves

LEMMA LibrarianSpec == Spec => L!Spec
BY LibrarianRuns, PTL DEF Spec, Init, L!Spec

LEMMA CustodySpec == Spec => C!Spec
BY CustodyRuns, PTL DEF Spec, Init, C!Spec

LEMMA UpdatesSpec == Spec => U!Spec
BY UpdatesRuns, PTL DEF Spec, Init, U!Spec

(***************************************************************************)
(* Components with theorems of their own.                                  *)
(***************************************************************************)

\* No suggestion of the Librarian outlives a memory it was made from:
\* purge_librarian_dependencies, and the final check of an answer.
THEOREM WithdrawnLeavesNoSuggestionAlways == Spec => []WithdrawnLeavesNoSuggestion
<1>1. L!Spec => []L!WithdrawnLeavesNoSuggestion
  BY L!SuggestionsWithdrawn, LibrarianAssumption
<1> QED
  BY <1>1, LibrarianSpec, PTL DEF WithdrawnLeavesNoSuggestion

\* A version whose call was reserved is swept again only after a person chose it
\* for a review that was too large: _reserve, _mark_items.
THEOREM ChargedIsRetriedByHandAlways == Spec => []ChargedIsRetriedByHand
<1>1. L!Spec => []L!ChargedIsRetriedByHand
  BY L!SweptAgainByHand, LibrarianAssumption
<1> QED
  BY <1>1, LibrarianSpec, PTL DEF ChargedIsRetriedByHand

\* No decision on a suggestion overwrites what a person wrote: decide.
THEOREM DecisionsRespectPeopleAlways == Spec => DecisionsRespectPeople
<1>1. L!Spec => L!DecisionsRespectPeople
  BY L!PeopleAreRespected, LibrarianAssumption
<1> QED
  BY <1>1, LibrarianSpec, PTL DEF DecisionsRespectPeople

\* Whatever a person withdrew from captured conversations, or an expiry
\* reported as done, is gone: withdrawal, page and expiry of capture_custody.py.
THEOREM ForgottenIsGoneAlways == Spec => []ForgottenIsGone
<1>1. C!Spec => []C!ForgottenIsGone
  BY ForgottenStaysGone, CaptureCustodyAssumption
<1> QED
  BY <1>1, CustodySpec, PTL DEF ForgottenIsGone

\* Every captured event keeps a deadline within the lifetime it was accepted
\* under: schedule_capture_expiry.
THEOREM DeadlineHoldsAlways == Spec => []DeadlineHolds
<1>1. C!Spec => []C!DeadlineHolds
  BY DeadlineAlwaysHolds, CaptureCustodyAssumption
<1> QED
  BY <1>1, CustodySpec, PTL DEF DeadlineHolds

\* A family that was withdrawn or is due gains no memory in any step.
THEOREM NothingComesBackAlways == Spec => NothingComesBack
<1>1. C!Spec => C!NothingComesBack
  BY NothingEverComesBack, CaptureCustodyAssumption
<1> QED
  BY <1>1, CustodySpec, PTL DEF NothingComesBack

\* The service that answers has the schema of the database: cutovers, upgrades
\* and their recovery in the host's updater.
THEOREM ServesItsSchemaAlways == Spec => []ServesItsSchema
<1>1. U!Spec => []U!ServesItsSchema
  BY U!ServesItsSchemaAlways, ServiceUpdatesAssumption
<1> QED
  BY <1>1, UpdatesSpec, PTL DEF ServesItsSchema

\* Whenever the host stops, its journals and slots allow a recovery.
THEOREM HostIsRecoverableAlways == Spec => []HostIsRecoverable
<1>1. U!Spec => []U!HostIsRecoverable
  BY U!HostIsAlwaysRecoverable, ServiceUpdatesAssumption
<1> QED
  BY <1>1, UpdatesSpec, PTL DEF HostIsRecoverable

\* A release that was undone is not prepared again by itself.
THEOREM BrokenIsHeldAlways == Spec => BrokenIsHeld
<1>1. U!Spec => U!BrokenIsHeld
  BY U!BrokenStaysHeld, ServiceUpdatesAssumption
<1> QED
  BY <1>1, UpdatesSpec, PTL DEF BrokenIsHeld

\* Every write to the memories is exactly one that was asked for.
THEOREM WritesAreExactAlways == Spec => []WritesAreExact
<1>1. Spec => W!Spec
  BY WritesRuns, PTL DEF Spec, Init, W!Spec
<1>2. W!Spec => []W!WritesAreExact
  BY W!WritesAreExactAlways, CanonicalWritesAssumption
<1> QED
  BY <1>1, <1>2, PTL DEF WritesAreExact

\* To their clients the writes are the steps of a store.
THEOREM ImplementsStoreAlways == Spec => ImplementsStore
<1>1. Spec => W!Spec
  BY WritesRuns, PTL DEF Spec, Init, W!Spec
<1>2. W!Spec => W!ImplementsStore
  BY W!WritesImplementStore, CanonicalWritesAssumption
<1> QED
  BY <1>1, <1>2 DEF ImplementsStore

\* Computations take their turns at the inference gate.
THEOREM TurnsAreExactAlways == Spec => []TurnsAreExact
<1>1. Spec => G!Spec
  BY GateRuns, PTL DEF Spec, Init, G!Spec
<1>2. G!Spec => []G!TurnsAreExact
  BY G!TurnsAreExactAlways, InferenceGateAssumption
<1> QED
  BY <1>1, <1>2, PTL DEF TurnsAreExact

(***************************************************************************)
(* SyncRequests.                                                           *)
(***************************************************************************)

\* A request for a scan is served only by a whole scan that began after it
\* (report_sync of connector_sync.py, sync of runner.py), provided that no
\* runner keeps an inbox of its own: one that does asks for the generation too
\* late.
THEOREM RequestIsHonouredAlways ==
  ASSUME Retained = {} PROVE Spec => []RequestIsHonoured
<1>1. Init => RequestInv
  BY SyncRequestsAssumption DEF Init, Q!Init, RequestInv, Q!TypeOK, Q!Generation,
         Q!ConstantAssumption
<1>2. RequestInv /\ [Q!Next]_Q!vars => RequestInv'
  <2>1. RequestInv /\ UNCHANGED Q!vars => RequestInv'
    BY DEF RequestInv, Q!TypeOK, Q!vars
  <2> QED
    BY <2>1, RequestStep
<1>3. RequestInv => RequestIsHonoured
  BY DEF RequestInv, RequestIsHonoured, Q!RequestIsHonoured
<1> QED
  BY <1>1, <1>2, <1>3, RequestsRuns, PTL DEF Spec

(***************************************************************************)
(* JournalBackfill.  It shares the events with JournalFiling, so its       *)
(* invariant speaks of the behaviours in which it runs.                    *)
(***************************************************************************)

BackfillInv == IF part = "backfill" THEN ExaminedInv ELSE backfill = "none" /\ ~unapproved

LEMMA BackfillInvStep ==
  ASSUME BackfillInv, [Next]_vars PROVE BackfillInv'
<1>1. CASE part = "backfill" /\ B!Next /\ UNCHANGED backfillLeaves
  BY <1>1, BackfillStep DEF BackfillInv, backfillLeaves
<1>2. CASE part # "backfill" /\ UNCHANGED <<part, backfillVars>>
  BY <1>2 DEF BackfillInv, backfillVars
<1>3. CASE UNCHANGED <<part, backfillVars, eventVars>>
  BY <1>3 DEF BackfillInv, ExaminedInv, B!TypeOK, B!EventsOK, B!Captured, B!Text, backfillVars,
         eventVars
<1> QED
  BY <1>1, <1>2, <1>3 DEF Next, vars, librarianLeaves, filingLeaves, custodyLeaves, dispatchLeaves,
     indexingLeaves, syncLeaves, requestLeaves, updatesLeaves, writesLeaves, gateLeaves

LEMMA BackfillInvAlways == Spec => []BackfillInv
<1>1. Init => BackfillInv
  <2> SUFFICES ASSUME Init PROVE BackfillInv
    OBVIOUS
  <2>1. B!Init
    BY DEF Init
  <2>2. B!EventsOK /\ \A m \in B!Memory : standing[m] # "none" => version[m] # 0
    BY <2>1, JournalBackfillAssumption
    DEF B!Init, B!InitEvents, B!EventsOK, B!Memory, B!Version, B!Event, B!ConstantAssumption
  <2>3. 0 \in 0..LastMemory /\ \A m \in 1..0 : FALSE
    BY JournalBackfillAssumption DEF B!ConstantAssumption
  <2> QED
    BY <2>1, <2>2, <2>3
    DEF BackfillInv, ExaminedInv, B!Init, B!TypeOK, B!ConstantAssumption
<1>2. BackfillInv /\ [Next]_vars => BackfillInv'
  BY BackfillInvStep
<1> QED
  BY <1>1, <1>2, PTL DEF Spec

\* A completed backfill has left nothing out, and nothing was queued without a
\* standing approval: claim_journal_backfill, run_batch and _step of
\* journal_backfill.py.
THEOREM BackfillIsExactAlways == Spec => []BackfillIsExact
<1>1. BackfillInv => BackfillIsExact
  BY DEF BackfillInv, ExaminedInv, BackfillIsExact, B!BackfillIsExact, B!Covers, B!Memory
<1> QED
  BY <1>1, BackfillInvAlways, PTL

(***************************************************************************)
(* JournalFiling, with the events of its own behaviours.                   *)
(***************************************************************************)

\* When another component runs, no note was ever written.
FilingInv == IF part = "filing" THEN FiledInv ELSE branch.notes = [m \in F!Memory |-> F!NoNote]

LEMMA FilingInvStep ==
  ASSUME FilingInv, [Next]_vars PROVE FilingInv'
<1>1. CASE part = "filing" /\ F!Next /\ UNCHANGED filingLeaves
  BY <1>1, FilingStep DEF FilingInv, filingLeaves
<1>2. CASE part # "filing" /\ UNCHANGED <<part, filingVars>>
  BY <1>2 DEF FilingInv, filingVars
<1>3. CASE UNCHANGED <<part, filingVars, eventVars>>
  BY <1>3 DEF FilingInv, FiledInv, FilingTypes, RecordedInv, NotesInv, PlanInv,
         F!NotesFollowRecords,
     F!EventsOK, F!Recorded, F!Text, F!Rendered, F!Denied, filingVars, eventVars
<1> QED
  BY <1>1, <1>2, <1>3 DEF Next, vars, librarianLeaves, backfillLeaves, custodyLeaves,
         dispatchLeaves,
     indexingLeaves, syncLeaves, requestLeaves, updatesLeaves, writesLeaves, gateLeaves

LEMMA FilingInvAlways == Spec => []FilingInv
<1>1. Init => FilingInv
  <2> SUFFICES ASSUME Init PROVE FilingInv
    OBVIOUS
  <2>1. F!Init
    BY DEF Init
  <2>2. branch = F!Bare /\ F!Recorded = {} /\ aged = {} /\ fpc = "idle"
    BY <2>1 DEF F!Init, F!Bare, F!Recorded
  <2>3. \A m \in F!Memory : branch.notes[m] = F!NoNote
    BY <2>2 DEF F!Bare
  <2>4. branch \in BranchShape
    BY <2>2 DEF F!Bare, BranchShape, NoteShape, F!NoNote
  <2>5. F!EventsOK /\ \A e \in F!Event : state[e] = "none"
    BY <2>1, JournalFilingAssumption
    DEF F!Init, F!InitEvents, F!EventsOK, F!Memory, F!Version, F!Event, F!ConstantAssumption
  <2>6. \A m \in F!Memory : standing[m] \in {"none", "ordinary"}
    BY <2>1 DEF F!Init, F!InitEvents
  <2> QED
    BY <2>2, <2>3, <2>4, <2>5, <2>6
    DEF FilingInv, FiledInv, FilingTypes, RecordedInv, NotesInv, PlanInv, F!NotesFollowRecords, F!NoNote, F!Bare
<1>2. FilingInv /\ [Next]_vars => FilingInv'
  BY FilingInvStep
<1> QED
  BY <1>1, <1>2, PTL DEF Spec

\* A note of the journal's branch shows nothing but the newest text recorded on
\* it, and filing brings no text back after its memory was withdrawn, unless
\* its final check had passed: organize, fold and before_push of
\* journal_folding.py, invalidated_notes of journal/notes.py.
THEOREM NotesFollowRecordsAlways == Spec => []NotesFollowRecords
<1>1. FilingInv => NotesFollowRecords
  BY DEF FilingInv, FiledInv, NotesFollowRecords, F!NotesFollowRecords, F!NoNote
<1> QED
  BY <1>1, FilingInvAlways, PTL

(***************************************************************************)
(* ConnectorSync: what the runs of a scope have seen of its source, the    *)
(* texts people wrote, and the memories a refused access hides.            *)
(***************************************************************************)

LEMMA SyncRuns == [Next]_vars => [Y!Next]_Y!vars
<1> SUFFICES ASSUME [Next]_vars PROVE [Y!Next]_Y!vars
  OBVIOUS
<1>1. UNCHANGED syncVars => UNCHANGED Y!vars
  BY DEF syncVars, Y!vars, Y!scopeVars, Y!clientVars, Y!memoryVars
<1> QED
  BY <1>1 DEF Next, vars, librarianLeaves, backfillLeaves, filingLeaves, custodyLeaves,
         dispatchLeaves,
     indexingLeaves, requestLeaves, updatesLeaves, writesLeaves, gateLeaves

LEMMA SyncInvAlways == Spec => [](SyncInv /\ Y!TypeOK)
<1>1. Init => SyncInv
  BY SyncInit, ConnectorSyncAssumption DEF Init
<1>2. SyncInv /\ [Next]_vars => SyncInv'
  BY SyncRuns, SyncStep, SyncStutter, ConnectorSyncAssumption
<1>3. SyncInv => SyncInv /\ Y!TypeOK
  BY RowsTyped DEF SyncInv
<1> QED
  BY <1>1, <1>2, <1>3, PTL DEF Spec

\* After a scan to which the source refused access, nobody reads a memory that
\* neither this scan nor a later one has read again: finish, and migration 037.
THEOREM HiddenUntilReadAgainAlways == Spec => []HiddenUntilReadAgain
<1>1. SyncInv => HiddenUntilReadAgain
  BY HiddenFromInv, ConnectorSyncAssumption DEF HiddenUntilReadAgain
<1> QED
  BY <1>1, SyncInvAlways, PTL

\* An inventory removes only what its source lacks or changed meanwhile, and one
\* that is complete has brought everything else up to date: finish and _item of
\* service/connectors.py, for inventories and batches of every size.
THEOREM InventoryIsExactAlways == Spec => InventoryIsExact
<1>1. SyncInv /\ [Next]_vars =>
        [/\ \A i \in Y!Item : gone[i] = "none" /\ gone'[i] = "removed" => i \in moved \/ ~source[i].present
         /\ \A r \in Y!Scan : runs[r].state # "completed" /\ runs'[r].state = "completed" /\ ~skipping[r] =>
               \A i \in Y!Item \ moved :
                  IF source[i].present THEN item'[i].state # "none" /\ item'[i].revision = source[i].revision
                  ELSE item'[i].state \in {"none", "deleted"}]_Y!vars
  BY SyncRuns, InventoryStep, ConnectorSyncAssumption
<1> QED
  BY <1>1, SyncInvAlways, PTL DEF Spec, InventoryIsExact, Y!InventoryIsExact

\* A text that people wrote is replaced only by the proposal a reviewer looked
\* at, over the version they looked at: _item and resolve.
THEOREM PeopleDecideAlways == Spec => PeopleDecide
<1>1. SyncInv /\ [Next]_vars =>
        [\A i \in Y!Item : text[i] = Y!Local /\ text'[i] # Y!Local =>
            review = [item |-> i, version |-> edition[i], proposal |-> text'[i]]]_Y!vars
  BY SyncRuns, PeopleStep, ConnectorSyncAssumption
<1> QED
  BY <1>1, SyncInvAlways, PTL DEF Spec, PeopleDecide, Y!PeopleDecide

(***************************************************************************)
(* Dispatch: a tenant loses a bounded number of turns to the others.       *)
(***************************************************************************)

LEMMA DispatchRuns == [Next]_vars => [D!Next]_D!vars
<1> SUFFICES ASSUME [Next]_vars PROVE [D!Next]_D!vars
  OBVIOUS
<1>1. UNCHANGED dispatchVars => UNCHANGED D!vars
  BY DEF dispatchVars, D!vars, D!turnVars, D!claimVars
<1> QED
  BY <1>1 DEF Next, vars, librarianLeaves, backfillLeaves, filingLeaves, custodyLeaves,
         indexingLeaves, syncLeaves,
     requestLeaves, updatesLeaves, writesLeaves, gateLeaves

LEMMA DispatchInvAlways == Spec => []DispatchInv
<1>1. Init => DispatchInv
  BY DispatchInit, DispatchAssumption DEF Init
<1>2. DispatchInv /\ [Next]_vars => DispatchInv'
  BY DispatchRuns, DispatchStep, DispatchStutter, DispatchAssumption
<1> QED
  BY <1>1, <1>2, PTL DEF Spec

\* However many workers claim and however stale the tenants they read, a tenant
\* with work loses at most a turn of every worker to each other tenant, and a
\* space at most one to each other space of it: claim_job of migration 029.
THEOREM TurnsAreFairAlways == Spec => []TurnsAreFair
<1>1. DispatchInv => TurnsAreFair
  BY FairFromInv, DispatchAssumption DEF TurnsAreFair
<1> QED
  BY <1>1, DispatchInvAlways, PTL

(***************************************************************************)
(* All types.  Those of the requests do not need that no runner retains;   *)
(* those of the two parts with the events in common hold in the behaviours *)
(* of either.                                                              *)
(***************************************************************************)

LEMMA IndexingRuns == [Next]_vars => [I!Next]_I!vars
<1> SUFFICES ASSUME [Next]_vars PROVE [I!Next]_I!vars
  OBVIOUS
<1>1. UNCHANGED indexingVars => UNCHANGED I!vars
  BY DEF indexingVars, I!vars, I!rowVars, I!jobVars, I!settingVars, I!runVars, I!workerVars,
         I!scanVars,
         I!envVars
<1> QED
  BY <1>1 DEF Next, vars, librarianLeaves, backfillLeaves, filingLeaves, custodyLeaves,
         dispatchLeaves,
     syncLeaves, requestLeaves, updatesLeaves, writesLeaves, gateLeaves

EventTypes == B!TypeOK /\ F!TypeOK

LEMMA EventTypesStep ==
  ASSUME BackfillInv, FilingInv, EventTypes, [Next]_vars PROVE EventTypes'
<1>1. (B!EventsOK <=> F!EventsOK) /\ (B!EventsOK' <=> F!EventsOK')
  BY DEF B!EventsOK, F!EventsOK, B!Memory, F!Memory, B!Event, F!Event, B!Version, F!Version
<1>2. F!Event = B!Event
  BY DEF B!Memory, F!Memory, B!Event, F!Event, B!Version, F!Version
<1>3. CASE part = "backfill" /\ B!Next /\ UNCHANGED backfillLeaves
  <2>1. ExaminedInv'
    BY <1>3, BackfillStep DEF BackfillInv
  <2>2. UNCHANGED <<branch, aged, fpc, plan, shown>>
    BY <1>3 DEF backfillLeaves, filingVars
  <2> QED
    BY <1>1, <2>1, <2>2 DEF ExaminedInv, EventTypes, B!TypeOK, F!TypeOK, F!Recorded
<1>4. CASE part = "filing" /\ F!Next /\ UNCHANGED filingLeaves
  <2>1. FiledInv /\ FiledInv'
    BY <1>4, FilingStep DEF FilingInv
  <2>2. UNCHANGED <<approver, backfill, approved, cursor, rejected, pc, unapproved>>
    BY <1>4 DEF filingLeaves, backfillVars
  <2>3. policy' \in [version : Nat, paused : BOOLEAN]
    <3>1. policy \in [version : Nat, paused : BOOLEAN]
      BY DEF EventTypes, F!TypeOK
    <3>2. UNCHANGED policy \/ \E paused_ \in BOOLEAN : F!Configure(paused_)
      BY <1>4 DEF F!Next, F!Change, F!Deliver, F!Ages, F!PlanFiling, F!CheckFiling, F!PushFiling,
                  F!FilingStops, F!ForeignCommit
    <3> QED
      BY <3>1, <3>2 DEF F!Configure
  <2>4. shown' \subseteq F!Event
    <3>1. ASSUME NEW m \in F!Memory, F!Change(m) PROVE shown' \subseteq F!Event
      BY <2>1, <3>1, ShowingIsEvents DEF F!Change, EventTypes, F!TypeOK
    <3>2. UNCHANGED shown \/ \E m \in F!Memory : F!Change(m)
      BY <1>4 DEF F!Next, F!Configure, F!Deliver, F!Ages, F!PlanFiling, F!CheckFiling, F!PushFiling,
                  F!FilingStops, F!ForeignCommit
    <3> QED
      BY <3>1, <3>2 DEF EventTypes, F!TypeOK
  <2>5. /\ F!EventsOK' /\ aged' \subseteq F!Event /\ F!Recorded' \subseteq F!Event
        /\ \A m \in F!Memory : branch'.notes[m].shows \in {"none", "text", "pending", "closed"}
        /\ fpc' \in {"idle", "planned", "checked"}
    BY <2>1 DEF FiledInv, FilingTypes, BranchShape, NoteShape, F!Recorded
  <2> QED
    BY <1>1, <2>2, <2>3, <2>4, <2>5 DEF EventTypes, B!TypeOK, F!TypeOK
<1>5. CASE UNCHANGED <<eventVars, backfillVars, filingVars>>
  BY <1>5 DEF EventTypes, B!TypeOK, F!TypeOK, B!EventsOK, F!EventsOK, F!Recorded, eventVars,
              backfillVars, filingVars
<1> QED
  BY <1>3, <1>4, <1>5 DEF Next, vars, librarianLeaves, custodyLeaves, dispatchLeaves,
     indexingLeaves, syncLeaves, requestLeaves, updatesLeaves, writesLeaves, gateLeaves

LEMMA EventTypesAlways == Spec => []EventTypes
<1>1. Init => EventTypes
  <2> SUFFICES ASSUME Init PROVE EventTypes
    OBVIOUS
  <2>1. B!Init /\ F!Init
    BY DEF Init
  <2>2. B!EventsOK
    BY <2>1, JournalBackfillAssumption
    DEF B!Init, B!InitEvents, B!EventsOK, B!Memory, B!Version, B!Event, B!ConstantAssumption
  <2>3. F!EventsOK
    BY <2>2 DEF B!EventsOK, F!EventsOK, B!Memory, F!Memory, B!Event, F!Event, B!Version, F!Version
  <2>4. B!TypeOK
    <3>1. 0 \in 0..LastMemory
      BY JournalBackfillAssumption DEF B!ConstantAssumption
    <3>2. [version |-> 1, paused |-> FALSE] \in [version : Nat, paused : BOOLEAN]
      OBVIOUS
    <3> QED
      BY <2>1, <2>2, <3>1, <3>2 DEF B!Init, B!TypeOK
  <2>5. F!Recorded = {} /\ aged = {} /\ \A m \in F!Memory : branch.notes[m] = F!NoNote
    BY <2>1 DEF F!Init, F!Bare, F!Recorded
  <2> QED
    BY <2>1, <2>3, <2>4, <2>5 DEF EventTypes, F!TypeOK, F!Init, F!NoNote
<1>2. BackfillInv /\ FilingInv /\ EventTypes /\ [Next]_vars => EventTypes'
  BY EventTypesStep
<1> QED
  BY <1>1, <1>2, BackfillInvAlways, FilingInvAlways, PTL DEF Spec

\* Every variable of every component keeps its type, whichever of them runs and
\* whatever the values of the constants.
THEOREM TypeCorrect == Spec => []TypeOK
<1>1. Spec => []L!TypeOK
  BY LibrarianSpec, L!TypeCorrect, LibrarianAssumption, PTL
<1>2. Spec => []C!TypeOK
  BY CustodySpec, CustodyTyped, CaptureCustodyAssumption, PTL
<1>3. Spec => []I!TypeOK
  <2>1. Spec => I!Spec
    BY IndexingRuns, PTL DEF Spec, Init, I!Spec
  <2>2. I!Spec => []I!TypeOK
    BY I!TypeCorrect, IndexingAssumption
  <2> QED
    BY <2>1, <2>2, PTL
<1>4. Spec => []U!TypeOK
  BY UpdatesSpec, U!TypeCorrect, ServiceUpdatesAssumption, PTL
<1>5. Spec => []W!TypeOK
  <2>1. Spec => W!Spec
    BY WritesRuns, PTL DEF Spec, Init, W!Spec
  <2>2. W!Spec => []W!TypeOK
    BY W!TypeCorrect, CanonicalWritesAssumption
  <2> QED
    BY <2>1, <2>2, PTL
<1>6. Spec => []G!TypeOK
  <2>1. Spec => G!Spec
    BY GateRuns, PTL DEF Spec, Init, G!Spec
  <2>2. G!Spec => []G!TypeOK
    BY G!TypeCorrect, InferenceGateAssumption
  <2> QED
    BY <2>1, <2>2, PTL
<1>7. Spec => []Q!TypeOK
  <2>1. Init => Q!TypeOK
    BY SyncRequestsAssumption DEF Init, Q!Init, Q!TypeOK, Q!Generation, Q!ConstantAssumption
  <2>2. Q!TypeOK /\ [Q!Next]_Q!vars => Q!TypeOK'
    BY RequestTypesStep DEF Q!TypeOK, Q!vars
  <2> QED
    BY <2>1, <2>2, RequestsRuns, PTL DEF Spec
<1>8. DispatchInv => D!TypeOK
  BY DEF DispatchInv
<1>9. EventTypes => B!TypeOK /\ F!TypeOK
  BY DEF EventTypes
<1>10. L!TypeOK /\ B!TypeOK /\ F!TypeOK /\ C!TypeOK /\ D!TypeOK /\ I!TypeOK /\ Y!TypeOK /\ Q!TypeOK
       /\ U!TypeOK /\ W!TypeOK /\ G!TypeOK => TypeOK
  BY DEF TypeOK
<1> QED
  BY <1>1, <1>2, <1>3, <1>4, <1>5, <1>6, <1>7, <1>8, <1>9, <1>10, SyncInvAlways, DispatchInvAlways,
     EventTypesAlways, PTL
=============================================================================
