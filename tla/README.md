# A formal model of Mnemion

Mnemion is a memory service: agents and people save, revise, review and forget
*memories* in *spaces*; a space can be searched by meaning, is written to a Git
repository that its owner can read without Mnemion, can be fed by connectors and
conversation capture, and is backed up and restored.  The service is a set of
Python processes around one PostgreSQL database (`mnemion/service`), with
file-based parts on the host (`mnemion/journal`, `connectors`,
`host_control`).

This directory holds TLA+ models of the parts whose correctness depends on
*interleaving and failure*, the TLC configurations that check them, and TLAPS
proofs of the properties that matter most.

| Module | Part of the system | Checked by | Proved |
| --- | --- | --- | --- |
| `MemorySpace` | what semantic indexing promises a client (abstract) | `index_candidate` | |
| `Indexing`, `IndexingRefinement` | accepting a revision, job queue, workers, candidate index and cutover, purge, restore; that it implements `MemorySpace` | `index_queue`, `index_candidate`, `services_progress` | `IndexingProofs` |
| `Journal` | the Git journal: outbox, host receipts, push, withdrawal, repeats, crashes | `journal_delivery`, two findings | `JournalProofs` |
| `JournalEvents`, `JournalBackfill`, `JournalFiling` | the history of a journal: queueing older memories, notes and archive | `services_*` | `WorkersProofs` |
| `MemoryStore` | what the canonical store promises a client: a request is one step (abstract) | `services_requests` | |
| `CanonicalWrites` | writes of memories: locks, idempotency keys, expected versions, pause; that it implements `MemoryStore` | `services_requests` | `CanonicalWritesProofs` |
| `InferenceGate` | one model computation at a time: queue, waits, yields, unloading | `services_requests` | `InferenceGateProofs` |
| `Dispatch` | the turns of tenants and spaces in `claim_job` | `services_memories` | `WorkersProofs` |
| `Librarian` | leased runs of a language model, budget, proposals and decisions | `services_*`, two findings | `LibrarianProofs` |
| `CaptureCustody` | captured conversations: policies, grants, withdrawal, expiry | `services_*` | `WorkersProofs` |
| `ConnectorSync`, `SyncRequests` | scans of a source, inventories, proposals; requests for a scan | `services_*`, a finding | `WorkersProofs` |
| `ServiceUpdates` | unattended updates, the operator's upgrade, recovery of both | `services_*`, a finding | `ServiceUpdatesProofs` |
| `Workers` | the workers and connector runners among these, side by side | `services_*` | `WorkersProofs` |
| `Services` | `Workers`, the other components from `CanonicalWrites` on and the backfill of `Indexing`, side by side | `services_memories`, `services_requests`, `services_progress` | `ServicesProofs` |

`MCIndexing` and `MCJournal` define small instances; `PROJECT.json` lists the
runs, the mutation of the code that each property detects, and for every
definition the source lines it translates.

To repeat the checks:

    tlc -workers 2 -config MCIndexing_queue.cfg MCIndexing
    tlc -workers 2 -config Services_memories.cfg Services
    tlapm ServicesProofs.tla


## 1. The system: inventory

### Shared state and how the parts interact

* **One database, row security on.**  Every request runs in one transaction as a
  principal with a role per space.  Writers of a space take its *shared boundary*
  (an advisory lock), changes of the space's indexing take it *exclusively*
  (`fences.py`).  A row a principal may not see is invisible to its UPDATE too;
  one finding below comes from this.
* **Leases.**  Long work (indexing jobs, backfill, journal pushes, retention,
  Librarian runs, evaluations) is a row claimed by an SQL function
  (`claim_job`, `claim_reindex`, `claim_writeback`) with a lease; the owner works
  *without* a transaction and comes back later in another.  Every write after
  the claim must re-check what was read before it.
* **Files.**  The journal, connectors, capture inbox, host control and updates
  keep files on the host under advisory file locks.  Database and files share no
  transaction: after a crash each pair of stores may be half a step apart.
* **Processes and threads.**  The API process runs request threads and, beside
  them, the journal, Librarian and evaluation threads; a separate worker process
  loops over retention, backfill and one indexing worker per model
  (`model_worker.py`).  Several of each may run on one database, and any of
  them can die at any point.

### Parts with a protocol of their own

| Part (source) | State | Operations | What is hard | What makes it correct |
| --- | --- | --- | --- | --- |
| Memory writes (`memory.py`, `repository.py`, `request_replay.py`) | memories, revisions, operations, idempotency receipts | save, revise, review, forget, retry an operation | two requests with one key; expected versions; row locks taken in different orders | a key stands for one request; versions do not fork; a forgotten memory stays forgotten |
| Semantic indexing (`worker.py`, `reindex.py`, `model_state.py`, `lifecycle.py`) | jobs, operations, embeddings, reindex runs, settings of a space | claim, begin, publish, fail, purge; start, pause, resume, retry, cancel, activate; backfill | lease lost while the model computes; revision written behind the backfill's cursor; deletion at any moment; restore | no revision lost, no regression of search, deletion final, every job ends |
| Git journal (`writeback.py`, `journal/`) | outbox events, receipts on the host, branch, policy | capture, flush, push, check, mark, acknowledge, configure, revoke | three stores without a common transaction; withdrawal racing a push; lost confirmation | recorded once, withdrawn text stays private, branch mirrors the database |
| Journal history (`journal_backfill.py`, `journal_folding.py`) | backfill cursor and approval, filing state | approve, scan, cancel; file and archive | approval of an older policy; an event queued while records are moved | nothing published without approval; filing loses no record |
| Journal upload and recovery (`journal_upload.py`, `journal_recovery.py`) | upload parts, recovery ledger | begin, part, finish; replay | resumed upload; a record replayed twice | replay equals the branch, denials win |
| Backup and restore (`recovery.py`, `capture_recovery.py`, …) | archive, deletion ledger, source-access ledger | back up, restore, reconcile | an archive older than a deletion or a revocation | nothing deleted or revoked comes back |
| Connectors (`connectors.py`, `connector_sync.py`, `withdrawal.py`) | bindings, sync runs, items, cursors | begin, batch, finish; suspend; withhold | late batch of an older run; incomplete snapshot | an item is removed only by a complete listing |
| Conversation capture (`connectors/live_conversations.py`, `capture_transfer.py`, …) | inbox on the device, transfer offsets | append, transfer, acknowledge | restart between transfer and acknowledgement; inbox at its limit | nothing acknowledged is lost, nothing stored twice |
| Custody and retention (`capture_custody.py`, `capture_retention.py`) | policies, expiry runs, denials | hold, expire in batches, deny | withdrawal racing an expiry; lease lost between batches | a denial is permanent; a held capture does not expire |
| Librarian, evaluations (`librarian*.py`, `evaluation*.py`) | runs, proposals, daily budget | start, call a provider, propose, apply | crash between reservation and call; proposal on a changed memory | budget kept; no stale proposal applied |
| Models (`inference_limits.py`, `embeddings.py`, `memory_budget.py`) | owner and waiters of the gate, sessions in memory | acquire, checkpoint, release, maintain | a caller yields, times out, comes back; sessions unloaded meanwhile | one computation at a time, on a session that is there, in turn |
| Identity (`identity.py`, `oauth.py`, `sign_in.py`) | codes, token families, sessions | issue, redeem, rotate, revoke | code or refresh token used twice at once | one redemption; reuse revokes the family |
| Vault (`vault.py`, `vault_refresh.py`) | secrets, versions, leases | put, use, refresh | two processes refresh one credential | the newest credential is kept |
| Host control (`host_control/`) | durable queue of operations, owner | submit, own, execute, record | crash between effect and record; two owners | an operation runs once |
| Updates (`service_updates.py`, `managed_upgrade.py`) | release files, two journals, schema, lock | check, stage, cut over, undo, recover, upgrade, resume | death at any step; an orphaned migration; scans that hold the lock | runtime and schema fit; a recovery finds what it needs |
| Product telemetry (`product_telemetry/`) | consent, aggregates, outbox | aggregate, send, withdraw | consent withdrawn during a send | nothing is sent without consent |

Surfaces that only translate requests (HTTP, MCP, command line, SDK), user
interfaces, batch tools for one user (wiki compiler, source library), the earlier
single-user memory (version 3) and build files keep no protocol state and are
not modelled.  `PROJECT.json` lists all 26 components with their sources and
status, and 40 hazards with the line where each bites.

### What is hard to test

The hazards cluster around five shapes, and the properties were chosen for them:

1. *A decision outlives its transaction*: the text is read, then the model or Git
   works for seconds, then the result is written.  Meanwhile the memory is
   deleted, the lease lost, the run cancelled, the policy paused.
2. *Two stores half a step apart* after a crash or a failure between commit and
   file, or between push and mark.
3. *Work that nobody will do*: a job no claim routes any more, an event no push
   selects, a candidate that waits for a revision behind its cursor.
4. *A repetition*: a request repeated with its key, a push whose confirmation was
   lost, a second worker on an expired lease, a restore of older work.
5. *Control calls in any order*: pause, resume, cancel, retry, activate, roll back,
   configure, revoke.


## 2. Module `Indexing`

**What it stands for.**  One space's canonical write path as far as indexing sees
it, the job queue, the indexing workers, the candidate index, purge and
restore.  An action is one PostgreSQL transaction or one step of a process
between two of them.

| State | In the code |
| --- | --- |
| `memState`, `revs`, `emb` | `memories` (live, `deleted_at`, purged), `memory_revisions`, `embeddings` |
| `jobState`, `jobGen`, `holder`, `leaseLive`, `due`, `attempts` | a row of `jobs`; time appears only as "lease still live" and "available now" |
| `opState` | the operation that a client polls |
| `active`, `cand`, `paused` | `space_embedding_settings` |
| `runState`, `runGen`, `cursor`, `scanned`, `scanHolder`, `scanLive` | `reindex_runs` |
| `wpc`, `wjob`; `spc`, `srun`, `srows` | locals of a worker, of a backfill process |
| `srcCurrent`, `withheld` | what `embedding_source_current` and the withheld source files say |

A job is identified by what it is for: a purge of a memory, or an embedding of a
revision for the space (`run = None`) or for a run.  That is the uniqueness the
inserts rely on.

**Actions.**  `Save`, `Revise`, `Forget`, `RetryOperation` (one transaction each,
with every job and operation they touch); `Start`, `Pause`, `Resume`, `RetryRun`,
`Cancel`, `Activate`, `ResumeProcessing` (`ReindexService`, under the exclusive
boundary: they wait while a backfill transaction is open); `ClaimPurge`,
`ClaimEmbed` (`claim_job`), `LeaseLost`, `Begin`, `Publish`, `PurgeStep`,
`FailAttempt`, `BudgetReduced` (a worker: claim, begin, publish or fail);
`ClaimScan`, `ScanStops`, `ScanBackpressure`, `ReadBatch`, `EnqueueBatch`,
`ScanAborts` (a backfill process; its transaction is split after the scan,
because a deletion that also holds only the shared boundary may commit between
the scan and the inserts); `LeaseExpires`, `ScanLeaseExpires`, `BecomesDue` (the
clock); `Crash`, `AccessChanges`, `Withhold`, `Reread`, `Restore` (environment).

**Abstractions.**  Vectors and texts are their `<<revision, generation>>`.  A uuid
is its rank, and `Rank` need not follow age: that is what makes the backfill's
cursor interesting.  Heartbeats only postpone `LeaseExpires`.  Rejected calls
(authorization, fences, version conflicts, readiness of a model) change nothing,
so they are steps not taken.  The turns of several tenants and spaces inside
`claim_job` are in `Dispatch`; here the space is alone.

### Runs

| Run | Instance | Question |
| --- | --- | --- |
| `index_queue` | one memory, two revisions, two workers, two attempts, withheld source, restore; fair | is nothing lost, is what a client polls true, is a final state final, and does every deletion and every revision end? |
| `index_candidate` | one memory with two revisions, *the second sorting before the first*, one run of a model served over HTTP, one worker, one scanner, batch 1, approvals withdrawn and renewed, restore | does the candidate keep up with writes made behind its cursor, does a deletion win over every backfill and worker, does a purge erase all of the memory; is every step a step of `MemorySpace`, through cutover and restore? |
| `services_progress` (part `indexing`) | one revision, one run; fair | does a backfill finish in spite of lost leases, aborts and backpressure? |

*Why these bounds.*  The races need two actors on one row: two workers (or a
worker and a late one), a worker and a person, a scanner and a person.  Two
revisions are the smallest case with one *behind* the cursor and one ahead, and
the second revision of a memory is the one the first one's job must not be
confused with.  Two attempts distinguish "retried" from "exhausted".
`PendingLimit = 1` makes backpressure reachable with one job (the code has 1000),
`BatchSize = 1` makes a scan take several transactions (the code scans 100 revisions).
`AttemptBound` caps how often a *working* lease is lost, which bounds
`attempts`; the proofs do not use it.  A second memory, and a second run that takes
the first one's cutover back, are left to the theorems, which hold for any number of
either.

### Properties

* `NoRevisionLost`: until its memory is deleted, an accepted revision has vectors
  in the active index or an unfinished job *for exactly that index*.
* `CandidateKeepsUp`: the candidate misses nothing written while it is built.
* `OperationTellsTruth`: what a client polls agrees with the job and the vectors.
* `DeletionProceeds`: a deletion cannot get stuck without a job, and erases
  everything of the memory and nothing else.
* `PublishesSelectedOnly`: no vector of a cancelled run or a dead revision.
* `FinalStatesStand`: a worker that lost its lease changes no final state.
* `AcceptedWorkEnds` (every deletion and every revision), `BackfillCompletes`:
  liveness.
* `ImplementsSpace`: every behaviour is one of `MemorySpace`, under the mapping of
  `IndexingRefinement`: a revision is *searchable* when its memory is live and the
  active index holds its vectors, its *status* is that of the operation of its
  ordinary job.  `MemorySpace` has no action that makes a covered revision
  unsearchable short of its withdrawal, that brings a withdrawn one back, that
  reports `ready` before the vectors can be found, or that drops owed work without
  covering it; so the refinement contains what would otherwise be three
  properties (search never regresses, deletion is final, `ready` means found).
* `NoStrandedWork` (proved, not among the runs): unfinished work of a live memory
  can still be routed by `claim_job`.

### Fairness

Claims are strongly fair: `claim_job` takes the job that became available first,
and a deferred job becomes available later than the others, so an eligible job
cannot be passed over for ever.  A worker's steps are weakly fair: `Worker.run_once`
is called in a loop.  `Publish`, `ReadBatch` and `EnqueueBatch` are strongly fair:
a budget reduction and an aborted batch give the work back without costing an
attempt, so they could otherwise alternate with a claim for ever; the assumption
is that a publication or a commit that can be made again and again is made, in
other words that memory pressure passes.  Real failures need no such assumption:
they use up attempts and the job ends `failed`.  Clocks are weakly fair.  Nobody is
obliged to resume, retry, approve or activate anything; the liveness properties
say so in their premises.


## 3. Module `Journal`

**What it stands for.**  Every accepted change of a memory becomes an event in the
database in the same transaction (outbox), then a private receipt file on the host
(spool), then a record on a Git branch.  A request that made a change flushes it
after its commit; if the change is important it also pushes before it answers.
The journal thread pushes what is queued; a person can push too.

| State | In the code |
| --- | --- |
| `review`, `version`, `writers`, `marked` | the `memories` row as the journal reads it: review state, version, who wrote it, importance |
| `count`, `event`, `state` | `writeback_events`: immutable columns, and `pending` → `local` → `pushed`, or `suppressed` |
| `spool` | receipts under `pending/` (`journal/spool.py`) |
| `records`, `tip` | how often each event is recorded on the branch, and its head |
| `strays` | pushes nobody waits for any more that the branch would still accept |
| `policy`, `paused`, `since`, `live` | `writeback_settings` and whether its publisher identity may act |
| `control` | the publisher's file lock |
| `pc`, `req`, `batch`, `todo`, `pver`, `head`, `fresh`, `tries` | locals of a thread in `flush` and `push` |
| `acked`, `exposed` | history: important changes answered with success; texts that were on the branch, or past the final check, when their memory was withdrawn |

**Actions.**  `Save`, `Revise`, `Quarantine`, `Release`, `Forget` (with `Capture`,
the part of each transaction that writes and suppresses events); `FlushSkips`,
`FlushLocks`, `FlushWrites`, `Flushed`; `Claim` (the schedule) and `PushNow` (a
person); `Begin`, `AlreadyDelivered`, `SelectsNothing`, `Selects`, the lock, `Fetch`,
`Check` (the final check), `Send`, `SendRejected`, `MarkPushed`, `Acknowledge`;
`Retry` of a request by its key, `Abandon`; `Fails` and `FlushTorn`, a failure at any
step; `Configure`, `Revoke`; `ForeignCommit`; `Crash` of the process; `StrayLands`.  A
push that fails or whose process dies while it is under way becomes one of `strays`: the
Git program outlives its process, or the server has all of it already.  It may take effect
at any later time (`StrayLands`), when the control lock is long free and another process
publishes, or never; the branch's compare-and-set rejects it once anything else was
committed.  `Projected` is what
`JournalIndex` makes of the branch.

**Roles.**  `Reviewer` is the set of requests whose principal may see all events;
the others see only their own (`Sees`: the row-security policies of migration 022).
This is why `Suppressible` is smaller than "every queued text of the memory".

**Abstractions.**  No bytes: limits, rollover to a new file, line format, hashes and
the secret scanners are left out (a write that a scan rejects is rolled back).  An
append writes the events of the batch that the fetched tip lacks.  The compare-
and-set push is `head[p] = tip`.  File locks are tried, never waited for, so a busy
lock is a failure.

### Runs

| Run | Instance | Question |
| --- | --- | --- |
| `journal_delivery` | a reviewer's requests and the schedule; two events and one policy version, or one event and two of them; batch two, a foreign commit, two tries; fair | under interleaving, failures, crashes, re-planning, lost confirmations and pushes that take effect late: one record each, `pushed` only with a record; can a text withdrawn in time get out; is an answer true; does a denial leave text on the host; does the local answer survive a crash; is a drained branch exactly the database, and does the schedule alone bring it there? |
| `journal_withdrawn_queued` | a reviewer and a contributor, three events | *violated*: finding 1 |
| `journal_receipt_left` | three events, batch three | *violated*: finding 2 |

*Why these bounds.*  Two events are the smallest history with a text and its
withdrawal (or a second text), so that a replay can be wrong by order; an important
one reaches the branch before the other, or both at once in a batch of two.  A request,
the schedule and a push nobody waits for any more are three parties, two of which can be
at the branch while the third withdraws.  One foreign commit rejects a push once and is
followed by a second try; the third try of the code repeats the second.  Two policy
versions allow one repair during a delivery.  `ChangeBound` bounds events and policy
versions together: a repair meets one event, two events meet one policy (all of both
is four times as many states, of which none is of a new kind).  `EventBound`,
`PolicyBound`, `ChangeBound` and `TipBound` stop the environment, not the program, so the
instances can come to rest: the runs of `Journal` disable the deadlock check, as does
`index_candidate`'s, where one run and two revisions are all there is to do.  240 000
states.

### Properties

* `PublishedOnce`: whoever delivers an event however often, one record
  (`DeliveredOnce`), and what the database calls pushed is on the branch: a failure
  between push and mark errs towards pushing again (`PushedIsPublished`).
* `WithdrawnStaysPrivate`: the central promise of a withdrawal.
* `LocalReceiptDurable`: while a text counts as journaled on the host, the receipt
  exists.
* `ForgottenLeavesNoText`: once a denial is journaled, no receipt has the text.
* `AckIsDecided`: no success for an important change that is neither recorded nor
  withdrawn.

  These three except a text that is `Overlooked`: its memory was forgotten by a
  contributor who does not see its event, a reviewer's, so that the withdrawal
  neither suppresses it nor waits for the flush that holds it (finding 1).  In the
  passing run every principal may review and the exception is empty
  (`ReviewersSeeAll`, proved); mixed roles need three events and three processes, an
  instance too large for a quick run, which the theorems cover.
* `DrainedIsMirrored`: nothing left to publish means that a replay of the branch is
  the database.
* `DeliveryIsFinal` (proved): `pushed` and `suppressed` are final.
* `JournalConverges`: liveness, below.

### Fairness

Only the schedule (`Claim`, a poll every five seconds) and the progress of running
threads are fair, and a thread's step may be a failure.  So `JournalConverges` has
to say when failures stop: *if* from some time on the policy is not paused, the
identity is live, no request is in progress, and the publisher neither fails nor
crashes, *then* the branch mirrors the database from some time on.  It does not
require any request to be repeated: what was abandoned half done is finished by
the schedule.


## 4. The other components

These share no state with one another in the code beyond the rows that
`Indexing` and `Journal` model, so each is a module by itself.  An action is again
one transaction, one request or one step of a process between two of them.

### `CanonicalWrites`: memories under concurrent requests

`memory` (version and standing), `receipts` (`idempotency_keys`), `fence` (the
pause of a space) and, per handler, `pc` and `request`.  A request is *one*
transaction, but under READ COMMITTED each statement has a snapshot of its own, so
it is taken apart at its locks: `Receive`, `Admit` (shared boundary and fence),
`TakeKey` (the key's advisory lock, then the receipt: replay, conflict or go on),
`TakeRow` (the row lock, then the version check), `Commit`, `Answer` (which may be
lost), `Fail` at any of them.  `Pause` and `Reopen` take the boundary exclusively.
`WritesAreExact` is four promises: a key makes one version of one memory
(`OneWritePerKey`); every version was made by someone who had seen the one before
it (`NothingUnseenIsReplaced`); what a client was told for a key stays what the key
says, and is there (`AnswersStand`); nothing is written during a pause, not even by
a request that began before (`PausedStands`).  A *forget* of what is already deleted
writes nothing, which is why a receipt may stand for a deletion instead of a version.
`ImplementsStore`: to its clients all this is `MemoryStore`, where a request is carried out
in *one* step, on the version it names and once for its key, or not at all, only while the
space is open, and an answer tells what the key will always tell.  The transaction that
takes its locks one after the other looks indivisible from outside, and the instant at
which it takes effect is its `Commit`.

### `InferenceGate`: model computations

`owner`, `waiters` and `loaded` are the gate and the sessions in memory; `pc`,
`session` and `left` belong to a caller.  A step is what a thread does under the
gate's lock, or between two times it holds it.  A caller stands in line (`Enter`),
sleeps on the condition, is woken by `notify_all` or by its time (`TimesOut`), and
looks at the gate again (`Look`, `LookLate`); by then more may have happened.
`Prepare` loads its session and may evict those of others, `Embed` and `Embedded` are
a native call; between two batches a document goes on, yields or has used up its time
(`GoOn`, `Yield`, `YieldLate`); `Leave` releases *only what it owns*.  `Maintain`,
`Unload`, `Reopen` are the idle cleanup, the trim under memory pressure, the closing.
`TurnsAreExact`: one computation at a time, and never beside maintenance; the session
of a native call stays; the line is exactly those who wait; nobody sleeps first in
line before a free gate; and while one waits, no other goes first twice, which a
document that yields to a query depends on.

### `Dispatch`: whose turn it is

The statements of `claim_job` one by one, for several workers: `Look` (the sorted
snapshot of tenants), `LockTenant` (`SKIP LOCKED`), `Dispatched`, `EmptyHanded`,
`ClaimFails`; writers of a space hold its row.  The order by `last_index_claim` is
the *place* of each tenant, and of each space of a tenant; a snapshot keeps the places
it saw.  `TurnsAreFair` bounds how often a waiting tenant, and a waiting space within
it, is passed over: a tenant at most once by each other tenant *for each worker*,
since every worker may hold a snapshot that is older than the others' dispatches.
With two workers and two tenants that is the same as one turn more for each further
worker; with three tenants it is not, and two stale snapshots together do pass a
tenant over four times.  A space is ordered under the lock of its tenant, so it is
passed over at most once by each other space.
The model also shows what is *not* promised: a claim whose tenant has only jobs that
writers hold is empty-handed although another tenant may have work, and takes no turn,
so the same tenant is tried first again until the writers have committed.

### `Librarian`

Runs, their items, leases, observations, the day's budget, proposals with the memories
they depend on, and the runner's locals.  The runner's three transactions (`Pick`,
`Reserve`, `Apply`) with the model call between the last two, the record of a failure,
which may itself fail (`RecordFailure`, `FailureUnrecorded`), `Crash`; people create,
sweep, cancel, configure, revise, review, forget, accept, reject, undo.
`WithdrawnLeavesNoSuggestion`: a suggestion exists only while all memories it was made
from are ordinary, late answers included.  `DecisionsRespectPeople`: accepting and undoing
never overwrite what a person wrote since.  `RunsEnd`: liveness.

`charged` notes, for every memory and mode, the version of its latest reserved call and
is never reset.  What may have been charged is not swept again (`ChargedIsRetriedByHand`), with
one exception, which takes a person: a review of chosen memories whose prompt is too
large marks them as skipped, over the note of an earlier attempt, and saving the
settings forgets what was skipped.  `chosen` holds the runs whose memories a person named,
`passedOver` what was skipped in them since its latest call; the exception is a finding
(`SweepsSkipAttempted`).  Whether a prompt is too large depends on its mode and on
the selected versions, because the texts of a version and the budget of a profile do not
change (a changed profile has another fingerprint and notes of its own): the constant
`TooLarge` is the set of such prompts, any set in the proofs.  `asked` holds what a runner has sent to the model for its job
(`NoSecondCall`).

### `JournalEvents`, `JournalBackfill`, `JournalFiling`

The history of a journal shares the events that a change captures (`JournalEvents`,
where delivery is one step: `Journal` takes it apart).  *Backfill*: an administrator
approves a run under one policy version; the schedule examines one memory per
transaction behind a cursor (`Open`, `Examine`, `Scan`, then `Queue` or `Refuse`, or
`ScanAborts`); `Covers` and "never without a standing approval" make `BackfillIsExact`.
*Filing*: fetch and plan, final check, push (`PlanFiling`, `CheckFiling`,
`PushFiling`) against deliveries and strangers.  `NotesFollowRecords`: a note shows
nothing but the newest recorded text, and no text that was withdrawn before the final
check.  `BackfillEnds`, `FilingSettles`: liveness.

### `CaptureCustody`

One source: versions of its policy, grants, pages of events, families with their
earliest deadline, withdrawal by a person, expiry in batches under a lease.
`ForgottenIsGone`: a denied or expired family keeps no memory.  `DeadlineHolds`: no
revision, grant or policy extends a deadline.  `NothingComesBack` (a step property):
from its deadline on a family only loses memories.  `FamiliesExpire`: liveness.

### `ConnectorSync` and `SyncRequests`

A scan reads the source item by item, sends a page for each and ends with a finish
that removes what it has not seen; the source, people, and a second scan with a lease go
on meanwhile, requests are late, repeated or lost.  `InventoryIsExact`: only what the
source lacks or changed meanwhile is removed, and a completed inventory has done all
of it.  `PeopleDecide`: a text people wrote is replaced only by the proposal, over the
version, that a reviewer looked at.  `HiddenUntilReadAgain`: what a scan could not
access stays hidden until it is read again.  `SyncRequests` is the request for a scan:
`RequestIsHonoured` (a scan that began after the request), `RequestsAreServed`.

### `ServiceUpdates`

The files that survive a death (`active`, `candidate`, `seen`, `previous`, `failed`,
`journal`, `upgrade`, staged `slots`), the database's `schema`, the runtime that is
`serving`, the watcher, the connectors' shared leases and the holder of
`operation.lock` with its next step.  Each operation (check and stage, cutover, its
undoing and recovery, the upgrade across a migration and its resumption) can die at
any step; the migration of a killed launcher lives on and keeps the lock.
An upgrade ends by removing its journal and starting the updater; if that does not start,
the journal is written back and the upgrade stays to be resumed (`WrittenBack`).
`ServesItsSchema`: no runtime serves a database of another schema.
`HostIsRecoverable`: without a journal nothing is half done, and the runtimes that a
recovery needs are kept.  `BrokenIsHeld`: a release that was undone is not tried again
unasked.  `CutoverSettles`, `TurnComes`: liveness, both from the moment on when nothing
dies and operators leave the host alone (`Calm`).  Assumed: no operator restarts the
supervisor by hand in the middle of an upgrade.

### `Services`: three runs for all of them

TLC checks these in three runs.  `Services` instantiates each component with variables
of its own (those of the workers in `Workers`, about which `WorkersProofs` proves); `part`
chooses one of `Parts` at the start, which then runs alone while the others
stay as they began.  Since no action of a component reads a variable of another, a
property that holds of it alone holds of it beside the others, so nothing is lost, and
the state space is the *sum* of the components', not the product.  The backfill and the
filing name the same events.  Under fairness the conditions share
places (`Weak(i)`, `Strong(i)`): only one component ever runs, so the i-th conditions of
all of them are one condition.  Where a component has one condition for several jobs,
each job is done once and not again, so fairness to the set is fairness to each.

| Run | Parts | Question |
| --- | --- | --- |
| `services_memories` | librarian, filing, custody, dispatch, indexing | `TypeOK` (of all) and the safety and step properties above of these (911 000 states) |
| `services_requests` | writes, gate, backfill, sync, request, updates | the safety and step properties above of these, and `ImplementsStore` (447 000 states) |
| `services_progress` | librarian, backfill, filing, custody, indexing, sync, request, updates; fair | `BackgroundWorkEnds` (`RunsEnd`, `BackfillEnds`, `FilingSettles`, `FamiliesExpire`, and `BackfillCompletes` of `Indexing`), `ScansGoOn` (`ScopeIsFreed`, `RequestsAreServed`), `UpdatesGoOn` (`CutoverSettles`, `TurnComes`) |
| `librarian_second_call`, `librarian_charged_again`, `sync_retained`, `updates_pending` | | *violated*: findings 3, 4, 5, 6 |

*Bounds of the safety runs.*  Two of whatever can overtake, replace or collide with
another of its kind: two handlers and two keys on one memory; three callers and a keeper
(one computes, one yields, one gives up, the session is unloaded under them) and two
batches (one yield), on one session: `TurnsAreExact`, like `WritesAreExact`, is proved
for any number of memories and sessions, so these instances are the smaller ones; two
tenants with two spaces and two workers, one of them with an old
snapshot; two runs of the Librarian over two memories, with a change of a memory or of the
settings between them (`ActBound` bounds these together), where two memories fit one prompt
until one of them has grown; two memories around a backfill's cursor;
two revisions of a family, two grants and three lifetimes; two items, source revisions
and scans; four releases, of which the last needs a migration.  `ExpectedBound`,
`EditBound`, `ChangeBound`, `VersionBound`, `RequestBound`, `Horizon` and the `Last...`
constants stop people, sources and the clock.  The runs under fairness use
instances a size smaller.  What an instance is too small for is left to the theorems, which
have no such bound: the Librarian's organize mode, and with it an undo that rewrites,
and two changes by people during one scan of a source.  None checks for deadlock: when the bounds are used up,
the instances rest.

*Fairness.*  Loops of the program are weakly fair: a runner, a schedule, a cleaner and
a watcher are started again by their supervisor and go on, every step of an operation
ends, a lease that is no longer extended expires.  Strongly fair is what may be
interrupted but not for ever: a claim, the record of a failure once the database is back, a
filing's check and push, a scan, the recovery of a cutover, the watcher's turn among
scans.  People are never obliged to do anything.


## 5. Findings

Six places where the program and its documents or tests disagree.  Each has a run
whose counterexample is the history given here; `PROJECT.json` quotes the lines.

1. *A withdrawn text can stay queued.* (`WithdrawnIsSuppressed`)  `capture` suppresses with an UPDATE under
   row security (`writeback.py:296`), so a contributor who forgets a memory does
   not suppress the event with which a reviewer had released it.  It is never
   published (`WithdrawnStaysPrivate` holds for every set of reviewers), but it counts
   as pending and keeps filing from starting (`journal_folding.py:43-46`);
   `git-journal.md:339` says that unpublished withdrawn content is suppressed.
2. *A receipt can be left behind for good.* (`SuccessLeavesNoReceipt`)  `Spool.acknowledge` stops at the first
   receipt that is missing (`spool.py:92`), and a denial of the same batch may have
   removed it.  `service_tests/test_writeback.py:157` asserts that a successful push
   leaves none.
3. *An interrupted call of the Librarian can be repeated.* (`NoSecondCall`)  When the failure of a step
   cannot be recorded, the runner keeps its job and the next turn sends the same
   memories again (`librarian_runner.py:177`); `011_librarian.sql:155-156` says that an
   interrupted call is never retried automatically.
4. *A charged memory can be swept again.* (`SweepsSkipAttempted`)  A person chooses a memory that was
   completed before, with others, for a review; the prompt is too large, `_mark_items`
   overwrites the observation with `skipped` (`librarian_runner.py:309`), saving the settings
   with the same profile deletes it (`librarian.py:221`), and the next sweep takes the unchanged
   memory up for another call.  `docs/service/librarian.md:208` says that sweeps skip
   revisions already attempted.
5. *A request for a scan can be completed by a scan that began before it* (`RequestIsHonoured`), for sources
   with an inbox of their own (`connectors/runner.py:395`): they read the requested
   generation after the scan.  `docs/service/connectors.md:316` says before.
6. *The watcher can update the host while an upgrade is pending* (`UpdaterWaitsForUpgrade`): it looks for the
   upgrade's journal outside the lock (`service_updates.py:1030`).
   `docs/service/managed-upgrades.md:163` says that it refuses.  `ServesItsSchema` and
   `HostIsRecoverable` hold nevertheless.


## 6. What is proved

Every invariant and every step property that a passing run checks is proved, and
that `Indexing` implements `MemorySpace` and `CanonicalWrites` implements `MemoryStore`: for **every** set of memories, revisions,
workers, principals, handlers, callers and every value of the bounds.  The theorems
assume only the `ConstantAssumption` of the module (a uuid order is injective, a limit
is positive, workers are finitely many, the "none" value is nobody), which TLC evaluates
in the runs; the one further hypothesis is that of `RequestIsHonouredAlways`, below.

| Theorem | Says | Inductive invariant |
| --- | --- | --- |
| `IndexingProofs!TypeCorrect` | `TypeOK` | `TypeInv` = `TypeOK`, plus: a job that exists names a generation, so does a run, a busy worker has a job, a busy scanner an existing run |
| `…!RevisionsKept` | `NoRevisionLost` | `LostInv` |
| `…!OperationsTellTheTruth`, `NoWorkIsStranded`, `IndexingImplementsSpace`, `OnlySelectedPublished` | `OperationTellsTruth`, `NoStrandedWork`, `ImplementsSpace`, `PublishesSelectedOnly` | `RefInv` |
| `…!DeletionsProceed`, `CandidatesKeepUp`, `FinalStatesAreFinal` | `DeletionProceeds`, `CandidateKeepsUp`, `FinalStatesStand` | `ScanEraseInv` |
| `JournalProofs!TypeCorrect` | `TypeOK` | itself |
| `…!OnceDelivered`, `PushedPublished`, `PublicationOnce` | `PublishedOnce` | `OnceInv`, `PublishedInv` |
| `…!DeliveryFinal` | `DeliveryIsFinal` | `LockedQueued` |
| `…!WithdrawnPrivate` | `WithdrawnStaysPrivate` | `PrivateInv` |
| `…!ReceiptsDurable`, `NoTextLeft`, `AnswersDecided`, `BranchMirrors` | `LocalReceiptDurable`, `ForgottenLeavesNoText`, `AckIsDecided`, `DrainedIsMirrored` | `ReceiptInv` |
| `…!ReviewersSeeAll` | no event is `Overlooked` if all may review | itself |
| `CanonicalWritesProofs!WritesAreExactAlways`, `TypeCorrect`, `WritesImplementStore` | `WritesAreExact`, `TypeOK`, `ImplementsStore` | `Inv` |
| `InferenceGateProofs!TurnsAreExactAlways`, `TypeCorrect` | `TurnsAreExact`, `TypeOK` | `Inv`; `WorkInv` for the types |
| `LibrarianProofs!SuggestionsWithdrawn`, `SweptAgainByHand`, `PeopleAreRespected`, `TypeCorrect` | `WithdrawnLeavesNoSuggestion`, `ChargedIsRetriedByHand`, `DecisionsRespectPeople`, `TypeOK` | `Inv` |
| `WorkersProofs!ForgottenStaysGone`, `DeadlineAlwaysHolds`, `NothingEverComesBack`, `CustodyTyped` | `ForgottenIsGone`, `DeadlineHolds`, `NothingComesBack`, `TypeOK` of `CaptureCustody` | `CustodyInv` |
| `ServiceUpdatesProofs!ServesItsSchemaAlways`, `HostIsAlwaysRecoverable`, `BrokenStaysHeld`, `TypeCorrect` | `ServesItsSchema`, `HostIsRecoverable`, `BrokenIsHeld`, `TypeOK` | `Inv` |
| `ServicesProofs!BackfillIsExactAlways` | `BackfillIsExact` | `BackfillInv` |
| `…!NotesFollowRecordsAlways` | `NotesFollowRecords` | `FilingInv` |
| `…!RequestIsHonouredAlways` | `RequestIsHonoured`, if `Retained = {}` | `RequestInv` |
| `…!HiddenUntilReadAgainAlways`, `InventoryIsExactAlways`, `PeopleDecideAlways` | the properties of `ConnectorSync` | `SyncInv` |
| `…!TurnsAreFairAlways` | `TurnsAreFair` | `DispatchInv` |
| `…!TypeCorrect` | `TypeOK` of all eleven components | theirs, and `EventTypes` |
| `…!<Property>Always` (twelve more) | the properties of the components above that run in `Services`, `ImplementsStore` among them | none of their own |

*Queue and journal.*  `RevisionsKept`: each step either leaves `active`, `emb` and the
ordinary job of a live revision as good as before, or is one of the few that do not:
`Accept` creates the job with the revision, `Publish` replaces the job by the vectors,
`Activate` changes `active` only to an index that covers every live revision,
`Restore` turns leased jobs into pending ones.  `JournalProofs` first shows, for each kind of
step, *views*: what it can do to the branch (`BranchView`), the rows (`RowView`), the
history (`ExposureView`) and the receipts (`SpoolView`); each invariant then follows
from one or two views.  `PublicationOnce` rests on the compare-and-set (`HeadsBehind`,
`FreshMissing`, `BatchRecorded`: what a fetch saw is missing is still missing if the tip
did not move); `DeliveryFinal` on a row that a flush has locked being queued still;
`WithdrawnPrivate` on the final check being done after the withdrawal's commit or the
text being counted as leaving at that commit, whatever the roles are.  A push that outlives
its process is the reason why the branch can move without anybody holding the control lock:
every stray adds what is missing at the present tip, and any commit ends them all, so a late
one records nothing twice (`StraysMissing`, part of `OnceInv`); its texts had passed the final check, and count as
leaving when they are withdrawn (`PrivateInv`).

*Receipts and answers.*  `ReceiptInv` relates three stores.  The events of a memory tell
its history: versions and numbers grow together, the last one is what the memory is
(`EventsTell`, `MemoriesTold`).  A local or locked text of a memory that is not ordinary is
one its withdrawal did not see (`WithdrawnOverlooked`).  A process that answers knows that
its event has left the queue (`PushesKnow`).  `BranchMirrors` then needs no order of
arrival: with nothing queued, every event that was not suppressed is on the branch, among
them the last of each memory, and a denial wins a replay wherever it stands.

*The refinement.*  `OperationTellsTruth` and `ImplementsSpace` are not inductive.  `RefInv`
says of one embedding job what its operation reports (`Told`) and that unfinished work
is for a live revision and a selected index (`Placed`); of a run, that it is the
candidate exactly while it is running or paused (`CandidateInv`); of an open backfill
transaction and an inferring worker what they still hold (`ReadingInv`, `InferInv`); and
that a candidate's unfinished job has still to make its own vectors (`FreshInv`).  The last
is the one that is easy to miss: with it, an index that covers every live revision has no
unfinished job, so a cutover leaves no work behind that no claim would route.
Each action is then mapped to `Accept`, `Advance`, `Index`, `CutOver`, `Withdraw`,
`Erase`, `Recover` or a stutter.

*Erasure and the backfill.*  `ScanEraseInv` adds that a deleted memory has an unfinished
purge job (`ErasureInv`), that a live revision is ahead of the cursor or settled for the
candidate, and that one whose candidate job is closed has its vector (`SettledInv`).  While
a batch is open, `BatchInv` says what a full batch leaves out: a revision that is
scannable, unsettled and not in the batch sorts after everything in it, so the cursor
cannot jump it; a batch that is not full has them all.  This is where `Rank` may be any
injective order: nothing depends on the age of a uuid.

*Writes.*  The invariant has what is stored and what is under way.  Stored: receipts
and versions correspond (`ReceiptInv`), a memory counts its versions (`VersionInv`).
Under way: locks exclude (`LocksInv`), a paused space has nobody inside its boundary
(`FenceInv`), and what a handler has seen under its lock is still true (`Seen`): its key
has no receipt, its memory the version it named.  A check of the
version before the row lock would break exactly `Seen`.  It is also what the refinement
rests on: at its commit a handler's request is one that `MemoryStore` may carry out in that
step, because nothing it saw earlier has changed; every other step but `Pause`, `Reopen`
and `Answer` is a stutter there.

*The gate.*  `NobodyIsPassedTwice` needs the strengthening that those who stand *ahead*
in the line have not yet been counted: whoever went first is counted once and stands
behind from then on.  Two lemmas say what joining and leaving do to a line without
repetitions (`Joins`, `Removes`); `FirstIsAwake` gives the absence of a lost wake-up.

*The Librarian.*  `SweptAgainByHand` holds across crashes because an active run selected
its items no earlier than the latest call about them: only one run is active
(`RunsInv`), so no observation steps back behind a call (`VersionInv`).  That a charged
version is marked as skipped only by a person's review is `CallsInv`: what was charged did
fit its prompt; organizing, the prompt is the memory's own and fits again; a sweep's
review takes all its items at once, so if one of them was charged it was by this run,
with the same prompt.

*Custody.*  An expiry is taken up only when due, so `Due` and the deadline cannot part
(`WorkInv`); a stored event names a version of the policy that exists (`RecordInv`), whose
lifetime the deadline keeps.

*Updates.*  `LockInv` says what an operation that holds the lock may find, step by step,
and that an orphaned migration excludes every other one; `SchemaInv` that the schema is
the recorded runtime's unless a journal says what is amiss; `BrokenInv` where a release
that was undone is remembered: as failed, in a journal, or replaced by a newer one.

*The backfill and filing of a journal.*  `ExaminedInv`: behind the cursor every ordinary
memory has the event of its present version, and the memory under examination is the
next one, because its row stays locked.  `PlanInv`: while filing holds the publisher's lock,
what it planned is a rendering of the newest records, and until the final check a
withdrawal of one of its texts is still queued, which the check then sees.

*Scans of a source.*  `SyncInv`: one run at a time (`ScansInv`); what a run has stored, and
the request its client sent last, agree with the source wherever that did not change
(`ScannedInv`); a text of people is newer than the version the source was applied to
(`HeldInv`), which is why a late page cannot replace it unasked; a memory that is visible
was read since the last refusal (`StopsInv`).

*Turns.*  A tenant's count is not bounded by its place alone.  `DispatchInv` bounds its sum
with `PassesLeft`: the pairs of a worker and another tenant that can still pass it, because
that tenant is before it in the order, or in the worker's snapshot, or is being served by a
worker that has passed it.  A dispatch uses up a pair, puts its tenant last, and adds none;
the pairs are at most (tenants − 1) · workers.  A space's count plus its place never grows.

*Side by side.*  Each component runs or stutters in every step of `Services` (`CustodyRuns`
and its like), so a theorem `C!Spec => []P` of its proof module holds there.
`JournalBackfill` and `JournalFiling` name the same events, so their invariants speak of
the behaviours in which they run (`part`).  `RequestIsHonouredAlways` assumes that no runner
keeps an inbox of its own; without that it is false, which is finding 5.

### Only model-checked

* Liveness, in `index_queue`, `journal_delivery` and `services_progress`: temporal
  reasoning under fairness, and `ENABLED`, are out of the prover's reach.
* The violations of the six findings.

### Not modelled, and why

* Texts, vectors, ranking, passages, file formats, hashes, rollover, scanners and
  limits in bytes: data without a protocol of its own.
* In `Journal`: a host registration changed under a running service.  In `Indexing`: row locks and deadlocks
  between transactions; PostgreSQL aborts one of two that wait for each other.
* The reconciliation of an older backup: the database owner does it in an isolated
  database, with no other actor.
* Services that answer in one transaction (organizations, insights, grants of the
  vault) and cryptography.
* Host control, the device's half of conversation capture, evaluations, journal upload
  and recovery, sign-in sessions and product telemetry have protocols of their own that
  no module covers yet.  They are separate from the modelled parts (a store or a queue
  of their own) and come next, in that order.


## 7. Plan

| Step | Module | What it would say |
| --- | --- | --- |
| 1 | `HostControl` | the durable queue of one host's operations: an operation with an effect is executed once, and its record tells |
| 2 | `CaptureDelivery` | the device's bounded inbox up to `CaptureCustody`'s pages: nothing acknowledged is lost, across restarts |
| 3 | `JournalRecovery` | a reviewed plan applied in bounded parts beside `Journal`: denials win, a record is applied once |
| 4 | `LockOrder` | row locks of `retry_operation`, `forget`, `_cancel_jobs`, `claim_job` one at a time: which waits the database must break |
| 5 | proofs | the safety half of the new modules; a refinement of `Journal` to the replay it promises, as `Indexing` has for searches and `CanonicalWrites` for writes |

Recursion over data is written as recursive functions or folds in modules that are
proved about.  A dozen runs is the size that stays readable and quick to repeat; a new
component joins `Services` rather than adding runs.
