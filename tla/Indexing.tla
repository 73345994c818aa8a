------------------------------ MODULE Indexing ------------------------------
(***************************************************************************)
(* Durable semantic indexing of one memory space (mnemion/service): the    *)
(* canonical write path that accepts memories and revisions (memory.py),   *)
(* the leased job queue and the workers that publish vectors (worker.py,   *)
(* claim_job in migration 029), the candidate index that is built beside   *)
(* the active one and takes over in a guarded cutover (reindex.py,         *)
(* model_state.py), physical purge (lifecycle.py) and the restore of a     *)
(* backup (recovery.py).                                                   *)
(*                                                                         *)
(* An action is one PostgreSQL transaction, or one step of a process       *)
(* between two transactions.  Inference never holds a transaction, so a    *)
(* worker is three steps: claim, begin, publish.  A backfill transaction   *)
(* is split after its scan, because a concurrent deletion can commit       *)
(* between the scan and the inserts: both hold the shared writer boundary. *)
(*                                                                         *)
(* Time is abstract: a lease is live until LeaseExpires, a deferred job is *)
(* not due until BecomesDue.  A heartbeat only postpones LeaseExpires.     *)
(* Authorization, space fences and version conflicts make the environment  *)
(* not take an API action; a rejected call changes nothing.                *)
(***************************************************************************)
EXTENDS Integers, FiniteSets

CONSTANTS
    Memory,         \* memories of the space
    Revision,       \* immutable revisions; a uuid names each
    MemoryOf,       \* [Revision -> Memory]: the memory a revision belongs to
    Rank,           \* [Revision -> Nat \ {0}]: uuid order, unrelated to age
    Gen,            \* embedding generations (model identities)
    DefaultGen,     \* the generation of a space with no settings row
    HttpGen,        \* generations whose runtime is an HTTP endpoint
    Run,            \* reindex runs; a uuid names each
    Worker,         \* indexing workers
    Scanner,        \* backfill processes
    Sourced,        \* memories captured by a connector, whose file can be withheld
    MaxAttempts,    \* max_attempts of a worker
    BatchSize,      \* revisions a backfill transaction scans
    PendingLimit,   \* unfinished candidate jobs at which scanning pauses
    AttemptBound,   \* bound: a working lease is lost only below these attempts
    MayRestore,     \* whether the instance includes the restore of a backup
    None            \* no worker, no scanner, no run, no generation

ASSUME ConstantAssumption ==
    /\ MemoryOf \in [Revision -> Memory]
    /\ Rank \in [Revision -> Nat \ {0}]
    /\ \A r, s \in Revision : Rank[r] = Rank[s] => r = s
    /\ DefaultGen \in Gen
    /\ HttpGen \subseteq Gen \ {DefaultGen}
    /\ Sourced \subseteq Memory
    /\ MaxAttempts \in Nat \ {0}
    /\ BatchSize \in Nat \ {0}
    /\ PendingLimit \in Nat \ {0}
    /\ AttemptBound \in Nat
    /\ MayRestore \in BOOLEAN
    /\ None \notin Worker \cup Scanner \cup Run \cup Gen

VARIABLES
    memState,   \* memories row: absent, live, deleted (deleted_at set), purged
    revs,       \* memory_revisions rows
    emb,        \* embeddings: <<revision, generation>> with published vectors
    jobState,   \* jobs.state
    opState,    \* operations.state of the job's operation
    jobGen,     \* jobs.generation_id
    holder,     \* jobs.lease_id, as the worker that drew it
    leaseLive,  \* leased jobs with lease_until > now()
    due,        \* jobs with available_at <= now()
    attempts,   \* jobs.attempts
    active,     \* space_embedding_settings.active_generation_id
    cand,       \* space_embedding_settings.candidate_run_id
    paused,     \* space_embedding_settings.inference_paused
    runState,   \* reindex_runs.state
    runGen,     \* reindex_runs.generation_id
    cursor,     \* reindex_runs.cursor_id, as a rank
    scanned,    \* runs with reindex_runs.scan_complete
    scanHolder, \* reindex_runs.lease_id, as the scanner that drew it
    scanLive,   \* runs whose scan lease has lease_until > now()
    wpc,        \* worker: idle, claimed (job row returned), infer (text read)
    wjob,       \* worker: the job of its claim
    spc,        \* scanner: idle, claimed, reading (transaction open)
    srun,       \* scanner: the run of its claim
    srows,      \* scanner: revisions its open transaction scanned
    srcCurrent, \* embedding_source_current(space)
    withheld    \* memories whose source file is withheld from inference

rowVars     == <<memState, revs, emb>>
jobVars     == <<jobState, opState, jobGen, holder, leaseLive, due, attempts>>
settingVars == <<active, cand, paused>>
runVars     == <<runState, runGen, cursor, scanned, scanHolder, scanLive>>
workerVars  == <<wpc, wjob>>
scanVars    == <<spc, srun, srows>>
envVars     == <<srcCurrent, withheld>>
vars == <<rowVars, jobVars, settingVars, runVars, workerVars, scanVars, envVars>>

(***************************************************************************)
(* Jobs.  A revision has one ordinary job (run = None) and at most one     *)
(* candidate job per run (unique index reindex_revision_job); a memory has *)
(* at most one purge job.  Every job has exactly one operation.            *)
(***************************************************************************)
EmbedJob == [kind : {"embed"}, rev : Revision, run : Run \cup {None}]
PurgeJob == [kind : {"purge"}, mem : Memory]
Job == EmbedJob \cup PurgeJob

Ordinary(r)     == [kind |-> "embed", rev |-> r, run |-> None]
Candidate(r, n) == [kind |-> "embed", rev |-> r, run |-> n]
Purge(m)        == [kind |-> "purge", mem |-> m]

JobMemory(j) == IF j.kind = "purge" THEN j.mem ELSE MemoryOf[j.rev]
Unfinished == {"pending", "leased", "failed"}
JobsOf(m) == {j \in Job : JobMemory(j) = m}

LiveRevs == {r \in revs : memState[MemoryOf[r]] = "live"}

\* A run of this space that is still the selected candidate and not paused.
Running(n) == cand = n /\ runState[n] = "running"

-----------------------------------------------------------------------------
Init ==
    /\ memState = [m \in Memory |-> "absent"]
    /\ revs = {}
    /\ emb = {}
    /\ jobState = [j \in Job |-> "none"]
    /\ opState = [j \in Job |-> "none"]
    /\ jobGen = [j \in Job |-> None]
    /\ holder = [j \in Job |-> None]
    /\ leaseLive = {}
    /\ due = {}
    /\ attempts = [j \in Job |-> 0]
    /\ active = DefaultGen
    /\ cand = None
    /\ paused = FALSE
    /\ runState = [n \in Run |-> "none"]
    /\ runGen = [n \in Run |-> None]
    /\ cursor = [n \in Run |-> 0]
    /\ scanned = {}
    /\ scanHolder = [n \in Run |-> None]
    /\ scanLive = {}
    /\ wpc = [w \in Worker |-> "idle"]
    /\ wjob = [w \in Worker |-> None]
    /\ spc = [s \in Scanner |-> "idle"]
    /\ srun = [s \in Scanner |-> None]
    /\ srows = [s \in Scanner |-> {}]
    /\ srcCurrent = TRUE
    /\ withheld = {}

(***************************************************************************)
(* Row updates shared by the transactions below.                           *)
(***************************************************************************)

\* Insert the jobs js, each with its accepted operation, available at once
\* unless it is in the set late.
InsertJobs(js, gen, late) ==
    /\ jobState' = [j \in Job |-> IF j \in js THEN "pending" ELSE jobState[j]]
    /\ opState' = [j \in Job |-> IF j \in js THEN "accepted" ELSE opState[j]]
    /\ jobGen' = [j \in Job |-> IF j \in js THEN gen[j] ELSE jobGen[j]]
    /\ due' = (due \cup js) \ late
    /\ UNCHANGED <<holder, leaseLive, attempts>>

\* Set the jobs js to state st with no lease; their operations to ost.
CloseJobs(js, st, ost) ==
    /\ jobState' = [j \in Job |-> IF j \in js THEN st ELSE jobState[j]]
    /\ opState' = [j \in Job |-> IF j \in js THEN ost ELSE opState[j]]
    /\ holder' = [j \in Job |-> IF j \in js THEN None ELSE holder[j]]
    /\ leaseLive' = leaseLive \ js

\* Worker._finish: job and operation reach the same final state.
Finish(j, st) ==
    /\ CloseJobs({j}, st, st)
    /\ UNCHANGED <<jobGen, due, attempts>>

\* Mutant of GiveBack: the attempt is returned twice.
GiveBackTwice(j, ost, isDue) ==
    /\ CloseJobs({j}, "pending", ost)
    /\ attempts' = [attempts EXCEPT ![j] = @ - 2]
    /\ due' = IF isDue THEN due ELSE due \ {j}
    /\ UNCHANGED jobGen

\* A job goes back to the queue without spending the attempt of its claim.
GiveBack(j, ost, isDue) ==
    /\ CloseJobs({j}, "pending", ost)
    /\ attempts' = [attempts EXCEPT ![j] = IF @ > 0 THEN @ - 1 ELSE 0]
    /\ due' = IF isDue THEN due ELSE due \ {j}
    /\ UNCHANGED jobGen

(***************************************************************************)
(* API transactions (memory.py).  Save and revise queue the new revision   *)
(* for the active generation and, when a candidate is being built, for the *)
(* candidate as well (_operation, enqueue_candidate).                      *)
(***************************************************************************)

\* Mutant of Accept: a write forgets the candidate that is being built.
AcceptForActiveOnly(r) ==
    /\ revs' = revs \cup {r}
    /\ InsertJobs({Ordinary(r)}, [j \in {Ordinary(r)} |-> active], {})
    /\ UNCHANGED <<emb, settingVars, runVars, workerVars, scanVars, envVars>>

Accept(r) ==
    LET js == {Ordinary(r)} \cup (IF cand = None THEN {} ELSE {Candidate(r, cand)})
    IN  /\ revs' = revs \cup {r}
        /\ InsertJobs(js, [j \in js |-> IF j.run = None THEN active ELSE runGen[j.run]], {})
        /\ UNCHANGED <<emb, settingVars, runVars, workerVars, scanVars, envVars>>

Save(r) ==
    /\ memState[MemoryOf[r]] = "absent"
    /\ memState' = [memState EXCEPT ![MemoryOf[r]] = "live"]
    /\ Accept(r)

Revise(r) ==
    /\ memState[MemoryOf[r]] = "live"
    /\ r \notin revs
    /\ Accept(r)
    /\ UNCHANGED memState

\* forget_in_transaction and _forget_record: deny at once, cancel all work of
\* the memory, then queue the purge.
Forget(m) ==
    LET cancel == {j \in JobsOf(m) : jobState[j] \in Unfinished}
    IN  /\ memState[m] = "live"
        /\ memState' = [memState EXCEPT ![m] = "deleted"]
        /\ jobState' = [j \in Job |-> IF j = Purge(m) THEN "pending"
                                      ELSE IF j \in cancel THEN "cancelled" ELSE jobState[j]]
        /\ opState' = [j \in Job |->
                         IF j = Purge(m) THEN "accepted"
                         ELSE IF j \in JobsOf(m) /\ opState[j] \in {"accepted", "indexing", "failed"}
                              THEN "cancelled" ELSE opState[j]]
        /\ holder' = [j \in Job |-> IF j \in cancel THEN None ELSE holder[j]]
        /\ leaseLive' = leaseLive \ cancel
        /\ due' = due \cup {Purge(m)}
        /\ UNCHANGED <<revs, emb, jobGen, attempts, settingVars, runVars,
                       workerVars, scanVars, envVars>>

\* Jobs js leave "failed" for another round of attempts.
Requeue(js) ==
    /\ jobState' = [j \in Job |-> IF j \in js THEN "pending" ELSE jobState[j]]
    /\ opState' = [j \in Job |-> IF j \in js THEN "accepted" ELSE opState[j]]
    /\ attempts' = [j \in Job |-> IF j \in js THEN 0 ELSE attempts[j]]
    /\ due' = due \cup js
    /\ UNCHANGED <<rowVars, jobGen, holder, leaseLive>>

RetryOperation(j) ==
    /\ opState[j] = "failed"
    /\ Requeue({j} \cap {k \in Job : jobState[k] = "failed"})
    /\ UNCHANGED <<settingVars, runVars, workerVars, scanVars, envVars>>

(***************************************************************************)
(* Model administration (ReindexService).  Every command takes the         *)
(* exclusive writer boundary, so it never overlaps a transaction that      *)
(* holds the shared one: here, an open backfill transaction.               *)
(***************************************************************************)
ExclusiveBoundary == \A s \in Scanner : spc[s] # "reading"

RunJobs(n) == {j \in EmbedJob : j.run = n}

Start(n, g) ==
    /\ ExclusiveBoundary
    /\ runState[n] = "none"
    /\ cand = None
    /\ active # g
    /\ runState' = [runState EXCEPT ![n] = "running"]
    /\ runGen' = [runGen EXCEPT ![n] = g]
    /\ cand' = n
    /\ UNCHANGED <<rowVars, jobVars, active, paused, cursor, scanned, scanHolder,
                   scanLive, workerVars, scanVars, envVars>>

SetRunState(n, st) ==
    /\ ExclusiveBoundary
    /\ cand = n
    /\ runState[n] # st
    /\ runState' = [runState EXCEPT ![n] = st]
    /\ UNCHANGED <<rowVars, jobVars, settingVars, runGen, cursor, scanned, scanHolder,
                   scanLive, workerVars, scanVars, envVars>>

Pause(n) == SetRunState(n, "paused")
Resume(n) == SetRunState(n, "running")

RetryRun(n) ==
    LET failed == {j \in RunJobs(n) : jobState[j] = "failed"}
    IN  /\ ExclusiveBoundary
        /\ cand = n
        /\ failed # {}
        /\ Requeue(failed)
        /\ UNCHANGED <<settingVars, runVars, workerVars, scanVars, envVars>>

\* _cancel_jobs
CancelJobs(js) ==
    /\ CloseJobs({j \in js : jobState[j] \in Unfinished}, "cancelled", "cancelled")
    /\ UNCHANGED <<jobGen, due, attempts>>

Cancel(n) ==
    /\ ExclusiveBoundary
    /\ cand = n
    /\ CancelJobs(RunJobs(n))
    /\ runState' = [runState EXCEPT ![n] = "cancelled"]
    /\ scanHolder' = [scanHolder EXCEPT ![n] = None]
    /\ scanLive' = scanLive \ {n}
    /\ cand' = None
    /\ UNCHANGED <<rowVars, active, paused, runGen, cursor, scanned, workerVars,
                   scanVars, envVars>>

\* coverage(): every revision of a live memory has vectors of generation g.
Covered(g) == \A r \in LiveRevs : <<r, g>> \in emb

Activate(n) ==
    /\ ExclusiveBoundary
    /\ cand = n
    /\ n \in scanned
    /\ Covered(runGen[n])
    /\ active' = runGen[n]
    /\ cand' = None
    /\ paused' = FALSE
    /\ runState' = [runState EXCEPT ![n] = "activated"]
    /\ CancelJobs({j \in EmbedJob : jobGen[j] = active})
    /\ UNCHANGED <<rowVars, runGen, cursor, scanned, scanHolder, scanLive,
                   workerVars, scanVars, envVars>>

\* resume_processing: an administrator approves the active endpoint again.
ResumeProcessing ==
    /\ ExclusiveBoundary
    /\ paused
    /\ paused' = FALSE
    /\ UNCHANGED <<rowVars, jobVars, active, cand, runVars, workerVars, scanVars, envVars>>

(***************************************************************************)
(* Indexing worker (worker.py).  Lease ids are drawn afresh at each claim  *)
(* and a worker is sequential, so "holder = w while w works on the job"    *)
(* says that the row still carries the lease id of this claim.             *)
(***************************************************************************)

\* Mutant of Owned: the lease is not checked again.
OwnedUnchecked(w) == wpc[w] # "idle"

Owned(w) ==
    LET j == wjob[w]
    IN  jobState[j] = "leased" /\ holder[j] = w /\ j \in leaseLive

Working(j) == \E w \in Worker : wjob[w] = j /\ Owned(w)

\* Mutant of Eligible: an expired lease is not taken over.
EligiblePendingOnly(j) == jobState[j] = "pending" /\ j \in due

Eligible(j) == \/ jobState[j] = "pending" /\ j \in due
               \/ jobState[j] = "leased" /\ j \notin leaseLive

\* The routing condition of claim_job for an embed job.
Routable(j) == IF j.run = None THEN ~paused /\ active = jobGen[j] ELSE Running(j.run)

Lease(w, j) ==
    /\ jobState' = [jobState EXCEPT ![j] = "leased"]
    /\ holder' = [holder EXCEPT ![j] = w]
    /\ leaseLive' = leaseLive \cup {j}
    /\ attempts' = [attempts EXCEPT ![j] = @ + 1]
    /\ wpc' = [wpc EXCEPT ![w] = "claimed"]
    /\ wjob' = [wjob EXCEPT ![w] = j]
    /\ UNCHANGED <<rowVars, opState, jobGen, due, settingVars, runVars, scanVars, envVars>>

\* Physical purge never waits behind embedding work.
ClaimPurge(w, j) ==
    /\ wpc[w] = "idle"
    /\ Eligible(j)
    /\ Lease(w, j)

ClaimEmbed(w, j) ==
    /\ wpc[w] = "idle"
    /\ \A p \in PurgeJob : ~Eligible(p)
    /\ Eligible(j)
    /\ Routable(j)
    /\ Lease(w, j)

ToIdle(w) ==
    /\ wpc' = [wpc EXCEPT ![w] = "idle"]
    /\ wjob' = [wjob EXCEPT ![w] = None]

\* Every transaction of a worker starts with the lease check.
LeaseLost(w) ==
    /\ wpc[w] # "idle"
    /\ ~Owned(w)
    /\ ToIdle(w)
    /\ UNCHANGED <<rowVars, jobVars, settingVars, runVars, scanVars, envVars>>

(***************************************************************************)
(* _policy and job_policy: selection may have changed since the claim.     *)
(***************************************************************************)
Obsolete(j) == IF j.run = None THEN active # jobGen[j] ELSE cand # j.run
Waits(j, finishing) == IF j.run = None THEN paused
                       ELSE ~finishing /\ runState[j.run] = "paused"
SourceHeld(j) == ~srcCurrent \/ JobMemory(j) \in withheld
Allowed(j, finishing) == ~Obsolete(j) /\ ~Waits(j, finishing) /\ ~SourceHeld(j)

\* Mutant of PolicyStops: unreadable source ends the job instead of deferring it.
PolicyStopsForGood(j, finishing) ==
    /\ ~Allowed(j, finishing)
    /\ IF Obsolete(j) \/ ~Waits(j, finishing) THEN Finish(j, "cancelled")
       ELSE GiveBack(j, opState[j], TRUE)

PolicyStops(j, finishing) ==
    /\ ~Allowed(j, finishing)
    /\ IF Obsolete(j) THEN Finish(j, "cancelled")
       ELSE IF Waits(j, finishing) THEN GiveBack(j, opState[j], TRUE)
       ELSE GiveBack(j, "accepted", FALSE)

Readable(j) == j.rev \in LiveRevs

\* Mutant of Begin: the client is not told that indexing began.
BeginUnreported(w) ==
    LET j == wjob[w]
    IN  /\ wpc[w] = "claimed"
        /\ j \in EmbedJob
        /\ Owned(w)
        /\ IF Allowed(j, FALSE) /\ Readable(j)
           THEN /\ wpc' = [wpc EXCEPT ![w] = "infer"]
                /\ UNCHANGED <<jobVars, wjob>>
           ELSE /\ \/ PolicyStops(j, FALSE)
                   \/ Allowed(j, FALSE) /\ Finish(j, "cancelled")
                /\ ToIdle(w)
        /\ UNCHANGED <<rowVars, settingVars, runVars, scanVars, envVars>>

\* The first transaction of process, up to the read of the text.
Begin(w) ==
    LET j == wjob[w]
    IN  /\ wpc[w] = "claimed"
        /\ j \in EmbedJob
        /\ Owned(w)
        /\ IF Allowed(j, FALSE) /\ Readable(j)
           THEN /\ opState' = [opState EXCEPT ![j] = "indexing"]
                /\ wpc' = [wpc EXCEPT ![w] = "infer"]
                /\ UNCHANGED <<jobState, jobGen, holder, leaseLive, due, attempts, wjob>>
           ELSE /\ \/ PolicyStops(j, FALSE)
                   \/ Allowed(j, FALSE) /\ Finish(j, "cancelled")
                /\ ToIdle(w)
        /\ UNCHANGED <<rowVars, settingVars, runVars, scanVars, envVars>>

\* Mutant of Publish: the checks made before inference are trusted after it.
PublishUnchecked(w) ==
    LET j == wjob[w]
    IN  /\ wpc[w] = "infer"
        /\ emb' = emb \cup {<<j.rev, jobGen[j]>>}
        /\ Finish(j, "ready")
        /\ ToIdle(w)
        /\ UNCHANGED <<memState, revs, settingVars, runVars, scanVars, envVars>>

\* The second transaction of process: vectors and the final state together.
Publish(w) ==
    LET j == wjob[w]
    IN  /\ wpc[w] = "infer"
        /\ Owned(w)
        /\ IF Allowed(j, TRUE) /\ Readable(j)
           THEN /\ emb' = emb \cup {<<j.rev, jobGen[j]>>}
                /\ Finish(j, "ready")
           ELSE /\ \/ PolicyStops(j, TRUE)
                   \/ Allowed(j, TRUE) /\ Finish(j, "cancelled")
                /\ UNCHANGED emb
        /\ ToIdle(w)
        /\ UNCHANGED <<memState, revs, settingVars, runVars, scanVars, envVars>>

\* Mutant of PurgeStep: the rows go and the vectors stay.
PurgeStepKeepsVectors(w) ==
    LET j == wjob[w]
    IN  /\ wpc[w] = "claimed"
        /\ j \in PurgeJob
        /\ Owned(w)
        /\ memState' = [memState EXCEPT ![j.mem] = "purged"]
        /\ revs' = {r \in revs : MemoryOf[r] # j.mem}
        /\ Finish(j, "ready")
        /\ ToIdle(w)
        /\ UNCHANGED <<emb, settingVars, runVars, scanVars, envVars>>

\* _purge: the rows of the memory are erased and its operation is ready.
PurgeStep(w) ==
    LET j == wjob[w]
    IN  /\ wpc[w] = "claimed"
        /\ j \in PurgeJob
        /\ Owned(w)
        /\ IF memState[j.mem] \in {"deleted", "purged"}
           THEN /\ memState' = [memState EXCEPT ![j.mem] = "purged"]
                /\ revs' = {r \in revs : MemoryOf[r] # j.mem}
                /\ emb' = {e \in emb : MemoryOf[e[1]] # j.mem}
                /\ Finish(j, "ready")
           ELSE Finish(j, "cancelled") /\ UNCHANGED rowVars
        /\ ToIdle(w)
        /\ UNCHANGED <<settingVars, runVars, scanVars, envVars>>

\* Mutant of FailAttempt: the job may be terminal, the operation never says so.
FailAttemptSilently(w) ==
    LET j == wjob[w]
    IN  /\ wpc[w] # "idle"
        /\ Owned(w)
        /\ CloseJobs({j}, IF attempts[j] >= MaxAttempts THEN "failed" ELSE "pending", "accepted")
        /\ due' = due \ {j}
        /\ ToIdle(w)
        /\ UNCHANGED <<rowVars, jobGen, attempts, settingVars, runVars, scanVars, envVars>>

\* fail: any exception of process spends the attempt of its claim...
FailAttempt(w) ==
    LET j == wjob[w]
        terminal == attempts[j] >= MaxAttempts
    IN  /\ wpc[w] # "idle"
        /\ Owned(w)
        /\ CloseJobs({j}, IF terminal THEN "failed" ELSE "pending",
                          IF terminal THEN "failed" ELSE "accepted")
        /\ due' = due \ {j}
        /\ ToIdle(w)
        /\ UNCHANGED <<rowVars, jobGen, attempts, settingVars, runVars, scanVars, envVars>>

\* ... except a reduced memory budget, met during inference.
BudgetReduced(w) ==
    /\ wpc[w] = "infer"
    /\ Owned(w)
    /\ GiveBack(wjob[w], "accepted", FALSE)
    /\ ToIdle(w)
    /\ UNCHANGED <<rowVars, settingVars, runVars, scanVars, envVars>>

\* The process dies between two transactions; its lease stays in the row.
Crash(w) ==
    /\ wpc[w] # "idle"
    /\ attempts[wjob[w]] < AttemptBound
    /\ ToIdle(w)
    /\ UNCHANGED <<rowVars, jobVars, settingVars, runVars, scanVars, envVars>>

\* The lease of a dead worker always runs out.  That of a working one does when
\* its heartbeat fails or it is stalled.
LeaseExpires(j) ==
    /\ j \in leaseLive
    /\ Working(j) => attempts[j] < AttemptBound
    /\ leaseLive' = leaseLive \ {j}
    /\ UNCHANGED <<rowVars, jobState, opState, jobGen, holder, due, attempts,
                   settingVars, runVars, workerVars, scanVars, envVars>>

BecomesDue(j) ==
    /\ jobState[j] = "pending"
    /\ j \notin due
    /\ due' = due \cup {j}
    /\ UNCHANGED <<rowVars, jobState, opState, jobGen, holder, leaseLive, attempts,
                   settingVars, runVars, workerVars, scanVars, envVars>>

(***************************************************************************)
(* Backfill of a candidate (ReindexBackfill.run_once, claim_reindex).      *)
(***************************************************************************)
ScanIdle(s) ==
    /\ spc' = [spc EXCEPT ![s] = "idle"]
    /\ srun' = [srun EXCEPT ![s] = None]
    /\ srows' = [srows EXCEPT ![s] = {}]

ScanOwned(s) ==
    LET n == srun[s]
    IN  runState[n] = "running" /\ scanHolder[n] = s /\ n \in scanLive

\* Mutant of ClaimScan: only a released lease is taken, not an expired one.
ClaimScanReleasedOnly(s, n) ==
    /\ spc[s] = "idle"
    /\ runState[n] = "running"
    /\ n \notin scanned
    /\ scanHolder[n] = None
    /\ scanHolder' = [scanHolder EXCEPT ![n] = s]
    /\ scanLive' = scanLive \cup {n}
    /\ spc' = [spc EXCEPT ![s] = "claimed"]
    /\ srun' = [srun EXCEPT ![s] = n]
    /\ UNCHANGED <<rowVars, jobVars, settingVars, runState, runGen, cursor, scanned,
                   workerVars, srows, envVars>>

ClaimScan(s, n) ==
    /\ spc[s] = "idle"
    /\ runState[n] = "running"
    /\ n \notin scanned \cup scanLive
    /\ scanHolder' = [scanHolder EXCEPT ![n] = s]
    /\ scanLive' = scanLive \cup {n}
    /\ spc' = [spc EXCEPT ![s] = "claimed"]
    /\ srun' = [srun EXCEPT ![s] = n]
    /\ UNCHANGED <<rowVars, jobVars, settingVars, runState, runGen, cursor, scanned,
                   workerVars, srows, envVars>>

\* The next BatchSize revisions in uuid order after rank c.
BatchAfter(c) ==
    LET rest == {r \in LiveRevs : Rank[r] > c}
    IN  {r \in rest : Cardinality({q \in rest : Rank[q] < Rank[r]}) < BatchSize}

\* Access lost, lease lost, paused or cancelled: return with the row as it is.
ScanStops(s) ==
    /\ spc[s] = "claimed"
    /\ ~srcCurrent \/ ~ScanOwned(s)
    /\ ScanIdle(s)
    /\ UNCHANGED <<rowVars, jobVars, settingVars, runVars, workerVars, envVars>>

\* Enough candidate work is queued: release the lease and scan later.
ScanBackpressure(s) ==
    LET n == srun[s]
    IN  /\ spc[s] = "claimed"
        /\ srcCurrent
        /\ ScanOwned(s)
        /\ Cardinality({j \in RunJobs(n) : jobState[j] \in Unfinished}) >= PendingLimit
        /\ scanHolder' = [scanHolder EXCEPT ![n] = None]
        /\ scanLive' = scanLive \ {n}
        /\ ScanIdle(s)
        /\ UNCHANGED <<rowVars, jobVars, settingVars, runState, runGen, cursor, scanned,
                       workerVars, envVars>>

ReadBatch(s) ==
    LET n == srun[s]
    IN  /\ spc[s] = "claimed"
        /\ srcCurrent
        /\ ScanOwned(s)
        /\ Cardinality({j \in RunJobs(n) : jobState[j] \in Unfinished}) < PendingLimit
        /\ spc' = [spc EXCEPT ![s] = "reading"]
        /\ srows' = [srows EXCEPT ![s] = BatchAfter(cursor[n])]
        /\ UNCHANGED <<rowVars, jobVars, settingVars, runVars, workerVars, srun, envVars>>

\* Insert what is missing, advance the cursor, release the lease, commit.
EnqueueBatch(s) ==
    LET n == srun[s]
        new == {Candidate(r, n) : r \in {q \in srows[s] : /\ jobState[Candidate(q, n)] = "none"
                                                          /\ <<q, runGen[n]>> \notin emb}}
    IN  /\ spc[s] = "reading"
        /\ srows[s] \subseteq revs
        /\ InsertJobs(new, [j \in new |-> runGen[n]],
                      {j \in new : JobMemory(j) \in withheld})
        /\ \E last \in {cursor[n]} \cup {Rank[r] : r \in srows[s]} :
              /\ \A r \in srows[s] : Rank[r] <= last
              /\ cursor' = [cursor EXCEPT ![n] = last]
        /\ scanned' = IF Cardinality(srows[s]) < BatchSize THEN scanned \cup {n} ELSE scanned
        /\ scanHolder' = [scanHolder EXCEPT ![n] = None]
        /\ scanLive' = scanLive \ {n}
        /\ ScanIdle(s)
        /\ UNCHANGED <<rowVars, settingVars, runState, runGen, workerVars, envVars>>

\* A row of the batch was purged meanwhile (its foreign key fails) or the
\* process dies: nothing is committed and the lease runs out.
ScanAborts(s) ==
    /\ spc[s] # "idle"
    /\ ScanIdle(s)
    /\ UNCHANGED <<rowVars, jobVars, settingVars, runVars, workerVars, envVars>>

\* The open transaction holds the row lock of its run, which claim_reindex skips.
ScanLeaseExpires(n) ==
    /\ n \in scanLive
    /\ \A s \in Scanner : spc[s] = "reading" => srun[s] # n
    /\ scanLive' = scanLive \ {n}
    /\ UNCHANGED <<rowVars, jobVars, settingVars, runState, runGen, cursor, scanned,
                   scanHolder, workerVars, scanVars, envVars>>

(***************************************************************************)
(* The connector's access and withheld files (037, 038, written by the     *)
(* connector code), and the restore of the backup of this state.           *)
(***************************************************************************)
AccessChanges ==
    /\ Sourced # {}
    /\ srcCurrent' = ~srcCurrent
    /\ UNCHANGED <<rowVars, jobVars, settingVars, runVars, workerVars, scanVars, withheld>>

Withhold(m) ==
    /\ m \in Sourced
    /\ memState[m] = "live"
    /\ withheld' = withheld \cup {m}
    /\ UNCHANGED <<rowVars, jobVars, settingVars, runVars, workerVars, scanVars, srcCurrent>>

Reread(m) ==
    /\ m \in withheld
    /\ withheld' = withheld \ {m}
    /\ UNCHANGED <<rowVars, jobVars, settingVars, runVars, workerVars, scanVars, srcCurrent>>

\* Isolated restore of a backup taken after the last transaction: deletions of
\* the ledger are carried out at once, leases are void, HTTP models and candidate
\* indexing wait for a new approval.  No worker of the old database goes on.
Restore ==
    LET gone == {m \in Memory : memState[m] \in {"deleted", "purged"}}
        cancel == {j \in Job : JobMemory(j) \in gone /\ jobState[j] \in Unfinished}
        leased == {j \in Job : jobState[j] = "leased"} \ cancel
    IN  /\ MayRestore
        /\ \A j \in leased : attempts[j] < AttemptBound
        /\ memState' = [m \in Memory |-> IF m \in gone THEN "purged" ELSE memState[m]]
        /\ revs' = {r \in revs : MemoryOf[r] \notin gone}
        /\ emb' = {e \in emb : MemoryOf[e[1]] \notin gone}
        /\ jobState' = [j \in Job |-> IF j \in cancel THEN "cancelled"
                                      ELSE IF j \in leased THEN "pending" ELSE jobState[j]]
        /\ opState' = [j \in Job |->
                         IF j \in PurgeJob /\ JobMemory(j) \in gone THEN "ready"
                         ELSE IF j \in cancel THEN "cancelled"
                         ELSE IF opState[j] = "indexing" THEN "accepted" ELSE opState[j]]
        /\ holder' = [j \in Job |-> None]
        /\ leaseLive' = {}
        /\ due' = due \cup leased
        /\ paused' = (paused \/ active \in HttpGen)
        /\ runState' = [n \in Run |-> IF runState[n] = "running" THEN "paused" ELSE runState[n]]
        /\ scanHolder' = [n \in Run |-> None]
        /\ scanLive' = {}
        /\ wpc' = [w \in Worker |-> "idle"]
        /\ wjob' = [w \in Worker |-> None]
        /\ spc' = [s \in Scanner |-> "idle"]
        /\ srun' = [s \in Scanner |-> None]
        /\ srows' = [s \in Scanner |-> {}]
        /\ srcCurrent' = (Sourced = {})
        /\ UNCHANGED <<jobGen, attempts, active, cand, runGen, cursor, scanned, withheld>>

-----------------------------------------------------------------------------
Api == \/ \E r \in Revision : Save(r) \/ Revise(r)
       \/ \E m \in Memory : Forget(m)
       \/ \E j \in Job : RetryOperation(j)

Administration ==
    \/ \E n \in Run : \/ \E g \in Gen : Start(n, g)
                      \/ Pause(n) \/ Resume(n) \/ RetryRun(n) \/ Cancel(n) \/ Activate(n)
    \/ ResumeProcessing

WorkerStep(w) ==
    \/ \E j \in PurgeJob : ClaimPurge(w, j)
    \/ \E j \in EmbedJob : ClaimEmbed(w, j)
    \/ LeaseLost(w) \/ Begin(w) \/ Publish(w) \/ PurgeStep(w)
    \/ FailAttempt(w) \/ BudgetReduced(w) \/ Crash(w)

ScannerStep(s) ==
    \/ \E n \in Run : ClaimScan(s, n)
    \/ ScanStops(s) \/ ScanBackpressure(s) \/ ReadBatch(s) \/ EnqueueBatch(s) \/ ScanAborts(s)

TimePasses == \/ \E j \in Job : LeaseExpires(j) \/ BecomesDue(j)
              \/ \E n \in Run : ScanLeaseExpires(n)

Environment == \/ AccessChanges
               \/ \E m \in Memory : Withhold(m) \/ Reread(m)
               \/ Restore

Next == \/ Api
        \/ Administration
        \/ \E w \in Worker : WorkerStep(w)
        \/ \E s \in Scanner : ScannerStep(s)
        \/ TimePasses
        \/ Environment

Spec == Init /\ [][Next]_vars

(***************************************************************************)
(* Fairness.  The worker loop polls for ever and a step it can take is     *)
(* taken; clocks advance.  claim_job takes the job that became available   *)
(* first, and a retried or deferred one becomes available later, so a job  *)
(* that is eligible again and again is claimed.  A publication, and a      *)
(* backfill commit, that can be made again and again is made: failures and *)
(* memory pressure pass.                                                   *)
(***************************************************************************)
Fairness ==
    /\ \A j \in PurgeJob : SF_vars(\E w \in Worker : ClaimPurge(w, j))
    /\ \A j \in EmbedJob : SF_vars(\E w \in Worker : ClaimEmbed(w, j))
    /\ \A w \in Worker :
          /\ WF_vars(LeaseLost(w) \/ Begin(w) \/ Publish(w) \/ PurgeStep(w))
          /\ SF_vars(Publish(w))
    /\ \A s \in Scanner :
          /\ \A n \in Run : WF_vars(ClaimScan(s, n))
          /\ WF_vars(ScanStops(s) \/ ScanBackpressure(s))
          /\ SF_vars(ReadBatch(s))
          /\ SF_vars(EnqueueBatch(s))
          /\ WF_vars(~(srows[s] \subseteq revs) /\ ScanAborts(s))
    /\ \A j \in Job : /\ WF_vars(~Working(j) /\ LeaseExpires(j))
                      /\ WF_vars(BecomesDue(j))
    /\ \A n \in Run : WF_vars(ScanLeaseExpires(n))

FairSpec == Spec /\ Fairness

-----------------------------------------------------------------------------
(***************************************************************************)
(* Properties                                                              *)
(***************************************************************************)

RowsOK ==
    /\ memState \in [Memory -> {"absent", "live", "deleted", "purged"}]
    /\ revs \subseteq Revision
    /\ emb \subseteq Revision \X Gen

JobsOK ==
    /\ jobState \in [Job -> {"none", "pending", "leased", "ready", "failed", "cancelled"}]
    /\ opState \in [Job -> {"none", "accepted", "indexing", "ready", "failed", "cancelled"}]
    /\ jobGen \in [Job -> Gen \cup {None}]
    /\ holder \in [Job -> Worker \cup {None}]
    /\ leaseLive \subseteq Job
    /\ due \subseteq Job
    /\ attempts \in [Job -> Nat]

SettingsOK == active \in Gen /\ cand \in Run \cup {None} /\ paused \in BOOLEAN

RunsOK ==
    /\ runState \in [Run -> {"none", "running", "paused", "cancelled", "activated"}]
    /\ runGen \in [Run -> Gen \cup {None}]
    /\ cursor \in [Run -> Nat]
    /\ scanned \subseteq Run
    /\ scanHolder \in [Run -> Scanner \cup {None}]
    /\ scanLive \subseteq Run

WorkersOK ==
    /\ wpc \in [Worker -> {"idle", "claimed", "infer"}]
    /\ wjob \in [Worker -> Job \cup {None}]

ScannersOK ==
    /\ spc \in [Scanner -> {"idle", "claimed", "reading"}]
    /\ srun \in [Scanner -> Run \cup {None}]
    /\ srows \in [Scanner -> SUBSET Revision]

EnvOK == srcCurrent \in BOOLEAN /\ withheld \subseteq Memory

\* Every row, and the local state of every process, keeps its type.
TypeOK == RowsOK /\ JobsOK /\ SettingsOK /\ RunsOK /\ WorkersOK /\ ScannersOK /\ EnvOK

\* No accepted revision is lost to semantic search: until its memory is deleted
\* it has vectors in the active index, or an ordinary job for exactly that index
\* is unfinished (memory._operation, control, the worker's policy, restore).
NoRevisionLost ==
    \A r \in LiveRevs :
        \/ <<r, active>> \in emb
        \/ jobState[Ordinary(r)] \in Unfinished /\ jobGen[Ordinary(r)] = active

\* The candidate misses nothing written while it is built, whatever its uuid:
\* each live revision is still ahead of the backfill cursor, or has candidate
\* vectors, or an unfinished candidate job (enqueue_candidate, run_once).
CandidateKeepsUp ==
    \A r \in LiveRevs : cand # None =>
        \/ cand \notin scanned /\ Rank[r] > cursor[cand]
        \/ <<r, runGen[cand]>> \in emb
        \/ jobState[Candidate(r, cand)] \in Unfinished

\* Unfinished embedding work of a live memory is never stranded: claim_job still
\* routes it once a pause is lifted, because cutover and cancellation close the
\* jobs of every index they deselect (_cancel_jobs).
NoStrandedWork ==
    \A j \in EmbedJob :
        jobState[j] \in Unfinished /\ memState[JobMemory(j)] = "live" =>
            IF j.run = None THEN jobGen[j] = active ELSE cand = j.run

\* What a client polls is true: an operation is ready only when its vectors are
\* published (until the memory is deleted), failed exactly when the job waits for
\* a reviewer, in progress exactly when the job is queued or leased; a purge is
\* ready only when the memory is erased.
OperationTellsTruth ==
    /\ \A j \in EmbedJob :
          /\ opState[j] = "ready" /\ memState[JobMemory(j)] = "live" => <<j.rev, jobGen[j]>> \in emb
          /\ opState[j] = "failed" <=> jobState[j] = "failed"
          /\ opState[j] \in {"accepted", "indexing"} <=> jobState[j] \in {"pending", "leased"}
    /\ \A m \in Memory : opState[Purge(m)] = "ready" => memState[m] = "purged"

\* A deletion proceeds to erasure and is complete: until a memory is erased its
\* purge job is unfinished, and an erased one has no revision and no vector
\* (forget_in_transaction, _purge, purge_memory, _reconcile_deletions).
DeletionProceeds ==
    \A m \in Memory :
        /\ memState[m] = "deleted" => jobState[Purge(m)] \in Unfinished
        /\ memState[m] = "purged" => /\ \A r \in revs : MemoryOf[r] # m
                                     /\ \A e \in emb : MemoryOf[e[1]] # m

\* Vectors are published only for a live revision and a selected index: the
\* active one or the candidate being built.  A worker whose run was cancelled
\* publishes nothing (docs/service/embeddings.md).
PublishesSelectedOnly ==
    [][\A e \in emb' \ emb :
          /\ e[1] \in LiveRevs
          /\ e[2] = active \/ (cand # None /\ e[2] = runGen[cand])]_vars

\* A final state stands: a ready or cancelled job never changes, a failed one
\* only by an explicit retry with a fresh budget, or by cancellation.  So a
\* worker that lost its lease writes nothing.
FinalStatesStand ==
    [][\A j \in Job :
          /\ jobState[j] \in {"ready", "cancelled"} => jobState'[j] = jobState[j]
          /\ jobState[j] = "failed" => \/ jobState'[j] \in {"failed", "cancelled"}
                                       \/ jobState'[j] = "pending" /\ attempts'[j] = 0]_vars

\* Every deletion ends: erased, or its purge waits for a reviewer's retry.
EveryDeletionEnds ==
    \A m \in Memory :
        memState[m] = "deleted" ~> memState[m] = "purged" \/ jobState[Purge(m)] = "failed"

\* Every accepted revision settles: when the space is not paused, its source
\* stays readable and inference is again and again possible, its ordinary job
\* becomes ready, failed (a reviewer's turn) or cancelled.
EveryRevisionSettles ==
    <>[](srcCurrent /\ withheld = {} /\ ~paused) =>
        \A r \in Revision :
            jobState[Ordinary(r)] = "pending" ~>
                jobState[Ordinary(r)] \in {"ready", "failed", "cancelled"}

\* What the API accepted comes to an end, deletions and revisions: the worker
\* loop polls for ever, takes over expired leases and spends a budget of attempts.
AcceptedWorkEnds == EveryDeletionEnds /\ EveryRevisionSettles

\* The backfill of a candidate that is left running completes its scan, or
\* stops at a backlog of failed jobs that only a retry can clear.
BackfillCompletes ==
    \A n \in Run :
        <>[](Running(n) /\ srcCurrent /\ withheld = {}) =>
            <>(n \in scanned \/ Cardinality({j \in RunJobs(n) : jobState[j] = "failed"}) >= PendingLimit)

=============================================================================
