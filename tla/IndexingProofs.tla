--------------------------- MODULE IndexingProofs ---------------------------
(***************************************************************************)
(* Theorems of Indexing, for every set of memories, revisions, models,     *)
(* runs, workers and scanners: its types, no revision is lost, operations  *)
(* tell the truth, it implements MemorySpace, deletions proceed, the       *)
(* candidate index keeps up and final states stand.                        *)
(***************************************************************************)
EXTENDS IndexingRefinement, FiniteSetTheorems, TLAPS

\* References between the rows and the local state of the processes: a queued
\* embed job names a generation, a selected run exists, a busy worker holds a
\* job (an embed job while it infers) and a busy scanner a run.
JobsNameGen == \A j \in EmbedJob : jobState[j] # "none" => jobGen[j] \in Gen
RunsNameGen == /\ \A n \in Run : runState[n] # "none" => runGen[n] \in Gen
               /\ cand # None => runState[cand] # "none"
BusyWorkers == \A w \in Worker : /\ wpc[w] # "idle" => wjob[w] \in Job
                                 /\ wpc[w] = "infer" => wjob[w] \in EmbedJob
BusyScanners == \A s \in Scanner : spc[s] # "idle" => srun[s] \in Run /\ runState[srun[s]] # "none"

TypeInv == TypeOK /\ JobsNameGen /\ RunsNameGen /\ BusyWorkers /\ BusyScanners

LEMMA JobFacts ==
    /\ \A r \in Revision : /\ Ordinary(r) \in EmbedJob
                           /\ Ordinary(r).kind = "embed"
                           /\ Ordinary(r).rev = r
                           /\ Ordinary(r).run = None
    /\ \A r \in Revision, n \in Run : /\ Candidate(r, n) \in EmbedJob
                                      /\ Candidate(r, n).run = n
    /\ \A m \in Memory : Purge(m) \in PurgeJob /\ Purge(m).mem = m /\ Purge(m).kind = "purge"
    /\ \A j \in EmbedJob : j.rev \in Revision /\ j.run \in Run \cup {None} /\ j.kind = "embed"
    /\ \A j \in PurgeJob : j.mem \in Memory /\ j.kind = "purge" /\ j \notin EmbedJob
    /\ EmbedJob \subseteq Job /\ PurgeJob \subseteq Job
    /\ \A j \in Job : j \in EmbedJob \/ j \in PurgeJob
  BY DEF Ordinary, Candidate, Purge, EmbedJob, PurgeJob, Job

LEMMA InitTypeInv == Init => TypeInv
<1> SUFFICES ASSUME Init PROVE TypeInv
  OBVIOUS
<1>1. RowsOK
  BY DEF Init, RowsOK
<1>2. JobsOK /\ JobsNameGen
  BY JobFacts DEF Init, JobsOK, JobsNameGen
<1>3. SettingsOK
  BY ConstantAssumption DEF Init, SettingsOK
<1>4. RunsOK /\ RunsNameGen
  BY DEF Init, RunsOK, RunsNameGen
<1>5. WorkersOK /\ BusyWorkers
  BY DEF Init, WorkersOK, BusyWorkers
<1>6. ScannersOK /\ BusyScanners
  BY DEF Init, ScannersOK, BusyScanners
<1>7. EnvOK
  BY DEF Init, EnvOK
<1> QED
  BY <1>1, <1>2, <1>3, <1>4, <1>5, <1>6, <1>7 DEF TypeInv, TypeOK

(***************************************************************************)
(* Groups of variables that a step leaves alone.                           *)
(***************************************************************************)
LEMMA RowsKept == ASSUME RowsOK, UNCHANGED rowVars PROVE RowsOK'
  BY DEF RowsOK, rowVars
LEMMA JobsKept == ASSUME JobsOK, JobsNameGen, UNCHANGED jobVars PROVE JobsOK' /\ JobsNameGen'
  BY DEF JobsOK, JobsNameGen, jobVars
LEMMA SettingsKept == ASSUME SettingsOK, UNCHANGED settingVars PROVE SettingsOK'
  BY DEF SettingsOK, settingVars
LEMMA RunsKept == ASSUME RunsOK, UNCHANGED runVars PROVE RunsOK'
  BY DEF RunsOK, runVars
LEMMA RunNamesKept ==
  ASSUME RunsNameGen, UNCHANGED <<runState, runGen, cand>> PROVE RunsNameGen'
  BY DEF RunsNameGen
LEMMA WorkersKept == ASSUME WorkersOK, BusyWorkers, UNCHANGED workerVars
                     PROVE WorkersOK' /\ BusyWorkers'
  BY DEF WorkersOK, BusyWorkers, workerVars
LEMMA ScannersKept == ASSUME ScannersOK, BusyScanners, UNCHANGED scanVars, 
                             \A n \in Run : runState[n] # "none" => runState'[n] # "none"
                      PROVE ScannersOK' /\ BusyScanners'
  BY DEF ScannersOK, BusyScanners, scanVars
LEMMA EnvKept == ASSUME EnvOK, UNCHANGED envVars PROVE EnvOK'
  BY DEF EnvOK, envVars

(***************************************************************************)
(* Row updates.                                                            *)
(***************************************************************************)
LEMMA InsertJobsType ==
  ASSUME JobsOK, JobsNameGen, NEW js \in SUBSET EmbedJob, NEW gen \in [js -> Gen],
         NEW late \in SUBSET Job, InsertJobs(js, gen, late)
  PROVE  JobsOK' /\ JobsNameGen'
  BY JobFacts DEF JobsOK, JobsNameGen, InsertJobs

LEMMA CloseJobsType ==
  ASSUME JobsOK, NEW js \in SUBSET Job, NEW st \in {"pending", "ready", "failed", "cancelled"},
         NEW ost \in {"none", "accepted", "indexing", "ready", "failed", "cancelled"},
         CloseJobs(js, st, ost),
         JobsNameGen, jobGen' = jobGen, \A j \in js : jobState[j] # "none",
         due' \subseteq Job, attempts' \in [Job -> Nat]
  PROVE  JobsOK' /\ JobsNameGen'
  BY JobFacts DEF JobsOK, JobsNameGen, CloseJobs

LEMMA FinishType ==
  ASSUME JobsOK, JobsNameGen, NEW j \in Job, jobState[j] # "none",
         NEW st \in {"ready", "failed", "cancelled"}, Finish(j, st)
  PROVE  JobsOK' /\ JobsNameGen'
  BY CloseJobsType DEF Finish, JobsOK

LEMMA GiveBackType ==
  ASSUME JobsOK, JobsNameGen, NEW j \in Job, jobState[j] # "none",
         NEW ost \in {"none", "accepted", "indexing", "ready", "failed", "cancelled"}, NEW d \in BOOLEAN,
         GiveBack(j, ost, d)
  PROVE  JobsOK' /\ JobsNameGen'
<1>1. due' \subseteq Job /\ attempts' \in [Job -> Nat]
  BY DEF GiveBack, JobsOK
<1> QED
  BY <1>1, CloseJobsType DEF GiveBack

LEMMA RequeueType ==
  ASSUME JobsOK, JobsNameGen, RowsOK, NEW js \in SUBSET Job, Requeue(js),
         \A j \in js : jobState[j] # "none"
  PROVE  JobsOK' /\ JobsNameGen' /\ RowsOK'
<1>1. RowsOK'
  BY RowsKept DEF Requeue, rowVars
<1>2. JobsOK' /\ JobsNameGen'
  BY JobFacts DEF Requeue, JobsOK, JobsNameGen, rowVars
<1> QED
  BY <1>1, <1>2

LEMMA CancelJobsType ==
  ASSUME JobsOK, JobsNameGen, NEW js \in SUBSET Job, CancelJobs(js)
  PROVE  JobsOK' /\ JobsNameGen'
<1> DEFINE ks == {j \in js : jobState[j] \in Unfinished}
<1>1. ks \in SUBSET Job /\ \A j \in ks : jobState[j] # "none"
  BY DEF Unfinished
<1>2. CloseJobs(ks, "cancelled", "cancelled") /\ UNCHANGED <<jobGen, due, attempts>>
  BY DEF CancelJobs
<1>3. due' \subseteq Job /\ attempts' \in [Job -> Nat]
  BY <1>2 DEF JobsOK
<1> HIDE DEF ks
<1> QED
  BY <1>1, <1>2, <1>3, CloseJobsType


(***************************************************************************)
(* A step that leaves the settings, the runs, the processes and the        *)
(* environment alone only has to keep the rows and the jobs.               *)
(***************************************************************************)
LEMMA RowsAndJobs ==
  ASSUME TypeInv, RowsOK', JobsOK', JobsNameGen',
         UNCHANGED <<settingVars, runVars, workerVars, scanVars, envVars>>
  PROVE  TypeInv'
<1>1. UNCHANGED settingVars /\ UNCHANGED runVars /\ UNCHANGED workerVars
      /\ UNCHANGED scanVars /\ UNCHANGED envVars
  OBVIOUS
<1>2. UNCHANGED <<runState, runGen, cand>>
  BY DEF settingVars, runVars
<1> QED
  BY <1>1, <1>2, SettingsKept, RunsKept, RunNamesKept, WorkersKept, ScannersKept, EnvKept
  DEF TypeInv, TypeOK

(***************************************************************************)
(* API and administration preserve the types.                              *)
(***************************************************************************)
LEMMA AcceptType ==
  ASSUME TypeInv, NEW r \in Revision, Accept(r),
         memState' \in [Memory -> {"absent", "live", "deleted", "purged"}]
  PROVE  TypeInv'
<1> DEFINE js == {Ordinary(r)} \cup (IF cand = None THEN {} ELSE {Candidate(r, cand)})
           gen == [j \in js |-> IF j.run = None THEN active ELSE runGen[j.run]]
<1>1. js \in SUBSET EmbedJob /\ \A j \in js : j.run = None \/ (cand # None /\ j.run = cand)
  BY JobFacts DEF TypeInv, TypeOK, SettingsOK
<1>2. gen \in [js -> Gen]
  BY <1>1 DEF TypeInv, TypeOK, SettingsOK, RunsNameGen
<1>3. InsertJobs(js, gen, {})
  BY DEF Accept
<1> HIDE DEF js, gen
<1>4. JobsOK' /\ JobsNameGen'
  BY <1>1, <1>2, <1>3, InsertJobsType DEF TypeInv, TypeOK
<1>5. RowsOK'
  BY DEF Accept, TypeInv, TypeOK, RowsOK
<1>6. UNCHANGED <<settingVars, runVars, workerVars, scanVars, envVars>>
  BY DEF Accept
<1> QED
  BY <1>4, <1>5, <1>6, RowsAndJobs

LEMMA ApiType == ASSUME TypeInv, Api PROVE TypeInv'
<1>1. ASSUME NEW r \in Revision, Save(r) PROVE TypeInv'
  BY <1>1, AcceptType, ConstantAssumption DEF Save, TypeInv, TypeOK, RowsOK
<1>2. ASSUME NEW r \in Revision, Revise(r) PROVE TypeInv'
  BY <1>2, AcceptType DEF Revise, TypeInv, TypeOK, RowsOK
<1>3. ASSUME NEW m \in Memory, Forget(m) PROVE TypeInv'
  <2>1. RowsOK'
    BY <1>3 DEF Forget, TypeInv, TypeOK, RowsOK
  <2>2. JobsOK' /\ JobsNameGen'
    BY <1>3, JobFacts DEF Forget, TypeInv, TypeOK, JobsOK, JobsNameGen, Unfinished, JobsOf
  <2> QED
    BY <1>3, <2>1, <2>2, RowsAndJobs DEF Forget
<1>4. ASSUME NEW j \in Job, RetryOperation(j) PROVE TypeInv'
  <2> DEFINE js == {j} \cap {k \in Job : jobState[k] = "failed"}
  <2>1. js \in SUBSET Job /\ \A k \in js : jobState[k] # "none"
    OBVIOUS
  <2>2. Requeue(js) /\ UNCHANGED <<settingVars, runVars, workerVars, scanVars, envVars>>
    BY <1>4 DEF RetryOperation
  <2> HIDE DEF js
  <2> QED
    BY <2>1, <2>2, RequeueType, RowsAndJobs DEF TypeInv, TypeOK
<1> QED
  BY <1>1, <1>2, <1>3, <1>4 DEF Api

LEMMA AdministrationType == ASSUME TypeInv, Administration PROVE TypeInv'
<1>1. ASSUME NEW n \in Run, NEW g \in Gen, Start(n, g) PROVE TypeInv'
  <2>1. UNCHANGED rowVars /\ UNCHANGED jobVars /\ UNCHANGED workerVars
        /\ UNCHANGED scanVars /\ UNCHANGED envVars
    BY <1>1 DEF Start
  <2>2. SettingsOK' /\ RunsOK' /\ RunsNameGen'
    BY <1>1, ConstantAssumption DEF Start, TypeInv, TypeOK, SettingsOK, RunsOK, RunsNameGen
  <2>3. \A k \in Run : runState[k] # "none" => runState'[k] # "none"
    BY <1>1 DEF Start, TypeInv, TypeOK, RunsOK
  <2> QED
    BY <2>1, <2>2, <2>3, RowsKept, JobsKept, WorkersKept, ScannersKept, EnvKept DEF TypeInv, TypeOK
<1>2. ASSUME NEW n \in Run, NEW st \in {"running", "paused"}, SetRunState(n, st) PROVE TypeInv'
  <2>1. UNCHANGED rowVars /\ UNCHANGED jobVars /\ UNCHANGED settingVars /\ UNCHANGED workerVars
        /\ UNCHANGED scanVars /\ UNCHANGED envVars
    BY <1>2 DEF SetRunState
  <2>2. cand = n /\ n # None
    BY <1>2, ConstantAssumption DEF SetRunState
  <2>3. RunsOK' /\ RunsNameGen' /\ \A k \in Run : runState[k] # "none" => runState'[k] # "none"
    BY <1>2, <2>1, <2>2 DEF SetRunState, TypeInv, TypeOK, RunsOK, RunsNameGen, settingVars
  <2> QED
    BY <2>1, <2>3, RowsKept, JobsKept, SettingsKept, WorkersKept, ScannersKept, EnvKept
    DEF TypeInv, TypeOK
<1>3. ASSUME NEW n \in Run, RetryRun(n) PROVE TypeInv'
  <2> DEFINE js == {j \in RunJobs(n) : jobState[j] = "failed"}
  <2>1. js \in SUBSET Job /\ \A k \in js : jobState[k] # "none"
    BY JobFacts DEF RunJobs
  <2>2. Requeue(js) /\ UNCHANGED <<settingVars, runVars, workerVars, scanVars, envVars>>
    BY <1>3 DEF RetryRun
  <2> HIDE DEF js
  <2> QED
    BY <2>1, <2>2, RequeueType, RowsAndJobs DEF TypeInv, TypeOK
<1>4. ASSUME NEW n \in Run, Cancel(n) PROVE TypeInv'
  <2>1. UNCHANGED rowVars /\ UNCHANGED workerVars /\ UNCHANGED scanVars /\ UNCHANGED envVars
    BY <1>4 DEF Cancel
  <2>2. RunJobs(n) \in SUBSET Job /\ CancelJobs(RunJobs(n))
    BY <1>4, JobFacts DEF RunJobs, Cancel
  <2>3. JobsOK' /\ JobsNameGen'
    BY <2>2, CancelJobsType DEF TypeInv, TypeOK
  <2>4. SettingsOK' /\ RunsOK' /\ RunsNameGen'
        /\ \A k \in Run : runState[k] # "none" => runState'[k] # "none"
    BY <1>4, ConstantAssumption DEF Cancel, TypeInv, TypeOK, SettingsOK, RunsOK, RunsNameGen
  <2> QED
    BY <2>1, <2>3, <2>4, RowsKept, WorkersKept, ScannersKept, EnvKept DEF TypeInv, TypeOK
<1>5. ASSUME NEW n \in Run, Activate(n) PROVE TypeInv'
  <2>1. UNCHANGED rowVars /\ UNCHANGED workerVars /\ UNCHANGED scanVars /\ UNCHANGED envVars
    BY <1>5 DEF Activate
  <2> DEFINE js == {j \in EmbedJob : jobGen[j] = active}
  <2>2. js \in SUBSET Job /\ CancelJobs(js)
    BY <1>5, JobFacts DEF Activate
  <2> HIDE DEF js
  <2>3. JobsOK' /\ JobsNameGen'
    BY <2>2, CancelJobsType DEF TypeInv, TypeOK
  <2>4. cand = n /\ n # None
    BY <1>5, ConstantAssumption DEF Activate
  <2>5. SettingsOK' /\ RunsOK' /\ RunsNameGen'
        /\ \A k \in Run : runState[k] # "none" => runState'[k] # "none"
    BY <1>5, <2>4 DEF Activate, TypeInv, TypeOK, SettingsOK, RunsOK, RunsNameGen
  <2> QED
    BY <2>1, <2>3, <2>5, RowsKept, WorkersKept, ScannersKept, EnvKept DEF TypeInv, TypeOK
<1>6. ASSUME ResumeProcessing PROVE TypeInv'
  <2>1. UNCHANGED rowVars /\ UNCHANGED jobVars /\ UNCHANGED runVars /\ UNCHANGED workerVars
        /\ UNCHANGED scanVars /\ UNCHANGED envVars
    BY <1>6 DEF ResumeProcessing
  <2>2. SettingsOK' /\ UNCHANGED <<runState, runGen, cand>>
    BY <1>6 DEF ResumeProcessing, TypeInv, TypeOK, SettingsOK, runVars
  <2> QED
    BY <2>1, <2>2, RowsKept, JobsKept, RunsKept, RunNamesKept, WorkersKept, ScannersKept, EnvKept
    DEF TypeInv, TypeOK
<1> QED
  BY <1>1, <1>2, <1>3, <1>4, <1>5, <1>6 DEF Administration, Pause, Resume

(***************************************************************************)
(* Workers, scanners, time and the environment preserve the types.         *)
(***************************************************************************)
LEMMA ToIdleType ==
  ASSUME WorkersOK, BusyWorkers, NEW w \in Worker, ToIdle(w) PROVE WorkersOK' /\ BusyWorkers'
  BY DEF WorkersOK, BusyWorkers, ToIdle

\* A worker step keeps settings, runs, scanners and environment.
LEMMA WorkerFrame ==
  ASSUME TypeInv, RowsOK', JobsOK', JobsNameGen', WorkersOK', BusyWorkers',
         UNCHANGED <<settingVars, runVars, scanVars, envVars>>
  PROVE  TypeInv'
<1>1. UNCHANGED settingVars /\ UNCHANGED runVars /\ UNCHANGED scanVars /\ UNCHANGED envVars
  OBVIOUS
<1>2. UNCHANGED <<runState, runGen, cand>>
  BY DEF settingVars, runVars
<1> QED
  BY <1>1, <1>2, SettingsKept, RunsKept, RunNamesKept, ScannersKept, EnvKept DEF TypeInv, TypeOK

LEMMA LeaseType ==
  ASSUME TypeInv, NEW w \in Worker, NEW j \in Job, jobState[j] # "none", Lease(w, j) PROVE TypeInv'
<1>1. RowsOK'
  BY RowsKept DEF Lease, TypeInv, TypeOK
<1>2. JobsOK' /\ JobsNameGen'
  BY JobFacts DEF Lease, TypeInv, TypeOK, JobsOK, JobsNameGen
<1>3. WorkersOK' /\ BusyWorkers'
  BY DEF Lease, TypeInv, TypeOK, WorkersOK, BusyWorkers
<1> QED
  BY <1>1, <1>2, <1>3, WorkerFrame DEF Lease

LEMMA PolicyStopsType ==
  ASSUME TypeInv, NEW j \in Job, jobState[j] # "none", NEW f \in BOOLEAN,
         PolicyStops(j, f)
  PROVE  JobsOK' /\ JobsNameGen'
<1>1. opState[j] \in {"none", "accepted", "indexing", "ready", "failed", "cancelled"}
  BY DEF TypeInv, TypeOK, JobsOK
<1>2. CASE Obsolete(j)
  BY <1>2, FinishType DEF PolicyStops, TypeInv, TypeOK
<1>3. CASE ~Obsolete(j) /\ Waits(j, f)
  BY <1>1, <1>3, GiveBackType DEF PolicyStops, TypeInv, TypeOK
<1>4. CASE ~Obsolete(j) /\ ~Waits(j, f)
  BY <1>4, GiveBackType DEF PolicyStops, TypeInv, TypeOK
<1> QED
  BY <1>2, <1>3, <1>4

LEMMA WorkerType == ASSUME TypeInv, NEW w \in Worker, WorkerStep(w) PROVE TypeInv'
<1> DEFINE j == wjob[w]
<1>0. Owned(w) /\ wpc[w] # "idle" => j \in Job /\ jobState[j] # "none"
  BY DEF Owned, TypeInv, BusyWorkers
<1>1. ASSUME NEW k \in PurgeJob, ClaimPurge(w, k) PROVE TypeInv'
  BY <1>1, JobFacts, LeaseType DEF ClaimPurge, Eligible
<1>2. ASSUME NEW k \in EmbedJob, ClaimEmbed(w, k) PROVE TypeInv'
  BY <1>2, JobFacts, LeaseType DEF ClaimEmbed, Eligible
<1>3. CASE LeaseLost(w)
  <2>1. RowsOK' /\ JobsOK' /\ JobsNameGen'
    BY <1>3, RowsKept, JobsKept DEF LeaseLost, TypeInv, TypeOK
  <2> QED
    BY <1>3, <2>1, ToIdleType, WorkerFrame DEF LeaseLost, TypeInv, TypeOK
<1>4. CASE Begin(w)
  <2>1. RowsOK' /\ UNCHANGED <<settingVars, runVars, scanVars, envVars>>
    BY <1>4, RowsKept DEF Begin, TypeInv, TypeOK
  <2>2. j \in Job /\ j \in EmbedJob /\ jobState[j] # "none"
    BY <1>0, <1>4 DEF Begin
  <2>3. CASE Allowed(j, FALSE) /\ Readable(j)
    <3>1. JobsOK' /\ JobsNameGen'
      BY <1>4, <2>2, <2>3 DEF Begin, TypeInv, TypeOK, JobsOK, JobsNameGen
    <3>2. WorkersOK' /\ BusyWorkers'
      BY <1>4, <2>2, <2>3 DEF Begin, TypeInv, TypeOK, WorkersOK, BusyWorkers
    <3> QED
      BY <2>1, <3>1, <3>2, WorkerFrame
  <2>4. CASE ~(Allowed(j, FALSE) /\ Readable(j))
    <3>1. ToIdle(w) /\ (PolicyStops(j, FALSE) \/ Finish(j, "cancelled"))
      BY <1>4, <2>4 DEF Begin
    <3>2. JobsOK' /\ JobsNameGen'
      BY <2>2, <3>1, PolicyStopsType, FinishType DEF TypeInv, TypeOK
    <3> QED
      BY <2>1, <3>1, <3>2, ToIdleType, WorkerFrame DEF TypeInv, TypeOK
  <2> QED
    BY <2>3, <2>4
<1>5. CASE Publish(w)
  <2>1. ToIdle(w) /\ UNCHANGED <<settingVars, runVars, scanVars, envVars>>
    BY <1>5 DEF Publish
  <2>2. j \in Job /\ j \in EmbedJob /\ jobState[j] # "none"
    <3>1. wpc[w] = "infer" /\ Owned(w)
      BY <1>5 DEF Publish
    <3> QED
      BY <1>0, <3>1 DEF TypeInv, BusyWorkers
  <2>3. jobGen[j] \in Gen /\ j.rev \in Revision
    BY <2>2, JobFacts DEF TypeInv, JobsNameGen
  <2>4. RowsOK'
    <3>1. /\ emb' = emb \/ emb' = emb \cup {<<j.rev, jobGen[j]>>}
          /\ UNCHANGED <<memState, revs>>
      BY <1>5 DEF Publish
    <3> HIDE DEF j
    <3> QED
      BY <2>3, <3>1 DEF TypeInv, TypeOK, RowsOK
  <2>5. PolicyStops(j, TRUE) \/ Finish(j, "cancelled") \/ Finish(j, "ready")
    BY <1>5 DEF Publish
  <2>6. JobsOK' /\ JobsNameGen'
    BY <2>2, <2>5, PolicyStopsType, FinishType DEF TypeInv, TypeOK
  <2> QED
    BY <2>1, <2>4, <2>6, ToIdleType, WorkerFrame DEF TypeInv, TypeOK
<1>6. CASE PurgeStep(w)
  <2>1. ToIdle(w) /\ UNCHANGED <<settingVars, runVars, scanVars, envVars>>
    BY <1>6 DEF PurgeStep
  <2>2. j \in Job /\ jobState[j] # "none" /\ j.mem \in Memory
    BY <1>0, <1>6, JobFacts DEF PurgeStep
  <2>3. RowsOK'
    BY <1>6, <2>2 DEF PurgeStep, TypeInv, TypeOK, RowsOK, rowVars
  <2>4. Finish(j, "cancelled") \/ Finish(j, "ready")
    BY <1>6 DEF PurgeStep
  <2>5. JobsOK' /\ JobsNameGen'
    BY <2>2, <2>4, FinishType DEF TypeInv, TypeOK
  <2> QED
    BY <2>1, <2>3, <2>5, ToIdleType, WorkerFrame DEF TypeInv, TypeOK
<1>7. CASE FailAttempt(w)
  <2>1. ToIdle(w) /\ RowsOK' /\ UNCHANGED <<settingVars, runVars, scanVars, envVars>>
    BY <1>7, RowsKept DEF FailAttempt, TypeInv, TypeOK
  <2>2. j \in Job /\ jobState[j] # "none"
    BY <1>0, <1>7 DEF FailAttempt
  <2>3. CloseJobs({j}, "failed", "failed") \/ CloseJobs({j}, "pending", "accepted")
    BY <1>7 DEF FailAttempt
  <2>4. jobGen' = jobGen /\ due' \subseteq Job /\ attempts' \in [Job -> Nat]
    BY <1>7 DEF FailAttempt, TypeInv, TypeOK, JobsOK
  <2>5. JobsOK' /\ JobsNameGen'
    BY <2>2, <2>3, <2>4, CloseJobsType DEF TypeInv, TypeOK
  <2> QED
    BY <2>1, <2>5, ToIdleType, WorkerFrame DEF TypeInv, TypeOK
<1>8. CASE BudgetReduced(w)
  <2>1. ToIdle(w) /\ RowsOK' /\ UNCHANGED <<settingVars, runVars, scanVars, envVars>>
    BY <1>8, RowsKept DEF BudgetReduced, TypeInv, TypeOK
  <2>2. JobsOK' /\ JobsNameGen'
    BY <1>0, <1>8, GiveBackType DEF BudgetReduced, TypeInv, TypeOK
  <2> QED
    BY <2>1, <2>2, ToIdleType, WorkerFrame DEF TypeInv, TypeOK
<1>9. CASE Crash(w)
  <2>1. RowsOK' /\ JobsOK' /\ JobsNameGen'
    BY <1>9, RowsKept, JobsKept DEF Crash, TypeInv, TypeOK
  <2> QED
    BY <1>9, <2>1, ToIdleType, WorkerFrame DEF Crash, TypeInv, TypeOK
<1> QED
  BY <1>1, <1>2, <1>3, <1>4, <1>5, <1>6, <1>7, <1>8, <1>9 DEF WorkerStep

LEMMA ScanIdleType ==
  ASSUME ScannersOK, BusyScanners, NEW s \in Scanner, ScanIdle(s), runState' = runState
  PROVE  ScannersOK' /\ BusyScanners'
  BY DEF ScannersOK, BusyScanners, ScanIdle

\* A scanner step keeps rows, settings, workers, environment and run identities.
LEMMA ScannerFrame ==
  ASSUME TypeInv, JobsOK', JobsNameGen', RunsOK', ScannersOK', BusyScanners',
         UNCHANGED <<rowVars, settingVars, runState, runGen, workerVars, envVars>>
  PROVE  TypeInv'
<1>1. UNCHANGED rowVars /\ UNCHANGED settingVars /\ UNCHANGED workerVars /\ UNCHANGED envVars
      /\ UNCHANGED <<runState, runGen>>
  OBVIOUS
<1>2. UNCHANGED <<runState, runGen, cand>>
  BY <1>1 DEF settingVars
<1> QED
  BY <1>1, <1>2, RowsKept, SettingsKept, RunNamesKept, WorkersKept, EnvKept DEF TypeInv, TypeOK

LEMMA ScannerType == ASSUME TypeInv, NEW s \in Scanner, ScannerStep(s) PROVE TypeInv'
<1> DEFINE n == srun[s]
<1>0. spc[s] # "idle" => n \in Run /\ runState[n] # "none" /\ runGen[n] \in Gen
  BY DEF TypeInv, BusyScanners, RunsNameGen
<1>1. ASSUME NEW k \in Run, ClaimScan(s, k) PROVE TypeInv'
  <2>1. JobsOK' /\ JobsNameGen'
    BY <1>1, JobsKept DEF ClaimScan, TypeInv, TypeOK
  <2>2. RunsOK' /\ ScannersOK' /\ BusyScanners'
    BY <1>1 DEF ClaimScan, TypeInv, TypeOK, RunsOK, ScannersOK, BusyScanners
  <2> QED
    BY <1>1, <2>1, <2>2, ScannerFrame DEF ClaimScan
<1>2. ASSUME ScanIdle(s), UNCHANGED <<rowVars, jobVars, settingVars, runVars, workerVars, envVars>>
      PROVE  TypeInv'
  <2>1. JobsOK' /\ JobsNameGen' /\ RunsOK'
    BY <1>2, JobsKept, RunsKept DEF TypeInv, TypeOK
  <2>2. UNCHANGED <<runState, runGen>>
    BY <1>2 DEF runVars
  <2> QED
    BY <1>2, <2>1, <2>2, ScanIdleType, ScannerFrame DEF TypeInv, TypeOK
<1>3. CASE ScanBackpressure(s)
  <2>1. JobsOK' /\ JobsNameGen'
    BY <1>3, JobsKept DEF ScanBackpressure, TypeInv, TypeOK
  <2>2. RunsOK'
    BY <1>3 DEF ScanBackpressure, TypeInv, TypeOK, RunsOK
  <2> QED
    BY <1>3, <2>1, <2>2, ScanIdleType, ScannerFrame DEF ScanBackpressure, TypeInv, TypeOK
<1>4. CASE ReadBatch(s)
  <2>1. JobsOK' /\ JobsNameGen' /\ RunsOK' /\ UNCHANGED <<runState, runGen>>
    BY <1>4, JobsKept, RunsKept DEF ReadBatch, TypeInv, TypeOK, runVars
  <2>2. BatchAfter(cursor[n]) \subseteq Revision
    BY DEF BatchAfter, LiveRevs, TypeInv, TypeOK, RowsOK
  <2>3. ScannersOK' /\ BusyScanners'
    BY <1>0, <1>4, <2>1, <2>2 DEF ReadBatch, TypeInv, TypeOK, ScannersOK, BusyScanners
  <2> QED
    BY <1>4, <2>1, <2>3, ScannerFrame DEF ReadBatch
<1>5. CASE EnqueueBatch(s)
  <2>1. n \in Run /\ runGen[n] \in Gen /\ srows[s] \subseteq Revision
    BY <1>0, <1>5 DEF EnqueueBatch, TypeInv, TypeOK, ScannersOK
  <2> DEFINE new == {Candidate(r, n) : r \in {q \in srows[s] : /\ jobState[Candidate(q, n)] = "none"
                                                               /\ <<q, runGen[n]>> \notin emb}}
             gen == [j \in new |-> runGen[n]]
             late == {j \in new : JobMemory(j) \in withheld}
  <2>2. InsertJobs(new, gen, late)
    BY <1>5 DEF EnqueueBatch
  <2>3. new \in SUBSET EmbedJob
    <3>1. SUFFICES ASSUME NEW j \in new PROVE j \in EmbedJob
      OBVIOUS
    <3>2. PICK r \in srows[s] : j = Candidate(r, n)
      OBVIOUS
    <3> HIDE DEF n, new
    <3> QED
      BY <2>1, <3>2, JobFacts
  <2> HIDE DEF new
  <2>4. gen \in [new -> Gen] /\ late \in SUBSET Job
    BY <2>1, <2>3, JobFacts
  <2> HIDE DEF gen, late
  <2>5. JobsOK' /\ JobsNameGen'
    BY <2>2, <2>3, <2>4, InsertJobsType DEF TypeInv, TypeOK
  <2>6. PICK last \in {cursor[n]} \cup {Rank[r] : r \in srows[s]} :
              cursor' = [cursor EXCEPT ![n] = last]
    BY <1>5 DEF EnqueueBatch
  <2>7. last \in Nat
    BY <2>1, <2>6, ConstantAssumption DEF TypeInv, TypeOK, RunsOK
  <2>8. /\ scanned' \in {scanned, scanned \cup {n}}
        /\ scanHolder' = [scanHolder EXCEPT ![n] = None]
        /\ scanLive' = scanLive \ {n}
        /\ ScanIdle(s)
        /\ UNCHANGED <<rowVars, settingVars, runState, runGen, workerVars, envVars>>
    BY <1>5 DEF EnqueueBatch
  <2>9. RunsOK'
    <3> HIDE DEF n
    <3> QED
      BY <2>1, <2>6, <2>7, <2>8 DEF TypeInv, TypeOK, RunsOK
  <2> QED
    BY <2>5, <2>8, <2>9, ScanIdleType, ScannerFrame DEF TypeInv, TypeOK
<1> QED
  BY <1>1, <1>2, <1>3, <1>4, <1>5 DEF ScannerStep, ScanStops, ScanAborts

LEMMA TimeType == ASSUME TypeInv, TimePasses PROVE TypeInv'
<1>1. ASSUME NEW j \in Job, LeaseExpires(j) \/ BecomesDue(j) PROVE TypeInv'
  <2>1. RowsOK' /\ UNCHANGED <<settingVars, runVars, workerVars, scanVars, envVars>>
    BY <1>1, RowsKept DEF LeaseExpires, BecomesDue, TypeInv, TypeOK
  <2>2. JobsOK' /\ JobsNameGen'
    BY <1>1 DEF LeaseExpires, BecomesDue, TypeInv, TypeOK, JobsOK, JobsNameGen
  <2> QED
    BY <2>1, <2>2, RowsAndJobs
<1>2. ASSUME NEW n \in Run, ScanLeaseExpires(n) PROVE TypeInv'
  <2>1. JobsOK' /\ JobsNameGen'
    BY <1>2, JobsKept DEF ScanLeaseExpires, TypeInv, TypeOK
  <2>2. RunsOK'
    BY <1>2 DEF ScanLeaseExpires, TypeInv, TypeOK, RunsOK
  <2>3. ScannersOK' /\ BusyScanners'
    BY <1>2, ScannersKept DEF ScanLeaseExpires, TypeInv, TypeOK
  <2> QED
    BY <1>2, <2>1, <2>2, <2>3, ScannerFrame DEF ScanLeaseExpires
<1> QED
  BY <1>1, <1>2 DEF TimePasses

LEMMA RestoreType == ASSUME TypeInv, Restore PROVE TypeInv'
<1>1. RowsOK'
  BY DEF Restore, TypeInv, TypeOK, RowsOK
<1>2. JobsOK' /\ JobsNameGen'
  BY JobFacts DEF Restore, TypeInv, TypeOK, JobsOK, JobsNameGen, Unfinished
<1>3. SettingsOK'
  BY DEF Restore, TypeInv, TypeOK, SettingsOK
<1>4. RunsOK' /\ RunsNameGen'
  BY ConstantAssumption DEF Restore, TypeInv, TypeOK, SettingsOK, RunsOK, RunsNameGen
<1>5. WorkersOK' /\ BusyWorkers'
  BY DEF Restore, WorkersOK, BusyWorkers
<1>6. ScannersOK' /\ BusyScanners'
  BY DEF Restore, ScannersOK, BusyScanners
<1>7. EnvOK'
  BY DEF Restore, TypeInv, TypeOK, EnvOK
<1> QED
  BY <1>1, <1>2, <1>3, <1>4, <1>5, <1>6, <1>7 DEF TypeInv, TypeOK

LEMMA EnvironmentType == ASSUME TypeInv, Environment PROVE TypeInv'
<1>1. ASSUME AccessChanges \/ \E m \in Memory : Withhold(m) \/ Reread(m) PROVE TypeInv'
  <2>1. UNCHANGED rowVars /\ UNCHANGED jobVars /\ UNCHANGED settingVars /\ UNCHANGED runVars
        /\ UNCHANGED workerVars /\ UNCHANGED scanVars
    BY <1>1 DEF AccessChanges, Withhold, Reread
  <2>2. UNCHANGED <<runState, runGen, cand>>
    BY <2>1 DEF runVars, settingVars
  <2>3. EnvOK'
    BY <1>1 DEF AccessChanges, Withhold, Reread, TypeInv, TypeOK, EnvOK
  <2> QED
    BY <2>1, <2>2, <2>3, RowsKept, JobsKept, SettingsKept, RunsKept, RunNamesKept, WorkersKept,
       ScannersKept DEF TypeInv, TypeOK
<1> QED
  BY <1>1, RestoreType DEF Environment

LEMMA StepType == TypeInv /\ [Next]_vars => TypeInv'
<1> SUFFICES ASSUME TypeInv, [Next]_vars PROVE TypeInv'
  OBVIOUS
<1>1. CASE UNCHANGED vars
  <2>1. UNCHANGED rowVars /\ UNCHANGED jobVars /\ UNCHANGED <<settingVars, runVars, workerVars, scanVars, envVars>>
    BY <1>1 DEF vars
  <2> QED
    BY <2>1, RowsKept, JobsKept, RowsAndJobs DEF TypeInv, TypeOK
<1> QED
  BY <1>1, ApiType, AdministrationType, WorkerType, ScannerType, TimeType, EnvironmentType DEF Next

\* Every row and the local state of every process keep their types, whatever the
\* sizes of the sets: no action of the queue, of the administration or of a
\* restore writes a value the tables would not admit.
THEOREM TypeCorrect == Spec => []TypeOK
<1>1. Spec => []TypeInv
  BY InitTypeInv, StepType, PTL DEF Spec
<1>2. TypeInv => TypeOK
  BY DEF TypeInv
<1> QED
  BY <1>1, <1>2, PTL

(***************************************************************************)
(* No accepted revision is lost.  By itself NoRevisionLost is not          *)
(* inductive: a memory that comes into being must not have had revisions   *)
(* before, or they would be live with no job and no vector.                *)
(***************************************************************************)
NoEarlyRevisions == \A r \in revs : memState[MemoryOf[r]] # "absent"

LostInv == TypeInv /\ NoEarlyRevisions /\ NoRevisionLost

\* What a step has to keep for the revisions that are live after it.
OrdinaryKept ==
    /\ active' = active
    /\ LiveRevs' \subseteq LiveRevs
    /\ \A r \in LiveRevs' :
          /\ <<r, active>> \in emb => <<r, active>> \in emb'
          /\ jobState[Ordinary(r)] \in Unfinished => jobState'[Ordinary(r)] \in Unfinished
          /\ jobGen'[Ordinary(r)] = jobGen[Ordinary(r)]

LEMMA KeptIsEnough == ASSUME NoRevisionLost, OrdinaryKept PROVE NoRevisionLost'
  BY DEF NoRevisionLost, OrdinaryKept, Unfinished

LEMMA RowsKeepLive == ASSUME UNCHANGED rowVars PROVE LiveRevs' = LiveRevs /\ emb' = emb
  BY DEF rowVars, LiveRevs

LEMMA LiveAreRevisions == ASSUME TypeInv PROVE LiveRevs \subseteq Revision
  BY DEF TypeInv, TypeOK, RowsOK, LiveRevs

LEMMA InitLost == Init => NoEarlyRevisions /\ NoRevisionLost
  BY DEF Init, NoEarlyRevisions, NoRevisionLost, LiveRevs

LEMMA AcceptLost ==
  ASSUME LostInv, NEW r \in Revision, Accept(r), active' = active,
         LiveRevs' \subseteq LiveRevs \cup {r}
  PROVE  NoRevisionLost'
<1> DEFINE js == {Ordinary(r)} \cup (IF cand = None THEN {} ELSE {Candidate(r, cand)})
           gen == [j \in js |-> IF j.run = None THEN active ELSE runGen[j.run]]
<1>1. js \in SUBSET EmbedJob /\ Ordinary(r) \in js
  BY JobFacts DEF LostInv, TypeInv, TypeOK, SettingsOK
<1>2. gen[Ordinary(r)] = active
  BY <1>1, JobFacts
<1>3. \A q \in Revision : q # r => Ordinary(q) \notin js
  <2> SUFFICES ASSUME NEW q \in Revision, q # r PROVE Ordinary(q) \notin js
    OBVIOUS
  <2>1. Ordinary(q) # Ordinary(r)
    BY JobFacts
  <2>2. cand # None => Ordinary(q) # Candidate(r, cand)
    BY JobFacts DEF LostInv, TypeInv, TypeOK, SettingsOK
  <2> QED
    BY <2>1, <2>2
<1>4. InsertJobs(js, gen, {}) /\ emb' = emb
  BY DEF Accept
<1> HIDE DEF js, gen
<1>5. jobState'[Ordinary(r)] = "pending" /\ jobGen'[Ordinary(r)] = active
  BY <1>1, <1>2, <1>4, JobFacts DEF InsertJobs
<1>6. \A q \in Revision : q # r =>
         jobState'[Ordinary(q)] = jobState[Ordinary(q)] /\ jobGen'[Ordinary(q)] = jobGen[Ordinary(q)]
  BY <1>3, <1>4, JobFacts DEF InsertJobs
<1> QED
  BY <1>4, <1>5, <1>6, LiveAreRevisions DEF LostInv, NoRevisionLost, Unfinished

LEMMA ApiLost == ASSUME LostInv, Api PROVE NoEarlyRevisions' /\ NoRevisionLost'
<1>1. ASSUME NEW r \in Revision, Save(r) PROVE NoEarlyRevisions' /\ NoRevisionLost'
  <2>1. revs' = revs \cup {r} /\ memState' = [memState EXCEPT ![MemoryOf[r]] = "live"]
        /\ memState[MemoryOf[r]] = "absent" /\ active' = active
    BY <1>1 DEF Save, Accept, settingVars
  <2>2. NoEarlyRevisions'
    BY <2>1, ConstantAssumption DEF LostInv, TypeInv, TypeOK, RowsOK, NoEarlyRevisions
  <2>3. LiveRevs' \subseteq LiveRevs \cup {r}
    BY <2>1, ConstantAssumption DEF LostInv, TypeInv, TypeOK, RowsOK, NoEarlyRevisions, LiveRevs
  <2> QED
    BY <1>1, <2>1, <2>2, <2>3, AcceptLost DEF Save
<1>2. ASSUME NEW r \in Revision, Revise(r) PROVE NoEarlyRevisions' /\ NoRevisionLost'
  <2>1. revs' = revs \cup {r} /\ memState' = memState
        /\ memState[MemoryOf[r]] = "live" /\ active' = active
    BY <1>2 DEF Revise, Accept, settingVars
  <2>2. NoEarlyRevisions' /\ LiveRevs' \subseteq LiveRevs \cup {r}
    BY <2>1 DEF LostInv, NoEarlyRevisions, LiveRevs
  <2> QED
    BY <1>2, <2>1, <2>2, AcceptLost DEF Revise
<1>3. ASSUME NEW m \in Memory, Forget(m) PROVE NoEarlyRevisions' /\ NoRevisionLost'
  <2>1. revs' = revs /\ memState' = [memState EXCEPT ![m] = "deleted"] /\ emb' = emb
        /\ active' = active /\ jobGen' = jobGen
    BY <1>3 DEF Forget, settingVars
  <2>2. NoEarlyRevisions'
    BY <2>1, ConstantAssumption DEF LostInv, TypeInv, TypeOK, RowsOK, NoEarlyRevisions
  <2>3. LiveRevs' \subseteq {r \in LiveRevs : MemoryOf[r] # m}
    BY <2>1, ConstantAssumption DEF LostInv, TypeInv, TypeOK, RowsOK, LiveRevs
  <2>4. \A r \in LiveRevs' : jobState'[Ordinary(r)] = jobState[Ordinary(r)]
    <3> SUFFICES ASSUME NEW r \in LiveRevs' PROVE jobState'[Ordinary(r)] = jobState[Ordinary(r)]
      OBVIOUS
    <3>1. r \in Revision /\ MemoryOf[r] # m
      BY <2>3, LiveAreRevisions DEF LostInv
    <3>2. Ordinary(r) \in Job /\ Ordinary(r) \notin JobsOf(m) /\ Ordinary(r) # Purge(m)
      BY <3>1, JobFacts DEF JobsOf, JobMemory
    <3> QED
      BY <1>3, <3>2 DEF Forget
  <2> QED
    BY <2>1, <2>2, <2>3, <2>4, KeptIsEnough DEF OrdinaryKept, LostInv
<1>4. ASSUME NEW js \in SUBSET Job, Requeue(js), active' = active
      PROVE  NoEarlyRevisions' /\ NoRevisionLost'
  <2>1. UNCHANGED rowVars /\ jobGen' = jobGen
    BY <1>4 DEF Requeue
  <2>2. \A r \in Revision : jobState[Ordinary(r)] \in Unfinished => jobState'[Ordinary(r)] \in Unfinished
    BY <1>4, JobFacts DEF Requeue, Unfinished
  <2> QED
    BY <1>4, <2>1, <2>2, RowsKeepLive, LiveAreRevisions, KeptIsEnough
    DEF OrdinaryKept, LostInv, NoEarlyRevisions, rowVars
<1>5. ASSUME NEW j \in Job, RetryOperation(j) PROVE NoEarlyRevisions' /\ NoRevisionLost'
  BY <1>4, <1>5 DEF RetryOperation, settingVars
<1> QED
  BY <1>1, <1>2, <1>3, <1>5 DEF Api

\* Cancelling jobs none of which is an ordinary one keeps every ordinary job.
LEMMA CancelJobsKept ==
  ASSUME LostInv, NEW js \in SUBSET Job, CancelJobs(js), UNCHANGED rowVars, active' = active,
         \A j \in js : j.run # None
  PROVE  NoEarlyRevisions' /\ NoRevisionLost'
<1>1. \A r \in Revision : Ordinary(r) \in Job /\ Ordinary(r) \notin js
  BY JobFacts
<1>2. \A r \in Revision : jobState'[Ordinary(r)] = jobState[Ordinary(r)] /\ jobGen' = jobGen
  BY <1>1 DEF CancelJobs, CloseJobs
<1> QED
  BY <1>2, RowsKeepLive, LiveAreRevisions, KeptIsEnough
  DEF OrdinaryKept, LostInv, NoEarlyRevisions, rowVars

LEMMA AdministrationLost ==
  ASSUME LostInv, Administration PROVE NoEarlyRevisions' /\ NoRevisionLost'
<1>1. ASSUME UNCHANGED rowVars, UNCHANGED jobVars, active' = active
      PROVE  NoEarlyRevisions' /\ NoRevisionLost'
  BY <1>1, RowsKeepLive, KeptIsEnough
  DEF OrdinaryKept, LostInv, NoEarlyRevisions, rowVars, jobVars
<1>2. ASSUME NEW n \in Run, NEW g \in Gen, Start(n, g) PROVE NoEarlyRevisions' /\ NoRevisionLost'
  BY <1>1, <1>2 DEF Start
<1>3. ASSUME NEW n \in Run, Pause(n) \/ Resume(n) PROVE NoEarlyRevisions' /\ NoRevisionLost'
  BY <1>1, <1>3 DEF Pause, Resume, SetRunState, settingVars
<1>4. ASSUME NEW n \in Run, RetryRun(n) PROVE NoEarlyRevisions' /\ NoRevisionLost'
  <2>1. PICK js \in SUBSET Job : Requeue(js)
    BY <1>4, JobFacts DEF RetryRun, RunJobs
  <2>2. active' = active /\ UNCHANGED rowVars /\ jobGen' = jobGen
    BY <1>4, <2>1 DEF RetryRun, settingVars, Requeue
  <2>3. \A r \in Revision : jobState[Ordinary(r)] \in Unfinished => jobState'[Ordinary(r)] \in Unfinished
    BY <2>1, JobFacts DEF Requeue, Unfinished
  <2> QED
    BY <2>2, <2>3, RowsKeepLive, LiveAreRevisions, KeptIsEnough
    DEF OrdinaryKept, LostInv, NoEarlyRevisions, rowVars
<1>5. ASSUME NEW n \in Run, Cancel(n) PROVE NoEarlyRevisions' /\ NoRevisionLost'
  <2>1. UNCHANGED rowVars /\ active' = active /\ CancelJobs(RunJobs(n))
    BY <1>5 DEF Cancel
  <2>2. RunJobs(n) \in SUBSET Job /\ \A j \in RunJobs(n) : j.run # None
    BY JobFacts, ConstantAssumption DEF RunJobs
  <2> QED
    BY <2>1, <2>2, CancelJobsKept
<1>6. ASSUME NEW n \in Run, Activate(n) PROVE NoEarlyRevisions' /\ NoRevisionLost'
  <2>1. UNCHANGED rowVars /\ active' = runGen[n] /\ Covered(runGen[n])
    BY <1>6 DEF Activate
  <2> QED
    BY <2>1, RowsKeepLive DEF Covered, NoRevisionLost, NoEarlyRevisions, rowVars, LostInv
<1>7. ASSUME ResumeProcessing PROVE NoEarlyRevisions' /\ NoRevisionLost'
  BY <1>1, <1>7 DEF ResumeProcessing
<1> QED
  BY <1>2, <1>3, <1>4, <1>5, <1>6, <1>7 DEF Administration

\* A worker or a policy decision that ends a job of a live revision has published
\* its vector: it never cancels the one job the revision depends on.
LEMMA PolicyStopsKept ==
  ASSUME LostInv, NEW j \in EmbedJob, NEW f \in BOOLEAN, PolicyStops(j, f),
         NEW r \in LiveRevs, j = Ordinary(r), jobGen[j] = active
  PROVE  jobState'[j] \in Unfinished
<1>1. j.run = None /\ j \in Job
  BY JobFacts, LiveAreRevisions DEF LostInv
<1>2. ~Obsolete(j)
  BY <1>1 DEF Obsolete
<1>3. GiveBack(j, opState[j], TRUE) \/ GiveBack(j, "accepted", FALSE)
  BY <1>2 DEF PolicyStops
<1> QED
  BY <1>1, <1>3 DEF GiveBack, CloseJobs, Unfinished

\* PolicyStops and Finish touch one job.
LEMMA OneJob ==
  ASSUME NEW j \in Job, NEW f \in BOOLEAN, NEW st \in {"ready", "cancelled"},
         PolicyStops(j, f) \/ Finish(j, st)
  PROVE  jobGen' = jobGen /\ \A k \in Job : k # j => jobState'[k] = jobState[k]
  BY DEF PolicyStops, Finish, GiveBack, CloseJobs

LEMMA WorkerLost ==
  ASSUME LostInv, NEW w \in Worker, WorkerStep(w) PROVE NoEarlyRevisions' /\ NoRevisionLost'
<1> DEFINE j == wjob[w]
<1>0. \A r \in LiveRevs : Ordinary(r) \in EmbedJob /\ Ordinary(r) \in Job
  BY JobFacts, LiveAreRevisions DEF LostInv
<1>1. ASSUME UNCHANGED rowVars, active' = active, jobGen' = jobGen,
             \A r \in LiveRevs : jobState[Ordinary(r)] \in Unfinished => jobState'[Ordinary(r)] \in Unfinished
      PROVE  NoEarlyRevisions' /\ NoRevisionLost'
  BY <1>1, RowsKeepLive, KeptIsEnough DEF OrdinaryKept, LostInv, NoEarlyRevisions, rowVars
<1>2. ASSUME NEW k \in Job, Lease(w, k) PROVE NoEarlyRevisions' /\ NoRevisionLost'
  <2>1. UNCHANGED rowVars /\ active' = active /\ jobGen' = jobGen
    BY <1>2 DEF Lease, settingVars
  <2>2. \A q \in Job : jobState[q] \in Unfinished => jobState'[q] \in Unfinished
    BY <1>2 DEF Lease, Unfinished, LostInv, TypeInv, TypeOK, JobsOK
  <2> QED
    BY <1>0, <1>1, <2>1, <2>2
<1>3. ASSUME LeaseLost(w) \/ Crash(w) PROVE NoEarlyRevisions' /\ NoRevisionLost'
  BY <1>1, <1>3 DEF LeaseLost, Crash, settingVars, jobVars
<1>4. ASSUME FailAttempt(w) \/ BudgetReduced(w) PROVE NoEarlyRevisions' /\ NoRevisionLost'
  <2>1. UNCHANGED rowVars /\ active' = active /\ jobGen' = jobGen
    BY <1>4 DEF FailAttempt, BudgetReduced, GiveBack, settingVars
  <2>2. PICK st \in {"failed", "pending"}, ost \in {"failed", "accepted"} : CloseJobs({j}, st, ost)
    BY <1>4 DEF FailAttempt, BudgetReduced, GiveBack
  <2>3. \A q \in Job : jobState[q] \in Unfinished => jobState'[q] \in Unfinished
    BY <2>2 DEF CloseJobs, Unfinished
  <2> QED
    BY <1>0, <1>1, <2>1, <2>3
<1>5. CASE Begin(w)
  <2>1. j \in EmbedJob /\ j \in Job /\ UNCHANGED rowVars /\ active' = active
    BY <1>5, JobFacts DEF Begin, settingVars
  <2>2. CASE Allowed(j, FALSE) /\ Readable(j)
    BY <1>1, <1>5, <2>1, <2>2 DEF Begin
  <2>3. CASE ~(Allowed(j, FALSE) /\ Readable(j))
    <3>1. PolicyStops(j, FALSE) \/ (~Readable(j) /\ Finish(j, "cancelled"))
      BY <1>5, <2>3 DEF Begin
    <3>2. jobGen' = jobGen /\ \A k \in Job : k # j => jobState'[k] = jobState[k]
      BY <2>1, <3>1, OneJob
    <3>3. ASSUME NEW r \in LiveRevs, jobState[Ordinary(r)] \in Unfinished, jobGen[Ordinary(r)] = active
          PROVE  jobState'[Ordinary(r)] \in Unfinished
      <4>1. CASE j = Ordinary(r)
        <5>1. Readable(j)
          BY <4>1, JobFacts, LiveAreRevisions DEF Readable, LostInv
        <5> HIDE DEF j
        <5> QED
          BY <2>1, <3>1, <3>3, <4>1, <5>1, PolicyStopsKept
      <4>2. CASE j # Ordinary(r)
        BY <1>0, <3>2, <3>3, <4>2
      <4> QED
        BY <4>1, <4>2
    <3> QED
      BY <2>1, <3>2, <3>3, RowsKeepLive
      DEF LostInv, NoRevisionLost, NoEarlyRevisions, rowVars
  <2> QED
    BY <2>2, <2>3
<1>6. CASE Publish(w)
  <2>1. /\ wpc[w] = "infer"
        /\ UNCHANGED <<memState, revs>> /\ active' = active
        /\ emb' = emb \/ emb' = emb \cup {<<j.rev, jobGen[j]>>}
        /\ \/ emb' = emb \cup {<<j.rev, jobGen[j]>>} /\ Finish(j, "ready")
           \/ PolicyStops(j, TRUE)
           \/ ~Readable(j) /\ Finish(j, "cancelled")
    BY <1>6 DEF Publish, settingVars
  <2>2. j \in EmbedJob /\ j \in Job
    BY <2>1, JobFacts DEF LostInv, TypeInv, BusyWorkers
  <2>3. LiveRevs' = LiveRevs /\ emb \subseteq emb'
    BY <2>1 DEF LiveRevs
  <2>4. jobGen' = jobGen /\ \A k \in Job : k # j => jobState'[k] = jobState[k]
    BY <2>1, <2>2, OneJob
  <2>5. ASSUME NEW r \in LiveRevs, jobState[Ordinary(r)] \in Unfinished, jobGen[Ordinary(r)] = active
        PROVE  <<r, active>> \in emb' \/ jobState'[Ordinary(r)] \in Unfinished
    <3>1. CASE j = Ordinary(r)
      <4>1. Readable(j) /\ j.rev = r
        BY <3>1, JobFacts, LiveAreRevisions DEF Readable, LostInv
      <4> HIDE DEF j
      <4> QED
        BY <2>1, <2>2, <2>5, <3>1, <4>1, PolicyStopsKept
    <3>2. CASE j # Ordinary(r)
      BY <1>0, <2>4, <2>5, <3>2
    <3> QED
      BY <3>1, <3>2
  <2> QED
    BY <2>1, <2>3, <2>4, <2>5 DEF LostInv, NoRevisionLost, NoEarlyRevisions
<1>7. CASE PurgeStep(w)
  <2>1. j \in PurgeJob /\ j \in Job /\ active' = active
    BY <1>7, JobFacts DEF PurgeStep, settingVars
  <2>2. jobGen' = jobGen /\ \A k \in Job : k # j => jobState'[k] = jobState[k]
    <3>1. Finish(j, "ready") \/ Finish(j, "cancelled")
      BY <1>7 DEF PurgeStep
    <3> QED
      BY <3>1 DEF Finish, CloseJobs
  <2>3. \A r \in LiveRevs : jobState'[Ordinary(r)] = jobState[Ordinary(r)]
    BY <1>0, <2>1, <2>2, JobFacts
  <2>4. CASE memState[j.mem] \in {"deleted", "purged"}
    <3>1. /\ memState' = [memState EXCEPT ![j.mem] = "purged"]
          /\ revs' = {r \in revs : MemoryOf[r] # j.mem}
          /\ emb' = {e \in emb : MemoryOf[e[1]] # j.mem}
      BY <1>7, <2>4 DEF PurgeStep
    <3>2. LiveRevs' \subseteq {r \in LiveRevs : MemoryOf[r] # j.mem} /\ NoEarlyRevisions'
      BY <3>1, ConstantAssumption
      DEF LostInv, TypeInv, TypeOK, RowsOK, LiveRevs, NoEarlyRevisions
    <3>3. \A r \in LiveRevs' : <<r, active>> \in emb => <<r, active>> \in emb'
      BY <3>1, <3>2
    <3> QED
      BY <2>1, <2>2, <2>3, <3>2, <3>3, KeptIsEnough DEF OrdinaryKept, LostInv
  <2>5. CASE memState[j.mem] \notin {"deleted", "purged"}
    <3>1. UNCHANGED rowVars
      BY <1>7, <2>5 DEF PurgeStep
    <3> QED
      BY <1>1, <2>1, <2>2, <2>3, <3>1
  <2> QED
    BY <2>4, <2>5
<1> QED
  BY <1>2, <1>3, <1>4, <1>5, <1>6, <1>7, JobFacts DEF WorkerStep, ClaimPurge, ClaimEmbed

LEMMA ScannerLost ==
  ASSUME LostInv, NEW s \in Scanner, ScannerStep(s) PROVE NoEarlyRevisions' /\ NoRevisionLost'
<1> DEFINE n == srun[s]
<1>1. ASSUME UNCHANGED rowVars, active' = active,
             \A r \in LiveRevs : /\ jobState'[Ordinary(r)] = jobState[Ordinary(r)]
                                 /\ jobGen'[Ordinary(r)] = jobGen[Ordinary(r)]
      PROVE  NoEarlyRevisions' /\ NoRevisionLost'
  BY <1>1, RowsKeepLive, KeptIsEnough DEF OrdinaryKept, LostInv, NoEarlyRevisions, rowVars
<1>2. ASSUME \/ \E k \in Run : ClaimScan(s, k)
             \/ ScanStops(s) \/ ScanBackpressure(s) \/ ReadBatch(s) \/ ScanAborts(s)
      PROVE  NoEarlyRevisions' /\ NoRevisionLost'
  <2>1. UNCHANGED rowVars /\ UNCHANGED jobVars /\ UNCHANGED settingVars
    BY <1>2 DEF ClaimScan, ScanStops, ScanBackpressure, ReadBatch, ScanAborts
  <2> QED
    BY <1>1, <2>1 DEF jobVars, settingVars
<1>3. CASE EnqueueBatch(s)
  <2> DEFINE new == {Candidate(r, n) : r \in {q \in srows[s] : /\ jobState[Candidate(q, n)] = "none"
                                                               /\ <<q, runGen[n]>> \notin emb}}
             gen == [j \in new |-> runGen[n]]
             late == {j \in new : JobMemory(j) \in withheld}
  <2>1. InsertJobs(new, gen, late) /\ UNCHANGED rowVars /\ active' = active /\ spc[s] = "reading"
    BY <1>3 DEF EnqueueBatch, settingVars
  <2>2. n \in Run /\ srows[s] \subseteq Revision
    BY <2>1 DEF LostInv, TypeInv, TypeOK, ScannersOK, BusyScanners
  <2>3. \A r \in LiveRevs : Ordinary(r) \in Job /\ Ordinary(r) \notin new
    <3> SUFFICES ASSUME NEW r \in LiveRevs PROVE Ordinary(r) \in Job /\ Ordinary(r) \notin new
      OBVIOUS
    <3>1. Ordinary(r) \in Job /\ Ordinary(r).run = None
      BY JobFacts, LiveAreRevisions DEF LostInv
    <3>2. ASSUME NEW q \in srows[s] PROVE Ordinary(r) # Candidate(q, n)
      <4> HIDE DEF n
      <4> QED
        BY <2>2, <3>1, <3>2, JobFacts, ConstantAssumption
    <3> QED
      BY <3>1, <3>2
  <2> HIDE DEF new, gen, late
  <2>4. \A r \in LiveRevs : /\ jobState'[Ordinary(r)] = jobState[Ordinary(r)]
                            /\ jobGen'[Ordinary(r)] = jobGen[Ordinary(r)]
    BY <2>1, <2>3 DEF InsertJobs
  <2> QED
    BY <1>1, <2>1, <2>4
<1> QED
  BY <1>2, <1>3 DEF ScannerStep

LEMMA RestoreLost == ASSUME LostInv, Restore PROVE NoEarlyRevisions' /\ NoRevisionLost'
<1> DEFINE gone == {m \in Memory : memState[m] \in {"deleted", "purged"}}
<1>1. /\ memState' = [m \in Memory |-> IF m \in gone THEN "purged" ELSE memState[m]]
      /\ revs' = {r \in revs : MemoryOf[r] \notin gone}
      /\ emb' = {e \in emb : MemoryOf[e[1]] \notin gone}
      /\ active' = active /\ jobGen' = jobGen
  BY DEF Restore
<1>2. LiveRevs' \subseteq {r \in LiveRevs : MemoryOf[r] \notin gone} /\ NoEarlyRevisions'
  BY <1>1, ConstantAssumption DEF LostInv, TypeInv, TypeOK, RowsOK, LiveRevs, NoEarlyRevisions
<1>3. \A r \in LiveRevs' :
         jobState[Ordinary(r)] \in Unfinished => jobState'[Ordinary(r)] \in Unfinished
  <2> SUFFICES ASSUME NEW r \in LiveRevs', jobState[Ordinary(r)] \in Unfinished
               PROVE  jobState'[Ordinary(r)] \in Unfinished
    OBVIOUS
  <2>1. r \in Revision /\ MemoryOf[r] \notin gone
    BY <1>2, LiveAreRevisions DEF LostInv
  <2>2. Ordinary(r) \in Job /\ JobMemory(Ordinary(r)) = MemoryOf[r]
    BY <2>1, JobFacts DEF JobMemory
  <2>3. jobState'[Ordinary(r)] \in {jobState[Ordinary(r)], "pending"}
    BY <2>1, <2>2 DEF Restore
  <2> QED
    BY <2>3 DEF Unfinished
<1>4. \A r \in LiveRevs' : <<r, active>> \in emb => <<r, active>> \in emb'
  BY <1>1, <1>2
<1> QED
  BY <1>1, <1>2, <1>3, <1>4, KeptIsEnough DEF OrdinaryKept, LostInv

LEMMA OthersLost ==
  ASSUME LostInv, TimePasses \/ Environment \/ UNCHANGED vars
  PROVE  NoEarlyRevisions' /\ NoRevisionLost'
<1>1. ASSUME UNCHANGED rowVars, active' = active, jobGen' = jobGen, jobState' = jobState
      PROVE  NoEarlyRevisions' /\ NoRevisionLost'
  BY <1>1, RowsKeepLive, KeptIsEnough DEF OrdinaryKept, LostInv, NoEarlyRevisions, rowVars
<1>2. CASE TimePasses
  BY <1>1, <1>2 DEF TimePasses, LeaseExpires, BecomesDue, ScanLeaseExpires, settingVars, jobVars
<1>3. CASE Environment
  BY <1>1, <1>3, RestoreLost
  DEF Environment, AccessChanges, Withhold, Reread, settingVars, jobVars
<1>4. CASE UNCHANGED vars
  BY <1>1, <1>4 DEF vars, settingVars, jobVars
<1> QED
  BY <1>2, <1>3, <1>4

\* No accepted revision is lost to semantic search, in every interleaving of
\* writers, workers, crashes, cutovers and restores: until its memory is deleted
\* it has a vector in the active index or an unfinished job for that index.
THEOREM RevisionsKept == Spec => []NoRevisionLost
<1>1. Init => LostInv
  BY InitTypeInv, InitLost DEF LostInv
<1>2. LostInv /\ [Next]_vars => LostInv'
  <2> SUFFICES ASSUME LostInv, [Next]_vars PROVE LostInv'
    OBVIOUS
  <2>1. TypeInv'
    BY StepType DEF LostInv
  <2>2. NoEarlyRevisions' /\ NoRevisionLost'
    BY ApiLost, AdministrationLost, WorkerLost, ScannerLost, OthersLost DEF Next
  <2> QED
    BY <2>1, <2>2 DEF LostInv
<1>3. LostInv => NoRevisionLost
  BY DEF LostInv
<1> QED
  BY <1>1, <1>2, <1>3, PTL DEF Spec

(***************************************************************************)
(* The inductive invariant.  About one embed job: what its operation says  *)
(* (Told), that no memory has jobs before it exists, and that unfinished   *)
(* work is for a live revision and a selected index (Placed).  About the   *)
(* rest: which run a candidate is, what an open backfill transaction and   *)
(* an inferring worker still hold, and which revisions have an operation.  *)
(***************************************************************************)
Told(j) ==
    /\ jobState[j] = "none" => opState[j] = "none"
    /\ opState[j] = "failed" <=> jobState[j] = "failed"
    /\ opState[j] \in {"accepted", "indexing"} <=> jobState[j] \in {"pending", "leased"}
    /\ opState[j] = "ready" /\ memState[MemoryOf[j.rev]] = "live" => <<j.rev, jobGen[j]>> \in emb

Placed(j) ==
    /\ memState[MemoryOf[j.rev]] = "absent" => jobState[j] = "none"
    /\ jobState[j] \in Unfinished /\ j.run = None =>
          j.rev \in LiveRevs /\ jobGen[j] = active
    /\ jobState[j] \in Unfinished /\ j.run # None /\ memState[MemoryOf[j.rev]] = "live" =>
          cand = j.run
    /\ jobState[j] # "none" /\ j.run # None =>
          jobGen[j] = runGen[j.run] /\ runState[j.run] # "none"

JobInv == \A j \in EmbedJob : Told(j) /\ Placed(j)

CandidateInv ==
    /\ \A n \in Run : runState[n] \in {"running", "paused"} <=> cand = n
    /\ cand # None => runGen[cand] # active

ReadingInv == \A s \in Scanner : spc[s] = "reading" => srun[s] = cand

InferInv == \A w \in Worker : wpc[w] = "infer" /\ Owned(w) => opState[wjob[w]] = "indexing"

RevInv == \A r \in Revision :
              memState[MemoryOf[r]] = "live" => (r \in revs <=> opState[Ordinary(r)] # "none")

PurgeInv == \A m \in Memory : opState[Purge(m)] = "ready" => memState[m] = "purged"

\* Vectors are of existing revisions, and a candidate job that is unfinished has
\* still to make its own: a cutover leaves none behind.
FreshInv ==
    /\ \A e \in emb : e[1] \in revs
    /\ \A j \in EmbedJob :
          jobState[j] # "none" /\ memState[MemoryOf[j.rev]] = "live" => j.rev \in revs
    /\ \A j \in EmbedJob :
          jobState[j] \in Unfinished /\ j.run # None /\ memState[MemoryOf[j.rev]] = "live" =>
              <<j.rev, jobGen[j]>> \notin emb

CoreInv == JobInv /\ CandidateInv /\ ReadingInv /\ InferInv /\ RevInv /\ PurgeInv

RefInv == /\ TypeInv /\ NoEarlyRevisions /\ FreshInv
          /\ JobInv /\ CandidateInv /\ ReadingInv /\ InferInv /\ RevInv /\ PurgeInv

LEMMA JobMemoryOf ==
    /\ \A j \in EmbedJob : JobMemory(j) = MemoryOf[j.rev] /\ MemoryOf[j.rev] \in Memory
    /\ \A m \in Memory : JobMemory(Purge(m)) = m /\ Purge(m) \in Job /\ Purge(m) \notin EmbedJob
    /\ \A r \in Revision : Ordinary(r) \in EmbedJob /\ Ordinary(r).rev = r /\ Ordinary(r).run = None
  BY JobFacts, ConstantAssumption DEF JobMemory

LEMMA InitRef == Init => CoreInv
<1> SUFFICES ASSUME Init PROVE CoreInv
  OBVIOUS
<1>1. JobInv
  BY JobFacts DEF Init, JobInv, Told, Placed, Unfinished
<1>2. CandidateInv
  BY ConstantAssumption DEF Init, CandidateInv
<1>3. ReadingInv /\ InferInv
  BY DEF Init, ReadingInv, InferInv
<1>4. RevInv /\ PurgeInv
  BY JobFacts, ConstantAssumption DEF Init, RevInv, PurgeInv
<1> QED
  BY <1>1, <1>2, <1>3, <1>4 DEF CoreInv

(***************************************************************************)
(* What keeps each part.                                                   *)
(***************************************************************************)
SameSelection == UNCHANGED <<active, cand, runGen, runState>>
JobSame(j) == jobState'[j] = jobState[j] /\ opState'[j] = opState[j] /\ jobGen'[j] = jobGen[j]

\* A job that a step leaves alone, while no row of its memory goes.
LEMMA JobKept ==
  ASSUME NEW j \in EmbedJob, Told(j), Placed(j), JobSame(j), SameSelection,
         memState' = memState, revs' = revs, emb \subseteq emb'
  PROVE  Told(j)' /\ Placed(j)'
  BY DEF Told, Placed, JobSame, SameSelection, LiveRevs

LEMMA RunsKeptRef ==
  ASSUME CandidateInv, SameSelection PROVE CandidateInv'
  BY DEF CandidateInv, SameSelection

LEMMA ReadingKept ==
  ASSUME ReadingInv, cand' = cand,
         \A s \in Scanner : spc'[s] = "reading" => \/ spc[s] = "reading" /\ srun'[s] = srun[s]
                                                   \/ srun'[s] = cand
  PROVE  ReadingInv'
  BY DEF ReadingInv

\* A worker goes on inferring only with the job and the lease it had.
InferStays(w) ==
    wpc'[w] = "infer" /\ Owned(w)' =>
        /\ wpc[w] = "infer" /\ Owned(w) /\ wjob'[w] = wjob[w]
        /\ opState'[wjob[w]] = opState[wjob[w]]

LEMMA InferKept ==
  ASSUME InferInv, \A w \in Worker : InferStays(w) PROVE InferInv'
  BY DEF InferInv, InferStays

\* A step that leaves the rows, the jobs and the selection alone.
LEMMA QuietStep ==
  ASSUME CoreInv, UNCHANGED rowVars, UNCHANGED <<jobState, opState, jobGen>>, SameSelection,
         \A w \in Worker : InferStays(w),
         \A s \in Scanner : spc'[s] = "reading" => \/ spc[s] = "reading" /\ srun'[s] = srun[s]
                                                   \/ srun'[s] = cand
  PROVE  CoreInv'
<1>1. JobInv'
  BY JobKept DEF CoreInv, JobInv, JobSame, rowVars
<1>2. CandidateInv' /\ ReadingInv' /\ InferInv'
  BY RunsKeptRef, ReadingKept, InferKept DEF CoreInv, SameSelection
<1>3. RevInv' /\ PurgeInv'
  BY DEF CoreInv, RevInv, PurgeInv, rowVars
<1> QED
  BY <1>1, <1>2, <1>3 DEF CoreInv

(***************************************************************************)
(* Workers.  A step of a worker leaves the selection and the scanners      *)
(* alone and changes one job, which it claims or owns.                     *)
(***************************************************************************)
LEMMA OneJobStep ==
  ASSUME RefInv, NEW j \in Job, memState' = memState, revs' = revs, emb \subseteq emb',
         SameSelection, jobGen' = jobGen, UNCHANGED scanVars,
         \A k \in Job : k # j => JobSame(k),
         opState[j] # "none", opState'[j] # "none",
         j \in EmbedJob => Told(j)' /\ Placed(j)',
         j \in PurgeJob /\ opState'[j] = "ready" => opState[j] = "ready",
         InferInv'
  PROVE  CoreInv'
<1>1. JobInv'
  BY JobKept, JobFacts DEF RefInv, JobInv
<1>2. CandidateInv' /\ ReadingInv'
  BY RunsKeptRef, ReadingKept DEF RefInv, SameSelection, scanVars
<1>3. RevInv'
  BY JobMemoryOf, JobFacts DEF RefInv, RevInv, JobSame
<1>4. PurgeInv'
  BY JobFacts DEF RefInv, PurgeInv, JobSame
<1> QED
  BY <1>1, <1>2, <1>3, <1>4 DEF CoreInv

\* How a worker, a pause or a policy can leave a leased embed job.
LEMMA ClosedJob ==
  ASSUME NEW j \in EmbedJob, Told(j), Placed(j), jobState[j] = "leased",
         memState' = memState, revs' = revs, emb \subseteq emb', SameSelection,
         jobGen'[j] = jobGen[j],
         \/ jobState'[j] = "pending" /\ opState'[j] \in {"accepted", "indexing"}
         \/ jobState'[j] = "failed" /\ opState'[j] = "failed"
         \/ jobState'[j] = "cancelled" /\ opState'[j] = "cancelled"
         \/ jobState'[j] = "ready" /\ opState'[j] = "ready" /\ <<j.rev, jobGen[j]>> \in emb'
  PROVE  Told(j)' /\ Placed(j)'
<1>1. Told(j)'
  BY DEF Told
<1>2. Placed(j)'
  BY DEF Placed, SameSelection, LiveRevs, Unfinished
<1> QED
  BY <1>1, <1>2

\* A worker that closes its job leaves the others what they hold.
LEMMA ClosedInfer ==
  ASSUME TypeInv, InferInv, NEW w \in Worker, ToIdle(w), NEW j \in Job, holder'[j] = None,
         leaseLive' \subseteq leaseLive,
         \A k \in Job : k # j => /\ jobState'[k] = jobState[k] /\ opState'[k] = opState[k]
                                 /\ holder'[k] = holder[k]
  PROVE  InferInv'
<1> SUFFICES ASSUME NEW v \in Worker, wpc'[v] = "infer", Owned(v)'
             PROVE  opState'[wjob'[v]] = "indexing"
  BY DEF InferInv
<1>1. v # w /\ wpc[v] = "infer" /\ wjob'[v] = wjob[v]
  BY DEF ToIdle, TypeInv, TypeOK, WorkersOK
<1>2. wjob[v] \in Job /\ wjob[v] # j
  BY <1>1, ConstantAssumption DEF Owned, TypeInv, BusyWorkers
<1>3. Owned(v)
  BY <1>1, <1>2 DEF Owned
<1> QED
  BY <1>1, <1>2, <1>3 DEF InferInv

LEMMA LeaseRef ==
  ASSUME RefInv, NEW w \in Worker, NEW j \in Job, wpc[w] = "idle", Lease(w, j),
         jobState[j] \in {"pending", "leased"}
  PROVE  CoreInv'
<1>1. /\ UNCHANGED rowVars /\ opState' = opState /\ jobGen' = jobGen /\ SameSelection
      /\ UNCHANGED scanVars
      /\ jobState'[j] = "leased"
      /\ \A k \in Job : k # j => jobState'[k] = jobState[k] /\ holder'[k] = holder[k]
      /\ leaseLive' = leaseLive \cup {j}
      /\ wpc' = [wpc EXCEPT ![w] = "claimed"] /\ wjob' = [wjob EXCEPT ![w] = j]
      /\ holder'[j] = w
  BY DEF Lease, SameSelection, settingVars, runVars, RefInv, TypeInv, TypeOK, JobsOK
<1>2. InferInv'
  <2> SUFFICES ASSUME NEW v \in Worker, wpc'[v] = "infer", Owned(v)'
               PROVE  opState'[wjob'[v]] = "indexing"
    BY DEF InferInv
  <2>1. v # w /\ wpc[v] = "infer" /\ wjob'[v] = wjob[v]
    BY <1>1 DEF RefInv, TypeInv, TypeOK, WorkersOK
  <2>2. wjob[v] \in Job /\ wjob[v] # j
    BY <1>1, <2>1 DEF Owned, RefInv, TypeInv, BusyWorkers
  <2>3. Owned(v)
    BY <1>1, <2>1, <2>2 DEF Owned
  <2> QED
    BY <1>1, <2>1, <2>3 DEF InferInv, RefInv
<1>3. JobInv'
  <2> SUFFICES ASSUME NEW k \in EmbedJob PROVE Told(k)' /\ Placed(k)'
    BY DEF JobInv
  <2>1. Told(k) /\ Placed(k) /\ k \in Job
    BY JobFacts DEF RefInv, JobInv
  <2>2. CASE k # j
    BY <1>1, <2>1, <2>2, JobKept DEF JobSame, rowVars
  <2>3. CASE k = j
    <3>1. Told(k)'
      BY <1>1, <2>1, <2>3 DEF Told, rowVars
    <3>2. Placed(k)'
      BY <1>1, <2>1, <2>3 DEF Placed, rowVars, SameSelection, LiveRevs, Unfinished
    <3> QED
      BY <3>1, <3>2
  <2> QED
    BY <2>2, <2>3
<1>4. CandidateInv' /\ ReadingInv'
  BY <1>1, RunsKeptRef, ReadingKept DEF RefInv, SameSelection, scanVars
<1>5. RevInv' /\ PurgeInv'
  BY <1>1 DEF RefInv, RevInv, PurgeInv, rowVars
<1> QED
  BY <1>2, <1>3, <1>4, <1>5 DEF CoreInv

\* What it means for worker w to close the job j it owns.
Closes(w, j) ==
    /\ ToIdle(w)
    /\ jobGen' = jobGen
    /\ \/ Finish(j, "ready") \/ Finish(j, "cancelled")
       \/ \E d \in BOOLEAN : GiveBack(j, opState[j], d) \/ GiveBack(j, "accepted", d)
       \/ CloseJobs({j}, "failed", "failed") \/ CloseJobs({j}, "pending", "accepted")

LEMMA ClosesFrame ==
  ASSUME TypeInv, NEW w \in Worker, NEW j \in Job, Closes(w, j)
  PROVE  /\ \A k \in Job : k # j => JobSame(k) /\ holder'[k] = holder[k]
         /\ holder'[j] = None /\ leaseLive' \subseteq leaseLive
         /\ \/ jobState'[j] = "pending" /\ opState'[j] \in {"accepted", opState[j]}
            \/ jobState'[j] = "failed" /\ opState'[j] = "failed"
            \/ jobState'[j] = "cancelled" /\ opState'[j] = "cancelled" /\ Finish(j, "cancelled")
            \/ jobState'[j] = "ready" /\ opState'[j] = "ready" /\ Finish(j, "ready")
  BY DEF Closes, Finish, GiveBack, CloseJobs, JobSame, TypeInv, TypeOK, JobsOK

\* The worker's job is leased, so its operation is in progress.
LEMMA OwnedJob ==
  ASSUME RefInv, NEW w \in Worker, wpc[w] # "idle", Owned(w)
  PROVE  /\ wjob[w] \in Job /\ jobState[wjob[w]] = "leased"
         /\ wjob[w] \in EmbedJob => opState[wjob[w]] \in {"accepted", "indexing"}
  BY DEF RefInv, TypeInv, BusyWorkers, Owned, JobInv, Told

LEMMA CloseEmbed ==
  ASSUME RefInv, NEW w \in Worker, wpc[w] # "idle", Owned(w), NEW j \in EmbedJob, j = wjob[w],
         Closes(w, j), memState' = memState, revs' = revs, emb \subseteq emb',
         UNCHANGED <<settingVars, runVars, scanVars>>,
         Finish(j, "ready") => <<j.rev, jobGen[j]>> \in emb'
  PROVE  CoreInv'
<1>1. j \in Job /\ jobState[j] = "leased" /\ opState[j] \in {"accepted", "indexing"} /\ j \notin PurgeJob
  BY OwnedJob, JobFacts
<1>2. /\ \A k \in Job : k # j => JobSame(k) /\ holder'[k] = holder[k]
      /\ holder'[j] = None /\ leaseLive' \subseteq leaseLive
      /\ \/ jobState'[j] = "pending" /\ opState'[j] \in {"accepted", "indexing"}
         \/ jobState'[j] = "failed" /\ opState'[j] = "failed"
         \/ jobState'[j] = "cancelled" /\ opState'[j] = "cancelled"
         \/ jobState'[j] = "ready" /\ opState'[j] = "ready" /\ <<j.rev, jobGen[j]>> \in emb'
  BY <1>1, ClosesFrame DEF RefInv
<1>3. SameSelection /\ UNCHANGED scanVars /\ ToIdle(w) /\ jobGen' = jobGen
  BY DEF SameSelection, settingVars, runVars, Closes
<1>4. Told(j)' /\ Placed(j)'
  BY <1>1, <1>2, <1>3, ClosedJob DEF RefInv, JobInv
<1>5. InferInv'
  BY <1>1, <1>2, <1>3, ClosedInfer DEF RefInv, JobSame
<1>6. opState[j] # "none" /\ opState'[j] # "none"
  BY <1>1, <1>2
<1> QED
  BY <1>1, <1>2, <1>3, <1>4, <1>5, <1>6, OneJobStep

\* A purge job is closed, or a purge in progress goes back, without its rows.
LEMMA ClosePurge ==
  ASSUME RefInv, NEW w \in Worker, wpc[w] # "idle", Owned(w), NEW j \in PurgeJob, j = wjob[w],
         Closes(w, j), UNCHANGED rowVars, UNCHANGED <<settingVars, runVars, scanVars>>,
         opState'[j] # "ready"
  PROVE  CoreInv'
<1>1. j \in Job /\ j \notin EmbedJob
  BY JobFacts
<1>2. /\ \A k \in Job : k # j => JobSame(k) /\ holder'[k] = holder[k]
      /\ holder'[j] = None /\ leaseLive' \subseteq leaseLive
  BY <1>1, ClosesFrame DEF RefInv
<1>3. SameSelection /\ UNCHANGED scanVars /\ ToIdle(w) /\ jobGen' = jobGen
  BY DEF SameSelection, settingVars, runVars, Closes
<1>4. InferInv'
  BY <1>1, <1>2, <1>3, ClosedInfer DEF RefInv, JobSame
<1>5. JobInv'
  BY <1>1, <1>2, <1>3, JobKept, JobFacts DEF RefInv, JobInv, rowVars
<1>6. CandidateInv' /\ ReadingInv'
  BY <1>3, RunsKeptRef, ReadingKept DEF RefInv, SameSelection, scanVars
<1>7. RevInv'
  BY <1>1, <1>2, JobMemoryOf, JobFacts DEF RefInv, RevInv, JobSame, rowVars
<1>8. PurgeInv'
  BY <1>1, <1>2, JobFacts DEF RefInv, PurgeInv, JobSame, rowVars
<1> QED
  BY <1>4, <1>5, <1>6, <1>7, <1>8 DEF CoreInv

\* The purge itself.
LEMMA PurgeRef ==
  ASSUME RefInv, NEW w \in Worker, PurgeStep(w) PROVE CoreInv'
<1>1. PICK j \in PurgeJob : j = wjob[w]
  BY DEF PurgeStep
<1>2. wpc[w] # "idle" /\ Owned(w) /\ ToIdle(w) /\ j \in Job /\ j \notin EmbedJob
      /\ UNCHANGED <<settingVars, runVars, scanVars>>
  BY <1>1, JobFacts DEF PurgeStep
<1>3. CASE memState[j.mem] \notin {"deleted", "purged"}
  <2>1. Finish(j, "cancelled") /\ UNCHANGED rowVars
    BY <1>1, <1>3 DEF PurgeStep
  <2>2. opState'[j] = "cancelled" /\ Closes(w, j)
    BY <1>2, <2>1 DEF Finish, CloseJobs, Closes
  <2> QED
    BY <1>1, <1>2, <2>1, <2>2, ClosePurge
<1>4. CASE memState[j.mem] \in {"deleted", "purged"}
  <2>1. /\ memState' = [memState EXCEPT ![j.mem] = "purged"]
        /\ revs' = {r \in revs : MemoryOf[r] # j.mem}
        /\ emb' = {e \in emb : MemoryOf[e[1]] # j.mem}
        /\ Finish(j, "ready")
    BY <1>1, <1>4 DEF PurgeStep
  <2>2. Closes(w, j) /\ j.mem \in Memory /\ j = Purge(j.mem)
    BY <1>1, <1>2, <2>1, JobFacts DEF Closes, Finish, PurgeJob, Purge
  <2>3. /\ \A k \in Job : k # j => JobSame(k) /\ holder'[k] = holder[k]
        /\ holder'[j] = None /\ leaseLive' \subseteq leaseLive
    BY <1>2, <2>2, ClosesFrame DEF RefInv
  <2>4. SameSelection /\ UNCHANGED scanVars
    BY <1>2 DEF SameSelection, settingVars, runVars
  <2>5. InferInv'
    BY <1>2, <2>3, ClosedInfer DEF RefInv, JobSame
  <2>6. JobInv'
    <3> SUFFICES ASSUME NEW k \in EmbedJob PROVE Told(k)' /\ Placed(k)'
      BY DEF JobInv
    <3>1. Told(k) /\ Placed(k) /\ JobSame(k) /\ MemoryOf[k.rev] \in Memory
      BY <1>2, <2>3, JobFacts, JobMemoryOf DEF RefInv, JobInv
    <3>2. memState \in [Memory -> {"absent", "live", "deleted", "purged"}]
      BY DEF RefInv, TypeInv, TypeOK, RowsOK
    <3>3. Told(k)'
      BY <2>1, <3>1, <3>2 DEF Told, JobSame
    <3>4. Placed(k)'
      BY <1>4, <2>1, <2>2, <2>4, <3>1, <3>2 DEF Placed, JobSame, SameSelection, LiveRevs, Unfinished
    <3> QED
      BY <3>3, <3>4
  <2>7. CandidateInv' /\ ReadingInv'
    BY <2>4, RunsKeptRef, ReadingKept DEF RefInv, SameSelection, scanVars
  <2>8. RevInv'
    <3> SUFFICES ASSUME NEW r \in Revision, memState'[MemoryOf[r]] = "live"
                 PROVE  r \in revs' <=> opState'[Ordinary(r)] # "none"
      BY DEF RevInv
    <3>1. MemoryOf[r] # j.mem /\ memState[MemoryOf[r]] = "live"
      BY <2>1, <2>2, ConstantAssumption DEF RefInv, TypeInv, TypeOK, RowsOK
    <3>2. opState'[Ordinary(r)] = opState[Ordinary(r)]
      BY <1>2, <2>3, JobMemoryOf, JobFacts DEF JobSame
    <3> QED
      BY <2>1, <3>1, <3>2 DEF RefInv, RevInv
  <2>9. PurgeInv'
    <3> SUFFICES ASSUME NEW m \in Memory, opState'[Purge(m)] = "ready" PROVE memState'[m] = "purged"
      BY DEF PurgeInv
    <3>1. memState \in [Memory -> {"absent", "live", "deleted", "purged"}]
      BY DEF RefInv, TypeInv, TypeOK, RowsOK
    <3> QED
      BY <2>1, <2>2, <2>3, <3>1, JobFacts DEF RefInv, PurgeInv, JobSame
  <2> QED
    BY <2>5, <2>6, <2>7, <2>8, <2>9 DEF CoreInv
<1> QED
  BY <1>3, <1>4

\* A job that the policy ends or defers, or whose memory is gone.
LEMMA PolicyCloses ==
  ASSUME NEW w \in Worker, NEW j \in Job, NEW f \in BOOLEAN, ToIdle(w),
         PolicyStops(j, f) \/ Finish(j, "cancelled")
  PROVE  Closes(w, j) /\ ~Finish(j, "ready")
<1>1. jobGen' = jobGen
  BY DEF PolicyStops, Finish, GiveBack
<1>2. Closes(w, j)
  BY <1>1 DEF PolicyStops, Closes
<1>3. jobState' = [k \in Job |-> IF k \in {j} THEN "pending" ELSE jobState[k]]
      \/ jobState' = [k \in Job |-> IF k \in {j} THEN "cancelled" ELSE jobState[k]]
  BY DEF PolicyStops, Finish, GiveBack, CloseJobs
<1>4. ~Finish(j, "ready")
  BY <1>3 DEF Finish, CloseJobs
<1> QED
  BY <1>2, <1>4

LEMMA BeginRef == ASSUME RefInv, NEW w \in Worker, Begin(w) PROVE CoreInv'
<1>1. PICK j \in EmbedJob : j = wjob[w]
  BY DEF Begin
<1>2. /\ wpc[w] = "claimed" /\ Owned(w) /\ UNCHANGED rowVars
      /\ UNCHANGED <<settingVars, runVars, scanVars>>
  BY DEF Begin
<1>3. j \in Job /\ jobState[j] = "leased" /\ opState[j] \in {"accepted", "indexing"} /\ j \notin PurgeJob
  BY <1>1, <1>2, OwnedJob, JobFacts
<1>4. CASE ~(Allowed(j, FALSE) /\ Readable(j))
  <2>1. ToIdle(w) /\ (PolicyStops(j, FALSE) \/ Finish(j, "cancelled"))
    BY <1>1, <1>4 DEF Begin
  <2>2. Closes(w, j) /\ ~Finish(j, "ready")
    BY <1>3, <2>1, PolicyCloses
  <2> QED
    BY <1>1, <1>2, <2>2, CloseEmbed DEF rowVars
<1>5. CASE Allowed(j, FALSE) /\ Readable(j)
  <2>1. /\ opState' = [opState EXCEPT ![j] = "indexing"]
        /\ wpc' = [wpc EXCEPT ![w] = "infer"]
        /\ UNCHANGED <<jobState, jobGen, holder, leaseLive, due, attempts, wjob>>
    BY <1>1, <1>5 DEF Begin
  <2>2. /\ opState'[j] = "indexing" /\ \A k \in Job : k # j => opState'[k] = opState[k]
        /\ SameSelection /\ UNCHANGED scanVars
    BY <1>2, <1>3, <2>1 DEF RefInv, TypeInv, TypeOK, JobsOK, SameSelection, settingVars, runVars
  <2>3. Told(j)' /\ Placed(j)'
    BY <1>2, <1>3, <2>1, <2>2 DEF RefInv, JobInv, Told, Placed, rowVars, SameSelection, LiveRevs
  <2>4. InferInv'
    <3> SUFFICES ASSUME NEW v \in Worker, wpc'[v] = "infer", Owned(v)'
                 PROVE  opState'[wjob'[v]] = "indexing"
      BY DEF InferInv
    <3>1. Owned(v) /\ wjob'[v] = wjob[v]
      BY <2>1 DEF Owned
    <3>2. CASE v = w
      BY <1>1, <2>2, <3>1, <3>2
    <3>3. CASE v # w
      <4>1. wpc[v] = "infer" /\ wjob[v] \in Job /\ wjob[v] # j
        BY <1>1, <1>2, <2>1, <3>1, <3>3 DEF Owned, RefInv, TypeInv, TypeOK, WorkersOK, BusyWorkers
      <4> QED
        BY <2>2, <3>1, <4>1 DEF RefInv, InferInv
    <3> QED
      BY <3>2, <3>3
  <2>5. \A k \in Job : k # j => JobSame(k)
    BY <2>1, <2>2 DEF JobSame
  <2> QED
    BY <1>2, <1>3, <2>1, <2>2, <2>3, <2>4, <2>5, OneJobStep DEF rowVars
<1> QED
  BY <1>4, <1>5

LEMMA PublishRef == ASSUME RefInv, NEW w \in Worker, Publish(w) PROVE CoreInv'
<1>1. wpc[w] = "infer" /\ Owned(w) /\ ToIdle(w) /\ UNCHANGED <<memState, revs>>
      /\ UNCHANGED <<settingVars, runVars, scanVars>>
  BY DEF Publish
<1>2. PICK j \in EmbedJob : j = wjob[w]
  BY <1>1 DEF RefInv, TypeInv, BusyWorkers
<1>3. j \in Job
  BY JobFacts
<1>4. CASE Allowed(j, TRUE) /\ Readable(j)
  <2>1. emb' = emb \cup {<<j.rev, jobGen[j]>>} /\ Finish(j, "ready")
    BY <1>2, <1>4 DEF Publish
  <2>2. Closes(w, j)
    BY <1>1, <2>1 DEF Closes, Finish
  <2> QED
    BY <1>1, <1>2, <2>1, <2>2, CloseEmbed
<1>5. CASE ~(Allowed(j, TRUE) /\ Readable(j))
  <2>1. emb' = emb /\ (PolicyStops(j, TRUE) \/ Finish(j, "cancelled"))
    BY <1>2, <1>5 DEF Publish
  <2>2. Closes(w, j) /\ ~Finish(j, "ready")
    BY <1>1, <1>3, <2>1, PolicyCloses
  <2> QED
    BY <1>1, <1>2, <2>1, <2>2, CloseEmbed
<1> QED
  BY <1>4, <1>5

LEMMA WorkerRef == ASSUME RefInv, NEW w \in Worker, WorkerStep(w) PROVE CoreInv'
<1>1. ASSUME NEW j \in Job, ClaimPurge(w, j) \/ ClaimEmbed(w, j) PROVE CoreInv'
  BY <1>1, LeaseRef DEF ClaimPurge, ClaimEmbed, Eligible
<1>2. CASE LeaseLost(w) \/ Crash(w)
  <2>1. ToIdle(w) /\ UNCHANGED <<rowVars, jobVars, settingVars, runVars, scanVars>>
    BY <1>2 DEF LeaseLost, Crash
  <2>2. \A v \in Worker : InferStays(v)
    BY <2>1 DEF ToIdle, InferStays, Owned, jobVars, RefInv, TypeInv, TypeOK, WorkersOK
  <2> QED
    BY <2>1, <2>2, QuietStep DEF RefInv, CoreInv, SameSelection, jobVars, settingVars, runVars,
           scanVars
<1>3. CASE FailAttempt(w)
  <2>1. wpc[w] # "idle" /\ Owned(w) /\ ToIdle(w) /\ UNCHANGED rowVars /\ jobGen' = jobGen
        /\ UNCHANGED <<settingVars, runVars, scanVars>>
    BY <1>3 DEF FailAttempt
  <2>2. PICK j \in Job : j = wjob[w]
    BY <2>1, OwnedJob
  <2>3. CloseJobs({j}, "failed", "failed") \/ CloseJobs({j}, "pending", "accepted")
    BY <1>3, <2>2 DEF FailAttempt
  <2>4. Closes(w, j) /\ opState'[j] # "ready" /\ ~Finish(j, "ready")
    BY <2>1, <2>3 DEF Closes, CloseJobs, Finish
  <2> QED
    BY <2>1, <2>2, <2>4, CloseEmbed, ClosePurge, JobFacts DEF rowVars
<1>4. CASE BudgetReduced(w)
  <2>1. wpc[w] = "infer" /\ Owned(w) /\ ToIdle(w) /\ UNCHANGED rowVars
        /\ UNCHANGED <<settingVars, runVars, scanVars>>
    BY <1>4 DEF BudgetReduced
  <2>2. PICK j \in EmbedJob : j = wjob[w]
    BY <2>1 DEF RefInv, TypeInv, BusyWorkers
  <2>3. GiveBack(j, "accepted", FALSE) /\ j \in Job
    BY <1>4, <2>2, JobFacts DEF BudgetReduced
  <2>4. Closes(w, j) /\ ~Finish(j, "ready")
    BY <2>1, <2>3 DEF Closes, GiveBack, CloseJobs, Finish
  <2> QED
    BY <2>1, <2>2, <2>4, CloseEmbed DEF rowVars
<1> QED
  BY <1>1, <1>2, <1>3, <1>4, BeginRef, PublishRef, PurgeRef, JobFacts DEF WorkerStep

(***************************************************************************)
(* Requests.                                                               *)
(***************************************************************************)

\* A request leaves what workers and scanners hold; a job that it takes from
\* a worker loses its lease.
LEMMA RequestFrame ==
  ASSUME RefInv, UNCHANGED <<runVars, workerVars, scanVars>>, cand' = cand, active' = active,
         \A k \in Job : k \in leaseLive' /\ holder'[k] # None /\ jobState'[k] = "leased" =>
                           /\ k \in leaseLive /\ holder[k] = holder'[k] /\ jobState[k] = "leased"
                           /\ opState'[k] = opState[k]
  PROVE  CandidateInv' /\ ReadingInv' /\ InferInv' /\ SameSelection
<1>1. SameSelection
  BY DEF SameSelection, runVars
<1>2. CandidateInv' /\ ReadingInv'
  BY <1>1, RunsKeptRef, ReadingKept DEF RefInv, SameSelection, scanVars
<1>3. \A w \in Worker : InferStays(w)
  <2> SUFFICES ASSUME NEW w \in Worker, wpc'[w] = "infer", Owned(w)'
               PROVE  /\ wpc[w] = "infer" /\ Owned(w) /\ wjob'[w] = wjob[w]
                      /\ opState'[wjob[w]] = opState[wjob[w]]
    BY DEF InferStays
  <2>1. wpc[w] = "infer" /\ wjob'[w] = wjob[w]
    BY DEF workerVars
  <2>2. wjob[w] \in Job
    BY <2>1 DEF RefInv, TypeInv, BusyWorkers
  <2>3. jobState'[wjob[w]] = "leased" /\ holder'[wjob[w]] = w /\ wjob[w] \in leaseLive'
    BY <2>1 DEF Owned
  <2>4. w # None
    BY ConstantAssumption
  <2> QED
    BY <2>1, <2>2, <2>3, <2>4 DEF Owned
<1> QED
  BY <1>1, <1>2, <1>3, InferKept DEF RefInv

\* A new revision: its job, and the candidate's job for it.
LEMMA AcceptRef ==
  ASSUME RefInv, NEW r \in Revision, Accept(r),
         \/ memState[MemoryOf[r]] = "absent" /\ memState' = [memState EXCEPT ![MemoryOf[r]] = "live"]
         \/ memState[MemoryOf[r]] = "live" /\ memState' = memState /\ r \notin revs
  PROVE  CoreInv'
<1> DEFINE js == {Ordinary(r)} \cup (IF cand = None THEN {} ELSE {Candidate(r, cand)})
           gen == [j \in js |-> IF j.run = None THEN active ELSE runGen[j.run]]
<1>1. /\ revs' = revs \cup {r} /\ emb' = emb /\ InsertJobs(js, gen, {})
      /\ UNCHANGED <<runVars, workerVars, scanVars>> /\ cand' = cand /\ active' = active
  BY DEF Accept, settingVars
<1>2. /\ js \in SUBSET EmbedJob /\ js \subseteq Job /\ Ordinary(r) \in js /\ r \notin revs
      /\ \A j \in js : j.rev = r /\ (j.run # None => cand # None /\ j.run = cand)
      /\ \A q \in Revision : q # r => Ordinary(q) \notin js
      /\ MemoryOf[r] \in Memory
  <2>1. js \in SUBSET EmbedJob /\ Ordinary(r) \in js
    BY JobFacts DEF RefInv, TypeInv, TypeOK, SettingsOK
  <2>2. \A j \in js : j.rev = r /\ (j.run # None => cand # None /\ j.run = cand)
    BY DEF Ordinary, Candidate
  <2>3. \A q \in Revision : q # r => Ordinary(q) \notin js
    BY DEF Ordinary, Candidate
  <2> QED
    BY <2>1, <2>2, <2>3, JobFacts, ConstantAssumption DEF RefInv, NoEarlyRevisions
<1>3. \A j \in js : /\ jobState'[j] = "pending" /\ opState'[j] = "accepted"
                    /\ (j.run = None => jobGen'[j] = active)
                    /\ (j.run # None => jobGen'[j] = runGen[j.run])
  <2> HIDE DEF js
  <2> QED
    BY <1>1, <1>2 DEF InsertJobs
<1>4. /\ \A j \in Job : j \notin js => JobSame(j)
      /\ UNCHANGED <<holder, leaseLive>>
  BY <1>1 DEF InsertJobs, JobSame
<1> HIDE DEF js, gen
<1>5. CandidateInv' /\ ReadingInv' /\ InferInv' /\ SameSelection
  <2>1. \A k \in Job : jobState'[k] = "leased" => jobState[k] = "leased" /\ opState'[k] = opState[k]
    BY <1>3, <1>4 DEF JobSame
  <2> QED
    BY <1>1, <1>4, <2>1, RequestFrame
<1>6. memState \in [Memory -> {"absent", "live", "deleted", "purged"}]
  BY DEF RefInv, TypeInv, TypeOK, RowsOK
<1>7. \A m \in Memory : memState'[m] # memState[m] => memState[m] = "absent"
  BY <1>2, <1>6
<1>8. memState'[MemoryOf[r]] = "live"
  BY <1>2, <1>6
<1>9. LiveRevs \subseteq LiveRevs' /\ r \in LiveRevs'
  BY <1>1, <1>2, <1>6, <1>7, <1>8, LiveAreRevisions, ConstantAssumption DEF LiveRevs, RefInv
<1>10. JobInv'
  <2> SUFFICES ASSUME NEW k \in EmbedJob PROVE Told(k)' /\ Placed(k)'
    BY DEF JobInv
  <2>1. Told(k) /\ Placed(k) /\ k \in Job /\ MemoryOf[k.rev] \in Memory
    BY JobFacts, JobMemoryOf DEF RefInv, JobInv
  <2>2. CASE k \in js
    <3>1. Told(k)'
      BY <1>3, <2>2 DEF Told
    <3>2. Placed(k)'
      <4>1. cand # None => runState[cand] # "none"
        BY DEF RefInv, TypeInv, RunsNameGen
      <4> QED
        BY <1>1, <1>2, <1>3, <1>5, <1>8, <1>9, <2>2, <4>1 DEF Placed, SameSelection
    <3> QED
      BY <3>1, <3>2
  <2>3. CASE k \notin js
    <3>1. JobSame(k)
      BY <1>4, <2>1, <2>3
    <3>2. memState[MemoryOf[k.rev]] = "absent" => jobState[k] = "none" /\ opState[k] = "none"
      BY <2>1 DEF Told, Placed
    <3>3. Told(k)'
      BY <1>1, <1>7, <2>1, <3>1, <3>2 DEF Told, JobSame
    <3>4. Placed(k)'
      BY <1>1, <1>5, <1>7, <1>9, <2>1, <3>1, <3>2 DEF Placed, JobSame, SameSelection, Unfinished
    <3> QED
      BY <3>3, <3>4
  <2> QED
    BY <2>2, <2>3
<1>11. RevInv'
  <2> SUFFICES ASSUME NEW q \in Revision, memState'[MemoryOf[q]] = "live"
               PROVE  q \in revs' <=> opState'[Ordinary(q)] # "none"
    BY DEF RevInv
  <2>1. CASE q = r
    BY <1>1, <1>2, <1>3, <2>1
  <2>2. CASE q # r
    <3>1. opState'[Ordinary(q)] = opState[Ordinary(q)]
      BY <1>2, <1>4, <2>2, JobMemoryOf, JobFacts DEF JobSame
    <3>2. memState[MemoryOf[q]] = "absent" => q \notin revs /\ opState[Ordinary(q)] = "none"
      BY JobMemoryOf, ZenonT(60) DEF RefInv, NoEarlyRevisions, JobInv, Told, Placed
    <3> QED
      BY <1>1, <1>7, <2>2, <3>1, <3>2, ConstantAssumption DEF RefInv, RevInv
  <2> QED
    BY <2>1, <2>2
<1>12. PurgeInv'
  <2> SUFFICES ASSUME NEW m \in Memory, opState'[Purge(m)] = "ready" PROVE memState'[m] = "purged"
    BY DEF PurgeInv
  <2>1. opState[Purge(m)] = "ready"
    BY <1>2, <1>4, JobMemoryOf DEF JobSame
  <2> QED
    BY <1>7, <2>1 DEF RefInv, PurgeInv
<1> QED
  BY <1>5, <1>10, <1>11, <1>12 DEF CoreInv

LEMMA ForgetRef == ASSUME RefInv, NEW m \in Memory, Forget(m) PROVE CoreInv'
<1>1. /\ memState[m] = "live" /\ memState' = [memState EXCEPT ![m] = "deleted"]
      /\ UNCHANGED <<revs, emb, jobGen, runVars, workerVars, scanVars>>
      /\ cand' = cand /\ active' = active
  BY DEF Forget, settingVars
<1>2. \A j \in Job :
         /\ jobState'[j] = IF j = Purge(m) THEN "pending"
                           ELSE IF j \in JobsOf(m) /\ jobState[j] \in Unfinished THEN "cancelled"
                           ELSE jobState[j]
         /\ opState'[j] = IF j = Purge(m) THEN "accepted"
                          ELSE IF j \in JobsOf(m) /\ opState[j] \in {"accepted", "indexing", "failed"}
                          THEN "cancelled" ELSE opState[j]
  BY DEF Forget
<1>3. leaseLive' \subseteq leaseLive
      /\ \A j \in Job : holder'[j] = holder[j] \/ jobState'[j] # "leased"
  BY DEF Forget, Unfinished
<1>4. CandidateInv' /\ ReadingInv' /\ InferInv' /\ SameSelection
  <2> SUFFICES ASSUME NEW k \in Job, k \in leaseLive', jobState'[k] = "leased"
               PROVE  /\ k \in leaseLive /\ holder[k] = holder'[k] /\ jobState[k] = "leased"
                      /\ opState'[k] = opState[k]
    BY <1>1, RequestFrame
  <2>1. k # Purge(m) /\ jobState[k] = "leased" /\ k \notin JobsOf(m)
    BY <1>2 DEF Unfinished
  <2> QED
    BY <1>2, <1>3, <2>1
<1>5. memState'[m] = "deleted" /\ \A l \in Memory : l # m => memState'[l] = memState[l]
  BY <1>1 DEF RefInv, TypeInv, TypeOK, RowsOK
<1>6. JobInv'
  <2> SUFFICES ASSUME NEW k \in EmbedJob PROVE Told(k)' /\ Placed(k)'
    BY DEF JobInv
  <2>1. Told(k) /\ Placed(k) /\ k \in Job /\ k # Purge(m) /\ MemoryOf[k.rev] \in Memory
        /\ (k \in JobsOf(m) <=> MemoryOf[k.rev] = m)
    BY JobFacts, JobMemoryOf DEF RefInv, JobInv, JobsOf
  <2>2. CASE MemoryOf[k.rev] = m
    <3>1. Told(k)'
      BY <1>2, <1>5, <2>1, <2>2 DEF Told, Unfinished
    <3>2. Placed(k)'
      BY <1>1, <1>2, <1>4, <1>5, <2>1, <2>2 DEF Placed, Unfinished, SameSelection
    <3> QED
      BY <3>1, <3>2
  <2>3. CASE MemoryOf[k.rev] # m
    <3>1. JobSame(k) /\ memState'[MemoryOf[k.rev]] = memState[MemoryOf[k.rev]]
      BY <1>1, <1>2, <1>5, <2>1, <2>3 DEF JobSame
    <3>2. Told(k)'
      BY <1>1, <2>1, <3>1 DEF Told, JobSame
    <3>3. Placed(k)'
      BY <1>1, <1>4, <2>1, <3>1 DEF Placed, JobSame, SameSelection, LiveRevs
    <3> QED
      BY <3>2, <3>3
  <2> QED
    BY <2>2, <2>3
<1>7. RevInv'
  <2> SUFFICES ASSUME NEW r \in Revision, memState'[MemoryOf[r]] = "live"
               PROVE  r \in revs' <=> opState'[Ordinary(r)] # "none"
    BY DEF RevInv
  <2>1. MemoryOf[r] # m /\ memState[MemoryOf[r]] = "live"
    BY <1>5, ConstantAssumption
  <2>2. Ordinary(r) \in Job /\ Ordinary(r) # Purge(m) /\ Ordinary(r) \notin JobsOf(m)
    BY <2>1, JobMemoryOf, JobFacts DEF JobsOf
  <2> QED
    BY <1>1, <1>2, <2>1, <2>2 DEF RefInv, RevInv
<1>8. PurgeInv'
  <2> SUFFICES ASSUME NEW l \in Memory, opState'[Purge(l)] = "ready" PROVE memState'[l] = "purged"
    BY DEF PurgeInv
  <2>1. opState[Purge(l)] = "ready" /\ l # m
    BY <1>2, JobMemoryOf
  <2> QED
    BY <1>5, <2>1 DEF RefInv, PurgeInv
<1> QED
  BY <1>4, <1>6, <1>7, <1>8 DEF CoreInv

LEMMA RequeueRef ==
  ASSUME RefInv, NEW js \in SUBSET Job, Requeue(js), \A j \in js : jobState[j] = "failed",
         UNCHANGED <<settingVars, runVars, workerVars, scanVars>>
  PROVE  CoreInv'
<1>1. /\ UNCHANGED rowVars /\ jobGen' = jobGen /\ UNCHANGED <<holder, leaseLive>>
      /\ \A j \in Job : /\ j \in js => jobState'[j] = "pending" /\ opState'[j] = "accepted"
                        /\ j \notin js => JobSame(j)
  BY DEF Requeue, JobSame
<1>2. cand' = cand /\ active' = active
  BY DEF settingVars
<1>3. CandidateInv' /\ ReadingInv' /\ InferInv' /\ SameSelection
  BY <1>1, <1>2, RequestFrame DEF JobSame
<1>4. JobInv'
  <2> SUFFICES ASSUME NEW k \in EmbedJob PROVE Told(k)' /\ Placed(k)'
    BY DEF JobInv
  <2>1. Told(k) /\ Placed(k) /\ k \in Job
    BY JobFacts DEF RefInv, JobInv
  <2>2. CASE k \notin js
    BY <1>1, <1>3, <2>1, <2>2, JobKept DEF rowVars
  <2>3. CASE k \in js
    <3>1. Told(k)'
      BY <1>1, <2>1, <2>3 DEF Told
    <3>2. Placed(k)'
      BY <1>1, <1>3, <2>1, <2>3 DEF Placed, Unfinished, SameSelection, LiveRevs, rowVars
    <3> QED
      BY <3>1, <3>2
  <2> QED
    BY <2>2, <2>3
<1>5. RevInv'
  <2>1. \A r \in Revision : opState'[Ordinary(r)] = "none" <=> opState[Ordinary(r)] = "none"
    <3> SUFFICES ASSUME NEW r \in Revision
                 PROVE  opState'[Ordinary(r)] = "none" <=> opState[Ordinary(r)] = "none"
      OBVIOUS
    <3>1. Ordinary(r) \in EmbedJob /\ Ordinary(r) \in Job
      BY JobMemoryOf, JobFacts
    <3>2. Ordinary(r) \in js => opState[Ordinary(r)] = "failed"
      BY <3>1 DEF RefInv, JobInv, Told
    <3> QED
      BY <1>1, <3>1, <3>2 DEF JobSame
  <2> QED
    BY <1>1, <2>1 DEF RefInv, RevInv, rowVars
<1>6. PurgeInv'
  BY <1>1, JobMemoryOf DEF RefInv, PurgeInv, JobSame, rowVars
<1> QED
  BY <1>3, <1>4, <1>5, <1>6 DEF CoreInv

LEMMA ApiRef == ASSUME RefInv, Api PROVE CoreInv'
<1>1. ASSUME NEW r \in Revision, Save(r) \/ Revise(r) PROVE CoreInv'
  BY <1>1, AcceptRef DEF Save, Revise
<1>2. ASSUME NEW j \in Job, RetryOperation(j) PROVE CoreInv'
  <2> DEFINE js == {j} \cap {k \in Job : jobState[k] = "failed"}
  <2>1. js \in SUBSET Job /\ \A k \in js : jobState[k] = "failed"
    OBVIOUS
  <2>2. Requeue(js) /\ UNCHANGED <<settingVars, runVars, workerVars, scanVars>>
    BY <1>2 DEF RetryOperation
  <2> HIDE DEF js
  <2> QED
    BY <2>1, <2>2, RequeueRef
<1> QED
  BY <1>1, <1>2, ForgetRef DEF Api

(***************************************************************************)
(* Administration.                                                         *)
(***************************************************************************)

\* The jobs that a cancelled run, or a replaced index, leaves unfinished.
LEMMA CancelEffect ==
  ASSUME RefInv, NEW js \in SUBSET Job, CancelJobs(js)
  PROVE  /\ \A j \in Job : /\ j \in js /\ jobState[j] \in Unfinished =>
                                 jobState'[j] = "cancelled" /\ opState'[j] = "cancelled"
                           /\ j \notin js \/ jobState[j] \notin Unfinished => JobSame(j)
                           /\ jobState'[j] = "leased" => jobState[j] = "leased" /\ JobSame(j)
                           /\ holder'[j] \in {holder[j], None}
         /\ jobGen' = jobGen /\ leaseLive' \subseteq leaseLive
  BY DEF CancelJobs, CloseJobs, JobSame, Unfinished, RefInv, TypeInv, TypeOK, JobsOK

LEMMA CancelInfer ==
  ASSUME RefInv, NEW js \in SUBSET Job, CancelJobs(js), UNCHANGED workerVars
  PROVE  InferInv'
<1> SUFFICES ASSUME NEW w \in Worker, wpc'[w] = "infer", Owned(w)'
             PROVE  opState'[wjob'[w]] = "indexing"
  BY DEF InferInv
<1>1. wpc[w] = "infer" /\ wjob'[w] = wjob[w] /\ wjob[w] \in Job
  BY DEF workerVars, RefInv, TypeInv, BusyWorkers
<1>2. jobState'[wjob[w]] = "leased" /\ holder'[wjob[w]] = w /\ wjob[w] \in leaseLive' /\ w # None
  BY <1>1, ConstantAssumption DEF Owned
<1> QED
  BY <1>1, <1>2, CancelEffect DEF RefInv, InferInv, Owned, JobSame

\* A cancelled job, or one that is left alone, when the selection changes but
\* leaves no other unfinished job unselected.
LEMMA CancelRef ==
  ASSUME RefInv, NEW js \in SUBSET Job, CancelJobs(js), UNCHANGED rowVars,
         UNCHANGED workerVars, UNCHANGED scanVars, ExclusiveBoundary, runGen' = runGen,
         \A n \in Run : runState[n] # "none" => runState'[n] # "none",
         \A j \in EmbedJob : jobState[j] \in Unfinished /\ j.run = None =>
             j \in js \/ active' = active,
         \A j \in EmbedJob :
             jobState[j] \in Unfinished /\ j.run # None /\ memState[MemoryOf[j.rev]] = "live" =>
                 j \in js \/ cand' = cand,
         js \subseteq EmbedJob
  PROVE  JobInv' /\ ReadingInv' /\ InferInv' /\ RevInv' /\ PurgeInv'
<1>1. JobInv'
  <2> SUFFICES ASSUME NEW k \in EmbedJob PROVE Told(k)' /\ Placed(k)'
    BY DEF JobInv
  <2>1. Told(k) /\ Placed(k) /\ k \in Job
    BY JobFacts DEF RefInv, JobInv
  <2>2. LiveRevs' = LiveRevs /\ memState' = memState /\ emb' = emb /\ jobGen'[k] = jobGen[k]
    BY RowsKeepLive, CancelEffect DEF rowVars
  <2>3. CASE k \in js /\ jobState[k] \in Unfinished
    <3>1. jobState'[k] = "cancelled" /\ opState'[k] = "cancelled"
      BY <2>1, <2>3, CancelEffect
    <3>2. Told(k)'
      BY <3>1 DEF Told
    <3>3. Placed(k)'
      BY <2>1, <2>2, <2>3, <3>1, JobFacts DEF Placed, Unfinished
    <3> QED
      BY <3>2, <3>3
  <2>4. CASE ~(k \in js /\ jobState[k] \in Unfinished)
    <3>1. JobSame(k)
      BY <2>1, <2>4, CancelEffect
    <3>2. Told(k)'
      BY <2>1, <2>2, <3>1 DEF Told, JobSame
    <3>3. Placed(k)'
      BY <2>1, <2>2, <2>4, <3>1, JobFacts DEF Placed, JobSame
    <3> QED
      BY <3>2, <3>3
  <2> QED
    BY <2>3, <2>4
<1>2. ReadingInv'
  BY DEF ExclusiveBoundary, ReadingInv, scanVars
<1>3. RevInv'
  <2>1. \A r \in Revision : opState'[Ordinary(r)] = "none" <=> opState[Ordinary(r)] = "none"
    <3> SUFFICES ASSUME NEW r \in Revision
                 PROVE  opState'[Ordinary(r)] = "none" <=> opState[Ordinary(r)] = "none"
      OBVIOUS
    <3>1. Ordinary(r) \in EmbedJob /\ Ordinary(r) \in Job
      BY JobMemoryOf, JobFacts
    <3>2. jobState[Ordinary(r)] \in Unfinished => opState[Ordinary(r)] # "none"
      BY <3>1 DEF RefInv, JobInv, Told, Unfinished
    <3> QED
      BY <3>1, <3>2, CancelEffect DEF JobSame
  <2> QED
    BY <2>1 DEF RefInv, RevInv, rowVars
<1>4. PurgeInv'
  BY JobMemoryOf, CancelEffect DEF RefInv, PurgeInv, JobSame, rowVars
<1> QED
  BY <1>1, <1>2, <1>3, <1>4, CancelInfer

LEMMA AdministrationRef == ASSUME RefInv, Administration PROVE CoreInv'
<1>1. ASSUME NEW n \in Run, NEW g \in Gen, Start(n, g) PROVE CoreInv'
  <2>1. /\ runState[n] = "none" /\ cand = None /\ active # g /\ n # None
        /\ runState' = [runState EXCEPT ![n] = "running"] /\ runGen' = [runGen EXCEPT ![n] = g]
        /\ cand' = n /\ active' = active /\ ExclusiveBoundary
        /\ UNCHANGED rowVars /\ UNCHANGED jobVars /\ UNCHANGED workerVars /\ UNCHANGED scanVars
    BY <1>1, ConstantAssumption DEF Start
  <2>2. runState'[n] = "running" /\ runGen'[n] = g
        /\ \A k \in Run : k # n => runState'[k] = runState[k] /\ runGen'[k] = runGen[k]
    BY <2>1 DEF RefInv, TypeInv, TypeOK, RunsOK
  <2>3. JobInv'
    <3> SUFFICES ASSUME NEW k \in EmbedJob PROVE Told(k)' /\ Placed(k)'
      BY DEF JobInv
    <3>1. Told(k) /\ Placed(k) /\ k.run \in Run \cup {None}
      BY JobFacts DEF RefInv, JobInv
    <3>2. Told(k)'
      BY <2>1, <3>1 DEF Told, rowVars, jobVars
    <3>3. Placed(k)'
      BY <2>1, <2>2, <3>1, RowsKeepLive DEF Placed, rowVars, jobVars
    <3> QED
      BY <3>2, <3>3
  <2>4. CandidateInv'
    BY <2>1, <2>2, ConstantAssumption DEF RefInv, CandidateInv
  <2>5. ReadingInv' /\ InferInv' /\ RevInv' /\ PurgeInv'
    BY <2>1 DEF ReadingInv, ExclusiveBoundary, scanVars, InferInv, Owned, RevInv, PurgeInv,
                RefInv, rowVars, jobVars, workerVars
  <2> QED
    BY <2>3, <2>4, <2>5 DEF CoreInv
<1>2. ASSUME NEW n \in Run, NEW st \in {"running", "paused"}, SetRunState(n, st) PROVE CoreInv'
  <2>1. /\ cand = n /\ runState' = [runState EXCEPT ![n] = st] /\ runGen' = runGen
        /\ cand' = cand /\ active' = active /\ ExclusiveBoundary
        /\ UNCHANGED rowVars /\ UNCHANGED jobVars /\ UNCHANGED workerVars /\ UNCHANGED scanVars
    BY <1>2 DEF SetRunState, settingVars
  <2>2. runState'[n] = st /\ \A k \in Run : k # n => runState'[k] = runState[k]
    BY <2>1 DEF RefInv, TypeInv, TypeOK, RunsOK
  <2>3. JobInv'
    <3> SUFFICES ASSUME NEW k \in EmbedJob PROVE Told(k)' /\ Placed(k)'
      BY DEF JobInv
    <3>1. Told(k) /\ Placed(k) /\ k.run \in Run \cup {None}
      BY JobFacts DEF RefInv, JobInv
    <3>2. Told(k)'
      BY <2>1, <3>1 DEF Told, rowVars, jobVars
    <3>3. Placed(k)'
      BY <2>1, <2>2, <3>1, RowsKeepLive DEF Placed, rowVars, jobVars
    <3> QED
      BY <3>2, <3>3
  <2>4. CandidateInv'
    BY <2>1, <2>2, ConstantAssumption DEF RefInv, CandidateInv
  <2>5. ReadingInv' /\ InferInv' /\ RevInv' /\ PurgeInv'
    BY <2>1 DEF ReadingInv, ExclusiveBoundary, scanVars, InferInv, Owned, RevInv, PurgeInv,
                RefInv, rowVars, jobVars, workerVars
  <2> QED
    BY <2>3, <2>4, <2>5 DEF CoreInv
<1>3. ASSUME NEW n \in Run, RetryRun(n) PROVE CoreInv'
  <2> DEFINE js == {j \in RunJobs(n) : jobState[j] = "failed"}
  <2>1. js \in SUBSET Job /\ \A k \in js : jobState[k] = "failed"
    BY JobFacts DEF RunJobs
  <2>2. Requeue(js) /\ UNCHANGED <<settingVars, runVars, workerVars, scanVars>>
    BY <1>3 DEF RetryRun
  <2> HIDE DEF js
  <2> QED
    BY <2>1, <2>2, RequeueRef
<1>4. ASSUME NEW n \in Run, Cancel(n) PROVE CoreInv'
  <2>1. /\ cand = n /\ cand' = None /\ active' = active /\ runGen' = runGen /\ ExclusiveBoundary
        /\ CancelJobs(RunJobs(n)) /\ runState' = [runState EXCEPT ![n] = "cancelled"]
        /\ UNCHANGED rowVars /\ UNCHANGED workerVars /\ UNCHANGED scanVars
    BY <1>4 DEF Cancel
  <2>2. RunJobs(n) \in SUBSET Job /\ RunJobs(n) \subseteq EmbedJob
    BY JobFacts DEF RunJobs
  <2>3. runState'[n] = "cancelled" /\ \A k \in Run : k # n => runState'[k] = runState[k]
    BY <2>1 DEF RefInv, TypeInv, TypeOK, RunsOK
  <2> DEFINE js == RunJobs(n)
  <2>4. \A j \in EmbedJob :
         jobState[j] \in Unfinished /\ j.run # None /\ memState[MemoryOf[j.rev]] = "live" => j \in js \/ cand' = cand
    BY <2>1 DEF RefInv, JobInv, Placed, RunJobs
  <2>5. \A k \in Run : runState[k] # "none" => runState'[k] # "none"
    BY <2>3
  <2> HIDE DEF js
  <2>6. JobInv' /\ ReadingInv' /\ InferInv' /\ RevInv' /\ PurgeInv'
    <3>1. js \in SUBSET Job /\ js \subseteq EmbedJob /\ CancelJobs(js)
      BY <2>1, <2>2 DEF js
    <3>2. \A j \in EmbedJob : jobState[j] \in Unfinished /\ j.run = None =>
             j \in js \/ active' = active
      BY <2>1
    <3> QED
      BY <2>1, <2>4, <2>5, <3>1, <3>2, CancelRef
  <2>7. CandidateInv'
    BY <2>1, <2>3, ConstantAssumption DEF RefInv, CandidateInv
  <2> QED
    BY <2>6, <2>7 DEF CoreInv
<1>5. ASSUME NEW n \in Run, Activate(n) PROVE CoreInv'
  <2> DEFINE js == {j \in EmbedJob : jobGen[j] = active}
  <2>1. /\ cand = n /\ cand' = None /\ active' = runGen[n] /\ runGen' = runGen /\ ExclusiveBoundary
        /\ CancelJobs(js) /\ runState' = [runState EXCEPT ![n] = "activated"] /\ Covered(runGen[n])
        /\ UNCHANGED rowVars /\ UNCHANGED workerVars /\ UNCHANGED scanVars
    BY <1>5 DEF Activate
  <2>2. js \in SUBSET Job /\ js \subseteq EmbedJob
    BY JobFacts
  <2>3. runState'[n] = "activated" /\ \A k \in Run : k # n => runState'[k] = runState[k]
    BY <2>1 DEF RefInv, TypeInv, TypeOK, RunsOK
  <2>4. \A j \in EmbedJob : jobState[j] \in Unfinished /\ j.run = None => j \in js
    BY DEF RefInv, JobInv, Placed
  <2>5. ASSUME NEW j \in EmbedJob, jobState[j] \in Unfinished, j.run # None,
               memState[MemoryOf[j.rev]] = "live"
        PROVE  FALSE
    <3>1. cand = j.run /\ jobGen[j] = runGen[n] /\ <<j.rev, jobGen[j]>> \notin emb
      BY <2>1, <2>5 DEF RefInv, JobInv, Placed, FreshInv, Unfinished
    <3>2. j.rev \in revs
      BY <2>5 DEF RefInv, FreshInv, Unfinished
    <3> QED
      BY <2>1, <2>5, <3>1, <3>2 DEF Covered, LiveRevs
  <2>6. \A k \in Run : runState[k] # "none" => runState'[k] # "none"
    BY <2>3
  <2> HIDE DEF js
  <2>7. JobInv' /\ ReadingInv' /\ InferInv' /\ RevInv' /\ PurgeInv'
    <3>1. \A j \in EmbedJob : jobState[j] \in Unfinished /\ j.run = None =>
             j \in js \/ active' = active
      BY <2>4
    <3>2. \A j \in EmbedJob :
           jobState[j] \in Unfinished /\ j.run # None /\ memState[MemoryOf[j.rev]] = "live" => j \in js \/ cand' = cand
      BY <2>5
    <3> QED
      BY <2>1, <2>2, <2>6, <3>1, <3>2, CancelRef
  <2>8. CandidateInv'
    BY <2>1, <2>3, ConstantAssumption DEF RefInv, CandidateInv
  <2> QED
    BY <2>7, <2>8 DEF CoreInv
<1>6. CASE ResumeProcessing
  <2>1. SameSelection /\ UNCHANGED <<rowVars, jobVars, workerVars, scanVars>>
    BY <1>6 DEF ResumeProcessing, SameSelection, runVars
  <2>2. \A w \in Worker : InferStays(w)
    BY <2>1 DEF InferStays, Owned, jobVars, workerVars
  <2> QED
    BY <2>1, <2>2, QuietStep DEF RefInv, CoreInv, jobVars, scanVars
<1> QED
  BY <1>1, <1>2, <1>3, <1>4, <1>5, <1>6 DEF Administration, Pause, Resume

(***************************************************************************)
(* Backfill.                                                               *)
(***************************************************************************)
LEMMA EnqueueRef == ASSUME RefInv, NEW s \in Scanner, EnqueueBatch(s) PROVE CoreInv'
<1> DEFINE n == srun[s]
           new == {Candidate(r, n) : r \in {q \in srows[s] : /\ jobState[Candidate(q, n)] = "none"
                                                             /\ <<q, runGen[n]>> \notin emb}}
           gen == [j \in new |-> runGen[n]]
           late == {j \in new : JobMemory(j) \in withheld}
<1>1. /\ spc[s] = "reading" /\ srows[s] \subseteq revs /\ InsertJobs(new, gen, late) /\ ScanIdle(s)
      /\ UNCHANGED rowVars /\ UNCHANGED settingVars /\ UNCHANGED <<runState, runGen, workerVars>>
  BY DEF EnqueueBatch
<1>2. n \in Run /\ n = cand /\ n # None /\ srows[s] \subseteq Revision /\ runState[n] # "none"
  BY <1>1, ConstantAssumption DEF RefInv, ReadingInv, TypeInv, TypeOK, ScannersOK, BusyScanners
<1>3. PICK c \in Run : c = n
  BY <1>2
<1>4. /\ new \subseteq EmbedJob /\ new \subseteq Job
      /\ \A j \in new : j.run = c /\ j.rev \in revs /\ jobState[j] = "none"
      /\ \A r \in Revision : Ordinary(r) \notin new
  <2>1. ASSUME NEW j \in new
        PROVE  j \in EmbedJob /\ j \in Job /\ j.run = c /\ j.rev \in revs /\ jobState[j] = "none"
    <3>1. PICK r \in srows[s] : j = Candidate(r, c) /\ jobState[Candidate(r, c)] = "none"
      BY <1>3
    <3> QED
      BY <1>1, <1>2, <3>1, JobFacts DEF Candidate
  <2>2. \A r \in Revision : Ordinary(r).run = None
    BY JobFacts
  <2>3. c # None
    BY ConstantAssumption
  <2> HIDE DEF new
  <2> QED
    BY <2>1, <2>2, <2>3
<1>5. \A j \in new : jobState'[j] = "pending" /\ opState'[j] = "accepted" /\ jobGen'[j] = runGen[c]
  <2>1. \A j \in new : gen[j] = runGen[c]
    BY <1>3
  <2> HIDE DEF new, gen, late
  <2> QED
    BY <1>1, <1>4, <2>1 DEF InsertJobs
<1>6. /\ \A j \in Job : j \notin new => JobSame(j)
      /\ UNCHANGED <<holder, leaseLive>>
  BY <1>1 DEF InsertJobs, JobSame
<1>7. SameSelection /\ c = cand /\ runState[c] # "none"
  BY <1>1, <1>2, <1>3 DEF SameSelection, settingVars
<1> HIDE DEF new, gen, late, n
<1>8. JobInv'
  <2> SUFFICES ASSUME NEW k \in EmbedJob PROVE Told(k)' /\ Placed(k)'
    BY DEF JobInv
  <2>1. Told(k) /\ Placed(k) /\ k \in Job
    BY JobFacts DEF RefInv, JobInv
  <2>2. CASE k \notin new
    BY <1>1, <1>6, <1>7, <2>1, <2>2, JobKept DEF rowVars
  <2>3. CASE k \in new
    <3>1. Told(k)'
      BY <1>5, <2>3 DEF Told
    <3>2. memState[MemoryOf[k.rev]] # "absent"
      BY <1>4, <2>3 DEF RefInv, NoEarlyRevisions
    <3>3. Placed(k)'
      BY <1>1, <1>4, <1>5, <1>7, <2>3, <3>2, ConstantAssumption
      DEF Placed, SameSelection, rowVars
    <3> QED
      BY <3>1, <3>3
  <2> QED
    BY <2>2, <2>3
<1>9. CandidateInv'
  BY <1>7, RunsKeptRef DEF RefInv
<1>10. ReadingInv'
  BY <1>1, <1>7, ReadingKept DEF ScanIdle, RefInv, SameSelection, TypeInv, TypeOK, ScannersOK
<1>11. InferInv'
  <2> SUFFICES ASSUME NEW w \in Worker PROVE InferStays(w)
    BY InferKept DEF RefInv
  <2>1. ASSUME wpc'[w] = "infer", Owned(w)'
        PROVE  /\ wpc[w] = "infer" /\ Owned(w) /\ wjob'[w] = wjob[w]
               /\ opState'[wjob[w]] = opState[wjob[w]]
    <3>1. wpc[w] = "infer" /\ wjob'[w] = wjob[w] /\ wjob[w] \in Job
      BY <1>1, <2>1 DEF workerVars, RefInv, TypeInv, BusyWorkers
    <3>2. wjob[w] \notin new
      BY <1>5, <2>1, <3>1 DEF Owned
    <3> QED
      BY <1>6, <2>1, <3>1, <3>2 DEF Owned, JobSame
  <2> QED
    BY <2>1 DEF InferStays
<1>12. RevInv' /\ PurgeInv'
  <2>1. \A r \in Revision : opState'[Ordinary(r)] = opState[Ordinary(r)]
    BY <1>4, <1>6, JobMemoryOf, JobFacts DEF JobSame
  <2>2. \A m \in Memory : opState'[Purge(m)] = opState[Purge(m)]
    BY <1>4, <1>6, JobMemoryOf DEF JobSame
  <2> QED
    BY <1>1, <2>1, <2>2 DEF RefInv, RevInv, PurgeInv, rowVars
<1> QED
  BY <1>8, <1>9, <1>10, <1>11, <1>12 DEF CoreInv

LEMMA ScannerRef == ASSUME RefInv, NEW s \in Scanner, ScannerStep(s) PROVE CoreInv'
<1>1. ASSUME UNCHANGED <<rowVars, jobVars, settingVars, workerVars>>, UNCHANGED <<runState, runGen>>,
             \A t \in Scanner : spc'[t] = "reading" => \/ spc[t] = "reading" /\ srun'[t] = srun[t]
                                                       \/ srun'[t] = cand
      PROVE  CoreInv'
  <2>1. \A w \in Worker : InferStays(w)
    BY <1>1 DEF InferStays, Owned, jobVars, workerVars
  <2> QED
    BY <1>1, <2>1, QuietStep DEF RefInv, CoreInv, SameSelection, settingVars, jobVars
<1>2. ASSUME NEW n \in Run, ClaimScan(s, n) PROVE CoreInv'
  BY <1>1, <1>2 DEF ClaimScan, RefInv, TypeInv, TypeOK, ScannersOK
<1>3. CASE ScanStops(s) \/ ScanBackpressure(s) \/ ScanAborts(s)
  <2>1. ScanIdle(s) /\ UNCHANGED <<rowVars, jobVars, settingVars, workerVars>>
        /\ UNCHANGED <<runState, runGen>>
    BY <1>3 DEF ScanStops, ScanBackpressure, ScanAborts, runVars
  <2> QED
    BY <1>1, <2>1 DEF ScanIdle, RefInv, TypeInv, TypeOK, ScannersOK
<1>4. CASE ReadBatch(s)
  <2>1. /\ spc[s] = "claimed" /\ ScanOwned(s) /\ spc' = [spc EXCEPT ![s] = "reading"] /\ srun' = srun
        /\ UNCHANGED <<rowVars, jobVars, settingVars, workerVars>> /\ UNCHANGED <<runState, runGen>>
    BY <1>4 DEF ReadBatch, runVars
  <2>2. srun[s] = cand
    BY <2>1 DEF ScanOwned, RefInv, CandidateInv, TypeInv, BusyScanners
  <2> QED
    BY <1>1, <2>1, <2>2 DEF RefInv, TypeInv, TypeOK, ScannersOK
<1> QED
  BY <1>2, <1>3, <1>4, EnqueueRef DEF ScannerStep

(***************************************************************************)
(* Restore, time and the environment.                                      *)
(***************************************************************************)
\* The memories whose deletion a restore carries out.
Gone == {m \in Memory : memState[m] \in {"deleted", "purged"}}

LEMMA RestoreRows ==
  ASSUME Restore
  PROVE  /\ memState' = [m \in Memory |-> IF m \in Gone THEN "purged" ELSE memState[m]]
         /\ revs' = {r \in revs : MemoryOf[r] \notin Gone}
         /\ emb' = {e \in emb : MemoryOf[e[1]] \notin Gone}
         /\ UNCHANGED <<jobGen, active, cand, runGen>>
  BY DEF Restore, Gone

LEMMA RestoreProcesses ==
  ASSUME Restore
  PROVE  /\ \A w \in Worker : wpc'[w] = "idle"
         /\ \A s \in Scanner : spc'[s] = "idle"
         /\ runState' = [n \in Run |-> IF runState[n] = "running" THEN "paused" ELSE runState[n]]
  BY DEF Restore

LEMMA RestoreJobs ==
  ASSUME Restore,
         NEW j \in EmbedJob
  PROVE  IF MemoryOf[j.rev] \in Gone /\ jobState[j] \in Unfinished
         THEN jobState'[j] = "cancelled" /\ opState'[j] = "cancelled"
         ELSE /\ jobState'[j] = IF jobState[j] = "leased" THEN "pending" ELSE jobState[j]
              /\ opState'[j] = IF opState[j] = "indexing" THEN "accepted" ELSE opState[j]
<1>1. j \in Job /\ j \notin PurgeJob /\ JobMemory(j) = MemoryOf[j.rev]
  BY JobFacts, JobMemoryOf
<1> QED
  BY <1>1 DEF Restore, Unfinished, Gone

LEMMA RestorePurges ==
  ASSUME Restore, NEW m \in Memory, opState'[Purge(m)] = "ready"
  PROVE  memState[m] \in {"deleted", "purged"} \/ opState[Purge(m)] = "ready"
<1>1. Purge(m) \in Job /\ Purge(m) \in PurgeJob /\ JobMemory(Purge(m)) = m
  BY JobFacts, JobMemoryOf
<1> QED
  BY <1>1 DEF Restore

LEMMA RestoreRef == ASSUME RefInv, Restore PROVE CoreInv'
<1>2. memState \in [Memory -> {"absent", "live", "deleted", "purged"}]
      /\ runState \in [Run -> {"none", "running", "paused", "cancelled", "activated"}]
  BY DEF RefInv, TypeInv, TypeOK, RowsOK, RunsOK
<1>3. \A m \in Memory : /\ m \in Gone => memState'[m] = "purged" /\ memState[m] \notin {"live", "absent"}
                        /\ m \notin Gone => memState'[m] = memState[m] /\ memState[m] \in {"live", "absent"}
  BY <1>2, RestoreRows DEF Gone
<1>4. JobInv'
  <2> SUFFICES ASSUME NEW k \in EmbedJob PROVE Told(k)' /\ Placed(k)'
    BY DEF JobInv
  <2>1. Told(k) /\ Placed(k) /\ k \in Job /\ MemoryOf[k.rev] \in Memory
    BY JobFacts, JobMemoryOf DEF RefInv, JobInv
  <2>2. /\ UNCHANGED <<jobGen, active, cand, runGen>>
        /\ revs' = {r \in revs : MemoryOf[r] \notin Gone}
        /\ emb' = {e \in emb : MemoryOf[e[1]] \notin Gone}
    BY RestoreRows
  <2>3. runState[k.run] # "none" /\ k.run \in Run => runState'[k.run] # "none"
    BY <1>2, RestoreProcesses
  <2>4. k.run \in Run \cup {None}
    BY JobFacts
  <2>5. CASE MemoryOf[k.rev] \in Gone /\ jobState[k] \in Unfinished
    <3>1. jobState'[k] = "cancelled" /\ opState'[k] = "cancelled"
      BY <2>5, RestoreJobs
    <3>2. Told(k)'
      BY <3>1 DEF Told
    <3>3. Placed(k)'
      BY <1>3, <2>1, <2>2, <2>3, <2>4, <2>5, <3>1 DEF Placed, Unfinished
    <3> QED
      BY <3>2, <3>3
  <2>6. CASE ~(MemoryOf[k.rev] \in Gone /\ jobState[k] \in Unfinished)
    <3>1. /\ jobState'[k] = IF jobState[k] = "leased" THEN "pending" ELSE jobState[k]
          /\ opState'[k] = IF opState[k] = "indexing" THEN "accepted" ELSE opState[k]
      BY <2>6, RestoreJobs
    <3>2. Told(k)'
      BY <1>3, <2>1, <2>2, <3>1 DEF Told
    <3>3. Placed(k)'
      BY <1>3, <2>1, <2>2, <2>3, <2>4, <2>6, <3>1 DEF Placed, Unfinished, LiveRevs
    <3> QED
      BY <3>2, <3>3
  <2> QED
    BY <2>5, <2>6
<1>5. CandidateInv'
  <2>1. runState' = [n \in Run |-> IF runState[n] = "running" THEN "paused" ELSE runState[n]]
        /\ UNCHANGED <<active, cand, runGen>>
    BY RestoreRows, RestoreProcesses
  <2> QED
    BY <1>2, <2>1 DEF RefInv, CandidateInv
<1>6. ReadingInv' /\ InferInv'
  BY RestoreProcesses DEF ReadingInv, InferInv
<1>7. RevInv'
  <2> SUFFICES ASSUME NEW r \in Revision, memState'[MemoryOf[r]] = "live"
               PROVE  r \in revs' <=> opState'[Ordinary(r)] # "none"
    BY DEF RevInv
  <2>1. MemoryOf[r] \notin Gone /\ memState[MemoryOf[r]] = "live"
    BY <1>3, ConstantAssumption
  <2>2. opState'[Ordinary(r)] # "none" <=> opState[Ordinary(r)] # "none"
    BY <2>1, RestoreJobs, JobMemoryOf
  <2> QED
    BY <2>1, <2>2, RestoreRows DEF RefInv, RevInv
<1>8. PurgeInv'
  <2> SUFFICES ASSUME NEW m \in Memory, opState'[Purge(m)] = "ready" PROVE memState'[m] = "purged"
    BY DEF PurgeInv
  <2>1. m \in Gone \/ memState[m] = "purged"
    BY RestorePurges DEF RefInv, PurgeInv, Gone
  <2> QED
    BY <1>3, <2>1
<1> QED
  BY <1>4, <1>5, <1>6, <1>7, <1>8 DEF CoreInv

LEMMA OthersRef == ASSUME RefInv, TimePasses \/ Environment \/ UNCHANGED vars PROVE CoreInv'
<1>1. ASSUME UNCHANGED <<rowVars, jobState, opState, jobGen, holder, active, cand, runGen, runState,
                         workerVars, scanVars>>, leaseLive' \subseteq leaseLive
      PROVE  CoreInv'
  <2>1. \A w \in Worker : InferStays(w)
    BY <1>1 DEF InferStays, Owned, workerVars
  <2> QED
    BY <1>1, <2>1, QuietStep DEF RefInv, CoreInv, SameSelection, scanVars
<1>2. CASE TimePasses
  BY <1>1, <1>2 DEF TimePasses, LeaseExpires, BecomesDue, ScanLeaseExpires, settingVars, runVars,
         jobVars
<1>3. CASE Environment
  BY <1>1, <1>3, RestoreRef
  DEF Environment, AccessChanges, Withhold, Reread, settingVars, runVars, jobVars
<1>4. CASE UNCHANGED vars
  BY <1>1, <1>4 DEF vars, settingVars, runVars, jobVars
<1> QED
  BY <1>2, <1>3, <1>4

(***************************************************************************)
(* FreshInv.                                                               *)
(***************************************************************************)

\* A step that adds no vector and no job, and takes whole memories away.
LEMMA FreshKept ==
  ASSUME RefInv, emb' \subseteq emb, \A e \in emb' : e[1] \in revs',
         \A j \in EmbedJob :
             /\ memState'[MemoryOf[j.rev]] = "live" =>
                   memState[MemoryOf[j.rev]] = "live" /\ (j.rev \in revs => j.rev \in revs')
             /\ jobGen'[j] = jobGen[j]
             /\ jobState'[j] # "none" => jobState[j] # "none"
             /\ jobState'[j] \in Unfinished => jobState[j] \in Unfinished
  PROVE  FreshInv'
  BY DEF RefInv, FreshInv

LEMMA FreshFrame ==
  ASSUME RefInv, UNCHANGED rowVars, jobGen' = jobGen,
         \A j \in Job : /\ jobState'[j] # "none" => jobState[j] # "none"
                        /\ jobState'[j] \in Unfinished => jobState[j] \in Unfinished
  PROVE  FreshInv'
  BY FreshKept, JobFacts DEF RefInv, FreshInv, rowVars

LEMMA AcceptFresh ==
  ASSUME RefInv, NEW r \in Revision, Accept(r),
         \/ memState[MemoryOf[r]] = "absent" /\ memState' = [memState EXCEPT ![MemoryOf[r]] = "live"]
         \/ memState[MemoryOf[r]] = "live" /\ memState' = memState /\ r \notin revs
  PROVE  FreshInv'
<1> DEFINE js == {Ordinary(r)} \cup (IF cand = None THEN {} ELSE {Candidate(r, cand)})
           gen == [j \in js |-> IF j.run = None THEN active ELSE runGen[j.run]]
<1>1. revs' = revs \cup {r} /\ emb' = emb /\ InsertJobs(js, gen, {})
  BY DEF Accept
<1>2. r \notin revs /\ \A e \in emb : e[1] # r
  BY DEF RefInv, NoEarlyRevisions, FreshInv
<1>3. \A j \in js : j.rev = r
  BY DEF Ordinary, Candidate
<1>4. \A j \in EmbedJob : j \notin js => jobState'[j] = jobState[j] /\ jobGen'[j] = jobGen[j]
  BY <1>1, JobFacts DEF InsertJobs
<1>5. \A j \in EmbedJob : /\ MemoryOf[j.rev] \in Memory
                          /\ memState[MemoryOf[j.rev]] = "absent" => jobState[j] = "none"
  BY JobMemoryOf DEF RefInv, JobInv, Placed
<1>6. memState \in [Memory -> {"absent", "live", "deleted", "purged"}]
  BY DEF RefInv, TypeInv, TypeOK, RowsOK
<1> HIDE DEF js, gen
<1>7. ASSUME NEW j \in EmbedJob, memState'[MemoryOf[j.rev]] = "live", j \notin js, jobState'[j] # "none"
      PROVE  jobState[j] # "none" /\ memState[MemoryOf[j.rev]] = "live"
  BY <1>4, <1>5, <1>6, <1>7
<1>8. ASSUME NEW j \in EmbedJob, jobState'[j] # "none", memState'[MemoryOf[j.rev]] = "live"
      PROVE  j.rev \in revs'
  BY <1>1, <1>3, <1>7, <1>8 DEF RefInv, FreshInv
<1>9. ASSUME NEW j \in EmbedJob, jobState'[j] \in Unfinished, j.run # None,
             memState'[MemoryOf[j.rev]] = "live"
      PROVE  <<j.rev, jobGen'[j]>> \notin emb'
  <2>1. CASE j \in js
    BY <1>1, <1>2, <1>3, <2>1
  <2>2. CASE j \notin js
    BY <1>1, <1>4, <1>7, <1>9, <2>2 DEF RefInv, FreshInv, Unfinished
  <2> QED
    BY <2>1, <2>2
<1> QED
  BY <1>1, <1>8, <1>9 DEF FreshInv, RefInv

LEMMA PublishFresh == ASSUME RefInv, NEW w \in Worker, Publish(w) PROVE FreshInv'
<1>1. wpc[w] = "infer" /\ Owned(w) /\ memState' = memState /\ revs' = revs
  BY DEF Publish
<1>2. PICK j \in EmbedJob : j = wjob[w]
  BY <1>1 DEF RefInv, TypeInv, BusyWorkers
<1>3. j \in Job /\ jobState[j] = "leased"
  BY <1>1, <1>2, OwnedJob, JobFacts
<1>4. \/ emb' = emb /\ (PolicyStops(j, TRUE) \/ Finish(j, "cancelled"))
      \/ emb' = emb \cup {<<j.rev, jobGen[j]>>} /\ Finish(j, "ready")
         /\ Allowed(j, TRUE) /\ Readable(j)
  BY <1>2 DEF Publish
<1>5. /\ jobGen' = jobGen
      /\ \A k \in Job : k # j => jobState'[k] = jobState[k]
      /\ Finish(j, "ready") => jobState'[j] = "ready"
  BY <1>3, <1>4 DEF PolicyStops, Finish, GiveBack, CloseJobs
<1>6. CASE emb' = emb
  BY <1>1, <1>3, <1>5, <1>6, FreshFrame DEF rowVars, Unfinished
<1>7. CASE /\ emb' = emb \cup {<<j.rev, jobGen[j]>>} /\ Finish(j, "ready")
           /\ Allowed(j, TRUE) /\ Readable(j)
  <2>1. j.rev \in revs
    BY <1>7 DEF Readable, LiveRevs
  <2>2. ASSUME NEW k \in EmbedJob, jobState'[k] \in Unfinished, k.run # None,
               memState[MemoryOf[k.rev]] = "live"
        PROVE  <<k.rev, jobGen[k]>> \notin emb'
    <3>1. k # j /\ k \in Job /\ jobState[k] \in Unfinished
      BY <1>5, <1>7, <2>2, JobFacts DEF Unfinished
    <3>2. cand = k.run /\ jobGen[k] = runGen[cand] /\ <<k.rev, jobGen[k]>> \notin emb /\ cand # None
      BY <2>2, <3>1 DEF RefInv, JobInv, Placed, FreshInv, Unfinished
    <3>3. j.run = None => jobGen[j] # jobGen[k]
      <4>1. runGen[cand] # active
        BY <3>2 DEF RefInv, CandidateInv
      <4> QED
        BY <1>7, <3>2, <4>1 DEF Allowed, Obsolete
    <3>4. j.run # None => j.rev # k.rev
      <4>1. j.run # None => j.run = k.run
        BY <1>7, <3>2 DEF Allowed, Obsolete
      <4> QED
        BY <3>1, <4>1 DEF EmbedJob
    <3> QED
      BY <1>7, <3>2, <3>3, <3>4
  <2> QED
    BY <1>1, <1>3, <1>5, <1>7, <2>1, <2>2, JobFacts DEF FreshInv, RefInv, Unfinished
<1> QED
  BY <1>4, <1>6, <1>7

LEMMA EnqueueFresh == ASSUME RefInv, NEW s \in Scanner, EnqueueBatch(s) PROVE FreshInv'
<1> DEFINE n == srun[s]
           new == {Candidate(r, n) : r \in {q \in srows[s] : /\ jobState[Candidate(q, n)] = "none"
                                                             /\ <<q, runGen[n]>> \notin emb}}
           gen == [j \in new |-> runGen[n]]
           late == {j \in new : JobMemory(j) \in withheld}
<1>1. /\ spc[s] = "reading" /\ srows[s] \subseteq revs /\ InsertJobs(new, gen, late)
      /\ UNCHANGED rowVars
  BY DEF EnqueueBatch
<1>2. \A j \in new : j.rev \in revs /\ <<j.rev, runGen[n]>> \notin emb /\ gen[j] = runGen[n]
  <2> SUFFICES ASSUME NEW j \in new
               PROVE  j.rev \in revs /\ <<j.rev, runGen[n]>> \notin emb /\ gen[j] = runGen[n]
    OBVIOUS
  <2>1. gen[j] = runGen[n]
    OBVIOUS
  <2>2. PICK q \in srows[s] : j = Candidate(q, n) /\ <<q, runGen[n]>> \notin emb
    OBVIOUS
  <2>3. j.rev = q
    BY <2>2 DEF Candidate
  <2> HIDE DEF new, gen, n
  <2> QED
    BY <1>1, <2>1, <2>2, <2>3
<1> HIDE DEF new, gen, late, n
<1>3. \A j \in EmbedJob : j \in Job /\ /\ j \in new => jobGen'[j] = gen[j]
                                       /\ j \notin new => /\ jobGen'[j] = jobGen[j]
                                                          /\ jobState'[j] = jobState[j]
  BY <1>1, JobFacts DEF InsertJobs
<1>4. emb' = emb /\ revs' = revs /\ memState' = memState
  BY <1>1 DEF rowVars
<1>5. ASSUME NEW j \in EmbedJob, jobState'[j] # "none", memState'[MemoryOf[j.rev]] = "live"
      PROVE  j.rev \in revs'
  BY <1>2, <1>3, <1>4, <1>5 DEF RefInv, FreshInv
<1>6. ASSUME NEW j \in EmbedJob, jobState'[j] \in Unfinished, j.run # None,
             memState'[MemoryOf[j.rev]] = "live"
      PROVE  <<j.rev, jobGen'[j]>> \notin emb'
  <2>1. CASE j \in new
    BY <1>2, <1>3, <1>4, <2>1
  <2>2. CASE j \notin new
    BY <1>3, <1>4, <1>6, <2>2 DEF RefInv, FreshInv
  <2> QED
    BY <2>1, <2>2
<1>7. \A e \in emb' : e[1] \in revs'
  BY <1>4 DEF RefInv, FreshInv
<1> QED
  BY <1>5, <1>6, <1>7 DEF FreshInv

LEMMA WorkerFresh == ASSUME RefInv, NEW w \in Worker, WorkerStep(w) PROVE FreshInv'
<1>1. ASSUME UNCHANGED rowVars, jobGen' = jobGen, NEW j \in Job, jobState[j] \in Unfinished,
             \A k \in Job : k # j => jobState'[k] = jobState[k]
      PROVE  FreshInv'
  BY <1>1, FreshFrame DEF Unfinished
<1>2. ASSUME NEW j \in Job, ClaimPurge(w, j) \/ ClaimEmbed(w, j) PROVE FreshInv'
  <2>1. Lease(w, j) /\ jobState[j] \in Unfinished
    BY <1>2 DEF ClaimPurge, ClaimEmbed, Eligible, Unfinished
  <2> QED
    BY <1>1, <2>1 DEF Lease, RefInv, TypeInv, TypeOK, JobsOK
<1>3. CASE LeaseLost(w) \/ Crash(w)
  BY <1>3, FreshFrame DEF LeaseLost, Crash, jobVars
<1>4. CASE FailAttempt(w) \/ BudgetReduced(w) \/ Begin(w)
  <2>1. wpc[w] # "idle" /\ Owned(w) /\ UNCHANGED rowVars
    BY <1>4 DEF FailAttempt, BudgetReduced, Begin
  <2>2. PICK j \in Job : j = wjob[w]
    BY <2>1, OwnedJob
  <2>3. jobState[j] \in Unfinished
    BY <2>1, <2>2 DEF Owned, Unfinished
  <2>4. jobGen' = jobGen /\ \A k \in Job : k # j => jobState'[k] = jobState[k]
    BY <1>4, <2>2
    DEF FailAttempt, BudgetReduced, Begin, PolicyStops, Finish, GiveBack, CloseJobs
  <2> QED
    BY <1>1, <2>1, <2>3, <2>4
<1>5. CASE PurgeStep(w)
  <2>1. wpc[w] # "idle" /\ Owned(w) /\ wjob[w] \in PurgeJob
    BY <1>5 DEF PurgeStep
  <2>2. PICK j \in PurgeJob : j = wjob[w] /\ j \in Job /\ j.mem \in Memory
    BY <2>1, JobFacts
  <2>3. jobState[j] \in Unfinished
    BY <2>1, <2>2 DEF Owned, Unfinished
  <2>4. jobGen' = jobGen /\ \A k \in Job : k # j => jobState'[k] = jobState[k]
    <3>1. Finish(j, "ready") \/ Finish(j, "cancelled")
      BY <1>5, <2>2 DEF PurgeStep
    <3> QED
      BY <3>1 DEF Finish, CloseJobs
  <2>5. CASE UNCHANGED rowVars
    BY <1>1, <2>2, <2>3, <2>4, <2>5
  <2>6. CASE /\ memState' = [memState EXCEPT ![j.mem] = "purged"]
             /\ revs' = {r \in revs : MemoryOf[r] # j.mem}
             /\ emb' = {e \in emb : MemoryOf[e[1]] # j.mem}
    <3>1. \A m \in Memory : memState'[m] = "live" => memState[m] = "live" /\ m # j.mem
      BY <2>2, <2>6 DEF RefInv, TypeInv, TypeOK, RowsOK
    <3>2. \A e \in emb' : e[1] \in revs'
      BY <2>6 DEF RefInv, FreshInv
    <3>3. \A k \in EmbedJob : k \in Job /\ k # j /\ MemoryOf[k.rev] \in Memory
      BY <2>2, JobFacts, JobMemoryOf
    <3> QED
      BY <2>4, <2>6, <3>1, <3>2, <3>3, FreshKept
  <2> QED
    BY <1>5, <2>2, <2>5, <2>6 DEF PurgeStep
<1> QED
  BY <1>2, <1>3, <1>4, <1>5, PublishFresh, JobFacts DEF WorkerStep

LEMMA ForgetFresh == ASSUME RefInv, NEW m \in Memory, Forget(m) PROVE FreshInv'
<1>1. memState' = [memState EXCEPT ![m] = "deleted"] /\ UNCHANGED <<revs, emb, jobGen>>
  BY DEF Forget
<1>2. \A j \in EmbedJob : j \in Job /\ j # Purge(m) /\ MemoryOf[j.rev] \in Memory
  BY JobFacts, JobMemoryOf
<1>3. \A j \in EmbedJob : jobState'[j] \in {jobState[j], "cancelled"}
                          /\ (jobState[j] = "none" => jobState'[j] = "none")
  BY <1>2 DEF Forget, Unfinished
<1>4. \A l \in Memory : memState'[l] = "live" => memState[l] = "live"
  BY <1>1 DEF RefInv, TypeInv, TypeOK, RowsOK
<1>5. \A e \in emb' : e[1] \in revs'
  BY <1>1 DEF RefInv, FreshInv
<1>6. \A j \in EmbedJob : /\ jobState'[j] # "none" => jobState[j] # "none"
                          /\ jobState'[j] \in Unfinished => jobState[j] \in Unfinished
  BY <1>3 DEF Unfinished
<1> QED
  BY <1>1, <1>2, <1>4, <1>5, <1>6, FreshKept

LEMMA RestoreFresh == ASSUME RefInv, Restore PROVE FreshInv'
<1>1. \A m \in Memory : memState'[m] = "live" => memState[m] = "live" /\ m \notin Gone
  BY RestoreRows DEF RefInv, TypeInv, TypeOK, RowsOK, Gone
<1>2. \A e \in emb' : e[1] \in revs'
  BY RestoreRows DEF RefInv, FreshInv
<1>3. \A j \in EmbedJob : /\ jobState'[j] # "none" => jobState[j] # "none"
                          /\ jobState'[j] \in Unfinished => jobState[j] \in Unfinished
  BY RestoreJobs DEF Unfinished
<1>4. emb' \subseteq emb /\ jobGen' = jobGen /\ \A r \in revs : MemoryOf[r] \notin Gone => r \in revs'
  BY RestoreRows
<1> QED
  BY <1>1, <1>2, <1>3, <1>4, FreshKept, JobMemoryOf

LEMMA StepFresh == ASSUME RefInv, [Next]_vars PROVE FreshInv'
<1>1. ASSUME NEW js \in SUBSET Job, Requeue(js), \A j \in js : jobState[j] = "failed" PROVE FreshInv'
  BY <1>1, FreshFrame DEF Requeue, Unfinished
<1>2. ASSUME NEW js \in SUBSET Job, CancelJobs(js), UNCHANGED rowVars PROVE FreshInv'
  BY <1>2, FreshFrame, CancelEffect DEF Unfinished, JobSame
<1>3. ASSUME UNCHANGED rowVars, UNCHANGED <<jobState, jobGen>> PROVE FreshInv'
  BY <1>3, FreshFrame
<1>4. CASE Api
  <2>1. ASSUME NEW j \in Job, RetryOperation(j) PROVE FreshInv'
    BY <1>1, <2>1 DEF RetryOperation
  <2>2. ASSUME NEW r \in Revision, Save(r) \/ Revise(r) PROVE FreshInv'
    BY <2>2, AcceptFresh DEF Save, Revise
  <2> QED
    BY <1>4, <2>1, <2>2, ForgetFresh DEF Api
<1>5. CASE Administration
  <2>1. ASSUME NEW n \in Run, NEW g \in Gen, Start(n, g) PROVE FreshInv'
    BY <1>3, <2>1 DEF Start, jobVars
  <2>2. ASSUME NEW n \in Run, RetryRun(n) PROVE FreshInv'
    <3>1. {j \in RunJobs(n) : jobState[j] = "failed"} \in SUBSET Job
      BY JobFacts DEF RunJobs
    <3> QED
      BY <1>1, <2>2, <3>1 DEF RetryRun
  <2>3. ASSUME NEW n \in Run, Cancel(n) PROVE FreshInv'
    <3>1. RunJobs(n) \in SUBSET Job
      BY JobFacts DEF RunJobs
    <3> QED
      BY <1>2, <2>3, <3>1 DEF Cancel
  <2>4. ASSUME NEW n \in Run, Activate(n) PROVE FreshInv'
    <3>1. {j \in EmbedJob : jobGen[j] = active} \in SUBSET Job
      BY JobFacts
    <3> QED
      BY <1>2, <2>4, <3>1 DEF Activate
  <2>5. CASE ResumeProcessing
    BY <1>3, <2>5 DEF ResumeProcessing, jobVars
  <2>6. ASSUME NEW n \in Run, Pause(n) \/ Resume(n) PROVE FreshInv'
    BY <1>3, <2>6 DEF Pause, Resume, SetRunState, jobVars
  <2> QED
    BY <1>5, <2>1, <2>2, <2>3, <2>4, <2>5, <2>6 DEF Administration
<1>6. ASSUME NEW s \in Scanner, ScannerStep(s) PROVE FreshInv'
  <2>1. ASSUME \/ \E n \in Run : ClaimScan(s, n)
               \/ ScanStops(s) \/ ScanBackpressure(s) \/ ReadBatch(s) \/ ScanAborts(s)
        PROVE  FreshInv'
    BY <1>3, <2>1 DEF ClaimScan, ScanStops, ScanBackpressure, ReadBatch, ScanAborts, jobVars
  <2> QED
    BY <1>6, <2>1, EnqueueFresh DEF ScannerStep
<1>7. CASE TimePasses
  BY <1>3, <1>7 DEF TimePasses, LeaseExpires, BecomesDue, ScanLeaseExpires, jobVars
<1>8. CASE Environment
  BY <1>3, <1>8, RestoreFresh DEF Environment, AccessChanges, Withhold, Reread, jobVars
<1>9. CASE UNCHANGED vars
  BY <1>3, <1>9 DEF vars, jobVars
<1> QED
  BY <1>4, <1>5, <1>6, <1>7, <1>8, <1>9, WorkerFresh DEF Next

LEMMA InitFresh == Init => FreshInv
  BY JobFacts DEF Init, FreshInv, Unfinished

\* RefInv holds together with the invariant of RevisionsKept.
LEMMA RefInvariant == Spec => [](LostInv /\ RefInv)
<1>1. Init => LostInv /\ RefInv
  BY InitTypeInv, InitLost, InitRef, InitFresh DEF LostInv, RefInv, CoreInv
<1>2. LostInv /\ RefInv /\ [Next]_vars => (LostInv /\ RefInv)'
  <2> SUFFICES ASSUME LostInv, RefInv, [Next]_vars PROVE LostInv' /\ RefInv'
    OBVIOUS
  <2>1. TypeInv'
    BY StepType DEF LostInv
  <2>2. NoEarlyRevisions' /\ NoRevisionLost'
    BY ApiLost, AdministrationLost, WorkerLost, ScannerLost, OthersLost DEF Next
  <2>3. FreshInv'
    BY StepFresh
  <2>4. CoreInv'
    BY ApiRef, AdministrationRef, WorkerRef, ScannerRef, OthersRef DEF Next
  <2> QED
    BY <2>1, <2>2, <2>3, <2>4 DEF LostInv, RefInv, CoreInv
<1> QED
  BY <1>1, <1>2, PTL DEF Spec

\* What a client polls is true: finishing a job, giving it back, failing it,
\* cancelling it and restoring it keep the operation and the job in step, and a
\* job is ready only in the transaction that publishes (worker._finish, fail,
\* _policy, forget_in_transaction, _cancel_jobs, recovery.py).
THEOREM OperationsTellTheTruth == Spec => []OperationTellsTruth
<1>1. RefInv => OperationTellsTruth
  BY JobMemoryOf DEF RefInv, JobInv, Told, PurgeInv, OperationTellsTruth
<1> QED
  BY <1>1, RefInvariant, PTL

\* Unfinished embedding work of a live memory is for the active index or the
\* selected candidate: cutover and cancellation close the jobs of the index they
\* deselect, and a job that names a deselected one is never inserted.
THEOREM NoWorkIsStranded == Spec => []NoStrandedWork
<1>1. RefInv => NoStrandedWork
  BY JobMemoryOf DEF RefInv, JobInv, Placed, NoStrandedWork
<1> QED
  BY <1>1, RefInvariant, PTL

(***************************************************************************)
(* The refinement.  First what a step does to the two mapped variables.    *)
(***************************************************************************)
LEMMA InitSpace == Init => Space!Init
  BY JobMemoryOf, JobFacts DEF Init, Space!Init, StatusNow, SearchableNow, LiveRevs

SameStatus == \A r \in Revision : opState'[Ordinary(r)] = opState[Ordinary(r)]

LEMMA SearchSame ==
  ASSUME UNCHANGED rowVars, active' = active PROVE SearchableNow' = SearchableNow
  BY DEF rowVars, SearchableNow, LiveRevs

LEMMA Invisible ==
  ASSUME SameStatus, memState' = memState, SearchableNow' = SearchableNow
  PROVE  UNCHANGED Space!vars
<1>1. StatusNow' = StatusNow
  BY DEF SameStatus, StatusNow
<1> QED
  BY <1>1 DEF Space!vars

\* One operation changes, and the rows and the active index do not.
LEMMA OneReport ==
  ASSUME NEW r \in Revision, UNCHANGED rowVars, active' = active,
         \A q \in Revision : q # r => opState'[Ordinary(q)] = opState[Ordinary(q)],
         \/ opState'[Ordinary(r)] = opState[Ordinary(r)]
         \/ opState[Ordinary(r)] = "accepted" /\ opState'[Ordinary(r)] = "indexing"
         \/ opState[Ordinary(r)] = "indexing" /\ opState'[Ordinary(r)] = "accepted"
         \/ opState[Ordinary(r)] \in {"accepted", "indexing"} /\ opState'[Ordinary(r)] = "failed"
         \/ opState[Ordinary(r)] = "failed" /\ opState'[Ordinary(r)] = "accepted"
  PROVE  Space!Advance(r) \/ UNCHANGED Space!vars
<1>1. SearchableNow' = SearchableNow /\ memState' = memState
  BY SearchSame DEF rowVars
<1>2. CASE opState'[Ordinary(r)] = opState[Ordinary(r)]
  BY <1>1, <1>2, Invisible DEF SameStatus
<1>3. StatusNow' = [StatusNow EXCEPT ![r] = opState'[Ordinary(r)]]
  BY DEF StatusNow
<1>4. StatusNow[r] = opState[Ordinary(r)]
  BY DEF StatusNow
<1>5. CASE opState'[Ordinary(r)] # opState[Ordinary(r)]
  BY <1>1, <1>3, <1>4, <1>5 DEF Space!Advance, Space!Report, Space!InProgress
<1> QED
  BY <1>2, <1>5

LEMMA AcceptSpace ==
  ASSUME RefInv, NEW r \in Revision, Save(r) \/ Revise(r) PROVE Space!Accept(r)
<1>1. /\ r \notin revs /\ opState[Ordinary(r)] = "none"
      /\ memState[MemoryOf[r]] \in {"absent", "live"}
      /\ memState' = [memState EXCEPT ![MemoryOf[r]] = "live"]
      /\ Accept(r)
  <2>1. CASE Save(r)
    BY <2>1, JobMemoryOf DEF Save, RefInv, JobInv, Told, Placed, NoEarlyRevisions
  <2>2. CASE Revise(r)
    BY <2>2 DEF Revise, RefInv, RevInv, TypeInv, TypeOK, RowsOK
  <2> QED
    BY <2>1, <2>2
<1>2. StatusNow' = [StatusNow EXCEPT ![r] = "accepted"] /\ StatusNow[r] = "none"
  <2>1. \A q \in Revision : opState'[Ordinary(q)] = IF q = r THEN "accepted" ELSE opState[Ordinary(q)]
    BY <1>1, JobFacts, ConstantAssumption, JobMemoryOf
    DEF Accept, InsertJobs, Ordinary, Candidate, RefInv, TypeInv, TypeOK, SettingsOK
  <2> QED
    BY <1>1, <2>1 DEF StatusNow
<1>3. SearchableNow' = SearchableNow
  <2>1. revs' = revs \cup {r} /\ emb' = emb /\ active' = active /\ <<r, active>> \notin emb
    BY <1>1 DEF Accept, settingVars, RefInv, FreshInv
  <2>2. \A q \in revs : memState'[MemoryOf[q]] = memState[MemoryOf[q]]
    BY <1>1 DEF RefInv, NoEarlyRevisions, TypeInv, TypeOK, RowsOK
  <2> QED
    BY <2>1, <2>2 DEF SearchableNow, LiveRevs
<1> QED
  BY <1>1, <1>2, <1>3 DEF Space!Accept, Space!Report

LEMMA ForgetSpace ==
  ASSUME RefInv, NEW m \in Memory, Forget(m) PROVE Space!Withdraw(m)
<1>1. memState[m] = "live" /\ memState' = [memState EXCEPT ![m] = "deleted"]
      /\ UNCHANGED <<revs, emb, active>>
  BY DEF Forget, settingVars
<1>2. StatusNow' = [r \in Revision |-> IF MemoryOf[r] = m /\ StatusNow[r] \in Space!Owed
                                       THEN "cancelled" ELSE StatusNow[r]]
  <2>1. ASSUME NEW r \in Revision
        PROVE  opState'[Ordinary(r)] =
                  IF MemoryOf[r] = m /\ opState[Ordinary(r)] \in Space!Owed
                  THEN "cancelled" ELSE opState[Ordinary(r)]
    <3>1. Ordinary(r) \in Job /\ Ordinary(r) # Purge(m) /\ JobMemory(Ordinary(r)) = MemoryOf[r]
      BY JobFacts, JobMemoryOf
    <3> QED
      BY <3>1 DEF Forget, JobsOf, Space!Owed, Space!InProgress
  <2> QED
    BY <2>1 DEF StatusNow
<1>3. SearchableNow' = {r \in SearchableNow : MemoryOf[r] # m}
  <2>1. \A r \in revs : memState'[MemoryOf[r]] = IF MemoryOf[r] = m THEN "deleted"
                                                ELSE memState[MemoryOf[r]]
    BY <1>1, ConstantAssumption DEF RefInv, TypeInv, TypeOK, RowsOK
  <2> QED
    BY <1>1, <2>1 DEF SearchableNow, LiveRevs
<1> QED
  BY <1>1, <1>2, <1>3 DEF Space!Withdraw

\* Failed jobs that start over.
LEMMA RequeueSpace ==
  ASSUME RefInv, NEW js \in SUBSET Job, Requeue(js), active' = active,
         NEW j \in Job, js \subseteq {j} \/ \A k \in js : k \in EmbedJob /\ k.run # None,
         \A k \in js : jobState[k] = "failed"
  PROVE  (\E r \in Revision : Space!Advance(r)) \/ UNCHANGED Space!vars
<1>1. /\ UNCHANGED rowVars
      /\ \A k \in Job : opState'[k] = IF k \in js THEN "accepted" ELSE opState[k]
  BY DEF Requeue
<1>2. CASE \E r \in Revision : Ordinary(r) \in js
  <2>1. PICK r \in Revision : Ordinary(r) \in js
    BY <1>2
  <2>2. \A q \in Revision : q # r => Ordinary(q) \notin js
    BY <2>1, JobMemoryOf
  <2>3. opState[Ordinary(r)] = "failed"
    BY <2>1, JobMemoryOf DEF RefInv, JobInv, Told
  <2> QED
    BY <1>1, <2>1, <2>2, <2>3, JobMemoryOf, JobFacts, OneReport
<1>3. CASE \A r \in Revision : Ordinary(r) \notin js
  BY <1>1, <1>3, JobMemoryOf, JobFacts, SearchSame, Invisible DEF SameStatus, rowVars
<1> QED
  BY <1>2, <1>3

LEMMA ApiSpace == ASSUME RefInv, Api PROVE Space!Next \/ UNCHANGED Space!vars
<1>1. ASSUME NEW r \in Revision, Save(r) \/ Revise(r) PROVE Space!Next
  BY <1>1, AcceptSpace DEF Space!Next
<1>2. ASSUME NEW m \in Memory, Forget(m) PROVE Space!Next
  BY <1>2, ForgetSpace DEF Space!Next
<1>3. ASSUME NEW j \in Job, RetryOperation(j) PROVE Space!Next \/ UNCHANGED Space!vars
  <2>1. PICK js \in SUBSET Job : js = {j} \cap {k \in Job : jobState[k] = "failed"}
    OBVIOUS
  <2>2. Requeue(js) /\ active' = active
    BY <1>3, <2>1 DEF RetryOperation, settingVars
  <2> QED
    BY <2>1, <2>2, RequeueSpace DEF Space!Next
<1> QED
  BY <1>1, <1>2, <1>3 DEF Api

LEMMA ActivateSpace ==
  ASSUME RefInv, NEW n \in Run, Activate(n) PROVE Space!CutOver
<1>1. memState' = memState /\ revs' = revs /\ emb' = emb
  BY DEF Activate, rowVars
<1>2. SearchableNow' = {r \in Revision : Space!Live(r)}
  <2>1. active' = runGen[n] /\ \A r \in LiveRevs : <<r, runGen[n]>> \in emb
    BY DEF Activate, Covered
  <2>2. SearchableNow' = LiveRevs
    BY <1>1, <2>1 DEF SearchableNow, LiveRevs
  <2>3. \A r \in Revision : r \in LiveRevs <=> Space!Live(r)
    BY DEF LiveRevs, Space!Live, StatusNow, RefInv, RevInv
  <2>4. LiveRevs \subseteq Revision
    BY DEF LiveRevs, RefInv, TypeInv, TypeOK, RowsOK
  <2> QED
    BY <2>2, <2>3, <2>4
<1>3. ASSUME NEW r \in Revision
      PROVE  opState'[Ordinary(r)] = IF opState[Ordinary(r)] \in Space!Owed
                                     THEN "cancelled" ELSE opState[Ordinary(r)]
  <2>1. Ordinary(r) \in Job /\ Ordinary(r) \in EmbedJob /\ Ordinary(r).run = None
    BY JobFacts, JobMemoryOf
  <2>2. /\ opState[Ordinary(r)] = "failed" <=> jobState[Ordinary(r)] = "failed"
        /\ opState[Ordinary(r)] \in {"accepted", "indexing"}
              <=> jobState[Ordinary(r)] \in {"pending", "leased"}
        /\ jobState[Ordinary(r)] \in Unfinished => jobGen[Ordinary(r)] = active
    BY <2>1 DEF RefInv, JobInv, Told, Placed
  <2>3. CancelJobs({j \in EmbedJob : jobGen[j] = active})
    BY DEF Activate
  <2> QED
    BY <2>1, <2>2, <2>3 DEF CancelJobs, CloseJobs, Unfinished, Space!Owed, Space!InProgress
<1> QED
  BY <1>1, <1>2, <1>3 DEF Space!CutOver, StatusNow

LEMMA AdministrationSpace ==
  ASSUME RefInv, Administration PROVE Space!Next \/ UNCHANGED Space!vars
<1>1. ASSUME UNCHANGED <<rowVars, opState, active>> PROVE UNCHANGED Space!vars
  BY <1>1, SearchSame, Invisible DEF SameStatus, rowVars
<1>2. ASSUME NEW n \in Run, RetryRun(n) PROVE Space!Next \/ UNCHANGED Space!vars
  <2>1. PICK js \in SUBSET Job : js = {j \in RunJobs(n) : jobState[j] = "failed"}
    BY JobFacts DEF RunJobs
  <2>2. Requeue(js) /\ active' = active
    BY <1>2, <2>1 DEF RetryRun, settingVars
  <2>3. \A k \in js : k \in EmbedJob /\ k.run # None /\ jobState[k] = "failed"
    BY <2>1, ConstantAssumption DEF RunJobs
  <2>4. CASE js = {}
    <3>1. UNCHANGED rowVars /\ \A k \in Job : opState'[k] = opState[k]
      BY <2>2, <2>4 DEF Requeue
    <3> QED
      BY <2>2, <3>1, JobMemoryOf, JobFacts, SearchSame, Invisible DEF SameStatus, rowVars
  <2>5. ASSUME NEW k \in js PROVE Space!Next \/ UNCHANGED Space!vars
    BY <2>1, <2>2, <2>3, RequeueSpace DEF Space!Next
  <2> QED
    BY <2>4, <2>5
<1>3. ASSUME NEW n \in Run, Cancel(n) PROVE UNCHANGED Space!vars
  <2>1. UNCHANGED rowVars /\ active' = active /\ CancelJobs(RunJobs(n))
    BY <1>3 DEF Cancel
  <2>2. \A r \in Revision : Ordinary(r) \in Job /\ Ordinary(r) \notin RunJobs(n)
    BY JobMemoryOf, JobFacts, ConstantAssumption DEF RunJobs
  <2>3. SameStatus
    BY <2>1, <2>2 DEF SameStatus, CancelJobs, CloseJobs
  <2> QED
    BY <2>1, <2>3, SearchSame, Invisible DEF rowVars
<1>4. ASSUME NEW n \in Run, NEW g \in Gen, Start(n, g) PROVE UNCHANGED Space!vars
  BY <1>1, <1>4 DEF Start, jobVars
<1>5. ASSUME NEW n \in Run, Pause(n) \/ Resume(n) PROVE UNCHANGED Space!vars
  BY <1>1, <1>5 DEF Pause, Resume, SetRunState, jobVars, settingVars
<1>6. CASE ResumeProcessing
  BY <1>1, <1>6 DEF ResumeProcessing, jobVars
<1> QED
  BY <1>2, <1>3, <1>4, <1>5, <1>6, ActivateSpace DEF Administration, Space!Next

\* A worker's transaction on the job it owns, which publishes nothing: the
\* operation of a revision moves between accepted, indexing and failed.
LEMMA OwnedSpace ==
  ASSUME RefInv, NEW w \in Worker, wpc[w] # "idle", Owned(w), NEW j \in Job, j = wjob[w],
         UNCHANGED rowVars, active' = active,
         \A k \in Job : k # j => opState'[k] = opState[k],
         j \in EmbedJob /\ j.run = None =>
             \/ opState'[j] \in {"accepted", "failed"}
             \/ opState'[j] = "indexing" /\ wpc[w] = "claimed"
             \/ opState'[j] = opState[j]
  PROVE  (\E r \in Revision : Space!Advance(r)) \/ UNCHANGED Space!vars
<1>1. jobState[j] = "leased"
  BY DEF Owned
<1>2. CASE j \in EmbedJob /\ j.run = None
  <2>1. j.rev \in Revision /\ j = Ordinary(j.rev)
    BY <1>2 DEF EmbedJob, Ordinary
  <2>2. opState[j] \in {"accepted", "indexing"}
    BY <1>1, <1>2 DEF RefInv, JobInv, Told
  <2>3. \A q \in Revision : q # j.rev => opState'[Ordinary(q)] = opState[Ordinary(q)]
    BY JobMemoryOf, JobFacts DEF Ordinary
  <2> QED
    BY <1>2, <2>1, <2>2, <2>3, OneReport
<1>3. CASE ~(j \in EmbedJob /\ j.run = None)
  BY <1>3, JobMemoryOf, JobFacts, SearchSame, Invisible DEF SameStatus, rowVars
<1> QED
  BY <1>2, <1>3

\* The policy never cancels an ordinary job: it is always for the active index.
LEMMA OrdinaryStays ==
  ASSUME RefInv, NEW j \in EmbedJob, j.run = None, jobState[j] = "leased"
  PROVE  ~Obsolete(j) /\ Readable(j)
  BY DEF RefInv, JobInv, Placed, Unfinished, Obsolete, Readable

LEMMA BeginSpace ==
  ASSUME RefInv, NEW w \in Worker, Begin(w)
  PROVE  (\E r \in Revision : Space!Advance(r)) \/ UNCHANGED Space!vars
<1>1. wpc[w] = "claimed" /\ Owned(w) /\ wjob[w] \in EmbedJob /\ UNCHANGED rowVars /\ active' = active
  BY DEF Begin, settingVars
<1>2. PICK j \in EmbedJob : j = wjob[w] /\ j \in Job /\ jobState[j] = "leased"
  BY <1>1, JobFacts DEF Owned
<1>3. \A k \in Job : k # j => opState'[k] = opState[k]
  <2>1. \/ opState' = [opState EXCEPT ![j] = "indexing"]
        \/ PolicyStops(j, FALSE) \/ Finish(j, "cancelled")
    BY <1>2 DEF Begin
  <2>2. CASE opState' = [opState EXCEPT ![j] = "indexing"]
    BY <2>2 DEF RefInv, TypeInv, TypeOK, JobsOK
  <2>3. CASE PolicyStops(j, FALSE) \/ Finish(j, "cancelled")
    BY <2>3 DEF PolicyStops, Finish, GiveBack, CloseJobs
  <2> QED
    BY <2>1, <2>2, <2>3
<1>4. j.run = None => opState'[j] \in {"indexing", "accepted", opState[j]}
  BY <1>2, OrdinaryStays DEF Begin, PolicyStops, GiveBack, CloseJobs, RefInv, TypeInv, TypeOK,
         JobsOK
<1> QED
  BY <1>1, <1>2, <1>3, <1>4, OwnedSpace

LEMMA PublishSpace ==
  ASSUME RefInv, NEW w \in Worker, Publish(w)
  PROVE  (\E r \in Revision : Space!Advance(r) \/ Space!Index(r)) \/ UNCHANGED Space!vars
<1>1. /\ wpc[w] = "infer" /\ Owned(w) /\ active' = active
      /\ memState' = memState /\ revs' = revs
  BY DEF Publish, settingVars
<1>2. PICK j \in EmbedJob : j = wjob[w] /\ j \in Job /\ jobState[j] = "leased"
  BY <1>1, JobFacts DEF Owned, RefInv, TypeInv, BusyWorkers
<1>3. \A k \in Job : k # j => opState'[k] = opState[k]
  BY <1>2 DEF Publish, PolicyStops, Finish, GiveBack, CloseJobs
<1>4. CASE ~(Allowed(j, TRUE) /\ Readable(j))
  <2>1. UNCHANGED rowVars
    BY <1>1, <1>2, <1>4 DEF Publish, rowVars
  <2>2. j.run = None => opState'[j] \in {"accepted", opState[j]}
    BY <1>2, <1>4, OrdinaryStays
    DEF Publish, PolicyStops, GiveBack, CloseJobs, RefInv, TypeInv, TypeOK, JobsOK
  <2> QED
    BY <1>1, <1>2, <1>3, <2>1, <2>2, OwnedSpace
<1>5. CASE Allowed(j, TRUE) /\ Readable(j)
  <2>1. /\ emb' = emb \cup {<<j.rev, jobGen[j]>>}
        /\ opState' = [k \in Job |-> IF k = j THEN "ready" ELSE opState[k]]
    BY <1>2, <1>5 DEF Publish, Finish, CloseJobs
  <2>2. LiveRevs' = LiveRevs /\ j.rev \in LiveRevs /\ j.rev \in Revision
    BY <1>1, <1>5 DEF Readable, LiveRevs, EmbedJob
  <2>3. CASE j.run = None
    <3>1. j = Ordinary(j.rev) /\ jobGen[j] = active /\ opState[j] = "indexing"
      BY <1>1, <1>2, <1>5, <2>3
      DEF EmbedJob, Ordinary, Allowed, Obsolete, RefInv, InferInv
    <3>2. SearchableNow' = SearchableNow \cup {j.rev}
      BY <1>1, <2>1, <2>2, <3>1 DEF SearchableNow
    <3>3. StatusNow' = [StatusNow EXCEPT ![j.rev] = "ready"] /\ StatusNow[j.rev] = "indexing"
      <4>1. \A q \in Revision : opState'[Ordinary(q)] =
                                   IF q = j.rev THEN "ready" ELSE opState[Ordinary(q)]
        BY <2>1, <3>1, JobMemoryOf, JobFacts DEF Ordinary
      <4> QED
        BY <2>2, <3>1, <4>1 DEF StatusNow
    <3>4. Space!Live(j.rev)
      BY <2>2, <3>3 DEF Space!Live, LiveRevs
    <3> QED
      BY <1>1, <2>2, <3>2, <3>3, <3>4 DEF Space!Index, Space!Report
  <2>4. CASE j.run # None
    <3>1. jobGen[j] # active
      BY <1>2, <1>5, <2>4 DEF Allowed, Obsolete, RefInv, CandidateInv, JobInv, Placed
    <3>2. SearchableNow' = SearchableNow
      BY <1>1, <2>1, <2>2, <3>1 DEF SearchableNow
    <3>3. SameStatus
      BY <2>1, <2>4, JobMemoryOf, JobFacts DEF SameStatus
    <3> QED
      BY <1>1, <3>2, <3>3, Invisible
  <2> QED
    BY <2>3, <2>4
<1> QED
  BY <1>4, <1>5

LEMMA PurgeSpace ==
  ASSUME RefInv, NEW w \in Worker, PurgeStep(w)
  PROVE  (\E m \in Memory : Space!Erase(m)) \/ UNCHANGED Space!vars
<1>1. wpc[w] = "claimed" /\ Owned(w) /\ wjob[w] \in PurgeJob /\ active' = active
  BY DEF PurgeStep, settingVars
<1>2. PICK j \in PurgeJob : j = wjob[w] /\ j.mem \in Memory /\ j \in Job /\ j \notin EmbedJob
  BY <1>1, JobFacts DEF PurgeJob
<1>3. SameStatus
  <2>1. \A k \in Job : k # j => opState'[k] = opState[k]
    BY <1>2 DEF PurgeStep, Finish, CloseJobs
  <2> QED
    BY <1>2, <2>1, JobMemoryOf, JobFacts DEF SameStatus
<1>4. CASE UNCHANGED rowVars
  BY <1>1, <1>3, <1>4, SearchSame, Invisible DEF rowVars
<1>5. CASE /\ memState[j.mem] \in {"deleted", "purged"}
           /\ memState' = [memState EXCEPT ![j.mem] = "purged"]
           /\ revs' = {r \in revs : MemoryOf[r] # j.mem}
           /\ emb' = {e \in emb : MemoryOf[e[1]] # j.mem}
  <2>1. \A m \in Memory : memState'[m] = "live" <=> memState[m] = "live" /\ m # j.mem
    BY <1>2, <1>5 DEF RefInv, TypeInv, TypeOK, RowsOK
  <2>2. SearchableNow' = SearchableNow
    <3>1. \A r \in revs : MemoryOf[r] \in Memory
      BY ConstantAssumption DEF RefInv, TypeInv, TypeOK, RowsOK
    <3>2. LiveRevs' = LiveRevs
      BY <1>5, <2>1, <3>1 DEF LiveRevs
    <3>3. \A r \in LiveRevs : MemoryOf[r] # j.mem
      BY <1>5 DEF LiveRevs
    <3> QED
      BY <1>1, <1>5, <3>2, <3>3 DEF SearchableNow
  <2>3. CASE memState[j.mem] = "purged"
    <3>1. memState' = memState
      BY <1>5, <2>3 DEF RefInv, TypeInv, TypeOK, RowsOK
    <3> QED
      BY <1>3, <2>2, <3>1, Invisible
  <2>4. CASE memState[j.mem] = "deleted"
    <3>1. StatusNow' = StatusNow
      BY <1>3 DEF SameStatus, StatusNow
    <3> QED
      BY <1>2, <1>5, <2>2, <2>4, <3>1 DEF Space!Erase
  <2> QED
    BY <1>5, <2>3, <2>4
<1> QED
  BY <1>2, <1>4, <1>5 DEF PurgeStep

LEMMA WorkerSpace ==
  ASSUME RefInv, NEW w \in Worker, WorkerStep(w) PROVE Space!Next \/ UNCHANGED Space!vars
<1>1. ASSUME UNCHANGED <<rowVars, opState, active>> PROVE UNCHANGED Space!vars
  BY <1>1, SearchSame, Invisible DEF SameStatus, rowVars
<1>2. ASSUME NEW j \in Job, ClaimPurge(w, j) \/ ClaimEmbed(w, j) PROVE UNCHANGED Space!vars
  BY <1>1, <1>2 DEF ClaimPurge, ClaimEmbed, Lease, settingVars
<1>3. CASE LeaseLost(w) \/ Crash(w)
  BY <1>1, <1>3 DEF LeaseLost, Crash, jobVars, settingVars
<1>4. CASE FailAttempt(w) \/ BudgetReduced(w)
  <2>1. wpc[w] # "idle" /\ Owned(w) /\ UNCHANGED rowVars /\ active' = active
    BY <1>4 DEF FailAttempt, BudgetReduced, settingVars
  <2>2. PICK j \in Job : j = wjob[w]
    BY <2>1 DEF RefInv, TypeInv, BusyWorkers
  <2>3. /\ \A k \in Job : k # j => opState'[k] = opState[k]
        /\ opState'[j] \in {"accepted", "failed"}
    BY <1>4, <2>2 DEF FailAttempt, BudgetReduced, GiveBack, CloseJobs
  <2> QED
    BY <2>1, <2>2, <2>3, OwnedSpace DEF Space!Next
<1> QED
  BY <1>2, <1>3, <1>4, BeginSpace, PublishSpace, PurgeSpace, JobFacts DEF WorkerStep, Space!Next

LEMMA ScannerSpace ==
  ASSUME RefInv, NEW s \in Scanner, ScannerStep(s) PROVE UNCHANGED Space!vars
<1>1. ASSUME UNCHANGED <<rowVars, opState, active>> PROVE UNCHANGED Space!vars
  BY <1>1, SearchSame, Invisible DEF SameStatus, rowVars
<1>2. ASSUME \/ \E n \in Run : ClaimScan(s, n)
             \/ ScanStops(s) \/ ScanBackpressure(s) \/ ReadBatch(s) \/ ScanAborts(s)
      PROVE  UNCHANGED Space!vars
  BY <1>1, <1>2
  DEF ClaimScan, ScanStops, ScanBackpressure, ReadBatch, ScanAborts, jobVars, settingVars
<1>3. CASE EnqueueBatch(s)
  <2>1. spc[s] = "reading" /\ UNCHANGED rowVars /\ active' = active
    BY <1>3 DEF EnqueueBatch, settingVars
  <2>2. srun[s] # None
    BY <2>1, ConstantAssumption DEF RefInv, TypeInv, BusyScanners
  <2>3. \A q \in srows[s], r \in Revision : Candidate(q, srun[s]) # Ordinary(r)
    BY <2>2 DEF Candidate, Ordinary
  <2> DEFINE n == srun[s]
             new == {Candidate(r, n) : r \in {q \in srows[s] : /\ jobState[Candidate(q, n)] = "none"
                                                               /\ <<q, runGen[n]>> \notin emb}}
  <2>4. InsertJobs(new, [j \in new |-> runGen[n]], {j \in new : JobMemory(j) \in withheld})
    BY <1>3 DEF EnqueueBatch
  <2>5. \A r \in Revision : Ordinary(r) \notin new /\ Ordinary(r) \in Job
    <3>1. ASSUME NEW r \in Revision, Ordinary(r) \in new PROVE FALSE
      <4>1. PICK q \in srows[s] : Ordinary(r) = Candidate(q, n)
        BY <3>1
      <4> QED
        BY <2>3, <4>1
    <3> QED
      BY <3>1, JobMemoryOf, JobFacts
  <2> HIDE DEF new
  <2>6. SameStatus
    BY <2>4, <2>5 DEF SameStatus, InsertJobs
  <2> QED
    BY <2>1, <2>6, SearchSame, Invisible DEF rowVars
<1> QED
  BY <1>2, <1>3 DEF ScannerStep

LEMMA RestoreSpace == ASSUME RefInv, Restore PROVE Space!Recover
<1>1. memState' = [m \in Memory |-> IF memState[m] = "deleted" THEN "purged" ELSE memState[m]]
  BY DEF Restore, RefInv, TypeInv, TypeOK, RowsOK
<1>2. ASSUME NEW r \in Revision
      PROVE  opState'[Ordinary(r)] = IF opState[Ordinary(r)] = "indexing"
                                     THEN "accepted" ELSE opState[Ordinary(r)]
  <2>1. /\ Ordinary(r) \in Job /\ Ordinary(r) \in EmbedJob /\ Ordinary(r).run = None
        /\ Ordinary(r).rev = r /\ Ordinary(r) \notin PurgeJob
        /\ JobMemory(Ordinary(r)) = MemoryOf[r]
    BY JobFacts, JobMemoryOf
  <2>2. jobState[Ordinary(r)] \in Unfinished => memState[MemoryOf[r]] = "live"
    BY <2>1 DEF RefInv, JobInv, Placed, LiveRevs
  <2> QED
    BY <2>1, <2>2 DEF Restore
<1>3. SearchableNow' = SearchableNow
  <2>1. /\ revs' = {r \in revs : memState[MemoryOf[r]] \notin {"deleted", "purged"}}
        /\ \A e \in Revision \X Gen :
              memState[MemoryOf[e[1]]] = "live" => (e \in emb' <=> e \in emb)
        /\ active' = active
    <3>1. \A r \in Revision : MemoryOf[r] \in Memory
      BY ConstantAssumption
    <3> QED
      BY <3>1 DEF Restore, RefInv, TypeInv, TypeOK, RowsOK
  <2>2. \A r \in revs : r \in Revision /\ MemoryOf[r] \in Memory
    BY ConstantAssumption DEF RefInv, TypeInv, TypeOK, RowsOK
  <2>3. LiveRevs' = LiveRevs
    BY <1>1, <2>1, <2>2 DEF LiveRevs
  <2>4. \A r \in LiveRevs : <<r, active>> \in emb' <=> <<r, active>> \in emb
    BY <2>1, <2>2 DEF LiveRevs, RefInv, TypeInv, TypeOK, SettingsOK
  <2> QED
    BY <2>1, <2>3, <2>4 DEF SearchableNow
<1> QED
  BY <1>1, <1>2, <1>3 DEF Space!Recover, StatusNow

LEMMA OthersSpace ==
  ASSUME RefInv, TimePasses \/ Environment PROVE Space!Next \/ UNCHANGED Space!vars
<1>1. ASSUME UNCHANGED <<rowVars, opState, active>> PROVE UNCHANGED Space!vars
  BY <1>1, SearchSame, Invisible DEF SameStatus, rowVars
<1>2. CASE TimePasses
  BY <1>1, <1>2
  DEF TimePasses, LeaseExpires, BecomesDue, ScanLeaseExpires, jobVars, settingVars
<1>3. CASE Environment
  BY <1>1, <1>3, RestoreSpace
  DEF Environment, AccessChanges, Withhold, Reread, jobVars, settingVars, Space!Next
<1> QED
  BY <1>2, <1>3

LEMMA StepSpace == RefInv /\ [Next]_vars => [Space!Next]_(Space!vars)
<1> SUFFICES ASSUME RefInv, [Next]_vars PROVE [Space!Next]_(Space!vars)
  OBVIOUS
<1>1. CASE UNCHANGED vars
  BY <1>1, SearchSame, Invisible DEF vars, jobVars, settingVars, SameStatus, rowVars
<1> QED
  BY <1>1, ApiSpace, AdministrationSpace, WorkerSpace, ScannerSpace, OthersSpace DEF Next

\* The detailed queue implements the promise to the client (MemorySpace).
THEOREM IndexingImplementsSpace == Spec => ImplementsSpace
  BY InitSpace, StepSpace, RefInvariant, PTL DEF Spec, ImplementsSpace, Space!Spec

(***************************************************************************)
(* Erasure, the backfill and final states.  DeletionProceeds needs that a  *)
(* memory has a purge job only once it is deleted.  CandidateKeepsUp needs *)
(* what an open backfill transaction will do when it commits: it moves the *)
(* cursor only past revisions that it read, or that were accepted since    *)
(* and so have a candidate job (BatchInv), it alone holds the lease of the *)
(* run, and a candidate job that is closed has left a vector (SettledInv). *)
(***************************************************************************)
CandidateKept(r) ==
    <<r, runGen[cand]>> \in emb \/ jobState[Candidate(r, cand)] \in Unfinished

\* A memory has a purge job from its deletion on, unfinished until it is erased.
ErasureInv ==
    \A m \in Memory :
        /\ memState[m] = "deleted" => jobState[Purge(m)] \in Unfinished
        /\ memState[m] = "purged" => \A r \in revs : MemoryOf[r] # m
        /\ jobState[Purge(m)] # "none" => memState[m] \in {"deleted", "purged"}

\* The backfill has revision r still ahead.
Scannable(r) == cand \notin scanned /\ Rank[r] > cursor[cand]

SettledInv ==
    cand # None => \A r \in LiveRevs :
        /\ Scannable(r) \/ CandidateKept(r)
        /\ jobState[Candidate(r, cand)] # "none" => CandidateKept(r)

BatchInv ==
    \A s \in Scanner : spc[s] = "reading" =>
        /\ scanHolder[srun[s]] = s /\ srun[s] \in scanLive
        /\ \A r \in LiveRevs :
              Scannable(r) /\ ~CandidateKept(r) /\ r \notin srows[s] =>
                  /\ ~(Cardinality(srows[s]) < BatchSize)
                  /\ \A q \in srows[s] : Rank[q] < Rank[r]

FreshRunInv == \A n \in Run : runState[n] = "none" => n \notin scanned /\ cursor[n] = 0

ScanInv == IsFiniteSet(revs) /\ FreshRunInv /\ SettledInv /\ BatchInv

\* The steps that FinalStatesStand allows.
FinalStep ==
    \A j \in Job :
        /\ jobState[j] \in {"ready", "cancelled"} => jobState'[j] = jobState[j]
        /\ jobState[j] = "failed" => \/ jobState'[j] \in {"failed", "cancelled"}
                                     \/ jobState'[j] = "pending" /\ attempts'[j] = 0

\* A step that leaves the selection alone keeps the candidate work of every live
\* revision, and gives it to a revision that becomes live.
CandidateStep ==
    /\ UNCHANGED <<cand, runGen>>
    /\ cand # None => \A r \in LiveRevs' :
          /\ r \notin LiveRevs \/ CandidateKept(r) => CandidateKept(r)'
          /\ jobState'[Candidate(r, cand)] # "none" =>
                jobState[Candidate(r, cand)] # "none" \/ CandidateKept(r)'

Settles == ErasureInv' /\ FinalStep /\ CandidateStep

EraseInv == RefInv /\ ErasureInv

(***************************************************************************)
(* What each step does to purge jobs, to final states and to the           *)
(* candidate's jobs.                                                       *)
(***************************************************************************)
LEMMA CandidateJobs ==
    /\ \A r \in Revision, n \in Run :
          Candidate(r, n) \in EmbedJob /\ Candidate(r, n) \in Job
          /\ Candidate(r, n).rev = r /\ Candidate(r, n).run = n
    /\ \A j \in EmbedJob : j.run # None => j = Candidate(j.rev, j.run)
    /\ \A j \in PurgeJob : j = Purge(j.mem) /\ j \in Job
  BY JobFacts DEF Candidate, EmbedJob, PurgeJob, Purge

\* A step that leaves rows and job states alone.
LEMMA QuietSettles ==
  ASSUME EraseInv, UNCHANGED rowVars, jobState' = jobState, UNCHANGED <<cand, runGen>>
  PROVE  Settles
<1>1. ErasureInv'
  BY DEF EraseInv, ErasureInv, rowVars
<1>2. FinalStep
  BY DEF FinalStep
<1>3. CandidateStep
  BY RowsKeepLive DEF CandidateStep, CandidateKept, rowVars
<1> QED
  BY <1>1, <1>2, <1>3 DEF Settles

\* A step that changes the state of one job that is queued or leased.
LEMMA WorkedSettles ==
  ASSUME EraseInv, memState' = memState, revs' = revs, emb \subseteq emb', UNCHANGED <<cand, runGen>>,
         NEW j \in Job, jobState[j] \in {"pending", "leased"},
         \A k \in Job : k # j => jobState'[k] = jobState[k],
         j \in EmbedJob /\ j.rev \in LiveRevs /\ j.run = cand /\ cand # None =>
             jobState'[j] \in Unfinished \/ <<j.rev, runGen[cand]>> \in emb',
         j \in PurgeJob /\ memState[j.mem] = "deleted" => jobState'[j] \in Unfinished
  PROVE  Settles
<1>1. ErasureInv'
  <2> SUFFICES ASSUME NEW m \in Memory
               PROVE  /\ memState[m] = "deleted" => jobState'[Purge(m)] \in Unfinished
                      /\ jobState'[Purge(m)] # "none" => memState[m] \in {"deleted", "purged"}
    BY DEF EraseInv, ErasureInv
  <2>1. Purge(m) \in PurgeJob /\ Purge(m).mem = m /\ Purge(m) \in Job
    BY JobFacts
  <2> QED
    BY <2>1 DEF EraseInv, ErasureInv
<1>2. FinalStep
  BY DEF FinalStep
<1>3. CandidateStep
  <2> SUFFICES ASSUME cand # None, NEW r \in LiveRevs
               PROVE  /\ CandidateKept(r) => CandidateKept(r)'
                      /\ jobState'[Candidate(r, cand)] # "none" =>
                            jobState[Candidate(r, cand)] # "none" \/ CandidateKept(r)'
    BY DEF CandidateStep, LiveRevs
  <2>1. cand \in Run /\ r \in Revision
    BY LiveAreRevisions DEF EraseInv, RefInv, TypeInv, TypeOK, SettingsOK
  <2>2. Candidate(r, cand) \in EmbedJob /\ Candidate(r, cand) \in Job
        /\ Candidate(r, cand).rev = r /\ Candidate(r, cand).run = cand
    BY <2>1, CandidateJobs
  <2> QED
    BY <2>2 DEF CandidateKept
<1> QED
  BY <1>1, <1>2, <1>3 DEF Settles

\* A worker that closes its job has published, or found the work obsolete.
LEMMA ClosesSettles ==
  ASSUME EraseInv, NEW w \in Worker, NEW j \in Job, Closes(w, j), jobState[j] = "leased",
         memState' = memState, revs' = revs, emb \subseteq emb', UNCHANGED <<cand, runGen>>,
         Finish(j, "ready") => j \in EmbedJob /\ <<j.rev, jobGen[j]>> \in emb',
         Finish(j, "cancelled") =>
             IF j \in EmbedJob THEN Obsolete(j) \/ ~Readable(j) ELSE memState[j.mem] # "deleted"
  PROVE  Settles
<1>1. /\ \A k \in Job : k # j => jobState'[k] = jobState[k]
      /\ \/ jobState'[j] \in Unfinished
         \/ jobState'[j] = "cancelled" /\ Finish(j, "cancelled")
         \/ jobState'[j] = "ready" /\ Finish(j, "ready")
  BY ClosesFrame DEF EraseInv, RefInv, JobSame, Unfinished
<1>2. ASSUME j \in EmbedJob, j.rev \in LiveRevs, j.run = cand, cand # None
      PROVE  jobState'[j] \in Unfinished \/ <<j.rev, runGen[cand]>> \in emb'
  <2>1. jobGen[j] = runGen[cand]
    BY <1>2 DEF EraseInv, RefInv, JobInv, Placed
  <2>2. ~Finish(j, "cancelled")
    BY <1>2 DEF Obsolete, Readable
  <2> QED
    BY <1>1, <2>1, <2>2
<1>3. j \in PurgeJob /\ memState[j.mem] = "deleted" => jobState'[j] \in Unfinished
  BY <1>1, JobFacts
<1> QED
  BY <1>1, <1>2, <1>3, WorkedSettles

\* The policy ends a job only when its index is no longer selected.
LEMMA PolicyEnds ==
  ASSUME EraseInv, NEW j \in Job, jobState[j] = "leased", NEW f \in BOOLEAN, PolicyStops(j, f), Finish(j, "cancelled")
  PROVE  Obsolete(j)
<1>1. GiveBack(j, opState[j], TRUE) \/ GiveBack(j, "accepted", FALSE) => jobState'[j] = "pending"
  BY DEF GiveBack, CloseJobs
<1>2. jobState'[j] = "cancelled"
  BY DEF Finish, CloseJobs
<1> QED
  BY <1>1, <1>2 DEF PolicyStops

LEMMA LeaseSettles ==
  ASSUME EraseInv, NEW w \in Worker, NEW j \in Job, Lease(w, j), Eligible(j) PROVE Settles
<1>1. jobState[j] \in {"pending", "leased"}
  BY DEF Eligible
<1>2. jobState'[j] \in Unfinished /\ \A k \in Job : k # j => jobState'[k] = jobState[k]
  BY DEF Lease, Unfinished, EraseInv, RefInv, TypeInv, TypeOK, JobsOK
<1>3. UNCHANGED rowVars /\ UNCHANGED <<cand, runGen>>
  BY DEF Lease, settingVars, runVars
<1> QED
  BY <1>1, <1>2, <1>3, WorkedSettles DEF rowVars

LEMMA BeginSettles == ASSUME EraseInv, NEW w \in Worker, Begin(w) PROVE Settles
<1>1. PICK j \in EmbedJob : j = wjob[w]
  BY DEF Begin
<1>2. wpc[w] # "idle" /\ Owned(w) /\ UNCHANGED rowVars /\ UNCHANGED <<cand, runGen>>
  BY DEF Begin, settingVars, runVars
<1>3. j \in Job /\ jobState[j] = "leased"
  BY <1>1, <1>2, OwnedJob DEF EraseInv
<1>4. CASE Allowed(j, FALSE) /\ Readable(j)
  <2>1. jobState' = jobState
    BY <1>1, <1>4 DEF Begin
  <2> QED
    BY <1>2, <2>1, QuietSettles
<1>5. CASE ~(Allowed(j, FALSE) /\ Readable(j))
  <2>0. ToIdle(w) /\ (PolicyStops(j, FALSE) \/ (Allowed(j, FALSE) /\ Finish(j, "cancelled")))
    BY <1>1, <1>5 DEF Begin
  <2>1. ToIdle(w) /\ (PolicyStops(j, FALSE) \/ (~Readable(j) /\ Finish(j, "cancelled")))
    BY <1>5, <2>0
  <2>2. Closes(w, j) /\ ~Finish(j, "ready")
    BY <1>3, <2>1, PolicyCloses
  <2>3. Finish(j, "cancelled") => Obsolete(j) \/ ~Readable(j)
    BY <1>3, <2>1, PolicyEnds
  <2> QED
    BY <1>2, <1>3, <2>2, <2>3, ClosesSettles DEF rowVars
<1> QED
  BY <1>4, <1>5

LEMMA PublishSettles == ASSUME EraseInv, NEW w \in Worker, Publish(w) PROVE Settles
<1>1. PICK j \in EmbedJob : j = wjob[w]
  BY DEF Publish, EraseInv, RefInv, TypeInv, BusyWorkers
<1>2. /\ wpc[w] # "idle" /\ Owned(w) /\ memState' = memState /\ revs' = revs /\ ToIdle(w)
      /\ UNCHANGED <<cand, runGen>>
  BY DEF Publish, settingVars, runVars
<1>3. j \in Job /\ jobState[j] = "leased"
  BY <1>1, <1>2, OwnedJob DEF EraseInv
<1>4. CASE Allowed(j, TRUE) /\ Readable(j)
  <2>1. emb' = emb \cup {<<j.rev, jobGen[j]>>} /\ Finish(j, "ready")
    BY <1>1, <1>4 DEF Publish
  <2>2. Closes(w, j)
    BY <1>2, <2>1 DEF Closes, Finish
  <2>3. ~Finish(j, "cancelled")
    BY <1>3, <2>1 DEF Finish, CloseJobs
  <2> QED
    BY <1>2, <1>3, <2>1, <2>2, <2>3, ClosesSettles
<1>5. CASE ~(Allowed(j, TRUE) /\ Readable(j))
  <2>0. emb' = emb /\ (PolicyStops(j, TRUE) \/ (Allowed(j, TRUE) /\ Finish(j, "cancelled")))
    BY <1>1, <1>5 DEF Publish
  <2>1. emb' = emb /\ (PolicyStops(j, TRUE) \/ (~Readable(j) /\ Finish(j, "cancelled")))
    BY <1>5, <2>0
  <2>2. Closes(w, j) /\ ~Finish(j, "ready")
    BY <1>2, <1>3, <2>1, PolicyCloses
  <2>3. Finish(j, "cancelled") => Obsolete(j) \/ ~Readable(j)
    BY <1>3, <2>1, PolicyEnds
  <2> QED
    BY <1>2, <1>3, <2>1, <2>2, <2>3, ClosesSettles
<1> QED
  BY <1>4, <1>5

LEMMA PurgeSettles == ASSUME EraseInv, NEW w \in Worker, PurgeStep(w) PROVE Settles
<1>1. PICK j \in PurgeJob : j = wjob[w]
  BY DEF PurgeStep
<1>2. wpc[w] # "idle" /\ Owned(w) /\ ToIdle(w) /\ UNCHANGED <<cand, runGen>>
  BY DEF PurgeStep, settingVars, runVars
<1>3. j \in Job /\ jobState[j] = "leased" /\ j.mem \in Memory /\ j = Purge(j.mem) /\ j \notin EmbedJob
  BY <1>1, <1>2, OwnedJob, JobFacts, CandidateJobs DEF EraseInv
<1>4. CASE memState[j.mem] \notin {"deleted", "purged"}
  <2>1. Finish(j, "cancelled") /\ UNCHANGED rowVars
    BY <1>1, <1>4 DEF PurgeStep
  <2>2. Closes(w, j) /\ ~Finish(j, "ready")
    BY <1>2, <1>3, <2>1 DEF Closes, Finish, CloseJobs
  <2> QED
    BY <1>2, <1>3, <1>4, <2>1, <2>2, ClosesSettles DEF rowVars
<1>5. CASE memState[j.mem] \in {"deleted", "purged"}
  <2>1. /\ memState' = [memState EXCEPT ![j.mem] = "purged"]
        /\ revs' = {r \in revs : MemoryOf[r] # j.mem}
        /\ emb' = {e \in emb : MemoryOf[e[1]] # j.mem}
        /\ Finish(j, "ready")
    BY <1>1, <1>5 DEF PurgeStep
  <2>2. \A k \in Job : k # j => jobState'[k] = jobState[k]
    BY <2>1 DEF Finish, CloseJobs
  <2>3. memState \in [Memory -> {"absent", "live", "deleted", "purged"}]
    BY DEF EraseInv, RefInv, TypeInv, TypeOK, RowsOK
  <2>4. ErasureInv'
    BY <1>3, <1>5, <2>1, <2>2, <2>3, JobMemoryOf DEF EraseInv, ErasureInv
  <2>5. FinalStep
    BY <1>3, <2>2 DEF FinalStep
  <2>6. CandidateStep
    <3> SUFFICES ASSUME cand # None, NEW r \in LiveRevs'
                 PROVE  /\ r \in LiveRevs
                        /\ CandidateKept(r) => CandidateKept(r)'
                        /\ jobState'[Candidate(r, cand)] = jobState[Candidate(r, cand)]
      BY <1>2 DEF CandidateStep
    <3>1. r \in revs /\ r \in Revision /\ MemoryOf[r] # j.mem /\ MemoryOf[r] \in Memory
      BY <2>1, ConstantAssumption DEF LiveRevs, EraseInv, RefInv, TypeInv, TypeOK, RowsOK
    <3>2. r \in LiveRevs
      BY <2>1, <2>3, <3>1 DEF LiveRevs
    <3>3. Candidate(r, cand) \in EmbedJob /\ Candidate(r, cand) \in Job
      BY <3>1, CandidateJobs DEF EraseInv, RefInv, TypeInv, TypeOK, SettingsOK
    <3>4. jobState'[Candidate(r, cand)] = jobState[Candidate(r, cand)]
      BY <1>3, <2>2, <3>3
    <3>5. <<r, runGen[cand]>> \in emb => <<r, runGen[cand]>> \in emb'
      BY <2>1, <3>1
    <3> QED
      BY <1>2, <3>2, <3>4, <3>5 DEF CandidateKept
  <2> QED
    BY <2>4, <2>5, <2>6 DEF Settles
<1> QED
  BY <1>4, <1>5

LEMMA WorkerSettles == ASSUME EraseInv, NEW w \in Worker, WorkerStep(w) PROVE Settles
<1>1. ASSUME NEW j \in Job, ClaimPurge(w, j) \/ ClaimEmbed(w, j) PROVE Settles
  BY <1>1, LeaseSettles DEF ClaimPurge, ClaimEmbed
<1>2. CASE LeaseLost(w) \/ Crash(w)
  BY <1>2, QuietSettles DEF LeaseLost, Crash, jobVars, settingVars, runVars
<1>3. CASE FailAttempt(w) \/ BudgetReduced(w)
  <2>1. wpc[w] # "idle" /\ Owned(w) /\ UNCHANGED rowVars /\ UNCHANGED <<cand, runGen>>
    BY <1>3 DEF FailAttempt, BudgetReduced, settingVars, runVars
  <2>2. PICK j \in Job : j = wjob[w] /\ jobState[j] = "leased"
    BY <2>1, OwnedJob DEF EraseInv
  <2>3. jobState'[j] \in Unfinished /\ \A k \in Job : k # j => jobState'[k] = jobState[k]
    BY <1>3, <2>2 DEF FailAttempt, BudgetReduced, GiveBack, CloseJobs, Unfinished
  <2> QED
    BY <2>1, <2>2, <2>3, WorkedSettles DEF rowVars
<1> QED
  BY <1>1, <1>2, <1>3, BeginSettles, PublishSettles, PurgeSettles, JobFacts DEF WorkerStep

\* Jobs that failed and get another round of attempts.
LEMMA RequeueSettles ==
  ASSUME EraseInv, NEW js \in SUBSET Job, \A j \in js : jobState[j] = "failed", Requeue(js),
         UNCHANGED <<cand, runGen>>
  PROVE  Settles
<1>1. UNCHANGED rowVars /\ \A j \in Job : IF j \in js THEN jobState'[j] = "pending" /\ attempts'[j] = 0
                                                      ELSE jobState'[j] = jobState[j]
  BY DEF Requeue
<1>2. ErasureInv'
  BY <1>1, JobFacts DEF EraseInv, ErasureInv, Unfinished, rowVars
<1>3. FinalStep
  BY <1>1 DEF FinalStep
<1>4. CandidateStep
  <2> SUFFICES ASSUME cand # None, NEW r \in LiveRevs
               PROVE  /\ CandidateKept(r) => CandidateKept(r)'
                      /\ jobState'[Candidate(r, cand)] # "none" => jobState[Candidate(r, cand)] # "none"
    BY <1>1, RowsKeepLive DEF CandidateStep
  <2>1. Candidate(r, cand) \in Job
    BY CandidateJobs, LiveAreRevisions DEF EraseInv, RefInv, TypeInv, TypeOK, SettingsOK
  <2> QED
    BY <1>1, <2>1 DEF CandidateKept, Unfinished, rowVars
<1> QED
  BY <1>2, <1>3, <1>4 DEF Settles

\* Embedding jobs of a run or of an index that is no longer selected.
LEMMA CancelSettles ==
  ASSUME EraseInv, NEW js \in SUBSET EmbedJob, CancelJobs(js), UNCHANGED rowVars
  PROVE  ErasureInv' /\ FinalStep
<1>1. js \in SUBSET Job
  BY JobFacts
<1>2. \A j \in Job : \/ jobState'[j] = jobState[j]
                     \/ j \in EmbedJob /\ jobState[j] \in Unfinished /\ jobState'[j] = "cancelled"
  <2>1. RefInv
    BY DEF EraseInv
  <2> SUFFICES ASSUME NEW j \in Job, jobState'[j] # jobState[j]
               PROVE  j \in EmbedJob /\ jobState[j] \in Unfinished /\ jobState'[j] = "cancelled"
    OBVIOUS
  <2>2. j \in js /\ jobState[j] \in Unfinished
    BY <1>1, <2>1, CancelEffect DEF JobSame
  <2> QED
    BY <1>1, <2>1, <2>2, CancelEffect
<1>3. ErasureInv'
  BY <1>2, JobFacts DEF EraseInv, ErasureInv, rowVars
<1>4. FinalStep
  BY <1>2 DEF FinalStep, Unfinished
<1> QED
  BY <1>3, <1>4

\* New jobs of embedding, none of which existed.
LEMMA InsertSettles ==
  ASSUME EraseInv, NEW js \in SUBSET EmbedJob, NEW gen, NEW late, InsertJobs(js, gen, late),
         \A j \in js : jobState[j] = "none", emb' = emb, UNCHANGED <<cand, runGen>>,
         revs \subseteq revs', \A r \in revs' : r \in Revision /\ memState'[MemoryOf[r]] # "purged",
         LiveRevs' \subseteq Revision,
         \A m \in Memory : memState'[m] = memState[m] \/ (memState[m] = "absent" /\ memState'[m] = "live"),
         \A r \in LiveRevs' : r \in LiveRevs \/ cand = None \/ Candidate(r, cand) \in js
  PROVE  Settles
<1>1. \A j \in Job : IF j \in js THEN jobState'[j] = "pending" ELSE jobState'[j] = jobState[j]
  BY DEF InsertJobs
<1>2. ErasureInv'
  BY <1>1, JobFacts DEF EraseInv, ErasureInv
<1>3. FinalStep
  BY <1>1 DEF FinalStep
<1>4. CandidateStep
  <2> SUFFICES ASSUME cand # None, NEW r \in LiveRevs'
               PROVE  /\ r \notin LiveRevs \/ CandidateKept(r) => CandidateKept(r)'
                      /\ jobState'[Candidate(r, cand)] # "none" =>
                            jobState[Candidate(r, cand)] # "none" \/ CandidateKept(r)'
    BY DEF CandidateStep
  <2>1. Candidate(r, cand) \in Job
    BY CandidateJobs DEF EraseInv, RefInv, TypeInv, TypeOK, SettingsOK
  <2> QED
    BY <1>1, <2>1 DEF CandidateKept, Unfinished
<1> QED
  BY <1>2, <1>3, <1>4 DEF Settles

LEMMA AcceptSettles ==
  ASSUME EraseInv, NEW r \in Revision, Save(r) \/ Revise(r) PROVE Settles
<1> DEFINE js == {Ordinary(r)} \cup (IF cand = None THEN {} ELSE {Candidate(r, cand)})
           gen == [j \in js |-> IF j.run = None THEN active ELSE runGen[j.run]]
<1>1. /\ revs' = revs \cup {r} /\ emb' = emb /\ InsertJobs(js, gen, {}) /\ UNCHANGED <<cand, runGen>>
      /\ \/ memState[MemoryOf[r]] = "absent" /\ memState' = [memState EXCEPT ![MemoryOf[r]] = "live"]
         \/ memState[MemoryOf[r]] = "live" /\ memState' = memState /\ r \notin revs
  BY DEF Save, Revise, Accept, settingVars, runVars
<1>2. cand = None \/ cand \in Run
  BY DEF EraseInv, RefInv, TypeInv, TypeOK, SettingsOK
<1>3. js \in SUBSET EmbedJob /\ \A j \in js : j.rev = r
  BY <1>2, JobFacts, CandidateJobs
<1>4. \A j \in js : jobState[j] = "none"
  BY <1>1, <1>3 DEF EraseInv, RefInv, JobInv, Placed, FreshInv
<1>5. memState \in [Memory -> {"absent", "live", "deleted", "purged"}] /\ MemoryOf[r] \in Memory
  BY ConstantAssumption DEF EraseInv, RefInv, TypeInv, TypeOK, RowsOK
<1>6. revs' \subseteq Revision /\ LiveRevs' \subseteq Revision /\ revs \subseteq revs'
  BY <1>1 DEF EraseInv, RefInv, TypeInv, TypeOK, RowsOK, LiveRevs
<1>7. \A m \in Memory : memState'[m] = memState[m] \/ (memState[m] = "absent" /\ memState'[m] = "live")
  <2>1. \/ memState[MemoryOf[r]] = "absent" /\ memState' = [memState EXCEPT ![MemoryOf[r]] = "live"]
        \/ memState' = memState
    BY <1>1
  <2> QED
    BY <1>5, <2>1
<1>8. \A q \in revs' : q \in Revision /\ memState'[MemoryOf[q]] # "purged"
  <2> SUFFICES ASSUME NEW q \in revs' PROVE memState'[MemoryOf[q]] # "purged"
    BY <1>6
  <2>1. MemoryOf[q] \in Memory
    BY <1>6, ConstantAssumption
  <2>2. CASE q = r
    BY <1>1, <1>5, <2>2
  <2>3. CASE q \in revs
    <3>1. memState[MemoryOf[q]] # "purged"
      BY <2>1, <2>3 DEF EraseInv, ErasureInv
    <3> QED
      BY <1>7, <2>1, <3>1
  <2> QED
    BY <1>1, <2>2, <2>3
<1>9. \A q \in LiveRevs' : q \in LiveRevs \/ cand = None \/ Candidate(q, cand) \in js
  <2> SUFFICES ASSUME NEW q \in LiveRevs', q # r PROVE q \in LiveRevs
    OBVIOUS
  <2>1. q \in revs /\ MemoryOf[q] \in Memory /\ memState'[MemoryOf[q]] = "live"
    BY <1>1, <1>6, ConstantAssumption DEF LiveRevs
  <2> QED
    BY <1>7, <2>1 DEF LiveRevs, EraseInv, RefInv, NoEarlyRevisions
<1> HIDE DEF js, gen
<1> QED
  BY <1>1, <1>3, <1>4, <1>6, <1>7, <1>8, <1>9, InsertSettles

LEMMA ForgetSettles == ASSUME EraseInv, NEW m \in Memory, Forget(m) PROVE Settles
<1>1. /\ memState[m] = "live" /\ memState' = [memState EXCEPT ![m] = "deleted"]
      /\ UNCHANGED <<revs, emb>> /\ UNCHANGED <<cand, runGen>>
  BY DEF Forget, settingVars, runVars
<1>2. memState \in [Memory -> {"absent", "live", "deleted", "purged"}]
  BY DEF EraseInv, RefInv, TypeInv, TypeOK, RowsOK
<1>3. \A j \in Job : IF j = Purge(m) THEN jobState'[j] = "pending"
                      ELSE \/ jobState'[j] = jobState[j]
                           \/ JobMemory(j) = m /\ jobState[j] \in Unfinished /\ jobState'[j] = "cancelled"
  BY DEF Forget, JobsOf
<1>4. jobState[Purge(m)] = "none"
  BY <1>1 DEF EraseInv, ErasureInv
<1>5. ErasureInv'
  <2> SUFFICES ASSUME NEW l \in Memory
               PROVE  /\ memState'[l] = "deleted" => jobState'[Purge(l)] \in Unfinished
                      /\ memState'[l] = "purged" => \A r \in revs : MemoryOf[r] # l
                      /\ jobState'[Purge(l)] # "none" => memState'[l] \in {"deleted", "purged"}
    BY <1>1 DEF ErasureInv
  <2>1. CASE l = m
    BY <1>1, <1>2, <1>3, <2>1, JobMemoryOf DEF Unfinished
  <2>2. CASE l # m
    <3>1. Purge(l) # Purge(m) /\ Purge(l) \in Job /\ JobMemory(Purge(l)) = l
      BY <2>2, JobFacts, JobMemoryOf
    <3>2. jobState'[Purge(l)] = jobState[Purge(l)] /\ memState'[l] = memState[l]
      BY <1>1, <1>2, <1>3, <2>2, <3>1
    <3> QED
      BY <3>2 DEF EraseInv, ErasureInv
  <2> QED
    BY <2>1, <2>2
<1>6. FinalStep
  BY <1>3, <1>4 DEF FinalStep, Unfinished
<1>7. CandidateStep
  <2> SUFFICES ASSUME cand # None, NEW r \in LiveRevs'
               PROVE  /\ r \in LiveRevs
                      /\ jobState'[Candidate(r, cand)] = jobState[Candidate(r, cand)]
    BY <1>1 DEF CandidateStep, CandidateKept
  <2>1. r \in revs /\ r \in Revision /\ MemoryOf[r] \in Memory /\ memState'[MemoryOf[r]] = "live"
    BY <1>1, ConstantAssumption DEF LiveRevs, EraseInv, RefInv, TypeInv, TypeOK, RowsOK
  <2>2. MemoryOf[r] # m /\ r \in LiveRevs
    BY <1>1, <1>2, <2>1 DEF LiveRevs
  <2>3. Candidate(r, cand) \in EmbedJob /\ Candidate(r, cand) \in Job /\ Candidate(r, cand).rev = r
    BY <2>1, CandidateJobs DEF EraseInv, RefInv, TypeInv, TypeOK, SettingsOK
  <2>4. JobMemory(Candidate(r, cand)) # m /\ Candidate(r, cand) # Purge(m)
    BY <2>2, <2>3, JobMemoryOf
  <2> QED
    BY <1>3, <2>2, <2>3, <2>4
<1> QED
  BY <1>5, <1>6, <1>7 DEF Settles

LEMMA RestoreSettles == ASSUME EraseInv, Restore PROVE Settles
<1>1. memState \in [Memory -> {"absent", "live", "deleted", "purged"}]
  BY DEF EraseInv, RefInv, TypeInv, TypeOK, RowsOK
<1>2. \A j \in Job : IF JobMemory(j) \in Gone /\ jobState[j] \in Unfinished THEN jobState'[j] = "cancelled"
                      ELSE jobState'[j] = IF jobState[j] = "leased" THEN "pending" ELSE jobState[j]
  BY DEF Restore, Unfinished, Gone
<1>3. \A m \in Memory : IF m \in Gone THEN memState'[m] = "purged"
                         ELSE memState'[m] = memState[m] /\ memState[m] \in {"live", "absent"}
  BY <1>1, RestoreRows DEF Gone
<1>4. ErasureInv'
  <2> SUFFICES ASSUME NEW m \in Memory
               PROVE  /\ memState'[m] = "deleted" => jobState'[Purge(m)] \in Unfinished
                      /\ memState'[m] = "purged" => \A r \in revs' : MemoryOf[r] # m
                      /\ jobState'[Purge(m)] # "none" => memState'[m] \in {"deleted", "purged"}
    BY DEF ErasureInv
  <2>1. CASE m \in Gone
    BY <1>3, <2>1, RestoreRows
  <2>2. CASE m \notin Gone
    BY <1>2, <1>3, <2>2, JobMemoryOf DEF EraseInv, ErasureInv
  <2> QED
    BY <2>1, <2>2
<1>5. FinalStep
  BY <1>2 DEF FinalStep, Unfinished
<1>6. CandidateStep
  <2>0. UNCHANGED <<cand, runGen>>
    BY RestoreRows
  <2> SUFFICES ASSUME cand # None, NEW r \in LiveRevs'
               PROVE  /\ r \in LiveRevs
                      /\ CandidateKept(r) => CandidateKept(r)'
                      /\ jobState'[Candidate(r, cand)] # "none" => jobState[Candidate(r, cand)] # "none"
    BY <2>0 DEF CandidateStep
  <2>1. r \in revs /\ r \in Revision /\ MemoryOf[r] \in Memory /\ MemoryOf[r] \notin Gone
        /\ memState'[MemoryOf[r]] = "live"
    BY RestoreRows, ConstantAssumption DEF LiveRevs, EraseInv, RefInv, TypeInv, TypeOK, RowsOK
  <2>2. r \in LiveRevs
    BY <1>3, <2>1 DEF LiveRevs
  <2>3. Candidate(r, cand) \in Job /\ JobMemory(Candidate(r, cand)) = MemoryOf[r]
    BY <2>1, CandidateJobs, JobMemoryOf DEF EraseInv, RefInv, TypeInv, TypeOK, SettingsOK
  <2>4. jobState'[Candidate(r, cand)] =
           IF jobState[Candidate(r, cand)] = "leased" THEN "pending" ELSE jobState[Candidate(r, cand)]
    BY <1>2, <2>1, <2>3
  <2>5. <<r, runGen[cand]>> \in emb => <<r, runGen[cand]>> \in emb'
    BY <2>1, RestoreRows
  <2> QED
    BY <2>0, <2>2, <2>4, <2>5 DEF CandidateKept, Unfinished
<1> QED
  BY <1>4, <1>5, <1>6 DEF Settles

(***************************************************************************)
(* The backfill.                                                           *)
(***************************************************************************)

\* The next batch in rank order leaves out only revisions behind all of it, and
\* then it is full.
LEMMA BatchOrder ==
  ASSUME IsFiniteSet(revs), LiveRevs \subseteq Revision, NEW c \in Nat,
         NEW r \in LiveRevs, Rank[r] > c, r \notin BatchAfter(c)
  PROVE  /\ ~(Cardinality(BatchAfter(c)) < BatchSize)
         /\ \A q \in BatchAfter(c) : Rank[q] < Rank[r]
<1> DEFINE rest == {q \in LiveRevs : Rank[q] > c}
           down(q) == {p \in rest : Rank[p] < Rank[q]}
           batch == {q \in rest : Cardinality(down(q)) < BatchSize}
<1>1. BatchAfter(c) = batch
  BY DEF BatchAfter
<1>2. IsFiniteSet(rest) /\ rest \subseteq Revision /\ r \in rest /\ r \notin batch
  <2>1. rest \in SUBSET revs
    BY DEF LiveRevs
  <2>2. IsFiniteSet(rest)
    BY <2>1, FS_Subset
  <2> QED
    BY <1>1, <2>2
<1>3. \A q \in rest : Rank[q] \in Nat
  BY <1>2, ConstantAssumption
<1>4. \A q \in rest : /\ down(q) \in SUBSET rest /\ IsFiniteSet(down(q))
                      /\ Cardinality(down(q)) \in Nat
  BY <1>2, FS_Subset, FS_CardinalityType
<1>5. BatchSize \in Nat
  BY ConstantAssumption
<1>6. \A q \in batch : Rank[q] < Rank[r]
  <2> SUFFICES ASSUME NEW q \in batch, ~(Rank[q] < Rank[r]) PROVE FALSE
    OBVIOUS
  <2>1. Cardinality(down(q)) < BatchSize /\ q \in rest
    OBVIOUS
  <2>2. down(r) \in SUBSET down(q)
    BY <1>2, <1>3, <2>1
  <2>3. Cardinality(down(r)) <= Cardinality(down(q))
    BY <1>4, <2>1, <2>2, FS_Subset
  <2>4. ~(Cardinality(down(r)) < BatchSize)
    BY <1>2
  <2> HIDE DEF down, batch, rest
  <2> QED
    BY <1>2, <1>4, <1>5, <2>1, <2>3, <2>4
<1>7. ~(Cardinality(batch) < BatchSize)
  <2> SUFFICES ASSUME Cardinality(batch) < BatchSize PROVE FALSE
    OBVIOUS
  <2>1. batch \in SUBSET rest /\ IsFiniteSet(batch) /\ Cardinality(batch) \in Nat
    BY <1>2, FS_Subset, FS_CardinalityType
  <2> DEFINE downs == {down(q) : q \in rest \ batch}
  <2>2. IsWellFoundedOn(StrictSubsetOrdering(rest), FiniteSubsetsOf(rest))
    BY FS_StrictSubsetOrderingWellFounded
  <2>3. downs \subseteq FiniteSubsetsOf(rest) /\ downs # {}
    BY <1>2, <1>4 DEF FiniteSubsetsOf
  <2>4. PICK d \in downs : \A e \in downs : ~(<<e, d>> \in StrictSubsetOrdering(rest))
    <3> HIDE DEF downs
    <3> QED
      BY <2>2, <2>3, WFMin
  <2>5. PICK p \in rest \ batch : d = down(p)
    OBVIOUS
  <2>6. down(p) \in SUBSET batch
    <3> SUFFICES ASSUME NEW q \in down(p), q \notin batch PROVE FALSE
      BY <1>4
    <3>1. q \in rest \ batch /\ Rank[q] < Rank[p] /\ Rank[q] \in Nat /\ Rank[p] \in Nat
      BY <1>3
    <3>2. down(q) \subseteq down(p) /\ q \notin down(q) /\ down(q) \in downs
      BY <1>3, <3>1
    <3>3. down(q) \in SUBSET rest /\ down(p) \in SUBSET rest
      BY <1>4, <3>1
    <3>4. <<down(q), down(p)>> \in StrictSubsetOrdering(rest)
      <4> HIDE DEF down, rest
      <4> QED
        BY <3>2, <3>3 DEF StrictSubsetOrdering
    <3> QED
      BY <2>4, <2>5, <3>2, <3>4
  <2>7. Cardinality(down(p)) <= Cardinality(batch)
    <3> HIDE DEF batch, down
    <3> QED
      BY <2>1, <2>6, FS_Subset
  <2>8. Cardinality(down(p)) \in Nat /\ ~(Cardinality(down(p)) < BatchSize)
    BY <1>4
  <2> HIDE DEF batch, down
  <2> QED
    BY <1>5, <2>1, <2>7, <2>8
<1> HIDE DEF batch
<1> QED
  BY <1>1, <1>6, <1>7

ScanEraseInv == EraseInv /\ ScanInv

LEMMA CandidateRun == ASSUME ScanEraseInv, cand # None PROVE cand \in Run /\ runState[cand] # "none"
  BY DEF ScanEraseInv, EraseInv, RefInv, TypeInv, TypeOK, SettingsOK, RunsNameGen

\* The run that an open transaction scans is the selected one, and it is alone.
LEMMA OneReader ==
  ASSUME ScanEraseInv, NEW s \in Scanner, spc[s] = "reading"
  PROVE  /\ srun[s] = cand /\ cand # None /\ cand \in Run
         /\ \A t \in Scanner : spc[t] = "reading" => t = s
  BY ConstantAssumption DEF ScanEraseInv, EraseInv, RefInv, ReadingInv, TypeInv, BusyScanners,
         ScanInv, BatchInv

\* A step that keeps cursors, and what the open transactions hold.
LEMMA ScanFrame ==
  ASSUME ScanEraseInv, CandidateStep, IsFiniteSet(revs'), UNCHANGED <<cursor, scanned>>,
         \A n \in Run : runState'[n] = "none" => runState[n] = "none",
         \A s \in Scanner : spc'[s] = "reading" =>
             /\ spc[s] = "reading" /\ srun'[s] = srun[s] /\ srows'[s] = srows[s]
             /\ scanHolder'[srun[s]] = s /\ srun[s] \in scanLive'
  PROVE  ScanInv'
<1>1. FreshRunInv'
  BY DEF ScanEraseInv, ScanInv, FreshRunInv
<1>2. \A r : Scannable(r)' <=> Scannable(r)
  BY DEF Scannable, CandidateStep
<1>3. SettledInv'
  <2> SUFFICES ASSUME cand # None, NEW r \in LiveRevs'
               PROVE  /\ Scannable(r) \/ CandidateKept(r)'
                      /\ jobState'[Candidate(r, cand)] # "none" => CandidateKept(r)'
    BY <1>2 DEF SettledInv, CandidateStep
  <2> QED
    BY DEF CandidateStep, ScanEraseInv, ScanInv, SettledInv
<1>4. BatchInv'
  <2> SUFFICES ASSUME NEW s \in Scanner, spc'[s] = "reading", NEW r \in LiveRevs',
                      Scannable(r), ~CandidateKept(r)', r \notin srows[s]
               PROVE  /\ ~(Cardinality(srows[s]) < BatchSize)
                      /\ \A q \in srows[s] : Rank[q] < Rank[r]
    BY <1>2 DEF BatchInv
  <2>1. cand # None
    BY OneReader
  <2>2. r \in LiveRevs /\ ~CandidateKept(r)
    BY <2>1 DEF CandidateStep
  <2> QED
    BY <2>2 DEF ScanEraseInv, ScanInv, BatchInv
<1> QED
  BY <1>1, <1>3, <1>4 DEF ScanInv

LEMMA ScannersKeep ==
  ASSUME ScanEraseInv, UNCHANGED scanVars, UNCHANGED <<scanHolder, scanLive>>
  PROVE  \A s \in Scanner : spc'[s] = "reading" =>
             /\ spc[s] = "reading" /\ srun'[s] = srun[s] /\ srows'[s] = srows[s]
             /\ scanHolder'[srun[s]] = s /\ srun[s] \in scanLive'
  BY DEF ScanEraseInv, ScanInv, BatchInv, scanVars

\* A new run has no job, and every revision ahead of its cursor.
LEMMA StartScan ==
  ASSUME ScanEraseInv, NEW n \in Run, NEW g \in Gen, Start(n, g)
  PROVE  ErasureInv' /\ FinalStep /\ ScanInv'
<1>1. /\ UNCHANGED rowVars /\ jobState' = jobState /\ UNCHANGED <<cursor, scanned>>
      /\ cand' = n /\ runState[n] = "none" /\ runState' = [runState EXCEPT ![n] = "running"]
      /\ ExclusiveBoundary /\ UNCHANGED scanVars /\ runGen' = [runGen EXCEPT ![n] = g]
  BY DEF Start, jobVars
<1>2. ErasureInv' /\ FinalStep
  BY <1>1 DEF ScanEraseInv, EraseInv, ErasureInv, FinalStep, rowVars
<1>3. FreshRunInv' /\ IsFiniteSet(revs')
  BY <1>1 DEF ScanEraseInv, ScanInv, FreshRunInv, rowVars, EraseInv, RefInv, TypeInv, TypeOK, RunsOK
<1>4. SettledInv'
  <2> SUFFICES ASSUME NEW r \in LiveRevs
               PROVE  n \notin scanned /\ Rank[r] > cursor[n] /\ jobState[Candidate(r, n)] = "none"
    BY <1>1, RowsKeepLive DEF SettledInv, Scannable
  <2>1. r \in Revision
    BY LiveAreRevisions DEF ScanEraseInv, EraseInv, RefInv
  <2>2. n \notin scanned /\ cursor[n] = 0
    BY <1>1 DEF ScanEraseInv, ScanInv, FreshRunInv
  <2>3. Rank[r] > 0
    BY <2>1, ConstantAssumption
  <2>4. jobState[Candidate(r, n)] = "none"
    BY <1>1, <2>1, CandidateJobs, ConstantAssumption DEF ScanEraseInv, EraseInv, RefInv, JobInv,
           Placed
  <2> QED
    BY <2>2, <2>3, <2>4
<1>5. BatchInv'
  BY <1>1 DEF BatchInv, ExclusiveBoundary, scanVars
<1> QED
  BY <1>2, <1>3, <1>4, <1>5 DEF ScanInv

\* A candidate that is no longer selected.
LEMMA DeselectScan ==
  ASSUME ScanEraseInv, ExclusiveBoundary, UNCHANGED scanVars, cand' = None, UNCHANGED rowVars,
         UNCHANGED <<cursor, scanned>>,
         \A n \in Run : runState'[n] = "none" => runState[n] = "none"
  PROVE  ScanInv'
<1>1. FreshRunInv' /\ IsFiniteSet(revs')
  BY DEF ScanEraseInv, ScanInv, FreshRunInv, rowVars
<1>2. SettledInv' /\ BatchInv'
  BY DEF SettledInv, BatchInv, ExclusiveBoundary, scanVars
<1> QED
  BY <1>1, <1>2 DEF ScanInv

\* A batch is read: what it leaves out comes after it.
LEMMA ReadScan == ASSUME ScanEraseInv, NEW s \in Scanner, ReadBatch(s) PROVE Settles /\ ScanInv'
<1> DEFINE n == srun[s]
<1>1. /\ ScanOwned(s) /\ spc[s] = "claimed" /\ spc' = [spc EXCEPT ![s] = "reading"]
      /\ srows' = [srows EXCEPT ![s] = BatchAfter(cursor[n])] /\ srun' = srun
      /\ UNCHANGED rowVars /\ jobState' = jobState /\ UNCHANGED <<cand, runGen>>
      /\ UNCHANGED <<runState, cursor, scanned, scanHolder, scanLive>>
  BY DEF ReadBatch, jobVars, settingVars, runVars
<1>2. Settles
  BY <1>1, QuietSettles DEF ScanEraseInv
<1>3. n \in Run /\ n = cand /\ cand # None /\ cursor[n] \in Nat
  <2>1. n \in Run /\ runState[n] = "running"
    BY <1>1 DEF ScanEraseInv, EraseInv, RefInv, TypeInv, BusyScanners, ScanOwned
  <2> QED
    BY <2>1, ConstantAssumption DEF ScanEraseInv, EraseInv, RefInv, CandidateInv, TypeInv, TypeOK,
           RunsOK
<1>4. LiveRevs' = LiveRevs /\ (\A r : Scannable(r)' <=> Scannable(r)) /\ (\A r : CandidateKept(r)' <=> CandidateKept(r))
  BY <1>1, RowsKeepLive DEF Scannable, CandidateKept
<1>5. FreshRunInv' /\ IsFiniteSet(revs')
  BY <1>1 DEF ScanEraseInv, ScanInv, FreshRunInv, rowVars
<1>6. SettledInv'
  BY <1>1, <1>4 DEF ScanEraseInv, ScanInv, SettledInv
<1>7. BatchInv'
  <2> SUFFICES ASSUME NEW t \in Scanner, spc'[t] = "reading"
               PROVE  /\ scanHolder[srun[t]] = t /\ srun[t] \in scanLive
                      /\ \A r \in LiveRevs :
                            Scannable(r) /\ ~CandidateKept(r) /\ r \notin srows'[t] =>
                                /\ ~(Cardinality(srows'[t]) < BatchSize)
                                /\ \A q \in srows'[t] : Rank[q] < Rank[r]
    BY <1>1, <1>4 DEF BatchInv
  <2>1. CASE t = s
    <3>1. srows'[s] = BatchAfter(cursor[n])
      BY <1>1 DEF ScanEraseInv, EraseInv, RefInv, TypeInv, TypeOK, ScannersOK
    <3>2. \A r \in LiveRevs : Scannable(r) => Rank[r] > cursor[n]
      BY <1>3 DEF Scannable
    <3>3. IsFiniteSet(revs) /\ LiveRevs \subseteq Revision
      BY LiveAreRevisions DEF ScanEraseInv, ScanInv, EraseInv, RefInv
    <3>4. \A r \in LiveRevs : Rank[r] > cursor[n] /\ r \notin BatchAfter(cursor[n]) =>
             /\ ~(Cardinality(BatchAfter(cursor[n])) < BatchSize)
             /\ \A q \in BatchAfter(cursor[n]) : Rank[q] < Rank[r]
      BY <1>3, <3>3, BatchOrder
    <3> QED
      BY <1>1, <2>1, <3>1, <3>2, <3>4 DEF ScanOwned
  <2>2. CASE t # s
    <3>1. spc[t] = "reading" /\ srows'[t] = srows[t]
      BY <1>1, <2>2 DEF ScanEraseInv, EraseInv, RefInv, TypeInv, TypeOK, ScannersOK
    <3> QED
      BY <3>1 DEF ScanEraseInv, ScanInv, BatchInv
  <2> QED
    BY <2>1, <2>2
<1> QED
  BY <1>2, <1>5, <1>6, <1>7 DEF ScanInv

\* It commits: what it read has a job or a vector, the rest is still ahead or was
\* accepted meanwhile.
LEMMA EnqueueScan == ASSUME ScanEraseInv, NEW s \in Scanner, EnqueueBatch(s) PROVE Settles /\ ScanInv'
<1> DEFINE n == srun[s]
           new == {Candidate(r, n) : r \in {q \in srows[s] : /\ jobState[Candidate(q, n)] = "none"
                                                             /\ <<q, runGen[n]>> \notin emb}}
           gen == [j \in new |-> runGen[n]]
           late == {j \in new : JobMemory(j) \in withheld}
<1>1. /\ spc[s] = "reading" /\ srows[s] \subseteq revs /\ InsertJobs(new, gen, late) /\ ScanIdle(s)
      /\ UNCHANGED rowVars /\ UNCHANGED <<cand, runGen, runState>>
      /\ scanned' = IF Cardinality(srows[s]) < BatchSize THEN scanned \cup {n} ELSE scanned
  BY DEF EnqueueBatch, settingVars
<1>2. PICK last \in {cursor[n]} \cup {Rank[r] : r \in srows[s]} : cursor' = [cursor EXCEPT ![n] = last]
  BY DEF EnqueueBatch
<1>3. n = cand /\ cand # None /\ cand \in Run /\ \A t \in Scanner : spc[t] = "reading" => t = s
  BY <1>1, OneReader
<1>4. LiveRevs' = LiveRevs /\ LiveRevs \subseteq Revision /\ srows[s] \subseteq Revision
  BY <1>1, RowsKeepLive, LiveAreRevisions DEF ScanEraseInv, EraseInv, RefInv, TypeInv, TypeOK,
         RowsOK
<1>5. new \in SUBSET EmbedJob /\ \A j \in new : jobState[j] = "none"
  <2>1. ASSUME NEW j \in new PROVE j \in EmbedJob /\ jobState[j] = "none"
    <3>1. PICK r \in srows[s] : j = Candidate(r, n) /\ jobState[Candidate(r, n)] = "none"
      OBVIOUS
    <3> QED
      BY <1>3, <1>4, <3>1, CandidateJobs
  <2> HIDE DEF new
  <2> QED
    BY <2>1
<1>6. \A r \in srows[s] : jobState[Candidate(r, cand)] = "none" /\ <<r, runGen[cand]>> \notin emb =>
                             Candidate(r, cand) \in new
  BY <1>3
<1> HIDE DEF new, gen, late
<1>7. Settles
  <2>1. \A r \in revs' : r \in Revision /\ memState'[MemoryOf[r]] # "purged"
    BY <1>1, ConstantAssumption DEF rowVars, ScanEraseInv, EraseInv, RefInv, TypeInv, TypeOK,
           RowsOK, ErasureInv
  <2>2. EraseInv /\ emb' = emb /\ revs \subseteq revs' /\ memState' = memState
    BY <1>1 DEF ScanEraseInv, rowVars
  <2> QED
    BY <1>1, <1>4, <1>5, <2>1, <2>2, InsertSettles
<1>8. FreshRunInv' /\ IsFiniteSet(revs')
  <2>1. IsFiniteSet(revs')
    BY <1>1 DEF ScanEraseInv, ScanInv, rowVars
  <2>2. \A m \in Run : m # n => cursor'[m] = cursor[m] /\ (m \in scanned' <=> m \in scanned)
    BY <1>1, <1>2 DEF ScanEraseInv, EraseInv, RefInv, TypeInv, TypeOK, RunsOK
  <2>3. runState'[n] # "none"
    BY <1>1, <1>3, CandidateRun
  <2> QED
    BY <1>1, <2>1, <2>2, <2>3 DEF ScanEraseInv, ScanInv, FreshRunInv
<1>9. SettledInv'
  <2> SUFFICES ASSUME NEW r \in LiveRevs
               PROVE  /\ Scannable(r)' \/ CandidateKept(r)'
                      /\ jobState'[Candidate(r, cand)] # "none" => CandidateKept(r)'
    BY <1>1, <1>4 DEF SettledInv
  <2>1. /\ CandidateKept(r) => CandidateKept(r)'
        /\ jobState'[Candidate(r, cand)] # "none" =>
              jobState[Candidate(r, cand)] # "none" \/ CandidateKept(r)'
    BY <1>3, <1>4, <1>7 DEF Settles, CandidateStep
  <2>2. /\ Scannable(r) \/ CandidateKept(r)
        /\ jobState[Candidate(r, cand)] # "none" => CandidateKept(r)
    BY <1>3 DEF ScanEraseInv, ScanInv, SettledInv
  <2>3. ASSUME ~CandidateKept(r), r \in srows[s] PROVE CandidateKept(r)'
    <3>1. jobState[Candidate(r, cand)] = "none" /\ <<r, runGen[cand]>> \notin emb
      BY <2>2, <2>3 DEF CandidateKept
    <3>2. Candidate(r, cand) \in new /\ Candidate(r, cand) \in Job
      BY <1>3, <1>4, <1>6, <2>3, <3>1, CandidateJobs
    <3>3. jobState'[Candidate(r, cand)] = "pending"
      BY <1>1, <3>2 DEF InsertJobs
    <3> QED
      BY <1>1, <3>3 DEF CandidateKept, Unfinished
  <2>4. ASSUME ~CandidateKept(r), r \notin srows[s] PROVE Scannable(r)'
    <3>1. Scannable(r)
      BY <2>2, <2>4
    <3>2. ~(Cardinality(srows[s]) < BatchSize) /\ \A q \in srows[s] : Rank[q] < Rank[r]
      BY <1>1, <2>4, <3>1 DEF ScanEraseInv, ScanInv, BatchInv
    <3>3. Rank[r] > last
      <4>1. CASE last = cursor[n]
        BY <1>3, <3>1, <4>1 DEF Scannable
      <4>2. CASE \E q \in srows[s] : last = Rank[q]
        <5>1. PICK q \in srows[s] : last = Rank[q]
          BY <4>2
        <5>2. Rank[q] \in Nat /\ Rank[r] \in Nat
          BY <1>4, ConstantAssumption
        <5> QED
          BY <3>2, <5>1, <5>2
      <4> QED
        BY <4>1, <4>2
    <3>4. cursor'[cand] = last
      BY <1>2, <1>3 DEF ScanEraseInv, EraseInv, RefInv, TypeInv, TypeOK, RunsOK
    <3> QED
      BY <1>1, <3>1, <3>2, <3>3, <3>4 DEF Scannable
  <2> QED
    BY <2>1, <2>2, <2>3, <2>4
<1>10. BatchInv'
  <2>1. \A t \in Scanner : spc'[t] # "reading"
    BY <1>1, <1>3 DEF ScanIdle, ScanEraseInv, EraseInv, RefInv, TypeInv, TypeOK, ScannersOK
  <2> QED
    BY <2>1 DEF BatchInv
<1> QED
  BY <1>7, <1>8, <1>9, <1>10 DEF ScanInv

(***************************************************************************)
(* Every step.                                                             *)
(***************************************************************************)
LEMMA ApiScan == ASSUME ScanEraseInv, Api PROVE ErasureInv' /\ FinalStep /\ ScanInv'
<1>1. Settles
  <2>1. ASSUME NEW j \in Job, RetryOperation(j) PROVE Settles
    <3>1. {j} \cap {k \in Job : jobState[k] = "failed"} \in SUBSET Job
      OBVIOUS
    <3> QED
      BY <2>1, <3>1, RequeueSettles DEF RetryOperation, ScanEraseInv, settingVars, runVars
  <2> QED
    BY <2>1, AcceptSettles, ForgetSettles DEF Api, ScanEraseInv
<1>2. /\ UNCHANGED scanVars /\ UNCHANGED <<scanHolder, scanLive>> /\ UNCHANGED <<cursor, scanned, runState>>
      /\ revs' = revs \/ \E r \in Revision : revs' = revs \cup {r}
  BY DEF Api, Save, Revise, Accept, Forget, RetryOperation, Requeue, rowVars, runVars
<1>3. IsFiniteSet(revs')
  BY <1>2, FS_AddElement DEF ScanEraseInv, ScanInv
<1> QED
  BY <1>1, <1>2, <1>3, ScannersKeep, ScanFrame DEF Settles

LEMMA AdministrationScan ==
  ASSUME ScanEraseInv, Administration PROVE ErasureInv' /\ FinalStep /\ ScanInv'
<1>1. ASSUME Settles, UNCHANGED rowVars, UNCHANGED scanVars,
             UNCHANGED <<scanHolder, scanLive>>, UNCHANGED <<cursor, scanned>>,
             \A n \in Run : runState'[n] = "none" => runState[n] = "none"
      PROVE  ErasureInv' /\ FinalStep /\ ScanInv'
  BY <1>1, ScannersKeep, ScanFrame DEF Settles, ScanEraseInv, ScanInv, rowVars
<1>2. ASSUME NEW n \in Run, Pause(n) \/ Resume(n) PROVE ErasureInv' /\ FinalStep /\ ScanInv'
  <2>1. Settles
    BY <1>2, QuietSettles DEF Pause, Resume, SetRunState, ScanEraseInv, jobVars, settingVars
  <2>2. /\ UNCHANGED rowVars /\ UNCHANGED scanVars /\ UNCHANGED <<scanHolder, scanLive>>
        /\ UNCHANGED <<cursor, scanned>>
        /\ \A m \in Run : runState'[m] = "none" => runState[m] = "none"
    BY <1>2 DEF Pause, Resume, SetRunState, ScanEraseInv, EraseInv, RefInv, TypeInv, TypeOK, RunsOK
  <2> QED
    BY <1>1, <2>1, <2>2
<1>3. ASSUME NEW n \in Run, RetryRun(n) PROVE ErasureInv' /\ FinalStep /\ ScanInv'
  <2>1. PICK js \in SUBSET Job : Requeue(js) /\ \A j \in js : jobState[j] = "failed"
    BY <1>3, JobFacts DEF RetryRun, RunJobs
  <2>2. Settles
    BY <1>3, <2>1, RequeueSettles DEF RetryRun, ScanEraseInv, settingVars, runVars
  <2>3. UNCHANGED rowVars
    BY <2>1 DEF Requeue
  <2> QED
    BY <1>1, <1>3, <2>2, <2>3 DEF RetryRun, runVars
<1>4. ASSUME NEW n \in Run, Cancel(n) PROVE ErasureInv' /\ FinalStep /\ ScanInv'
  <2>1. RunJobs(n) \in SUBSET EmbedJob /\ CancelJobs(RunJobs(n)) /\ UNCHANGED rowVars
    BY <1>4 DEF RunJobs, Cancel
  <2>2. ErasureInv' /\ FinalStep
    BY <2>1, CancelSettles DEF ScanEraseInv
  <2>3. \A m \in Run : runState'[m] = "none" => runState[m] = "none"
    BY <1>4 DEF Cancel, ScanEraseInv, EraseInv, RefInv, TypeInv, TypeOK, RunsOK
  <2>4. ScanInv'
    BY <1>4, <2>1, <2>3, DeselectScan DEF Cancel
  <2> QED
    BY <2>2, <2>4
<1>5. ASSUME NEW n \in Run, Activate(n) PROVE ErasureInv' /\ FinalStep /\ ScanInv'
  <2>1. PICK js \in SUBSET EmbedJob : CancelJobs(js)
    BY <1>5 DEF Activate
  <2>2. ErasureInv' /\ FinalStep
    BY <1>5, <2>1, CancelSettles DEF Activate, ScanEraseInv
  <2>3. \A m \in Run : runState'[m] = "none" => runState[m] = "none"
    BY <1>5 DEF Activate, ScanEraseInv, EraseInv, RefInv, TypeInv, TypeOK, RunsOK
  <2>4. ScanInv'
    BY <1>5, <2>3, DeselectScan DEF Activate
  <2> QED
    BY <2>2, <2>4
<1>6. ASSUME ResumeProcessing PROVE ErasureInv' /\ FinalStep /\ ScanInv'
  <2>1. Settles
    BY <1>6, QuietSettles DEF ResumeProcessing, ScanEraseInv, jobVars, runVars
  <2> QED
    BY <1>1, <1>6, <2>1 DEF ResumeProcessing, runVars
<1> QED
  BY <1>2, <1>3, <1>4, <1>5, <1>6, StartScan DEF Administration

LEMMA WorkerScan ==
  ASSUME ScanEraseInv, NEW w \in Worker, WorkerStep(w) PROVE ErasureInv' /\ FinalStep /\ ScanInv'
<1>1. Settles
  BY WorkerSettles DEF ScanEraseInv
<1>2. UNCHANGED runVars /\ UNCHANGED scanVars
  BY DEF WorkerStep, ClaimPurge, ClaimEmbed, Lease, LeaseLost, Begin, Publish, PurgeStep,
         FailAttempt, BudgetReduced, Crash
<1>3. revs' \in SUBSET revs
  BY DEF WorkerStep, ClaimPurge, ClaimEmbed, Lease, LeaseLost, Begin, Publish, PurgeStep,
         FailAttempt, BudgetReduced, Crash, rowVars
<1>4. IsFiniteSet(revs')
  BY <1>3, FS_Subset DEF ScanEraseInv, ScanInv
<1> QED
  BY <1>1, <1>2, <1>4, ScannersKeep, ScanFrame DEF Settles, runVars

LEMMA ScannerScan ==
  ASSUME ScanEraseInv, NEW s \in Scanner, ScannerStep(s) PROVE ErasureInv' /\ FinalStep /\ ScanInv'
<1>1. CASE ReadBatch(s) \/ EnqueueBatch(s)
  BY <1>1, ReadScan, EnqueueScan DEF Settles
<1>2. ASSUME UNCHANGED rowVars, UNCHANGED jobVars, UNCHANGED settingVars,
             UNCHANGED <<runState, runGen, cursor, scanned>>,
             \A t \in Scanner : spc'[t] = "reading" =>
                 /\ spc[t] = "reading" /\ srun'[t] = srun[t] /\ srows'[t] = srows[t]
                 /\ scanHolder'[srun[t]] = t /\ srun[t] \in scanLive'
      PROVE  ErasureInv' /\ FinalStep /\ ScanInv'
  <2>1. Settles /\ IsFiniteSet(revs')
    BY <1>2, QuietSettles DEF ScanEraseInv, ScanInv, rowVars, jobVars, settingVars
  <2> QED
    BY <1>2, <2>1, ScanFrame DEF Settles
<1>3. \A t \in Scanner : spc[t] = "reading" => /\ scanHolder[srun[t]] = t /\ srun[t] \in scanLive
                                               /\ srun[t] \in Run
  BY DEF ScanEraseInv, ScanInv, BatchInv, EraseInv, RefInv, TypeInv, BusyScanners
<1>4. /\ spc \in [Scanner -> {"idle", "claimed", "reading"}] /\ srun \in [Scanner -> Run \cup {None}]
      /\ srows \in [Scanner -> SUBSET Revision] /\ scanHolder \in [Run -> Scanner \cup {None}]
  BY DEF ScanEraseInv, EraseInv, RefInv, TypeInv, TypeOK, ScannersOK, RunsOK
<1>5. CASE ScanStops(s) \/ ScanAborts(s)
  <2>1. \A t \in Scanner : spc'[t] = "reading" =>
             spc[t] = "reading" /\ srun'[t] = srun[t] /\ srows'[t] = srows[t]
    BY <1>4, <1>5 DEF ScanStops, ScanAborts, ScanIdle
  <2> QED
    BY <1>2, <1>3, <1>5, <2>1 DEF ScanStops, ScanAborts, runVars
<1>6. CASE ScanBackpressure(s)
  <2>1. \A t \in Scanner : spc'[t] = "reading" =>
             t # s /\ spc[t] = "reading" /\ srun'[t] = srun[t] /\ srows'[t] = srows[t]
    BY <1>4, <1>6 DEF ScanBackpressure, ScanIdle
  <2>2. /\ scanHolder[srun[s]] = s /\ scanHolder' = [scanHolder EXCEPT ![srun[s]] = None]
        /\ scanLive' = scanLive \ {srun[s]}
    BY <1>6 DEF ScanBackpressure, ScanOwned
  <2>3. \A t \in Scanner : spc'[t] = "reading" => scanHolder'[srun[t]] = t /\ srun[t] \in scanLive'
    BY <1>3, <1>4, <2>1, <2>2
  <2> QED
    BY <1>2, <1>6, <2>1, <2>3 DEF ScanBackpressure
<1>7. ASSUME NEW n \in Run, ClaimScan(s, n) PROVE ErasureInv' /\ FinalStep /\ ScanInv'
  <2>1. \A t \in Scanner : spc'[t] = "reading" =>
             t # s /\ spc[t] = "reading" /\ srun'[t] = srun[t] /\ srows'[t] = srows[t]
    BY <1>4, <1>7 DEF ClaimScan
  <2>2. /\ n \notin scanLive /\ scanHolder' = [scanHolder EXCEPT ![n] = s]
        /\ scanLive' = scanLive \cup {n}
    BY <1>7 DEF ClaimScan
  <2>3. \A t \in Scanner : spc'[t] = "reading" => scanHolder'[srun[t]] = t /\ srun[t] \in scanLive'
    BY <1>3, <1>4, <2>1, <2>2
  <2> QED
    BY <1>2, <1>7, <2>1, <2>3 DEF ClaimScan
<1> QED
  BY <1>1, <1>5, <1>6, <1>7 DEF ScannerStep

LEMMA OthersScan ==
  ASSUME ScanEraseInv, TimePasses \/ Environment \/ UNCHANGED vars PROVE ErasureInv' /\ FinalStep /\ ScanInv'
<1>1. ASSUME UNCHANGED rowVars, jobState' = jobState, UNCHANGED <<cand, runGen>>, UNCHANGED scanVars,
             UNCHANGED <<runState, cursor, scanned, scanHolder>>,
             \A s \in Scanner : spc[s] = "reading" => srun[s] \in scanLive'
      PROVE  ErasureInv' /\ FinalStep /\ ScanInv'
  <2>1. Settles /\ IsFiniteSet(revs')
    BY <1>1, QuietSettles DEF ScanEraseInv, ScanInv, rowVars
  <2>2. \A s \in Scanner : spc'[s] = "reading" =>
             /\ spc[s] = "reading" /\ srun'[s] = srun[s] /\ srows'[s] = srows[s]
             /\ scanHolder'[srun[s]] = s /\ srun[s] \in scanLive'
    BY <1>1 DEF ScanEraseInv, ScanInv, BatchInv, scanVars
  <2> QED
    BY <1>1, <2>1, <2>2, ScanFrame DEF Settles
<1>2. \A s \in Scanner : spc[s] = "reading" => srun[s] \in scanLive
  BY DEF ScanEraseInv, ScanInv, BatchInv
<1>3. ASSUME NEW n \in Run, ScanLeaseExpires(n) PROVE ErasureInv' /\ FinalStep /\ ScanInv'
  BY <1>1, <1>2, <1>3 DEF ScanLeaseExpires, jobVars, settingVars
<1>4. ASSUME NEW j \in Job, LeaseExpires(j) \/ BecomesDue(j) PROVE ErasureInv' /\ FinalStep /\ ScanInv'
  BY <1>1, <1>2, <1>4 DEF LeaseExpires, BecomesDue, settingVars, runVars
<1>5. CASE Restore
  <2>1. Settles
    BY <1>5, RestoreSettles DEF ScanEraseInv
  <2>2. UNCHANGED <<cursor, scanned>> /\ revs' \in SUBSET revs /\ \A s \in Scanner : spc'[s] # "reading"
    BY <1>5 DEF Restore
  <2>3. \A n \in Run : runState'[n] = "none" => runState[n] = "none"
    BY <1>5 DEF Restore
  <2>4. IsFiniteSet(revs')
    BY <2>2, FS_Subset DEF ScanEraseInv, ScanInv
  <2> QED
    BY <2>1, <2>2, <2>3, <2>4, ScanFrame DEF Settles
<1>6. ASSUME AccessChanges \/ (\E m \in Memory : Withhold(m) \/ Reread(m)) \/ UNCHANGED vars
      PROVE  ErasureInv' /\ FinalStep /\ ScanInv'
  BY <1>1, <1>2, <1>6 DEF AccessChanges, Withhold, Reread, vars, jobVars, settingVars, runVars
<1> QED
  BY <1>3, <1>4, <1>5, <1>6 DEF TimePasses, Environment

LEMMA InitScan == Init => ErasureInv /\ ScanInv
<1> SUFFICES ASSUME Init PROVE ErasureInv /\ ScanInv
  OBVIOUS
<1>1. ErasureInv
  BY JobFacts DEF Init, ErasureInv, Unfinished
<1>2. IsFiniteSet(revs)
  BY FS_EmptySet DEF Init
<1>3. FreshRunInv /\ SettledInv /\ BatchInv
  BY DEF Init, FreshRunInv, SettledInv, BatchInv
<1> QED
  BY <1>1, <1>2, <1>3 DEF ScanInv

LEMMA ScanEraseStep == ScanEraseInv /\ [Next]_vars => ErasureInv' /\ ScanInv' /\ FinalStep
  BY ApiScan, AdministrationScan, WorkerScan, ScannerScan, OthersScan DEF Next

LEMMA ScanEraseInvariant == Spec => []ScanEraseInv
<1>1. Init => ErasureInv /\ ScanInv
  BY InitScan
<1>2. RefInv /\ ErasureInv /\ ScanInv /\ [Next]_vars => ErasureInv' /\ ScanInv'
  BY ScanEraseStep DEF ScanEraseInv, EraseInv
<1>3. LostInv /\ RefInv => RefInv
  OBVIOUS
<1>4. ScanEraseInv <=> RefInv /\ ErasureInv /\ ScanInv
  BY DEF ScanEraseInv, EraseInv
<1> QED
  BY <1>1, <1>2, <1>3, <1>4, RefInvariant, PTL DEF Spec

\* A deletion proceeds to erasure and is complete: forgetting queues a purge job
\* that only the erasure itself closes, and nothing gives an erased memory a
\* revision or a vector again (forget_in_transaction, _purge,
\* _reconcile_deletions of a restore).
THEOREM DeletionsProceed == Spec => []DeletionProceeds
<1>1. ScanEraseInv => DeletionProceeds
  <2> SUFFICES ASSUME ScanEraseInv PROVE DeletionProceeds
    OBVIOUS
  <2>1. \A e \in emb : e[1] \in revs
    BY DEF ScanEraseInv, EraseInv, RefInv, FreshInv
  <2> QED
    BY <2>1 DEF ScanEraseInv, EraseInv, ErasureInv, DeletionProceeds
<1> QED
  BY <1>1, ScanEraseInvariant, PTL

\* The candidate misses nothing written while it is built: neither a revision that
\* sorts below the cursor, nor one that was accepted between the scan and the
\* commit of a batch, nor one whose scanner died (enqueue_candidate, run_once).
THEOREM CandidatesKeepUp == Spec => []CandidateKeepsUp
<1>1. ScanEraseInv => CandidateKeepsUp
  BY DEF ScanEraseInv, ScanInv, SettledInv, Scannable, CandidateKept, CandidateKeepsUp
<1> QED
  BY <1>1, ScanEraseInvariant, PTL

\* A final state stands: a worker that lost its lease, an activation, a restore or
\* a second deletion never reopens a ready or cancelled job, and a failed one is
\* reopened only with a fresh budget (Worker._finish, retry_operation, _cancel_jobs).
THEOREM FinalStatesAreFinal == Spec => FinalStatesStand
<1>1. ScanEraseInv /\ [Next]_vars => [FinalStep]_vars
  BY ScanEraseStep
<1>2. FinalStatesStand <=> [][FinalStep]_vars
  BY PTL DEF FinalStatesStand, FinalStep
<1> QED
  BY <1>1, <1>2, ScanEraseInvariant, PTL DEF Spec

\* The steps that PublishesSelectedOnly allows.
SelectedOnly ==
    \A e \in emb' \ emb :
          /\ e[1] \in LiveRevs
          /\ e[2] = active \/ (cand # None /\ e[2] = runGen[cand])

LEMMA PublishSelected ==
  ASSUME RefInv, NEW w \in Worker, Publish(w), NEW e \in emb' \ emb
  PROVE  /\ e[1] \in LiveRevs
         /\ e[2] = active \/ (cand # None /\ e[2] = runGen[cand])
<1>1. PICK j \in EmbedJob : j = wjob[w] /\ jobState[j] = "leased"
  BY OwnedJob DEF Publish, RefInv, TypeInv, BusyWorkers
<1>2. Allowed(j, TRUE) /\ Readable(j) /\ e = <<j.rev, jobGen[j]>>
  BY <1>1 DEF Publish
<1>3. IF j.run = None THEN active = jobGen[j] ELSE cand = j.run
  BY <1>2 DEF Allowed, Obsolete
<1>4. j.run # None => jobGen[j] = runGen[j.run]
  BY <1>1 DEF RefInv, JobInv, Placed
<1> QED
  BY <1>2, <1>3, <1>4 DEF Readable

LEMMA NoOtherVector ==
  ASSUME [Next]_vars, \A w \in Worker : ~Publish(w) PROVE emb' \subseteq emb
<1>1. CASE Api \/ Administration
  BY <1>1 DEF Api, Save, Revise, Accept, Forget, RetryOperation, Requeue, Administration, Start,
     Pause, Resume, SetRunState, RetryRun, Cancel, Activate, ResumeProcessing, rowVars
<1>2. ASSUME NEW w \in Worker, WorkerStep(w) PROVE emb' \subseteq emb
  BY <1>2 DEF WorkerStep, ClaimPurge, ClaimEmbed, Lease, LeaseLost, Begin, PurgeStep,
     FailAttempt, BudgetReduced, Crash, rowVars
<1>3. ASSUME NEW s \in Scanner, ScannerStep(s) PROVE emb' \subseteq emb
  BY <1>3 DEF ScannerStep, ClaimScan, ScanStops, ScanBackpressure, ReadBatch, EnqueueBatch,
     ScanAborts, rowVars
<1>4. CASE TimePasses \/ Environment \/ UNCHANGED vars
  BY <1>4 DEF TimePasses, LeaseExpires, BecomesDue, ScanLeaseExpires, Environment, AccessChanges,
     Withhold, Reread, Restore, rowVars, vars
<1> QED
  BY <1>1, <1>2, <1>3, <1>4 DEF Next

\* Vectors are published only for a live revision and a selected index, although
\* inference ran outside every transaction (Worker.process, _policy).
THEOREM OnlySelectedPublished == Spec => PublishesSelectedOnly
<1>1. RefInv /\ [Next]_vars => [SelectedOnly]_vars
  BY PublishSelected, NoOtherVector DEF SelectedOnly
<1>2. PublishesSelectedOnly <=> [][SelectedOnly]_vars
  BY PTL DEF PublishesSelectedOnly, SelectedOnly
<1> QED
  BY <1>1, <1>2, RefInvariant, PTL DEF Spec

================================================================================
