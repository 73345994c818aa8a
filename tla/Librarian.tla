------------------------------ MODULE Librarian ------------------------------
(***************************************************************************)
(* The Librarian of one memory space (service/librarian.py,                *)
(* librarian_runner.py, migration 011): runs that send memories to a       *)
(* language model, one leased run at a time, under a daily budget of       *)
(* calls; proposals that a person accepts, rejects or undoes.              *)
(*                                                                         *)
(* A runner works in three transactions with the model call between the    *)
(* last two: pick the items, reserve the call, apply the answer.  Each     *)
(* re-checks the lease, the settings and the memories, because a person    *)
(* may cancel, configure, revise, quarantine or delete at any moment.      *)
(* Any step may fail (an error of the provider, of the database, a lost    *)
(* access), and recording that failure may fail as well.                   *)
(*                                                                         *)
(* Left out: the text of prompts and suggestions, the profile's choice and *)
(* its network approval (part of the settings version), idempotency keys.  *)
(***************************************************************************)
EXTENDS Naturals, FiniteSets

CONSTANTS
    Memory,         \* memories of the space
    LastRun,        \* bound: runs; numbered in the order of their creation
    Runner,         \* API processes with a Librarian thread
    Modes,          \* modes in use: organize, review
    MaxMemories,    \* settings.max_memories
    DailyCalls,     \* settings.max_calls_per_day
    Backlog,        \* pending proposals beyond which no run is created
    TooLarge,       \* prompts beyond the profile's budget: a mode, <<memory, version>>s
    VersionBound,   \* bound: versions of a memory
    SettingsBound,  \* bound: versions of the settings
    ActBound,       \* bound: runs, changes of memories and of the settings together
    None            \* no runner

Run == 1..LastRun

ConstantAssumption ==
    /\ LastRun \in Nat \ {0}
    /\ Modes \subseteq {"organize", "review"}
    /\ MaxMemories \in Nat \ {0}
    /\ DailyCalls \in Nat \ {0}
    /\ None \notin Runner

VARIABLES
    standing,   \* memories: ordinary, quarantined, deleted
    version,    \* memories.version
    settings,   \* librarian_settings: version, enabled
    runState,   \* librarian_runs.state, "none" before it exists
    runMode,    \* librarian_runs.mode
    runSettings,\* librarian_runs.settings_version
    selected,   \* librarian_items: memory -> selected version, 0 not an item
    todo,       \* librarian_items in state pending
    lease,      \* librarian_runs.lease_id, as the runner that drew it
    leaseLive,  \* runs with lease_until > now()
    seen,       \* librarian_observations: mode, memory -> version, 0 none
    skipped,    \* <<mode, memory>> whose observation's outcome is skipped
    reserved,   \* librarian_budgets.calls_reserved of today
    proposal,   \* librarian_proposals.state of run and memory, "none"
    depends,    \* librarian_dependencies of run and memory
    applied,    \* librarian_proposals.applied_version, 0 for NULL
    job,        \* runner: LibrarianRunner._job, 0 for None
    step,       \* runner: idle, picked, reserved, answered, failing
    batch,      \* runner: items of its call
    asked,      \* history: runner -> items of its job that were sent to the model
    charged,    \* history: mode, memory -> version of the latest reserved call
    chosen,     \* history: runs whose memories a person named
    passedOver, \* history: <<mode, memory>> skipped in such a run since that call
    written     \* history: memory -> version of the latest change by a person

memoryVars   == <<standing, version, written>>
runVars      == <<runState, runMode, runSettings, selected, todo, lease, leaseLive>>
noteVars     == <<seen, skipped>>
proposalVars == <<proposal, depends, applied>>
runnerVars   == <<job, step, batch>>
historyVars  == <<asked, charged, chosen, passedOver>>
vars == <<memoryVars, settings, runVars, noteVars, reserved, proposalVars, runnerVars,
          historyVars>>

Acts ==
    Cardinality({r \in Run : runState[r] # "none"}) + settings.version
    + Cardinality({x \in Memory \X (1..VersionBound) : x[2] < version[x[1]]})

Active(r) == runState[r] \in {"queued", "running"}
Proposals == Run \X Memory
Usable(m, v) == standing[m] = "ordinary" /\ version[m] = v

Init ==
    /\ standing = [m \in Memory |-> "ordinary"]
    /\ version = [m \in Memory |-> 1]
    /\ written = [m \in Memory |-> 1]
    /\ settings = [version |-> 1, enabled |-> TRUE]
    /\ runState = [r \in Run |-> "none"]
    /\ runMode = [r \in Run |-> "none"]
    /\ runSettings = [r \in Run |-> 0]
    /\ selected = [r \in Run |-> [m \in Memory |-> 0]]
    /\ todo = [r \in Run |-> {}]
    /\ lease = [r \in Run |-> None]
    /\ leaseLive = {}
    /\ seen = [o \in Modes \X Memory |-> 0]
    /\ skipped = {}
    /\ reserved = 0
    /\ proposal = [p \in Proposals |-> "none"]
    /\ depends = [p \in Proposals |-> {}]
    /\ applied = [p \in Proposals |-> 0]
    /\ job = [w \in Runner |-> 0]
    /\ step = [w \in Runner |-> "idle"]
    /\ batch = [w \in Runner |-> {}]
    /\ asked = [w \in Runner |-> {}]
    /\ charged = [o \in Modes \X Memory |-> 0]
    /\ chosen = {} /\ passedOver = {}

(***************************************************************************)
(* People: memories, settings, runs.                                       *)
(***************************************************************************)

\* purge_librarian_dependencies: proposals made from m.
Erased(m) == {p \in Proposals : m \in depends[p]}

Purge(m) ==
    /\ proposal' = [p \in Proposals |-> IF p \in Erased(m) THEN "invalidated" ELSE proposal[p]]
    /\ applied' = [p \in Proposals |-> IF p \in Erased(m) THEN 0 ELSE applied[p]]
    /\ depends' = [p \in Proposals |-> IF p \in Erased(m) THEN {} ELSE depends[p]]
    /\ seen' = [o \in Modes \X Memory |-> IF o[2] = m THEN 0 ELSE seen[o]]
    /\ skipped' = {o \in skipped : o[2] # m}

Change(m) ==
    /\ version[m] < VersionBound /\ Acts <= ActBound
    /\ version' = [version EXCEPT ![m] = @ + 1]
    /\ written' = [written EXCEPT ![m] = version[m] + 1]
    /\ UNCHANGED <<settings, runVars, reserved, runnerVars, historyVars>>

Revise(m) ==
    /\ standing[m] # "deleted"
    /\ Change(m)
    /\ UNCHANGED <<standing, noteVars, proposalVars>>

Review(m, s) ==
    /\ standing[m] # "deleted"
    /\ Change(m)
    /\ standing' = [standing EXCEPT ![m] = s]
    /\ IF s = "quarantined" THEN Purge(m) ELSE UNCHANGED <<noteVars, proposalVars>>

\* The trigger erase_withdrawn_memory_derivatives does the same as the purge.
Forget(m) ==
    /\ standing[m] # "deleted"
    /\ Change(m)
    /\ standing' = [standing EXCEPT ![m] = "deleted"]
    /\ Purge(m)

\* Saving the settings cancels the active run, whose lease is left to its caller,
\* and forgets what was skipped: larger budgets may take it.
Configure(on) ==
    /\ settings.version < SettingsBound /\ Acts <= ActBound
    /\ settings' = [version |-> settings.version + 1, enabled |-> on]
    /\ runState' = [r \in Run |-> IF Active(r) THEN "cancelled" ELSE runState[r]]
    /\ seen' = [o \in Modes \X Memory |-> IF o \in skipped THEN 0 ELSE seen[o]]
    /\ skipped' = {}
    /\ UNCHANGED <<memoryVars, runMode, runSettings, selected, todo, lease, leaseLive,
                   reserved, proposalVars, runnerVars, historyVars>>

Unseen(mode) == {m \in Memory : standing[m] = "ordinary" /\ seen[<<mode, m>>] # version[m]}

\* Start a run on the items, chosen by the caller or by the sweep.
Queue(r, mode, items) ==
    /\ settings.enabled /\ Acts <= ActBound
    /\ runState[r] = "none" /\ \A q \in Run : q < r => runState[q] # "none" /\ ~Active(q)
    /\ Cardinality({p \in Proposals : proposal[p] = "pending"}) <= Backlog
    /\ runState' = [runState EXCEPT ![r] = IF items = {} THEN "completed" ELSE "queued"]
    /\ runMode' = [runMode EXCEPT ![r] = mode]
    /\ runSettings' = [runSettings EXCEPT ![r] = settings.version]
    /\ selected' = [selected EXCEPT ![r] = [m \in Memory |-> IF m \in items THEN version[m] ELSE 0]]
    /\ todo' = [todo EXCEPT ![r] = items]
    /\ UNCHANGED <<memoryVars, settings, lease, leaseLive, noteVars, reserved, proposalVars,
                   runnerVars, asked, charged, passedOver>>

\* A person chooses the memories, seen before or not.
CreateRun(r, mode, items) ==
    /\ items # {} /\ Cardinality(items) <= MaxMemories
    /\ \A m \in items : standing[m] = "ordinary"
    /\ Queue(r, mode, items)
    /\ chosen' = chosen \cup {r}

\* The sweep takes what this mode has not seen, up to the limit.
Sweep(r, mode) ==
    \E items \in SUBSET Unseen(mode) :
        /\ Cardinality(items) <= MaxMemories
        /\ items = Unseen(mode) \/ Cardinality(items) = MaxMemories
        /\ Queue(r, mode, items)
        /\ UNCHANGED chosen

Cancel(r) ==
    /\ Active(r)
    /\ runState' = [runState EXCEPT ![r] = "cancelled"]
    /\ UNCHANGED <<memoryVars, settings, runMode, runSettings, selected, todo, lease, leaseLive,
                   noteVars, reserved, proposalVars, runnerVars, historyVars>>

(***************************************************************************)
(* The runner: LibrarianRunner.run_once and _step.                         *)
(***************************************************************************)

Goto(w, l) == step' = [step EXCEPT ![w] = l]

\* _live: still the running run of this lease, under the same settings.
Live(w) ==
    LET r == job[w]
    IN  /\ runState[r] = "running" /\ lease[r] = w /\ r \in leaseLive
        /\ settings.enabled /\ settings.version = runSettings[r]

\* claim_librarian: a live lease occupies the slot, a cancelled run's too.
SlotTaken == leaseLive # {}

\* Mutant of Interrupted: only runs whose lease was released are found.
InterruptedReleased == {r \in Run : runState[r] = "running" /\ r \notin leaseLive /\ lease[r] = None}

\* Runs whose lease ran out while they were running are failed first.
Interrupted == {r \in Run : runState[r] = "running" /\ r \notin leaseLive}
Claim(w) ==
    LET queued == {r \in Run : runState[r] = "queued"}
        next == IF SlotTaken THEN {} ELSE {r \in queued : \A q \in queued : r <= q}
    IN  /\ job[w] = 0
        /\ next # {} \/ Interrupted # {}
        /\ runState' = [r \in Run |-> IF r \in Interrupted THEN "failed"
                                      ELSE IF r \in next THEN "running" ELSE runState[r]]
        /\ lease' = [r \in Run |-> IF r \in Interrupted THEN None
                                   ELSE IF r \in next THEN w ELSE lease[r]]
        /\ leaseLive' = leaseLive \cup next
        /\ job' = [job EXCEPT ![w] = IF next = {} THEN 0 ELSE CHOOSE r \in next : TRUE]
        /\ UNCHANGED <<memoryVars, settings, runMode, runSettings, selected, todo, noteVars,
                       reserved, proposalVars, step, batch, historyVars>>

\* Mutant of Completes: the lease is released, its time runs on.
CompletesLeased(w) ==
    /\ runState' = [runState EXCEPT ![job[w]] = "completed"]
    /\ lease' = [lease EXCEPT ![job[w]] = None]
    /\ leaseLive' = leaseLive
    /\ job' = [job EXCEPT ![w] = 0]
    /\ asked' = [asked EXCEPT ![w] = {}]

\* _complete: the run ends, its lease is released.
Completes(w) ==
    /\ runState' = [runState EXCEPT ![job[w]] = "completed"]
    /\ lease' = [lease EXCEPT ![job[w]] = None]
    /\ leaseLive' = leaseLive \ {job[w]}
    /\ job' = [job EXCEPT ![w] = 0]
    /\ asked' = [asked EXCEPT ![w] = {}]

\* Organizing takes one item per call, a review all of them.
Batch(r, items) ==
    IF runMode[r] = "organize" THEN \E m \in items : items = {m} ELSE items = todo[r]
Pick(w, items) ==
    LET r == job[w]
    IN  /\ r # 0 /\ step[w] = "idle"
        /\ Live(w)
        /\ items # {} /\ items \subseteq todo[r] /\ Batch(r, items)
        /\ \A m \in items : Usable(m, selected[r][m])
        /\ batch' = [batch EXCEPT ![w] = items]
        /\ Goto(w, "picked")
        /\ UNCHANGED <<memoryVars, settings, runVars, noteVars, reserved, proposalVars, job,
                       historyVars>>

\* Nothing is left to do: the items of the last call were skipped.
Finish(w) ==
    /\ job[w] # 0 /\ step[w] = "idle"
    /\ Live(w)
    /\ todo[job[w]] = {}
    /\ Completes(w)
    /\ UNCHANGED <<memoryVars, settings, runMode, runSettings, selected, todo, noteVars,
                   reserved, proposalVars, step, batch, charged, chosen,
                   passedOver>>

Marks(w) == {<<runMode[job[w]], m>> : m \in batch[w]}

Observe(w, outcome) ==
    /\ seen' = [o \in Modes \X Memory |->
                   IF o \in Marks(w) THEN selected[job[w]][o[2]] ELSE seen[o]]
    /\ skipped' = IF outcome = "skipped" THEN skipped \cup Marks(w) ELSE skipped \ Marks(w)

\* prepare_request: what a prompt holds, and so its size, follows from these.
Prompt(w) == <<runMode[job[w]], {<<m, selected[job[w]][m]>> : m \in batch[w]}>>

\* The prompt is too large: the items are marked without a call.
SkipTooLarge(w) ==
    LET r == job[w]
    IN  /\ step[w] = "picked"
        /\ Prompt(w) \in TooLarge
        /\ Live(w)
        /\ Observe(w, "skipped")
        /\ todo' = [todo EXCEPT ![r] = @ \ batch[w]]
        /\ batch' = [batch EXCEPT ![w] = {}]
        /\ Goto(w, "idle")
        /\ passedOver' = IF r \in chosen THEN passedOver \cup Marks(w) ELSE passedOver
        /\ UNCHANGED <<memoryVars, settings, runState, runMode, runSettings, selected, lease,
                       leaseLive, reserved, proposalVars, job, asked, charged, chosen>>

\* History: from the reservation on the provider may charge for these versions.
Charge(w) ==
    /\ charged' = [o \in Modes \X Memory |->
                      IF o \in Marks(w) THEN selected[job[w]][o[2]] ELSE charged[o]]
    /\ passedOver' = passedOver \ Marks(w)
    /\ UNCHANGED <<asked, chosen>>

\* Mutant of Reserve: the attempt is noted only with its answer.
ReserveUnobserved(w) ==
    LET r == job[w]
    IN  /\ step[w] = "picked"
        /\ Prompt(w) \notin TooLarge
        /\ Live(w)
        /\ \A m \in batch[w] : Usable(m, selected[r][m])
        /\ reserved < DailyCalls
        /\ reserved' = reserved + 1
        /\ Charge(w)
        /\ Goto(w, "reserved")
        /\ UNCHANGED <<memoryVars, settings, runVars, noteVars, proposalVars, job, batch>>

\* _reserve, inside generate(): the call is counted, and its items are marked
\* as attempted, before anything is sent.
Reserve(w) ==
    LET r == job[w]
    IN  /\ step[w] = "picked"
        /\ Prompt(w) \notin TooLarge
        /\ Live(w)
        /\ \A m \in batch[w] : Usable(m, selected[r][m])
        /\ reserved < DailyCalls
        /\ reserved' = reserved + 1
        /\ Charge(w)
        /\ Observe(w, "attempted")
        /\ Goto(w, "reserved")
        /\ UNCHANGED <<memoryVars, settings, runVars, proposalVars, job, batch>>

\* The request goes out and is answered; an answer that does not come, or is
\* not accepted, is a failure after the call (Fails from "answered").
Call(w) ==
    /\ step[w] = "reserved"
    /\ asked' = [asked EXCEPT ![w] = @ \cup batch[w]]
    /\ Goto(w, "answered")
    /\ UNCHANGED <<memoryVars, settings, runVars, noteVars, reserved, proposalVars, job, batch,
                   charged, chosen, passedOver>>

\* Mutant of StillUsable: the memories are read before the call only.
StillUsableAsRead(w) == TRUE

\* _records(lock=True): the memories the answer is about have not changed.
StillUsable(w) == \A m \in batch[w] : Usable(m, selected[job[w]][m])

\* The answer is applied: proposals about some of the items, each depending on
\* all of them.
Apply(w, about) ==
    LET r == job[w]
        made == {r} \X about
        rest == todo[r] \ batch[w]
    IN  /\ step[w] = "answered"
        /\ Live(w)
        /\ StillUsable(w)
        /\ about \subseteq batch[w]
        /\ proposal' = [p \in Proposals |-> IF p \in made THEN "pending" ELSE proposal[p]]
        /\ depends' = [p \in Proposals |-> IF p \in made THEN batch[w] ELSE depends[p]]
        /\ Observe(w, "completed")
        /\ todo' = [todo EXCEPT ![r] = rest]
        /\ batch' = [batch EXCEPT ![w] = {}]
        /\ Goto(w, "idle")
        /\ IF rest = {} THEN Completes(w) ELSE UNCHANGED <<runState, lease, leaseLive, job, asked>>
        /\ UNCHANGED <<memoryVars, settings, runMode, runSettings, selected, reserved, applied,
                       charged, chosen, passedOver>>

\* Any step raises: a check above, the provider, the database, the time budget.
Fails(w) ==
    /\ job[w] # 0 /\ step[w] # "failing"
    /\ batch' = [batch EXCEPT ![w] = {}]
    /\ Goto(w, "failing")
    /\ UNCHANGED <<memoryVars, settings, runVars, noteVars, reserved, proposalVars, job,
                   historyVars>>

\* fail_librarian: the run fails unless it was cancelled; a lost lease is left.
RecordFailure(w) ==
    LET r == job[w]
        mine == lease[r] = w /\ r \in leaseLive /\ runState[r] \in {"running", "cancelled"}
    IN  /\ step[w] = "failing"
        /\ runState' = IF mine /\ runState[r] = "running"
                       THEN [runState EXCEPT ![r] = "failed"] ELSE runState
        /\ lease' = IF mine THEN [lease EXCEPT ![r] = None] ELSE lease
        /\ leaseLive' = IF mine THEN leaseLive \ {r} ELSE leaseLive
        /\ job' = [job EXCEPT ![w] = 0]
        /\ asked' = [asked EXCEPT ![w] = {}]
        /\ Goto(w, "idle")
        /\ UNCHANGED <<memoryVars, settings, runMode, runSettings, selected, todo, noteVars,
                       reserved, proposalVars, batch, charged, chosen,
                       passedOver>>

\* The database cannot be reached: the exception leaves run_once, which keeps
\* its job and takes the next step of it at the next turn of the loop.
FailureUnrecorded(w) ==
    /\ step[w] = "failing"
    /\ Goto(w, "idle")
    /\ UNCHANGED <<memoryVars, settings, runVars, noteVars, reserved, proposalVars, job, batch,
                   historyVars>>

\* The process ends: its lease stays until it runs out.
Crash(w) ==
    /\ job[w] # 0
    /\ job' = [job EXCEPT ![w] = 0]
    /\ asked' = [asked EXCEPT ![w] = {}]
    /\ batch' = [batch EXCEPT ![w] = {}]
    /\ Goto(w, "idle")
    /\ UNCHANGED <<memoryVars, settings, runVars, noteVars, reserved, proposalVars, charged, chosen,
                   passedOver>>

\* 120 seconds without a heartbeat, which stops with the call.
LeaseExpires(r) ==
    /\ r \in leaseLive
    /\ leaseLive' = leaseLive \ {r}
    /\ UNCHANGED <<memoryVars, settings, runState, runMode, runSettings, selected, todo, lease,
                   noteVars, reserved, proposalVars, runnerVars, historyVars>>

\* UTC midnight: another row of librarian_budgets.
NextDay ==
    /\ reserved > 0
    /\ reserved' = 0
    /\ UNCHANGED <<memoryVars, settings, runVars, noteVars, proposalVars, runnerVars, historyVars>>

(***************************************************************************)
(* People decide on proposals: LibrarianService.decide.                    *)
(***************************************************************************)

\* references_available
Available(p) == depends[p] # {} /\ \A m \in depends[p] : standing[m] = "ordinary"

\* Mutant of Current: only the memory to be rewritten is compared.
CurrentTarget(p) == version[p[2]] = selected[p[1]][p[2]]

\* Not stale: nothing the suggestion was made from has changed since.
Current(p) == \A m \in depends[p] : version[m] = selected[p[1]][m]

Decided(p, outcome) ==
    /\ proposal' = [proposal EXCEPT ![p] = outcome]
    /\ UNCHANGED <<standing, written, settings, runVars, noteVars, reserved, depends, runnerVars,
                   historyVars>>

\* An organizing proposal rewrites its memory if that changes anything; a
\* review proposal is acknowledged only.
Rewrite(p) ==
    IF runMode[p[1]] = "organize"
    THEN \E v \in {version[p[2]], version[p[2]] + 1} :
            /\ v <= VersionBound
            /\ version' = [version EXCEPT ![p[2]] = v]
            /\ applied' = [applied EXCEPT ![p] = v]
    ELSE UNCHANGED <<version, applied>>

Accept(p) ==
    /\ proposal[p] = "pending" /\ Available(p)
    /\ Current(p)
    /\ Rewrite(p)
    /\ Decided(p, "accepted")

Reject(p) ==
    /\ proposal[p] = "pending" /\ Available(p)
    /\ Decided(p, "rejected")
    /\ UNCHANGED <<version, applied>>

\* Undoing restores the text before, unless somebody revised the memory since.
Undo(p) ==
    /\ proposal[p] = "accepted" /\ Available(p)
    /\ applied[p] # 0 => version[p[2]] = applied[p]
    /\ Rewrite(p)
    /\ Decided(p, "undone")

(***************************************************************************)
(* The specification.                                                      *)
(***************************************************************************)

People ==
    \/ \E m \in Memory : \/ Revise(m) \/ Forget(m)
                         \/ \E s \in {"ordinary", "quarantined"} : Review(m, s)
    \/ \E on \in BOOLEAN : Configure(on)
    \/ \E r \in Run : \/ \E mode \in Modes, items \in SUBSET Memory : CreateRun(r, mode, items)
                      \/ \E mode \in Modes : Sweep(r, mode)
                      \/ Cancel(r)
    \/ \E p \in Proposals : Accept(p) \/ Reject(p) \/ Undo(p)

\* What the thread of a runner goes on with by itself.
Works(w) ==
    \/ \E items \in SUBSET Memory : Pick(w, items)
    \/ Finish(w) \/ SkipTooLarge(w) \/ Reserve(w) \/ Call(w)
    \/ \E about \in SUBSET Memory : Apply(w, about)
    \/ Fails(w)

Next ==
    \/ People
    \/ \E w \in Runner : Claim(w) \/ Works(w) \/ RecordFailure(w) \/ FailureUnrecorded(w) \/ Crash(w)
    \/ \E r \in Run : LeaseExpires(r)
    \/ NextDay

Spec == Init /\ [][Next]_vars

(***************************************************************************)
(* Properties.                                                             *)
(***************************************************************************)

TypeOK ==
    /\ standing \in [Memory -> {"ordinary", "quarantined", "deleted"}]
    /\ version \in [Memory -> Nat]
    /\ written \in [Memory -> Nat]
    /\ settings \in [version : Nat, enabled : BOOLEAN]
    /\ runState \in [Run -> {"none", "queued", "running", "completed", "failed", "cancelled"}]
    /\ runMode \in [Run -> Modes \cup {"none"}]
    /\ runSettings \in [Run -> Nat]
    /\ selected \in [Run -> [Memory -> Nat]]
    /\ todo \in [Run -> SUBSET Memory]
    /\ lease \in [Run -> Runner \cup {None}]
    /\ leaseLive \subseteq {r \in Run : lease[r] # None}
    /\ seen \in [Modes \X Memory -> Nat]
    /\ skipped \subseteq Modes \X Memory
    /\ reserved \in Nat
    /\ proposal \in [Proposals -> {"none", "pending", "accepted", "rejected", "undone", "invalidated"}]
    /\ depends \in [Proposals -> SUBSET Memory]
    /\ applied \in [Proposals -> Nat]
    /\ job \in [Runner -> Run \cup {0}]
    /\ step \in [Runner -> {"idle", "picked", "reserved", "answered", "failing"}]
    /\ batch \in [Runner -> SUBSET Memory]
    /\ asked \in [Runner -> SUBSET Memory]
    /\ charged \in [Modes \X Memory -> Nat]
    /\ chosen \subseteq Run
    /\ passedOver \subseteq Modes \X Memory

\* A suggestion whose text may repeat a memory exists only while every memory
\* it was made from is ordinary: a quarantine or a deletion erases it, in
\* whatever state it is, and an answer that was on its way is not applied.
WithdrawnLeavesNoSuggestion ==
    \A p \in Proposals :
        proposal[p] \notin {"none", "invalidated"} =>
            depends[p] # {} /\ \A m \in depends[p] : standing[m] = "ordinary"

\* A call may be charged even if its answer is lost: once a call for a version
\* of a memory was reserved, no sweep selects it again, through crashes, lost
\* leases, failures, withdrawn answers and saved settings.  The exception needs a
\* person: who names it for a review, among more than fit one prompt, has its
\* observation overwritten and, with the next saving of the settings, forgotten.
\* Where each memory has its own prompt, in the organize mode, there is none.
ChargedIsRetriedByHand ==
    \A o \in Modes \X Memory :
        standing[o[2]] = "ordinary" /\ charged[o] = version[o[2]] =>
            seen[o] = version[o[2]] \/ (o[1] = "review" /\ o \in passedOver)

\* "Ordinary and scheduled sweeps skip unchanged revisions already attempted with
\* that profile and task" (docs/service/librarian.md): the exception above is one.
SweepsSkipAttempted ==
    [][\A r \in Run, mode \in Modes : Sweep(r, mode) =>
          \A m \in Memory : selected'[r][m] # 0 => charged[<<mode, m>>] # version[m]]_vars

\* Accepting a suggestion never acts on a memory that a person has changed
\* since it was read for the model, undoing never on one changed since it was
\* accepted: neither overwrites what a person wrote.
DecisionsRespectPeople ==
    [][\A p \in Proposals :
        /\ proposal[p] = "pending" /\ proposal'[p] = "accepted" =>
              \A m \in depends[p] : written[m] <= selected[p[1]][m]
        /\ proposal[p] = "accepted" /\ proposal'[p] = "undone" /\ version' # version =>
              written[p[2]] <= applied[p]]_vars

\* An interrupted call is never retried automatically: a runner sends each memory
\* of its job to the model at most once, and no run becomes a job twice.
NoSecondCall == [][\A w \in Runner : Call(w) => asked[w] \cap batch[w] = {}]_vars

\* A run that was queued ends, although its runner crashes or cannot record
\* its failure, and although calls and leases are lost.
RunsEnd == \A r \in Run : Active(r) ~> ~Active(r)
=============================================================================
