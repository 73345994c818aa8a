--------------------------- MODULE JournalBackfill ---------------------------
(***************************************************************************)
(* Queueing the memories that were saved before the journal was enabled    *)
(* (service/journal_backfill.py, migration 025): an administrator approves *)
(* the run, the schedule examines one memory per transaction behind a      *)
(* cursor.  Its text is scanned inside that transaction, which may take    *)
(* long: the rows of the memory, the job and the settings stay locked,     *)
(* everything else goes on.                                                *)
(*                                                                         *)
(* The cutoff is left out: a memory saved after the start of a run has its *)
(* event already, so examining it changes nothing.                         *)
(***************************************************************************)
EXTENDS JournalEvents

CONSTANT PolicyBound    \* bound: versions of the journal policy

ConstantAssumption == LastMemory \in Nat \ {0} /\ VersionBound \in Nat \ {0}

VARIABLES
    policy,     \* writeback_settings: version, paused
    approver,   \* the administrator who approved the run may act
    backfill,   \* writeback_backfills.state, "none" without a row
    approved,   \* writeback_backfills.policy_version
    cursor,     \* writeback_backfills.cursor_id
    rejected,   \* texts the scan refused
    pc,         \* schedule thread: idle, batch, scanning
    unapproved  \* history: an old memory was queued without an approval

runVars == <<backfill, approved, cursor, rejected, pc>>
vars == <<eventVars, policy, approver, runVars, unapproved>>

Init ==
    /\ InitEvents
    /\ policy = [version |-> 1, paused |-> FALSE]
    /\ approver = TRUE
    /\ backfill = "none"
    /\ approved = 0
    /\ cursor = 0
    /\ rejected = {}
    /\ pc = "idle"
    /\ unapproved = FALSE

\* The row of the memory under examination is locked until its scan ends.
Change(m) ==
    /\ pc = "scanning" => m # cursor + 1
    /\ Write(m) \/ Withdraw(m)
    /\ UNCHANGED <<policy, approver, runVars, unapproved>>

Deliver ==
    /\ ~policy.paused
    /\ Pushed(Queued)
    /\ UNCHANGED <<policy, approver, runVars, unapproved>>

(***************************************************************************)
(* Policy and approval.                                                    *)
(***************************************************************************)

\* The settings and the job are locked while an examination is open.
Unlocked == pc # "scanning"

Configure(paused) ==
    /\ Unlocked
    /\ policy.version < PolicyBound
    /\ policy' = [version |-> policy.version + 1, paused |-> paused]
    /\ UNCHANGED <<eventVars, approver, runVars, unapproved>>

\* The approving administrator is disabled or loses the role, or gets it back.
ApproverChanges ==
    /\ approver' = ~approver
    /\ UNCHANGED <<eventVars, policy, runVars, unapproved>>

\* A new run, or the current one under the present policy.  Whoever starts it
\* is an administrator and becomes the approver.
Unfinished == backfill \in {"running", "paused", "blocked"}
Start ==
    /\ Unlocked /\ ~policy.paused
    /\ backfill' = "running"
    /\ approved' = policy.version
    /\ approver' = TRUE
    /\ cursor' = IF Unfinished THEN cursor ELSE 0
    /\ UNCHANGED <<eventVars, policy, rejected, pc, unapproved>>

Control(target) ==
    /\ Unlocked
    /\ Unfinished
    /\ backfill' = target
    /\ UNCHANGED <<eventVars, policy, approver, approved, cursor, rejected, pc, unapproved>>

(***************************************************************************)
(* claim_journal_backfill, run_batch and _step.                            *)
(***************************************************************************)

\* _waiting: a pause, approval of another policy, an approver who is gone.
Waiting == policy.paused \/ policy.version # approved \/ ~approver

Claim ==
    /\ pc = "idle"
    /\ backfill = "running" /\ ~Waiting /\ Queued = {}
    /\ pc' = "batch"
    /\ UNCHANGED <<eventVars, policy, approver, backfill, approved, cursor, rejected, unapproved>>

\* The batch is over: records, bytes, seconds, a wait, an error.
BatchEnds ==
    /\ pc = "batch"
    /\ pc' = "idle"
    /\ UNCHANGED <<eventVars, policy, approver, backfill, approved, cursor, rejected, unapproved>>

\* _CAPTURED: an event for this very version.
Captured(m) == state[Text(m)] # "none"

ToQueue(m) == standing[m] = "ordinary" /\ ~Captured(m)
Open == pc = "batch" /\ backfill = "running" /\ ~Waiting

\* A memory that has nothing to queue moves the cursor.
Examine ==
    /\ Open
    /\ cursor + 1 \in Memory /\ ~ToQueue(cursor + 1)
    /\ cursor' = cursor + 1
    /\ UNCHANGED <<eventVars, policy, approver, backfill, approved, rejected, pc, unapproved>>

Scan ==
    /\ Open
    /\ cursor + 1 \in Memory /\ ToQueue(cursor + 1)
    /\ pc' = "scanning"
    /\ UNCHANGED <<eventVars, policy, approver, backfill, approved, cursor, rejected, unapproved>>

\* After the scan _waiting is asked again.
StillApproved == ~Waiting

\* The event and the cursor commit together.
Queue ==
    /\ pc = "scanning"
    /\ StillApproved
    /\ state' = [state EXCEPT ![Text(cursor + 1)] = "queued"]
    /\ cursor' = cursor + 1
    /\ unapproved' = (unapproved \/ Waiting)
    /\ pc' = "batch"
    /\ UNCHANGED <<standing, version, action, policy, approver, backfill, approved, rejected>>

\* The scan finds a secret, or the record is too large.
Refuse ==
    /\ pc = "scanning"
    /\ rejected' = rejected \cup {Text(cursor + 1)}
    /\ cursor' = cursor + 1
    /\ pc' = "batch"
    /\ UNCHANGED <<eventVars, policy, approver, backfill, approved, unapproved>>

\* Mutant of ScanAborts: the cursor had been committed before the event.
AbortsPast ==
    /\ pc = "scanning"
    /\ cursor' = cursor + 1
    /\ pc' = "idle"
    /\ UNCHANGED <<eventVars, policy, approver, backfill, approved, rejected, unapproved>>

\* The approval ended, or the transaction is rolled back by an error or a crash.
ScanAborts ==
    /\ pc = "scanning"
    /\ pc' = "idle"
    /\ UNCHANGED <<eventVars, policy, approver, backfill, approved, cursor, rejected, unapproved>>

\* The scanner itself fails: somebody has to start the run again.
Block ==
    /\ pc = "scanning"
    /\ backfill' = "blocked"
    /\ pc' = "idle"
    /\ UNCHANGED <<eventVars, policy, approver, approved, cursor, rejected, unapproved>>

Complete ==
    /\ Open
    /\ cursor = LastMemory
    /\ backfill' = "completed"
    /\ pc' = "idle"
    /\ UNCHANGED <<eventVars, policy, approver, approved, cursor, rejected, unapproved>>

Next ==
    \/ \E m \in Memory : Change(m)
    \/ Deliver
    \/ \E paused \in BOOLEAN : Configure(paused)
    \/ ApproverChanges
    \/ Start
    \/ \E target \in {"paused", "cancelled"} : Control(target)
    \/ Claim \/ BatchEnds \/ Examine \/ Scan \/ Queue \/ Refuse \/ ScanAborts \/ Block \/ Complete

Spec == Init /\ [][Next]_vars

(***************************************************************************)
(* Properties.                                                             *)
(***************************************************************************)

TypeOK ==
    /\ EventsOK
    /\ policy \in [version : Nat, paused : BOOLEAN]
    /\ approver \in BOOLEAN
    /\ backfill \in {"none", "running", "paused", "blocked", "completed", "cancelled"}
    /\ approved \in Nat
    /\ cursor \in 0..LastMemory
    /\ rejected \subseteq Event
    /\ pc \in {"idle", "batch", "scanning"}
    /\ unapproved \in BOOLEAN

\* A completed backfill has left nothing out: whatever was saved, revised,
\* withdrawn or released on either side of its cursor, every ordinary memory
\* has an event for its current text, or the scan refused that text.
Covers ==
    backfill = "completed" =>
        \A m \in Memory : standing[m] = "ordinary" => Captured(m) \/ Text(m) \in rejected

\* And no memory from before the journal is queued unless at that moment an
\* administrator's approval of the present policy stands, however long the
\* scan of its text took.
BackfillIsExact == Covers /\ ~unapproved

\* A backfill that stays approved does not run for ever.
BackfillEnds == ~<>[](backfill = "running" /\ ~Waiting)
=============================================================================
