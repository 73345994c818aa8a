--------------------------- MODULE ServiceUpdates ---------------------------
(***************************************************************************)
(* Updates of a managed host: service/service_updates.py (the unattended   *)
(* watcher and the command "apply") and service/managed_upgrade.py (the    *)
(* operator's upgrade across a migration), with the part of update_state,  *)
(* update_cleanup, supervision and db.Database.open they rest on.          *)
(*                                                                         *)
(* The files under updates/ are what survives; the API and the worker are  *)
(* one process here (serving), which may outlive a failed transition.  One *)
(* operation at a time holds operation.lock; any of them can die at any    *)
(* step, and the migration an operator started lives on and keeps the lock *)
(* when its launcher is killed (command_custody).                          *)
(*                                                                         *)
(* Left out: the phases of the journals (recovery does not depend on       *)
(* them), the history, signatures and file identities, disk space, the     *)
(* schedule, model generations and major versions (both paths refuse a     *)
(* change of them), and a supervisor that an operator restarts while an    *)
(* upgrade is running.                                                     *)
(***************************************************************************)
EXTENDS Naturals, FiniteSets

CONSTANTS
    LastRelease,    \* releases are published in the order of their versions
    Migrating,      \* the releases that add migrations
    NewSeries,      \* the releases that begin a series an updater does not enter by itself
    Connector       \* managed connectors, whose scans share operation.lock

ConstantAssumption ==
    /\ LastRelease \in Nat \ {0}
    /\ Migrating \subseteq 2..LastRelease /\ NewSeries \subseteq 2..LastRelease

VARIABLES
    active, candidate, seen, previous, failed,  \* releases in the files of these names, or Nothing
    journal, upgrade,   \* journal.json and upgrade-journal.json, or NoCutover
    slots,      \* releases/: the staged runtimes
    schema,     \* the migrations the database has
    serving,    \* the runtime the API and the worker run, or Nothing
    updater,    \* the watcher: down, stopped, top, journal, turn
    waiting,    \* connector-update-pending.json, of a live updater
    scanning,   \* connectors whose scans hold shared leases
    op,         \* who holds operation.lock: none, watch, apply, retry, rollback, upgrade
    orphan,     \* a migration whose command is gone holds it
    pc,         \* its next step
    broken      \* history: releases whose cutover was undone

vars == <<active, candidate, seen, previous, failed, journal, upgrade, slots, schema, serving,
          updater, waiting, scanning, op, orphan, pc, broken>>

Release == 1..LastRelease
Nothing == 0
Cutover == [previous : Release, candidate : Release]
NoCutover == [previous |-> Nothing, candidate |-> Nothing]

SchemaOf(v) == {m \in Migrating : m <= v}
\* _automatic_compatible
Compatible(v, w) == \A r \in v + 1..w : r \notin Migrating \cup NewSeries

Init ==
    /\ active = 1 /\ candidate = Nothing /\ seen = 1 /\ previous = Nothing /\ failed = Nothing
    /\ journal = NoCutover /\ upgrade = NoCutover
    /\ slots = {1}
    /\ schema = {}
    /\ serving = 1
    /\ updater = "down" /\ waiting = FALSE
    /\ scanning = {}
    /\ op = "none" /\ orphan = FALSE /\ pc = "idle"
    /\ broken = {}

\* Mutant: the lock ends with its command, the migration does not.
FreeOfCommands == op = "none" /\ scanning = {}

Free == op = "none" /\ ~orphan /\ scanning = {}

(***************************************************************************)
(* The steps of an operation under the lock.  Leave is its end: the        *)
(* watcher goes on where next says.                                        *)
(***************************************************************************)

Leave(next) ==
    /\ op' = "none" /\ pc' = "idle"
    /\ updater' = IF op = "watch" THEN next ELSE updater

Goes(step) == pc' = step /\ UNCHANGED <<op, updater>>

files == <<active, candidate, seen, previous, failed, journal, upgrade, slots>>
around == <<waiting, scanning, orphan, broken>>

\* _check: the feed may serve an older release again.
Fetched(v) ==
    IF v >= seen /\ v > active THEN candidate' = v /\ seen' = v ELSE UNCHANGED <<candidate, seen>>

Check(v) ==
    /\ pc = "check"
    /\ Fetched(v)
    /\ IF v >= seen /\ v > active /\ (op = "watch" => Compatible(active, v))
       THEN Goes("stage")
       ELSE Leave("top")
    /\ UNCHANGED <<active, previous, failed, journal, upgrade, slots, schema, serving>>
    /\ UNCHANGED around

\* Mutant: retain_runtimes forgets the journals.
KeptWithoutJournals == {active, previous, candidate}

\* retain_runtimes
Kept == {active, previous, candidate, journal.previous, journal.candidate,
         upgrade.previous, upgrade.candidate}

\* _stage, which removes obsolete runtimes before it installs a new one; the first
\* runtime is not in a slot.
Staged == IF candidate \in slots THEN slots ELSE (slots \cap (Kept \cup {1})) \cup {candidate}

Stage ==
    /\ pc = "stage"
    /\ IF candidate > active
       THEN slots' = Staged /\ Goes(IF op = "watch" THEN "apply" ELSE "plan")
       ELSE UNCHANGED slots /\ Leave("top")
    /\ UNCHANGED <<active, candidate, seen, previous, failed, journal, upgrade, schema, serving>>
    /\ UNCHANGED around

\* A step before any journal fails: no network, no space, no backup.
GiveUp ==
    /\ pc \in {"check", "stage", "apply", "plan"}
    /\ Leave("top")
    /\ UNCHANGED files /\ UNCHANGED <<schema, serving>> /\ UNCHANGED around

NotHeld == failed # candidate \/ op = "retry"

\* _apply up to the journal of _apply_fresh: after a verified backup.
Prepare ==
    /\ pc = "apply"
    /\ IF /\ candidate > active /\ candidate \in slots
          /\ Compatible(active, candidate) /\ NotHeld
          /\ schema = SchemaOf(active)
       THEN /\ journal' = [previous |-> active, candidate |-> candidate]
            /\ Goes("stop")
       ELSE /\ UNCHANGED journal
            /\ Leave("top")
    /\ UNCHANGED <<active, candidate, seen, previous, failed, upgrade, slots, schema, serving>>
    /\ UNCHANGED around

(***************************************************************************)
(* Transitions of the service's processes (_processes): they may fail with *)
(* the request carried out or not, and a process that starts checks the    *)
(* migrations of the database first (Database.open).                       *)
(***************************************************************************)

Accepts == SchemaOf(active) = schema

Stopped == serving' = Nothing
HalfStopped == serving' \in {serving, Nothing}
Ready == Accepts /\ serving \in {Nothing, active} /\ serving' = active
HalfStarted == serving' \in {serving} \cup (IF Accepts /\ serving = Nothing THEN {active} ELSE {})

\* The cutover of the operation fails: its rollback begins.
Undone == broken' = broken \cup {journal.candidate}

Fails ==
    /\ pc' = "undo" /\ Undone
    /\ op' = IF op = "watch" THEN op ELSE "rollback"
    /\ UNCHANGED updater

StopOld ==
    /\ pc = "stop"
    /\ \/ Stopped /\ Goes("select") /\ UNCHANGED broken
       \/ HalfStopped /\ Fails
    /\ UNCHANGED files /\ UNCHANGED <<schema, waiting, scanning, orphan>>

Select ==
    /\ pc = "select"
    /\ active' = journal.candidate
    /\ Goes("start")
    /\ UNCHANGED <<candidate, seen, previous, failed, journal, upgrade, slots, schema, serving>>
    /\ UNCHANGED around

\* Ready asks for the updater too.
StartNew ==
    /\ pc = "start"
    /\ \/ updater # "stopped" /\ Ready /\ Goes("conclude") /\ UNCHANGED broken
       \/ HalfStarted /\ Fails
    /\ UNCHANGED files /\ UNCHANGED <<schema, waiting, scanning, orphan>>

\* The watcher exits, for a new one to run the new runtime; "apply" restarts it.
Conclude ==
    /\ pc = "conclude"
    /\ previous' = journal.previous
    /\ journal' = NoCutover
    /\ op' = "none" /\ pc' = "idle"
    /\ updater' \in IF op = "watch" THEN {"down"} ELSE {"down", "stopped"}
    /\ waiting' = FALSE
    /\ UNCHANGED <<active, candidate, seen, failed, upgrade, slots, schema, serving, scanning,
                   orphan, broken>>

(***************************************************************************)
(* _rollback, of a cutover that failed or (_recover) of one that was       *)
(* interrupted.  The watcher that cannot recover exits.                    *)
(***************************************************************************)

Gives == Leave(IF updater = "journal" THEN "down" ELSE "top")

Undo ==
    /\ pc = "undo"
    /\ \/ journal.previous \in slots /\ Stopped /\ Goes("revert")
       \/ HalfStopped /\ Gives
    /\ UNCHANGED files /\ UNCHANGED schema /\ UNCHANGED around

Revert ==
    /\ pc = "revert"
    /\ active' = journal.previous
    /\ Goes("restart")
    /\ UNCHANGED <<candidate, seen, previous, failed, journal, upgrade, slots, schema, serving>>
    /\ UNCHANGED around

Restart ==
    /\ pc = "restart"
    /\ \/ updater # "stopped" /\ Ready /\ Goes("hold")
       \/ HalfStarted /\ Gives
    /\ UNCHANGED files /\ UNCHANGED schema /\ UNCHANGED around

\* Mutant: the journal is unlinked before failed.json is written.
HoldUnlinksFirst ==
    /\ pc = "hold"
    /\ journal' = NoCutover
    /\ failed' \in {failed, journal.candidate}
    /\ Goes("clear")
    /\ UNCHANGED <<active, candidate, seen, previous, upgrade, slots, schema, serving>>
    /\ UNCHANGED around

Hold ==
    /\ pc = "hold"
    /\ failed' = journal.candidate
    /\ Goes("clear")
    /\ UNCHANGED <<active, candidate, seen, previous, journal, upgrade, slots, schema, serving>>
    /\ UNCHANGED around

\* A command that began with a recovery goes on; the watcher looks at its schedule.
Clear ==
    /\ pc = "clear"
    /\ journal' = NoCutover
    /\ \/ op \in {"apply", "retry"} /\ Goes("apply")
       \/ op = "upgrade" /\ Goes("check")
       \/ op \in {"watch", "rollback"} /\ Leave(IF updater = "journal" THEN "turn" ELSE "top")
    /\ UNCHANGED <<active, candidate, seen, previous, failed, upgrade, slots, schema, serving>>
    /\ UNCHANGED around

(***************************************************************************)
(* upgrade: the journal, the processes, the migration, the runtime.        *)
(***************************************************************************)

Plan ==
    /\ pc = "plan"
    /\ IF schema = SchemaOf(active)
       THEN /\ upgrade' = [previous |-> active, candidate |-> candidate]
            /\ Goes("quiet")
       ELSE UNCHANGED upgrade /\ Leave("top")
    /\ UNCHANGED <<active, candidate, seen, previous, failed, journal, slots, schema, serving>>
    /\ UNCHANGED around

\* The updater is stopped first, and stays so.
Quiet ==
    /\ pc = "quiet"
    /\ \/ updater' = "stopped" /\ waiting' = FALSE /\ pc' = "drain"
       \/ pc' = "fallback" /\ UNCHANGED <<updater, waiting>>
    /\ UNCHANGED files /\ UNCHANGED <<schema, serving, op, scanning, orphan, broken>>

Drain ==
    /\ pc = "drain"
    /\ \/ Stopped /\ Goes("ledger")
       \/ HalfStopped /\ Goes("fallback")
    /\ UNCHANGED files /\ UNCHANGED schema /\ UNCHANGED around

\* What the database has already is not migrated again.
Ledger ==
    /\ pc = "ledger"
    /\ Goes(CASE schema = SchemaOf(upgrade.candidate) -> "adopt"
              [] schema = SchemaOf(upgrade.previous) -> "migrate"
              [] OTHER -> "fallback")
    /\ UNCHANGED files /\ UNCHANGED <<schema, serving>> /\ UNCHANGED around

\* db.migrate with the expected ledger: one transaction.
Migrated == schema = SchemaOf(upgrade.previous) /\ schema' = SchemaOf(upgrade.candidate)

\* The launcher may not learn that the migration committed.
Migrate ==
    /\ pc = "migrate"
    /\ \/ Migrated /\ (Goes("adopt") \/ Goes("fallback"))
       \/ UNCHANGED schema /\ Goes("fallback")
    /\ UNCHANGED files /\ UNCHANGED serving /\ UNCHANGED around

Adopt ==
    /\ pc = "adopt"
    /\ active' = upgrade.candidate
    /\ Goes("launch")
    /\ UNCHANGED <<candidate, seen, previous, failed, journal, upgrade, slots, schema, serving>>
    /\ UNCHANGED around

Launch ==
    /\ pc = "launch"
    /\ \/ Ready /\ Goes("settle")
       \/ HalfStarted /\ Goes("fallback")
    /\ UNCHANGED files /\ UNCHANGED schema /\ UNCHANGED around

\* The journal is unlinked and the updater started again, if it starts.
Finished ==
    /\ upgrade' = NoCutover
    /\ op' = "none" /\ pc' = "idle"
    /\ updater' \in IF updater = "stopped" THEN {"stopped", "top"} ELSE {updater}

Settle ==
    /\ pc = "settle"
    /\ previous' = upgrade.previous
    /\ Finished
    /\ UNCHANGED <<active, candidate, seen, failed, journal, slots, schema, serving>>
    /\ UNCHANGED around

\* _resume_failure: back only while the migration is not committed; otherwise the
\* service stays down for the operator to resume.
Fallback ==
    /\ pc = "fallback"
    /\ \/ Stopped /\ Goes("judge")
       \/ HalfStopped /\ Leave("top")
    /\ UNCHANGED files /\ UNCHANGED schema /\ UNCHANGED around

Judge ==
    /\ pc = "judge"
    /\ IF schema = SchemaOf(upgrade.previous)
       THEN active' = upgrade.previous /\ Goes("relaunch")
       ELSE UNCHANGED active /\ Leave("top")
    /\ UNCHANGED <<candidate, seen, previous, failed, journal, upgrade, slots, schema, serving>>
    /\ UNCHANGED around

Relaunch ==
    /\ pc = "relaunch"
    /\ \/ Ready /\ Goes("withdraw")
       \/ HalfStarted /\ Leave("top")
    /\ UNCHANGED files /\ UNCHANGED schema /\ UNCHANGED around

\* The updater does not start in time, and the journal is written back.  One that
\* runs after all may have looked for it in between, and for a turn too.
WrittenBack ==
    /\ op' = "none" /\ pc' = "idle"
    /\ UNCHANGED upgrade
    /\ \/ UNCHANGED <<updater, waiting>>
       \/ /\ updater = "stopped" /\ updater' \in {"top", "journal", "turn"}
          /\ waiting' \in {waiting, TRUE}
          /\ updater' = "turn" \/ waiting' # waiting => journal = NoCutover

Withdraw ==
    /\ pc = "withdraw"
    /\ \/ Finished /\ UNCHANGED waiting
       \/ WrittenBack
    /\ UNCHANGED <<active, candidate, seen, previous, failed, journal, slots, schema, serving>>
    /\ UNCHANGED <<scanning, orphan, broken>>

(***************************************************************************)
(* The watcher (watch) between operations, and what makes it one of them.  *)
(***************************************************************************)

Idles == UNCHANGED files /\ UNCHANGED <<schema, serving, scanning, orphan>>

\* Supervisor starts it (resolved_runtime) and starts it again whenever it ends.
UpdaterStarts ==
    /\ updater = "down" /\ active \in slots
    /\ updater' = "top"
    /\ Idles /\ UNCHANGED <<waiting, op, pc, broken>>

\* The top of the loop looks for upgrade-journal.json, without the lock.
LooksForUpgrade ==
    /\ updater = "top"
    /\ updater' = IF upgrade = NoCutover THEN "journal" ELSE "down"
    /\ waiting' = (waiting /\ upgrade = NoCutover)
    /\ Idles /\ UNCHANGED <<op, pc, broken>>

LooksForJournal ==
    /\ updater = "journal" /\ op # "watch"
    /\ \/ journal = NoCutover /\ updater' = "turn"
       \/ journal # NoCutover /\ ~Free /\ updater' = "top"
    /\ Idles /\ UNCHANGED <<waiting, op, pc, broken>>

\* _recover of the watcher.
Recover ==
    /\ updater = "journal" /\ journal # NoCutover /\ Free
    /\ op' = "watch" /\ pc' = "undo" /\ Undone
    /\ Idles /\ UNCHANGED <<updater, waiting>>

TakeTurn ==
    /\ updater = "turn" /\ Free
    /\ op' = "watch" /\ pc' = "check"
    /\ waiting' = FALSE
    /\ Idles /\ UNCHANGED <<updater, broken>>

\* OperationBusy: no scan shall begin before the next try.
TurnIsBusy ==
    /\ updater = "turn" /\ ~Free /\ op # "watch"
    /\ updater' = "top" /\ waiting' = TRUE
    /\ Idles /\ UNCHANGED <<op, pc, broken>>

\* Nothing is due, or updates are disabled.
NotDue ==
    /\ updater = "turn" /\ op # "watch" /\ ~waiting
    /\ updater' = "top"
    /\ Idles /\ UNCHANGED <<waiting, op, pc, broken>>

(***************************************************************************)
(* The operator's commands, and the scans of managed connectors.           *)
(***************************************************************************)

CommandChecks(v) ==
    /\ Free
    /\ Fetched(v)
    /\ UNCHANGED <<active, previous, failed, journal, upgrade, slots, schema, serving, updater, op, pc>>
    /\ UNCHANGED around

CommandStages ==
    /\ Free /\ upgrade = NoCutover /\ candidate > active
    /\ slots' = Staged
    /\ UNCHANGED <<active, candidate, seen, previous, failed, journal, upgrade, schema, serving,
                   updater, op, pc>>
    /\ UNCHANGED around

\* A command takes the lock and first undoes an interrupted cutover.
Begins(command, step) ==
    /\ op' = command
    /\ \/ journal = NoCutover /\ pc' = step /\ UNCHANGED broken
       \/ journal # NoCutover /\ pc' = "undo" /\ Undone
    /\ Idles /\ UNCHANGED <<updater, waiting>>

Apply == Free /\ upgrade = NoCutover /\ (Begins("apply", "apply") \/ Begins("retry", "apply"))

Upgrade == Free /\ upgrade = NoCutover /\ Begins("upgrade", "check")

Resume ==
    /\ Free /\ upgrade # NoCutover
    /\ upgrade.previous \in slots /\ upgrade.candidate \in slots
    /\ op' = "upgrade" /\ pc' = "quiet"
    /\ Idles /\ UNCHANGED <<updater, waiting, broken>>

\* Mutant: the updater's turn is not announced to the scans.
ScanBeginsAnyway(c) ==
    /\ op = "none" /\ ~orphan /\ c \notin scanning
    /\ journal = NoCutover /\ serving = active
    /\ scanning' = scanning \cup {c}
    /\ UNCHANGED files /\ UNCHANGED <<schema, serving, updater, waiting, op, orphan, pc, broken>>

ScanBegins(c) ==
    /\ op = "none" /\ ~orphan /\ c \notin scanning
    /\ journal = NoCutover /\ ~waiting /\ serving = active
    /\ scanning' = scanning \cup {c}
    /\ UNCHANGED files /\ UNCHANGED <<schema, serving, updater, waiting, op, orphan, pc, broken>>

ScanEnds(c) ==
    /\ c \in scanning
    /\ scanning' = scanning \ {c}
    /\ UNCHANGED files /\ UNCHANGED <<schema, serving, updater, waiting, op, orphan, pc, broken>>

(***************************************************************************)
(* Crashes.                                                                *)
(***************************************************************************)

\* Supervisor stops the updater, or it dies.
UpdaterDies ==
    /\ updater \notin {"down", "stopped"}
    /\ updater' = "down" /\ waiting' = FALSE
    /\ IF op = "watch" THEN op' = "none" /\ pc' = "idle" ELSE UNCHANGED <<op, pc>>
    /\ Idles /\ UNCHANGED broken

\* command_custody: the migration keeps the lock of the command that is gone.
CommandDies ==
    /\ op \in {"apply", "retry", "rollback", "upgrade"}
    /\ op' = "none" /\ pc' = "idle"
    /\ orphan' = (pc = "migrate")
    /\ UNCHANGED files /\ UNCHANGED <<schema, serving, updater, waiting, scanning, broken>>

OrphanEnds ==
    /\ orphan
    /\ Migrated \/ UNCHANGED schema
    /\ orphan' = FALSE
    /\ UNCHANGED files /\ UNCHANGED <<serving, updater, waiting, scanning, op, pc, broken>>

\* The host starts again, and Supervisor what it finds active.
HostRestarts ==
    /\ op' = "none" /\ orphan' = FALSE /\ pc' = "idle"
    /\ updater' = "down" /\ waiting' = FALSE /\ scanning' = {}
    /\ serving' \in {Nothing} \cup (IF Accepts THEN {active} ELSE {})
    /\ UNCHANGED files /\ UNCHANGED <<schema, broken>>

Step ==
    \/ \E v \in Release : Check(v)
    \/ Stage \/ GiveUp \/ Prepare \/ StopOld \/ Select \/ StartNew \/ Conclude
    \/ Undo \/ Revert \/ Restart \/ Hold \/ Clear
    \/ Plan \/ Quiet \/ Drain \/ Ledger \/ Migrate \/ Adopt \/ Launch \/ Settle
    \/ Fallback \/ Judge \/ Relaunch \/ Withdraw

Next ==
    \/ Step
    \/ UpdaterStarts \/ LooksForUpgrade \/ LooksForJournal \/ Recover
    \/ TakeTurn \/ TurnIsBusy \/ NotDue
    \/ \E v \in Release : CommandChecks(v)
    \/ CommandStages \/ Apply \/ Upgrade \/ Resume
    \/ \E c \in Connector : ScanBegins(c) \/ ScanEnds(c)
    \/ UpdaterDies \/ CommandDies \/ OrphanEnds \/ HostRestarts

Spec == Init /\ [][Next]_vars

(***************************************************************************)
(* Properties.                                                             *)
(***************************************************************************)

TypeOK ==
    /\ active \in Release /\ seen \in Release
    /\ {candidate, previous, failed, serving} \subseteq Release \cup {Nothing}
    /\ journal \in Cutover \cup {NoCutover} /\ upgrade \in Cutover \cup {NoCutover}
    /\ slots \subseteq Release /\ schema \subseteq Migrating
    /\ updater \in {"down", "stopped", "top", "journal", "turn"}
    /\ waiting \in BOOLEAN
    /\ scanning \subseteq Connector
    /\ op \in {"none", "watch", "apply", "retry", "rollback", "upgrade"} /\ orphan \in BOOLEAN
    /\ pc \in {"idle", "check", "stage", "apply", "plan", "stop", "select", "start", "conclude",
               "undo", "revert", "restart", "hold", "clear", "quiet", "drain", "ledger",
               "migrate", "adopt", "launch", "settle", "fallback", "judge", "relaunch", "withdraw"}
    /\ broken \subseteq Release

\* No runtime serves a database of another schema, whatever is interrupted while
\* the processes, the database and active.json change one after the other: never
\* "pair the old binary with a newer incompatible schema"
\* (docs/service/managed-upgrades.md).
ServesItsSchema == serving # Nothing => SchemaOf(serving) = schema

\* Without a journal nothing is left half done: the recorded runtime is the one
\* that serves, and it fits the database.  And the runtimes a recovery needs are
\* still there (retain_runtimes).
HostIsRecoverable ==
    /\ op = "none" /\ ~orphan /\ journal = NoCutover /\ upgrade = NoCutover =>
           schema = SchemaOf(active) /\ serving \in {Nothing, active}
    /\ {active, journal.previous, upgrade.previous, upgrade.candidate} \ {Nothing} \subseteq slots

\* A release whose cutover was undone once is not tried again unasked
\* (held_after_failure), though failed.json holds one release only and is written
\* near the end of the rollback.
BrokenIsHeld ==
    [][\A v \in broken : journal'.candidate = v /\ journal.candidate # v => op = "retry"]_vars

\* "The new updater refuses ordinary automatic updates while this journal is
\* pending" (docs/service/managed-upgrades.md).
UpdaterWaitsForUpgrade ==
    [][op = "watch" /\ journal' # journal /\ journal' # NoCutover => upgrade = NoCutover]_vars

\* From some moment on nothing dies, and operators leave the host alone.
Calm == <>[][~(UpdaterDies \/ CommandDies \/ HostRestarts \/ Apply \/ Upgrade \/ Resume)]_vars

\* Then an interrupted cutover is recovered, unless an upgrade or an updater that
\* did not start leaves it to the operator.
CutoverSettles ==
    Calm => (journal # NoCutover ~>
                 journal = NoCutover \/ upgrade # NoCutover \/ updater = "stopped")

\* Then the updater gets its turn among the scans of the connectors
\* (pause_new_connector_scans).
TurnComes == Calm => (waiting ~> ~waiting)
=============================================================================
