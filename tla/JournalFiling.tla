---------------------------- MODULE JournalFiling ----------------------------
(***************************************************************************)
(* Filing the branch of a journal (service/journal_folding.py,             *)
(* journal/folding.py, journal/notes.py, migration 023): a Markdown note   *)
(* per memory with an old record, then old day files moved to the archive. *)
(* Filing reads the whole branch, plans a new tree and pushes it, while    *)
(* memories are withdrawn, events queued and strangers commit.             *)
(***************************************************************************)
EXTENDS JournalEvents

CONSTANTS
    PolicyBound,    \* bound: versions of the journal policy
    ForeignBound,   \* bound: commits of strangers
    NoteBatch       \* destination.max_batch_entries

ConstantAssumption ==
    LastMemory \in Nat \ {0} /\ VersionBound \in Nat \ {0} /\ NoteBatch \in Nat \ {0}

VARIABLES
    policy,     \* writeback_settings: version, paused
    branch,     \* the Git branch: filed, archived, notes, foreign
    aged,       \* events whose day file is older than the cutoff
    fpc,        \* filing: idle, planned, checked
    plan,       \* filing: the tree it fetched, the one it will push, policy
    shown       \* history: texts on a note, or about to be, when withdrawn

filingVars == <<fpc, plan>>
vars == <<eventVars, policy, branch, aged, filingVars, shown>>

Recorded == branch.filed \cup branch.archived

\* A note shows the text of a version, or none (pending, or withdrawn).
NoNote == [shows |-> "none", version |-> 0]
Note(how, v) == [shows |-> how, version |-> v]
Bare == [filed |-> {}, archived |-> {}, notes |-> [m \in Memory |-> NoNote], foreign |-> 0]
NoPlan == [base |-> Bare, next |-> Bare, policy |-> 0]

Init ==
    /\ InitEvents
    /\ policy = [version |-> 1, paused |-> FALSE]
    /\ branch = Bare
    /\ aged = {}
    /\ fpc = "idle"
    /\ plan = NoPlan
    /\ shown = {}

\* Texts on a note, or in notes that passed the final check.
Showing(m) ==
    {<<m, n.version>> :
        n \in {n \in {branch.notes[m]} \cup (IF fpc = "checked" THEN {plan.next.notes[m]} ELSE {}) :
                n.shows = "text"}}

Change(m) ==
    /\ \/ Write(m) /\ UNCHANGED shown
       \/ Withdraw(m) /\ shown' = shown \cup Showing(m)
    /\ UNCHANGED <<policy, branch, aged, filingVars>>

Configure(paused) ==
    /\ policy.version < PolicyBound
    /\ policy' = [version |-> policy.version + 1, paused |-> paused]
    /\ UNCHANGED <<eventVars, branch, aged, filingVars, shown>>

(***************************************************************************)
(* The branch: publication of queued events, filing, strangers.            *)
(***************************************************************************)

Newest(events, m) == CHOOSE e \in events : e[1] = m /\ \A f \in events : f[1] = m => f[2] <= e[2]
Mentions(events, m) == \E e \in events : e[1] = m

\* Mutant of Cleared: only a withdrawal clears the note.
ClearedByWithdrawal(notes, events) ==
    [m \in Memory |->
        IF notes[m].shows = "none" \/ ~Mentions(events, m) THEN notes[m]
        ELSE LET e == Newest(events, m)
             IN  IF action[e] = "upsert" THEN notes[m] ELSE Note("closed", e[2])]

\* invalidated_notes: in the commit of an event the note of its memory, if
\* there is one, loses its text.
Cleared(notes, events) ==
    [m \in Memory |->
        IF notes[m].shows = "none" \/ ~Mentions(events, m) THEN notes[m]
        ELSE LET e == Newest(events, m)
             IN  Note(IF action[e] = "upsert" THEN "pending" ELSE "closed", e[2])]

\* A push of some queued events; filing holds the publisher's lock meanwhile.
Deliver(events) ==
    /\ fpc = "idle" /\ ~policy.paused
    /\ Pushed(events)
    /\ branch' = [branch EXCEPT !.filed = @ \cup events, !.notes = Cleared(@, events)]
    /\ UNCHANGED <<policy, aged, filingVars, shown>>

\* What is on the branch passes the cutoff.
Ages ==
    /\ aged # branch.filed \cup aged
    /\ aged' = branch.filed \cup aged
    /\ UNCHANGED <<eventVars, policy, branch, filingVars, shown>>

\* JournalIndex: a denial wins, then the highest version.
Denied(m) == \E e \in Recorded : e[1] = m /\ action[e] = "forget"
Rendered(m) ==
    LET e == Newest(Recorded, m)
    IN  Note(IF Denied(m) \/ action[e] # "upsert" THEN "closed" ELSE "text", e[2])

\* Notes to write: of a memory with an old record, or with a note already.
Due == {m \in Memory : /\ \/ branch.notes[m].shows # "none"
                          \/ Mentions(aged \cup branch.archived, m)
                       /\ branch.notes[m] # Rendered(m)}

\* As many as the batch holds, and withdrawn ones before texts.
Chosen(notes) ==
    /\ notes \subseteq Due
    /\ Cardinality(notes) <= NoteBatch /\ (notes = Due \/ Cardinality(notes) = NoteBatch)
    /\ \A m \in notes, n \in Due \ notes : Rendered(m).shows = "text" => Rendered(n).shows = "text"

\* No day file moves until every note is written.
Moved(files, notes) ==
    LET old == branch.filed \cap aged
    IN  IF notes # Due THEN files = {}
        ELSE /\ files \subseteq old
             /\ Cardinality(files) <= NoteBatch /\ (files = old \/ Cardinality(files) = NoteBatch)

\* No queued event, the same policy, not paused.
Current(version_) == policy.version = version_ /\ ~policy.paused /\ Queued = {}

\* organize and fold: with the lock, fetch the branch and plan its next tree.
PlanFiling(notes, files) ==
    /\ fpc = "idle"
    /\ Current(policy.version)
    /\ Chosen(notes) /\ Moved(files, notes)
    /\ notes # {} \/ files # {}
    /\ plan' = [base |-> branch,
                next |-> [branch EXCEPT !.filed = @ \ files, !.archived = @ \cup files,
                                        !.notes = [m \in Memory |-> IF m \in notes THEN Rendered(m)
                                                                    ELSE @[m]]],
                policy |-> policy.version]
    /\ fpc' = "planned"
    /\ UNCHANGED <<eventVars, policy, branch, aged, shown>>

\* before_push
StillCurrent == Current(plan.policy)

CheckFiling ==
    /\ fpc = "planned"
    /\ StillCurrent
    /\ fpc' = "checked"
    /\ UNCHANGED <<eventVars, policy, branch, aged, plan, shown>>

\* The remote accepts a commit only on top of the tip that was fetched.
FastForward == branch = plan.base

PushFiling ==
    /\ fpc = "checked"
    /\ FastForward
    /\ branch' = plan.next
    /\ fpc' = "idle"
    /\ plan' = NoPlan
    /\ UNCHANGED <<eventVars, policy, aged, shown>>

\* Rejected (it plans again, three times at most), or any failure or crash.
FilingStops ==
    /\ fpc # "idle"
    /\ fpc' = "idle"
    /\ plan' = NoPlan
    /\ UNCHANGED <<eventVars, policy, branch, aged, shown>>

ForeignCommit ==
    /\ branch.foreign < ForeignBound
    /\ branch' = [branch EXCEPT !.foreign = @ + 1]
    /\ UNCHANGED <<eventVars, policy, aged, filingVars, shown>>

Next ==
    \/ \E m \in Memory : Change(m)
    \/ \E paused \in BOOLEAN : Configure(paused)
    \/ \E events \in SUBSET Event : Deliver(events)
    \/ Ages
    \/ \E notes \in SUBSET Memory, files \in SUBSET Event : PlanFiling(notes, files)
    \/ CheckFiling \/ PushFiling \/ FilingStops
    \/ ForeignCommit

Spec == Init /\ [][Next]_vars

(***************************************************************************)
(* Properties.                                                             *)
(***************************************************************************)

TypeOK ==
    /\ EventsOK
    /\ policy \in [version : Nat, paused : BOOLEAN]
    /\ aged \subseteq Event /\ Recorded \subseteq Event
    /\ \A m \in Memory : branch.notes[m].shows \in {"none", "text", "pending", "closed"}
    /\ fpc \in {"idle", "planned", "checked"}
    /\ shown \subseteq Event

\* A note shows nothing but the newest text recorded on the branch: any later
\* event clears it in the commit that records the event.  And filing never
\* brings a text into a note after its memory was withdrawn, unless the final
\* check had passed before.
NotesFollowRecords ==
    \A m \in Memory : branch.notes[m].shows = "text" =>
        /\ Mentions(Recorded, m) /\ ~Denied(m)
        /\ branch.notes[m] = Rendered(m)
        /\ standing[m] \in {"quarantined", "forgotten"} => <<m, branch.notes[m].version>> \in shown

\* Once the journal is left alone with nothing queued, filing comes to an end:
\* all old records archived, and every note that is due up to date.
FilingSettles ==
    <>[](~policy.paused /\ Queued = {}) => <>[](Due = {} /\ branch.filed \cap aged = {})
=============================================================================
