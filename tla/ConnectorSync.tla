---------------------------- MODULE ConnectorSync ----------------------------
(***************************************************************************)
(* The synchronisation of one source scope: service/connectors.py,         *)
(* service/connector_sync.py, the functions of migrations 005, 006 and     *)
(* 037, and the client in connectors/protocol.py and connectors/runner.py. *)
(* A scan reads the source item by item, sends a page for each, and ends   *)
(* with a finish that removes, in batches, what the run has not seen.      *)
(* The source, people and other scans go on meanwhile; requests are late,  *)
(* repeated or lost.                                                       *)
(*                                                                         *)
(* Each service operation holds the advisory lock of the scope from its    *)
(* first read to its commit and is one action.  The client sends the next  *)
(* request only once the previous page is stored, so the last request of a *)
(* run is the only one of it that may still have an effect.                *)
(*                                                                         *)
(* Left out: incremental runs (no runner begins one), members and roles,   *)
(* a disabled connector (it refuses like a closed scope), several items    *)
(* in one page.                                                            *)
(***************************************************************************)
EXTENDS Naturals, FiniteSets, Functions

CONSTANTS
    LastItem,         \* items 1..LastItem in the order of their external_id
    LastSourceRevision, \* bound: revisions of an item at its source
    LastScan,         \* bound: connector_runs
    ChangeBound,      \* bound: changes at the source
    Discussed,        \* bound: the items that people write in or forget
    EditBound,        \* bound: versions of the memory of one of these
    SweepSize         \* items one finish removes (100 in the code)

Item == 1..LastItem
Scan == 1..LastScan
SourceRevision == 1..LastSourceRevision
Local == LastSourceRevision + 1         \* a text that people wrote

ConstantAssumption ==
    /\ LastItem \in Nat \ {0} /\ LastSourceRevision \in Nat \ {0} /\ LastScan \in Nat
    /\ EditBound \in Nat /\ Discussed \subseteq Item /\ ChangeBound \in Nat /\ SweepSize \in Nat \ {0}

VARIABLES
    source,     \* item at the source: [revision, present]
    moved,      \* history: items whose source changed since the active run began
    open,       \* suspended_at is null and access_valid_until > now()
    operatorPaused,
    runs,       \* connector_runs in the order they began: state, next_sequence,
                \* and whether its lease is live while it is active
    sent,       \* run: the last request of its client
    skipping,   \* run: its client met a file it could not read
    item,       \* connector_items
    text,       \* item: its memory's text; 0 without a memory
    edition,    \* item: memories.version
    gone,       \* item: none, removed (for its source), forgotten (by a person)
    offered,    \* connector_proposals: the proposed revision, or 0
    review      \* what a reviewer looks at: item, version, proposal

scopeVars == <<open, operatorPaused>>
clientVars == <<sent, skipping>>
memoryVars == <<text, edition, gone, offered>>
vars == <<source, moved, scopeVars, runs, clientVars, item, memoryVars, review>>

NoRequest == [kind |-> "none", at |-> 0, revision |-> 0]
NoReview == [item |-> 0, version |-> 0, proposal |-> 0]
Unknown == [state |-> "none", revision |-> 0, applied |-> 0, seen |-> 0, validated |-> 0, withheld |-> FALSE]

Init ==
    /\ source = [i \in Item |-> [revision |-> 1, present |-> TRUE]]
    /\ moved = {}
    /\ open = FALSE
    /\ operatorPaused = FALSE
    /\ runs = [r \in Scan |-> [state |-> "none", live |-> FALSE, next |-> 0]]
    /\ sent = [r \in Scan |-> NoRequest]
    /\ skipping = [r \in Scan |-> FALSE]
    /\ item = [i \in Item |-> Unknown]
    /\ text = [i \in Item |-> 0]
    /\ edition = [i \in Item |-> 0]
    /\ gone = [i \in Item |-> "none"]
    /\ offered = [i \in Item |-> 0]
    /\ review = NoReview

Active == {r \in Scan : runs[r].state \in {"running", "finalizing"}}

(***************************************************************************)
(* The source and its access.                                              *)
(***************************************************************************)

\* The changes so far.
Changes ==
    FoldFunction(LAMBDA a, b : a + b, 0,
                 [i \in Item |-> source[i].revision - 1 + (IF source[i].present THEN 0 ELSE 1)])

SourceChanges(i) ==
    /\ Changes < ChangeBound
    /\ \/ source[i].present
          /\ source' = [source EXCEPT ![i].present = FALSE]
       \/ source[i].revision < LastSourceRevision
          /\ source' = [source EXCEPT ![i] = [revision |-> @.revision + 1, present |-> TRUE]]
    /\ moved' = moved \cup {i}
    /\ UNCHANGED <<scopeVars, runs, clientVars, item, memoryVars, review>>

\* refresh_scope: a scan found the access of the provider in order.
Refresh ==
    /\ ~operatorPaused
    /\ ~open
    /\ open' = TRUE
    /\ UNCHANGED <<source, moved, operatorPaused, runs, clientVars, item, memoryVars, review>>

\* access_valid_until passes without a new check.
AccessLapses ==
    /\ open
    /\ open' = FALSE
    /\ UNCHANGED <<source, moved, operatorPaused, runs, clientVars, item, memoryVars, review>>

Aborted == [r \in Scan |-> IF r \in Active THEN [runs[r] EXCEPT !.state = "aborted", !.live = FALSE] ELSE runs[r]]

\* suspend_connector_scope (by an operator, by a scan that lost its access) and
\* binding_changed.
Suspend(operator) ==
    /\ open \/ Active # {} \/ (operator /\ ~operatorPaused)
    /\ open' = FALSE
    /\ operatorPaused' = (operatorPaused \/ operator)
    /\ runs' = Aborted
    /\ UNCHANGED <<source, moved, clientVars, item, memoryVars, review>>

Resume ==
    /\ operatorPaused
    /\ operatorPaused' = FALSE
    /\ open' = FALSE
    /\ UNCHANGED <<source, moved, runs, clientVars, item, memoryVars, review>>

(***************************************************************************)
(* The run at the service.                                                 *)
(***************************************************************************)

Lapsed == [r \in Scan |-> IF r \in Active /\ ~runs[r].live THEN [runs[r] EXCEPT !.state = "aborted"] ELSE runs[r]]
Unoccupied(state) == \A r \in Scan : state[r].state \notin {"running", "finalizing"}

\* begin.
Begin(r) ==
    /\ runs[r].state = "none"
    /\ \A q \in Scan : q < r => runs[q].state # "none"
    /\ open
    /\ Unoccupied(Lapsed)
    /\ runs' = [Lapsed EXCEPT ![r] = [state |-> "running", live |-> TRUE, next |-> 0]]
    /\ moved' = {}
    /\ UNCHANGED <<source, scopeVars, sent, skipping, item, memoryVars, review>>

\* lease_until passes: the client is slow, or gone.
RunLapses(r) ==
    /\ r \in Active
    /\ runs[r].live
    /\ runs' = [runs EXCEPT ![r].live = FALSE]
    /\ UNCHANGED <<source, moved, scopeVars, clientVars, item, memoryVars, review>>

(***************************************************************************)
(* The client of a run.                                                    *)
(***************************************************************************)

Stopped(r) == sent[r].kind = "denied"
Send(r, kind, i, revision) == sent' = [sent EXCEPT ![r] = [kind |-> kind, at |-> i, revision |-> revision]]

\* sync: the next item of the inventory, once the previous page is stored.  An
\* absent or unreadable one leaves a marker that renews the lease; where access
\* is refused the inventory stops.  Once the run is over, nothing its client
\* sends is accepted.
Read(r, i) ==
    /\ runs[r].state = "running"
    /\ i = runs[r].next + 1
    /\ sent[r].at < i
    /\ sent[r].kind # "finish"
    /\ ~Stopped(r)
    /\ \/ \E kind \in {"content", "retain"} : source[i].present /\ Send(r, kind, i, source[i].revision)
       \/ ~source[i].present /\ Send(r, "marker", i, 0)
       \/ source[i].present /\ \E kind \in {"marker", "denied"} : Send(r, kind, i, 0)
    /\ skipping' = [skipping EXCEPT ![r] = @ \/ (source[i].present /\ sent'[r].kind \in {"marker", "denied"})]
    /\ UNCHANGED <<source, moved, scopeVars, runs, item, memoryVars, review>>

InventoryRead(r) == runs[r].next = LastItem \/ (Stopped(r) /\ runs[r].next = sent[r].at)

\* sync: the finish, with the errors that inventory_errors() collected; the
\* revision of the request tells whether access was refused.
AskFinish(r) ==
    /\ runs[r].state = "running"
    /\ runs[r].next > 0
    /\ InventoryRead(r)
    /\ sent[r].kind # "finish"
    /\ Send(r, "finish", runs[r].next, IF Stopped(r) THEN 1 ELSE 0)
    /\ UNCHANGED <<source, moved, scopeVars, runs, skipping, item, memoryVars, review>>

(***************************************************************************)
(* page and _item.                                                         *)
(***************************************************************************)

\* Mutant of Touched: only a conflict that was recorded counts.
TouchedInConflict(i) == item[i].state = "conflict"

\* People wrote in the memory, or reviewed it, since the source was applied.
Touched(i) == edition[i] # item[i].applied

Seen(r, i) == item' = [item EXCEPT ![i].seen = r]

Observed(r, i, revision, state, applied) ==
    item' = [item EXCEPT ![i] = [state |-> state, revision |-> revision, applied |-> applied,
                                 seen |-> r, validated |-> r, withheld |-> FALSE]]

Upsert(r, i, revision) ==
    \/ /\ item[i].state = "deleted" \/ gone[i] # "none"
       /\ gone' = [gone EXCEPT ![i] = IF @ = "none" /\ text[i] # 0 THEN "removed" ELSE @]
       /\ Observed(r, i, revision, "deleted", item[i].applied)
       /\ UNCHANGED <<text, edition, offered>>
    \/ /\ item[i].state \in {"active", "conflict"} /\ gone[i] = "none"
       /\ item[i].revision = revision
       /\ Observed(r, i, revision, item[i].state, item[i].applied)
       /\ UNCHANGED memoryVars
    \/ /\ item[i].state \in {"active", "conflict"} /\ gone[i] = "none"
       /\ item[i].revision # revision
       /\ Touched(i)
       /\ Observed(r, i, revision, "conflict", item[i].applied)
       /\ offered' = [offered EXCEPT ![i] = revision]
       /\ UNCHANGED <<text, edition, gone>>
    \/ /\ gone[i] = "none"
       /\ item[i].state = "none" \/ (item[i].state # "deleted" /\ item[i].revision # revision /\ ~Touched(i))
       /\ text' = [text EXCEPT ![i] = revision]
       /\ edition' = [edition EXCEPT ![i] = @ + 1]
       /\ Observed(r, i, revision, "active", edition[i] + 1)
       /\ UNCHANGED <<gone, offered>>

\* A page that is already stored returns its response and changes nothing.
Page(r) ==
    LET i == sent[r].at IN
    /\ sent[r].kind \in {"content", "retain", "marker", "denied"}
    /\ open
    /\ runs[r].state = "running" /\ runs[r].live
    /\ i = runs[r].next + 1
    /\ \/ /\ sent[r].kind = "content"
          /\ Upsert(r, i, sent[r].revision)
       \/ /\ sent[r].kind = "retain"
          /\ item[i].state # "none" /\ item[i].revision = sent[r].revision
          /\ Seen(r, i)
          /\ UNCHANGED memoryVars
       \/ /\ sent[r].kind \in {"marker", "denied"}
          /\ UNCHANGED <<item, memoryVars>>
    /\ runs' = [runs EXCEPT ![r].next = i]
    /\ UNCHANGED <<source, moved, scopeVars, clientVars, review>>

(***************************************************************************)
(* finish.                                                                 *)
(***************************************************************************)

\* Mutant of Missing: what was only retained is missing.
MissingUnread(r) == {i \in Item : item[i].state \in {"active", "conflict"} /\ item[i].validated # r}

Missing(r) == {i \in Item : item[i].state \in {"active", "conflict"} /\ item[i].seen # r}

\* The first items of the order, as many as one transaction removes.
Swept(r) == {i \in Missing(r) : Cardinality({j \in Missing(r) : j < i}) < SweepSize}

\* Mutant of Unread: what the run only retained counts as read.
UnreadUnseen(r) == {i \in Item : item[i].state \in {"active", "conflict"} /\ item[i].seen # r}

\* Items whose content the run has not read: validated_run.
Unread(r) == {i \in Item : item[i].state \in {"active", "conflict"} /\ item[i].validated # r}

\* The finish of a completed run returns its result and changes nothing.
Finish(r) ==
    LET partial == skipping[r]
        sweep == IF partial THEN {} ELSE Swept(r)
        done == partial \/ sweep = Missing(r)
        stop == done /\ sent[r].revision = 1
    IN
    /\ sent[r].kind = "finish"
    /\ open
    /\ r \in Active /\ runs[r].live
    /\ ~(partial /\ runs[r].state = "finalizing")
    /\ gone' = [i \in Item |-> IF i \in sweep /\ text[i] # 0 /\ gone[i] = "none" THEN "removed" ELSE gone[i]]
    /\ offered' = [i \in Item |-> IF i \in sweep /\ gone[i] = "none" THEN 0 ELSE offered[i]]
    /\ item' = [i \in Item |->
                 IF i \in sweep THEN [item[i] EXCEPT !.state = "deleted"]
                 ELSE IF stop /\ i \in Unread(r) THEN [item[i] EXCEPT !.withheld = TRUE]
                 ELSE item[i]]
    /\ runs' = [runs EXCEPT ![r].state = IF done THEN "completed" ELSE "finalizing", ![r].live = ~done]
    /\ open' = ~stop
    /\ UNCHANGED <<source, moved, operatorPaused, clientVars, text, edition, review>>

(***************************************************************************)
(* People.                                                                 *)
(***************************************************************************)

Readable(i) == open /\ text[i] # 0 /\ gone[i] = "none" /\ ~item[i].withheld

Edit(i) ==
    /\ Readable(i)
    /\ edition[i] < EditBound
    /\ text' = [text EXCEPT ![i] = Local]
    /\ edition' = [edition EXCEPT ![i] = @ + 1]
    /\ UNCHANGED <<source, moved, scopeVars, runs, clientVars, item, gone, offered, review>>

ForgetItem(i) ==
    /\ Readable(i)
    /\ gone' = [gone EXCEPT ![i] = "forgotten"]
    /\ UNCHANGED <<source, moved, scopeVars, runs, clientVars, item, text, edition, offered, review>>

LookAt(i) ==
    /\ Readable(i)
    /\ offered[i] # 0
    /\ review' = [item |-> i, version |-> edition[i], proposal |-> offered[i]]
    /\ UNCHANGED <<source, moved, scopeVars, runs, clientVars, item, memoryVars>>

\* The version and the proposal are those the reviewer expects.
AsSeen(i) == edition[i] = review.version /\ offered[i] = review.proposal

Resolve(i, accept) ==
    /\ review.item = i
    /\ Readable(i)
    /\ offered[i] # 0
    /\ AsSeen(i)
    /\ IF accept
       THEN /\ text' = [text EXCEPT ![i] = offered[i]]
            /\ edition' = [edition EXCEPT ![i] = @ + 1]
            /\ item' = [item EXCEPT ![i].state = "active", ![i].applied = edition[i] + 1]
       ELSE /\ item' = [item EXCEPT ![i].state = "active"]
            /\ UNCHANGED <<text, edition>>
    /\ offered' = [offered EXCEPT ![i] = 0]
    /\ review' = NoReview
    /\ UNCHANGED <<source, moved, scopeVars, runs, clientVars, gone>>

Next ==
    \/ \E i \in Item : SourceChanges(i)
    \/ \E i \in Discussed : Edit(i) \/ ForgetItem(i) \/ LookAt(i)
    \/ \E i \in Discussed, accept \in BOOLEAN : Resolve(i, accept)
    \/ Refresh
    \/ AccessLapses
    \/ \E operator \in BOOLEAN : Suspend(operator)
    \/ Resume
    \/ \E r \in Scan : Begin(r) \/ RunLapses(r) \/ AskFinish(r) \/ Page(r) \/ Finish(r)
    \/ \E r \in Scan, i \in Item : Read(r, i)

(***************************************************************************)
(* Properties.                                                             *)
(***************************************************************************)

TypeOK ==
    /\ source \in [Item -> [revision : SourceRevision, present : BOOLEAN]]
    /\ moved \subseteq Item
    /\ open \in BOOLEAN /\ operatorPaused \in BOOLEAN
    /\ runs \in [Scan -> [state : {"none", "running", "finalizing", "completed", "aborted"},
                          live : BOOLEAN, next : 0..LastItem]]
    /\ sent \in [Scan -> [kind : {"none", "content", "retain", "marker", "denied", "finish"},
                          at : 0..LastItem, revision : 0..LastSourceRevision]]
    /\ skipping \in [Scan -> BOOLEAN]
    /\ item \in [Item -> [state : {"none", "active", "conflict", "deleted"}, revision : 0..LastSourceRevision,
                          applied : Nat, seen : 0..LastScan, validated : 0..LastScan, withheld : BOOLEAN]]
    /\ text \in [Item -> 0..Local] /\ edition \in [Item -> Nat]
    /\ gone \in [Item -> {"none", "removed", "forgotten"}]
    /\ offered \in [Item -> 0..LastSourceRevision]
    /\ review \in [item : 0..LastItem, version : Nat, proposal : 0..LastSourceRevision]

\* A memory is removed for its source only when the source lacks the item or
\* changed it while the run was active (an unreadable file, a late page, a run
\* that lost its lease remove nothing), and a run that ends with a complete
\* inventory has removed or brought up to date everything that did not change
\* meanwhile: finish in service/connectors.py.
InventoryIsExact ==
    [][/\ \A i \in Item : gone[i] = "none" /\ gone'[i] = "removed" => i \in moved \/ ~source[i].present
       /\ \A r \in Scan : runs[r].state # "completed" /\ runs'[r].state = "completed" /\ ~skipping[r] =>
             \A i \in Item \ moved :
                IF source[i].present THEN item'[i].state # "none" /\ item'[i].revision = source[i].revision
                ELSE item'[i].state \in {"none", "deleted"}]_vars

\* A text that people wrote is replaced only by the proposal a reviewer looked
\* at, over the version they looked at, whatever the source sends in between
\* and however late the decision arrives: _item and resolve.
PeopleDecide ==
    [][\A i \in Item : text[i] = Local /\ text'[i] # Local =>
          review = [item |-> i, version |-> edition[i], proposal |-> text'[i]]]_vars

\* The last run that ended because access was refused; 0 without one.
LastStop ==
    LET stops == {r \in Scan : runs[r].state = "completed" /\ sent[r].revision = 1 /\ sent[r].kind = "finish"}
    IN IF stops = {} THEN 0 ELSE CHOOSE r \in stops : \A q \in stops : q <= r

\* After a scan to which the source refused access, nobody reads a memory that
\* neither this scan nor a later one has read again from the source: a new
\* check of permissions, a late page, or a retain that sends no content does not
\* bring it back (migration 037, finish).
HiddenUntilReadAgain == \A i \in Item : Readable(i) => item[i].validated >= LastStop

\* A client that dies in the middle of a run does not hold the scope for ever:
\* another scan takes its place (begin).
ScopeIsFreed == \A r \in Scan : r < LastScan => (r \in Active ~> r \notin Active)
=============================================================================
