------------------------------- MODULE Journal -------------------------------
(***************************************************************************)
(* The Git journal of one native memory space (service/writeback.py and    *)
(* the package mnemion/journal): every accepted change of a memory is an   *)
(* event in the database (outbox), then a private receipt on the host      *)
(* (spool), then a record on a branch of a Git repository.                 *)
(*                                                                         *)
(* The three stores do not share a transaction.  A request commits its     *)
(* change together with the event, and only after the commit writes the    *)
(* receipt; an important change is also pushed before the request is       *)
(* answered.  The scheduled publisher pushes what is queued, and so does   *)
(* a person ("push now").  A step below is one database transaction, or    *)
(* one Git or file operation between two of them.  Any step may also fail  *)
(* (Fails): a database, Git, storage or authority error, or one of the two *)
(* file locks held by another process, which are tried, never waited for.  *)
(*                                                                         *)
(* Left out: the bytes (limits, rollover of files, the scanners; a write   *)
(* that a scan rejects is rolled back and changes nothing), filing and     *)
(* archival, the backfill of older memories, a changed host registration.  *)
(***************************************************************************)
EXTENDS Integers, FiniteSets

CONSTANTS
    Memory,         \* memories of the space
    Request,        \* principals with a request in progress, one thread each
    Reviewer,       \* those of role reviewer or above; the others contribute
    Publisher,      \* the scheduled journal thread
    EventBound,     \* bound: changes made while the journal is configured
    PolicyBound,    \* bound: versions of the policy; the identity is revoked
                    \* only while a repair is still possible
    ChangeBound,    \* bound: changes of memories and versions of the policy
                    \* together
    TipBound,       \* bound: commits on the branch when a stranger adds one
    MaxBatch,       \* destination.max_batch_entries
    MaxTries,       \* push attempts of one publication
    None            \* no process, no memory

Process == Request \cup {Publisher}
Event == 1..EventBound

ASSUME ConstantAssumption ==
    /\ EventBound \in Nat /\ PolicyBound \in Nat /\ ChangeBound \in Nat /\ TipBound \in Nat
    /\ MaxBatch \in Nat \ {0}
    /\ MaxTries \in Nat \ {0}
    /\ Reviewer \subseteq Request
    /\ Publisher \notin Request
    /\ None \notin Process \cup Memory

VARIABLES
    review,     \* memories: absent, ordinary, quarantined, forgotten
    version,    \* memories.version
    writers,    \* memories: principals who created its revisions
    marked,     \* memories whose current revision has metadata important
    count,      \* events so far; an event's number is its created_at order
    event,      \* writeback_events: the immutable columns
    state,      \* writeback_events.state, "none" before it exists
    spool,      \* events with a receipt under pending/
    records,    \* how often an event is recorded in the files of the branch
    tip,        \* commits on the branch
    strays,     \* pushes nobody waits for that the branch would still accept,
                \* each the set of events it adds
    policy,     \* writeback_settings.version
    paused,     \* writeback_settings.paused
    since,      \* policy version that installed the publisher identity
    live,       \* that identity may act (writeback_publisher_live)
    control,    \* holder of the publisher control lock
    pc,         \* process: where it is
    req,        \* process: the event its request must deliver, 0 for none
    batch,      \* process: events selected for its push
    todo,       \* process: events it has still to flush
    pver,       \* process: policy version its push was authorized under
    head,       \* process: the tip it fetched
    fresh,      \* process: events of the batch not recorded at that tip
    tries,      \* process: rejected push attempts
    acked,      \* history: important events whose request succeeded
    exposed     \* history: texts on the branch, or past the final check of a
                \* push, when their memory was withdrawn

memoryVars == <<review, version, writers, marked>>
eventVars  == <<count, event, state>>
gitVars == <<records, tip, strays>>
policyVars == <<policy, paused, since, live>>
pushVars   == <<batch, todo, pver, head, fresh, tries>>
historyVars == <<acked, exposed>>
vars == <<memoryVars, eventVars, spool, gitVars, policyVars, control, pc, req, pushVars,
          historyVars>>

NoEvent == [mem |-> None, ver |-> 0, by |-> None,
            act |-> "none", imp |-> FALSE, key |-> FALSE]

Queued == {"pending", "local"}
Delivered == {"pushed", "suppressed"}
Sent == {e \in Event : state[e] # "none"}
Of(m) == {e \in Sent : event[e].mem = m}
Text(e) == event[e].act = "upsert"

Init ==
    /\ review = [m \in Memory |-> "absent"]
    /\ version = [m \in Memory |-> 0]
    /\ writers = [m \in Memory |-> {}]
    /\ marked = {}
    /\ count = 0
    /\ event = [e \in Event |-> NoEvent]
    /\ state = [e \in Event |-> "none"]
    /\ spool = {}
    /\ records = [e \in Event |-> 0]
    /\ tip = 0
    /\ strays = {}
    /\ policy = 1
    /\ paused = FALSE
    /\ since = 1
    /\ live = TRUE
    /\ control = None
    /\ pc = [p \in Process |-> "idle"]
    /\ req = [p \in Process |-> 0]
    /\ batch = [p \in Process |-> {}]
    /\ todo = [p \in Process |-> {}]
    /\ pver = [p \in Process |-> 0]
    /\ head = [p \in Process |-> 0]
    /\ fresh = [p \in Process |-> {}]
    /\ tries = [p \in Process |-> 0]
    /\ acked = {}
    /\ exposed = {}

Goto(p, l) == pc' = [pc EXCEPT ![p] = l]

\* Order of the events in p's batch: the required one, then by created_at.
Before(p, f, e) == e # req[p] /\ (f = req[p] \/ f < e)
IsFirst(p, e) == e \in todo[p] /\ \A f \in todo[p] : f = e \/ Before(p, e, f)

\* p's flush transaction holds the row of e (FOR UPDATE OF e).
Locked(e) == \E p \in Process : pc[p] = "write" /\ IsFirst(p, e)

(***************************************************************************)
(* The write path.  WritebackService.capture runs in the transaction of    *)
(* the change; _after_commit makes the request go on to "flush".           *)
(***************************************************************************)

\* Past the final check of a push that has not ended, or that nobody waits for.
Leaving(e) == (\E p \in Process : pc[p] = "send" /\ e \in fresh[p]) \/ e \in UNION strays

\* Texts of m that a withdrawal can no longer keep off the branch.
Escaped(m) == {e \in Of(m) : Text(e) /\ (records[e] > 0 \/ Leaving(e))}

\* Row security: a principal sees its own events, a reviewer every event.
Sees(p, e) == p \in Reviewer \/ event[e].by = p

\* Queued texts of m that a withdrawal by p marks suppressed.
Suppressible(p, m) == {e \in Of(m) : Text(e) /\ state[e] \in Queued /\ Sees(p, e)}

\* Mutant of NextVersion: a withdrawal leaves the version alone.
NextVersionOfText(m, act) == IF act = "upsert" THEN version[m] + 1 ELSE version[m]

\* Every change increments memories.version.
NextVersion(m, act) == version[m] + 1

\* Insert the event of a change of m and suppress the queued texts in hit.
\* key: the caller can repeat the request under an idempotency key.
Capture(p, m, act, imp, key, hit) ==
    LET e == count + 1
    IN  /\ e \in Event /\ count + policy < ChangeBound
        /\ \A f \in hit : ~Locked(f)
        /\ count' = e
        /\ event' = [event EXCEPT ![e] = [mem |-> m, ver |-> NextVersion(m, act),
                                          by |-> p, act |-> act, imp |-> imp, key |-> key]]
        /\ state' = [f \in Event |-> IF f = e THEN "pending"
                                     ELSE IF f \in hit THEN "suppressed"
                                     ELSE state[f]]
        /\ version' = [version EXCEPT ![m] = NextVersion(m, act)]
        /\ req' = [req EXCEPT ![p] = e]
        /\ todo' = [todo EXCEPT ![p] = {e}]
        /\ Goto(p, "flush")
        /\ UNCHANGED <<spool, gitVars, policyVars, control, batch, pver, head, fresh, tries, acked>>

Mark(m, imp) == marked' = IF imp THEN marked \cup {m} ELSE marked \ {m}

Save(p, m, imp) ==
    /\ p \in Request /\ pc[p] = "idle"
    /\ review[m] = "absent"
    /\ review' = [review EXCEPT ![m] = "ordinary"]
    /\ writers' = [writers EXCEPT ![m] = {p}]
    /\ Mark(m, imp)
    /\ Capture(p, m, "upsert", imp, TRUE, {})
    /\ UNCHANGED exposed

\* A reviewer may also revise a quarantined memory, which stays quarantined.
Revise(p, m, imp) ==
    /\ p \in Request /\ pc[p] = "idle"
    /\ review[m] = "ordinary" \/ (review[m] = "quarantined" /\ p \in Reviewer)
    /\ writers' = [writers EXCEPT ![m] = @ \cup {p}]
    /\ Mark(m, imp)
    /\ Capture(p, m, "upsert", imp, TRUE, {})
    /\ UNCHANGED <<review, exposed>>

Quarantine(p, m) ==
    /\ p \in Reviewer /\ pc[p] = "idle"
    /\ review[m] \in {"ordinary", "quarantined"}
    /\ review' = [review EXCEPT ![m] = "quarantined"]
    /\ exposed' = exposed \cup Escaped(m)
    /\ Capture(p, m, "quarantine", FALSE, FALSE, Suppressible(p, m))
    /\ UNCHANGED <<writers, marked>>

\* The event repeats the current revision, with its importance.
Release(p, m) ==
    /\ p \in Reviewer /\ pc[p] = "idle"
    /\ review[m] \in {"ordinary", "quarantined"}
    /\ review' = [review EXCEPT ![m] = "ordinary"]
    /\ Capture(p, m, "upsert", m \in marked, FALSE, {})
    /\ UNCHANGED <<writers, marked, exposed>>

\* A contributor withdraws an ordinary memory with no revision by another.
Forget(p, m) ==
    /\ p \in Request /\ pc[p] = "idle"
    /\ \/ p \in Reviewer /\ review[m] \in {"ordinary", "quarantined"}
       \/ review[m] = "ordinary" /\ writers[m] = {p}
    /\ review' = [review EXCEPT ![m] = "forgotten"]
    /\ exposed' = exposed \cup Escaped(m)
    /\ Capture(p, m, "forget", FALSE, TRUE, Suppressible(p, m))
    /\ UNCHANGED <<writers, marked>>

(***************************************************************************)
(* How a process ends: leaving the publication releases its control lock.  *)
(***************************************************************************)

\* Mutant of Released: an error leaves the lock file locked.
ReleasedNever(p) == control

Released(p) == IF control = p THEN None ELSE control

\* GitJournal.publish ends: its locals are gone.
Returned(p) ==
    /\ head' = [head EXCEPT ![p] = 0]
    /\ fresh' = [fresh EXCEPT ![p] = {}]
    /\ tries' = [tries EXCEPT ![p] = 0]

Leave(p, l) ==
    /\ Goto(p, l)
    /\ control' = Released(p)
    /\ req' = IF l = "failed" THEN req ELSE [req EXCEPT ![p] = 0]
    /\ batch' = [batch EXCEPT ![p] = {}]
    /\ todo' = [todo EXCEPT ![p] = {}]
    /\ pver' = [pver EXCEPT ![p] = 0]
    /\ Returned(p)

\* The answer of an important change says its durability is remote_git.
Succeed(p) ==
    /\ Leave(p, "idle")
    /\ acked' = IF req[p] # 0 /\ event[req[p]].imp THEN acked \cup {req[p]} ELSE acked

\* A failed request with a key can be repeated, the others are over.
Rest(p) == IF req[p] # 0 /\ event[req[p]].key THEN "failed" ELSE "idle"

Busy(p) == pc[p] \notin {"idle", "failed"}

\* The push that p no longer waits for: the Git program outlives a process that
\* dies, and a server that was sent everything outlives a program that was
\* killed.  It is lost, or it takes effect later (StrayLands), at once included.
Left(p) == IF pc[p] = "send" /\ tip = head[p] /\ fresh[p] # {} THEN {fresh[p]} ELSE {}

\* Any step of a request or push may raise: 503 journal_delivery_pending.
Fails(p) ==
    /\ Busy(p)
    /\ Leave(p, Rest(p))
    /\ strays' = strays \cup Left(p)
    /\ UNCHANGED <<memoryVars, eventVars, spool, records, tip, policyVars, historyVars>>

\* Repeat the request with its key: replay delivers the stored receipt's event.
\* A revision is refused when its caller no longer sees the memory.
Retry(p) ==
    LET e == req[p]
        m == event[e].mem
    IN  /\ pc[p] = "failed"
        /\ Text(e) /\ event[e].ver > 1 =>
               review[m] = "ordinary" \/ (review[m] = "quarantined" /\ p \in Reviewer)
        /\ todo' = [todo EXCEPT ![p] = {e}]
        /\ Goto(p, "flush")
        /\ UNCHANGED <<memoryVars, eventVars, spool, gitVars, policyVars, control, req, batch,
                       pver, head, fresh, tries, historyVars>>

Abandon(p) ==
    /\ pc[p] = "failed"
    /\ Leave(p, "idle")
    /\ UNCHANGED <<memoryVars, eventVars, spool, gitVars, policyVars, historyVars>>

(***************************************************************************)
(* WritebackService.flush: one transaction per event.  A request flushes   *)
(* its own event, a push then flushes every event of its batch as the      *)
(* publisher identity.                                                     *)
(***************************************************************************)

\* The publisher identity p's push was authorized under may still act.
Authorized(p) == live /\ pver[p] >= since

FlushOf(p, e) ==
    /\ pc[p] = "flush"
    /\ IsFirst(p, e)
    /\ batch[p] # {} => Authorized(p)
    /\ ~Locked(e)

\* Already delivered, or withdrawn meanwhile.
FlushSkips(p) ==
    \E e \in Event :
        /\ FlushOf(p, e)
        /\ \/ state[e] \in Delivered /\ UNCHANGED state
           \/ /\ state[e] \in Queued
              /\ Text(e) /\ review[event[e].mem] # "ordinary"
              /\ state' = [state EXCEPT ![e] = "suppressed"]
        /\ todo' = [todo EXCEPT ![p] = @ \ {e}]
        /\ UNCHANGED <<memoryVars, count, event, spool, gitVars, policyVars, control, pc, req,
                       batch, pver, head, fresh, tries, historyVars>>

\* The row is read and locked; the receipt is still to be written.
FlushLocks(p) ==
    \E e \in Event :
        /\ FlushOf(p, e)
        /\ state[e] \in Queued
        /\ Text(e) => review[event[e].mem] = "ordinary"
        /\ Goto(p, "write")
        /\ UNCHANGED <<memoryVars, eventVars, spool, gitVars, policyVars, control, req, pushVars,
                       historyVars>>

\* Receipts of other events of e's memory: a denial removes them.
Receipts(e) == {f \in spool : f # e /\ event[f].mem = event[e].mem}

\* Mutant of Written: a denial removes no receipt.
WrittenOnly(e) == spool \cup {e}

\* The spool after Spool.record, or Spool.forget_pending_content for a denial.
Written(e) ==
    IF event[e].act = "forget" THEN (spool \ Receipts(e)) \cup {e} ELSE spool \cup {e}

FlushWrites(p) ==
    \E e \in Event :
        /\ pc[p] = "write" /\ IsFirst(p, e)
        /\ spool' = Written(e)
        /\ state' = [state EXCEPT ![e] = "local"]
        /\ todo' = [todo EXCEPT ![p] = @ \ {e}]
        /\ Goto(p, "flush")
        /\ UNCHANGED <<memoryVars, count, event, gitVars, policyVars, control, req, batch, pver,
                       head, fresh, tries, historyVars>>

\* The transaction aborts after some of its file operations.
FlushTorn(p) ==
    \E e \in Event :
        /\ pc[p] = "write" /\ IsFirst(p, e)
        /\ \E gone \in SUBSET Receipts(e) :
               /\ event[e].act # "forget" => gone = {}
               /\ spool' = (spool \ gone) \cup {e}
        /\ Leave(p, Rest(p))
        /\ UNCHANGED <<memoryVars, eventVars, gitVars, policyVars, historyVars>>

\* Nothing left to flush: publish the batch, or push the important event, or
\* answer the request.
Flushed(p) ==
    /\ pc[p] = "flush" /\ todo[p] = {}
    /\ \/ /\ batch[p] # {}
          /\ Goto(p, "lock")
          /\ UNCHANGED <<control, req, pushVars>>
       \/ /\ batch[p] = {} /\ event[req[p]].imp
          /\ Goto(p, "begin")
          /\ UNCHANGED <<control, req, pushVars>>
       \/ /\ batch[p] = {} /\ ~event[req[p]].imp
          /\ Leave(p, "idle")
    /\ UNCHANGED <<memoryVars, eventVars, spool, gitVars, policyVars, historyVars>>

(***************************************************************************)
(* WritebackService.push: choose a batch, flush it, and let GitJournal     *)
(* publish it under the publisher control lock.                            *)
(***************************************************************************)

\* Mutant of Due: what has a receipt on the host no longer counts.
DuePending == \E e \in Event : state[e] = "pending"

Due == \E e \in Event : state[e] \in Queued

\* claim_writeback: the schedule of the space is due.
Claim ==
    /\ pc[Publisher] = "idle"
    /\ ~paused /\ live
    /\ Due
    /\ Goto(Publisher, "begin")
    /\ UNCHANGED <<memoryVars, eventVars, spool, gitVars, policyVars, control, req, pushVars,
                   historyVars>>

\* A person asks for a push of what is queued.
PushNow(p) ==
    /\ p \in Request /\ pc[p] = "idle"
    /\ Goto(p, "begin")
    /\ UNCHANGED <<memoryVars, eventVars, spool, gitVars, policyVars, control, req, pushVars,
                   historyVars>>

\* First transaction: the policy, and the publisher identity it names.
Begin(p) ==
    /\ pc[p] = "begin"
    /\ ~paused
    /\ pver' = [pver EXCEPT ![p] = policy]
    /\ Goto(p, "select")
    /\ UNCHANGED <<memoryVars, eventVars, spool, gitVars, policyVars, control, req, batch, todo,
                   head, fresh, tries, historyVars>>

Publishable ==
    {e \in Event : state[e] \in Queued /\ (Text(e) => review[event[e].mem] = "ordinary")}

\* The first max_batch_entries publishable events.
Selected(p) ==
    {e \in Publishable : Cardinality({f \in Publishable : Before(p, f, e)}) < MaxBatch}

\* Mutant of AlreadyDelivered: a receipt on the host is enough.
AlreadyJournaled(p) == req[p] # 0 /\ state[req[p]] \in Delivered \cup {"local"}

AlreadyDelivered(p) == req[p] # 0 /\ state[req[p]] \in Delivered

\* Second transaction, as the publisher.
SelectsNothing(p) ==
    /\ pc[p] = "select" /\ Authorized(p)
    /\ AlreadyDelivered(p) \/ (req[p] = 0 /\ Publishable = {})
    /\ Succeed(p)
    /\ UNCHANGED <<memoryVars, eventVars, spool, gitVars, policyVars, exposed>>

Selects(p) ==
    /\ pc[p] = "select" /\ Authorized(p)
    /\ ~AlreadyDelivered(p)
    /\ Publishable # {}
    /\ batch' = [batch EXCEPT ![p] = Selected(p)]
    /\ todo' = [todo EXCEPT ![p] = Selected(p)]
    /\ Goto(p, "flush")
    /\ UNCHANGED <<memoryVars, eventVars, spool, gitVars, policyVars, control, req, pver, head,
                   fresh, tries, historyVars>>

\* Mutant of Missing: append without looking for events already recorded.
MissingAll(p) == batch[p]

\* rollover.append: the events of the batch not yet recorded on the branch.
Missing(p) == {e \in batch[p] : records[e] = 0}

\* Take the control lock, fetch the tip and plan the append on it.
Fetch(p) ==
    /\ \/ pc[p] = "lock" /\ control = None /\ control' = p
       \/ pc[p] = "fetch" /\ UNCHANGED control
    /\ head' = [head EXCEPT ![p] = tip]
    /\ fresh' = [fresh EXCEPT ![p] = Missing(p)]
    /\ Goto(p, "check")
    /\ UNCHANGED <<memoryVars, eventVars, spool, gitVars, policyVars, req, batch, todo, pver,
                   tries, historyVars>>

\* Mutant of Current: trust the selection.
CurrentAtSelection(p) == pver[p] = policy /\ ~paused

\* current(): the policy is the one read first, and the whole batch is still
\* publishable; it may have been pushed by someone else.
Current(p) ==
    /\ pver[p] = policy
    /\ ~paused
    /\ \A e \in batch[p] :
           /\ state[e] \in {"local", "pushed"}
           /\ Text(e) => review[event[e].mem] = "ordinary"

\* Final check before a push, in a transaction of its own.
Check(p) ==
    /\ pc[p] = "check" /\ Authorized(p)
    /\ Current(p)
    /\ Goto(p, "send")
    /\ UNCHANGED <<memoryVars, eventVars, spool, gitVars, policyVars, control, req, pushVars,
                   historyVars>>

\* A commit on the branch, which rejects what was made for the tip before it.
Commits(added) ==
    /\ tip' = tip + 1
    /\ records' = [e \in Event |-> IF e \in added THEN records[e] + 1 ELSE records[e]]
    /\ strays' = {}

\* The push is a compare-and-set of the branch: it succeeds only on p's head.
Pushed(p) ==
    /\ pc[p] = "send"
    /\ fresh[p] # {}
    /\ tip = head[p]
    /\ Commits(fresh[p])

\* Confirmed, or nothing was missing; the control lock is released.
Send(p) ==
    /\ pc[p] = "send"
    /\ \/ Pushed(p)
       \/ fresh[p] = {} /\ UNCHANGED gitVars
    /\ control' = None
    /\ Returned(p)
    /\ Goto(p, "mark")
    /\ UNCHANGED <<memoryVars, eventVars, spool, policyVars, req, batch, todo, pver,
                   historyVars>>

\* A push takes effect whose confirmation nobody will get.
StrayLands ==
    /\ \E added \in strays : Commits(added)
    /\ UNCHANGED <<memoryVars, eventVars, spool, policyVars, control, pc, req, pushVars,
                   historyVars>>

\* Rejected as non-fast-forward: fetch, plan and check again.
SendRejected(p) ==
    /\ pc[p] = "send"
    /\ fresh[p] # {}
    /\ tip # head[p]
    /\ tries[p] + 1 < MaxTries
    /\ tries' = [tries EXCEPT ![p] = @ + 1]
    /\ Goto(p, "fetch")
    /\ UNCHANGED <<memoryVars, eventVars, spool, gitVars, policyVars, control, req, batch, todo,
                   pver, head, fresh, historyVars>>

Marked(p, e) == e \in batch[p] /\ state[e] = "local"

\* Record the publication, as the publisher.
MarkPushed(p) ==
    /\ pc[p] = "mark" /\ Authorized(p)
    /\ \A e \in batch[p] : ~Locked(e)
    /\ state' = [e \in Event |-> IF Marked(p, e) THEN "pushed" ELSE state[e]]
    /\ Goto(p, "ack")
    /\ UNCHANGED <<memoryVars, count, event, spool, gitVars, policyVars, control, req, pushVars,
                   historyVars>>

\* Mutant of Acknowledged: the whole folders of the delivered memories.
AcknowledgedFolders(p) == {e \in spool : \E f \in batch[p] : event[f].mem = event[e].mem}

\* Spool.acknowledge removes receipts in order, up to the first that is gone.
Acknowledged(p) == {e \in batch[p] : \A f \in batch[p] \ spool : Before(p, e, f)}

Acknowledge(p) ==
    /\ pc[p] = "ack"
    /\ spool' = spool \ Acknowledged(p)
    /\ Succeed(p)
    /\ UNCHANGED <<memoryVars, eventVars, gitVars, policyVars, exposed>>

(***************************************************************************)
(* The environment.                                                        *)
(***************************************************************************)

\* An administrator saves the policy; repair installs a new publisher identity.
Configure ==
    /\ policy < PolicyBound /\ count + policy < ChangeBound
    /\ policy' = policy + 1
    /\ paused' \in BOOLEAN
    /\ \/ live' = TRUE /\ since' = policy + 1
       \/ UNCHANGED <<live, since>>
    /\ UNCHANGED <<memoryVars, eventVars, spool, gitVars, control, pc, req, pushVars, historyVars>>

\* The publisher's key, grant or principal is revoked.
Revoke ==
    /\ live /\ policy < PolicyBound /\ count + policy < ChangeBound
    /\ live' = FALSE
    /\ UNCHANGED <<memoryVars, eventVars, spool, gitVars, policy, paused, since, control, pc, req,
                   pushVars, historyVars>>

\* Another user of the branch commits outside the journal's prefix.
ForeignCommit ==
    /\ tip < TipBound
    /\ Commits({})
    /\ UNCHANGED <<memoryVars, eventVars, spool, policyVars, control, pc, req, pushVars,
                   historyVars>>

\* The API process dies: transactions roll back and file locks are released.
Crash ==
    /\ \E p \in Process : Busy(p)
    /\ pc' = [p \in Process |-> IF Busy(p) THEN Rest(p) ELSE pc[p]]
    /\ req' = [p \in Process |-> IF pc'[p] = "failed" THEN req[p] ELSE 0]
    /\ control' = None
    /\ batch' = [p \in Process |-> {}]
    /\ todo' = [p \in Process |-> {}]
    /\ pver' = [p \in Process |-> 0]
    /\ head' = [p \in Process |-> 0]
    /\ fresh' = [p \in Process |-> {}]
    /\ tries' = [p \in Process |-> 0]
    /\ strays' = strays \cup UNION {Left(p) : p \in Process}
    /\ UNCHANGED <<memoryVars, eventVars, spool, records, tip, policyVars, acked, exposed>>

Change(p) ==
    \E m \in Memory :
        \/ \E imp \in BOOLEAN : Save(p, m, imp) \/ Revise(p, m, imp)
        \/ Quarantine(p, m)
        \/ Release(p, m)
        \/ Forget(p, m)

Flush(p) == FlushSkips(p) \/ FlushLocks(p) \/ FlushWrites(p) \/ Flushed(p)

Push(p) ==
    \/ Begin(p) \/ SelectsNothing(p) \/ Selects(p)
    \/ Fetch(p) \/ Check(p) \/ Send(p) \/ SendRejected(p)
    \/ MarkPushed(p) \/ Acknowledge(p)

Failure(p) == Fails(p) \/ FlushTorn(p)

Next ==
    \/ \E p \in Process : Change(p) \/ Flush(p) \/ Push(p) \/ Failure(p)
    \/ \E p \in Process : PushNow(p) \/ Retry(p) \/ Abandon(p)
    \/ Claim
    \/ StrayLands \/ Configure \/ Revoke \/ ForeignCommit \/ Crash

Spec == Init /\ [][Next]_vars

\* The journal thread polls every five seconds, and the threads of the process
\* run.  Nothing makes a person change a memory, retry or push, and nothing
\* makes a step succeed.
Fairness ==
    /\ WF_vars(Claim)
    /\ \A p \in Process : WF_vars(Flush(p) \/ Push(p) \/ Failure(p))

FairSpec == Spec /\ Fairness

(***************************************************************************)
(* Properties.                                                             *)
(***************************************************************************)

RowsOK ==
    /\ review \in [Memory -> {"absent", "ordinary", "quarantined", "forgotten"}]
    /\ version \in [Memory -> 0..count]
    /\ writers \in [Memory -> SUBSET Request]
    /\ marked \subseteq Memory
    /\ count \in 0..EventBound
    /\ event \in [Event -> [mem : Memory \cup {None}, ver : 0..EventBound,
                            by : Request \cup {None},
                            act : {"none", "upsert", "quarantine", "forget"},
                            imp : BOOLEAN, key : BOOLEAN]]
    /\ \A e \in 1..count : event[e].mem \in Memory

DeliveryOK ==
    /\ state \in [Event -> {"none", "pending", "local", "pushed", "suppressed"}]
    /\ \A e \in Event : state[e] = "none" <=> e > count
    /\ spool \subseteq 1..count
    /\ records \in [Event -> Nat]
    /\ tip \in Nat
    /\ strays \subseteq SUBSET (1..count)
    /\ acked \subseteq 1..count /\ exposed \subseteq 1..count

PolicyOK == policy \in Nat /\ paused \in BOOLEAN /\ since \in 1..policy /\ live \in BOOLEAN

ProcessesOK ==
    /\ control \in Process \cup {None}
    /\ pc \in [Process -> {"idle", "flush", "write", "begin", "select", "lock", "fetch", "check",
                           "send", "mark", "ack", "failed"}]
    /\ \A p \in Process : control = p <=> pc[p] \in {"fetch", "check", "send"}
    /\ req \in [Process -> 0..count]
    /\ \A p \in Process : pc[p] = "failed" => req[p] # 0

PushesOK ==
    /\ batch \in [Process -> SUBSET (1..count)]
    /\ todo \in [Process -> SUBSET (1..count)]
    /\ pver \in [Process -> Nat]
    /\ head \in [Process -> Nat]
    /\ fresh \in [Process -> SUBSET (1..count)]
    /\ tries \in [Process -> 0..MaxTries]

\* Types of the rows, files and locals.  An event number is used once, in
\* order, and no receipt or push names an event that does not exist.  The
\* publisher control lock is held exactly from the fetch to the push, and
\* never left locked by a failure.
TypeOK == RowsOK /\ DeliveryOK /\ PolicyOK /\ ProcessesOK /\ PushesOK

\* Two deliveries of an event, by a request, a retry, a person and the
\* schedule, after a lost confirmation, a crash or a foreign commit, leave one
\* record of it on the branch (rollover.append under a compare-and-set push).
DeliveredOnce == \A e \in Event : records[e] <= 1

\* A database row that says pushed has its record on the branch: whatever
\* fails between the push and the mark errs on the side of pushing again.
PushedIsPublished == \A e \in Event : state[e] = "pushed" => records[e] > 0

\* What is called pushed is on the branch, and nothing is there twice.
PublishedOnce == DeliveredOnce /\ PushedIsPublished

\* The text of a withdrawn memory is on the branch only if it was there, or
\* past the final check of a push, when the withdrawal committed (push's
\* current(), git-journal.md "A change immediately after the final check").
WithdrawnStaysPrivate ==
    \A e \in Sent :
        (Text(e) /\ records[e] > 0
            /\ (state[e] = "suppressed" \/ review[event[e].mem] = "forgotten"))
        => e \in exposed

\* A text whose memory was forgotten by somebody who does not see its event:
\* the withdrawal neither suppresses it nor waits for the flush that holds it.
Overlooked(e) ==
    \E d \in Of(event[e].mem) : event[d].act = "forget" /\ ~Sees(event[d].by, e)

\* While a text counts as journaled on this host, its receipt is there, so an
\* ordinary save answered local_journal survives without the database.
LocalReceiptDurable ==
    \A e \in Sent : (Text(e) /\ state[e] = "local") => e \in spool \/ Overlooked(e)

\* Once the denial of a forgotten memory is on the host or the branch, no
\* receipt on the host still holds a text of it (forget_pending_content).
ForgottenLeavesNoText ==
    \A e \in Sent : (event[e].act = "forget" /\ state[e] \in {"local", "pushed"})
        => \A f \in Of(event[e].mem) \cap spool : Text(f) => Overlooked(f)

\* The successful answer of an important change is not given before its event
\* is recorded on the branch or withdrawn.
AckIsDecided ==
    \A e \in acked : records[e] > 0 \/ state[e] = "suppressed" \/ Overlooked(e)

\* What JournalIndex makes of the branch: the action of the highest recorded
\* version, unless the memory is denied for good.
Recorded(m) == {e \in Of(m) : records[e] > 0}
Projected(m) ==
    IF \E e \in Recorded(m) :
           /\ Text(e)
           /\ \A f \in Recorded(m) : event[f].act # "forget" /\ event[f].ver <= event[e].ver
    THEN CHOOSE v \in 1..EventBound :
             /\ \E e \in Recorded(m) : event[e].ver = v
             /\ \A e \in Recorded(m) : event[e].ver <= v
    ELSE 0

Mirrored == \A m \in Memory : Projected(m) = IF review[m] = "ordinary" THEN version[m] ELSE 0

\* When nothing is left to publish, a replay of the branch gives exactly the
\* ordinary memories of the database at their current versions, whatever was
\* withdrawn, released, retried or reordered on the way.
DrainedIsMirrored == Publishable = {} => Mirrored

\* Delivery is final: no event leaves the states pushed and suppressed.
DeliveryIsFinal ==
    [][\A e \in Event : state[e] \in Delivered => state'[e] = state[e]]_vars

\* Once requests rest, publication is left possible and its steps no longer
\* fail, the schedule alone brings the branch to mirror the database: no event
\* waits for ever behind a withdrawn text, an abandoned request or what a
\* failure left half done.
JournalConverges ==
    /\ <>[](~paused /\ live /\ \A p \in Request : ~Busy(p))
    /\ <>[][~(Failure(Publisher) \/ Crash)]_vars
    => <>[]Mirrored

\* Disagreements of the documents with the code, violated below.

\* git-journal.md: "Unpublished withdrawn content is suppressed."
WithdrawnIsSuppressed ==
    \A e \in Sent : (Text(e) /\ review[event[e].mem] = "forgotten") => state[e] \notin Queued

\* test_writeback.py: once a push has succeeded, its events have no receipt left.
SuccessLeavesNoReceipt ==
    [][\A p \in Process : Acknowledge(p) => batch[p] \cap spool' = {}]_vars

=============================================================================
