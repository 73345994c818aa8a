--------------------------- MODULE CaptureCustody ---------------------------
(***************************************************************************)
(* Custody of captured conversations, of one source (service/              *)
(* capture_custody.py, capture_policies.py, capture_withdrawal.py,         *)
(* capture_retention.py, migrations 030 and 034).  Devices send pages of   *)
(* events under a grant that is bound to a version of the policy; every    *)
(* event becomes one memory; the events of one fragment, its revisions and *)
(* projections, are a family (lineage), withdrawn or expired together.     *)
(*                                                                         *)
(* A page, a withdrawal, a policy change and an expiry each hold the       *)
(* advisory lock of the source from their first read to their commit, so   *)
(* each is one action.  An expiry works in batches, each a transaction     *)
(* under a lease.                                                          *)
(*                                                                         *)
(* Left out: pages already stored (a repeat finds all its events and       *)
(* changes nothing), the bytes behind an event's identity, members and     *)
(* their access, the delay after a failed attempt.                         *)
(***************************************************************************)
EXTENDS Naturals, FiniteSets, Sequences

CONSTANTS
    Lineage, LastRevision,  \* events: revisions of the fragment families
    Grant,                  \* capture_grants
    Cleaner,                \* processes with a retention worker
    RetentionAges, FirstAge,         \* retention_days in use and at first; 0 keeps indefinitely
    LastPolicy,             \* bound: versions of the policy
    Horizon,                \* bound: the last day
    BatchSize,              \* memories one expiry transaction removes
    Nobody                  \* no worker

Event == Lineage \X (1..LastRevision)
Of(e) == e[1]

ConstantAssumption ==
    /\ RetentionAges \subseteq Nat /\ FirstAge \in RetentionAges
    /\ BatchSize \in Nat \ {0} /\ LastPolicy \in Nat \ {0} /\ LastRevision \in Nat
    /\ Nobody \notin Cleaner

VARIABLES
    now,        \* clock_timestamp() in days
    paused,     \* the space has a row in space_fences
    retired,    \* capture_sources.revoked_at
    ages,       \* capture_policy_versions: the retention_days of each version
    grants,     \* capture_grants: policy_version, 0 without a row, and live
    record,     \* event: none, stored, forgotten (its memory is deleted), refused
    accepted,   \* event: accepted_at and policy_version
    denied,     \* capture_denials
    expiry,     \* capture_expiries: state, expires_at
    claimant,   \* capture_expiries.lease_id, as the worker that drew it
    claimLive,  \* lineages with lease_until > clock_timestamp()
    cleaning    \* worker: the lineage it claimed, as a set

custodyVars == <<paused, retired, ages, grants>>
eventVars == <<record, accepted>>
expiryVars == <<denied, expiry, claimant, claimLive, cleaning>>
vars == <<now, custodyVars, eventVars, expiryVars>>

Init ==
    /\ now = 0
    /\ paused = FALSE
    /\ retired = FALSE
    /\ ages = <<FirstAge>>
    /\ grants = [g \in Grant |-> [policy |-> 0, live |-> FALSE]]
    /\ record = [e \in Event |-> "none"]
    /\ accepted = [e \in Event |-> [at |-> 0, policy |-> 0]]
    /\ denied = {}
    /\ expiry = [l \in Lineage |-> [state |-> "none", at |-> 0]]
    /\ claimant = [l \in Lineage |-> Nobody]
    /\ claimLive = {}
    /\ cleaning = [w \in Cleaner |-> {}]

DayPasses ==
    /\ now < Horizon
    /\ now' = now + 1
    /\ UNCHANGED <<custodyVars, eventVars, expiryVars>>

\* pause_space and resume_space, during a migration or a recovery.
Pause ==
    /\ paused' = ~paused
    /\ UNCHANGED <<now, retired, ages, grants, eventVars, expiryVars>>

(***************************************************************************)
(* The administrator: source, policy, grants.                              *)
(***************************************************************************)

RevokeSource ==
    /\ ~retired
    /\ retired' = TRUE
    /\ UNCHANGED <<now, paused, ages, grants, eventVars, expiryVars>>

\* change_policy: grants keep their version, or all of them are revoked.
ChangePolicy(age, revoke) ==
    /\ ~retired
    /\ Len(ages) < LastPolicy
    /\ age # ages[Len(ages)]
    /\ ages' = Append(ages, age)
    /\ grants' = [g \in Grant |-> [grants[g] EXCEPT !.live = @ /\ ~revoke]]
    /\ UNCHANGED <<now, paused, retired, eventVars, expiryVars>>

\* A new grant under the present version, or under that of a previous grant.
Enroll(g, version) ==
    /\ ~retired
    /\ grants[g].policy = 0
    /\ version = Len(ages) \/ \E p \in Grant : grants[p].policy = version
    /\ version # 0
    /\ grants' = [grants EXCEPT ![g] = [policy |-> version, live |-> TRUE]]
    /\ UNCHANGED <<now, paused, retired, ages, eventVars, expiryVars>>

\* The device or the administrator revokes the grant, or its key ends.
RevokeGrant(g) ==
    /\ grants[g].live
    /\ grants' = [grants EXCEPT ![g].live = FALSE]
    /\ UNCHANGED <<now, paused, retired, ages, eventVars, expiryVars>>

(***************************************************************************)
(* Pages.                                                                  *)
(***************************************************************************)

Due(l) == expiry[l].state # "none" /\ expiry[l].at <= now

\* Mutant of Refused: a deadline counts once the worker has acted on it.
RefusedByDenial(l) == l \in denied

\* No event of the family becomes a memory any more.
Refused(l) == l \in denied \/ Due(l)

Least(S) == CHOOSE x \in S : \A y \in S : x <= y

\* Mutant of Scheduled: the first deadline of a family is kept.
ScheduledOnce(row, deadline) == IF row.state = "none" THEN [state |-> "pending", at |-> deadline] ELSE row

\* ON CONFLICT DO UPDATE: only an earlier deadline replaces a deadline.
Scheduled(row, deadline) ==
    IF row.state = "none" THEN [state |-> "pending", at |-> deadline]
    ELSE IF row.state # "expired" /\ deadline < row.at THEN [row EXCEPT !.at = deadline]
    ELSE row

\* schedule_capture_expiry, after the event rows are there (as primed).
FirstAccepted(l, version) ==
    {accepted'[e].at : e \in {e \in Event :
        Of(e) = l /\ record'[e] \in {"stored", "forgotten"} /\ accepted'[e].policy = version}}

Schedule(families, version) ==
    expiry' = [l \in Lineage |->
        IF l \notin families \/ ages[version] = 0 \/ FirstAccepted(l, version) = {} THEN expiry[l]
        ELSE Scheduled(expiry[l], Least(FirstAccepted(l, version)) + ages[version])]

\* page: events that have a row are left as they are, and all others get
\* theirs, with or without a memory.
Page(g, events) ==
    LET new == {e \in events : record[e] = "none"} IN
    /\ grants[g].live /\ ~retired /\ ~paused
    /\ new # {}
    /\ record' = [e \in Event |->
            IF e \notin new THEN record[e] ELSE IF Refused(Of(e)) THEN "refused" ELSE "stored"]
    /\ accepted' = [e \in Event |->
            IF e \in new THEN [at |-> now, policy |-> grants[g].policy] ELSE accepted[e]]
    /\ Schedule({Of(e) : e \in new}, grants[g].policy)
    /\ UNCHANGED <<now, custodyVars, denied, claimant, claimLive, cleaning>>

(***************************************************************************)
(* Withdrawal by a person: the whole family, in one transaction.           *)
(***************************************************************************)

Stored(l) == {e \in Event : Of(e) = l /\ record[e] = "stored"}

\* Mutant of Withdrawn: only the memory that was named.
WithdrawnAlone(e) == {e}

\* forget_siblings and the memory itself.
Withdrawn(e) == Stored(Of(e))

Forget(events) == record' = [e \in Event |-> IF e \in events THEN "forgotten" ELSE record[e]]

Withdraw(e) ==
    /\ record[e] = "stored"
    /\ ~retired /\ ~paused
    /\ Forget(Withdrawn(e))
    /\ denied' = denied \cup {Of(e)}
    /\ UNCHANGED <<now, custodyVars, accepted, expiry, claimant, claimLive, cleaning>>

(***************************************************************************)
(* The retention worker.                                                   *)
(***************************************************************************)

Claimable(l) == expiry[l].state = "pending" \/ (expiry[l].state = "leased" /\ l \notin claimLive)

Claim(w, l) ==
    /\ cleaning[w] = {}
    /\ Due(l) /\ Claimable(l)
    /\ \A other \in Lineage : Due(other) /\ Claimable(other) => expiry[l].at <= expiry[other].at
    /\ expiry' = [expiry EXCEPT ![l].state = "leased"]
    /\ claimant' = [claimant EXCEPT ![l] = w]
    /\ claimLive' = claimLive \cup {l}
    /\ cleaning' = [cleaning EXCEPT ![w] = {l}]
    /\ UNCHANGED <<now, custodyVars, eventVars, denied>>

LeaseExpires(l) ==
    /\ claimLive' = claimLive \ {l}
    /\ l \in claimLive
    /\ UNCHANGED <<now, custodyVars, eventVars, denied, expiry, claimant, cleaning>>

Holds(w, l) == expiry[l].state = "leased" /\ claimant[l] = w
Owned(w, l) == Holds(w, l) /\ l \in claimLive

Released(w, l, next) ==
    /\ expiry' = [expiry EXCEPT ![l].state = next]
    /\ claimant' = [claimant EXCEPT ![l] = Nobody]
    /\ claimLive' = claimLive \ {l}
    /\ cleaning' = [cleaning EXCEPT ![w] = {}]

\* Asked again after the deletions.
Remaining(l, events) == Stored(l) \ events

\* process: the denial comes first and stays; then one batch.
Process(w, l) ==
    /\ l \in cleaning[w] /\ Owned(w, l)
    /\ ~paused
    /\ denied' = denied \cup {l}
    /\ \E events \in SUBSET Stored(l) :
         /\ Cardinality(events) <= BatchSize
         /\ Cardinality(events) < BatchSize => events = Stored(l)
         /\ Forget(events)
         /\ Released(w, l, IF Remaining(l, events) = {} THEN "expired" ELSE "pending")
    /\ UNCHANGED <<now, custodyVars, accepted>>

\* The lease is gone: process changes nothing.
NotOwned(w, l) ==
    /\ l \in cleaning[w] /\ ~Owned(w, l)
    /\ cleaning' = [cleaning EXCEPT ![w] = {}]
    /\ UNCHANGED <<now, custodyVars, eventVars, denied, expiry, claimant, claimLive>>

\* process raised (a pause, an error of the database) and rolled back; fail.
Fail(w, l) ==
    /\ l \in cleaning[w]
    /\ IF Holds(w, l) THEN Released(w, l, "pending")
       ELSE cleaning' = [cleaning EXCEPT ![w] = {}] /\ UNCHANGED <<expiry, claimant, claimLive>>
    /\ UNCHANGED <<now, custodyVars, eventVars, denied>>

\* The process ends, or fail failed as well.
Crash(w) ==
    /\ cleaning[w] # {}
    /\ cleaning' = [cleaning EXCEPT ![w] = {}]
    /\ UNCHANGED <<now, custodyVars, eventVars, denied, expiry, claimant, claimLive>>

Next ==
    \/ DayPasses \/ Pause \/ RevokeSource
    \/ \E age \in RetentionAges, revoke \in BOOLEAN : ChangePolicy(age, revoke)
    \/ \E g \in Grant : (\E version \in 1..Len(ages) : Enroll(g, version)) \/ RevokeGrant(g)
    \/ \E g \in Grant, events \in SUBSET Event : Page(g, events)
    \/ \E e \in Event : Withdraw(e)
    \/ \E w \in Cleaner, l \in Lineage : Claim(w, l) \/ Process(w, l) \/ NotOwned(w, l) \/ Fail(w, l)
    \/ \E l \in Lineage : LeaseExpires(l)
    \/ \E w \in Cleaner : Crash(w)

Spec == Init /\ [][Next]_vars

(***************************************************************************)
(* Properties.                                                             *)
(***************************************************************************)

TypeOK ==
    /\ now \in Nat
    /\ paused \in BOOLEAN /\ retired \in BOOLEAN
    /\ ages \in Seq(Nat) /\ Len(ages) \in 1..LastPolicy
    /\ grants \in [Grant -> [policy : 0..Len(ages), live : BOOLEAN]]
    /\ record \in [Event -> {"none", "stored", "forgotten", "refused"}]
    /\ accepted \in [Event -> [at : Nat, policy : Nat]]
    /\ denied \subseteq Lineage
    /\ expiry \in [Lineage -> [state : {"none", "pending", "leased", "expired"}, at : Nat]]
    /\ claimant \in [Lineage -> Cleaner \cup {Nobody}]
    /\ claimLive \subseteq Lineage
    /\ cleaning \in [Cleaner -> SUBSET Lineage]

\* A family a person withdrew, or one reported as expired, keeps no memory:
\* nothing was overlooked between batches, and nothing arrived after them.
\* Only an expiry under way may find some left.
ForgottenIsGone ==
    \A l \in Lineage : l \in denied /\ Stored(l) # {} => Due(l) /\ expiry[l].state # "expired"

\* Whatever is accepted under a policy with a lifetime has a deadline within
\* that lifetime: revisions, other grants, policies and retries do not
\* extend it.
DeadlineHolds ==
    \A e \in Event :
        record[e] \in {"stored", "forgotten"} /\ ages[accepted[e].policy] # 0 =>
            /\ expiry[Of(e)].state # "none"
            /\ expiry[Of(e)].at <= accepted[e].at + ages[accepted[e].policy]

\* From its deadline on a family only loses memories, whatever revision of
\* the fragment a device still sends.
NothingComesBack ==
    [][\A l \in Lineage : l \in denied \/ Due(l) => Stored(l)' \subseteq Stored(l)]_vars

\* A family does not stay beyond its deadline, except during a pause.
FamiliesExpire == \A l \in Lineage : ~<>[](Due(l) /\ ~paused /\ expiry[l].state # "expired")
=============================================================================
