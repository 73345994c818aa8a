------------------------------ MODULE Dispatch ------------------------------
(***************************************************************************)
(* Whose turn it is (claim_job of migration 029): when there is no purge,  *)
(* an indexing worker takes an embedding job of the tenant that was served *)
(* longest ago, and within it of the space served longest ago.  Purges,    *)
(* and what a job goes through, are in the module Indexing.                *)
(*                                                                         *)
(* claim_job is a transaction of several statements, each with a snapshot  *)
(* of its own.  The tenants are sorted as the snapshot shows them; the     *)
(* first one nobody has locked is locked, whatever order it has by then.   *)
(* A writer in a space holds a key share lock on its row, which FOR UPDATE *)
(* SKIP LOCKED passes over.                                                *)
(***************************************************************************)
EXTENDS Naturals, FiniteSets

CONSTANTS
    LastTenant, LastSpace,  \* tenants and the spaces of each, in order of creation
    DispatchWorker          \* indexing workers

Tenant == 1..LastTenant
SpaceNo == 1..LastSpace
Space == Tenant \X SpaceNo

ConstantAssumption ==
    /\ LastTenant \in Nat \ {0} /\ LastSpace \in Nat \ {0}
    /\ DispatchWorker # {} /\ IsFiniteSet(DispatchWorker)

VARIABLES
    tenantOrder,    \* tenant: its place by last_index_claim NULLS FIRST, created_at, id
    spaceOrder,     \* tenant: the same of its spaces
    due,            \* spaces with an embedding job this worker's model may take
    writing,        \* spaces whose row, or whose due job, another transaction locks
    seenOrder,      \* worker: places of the tenants that have a job due in its snapshot
    locked,         \* worker: the tenant row it locked, as a set
    passes,         \* history: worker -> tenants it passed when it locked
    overtaken,      \* history: tenant -> dispatches of others while it waits
    spaceOvertaken  \* history: space -> dispatches of others of its tenant while it waits

turnVars == <<tenantOrder, spaceOrder, overtaken, spaceOvertaken>>
claimVars == <<seenOrder, locked, passes>>
vars == <<turnVars, due, writing, claimVars>>

Numbered(n) == [i \in 1..n |-> i]
NoTenants == [t \in {} |-> 0]

Init ==
    /\ tenantOrder = Numbered(LastTenant)
    /\ spaceOrder = [t \in Tenant |-> Numbered(LastSpace)]
    /\ due = {}
    /\ writing = {}
    /\ seenOrder = [w \in DispatchWorker |-> NoTenants]
    /\ locked = [w \in DispatchWorker |-> {}]
    /\ passes = [w \in DispatchWorker |-> {}]
    /\ overtaken = [t \in Tenant |-> 0]
    /\ spaceOvertaken = [s \in Space |-> 0]

DueTenant(t) == \E n \in SpaceNo : <<t, n>> \in due

(***************************************************************************)
(* Everybody else.                                                         *)
(***************************************************************************)

\* A job comes, is retried, its lease ends, its space may infer again.
JobDue(s) ==
    /\ s \notin due
    /\ due' = due \cup {s}
    /\ UNCHANGED <<turnVars, writing, claimVars>>

\* Jobs are cancelled or paused.  They no longer wait for a turn.
Waited(waiting) ==
    /\ overtaken' = [t \in Tenant |-> IF \E n \in SpaceNo : <<t, n>> \in waiting THEN overtaken[t] ELSE 0]
    /\ spaceOvertaken' = [s \in Space |-> IF s \in waiting THEN spaceOvertaken[s] ELSE 0]

JobGone(s) ==
    /\ s \in due \ writing
    /\ due' = due \ {s}
    /\ Waited(due \ {s})
    /\ UNCHANGED <<tenantOrder, spaceOrder, writing, claimVars>>

Write(s) ==
    /\ writing' = {s}
    /\ writing = {}
    /\ UNCHANGED <<turnVars, due, claimVars>>

WriteEnds ==
    /\ writing # {}
    /\ writing' = {}
    /\ UNCHANGED <<turnVars, due, claimVars>>

(***************************************************************************)
(* claim_job.                                                              *)
(***************************************************************************)

Idle(w) == seenOrder[w] = NoTenants /\ locked[w] = {}

\* The statement that selects a tenant begins.
Look(w) ==
    /\ Idle(w)
    /\ seenOrder' = [seenOrder EXCEPT ![w] = [t \in {t \in Tenant : DueTenant(t)} |-> tenantOrder[t]]]
    /\ UNCHANGED <<turnVars, due, writing, locked, passes>>

Available(t) == \A w \in DispatchWorker : t \notin locked[w]

First(order, S) == CHOOSE x \in S : \A y \in S : order[x] <= order[y]

\* The spaces of tenant t with a job whose rows can be locked.
Takeable(t) == {n \in SpaceNo : <<t, n>> \in due \ writing}

\* FOR UPDATE SKIP LOCKED: the first of the list that is not locked by now.
LockTenant(w) ==
    LET free == {t \in Tenant : Available(t)}
        seen == DOMAIN seenOrder[w]
        t    == First(seenOrder[w], seen \cap free)
    IN
    /\ seen # {}
    /\ seenOrder' = [seenOrder EXCEPT ![w] = NoTenants]
    /\ IF seen \cap free = {} THEN UNCHANGED <<locked, passes>>
       ELSE /\ locked' = [locked EXCEPT ![w] = {t}]
            /\ passes' = [passes EXCEPT ![w] = {o \in free \ {t} : Takeable(o) # {}}]
    /\ UNCHANGED <<turnVars, due, writing>>

\* last_index_claim takes the next value of the sequence.
Served(order, x, last) ==
    [y \in DOMAIN order |-> IF y = x THEN last ELSE IF order[y] > order[x] THEN order[y] - 1 ELSE order[y]]

\* The dispatch of n of tenant t passes those who wait and are not locked.
Passed(w, t, n) ==
    /\ overtaken' = [o \in Tenant |->
            IF o = t \/ ~DueTenant(o) THEN 0
            ELSE IF o \in passes[w] THEN overtaken[o] + 1 ELSE overtaken[o]]
    /\ spaceOvertaken' = [s \in Space |->
            IF s = <<t, n>> THEN 0
            ELSE IF s[1] = t /\ s \in due \ writing THEN spaceOvertaken[s] + 1 ELSE spaceOvertaken[s]]

\* Mutant of NextSpace: the tenant's spaces are served in the order of creation.
OldestSpace(t) == First(Numbered(LastSpace), Takeable(t))

NextSpace(t) == First(spaceOrder[t], Takeable(t))

\* A space and its job, the turns, the commit.
Dispatched(w, t) ==
    /\ t \in locked[w]
    /\ Takeable(t) # {}
    /\ LET n == NextSpace(t) IN
         /\ due' = due \ {<<t, n>>}
         /\ tenantOrder' = Served(tenantOrder, t, LastTenant)
         /\ spaceOrder' = [spaceOrder EXCEPT ![t] = Served(spaceOrder[t], n, LastSpace)]
         /\ Passed(w, t, n)
    /\ locked' = [locked EXCEPT ![w] = {}]
    /\ passes' = [passes EXCEPT ![w] = {}]
    /\ UNCHANGED <<writing, seenOrder>>

\* No space, or no job: nothing is claimed and no turn is taken.
EmptyHanded(w, t) ==
    /\ t \in locked[w]
    /\ Takeable(t) = {}
    /\ locked' = [locked EXCEPT ![w] = {}]
    /\ passes' = [passes EXCEPT ![w] = {}]
    /\ UNCHANGED <<turnVars, due, writing, seenOrder>>

\* The connection is lost: the transaction is rolled back.
ClaimFails(w) ==
    /\ ~Idle(w)
    /\ seenOrder' = [seenOrder EXCEPT ![w] = NoTenants]
    /\ locked' = [locked EXCEPT ![w] = {}]
    /\ passes' = [passes EXCEPT ![w] = {}]
    /\ UNCHANGED <<turnVars, due, writing>>

Claims(w) ==
    \/ Look(w) \/ LockTenant(w)
    \/ \E t \in Tenant : Dispatched(w, t) \/ EmptyHanded(w, t)

Next ==
    \/ \E s \in Space : JobDue(s) \/ JobGone(s) \/ Write(s)
    \/ WriteEnds
    \/ \E w \in DispatchWorker : Claims(w) \/ ClaimFails(w)

Spec == Init /\ [][Next]_vars

(***************************************************************************)
(* Properties.                                                             *)
(***************************************************************************)

TypeOK ==
    /\ tenantOrder \in [Tenant -> Tenant] /\ spaceOrder \in [Tenant -> [SpaceNo -> SpaceNo]]
    /\ due \subseteq Space /\ writing \subseteq Space
    /\ seenOrder \in [DispatchWorker -> UNION {[S -> Tenant] : S \in SUBSET Tenant}]
    /\ locked \in [DispatchWorker -> SUBSET Tenant] /\ passes \in [DispatchWorker -> SUBSET Tenant]
    /\ overtaken \in [Tenant -> Nat] /\ spaceOvertaken \in [Space -> Nat]

\* However many jobs and spaces a tenant has, each worker serves every other
\* waiting tenant at most once before its next turn: the first of several workers
\* moves it to the end of the order, and only those whose snapshot is older give
\* it one more.  A space is overtaken at most once by each other space.
TurnsAreFair ==
    /\ \A t \in Tenant : overtaken[t] <= (LastTenant - 1) * Cardinality(DispatchWorker)
    /\ \A s \in Space : spaceOvertaken[s] <= LastSpace - 1
=============================================================================
