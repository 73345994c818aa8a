--------------------------- MODULE CanonicalWrites ---------------------------
(***************************************************************************)
(* Writes of memories by several requests at once: service/memory.py (save,*)
(* revise, review, forget) with repository.py (idempotency,                *)
(* remember_receipt) and fences.py.  One space.                            *)
(*                                                                         *)
(* A request is one transaction under READ COMMITTED that takes its locks  *)
(* one after the other: the space's boundary (shared), its idempotency     *)
(* key, the row of its memory.  It may wait for another one at each of     *)
(* them, and it may end there: a lock or statement times out, the process  *)
(* dies, the identity is revoked.  The client repeats what it got no       *)
(* answer to, with the same key or another one.                            *)
(*                                                                         *)
(* A key stands for one (principal, key).  Left out: permissions and what a*)
(* review decides about them, the text, revisions inside an operation that *)
(* has a key of its own, and the jobs and events a write makes (Indexing,  *)
(* Journal).                                                               *)
(***************************************************************************)
EXTENDS Naturals, Sequences

CONSTANTS
    Handler,        \* requests the service works on at once
    Key,            \* idempotency keys
    NoKey,          \* of a review
    Memory,
    NoMemory,       \* of a save: the memory is named when it is made
    ExpectedBound    \* bounds the versions a client names

ConstantAssumption == NoKey \notin Key /\ NoMemory \notin Memory /\ ExpectedBound \in Nat

VARIABLES
    memory,     \* of each memory its version and standing: none, live, deleted
    receipts,   \* the rows of idempotency_keys
    fence,      \* space_fences: the space is paused
    pc,         \* a handler: idle, begun, admitted, keyed, locked, committed
    request,    \* what it works on
    written,    \* history: by memory, the request of each of its versions
    frozen,     \* history: written as it was when the space was last paused
    answers     \* history: the receipts clients have got for their keys

vars == <<memory, receipts, fence, pc, request, written, frozen, answers>>
stored == <<memory, receipts, fence, written, frozen>>

Keys == Key \cup {NoKey}
Memories == Memory \cup {NoMemory}
Request == [kind : {"save", "revise", "review", "forget"}, key : Keys, memory : Memories,
            expected : Nat]
NoRequest == [kind |-> "none", key |-> NoKey, memory |-> NoMemory, expected |-> 0]

\* What the four endpoints can ask for.
Asked ==
    [kind : {"save"}, key : Key, memory : {NoMemory}, expected : {0}]
    \cup [kind : {"revise"}, key : Key, memory : Memory, expected : 1..ExpectedBound]
    \cup [kind : {"review"}, key : {NoKey}, memory : Memory, expected : 1..ExpectedBound]
    \cup [kind : {"forget"}, key : Key, memory : Memory, expected : 1..ExpectedBound]

\* A receipt holds the hash of its request and the response.
Receipt == [request : Request, memory : Memory, version : Nat]

Init ==
    /\ memory = [m \in Memory |-> [version |-> 0, standing |-> "none"]]
    /\ receipts = {}
    /\ fence = FALSE
    /\ pc = [h \in Handler |-> "idle"]
    /\ request = [h \in Handler |-> NoRequest]
    /\ written = [m \in Memory |-> <<>>]
    /\ frozen = written
    /\ answers = {}

Standing(h) == memory[request[h].memory].standing
Version(h) == memory[request[h].memory].version

(***************************************************************************)
(* The locks, all held until the transaction ends.                         *)
(***************************************************************************)

HoldsBoundary(h) == pc[h] \in {"admitted", "keyed", "locked"}
HoldsKey(h, k) == pc[h] \in {"keyed", "locked"} /\ request[h].key = k
HoldsRow(h, m) == pc[h] = "locked" /\ request[h].memory = m

At(h, step) == pc' = [pc EXCEPT ![h] = step] /\ UNCHANGED request
Ends(h) == pc' = [pc EXCEPT ![h] = "idle"] /\ request' = [request EXCEPT ![h] = NoRequest]

(***************************************************************************)
(* A request.                                                              *)
(***************************************************************************)

\* The first look at the memory takes no lock; a withdrawn one can only be
\* forgotten again.
Receive(h, r) ==
    /\ pc[h] = "idle"
    /\ r.kind # "save" =>
          memory[r.memory].standing \notin (IF r.kind = "forget" THEN {"none"} ELSE {"none", "deleted"})
    /\ pc' = [pc EXCEPT ![h] = "begun"]
    /\ request' = [request EXCEPT ![h] = r]
    /\ UNCHANGED stored /\ UNCHANGED answers

\* write_boundary: the fence is read under the shared lock.
Admit(h) ==
    /\ pc[h] = "begun"
    /\ IF fence THEN Ends(h) ELSE At(h, "admitted")
    /\ UNCHANGED stored /\ UNCHANGED answers

\* What was remembered under the key of the request.
Previous(h) == {x \in receipts : x.request.key = request[h].key}
Replays(h) == Previous(h) # {}

\* The same key with another request is refused.
Conflicts(h) == \E x \in Previous(h) : x.request # request[h]

\* idempotency.  A forget answers a repetition later, when it has locked its memory.
TakeKey(h) ==
    LET key == request[h].key
    IN  /\ pc[h] = "admitted" /\ key # NoKey
        /\ \A g \in Handler : ~HoldsKey(g, key)
        /\ IF Conflicts(h)
           THEN Ends(h)
           ELSE At(h, IF Replays(h) /\ request[h].kind # "forget" THEN "committed" ELSE "keyed")
        /\ UNCHANGED stored /\ UNCHANGED answers

NeedsNoKey(h) ==
    /\ pc[h] = "admitted" /\ request[h].key = NoKey
    /\ At(h, "keyed")
    /\ UNCHANGED stored /\ UNCHANGED answers

\* memory_row and _version, on the locked row; of a memory that is withdrawn
\* already a forget returns the deletion's receipt.
Expected(h) ==
    \/ Standing(h) = "live" /\ Version(h) = request[h].expected
    \/ Standing(h) = "deleted" /\ request[h].kind = "forget"

\* A save locks nothing more.
TakeRow(h) ==
    /\ pc[h] = "keyed"
    /\ \/ request[h].kind = "save" /\ At(h, "locked")
       \/ /\ request[h].kind # "save"
          /\ \A g \in Handler : ~HoldsRow(g, request[h].memory)
          /\ \/ Replays(h) /\ At(h, "committed")
             \/ ~Replays(h) /\ Expected(h) /\ At(h, "locked")
             \/ ~Replays(h) /\ ~Expected(h) /\ Ends(h)
    /\ UNCHANGED stored /\ UNCHANGED answers

\* Mutant of Remember: a save leaves no receipt.
RememberRevisions(h, m, version) ==
    receipts' = IF request[h].key = NoKey \/ request[h].kind = "save" THEN receipts
                ELSE receipts \cup {[request |-> request[h], memory |-> m, version |-> version]}

\* remember_receipt, in the same transaction.
Remember(h, m, version) ==
    receipts' = IF request[h].key = NoKey THEN receipts
                ELSE receipts \cup {[request |-> request[h], memory |-> m, version |-> version]}

\* One more version of m.
Write(h, m, standing) ==
    /\ memory' = [memory EXCEPT ![m] = [version |-> memory[m].version + 1, standing |-> standing]]
    /\ written' = [written EXCEPT ![m] = Append(@, request[h])]
    /\ Remember(h, m, memory[m].version + 1)

Effect(h) ==
    LET m == request[h].memory
    IN  CASE request[h].kind = "save" ->
                 \E new \in Memory : memory[new].standing = "none" /\ Write(h, new, "live")
          [] request[h].kind \in {"revise", "review"} -> Write(h, m, "live")
          [] request[h].kind = "forget" /\ Standing(h) # "deleted" -> Write(h, m, "deleted")
          [] OTHER -> Remember(h, m, Version(h)) /\ UNCHANGED <<memory, written>>

Commit(h) ==
    /\ pc[h] = "locked"
    /\ Effect(h)
    /\ At(h, "committed")
    /\ UNCHANGED <<fence, frozen, answers>>

\* The answer reaches the client.
Answer(h) ==
    /\ pc[h] = "committed"
    /\ answers' = answers \cup Previous(h)
    /\ Ends(h)
    /\ UNCHANGED stored

\* Rolled back, or committed with its answer lost.
Fail(h) ==
    /\ pc[h] # "idle"
    /\ Ends(h)
    /\ UNCHANGED stored /\ UNCHANGED answers

(***************************************************************************)
(* Operators pause a space for a migration or a recovery (fences.py).      *)
(***************************************************************************)

\* Mutant of Exclusive: the pause waits only for requests that hold their row.
ExclusiveOfRows == \A h \in Handler : pc[h] # "locked"

\* exclusive_boundary waits for the requests that are admitted.
Exclusive == \A h \in Handler : ~HoldsBoundary(h)

Pause ==
    /\ Exclusive
    /\ fence' = TRUE
    /\ frozen' = IF fence THEN frozen ELSE written
    /\ UNCHANGED <<memory, receipts, pc, request, written, answers>>

Reopen ==
    /\ Exclusive
    /\ fence' = FALSE
    /\ UNCHANGED <<memory, receipts, pc, request, written, frozen, answers>>

Handle(h) ==
    \/ \E r \in Asked : Receive(h, r)
    \/ Admit(h) \/ TakeKey(h) \/ NeedsNoKey(h) \/ TakeRow(h)
    \/ Commit(h) \/ Answer(h) \/ Fail(h)

Next == (\E h \in Handler : Handle(h)) \/ Pause \/ Reopen

Spec == Init /\ [][Next]_vars

(***************************************************************************)
(* Properties.                                                             *)
(***************************************************************************)

TypeOK ==
    /\ memory \in [Memory -> [version : Nat,
                              standing : {"none", "live", "deleted"}]]
    /\ receipts \subseteq Receipt
    /\ fence \in BOOLEAN
    /\ pc \in [Handler -> {"idle", "begun", "admitted", "keyed", "locked", "committed"}]
    /\ request \in [Handler -> Request \cup {NoRequest}]
    /\ written \in [Memory -> Seq(Request)]
    /\ answers \subseteq Receipt

\* A key makes one version of one memory at most, however often its request is
\* repeated, alone or at once with itself.
OneWritePerKey ==
    \A m, n \in Memory : \A i \in DOMAIN written[m], j \in DOMAIN written[n] :
        written[m][i].key = written[n][j].key /\ written[m][i].key # NoKey => m = n /\ i = j

\* Every version was made by someone who had seen the one before it.
NothingUnseenIsReplaced ==
    \A m \in Memory : \A i \in DOMAIN written[m] : written[m][i].expected = i - 1

\* What a client was told for a key is what the key will always say, and a write
\* it was told of is there.
AnswersStand ==
    \A a \in answers :
        /\ {x \in receipts : x.request.key = a.request.key} = {a}
        /\ \/ a.version \in DOMAIN written[a.memory] /\ written[a.memory][a.version] = a.request
           \/ a.request.kind = "forget" /\ memory[a.memory].standing = "deleted"

\* Nothing is written while the space is paused, not even by a request that had
\* begun before.
PausedStands == fence => written = frozen

\* Each write is exactly one that somebody asked for, however requests overlap,
\* fail and are repeated.
WritesAreExact == OneWritePerKey /\ NothingUnseenIsReplaced /\ AnswersStand /\ PausedStands

Store == INSTANCE MemoryStore WITH paused <- fence

\* To its clients the service is a store that carries a request out in one step,
\* on the version it names and once for its key, or not at all: the transaction
\* that takes its locks one after the other looks indivisible from outside.
ImplementsStore == Store!Spec
=============================================================================
