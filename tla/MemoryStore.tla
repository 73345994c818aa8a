----------------------------- MODULE MemoryStore -----------------------------
(***************************************************************************)
(* What the write endpoints promise the clients of one space, without      *)
(* handlers, locks or transactions: a store in which a request is carried  *)
(* out in one step, or not at all.  CanonicalWrites implements it.         *)
(*                                                                         *)
(* A request is carried out on the version it names, once for its key, and *)
(* never while the space is paused; its receipt is there from that step on,*)
(* is never changed, and is all a client is ever told.                     *)
(***************************************************************************)
EXTENDS Naturals

CONSTANTS
    Memory,
    Asked,      \* requests: their kind, key, memory and expected version
    NoKey

VARIABLES
    memory,     \* of each memory its version and standing: none, live, deleted
    receipts,   \* of the keys that were used
    paused,
    answers     \* the receipts clients have got

vars == <<memory, receipts, paused, answers>>

Init ==
    /\ memory = [m \in Memory |-> [version |-> 0, standing |-> "none"]]
    /\ receipts = {}
    /\ paused = FALSE
    /\ answers = {}

Used(key) == key # NoKey /\ \E x \in receipts : x.request.key = key

\* A save makes a memory, anything else is about the version it names.
Concerns(r, m) ==
    IF r.kind = "save"
    THEN memory[m].standing = "none"
    ELSE r.memory = m /\ memory[m] = [version |-> r.expected, standing |-> "live"]

Standing(r) == IF r.kind = "forget" THEN "deleted" ELSE "live"

Remember(r, m, version) ==
    receipts' = IF r.key = NoKey THEN receipts
                ELSE receipts \cup {[request |-> r, memory |-> m, version |-> version]}

Perform(r) ==
    /\ ~paused /\ ~Used(r.key)
    /\ \E m \in Memory :
          /\ Concerns(r, m)
          /\ memory' = [memory EXCEPT ![m] = [version |-> memory[m].version + 1,
                                              standing |-> Standing(r)]]
          /\ Remember(r, m, memory[m].version + 1)
    /\ UNCHANGED <<paused, answers>>

\* A memory that was withdrawn is withdrawn again under another key.
WithdrawAgain(r) ==
    /\ ~paused /\ ~Used(r.key)
    /\ r.kind = "forget" /\ memory[r.memory].standing = "deleted"
    /\ Remember(r, r.memory, memory[r.memory].version)
    /\ UNCHANGED <<memory, paused, answers>>

Tell(x) == answers' = answers \cup {x} /\ UNCHANGED <<memory, receipts, paused>>

\* The operators pause the space and reopen it.
Fence == paused' \in BOOLEAN /\ UNCHANGED <<memory, receipts, answers>>

Next ==
    \/ \E r \in Asked : Perform(r) \/ WithdrawAgain(r)
    \/ \E x \in receipts : Tell(x)
    \/ Fence

Spec == Init /\ [][Next]_vars
=============================================================================
