---------------------------- MODULE JournalEvents ----------------------------
(***************************************************************************)
(* The memories of a space and the events its journal queues for them, as  *)
(* far as the history of the journal (JournalBackfill, JournalFiling)      *)
(* needs them.  Module Journal takes the delivery of an event apart; here  *)
(* an event is queued, suppressed or pushed.  A memory's number is the     *)
(* rank of its uuid, and an event is named by its memory and version.      *)
(***************************************************************************)
EXTENDS Naturals, FiniteSets

CONSTANTS
    LastMemory,     \* memories are 1..LastMemory
    VersionBound    \* bound: versions of a memory

Memory == 1..LastMemory
Version == 1..VersionBound
Event == Memory \X Version

VARIABLES
    standing,   \* memories: none, ordinary, quarantined, forgotten
    version,    \* memories.version
    action,     \* what made a version: upsert, quarantine, forget, none
    state       \* writeback_events.state, "none" without an event

eventVars == <<standing, version, action, state>>

Text(m) == <<m, version[m]>>
Queued == {e \in Event : state[e] = "queued"}

\* Some memories are there when the journal is enabled, the others come later.
InitEvents ==
    /\ \E old \in SUBSET Memory :
          /\ standing = [m \in Memory |-> IF m \in old THEN "ordinary" ELSE "none"]
          /\ version = [m \in Memory |-> IF m \in old THEN 1 ELSE 0]
          /\ action = [e \in Event |-> IF e[1] \in old /\ e[2] = 1 THEN "upsert" ELSE "none"]
    /\ state = [e \in Event |-> "none"]

\* WritebackService.capture, in the transaction of the change.
Capture(m, act, where) ==
    /\ version[m] < VersionBound
    /\ standing' = [standing EXCEPT ![m] = where]
    /\ version' = [version EXCEPT ![m] = @ + 1]
    /\ action' = [action EXCEPT ![<<m, version[m] + 1>>] = act]
    /\ state' = [e \in Event |->
                    IF e = <<m, version[m] + 1>> THEN "queued"
                    ELSE IF act # "upsert" /\ e[1] = m /\ action[e] = "upsert" /\ e \in Queued
                         THEN "suppressed" ELSE state[e]]

\* Saved, revised or released.
Write(m) == standing[m] \in {"none", "ordinary", "quarantined"} /\ Capture(m, "upsert", "ordinary")

Withdraw(m) ==
    \/ standing[m] = "ordinary" /\ Capture(m, "quarantine", "quarantined")
    \/ standing[m] \in {"ordinary", "quarantined"} /\ Capture(m, "forget", "forgotten")

\* A push that was confirmed.
Pushed(events) ==
    /\ events # {} /\ events \subseteq Queued
    /\ state' = [e \in Event |-> IF e \in events THEN "pushed" ELSE state[e]]
    /\ UNCHANGED <<standing, version, action>>

EventsOK ==
    /\ standing \in [Memory -> {"none", "ordinary", "quarantined", "forgotten"}]
    /\ version \in [Memory -> 0..VersionBound]
    /\ action \in [Event -> {"none", "upsert", "quarantine", "forget"}]
    /\ state \in [Event -> {"none", "queued", "suppressed", "pushed"}]
=============================================================================
