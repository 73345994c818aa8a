---------------------------- MODULE InferenceGate ----------------------------
(***************************************************************************)
(* One model computation at a time: service/inference_limits.py            *)
(* (InferenceGate), as service/embeddings.py (LocalEmbedder), memory_budget*)
(* .py, model_registry.py and model_broker.py use it.                      *)
(*                                                                         *)
(* A step is what a thread does while it holds the gate's lock, or between *)
(* two times it does; the token that admits a caller is taken right before *)
(* and given back right after, where it can only refuse others.  A caller  *)
(* that waits sleeps on the condition until it is notified or its time is  *)
(* over; a thread that was woken looks at the gate when it has the lock    *)
(* again, and by then more may have happened.  A document is embedded in   *)
(* batches, and between two of them it lets those who wait go first.       *)
(* Keepers are the threads that unload sessions: the idle cleanup, the trim*)
(* under memory pressure and the closing.                                  *)
(*                                                                         *)
(* How long anything takes and how much memory there is are free choices.  *)
(* Left out: the counters of a snapshot, what is embedded, models behind   *)
(* HTTP (they hold the gate for one call and have no session).             *)
(***************************************************************************)
EXTENDS Naturals, Sequences, FiniteSets

CONSTANTS
    Caller,         \* threads that ask for a computation
    Keeper,
    Session,        \* local models, each with its session
    Nobody,         \* also no session
    MaxQueued,      \* callers that may wait, besides the one that computes
    BatchBound      \* bounds the batches of a document

ConstantAssumption ==
    /\ Nobody \notin Caller \cup Keeper \cup Session
    /\ Caller \cap Keeper = {}
    /\ MaxQueued \in Nat
    /\ BatchBound \in Nat \ {0}

VARIABLES
    pc,         \* of a caller, where it is
    owner,      \* _owner
    waiters,    \* _waiters, in order
    session,    \* the model a caller needs
    left,       \* batches a caller has still to compute
    loaded,     \* models with a session in memory
    passes      \* history: by waiting caller, how often others went first

vars == <<pc, owner, waiters, session, left, loaded, passes>>
work == <<session, left, loaded>>

Steps == {"idle", "asleep", "awake", "turn", "ready", "native", "between", "ends"}
Waits(c) == pc[c] \in {"asleep", "awake"}
Unpassed == [d \in Caller |-> 0]

Init ==
    /\ pc = [c \in Caller |-> "idle"]
    /\ owner = Nobody
    /\ waiters = <<>>
    /\ session = [c \in Caller |-> Nobody]
    /\ left = [c \in Caller |-> 0]
    /\ loaded = {}
    /\ passes = [c \in Caller |-> Unpassed]

(***************************************************************************)
(* Under the lock.                                                         *)
(***************************************************************************)

\* notify_all: everybody who sleeps will look.
Notified(at) == [c \in Caller |-> IF at[c] = "asleep" THEN "awake" ELSE at[c]]

\* remove.
Without(queue, c) ==
    LET i == CHOOSE i \in DOMAIN queue : queue[i] = c
    IN  [j \in 1..(Len(queue) - 1) |-> IF j < i THEN queue[j] ELSE queue[j + 1]]

\* Mutant: whoever looks first takes the gate.
FirstToLook(c, queue) == owner = Nobody
IsNext(c, queue) == owner = Nobody /\ queue[1] = c

\* The three ends of a look of _wait_for_turn: it is the caller's turn, its
\* time is over, it sleeps on.
Serve(c, queue) ==
    /\ owner' = c
    /\ waiters' = Without(queue, c)
    /\ pc' = Notified([pc EXCEPT ![c] = "turn"])
    /\ passes' = [d \in Caller |-> IF d # c /\ Waits(d) THEN [passes[d] EXCEPT ![c] = @ + 1]
                                   ELSE IF d = c THEN Unpassed ELSE passes[d]]

GiveUp(c, queue) ==
    /\ waiters' = Without(queue, c)
    /\ pc' = Notified([pc EXCEPT ![c] = "ends"])
    /\ passes' = [passes EXCEPT ![c] = Unpassed]
    /\ UNCHANGED owner

SleepOn(c, queue) ==
    /\ waiters' = queue
    /\ pc' = [pc EXCEPT ![c] = "asleep"]
    /\ UNCHANGED <<owner, passes>>

(***************************************************************************)
(* A caller.                                                               *)
(***************************************************************************)

Admitted == {c \in Caller : pc[c] # "idle"}

\* One of the tokens of _admitted, or the caller is refused at once; then it
\* stands in line.  The first look does not mind the time, unless there is
\* something to wait for.
Enter(c, s, n) ==
    LET queue == Append(waiters, c)
    IN  /\ pc[c] = "idle"
        /\ Cardinality(Admitted) <= MaxQueued
        /\ IF IsNext(c, queue) THEN Serve(c, queue) ELSE SleepOn(c, queue) \/ GiveUp(c, queue)
        /\ session' = [session EXCEPT ![c] = s]
        /\ left' = [left EXCEPT ![c] = n]
        /\ UNCHANGED loaded

\* The wait ends by itself.
TimesOut(c) ==
    /\ pc[c] = "asleep"
    /\ pc' = [pc EXCEPT ![c] = "awake"]
    /\ UNCHANGED <<owner, waiters, passes>> /\ UNCHANGED work

Look(c) ==
    /\ pc[c] = "awake"
    /\ IF IsNext(c, waiters) THEN Serve(c, waiters) ELSE SleepOn(c, waiters)
    /\ UNCHANGED work

LookLate(c) ==
    /\ pc[c] = "awake"
    /\ GiveUp(c, waiters)
    /\ UNCHANGED work

\* MemoryBudget.admit: what stays in memory of the sessions of the others.
Kept(c) == {loaded, loaded \cap {session[c]}}

\* _prepare: the session is there, or loaded; it may be refused, or fail.
Prepare(c) ==
    /\ pc[c] = "turn"
    /\ \E kept \in Kept(c) :
          \/ loaded' = kept \cup {session[c]} /\ pc' = [pc EXCEPT ![c] = "ready"]
          \/ loaded' = kept /\ pc' = [pc EXCEPT ![c] = "ends"]
    /\ UNCHANGED <<owner, waiters, session, left, passes>>

\* batch_size asks for admission once more; then the native call.
Embed(c) ==
    /\ pc[c] = "ready"
    /\ loaded' \in Kept(c)
    /\ \E step \in {"native", "ends"} : pc' = [pc EXCEPT ![c] = step]
    /\ UNCHANGED <<owner, waiters, session, left, passes>>

\* It ends, or raises.
Embedded(c) ==
    /\ pc[c] = "native"
    /\ left' = [left EXCEPT ![c] = @ - 1]
    /\ \E step \in {"ends"} \cup (IF left[c] > 1 THEN {"between"} ELSE {}) :
          pc' = [pc EXCEPT ![c] = step]
    /\ UNCHANGED <<owner, waiters, session, loaded, passes>>

\* checkpoint.
GoOn(c) ==
    /\ pc[c] = "between" /\ waiters = <<>>
    /\ pc' = [pc EXCEPT ![c] = "turn"]
    /\ UNCHANGED <<owner, waiters, passes>> /\ UNCHANGED work

\* Execution is released and the caller stands in line, behind who waits.
Yield(c) ==
    /\ pc[c] = "between" /\ waiters # <<>>
    /\ owner' = Nobody
    /\ waiters' = Append(waiters, c)
    /\ pc' = [Notified(pc) EXCEPT ![c] = "asleep"]
    /\ UNCHANGED passes /\ UNCHANGED work

\* Its cooperative time is used up: it never gets the gate back.
YieldLate(c) ==
    /\ pc[c] = "between" /\ waiters # <<>>
    /\ owner' = Nobody
    /\ pc' = [Notified(pc) EXCEPT ![c] = "ends"]
    /\ UNCHANGED <<waiters, passes>> /\ UNCHANGED work

\* The end of acquire, with or without an error; the token is given back.
Leave(c) ==
    /\ pc[c] = "ends"
    /\ IF owner = c
       THEN owner' = Nobody /\ pc' = Notified([pc EXCEPT ![c] = "idle"])
       ELSE pc' = [pc EXCEPT ![c] = "idle"] /\ UNCHANGED owner
    /\ session' = [session EXCEPT ![c] = Nobody]
    /\ left' = [left EXCEPT ![c] = 0]
    /\ UNCHANGED <<waiters, loaded, passes>>

(***************************************************************************)
(* A keeper: maintenance, never while anybody computes or waits.           *)
(***************************************************************************)

Maintain(k) ==
    /\ owner = Nobody /\ waiters = <<>>
    /\ owner' = k
    /\ UNCHANGED <<pc, waiters, passes>> /\ UNCHANGED work

Unload(k) ==
    /\ owner = k
    /\ \E s \in loaded : loaded' = loaded \ {s}
    /\ UNCHANGED <<pc, owner, waiters, session, left, passes>>

Reopen(k) ==
    /\ owner = k
    /\ owner' = Nobody
    /\ pc' = Notified(pc)
    /\ UNCHANGED <<waiters, passes>> /\ UNCHANGED work

Calls(c) ==
    \/ \E s \in Session, n \in 1..BatchBound : Enter(c, s, n)
    \/ TimesOut(c) \/ Look(c) \/ LookLate(c) \/ Prepare(c) \/ Embed(c) \/ Embedded(c)
    \/ GoOn(c) \/ Yield(c) \/ YieldLate(c) \/ Leave(c)

Maintains(k) == Maintain(k) \/ Unload(k) \/ Reopen(k)

Next == (\E c \in Caller : Calls(c)) \/ (\E k \in Keeper : Maintains(k))

Spec == Init /\ [][Next]_vars

(***************************************************************************)
(* Properties.                                                             *)
(***************************************************************************)

TypeOK ==
    /\ pc \in [Caller -> Steps]
    /\ owner \in Caller \cup Keeper \cup {Nobody}
    /\ waiters \in Seq(Caller)
    /\ session \in [Caller -> Session \cup {Nobody}]
    /\ left \in [Caller -> 0..BatchBound]
    /\ loaded \subseteq Session
    /\ passes \in [Caller -> [Caller -> Nat]]

Computes(c) == pc[c] \in {"turn", "ready", "native", "between"}

\* Never two callers compute, nor does one while sessions are unloaded; whoever
\* computes has the gate, whatever happened to it while it had yielded.
OneAtATime == \A c \in Caller : Computes(c) => owner = c

\* The session a native call runs on is there until the call ends.
SessionsStay == \A c \in Caller : pc[c] = "native" => session[c] \in loaded

\* Those in line are the ones that wait, each of them once.
LineIsExact ==
    /\ {waiters[i] : i \in DOMAIN waiters} = {c \in Caller : Waits(c)}
    /\ \A i, j \in DOMAIN waiters : waiters[i] = waiters[j] => i = j

\* If the gate is free, the first in line is awake to take it.
NobodyIsStranded == owner = Nobody /\ waiters # <<>> => pc[waiters[1]] = "awake"

\* However often others come, or come back between their batches: none goes
\* first twice.
NobodyIsPassedTwice == \A c, d \in Caller : passes[c][d] <= 1

\* Computations take their turns, one at a time, on sessions that are there.
TurnsAreExact ==
    OneAtATime /\ SessionsStay /\ LineIsExact /\ NobodyIsStranded /\ NobodyIsPassedTwice
=============================================================================
