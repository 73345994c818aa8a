---------------------------- MODULE LibrarianProofs ----------------------------
(***************************************************************************)
(* No suggestion outlives a memory it was made from, a version that may    *)
(* have been charged is swept again only after a person chose it for a     *)
(* review that was too large, and no decision overwrites what a person     *)
(* wrote: for every set of memories and of runners, any number of runs and *)
(* any limits, through crashes, lost leases and lost answers.              *)
(***************************************************************************)
EXTENDS Librarian, TLAPS

(***************************************************************************)
(* The inductive invariant.                                                *)
(***************************************************************************)

\* Runs are created one after the other, each when no other is active; a
\* runner works on one that exists.
RunsInv ==
    /\ \A q, r \in Run : Active(q) /\ Active(r) => q = r
    /\ \A q, r \in Run : q < r /\ runState[r] # "none" => runState[q] # "none"
    /\ \A r \in Run : runState[r] # "none" => runMode[r] \in Modes
    /\ \A w \in Runner : job[w] # 0 => runState[job[w]] # "none"

Busy(w) == step[w] \in {"picked", "reserved", "answered"}

\* What is left to do, and what a call is about, are items of the run.
ItemsInv ==
    /\ \A r \in Run : \A m \in todo[r] : selected[r][m] # 0
    /\ \A w \in Runner : Busy(w) =>
         job[w] # 0 /\ batch[w] # {} /\ \A m \in batch[w] : selected[job[w]][m] # 0

\* No version is noted before it exists.  The run that is active selected its
\* items no earlier than the latest call about them: its observations, written
\* after a call, never step back behind that call.
VersionInv ==
    /\ \A m \in Memory : version[m] # 0 /\ written[m] <= version[m]
    /\ \A o \in Modes \X Memory : charged[o] <= version[o[2]]
    /\ \A r \in Run : \A m \in Memory : selected[r][m] <= version[m]
    /\ \A r \in Run : \A m \in Memory :
         Active(r) /\ selected[r][m] # 0 => charged[<<runMode[r], m>>] <= selected[r][m]

\* What the active run still has to do, as one prompt.
Left(r) == <<runMode[r], {<<m, selected[r][m]>> : m \in todo[r]}>>

\* A call is about one item, or about all there are.
Whole(w) == Batch(job[w], batch[w])

\* Why a charged version is skipped by hand only.  What was charged did fit its
\* prompt; in the organize mode the prompt is the memory's own, and fits again.  A
\* sweep's review takes all its items at once: if one of them was charged, it was
\* by this run, with the same prompt.
CallsInv ==
    /\ \A o \in Modes \X Memory :
         o[1] = "organize" /\ charged[o] # 0 => <<"organize", {<<o[2], charged[o]>>}>> \notin TooLarge
    /\ \A r \in Run \ chosen : Active(r) /\ runMode[r] = "review" =>
         \A m \in todo[r] :
            charged[<<"review", m>>] = selected[r][m] /\ <<"review", m>> \notin passedOver =>
               Left(r) \notin TooLarge
    /\ \A w \in Runner : Busy(w) /\ lease[job[w]] = w => Whole(w)
    /\ \A o \in skipped : standing[o[2]] = "ordinary" /\ charged[o] = version[o[2]] =>
         o[1] = "review" /\ o \in passedOver
    /\ ChargedIsRetriedByHand

\* Suggestions are made by runs; accepting one of an organizing run notes the
\* version it left.
SuggestionInv ==
    /\ \A p \in Proposals : proposal[p] \notin {"none", "invalidated"} => runState[p[1]] # "none"
    /\ \A p \in Proposals : proposal[p] = "accepted" /\ runMode[p[1]] = "organize" => applied[p] # 0
    /\ WithdrawnLeavesNoSuggestion

Inv == TypeOK /\ RunsInv /\ ItemsInv /\ VersionInv /\ CallsInv /\ SuggestionInv

(***************************************************************************)
(* Type correctness.                                                       *)
(***************************************************************************)

LEMMA TypeInit == ConstantAssumption => (Init => TypeOK)
BY DEF ConstantAssumption, Init, TypeOK, Run, Proposals

LEMMA PurgeTypes ==
  ASSUME TypeOK, NEW m \in Memory, Purge(m)
  PROVE  /\ proposal' \in [Proposals -> {"none", "pending", "accepted", "rejected", "undone", "invalidated"}]
         /\ depends' \in [Proposals -> SUBSET Memory]
         /\ applied' \in [Proposals -> Nat]
         /\ seen' \in [Modes \X Memory -> Nat]
         /\ skipped' \subseteq Modes \X Memory
BY DEF TypeOK, Purge

LEMMA CompletesTypes ==
  ASSUME TypeOK, NEW w \in Runner, job[w] \in Run, Completes(w)
  PROVE  /\ runState' \in [Run -> {"none", "queued", "running", "completed", "failed", "cancelled"}]
         /\ lease' \in [Run -> Runner \cup {None}]
         /\ leaseLive' \subseteq {r \in Run : lease'[r] # None}
         /\ job' \in [Runner -> Run \cup {0}] /\ asked' \in [Runner -> SUBSET Memory]
BY DEF TypeOK, Completes

LEMMA ObserveTypes ==
  ASSUME TypeOK, NEW w \in Runner, job[w] \in Run, NEW outcome, Observe(w, outcome),
         runMode[job[w]] \in Modes
  PROVE  seen' \in [Modes \X Memory -> Nat] /\ skipped' \subseteq Modes \X Memory
<1> DEFINE marks == Marks(w)
<1>1. marks \subseteq Modes \X Memory
  BY DEF TypeOK, Marks
<1>2. \A o \in Modes \X Memory : selected[job[w]][o[2]] \in Nat /\ seen[o] \in Nat
  BY DEF TypeOK
<1>3. seen' = [o \in Modes \X Memory |-> IF o \in marks THEN selected[job[w]][o[2]] ELSE seen[o]]
  BY DEF Observe
<1>4. skipped' = skipped \cup marks \/ skipped' = skipped \ marks
  BY DEF Observe
<1> QED
  BY <1>1, <1>2, <1>3, <1>4 DEF TypeOK

\* A runner in the middle of a call has a job, of a mode in use.
LEMMA BusyFacts ==
  ASSUME Inv, NEW w \in Runner, Busy(w)
  PROVE  /\ job[w] \in Run /\ runMode[job[w]] \in Modes /\ runState[job[w]] # "none"
         /\ batch[w] # {} /\ batch[w] \subseteq Memory
         /\ \A m \in batch[w] : selected[job[w]][m] # 0
BY DEF Inv, TypeOK, RunsInv, ItemsInv

\* The steps that only a state of the whole invariant allows to type.
LEMMA TypeStep ==
  ASSUME ConstantAssumption, Inv, [Next]_vars PROVE TypeOK'
<1> USE DEF ConstantAssumption, Inv, TypeOK, Goto
<1>1. ASSUME NEW m \in Memory, Revise(m) PROVE TypeOK'
  BY <1>1 DEF Revise, Change, runVars, noteVars, proposalVars, runnerVars, historyVars
<1>2. ASSUME NEW m \in Memory, Forget(m) PROVE TypeOK'
  <2>1. Purge(m)
    BY <1>2 DEF Forget
  <2>2. /\ proposal' \in [Proposals -> {"none", "pending", "accepted", "rejected", "undone", "invalidated"}]
        /\ depends' \in [Proposals -> SUBSET Memory] /\ applied' \in [Proposals -> Nat]
        /\ seen' \in [Modes \X Memory -> Nat] /\ skipped' \subseteq Modes \X Memory
    BY <2>1, PurgeTypes
  <2>3. /\ standing' \in [Memory -> {"ordinary", "quarantined", "deleted"}]
        /\ version' \in [Memory -> Nat] /\ written' \in [Memory -> Nat]
        /\ UNCHANGED <<settings, runVars, reserved, runnerVars, historyVars>>
    BY <1>2 DEF Forget, Change
  <2> QED
    BY <2>2, <2>3 DEF runVars, runnerVars, historyVars
<1>3. ASSUME NEW m \in Memory, NEW s \in {"ordinary", "quarantined"}, Review(m, s) PROVE TypeOK'
  <2>1. CASE s = "quarantined"
    <3>1. Purge(m)
      BY <1>3, <2>1 DEF Review
    <3>2. /\ proposal' \in [Proposals -> {"none", "pending", "accepted", "rejected", "undone", "invalidated"}]
          /\ depends' \in [Proposals -> SUBSET Memory] /\ applied' \in [Proposals -> Nat]
          /\ seen' \in [Modes \X Memory -> Nat] /\ skipped' \subseteq Modes \X Memory
      BY <3>1, PurgeTypes
    <3>3. /\ standing' \in [Memory -> {"ordinary", "quarantined", "deleted"}]
          /\ version' \in [Memory -> Nat] /\ written' \in [Memory -> Nat]
          /\ UNCHANGED <<settings, runVars, reserved, runnerVars, historyVars>>
      BY <1>3 DEF Review, Change
    <3> QED
      BY <3>2, <3>3 DEF runVars, runnerVars, historyVars
  <2>2. CASE s = "ordinary"
    BY <1>3, <2>2 DEF Review, Change, runVars, noteVars, proposalVars, runnerVars, historyVars
  <2> QED
    BY <2>1, <2>2
<1>4. ASSUME NEW on \in BOOLEAN, Configure(on) PROVE TypeOK'
  BY <1>4 DEF Configure, memoryVars, proposalVars, runnerVars, historyVars
<1>5. ASSUME NEW r \in Run, NEW mode \in Modes, NEW items \in SUBSET Memory, Queue(r, mode, items),
             chosen' \in {chosen, chosen \cup {r}}
      PROVE  TypeOK'
  BY <1>5 DEF Queue, memoryVars, noteVars, proposalVars, runnerVars, historyVars
<1>6. ASSUME NEW r \in Run, Cancel(r) PROVE TypeOK'
  BY <1>6 DEF Cancel, memoryVars, noteVars, proposalVars, runnerVars, historyVars
<1>7. ASSUME NEW p \in Proposals, Accept(p) \/ Undo(p) PROVE TypeOK'
  <2>1. p[1] \in Run /\ p[2] \in Memory
    BY DEF Proposals
  <2>2. version' \in [Memory -> Nat] /\ applied' \in [Proposals -> Nat]
    <3>1. Rewrite(p)
      BY <1>7 DEF Accept, Undo
    <3>2. \/ UNCHANGED <<version, applied>>
          \/ \E v \in {version[p[2]], version[p[2]] + 1} :
               version' = [version EXCEPT ![p[2]] = v] /\ applied' = [applied EXCEPT ![p] = v]
      BY <3>1 DEF Rewrite
    <3>3. version[p[2]] \in Nat /\ version \in [Memory -> Nat] /\ applied \in [Proposals -> Nat]
      BY <2>1
    <3> HIDE DEF Inv, TypeOK
    <3> QED
      BY <3>2, <3>3
  <2>3. proposal' \in [Proposals -> {"none", "pending", "accepted", "rejected", "undone", "invalidated"}]
    <3>1. proposal' = [proposal EXCEPT ![p] = "accepted"] \/ proposal' = [proposal EXCEPT ![p] = "undone"]
      BY <1>7 DEF Accept, Undo, Decided
    <3> QED
      BY <3>1
  <2> QED
    BY <1>7, <2>2, <2>3 DEF Accept, Undo, Decided, runVars, noteVars, runnerVars, historyVars
<1>8. ASSUME NEW p \in Proposals, Reject(p) PROVE TypeOK'
  BY <1>8 DEF Reject, Decided, runVars, noteVars, runnerVars, historyVars
<1>9. ASSUME NEW w \in Runner, Claim(w) PROVE TypeOK'
  <2> DEFINE queued == {r \in Run : runState[r] = "queued"}
             next == IF SlotTaken THEN {} ELSE {r \in queued : \A q \in queued : r <= q}
  <2>1. next \subseteq Run /\ w # None
    OBVIOUS
  <2>2. next # {} => (CHOOSE r \in next : TRUE) \in Run
    BY <2>1
  <2>3. /\ runState' = [r \in Run |-> IF r \in Interrupted THEN "failed"
                                      ELSE IF r \in next THEN "running" ELSE runState[r]]
        /\ lease' = [r \in Run |-> IF r \in Interrupted THEN None
                                   ELSE IF r \in next THEN w ELSE lease[r]]
        /\ leaseLive' = leaseLive \cup next
        /\ job' = [job EXCEPT ![w] = IF next = {} THEN 0 ELSE CHOOSE r \in next : TRUE]
    BY <1>9 DEF Claim
  <2>4. \A r \in next : r \notin Interrupted
    BY DEF Interrupted
  <2> HIDE DEF next
  <2>5. leaseLive' \subseteq {r \in Run : lease'[r] # None}
    BY <2>1, <2>3, <2>4 DEF Interrupted
  <2>6. /\ runState' \in [Run -> {"none", "queued", "running", "completed", "failed", "cancelled"}]
        /\ lease' \in [Run -> Runner \cup {None}] /\ job' \in [Runner -> Run \cup {0}]
    BY <2>2, <2>3
  <2> QED
    BY <1>9, <2>5, <2>6 DEF Claim, memoryVars, noteVars, proposalVars, historyVars
<1>10. ASSUME NEW w \in Runner, NEW items \in SUBSET Memory, Pick(w, items) PROVE TypeOK'
  BY <1>10 DEF Pick, memoryVars, runVars, noteVars, proposalVars, historyVars
<1>11. ASSUME NEW w \in Runner, Finish(w) PROVE TypeOK'
  <2>1. job[w] \in Run /\ Completes(w)
    BY <1>11 DEF Finish
  <2>2. /\ runState' \in [Run -> {"none", "queued", "running", "completed", "failed", "cancelled"}]
        /\ lease' \in [Run -> Runner \cup {None}]
        /\ leaseLive' \subseteq {r \in Run : lease'[r] # None}
        /\ job' \in [Runner -> Run \cup {0}] /\ asked' \in [Runner -> SUBSET Memory]
    BY <2>1, CompletesTypes
  <2> QED
    BY <1>11, <2>2 DEF Finish, memoryVars, noteVars, proposalVars, historyVars
<1>12. ASSUME NEW w \in Runner, SkipTooLarge(w) PROVE TypeOK'
  <2>1. job[w] \in Run /\ runMode[job[w]] \in Modes
    BY <1>12, BusyFacts DEF SkipTooLarge, Busy
  <2>2. seen' \in [Modes \X Memory -> Nat] /\ skipped' \subseteq Modes \X Memory
    BY <1>12, <2>1, ObserveTypes DEF SkipTooLarge
  <2>3. passedOver' \subseteq Modes \X Memory
    <3>1. Marks(w) \subseteq Modes \X Memory
      BY <2>1 DEF Marks
    <3> QED
      BY <1>12, <3>1 DEF SkipTooLarge
  <2> QED
    BY <1>12, <2>2, <2>3 DEF SkipTooLarge, memoryVars, proposalVars
<1>13. ASSUME NEW w \in Runner, Reserve(w) PROVE TypeOK'
  <2>1. job[w] \in Run /\ runMode[job[w]] \in Modes
    BY <1>13, BusyFacts DEF Reserve, Busy
  <2>2. seen' \in [Modes \X Memory -> Nat] /\ skipped' \subseteq Modes \X Memory
    BY <1>13, <2>1, ObserveTypes DEF Reserve
  <2>3. charged' \in [Modes \X Memory -> Nat] /\ passedOver' \subseteq Modes \X Memory
        /\ UNCHANGED <<asked, chosen>>
    BY <1>13, <2>1 DEF Reserve, Charge
  <2> QED
    BY <1>13, <2>2, <2>3 DEF Reserve, memoryVars, runVars, proposalVars
<1>14. ASSUME NEW w \in Runner, Call(w) PROVE TypeOK'
  BY <1>14 DEF Call, memoryVars, runVars, noteVars, proposalVars
<1>15. ASSUME NEW w \in Runner, NEW about \in SUBSET Memory, Apply(w, about) PROVE TypeOK'
  <2>1. job[w] \in Run /\ runMode[job[w]] \in Modes
    BY <1>15, BusyFacts DEF Apply, Busy
  <2>2. seen' \in [Modes \X Memory -> Nat] /\ skipped' \subseteq Modes \X Memory
    BY <1>15, <2>1, ObserveTypes DEF Apply
  <2>3. /\ runState' \in [Run -> {"none", "queued", "running", "completed", "failed", "cancelled"}]
        /\ lease' \in [Run -> Runner \cup {None}]
        /\ leaseLive' \subseteq {r \in Run : lease'[r] # None}
        /\ job' \in [Runner -> Run \cup {0}] /\ asked' \in [Runner -> SUBSET Memory]
    <3>1. Completes(w) \/ UNCHANGED <<runState, lease, leaseLive, job, asked>>
      BY <1>15 DEF Apply
    <3> QED
      BY <2>1, <3>1, CompletesTypes
  <2>4. /\ proposal' \in [Proposals -> {"none", "pending", "accepted", "rejected", "undone", "invalidated"}]
        /\ depends' \in [Proposals -> SUBSET Memory]
        /\ todo' \in [Run -> SUBSET Memory] /\ batch' \in [Runner -> SUBSET Memory]
        /\ step' \in [Runner -> {"idle", "picked", "reserved", "answered", "failing"}]
    BY <1>15 DEF Apply
  <2> QED
    BY <1>15, <2>2, <2>3, <2>4 DEF Apply, memoryVars, historyVars
<1>16. ASSUME NEW w \in Runner, Fails(w) PROVE TypeOK'
  BY <1>16 DEF Fails, memoryVars, runVars, noteVars, proposalVars, historyVars
<1>17. ASSUME NEW w \in Runner, RecordFailure(w) PROVE TypeOK'
  BY <1>17 DEF RecordFailure, memoryVars, noteVars, proposalVars, historyVars
<1>18. ASSUME NEW w \in Runner, FailureUnrecorded(w) PROVE TypeOK'
  BY <1>18 DEF FailureUnrecorded, memoryVars, runVars, noteVars, proposalVars, historyVars
<1>19. ASSUME NEW w \in Runner, Crash(w) PROVE TypeOK'
  BY <1>19 DEF Crash, memoryVars, runVars, noteVars, proposalVars, historyVars
<1>20. ASSUME NEW r \in Run, LeaseExpires(r) PROVE TypeOK'
  BY <1>20 DEF LeaseExpires, memoryVars, noteVars, proposalVars, runnerVars, historyVars
<1>21. CASE NextDay
  BY <1>21 DEF NextDay, memoryVars, runVars, noteVars, proposalVars, runnerVars, historyVars
<1>22. CASE UNCHANGED vars
  BY <1>22 DEF vars, memoryVars, runVars, noteVars, proposalVars, runnerVars, historyVars
<1> USE DEF ConstantAssumption
<1> HIDE DEF Inv, TypeOK, Goto
<1>23. ASSUME People PROVE TypeOK'
  BY <1>1, <1>2, <1>3, <1>4, <1>5, <1>6, <1>7, <1>8, <1>23 DEF People, CreateRun, Sweep, Unseen
<1>24. ASSUME NEW w \in Runner, Works(w) PROVE TypeOK'
  BY <1>10, <1>11, <1>12, <1>13, <1>14, <1>15, <1>16, <1>24 DEF Works
<1> QED
  BY <1>9, <1>17, <1>18, <1>19, <1>20, <1>21, <1>22, <1>23, <1>24 DEF Next

(***************************************************************************)
(* What the operators leave alone.                                         *)
(***************************************************************************)

\* A run that ends was not none, and no run starts or gets a runner.
LEMMA CompletesFacts ==
  ASSUME TypeOK, RunsInv, NEW w \in Runner, job[w] \in Run, Completes(w)
  PROVE  /\ \A r \in Run : Active(r)' => Active(r)
         /\ \A r \in Run : runState[r] = "none" <=> runState'[r] = "none"
         /\ \A u \in Runner : job'[u] = job[u] \/ job'[u] = 0
<1>1. runState[job[w]] # "none"
  BY DEF RunsInv, Run
<1>2. runState' = [runState EXCEPT ![job[w]] = "completed"] /\ job' = [job EXCEPT ![w] = 0]
  BY DEF Completes
<1> QED
  BY <1>1, <1>2 DEF TypeOK, Active

LEMMA ClaimFacts ==
  ASSUME TypeOK, NEW w \in Runner, Claim(w)
  PROVE  /\ \A r \in Run : Active(r)' => Active(r)
         /\ \A r \in Run : runState[r] = "none" <=> runState'[r] = "none"
         /\ \A u \in Runner : u # w => job'[u] = job[u]
         /\ job'[w] # 0 => job'[w] \in Run /\ runState[job'[w]] # "none"
<1> DEFINE queued == {r \in Run : runState[r] = "queued"}
           next == IF SlotTaken THEN {} ELSE {r \in queued : \A q \in queued : r <= q}
<1>1. /\ runState' = [r \in Run |-> IF r \in Interrupted THEN "failed"
                                    ELSE IF r \in next THEN "running" ELSE runState[r]]
      /\ job' = [job EXCEPT ![w] = IF next = {} THEN 0 ELSE CHOOSE r \in next : TRUE]
  BY DEF Claim
<1>2. \A r \in next : r \in Run /\ runState[r] = "queued"
  OBVIOUS
<1>3. \A r \in Interrupted : r \in Run /\ runState[r] = "running"
  BY DEF Interrupted
<1> HIDE DEF next
<1>4. next # {} => (CHOOSE r \in next : TRUE) \in next
  OBVIOUS
<1>5. \A r \in Run : Active(r)' => Active(r)
  BY <1>1, <1>2, <1>3 DEF Active
<1>6. \A r \in Run : runState[r] = "none" <=> runState'[r] = "none"
  BY <1>1, <1>2, <1>3
<1> QED
  BY <1>1, <1>2, <1>4, <1>5, <1>6 DEF TypeOK

\* Which steps create no run: all of them but those that start one.
Starts == \E r \in Run, mode \in Modes :
             (\E items \in SUBSET Memory : CreateRun(r, mode, items)) \/ Sweep(r, mode)

LEMMA StartsQueue ==
  ASSUME Starts
  PROVE  \E r \in Run, mode \in Modes, items \in SUBSET Memory : Queue(r, mode, items)
<1>1. \A mode : Unseen(mode) \subseteq Memory
  BY DEF Unseen
<1> QED
  BY <1>1 DEF Starts, CreateRun, Sweep

LEMMA RunsFrame ==
  ASSUME Inv, [Next]_vars, ~Starts
  PROVE  /\ \A r \in Run : Active(r)' => Active(r)
         /\ \A r \in Run : runState[r] = "none" <=> runState'[r] = "none"
         /\ \A w \in Runner : job'[w] # 0 => job'[w] \in Run /\ runState[job'[w]] # "none"
         /\ UNCHANGED <<runMode, selected>>
<1> DEFINE Kept == /\ \A r \in Run : Active(r)' => Active(r)
                   /\ \A r \in Run : runState[r] = "none" <=> runState'[r] = "none"
                   /\ \A w \in Runner : job'[w] # 0 => job'[w] \in Run /\ runState[job'[w]] # "none"
                   /\ UNCHANGED <<runMode, selected>>
<1> USE DEF Inv, TypeOK, Active
<1>0. \A w \in Runner : job[w] # 0 => job[w] \in Run /\ runState[job[w]] # "none"
  BY DEF RunsInv
<1>1. ASSUME UNCHANGED <<runState, runMode, selected, job>> PROVE Kept
  BY <1>0, <1>1
<1>2. ASSUME NEW m \in Memory, Revise(m) \/ Forget(m) \/ \E s \in {"ordinary", "quarantined"} : Review(m, s)
      PROVE  Kept
  BY <1>1, <1>2 DEF Revise, Forget, Review, Change, runVars, runnerVars
<1>3. ASSUME NEW on \in BOOLEAN, Configure(on) PROVE Kept
  BY <1>0, <1>3 DEF Configure, runnerVars
<1>4. ASSUME NEW r \in Run, Cancel(r) PROVE Kept
  BY <1>0, <1>4 DEF Cancel, runnerVars
<1>5. ASSUME NEW p \in Proposals, Accept(p) \/ Reject(p) \/ Undo(p) PROVE Kept
  BY <1>1, <1>5 DEF Accept, Reject, Undo, Decided, runVars, runnerVars
<1>6. ASSUME NEW w \in Runner, Claim(w) PROVE Kept
  <2>1. /\ \A r \in Run : Active(r)' => Active(r)
        /\ \A r \in Run : runState[r] = "none" <=> runState'[r] = "none"
        /\ \A u \in Runner : u # w => job'[u] = job[u]
        /\ job'[w] # 0 => job'[w] \in Run /\ runState[job'[w]] # "none"
    <3> HIDE DEF Active
    <3> QED
      BY <1>6, ClaimFacts
  <2>2. UNCHANGED <<runMode, selected>>
    BY <1>6 DEF Claim
  <2> QED
    BY <1>0, <2>1, <2>2
<1>7. ASSUME NEW w \in Runner, Finish(w) PROVE Kept
  BY <1>0, <1>7, CompletesFacts DEF Finish
<1>8. ASSUME NEW w \in Runner, NEW about \in SUBSET Memory, Apply(w, about) PROVE Kept
  <2>1. job[w] \in Run
    BY <1>8, BusyFacts DEF Apply, Busy
  <2>2. (Completes(w) \/ UNCHANGED <<runState, lease, leaseLive, job, asked>>) /\ UNCHANGED <<runMode, selected>>
    BY <1>8 DEF Apply
  <2> QED
    BY <1>0, <2>1, <2>2, CompletesFacts
<1>9. ASSUME NEW w \in Runner, RecordFailure(w) PROVE Kept
  BY <1>0, <1>9 DEF RecordFailure
<1>10. ASSUME NEW w \in Runner, Crash(w) PROVE Kept
  BY <1>0, <1>10 DEF Crash, runVars
<1>11. ASSUME NEW w \in Runner,
              \/ \E items \in SUBSET Memory : Pick(w, items)
              \/ SkipTooLarge(w) \/ Reserve(w) \/ Call(w) \/ Fails(w) \/ FailureUnrecorded(w)
       PROVE  Kept
  BY <1>1, <1>11 DEF Pick, SkipTooLarge, Reserve, Call, Fails, FailureUnrecorded, runVars
<1>12. ASSUME (\E r \in Run : LeaseExpires(r)) \/ NextDay \/ UNCHANGED vars PROVE Kept
  BY <1>1, <1>12 DEF LeaseExpires, NextDay, vars, runVars, runnerVars
<1> HIDE DEF Inv, TypeOK, Active, Kept
<1>13. ASSUME People PROVE Kept
  BY <1>2, <1>3, <1>4, <1>5, <1>13 DEF People, Starts
<1>14. ASSUME NEW w \in Runner, Works(w) PROVE Kept
  BY <1>7, <1>8, <1>11, <1>14 DEF Works
<1>15. Kept
  BY <1>6, <1>9, <1>10, <1>11, <1>12, <1>13, <1>14 DEF Next
<1> QED
  BY <1>15 DEF Kept

\* A run is created when no other is active.
LEMMA QueueFacts ==
  ASSUME Inv, NEW r \in Run, NEW mode \in Modes, NEW items \in SUBSET Memory, Queue(r, mode, items)
  PROVE  /\ \A q \in Run : ~Active(q)
         /\ \A q \in Run : q < r => runState[q] # "none"
         /\ runState[r] = "none"
         /\ \A q \in Run : q > r => runState[q] = "none"
BY DEF Inv, RunsInv, Queue, Active, Run

(***************************************************************************)
(* RunsInv and ItemsInv.                                                   *)
(***************************************************************************)

LEMMA RunsStep ==
  ASSUME Inv, [Next]_vars PROVE RunsInv'
<1>1. CASE Starts
  <2>1. PICK r \in Run, mode \in Modes, items \in SUBSET Memory : Queue(r, mode, items)
    BY <1>1, StartsQueue
  <2>2. /\ \A q \in Run : ~Active(q)
        /\ \A q \in Run : q < r => runState[q] # "none"
        /\ \A q \in Run : q > r => runState[q] = "none"
        /\ runState[r] = "none"
    BY <2>1, QueueFacts
  <2>3. /\ runState' = [runState EXCEPT ![r] = IF items = {} THEN "completed" ELSE "queued"]
        /\ runMode' = [runMode EXCEPT ![r] = mode] /\ job' = job
    BY <2>1 DEF Queue, runnerVars
  <2>4. \A q, s \in Run : Active(q)' /\ Active(s)' => q = s
    BY <2>2, <2>3 DEF Active, Inv, TypeOK
  <2>5. \A q, s \in Run : q < s /\ runState'[s] # "none" => runState'[q] # "none"
    BY <2>2, <2>3 DEF Inv, TypeOK, RunsInv, Run
  <2>6. \A s \in Run : runState'[s] # "none" => runMode'[s] \in Modes
    BY <2>3 DEF Inv, TypeOK, RunsInv
  <2>7. \A w \in Runner : job'[w] # 0 => runState'[job'[w]] # "none"
    BY <2>3 DEF Inv, TypeOK, RunsInv
  <2> QED
    BY <2>4, <2>5, <2>6, <2>7 DEF RunsInv
<1>2. CASE ~Starts
  BY <1>2, RunsFrame DEF Inv, RunsInv
<1> QED
  BY <1>1, <1>2

\* Which steps leave a call, or end it: all but the one that picks its items.
LEMMA ItemsKept ==
  ASSUME Inv, UNCHANGED selected,
         \A r \in Run : todo'[r] \subseteq todo[r],
         \A w \in Runner : Busy(w)' => Busy(w) /\ job'[w] = job[w] /\ batch'[w] = batch[w]
  PROVE  ItemsInv'
BY DEF Inv, ItemsInv

LEMMA ItemsStep ==
  ASSUME Inv, [Next]_vars PROVE ItemsInv'
<1> USE DEF TypeOK, Busy, Goto
<1>0. TypeOK /\ \A w \in Runner : job[w] = 0 => step[w] \in {"idle", "failing"}
  BY DEF Inv, ItemsInv
<1>1. ASSUME UNCHANGED <<selected, todo, job, step, batch>> PROVE ItemsInv'
  BY <1>1, ItemsKept
<1>2. ASSUME NEW m \in Memory, Revise(m) \/ Forget(m) \/ \E s \in {"ordinary", "quarantined"} : Review(m, s)
      PROVE  ItemsInv'
  BY <1>1, <1>2 DEF Revise, Forget, Review, Change, runVars, runnerVars
<1>3. ASSUME NEW on \in BOOLEAN, Configure(on) PROVE ItemsInv'
  BY <1>1, <1>3 DEF Configure, runnerVars
<1>4. ASSUME NEW r \in Run, NEW mode \in Modes, NEW items \in SUBSET Memory, Queue(r, mode, items)
      PROVE  ItemsInv'
  <2>1. /\ selected' = [selected EXCEPT ![r] = [m \in Memory |-> IF m \in items THEN version[m] ELSE 0]]
        /\ todo' = [todo EXCEPT ![r] = items] /\ UNCHANGED <<job, step, batch>> /\ runState[r] = "none"
    BY <1>4 DEF Queue, runnerVars
  <2>2. \A m \in Memory : version[m] # 0
    BY DEF Inv, VersionInv
  <2>3. \A w \in Runner : Busy(w) => job[w] \in Run /\ job[w] # r
    BY <2>1 DEF Inv, RunsInv, ItemsInv
  <2>4. \A q \in Run : \A m \in todo'[q] : selected'[q][m] # 0
    BY <1>0, <2>1, <2>2 DEF Inv, ItemsInv
  <2>5. ASSUME NEW w \in Runner, Busy(w)'
        PROVE  job'[w] # 0 /\ batch'[w] # {} /\ \A m \in batch'[w] : selected'[job'[w]][m] # 0
    <3>1. Busy(w) /\ job'[w] = job[w] /\ batch'[w] = batch[w] /\ selected'[job[w]] = selected[job[w]]
      BY <1>0, <2>1, <2>3, <2>5
    <3> QED
      BY <3>1 DEF Inv, ItemsInv
  <2> QED
    BY <2>4, <2>5 DEF ItemsInv
<1>5. ASSUME NEW r \in Run, Cancel(r) PROVE ItemsInv'
  BY <1>1, <1>5 DEF Cancel, runnerVars
<1>6. ASSUME NEW p \in Proposals, Accept(p) \/ Reject(p) \/ Undo(p) PROVE ItemsInv'
  BY <1>1, <1>6 DEF Accept, Reject, Undo, Decided, runVars, runnerVars
<1>7. ASSUME NEW w \in Runner, Claim(w) PROVE ItemsInv'
  <2>1. job[w] = 0 /\ \A u \in Runner : u # w => job'[u] = job[u]
    BY <1>0, <1>7, ClaimFacts DEF Claim
  <2> QED
    BY <1>0, <1>7, <2>1, ItemsKept DEF Claim
<1>8. ASSUME NEW w \in Runner, NEW items \in SUBSET Memory, Pick(w, items) PROVE ItemsInv'
  <2>1. /\ job[w] \in Run /\ items # {} /\ items \subseteq todo[job[w]]
        /\ batch' = [batch EXCEPT ![w] = items] /\ step' = [step EXCEPT ![w] = "picked"]
        /\ UNCHANGED <<selected, todo, job>>
    BY <1>0, <1>8 DEF Pick, runVars
  <2>2. ASSUME NEW u \in Runner, Busy(u)'
        PROVE  job'[u] # 0 /\ batch'[u] # {} /\ \A m \in batch'[u] : selected'[job'[u]][m] # 0
    <3>1. CASE u = w
      <4>1. batch'[w] = items /\ job'[w] = job[w] /\ job[w] # 0
        BY <1>0, <1>8, <2>1 DEF Pick
      <4> QED
        BY <2>1, <3>1, <4>1 DEF Inv, ItemsInv
    <3>2. CASE u # w
      <4>1. Busy(u) /\ job'[u] = job[u] /\ batch'[u] = batch[u]
        BY <1>0, <2>1, <2>2, <3>2
      <4> QED
        BY <2>1, <4>1 DEF Inv, ItemsInv
    <3> QED
      BY <3>1, <3>2
  <2> QED
    BY <2>1, <2>2 DEF Inv, ItemsInv
<1>9. ASSUME NEW w \in Runner, Finish(w) PROVE ItemsInv'
  BY <1>0, <1>9, ItemsKept DEF Finish, Completes
<1>10. ASSUME NEW w \in Runner, SkipTooLarge(w) PROVE ItemsInv'
  BY <1>0, <1>10, ItemsKept DEF SkipTooLarge
<1>11. ASSUME NEW w \in Runner, Reserve(w) \/ Call(w) PROVE ItemsInv'
  BY <1>0, <1>11, ItemsKept DEF Reserve, Call, runVars
<1>12. ASSUME NEW w \in Runner, NEW about \in SUBSET Memory, Apply(w, about) PROVE ItemsInv'
  <2>1. /\ todo' = [todo EXCEPT ![job[w]] = todo[job[w]] \ batch[w]]
        /\ step' = [step EXCEPT ![w] = "idle"] /\ batch' = [batch EXCEPT ![w] = {}]
        /\ UNCHANGED selected
    BY <1>12 DEF Apply
  <2>2. \A u \in Runner : u # w => job'[u] = job[u]
    BY <1>0, <1>12 DEF Apply, Completes
  <2> QED
    BY <1>0, <2>1, <2>2, ItemsKept
<1>13. ASSUME NEW w \in Runner, Fails(w) \/ FailureUnrecorded(w) \/ Crash(w) PROVE ItemsInv'
  BY <1>0, <1>13, ItemsKept DEF Fails, FailureUnrecorded, Crash, runVars
<1>14. ASSUME NEW w \in Runner, RecordFailure(w) PROVE ItemsInv'
  BY <1>0, <1>14, ItemsKept DEF RecordFailure
<1>15. ASSUME (\E r \in Run : LeaseExpires(r)) \/ NextDay \/ UNCHANGED vars PROVE ItemsInv'
  BY <1>1, <1>15 DEF LeaseExpires, NextDay, vars, runVars, runnerVars
<1> HIDE DEF TypeOK, Busy, Goto
<1>16. ASSUME People PROVE ItemsInv'
  BY <1>2, <1>3, <1>4, <1>5, <1>6, <1>16 DEF People, CreateRun, Sweep, Unseen
<1>17. ASSUME NEW w \in Runner, Works(w) PROVE ItemsInv'
  BY <1>8, <1>9, <1>10, <1>11, <1>12, <1>13, <1>17 DEF Works
<1> QED
  BY <1>7, <1>13, <1>14, <1>15, <1>16, <1>17 DEF Next

(***************************************************************************)
(* VersionInv.                                                             *)
(***************************************************************************)

\* Versions only grow.
LEMMA VersionsKept ==
  ASSUME Inv, UNCHANGED <<charged, selected, runMode>>, version' \in [Memory -> Nat],
         \A r \in Run : Active(r)' => Active(r),
         \A m \in Memory : written'[m] <= version'[m],
         \A m \in Memory : version'[m] > version[m] \/ version'[m] = version[m]
  PROVE  VersionInv'
<1>0. version \in [Memory -> Nat]
  BY DEF Inv, TypeOK
<1>1. \A m \in Memory : version[m] \in Nat /\ version'[m] \in Nat /\ version[m] <= version'[m]
  BY <1>0
<1>2. \A o \in Modes \X Memory : charged[o] \in Nat /\ o[2] \in Memory
  BY DEF Inv, TypeOK
<1>3. \A r \in Run, m \in Memory : selected[r][m] \in Nat
  BY DEF Inv, TypeOK
<1>4. \A m \in Memory : version'[m] # 0
  BY <1>1 DEF Inv, VersionInv
<1>5. \A o \in Modes \X Memory : charged[o] <= version'[o[2]]
  BY <1>1, <1>2 DEF Inv, VersionInv
<1>6. \A r \in Run : \A m \in Memory : selected[r][m] <= version'[m]
  BY <1>1, <1>3 DEF Inv, VersionInv
<1> QED
  BY <1>4, <1>5, <1>6 DEF Inv, VersionInv

\* A call's items are charged as they were selected, in the active run.
LEMMA VersionsCharged ==
  ASSUME Inv, NEW w \in Runner, Busy(w), Live(w), Charge(w),
         UNCHANGED <<selected, runMode, memoryVars>>,
         \A r \in Run : Active(r)' => Active(r)
  PROVE  VersionInv'
<1> DEFINE r == job[w]
           marks == Marks(w)
<1>1. /\ r \in Run /\ runMode[r] \in Modes /\ batch[w] \subseteq Memory
      /\ \A m \in batch[w] : selected[r][m] # 0
  BY BusyFacts
<1>2. Active(r)
  BY DEF Live, Active
<1>4. \A o \in marks : o \in Modes \X Memory /\ o[1] = runMode[r] /\ o[2] \in batch[w]
  BY <1>1 DEF Marks
<1>6. charged' = [o \in Modes \X Memory |-> IF o \in marks THEN selected[r][o[2]] ELSE charged[o]]
  BY DEF Charge
<1>7. \A m \in batch[w] : charged[<<runMode[r], m>>] <= selected[r][m]
  BY <1>1, <1>2 DEF Inv, VersionInv
<1>8. \A o \in marks : charged[o] <= selected[r][o[2]] /\ selected[r][o[2]] <= version[o[2]]
  BY <1>1, <1>4, <1>7 DEF Inv, VersionInv
<1>9. \A o \in Modes \X Memory : charged[o] \in Nat /\ o[2] \in Memory /\ version[o[2]] \in Nat
                                 /\ selected[r][o[2]] \in Nat
  BY <1>1 DEF Inv, TypeOK
<1> HIDE DEF marks
<1>10. \A o \in Modes \X Memory : charged'[o] <= version[o[2]]
  BY <1>6, <1>8 DEF Inv, VersionInv
<1>11. ASSUME NEW q \in Run, NEW m \in Memory, Active(q)', selected[q][m] # 0
       PROVE  charged'[<<runMode[q], m>>] <= selected[q][m]
  <2>1. q = r /\ <<runMode[q], m>> \in Modes \X Memory
    BY <1>1, <1>2, <1>11 DEF Inv, RunsInv
  <2>2. charged[<<runMode[q], m>>] <= selected[q][m]
    BY <1>11, <2>1, <1>2 DEF Inv, VersionInv
  <2> QED
    BY <1>6, <1>9, <2>1, <2>2
<1> QED
  BY <1>10, <1>11 DEF Inv, VersionInv, memoryVars

LEMMA VersionStep ==
  ASSUME ConstantAssumption, Inv, [Next]_vars PROVE VersionInv'
<1>0. version' \in [Memory -> Nat] /\ TypeOK /\ VersionInv
  BY TypeStep DEF Inv, TypeOK
<1>00. /\ version \in [Memory -> Nat] /\ written \in [Memory -> Nat]
       /\ \A m \in Memory : written[m] <= version[m]
  BY <1>0 DEF TypeOK, VersionInv
<1>1. ASSUME UNCHANGED <<charged, selected, runMode, memoryVars>>, \A r \in Run : Active(r)' => Active(r)
      PROVE  VersionInv'
  BY <1>0, <1>00, <1>1, VersionsKept DEF memoryVars
<1>2. ASSUME NEW m \in Memory, Revise(m) \/ Forget(m) \/ \E s \in {"ordinary", "quarantined"} : Review(m, s)
      PROVE  VersionInv'
  <2>1. /\ UNCHANGED <<charged, selected, runMode, runState>>
        /\ version' = [version EXCEPT ![m] = @ + 1] /\ written' = [written EXCEPT ![m] = version[m] + 1]
    BY <1>2 DEF Revise, Forget, Review, Change, runVars, historyVars
  <2>4. \A n \in Memory : written'[n] <= version'[n]
    BY <1>00, <2>1
  <2>5. version'[m] > version[m] /\ \A n \in Memory \ {m} : version'[n] = version[n]
    BY <1>00, <2>1
  <2>6. \A r \in Run : Active(r)' => Active(r)
    BY <2>1 DEF Active
  <2> QED
    BY <1>0, <2>1, <2>4, <2>5, <2>6, VersionsKept
<1>3. ASSUME NEW on \in BOOLEAN, Configure(on) PROVE VersionInv'
  <2>1. UNCHANGED <<charged, selected, runMode, memoryVars>> /\ \A r \in Run : ~Active(r)'
    BY <1>3 DEF Configure, Active, historyVars
  <2> QED
    BY <1>1, <2>1
<1>4. ASSUME NEW r \in Run, NEW mode \in Modes, NEW items \in SUBSET Memory, Queue(r, mode, items)
      PROVE  VersionInv'
  <2>1. /\ selected' = [selected EXCEPT ![r] = [m \in Memory |-> IF m \in items THEN version[m] ELSE 0]]
        /\ runMode' = [runMode EXCEPT ![r] = mode]
        /\ UNCHANGED <<memoryVars, charged>>
        /\ \A q \in Run \ {r} : runState'[q] = runState[q]
    BY <1>0, <1>4 DEF Queue, historyVars, noteVars, TypeOK
  <2>2. \A q \in Run \ {r} : ~Active(q)'
    BY <1>4, <2>1, QueueFacts DEF Active
  <2>3. selected \in [Run -> [Memory -> Nat]] /\ runMode \in [Run -> Modes \cup {"none"}]
    BY <1>0 DEF TypeOK
  <2>4. \A q \in Run : \A m \in Memory : selected'[q][m] <= version[m]
    BY <1>0, <1>00, <2>1, <2>3 DEF VersionInv
  <2>5. \A m \in Memory : selected'[r][m] # 0 => charged[<<runMode'[r], m>>] <= selected'[r][m]
    <3>1. \A m \in Memory : charged[<<mode, m>>] <= version[m]
      BY <1>0 DEF VersionInv
    <3> QED
      BY <2>1, <2>3, <3>1
  <2> QED
    BY <1>0, <2>1, <2>2, <2>4, <2>5 DEF VersionInv, memoryVars
<1>5. ASSUME NEW p \in Proposals, Accept(p) \/ Undo(p) PROVE VersionInv'
  <2>1. UNCHANGED <<written, charged, selected, runMode, runState>> /\ Rewrite(p)
    BY <1>5 DEF Accept, Undo, Decided, runVars, historyVars, noteVars
  <2>2. \/ version' = version
        \/ \E v \in {version[p[2]], version[p[2]] + 1} : version' = [version EXCEPT ![p[2]] = v]
    BY <2>1 DEF Rewrite
  <2>3. p[2] \in Memory
    BY DEF Proposals
  <2>4. \A m \in Memory : version'[m] = version[m] \/ version'[m] = version[m] + 1
    BY <1>00, <2>2, <2>3
  <2>5. \A m \in Memory : version'[m] > version[m] \/ version'[m] = version[m]
    BY <1>00, <2>4
  <2>6. \A m \in Memory : written'[m] <= version'[m]
    BY <1>00, <2>1, <2>4
  <2>7. \A r \in Run : Active(r)' => Active(r)
    BY <2>1 DEF Active
  <2> QED
    BY <1>0, <2>1, <2>5, <2>6, <2>7, VersionsKept
<1>6. ASSUME ~Starts, UNCHANGED <<charged, memoryVars>> PROVE VersionInv'
  BY <1>1, <1>6, RunsFrame
<1>7. ASSUME ~Starts, NEW w \in Runner, Reserve(w) PROVE VersionInv'
  <2>1. Busy(w) /\ Live(w) /\ Charge(w) /\ UNCHANGED memoryVars
    BY <1>7 DEF Reserve, Busy
  <2> QED
    BY <1>7, <2>1, RunsFrame, VersionsCharged
<1>9. CASE Starts
  BY <1>4, <1>9, StartsQueue
<1> SUFFICES ASSUME ~Starts PROVE VersionInv'
  BY <1>9
<1>10. ASSUME NEW w \in Runner,
              \/ Claim(w) \/ (\E items \in SUBSET Memory : Pick(w, items)) \/ Finish(w) \/ SkipTooLarge(w)
              \/ Call(w) \/ (\E about \in SUBSET Memory : Apply(w, about)) \/ Fails(w)
              \/ RecordFailure(w) \/ FailureUnrecorded(w) \/ Crash(w)
       PROVE  VersionInv'
  <2>1. UNCHANGED <<charged, memoryVars>>
    BY <1>10 DEF Claim, Pick, Finish, SkipTooLarge, Call, Apply, Fails, RecordFailure, FailureUnrecorded,
       Crash, historyVars
  <2> QED
    BY <1>6, <2>1
<1>11. ASSUME \/ (\E r \in Run : LeaseExpires(r) \/ Cancel(r)) \/ NextDay \/ UNCHANGED vars
              \/ \E p \in Proposals : Reject(p)
       PROVE  VersionInv'
  <2>1. UNCHANGED <<charged, memoryVars>>
    BY <1>11 DEF LeaseExpires, Cancel, NextDay, Reject, Decided, vars, historyVars, memoryVars
  <2> QED
    BY <1>6, <2>1
<1>12. ASSUME People PROVE VersionInv'
  BY <1>2, <1>3, <1>5, <1>11, <1>12 DEF People, Starts
<1>13. ASSUME NEW w \in Runner, Works(w) PROVE VersionInv'
  BY <1>7, <1>10, <1>13 DEF Works
<1> QED
  BY <1>10, <1>11, <1>12, <1>13 DEF Next

(***************************************************************************)
(* CallsInv.                                                               *)
(***************************************************************************)

\* A charge is no longer that of the version, once this has changed.
LEMMA VersionsGrow ==
  ASSUME Inv, UNCHANGED charged, version' \in [Memory -> Nat],
         \A m \in Memory :
            \/ version'[m] > version[m]
            \/ version'[m] = version[m] /\ standing'[m] = standing[m],
         NEW o \in Modes \X Memory, standing'[o[2]] = "ordinary", charged'[o] = version'[o[2]]
  PROVE  version'[o[2]] = version[o[2]] /\ standing[o[2]] = "ordinary" /\ charged[o] = version[o[2]]
<1>1. charged[o] <= version[o[2]] /\ charged[o] \in Nat /\ o[2] \in Memory
  BY DEF Inv, TypeOK, VersionInv
<1>2. version[o[2]] \in Nat /\ version'[o[2]] \in Nat
  BY <1>1 DEF Inv, TypeOK
<1> QED
  BY <1>1, <1>2

\* Steps that charge nothing, mark nothing as skipped and take no observation away
\* but that of a memory whose version changes.
LEMMA CallsKept ==
  ASSUME Inv, UNCHANGED <<charged, chosen, passedOver, selected, runMode>>,
         version' \in [Memory -> Nat], skipped' \subseteq skipped,
         \A m \in Memory :
            \/ version'[m] > version[m]
            \/ /\ version'[m] = version[m] /\ standing'[m] = standing[m]
               /\ \A o \in Modes \X Memory : o[2] = m => seen'[o] = seen[o],
         \A r \in Run : Active(r)' => Active(r) /\ todo'[r] = todo[r],
         \A w \in Runner : Busy(w)' /\ lease'[job'[w]] = w => Whole(w)'
  PROVE  CallsInv'
<1>1. ASSUME NEW r \in Run \ chosen', Active(r)', runMode'[r] = "review", NEW m \in todo'[r],
             charged'[<<"review", m>>] = selected'[r][m], <<"review", m>> \notin passedOver'
      PROVE  Left(r)' \notin TooLarge
  <2>1. Active(r) /\ todo'[r] = todo[r] /\ Left(r)' = Left(r)
    BY <1>1 DEF Left
  <2> QED
    BY <1>1, <2>1 DEF Inv, CallsInv
<1>2. skipped \subseteq Modes \X Memory
  BY DEF Inv, TypeOK
<1>3. ASSUME NEW o \in skipped', standing'[o[2]] = "ordinary", charged'[o] = version'[o[2]]
      PROVE  o[1] = "review" /\ o \in passedOver'
  BY <1>2, <1>3, VersionsGrow DEF Inv, CallsInv
<1>4. ASSUME NEW o \in Modes \X Memory, standing'[o[2]] = "ordinary", charged'[o] = version'[o[2]]
      PROVE  seen'[o] = version'[o[2]] \/ (o[1] = "review" /\ o \in passedOver')
  <2>1. version'[o[2]] = version[o[2]] /\ standing[o[2]] = "ordinary" /\ charged[o] = version[o[2]]
    BY <1>4, VersionsGrow
  <2>2. o[2] \in Memory /\ version[o[2]] \in Nat
    BY DEF Inv, TypeOK
  <2>3. seen'[o] = seen[o]
    BY <2>1, <2>2
  <2> QED
    BY <2>1, <2>3 DEF Inv, CallsInv, ChargedIsRetriedByHand
<1> QED
  BY <1>1, <1>3, <1>4 DEF Inv, CallsInv, ChargedIsRetriedByHand

\* A lease keeps its call: what is left to do changes only with the answer, or with
\* the skipping, of the call that holds the lease.
LEMMA CallsWhole ==
  ASSUME ConstantAssumption, Inv, [Next]_vars, ~Starts
  PROVE  \A w \in Runner : Busy(w)' /\ lease'[job'[w]] = w => Whole(w)'
<1> DEFINE Same(w) == /\ Busy(w) /\ job'[w] = job[w] /\ batch'[w] = batch[w]
                      /\ lease[job[w]] = w /\ todo'[job[w]] = todo[job[w]]
           Kept == \A w \in Runner : Busy(w)' /\ lease'[job'[w]] = w => Same(w)
<1>0. TypeOK /\ UNCHANGED runMode /\ \A w \in Runner : Busy(w) => job[w] \in Run
  BY RunsFrame, BusyFacts DEF Inv
<1>1. ASSUME Kept PROVE \A w \in Runner : Busy(w)' /\ lease'[job'[w]] = w => Whole(w)'
  BY <1>0, <1>1 DEF Inv, CallsInv, Whole, Batch
<1> USE DEF TypeOK, Goto, Busy
<1>2. ASSUME UNCHANGED <<job, batch, step, lease, todo>> PROVE Kept
  BY <1>2
<1>3. ASSUME NEW m \in Memory, Revise(m) \/ Forget(m) \/ \E s \in {"ordinary", "quarantined"} : Review(m, s)
      PROVE  Kept
  BY <1>2, <1>3 DEF Revise, Forget, Review, Change, runVars, runnerVars
<1>4. ASSUME NEW p \in Proposals, Accept(p) \/ Reject(p) \/ Undo(p) PROVE Kept
  BY <1>2, <1>4 DEF Accept, Reject, Undo, Decided, runVars, runnerVars
<1>5. ASSUME \/ (\E on \in BOOLEAN : Configure(on)) \/ (\E r \in Run : LeaseExpires(r) \/ Cancel(r))
             \/ NextDay \/ UNCHANGED vars
      PROVE  Kept
  BY <1>2, <1>5 DEF Configure, LeaseExpires, Cancel, NextDay, vars, runVars, runnerVars
<1>6. ASSUME NEW w \in Runner, Claim(w) PROVE Kept
  <2>1. /\ UNCHANGED <<todo, step, batch>> /\ job[w] = 0
        /\ \A r \in Run : lease'[r] \in {lease[r], None, w}
    BY <1>6 DEF Claim
  <2>2. \A u \in Runner : u # w => job'[u] = job[u]
    BY <1>0, <1>6, ClaimFacts
  <2>3. ~Busy(w)' /\ None \notin Runner
    BY <2>1, BusyFacts DEF Inv, ItemsInv, ConstantAssumption
  <2> QED
    BY <1>0, <2>1, <2>2, <2>3
<1>7. ASSUME NEW w \in Runner, Finish(w) PROVE Kept
  BY <1>0, <1>7 DEF Finish, Completes, ConstantAssumption
<1>8. ASSUME NEW w \in Runner, SkipTooLarge(w) \/ \E about \in SUBSET Memory : Apply(w, about) PROVE Kept
  <2>1. /\ lease[job[w]] = w /\ job[w] \in Run
        /\ todo' = [todo EXCEPT ![job[w]] = @ \ batch[w]]
        /\ step' = [step EXCEPT ![w] = "idle"] /\ batch' = [batch EXCEPT ![w] = {}]
        /\ Completes(w) \/ UNCHANGED <<lease, job>>
    BY <1>0, <1>8 DEF SkipTooLarge, Apply, Live
  <2>2. ASSUME NEW u \in Runner, Busy(u)', lease'[job'[u]] = u PROVE Same(u)
    <3>1. u # w /\ Busy(u) /\ batch'[u] = batch[u] /\ job'[u] = job[u] /\ job[u] \in Run
      BY <1>0, <2>1, <2>2 DEF Completes
    <3>2. lease'[job[u]] = lease[job[u]] \/ lease'[job[u]] = None
      BY <1>0, <2>1, <3>1 DEF Completes
    <3>3. lease[job[u]] = u /\ job[u] # job[w]
      BY <2>1, <2>2, <3>1, <3>2 DEF ConstantAssumption
    <3> QED
      BY <2>1, <3>1, <3>3
  <2> QED
    BY <2>2
<1>9. ASSUME NEW w \in Runner, NEW items \in SUBSET Memory, Pick(w, items)
      PROVE  \A u \in Runner : Busy(u)' /\ lease'[job'[u]] = u => Whole(u)'
  <2>1. /\ Batch(job[w], items) /\ batch' = [batch EXCEPT ![w] = items]
        /\ step' = [step EXCEPT ![w] = "picked"] /\ UNCHANGED <<job, lease, todo>>
    BY <1>9 DEF Pick, runVars
  <2>2. Whole(w)'
    BY <1>0, <2>1 DEF Whole, Batch
  <2>3. ASSUME NEW u \in Runner, u # w, Busy(u)', lease'[job'[u]] = u PROVE Whole(u)'
    <3>1. Same(u)
      BY <2>1, <2>3
    <3> QED
      BY <1>0, <2>3, <3>1 DEF Inv, CallsInv, Whole, Batch
  <2> QED
    BY <2>2, <2>3
<1>10. ASSUME NEW w \in Runner, Reserve(w) \/ Call(w) PROVE Kept
  BY <1>0, <1>10 DEF Reserve, Call, runVars
<1>11. ASSUME NEW w \in Runner, Fails(w) \/ FailureUnrecorded(w) \/ Crash(w) PROVE Kept
  BY <1>0, <1>11 DEF Fails, FailureUnrecorded, Crash, runVars
<1>12. ASSUME NEW w \in Runner, RecordFailure(w) PROVE Kept
  <2>1. /\ step' = [step EXCEPT ![w] = "idle"] /\ job' = [job EXCEPT ![w] = 0] /\ UNCHANGED <<batch, todo>>
        /\ lease' = lease \/ lease' = [lease EXCEPT ![job[w]] = None]
    BY <1>12 DEF RecordFailure
  <2> QED
    BY <1>0, <2>1 DEF ConstantAssumption
<1> HIDE DEF TypeOK, Goto, Busy, Kept
<1> DEFINE Goal == \A u \in Runner : Busy(u)' /\ lease'[job'[u]] = u => Whole(u)'
<1>13. Kept => Goal
  BY <1>1
<1> HIDE DEF Goal
<1>14. ASSUME People PROVE Goal
  BY <1>3, <1>4, <1>5, <1>13, <1>14 DEF People, Starts
<1>15. ASSUME NEW w \in Runner, Works(w) PROVE Goal
  <2>1. (\E items \in SUBSET Memory : Pick(w, items)) => Goal
    BY <1>9 DEF Goal
  <2> QED
    BY <1>7, <1>8, <1>10, <1>11, <1>13, <1>15, <2>1 DEF Works
<1>16. Goal
  BY <1>5, <1>6, <1>11, <1>12, <1>13, <1>14, <1>15 DEF Next
<1> QED
  BY <1>16 DEF Goal

\* The call of a runner that holds the lease: its prompt, and what was charged of it.
LEMMA LiveCall ==
  ASSUME ConstantAssumption, Inv, NEW w \in Runner, Busy(w), Live(w)
  PROVE  LET r == job[w] IN
         /\ r \in Run /\ Active(r) /\ runMode[r] \in {"organize", "review"} \cap Modes
         /\ runMode[r] = "review" => batch[w] = todo[r] /\ Prompt(w) = Left(r)
         /\ runMode[r] = "organize" => \A m \in batch[w] : Prompt(w) = <<"organize", {<<m, selected[r][m]>>}>>
         /\ Marks(w) \subseteq Modes \X Memory
         /\ \A o \in Marks(w) : /\ o[1] = runMode[r] /\ o[2] \in batch[w] /\ o = <<runMode[r], o[2]>>
                                /\ selected[r][o[2]] # 0
                                /\ charged[o] <= selected[r][o[2]] /\ selected[r][o[2]] <= version[o[2]]
<1> DEFINE r == job[w]
<1>1. /\ r \in Run /\ runMode[r] \in Modes /\ batch[w] \subseteq Memory
      /\ \A m \in batch[w] : selected[r][m] # 0
  BY BusyFacts
<1>2. Active(r) /\ lease[r] = w
  BY DEF Live, Active
<1>3. Batch(r, batch[w])
  BY <1>2 DEF Inv, CallsInv, Whole
<1>4. runMode[r] = "review" => batch[w] = todo[r] /\ Prompt(w) = Left(r)
  BY <1>3 DEF Batch, Prompt, Left
<1>5. ASSUME runMode[r] = "organize", NEW m \in batch[w]
      PROVE  Prompt(w) = <<"organize", {<<m, selected[r][m]>>}>>
  <2>1. batch[w] = {m}
    BY <1>3, <1>5 DEF Batch
  <2> QED
    BY <1>5, <2>1 DEF Prompt
<1>6. ASSUME NEW m \in batch[w]
      PROVE  charged[<<runMode[r], m>>] <= selected[r][m] /\ selected[r][m] <= version[m]
  BY <1>1, <1>2, <1>6 DEF Inv, VersionInv
<1>7. Marks(w) \subseteq Modes \X Memory
  BY <1>1 DEF Marks
<1>8. ASSUME NEW o \in Marks(w)
      PROVE  /\ o[1] = runMode[r] /\ o[2] \in batch[w] /\ o = <<runMode[r], o[2]>>
             /\ selected[r][o[2]] # 0
             /\ charged[o] <= selected[r][o[2]] /\ selected[r][o[2]] <= version[o[2]]
  <2>1. PICK m \in batch[w] : o = <<runMode[r], m>>
    BY <1>8 DEF Marks
  <2>2. o[1] = runMode[r] /\ o[2] = m
    BY <2>1
  <2> QED
    BY <1>1, <1>6, <2>1, <2>2
<1>9. runMode[r] \in {"organize", "review"} \cap Modes
  BY <1>1 DEF ConstantAssumption
<1> QED
  BY <1>1, <1>2, <1>4, <1>5, <1>7, <1>8, <1>9

\* A charged version is skipped only in a run whose memories a person named.
LEMMA CallsSkipped ==
  ASSUME ConstantAssumption, Inv, [Next]_vars, ~Starts, NEW w \in Runner, SkipTooLarge(w)
  PROVE  CallsInv'
<1> DEFINE r == job[w]
<1>1. Busy(w) /\ Live(w) /\ Prompt(w) \in TooLarge
  BY DEF SkipTooLarge, Busy
<1>2. /\ r \in Run /\ Active(r) /\ runMode[r] \in {"organize", "review"} \cap Modes
      /\ runMode[r] = "review" => batch[w] = todo[r] /\ Prompt(w) = Left(r)
      /\ runMode[r] = "organize" => \A m \in batch[w] : Prompt(w) = <<"organize", {<<m, selected[r][m]>>}>>
      /\ Marks(w) \subseteq Modes \X Memory
      /\ \A o \in Marks(w) : /\ o[1] = runMode[r] /\ o[2] \in batch[w] /\ o = <<runMode[r], o[2]>>
                             /\ selected[r][o[2]] # 0
                             /\ charged[o] <= selected[r][o[2]] /\ selected[r][o[2]] <= version[o[2]]
  BY <1>1, LiveCall
<1>3. /\ seen' = [o \in Modes \X Memory |-> IF o \in Marks(w) THEN selected[r][o[2]] ELSE seen[o]]
      /\ skipped' = skipped \cup Marks(w)
      /\ todo' = [todo EXCEPT ![r] = @ \ batch[w]]
      /\ passedOver' = IF r \in chosen THEN passedOver \cup Marks(w) ELSE passedOver
      /\ UNCHANGED <<standing, version, charged, chosen, runState, runMode, selected>>
  BY DEF SkipTooLarge, Observe, memoryVars
<1>4. skipped \subseteq Modes \X Memory /\ todo \in [Run -> SUBSET Memory]
      /\ \A o \in Modes \X Memory : charged[o] \in Nat /\ version[o[2]] \in Nat /\ o[2] \in Memory
      /\ \A q \in Run, m \in Memory : selected[q][m] \in Nat
  BY DEF Inv, TypeOK
<1>5. ASSUME NEW o \in Marks(w), charged[o] = version[o[2]]
      PROVE  o[1] = "review" /\ o \in passedOver' /\ seen'[o] = version[o[2]]
  <2>1. charged[o] = selected[r][o[2]] /\ charged[o] # 0
    BY <1>2, <1>4, <1>5
  <2>2. CASE runMode[r] = "organize"
    <3>1. Prompt(w) = <<"organize", {<<o[2], charged[o]>>}>>
      BY <1>2, <2>1, <2>2
    <3> QED
      BY <1>1, <1>2, <2>1, <2>2, <3>1 DEF Inv, CallsInv
  <2>3. CASE runMode[r] = "review"
    <3>1. o[2] \in todo[r] /\ o = <<"review", o[2]>> /\ Left(r) \in TooLarge
      BY <1>1, <1>2, <2>3
    <3>2. r \in chosen \/ o \in passedOver
      BY <1>2, <2>1, <2>3, <3>1 DEF Inv, CallsInv
    <3> QED
      BY <1>2, <1>3, <2>1, <2>3, <3>2, <1>5
  <2> QED
    BY <1>2, <2>2, <2>3
<1>6. ASSUME NEW q \in Run \ chosen', Active(q)', runMode'[q] = "review", NEW m \in todo'[q],
             charged'[<<"review", m>>] = selected'[q][m], <<"review", m>> \notin passedOver'
      PROVE  Left(q)' \notin TooLarge
  <2>1. Active(q) /\ q = r
    BY <1>2, <1>3, <1>6 DEF Active, Inv, RunsInv
  <2>2. todo'[q] = {}
    BY <1>2, <1>3, <1>4, <1>6, <2>1
  <2> QED
    BY <1>6, <2>2
<1>7. ASSUME NEW o \in skipped', standing'[o[2]] = "ordinary", charged'[o] = version'[o[2]]
      PROVE  o[1] = "review" /\ o \in passedOver'
  BY <1>3, <1>5, <1>7 DEF Inv, CallsInv
<1>8. ASSUME NEW o \in Modes \X Memory, standing'[o[2]] = "ordinary", charged'[o] = version'[o[2]]
      PROVE  seen'[o] = version'[o[2]] \/ (o[1] = "review" /\ o \in passedOver')
  BY <1>3, <1>5, <1>8 DEF Inv, CallsInv, ChargedIsRetriedByHand
<1>9. \A u \in Runner : Busy(u)' /\ lease'[job'[u]] = u => Whole(u)'
  BY CallsWhole
<1> QED
  BY <1>3, <1>6, <1>7, <1>8, <1>9 DEF Inv, CallsInv, ChargedIsRetriedByHand

\* What is charged fits its prompt and is noted as attempted.
LEMMA CallsCharged ==
  ASSUME ConstantAssumption, Inv, [Next]_vars, ~Starts, NEW w \in Runner, Reserve(w)
  PROVE  CallsInv'
<1> DEFINE r == job[w]
<1>1. Busy(w) /\ Live(w) /\ Prompt(w) \notin TooLarge
  BY DEF Reserve, Busy
<1>2. /\ r \in Run /\ Active(r) /\ runMode[r] \in {"organize", "review"} \cap Modes
      /\ runMode[r] = "review" => batch[w] = todo[r] /\ Prompt(w) = Left(r)
      /\ runMode[r] = "organize" => \A m \in batch[w] : Prompt(w) = <<"organize", {<<m, selected[r][m]>>}>>
      /\ Marks(w) \subseteq Modes \X Memory
      /\ \A o \in Marks(w) : o[1] = runMode[r] /\ o[2] \in batch[w]
  BY <1>1, LiveCall
<1>3. /\ seen' = [o \in Modes \X Memory |-> IF o \in Marks(w) THEN selected[r][o[2]] ELSE seen[o]]
      /\ skipped' = skipped \ Marks(w)
      /\ charged' = [o \in Modes \X Memory |-> IF o \in Marks(w) THEN selected[r][o[2]] ELSE charged[o]]
      /\ passedOver' = passedOver \ Marks(w)
      /\ UNCHANGED <<standing, version, chosen, runState, runMode, selected, todo>>
  BY DEF Reserve, Charge, Observe, memoryVars, runVars
<1>4. skipped \subseteq Modes \X Memory
  BY DEF Inv, TypeOK
<1>5. ASSUME NEW o \in Modes \X Memory, o[1] = "organize", charged'[o] # 0
      PROVE  <<"organize", {<<o[2], charged'[o]>>}>> \notin TooLarge
  <2>1. CASE o \in Marks(w)
    <3>1. Prompt(w) = <<"organize", {<<o[2], selected[r][o[2]]>>}>>
      BY <1>2, <1>5, <2>1
    <3> QED
      BY <1>1, <1>3, <2>1, <3>1
  <2>2. CASE o \notin Marks(w)
    BY <1>3, <1>5, <2>2 DEF Inv, CallsInv
  <2> QED
    BY <2>1, <2>2
<1>6. ASSUME NEW q \in Run \ chosen', Active(q)', runMode'[q] = "review", NEW m \in todo'[q],
             charged'[<<"review", m>>] = selected'[q][m], <<"review", m>> \notin passedOver'
      PROVE  Left(q)' \notin TooLarge
  <2>1. Active(q) /\ q = r /\ runMode[r] = "review"
    BY <1>2, <1>3, <1>6 DEF Active, Inv, RunsInv
  <2>2. Left(q)' = Left(q)
    BY <1>3 DEF Left
  <2> QED
    BY <1>1, <1>2, <2>1, <2>2
<1>7. ASSUME NEW o \in skipped', standing'[o[2]] = "ordinary", charged'[o] = version'[o[2]]
      PROVE  o[1] = "review" /\ o \in passedOver'
  BY <1>3, <1>4, <1>7 DEF Inv, CallsInv
<1>8. ASSUME NEW o \in Modes \X Memory, standing'[o[2]] = "ordinary", charged'[o] = version'[o[2]]
      PROVE  seen'[o] = version'[o[2]] \/ (o[1] = "review" /\ o \in passedOver')
  BY <1>3, <1>8 DEF Inv, CallsInv, ChargedIsRetriedByHand
<1>9. \A u \in Runner : Busy(u)' /\ lease'[job'[u]] = u => Whole(u)'
  BY CallsWhole
<1> QED
  BY <1>3, <1>5, <1>6, <1>7, <1>8, <1>9 DEF Inv, CallsInv, ChargedIsRetriedByHand

\* An answer's items are noted as completed; in a review they were the last.
LEMMA CallsAnswered ==
  ASSUME ConstantAssumption, Inv, [Next]_vars, ~Starts, NEW w \in Runner,
         NEW about \in SUBSET Memory, Apply(w, about)
  PROVE  CallsInv'
<1> DEFINE r == job[w]
<1>1. Busy(w) /\ Live(w)
  BY DEF Apply, Busy
<1>2. /\ r \in Run /\ Active(r)
      /\ runMode[r] = "review" => batch[w] = todo[r]
      /\ Marks(w) \subseteq Modes \X Memory
      /\ \A o \in Marks(w) : /\ o[2] \in batch[w]
                             /\ charged[o] <= selected[r][o[2]] /\ selected[r][o[2]] <= version[o[2]]
  BY <1>1, LiveCall
<1>3. /\ seen' = [o \in Modes \X Memory |-> IF o \in Marks(w) THEN selected[r][o[2]] ELSE seen[o]]
      /\ skipped' = skipped \ Marks(w)
      /\ todo' = [todo EXCEPT ![r] = @ \ batch[w]]
      /\ UNCHANGED <<standing, version, charged, passedOver, chosen, runMode, selected>>
  BY DEF Apply, Observe, memoryVars
<1>4. skipped \subseteq Modes \X Memory /\ todo \in [Run -> SUBSET Memory]
      /\ \A o \in Modes \X Memory : charged[o] \in Nat /\ version[o[2]] \in Nat /\ o[2] \in Memory
      /\ \A q \in Run, m \in Memory : selected[q][m] \in Nat
  BY DEF Inv, TypeOK
<1>5. \A q \in Run : Active(q)' => Active(q)
  BY RunsFrame
<1>6. ASSUME NEW q \in Run \ chosen', Active(q)', runMode'[q] = "review", NEW m \in todo'[q],
             charged'[<<"review", m>>] = selected'[q][m], <<"review", m>> \notin passedOver'
      PROVE  Left(q)' \notin TooLarge
  <2>1. Active(q) /\ q = r
    BY <1>2, <1>5, <1>6 DEF Inv, RunsInv
  <2>2. todo'[q] = {}
    BY <1>2, <1>3, <1>4, <1>6, <2>1
  <2> QED
    BY <1>6, <2>2
<1>7. ASSUME NEW o \in skipped', standing'[o[2]] = "ordinary", charged'[o] = version'[o[2]]
      PROVE  o[1] = "review" /\ o \in passedOver'
  BY <1>3, <1>7 DEF Inv, CallsInv
<1>8. ASSUME NEW o \in Modes \X Memory, standing'[o[2]] = "ordinary", charged'[o] = version'[o[2]]
      PROVE  seen'[o] = version'[o[2]] \/ (o[1] = "review" /\ o \in passedOver')
  <2>1. CASE o \in Marks(w)
    <3>1. /\ charged[o] <= selected[r][o[2]] /\ selected[r][o[2]] <= version[o[2]]
          /\ selected[r][o[2]] \in Nat /\ version[o[2]] \in Nat
      BY <1>2, <1>4, <2>1
    <3>2. charged[o] = version[o[2]]
      BY <1>3, <1>8
    <3>3. selected[r][o[2]] = version[o[2]]
      BY <3>1, <3>2
    <3> QED
      BY <1>3, <2>1, <3>3
  <2>2. CASE o \notin Marks(w)
    BY <1>3, <1>8, <2>2 DEF Inv, CallsInv, ChargedIsRetriedByHand
  <2> QED
    BY <2>1, <2>2
<1>9. \A u \in Runner : Busy(u)' /\ lease'[job'[u]] = u => Whole(u)'
  BY CallsWhole
<1> QED
  BY <1>3, <1>6, <1>7, <1>8, <1>9 DEF Inv, CallsInv, ChargedIsRetriedByHand

\* Saving the settings forgets what was skipped, which was charged for only if a
\* person had named it.
LEMMA CallsConfigured ==
  ASSUME ConstantAssumption, Inv, [Next]_vars, ~Starts, NEW on \in BOOLEAN, Configure(on)
  PROVE  CallsInv'
<1>1. /\ seen' = [o \in Modes \X Memory |-> IF o \in skipped THEN 0 ELSE seen[o]] /\ skipped' = {}
      /\ UNCHANGED <<standing, version, charged, passedOver>>
      /\ \A r \in Run : ~Active(r)'
  BY DEF Configure, memoryVars, historyVars, Active
<1>2. ASSUME NEW o \in Modes \X Memory, standing'[o[2]] = "ordinary", charged'[o] = version'[o[2]]
      PROVE  seen'[o] = version'[o[2]] \/ (o[1] = "review" /\ o \in passedOver')
  BY <1>1, <1>2 DEF Inv, CallsInv, ChargedIsRetriedByHand
<1>3. \A u \in Runner : Busy(u)' /\ lease'[job'[u]] = u => Whole(u)'
  BY CallsWhole
<1> QED
  BY <1>1, <1>2, <1>3 DEF Inv, CallsInv, ChargedIsRetriedByHand

\* A sweep takes no version that is noted as seen; a person may.
LEMMA CallsStarted ==
  ASSUME ConstantAssumption, Inv, NEW r \in Run, NEW mode \in Modes, NEW items \in SUBSET Memory,
         Queue(r, mode, items),
         \/ chosen' = chosen \cup {r}
         \/ UNCHANGED chosen /\ items \subseteq Unseen(mode)
  PROVE  CallsInv'
<1>1. /\ todo' = [todo EXCEPT ![r] = items] /\ runMode' = [runMode EXCEPT ![r] = mode]
      /\ selected' = [selected EXCEPT ![r] = [m \in Memory |-> IF m \in items THEN version[m] ELSE 0]]
      /\ \A q \in Run \ {r} : runState'[q] = runState[q]
      /\ UNCHANGED <<standing, version, seen, skipped, charged, passedOver, job, step, batch, lease>>
  BY DEF Queue, memoryVars, noteVars, runnerVars, Inv, TypeOK
<1>2. (\A q \in Run : ~Active(q)) /\ runState[r] = "none"
  BY QueueFacts
<1>3. ASSUME NEW q \in Run \ chosen', Active(q)', runMode'[q] = "review", NEW m \in todo'[q],
             charged'[<<"review", m>>] = selected'[q][m], <<"review", m>> \notin passedOver'
      PROVE  FALSE
  <2>1. q = r
    BY <1>1, <1>2, <1>3 DEF Active
  <2>2. items \subseteq Unseen(mode) /\ mode = "review" /\ m \in items /\ selected'[q][m] = version[m]
    BY <1>1, <1>3, <2>1 DEF Inv, TypeOK
  <2>3. standing[m] = "ordinary" /\ seen[<<"review", m>>] # version[m] /\ m \in Memory
    BY <2>2 DEF Unseen
  <2> QED
    BY <1>1, <1>3, <2>2, <2>3 DEF Inv, CallsInv, ChargedIsRetriedByHand
<1>4. ASSUME NEW u \in Runner, Busy(u)', lease'[job'[u]] = u PROVE Whole(u)'
  <2>1. Busy(u) /\ lease[job[u]] = u
    BY <1>1, <1>4 DEF Busy
  <2>2. job[u] \in Run /\ job[u] # r
    BY <1>2, <2>1, BusyFacts
  <2>3. runMode'[job[u]] = runMode[job[u]] /\ todo'[job[u]] = todo[job[u]]
    BY <1>1, <2>2 DEF Inv, TypeOK
  <2> QED
    BY <1>1, <2>1, <2>3 DEF Inv, CallsInv, Whole, Batch
<1> QED
  BY <1>1, <1>3, <1>4 DEF Inv, CallsInv, ChargedIsRetriedByHand

LEMMA CallsStep ==
  ASSUME ConstantAssumption, Inv, [Next]_vars PROVE CallsInv'
<1>1. CASE Starts
  <2>1. PICK r \in Run, mode \in Modes : (\E items \in SUBSET Memory : CreateRun(r, mode, items)) \/ Sweep(r, mode)
    BY <1>1 DEF Starts
  <2>2. ASSUME NEW items \in SUBSET Memory, CreateRun(r, mode, items) PROVE CallsInv'
    BY <2>2, CallsStarted DEF CreateRun
  <2>3. CASE Sweep(r, mode)
    <3>1. PICK items \in SUBSET Unseen(mode) : Queue(r, mode, items) /\ UNCHANGED chosen
      BY <2>3 DEF Sweep
    <3>2. items \in SUBSET Memory /\ items \subseteq Unseen(mode)
      BY DEF Unseen
    <3> QED
      BY <3>1, <3>2, CallsStarted
  <2> QED
    BY <2>1, <2>2, <2>3
<1> SUFFICES ASSUME ~Starts PROVE CallsInv'
  BY <1>1
<1>2. /\ version \in [Memory -> Nat] /\ version' \in [Memory -> Nat] /\ TypeOK
      /\ UNCHANGED <<runMode, selected>> /\ \A r \in Run : Active(r)' => Active(r)
      /\ \A w \in Runner : Busy(w)' /\ lease'[job'[w]] = w => Whole(w)'
  BY TypeStep, RunsFrame, CallsWhole DEF Inv, TypeOK
<1>3. ASSUME UNCHANGED <<charged, chosen, passedOver, todo, memoryVars, noteVars>> PROVE CallsInv'
  BY <1>2, <1>3, CallsKept DEF memoryVars, noteVars
<1>4. ASSUME NEW m \in Memory, Revise(m) \/ Forget(m) \/ \E s \in {"ordinary", "quarantined"} : Review(m, s)
      PROVE  CallsInv'
  <2>1. UNCHANGED <<charged, chosen, passedOver, todo>> /\ version' = [version EXCEPT ![m] = @ + 1]
    BY <1>4 DEF Revise, Forget, Review, Change, runVars, historyVars
  <2>2. \A n \in Memory \ {m} : standing'[n] = standing[n]
    BY <1>2, <1>4 DEF Revise, Forget, Review, TypeOK
  <2>3. /\ skipped' \subseteq skipped
        /\ \A o \in Modes \X Memory : o[2] # m => seen'[o] = seen[o]
    BY <1>4 DEF Revise, Forget, Review, Purge, noteVars
  <2>4. version'[m] > version[m] /\ \A n \in Memory \ {m} : version'[n] = version[n]
    BY <1>2, <2>1
  <2> QED
    BY <1>2, <2>1, <2>2, <2>3, <2>4, CallsKept
<1>5. ASSUME NEW p \in Proposals, Accept(p) \/ Undo(p) PROVE CallsInv'
  <2>1. UNCHANGED <<standing, charged, chosen, passedOver, todo, seen, skipped>> /\ Rewrite(p)
    BY <1>5 DEF Accept, Undo, Decided, runVars, historyVars, noteVars
  <2>2. \/ version' = version
        \/ \E v \in {version[p[2]], version[p[2]] + 1} : version' = [version EXCEPT ![p[2]] = v]
    BY <2>1 DEF Rewrite
  <2>3. p[2] \in Memory
    BY DEF Proposals
  <2>4. \A m \in Memory : version'[m] = version[m] \/ version'[m] = version[m] + 1
    BY <1>2, <2>2, <2>3
  <2>5. \A m \in Memory : version'[m] > version[m] \/ version'[m] = version[m]
    BY <1>2, <2>4
  <2> QED
    BY <1>2, <2>1, <2>5, CallsKept
<1>6. ASSUME NEW w \in Runner,
             \/ Claim(w) \/ (\E items \in SUBSET Memory : Pick(w, items)) \/ Finish(w) \/ Call(w)
             \/ Fails(w) \/ RecordFailure(w) \/ FailureUnrecorded(w) \/ Crash(w)
      PROVE  CallsInv'
  BY <1>3, <1>6 DEF Claim, Pick, Finish, Call, Fails, RecordFailure, FailureUnrecorded, Crash, runVars, historyVars
<1>7. ASSUME \/ (\E r \in Run : LeaseExpires(r) \/ Cancel(r)) \/ NextDay \/ UNCHANGED vars
             \/ \E p \in Proposals : Reject(p)
      PROVE  CallsInv'
  BY <1>3, <1>7 DEF LeaseExpires, Cancel, NextDay, Reject, Decided, vars, runVars, historyVars, memoryVars
<1>8. ASSUME People PROVE CallsInv'
  BY <1>4, <1>5, <1>7, <1>8, CallsConfigured DEF People, Starts
<1>9. ASSUME NEW w \in Runner, Works(w) PROVE CallsInv'
  BY <1>6, <1>9, CallsSkipped, CallsCharged, CallsAnswered DEF Works
<1> QED
  BY <1>6, <1>7, <1>8, <1>9 DEF Next

(***************************************************************************)
(* SuggestionInv.                                                          *)
(***************************************************************************)

\* Suggestions survive only what leaves all that they were made from ordinary.
LEMMA SuggestionsKept ==
  ASSUME Inv, UNCHANGED <<proposal, depends, applied>>,
         \A m \in Memory : standing'[m] \in {standing[m], "ordinary"},
         \A r \in Run : runState[r] # "none" => runState'[r] # "none" /\ runMode'[r] = runMode[r]
  PROVE  SuggestionInv'
<1>1. \A p \in Proposals : p[1] \in Run /\ depends[p] \subseteq Memory
  BY DEF Inv, TypeOK, Proposals
<1> QED
  BY <1>1, Zenon DEF Inv, SuggestionInv, WithdrawnLeavesNoSuggestion

\* A withdrawal takes every suggestion that was made from the memory.
LEMMA SuggestionsPurged ==
  ASSUME Inv, NEW m \in Memory, Purge(m), UNCHANGED <<runMode, runState>>,
         \A n \in Memory \ {m} : standing'[n] = standing[n]
  PROVE  SuggestionInv'
<1>1. ASSUME NEW p \in Proposals
      PROVE  \/ proposal'[p] = "invalidated"
             \/ /\ m \notin depends[p] /\ proposal'[p] = proposal[p]
                /\ depends'[p] = depends[p] /\ applied'[p] = applied[p]
  BY DEF Purge, Erased
<1>2. \A p \in Proposals : depends[p] \subseteq Memory
  BY DEF Inv, TypeOK
<1> QED
  BY <1>1, <1>2 DEF Inv, SuggestionInv, WithdrawnLeavesNoSuggestion

\* A person's decision is about a suggestion all of whose memories are there.
LEMMA SuggestionsDecided ==
  ASSUME Inv, NEW p \in Proposals, NEW outcome \in {"accepted", "rejected", "undone"},
         Decided(p, outcome), Available(p), proposal[p] \in {"pending", "accepted"},
         applied' \in [Proposals -> Nat], \A q \in Proposals \ {p} : applied'[q] = applied[q],
         outcome = "accepted" /\ runMode[p[1]] = "organize" => applied'[p] # 0
  PROVE  SuggestionInv'
<1>1. /\ UNCHANGED <<standing, runState, runMode, depends>>
      /\ \A q \in Proposals \ {p} : proposal'[q] = proposal[q]
      /\ proposal'[p] = outcome
  BY DEF Decided, runVars, Inv, TypeOK
<1>2. runState[p[1]] # "none"
  BY DEF Inv, SuggestionInv
<1>3. depends[p] # {} /\ \A m \in depends[p] : standing[m] = "ordinary"
  BY DEF Available
<1>4. \A q \in Proposals : proposal'[q] \notin {"none", "invalidated"} => runState'[q[1]] # "none"
  BY <1>1, <1>2 DEF Inv, SuggestionInv
<1>5. \A q \in Proposals : proposal'[q] = "accepted" /\ runMode'[q[1]] = "organize" => applied'[q] # 0
  BY <1>1 DEF Inv, SuggestionInv
<1>6. WithdrawnLeavesNoSuggestion'
  BY <1>1, <1>3 DEF Inv, SuggestionInv, WithdrawnLeavesNoSuggestion
<1> QED
  BY <1>4, <1>5, <1>6 DEF SuggestionInv

\* What a rewriting notes of the version it leaves.
LEMMA RewriteFacts ==
  ASSUME Inv, NEW p \in Proposals, Rewrite(p)
  PROVE  /\ applied' \in [Proposals -> Nat] /\ \A q \in Proposals \ {p} : applied'[q] = applied[q]
         /\ runMode[p[1]] = "organize" => applied'[p] # 0
         /\ runMode[p[1]] # "organize" => UNCHANGED <<version, applied>>
<1>1. applied \in [Proposals -> Nat] /\ version[p[2]] \in Nat /\ version[p[2]] # 0
  BY DEF Inv, TypeOK, VersionInv, Proposals
<1>2. CASE runMode[p[1]] = "organize"
  <2>1. PICK v \in {version[p[2]], version[p[2]] + 1} : applied' = [applied EXCEPT ![p] = v]
    BY <1>2 DEF Rewrite
  <2> QED
    BY <1>1, <1>2, <2>1
<1>3. CASE runMode[p[1]] # "organize"
  BY <1>1, <1>3 DEF Rewrite
<1> QED
  BY <1>2, <1>3

\* What an answer that is applied leaves behind.
LEMMA ApplyFacts ==
  ASSUME Inv, NEW w \in Runner, NEW about \in SUBSET Memory, Apply(w, about)
  PROVE  LET r == job[w]
             made == {r} \X about
         IN  /\ r \in Run /\ runState[r] = "running" /\ made \subseteq Proposals
             /\ batch[w] # {} /\ batch[w] \subseteq Memory /\ \A m \in batch[w] : standing[m] = "ordinary"
             /\ \A p \in made : proposal'[p] = "pending" /\ depends'[p] = batch[w]
             /\ \A p \in Proposals \ made : proposal'[p] = proposal[p] /\ depends'[p] = depends[p]
             /\ UNCHANGED <<standing, version, applied, runMode>>
<1>1. job[w] \in Run /\ batch[w] # {} /\ batch[w] \subseteq Memory
  BY BusyFacts DEF Apply, Busy
<1>2. runState[job[w]] = "running" /\ \A m \in batch[w] : standing[m] = "ordinary"
  BY DEF Apply, Live, StillUsable, Usable
<1>3. {job[w]} \X about \subseteq Proposals
  BY <1>1 DEF Proposals
<1> QED
  BY <1>1, <1>2, <1>3 DEF Apply, memoryVars

LEMMA SuggestionStep ==
  ASSUME Inv, [Next]_vars PROVE SuggestionInv'
<1>1. ASSUME ~Starts, UNCHANGED <<proposal, depends, applied, standing>> PROVE SuggestionInv'
  BY <1>1, RunsFrame, SuggestionsKept
<1>2. ASSUME NEW m \in Memory, Revise(m) \/ Forget(m) \/ \E s \in {"ordinary", "quarantined"} : Review(m, s)
      PROVE  SuggestionInv'
  <2>1. /\ UNCHANGED <<runState, runMode>>
        /\ \A n \in Memory \ {m} : standing'[n] = standing[n]
        /\ \/ Purge(m)
           \/ /\ UNCHANGED <<proposal, depends, applied>>
              /\ standing'[m] \in {standing[m], "ordinary"}
    BY <1>2 DEF Revise, Forget, Review, Change, runVars, proposalVars, Inv, TypeOK
  <2> QED
    BY <2>1, SuggestionsPurged, SuggestionsKept
<1>3. ASSUME NEW r \in Run, NEW mode \in Modes, NEW items \in SUBSET Memory, Queue(r, mode, items)
      PROVE  SuggestionInv'
  <2>1. /\ UNCHANGED <<standing, proposal, depends, applied>> /\ runState[r] = "none"
        /\ \A q \in Run \ {r} : runState'[q] = runState[q] /\ runMode'[q] = runMode[q]
    BY <1>3 DEF Queue, memoryVars, proposalVars, Inv, TypeOK
  <2> QED
    BY <2>1, SuggestionsKept
<1>4. ASSUME NEW p \in Proposals, Accept(p) \/ Reject(p) \/ Undo(p) PROVE SuggestionInv'
  <2>1. CASE Accept(p) \/ Undo(p)
    <3>1. Rewrite(p) /\ Available(p) /\ (Decided(p, "accepted") \/ Decided(p, "undone"))
          /\ proposal[p] \in {"pending", "accepted"}
      BY <2>1 DEF Accept, Undo
    <3> QED
      BY <3>1, RewriteFacts, SuggestionsDecided
  <2>2. CASE Reject(p)
    <3>1. /\ Available(p) /\ Decided(p, "rejected") /\ proposal[p] = "pending" /\ applied' = applied
          /\ applied \in [Proposals -> Nat]
      BY <2>2 DEF Reject, Inv, TypeOK
    <3> QED
      BY <3>1, SuggestionsDecided
  <2> QED
    BY <1>4, <2>1, <2>2
<1>5. CASE Starts
  BY <1>3, <1>5, StartsQueue
<1> SUFFICES ASSUME ~Starts PROVE SuggestionInv'
  BY <1>5
<1>6. ASSUME NEW w \in Runner, NEW about \in SUBSET Memory, Apply(w, about) PROVE SuggestionInv'
  <2> DEFINE made == {job[w]} \X about
  <2>1. /\ made \subseteq Proposals /\ runState[job[w]] = "running"
        /\ batch[w] # {} /\ \A m \in batch[w] : standing[m] = "ordinary"
        /\ \A p \in made : proposal'[p] = "pending" /\ depends'[p] = batch[w]
        /\ \A p \in Proposals \ made : proposal'[p] = proposal[p] /\ depends'[p] = depends[p]
        /\ UNCHANGED <<standing, applied, runMode>>
    BY <1>6, ApplyFacts
  <2>2. \A p \in made : p[1] = job[w]
    OBVIOUS
  <2>3. \A r \in Run : runState[r] # "none" => runState'[r] # "none"
    BY RunsFrame
  <2>4. \A p \in Proposals : p[1] \in Run
    BY DEF Proposals
  <2> HIDE DEF made
  <2>5. \A p \in Proposals : proposal'[p] \notin {"none", "invalidated"} => runState'[p[1]] # "none"
    BY <2>1, <2>2, <2>3, <2>4 DEF Inv, SuggestionInv
  <2>6. \A p \in Proposals : proposal'[p] = "accepted" /\ runMode'[p[1]] = "organize" => applied'[p] # 0
    BY <2>1 DEF Inv, SuggestionInv
  <2>7. WithdrawnLeavesNoSuggestion'
    BY <2>1 DEF Inv, SuggestionInv, WithdrawnLeavesNoSuggestion
  <2> QED
    BY <2>5, <2>6, <2>7 DEF SuggestionInv
<1>7. ASSUME NEW w \in Runner,
             \/ Claim(w) \/ (\E items \in SUBSET Memory : Pick(w, items)) \/ Finish(w)
             \/ SkipTooLarge(w) \/ Reserve(w) \/ Call(w) \/ Fails(w)
             \/ RecordFailure(w) \/ FailureUnrecorded(w) \/ Crash(w)
      PROVE  SuggestionInv'
  <2>1. UNCHANGED <<proposal, depends, applied, standing>>
    BY <1>7 DEF Claim, Pick, Finish, SkipTooLarge, Reserve, Call, Fails, RecordFailure, FailureUnrecorded, Crash,
       proposalVars, memoryVars
  <2> QED
    BY <1>1, <2>1
<1>8. ASSUME \/ (\E r \in Run : LeaseExpires(r) \/ Cancel(r)) \/ NextDay \/ UNCHANGED vars
             \/ \E on \in BOOLEAN : Configure(on)
      PROVE  SuggestionInv'
  <2>1. UNCHANGED <<proposal, depends, applied, standing>>
    BY <1>8 DEF LeaseExpires, Cancel, NextDay, Configure, vars, proposalVars, memoryVars
  <2> QED
    BY <1>1, <2>1
<1>9. ASSUME People PROVE SuggestionInv'
  BY <1>2, <1>4, <1>8, <1>9 DEF People, Starts
<1>10. ASSUME NEW w \in Runner, Works(w) PROVE SuggestionInv'
  BY <1>6, <1>7, <1>10 DEF Works
<1> QED
  BY <1>7, <1>8, <1>9, <1>10 DEF Next

(***************************************************************************)
(* The theorems.                                                           *)
(***************************************************************************)

LEMMA InvInit == ASSUME ConstantAssumption PROVE Init => Inv
<1> SUFFICES ASSUME Init PROVE Inv
  OBVIOUS
<1>1. TypeOK
  BY TypeInit
<1>2. RunsInv /\ ItemsInv /\ SuggestionInv
  BY DEF Init, RunsInv, ItemsInv, SuggestionInv, WithdrawnLeavesNoSuggestion, Busy, Active
<1>3. VersionInv
  BY DEF Init, VersionInv, Active
<1>4. CallsInv
  BY DEF Init, CallsInv, ChargedIsRetriedByHand, Active, Busy
<1> QED
  BY <1>1, <1>2, <1>3, <1>4 DEF Inv

LEMMA InvStep == ASSUME ConstantAssumption PROVE Inv /\ [Next]_vars => Inv'
BY TypeStep, RunsStep, ItemsStep, VersionStep, CallsStep, SuggestionStep DEF Inv

\* The Librarian's rows and the locals of its runners are well typed.
THEOREM TypeCorrect == ASSUME ConstantAssumption PROVE Spec => []TypeOK
<1>1. Inv => TypeOK
  BY DEF Inv
<1> QED
  BY <1>1, InvInit, InvStep, PTL DEF Spec

\* Quarantine and deletion purge every suggestion made from a memory
\* (purge_librarian_dependencies), and no answer that was on its way brings
\* one back (_apply of librarian_runner.py).
THEOREM SuggestionsWithdrawn == ASSUME ConstantAssumption PROVE Spec => []WithdrawnLeavesNoSuggestion
<1>1. Inv => WithdrawnLeavesNoSuggestion
  BY DEF Inv, SuggestionInv
<1> QED
  BY <1>1, InvInit, InvStep, PTL DEF Spec

\* A version that a call was reserved for is not swept again, whatever became
\* of the call, unless a person chose it since for a review whose prompt was too
\* large (_reserve and _mark_items of librarian_runner.py, configure of
\* librarian.py); in the organize mode never.
THEOREM SweptAgainByHand == ASSUME ConstantAssumption PROVE Spec => []ChargedIsRetriedByHand
<1>1. Inv => ChargedIsRetriedByHand
  BY DEF Inv, CallsInv
<1> QED
  BY <1>1, InvInit, InvStep, PTL DEF Spec

\* Neither accepting nor undoing a suggestion overwrites what a person wrote
\* since (decide of librarian.py).
THEOREM PeopleAreRespected == ASSUME ConstantAssumption PROVE Spec => DecisionsRespectPeople
<1> DEFINE Respects(p) ==
      /\ proposal[p] = "pending" /\ proposal'[p] = "accepted" =>
            \A m \in depends[p] : written[m] <= selected[p[1]][m]
      /\ proposal[p] = "accepted" /\ proposal'[p] = "undone" /\ version' # version =>
            written[p[2]] <= applied[p]
<1>1. ASSUME Inv, [Next]_vars, NEW p \in Proposals PROVE Respects(p)
  <2>1. ASSUME NEW q \in Proposals, Accept(q) PROVE Respects(p)
    <3>1. CASE q = p
      <4>0. \A m \in depends[p] : m \in Memory /\ written[m] <= version[m]
        BY <1>1 DEF Inv, TypeOK, VersionInv
      <4>1. \A m \in depends[p] : m \in Memory /\ written[m] <= version[m] /\ version[m] = selected[p[1]][m]
        BY <2>1, <3>1, <4>0 DEF Accept, Current
      <4>2. proposal[p] = "pending"
        BY <2>1, <3>1 DEF Accept
      <4> QED
        BY <4>1, <4>2
    <3>2. CASE q # p
      BY <1>1, <2>1, <3>2 DEF Accept, Decided, Inv, TypeOK
    <3> QED
      BY <3>1, <3>2
  <2>2. ASSUME NEW q \in Proposals, Undo(q) PROVE Respects(p)
    <3>1. CASE q = p
      <4>1. ASSUME version' # version PROVE written[p[2]] <= applied[p]
        <5>1. proposal[p] = "accepted" /\ Rewrite(p) /\ (applied[p] # 0 => version[p[2]] = applied[p])
          BY <2>2, <3>1 DEF Undo
        <5>2. runMode[p[1]] = "organize"
          BY <1>1, <4>1, <5>1, RewriteFacts
        <5>3. applied[p] # 0
          BY <1>1, <5>1, <5>2 DEF Inv, SuggestionInv
        <5> QED
          BY <1>1, <5>1, <5>3 DEF Inv, VersionInv, Proposals
      <4>2. proposal[p] = "accepted"
        BY <2>2, <3>1 DEF Undo
      <4> QED
        BY <4>1, <4>2
    <3>2. CASE q # p
      BY <1>1, <2>2, <3>2 DEF Undo, Decided, Inv, TypeOK
    <3> QED
      BY <3>1, <3>2
  <2>3. ASSUME proposal'[p] \in {proposal[p], "pending", "rejected", "invalidated"} PROVE Respects(p)
    BY <2>3
  <2>4. ASSUME NEW q \in Proposals, Reject(q) PROVE Respects(p)
    BY <1>1, <2>3, <2>4 DEF Reject, Decided, Inv, TypeOK
  <2>5. ASSUME NEW m \in Memory, Revise(m) \/ Forget(m) \/ \E s \in {"ordinary", "quarantined"} : Review(m, s)
        PROVE  Respects(p)
    BY <2>3, <2>5 DEF Revise, Forget, Review, Purge, proposalVars
  <2>6. ASSUME NEW r \in Run, NEW mode \in Modes, NEW items \in SUBSET Memory, Queue(r, mode, items)
        PROVE  Respects(p)
    BY <2>3, <2>6 DEF Queue, proposalVars
  <2>7. ASSUME NEW w \in Runner, NEW about \in SUBSET Memory, Apply(w, about) PROVE Respects(p)
    <3>1. proposal'[p] = "pending" \/ proposal'[p] = proposal[p]
      BY <1>1, <2>7, ApplyFacts
    <3> QED
      BY <2>3, <3>1
  <2>8. ASSUME NEW w \in Runner,
               \/ Claim(w) \/ (\E items \in SUBSET Memory : Pick(w, items)) \/ Finish(w)
               \/ SkipTooLarge(w) \/ Reserve(w) \/ Call(w) \/ Fails(w)
               \/ RecordFailure(w) \/ FailureUnrecorded(w) \/ Crash(w)
        PROVE  Respects(p)
    BY <2>3, <2>8 DEF Claim, Pick, Finish, SkipTooLarge, Reserve, Call, Fails, RecordFailure, FailureUnrecorded, Crash,
       proposalVars
  <2>9. ASSUME \/ (\E r \in Run : LeaseExpires(r) \/ Cancel(r)) \/ NextDay \/ UNCHANGED vars
               \/ \E on \in BOOLEAN : Configure(on)
        PROVE  Respects(p)
    BY <2>3, <2>9 DEF LeaseExpires, Cancel, NextDay, Configure, vars, proposalVars
  <2> HIDE DEF Respects
  <2>10. ASSUME People PROVE Respects(p)
    BY <2>1, <2>2, <2>4, <2>5, <2>6, <2>9, <2>10 DEF People, CreateRun, Sweep, Unseen
  <2>11. ASSUME NEW w \in Runner, Works(w) PROVE Respects(p)
    BY <2>7, <2>8, <2>11 DEF Works
  <2> QED
    BY <1>1, <2>8, <2>9, <2>10, <2>11 DEF Next
<1>2. Inv /\ [Next]_vars => [\A p \in Proposals : Respects(p)]_vars
  BY <1>1
<1> QED
  BY <1>2, InvInit, InvStep, PTL DEF Spec, DecisionsRespectPeople

=============================================================================
