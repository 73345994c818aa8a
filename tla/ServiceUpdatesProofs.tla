------------------------- MODULE ServiceUpdatesProofs -------------------------
(***************************************************************************)
(* Updates leave the host recoverable, serve no database of another schema *)
(* and do not repeat a cutover that was undone, for every number of        *)
(* releases, every set of migrations and series, and every connector.      *)
(***************************************************************************)
EXTENDS ServiceUpdates, TLAPS

Unrecorded == {"check", "stage", "apply", "plan"}
Forward == {"stop", "select", "start", "conclude"}
Backward == {"undo", "revert", "restart", "hold", "clear"}
Upgrading == {"quiet", "drain", "ledger", "migrate", "adopt", "launch", "settle", "fallback",
              "judge", "relaunch", "withdraw"}

(***************************************************************************)
(* The inductive invariant.                                                *)
(***************************************************************************)

TypeInv ==
    /\ TypeOK
    /\ candidate \in {Nothing, seen}

\* What an operation under the lock may find, step by step.
LockInv ==
    /\ op = "none" <=> pc = "idle"
    /\ orphan => op = "none" /\ upgrade # NoCutover
    /\ pc \in Forward \cup Backward => journal # NoCutover
    /\ pc \in Upgrading => upgrade # NoCutover /\ op = "upgrade"
    /\ pc \notin Upgrading /\ op \in {"apply", "retry", "rollback", "upgrade"} =>
           upgrade = NoCutover
    /\ pc \in Unrecorded /\ op # "watch" => journal = NoCutover
    /\ op = "watch" => updater = "turn" \/ (updater = "journal" /\ pc \in Backward)
    /\ pc \in {"check", "stage"} => op \in {"watch", "upgrade"}
    /\ pc = "plan" => op = "upgrade"

\* The schema follows the recorded runtime, or a journal says what is amiss.
SchemaInv ==
    /\ serving # Nothing => SchemaOf(serving) = schema
    /\ orphan \/ pc \in {"ledger", "migrate", "adopt"} => serving = Nothing
    /\ pc \in {"conclude", "hold", "clear", "settle", "withdraw"} =>
           schema = SchemaOf(active) /\ serving = active
    /\ journal = NoCutover /\ upgrade = NoCutover =>
           schema = SchemaOf(active) /\ serving \in {Nothing, active}

SlotsInv ==
    /\ {active, journal.previous, journal.candidate, upgrade.previous, upgrade.candidate}
           \ {Nothing} \subseteq slots
    /\ pc = "plan" => candidate > active /\ candidate \in slots

\* A release that was undone is not the newest one any more, or is held, or the
\* journal still names it; or it was begun once more by a watcher that had looked
\* for a journal before there was one, and that cutover went well.
BrokenInv ==
    /\ \A v \in broken : v <= seen /\ v # Nothing
    /\ journal.candidate <= seen
    /\ pc \in {"start", "conclude"} => active = journal.candidate
    /\ pc = "clear" => failed = journal.candidate
    /\ updater = "turn" /\ journal # NoCutover /\ pc \notin Forward \cup Backward =>
           upgrade = NoCutover
    /\ seen \in broken =>
         /\ journal = NoCutover \/ journal.candidate = seen
         /\ failed = seen \/ journal.candidate = seen \/ (active = seen /\ upgrade = NoCutover)
         /\ pc \in Forward => failed = seen \/ upgrade = NoCutover

Inv == TypeInv /\ LockInv /\ SchemaInv /\ SlotsInv /\ BrokenInv

\* Staging keeps the candidate and every release the host may fall back to
\* (stage prunes what no record names).
LEMMA StagedFacts ==
  ASSUME ConstantAssumption, Inv, candidate > active
  PROVE  /\ Staged \in SUBSET Release /\ candidate \in Staged
         /\ slots \cap Kept \subseteq Staged
<1>1. candidate \in Release /\ 1 \in Release /\ slots \subseteq Release
  BY DEF ConstantAssumption, Inv, TypeInv, TypeOK, Release, Nothing
<1>2. CASE candidate \in slots
  BY <1>1, <1>2 DEF Staged
<1>3. CASE candidate \notin slots
  BY <1>1, <1>3 DEF Staged
<1> QED
  BY <1>2, <1>3

\* A cutover journal names two real releases.
LEMMA JournalFacts ==
  ASSUME Inv, journal # NoCutover
  PROVE  journal.previous \in Release /\ journal.candidate \in Release
  BY DEF Inv, TypeInv, TypeOK, Cutover

\* Undoing a cutover marks a release that was seen as broken, and no other.
LEMMA UndoneFacts ==
  ASSUME ConstantAssumption, Inv, journal # NoCutover, Undone
  PROVE  /\ broken' \in SUBSET Release
         /\ \A v \in broken' : v <= seen /\ v # Nothing
         /\ seen \in broken' => journal.candidate = seen
<1>1. /\ journal.candidate \in Release /\ journal.candidate # Nothing
      /\ broken' = broken \cup {journal.candidate}
  BY JournalFacts DEF Undone, Release, Nothing
<1>2. broken \in SUBSET Release
  BY DEF Inv, TypeInv, TypeOK
<1> QED
  BY <1>1, <1>2 DEF Inv, BrokenInv

\* Every step of the watcher, a command, an upgrade or its recovery keeps the
\* invariant: one step per action, one fact per part.
LEMMA StepInv ==
  ASSUME ConstantAssumption, Inv, Next PROVE Inv'
<1>1. ASSUME NEW v \in Release, Check(v) PROVE Inv'
  <2>1. TypeInv'
    BY <1>1 DEF Check, Fetched, Goes, Leave, around, Inv, TypeInv, TypeOK
  <2>2. LockInv'
    BY <1>1 DEF Check, Goes, Leave, around, Inv, LockInv, Unrecorded, Forward, Backward, Upgrading
  <2>3. SchemaInv'
    BY <1>1 DEF Check, Goes, Leave, around, Inv, SchemaInv
  <2>4. SlotsInv'
    BY <1>1 DEF Check, Goes, Leave, Inv, SlotsInv
  <2>5. BrokenInv'
    BY <1>1 DEF Check, Fetched, Goes, Leave, around, Inv, TypeInv, BrokenInv, Forward, Backward,
           TypeOK, Release, Nothing, NoCutover, Cutover
  <2> QED
    BY <2>1, <2>2, <2>3, <2>4, <2>5 DEF Inv
<1>2. CASE Stage
  <2>1. TypeInv'
    BY <1>2, StagedFacts DEF Stage, Goes, Leave, around, Inv, TypeInv, TypeOK
  <2>2. LockInv'
    BY <1>2 DEF Stage, Goes, Leave, around, Inv, LockInv, Unrecorded, Forward,
           Backward, Upgrading
  <2>3. SchemaInv'
    BY <1>2 DEF Stage, Goes, Leave, around, Inv, SchemaInv
  <2>4. SlotsInv'
    BY <1>2, StagedFacts DEF Stage, Leave, Kept, Inv, SlotsInv
  <2>5. BrokenInv'
    BY <1>2 DEF Stage, Goes, Leave, around, Inv, BrokenInv, Forward, Backward
  <2> QED
    BY <2>1, <2>2, <2>3, <2>4, <2>5 DEF Inv
<1>3. CASE GiveUp
  <2>1. TypeInv'
    BY <1>3 DEF GiveUp, Leave, files, around, Inv, TypeInv, TypeOK
  <2>2. LockInv'
    BY <1>3 DEF GiveUp, Leave, around, Inv, LockInv, Unrecorded, Forward, Backward, Upgrading
  <2>3. SchemaInv'
    BY <1>3 DEF GiveUp, Leave, files, around, Inv, SchemaInv
  <2>4. SlotsInv'
    BY <1>3 DEF GiveUp, Leave, files, Inv, SlotsInv
  <2>5. BrokenInv'
    BY <1>3 DEF GiveUp, Leave, files, around, Inv, BrokenInv, Forward, Backward
  <2> QED
    BY <2>1, <2>2, <2>3, <2>4, <2>5 DEF Inv
<1>4. CASE Prepare
  <2>1. TypeInv'
    BY <1>4 DEF Prepare, Goes, Leave, around, Inv, TypeInv, TypeOK, Nothing, Cutover
  <2>2. LockInv'
    BY <1>4 DEF Prepare, Goes, Leave, around, Inv, LockInv, Unrecorded, Forward, Backward,
           Upgrading, Nothing, NoCutover
  <2>3. SchemaInv'
    BY <1>4 DEF Prepare, Goes, Leave, around, Inv, SchemaInv, Nothing, NoCutover
  <2>4. SlotsInv'
    BY <1>4 DEF Prepare, Leave, Inv, SlotsInv
  <2>5. BrokenInv'
    BY <1>4 DEF Prepare, Goes, Leave, around, Inv, TypeInv, LockInv, BrokenInv, Forward, Backward,
           Upgrading, TypeOK, Release, Nothing, NoCutover
  <2> QED
    BY <2>1, <2>2, <2>3, <2>4, <2>5 DEF Inv
<1>5. CASE StopOld
  <2>1. TypeInv'
    BY <1>5, UndoneFacts DEF StopOld, Stopped, HalfStopped, Fails, Goes, files, Inv, TypeInv,
           LockInv, Forward, TypeOK, Nothing
  <2>2. LockInv'
    BY <1>5 DEF StopOld, Fails, Goes, files, Inv, TypeInv, LockInv, TypeOK, Unrecorded,
           Forward, Backward, Upgrading
  <2>3. SchemaInv'
    BY <1>5 DEF StopOld, Stopped, HalfStopped, Fails, Goes, files, Inv, SchemaInv
  <2>4. SlotsInv'
    BY <1>5 DEF StopOld, Fails, Goes, files, Inv, SlotsInv
  <2>5. BrokenInv'
    BY <1>5, UndoneFacts, JournalFacts DEF StopOld, Fails, Goes, files, Inv, LockInv, BrokenInv,
           Forward, Backward
  <2> QED
    BY <2>1, <2>2, <2>3, <2>4, <2>5 DEF Inv
<1>6. CASE Select
  <2>1. TypeInv'
    BY <1>6 DEF Select, Goes, around, Inv, TypeInv, LockInv, Forward, TypeOK, Cutover
  <2>2. LockInv'
    BY <1>6 DEF Select, Goes, around, Inv, LockInv, Unrecorded, Forward, Backward, Upgrading
  <2>3. SchemaInv'
    BY <1>6 DEF Select, Goes, around, Inv, LockInv, SchemaInv, Forward
  <2>4. SlotsInv'
    BY <1>6 DEF Select, Goes, Inv, SlotsInv
  <2>5. BrokenInv'
    BY <1>6 DEF Select, Goes, around, Inv, LockInv, BrokenInv, Forward
  <2> QED
    BY <2>1, <2>2, <2>3, <2>4, <2>5 DEF Inv
<1>7. CASE StartNew
  <2>1. TypeInv'
    BY <1>7, UndoneFacts DEF StartNew, Ready, HalfStarted, Fails, Goes, files, Inv, TypeInv,
           LockInv, Forward, TypeOK, Nothing
  <2>2. LockInv'
    BY <1>7 DEF StartNew, Fails, Goes, files, Inv, TypeInv, LockInv, TypeOK, Unrecorded,
           Forward, Backward, Upgrading
  <2>3. SchemaInv'
    BY <1>7 DEF StartNew, Ready, Accepts, HalfStarted, Fails, Goes, files, Inv, LockInv, SchemaInv
  <2>4. SlotsInv'
    BY <1>7 DEF StartNew, Fails, Goes, files, Inv, SlotsInv
  <2>5. BrokenInv'
    BY <1>7, UndoneFacts, JournalFacts DEF StartNew, Fails, Goes, files, Inv, LockInv, BrokenInv,
           Forward, Backward
  <2> QED
    BY <2>1, <2>2, <2>3, <2>4, <2>5 DEF Inv
<1>8. CASE Conclude
  <2>1. TypeInv'
    BY <1>8 DEF Conclude, Inv, TypeInv, SlotsInv, TypeOK
  <2>2. LockInv'
    BY <1>8 DEF Conclude, Inv, LockInv, Forward, Backward, Upgrading
  <2>3. SchemaInv'
    BY <1>8 DEF Conclude, Inv, SchemaInv
  <2>4. SlotsInv'
    BY <1>8 DEF Conclude, Inv, SlotsInv, NoCutover
  <2>5. BrokenInv'
    BY <1>8 DEF Conclude, Inv, TypeInv, BrokenInv, Forward, TypeOK, Release, Nothing, NoCutover
  <2> QED
    BY <2>1, <2>2, <2>3, <2>4, <2>5 DEF Inv
<1>9. CASE Undo
  <2>1. TypeInv'
    BY <1>9 DEF Undo, Stopped, HalfStopped, Goes, Gives, Leave, files, around, Inv, TypeInv, TypeOK
  <2>2. LockInv'
    BY <1>9 DEF Undo, Goes, Gives, Leave, files, around, Inv, LockInv, Unrecorded, Backward,
           Upgrading
  <2>3. SchemaInv'
    BY <1>9 DEF Undo, Stopped, HalfStopped, Goes, Gives, Leave, files, around, Inv, SchemaInv
  <2>4. SlotsInv'
    BY <1>9 DEF Undo, Goes, Gives, Leave, files, Inv, SlotsInv
  <2>5. BrokenInv'
    BY <1>9 DEF Undo, Goes, Gives, Leave, files, around, Inv, TypeInv, LockInv, BrokenInv, Forward,
           Backward, Upgrading, TypeOK
  <2> QED
    BY <2>1, <2>2, <2>3, <2>4, <2>5 DEF Inv
<1>10. CASE Revert
  <2>1. TypeInv'
    BY <1>10 DEF Revert, Goes, around, Inv, TypeInv, LockInv, Backward, TypeOK, Cutover
  <2>2. LockInv'
    BY <1>10 DEF Revert, Goes, around, Inv, LockInv, Unrecorded, Backward, Upgrading
  <2>3. SchemaInv'
    BY <1>10 DEF Revert, Goes, around, Inv, LockInv, SchemaInv, Backward
  <2>4. SlotsInv'
    BY <1>10 DEF Revert, Goes, Inv, SlotsInv
  <2>5. BrokenInv'
    BY <1>10 DEF Revert, Goes, around, Inv, LockInv, BrokenInv, Forward, Backward
  <2> QED
    BY <2>1, <2>2, <2>3, <2>4, <2>5 DEF Inv
<1>11. CASE Restart
  <2>1. TypeInv'
    BY <1>11 DEF Restart, Ready, HalfStarted, Goes, Gives, Leave, files, around, Inv, TypeInv,
           TypeOK
  <2>2. LockInv'
    BY <1>11 DEF Restart, Goes, Gives, Leave, files, around, Inv, LockInv, Unrecorded, Backward,
           Upgrading
  <2>3. SchemaInv'
    BY <1>11 DEF Restart, Ready, Accepts, HalfStarted, Goes, Gives, Leave, files, around, Inv,
           LockInv, SchemaInv
  <2>4. SlotsInv'
    BY <1>11 DEF Restart, Goes, Gives, Leave, files, Inv, SlotsInv
  <2>5. BrokenInv'
    BY <1>11 DEF Restart, Goes, Gives, Leave, files, around, Inv, TypeInv, LockInv, BrokenInv,
           Forward, Backward, Upgrading, TypeOK
  <2> QED
    BY <2>1, <2>2, <2>3, <2>4, <2>5 DEF Inv
<1>12. CASE Hold
  <2>1. TypeInv'
    BY <1>12 DEF Hold, Goes, around, Inv, TypeInv, TypeOK, NoCutover, Cutover
  <2>2. LockInv'
    BY <1>12 DEF Hold, Goes, around, Inv, LockInv, Unrecorded, Backward, Upgrading
  <2>3. SchemaInv'
    BY <1>12 DEF Hold, Goes, around, Inv, SchemaInv
  <2>4. SlotsInv'
    BY <1>12 DEF Hold, Goes, Inv, SlotsInv
  <2>5. BrokenInv'
    BY <1>12 DEF Hold, Goes, around, Inv, LockInv, BrokenInv, Backward
  <2> QED
    BY <2>1, <2>2, <2>3, <2>4, <2>5 DEF Inv
<1>13. CASE Clear
  <2>1. TypeInv'
    BY <1>13 DEF Clear, Goes, Leave, around, Inv, TypeInv, TypeOK
  <2>2. LockInv'
    BY <1>13 DEF Clear, Goes, Leave, around, Inv, LockInv, Forward, Backward, Upgrading
  <2>3. SchemaInv'
    BY <1>13 DEF Clear, Goes, Leave, around, Inv, SchemaInv
  <2>4. SlotsInv'
    BY <1>13 DEF Clear, Goes, Leave, Inv, SlotsInv, NoCutover
  <2>5. BrokenInv'
    BY <1>13 DEF Clear, Goes, Leave, around, Inv, TypeInv, BrokenInv, TypeOK, Release, Nothing,
           NoCutover
  <2> QED
    BY <2>1, <2>2, <2>3, <2>4, <2>5 DEF Inv
<1>14. CASE Plan
  <2>1. TypeInv'
    BY <1>14 DEF Plan, Goes, Leave, around, Inv, TypeInv, SlotsInv, TypeOK, Nothing, Cutover
  <2>2. LockInv'
    BY <1>14 DEF Plan, Goes, Leave, around, Inv, LockInv, SlotsInv, Unrecorded, Forward, Backward,
           Upgrading, Nothing, NoCutover
  <2>3. SchemaInv'
    BY <1>14 DEF Plan, Goes, Leave, around, Inv, LockInv, SchemaInv, Upgrading
  <2>4. SlotsInv'
    BY <1>14 DEF Plan, Inv, SlotsInv
  <2>5. BrokenInv'
    BY <1>14 DEF Plan, Goes, Leave, around, Inv, TypeInv, LockInv, SlotsInv, BrokenInv, Unrecorded,
           TypeOK, Release, Nothing, NoCutover
  <2> QED
    BY <2>1, <2>2, <2>3, <2>4, <2>5 DEF Inv
<1>15. CASE Quiet
  <2>1. TypeInv'
    BY <1>15 DEF Quiet, files, Inv, TypeInv, LockInv, TypeOK
  <2>2. LockInv'
    BY <1>15 DEF Quiet, files, Inv, LockInv, Unrecorded, Forward, Backward, Upgrading
  <2>3. SchemaInv'
    BY <1>15 DEF Quiet, files, Inv, SchemaInv
  <2>4. SlotsInv'
    BY <1>15 DEF Quiet, files, Inv, SlotsInv
  <2>5. BrokenInv'
    BY <1>15 DEF Quiet, files, Inv, BrokenInv, Forward, Backward
  <2> QED
    BY <2>1, <2>2, <2>3, <2>4, <2>5 DEF Inv
<1>16. CASE Drain
  <2>1. TypeInv'
    BY <1>16 DEF Drain, Stopped, HalfStopped, Goes, files, around, Inv, TypeInv, TypeOK
  <2>2. LockInv'
    BY <1>16 DEF Drain, Goes, files, around, Inv, LockInv, Unrecorded, Forward, Backward, Upgrading
  <2>3. SchemaInv'
    BY <1>16 DEF Drain, Stopped, HalfStopped, Goes, files, around, Inv, SchemaInv
  <2>4. SlotsInv'
    BY <1>16 DEF Drain, Goes, files, Inv, SlotsInv
  <2>5. BrokenInv'
    BY <1>16 DEF Drain, Goes, files, around, Inv, BrokenInv, Forward, Backward
  <2> QED
    BY <2>1, <2>2, <2>3, <2>4, <2>5 DEF Inv
<1>17. CASE Ledger
  <2>1. TypeInv'
    BY <1>17 DEF Ledger, Goes, files, around, Inv, TypeInv, TypeOK
  <2>2. LockInv'
    BY <1>17 DEF Ledger, Goes, files, around, Inv, LockInv, Unrecorded, Forward, Backward, Upgrading
  <2>3. SchemaInv'
    BY <1>17 DEF Ledger, Goes, files, Inv, SchemaInv
  <2>4. SlotsInv'
    BY <1>17 DEF Ledger, Goes, files, Inv, SlotsInv
  <2>5. BrokenInv'
    BY <1>17 DEF Ledger, Goes, files, around, Inv, BrokenInv, Forward, Backward
  <2> QED
    BY <2>1, <2>2, <2>3, <2>4, <2>5 DEF Inv
<1>18. CASE Migrate
  <2>1. TypeInv'
    BY <1>18 DEF Migrate, Migrated, Goes, files, around, Inv, TypeInv, LockInv, Upgrading, TypeOK,
           SchemaOf
  <2>2. LockInv'
    BY <1>18 DEF Migrate, Goes, files, around, Inv, LockInv, Unrecorded, Forward, Backward,
           Upgrading
  <2>3. SchemaInv'
    BY <1>18 DEF Migrate, Migrated, Goes, files, Inv, SchemaInv, NoCutover
  <2>4. SlotsInv'
    BY <1>18 DEF Migrate, Goes, files, Inv, SlotsInv
  <2>5. BrokenInv'
    BY <1>18 DEF Migrate, Goes, files, around, Inv, BrokenInv, Forward, Backward
  <2> QED
    BY <2>1, <2>2, <2>3, <2>4, <2>5 DEF Inv
<1>19. CASE Adopt
  <2>1. TypeInv'
    BY <1>19 DEF Adopt, Goes, around, Inv, TypeInv, LockInv, Upgrading, TypeOK, Cutover
  <2>2. LockInv'
    BY <1>19 DEF Adopt, Goes, around, Inv, LockInv, Unrecorded, Forward, Backward, Upgrading
  <2>3. SchemaInv'
    BY <1>19 DEF Adopt, Goes, Inv, LockInv, SchemaInv, Upgrading
  <2>4. SlotsInv'
    BY <1>19 DEF Adopt, Goes, Inv, SlotsInv
  <2>5. BrokenInv'
    BY <1>19 DEF Adopt, Goes, around, Inv, LockInv, BrokenInv, Forward, Backward, Upgrading
  <2> QED
    BY <2>1, <2>2, <2>3, <2>4, <2>5 DEF Inv
<1>20. CASE Launch
  <2>1. TypeInv'
    BY <1>20 DEF Launch, Ready, HalfStarted, Goes, files, around, Inv, TypeInv, TypeOK
  <2>2. LockInv'
    BY <1>20 DEF Launch, Goes, files, around, Inv, LockInv, Unrecorded, Forward, Backward, Upgrading
  <2>3. SchemaInv'
    BY <1>20 DEF Launch, Ready, Accepts, HalfStarted, Goes, files, around, Inv, LockInv, SchemaInv
  <2>4. SlotsInv'
    BY <1>20 DEF Launch, Goes, files, Inv, SlotsInv
  <2>5. BrokenInv'
    BY <1>20 DEF Launch, Goes, files, around, Inv, BrokenInv, Forward, Backward
  <2> QED
    BY <2>1, <2>2, <2>3, <2>4, <2>5 DEF Inv
<1>21. CASE Settle
  <2>1. TypeInv'
    BY <1>21 DEF Settle, Finished, around, Inv, TypeInv, TypeOK, NoCutover, Cutover
  <2>2. LockInv'
    BY <1>21 DEF Settle, Finished, around, Inv, LockInv, Unrecorded, Forward, Backward, Upgrading
  <2>3. SchemaInv'
    BY <1>21 DEF Settle, Finished, around, Inv, SchemaInv
  <2>4. SlotsInv'
    BY <1>21 DEF Settle, Finished, Inv, SlotsInv, NoCutover
  <2>5. BrokenInv'
    BY <1>21 DEF Settle, Finished, around, Inv, BrokenInv
  <2> QED
    BY <2>1, <2>2, <2>3, <2>4, <2>5 DEF Inv
<1>22. CASE Fallback
  <2>1. TypeInv'
    BY <1>22 DEF Fallback, Stopped, HalfStopped, Goes, Leave, files, around, Inv, TypeInv, TypeOK
  <2>2. LockInv'
    BY <1>22 DEF Fallback, Goes, Leave, files, around, Inv, LockInv, Unrecorded, Forward, Backward,
           Upgrading
  <2>3. SchemaInv'
    BY <1>22 DEF Fallback, Stopped, HalfStopped, Goes, Leave, files, around, Inv, SchemaInv
  <2>4. SlotsInv'
    BY <1>22 DEF Fallback, Goes, Leave, files, Inv, SlotsInv
  <2>5. BrokenInv'
    BY <1>22 DEF Fallback, Goes, Leave, files, around, Inv, BrokenInv, Forward, Backward
  <2> QED
    BY <2>1, <2>2, <2>3, <2>4, <2>5 DEF Inv
<1>23. CASE Judge
  <2>1. TypeInv'
    BY <1>23 DEF Judge, Goes, Leave, around, Inv, TypeInv, LockInv, Upgrading, TypeOK, Cutover
  <2>2. LockInv'
    BY <1>23 DEF Judge, Goes, Leave, around, Inv, LockInv, Unrecorded, Forward, Backward, Upgrading
  <2>3. SchemaInv'
    BY <1>23 DEF Judge, Goes, Leave, around, Inv, LockInv, SchemaInv, Upgrading
  <2>4. SlotsInv'
    BY <1>23 DEF Judge, Goes, Leave, Inv, SlotsInv
  <2>5. BrokenInv'
    BY <1>23 DEF Judge, Goes, Leave, around, Inv, LockInv, BrokenInv, Forward, Backward, Upgrading
  <2> QED
    BY <2>1, <2>2, <2>3, <2>4, <2>5 DEF Inv
<1>24. CASE Relaunch
  <2>1. TypeInv'
    BY <1>24 DEF Relaunch, Ready, HalfStarted, Goes, Leave, files, around, Inv, TypeInv, TypeOK
  <2>2. LockInv'
    BY <1>24 DEF Relaunch, Goes, Leave, files, around, Inv, LockInv, Unrecorded, Forward, Backward,
           Upgrading
  <2>3. SchemaInv'
    BY <1>24 DEF Relaunch, Ready, Accepts, HalfStarted, Goes, Leave, files, around, Inv, LockInv,
           SchemaInv
  <2>4. SlotsInv'
    BY <1>24 DEF Relaunch, Goes, Leave, files, Inv, SlotsInv
  <2>5. BrokenInv'
    BY <1>24 DEF Relaunch, Goes, Leave, files, around, Inv, BrokenInv, Forward, Backward
  <2> QED
    BY <2>1, <2>2, <2>3, <2>4, <2>5 DEF Inv
<1>25. CASE Withdraw
  <2>1. TypeInv'
    BY <1>25 DEF Withdraw, Finished, WrittenBack, Inv, TypeInv, TypeOK
  <2>2. LockInv'
    BY <1>25 DEF Withdraw, Finished, WrittenBack, Inv, LockInv, Unrecorded, Forward, Backward, Upgrading
  <2>3. SchemaInv'
    BY <1>25 DEF Withdraw, Finished, WrittenBack, Inv, SchemaInv
  <2>4. SlotsInv'
    <3>1. upgrade' \in {upgrade, NoCutover} /\ pc' = "idle" /\ UNCHANGED <<active, journal, slots>>
      BY <1>25 DEF Withdraw, Finished, WrittenBack
    <3> QED
      BY <3>1 DEF Inv, SlotsInv, NoCutover
  <2>5. BrokenInv'
    <3>1. CASE Finished /\ UNCHANGED waiting
      BY <1>25, <3>1 DEF Withdraw, Finished, Inv, BrokenInv
    <3>2. CASE WrittenBack
      <4>1. pc = "withdraw" /\ pc' = "idle" /\ UNCHANGED <<upgrade, active, seen, failed, journal, broken>>
        BY <1>25, <3>2 DEF Withdraw, WrittenBack
      <4>2. updater' = updater \/ (updater' = "turn" => journal = NoCutover)
        BY <3>2 DEF WrittenBack
      <4> QED
        BY <4>1, <4>2 DEF Inv, BrokenInv, Forward, Backward
    <3> QED
      BY <1>25, <3>1, <3>2 DEF Withdraw
  <2> QED
    BY <2>1, <2>2, <2>3, <2>4, <2>5 DEF Inv
<1>26. CASE UpdaterStarts
  <2>1. TypeInv'
    BY <1>26 DEF UpdaterStarts, Idles, files, Inv, TypeInv, TypeOK
  <2>2. LockInv'
    BY <1>26 DEF UpdaterStarts, Idles, files, Inv, LockInv
  <2>3. SchemaInv'
    BY <1>26 DEF UpdaterStarts, Idles, files, Inv, SchemaInv
  <2>4. SlotsInv'
    BY <1>26 DEF UpdaterStarts, Idles, files, Inv, SlotsInv
  <2>5. BrokenInv'
    BY <1>26 DEF UpdaterStarts, Idles, files, Inv, BrokenInv
  <2> QED
    BY <2>1, <2>2, <2>3, <2>4, <2>5 DEF Inv
<1>27. CASE LooksForUpgrade
  <2>1. TypeInv'
    BY <1>27 DEF LooksForUpgrade, Idles, files, Inv, TypeInv, TypeOK
  <2>2. LockInv'
    BY <1>27 DEF LooksForUpgrade, Idles, files, Inv, LockInv
  <2>3. SchemaInv'
    BY <1>27 DEF LooksForUpgrade, Idles, files, Inv, SchemaInv
  <2>4. SlotsInv'
    BY <1>27 DEF LooksForUpgrade, Idles, files, Inv, SlotsInv
  <2>5. BrokenInv'
    BY <1>27 DEF LooksForUpgrade, Idles, files, Inv, BrokenInv
  <2> QED
    BY <2>1, <2>2, <2>3, <2>4, <2>5 DEF Inv
<1>28. CASE LooksForJournal
  <2>1. TypeInv'
    BY <1>28 DEF LooksForJournal, Idles, files, Inv, TypeInv, TypeOK
  <2>2. LockInv'
    BY <1>28 DEF LooksForJournal, Idles, files, Inv, LockInv
  <2>3. SchemaInv'
    BY <1>28 DEF LooksForJournal, Idles, files, Inv, SchemaInv
  <2>4. SlotsInv'
    BY <1>28 DEF LooksForJournal, Idles, files, Inv, SlotsInv
  <2>5. BrokenInv'
    BY <1>28 DEF LooksForJournal, Idles, files, Inv, BrokenInv
  <2> QED
    BY <2>1, <2>2, <2>3, <2>4, <2>5 DEF Inv
<1>29. CASE Recover
  <2>1. TypeInv'
    BY <1>29 DEF Recover, Idles, Undone, files, Inv, TypeInv, TypeOK, Cutover
  <2>2. LockInv'
    BY <1>29 DEF Recover, Idles, Free, files, LockInv, Backward, Upgrading
  <2>3. SchemaInv'
    BY <1>29 DEF Recover, Idles, files, Inv, SchemaInv
  <2>4. SlotsInv'
    BY <1>29 DEF Recover, Idles, files, Inv, SlotsInv
  <2>5. BrokenInv'
    BY <1>29, UndoneFacts, JournalFacts DEF Recover, Idles, files, Inv, BrokenInv, Forward
  <2> QED
    BY <2>1, <2>2, <2>3, <2>4, <2>5 DEF Inv
<1>30. CASE TakeTurn
  <2>1. TypeInv'
    BY <1>30 DEF TakeTurn, Idles, files, Inv, TypeInv, TypeOK
  <2>2. LockInv'
    BY <1>30 DEF TakeTurn, Idles, Free, LockInv, Forward, Backward, Upgrading
  <2>3. SchemaInv'
    BY <1>30 DEF TakeTurn, Idles, files, Inv, SchemaInv
  <2>4. SlotsInv'
    BY <1>30 DEF TakeTurn, Idles, files, Inv, SlotsInv
  <2>5. BrokenInv'
    BY <1>30 DEF TakeTurn, Idles, Free, files, Inv, LockInv, BrokenInv, Forward, Backward
  <2> QED
    BY <2>1, <2>2, <2>3, <2>4, <2>5 DEF Inv
<1>31. CASE TurnIsBusy
  <2>1. TypeInv'
    BY <1>31 DEF TurnIsBusy, Idles, files, Inv, TypeInv, TypeOK
  <2>2. LockInv'
    BY <1>31 DEF TurnIsBusy, Idles, files, Inv, LockInv
  <2>3. SchemaInv'
    BY <1>31 DEF TurnIsBusy, Idles, files, Inv, SchemaInv
  <2>4. SlotsInv'
    BY <1>31 DEF TurnIsBusy, Idles, files, Inv, SlotsInv
  <2>5. BrokenInv'
    BY <1>31 DEF TurnIsBusy, Idles, files, Inv, BrokenInv
  <2> QED
    BY <2>1, <2>2, <2>3, <2>4, <2>5 DEF Inv
<1>32. CASE NotDue
  <2>1. TypeInv'
    BY <1>32 DEF NotDue, Idles, files, Inv, TypeInv, TypeOK
  <2>2. LockInv'
    BY <1>32 DEF NotDue, Idles, files, Inv, LockInv
  <2>3. SchemaInv'
    BY <1>32 DEF NotDue, Idles, files, Inv, SchemaInv
  <2>4. SlotsInv'
    BY <1>32 DEF NotDue, Idles, files, Inv, SlotsInv
  <2>5. BrokenInv'
    BY <1>32 DEF NotDue, Idles, files, Inv, BrokenInv
  <2> QED
    BY <2>1, <2>2, <2>3, <2>4, <2>5 DEF Inv
<1>33. ASSUME NEW v \in Release, CommandChecks(v) PROVE Inv'
  <2>1. TypeInv'
    BY <1>33 DEF CommandChecks, Fetched, around, Inv, TypeInv, TypeOK
  <2>2. LockInv'
    BY <1>33 DEF CommandChecks, around, Inv, LockInv
  <2>3. SchemaInv'
    BY <1>33 DEF CommandChecks, around, Inv, SchemaInv
  <2>4. SlotsInv'
    BY <1>33 DEF CommandChecks, Free, Inv, LockInv, SlotsInv
  <2>5. BrokenInv'
    BY <1>33 DEF CommandChecks, Fetched, around, Inv, TypeInv, BrokenInv, TypeOK, Release, Nothing,
           NoCutover, Cutover
  <2> QED
    BY <2>1, <2>2, <2>3, <2>4, <2>5 DEF Inv
<1>34. CASE CommandStages
  <2>1. TypeInv'
    BY <1>34, StagedFacts DEF CommandStages, around, Inv, TypeInv, TypeOK
  <2>2. LockInv'
    BY <1>34 DEF CommandStages, around, Inv, LockInv
  <2>3. SchemaInv'
    BY <1>34 DEF CommandStages, around, Inv, SchemaInv
  <2>4. SlotsInv'
    BY <1>34, StagedFacts DEF CommandStages, Kept, Inv, SlotsInv
  <2>5. BrokenInv'
    BY <1>34 DEF CommandStages, around, Inv, BrokenInv
  <2> QED
    BY <2>1, <2>2, <2>3, <2>4, <2>5 DEF Inv
<1>35. CASE Apply
  <2>1. TypeInv'
    BY <1>35, UndoneFacts DEF Apply, Begins, Idles, files, around, Inv, TypeInv, TypeOK
  <2>2. LockInv'
    BY <1>35 DEF Apply, Begins, Idles, Free, files, around, Inv, LockInv, Unrecorded, Forward,
           Backward, Upgrading
  <2>3. SchemaInv'
    BY <1>35 DEF Apply, Begins, Idles, files, Inv, SchemaInv
  <2>4. SlotsInv'
    BY <1>35 DEF Apply, Begins, Idles, files, Inv, SlotsInv
  <2>5. BrokenInv'
    <3>1. CASE journal = NoCutover
      BY <1>35, <3>1 DEF Apply, Begins, Idles, files, Inv, BrokenInv
    <3>2. CASE journal # NoCutover
      BY <1>35, <3>2, UndoneFacts, JournalFacts DEF Apply, Begins, Idles, files, Inv, BrokenInv
    <3> QED
      BY <3>1, <3>2
  <2> QED
    BY <2>1, <2>2, <2>3, <2>4, <2>5 DEF Inv
<1>36. CASE Upgrade
  <2>1. TypeInv'
    BY <1>36 DEF Upgrade, Begins, Idles, Undone, files, Inv, TypeInv, TypeOK, Cutover
  <2>2. LockInv'
    BY <1>36 DEF Upgrade, Begins, Idles, Free, files, LockInv, Unrecorded, Forward, Backward,
           Upgrading
  <2>3. SchemaInv'
    BY <1>36 DEF Upgrade, Begins, Idles, files, Inv, SchemaInv
  <2>4. SlotsInv'
    BY <1>36 DEF Upgrade, Begins, Idles, files, Inv, SlotsInv
  <2>5. BrokenInv'
    BY <1>36, UndoneFacts, JournalFacts DEF Upgrade, Begins, Idles, files, Inv, BrokenInv
  <2> QED
    BY <2>1, <2>2, <2>3, <2>4, <2>5 DEF Inv
<1>37. CASE Resume
  <2>1. TypeInv'
    BY <1>37 DEF Resume, Idles, files, Inv, TypeInv, TypeOK
  <2>2. LockInv'
    BY <1>37 DEF Resume, Idles, Free, files, LockInv, Unrecorded, Forward, Backward, Upgrading
  <2>3. SchemaInv'
    BY <1>37 DEF Resume, Idles, files, Inv, SchemaInv
  <2>4. SlotsInv'
    BY <1>37 DEF Resume, Idles, files, Inv, SlotsInv
  <2>5. BrokenInv'
    BY <1>37 DEF Resume, Idles, Free, files, Inv, LockInv, BrokenInv, Forward, Backward
  <2> QED
    BY <2>1, <2>2, <2>3, <2>4, <2>5 DEF Inv
<1>38. ASSUME NEW c \in Connector, ScanBegins(c) PROVE Inv'
  <2>1. TypeInv'
    BY <1>38 DEF ScanBegins, files, Inv, TypeInv, TypeOK
  <2>2. LockInv'
    BY <1>38 DEF ScanBegins, Inv, LockInv, Unrecorded
  <2>3. SchemaInv'
    BY <1>38 DEF ScanBegins, files, Inv, SchemaInv
  <2>4. SlotsInv'
    BY <1>38 DEF ScanBegins, files, Inv, SlotsInv
  <2>5. BrokenInv'
    BY <1>38 DEF ScanBegins, files, Inv, BrokenInv
  <2> QED
    BY <2>1, <2>2, <2>3, <2>4, <2>5 DEF Inv
<1>39. ASSUME NEW c \in Connector, ScanEnds(c) PROVE Inv'
  <2>1. TypeInv'
    BY <1>39 DEF ScanEnds, files, Inv, TypeInv, TypeOK
  <2>2. LockInv'
    BY <1>39 DEF ScanEnds, files, Inv, LockInv
  <2>3. SchemaInv'
    BY <1>39 DEF ScanEnds, files, Inv, SchemaInv
  <2>4. SlotsInv'
    BY <1>39 DEF ScanEnds, files, Inv, SlotsInv
  <2>5. BrokenInv'
    BY <1>39 DEF ScanEnds, files, Inv, BrokenInv
  <2> QED
    BY <2>1, <2>2, <2>3, <2>4, <2>5 DEF Inv
<1>40. CASE UpdaterDies
  <2>1. TypeInv'
    BY <1>40 DEF UpdaterDies, Idles, files, Inv, TypeInv, LockInv, Backward, Upgrading, TypeOK
  <2>2. LockInv'
    BY <1>40 DEF UpdaterDies, Idles, files, Inv, LockInv, Unrecorded, Forward, Backward, Upgrading
  <2>3. SchemaInv'
    BY <1>40 DEF UpdaterDies, Idles, files, Inv, SchemaInv
  <2>4. SlotsInv'
    BY <1>40 DEF UpdaterDies, Idles, files, Inv, SlotsInv
  <2>5. BrokenInv'
    BY <1>40 DEF UpdaterDies, Idles, files, Inv, BrokenInv, Forward
  <2> QED
    BY <2>1, <2>2, <2>3, <2>4, <2>5 DEF Inv
<1>41. CASE CommandDies
  <2>1. TypeInv'
    BY <1>41 DEF CommandDies, files, Inv, TypeInv, TypeOK
  <2>2. LockInv'
    BY <1>41 DEF CommandDies, files, Inv, LockInv, Unrecorded, Forward, Backward, Upgrading
  <2>3. SchemaInv'
    BY <1>41 DEF CommandDies, files, Inv, SchemaInv
  <2>4. SlotsInv'
    BY <1>41 DEF CommandDies, files, Inv, SlotsInv
  <2>5. BrokenInv'
    BY <1>41 DEF CommandDies, files, Inv, LockInv, BrokenInv, Forward, Backward, Upgrading
  <2> QED
    BY <2>1, <2>2, <2>3, <2>4, <2>5 DEF Inv
<1>42. CASE OrphanEnds
  <2>1. TypeInv'
    BY <1>42 DEF OrphanEnds, Migrated, files, Inv, TypeInv, LockInv, TypeOK, SchemaOf
  <2>2. LockInv'
    BY <1>42 DEF OrphanEnds, Inv, LockInv, Unrecorded, Forward, Backward
  <2>3. SchemaInv'
    BY <1>42 DEF OrphanEnds, files, Inv, LockInv, SchemaInv
  <2>4. SlotsInv'
    BY <1>42 DEF OrphanEnds, files, Inv, SlotsInv
  <2>5. BrokenInv'
    BY <1>42 DEF OrphanEnds, files, Inv, BrokenInv
  <2> QED
    BY <2>1, <2>2, <2>3, <2>4, <2>5 DEF Inv
<1>43. CASE HostRestarts
  <2>1. TypeInv'
    BY <1>43 DEF HostRestarts, files, Inv, TypeInv, TypeOK
  <2>2. LockInv'
    BY <1>43 DEF HostRestarts, LockInv, Unrecorded, Forward, Backward, Upgrading
  <2>3. SchemaInv'
    BY <1>43 DEF HostRestarts, Accepts, files, Inv, SchemaInv
  <2>4. SlotsInv'
    BY <1>43 DEF HostRestarts, files, Inv, SlotsInv
  <2>5. BrokenInv'
    BY <1>43 DEF HostRestarts, files, Inv, BrokenInv, Forward
  <2> QED
    BY <2>1, <2>2, <2>3, <2>4, <2>5 DEF Inv
<1> QED
  BY <1>1, <1>2, <1>3, <1>4, <1>5, <1>6, <1>7, <1>8, <1>9, <1>10, <1>11, <1>12, <1>13, <1>14, <1>15,
     <1>16, <1>17, <1>18, <1>19, <1>20, <1>21, <1>22, <1>23, <1>24, <1>25, <1>26, <1>27, <1>28,
     <1>29, <1>30, <1>31, <1>32, <1>33, <1>34, <1>35, <1>36, <1>37, <1>38, <1>39, <1>40, <1>41,
     <1>42, <1>43 DEF Next, Step

\* A host with one installed release and no journal.
LEMMA InitInv ==
  ASSUME ConstantAssumption, Init PROVE Inv
<1>1. 1 \in Release /\ SchemaOf(1) = {}
  <2>1. \A m \in Migrating : m \in Nat /\ m >= 2
    BY DEF ConstantAssumption
  <2>2. \A m \in Migrating : ~(m <= 1)
    BY <2>1
  <2>3. {m \in Migrating : m <= 1} = {}
    BY <2>2
  <2> QED
    BY <2>3 DEF ConstantAssumption, Release, SchemaOf
<1>2. TypeInv
  BY <1>1 DEF Init, TypeInv, TypeOK
<1>3. LockInv
  BY DEF Init, LockInv, Forward, Backward, Upgrading
<1>4. SchemaInv
  BY <1>1 DEF Init, SchemaInv
<1>5. SlotsInv
  BY DEF Init, SlotsInv, NoCutover, Nothing
<1>6. BrokenInv
  BY DEF Init, BrokenInv, NoCutover, Nothing
<1> QED
  BY <1>2, <1>3, <1>4, <1>5, <1>6 DEF Inv

\* Nothing changes when nobody acts.
LEMMA StutterInv ==
  ASSUME Inv, UNCHANGED vars PROVE Inv'
  BY DEF vars, Inv, TypeInv, LockInv, SchemaInv, SlotsInv, BrokenInv, TypeOK

\* The journals, slots, recorded releases and the steps of the lock's holder
\* stay in their types, whoever dies where.
THEOREM TypeCorrect ==
  ASSUME ConstantAssumption PROVE Spec => []TypeOK
<1>1. Inv => TypeOK
  BY DEF Inv, TypeInv
<1> QED
  BY <1>1, InitInv, StepInv, StutterInv, PTL DEF Spec

\* The runtime that serves was built for the schema of the database: through
\* cutovers, upgrades, fallbacks, restarts of the host and recovery from either
\* journal.
THEOREM ServesItsSchemaAlways ==
  ASSUME ConstantAssumption PROVE Spec => []ServesItsSchema
<1>1. Inv => ServesItsSchema
  BY DEF Inv, SchemaInv, ServesItsSchema
<1> QED
  BY <1>1, InitInv, StepInv, StutterInv, PTL DEF Spec

\* Every release that the records and journals name is installed; and where no
\* journal says what to recover, the recorded release serves and fits the
\* database.
THEOREM HostIsAlwaysRecoverable ==
  ASSUME ConstantAssumption PROVE Spec => []HostIsRecoverable
<1>1. Inv => HostIsRecoverable
  BY DEF Inv, SchemaInv, SlotsInv, HostIsRecoverable
<1> QED
  BY <1>1, InitInv, StepInv, StutterInv, PTL DEF Spec

\* The cutover journal is written by Prepare alone.
LEMMA JournalSteps ==
  ASSUME Next PROVE UNCHANGED journal \/ Prepare \/ journal' = NoCutover
<1>1. CASE Step
  BY <1>1 DEF Step, files, Check, Stage, GiveUp, StopOld, Select, StartNew, Conclude, Undo, Revert,
              Restart, Hold, Clear, Plan, Quiet, Drain, Ledger, Migrate, Adopt, Launch, Settle,
              Fallback, Judge, Relaunch, Withdraw
<1>2. CASE ~Step
  BY <1>2 DEF Next, files, Idles, Begins, UpdaterStarts, LooksForUpgrade, LooksForJournal, Recover,
              TakeTurn, TurnIsBusy, NotDue, CommandChecks, CommandStages, Apply, Upgrade, Resume,
              ScanBegins, ScanEnds, UpdaterDies, CommandDies, OrphanEnds, HostRestarts
<1> QED
  BY <1>1, <1>2

\* A journal that comes to name a broken release was asked for by a person.
LEMMA HeldStep ==
  ASSUME ConstantAssumption, Inv, [Next]_vars,
         NEW v \in broken, journal'.candidate = v, journal.candidate # v
  PROVE  op = "retry"
<1>1. v # Nothing /\ v <= seen /\ v \in Release
  BY DEF Inv, BrokenInv, TypeInv, TypeOK
<1>2. Prepare /\ UNCHANGED <<candidate, seen, active>>
  BY <1>1, JournalSteps DEF vars, NoCutover, Nothing, Prepare
<1>3. candidate = v /\ candidate > active
  BY <1>2 DEF Prepare
<1>4. seen = v /\ active # seen
  BY <1>1, <1>3 DEF Inv, TypeInv, TypeOK, Release
<1>5. failed = v
  BY <1>4 DEF Inv, BrokenInv
<1> QED
  BY <1>2, <1>3, <1>5 DEF Prepare, NotHeld

\* A release whose cutover was undone is never applied again by the watcher,
\* however it was interrupted before the hold was written.
THEOREM BrokenStaysHeld ==
  ASSUME ConstantAssumption PROVE Spec => BrokenIsHeld
<1>1. Inv /\ [Next]_vars =>
        \A v \in broken : journal'.candidate = v /\ journal.candidate # v => op = "retry"
  BY HeldStep
<1> QED
  BY <1>1, InitInv, StepInv, StutterInv, PTL DEF Spec, BrokenIsHeld

=============================================================================
