---------------------------- MODULE JournalProofs ----------------------------
(***************************************************************************)
(* Theorems about Journal, for every set of memories and requests, every   *)
(* assignment of roles, batch size and bound.                              *)
(***************************************************************************)
EXTENDS Journal, FiniteSetTheorems, TLAPS

(***************************************************************************)
(* Groups of variables that a step leaves alone.                           *)
(***************************************************************************)
rowVars == <<memoryVars, count, event>>
deliveryVars == <<count, state, spool, gitVars, historyVars>>

LEMMA RowsKept == ASSUME RowsOK, UNCHANGED rowVars PROVE RowsOK'
  BY DEF RowsOK, rowVars, memoryVars
LEMMA DeliveryKept == ASSUME DeliveryOK, UNCHANGED deliveryVars PROVE DeliveryOK'
  BY DEF DeliveryOK, deliveryVars, gitVars, historyVars
LEMMA PolicyKept == ASSUME PolicyOK, UNCHANGED policyVars PROVE PolicyOK'
  BY DEF PolicyOK, policyVars
LEMMA ProcessesKept == ASSUME ProcessesOK, UNCHANGED <<control, pc, req, count>> PROVE ProcessesOK'
  BY DEF ProcessesOK
LEMMA PushesKept == ASSUME PushesOK, UNCHANGED pushVars, UNCHANGED count PROVE PushesOK'
  BY DEF PushesOK, pushVars

LEMMA NoneIsNoProcess == None \notin Process
  BY ConstantAssumption

LEMMA NumbersAreEvents == RowsOK => 1..count \subseteq Event
  BY ConstantAssumption DEF RowsOK, Event

LEMMA LeaveType ==
  ASSUME ProcessesOK, PushesOK, NEW p \in Process, NEW l \in {"idle", "failed"}, Leave(p, l),
         l = "failed" => req[p] # 0, RowsOK, UNCHANGED count
  PROVE  ProcessesOK' /\ PushesOK'
<1>1. ProcessesOK'
  BY NoneIsNoProcess DEF Leave, Released, ProcessesOK, Goto, RowsOK
<1>2. PushesOK'
  BY ConstantAssumption DEF Leave, Returned, PushesOK
<1> QED
  BY <1>1, <1>2

LEMMA GotoType ==
  ASSUME ProcessesOK, NEW p \in Process, NEW l, Goto(p, l), UNCHANGED <<control, req, count>>,
         \/ /\ pc[p] \notin {"fetch", "check", "send"}
            /\ l \in {"flush", "write", "begin", "select", "lock", "ack", "mark"}
         \/ pc[p] \in {"fetch", "check", "send"} /\ l \in {"fetch", "check", "send"}
  PROVE  ProcessesOK'
  BY NoneIsNoProcess DEF Goto, ProcessesOK

LEMMA CaptureType ==
  ASSUME TypeOK, NEW p \in Request, NEW m \in Memory, pc[p] = "idle",
         NEW act \in {"upsert", "quarantine", "forget"}, NEW imp \in BOOLEAN, NEW key \in BOOLEAN,
         NEW hit \in SUBSET Sent, Capture(p, m, act, imp, key, hit),
         review' \in [Memory -> {"absent", "ordinary", "quarantined", "forgotten"}],
         writers' \in [Memory -> SUBSET Request], marked' \subseteq Memory,
         exposed' \subseteq 1..count
  PROVE  TypeOK'
<1> USE DEF TypeOK
<1>1. count + 1 \in Event /\ count' = count + 1 /\ p \in Process
  BY DEF Capture, Process
<1>2. RowsOK'
  <2>1. count' \in 0..EventBound
    BY <1>1 DEF RowsOK, Event
  <2>2. NextVersion(m, act) \in 0..count' /\ NextVersion(m, act) \in 0..EventBound
    BY <1>1, ConstantAssumption DEF RowsOK, NextVersion, Event
  <2>3. version' \in [Memory -> 0..count']
    BY <1>1, <2>2 DEF Capture, RowsOK
  <2>4. event' \in [Event -> [mem : Memory \cup {None}, ver : 0..EventBound,
                            by : Request \cup {None},
                            act : {"none", "upsert", "quarantine", "forget"},
                            imp : BOOLEAN, key : BOOLEAN]]
    BY <1>1, <2>2 DEF Capture, RowsOK
  <2>5. \A e \in 1..count' : event'[e].mem \in Memory
    <3> SUFFICES ASSUME NEW e \in 1..(count + 1) PROVE event'[e].mem \in Memory
      BY <1>1
    <3>1. CASE e = count + 1
      BY <1>1, <3>1 DEF Capture, RowsOK
    <3>2. CASE e # count + 1
      <4>1. e \in 1..count
        BY <3>2 DEF RowsOK
      <4>2. e \in Event
        BY <4>1, NumbersAreEvents
      <4>3. DOMAIN event = Event
        BY DEF RowsOK
      <4>4. event'[e] = event[e]
        BY <3>2, <4>2, <4>3 DEF Capture
      <4> QED
        BY <4>1, <4>4 DEF RowsOK
    <3> QED
      BY <3>1, <3>2
  <2> QED
    BY <2>1, <2>3, <2>4, <2>5 DEF RowsOK
<1>3. DeliveryOK'
  <2>1. state' \in [Event -> {"none", "pending", "local", "pushed", "suppressed"}]
    BY DEF Capture, DeliveryOK
  <2>2. \A e \in Event : state'[e] = "none" <=> e > count'
    BY <1>1 DEF Capture, DeliveryOK, Event, Sent, RowsOK
  <2> QED
    BY <1>1, <2>1, <2>2 DEF Capture, DeliveryOK, gitVars, RowsOK
<1>4. PolicyOK'
  BY PolicyKept DEF Capture
<1>5. ProcessesOK'
  BY <1>1, NoneIsNoProcess DEF Capture, Goto, ProcessesOK, RowsOK
<1>6. PushesOK'
  <2>1. 1..count \subseteq 1..count' /\ {count + 1} \in SUBSET (1..count')
    BY <1>1 DEF RowsOK
  <2> QED
    BY <1>1, <2>1 DEF Capture, PushesOK
<1> QED
  BY <1>2, <1>3, <1>4, <1>5, <1>6

LEMMA ChangeType == ASSUME TypeOK, NEW p \in Process, Change(p) PROVE TypeOK'
<1> PICK m \in Memory : \/ \E imp \in BOOLEAN : Save(p, m, imp) \/ Revise(p, m, imp)
                        \/ Quarantine(p, m)
                        \/ Release(p, m)
                        \/ Forget(p, m)
  BY DEF Change
<1>1. Suppressible(p, m) \subseteq Sent /\ Escaped(m) \subseteq 1..count
  BY DEF Suppressible, Escaped, Of, Sent, TypeOK, DeliveryOK, RowsOK, Event
<1>2. RowsOK /\ exposed \subseteq 1..count
  BY DEF TypeOK, DeliveryOK
<1> {} \in SUBSET Sent
  OBVIOUS
<1>3. ASSUME NEW imp \in BOOLEAN, Save(p, m, imp) PROVE TypeOK'
  <2>1. /\ review' \in [Memory -> {"absent", "ordinary", "quarantined", "forgotten"}]
        /\ writers' \in [Memory -> SUBSET Request] /\ marked' \subseteq Memory
        /\ exposed' \subseteq 1..count
    BY <1>2, <1>3 DEF Save, Mark, RowsOK
  <2>2. Capture(p, m, "upsert", imp, TRUE, {}) /\ p \in Request /\ pc[p] = "idle"
    BY <1>3 DEF Save
  <2> QED
    BY <2>1, <2>2, CaptureType
<1>4. ASSUME NEW imp \in BOOLEAN, Revise(p, m, imp) PROVE TypeOK'
  <2>1. /\ review' \in [Memory -> {"absent", "ordinary", "quarantined", "forgotten"}]
        /\ writers' \in [Memory -> SUBSET Request] /\ marked' \subseteq Memory
        /\ exposed' \subseteq 1..count
    BY <1>2, <1>4 DEF Revise, Mark, RowsOK
  <2>2. Capture(p, m, "upsert", imp, TRUE, {}) /\ p \in Request /\ pc[p] = "idle"
    BY <1>4 DEF Revise
  <2> QED
    BY <2>1, <2>2, CaptureType
<1>5. CASE Quarantine(p, m)
  BY <1>1, <1>2, <1>5, CaptureType, ConstantAssumption DEF Quarantine, RowsOK
<1>6. CASE Release(p, m)
  <2>1. /\ review' \in [Memory -> {"absent", "ordinary", "quarantined", "forgotten"}]
        /\ writers' \in [Memory -> SUBSET Request] /\ marked' \subseteq Memory
        /\ exposed' \subseteq 1..count
    BY <1>2, <1>6 DEF Release, RowsOK
  <2>2. Capture(p, m, "upsert", m \in marked, FALSE, {}) /\ p \in Request /\ pc[p] = "idle"
    BY <1>6, ConstantAssumption DEF Release
  <2>3. (m \in marked) \in BOOLEAN
    OBVIOUS
  <2> QED
    BY <2>1, <2>2, <2>3, CaptureType
<1>7. CASE Forget(p, m)
  BY <1>1, <1>2, <1>7, CaptureType, ConstantAssumption DEF Forget, RowsOK
<1> QED
  BY <1>3, <1>4, <1>5, <1>6, <1>7

LEMMA FrameType ==
  ASSUME TypeOK, UNCHANGED rowVars, UNCHANGED policyVars, DeliveryOK', ProcessesOK', PushesOK'
  PROVE  TypeOK'
  BY RowsKept, PolicyKept DEF TypeOK

LEMMA StateType ==
  ASSUME DeliveryOK, UNCHANGED <<count, gitVars>>, acked' \subseteq 1..count, UNCHANGED exposed,
         spool' \subseteq 1..count,
         state' \in [Event -> {"none", "pending", "local", "pushed", "suppressed"}],
         \A e \in Event : state'[e] = "none" <=> state[e] = "none"
  PROVE  DeliveryOK'
  BY DEF DeliveryOK, gitVars

LEMMA FlushType == ASSUME TypeOK, NEW p \in Process, Flush(p) PROVE TypeOK'
<1> USE DEF TypeOK
<1>1. CASE FlushSkips(p)
  <2> PICK e \in Event :
        /\ FlushOf(p, e)
        /\ \/ state[e] \in Delivered /\ UNCHANGED state
           \/ /\ state[e] \in Queued
              /\ Text(e) /\ review[event[e].mem] # "ordinary"
              /\ state' = [state EXCEPT ![e] = "suppressed"]
        /\ todo' = [todo EXCEPT ![p] = @ \ {e}]
        /\ UNCHANGED <<memoryVars, count, event, spool, gitVars, policyVars, control, pc, req,
                       batch, pver, head, fresh, tries, historyVars>>
    BY <1>1 DEF FlushSkips
  <2>1. DeliveryOK'
    BY StateType DEF DeliveryOK, Queued, historyVars
  <2>2. ProcessesOK'
    BY ProcessesKept
  <2>3. PushesOK'
    BY DEF PushesOK
  <2> QED
    BY <2>1, <2>2, <2>3, FrameType DEF rowVars
<1>2. CASE FlushLocks(p)
  <2> PICK e \in Event : FlushOf(p, e) /\ Goto(p, "write")
    BY <1>2 DEF FlushLocks
  <2>1. DeliveryOK'
    BY <1>2, DeliveryKept DEF FlushLocks, deliveryVars, eventVars
  <2>2. ProcessesOK'
    BY <1>2, GotoType DEF FlushLocks, FlushOf, eventVars
  <2>3. PushesOK'
    BY <1>2, PushesKept DEF FlushLocks, eventVars
  <2> QED
    BY <1>2, <2>1, <2>2, <2>3, FrameType DEF FlushLocks, rowVars, eventVars
<1>3. CASE FlushWrites(p)
  <2> PICK e \in Event :
        /\ pc[p] = "write" /\ IsFirst(p, e)
        /\ spool' = Written(e)
        /\ state' = [state EXCEPT ![e] = "local"]
        /\ todo' = [todo EXCEPT ![p] = @ \ {e}]
        /\ Goto(p, "flush")
        /\ UNCHANGED <<memoryVars, count, event, gitVars, policyVars, control, req, batch, pver,
                       head, fresh, tries, historyVars>>
    BY <1>3 DEF FlushWrites
  <2>1. e \in 1..count /\ state[e] # "none"
    BY DEF IsFirst, PushesOK, DeliveryOK, RowsOK
  <2>2. spool' \subseteq 1..count
    BY <2>1 DEF Written, DeliveryOK
  <2>3. DeliveryOK'
    BY <2>1, <2>2, StateType DEF DeliveryOK, historyVars
  <2>4. ProcessesOK'
    BY GotoType
  <2>5. PushesOK'
    BY DEF PushesOK
  <2> QED
    BY <2>3, <2>4, <2>5, FrameType DEF rowVars
<1>4. CASE Flushed(p)
  <2>1. DeliveryOK'
    BY <1>4, DeliveryKept DEF Flushed, deliveryVars, eventVars
  <2>2. ProcessesOK' /\ PushesOK'
    BY <1>4, GotoType, LeaveType, PushesKept DEF Flushed, eventVars
  <2> QED
    BY <1>4, <2>1, <2>2, FrameType DEF Flushed, rowVars, eventVars
<1> QED
  BY <1>1, <1>2, <1>3, <1>4 DEF Flush

\* p's own variables after a step that only moves it on.
LEMMA MoveType ==
  ASSUME TypeOK, PushesOK', NEW p \in Process, NEW l, Goto(p, l),
         UNCHANGED <<rowVars, policyVars, deliveryVars, req, control>>,
         \/ /\ pc[p] \notin {"fetch", "check", "send"}
            /\ l \in {"flush", "write", "begin", "select", "lock", "ack", "mark"}
         \/ pc[p] \in {"fetch", "check", "send"} /\ l \in {"fetch", "check", "send"}
  PROVE  TypeOK'
<1>1. ProcessesOK'
  BY GotoType DEF TypeOK, rowVars
<1>2. DeliveryOK'
  BY DeliveryKept DEF TypeOK
<1> QED
  BY <1>1, <1>2, FrameType

LEMMA SucceedType ==
  ASSUME TypeOK, NEW p \in Process, Succeed(p),
         UNCHANGED <<memoryVars, eventVars, gitVars, policyVars, exposed>>, spool' \subseteq spool
  PROVE  TypeOK'
<1> USE DEF TypeOK
<1>1. acked' \subseteq 1..count
  <2>1. req[p] # 0 => req[p] \in 1..count
    BY DEF ProcessesOK, RowsOK
  <2> QED
    BY <2>1 DEF Succeed, DeliveryOK
<1>2. DeliveryOK'
  BY <1>1, StateType DEF DeliveryOK, eventVars
<1>3. ProcessesOK' /\ PushesOK'
  BY LeaveType DEF Succeed, eventVars
<1> QED
  BY <1>2, <1>3, FrameType DEF rowVars, eventVars

LEMMA LeftType == TypeOK => \A p \in Process : Left(p) \subseteq SUBSET (1..count)
  BY DEF Left, TypeOK, PushesOK

LEMMA CommitsType ==
  ASSUME DeliveryOK, NEW added, Commits(added), UNCHANGED <<count, state, spool, historyVars>>
  PROVE  DeliveryOK'
<1>1. records' \in [Event -> Nat] /\ tip' \in Nat /\ strays' = {}
  BY DEF Commits, DeliveryOK
<1> QED
  BY <1>1 DEF DeliveryOK, historyVars

LEMMA PushType == ASSUME TypeOK, NEW p \in Process, Push(p) PROVE TypeOK'
<1>1. CASE Begin(p)
  <2>1. PushesOK'
    BY <1>1 DEF Begin, PushesOK, TypeOK, PolicyOK, eventVars
  <2> QED
    BY <1>1, <2>1, MoveType DEF Begin, rowVars, deliveryVars, eventVars
<1>2. CASE SelectsNothing(p)
  BY <1>2, SucceedType DEF SelectsNothing
<1>3. CASE Selects(p)
  <2>1. Selected(p) \subseteq 1..count
    BY DEF Selected, Publishable, Queued, TypeOK, DeliveryOK, RowsOK, Event
  <2>2. PushesOK'
    BY <1>3, <2>1 DEF Selects, PushesOK, TypeOK, eventVars
  <2> QED
    BY <1>3, <2>2, MoveType DEF Selects, rowVars, deliveryVars, eventVars
<1>4. CASE Fetch(p)
  <2>1. Missing(p) \subseteq 1..count
    BY DEF Missing, TypeOK, PushesOK
  <2>2. PushesOK'
    BY <1>4, <2>1 DEF Fetch, PushesOK, TypeOK, DeliveryOK, eventVars
  <2>3. ProcessesOK'
    BY <1>4, NoneIsNoProcess DEF Fetch, Goto, ProcessesOK, TypeOK, eventVars
  <2>4. DeliveryOK'
    BY <1>4, DeliveryKept DEF Fetch, deliveryVars, eventVars, TypeOK
  <2> QED
    BY <1>4, <2>2, <2>3, <2>4, FrameType DEF Fetch, rowVars, eventVars
<1>5. CASE Check(p)
  <2>1. PushesOK'
    BY <1>5, PushesKept DEF Check, TypeOK, eventVars
  <2> QED
    BY <1>5, <2>1, MoveType DEF Check, rowVars, deliveryVars, eventVars
<1>6. CASE Send(p)
  <2>1. PushesOK'
    BY <1>6, ConstantAssumption DEF Send, Returned, PushesOK, TypeOK, eventVars
  <2>2. ProcessesOK'
    BY <1>6, NoneIsNoProcess DEF Send, Goto, ProcessesOK, TypeOK, eventVars
  <2>3. UNCHANGED <<count, state, spool, historyVars>>
    BY <1>6 DEF Send, eventVars
  <2>4. DeliveryOK'
    BY <1>6, <2>3, CommitsType, DeliveryKept DEF Send, Pushed, deliveryVars, TypeOK
  <2> QED
    BY <1>6, <2>1, <2>2, <2>4, FrameType DEF Send, rowVars, eventVars
<1>7. CASE SendRejected(p)
  <2>1. tries[p] + 1 \in 0..MaxTries
    BY <1>7, ConstantAssumption DEF SendRejected, TypeOK, PushesOK
  <2>2. PushesOK'
    BY <1>7, <2>1 DEF SendRejected, PushesOK, TypeOK, eventVars
  <2> QED
    BY <1>7, <2>2, MoveType DEF SendRejected, rowVars, deliveryVars, eventVars
<1>8. CASE MarkPushed(p)
  <2>1. DeliveryOK'
    BY <1>8, StateType DEF MarkPushed, Marked, DeliveryOK, TypeOK, historyVars
  <2>2. ProcessesOK' /\ PushesOK'
    BY <1>8, GotoType, PushesKept DEF MarkPushed, TypeOK
  <2> QED
    BY <1>8, <2>1, <2>2, FrameType DEF MarkPushed, rowVars
<1>9. CASE Acknowledge(p)
  BY <1>9, SucceedType DEF Acknowledge
<1> QED
  BY <1>1, <1>2, <1>3, <1>4, <1>5, <1>6, <1>7, <1>8, <1>9 DEF Push

LEMMA RestIs == \A p \in Process : /\ Rest(p) \in {"idle", "failed"}
                                   /\ Rest(p) = "failed" => req[p] # 0
  BY DEF Rest

LEMMA FailureType == ASSUME TypeOK, NEW p \in Process, Failure(p) PROVE TypeOK'
<1> USE DEF TypeOK
<1>0. ASSUME Leave(p, Rest(p)), UNCHANGED <<memoryVars, eventVars, policyVars>>, DeliveryOK'
      PROVE  TypeOK'
  <2>1. ProcessesOK' /\ PushesOK'
    BY <1>0, RestIs, LeaveType DEF eventVars
  <2> QED
    BY <1>0, <2>1, FrameType DEF rowVars, eventVars
<1>1. CASE Fails(p)
  <2>1. strays' \subseteq SUBSET (1..count)
    BY <1>1, LeftType DEF Fails, DeliveryOK
  <2>2. DeliveryOK'
    BY <1>1, <2>1 DEF Fails, DeliveryOK, eventVars, historyVars
  <2> QED
    BY <1>0, <1>1, <2>2 DEF Fails
<1>2. CASE FlushTorn(p)
  <2> PICK e \in Event : /\ pc[p] = "write" /\ IsFirst(p, e)
                         /\ \E gone \in SUBSET Receipts(e) : spool' = (spool \ gone) \cup {e}
    BY <1>2 DEF FlushTorn
  <2>1. e \in 1..count
    BY DEF IsFirst, PushesOK
  <2>2. DeliveryOK'
    BY <1>2, <2>1, StateType DEF FlushTorn, DeliveryOK, eventVars, historyVars
  <2> QED
    BY <1>0, <1>2, <2>2 DEF FlushTorn
<1> QED
  BY <1>1, <1>2 DEF Failure

LEMMA PersonType ==
  ASSUME TypeOK, NEW p \in Process, PushNow(p) \/ Retry(p) \/ Abandon(p) PROVE TypeOK'
<1>1. CASE PushNow(p)
  <2>1. PushesOK'
    BY <1>1, PushesKept DEF PushNow, TypeOK, eventVars
  <2> QED
    BY <1>1, <2>1, MoveType DEF PushNow, rowVars, deliveryVars, eventVars
<1>2. CASE Retry(p)
  <2>1. {req[p]} \subseteq 1..count
    BY <1>2 DEF Retry, TypeOK, ProcessesOK, RowsOK
  <2>2. PushesOK'
    BY <1>2, <2>1 DEF Retry, PushesOK, TypeOK, eventVars
  <2> QED
    BY <1>2, <2>2, MoveType DEF Retry, rowVars, deliveryVars, eventVars
<1>3. CASE Abandon(p)
  <2>1. ProcessesOK' /\ PushesOK'
    BY <1>3, LeaveType DEF Abandon, TypeOK, eventVars
  <2>2. DeliveryOK'
    BY <1>3, DeliveryKept DEF Abandon, TypeOK, deliveryVars, eventVars
  <2> QED
    BY <1>3, <2>1, <2>2, FrameType DEF Abandon, rowVars, eventVars
<1> QED
  BY <1>1, <1>2, <1>3

LEMMA OtherType ==
  ASSUME TypeOK, Claim \/ Configure \/ Revoke \/ ForeignCommit \/ StrayLands \/ Crash
  PROVE  TypeOK'
<1>1. CASE Claim
  <2>1. Publisher \in Process
    BY DEF Process
  <2>2. PushesOK'
    BY <1>1, PushesKept DEF Claim, TypeOK, eventVars
  <2> QED
    BY <1>1, <2>1, <2>2, MoveType DEF Claim, rowVars, deliveryVars, eventVars
<1>2. CASE Configure \/ Revoke
  <2>0. paused' \in BOOLEAN /\ live' \in BOOLEAN
    BY <1>2, Zenon DEF Configure, Revoke, PolicyOK, TypeOK
  <2>1. PolicyOK'
    BY <1>2, <2>0 DEF Configure, Revoke, PolicyOK, TypeOK
  <2>2. RowsOK'
    BY <1>2, RowsKept DEF Configure, Revoke, TypeOK, rowVars, eventVars
  <2>3. DeliveryOK'
    BY <1>2, DeliveryKept DEF Configure, Revoke, TypeOK, deliveryVars, eventVars
  <2>4. ProcessesOK' /\ PushesOK'
    BY <1>2, ProcessesKept, PushesKept DEF Configure, Revoke, TypeOK, eventVars
  <2> QED
    BY <2>1, <2>2, <2>3, <2>4 DEF TypeOK
<1>3. CASE ForeignCommit \/ StrayLands
  <2>1. DeliveryOK'
    BY <1>3, CommitsType DEF ForeignCommit, StrayLands, TypeOK, eventVars
  <2>2. ProcessesOK' /\ PushesOK'
    BY <1>3, ProcessesKept, PushesKept DEF ForeignCommit, StrayLands, TypeOK, eventVars
  <2> QED
    BY <1>3, <2>1, <2>2, FrameType DEF ForeignCommit, StrayLands, rowVars, eventVars
<1>4. CASE Crash
  <2>0. strays' \subseteq SUBSET (1..count)
    <3>1. strays' = strays \cup UNION {Left(p) : p \in Process}
      BY <1>4 DEF Crash
    <3>2. strays \subseteq SUBSET (1..count)
      BY DEF TypeOK, DeliveryOK
    <3>3. UNION {Left(p) : p \in Process} \subseteq SUBSET (1..count)
      BY LeftType
    <3> QED
      BY <3>1, <3>2, <3>3
  <2>1. DeliveryOK'
    BY <1>4, <2>0 DEF Crash, TypeOK, DeliveryOK, eventVars, historyVars
  <2>2. ProcessesOK'
    BY <1>4, RestIs, NoneIsNoProcess DEF Crash, Busy, ProcessesOK, TypeOK, eventVars, RowsOK
  <2>3. PushesOK'
    BY <1>4, ConstantAssumption DEF Crash, PushesOK, TypeOK, eventVars
  <2> QED
    BY <1>4, <2>1, <2>2, <2>3, FrameType DEF Crash, rowVars, eventVars
<1> QED
  BY <1>1, <1>2, <1>3, <1>4

LEMMA InitType == Init => TypeOK
<1> SUFFICES ASSUME Init PROVE TypeOK
  OBVIOUS
<1>1. RowsOK
  BY ConstantAssumption DEF Init, RowsOK, NoEvent
<1>2. DeliveryOK
  BY DEF Init, DeliveryOK, Event
<1>3. PolicyOK
  <2>1. policy \in Nat /\ since \in 1..policy
    BY DEF Init
  <2>2. paused \in BOOLEAN /\ live \in BOOLEAN
    BY Zenon DEF Init
  <2> QED
    BY <2>1, <2>2 DEF PolicyOK
<1>4. ProcessesOK
  BY NoneIsNoProcess DEF Init, ProcessesOK
<1>5. PushesOK
  BY ConstantAssumption DEF Init, PushesOK
<1> QED
  BY <1>1, <1>2, <1>3, <1>4, <1>5 DEF TypeOK

LEMMA StutterType == ASSUME TypeOK, UNCHANGED vars PROVE TypeOK'
<1>1. UNCHANGED <<rowVars, deliveryVars, policyVars, pushVars, control, pc, req, count>>
  BY DEF vars, rowVars, deliveryVars, eventVars
<1> QED
  BY <1>1, RowsKept, DeliveryKept, PolicyKept, ProcessesKept, PushesKept DEF TypeOK

\* The types of the rows, the receipts, the branch and the locals; every event
\* number is used once, and the control lock is held from fetch to push only.
THEOREM TypeCorrect == Spec => []TypeOK
<1>1. TypeOK /\ [Next]_vars => TypeOK'
  BY ChangeType, FlushType, PushType, FailureType, PersonType, OtherType, StutterType DEF Next
<1> QED
  BY InitType, <1>1, PTL DEF Spec

(***************************************************************************)
(* The branch.  Seen from it, a step fetches, checks, confirms or gives up *)
(* the push of a process, and at most one process adds to the branch.      *)
(***************************************************************************)
Keeps(q) == /\ pc'[q] = pc[q] /\ batch'[q] = batch[q]
            /\ head'[q] = head[q] /\ fresh'[q] = fresh[q]
Checks(q) == /\ pc[q] = "check" /\ pc'[q] = "send" /\ batch'[q] = batch[q]
             /\ head'[q] = head[q] /\ fresh'[q] = fresh[q]
             /\ Current(q) /\ UNCHANGED <<review, event, state, count>>
Fetches(q) == /\ pc'[q] = "check" /\ batch'[q] = batch[q]
              /\ head'[q] = tip /\ fresh'[q] = Missing(q)
Confirms(q) == /\ pc[q] = "send" /\ pc'[q] = "mark" /\ batch'[q] = batch[q]
               /\ head'[q] = 0
               /\ \A e \in fresh[q] : records'[e] > 0
Away(q) == pc'[q] \notin {"check", "send", "mark"} /\ head'[q] \in {0, head[q]}

\* What the branch accepts as it is: a commit by a stranger, a push nobody
\* waits for, the push of a process that fetched the tip.
Acceptable ==
    {{}} \cup strays \cup {fresh[p] : p \in {q \in Process : pc[q] = "send" /\ tip = head[q]}}

BranchStays == UNCHANGED <<records, tip>> /\ strays' \subseteq Acceptable
BranchGrows == \E added \in Acceptable : Commits(added)

Marks == \A e \in Event : state'[e] = "pushed" =>
             \/ state[e] = "pushed"
             \/ \E p \in Process : pc[p] = "mark" /\ e \in batch[p]

BranchView ==
    /\ \A q \in Process : Keeps(q) \/ Checks(q) \/ Fetches(q) \/ Confirms(q) \/ Away(q)
    /\ BranchStays \/ BranchGrows
    /\ Marks

LEMMA LeaveView ==
  ASSUME TypeOK, NEW p \in Process, NEW l \in {"idle", "failed"}, Leave(p, l)
  PROVE  \A q \in Process : Keeps(q) \/ Away(q)
  BY DEF Leave, Returned, Goto, Keeps, Away, TypeOK, ProcessesOK, PushesOK

LEMMA GotoView ==
  ASSUME TypeOK, NEW p \in Process, NEW l, Goto(p, l), head' = head,
         \A q \in Process \ {p} : batch'[q] = batch[q] /\ fresh'[q] = fresh[q],
         l \notin {"check", "send", "mark"}
  PROVE  \A q \in Process : Keeps(q) \/ Away(q)
  BY DEF Goto, Keeps, Away, TypeOK, ProcessesOK, PushesOK

LEMMA ChangeView == ASSUME TypeOK, NEW p \in Process, Change(p) PROVE BranchView
<1> PICK m \in Memory : \/ \E imp \in BOOLEAN : Save(p, m, imp) \/ Revise(p, m, imp)
                        \/ Quarantine(p, m)
                        \/ Release(p, m)
                        \/ Forget(p, m)
  BY DEF Change
<1> PICK act, imp, key, hit : Capture(p, m, act, imp, key, hit)
  BY DEF Save, Revise, Quarantine, Release, Forget
<1>1. \A q \in Process : Keeps(q) \/ Away(q)
  BY GotoView DEF Capture
<1>2. BranchStays /\ Marks
  BY DEF Capture, BranchStays, Acceptable, gitVars, Marks, TypeOK, DeliveryOK
<1> QED
  BY <1>1, <1>2 DEF BranchView

LEMMA FlushView == ASSUME TypeOK, NEW p \in Process, Flush(p) PROVE BranchView
<1>1. CASE FlushSkips(p)
  BY <1>1 DEF FlushSkips, Keeps, BranchView, BranchStays, Acceptable, gitVars, Marks, TypeOK, DeliveryOK
<1>2. CASE FlushLocks(p)
  BY <1>2, GotoView DEF FlushLocks, BranchView, BranchStays, Acceptable, gitVars, Marks, eventVars, pushVars
<1>3. CASE FlushWrites(p)
  BY <1>3, GotoView DEF FlushWrites, BranchView, BranchStays, Acceptable, gitVars, Marks, TypeOK, DeliveryOK
<1>4. CASE Flushed(p)
  BY <1>4, GotoView, LeaveView DEF Flushed, BranchView, BranchStays, Acceptable, gitVars, Marks, eventVars, pushVars
<1> QED
  BY <1>1, <1>2, <1>3, <1>4 DEF Flush

LEMMA PushView == ASSUME TypeOK, NEW p \in Process, Push(p) PROVE BranchView
<1>1. CASE Begin(p)
  BY <1>1, GotoView DEF Begin, BranchView, BranchStays, Acceptable, gitVars, Marks, eventVars
<1>2. CASE SelectsNothing(p)
  BY <1>2, LeaveView DEF SelectsNothing, Succeed, BranchView, BranchStays, Acceptable, gitVars, Marks, eventVars
<1>3. CASE Selects(p)
  <2>1. \A q \in Process \ {p} : batch'[q] = batch[q] /\ fresh'[q] = fresh[q]
    BY <1>3 DEF Selects, TypeOK, PushesOK
  <2> QED
    BY <1>3, <2>1, GotoView DEF Selects, BranchView, BranchStays, Acceptable, gitVars, Marks, eventVars
<1>4. CASE Fetch(p)
  BY <1>4 DEF Fetch, Goto, Keeps, Fetches, BranchView, BranchStays, Acceptable, gitVars, Marks, eventVars,
              TypeOK, ProcessesOK, PushesOK
<1>5. CASE Check(p)
  BY <1>5 DEF Check, Goto, Keeps, Checks, BranchView, BranchStays, Acceptable, gitVars, Marks, eventVars,
              memoryVars, pushVars, TypeOK, ProcessesOK, PushesOK
<1>6. CASE Send(p)
  <2>1. \A e \in fresh[p] : records'[e] > 0
    <3>1. fresh[p] \subseteq Event
      BY NumbersAreEvents DEF TypeOK, PushesOK
    <3> QED
      BY <1>6, <3>1 DEF Send, Pushed, Commits, TypeOK, DeliveryOK
  <2>2. \A q \in Process : Keeps(q) \/ Confirms(q)
    BY <1>6, <2>1 DEF Send, Returned, Goto, Keeps, Confirms, TypeOK, ProcessesOK, PushesOK
  <2>3. BranchStays \/ BranchGrows
    BY <1>6 DEF Send, Pushed, Acceptable, BranchStays, BranchGrows, gitVars
  <2> QED
    BY <1>6, <2>2, <2>3 DEF Send, BranchView, Marks, eventVars
<1>7. CASE SendRejected(p)
  BY <1>7, GotoView DEF SendRejected, BranchView, BranchStays, Acceptable, gitVars, Marks, eventVars
<1>8. CASE MarkPushed(p)
  <2>1. Marks
    BY <1>8 DEF MarkPushed, Marked, Marks, TypeOK, DeliveryOK
  <2> QED
    BY <1>8, <2>1, GotoView DEF MarkPushed, BranchView, BranchStays, Acceptable, gitVars, pushVars
<1>9. CASE Acknowledge(p)
  BY <1>9, LeaveView DEF Acknowledge, Succeed, BranchView, BranchStays, Acceptable, gitVars, Marks, eventVars
<1> QED
  BY <1>1, <1>2, <1>3, <1>4, <1>5, <1>6, <1>7, <1>8, <1>9 DEF Push

LEMMA FailureView == ASSUME TypeOK, NEW p \in Process, Failure(p) PROVE BranchView
<1>1. \A q \in Process : Keeps(q) \/ Away(q)
  BY RestIs, LeaveView DEF Failure, Fails, FlushTorn
<1>2. BranchStays
  BY DEF Failure, Fails, FlushTorn, Left, Acceptable, BranchStays, gitVars
<1>3. Marks
  BY DEF Failure, Fails, FlushTorn, Marks, eventVars
<1> QED
  BY <1>1, <1>2, <1>3 DEF BranchView

LEMMA OtherView ==
  ASSUME TypeOK,
         \/ \E p \in Process : PushNow(p) \/ Retry(p) \/ Abandon(p)
         \/ Claim \/ Configure \/ Revoke \/ ForeignCommit \/ StrayLands \/ Crash \/ UNCHANGED vars
  PROVE  BranchView
<1>1. ASSUME NEW p \in Process, PushNow(p) \/ Retry(p) PROVE BranchView
  BY <1>1, GotoView DEF PushNow, Retry, BranchView, BranchStays, Acceptable, gitVars, Marks, eventVars, pushVars
<1>2. ASSUME NEW p \in Process, Abandon(p) PROVE BranchView
  BY <1>2, LeaveView DEF Abandon, BranchView, BranchStays, Acceptable, gitVars, Marks, eventVars
<1>3. CASE Claim
  <2>1. Publisher \in Process
    BY DEF Process
  <2> QED
    BY <1>3, <2>1, GotoView DEF Claim, BranchView, BranchStays, Acceptable, gitVars, Marks, eventVars, pushVars
<1>4. CASE Configure \/ Revoke \/ UNCHANGED vars
  BY <1>4 DEF Configure, Revoke, vars, BranchView, Keeps, BranchStays, Acceptable, gitVars, Marks, eventVars, pushVars
<1>5. CASE ForeignCommit \/ StrayLands
  BY <1>5 DEF ForeignCommit, StrayLands, Acceptable, BranchView, Keeps, BranchGrows, Marks, eventVars,
              pushVars
<1>6. CASE Crash
  <2>1. \A q \in Process : Keeps(q) \/ Away(q)
    BY <1>6, RestIs DEF Crash, Busy, Away
  <2>2. BranchStays
    BY <1>6 DEF Crash, Left, BranchStays, Acceptable
  <2>3. Marks
    BY <1>6 DEF Crash, Marks, eventVars
  <2> QED
    BY <2>1, <2>2, <2>3 DEF BranchView
<1> QED
  BY <1>1, <1>2, <1>3, <1>4, <1>5, <1>6

LEMMA StepView == TypeOK /\ [Next]_vars => BranchView
  BY ChangeView, FlushView, PushView, FailureView, OtherView DEF Next

\* Records stay, and what is recorded was about to be.
LEMMA BranchRecords ==
  ASSUME TypeOK, BranchView, NEW e \in Event
  PROVE  /\ records[e] > 0 => records'[e] > 0
         /\ records'[e] = records[e] \/ e \in UNION Acceptable
<1>1. CASE BranchStays
  BY <1>1 DEF BranchStays
<1>2. CASE BranchGrows
  BY <1>2 DEF BranchGrows, Commits, TypeOK, DeliveryOK
<1> QED
  BY <1>1, <1>2 DEF BranchView

\* A process knows the branch as of the tip it fetched: at that tip, what it
\* is about to add is missing, and so is what a stray push would add.
HeadsBehind == \A p \in Process : head[p] <= tip
FreshMissing == \A p \in Process : pc[p] \in {"check", "send"} /\ head[p] = tip
                                       => \A e \in fresh[p] : records[e] = 0
StraysMissing == \A added \in strays : \A e \in added : records[e] = 0
OnceInv == DeliveredOnce /\ HeadsBehind /\ FreshMissing /\ StraysMissing

LEMMA OnceStep == ASSUME TypeOK, TypeOK', OnceInv, BranchView PROVE OnceInv'
<1> USE DEF OnceInv, BranchView
<1>0. UNCHANGED <<records, tip>> \/ tip' = tip + 1
  BY DEF BranchStays, BranchGrows, Commits
<1>1. HeadsBehind'
  BY <1>0 DEF HeadsBehind, TypeOK, DeliveryOK, PushesOK, Keeps, Checks, Fetches, Confirms, Away
<1>2. FreshMissing'
  <2> SUFFICES ASSUME NEW q \in Process,
                      pc'[q] \in {"check", "send"}, head'[q] = tip'
               PROVE  \A e \in fresh'[q] : records'[e] = 0
    BY DEF FreshMissing
  <2>1. tip \in Nat /\ head[q] \in Nat /\ head[q] <= tip
    BY DEF HeadsBehind, TypeOK, DeliveryOK, PushesOK
  <2>2. head'[q] \in {0, head[q], tip}
    BY DEF Keeps, Checks, Fetches, Confirms, Away
  <2>3. UNCHANGED <<records, tip>>
    BY <1>0, <2>1, <2>2
  <2>4. CASE Fetches(q)
    BY <2>3, <2>4 DEF Fetches, Missing
  <2>5. CASE Keeps(q) \/ Checks(q)
    BY <2>3, <2>5 DEF FreshMissing, Keeps, Checks
  <2>6. CASE Confirms(q) \/ Away(q)
    BY <2>6 DEF Confirms, Away
  <2> QED
    BY <2>4, <2>5, <2>6
<1>3. \A added \in Acceptable : \A e \in added : records[e] = 0
  BY DEF Acceptable, FreshMissing, StraysMissing
<1>4. StraysMissing'
  BY <1>3 DEF StraysMissing, BranchStays, BranchGrows, Commits
<1>5. DeliveredOnce'
  <2>1. CASE BranchStays
    BY <2>1 DEF BranchStays, DeliveredOnce
  <2>2. ASSUME NEW added \in Acceptable, Commits(added) PROVE DeliveredOnce'
    BY <1>3, <2>2 DEF Commits, DeliveredOnce
  <2> QED
    BY <2>1, <2>2 DEF BranchGrows
<1> QED
  BY <1>1, <1>2, <1>4, <1>5

\* However an event comes to be pushed again, by a request, a retry, a person
\* or the schedule, after a lost confirmation, a crash or a foreign commit, the
\* branch records it at most once (append on a fetched tip, compare-and-set push).
THEOREM OnceDelivered == Spec => []DeliveredOnce
<1>1. Init => OnceInv
  BY DEF Init, OnceInv, DeliveredOnce, HeadsBehind, FreshMissing, StraysMissing
<1>2. OnceInv /\ TypeOK /\ TypeOK' /\ [Next]_vars => OnceInv'
  BY OnceStep, StepView
<1>3. OnceInv => DeliveredOnce
  BY DEF OnceInv
<1> QED
  BY <1>1, <1>2, <1>3, TypeCorrect, PTL DEF Spec

\* Of a batch past its fetch, the events that are not about to be added are on
\* the branch, and once the push is confirmed all of them are.
BatchRecorded ==
    \A p \in Process :
        /\ pc[p] \in {"check", "send"} => \A e \in batch[p] \ fresh[p] : records[e] > 0
        /\ pc[p] = "mark" => \A e \in batch[p] : records[e] > 0
PublishedInv == PushedIsPublished /\ BatchRecorded

LEMMA PublishedStep == ASSUME TypeOK, TypeOK', PublishedInv, BranchView PROVE PublishedInv'
<1> USE DEF PublishedInv, BranchView
<1>1. \A e \in Event : records[e] > 0 => records'[e] > 0
  BY BranchRecords
<1>2. BatchRecorded'
  <2> SUFFICES ASSUME NEW p \in Process
               PROVE  /\ pc'[p] \in {"check", "send"} =>
                             \A e \in batch'[p] \ fresh'[p] : records'[e] > 0
                      /\ pc'[p] = "mark" => \A e \in batch'[p] : records'[e] > 0
    BY DEF BatchRecorded
  <2>0. batch[p] \subseteq Event
    BY NumbersAreEvents DEF TypeOK, PushesOK
  <2>1. CASE Keeps(p) \/ Checks(p)
    BY <1>1, <2>0, <2>1 DEF BatchRecorded, Keeps, Checks
  <2>2. CASE Fetches(p)
    BY <1>1, <2>0, <2>2 DEF Fetches, Missing, TypeOK, DeliveryOK
  <2>3. CASE Confirms(p)
    BY <1>1, <2>0, <2>3 DEF BatchRecorded, Confirms
  <2>4. CASE Away(p)
    BY <2>4 DEF Away
  <2> QED
    BY <2>1, <2>2, <2>3, <2>4
<1>3. PushedIsPublished'
  BY <1>1 DEF PushedIsPublished, BatchRecorded, Marks
<1> QED
  BY <1>2, <1>3

LEMMA PublishedAlways == Spec => []PublishedInv
<1>1. Init => PublishedInv
  BY DEF Init, PublishedInv, PushedIsPublished, BatchRecorded
<1>2. PublishedInv /\ TypeOK /\ TypeOK' /\ [Next]_vars => PublishedInv'
  BY PublishedStep, StepView
<1> QED
  BY <1>1, <1>2, TypeCorrect, PTL DEF Spec

\* An event the database calls pushed is on the branch, whatever failed between
\* the push and the transaction that marks it.
THEOREM PushedPublished == Spec => []PushedIsPublished
<1>1. PublishedInv => PushedIsPublished
  BY DEF PublishedInv
<1> QED
  BY <1>1, PublishedAlways, PTL

\* What is called pushed is on the branch, and nothing is there twice.
THEOREM PublicationOnce == Spec => []PublishedOnce
  BY OnceDelivered, PushedPublished, PTL DEF PublishedOnce

(***************************************************************************)
(* The rows of the events: a flush holds the row it writes, and every      *)
(* other change of a row waits for it.                                     *)
(***************************************************************************)
RowView ==
    /\ \A e \in Event : \/ state'[e] = state[e]
                        \/ state[e] = "none" /\ state'[e] = "pending"
                        \/ state[e] \in Queued /\ ~Locked(e) /\ state'[e] = "suppressed"
                        \/ state[e] = "local" /\ ~Locked(e) /\ state'[e] = "pushed"
                        \/ Locked(e) /\ state'[e] = "local"
    /\ \A e \in Event : Locked(e)' => \/ Locked(e)
                                      \/ /\ state[e] \in Queued /\ state' = state
                                         /\ Text(e) => review[event[e].mem] = "ordinary"

LEMMA OneFirst ==
  ASSUME TypeOK, NEW p \in Process, NEW e, NEW f, IsFirst(p, e), IsFirst(p, f)
  PROVE  e = f
<1>1. e \in Nat /\ f \in Nat /\ req[p] \in Nat
  BY DEF IsFirst, TypeOK, PushesOK, ProcessesOK, RowsOK
<1> QED
  BY <1>1 DEF IsFirst, Before

\* A step locks no further row when no process comes to "write".
LEMMA LockedKept ==
  ASSUME \A q \in Process : \/ pc'[q] # "write"
                            \/ pc'[q] = pc[q] /\ todo'[q] = todo[q] /\ req'[q] = req[q]
  PROVE  \A e \in Event : Locked(e)' => Locked(e)
  BY DEF Locked, IsFirst, Before

LEMMA LeaveUnlocks ==
  ASSUME TypeOK, NEW p \in Process, NEW l \in {"idle", "failed"}, Leave(p, l)
  PROVE  \A e \in Event : Locked(e)' => Locked(e)
<1>1. \A q \in Process : \/ pc'[q] # "write"
                         \/ pc'[q] = pc[q] /\ todo'[q] = todo[q] /\ req'[q] = req[q]
  BY DEF Leave, Goto, TypeOK, ProcessesOK, PushesOK
<1> QED
  BY <1>1, LockedKept

LEMMA GotoUnlocks ==
  ASSUME TypeOK, NEW p \in Process, NEW l, l # "write", Goto(p, l),
         \A q \in Process \ {p} : todo'[q] = todo[q] /\ req'[q] = req[q]
  PROVE  \A e \in Event : Locked(e)' => Locked(e)
<1>1. \A q \in Process : \/ pc'[q] # "write"
                         \/ pc'[q] = pc[q] /\ todo'[q] = todo[q] /\ req'[q] = req[q]
  BY DEF Goto, TypeOK, ProcessesOK
<1> QED
  BY <1>1, LockedKept

LEMMA CaptureRows ==
  ASSUME TypeOK, NEW p \in Process, NEW m \in Memory, NEW act, NEW imp, NEW key, NEW hit,
         Capture(p, m, act, imp, key, hit), hit \subseteq Suppressible(p, m)
  PROVE  RowView
<1>1. \A e \in Event : Locked(e)' => Locked(e)
  <2>1. \A q \in Process \ {p} : todo'[q] = todo[q] /\ req'[q] = req[q]
    BY DEF Capture, TypeOK, PushesOK, ProcessesOK
  <2> QED
    BY <2>1, GotoUnlocks DEF Capture
<1>2. state[count + 1] = "none" /\ count + 1 \in Event
  BY DEF Capture, TypeOK, DeliveryOK, RowsOK
<1>3. \A e \in hit : state[e] \in Queued /\ ~Locked(e)
  BY DEF Capture, Suppressible
<1> QED
  BY <1>1, <1>2, <1>3 DEF RowView, Capture

LEMMA ChangeRows == ASSUME TypeOK, NEW p \in Process, Change(p) PROVE RowView
<1> PICK m \in Memory : \/ \E imp \in BOOLEAN : Save(p, m, imp) \/ Revise(p, m, imp)
                        \/ Quarantine(p, m)
                        \/ Release(p, m)
                        \/ Forget(p, m)
  BY DEF Change
<1>1. CASE Release(p, m) \/ \E imp \in BOOLEAN : Save(p, m, imp) \/ Revise(p, m, imp)
  <2>1. PICK act, imp, key : Capture(p, m, act, imp, key, {})
    BY <1>1 DEF Save, Revise, Release
  <2> QED
    BY <2>1, CaptureRows
<1>2. CASE Quarantine(p, m) \/ Forget(p, m)
  <2>1. PICK act, imp, key : Capture(p, m, act, imp, key, Suppressible(p, m))
    BY <1>2 DEF Quarantine, Forget
  <2> QED
    BY <2>1, CaptureRows
<1> QED
  BY <1>1, <1>2

LEMMA FlushRows == ASSUME TypeOK, NEW p \in Process, Flush(p) PROVE RowView
<1>1. CASE FlushSkips(p)
  <2> PICK e \in Event :
        /\ FlushOf(p, e)
        /\ \/ state[e] \in Delivered /\ UNCHANGED state
           \/ /\ state[e] \in Queued
              /\ Text(e) /\ review[event[e].mem] # "ordinary"
              /\ state' = [state EXCEPT ![e] = "suppressed"]
        /\ todo' = [todo EXCEPT ![p] = @ \ {e}]
        /\ UNCHANGED <<pc, req>>
    BY <1>1 DEF FlushSkips
  <2>1. \A q \in Process : \/ pc'[q] # "write"
                           \/ pc'[q] = pc[q] /\ todo'[q] = todo[q] /\ req'[q] = req[q]
    BY DEF FlushOf, TypeOK, PushesOK
  <2> QED
    BY <2>1, LockedKept DEF RowView, FlushOf, TypeOK, DeliveryOK
<1>2. CASE FlushLocks(p)
  <2> PICK e \in Event : /\ FlushOf(p, e) /\ state[e] \in Queued /\ Goto(p, "write")
                         /\ Text(e) => review[event[e].mem] = "ordinary"
                         /\ UNCHANGED <<state, todo, req>>
    BY <1>2 DEF FlushLocks, eventVars, pushVars
  <2>1. ASSUME NEW f \in Event, Locked(f)' PROVE Locked(f) \/ f = e
    <3>1. PICK q \in Process : pc'[q] = "write" /\ IsFirst(q, f)
      BY <2>1 DEF Locked, IsFirst, Before
    <3>2. CASE q = p
      BY <3>1, <3>2, OneFirst DEF FlushOf
    <3>3. CASE q # p
      BY <3>1, <3>3 DEF Locked, Goto, TypeOK, ProcessesOK
    <3> QED
      BY <3>2, <3>3
  <2> QED
    BY <2>1 DEF RowView
<1>3. CASE FlushWrites(p)
  <2> PICK e \in Event : /\ pc[p] = "write" /\ IsFirst(p, e)
                         /\ state' = [state EXCEPT ![e] = "local"]
                         /\ todo' = [todo EXCEPT ![p] = @ \ {e}]
                         /\ Goto(p, "flush")
                         /\ UNCHANGED req
    BY <1>3 DEF FlushWrites
  <2>1. Locked(e)
    BY DEF Locked
  <2>2. \A f \in Event : Locked(f)' => Locked(f)
    BY GotoUnlocks DEF TypeOK, PushesOK
  <2> QED
    BY <2>1, <2>2 DEF RowView, TypeOK, DeliveryOK
<1>4. CASE Flushed(p)
  <2>1. \A f \in Event : Locked(f)' => Locked(f)
    BY <1>4, GotoUnlocks, LeaveUnlocks DEF Flushed, pushVars
  <2> QED
    BY <1>4, <2>1 DEF Flushed, RowView, eventVars
<1> QED
  BY <1>1, <1>2, <1>3, <1>4 DEF Flush

LEMMA PushRows == ASSUME TypeOK, NEW p \in Process, Push(p) PROVE RowView
<1>1. CASE SelectsNothing(p) \/ Acknowledge(p)
  BY <1>1, LeaveUnlocks DEF SelectsNothing, Acknowledge, Succeed, RowView, eventVars
<1>2. CASE Selects(p)
  <2>1. \A q \in Process \ {p} : todo'[q] = todo[q] /\ req'[q] = req[q]
    BY <1>2 DEF Selects, TypeOK, PushesOK
  <2> QED
    BY <1>2, <2>1, GotoUnlocks DEF Selects, RowView, eventVars
<1>3. CASE Begin(p) \/ Fetch(p) \/ Check(p) \/ Send(p) \/ SendRejected(p)
  <2>1. UNCHANGED <<state, todo, req>>
    BY <1>3 DEF Begin, Fetch, Check, Send, SendRejected, eventVars, pushVars
  <2>2. \E l \in {"select", "check", "send", "mark", "fetch"} : Goto(p, l)
    BY <1>3 DEF Begin, Fetch, Check, Send, SendRejected
  <2> QED
    BY <2>1, <2>2, GotoUnlocks DEF RowView
<1>4. CASE MarkPushed(p)
  <2>1. \A f \in Event : Locked(f)' => Locked(f)
    BY <1>4, GotoUnlocks DEF MarkPushed, pushVars
  <2> QED
    BY <1>4, <2>1 DEF MarkPushed, Marked, RowView, Queued
<1> QED
  BY <1>1, <1>2, <1>3, <1>4 DEF Push

LEMMA OtherRows ==
  ASSUME TypeOK,
         \/ \E p \in Process : Failure(p) \/ PushNow(p) \/ Retry(p) \/ Abandon(p)
         \/ Claim \/ Configure \/ Revoke \/ ForeignCommit \/ StrayLands \/ Crash \/ UNCHANGED vars
  PROVE  RowView
<1>1. state' = state
  BY DEF Failure, Fails, FlushTorn, PushNow, Retry, Abandon, Claim, Configure,
         Revoke, ForeignCommit, StrayLands, Crash, vars, eventVars
<1>2. \A f \in Event : Locked(f)' => Locked(f)
  <2>1. ASSUME NEW p \in Process, Failure(p) \/ Abandon(p)
        PROVE  \A f \in Event : Locked(f)' => Locked(f)
    BY <2>1, RestIs, LeaveUnlocks DEF Failure, Fails, FlushTorn, Abandon
  <2>2. ASSUME NEW p \in Process, PushNow(p) \/ Retry(p)
        PROVE  \A f \in Event : Locked(f)' => Locked(f)
    <3>1. \A q \in Process \ {p} : todo'[q] = todo[q] /\ req'[q] = req[q]
      BY <2>2 DEF PushNow, Retry, pushVars, TypeOK, PushesOK
    <3>2. Goto(p, "begin") \/ Goto(p, "flush")
      BY <2>2 DEF PushNow, Retry
    <3> QED
      BY <3>1, <3>2, GotoUnlocks
  <2>3. ASSUME Claim PROVE \A f \in Event : Locked(f)' => Locked(f)
    <3>1. Publisher \in Process
      BY DEF Process
    <3> QED
      BY <2>3, <3>1, GotoUnlocks DEF Claim, pushVars
  <2>4. ASSUME Configure \/ Revoke \/ ForeignCommit \/ StrayLands \/ UNCHANGED vars
        PROVE  \A f \in Event : Locked(f)' => Locked(f)
    BY <2>4, LockedKept DEF Configure, Revoke, ForeignCommit, StrayLands, vars, pushVars
  <2>5. ASSUME Crash PROVE \A f \in Event : Locked(f)' => Locked(f)
    BY <2>5, RestIs, LockedKept DEF Crash, Busy
  <2> QED
    BY <2>1, <2>2, <2>3, <2>4, <2>5
<1> QED
  BY <1>1, <1>2 DEF RowView

LEMMA StepRows == TypeOK /\ [Next]_vars => RowView
  BY ChangeRows, FlushRows, PushRows, OtherRows DEF Next

\* The row a flush holds is still to be delivered.
LockedQueued == \A e \in Event : Locked(e) => state[e] \in Queued

LEMMA LockedAlways == Spec => []LockedQueued
<1>1. Init => LockedQueued
  BY DEF Init, LockedQueued, Locked
<1>2. LockedQueued /\ TypeOK /\ [Next]_vars => LockedQueued'
  BY StepRows DEF RowView, LockedQueued, Queued
<1> QED
  BY <1>1, <1>2, TypeCorrect, PTL DEF Spec

\* No event leaves the states pushed and suppressed, whichever flush, mark,
\* withdrawal or retry comes late.
THEOREM DeliveryFinal == Spec => DeliveryIsFinal
<1>1. LockedQueued /\ TypeOK /\ [Next]_vars
        => [\A e \in Event : state[e] \in Delivered => state'[e] = state[e]]_vars
  BY StepRows DEF RowView, LockedQueued, Queued, Delivered
<1> QED
  BY <1>1, LockedAlways, TypeCorrect, PTL DEF Spec, DeliveryIsFinal

(***************************************************************************)
(* Withdrawn texts.                                                        *)
(***************************************************************************)
\* A text whose memory is not ordinary now, or was not when it was suppressed.
Hidden(e) == Text(e) /\ (state[e] = "suppressed" \/ review[event[e].mem] # "ordinary")

\* On the branch, or past the final check of a push that may still add it.
Departed(e) == records[e] > 0 \/ Leaving(e)

HiddenExposed == \A e \in Sent : Hidden(e) /\ Departed(e) => e \in exposed
FreshOfBatch == \A p \in Process : pc[p] \in {"check", "send"} => fresh[p] \subseteq batch[p]
OnlySentRecorded == \A e \in Event : records[e] > 0 => e \in Sent
PrivateInv == HiddenExposed /\ FreshOfBatch /\ OnlySentRecorded

\* A step that hides a text records that it was leaving.
ExposureView ==
    /\ exposed \subseteq exposed'
    /\ \A e \in Sent : Hidden(e)' => Hidden(e) \/ (Departed(e) => e \in exposed')

LEMMA SentIs == TypeOK => Sent = 1..count /\ Sent \subseteq Event
  BY NumbersAreEvents DEF Sent, TypeOK, DeliveryOK, RowsOK, Event

LEMMA RowsSame ==
  ASSUME UNCHANGED <<review, event, exposed>>,
         \A e \in Event : state'[e] = "suppressed" => \/ state[e] = "suppressed"
                                                      \/ Hidden(e)
  PROVE  ExposureView
  BY DEF ExposureView, Hidden, Text, Sent

LEMMA ChangeExposure == ASSUME TypeOK, NEW p \in Process, Change(p) PROVE ExposureView
<1> PICK m \in Memory : \/ \E imp \in BOOLEAN : Save(p, m, imp) \/ Revise(p, m, imp)
                        \/ Quarantine(p, m)
                        \/ Release(p, m)
                        \/ Forget(p, m)
  BY DEF Change
<1>1. \A e \in Sent : event[e].mem \in Memory
  BY SentIs DEF TypeOK, RowsOK
<1>2. ASSUME NEW act, NEW imp, NEW key, NEW hit, Capture(p, m, act, imp, key, hit)
      PROVE  \A e \in Sent : /\ event'[e] = event[e]
                             /\ e \notin hit => state'[e] = state[e]
  BY <1>2, SentIs DEF Capture, TypeOK, RowsOK
<1>3. CASE Release(p, m) \/ \E imp \in BOOLEAN : Save(p, m, imp) \/ Revise(p, m, imp)
  <2>1. \E act, imp, key : Capture(p, m, act, imp, key, {})
    BY <1>3 DEF Save, Revise, Release
  <2>2. exposed' = exposed /\ review' \in {review, [review EXCEPT ![m] = "ordinary"]}
    BY <1>3 DEF Save, Revise, Release
  <2>3. \A x \in Memory : review'[x] # "ordinary" => review[x] # "ordinary"
    BY <2>2 DEF TypeOK, RowsOK
  <2>4. \A e \in Sent : event'[e] = event[e] /\ state'[e] = state[e]
    BY <1>2, <2>1
  <2> QED
    BY <1>1, <2>2, <2>3, <2>4 DEF ExposureView, Hidden, Text
<1>5. CASE Quarantine(p, m) \/ Forget(p, m)
  <2>1. PICK act, imp, key : Capture(p, m, act, imp, key, Suppressible(p, m))
    BY <1>5 DEF Quarantine, Forget
  <2>2. exposed' = exposed \cup Escaped(m)
    BY <1>5 DEF Quarantine, Forget
  <2>3. \A x \in Memory \ {m} : review'[x] = review[x]
    BY <1>5 DEF Quarantine, Forget, TypeOK, RowsOK
  <2>4. ASSUME NEW e \in Sent, Hidden(e)', Departed(e) PROVE Hidden(e) \/ e \in exposed'
    <3>1. event'[e] = event[e] /\ (e \notin Suppressible(p, m) => state'[e] = state[e])
      BY <1>2, <2>1
    <3>2. CASE event[e].mem = m
      BY <2>2, <2>4, <3>1, <3>2 DEF Hidden, Text, Departed, Escaped, Of
    <3>3. CASE event[e].mem # m
      <4>1. e \notin Suppressible(p, m)
        BY <3>3 DEF Suppressible, Of
      <4> QED
        BY <1>1, <2>3, <2>4, <3>1, <3>3, <4>1 DEF Hidden, Text
    <3> QED
      BY <3>2, <3>3
  <2> QED
    BY <2>2, <2>4 DEF ExposureView
<1> QED
  BY <1>3, <1>5

LEMMA StepExposure == ASSUME TypeOK, [Next]_vars PROVE ExposureView
<1>1. ASSUME NEW p \in Process, Flush(p) PROVE ExposureView
  <2>1. CASE FlushSkips(p)
    BY <2>1, RowsSame DEF FlushSkips, Hidden, memoryVars, historyVars, TypeOK, DeliveryOK
  <2>2. CASE FlushLocks(p)
    BY <2>2, RowsSame DEF FlushLocks, memoryVars, eventVars, historyVars
  <2>3. CASE FlushWrites(p)
    BY <2>3, RowsSame DEF FlushWrites, memoryVars, historyVars, TypeOK, DeliveryOK
  <2>4. CASE Flushed(p)
    BY <2>4, RowsSame DEF Flushed, memoryVars, eventVars, historyVars
  <2> QED
    BY <1>1, <2>1, <2>2, <2>3, <2>4 DEF Flush
<1>2. ASSUME NEW p \in Process, MarkPushed(p) PROVE ExposureView
  BY <1>2, RowsSame DEF MarkPushed, memoryVars, historyVars
<1>3. ASSUME NEW p \in Process, Push(p), ~MarkPushed(p) PROVE ExposureView
  BY <1>3, RowsSame DEF Push, Begin, SelectsNothing, Selects, Fetch, Check, Send, SendRejected,
                        Acknowledge, memoryVars, eventVars, historyVars
<1>4. ASSUME \/ \E p \in Process : Failure(p) \/ PushNow(p) \/ Retry(p) \/ Abandon(p)
             \/ Claim \/ Configure \/ Revoke \/ ForeignCommit \/ StrayLands \/ Crash \/ UNCHANGED vars
      PROVE  ExposureView
  BY <1>4, RowsSame DEF Failure, Fails, FlushTorn, PushNow, Retry, Abandon, Claim,
         Configure, Revoke, ForeignCommit, StrayLands, Crash, vars, memoryVars, eventVars, historyVars
<1> QED
  BY <1>1, <1>2, <1>3, <1>4, ChangeExposure DEF Next

LEMMA DepartedSent == ASSUME TypeOK, OnlySentRecorded, NEW e \in Event, Departed(e) PROVE e \in Sent
<1>1. \A p \in Process : fresh[p] \subseteq Sent
  BY SentIs DEF TypeOK, PushesOK
<1>2. UNION strays \subseteq Sent
  BY SentIs DEF TypeOK, DeliveryOK
<1> QED
  BY <1>1, <1>2 DEF Departed, Leaving, OnlySentRecorded

LEMMA PrivateStep ==
  ASSUME TypeOK, TypeOK', PrivateInv, BranchView, ExposureView, Sent \subseteq Sent'
  PROVE  PrivateInv'
<1> USE DEF PrivateInv
\* What comes to leave in this step has just passed the final check.
<1>1. ASSUME NEW e \in Event, Departed(e)', ~Departed(e)
      PROVE  /\ ~Hidden(e)'
             /\ e \in Sent
  <2>1. PICK q \in Process : Checks(q) /\ e \in fresh[q]
    <3>1. e \notin UNION Acceptable
      BY <1>1 DEF Departed, Leaving, Acceptable
    <3>2. ~(records'[e] > 0) /\ e \notin UNION strays'
      BY <1>1, <3>1, BranchRecords DEF Departed, BranchView, BranchStays, BranchGrows, Commits
    <3>3. PICK q \in Process : pc'[q] = "send" /\ e \in fresh'[q]
      BY <1>1, <3>2 DEF Departed, Leaving
    <3>4. ~Keeps(q)
      BY <1>1, <3>3 DEF Departed, Leaving, Keeps
    <3>5. Checks(q)
      BY <3>3, <3>4 DEF BranchView, Fetches, Confirms, Away
    <3> QED
      BY <3>3, <3>5 DEF Checks
  <2>2. e \in batch[q] /\ e \in Sent
    BY <2>1, SentIs DEF FreshOfBatch, Checks, TypeOK, PushesOK
  <2> QED
    BY <2>1, <2>2 DEF Checks, Current, Hidden, Text
<1>2. HiddenExposed'
  <2> SUFFICES ASSUME NEW e \in Sent', Hidden(e)', Departed(e)' PROVE e \in exposed'
    BY DEF HiddenExposed
  <2>1. e \in Event
    BY DEF Sent
  <2>2. Departed(e)
    BY <1>1, <2>1
  <2>3. e \in Sent
    BY <2>2, <2>1, DepartedSent
  <2> QED
    BY <2>2, <2>3 DEF HiddenExposed, ExposureView
<1>3. FreshOfBatch'
  BY DEF FreshOfBatch, BranchView, Keeps, Checks, Fetches, Missing, Confirms, Away
<1>4. OnlySentRecorded'
  <2> SUFFICES ASSUME NEW e \in Event, records'[e] > 0 PROVE e \in Sent'
    BY DEF OnlySentRecorded
  <2>1. CASE Departed(e)
    BY <2>1, SentIs, DepartedSent
  <2>2. CASE ~Departed(e)
    BY <1>1, <2>2 DEF Departed, Leaving
  <2> QED
    BY <2>1, <2>2
<1> QED
  BY <1>2, <1>3, <1>4

LEMMA PrivateAlways == Spec => []PrivateInv
<1>1. Init => PrivateInv
  BY DEF Init, PrivateInv, HiddenExposed, FreshOfBatch, OnlySentRecorded, Sent
<1>2. TypeOK /\ TypeOK' /\ [Next]_vars => Sent \subseteq Sent'
  BY StepRows DEF RowView, Sent, Queued
<1>3. PrivateInv /\ TypeOK /\ TypeOK' /\ [Next]_vars => PrivateInv'
  BY <1>2, PrivateStep, StepView, StepExposure
<1> QED
  BY <1>1, <1>3, TypeCorrect, PTL DEF Spec

\* The text of a forgotten or suppressed memory reaches the branch only if it
\* was there, or past the final check of a push, when the withdrawal committed:
\* whatever was fetched, planned or selected before is stopped by that check.
THEOREM WithdrawnPrivate == Spec => []WithdrawnStaysPrivate
<1>1. PrivateInv => WithdrawnStaysPrivate
  BY DEF PrivateInv, HiddenExposed, WithdrawnStaysPrivate, Hidden, Departed
<1> QED
  BY <1>1, PrivateAlways, PTL

(***************************************************************************)
(* Receipts, answers and the mirror.  What ties them together is that a    *)
(* withdrawal suppresses the texts it sees, and waits for the flush that   *)
(* holds one: whatever is journaled on the host of a memory that is not    *)
(* ordinary was overlooked.                                                *)
(***************************************************************************)
\* The events tell the history of each memory in the order of its versions.
EventsTell ==
    /\ \A e \in Sent : /\ event[e].mem \in Memory /\ event[e].by \in Request
                       /\ event[e].act \in {"upsert", "quarantine", "forget"}
                       /\ 1 <= event[e].ver /\ event[e].ver <= version[event[e].mem]
                       /\ event[e].act = "forget" => review[event[e].mem] = "forgotten"
                       /\ state[e] = "suppressed" => Text(e)
    /\ \A e, f \in Sent : event[e].mem = event[f].mem /\ e < f => event[e].ver < event[f].ver

\* Neither on the branch nor in a push.
Kept(e) == records[e] = 0 /\ e \notin UNION strays /\ \A p \in Process : e \notin batch[p]

\* The event that speaks for a memory: its current text, the quarantine after
\* which no text left, or its denial.
Speaks(m, e) ==
    CASE review[m] = "ordinary" ->
            Text(e) /\ event[e].ver = version[m] /\ state[e] # "suppressed"
      [] review[m] = "quarantined" ->
            event[e].act = "quarantine" /\ \A f \in Of(m) : Text(f) /\ e < f => Kept(f)
      [] review[m] = "forgotten" -> event[e].act = "forget"
      [] OTHER -> FALSE
MemoriesTold ==
    \A m \in Memory : IF review[m] = "absent" THEN Of(m) = {} ELSE \E e \in Of(m) : Speaks(m, e)

WithdrawnOverlooked ==
    \A e \in Sent :
        /\ Text(e) /\ review[event[e].mem] # "ordinary"
        /\ state[e] = "local" \/ Locked(e)
        => Overlooked(e)

Settled == {"local", "pushed", "suppressed"}

\* What a process knows of the events it delivers.
PushesKnow ==
    \A p \in Process :
        /\ pc[p] \in {"idle", "failed", "begin", "select"} => batch[p] = {}
        /\ pc[p] \notin {"flush", "write"} => todo[p] = {}
        /\ pc[p] = "idle" => req[p] = 0
        /\ \A e \in batch[p] \ todo[p] : state[e] \in Settled
        /\ pc[p] \notin {"idle", "failed"} /\ req[p] # 0 /\ (batch[p] # {} \/ req[p] \notin todo[p])
              => state[req[p]] \in Settled
        /\ req[p] # 0 /\ batch[p] # {} =>
              \/ req[p] \in batch[p] \/ state[req[p]] \in Delivered \/ Overlooked(req[p])
        /\ pc[p] \in {"lock", "fetch", "check", "send", "mark", "ack"} => batch[p] # {}
        /\ pc[p] = "ack" => \A e \in batch[p] : records[e] > 0 /\ state[e] \in Delivered

ReceiptInv ==
    /\ EventsTell /\ MemoriesTold /\ WithdrawnOverlooked /\ PushesKnow
    /\ LocalReceiptDurable /\ ForgottenLeavesNoText /\ AckIsDecided

(***************************************************************************)
(* Either a step changes a memory and nothing else but the rows of its     *)
(* events, or it leaves the memories and events alone.                     *)
(***************************************************************************)
Changes(p, m, act) ==
    LET e == count + 1
    IN  /\ e \in Event /\ count' = e
        /\ event'[e].mem = m /\ event'[e].ver = version[m] + 1
        /\ event'[e].by = p /\ event'[e].act = act
        /\ \A f \in Sent : event'[f] = event[f]
        /\ state'[e] = "pending"
        /\ \A f \in Sent : \/ /\ act = "upsert" \/ f \notin Suppressible(p, m)
                              /\ state'[f] = state[f]
                           \/ /\ act # "upsert" /\ f \in Suppressible(p, m)
                              /\ state'[f] = "suppressed" /\ ~Locked(f)
        /\ version'[m] = version[m] + 1
        /\ \A x \in Memory \ {m} : version'[x] = version[x] /\ review'[x] = review[x]
        /\ \A f \in Event : Locked(f)' => Locked(f)
        /\ UNCHANGED <<spool, gitVars, batch, acked>>

\* What a change makes of its memory, and who may make it.
Reviews(p, m, act) ==
    \/ act = "upsert" /\ review'[m] = "ordinary" /\ review[m] # "forgotten"
    \/ act = "upsert" /\ review[m] = "quarantined" /\ review'[m] = "quarantined"
    \/ act = "quarantine" /\ review'[m] = "quarantined" /\ review[m] \in {"ordinary", "quarantined"}
       /\ p \in Reviewer
    \/ act = "forget" /\ review'[m] = "forgotten" /\ review[m] \in {"ordinary", "quarantined"}

SpoolView ==
    /\ \A e \in spool' : e \in spool \/ (e \in Event /\ Locked(e))
    /\ \A e \in spool \ spool' :
           \/ \E d \in Event : Locked(d) /\ event[d].act = "forget" /\ event[d].mem = event[e].mem
           \/ \E p \in Process : pc[p] = "ack" /\ e \in batch[p]
    /\ \A e \in Event : state'[e] = "local" /\ state[e] # "local" =>
           /\ e \in spool'
           /\ event[e].act = "forget" =>
                  \A f \in spool' : event[f].mem = event[e].mem => f = e

AckView ==
    \A e \in acked' \ acked :
        e # 0 /\ \E p \in Process : req[p] = e /\ (pc[p] = "ack" \/ state[e] \in Delivered)

LEMMA CaptureChanges ==
  ASSUME TypeOK, NEW p \in Request, NEW m \in Memory, NEW act, NEW imp, NEW key, NEW hit,
         Capture(p, m, act, imp, key, hit),
         hit = IF act = "upsert" THEN {} ELSE Suppressible(p, m),
         \A x \in Memory \ {m} : review'[x] = review[x]
  PROVE  Changes(p, m, act)
<1>1. count + 1 \in Event /\ count + 1 \notin Sent /\ Sent \subseteq Event /\ hit \subseteq Sent
  BY SentIs DEF Capture, TypeOK, DeliveryOK, RowsOK, Suppressible, Of
<1>2. DOMAIN event = Event /\ DOMAIN version = Memory
  BY DEF TypeOK, RowsOK
<1>3. /\ event'[count + 1].mem = m /\ event'[count + 1].ver = version[m] + 1
      /\ event'[count + 1].by = p /\ event'[count + 1].act = act
  BY <1>1, <1>2 DEF Capture, NextVersion
<1>4. \A f \in Sent : event'[f] = event[f]
  BY <1>1, <1>2 DEF Capture
<1>5. state'[count + 1] = "pending"
  BY <1>1 DEF Capture
<1>6. \A f \in Sent : IF f \in hit THEN state'[f] = "suppressed" /\ ~Locked(f)
                                  ELSE state'[f] = state[f]
  BY <1>1 DEF Capture
<1>7. version'[m] = version[m] + 1 /\ \A x \in Memory \ {m} : version'[x] = version[x]
  BY <1>2 DEF Capture, NextVersion
<1>8. \A f \in Event : Locked(f)' => Locked(f)
  <2>1. p \in Process /\ \A q \in Process \ {p} : todo'[q] = todo[q] /\ req'[q] = req[q]
    BY DEF Capture, TypeOK, PushesOK, ProcessesOK, Process
  <2> QED
    BY <2>1, GotoUnlocks DEF Capture
<1> QED
  BY <1>1, <1>3, <1>4, <1>5, <1>6, <1>7, <1>8 DEF Changes, Capture

LEMMA ChangeIs ==
  ASSUME TypeOK, NEW p \in Process, Change(p)
  PROVE  p \in Request /\ \E m \in Memory, act \in {"upsert", "quarantine", "forget"} :
             Changes(p, m, act) /\ Reviews(p, m, act)
<1> PICK m \in Memory : \/ \E imp \in BOOLEAN : Save(p, m, imp) \/ Revise(p, m, imp)
                        \/ Quarantine(p, m)
                        \/ Release(p, m)
                        \/ Forget(p, m)
  BY DEF Change
<1>0. p \in Request /\ DOMAIN review = Memory
  BY ConstantAssumption DEF Save, Revise, Quarantine, Release, Forget, TypeOK, RowsOK
<1>1. CASE Release(p, m) \/ \E imp \in BOOLEAN : Save(p, m, imp) \/ Revise(p, m, imp)
  <2>1. PICK imp, key : Capture(p, m, "upsert", imp, key, {})
    BY <1>1 DEF Save, Revise, Release
  <2>2. \A x \in Memory \ {m} : review'[x] = review[x]
    BY <1>0, <1>1 DEF Save, Revise, Release
  <2>3. Reviews(p, m, "upsert")
    BY <1>0, <1>1 DEF Save, Revise, Release, Reviews
  <2> QED
    BY <1>0, <2>1, <2>2, <2>3, CaptureChanges
<1>2. CASE Quarantine(p, m)
  <2>1. PICK imp, key : Capture(p, m, "quarantine", imp, key, Suppressible(p, m))
    BY <1>2 DEF Quarantine
  <2>2. \A x \in Memory \ {m} : review'[x] = review[x]
    BY <1>0, <1>2 DEF Quarantine
  <2>3. Reviews(p, m, "quarantine")
    BY <1>0, <1>2 DEF Quarantine, Reviews
  <2> QED
    BY <1>0, <2>1, <2>2, <2>3, CaptureChanges
<1>3. CASE Forget(p, m)
  <2>1. PICK imp, key : Capture(p, m, "forget", imp, key, Suppressible(p, m))
    BY <1>3 DEF Forget
  <2>2. \A x \in Memory \ {m} : review'[x] = review[x]
    BY <1>0, <1>3 DEF Forget
  <2>3. Reviews(p, m, "forget")
    BY <1>0, <1>3 DEF Forget, Reviews
  <2> QED
    BY <1>0, <2>1, <2>2, <2>3, CaptureChanges
<1> QED
  BY <1>1, <1>2, <1>3

\* Every step that is not a change.
Delivers ==
    \/ \E p \in Process : Flush(p) \/ Push(p) \/ Failure(p)
    \/ \E p \in Process : PushNow(p) \/ Retry(p) \/ Abandon(p)
    \/ Claim \/ Configure \/ Revoke \/ ForeignCommit \/ StrayLands \/ Crash \/ UNCHANGED vars

LEMMA DeliversRows == Delivers => UNCHANGED <<review, version, count, event>>
  BY DEF Delivers, Flush, FlushSkips, FlushLocks, FlushWrites, Flushed, Push, Begin, SelectsNothing,
         Selects, Fetch, Check, Send, SendRejected, MarkPushed, Acknowledge, Failure, Fails,
         FlushTorn, PushNow, Retry, Abandon, Claim, Configure, Revoke,
         ForeignCommit, StrayLands, Crash, vars, memoryVars, eventVars

LEMMA DeliversSpool == ASSUME TypeOK, Delivers PROVE SpoolView
<1>1. ASSUME NEW p \in Process, FlushWrites(p) PROVE SpoolView
  <2> PICK e \in Event : /\ pc[p] = "write" /\ IsFirst(p, e)
                         /\ spool' = Written(e)
                         /\ state' = [state EXCEPT ![e] = "local"]
    BY <1>1 DEF FlushWrites
  <2>1. Locked(e)
    BY DEF Locked
  <2>2. \A f \in Event : state'[f] = "local" /\ state[f] # "local" => f = e
    BY DEF TypeOK, DeliveryOK
  <2> QED
    BY <2>1, <2>2 DEF SpoolView, Written, Receipts
<1>2. ASSUME NEW p \in Process, FlushTorn(p) PROVE SpoolView
  <2> PICK e \in Event : /\ pc[p] = "write" /\ IsFirst(p, e)
                         /\ \E gone \in SUBSET Receipts(e) :
                                /\ event[e].act # "forget" => gone = {}
                                /\ spool' = (spool \ gone) \cup {e}
                         /\ state' = state
    BY <1>2 DEF FlushTorn, eventVars
  <2>1. Locked(e)
    BY DEF Locked
  <2> QED
    BY <2>1 DEF SpoolView, Receipts
<1>3. ASSUME NEW p \in Process, Acknowledge(p) PROVE SpoolView
  BY <1>3 DEF Acknowledge, Acknowledged, SpoolView, eventVars
<1>4. ASSUME NEW p \in Process, FlushSkips(p) \/ MarkPushed(p) PROVE SpoolView
  BY <1>4 DEF FlushSkips, MarkPushed, SpoolView, TypeOK, DeliveryOK
<1>5. ASSUME UNCHANGED <<spool, state>> PROVE SpoolView
  BY <1>5 DEF SpoolView
<1>6. ASSUME Delivers,
             \A p \in Process : ~(FlushWrites(p) \/ FlushTorn(p) \/ Acknowledge(p) \/ FlushSkips(p)
                                  \/ MarkPushed(p))
      PROVE  UNCHANGED <<spool, state>>
  BY <1>6 DEF Delivers, Flush, FlushLocks, Flushed, Push, Begin, SelectsNothing,
         Selects, Fetch, Check, Send, SendRejected, Failure, Fails,
         PushNow, Retry, Abandon, Claim, Configure, Revoke,
         ForeignCommit, StrayLands, Crash, vars, eventVars
<1> QED
  BY <1>1, <1>2, <1>3, <1>4, <1>5, <1>6

LEMMA DeliversAck == ASSUME TypeOK, Delivers PROVE AckView
<1>1. ASSUME NEW p \in Process, SelectsNothing(p) \/ Acknowledge(p) PROVE AckView
  BY <1>1 DEF SelectsNothing, AlreadyDelivered, Acknowledge, Succeed, AckView
<1>2. ASSUME \A p \in Process : ~(SelectsNothing(p) \/ Acknowledge(p)) PROVE acked' = acked
  BY <1>2 DEF Delivers, Flush, FlushSkips, FlushLocks, FlushWrites, Flushed, Push, Begin, Selects,
         Fetch, Check, Send, SendRejected, MarkPushed, Failure, Fails,
         FlushTorn, PushNow, Retry, Abandon, Claim, Configure, Revoke,
         ForeignCommit, StrayLands, Crash, vars, historyVars
<1> QED
  BY <1>1, <1>2 DEF AckView

(***************************************************************************)
(* What a step makes of the batch of each process.                         *)
(***************************************************************************)
Stays(q) == pc'[q] = pc[q] /\ UNCHANGED <<req[q], batch[q], todo[q]>>
Rests(q) == /\ pc'[q] \in {"idle", "failed"} /\ batch'[q] = {} /\ todo'[q] = {}
            /\ pc'[q] = "idle" => req'[q] = 0
Begins(q) == /\ pc[q] = "idle" /\ pc'[q] = "begin"
             /\ UNCHANGED <<req[q], batch[q], todo[q]>>
Starts(q) == /\ pc[q] \in {"idle", "failed"} /\ pc'[q] = "flush"
             /\ batch'[q] = batch[q] /\ todo'[q] = {req'[q]}
Flushes(q) == /\ pc[q] \in {"flush", "write"} /\ pc'[q] \in {"flush", "write"}
              /\ UNCHANGED <<req[q], batch[q]>>
              /\ todo'[q] \subseteq todo[q]
              /\ \A e \in todo[q] \ todo'[q] : state'[e] \in Settled
Chooses(q) == /\ pc[q] = "select" /\ pc'[q] = "flush" /\ ~AlreadyDelivered(q)
              /\ batch'[q] = Selected(q) /\ todo'[q] = Selected(q) /\ UNCHANGED <<req[q], state>>
\* p goes on with what it has, and nothing left to flush.
Goes(q) == /\ todo[q] = {} /\ UNCHANGED <<req[q], batch[q], todo[q]>>
           /\ \/ pc[q] = "begin" /\ pc'[q] = "select"
              \/ pc[q] = "flush" /\ pc'[q] = "begin" /\ batch[q] = {}
              \/ pc[q] = "flush" /\ pc'[q] = "lock" /\ batch[q] # {}
              \/ /\ pc[q] \in {"lock", "fetch", "check", "send"}
                 /\ pc'[q] \in {"fetch", "check", "send", "mark"}
              \/ /\ pc[q] = "mark" /\ pc'[q] = "ack"
                 /\ \A e \in batch[q] : state[e] = "local" => state'[e] = "pushed"

LocalView ==
    \A q \in Process : \/ Stays(q) \/ Rests(q) \/ Begins(q) \/ Starts(q) \/ Flushes(q)
                       \/ Chooses(q) \/ Goes(q)

LEMMA LocalOf ==
  ASSUME NEW p \in Process, \A q \in Process \ {p} : Stays(q),
         Rests(p) \/ Begins(p) \/ Starts(p) \/ Flushes(p) \/ Chooses(p) \/ Goes(p)
  PROVE  LocalView
  BY DEF LocalView

LEMMA LeaveLocal ==
  ASSUME TypeOK, NEW p \in Process, NEW l \in {"idle", "failed"}, Leave(p, l)
  PROVE  LocalView
<1>1. \A q \in Process \ {p} : Stays(q)
  BY DEF Leave, Goto, Stays, TypeOK, ProcessesOK, PushesOK
<1>2. Rests(p)
  BY DEF Leave, Goto, Rests, TypeOK, ProcessesOK, PushesOK
<1> QED
  BY <1>1, <1>2, LocalOf

LEMMA ChangeLocal == ASSUME TypeOK, NEW p \in Process, Change(p) PROVE LocalView
<1>1. PICK m, act, imp, key, hit : Capture(p, m, act, imp, key, hit)
  BY DEF Change, Save, Revise, Quarantine, Release, Forget
<1>2. pc[p] = "idle"
  BY DEF Change, Save, Revise, Quarantine, Release, Forget
<1>3. \A q \in Process \ {p} : Stays(q)
  BY <1>1 DEF Capture, Goto, Stays, TypeOK, ProcessesOK, PushesOK
<1>4. Starts(p)
  BY <1>1, <1>2 DEF Capture, Goto, Starts, TypeOK, ProcessesOK, PushesOK
<1> QED
  BY <1>3, <1>4, LocalOf

LEMMA FlushLocal == ASSUME TypeOK, NEW p \in Process, Flush(p) PROVE LocalView
<1>1. CASE FlushSkips(p)
  <2>1. \A q \in Process \ {p} : Stays(q)
    BY <1>1 DEF FlushSkips, Stays, TypeOK, PushesOK
  <2>2. Flushes(p)
    BY <1>1 DEF FlushSkips, FlushOf, Flushes, Settled, Delivered, TypeOK, PushesOK, DeliveryOK
  <2> QED
    BY <2>1, <2>2, LocalOf
<1>2. CASE FlushLocks(p)
  <2>1. \A q \in Process \ {p} : Stays(q)
    BY <1>2 DEF FlushLocks, pushVars, Goto, Stays, TypeOK, ProcessesOK
  <2>2. Flushes(p)
    BY <1>2 DEF FlushLocks, FlushOf, pushVars, Goto, Flushes, TypeOK, ProcessesOK
  <2> QED
    BY <2>1, <2>2, LocalOf
<1>3. CASE FlushWrites(p)
  <2>1. \A q \in Process \ {p} : Stays(q)
    BY <1>3 DEF FlushWrites, Goto, Stays, TypeOK, ProcessesOK, PushesOK
  <2>2. Flushes(p)
    BY <1>3 DEF FlushWrites, Goto, Flushes, Settled, TypeOK, ProcessesOK, PushesOK, DeliveryOK
  <2> QED
    BY <2>1, <2>2, LocalOf
<1>4. CASE Flushed(p) /\ \E l \in {"lock", "begin"} : Goto(p, l)
  <2>1. \A q \in Process \ {p} : Stays(q)
    BY <1>4 DEF Flushed, Leave, pushVars, Goto, Stays, TypeOK, ProcessesOK, PushesOK
  <2>2. Goes(p)
    BY <1>4 DEF Flushed, Leave, pushVars, Goto, Goes, TypeOK, ProcessesOK, PushesOK
  <2> QED
    BY <2>1, <2>2, LocalOf
<1>5. CASE Flushed(p) /\ Leave(p, "idle")
  BY <1>5, LeaveLocal
<1> QED
  BY <1>1, <1>2, <1>3, <1>4, <1>5 DEF Flush, Flushed

LEMMA PushLocal ==
  ASSUME TypeOK, PushesKnow, NEW p \in Process, Push(p) PROVE LocalView
<1>1. CASE SelectsNothing(p) \/ Acknowledge(p)
  BY <1>1, LeaveLocal DEF SelectsNothing, Acknowledge, Succeed
<1>2. CASE Selects(p)
  <2>1. \A q \in Process \ {p} : Stays(q)
    BY <1>2 DEF Selects, Goto, Stays, TypeOK, ProcessesOK, PushesOK
  <2>2. Chooses(p)
    BY <1>2 DEF Selects, Goto, Chooses, eventVars, TypeOK, ProcessesOK, PushesOK
  <2> QED
    BY <2>1, <2>2, LocalOf
<1>3. CASE Begin(p) \/ Fetch(p) \/ Check(p) \/ Send(p) \/ SendRejected(p) \/ MarkPushed(p)
  <2>1. UNCHANGED <<req, batch, todo>>
    BY <1>3 DEF Begin, Fetch, Check, Send, SendRejected, MarkPushed, pushVars
  <2>2. PICK l \in {"select", "check", "send", "mark", "fetch", "ack"} : Goto(p, l)
    BY <1>3 DEF Begin, Fetch, Check, Send, SendRejected, MarkPushed
  <2>3. pc'[p] = l /\ \A q \in Process \ {p} : Stays(q)
    BY <2>1, <2>2 DEF Goto, Stays, TypeOK, ProcessesOK
  <2>4. todo[p] = {}
    BY <1>3 DEF PushesKnow, Begin, Fetch, Check, Send, SendRejected, MarkPushed
  <2>5. CASE MarkPushed(p)
    <3>1. batch[p] \subseteq Event
      BY NumbersAreEvents DEF TypeOK, PushesOK
    <3> QED
      BY <2>1, <2>3, <2>4, <2>5, <3>1, LocalOf DEF MarkPushed, Marked, Goto, Goes, TypeOK,
             ProcessesOK
  <2>6. CASE ~MarkPushed(p)
    <3>1. Goes(p)
      BY <1>3, <2>1, <2>4, <2>6
      DEF Begin, Fetch, Check, Send, SendRejected, Goto, Goes, TypeOK, ProcessesOK
    <3> QED
      BY <2>3, <3>1, LocalOf
  <2> QED
    BY <2>5, <2>6
<1> QED
  BY <1>1, <1>2, <1>3 DEF Push

LEMMA OtherLocal ==
  ASSUME TypeOK, PushesKnow,
         \/ \E p \in Process : Failure(p) \/ PushNow(p) \/ Retry(p) \/ Abandon(p)
         \/ Claim \/ Configure \/ Revoke \/ ForeignCommit \/ StrayLands \/ Crash \/ UNCHANGED vars
  PROVE  LocalView
<1>1. ASSUME NEW p \in Process, Failure(p) \/ Abandon(p) PROVE LocalView
  BY <1>1, RestIs, LeaveLocal DEF Failure, Fails, FlushTorn, Abandon
<1>2. ASSUME NEW p \in Process, Goto(p, "begin"), pc[p] = "idle", UNCHANGED <<req, batch, todo>>
      PROVE  LocalView
  <2>1. Begins(p) /\ \A q \in Process \ {p} : Stays(q)
    BY <1>2 DEF Goto, Begins, Stays, TypeOK, ProcessesOK
  <2> QED
    BY <2>1, LocalOf
<1>3. ASSUME NEW p \in Process, PushNow(p) PROVE LocalView
  BY <1>2, <1>3 DEF PushNow, pushVars
<1>4. ASSUME NEW p \in Process, Retry(p) PROVE LocalView
  <2>1. Starts(p) /\ \A q \in Process \ {p} : Stays(q)
    BY <1>4 DEF Retry, Goto, Starts, Stays, TypeOK, ProcessesOK, PushesOK
  <2> QED
    BY <2>1, LocalOf
<1>5. CASE Claim
  <2>1. Publisher \in Process
    BY DEF Process
  <2> QED
    BY <1>2, <1>5, <2>1 DEF Claim, pushVars
<1>6. CASE Configure \/ Revoke \/ ForeignCommit \/ StrayLands \/ UNCHANGED vars
  BY <1>6 DEF Configure, Revoke, ForeignCommit, StrayLands, vars, pushVars, LocalView, Stays
<1>7. CASE Crash
  BY <1>7, RestIs DEF Crash, Busy, LocalView, Stays, Rests, PushesKnow, TypeOK, ProcessesOK
<1> QED
  BY <1>1, <1>3, <1>4, <1>5, <1>6, <1>7

LEMMA StepLocal == TypeOK /\ PushesKnow /\ [Next]_vars => LocalView
  BY ChangeLocal, FlushLocal, PushLocal, OtherLocal DEF Next

(***************************************************************************)
(* Nothing is taken back: events, records, deliveries, oversights.         *)
(***************************************************************************)
Grows ==
    /\ Sent \subseteq Sent'
    /\ \A e \in Sent :
           /\ event'[e] = event[e]
           /\ records[e] > 0 => records'[e] > 0
           /\ state[e] \in Settled => state'[e] \in Settled
           /\ state[e] \in Delivered => state'[e] = state[e]
           /\ Overlooked(e) => Overlooked(e)'

LEMMA SentWillBe == TypeOK' => Sent' = 1..count' /\ Sent' \subseteq Event
  BY ConstantAssumption DEF Sent, TypeOK, DeliveryOK, RowsOK, Event

LEMMA NextIs == [Next]_vars => Delivers \/ \E p \in Process : Change(p)
  BY DEF Next, Delivers

LEMMA StepGrows ==
  ASSUME TypeOK, TypeOK', LockedQueued, [Next]_vars PROVE Grows
<1>1. Sent \subseteq Sent'
  BY StepRows DEF RowView, Sent, Queued
<1>2. \A e \in Sent : event'[e] = event[e]
  BY NextIs, ChangeIs, DeliversRows DEF Changes
<1>3. \A e \in Sent : records[e] > 0 => records'[e] > 0
  BY StepView, BranchRecords, SentIs
<1>4. \A e \in Sent : /\ state[e] \in Settled => state'[e] \in Settled
                      /\ state[e] \in Delivered => state'[e] = state[e]
  BY StepRows, SentIs DEF RowView, LockedQueued, Queued, Delivered, Settled
<1>5. \A e \in Sent : Overlooked(e) => Overlooked(e)'
  BY <1>1, <1>2 DEF Overlooked, Of, Sees
<1> QED
  BY <1>1, <1>2, <1>3, <1>4, <1>5 DEF Grows

LEMMA DeliversSuppress ==
  ASSUME TypeOK, Delivers, NEW e \in Event, state'[e] = "suppressed", state[e] # "suppressed"
  PROVE  Text(e) /\ review[event[e].mem] # "ordinary"
<1>1. ASSUME NEW p \in Process, FlushSkips(p) PROVE Text(e) /\ review[event[e].mem] # "ordinary"
  BY <1>1 DEF FlushSkips, TypeOK, DeliveryOK
<1>2. ASSUME NEW p \in Process, FlushWrites(p) \/ MarkPushed(p) PROVE FALSE
  BY <1>2 DEF FlushWrites, MarkPushed, TypeOK, DeliveryOK
<1>3. ASSUME \A p \in Process : ~(FlushSkips(p) \/ FlushWrites(p) \/ MarkPushed(p))
      PROVE  state' = state
  BY <1>3 DEF Delivers, Flush, FlushLocks, Flushed, Push, Begin, SelectsNothing,
         Selects, Fetch, Check, Send, SendRejected, Acknowledge, Failure, Fails, FlushTorn,
         PushNow, Retry, Abandon, Claim, Configure, Revoke,
         ForeignCommit, StrayLands, Crash, vars, eventVars
<1> QED
  BY <1>1, <1>2, <1>3

(***************************************************************************)
(* Each part of the invariant, step by step.                               *)
(***************************************************************************)
LEMMA PushesKnowStep ==
  ASSUME TypeOK, TypeOK', PushesKnow, WithdrawnOverlooked, BatchRecorded, LocalView, Grows
  PROVE  PushesKnow'
<1> SUFFICES ASSUME NEW p \in Process
    PROVE  /\ pc'[p] \in {"idle", "failed", "begin", "select"} => batch'[p] = {}
           /\ pc'[p] \notin {"flush", "write"} => todo'[p] = {}
           /\ pc'[p] = "idle" => req'[p] = 0
           /\ \A e \in batch'[p] \ todo'[p] : state'[e] \in Settled
           /\ /\ pc'[p] \notin {"idle", "failed"} /\ req'[p] # 0
              /\ batch'[p] # {} \/ req'[p] \notin todo'[p]
              => state'[req'[p]] \in Settled
           /\ req'[p] # 0 /\ batch'[p] # {} =>
                \/ req'[p] \in batch'[p] \/ state'[req'[p]] \in Delivered \/ (Overlooked(req[p]))'
           /\ pc'[p] \in {"lock", "fetch", "check", "send", "mark", "ack"} => batch'[p] # {}
           /\ pc'[p] = "ack" => \A e \in batch'[p] : records'[e] > 0 /\ state'[e] \in Delivered
  BY DEF PushesKnow
<1>1. batch[p] \subseteq Sent /\ todo[p] \subseteq Sent /\ (req[p] # 0 => req[p] \in Sent)
  <2>1. Sent = 1..count
    BY SentIs
  <2>2. batch[p] \subseteq 1..count /\ todo[p] \subseteq 1..count
    BY DEF TypeOK, PushesOK
  <2>3. req[p] \in 0..count /\ count \in Nat
    BY DEF TypeOK, ProcessesOK, RowsOK
  <2> QED
    BY <2>1, <2>2, <2>3
<1>2. CASE Stays(p)
  BY <1>1, <1>2 DEF PushesKnow, Stays, Grows
<1>3. CASE Rests(p)
  BY <1>3 DEF Rests
<1>4. CASE Begins(p)
  BY <1>1, <1>4 DEF PushesKnow, Begins
<1>5. CASE Starts(p)
  BY <1>5 DEF PushesKnow, Starts
<1>6. CASE Flushes(p)
  BY <1>1, <1>6 DEF PushesKnow, Flushes, Grows
<1>7. CASE Chooses(p)
  <2>1. req[p] # 0 => state[req[p]] = "local" /\ req[p] \in Sent
    BY <1>1, <1>7 DEF PushesKnow, Chooses, AlreadyDelivered, Settled, Delivered
  <2>2. ASSUME req[p] # 0, ~Overlooked(req[p]) PROVE req[p] \in Selected(p)
    <3>1. req[p] \in Publishable
      BY <2>1, <2>2, SentIs DEF WithdrawnOverlooked, Publishable, Queued
    <3>2. {f \in Publishable : Before(p, f, req[p])} = {}
      BY DEF Before
    <3>3. Cardinality({f \in Publishable : Before(p, f, req[p])}) < MaxBatch
      BY <3>2, FS_EmptySet, ConstantAssumption
    <3> QED
      BY <3>1, <3>3 DEF Selected
  <2>3. req[p] # 0 /\ Overlooked(req[p]) => (Overlooked(req[p]))'
    BY <1>1, <1>7 DEF Grows, Chooses, Overlooked, Of, Sees
  <2> QED
    BY <1>7, <2>1, <2>2, <2>3 DEF Chooses, Settled
<1>8. CASE Goes(p)
  <2>1. /\ pc'[p] = "ack" =>
              pc[p] = "mark" /\ \A e \in batch[p] : state[e] = "local" => state'[e] = "pushed"
        /\ pc'[p] \in {"begin", "select"} => batch[p] = {}
        /\ pc'[p] \in {"lock", "fetch", "check", "send", "mark", "ack"} => batch[p] # {}
        /\ pc'[p] \in {"begin", "select", "lock", "fetch", "check", "send", "mark", "ack"}
        /\ todo[p] = {} /\ UNCHANGED <<req[p], batch[p], todo[p]>>
    BY <1>8 DEF Goes, PushesKnow
  <2>2. pc'[p] = "ack" => \A e \in batch[p] : records'[e] > 0 /\ state'[e] \in Delivered
    BY <1>1, <2>1 DEF BatchRecorded, PushesKnow, Settled, Delivered, Grows
  <2>3. pc[p] \notin {"idle", "failed"}
    BY <1>8 DEF Goes
  <2> QED
    BY <1>1, <2>1, <2>2, <2>3 DEF PushesKnow, Grows
<1> QED
  BY <1>2, <1>3, <1>4, <1>5, <1>6, <1>7, <1>8 DEF LocalView

LEMMA DeliversTell ==
  ASSUME TypeOK, TypeOK', EventsTell, Delivers PROVE EventsTell'
<1>1. Sent' = Sent /\ Sent \subseteq Event
  BY SentIs, SentWillBe, DeliversRows
<1> QED
  BY <1>1, DeliversRows, DeliversSuppress DEF EventsTell, Text

LEMMA ChangeTells ==
  ASSUME TypeOK, TypeOK', EventsTell, NEW p \in Request, NEW m \in Memory,
         NEW act \in {"upsert", "quarantine", "forget"}, Changes(p, m, act), Reviews(p, m, act)
  PROVE  EventsTell'
<1> PICK e \in Event : e = count + 1
  BY DEF Changes
<1>1. Sent' = Sent \cup {e} /\ e \notin Sent /\ \A f \in Sent : f < e
  <2>1. Sent = 1..count /\ Sent' = 1..(count + 1) /\ count \in Nat
    BY SentIs, SentWillBe DEF Changes, TypeOK, RowsOK
  <2> QED
    BY <2>1
<1>2. \A x \in Memory : version[x] \in Nat /\ version'[x] \in Nat /\ version[x] <= version'[x]
  BY DEF Changes, TypeOK, RowsOK
<1>3. \A f \in Sent : /\ event'[f] = event[f] /\ event[f].mem \in Memory /\ event[f].ver \in Nat
                      /\ 1 <= event[f].ver /\ event[f].ver <= version[event[f].mem]
  BY SentIs DEF Changes, EventsTell, TypeOK, RowsOK
<1>4. /\ event'[e].mem = m /\ event'[e].by = p /\ event'[e].act = act
      /\ event'[e].ver = version[m] + 1 /\ event'[e].ver = version'[m] /\ state'[e] = "pending"
  BY DEF Changes
<1>5. ASSUME NEW f \in Sent
      PROVE  /\ event'[f].mem \in Memory /\ event'[f].by \in Request
             /\ event'[f].act \in {"upsert", "quarantine", "forget"}
             /\ 1 <= event'[f].ver /\ event'[f].ver <= version'[event'[f].mem]
             /\ event'[f].act = "forget" => review'[event'[f].mem] = "forgotten"
             /\ state'[f] = "suppressed" => Text(f)'
  <2>1. event'[f].ver <= version'[event'[f].mem]
    BY <1>2, <1>3
  <2>2. event'[f].act = "forget" => review'[event'[f].mem] = "forgotten"
    BY <1>3 DEF EventsTell, Changes, Reviews
  <2>3. state'[f] = "suppressed" => Text(f)'
    BY <1>3 DEF EventsTell, Changes, Suppressible, Text
  <2> QED
    BY <1>3, <2>1, <2>2, <2>3 DEF EventsTell
<1>6. /\ event'[e].mem \in Memory /\ event'[e].by \in Request
      /\ event'[e].act \in {"upsert", "quarantine", "forget"}
      /\ 1 <= event'[e].ver /\ event'[e].ver <= version'[event'[e].mem]
      /\ event'[e].act = "forget" => review'[event'[e].mem] = "forgotten"
      /\ state'[e] # "suppressed"
  BY <1>2, <1>4 DEF Reviews
<1>7. ASSUME NEW f \in Sent', NEW g \in Sent', event'[f].mem = event'[g].mem, f < g
      PROVE  event'[f].ver < event'[g].ver
  <2>1. f \in Sent
    <3>1. g \in Nat /\ f \in Nat /\ g <= e
      <4>1. Sent' = 1..(count + 1) /\ count \in Nat
        BY SentWillBe DEF Changes, TypeOK, RowsOK
      <4> QED
        BY <1>7, <4>1
    <3> QED
      BY <1>1, <1>7, <3>1
  <2>2. CASE g = e
    BY <1>2, <1>3, <1>4, <1>7, <2>1, <2>2
  <2>3. CASE g # e
    BY <1>1, <1>3, <1>7, <2>1, <2>3 DEF EventsTell
  <2> QED
    BY <2>2, <2>3
<1> QED
  BY <1>1, <1>5, <1>6, <1>7 DEF EventsTell

LEMMA DeliversTold ==
  ASSUME TypeOK, TypeOK', MemoriesTold, FreshOfBatch, BranchView, LocalView, Delivers
  PROVE  MemoriesTold'
<1>1. Sent' = Sent /\ Sent \subseteq Event
  BY SentIs, SentWillBe, DeliversRows
<1>2. \A m \in Memory : Of(m)' = Of(m)
  BY <1>1, DeliversRows DEF Of
<1>3. ASSUME NEW e \in Sent, Text(e), review[event[e].mem] # "ordinary", Kept(e) PROVE Kept(e)'
  <2>1. e \notin Publishable
    BY <1>3 DEF Publishable
  <2>2. \A q \in Process : e \notin batch'[q]
    BY <1>3, <2>1 DEF Kept, LocalView, Stays, Rests, Begins, Starts, Flushes, Chooses, Goes,
           Selected
  <2>3. records'[e] = 0 /\ e \notin UNION strays'
    <3>1. e \notin UNION Acceptable
      BY <1>3 DEF Kept, Acceptable, FreshOfBatch
    <3> QED
      BY <1>1, <1>3, <3>1, BranchRecords
      DEF Kept, BranchView, BranchStays, BranchGrows, Commits
  <2> QED
    BY <2>2, <2>3 DEF Kept
<1>4. ASSUME NEW m \in Memory, NEW e \in Of(m), Speaks(m, e) PROVE Speaks(m, e)'
  <2>1. e \in Event /\ event[e].mem = m /\ \A f \in Of(m) : f \in Sent /\ event[f].mem = m
    BY <1>1 DEF Of
  <2>2. CASE review[m] = "ordinary"
    BY <1>4, <2>1, <2>2, DeliversRows, DeliversSuppress DEF Speaks, Text
  <2>3. CASE review[m] = "quarantined"
    BY <1>2, <1>3, <1>4, <2>1, <2>3, DeliversRows DEF Speaks, Text
  <2>4. CASE review[m] \notin {"ordinary", "quarantined"}
    BY <1>4, <2>4, DeliversRows DEF Speaks
  <2> QED
    BY <2>2, <2>3, <2>4
<1> QED
  BY <1>2, <1>4, DeliversRows DEF MemoriesTold

LEMMA ChangeTold ==
  ASSUME TypeOK, TypeOK', MemoriesTold, OnlySentRecorded, NEW p \in Request, NEW m \in Memory,
         NEW act \in {"upsert", "quarantine", "forget"}, Changes(p, m, act), Reviews(p, m, act)
  PROVE  MemoriesTold'
<1> PICK e \in Event : e = count + 1
  BY DEF Changes
<1>1. /\ Sent' = Sent \cup {e} /\ e \notin Sent /\ e \in Event /\ Sent \subseteq Event
      /\ \A f \in Sent : ~(e < f)
  <2>1. Sent = 1..count /\ Sent' = 1..(count + 1) /\ count \in Nat
    BY SentIs, SentWillBe DEF Changes, TypeOK, RowsOK
  <2> QED
    BY <2>1, SentIs DEF Changes
<1>2. Kept(e)'
  <2>1. records[e] = 0 /\ e \notin UNION strays
    <3>1. records[e] = 0
      BY <1>1 DEF OnlySentRecorded, TypeOK, DeliveryOK
    <3>2. UNION strays \subseteq Sent
      BY SentIs DEF TypeOK, DeliveryOK
    <3> QED
      BY <1>1, <3>1, <3>2
  <2>2. \A q \in Process : e \notin batch[q]
    BY <1>1, SentIs DEF TypeOK, PushesOK
  <2> QED
    BY <2>1, <2>2 DEF Changes, gitVars, Kept
<1>3. \A f \in Sent : event'[f] = event[f] /\ (Kept(f) => Kept(f)')
  BY DEF Changes, gitVars, Kept
<1>4. e \in Of(m)' /\ Of(m)' = Of(m) \cup {e} /\ event'[e].act = act /\ event'[e].ver = version'[m]
      /\ state'[e] = "pending"
  BY <1>1, <1>3 DEF Changes, Of
<1>5. ASSUME NEW x \in Memory, x # m
      PROVE  IF review'[x] = "absent" THEN Of(x)' = {} ELSE \E f \in Of(x)' : Speaks(x, f)'
  <2>1. Of(x)' = Of(x) /\ review'[x] = review[x] /\ version'[x] = version[x]
    <3>1. event'[e].mem # x /\ review'[x] = review[x] /\ version'[x] = version[x]
      BY <1>5 DEF Changes
    <3> QED
      BY <1>1, <1>3, <3>1 DEF Of
  <2>2. \A f \in Of(x) : f \in Sent /\ state'[f] = state[f]
    BY <1>5 DEF Changes, Suppressible, Of
  <2>3. \A f \in Of(x) : Speaks(x, f) => Speaks(x, f)'
    BY <1>3, <2>1, <2>2 DEF Speaks, Text
  <2> QED
    BY <1>5, <2>1, <2>3 DEF MemoriesTold
<1>6. \E f \in Of(m)' : Speaks(m, f)'
  <2>1. CASE review'[m] \in {"ordinary", "forgotten"}
    <3>1. Speaks(m, e)'
      BY <1>4, <2>1 DEF Speaks, Reviews, Text
    <3> QED
      BY <1>4, <3>1
  <2>2. CASE review'[m] = "quarantined" /\ act = "quarantine"
    <3>1. \A f \in Of(m)' : ~(e < f)
      BY <1>1, <1>4, SentIs DEF Of, TypeOK, RowsOK
    <3>2. Speaks(m, e)'
      BY <1>4, <2>2, <3>1 DEF Speaks
    <3> QED
      BY <1>4, <3>2
  <2>3. CASE review'[m] = "quarantined" /\ review[m] = "quarantined" /\ act = "upsert"
    <3>1. PICK q \in Of(m) : /\ event[q].act = "quarantine"
                             /\ \A f \in Of(m) : Text(f) /\ q < f => Kept(f)
      BY <2>3 DEF MemoriesTold, Speaks
    <3>2. \A f \in Of(m)' : Text(f)' /\ q < f => Kept(f)'
      BY <1>2, <1>3, <1>4, <3>1 DEF Of, Text
    <3>3. q \in Of(m)' /\ event'[q].act = "quarantine"
      BY <1>3, <1>4, <3>1 DEF Of
    <3> QED
      BY <2>3, <3>2, <3>3 DEF Speaks
  <2> QED
    BY <2>1, <2>2, <2>3 DEF Reviews
<1>7. review'[m] # "absent"
  BY DEF Reviews
<1> QED
  BY <1>5, <1>6, <1>7 DEF MemoriesTold

LEMMA DeliversOverlooked ==
  ASSUME TypeOK, TypeOK', WithdrawnOverlooked, LockedQueued, Grows, RowView, Delivers
  PROVE  WithdrawnOverlooked'
<1> SUFFICES ASSUME NEW e \in Sent', Text(e)', review'[event'[e].mem] # "ordinary",
                    state'[e] = "local" \/ Locked(e)'
             PROVE  Overlooked(e)'
  BY DEF WithdrawnOverlooked
<1>1. e \in Sent /\ e \in Event /\ Text(e) /\ review[event[e].mem] # "ordinary"
  BY SentIs, SentWillBe, DeliversRows DEF Text
<1>2. state[e] = "local" \/ Locked(e)
  BY <1>1 DEF RowView
<1> QED
  BY <1>1, <1>2 DEF WithdrawnOverlooked, Grows

LEMMA ChangeOverlooked ==
  ASSUME TypeOK, TypeOK', WithdrawnOverlooked, LockedQueued, Grows, EventsTell,
         NEW p \in Request, NEW m \in Memory,
         NEW act \in {"upsert", "quarantine", "forget"}, Changes(p, m, act), Reviews(p, m, act)
  PROVE  WithdrawnOverlooked'
<1> PICK d \in Event : d = count + 1
  BY DEF Changes
<1>1. /\ d \in Sent' /\ state[d] = "none" /\ \A f \in Sent' : f \in Sent \/ f = d
      /\ Sent \subseteq Event
  <2>1. Sent = 1..count /\ Sent' = 1..(count + 1) /\ count \in Nat
    BY SentIs, SentWillBe DEF Changes, TypeOK, RowsOK
  <2> QED
    BY <2>1, SentIs DEF TypeOK, DeliveryOK
<1> SUFFICES ASSUME NEW e \in Sent', Text(e)', review'[event'[e].mem] # "ordinary",
                    state'[e] = "local" \/ Locked(e)'
             PROVE  Overlooked(e)'
  BY DEF WithdrawnOverlooked
<1>2. e # d
  <2>1. state'[d] = "pending" /\ ~Locked(d)
    BY <1>1 DEF Changes, LockedQueued, Queued
  <2> QED
    BY <2>1 DEF Changes
<1>3. e \in Sent /\ event'[e] = event[e] /\ Text(e) /\ event[e].mem \in Memory
  BY <1>1, <1>2 DEF Changes, Text, EventsTell
<1>4. state[e] = "local" \/ Locked(e)
  BY <1>1, <1>3 DEF Changes
<1>5. CASE review[event[e].mem] # "ordinary"
  BY <1>3, <1>4, <1>5 DEF WithdrawnOverlooked, Grows
<1>6. CASE review[event[e].mem] = "ordinary"
  <2>1. event[e].mem = m /\ act # "upsert"
    BY <1>3, <1>6 DEF Changes, Reviews
  <2>2. state[e] \in Queued
    BY <1>1, <1>3, <1>4 DEF LockedQueued, Queued
  <2>3. e \notin Suppressible(p, m)
    BY <1>1, <1>3, <2>1 DEF Changes
  <2>4. ~Sees(p, e)
    BY <1>3, <2>1, <2>2, <2>3 DEF Suppressible, Of
  <2>5. act = "forget"
    BY <2>1, <2>4 DEF Reviews, Sees
  <2>6. d \in Of(m)' /\ event'[d].act = "forget" /\ event'[d].by = p /\ event'[d].mem = m
    BY <1>1, <2>5 DEF Changes, Of
  <2>7. ~Sees(p, e)'
    BY <1>3, <2>4, <2>6 DEF Sees
  <2> QED
    BY <1>3, <2>1, <2>6, <2>7 DEF Overlooked
<1> QED
  BY <1>5, <1>6

\* A row that a flush holds, or that counts as journaled, of a forgotten memory.
LEMMA ForgottenOverlooked ==
  ASSUME TypeOK, EventsTell, WithdrawnOverlooked, LockedQueued,
         NEW d \in Sent, event[d].act = "forget",
         NEW e \in Sent, Text(e), event[e].mem = event[d].mem, state[e] = "local" \/ Locked(e)
  PROVE  Overlooked(e)
  BY DEF EventsTell, WithdrawnOverlooked

LEMMA LockedSent == ASSUME TypeOK, LockedQueued, NEW e \in Event, Locked(e) PROVE e \in Sent
  BY DEF LockedQueued, Queued, Sent

LEMMA DeliversReceipts ==
  ASSUME TypeOK, TypeOK', EventsTell, WithdrawnOverlooked, LockedQueued, PushesKnow, Grows,
         SpoolView, LocalReceiptDurable, Delivers
  PROVE  LocalReceiptDurable'
<1> SUFFICES ASSUME NEW e \in Sent', Text(e)', state'[e] = "local", e \notin spool'
             PROVE  Overlooked(e)'
  BY DEF LocalReceiptDurable
<1>1. e \in Sent /\ e \in Event /\ Text(e)
  BY SentIs, SentWillBe, DeliversRows DEF Text
<1>2. state[e] = "local"
  BY <1>1 DEF SpoolView
<1>3. CASE e \notin spool
  BY <1>1, <1>2, <1>3 DEF LocalReceiptDurable, Grows
<1>4. CASE e \in spool
  <2>1. ~\E p \in Process : pc[p] = "ack" /\ e \in batch[p]
    BY <1>2 DEF PushesKnow, Delivered
  <2>2. PICK d \in Event : Locked(d) /\ event[d].act = "forget" /\ event[d].mem = event[e].mem
    BY <1>4, <2>1 DEF SpoolView
  <2>3. Overlooked(e)
    BY <1>1, <1>2, <2>2, LockedSent, ForgottenOverlooked
  <2> QED
    BY <1>1, <2>3 DEF Grows
<1> QED
  BY <1>3, <1>4

LEMMA ChangeReceipts ==
  ASSUME TypeOK, TypeOK', Grows, LocalReceiptDurable, NEW p \in Request, NEW m \in Memory,
         NEW act, Changes(p, m, act)
  PROVE  LocalReceiptDurable'
<1>1. \A e \in Sent' : e \in Sent \/ state'[e] = "pending"
  BY SentIs, SentWillBe DEF Changes, TypeOK, RowsOK
<1> QED
  BY <1>1 DEF Changes, LocalReceiptDurable, Grows, Text

LEMMA DeliversNoText ==
  ASSUME TypeOK, TypeOK', EventsTell, WithdrawnOverlooked, LockedQueued, Grows,
         SpoolView, RowView, ForgottenLeavesNoText, Delivers
  PROVE  ForgottenLeavesNoText'
<1> SUFFICES ASSUME NEW d \in Sent', event'[d].act = "forget", state'[d] \in {"local", "pushed"},
                    NEW f \in Of(event[d].mem)' \cap spool', Text(f)'
             PROVE  Overlooked(f)'
  BY DEF ForgottenLeavesNoText
<1>1. /\ d \in Sent /\ d \in Event /\ event[d].act = "forget"
      /\ f \in Sent /\ f \in Event /\ Text(f) /\ event[f].mem = event[d].mem
  BY SentIs, SentWillBe, DeliversRows DEF Text, Of
<1>2. CASE state[d] \notin {"local", "pushed"}
  <2>1. state'[d] = "local"
    BY <1>1, <1>2 DEF RowView
  <2>2. f = d
    BY <1>1, <1>2, <2>1, DeliversRows DEF SpoolView
  <2> QED
    BY <1>1, <2>2 DEF Text
<1>3. CASE state[d] \in {"local", "pushed"} /\ f \in spool
  <2>1. f \in Of(event[d].mem)
    BY <1>1 DEF Of
  <2> QED
    BY <1>1, <1>3, <2>1 DEF ForgottenLeavesNoText, Grows
<1>4. CASE f \notin spool
  <2>1. Locked(f)
    BY <1>4 DEF SpoolView
  <2>2. Overlooked(f)
    BY <1>1, <2>1, ForgottenOverlooked
  <2> QED
    BY <1>1, <2>2 DEF Grows
<1> QED
  BY <1>2, <1>3, <1>4

LEMMA ChangeNoText ==
  ASSUME TypeOK, TypeOK', Grows, ForgottenLeavesNoText, NEW p \in Request, NEW m \in Memory,
         NEW act, Changes(p, m, act)
  PROVE  ForgottenLeavesNoText'
<1> SUFFICES ASSUME NEW d \in Sent', event'[d].act = "forget", state'[d] \in {"local", "pushed"},
                    NEW f \in Of(event[d].mem)' \cap spool', Text(f)'
             PROVE  Overlooked(f)'
  BY DEF ForgottenLeavesNoText
<1>1. \A e \in Sent' : e \in Sent \/ (state'[e] = "pending" /\ e \notin spool)
  <2>1. Sent = 1..count /\ Sent' = 1..(count + 1) /\ count \in Nat
    BY SentIs, SentWillBe DEF Changes, TypeOK, RowsOK
  <2>2. \A e \in Sent' : e \in 1..count \/ (e = count + 1 /\ e \notin spool)
    BY <2>1 DEF TypeOK, DeliveryOK
  <2> QED
    BY <2>1, <2>2 DEF Changes
<1>2. d \in Sent /\ f \in Sent /\ f \in spool
  BY <1>1 DEF Changes, Of
<1>3. event'[d] = event[d] /\ event'[f] = event[f] /\ f \in Of(event[d].mem)
  BY <1>2 DEF Changes, Of
<1>4. state[d] \in {"local", "pushed"}
  BY <1>2 DEF Changes
<1> QED
  BY <1>2, <1>3, <1>4 DEF ForgottenLeavesNoText, Grows, Text

LEMMA DeliversAnswers ==
  ASSUME TypeOK, TypeOK', PushesKnow, PushedIsPublished, Grows, AckView, AckIsDecided, Delivers
  PROVE  AckIsDecided'
<1> SUFFICES ASSUME NEW e \in acked'
             PROVE  records'[e] > 0 \/ state'[e] = "suppressed" \/ Overlooked(e)'
  BY DEF AckIsDecided
<1>1. e \in Sent /\ e \in Event
  BY SentIs, SentWillBe, DeliversRows DEF TypeOK, DeliveryOK
<1>2. records[e] > 0 \/ state[e] = "suppressed" \/ Overlooked(e)
  <2>1. CASE e \in acked
    BY <2>1 DEF AckIsDecided
  <2>2. CASE e \notin acked
    <3>1. PICK p \in Process : e # 0 /\ req[p] = e /\ (pc[p] = "ack" \/ state[e] \in Delivered)
      BY <2>2 DEF AckView
    <3>2. CASE state[e] \in Delivered
      BY <1>1, <3>2 DEF PushedIsPublished, Delivered
    <3>3. CASE pc[p] = "ack"
      BY <1>1, <3>1, <3>2, <3>3 DEF PushesKnow
    <3> QED
      BY <3>1, <3>2, <3>3
  <2> QED
    BY <2>1, <2>2
<1> QED
  BY <1>1, <1>2 DEF Grows, Delivered

LEMMA ChangeAnswers ==
  ASSUME TypeOK, TypeOK', Grows, AckIsDecided, NEW p \in Request, NEW m \in Memory,
         NEW act, Changes(p, m, act)
  PROVE  AckIsDecided'
<1>1. acked' = acked /\ acked \subseteq Sent
  BY SentIs DEF Changes, TypeOK, DeliveryOK
<1> QED
  BY <1>1 DEF AckIsDecided, Grows, Delivered

\* The branch, once it has all that may be published, tells what is so.
LEMMA MirrorFollows ==
  ASSUME TypeOK, EventsTell, MemoriesTold, PushedIsPublished, Publishable = {},
         NEW m \in Memory
  PROVE  Projected(m) = IF review[m] = "ordinary" THEN version[m] ELSE 0
<1>1. \A e \in Of(m) : e \in Sent /\ e \in Event /\ event[e].mem = m
  BY SentIs DEF Of
<1>2. ASSUME NEW e \in Of(m), state[e] # "suppressed", Text(e) => review[m] = "ordinary"
      PROVE  e \in Recorded(m)
  <2>1. state[e] \notin Queued
    BY <1>1, <1>2 DEF Publishable
  <2>2. state[e] = "pushed"
    BY <1>1, <1>2, <2>1 DEF Queued, Sent, TypeOK, DeliveryOK
  <2> QED
    BY <1>1, <2>2 DEF PushedIsPublished, Recorded
<1>3. \A e \in Recorded(m) : /\ e \in Of(m) /\ e \in Sent /\ records[e] > 0
                             /\ event[e].ver \in Nat /\ event[e].mem = m
  BY <1>1 DEF Recorded, TypeOK, RowsOK
<1>4. CASE review[m] = "absent"
  BY <1>3, <1>4 DEF MemoriesTold, Projected
<1>5. CASE review[m] = "ordinary"
  <2>1. PICK e \in Of(m) : Text(e) /\ event[e].ver = version[m] /\ state[e] # "suppressed"
    BY <1>5 DEF MemoriesTold, Speaks
  <2>2. e \in Recorded(m)
    BY <1>2, <1>5, <2>1
  <2>3. \A f \in Recorded(m) : event[f].act # "forget" /\ event[f].ver <= version[m]
    BY <1>3, <1>5 DEF EventsTell
  <2>4. version[m] \in 1..EventBound
    BY <1>1, <2>1 DEF EventsTell, TypeOK, RowsOK
  <2>5. Projected(m) = CHOOSE v \in 1..EventBound :
                           /\ \E f \in Recorded(m) : event[f].ver = v
                           /\ \A f \in Recorded(m) : event[f].ver <= v
    BY <2>1, <2>2, <2>3 DEF Projected
  <2>6. ASSUME NEW v \in 1..EventBound, \E f \in Recorded(m) : event[f].ver = v,
               \A f \in Recorded(m) : event[f].ver <= v
        PROVE  v = version[m]
    BY <2>1, <2>2, <2>3, <2>4, <2>6
  <2> QED
    BY <1>5, <2>1, <2>2, <2>3, <2>4, <2>5, <2>6
<1>6. CASE review[m] = "quarantined"
  <2>1. PICK q \in Of(m) : /\ event[q].act = "quarantine"
                           /\ \A f \in Of(m) : Text(f) /\ q < f => Kept(f)
    BY <1>6 DEF MemoriesTold, Speaks
  <2>2. q \in Recorded(m)
    BY <1>1, <1>2, <2>1 DEF EventsTell, Text
  <2>3. ASSUME NEW e \in Recorded(m), Text(e) PROVE event[e].ver < event[q].ver
    <3>1. ~(q < e)
      BY <1>3, <2>1, <2>3 DEF Kept
    <3>2. e < q
      BY <1>1, <1>3, <2>1, <2>3, <3>1 DEF Text, Event
    <3> QED
      BY <1>1, <1>3, <3>2 DEF EventsTell
  <2> QED
    BY <1>3, <1>6, <2>2, <2>3 DEF Projected
<1>7. CASE review[m] = "forgotten"
  <2>1. PICK d \in Of(m) : event[d].act = "forget"
    BY <1>7 DEF MemoriesTold, Speaks
  <2>2. d \in Recorded(m)
    BY <1>1, <1>2, <2>1 DEF EventsTell, Text
  <2> QED
    BY <1>7, <2>1, <2>2 DEF Projected
<1> QED
  BY <1>4, <1>5, <1>6, <1>7 DEF TypeOK, RowsOK

LEMMA ReceiptInit == Init => ReceiptInv
<1> SUFFICES ASSUME Init PROVE ReceiptInv
  OBVIOUS
<1>1. Sent = {} /\ \A m \in Memory : Of(m) = {}
  BY DEF Init, Sent, Of
<1>2. EventsTell /\ MemoriesTold /\ WithdrawnOverlooked
  BY <1>1 DEF Init, EventsTell, MemoriesTold, WithdrawnOverlooked
<1>3. PushesKnow
  BY DEF Init, PushesKnow
<1>4. LocalReceiptDurable /\ ForgottenLeavesNoText /\ AckIsDecided
  BY <1>1 DEF Init, LocalReceiptDurable, ForgottenLeavesNoText, AckIsDecided
<1> QED
  BY <1>2, <1>3, <1>4 DEF ReceiptInv

LEMMA ReceiptStep ==
  ASSUME TypeOK, TypeOK', PublishedInv, LockedQueued, PrivateInv, ReceiptInv, [Next]_vars
  PROVE  ReceiptInv'
<1> USE DEF ReceiptInv, PublishedInv, PrivateInv
<1>1. Grows /\ RowView /\ BranchView /\ LocalView
  BY StepGrows, StepRows, StepView, StepLocal
<1>2. PushesKnow'
  BY <1>1, PushesKnowStep
<1>3. CASE Delivers
  <2>1. SpoolView /\ AckView
    BY <1>3, DeliversSpool, DeliversAck
  <2>2. EventsTell' /\ MemoriesTold' /\ WithdrawnOverlooked'
    BY <1>1, <1>3, DeliversTell, DeliversTold, DeliversOverlooked
  <2>3. LocalReceiptDurable' /\ ForgottenLeavesNoText' /\ AckIsDecided'
    BY <1>1, <1>3, <2>1, DeliversReceipts, DeliversNoText, DeliversAnswers
  <2> QED
    BY <1>2, <2>2, <2>3
<1>4. ASSUME NEW p \in Process, Change(p) PROVE ReceiptInv'
  <2> PICK m \in Memory, act \in {"upsert", "quarantine", "forget"} :
         Changes(p, m, act) /\ Reviews(p, m, act)
    BY <1>4, ChangeIs
  <2>1. p \in Request
    BY <1>4, ChangeIs
  <2>2. EventsTell' /\ MemoriesTold' /\ WithdrawnOverlooked'
    BY <1>1, <2>1, ChangeTells, ChangeTold, ChangeOverlooked
  <2>3. LocalReceiptDurable' /\ ForgottenLeavesNoText' /\ AckIsDecided'
    BY <1>1, <2>1, ChangeReceipts, ChangeNoText, ChangeAnswers
  <2> QED
    BY <1>2, <2>2, <2>3
<1> QED
  BY <1>3, <1>4, NextIs

LEMMA ReceiptAlways == Spec => []ReceiptInv
<1>1. ReceiptInv /\ TypeOK /\ TypeOK' /\ PublishedInv /\ LockedQueued /\ PrivateInv /\ [Next]_vars
        => ReceiptInv'
  BY ReceiptStep
<1> QED
  BY <1>1, ReceiptInit, TypeCorrect, PublishedAlways, LockedAlways, PrivateAlways, PTL DEF Spec

\* A text that counts as journaled on the host has its receipt there, whatever
\* was denied, acknowledged or torn since, unless it was overlooked.
THEOREM ReceiptsDurable == Spec => []LocalReceiptDurable
<1>1. ReceiptInv => LocalReceiptDurable
  BY DEF ReceiptInv
<1> QED
  BY <1>1, ReceiptAlways, PTL

\* Once the denial of a memory is on the host, no flush that was under way and
\* no retry leaves a receipt with a text of it, unless the text was overlooked.
THEOREM NoTextLeft == Spec => []ForgottenLeavesNoText
<1>1. ReceiptInv => ForgottenLeavesNoText
  BY DEF ReceiptInv
<1> QED
  BY <1>1, ReceiptAlways, PTL

\* The answer remote_git is given for an event on the branch, or withdrawn:
\* also when others pushed it, or a withdrawal came between its flush and its push.
THEOREM AnswersDecided == Spec => []AckIsDecided
<1>1. ReceiptInv => AckIsDecided
  BY DEF ReceiptInv
<1> QED
  BY <1>1, ReceiptAlways, PTL

\* When nothing is left to publish, the branch tells exactly the ordinary
\* memories at their current versions.
THEOREM BranchMirrors == Spec => []DrainedIsMirrored
<1>1. TypeOK /\ PublishedInv /\ ReceiptInv => DrainedIsMirrored
  BY MirrorFollows DEF PublishedInv, ReceiptInv, DrainedIsMirrored, Mirrored
<1> QED
  BY <1>1, ReceiptAlways, TypeCorrect, PublishedAlways, PTL

\* Where every member is a reviewer, nothing is overlooked: row security shows
\* whoever withdraws a memory all its events.
THEOREM ReviewersSeeAll ==
  ASSUME Reviewer = Request PROVE Spec => [](\A e \in Sent : ~Overlooked(e))
<1>1. ReceiptInv => \A e \in Sent : ~Overlooked(e)
  BY DEF ReceiptInv, EventsTell, Overlooked, Of, Sees
<1> QED
  BY <1>1, ReceiptAlways, PTL
=============================================================================
