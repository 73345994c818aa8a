---------------------------- MODULE WorkersProofs ----------------------------
(***************************************************************************)
(* The invariants of the workers: what their steps preserve, for all       *)
(* values of all constants.  ServicesProofs concludes from them what holds *)
(* of a worker among the other components.                                 *)
(***************************************************************************)
EXTENDS Workers, TLAPS, WellFoundedInduction, FiniteSetTheorems

(***************************************************************************)
(* CaptureCustody: what was forgotten stays forgotten, and every memory a  *)
(* policy gives a lifetime has a deadline within it, for every set of      *)
(* fragments, grants, retention workers and lifetimes, any batch size and  *)
(* any history of policies.                                                *)
(***************************************************************************)

\* A grant in use names a version of the policy.
GrantInv == \A g \in Grant : grants[g].live => grants[g].policy # 0

\* So does every event that became a memory.
RecordInv ==
    \A e \in C!Event : record[e] \in {"stored", "forgotten"} => accepted[e].policy \in 1..Len(ages)

\* An expiry is taken up, and done, on its deadline or after: the day of a
\* deadline is not put off.
WorkInv == \A l \in Lineage : expiry[l].state \in {"leased", "expired"} => C!Due(l)

CustodyInv == C!TypeOK /\ GrantInv /\ RecordInv /\ WorkInv /\ C!ForgottenIsGone /\ C!DeadlineHolds

(***************************************************************************)
(* The operators.                                                          *)
(***************************************************************************)

\* The least day of a set of days is one of them.
LEMMA LeastFacts ==
  ASSUME NEW S \in SUBSET Nat, S # {}
  PROVE  C!Least(S) \in S /\ \A y \in S : C!Least(S) <= y
<1>1. PICK x \in S : \A y \in S : ~(<<y, x>> \in OpToRel(<, Nat))
  BY NatLessThanWellFounded, WFMin
<1>2. \A y \in S : ~(y < x)
  BY <1>1, Zenon DEF OpToRel
<1>3. \A y \in S : x <= y
  BY <1>2
<1> QED
  BY <1>3 DEF C!Least

\* ON CONFLICT DO UPDATE: a deadline is only ever brought forward, an expiry
\* that was done is left alone, and any other is due by the new deadline.
LEMMA ScheduledFacts ==
  ASSUME NEW row \in [state : {"none", "pending", "leased", "expired"}, at : Nat], NEW deadline \in Nat
  PROVE  /\ C!Scheduled(row, deadline) \in [state : {"pending", "leased", "expired"}, at : Nat]
         /\ row.state # "none" =>
              C!Scheduled(row, deadline).state = row.state /\ C!Scheduled(row, deadline).at <= row.at
         /\ row.state = "none" => C!Scheduled(row, deadline).state = "pending"
         /\ row.state # "expired" => C!Scheduled(row, deadline).at <= deadline
BY DEF C!Scheduled

\* A further version leaves the earlier ones as they are.
LEMMA AgesFacts ==
  ASSUME ages \in Seq(Nat), NEW age \in Nat
  PROVE  /\ Append(ages, age) \in Seq(Nat) /\ Len(Append(ages, age)) = Len(ages) + 1
         /\ \A v \in 1..Len(ages) : Append(ages, age)[v] = ages[v]
OBVIOUS

\* What the events of a page do to the deadlines of their families.
LEMMA CaptureFacts ==
  ASSUME CustodyInv, NEW g \in Grant, NEW events \in SUBSET C!Event, C!Page(g, events)
  PROVE  LET given == grants[g].policy
         IN  /\ given \in 1..Len(ages) /\ ages[given] \in Nat
             /\ record' \in [C!Event -> {"none", "stored", "forgotten", "refused"}]
             /\ accepted' \in [C!Event -> [at : Nat, policy : Nat]]
             /\ expiry' \in [Lineage -> [state : {"none", "pending", "leased", "expired"}, at : Nat]]
             /\ \A l \in Lineage : expiry[l].state # "none" =>
                  expiry'[l].state = expiry[l].state /\ expiry'[l].at <= expiry[l].at
             /\ \A l \in Lineage : expiry[l].state = "none" => expiry'[l].state \in {"none", "pending"}
             /\ \A e \in C!Event : record[e] # "none" =>
                  record'[e] = record[e] /\ accepted'[e] = accepted[e]
             /\ \A e \in C!Event : record[e] = "none" /\ record'[e] = "stored" =>
                  /\ ~C!Refused(C!Of(e)) /\ accepted'[e].policy = given
                  /\ ages[given] # 0 =>
                       /\ expiry'[C!Of(e)].state # "none"
                       /\ expiry'[C!Of(e)].at <= accepted'[e].at + ages[given]
             /\ \A e \in C!Event : record[e] = "none" => record'[e] \in {"none", "stored", "refused"}
<1> DEFINE given == grants[g].policy
           new == {e \in events : record[e] = "none"}
           families == {C!Of(e) : e \in new}
<1>1. given \in 1..Len(ages) /\ ages[given] \in Nat
  BY DEF CustodyInv, C!TypeOK, GrantInv, C!Page
<1>2. /\ record' = [e \in C!Event |->
             IF e \notin new THEN record[e] ELSE IF C!Refused(C!Of(e)) THEN "refused" ELSE "stored"]
      /\ accepted' = [e \in C!Event |->
             IF e \in new THEN [at |-> now, policy |-> given] ELSE accepted[e]]
      /\ C!Schedule(families, given)
  BY DEF C!Page
<1>3. /\ record' \in [C!Event -> {"none", "stored", "forgotten", "refused"}]
      /\ accepted' \in [C!Event -> [at : Nat, policy : Nat]]
  BY <1>1, <1>2 DEF CustodyInv, C!TypeOK
<1>4. \A l \in Lineage : C!FirstAccepted(l, given) \in SUBSET Nat
  BY <1>3 DEF C!FirstAccepted
<1>5. \A l \in Lineage : C!FirstAccepted(l, given) # {} =>
        /\ C!Least(C!FirstAccepted(l, given)) \in Nat
        /\ \A y \in C!FirstAccepted(l, given) : C!Least(C!FirstAccepted(l, given)) <= y
  BY <1>4, LeastFacts
<1>6. \A l \in Lineage :
        \/ expiry'[l] = expiry[l] /\ (l \notin families \/ ages[given] = 0 \/ C!FirstAccepted(l, given) = {})
        \/ /\ expiry'[l] = C!Scheduled(expiry[l], C!Least(C!FirstAccepted(l, given)) + ages[given])
           /\ C!FirstAccepted(l, given) # {}
  BY <1>2 DEF C!Schedule
<1>7. \A l \in Lineage : expiry[l] \in [state : {"none", "pending", "leased", "expired"}, at : Nat]
  BY DEF CustodyInv, C!TypeOK
<1>8. \A l \in Lineage :
        /\ expiry'[l] \in [state : {"none", "pending", "leased", "expired"}, at : Nat]
        /\ expiry[l].state # "none" =>
             expiry'[l].state = expiry[l].state /\ expiry'[l].at <= expiry[l].at
        /\ expiry[l].state = "none" => expiry'[l].state \in {"none", "pending"}
  <2> TAKE l \in Lineage
  <2>1. CASE expiry'[l] = expiry[l]
    BY <1>7, <2>1
  <2>2. CASE /\ expiry'[l] = C!Scheduled(expiry[l], C!Least(C!FirstAccepted(l, given)) + ages[given])
             /\ C!FirstAccepted(l, given) # {}
    <3> DEFINE deadline == C!Least(C!FirstAccepted(l, given)) + ages[given]
    <3>1. deadline \in Nat
      BY <1>1, <1>5, <2>2
    <3>2. expiry[l] \in [state : {"none", "pending", "leased", "expired"}, at : Nat]
      BY <1>7
    <3>3. expiry'[l] = C!Scheduled(expiry[l], deadline)
      BY <2>2
    <3> HIDE DEF deadline
    <3>4. /\ C!Scheduled(expiry[l], deadline) \in [state : {"pending", "leased", "expired"}, at : Nat]
          /\ expiry[l].state # "none" =>
               /\ C!Scheduled(expiry[l], deadline).state = expiry[l].state
               /\ C!Scheduled(expiry[l], deadline).at <= expiry[l].at
          /\ expiry[l].state = "none" => C!Scheduled(expiry[l], deadline).state = "pending"
      BY <3>1, <3>2, ScheduledFacts
    <3> QED
      BY <3>3, <3>4
  <2> QED
    BY <1>6, <2>1, <2>2
<1>9. expiry' \in [Lineage -> [state : {"none", "pending", "leased", "expired"}, at : Nat]]
  BY <1>2, <1>8 DEF C!Schedule
<1>10. ASSUME NEW e \in C!Event, record[e] = "none", record'[e] = "stored"
       PROVE  /\ ~C!Refused(C!Of(e)) /\ accepted'[e].policy = given
              /\ ages[given] # 0 =>
                   /\ expiry'[C!Of(e)].state # "none"
                   /\ expiry'[C!Of(e)].at <= accepted'[e].at + ages[given]
  <2>1. e \in new /\ ~C!Refused(C!Of(e)) /\ accepted'[e] = [at |-> now, policy |-> given]
    BY <1>2, <1>10
  <2>2. C!Of(e) \in families /\ C!Of(e) \in Lineage
    BY <2>1 DEF C!Event, C!Of
  <2>3. accepted'[e].at \in C!FirstAccepted(C!Of(e), given) /\ accepted'[e].at \in Nat
    BY <1>3, <1>10, <2>1 DEF C!FirstAccepted
  <2>4. expiry[C!Of(e)].state # "expired"
    BY <2>1, <2>2 DEF CustodyInv, WorkInv, C!Refused
  <2>5. ASSUME ages[given] # 0
        PROVE  expiry'[C!Of(e)].state # "none" /\ expiry'[C!Of(e)].at <= accepted'[e].at + ages[given]
    <3> DEFINE deadline == C!Least(C!FirstAccepted(C!Of(e), given)) + ages[given]
    <3>1. expiry'[C!Of(e)] = C!Scheduled(expiry[C!Of(e)], deadline)
      BY <1>6, <2>2, <2>3, <2>5
    <3>2. deadline \in Nat /\ deadline <= accepted'[e].at + ages[given]
      BY <1>1, <1>5, <2>2, <2>3
    <3>3. /\ C!Scheduled(expiry[C!Of(e)], deadline) \in [state : {"pending", "leased", "expired"}, at : Nat]
          /\ C!Scheduled(expiry[C!Of(e)], deadline).at <= deadline
      BY <1>7, <2>2, <2>4, <3>2, ScheduledFacts
    <3> QED
      BY <2>3, <1>1, <3>1, <3>2, <3>3
  <2> QED
    BY <2>1, <2>5
<1>11. \A e \in C!Event : record[e] # "none" => record'[e] = record[e] /\ accepted'[e] = accepted[e]
  BY <1>2
<1>12. \A e \in C!Event : record[e] = "none" => record'[e] \in {"none", "stored", "refused"}
  BY <1>2
<1> QED
  BY <1>1, <1>3, <1>8, <1>9, <1>10, <1>11, <1>12

(***************************************************************************)
(* The invariant is inductive.                                             *)
(***************************************************************************)

\* The deadlines, the lifetimes and the events of a step that leaves the
\* memories alone: no deadline is put off and no lifetime is changed.
LEMMA CustodyQuiet ==
  ASSUME CustodyInv, C!TypeOK', GrantInv', WorkInv', now <= now',
         UNCHANGED C!eventVars,
         Len(ages) <= Len(ages'), \A v \in 1..Len(ages) : ages'[v] = ages[v],
         denied' = denied,
         \A l \in Lineage : /\ expiry'[l].at = expiry[l].at
                            /\ expiry[l].state = "none" <=> expiry'[l].state = "none"
                            /\ expiry'[l].state = "expired" => expiry[l].state = "expired"
  PROVE  CustodyInv'
<1>1. RecordInv'
  BY DEF CustodyInv, C!TypeOK, RecordInv, C!eventVars
<1>2. \A l \in Lineage : C!Due(l) => C!Due(l)'
  BY DEF CustodyInv, C!TypeOK, C!Due
<1>3. \A l \in Lineage : C!Stored(l)' = C!Stored(l)
  BY DEF C!Stored, C!eventVars
<1>4. C!ForgottenIsGone'
  BY <1>2, <1>3 DEF CustodyInv, C!ForgottenIsGone
<1>5. C!DeadlineHolds'
  <2> SUFFICES ASSUME NEW e \in C!Event, record[e] \in {"stored", "forgotten"},
                      ages'[accepted[e].policy] # 0
               PROVE  /\ expiry'[C!Of(e)].state # "none"
                      /\ expiry'[C!Of(e)].at <= accepted[e].at + ages'[accepted[e].policy]
    BY DEF C!DeadlineHolds, C!eventVars
  <2>1. ages'[accepted[e].policy] = ages[accepted[e].policy] /\ C!Of(e) \in Lineage
    BY DEF CustodyInv, RecordInv, C!Event, C!Of
  <2> QED
    BY <2>1 DEF CustodyInv, C!DeadlineHolds
<1> QED
  BY <1>1, <1>4, <1>5 DEF CustodyInv

LEMMA CustodyStep ==
  ASSUME C!ConstantAssumption, CustodyInv, C!Next PROVE CustodyInv'
<1>1. CASE C!DayPasses
  <2>1. C!TypeOK' /\ GrantInv' /\ WorkInv' /\ now <= now'
    BY <1>1 DEF C!DayPasses, CustodyInv, C!TypeOK, GrantInv, WorkInv, C!Due, C!custodyVars, C!eventVars, C!expiryVars
  <2> QED
    BY <1>1, <2>1, CustodyQuiet, SMTT(40) DEF C!DayPasses, C!custodyVars, C!expiryVars, CustodyInv, C!TypeOK
<1>2. CASE C!Pause
  <2>1. C!TypeOK' /\ GrantInv' /\ WorkInv'
    BY <1>2 DEF C!Pause, CustodyInv, C!TypeOK, GrantInv, WorkInv, C!Due, C!eventVars, C!expiryVars
  <2> QED
    BY <1>2, <2>1, CustodyQuiet, SMTT(40) DEF C!Pause, C!expiryVars, CustodyInv, C!TypeOK
<1>3. CASE C!RevokeSource
  <2>1. C!TypeOK' /\ GrantInv' /\ WorkInv'
    BY <1>3 DEF C!RevokeSource, CustodyInv, C!TypeOK, GrantInv, WorkInv, C!Due, C!eventVars, C!expiryVars
  <2> QED
    BY <1>3, <2>1, CustodyQuiet, SMTT(40) DEF C!RevokeSource, C!expiryVars, CustodyInv, C!TypeOK
<1>4. ASSUME NEW age \in RetentionAges, NEW revoke \in BOOLEAN, C!ChangePolicy(age, revoke) PROVE CustodyInv'
  <2>1. /\ ages' \in Seq(Nat) /\ Len(ages') = Len(ages) + 1 /\ Len(ages') \in 1..LastPolicy
        /\ \A v \in 1..Len(ages) : ages'[v] = ages[v]
    BY <1>4, AgesFacts DEF C!ChangePolicy, C!ConstantAssumption, CustodyInv, C!TypeOK
  <2>2. /\ grants' \in [Grant -> [policy : 0..Len(ages'), live : BOOLEAN]]
        /\ GrantInv'
    BY <1>4, <2>1 DEF C!ChangePolicy, CustodyInv, C!TypeOK, GrantInv
  <2>3. C!TypeOK' /\ WorkInv'
    BY <1>4, <2>1, <2>2 DEF C!ChangePolicy, CustodyInv, C!TypeOK, WorkInv, C!Due, C!eventVars, C!expiryVars
  <2> QED
    BY <1>4, <2>1, <2>2, <2>3, CustodyQuiet, SMTT(40) DEF C!ChangePolicy, C!expiryVars, CustodyInv, C!TypeOK
<1>5. ASSUME NEW g \in Grant, NEW given \in 1..Len(ages), C!Enroll(g, given) PROVE CustodyInv'
  <2>1. C!TypeOK' /\ GrantInv' /\ WorkInv'
    BY <1>5 DEF C!Enroll, CustodyInv, C!TypeOK, GrantInv, WorkInv, C!Due, C!eventVars, C!expiryVars
  <2> QED
    BY <1>5, <2>1, CustodyQuiet, SMTT(40) DEF C!Enroll, C!expiryVars, CustodyInv, C!TypeOK
<1>6. ASSUME NEW g \in Grant, C!RevokeGrant(g) PROVE CustodyInv'
  <2>1. C!TypeOK' /\ GrantInv' /\ WorkInv'
    BY <1>6 DEF C!RevokeGrant, CustodyInv, C!TypeOK, GrantInv, WorkInv, C!Due, C!eventVars, C!expiryVars
  <2> QED
    BY <1>6, <2>1, CustodyQuiet, SMTT(40) DEF C!RevokeGrant, C!expiryVars, CustodyInv, C!TypeOK
<1>7. ASSUME NEW g \in Grant, NEW events \in SUBSET C!Event, C!Page(g, events) PROVE CustodyInv'
  <2>1. C!TypeOK' /\ GrantInv'
    BY <1>7, CaptureFacts DEF C!Page, CustodyInv, C!TypeOK, GrantInv, C!custodyVars
  <2>2. now' = now /\ ages' = ages /\ denied' = denied
    BY <1>7 DEF C!Page, C!custodyVars
  <2>3. RecordInv'
    BY <1>7, <2>2, CaptureFacts DEF CustodyInv, C!TypeOK, RecordInv
  <2>4. \A l \in Lineage : C!Due(l) => C!Due(l)'
    <3> TAKE l \in Lineage
    <3>1. expiry[l].state # "none" =>
            expiry'[l].state = expiry[l].state /\ expiry'[l].at <= expiry[l].at
      BY <1>7, CaptureFacts
    <3>2. expiry[l].at \in Nat /\ expiry'[l].at \in Nat /\ now \in Nat
      BY <2>1 DEF CustodyInv, C!TypeOK
    <3> QED
      BY <2>2, <3>1, <3>2 DEF C!Due
  <2>5. WorkInv'
    BY <1>7, <2>4, CaptureFacts DEF WorkInv, CustodyInv, C!TypeOK
  <2>6. \A l \in Lineage : C!Refused(l) => C!Stored(l)' = C!Stored(l)
    BY <1>7, CaptureFacts DEF C!Stored, CustodyInv, C!TypeOK
  <2>7. C!ForgottenIsGone'
    BY <1>7, <2>2, <2>4, <2>6, CaptureFacts DEF C!ForgottenIsGone, C!Refused, C!Due, CustodyInv
  <2>8. C!DeadlineHolds'
    <3> SUFFICES ASSUME NEW e \in C!Event, record'[e] \in {"stored", "forgotten"},
                        ages[accepted'[e].policy] # 0
                 PROVE  /\ expiry'[C!Of(e)].state # "none"
                        /\ expiry'[C!Of(e)].at <= accepted'[e].at + ages[accepted'[e].policy]
      BY <2>2 DEF C!DeadlineHolds
    <3>1. CASE record[e] = "none"
      BY <1>7, <3>1, CaptureFacts DEF C!Event, C!Of
    <3>2. CASE record[e] # "none"
      <4>1. record'[e] = record[e] /\ accepted'[e] = accepted[e] /\ C!Of(e) \in Lineage
        BY <1>7, <3>2, CaptureFacts DEF C!Event, C!Of
      <4>2. expiry[C!Of(e)].state # "none" /\ expiry[C!Of(e)].at <= accepted[e].at + ages[accepted[e].policy]
        BY <4>1 DEF CustodyInv, C!DeadlineHolds
      <4>3. expiry'[C!Of(e)].state = expiry[C!Of(e)].state /\ expiry'[C!Of(e)].at <= expiry[C!Of(e)].at
        BY <1>7, <4>1, <4>2, CaptureFacts
      <4>4. /\ expiry[C!Of(e)].at \in Nat /\ expiry'[C!Of(e)].at \in Nat
            /\ accepted[e].at \in Nat /\ ages[accepted[e].policy] \in Nat
        BY <2>1, <4>1 DEF CustodyInv, C!TypeOK, RecordInv
      <4> QED
        BY <4>1, <4>2, <4>3, <4>4
    <3> QED
      BY <3>1, <3>2
  <2> QED
    BY <2>1, <2>3, <2>5, <2>7, <2>8 DEF CustodyInv
<1>8. ASSUME NEW e \in C!Event, C!Withdraw(e) PROVE CustodyInv'
  <2>1. C!TypeOK' /\ GrantInv' /\ WorkInv'
    <3>1. record' \in [C!Event -> {"none", "stored", "forgotten", "refused"}] /\ denied' \subseteq Lineage
      BY <1>8 DEF C!Withdraw, C!Forget, C!Event, C!Of, CustodyInv, C!TypeOK
    <3> QED
      BY <1>8, <3>1 DEF C!Withdraw, CustodyInv, C!TypeOK, GrantInv, WorkInv, C!Due, C!custodyVars
  <2>2. RecordInv'
    BY <1>8 DEF C!Withdraw, C!Forget, C!Withdrawn, C!Stored, CustodyInv, C!TypeOK, RecordInv, C!custodyVars
  <2>3. C!ForgottenIsGone'
    BY <1>8 DEF C!Withdraw, C!Forget, C!Withdrawn, C!Stored, CustodyInv, C!TypeOK, C!ForgottenIsGone, C!Due, C!custodyVars
  <2>4. C!DeadlineHolds'
    BY <1>8 DEF C!Withdraw, C!Forget, C!Withdrawn, C!Stored, CustodyInv, C!TypeOK, C!DeadlineHolds, C!custodyVars
  <2> QED
    BY <2>1, <2>2, <2>3, <2>4 DEF CustodyInv
<1>9. ASSUME NEW w \in Cleaner, NEW l \in Lineage, C!Claim(w, l) PROVE CustodyInv'
  <2>1. C!TypeOK' /\ GrantInv' /\ WorkInv'
    BY <1>9 DEF C!Claim, CustodyInv, C!TypeOK, GrantInv, WorkInv, C!Due, C!custodyVars, C!eventVars
  <2> QED
    BY <1>9, <2>1, CustodyQuiet, SMTT(40) DEF C!Claim, C!Claimable, C!Due, C!custodyVars, CustodyInv, C!TypeOK
<1>10. ASSUME NEW w \in Cleaner, NEW l \in Lineage, C!Process(w, l) PROVE CustodyInv'
  <2>1. PICK events \in SUBSET C!Stored(l) :
          /\ C!Forget(events)
          /\ C!Released(w, l, IF C!Remaining(l, events) = {} THEN "expired" ELSE "pending")
    BY <1>10 DEF C!Process
  <2>2. /\ C!Due(l) /\ expiry[l].state = "leased" /\ now' = now /\ ages' = ages /\ grants' = grants
        /\ denied' = denied \cup {l} /\ accepted' = accepted
    BY <1>10 DEF C!Process, C!Owned, C!Holds, CustodyInv, WorkInv, C!custodyVars
  <2>3. \A k \in Lineage :
          /\ expiry'[k].at = expiry[k].at
          /\ k # l => expiry'[k] = expiry[k] /\ C!Stored(k)' = C!Stored(k)
    BY <2>1 DEF C!Released, C!Forget, C!Stored, CustodyInv, C!TypeOK
  <2>4. C!Stored(l)' = C!Remaining(l, events)
    BY <2>1 DEF C!Forget, C!Stored, C!Remaining, CustodyInv, C!TypeOK
  <2>5. expiry'[l].state = IF C!Remaining(l, events) = {} THEN "expired" ELSE "pending"
    BY <2>1 DEF C!Released, CustodyInv, C!TypeOK
  <2>6. C!TypeOK' /\ GrantInv'
    <3>1. record' \in [C!Event -> {"none", "stored", "forgotten", "refused"}]
      BY <2>1 DEF C!Forget, CustodyInv, C!TypeOK
    <3>2. /\ expiry' \in [Lineage -> [state : {"none", "pending", "leased", "expired"}, at : Nat]]
          /\ claimant' \in [Lineage -> Cleaner \cup {Nobody}]
          /\ claimLive' \subseteq Lineage /\ cleaning' \in [Cleaner -> SUBSET Lineage]
      BY <2>1 DEF C!Released, CustodyInv, C!TypeOK
    <3> QED
      BY <1>10, <2>2, <3>1, <3>2 DEF C!Process, CustodyInv, C!TypeOK, GrantInv, C!custodyVars
  <2>7. RecordInv'
    BY <2>1, <2>2 DEF C!Forget, C!Stored, CustodyInv, C!TypeOK, RecordInv
  <2>8. WorkInv'
    BY <2>2, <2>3 DEF CustodyInv, WorkInv, C!Due
  <2>9. C!ForgottenIsGone'
    BY <2>2, <2>3, <2>4, <2>5 DEF CustodyInv, C!ForgottenIsGone, C!Due
  <2>10. C!DeadlineHolds'
    <3>1. \A e \in C!Event : record'[e] \in {"stored", "forgotten"} => record[e] \in {"stored", "forgotten"}
      BY <2>1 DEF C!Forget, C!Stored, CustodyInv, C!TypeOK
    <3>2. \A k \in Lineage : expiry[k].state # "none" => expiry'[k].state # "none"
      BY <2>3, <2>5
    <3>3. \A e \in C!Event : C!Of(e) \in Lineage
      BY DEF C!Event, C!Of
    <3> QED
      BY <2>2, <2>3, <3>1, <3>2, <3>3 DEF CustodyInv, C!DeadlineHolds
  <2> QED
    BY <2>6, <2>7, <2>8, <2>9, <2>10 DEF CustodyInv
<1>11. ASSUME NEW w \in Cleaner, NEW l \in Lineage, C!NotOwned(w, l) PROVE CustodyInv'
  <2>1. C!TypeOK' /\ GrantInv' /\ WorkInv'
    BY <1>11 DEF C!NotOwned, CustodyInv, C!TypeOK, GrantInv, WorkInv, C!Due, C!custodyVars, C!eventVars
  <2> QED
    BY <1>11, <2>1, CustodyQuiet, SMTT(40) DEF C!NotOwned, C!custodyVars, CustodyInv, C!TypeOK
<1>12. ASSUME NEW w \in Cleaner, NEW l \in Lineage, C!Fail(w, l) PROVE CustodyInv'
  <2>1. /\ now' = now /\ paused' = paused /\ retired' = retired /\ ages' = ages /\ grants' = grants
        /\ UNCHANGED C!eventVars /\ denied' = denied
    BY <1>12 DEF C!Fail, C!custodyVars
  <2>2. CASE C!Holds(w, l) /\ C!Released(w, l, "pending")
    <3>1. C!TypeOK' /\ GrantInv' /\ WorkInv'
      BY <2>1, <2>2 DEF C!Released, CustodyInv, C!TypeOK, GrantInv, WorkInv, C!Due, C!eventVars
    <3> QED
      BY <2>1, <2>2, <3>1, CustodyQuiet, SMTT(40) DEF C!Holds, C!Released, CustodyInv, C!TypeOK
  <2>3. CASE cleaning' = [cleaning EXCEPT ![w] = {}] /\ UNCHANGED <<expiry, claimant, claimLive>>
    <3>1. C!TypeOK' /\ GrantInv' /\ WorkInv'
      BY <2>1, <2>3 DEF CustodyInv, C!TypeOK, GrantInv, WorkInv, C!Due, C!eventVars
    <3> QED
      BY <2>1, <2>3, <3>1, CustodyQuiet, SMTT(40) DEF CustodyInv, C!TypeOK
  <2> QED
    BY <1>12, <2>2, <2>3 DEF C!Fail
<1>13. ASSUME NEW l \in Lineage, C!LeaseExpires(l) PROVE CustodyInv'
  <2>1. C!TypeOK' /\ GrantInv' /\ WorkInv'
    BY <1>13 DEF C!LeaseExpires, CustodyInv, C!TypeOK, GrantInv, WorkInv, C!Due, C!custodyVars, C!eventVars
  <2> QED
    BY <1>13, <2>1, CustodyQuiet, SMTT(40) DEF C!LeaseExpires, C!custodyVars, CustodyInv, C!TypeOK
<1>14. ASSUME NEW w \in Cleaner, C!Crash(w) PROVE CustodyInv'
  <2>1. C!TypeOK' /\ GrantInv' /\ WorkInv'
    BY <1>14 DEF C!Crash, CustodyInv, C!TypeOK, GrantInv, WorkInv, C!Due, C!custodyVars, C!eventVars
  <2> QED
    BY <1>14, <2>1, CustodyQuiet, SMTT(40) DEF C!Crash, C!custodyVars, CustodyInv, C!TypeOK
<1> QED
  BY <1>1, <1>2, <1>3, <1>4, <1>5, <1>6, <1>7, <1>8, <1>9, <1>10, <1>11, <1>12, <1>13, <1>14
  DEF C!Next

LEMMA CustodyInit ==
  ASSUME C!ConstantAssumption, C!Init PROVE CustodyInv
<1>1. ages \in Seq(Nat) /\ Len(ages) = 1
  BY DEF C!ConstantAssumption, C!Init
<1>2. C!TypeOK
  <2>1. grants \in [Grant -> [policy : 0..Len(ages), live : BOOLEAN]] /\ now \in Nat
    BY <1>1 DEF C!Init
  <2>2. Len(ages) \in 1..LastPolicy
    BY <1>1 DEF C!ConstantAssumption
  <2>3. /\ record \in [C!Event -> {"none", "stored", "forgotten", "refused"}]
        /\ accepted \in [C!Event -> [at : Nat, policy : Nat]]
        /\ expiry \in [Lineage -> [state : {"none", "pending", "leased", "expired"}, at : Nat]]
    BY DEF C!Init
  <2> QED
    BY <1>1, <2>1, <2>2, <2>3 DEF C!Init, C!TypeOK
<1>3. GrantInv /\ RecordInv /\ WorkInv /\ C!ForgottenIsGone /\ C!DeadlineHolds
  BY DEF C!Init, GrantInv, RecordInv, WorkInv, C!ForgottenIsGone, C!DeadlineHolds, C!Event, C!Of
<1> QED
  BY <1>2, <1>3 DEF CustodyInv

LEMMA CustodyStutter ==
  ASSUME CustodyInv, UNCHANGED C!vars PROVE CustodyInv'
BY DEF C!vars, C!custodyVars, C!eventVars, C!expiryVars, CustodyInv, C!TypeOK, GrantInv, RecordInv, WorkInv,
       C!ForgottenIsGone, C!DeadlineHolds, C!Due, C!Stored

(***************************************************************************)
(* The theorems.                                                           *)
(***************************************************************************)

\* Every field keeps its type: a grant names a version there is, or none, and
\* a deadline is a day.
THEOREM CustodyTyped == ASSUME C!ConstantAssumption PROVE C!Spec => []C!TypeOK
<1>1. CustodyInv => C!TypeOK
  BY DEF CustodyInv
<1> QED
  BY <1>1, CustodyInit, CustodyStep, CustodyStutter, PTL DEF C!Spec

\* A family a person withdrew, or one whose expiry was reported as done, keeps
\* no memory: a withdrawal takes the whole family, and a page refuses it in the
\* same transaction that reads the denial and the deadline.
THEOREM ForgottenStaysGone == ASSUME C!ConstantAssumption PROVE C!Spec => []C!ForgottenIsGone
<1>1. CustodyInv => C!ForgottenIsGone
  BY DEF CustodyInv
<1> QED
  BY <1>1, CustodyInit, CustodyStep, CustodyStutter, PTL DEF C!Spec

\* No revision, grant, later policy or failed expiry puts a deadline beyond the
\* lifetime under which an event was accepted.
THEOREM DeadlineAlwaysHolds == ASSUME C!ConstantAssumption PROVE C!Spec => []C!DeadlineHolds
<1>1. CustodyInv => C!DeadlineHolds
  BY DEF CustodyInv
<1> QED
  BY <1>1, CustodyInit, CustodyStep, CustodyStutter, PTL DEF C!Spec

LEMMA CustodyLoss ==
  ASSUME CustodyInv, C!Next, NEW l \in Lineage, l \in denied \/ C!Due(l)
  PROVE  C!Stored(l)' \subseteq C!Stored(l)
<1>1. CASE UNCHANGED record
  BY <1>1 DEF C!Stored
<1>2. ASSUME NEW events \in SUBSET C!Event, C!Forget(events) PROVE C!Stored(l)' \subseteq C!Stored(l)
  BY <1>2 DEF C!Forget, C!Stored, CustodyInv, C!TypeOK
<1>3. ASSUME NEW g \in Grant, NEW events \in SUBSET C!Event, C!Page(g, events)
      PROVE  C!Stored(l)' \subseteq C!Stored(l)
  BY <1>3, CaptureFacts DEF C!Refused, C!Stored, CustodyInv, C!TypeOK
<1>4. ASSUME NEW e \in C!Event, C!Withdraw(e) PROVE C!Stored(l)' \subseteq C!Stored(l)
  BY <1>2, <1>4 DEF C!Withdraw, C!Withdrawn, C!Stored
<1>5. ASSUME NEW w \in Cleaner, NEW k \in Lineage, C!Process(w, k) PROVE C!Stored(l)' \subseteq C!Stored(l)
  BY <1>2, <1>5 DEF C!Process, C!Stored
<1> QED
  BY <1>1, <1>3, <1>4, <1>5 DEF C!Next, C!DayPasses, C!Pause, C!RevokeSource, C!ChangePolicy, C!Enroll, C!RevokeGrant, C!Claim,
     C!NotOwned, C!Fail, C!LeaseExpires, C!Crash, C!eventVars

\* From its deadline, or from its withdrawal, on a family only loses memories.
THEOREM NothingEverComesBack == ASSUME C!ConstantAssumption PROVE C!Spec => C!NothingComesBack
<1>1. CustodyInv /\ [C!Next]_C!vars =>
        [\A l \in Lineage : l \in denied \/ C!Due(l) => C!Stored(l)' \subseteq C!Stored(l)]_C!vars
  BY CustodyLoss
<1> QED
  BY <1>1, CustodyInit, CustodyStep, CustodyStutter, PTL DEF C!Spec, C!NothingComesBack

(***************************************************************************)
(* SyncRequests.                                                           *)
(***************************************************************************)

\* A scan that is whole, and a report of one, began at a generation that is
\* covered.
RequestInv ==
    /\ Q!TypeOK
    /\ completed <= covered
    /\ \A g \in reports : g <= covered
    /\ \A c \in ScanRunner : /\ scan[c] # "idle" => control[c] = began[c]
                             /\ scan[c] = "whole" => began[c] <= covered

LEMMA RequestStep ==
  ASSUME RequestInv, Retained = {}, Q!Next PROVE RequestInv'
<1> USE DEF RequestInv, Q!TypeOK, Q!Generation
<1>1. CASE Q!RequestSync
  BY <1>1, SyncRequestsAssumption DEF Q!RequestSync, Q!ConstantAssumption
<1>2. ASSUME NEW c \in ScanRunner, Q!StartScan(c) PROVE RequestInv'
  BY <1>2 DEF Q!StartScan
<1>3. ASSUME NEW c \in ScanRunner, Q!ScanFails(c) PROVE RequestInv'
  BY <1>3 DEF Q!ScanFails
<1>4. ASSUME NEW c \in ScanRunner, Q!ScanEnds(c) PROVE RequestInv'
  BY <1>4 DEF Q!ScanEnds
<1>5. ASSUME NEW c \in ScanRunner, Q!SendReport(c) PROVE RequestInv'
  BY <1>5 DEF Q!SendReport
<1>6. ASSUME NEW g \in Q!Generation, Q!ReportSync(g) PROVE RequestInv'
  BY <1>6 DEF Q!ReportSync, Q!Acknowledged
<1>7. ASSUME NEW g \in Q!Generation, Q!ReportLost(g) PROVE RequestInv'
  BY <1>7 DEF Q!ReportLost
<1> QED
  BY <1>1, <1>2, <1>3, <1>4, <1>5, <1>6, <1>7 DEF Q!Next

(***************************************************************************)
(* JournalBackfill.                                                        *)
(***************************************************************************)

\* What the transaction of a change does to the events: the memory gets a
\* version with an event of its own, and no event loses its row.
LEMMA BackfillCaptures ==
  ASSUME B!EventsOK, NEW m \in B!Memory, NEW act \in {"upsert", "quarantine", "forget"},
         NEW where \in {"ordinary", "quarantined", "forgotten"}, B!Capture(m, act, where)
  PROVE  /\ B!EventsOK'
         /\ \A n \in B!Memory \ {m} : standing'[n] = standing[n] /\ version'[n] = version[n]
         /\ version'[m] = version[m] + 1 /\ standing'[m] = where
         /\ <<m, version'[m]>> \in B!Event /\ state'[<<m, version'[m]>>] = "queued"
         /\ \A e \in B!Event : state[e] # "none" => state'[e] # "none"
<1> USE DEF B!EventsOK, B!Capture, B!Memory, B!Version, B!Event, B!Queued
<1>1. <<m, version[m] + 1>> \in B!Event
  BY JournalBackfillAssumption DEF B!ConstantAssumption
<1> QED
  BY <1>1

\* Behind the cursor nothing was left out; the memory under examination is the
\* next one, and still to be queued.
ExaminedInv ==
    /\ B!TypeOK
    /\ \A m \in B!Memory : standing[m] # "none" => version[m] # 0
    /\ \A m \in 1..cursor : standing[m] = "ordinary" => B!Captured(m) \/ B!Text(m) \in rejected
    /\ pc = "scanning" => cursor + 1 \in B!Memory /\ standing[cursor + 1] = "ordinary"
    /\ backfill = "completed" => cursor = LastMemory
    /\ ~unapproved

LEMMA BackfillStep ==
  ASSUME ExaminedInv, B!Next PROVE ExaminedInv'
<1> USE DEF ExaminedInv, B!TypeOK, B!Memory, B!Captured, B!Text
<1> LastMemory \in Nat \ {0} /\ VersionBound \in Nat \ {0}
  BY JournalBackfillAssumption DEF B!ConstantAssumption
<1>0. \A n \in 1..cursor : n \in B!Memory /\ (standing[n] = "ordinary" => <<n, version[n]>> \in B!Event)
  <2>1. \A n \in B!Memory : version[n] \in 0..VersionBound
    BY DEF B!EventsOK
  <2> QED
    BY <2>1 DEF B!Event, B!Version
<1>1. ASSUME NEW m \in B!Memory, B!Change(m) PROVE ExaminedInv'
  <2>1. PICK act \in {"upsert", "quarantine", "forget"}, where \in {"ordinary", "quarantined", "forgotten"} :
          B!Capture(m, act, where)
    BY <1>1 DEF B!Change, B!Write, B!Withdraw
  <2>2. /\ B!EventsOK'
        /\ \A n \in B!Memory \ {m} : standing'[n] = standing[n] /\ version'[n] = version[n]
        /\ version'[m] = version[m] + 1 /\ standing'[m] = where
        /\ state'[<<m, version'[m]>>] = "queued"
        /\ \A e \in B!Event : state[e] # "none" => state'[e] # "none"
    BY <2>1, BackfillCaptures
  <2>3. UNCHANGED <<policy, approver, backfill, approved, cursor, rejected, pc, unapproved>>
    BY <1>1 DEF B!Change, B!runVars
  <2>4. ASSUME NEW n \in 1..cursor, standing'[n] = "ordinary"
        PROVE  B!Captured(n)' \/ B!Text(n)' \in rejected'
    <3>1. CASE n = m
      BY <2>2, <3>1
    <3>2. CASE n # m
      <4>1. n \in B!Memory /\ standing[n] = "ordinary" /\ <<n, version[n]>> \in B!Event
        BY <1>0, <2>2, <2>3, <2>4, <3>2
      <4> QED
        BY <2>2, <2>3, <2>4, <3>2, <4>1
    <3> QED
      BY <3>1, <3>2
  <2>5. \A n \in B!Memory : standing'[n] # "none" => version'[n] # 0
    <3>1. version[m] \in Nat
      BY DEF B!EventsOK
    <3>2. version'[m] # 0
      BY <2>2, <3>1
    <3> QED
      BY <2>2, <3>2
  <2>6. pc = "scanning" => m # cursor + 1
    BY <1>1 DEF B!Change
  <2> QED
    BY <2>2, <2>3, <2>4, <2>5, <2>6
<1>2. CASE B!Deliver
  <2>1. B!EventsOK' /\ \A e \in B!Event : state[e] # "none" => state'[e] # "none"
    BY <1>2 DEF B!Deliver, B!Pushed, B!EventsOK
  <2>2. UNCHANGED <<standing, version, action, policy, approver, backfill, approved, cursor, rejected, pc, unapproved>>
    BY <1>2 DEF B!Deliver, B!Pushed, B!runVars
  <2> QED
    BY <1>0, <2>1, <2>2
<1>3. CASE B!Queue
  <2>1. <<cursor + 1, version[cursor + 1]>> \in B!Event
    BY <1>3 DEF B!Queue, B!EventsOK, B!Event, B!Version
  <2>2. B!EventsOK' /\ \A e \in B!Event : state[e] # "none" => state'[e] # "none"
    BY <1>3 DEF B!Queue, B!EventsOK
  <2>3. state'[<<cursor + 1, version[cursor + 1]>>] = "queued"
    BY <1>3, <2>1 DEF B!Queue, B!EventsOK
  <2>4. cursor' = cursor + 1 /\ \A n \in 1..(cursor + 1) : n \in 1..cursor \/ n = cursor + 1
    BY <1>3 DEF B!Queue
  <2>5. ~unapproved' /\ pc' = "batch" /\ backfill' = backfill /\ (backfill # "completed")
    BY <1>3 DEF B!Queue, B!StillApproved
  <2> QED
    BY <1>0, <1>3, <2>2, <2>3, <2>4, <2>5 DEF B!Queue
<1>4. CASE B!Refuse
  <2>1. <<cursor + 1, version[cursor + 1]>> \in B!Event
    BY <1>4 DEF B!Refuse, B!EventsOK, B!Event, B!Version
  <2>2. \A n \in 1..(cursor + 1) : n \in 1..cursor \/ n = cursor + 1
    OBVIOUS
  <2>3. /\ cursor' = cursor + 1 /\ rejected' = rejected \cup {<<cursor + 1, version[cursor + 1]>>}
        /\ pc' = "batch" /\ backfill # "completed"
        /\ UNCHANGED <<standing, version, action, state, policy, approver, backfill, approved, unapproved>>
    BY <1>4 DEF B!Refuse, B!eventVars
  <2>4. B!EventsOK'
    BY <2>3 DEF B!EventsOK
  <2>5. cursor' \in 0..LastMemory
    BY <1>4, <2>3 DEF B!Refuse
  <2> QED
    BY <2>1, <2>2, <2>3, <2>4, <2>5
<1>5. CASE B!Examine
  <2>1. \A n \in 1..(cursor + 1) : n \in 1..cursor \/ n = cursor + 1
    OBVIOUS
  <2> QED
    BY <1>5, <2>1 DEF B!Examine, B!Open, B!ToQueue, B!eventVars, B!EventsOK
<1>6. CASE B!Start
  BY <1>6, JournalBackfillAssumption DEF B!Start, B!Unlocked, B!eventVars, B!EventsOK,
         B!ConstantAssumption
<1>7. ASSUME NEW paused_ \in BOOLEAN, B!Configure(paused_) PROVE ExaminedInv'
  BY <1>7 DEF B!Configure, B!eventVars, B!runVars, B!EventsOK
<1>8. CASE B!ApproverChanges
  BY <1>8 DEF B!ApproverChanges, B!eventVars, B!runVars, B!EventsOK
<1>9. ASSUME NEW target \in {"paused", "cancelled"}, B!Control(target) PROVE ExaminedInv'
  BY <1>9 DEF B!Control, B!eventVars, B!EventsOK
<1>10. CASE B!Scan
  BY <1>10 DEF B!Scan, B!Open, B!ToQueue, B!eventVars, B!EventsOK
<1>11. CASE B!Claim \/ B!BatchEnds
  BY <1>11 DEF B!Claim, B!BatchEnds, B!eventVars, B!EventsOK
<1>12. CASE B!ScanAborts \/ B!Block
  BY <1>12 DEF B!ScanAborts, B!Block, B!eventVars, B!EventsOK
<1>13. CASE B!Complete
  BY <1>13 DEF B!Complete, B!Open, B!eventVars, B!EventsOK
<1> QED
  BY <1>1, <1>2, <1>3, <1>4, <1>5, <1>6, <1>7, <1>8, <1>9, <1>10, <1>11,
     <1>12, <1>13 DEF B!Next

(***************************************************************************)
(* JournalFiling.                                                          *)
(***************************************************************************)

NoteShape == [shows : {"none", "text", "pending", "closed"}, version : Nat]
BranchShape ==
    [filed : SUBSET F!Event, archived : SUBSET F!Event, notes : [F!Memory -> NoteShape], foreign : Nat]

\* The branch records the events that were pushed; a memory that is withdrawn
\* has the event of its withdrawal, and versions to come have none.
RecordedInv ==
    /\ \A e \in F!Event : e \in F!Recorded <=> state[e] = "pushed"
    /\ \A e \in F!Event : state[e] # "none" => e[2] <= version[e[1]]
    /\ \A m \in F!Memory : standing[m] \in {"quarantined", "forgotten"} =>
          /\ version[m] # 0 /\ action[F!Text(m)] # "upsert"
          /\ state[F!Text(m)] \in {"queued", "pushed"}

\* Every note is of a memory the branch records.
NotesInv == \A m \in F!Memory : branch.notes[m].shows # "none" => F!Mentions(F!Recorded, m)

\* While filing is under way it holds the publisher's lock: what it read is still
\* there, and what it will push shows the newest records.  Until the final check
\* a withdrawal leaves an event queued.
PlanInv ==
    fpc # "idle" =>
        /\ plan.next \in BranchShape
        /\ plan.next.filed \cup plan.next.archived = F!Recorded
        /\ \A m \in F!Memory :
              \/ plan.next.notes[m] = branch.notes[m]
              \/ plan.next.notes[m] = F!Rendered(m) /\ F!Mentions(F!Recorded, m)
        /\ \A m \in F!Memory :
              plan.next.notes[m].shows = "text" /\ standing[m] \in {"quarantined", "forgotten"} =>
                 \/ fpc = "planned" /\ state[F!Text(m)] = "queued"
                 \/ <<m, plan.next.notes[m].version>> \in shown

FilingTypes ==
    /\ F!EventsOK
    /\ branch \in BranchShape
    /\ aged \subseteq F!Recorded
    /\ fpc \in {"idle", "planned", "checked"}

FiledInv == FilingTypes /\ RecordedInv /\ NotesInv /\ PlanInv /\ F!NotesFollowRecords

\* The newest of some events of a memory is one of them, and newer than the rest.
LEMMA NewestFacts ==
  ASSUME NEW S \in SUBSET F!Event, NEW m \in F!Memory, F!Mentions(S, m)
  PROVE  /\ F!Newest(S, m) \in S /\ F!Newest(S, m)[1] = m
         /\ \A f \in S : f[1] = m => f[2] <= F!Newest(S, m)[2]
<1> DEFINE T == {VersionBound - e[2] : e \in {e \in S : e[1] = m}}
<1>1. VersionBound \in Nat
  BY JournalFilingAssumption DEF F!ConstantAssumption
<1>2. \A e \in S : e[2] \in 1..VersionBound
  BY DEF F!Event, F!Version
<1>3. T \in SUBSET Nat /\ T # {}
  BY <1>1, <1>2 DEF F!Mentions
<1>4. C!Least(T) \in T /\ \A y \in T : C!Least(T) <= y
  BY <1>3, LeastFacts
<1>5. PICK e \in S : e[1] = m /\ C!Least(T) = VersionBound - e[2]
  BY <1>4
<1>6. \A f \in S : f[1] = m => f[2] <= e[2]
  <2> SUFFICES ASSUME NEW f \in S, f[1] = m PROVE f[2] <= e[2]
    OBVIOUS
  <2>1. VersionBound - f[2] \in T
    OBVIOUS
  <2>2. VersionBound - e[2] <= VersionBound - f[2]
    BY <1>4, <1>5, <2>1
  <2> QED
    BY <1>1, <1>2, <2>2
<1> QED
  BY <1>5, <1>6 DEF F!Newest

\* Hence an event that is newer than the rest is the newest.
LEMMA NewestIs ==
  ASSUME NEW S \in SUBSET F!Event, NEW m \in F!Memory, NEW e \in S,
         e[1] = m, \A f \in S : f[1] = m => f[2] <= e[2]
  PROVE  F!Newest(S, m) = e
<1> DEFINE n == F!Newest(S, m)
<1>1. n \in S /\ n[1] = m /\ e[2] <= n[2]
  BY NewestFacts DEF F!Mentions
<1>2. n[2] <= e[2]
  BY <1>1
<1>3. n[2] \in Nat /\ e[2] \in Nat /\ n = <<n[1], n[2]>> /\ e = <<e[1], e[2]>>
  BY <1>1 DEF F!Event, F!Version
<1>4. n[1] = e[1] /\ n[2] = e[2]
  BY <1>1, <1>2, <1>3
<1>5. n = e
  BY <1>3, <1>4, Zenon
<1> QED
  BY <1>5

\* The transaction of a change.
LEMMA FilingCaptures ==
  ASSUME F!EventsOK, NEW m \in F!Memory, NEW act \in {"upsert", "quarantine", "forget"},
         NEW where \in {"ordinary", "quarantined", "forgotten"}, F!Capture(m, act, where)
  PROVE  /\ F!EventsOK'
         /\ \A n \in F!Memory \ {m} : standing'[n] = standing[n] /\ version'[n] = version[n]
         /\ version'[m] = version[m] + 1 /\ standing'[m] = where
         /\ <<m, version'[m]>> \in F!Event
         /\ action'[<<m, version'[m]>>] = act /\ state'[<<m, version'[m]>>] = "queued"
         /\ \A e \in F!Event \ {<<m, version'[m]>>} :
              /\ action'[e] = action[e]
              /\ state'[e] = state[e] \/ (state[e] = "queued" /\ state'[e] = "suppressed" /\ action[e] = "upsert")
<1> USE DEF F!EventsOK, F!Capture, F!Memory, F!Version, F!Event, F!Queued
<1>1. <<m, version[m] + 1>> \in F!Event
  BY JournalFilingAssumption DEF F!ConstantAssumption
<1> QED
  BY <1>1

\* What a note would show stays the same while the branch records the same.
LEMMA RenderedKept ==
  ASSUME FilingTypes, F!Recorded' = F!Recorded, \A e \in F!Recorded : action'[e] = action[e],
         NEW m \in F!Memory, F!Mentions(F!Recorded, m)
  PROVE  F!Rendered(m)' = F!Rendered(m) /\ (F!Denied(m)' <=> F!Denied(m))
<1>1. F!Recorded \in SUBSET F!Event
  BY DEF FilingTypes, BranchShape, F!Recorded
<1>2. F!Newest(F!Recorded, m) \in F!Recorded
  BY <1>1, NewestFacts
<1>3. F!Denied(m)' <=> F!Denied(m)
  BY DEF F!Denied
<1>4. F!Newest(F!Recorded, m)' = F!Newest(F!Recorded, m)
  BY DEF F!Newest
<1> QED
  BY <1>2, <1>3, <1>4 DEF F!Rendered, F!Note

LEMMA RenderedShape ==
  ASSUME FilingTypes, NEW m \in F!Memory, F!Mentions(F!Recorded, m)
  PROVE  F!Rendered(m) \in NoteShape /\ (F!Rendered(m).shows = "text" => ~F!Denied(m))
<1>1. F!Recorded \in SUBSET F!Event
  BY DEF FilingTypes, BranchShape, F!Recorded
<1>2. F!Newest(F!Recorded, m) \in F!Event
  BY <1>1, NewestFacts
<1>3. F!Newest(F!Recorded, m)[2] \in Nat
  BY <1>2 DEF F!Event, F!Version
<1> QED
  BY <1>3 DEF F!Rendered, F!Note, NoteShape

LEMMA FilingStep ==
  ASSUME FiledInv, F!Next PROVE FiledInv'
<1> USE DEF FiledInv
<1>a. F!Recorded \in SUBSET F!Event
  BY DEF FilingTypes, BranchShape, F!Recorded
<1>b. \A m \in F!Memory : version[m] \in Nat /\ (version[m] # 0 => F!Text(m) \in F!Event)
  BY DEF FilingTypes, F!EventsOK, F!Event, F!Version, F!Text
<1>1. ASSUME NEW m \in F!Memory, F!Change(m) PROVE FiledInv'
  <2>1. /\ UNCHANGED <<policy, branch, aged, fpc, plan>>
        /\ shown' = shown \/ shown' = shown \cup F!Showing(m)
    BY <1>1 DEF F!Change, F!filingVars
  <2>2. PICK act \in {"upsert", "quarantine", "forget"}, where \in {"ordinary", "quarantined", "forgotten"} :
          /\ F!Capture(m, act, where)
          /\ where # "ordinary" => act # "upsert" /\ shown' = shown \cup F!Showing(m)
    BY <1>1 DEF F!Change, F!Write, F!Withdraw
  <2>3. /\ F!EventsOK'
        /\ \A n \in F!Memory \ {m} : standing'[n] = standing[n] /\ version'[n] = version[n]
        /\ version'[m] = version[m] + 1 /\ standing'[m] = where
        /\ <<m, version'[m]>> \in F!Event
        /\ action'[<<m, version'[m]>>] = act /\ state'[<<m, version'[m]>>] = "queued"
        /\ \A e \in F!Event \ {<<m, version'[m]>>} :
             /\ action'[e] = action[e]
             /\ state'[e] = state[e] \/ (state[e] = "queued" /\ state'[e] = "suppressed" /\ action[e] = "upsert")
    BY <2>2, FilingCaptures DEF FilingTypes
  <2>4. state[<<m, version'[m]>>] = "none"
    BY <1>b, <2>3 DEF RecordedInv, FilingTypes, F!EventsOK
  <2>5. F!Recorded' = F!Recorded /\ \A e \in F!Recorded : action'[e] = action[e]
    BY <1>a, <2>1, <2>3, <2>4 DEF F!Recorded, RecordedInv
  <2>6. FilingTypes'
    BY <2>1, <2>3, <2>5 DEF FilingTypes
  <2>7. RecordedInv'
    <3>1. \A e \in F!Event : e \in F!Recorded' <=> state'[e] = "pushed"
      BY <2>3, <2>4, <2>5 DEF RecordedInv
    <3>2. \A e \in F!Event : state'[e] # "none" => e[2] <= version'[e[1]]
      <4> SUFFICES ASSUME NEW e \in F!Event, state'[e] # "none" PROVE e[2] <= version'[e[1]]
        OBVIOUS
      <4>1. CASE e = <<m, version'[m]>>
        BY <1>b, <2>3, <4>1
      <4>2. CASE e # <<m, version'[m]>>
        <5>1. state[e] # "none" /\ e[1] \in F!Memory /\ e[2] \in Nat
          BY <2>3, <4>2 DEF F!Event, F!Version
        <5>2. e[2] <= version[e[1]]
          BY <5>1 DEF RecordedInv
        <5> QED
          BY <1>b, <2>3, <5>1, <5>2
      <4> QED
        BY <4>1, <4>2
    <3>3. ASSUME NEW n \in F!Memory, standing'[n] \in {"quarantined", "forgotten"}
          PROVE  /\ version'[n] # 0 /\ action'[F!Text(n)'] # "upsert"
                 /\ state'[F!Text(n)'] \in {"queued", "pushed"}
      <4>1. CASE n = m
        <5>1. version[m] \in Nat /\ version'[m] = version[m] + 1
          BY <1>b, <2>3
        <5>2. version'[m] # 0
          BY <5>1
        <5>3. F!Text(m)' = <<m, version'[m]>> /\ where # "ordinary"
          BY <2>3, <3>3, <4>1 DEF F!Text
        <5> QED
          BY <2>2, <2>3, <4>1, <5>2, <5>3
      <4>2. CASE n # m
        <5>1. standing[n] = standing'[n] /\ version[n] = version'[n] /\ F!Text(n)' = F!Text(n)
          BY <2>3, <4>2 DEF F!Text
        <5>2. /\ version[n] # 0 /\ action[F!Text(n)] # "upsert"
              /\ state[F!Text(n)] \in {"queued", "pushed"} /\ F!Text(n) \in F!Event
          BY <1>b, <3>3, <5>1 DEF RecordedInv
        <5>3. F!Text(n) # <<m, version'[m]>>
          BY <4>2 DEF F!Text
        <5> QED
          BY <2>3, <5>1, <5>2, <5>3
      <4> QED
        BY <4>1, <4>2
    <3> QED
      BY <3>1, <3>2, <3>3 DEF RecordedInv
  <2>8. NotesInv'
    BY <2>1, <2>5 DEF NotesInv, F!Mentions
  <2>9. \A n \in F!Memory : F!Mentions(F!Recorded, n) =>
          F!Rendered(n)' = F!Rendered(n) /\ (F!Denied(n)' <=> F!Denied(n))
    BY <2>5, RenderedKept
  <2>10. PlanInv'
    <3> SUFFICES ASSUME fpc # "idle" PROVE PlanInv'
      BY <2>1 DEF PlanInv
    <3>1. \A n \in F!Memory :
            \/ plan.next.notes[n] = branch.notes[n]
            \/ plan.next.notes[n] = F!Rendered(n)' /\ F!Mentions(F!Recorded, n)
      BY <2>9 DEF PlanInv
    <3>2. ASSUME NEW n \in F!Memory, plan.next.notes[n].shows = "text",
                 standing'[n] \in {"quarantined", "forgotten"}
          PROVE  \/ fpc = "planned" /\ state'[F!Text(n)'] = "queued"
                 \/ <<n, plan.next.notes[n].version>> \in shown'
      <4>1. CASE n = m /\ fpc = "planned"
        BY <2>3, <4>1 DEF F!Text
      <4>2. CASE n = m /\ fpc = "checked"
        <5>1. <<m, plan.next.notes[m].version>> \in F!Showing(m)
          BY <3>2, <4>2 DEF F!Showing
        <5> QED
          BY <2>2, <2>3, <3>2, <4>2, <5>1
      <4>3. CASE n # m
        <5>1. standing[n] = standing'[n] /\ version[n] = version'[n] /\ F!Text(n)' = F!Text(n)
          BY <2>3, <4>3 DEF F!Text
        <5>2. F!Text(n) \in F!Event /\ action[F!Text(n)] # "upsert" /\ F!Text(n) # <<m, version'[m]>>
          BY <1>b, <3>2, <4>3, <5>1 DEF RecordedInv, F!Text
        <5> QED
          BY <2>1, <2>3, <3>2, <5>1, <5>2 DEF PlanInv
      <4> QED
        BY <4>1, <4>2, <4>3 DEF FilingTypes
    <3> QED
      BY <2>1, <2>5, <3>1, <3>2 DEF PlanInv, F!Mentions
  <2>11. F!NotesFollowRecords'
    <3> SUFFICES ASSUME NEW n \in F!Memory, branch.notes[n].shows = "text"
                 PROVE  /\ F!Mentions(F!Recorded, n)' /\ ~F!Denied(n)'
                        /\ branch.notes[n] = F!Rendered(n)'
                        /\ standing'[n] \in {"quarantined", "forgotten"} =>
                              <<n, branch.notes[n].version>> \in shown'
      BY <2>1 DEF F!NotesFollowRecords
    <3>1. /\ F!Mentions(F!Recorded, n) /\ ~F!Denied(n) /\ branch.notes[n] = F!Rendered(n)
          /\ standing[n] \in {"quarantined", "forgotten"} => <<n, branch.notes[n].version>> \in shown
      BY DEF F!NotesFollowRecords
    <3>2. <<n, branch.notes[n].version>> \in F!Showing(n)
      BY DEF F!Showing
    <3>3. F!Mentions(F!Recorded, n)'
      BY <2>5, <3>1 DEF F!Mentions
    <3> QED
      BY <2>1, <2>2, <2>3, <2>9, <3>1, <3>2, <3>3
  <2> QED
    BY <2>6, <2>7, <2>8, <2>10, <2>11
<1>2. ASSUME NEW events \in SUBSET F!Event, F!Deliver(events) PROVE FiledInv'
  <2>1. /\ fpc = "idle" /\ events \subseteq F!Queued
        /\ state' = [e \in F!Event |-> IF e \in events THEN "pushed" ELSE state[e]]
        /\ UNCHANGED <<standing, version, action, aged, fpc, plan, shown>>
        /\ branch' = [branch EXCEPT !.filed = @ \cup events, !.notes = F!Cleared(@, events)]
    BY <1>2 DEF F!Deliver, F!Pushed, F!filingVars
  <2>2. F!Recorded' = F!Recorded \cup events /\ branch'.notes = F!Cleared(branch.notes, events)
    BY <2>1 DEF FilingTypes, BranchShape, F!Recorded
  <2>3. \A m \in F!Memory :
          \/ branch'.notes[m] = branch.notes[m] /\ (branch.notes[m].shows = "none" \/ ~F!Mentions(events, m))
          \/ /\ F!Mentions(events, m) /\ branch'.notes[m].shows \in {"pending", "closed"}
             /\ branch'.notes[m] \in NoteShape
    <3> SUFFICES ASSUME NEW m \in F!Memory, branch.notes[m].shows # "none", F!Mentions(events, m)
                 PROVE  branch'.notes[m].shows \in {"pending", "closed"} /\ branch'.notes[m] \in NoteShape
      BY <2>2 DEF F!Cleared
    <3>1. F!Newest(events, m)[2] \in Nat
      BY NewestFacts DEF F!Event, F!Version
    <3> QED
      BY <2>2, <3>1 DEF F!Cleared, F!Note, NoteShape
  <2>4. FilingTypes'
    <3>1. branch'.notes \in [F!Memory -> NoteShape]
      <4>1. \A m \in F!Memory : branch'.notes[m] \in NoteShape
        BY <2>3 DEF FilingTypes, BranchShape
      <4>2. branch'.notes = [m \in F!Memory |-> branch'.notes[m]]
        BY <2>2 DEF F!Cleared
      <4> QED
        BY <4>1, <4>2
    <3>2. branch' \in BranchShape
      BY <2>1, <3>1 DEF FilingTypes, BranchShape
    <3>3. F!EventsOK'
      BY <2>1 DEF FilingTypes, F!EventsOK
    <3> QED
      BY <2>1, <2>2, <3>2, <3>3 DEF FilingTypes
  <2>5. RecordedInv'
    BY <1>b, <2>1, <2>2 DEF RecordedInv, FilingTypes, F!EventsOK, F!Queued, F!Text
  <2>6. NotesInv'
    BY <2>2, <2>3 DEF NotesInv, F!Mentions
  <2>7. F!NotesFollowRecords'
    <3> SUFFICES ASSUME NEW m \in F!Memory, branch'.notes[m].shows = "text"
                 PROVE  /\ F!Mentions(F!Recorded, m)' /\ ~F!Denied(m)'
                        /\ branch'.notes[m] = F!Rendered(m)'
                        /\ standing[m] \in {"quarantined", "forgotten"} =>
                              <<m, branch'.notes[m].version>> \in shown
      BY <2>1 DEF F!NotesFollowRecords
    <3>1. branch'.notes[m] = branch.notes[m] /\ ~F!Mentions(events, m)
      BY <2>3
    <3>2. /\ F!Mentions(F!Recorded, m) /\ ~F!Denied(m) /\ branch.notes[m] = F!Rendered(m)
          /\ standing[m] \in {"quarantined", "forgotten"} => <<m, branch.notes[m].version>> \in shown
      BY <3>1 DEF F!NotesFollowRecords
    <3>3. F!Mentions(F!Recorded, m)' /\ ~F!Denied(m)'
      BY <2>1, <2>2, <3>1, <3>2 DEF F!Mentions, F!Denied
    <3>4. F!Newest(F!Recorded, m)' = F!Newest(F!Recorded, m)
      <4> DEFINE n == F!Newest(F!Recorded, m)
      <4>1. n \in F!Recorded /\ n[1] = m /\ \A f \in F!Recorded : f[1] = m => f[2] <= n[2]
        BY <1>a, <3>2, NewestFacts
      <4>2. \A f \in events : f[1] # m
        BY <3>1 DEF F!Mentions
      <4>3. F!Recorded \cup events \in SUBSET F!Event /\ n \in F!Recorded \cup events
        BY <1>a, <4>1
      <4> HIDE DEF n
      <4>4. F!Newest(F!Recorded \cup events, m) = n
        BY <4>1, <4>2, <4>3, NewestIs
      <4>5. F!Newest(F!Recorded, m)' = F!Newest(F!Recorded \cup events, m)
        BY <2>2 DEF F!Newest
      <4> QED
        BY <4>4, <4>5 DEF n
    <3> QED
      BY <2>1, <3>1, <3>2, <3>3, <3>4 DEF F!Rendered, F!Note
  <2> QED
    BY <2>1, <2>4, <2>5, <2>6, <2>7 DEF PlanInv
<1>3. ASSUME NEW notes \in SUBSET F!Memory, NEW files \in SUBSET F!Event, F!PlanFiling(notes, files)
      PROVE  FiledInv'
  <2>1. UNCHANGED <<standing, version, action, state, policy, branch, aged, shown>> /\ fpc' = "planned"
    BY <1>3 DEF F!PlanFiling, F!eventVars
  <2>2. /\ plan'.next = [branch EXCEPT !.filed = @ \ files, !.archived = @ \cup files,
                                       !.notes = [m \in F!Memory |-> IF m \in notes THEN F!Rendered(m)
                                                                     ELSE @[m]]]
        /\ F!Queued = {} /\ notes \subseteq F!Due /\ files \subseteq branch.filed
    BY <1>3 DEF F!PlanFiling, F!Current, F!Chosen, F!Moved
  <2>3. \A m \in notes : F!Mentions(F!Recorded, m)
    BY <2>2 DEF F!Due, NotesInv, F!Mentions, FilingTypes, F!Recorded
  <2>4. /\ plan'.next.notes = [m \in F!Memory |-> IF m \in notes THEN F!Rendered(m) ELSE branch.notes[m]]
        /\ plan'.next.filed = branch.filed \ files /\ plan'.next.archived = branch.archived \cup files
        /\ plan'.next.foreign = branch.foreign
    BY <2>2 DEF FilingTypes, BranchShape
  <2>5. plan'.next \in BranchShape
    <3>1. \A m \in F!Memory : (IF m \in notes THEN F!Rendered(m) ELSE branch.notes[m]) \in NoteShape
      BY <2>3, RenderedShape DEF FilingTypes, BranchShape
    <3>2. plan'.next.notes \in [F!Memory -> NoteShape]
      BY <2>4, <3>1
    <3>3. branch.filed \ files \in SUBSET F!Event /\ branch.archived \cup files \in SUBSET F!Event
      BY DEF FilingTypes, BranchShape
    <3> QED
      BY <2>2, <2>4, <3>2, <3>3 DEF FilingTypes, BranchShape
  <2>6. plan'.next.filed \cup plan'.next.archived = F!Recorded
    BY <2>2, <2>4 DEF F!Recorded
  <2>7. ASSUME NEW m \in F!Memory, plan'.next.notes[m].shows = "text",
               standing[m] \in {"quarantined", "forgotten"}
        PROVE  <<m, plan'.next.notes[m].version>> \in shown
    <3>1. CASE m \notin notes
      BY <2>4, <2>7, <3>1 DEF F!NotesFollowRecords
    <3>2. CASE m \in notes
      <4>1. F!Text(m) \in F!Event /\ action[F!Text(m)] # "upsert" /\ state[F!Text(m)] = "pushed"
        BY <1>b, <2>2, <2>7 DEF RecordedInv, F!Queued
      <4>2. F!Text(m) \in F!Recorded /\ F!Text(m)[1] = m /\ F!Text(m)[2] = version[m]
        BY <4>1 DEF RecordedInv, F!Text
      <4>3. \A f \in F!Recorded : f[1] = m => f[2] <= version[m]
        BY <1>a DEF RecordedInv
      <4>4. F!Newest(F!Recorded, m) = F!Text(m)
        BY <1>a, <4>2, <4>3, NewestIs
      <4>5. F!Rendered(m).shows = "closed"
        BY <4>1, <4>4 DEF F!Rendered, F!Note
      <4> QED
        BY <2>4, <2>7, <3>2, <4>5
    <3> QED
      BY <3>1, <3>2
  <2>8. FilingTypes' /\ RecordedInv' /\ NotesInv' /\ F!NotesFollowRecords'
    BY <2>1 DEF FilingTypes, F!EventsOK, RecordedInv, NotesInv, F!NotesFollowRecords, F!Recorded,
           F!Text,
                F!Rendered, F!Denied
  <2>9. PlanInv'
    BY <2>1, <2>3, <2>4, <2>5, <2>6, <2>7 DEF PlanInv, F!Recorded, F!Rendered, F!Denied
  <2> QED
    BY <2>8, <2>9
<1>4. CASE F!CheckFiling
  <2>1. UNCHANGED <<standing, version, action, state, policy, branch, aged, plan, shown>>
        /\ fpc = "planned" /\ fpc' = "checked" /\ F!Queued = {}
    BY <1>4 DEF F!CheckFiling, F!StillCurrent, F!Current, F!eventVars
  <2>2. FilingTypes' /\ RecordedInv' /\ NotesInv' /\ F!NotesFollowRecords'
    BY <2>1 DEF FilingTypes, F!EventsOK, RecordedInv, NotesInv, F!NotesFollowRecords, F!Recorded,
           F!Text,
                F!Rendered, F!Denied
  <2>3. \A m \in F!Memory : standing[m] \in {"quarantined", "forgotten"} => state[F!Text(m)] # "queued"
    BY <1>b, <2>1 DEF RecordedInv, F!Queued
  <2>4. PlanInv'
    BY <2>1, <2>3 DEF PlanInv, F!Recorded, F!Rendered, F!Denied, F!Text
  <2> QED
    BY <2>2, <2>4
<1>5. CASE F!PushFiling
  <2>1. UNCHANGED <<standing, version, action, state, policy, aged, shown>>
        /\ fpc = "checked" /\ fpc' = "idle" /\ branch' = plan.next
    BY <1>5 DEF F!PushFiling, F!eventVars
  <2>2. F!Recorded' = F!Recorded /\ branch' \in BranchShape
    BY <2>1 DEF PlanInv, F!Recorded
  <2>3. FilingTypes' /\ RecordedInv'
    BY <2>1, <2>2 DEF FilingTypes, F!EventsOK, RecordedInv, F!Text
  <2>4. NotesInv'
    BY <2>1, <2>2 DEF PlanInv, NotesInv, F!Mentions
  <2>5. F!NotesFollowRecords'
    <3> SUFFICES ASSUME NEW m \in F!Memory, branch'.notes[m].shows = "text"
                 PROVE  /\ F!Mentions(F!Recorded, m)' /\ ~F!Denied(m)'
                        /\ branch'.notes[m] = F!Rendered(m)'
                        /\ standing[m] \in {"quarantined", "forgotten"} =>
                              <<m, branch'.notes[m].version>> \in shown
      BY <2>1 DEF F!NotesFollowRecords
    <3>1. F!Mentions(F!Recorded, m) /\ F!Mentions(F!Recorded, m)'
      BY <2>1, <2>2 DEF PlanInv, F!NotesFollowRecords, F!Mentions
    <3>2. F!Rendered(m)' = F!Rendered(m) /\ (F!Denied(m)' <=> F!Denied(m))
      BY <2>1, <2>2, <3>1, RenderedKept
    <3>3. branch'.notes[m] = F!Rendered(m) /\ ~F!Denied(m)
      BY <2>1, <3>1, RenderedShape DEF PlanInv, F!NotesFollowRecords
    <3>4. standing[m] \in {"quarantined", "forgotten"} => <<m, branch'.notes[m].version>> \in shown
      BY <2>1 DEF PlanInv
    <3> QED
      BY <3>1, <3>2, <3>3, <3>4
  <2> QED
    BY <2>1, <2>3, <2>4, <2>5 DEF PlanInv
<1>6. CASE F!FilingStops \/ F!Ages \/ F!ForeignCommit \/ \E paused_ \in BOOLEAN : F!Configure(paused_)
  <2>1. /\ UNCHANGED <<standing, version, action, state, shown>>
        /\ fpc' = "idle" \/ UNCHANGED <<fpc, plan>>
        /\ fpc' \in {fpc, "idle"}
        /\ aged' \in {aged, branch.filed \cup aged}
        /\ branch' \in {branch, [branch EXCEPT !.foreign = @ + 1]}
    BY <1>6 DEF F!FilingStops, F!Ages, F!ForeignCommit, F!Configure, F!eventVars, F!filingVars
  <2>2. branch' \in BranchShape /\ branch'.notes = branch.notes /\ F!Recorded' = F!Recorded
    BY <2>1 DEF FilingTypes, BranchShape, F!Recorded
  <2>3. \A m \in F!Memory : F!Mentions(F!Recorded, m) =>
          F!Rendered(m)' = F!Rendered(m) /\ (F!Denied(m)' <=> F!Denied(m)) /\ F!Mentions(F!Recorded, m)'
    BY <2>1, <2>2, RenderedKept DEF F!Mentions
  <2>4. FilingTypes' /\ RecordedInv'
    BY <2>1, <2>2 DEF FilingTypes, F!EventsOK, RecordedInv, F!Text, F!Recorded
  <2>5. NotesInv' /\ F!NotesFollowRecords'
    BY <2>1, <2>2, <2>3 DEF NotesInv, F!NotesFollowRecords
  <2>6. PlanInv'
    BY <2>1, <2>2, <2>3 DEF PlanInv, F!Text
  <2> QED
    BY <2>4, <2>5, <2>6
<1> QED
  BY <1>1, <1>2, <1>3, <1>4, <1>5, <1>6 DEF F!Next

(***************************************************************************)
(* ConnectorSync: what the runs of a scope have seen of its source, the    *)
(* texts people wrote, and the memories a refused access hides.            *)
(***************************************************************************)

\* Only the run that began last is active; one that did not begin left no trace.
ScansInv ==
    /\ \A q, r \in Y!Scan : q < r /\ runs[r].state # "none" => runs[q].state \in {"completed", "aborted"}
    /\ \A r \in Y!Scan : runs[r].state = "none" =>
         sent[r] = Y!NoRequest /\ ~skipping[r] /\ \A i \in Y!Item : item[i].seen # r

\* A memory that was not removed belongs to an item in use, and a text that
\* people wrote is a version after the one the source was applied to.
HeldInv ==
    \A i \in Y!Item :
        /\ item[i].state = "none" => text[i] = 0
        /\ text[i] # 0 /\ gone[i] = "none" => item[i].state \in {"active", "conflict"}
        /\ item[i].applied <= edition[i]
        /\ text[i] = Y!Local => item[i].applied # edition[i]

\* What a run has stored, and the request its client sent last, agree with the
\* source wherever that did not change since.
Scanned(r) ==
    /\ \A i \in Y!Item : i > runs[r].next => item[i].seen # r
    /\ sent[r].kind = "denied" => skipping[r]
    /\ sent[r].kind = "finish" /\ ~skipping[r] => runs[r].next = LastItem
    /\ \A i \in Y!Item \ moved :
         ~skipping[r] =>
           /\ source[i].present /\ i <= runs[r].next =>
                item[i].state # "none" /\ item[i].seen = r /\ item[i].revision = source[i].revision
           /\ ~source[i].present => item[i].seen # r
           /\ sent[r].at = i /\ i > runs[r].next =>
                /\ sent[r].kind \in {"content", "retain"} =>
                     source[i].present /\ sent[r].revision = source[i].revision
                /\ sent[r].kind = "marker" => ~source[i].present

ScannedInv == \A r \in Y!Active : Scanned(r)

\* The runs that ended because access was refused.
Stops == {r \in Y!Scan : runs[r].state = "completed" /\ sent[r].revision = 1 /\ sent[r].kind = "finish"}

StopsInv ==
    \A i \in Y!Item : text[i] # 0 /\ gone[i] = "none" /\ ~item[i].withheld =>
        \A r \in Stops : r <= item[i].validated

RunStates == {"none", "running", "finalizing", "completed", "aborted"}
RunRows == [state : RunStates, live : BOOLEAN, next : 0..LastItem]
RequestRows ==
    [kind : {"none", "content", "retain", "marker", "denied", "finish"},
     at : 0..LastItem, revision : 0..LastSourceRevision]
ItemRows ==
    [state : {"none", "active", "conflict", "deleted"}, revision : 0..LastSourceRevision,
     applied : Nat, seen : 0..LastScan, validated : 0..LastScan, withheld : BOOLEAN]

\* The parts of TypeOK, with names for the sets of rows.
RowsOK ==
    /\ source \in [Y!Item -> [revision : Y!SourceRevision, present : BOOLEAN]]
    /\ moved \subseteq Y!Item /\ open \in BOOLEAN /\ operatorPaused \in BOOLEAN
    /\ runs \in [Y!Scan -> RunRows] /\ sent \in [Y!Scan -> RequestRows]
    /\ skipping \in [Y!Scan -> BOOLEAN] /\ item \in [Y!Item -> ItemRows]
    /\ text \in [Y!Item -> 0..Y!Local] /\ edition \in [Y!Item -> Nat]
    /\ gone \in [Y!Item -> {"none", "removed", "forgotten"}]
    /\ offered \in [Y!Item -> 0..LastSourceRevision]
    /\ review \in [item : 0..LastItem, version : Nat, proposal : 0..LastSourceRevision]

SyncInv == RowsOK /\ ScansInv /\ HeldInv /\ ScannedInv /\ StopsInv

LEMMA RowsTyped == (Y!TypeOK <=> RowsOK) /\ (Y!TypeOK' <=> RowsOK')
BY DEF Y!TypeOK, RowsOK, RunStates, RunRows, RequestRows, ItemRows

LEMMA SyncTypesMemory ==
  ASSUME Y!ConstantAssumption, RowsOK,
         \/ \E i \in Discussed : Y!Edit(i) \/ Y!ForgetItem(i) \/ Y!LookAt(i)
         \/ \E i \in Discussed, accept \in BOOLEAN : Y!Resolve(i, accept)
  PROVE  RowsOK'
<1> USE DEF RowsOK, Y!scopeVars, Y!clientVars, Y!memoryVars
<1>1. Discussed \subseteq Y!Item /\ LastItem \in Nat /\ LastSourceRevision \in Nat
      /\ \A i \in Y!Item : i \in 0..LastItem
  BY DEF Y!Item, Y!ConstantAssumption
<1>2. ASSUME NEW i \in Discussed, Y!Edit(i) PROVE RowsOK'
  <2>1. Y!Local \in 0..Y!Local
    BY <1>1 DEF Y!Local
  <2> QED
    BY <1>1, <1>2, <2>1 DEF Y!Edit
<1>3. ASSUME NEW i \in Discussed, Y!ForgetItem(i) PROVE RowsOK'
  BY <1>1, <1>3 DEF Y!ForgetItem
<1>4. ASSUME NEW i \in Discussed, Y!LookAt(i) PROVE RowsOK'
  BY <1>1, <1>4 DEF Y!LookAt
<1>5. ASSUME NEW i \in Discussed, NEW accept \in BOOLEAN, Y!Resolve(i, accept) PROVE RowsOK'
  <2>1. /\ offered[i] \in 0..Y!Local /\ edition[i] \in Nat /\ edition[i] + 1 \in Nat
        /\ item[i] \in ItemRows /\ i \in Y!Item /\ 0 \in 0..LastSourceRevision
    BY <1>1 DEF Y!Local
  <2>2. item' \in [Y!Item -> ItemRows]
    <3>1. /\ [item[i] EXCEPT !.state = "active"] \in ItemRows
          /\ [item[i] EXCEPT !.state = "active", !.applied = edition[i] + 1] \in ItemRows
      BY <2>1 DEF ItemRows
    <3>2. CASE accept
      <4>1. item' = [item EXCEPT ![i] = [item[i] EXCEPT !.state = "active", !.applied = edition[i] + 1]]
        BY <1>5, <2>1, <3>2 DEF Y!Resolve
      <4> QED
        BY <2>1, <3>1, <4>1
    <3>3. CASE ~accept
      <4>1. item' = [item EXCEPT ![i] = [item[i] EXCEPT !.state = "active"]]
        BY <1>5, <2>1, <3>3 DEF Y!Resolve
      <4> QED
        BY <2>1, <3>1, <4>1
    <3> QED
      BY <3>2, <3>3
  <2>3. text' \in [Y!Item -> 0..Y!Local] /\ edition' \in [Y!Item -> Nat] /\ offered' \in [Y!Item -> 0..LastSourceRevision]
    <3>1. offered' = [offered EXCEPT ![i] = 0]
      BY <1>5 DEF Y!Resolve
    <3>2. \/ text' = [text EXCEPT ![i] = offered[i]] /\ edition' = [edition EXCEPT ![i] = edition[i] + 1]
          \/ UNCHANGED <<text, edition>>
      BY <1>5 DEF Y!Resolve
    <3>3. text' \in [Y!Item -> 0..Y!Local] /\ edition' \in [Y!Item -> Nat]
      BY <2>1, <3>2
    <3> QED
      BY <2>1, <3>1, <3>3
  <2>4. review' \in [item : 0..LastItem, version : Nat, proposal : 0..LastSourceRevision]
    BY <1>1, <1>5 DEF Y!Resolve, Y!NoReview
  <2> QED
    BY <1>5, <2>2, <2>3, <2>4 DEF Y!Resolve
<1> QED
  BY <1>2, <1>3, <1>4, <1>5

LEMMA SyncTypesScope ==
  ASSUME Y!ConstantAssumption, RowsOK,
         \/ \E i \in Y!Item : Y!SourceChanges(i)
         \/ Y!Refresh \/ Y!AccessLapses \/ Y!Resume
         \/ \E operator \in BOOLEAN : Y!Suspend(operator)
         \/ \E r \in Y!Scan : Y!Begin(r) \/ Y!RunLapses(r)
  PROVE  RowsOK'
<1> USE DEF RowsOK, Y!scopeVars, Y!clientVars, Y!memoryVars
<1>0. \A r \in Y!Scan : runs[r] \in RunRows
  OBVIOUS
<1>1. ASSUME NEW i \in Y!Item, Y!SourceChanges(i) PROVE RowsOK'
  <2>1. source[i] \in [revision : Y!SourceRevision, present : BOOLEAN] /\ LastSourceRevision \in Nat
    BY DEF Y!ConstantAssumption
  <2>2. /\ [source[i] EXCEPT !.present = FALSE] \in [revision : Y!SourceRevision, present : BOOLEAN]
        /\ source[i].revision < LastSourceRevision =>
             [revision |-> source[i].revision + 1, present |-> TRUE] \in [revision : Y!SourceRevision, present : BOOLEAN]
    <3>1. source[i].revision \in Y!SourceRevision
      BY <2>1
    <3>2. source[i].revision < LastSourceRevision => source[i].revision + 1 \in Y!SourceRevision
      BY <2>1, <3>1 DEF Y!SourceRevision
    <3> QED
      BY <2>1, <3>1, <3>2
  <2>3. source' \in [Y!Item -> [revision : Y!SourceRevision, present : BOOLEAN]] /\ moved' \subseteq Y!Item
    <3>1. \/ source' = [source EXCEPT ![i] = [source[i] EXCEPT !.present = FALSE]]
          \/ /\ source[i].revision < LastSourceRevision
             /\ source' = [source EXCEPT ![i] = [revision |-> source[i].revision + 1, present |-> TRUE]]
      BY <1>1 DEF Y!SourceChanges
    <3>2. moved' = moved \cup {i}
      BY <1>1 DEF Y!SourceChanges
    <3>3. source' \in [Y!Item -> [revision : Y!SourceRevision, present : BOOLEAN]]
      BY <2>2, <3>1
    <3> QED
      BY <3>2, <3>3
  <2> QED
    BY <1>1, <2>3 DEF Y!SourceChanges
<1>2. CASE Y!Refresh \/ Y!AccessLapses \/ Y!Resume
  BY <1>2 DEF Y!Refresh, Y!AccessLapses, Y!Resume
<1>3. ASSUME NEW operator \in BOOLEAN, Y!Suspend(operator) PROVE RowsOK'
  <2>1. Y!Aborted \in [Y!Scan -> RunRows]
    <3>1. \A r \in Y!Scan : [runs[r] EXCEPT !.state = "aborted", !.live = FALSE] \in RunRows
      BY <1>0 DEF RunRows, RunStates
    <3> QED
      BY <1>0, <3>1 DEF Y!Aborted
  <2>2. open' \in BOOLEAN /\ operatorPaused' \in BOOLEAN
    BY <1>3 DEF Y!Suspend
  <2> QED
    BY <1>3, <2>1, <2>2 DEF Y!Suspend
<1>4. ASSUME NEW r \in Y!Scan, Y!Begin(r) PROVE RowsOK'
  <2>1. Y!Lapsed \in [Y!Scan -> RunRows]
    <3>1. \A q \in Y!Scan : [runs[q] EXCEPT !.state = "aborted"] \in RunRows
      BY <1>0 DEF RunRows, RunStates
    <3> QED
      BY <1>0, <3>1 DEF Y!Lapsed
  <2>2. [state |-> "running", live |-> TRUE, next |-> 0] \in RunRows
    BY DEF RunRows, RunStates, Y!ConstantAssumption
  <2> QED
    BY <1>4, <2>1, <2>2 DEF Y!Begin
<1>5. ASSUME NEW r \in Y!Scan, Y!RunLapses(r) PROVE RowsOK'
  <2>1. [runs[r] EXCEPT !.live = FALSE] \in RunRows
    BY <1>0 DEF RunRows, RunStates
  <2> QED
    BY <1>5, <2>1 DEF Y!RunLapses
<1> QED
  BY <1>1, <1>2, <1>3, <1>4, <1>5

\* What a page does to the row of its item.
LEMMA UpsertTypes ==
  ASSUME RowsOK, NEW r \in Y!Scan, NEW i \in Y!Item, NEW revision \in 0..LastSourceRevision,
         LastSourceRevision \in Nat, Y!Upsert(r, i, revision)
  PROVE  /\ item' \in [Y!Item -> ItemRows]
         /\ text' \in [Y!Item -> 0..Y!Local] /\ edition' \in [Y!Item -> Nat]
         /\ gone' \in [Y!Item -> {"none", "removed", "forgotten"}]
         /\ offered' \in [Y!Item -> 0..LastSourceRevision]
<1> USE DEF RowsOK, Y!memoryVars
<1>1. item[i] \in ItemRows /\ r \in 0..LastScan /\ revision \in 0..Y!Local /\ edition[i] + 1 \in Nat
  BY DEF Y!Scan, Y!Local
<1>2. item[i].applied \in Nat /\ item[i].state \in {"none", "active", "conflict", "deleted"}
  BY <1>1 DEF ItemRows
<1>3. PICK status \in {"none", "active", "conflict", "deleted"}, since \in Nat :
        Y!Observed(r, i, revision, status, since)
  BY <1>1, <1>2 DEF Y!Upsert
<1>4. item' \in [Y!Item -> ItemRows]
  <2>1. [state |-> status, revision |-> revision, applied |-> since, seen |-> r, validated |-> r,
         withheld |-> FALSE] \in ItemRows
    BY <1>1 DEF ItemRows
  <2> QED
    BY <1>3, <2>1 DEF Y!Observed
<1>5. text' \in [Y!Item -> 0..Y!Local] /\ edition' \in [Y!Item -> Nat]
  BY <1>1 DEF Y!Upsert
<1>6. gone' \in [Y!Item -> {"none", "removed", "forgotten"}] /\ offered' \in [Y!Item -> 0..LastSourceRevision]
  BY <1>1 DEF Y!Upsert
<1> QED
  BY <1>4, <1>5, <1>6

LEMMA SyncTypesRun ==
  ASSUME Y!ConstantAssumption, RowsOK,
         \E r \in Y!Scan : Y!AskFinish(r) \/ Y!Page(r) \/ Y!Finish(r) \/ \E i \in Y!Item : Y!Read(r, i)
  PROVE  RowsOK'
<1> USE DEF RowsOK, Y!scopeVars, Y!clientVars, Y!memoryVars
<1>0. LastItem \in Nat \ {0} /\ LastSourceRevision \in Nat \ {0}
  BY DEF Y!ConstantAssumption
<1>00. \A r \in Y!Scan : runs[r] \in RunRows /\ sent[r] \in RequestRows
  OBVIOUS
<1>1. ASSUME NEW r \in Y!Scan, Y!AskFinish(r) PROVE RowsOK'
  <2>1. runs[r].next \in 0..LastItem
    BY <1>00 DEF RunRows
  <2>2. /\ [kind |-> "finish", at |-> runs[r].next, revision |-> 0] \in RequestRows
        /\ [kind |-> "finish", at |-> runs[r].next, revision |-> 1] \in RequestRows
    BY <1>0, <2>1 DEF RequestRows
  <2>3. sent' \in [Y!Scan -> RequestRows]
    BY <1>1, <2>2 DEF Y!AskFinish, Y!Send
  <2> QED
    BY <1>1, <2>3 DEF Y!AskFinish
<1>2. ASSUME NEW r \in Y!Scan, Y!Page(r) PROVE RowsOK'
  <2> DEFINE i == sent[r].at
             revision == sent[r].revision
  <2>1. i \in Y!Item /\ i \in 0..LastItem /\ revision \in 0..LastSourceRevision
    <3>1. i \in 0..LastItem /\ revision \in 0..LastSourceRevision /\ runs[r].next \in 0..LastItem
      BY <1>00 DEF RequestRows, RunRows
    <3>2. i = runs[r].next + 1
      BY <1>2 DEF Y!Page
    <3> QED
      BY <3>1, <3>2 DEF Y!Item
  <2>2. runs' = [runs EXCEPT ![r].next = i]
    BY <1>2 DEF Y!Page
  <2>3. runs' \in [Y!Scan -> RunRows]
    <3>1. [runs[r] EXCEPT !.next = i] \in RunRows
      BY <1>00, <2>1 DEF RunRows
    <3> HIDE DEF i
    <3> QED
      BY <2>2, <3>1
  <2>4. /\ item' \in [Y!Item -> ItemRows]
        /\ text' \in [Y!Item -> 0..Y!Local] /\ edition' \in [Y!Item -> Nat]
        /\ gone' \in [Y!Item -> {"none", "removed", "forgotten"}]
        /\ offered' \in [Y!Item -> 0..LastSourceRevision]
    <3>1. CASE Y!Upsert(r, i, revision)
      <4> HIDE DEF i, revision
      <4> QED
        BY <1>0, <2>1, <3>1, UpsertTypes
    <3>2. CASE Y!Seen(r, i) /\ UNCHANGED Y!memoryVars
      <4>1. [item[i] EXCEPT !.seen = r] \in ItemRows
        <5>1. item[i] \in ItemRows /\ r \in 0..LastScan
          BY <2>1 DEF Y!Scan
        <5> QED
          BY <5>1 DEF ItemRows
      <4> HIDE DEF i
      <4> QED
        BY <2>1, <3>2, <4>1 DEF Y!Seen
    <3>3. CASE UNCHANGED <<item, Y!memoryVars>>
      BY <3>3
    <3> QED
      BY <1>2, <3>1, <3>2, <3>3 DEF Y!Page
  <2> QED
    BY <1>2, <2>3, <2>4 DEF Y!Page
<1>3. ASSUME NEW r \in Y!Scan, Y!Finish(r) PROVE RowsOK'
  <2> DEFINE sweep == IF skipping[r] THEN {} ELSE Y!Swept(r)
             done == skipping[r] \/ sweep = Y!Missing(r)
             stop == done /\ sent[r].revision = 1
  <2>0. sweep \in SUBSET Y!Item /\ stop \in BOOLEAN /\ done \in BOOLEAN
    BY DEF Y!Swept, Y!Missing
  <2>1. /\ gone' = [i \in Y!Item |-> IF i \in sweep /\ text[i] # 0 /\ gone[i] = "none" THEN "removed" ELSE gone[i]]
        /\ offered' = [i \in Y!Item |-> IF i \in sweep /\ gone[i] = "none" THEN 0 ELSE offered[i]]
        /\ item' = [i \in Y!Item |->
                     IF i \in sweep THEN [item[i] EXCEPT !.state = "deleted"]
                     ELSE IF stop /\ i \in Y!Unread(r) THEN [item[i] EXCEPT !.withheld = TRUE]
                     ELSE item[i]]
        /\ runs' = [runs EXCEPT ![r].state = IF done THEN "completed" ELSE "finalizing", ![r].live = ~done]
        /\ open' = ~stop
    BY <1>3 DEF Y!Finish
  <2> HIDE DEF sweep, stop, done
  <2>2. \A i \in Y!Item : [item[i] EXCEPT !.state = "deleted"] \in ItemRows /\ [item[i] EXCEPT !.withheld = TRUE] \in ItemRows
    <3>1. \A i \in Y!Item : item[i] \in ItemRows
      OBVIOUS
    <3> QED
      BY <3>1 DEF ItemRows
  <2>3. item' \in [Y!Item -> ItemRows]
    BY <2>1, <2>2
  <2>4. runs' \in [Y!Scan -> RunRows]
    <3>1. [runs[r] EXCEPT !.state = IF done THEN "completed" ELSE "finalizing", !.live = ~done] \in RunRows
      BY <1>00, <2>0 DEF RunRows, RunStates
    <3> QED
      BY <2>1, <3>1
  <2>5. gone' \in [Y!Item -> {"none", "removed", "forgotten"}] /\ offered' \in [Y!Item -> 0..LastSourceRevision]
        /\ open' \in BOOLEAN
    BY <1>0, <2>0, <2>1
  <2> QED
    BY <1>3, <2>3, <2>4, <2>5 DEF Y!Finish
<1>4. ASSUME NEW r \in Y!Scan, NEW i \in Y!Item, Y!Read(r, i) PROVE RowsOK'
  <2>1. i \in 0..LastItem /\ source[i].revision \in 0..LastSourceRevision
    <3>1. source[i] \in [revision : Y!SourceRevision, present : BOOLEAN]
      OBVIOUS
    <3>2. source[i].revision \in Y!SourceRevision
      BY <3>1
    <3> QED
      BY <1>0, <3>2 DEF Y!Item, Y!SourceRevision
  <2>2. \E kind \in {"content", "retain", "marker", "denied"}, v \in {source[i].revision, 0} : Y!Send(r, kind, i, v)
    BY <1>4 DEF Y!Read
  <2>3. sent' \in [Y!Scan -> RequestRows]
    <3>1. \A kind \in {"content", "retain", "marker", "denied"}, v \in {source[i].revision, 0} :
            [kind |-> kind, at |-> i, revision |-> v] \in RequestRows
      BY <1>0, <2>1 DEF RequestRows
    <3> QED
      BY <2>2, <3>1 DEF Y!Send
  <2>4. skipping' \in [Y!Scan -> BOOLEAN]
    <3>1. \E b \in BOOLEAN : skipping' = [skipping EXCEPT ![r] = b]
      BY <1>4 DEF Y!Read
    <3> QED
      BY <3>1
  <2> QED
    BY <1>4, <2>3, <2>4 DEF Y!Read
<1> QED
  BY <1>1, <1>2, <1>3, <1>4

(***************************************************************************)
(* Runs.                                                                   *)
(***************************************************************************)

LEMMA ActiveFacts ==
  ASSUME ScansInv, NEW r \in Y!Active
  PROVE  /\ r \in Y!Scan /\ runs[r].state \in {"running", "finalizing"}
         /\ \A q \in Y!Scan : q # r => q \notin Y!Active
         /\ \A q \in Y!Scan : q > r => runs[q].state = "none"
         /\ \A q \in Stops : q < r
<1>1. r \in Y!Scan /\ runs[r].state \in {"running", "finalizing"}
  BY DEF Y!Active
<1>2. \A q \in Y!Scan : q > r => runs[q].state = "none"
  BY <1>1 DEF ScansInv, Y!Scan
<1>3. \A q \in Y!Scan : q < r => runs[q].state \in {"completed", "aborted"}
  BY <1>1 DEF ScansInv
<1>4. \A q \in Y!Scan : q # r => q < r \/ q > r
  BY <1>1 DEF Y!Scan
<1> QED
  BY <1>1, <1>2, <1>3, <1>4 DEF Y!Active, Stops

LEMMA ScansKept ==
  ASSUME ScansInv,
         \A r \in Y!Scan : runs'[r].state = "none" <=> runs[r].state = "none",
         \A r \in Y!Scan : runs[r].state \in {"completed", "aborted"} => runs'[r].state \in {"completed", "aborted"},
         \A r \in Y!Scan : runs[r].state = "none" =>
            /\ sent'[r] = sent[r] /\ skipping'[r] = skipping[r]
            /\ \A i \in Y!Item : item'[i].seen # r
  PROVE  ScansInv'
BY DEF ScansInv, Y!NoRequest

\* What a page stores.
LEMMA PageFacts ==
  ASSUME Y!ConstantAssumption, RowsOK, NEW r \in Y!Scan, Y!Page(r)
  PROVE  LET i == sent[r].at IN
         /\ r \in Y!Active /\ i \in Y!Item /\ i = runs[r].next + 1
         /\ runs'[r].state = runs[r].state /\ runs'[r].next = i
         /\ \A q \in Y!Scan \ {r} : runs'[q] = runs[q]
         /\ UNCHANGED <<source, moved, Y!scopeVars, Y!clientVars>>
         /\ \A j \in Y!Item \ {i} : item'[j] = item[j] /\ text'[j] = text[j] /\ edition'[j] = edition[j] /\ gone'[j] = gone[j]
         /\ \/ sent[r].kind = "content" /\ Y!Upsert(r, i, sent[r].revision)
            \/ /\ sent[r].kind = "retain" /\ item[i].state # "none" /\ item[i].revision = sent[r].revision
               /\ item' = [item EXCEPT ![i].seen = r] /\ UNCHANGED Y!memoryVars
            \/ sent[r].kind \in {"marker", "denied"} /\ UNCHANGED <<item, Y!memoryVars>>
<1> DEFINE i == sent[r].at
<1>1. i \in Y!Item /\ i = runs[r].next + 1 /\ r \in Y!Active
  <2>1. sent[r] \in RequestRows /\ runs[r] \in RunRows
    BY DEF RowsOK
  <2>2. i \in 0..LastItem /\ runs[r].next \in 0..LastItem
    BY <2>1 DEF RequestRows, RunRows
  <2>3. i = runs[r].next + 1 /\ runs[r].state = "running"
    BY DEF Y!Page
  <2> QED
    BY <2>2, <2>3 DEF Y!Item, Y!Active
<1>2. runs' = [runs EXCEPT ![r].next = i]
  BY DEF Y!Page
<1>3. runs'[r].state = runs[r].state /\ runs'[r].next = i /\ \A q \in Y!Scan \ {r} : runs'[q] = runs[q]
  <2>1. runs \in [Y!Scan -> RunRows] /\ runs[r] \in RunRows
    BY DEF RowsOK
  <2> HIDE DEF i
  <2> QED
    BY <1>2, <2>1 DEF RunRows
<1>4. \/ sent[r].kind = "content" /\ Y!Upsert(r, i, sent[r].revision)
      \/ /\ sent[r].kind = "retain" /\ item[i].state # "none" /\ item[i].revision = sent[r].revision
         /\ item' = [item EXCEPT ![i].seen = r] /\ UNCHANGED Y!memoryVars
      \/ sent[r].kind \in {"marker", "denied"} /\ UNCHANGED <<item, Y!memoryVars>>
  BY DEF Y!Page, Y!Seen
<1>5. \A j \in Y!Item \ {i} : item'[j] = item[j] /\ text'[j] = text[j] /\ edition'[j] = edition[j] /\ gone'[j] = gone[j]
  <2>1. /\ item \in [Y!Item -> ItemRows] /\ text \in [Y!Item -> 0..Y!Local] /\ edition \in [Y!Item -> Nat]
        /\ gone \in [Y!Item -> {"none", "removed", "forgotten"}]
    BY DEF RowsOK
  <2>2. CASE Y!Upsert(r, i, sent[r].revision)
    <3> HIDE DEF i
    <3> QED
      BY <2>1, <2>2 DEF Y!Upsert, Y!Observed, Y!memoryVars
  <2> QED
    BY <1>4, <2>1, <2>2 DEF Y!memoryVars
<1>6. UNCHANGED <<source, moved, Y!scopeVars, Y!clientVars>>
  BY DEF Y!Page
<1> QED
  BY <1>1, <1>3, <1>4, <1>5, <1>6

\* What an accepted content does to its item.
LEMMA UpsertFacts ==
  ASSUME RowsOK, NEW r \in Y!Scan, NEW i \in Y!Item, NEW revision \in 0..LastSourceRevision,
         Y!Upsert(r, i, revision)
  PROVE  /\ item'[i].state # "none" /\ item'[i].revision = revision /\ item'[i].seen = r
         /\ item'[i].validated = r /\ ~item'[i].withheld
<1>1. item \in [Y!Item -> ItemRows] /\ item[i].state \in {"none", "active", "conflict", "deleted"}
  BY DEF RowsOK, ItemRows
<1>2. PICK status \in {"active", "conflict", "deleted"}, since \in {item[i].applied, edition[i] + 1} :
        Y!Observed(r, i, revision, status, since)
  BY <1>1 DEF Y!Upsert
<1> QED
  BY <1>1, <1>2 DEF Y!Observed

\* What a finish does.
LEMMA FinishFacts ==
  ASSUME RowsOK, NEW r \in Y!Scan, Y!Finish(r)
  PROVE  LET sweep == IF skipping[r] THEN {} ELSE Y!Swept(r)
             done == skipping[r] \/ sweep = Y!Missing(r)
             stop == done /\ sent[r].revision = 1
         IN  /\ r \in Y!Active /\ sent[r].kind = "finish"
             /\ runs'[r].state = (IF done THEN "completed" ELSE "finalizing") /\ runs'[r].next = runs[r].next
             /\ \A q \in Y!Scan \ {r} : runs'[q] = runs[q]
             /\ UNCHANGED <<source, moved, Y!clientVars, text, edition>>
             /\ \A i \in Y!Item :
                  /\ i \in sweep =>
                       /\ item'[i].state = "deleted" /\ item'[i].withheld = item[i].withheld
                       /\ gone'[i] = IF text[i] # 0 /\ gone[i] = "none" THEN "removed" ELSE gone[i]
                  /\ i \notin sweep =>
                       /\ item'[i].state = item[i].state /\ gone'[i] = gone[i]
                       /\ item'[i].withheld = (item[i].withheld \/ (stop /\ i \in Y!Unread(r)))
                  /\ item'[i].seen = item[i].seen /\ item'[i].revision = item[i].revision
                  /\ item'[i].validated = item[i].validated /\ item'[i].applied = item[i].applied
<1> DEFINE sweep == IF skipping[r] THEN {} ELSE Y!Swept(r)
           done == skipping[r] \/ sweep = Y!Missing(r)
           stop == done /\ sent[r].revision = 1
<1>1. /\ gone' = [i \in Y!Item |-> IF i \in sweep /\ text[i] # 0 /\ gone[i] = "none" THEN "removed" ELSE gone[i]]
      /\ item' = [i \in Y!Item |->
                   IF i \in sweep THEN [item[i] EXCEPT !.state = "deleted"]
                   ELSE IF stop /\ i \in Y!Unread(r) THEN [item[i] EXCEPT !.withheld = TRUE]
                   ELSE item[i]]
      /\ runs' = [runs EXCEPT ![r].state = IF done THEN "completed" ELSE "finalizing", ![r].live = ~done]
      /\ r \in Y!Active /\ sent[r].kind = "finish"
      /\ UNCHANGED <<source, moved, Y!clientVars, text, edition>>
  BY DEF Y!Finish
<1>2. /\ runs \in [Y!Scan -> RunRows] /\ \A q \in Y!Scan : runs[q] \in RunRows
      /\ \A i \in Y!Item : item[i] \in ItemRows
  BY DEF RowsOK
<1>3. \A i \in Y!Item : item[i].withheld \in BOOLEAN
  BY <1>2 DEF ItemRows
<1> HIDE DEF sweep, done, stop
<1>4. ASSUME NEW i \in Y!Item
      PROVE  /\ i \in sweep =>
                  /\ item'[i].state = "deleted" /\ item'[i].withheld = item[i].withheld
                  /\ gone'[i] = IF text[i] # 0 /\ gone[i] = "none" THEN "removed" ELSE gone[i]
             /\ i \notin sweep =>
                  /\ item'[i].state = item[i].state /\ gone'[i] = gone[i]
                  /\ item'[i].withheld = (item[i].withheld \/ (stop /\ i \in Y!Unread(r)))
             /\ item'[i].seen = item[i].seen /\ item'[i].revision = item[i].revision
             /\ item'[i].validated = item[i].validated /\ item'[i].applied = item[i].applied
  <2>1. CASE i \in sweep
    BY <1>1, <1>2, <2>1 DEF ItemRows
  <2>2. CASE i \notin sweep /\ stop /\ i \in Y!Unread(r)
    BY <1>1, <1>2, <2>2 DEF ItemRows
  <2>3. CASE i \notin sweep /\ ~(stop /\ i \in Y!Unread(r))
    BY <1>1, <1>3, <2>3
  <2> QED
    BY <2>1, <2>2, <2>3
<1>5. /\ runs'[r].state = (IF done THEN "completed" ELSE "finalizing") /\ runs'[r].next = runs[r].next
      /\ \A q \in Y!Scan \ {r} : runs'[q] = runs[q]
  BY <1>1, <1>2 DEF RunRows
<1> QED
  BY <1>1, <1>4, <1>5 DEF sweep, done, stop

\* What people do: no run and no request changes, and the row of an item only
\* where a proposal was decided.
People == \E i \in Discussed : Y!Edit(i) \/ Y!ForgetItem(i) \/ Y!LookAt(i) \/ \E accept \in BOOLEAN : Y!Resolve(i, accept)

LEMMA PeopleFacts ==
  ASSUME Y!ConstantAssumption, RowsOK, HeldInv, People
  PROVE  /\ UNCHANGED <<source, moved, runs, Y!clientVars>>
         /\ \A i \in Y!Item :
              /\ item'[i].state = item[i].state \/ (item[i].state # "none" /\ item'[i].state = "active")
              /\ item'[i].seen = item[i].seen /\ item'[i].revision = item[i].revision
              /\ item'[i].validated = item[i].validated /\ item'[i].withheld = item[i].withheld
              /\ gone'[i] \in {gone[i], "forgotten"}
              /\ text[i] = 0 => text'[i] = 0
<1>0. /\ Discussed \subseteq Y!Item /\ \A i \in Y!Item : item[i] \in ItemRows
      /\ text \in [Y!Item -> 0..Y!Local] /\ gone \in [Y!Item -> {"none", "removed", "forgotten"}]
      /\ item \in [Y!Item -> ItemRows]
  BY DEF RowsOK, Y!ConstantAssumption
<1>1. PICK i \in Discussed : Y!Edit(i) \/ Y!ForgetItem(i) \/ Y!LookAt(i) \/ \E accept \in BOOLEAN : Y!Resolve(i, accept)
  BY DEF People
<1>2. UNCHANGED <<source, moved, runs, Y!clientVars>>
  BY <1>1 DEF Y!Edit, Y!ForgetItem, Y!LookAt, Y!Resolve
<1>3. (text[i] # 0 /\ gone[i] = "none") \/ UNCHANGED <<text, gone, item>>
  BY <1>1 DEF Y!Edit, Y!ForgetItem, Y!LookAt, Y!Resolve, Y!Readable
<1>4. /\ \A j \in Y!Item \ {i} : text'[j] = text[j] /\ gone'[j] = gone[j] /\ item'[j] = item[j]
      /\ gone'[i] = gone[i] \/ gone'[i] = "forgotten"
  BY <1>0, <1>1 DEF Y!Edit, Y!ForgetItem, Y!LookAt, Y!Resolve, Y!memoryVars
<1>5. \/ item' = item
      \/ /\ item[i].state # "none" /\ text[i] # 0
         /\ \/ item' = [item EXCEPT ![i].state = "active"]
            \/ item' = [item EXCEPT ![i].state = "active", ![i].applied = edition[i] + 1]
  <2>1. text[i] # 0 /\ gone[i] = "none" => item[i].state # "none"
    BY <1>0 DEF HeldInv
  <2> QED
    BY <1>1, <1>3, <2>1 DEF Y!Edit, Y!ForgetItem, Y!LookAt, Y!Resolve
<1>6. /\ item'[i].state = item[i].state \/ (item[i].state # "none" /\ item'[i].state = "active")
      /\ item'[i].seen = item[i].seen /\ item'[i].revision = item[i].revision
      /\ item'[i].validated = item[i].validated /\ item'[i].withheld = item[i].withheld
  BY <1>0, <1>5 DEF ItemRows
<1> QED
  BY <1>2, <1>3, <1>4, <1>6

\* Access and leases: no item changes, and a run only loses its lease or ends.
Weather ==
    \/ Y!Refresh \/ Y!AccessLapses \/ Y!Resume
    \/ \E operator \in BOOLEAN : Y!Suspend(operator)
    \/ \E r \in Y!Scan : Y!RunLapses(r)

LEMMA WeatherFacts ==
  ASSUME RowsOK, Weather
  PROVE  /\ UNCHANGED <<source, moved, Y!clientVars, item, Y!memoryVars, review>>
         /\ \A r \in Y!Scan :
              /\ runs'[r].next = runs[r].next
              /\ runs'[r].state = runs[r].state \/ (r \in Y!Active /\ runs'[r].state = "aborted")
<1>1. runs \in [Y!Scan -> RunRows] /\ \A r \in Y!Scan : runs[r] \in RunRows
  BY DEF RowsOK
<1>2. CASE Y!Refresh \/ Y!AccessLapses \/ Y!Resume
  BY <1>2 DEF Y!Refresh, Y!AccessLapses, Y!Resume, Y!memoryVars
<1>3. ASSUME NEW operator \in BOOLEAN, Y!Suspend(operator)
      PROVE  /\ UNCHANGED <<source, moved, Y!clientVars, item, Y!memoryVars, review>>
             /\ \A r \in Y!Scan : \/ runs'[r] = runs[r]
                                  \/ r \in Y!Active /\ runs'[r] = [runs[r] EXCEPT !.state = "aborted", !.live = FALSE]
  BY <1>1, <1>3 DEF Y!Suspend, Y!Aborted
<1>4. ASSUME NEW r \in Y!Scan, Y!RunLapses(r)
      PROVE  /\ UNCHANGED <<source, moved, Y!clientVars, item, Y!memoryVars, review>>
             /\ \A q \in Y!Scan : runs'[q] = runs[q] \/ runs'[q] = [runs[q] EXCEPT !.live = FALSE]
  BY <1>1, <1>4 DEF Y!RunLapses
<1>5. \A r \in Y!Scan : /\ [runs[r] EXCEPT !.state = "aborted", !.live = FALSE].next = runs[r].next
                        /\ [runs[r] EXCEPT !.state = "aborted", !.live = FALSE].state = "aborted"
                        /\ [runs[r] EXCEPT !.live = FALSE].next = runs[r].next
                        /\ [runs[r] EXCEPT !.live = FALSE].state = runs[r].state
  BY <1>1 DEF RunRows
<1> QED
  BY <1>2, <1>3, <1>4, <1>5 DEF Weather

\* The client of a running run sends its next request.
LEMMA RequestFacts ==
  ASSUME RowsOK, NEW r \in Y!Scan, Y!AskFinish(r) \/ \E i \in Y!Item : Y!Read(r, i)
  PROVE  /\ r \in Y!Active /\ UNCHANGED <<source, moved, runs, item, Y!memoryVars>>
         /\ \A q \in Y!Scan \ {r} : sent'[q] = sent[q] /\ skipping'[q] = skipping[q]
         /\ skipping[r] => skipping'[r]
<1>1. sent \in [Y!Scan -> RequestRows] /\ skipping \in [Y!Scan -> BOOLEAN]
  BY DEF RowsOK
<1>2. CASE Y!AskFinish(r)
  BY <1>1, <1>2 DEF Y!AskFinish, Y!Send, Y!Active
<1>3. ASSUME NEW i \in Y!Item, Y!Read(r, i)
      PROVE  /\ r \in Y!Active /\ UNCHANGED <<source, moved, runs, item, Y!memoryVars>>
             /\ \A q \in Y!Scan \ {r} : sent'[q] = sent[q] /\ skipping'[q] = skipping[q]
             /\ skipping[r] => skipping'[r]
  <2>1. \E x, b : sent' = [sent EXCEPT ![r] = x] /\ skipping' = [skipping EXCEPT ![r] = skipping[r] \/ b]
    BY <1>3 DEF Y!Read, Y!Send
  <2> QED
    BY <1>1, <1>3, <2>1 DEF Y!Read, Y!Active
<1> QED
  BY <1>2, <1>3

\* A run begins: no other is active.
LEMMA BeginFacts ==
  ASSUME RowsOK, ScansInv, NEW r \in Y!Scan, Y!Begin(r)
  PROVE  /\ runs[r].state = "none" /\ runs'[r] = [state |-> "running", live |-> TRUE, next |-> 0]
         /\ \A q \in Y!Scan : q < r => runs[q].state # "none" /\ runs'[q].state \in {"completed", "aborted"}
         /\ \A q \in Y!Scan : q > r => runs[q].state = "none"
         /\ \A q \in Y!Scan \ {r} :
              runs'[q].state = runs[q].state \/ (q \in Y!Active /\ runs'[q].state = "aborted")
         /\ moved' = {} /\ UNCHANGED <<source, Y!clientVars, item, Y!memoryVars>>
<1>1. runs \in [Y!Scan -> RunRows] /\ \A q \in Y!Scan : runs[q] \in RunRows
  BY DEF RowsOK
<1>2. /\ runs[r].state = "none" /\ Y!Unoccupied(Y!Lapsed) /\ \A q \in Y!Scan : q < r => runs[q].state # "none"
      /\ runs' = [Y!Lapsed EXCEPT ![r] = [state |-> "running", live |-> TRUE, next |-> 0]]
      /\ moved' = {} /\ UNCHANGED <<source, Y!clientVars, item, Y!memoryVars>>
  BY DEF Y!Begin, Y!clientVars
<1>3. Y!Lapsed = [q \in Y!Scan |-> Y!Lapsed[q]]
  BY DEF Y!Lapsed
<1>4. \A q \in Y!Scan : Y!Lapsed[q].state = runs[q].state \/ (q \in Y!Active /\ Y!Lapsed[q].state = "aborted")
  BY <1>1 DEF Y!Lapsed, RunRows
<1>5. \A q \in Y!Scan : Y!Lapsed[q].state \notin {"running", "finalizing"}
  BY <1>2 DEF Y!Unoccupied
<1>6. runs'[r] = [state |-> "running", live |-> TRUE, next |-> 0] /\ \A q \in Y!Scan \ {r} : runs'[q] = Y!Lapsed[q]
  BY <1>2, <1>3
<1>7. \A q \in Y!Scan : runs[q].state \in RunStates
  BY <1>1 DEF RunRows
<1>8. \A q \in Y!Scan : q < r => q # r /\ runs'[q].state \in {"completed", "aborted"}
  BY <1>2, <1>4, <1>5, <1>6, <1>7 DEF RunStates, Y!Scan
<1>9. \A q \in Y!Scan : q > r => runs[q].state = "none"
  BY <1>2 DEF ScansInv
<1> QED
  BY <1>2, <1>4, <1>6, <1>8, <1>9

\* The next-state relation, by what the steps have in common.
LEMMA SyncCases ==
  ASSUME Y!Next
  PROVE  \/ \E i \in Y!Item : Y!SourceChanges(i)
         \/ People \/ Weather
         \/ \E r \in Y!Scan : \/ Y!Begin(r) \/ Y!Page(r) \/ Y!Finish(r)
                              \/ Y!AskFinish(r) \/ \E i \in Y!Item : Y!Read(r, i)
BY DEF Y!Next, People, Weather

LEMMA ScansStep ==
  ASSUME Y!ConstantAssumption, RowsOK, ScansInv, HeldInv, Y!Next PROVE ScansInv'
<1> USE DEF Y!clientVars
<1>0. \A r \in Y!Scan, i \in Y!Item : runs[r].state = "none" => item[i].seen # r
  BY DEF ScansInv
<1>1. ASSUME NEW i \in Y!Item, Y!SourceChanges(i) PROVE ScansInv'
  BY <1>0, <1>1, ScansKept DEF Y!SourceChanges
<1>2. CASE People
  BY <1>0, <1>2, PeopleFacts, ScansKept
<1>3. CASE Weather
  <2>1. \A r \in Y!Active : runs[r].state \in {"running", "finalizing"}
    BY DEF Y!Active
  <2> QED
    BY <1>0, <1>3, <2>1, WeatherFacts, ScansKept
<1>4. ASSUME NEW r \in Y!Scan, Y!Begin(r) PROVE ScansInv'
  <2>1. /\ runs'[r].state = "running" /\ runs[r].state = "none"
        /\ \A q \in Y!Scan : q < r => runs[q].state # "none" /\ runs'[q].state \in {"completed", "aborted"}
        /\ \A q \in Y!Scan : q > r => runs[q].state = "none"
        /\ \A q \in Y!Scan \ {r} : runs'[q].state = runs[q].state \/ (q \in Y!Active /\ runs'[q].state = "aborted")
        /\ UNCHANGED <<sent, skipping, item>>
    BY <1>4, BeginFacts
  <2>2. \A q \in Y!Scan : q > r => runs'[q].state = "none"
    BY <2>1 DEF Y!Active, Y!Scan
  <2>3. ASSUME NEW p \in Y!Scan, NEW q \in Y!Scan, p < q, runs'[q].state # "none"
        PROVE  runs'[p].state \in {"completed", "aborted"}
    <3>1. ~(q > r)
      BY <2>2, <2>3
    <3>2. p < r
      BY <2>3, <3>1 DEF Y!Scan
    <3> QED
      BY <2>1, <3>2
  <2>4. ASSUME NEW q \in Y!Scan, runs'[q].state = "none"
        PROVE  sent'[q] = Y!NoRequest' /\ ~skipping'[q] /\ \A i \in Y!Item : item'[i].seen # q
    <3>1. q # r /\ runs[q].state = "none"
      BY <2>1, <2>4 DEF Y!Active
    <3> QED
      BY <2>1, <3>1 DEF ScansInv, Y!NoRequest
  <2> QED
    BY <2>3, <2>4 DEF ScansInv
<1>5. ASSUME NEW r \in Y!Scan, Y!Page(r) PROVE ScansInv'
  <2> DEFINE i == sent[r].at
  <2>1. /\ r \in Y!Active /\ i \in Y!Item /\ runs'[r].state = runs[r].state
        /\ \A q \in Y!Scan \ {r} : runs'[q] = runs[q]
        /\ UNCHANGED <<sent, skipping>> /\ \A j \in Y!Item \ {i} : item'[j] = item[j]
    BY <1>5, PageFacts
  <2>2. item'[i].seen \in {r, item[i].seen}
    <3>1. CASE Y!Upsert(r, i, sent[r].revision)
      <4>1. sent[r].revision \in 0..LastSourceRevision
        BY DEF RowsOK, RequestRows
      <4> QED
        BY <2>1, <3>1, <4>1, UpsertFacts
    <3>2. CASE item' = [item EXCEPT ![i].seen = r]
      <4>1. item \in [Y!Item -> ItemRows] /\ item[i] \in ItemRows
        BY <2>1 DEF RowsOK
      <4> QED
        BY <2>1, <3>2, <4>1 DEF ItemRows
    <3> QED
      BY <1>5, <3>1, <3>2, PageFacts
  <2>3. runs[r].state \in {"running", "finalizing"}
    BY <2>1 DEF Y!Active
  <2>4. \A q \in Y!Scan : runs[q].state = "none" => \A j \in Y!Item : item'[j].seen # q
    BY <1>0, <2>1, <2>2, <2>3
  <2> QED
    BY <2>1, <2>3, <2>4, ScansKept
<1>6. ASSUME NEW r \in Y!Scan, Y!Finish(r) PROVE ScansInv'
  <2>1. /\ r \in Y!Active /\ runs'[r].state \in {"completed", "finalizing"}
        /\ \A q \in Y!Scan \ {r} : runs'[q] = runs[q]
        /\ UNCHANGED <<sent, skipping>> /\ \A j \in Y!Item : item'[j].seen = item[j].seen
    BY <1>6, FinishFacts
  <2>2. runs[r].state \in {"running", "finalizing"}
    BY <2>1 DEF Y!Active
  <2> QED
    BY <1>0, <2>1, <2>2, ScansKept
<1>7. ASSUME NEW r \in Y!Scan, Y!AskFinish(r) \/ \E i \in Y!Item : Y!Read(r, i) PROVE ScansInv'
  <2>1. r \in Y!Active /\ UNCHANGED <<runs, item>>
        /\ \A q \in Y!Scan \ {r} : sent'[q] = sent[q] /\ skipping'[q] = skipping[q]
    BY <1>7, RequestFacts
  <2>2. runs[r].state \in {"running", "finalizing"}
    BY <2>1 DEF Y!Active
  <2> QED
    BY <1>0, <2>1, <2>2, ScansKept
<1> QED
  BY <1>1, <1>2, <1>3, <1>4, <1>5, <1>6, <1>7, SyncCases

LEMMA HeldStep ==
  ASSUME Y!ConstantAssumption, RowsOK, HeldInv, Y!Next PROVE HeldInv'
<1> DEFINE Held(i) ==
      /\ item[i].state = "none" => text[i] = 0
      /\ text[i] # 0 /\ gone[i] = "none" => item[i].state \in {"active", "conflict"}
      /\ item[i].applied <= edition[i]
      /\ text[i] = Y!Local => item[i].applied # edition[i]
<1> USE DEF Y!memoryVars
<1>0. /\ \A i \in Y!Item : Held(i) /\ item[i] \in ItemRows /\ edition[i] \in Nat /\ item[i].applied \in Nat
      /\ text \in [Y!Item -> 0..Y!Local] /\ edition \in [Y!Item -> Nat] /\ item \in [Y!Item -> ItemRows]
      /\ gone \in [Y!Item -> {"none", "removed", "forgotten"}] /\ offered \in [Y!Item -> 0..LastSourceRevision]
      /\ Y!Local \notin 0..LastSourceRevision /\ Y!Local # 0
  BY DEF RowsOK, HeldInv, ItemRows, Y!Local, Y!ConstantAssumption
<1>00. (\A i \in Y!Item : Held(i)') => HeldInv'
  BY DEF HeldInv
<1>1. ASSUME UNCHANGED <<item, text, edition, gone>> PROVE HeldInv'
  BY <1>0, <1>00, <1>1
<1>2. ASSUME People PROVE HeldInv'
  <2>1. PICK i \in Discussed : Y!Edit(i) \/ Y!ForgetItem(i) \/ Y!LookAt(i) \/ \E accept \in BOOLEAN : Y!Resolve(i, accept)
    BY <1>2 DEF People
  <2>2. i \in Y!Item
    BY DEF Y!ConstantAssumption
  <2>3. CASE Y!Edit(i)
    <3>1. Held(i)'
      BY <1>0, <2>2, <2>3 DEF Y!Edit, Y!Readable
    <3>2. \A j \in Y!Item \ {i} : Held(j)'
      BY <1>0, <2>2, <2>3 DEF Y!Edit
    <3> QED
      BY <1>00, <3>1, <3>2
  <2>4. CASE Y!ForgetItem(i)
    BY <1>0, <1>00, <2>2, <2>4 DEF Y!ForgetItem
  <2>5. CASE Y!LookAt(i)
    BY <1>1, <2>5 DEF Y!LookAt
  <2>6. ASSUME NEW accept \in BOOLEAN, Y!Resolve(i, accept) PROVE HeldInv'
    <3>1. gone' = gone /\ text[i] # 0
      BY <2>6 DEF Y!Resolve, Y!Readable
    <3>2. \A j \in Y!Item \ {i} : item'[j] = item[j] /\ text'[j] = text[j] /\ edition'[j] = edition[j]
      BY <1>0, <2>6 DEF Y!Resolve
    <3>3. CASE accept
      <4>1. /\ text'[i] = offered[i] /\ edition'[i] = edition[i] + 1
            /\ item' = [item EXCEPT ![i].state = "active", ![i].applied = edition[i] + 1]
        BY <1>0, <2>2, <2>6, <3>3 DEF Y!Resolve
      <4>2. item'[i].state = "active" /\ item'[i].applied = edition[i] + 1
        BY <1>0, <2>2, <4>1 DEF ItemRows
      <4>3. Held(i)'
        BY <1>0, <2>2, <4>1, <4>2
      <4> QED
        BY <1>0, <1>00, <3>1, <3>2, <4>3
    <3>4. CASE ~accept
      <4>1. UNCHANGED <<text, edition>> /\ item' = [item EXCEPT ![i].state = "active"]
        BY <2>6, <3>4 DEF Y!Resolve
      <4>2. item'[i].state = "active" /\ item'[i].applied = item[i].applied
        BY <1>0, <2>2, <4>1 DEF ItemRows
      <4>3. Held(i)'
        BY <1>0, <2>2, <3>1, <4>1, <4>2
      <4> QED
        BY <1>0, <1>00, <3>1, <3>2, <4>3
    <3> QED
      BY <3>3, <3>4
  <2> QED
    BY <2>1, <2>3, <2>4, <2>5, <2>6
<1>3. ASSUME NEW r \in Y!Scan, Y!Page(r) PROVE HeldInv'
  <2>0. PICK i \in Y!Item, revision \in 0..LastSourceRevision : i = sent[r].at /\ revision = sent[r].revision
    BY <1>3, PageFacts DEF RowsOK, RequestRows
  <2>1. /\ i \in Y!Item /\ revision \in 0..LastSourceRevision
        /\ \A j \in Y!Item \ {i} : item'[j] = item[j] /\ text'[j] = text[j] /\ edition'[j] = edition[j] /\ gone'[j] = gone[j]
    BY <1>3, <2>0, PageFacts
  <2>2. CASE Y!Upsert(r, i, revision)
    <3>1. PICK status \in {"active", "conflict", "deleted"}, since \in {item[i].applied, edition[i] + 1} :
            /\ Y!Observed(r, i, revision, status, since)
            /\ \/ /\ status = "deleted" /\ since = item[i].applied /\ UNCHANGED <<text, edition>>
                  /\ gone'[i] = IF gone[i] = "none" /\ text[i] # 0 THEN "removed" ELSE gone[i]
               \/ /\ status \in {"active", "conflict"} /\ since = item[i].applied /\ UNCHANGED <<text, edition, gone>>
               \/ /\ status = "active" /\ since = edition[i] + 1 /\ gone' = gone
                  /\ text'[i] = revision /\ edition'[i] = edition[i] + 1
      BY <1>0, <2>1, <2>2 DEF Y!Upsert
    <3>2. item'[i].state = status /\ item'[i].applied = since
      BY <1>0, <2>1, <3>1 DEF Y!Observed
    <3>3. Held(i)'
      <4>1. CASE status = "deleted" /\ since = item[i].applied
        BY <1>0, <2>1, <3>1, <3>2, <4>1
      <4>2. CASE status \in {"active", "conflict"} /\ since = item[i].applied /\ UNCHANGED <<text, edition, gone>>
        <5>1. text[i] = Y!Local => item[i].applied # edition[i]
          BY <1>0, <2>1
        <5>2. item'[i].state \in {"active", "conflict"} /\ item'[i].applied = item[i].applied
          BY <3>2, <4>2
        <5> QED
          BY <1>0, <2>1, <4>2, <5>1, <5>2
      <4>3. CASE /\ status = "active" /\ since = edition[i] + 1
                 /\ text'[i] = revision /\ edition'[i] = edition[i] + 1
        <5>1. text'[i] # Y!Local
          BY <1>0, <2>1, <4>3
        <5>2. item'[i].state = "active" /\ item'[i].applied = edition'[i] /\ edition'[i] \in Nat
          BY <1>0, <2>1, <3>2, <4>3
        <5> QED
          BY <5>1, <5>2
      <4> QED
        BY <3>1, <4>1, <4>2, <4>3
    <3>4. \A j \in Y!Item \ {i} : Held(j)'
      BY <1>0, <2>1
    <3> HIDE DEF Held
    <3> QED
      BY <1>00, <3>3, <3>4
  <2>3. CASE item' = [item EXCEPT ![i].seen = r] /\ UNCHANGED Y!memoryVars
    <3>1. item'[i].state = item[i].state /\ item'[i].applied = item[i].applied
      BY <1>0, <2>1, <2>3 DEF ItemRows
    <3> QED
      BY <1>0, <1>00, <2>1, <2>3, <3>1
  <2>4. CASE UNCHANGED <<item, Y!memoryVars>>
    BY <1>1, <2>4
  <2> QED
    BY <1>3, <2>0, <2>2, <2>3, <2>4, PageFacts
<1>4. ASSUME NEW r \in Y!Scan, Y!Finish(r) PROVE HeldInv'
  <2> DEFINE sweep == IF skipping[r] THEN {} ELSE Y!Swept(r)
  <2>1. \A i \in Y!Item :
          /\ i \in sweep =>
               /\ item'[i].state = "deleted"
               /\ gone'[i] = IF text[i] # 0 /\ gone[i] = "none" THEN "removed" ELSE gone[i]
          /\ i \notin sweep => item'[i].state = item[i].state /\ gone'[i] = gone[i]
          /\ item'[i].applied = item[i].applied
    BY <1>4, FinishFacts
  <2>2. UNCHANGED <<text, edition>>
    BY <1>4 DEF Y!Finish
  <2> HIDE DEF sweep
  <2> QED
    BY <1>0, <1>00, <2>1, <2>2
<1>5. ASSUME NEW i \in Y!Item, Y!SourceChanges(i) PROVE HeldInv'
  BY <1>1, <1>5 DEF Y!SourceChanges
<1>6. CASE Weather
  BY <1>1, <1>6, WeatherFacts
<1>7. ASSUME NEW r \in Y!Scan, Y!Begin(r) PROVE HeldInv'
  BY <1>1, <1>7 DEF Y!Begin
<1>8. ASSUME NEW r \in Y!Scan, Y!AskFinish(r) \/ \E i \in Y!Item : Y!Read(r, i) PROVE HeldInv'
  BY <1>1, <1>8 DEF Y!AskFinish, Y!Read
<1> QED
  BY <1>2, <1>3, <1>4, <1>5, <1>6, <1>7, <1>8, SyncCases

\* What leaves a run's progress as it is, or tells of a source that moved.
LEMMA ScannedKept ==
  ASSUME NEW r \in Y!Scan, Scanned(r),
         runs'[r].next = runs[r].next, sent'[r] = sent[r], skipping'[r] = skipping[r],
         \A i \in Y!Item : /\ item'[i].seen = item[i].seen /\ item'[i].revision = item[i].revision
                           /\ item[i].state # "none" => item'[i].state # "none",
         \A i \in Y!Item \ moved' : i \notin moved /\ source'[i] = source[i]
  PROVE  Scanned(r)'
<1>1. /\ \A i \in Y!Item : i > runs'[r].next => item'[i].seen # r
      /\ sent'[r].kind = "denied" => skipping'[r]
      /\ sent'[r].kind = "finish" /\ ~skipping'[r] => runs'[r].next = LastItem
  BY DEF Scanned
<1>2. ASSUME NEW i \in Y!Item \ moved', ~skipping'[r]
      PROVE  /\ source'[i].present /\ i <= runs'[r].next =>
                  item'[i].state # "none" /\ item'[i].seen = r /\ item'[i].revision = source'[i].revision
             /\ ~source'[i].present => item'[i].seen # r
             /\ sent'[r].at = i /\ i > runs'[r].next =>
                  /\ sent'[r].kind \in {"content", "retain"} =>
                       source'[i].present /\ sent'[r].revision = source'[i].revision
                  /\ sent'[r].kind = "marker" => ~source'[i].present
  BY <1>2 DEF Scanned
<1> QED
  BY <1>1, <1>2 DEF Scanned

\* A page extends what the run has stored by the item it is about.
LEMMA ScannedPage ==
  ASSUME Y!ConstantAssumption, RowsOK, NEW r \in Y!Scan, Scanned(r), Y!Page(r)
  PROVE  Scanned(r)'
<1>1. PICK k \in Y!Item : k = sent[r].at
  BY PageFacts
<1>2. /\ k = runs[r].next + 1 /\ runs'[r].next = k
      /\ UNCHANGED <<source, moved, sent, skipping>>
      /\ \A j \in Y!Item \ {k} : item'[j] = item[j]
  BY <1>1, PageFacts DEF Y!clientVars
<1>3. runs[r].next \in 0..LastItem /\ sent[r].revision \in 0..LastSourceRevision
      /\ item \in [Y!Item -> ItemRows] /\ item[k] \in ItemRows /\ LastItem \in Nat
  BY DEF RowsOK, RunRows, RequestRows, Y!ConstantAssumption
<1>4. \/ /\ sent[r].kind \in {"content", "retain"}
         /\ item'[k].state # "none" /\ item'[k].seen = r /\ item'[k].revision = sent[r].revision
      \/ sent[r].kind \in {"marker", "denied"} /\ item'[k] = item[k]
  <2>1. CASE sent[r].kind = "content" /\ Y!Upsert(r, k, sent[r].revision)
    BY <1>3, <2>1, UpsertFacts
  <2>2. CASE /\ sent[r].kind = "retain" /\ item[k].state # "none" /\ item[k].revision = sent[r].revision
             /\ item' = [item EXCEPT ![k].seen = r]
    BY <1>3, <2>2 DEF ItemRows
  <2>3. CASE sent[r].kind \in {"marker", "denied"} /\ UNCHANGED item
    BY <2>3
  <2> QED
    BY <1>1, <2>1, <2>2, <2>3, PageFacts
<1>5. \A j \in Y!Item : j > runs'[r].next => item'[j].seen # r
  BY <1>2, <1>3 DEF Scanned, Y!Item
<1>6. sent'[r].kind # "finish"
  BY <1>2, <1>4
<1>7. sent'[r].kind = "denied" => skipping'[r]
  BY <1>2 DEF Scanned
<1>8. ASSUME NEW j \in Y!Item \ moved', ~skipping'[r], j # k
      PROVE  /\ source'[j].present /\ j <= runs'[r].next =>
                  item'[j].state # "none" /\ item'[j].seen = r /\ item'[j].revision = source'[j].revision
             /\ ~source'[j].present => item'[j].seen # r
  <2>1. j <= k => j <= runs[r].next
    BY <1>2, <1>3, <1>8 DEF Y!Item
  <2> QED
    BY <1>2, <1>8, <2>1 DEF Scanned
<1>9. ASSUME k \notin moved', ~skipping'[r]
      PROVE  /\ source'[k].present =>
                  item'[k].state # "none" /\ item'[k].seen = r /\ item'[k].revision = source'[k].revision
             /\ ~source'[k].present => item'[k].seen # r
  <2>1. k > runs[r].next
    BY <1>2, <1>3
  <2>2. /\ sent[r].kind \in {"content", "retain"} => source[k].present /\ sent[r].revision = source[k].revision
        /\ sent[r].kind = "marker" => ~source[k].present
        /\ sent[r].kind # "denied" /\ item[k].seen # r
    BY <1>1, <1>2, <1>9, <2>1 DEF Scanned
  <2> QED
    BY <1>2, <1>4, <2>2
<1>10. \A j \in Y!Item : sent'[r].at = j => ~(j > runs'[r].next)
  <2>1. ~(k > k)
    BY DEF Y!Item
  <2>2. sent'[r].at = k
    BY <1>1, <1>2
  <2> QED
    BY <1>2, <2>1, <2>2
<1> QED
  BY <1>2, <1>5, <1>6, <1>7, <1>8, <1>9, <1>10 DEF Scanned

\* The next request tells what the source is like when it is read.
LEMMA ScannedRequest ==
  ASSUME Y!ConstantAssumption, RowsOK, NEW r \in Y!Scan, Scanned(r), Y!AskFinish(r) \/ \E i \in Y!Item : Y!Read(r, i)
  PROVE  Scanned(r)'
<1>0. UNCHANGED <<source, moved, runs, item>> /\ (skipping[r] => skipping'[r])
  BY RequestFacts
<1>00. /\ sent \in [Y!Scan -> RequestRows] /\ skipping \in [Y!Scan -> BOOLEAN]
       /\ runs[r].next \in 0..LastItem /\ LastItem \in Nat
  BY DEF RowsOK, RunRows, Y!ConstantAssumption
<1>1. CASE Y!AskFinish(r)
  <2>1. /\ sent'[r].kind = "finish" /\ sent'[r].at = runs[r].next /\ skipping' = skipping
        /\ Y!InventoryRead(r)
    BY <1>00, <1>1 DEF Y!AskFinish, Y!Send
  <2>2. ~skipping[r] => runs[r].next = LastItem
    BY <2>1 DEF Y!InventoryRead, Y!Stopped, Scanned
  <2>3. \A j \in Y!Item : sent'[r].at = j => ~(j > runs[r].next)
    BY <1>00, <2>1 DEF Y!Item
  <2> QED
    BY <1>0, <2>1, <2>2, <2>3 DEF Scanned
<1>2. ASSUME NEW i \in Y!Item, Y!Read(r, i) PROVE Scanned(r)'
  <2>1. /\ sent'[r].at = i /\ sent'[r].kind \in {"content", "retain", "marker", "denied"}
        /\ sent'[r].kind \in {"content", "retain"} => source[i].present /\ sent'[r].revision = source[i].revision
        /\ sent'[r].kind = "denied" => source[i].present
    BY <1>00, <1>2 DEF Y!Read, Y!Send
  <2>2. skipping' = [skipping EXCEPT ![r] = @ \/ (source[i].present /\ sent'[r].kind \in {"marker", "denied"})]
    BY <1>2 DEF Y!Read
  <2>3. source[i].present /\ sent'[r].kind \in {"marker", "denied"} => skipping'[r]
    BY <1>00, <2>2
  <2> QED
    BY <1>0, <2>1, <2>3 DEF Scanned
<1> QED
  BY <1>1, <1>2

LEMMA ScannedStep ==
  ASSUME Y!ConstantAssumption, RowsOK, ScansInv, HeldInv, ScannedInv, Y!Next PROVE ScannedInv'
<1> USE DEF Y!clientVars
<1>1. ASSUME NEW i \in Y!Item, Y!SourceChanges(i) PROVE ScannedInv'
  <2>1. /\ source' = [source EXCEPT ![i] = source'[i]] /\ moved' = moved \cup {i}
        /\ UNCHANGED <<runs, sent, skipping, item>>
    BY <1>1 DEF Y!SourceChanges, RowsOK
  <2>2. \A j \in Y!Item \ moved' : j \notin moved /\ source'[j] = source[j]
    BY <2>1 DEF RowsOK
  <2>3. \A r \in Y!Active' : r \in Y!Active /\ r \in Y!Scan
    BY <2>1 DEF Y!Active
  <2> QED
    BY <2>1, <2>2, <2>3, ScannedKept DEF ScannedInv
<1>2. ASSUME UNCHANGED <<source, moved, sent, skipping>>,
             \A r \in Y!Active' : r \in Y!Active /\ runs'[r].next = runs[r].next,
             \A i \in Y!Item : /\ item'[i].seen = item[i].seen /\ item'[i].revision = item[i].revision
                               /\ item[i].state # "none" => item'[i].state # "none"
      PROVE  ScannedInv'
  <2>1. \A r \in Y!Active : r \in Y!Scan
    BY DEF Y!Active
  <2> QED
    BY <1>2, <2>1, ScannedKept DEF ScannedInv
<1>3. CASE People
  <2>1. Y!Active' = Y!Active
    BY <1>3, PeopleFacts DEF Y!Active
  <2> QED
    BY <1>2, <1>3, <2>1, PeopleFacts
<1>4. CASE Weather
  <2>1. \A r \in Y!Active' : r \in Y!Active /\ runs'[r].next = runs[r].next
    BY <1>4, WeatherFacts DEF Y!Active
  <2> QED
    BY <1>2, <1>4, <2>1, WeatherFacts DEF Y!memoryVars
<1>5. ASSUME NEW r \in Y!Scan, Y!Finish(r) PROVE ScannedInv'
  <2>1. /\ r \in Y!Active /\ runs'[r].next = runs[r].next /\ \A q \in Y!Scan \ {r} : runs'[q] = runs[q]
        /\ UNCHANGED <<source, moved, sent, skipping>>
        /\ \A i \in Y!Item : /\ item'[i].seen = item[i].seen /\ item'[i].revision = item[i].revision
                             /\ item'[i].state \in {item[i].state, "deleted"}
    BY <1>5, FinishFacts
  <2>2. \A q \in Y!Active' : q \in Y!Active /\ runs'[q].next = runs[q].next
    BY <2>1 DEF Y!Active
  <2> QED
    BY <1>2, <2>1, <2>2
<1>6. ASSUME NEW r \in Y!Scan, Y!Begin(r) PROVE ScannedInv'
  <2>1. /\ runs[r].state = "none" /\ runs'[r].next = 0 /\ moved' = {}
        /\ \A q \in Y!Scan : q < r => runs'[q].state \in {"completed", "aborted"}
        /\ \A q \in Y!Scan : q > r => runs[q].state = "none"
        /\ \A q \in Y!Scan \ {r} : runs'[q].state = runs[q].state \/ (q \in Y!Active /\ runs'[q].state = "aborted")
        /\ UNCHANGED <<source, sent, skipping, item>>
    BY <1>6, BeginFacts
  <2>2. \A q \in Y!Active' : q = r
    BY <2>1 DEF Y!Active, Y!Scan
  <2>3. sent'[r].kind = "none" /\ \A i \in Y!Item : item'[i].seen # r /\ ~(i <= 0)
    BY <2>1 DEF ScansInv, Y!NoRequest, Y!Item
  <2>4. Scanned(r)'
    BY <2>1, <2>3 DEF Scanned
  <2> QED
    BY <2>2, <2>4 DEF ScannedInv
<1>7. ASSUME NEW r \in Y!Scan, r \in Y!Active, Scanned(r)', \A q \in Y!Scan \ {r} : runs'[q] = runs[q] PROVE ScannedInv'
  <2>1. \A q \in Y!Active' : q = r
    BY <1>7, ActiveFacts DEF Y!Active
  <2> QED
    BY <1>7, <2>1 DEF ScannedInv
<1>8. ASSUME NEW r \in Y!Scan, Y!Page(r) PROVE ScannedInv'
  BY <1>7, <1>8, PageFacts, ScannedPage DEF ScannedInv
<1>9. ASSUME NEW r \in Y!Scan, Y!AskFinish(r) \/ \E i \in Y!Item : Y!Read(r, i) PROVE ScannedInv'
  BY <1>7, <1>9, RequestFacts, ScannedRequest DEF ScannedInv
<1> QED
  BY <1>1, <1>3, <1>4, <1>5, <1>6, <1>8, <1>9, SyncCases

(***************************************************************************)
(* What a refused access hides.                                            *)
(***************************************************************************)

LEMMA StopsKept ==
  ASSUME RowsOK, ScansInv, StopsInv, \A r \in Stops' : r \in Stops,
         \A i \in Y!Item : text'[i] # 0 /\ gone'[i] = "none" /\ ~item'[i].withheld =>
            \/ text[i] # 0 /\ gone[i] = "none" /\ ~item[i].withheld /\ item'[i].validated = item[i].validated
            \/ item'[i].validated \in Y!Active
  PROVE  StopsInv'
<1>1. ASSUME NEW i \in Y!Item, NEW q \in Stops, text'[i] # 0, gone'[i] = "none", ~item'[i].withheld
      PROVE  q <= item'[i].validated
  <2>1. CASE item'[i].validated \in Y!Active
    <3>1. q < item'[i].validated
      BY <2>1, ActiveFacts
    <3> QED
      BY <2>1, <3>1 DEF Stops, Y!Active, Y!Scan
  <2>2. CASE text[i] # 0 /\ gone[i] = "none" /\ ~item[i].withheld /\ item'[i].validated = item[i].validated
    BY <2>2 DEF StopsInv
  <2> QED
    BY <1>1, <2>1, <2>2
<1> QED
  BY <1>1 DEF StopsInv

LEMMA StopsStep ==
  ASSUME Y!ConstantAssumption, RowsOK, ScansInv, HeldInv, StopsInv, Y!Next PROVE StopsInv'
<1> USE DEF Y!clientVars, Y!memoryVars
<1>1. ASSUME NEW i \in Y!Item, Y!SourceChanges(i) PROVE StopsInv'
  BY <1>1, StopsKept DEF Y!SourceChanges, Stops
<1>2. CASE People
  BY <1>2, PeopleFacts, StopsKept DEF Stops
<1>3. CASE Weather
  <2>1. \A r \in Stops' : r \in Stops
    BY <1>3, WeatherFacts DEF Stops
  <2> QED
    BY <1>3, <2>1, WeatherFacts, StopsKept
<1>4. ASSUME NEW r \in Y!Scan, Y!Begin(r) PROVE StopsInv'
  <2>1. \A q \in Stops' : q \in Stops
    BY <1>4, BeginFacts DEF Stops
  <2> QED
    BY <1>4, <2>1, BeginFacts, StopsKept
<1>5. ASSUME NEW r \in Y!Scan, Y!Page(r) PROVE StopsInv'
  <2>0. PICK k \in Y!Item : k = sent[r].at
    BY <1>5, PageFacts
  <2>1. /\ r \in Y!Active /\ runs'[r].state = runs[r].state
        /\ \A q \in Y!Scan \ {r} : runs'[q] = runs[q]
        /\ UNCHANGED <<sent, skipping>>
        /\ \A j \in Y!Item \ {k} : item'[j] = item[j] /\ text'[j] = text[j] /\ gone'[j] = gone[j]
    BY <1>5, <2>0, PageFacts
  <2>2. \/ item'[k].validated = r
        \/ /\ text'[k] = text[k] /\ gone'[k] = gone[k] /\ item'[k].withheld = item[k].withheld
           /\ item'[k].validated = item[k].validated
    <3>1. item \in [Y!Item -> ItemRows] /\ item[k] \in ItemRows /\ sent[r].revision \in 0..LastSourceRevision
      BY DEF RowsOK, RequestRows
    <3>2. CASE Y!Upsert(r, k, sent[r].revision)
      BY <3>1, <3>2, UpsertFacts
    <3>3. CASE item' = [item EXCEPT ![k].seen = r] /\ UNCHANGED Y!memoryVars
      BY <3>1, <3>3 DEF ItemRows
    <3>4. CASE UNCHANGED <<item, Y!memoryVars>>
      BY <3>4
    <3> QED
      BY <1>5, <2>0, <3>2, <3>3, <3>4, PageFacts
  <2>3. \A q \in Stops' : q \in Stops
    BY <2>1 DEF Stops
  <2> QED
    BY <2>1, <2>2, <2>3, StopsKept
<1>6. ASSUME NEW r \in Y!Scan, Y!Finish(r) PROVE StopsInv'
  <2> DEFINE sweep == IF skipping[r] THEN {} ELSE Y!Swept(r)
             done == skipping[r] \/ sweep = Y!Missing(r)
             stop == done /\ sent[r].revision = 1
  <2>1. /\ r \in Y!Active /\ sent[r].kind = "finish"
        /\ runs'[r].state = (IF done THEN "completed" ELSE "finalizing")
        /\ \A q \in Y!Scan \ {r} : runs'[q] = runs[q]
        /\ UNCHANGED <<sent, text>>
        /\ \A i \in Y!Item :
             /\ i \in sweep => gone'[i] = IF text[i] # 0 /\ gone[i] = "none" THEN "removed" ELSE gone[i]
             /\ i \notin sweep =>
                  gone'[i] = gone[i] /\ item'[i].withheld = (item[i].withheld \/ (stop /\ i \in Y!Unread(r)))
             /\ item'[i].validated = item[i].validated
    BY <1>6, FinishFacts
  <2> HIDE DEF sweep
  <2>2. \A i \in Y!Item : text'[i] # 0 /\ gone'[i] = "none" /\ ~item'[i].withheld =>
          /\ text[i] # 0 /\ gone[i] = "none" /\ ~item[i].withheld
          /\ ~(stop /\ i \in Y!Unread(r))
    BY <2>1
  <2>3. CASE stop
    <3>1. ASSUME NEW i \in Y!Item, text'[i] # 0, gone'[i] = "none", ~item'[i].withheld
          PROVE  item'[i].validated = r
      <4>1. item[i].state \in {"active", "conflict"}
        BY <2>2, <3>1 DEF HeldInv
      <4> QED
        BY <2>1, <2>2, <2>3, <3>1, <4>1 DEF Y!Unread
    <3>2. \A q \in Stops' : q = r \/ q \in Stops
      BY <2>1 DEF Stops
    <3>3. \A q \in Stops' : q <= r
      BY <2>1, <3>2, ActiveFacts DEF Stops, Y!Scan
    <3> QED
      BY <3>1, <3>3 DEF StopsInv
  <2>4. CASE ~stop
    <3>1. \A q \in Stops' : q \in Stops
      BY <2>1, <2>4 DEF Stops
    <3> QED
      BY <2>1, <2>2, <3>1, StopsKept
  <2> QED
    BY <2>3, <2>4
<1>7. ASSUME NEW r \in Y!Scan, Y!AskFinish(r) \/ \E i \in Y!Item : Y!Read(r, i) PROVE StopsInv'
  <2>1. /\ r \in Y!Active /\ UNCHANGED <<runs, item, text, gone>>
        /\ \A q \in Y!Scan \ {r} : sent'[q] = sent[q]
    BY <1>7, RequestFacts
  <2>2. \A q \in Stops' : q \in Stops
    BY <2>1 DEF Stops, Y!Active
  <2> QED
    BY <2>1, <2>2, StopsKept
<1> QED
  BY <1>1, <1>2, <1>3, <1>4, <1>5, <1>6, <1>7, SyncCases

\* Of the runs that ended because access was refused, one was the last.
LEMMA LastStopFacts ==
  ASSUME Y!ConstantAssumption, Stops # {}
  PROVE  Y!LastStop \in Stops
<1> DEFINE S == {LastScan - q : q \in Stops}
<1>0. LastScan \in Nat /\ \A q \in Stops : q \in 1..LastScan
  BY DEF Stops, Y!Scan, Y!ConstantAssumption
<1>1. S \in SUBSET Nat /\ S # {}
  BY <1>0
<1>2. PICK x \in S : \A y \in S : ~(<<y, x>> \in OpToRel(<, Nat))
  BY <1>1, NatLessThanWellFounded, WFMin
<1>3. \A y \in S : ~(y < x)
  BY <1>1, <1>2, Zenon DEF OpToRel
<1>4. PICK r \in Stops : x = LastScan - r
  BY <1>2
<1>5. \A q \in Stops : q <= r
  <2>1. \A q \in Stops : ~(LastScan - q < LastScan - r)
    BY <1>3, <1>4
  <2> QED
    BY <1>0, <2>1
<1>6. Y!LastStop = CHOOSE q \in Stops : \A p \in Stops : p <= q
  BY DEF Y!LastStop, Stops
<1> QED
  BY <1>5, <1>6

(***************************************************************************)
(* The invariant.                                                          *)
(***************************************************************************)

LEMMA SyncInit == ASSUME Y!ConstantAssumption, Y!Init PROVE SyncInv
<1> USE DEF Y!Init, Y!NoRequest, Y!NoReview, Y!Unknown
<1>1. LastItem \in Nat \ {0} /\ LastSourceRevision \in Nat \ {0} /\ LastScan \in Nat
      /\ 1 \in Y!SourceRevision
  BY DEF Y!ConstantAssumption, Y!SourceRevision
<1>2. /\ source \in [Y!Item -> [revision : Y!SourceRevision, present : BOOLEAN]]
      /\ runs \in [Y!Scan -> RunRows] /\ sent \in [Y!Scan -> RequestRows]
  BY <1>1 DEF RunRows, RunStates, RequestRows
<1>3. item \in [Y!Item -> ItemRows]
  BY <1>1 DEF ItemRows
<1>4. RowsOK
  <2>1. text \in [Y!Item -> 0..Y!Local] /\ offered \in [Y!Item -> 0..LastSourceRevision] /\ edition \in [Y!Item -> Nat]
    BY <1>1 DEF Y!Local
  <2>2. review \in [item : 0..LastItem, version : Nat, proposal : 0..LastSourceRevision]
    BY <1>1
  <2>3. /\ moved \subseteq Y!Item /\ open \in BOOLEAN /\ operatorPaused \in BOOLEAN
        /\ skipping \in [Y!Scan -> BOOLEAN] /\ gone \in [Y!Item -> {"none", "removed", "forgotten"}]
    OBVIOUS
  <2> QED
    BY <1>2, <1>3, <2>1, <2>2, <2>3 DEF RowsOK
<1>5. ScansInv /\ Y!Active = {} /\ Stops = {}
  BY DEF ScansInv, Y!Scan, Y!Active, Stops
<1>6. HeldInv
  BY <1>1 DEF HeldInv, Y!Local
<1> QED
  BY <1>4, <1>5, <1>6 DEF SyncInv, ScannedInv, StopsInv

LEMMA SyncStep == ASSUME Y!ConstantAssumption, SyncInv, Y!Next PROVE SyncInv'
<1>1. RowsOK'
  BY SyncTypesMemory, SyncTypesScope, SyncTypesRun DEF Y!Next, SyncInv
<1> QED
  BY <1>1, ScansStep, HeldStep, ScannedStep, StopsStep DEF SyncInv

LEMMA SyncStutter == ASSUME SyncInv, UNCHANGED Y!vars PROVE SyncInv'
BY DEF SyncInv, Y!vars, Y!scopeVars, Y!clientVars, Y!memoryVars, RowsOK, ScansInv, HeldInv,
       ScannedInv, Scanned, StopsInv,
   Stops, Y!Active, Y!NoRequest

LEMMA HiddenFromInv == ASSUME Y!ConstantAssumption, SyncInv PROVE Y!HiddenUntilReadAgain
<1>1. ASSUME NEW i \in Y!Item, Y!Readable(i) PROVE item[i].validated >= Y!LastStop
  <2>1. /\ text[i] # 0 /\ gone[i] = "none" /\ ~item[i].withheld
        /\ item[i].validated \in 0..LastScan
    BY <1>1 DEF Y!Readable, SyncInv, RowsOK, ItemRows
  <2>2. CASE Stops = {}
    <3>1. Y!LastStop = 0
      BY <2>2 DEF Y!LastStop, Stops
    <3> QED
      BY <2>1, <3>1
  <2>3. CASE Stops # {}
    <3>1. Y!LastStop \in Stops /\ Y!LastStop \in 1..LastScan
      BY <2>3, LastStopFacts DEF Stops, Y!Scan
    <3>2. Y!LastStop <= item[i].validated
      BY <2>1, <3>1 DEF SyncInv, StopsInv
    <3> QED
      BY <2>1, <3>1, <3>2
  <2> QED
    BY <2>2, <2>3
<1> QED
  BY <1>1 DEF Y!HiddenUntilReadAgain

(***************************************************************************)
(* What an inventory removes, and what people decide.                      *)
(***************************************************************************)

\* A memory is removed by a finish whose run saw all of an unchanged source.
LEMMA RemovedWithReason ==
  ASSUME Y!ConstantAssumption, SyncInv, Y!Next, NEW i \in Y!Item, gone[i] = "none", gone'[i] = "removed"
  PROVE  i \in moved \/ ~source[i].present
<1> USE DEF SyncInv, Y!memoryVars
<1>1. CASE UNCHANGED gone
  BY <1>1
<1>2. ASSUME NEW r \in Y!Scan, Y!Page(r) PROVE FALSE
  <2>0. PICK k \in Y!Item : k = sent[r].at
    BY <1>2, PageFacts
  <2>1. i = k
    BY <1>2, <2>0, PageFacts
  <2>2. text[k] = 0 \/ item[k].state \in {"active", "conflict"}
    BY <2>1 DEF HeldInv
  <2>3. gone \in [Y!Item -> {"none", "removed", "forgotten"}]
    BY DEF RowsOK
  <2>4. Y!Upsert(r, k, sent[r].revision) => gone'[k] = gone[k]
    BY <2>1, <2>2, <2>3 DEF Y!Upsert
  <2> QED
    BY <1>2, <2>0, <2>1, <2>4, PageFacts
<1>3. ASSUME NEW r \in Y!Scan, Y!Finish(r) PROVE i \in moved \/ ~source[i].present
  <2>1. r \in Y!Active /\ sent[r].kind = "finish" /\ ~skipping[r] /\ i \in Y!Swept(r)
    BY <1>3, FinishFacts
  <2>2. item[i].seen # r
    BY <2>1 DEF Y!Swept, Y!Missing
  <2>3. Scanned(r) /\ i <= LastItem
    BY <2>1 DEF ScannedInv, Y!Item
  <2> QED
    BY <2>1, <2>2, <2>3 DEF Scanned
<1> QED
  <2>1. (\E k \in Y!Item : Y!SourceChanges(k)) => UNCHANGED gone
    BY DEF Y!SourceChanges
  <2>2. People => gone'[i] # "removed"
    BY PeopleFacts
  <2>3. Weather => UNCHANGED gone
    BY WeatherFacts
  <2>4. (\E r \in Y!Scan : Y!Begin(r) \/ Y!AskFinish(r) \/ \E k \in Y!Item : Y!Read(r, k)) => UNCHANGED gone
    BY BeginFacts, RequestFacts
  <2> QED
    BY <1>1, <1>2, <1>3, <2>1, <2>2, <2>3, <2>4, SyncCases

\* Only the finish of a run completes it, once nothing is left to remove.
LEMMA CompletedByFinish ==
  ASSUME Y!ConstantAssumption, SyncInv, Y!Next, NEW r \in Y!Scan,
         runs[r].state # "completed", runs'[r].state = "completed"
  PROVE  Y!Finish(r)
<1> USE DEF SyncInv
<1>1. \A q \in Y!Scan : Y!Finish(q) => q = r
  BY FinishFacts
<1>2. ~ \E i \in Y!Item : Y!SourceChanges(i)
  BY DEF Y!SourceChanges
<1>3. ~People /\ ~Weather
  BY PeopleFacts, WeatherFacts
<1>4. \A q \in Y!Scan : ~Y!Page(q)
  BY PageFacts
<1>5. \A q \in Y!Scan : ~Y!Begin(q)
  BY BeginFacts DEF Y!Active
<1>6. \A q \in Y!Scan : ~Y!AskFinish(q) /\ ~ \E i \in Y!Item : Y!Read(q, i)
  BY RequestFacts
<1> QED
  BY <1>1, <1>2, <1>3, <1>4, <1>5, <1>6, SyncCases

LEMMA CompletedIsExact ==
  ASSUME Y!ConstantAssumption, SyncInv, Y!Next, NEW r \in Y!Scan, NEW i \in Y!Item \ moved,
         runs[r].state # "completed", runs'[r].state = "completed", ~skipping[r]
  PROVE  IF source[i].present THEN item'[i].state # "none" /\ item'[i].revision = source[i].revision
         ELSE item'[i].state \in {"none", "deleted"}
<1> USE DEF SyncInv
<1>1. Y!Finish(r)
  BY CompletedByFinish
<1>2. /\ r \in Y!Active /\ sent[r].kind = "finish" /\ Y!Swept(r) = Y!Missing(r)
      /\ i \in Y!Missing(r) => item'[i].state = "deleted"
      /\ i \notin Y!Missing(r) => item'[i].state = item[i].state
      /\ item'[i].revision = item[i].revision
  BY <1>1, FinishFacts
<1>3. Scanned(r) /\ i <= LastItem
  BY <1>2 DEF ScannedInv, Y!Item
<1>4. item[i].state \in {"none", "active", "conflict", "deleted"}
  BY DEF RowsOK, ItemRows
<1>5. CASE source[i].present
  <2>1. item[i].state # "none" /\ item[i].revision = source[i].revision
    BY <1>2, <1>3, <1>5 DEF Scanned
  <2> QED
    BY <1>2, <1>5, <2>1
<1>6. CASE ~source[i].present
  <2>1. item[i].seen # r
    BY <1>2, <1>3, <1>6 DEF Scanned
  <2>2. item[i].state \in {"active", "conflict"} => i \in Y!Missing(r)
    BY <2>1 DEF Y!Missing
  <2> QED
    BY <1>2, <1>4, <1>6, <2>2
<1> QED
  BY <1>5, <1>6

\* Nothing but the decision of a reviewer replaces what people wrote.
LEMMA ReplacedByDecision ==
  ASSUME Y!ConstantAssumption, SyncInv, Y!Next, NEW i \in Y!Item, text[i] = Y!Local, text'[i] # Y!Local
  PROVE  review = [item |-> i, version |-> edition[i], proposal |-> text'[i]]
<1> USE DEF SyncInv, Y!memoryVars
<1>0. text \in [Y!Item -> 0..Y!Local] /\ edition \in [Y!Item -> Nat]
  BY DEF RowsOK
<1>1. CASE UNCHANGED text
  BY <1>1
<1>2. ASSUME NEW r \in Y!Scan, Y!Page(r) PROVE FALSE
  <2>0. PICK k \in Y!Item : k = sent[r].at
    BY <1>2, PageFacts
  <2>1. i = k
    BY <1>2, <2>0, PageFacts
  <2>2. item[k].applied # edition[k] /\ item[k].state # "none"
    <3>1. Y!Local # 0
      BY DEF Y!Local, Y!ConstantAssumption
    <3> QED
      BY <2>1, <3>1 DEF HeldInv
  <2>3. Y!Upsert(r, k, sent[r].revision) => text' = text
    BY <2>2 DEF Y!Upsert, Y!Touched
  <2> QED
    BY <1>2, <2>0, <2>1, <2>3, PageFacts
<1>3. ASSUME People PROVE review = [item |-> i, version |-> edition[i], proposal |-> text'[i]]
  <2>1. PICK k \in Discussed : Y!Edit(k) \/ Y!ForgetItem(k) \/ Y!LookAt(k) \/ \E accept \in BOOLEAN : Y!Resolve(k, accept)
    BY <1>3 DEF People
  <2>2. ~Y!Edit(k)
    BY <1>0 DEF Y!Edit
  <2>3. ~Y!ForgetItem(k) /\ ~Y!LookAt(k)
    BY DEF Y!ForgetItem, Y!LookAt
  <2>4. PICK accept \in BOOLEAN : Y!Resolve(k, accept)
    BY <2>1, <2>2, <2>3
  <2>5. /\ i = k /\ text'[i] = offered[i]
        /\ review.item = i /\ review.version = edition[i] /\ review.proposal = offered[i]
    <3>1. accept /\ text' = [text EXCEPT ![k] = offered[k]]
      BY <2>4 DEF Y!Resolve
    <3>2. i = k
      BY <1>0, <3>1
    <3> QED
      BY <1>0, <2>4, <3>1, <3>2 DEF Y!Resolve, Y!AsSeen
  <2>6. review \in [item : 0..LastItem, version : Nat, proposal : 0..LastSourceRevision]
    BY DEF RowsOK
  <2> QED
    BY <2>5, <2>6
<1> QED
  <2>1. (\E k \in Y!Item : Y!SourceChanges(k)) => UNCHANGED text
    BY DEF Y!SourceChanges
  <2>2. Weather => UNCHANGED text
    BY WeatherFacts
  <2>3. (\E r \in Y!Scan : Y!Begin(r) \/ Y!Finish(r) \/ Y!AskFinish(r) \/ \E k \in Y!Item : Y!Read(r, k)) => UNCHANGED text
    BY BeginFacts, RequestFacts, FinishFacts
  <2> QED
    BY <1>1, <1>2, <1>3, <2>1, <2>2, <2>3, SyncCases

LEMMA InventoryStep ==
  ASSUME Y!ConstantAssumption, SyncInv, [Y!Next]_Y!vars
  PROVE  [/\ \A i \in Y!Item : gone[i] = "none" /\ gone'[i] = "removed" => i \in moved \/ ~source[i].present
          /\ \A r \in Y!Scan : runs[r].state # "completed" /\ runs'[r].state = "completed" /\ ~skipping[r] =>
                \A i \in Y!Item \ moved :
                   IF source[i].present THEN item'[i].state # "none" /\ item'[i].revision = source[i].revision
                   ELSE item'[i].state \in {"none", "deleted"}]_Y!vars
BY RemovedWithReason, CompletedIsExact

LEMMA PeopleStep ==
  ASSUME Y!ConstantAssumption, SyncInv, [Y!Next]_Y!vars
  PROVE  [\A i \in Y!Item : text[i] = Y!Local /\ text'[i] # Y!Local =>
             review = [item |-> i, version |-> edition[i], proposal |-> text'[i]]]_Y!vars
BY ReplacedByDecision

(***************************************************************************)
(* Dispatch: a tenant loses a bounded number of turns to the others.       *)
(***************************************************************************)

\* A place in the order for everybody, and one for each.
Ranks(order, n) == order \in [1..n -> 1..n] /\ \A x, y \in 1..n : order[x] = order[y] => x = y

\* The turns of t that worker w may still take before one of o: t is before o in
\* the order or in the snapshot of w, or w has passed o and serves t.
MayPass(w, t, o) ==
    \/ tenantOrder[t] < tenantOrder[o]
    \/ /\ t \in DOMAIN seenOrder[w]
       /\ o \in DOMAIN seenOrder[w] => seenOrder[w][t] <= seenOrder[w][o]
    \/ t \in locked[w] /\ o \in passes[w]

PassesLeft(o) == {p \in DispatchWorker \X (D!Tenant \ {o}) : MayPass(p[1], p[2], o)}

DispatchInv ==
    /\ D!TypeOK
    /\ Ranks(tenantOrder, LastTenant)
    /\ \A t \in D!Tenant : Ranks(spaceOrder[t], LastSpace)
    /\ \A w \in DispatchWorker : locked[w] # {} => DOMAIN seenOrder[w] = {}
    /\ \A t \in D!Tenant : ~D!DueTenant(t) => overtaken[t] = 0
    /\ \A t \in D!Tenant : overtaken[t] + Cardinality(PassesLeft(t)) <= (LastTenant - 1) * Cardinality(DispatchWorker)
    /\ \A t \in D!Tenant, n \in D!SpaceNo : spaceOvertaken[<<t, n>>] + spaceOrder[t][n] <= LastSpace

\* The first of a set that is not empty.
LEMMA FirstFacts ==
  ASSUME NEW S, NEW order, S # {}, \A x \in S : order[x] \in Nat
  PROVE  D!First(order, S) \in S /\ \A y \in S : order[D!First(order, S)] <= order[y]
<1> DEFINE V == {order[x] : x \in S}
<1>1. V \in SUBSET Nat /\ V # {}
  OBVIOUS
<1>2. PICK v \in V : \A u \in V : ~(<<u, v>> \in OpToRel(<, Nat))
  BY <1>1, NatLessThanWellFounded, WFMin
<1>3. \A u \in V : ~(u < v)
  BY <1>1, <1>2, Zenon DEF OpToRel
<1>4. PICK x \in S : order[x] = v
  BY <1>2
<1>5. \A y \in S : order[x] <= order[y]
  <2>1. \A y \in S : order[y] \in V /\ order[y] \in Nat /\ v \in Nat
    BY <1>1
  <2> HIDE DEF V
  <2> QED
    BY <1>3, <1>4, <2>1
<1> QED
  BY <1>5 DEF D!First

\* Who is served goes to the end; the others keep their order.
LEMMA ServedFacts ==
  ASSUME NEW n \in Nat \ {0}, NEW order, Ranks(order, n), NEW x \in 1..n
  PROVE  LET next == D!Served(order, x, n) IN
         /\ Ranks(next, n) /\ next[x] = n
         /\ \A y \in 1..n : y # x => next[y] < n /\ next[y] <= order[y] /\ (order[x] < order[y] => next[y] < order[y])
         /\ \A y, z \in 1..n : y # x /\ z # x /\ next[y] < next[z] => order[y] < order[z]
<1> DEFINE next == D!Served(order, x, n)
<1>1. \A y \in 1..n : order[y] \in 1..n
  BY DEF Ranks
<1>2. next = [y \in 1..n |-> IF y = x THEN n ELSE IF order[y] > order[x] THEN order[y] - 1 ELSE order[y]]
  BY DEF D!Served, Ranks
<1> HIDE DEF next
<1>3. next[x] = n
  BY <1>2
<1>4. ASSUME NEW y \in 1..n, y # x
      PROVE  /\ next[y] \in 1..n /\ next[y] < n /\ next[y] <= order[y]
             /\ order[x] < order[y] => next[y] < order[y]
             /\ next[y] = IF order[y] > order[x] THEN order[y] - 1 ELSE order[y]
  <2>1. order[y] # order[x]
    BY <1>4 DEF Ranks
  <2> QED
    BY <1>1, <1>2, <1>4, <2>1
<1>5. ASSUME NEW y \in 1..n, NEW z \in 1..n, y # x, z # x
      PROVE  /\ next[y] < next[z] => order[y] < order[z]
             /\ next[y] = next[z] => y = z
  <2>1. order[y] # order[x] /\ order[z] # order[x] /\ (order[y] = order[z] => y = z)
    BY <1>5 DEF Ranks
  <2> QED
    BY <1>1, <1>4, <1>5, <2>1
<1>6. Ranks(next, n)
  <2>1. next \in [1..n -> 1..n]
    BY <1>2, <1>3, <1>4
  <2>2. \A y, z \in 1..n : next[y] = next[z] => y = z
    BY <1>3, <1>4, <1>5
  <2> QED
    BY <2>1, <2>2 DEF Ranks
<1> QED
  BY <1>3, <1>4, <1>5, <1>6 DEF next

\* Dispatch counts with the operators of this module.
LEMMA SameCounts == \A S : (D!IsFiniteSet(S) <=> IsFiniteSet(S)) /\ D!Cardinality(S) = Cardinality(S)
BY DEF D!IsFiniteSet, IsFiniteSet, D!Cardinality, Cardinality

LEMMA PassesBounded ==
  ASSUME D!ConstantAssumption, NEW o \in D!Tenant, NEW P \in SUBSET (DispatchWorker \X (D!Tenant \ {o}))
  PROVE  /\ IsFiniteSet(P) /\ Cardinality(P) \in Nat
         /\ Cardinality(P) <= (LastTenant - 1) * Cardinality(DispatchWorker)
         /\ (LastTenant - 1) * Cardinality(DispatchWorker) \in Nat
<1>1. LastTenant \in Nat \ {0} /\ IsFiniteSet(DispatchWorker)
  BY SameCounts DEF D!ConstantAssumption
<1>2. IsFiniteSet(D!Tenant) /\ Cardinality(D!Tenant) = LastTenant
  BY <1>1, FS_Interval DEF D!Tenant
<1>3. IsFiniteSet(D!Tenant \ {o}) /\ Cardinality(D!Tenant \ {o}) = LastTenant - 1
  BY <1>2, FS_RemoveElement
<1>4. /\ IsFiniteSet(DispatchWorker \X (D!Tenant \ {o}))
      /\ Cardinality(DispatchWorker \X (D!Tenant \ {o})) = Cardinality(DispatchWorker) * Cardinality(D!Tenant \ {o})
  BY <1>1, <1>3, FS_Product
<1>5. Cardinality(DispatchWorker) \in Nat
  BY <1>1, FS_CardinalityType
<1>6. IsFiniteSet(P) /\ Cardinality(P) <= Cardinality(DispatchWorker \X (D!Tenant \ {o}))
  BY <1>4, FS_Subset
<1>7. Cardinality(P) \in Nat
  BY <1>6, FS_CardinalityType
<1>8. Cardinality(DispatchWorker) * (LastTenant - 1) = (LastTenant - 1) * Cardinality(DispatchWorker)
  BY <1>1, <1>5
<1>9. (LastTenant - 1) * Cardinality(DispatchWorker) \in Nat
  BY <1>1, <1>5
<1> QED
  BY <1>3, <1>4, <1>6, <1>7, <1>8, <1>9

\* A step takes one of the turns left, or adds none.
LEMMA TurnTaken ==
  ASSUME D!ConstantAssumption, DispatchInv, NEW o \in D!Tenant, overtaken'[o] \in Nat,
         \/ overtaken'[o] = 0
         \/ overtaken'[o] <= overtaken[o] /\ PassesLeft(o)' \subseteq PassesLeft(o)
         \/ /\ overtaken'[o] = overtaken[o] + 1
            /\ \E p \in PassesLeft(o) : PassesLeft(o)' \subseteq PassesLeft(o) \ {p}
  PROVE  overtaken'[o] + Cardinality(PassesLeft(o)') <= (LastTenant - 1) * Cardinality(DispatchWorker)
<1>0. PICK bound : bound = (LastTenant - 1) * Cardinality(DispatchWorker)
  OBVIOUS
<1>00. PICK remaining, next : remaining = Cardinality(PassesLeft(o)) /\ next = Cardinality(PassesLeft(o)')
  OBVIOUS
<1> SUFFICES overtaken'[o] + next <= bound
  BY <1>0, <1>00
<1>1. IsFiniteSet(PassesLeft(o)) /\ remaining \in Nat /\ bound \in Nat
  <2>1. PassesLeft(o) \in SUBSET (DispatchWorker \X (D!Tenant \ {o}))
    BY DEF PassesLeft
  <2> QED
    BY <1>0, <1>00, <2>1, PassesBounded
<1>2. next \in Nat /\ next <= bound
  <2>1. PassesLeft(o)' \in SUBSET (DispatchWorker \X (D!Tenant \ {o}))
    BY DEF PassesLeft
  <2> QED
    BY <1>0, <1>00, <2>1, PassesBounded
<1>3. overtaken[o] + remaining <= bound /\ overtaken[o] \in Nat
  BY <1>0, <1>00 DEF DispatchInv, D!TypeOK
<1>4. CASE overtaken'[o] = 0
  BY <1>1, <1>2, <1>4
<1>5. CASE overtaken'[o] <= overtaken[o] /\ PassesLeft(o)' \subseteq PassesLeft(o)
  <2>1. next <= remaining
    BY <1>00, <1>1, <1>5, FS_Subset
  <2> QED
    BY <1>1, <1>2, <1>3, <1>5, <2>1
<1>6. ASSUME overtaken'[o] = overtaken[o] + 1, NEW p \in PassesLeft(o), PassesLeft(o)' \subseteq PassesLeft(o) \ {p}
      PROVE  overtaken'[o] + next <= bound
  <2>1. IsFiniteSet(PassesLeft(o) \ {p}) /\ Cardinality(PassesLeft(o) \ {p}) = remaining - 1
    BY <1>00, <1>1, <1>6, FS_RemoveElement
  <2>2. next <= remaining - 1
    BY <1>00, <1>6, <2>1, FS_Subset
  <2> QED
    BY <1>1, <1>2, <1>3, <1>6, <2>2
<1> QED
  BY <1>4, <1>5, <1>6

\* A claim that took no turn, and the steps of everybody else, add no turn.
LEMMA TurnsKept ==
  ASSUME DispatchInv, UNCHANGED <<tenantOrder, overtaken>>, NEW o \in D!Tenant, D!DueTenant(o),
         \A w \in DispatchWorker : seenOrder'[w] = seenOrder[w] \/ DOMAIN seenOrder'[w] = {},
         \A w \in DispatchWorker : (locked'[w] = locked[w] /\ passes'[w] = passes[w]) \/ locked'[w] = {}
  PROVE  PassesLeft(o)' \subseteq PassesLeft(o)
BY DEF PassesLeft, MayPass

LEMMA DispatchTypes == ASSUME D!ConstantAssumption, DispatchInv, D!Next PROVE D!TypeOK'
<1> USE DEF D!TypeOK, D!turnVars, D!claimVars
<1> DEFINE Snapshots == UNION {[S -> D!Tenant] : S \in SUBSET D!Tenant}
<1>0. /\ D!TypeOK /\ LastTenant \in Nat \ {0} /\ LastSpace \in Nat \ {0}
      /\ \A t \in D!Tenant : Ranks(spaceOrder[t], LastSpace)
      /\ D!NoTenants \in Snapshots /\ D!SpaceNo = 1..LastSpace /\ D!Tenant = 1..LastTenant
  <2>1. D!NoTenants \in [{} -> D!Tenant]
    BY DEF D!NoTenants
  <2> QED
    BY <2>1 DEF DispatchInv, D!ConstantAssumption, D!SpaceNo, D!Tenant
<1>00. overtaken \in [D!Tenant -> Nat] /\ spaceOvertaken \in [D!Space -> Nat]
  BY <1>0
<1>01. \A t \in D!Tenant, x \in D!SpaceNo : spaceOrder[t][x] \in Nat
  <2>1. \A t \in D!Tenant : spaceOrder[t] \in [1..LastSpace -> 1..LastSpace]
    BY <1>0 DEF Ranks
  <2>2. D!SpaceNo = 1..LastSpace /\ LastSpace \in Nat
    BY <1>0
  <2> HIDE DEF D!TypeOK
  <2> QED
    BY <2>1, <2>2
<1>1. ASSUME NEW s \in D!Space, D!JobDue(s) \/ D!JobGone(s) \/ D!Write(s) PROVE D!TypeOK'
  <2>1. due' \subseteq D!Space /\ writing' \subseteq D!Space
    BY <1>0, <1>1 DEF D!JobDue, D!JobGone, D!Write
  <2>2. overtaken' \in [D!Tenant -> Nat] /\ spaceOvertaken' \in [D!Space -> Nat]
    <3> HIDE DEF D!TypeOK
    <3>1. CASE UNCHANGED <<overtaken, spaceOvertaken>>
      BY <1>00, <3>1
    <3>2. CASE D!Waited(due \ {s})
      BY <1>00, <3>2 DEF D!Waited
    <3> QED
      BY <1>1, <3>1, <3>2 DEF D!JobDue, D!JobGone, D!Write
  <2>3. UNCHANGED <<tenantOrder, spaceOrder, D!claimVars>>
    BY <1>1 DEF D!JobDue, D!JobGone, D!Write
  <2> HIDE DEF Snapshots
  <2> QED
    BY <1>0, <2>1, <2>2, <2>3 DEF Snapshots
<1>2. CASE D!WriteEnds
  BY <1>0, <1>2 DEF D!WriteEnds
<1>3. ASSUME NEW w \in DispatchWorker, D!Look(w) PROVE D!TypeOK'
  <2>1. [t \in {t \in D!Tenant : D!DueTenant(t)} |-> tenantOrder[t]] \in Snapshots
    <3> DEFINE S == {t \in D!Tenant : D!DueTenant(t)}
    <3>1. S \in SUBSET D!Tenant /\ [t \in S |-> tenantOrder[t]] \in [S -> D!Tenant]
      BY <1>0
    <3> QED
      BY <3>1
  <2> HIDE DEF Snapshots
  <2>2. seenOrder' \in [DispatchWorker -> Snapshots]
    BY <1>0, <1>3, <2>1 DEF D!Look, Snapshots
  <2> QED
    BY <1>0, <1>3, <2>2 DEF D!Look, Snapshots
<1>4. ASSUME NEW w \in DispatchWorker, D!LockTenant(w) PROVE D!TypeOK'
  <2> DEFINE free == {t \in D!Tenant : D!Available(t)}
             stale == DOMAIN seenOrder[w]
             t == D!First(seenOrder[w], stale \cap free)
  <2>1. /\ seenOrder' = [seenOrder EXCEPT ![w] = D!NoTenants]
        /\ \/ UNCHANGED <<locked, passes>>
           \/ /\ stale \cap free # {} /\ locked' = [locked EXCEPT ![w] = {t}]
              /\ passes' = [passes EXCEPT ![w] = {o \in free \ {t} : D!Takeable(o) # {}}]
        /\ UNCHANGED <<D!turnVars, due, writing>>
    BY <1>4 DEF D!LockTenant
  <2>2. stale \cap free # {} => t \in D!Tenant
    <3>1. \A x \in stale \cap free : seenOrder[w][x] \in Nat /\ x \in D!Tenant
      BY <1>0
    <3> HIDE DEF stale
    <3> QED
      BY <3>1, FirstFacts
  <2>3. \A o \in free \ {t} : o \in D!Tenant
    OBVIOUS
  <2> HIDE DEF free, stale, t, Snapshots
  <2>4. seenOrder' \in [DispatchWorker -> Snapshots]
    BY <1>0, <2>1 DEF Snapshots
  <2>5. locked' \in [DispatchWorker -> SUBSET D!Tenant] /\ passes' \in [DispatchWorker -> SUBSET D!Tenant]
    <3>1. {o \in free \ {t} : D!Takeable(o) # {}} \in SUBSET D!Tenant
      BY <2>3
    <3>2. CASE UNCHANGED <<locked, passes>>
      BY <1>0, <3>2
    <3>3. CASE /\ t \in D!Tenant /\ locked' = [locked EXCEPT ![w] = {t}]
               /\ passes' = [passes EXCEPT ![w] = {o \in free \ {t} : D!Takeable(o) # {}}]
      BY <1>0, <3>1, <3>3
    <3> QED
      BY <2>1, <2>2, <3>2, <3>3
  <2> QED
    BY <1>0, <2>1, <2>4, <2>5 DEF Snapshots
<1>5. ASSUME NEW w \in DispatchWorker, NEW t \in D!Tenant, D!Dispatched(w, t) PROVE D!TypeOK'
  <2>1. PICK n \in D!SpaceNo :
          /\ due' = due \ {<<t, n>>}
          /\ tenantOrder' = D!Served(tenantOrder, t, LastTenant)
          /\ spaceOrder' = [spaceOrder EXCEPT ![t] = D!Served(spaceOrder[t], n, LastSpace)]
          /\ D!Passed(w, t, n)
    <3>1. D!Takeable(t) \subseteq D!SpaceNo /\ D!Takeable(t) # {} /\ \A x \in D!SpaceNo : spaceOrder[t][x] \in Nat
      <4>1. D!Takeable(t) # {} /\ D!Takeable(t) \subseteq D!SpaceNo
        BY <1>5 DEF D!Dispatched, D!Takeable
      <4> QED
        BY <1>01, <4>1
    <3>2. D!NextSpace(t) \in D!SpaceNo
      BY <3>1, FirstFacts DEF D!NextSpace
    <3> QED
      BY <1>5, <3>2 DEF D!Dispatched
  <2>2. D!Served(tenantOrder, t, LastTenant) \in [D!Tenant -> D!Tenant]
    <3>1. Ranks(D!Served(tenantOrder, t, LastTenant), LastTenant)
      BY <1>0, ServedFacts DEF DispatchInv
    <3> QED
      BY <1>0, <3>1 DEF Ranks
  <2>3. D!Served(spaceOrder[t], n, LastSpace) \in [D!SpaceNo -> D!SpaceNo]
    <3>1. Ranks(D!Served(spaceOrder[t], n, LastSpace), LastSpace)
      BY <1>0, ServedFacts
    <3> QED
      BY <1>0, <3>1 DEF Ranks
  <2>4. tenantOrder' \in [D!Tenant -> D!Tenant] /\ spaceOrder' \in [D!Tenant -> [D!SpaceNo -> D!SpaceNo]]
    BY <1>0, <2>1, <2>2, <2>3
  <2>5. overtaken' \in [D!Tenant -> Nat] /\ spaceOvertaken' \in [D!Space -> Nat]
    <3>1. \A o \in D!Tenant : overtaken[o] \in Nat /\ overtaken[o] + 1 \in Nat
      <4> HIDE DEF D!TypeOK
      <4> QED
        BY <1>00
    <3>2. \A s \in D!Space : spaceOvertaken[s] \in Nat /\ spaceOvertaken[s] + 1 \in Nat
      <4> HIDE DEF D!TypeOK
      <4> QED
        BY <1>00
    <3>3. overtaken' \in [D!Tenant -> Nat]
      BY <2>1, <3>1 DEF D!Passed
    <3>4. spaceOvertaken' \in [D!Space -> Nat]
      BY <2>1, <3>2 DEF D!Passed
    <3> QED
      BY <3>3, <3>4
  <2>6. /\ locked' = [locked EXCEPT ![w] = {}] /\ passes' = [passes EXCEPT ![w] = {}]
        /\ UNCHANGED <<writing, seenOrder>>
    BY <1>5 DEF D!Dispatched
  <2> QED
    BY <1>0, <2>1, <2>4, <2>5, <2>6
<1>6. ASSUME NEW w \in DispatchWorker, NEW t \in D!Tenant, D!EmptyHanded(w, t) PROVE D!TypeOK'
  BY <1>0, <1>6 DEF D!EmptyHanded
<1>7. ASSUME NEW w \in DispatchWorker, D!ClaimFails(w) PROVE D!TypeOK'
  BY <1>0, <1>7 DEF D!ClaimFails
<1> QED
  BY <1>1, <1>2, <1>3, <1>4, <1>5, <1>6, <1>7 DEF D!Next, D!Claims

\* The places of spaces, and what snapshots hold, are numbers.
LEMMA PlacesTyped ==
  ASSUME D!ConstantAssumption, DispatchInv
  PROVE  /\ \A t \in D!Tenant : \A n \in D!SpaceNo : spaceOrder[t][n] \in 1..LastSpace /\ spaceOrder[t][n] \in Nat
         /\ \A t \in D!Tenant : \A n \in D!SpaceNo : <<t, n>> \in D!Space /\ spaceOvertaken[<<t, n>>] \in Nat
         /\ \A w \in DispatchWorker : \A t \in DOMAIN seenOrder[w] : t \in D!Tenant /\ seenOrder[w][t] \in Nat
<1>1. \A t \in D!Tenant : spaceOrder[t] \in [1..LastSpace -> 1..LastSpace]
  BY DEF DispatchInv, Ranks
<1>2. ASSUME NEW t \in D!Tenant, NEW n \in D!SpaceNo
      PROVE  spaceOrder[t][n] \in 1..LastSpace /\ spaceOrder[t][n] \in Nat
  <2>1. PICK order \in [1..LastSpace -> 1..LastSpace] : order = spaceOrder[t]
    BY <1>1
  <2>2. order[n] \in 1..LastSpace
    BY DEF D!SpaceNo
  <2> QED
    BY <2>1, <2>2
<1>3. \A t \in D!Tenant : \A n \in D!SpaceNo : <<t, n>> \in D!Space /\ spaceOvertaken[<<t, n>>] \in Nat
  <2>1. spaceOvertaken \in [D!Space -> Nat]
    BY DEF DispatchInv, D!TypeOK
  <2> QED
    BY <2>1 DEF D!Space
<1>4. ASSUME NEW w \in DispatchWorker, NEW t \in DOMAIN seenOrder[w]
      PROVE  t \in D!Tenant /\ seenOrder[w][t] \in Nat
  <2>1. seenOrder[w] \in UNION {[S -> D!Tenant] : S \in SUBSET D!Tenant}
    BY DEF DispatchInv, D!TypeOK
  <2>2. PICK S \in SUBSET D!Tenant : seenOrder[w] \in [S -> D!Tenant]
    BY <2>1
  <2>3. t \in D!Tenant /\ seenOrder[w][t] \in D!Tenant
    BY <2>2
  <2> QED
    BY <2>3 DEF D!Tenant
<1> QED
  BY <1>2, <1>3, <1>4

\* A dispatch serves the first space that can be taken.
LEMMA DispatchedFacts ==
  ASSUME D!ConstantAssumption, DispatchInv, NEW w \in DispatchWorker, NEW t \in D!Tenant, D!Dispatched(w, t)
  PROVE  \E n \in D!SpaceNo :
           /\ n \in D!Takeable(t) /\ \A m \in D!Takeable(t) : spaceOrder[t][n] <= spaceOrder[t][m]
           /\ due' = due \ {<<t, n>>}
           /\ tenantOrder' = D!Served(tenantOrder, t, LastTenant)
           /\ spaceOrder' = [spaceOrder EXCEPT ![t] = D!Served(spaceOrder[t], n, LastSpace)]
           /\ D!Passed(w, t, n)
<1>1. D!Takeable(t) # {} /\ D!Takeable(t) \subseteq D!SpaceNo
  BY DEF D!Dispatched, D!Takeable
<1>2. \A x \in D!SpaceNo : spaceOrder[t][x] \in Nat
  BY PlacesTyped
<1>3. \A x \in D!Takeable(t) : spaceOrder[t][x] \in Nat
  BY <1>1, <1>2
<1>4. D!NextSpace(t) \in D!Takeable(t) /\ \A m \in D!Takeable(t) : spaceOrder[t][D!NextSpace(t)] <= spaceOrder[t][m]
  BY <1>1, <1>3, FirstFacts DEF D!NextSpace
<1> QED
  BY <1>1, <1>4 DEF D!Dispatched

LEMMA OrdersStep ==
  ASSUME D!ConstantAssumption, DispatchInv, D!Next
  PROVE  Ranks(tenantOrder', LastTenant) /\ \A t \in D!Tenant : Ranks(spaceOrder'[t], LastSpace)
<1>0. /\ Ranks(tenantOrder, LastTenant) /\ \A t \in D!Tenant : Ranks(spaceOrder[t], LastSpace)
      /\ spaceOrder \in [D!Tenant -> [D!SpaceNo -> D!SpaceNo]]
      /\ LastTenant \in Nat \ {0} /\ LastSpace \in Nat \ {0} /\ D!SpaceNo = 1..LastSpace /\ D!Tenant = 1..LastTenant
  BY DEF DispatchInv, D!TypeOK, D!ConstantAssumption, D!SpaceNo, D!Tenant
<1>1. CASE UNCHANGED <<tenantOrder, spaceOrder>>
  BY <1>0, <1>1
<1>2. ASSUME NEW w \in DispatchWorker, NEW t \in D!Tenant, D!Dispatched(w, t)
      PROVE  Ranks(tenantOrder', LastTenant) /\ \A u \in D!Tenant : Ranks(spaceOrder'[u], LastSpace)
  <2>1. PICK n \in D!SpaceNo :
          /\ tenantOrder' = D!Served(tenantOrder, t, LastTenant)
          /\ spaceOrder' = [spaceOrder EXCEPT ![t] = D!Served(spaceOrder[t], n, LastSpace)]
    BY <1>2, DispatchedFacts
  <2>2. Ranks(D!Served(tenantOrder, t, LastTenant), LastTenant)
    BY <1>0, ServedFacts
  <2>3. Ranks(D!Served(spaceOrder[t], n, LastSpace), LastSpace)
    BY <1>0, ServedFacts
  <2> QED
    BY <1>0, <2>1, <2>2, <2>3
<1> QED
  BY <1>1, <1>2 DEF D!Next, D!Claims, D!JobDue, D!JobGone, D!Write, D!WriteEnds, D!Look,
         D!LockTenant, D!EmptyHanded, D!ClaimFails,
     D!turnVars

LEMMA ClaimsStep ==
  ASSUME D!ConstantAssumption, DispatchInv, D!Next
  PROVE  /\ \A w \in DispatchWorker : locked'[w] # {} => DOMAIN seenOrder'[w] = {}
         /\ \A t \in D!Tenant : ~D!DueTenant(t)' => overtaken'[t] = 0
<1>0. /\ \A w \in DispatchWorker : locked[w] # {} => DOMAIN seenOrder[w] = {}
      /\ \A t \in D!Tenant : ~D!DueTenant(t) => overtaken[t] = 0
      /\ DOMAIN seenOrder = DispatchWorker /\ DOMAIN locked = DispatchWorker
      /\ DOMAIN D!NoTenants = {}
  BY DEF DispatchInv, D!TypeOK, D!NoTenants
<1>1. \A w \in DispatchWorker : locked'[w] # {} => DOMAIN seenOrder'[w] = {}
  <2>1. CASE UNCHANGED D!claimVars
    BY <1>0, <2>1 DEF D!claimVars
  <2>2. ASSUME NEW w \in DispatchWorker, D!Claims(w) \/ D!ClaimFails(w)
        PROVE  \A v \in DispatchWorker : locked'[v] # {} => DOMAIN seenOrder'[v] = {}
    <3>1. CASE D!Look(w)
      BY <1>0, <3>1 DEF D!Look, D!Idle
    <3>2. CASE D!LockTenant(w)
      BY <1>0, <3>2 DEF D!LockTenant
    <3>3. CASE D!ClaimFails(w) \/ \E t \in D!Tenant : D!Dispatched(w, t) \/ D!EmptyHanded(w, t)
      BY <1>0, <3>3 DEF D!ClaimFails, D!Dispatched, D!EmptyHanded
    <3> QED
      BY <2>2, <3>1, <3>2, <3>3 DEF D!Claims
  <2> QED
    BY <2>1, <2>2 DEF D!Next, D!JobDue, D!JobGone, D!Write, D!WriteEnds
<1>2. \A t \in D!Tenant : ~D!DueTenant(t)' => overtaken'[t] = 0
  <2>1. CASE due \subseteq due' /\ UNCHANGED overtaken
    BY <1>0, <2>1 DEF D!DueTenant
  <2>2. ASSUME NEW s \in D!Space, D!JobGone(s) PROVE \A t \in D!Tenant : ~D!DueTenant(t)' => overtaken'[t] = 0
    BY <2>2 DEF D!JobGone, D!Waited, D!DueTenant
  <2>3. ASSUME NEW w \in DispatchWorker, NEW u \in D!Tenant, D!Dispatched(w, u)
        PROVE  \A t \in D!Tenant : ~D!DueTenant(t)' => overtaken'[t] = 0
    <3>1. PICK n \in D!SpaceNo : due' = due \ {<<u, n>>} /\ D!Passed(w, u, n)
      BY <2>3, DispatchedFacts
    <3>2. \A t \in D!Tenant : t # u /\ ~D!DueTenant(t)' => ~D!DueTenant(t)
      BY <3>1 DEF D!DueTenant
    <3> QED
      BY <3>1, <3>2 DEF D!Passed
  <2> QED
    BY <2>1, <2>2, <2>3
    DEF D!Next, D!Claims, D!JobDue, D!Write, D!WriteEnds, D!Look, D!LockTenant, D!EmptyHanded, D!ClaimFails, D!turnVars
<1> QED
  BY <1>1, <1>2

LEMMA SpacesStep ==
  ASSUME D!ConstantAssumption, DispatchInv, D!Next
  PROVE  \A t \in D!Tenant, n \in D!SpaceNo : spaceOvertaken'[<<t, n>>] + spaceOrder'[t][n] <= LastSpace
<1>00. /\ \A t \in D!Tenant, n \in D!SpaceNo : spaceOvertaken[<<t, n>>] + spaceOrder[t][n] <= LastSpace
       /\ LastSpace \in Nat \ {0} /\ D!SpaceNo = 1..LastSpace
       /\ spaceOrder \in [D!Tenant -> [D!SpaceNo -> D!SpaceNo]]
  BY DEF DispatchInv, D!TypeOK, D!ConstantAssumption, D!SpaceNo
<1>0. /\ \A t \in D!Tenant, n \in D!SpaceNo : spaceOvertaken[<<t, n>>] + spaceOrder[t][n] <= LastSpace
      /\ \A t \in D!Tenant, n \in D!SpaceNo : spaceOvertaken[<<t, n>>] \in Nat /\ spaceOrder[t][n] \in Nat
      /\ LastSpace \in Nat \ {0} /\ D!SpaceNo = 1..LastSpace
      /\ \A t \in D!Tenant, n \in D!SpaceNo : <<t, n>> \in D!Space
      /\ spaceOrder \in [D!Tenant -> [D!SpaceNo -> D!SpaceNo]]
  BY <1>00, PlacesTyped
<1>1. CASE UNCHANGED <<spaceOrder, spaceOvertaken>>
  BY <1>0, <1>1
<1>2. ASSUME UNCHANGED spaceOrder, NEW s \in D!Space, D!Waited(due \ {s})
      PROVE  \A t \in D!Tenant, n \in D!SpaceNo : spaceOvertaken'[<<t, n>>] + spaceOrder'[t][n] <= LastSpace
  <2> SUFFICES ASSUME NEW t \in D!Tenant, NEW n \in D!SpaceNo
               PROVE  spaceOvertaken'[<<t, n>>] + spaceOrder'[t][n] <= LastSpace
    OBVIOUS
  <2>1. spaceOvertaken'[<<t, n>>] \in {0, spaceOvertaken[<<t, n>>]}
    BY <1>0, <1>2 DEF D!Waited
  <2>2. /\ spaceOvertaken[<<t, n>>] + spaceOrder[t][n] <= LastSpace /\ spaceOrder[t][n] \in Nat
        /\ spaceOvertaken[<<t, n>>] \in Nat /\ spaceOrder'[t][n] = spaceOrder[t][n] /\ LastSpace \in Nat
    BY <1>0, <1>2
  <2> QED
    BY <2>1, <2>2
<1>3. ASSUME NEW w \in DispatchWorker, NEW t \in D!Tenant, D!Dispatched(w, t), NEW u \in D!Tenant, NEW m \in D!SpaceNo
      PROVE  spaceOvertaken'[<<u, m>>] + spaceOrder'[u][m] <= LastSpace
  <2>1. PICK n \in D!SpaceNo :
          /\ n \in D!Takeable(t) /\ \A x \in D!Takeable(t) : spaceOrder[t][n] <= spaceOrder[t][x]
          /\ spaceOrder' = [spaceOrder EXCEPT ![t] = D!Served(spaceOrder[t], n, LastSpace)]
          /\ D!Passed(w, t, n)
    BY <1>3, DispatchedFacts
  <2>2. spaceOvertaken'[<<u, m>>] =
          IF u = t /\ m = n THEN 0
          ELSE IF u = t /\ <<u, m>> \in due \ writing THEN spaceOvertaken[<<u, m>>] + 1 ELSE spaceOvertaken[<<u, m>>]
    BY <1>0, <2>1 DEF D!Passed
  <2>3. CASE u # t
    BY <1>0, <2>1, <2>2, <2>3
  <2>4. CASE u = t
    <3> DEFINE next == D!Served(spaceOrder[t], n, LastSpace)
    <3>1. Ranks(spaceOrder[t], LastSpace)
      BY DEF DispatchInv
    <3>2. /\ Ranks(next, LastSpace) /\ next[n] = LastSpace
          /\ m # n => next[m] < LastSpace /\ next[m] <= spaceOrder[t][m]
                      /\ (spaceOrder[t][n] < spaceOrder[t][m] => next[m] < spaceOrder[t][m])
      BY <1>0, <3>1, ServedFacts
    <3>3. spaceOrder'[u] = next
      BY <1>0, <2>1, <2>4
    <3>4. next[m] \in Nat
      <4>1. next \in [1..LastSpace -> 1..LastSpace] /\ m \in 1..LastSpace /\ LastSpace \in Nat
        BY <1>0, <3>2 DEF Ranks
      <4> HIDE DEF next
      <4> QED
        BY <4>1
    <3>5. m # n /\ <<u, m>> \in due \ writing => spaceOrder[t][n] < spaceOrder[t][m]
      <4>1. m # n => spaceOrder[t][n] # spaceOrder[t][m]
        BY <1>0, <3>1 DEF Ranks
      <4>2. <<u, m>> \in due \ writing => m \in D!Takeable(t)
        BY <2>4 DEF D!Takeable
      <4>3. spaceOrder[t][n] \in Nat /\ spaceOrder[t][m] \in Nat
        BY <1>0
      <4>4. m \in D!Takeable(t) => spaceOrder[t][n] <= spaceOrder[t][m]
        BY <2>1
      <4> QED
        BY <4>1, <4>2, <4>3, <4>4
    <3>6. /\ spaceOvertaken[<<u, m>>] + spaceOrder[t][m] <= LastSpace /\ spaceOrder[t][m] \in Nat
          /\ spaceOvertaken[<<u, m>>] \in Nat /\ LastSpace \in Nat
      BY <1>0, <2>4
    <3> HIDE DEF next
    <3> QED
      BY <2>2, <2>4, <3>2, <3>3, <3>4, <3>5, <3>6
  <2> QED
    BY <2>3, <2>4
<1> QED
  BY <1>1, <1>2, <1>3
  DEF D!Next, D!Claims, D!JobDue, D!JobGone, D!Write, D!WriteEnds, D!Look, D!LockTenant, D!EmptyHanded, D!ClaimFails, D!turnVars

\* Who is due has only the turns left that were left before; a dispatch that
\* passes it takes one of them.
LEMMA TurnsStep ==
  ASSUME D!ConstantAssumption, DispatchInv, D!Next, D!TypeOK', NEW o \in D!Tenant, D!DueTenant(o), overtaken'[o] # 0
  PROVE  \/ overtaken'[o] <= overtaken[o] /\ PassesLeft(o)' \subseteq PassesLeft(o)
         \/ /\ overtaken'[o] = overtaken[o] + 1
            /\ \E p \in PassesLeft(o) : PassesLeft(o)' \subseteq PassesLeft(o) \ {p}
<1>0. /\ tenantOrder \in [D!Tenant -> D!Tenant] /\ Ranks(tenantOrder, LastTenant) /\ D!Tenant = 1..LastTenant
      /\ LastTenant \in Nat \ {0}
      /\ DOMAIN seenOrder = DispatchWorker /\ DOMAIN locked = DispatchWorker /\ DOMAIN passes = DispatchWorker
      /\ overtaken[o] \in Nat /\ DOMAIN D!NoTenants = {}
      /\ \A w \in DispatchWorker : locked[w] # {} => DOMAIN seenOrder[w] = {}
  BY DEF DispatchInv, D!TypeOK, D!NoTenants, D!Tenant, D!ConstantAssumption
<1>00. \A w \in DispatchWorker : \A t \in DOMAIN seenOrder[w] : t \in D!Tenant /\ seenOrder[w][t] \in Nat
  BY PlacesTyped
<1>1. ASSUME UNCHANGED <<tenantOrder, overtaken>>,
             \A w \in DispatchWorker : seenOrder'[w] = seenOrder[w] \/ DOMAIN seenOrder'[w] = {},
             \A w \in DispatchWorker : (locked'[w] = locked[w] /\ passes'[w] = passes[w]) \/ locked'[w] = {}
      PROVE  overtaken'[o] <= overtaken[o] /\ PassesLeft(o)' \subseteq PassesLeft(o)
  BY <1>0, <1>1, TurnsKept
<1>2. CASE UNCHANGED <<D!turnVars, D!claimVars>>
  BY <1>1, <1>2 DEF D!turnVars, D!claimVars
<1>3. ASSUME NEW s \in D!Space, D!JobGone(s)
      PROVE  overtaken'[o] <= overtaken[o] /\ PassesLeft(o)' \subseteq PassesLeft(o)
  <2>1. overtaken'[o] \in {0, overtaken[o]} /\ UNCHANGED <<tenantOrder, D!claimVars>>
    BY <1>3 DEF D!JobGone, D!Waited
  <2>2. PassesLeft(o)' \subseteq PassesLeft(o)
    BY <2>1 DEF PassesLeft, MayPass, D!claimVars
  <2> QED
    BY <1>0, <2>1, <2>2
<1>4. ASSUME NEW w \in DispatchWorker, D!Look(w)
      PROVE  overtaken'[o] <= overtaken[o] /\ PassesLeft(o)' \subseteq PassesLeft(o)
  <2>1. /\ seenOrder' = [seenOrder EXCEPT ![w] = [t \in {t \in D!Tenant : D!DueTenant(t)} |-> tenantOrder[t]]]
        /\ UNCHANGED <<tenantOrder, overtaken, locked, passes>>
    BY <1>4 DEF D!Look, D!turnVars
  <2>2. ASSUME NEW v \in DispatchWorker, NEW t \in D!Tenant \ {o}, MayPass(v, t, o)' PROVE MayPass(v, t, o)
    <3>1. CASE v # w
      BY <1>0, <2>1, <2>2, <3>1 DEF MayPass
    <3>2. CASE v = w
      <4>1. seenOrder'[w] = [x \in {x \in D!Tenant : D!DueTenant(x)} |-> tenantOrder[x]]
        BY <1>0, <2>1
      <4>2. t \in DOMAIN seenOrder'[w] /\ seenOrder'[w][t] <= seenOrder'[w][o] => tenantOrder[t] < tenantOrder[o]
        <5>1. tenantOrder[t] # tenantOrder[o] /\ tenantOrder[t] \in Nat /\ tenantOrder[o] \in Nat
          BY <1>0 DEF Ranks
        <5> QED
          BY <4>1, <5>1
      <4>3. o \in DOMAIN seenOrder'[w]
        BY <4>1
      <4> QED
        BY <2>1, <2>2, <3>2, <4>2, <4>3 DEF MayPass
    <3> QED
      BY <3>1, <3>2
  <2> QED
    BY <1>0, <2>1, <2>2 DEF PassesLeft
<1>5. ASSUME NEW w \in DispatchWorker, D!LockTenant(w)
      PROVE  overtaken'[o] <= overtaken[o] /\ PassesLeft(o)' \subseteq PassesLeft(o)
  <2> DEFINE free == {t \in D!Tenant : D!Available(t)}
             first == D!First(seenOrder[w], DOMAIN seenOrder[w] \cap free)
  <2>1. /\ seenOrder' = [seenOrder EXCEPT ![w] = D!NoTenants]
        /\ \/ UNCHANGED <<locked, passes>>
           \/ /\ DOMAIN seenOrder[w] \cap free # {} /\ locked' = [locked EXCEPT ![w] = {first}]
              /\ passes' = [passes EXCEPT ![w] = {x \in free \ {first} : D!Takeable(x) # {}}]
        /\ UNCHANGED <<tenantOrder, overtaken>>
    BY <1>5 DEF D!LockTenant, D!turnVars
  <2>2. DOMAIN seenOrder[w] \cap free # {} =>
          /\ first \in DOMAIN seenOrder[w]
          /\ \A x \in DOMAIN seenOrder[w] \cap free : seenOrder[w][first] <= seenOrder[w][x]
    <3>1. \A x \in DOMAIN seenOrder[w] \cap free : seenOrder[w][x] \in Nat
      BY <1>00
    <3> HIDE DEF free
    <3> QED
      BY <3>1, FirstFacts
  <2> HIDE DEF free, first
  <2>3. CASE UNCHANGED <<locked, passes>>
    BY <1>0, <1>1, <2>1, <2>3
  <2>4. ASSUME NEW v \in DispatchWorker, NEW t \in D!Tenant \ {o}, MayPass(v, t, o)',
               DOMAIN seenOrder[w] \cap free # {}, locked' = [locked EXCEPT ![w] = {first}],
               passes' = [passes EXCEPT ![w] = {x \in free \ {first} : D!Takeable(x) # {}}]
        PROVE  MayPass(v, t, o)
    <3>1. CASE v # w
      BY <1>0, <2>1, <2>4, <3>1 DEF MayPass
    <3>2. CASE v = w
      <4>1. DOMAIN seenOrder'[w] = {}
        BY <1>0, <2>1
      <4>2. t \in locked'[w] /\ o \in passes'[w] => t = first /\ o \in free
        BY <1>0, <2>4
      <4> QED
        BY <2>1, <2>2, <2>4, <3>2, <4>1, <4>2 DEF MayPass
    <3> QED
      BY <3>1, <3>2
  <2>5. CASE /\ DOMAIN seenOrder[w] \cap free # {} /\ locked' = [locked EXCEPT ![w] = {first}]
             /\ passes' = [passes EXCEPT ![w] = {x \in free \ {first} : D!Takeable(x) # {}}]
    <3>1. PassesLeft(o)' \subseteq PassesLeft(o)
      BY <2>4, <2>5 DEF PassesLeft
    <3> QED
      BY <1>0, <2>1, <3>1
  <2> QED
    BY <2>1, <2>3, <2>5
<1>6. ASSUME NEW w \in DispatchWorker, NEW t \in D!Tenant, D!Dispatched(w, t)
      PROVE  \/ overtaken'[o] <= overtaken[o] /\ PassesLeft(o)' \subseteq PassesLeft(o)
             \/ /\ overtaken'[o] = overtaken[o] + 1
                /\ \E p \in PassesLeft(o) : PassesLeft(o)' \subseteq PassesLeft(o) \ {p}
  <2>1. PICK n \in D!SpaceNo : tenantOrder' = D!Served(tenantOrder, t, LastTenant) /\ D!Passed(w, t, n)
    BY <1>6, DispatchedFacts
  <2>2. /\ t \in locked[w] /\ locked' = [locked EXCEPT ![w] = {}] /\ passes' = [passes EXCEPT ![w] = {}]
        /\ seenOrder' = seenOrder
    BY <1>6 DEF D!Dispatched
  <2>3. o # t /\ overtaken'[o] = IF o \in passes[w] THEN overtaken[o] + 1 ELSE overtaken[o]
    BY <2>1 DEF D!Passed
  <2>4. /\ tenantOrder'[t] = LastTenant /\ tenantOrder'[o] < LastTenant
        /\ \A x \in D!Tenant : x # t /\ tenantOrder'[x] < tenantOrder'[o] => tenantOrder[x] < tenantOrder[o]
    BY <1>0, <2>1, <2>3, ServedFacts
  <2>5. ~(tenantOrder'[t] < tenantOrder'[o])
    <3>1. tenantOrder'[o] \in Nat
      BY <1>0 DEF D!TypeOK
    <3> QED
      BY <1>0, <2>4, <3>1
  <2>6. PassesLeft(o)' \subseteq PassesLeft(o)
    <3>1. ASSUME NEW v \in DispatchWorker, NEW x \in D!Tenant \ {o}, MayPass(v, x, o)' PROVE MayPass(v, x, o)
      BY <1>0, <2>2, <2>4, <2>5, <3>1 DEF MayPass
    <3> QED
      BY <3>1 DEF PassesLeft
  <2>7. CASE o \notin passes[w]
    BY <1>0, <2>3, <2>6, <2>7
  <2>8. CASE o \in passes[w]
    <3>1. <<w, t>> \in PassesLeft(o)
      BY <2>2, <2>3, <2>8 DEF PassesLeft, MayPass
    <3>2. ~MayPass(w, t, o)'
      BY <1>0, <2>2, <2>5 DEF MayPass
    <3>3. <<w, t>> \notin PassesLeft(o)'
      BY <3>2 DEF PassesLeft
    <3> QED
      BY <2>3, <2>6, <2>8, <3>1, <3>3
  <2> QED
    BY <2>7, <2>8
<1>7. ASSUME NEW w \in DispatchWorker, D!ClaimFails(w) \/ \E t \in D!Tenant : D!EmptyHanded(w, t)
      PROVE  overtaken'[o] <= overtaken[o] /\ PassesLeft(o)' \subseteq PassesLeft(o)
  BY <1>0, <1>1, <1>7 DEF D!ClaimFails, D!EmptyHanded, D!turnVars
<1> QED
  BY <1>2, <1>3, <1>4, <1>5, <1>6, <1>7 DEF D!Next, D!Claims, D!JobDue, D!Write, D!WriteEnds

LEMMA DispatchStep == ASSUME D!ConstantAssumption, DispatchInv, D!Next PROVE DispatchInv'
<1>1. D!TypeOK'
  BY DispatchTypes
<1>2. ASSUME NEW o \in D!Tenant
      PROVE  overtaken'[o] + Cardinality(PassesLeft(o)') <= (LastTenant - 1) * Cardinality(DispatchWorker)
  <2>1. overtaken'[o] \in Nat /\ (~D!DueTenant(o) => overtaken[o] = 0)
    BY <1>1 DEF D!TypeOK, DispatchInv
  <2>2. CASE D!DueTenant(o)
    BY <1>1, <2>1, <2>2, TurnsStep, TurnTaken
  <2>3. CASE ~D!DueTenant(o)
    <3>1. overtaken'[o] = 0
      BY <2>1, <2>3 DEF D!Next, D!Claims, D!JobDue, D!JobGone, D!Waited, D!DueTenant, D!Write,
             D!WriteEnds, D!Look, D!LockTenant,
         D!Dispatched, D!Passed, D!EmptyHanded, D!ClaimFails, D!turnVars
    <3> QED
      BY <2>1, <3>1, TurnTaken
  <2> QED
    BY <2>2, <2>3
<1> QED
  BY <1>1, <1>2, OrdersStep, ClaimsStep, SpacesStep DEF DispatchInv

LEMMA DispatchInit == ASSUME D!ConstantAssumption, D!Init PROVE DispatchInv
<1>0. /\ LastTenant \in Nat \ {0} /\ LastSpace \in Nat \ {0} /\ D!SpaceNo = 1..LastSpace /\ D!Tenant = 1..LastTenant
  BY DEF D!ConstantAssumption, D!SpaceNo, D!Tenant
<1>1. /\ \A n \in Nat : Ranks(D!Numbered(n), n) /\ \A x \in 1..n : D!Numbered(n)[x] = x
      /\ D!Numbered(LastTenant) \in [D!Tenant -> D!Tenant] /\ D!Numbered(LastSpace) \in [D!SpaceNo -> D!SpaceNo]
  BY <1>0 DEF Ranks, D!Numbered
<1>2. D!NoTenants \in [{} -> D!Tenant] /\ DOMAIN D!NoTenants = {}
  BY DEF D!NoTenants
<1>3. D!TypeOK
  <2>1. seenOrder \in [DispatchWorker -> UNION {[S -> D!Tenant] : S \in SUBSET D!Tenant}]
    <3>1. D!NoTenants \in UNION {[S -> D!Tenant] : S \in SUBSET D!Tenant}
      BY <1>2
    <3> QED
      BY <3>1 DEF D!Init
  <2>2. tenantOrder \in [D!Tenant -> D!Tenant] /\ spaceOrder \in [D!Tenant -> [D!SpaceNo -> D!SpaceNo]]
    BY <1>1 DEF D!Init
  <2>3. /\ due \subseteq D!Space /\ writing \subseteq D!Space
        /\ locked \in [DispatchWorker -> SUBSET D!Tenant] /\ passes \in [DispatchWorker -> SUBSET D!Tenant]
        /\ overtaken \in [D!Tenant -> Nat] /\ spaceOvertaken \in [D!Space -> Nat]
    BY DEF D!Init
  <2> QED
    BY <2>1, <2>2, <2>3 DEF D!TypeOK
<1>4. \A o \in D!Tenant : overtaken[o] = 0
                        /\ overtaken[o] + Cardinality(PassesLeft(o)) <= (LastTenant - 1) * Cardinality(DispatchWorker)
  <2> SUFFICES ASSUME NEW o \in D!Tenant
               PROVE  overtaken[o] = 0 /\ overtaken[o] + Cardinality(PassesLeft(o)) <= (LastTenant - 1) * Cardinality(DispatchWorker)
    OBVIOUS
  <2>1. overtaken[o] = 0
    BY DEF D!Init
  <2>2. PassesLeft(o) \in SUBSET (DispatchWorker \X (D!Tenant \ {o}))
    BY DEF PassesLeft
  <2>3. PICK remaining, bound : remaining = Cardinality(PassesLeft(o)) /\ bound = (LastTenant - 1) * Cardinality(DispatchWorker)
    OBVIOUS
  <2>4. remaining \in Nat /\ remaining <= bound
    BY <2>2, <2>3, PassesBounded
  <2>5. 0 + remaining <= bound
    BY <2>4
  <2> QED
    BY <2>1, <2>3, <2>5
<1>5. \A t \in D!Tenant, n \in D!SpaceNo : spaceOvertaken[<<t, n>>] + spaceOrder[t][n] <= LastSpace
  <2> SUFFICES ASSUME NEW t \in D!Tenant, NEW n \in D!SpaceNo
               PROVE  spaceOvertaken[<<t, n>>] + spaceOrder[t][n] <= LastSpace
    OBVIOUS
  <2>1. <<t, n>> \in D!Space
    BY DEF D!Space
  <2>2. spaceOvertaken[<<t, n>>] = 0 /\ spaceOrder[t] = D!Numbered(LastSpace)
    BY <2>1 DEF D!Init
  <2>3. D!Numbered(LastSpace)[n] = n
    BY <1>0, <1>1
  <2> QED
    BY <1>0, <2>2, <2>3
<1> QED
  BY <1>0, <1>1, <1>2, <1>3, <1>4, <1>5 DEF D!Init, DispatchInv

LEMMA DispatchStutter == ASSUME DispatchInv, UNCHANGED D!vars PROVE DispatchInv'
BY DEF DispatchInv, D!vars, D!turnVars, D!claimVars, D!TypeOK, PassesLeft, MayPass, D!DueTenant

LEMMA FairFromInv == ASSUME D!ConstantAssumption, DispatchInv PROVE D!TurnsAreFair
<1>1. ASSUME NEW o \in D!Tenant PROVE overtaken[o] <= (LastTenant - 1) * Cardinality(DispatchWorker)
  <2>1. PassesLeft(o) \in SUBSET (DispatchWorker \X (D!Tenant \ {o}))
    BY DEF PassesLeft
  <2>2. PICK remaining, bound : remaining = Cardinality(PassesLeft(o)) /\ bound = (LastTenant - 1) * Cardinality(DispatchWorker)
    OBVIOUS
  <2>3. remaining \in Nat /\ bound \in Nat /\ overtaken[o] \in Nat /\ overtaken[o] + remaining <= bound
    BY <2>1, <2>2, PassesBounded DEF DispatchInv, D!TypeOK
  <2>4. overtaken[o] <= bound
    BY <2>3
  <2> QED
    BY <2>2, <2>4
<1>2. ASSUME NEW s \in D!Space PROVE spaceOvertaken[s] <= LastSpace - 1
  <2>1. PICK t \in D!Tenant, n \in D!SpaceNo : s = <<t, n>>
    BY DEF D!Space
  <2>2. /\ spaceOvertaken[s] + spaceOrder[t][n] <= LastSpace /\ spaceOrder[t][n] \in 1..LastSpace
        /\ spaceOvertaken[s] \in Nat /\ LastSpace \in Nat
    BY <2>1 DEF DispatchInv, D!TypeOK, D!SpaceNo, D!ConstantAssumption
  <2> QED
    BY <2>2
<1> QED
  BY <1>1, <1>2, SameCounts DEF D!TurnsAreFair

LEMMA RequestTypesStep == ASSUME Q!TypeOK, Q!Next PROVE Q!TypeOK'
<1> USE DEF Q!TypeOK, Q!Generation
<1>1. CASE Q!RequestSync
  BY <1>1, SyncRequestsAssumption DEF Q!RequestSync, Q!ConstantAssumption
<1>2. ASSUME NEW c \in ScanRunner, Q!StartScan(c) \/ Q!ScanFails(c) \/ Q!ScanEnds(c) PROVE Q!TypeOK'
  BY <1>2 DEF Q!StartScan, Q!ScanFails, Q!ScanEnds
<1>3. ASSUME NEW c \in ScanRunner, Q!SendReport(c) PROVE Q!TypeOK'
  <2>1. reports' \subseteq reports \cup {requested, control[c]}
    BY <1>3 DEF Q!SendReport
  <2> QED
    BY <1>3, <2>1 DEF Q!SendReport
<1>4. ASSUME NEW g \in Q!Generation, Q!ReportSync(g) \/ Q!ReportLost(g) PROVE Q!TypeOK'
  BY <1>4 DEF Q!ReportSync, Q!ReportLost, Q!Acknowledged
<1> QED
  BY <1>1, <1>2, <1>3, <1>4 DEF Q!Next

\* The texts on a note, or on its way to one, are events.
LEMMA ShowingIsEvents ==
  ASSUME FiledInv, NEW m \in F!Memory PROVE F!Showing(m) \subseteq F!Event
<1>1. ASSUME NEW n, n \in {branch.notes[m]} \cup (IF fpc = "checked" THEN {plan.next.notes[m]} ELSE {}),
             n.shows = "text"
      PROVE  <<m, n.version>> \in F!Event
  <2>1. n = F!Rendered(m) /\ F!Mentions(F!Recorded, m)
    <3>1. CASE n = branch.notes[m]
      BY <1>1, <3>1 DEF FiledInv, F!NotesFollowRecords
    <3>2. CASE fpc = "checked" /\ n = plan.next.notes[m]
      BY <1>1, <3>1, <3>2 DEF FiledInv, PlanInv
    <3> QED
      BY <1>1, <3>1, <3>2
  <2>2. F!Recorded \in SUBSET F!Event
    BY DEF FiledInv, FilingTypes, BranchShape, F!Recorded
  <2>3. F!Newest(F!Recorded, m) \in F!Event /\ F!Newest(F!Recorded, m)[1] = m
    BY <2>1, <2>2, NewestFacts
  <2>4. n.version = F!Newest(F!Recorded, m)[2]
    BY <2>1 DEF F!Rendered, F!Note
  <2> QED
    BY <2>3, <2>4 DEF F!Event
<1> QED
  BY <1>1 DEF F!Showing
=============================================================================
