------------------------- MODULE InferenceGateProofs -------------------------
(***************************************************************************)
(* Computations take exact turns, for every number of callers, keepers,    *)
(* models, batches and places in the queue.                                *)
(***************************************************************************)
EXTENDS InferenceGate, TLAPS

\* d stands in queue no later than e.
Ahead(queue, d, e) ==
    \E i, j \in DOMAIN queue : i <= j /\ queue[i] = d /\ queue[j] = e

InLine(queue, callers) ==
    /\ queue \in Seq(Caller)
    /\ {queue[i] : i \in DOMAIN queue} = callers
    /\ \A i, j \in DOMAIN queue : queue[i] = queue[j] => i = j

(***************************************************************************)
(* The inductive invariant.  Nobody is passed twice because whoever went   *)
(* first stands behind from then on: those ahead have not been counted yet.*)
(***************************************************************************)
Waiting == {c \in Caller : Waits(c)}

TypeInv ==
    /\ pc \in [Caller -> Steps]
    /\ session \in [Caller -> Session \cup {Nobody}]
    /\ passes \in [Caller -> [Caller -> Nat]]

OwnerInv ==
    /\ OneAtATime
    /\ \A c \in Caller : pc[c] \in {"ready", "native"} => session[c] \in loaded

PassInv ==
    /\ NobodyIsPassedTwice
    /\ \A c, d \in Caller : ~Waits(c) => passes[c][d] = 0
    /\ \A c, d \in Caller : Ahead(waiters, d, c) => passes[c][d] = 0

Inv == TypeInv /\ OwnerInv /\ InLine(waiters, Waiting) /\ NobodyIsStranded /\ PassInv

(***************************************************************************)
(* Queues.                                                                 *)
(***************************************************************************)

LEMMA Joins ==
  ASSUME NEW callers, NEW queue, InLine(queue, callers), NEW c \in Caller, c \notin callers
  PROVE  /\ InLine(Append(queue, c), callers \cup {c})
         /\ queue # <<>> => Append(queue, c)[1] = queue[1]
         /\ queue = <<>> => Append(queue, c)[1] = c
         /\ \A d, e \in Caller : Ahead(Append(queue, c), d, e) => Ahead(queue, d, e) \/ e = c
<1> DEFINE q == Append(queue, c)
           n == Len(queue)
<1>1. /\ queue \in Seq(Caller) /\ n \in Nat /\ DOMAIN queue = 1..n /\ q \in Seq(Caller)
      /\ DOMAIN q = 1..(n + 1) /\ q[n + 1] = c /\ \A i \in 1..n : q[i] = queue[i]
  BY DEF InLine
<1>2. {q[i] : i \in DOMAIN q} = callers \cup {c}
  <2>1. \A i \in 1..(n + 1) : i \in 1..n \/ i = n + 1
    BY <1>1
  <2>2. \A i \in 1..n : i \in 1..(n + 1)
    BY <1>1
  <2>3. callers = {queue[i] : i \in 1..n}
    BY <1>1 DEF InLine
  <2>4. n + 1 \in 1..(n + 1)
    BY <1>1
  <2> HIDE DEF q, n
  <2> QED
    BY <1>1, <2>1, <2>2, <2>3, <2>4
<1>3. \A i \in 1..n : q[i] # c
  BY <1>1 DEF InLine
<1>4. \A i, j \in DOMAIN q : q[i] = q[j] => i = j
  <2> SUFFICES ASSUME NEW i \in 1..(n + 1), NEW j \in 1..(n + 1), q[i] = q[j] PROVE i = j
    BY <1>1
  <2>1. CASE i \in 1..n /\ j \in 1..n
    BY <1>1, <2>1 DEF InLine
  <2>2. CASE i = n + 1 \/ j = n + 1
    BY <1>1, <1>3, <2>2
  <2> QED
    BY <1>1, <2>1, <2>2
<1>5. queue # <<>> => q[1] = queue[1]
  <2>1. queue # <<>> => 1 \in 1..n
    BY <1>1
  <2> QED
    BY <1>1, <2>1
<1>6. queue = <<>> => q[1] = c
  OBVIOUS
<1>7. ASSUME NEW d \in Caller, NEW e \in Caller, Ahead(q, d, e), e # c PROVE Ahead(queue, d, e)
  <2>1. PICK i \in 1..(n + 1), j \in 1..(n + 1) : i <= j /\ q[i] = d /\ q[j] = e
    BY <1>1, <1>7 DEF Ahead
  <2>2. j \in 1..n /\ i \in 1..n
    BY <1>1, <1>7, <2>1
  <2> QED
    BY <1>1, <2>1, <2>2 DEF Ahead
<1> QED
  BY <1>1, <1>2, <1>4, <1>5, <1>6, <1>7 DEF InLine

LEMMA Removes ==
  ASSUME NEW callers, NEW queue, InLine(queue, callers), NEW c \in callers
  PROVE  /\ InLine(Without(queue, c), callers \ {c})
         /\ \A d, e \in Caller :
               Ahead(Without(queue, c), d, e) => Ahead(queue, d, e) /\ d # c /\ e # c
<1> DEFINE n == Len(queue)
           k == CHOOSE i \in DOMAIN queue : queue[i] = c
           at(j) == IF j < k THEN j ELSE j + 1
           r == Without(queue, c)
<1>1. queue \in Seq(Caller) /\ n \in Nat /\ DOMAIN queue = 1..n
  BY DEF InLine
<1>2. k \in 1..n /\ queue[k] = c /\ \A i \in 1..n : queue[i] = c => i = k
  <2>1. \E i \in DOMAIN queue : queue[i] = c
    BY DEF InLine
  <2> QED
    BY <1>1, <2>1 DEF InLine
<1>3. r = [j \in 1..(n - 1) |-> queue[at(j)]]
  BY DEF Without
<1> HIDE DEF k
<1>4. \A j \in 1..(n - 1) : at(j) \in 1..n /\ at(j) # k
  BY <1>1, <1>2
<1>5. \A i \in 1..n : i # k => \E j \in 1..(n - 1) : at(j) = i
  <2> SUFFICES ASSUME NEW i \in 1..n, i # k PROVE \E j \in 1..(n - 1) : at(j) = i
    OBVIOUS
  <2>1. CASE i < k
    BY <1>1, <1>2, <2>1
  <2>2. CASE i > k
    <3>1. i - 1 \in 1..(n - 1) /\ at(i - 1) = i
      BY <1>1, <1>2, <2>2
    <3> QED
      BY <3>1
  <2> QED
    BY <1>1, <1>2, <2>1, <2>2
<1>6. \A i, j \in 1..(n - 1) : (at(i) = at(j) => i = j) /\ (i <= j => at(i) <= at(j))
  BY <1>1, <1>2
<1> HIDE DEF at, r
<1>7. DOMAIN r = 1..(n - 1) /\ \A j \in 1..(n - 1) : r[j] = queue[at(j)]
  BY <1>3
<1>8. r \in Seq(Caller)
  <2>1. n - 1 \in Nat
    BY <1>1, <1>2
  <2>2. \A j \in 1..(n - 1) : r[j] \in Caller
    BY <1>1, <1>4, <1>7
  <2>3. r \in [1..(n - 1) -> Caller]
    BY <1>3, <1>7, <2>2
  <2> QED
    BY <2>1, <2>3
<1>9. {r[j] : j \in DOMAIN r} = callers \ {c}
  <2>1. callers = {queue[i] : i \in 1..n}
    BY <1>1 DEF InLine
  <2>2. \A j \in 1..(n - 1) : r[j] \in callers \ {c}
    BY <1>2, <1>4, <1>7, <2>1
  <2>3. \A x \in callers \ {c} : \E j \in 1..(n - 1) : r[j] = x
    <3> SUFFICES ASSUME NEW x \in callers \ {c} PROVE \E j \in 1..(n - 1) : r[j] = x
      OBVIOUS
    <3>1. PICK i \in 1..n : queue[i] = x
      BY <2>1
    <3>2. i # k
      BY <1>2, <3>1
    <3> QED
      BY <1>5, <1>7, <3>1, <3>2
  <2> QED
    BY <1>7, <2>2, <2>3
<1>10. \A i, j \in DOMAIN r : r[i] = r[j] => i = j
  BY <1>1, <1>4, <1>6, <1>7 DEF InLine
<1>11. ASSUME NEW d \in Caller, NEW e \in Caller, Ahead(r, d, e)
       PROVE  Ahead(queue, d, e) /\ d # c /\ e # c
  <2>1. PICK i \in 1..(n - 1), j \in 1..(n - 1) : i <= j /\ r[i] = d /\ r[j] = e
    BY <1>7, <1>11 DEF Ahead
  <2>2. /\ at(i) \in 1..n /\ at(j) \in 1..n /\ at(i) <= at(j)
        /\ queue[at(i)] = d /\ queue[at(j)] = e /\ d # c /\ e # c
    BY <1>2, <1>4, <1>6, <1>7, <2>1
  <2> QED
    BY <1>1, <2>2 DEF Ahead
<1> QED
  BY <1>8, <1>9, <1>10, <1>11 DEF InLine, r

(***************************************************************************)
(* Steps.                                                                  *)
(***************************************************************************)

LEMMA InitInv == ConstantAssumption /\ Init => Inv
<1> SUFFICES ASSUME ConstantAssumption, Init PROVE Inv
  OBVIOUS
<1>1. TypeInv
  BY DEF Init, TypeInv, Steps, Unpassed
<1>2. OwnerInv
  BY DEF Init, OwnerInv, OneAtATime, Computes
<1>3. InLine(waiters, Waiting)
  BY DEF Init, InLine, Waiting, Waits
<1>4. NobodyIsStranded /\ PassInv
  BY DEF Init, NobodyIsStranded, PassInv, NobodyIsPassedTwice, Waits, Unpassed, Ahead
<1> QED
  BY <1>1, <1>2, <1>3, <1>4 DEF Inv

\* A notification changes who sleeps, not who waits.
LEMMA NotifiedFacts ==
  ASSUME NEW at \in [Caller -> Steps]
  PROVE  /\ Notified(at) \in [Caller -> Steps]
         /\ \A c \in Caller : /\ at[c] \notin {"asleep", "awake"} => Notified(at)[c] = at[c]
                              /\ at[c] \in {"asleep", "awake"} => Notified(at)[c] = "awake"
  BY DEF Notified, Steps

\* The line with c in it: where it stands, or comes to stand.
StandsIn(c, queue) ==
    \/ Waits(c) /\ queue = waiters
    \/ ~Waits(c) /\ queue = Append(waiters, c)

\* Nobody in the queue has been passed by one who stands ahead.
NonePassed(queue) == \A d, e \in Caller : Ahead(queue, d, e) => passes[e][d] = 0

LEMMA LineOf ==
  ASSUME Inv, NEW c \in Caller, NEW queue, StandsIn(c, queue)
  PROVE  /\ InLine(queue, Waiting \cup {c})
         /\ NonePassed(queue)
         /\ waiters # <<>> => queue[1] = waiters[1]
         /\ waiters = <<>> => queue[1] = c
<1>1. InLine(waiters, Waiting)
  BY DEF Inv
<1>2. CASE Waits(c) /\ queue = waiters
  <2>1. Waiting \cup {c} = Waiting
    BY <1>2 DEF Waiting
  <2>2. waiters # <<>>
    BY <1>1, <1>2 DEF InLine, Waiting
  <2> QED
    BY <1>1, <1>2, <2>1, <2>2 DEF Inv, PassInv, NonePassed
<1>3. CASE ~Waits(c) /\ queue = Append(waiters, c)
  <2>1. c \notin Waiting
    BY <1>3 DEF Waiting
  <2>2. \A d \in Caller : passes[c][d] = 0
    BY <1>3 DEF Inv, PassInv
  <2>5. /\ InLine(queue, Waiting \cup {c})
        /\ \A d, e \in Caller : Ahead(queue, d, e) => Ahead(waiters, d, e) \/ e = c
        /\ waiters # <<>> => queue[1] = waiters[1]
        /\ waiters = <<>> => queue[1] = c
    <3> DEFINE callers == Waiting
               joined == Append(waiters, c)
    <3>1. InLine(waiters, callers) /\ c \notin callers
      BY <1>1, <2>1
    <3> HIDE DEF callers
    <3>2. /\ InLine(joined, callers \cup {c})
          /\ waiters # <<>> => joined[1] = waiters[1]
          /\ waiters = <<>> => joined[1] = c
          /\ \A d, e \in Caller : Ahead(joined, d, e) => Ahead(waiters, d, e) \/ e = c
      BY <3>1, Joins, Zenon
    <3>3. joined = queue
      BY <1>3
    <3> QED
      BY <3>2, <3>3 DEF callers
  <2>6. \A d, e \in Caller : Ahead(queue, d, e) => passes[e][d] = 0
    BY <2>2, <2>5 DEF Inv, PassInv
  <2> QED
    BY <2>5, <2>6 DEF NonePassed
<1> QED
  BY <1>2, <1>3 DEF StandsIn

\* A caller that takes the gate.
LEMMA ServeStep ==
  ASSUME ConstantAssumption, Inv, NEW c \in Caller, NEW queue,
         StandsIn(c, queue), ~Computes(c),
         IsNext(c, queue), Serve(c, queue), UNCHANGED loaded,
         session' \in [Caller -> Session \cup {Nobody}],
         \A d \in Caller \ {c} : session'[d] = session[d]
  PROVE  Inv'
<1>1. /\ InLine(queue, Waiting \cup {c})
      /\ \A d, e \in Caller : Ahead(queue, d, e) => passes[e][d] = 0
  <2>1. InLine(queue, Waiting \cup {c}) /\ NonePassed(queue)
    BY LineOf
  <2> QED
    BY <2>1 DEF NonePassed
<1>2. [pc EXCEPT ![c] = "turn"] \in [Caller -> Steps]
  BY DEF Inv, TypeInv, Steps
<1>3. /\ pc' \in [Caller -> Steps] /\ pc'[c] = "turn"
      /\ \A d \in Caller \ {c} : /\ ~Waits(d) => pc'[d] = pc[d]
                                 /\ Waits(d) => pc'[d] = "awake"
  BY <1>2, NotifiedFacts DEF Serve, Waits, Inv, TypeInv
<1>4. Waiting' = (Waiting \cup {c}) \ {c}
  BY <1>3 DEF Waiting, Waits
<1>5. /\ InLine(waiters, Waiting)'
      /\ \A d, e \in Caller : Ahead(waiters', d, e) => Ahead(queue, d, e) /\ d # c /\ e # c
  <2>1. c \in Waiting \cup {c}
    OBVIOUS
  <2>2. waiters' = Without(queue, c)
    BY DEF Serve
  <2>3. InLine(waiters', Waiting')
    BY <1>1, <1>4, <2>1, <2>2, Removes
  <2>4. \A d, e \in Caller : Ahead(waiters', d, e) => Ahead(queue, d, e) /\ d # c /\ e # c
    BY <1>1, <2>1, <2>2, Removes
  <2> QED
    BY <2>3, <2>4 DEF InLine
<1>6. \A d \in Caller \ {c} : Waits(d) => passes[d][c] = 0
  <2> SUFFICES ASSUME NEW d \in Caller \ {c}, Waits(d) PROVE Ahead(queue, c, d)
    BY <1>1
  <2>1. PICK j \in DOMAIN queue : queue[j] = d
    BY <1>1 DEF InLine, Waiting
  <2>2. queue[1] = c /\ 1 \in DOMAIN queue /\ 1 <= j
    BY <1>1, <2>1 DEF IsNext, InLine
  <2> QED
    BY <2>1, <2>2 DEF Ahead
<1>7. /\ passes' \in [Caller -> [Caller -> Nat]]
      /\ \A d, e \in Caller :
            passes'[d][e] = IF d = c THEN 0
                            ELSE IF Waits(d) /\ e = c THEN passes[d][c] + 1 ELSE passes[d][e]
  BY DEF Serve, Unpassed, Inv, TypeInv
<1>8. PassInv'
  <2>1. \A d, e \in Caller : passes'[d][e] <= 1
    <3> SUFFICES ASSUME NEW d \in Caller, NEW e \in Caller PROVE passes'[d][e] <= 1
      OBVIOUS
    <3>1. passes[d][e] <= 1
      BY DEF Inv, PassInv, NobodyIsPassedTwice
    <3>2. CASE d # c /\ Waits(d) /\ e = c
      BY <1>6, <1>7, <3>2
    <3> QED
      BY <1>7, <3>1, <3>2
  <2>2. \A d, e \in Caller : ~Waits(d)' => passes'[d][e] = 0
    <3>1. \A d \in Caller \ {c} : ~Waits(d)' => ~Waits(d)
      BY <1>3 DEF Waits
    <3>2. \A d, e \in Caller : ~Waits(d) => passes[d][e] = 0
      BY DEF Inv, PassInv
    <3> QED
      BY <1>7, <3>1, <3>2
  <2>3. \A d, e \in Caller : Ahead(waiters', d, e) => passes'[e][d] = 0
    BY <1>1, <1>5, <1>7
  <2> QED
    BY <2>1, <2>2, <2>3 DEF PassInv, NobodyIsPassedTwice
<1>9. OwnerInv'
  <2>1. \A d \in Caller \ {c} : ~Computes(d)
    BY DEF IsNext, Inv, OwnerInv, OneAtATime, ConstantAssumption
  <2> QED
    BY <1>3, <2>1 DEF Serve, OwnerInv, OneAtATime, Computes, Waits
<1>10. NobodyIsStranded'
  BY DEF NobodyIsStranded, Serve, ConstantAssumption
<1> QED
  BY <1>3, <1>5, <1>7, <1>8, <1>9, <1>10 DEF Inv, TypeInv

\* A caller whose time is over.
LEMMA GiveUpStep ==
  ASSUME ConstantAssumption, Inv, NEW c \in Caller, NEW queue,
         StandsIn(c, queue), ~Computes(c),
         GiveUp(c, queue), UNCHANGED loaded,
         session' \in [Caller -> Session \cup {Nobody}],
         \A d \in Caller \ {c} : session'[d] = session[d]
  PROVE  Inv'
<1>1. /\ InLine(queue, Waiting \cup {c})
      /\ \A d, e \in Caller : Ahead(queue, d, e) => passes[e][d] = 0
  <2>1. InLine(queue, Waiting \cup {c}) /\ NonePassed(queue)
    BY LineOf
  <2> QED
    BY <2>1 DEF NonePassed
<1>2. [pc EXCEPT ![c] = "ends"] \in [Caller -> Steps]
  BY DEF Inv, TypeInv, Steps
<1>3. /\ pc' \in [Caller -> Steps] /\ pc'[c] = "ends"
      /\ \A d \in Caller \ {c} : /\ ~Waits(d) => pc'[d] = pc[d]
                                 /\ Waits(d) => pc'[d] = "awake"
  BY <1>2, NotifiedFacts DEF GiveUp, Waits, Inv, TypeInv
<1>4. Waiting' = (Waiting \cup {c}) \ {c}
  BY <1>3 DEF Waiting, Waits
<1>5. /\ InLine(waiters, Waiting)'
      /\ \A d, e \in Caller : Ahead(waiters', d, e) => Ahead(queue, d, e) /\ d # c /\ e # c
  <2>1. c \in Waiting \cup {c}
    OBVIOUS
  <2>2. waiters' = Without(queue, c)
    BY DEF GiveUp
  <2>3. InLine(waiters', Waiting')
    BY <1>1, <1>4, <2>1, <2>2, Removes
  <2>4. \A d, e \in Caller : Ahead(waiters', d, e) => Ahead(queue, d, e) /\ d # c /\ e # c
    BY <1>1, <2>1, <2>2, Removes
  <2> QED
    BY <2>3, <2>4 DEF InLine
<1>6. /\ passes' \in [Caller -> [Caller -> Nat]]
      /\ \A d, e \in Caller : passes'[d][e] = IF d = c THEN 0 ELSE passes[d][e]
  BY DEF GiveUp, Unpassed, Inv, TypeInv
<1>7. PassInv'
  <2>1. \A d, e \in Caller : passes'[d][e] <= 1
    <3>1. \A d, e \in Caller : passes[d][e] <= 1
      BY DEF Inv, PassInv, NobodyIsPassedTwice
    <3> QED
      BY <1>6, <3>1
  <2>2. \A d, e \in Caller : ~Waits(d)' => passes'[d][e] = 0
    <3>1. \A d \in Caller \ {c} : ~Waits(d)' => ~Waits(d)
      BY <1>3 DEF Waits
    <3>2. \A d, e \in Caller : ~Waits(d) => passes[d][e] = 0
      BY DEF Inv, PassInv
    <3> QED
      BY <1>6, <3>1, <3>2
  <2>3. \A d, e \in Caller : Ahead(waiters', d, e) => passes'[e][d] = 0
    BY <1>1, <1>5, <1>6
  <2> QED
    BY <2>1, <2>2, <2>3 DEF PassInv, NobodyIsPassedTwice
<1>8. OwnerInv'
  BY <1>3 DEF GiveUp, Inv, OwnerInv, OneAtATime, Computes, Waits
<1>9. NobodyIsStranded'
  <2> SUFFICES ASSUME waiters' # <<>> PROVE pc'[waiters'[1]] = "awake"
    BY DEF NobodyIsStranded
  <2>1. waiters'[1] \in Waiting \ {c}
    <3>1. 1 \in DOMAIN waiters'
      BY <1>5 DEF InLine
    <3> QED
      BY <1>4, <1>5, <3>1 DEF InLine
  <2> QED
    BY <1>3, <2>1 DEF Waiting
<1> QED
  BY <1>3, <1>5, <1>6, <1>7, <1>8, <1>9 DEF Inv, TypeInv

\* A caller that stands in line, or stays there.
LEMMA SleepOnStep ==
  ASSUME ConstantAssumption, Inv, NEW c \in Caller, NEW queue,
         StandsIn(c, queue), ~Computes(c),
         ~IsNext(c, queue), SleepOn(c, queue), UNCHANGED loaded,
         session' \in [Caller -> Session \cup {Nobody}],
         \A d \in Caller \ {c} : session'[d] = session[d]
  PROVE  Inv'
<1>1. /\ InLine(queue, Waiting \cup {c})
      /\ \A d, e \in Caller : Ahead(queue, d, e) => passes[e][d] = 0
      /\ waiters # <<>> => queue[1] = waiters[1]
      /\ waiters = <<>> => queue[1] = c
  <2>1. /\ InLine(queue, Waiting \cup {c}) /\ NonePassed(queue)
        /\ waiters # <<>> => queue[1] = waiters[1]
        /\ waiters = <<>> => queue[1] = c
    BY LineOf
  <2> QED
    BY <2>1 DEF NonePassed
<1>2. /\ pc' \in [Caller -> Steps] /\ pc'[c] = "asleep"
      /\ \A d \in Caller \ {c} : pc'[d] = pc[d]
  BY DEF SleepOn, Inv, TypeInv, Steps
<1>3. Waiting' = Waiting \cup {c}
  BY <1>2 DEF Waiting, Waits
<1>4. InLine(waiters, Waiting)'
  <2>1. waiters' = queue
    BY DEF SleepOn
  <2>2. InLine(waiters', Waiting')
    BY <1>1, <1>3, <2>1
  <2> QED
    BY <2>2 DEF InLine
<1>5. PassInv'
  <2>1. \A d, e \in Caller : ~Waits(d)' => passes'[d][e] = 0
    BY <1>2 DEF SleepOn, Inv, PassInv, Waits
  <2>2. \A d, e \in Caller : Ahead(waiters', d, e) => passes'[e][d] = 0
    BY <1>1 DEF SleepOn
  <2> QED
    BY <2>1, <2>2 DEF SleepOn, Inv, PassInv, NobodyIsPassedTwice
<1>6. OwnerInv'
  BY <1>2 DEF SleepOn, Inv, OwnerInv, OneAtATime, Computes, Waits
<1>7. NobodyIsStranded'
  <2> SUFFICES ASSUME owner = Nobody PROVE pc'[queue[1]] = "awake"
    BY DEF NobodyIsStranded, SleepOn
  <2>1. queue[1] # c
    BY DEF IsNext
  <2>2. waiters # <<>> /\ queue[1] = waiters[1]
    BY <1>1, <2>1
  <2>3. pc[queue[1]] = "awake"
    BY <2>2 DEF Inv, NobodyIsStranded
  <2>4. queue[1] \in Caller
    <3>1. 1 \in DOMAIN waiters /\ waiters \in Seq(Caller)
      BY <2>2 DEF Inv, InLine
    <3> QED
      BY <2>2, <3>1
  <2> QED
    BY <1>2, <2>1, <2>3, <2>4
<1> QED
  BY <1>2, <1>4, <1>5, <1>6, <1>7 DEF Inv, TypeInv, SleepOn

\* The first in line, after a notification.
LEMMA FirstIsAwake ==
  ASSUME Inv, waiters # <<>>
  PROVE  waiters[1] \in Waiting /\ Notified(pc)[waiters[1]] = "awake"
<1>1. waiters[1] \in Waiting
  <2>1. 1 \in DOMAIN waiters
    BY DEF Inv, InLine
  <2> QED
    BY <2>1 DEF Inv, InLine
<1> QED
  BY <1>1, NotifiedFacts DEF Waiting, Waits, Inv, TypeInv

\* The line stays as it is.
LEMMA LineStays ==
  ASSUME Inv, UNCHANGED <<waiters, passes>>, Waiting' = Waiting, TypeInv', OwnerInv', NobodyIsStranded'
  PROVE  Inv'
<1>1. \A c \in Caller : Waits(c)' = Waits(c)
  BY DEF Waiting, Waits
<1>2. PassInv'
  BY <1>1 DEF Inv, PassInv, NobodyIsPassedTwice, Ahead
<1> QED
  BY <1>2 DEF Inv, InLine

LEMMA StepInv ==
  ASSUME ConstantAssumption, Inv, [Next]_vars PROVE Inv'
<1> USE DEF ConstantAssumption
<1>1. ASSUME NEW c \in Caller, NEW s \in Session, NEW n \in 1..BatchBound, Enter(c, s, n) PROVE Inv'
  <2> DEFINE queue == Append(waiters, c)
  <2>1. /\ StandsIn(c, queue) /\ ~Computes(c) /\ UNCHANGED loaded
        /\ session' \in [Caller -> Session \cup {Nobody}]
        /\ \A d \in Caller \ {c} : session'[d] = session[d]
    BY <1>1 DEF Enter, StandsIn, Waits, Computes, Inv, TypeInv
  <2>2. CASE IsNext(c, queue) /\ Serve(c, queue)
    BY <2>1, <2>2, ServeStep
  <2>3. CASE ~IsNext(c, queue) /\ SleepOn(c, queue)
    BY <2>1, <2>3, SleepOnStep
  <2>4. CASE GiveUp(c, queue)
    BY <2>1, <2>4, GiveUpStep
  <2> QED
    BY <1>1, <2>2, <2>3, <2>4 DEF Enter
<1>2. ASSUME NEW c \in Caller, Look(c) \/ LookLate(c) PROVE Inv'
  <2>1. /\ StandsIn(c, waiters) /\ ~Computes(c) /\ UNCHANGED loaded
        /\ session' \in [Caller -> Session \cup {Nobody}]
        /\ \A d \in Caller \ {c} : session'[d] = session[d]
    BY <1>2 DEF Look, LookLate, work, StandsIn, Waits, Computes, Inv, TypeInv
  <2>2. CASE IsNext(c, waiters) /\ Serve(c, waiters)
    BY <2>1, <2>2, ServeStep
  <2>3. CASE ~IsNext(c, waiters) /\ SleepOn(c, waiters)
    BY <2>1, <2>3, SleepOnStep
  <2>4. CASE GiveUp(c, waiters)
    BY <2>1, <2>4, GiveUpStep
  <2> QED
    BY <1>2, <2>2, <2>3, <2>4 DEF Look, LookLate
<1>3. ASSUME NEW c \in Caller, NEW step \in Steps, pc' = [pc EXCEPT ![c] = step],
             UNCHANGED <<owner, waiters, session, passes>>,
             \/ pc[c] = "asleep" /\ step = "awake" /\ UNCHANGED loaded
             \/ /\ Computes(c) /\ step \in {"turn", "ready", "native", "between", "ends"}
                /\ step \in {"ready", "native"} => session[c] \in loaded'
      PROVE  Inv'
  <2>1. /\ TypeInv' /\ pc'[c] = step /\ \A d \in Caller \ {c} : pc'[d] = pc[d]
    BY <1>3 DEF Inv, TypeInv
  <2>2. Waiting' = Waiting
    BY <1>3, <2>1 DEF Waiting, Waits, Computes
  <2>3. OwnerInv'
    <3>1. OneAtATime'
      BY <1>3, <2>1 DEF Inv, OwnerInv, OneAtATime, Computes
    <3>2. ASSUME NEW d \in Caller, pc'[d] \in {"ready", "native"} PROVE session'[d] \in loaded'
      <4>1. CASE pc[c] = "asleep" /\ step = "awake" /\ UNCHANGED loaded
        BY <1>3, <2>1, <3>2, <4>1 DEF Inv, OwnerInv
      <4>2. CASE Computes(c) /\ (step \in {"ready", "native"} => session[c] \in loaded')
        <5>1. d = c
          BY <2>1, <3>2, <4>2 DEF Inv, OwnerInv, OneAtATime, Computes
        <5> QED
          BY <1>3, <2>1, <3>2, <4>2, <5>1
      <4> QED
        BY <1>3, <4>1, <4>2
    <3> QED
      BY <3>1, <3>2 DEF OwnerInv
  <2>4. NobodyIsStranded'
    <3>1. CASE pc[c] = "asleep" /\ step = "awake"
      BY <1>3, <2>1, <3>1, FirstIsAwake DEF Inv, NobodyIsStranded, Waiting
    <3>2. CASE Computes(c)
      BY <1>3, <3>2 DEF Inv, OwnerInv, OneAtATime, NobodyIsStranded
    <3> QED
      BY <1>3, <3>1, <3>2
  <2> QED
    BY <1>3, <2>1, <2>2, <2>3, <2>4, LineStays
<1>4. ASSUME NEW c \in Caller,
             TimesOut(c) \/ Prepare(c) \/ Embed(c) \/ Embedded(c) \/ GoOn(c) PROVE Inv'
  <2>1. CASE TimesOut(c)
    BY <1>3, <2>1 DEF TimesOut, work, Steps
  <2>2. CASE Prepare(c)
    BY <1>3, <2>2 DEF Prepare, Computes, Steps
  <2>3. CASE Embed(c)
    <3>1. session[c] \in loaded'
      BY <2>3 DEF Embed, Kept, Inv, OwnerInv
    <3> QED
      BY <1>3, <2>3, <3>1 DEF Embed, Computes, Steps
  <2>4. CASE Embedded(c)
    BY <1>3, <2>4 DEF Embedded, Computes, Steps
  <2>5. CASE GoOn(c)
    BY <1>3, <2>5 DEF GoOn, work, Computes, Steps
  <2> QED
    BY <1>4, <2>1, <2>2, <2>3, <2>4, <2>5
<1>5. ASSUME NEW c \in Caller, Yield(c) PROVE Inv'
  <2>1. /\ pc' \in [Caller -> Steps] /\ pc'[c] = "asleep" /\ ~Waits(c) /\ Computes(c)
        /\ \A d \in Caller \ {c} : /\ ~Waits(d) => pc'[d] = pc[d]
                                   /\ Waits(d) => pc'[d] = "awake"
    BY <1>5, NotifiedFacts DEF Yield, Waits, Computes, Steps, Inv, TypeInv
  <2>2. /\ InLine(waiters', Waiting \cup {c}) /\ waiters'[1] = waiters[1]
        /\ \A d, e \in Caller : Ahead(waiters', d, e) => passes[e][d] = 0
    <3> DEFINE queue == Append(waiters, c)
    <3>1. StandsIn(c, queue) /\ waiters # <<>> /\ waiters' = queue
      BY <1>5, <2>1 DEF Yield, StandsIn
    <3> HIDE DEF queue
    <3>2. /\ InLine(queue, Waiting \cup {c}) /\ NonePassed(queue)
          /\ waiters # <<>> => queue[1] = waiters[1]
      BY <3>1, LineOf
    <3> QED
      BY <3>1, <3>2 DEF NonePassed
  <2>3. Waiting' = Waiting \cup {c}
    BY <2>1 DEF Waiting, Waits
  <2>4. InLine(waiters, Waiting)'
    BY <2>2, <2>3 DEF InLine
  <2>5. PassInv'
    <3>1. \A d, e \in Caller : ~Waits(d)' => passes'[d][e] = 0
      BY <1>5, <2>1 DEF Yield, Inv, PassInv, Waits
    <3> QED
      BY <1>5, <2>2, <3>1 DEF Yield, Inv, PassInv, NobodyIsPassedTwice
  <2>6. OwnerInv'
    <3>1. \A d \in Caller : ~Computes(d)'
      BY <2>1 DEF Inv, OwnerInv, OneAtATime, Computes, Waits
    <3> QED
      BY <3>1 DEF OwnerInv, OneAtATime, Computes
  <2>7. NobodyIsStranded'
    BY <1>5, <2>1, <2>2, FirstIsAwake DEF Yield, NobodyIsStranded, Waiting
  <2> QED
    BY <1>5, <2>1, <2>4, <2>5, <2>6, <2>7 DEF Inv, TypeInv, Yield, work
<1>6. ASSUME NEW c \in Caller, YieldLate(c) PROVE Inv'
  <2>1. /\ pc' \in [Caller -> Steps] /\ pc'[c] = "ends" /\ ~Waits(c) /\ Computes(c)
        /\ \A d \in Caller \ {c} : /\ ~Waits(d) => pc'[d] = pc[d]
                                   /\ Waits(d) => pc'[d] = "awake"
    BY <1>6, NotifiedFacts DEF YieldLate, Waits, Computes, Steps, Inv, TypeInv
  <2>2. Waiting' = Waiting
    BY <2>1 DEF Waiting, Waits
  <2>3. OwnerInv'
    <3>1. \A d \in Caller : ~Computes(d)'
      BY <2>1 DEF Inv, OwnerInv, OneAtATime, Computes, Waits
    <3> QED
      BY <3>1 DEF OwnerInv, OneAtATime, Computes
  <2>4. NobodyIsStranded'
    BY <1>6, <2>1, FirstIsAwake DEF YieldLate, NobodyIsStranded, Waiting
  <2>5. TypeInv'
    BY <1>6, <2>1 DEF YieldLate, work, Inv, TypeInv
  <2> QED
    BY <1>6, <2>2, <2>3, <2>4, <2>5, LineStays DEF YieldLate
<1>7. ASSUME NEW c \in Caller, Leave(c) PROVE Inv'
  <2>1. [pc EXCEPT ![c] = "idle"] \in [Caller -> Steps]
    BY DEF Inv, TypeInv, Steps
  <2>2. /\ pc' \in [Caller -> Steps] /\ pc'[c] = "idle" /\ ~Waits(c) /\ ~Computes(c)
        /\ \A d \in Caller \ {c} : /\ ~Waits(d) => pc'[d] = pc[d]
                                   /\ Waits(d) => Waits(d)'
                                   /\ Waits(d) /\ (owner = c \/ pc[d] = "awake") => pc'[d] = "awake"
    BY <1>7, <2>1, NotifiedFacts DEF Leave, Waits, Computes, Inv, TypeInv
  <2>3. Waiting' = Waiting
    BY <2>2 DEF Waiting, Waits
  <2>4. TypeInv'
    BY <1>7, <2>2 DEF Leave, Inv, TypeInv
  <2>5. OwnerInv'
    <3>1. \A d \in Caller : Computes(d)' => d # c /\ Computes(d) /\ owner # c /\ pc'[d] = pc[d]
      BY <2>2 DEF Computes, Waits, Inv, OwnerInv, OneAtATime
    <3> QED
      BY <1>7, <3>1 DEF Leave, Inv, TypeInv, OwnerInv, OneAtATime, Computes
  <2>6. NobodyIsStranded'
    BY <1>7, <2>2, FirstIsAwake DEF Leave, Inv, NobodyIsStranded, Waiting
  <2> QED
    BY <1>7, <2>3, <2>4, <2>5, <2>6, LineStays DEF Leave
<1>8. ASSUME NEW k \in Keeper, Maintains(k) PROVE Inv'
  <2>1. \A c \in Caller : ~Computes(c)
    BY <1>8 DEF Maintains, Maintain, Unload, Reopen, Inv, OwnerInv, OneAtATime
  <2>2. CASE UNCHANGED pc
    <3>1. TypeInv' /\ OwnerInv' /\ Waiting' = Waiting
      BY <1>8, <2>1, <2>2 DEF Maintains, Maintain, Unload, Reopen, work, Inv, TypeInv, OwnerInv,
                              OneAtATime, Computes, Waiting, Waits
    <3>2. NobodyIsStranded'
      BY <1>8, <2>2, FirstIsAwake DEF Maintains, Maintain, Unload, Reopen, NobodyIsStranded
    <3> QED
      BY <1>8, <3>1, <3>2, LineStays DEF Maintains, Maintain, Unload, Reopen
  <2>3. CASE Reopen(k)
    <3>1. /\ pc' \in [Caller -> Steps]
          /\ \A d \in Caller : /\ ~Waits(d) => pc'[d] = pc[d]
                               /\ Waits(d) => pc'[d] = "awake"
      BY <2>3, NotifiedFacts DEF Reopen, Waits, Inv, TypeInv
    <3>2. Waiting' = Waiting
      BY <3>1 DEF Waiting, Waits
    <3>3. TypeInv'
      BY <2>3, <3>1 DEF Reopen, work, Inv, TypeInv
    <3>4. OwnerInv'
      <4>1. \A c \in Caller : ~Computes(c)'
        BY <2>1, <3>1 DEF Computes, Waits
      <4> QED
        BY <4>1 DEF OwnerInv, OneAtATime, Computes
    <3>5. NobodyIsStranded'
      BY <2>3, <3>1, FirstIsAwake DEF Reopen, NobodyIsStranded, Waiting
    <3> QED
      BY <2>3, <3>2, <3>3, <3>4, <3>5, LineStays DEF Reopen
  <2> QED
    BY <1>8, <2>2, <2>3 DEF Maintains, Maintain, Unload
<1>9. CASE UNCHANGED vars
  <2>1. Waiting' = Waiting /\ TypeInv' /\ OwnerInv' /\ NobodyIsStranded'
    BY <1>9 DEF vars, Waiting, Waits, Inv, TypeInv, OwnerInv, OneAtATime, Computes, NobodyIsStranded
  <2> QED
    BY <1>9, <2>1, LineStays DEF vars
<1> QED
  BY <1>1, <1>2, <1>4, <1>5, <1>6, <1>7, <1>8, <1>9 DEF Next, Calls

LEMMA InvIsExact ==
  ASSUME Inv PROVE TurnsAreExact
<1>1. SessionsStay
  BY DEF Inv, OwnerInv, SessionsStay
<1>2. LineIsExact
  BY DEF Inv, InLine, LineIsExact, Waiting
<1> QED
  BY <1>1, <1>2 DEF Inv, OwnerInv, PassInv, TurnsAreExact

\* The gate of inference_limits.py and its users: never two computations at once
\* nor one on a session that is unloaded, nobody asleep in front of a free gate,
\* and nobody passed twice by another caller while it waits.
THEOREM TurnsAreExactAlways ==
  ASSUME ConstantAssumption PROVE Spec => []TurnsAreExact
<1>1. Init => Inv
  BY InitInv
<1>2. Inv /\ [Next]_vars => Inv'
  BY StepInv
<1>3. Inv => TurnsAreExact
  BY InvIsExact
<1> QED
  BY <1>1, <1>2, <1>3, PTL DEF Spec

(***************************************************************************)
(* The types that TurnsAreExact does not need.  Whoever is not idle has a  *)
(* model to compute with, and a batch to compute until it ends.            *)
(***************************************************************************)
Busy(c) == /\ pc[c] # "idle" => session[c] \in Session
           /\ pc[c] \notin {"idle", "ends"} => left[c] # 0

WorkInv ==
    /\ owner \in Caller \cup Keeper \cup {Nobody}
    /\ left \in [Caller -> 0..BatchBound]
    /\ loaded \subseteq Session
    /\ \A c \in Caller : Busy(c)

\* Whoever goes on with its work, and does not end it, still has it.
WorksOn(d) == pc'[d] = pc[d] \/ (pc[d] \notin {"idle", "ends"} /\ pc'[d] # "idle")

\* NotifiedFacts, for the steps of another caller.
LEMMA NotifiedWorks ==
  ASSUME NEW at \in [Caller -> Steps], pc' \in {at, Notified(at)}, NEW d \in Caller, at[d] = pc[d]
  PROVE  WorksOn(d)
BY DEF WorksOn, Notified

LEMMA BusyKept ==
  ASSUME NEW d \in Caller, Busy(d), session'[d] = session[d], left'[d] = left[d],
         WorksOn(d)
  PROVE  Busy(d)'
BY DEF Busy, WorksOn

LEMMA WorkStep ==
  ASSUME ConstantAssumption, Inv, WorkInv, [Next]_vars PROVE WorkInv'
<1>0. /\ BatchBound \in Nat \ {0} /\ pc \in [Caller -> Steps]
      /\ session \in [Caller -> Session \cup {Nobody}] /\ left \in [Caller -> 0..BatchBound]
  BY DEF ConstantAssumption, Inv, TypeInv, WorkInv
<1>1. ASSUME NEW c \in Caller, NEW s \in Session, NEW n \in 1..BatchBound, Enter(c, s, n) PROVE WorkInv'
  <2>1. owner' \in {owner, c} /\ UNCHANGED loaded
    BY <1>1 DEF Enter, Serve, SleepOn, GiveUp
  <2>2. session' = [session EXCEPT ![c] = s] /\ left' = [left EXCEPT ![c] = n]
    BY <1>1 DEF Enter
  <2>02. \A d \in Caller \ {c} : WorksOn(d)
    <3>1. PICK step \in {"turn", "ends", "asleep"} :
            pc' \in {[pc EXCEPT ![c] = step], Notified([pc EXCEPT ![c] = step])}
      BY <1>1 DEF Enter, Serve, SleepOn, GiveUp
    <3>2. [pc EXCEPT ![c] = step] \in [Caller -> Steps] /\ \A d \in Caller \ {c} : [pc EXCEPT ![c] = step][d] = pc[d]
      BY <1>0 DEF Steps
    <3> QED
      BY <3>1, <3>2, NotifiedWorks
  <2>3. n \in 0..BatchBound /\ n # 0 /\ session'[c] = s /\ left'[c] = n
    BY <1>0, <2>2
  <2>4. ASSUME NEW d \in Caller PROVE Busy(d)'
    <3>1. CASE d = c
      BY <2>3, <3>1 DEF Busy
    <3>2. CASE d # c
      <4>1. session'[d] = session[d] /\ left'[d] = left[d] /\ WorksOn(d) /\ Busy(d)
        BY <1>0, <2>2, <2>02, <3>2 DEF WorkInv
      <4> QED
        BY <4>1, BusyKept
    <3> QED
      BY <3>1, <3>2
  <2> QED
    BY <1>0, <2>1, <2>2, <2>3, <2>4 DEF WorkInv
<1>2. ASSUME NEW c \in Caller, Look(c) \/ LookLate(c) PROVE WorkInv'
  <2>1. /\ owner' \in {owner, c} /\ UNCHANGED <<loaded, session, left>>
        /\ \A d \in Caller : WorksOn(d)
    BY <1>0, <1>2 DEF Look, LookLate, Serve, SleepOn, GiveUp, Notified, work, WorksOn
  <2>2. ASSUME NEW d \in Caller PROVE Busy(d)'
    <3>1. Busy(d) /\ WorksOn(d) /\ session'[d] = session[d] /\ left'[d] = left[d]
      BY <2>1 DEF WorkInv
    <3> QED
      BY <3>1, BusyKept
  <2> QED
    BY <2>1, <2>2 DEF WorkInv
<1>3. ASSUME NEW c \in Caller, Prepare(c) \/ Embed(c) PROVE WorkInv'
  <2>1. pc[c] \in {"turn", "ready"} /\ session[c] \in Session
    BY <1>3 DEF Prepare, Embed, WorkInv, Busy
  <2>2. /\ loaded' \subseteq Session /\ UNCHANGED <<owner, session, left>>
        /\ \A d \in Caller : WorksOn(d)
    BY <1>0, <1>3, <2>1 DEF Prepare, Embed, Kept, WorkInv, WorksOn
  <2>3. ASSUME NEW d \in Caller PROVE Busy(d)'
    <3>1. Busy(d) /\ WorksOn(d) /\ session'[d] = session[d] /\ left'[d] = left[d]
      BY <2>2 DEF WorkInv
    <3> QED
      BY <3>1, BusyKept
  <2> QED
    BY <2>2, <2>3 DEF WorkInv
<1>4. ASSUME NEW c \in Caller, Embedded(c) PROVE WorkInv'
  <2>1. /\ left' = [left EXCEPT ![c] = left[c] - 1] /\ UNCHANGED <<owner, loaded, session>>
        /\ left[c] \in 1..BatchBound /\ session[c] \in Session
        /\ pc'[c] = "ends" \/ (pc'[c] = "between" /\ left[c] > 1)
        /\ \A d \in Caller \ {c} : WorksOn(d)
    <3>1. left[c] \in 1..BatchBound /\ session[c] \in Session
      BY <1>0, <1>4 DEF Embedded, WorkInv, Busy
    <3>2. PICK step : pc' = [pc EXCEPT ![c] = step] /\ (step = "ends" \/ (step = "between" /\ left[c] > 1))
      BY <1>4 DEF Embedded
    <3> QED
      BY <1>0, <1>4, <3>1, <3>2 DEF Embedded, WorksOn
  <2>2. left' \in [Caller -> 0..BatchBound] /\ left'[c] = left[c] - 1
    BY <1>0, <2>1
  <2>3. ASSUME NEW d \in Caller PROVE Busy(d)'
    <3>1. CASE d = c
      BY <2>1, <2>2, <3>1 DEF Busy
    <3>2. CASE d # c
      <4>1. session'[d] = session[d] /\ left'[d] = left[d] /\ WorksOn(d) /\ Busy(d)
        BY <1>0, <2>1, <3>2 DEF WorkInv
      <4> QED
        BY <4>1, BusyKept
    <3> QED
      BY <3>1, <3>2
  <2> QED
    BY <2>1, <2>2, <2>3 DEF WorkInv
<1>5. ASSUME NEW c \in Caller, TimesOut(c) \/ GoOn(c) \/ Yield(c) \/ YieldLate(c) PROVE WorkInv'
  <2>1. /\ owner' \in {owner, Nobody} /\ UNCHANGED <<loaded, session, left>>
        /\ \A d \in Caller : WorksOn(d)
    BY <1>0, <1>5 DEF TimesOut, GoOn, Yield, YieldLate, Notified, work, WorksOn
  <2>2. ASSUME NEW d \in Caller PROVE Busy(d)'
    <3>1. Busy(d) /\ WorksOn(d) /\ session'[d] = session[d] /\ left'[d] = left[d]
      BY <2>1 DEF WorkInv
    <3> QED
      BY <3>1, BusyKept
  <2> QED
    BY <2>1, <2>2 DEF WorkInv
<1>6. ASSUME NEW c \in Caller, Leave(c) PROVE WorkInv'
  <2>1. /\ owner' \in {owner, Nobody} /\ UNCHANGED loaded
        /\ session' = [session EXCEPT ![c] = Nobody] /\ left' = [left EXCEPT ![c] = 0]
        /\ pc'[c] = "idle"
        /\ \A d \in Caller \ {c} : WorksOn(d)
    <3>1. [pc EXCEPT ![c] = "idle"] \in [Caller -> Steps] /\ \A d \in Caller \ {c} : [pc EXCEPT ![c] = "idle"][d] = pc[d]
      BY <1>0 DEF Steps
    <3>2. pc' \in {[pc EXCEPT ![c] = "idle"], Notified([pc EXCEPT ![c] = "idle"])}
      BY <1>6 DEF Leave
    <3>3. \A d \in Caller \ {c} : WorksOn(d)
      BY <3>1, <3>2, NotifiedWorks
    <3> QED
      BY <1>0, <1>6, <3>2, <3>3 DEF Leave, Notified
  <2>2. ASSUME NEW d \in Caller PROVE Busy(d)'
    <3>1. CASE d = c
      BY <2>1, <3>1 DEF Busy
    <3>2. CASE d # c
      <4>1. session'[d] = session[d] /\ left'[d] = left[d] /\ WorksOn(d) /\ Busy(d)
        BY <1>0, <2>1, <3>2 DEF WorkInv
      <4> QED
        BY <4>1, BusyKept
    <3> QED
      BY <3>1, <3>2
  <2> QED
    BY <1>0, <2>1, <2>2 DEF WorkInv
<1>7. ASSUME NEW k \in Keeper, Maintains(k) PROVE WorkInv'
  <2>1. /\ owner' \in {owner, k, Nobody} /\ loaded' \subseteq loaded /\ UNCHANGED <<session, left>>
        /\ \A d \in Caller : WorksOn(d)
    BY <1>0, <1>7 DEF Maintains, Maintain, Unload, Reopen, Notified, work, WorksOn
  <2>2. ASSUME NEW d \in Caller PROVE Busy(d)'
    <3>1. Busy(d) /\ WorksOn(d) /\ session'[d] = session[d] /\ left'[d] = left[d]
      BY <2>1 DEF WorkInv
    <3> QED
      BY <3>1, BusyKept
  <2> QED
    BY <2>1, <2>2 DEF WorkInv
<1>8. CASE UNCHANGED vars
  BY <1>8 DEF vars, WorkInv, Busy
<1> QED
  BY <1>1, <1>2, <1>3, <1>4, <1>5, <1>6, <1>7, <1>8 DEF Next, Calls

\* The gate, its line and the work of its callers keep their types, for every
\* number of callers, keepers, models and batches (inference_limits.py).
THEOREM TypeCorrect ==
  ASSUME ConstantAssumption PROVE Spec => []TypeOK
<1>1. Init => Inv /\ WorkInv
  BY InitInv DEF Init, WorkInv, Busy, ConstantAssumption
<1>2. Inv /\ WorkInv /\ [Next]_vars => (Inv /\ WorkInv)'
  BY StepInv, WorkStep
<1>3. Inv /\ WorkInv => TypeOK
  BY DEF Inv, TypeInv, WorkInv, InLine, TypeOK
<1> QED
  BY <1>1, <1>2, <1>3, PTL DEF Spec
=============================================================================
