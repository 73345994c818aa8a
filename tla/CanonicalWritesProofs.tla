------------------------ MODULE CanonicalWritesProofs ------------------------
(***************************************************************************)
(* Writes are exact, and the service implements MemoryStore, for every set *)
(* of handlers, keys and memories.                                         *)
(***************************************************************************)
EXTENDS CanonicalWrites, TLAPS

(***************************************************************************)
(* The inductive invariant.  What is stored: a receipt is of the version   *)
(* its request made (or of a memory that was withdrawn before), every      *)
(* version with a key has its receipt, and a memory counts its versions.   *)
(* What is under way: the locks exclude, and they keep true what a handler *)
(* has seen, that its key is fresh and its memory as it expected.          *)
(***************************************************************************)
TypeInv == TypeOK /\ \A h \in Handler : pc[h] # "idle" => request[h] \in Asked

ReceiptInv ==
    /\ \A x, y \in receipts : x.request.key = y.request.key => x = y
    /\ \A x \in receipts :
          /\ x.request.key # NoKey
          /\ \/ x.version \in DOMAIN written[x.memory] /\ written[x.memory][x.version] = x.request
             \/ x.request.kind = "forget" /\ memory[x.memory].standing = "deleted"
    /\ \A m \in Memory : \A i \in DOMAIN written[m] :
          written[m][i].key # NoKey =>
              [request |-> written[m][i], memory |-> m, version |-> i] \in receipts

VersionInv ==
    /\ \A m \in Memory : /\ memory[m].version = Len(written[m])
                         /\ memory[m].standing = "none" => memory[m].version = 0
    /\ NothingUnseenIsReplaced

StoredInv == ReceiptInv /\ VersionInv /\ answers \subseteq receipts

LocksInv ==
    /\ \A g, h \in Handler : \A k \in Key : HoldsKey(g, k) /\ HoldsKey(h, k) => g = h
    /\ \A g, h \in Handler : \A m \in Memory : HoldsRow(g, m) /\ HoldsRow(h, m) => g = h

FenceInv == fence => written = frozen /\ \A h \in Handler : ~HoldsBoundary(h)

\* What a handler has seen and its locks keep.
Seen(h) ==
    /\ pc[h] = "keyed" /\ request[h].kind # "forget" => ~Replays(h)
    /\ pc[h] = "locked" => ~Replays(h) /\ (request[h].kind # "save" => Expected(h))

SeenInv == \A h \in Handler : Seen(h)

Inv == TypeInv /\ StoredInv /\ LocksInv /\ FenceInv /\ SeenInv

LEMMA AskedFacts ==
  ASSUME NEW r \in Asked
  PROVE  /\ r \in Request
         /\ r.key = NoKey \/ r.key \in Key
         /\ r.kind = "save" => r.expected = 0 /\ r.key \in Key /\ r.memory = NoMemory
         /\ r.kind # "save" => r.memory \in Memory
         /\ r.kind \in {"save", "revise", "review", "forget"}
  BY SMTT(30) DEF Asked, Request, Keys, Memories

LEMMA InitInv == Init => Inv
<1> SUFFICES ASSUME Init PROVE Inv
  OBVIOUS
<1>1. TypeInv
  <2>1. written \in [Memory -> Seq(Request)]
    <3>1. <<>> \in Seq(Request)
      OBVIOUS
    <3> QED
      BY <3>1 DEF Init
  <2>2. request \in [Handler -> Request \cup {NoRequest}]
    BY DEF Init
  <2>3. memory \in [Memory -> [version : Nat, standing : {"none", "live", "deleted"}]]
    BY DEF Init
  <2>4. pc \in [Handler -> {"idle", "begun", "admitted", "keyed", "locked", "committed"}]
    BY DEF Init
  <2> QED
    BY <2>1, <2>2, <2>3, <2>4 DEF Init, TypeInv, TypeOK
<1>2. StoredInv
  BY DEF Init, StoredInv, ReceiptInv, VersionInv, NothingUnseenIsReplaced
<1>3. LocksInv /\ FenceInv /\ SeenInv
  BY DEF Init, LocksInv, HoldsKey, HoldsRow, FenceInv, SeenInv, Seen
<1> QED
  BY <1>1, <1>2, <1>3 DEF Inv

(***************************************************************************)
(* Steps that store nothing: one handler goes on, or ends.                 *)
(***************************************************************************)
Others(h) == \A g \in Handler \ {h} : pc'[g] = pc[g] /\ request'[g] = request[g]

LEMMA StoredKept ==
  ASSUME StoredInv, UNCHANGED stored, answers' \subseteq receipts
  PROVE  StoredInv'
  BY DEF StoredInv, stored, ReceiptInv, VersionInv, NothingUnseenIsReplaced

\* A handler that moves to a step takes no lock that another one has, and has
\* seen what it should.
LEMMA QuietStep ==
  ASSUME Inv, NEW h \in Handler, UNCHANGED stored, answers' \subseteq receipts, answers' \subseteq Receipt,
         Others(h), pc' \in [Handler -> {"idle", "begun", "admitted", "keyed", "locked", "committed"}],
         request' \in [Handler -> Request \cup {NoRequest}],
         pc'[h] # "idle" => request'[h] \in Asked,
         \A g \in Handler \ {h}, k \in Key : HoldsKey(g, k) => ~HoldsKey(h, k)',
         \A g \in Handler \ {h}, m \in Memory : HoldsRow(g, m) => ~HoldsRow(h, m)',
         fence => ~HoldsBoundary(h)',
         Seen(h)'
  PROVE  Inv'
<1>1. TypeInv'
  BY DEF Inv, TypeInv, TypeOK, stored, Others
<1>2. StoredInv'
  BY StoredKept DEF Inv
<1>3. LocksInv'
  BY DEF Inv, LocksInv, Others, HoldsKey, HoldsRow
<1>4. FenceInv'
  BY DEF Inv, FenceInv, Others, HoldsBoundary, stored
<1>5. SeenInv'
  BY DEF Inv, SeenInv, Seen, Others, stored, Replays, Previous, Expected, Standing, Version
<1> QED
  BY <1>1, <1>2, <1>3, <1>4, <1>5 DEF Inv

LEMMA EndsQuietly ==
  ASSUME Inv, NEW h \in Handler, UNCHANGED stored, answers' \subseteq receipts, answers' \subseteq Receipt,
         Ends(h)
  PROVE  Inv'
<1>1. pc'[h] = "idle" /\ Others(h)
  BY DEF Ends, Others, Inv, TypeInv, TypeOK
<1>2. request' \in [Handler -> Request \cup {NoRequest}]
  BY DEF Ends, Inv, TypeInv, TypeOK
<1>3. pc' \in [Handler -> {"idle", "begun", "admitted", "keyed", "locked", "committed"}]
  BY DEF Ends, Inv, TypeInv, TypeOK
<1> QED
  BY <1>1, <1>2, <1>3, QuietStep DEF HoldsKey, HoldsRow, HoldsBoundary, Seen

\* The handler keeps its request.
LEMMA GoesOnQuietly ==
  ASSUME Inv, NEW h \in Handler, UNCHANGED stored, UNCHANGED answers, pc[h] # "idle",
         NEW step \in {"begun", "admitted", "keyed", "locked", "committed"}, At(h, step),
         \A g \in Handler \ {h}, k \in Key :
            HoldsKey(g, k) /\ step \in {"keyed", "locked"} => request[h].key # k,
         \A g \in Handler \ {h}, m \in Memory :
            HoldsRow(g, m) /\ step = "locked" => request[h].memory # m,
         fence => step \in {"begun", "committed"},
         step = "keyed" /\ request[h].kind # "forget" => ~Replays(h),
         step = "locked" => ~Replays(h) /\ (request[h].kind # "save" => Expected(h))
  PROVE  Inv'
<1>1. pc'[h] = step /\ Others(h) /\ request' = request
  BY DEF At, Others, Inv, TypeInv, TypeOK
<1>2. /\ pc' \in [Handler -> {"idle", "begun", "admitted", "keyed", "locked", "committed"}]
      /\ request' \in [Handler -> Request \cup {NoRequest}]
      /\ request'[h] \in Asked
      /\ answers' \subseteq receipts /\ answers' \subseteq Receipt
  BY <1>1 DEF At, Inv, TypeInv, TypeOK, StoredInv
<1>3. Seen(h)'
  BY <1>1 DEF Seen, stored, Replays, Previous, Expected, Standing, Version
<1>4. /\ \A g \in Handler \ {h}, k \in Key : HoldsKey(g, k) => ~HoldsKey(h, k)'
      /\ \A g \in Handler \ {h}, m \in Memory : HoldsRow(g, m) => ~HoldsRow(h, m)'
      /\ fence => ~HoldsBoundary(h)'
  BY <1>1 DEF HoldsKey, HoldsRow, HoldsBoundary
<1> QED
  BY <1>1, <1>2, <1>3, <1>4, QuietStep

LEMMA StepOfOne ==
  ASSUME ConstantAssumption, Inv, NEW h \in Handler,
         \/ \E r \in Asked : Receive(h, r)
         \/ Admit(h) \/ TakeKey(h) \/ NeedsNoKey(h) \/ TakeRow(h) \/ Answer(h) \/ Fail(h)
  PROVE  Inv'
<1>1. ASSUME NEW r \in Asked, Receive(h, r) PROVE Inv'
  <2>1. pc'[h] = "begun" /\ request'[h] = r /\ Others(h)
    BY <1>1 DEF Receive, Others, Inv, TypeInv, TypeOK
  <2>2. /\ pc' \in [Handler -> {"idle", "begun", "admitted", "keyed", "locked", "committed"}]
        /\ request' \in [Handler -> Request \cup {NoRequest}]
    BY <1>1, AskedFacts DEF Receive, Inv, TypeInv, TypeOK
  <2>3. UNCHANGED stored /\ answers' \subseteq receipts /\ answers' \subseteq Receipt
    BY <1>1 DEF Receive, Inv, TypeInv, TypeOK, StoredInv
  <2> QED
    BY <2>1, <2>2, <2>3, QuietStep DEF HoldsKey, HoldsRow, HoldsBoundary, Seen
<1>2. CASE \/ Ends(h) /\ UNCHANGED stored /\ UNCHANGED answers
           \/ Answer(h) \/ Fail(h)
  <2>1. Ends(h) /\ UNCHANGED stored
    BY <1>2 DEF Answer, Fail
  <2>2. answers' \subseteq receipts /\ answers' \subseteq Receipt
    BY <1>2 DEF Answer, Fail, Previous, Inv, TypeInv, TypeOK, StoredInv
  <2> QED
    BY <2>1, <2>2, EndsQuietly
<1>3. CASE Admit(h)
  BY <1>2, <1>3, GoesOnQuietly DEF Admit
<1>4. CASE TakeKey(h)
  <2>1. CASE Conflicts(h)
    BY <1>2, <1>4, <2>1 DEF TakeKey
  <2>2. CASE ~Conflicts(h) /\ Replays(h) /\ request[h].kind # "forget"
    BY <1>4, <2>2, GoesOnQuietly DEF TakeKey
  <2>3. CASE ~Conflicts(h) /\ ~(Replays(h) /\ request[h].kind # "forget")
    <3>1. ~fence
      BY <1>4 DEF TakeKey, Inv, FenceInv, HoldsBoundary
    <3> QED
      BY <1>4, <2>3, <3>1, GoesOnQuietly DEF TakeKey
  <2> QED
    BY <2>1, <2>2, <2>3
<1>5. CASE NeedsNoKey(h)
  <2>1. ~fence
    BY <1>5 DEF NeedsNoKey, Inv, FenceInv, HoldsBoundary
  <2>2. ~Replays(h)
    BY <1>5 DEF NeedsNoKey, Replays, Previous, Inv, StoredInv, ReceiptInv
  <2>3. \A g \in Handler \ {h}, k \in Key : HoldsKey(g, k) => request[h].key # k
    BY <1>5 DEF NeedsNoKey, ConstantAssumption
  <2> QED
    BY <1>5, <2>1, <2>2, <2>3, GoesOnQuietly DEF NeedsNoKey
<1>6. CASE TakeRow(h)
  <2>1. ~fence /\ pc[h] = "keyed" /\ request[h] \in Asked
    BY <1>6 DEF TakeRow, Inv, FenceInv, HoldsBoundary, TypeInv
  <2>2. \A g \in Handler \ {h}, k \in Key : HoldsKey(g, k) => request[h].key # k
    BY <2>1 DEF Inv, LocksInv, HoldsKey
  <2>3. CASE request[h].kind = "save" /\ At(h, "locked")
    <3>1. ~Replays(h)
      BY <2>1, <2>3 DEF Inv, SeenInv, Seen
    <3>2. \A m \in Memory : request[h].memory # m
      BY <2>1, <2>3, AskedFacts DEF ConstantAssumption
    <3> QED
      BY <1>6, <2>1, <2>2, <2>3, <3>1, <3>2, GoesOnQuietly DEF TakeRow
  <2>4. CASE /\ \A g \in Handler : ~HoldsRow(g, request[h].memory)
             /\ Replays(h) /\ At(h, "committed")
    BY <1>6, <2>1, <2>4, GoesOnQuietly DEF TakeRow
  <2>5. CASE /\ \A g \in Handler : ~HoldsRow(g, request[h].memory)
             /\ ~Replays(h) /\ Expected(h) /\ At(h, "locked")
    BY <1>6, <2>1, <2>2, <2>5, GoesOnQuietly DEF TakeRow
  <2>6. CASE Ends(h)
    BY <1>2, <1>6, <2>6 DEF TakeRow
  <2> QED
    BY <1>6, <2>3, <2>4, <2>5, <2>6 DEF TakeRow
<1> QED
  BY <1>1, <1>2, <1>3, <1>4, <1>5, <1>6

(***************************************************************************)
(* The commit.                                                             *)
(***************************************************************************)

\* The handler that commits is alone with its key, and lets its locks go.
LEMMA OthersKeepSeen ==
  ASSUME ConstantAssumption, Inv, NEW h \in Handler, pc[h] = "locked", At(h, "committed"),
         \A x \in receipts' : x \in receipts \/ (x.request.key = request[h].key /\ request[h].key # NoKey),
         receipts \subseteq receipts',
         \A g \in Handler \ {h} : pc[g] = "locked" /\ request[g].kind # "save" =>
            memory'[request[g].memory] = memory[request[g].memory]
  PROVE  SeenInv'
<1> SUFFICES ASSUME NEW g \in Handler PROVE Seen(g)'
  BY DEF SeenInv
<1>1. CASE g = h
  BY <1>1 DEF Seen, At, Inv, TypeInv, TypeOK
<1>2. CASE g # h
  <2>1. pc'[g] = pc[g] /\ request' = request
    BY <1>2 DEF At, Inv, TypeInv, TypeOK
  <2>2. pc[g] \in {"keyed", "locked"} =>
          request[g].key # request[h].key \/ request[h].key = NoKey
    <3>1. request[h].key = NoKey \/ request[h].key \in Key
      BY AskedFacts DEF Inv, TypeInv
    <3> QED
      BY <1>2, <3>1 DEF Inv, LocksInv, HoldsKey
  <2>3. pc[g] \in {"keyed", "locked"} => Previous(g)' = Previous(g)
    BY <2>1, <2>2 DEF Previous
  <2>4. Seen(g)
    BY DEF Inv, SeenInv
  <2> QED
    BY <1>2, <2>1, <2>3, <2>4 DEF Seen, Replays, Expected, Standing, Version
<1> QED
  BY <1>1, <1>2

LEMMA LocksLeft ==
  ASSUME Inv, NEW h \in Handler, pc[h] = "locked", At(h, "committed"), UNCHANGED <<fence, frozen>>
  PROVE  LocksInv' /\ FenceInv'
<1>1. \A g \in Handler : /\ request'[g] = request[g]
                         /\ pc'[g] \in {"keyed", "locked"} => pc[g] = pc'[g]
  BY DEF At, Inv, TypeInv, TypeOK
<1>2. LocksInv'
  <2>1. ASSUME NEW g \in Handler, NEW k \in Key PROVE HoldsKey(g, k)' => HoldsKey(g, k)
    BY <1>1 DEF HoldsKey
  <2>2. ASSUME NEW g \in Handler, NEW m \in Memory PROVE HoldsRow(g, m)' => HoldsRow(g, m)
    BY <1>1 DEF HoldsRow
  <2>3. LocksInv
    BY DEF Inv
  <2> QED
    BY <2>1, <2>2, <2>3 DEF LocksInv
<1>3. ~fence
  BY DEF Inv, FenceInv, HoldsBoundary
<1> QED
  BY <1>2, <1>3 DEF FenceInv

LEMMA WriteStep ==
  ASSUME ConstantAssumption, Inv, NEW h \in Handler, pc[h] = "locked", At(h, "committed"),
         UNCHANGED <<fence, frozen, answers>>,
         NEW m \in Memory, NEW standing \in {"live", "deleted"}, Write(h, m, standing),
         request[h].expected = memory[m].version, memory[m].standing # "deleted",
         \/ request[h].kind = "save" /\ memory[m].standing = "none"
         \/ request[h].kind # "save" /\ request[h].memory = m
  PROVE  Inv'
<1> DEFINE n == Len(written[m])
           new == [request |-> request[h], memory |-> m, version |-> n + 1]
<1>1. /\ request[h] \in Asked /\ request[h] \in Request /\ ~Replays(h)
      /\ written[m] \in Seq(Request) /\ n \in Nat /\ memory[m].version = n
  BY AskedFacts DEF Inv, TypeInv, TypeOK, SeenInv, Seen, StoredInv, VersionInv
<1>2. /\ written'[m] = Append(written[m], request[h])
      /\ \A k \in Memory \ {m} : written'[k] = written[k] /\ memory'[k] = memory[k]
      /\ memory'[m] = [version |-> n + 1, standing |-> standing]
  BY <1>1 DEF Write, Inv, TypeInv, TypeOK
<1>3. /\ DOMAIN written'[m] = 1..n + 1 /\ DOMAIN written[m] = 1..n
      /\ Len(written'[m]) = n + 1 /\ written'[m][n + 1] = request[h]
      /\ \A i \in 1..n : written'[m][i] = written[m][i]
  BY <1>1, <1>2
<1>4. receipts' = IF request[h].key = NoKey THEN receipts ELSE receipts \cup {new}
  BY <1>1 DEF Write, Remember
<1>5. TypeInv'
  <2>1. memory' \in [Memory -> [version : Nat, standing : {"none", "live", "deleted"}]]
    BY <1>1 DEF Write, Inv, TypeInv, TypeOK
  <2>2. written' \in [Memory -> Seq(Request)]
    <3>1. Append(written[m], request[h]) \in Seq(Request)
      BY <1>1
    <3> QED
      BY <3>1 DEF Write, Inv, TypeInv, TypeOK
  <2>3. receipts' \subseteq Receipt
    BY <1>1, <1>4 DEF Receipt, Inv, TypeInv, TypeOK
  <2>4. pc' \in [Handler -> {"idle", "begun", "admitted", "keyed", "locked", "committed"}]
    BY DEF At, Inv, TypeInv, TypeOK
  <2>5. /\ fence' \in BOOLEAN /\ answers' \subseteq Receipt
        /\ request' \in [Handler -> Request \cup {NoRequest}]
        /\ \A g \in Handler : pc'[g] # "idle" => request'[g] \in Asked
    BY <1>1 DEF At, Inv, TypeInv, TypeOK
  <2> QED
    BY <2>1, <2>2, <2>3, <2>4, <2>5 DEF TypeInv, TypeOK
<1>6. ReceiptInv'
  <2>1. \A x, y \in receipts' : x.request.key = y.request.key => x = y
    BY <1>1, <1>4 DEF Replays, Previous, Inv, StoredInv, ReceiptInv
  <2>2. ASSUME NEW x \in receipts'
        PROVE  /\ x.request.key # NoKey
               /\ \/ x.version \in DOMAIN written'[x.memory] /\ written'[x.memory][x.version] = x.request
                  \/ x.request.kind = "forget" /\ memory'[x.memory].standing = "deleted"
    <3>1. CASE x \in receipts
      <4>1. x.memory \in Memory
        BY <3>1 DEF Inv, TypeInv, TypeOK, Receipt
      <4>2. CASE x.memory = m
        BY <1>3, <3>1, <4>2 DEF Inv, StoredInv, ReceiptInv
      <4>3. CASE x.memory # m
        BY <1>2, <3>1, <4>1, <4>3 DEF Inv, StoredInv, ReceiptInv
      <4> QED
        BY <4>2, <4>3
    <3>2. CASE x = new /\ request[h].key # NoKey
      BY <1>1, <1>3, <3>2
    <3> QED
      BY <1>4, <3>1, <3>2
  <2>3. ASSUME NEW k \in Memory, NEW i \in DOMAIN written'[k], written'[k][i].key # NoKey
        PROVE  [request |-> written'[k][i], memory |-> k, version |-> i] \in receipts'
    <3>1. CASE k = m /\ i = n + 1
      BY <1>3, <1>4, <2>3, <3>1
    <3>2. CASE k = m /\ i # n + 1
      <4>1. i \in DOMAIN written[m] /\ written'[k][i] = written[m][i]
        BY <1>1, <1>3, <3>2
      <4> QED
        BY <1>4, <2>3, <3>2, <4>1 DEF Inv, StoredInv, ReceiptInv
    <3>3. CASE k # m
      BY <1>2, <1>4, <2>3, <3>3 DEF Inv, StoredInv, ReceiptInv
    <3> QED
      BY <3>1, <3>2, <3>3
  <2> QED
    BY <2>1, <2>2, <2>3 DEF ReceiptInv
<1>7. VersionInv'
  <2>1. \A k \in Memory : /\ memory'[k].version = Len(written'[k])
                          /\ memory'[k].standing = "none" => memory'[k].version = 0
    <3>1. /\ memory'[m].version = n + 1 /\ memory'[m].standing = standing /\ standing # "none"
          /\ Len(written'[m]) = n + 1
      BY <1>2, <1>3
    <3> QED
      BY <1>2, <3>1 DEF Inv, StoredInv, VersionInv
  <2>2. ASSUME NEW k \in Memory, NEW i \in DOMAIN written'[k] PROVE written'[k][i].expected = i - 1
    <3>1. \A j \in DOMAIN written[k] : written[k][j].expected = j - 1
      BY DEF Inv, StoredInv, VersionInv, NothingUnseenIsReplaced
    <3>2. CASE k # m
      BY <1>2, <2>2, <3>1, <3>2
    <3>3. CASE k = m /\ i = n + 1
      BY <1>1, <1>3, <3>3
    <3>4. CASE k = m /\ i # n + 1
      <4>1. i \in 1..n
        BY <1>1, <1>3, <2>2, <3>4
      <4> QED
        BY <1>3, <3>1, <3>4, <4>1
    <3> QED
      BY <3>2, <3>3, <3>4
  <2> QED
    BY <2>1, <2>2 DEF VersionInv, NothingUnseenIsReplaced
<1>8. StoredInv'
  BY <1>4, <1>6, <1>7 DEF StoredInv, Inv
<1>9. SeenInv'
  <2>1. \A g \in Handler \ {h} : pc[g] = "locked" /\ request[g].kind # "save" =>
           memory'[request[g].memory] = memory[request[g].memory]
    <3> SUFFICES ASSUME NEW g \in Handler \ {h}, pc[g] = "locked", request[g].kind # "save"
                 PROVE  request[g].memory \in Memory \ {m}
      BY <1>2
    <3>1. request[g].memory \in Memory
      BY AskedFacts DEF Inv, TypeInv
    <3>2. Expected(g)
      BY DEF Inv, SeenInv, Seen
    <3>3. CASE request[h].kind = "save" /\ memory[m].standing = "none"
      <4>1. memory[request[g].memory].standing \in {"live", "deleted"}
        BY <3>2 DEF Expected, Standing
      <4> QED
        BY <3>1, <3>3, <4>1
    <3>4. CASE request[h].kind # "save" /\ request[h].memory = m
      <4>1. HoldsRow(g, request[g].memory) /\ HoldsRow(h, m)
        BY <3>4 DEF HoldsRow
      <4>2. request[g].memory # m
        BY <4>1 DEF Inv, LocksInv, HoldsRow
      <4> QED
        BY <3>1, <4>2
    <3> QED
      BY <3>1, <3>3, <3>4
  <2>2. receipts \subseteq receipts'
    BY <1>4
  <2>3. \A x \in receipts' : x \in receipts \/ (x.request.key = request[h].key /\ request[h].key # NoKey)
    BY <1>4
  <2> QED
    BY <2>1, <2>2, <2>3, OthersKeepSeen
<1> QED
  BY <1>5, <1>8, <1>9, LocksLeft DEF Inv

\* A memory that is withdrawn already: the receipt only.
LEMMA ForgottenStep ==
  ASSUME ConstantAssumption, Inv, NEW h \in Handler, pc[h] = "locked", At(h, "committed"),
         UNCHANGED <<fence, frozen, answers, memory, written>>,
         request[h].kind = "forget", Standing(h) = "deleted",
         Remember(h, request[h].memory, Version(h))
  PROVE  Inv'
<1> DEFINE m == request[h].memory
           new == [request |-> request[h], memory |-> m, version |-> Version(h)]
<1>1. /\ request[h] \in Asked /\ request[h] \in Request /\ ~Replays(h)
      /\ m \in Memory /\ Version(h) \in Nat
  BY AskedFacts DEF Inv, TypeInv, TypeOK, SeenInv, Seen, Version
<1>2. receipts' = IF request[h].key = NoKey THEN receipts ELSE receipts \cup {new}
  BY DEF Remember
<1>3. TypeInv'
  <2>1. receipts' \subseteq Receipt
    BY <1>1, <1>2 DEF Receipt, Inv, TypeInv, TypeOK
  <2> QED
    BY <1>1, <2>1 DEF At, Inv, TypeInv, TypeOK
<1>4. ReceiptInv'
  <2>1. \A x, y \in receipts' : x.request.key = y.request.key => x = y
    BY <1>1, <1>2 DEF Replays, Previous, Inv, StoredInv, ReceiptInv
  <2>2. \A x \in receipts' : x \in receipts \/ (x = new /\ request[h].key # NoKey)
    BY <1>2
  <2> QED
    BY <1>2, <2>1, <2>2 DEF Inv, StoredInv, ReceiptInv, Standing
<1>5. StoredInv'
  BY <1>2, <1>4 DEF StoredInv, VersionInv, NothingUnseenIsReplaced, Inv
<1>6. SeenInv'
  <2>1. receipts \subseteq receipts'
    BY <1>2
  <2>2. \A x \in receipts' : x \in receipts \/ (x.request.key = request[h].key /\ request[h].key # NoKey)
    BY <1>2
  <2>3. \A g \in Handler \ {h} : memory'[request[g].memory] = memory[request[g].memory]
    OBVIOUS
  <2> QED
    BY <2>1, <2>2, <2>3, OthersKeepSeen
<1> QED
  BY <1>3, <1>5, <1>6, LocksLeft DEF Inv

LEMMA CommitStep ==
  ASSUME ConstantAssumption, Inv, NEW h \in Handler, Commit(h) PROVE Inv'
<1> DEFINE m == request[h].memory
<1>1. /\ pc[h] = "locked" /\ At(h, "committed") /\ Effect(h)
      /\ UNCHANGED <<fence, frozen, answers>> /\ request[h] \in Asked
  BY DEF Commit, Inv, TypeInv
<1>2. /\ request[h].kind # "save" => Expected(h) /\ m \in Memory
      /\ request[h].kind = "save" => request[h].expected = 0
      /\ request[h].kind \in {"save", "revise", "review", "forget"}
  BY <1>1, AskedFacts DEF Inv, SeenInv, Seen
<1>3. CASE request[h].kind = "save"
  <2>1. PICK new \in Memory : memory[new].standing = "none" /\ Write(h, new, "live")
    BY <1>1, <1>3 DEF Effect
  <2>2. memory[new].version = 0
    BY <2>1 DEF Inv, StoredInv, VersionInv
  <2> QED
    BY <1>1, <1>2, <1>3, <2>1, <2>2, WriteStep
<1>4. CASE request[h].kind \in {"revise", "review"}
  BY <1>1, <1>2, <1>4, WriteStep DEF Effect, Expected, Standing, Version
<1>5. CASE request[h].kind = "forget" /\ Standing(h) # "deleted"
  BY <1>1, <1>2, <1>5, WriteStep DEF Effect, Expected, Standing, Version
<1>6. CASE request[h].kind = "forget" /\ Standing(h) = "deleted"
  BY <1>1, <1>6, ForgottenStep DEF Effect
<1> QED
  BY <1>2, <1>3, <1>4, <1>5, <1>6

LEMMA FenceStep ==
  ASSUME Inv, Pause \/ Reopen PROVE Inv'
<1>1. UNCHANGED <<memory, receipts, pc, request, written, answers>> /\ fence' \in BOOLEAN
  BY DEF Pause, Reopen
<1>2. TypeInv' /\ StoredInv' /\ LocksInv' /\ SeenInv'
  BY <1>1 DEF Inv, TypeInv, TypeOK, StoredInv, ReceiptInv, VersionInv, NothingUnseenIsReplaced,
              LocksInv, HoldsKey, HoldsRow, SeenInv, Seen, Replays, Previous, Expected, Standing, Version
<1>3. FenceInv'
  BY DEF Inv, FenceInv, Pause, Reopen, Exclusive, HoldsBoundary
<1> QED
  BY <1>2, <1>3 DEF Inv

LEMMA StepInv == ASSUME ConstantAssumption, Inv, [Next]_vars PROVE Inv'
<1>1. CASE \E h \in Handler : Handle(h)
  BY <1>1, StepOfOne, CommitStep DEF Handle
<1>2. CASE Pause \/ Reopen
  BY <1>2, FenceStep
<1>3. CASE UNCHANGED vars
  BY <1>3 DEF vars, Inv, TypeInv, TypeOK, StoredInv, ReceiptInv, VersionInv, NothingUnseenIsReplaced,
              LocksInv, HoldsKey, HoldsRow, FenceInv, HoldsBoundary,
              SeenInv, Seen, Replays, Previous, Expected, Standing, Version
<1> QED
  BY <1>1, <1>2, <1>3 DEF Next

LEMMA InvIsExact == Inv => WritesAreExact
<1> SUFFICES ASSUME Inv PROVE WritesAreExact
  OBVIOUS
<1>1. OneWritePerKey
  <2> SUFFICES ASSUME NEW m \in Memory, NEW n \in Memory,
                      NEW i \in DOMAIN written[m], NEW j \in DOMAIN written[n],
                      written[m][i].key = written[n][j].key, written[m][i].key # NoKey
               PROVE  m = n /\ i = j
    BY DEF OneWritePerKey
  <2> DEFINE x == [request |-> written[m][i], memory |-> m, version |-> i]
             y == [request |-> written[n][j], memory |-> n, version |-> j]
  <2>1. x \in receipts /\ y \in receipts
    BY DEF Inv, StoredInv, ReceiptInv
  <2>2. x = y
    BY <2>1 DEF Inv, StoredInv, ReceiptInv
  <2> QED
    BY <2>2
<1>2. AnswersStand
  BY DEF AnswersStand, Inv, StoredInv, ReceiptInv
<1>3. NothingUnseenIsReplaced /\ PausedStands
  BY DEF PausedStands, Inv, StoredInv, VersionInv, FenceInv
<1> QED
  BY <1>1, <1>2, <1>3 DEF WritesAreExact

\* A key writes once, nobody replaces a version unseen, what a client was told
\* stands, and a paused space stays as it is, whatever the number of requests
\* that overlap, fail and are repeated (memory.py, repository.py, fences.py).
THEOREM WritesAreExactAlways ==
  ASSUME ConstantAssumption PROVE Spec => []WritesAreExact
<1>1. Init => Inv
  BY InitInv
<1>2. Inv /\ [Next]_vars => Inv'
  BY StepInv
<1>3. Inv => WritesAreExact
  BY InvIsExact
<1> QED
  BY <1>1, <1>2, <1>3, PTL DEF Spec

\* Memories, receipts, the fence and the requests under way keep their types, for
\* every number of handlers, keys and memories (memory.py, fences.py).
THEOREM TypeCorrect ==
  ASSUME ConstantAssumption PROVE Spec => []TypeOK
<1>1. Init => Inv
  BY InitInv
<1>2. Inv /\ [Next]_vars => Inv'
  BY StepInv
<1>3. Inv => TypeOK
  BY DEF Inv, TypeInv
<1> QED
  BY <1>1, <1>2, <1>3, PTL DEF Spec

(***************************************************************************)
(* The refinement of MemoryStore.  The commit is the step at which the     *)
(* store carries the request out: what the handler saw, its locks have     *)
(* kept, and nothing pauses the space while it holds the boundary.         *)
(***************************************************************************)

LEMMA StoreInit == Init => Store!Init
  BY DEF Init, Store!Init

\* What the commit needs of what its handler saw.
LEMMA CommitMayPerform ==
  ASSUME ConstantAssumption, Inv, NEW h \in Handler, pc[h] = "locked"
  PROVE  /\ ~fence /\ ~Store!Used(request[h].key)
         /\ request[h] \in Asked
         /\ request[h].kind \in {"save", "revise", "review", "forget"}
         /\ request[h].kind # "save" => request[h].memory \in Memory /\ Expected(h)
         /\ memory \in [Memory -> [version : Nat, standing : {"none", "live", "deleted"}]]
<1>1. ~fence /\ ~Replays(h) /\ (request[h].kind # "save" => Expected(h))
  BY DEF Inv, FenceInv, HoldsBoundary, SeenInv, Seen
<1>2. request[h] \in Asked
  BY DEF Inv, TypeInv
<1> QED
  BY <1>1, <1>2, AskedFacts DEF Replays, Previous, Store!Used, Inv, TypeInv, TypeOK

\* Writing one more version of m performs the request.
LEMMA WritePerforms ==
  ASSUME ConstantAssumption, Inv, NEW h \in Handler, pc[h] = "locked", UNCHANGED <<fence, answers>>,
         NEW m \in Memory, NEW standing, Write(h, m, standing),
         standing = Store!Standing(request[h]), Store!Concerns(request[h], m)
  PROVE  Store!Perform(request[h])
<1>1. ~fence /\ ~Store!Used(request[h].key)
  BY CommitMayPerform
<1>2. Store!Remember(request[h], m, memory[m].version + 1)
  BY DEF Write, Remember, Store!Remember
<1> QED
  BY <1>1, <1>2 DEF Write, Store!Perform

LEMMA CommitImplements ==
  ASSUME ConstantAssumption, Inv, NEW h \in Handler, Commit(h)
  PROVE  Store!Perform(request[h]) \/ Store!WithdrawAgain(request[h])
<1> DEFINE m == request[h].memory
<1>1. pc[h] = "locked" /\ Effect(h) /\ UNCHANGED <<fence, answers>>
  BY DEF Commit
<1>2. /\ ~fence /\ ~Store!Used(request[h].key)
      /\ request[h].kind \in {"save", "revise", "review", "forget"}
      /\ request[h].kind # "save" => m \in Memory /\ Expected(h)
      /\ memory \in [Memory -> [version : Nat, standing : {"none", "live", "deleted"}]]
  BY <1>1, CommitMayPerform
<1>3. CASE request[h].kind = "save"
  <2>1. PICK new \in Memory : memory[new].standing = "none" /\ Write(h, new, "live")
    BY <1>1, <1>3 DEF Effect
  <2>2. Store!Concerns(request[h], new) /\ Store!Standing(request[h]) = "live"
    BY <1>3, <2>1 DEF Store!Concerns, Store!Standing
  <2> QED
    BY <1>1, <2>1, <2>2, WritePerforms
<1>4. CASE request[h].kind \in {"revise", "review"}
  <2>1. Write(h, m, "live") /\ m \in Memory
    BY <1>1, <1>2, <1>4 DEF Effect
  <2>2. memory[m] = [version |-> request[h].expected, standing |-> "live"]
    BY <1>2, <1>4 DEF Expected, Standing, Version
  <2>3. Store!Concerns(request[h], m) /\ Store!Standing(request[h]) = "live"
    BY <1>4, <2>2 DEF Store!Concerns, Store!Standing
  <2> QED
    BY <1>1, <2>1, <2>3, WritePerforms
<1>5. CASE request[h].kind = "forget" /\ Standing(h) # "deleted"
  <2>1. Write(h, m, "deleted") /\ m \in Memory
    BY <1>1, <1>2, <1>5 DEF Effect
  <2>2. memory[m] = [version |-> request[h].expected, standing |-> "live"]
    BY <1>2, <1>5 DEF Expected, Standing, Version
  <2>3. Store!Concerns(request[h], m) /\ Store!Standing(request[h]) = "deleted"
    BY <1>5, <2>2 DEF Store!Concerns, Store!Standing
  <2> QED
    BY <1>1, <2>1, <2>3, WritePerforms
<1>6. CASE request[h].kind = "forget" /\ Standing(h) = "deleted"
  <2>1. Remember(h, m, Version(h)) /\ UNCHANGED <<memory, written>>
    BY <1>1, <1>6 DEF Effect
  <2>2. Store!Remember(request[h], m, memory[m].version)
    BY <2>1 DEF Remember, Store!Remember, Version
  <2> QED
    BY <1>1, <1>2, <1>6, <2>1, <2>2 DEF Store!WithdrawAgain, Standing
<1> QED
  BY <1>2, <1>3, <1>4, <1>5, <1>6

\* A client is told the receipt of its key, if there is one.
LEMMA AnswerImplements ==
  ASSUME Inv, NEW h \in Handler, Answer(h)
  PROVE  (\E x \in receipts : Store!Tell(x)) \/ UNCHANGED Store!vars
<1>1. UNCHANGED <<memory, receipts, fence>> /\ answers' = answers \cup Previous(h)
  BY DEF Answer, stored
<1>2. CASE Previous(h) = {}
  BY <1>1, <1>2 DEF Store!vars
<1>3. CASE Previous(h) # {}
  <2>1. PICK x \in receipts : x.request.key = request[h].key
    BY <1>3 DEF Previous
  <2>2. Previous(h) = {x}
    BY <2>1 DEF Previous, Inv, StoredInv, ReceiptInv
  <2> QED
    BY <1>1, <2>2 DEF Store!Tell
<1> QED
  BY <1>2, <1>3

LEMMA StoreStep ==
  ASSUME ConstantAssumption, Inv, [Next]_vars PROVE [Store!Next]_Store!vars
<1>1. ASSUME NEW h \in Handler, Commit(h) PROVE Store!Next
  <2>1. request[h] \in Asked
    BY <1>1, CommitMayPerform DEF Commit
  <2> QED
    BY <1>1, <2>1, CommitImplements DEF Store!Next
<1>2. ASSUME NEW h \in Handler, Answer(h) PROVE [Store!Next]_Store!vars
  BY <1>2, AnswerImplements DEF Store!Next
<1>3. CASE Pause \/ Reopen
  BY <1>3 DEF Pause, Reopen, Store!Next, Store!Fence
<1>4. ASSUME NEW h \in Handler,
             \/ \E r \in Asked : Receive(h, r)
             \/ Admit(h) \/ TakeKey(h) \/ NeedsNoKey(h) \/ TakeRow(h) \/ Fail(h)
      PROVE  UNCHANGED Store!vars
  BY <1>4 DEF Receive, Admit, TakeKey, NeedsNoKey, TakeRow, Fail, stored, Store!vars
<1>5. CASE UNCHANGED vars
  BY <1>5 DEF vars, Store!vars
<1> QED
  BY <1>1, <1>2, <1>3, <1>4, <1>5 DEF Next, Handle

\* Whatever is asked, however requests overlap, wait, fail and are repeated, the
\* clients see a store in which each request is one step or none (memory.py,
\* repository.py, fences.py): the locks make the transactions indivisible.
THEOREM WritesImplementStore ==
  ASSUME ConstantAssumption PROVE Spec => ImplementsStore
<1>1. Init => Inv /\ Store!Init
  BY InitInv, StoreInit
<1>2. Inv /\ [Next]_vars => Inv'
  BY StepInv
<1>3. Inv /\ [Next]_vars => [Store!Next]_Store!vars
  BY StoreStep
<1> QED
  BY <1>1, <1>2, <1>3, PTL DEF Spec, ImplementsStore, Store!Spec
=============================================================================
