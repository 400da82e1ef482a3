--------------------------- MODULE GovernorProofs ---------------------------
(***************************************************************************)
(* What the governor guarantees for any number of nodes, identities,       *)
(* handlers, limits and costs.                                             *)
(***************************************************************************)
EXTENDS Governor, FiniteSetTheorems, TLAPS

LEMMA ProductNat == \A a, b \in Nat : a * b \in Nat
  OBVIOUS

(* The bucket arithmetic of checkState stays within 0 .. burst. *)
LEMMA RefilledType ==
    ASSUME TypeOK, NEW n \in Nodes, NEW id \in Ids
    PROVE  /\ SpentOf(n, id) \in Nat
           /\ LevelOf(n, id) \in Nat
           /\ LastFillOf(n, id) \in 0 .. clock
           /\ Refilled(n, id) \in Nat
<1> USE GovernorAssumption
<1>1. clock \in Nat /\ RPM[id] \in Nat
  BY DEF TypeOK
<1>2. SpentOf(n, id) \in Nat
  BY DEF TypeOK, SpentOf, Store!StoreTypeOK, Spend
<1>3. LevelOf(n, id) \in Nat
  <2>1. 60 * RPM[id] \in Nat
    BY <1>1
  <2> QED
    BY <2>1 DEF TypeOK, LevelOf
<1>4. LastFillOf(n, id) \in 0 .. clock
  BY <1>1 DEF TypeOK, LastFillOf
<1>5. (clock - LastFillOf(n, id)) * RPM[id] \in Nat
  <2>1. clock - LastFillOf(n, id) \in Nat
    BY <1>1, <1>4
  <2> QED
    BY <1>1, <2>1, ProductNat
<1>6. Refilled(n, id) \in Nat
  BY <1>1, <1>3, <1>5 DEF Refilled
<1> QED
  BY <1>2, <1>3, <1>4, <1>6

LEMMA IdentifyType ==
    ASSUME TypeOK, NEW n \in Nodes, NEW id \in Ids, NEW l \in Nat, NEW t \in 0 .. clock,
           Identify(n, id, l, t)
    PROVE  /\ clock' = clock /\ UNCHANGED <<storeVars, flushVars, used, seen, crashes>>
           /\ known' \in [Nodes -> SUBSET Subjects]
           /\ spent' \in [Nodes -> Spend]
           /\ level' \in [Nodes -> [Ids -> Nat]]
           /\ lastFill' \in [Nodes -> [Ids -> 0 .. clock]]
<1>1. SpentOf(n, id) \in Nat
  BY RefilledType
<1>2. spent' \in [Nodes -> Spend]
  BY <1>1 DEF Identify, TypeOK, Spend
<1>3. known' \in [Nodes -> SUBSET Subjects]
  BY DEF Identify, TypeOK
<1>4. level' \in [Nodes -> [Ids -> Nat]] /\ lastFill' \in [Nodes -> [Ids -> 0 .. clock]]
  BY DEF Identify, TypeOK
<1> QED
  BY <1>2, <1>3, <1>4 DEF Identify

LEMMA AccessType ==
    ASSUME TypeOK, NEW n \in Nodes, NEW id \in Ids, NEW l \in Nat, NEW t \in 0 .. clock,
           Identify(n, id, l, t), req' \in [Requests -> Serving \cup {Free}],
           takes' \in [Nodes -> [Ids -> Seq(Nat)]]
    PROVE  TypeOK'
<1>1. /\ clock' = clock
      /\ UNCHANGED <<up, stored, saving, loaded, todo, snap, flushing, used, seen, crashes>>
  BY DEF Identify, storeVars, flushVars
<1>2. /\ known' \in [Nodes -> SUBSET Subjects]
      /\ spent' \in [Nodes -> Spend]
      /\ level' \in [Nodes -> [Ids -> Nat]]
      /\ lastFill' \in [Nodes -> [Ids -> 0 .. clock']]
  BY <1>1, IdentifyType
<1>3. Store!StoreTypeOK'
  BY <1>1 DEF TypeOK, Store!StoreTypeOK
<1>4. /\ clock' \in Nat /\ todo' \in [Nodes -> SUBSET Ids] /\ snap' \in [Nodes -> Spend]
      /\ flushing' \in [Nodes -> BOOLEAN] /\ used' \in Spend
      /\ seen' \in [Nodes -> BOOLEAN] /\ crashes' \in Nat
  BY <1>1 DEF TypeOK
<1> QED
  BY <1>2, <1>3, <1>4 DEF TypeOK

(* The store's variables keep their type under each of its operations. *)
LEMMA StoreStepType ==
    ASSUME Store!StoreTypeOK, NEW n \in Nodes,
           \/ Store!Boot(n) \/ Store!BootUnreadable(n) \/ Store!CommitSave(n)
           \/ Store!FailSave(n) \/ Store!Crash(n)
           \/ \E s \in Spend : Store!BeginSave(n, s)
    PROVE  Store!StoreTypeOK'
<1> USE DEF Store!StoreTypeOK
<1>1. CASE Store!Boot(n)
  BY <1>1 DEF Store!Boot
<1>2. CASE Store!BootUnreadable(n)
  <2>1. NoSpend \in Spend
    BY DEF NoSpend, Spend
  <2> QED
    BY <1>2, <2>1 DEF Store!BootUnreadable
<1>3. CASE Store!CommitSave(n)
  <2>1. saving[n] \in Spend
    BY <1>3 DEF Store!CommitSave
  <2> QED
    BY <1>3, <2>1 DEF Store!CommitSave
<1>4. CASE Store!FailSave(n)
  BY <1>4 DEF Store!FailSave
<1>5. CASE Store!Crash(n)
  BY <1>5 DEF Store!Crash
<1>6. CASE \E s \in Spend : Store!BeginSave(n, s)
  BY <1>6 DEF Store!BeginSave
<1> QED
  BY <1>1, <1>2, <1>3, <1>4, <1>5, <1>6

LEMMA TypeInit == Init => TypeOK
<1> USE GovernorAssumption
<1> SUFFICES ASSUME Init PROVE TypeOK
  OBVIOUS
<1>1. \A id \in Ids : 60 * RPM[id] \in Nat
  BY ProductNat
<1>2. Store!StoreTypeOK
  BY DEF Init, Store!StoreInit, Store!StoreTypeOK, Spend, NoSpend
<1> QED
  BY <1>1, <1>2 DEF Init, TypeOK, Spend, NoSpend

(* The state keeps its type; in particular bucket levels never go negative *)
(* and no bucket was last filled in the future (keyState).                 *)
THEOREM TypeCorrect == Spec => []TypeOK
<1>1. Init => TypeOK
  BY TypeInit
<1>2. ASSUME TypeOK, [Next]_vars PROVE TypeOK'
  <2> USE <1>2
  <2>1. ASSUME NEW n \in Nodes, Start(n) \/ StartUnreadable(n) PROVE TypeOK'
    <3>1. Store!StoreTypeOK'
      BY <2>1, StoreStepType DEF Start, StartUnreadable, TypeOK
    <3>2. loaded'[n] \in Spend
      BY <3>1 DEF Store!StoreTypeOK
    <3>3. \A id \in Ids : 60 * RPM[id] \in Nat
      BY ProductNat, GovernorAssumption
    <3>4. New(n)
      BY <2>1 DEF Start, StartUnreadable
    <3>5. spent' \in [Nodes -> Spend]
      <4>1. [id \in Ids |-> IF id \in StaticIds THEN loaded'[n][id] ELSE 0] \in Spend
        BY <3>2 DEF Spend
      <4> QED
        BY <3>4, <4>1 DEF New, TypeOK
    <3>6. level' \in [Nodes -> [Ids -> Nat]]
      BY <3>3, <3>4 DEF New, TypeOK
    <3>7. lastFill' \in [Nodes -> [Ids -> 0 .. clock']] /\ clock' \in Nat
      BY <3>4 DEF New, TypeOK
    <3>8. takes' \in [Nodes -> [Ids -> Seq(Nat)]]
      BY <3>4 DEF New, TypeOK
    <3>9. /\ known' \in [Nodes -> SUBSET Subjects]
          /\ UNCHANGED <<req, todo, snap, flushing, used, crashes>>
          /\ seen' \in [Nodes -> BOOLEAN]
      BY <2>1, <3>4 DEF New, TypeOK, flushVars, Start, StartUnreadable
    <3> QED
      BY <3>1, <3>5, <3>6, <3>7, <3>8, <3>9 DEF TypeOK
  <2>2. ASSUME NEW n \in Nodes, Crash(n) PROVE TypeOK'
    <3>1. Store!StoreTypeOK'
      BY <2>2, StoreStepType DEF Crash, TypeOK
    <3> QED
      BY <2>2, <3>1 DEF Crash, TypeOK, keyVars, Spend, NoSpend
  <2>3. ASSUME NEW n \in Nodes, NEW id \in Ids, DenyBudget(n, id) \/ DenyRateLimited(n, id)
        PROVE  TypeOK'
    <3>1. clock \in 0 .. clock
      BY DEF TypeOK
    <3>2. /\ LevelOf(n, id) \in Nat /\ LastFillOf(n, id) \in 0 .. clock
          /\ Refilled(n, id) \in Nat
      BY RefilledType
    <3>3. /\ req' \in [Requests -> Serving \cup {Free}]
          /\ takes' \in [Nodes -> [Ids -> Seq(Nat)]]
      BY <2>3 DEF DenyBudget, DenyRateLimited, TypeOK
    <3> QED
      BY <2>3, <3>1, <3>2, <3>3, AccessType DEF DenyBudget, DenyRateLimited
  <2>4. ASSUME NEW r \in Requests, NEW n \in Nodes, NEW id \in Ids,
               NEW pc \in {"complete", "stream"}, Admit(r, n, id, pc)
        PROVE  TypeOK'
    <3>1. req' \in [Requests -> Serving \cup {Free}]
      BY <2>4 DEF Admit, TypeOK, Serving
    <3>2. clock \in 0 .. clock
      BY DEF TypeOK
    <3>3. CASE RPM[id] = 0
      <4>1. Identify(n, id, LevelOf(n, id), LastFillOf(n, id)) /\ takes' = takes
        BY <2>4, <3>3 DEF Admit
      <4>2. LevelOf(n, id) \in Nat /\ LastFillOf(n, id) \in 0 .. clock
        BY RefilledType
      <4>3. takes' \in [Nodes -> [Ids -> Seq(Nat)]]
        BY <4>1 DEF TypeOK
      <4> QED
        BY <3>1, <4>1, <4>2, <4>3, AccessType
    <3>4. CASE RPM[id] # 0
      <4>1. Refilled(n, id) - 60 \in Nat /\ Identify(n, id, Refilled(n, id) - 60, clock)
        <5>1. Refilled(n, id) >= 60 /\ Identify(n, id, Refilled(n, id) - 60, clock)
          BY <2>4, <3>4 DEF Admit
        <5>2. Refilled(n, id) \in Nat
          BY RefilledType
        <5> QED
          BY <5>1, <5>2
      <4>2. takes' \in [Nodes -> [Ids -> Seq(Nat)]]
        <5>1. takes[n][id] \in Seq(Nat) /\ clock \in Nat
          BY DEF TypeOK
        <5>2. Append(takes[n][id], clock) \in Seq(Nat)
          BY <5>1
        <5>3. takes' = [takes EXCEPT ![n][id] = Append(takes[n][id], clock)]
          BY <2>4, <3>4 DEF Admit
        <5> QED
          BY <5>2, <5>3 DEF TypeOK
      <4> QED
        BY <3>1, <3>2, <4>1, <4>2, AccessType
    <3> QED
      BY <3>3, <3>4
  <2>5. ASSUME NEW r \in Requests, NEW c \in Costs,
               Respond(r, c) \/ RespondStream(r, c)
        PROVE  TypeOK'
    <3>1. c \in Nat
      BY GovernorAssumption
    <3>2. req[r] \in Serving
      BY <2>5 DEF Respond, RecordSpend, RespondStream, TypeOK, Free
    <3>3. req[r].id \in Ids /\ req[r].node \in Nodes
      BY <3>2 DEF Serving
    <3>4. ASSUME NEW n \in Nodes, NEW id \in Ids
          PROVE  /\ [used EXCEPT ![id] = @ + c] \in Spend
                 /\ [spent EXCEPT ![n][id] = @ + c] \in [Nodes -> Spend]
      <4>1. used \in [Ids -> Nat] /\ spent \in [Nodes -> [Ids -> Nat]]
        BY DEF TypeOK, Spend
      <4>2. used[id] + c \in Nat /\ spent[n][id] + c \in Nat
        BY <3>1, <4>1
      <4> QED
        BY <4>1, <4>2 DEF Spend
    <3>5. used' \in Spend
      BY <2>5, <3>4, <3>3 DEF Respond, RecordSpend, RespondStream
    <3>6. spent' \in [Nodes -> Spend]
      <4>1. CASE Respond(r, c)
        <5>1. spent' = [spent EXCEPT ![req[r].node][req[r].id] = @ + c]
          BY <4>1 DEF Respond, RecordSpend
        <5> QED
          BY <5>1, <3>4, <3>3
      <4>2. CASE RespondStream(r, c)
        BY <4>2 DEF RespondStream, TypeOK
      <4> QED
        BY <2>5, <4>1, <4>2
    <3>7. Release(r)
      BY <2>5 DEF Respond, RecordSpend, RespondStream
    <3> QED
      BY <3>5, <3>6, <3>7 DEF Release, TypeOK, storeVars, flushVars, Store!StoreTypeOK
  <2>6. ASSUME NEW r \in Requests, Fail(r) PROVE TypeOK'
    BY <2>6 DEF Fail, Release, TypeOK, storeVars, flushVars, Store!StoreTypeOK
  <2>7. ASSUME NEW n \in Nodes, FlushStart(n) PROVE TypeOK'
    BY <2>7 DEF FlushStart, TypeOK, storeVars, keyVars, Store!StoreTypeOK, Ids, Spend, NoSpend
  <2>8. ASSUME NEW n \in Nodes, NEW id \in Ids, FlushRead(n, id) PROVE TypeOK'
    BY <2>8 DEF FlushRead, TypeOK, storeVars, keyVars, Store!StoreTypeOK, Spend
  <2>9. ASSUME NEW n \in Nodes, FlushSave(n) PROVE TypeOK'
    <3>1. Store!StoreTypeOK'
      BY <2>9, StoreStepType DEF FlushSave, TypeOK
    <3> QED
      BY <2>9, <3>1 DEF FlushSave, TypeOK, keyVars, Spend, NoSpend
  <2>10. ASSUME NEW n \in Nodes, SaveDone(n) \/ SaveFails(n) PROVE TypeOK'
    <3>1. Store!StoreTypeOK'
      BY <2>10, StoreStepType DEF SaveDone, SaveFails, TypeOK
    <3> QED
      BY <2>10, <3>1 DEF SaveDone, SaveFails, TypeOK, keyVars, flushVars
  <2>11. ASSUME NEW d \in Steps, Tick(d) PROVE TypeOK'
    <3>1. clock' \in Nat /\ 0 .. clock \subseteq 0 .. clock'
      BY <2>11, GovernorAssumption DEF Tick, TypeOK
    <3> QED
      BY <2>11, <3>1 DEF Tick, TypeOK, storeVars, keyVars, flushVars, Store!StoreTypeOK
  <2>12. CASE UNCHANGED vars
    BY <2>12 DEF vars, TypeOK, storeVars, keyVars, flushVars, Store!StoreTypeOK
  <2> QED
    BY <2>1, <2>2, <2>3, <2>4, <2>5, <2>6, <2>7, <2>8, <2>9, <2>10, <2>11, <2>12
       DEF Next
<1> QED
  BY <1>1, <1>2, PTL DEF Spec

-----------------------------------------------------------------------------
(* Every total anywhere in the system is at most what the identity's       *)
(* responses reported: the induction behind NeverOvercharged.              *)
LedgerInv ==
    \A id \in Ids :
        /\ stored[id] <= used[id]
        /\ \A n \in Nodes :
              /\ spent[n][id] <= used[id]
              /\ loaded[n][id] <= used[id]
              /\ snap[n][id] <= used[id]
              /\ saving[n] # NoSave => saving[n][id] <= used[id]

LEMMA LedgerNumbers ==
    ASSUME TypeOK, NEW n \in Nodes, NEW id \in Ids
    PROVE  /\ used[id] \in Nat /\ stored[id] \in Nat
           /\ spent[n][id] \in Nat /\ loaded[n][id] \in Nat /\ snap[n][id] \in Nat
           /\ saving[n] # NoSave => saving[n] \in Spend /\ saving[n][id] \in Nat
  BY DEF TypeOK, Store!StoreTypeOK, Spend

LEMMA LedgerStep ==
    ASSUME TypeOK, TypeOK', LedgerInv, [Next]_vars
    PROVE  LedgerInv'
<1> USE GovernorAssumption
<1>1. ASSUME NEW n \in Nodes, Start(n) \/ StartUnreadable(n) PROVE LedgerInv'
  <2>0. /\ loaded' = [loaded EXCEPT ![n] = stored] \/ loaded' = [loaded EXCEPT ![n] = NoSpend]
        /\ UNCHANGED <<stored, saving, snap, used>>
        /\ New(n)
    BY <1>1 DEF Start, StartUnreadable, Store!Boot, Store!BootUnreadable, New, flushVars
  <2>1. /\ \A id \in Ids : loaded'[n][id] <= used[id]
        /\ \A m \in Nodes \ {n} : loaded'[m] = loaded[m]
    <3>1. \A id \in Ids : stored[id] <= used[id] /\ NoSpend[id] <= used[id]
      BY LedgerNumbers DEF LedgerInv, NoSpend
    <3>2. loaded \in [Nodes -> Spend]
      BY DEF TypeOK, Store!StoreTypeOK
    <3> QED
      BY <2>0, <3>1, <3>2
  <2>2. /\ \A id \in Ids : spent'[n][id] <= used[id]
        /\ \A m \in Nodes \ {n} : spent'[m] = spent[m]
    <3>1. spent \in [Nodes -> Spend] /\ \A id \in Ids : used[id] >= 0
      BY DEF TypeOK, Spend
    <3>2. spent' = [spent EXCEPT ![n] =
                       [id \in Ids |-> IF id \in StaticIds THEN loaded'[n][id] ELSE 0]]
      BY <2>0 DEF New
    <3> QED
      BY <2>1, <3>1, <3>2
  <2> QED
    BY <2>0, <2>1, <2>2 DEF LedgerInv
<1>2. ASSUME NEW n \in Nodes, Crash(n) PROVE LedgerInv'
  <2>1. /\ \A id \in Ids : snap'[n][id] <= used[id]
        /\ \A m \in Nodes \ {n} : snap'[m] = snap[m] /\ saving'[m] = saving[m]
        /\ saving'[n] = NoSave
        /\ UNCHANGED <<stored, loaded, spent, used>>
    BY <1>2, LedgerNumbers DEF Crash, Store!Crash, keyVars, NoSpend, TypeOK, Store!StoreTypeOK
  <2> QED
    BY <2>1 DEF LedgerInv
<1>3. ASSUME NEW n \in Nodes, NEW id \in Ids, NEW l, NEW t, Identify(n, id, l, t)
      PROVE  LedgerInv'
  <2>1. SpentOf(n, id) <= used[id]
    BY DEF LedgerInv, SpentOf
  <2>2. /\ \A m \in Nodes, i \in Ids :
              spent'[m][i] = IF m = n /\ i = id THEN SpentOf(n, id) ELSE spent[m][i]
        /\ UNCHANGED <<stored, saving, loaded, snap, used>>
    <3>1. spent \in [Nodes -> Spend] /\ spent' = [spent EXCEPT ![n][id] = SpentOf(n, id)]
      BY <1>3 DEF Identify, TypeOK
    <3>2. UNCHANGED <<stored, saving, loaded, snap, used>>
      BY <1>3 DEF Identify, storeVars, flushVars
    <3> QED
      BY <3>1, <3>2 DEF Spend
  <2> QED
    BY <2>1, <2>2 DEF LedgerInv
<1>4. ASSUME NEW n \in Nodes, NEW id \in Ids, DenyBudget(n, id) \/ DenyRateLimited(n, id)
      PROVE  LedgerInv'
  BY <1>3, <1>4 DEF DenyBudget, DenyRateLimited
<1>5. ASSUME NEW r \in Requests, NEW n \in Nodes, NEW id \in Ids,
             NEW pc \in {"complete", "stream"}, Admit(r, n, id, pc)
      PROVE  LedgerInv'
  BY <1>3, <1>5 DEF Admit
<1>6. ASSUME NEW r \in Requests, NEW c \in Costs, Respond(r, c) \/ RespondStream(r, c)
      PROVE  LedgerInv'
  <2>1. PICK n \in Nodes, id \in Ids :
           /\ used' = [used EXCEPT ![id] = @ + c]
           /\ spent' = [spent EXCEPT ![n][id] = @ + c] \/ spent' = spent
    <3>1. req[r] \in Serving
      BY <1>6 DEF Respond, RecordSpend, RespondStream, TypeOK, Free
    <3> QED
      BY <1>6, <3>1 DEF Respond, RecordSpend, RespondStream, Serving
  <2>2. c \in Nat
    OBVIOUS
  <2>3. \A i \in Ids : /\ used'[i] = IF i = id THEN used[i] + c ELSE used[i]
                       /\ used'[i] >= used[i]
    <3>1. used \in [Ids -> Nat]
      BY DEF TypeOK, Spend
    <3> QED
      BY <2>1, <2>2, <3>1
  <2>4. \A m \in Nodes, i \in Ids : \/ spent'[m][i] = spent[m][i]
                                    \/ i = id /\ spent'[m][i] = spent[m][i] + c
    <3>1. spent \in [Nodes -> Spend]
      BY DEF TypeOK
    <3>2. spent' = [spent EXCEPT ![n][id] = spent[n][id] + c] \/ spent' = spent
      BY <2>1
    <3> QED
      BY <3>1, <3>2 DEF Spend
  <2>5. UNCHANGED <<stored, saving, loaded, snap>>
    BY <1>6 DEF Respond, RecordSpend, RespondStream, Release, storeVars, flushVars
  <2>6. \A m \in Nodes, i \in Ids : spent'[m][i] <= used'[i]
    BY <2>2, <2>3, <2>4, LedgerNumbers DEF LedgerInv
  <2>7. ASSUME NEW i \in Ids PROVE used'[i] \in Nat
    BY DEF TypeOK, Spend
  <2> QED
    BY <2>3, <2>5, <2>6, <2>7, LedgerNumbers DEF LedgerInv
<1>7. ASSUME NEW r \in Requests, Fail(r) PROVE LedgerInv'
  BY <1>7 DEF Fail, Release, LedgerInv, storeVars, flushVars
<1>8. ASSUME NEW n \in Nodes, FlushStart(n) PROVE LedgerInv'
  <2>1. /\ \A id \in Ids : snap'[n][id] <= used[id]
        /\ \A m \in Nodes \ {n} : snap'[m] = snap[m]
        /\ UNCHANGED <<stored, saving, loaded, spent, used>>
    BY <1>8, LedgerNumbers DEF FlushStart, storeVars, keyVars, NoSpend, TypeOK
  <2> QED
    BY <2>1 DEF LedgerInv
<1>9. ASSUME NEW n \in Nodes, NEW id \in Ids, FlushRead(n, id) PROVE LedgerInv'
  <2>1. /\ \A m \in Nodes, i \in Ids :
              snap'[m][i] = IF m = n /\ i = id THEN spent[n][id] ELSE snap[m][i]
        /\ UNCHANGED <<stored, saving, loaded, spent, used>>
    <3>1. snap \in [Nodes -> Spend] /\ snap' = [snap EXCEPT ![n][id] = spent[n][id]]
      BY <1>9 DEF FlushRead, TypeOK
    <3>2. UNCHANGED <<stored, saving, loaded, spent, used>>
      BY <1>9 DEF FlushRead, storeVars, keyVars
    <3> QED
      BY <3>1, <3>2 DEF Spend
  <2> QED
    BY <2>1 DEF LedgerInv
<1>10. ASSUME NEW n \in Nodes, FlushSave(n) PROVE LedgerInv'
  <2>1. /\ \A id \in Ids : snap'[n][id] <= used[id]
        /\ \A m \in Nodes \ {n} : snap'[m] = snap[m] /\ saving'[m] = saving[m]
        /\ saving'[n] = snap[n]
        /\ UNCHANGED <<stored, loaded, spent, used>>
    BY <1>10, LedgerNumbers DEF FlushSave, Store!BeginSave, keyVars, NoSpend, TypeOK,
       Store!StoreTypeOK
  <2> QED
    BY <2>1 DEF LedgerInv
<1>11. ASSUME NEW n \in Nodes, SaveDone(n) \/ SaveFails(n) PROVE LedgerInv'
  <2>1. /\ \/ saving[n] # NoSave /\ stored' = saving[n]
           \/ stored' = stored
        /\ \A m \in Nodes \ {n} : saving'[m] = saving[m]
        /\ saving'[n] = NoSave
        /\ UNCHANGED <<snap, loaded, spent, used>>
    BY <1>11 DEF SaveDone, SaveFails, Store!CommitSave, Store!FailSave, keyVars, flushVars,
       TypeOK, Store!StoreTypeOK
  <2> QED
    BY <2>1 DEF LedgerInv
<1>12. ASSUME NEW d \in Steps, Tick(d) PROVE LedgerInv'
  BY <1>12 DEF Tick, LedgerInv, storeVars, keyVars, flushVars
<1>13. CASE UNCHANGED vars
  BY <1>13 DEF vars, LedgerInv, storeVars, keyVars, flushVars
<1> QED
  BY <1>1, <1>2, <1>4, <1>5, <1>6, <1>7, <1>8, <1>9, <1>10, <1>11, <1>12, <1>13 DEF Next

(* No identity is ever charged for more than its responses reported, in    *)
(* memory or on disk (RecordSpend, Flush, New, oidcState).                 *)
THEOREM NeverOverchargedHolds == Spec => []NeverOvercharged
<1>1. Init => LedgerInv
  BY DEF Init, Store!StoreInit, LedgerInv, NoSpend
<1>2. TypeOK /\ TypeOK' /\ LedgerInv /\ [Next]_vars => LedgerInv'
  BY LedgerStep
<1>3. LedgerInv => NeverOvercharged
  BY DEF LedgerInv, NeverOvercharged
<1> QED
  BY <1>1, <1>2, <1>3, TypeCorrect, PTL DEF Spec

-----------------------------------------------------------------------------
(* The induction behind OvershootBounded: what an identity has been        *)
(* charged plus what its running handlers can still be charged stays below *)
(* the bound, and so does every total a restart could resume from.         *)
(* Handlers run only on nodes that are up, for identities the node knows.  *)
HandlersAlive ==
    \A r \in Requests : req[r] # Free => up[req[r].node] /\ ~Fresh(req[r].node, req[r].id)

Limit(id) == MaxTokens[id] + Overshoot
Pending(n, id) == MaxCost * Cardinality(InFlight(n, id))

BudgetInv ==
    /\ HandlersAlive
    /\ \A id \in Ids : MaxTokens[id] > 0 =>
          /\ stored[id] < Limit(id)
          /\ \A n \in Nodes :
                /\ loaded[n][id] < Limit(id)
                /\ snap[n][id] < Limit(id)
                /\ saving[n] # NoSave => saving[n][id] < Limit(id)
                /\ spent[n][id] + Pending(n, id) < Limit(id)

LEMMA InFlightFinite ==
    ASSUME NEW n \in Nodes, NEW id \in Ids
    PROVE  /\ IsFiniteSet(InFlight(n, id))
           /\ Cardinality(InFlight(n, id)) \in 0 .. Cardinality(Requests)
           /\ Cardinality(Requests) \in Nat
           /\ Pending(n, id) \in Nat
           /\ Pending(n, id) <= Overshoot
           /\ Overshoot \in Nat
           /\ MaxTokens[id] \in Nat
           /\ Limit(id) \in Nat
<1>1. InFlight(n, id) \subseteq Requests /\ IsFiniteSet(Requests)
  BY GovernorAssumption DEF InFlight
<1>2. /\ IsFiniteSet(InFlight(n, id))
      /\ Cardinality(InFlight(n, id)) <= Cardinality(Requests)
  BY <1>1, FS_Subset
<1>3. Cardinality(InFlight(n, id)) \in Nat /\ Cardinality(Requests) \in Nat
  BY <1>1, <1>2, FS_CardinalityType
<1>4. \A a, b, c \in Nat : a <= b => c * a <= c * b /\ c * a \in Nat /\ c * b \in Nat
  OBVIOUS
<1> QED
  BY <1>2, <1>3, <1>4, GovernorAssumption DEF Overshoot, Pending, Limit

LEMMA NothingPending ==
    /\ MaxCost * Cardinality({}) = 0
    /\ \A n \in Nodes, id \in Ids : InFlight(n, id) = {} => Pending(n, id) = 0
<1>1. Cardinality({}) = 0
  BY FS_EmptySet
<1>2. MaxCost * 0 = 0
  BY GovernorAssumption
<1> QED
  BY <1>1, <1>2 DEF Pending

(* The same handlers in flight before and after a step. *)
LEMMA InFlightSame ==
    ASSUME req' = req
    PROVE  \A n \in Nodes, id \in Ids : InFlight(n, id)' = InFlight(n, id)
                                      /\ Pending(n, id)' = Pending(n, id)
  BY DEF InFlight, Pending

(* A handler that ends leaves its identity's set, and only that one. *)
LEMMA InFlightRelease ==
    ASSUME TypeOK, NEW r \in Requests, req[r] # Free, Release(r)
    PROVE  /\ req[r].node \in Nodes /\ req[r].id \in Ids
           /\ \A n \in Nodes, id \in Ids :
                 IF n = req[r].node /\ id = req[r].id
                 THEN Cardinality(InFlight(n, id)') = Cardinality(InFlight(n, id)) - 1
                 ELSE InFlight(n, id)' = InFlight(n, id)
<1>1. req[r].node \in Nodes /\ req[r].id \in Ids
  BY DEF TypeOK, Serving
<1>2. req' = [req EXCEPT ![r] = Free]
  BY DEF Release
<1>3. ASSUME NEW n \in Nodes, NEW id \in Ids, n = req[r].node, id = req[r].id
      PROVE  Cardinality(InFlight(n, id)') = Cardinality(InFlight(n, id)) - 1
  <2>1. InFlight(n, id)' = InFlight(n, id) \ {r} /\ r \in InFlight(n, id)
    BY <1>2, <1>3 DEF InFlight, TypeOK
  <2>2. IsFiniteSet(InFlight(n, id))
    BY InFlightFinite
  <2> QED
    BY <2>1, <2>2, FS_RemoveElement
<1>4. ASSUME NEW n \in Nodes, NEW id \in Ids, ~(n = req[r].node /\ id = req[r].id)
      PROVE  InFlight(n, id)' = InFlight(n, id)
  BY <1>2, <1>4 DEF InFlight, TypeOK
<1> QED
  BY <1>1, <1>3, <1>4

LEMMA BudgetStep ==
    ASSUME TypeOK, TypeOK', BudgetInv, [Next]_vars
    PROVE  BudgetInv'
<1> USE GovernorAssumption
<1>0. \A id \in Ids : Limit(id)' = Limit(id)
  BY DEF Limit, Overshoot
<1>1. ASSUME NEW n \in Nodes, Start(n) \/ StartUnreadable(n) PROVE BudgetInv'
  <2>0. /\ ~up[n]
        /\ up' = [up EXCEPT ![n] = TRUE]
        /\ loaded' = [loaded EXCEPT ![n] = stored] \/ loaded' = [loaded EXCEPT ![n] = NoSpend]
        /\ UNCHANGED <<stored, saving, snap, req>>
        /\ New(n)
    BY <1>1 DEF Start, StartUnreadable, Store!Boot, Store!BootUnreadable, New, flushVars
  <2>1. \A id \in Ids : MaxTokens[id] > 0 =>
            stored[id] < Limit(id) /\ NoSpend[id] < Limit(id)
    BY InFlightFinite DEF BudgetInv, NoSpend, Limit
  <2>2. /\ \A id \in Ids : MaxTokens[id] > 0 => loaded'[n][id] < Limit(id)
        /\ \A m \in Nodes \ {n} : loaded'[m] = loaded[m]
    BY <2>0, <2>1 DEF TypeOK, Store!StoreTypeOK
  <2>3. \A id \in Ids : InFlight(n, id)' = {}
    BY <2>0 DEF BudgetInv, HandlersAlive, InFlight
  <2>4. spent' = [spent EXCEPT ![n] =
                     [id \in Ids |-> IF id \in StaticIds THEN loaded'[n][id] ELSE 0]]
    BY <2>0 DEF New
  <2>5. /\ \A id \in Ids : MaxTokens[id] > 0 => spent'[n][id] < Limit(id)
        /\ \A m \in Nodes \ {n} : spent'[m] = spent[m]
    BY <2>1, <2>2, <2>4 DEF TypeOK, NoSpend
  <2>6. \A id \in Ids : MaxTokens[id] > 0 => spent'[n][id] + Pending(n, id)' < Limit(id)
    <3>1. \A id \in Ids : Pending(n, id)' = 0
      BY <2>3, NothingPending DEF Pending
    <3>2. \A id \in Ids : spent'[n][id] \in Nat
      BY DEF TypeOK, Spend
    <3> QED
      BY <2>5, <3>1, <3>2
  <2>7. \A m \in Nodes \ {n}, id \in Ids : Pending(m, id)' = Pending(m, id)
    BY <2>0, InFlightSame
  <2>8. HandlersAlive'
    <3>1. ASSUME NEW r \in Requests, req[r] # Free
          PROVE  req[r].node # n /\ up'[req[r].node] /\ known'[req[r].node] = known[req[r].node]
      <4>1. req[r].node \in Nodes /\ up[req[r].node]
        BY <3>1 DEF BudgetInv, HandlersAlive, TypeOK, Serving
      <4> QED
        BY <2>0, <4>1 DEF New, TypeOK, Store!StoreTypeOK
    <3> QED
      BY <2>0, <3>1 DEF BudgetInv, HandlersAlive, Fresh
  <2> QED
    <3>1. ASSUME NEW id \in Ids, MaxTokens[id] > 0, NEW m \in Nodes
          PROVE  /\ loaded'[m][id] < Limit(id)
                 /\ spent'[m][id] + Pending(m, id)' < Limit(id)
      <4>1. CASE m = n
        BY <2>2, <2>6, <3>1, <4>1
      <4>2. CASE m # n
        BY <2>2, <2>5, <2>7, <3>1, <4>2 DEF BudgetInv
      <4> QED
        BY <4>1, <4>2
    <3> QED
      BY <1>0, <2>0, <2>8, <3>1 DEF BudgetInv
<1>2. ASSUME NEW n \in Nodes, Crash(n) PROVE BudgetInv'
  <2>1. /\ \A id \in Ids : snap'[n][id] = 0
        /\ \A m \in Nodes \ {n} : snap'[m] = snap[m] /\ saving'[m] = saving[m] /\ up'[m] = up[m]
        /\ saving'[n] = NoSave
        /\ UNCHANGED <<stored, loaded, spent, known>>
    BY <1>2 DEF Crash, Store!Crash, keyVars, NoSpend, TypeOK, Store!StoreTypeOK
  <2>2. \A r \in Requests : /\ req'[r] # Free => req'[r] = req[r] /\ req[r].node # n
                            /\ req[r] # Free /\ req[r].node # n => req'[r] = req[r]
    BY <1>2 DEF Crash
  <2>3. HandlersAlive'
    <3>1. \A r \in Requests : req[r] # Free => req[r].node \in Nodes
      BY DEF TypeOK, Serving
    <3> QED
      BY <2>1, <2>2, <3>1 DEF BudgetInv, HandlersAlive, Fresh
  <2>4. ASSUME NEW m \in Nodes, NEW id \in Ids
        PROVE  Pending(m, id)' <= Pending(m, id) /\ Pending(m, id)' \in Nat
    <3>1. InFlight(m, id)' = {} \/ InFlight(m, id)' = InFlight(m, id)
      BY <2>2 DEF InFlight
    <3> QED
      <4>1. CASE InFlight(m, id)' = {}
        BY <4>1, NothingPending, InFlightFinite DEF Pending
      <4>2. CASE InFlight(m, id)' = InFlight(m, id)
        <5>1. Pending(m, id)' = Pending(m, id)
          BY <4>2 DEF Pending
        <5> QED
          BY <5>1, InFlightFinite
      <4> QED
        BY <3>1, <4>1, <4>2
  <2>5. ASSUME NEW id \in Ids, MaxTokens[id] > 0, NEW m \in Nodes
        PROVE  spent'[m][id] + Pending(m, id)' < Limit(id)
    BY <2>1, <2>4, <2>5, InFlightFinite, LedgerNumbers DEF BudgetInv
  <2>6. ASSUME NEW id \in Ids, MaxTokens[id] > 0, NEW m \in Nodes
        PROVE  /\ snap'[m][id] < Limit(id)
               /\ saving'[m] # NoSave => saving'[m][id] < Limit(id)
    BY <2>1, <2>6, InFlightFinite DEF BudgetInv, Limit
  <2> QED
    BY <1>0, <2>1, <2>3, <2>5, <2>6 DEF BudgetInv
<1>3. ASSUME NEW n \in Nodes, NEW id \in Ids, NEW l, NEW t, Identify(n, id, l, t)
      PROVE  /\ UNCHANGED <<up, stored, saving, loaded, snap>>
             /\ known'[n] = known[n] \cup ({id} \cap Subjects)
             /\ \A m \in Nodes \ {n} : known'[m] = known[m]
             /\ \A m \in Nodes, i \in Ids :
                   spent'[m][i] = IF m = n /\ i = id THEN SpentOf(n, id) ELSE spent[m][i]
  <2>1. spent \in [Nodes -> Spend] /\ spent' = [spent EXCEPT ![n][id] = SpentOf(n, id)]
    BY <1>3 DEF Identify, TypeOK
  <2>2. known \in [Nodes -> SUBSET Subjects]
    BY DEF TypeOK
  <2>3. known' = [known EXCEPT ![n] = known[n] \cup ({id} \cap Subjects)]
    BY <1>3, <2>2 DEF Identify
  <2> QED
    BY <1>3, <2>1, <2>2, <2>3 DEF Identify, storeVars, flushVars, Spend
<1>4. ASSUME NEW n \in Nodes, NEW id \in Ids, Fresh(n, id)
      PROVE  InFlight(n, id) = {}
  BY <1>4 DEF BudgetInv, HandlersAlive, InFlight
<1>5. ASSUME NEW n \in Nodes, NEW id \in Ids, DenyBudget(n, id) \/ DenyRateLimited(n, id)
      PROVE  BudgetInv'
  <2>1. /\ UNCHANGED <<up, stored, saving, loaded, snap, req>>
        /\ \A m \in Nodes : known[m] \subseteq known'[m]
        /\ \A m \in Nodes, i \in Ids :
              spent'[m][i] = IF m = n /\ i = id THEN SpentOf(n, id) ELSE spent[m][i]
    BY <1>3, <1>5 DEF DenyBudget, DenyRateLimited
  <2>2. HandlersAlive'
    <3>1. \A q \in Requests : req[q] # Free => req[q].node \in Nodes
      BY DEF TypeOK, Serving
    <3> QED
      BY <2>1, <3>1 DEF BudgetInv, HandlersAlive, Fresh
  <2>3. ASSUME MaxTokens[id] > 0
        PROVE  SpentOf(n, id) + Pending(n, id) < Limit(id)
    <3>1. CASE Fresh(n, id)
      <4>1. Pending(n, id) = 0
        BY <1>4, <3>1, NothingPending
      <4> QED
        BY <2>3, <3>1, <4>1, LedgerNumbers DEF BudgetInv, SpentOf
    <3>2. CASE ~Fresh(n, id)
      BY <2>3, <3>2 DEF BudgetInv, SpentOf
    <3> QED
      BY <3>1, <3>2
  <2> QED
    BY <1>0, <2>1, <2>2, <2>3, InFlightSame DEF BudgetInv
<1>6. ASSUME NEW r \in Requests, NEW n \in Nodes, NEW id \in Ids,
             NEW pc \in {"complete", "stream"}, Admit(r, n, id, pc)
      PROVE  BudgetInv'
  <2>1. /\ UNCHANGED <<up, stored, saving, loaded, snap>>
        /\ known'[n] = known[n] \cup ({id} \cap Subjects)
        /\ \A m \in Nodes \ {n} : known'[m] = known[m]
        /\ \A m \in Nodes, i \in Ids :
              spent'[m][i] = IF m = n /\ i = id THEN SpentOf(n, id) ELSE spent[m][i]
        /\ up[n]
    <3>1. \E l, t : Identify(n, id, l, t)
      BY <1>6 DEF Admit
    <3>2. up[n]
      BY <3>1 DEF Identify
    <3> QED
      BY <1>3, <3>1, <3>2
  <2>2. /\ req' = [req EXCEPT ![r] = [pc |-> pc, node |-> n, id |-> id]]
        /\ req[r] = Free
        /\ MaxTokens[id] > 0 => SpentOf(n, id) < MaxTokens[id]
    BY <1>6, RefilledType DEF Admit, OverBudget
  <2>3. HandlersAlive'
    <3>1. \A q \in Requests : req[q] # Free => req[q].node \in Nodes
      BY DEF TypeOK, Serving
    <3>2. ~Fresh(n, id)'
      BY <2>1 DEF Fresh
    <3>3. \A q \in Requests \ {r} : req'[q] = req[q]
      BY <2>2 DEF TypeOK
    <3>4. req'[r].node = n /\ req'[r].id = id
      BY <2>2 DEF TypeOK
    <3> QED
      BY <2>1, <3>1, <3>2, <3>3, <3>4 DEF BudgetInv, HandlersAlive, Fresh
  <2>4. \A m \in Nodes, i \in Ids :
            ~(m = n /\ i = id) => InFlight(m, i)' = InFlight(m, i) /\ Pending(m, i)' = Pending(m, i)
    BY <2>2 DEF InFlight, Pending, TypeOK, Free
  <2>5. ASSUME MaxTokens[id] > 0 PROVE spent'[n][id] + Pending(n, id)' < Limit(id)
    <3>1. Pending(n, id)' <= Overshoot /\ Pending(n, id)' \in Nat
      <4>1. InFlight(n, id)' \subseteq Requests /\ IsFiniteSet(Requests)
        BY DEF InFlight
      <4>2. /\ Cardinality(InFlight(n, id)') \in Nat /\ Cardinality(Requests) \in Nat
            /\ Cardinality(InFlight(n, id)') <= Cardinality(Requests)
        BY <4>1, FS_Subset, FS_CardinalityType
      <4>3. \A a, b, c \in Nat : a <= b => c * a <= c * b /\ c * a \in Nat
        OBVIOUS
      <4> QED
        BY <4>2, <4>3 DEF Overshoot, Pending
    <3>2. spent'[n][id] < MaxTokens[id] /\ spent'[n][id] \in Nat
      BY <2>1, <2>2, <2>5, RefilledType
    <3> QED
      BY <3>1, <3>2, InFlightFinite DEF Limit
  <2> QED
    BY <1>0, <2>1, <2>3, <2>4, <2>5 DEF BudgetInv
<1>7. ASSUME NEW r \in Requests, req[r] # Free, Release(r),
             \/ spent' = spent
             \/ \E c \in Costs : spent' = [spent EXCEPT ![req[r].node][req[r].id] = @ + c]
      PROVE  BudgetInv'
  <2>1. PICK c \in 0 .. MaxCost :
           \A m \in Nodes, i \in Ids :
              spent'[m][i] = IF m = req[r].node /\ i = req[r].id
                             THEN spent[m][i] + c ELSE spent[m][i]
    <3>1. CASE spent' = spent
      <4>1. \A m \in Nodes, i \in Ids : spent'[m][i] = spent[m][i] /\ spent[m][i] + 0 = spent[m][i]
        BY <3>1, LedgerNumbers
      <4> QED
        BY <4>1
    <3>2. CASE \E c \in Costs : spent' = [spent EXCEPT ![req[r].node][req[r].id] = @ + c]
      <4>1. spent \in [Nodes -> Spend]
        BY DEF TypeOK
      <4> QED
        BY <3>2, <4>1 DEF Spend
    <3> QED
      BY <1>7, <3>1, <3>2
  <2>2. UNCHANGED <<up, stored, saving, loaded, known, snap>>
    BY <1>7 DEF Release, storeVars, flushVars
  <2>3. HandlersAlive'
    <3>1. \A q \in Requests : req'[q] # Free => req'[q] = req[q]
      BY <1>7 DEF Release, TypeOK
    <3> QED
      BY <2>2, <3>1 DEF BudgetInv, HandlersAlive, Fresh
  <2>4. ASSUME NEW m \in Nodes, NEW i \in Ids, MaxTokens[i] > 0
        PROVE  spent'[m][i] + Pending(m, i)' < Limit(i)
    <3>1. CASE m = req[r].node /\ i = req[r].id
      <4>1. Cardinality(InFlight(m, i)') = Cardinality(InFlight(m, i)) - 1
        BY <1>7, <3>1, InFlightRelease
      <4>2. Pending(m, i)' = Pending(m, i) - MaxCost
        <5>1. Cardinality(InFlight(m, i)) \in Int
          BY InFlightFinite
        <5>2. \A a, b \in Int : a * (b - 1) = a * b - a
          OBVIOUS
        <5> QED
          BY <4>1, <5>1, <5>2 DEF Pending
      <4>3. spent'[m][i] = spent[m][i] + c
        BY <2>1, <3>1
      <4> QED
        BY <2>4, <4>2, <4>3, InFlightFinite, LedgerNumbers DEF BudgetInv
    <3>2. CASE ~(m = req[r].node /\ i = req[r].id)
      <4>1. InFlight(m, i)' = InFlight(m, i)
        BY <1>7, <3>2, InFlightRelease
      <4> QED
        BY <2>1, <2>4, <3>2, <4>1 DEF BudgetInv, Pending
    <3> QED
      BY <3>1, <3>2
  <2> QED
    BY <1>0, <2>2, <2>3, <2>4 DEF BudgetInv
<1>8. ASSUME NEW r \in Requests,
             Fail(r) \/ \E c \in Costs : Respond(r, c) \/ RespondStream(r, c)
      PROVE  BudgetInv'
  <2>1. req[r] # Free /\ Release(r)
    <3>1. Free.pc \notin {"complete", "stream"}
      BY DEF Free
    <3> QED
      BY <1>8, <3>1 DEF Fail, Respond, RecordSpend, RespondStream
  <2>2. CASE Fail(r) \/ \E c \in Costs : RespondStream(r, c)
    BY <1>7, <2>1, <2>2 DEF Fail, RespondStream
  <2>3. CASE \E c \in Costs : Respond(r, c)
    BY <1>7, <2>1, <2>3 DEF Respond, RecordSpend
  <2> QED
    BY <1>8, <2>2, <2>3
<1>9. ASSUME NEW n \in Nodes, FlushStart(n) PROVE BudgetInv'
  <2>1. /\ \A id \in Ids : snap'[n][id] = 0
        /\ \A m \in Nodes \ {n} : snap'[m] = snap[m]
        /\ UNCHANGED <<up, stored, saving, loaded, spent, known, req>>
    BY <1>9 DEF FlushStart, storeVars, keyVars, NoSpend, TypeOK
  <2>2. HandlersAlive'
    BY <2>1 DEF BudgetInv, HandlersAlive, Fresh
  <2> QED
    BY <1>0, <2>1, <2>2, InFlightSame, InFlightFinite DEF BudgetInv, Limit
<1>10. ASSUME NEW n \in Nodes, NEW id \in Ids, FlushRead(n, id) PROVE BudgetInv'
  <2>1. \A m \in Nodes, i \in Ids :
              snap'[m][i] = IF m = n /\ i = id THEN spent[n][id] ELSE snap[m][i]
    <3>1. snap \in [Nodes -> Spend] /\ snap' = [snap EXCEPT ![n][id] = spent[n][id]]
      BY <1>10 DEF FlushRead, TypeOK
    <3> QED
      BY <3>1 DEF Spend
  <2>2. UNCHANGED <<up, stored, saving, loaded, spent, known, req>>
    BY <1>10 DEF FlushRead, storeVars, keyVars
  <2>3. HandlersAlive'
    BY <2>2 DEF BudgetInv, HandlersAlive, Fresh
  <2>4. MaxTokens[id] > 0 => spent[n][id] < Limit(id)
    BY InFlightFinite, LedgerNumbers DEF BudgetInv
  <2> QED
    BY <1>0, <2>1, <2>2, <2>3, <2>4, InFlightSame DEF BudgetInv
<1>11. ASSUME NEW n \in Nodes, FlushSave(n) PROVE BudgetInv'
  <2>1. /\ \A id \in Ids : snap'[n][id] = 0
        /\ \A m \in Nodes \ {n} : snap'[m] = snap[m] /\ saving'[m] = saving[m]
        /\ saving'[n] = snap[n]
        /\ UNCHANGED <<up, stored, loaded, spent, known, req>>
    BY <1>11 DEF FlushSave, Store!BeginSave, keyVars, NoSpend, TypeOK, Store!StoreTypeOK
  <2>2. HandlersAlive'
    BY <2>1 DEF BudgetInv, HandlersAlive, Fresh
  <2> QED
    BY <1>0, <2>1, <2>2, InFlightSame, InFlightFinite DEF BudgetInv, Limit
<1>12. ASSUME NEW n \in Nodes, SaveDone(n) \/ SaveFails(n) PROVE BudgetInv'
  <2>1. /\ \/ saving[n] # NoSave /\ stored' = saving[n]
           \/ stored' = stored
        /\ \A m \in Nodes \ {n} : saving'[m] = saving[m]
        /\ saving'[n] = NoSave
        /\ UNCHANGED <<up, snap, loaded, spent, known, req>>
    BY <1>12 DEF SaveDone, SaveFails, Store!CommitSave, Store!FailSave, keyVars, flushVars,
       TypeOK, Store!StoreTypeOK
  <2>2. HandlersAlive'
    BY <2>1 DEF BudgetInv, HandlersAlive, Fresh
  <2> QED
    BY <1>0, <2>1, <2>2, InFlightSame DEF BudgetInv
<1>13. ASSUME UNCHANGED <<up, stored, saving, loaded, spent, snap, known, req>>
       PROVE  BudgetInv'
  <2>1. HandlersAlive'
    BY <1>13 DEF BudgetInv, HandlersAlive, Fresh
  <2> QED
    BY <1>0, <1>13, <2>1, InFlightSame DEF BudgetInv
<1>14. ASSUME NEW d \in Steps, Tick(d) PROVE BudgetInv'
  BY <1>13, <1>14 DEF Tick, storeVars, keyVars, flushVars
<1>15. CASE UNCHANGED vars
  BY <1>13, <1>15 DEF vars, storeVars, keyVars, flushVars
<1> QED
  BY <1>1, <1>2, <1>5, <1>6, <1>8, <1>9, <1>10, <1>11, <1>12, <1>14, <1>15 DEF Next

LEMMA BudgetInit == Init => BudgetInv
<1> SUFFICES ASSUME Init PROVE BudgetInv
  OBVIOUS
<1>1. HandlersAlive
  BY DEF Init, HandlersAlive
<1>2. \A n \in Nodes, id \in Ids : Pending(n, id) = 0
  <2>1. \A n \in Nodes, id \in Ids : InFlight(n, id) = {}
    BY DEF Init, InFlight
  <2> QED
    BY <2>1, NothingPending
<1> QED
  <2>1. \A n \in Nodes, id \in Ids :
            stored[id] = 0 /\ loaded[n][id] = 0 /\ snap[n][id] = 0 /\ spent[n][id] = 0
            /\ saving[n] = NoSave
    BY DEF Init, Store!StoreInit, NoSpend
  <2>2. \A id \in Ids : MaxTokens[id] > 0 => 0 < Limit(id)
    <3>1. Overshoot \in Nat
      BY GovernorAssumption, FS_CardinalityType, ProductNat DEF Overshoot
    <3> QED
      BY <3>1, GovernorAssumption DEF Limit
  <2>3. \A id \in Ids : stored[id] = 0
    BY DEF Init, Store!StoreInit, NoSpend
  <2> QED
    BY <1>1, <1>2, <2>1, <2>2, <2>3 DEF BudgetInv

(* On every node a budget is overrun by at most what the handlers that     *)
(* were running when it was reached can cost, through any number of        *)
(* flushes, failed saves, unreadable stores, crashes and restarts          *)
(* (checkState, RecordSpend, Flush, New).                                  *)
THEOREM OvershootBoundedHolds == Spec => []OvershootBounded
<1>1. Init => BudgetInv
  BY BudgetInit
<1>2. TypeOK /\ TypeOK' /\ BudgetInv /\ [Next]_vars => BudgetInv'
  BY BudgetStep
<1>3. TypeOK /\ BudgetInv => OvershootBounded
  BY InFlightFinite, LedgerNumbers DEF BudgetInv, OvershootBounded, Limit
<1> QED
  BY <1>1, <1>2, <1>3, TypeCorrect, PTL DEF Spec

-----------------------------------------------------------------------------
(* A flush at any of its stages is behind the node's own counter, and what *)
(* a node has seen in the store is behind all of them; so the Save of such *)
(* a node writes at least what the store had, and after a Save only the    *)
(* node that made it has seen the store.                                   *)
FlushInv ==
    \A n \in Nodes :
        /\ saving[n] # NoSave => up[n]
        /\ flushing[n] => up[n] /\ saving[n] = NoSave
        /\ \A id \in StaticIds :
              /\ saving[n] # NoSave => saving[n][id] <= spent[n][id]
              /\ flushing[n] /\ id \notin todo[n] => snap[n][id] <= spent[n][id]
              /\ up[n] /\ seen[n] =>
                    /\ stored[id] <= spent[n][id]
                    /\ saving[n] # NoSave => stored[id] <= saving[n][id]
                    /\ flushing[n] /\ id \notin todo[n] => stored[id] <= snap[n][id]

LEMMA FlushStep ==
    ASSUME TypeOK, TypeOK', FlushInv, [Next]_vars
    PROVE  /\ FlushInv'
           /\ \A id \in StaticIds :
                 stored'[id] < stored[id] => \E n \in Nodes : SaveDone(n) /\ ~seen[n]
<1> USE GovernorAssumption
<1> DEFINE Shrinks == \A id \in StaticIds :
                         stored'[id] < stored[id] => \E n \in Nodes : SaveDone(n) /\ ~seen[n]
           Goal == FlushInv' /\ Shrinks
<1>0. /\ StaticIds \subseteq Ids
      /\ \A id \in StaticIds : id \notin Subjects /\ stored[id] \in Nat
      /\ seen \in [Nodes -> BOOLEAN] /\ up \in [Nodes -> BOOLEAN]
      /\ \A n \in Nodes, id \in StaticIds :
            spent[n][id] \in Nat /\ snap[n][id] \in Nat /\ (saving[n] # NoSave => saving[n][id] \in Nat)
  BY LedgerNumbers DEF Ids, TypeOK, Store!StoreTypeOK, Spend
<1>01. stored' = stored => Shrinks
  BY <1>0
<1>1. ASSUME NEW n \in Nodes, Start(n) \/ StartUnreadable(n) PROVE Goal
  <2>1. /\ ~up[n]
        /\ UNCHANGED <<stored, saving, flushing, todo, snap>>
        /\ New(n)
        /\ \A m \in Nodes \ {n} : UNCHANGED <<up[m], seen[m]>>
        /\ saving[n] = NoSave /\ ~flushing[n]
    BY <1>0, <1>1 DEF Start, StartUnreadable, Store!Boot, Store!BootUnreadable, New, flushVars,
                      TypeOK, Store!StoreTypeOK, FlushInv
  <2>2. seen'[n] => \A id \in StaticIds : spent'[n][id] = stored[id]
    <3>1. seen'[n] => Start(n)
      BY <1>0, <1>1 DEF StartUnreadable
    <3>2. Start(n) => loaded'[n] = stored
      BY DEF Start, Store!Boot, TypeOK, Store!StoreTypeOK
    <3>3. \A id \in StaticIds : spent'[n][id] = loaded'[n][id]
      BY <1>0, <2>1 DEF New, TypeOK
    <3> QED
      BY <3>1, <3>2, <3>3
  <2>3. \A m \in Nodes \ {n} : spent'[m] = spent[m]
    BY <2>1 DEF New, TypeOK
  <2> QED
    BY <1>0, <1>01, <2>1, <2>2, <2>3 DEF FlushInv
<1>2. ASSUME NEW n \in Nodes, Crash(n) PROVE Goal
  <2>1. /\ ~up'[n] /\ saving'[n] = NoSave /\ ~flushing'[n]
        /\ UNCHANGED <<stored, spent, seen>>
        /\ \A m \in Nodes \ {n} : UNCHANGED <<up[m], saving[m], flushing[m], todo[m], snap[m]>>
    BY <1>2 DEF Crash, Store!Crash, keyVars, TypeOK, Store!StoreTypeOK
  <2> QED
    BY <1>0, <1>01, <2>1 DEF FlushInv
<1>3. ASSUME NEW n \in Nodes, NEW id \in Ids, NEW l, NEW t, Identify(n, id, l, t)
      PROVE  Goal
  <2>1. spent \in [Nodes -> Spend] /\ spent' = [spent EXCEPT ![n][id] = SpentOf(n, id)]
    BY <1>3 DEF Identify, TypeOK
  <2>2. \A m \in Nodes, i \in StaticIds : spent'[m][i] = spent[m][i]
    BY <1>0, <2>1 DEF SpentOf, Fresh, Spend
  <2>3. UNCHANGED <<up, stored, saving, flushing, todo, snap, seen>>
    BY <1>3 DEF Identify, storeVars, flushVars
  <2> QED
    BY <1>0, <1>01, <2>2, <2>3 DEF FlushInv
<1>4. ASSUME NEW n \in Nodes, NEW id \in Ids, DenyBudget(n, id) \/ DenyRateLimited(n, id)
      PROVE  Goal
  BY <1>3, <1>4 DEF DenyBudget, DenyRateLimited
<1>5. ASSUME NEW r \in Requests, NEW n \in Nodes, NEW id \in Ids,
             NEW pc \in {"complete", "stream"}, Admit(r, n, id, pc)
      PROVE  Goal
  BY <1>3, <1>5 DEF Admit
<1>6. ASSUME NEW r \in Requests, Release(r), \A n \in Nodes, id \in Ids : spent'[n][id] >= spent[n][id]
      PROVE  Goal
  <2>1. UNCHANGED <<up, stored, saving, flushing, todo, snap, seen>>
    BY <1>6 DEF Release, storeVars, flushVars
  <2>2. \A n \in Nodes, id \in StaticIds : spent'[n][id] \in Nat
    BY <1>0 DEF TypeOK, Spend
  <2> QED
    BY <1>0, <1>01, <1>6, <2>1, <2>2 DEF FlushInv
<1>7. ASSUME NEW r \in Requests,
             Fail(r) \/ \E c \in Costs : Respond(r, c) \/ RespondStream(r, c)
      PROVE  Goal
  <2>1. Release(r)
    BY <1>7 DEF Fail, Respond, RecordSpend, RespondStream
  <2>2. \A n \in Nodes, id \in Ids : spent'[n][id] >= spent[n][id]
    <3>1. spent \in [Nodes -> Spend]
      BY DEF TypeOK
    <3>2. CASE spent' = spent
      BY <3>2, LedgerNumbers
    <3>3. ASSUME NEW c \in Costs, Respond(r, c)
          PROVE  \A n \in Nodes, id \in Ids : spent'[n][id] >= spent[n][id]
      <4>1. c \in Nat
        OBVIOUS
      <4>2. spent' = [spent EXCEPT ![req[r].node][req[r].id] = @ + c]
        BY <3>3 DEF Respond, RecordSpend
      <4> QED
        BY <3>1, <4>1, <4>2 DEF Spend
    <3> QED
      BY <1>7, <3>2, <3>3 DEF Fail, RespondStream
  <2> QED
    BY <1>6, <2>1, <2>2
<1>8. ASSUME NEW n \in Nodes, FlushStart(n) PROVE Goal
  <2>1. /\ up[n] /\ saving[n] = NoSave /\ flushing'[n] /\ StaticIds \subseteq todo'[n]
        /\ UNCHANGED <<up, stored, saving, spent, seen>>
        /\ \A m \in Nodes \ {n} : UNCHANGED <<flushing[m], todo[m], snap[m]>>
    BY <1>8 DEF FlushStart, storeVars, keyVars, TypeOK
  <2> QED
    BY <1>0, <1>01, <2>1 DEF FlushInv
<1>9. ASSUME NEW n \in Nodes, NEW id \in Ids, FlushRead(n, id) PROVE Goal
  <2>1. snap \in [Nodes -> Spend] /\ snap' = [snap EXCEPT ![n][id] = spent[n][id]]
    BY <1>9 DEF FlushRead, TypeOK
  <2>2. todo'[n] = todo[n] \ {id} /\ \A m \in Nodes \ {n} : UNCHANGED <<todo[m], snap[m]>>
    BY <1>9 DEF FlushRead, TypeOK
  <2>3. flushing[n] /\ UNCHANGED <<up, stored, saving, spent, flushing, seen>>
    BY <1>9 DEF FlushRead, storeVars, keyVars
  <2>4. \A i \in Ids : snap'[n][i] = IF i = id THEN spent[n][i] ELSE snap[n][i]
    BY <2>1 DEF Spend
  <2> QED
    BY <1>0, <1>01, <2>2, <2>3, <2>4 DEF FlushInv
<1>10. ASSUME NEW n \in Nodes, FlushSave(n) PROVE Goal
  <2>1. /\ up[n] /\ flushing[n] /\ todo[n] = {} /\ saving'[n] = snap[n] /\ ~flushing'[n]
        /\ UNCHANGED <<up, stored, spent, seen>>
        /\ \A m \in Nodes \ {n} : UNCHANGED <<saving[m], flushing[m], todo[m], snap[m]>>
    BY <1>10 DEF FlushSave, Store!BeginSave, keyVars, TypeOK, Store!StoreTypeOK
  <2> QED
    BY <1>0, <1>01, <2>1 DEF FlushInv
<1>11. ASSUME NEW n \in Nodes, SaveDone(n) PROVE Goal
  <2>1. /\ up[n] /\ saving[n] # NoSave /\ stored' = saving[n] /\ saving'[n] = NoSave
        /\ UNCHANGED <<up, spent, flushing, todo, snap>>
        /\ \A m \in Nodes : seen'[m] => m = n
        /\ \A m \in Nodes \ {n} : UNCHANGED saving[m]
    BY <1>11 DEF SaveDone, Store!CommitSave, keyVars, flushVars, TypeOK, Store!StoreTypeOK
  <2> QED
    <3>1. FlushInv'
      BY <1>0, <2>1 DEF FlushInv
    <3>2. Shrinks
      BY <1>0, <1>11, <2>1 DEF FlushInv
    <3> QED
      BY <3>1, <3>2
<1>12. ASSUME NEW n \in Nodes, SaveFails(n) PROVE Goal
  <2>1. /\ saving'[n] = NoSave /\ saving[n] # NoSave
        /\ UNCHANGED <<up, stored, spent, flushing, todo, snap, seen>>
        /\ \A m \in Nodes \ {n} : UNCHANGED saving[m]
    BY <1>12 DEF SaveFails, Store!FailSave, keyVars, flushVars, TypeOK, Store!StoreTypeOK
  <2> QED
    BY <1>0, <1>01, <2>1 DEF FlushInv
<1>13. ASSUME NEW d \in Steps, Tick(d) PROVE Goal
  BY <1>0, <1>01, <1>13 DEF Tick, storeVars, keyVars, flushVars, FlushInv
<1>14. CASE UNCHANGED vars
  BY <1>0, <1>01, <1>14 DEF vars, storeVars, keyVars, flushVars, FlushInv
<1> QED
  BY <1>1, <1>2, <1>4, <1>5, <1>7, <1>8, <1>9, <1>10, <1>11, <1>12, <1>13, <1>14 DEF Next

(* What is stored for a virtual key shrinks only when a node saves without *)
(* having seen it (Flush, New, Save), for any number of nodes, handlers    *)
(* and crashes and for a store that may fail to be read or written.  With  *)
(* one node whose Load never fails it never shrinks.                       *)
THEOREM DurableSpendGrowsHolds == Spec => DurableSpendGrows
<1>1. Init => FlushInv
  BY DEF Init, Store!StoreInit, FlushInv
<1>2. TypeOK /\ TypeOK' /\ FlushInv /\ [Next]_vars
          => FlushInv' /\ [\A id \in StaticIds :
                stored'[id] < stored[id] => \E n \in Nodes : SaveDone(n) /\ ~seen[n]]_vars
  BY FlushStep
<1> QED
  BY <1>1, <1>2, TypeCorrect, PTL DEF Spec, DurableSpendGrows

-----------------------------------------------------------------------------
(* The induction behind WindowBounded, for a bucket of rate rpm last       *)
(* filled to lv at time fill, with the admissions log: the level left in   *)
(* it and the admissions since the i-th one were both paid for by the      *)
(* burst or by the refill since then.                                      *)
Bucket(rpm, lv, fill, log) ==
    /\ lv <= 60 * rpm
    /\ \A i \in 1 .. Len(log) :
          /\ log[i] <= fill
          /\ 60 * (Len(log) - i + 1) + lv <= rpm * (60 + fill - log[i])
    /\ \A i, j \in 1 .. Len(log) :
          i <= j => 60 * (j - i + 1) <= rpm * (60 + log[j] - log[i])

WindowInv ==
    \A n \in Nodes, id \in Ids :
        /\ Bucket(RPM[id], level[n][id], lastFill[n][id], takes[n][id])
        /\ Fresh(n, id) => takes[n][id] = <<>>

LEMMA Distribute ==
    \A a, b, c \in Int : a * (b + c) = a * b + a * c
  OBVIOUS

LEMMA RefillArithmetic ==
    ASSUME NEW rpm \in Nat, NEW lv \in Nat, NEW fill \in Nat, NEW now \in Nat, NEW t \in Nat,
           NEW k \in Int, NEW r \in Nat,
           fill <= now, r <= lv + (now - fill) * rpm,
           k + lv <= rpm * (60 + fill - t)
    PROVE  k + r <= rpm * (60 + now - t)
<1>1. /\ 60 + fill - t \in Int /\ now - fill \in Int /\ rpm \in Int
      /\ 60 + now - t = (60 + fill - t) + (now - fill)
  OBVIOUS
<1>2. rpm * (60 + now - t) = rpm * (60 + fill - t) + rpm * (now - fill)
  BY <1>1, Distribute
<1>3. rpm * (now - fill) = (now - fill) * rpm
  BY <1>1
<1>4. rpm * (60 + fill - t) \in Int /\ (now - fill) * rpm \in Int
  BY <1>1
<1> DEFINE a == rpm * (60 + fill - t)
           b == (now - fill) * rpm
<1>5. /\ a \in Int /\ b \in Int
      /\ k + lv <= a /\ r <= lv + b
      /\ rpm * (60 + now - t) = a + b
  BY <1>2, <1>3, <1>4
<1> HIDE DEF a, b
<1> QED
  BY <1>5

(* A refill pays for itself. *)
LEMMA BucketRefill ==
    ASSUME NEW rpm \in Nat, NEW lv \in Nat, NEW fill \in Nat, NEW now \in Nat, NEW log \in Seq(Nat),
           NEW r \in Nat,
           fill <= now, r <= 60 * rpm, r <= lv + (now - fill) * rpm,
           Bucket(rpm, lv, fill, log)
    PROVE  Bucket(rpm, r, now, log)
<1>1. Len(log) \in Nat /\ \A i \in 1 .. Len(log) : log[i] \in Nat
  OBVIOUS
<1>2. ASSUME NEW i \in 1 .. Len(log)
      PROVE  /\ log[i] <= now
             /\ 60 * (Len(log) - i + 1) + r <= rpm * (60 + now - log[i])
  <2>1. log[i] \in Nat /\ log[i] <= fill
    BY <1>1 DEF Bucket
  <2>2. 60 * (Len(log) - i + 1) \in Int
    BY <1>1
  <2>3. 60 * (Len(log) - i + 1) + lv <= rpm * (60 + fill - log[i])
    BY DEF Bucket
  <2>4. 60 * (Len(log) - i + 1) + r <= rpm * (60 + now - log[i])
    BY <2>1, <2>2, <2>3, RefillArithmetic
  <2> QED
    BY <2>1, <2>4
<1> QED
  BY <1>2 DEF Bucket

(* One admission takes one token and adds one entry to the log. *)
LEMMA BucketTake ==
    ASSUME NEW rpm \in Nat, NEW now \in Nat, NEW log \in Seq(Nat), NEW r \in Nat,
           60 <= r, Bucket(rpm, r, now, log)
    PROVE  Bucket(rpm, r - 60, now, Append(log, now))
<1> DEFINE new == Append(log, now)
           N == Len(log)
<1>1. /\ N \in Nat /\ Len(new) = N + 1
      /\ new[N + 1] = now
      /\ \A i \in 1 .. N : new[i] = log[i] /\ log[i] \in Nat
  OBVIOUS
<1>2. r <= 60 * rpm
  BY DEF Bucket
<1>3. rpm * (60 + now - now) = 60 * rpm
  OBVIOUS
<1>4. ASSUME NEW i \in 1 .. N
      PROVE  /\ log[i] <= now
             /\ 60 * (N - i + 1) + r <= rpm * (60 + now - log[i])
             /\ rpm * (60 + now - log[i]) \in Int
  BY <1>1 DEF Bucket
<1>5. ASSUME NEW i \in 1 .. N + 1
      PROVE  /\ new[i] <= now
             /\ 60 * (N + 1 - i + 1) + (r - 60) <= rpm * (60 + now - new[i])
  <2>1. CASE i = N + 1
    BY <1>1, <1>2, <1>3, <2>1
  <2>2. CASE i \in 1 .. N
    <3> DEFINE q == rpm * (60 + now - log[i])
    <3>1. new[i] = log[i] /\ q \in Int /\ 60 * (N - i + 1) + r <= q /\ log[i] <= now
      BY <1>1, <1>4, <2>2
    <3> HIDE DEF q
    <3>2. 60 * (N + 1 - i + 1) + (r - 60) <= q
      BY <1>1, <2>2, <3>1
    <3> QED
      BY <3>1, <3>2 DEF q
  <2> QED
    BY <1>1, <2>1, <2>2
<1>6. ASSUME NEW i \in 1 .. N + 1, NEW j \in 1 .. N + 1, i <= j
      PROVE  60 * (j - i + 1) <= rpm * (60 + new[j] - new[i])
  <2>1. CASE j \in 1 .. N
    <3>1. i \in 1 .. N
      BY <1>1, <1>6, <2>1
    <3> QED
      BY <1>1, <1>6, <2>1, <3>1 DEF Bucket
  <2>2. CASE j = N + 1
    <3> DEFINE q == rpm * (60 + now - new[i])
    <3>1. q \in Int
      BY <1>1
    <3>2. 60 * (N + 1 - i + 1) + (r - 60) <= q
      BY <1>5
    <3> HIDE DEF q
    <3>3. 60 * (N + 1 - i + 1) <= q
      BY <1>1, <3>1, <3>2
    <3> QED
      BY <1>1, <2>2, <3>3 DEF q
  <2> QED
    BY <1>1, <2>1, <2>2
<1>7. r - 60 <= 60 * rpm
  BY <1>2
<1>8. Bucket(rpm, r - 60, now, new)
  <2> HIDE DEF new
  <2>1. \A i \in 1 .. Len(new) :
            /\ new[i] <= now
            /\ 60 * (Len(new) - i + 1) + (r - 60) <= rpm * (60 + now - new[i])
    BY <1>1, <1>5
  <2>2. \A i, j \in 1 .. Len(new) :
            i <= j => 60 * (j - i + 1) <= rpm * (60 + new[j] - new[i])
    BY <1>1, <1>6
  <2> QED
    BY <1>7, <2>1, <2>2 DEF Bucket
<1> QED
  BY <1>8

LEMMA BucketFull ==
    ASSUME NEW rpm \in Nat, NEW now \in Nat
    PROVE  Bucket(rpm, 60 * rpm, now, <<>>)
  BY DEF Bucket

LEMMA WindowRefill ==
    ASSUME TypeOK, WindowInv, NEW n \in Nodes, NEW id \in Ids
    PROVE  /\ Bucket(RPM[id], LevelOf(n, id), LastFillOf(n, id), takes[n][id])
           /\ Bucket(RPM[id], Refilled(n, id), clock, takes[n][id])
<1>1. /\ RPM[id] \in Nat /\ clock \in Nat
      /\ level[n][id] \in Nat /\ lastFill[n][id] \in 0 .. clock
      /\ takes[n][id] \in Seq(Nat)
  BY GovernorAssumption DEF TypeOK
<1>2. Refilled(n, id) \in Nat /\ LevelOf(n, id) \in Nat /\ LastFillOf(n, id) \in 0 .. clock
  BY RefilledType
<1>3. Bucket(RPM[id], LevelOf(n, id), LastFillOf(n, id), takes[n][id])
  <2>1. CASE Fresh(n, id)
    BY <1>1, <2>1, BucketFull DEF WindowInv, LevelOf, LastFillOf
  <2>2. CASE ~Fresh(n, id)
    BY <2>2 DEF WindowInv, LevelOf, LastFillOf
  <2> QED
    BY <2>1, <2>2
<1>4. (clock - LastFillOf(n, id)) * RPM[id] \in Nat /\ 60 * RPM[id] \in Nat
  BY <1>1, <1>2, ProductNat
<1>5. /\ Refilled(n, id) <= 60 * RPM[id]
      /\ Refilled(n, id) <= LevelOf(n, id) + (clock - LastFillOf(n, id)) * RPM[id]
  BY <1>2, <1>4 DEF Refilled
<1> DEFINE lv == LevelOf(n, id)
           fill == LastFillOf(n, id)
           r == Refilled(n, id)
<1>6. /\ lv \in Nat /\ fill \in Nat /\ fill <= clock /\ r \in Nat
      /\ r <= 60 * RPM[id] /\ r <= lv + (clock - fill) * RPM[id]
      /\ Bucket(RPM[id], lv, fill, takes[n][id])
  BY <1>1, <1>2, <1>3, <1>5
<1> HIDE DEF lv, fill, r
<1>7. Bucket(RPM[id], r, clock, takes[n][id])
  BY <1>1, <1>6, BucketRefill
<1> QED
  BY <1>3, <1>7 DEF r

(* One access of checkState to a bucket. *)
LEMMA WindowAccess ==
    ASSUME TypeOK, WindowInv,
           NEW n \in Nodes, NEW id \in Ids, NEW l, NEW t, NEW log,
           Identify(n, id, l, t),
           takes' = [takes EXCEPT ![n][id] = log],
           Bucket(RPM[id], l, t, log)
    PROVE  WindowInv'
<1>1. /\ level' = [level EXCEPT ![n][id] = l]
      /\ lastFill' = [lastFill EXCEPT ![n][id] = t]
      /\ known' = [known EXCEPT ![n] = IF id \in Subjects THEN @ \cup {id} ELSE @]
  BY DEF Identify
<1>2. SUFFICES ASSUME NEW m \in Nodes, NEW i \in Ids
               PROVE  /\ Bucket(RPM[i], level'[m][i], lastFill'[m][i], takes'[m][i])
                      /\ (i \in Subjects \ known'[m]) => takes'[m][i] = <<>>
  BY DEF WindowInv, Fresh
<1>3. CASE m = n /\ i = id
  <2>1. level'[m][i] = l /\ lastFill'[m][i] = t /\ takes'[m][i] = log
    BY <1>1, <1>3 DEF TypeOK
  <2>2. i \in Subjects => i \in known'[m]
    BY <1>1, <1>3 DEF TypeOK
  <2> QED
    BY <1>3, <2>1, <2>2
<1>4. CASE m # n \/ i # id
  <2>1. level'[m][i] = level[m][i] /\ lastFill'[m][i] = lastFill[m][i] /\ takes'[m][i] = takes[m][i]
    BY <1>1, <1>4 DEF TypeOK
  <2>2. i \in Subjects \ known'[m] => i \in Subjects \ known[m]
    BY <1>1, <1>4 DEF TypeOK
  <2> QED
    BY <2>1, <2>2 DEF WindowInv, Fresh
<1> QED
  BY <1>3, <1>4

LEMMA WindowStep == TypeOK /\ WindowInv /\ [Next]_vars => WindowInv'
<1> SUFFICES ASSUME TypeOK, WindowInv, [Next]_vars PROVE WindowInv'
  OBVIOUS
<1>1. ASSUME UNCHANGED <<known, level, lastFill, takes>> PROVE WindowInv'
  BY <1>1 DEF WindowInv, Fresh, Bucket
<1>2. ASSUME NEW n \in Nodes, Start(n) \/ StartUnreadable(n) PROVE WindowInv'
  <2>1. New(n)
    BY <1>2 DEF Start, StartUnreadable
  <2> SUFFICES ASSUME NEW m \in Nodes, NEW i \in Ids
               PROVE  /\ Bucket(RPM[i], level'[m][i], lastFill'[m][i], takes'[m][i])
                      /\ (i \in Subjects \ known'[m]) => takes'[m][i] = <<>>
    BY DEF WindowInv, Fresh
  <2>2. CASE m = n
    <3>1. level'[m][i] = 60 * RPM[i] /\ lastFill'[m][i] = clock /\ takes'[m][i] = <<>>
      BY <2>1, <2>2 DEF New, TypeOK
    <3>2. RPM[i] \in Nat /\ clock \in Nat
      BY GovernorAssumption DEF TypeOK
    <3> QED
      BY <3>1, <3>2, BucketFull
  <2>3. CASE m # n
    <3>1. /\ level'[m][i] = level[m][i] /\ lastFill'[m][i] = lastFill[m][i]
          /\ takes'[m][i] = takes[m][i] /\ known'[m] = known[m]
      BY <2>1, <2>3 DEF New, TypeOK
    <3> QED
      BY <3>1 DEF WindowInv, Fresh
  <2> QED
    BY <2>2, <2>3
<1>3. ASSUME NEW n \in Nodes, NEW id \in Ids, NEW l, NEW t, Identify(n, id, l, t),
             takes' = takes, Bucket(RPM[id], l, t, takes[n][id])
      PROVE  WindowInv'
  <2>1. takes' = [takes EXCEPT ![n][id] = takes[n][id]]
    BY <1>3 DEF TypeOK
  <2> QED
    BY <1>3, <2>1, WindowAccess
<1>4. ASSUME NEW n \in Nodes, NEW id \in Ids, DenyBudget(n, id) PROVE WindowInv'
  BY <1>3, <1>4, WindowRefill DEF DenyBudget
<1>5. ASSUME NEW n \in Nodes, NEW id \in Ids, DenyRateLimited(n, id) PROVE WindowInv'
  BY <1>3, <1>5, WindowRefill DEF DenyRateLimited
<1>6. ASSUME NEW r \in Requests, NEW n \in Nodes, NEW id \in Ids,
             NEW pc \in {"complete", "stream"}, Admit(r, n, id, pc)
      PROVE  WindowInv'
  <2>1. CASE RPM[id] = 0 /\ Identify(n, id, LevelOf(n, id), LastFillOf(n, id)) /\ takes' = takes
    BY <1>3, <2>1, WindowRefill
  <2>2. CASE /\ Refilled(n, id) >= 60
             /\ Identify(n, id, Refilled(n, id) - 60, clock)
             /\ takes' = [takes EXCEPT ![n][id] = Append(@, clock)]
    <3>1. takes' = [takes EXCEPT ![n][id] = Append(takes[n][id], clock)]
      BY <2>2 DEF TypeOK
    <3>2. /\ RPM[id] \in Nat /\ clock \in Nat /\ takes[n][id] \in Seq(Nat)
          /\ Refilled(n, id) \in Nat
      BY GovernorAssumption, RefilledType DEF TypeOK
    <3>3. Bucket(RPM[id], Refilled(n, id) - 60, clock, Append(takes[n][id], clock))
      BY <2>2, <3>2, WindowRefill, BucketTake
    <3> QED
      BY <2>2, <3>1, <3>3, WindowAccess
  <2> QED
    BY <1>6, <2>1, <2>2 DEF Admit
<1>7. ASSUME NEW r \in Requests, Release(r) PROVE WindowInv'
  BY <1>1, <1>7 DEF Release
<1>8. ASSUME NEW r \in Requests, NEW c \in Costs, Respond(r, c) \/ RespondStream(r, c)
      PROVE  WindowInv'
  BY <1>7, <1>8 DEF Respond, RecordSpend, RespondStream
<1>9. ASSUME NEW r \in Requests, Fail(r) PROVE WindowInv'
  BY <1>7, <1>9 DEF Fail
<1>10. ASSUME NEW n \in Nodes,
              Crash(n) \/ FlushStart(n) \/ FlushSave(n) \/ SaveDone(n) \/ SaveFails(n)
       PROVE  WindowInv'
  BY <1>1, <1>10 DEF Crash, FlushStart, FlushSave, SaveDone, SaveFails, keyVars
<1>11. ASSUME NEW n \in Nodes, NEW id \in Ids, FlushRead(n, id) PROVE WindowInv'
  BY <1>1, <1>11 DEF FlushRead, keyVars
<1>12. ASSUME NEW d \in Steps, Tick(d) PROVE WindowInv'
  BY <1>1, <1>12 DEF Tick, keyVars
<1>13. CASE UNCHANGED vars
  BY <1>1, <1>13 DEF vars, keyVars
<1> QED
  BY <1>2, <1>4, <1>5, <1>6, <1>8, <1>9, <1>10, <1>11, <1>12, <1>13 DEF Next

(* A running node admits an identity at most RPM + RPM * T / 60 times in   *)
(* any window of T seconds, whatever its refusals, its restarts and the    *)
(* order of its handlers (checkState's bucket).                            *)
THEOREM WindowBoundedHolds == Spec => []WindowBounded
<1>1. Init => WindowInv
  <2> SUFFICES ASSUME Init, NEW n \in Nodes, NEW id \in Ids
               PROVE  /\ Bucket(RPM[id], level[n][id], lastFill[n][id], takes[n][id])
                      /\ takes[n][id] = <<>>
    BY DEF WindowInv
  <2>1. level[n][id] = 60 * RPM[id] /\ lastFill[n][id] = 0 /\ takes[n][id] = <<>>
    BY DEF Init
  <2> QED
    BY <2>1, BucketFull, GovernorAssumption
<1>2. TypeOK /\ WindowInv /\ [Next]_vars => WindowInv'
  BY WindowStep
<1>3. WindowInv => WindowBounded
  BY DEF WindowInv, Bucket, WindowBounded
<1> QED
  BY <1>1, <1>2, <1>3, TypeCorrect, PTL DEF Spec
-----------------------------------------------------------------------------
(* The refill as arithmetic: it grows with time, never leaves the burst    *)
(* size, and refilling twice at one moment is refilling once.              *)
Topped(rpm, lv, fill, now) ==
    LET l == lv + (now - fill) * rpm IN IF l > 60 * rpm THEN 60 * rpm ELSE l

LEMMA CreditIs ==
    ASSUME NEW n \in Nodes, NEW id \in Ids
    PROVE  Credit(n, id) = Topped(RPM[id], LevelOf(n, id), LastFillOf(n, id), clock)
  BY DEF Credit, Refilled, Topped

LEMMA ToppedGrows ==
    ASSUME NEW rpm \in Nat, NEW lv \in Nat, NEW now \in Nat, NEW fill \in 0 .. now,
           NEW later \in Nat, now <= later
    PROVE  Topped(rpm, lv, fill, later) >= Topped(rpm, lv, fill, now)
<1> DEFINE a == (now - fill) * rpm
           b == (later - fill) * rpm
           c == (later - now) * rpm
<1>1. later - now \in Nat /\ now - fill \in Nat /\ later - fill = (later - now) + (now - fill)
  OBVIOUS
<1>2. \A x, y, z \in Nat : (x + y) * z = x * z + y * z
  OBVIOUS
<1>3. a \in Nat /\ c \in Nat /\ b = c + a /\ 60 * rpm \in Nat
  BY <1>1, <1>2, ProductNat
<1> HIDE DEF a, b, c
<1>4. /\ Topped(rpm, lv, fill, later) = IF lv + b > 60 * rpm THEN 60 * rpm ELSE lv + b
      /\ Topped(rpm, lv, fill, now) = IF lv + a > 60 * rpm THEN 60 * rpm ELSE lv + a
  BY DEF Topped, a, b
<1> QED
  BY <1>3, <1>4

LEMMA ToppedNow ==
    ASSUME NEW rpm \in Nat, NEW lv \in Nat, NEW now \in Nat
    PROVE  /\ Topped(rpm, lv, now, now) = IF lv > 60 * rpm THEN 60 * rpm ELSE lv
           /\ lv <= 60 * rpm => Topped(rpm, lv, now, now) = lv
<1>1. (now - now) * rpm = 0 /\ 60 * rpm \in Nat
  BY ProductNat
<1> QED
  BY <1>1 DEF Topped

LEMMA ToppedCapped ==
    ASSUME NEW rpm \in Nat, NEW lv \in Nat, NEW now \in Nat, NEW fill \in 0 .. now
    PROVE  Topped(rpm, lv, fill, now) <= 60 * rpm
<1>1. now - fill \in Nat
  OBVIOUS
<1>2. (now - fill) * rpm \in Nat /\ 60 * rpm \in Nat
  BY <1>1, ProductNat
<1> QED
  BY <1>2 DEF Topped

(* One access of checkState that takes nothing leaves the credit alone,    *)
(* whether it stores the refill (l, clock) or the bucket as it was.        *)
LEMMA CreditAfterAccess ==
    ASSUME TypeOK, NEW m \in Nodes, NEW i \in Ids, NEW l, NEW t, Identify(m, i, l, t),
           \/ l = LevelOf(m, i) /\ t = LastFillOf(m, i)
           \/ l = Refilled(m, i) /\ t = clock,
           NEW n \in Nodes, NEW id \in Ids
    PROVE  Credit(n, id)' = Credit(n, id)
<1>1. /\ level' = [level EXCEPT ![m][i] = l]
      /\ lastFill' = [lastFill EXCEPT ![m][i] = t]
      /\ known' = [known EXCEPT ![m] = IF i \in Subjects THEN @ \cup {i} ELSE @]
      /\ clock' = clock
  BY DEF Identify
<1>2. Credit(n, id)' = Topped(RPM[id], LevelOf(n, id)', LastFillOf(n, id)', clock')
  BY DEF Credit, Refilled, Topped
<1>3. Credit(n, id) = Topped(RPM[id], LevelOf(n, id), LastFillOf(n, id), clock)
  BY CreditIs
<1>4. CASE n = m /\ id = i
  <2>1. LevelOf(n, id)' = l /\ LastFillOf(n, id)' = t
    BY <1>1, <1>4 DEF TypeOK, LevelOf, LastFillOf, Fresh
  <2>2. CASE l = LevelOf(m, i) /\ t = LastFillOf(m, i)
    BY <1>1, <1>2, <1>3, <1>4, <2>1, <2>2
  <2>3. CASE l = Refilled(m, i) /\ t = clock
    <3>1. PICK lv, fill : lv = LevelOf(n, id) /\ fill = LastFillOf(n, id)
      OBVIOUS
    <3>2. /\ RPM[id] \in Nat /\ clock \in Nat /\ lv \in Nat /\ fill \in 0 .. clock
          /\ Refilled(m, i) \in Nat
      BY <3>1, RefilledType, GovernorAssumption DEF TypeOK
    <3>3. Refilled(m, i) = Topped(RPM[id], lv, fill, clock)
      BY <1>4, <3>1, CreditIs DEF Credit
    <3>4. Refilled(m, i) <= 60 * RPM[id]
      BY <3>2, <3>3, ToppedCapped
    <3>5. Topped(RPM[id], Refilled(m, i), clock, clock) = Refilled(m, i)
      BY <3>2, <3>4, ToppedNow
    <3> QED
      BY <1>1, <1>2, <1>3, <1>4, <2>1, <2>3, <3>5, CreditIs DEF Credit
  <2> QED
    BY <2>2, <2>3
<1>5. CASE n # m \/ id # i
  <2>1. /\ level'[n][id] = level[n][id] /\ lastFill'[n][id] = lastFill[n][id]
        /\ Fresh(n, id)' <=> Fresh(n, id)
    BY <1>1, <1>5 DEF TypeOK, Fresh
  <2>2. LevelOf(n, id)' = LevelOf(n, id) /\ LastFillOf(n, id)' = LastFillOf(n, id)
    BY <1>1, <2>1 DEF LevelOf, LastFillOf
  <2> QED
    BY <1>1, <1>2, <1>3, <2>2
<1> QED
  BY <1>4, <1>5

(* The credit of an identity at a node depends on its bucket and the clock *)
(* alone.                                                                  *)
LEMMA CreditKept ==
    ASSUME TypeOK, NEW n \in Nodes, NEW id \in Ids, clock' \in Nat, clock <= clock',
           known'[n] = known[n], level'[n][id] = level[n][id],
           lastFill'[n][id] = lastFill[n][id]
    PROVE  Credit(n, id)' >= Credit(n, id)
<1>1. Credit(n, id)' = Topped(RPM[id], LevelOf(n, id)', LastFillOf(n, id)', clock')
  BY DEF Credit, Refilled, Topped
<1>2. Credit(n, id) = Topped(RPM[id], LevelOf(n, id), LastFillOf(n, id), clock)
  BY CreditIs
<1>3. RPM[id] \in Nat /\ clock \in Nat /\ 60 * RPM[id] \in Nat
  BY GovernorAssumption, ProductNat DEF TypeOK
<1>4. Fresh(n, id)' <=> Fresh(n, id)
  BY DEF Fresh
<1>5. CASE Fresh(n, id)
  <2>1. /\ LevelOf(n, id)' = 60 * RPM[id] /\ LastFillOf(n, id)' = clock'
        /\ LevelOf(n, id) = 60 * RPM[id] /\ LastFillOf(n, id) = clock
    BY <1>4, <1>5 DEF LevelOf, LastFillOf
  <2>2. \A now \in Nat : Topped(RPM[id], 60 * RPM[id], now, now) = 60 * RPM[id]
    BY <1>3, ToppedNow
  <2> QED
    BY <1>1, <1>2, <1>3, <2>1, <2>2
<1>6. CASE ~Fresh(n, id)
  <2>1. PICK lv, fill : lv = level[n][id] /\ fill = lastFill[n][id]
    OBVIOUS
  <2>2. /\ LevelOf(n, id)' = lv /\ LastFillOf(n, id)' = fill
        /\ LevelOf(n, id) = lv /\ LastFillOf(n, id) = fill
        /\ lv \in Nat /\ fill \in 0 .. clock
    BY <1>4, <1>6, <2>1 DEF LevelOf, LastFillOf, TypeOK
  <2> QED
    BY <1>1, <1>2, <1>3, <2>2, ToppedGrows
<1> QED
  BY <1>5, <1>6

LEMMA PollingStep ==
    ASSUME TypeOK, [Next]_vars, NEW n \in Nodes, NEW id \in Ids,
           up[n], takes'[n][id] = takes[n][id]
    PROVE  Credit(n, id)' >= Credit(n, id)
<1>0. /\ clock \in Nat /\ Credit(n, id) \in Nat
      /\ \A d \in Steps : clock + d \in Nat /\ clock <= clock + d
  <2>1. clock \in Nat /\ Steps \subseteq Nat
    BY GovernorAssumption DEF TypeOK
  <2>2. Credit(n, id) \in Nat
    BY RefilledType DEF Credit
  <2> QED
    BY <2>1, <2>2
<1>1. ASSUME clock' = clock, UNCHANGED <<known, level, lastFill>>
      PROVE  Credit(n, id)' >= Credit(n, id)
  BY <1>0, <1>1, CreditKept
<1>2. ASSUME NEW m \in Nodes, NEW i \in Ids, NEW l, NEW t, Identify(m, i, l, t),
             \/ l = LevelOf(m, i) /\ t = LastFillOf(m, i)
             \/ l = Refilled(m, i) /\ t = clock
      PROVE  Credit(n, id)' >= Credit(n, id)
  <2>1. Credit(n, id)' = Credit(n, id)
    BY <1>2, CreditAfterAccess
  <2> QED
    BY <1>0, <2>1
<1>3. ASSUME NEW m \in Nodes, Start(m) \/ StartUnreadable(m)
      PROVE  Credit(n, id)' >= Credit(n, id)
  <2>1. m # n /\ New(m)
    BY <1>3 DEF Start, StartUnreadable, Store!Boot, Store!BootUnreadable
  <2>2. /\ known'[n] = known[n] /\ level'[n][id] = level[n][id]
        /\ lastFill'[n][id] = lastFill[n][id] /\ clock' = clock
    BY <2>1 DEF New, TypeOK
  <2> QED
    BY <1>0, <2>2, CreditKept
<1>4. ASSUME NEW m \in Nodes, NEW i \in Ids, DenyBudget(m, i) \/ DenyRateLimited(m, i)
      PROVE  Credit(n, id)' >= Credit(n, id)
  BY <1>2, <1>4 DEF DenyBudget, DenyRateLimited
<1>5. ASSUME NEW r \in Requests, NEW m \in Nodes, NEW i \in Ids,
             NEW pc \in {"complete", "stream"}, Admit(r, m, i, pc)
      PROVE  Credit(n, id)' >= Credit(n, id)
  <2>1. CASE Identify(m, i, LevelOf(m, i), LastFillOf(m, i))
    BY <1>2, <2>1
  <2>2. CASE /\ Identify(m, i, Refilled(m, i) - 60, clock)
             /\ takes' = [takes EXCEPT ![m][i] = Append(@, clock)]
    <3>1. n # m \/ id # i
      <4>1. takes[n][id] \in Seq(Nat) /\ Append(takes[n][id], clock) # takes[n][id]
        <5>1. takes[n][id] \in Seq(Nat)
          BY DEF TypeOK
        <5>2. Len(Append(takes[n][id], clock)) = Len(takes[n][id]) + 1 /\ Len(takes[n][id]) \in Nat
          BY <1>0, <5>1
        <5> QED
          BY <5>1, <5>2
      <4>2. takes'[m][i] = Append(takes[m][i], clock)
        BY <2>2 DEF TypeOK
      <4> QED
        BY <4>1, <4>2
    <3>2. /\ level'[n][id] = level[n][id] /\ lastFill'[n][id] = lastFill[n][id]
          /\ clock' = clock /\ (Fresh(n, id)' <=> Fresh(n, id))
      BY <2>2, <3>1 DEF Identify, TypeOK, Fresh
    <3>3. LevelOf(n, id)' = LevelOf(n, id) /\ LastFillOf(n, id)' = LastFillOf(n, id)
      BY <3>2 DEF LevelOf, LastFillOf
    <3>4. Credit(n, id)' = Credit(n, id)
      BY <3>2, <3>3 DEF Credit, Refilled
    <3> QED
      BY <1>0, <3>4
  <2> QED
    BY <1>5, <2>1, <2>2 DEF Admit
<1>6. ASSUME NEW r \in Requests, NEW c \in Costs,
             Respond(r, c) \/ RespondStream(r, c)
      PROVE  Credit(n, id)' >= Credit(n, id)
  BY <1>1, <1>6 DEF Respond, RespondStream, Release
<1>7. ASSUME NEW r \in Requests, Fail(r)
      PROVE  Credit(n, id)' >= Credit(n, id)
  BY <1>1, <1>7 DEF Fail, Release
<1>8. ASSUME NEW m \in Nodes,
             Crash(m) \/ FlushStart(m) \/ FlushSave(m) \/ SaveDone(m) \/ SaveFails(m)
      PROVE  Credit(n, id)' >= Credit(n, id)
  BY <1>1, <1>8 DEF Crash, FlushStart, FlushSave, SaveDone, SaveFails, keyVars
<1>9. ASSUME NEW m \in Nodes, NEW i \in Ids, FlushRead(m, i)
      PROVE  Credit(n, id)' >= Credit(n, id)
  BY <1>1, <1>9 DEF FlushRead, keyVars
<1>10. ASSUME NEW d \in Steps, Tick(d)
       PROVE  Credit(n, id)' >= Credit(n, id)
  BY <1>0, <1>10, CreditKept DEF Tick, keyVars
<1>11. CASE UNCHANGED vars
  BY <1>1, <1>11 DEF vars, keyVars
<1> QED
  BY <1>3, <1>4, <1>5, <1>6, <1>7, <1>8, <1>9, <1>10, <1>11 DEF Next

(* A call that is refused costs nothing, neither to the caller nor to any  *)
(* other identity: whatever a running node does short of an admission, the *)
(* identity can take at least as much from its bucket as before            *)
(* (checkState stores the refill together with its time).                  *)
THEOREM PollingIsFreeHolds == Spec => PollingIsFree
<1>1. ASSUME TypeOK, [Next]_vars
      PROVE  [\A n \in Nodes, id \in Ids :
                 up[n] /\ takes'[n][id] = takes[n][id] => Credit(n, id)' >= Credit(n, id)]_vars
  BY <1>1, PollingStep
<1> QED
  BY <1>1, TypeCorrect, PTL DEF Spec, PollingIsFree
-----------------------------------------------------------------------------
(* The induction behind UsageBounded: what an identity used in all is what *)
(* the nodes that are up have spent on it, added up, and what the ended    *)
(* lives spent, each of them less than the limit.  A sum over the nodes is *)
(* the number of pairs of a node and one of its tokens.                    *)
Units(f, k) == {u \in Nodes \X (1 .. k) : u[2] <= f[u[1]]}
Total(f, k) == Cardinality(Units(f, k))

LEMMA OneTo ==
    ASSUME NEW k \in Nat
    PROVE  IsFiniteSet(1 .. k) /\ Cardinality(1 .. k) = k
<1>1. IsFiniteSet(1 .. k) /\ Cardinality(1 .. k) = IF 1 > k THEN 0 ELSE k - 1 + 1
  BY FS_Interval
<1> QED
  BY <1>1

LEMMA UnitsFinite ==
    ASSUME NEW k \in Nat, NEW f
    PROVE  /\ IsFiniteSet(Units(f, k)) /\ Total(f, k) \in Nat
           /\ Cardinality(Nodes) \in Nat \ {0}
           /\ Total(f, k) <= Cardinality(Nodes) * k
<1>1. /\ IsFiniteSet(Nodes) /\ Nodes # {}
      /\ IsFiniteSet(1 .. k) /\ Cardinality(1 .. k) = k
  BY NodesAssumption, OneTo
<1>2. /\ IsFiniteSet(Nodes \X (1 .. k))
      /\ Cardinality(Nodes \X (1 .. k)) = Cardinality(Nodes) * Cardinality(1 .. k)
  BY <1>1, FS_Product
<1>3. Units(f, k) \in SUBSET (Nodes \X (1 .. k))
  BY DEF Units
<1>4. IsFiniteSet(Units(f, k)) /\ Total(f, k) <= Cardinality(Nodes \X (1 .. k))
  BY <1>2, <1>3, FS_Subset DEF Total
<1>5. Cardinality(Nodes) \in Nat \ {0} /\ Total(f, k) \in Nat
  BY <1>1, <1>4, FS_CardinalityType, FS_EmptySet DEF Total
<1> QED
  BY <1>1, <1>2, <1>4, <1>5

(* One node's share changes from f[p] to c; the others keep theirs.        *)
LEMMA TotalSteps ==
    ASSUME NEW k \in Nat, NEW f \in [Nodes -> 0 .. k], NEW p \in Nodes, NEW c \in 0 .. k
    PROVE  Total([f EXCEPT ![p] = c], k) + f[p] = Total(f, k) + c
<1> PICK u : u = [f EXCEPT ![p] = c]
  OBVIOUS
<1> DEFINE Share(x) == {p} \X (1 .. x)
           rest == {e \in Units(f, k) : e[1] # p}
<1>1. ASSUME NEW x \in 0 .. k
      PROVE  /\ IsFiniteSet(Share(x)) /\ Cardinality(Share(x)) = x
             /\ Cardinality(rest \cup Share(x)) = Cardinality(rest) + x
  <2>1. /\ IsFiniteSet({p}) /\ Cardinality({p}) = 1
        /\ IsFiniteSet(1 .. x) /\ Cardinality(1 .. x) = x
    <3>1. x \in Nat
      OBVIOUS
    <3>2. IsFiniteSet(1 .. x) /\ Cardinality(1 .. x) = x
      BY <3>1, OneTo
    <3> QED
      BY <3>2, FS_Singleton
  <2>2. IsFiniteSet(Share(x)) /\ Cardinality(Share(x)) = 1 * x
    BY <2>1, FS_Product
  <2>3. IsFiniteSet(rest) /\ Cardinality(rest) \in Nat
    <3>1. rest \in SUBSET Units(f, k)
      OBVIOUS
    <3>2. IsFiniteSet(rest)
      BY <3>1, UnitsFinite, FS_Subset
    <3> QED
      BY <3>2, FS_CardinalityType
  <2>4. rest \cap Share(x) = {}
    OBVIOUS
  <2>5. Cardinality(rest \cap Share(x)) = 0
    BY <2>4, FS_EmptySet
  <2> HIDE DEF Share, rest
  <2>6. Cardinality(rest \cup Share(x)) = Cardinality(rest) + Cardinality(Share(x)) - 0
    BY <2>2, <2>3, <2>5, FS_Union
  <2> QED
    BY <2>2, <2>3, <2>6
<1>2. ASSUME NEW g \in [Nodes -> 0 .. k], \A n \in Nodes : n # p => g[n] = f[n]
      PROVE  Units(g, k) = rest \cup Share(g[p])
  <2>1. ASSUME NEW e \in Units(g, k)
        PROVE  e \in rest \cup Share(g[p])
    <3>1. PICK n \in Nodes, j \in 1 .. k : e = <<n, j>> /\ j <= g[n]
      BY DEF Units
    <3>2. CASE n = p
      <4>1. j \in 1 .. g[p]
        BY <3>1, <3>2
      <4> QED
        BY <3>1, <3>2, <4>1
    <3>3. CASE n # p
      BY <1>2, <3>1, <3>3 DEF Units
    <3> QED
      BY <3>2, <3>3
  <2>2. ASSUME NEW e \in rest
        PROVE  e \in Units(g, k)
    BY <1>2 DEF Units
  <2>3. ASSUME NEW e \in Share(g[p])
        PROVE  e \in Units(g, k)
    <3>1. PICK j \in 1 .. g[p] : e = <<p, j>>
      OBVIOUS
    <3>2. g[p] \in 0 .. k
      OBVIOUS
    <3>3. j \in 1 .. k /\ j <= g[p]
      BY <3>2
    <3> QED
      BY <3>1, <3>3 DEF Units
  <2> QED
    BY <2>1, <2>2, <2>3
<1>3. f[p] \in 0 .. k /\ u \in [Nodes -> 0 .. k] /\ u[p] = c /\ \A n \in Nodes : n # p => u[n] = f[n]
  OBVIOUS
<1>4. Units(f, k) = rest \cup Share(f[p]) /\ Units(u, k) = rest \cup Share(c)
  <2>1. Units(f, k) = rest \cup Share(f[p])
    BY <1>2
  <2>2. Units(u, k) = rest \cup Share(u[p])
    BY <1>2, <1>3
  <2> QED
    BY <1>3, <2>1, <2>2
<1>5. Total(f, k) = Cardinality(rest) + f[p] /\ Total(u, k) = Cardinality(rest) + c
  BY <1>1, <1>3, <1>4 DEF Total
<1>6. Cardinality(rest) \in Nat
  <2>1. rest \in SUBSET Units(f, k)
    OBVIOUS
  <2>2. IsFiniteSet(rest)
    BY <2>1, UnitsFinite, FS_Subset
  <2> QED
    BY <2>2, FS_CardinalityType
<1> QED
  BY <1>3, <1>5, <1>6

(* The most a node can have spent on an identity, and what each node has   *)
(* spent in its present life, counting what a subject will resume from.    *)
Most(id) == Limit(id) - 1
Living(id) == [n \in Nodes |-> IF up[n] THEN SpentOf(n, id) ELSE 0]

Paid(id) == used[id] <= crashes * Most(id) + Total(Living(id), Most(id))

UsageInv ==
    /\ \A r \in Requests : req[r] # Free => req[r].pc = "complete"
    /\ \A id \in Ids : MaxTokens[id] > 0 => Paid(id)

LEMMA LivingType ==
    ASSUME TypeOK, BudgetInv, NEW id \in Ids, MaxTokens[id] > 0
    PROVE  /\ Most(id) \in Nat /\ Limit(id) \in Nat /\ Most(id) + 1 = Limit(id)
           /\ \A n \in Nodes : SpentOf(n, id) \in 0 .. Most(id)
           /\ Living(id) \in [Nodes -> 0 .. Most(id)]
<1>1. Nodes # {} /\ \A n \in Nodes : Limit(id) \in Nat /\ Pending(n, id) \in Nat
  BY InFlightFinite, NodesAssumption
<1>2. ASSUME NEW n \in Nodes
      PROVE  SpentOf(n, id) \in Nat /\ SpentOf(n, id) < Limit(id)
  <2>1. /\ loaded[n][id] \in Nat /\ spent[n][id] \in Nat /\ loaded[n][id] < Limit(id)
        /\ spent[n][id] + Pending(n, id) < Limit(id)
    BY LedgerNumbers DEF BudgetInv
  <2>2. spent[n][id] < Limit(id)
    BY <1>1, <2>1
  <2> QED
    BY <2>1, <2>2 DEF SpentOf
<1>3. Limit(id) \in Nat /\ Limit(id) > 0
  BY <1>1, <1>2
<1>4. Most(id) \in Nat /\ Most(id) + 1 = Limit(id)
  BY <1>3 DEF Most
<1>5. \A n \in Nodes : SpentOf(n, id) \in 0 .. Most(id)
  BY <1>2, <1>3, <1>4
<1>6. Living(id) \in [Nodes -> 0 .. Most(id)]
  BY <1>4, <1>5 DEF Living
<1> QED
  BY <1>3, <1>4, <1>5, <1>6

(* The same of the state after a step.                                     *)
LEMMA LivingNext ==
    ASSUME TypeOK', BudgetInv', NEW id \in Ids, MaxTokens[id] > 0, NEW n \in Nodes
    PROVE  SpentOf(n, id)' \in 0 .. Most(id)
<1>1. PICK flying : flying = InFlight(n, id)'
  OBVIOUS
<1>2. flying \in SUBSET Requests /\ IsFiniteSet(Requests)
  BY <1>1, GovernorAssumption DEF InFlight
<1>3. Cardinality(flying) \in Nat /\ Cardinality(Requests) \in Nat
  BY <1>2, FS_Subset, FS_CardinalityType
<1>4. MaxCost * Cardinality(flying) \in Nat /\ Limit(id) \in Nat
  BY <1>3, GovernorAssumption, ProductNat DEF Limit, Overshoot
<1>5. /\ loaded'[n][id] \in Nat /\ spent'[n][id] \in Nat
      /\ loaded'[n][id] < Limit(id)
      /\ spent'[n][id] + MaxCost * Cardinality(flying) < Limit(id)
  BY <1>1 DEF TypeOK, Spend, Store!StoreTypeOK, BudgetInv, Pending, Limit, Overshoot
<1>6. loaded'[n][id] \in 0 .. Most(id) /\ spent'[n][id] \in 0 .. Most(id)
  BY <1>4, <1>5 DEF Most
<1> QED
  BY <1>6 DEF SpentOf

(* A step that changes the share of one node only.                         *)
LEMMA PaidStep ==
    ASSUME TypeOK, TypeOK', BudgetInv, NEW id \in Ids, MaxTokens[id] > 0, Paid(id),
           NEW p \in Nodes, NEW c \in 0 .. Most(id),
           Living(id)' = [Living(id) EXCEPT ![p] = c],
           NEW was \in Nat, was = Living(id)[p],
           \/ crashes' = crashes /\ used'[id] + was <= used[id] + c
           \/ crashes' = crashes + 1 /\ c = 0 /\ used'[id] = used[id]
    PROVE  Paid(id)'
<1>1. PICK k : k = Most(id)
  OBVIOUS
<1>2. PICK f, g : f = Living(id) /\ g = Living(id)'
  OBVIOUS
<1>3. k \in Nat /\ f \in [Nodes -> 0 .. k] /\ Most(id)' = k
  <2>1. Most(id)' = Most(id)
    BY DEF Most, Limit, Overshoot
  <2> QED
    BY <1>1, <1>2, <2>1, LivingType
<1>4. Total(g, k) + was = Total(f, k) + c
  <2>1. g = [f EXCEPT ![p] = c] /\ c \in 0 .. k /\ was = f[p]
    BY <1>1, <1>2
  <2>2. Total([f EXCEPT ![p] = c], k) + f[p] = Total(f, k) + c
    BY <1>3, <2>1, TotalSteps
  <2> QED
    BY <2>1, <2>2
<1>5. Total(f, k) \in Nat /\ Total(g, k) \in Nat
  BY <1>3, UnitsFinite
<1>6. used[id] \in Nat /\ used'[id] \in Nat /\ crashes \in Nat
  BY DEF TypeOK, Spend
<1>7. used[id] <= crashes * k + Total(f, k)
  BY <1>1, <1>2 DEF Paid
<1>8. crashes * k \in Nat /\ (crashes + 1) * k = crashes * k + k /\ was <= k
  <2>1. \A x, y \in Nat : (x + 1) * y = x * y + y
    OBVIOUS
  <2> QED
    BY <1>2, <1>3, <1>6, <2>1, ProductNat
<1>9. used'[id] <= crashes' * k + Total(g, k)
  <2>1. PICK m \in Nat : m = crashes * k
    BY <1>8
  <2>2. CASE crashes' = crashes /\ used'[id] + was <= used[id] + c
    BY <1>4, <1>5, <1>6, <1>7, <2>1, <2>2
  <2>3. CASE crashes' = crashes + 1 /\ c = 0 /\ used'[id] = used[id]
    <3>1. crashes' * k = m + k
      BY <1>8, <2>1, <2>3
    <3> QED
      BY <1>3, <1>4, <1>5, <1>6, <1>7, <1>8, <2>1, <2>3, <3>1
  <2> QED
    BY <2>2, <2>3
<1> QED
  BY <1>2, <1>3, <1>9 DEF Paid

(* A step that changes no share.                                           *)
LEMMA PaidKept ==
    ASSUME NEW id \in Ids, Paid(id), UNCHANGED <<used, crashes>>, Living(id)' = Living(id)
    PROVE  Paid(id)'
  BY DEF Paid, Total, Units, Most, Limit, Overshoot

LEMMA UsageStep ==
    ASSUME Streaming = FALSE, TypeOK, TypeOK', BudgetInv, UsageInv, [Next]_vars
    PROVE  UsageInv'
<1>1. ASSUME UNCHANGED <<up, known, spent, loaded, req, used, crashes>>  PROVE UsageInv'
  <2>1. \A id \in Ids : Living(id)' = Living(id)
    BY <1>1 DEF Living, SpentOf, Fresh
  <2> QED
    BY <1>1, <2>1, PaidKept DEF UsageInv
<1>2. ASSUME NEW n \in Nodes, Start(n) \/ StartUnreadable(n)  PROVE UsageInv'
  <2>1. /\ ~up[n] /\ up' = [up EXCEPT ![n] = TRUE] /\ New(n)
        /\ \A m \in Nodes : m # n => loaded'[m] = loaded[m]
    BY <1>2 DEF Start, StartUnreadable, Store!Boot, Store!BootUnreadable, TypeOK, Store!StoreTypeOK
  <2>2. ASSUME NEW id \in Ids, MaxTokens[id] > 0  PROVE Paid(id)'
    <3>1. PICK c : c = SpentOf(n, id)'
      OBVIOUS
    <3>2. c \in 0 .. Most(id)
      <4>1. BudgetInv'
        BY BudgetStep
      <4> QED
        BY <2>2, <3>1, <4>1, LivingNext
    <3>3. Living(id)' = [Living(id) EXCEPT ![n] = c]
      <4>1. ASSUME NEW m \in Nodes, m # n
            PROVE  up'[m] = up[m] /\ SpentOf(m, id)' = SpentOf(m, id)
        BY <2>1, <4>1 DEF New, SpentOf, Fresh, TypeOK, Store!StoreTypeOK
      <4>2. up'[n]
        BY <2>1 DEF TypeOK, Store!StoreTypeOK
      <4> QED
        BY <3>1, <4>1, <4>2 DEF Living
    <3>4. Living(id)[n] = 0
      BY <2>1 DEF Living
    <3>5. used' = used /\ crashes' = crashes /\ used[id] \in Nat
      BY <2>1 DEF New, TypeOK, Spend
    <3>6. used'[id] + 0 <= used[id] + c
      BY <3>2, <3>5
    <3> QED
      BY <2>2, <3>2, <3>3, <3>4, <3>5, <3>6, PaidStep DEF UsageInv
  <2>3. req' = req
    BY <2>1 DEF New
  <2> QED
    BY <2>2, <2>3 DEF UsageInv
<1>3. ASSUME NEW n \in Nodes, Crash(n)  PROVE UsageInv'
  <2>1. /\ up[n] /\ up' = [up EXCEPT ![n] = FALSE] /\ crashes' = crashes + 1
        /\ UNCHANGED <<loaded, known, spent, used>>
        /\ \A r \in Requests : req'[r] = Free \/ req'[r] = req[r]
    BY <1>3 DEF Crash, Store!Crash, keyVars, TypeOK
  <2>2. ASSUME NEW id \in Ids, MaxTokens[id] > 0  PROVE Paid(id)'
    <3>1. Living(id)' = [Living(id) EXCEPT ![n] = 0]
      BY <2>1 DEF Living, SpentOf, Fresh, TypeOK, Store!StoreTypeOK
    <3>2. PICK was \in Nat : was = Living(id)[n]
      BY <2>2, LivingType
    <3>3. 0 \in 0 .. Most(id)
      BY <2>2, LivingType
    <3> QED
      BY <2>1, <2>2, <3>1, <3>2, <3>3, PaidStep DEF UsageInv
  <2> QED
    BY <2>1, <2>2 DEF UsageInv
<1>4. ASSUME NEW n \in Nodes, NEW i \in Ids, NEW l, NEW t, Identify(n, i, l, t),
             \A r \in Requests : req'[r] # Free => req'[r].pc = "complete"
      PROVE  UsageInv'
  <2>1. /\ known' = [known EXCEPT ![n] = IF i \in Subjects THEN @ \cup {i} ELSE @]
        /\ spent' = [spent EXCEPT ![n][i] = SpentOf(n, i)]
        /\ UNCHANGED <<up, loaded, used, crashes>>
    BY <1>4 DEF Identify, storeVars
  <2>2. ASSUME NEW m \in Nodes, NEW id \in Ids  PROVE SpentOf(m, id)' = SpentOf(m, id)
    <3>1. CASE m = n /\ id = i
      BY <2>1, <3>1 DEF SpentOf, Fresh, TypeOK, Spend
    <3>2. CASE m # n \/ id # i
      BY <2>1, <3>2 DEF SpentOf, Fresh, TypeOK, Spend
    <3> QED
      BY <3>1, <3>2
  <2>3. \A id \in Ids : Living(id)' = Living(id)
    BY <2>1, <2>2 DEF Living
  <2> QED
    BY <1>4, <2>1, <2>3, PaidKept DEF UsageInv
<1>5. ASSUME NEW n \in Nodes, NEW id \in Ids, DenyBudget(n, id) \/ DenyRateLimited(n, id)
      PROVE  UsageInv'
  BY <1>4, <1>5 DEF DenyBudget, DenyRateLimited, UsageInv
<1>6. ASSUME NEW r \in Requests, NEW n \in Nodes, NEW id \in Ids,
             NEW pc \in {"complete", "stream"}, Admit(r, n, id, pc)
      PROVE  UsageInv'
  <2>1. pc = "complete" /\ req' = [req EXCEPT ![r] = [pc |-> pc, node |-> n, id |-> id]]
    BY <1>6 DEF Admit
  <2>2. \A q \in Requests : req'[q] # Free => req'[q].pc = "complete"
    BY <2>1 DEF UsageInv, TypeOK
  <2> QED
    BY <1>4, <1>6, <2>2 DEF Admit
<1>7. ASSUME NEW r \in Requests, NEW c \in Costs, Respond(r, c)
      PROVE  UsageInv'
  <2>1. req[r] # Free
    BY <1>7 DEF Respond, UsageInv, Free
  <2>2. PICK n \in Nodes, i \in Ids : n = req[r].node /\ i = req[r].id
    BY <2>1, <1>7 DEF TypeOK, Serving
  <2>3. /\ up[n] /\ ~Fresh(n, i) /\ c \in Nat
        /\ used' = [used EXCEPT ![i] = @ + c] /\ spent' = [spent EXCEPT ![n][i] = @ + c]
        /\ UNCHANGED <<up, loaded, known, crashes>> /\ req' = [req EXCEPT ![r] = Free]
    BY <1>7, <2>1, <2>2, GovernorAssumption
       DEF Respond, RecordSpend, Release, BudgetInv, HandlersAlive, storeVars
  <2>4. ASSUME NEW id \in Ids, MaxTokens[id] > 0, id # i  PROVE Paid(id)'
    <3>1. used'[id] = used[id]
      BY <2>3, <2>4 DEF TypeOK, Spend
    <3>2. Living(id)' = Living(id)
      BY <2>3, <2>4 DEF Living, SpentOf, Fresh, TypeOK, Spend
    <3> QED
      BY <2>3, <2>4, <3>1, <3>2 DEF UsageInv, Paid, Total, Units, Most, Limit, Overshoot
  <2>5. ASSUME MaxTokens[i] > 0  PROVE Paid(i)'
    <3>1. PICK new : new = SpentOf(n, i)'
      OBVIOUS
    <3>2. new \in 0 .. Most(i)
      <4>1. BudgetInv'
        BY BudgetStep
      <4> QED
        BY <2>5, <3>1, <4>1, LivingNext
    <3>3. new = SpentOf(n, i) + c /\ SpentOf(n, i) \in Nat
      BY <2>3, <3>1, RefilledType DEF SpentOf, Fresh, TypeOK, Spend
    <3>4. Living(i)' = [Living(i) EXCEPT ![n] = new]
      <4>1. ASSUME NEW m \in Nodes, m # n  PROVE SpentOf(m, i)' = SpentOf(m, i)
        BY <2>3, <4>1 DEF SpentOf, Fresh, TypeOK, Spend
      <4> QED
        BY <2>3, <3>1, <4>1 DEF Living
    <3>5. Living(i)[n] = SpentOf(n, i)
      BY <2>3 DEF Living
    <3>6. used'[i] = used[i] + c /\ used[i] \in Nat
      BY <2>3 DEF TypeOK, Spend
    <3>7. PICK was \in Nat : was = Living(i)[n]
      BY <3>3, <3>5
    <3>8. used'[i] + was <= used[i] + new
      BY <2>3, <3>3, <3>5, <3>6, <3>7
    <3> QED
      BY <2>3, <2>5, <3>2, <3>4, <3>7, <3>8, PaidStep DEF UsageInv
  <2>6. \A q \in Requests : req'[q] # Free => req'[q].pc = "complete"
    BY <2>3 DEF UsageInv, TypeOK
  <2> QED
    BY <2>4, <2>5, <2>6 DEF UsageInv
<1>8. ASSUME NEW r \in Requests, NEW c \in Costs, RespondStream(r, c)
      PROVE  UsageInv'
  <2>1. req[r] # Free
    BY <1>8 DEF RespondStream, Free
  <2> QED
    BY <1>8, <2>1 DEF RespondStream, UsageInv
<1>9. ASSUME NEW r \in Requests, Fail(r)  PROVE UsageInv'
  <2>1. /\ UNCHANGED <<up, known, spent, loaded, used, crashes>>
        /\ \A q \in Requests : req'[q] # Free => req'[q].pc = "complete"
    BY <1>9 DEF Fail, Release, storeVars, UsageInv, TypeOK
  <2>2. \A id \in Ids : Living(id)' = Living(id)
    BY <2>1 DEF Living, SpentOf, Fresh
  <2> QED
    BY <2>1, <2>2, PaidKept DEF UsageInv
<1>10. ASSUME NEW n \in Nodes, FlushStart(n) \/ FlushSave(n) \/ SaveDone(n) \/ SaveFails(n)
       PROVE  UsageInv'
  BY <1>1, <1>10 DEF FlushStart, FlushSave, SaveDone, SaveFails, keyVars, storeVars,
                     Store!BeginSave, Store!CommitSave, Store!FailSave
<1>11. ASSUME NEW n \in Nodes, NEW id \in Ids, FlushRead(n, id)  PROVE UsageInv'
  BY <1>1, <1>11 DEF FlushRead, keyVars, storeVars
<1>12. ASSUME NEW d \in Steps, Tick(d)  PROVE UsageInv'
  BY <1>1, <1>12 DEF Tick, keyVars, storeVars
<1>13. CASE UNCHANGED vars
  BY <1>1, <1>13 DEF vars, keyVars, storeVars
<1> QED
  BY <1>2, <1>3, <1>5, <1>6, <1>7, <1>8, <1>9, <1>10, <1>11, <1>12, <1>13 DEF Next

(* The tokens an identity really obtains, from all nodes in all their      *)
(* lives, stay below its limit times the number of lives, whatever spend   *)
(* the crashes lose.  Streams are charged nothing (streamChat), so the     *)
(* bound is for clients that do not stream.                                *)
THEOREM UsageBoundedHolds ==
    ASSUME Streaming = FALSE
    PROVE  Spec => []UsageBounded
<1>1. Init => BudgetInv /\ UsageInv
  <2> SUFFICES ASSUME Init PROVE BudgetInv /\ UsageInv
    OBVIOUS
  <2>1. BudgetInv
    BY BudgetInit
  <2>2. \A id \in Ids : used[id] = 0 /\ crashes = 0
    BY DEF Init, NoSpend
  <2>3. ASSUME NEW id \in Ids, MaxTokens[id] > 0  PROVE Paid(id)
    <3>1. TypeOK
      BY TypeInit
    <3>2. Most(id) \in Nat
      BY <2>1, <2>3, <3>1, LivingType
    <3>3. Total(Living(id), Most(id)) \in Nat /\ crashes * Most(id) = 0
      BY <2>2, <3>2, UnitsFinite
    <3> QED
      BY <2>2, <3>3 DEF Paid
  <2> QED
    BY <2>1, <2>3 DEF UsageInv, Init
<1>2. TypeOK /\ TypeOK' /\ BudgetInv /\ UsageInv /\ [Next]_vars => BudgetInv' /\ UsageInv'
  BY BudgetStep, UsageStep
<1>3. ASSUME TypeOK, BudgetInv, UsageInv  PROVE UsageBounded
  <2> SUFFICES ASSUME NEW id \in Ids, MaxTokens[id] > 0
               PROVE  used[id] < Lives * (MaxTokens[id] + Overshoot)
    BY DEF UsageBounded
  <2>1. PICK k \in Nat : k = Most(id) /\ k + 1 = MaxTokens[id] + Overshoot
    BY <1>3, LivingType DEF Limit
  <2>2. PICK a \in Nat \ {0} : a = Cardinality(Nodes)
    BY <2>1, UnitsFinite
  <2>3. PICK t \in Nat : t = Total(Living(id), k) /\ t <= a * k
    BY <2>1, <2>2, UnitsFinite
  <2>4. used[id] <= crashes * k + t /\ crashes \in Nat /\ used[id] \in Nat
    BY <1>3, <2>1, <2>3 DEF UsageInv, Paid, TypeOK, Spend
  <2>5. (a + crashes) * (k + 1) = a * k + crashes * k + a + crashes
        /\ a * k \in Nat /\ crashes * k \in Nat
    <3>1. \A x, y, z \in Nat : (x + y) * (z + 1) = x * z + y * z + x + y
      OBVIOUS
    <3> QED
      BY <2>4, <3>1, ProductNat
  <2>6. used[id] < (a + crashes) * (k + 1)
    BY <2>3, <2>4, <2>5
  <2> QED
    BY <2>1, <2>2, <2>6 DEF Lives
<1> QED
  BY <1>1, <1>2, <1>3, TypeCorrect, PTL DEF Spec

=============================================================================
