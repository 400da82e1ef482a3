--------------------------- MODULE GatewayProofs ---------------------------
(* Theorems of Gateway, for any handlers, routes, requests and cache.      *)
EXTENDS Gateway, FiniteSetTheorems, FunctionTheorems, SequenceTheorems, TLAPS

-----------------------------------------------------------------------------
(* A set of numbers has a least one. *)
LEMMA Least ==
    ASSUME NEW T \in SUBSET Nat, T # {}
    PROVE  \E n \in T : \A m \in T : n <= m
<1> DEFINE R == OpToRel(<, Nat)
<1>1. \A m, n \in Nat : m < n => <<m, n>> \in R
  BY DEF OpToRel
<1>2. IsWellFoundedOn(R, Nat)
  BY NatLessThanWellFounded
<1> HIDE DEF R
<1>3. PICK n \in T : \A m \in T : ~(<<m, n>> \in R)
  BY <1>2, WFMin
<1>4. \A m \in T : m \in Nat /\ n \in Nat /\ ~(m < n)
  BY <1>1, <1>3
<1>5. \A m \in T : n <= m
  BY <1>4
<1> QED
  BY <1>5

(* A loop that collects the elements of a list at the indices of K: what   *)
(* it has after i of them.                                                 *)
Collect(list, K, g, i) ==
    IF i = 0 THEN <<>> ELSE IF i \in K THEN Append(g[i - 1], list[i]) ELSE g[i - 1]

Collects(list, K, len, g) == g = [i \in 0 .. len |-> Collect(list, K, g, i)]

LEMMA CollectStep ==
    ASSUME NEW S, NEW list, NEW K, \A j \in K : list[j] \in S,
           NEW g, NEW i \in Nat, i # 0 => g[i - 1] \in Seq(S)
    PROVE  Collect(list, K, g, i) \in Seq(S)
<1>1. CASE i = 0
  BY <1>1, EmptySeq DEF Collect
<1>2. CASE i # 0
  <2>1. g[i - 1] \in Seq(S)
    BY <1>2
  <2>2. i \in K => Append(g[i - 1], list[i]) \in Seq(S)
    BY <2>1, AppendProperties
  <2> QED
    BY <1>2, <2>1, <2>2 DEF Collect
<1> QED
  BY <1>1, <1>2

(* The loop has a result for lists of every length: the least length       *)
(* without one would have a predecessor with one.                          *)
LEMMA CollectsExists ==
    ASSUME NEW S, NEW list, NEW K, \A j \in K : list[j] \in S, NEW len \in Nat
    PROVE  \E g : Collects(list, K, len, g)
<1> DEFINE Is(g, n) == \A i \in 0 .. n : g[i] = Collect(list, K, g, i)
           Bad == {n \in Nat : ~\E g \in [0 .. n -> Seq(S)] : Is(g, n)}
<1>1. Bad = {}
  <2>1. SUFFICES ASSUME Bad # {}
                 PROVE  FALSE
    OBVIOUS
  <2>2. PICK n \in Bad : \A m \in Bad : n <= m
    <3>1. Bad \in SUBSET Nat
      OBVIOUS
    <3> HIDE DEF Bad
    <3> QED
      BY <2>1, <3>1, Least
  <2>3. n \in Nat /\ ~\E g \in [0 .. n -> Seq(S)] : Is(g, n)
    OBVIOUS
  <2>4. CASE n = 0
    <3>1. PICK g : g = [i \in 0 .. 0 |-> <<>>]
      OBVIOUS
    <3>2. g \in [0 .. 0 -> Seq(S)] /\ Is(g, 0)
      BY <3>1 DEF Collect
    <3> QED
      BY <2>3, <2>4, <3>2
  <2>5. CASE n # 0
    <3>1. n - 1 \in Nat /\ n - 1 \notin Bad
      <4>1. n - 1 \in Nat /\ ~(n <= n - 1)
        BY <2>3, <2>5
      <4> QED
        BY <2>2, <4>1
    <3>2. PICK f \in [0 .. n - 1 -> Seq(S)] : Is(f, n - 1)
      BY <3>1
    <3>3. PICK g : g = [i \in 0 .. n |-> IF i = n THEN Collect(list, K, f, n) ELSE f[i]]
      OBVIOUS
    <3>4. g[n] = Collect(list, K, f, n) /\ \A i \in 0 .. n - 1 : g[i] = f[i]
      BY <2>3, <2>5, <3>3
    <3>5. Collect(list, K, f, n) \in Seq(S)
      <4>1. f[n - 1] \in Seq(S)
        BY <2>3, <2>5, <3>1
      <4> QED
        BY <2>3, <4>1, CollectStep
    <3>6. g \in [0 .. n -> Seq(S)]
      <4>1. ASSUME NEW i \in 0 .. n  PROVE g[i] \in Seq(S)
        BY <2>3, <2>5, <3>4, <3>5
      <4> QED
        BY <3>3, <4>1
    <3>7. \A i \in 0 .. n : Collect(list, K, g, i) = Collect(list, K, f, i)
      BY <2>3, <2>5, <3>4 DEF Collect
    <3>8. Is(g, n)
      <4>1. ASSUME NEW i \in 0 .. n  PROVE g[i] = Collect(list, K, g, i)
        <5>1. CASE i = n
          BY <3>4, <3>7, <5>1
        <5>2. CASE i # n
          <6>1. i \in 0 .. n - 1
            BY <2>3, <5>2
          <6> QED
            BY <3>2, <3>4, <3>7, <6>1
        <5> QED
          BY <5>1, <5>2
      <4> QED
        BY <4>1
    <3> QED
      BY <2>3, <3>6, <3>8
  <2> QED
    BY <2>4, <2>5
<1>2. PICK g \in [0 .. len -> Seq(S)] : Is(g, len)
  BY <1>1
<1>3. Collects(list, K, len, g)
  BY <1>2 DEF Collects
<1> QED
  BY <1>3

LEMMA CollectsTypes ==
    ASSUME NEW S, NEW list, NEW K, \A j \in K : list[j] \in S, NEW len \in Nat,
           NEW g, Collects(list, K, len, g), NEW last \in 0 .. len
    PROVE  g[last] = Collect(list, K, g, last) /\ g[last] \in Seq(S)
<1> DEFINE Bad == {i \in 0 .. len : g[i] \notin Seq(S)}
<1>1. \A i \in 0 .. len : g[i] = Collect(list, K, g, i)
  BY DEF Collects
<1>2. Bad = {}
  <2>1. SUFFICES ASSUME Bad # {}
                 PROVE  FALSE
    OBVIOUS
  <2>2. PICK i \in Bad : \A j \in Bad : i <= j
    <3>1. Bad \in SUBSET Nat
      OBVIOUS
    <3> HIDE DEF Bad
    <3> QED
      BY <2>1, <3>1, Least
  <2>3. i \in Nat /\ i \in 0 .. len /\ g[i] \notin Seq(S)
    BY <2>2
  <2>4. i # 0 => g[i - 1] \in Seq(S)
    <3>1. i # 0 => i - 1 \in 0 .. len /\ ~(i <= i - 1)
      BY <2>3
    <3> QED
      BY <2>2, <3>1
  <2>5. Collect(list, K, g, i) \in Seq(S)
    BY <2>3, <2>4, CollectStep
  <2> QED
    BY <1>1, <2>3, <2>5
<1> QED
  BY <1>1, <1>2

(* Resolve's loop, over the targets of configured providers.               *)
Kept(targets, g, i) ==
    IF i = 0 THEN <<>>
    ELSE IF targets[i] \in Providers THEN Append(g[i - 1], targets[i]) ELSE g[i - 1]

LEMMA UsableTypes ==
    ASSUME NEW q, q.model \in Models
    PROVE  Usable(q) \in Seq(Providers)
<1> DEFINE targets == Route[q.model]
           len == Len(targets)
           K == {i \in 1 .. len : targets[i] \in Providers}
           Is(g) == g = [i \in 0 .. len |-> Kept(targets, g, i)]
           attempts == CHOOSE g : Is(g)
<1>1. Usable(q) = attempts[len]
  BY DEF Usable, Kept
<1>2. len \in Nat
  BY GatewayAssumption, LenProperties
<1> HIDE DEF targets
<1>3. ASSUME NEW g  PROVE Is(g) <=> Collects(targets, K, len, g)
  <2>1. \A i \in 0 .. len : Kept(targets, g, i) = Collect(targets, K, g, i)
    BY <1>2 DEF Kept, Collect
  <2> QED
    BY <2>1 DEF Collects
<1>4. \A j \in K : targets[j] \in Providers
  OBVIOUS
<1>5. \E g : Collects(targets, K, len, g)
  <2> HIDE DEF K, len
  <2> QED
    BY <1>2, <1>4, CollectsExists
<1>6. Collects(targets, K, len, attempts)
  <2>1. \E g : Is(g)
    BY <1>3, <1>5
  <2>2. Is(attempts)
    BY <2>1
  <2> QED
    BY <1>3, <2>2
<1> HIDE DEF attempts, K, len
<1>7. attempts[len] \in Seq(Providers)
  <2>1. len \in 0 .. len
    BY <1>2
  <2> QED
    BY <1>2, <1>4, <1>6, <2>1, CollectsTypes
<1> QED
  BY <1>1, <1>7

-----------------------------------------------------------------------------
(* The last answer among the first i - 1 calls of a trail, 0 without one.  *)
LastOk(t, i) == SelectLastInSubSeq(t, 1, i - 1, LAMBDA c : c.out = "ok")

Answered(t, i) == {j \in 1 .. i - 1 : t[j].out = "ok"}

LEMMA LastOkIs ==
    ASSUME NEW t, NEW i
    PROVE  LastOk(t, i) = IF Answered(t, i) # {} THEN Max(Answered(t, i)) ELSE 0
BY DEF LastOk, Answered, SelectLastInSubSeq

LEMMA LastOkSteps ==
    ASSUME NEW t, NEW i \in Nat \ {0}
    PROVE  /\ LastOk(t, 1) = 0
           /\ t[i].out = "ok" => LastOk(t, i + 1) = i
           /\ t[i].out # "ok" => LastOk(t, i + 1) = LastOk(t, i)
<1>1. LastOk(t, 1) = 0
  <2>1. Answered(t, 1) = {}
    BY DEF Answered
  <2> QED
    BY <2>1, LastOkIs
<1>2. ASSUME t[i].out = "ok"  PROVE LastOk(t, i + 1) = i
  <2>1. i \in Answered(t, i + 1) /\ \A j \in Answered(t, i + 1) : j \in Nat /\ i >= j
    BY <1>2 DEF Answered
  <2>2. Max(Answered(t, i + 1)) = i
    <3>1. \A j \in Answered(t, i + 1) : j >= i => j = i
      BY <2>1
    <3> QED
      BY <2>1, <3>1 DEF Max
  <2> QED
    BY <2>1, <2>2, LastOkIs
<1>3. ASSUME t[i].out # "ok"  PROVE LastOk(t, i + 1) = LastOk(t, i)
  <2>1. Answered(t, i + 1) = Answered(t, i)
    BY <1>3 DEF Answered
  <2> QED
    BY <2>1, LastOkIs
<1> QED
  BY <1>1, <1>2, <1>3

LEMMA LastOkBefore ==
    ASSUME NEW t, NEW i \in Nat \ {0}
    PROVE  LastOk(t, i) \in 0 .. i - 1
<1> DEFINE Bad == {n \in Nat \ {0} : LastOk(t, n) \notin 0 .. n - 1}
<1>1. Bad = {}
  <2>1. SUFFICES ASSUME Bad # {}
                 PROVE  FALSE
    OBVIOUS
  <2>2. PICK n \in Bad : \A m \in Bad : n <= m
    <3>1. Bad \in SUBSET Nat
      OBVIOUS
    <3> HIDE DEF Bad
    <3> QED
      BY <2>1, <3>1, Least
  <2>3. n \in Nat \ {0} /\ LastOk(t, n) \notin 0 .. n - 1
    BY <2>2
  <2>4. n # 1
    BY <2>3, LastOkSteps
  <2>5. PICK m \in Nat \ {0} : m = n - 1
    BY <2>3, <2>4
  <2>6. LastOk(t, m) \in 0 .. m - 1
    BY <2>2, <2>3, <2>5
  <2>7. LastOk(t, m + 1) = m \/ LastOk(t, m + 1) = LastOk(t, m)
    BY LastOkSteps
  <2>8. m + 1 = n
    BY <2>3, <2>5
  <2> QED
    BY <2>3, <2>5, <2>6, <2>7, <2>8
<1> QED
  BY <1>1

(* A call that is added changes nothing for those before it.               *)
LEMMA LastOkAppend ==
    ASSUME NEW S, NEW t \in Seq(S), NEW e \in S, NEW i \in 1 .. Len(t) + 1
    PROVE  LastOk(Append(t, e), i) = LastOk(t, i)
<1>1. \A j \in 1 .. i - 1 : Append(t, e)[j] = t[j]
  <2>1. Len(t) \in Nat /\ \A j \in 1 .. Len(t) : Append(t, e)[j] = t[j]
    BY AppendProperties, LenProperties
  <2> QED
    BY <2>1
<1>2. Answered(Append(t, e), i) = Answered(t, i)
  BY <1>1 DEF Answered
<1> QED
  BY <1>2, LastOkIs

-----------------------------------------------------------------------------
(* What is true of a handler at any time, x being its record.              *)
Calls == [by : Providers, out : {"ok", "retry"}]
Rounds == [calls : CallCounts \ {0}, results : Nat]
Records ==
    [pc : Pcs, asked : Requests \cup {None}, req : Sent \cup {None}, idx : Nat, iter : Nat, tools : Nat,
     resp : Responses \cup {None}, hit : {"none", "exact", "close"}, at : Nat, gone : BOOLEAN,
     trail : Seq(Calls), rounds : Seq(Rounds), sources : SUBSET Nat]

Placed(x) ==
    /\ x.asked \in Requests /\ x.req \in Sent
    /\ x.idx \in 0 .. Len(Usable(x.req)) /\ x.iter \in 0 .. MaxIter
    /\ x.pc \in {"call", "backoff", "tools", "done"} => x.idx # 0
    /\ x.pc \in {"call", "backoff"} => x.iter < MaxIter
    /\ x.pc \in {"tools", "done", "put", "answer"} => x.resp \in Responses
    /\ x.pc \in {"lookup", "resolve"} =>
          x.trail = <<>> /\ x.rounds = <<>> /\ x.sources = {} /\ x.iter = 0
    /\ x.pc = "tools" => x.req.kind = "complete"

(* The calls so far follow the chain, and the next one will.               *)
Followed(x) ==
    LET t == x.trail
        u == Usable(x.req)
    IN  /\ \A i \in 1 .. Len(t) : t[i].by = u[i - LastOk(t, i)]
        /\ x.pc = "call" => x.idx = Len(t) + 1 - LastOk(t, Len(t) + 1)
        /\ x.pc = "backoff" => x.idx = Len(t) - LastOk(t, Len(t) + 1)
        /\ x.pc = "tools" => LastOk(t, Len(t) + 1) = Len(t)

(* What a stream's client received came from targets that then failed, or  *)
(* from the last one.                                                      *)
Relayed(x) ==
    LET t == x.trail
    IN  /\ x.req.kind = "complete" => x.sources = {}
        /\ \A i \in x.sources : i \in 1 .. Len(t) + 1 /\ (i < Len(t) => t[i].out = "retry")
        /\ x.req.kind = "stream" /\ x.pc \in {"call", "backoff"} =>
              \A i \in 1 .. Len(t) : t[i].out = "retry"

(* Only while the tools run, calls of the last answer are open.            *)
Settled(x) ==
    LET n == Len(x.rounds)
        open == x.pc = "tools"
    IN  /\ \A i \in 1 .. n : (open /\ i = n) \/ x.rounds[i].results = x.rounds[i].calls
        /\ open => n # 0 /\ x.rounds[n].results < x.rounds[n].calls

Sound(x) ==
    /\ x \in Records
    /\ IF x.pc = "idle" THEN x = Idle ELSE Placed(x) /\ Followed(x) /\ Relayed(x) /\ Settled(x)

HandlersInv == h \in [Handlers -> Records] /\ \A r \in Handlers : Sound(h[r])

LEMMA RequestTypes ==
    ASSUME NEW q \in Sent
    PROVE  q.kind \in {"complete", "stream"} /\ q.model \in Models /\ Usable(q) \in Seq(Providers)
<1>1. PICK o \in Requests, s \in Summaries \cup {NoSummary} : q = [o EXCEPT !.msgs = Apply(o.msgs, s)]
  BY DEF Sent
<1>2. o \in [kind : {"complete", "stream"}, model : Models, msgs : Seq(Messages),
            temperature : Extras, rest : Extras]
  BY GatewayAssumption
<1>3. q.kind \in {"complete", "stream"} /\ q.model \in Models
  BY <1>1, <1>2
<1> QED
  BY <1>3, UsableTypes

LEMMA IdleSound == Sound(Idle)
<1>1. Idle \in Records
  BY EmptySeq DEF Idle, Records, Pcs
<1> QED
  BY <1>1 DEF Sound, Idle

LEMMA StepSound ==
    ASSUME HandlersInv, NEW r \in Handlers, NEW rec, Sound(rec), Step(r, rec)
    PROVE  HandlersInv'
<1>1. rec \in Records
  BY DEF Sound
<1>2. h' \in [Handlers -> Records] /\ h'[r] = rec /\ \A o \in Handlers \ {r} : h'[o] = h[o]
  BY <1>1 DEF HandlersInv, Step
<1> QED
  BY <1>2 DEF HandlersInv

(* What is known of a handler that is at work.                             *)
LEMMA Working ==
    ASSUME HandlersInv, NEW r \in Handlers, NEW x, x = h[r], x.pc # "idle"
    PROVE  /\ x \in Records /\ Placed(x) /\ Followed(x) /\ Relayed(x) /\ Settled(x)
           /\ x.req \in Sent /\ x.req.kind \in {"complete", "stream"}
           /\ Usable(x.req) \in Seq(Providers) /\ Len(Usable(x.req)) \in Nat
           /\ x.trail \in Seq(Calls) /\ Len(x.trail) \in Nat
           /\ x.rounds \in Seq(Rounds) /\ Len(x.rounds) \in Nat
<1>1. x \in Records /\ Placed(x) /\ Followed(x) /\ Relayed(x) /\ Settled(x)
  BY DEF HandlersInv, Sound
<1>2. x.req \in Sent
  BY <1>1 DEF Placed
<1>3. x.trail \in Seq(Calls) /\ x.rounds \in Seq(Rounds)
  BY <1>1 DEF Records
<1> QED
  BY <1>1, <1>2, <1>3, RequestTypes, LenProperties

LEMMA BeginSound ==
    ASSUME HandlersInv, NEW r \in Handlers, NEW q \in Requests, NEW s \in Summaries \cup {NoSummary},
           Begin(r, q, s)
    PROVE  HandlersInv'
<1>1. PICK sent : sent = [q EXCEPT !.msgs = Apply(q.msgs, s)]
  OBVIOUS
<1>2. sent \in Sent
  BY <1>1 DEF Sent
<1>3. PICK pc \in {"lookup", "resolve"} : pc = IF q.kind = "complete" THEN "lookup" ELSE "resolve"
  OBVIOUS
<1>4. PICK rec : rec = [Idle EXCEPT !.pc = pc, !.asked = q, !.req = sent]
  OBVIOUS
<1>5. Step(r, rec)
  BY <1>1, <1>3, <1>4 DEF Begin
<1>6. /\ rec.pc = pc /\ rec.asked = q /\ rec.req = sent /\ rec.idx = 0 /\ rec.iter = 0
      /\ rec.trail = <<>> /\ rec.rounds = <<>> /\ rec.sources = {}
  BY <1>4 DEF Idle
<1>7. rec \in Records
  <2>1. Idle \in Records
    BY IdleSound DEF Sound
  <2> QED
    BY <1>2, <1>4, <2>1 DEF Records, Pcs
<1>8. Placed(rec)
  <2>1. 0 \in 0 .. Len(Usable(sent)) /\ 0 \in 0 .. MaxIter
    BY <1>2, RequestTypes, LenProperties, GatewayAssumption
  <2> QED
    BY <1>2, <1>6, <2>1 DEF Placed
<1>9. Followed(rec) /\ Relayed(rec) /\ Settled(rec)
  <2>1. Len(rec.trail) = 0 /\ Len(rec.rounds) = 0
    BY <1>6, EmptySeq
  <2> QED
    BY <1>6, <2>1 DEF Followed, Relayed, Settled
<1>10. Sound(rec)
  BY <1>6, <1>7, <1>8, <1>9 DEF Sound
<1> QED
  BY <1>5, <1>10, StepSound

(* A handler that is done with its calls: only its place changes.          *)
LEMMA RestSound ==
    ASSUME HandlersInv, NEW r \in Handlers, NEW x, x = h[r],
           x.pc \in {"lookup", "done", "put"}, NEW rec \in Records, Step(r, rec),
           rec.pc \in {"put", "answer"}, rec.resp \in Responses,
           rec.asked = x.asked, rec.req = x.req, rec.idx = x.idx, rec.iter = x.iter,
           rec.trail = x.trail, rec.rounds = x.rounds, rec.sources = x.sources
    PROVE  HandlersInv'
<1>1. Placed(x) /\ Followed(x) /\ Relayed(x) /\ Settled(x)
  BY Working
<1>2. Placed(rec)
  BY <1>1 DEF Placed
<1>3. Followed(rec)
  BY <1>1 DEF Followed
<1>4. Relayed(rec) /\ Settled(rec)
  BY <1>1 DEF Relayed, Settled
<1>5. Sound(rec)
  BY <1>2, <1>3, <1>4 DEF Sound
<1> QED
  BY <1>5, StepSound

LEMMA MissSound ==
    ASSUME HandlersInv, NEW r \in Handlers, Miss(r)
    PROVE  HandlersInv'
<1>1. PICK x : x = h[r]
  OBVIOUS
<1>2. PICK rec : rec = [x EXCEPT !.pc = "resolve"]
  OBVIOUS
<1>3. x.pc = "lookup" /\ Step(r, rec)
  BY <1>1, <1>2 DEF Miss
<1>4. x \in Records /\ Placed(x) /\ Followed(x) /\ Relayed(x) /\ Settled(x)
  BY <1>1, <1>3, Working
<1>5. rec \in Records
  BY <1>2, <1>4 DEF Records, Pcs
<1>6. /\ rec.pc = "resolve" /\ rec.asked = x.asked /\ rec.req = x.req /\ rec.idx = x.idx
      /\ rec.iter = x.iter /\ rec.trail = x.trail /\ rec.rounds = x.rounds /\ rec.sources = x.sources
  BY <1>2, <1>4 DEF Records
<1>7. Placed(rec)
  BY <1>3, <1>4, <1>6 DEF Placed
<1>8. Followed(rec) /\ Relayed(rec) /\ Settled(rec)
  BY <1>3, <1>4, <1>6 DEF Followed, Relayed, Settled
<1>9. Sound(rec)
  BY <1>5, <1>6, <1>7, <1>8 DEF Sound
<1> QED
  BY <1>3, <1>9, StepSound

LEMMA ResolveSound ==
    ASSUME HandlersInv, NEW r \in Handlers, Resolve(r)
    PROVE  HandlersInv'
<1>1. PICK x : x = h[r]
  OBVIOUS
<1>2. PICK rec : rec = [x EXCEPT !.pc = "call", !.idx = 1]
  OBVIOUS
<1>3. x.pc = "resolve" /\ Usable(x.req) # <<>> /\ Step(r, rec)
  BY <1>1, <1>2 DEF Resolve
<1>4. /\ x \in Records /\ Placed(x) /\ Relayed(x) /\ Settled(x)
      /\ Usable(x.req) \in Seq(Providers) /\ Len(Usable(x.req)) \in Nat
  BY <1>1, <1>3, Working
<1>5. rec \in Records
  BY <1>2, <1>4 DEF Records, Pcs
<1>6. /\ rec.pc = "call" /\ rec.asked = x.asked /\ rec.req = x.req /\ rec.idx = 1
      /\ rec.iter = x.iter /\ rec.trail = x.trail /\ rec.rounds = x.rounds /\ rec.sources = x.sources
  BY <1>2, <1>4 DEF Records
<1>7. rec.trail = <<>> /\ Len(rec.trail) = 0 /\ Len(rec.rounds) = 0 /\ rec.sources = {} /\ rec.iter = 0
  BY <1>3, <1>4, <1>6, EmptySeq DEF Placed
<1>8. Len(Usable(x.req)) # 0
  BY <1>3, <1>4, EmptySeq
<1>9. Placed(rec)
  BY <1>4, <1>6, <1>7, <1>8, GatewayAssumption DEF Placed
<1>10. Followed(rec)
  <2>1. LastOk(rec.trail, 1) = 0
    BY LastOkSteps
  <2> QED
    BY <1>6, <1>7, <2>1 DEF Followed
<1>11. Relayed(rec) /\ Settled(rec)
  BY <1>6, <1>7 DEF Relayed, Settled
<1>12. Sound(rec)
  BY <1>5, <1>6, <1>9, <1>10, <1>11 DEF Sound
<1> QED
  BY <1>3, <1>12, StepSound

LEMMA LeaveSound ==
    ASSUME HandlersInv, NEW r \in Handlers, Leave(r)
    PROVE  HandlersInv'
<1>1. PICK x : x = h[r]
  OBVIOUS
<1>2. PICK rec : rec = [x EXCEPT !.gone = TRUE]
  OBVIOUS
<1>3. x.pc \in {"call", "backoff"} /\ Step(r, rec)
  BY <1>1, <1>2 DEF Leave
<1>4. x \in Records /\ Placed(x) /\ Followed(x) /\ Relayed(x) /\ Settled(x)
  BY <1>1, <1>3, Working
<1>5. rec \in Records
  BY <1>2, <1>4 DEF Records
<1>6. /\ rec.pc = x.pc /\ rec.asked = x.asked /\ rec.req = x.req /\ rec.idx = x.idx /\ rec.resp = x.resp
      /\ rec.iter = x.iter /\ rec.trail = x.trail /\ rec.rounds = x.rounds /\ rec.sources = x.sources
  BY <1>2, <1>4 DEF Records
<1>7. Placed(rec)
  BY <1>4, <1>6 DEF Placed
<1>8. Followed(rec) /\ Relayed(rec) /\ Settled(rec)
  BY <1>4, <1>6 DEF Followed, Relayed, Settled
<1>9. Sound(rec)
  BY <1>3, <1>5, <1>6, <1>7, <1>8 DEF Sound
<1> QED
  BY <1>3, <1>9, StepSound

(* A call is added to the trail.                                           *)
CallOf(x, out) == [by |-> Usable(x.req)[x.idx], out |-> out]

Grown(x, out, t) ==
    /\ t \in Seq(Calls) /\ Len(t) = Len(x.trail) + 1 /\ Len(x.trail) \in Nat
    /\ \A i \in 1 .. Len(x.trail) : t[i] = x.trail[i]
    /\ t[Len(t)].out = out
    /\ \A i \in 1 .. Len(t) : t[i].by = Usable(x.req)[i - LastOk(t, i)]
    /\ out = "ok" => LastOk(t, Len(t) + 1) = Len(t)
    /\ out = "retry" => x.idx = Len(t) - LastOk(t, Len(t) + 1)

LEMMA TrailGrows ==
    ASSUME NEW x \in Records, Placed(x), Followed(x), x.pc = "call", Usable(x.req) \in Seq(Providers),
           NEW out \in {"ok", "retry"}
    PROVE  CallOf(x, out) \in Calls /\ Grown(x, out, Append(x.trail, CallOf(x, out)))
<1>1. PICK e : e = CallOf(x, out)
  OBVIOUS
<1>2. PICK t : t = Append(x.trail, e)
  OBVIOUS
<1>3. x.trail \in Seq(Calls) /\ Len(x.trail) \in Nat
  BY LenProperties DEF Records
<1>4. x.idx \in 1 .. Len(Usable(x.req))
  BY LenProperties DEF Placed
<1>5. Usable(x.req)[x.idx] \in Providers
  BY <1>4, ElementOfSeq
<1>6. e \in Calls
  BY <1>1, <1>5 DEF Calls, CallOf
<1>7. /\ t \in Seq(Calls) /\ Len(t) = Len(x.trail) + 1
      /\ \A i \in 1 .. Len(x.trail) : t[i] = x.trail[i]
      /\ t[Len(t)] = e
  BY <1>2, <1>3, <1>6, AppendProperties
<1>8. \A i \in 1 .. Len(x.trail) + 1 : LastOk(t, i) = LastOk(x.trail, i)
  BY <1>2, <1>3, <1>6, LastOkAppend
<1>9. x.idx = Len(t) - LastOk(t, Len(t))
  <2>1. PICK n \in Nat : n = Len(x.trail)
    BY <1>3
  <2>2. x.idx = n + 1 - LastOk(x.trail, n + 1)
    BY <2>1 DEF Followed
  <2>3. Len(t) = n + 1 /\ LastOk(t, n + 1) = LastOk(x.trail, n + 1)
    BY <1>7, <1>8, <2>1
  <2>4. LastOk(t, Len(t)) = LastOk(t, n + 1)
    BY <2>3, Zenon
  <2>5. PICK l \in Nat : l = LastOk(x.trail, n + 1)
    BY LastOkBefore
  <2> QED
    BY <2>2, <2>3, <2>4, <2>5
<1>10. ASSUME NEW i \in 1 .. Len(t)  PROVE t[i].by = Usable(x.req)[i - LastOk(t, i)]
  <2>1. CASE i = Len(t)
    BY <1>1, <1>7, <1>9, <2>1 DEF CallOf
  <2>2. CASE i # Len(t)
    <3>1. i \in 1 .. Len(x.trail)
      BY <1>3, <1>7, <2>2
    <3>2. x.trail[i].by = Usable(x.req)[i - LastOk(x.trail, i)]
      BY <3>1 DEF Followed
    <3>3. LastOk(t, i) = LastOk(x.trail, i)
      BY <1>3, <1>8, <3>1
    <3> QED
      BY <1>7, <3>1, <3>2, <3>3
  <2> QED
    BY <2>1, <2>2
<1>11. /\ t[Len(t)].out = "ok" => LastOk(t, Len(t) + 1) = Len(t)
       /\ t[Len(t)].out # "ok" => LastOk(t, Len(t) + 1) = LastOk(t, Len(t))
  <2>1. PICK n \in Nat \ {0} : n = Len(t)
    BY <1>3, <1>7
  <2> QED
    BY <2>1, LastOkSteps
<1>12. t[Len(t)].out = out
  BY <1>1, <1>7 DEF CallOf
<1>13. out = "retry" => x.idx = Len(t) - LastOk(t, Len(t) + 1)
  <2>1. ASSUME out = "retry"  PROVE LastOk(t, Len(t) + 1) = LastOk(t, Len(t))
    BY <1>11, <1>12, <2>1
  <2> QED
    BY <1>9, <2>1
<1>14. out = "ok" => LastOk(t, Len(t) + 1) = Len(t)
  BY <1>11, <1>12
<1>15. t \in Seq(Calls) /\ Len(t) = Len(x.trail) + 1 /\ \A i \in 1 .. Len(x.trail) : t[i] = x.trail[i]
  BY <1>7
<1>16. Grown(x, out, t)
  BY <1>3, <1>10, <1>12, <1>13, <1>14, <1>15 DEF Grown
<1> QED
  BY <1>1, <1>2, <1>6, <1>16

LEMMA FailureSound ==
    ASSUME HandlersInv, NEW r \in Handlers, h[r].pc = "call",
           Step(r, [h[r] EXCEPT !.pc = "backoff", !.trail = Called(r, "retry")])
    PROVE  HandlersInv'
<1>1. PICK x : x = h[r]
  OBVIOUS
<1>2. PICK out \in {"ok", "retry"} : out = "retry"
  OBVIOUS
<1>3. PICK t : t = Append(x.trail, CallOf(x, out))
  OBVIOUS
<1>4. PICK rec : rec = [x EXCEPT !.pc = "backoff", !.trail = t]
  OBVIOUS
<1>5. x.pc = "call" /\ Step(r, rec)
  BY <1>1, <1>2, <1>3, <1>4 DEF Called, Target, CallOf
<1>6. /\ x \in Records /\ Placed(x) /\ Followed(x) /\ Relayed(x) /\ Settled(x)
      /\ Usable(x.req) \in Seq(Providers)
  BY <1>1, <1>5, Working
<1>7. /\ t \in Seq(Calls) /\ Len(t) = Len(x.trail) + 1 /\ Len(x.trail) \in Nat
      /\ \A i \in 1 .. Len(x.trail) : t[i] = x.trail[i]
      /\ t[Len(t)].out = "retry"
      /\ \A i \in 1 .. Len(t) : t[i].by = Usable(x.req)[i - LastOk(t, i)]
      /\ x.idx = Len(t) - LastOk(t, Len(t) + 1)
  <2>1. Grown(x, out, t)
    BY <1>3, <1>5, <1>6, TrailGrows
  <2> QED
    BY <1>2, <2>1 DEF Grown
<1>8. rec \in Records
  BY <1>4, <1>6, <1>7 DEF Records, Pcs
<1>9. /\ rec.pc = "backoff" /\ rec.asked = x.asked /\ rec.req = x.req /\ rec.idx = x.idx
      /\ rec.iter = x.iter /\ rec.trail = t /\ rec.rounds = x.rounds /\ rec.sources = x.sources
  BY <1>4, <1>6 DEF Records
<1>10. Placed(rec)
  BY <1>5, <1>6, <1>9 DEF Placed
<1>11. Followed(rec)
  BY <1>7, <1>9 DEF Followed
<1>12. Relayed(rec)
  <2>1. t[Len(t)].out = "retry"
    BY <1>7
  <2>2. ASSUME NEW i \in x.sources  PROVE i \in 1 .. Len(t) + 1 /\ (i < Len(t) => t[i].out = "retry")
    <3>1. x.req.kind = "stream" /\ i \in 1 .. Len(x.trail) + 1
      <4>1. x.req.kind \in {"complete", "stream"}
        BY <1>1, <1>5, Working
      <4> QED
        BY <1>6, <2>2, <4>1 DEF Relayed
    <3>2. \A j \in 1 .. Len(x.trail) : x.trail[j].out = "retry"
      BY <1>5, <1>6, <3>1 DEF Relayed
    <3> QED
      BY <1>7, <3>1, <3>2
  <2>3. x.req.kind = "stream" => \A i \in 1 .. Len(t) : t[i].out = "retry"
    BY <1>5, <1>6, <1>7, <2>1 DEF Relayed
  <2> QED
    BY <1>6, <1>9, <2>2, <2>3 DEF Relayed
<1>13. Settled(rec)
  BY <1>5, <1>6, <1>9 DEF Settled
<1>14. Sound(rec)
  BY <1>8, <1>9, <1>10, <1>11, <1>12, <1>13 DEF Sound
<1> QED
  BY <1>5, <1>14, StepSound

(* The upstream has answered: the round is final, or asks for tools.       *)
LEMMA ReplySound ==
    ASSUME HandlersInv, NEW r \in Handlers, NEW n \in CallCounts, Reply(r, n)
    PROVE  HandlersInv'
<1>1. PICK x : x = h[r]
  OBVIOUS
<1>2. PICK out \in {"ok", "retry"} : out = "ok"
  OBVIOUS
<1>3. PICK t : t = Append(x.trail, CallOf(x, out))
  OBVIOUS
<1>4. PICK looping \in BOOLEAN : looping = (MCPEnabled /\ n > 0)
  OBVIOUS
<1>5. PICK pc : pc = IF looping THEN "tools" ELSE "done"
  OBVIOUS
<1>6. PICK iter : iter = IF MCPEnabled THEN x.iter + 1 ELSE 0
  OBVIOUS
<1>7. PICK rounds : rounds = IF looping THEN Append(x.rounds, [calls |-> n, results |-> 0]) ELSE x.rounds
  OBVIOUS
<1>8. PICK resp : resp = [asked |-> x.asked, by |-> Usable(x.req)[x.idx], tools |-> x.tools, born |-> 0]
  OBVIOUS
<1>9. PICK rec : rec = [x EXCEPT !.pc = pc, !.iter = iter, !.trail = t, !.rounds = rounds, !.resp = resp]
  OBVIOUS
<1>10. x.pc = "call" /\ x.req.kind = "complete" /\ Step(r, rec)
  BY <1>1, <1>2, <1>3, <1>4, <1>5, <1>6, <1>7, <1>8, <1>9 DEF Reply, Called, Target, CallOf
<1>11. /\ x \in Records /\ Placed(x) /\ Followed(x) /\ Relayed(x) /\ Settled(x)
       /\ Usable(x.req) \in Seq(Providers)
       /\ x.rounds \in Seq(Rounds) /\ Len(x.rounds) \in Nat
  BY <1>1, <1>10, Working
<1>12. /\ t \in Seq(Calls) /\ Len(t) = Len(x.trail) + 1 /\ Len(x.trail) \in Nat
       /\ \A i \in 1 .. Len(t) : t[i].by = Usable(x.req)[i - LastOk(t, i)]
       /\ LastOk(t, Len(t) + 1) = Len(t) /\ CallOf(x, out) \in Calls
  <2>1. Grown(x, out, t) /\ CallOf(x, out) \in Calls
    BY <1>3, <1>10, <1>11, TrailGrows
  <2> QED
    BY <1>2, <2>1 DEF Grown
<1>13. iter \in 0 .. MaxIter
  BY <1>6, <1>10, <1>11, GatewayAssumption DEF Placed
<1>14. resp \in Responses
  <2>1. Usable(x.req)[x.idx] \in Providers
    BY <1>12 DEF CallOf, Calls
  <2>2. x.tools \in Nat /\ x.asked \in Requests /\ 0 \in 0 .. MaxClock
    BY <1>11, GatewayAssumption DEF Records, Placed
  <2> QED
    BY <1>8, <2>1, <2>2 DEF Responses
<1>15. /\ rounds \in Seq(Rounds)
       /\ looping => /\ Len(rounds) = Len(x.rounds) + 1
                     /\ \A i \in 1 .. Len(x.rounds) : rounds[i] = x.rounds[i]
                     /\ rounds[Len(rounds)].results = 0 /\ rounds[Len(rounds)].calls = n /\ n > 0
  <2>1. CASE looping
    <3>1. n > 0 /\ n \in Nat
      BY <1>4, <2>1, GatewayAssumption
    <3>2. PICK e : e = [calls |-> n, results |-> 0]
      OBVIOUS
    <3>3. e \in Rounds /\ e.calls = n /\ e.results = 0
      BY <3>1, <3>2 DEF Rounds
    <3>4. rounds = Append(x.rounds, e)
      BY <1>7, <2>1, <3>2
    <3>5. /\ rounds \in Seq(Rounds) /\ Len(rounds) = Len(x.rounds) + 1
          /\ \A i \in 1 .. Len(x.rounds) : rounds[i] = x.rounds[i]
          /\ rounds[Len(rounds)] = e
      BY <1>11, <3>3, <3>4, AppendProperties
    <3> QED
      BY <3>1, <3>3, <3>5
  <2>2. CASE ~looping
    BY <1>7, <1>11, <2>2
  <2> QED
    BY <2>1, <2>2
<1>16. rec \in Records
  <2>1. pc \in Pcs /\ iter \in Nat /\ resp \in Responses \cup {None}
    BY <1>5, <1>13, <1>14 DEF Pcs
  <2> QED
    BY <1>9, <1>11, <1>12, <1>15, <2>1 DEF Records
<1>17. /\ rec.pc = pc /\ rec.asked = x.asked /\ rec.req = x.req /\ rec.idx = x.idx /\ rec.resp = resp
       /\ rec.iter = iter /\ rec.trail = t /\ rec.rounds = rounds /\ rec.sources = x.sources
  BY <1>9, <1>11 DEF Records
<1>18. Placed(rec)
  BY <1>5, <1>10, <1>11, <1>13, <1>14, <1>17 DEF Placed
<1>19. Followed(rec)
  BY <1>5, <1>12, <1>17 DEF Followed
<1>20. Relayed(rec)
  BY <1>5, <1>10, <1>11, <1>17 DEF Relayed
<1>21. Settled(rec)
  <2>1. \A i \in 1 .. Len(x.rounds) : x.rounds[i].results = x.rounds[i].calls
    BY <1>10, <1>11 DEF Settled
  <2>2. CASE looping
    <3>1. rec.pc = "tools" /\ rec.rounds = rounds
      BY <1>5, <1>17, <2>2
    <3>2. PICK k \in Nat : k = Len(rounds)
      BY <1>11, <1>15, <2>2
    <3>3. k # 0 /\ rounds[k].results < rounds[k].calls
      BY <1>11, <1>15, <2>2, <3>2
    <3>4. \A i \in 1 .. k : i = k \/ rounds[i].results = rounds[i].calls
      BY <1>11, <1>15, <2>1, <2>2, <3>2
    <3> QED
      BY <3>1, <3>2, <3>3, <3>4 DEF Settled
  <2>3. CASE ~looping
    BY <1>5, <1>7, <1>17, <2>1, <2>3 DEF Settled
  <2> QED
    BY <2>2, <2>3
<1>22. Sound(rec)
  BY <1>5, <1>16, <1>17, <1>18, <1>19, <1>20, <1>21 DEF Sound
<1> QED
  BY <1>10, <1>22, StepSound

(* One result: of the last round, whose others are there.                  *)
LEMMA ToolResultSound ==
    ASSUME HandlersInv, NEW r \in Handlers, ToolResult(r)
    PROVE  HandlersInv'
<1>1. PICK x : x = h[r]
  OBVIOUS
<1>2. PICK n : n = Len(x.rounds)
  OBVIOUS
<1>3. PICK pc \in {"tools", "call", "done"} :
          pc = IF OwesMore(r) THEN "tools" ELSE IF MoreRounds(r) THEN "call" ELSE "done"
  OBVIOUS
<1>4. PICK idx : idx = IF ~OwesMore(r) /\ MoreRounds(r) THEN 1 ELSE x.idx
  OBVIOUS
<1>5. PICK rounds : rounds = [x.rounds EXCEPT ![n].results = x.rounds[n].results + 1]
  OBVIOUS
<1>6. PICK tools : tools = x.tools + 1
  OBVIOUS
<1>7. PICK rec : rec = [x EXCEPT !.tools = tools, !.rounds = rounds, !.pc = pc, !.idx = idx]
  OBVIOUS
<1>8. x.pc = "tools" /\ Step(r, rec)
  BY <1>1, <1>2, <1>3, <1>4, <1>5, <1>6, <1>7 DEF ToolResult
<1>9. /\ x \in Records /\ Placed(x) /\ Followed(x) /\ Relayed(x) /\ Settled(x)
      /\ x.rounds \in Seq(Rounds) /\ n \in Nat
      /\ Usable(x.req) \in Seq(Providers) /\ Len(Usable(x.req)) \in Nat
      /\ x.trail \in Seq(Calls) /\ Len(x.trail) \in Nat
  BY <1>1, <1>2, <1>8, Working
<1>10. /\ n \in 1 .. n /\ x.rounds[n] \in Rounds /\ x.rounds[n].results < x.rounds[n].calls
       /\ \A i \in 1 .. n : i # n => x.rounds[i].results = x.rounds[i].calls
  BY <1>2, <1>8, <1>9, ElementOfSeq DEF Settled
<1>11. x.rounds[n].results \in Nat /\ x.rounds[n].calls \in Nat
  BY <1>10, GatewayAssumption DEF Rounds
<1>12. /\ rounds \in Seq(Rounds) /\ Len(rounds) = n
       /\ \A i \in 1 .. n : i # n => rounds[i] = x.rounds[i]
       /\ rounds[n].calls = x.rounds[n].calls /\ rounds[n].results = x.rounds[n].results + 1
  <2>1. PICK e : e = [x.rounds[n] EXCEPT !.results = x.rounds[n].results + 1]
    OBVIOUS
  <2>2. e \in Rounds /\ e.calls = x.rounds[n].calls /\ e.results = x.rounds[n].results + 1
    BY <1>10, <1>11, <2>1 DEF Rounds
  <2>3. rounds = [x.rounds EXCEPT ![n] = e]
    BY <1>5, <2>1
  <2>4. /\ rounds \in Seq(Rounds) /\ Len(rounds) = n
        /\ \A i \in 1 .. n : rounds[i] = IF i = n THEN e ELSE x.rounds[i]
    BY <1>2, <1>9, <1>10, <2>2, <2>3, ExceptSeq
  <2> QED
    BY <1>10, <2>2, <2>4
<1>13. OwesMore(r) <=> x.rounds[n].results + 1 < x.rounds[n].calls
  BY <1>1, <1>2 DEF OwesMore, Last
<1>14. MoreRounds(r) <=> x.iter < MaxIter
  BY <1>1 DEF MoreRounds
<1>15. rec \in Records
  <2>1. pc \in Pcs /\ idx \in Nat /\ tools \in Nat
    BY <1>3, <1>4, <1>6, <1>9 DEF Pcs, Records
  <2> QED
    BY <1>7, <1>9, <1>12, <2>1 DEF Records
<1>16. /\ rec.pc = pc /\ rec.asked = x.asked /\ rec.req = x.req /\ rec.idx = idx /\ rec.resp = x.resp
       /\ rec.iter = x.iter /\ rec.trail = x.trail /\ rec.rounds = rounds /\ rec.sources = x.sources
  BY <1>7, <1>9 DEF Records
<1>17. Placed(rec)
  BY <1>3, <1>4, <1>8, <1>9, <1>14, <1>16 DEF Placed
<1>18. Followed(rec)
  BY <1>3, <1>4, <1>8, <1>9, <1>16 DEF Followed
<1>19. Relayed(rec)
  BY <1>8, <1>9, <1>16 DEF Relayed, Placed
<1>20. Settled(rec)
  <2>1. CASE OwesMore(r)
    <3>1. rec.pc = "tools" /\ rounds[n].results < rounds[n].calls
      BY <1>3, <1>12, <1>13, <1>16, <2>1
    <3> QED
      BY <1>10, <1>12, <1>16, <3>1 DEF Settled
  <2>2. CASE ~OwesMore(r)
    <3>1. rec.pc # "tools"
      BY <1>3, <1>16, <2>2
    <3>2. rounds[n].results = rounds[n].calls
      BY <1>10, <1>11, <1>12, <1>13, <2>2
    <3> QED
      BY <1>10, <1>12, <1>16, <3>1, <3>2 DEF Settled
  <2> QED
    BY <2>1, <2>2
<1>21. Sound(rec)
  BY <1>3, <1>15, <1>16, <1>17, <1>18, <1>19, <1>20 DEF Sound
<1> QED
  BY <1>8, <1>21, StepSound

LEMMA WakeSound ==
    ASSUME HandlersInv, NEW r \in Handlers, Wake(r)
    PROVE  HandlersInv'
<1>1. PICK x : x = h[r]
  OBVIOUS
<1>2. PICK idx : idx = x.idx + 1
  OBVIOUS
<1>3. PICK rec : rec = [x EXCEPT !.pc = "call", !.idx = idx]
  OBVIOUS
<1>4. /\ x.pc = "backoff"
      /\ (idx <= Len(Usable(x.req)) /\ Step(r, rec)) \/ Step(r, Idle)
  BY <1>1, <1>2, <1>3 DEF Wake, NextTarget, FailWith
<1>5. /\ x \in Records /\ Placed(x) /\ Followed(x) /\ Relayed(x) /\ Settled(x)
      /\ Len(Usable(x.req)) \in Nat /\ Len(x.trail) \in Nat
  BY <1>1, <1>4, Working
<1>6. CASE idx <= Len(Usable(x.req)) /\ Step(r, rec)
  <2>1. x.idx \in Nat /\ idx \in Nat
    BY <1>2, <1>5 DEF Records
  <2>2. rec \in Records
    BY <1>3, <1>5, <2>1 DEF Records, Pcs
  <2>3. /\ rec.pc = "call" /\ rec.asked = x.asked /\ rec.req = x.req /\ rec.idx = idx
        /\ rec.iter = x.iter /\ rec.trail = x.trail /\ rec.rounds = x.rounds /\ rec.sources = x.sources
    BY <1>3, <1>5 DEF Records
  <2>4. Placed(rec)
    BY <1>2, <1>4, <1>5, <1>6, <2>1, <2>3 DEF Placed
  <2>5. Followed(rec)
    <3>1. LastOk(x.trail, Len(x.trail) + 1) \in Nat
      BY <1>5, LastOkBefore
    <3>2. x.idx = Len(x.trail) - LastOk(x.trail, Len(x.trail) + 1)
      BY <1>4, <1>5 DEF Followed
    <3>3. idx = Len(x.trail) + 1 - LastOk(x.trail, Len(x.trail) + 1)
      BY <1>2, <1>5, <3>1, <3>2
    <3> QED
      BY <1>5, <2>3, <3>3 DEF Followed
  <2>6. Relayed(rec) /\ Settled(rec)
    BY <1>4, <1>5, <2>3 DEF Relayed, Settled
  <2>7. Sound(rec)
    BY <2>2, <2>3, <2>4, <2>5, <2>6 DEF Sound
  <2> QED
    BY <1>6, <2>7, StepSound
<1> QED
  BY <1>4, <1>6, IdleSound, StepSound

(* A stream starts to relay what its target sends.                         *)
LEMMA StreamWriteSound ==
    ASSUME HandlersInv, NEW r \in Handlers, StreamWrite(r)
    PROVE  HandlersInv'
<1>1. PICK x : x = h[r]
  OBVIOUS
<1>2. PICK sources : sources = x.sources \cup {x.idx}
  OBVIOUS
<1>3. PICK rec : rec = [x EXCEPT !.sources = sources]
  OBVIOUS
<1>4. x.pc = "call" /\ x.req.kind = "stream" /\ Step(r, rec)
  BY <1>1, <1>2, <1>3 DEF StreamWrite
<1>5. /\ x \in Records /\ Placed(x) /\ Followed(x) /\ Relayed(x) /\ Settled(x) /\ Len(x.trail) \in Nat
  BY <1>1, <1>4, Working
<1>6. rec \in Records
  <2>1. sources \in SUBSET Nat
    BY <1>2, <1>5 DEF Records
  <2> QED
    BY <1>3, <1>5, <2>1 DEF Records
<1>7. /\ rec.pc = x.pc /\ rec.asked = x.asked /\ rec.req = x.req /\ rec.idx = x.idx /\ rec.resp = x.resp
      /\ rec.iter = x.iter /\ rec.trail = x.trail /\ rec.rounds = x.rounds /\ rec.sources = sources
  BY <1>3, <1>5 DEF Records
<1>8. Placed(rec) /\ Followed(rec) /\ Settled(rec)
  <2>1. Placed(rec)
    BY <1>4, <1>5, <1>7 DEF Placed
  <2>2. Followed(rec) /\ Settled(rec)
    BY <1>5, <1>7 DEF Followed, Settled
  <2> QED
    BY <2>1, <2>2
<1>9. Relayed(rec)
  <2>1. \A i \in 1 .. Len(x.trail) : x.trail[i].out = "retry"
    BY <1>4, <1>5 DEF Relayed
  <2>2. x.idx \in 1 .. Len(x.trail) + 1
    <3>1. PICK l \in Nat : l = LastOk(x.trail, Len(x.trail) + 1)
      BY <1>5, LastOkBefore
    <3>2. x.idx = Len(x.trail) + 1 - l /\ x.idx \in Nat /\ x.idx # 0
      BY <1>4, <1>5, <3>1 DEF Followed, Placed, Records
    <3> QED
      BY <1>5, <3>2
  <2>3. \A i \in sources : i \in 1 .. Len(x.trail) + 1 /\ (i < Len(x.trail) => x.trail[i].out = "retry")
    BY <1>2, <1>5, <2>1, <2>2 DEF Relayed
  <2> QED
    BY <1>4, <1>7, <2>1, <2>3 DEF Relayed
<1>10. Sound(rec)
  BY <1>4, <1>6, <1>7, <1>8, <1>9 DEF Sound
<1> QED
  BY <1>4, <1>10, StepSound

LEMMA StreamEndSound ==
    ASSUME HandlersInv, NEW r \in Handlers, StreamEnd(r)
    PROVE  HandlersInv'
<1>1. PICK x : x = h[r]
  OBVIOUS
<1>2. PICK out \in {"ok", "retry"} : out = "ok"
  OBVIOUS
<1>3. PICK t : t = Append(x.trail, CallOf(x, out))
  OBVIOUS
<1>4. PICK resp : resp = [asked |-> x.asked, by |-> Usable(x.req)[x.idx], tools |-> 0, born |-> 0]
  OBVIOUS
<1>5. PICK rec : rec = [x EXCEPT !.pc = "done", !.trail = t, !.resp = resp]
  OBVIOUS
<1>6. x.pc = "call" /\ x.req.kind = "stream" /\ Step(r, rec)
  BY <1>1, <1>2, <1>3, <1>4, <1>5 DEF StreamEnd, Called, Target, CallOf
<1>7. /\ x \in Records /\ Placed(x) /\ Followed(x) /\ Relayed(x) /\ Settled(x)
      /\ Usable(x.req) \in Seq(Providers)
  BY <1>1, <1>6, Working
<1>8. /\ t \in Seq(Calls) /\ Len(t) = Len(x.trail) + 1 /\ Len(x.trail) \in Nat
      /\ \A i \in 1 .. Len(x.trail) : t[i] = x.trail[i]
      /\ \A i \in 1 .. Len(t) : t[i].by = Usable(x.req)[i - LastOk(t, i)]
      /\ CallOf(x, out) \in Calls
  <2>1. Grown(x, out, t) /\ CallOf(x, out) \in Calls
    BY <1>3, <1>6, <1>7, TrailGrows
  <2> QED
    BY <2>1 DEF Grown
<1>9. resp \in Responses
  <2>1. Usable(x.req)[x.idx] \in Providers
    BY <1>8 DEF CallOf, Calls
  <2>2. x.asked \in Requests /\ 0 \in 0 .. MaxClock
    BY <1>7, GatewayAssumption DEF Placed
  <2> QED
    BY <1>4, <2>1, <2>2 DEF Responses
<1>10. rec \in Records
  BY <1>5, <1>7, <1>8, <1>9 DEF Records, Pcs
<1>11. /\ rec.pc = "done" /\ rec.asked = x.asked /\ rec.req = x.req /\ rec.idx = x.idx /\ rec.resp = resp
       /\ rec.iter = x.iter /\ rec.trail = t /\ rec.rounds = x.rounds /\ rec.sources = x.sources
  BY <1>5, <1>7 DEF Records
<1>12. Placed(rec)
  BY <1>6, <1>7, <1>9, <1>11 DEF Placed
<1>13. Followed(rec)
  BY <1>8, <1>11 DEF Followed
<1>14. Relayed(rec)
  <2>1. \A i \in 1 .. Len(x.trail) : x.trail[i].out = "retry"
    BY <1>6, <1>7 DEF Relayed
  <2>2. ASSUME NEW i \in x.sources  PROVE i \in 1 .. Len(t) + 1 /\ (i < Len(t) => t[i].out = "retry")
    <3>1. i \in 1 .. Len(x.trail) + 1
      BY <1>7, <2>2 DEF Relayed
    <3> QED
      BY <1>8, <2>1, <3>1
  <2> QED
    BY <1>6, <1>11, <2>2 DEF Relayed
<1>15. Settled(rec)
  BY <1>6, <1>7, <1>11 DEF Settled
<1>16. Sound(rec)
  BY <1>10, <1>11, <1>12, <1>13, <1>14, <1>15 DEF Sound
<1> QED
  BY <1>6, <1>16, StepSound

-----------------------------------------------------------------------------
(* The cache: as many keys in the list as in the table.                    *)
LEMMA ListedOnce ==
    ASSUME NEW K, NEW s \in Seq(K), IsInjective(s)
    PROVE  IsFiniteSet(ToSet(s)) /\ Cardinality(ToSet(s)) = Len(s)
<1>1. Len(s) \in Nat /\ DOMAIN s = 1 .. Len(s) /\ s \in [1 .. Len(s) -> ToSet(s)]
  BY LenProperties DEF ToSet
<1>2. s \in Bijection(1 .. Len(s), ToSet(s))
  BY <1>1 DEF Bijection, Injection, Surjection, IsInjective, ToSet
<1>3. ExistsBijection(1 .. Len(s), ToSet(s))
  BY <1>2 DEF ExistsBijection
<1>4. IsFiniteSet(1 .. Len(s))
  BY <1>1, FS_Interval
<1> QED
  BY <1>1, <1>3, <1>4, FS_Bijection, FS_CountingElements

Entries(f) == \A k \in DOMAIN f : f[k].resp \in Responses /\ f[k].expires = f[k].resp.born + TTL

CacheInv ==
    /\ clock \in 0 .. MaxClock
    /\ order \in Seq(DOMAIN items) /\ CacheConsistent
    /\ Entries(items)

(* A key is added unless it is there.                                      *)
LEMMA Listed ==
    ASSUME CacheInv, NEW k, NEW by, by = OrderedBy(k), NEW D, D = DOMAIN items \cup {k}
    PROVE  by \in Seq(D) /\ IsInjective(by) /\ ToSet(by) = D
<1>1. order \in Seq(DOMAIN items) /\ IsInjective(order) /\ ToSet(order) = DOMAIN items
  BY DEF CacheInv, CacheConsistent
<1>2. CASE k \in DOMAIN items
  <2>1. by = order /\ D = DOMAIN items
    BY <1>2 DEF OrderedBy
  <2> QED
    BY <1>1, <2>1
<1>3. CASE k \notin DOMAIN items
  <2>1. by = Append(order, k)
    BY <1>3 DEF OrderedBy
  <2>2. \A i \in 1 .. Len(order) : order[i] \in DOMAIN items
    BY <1>1, ElementOfSeq
  <2>3. Len(order) \in Nat /\ DOMAIN order = 1 .. Len(order) /\ order \in Seq(D) /\ k \in D
    BY <1>1, LenProperties, SeqMonotonic
  <2>4. /\ by \in Seq(D) /\ Len(by) = Len(order) + 1 /\ by[Len(order) + 1] = k
        /\ \A i \in 1 .. Len(order) : by[i] = order[i]
    BY <2>1, <2>3, AppendProperties
  <2>5. DOMAIN by = 1 .. Len(order) + 1 /\ 1 .. Len(order) + 1 = (1 .. Len(order)) \cup {Len(order) + 1}
    BY <2>3, <2>4, LenProperties
  <2>6. IsInjective(by)
    BY <1>1, <1>3, <2>2, <2>3, <2>4, <2>5 DEF IsInjective
  <2>7. ToSet(by) = D
    BY <1>1, <2>3, <2>4, <2>5 DEF ToSet
  <2> QED
    BY <2>4, <2>6, <2>7
<1> QED
  BY <1>2, <1>3

Lists(left, E, n) == left \in Seq(E) /\ IsInjective(left) /\ ToSet(left) = E /\ Len(left) = n

(* What is left of a list without repetitions when its first keys go.      *)
LEMMA Dropped ==
    ASSUME NEW D, NEW by \in Seq(D), IsInjective(by), ToSet(by) = D, NEW gone \in 0 .. Len(by),
           NEW left, left = SubSeq(by, gone + 1, Len(by))
    PROVE  Lists(left, D \ ToSet(SubSeq(by, 1, gone)), Len(by) - gone)
<1> DEFINE E == D \ ToSet(SubSeq(by, 1, gone))
<1>1. /\ Len(by) \in Nat /\ DOMAIN by = 1 .. Len(by) /\ gone \in Nat /\ gone <= Len(by)
      /\ \A i \in 1 .. Len(by) : by[i] \in D
  BY LenProperties, ElementOfSeq
<1>2. PICK n \in Nat : n = Len(by)
  BY <1>1
<1>3. /\ SubSeq(by, 1, gone) \in Seq(D) /\ Len(SubSeq(by, 1, gone)) = gone
      /\ \A i \in 1 .. gone : SubSeq(by, 1, gone)[i] = by[i]
  <2>1. /\ SubSeq(by, 1, gone) \in Seq(D)
        /\ Len(SubSeq(by, 1, gone)) = IF 1 <= gone THEN gone - 1 + 1 ELSE 0
        /\ \A i \in 1 .. gone - 1 + 1 : SubSeq(by, 1, gone)[i] = by[1 + i - 1]
    BY <1>1, SubSeqProperties
  <2> QED
    BY <1>1, <2>1
<1>4. ToSet(SubSeq(by, 1, gone)) = {by[i] : i \in 1 .. gone}
  <2>1. DOMAIN SubSeq(by, 1, gone) = 1 .. gone
    BY <1>3, LenProperties
  <2> QED
    BY <1>3, <2>1 DEF ToSet
<1>5. /\ Len(left) = n - gone /\ Len(left) \in Nat
      /\ \A i \in 1 .. n - gone : left[i] = by[gone + i] /\ gone + i \in 1 .. n
  <2>1. /\ Len(left) = IF gone + 1 <= n THEN n - (gone + 1) + 1 ELSE 0
        /\ \A i \in 1 .. n - (gone + 1) + 1 : left[i] = by[gone + 1 + i - 1]
    BY <1>1, <1>2, SubSeqProperties
  <2>2. n - (gone + 1) + 1 = n - gone /\ (gone + 1 <= n \/ n - gone = 0) /\ n - gone \in Nat
    <3>1. gone \in Nat /\ n \in Nat /\ gone <= n
      BY <1>1, <1>2
    <3> QED
      BY <3>1
  <2>3. Len(left) = n - gone /\ \A i \in 1 .. n - gone : left[i] = by[gone + 1 + i - 1]
    BY <2>1, <2>2
  <2>4. \A i \in 1 .. n - gone : gone + 1 + i - 1 = gone + i /\ gone + i \in 1 .. n
    BY <1>1, <1>2
  <2> QED
    BY <2>2, <2>3, <2>4
<1>6. ASSUME NEW i \in gone + 1 .. n  PROVE by[i] \in E
  <2>1. i \in 1 .. n /\ i \notin 1 .. gone /\ by[i] \in D
    BY <1>1, <1>2
  <2>2. ASSUME NEW j \in 1 .. gone  PROVE by[i] # by[j]
    <3>1. i \in DOMAIN by /\ j \in DOMAIN by /\ i # j
      BY <1>1, <1>2, <2>1
    <3> QED
      BY <3>1 DEF IsInjective
  <2> QED
    BY <1>4, <2>1, <2>2
<1>7. left \in Seq(E) /\ DOMAIN left = 1 .. n - gone /\ \A i \in 1 .. n - gone : left[i] \in E
  <2>1. left \in Seq(E)
    BY <1>1, <1>2, <1>6, SubSeqProperties
  <2>2. DOMAIN left = 1 .. n - gone
    BY <1>5, <2>1, LenProperties
  <2>3. ASSUME NEW i \in 1 .. n - gone  PROVE left[i] \in E
    <3>1. left[i] = by[gone + i] /\ gone + i \in 1 .. n
      BY <1>5
    <3>2. gone + i \in gone + 1 .. n
      BY <1>1, <3>1
    <3> QED
      BY <1>6, <3>1, <3>2
  <2> QED
    BY <2>1, <2>2, <2>3
<1>8. IsInjective(left)
  <2>1. ASSUME NEW a \in 1 .. n - gone, NEW b \in 1 .. n - gone, left[a] = left[b]
        PROVE  a = b
    <3>1. /\ left[a] = by[gone + a] /\ gone + a \in 1 .. n
          /\ left[b] = by[gone + b] /\ gone + b \in 1 .. n
      BY <1>5
    <3>2. gone + a \in DOMAIN by /\ gone + b \in DOMAIN by
      BY <1>1, <1>2, <3>1
    <3>3. gone + a = gone + b
      BY <2>1, <3>1, <3>2 DEF IsInjective
    <3>4. a \in Int /\ b \in Int
      OBVIOUS
    <3> QED
      BY <1>1, <3>3, <3>4
  <2> QED
    BY <1>7, <2>1 DEF IsInjective
<1>9. ToSet(left) = E
  <2>1. ASSUME NEW k \in E  PROVE k \in ToSet(left)
    <3>1. PICK i \in 1 .. n : by[i] = k
      BY <1>1, <1>2 DEF ToSet
    <3>2. i \notin 1 .. gone
      BY <1>4, <3>1
    <3>3. i - gone \in 1 .. n - gone /\ gone + (i - gone) = i
      BY <1>1, <1>2, <3>1, <3>2
    <3> QED
      BY <1>5, <1>7, <3>1, <3>3 DEF ToSet
  <2>2. ToSet(left) \subseteq E
    BY <1>7 DEF ToSet
  <2> QED
    BY <2>1, <2>2
<1>10. Lists(left, E, Len(by) - gone)
  BY <1>2, <1>5, <1>7, <1>8, <1>9 DEF Lists
<1> QED
  BY <1>10

LEMMA PutEntryInv ==
    ASSUME CacheInv, NEW k, NEW resp \in Responses, resp.born = clock, PutEntry(k, resp), clock' = clock
    PROVE  CacheInv'
<1>1. PICK by : by = OrderedBy(k)
  OBVIOUS
<1>2. PICK D : D = DOMAIN items \cup {k}
  OBVIOUS
<1>3. PICK all : all = [j \in D |-> IF j = k THEN [resp |-> resp, expires |-> clock + TTL] ELSE items[j]]
  OBVIOUS
<1>4. by \in Seq(D) /\ IsInjective(by) /\ ToSet(by) = D
  BY <1>1, <1>2, Listed
<1>5. Len(by) \in Nat /\ Cardinality(D) = Len(by) /\ DOMAIN all = D
  BY <1>3, <1>4, ListedOnce, LenProperties
<1>6. PICK gone : gone = IF Len(by) - MaxEntries > 0 THEN Len(by) - MaxEntries ELSE 0
  OBVIOUS
<1>7. gone \in 0 .. Len(by) /\ Len(by) - gone <= MaxEntries
  BY <1>5, <1>6, GatewayAssumption
<1>8. PICK E : E = D \ ToSet(SubSeq(by, 1, gone))
  OBVIOUS
<1>9. PICK left : left = SubSeq(by, gone + 1, Len(by))
  OBVIOUS
<1>10. items' = [j \in E |-> all[j]] /\ order' = left
  BY <1>1, <1>2, <1>3, <1>5, <1>6, <1>8, <1>9 DEF PutEntry
<1>11. left \in Seq(E) /\ IsInjective(left) /\ ToSet(left) = E /\ Len(left) = Len(by) - gone
  <2>1. Lists(left, D \ ToSet(SubSeq(by, 1, gone)), Len(by) - gone)
    BY <1>4, <1>7, <1>9, Dropped
  <2>2. Lists(left, E, Len(by) - gone)
    BY <1>8, <2>1
  <2> QED
    BY <2>2 DEF Lists
<1>12. Entries(all)
  <2>1. ASSUME NEW j \in D  PROVE all[j].resp \in Responses /\ all[j].expires = all[j].resp.born + TTL
    <3>1. CASE j = k
      BY <1>3, <3>1
    <3>2. CASE j # k
      BY <1>2, <1>3, <3>2 DEF CacheInv, Entries
    <3> QED
      BY <3>1, <3>2
  <2> QED
    BY <1>5, <2>1 DEF Entries
<1>13. DOMAIN items' = E /\ E \subseteq D /\ \A j \in E : items'[j] = all[j]
  BY <1>8, <1>10
<1>14. Entries(items')
  BY <1>5, <1>12, <1>13 DEF Entries
<1>15. CacheConsistent'
  BY <1>7, <1>10, <1>11, <1>13 DEF CacheConsistent
<1>16. clock' \in 0 .. MaxClock /\ order' \in Seq(DOMAIN items')
  BY <1>10, <1>11, <1>13 DEF CacheInv
<1> QED
  BY <1>14, <1>15, <1>16 DEF CacheInv

LEMMA PutInv ==
    ASSUME HandlersInv, CacheInv, NEW r \in Handlers, Put(r)
    PROVE  HandlersInv' /\ CacheInv'
<1>1. PICK x : x = h[r]
  OBVIOUS
<1>2. PICK resp : resp = [x.resp EXCEPT !.born = clock]
  OBVIOUS
<1>3. PICK rec : rec = [x EXCEPT !.pc = "answer"]
  OBVIOUS
<1>4. /\ x.pc = "put" /\ Step(r, rec) /\ clock' = clock
      /\ PutEntry(KeyOf(x.req), resp) \/ UNCHANGED cacheVars
  BY <1>1, <1>2, <1>3 DEF Put
<1>5. x \in Records /\ Placed(x)
  BY <1>1, <1>4, Working
<1>6. resp \in Responses /\ resp.born = clock
  <2>1. x.resp \in Responses /\ clock \in 0 .. MaxClock
    BY <1>4, <1>5 DEF Placed, CacheInv
  <2> QED
    BY <1>2, <2>1 DEF Responses
<1>7. CacheInv'
  <2>1. CASE PutEntry(KeyOf(x.req), resp)
    BY <1>4, <1>6, <2>1, PutEntryInv
  <2>2. CASE UNCHANGED cacheVars
    BY <1>4, <2>2 DEF cacheVars, CacheInv, CacheConsistent, Entries
  <2> QED
    BY <1>4, <2>1, <2>2
<1>8. rec \in Records
  BY <1>3, <1>5 DEF Records, Pcs
<1>9. /\ rec.pc = "answer" /\ rec.asked = x.asked /\ rec.req = x.req /\ rec.idx = x.idx /\ rec.iter = x.iter
      /\ rec.trail = x.trail /\ rec.rounds = x.rounds /\ rec.sources = x.sources /\ rec.resp = x.resp
  BY <1>3, <1>5 DEF Records
<1>10. rec.resp \in Responses
  BY <1>4, <1>5, <1>9 DEF Placed
<1> QED
  BY <1>1, <1>4, <1>7, <1>8, <1>9, <1>10, RestSound

LEMMA HitSound ==
    ASSUME HandlersInv, CacheInv, NEW r \in Handlers, NEW k \in DOMAIN items,
           NEW how \in {"exact", "close"}, Hit(r, k, how)
    PROVE  HandlersInv'
<1>1. PICK x : x = h[r]
  OBVIOUS
<1>2. PICK resp : resp = items[k].resp
  OBVIOUS
<1>3. PICK rec : rec = [x EXCEPT !.pc = "answer", !.resp = resp, !.hit = how, !.at = clock]
  OBVIOUS
<1>4. x.pc = "lookup" /\ Step(r, rec)
  BY <1>1, <1>2, <1>3 DEF Hit
<1>5. x \in Records
  BY <1>1, <1>4, Working
<1>6. resp \in Responses /\ clock \in Nat
  BY <1>2, GatewayAssumption DEF CacheInv, Entries
<1>7. rec \in Records
  BY <1>3, <1>5, <1>6 DEF Records, Pcs
<1>8. /\ rec.pc = "answer" /\ rec.asked = x.asked /\ rec.req = x.req /\ rec.idx = x.idx /\ rec.iter = x.iter
      /\ rec.trail = x.trail /\ rec.rounds = x.rounds /\ rec.sources = x.sources /\ rec.resp = resp
  BY <1>3, <1>5 DEF Records
<1> QED
  BY <1>1, <1>4, <1>6, <1>7, <1>8, RestSound

LEMMA ObserveSound ==
    ASSUME HandlersInv, NEW r \in Handlers, Observe(r)
    PROVE  HandlersInv'
<1>1. PICK x : x = h[r]
  OBVIOUS
<1>2. PICK rec : rec = [x EXCEPT !.pc = "put"]
  OBVIOUS
<1>3. x.pc = "done" /\ (Step(r, Idle) \/ Step(r, rec))
  BY <1>1, <1>2 DEF Observe
<1>4. x \in Records /\ Placed(x)
  BY <1>1, <1>3, Working
<1>5. rec \in Records
  BY <1>2, <1>4 DEF Records, Pcs
<1>6. /\ rec.pc = "put" /\ rec.asked = x.asked /\ rec.req = x.req /\ rec.idx = x.idx /\ rec.iter = x.iter
      /\ rec.trail = x.trail /\ rec.rounds = x.rounds /\ rec.sources = x.sources /\ rec.resp = x.resp
  BY <1>2, <1>4 DEF Records
<1>7. rec.resp \in Responses
  BY <1>3, <1>4, <1>6 DEF Placed
<1> QED
  BY <1>1, <1>3, <1>5, <1>6, <1>7, IdleSound, StepSound, RestSound

LEMMA FailsSound ==
    ASSUME HandlersInv, NEW r \in Handlers, NEW kind \in {"retry", "terminal"}, UpstreamFails(r, kind)
    PROVE  HandlersInv'
<1>1. CASE FallsBack(kind)
  <2>1. kind = "retry"
    BY <1>1 DEF FallsBack
  <2> QED
    BY <1>1, <2>1, FailureSound DEF UpstreamFails
<1>2. CASE ~FallsBack(kind)
  BY <1>2, IdleSound, StepSound DEF UpstreamFails, FailWith
<1> QED
  BY <1>1, <1>2

LEMMA EndSound ==
    ASSUME HandlersInv, NEW r \in Handlers, ResolveFails(r) \/ Cancelled(r) \/ Answer(r)
    PROVE  HandlersInv'
BY IdleSound, StepSound DEF ResolveFails, Cancelled, FailWith, Answer

-----------------------------------------------------------------------------
PipelineInv == HandlersInv /\ CacheInv

LEMMA PipelineInit == Init => PipelineInv
<1> SUFFICES ASSUME Init
             PROVE  PipelineInv
  OBVIOUS
<1>1. HandlersInv
  BY IdleSound DEF Init, HandlersInv, Sound
<1>2. CacheInv
  <2>1. \A f : f = <<>> => DOMAIN f = {} /\ f \in Seq({}) /\ Len(f) = 0
    BY EmptySeq
  <2>2. DOMAIN items = {} /\ DOMAIN order = {} /\ order \in Seq(DOMAIN items) /\ Len(order) = 0
    BY <2>1 DEF Init
  <2>3. CacheConsistent
    BY <2>2, GatewayAssumption DEF CacheConsistent, IsInjective, ToSet
  <2> QED
    BY <2>2, <2>3, GatewayAssumption DEF Init, CacheInv, Entries
<1> QED
  BY <1>1, <1>2 DEF PipelineInv

LEMMA PipelineInductive == PipelineInv /\ [Next]_vars => PipelineInv'
<1> SUFFICES ASSUME HandlersInv, CacheInv, [Next]_vars
             PROVE  HandlersInv' /\ CacheInv'
  BY DEF PipelineInv
<1>1. UNCHANGED <<clock, cacheVars>> => CacheInv'
  BY DEF cacheVars, CacheInv, CacheConsistent, Entries
<1>2. ASSUME NEW r \in Handlers, NEW q \in Requests, NEW s \in Summaries \cup {NoSummary}, Begin(r, q, s)
      PROVE  HandlersInv' /\ CacheInv'
  BY <1>1, <1>2, BeginSound DEF Begin
<1>3. ASSUME NEW r \in Handlers, Deny(r)  PROVE HandlersInv' /\ CacheInv'
  BY <1>1, <1>3 DEF Deny, HandlersInv
<1>4. ASSUME NEW r \in Handlers, Leave(r) \/ Miss(r) \/ Observe(r) \/ Resolve(r) \/ Wake(r)
      PROVE  HandlersInv' /\ CacheInv'
  <2>1. UNCHANGED <<clock, cacheVars>>
    BY <1>4 DEF Leave, Miss, Observe, Resolve, Wake, FailWith
  <2> QED
    BY <1>1, <1>4, <2>1, LeaveSound, MissSound, ObserveSound, ResolveSound, WakeSound
<1>5. ASSUME NEW r \in Handlers, ResolveFails(r) \/ Cancelled(r) \/ Answer(r)
      PROVE  HandlersInv' /\ CacheInv'
  BY <1>1, <1>5, EndSound DEF ResolveFails, Cancelled, FailWith, Answer
<1>6. ASSUME NEW r \in Handlers, Put(r)  PROVE HandlersInv' /\ CacheInv'
  BY <1>6, PutInv
<1>7. ASSUME NEW r \in Handlers, NEW k \in DOMAIN items, NEW how \in {"exact", "close"}, Hit(r, k, how)
      PROVE  HandlersInv' /\ CacheInv'
  BY <1>1, <1>7, HitSound DEF Hit
<1>8. ASSUME NEW r \in Handlers, NEW n \in CallCounts, Reply(r, n)  PROVE HandlersInv' /\ CacheInv'
  BY <1>1, <1>8, ReplySound DEF Reply
<1>9. ASSUME NEW r \in Handlers, NEW kind \in {"retry", "terminal"}, UpstreamFails(r, kind)
      PROVE  HandlersInv' /\ CacheInv'
  BY <1>1, <1>9, FailsSound DEF UpstreamFails, FailWith
<1>10. ASSUME NEW r \in Handlers, ToolResult(r) \/ StreamWrite(r) \/ StreamEnd(r)
       PROVE  HandlersInv' /\ CacheInv'
  BY <1>1, <1>10, ToolResultSound, StreamWriteSound, StreamEndSound DEF ToolResult, StreamWrite, StreamEnd
<1>11. CASE Tick
  BY <1>11, GatewayAssumption DEF Tick, HandlersInv, CacheInv, cacheVars, CacheConsistent, Entries
<1>12. CASE UNCHANGED vars
  BY <1>1, <1>12 DEF vars, HandlersInv
<1> QED
  BY <1>2, <1>3, <1>4, <1>5, <1>6, <1>7, <1>8, <1>9, <1>10, <1>11, <1>12 DEF Next

LEMMA PipelineHolds == Spec => []PipelineInv
BY PipelineInit, PipelineInductive, PTL DEF Spec

-----------------------------------------------------------------------------
MeterTypes ==
    /\ requests \in Nat /\ hits \in Nat /\ errors \in Nat /\ denied \in Nat
    /\ observed \in [Providers -> Nat]

LEMMA MeterTypesHold == Spec => []MeterTypes
<1>1. Init => MeterTypes
  BY DEF Init, MeterTypes
<1>2. MeterTypes /\ [Next]_vars => MeterTypes'
  <2> SUFFICES ASSUME MeterTypes, [Next]_vars
               PROVE  MeterTypes'
    OBVIOUS
  <2>1. UNCHANGED meterVars => MeterTypes'
    BY DEF meterVars, MeterTypes
  <2>2. ASSUME NEW r \in Handlers, FailWith(r)  PROVE MeterTypes'
    BY <2>2 DEF FailWith, MeterTypes
  <2>3. ASSUME NEW r \in Handlers, NEW q \in Requests, NEW s \in Summaries \cup {NoSummary}, Begin(r, q, s)
        PROVE  MeterTypes'
    BY <2>3 DEF Begin, MeterTypes
  <2>4. ASSUME NEW r \in Handlers, Deny(r)  PROVE MeterTypes'
    BY <2>4 DEF Deny, MeterTypes
  <2>5. ASSUME NEW r \in Handlers, Leave(r) \/ Miss(r) \/ Put(r) \/ Answer(r)  PROVE MeterTypes'
    BY <2>1, <2>5 DEF Leave, Miss, Put, Answer
  <2>6. ASSUME NEW r \in Handlers, Observe(r)  PROVE MeterTypes'
    <3>1. ASSUME NEW p  PROVE [observed EXCEPT ![p] = @ + 1] \in [Providers -> Nat]
      <4>1. CASE p \in Providers
        BY <4>1 DEF MeterTypes
      <4>2. CASE p \notin Providers
        BY <4>2 DEF MeterTypes
      <4> QED
        BY <4>1, <4>2
    <3> QED
      BY <2>6, <3>1 DEF Observe, MeterTypes
  <2>7. ASSUME NEW r \in Handlers, NEW k \in DOMAIN items, NEW how \in {"exact", "close"}, Hit(r, k, how)
        PROVE  MeterTypes'
    BY <2>7 DEF Hit, MeterTypes
  <2>8. ASSUME NEW r \in Handlers, Resolve(r) \/ ResolveFails(r) \/ Wake(r) \/ Cancelled(r)
        PROVE  MeterTypes'
    BY <2>1, <2>2, <2>8 DEF Resolve, ResolveFails, Wake, Cancelled
  <2>9. ASSUME NEW r \in Handlers, NEW n \in CallCounts, Reply(r, n)  PROVE MeterTypes'
    BY <2>1, <2>9 DEF Reply
  <2>10. ASSUME NEW r \in Handlers, NEW kind \in {"retry", "terminal"}, UpstreamFails(r, kind)
         PROVE  MeterTypes'
    BY <2>1, <2>2, <2>10 DEF UpstreamFails
  <2>11. ASSUME NEW r \in Handlers, ToolResult(r) \/ StreamWrite(r) \/ StreamEnd(r)  PROVE MeterTypes'
    BY <2>1, <2>11 DEF ToolResult, StreamWrite, StreamEnd
  <2>12. CASE Tick
    BY <2>1, <2>12 DEF Tick
  <2>13. CASE UNCHANGED vars
    BY <2>1, <2>13 DEF vars
  <2> QED
    BY <2>3, <2>4, <2>5, <2>6, <2>7, <2>8, <2>9, <2>10, <2>11, <2>12, <2>13 DEF Next
<1> QED
  BY <1>1, <1>2, PTL DEF Spec

(* The types, for any number of handlers, requests and providers.          *)
THEOREM TypeCorrect == Spec => []TypeOK
<1>1. PipelineInv /\ MeterTypes => TypeOK
  <2> SUFFICES ASSUME HandlersInv, CacheInv, MeterTypes
               PROVE  TypeOK
    BY DEF PipelineInv
  <2>1. ASSUME NEW r \in Handlers
        PROVE  /\ h[r].pc \in Pcs
               /\ IF h[r].pc = "idle" THEN h[r] = Idle
                  ELSE /\ h[r].asked \in Requests /\ h[r].req \in Sent
                       /\ h[r].idx \in 0 .. Len(Usable(h[r].req))
               /\ h[r].resp \in Responses \cup {None}
               /\ h[r].iter \in 0 .. MaxIter
               /\ h[r].rounds \in Seq([calls : CallCounts \ {0}, results : Nat])
    <3>1. PICK x : x = h[r]
      OBVIOUS
    <3>2. /\ x \in Records
          /\ IF x.pc = "idle" THEN x = Idle ELSE Placed(x)
      BY <3>1 DEF HandlersInv, Sound
    <3>3. x.pc \in Pcs /\ x.resp \in Responses \cup {None} /\ x.rounds \in Seq(Rounds)
      BY <3>2 DEF Records
    <3>4. x.iter \in 0 .. MaxIter
      <4>1. CASE x.pc = "idle"
        <5>1. Idle.iter = 0
          BY DEF Idle
        <5> QED
          BY <3>2, <4>1, <5>1, GatewayAssumption
      <4>2. CASE x.pc # "idle"
        BY <3>2, <4>2 DEF Placed
      <4> QED
        BY <4>1, <4>2
    <3>5. x.pc # "idle" => x.asked \in Requests /\ x.req \in Sent /\ x.idx \in 0 .. Len(Usable(x.req))
      BY <3>2 DEF Placed
    <3> QED
      BY <3>1, <3>2, <3>3, <3>4, <3>5 DEF Rounds
  <2>2. DOMAIN h = Handlers
    BY DEF HandlersInv
  <2> QED
    BY <2>1, <2>2 DEF TypeOK, CacheInv, Entries, MeterTypes
<1> QED
  BY <1>1, PipelineHolds, MeterTypesHold, PTL

(* Whatever requests store and refresh the same keys at the same time, the *)
(* cache's list of keys and its table agree, and neither exceeds           *)
(* max_entries.                                                            *)
THEOREM CacheConsistentHolds == Spec => []CacheConsistent
<1>1. PipelineInv => CacheConsistent
  BY DEF PipelineInv, CacheInv
<1> QED
  BY <1>1, PipelineHolds, PTL

(* Upstream calls follow the fallback chain of the request's model, round  *)
(* by round, whatever chains are configured.                               *)
THEOREM FallbackInOrderHolds == Spec => []FallbackInOrder
<1>1. PipelineInv => FallbackInOrder
  <2> SUFFICES ASSUME HandlersInv
               PROVE  FallbackInOrder
    BY DEF PipelineInv
  <2>1. ASSUME NEW r \in Active
        PROVE  LET t == h[r].trail
                   u == Usable(h[r].req)
               IN  \A i \in 1 .. Len(t) :
                       /\ t[i].by = u[i - LastOk(t, i)]
                       /\ t[i].out = "terminal" => i = Len(t) /\ h[r].pc # "call"
    <3>1. PICK x : x = h[r]
      OBVIOUS
    <3>2. x \in Records /\ Followed(x)
      BY <2>1, <3>1 DEF HandlersInv, Sound, Active
    <3>3. \A i \in 1 .. Len(x.trail) : x.trail[i].out # "terminal"
      <4>1. x.trail \in Seq(Calls)
        BY <3>2 DEF Records
      <4>2. \A i \in 1 .. Len(x.trail) : x.trail[i] \in Calls
        BY <4>1, ElementOfSeq
      <4> QED
        BY <4>2 DEF Calls
    <3>4. \A i \in 1 .. Len(x.trail) : x.trail[i].by = Usable(x.req)[i - LastOk(x.trail, i)]
      BY <3>2 DEF Followed
    <3> QED
      BY <3>1, <3>3, <3>4
  <2> QED
    BY <2>1 DEF FallbackInOrder, LastOk
<1> QED
  BY <1>1, PipelineHolds, PTL

(* The first events a stream's client received came from targets that were *)
(* called, and all but the last of these had failed.  They may be several: *)
(* the "fallback only applies before the first write" of Router.Stream     *)
(* (router.go:181-183) would be at most one.                               *)
RelaysFollowChain ==
    \A r \in Active : \A i \in h[r].sources :
        /\ i <= Len(h[r].trail) + 1
        /\ i < Len(h[r].trail) => h[r].trail[i].out = "retry"

THEOREM RelaysFollowChainHolds == Spec => []RelaysFollowChain
<1>1. PipelineInv => RelaysFollowChain
  <2> SUFFICES ASSUME HandlersInv, NEW r \in Active
               PROVE  Relayed(h[r])
    BY DEF PipelineInv, RelaysFollowChain, Relayed
  <2> QED
    BY DEF HandlersInv, Sound, Active
<1> QED
  BY <1>1, PipelineHolds, PTL

(* The model is never called again while a tool call of an earlier answer  *)
(* has no result message, for any number of calls and rounds.              *)
THEOREM ToolCallsAnsweredHolds == Spec => []ToolCallsAnswered
<1>1. PipelineInv => ToolCallsAnswered
  <2> SUFFICES ASSUME HandlersInv, NEW r \in Handlers, h[r].pc # "tools", NEW i \in 1 .. Len(h[r].rounds)
               PROVE  h[r].rounds[i].results = h[r].rounds[i].calls
    BY DEF PipelineInv, ToolCallsAnswered
  <2>1. CASE h[r].pc = "idle"
    <3>1. h[r].rounds = <<>>
      BY <2>1 DEF HandlersInv, Sound, Idle
    <3>2. Len(h[r].rounds) = 0
      BY <3>1, EmptySeq
    <3> QED
      BY <3>2
  <2>2. CASE h[r].pc # "idle"
    BY <2>2 DEF HandlersInv, Sound, Settled
  <2> QED
    BY <2>1, <2>2
<1> QED
  BY <1>1, PipelineHolds, PTL

-----------------------------------------------------------------------------
(* The sum over the providers, as the library computes it: one provider    *)
(* after the other.                                                        *)
First(s) == CHOOSE x \in s : TRUE
Weighed(f, g, s) == IF s = {} THEN 0 ELSE f[First(s)] + g[s \ {First(s)}]
IsSum(f, g) == g = [s \in SUBSET Providers |-> Weighed(f, g, s)]
Total(f) == MapThenSumSet(LAMBDA p : f[p], Providers)

LEMMA TotalIs ==
    ASSUME NEW f
    PROVE  Total(f) = (CHOOSE g : IsSum(f, g))[Providers]
BY DEF Total, MapThenSumSet, MapThenFoldSet, IsSum, Weighed, First

LEMMA Parts ==
    ASSUME NEW s \in SUBSET Providers
    PROVE  /\ Cardinality(s) \in Nat /\ Cardinality(s) <= Cardinality(Providers)
           /\ Cardinality(s) = 0 => s = {}
           /\ s # {} => /\ First(s) \in s /\ s \ {First(s)} \in SUBSET Providers
                        /\ Cardinality(s \ {First(s)}) = Cardinality(s) - 1
<1>1. IsFiniteSet(s) /\ Cardinality(s) <= Cardinality(Providers)
  BY GatewayAssumption, FS_Subset
<1>2. Cardinality(s) \in Nat /\ (Cardinality(s) = 0 => s = {})
  BY <1>1, FS_CardinalityType, FS_EmptySet
<1>3. s # {} => First(s) \in s
  BY DEF First
<1>4. First(s) \in s => Cardinality(s \ {First(s)}) = Cardinality(s) - 1
  BY <1>1, FS_RemoveElement
<1> QED
  BY <1>1, <1>2, <1>3, <1>4

LEMMA SumExists ==
    ASSUME NEW f \in [Providers -> Nat]
    PROVE  \E g : IsSum(f, g)
<1> DEFINE Small(n) == {s \in SUBSET Providers : Cardinality(s) <= n}
           Is(g, n) == \A s \in Small(n) : g[s] = Weighed(f, g, s)
           Bad == {n \in Nat : ~\E g \in [Small(n) -> Nat] : Is(g, n)}
<1>1. Bad = {}
  <2>1. SUFFICES ASSUME Bad # {}
                 PROVE  FALSE
    OBVIOUS
  <2>2. PICK n \in Bad : \A m \in Bad : n <= m
    <3>1. Bad \in SUBSET Nat
      OBVIOUS
    <3> HIDE DEF Bad
    <3> QED
      BY <2>1, <3>1, Least
  <2>3. n \in Nat /\ ~\E g \in [Small(n) -> Nat] : Is(g, n)
    OBVIOUS
  <2>4. CASE n = 0
    <3>1. PICK g : g = [s \in Small(0) |-> 0]
      OBVIOUS
    <3>2. ASSUME NEW s \in Small(0)  PROVE s = {}
      <4>1. Cardinality(s) \in Nat /\ Cardinality(s) <= 0 /\ (Cardinality(s) = 0 => s = {})
        BY Parts
      <4> QED
        BY <4>1
    <3>3. g \in [Small(0) -> Nat] /\ Is(g, 0)
      BY <3>1, <3>2 DEF Weighed
    <3> QED
      BY <2>3, <2>4, <3>3
  <2>5. CASE n # 0
    <3>1. n - 1 \in Nat /\ n - 1 \notin Bad
      <4>1. n - 1 \in Nat /\ ~(n <= n - 1)
        BY <2>3, <2>5
      <4> QED
        BY <2>2, <4>1
    <3>2. PICK e \in [Small(n - 1) -> Nat] : Is(e, n - 1)
      BY <3>1
    <3>3. PICK g : g = [s \in Small(n) |-> Weighed(f, e, s)]
      OBVIOUS
    <3>4. \A s \in Small(n) : s # {} => First(s) \in Providers /\ s \ {First(s)} \in Small(n - 1)
      BY <2>3, Parts
    <3>5. ASSUME NEW s \in Small(n - 1)  PROVE s \in Small(n) /\ g[s] = e[s]
      <4>1. s \in SUBSET Providers /\ Cardinality(s) \in Nat /\ Cardinality(s) <= n - 1
        BY Parts
      <4>2. s \in Small(n)
        BY <2>3, <4>1
      <4> QED
        BY <3>2, <3>3, <4>2
    <3>6. \A s \in Small(n) : Weighed(f, g, s) = Weighed(f, e, s) /\ Weighed(f, e, s) \in Nat
      BY <3>2, <3>4, <3>5 DEF Weighed
    <3>7. g \in [Small(n) -> Nat] /\ Is(g, n)
      BY <3>3, <3>6
    <3> QED
      BY <2>3, <3>7
  <2> QED
    BY <2>4, <2>5
<1>2. Cardinality(Providers) \in Nat /\ Small(Cardinality(Providers)) = SUBSET Providers
  BY Parts
<1>3. PICK g \in [SUBSET Providers -> Nat] : \A s \in SUBSET Providers : g[s] = Weighed(f, g, s)
  BY <1>1, <1>2
<1>4. IsSum(f, g)
  BY <1>3 DEF IsSum
<1> QED
  BY <1>4

(* What is true of each provider taken alone is true of the sums: they are *)
(* numbers, 0 when nothing was counted, and one more when one provider was *)
(* counted once more.                                                      *)
Counted(f, g, p, d, s) ==
    /\ g[s] \in Nat
    /\ (\A x \in Providers : f[x] = 0) => g[s] = 0
    /\ d[s] = g[s] + IF p \in s THEN 1 ELSE 0

LEMMA SumsAre ==
    ASSUME NEW f \in [Providers -> Nat], NEW g, IsSum(f, g),
           NEW p \in Providers, NEW u, u = [f EXCEPT ![p] = @ + 1], NEW d, IsSum(u, d),
           NEW all \in SUBSET Providers
    PROVE  Counted(f, g, p, d, all)
<1> DEFINE Bad == {n \in Nat : \E s \in SUBSET Providers :
                                   Cardinality(s) = n /\ ~Counted(f, g, p, d, s)}
<1>1. \A x \in Providers : f[x] \in Nat /\ u[x] = f[x] + IF x = p THEN 1 ELSE 0
  OBVIOUS
<1>2. ASSUME NEW t \in SUBSET Providers  PROVE g[t] = Weighed(f, g, t) /\ d[t] = Weighed(u, d, t)
  BY DEF IsSum
<1>3. Bad = {}
  <2>1. SUFFICES ASSUME Bad # {}
                 PROVE  FALSE
    OBVIOUS
  <2>2. PICK n \in Bad : \A m \in Bad : n <= m
    <3>1. Bad \in SUBSET Nat
      OBVIOUS
    <3> HIDE DEF Bad
    <3> QED
      BY <2>1, <3>1, Least
  <2>3. PICK s \in SUBSET Providers : Cardinality(s) = n /\ ~Counted(f, g, p, d, s)
    OBVIOUS
  <2>4. CASE s = {}
    <3>1. g[s] = 0 /\ d[s] = 0 /\ p \notin s
      BY <1>2, <2>4 DEF Weighed
    <3> QED
      BY <2>3, <3>1 DEF Counted
  <2>5. CASE s # {}
    <3>1. PICK x : x = First(s)
      OBVIOUS
    <3>2. PICK t : t = s \ {x}
      OBVIOUS
    <3>3. /\ x \in s /\ t \in SUBSET Providers /\ n \in Nat
          /\ Cardinality(t) \in Nat /\ Cardinality(t) = n - 1
      BY <2>3, <2>5, <3>1, <3>2, Parts
    <3>4. Counted(f, g, p, d, t)
      <4>1. ~(n <= Cardinality(t))
        BY <3>3
      <4>2. Cardinality(t) \notin Bad
        BY <2>2, <4>1
      <4> QED
        BY <3>3, <4>2
    <3>5. g[s] = f[x] + g[t] /\ d[s] = u[x] + d[t]
      BY <1>2, <2>5, <3>1, <3>2 DEF Weighed
    <3>6. p \in s <=> p \in t \/ p = x
      BY <3>2, <3>3
    <3>7. p = x => p \notin t
      BY <3>2
    <3>8. Counted(f, g, p, d, s)
      BY <1>1, <3>3, <3>4, <3>5, <3>6, <3>7 DEF Counted
    <3> QED
      BY <2>3, <3>8
  <2> QED
    BY <2>4, <2>5
<1>4. Cardinality(all) \in Nat
  BY Parts
<1> QED
  BY <1>3, <1>4

(* A provider counted once more adds one to the total; before anything is  *)
(* counted it is 0.                                                        *)
LEMMA TotalSteps ==
    ASSUME NEW f \in [Providers -> Nat], NEW p \in Providers
    PROVE  /\ Total(f) \in Nat
           /\ (\A x \in Providers : f[x] = 0) => Total(f) = 0
           /\ Total([f EXCEPT ![p] = @ + 1]) = Total(f) + 1
<1>1. PICK u : u = [f EXCEPT ![p] = @ + 1]
  OBVIOUS
<1>2. u \in [Providers -> Nat]
  BY <1>1
<1>3. PICK g : g = CHOOSE s : IsSum(f, s)
  OBVIOUS
<1>4. PICK d : d = CHOOSE s : IsSum(u, s)
  OBVIOUS
<1>5. IsSum(f, g)
  BY <1>3, SumExists
<1>6. IsSum(u, d)
  BY <1>2, <1>4, SumExists
<1>7. Total(f) = g[Providers] /\ Total(u) = d[Providers]
  BY <1>3, <1>4, TotalIs
<1>8. /\ g[Providers] \in Nat
      /\ (\A x \in Providers : f[x] = 0) => g[Providers] = 0
      /\ d[Providers] = g[Providers] + 1
  <2>1. PICK s \in SUBSET Providers : s = Providers
    OBVIOUS
  <2>2. Counted(f, g, p, d, s)
    BY <1>1, <1>5, <1>6, SumsAre
  <2> QED
    BY <2>1, <2>2 DEF Counted
<1> QED
  BY <1>1, <1>7, <1>8

LEMMA TotalTypes ==
    ASSUME NEW f \in [Providers -> Nat]
    PROVE  Total(f) \in Nat /\ ((\A x \in Providers : f[x] = 0) => Total(f) = 0)
<1>1. CASE Providers = {}
  <2>1. PICK g : g = CHOOSE s : IsSum(f, s)
    OBVIOUS
  <2>2. g[{}] = 0
    BY <2>1, SumExists DEF IsSum, Weighed
  <2> QED
    BY <1>1, <2>1, <2>2, TotalIs
<1>2. CASE Providers # {}
  BY <1>2, TotalSteps
<1> QED
  BY <1>1, <1>2

(* Handlers whose request is not accounted for yet.                        *)
Open(x) == x.pc \notin {"idle", "put", "answer"}

LEMMA OpenHandlers ==
    ASSUME HandlersInv, NEW r \in Handlers, NEW rec, Step(r, rec)
    PROVE  /\ Cardinality(Uncounted) \in Nat
           /\ (Open(h[r]) <=> Open(rec)) => Cardinality(Uncounted)' = Cardinality(Uncounted)
           /\ Open(h[r]) /\ ~Open(rec) => Cardinality(Uncounted)' = Cardinality(Uncounted) - 1
           /\ ~Open(h[r]) /\ Open(rec) => Cardinality(Uncounted)' = Cardinality(Uncounted) + 1
<1>1. PICK u : u = Uncounted
  OBVIOUS
<1>2. PICK v : v = Uncounted'
  OBVIOUS
<1>3. u = {q \in Handlers : Open(h[q])} /\ v = {q \in Handlers : Open(h'[q])}
  BY <1>1, <1>2 DEF Uncounted, Active, Open
<1>4. \A q \in Handlers : h'[q] = IF q = r THEN rec ELSE h[q]
  BY DEF HandlersInv, Step
<1>5. IsFiniteSet(u) /\ Cardinality(u) \in Nat
  BY <1>3, GatewayAssumption, FS_Subset, FS_CardinalityType
<1>6. ASSUME Open(h[r]) <=> Open(rec)  PROVE v = u
  BY <1>3, <1>4, <1>6
<1>7. ASSUME Open(h[r]), ~Open(rec)  PROVE Cardinality(v) = Cardinality(u) - 1
  <2>1. v = u \ {r} /\ r \in u
    BY <1>3, <1>4, <1>7
  <2> QED
    BY <1>5, <2>1, FS_RemoveElement
<1>8. ASSUME ~Open(h[r]), Open(rec)  PROVE Cardinality(v) = Cardinality(u) + 1
  <2>1. v = u \cup {r} /\ r \notin u
    BY <1>3, <1>4, <1>8
  <2> QED
    BY <1>5, <2>1, FS_AddElement
<1> QED
  BY <1>1, <1>2, <1>5, <1>6, <1>7, <1>8

Balance == requests = hits + (errors - denied) + Total(observed) + Cardinality(Uncounted)

LEMMA SameBalance ==
    ASSUME HandlersInv, Balance, NEW r \in Handlers, NEW rec, Step(r, rec), Open(h[r]) <=> Open(rec),
           UNCHANGED meterVars
    PROVE  Balance'
<1>1. Cardinality(Uncounted)' = Cardinality(Uncounted)
  BY OpenHandlers
<1>2. /\ requests' = requests /\ hits' = hits /\ errors' = errors /\ denied' = denied
      /\ observed' = observed
  BY DEF meterVars
<1> QED
  BY <1>1, <1>2 DEF Balance

LEMMA FailBalance ==
    ASSUME HandlersInv, MeterTypes, Balance, NEW r \in Handlers, Open(h[r]), FailWith(r)
    PROVE  Balance'
<1>1. ~Open(Idle) /\ Step(r, Idle)
  BY DEF Open, Idle, FailWith
<1>2. /\ Cardinality(Uncounted) \in Nat
      /\ Cardinality(Uncounted)' = Cardinality(Uncounted) - 1
  BY <1>1, OpenHandlers
<1>3. Total(observed) \in Nat
  BY TotalTypes DEF MeterTypes
<1>4. /\ requests' = requests /\ hits' = hits /\ errors' = errors + 1 /\ denied' = denied
      /\ observed' = observed
  BY DEF FailWith
<1> QED
  BY <1>2, <1>3, <1>4 DEF Balance, MeterTypes

LEMMA ObserveBalance ==
    ASSUME HandlersInv, MeterTypes, Balance, NEW r \in Handlers, Observe(r)
    PROVE  Balance'
<1>1. PICK x : x = h[r]
  OBVIOUS
<1>2. PICK rec : rec = IF x.req.kind = "stream" THEN Idle ELSE [x EXCEPT !.pc = "put"]
  OBVIOUS
<1>3. x.pc = "done" /\ Step(r, rec) /\ observed' = [observed EXCEPT ![x.resp.by] = @ + 1]
  BY <1>1, <1>2 DEF Observe
<1>4. x \in Records /\ Placed(x)
  BY <1>1, <1>3, Working
<1>5. x.resp.by \in Providers
  BY <1>3, <1>4 DEF Placed, Responses
<1>6. Open(x) /\ ~Open(rec)
  <2>1. rec.pc \in {"idle", "put"}
    BY <1>2, <1>4 DEF Records, Idle
  <2> QED
    BY <1>3, <2>1 DEF Open
<1>7. /\ Cardinality(Uncounted) \in Nat
      /\ Cardinality(Uncounted)' = Cardinality(Uncounted) - 1
  BY <1>1, <1>3, <1>6, OpenHandlers
<1>8. Total(observed) \in Nat /\ Total(observed') = Total(observed) + 1
  BY <1>3, <1>5, TotalSteps DEF MeterTypes
<1>9. requests' = requests /\ hits' = hits /\ errors' = errors /\ denied' = denied
  BY DEF Observe
<1> QED
  BY <1>7, <1>8, <1>9 DEF Balance, MeterTypes

LEMMA HitBalance ==
    ASSUME HandlersInv, MeterTypes, Balance, NEW r \in Handlers, NEW k,
           NEW how \in {"exact", "close"}, Hit(r, k, how)
    PROVE  Balance'
<1>1. PICK x : x = h[r]
  OBVIOUS
<1>2. PICK rec : rec = [x EXCEPT !.pc = "answer", !.resp = items[k].resp, !.hit = how, !.at = clock]
  OBVIOUS
<1>3. x.pc = "lookup" /\ Step(r, rec)
  BY <1>1, <1>2 DEF Hit
<1>4. rec.pc = "answer"
  BY <1>1, <1>2, <1>3, Working DEF Records
<1>5. /\ Cardinality(Uncounted) \in Nat
      /\ Cardinality(Uncounted)' = Cardinality(Uncounted) - 1
  BY <1>1, <1>3, <1>4, OpenHandlers DEF Open
<1>6. Total(observed) \in Nat
  BY TotalTypes DEF MeterTypes
<1>7. /\ requests' = requests /\ hits' = hits + 1 /\ errors' = errors /\ denied' = denied
      /\ observed' = observed
  BY DEF Hit
<1> QED
  BY <1>5, <1>6, <1>7 DEF Balance, MeterTypes

LEMMA BeginBalance ==
    ASSUME HandlersInv, MeterTypes, Balance, NEW r \in Handlers, NEW q, NEW s, Begin(r, q, s)
    PROVE  Balance'
<1>1. PICK rec : rec = [Idle EXCEPT !.pc = IF q.kind = "complete" THEN "lookup" ELSE "resolve",
                                    !.asked = q, !.req = [q EXCEPT !.msgs = Apply(@, s)]]
  OBVIOUS
<1>2. h[r].pc = "idle" /\ Step(r, rec)
  BY <1>1 DEF Begin
<1>3. rec.pc \in {"lookup", "resolve"}
  BY <1>1 DEF Idle
<1>4. ~Open(h[r]) /\ Open(rec)
  BY <1>2, <1>3 DEF Open
<1>5. /\ Cardinality(Uncounted) \in Nat
      /\ Cardinality(Uncounted)' = Cardinality(Uncounted) + 1
  BY <1>2, <1>4, OpenHandlers
<1>6. Total(observed) \in Nat
  BY TotalTypes DEF MeterTypes
<1>7. /\ requests' = requests + 1 /\ hits' = hits /\ errors' = errors /\ denied' = denied
      /\ observed' = observed
  BY DEF Begin
<1> QED
  BY <1>5, <1>6, <1>7 DEF Balance, MeterTypes

(* A step that accounts for nothing: the handler's request is counted      *)
(* neither before nor after it, or both.                                   *)
Moves(r) == \E rec : Step(r, rec) /\ (Open(h[r]) <=> Open(rec))

LEMMA MovesOn ==
    ASSUME HandlersInv, NEW r \in Handlers, NEW n,
           \/ Leave(r) \/ Miss(r) \/ Put(r) \/ Answer(r) \/ Resolve(r)
           \/ Reply(r, n) \/ ToolResult(r) \/ StreamWrite(r) \/ StreamEnd(r)
    PROVE  Moves(r)
<1>1. PICK x : x = h[r]
  OBVIOUS
<1>2. ASSUME NEW pc, NEW rec, x.pc # "idle", rec = [x EXCEPT !.pc = pc]  PROVE rec.pc = pc
  BY <1>1, <1>2, Working DEF Records
<1>3. CASE Answer(r)
  BY <1>1, <1>3 DEF Answer, Moves, Open, Idle
<1>4. CASE Miss(r)
  <2>1. PICK rec : rec = [x EXCEPT !.pc = "resolve"]
    OBVIOUS
  <2>2. x.pc = "lookup" /\ Step(r, rec) /\ rec.pc = "resolve"
    BY <1>1, <1>2, <1>4, <2>1 DEF Miss
  <2> QED
    BY <1>1, <2>2 DEF Moves, Open
<1>5. CASE Put(r)
  <2>1. PICK rec : rec = [x EXCEPT !.pc = "answer"]
    OBVIOUS
  <2>2. x.pc = "put" /\ Step(r, rec) /\ rec.pc = "answer"
    BY <1>1, <1>2, <1>5, <2>1 DEF Put
  <2> QED
    BY <1>1, <2>2 DEF Moves, Open
<1>6. CASE Leave(r)
  <2>1. PICK rec : rec = [x EXCEPT !.gone = TRUE]
    OBVIOUS
  <2>2. x.pc \in {"call", "backoff"} /\ Step(r, rec)
    BY <1>1, <1>6, <2>1 DEF Leave
  <2>3. rec.pc = x.pc
    BY <1>1, <2>1, <2>2, Working DEF Records
  <2> QED
    BY <1>1, <2>2, <2>3 DEF Moves, Open
<1>7. CASE Resolve(r)
  <2>1. PICK rec : rec = [x EXCEPT !.pc = "call", !.idx = 1]
    OBVIOUS
  <2>2. x.pc = "resolve" /\ Step(r, rec)
    BY <1>1, <1>7, <2>1 DEF Resolve
  <2>3. rec.pc = "call"
    BY <1>1, <2>1, <2>2, Working DEF Records
  <2> QED
    BY <1>1, <2>2, <2>3 DEF Moves, Open
<1>8. CASE StreamWrite(r)
  <2>1. PICK rec : rec = [x EXCEPT !.sources = @ \cup {x.idx}]
    OBVIOUS
  <2>2. x.pc = "call" /\ Step(r, rec)
    BY <1>1, <1>8, <2>1 DEF StreamWrite
  <2>3. rec.pc = "call"
    BY <1>1, <2>1, <2>2, Working DEF Records
  <2> QED
    BY <1>1, <2>2, <2>3 DEF Moves, Open
<1>9. CASE StreamEnd(r)
  <2>1. PICK rec : rec = [x EXCEPT !.pc = "done", !.trail = Called(r, "ok"),
                                   !.resp = [asked |-> x.asked, by |-> Target(r), tools |-> 0, born |-> 0]]
    OBVIOUS
  <2>2. x.pc = "call" /\ Step(r, rec)
    BY <1>1, <1>9, <2>1 DEF StreamEnd
  <2>3. rec.pc = "done"
    BY <1>1, <2>1, <2>2, Working DEF Records
  <2> QED
    BY <1>1, <2>2, <2>3 DEF Moves, Open
<1>10. CASE ToolResult(r)
  <2>1. PICK pc : pc = IF OwesMore(r) THEN "tools" ELSE IF MoreRounds(r) THEN "call" ELSE "done"
    OBVIOUS
  <2>2. PICK rec : rec = [x EXCEPT !.tools = @ + 1, !.rounds[Len(x.rounds)].results = @ + 1, !.pc = pc,
                                   !.idx = IF ~OwesMore(r) /\ MoreRounds(r) THEN 1 ELSE @]
    OBVIOUS
  <2>3. x.pc = "tools" /\ Step(r, rec)
    BY <1>1, <1>10, <2>1, <2>2 DEF ToolResult
  <2>4. rec.pc = pc
    BY <1>1, <2>2, <2>3, Working DEF Records
  <2> QED
    BY <1>1, <2>1, <2>3, <2>4 DEF Moves, Open
<1>11. CASE Reply(r, n)
  <2>1. PICK looping : looping = (MCPEnabled /\ n > 0)
    OBVIOUS
  <2>2. PICK rec : rec = [x EXCEPT !.pc = IF looping THEN "tools" ELSE "done",
                                   !.iter = IF MCPEnabled THEN @ + 1 ELSE 0,
                                   !.trail = Called(r, "ok"),
                                   !.rounds = IF looping THEN Append(@, [calls |-> n, results |-> 0]) ELSE @,
                                   !.resp = [asked |-> x.asked, by |-> Target(r),
                                             tools |-> x.tools, born |-> 0]]
    OBVIOUS
  <2>3. x.pc = "call" /\ Step(r, rec)
    BY <1>1, <1>11, <2>1, <2>2 DEF Reply
  <2>4. rec.pc \in {"tools", "done"}
    BY <1>1, <2>2, <2>3, Working DEF Records
  <2> QED
    BY <1>1, <2>3, <2>4 DEF Moves, Open
<1> QED
  BY <1>3, <1>4, <1>5, <1>6, <1>7, <1>8, <1>9, <1>10, <1>11

LEMMA BackoffBalance ==
    ASSUME HandlersInv, MeterTypes, Balance, NEW r \in Handlers,
           \/ Wake(r) \/ Cancelled(r) \/ ResolveFails(r)
           \/ \E kind \in {"retry", "terminal"} : UpstreamFails(r, kind)
    PROVE  Balance'
<1>1. PICK x : x = h[r]
  OBVIOUS
<1>2. CASE FailWith(r)
  <2>1. Open(h[r])
    BY DEF Wake, Cancelled, ResolveFails, UpstreamFails, Open
  <2> QED
    BY <1>2, <2>1, FailBalance
<1>3. ASSUME NEW rec, Step(r, rec), UNCHANGED meterVars,
             \/ rec = [x EXCEPT !.pc = "call", !.idx = NextTarget(r)] /\ x.pc = "backoff"
             \/ \E kind : rec = [x EXCEPT !.pc = "backoff", !.trail = Called(r, kind)] /\ x.pc = "call"
      PROVE  Balance'
  <2>1. rec.pc \in {"call", "backoff"} /\ x.pc \in {"call", "backoff"}
    <3>1. x \in Records /\ x.pc \in {"call", "backoff"}
      BY <1>1, <1>3, Working
    <3>2. ASSUME NEW idx, rec = [x EXCEPT !.pc = "call", !.idx = idx]  PROVE rec.pc = "call"
      BY <3>1, <3>2 DEF Records
    <3>3. ASSUME NEW t, rec = [x EXCEPT !.pc = "backoff", !.trail = t]  PROVE rec.pc = "backoff"
      BY <3>1, <3>3 DEF Records
    <3> QED
      BY <1>3, <3>1, <3>2, <3>3
  <2> QED
    BY <1>1, <1>3, <2>1, SameBalance DEF Open
<1> QED
  BY <1>1, <1>2, <1>3 DEF Wake, Cancelled, ResolveFails, UpstreamFails

(* Every request the gateway counted is accounted for once: as a hit, as   *)
(* an error, under the provider that served it, or by a handler still      *)
(* working on it, for any number of handlers and providers.                *)
THEOREM MetricsBalanceHolds == Spec => []MetricsBalance
<1>1. Init => Balance
  <2> SUFFICES ASSUME Init
               PROVE  Balance
    OBVIOUS
  <2>1. Uncounted = {}
    BY DEF Init, Uncounted, Active, Idle
  <2>2. Cardinality(Uncounted) = 0
    BY <2>1, FS_EmptySet
  <2>3. Total(observed) = 0
    <3>1. observed \in [Providers -> Nat] /\ \A p \in Providers : observed[p] = 0
      BY DEF Init
    <3> QED
      BY <3>1, TotalTypes
  <2> QED
    BY <2>2, <2>3 DEF Init, Balance
<1>2. HandlersInv /\ MeterTypes /\ Balance /\ [Next]_vars => Balance'
  <2> SUFFICES ASSUME HandlersInv, MeterTypes, Balance, [Next]_vars
               PROVE  Balance'
    OBVIOUS
  <2>1. ASSUME NEW r \in Handlers, Moves(r), UNCHANGED meterVars  PROVE Balance'
    BY <2>1, SameBalance DEF Moves
  <2>2. UNCHANGED <<h, meterVars>> => Balance'
    BY DEF meterVars, Balance, Uncounted, Active
  <2>3. ASSUME NEW r \in Handlers, NEW q \in Requests, NEW s \in Summaries \cup {NoSummary}, Begin(r, q, s)
        PROVE  Balance'
    BY <2>3, BeginBalance
  <2>4. ASSUME NEW r \in Handlers, Deny(r)  PROVE Balance'
    <3>1. Uncounted' = Uncounted
      BY <2>4 DEF Deny, Uncounted, Active
    <3>2. PICK u : u = Cardinality(Uncounted) /\ u = Cardinality(Uncounted')
      BY <3>1
    <3>3. PICK t : t = Total(observed) /\ t = Total(observed')
      BY <2>4 DEF Deny
    <3>4. requests' = requests /\ hits' = hits /\ errors' - denied' = errors - denied
      BY <2>4 DEF Deny, MeterTypes
    <3> QED
      BY <3>2, <3>3, <3>4 DEF Balance
  <2>5. ASSUME NEW r \in Handlers, Leave(r) \/ Miss(r) \/ Put(r) \/ Answer(r) \/ Resolve(r)  PROVE Balance'
    <3>1. Moves(r)
      BY <2>5, MovesOn
    <3>2. UNCHANGED meterVars
      BY <2>5 DEF Leave, Miss, Put, Answer, Resolve
    <3> QED
      BY <2>1, <3>1, <3>2
  <2>6. ASSUME NEW r \in Handlers, Observe(r)  PROVE Balance'
    BY <2>6, ObserveBalance
  <2>7. ASSUME NEW r \in Handlers, NEW k \in DOMAIN items, NEW how \in {"exact", "close"}, Hit(r, k, how)
        PROVE  Balance'
    BY <2>7, HitBalance
  <2>8. ASSUME NEW r \in Handlers, ResolveFails(r) \/ Wake(r) \/ Cancelled(r)  PROVE Balance'
    BY <2>8, BackoffBalance
  <2>9. ASSUME NEW r \in Handlers, NEW n \in CallCounts, Reply(r, n)  PROVE Balance'
    <3>1. Moves(r)
      BY <2>9, MovesOn
    <3>2. UNCHANGED meterVars
      BY <2>9 DEF Reply
    <3> QED
      BY <2>1, <3>1, <3>2
  <2>10. ASSUME NEW r \in Handlers, NEW kind \in {"retry", "terminal"}, UpstreamFails(r, kind)
         PROVE  Balance'
    BY <2>10, BackoffBalance
  <2>11. ASSUME NEW r \in Handlers, ToolResult(r) \/ StreamWrite(r) \/ StreamEnd(r)  PROVE Balance'
    <3>1. Moves(r)
      BY <2>11, MovesOn
    <3>2. UNCHANGED meterVars
      BY <2>11 DEF ToolResult, StreamWrite, StreamEnd
    <3> QED
      BY <2>1, <3>1, <3>2
  <2>12. CASE Tick
    BY <2>2, <2>12 DEF Tick
  <2>13. CASE UNCHANGED vars
    BY <2>2, <2>13 DEF vars
  <2> QED
    BY <2>3, <2>4, <2>5, <2>6, <2>7, <2>8, <2>9, <2>10, <2>11, <2>12, <2>13 DEF Next
<1>3. Balance => MetricsBalance
  BY DEF Balance, MetricsBalance, Total
<1>4. PipelineInv => HandlersInv
  BY DEF PipelineInv
<1> QED
  BY <1>1, <1>2, <1>3, <1>4, PipelineHolds, MeterTypesHold, PTL DEF Spec

-----------------------------------------------------------------------------
(* What normalisation and compression make of a conversation.              *)
Prints == [role : {"system", "user", "assistant", "tool"}, text : Texts, n : Nat]

LEMMA HashedIs ==
    ASSUME NEW m \in Messages
    PROVE  /\ Hashed(m) \in Prints
           /\ Hashed(m).role = m.role /\ Hashed(m).n = m.n /\ Hashed(m).text = Normal[m.text]
BY GatewayAssumption DEF Hashed, Prints, Messages

LEMMA NormalizedIs ==
    ASSUME NEW s \in Seq(Messages)
    PROVE  /\ Normalized(s) \in Seq(Prints) /\ Len(Normalized(s)) = Len(s)
           /\ \A i \in 1 .. Len(s) : Normalized(s)[i] = Hashed(s[i])
<1>1. Len(s) \in Nat /\ DOMAIN s = 1 .. Len(s) /\ \A i \in 1 .. Len(s) : s[i] \in Messages
  BY LenProperties, ElementOfSeq
<1>2. Normalized(s) = [i \in 1 .. Len(s) |-> Hashed(s[i])]
  BY <1>1 DEF Normalized
<1>3. \A i \in 1 .. Len(s) : Hashed(s[i]) \in Prints
  BY <1>1, HashedIs
<1>4. Normalized(s) \in Seq(Prints)
  BY <1>1, <1>2, <1>3, IsASeq
<1>5. DOMAIN Normalized(s) = 1 .. Len(Normalized(s)) /\ Len(Normalized(s)) \in Nat
  BY <1>4, LenProperties
<1>6. Len(Normalized(s)) = Len(s)
  <2>1. DOMAIN Normalized(s) = 1 .. Len(s)
    BY <1>2
  <2>2. \A m, n \in Nat : 1 .. m = 1 .. n => m = n
    OBVIOUS
  <2> QED
    BY <1>1, <1>5, <2>1, <2>2
<1> QED
  BY <1>2, <1>4, <1>6

LEMMA NormalizedAppend ==
    ASSUME NEW s \in Seq(Messages), NEW m \in Messages
    PROVE  Normalized(Append(s, m)) = Append(Normalized(s), Hashed(m))
<1>1. PICK a : a = Append(s, m)
  OBVIOUS
<1>2. PICK z : z = Normalized(s)
  OBVIOUS
<1>3. PICK c : c = Append(z, Hashed(m))
  OBVIOUS
<1>4. /\ a \in Seq(Messages) /\ Len(a) = Len(s) + 1 /\ a[Len(s) + 1] = m /\ Len(s) \in Nat
      /\ \A i \in 1 .. Len(s) : a[i] = s[i]
  BY <1>1, AppendProperties, LenProperties
<1>5. z \in Seq(Prints) /\ Len(z) = Len(s) /\ \A i \in 1 .. Len(s) : z[i] = Hashed(s[i])
  BY <1>2, NormalizedIs
<1>6. /\ c \in Seq(Prints) /\ Len(c) = Len(s) + 1 /\ c[Len(s) + 1] = Hashed(m)
      /\ \A i \in 1 .. Len(s) : c[i] = z[i]
  BY <1>3, <1>5, HashedIs, AppendProperties
<1>7. /\ Normalized(a) \in Seq(Prints) /\ Len(Normalized(a)) = Len(s) + 1
      /\ \A i \in 1 .. Len(s) + 1 : Normalized(a)[i] = Hashed(a[i])
  BY <1>4, NormalizedIs
<1>8. \A i \in 1 .. Len(s) + 1 : Normalized(a)[i] = c[i]
  BY <1>4, <1>5, <1>6, <1>7
<1>9. Normalized(a) = c
  BY <1>6, <1>7, <1>8, SeqEqual
<1> QED
  BY <1>1, <1>2, <1>3, <1>9

Of(msgs, system) == {i \in 1 .. Len(msgs) : (msgs[i].role = "system") = system}

LEMMA SplitIs ==
    ASSUME NEW msgs \in Seq(Messages), NEW system
    PROVE  \E g : /\ Collects(msgs, Of(msgs, system), Len(msgs), g)
                  /\ Split(msgs, system) = g[Len(msgs)]
<1> DEFINE K == Of(msgs, system)
           Step_(g, i) == IF i = 0 THEN <<>>
                          ELSE IF (msgs[i].role = "system") = system THEN Append(g[i - 1], msgs[i])
                          ELSE g[i - 1]
           Is(g) == g = [i \in 0 .. Len(msgs) |-> Step_(g, i)]
           list == CHOOSE g : Is(g)
<1>1. Split(msgs, system) = list[Len(msgs)]
  BY DEF Split
<1>2. Len(msgs) \in Nat /\ \A i \in 1 .. Len(msgs) : msgs[i] \in Messages
  BY LenProperties, ElementOfSeq
<1>3. ASSUME NEW g  PROVE Is(g) <=> Collects(msgs, K, Len(msgs), g)
  <2>1. \A i \in 0 .. Len(msgs) : Step_(g, i) = Collect(msgs, K, g, i)
    BY <1>2 DEF Collect, Of
  <2> QED
    BY <2>1 DEF Collects
<1>4. \A j \in K : msgs[j] \in Messages
  BY <1>2 DEF Of
<1>5. \E g : Collects(msgs, K, Len(msgs), g)
  <2> HIDE DEF K
  <2> QED
    BY <1>2, <1>4, CollectsExists
<1>6. Collects(msgs, K, Len(msgs), list)
  <2>1. \E g : Is(g)
    BY <1>3, <1>5
  <2>2. Is(list)
    BY <2>1
  <2> QED
    BY <1>3, <2>2
<1> HIDE DEF list
<1> QED
  BY <1>1, <1>6

LEMMA SplitTypes ==
    ASSUME NEW msgs \in Seq(Messages), NEW system
    PROVE  Split(msgs, system) \in Seq(Messages)
<1>1. PICK n \in Nat : n = Len(msgs)
  BY LenProperties
<1>2. PICK K : K = Of(msgs, system)
  OBVIOUS
<1>3. PICK g : Collects(msgs, K, n, g) /\ Split(msgs, system) = g[n]
  BY <1>1, <1>2, SplitIs
<1>4. \A j \in K : msgs[j] \in Messages
  BY <1>2, ElementOfSeq DEF Of
<1>5. ASSUME NEW i \in 0 .. n  PROVE g[i] \in Seq(Messages)
  BY <1>3, <1>4, CollectsTypes
<1> QED
  BY <1>3, <1>5

(* What the split takes out of a conversation is the system's, or not.     *)
LEMMA SystemRoles ==
    ASSUME NEW msgs \in Seq(Messages), NEW j \in 1 .. Len(System(msgs))
    PROVE  System(msgs)[j].role = "system"
<1>1. PICK n \in Nat : n = Len(msgs)
  BY LenProperties
<1>2. PICK K : K = Of(msgs, TRUE)
  OBVIOUS
<1>3. PICK S : S = {m \in Messages : m.role = "system"}
  OBVIOUS
<1>4. PICK g : Collects(msgs, K, n, g) /\ System(msgs) = g[n]
  BY <1>1, <1>2, SplitIs DEF System
<1>5. \A i \in K : msgs[i] \in S
  BY <1>2, <1>3, ElementOfSeq DEF Of
<1>6. n \in 0 .. n
  OBVIOUS
<1>7. g[n] \in Seq(S)
  BY <1>4, <1>5, <1>6, CollectsTypes
<1>8. System(msgs)[j] \in S
  BY <1>4, <1>7, ElementOfSeq
<1> QED
  BY <1>3, <1>8

(* Conversations that normalize to the same split into lists that do.      *)
LEMMA SplitNormal ==
    ASSUME NEW a \in Seq(Messages), NEW b \in Seq(Messages), Normalized(a) = Normalized(b), NEW system
    PROVE  Normalized(Split(a, system)) = Normalized(Split(b, system))
<1>1. PICK n \in Nat : n = Len(a)
  BY LenProperties
<1>2. PICK z : z = Normalized(a)
  OBVIOUS
<1>3. Len(z) = n /\ \A i \in 1 .. n : z[i] = Hashed(a[i]) /\ a[i] \in Messages
  BY <1>1, <1>2, NormalizedIs, ElementOfSeq
<1>4. Len(b) = n /\ \A i \in 1 .. n : z[i] = Hashed(b[i]) /\ b[i] \in Messages
  <2>1. Len(z) = Len(b) /\ \A i \in 1 .. Len(b) : z[i] = Hashed(b[i]) /\ b[i] \in Messages
    BY <1>2, NormalizedIs, ElementOfSeq
  <2> QED
    BY <1>3, <2>1
<1>5. \A i \in 1 .. n : a[i].role = b[i].role
  <2>1. ASSUME NEW i \in 1 .. n  PROVE a[i].role = b[i].role
    <3>1. Hashed(a[i]).role = a[i].role /\ Hashed(b[i]).role = b[i].role
      BY <1>3, <1>4, HashedIs
    <3> QED
      BY <1>3, <1>4, <3>1
  <2> QED
    BY <2>1
<1>6. PICK K : K = Of(a, system)
  OBVIOUS
<1>7. Of(b, system) = K
  BY <1>1, <1>4, <1>5, <1>6 DEF Of
<1>8. PICK g : Collects(a, K, n, g) /\ Split(a, system) = g[n]
  BY <1>1, <1>6, SplitIs
<1>9. PICK d : Collects(b, K, n, d) /\ Split(b, system) = d[n]
  BY <1>4, <1>7, SplitIs
<1>10. \A j \in K : a[j] \in Messages /\ b[j] \in Messages /\ Hashed(a[j]) = Hashed(b[j])
  BY <1>1, <1>3, <1>4, <1>6 DEF Of
<1>11. ASSUME NEW i \in 0 .. n
       PROVE  /\ g[i] = Collect(a, K, g, i) /\ g[i] \in Seq(Messages)
              /\ d[i] = Collect(b, K, d, i) /\ d[i] \in Seq(Messages)
  <2>1. g[i] = Collect(a, K, g, i) /\ g[i] \in Seq(Messages)
    BY <1>8, <1>10, CollectsTypes
  <2>2. d[i] = Collect(b, K, d, i) /\ d[i] \in Seq(Messages)
    BY <1>9, <1>10, CollectsTypes
  <2> QED
    BY <2>1, <2>2
<1> DEFINE Bad == {i \in 0 .. n : Normalized(d[i]) # Normalized(g[i])}
<1>12. Bad = {}
  <2>1. SUFFICES ASSUME Bad # {}
                 PROVE  FALSE
    OBVIOUS
  <2>2. PICK i \in Bad : \A j \in Bad : i <= j
    <3>1. Bad \in SUBSET Nat
      OBVIOUS
    <3> HIDE DEF Bad
    <3> QED
      BY <2>1, <3>1, Least
  <2>3. i \in 0 .. n /\ Normalized(d[i]) # Normalized(g[i])
    BY <2>2
  <2>4. CASE i = 0
    <3>1. d[i] = <<>> /\ g[i] = <<>>
      BY <1>11, <2>3, <2>4 DEF Collect
    <3> QED
      BY <2>3, <3>1
  <2>5. CASE i # 0
    <3>1. PICK e : e = i - 1 /\ e \in 0 .. n
      BY <2>3, <2>5
    <3>2. Normalized(d[e]) = Normalized(g[e])
      BY <2>2, <2>3, <3>1
    <3>3. g[e] \in Seq(Messages) /\ d[e] \in Seq(Messages)
      BY <1>11, <3>1
    <3>4. CASE i \in K
      <4>1. g[i] = Append(g[e], a[i]) /\ d[i] = Append(d[e], b[i])
        BY <1>11, <2>3, <2>5, <3>1, <3>4 DEF Collect
      <4>2. Normalized(Append(g[e], a[i])) = Append(Normalized(g[e]), Hashed(a[i]))
        BY <1>10, <3>3, <3>4, NormalizedAppend
      <4>3. Normalized(Append(d[e], b[i])) = Append(Normalized(d[e]), Hashed(b[i]))
        BY <1>10, <3>3, <3>4, NormalizedAppend
      <4> QED
        BY <1>10, <2>3, <3>2, <3>4, <4>1, <4>2, <4>3
    <3>5. CASE i \notin K
      BY <1>11, <2>3, <2>5, <3>1, <3>2, <3>5 DEF Collect
    <3> QED
      BY <3>4, <3>5
  <2> QED
    BY <2>4, <2>5
<1>13. n \in 0 .. n
  OBVIOUS
<1> QED
  BY <1>8, <1>9, <1>12, <1>13

(* What compression can make of a conversation: itself, or with its white  *)
(* space collapsed, or its system messages, a note for the older others,   *)
(* and the last of them.                                                   *)
IsNote(m) == m \in Messages /\ m.role = "system" /\ (m.n # 0 \/ m.text \in Summaries)

LEMMA CutIs ==
    ASSUME NEW msgs \in Seq(Messages), NEW o, o = Others(msgs)
    PROVE  /\ o \in Seq(Messages) /\ Len(o) \in Nat /\ Cut(msgs) \in 0 .. Len(o)
           /\ Cut(msgs) # 0 => Cut(msgs) = Len(o) - KeepRecentTurns /\ KeepRecentTurns < Len(o)
           /\ Middle(msgs) # <<>> => Cut(msgs) # 0 /\ Len(Middle(msgs)) = Cut(msgs)
<1>1. o \in Seq(Messages)
  BY SplitTypes DEF Others
<1>2. PICK n \in Nat : n = Len(o)
  BY <1>1, LenProperties
<1>3. PICK k \in Nat \ {0} : k = KeepRecentTurns
  BY CompressAssumption
<1>4. PICK c : c = Cut(msgs)
  OBVIOUS
<1>5. c \in 0 .. n /\ (c # 0 => c = n - k /\ k < n)
  <2>1. c = IF k >= n THEN 0 ELSE n - k
    BY <1>2, <1>3, <1>4 DEF Cut
  <2> QED
    BY <2>1
<1>6. SubSeq(o, 1, c) \in Seq(Messages) /\ Len(SubSeq(o, 1, c)) = c
  <2>1. \A i \in 1 .. c : o[i] \in Messages
    BY <1>1, <1>2, <1>5, ElementOfSeq
  <2>2. SubSeq(o, 1, c) \in Seq(Messages) /\ Len(SubSeq(o, 1, c)) = IF 1 <= c THEN c - 1 + 1 ELSE 0
    BY <1>1, <1>2, <1>5, <2>1, SubSeqProperties
  <2> QED
    BY <1>5, <2>2
<1>7. SubSeq(o, 1, c) # <<>> => c # 0
  BY <1>6, EmptySeq
<1> QED
  BY <1>1, <1>2, <1>3, <1>4, <1>5, <1>6, <1>7 DEF Middle

LEMMA ApplyIs ==
    ASSUME NEW msgs \in Seq(Messages), NEW s \in Summaries \cup {NoSummary}
    PROVE  \/ Apply(msgs, s) \in {msgs, Trim(msgs)}
           \/ Cut(msgs) # 0 /\ \E note : IsNote(note) /\ Apply(msgs, s) = Replaced(msgs, note)
<1>1. ASSUME Middle(msgs) # <<>>
      PROVE  Cut(msgs) # 0 /\ Len(Middle(msgs)) \in Nat \ {0}
  BY <1>1, CutIs
<1>2. ASSUME Middle(msgs) # <<>>  PROVE IsNote(Note("omitted", Len(Middle(msgs))))
  BY <1>1, <1>2, CompressAssumption DEF IsNote, Note, Messages
<1>3. ASSUME s # NoSummary  PROVE IsNote(Note(s, 0))
  BY <1>3, CompressAssumption DEF IsNote, Note, Messages
<1>4. ASSUME NEW z, z = Window(msgs)
      PROVE  \/ z = msgs
             \/ Cut(msgs) # 0 /\ \E note : IsNote(note) /\ z = Replaced(msgs, note)
  BY <1>1, <1>2, <1>4 DEF Window
<1>5. ASSUME NEW z, z = Summary(msgs, s)
      PROVE  \/ z = msgs
             \/ Cut(msgs) # 0 /\ \E note : IsNote(note) /\ z = Replaced(msgs, note)
  BY <1>1, <1>3, <1>4, <1>5 DEF Summary
<1>6. Strategy \in {"off", "trim", "window", "summary"}
  BY CompressAssumption
<1>7. PICK w : w = Window(msgs)
  OBVIOUS
<1>8. PICK y : y = Summary(msgs, s)
  OBVIOUS
<1>9. Apply(msgs, s) \in {msgs, Trim(msgs), w, y}
  BY <1>6, <1>7, <1>8 DEF Apply
<1> QED
  BY <1>4, <1>5, <1>7, <1>8, <1>9

LEMMA TidyIs ==
    ASSUME NEW m \in Messages
    PROVE  Tidy(m) \in Messages /\ Hashed(Tidy(m)) = Hashed(m)
<1>1. m.text \in Texts /\ Neat[m.text] \in Texts /\ Normal[Neat[m.text]] = Normal[m.text]
  BY GatewayAssumption, CompressAssumption DEF Messages
<1>2. PICK e \in Extras : e = IF Neat[m.text] = m.text THEN m.parts ELSE Nothing
  BY CompressAssumption DEF Messages
<1>3. PICK c : c = [role |-> m.role, text |-> Neat[m.text], n |-> m.n, parts |-> e, calls |-> m.calls]
  OBVIOUS
<1>4. Tidy(m) = c
  <2>1. m = [role |-> m.role, text |-> m.text, n |-> m.n, parts |-> m.parts, calls |-> m.calls]
    BY DEF Messages
  <2>2. PICK d : d = [m EXCEPT !.text = Neat[m.text]]
    OBVIOUS
  <2>3. d.parts = m.parts
    BY <2>1, <2>2
  <2>4. d = [role |-> m.role, text |-> Neat[m.text], n |-> m.n, parts |-> m.parts, calls |-> m.calls]
    BY <2>1, <2>2
  <2>5. [d EXCEPT !.parts = e] = c
    BY <1>3, <2>4
  <2>6. Tidy(m) = [d EXCEPT !.parts = e]
    BY <1>2, <2>2, <2>3 DEF Tidy
  <2> QED
    BY <2>5, <2>6
<1>5. c \in Messages
  BY <1>1, <1>3 DEF Messages
<1>6. c.role = m.role /\ c.n = m.n /\ c.text = Neat[m.text]
  BY <1>3
<1> QED
  BY <1>1, <1>4, <1>5, <1>6 DEF Hashed

LEMMA TrimNormal ==
    ASSUME NEW msgs \in Seq(Messages)
    PROVE  Trim(msgs) \in Seq(Messages) /\ Normalized(Trim(msgs)) = Normalized(msgs)
<1>1. PICK n \in Nat : n = Len(msgs)
  BY LenProperties
<1>2. DOMAIN msgs = 1 .. n /\ \A i \in 1 .. n : msgs[i] \in Messages
  BY <1>1, LenProperties, ElementOfSeq
<1>3. PICK t : t = Trim(msgs)
  OBVIOUS
<1>4. t = [i \in 1 .. n |-> Tidy(msgs[i])]
  BY <1>2, <1>3 DEF Trim
<1>5. \A i \in 1 .. n : t[i] \in Messages /\ Hashed(t[i]) = Hashed(msgs[i])
  BY <1>2, <1>4, TidyIs
<1>6. t \in Seq(Messages)
  <2>1. t = [i \in 1 .. n |-> t[i]]
    BY <1>4
  <2>2. [i \in 1 .. n |-> t[i]] \in Seq(Messages)
    BY <1>5, IsASeq
  <2> QED
    BY <2>1, <2>2
<1>7. Normalized(t) = Normalized(msgs)
  <2>1. DOMAIN t = 1 .. n
    BY <1>4
  <2>2. Normalized(t) = [i \in 1 .. n |-> Hashed(t[i])] /\ Normalized(msgs) = [i \in 1 .. n |-> Hashed(msgs[i])]
    BY <1>2, <2>1 DEF Normalized
  <2> QED
    BY <1>5, <2>2
<1> QED
  BY <1>3, <1>6, <1>7

(* A conversation z of system messages, a note, and the last others.       *)
Shape(z, sys, note, o) ==
    /\ sys \in Seq(Messages) /\ o \in Seq(Messages) /\ z \in Seq(Messages)
    /\ KeepRecentTurns < Len(o) /\ Len(z) = Len(sys) + 1 + KeepRecentTurns
    /\ \A i \in 1 .. Len(sys) : z[i] = sys[i]
    /\ z[Len(sys) + 1] = note
    /\ \A j \in 1 .. KeepRecentTurns :
          z[Len(sys) + 1 + j] = o[Len(o) - KeepRecentTurns + j]

LEMMA ReplacedIs ==
    ASSUME NEW msgs \in Seq(Messages), NEW note \in Messages, Cut(msgs) # 0,
           NEW z, z = Replaced(msgs, note), NEW sys, sys = System(msgs), NEW o, o = Others(msgs)
    PROVE  Shape(z, sys, note, o)
<1>1. PICK k \in Nat \ {0} : k = KeepRecentTurns
  BY CompressAssumption
<1>2. PICK n \in Nat : n = Len(o)
  BY CutIs
<1>3. PICK c \in 0 .. n : c = Cut(msgs)
  BY <1>2, CutIs
<1>4. o \in Seq(Messages) /\ c = n - k /\ k < n
  BY <1>1, <1>2, <1>3, CutIs
<1>5. sys \in Seq(Messages)
  BY SplitTypes DEF System
<1>6. PICK p \in Nat : p = Len(sys)
  BY <1>5, LenProperties
<1>7. PICK u : u = SubSeq(o, c + 1, n)
  OBVIOUS
<1>8. u \in Seq(Messages) /\ Len(u) = k /\ \A j \in 1 .. k : u[j] = o[n - k + j]
  <2>1. \A i \in c + 1 .. n : o[i] \in Messages
    BY <1>2, <1>3, <1>4, ElementOfSeq
  <2>2. /\ u \in Seq(Messages)
        /\ Len(u) = IF c + 1 <= n THEN n - (c + 1) + 1 ELSE 0
        /\ \A j \in 1 .. n - (c + 1) + 1 : u[j] = o[c + 1 + j - 1]
    BY <1>2, <1>4, <1>7, <2>1, SubSeqProperties
  <2>3. c + 1 <= n /\ n - (c + 1) + 1 = k /\ \A j \in 1 .. k : c + 1 + j - 1 = n - k + j
    BY <1>4
  <2> QED
    BY <2>2, <2>3
<1>9. PICK v : v = sys \o <<note>>
  OBVIOUS
<1>10. /\ v \in Seq(Messages) /\ Len(v) = p + 1 /\ v[p + 1] = note
       /\ \A i \in 1 .. p : v[i] = sys[i]
  <2>1. v = Append(sys, note)
    BY <1>5, <1>9, AppendIsConcat
  <2> QED
    BY <1>5, <1>6, <2>1, AppendProperties
<1>11. z = v \o u
  BY <1>2, <1>3, <1>7, <1>9 DEF Replaced, Recent
<1>12. /\ z \in Seq(Messages) /\ Len(z) = Len(v) + Len(u)
       /\ \A i \in 1 .. Len(v) + Len(u) : z[i] = IF i <= Len(v) THEN v[i] ELSE u[i - Len(v)]
  <2>1. /\ v \o u \in Seq(Messages) /\ Len(v \o u) = Len(v) + Len(u)
        /\ \A i \in 1 .. Len(v) + Len(u) : (v \o u)[i] = IF i <= Len(v) THEN v[i] ELSE u[i - Len(v)]
    BY <1>8, <1>10, ConcatProperties
  <2> QED
    BY <1>11, <2>1
<1>13. \A j \in 1 .. k : z[p + 1 + j] = u[j]
  <2>1. Len(v) = p + 1 /\ Len(u) = k
    BY <1>8, <1>10
  <2>2. \A i \in 1 .. p + 1 + k : z[i] = IF i <= p + 1 THEN v[i] ELSE u[i - (p + 1)]
    BY <1>12, <2>1
  <2> QED
    BY <2>2
<1>14. z[p + 1] = note /\ \A i \in 1 .. p : z[i] = sys[i]
  BY <1>8, <1>10, <1>12
<1>15. Len(z) = p + 1 + k
  BY <1>8, <1>10, <1>12
<1>16. \A j \in 1 .. k : z[p + 1 + j] = o[n - k + j]
  BY <1>8, <1>13
<1> QED
  BY <1>1, <1>2, <1>4, <1>5, <1>6, <1>12, <1>14, <1>15, <1>16, Zenon DEF Shape

LEMMA NoteIsSeen ==
    ASSUME NEW a \in Seq(Messages), NEW b \in Seq(Messages), Own(b), NEW note, IsNote(note), Cut(a) # 0,
           Normalized(Replaced(a, note)) = Normalized(b)
    PROVE  FALSE
<1>1. PICK z : z = Replaced(a, note)
  OBVIOUS
<1>2. PICK i : i = Len(System(a)) + 1
  OBVIOUS
<1>3. note \in Messages /\ note.role = "system"
  BY DEF IsNote
<1>4. z \in Seq(Messages) /\ i \in 1 .. Len(z) /\ z[i] = note
  <2>1. /\ System(a) \in Seq(Messages) /\ z \in Seq(Messages) /\ z[Len(System(a)) + 1] = note
        /\ Len(z) = Len(System(a)) + 1 + KeepRecentTurns
    BY <1>1, <1>3, ReplacedIs DEF Shape
  <2>2. Len(System(a)) \in Nat /\ KeepRecentTurns \in Nat
    BY <2>1, LenProperties, CompressAssumption
  <2> QED
    BY <1>2, <2>1, <2>2
<1>5. PICK y : y = Normalized(b)
  OBVIOUS
<1>6. Len(y) = Len(z) /\ y[i] = Hashed(note)
  BY <1>1, <1>4, <1>5, NormalizedIs
<1>7. i \in 1 .. Len(b) /\ y[i] = Hashed(b[i])
  BY <1>4, <1>5, <1>6, NormalizedIs
<1>8. PICK m \in Messages : m = b[i]
  BY <1>7, ElementOfSeq
<1>9. Hashed(note) = Hashed(m)
  BY <1>6, <1>7, <1>8
<1>10. note.role = m.role /\ note.n = m.n /\ Normal[note.text] = Normal[m.text]
  <2>1. Hashed(note).role = note.role /\ Hashed(note).n = note.n /\ Hashed(note).text = Normal[note.text]
    BY <1>3, HashedIs
  <2>2. Hashed(m).role = m.role /\ Hashed(m).n = m.n /\ Hashed(m).text = Normal[m.text]
    BY HashedIs
  <2> QED
    BY <1>9, <2>1, <2>2
<1>11. m.n = 0 /\ \A s \in Summaries : Normal[m.text] # Normal[s]
  BY <1>3, <1>7, <1>8, <1>10 DEF Own
<1> QED
  BY <1>10, <1>11 DEF IsNote

(* The last messages that are not the system's, as the key sees them.      *)
LEMMA LastTurnsIs ==
    ASSUME NEW a \in Seq(Messages), NEW o, o = Others(a), KeepRecentTurns < Len(o)
    PROVE  LastTurns(a) =
               [i \in 1 .. KeepRecentTurns |-> Hashed(o[Len(o) - KeepRecentTurns + (KeepRecentTurns - i + 1)])]
<1>1. PICK k \in Nat \ {0} : k = KeepRecentTurns
  BY CompressAssumption
<1>2. o \in Seq(Messages)
  BY SplitTypes DEF Others
<1>3. PICK n \in Nat : n = Len(o)
  BY <1>2, LenProperties
<1>4. PICK t : t = Normalized(Others(a))
  OBVIOUS
<1>5. t = Normalized(o)
  BY <1>4
<1>6. Len(t) = n /\ \A i \in 1 .. n : t[i] = Hashed(o[i])
  BY <1>2, <1>3, <1>5, NormalizedIs
<1>7. k < n
  BY <1>1, <1>3
<1>8. LastTurns(a) = [i \in 1 .. k |-> IF i <= n THEN t[n - i + 1] ELSE None]
  BY <1>1, <1>4, <1>6 DEF LastTurns
<1>9. \A i \in 1 .. k : i <= n /\ n - i + 1 \in 1 .. n /\ n - i + 1 = n - k + (k - i + 1)
  BY <1>7
<1>10. \A i \in 1 .. k : (IF i <= n THEN t[n - i + 1] ELSE None) = Hashed(o[n - k + (k - i + 1)])
  BY <1>6, <1>9
<1> QED
  BY <1>1, <1>3, <1>8, <1>10

LEMMA BothCut ==
    ASSUME NEW a \in Seq(Messages), NEW b \in Seq(Messages), Cut(a) # 0, Cut(b) # 0,
           NEW l, NEW m, IsNote(l), IsNote(m),
           Normalized(Replaced(a, l)) = Normalized(Replaced(b, m))
    PROVE  SameView(a, b)
<1>1. PICK k \in Nat \ {0} : k = KeepRecentTurns
  BY CompressAssumption
<1>2. PICK z : z = Replaced(a, l)
  OBVIOUS
<1>3. PICK y : y = Replaced(b, m)
  OBVIOUS
<1>4. PICK sa : sa = System(a)
  OBVIOUS
<1>5. PICK sb : sb = System(b)
  OBVIOUS
<1>6. PICK oa : oa = Others(a)
  OBVIOUS
<1>7. PICK ob : ob = Others(b)
  OBVIOUS
<1>8. l \in Messages /\ m \in Messages
  BY DEF IsNote
<1>9. /\ sa \in Seq(Messages) /\ oa \in Seq(Messages) /\ z \in Seq(Messages)
      /\ k < Len(oa) /\ Len(z) = Len(sa) + 1 + k
      /\ \A i \in 1 .. Len(sa) : z[i] = sa[i]
      /\ \A j \in 1 .. k : z[Len(sa) + 1 + j] = oa[Len(oa) - k + j]
  <2>1. Shape(z, sa, l, oa)
    BY <1>2, <1>4, <1>6, <1>8, ReplacedIs
  <2> QED
    BY <1>1, <2>1 DEF Shape
<1>10. /\ sb \in Seq(Messages) /\ ob \in Seq(Messages) /\ y \in Seq(Messages)
       /\ k < Len(ob) /\ Len(y) = Len(sb) + 1 + k
       /\ \A i \in 1 .. Len(sb) : y[i] = sb[i]
       /\ \A j \in 1 .. k : y[Len(sb) + 1 + j] = ob[Len(ob) - k + j]
  <2>1. Shape(y, sb, m, ob)
    BY <1>3, <1>5, <1>7, <1>8, ReplacedIs
  <2> QED
    BY <1>1, <2>1 DEF Shape
<1>11. PICK p \in Nat : p = Len(sa)
  BY <1>9, LenProperties
<1>12. /\ Len(z) = p + 1 + k /\ Len(sb) = p /\ Len(y) = p + 1 + k
       /\ \A i \in 1 .. p + 1 + k : Hashed(z[i]) = Hashed(y[i])
  <2>1. PICK w : w = Normalized(z)
    OBVIOUS
  <2>2. Len(w) = Len(z) /\ \A i \in 1 .. Len(z) : w[i] = Hashed(z[i])
    BY <1>9, <2>1, NormalizedIs
  <2>3. Len(w) = Len(y) /\ \A i \in 1 .. Len(y) : w[i] = Hashed(y[i])
    <3>1. w = Normalized(y)
      BY <1>2, <1>3, <2>1
    <3> QED
      BY <1>10, <3>1, NormalizedIs
  <2>4. Len(sb) \in Nat
    BY <1>10, LenProperties
  <2>5. Len(z) = p + 1 + k /\ Len(sb) = p
    BY <1>9, <1>10, <1>11, <2>2, <2>3, <2>4
  <2> QED
    BY <2>2, <2>3, <2>5
<1>13. Normalized(sa) = Normalized(sb)
  <2>1. \A i \in 1 .. p : Hashed(sa[i]) = Hashed(sb[i])
    BY <1>9, <1>10, <1>11, <1>12
  <2>2. DOMAIN sa = 1 .. p /\ DOMAIN sb = 1 .. p
    BY <1>9, <1>10, <1>11, <1>12, LenProperties
  <2>3. Normalized(sa) = [i \in 1 .. p |-> Hashed(sa[i])] /\ Normalized(sb) = [i \in 1 .. p |-> Hashed(sb[i])]
    BY <2>2 DEF Normalized
  <2> QED
    BY <2>1, <2>3
<1>14. Normalized(System(a)) = Normalized(System(b))
  BY <1>4, <1>5, <1>13
<1>15. \A j \in 1 .. k : Hashed(oa[Len(oa) - k + j]) = Hashed(ob[Len(ob) - k + j])
  <2>1. ASSUME NEW j \in 1 .. k
        PROVE  Hashed(oa[Len(oa) - k + j]) = Hashed(ob[Len(ob) - k + j])
    <3>1. p + 1 + j \in 1 .. p + 1 + k
      OBVIOUS
    <3>2. z[p + 1 + j] = oa[Len(oa) - k + j] /\ y[p + 1 + j] = ob[Len(ob) - k + j]
      BY <1>9, <1>10, <1>11, <1>12
    <3> QED
      BY <1>12, <3>1, <3>2
  <2> QED
    BY <2>1
<1>16. LastTurns(a) = LastTurns(b)
  <2>1. LastTurns(a) = [i \in 1 .. k |-> Hashed(oa[Len(oa) - k + (k - i + 1)])]
    <3>1. KeepRecentTurns < Len(oa)
      BY <1>1, <1>9
    <3> QED
      BY <1>1, <1>6, <3>1, LastTurnsIs
  <2>2. LastTurns(b) = [i \in 1 .. k |-> Hashed(ob[Len(ob) - k + (k - i + 1)])]
    <3>1. KeepRecentTurns < Len(ob)
      BY <1>1, <1>10
    <3> QED
      BY <1>1, <1>7, <3>1, LastTurnsIs
  <2>3. \A i \in 1 .. k : k - i + 1 \in 1 .. k
    OBVIOUS
  <2> QED
    BY <1>15, <2>1, <2>2, <2>3
<1> QED
  BY <1>14, <1>16 DEF SameView

(* Conversations with the same key look the same to every strategy.        *)
LEMMA SameKey ==
    ASSUME NEW a \in Seq(Messages), NEW b \in Seq(Messages), Own(a), Own(b),
           NEW s \in Summaries \cup {NoSummary}, NEW t \in Summaries \cup {NoSummary},
           Normalized(Apply(a, s)) = Normalized(Apply(b, t))
    PROVE  SameView(a, b)
<1>1. ASSUME NEW c \in Seq(Messages), NEW v \in Summaries \cup {NoSummary}
      PROVE  \/ Normalized(Apply(c, v)) = Normalized(c)
             \/ Cut(c) # 0 /\ \E note : IsNote(note) /\ Apply(c, v) = Replaced(c, note)
  BY <1>1, ApplyIs, TrimNormal
<1>2. CASE Normalized(Apply(a, s)) = Normalized(a) /\ Normalized(Apply(b, t)) = Normalized(b)
  <2>1. Normalized(a) = Normalized(b)
    BY <1>2
  <2>2. Normalized(System(a)) = Normalized(System(b)) /\ Normalized(Others(a)) = Normalized(Others(b))
    BY <2>1, SplitNormal DEF System, Others
  <2> QED
    BY <2>2 DEF SameView, LastTurns
<1>3. ASSUME NEW l, IsNote(l), Cut(a) # 0, Apply(a, s) = Replaced(a, l),
             Normalized(Apply(b, t)) = Normalized(b)
      PROVE  FALSE
  BY <1>3, NoteIsSeen
<1>4. ASSUME NEW m, IsNote(m), Cut(b) # 0, Apply(b, t) = Replaced(b, m),
             Normalized(Apply(a, s)) = Normalized(a)
      PROVE  FALSE
  BY <1>4, NoteIsSeen
<1>5. ASSUME NEW l, IsNote(l), Cut(a) # 0, Apply(a, s) = Replaced(a, l),
             NEW m, IsNote(m), Cut(b) # 0, Apply(b, t) = Replaced(b, m)
      PROVE  SameView(a, b)
  BY <1>5, BothCut
<1> QED
  BY <1>1, <1>2, <1>3, <1>4, <1>5

(* What the user said last among the first n messages, Empty if nothing.   *)
Says(list, n, v) ==
    \/ v = Empty /\ \A i \in 1 .. n : list[i].role # "user"
    \/ \E j \in 1 .. n : /\ list[j].role = "user" /\ list[j].text = v
                         /\ \A i \in j + 1 .. n : list[i].role # "user"

LEMMA SaysOne ==
    ASSUME NEW list, NEW n \in Nat, NEW v, NEW w, Says(list, n, v), Says(list, n, w)
    PROVE  v = w
<1>1. ASSUME NEW i \in 1 .. n, NEW j \in 1 .. n, list[i].role = "user", list[j].role = "user",
             \A k \in i + 1 .. n : list[k].role # "user", \A k \in j + 1 .. n : list[k].role # "user"
      PROVE  i = j
  <2>1. ~(i < j) /\ ~(j < i)
    BY <1>1
  <2> QED
    BY <2>1
<1> QED
  BY <1>1 DEF Says

(* The step of a list by one message, and the same list elsewhere.         *)
LEMMA SaysMore ==
    ASSUME NEW list, NEW e \in Nat, NEW v, Says(list, e, v), list[e + 1].role # "user"
    PROVE  Says(list, e + 1, v)
<1>1. \A i \in 1 .. e + 1 : i \in 1 .. e \/ i = e + 1
  OBVIOUS
<1>2. CASE v = Empty /\ \A i \in 1 .. e : list[i].role # "user"
  BY <1>1, <1>2 DEF Says
<1>3. ASSUME NEW j \in 1 .. e, list[j].role = "user", list[j].text = v,
             \A i \in j + 1 .. e : list[i].role # "user"
      PROVE  Says(list, e + 1, v)
  <2>1. \A i \in j + 1 .. e + 1 : i \in j + 1 .. e \/ i = e + 1
    OBVIOUS
  <2>2. j \in 1 .. e + 1 /\ \A i \in j + 1 .. e + 1 : list[i].role # "user"
    BY <1>3, <2>1
  <2> QED
    BY <1>3, <2>2 DEF Says
<1> QED
  BY <1>2, <1>3 DEF Says

LEMMA SaysUser ==
    ASSUME NEW list, NEW e \in Nat, list[e + 1].role = "user"
    PROVE  Says(list, e + 1, list[e + 1].text)
<1>1. e + 1 \in 1 .. e + 1 /\ e + 1 + 1 .. e + 1 = {}
  OBVIOUS
<1> QED
  BY <1>1 DEF Says

LEMMA SaysSame ==
    ASSUME NEW list, NEW n \in Nat, NEW v, Says(list, n, v), NEW other, \A i \in 1 .. n : other[i] = list[i]
    PROVE  Says(other, n, v)
<1>1. \A j \in 1 .. n : \A i \in j + 1 .. n : i \in 1 .. n
  OBVIOUS
<1> QED
  BY <1>1 DEF Says

LEMMA FinalIs ==
    ASSUME NEW q, NEW n \in Nat, n = Len(q.msgs)
    PROVE  Says(q.msgs, n, FinalUser(q))
<1>1. PICK I : I = {i \in 1 .. n : q.msgs[i].role = "user"}
  OBVIOUS
<1>2. PICK last : last = SelectLastInSeq(q.msgs, LAMBDA m : m.role = "user")
  OBVIOUS
<1>3. last = IF I # {} THEN Max(I) ELSE 0
  BY <1>1, <1>2 DEF SelectLastInSeq
<1>4. FinalUser(q) = IF last = 0 THEN Empty ELSE q.msgs[last].text
  BY <1>2 DEF FinalUser
<1>5. CASE I = {}
  BY <1>1, <1>3, <1>4, <1>5 DEF Says
<1>6. CASE I # {}
  <2>1. PICK T : T = {n - i : i \in I}
    OBVIOUS
  <2>2. T \in SUBSET Nat /\ T # {}
    <3>1. \A i \in I : n - i \in Nat
      BY <1>1
    <3>2. \A l \in T : l \in Nat
      BY <2>1, <3>1
    <3>3. PICK i \in I : TRUE
      BY <1>6
    <3>4. n - i \in T
      BY <2>1, <3>3
    <3> QED
      BY <3>2, <3>4
  <2>3. PICK l \in T : \A m \in T : l <= m
    BY <2>2, Least
  <2>4. PICK j \in I : l = n - j
    BY <2>1
  <2>5. \A i \in I : j >= i
    <3>1. ASSUME NEW i \in I  PROVE j >= i
      <4>1. n - i \in T
        BY <2>1
      <4>2. n - j <= n - i /\ i \in Nat /\ j \in Nat
        BY <1>1, <2>3, <2>4, <4>1
      <4> QED
        BY <4>2
    <3> QED
      BY <3>1
  <2>6. Max(I) \in I /\ \A i \in I : Max(I) >= i
    BY <2>5 DEF Max
  <2>7. last \in I /\ last # 0 /\ \A i \in I : last >= i
    BY <1>1, <1>3, <1>6, <2>6
  <2>8. ASSUME NEW i \in last + 1 .. n  PROVE q.msgs[i].role # "user"
    <3>1. last \in 1 .. n
      BY <1>1, <2>7
    <3>2. i \in 1 .. n /\ ~(last >= i)
      BY <3>1
    <3> QED
      BY <1>1, <2>7, <3>2
  <2> QED
    BY <1>1, <1>4, <2>7, <2>8 DEF Says
<1> QED
  BY <1>5, <1>6

(* Splitting off the system's messages keeps what the user said last.      *)
LEMMA OthersSay ==
    ASSUME NEW msgs \in Seq(Messages), NEW v, Says(msgs, Len(msgs), v)
    PROVE  Says(Others(msgs), Len(Others(msgs)), v)
<1>1. PICK n \in Nat : n = Len(msgs)
  BY LenProperties
<1>2. PICK K : K = Of(msgs, FALSE)
  OBVIOUS
<1>3. PICK g : Collects(msgs, K, n, g) /\ Others(msgs) = g[n]
  BY <1>1, <1>2, SplitIs DEF Others
<1>4. \A i \in 1 .. n : msgs[i] \in Messages /\ (i \in K <=> msgs[i].role # "system")
  BY <1>1, <1>2, ElementOfSeq DEF Of
<1>5. \A j \in K : msgs[j] \in Messages
  BY <1>1, <1>2, ElementOfSeq DEF Of
<1>6. ASSUME NEW i \in 0 .. n  PROVE g[i] = Collect(msgs, K, g, i) /\ g[i] \in Seq(Messages)
  BY <1>3, <1>5, CollectsTypes
<1> DEFINE Both(i) == \E w : Says(msgs, i, w) /\ Says(g[i], Len(g[i]), w)
           Bad == {i \in 0 .. n : ~Both(i)}
<1>7. Bad = {}
  <2>1. SUFFICES ASSUME Bad # {}
                 PROVE  FALSE
    OBVIOUS
  <2>2. PICK i \in Bad : \A j \in Bad : i <= j
    <3>1. Bad \in SUBSET Nat
      OBVIOUS
    <3> HIDE DEF Bad
    <3> QED
      BY <2>1, <3>1, Least
  <2>3. CASE i = 0
    <3>1. g[0] = <<>>
      BY <1>6, <2>3 DEF Collect
    <3>2. Says(msgs, 0, Empty) /\ Says(<<>>, 0, Empty) /\ Len(<<>>) = 0
      BY DEF Says
    <3> QED
      BY <2>2, <2>3, <3>1, <3>2
  <2>4. CASE i # 0
    <3>1. PICK e \in Nat : i = e + 1
      BY <2>4
    <3>2. e \in 0 .. n /\ i \in 1 .. n /\ i # 0
      BY <3>1
    <3>3. PICK w : Says(msgs, e, w) /\ Says(g[e], Len(g[e]), w)
      <4>1. e \notin Bad
        BY <2>2, <3>1
      <4> QED
        BY <3>2, <4>1
    <3>4. PICK d \in Seq(Messages) : d = g[e]
      BY <1>6, <3>2
    <3>5. PICK l \in Nat : l = Len(d)
      BY LenProperties
    <3>6. i - 1 = e
      BY <3>1
    <3>7. CASE i \notin K
      <4>1. g[i] = d
        BY <1>6, <3>2, <3>4, <3>6, <3>7 DEF Collect
      <4>2. msgs[e + 1].role # "user"
        BY <1>4, <3>1, <3>2, <3>7
      <4>3. Says(msgs, i, w)
        BY <3>1, <3>3, <4>2, SaysMore
      <4> QED
        BY <2>2, <3>3, <3>4, <4>1, <4>3
    <3>8. CASE i \in K
      <4>1. PICK a \in Seq(Messages) : a = Append(d, msgs[i]) /\ a = g[i]
        <5>1. g[i] \in Seq(Messages) /\ g[i] = Collect(msgs, K, g, i)
          BY <1>6
        <5>2. Collect(msgs, K, g, i) = Append(d, msgs[i])
          BY <3>2, <3>4, <3>6, <3>8 DEF Collect
        <5> QED
          BY <5>1, <5>2
      <4>2. Len(a) = l + 1 /\ a[l + 1] = msgs[e + 1] /\ \A k \in 1 .. l : a[k] = d[k]
        <5>1. PICK m \in Messages : m = msgs[i] /\ m = msgs[e + 1]
          BY <1>4, <3>1, <3>2
        <5>2. a = Append(d, m)
          BY <4>1, <5>1
        <5>3. Len(a) = Len(d) + 1 /\ a[Len(d) + 1] = m /\ \A k \in 1 .. Len(d) : a[k] = d[k]
          BY <5>2, AppendProperties
        <5> QED
          BY <3>5, <5>1, <5>3
      <4>3. CASE msgs[e + 1].role = "user"
        <5>1. Says(msgs, e + 1, msgs[e + 1].text)
          BY <4>3, SaysUser
        <5>2. Says(a, l + 1, a[l + 1].text)
          BY <4>2, <4>3, SaysUser
        <5> QED
          BY <2>2, <3>1, <4>1, <4>2, <5>1, <5>2
      <4>4. CASE msgs[e + 1].role # "user"
        <5>1. Says(msgs, e + 1, w)
          BY <3>3, <4>4, SaysMore
        <5>2. Says(a, l, w)
          BY <3>3, <3>4, <3>5, <4>2, SaysSame
        <5>3. Says(a, l + 1, w)
          BY <4>2, <4>4, <5>2, SaysMore
        <5> QED
          BY <2>2, <3>1, <4>1, <4>2, <5>1, <5>3
      <4> QED
        BY <4>3, <4>4
    <3> QED
      BY <3>7, <3>8
  <2> QED
    BY <2>3, <2>4
<1>8. PICK w : Says(msgs, n, w) /\ Says(g[n], Len(g[n]), w)
  <2>1. n \in 0 .. n
    OBVIOUS
  <2> QED
    BY <1>7, <2>1
<1>9. v = w
  BY <1>1, <1>8, SaysOne
<1> QED
  BY <1>3, <1>8, <1>9

LEMMA NormalSays ==
    ASSUME NEW s \in Seq(Messages), NEW v, Says(s, Len(s), v)
    PROVE  Says(Normalized(s), Len(Normalized(s)), Normal[v])
<1>1. PICK n \in Nat : n = Len(s)
  BY LenProperties
<1>2. PICK z : z = Normalized(s)
  OBVIOUS
<1>3. Len(z) = n /\ \A i \in 1 .. n : z[i] = Hashed(s[i]) /\ s[i] \in Messages
  BY <1>1, <1>2, NormalizedIs, ElementOfSeq
<1>4. \A i \in 1 .. n : z[i].role = s[i].role /\ z[i].text = Normal[s[i].text]
  BY <1>3, HashedIs
<1>5. \A j \in 1 .. n : \A i \in j + 1 .. n : i \in 1 .. n
  OBVIOUS
<1>6. Normal[Empty] = Empty
  BY GatewayAssumption
<1>7. Says(z, n, Normal[v])
  BY <1>1, <1>4, <1>5, <1>6 DEF Says
<1> QED
  BY <1>2, <1>3, <1>7

(* What a compressed conversation keeps of the user's messages ends in the *)
(* last one, or is nothing.                                                *)
LEMMA ReplacedSays ==
    ASSUME NEW msgs \in Seq(Messages), Cut(msgs) # 0, NEW note, IsNote(note),
           NEW c, c = Replaced(msgs, note),
           NEW v, Says(c, Len(c), v), NEW w, Says(msgs, Len(msgs), w)
    PROVE  v \in {Empty, w}
<1>1. PICK o : o = Others(msgs)
  OBVIOUS
<1>2. PICK sys : sys = System(msgs)
  OBVIOUS
<1>3. PICK k \in Nat \ {0} : k = KeepRecentTurns
  BY CompressAssumption
<1>4. Shape(c, sys, note, o)
  BY <1>1, <1>2, ReplacedIs DEF IsNote
<1>5. PICK p \in Nat : p = Len(sys)
  BY <1>4, LenProperties DEF Shape
<1>6. PICK n \in Nat : n = Len(o)
  BY <1>4, LenProperties DEF Shape
<1>7. /\ k < n /\ Len(c) = p + 1 + k /\ c[p + 1] = note
      /\ \A i \in 1 .. p : c[i] = sys[i]
      /\ \A j \in 1 .. k : c[p + 1 + j] = o[n - k + j]
  BY <1>3, <1>4, <1>5, <1>6 DEF Shape
<1>8. \A i \in 1 .. p + 1 : c[i].role = "system"
  <2>1. \A i \in 1 .. p : c[i].role = "system"
    BY <1>2, <1>5, <1>7, SystemRoles
  <2>2. c[p + 1].role = "system"
    BY <1>7 DEF IsNote
  <2>3. \A i \in 1 .. p + 1 : i \in 1 .. p \/ i = p + 1
    OBVIOUS
  <2> QED
    BY <2>1, <2>2, <2>3
<1>9. CASE v = Empty
  BY <1>9
<1>10. ASSUME NEW j \in 1 .. p + 1 + k, c[j].role = "user", c[j].text = v,
              \A i \in j + 1 .. p + 1 + k : c[i].role # "user"
       PROVE  v = w
  <2>1. j \notin 1 .. p + 1
    BY <1>8, <1>10
  <2>2. PICK d \in 1 .. k : j = p + 1 + d
    <3>1. j - p - 1 \in 1 .. k /\ j = p + 1 + (j - p - 1)
      BY <2>1
    <3> QED
      BY <3>1
  <2>3. PICK m \in 1 .. n : m = n - k + d
    <3>1. n - k + d \in 1 .. n
      BY <1>7
    <3> QED
      BY <3>1
  <2>4. o[m].role = "user" /\ o[m].text = v
    BY <1>7, <1>10, <2>2, <2>3
  <2>5. ASSUME NEW i \in m + 1 .. n  PROVE o[i].role # "user"
    <3>1. PICK f \in d + 1 .. k : i = n - k + f
      <4>1. i - n + k \in d + 1 .. k /\ i = n - k + (i - n + k)
        BY <2>3
      <4> QED
        BY <4>1
    <3>2. f \in 1 .. k /\ p + 1 + f \in j + 1 .. p + 1 + k
      BY <2>2
    <3>3. c[p + 1 + f] = o[i]
      BY <1>7, <3>1, <3>2
    <3> QED
      BY <1>10, <3>2, <3>3
  <2>6. Says(o, n, v)
    BY <2>4, <2>5 DEF Says
  <2>7. Says(o, n, w)
    BY <1>1, <1>6, OthersSay
  <2> QED
    BY <2>6, <2>7, SaysOne
<1> QED
  BY <1>7, <1>9, <1>10 DEF Says

(* A request as it was sent on, and its key: if compression left something *)
(* of what the user said last, it is as the request said it.               *)
LEMMA KeyIs ==
    ASSUME NEW q \in Requests, NEW s \in Summaries \cup {NoSummary},
           NEW c, c = [q EXCEPT !.msgs = Apply(@, s)]
    PROVE  /\ c.model = q.model /\ c.msgs = Apply(q.msgs, s)
           /\ KeyOf(c).model = q.model /\ KeyOf(c).temperature = q.temperature
           /\ KeyOf(c).msgs = Normalized(c.msgs)
           /\ FinalUser(KeyOf(c)) \in {Empty, FinalUser(KeyOf(q))}
           /\ FinalUser(KeyOf(q)) = Normal[FinalUser(q)]
<1>1. q \in [kind : {"complete", "stream"}, model : Models, msgs : Seq(Messages),
             temperature : Extras, rest : Extras]
  BY GatewayAssumption
<1>2. c.model = q.model /\ c.msgs = Apply(q.msgs, s) /\ c.temperature = q.temperature
  BY <1>1
<1>3. PICK msgs \in Seq(Messages) : msgs = q.msgs
  BY <1>1
<1>4. PICK d : d = Apply(msgs, s)
  OBVIOUS
<1>5. /\ KeyOf(c).model = q.model /\ KeyOf(c).temperature = q.temperature
      /\ KeyOf(c).msgs = Normalized(d) /\ KeyOf(q).msgs = Normalized(msgs)
  BY <1>2, <1>3, <1>4 DEF KeyOf
<1>6. ASSUME NEW e \in Seq(Messages), NEW r, r.msgs = e, NEW k, k.msgs = Normalized(e)
      PROVE  FinalUser(k) = Normal[FinalUser(r)] /\ Says(e, Len(e), FinalUser(r))
  <2>1. Len(e) \in Nat /\ Len(Normalized(e)) \in Nat
    BY NormalizedIs, LenProperties
  <2>2. Says(e, Len(e), FinalUser(r))
    BY <1>6, <2>1, FinalIs
  <2>3. Says(Normalized(e), Len(Normalized(e)), Normal[FinalUser(r)])
    BY <2>2, NormalSays
  <2>4. Says(Normalized(e), Len(Normalized(e)), FinalUser(k))
    BY <1>6, <2>1, FinalIs
  <2> QED
    BY <2>1, <2>2, <2>3, <2>4, SaysOne
<1>7. FinalUser(KeyOf(q)) = Normal[FinalUser(q)] /\ Says(msgs, Len(msgs), FinalUser(q))
  BY <1>3, <1>5, <1>6
<1>8. ASSUME Normalized(d) = Normalized(msgs)
      PROVE  FinalUser(KeyOf(c)) = FinalUser(KeyOf(q))
  BY <1>5, <1>8 DEF FinalUser
<1>9. ASSUME NEW note, IsNote(note), Cut(msgs) # 0, d = Replaced(msgs, note)
      PROVE  FinalUser(KeyOf(c)) \in {Empty, FinalUser(KeyOf(q))}
  <2>1. d \in Seq(Messages)
    BY <1>9, ReplacedIs DEF IsNote, Shape
  <2>2. FinalUser(KeyOf(c)) = Normal[FinalUser(c)] /\ Says(d, Len(d), FinalUser(c))
    BY <1>2, <1>3, <1>4, <1>5, <1>6, <2>1
  <2>3. FinalUser(c) \in {Empty, FinalUser(q)}
    BY <1>7, <1>9, <2>2, ReplacedSays
  <2>4. Normal[Empty] = Empty
    BY GatewayAssumption
  <2> QED
    BY <1>7, <2>2, <2>3, <2>4
<1>10. FinalUser(KeyOf(c)) \in {Empty, FinalUser(KeyOf(q))}
  BY <1>4, <1>8, <1>9, ApplyIs, TrimNormal
<1> QED
  BY <1>2, <1>3, <1>4, <1>5, <1>7, <1>10

(* The user's last message is one of the texts.                            *)
LEMMA FinalTypes ==
    ASSUME NEW q \in Requests
    PROVE  FinalUser(q) \in Texts
<1>1. q.msgs \in Seq(Messages)
  BY GatewayAssumption
<1>2. PICK n \in Nat : n = Len(q.msgs)
  BY <1>1, LenProperties
<1>3. Says(q.msgs, n, FinalUser(q))
  BY <1>2, FinalIs
<1>4. \A i \in 1 .. n : q.msgs[i] \in Messages
  BY <1>1, <1>2, ElementOfSeq
<1>5. \A m \in Messages : m.text \in Texts
  BY DEF Messages
<1>6. \A i \in 1 .. n : q.msgs[i].text \in Texts
  BY <1>4, <1>5
<1>7. Empty \in Texts
  BY CompressAssumption
<1> QED
  BY <1>3, <1>6, <1>7 DEF Says

(* Where a response comes from: the request x.req is what compression made *)
(* of what the client asked, the handler's response answers it, and what   *)
(* the cache holds under a key was made, without tools, for a request that *)
(* has this key.                                                           *)
Makes(q, k) ==
    \E s \in Summaries \cup {NoSummary} : k = KeyOf([q EXCEPT !.msgs = Apply(@, s)])

Answers(x) ==
    /\ x.resp.asked.model = x.asked.model /\ x.resp.tools = 0
    /\ x.hit = "exact" =>
          /\ x.resp.asked.temperature = x.asked.temperature
          /\ SameView(x.resp.asked.msgs, x.asked.msgs)
    /\ x.hit = "close" =>
          /\ FinalUser(x.asked) # Empty
          /\ Similarity(x.asked, KeyOf(x.resp.asked)) >= Threshold
    /\ x.at <= x.resp.born + TTL

Known(x) ==
    /\ x.asked \in Requests
    /\ \E s \in Summaries \cup {NoSummary} : x.req = [x.asked EXCEPT !.msgs = Apply(@, s)]
    /\ x.pc # "answer" => x.hit = "none"
    /\ x.pc \in {"tools", "done", "put"} => x.resp.asked = x.asked /\ (x.tools = 0 => x.resp.tools = 0)
    /\ x.hit # "none" => Answers(x)

KnownEntries(f) ==
    \A k \in DOMAIN f : Makes(f[k].resp.asked, k) /\ f[k].resp.tools = 0

Origins ==
    /\ \A r \in Handlers : h[r].pc # "idle" => Known(h[r])
    /\ KnownEntries(items)

LEMMA OriginStep ==
    ASSUME HandlersInv, Origins, NEW r \in Handlers, NEW rec, Step(r, rec), rec.pc # "idle" => Known(rec),
           KnownEntries(items')
    PROVE  Origins'
<1>1. \A q \in Handlers : h'[q] = IF q = r THEN rec ELSE h[q]
  BY DEF HandlersInv, Step
<1> QED
  BY <1>1 DEF Origins

LEMMA KnownOn ==
    ASSUME NEW x, Known(x), NEW rec, x.pc # "answer", rec.asked = x.asked, rec.req = x.req, rec.hit = x.hit,
           rec.pc \in {"tools", "done", "put"} => rec.resp.asked = x.asked /\ (rec.tools = 0 => rec.resp.tools = 0)
    PROVE  Known(rec)
BY DEF Known

(* Steps that leave the cache alone.                                       *)
LEMMA OriginsOn ==
    ASSUME HandlersInv, Origins, items' = items, NEW r \in Handlers, NEW n,
           \/ Leave(r) \/ Miss(r) \/ Resolve(r)
           \/ Reply(r, n) \/ ToolResult(r) \/ StreamWrite(r) \/ StreamEnd(r)
    PROVE  Origins'
<1>1. PICK x : x = h[r]
  OBVIOUS
<1>2. ASSUME NEW rec, Step(r, rec), x.pc # "idle", x.pc # "answer",
             rec.asked = x.asked, rec.req = x.req, rec.hit = x.hit,
             rec.pc \in {"tools", "done", "put"} =>
                 rec.resp.asked = x.asked /\ (rec.tools = 0 => rec.resp.tools = 0)
      PROVE  Origins'
  <2>1. Known(x) /\ KnownEntries(items')
    BY <1>1, <1>2 DEF Origins
  <2>2. Known(rec)
    BY <1>2, <2>1, KnownOn
  <2> QED
    BY <1>2, <2>1, <2>2, OriginStep
<1>3. CASE Miss(r)
  <2>1. PICK rec : rec = [x EXCEPT !.pc = "resolve"]
    OBVIOUS
  <2>2. x.pc = "lookup" /\ Step(r, rec)
    BY <1>1, <1>3, <2>1 DEF Miss
  <2>3. rec.pc = "resolve" /\ rec.asked = x.asked /\ rec.req = x.req /\ rec.hit = x.hit
    BY <1>1, <2>1, <2>2, Working DEF Records
  <2> QED
    BY <1>2, <2>2, <2>3
<1>4. CASE Leave(r)
  <2>1. PICK rec : rec = [x EXCEPT !.gone = TRUE]
    OBVIOUS
  <2>2. x.pc \in {"call", "backoff"} /\ Step(r, rec)
    BY <1>1, <1>4, <2>1 DEF Leave
  <2>3. rec.pc = x.pc /\ rec.asked = x.asked /\ rec.req = x.req /\ rec.hit = x.hit
    BY <1>1, <2>1, <2>2, Working DEF Records
  <2> QED
    BY <1>2, <2>2, <2>3
<1>5. CASE Resolve(r)
  <2>1. PICK rec : rec = [x EXCEPT !.pc = "call", !.idx = 1]
    OBVIOUS
  <2>2. x.pc = "resolve" /\ Step(r, rec)
    BY <1>1, <1>5, <2>1 DEF Resolve
  <2>3. rec.pc = "call" /\ rec.asked = x.asked /\ rec.req = x.req /\ rec.hit = x.hit
    BY <1>1, <2>1, <2>2, Working DEF Records
  <2> QED
    BY <1>2, <2>2, <2>3
<1>6. CASE StreamWrite(r)
  <2>1. PICK rec : rec = [x EXCEPT !.sources = @ \cup {x.idx}]
    OBVIOUS
  <2>2. x.pc = "call" /\ Step(r, rec)
    BY <1>1, <1>6, <2>1 DEF StreamWrite
  <2>3. rec.pc = "call" /\ rec.asked = x.asked /\ rec.req = x.req /\ rec.hit = x.hit
    BY <1>1, <2>1, <2>2, Working DEF Records
  <2> QED
    BY <1>2, <2>2, <2>3
<1>7. CASE StreamEnd(r)
  <2>1. PICK resp : resp = [asked |-> x.asked, by |-> Target(r), tools |-> 0, born |-> 0]
    OBVIOUS
  <2>2. PICK rec : rec = [x EXCEPT !.pc = "done", !.trail = Called(r, "ok"), !.resp = resp]
    OBVIOUS
  <2>3. x.pc = "call" /\ Step(r, rec)
    BY <1>1, <1>7, <2>1, <2>2 DEF StreamEnd
  <2>4. rec.resp = resp /\ rec.asked = x.asked /\ rec.req = x.req /\ rec.hit = x.hit
    BY <1>1, <2>2, <2>3, Working DEF Records
  <2>5. resp.asked = x.asked /\ resp.tools = 0
    BY <2>1
  <2> QED
    BY <1>2, <2>3, <2>4, <2>5
<1>8. CASE ToolResult(r)
  <2>1. PICK pc : pc = IF OwesMore(r) THEN "tools" ELSE IF MoreRounds(r) THEN "call" ELSE "done"
    OBVIOUS
  <2>2. PICK rec : rec = [x EXCEPT !.tools = @ + 1, !.rounds[Len(x.rounds)].results = @ + 1, !.pc = pc,
                                   !.idx = IF ~OwesMore(r) /\ MoreRounds(r) THEN 1 ELSE @]
    OBVIOUS
  <2>3. x.pc = "tools" /\ Step(r, rec)
    BY <1>1, <1>8, <2>1, <2>2 DEF ToolResult
  <2>4. /\ rec.resp = x.resp /\ rec.asked = x.asked /\ rec.req = x.req /\ rec.hit = x.hit
        /\ rec.tools # 0
    <3>1. x \in Records
      BY <1>1, <2>3, Working
    <3> QED
      BY <2>2, <3>1 DEF Records
  <2>5. x.resp.asked = x.asked
    BY <1>1, <2>3 DEF Origins, Known
  <2> QED
    BY <1>2, <2>3, <2>4, <2>5
<1>9. CASE Reply(r, n)
  <2>1. PICK looping : looping = (MCPEnabled /\ n > 0)
    OBVIOUS
  <2>2. PICK resp : resp = [asked |-> x.asked, by |-> Target(r), tools |-> x.tools, born |-> 0]
    OBVIOUS
  <2>3. PICK rec : rec = [x EXCEPT !.pc = IF looping THEN "tools" ELSE "done",
                                   !.iter = IF MCPEnabled THEN @ + 1 ELSE 0,
                                   !.trail = Called(r, "ok"),
                                   !.rounds = IF looping THEN Append(@, [calls |-> n, results |-> 0]) ELSE @,
                                   !.resp = resp]
    OBVIOUS
  <2>4. x.pc = "call" /\ Step(r, rec)
    BY <1>1, <1>9, <2>1, <2>2, <2>3 DEF Reply
  <2>5. /\ rec.resp = resp /\ rec.asked = x.asked /\ rec.req = x.req /\ rec.hit = x.hit
        /\ rec.tools = x.tools
    BY <1>1, <2>3, <2>4, Working DEF Records
  <2>6. resp.asked = x.asked /\ resp.tools = x.tools
    BY <2>2
  <2> QED
    BY <1>2, <2>4, <2>5, <2>6
<1> QED
  BY <1>3, <1>4, <1>5, <1>6, <1>7, <1>8, <1>9

LEMMA OriginsEnd ==
    ASSUME HandlersInv, Origins, items' = items, NEW r \in Handlers, Step(r, Idle)
    PROVE  Origins'
<1>1. Idle.pc = "idle" /\ KnownEntries(items')
  BY DEF Idle, Origins
<1> QED
  BY <1>1, OriginStep

LEMMA OriginsBackoff ==
    ASSUME HandlersInv, Origins, NEW r \in Handlers,
           \/ Wake(r) \/ Cancelled(r) \/ ResolveFails(r) \/ Answer(r)
           \/ \E kind \in {"retry", "terminal"} : UpstreamFails(r, kind)
    PROVE  Origins'
<1>1. PICK x : x = h[r]
  OBVIOUS
<1>2. items' = items
  BY DEF Wake, Cancelled, ResolveFails, Answer, UpstreamFails, FailWith, cacheVars
<1>3. CASE Step(r, Idle)
  BY <1>2, <1>3, OriginsEnd
<1>4. ASSUME NEW rec, Step(r, rec),
             \/ rec = [x EXCEPT !.pc = "call", !.idx = NextTarget(r)] /\ x.pc = "backoff"
             \/ \E kind : rec = [x EXCEPT !.pc = "backoff", !.trail = Called(r, kind)] /\ x.pc = "call"
      PROVE  Origins'
  <2>1. x \in Records /\ x.pc \in {"call", "backoff"}
    BY <1>1, <1>4, Working
  <2>2. ASSUME NEW idx, rec = [x EXCEPT !.pc = "call", !.idx = idx]
        PROVE  rec.pc = "call" /\ rec.asked = x.asked /\ rec.req = x.req /\ rec.hit = x.hit
    BY <2>1, <2>2 DEF Records
  <2>3. ASSUME NEW t, rec = [x EXCEPT !.pc = "backoff", !.trail = t]
        PROVE  rec.pc = "backoff" /\ rec.asked = x.asked /\ rec.req = x.req /\ rec.hit = x.hit
    BY <2>1, <2>3 DEF Records
  <2>4. rec.pc \in {"call", "backoff"} /\ rec.asked = x.asked /\ rec.req = x.req /\ rec.hit = x.hit
    BY <1>4, <2>2, <2>3
  <2>5. Known(x) /\ KnownEntries(items')
    BY <1>1, <1>2, <2>1 DEF Origins
  <2>6. Known(rec)
    BY <2>1, <2>4, <2>5, KnownOn
  <2> QED
    BY <1>4, <2>5, <2>6, OriginStep
<1> QED
  BY <1>1, <1>3, <1>4 DEF Wake, Cancelled, ResolveFails, Answer, UpstreamFails, FailWith

LEMMA OriginsBegin ==
    ASSUME HandlersInv, Origins, NEW r \in Handlers, NEW q \in Requests, NEW s \in Summaries \cup {NoSummary},
           Begin(r, q, s)
    PROVE  Origins'
<1>1. PICK rec : rec = [Idle EXCEPT !.pc = IF q.kind = "complete" THEN "lookup" ELSE "resolve",
                                    !.asked = q, !.req = [q EXCEPT !.msgs = Apply(@, s)]]
  OBVIOUS
<1>2. Step(r, rec) /\ items' = items
  BY <1>1 DEF Begin, cacheVars
<1>3. /\ rec.pc \in {"lookup", "resolve"} /\ rec.asked = q /\ rec.hit = "none"
      /\ rec.req = [q EXCEPT !.msgs = Apply(@, s)]
  BY <1>1 DEF Idle
<1>4. Known(rec) /\ KnownEntries(items')
  BY <1>2, <1>3 DEF Known, Origins
<1> QED
  BY <1>2, <1>4, OriginStep

LEMMA OriginsObserve ==
    ASSUME HandlersInv, Origins, NEW r \in Handlers, Observe(r)
    PROVE  Origins'
<1>1. PICK x : x = h[r]
  OBVIOUS
<1>2. PICK rec : rec = [x EXCEPT !.pc = "put"]
  OBVIOUS
<1>3. x.pc = "done" /\ items' = items /\ (Step(r, Idle) \/ Step(r, rec))
  BY <1>1, <1>2 DEF Observe, cacheVars
<1>4. /\ rec.asked = x.asked /\ rec.req = x.req /\ rec.hit = x.hit
      /\ rec.resp = x.resp /\ rec.tools = x.tools
  BY <1>1, <1>2, <1>3, Working DEF Records
<1>5. Known(x) /\ KnownEntries(items')
  BY <1>1, <1>3 DEF Origins
<1>6. Known(rec)
  <2>1. x.resp.asked = x.asked /\ (x.tools = 0 => x.resp.tools = 0)
    BY <1>3, <1>5 DEF Known
  <2> QED
    BY <1>3, <1>4, <1>5, <2>1, KnownOn
<1> QED
  BY <1>3, <1>5, <1>6, OriginStep, OriginsEnd

LEMMA OriginsPut ==
    ASSUME HandlersInv, Origins, NEW r \in Handlers, Put(r)
    PROVE  Origins'
<1>1. PICK x : x = h[r]
  OBVIOUS
<1>2. PICK resp : resp = [x.resp EXCEPT !.born = clock]
  OBVIOUS
<1>3. PICK rec : rec = [x EXCEPT !.pc = "answer"]
  OBVIOUS
<1>4. PICK k : k = KeyOf(x.req)
  OBVIOUS
<1>5. /\ x.pc = "put" /\ Step(r, rec)
      /\ (x.tools = 0 /\ PutEntry(k, resp)) \/ UNCHANGED cacheVars
  BY <1>1, <1>2, <1>3, <1>4 DEF Put, Cacheable
<1>6. x \in Records /\ x.resp \in Responses
  BY <1>1, <1>5, Working DEF Placed
<1>7. rec.asked = x.asked /\ rec.req = x.req /\ rec.hit = x.hit /\ rec.pc = "answer"
  BY <1>3, <1>6 DEF Records
<1>8. Known(x) /\ KnownEntries(items)
  BY <1>1, <1>5 DEF Origins
<1>9. Known(rec)
  BY <1>5, <1>7, <1>8, KnownOn
<1>10. KnownEntries(items')
  <2>1. CASE UNCHANGED cacheVars
    BY <1>8, <2>1 DEF cacheVars
  <2>2. CASE x.tools = 0 /\ PutEntry(k, resp)
    <3>1. resp.asked = x.asked /\ resp.tools = 0
      <4>1. resp.asked = x.resp.asked /\ resp.tools = x.resp.tools
        BY <1>2, <1>6 DEF Responses
      <4> QED
        BY <1>5, <1>8, <2>2, <4>1 DEF Known
    <3>2. Makes(x.asked, k)
      BY <1>4, <1>8 DEF Known, Makes
    <3>3. PICK all : all = [j \in DOMAIN items \cup {k} |->
                               IF j = k THEN [resp |-> resp, expires |-> clock + TTL] ELSE items[j]]
      OBVIOUS
    <3>4. PICK gone : gone = IF Cardinality(DOMAIN all) - MaxEntries > 0
                             THEN Cardinality(DOMAIN all) - MaxEntries ELSE 0
      OBVIOUS
    <3>5. PICK E : E = DOMAIN all \ ToSet(SubSeq(OrderedBy(k), 1, gone))
      OBVIOUS
    <3>6. items' = [j \in E |-> all[j]] /\ E \subseteq DOMAIN all
      BY <2>2, <3>3, <3>4, <3>5 DEF PutEntry
    <3>7. ASSUME NEW j \in DOMAIN all  PROVE Makes(all[j].resp.asked, j) /\ all[j].resp.tools = 0
      <4>1. CASE j = k
        BY <3>1, <3>2, <3>3, <4>1
      <4>2. CASE j # k
        BY <1>8, <3>3, <4>2 DEF KnownEntries
      <4> QED
        BY <4>1, <4>2
    <3> QED
      BY <3>6, <3>7 DEF KnownEntries
  <2> QED
    BY <1>5, <2>1, <2>2
<1> QED
  BY <1>5, <1>9, <1>10, OriginStep

LEMMA OriginsHit ==
    ASSUME NotesAreTheGateways, HandlersInv, CacheInv, Origins, NEW r \in Handlers, NEW k \in DOMAIN items,
           NEW how \in {"exact", "close"}, Hit(r, k, how)
    PROVE  Origins'
<1>1. PICK x : x = h[r]
  OBVIOUS
<1>2. PICK resp : resp = items[k].resp
  OBVIOUS
<1>3. PICK rec : rec = [x EXCEPT !.pc = "answer", !.resp = resp, !.hit = how, !.at = clock]
  OBVIOUS
<1>4. x.pc = "lookup" /\ k \in Found(x.req, how) /\ Step(r, rec) /\ items' = items
  BY <1>1, <1>2, <1>3 DEF Hit, cacheVars
<1>5. /\ rec.asked = x.asked /\ rec.req = x.req /\ rec.hit = how /\ rec.pc = "answer"
      /\ rec.resp = resp /\ rec.at = clock
  BY <1>1, <1>3, <1>4, Working DEF Records
<1>6. Known(x) /\ KnownEntries(items')
  BY <1>1, <1>4 DEF Origins
<1>7. /\ resp \in Responses /\ items[k].expires = resp.born + TTL
      /\ Makes(resp.asked, k) /\ resp.tools = 0
  BY <1>2 DEF CacheInv, Entries, Origins, KnownEntries
<1>8. clock \in Nat /\ TTL \in Nat /\ resp.born \in Nat /\ resp.asked \in Requests
  BY <1>7, GatewayAssumption DEF CacheInv, Responses
<1>9. PICK a \in Requests : a = x.asked
  BY <1>6 DEF Known
<1>10. PICK b \in Requests : b = resp.asked
  BY <1>8
<1>11. PICK s \in Summaries \cup {NoSummary} : x.req = [a EXCEPT !.msgs = Apply(@, s)]
  BY <1>6, <1>9 DEF Known
<1>12. PICK t \in Summaries \cup {NoSummary} : k = KeyOf([b EXCEPT !.msgs = Apply(@, t)])
  BY <1>7, <1>10 DEF Makes
<1>13. PICK c : c = [b EXCEPT !.msgs = Apply(@, t)]
  OBVIOUS
<1>14. /\ x.req.model = a.model /\ x.req.msgs = Apply(a.msgs, s)
       /\ KeyOf(x.req).model = a.model /\ KeyOf(x.req).msgs = Normalized(Apply(a.msgs, s))
       /\ KeyOf(x.req).temperature = a.temperature
       /\ FinalUser(KeyOf(x.req)) \in {Empty, FinalUser(KeyOf(a))}
       /\ FinalUser(KeyOf(a)) = Normal[FinalUser(a)]
  <2>1. PICK q : q = x.req
    OBVIOUS
  <2>2. /\ q.model = a.model /\ q.msgs = Apply(a.msgs, s) /\ KeyOf(q).model = a.model
        /\ KeyOf(q).temperature = a.temperature /\ KeyOf(q).msgs = Normalized(q.msgs)
        /\ FinalUser(KeyOf(q)) \in {Empty, FinalUser(KeyOf(a))}
        /\ FinalUser(KeyOf(a)) = Normal[FinalUser(a)]
    BY <1>11, <2>1, KeyIs
  <2> QED
    BY <2>1, <2>2
<1>15. /\ k.model = b.model /\ k.msgs = Normalized(Apply(b.msgs, t)) /\ k.temperature = b.temperature
       /\ FinalUser(k) \in {Empty, FinalUser(KeyOf(b))} /\ FinalUser(KeyOf(b)) = Normal[FinalUser(b)]
  <2>1. /\ c.msgs = Apply(b.msgs, t) /\ KeyOf(c).model = b.model /\ KeyOf(c).temperature = b.temperature
        /\ KeyOf(c).msgs = Normalized(c.msgs) /\ FinalUser(KeyOf(c)) \in {Empty, FinalUser(KeyOf(b))}
        /\ FinalUser(KeyOf(b)) = Normal[FinalUser(b)]
    BY <1>13, KeyIs
  <2> QED
    BY <1>12, <1>13, <2>1
<1>16. ASSUME how = "exact"  PROVE Answers(rec)
  <2>1. k = KeyOf(x.req) /\ clock < items[k].expires
    BY <1>4, <1>16 DEF Found, Exact
  <2>2. a.msgs \in Seq(Messages) /\ b.msgs \in Seq(Messages) /\ Own(a.msgs) /\ Own(b.msgs)
    BY GatewayAssumption DEF NotesAreTheGateways
  <2>3. /\ b.model = a.model /\ b.temperature = a.temperature
        /\ Normalized(Apply(b.msgs, t)) = Normalized(Apply(a.msgs, s))
    BY <1>14, <1>15, <2>1
  <2>4. SameView(b.msgs, a.msgs)
    BY <2>2, <2>3, SameKey
  <2>5. clock <= resp.born + TTL
    BY <1>7, <1>8, <2>1
  <2> QED
    BY <1>5, <1>7, <1>9, <1>10, <1>16, <2>3, <2>4, <2>5 DEF Answers
<1>17. ASSUME how = "close"  PROVE Answers(rec)
  <2>1. k \in Candidates(x.req)
    BY <1>4, <1>17 DEF Found, Closest
  <2>2. k.model = x.req.model /\ clock <= items[k].expires /\ Similarity(x.req, k) >= Threshold
    BY <2>1 DEF Candidates
  <2>3. PICK v \in Texts : v = FinalUser(KeyOf(a))
    BY <1>14, FinalTypes, GatewayAssumption
  <2>4. PICK w \in Texts : w = FinalUser(KeyOf(b))
    BY <1>15, FinalTypes, GatewayAssumption
  <2>5. Similarity(x.req, k) # 0
    <3>1. Threshold # 0 /\ Threshold \in Nat
      BY <1>4, <1>17, GatewayAssumption DEF Found
    <3> QED
      BY <2>2, <3>1
  <2>6. FinalUser(KeyOf(x.req)) # Empty /\ FinalUser(k) # Empty
    <3>1. \A u \in Texts : Sim[Empty][u] = 0 /\ Sim[u][Empty] = 0
      BY GatewayAssumption
    <3>2. FinalUser(KeyOf(x.req)) \in {Empty, v} /\ FinalUser(k) \in {Empty, w} /\ Empty \in Texts
      BY <1>14, <1>15, <2>3, <2>4, CompressAssumption
    <3>3. Similarity(x.req, k) = Sim[FinalUser(KeyOf(x.req))][FinalUser(k)]
      BY DEF Similarity
    <3> QED
      BY <2>5, <3>1, <3>2, <3>3
  <2>7. FinalUser(KeyOf(x.req)) = FinalUser(KeyOf(a)) /\ FinalUser(k) = FinalUser(KeyOf(b))
    BY <1>14, <1>15, <2>6
  <2>8. Similarity(a, KeyOf(b)) = Similarity(x.req, k)
    BY <2>7 DEF Similarity
  <2>9. FinalUser(a) # Empty
    <3>1. Normal[Empty] = Empty
      BY GatewayAssumption
    <3> QED
      BY <1>14, <2>6, <2>7, <3>1
  <2> QED
    BY <1>5, <1>7, <1>8, <1>9, <1>10, <1>14, <1>15, <1>17, <2>2, <2>8, <2>9 DEF Answers
<1>18. Answers(rec)
  BY <1>16, <1>17
<1>19. Known(rec)
  BY <1>5, <1>6, <1>18 DEF Known
<1> QED
  BY <1>4, <1>6, <1>19, OriginStep

(* A cache hit is of the same model, came from a run without tools, and is *)
(* not older than ttl_seconds; an exact hit has the temperature of the     *)
(* request, and system messages and last keep_recent_turns messages of the *)
(* same roles and normalized texts; a close one has a final message of the *)
(* user's that is similar enough.  So it is whatever is stored and evicted *)
(* meanwhile, and whatever else the messages and the requests carry, which *)
(* the key leaves out: an answer to other images or other tool calls is a  *)
(* hit too.  Clients must not write the gateway's notes themselves: the    *)
(* prompt of one that did is that of another whose messages were omitted.  *)
THEOREM HitAnswersRequestHolds ==
    ASSUME NotesAreTheGateways
    PROVE  Spec => []HitAnswersRequest
<1>1. Init => Origins
  BY DEF Init, Origins, Idle, KnownEntries
<1>2. HandlersInv /\ CacheInv /\ Origins /\ [Next]_vars => Origins'
  <2> SUFFICES ASSUME HandlersInv, CacheInv, Origins, [Next]_vars
               PROVE  Origins'
    OBVIOUS
  <2>1. UNCHANGED <<h, cacheVars>> => Origins'
    BY DEF cacheVars, Origins, KnownEntries
  <2>2. ASSUME NEW r \in Handlers, NEW q \in Requests, NEW s \in Summaries \cup {NoSummary}, Begin(r, q, s)
        PROVE  Origins'
    BY <2>2, OriginsBegin
  <2>3. ASSUME NEW r \in Handlers, Deny(r)  PROVE Origins'
    BY <2>1, <2>3 DEF Deny
  <2>4. ASSUME NEW r \in Handlers, Leave(r) \/ Miss(r) \/ Resolve(r)  PROVE Origins'
    <3>1. items' = items
      BY <2>4 DEF Leave, Miss, Resolve, cacheVars
    <3> QED
      BY <2>4, <3>1, OriginsOn
  <2>5. ASSUME NEW r \in Handlers, Wake(r) \/ Cancelled(r) \/ ResolveFails(r) \/ Answer(r)  PROVE Origins'
    BY <2>5, OriginsBackoff
  <2>6. ASSUME NEW r \in Handlers, Put(r)  PROVE Origins'
    BY <2>6, OriginsPut
  <2>7. ASSUME NEW r \in Handlers, Observe(r)  PROVE Origins'
    BY <2>7, OriginsObserve
  <2>8. ASSUME NEW r \in Handlers, NEW k \in DOMAIN items, NEW how \in {"exact", "close"}, Hit(r, k, how)
        PROVE  Origins'
    BY <2>8, OriginsHit
  <2>9. ASSUME NEW r \in Handlers, NEW n \in CallCounts, Reply(r, n)  PROVE Origins'
    <3>1. items' = items
      BY <2>9 DEF Reply, cacheVars
    <3> QED
      BY <2>9, <3>1, OriginsOn
  <2>10. ASSUME NEW r \in Handlers, NEW kind \in {"retry", "terminal"}, UpstreamFails(r, kind)
         PROVE  Origins'
    BY <2>10, OriginsBackoff
  <2>11. ASSUME NEW r \in Handlers, ToolResult(r) \/ StreamWrite(r) \/ StreamEnd(r)  PROVE Origins'
    <3>1. items' = items
      BY <2>11 DEF ToolResult, StreamWrite, StreamEnd, cacheVars
    <3> QED
      BY <2>11, <3>1, OriginsOn
  <2>12. CASE Tick
    BY <2>1, <2>12 DEF Tick
  <2>13. CASE UNCHANGED vars
    BY <2>1, <2>13 DEF vars
  <2> QED
    BY <2>2, <2>3, <2>4, <2>5, <2>6, <2>7, <2>8, <2>9, <2>10, <2>11, <2>12, <2>13 DEF Next
<1>3. HandlersInv /\ Origins => HitAnswersRequest
  <2> SUFFICES ASSUME HandlersInv, Origins, NEW r \in Handlers, h[r].hit # "none"
               PROVE  Answers(h[r])
    BY DEF HitAnswersRequest, Answers
  <2>1. h[r].pc # "idle"
    BY DEF HandlersInv, Sound, Idle
  <2> QED
    BY <2>1 DEF Origins, Known
<1>4. PipelineInv => HandlersInv /\ CacheInv
  BY DEF PipelineInv
<1> QED
  BY <1>1, <1>2, <1>3, <1>4, PipelineHolds, PTL DEF Spec

=============================================================================
