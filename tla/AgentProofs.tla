---------------------------- MODULE AgentProofs ----------------------------
(* Theorems of Agent, for any replies, goals and bounds, and of Terminal,  *)
(* the other half of a session, for any commands and sizes.                *)
EXTENDS Agent, FunctionTheorems, SequenceTheorems, WellFoundedInduction, TLAPS

-----------------------------------------------------------------------------
(* The loops over a sequence.                                              *)

(* A set of numbers has a least one. *)
LEMMA Least ==
    ASSUME NEW T \in SUBSET Nat, T # {}
    PROVE  \E n \in T : \A m \in T : n <= m
<1> DEFINE R == OpToRel(<, Nat)
<1>1. \A m, n \in Nat : m < n => <<m, n>> \in R
  BY DEF OpToRel
<1>2. IsWellFoundedOn(R, Nat)
  BY NatLessThanWellFounded
<1> HIDE DEF R
<1>3. PICK n \in T : \A m \in T : ~(<<m, n>> \in R)
  BY <1>2, WFMin
<1>4. \A m \in T : m \in Nat /\ n \in Nat /\ ~(m < n)
  BY <1>1, <1>3
<1>5. \A m \in T : n <= m
  BY <1>4
<1> QED
  BY <1>5

(* What Collected's loop has after i elements, when f has what it had      *)
(* after any fewer; and what such an f is up to n.                         *)
Collect(s, K, f, i) ==
    IF i = 0 THEN <<>> ELSE IF i \in K THEN Append(f[i - 1], s[i]) ELSE f[i - 1]

Loop(S, s, K, n, f) ==
    f \in [0 .. n -> Seq(S)] /\ \A i \in 0 .. n : f[i] = Collect(s, K, f, i)

LEMMA CollectType ==
    ASSUME NEW S, NEW s \in Seq(S), NEW K, NEW i \in 0 .. Len(s),
           NEW f, i # 0 => f[i - 1] \in Seq(S)
    PROVE  Collect(s, K, f, i) \in Seq(S)
<1>1. CASE i = 0
  BY <1>1, EmptySeq DEF Collect
<1>2. CASE i # 0
  <2>1. f[i - 1] \in Seq(S)
    BY <1>2
  <2>2. i \in 1 .. Len(s)
    BY <1>2, LenProperties
  <2>3. s[i] \in S
    BY <2>2, ElementOfSeq
  <2>4. Append(f[i - 1], s[i]) \in Seq(S)
    BY <2>1, <2>3, AppendProperties
  <2> QED
    BY <1>2, <2>1, <2>4 DEF Collect
<1> QED
  BY <1>1, <1>2

(* It goes on to the end: the least length it does not reach would follow  *)
(* one it does.                                                            *)
LEMMA LoopExists ==
    ASSUME NEW S, NEW s \in Seq(S), NEW K
    PROVE  \E f : Loop(S, s, K, Len(s), f)
<1> DEFINE Bad == {n \in 0 .. Len(s) : ~\E f : Loop(S, s, K, n, f)}
<1>1. Len(s) \in Nat
  BY LenProperties
<1>2. SUFFICES ASSUME Bad # {}
               PROVE  FALSE
  BY <1>1
<1>3. PICK n \in Bad : \A m \in Bad : n <= m
  <2>1. Bad \in SUBSET Nat
    BY <1>1
  <2> HIDE DEF Bad
  <2> QED
    BY <1>2, <2>1, Least
<1>4. n \in 0 .. Len(s) /\ n \in Nat /\ ~\E f : Loop(S, s, K, n, f)
  BY <1>1
<1>5. CASE n = 0
  <2>1. PICK f : f = [i \in 0 .. 0 |-> <<>>]
    OBVIOUS
  <2>2. f \in [0 .. 0 -> Seq(S)] /\ \A i \in 0 .. 0 : f[i] = Collect(s, K, f, i)
    BY <2>1, EmptySeq DEF Collect
  <2> QED
    BY <1>4, <1>5, <2>2 DEF Loop
<1>6. CASE n # 0
  <2>1. n - 1 \in 0 .. Len(s) /\ ~(n <= n - 1)
    BY <1>1, <1>4, <1>6
  <2>2. n - 1 \notin Bad
    BY <1>3, <2>1
  <2>3. PICK f : Loop(S, s, K, n - 1, f)
    BY <2>1, <2>2
  <2>4. PICK g : g = [i \in 0 .. n |-> IF i = n THEN Collect(s, K, f, n) ELSE f[i]]
    OBVIOUS
  <2>5. \A i \in 0 .. n - 1 : g[i] = f[i] /\ f[i] \in Seq(S) /\ f[i] = Collect(s, K, f, i)
    BY <1>4, <2>3, <2>4 DEF Loop
  <2>6. g[n] = Collect(s, K, f, n)
    BY <1>4, <2>4
  <2>7. \A i \in 0 .. n : Collect(s, K, g, i) = Collect(s, K, f, i)
    BY <1>4, <1>6, <2>5 DEF Collect
  <2>8. Collect(s, K, f, n) \in Seq(S)
    <3>1. n - 1 \in 0 .. n - 1
      BY <1>4, <1>6
    <3>2. f[n - 1] \in Seq(S)
      BY <2>5, <3>1
    <3> QED
      BY <1>4, <3>2, CollectType
  <2>9. ASSUME NEW i \in 0 .. n
        PROVE  g[i] \in Seq(S) /\ g[i] = Collect(s, K, g, i)
    <3>1. CASE i = n
      BY <2>6, <2>7, <2>8, <3>1
    <3>2. CASE i # n
      <4>1. i \in 0 .. n - 1
        BY <1>4, <3>2
      <4> QED
        BY <2>5, <2>7, <4>1
    <3> QED
      BY <3>1, <3>2
  <2>10. g \in [0 .. n -> Seq(S)]
    BY <2>4, <2>9
  <2>11. Loop(S, s, K, n, g)
    BY <2>9, <2>10 DEF Loop
  <2> QED
    BY <1>4, <2>11
<1> QED
  BY <1>5, <1>6

(* So Collected returns what the loop has at the end. *)
LEMMA CollectedIs ==
    ASSUME NEW S, NEW s \in Seq(S), NEW K
    PROVE  \E f : Loop(S, s, K, Len(s), f) /\ Collected(s, K) = f[Len(s)]
<1> DEFINE n == Len(s)
           Is(f) == f = [i \in 0 .. n |-> IF i = 0 THEN <<>>
                                          ELSE IF i \in K THEN Append(f[i - 1], s[i])
                                          ELSE f[i - 1]]
           list == CHOOSE f : Is(f)
           Bad == {i \in 0 .. n : list[i] \notin Seq(S)}
<1>1. Collected(s, K) = list[n]
  BY DEF Collected
<1>2. n \in Nat
  BY LenProperties
<1>3. Is(list)
  <2>1. PICK f : Loop(S, s, K, n, f)
    BY LoopExists
  <2>2. f = [i \in 0 .. n |-> f[i]] /\ \A i \in 0 .. n : f[i] = Collect(s, K, f, i)
    BY <2>1 DEF Loop
  <2>3. f = [i \in 0 .. n |-> Collect(s, K, f, i)]
    BY <2>2
  <2>4. Is(f)
    BY <2>3 DEF Collect
  <2> HIDE DEF Is
  <2> QED
    BY <2>4
<1>4. list = [i \in 0 .. n |-> Collect(s, K, list, i)]
  <2> HIDE DEF list
  <2> QED
    BY <1>3 DEF Collect
<1> HIDE DEF list
<1>5. \A i \in 0 .. n : list[i] = Collect(s, K, list, i)
  BY <1>4
<1>6. Bad = {}
  <2>1. SUFFICES ASSUME Bad # {}
                 PROVE  FALSE
    OBVIOUS
  <2>2. PICK i \in Bad : \A j \in Bad : i <= j
    <3>1. Bad \in SUBSET Nat
      BY <1>2
    <3> HIDE DEF Bad
    <3> QED
      BY <2>1, <3>1, Least
  <2>3. i \in 0 .. n /\ list[i] \notin Seq(S)
    OBVIOUS
  <2>4. i # 0 => list[i - 1] \in Seq(S)
    <3>1. i # 0 => i - 1 \in 0 .. n /\ ~(i <= i - 1)
      BY <1>2, <2>3
    <3> QED
      BY <2>2, <3>1
  <2>5. Collect(s, K, list, i) \in Seq(S)
    BY <2>3, <2>4, CollectType
  <2> QED
    BY <1>5, <2>3, <2>5
<1>7. list \in [0 .. n -> Seq(S)]
  BY <1>4, <1>6
<1> QED
  BY <1>1, <1>5, <1>7 DEF Loop

LEMMA CollectedType ==
    ASSUME NEW S, NEW s \in Seq(S), NEW K
    PROVE  Collected(s, K) \in Seq(S)
<1>1. PICK f : Loop(S, s, K, Len(s), f) /\ Collected(s, K) = f[Len(s)]
  BY CollectedIs
<1>2. Len(s) \in 0 .. Len(s)
  BY LenProperties
<1> QED
  BY <1>1, <1>2 DEF Loop

(* c lists the elements of s at the indexes in K, in order: c[k] is the    *)
(* one at[k] points to.                                                    *)
Lists(s, K, c, at) ==
    /\ K \subseteq Nat /\ Len(c) \in Nat
    /\ at \in [1 .. Len(c) -> K]
    /\ \A j, k \in 1 .. Len(c) : j < k => at[j] < at[k]
    /\ \A i \in K : \E k \in 1 .. Len(c) : at[k] = i
    /\ \A k \in 1 .. Len(c) : c[k] = s[at[k]]

LEMMA ListsNone ==
    ASSUME NEW s
    PROVE  \E at : Lists(s, {}, <<>>, at)
<1>1. PICK at : at = [k \in 1 .. 0 |-> 0]
  OBVIOUS
<1>2. Len(<<>>) = 0 /\ 1 .. 0 = {}
  BY EmptySeq
<1>3. at \in [1 .. Len(<<>>) -> {}]
  BY <1>1, <1>2
<1> QED
  BY <1>2, <1>3 DEF Lists

LEMMA ListsOneMore ==
    ASSUME NEW S, NEW s, NEW c \in Seq(S), NEW i \in Nat, NEW K, K \subseteq 0 .. i - 1,
           NEW at, Lists(s, K, c, at), s[i] \in S
    PROVE  \E new : Lists(s, K \cup {i}, Append(c, s[i]), new)
<1> DEFINE d == Append(c, s[i])
           n == Len(c)
<1>1. n \in Nat /\ Len(d) = n + 1 /\ d[n + 1] = s[i] /\ \A k \in 1 .. n : d[k] = c[k]
  BY AppendProperties, LenProperties
<1>2. PICK new : new = [k \in 1 .. n + 1 |-> IF k = n + 1 THEN i ELSE at[k]]
  OBVIOUS
<1>3. new[n + 1] = i /\ \A k \in 1 .. n : new[k] = at[k] /\ at[k] \in K
  BY <1>1, <1>2 DEF Lists
<1>4. \A k \in 1 .. n + 1 : k = n + 1 \/ k \in 1 .. n
  BY <1>1
<1> HIDE DEF d, n
<1>5. new \in [1 .. n + 1 -> K \cup {i}]
  BY <1>2, <1>3, <1>4
<1>6. ASSUME NEW j \in 1 .. n + 1, NEW k \in 1 .. n + 1, j < k
      PROVE  new[j] < new[k]
  <2>1. j \in 1 .. n
    BY <1>1, <1>6
  <2>2. CASE k \in 1 .. n
    <3>1. at[j] < at[k]
      BY <1>6, <2>1, <2>2 DEF Lists, n
    <3> QED
      BY <1>3, <2>1, <2>2, <3>1
  <2>3. CASE k = n + 1
    <3>1. new[k] = i /\ new[j] \in 0 .. i - 1
      BY <1>3, <2>1, <2>3
    <3> QED
      BY <3>1
  <2> QED
    BY <1>4, <2>2, <2>3
<1>7. ASSUME NEW x \in K \cup {i}
      PROVE  \E k \in 1 .. n + 1 : new[k] = x
  <2>1. CASE x = i
    BY <1>1, <1>3, <2>1
  <2>2. CASE x \in K
    <3>1. PICK k \in 1 .. n : at[k] = x
      BY <2>2 DEF Lists, n
    <3> QED
      BY <1>1, <1>3, <3>1
  <2> QED
    BY <2>1, <2>2
<1>8. ASSUME NEW k \in 1 .. n + 1
      PROVE  d[k] = s[new[k]]
  <2>1. CASE k \in 1 .. n
    BY <1>1, <1>3, <2>1 DEF Lists, n
  <2>2. CASE k = n + 1
    BY <1>1, <1>3, <2>2
  <2> QED
    BY <1>4, <2>1, <2>2
<1>9. Lists(s, K \cup {i}, d, new)
  BY <1>1, <1>5, <1>6, <1>7, <1>8 DEF Lists
<1> QED
  BY <1>9 DEF d

LEMMA CollectedLists ==
    ASSUME NEW S, NEW s \in Seq(S), NEW K \in SUBSET (1 .. Len(s))
    PROVE  \E at : Lists(s, K, Collected(s, K), at)
<1> DEFINE n == Len(s)
           Upto(i) == K \cap (1 .. i)
<1>1. PICK f : Loop(S, s, K, n, f) /\ Collected(s, K) = f[n]
  BY CollectedIs
<1>2. n \in Nat /\ \A i \in 1 .. n : s[i] \in S
  BY LenProperties, ElementOfSeq
<1>3. \A i \in 0 .. n : f[i] \in Seq(S) /\ f[i] = Collect(s, K, f, i)
  BY <1>1 DEF Loop
<1> DEFINE Bad == {i \in 0 .. n : ~\E at : Lists(s, Upto(i), f[i], at)}
<1>4. Bad = {}
  <2>1. SUFFICES ASSUME Bad # {}
                 PROVE  FALSE
    OBVIOUS
  <2>2. PICK i \in Bad : \A j \in Bad : i <= j
    <3>1. Bad \in SUBSET Nat
      BY <1>2
    <3> HIDE DEF Bad
    <3> QED
      BY <2>1, <3>1, Least
  <2>3. i \in 0 .. n /\ ~\E at : Lists(s, Upto(i), f[i], at)
    OBVIOUS
  <2>4. CASE i = 0
    <3>1. f[i] = <<>> /\ Upto(i) = {}
      BY <1>3, <2>3, <2>4 DEF Collect
    <3> QED
      BY <2>3, <3>1, ListsNone
  <2>5. CASE i # 0
    <3>1. i - 1 \in 0 .. n /\ ~(i <= i - 1) /\ i \in 1 .. n /\ i \in Nat
      BY <1>2, <2>3, <2>5
    <3>2. i - 1 \notin Bad
      BY <2>2, <3>1
    <3>3. PICK at : Lists(s, Upto(i - 1), f[i - 1], at)
      BY <3>1, <3>2
    <3>4. CASE i \in K
      <4>1. f[i] = Append(f[i - 1], s[i])
        BY <1>3, <2>3, <2>5, <3>4 DEF Collect
      <4>2. Upto(i) = Upto(i - 1) \cup {i} /\ Upto(i - 1) \subseteq 0 .. i - 1
        BY <3>1, <3>4
      <4>3. f[i - 1] \in Seq(S) /\ s[i] \in S
        BY <1>2, <1>3, <3>1
      <4> HIDE DEF Upto
      <4>4. \E new : Lists(s, Upto(i - 1) \cup {i}, Append(f[i - 1], s[i]), new)
        BY <3>1, <3>3, <4>2, <4>3, ListsOneMore
      <4> QED
        BY <2>3, <4>1, <4>2, <4>4
    <3>5. CASE i \notin K
      <4>1. f[i] = f[i - 1]
        BY <1>3, <2>3, <2>5, <3>5 DEF Collect
      <4>2. Upto(i) = Upto(i - 1)
        BY <3>1, <3>5
      <4> QED
        BY <2>3, <3>3, <4>1, <4>2
    <3> QED
      BY <3>4, <3>5
  <2> QED
    BY <2>4, <2>5
<1>5. Upto(n) = K
  BY <1>2
<1>6. n \in 0 .. n
  BY <1>2
<1>7. \E at : Lists(s, Upto(n), f[n], at)
  BY <1>4, <1>6
<1> QED
  BY <1>1, <1>5, <1>7

(* What is not in one list is in the other. *)
LEMMA CollectedLen ==
    ASSUME NEW S, NEW s \in Seq(S), NEW K, NEW L, \A i \in 1 .. Len(s) : i \in K <=> i \notin L
    PROVE  Len(Collected(s, K)) + Len(Collected(s, L)) = Len(s)
<1> DEFINE n == Len(s)
<1>1. PICK f : Loop(S, s, K, n, f) /\ Collected(s, K) = f[n]
  BY CollectedIs
<1>2. PICK g : Loop(S, s, L, n, g) /\ Collected(s, L) = g[n]
  BY CollectedIs
<1>3. n \in Nat /\ \A i \in 1 .. n : s[i] \in S
  BY LenProperties, ElementOfSeq
<1>4. \A i \in 0 .. n : /\ f[i] \in Seq(S) /\ f[i] = Collect(s, K, f, i)
                        /\ g[i] \in Seq(S) /\ g[i] = Collect(s, L, g, i)
  BY <1>1, <1>2 DEF Loop
<1> DEFINE Whole(i) == Len(f[i]) + Len(g[i]) = i
           Bad == {i \in 0 .. n : ~Whole(i)}
<1>5. Bad = {}
  <2>1. SUFFICES ASSUME Bad # {}
                 PROVE  FALSE
    OBVIOUS
  <2>2. PICK i \in Bad : \A j \in Bad : i <= j
    <3> HIDE DEF n, Whole
    <3>1. Bad \in SUBSET Nat
      BY <1>3
    <3> HIDE DEF Bad
    <3> QED
      BY <2>1, <3>1, Least
  <2>3. i \in 0 .. n /\ Len(f[i]) + Len(g[i]) # i
    OBVIOUS
  <2>4. CASE i = 0
    <3>1. f[i] = <<>> /\ g[i] = <<>>
      BY <1>4, <2>3, <2>4 DEF Collect
    <3> QED
      BY <2>3, <2>4, <3>1, EmptySeq
  <2>5. CASE i # 0
    <3>1. i - 1 \in 0 .. n /\ ~(i <= i - 1) /\ i \in 1 .. n /\ i \in Nat
      BY <1>3, <2>3, <2>5
    <3>2. Len(f[i - 1]) + Len(g[i - 1]) = i - 1
      BY <2>2, <3>1
    <3>3. /\ f[i - 1] \in Seq(S) /\ g[i - 1] \in Seq(S) /\ s[i] \in S
          /\ Len(f[i - 1]) \in Nat /\ Len(g[i - 1]) \in Nat
      BY <1>3, <1>4, <3>1, LenProperties
    <3>4. /\ Len(Append(f[i - 1], s[i])) = Len(f[i - 1]) + 1
          /\ Len(Append(g[i - 1], s[i])) = Len(g[i - 1]) + 1
      BY <3>3, AppendProperties
    <3>5. \/ f[i] = Append(f[i - 1], s[i]) /\ g[i] = g[i - 1]
          \/ f[i] = f[i - 1] /\ g[i] = Append(g[i - 1], s[i])
      BY <1>4, <2>5, <3>1 DEF Collect
    <3> DEFINE a == Len(f[i - 1])
               b == Len(g[i - 1])
    <3>6. a \in Nat /\ b \in Nat /\ a + b = i - 1
      BY <3>2, <3>3
    <3>7. CASE f[i] = Append(f[i - 1], s[i]) /\ g[i] = g[i - 1]
      <4>1. Len(f[i]) = a + 1 /\ Len(g[i]) = b
        BY <3>4, <3>7
      <4> HIDE DEF a, b
      <4>2. Len(f[i]) + Len(g[i]) = i
        BY <3>1, <3>6, <4>1
      <4> QED
        BY <2>3, <4>2
    <3>8. CASE f[i] = f[i - 1] /\ g[i] = Append(g[i - 1], s[i])
      <4>1. Len(f[i]) = a /\ Len(g[i]) = b + 1
        BY <3>4, <3>8
      <4> HIDE DEF a, b
      <4>2. Len(f[i]) + Len(g[i]) = i
        BY <3>1, <3>6, <4>1
      <4> QED
        BY <2>3, <4>2
    <3> QED
      BY <3>5, <3>7, <3>8
  <2> QED
    BY <2>4, <2>5
<1>6. n \in 0 .. n
  BY <1>3
<1>7. Len(f[n]) + Len(g[n]) = n
  BY <1>5, <1>6
<1> QED
  BY <1>1, <1>2, <1>7

(* A run of indexes that are all collected stays together. *)
LEMMA ListsTogether ==
    ASSUME NEW s, NEW c, NEW K, NEW at, Lists(s, K, c, at),
           NEW k \in 1 .. Len(c), NEW n \in Nat, at[k] + 1 .. at[k] + n \subseteq K
    PROVE  \A d \in 0 .. n : k + d <= Len(c) /\ at[k + d] = at[k] + d
<1> DEFINE Bad == {d \in 0 .. n : ~(k + d <= Len(c) /\ at[k + d] = at[k] + d)}
<1>1. SUFFICES ASSUME Bad # {}
               PROVE  FALSE
  OBVIOUS
<1>2. PICK d \in Bad : \A e \in Bad : d <= e
  <2>1. Bad \in SUBSET Nat
    OBVIOUS
  <2> HIDE DEF Bad
  <2> QED
    BY <1>1, <2>1, Least
<1>3. d \in 0 .. n /\ ~(k + d <= Len(c) /\ at[k + d] = at[k] + d)
  OBVIOUS
<1>4. Len(c) \in Nat /\ k \in Nat /\ at[k] \in Nat /\ \A j \in 1 .. Len(c) : at[j] \in Nat
  <2>1. Len(c) \in Nat /\ \A j \in 1 .. Len(c) : at[j] \in Nat
    BY DEF Lists
  <2> QED
    BY <2>1
<1>5. d # 0
  <2>1. k + 0 <= Len(c) /\ at[k + 0] = at[k] + 0
    BY <1>4
  <2> QED
    BY <1>3, <2>1
<1>6. d - 1 \in 0 .. n /\ ~(d <= d - 1) /\ d \in 1 .. n
  BY <1>3, <1>5
<1>7. k + (d - 1) <= Len(c) /\ at[k + (d - 1)] = at[k] + (d - 1)
  BY <1>2, <1>6
<1>8. PICK j \in 1 .. Len(c) : at[j] = at[k] + d
  <2>1. at[k] + d \in at[k] + 1 .. at[k] + n
    BY <1>4, <1>6
  <2> QED
    BY <2>1 DEF Lists
<1>9. k + (d - 1) \in 1 .. Len(c)
  BY <1>4, <1>6, <1>7
<1>10. j > k + (d - 1)
  <2>1. j # k + (d - 1)
    <3>1. at[k] + d # at[k] + (d - 1)
      BY <1>4, <1>6
    <3> QED
      BY <1>7, <1>8, <3>1
  <2>2. ASSUME j < k + (d - 1)  PROVE FALSE
    <3>1. at[j] < at[k + (d - 1)]
      BY <1>9, <2>2 DEF Lists
    <3> QED
      BY <1>4, <1>6, <1>7, <1>8, <3>1
  <2> QED
    BY <1>4, <1>6, <2>1, <2>2
<1>11. k + d \in 1 .. Len(c) /\ k + d <= j
  BY <1>4, <1>6, <1>10
<1>12. k + d = j
  <2>1. SUFFICES ASSUME k + d < j
                 PROVE  FALSE
    BY <1>4, <1>6, <1>11
  <2>2. at[k + (d - 1)] < at[k + d] /\ at[k + d] < at[j]
    <3>1. k + (d - 1) < k + d
      BY <1>4, <1>6
    <3> QED
      BY <1>9, <1>11, <2>1, <3>1 DEF Lists
  <2>3. at[k + d] \in Nat
    BY <1>4, <1>11
  <2> QED
    BY <1>4, <1>6, <1>7, <1>8, <2>2, <2>3
<1> QED
  BY <1>3, <1>8, <1>11, <1>12

-----------------------------------------------------------------------------
(* The inductive invariant.                                                *)

Prompts == [role : {"system"}, mode : Modes, goal : Goals \cup {NoGoal}]

(* ms begins with a prompt of mode m, and only system messages come before *)
(* a summary.                                                              *)
Prompted(ms, m) ==
    /\ Len(ms) > 0 /\ ms[1] \in Prompts /\ ms[1].mode = m
    /\ \A j \in 2 .. Len(ms) : ms[j] = Note("summary") => \A i \in 1 .. j - 1 : IsSystem(ms[i])

(* The calls of message a are answered by the results right behind it,     *)
(* within the first n messages.                                            *)
Answered(ms, a, n) ==
    /\ a + Len(ms[a].calls) <= n
    /\ \A k \in a + 1 .. a + Len(ms[a].calls) : ms[k].role = "tool"
    /\ ToSet(ms[a].calls) = {ms[k].call : k \in a + 1 .. a + Len(ms[a].calls)}

(* Only results between message j and message i, which is one itself. *)
Follows(ms, j, i) == \A k \in j + 1 .. i : ms[k].role = "tool"

(* Result i is the result of a call of message a, or stands behind the     *)
(* summary.                                                                *)
Belongs(ms, i) ==
    \/ \E a \in 1 .. i - 1 : ms[a].role = "assistant" /\ i <= a + Len(ms[a].calls)
    \/ \E j \in 2 .. i - 1 : ms[j] = Note("summary") /\ Follows(ms, j, i)

(* The first n messages, closed under calls and results. *)
Closed(ms, n) ==
    \A i \in 1 .. n :
        /\ ms[i].role = "assistant" => Answered(ms, i, n)
        /\ ms[i].role = "tool" => Belongs(ms, i)

(* Message a is the request the agent executes: what is not answered yet   *)
(* is pending.                                                             *)
Open(ms, a, calls) ==
    /\ ms[a].role = "assistant" /\ Closed(ms, a - 1)
    /\ Follows(ms, a, Len(ms))
    /\ ToSet(ms[a].calls) = {ms[k].call : k \in a + 1 .. Len(ms)} \cup {calls[k].id : k \in DOMAIN calls}
    /\ a + Len(ms[a].calls) = Len(ms) + Len(calls)

(* A conversation between turns, in mode m. *)
Settled(ms, m) == Prompted(ms, m) /\ Closed(ms, Len(ms))

IInv ==
    /\ TypeOK
    /\ pc # "off" => Prompted(messages, mode)
    /\ pc \in {"prompt", "model"} => Closed(messages, Len(messages))
    /\ pc \in {"tools", "ask"} => \E a \in DOMAIN messages : Open(messages, a, pending)
    /\ pc = "ask" => mode = "build" /\ pending # <<>>
    /\ saved # NoSession => Settled(saved.messages, saved.mode)
    /\ RequestInView

-----------------------------------------------------------------------------
(* Messages and conversations.                                             *)

LEMMA MessageKinds ==
    ASSUME NEW m \in Messages
    PROVE  /\ m.role = "assistant" => m.calls \in Seq(Nat) /\ Len(m.calls) \in Nat
           /\ m.role = "tool" => m.call \in Nat
           /\ m.role \in {"system", "user", "assistant", "tool"}
<1>1. m.role = "assistant" => m.calls \in Seq(Nat)
  BY DEF Messages
<1>2. m.role = "tool" => m.call \in Nat
  BY DEF Messages
<1>3. m.role \in {"system", "user", "assistant", "tool"}
  BY DEF Messages
<1> QED
  BY <1>1, <1>2, <1>3, LenProperties

LEMMA PromptIsNoSummary ==
    ASSUME NEW m \in Prompts
    PROVE  m # Note("summary") /\ m.role = "system" /\ m \in Messages
<1>1. m.role = "system" /\ m \in Messages
  BY DEF Prompts, Messages
<1>2. "mode" \in DOMAIN m
  BY DEF Prompts
<1>3. "mode" \notin DOMAIN Note("summary")
  BY DEF Note
<1> QED
  BY <1>1, <1>2, <1>3

LEMMA NewMessages ==
    /\ \A m \in Modes, g \in Goals \cup {NoGoal} : Prompt(m, g) \in Prompts /\ Prompt(m, g).mode = m
    /\ \A w \in {"summary", "skill"} : Note(w) \in Messages /\ Note(w).role = "system"
    /\ \A n \in Nat : UserMsg(n) \in Messages /\ UserMsg(n).role = "user"
    /\ \A c \in Seq(Nat) : Assistant(c) \in Messages /\ Assistant(c).role = "assistant" /\ Assistant(c).calls = c
    /\ \A n \in Nat, o \in Outcomes :
          Result(n, o) \in Messages /\ Result(n, o).role = "tool" /\ Result(n, o).call = n
<1>1. \A m \in Modes, g \in Goals \cup {NoGoal} : Prompt(m, g) \in Prompts /\ Prompt(m, g).mode = m
  BY DEF Prompt, Prompts
<1>2. \A w \in {"summary", "skill"} : Note(w) \in Messages /\ Note(w).role = "system"
  BY DEF Note, Messages
<1>3. \A n \in Nat : UserMsg(n) \in Messages /\ UserMsg(n).role = "user"
  BY DEF UserMsg, Messages
<1>4. \A c \in Seq(Nat) : Assistant(c) \in Messages /\ Assistant(c).role = "assistant" /\ Assistant(c).calls = c
  BY DEF Assistant, Messages
<1>5. \A n \in Nat, o \in Outcomes :
         Result(n, o) \in Messages /\ Result(n, o).role = "tool" /\ Result(n, o).call = n
  BY DEF Result, Messages
<1> QED
  BY <1>1, <1>2, <1>3, <1>4, <1>5

(* The messages of a sequence and their calls. *)
LEMMA InSequence ==
    ASSUME NEW ms \in Seq(Messages)
    PROVE  /\ Len(ms) \in Nat
           /\ \A i \in 1 .. Len(ms) :
                 /\ ms[i] \in Messages
                 /\ ms[i].role = "assistant" => Len(ms[i].calls) \in Nat /\ ms[i].calls \in Seq(Nat)
<1>1. Len(ms) \in Nat /\ \A i \in 1 .. Len(ms) : ms[i] \in Messages
  BY LenProperties, ElementOfSeq
<1> QED
  BY <1>1, MessageKinds

(* Closed looks at the first n messages only, and at the prompt for its    *)
(* role only.                                                              *)
LEMMA ClosedSame ==
    ASSUME NEW ms \in Seq(Messages), NEW ns \in Seq(Messages), NEW n \in 1 .. Len(ms), n <= Len(ns),
           ms[1] \in Prompts, ns[1] \in Prompts, \A i \in 2 .. n : ns[i] = ms[i],
           Closed(ms, n)
    PROVE  Closed(ns, n)
<1>1. /\ Len(ms) \in Nat /\ n \in Nat /\ n \in 1 .. n
      /\ \A i \in 1 .. n : ms[i].role = "assistant" => Len(ms[i].calls) \in Nat
  BY InSequence
<1>2. ms[1].role = "system" /\ ns[1].role = "system"
  BY PromptIsNoSummary
<1>3. SUFFICES ASSUME NEW i \in 2 .. n
               PROVE  /\ ns[i].role = "assistant" => Answered(ns, i, n)
                      /\ ns[i].role = "tool" => Belongs(ns, i)
  <2>1. \A i \in 1 .. n : i = 1 \/ i \in 2 .. n
    BY <1>1
  <2> QED
    BY <1>2, <2>1 DEF Closed
<1>4. i \in 1 .. n /\ ns[i] = ms[i]
  BY <1>1
<1>5. ASSUME ns[i].role = "assistant"
      PROVE  Answered(ns, i, n)
  <2>1. Answered(ms, i, n) /\ Len(ms[i].calls) \in Nat
    BY <1>1, <1>4, <1>5 DEF Closed
  <2>2. \A k \in i + 1 .. i + Len(ms[i].calls) : ns[k] = ms[k]
    <3>1. i + Len(ms[i].calls) <= n
      BY <2>1 DEF Answered
    <3>2. \A k \in i + 1 .. i + Len(ms[i].calls) : k \in 2 .. n
      BY <1>1, <2>1, <3>1
    <3> QED
      BY <3>2
  <2> QED
    BY <1>4, <2>1, <2>2 DEF Answered
<1>6. ASSUME ns[i].role = "tool"
      PROVE  Belongs(ns, i)
  <2>1. Belongs(ms, i)
    BY <1>4, <1>6 DEF Closed
  <2>2. CASE \E a \in 1 .. i - 1 : ms[a].role = "assistant" /\ i <= a + Len(ms[a].calls)
    <3>1. PICK a \in 1 .. i - 1 : ms[a].role = "assistant" /\ i <= a + Len(ms[a].calls)
      BY <2>2
    <3>2. a \in 2 .. n
      BY <1>1, <1>2, <3>1
    <3> QED
      BY <3>1, <3>2 DEF Belongs
  <2>3. CASE \E j \in 2 .. i - 1 : ms[j] = Note("summary") /\ Follows(ms, j, i)
    <3>1. PICK j \in 2 .. i - 1 : ms[j] = Note("summary") /\ Follows(ms, j, i)
      BY <2>3
    <3>2. j \in 2 .. n /\ \A k \in j + 1 .. i : k \in 2 .. n
      BY <1>1, <3>1
    <3>3. ns[j] = Note("summary") /\ Follows(ns, j, i)
      BY <3>1, <3>2 DEF Follows
    <3> QED
      BY <3>3 DEF Belongs
  <2> QED
    BY <2>1, <2>2, <2>3 DEF Belongs
<1> QED
  BY <1>5, <1>6

(* One more message that is neither a request for tools nor a result. *)
LEMMA ClosedNext ==
    ASSUME NEW ms \in Seq(Messages), NEW n \in Nat, n + 1 <= Len(ms), Closed(ms, n),
           ms[n + 1].role \in {"system", "user"} \/ ms[n + 1] = Assistant(<<>>)
    PROVE  Closed(ms, n + 1)
<1>1. \A i \in 1 .. n : ms[i].role = "assistant" => Len(ms[i].calls) \in Nat
  <2>1. \A i \in 1 .. n : i \in 1 .. Len(ms)
    BY InSequence
  <2> QED
    BY <2>1, InSequence
<1>2. ASSUME NEW i \in 1 .. n
      PROVE  /\ ms[i].role = "assistant" => Answered(ms, i, n + 1)
             /\ ms[i].role = "tool" => Belongs(ms, i)
  <2>1. ASSUME ms[i].role = "assistant"
        PROVE  Answered(ms, i, n + 1)
    <3>1. Answered(ms, i, n) /\ Len(ms[i].calls) \in Nat
      BY <1>1, <2>1 DEF Closed
    <3>2. i + Len(ms[i].calls) <= n + 1
      BY <3>1 DEF Answered
    <3> QED
      BY <3>1, <3>2 DEF Answered
  <2> QED
    BY <2>1 DEF Closed
<1>3. ASSUME ms[n + 1] = Assistant(<<>>)
      PROVE  Answered(ms, n + 1, n + 1) /\ ms[n + 1].role = "assistant"
  <2>1. ms[n + 1].calls = <<>> /\ ms[n + 1].role = "assistant"
    BY <1>3 DEF Assistant
  <2>2. Len(<<>>) = 0 /\ ToSet(<<>>) = {}
    BY DEF ToSet
  <2>3. (n + 1) + 1 .. (n + 1) + 0 = {}
    OBVIOUS
  <2> QED
    BY <2>1, <2>2, <2>3 DEF Answered
<1>4. \A i \in 1 .. n + 1 : i = n + 1 \/ i \in 1 .. n
  OBVIOUS
<1> QED
  BY <1>2, <1>3, <1>4 DEF Closed

(* ns goes on where ms ends, without a summary. *)
Extends(ms, ns) ==
    /\ Len(ms) <= Len(ns) /\ \A i \in 1 .. Len(ms) : ns[i] = ms[i]
    /\ \A i \in Len(ms) + 1 .. Len(ns) : ns[i] # Note("summary")

LEMMA PromptedExtends ==
    ASSUME NEW ms \in Seq(Messages), NEW ns \in Seq(Messages), NEW m, Prompted(ms, m), Extends(ms, ns)
    PROVE  /\ Prompted(ns, m)
           /\ \A n \in 0 .. Len(ms) : Closed(ms, n) => Closed(ns, n)
<1>1. Len(ms) \in Nat /\ Len(ns) \in Nat /\ Len(ms) > 0 /\ Len(ms) <= Len(ns)
  BY InSequence DEF Prompted, Extends
<1>2. ns[1] = ms[1] /\ ms[1] \in Prompts
  BY <1>1 DEF Prompted, Extends
<1>3. ASSUME NEW j \in 2 .. Len(ns), ns[j] = Note("summary"), NEW i \in 1 .. j - 1
      PROVE  IsSystem(ns[i])
  <2>1. j \in 2 .. Len(ms) /\ i \in 1 .. Len(ms)
    <3>1. ~(j \in Len(ms) + 1 .. Len(ns))
      BY <1>3 DEF Extends
    <3> QED
      BY <1>1, <3>1
  <2>2. ms[j] = Note("summary") /\ ns[i] = ms[i]
    BY <1>1, <1>3, <2>1 DEF Extends
  <2> QED
    BY <2>1, <2>2 DEF Prompted
<1>4. Prompted(ns, m)
  BY <1>1, <1>2, <1>3 DEF Prompted
<1>5. ASSUME NEW n \in 0 .. Len(ms), Closed(ms, n)
      PROVE  Closed(ns, n)
  <2>1. CASE n = 0
    BY <2>1 DEF Closed
  <2>2. CASE n # 0
    <3>1. n \in 1 .. Len(ms) /\ n <= Len(ns)
      BY <1>1, <2>2
    <3>2. \A i \in 2 .. n : ns[i] = ms[i]
      BY <1>1, <3>1 DEF Extends
    <3> QED
      BY <1>2, <1>5, <3>1, <3>2, ClosedSame
  <2> QED
    BY <2>1, <2>2
<1> QED
  BY <1>4, <1>5

LEMMA SettledAppend ==
    ASSUME NEW ms \in Seq(Messages), NEW m, Settled(ms, m), NEW x \in Messages,
           x.role = "user" \/ x = Note("skill") \/ x = Assistant(<<>>)
    PROVE  Append(ms, x) \in Seq(Messages) /\ Settled(Append(ms, x), m)
<1> DEFINE ns == Append(ms, x)
           n == Len(ms)
<1>1. /\ n \in Nat /\ ns \in Seq(Messages) /\ Len(ns) = n + 1
      /\ ns[n + 1] = x /\ \A i \in 1 .. n : ns[i] = ms[i]
  BY AppendProperties, LenProperties
<1>2. x # Note("summary") /\ (x.role \in {"system", "user"} \/ x = Assistant(<<>>))
  BY DEF Note, Assistant
<1> HIDE DEF ns
<1>3. Extends(ms, ns)
  <2>1. \A i \in n + 1 .. n + 1 : i = n + 1
    BY <1>1
  <2> QED
    BY <1>1, <1>2, <2>1 DEF Extends
<1>4. Prompted(ns, m) /\ Closed(ns, n)
  <2>1. Prompted(ms, m) /\ Closed(ms, n) /\ n \in 0 .. n
    BY <1>1 DEF Settled
  <2> QED
    BY <1>1, <1>3, <2>1, PromptedExtends
<1>5. Closed(ns, n + 1)
  BY <1>1, <1>2, <1>4, ClosedNext
<1>6. ns \in Seq(Messages) /\ Settled(ns, m)
  BY <1>1, <1>4, <1>5 DEF Settled
<1> QED
  BY <1>6 DEF ns

(* applySystem rewrites the prompt. *)
LEMMA SettledApplySystem ==
    ASSUME NEW ms \in Seq(Messages), NEW old, Settled(ms, old), NEW m \in Modes, NEW g \in Goals \cup {NoGoal}
    PROVE  ApplySystem(ms, m, g) \in Seq(Messages) /\ Settled(ApplySystem(ms, m, g), m)
<1> DEFINE ns == [ms EXCEPT ![1] = Prompt(m, g)]
<1>1. Len(ms) \in Nat /\ Len(ms) > 0 /\ ms[1] \in Prompts
  BY LenProperties DEF Settled, Prompted
<1>2. ApplySystem(ms, m, g) = ns
  <2>1. ms # <<>> /\ IsSystem(ms[1])
    BY <1>1, PromptIsNoSummary, EmptySeq DEF IsSystem
  <2> QED
    BY <2>1 DEF ApplySystem, HasPrompt
<1>3. Prompt(m, g) \in Prompts /\ Prompt(m, g).mode = m /\ Prompt(m, g) \in Messages
  BY NewMessages, PromptIsNoSummary
<1>4. /\ ns \in Seq(Messages) /\ Len(ns) = Len(ms)
      /\ ns[1] = Prompt(m, g) /\ \A i \in 2 .. Len(ms) : ns[i] = ms[i]
  <2>1. 1 \in 1 .. Len(ms) /\ \A i \in 2 .. Len(ms) : i \in 1 .. Len(ms) /\ i # 1
    BY <1>1
  <2> QED
    BY <1>3, <2>1, ExceptSeq
<1> HIDE DEF ns
<1>5. ASSUME NEW j \in 2 .. Len(ns), ns[j] = Note("summary"), NEW i \in 1 .. j - 1
      PROVE  IsSystem(ns[i])
  <2>1. CASE i = 1
    BY <1>3, <1>4, <2>1, PromptIsNoSummary DEF IsSystem
  <2>2. CASE i # 1
    <3>1. i \in 2 .. Len(ms) /\ j \in 2 .. Len(ms)
      BY <1>1, <1>4, <2>2
    <3>2. ms[j] = Note("summary") /\ ns[i] = ms[i]
      BY <1>4, <1>5, <3>1
    <3> QED
      BY <3>1, <3>2 DEF Settled, Prompted
  <2> QED
    BY <2>1, <2>2
<1>6. Prompted(ns, m)
  BY <1>1, <1>3, <1>4, <1>5 DEF Prompted
<1>7. Closed(ns, Len(ms))
  <2>1. Len(ms) \in 1 .. Len(ms) /\ Len(ms) <= Len(ns) /\ Closed(ms, Len(ms))
    BY <1>1, <1>4 DEF Settled
  <2> QED
    BY <1>1, <1>3, <1>4, <2>1, ClosedSame
<1> QED
  BY <1>2, <1>4, <1>6, <1>7 DEF Settled

(* Reset leaves the prompt alone. *)
LEMMA SettledPrompt ==
    ASSUME NEW p \in Prompts
    PROVE  <<p>> \in Seq(Messages) /\ Settled(<<p>>, p.mode)
<1>1. p \in Messages /\ p.role = "system"
  BY PromptIsNoSummary
<1>2. <<p>> \in Seq(Messages) /\ Len(<<p>>) = 1 /\ <<p>>[1] = p
  BY <1>1
<1>3. Prompted(<<p>>, p.mode)
  BY <1>2 DEF Prompted
<1>4. Closed(<<p>>, 1)
  <2>1. \A i \in 1 .. 1 : i = 1
    OBVIOUS
  <2> QED
    BY <1>1, <1>2, <2>1 DEF Closed
<1> QED
  BY <1>2, <1>3, <1>4 DEF Settled

(* A request for tools opens its batch ... *)
LEMMA OpenNew ==
    ASSUME NEW ms \in Seq(Messages), NEW m, Settled(ms, m), NEW ids \in Seq(Nat),
           NEW calls, Len(calls) = Len(ids), {calls[k].id : k \in DOMAIN calls} = ToSet(ids)
    PROVE  LET ns == Append(ms, Assistant(ids))
           IN  ns \in Seq(Messages) /\ Prompted(ns, m) /\ \E a \in DOMAIN ns : Open(ns, a, calls)
<1> DEFINE ns == Append(ms, Assistant(ids))
           n == Len(ms)
<1>1. Assistant(ids) \in Messages /\ Assistant(ids).role = "assistant" /\ Assistant(ids).calls = ids
  BY NewMessages
<1>2. /\ n \in Nat /\ ns \in Seq(Messages) /\ Len(ns) = n + 1 /\ DOMAIN ns = 1 .. n + 1
      /\ ns[n + 1] = Assistant(ids) /\ \A i \in 1 .. n : ns[i] = ms[i]
  BY <1>1, AppendProperties, LenProperties
<1>3. Assistant(ids) # Note("summary")
  BY <1>1 DEF Note
<1> HIDE DEF ns
<1>4. Extends(ms, ns)
  <2>1. \A i \in n + 1 .. n + 1 : i = n + 1
    BY <1>2
  <2> QED
    BY <1>2, <1>3, <2>1 DEF Extends
<1>5. Prompted(ns, m) /\ Closed(ns, n)
  <2>1. Prompted(ms, m) /\ Closed(ms, n) /\ n \in 0 .. n
    BY <1>2 DEF Settled
  <2> QED
    BY <1>2, <1>4, <2>1, PromptedExtends
<1>6. Open(ns, n + 1, calls)
  <2>1. (n + 1) - 1 = n /\ (n + 1) + 1 .. n + 1 = {}
    BY <1>2
  <2>2. n + 1 + Len(ids) = Len(ns) + Len(calls)
    BY <1>2
  <2> QED
    BY <1>1, <1>2, <1>5, <2>1, <2>2 DEF Open, Follows
<1>7. n + 1 \in DOMAIN ns
  BY <1>2
<1>8. ns \in Seq(Messages) /\ Prompted(ns, m) /\ \E a \in DOMAIN ns : Open(ns, a, calls)
  BY <1>2, <1>5, <1>6, <1>7
<1> QED
  BY <1>8 DEF ns

LEMMA CallsTogether ==
    ASSUME NEW I, NEW J, NEW K, I = J \cup K, NEW f, NEW g, \A j \in J : f[j] = g[j]
    PROVE  {f[i].call : i \in I} = {g[j].call : j \in J} \cup {f[k].call : k \in K}
<1>1. \A c : c \in {f[i].call : i \in I} <=> \E i \in I : c = f[i].call
  OBVIOUS
<1>2. \A c : (\E i \in I : c = f[i].call) <=> (\E j \in J : c = g[j].call) \/ (\E k \in K : c = f[k].call)
  OBVIOUS
<1> QED
  BY <1>1, <1>2

(* ... results of some of its calls shorten what is pending ... *)
LEMMA OpenMore ==
    ASSUME NEW ms \in Seq(Messages), NEW ns \in Seq(Messages), NEW m, Prompted(ms, m),
           NEW a \in 1 .. Len(ms), NEW calls, Open(ms, a, calls),
           Len(ms) <= Len(ns), \A i \in 1 .. Len(ms) : ns[i] = ms[i],
           \A i \in Len(ms) + 1 .. Len(ns) : ns[i].role = "tool",
           NEW left, Len(ns) + Len(left) = Len(ms) + Len(calls),
           {ns[i].call : i \in Len(ms) + 1 .. Len(ns)} \cup {left[k].id : k \in DOMAIN left}
               = {calls[k].id : k \in DOMAIN calls}
    PROVE  Prompted(ns, m) /\ Open(ns, a, left)
<1>1. Len(ms) \in Nat /\ Len(ns) \in Nat /\ a \in Nat
  BY InSequence
<1>2. Extends(ms, ns)
  <2>1. Note("summary").role = "system"
    BY DEF Note
  <2> QED
    BY <2>1 DEF Extends
<1>3. Prompted(ns, m) /\ (Closed(ms, a - 1) => Closed(ns, a - 1))
  <2>1. a - 1 \in 0 .. Len(ms)
    BY <1>1
  <2> QED
    BY <1>2, <2>1, PromptedExtends
<1>4. ns[a] = ms[a]
  OBVIOUS
<1>5. \A k \in a + 1 .. Len(ns) :
         \/ k \in a + 1 .. Len(ms) /\ k \in 1 .. Len(ms)
         \/ k \in Len(ms) + 1 .. Len(ns)
  BY <1>1
<1>6. Follows(ns, a, Len(ns))
  BY <1>5 DEF Open, Follows
<1>7. {ns[k].call : k \in a + 1 .. Len(ns)}
          = {ms[k].call : k \in a + 1 .. Len(ms)} \cup {ns[i].call : i \in Len(ms) + 1 .. Len(ns)}
  <2>1. a + 1 .. Len(ns) = (a + 1 .. Len(ms)) \cup (Len(ms) + 1 .. Len(ns))
    BY <1>1
  <2>2. \A k \in a + 1 .. Len(ms) : ns[k] = ms[k]
    BY <1>1
  <2> QED
    BY <2>1, <2>2, CallsTogether
<1>8. ToSet(ns[a].calls) = {ns[k].call : k \in a + 1 .. Len(ns)} \cup {left[k].id : k \in DOMAIN left}
  <2>1. ToSet(ms[a].calls) = {ms[k].call : k \in a + 1 .. Len(ms)} \cup {calls[k].id : k \in DOMAIN calls}
    BY DEF Open
  <2> QED
    BY <1>4, <1>7, <2>1
<1>9. a + Len(ns[a].calls) = Len(ns) + Len(left)
  BY <1>4 DEF Open
<1> QED
  BY <1>3, <1>4, <1>6, <1>8, <1>9 DEF Open

(* ... and when nothing is, the conversation is closed. *)
LEMMA OpenDone ==
    ASSUME NEW ms \in Seq(Messages), NEW a \in 1 .. Len(ms), Open(ms, a, <<>>)
    PROVE  Closed(ms, Len(ms))
<1> DEFINE n == Len(ms)
<1>1. n \in Nat /\ a \in Nat /\ \A i \in 1 .. n : ms[i].role = "assistant" => Len(ms[i].calls) \in Nat
  BY InSequence
<1>2. /\ ms[a].role = "assistant" /\ Closed(ms, a - 1) /\ Follows(ms, a, n)
      /\ ToSet(ms[a].calls) = {ms[k].call : k \in a + 1 .. n}
      /\ a + Len(ms[a].calls) = n
  <2>1. Len(<<>>) = 0 /\ {<<>>[k].id : k \in DOMAIN <<>>} = {}
    OBVIOUS
  <2> QED
    BY <1>1, <2>1 DEF Open
<1>3. Answered(ms, a, n)
  BY <1>1, <1>2 DEF Answered, Follows
<1>4. ASSUME NEW i \in a + 1 .. n
      PROVE  ms[i].role = "tool" /\ Belongs(ms, i)
  <2>1. ms[i].role = "tool" /\ a \in 1 .. i - 1 /\ i <= a + Len(ms[a].calls)
    BY <1>1, <1>2 DEF Follows
  <2> QED
    BY <1>2, <2>1 DEF Belongs
<1>5. ASSUME NEW i \in 1 .. a - 1
      PROVE  /\ ms[i].role = "assistant" => Answered(ms, i, n)
             /\ ms[i].role = "tool" => Belongs(ms, i)
  <2>1. ASSUME ms[i].role = "assistant"
        PROVE  Answered(ms, i, n)
    <3>1. Answered(ms, i, a - 1) /\ Len(ms[i].calls) \in Nat
      <4>1. i \in 1 .. n
        BY <1>1
      <4> QED
        BY <1>1, <1>2, <2>1, <4>1 DEF Closed
    <3>2. i + Len(ms[i].calls) <= n
      BY <1>1, <3>1 DEF Answered
    <3> QED
      BY <3>1, <3>2 DEF Answered
  <2> QED
    BY <1>2, <2>1 DEF Closed
<1>6. \A i \in 1 .. n : i = a \/ i \in 1 .. a - 1 \/ i \in a + 1 .. n
  BY <1>1
<1> QED
  BY <1>2, <1>3, <1>4, <1>5, <1>6 DEF Closed

-----------------------------------------------------------------------------
(* Compaction.                                                             *)

Said(ms) == {i \in 1 .. Len(ms) : ms[i].role # "system"}

(* out is ms cut after its first off turns: system messages up to the      *)
(* summary at h, and the later turns of ms, at[k] being the index of turn  *)
(* k in ms.                                                                *)
Cut(ms, out, h, off, at) ==
    LET turns == Turns(ms)
    IN  /\ h \in Nat /\ h >= 2 /\ off \in Nat /\ off < Len(turns)
        /\ Lists(ms, Said(ms), turns, at)
        /\ Len(out) = h + (Len(turns) - off)
        /\ out[1] = ms[1] /\ out[h] = Note("summary")
        /\ \A i \in 1 .. h : out[i].role = "system"
        /\ \A k \in 1 .. Len(turns) - off : out[h + k] = ms[at[off + k]]

LEMMA TurnsOf ==
    ASSUME NEW ms \in Seq(Messages)
    PROVE  /\ Turns(ms) \in Seq(Messages) /\ Len(Turns(ms)) \in Nat
           /\ \E at : Lists(ms, Said(ms), Turns(ms), at)
<1>1. {i \in DOMAIN ms : ~IsSystem(ms[i])} = Said(ms)
  <2>1. DOMAIN ms = 1 .. Len(ms)
    BY LenProperties
  <2> QED
    BY <2>1 DEF Said, IsSystem
<1>2. Turns(ms) = Collected(ms, Said(ms))
  BY <1>1 DEF Turns
<1>3. Said(ms) \in SUBSET (1 .. Len(ms))
  BY DEF Said
<1> QED
  BY <1>2, <1>3, CollectedType, CollectedLists, LenProperties

LEMMA SystemsOf ==
    ASSUME NEW ms \in Seq(Messages), Len(ms) > 0, ms[1].role = "system"
    PROVE  /\ Systems(ms) \in Seq(Messages) /\ Len(Systems(ms)) \in Nat \ {0}
           /\ Systems(ms)[1] = ms[1]
           /\ \A i \in 1 .. Len(Systems(ms)) : Systems(ms)[i].role = "system"
<1> DEFINE K == {i \in DOMAIN ms : IsSystem(ms[i])}
           sys == Systems(ms)
<1>1. DOMAIN ms = 1 .. Len(ms) /\ Len(ms) \in Nat
  BY LenProperties
<1>2. K \in SUBSET (1 .. Len(ms)) /\ 1 \in K /\ \A i \in K : ms[i].role = "system"
  BY <1>1 DEF IsSystem
<1>3. sys = Collected(ms, K)
  BY DEF Systems
<1> HIDE DEF K, sys
<1>4. sys \in Seq(Messages) /\ Len(sys) \in Nat
  BY <1>3, CollectedType, LenProperties
<1>5. PICK at : Lists(ms, K, sys, at)
  BY <1>2, <1>3, CollectedLists
<1>6. PICK k \in 1 .. Len(sys) : at[k] = 1
  BY <1>2, <1>5 DEF Lists
<1>7. Len(sys) # 0 /\ 1 \in 1 .. Len(sys)
  BY <1>4, <1>6
<1>8. at[1] = 1
  <2>1. CASE k = 1
    BY <1>6, <2>1
  <2>2. CASE k # 1
    <3>1. at[1] < at[k]
      <4>1. 1 < k
        BY <1>4, <2>2
      <4> QED
        BY <1>5, <1>7, <4>1 DEF Lists
    <3>2. at[1] \in 1 .. Len(ms)
      BY <1>2, <1>5, <1>7 DEF Lists
    <3> QED
      BY <1>1, <1>6, <3>1, <3>2
  <2> QED
    BY <2>1, <2>2
<1>9. \A i \in 1 .. Len(sys) : sys[i] = ms[at[i]] /\ at[i] \in K
  BY <1>5 DEF Lists
<1>10. sys[1] = ms[1] /\ \A i \in 1 .. Len(sys) : sys[i].role = "system"
  <2>1. sys[1] = ms[at[1]]
    BY <1>7, <1>9
  <2>2. sys[1] = ms[1]
    BY <1>8, <2>1
  <2> QED
    BY <1>2, <1>9, <2>2
<1> QED
  BY <1>4, <1>7, <1>10 DEF sys

LEMMA CompactedCut ==
    ASSUME NEW ms \in Seq(Messages), Len(ms) > 0, ms[1].role = "system", CanCompact(ms)
    PROVE  /\ Compacted(ms) \in Seq(Messages)
           /\ \E h, off, at : Cut(ms, Compacted(ms), h, off, at)
<1> DEFINE turns == Turns(ms)
           sys == Systems(ms)
           r == Len(turns)
           off == r - Keep
           h == Len(sys) + 1
           recent == SubSeq(turns, r - Keep + 1, r)
           front == sys \o <<Note("summary")>>
           out == front \o recent
<1>1. Keep \in Nat \ {0} /\ r > Keep
  BY AgentAssumption DEF Keep, CanCompact
<1>2. turns \in Seq(Messages) /\ r \in Nat
  BY TurnsOf
<1>3. PICK at : Lists(ms, Said(ms), turns, at)
  BY TurnsOf
<1>4. /\ sys \in Seq(Messages) /\ Len(sys) \in Nat \ {0} /\ sys[1] = ms[1]
      /\ \A i \in 1 .. Len(sys) : sys[i].role = "system"
  BY SystemsOf
<1>5. Note("summary") \in Messages /\ Note("summary").role = "system"
  BY NewMessages
<1>6. Compacted(ms) = out
  BY DEF Compacted
<1> HIDE DEF turns, sys
<1>7. /\ off \in Nat /\ off < r /\ r - off = Keep
      /\ h \in Nat /\ h >= 2 /\ r - Keep + 1 \in 1 .. r
  BY <1>1, <1>2, <1>4
<1>8. /\ front \in Seq(Messages) /\ Len(front) = h /\ front[h] = Note("summary")
      /\ \A i \in 1 .. Len(sys) : front[i] = sys[i]
  <2>1. <<Note("summary")>> \in Seq(Messages) /\ Len(<<Note("summary")>>) = 1
    BY <1>5
  <2>2. front \in Seq(Messages) /\ Len(front) = Len(sys) + Len(<<Note("summary")>>)
    BY <1>4, <2>1, ConcatProperties
  <2>3. \A i \in 1 .. Len(sys) + 1 : front[i] = IF i <= Len(sys) THEN sys[i] ELSE <<Note("summary")>>[i - Len(sys)]
    BY <1>4, <2>1, ConcatProperties
  <2>4. front[Len(sys) + 1] = <<Note("summary")>>[1]
    BY <1>4, <2>3
  <2> QED
    BY <1>4, <2>1, <2>2, <2>3, <2>4
<1>9. /\ recent \in Seq(Messages) /\ Len(recent) = Keep
      /\ \A k \in 1 .. Keep : recent[k] = turns[off + k]
  <2>1. r - Keep + 1 \in 1 .. r + 1 /\ r \in r - Keep + 1 - 1 .. r
    BY <1>1, <1>2
  <2>2. /\ recent \in Seq(Messages) /\ Len(recent) = r - (r - Keep + 1) + 1
        /\ \A k \in 1 .. r - (r - Keep + 1) + 1 : recent[k] = turns[r - Keep + 1 + k - 1]
    BY <1>2, <2>1, SubSeqProperties
  <2>3. r - (r - Keep + 1) + 1 = Keep /\ \A k \in 1 .. Keep : r - Keep + 1 + k - 1 = off + k
    BY <1>1, <1>2
  <2> QED
    BY <2>2, <2>3
<1> HIDE DEF front, recent
<1>10. /\ out \in Seq(Messages) /\ Len(out) = h + Keep
       /\ \A i \in 1 .. h : out[i] = front[i]
       /\ \A k \in 1 .. Keep : out[h + k] = recent[k]
  <2>1. \A i \in 1 .. h + Keep : out[i] = IF i <= h THEN front[i] ELSE recent[i - h]
    BY <1>8, <1>9, ConcatProperties
  <2>2. \A k \in 1 .. Keep : h + k \in 1 .. h + Keep /\ ~(h + k <= h) /\ h + k - h = k
    BY <1>1, <1>7
  <2>3. \A i \in 1 .. h : i \in 1 .. h + Keep /\ i <= h
    BY <1>1, <1>7
  <2>4. out \in Seq(Messages) /\ Len(out) = Len(front) + Len(recent)
    <3>1. front \in Seq(Messages) /\ recent \in Seq(Messages)
      BY <1>8, <1>9
    <3> QED
      BY <3>1, ConcatProperties
  <2>5. ASSUME NEW i \in 1 .. h  PROVE out[i] = front[i]
    BY <2>1, <2>3
  <2>6. ASSUME NEW k \in 1 .. Keep  PROVE out[h + k] = recent[k]
    <3>1. PICK i \in 1 .. h + Keep : i = h + k /\ ~(i <= h) /\ i - h = k
      BY <2>2
    <3> HIDE DEF h, out
    <3>2. out[i] = recent[i - h]
      BY <2>1, <3>1
    <3> QED
      BY <3>1, <3>2
  <2> QED
    BY <1>8, <1>9, <2>4, <2>5, <2>6
<1> HIDE DEF out
<1>11. \A i \in 1 .. h : i = h \/ i \in 1 .. Len(sys)
  BY <1>4
<1>12. \A i \in 1 .. h : out[i].role = "system"
  BY <1>4, <1>5, <1>8, <1>10, <1>11
<1>13. out[1] = ms[1] /\ out[h] = Note("summary")
  <2>1. 1 \in 1 .. h /\ h \in 1 .. h /\ 1 \in 1 .. Len(sys)
    BY <1>4, <1>7
  <2> QED
    BY <1>4, <1>8, <1>10, <2>1
<1>14. \A k \in 1 .. Keep : out[h + k] = ms[at[off + k]]
  <2>1. \A k \in 1 .. Keep : off + k \in 1 .. r
    BY <1>1, <1>2
  <2> QED
    BY <1>3, <1>9, <1>10, <2>1 DEF Lists
<1>15. Cut(ms, out, h, off, at)
  BY <1>3, <1>7, <1>10, <1>12, <1>13, <1>14 DEF Cut, turns
<1> QED
  BY <1>6, <1>10, <1>15

(* A cut of a settled conversation: what the lemmas below use of it.       *)
LEMMA CutFacts ==
    ASSUME NEW ms \in Seq(Messages), NEW out, NEW h, NEW off, NEW at, Cut(ms, out, h, off, at)
    PROVE  /\ Turns(ms) \in Seq(Messages) /\ Len(Turns(ms)) \in Nat /\ off \in Nat /\ h \in Nat
           /\ Len(ms) \in Nat /\ Len(out) = h + (Len(Turns(ms)) - off)
           /\ \A k \in 1 .. Len(Turns(ms)) : at[k] \in Said(ms) /\ at[k] \in Nat /\ at[k] \in 1 .. Len(ms)
           /\ \A i \in Said(ms) : \E k \in 1 .. Len(Turns(ms)) : at[k] = i
           /\ \A j, k \in 1 .. Len(Turns(ms)) : j < k => at[j] < at[k]
           /\ \A i \in h + 1 .. Len(out) : /\ off + (i - h) \in 1 .. Len(Turns(ms))
                                           /\ out[i] = ms[at[off + (i - h)]]
           /\ \A k \in off + 1 .. Len(Turns(ms)) : /\ h + (k - off) \in h + 1 .. Len(out)
                                                   /\ out[h + (k - off)] = ms[at[k]]
<1> DEFINE turns == Turns(ms)
           r == Len(turns)
<1>1. turns \in Seq(Messages) /\ r \in Nat /\ Len(ms) \in Nat
  BY TurnsOf, LenProperties
<1> HIDE DEF turns
<1>2. /\ off \in Nat /\ off < r /\ h \in Nat /\ Len(out) = h + (r - off)
      /\ \A k \in 1 .. r - off : out[h + k] = ms[at[off + k]]
      /\ Lists(ms, Said(ms), turns, at)
  BY DEF Cut, turns
<1>3. \A k \in 1 .. r : at[k] \in Said(ms) /\ at[k] \in Nat /\ at[k] \in 1 .. Len(ms)
  <2>1. \A k \in 1 .. r : at[k] \in Said(ms)
    BY <1>2 DEF Lists
  <2> QED
    BY <1>1, <2>1 DEF Said
<1>4. /\ \A i \in Said(ms) : \E k \in 1 .. r : at[k] = i
      /\ \A j, k \in 1 .. r : j < k => at[j] < at[k]
  BY <1>2 DEF Lists
<1>5. ASSUME NEW k \in off + 1 .. r
      PROVE  h + (k - off) \in h + 1 .. Len(out) /\ out[h + (k - off)] = ms[at[k]]
  <2>1. PICK d \in 1 .. r - off : d = k - off /\ off + d = k
    BY <1>1, <1>2
  <2>2. out[h + d] = ms[at[off + d]]
    BY <1>2
  <2>3. h + d \in h + 1 .. Len(out)
    BY <1>1, <1>2
  <2> QED
    BY <2>1, <2>2, <2>3
<1>6. ASSUME NEW i \in h + 1 .. Len(out)
      PROVE  off + (i - h) \in 1 .. r /\ out[i] = ms[at[off + (i - h)]]
  <2>1. PICK d \in 1 .. r - off : d = i - h /\ h + d = i
    BY <1>1, <1>2
  <2>2. out[h + d] = ms[at[off + d]]
    BY <1>2
  <2>3. off + d \in 1 .. r
    BY <1>1, <1>2
  <2> QED
    BY <2>1, <2>2, <2>3
<1>7. /\ turns \in Seq(Messages) /\ r \in Nat /\ off \in Nat /\ h \in Nat
      /\ Len(ms) \in Nat /\ Len(out) = h + (r - off)
  BY <1>1, <1>2
<1> QED
  BY <1>3, <1>4, <1>5, <1>6, <1>7 DEF turns

LEMMA CutPrompted ==
    ASSUME NEW ms \in Seq(Messages), NEW m, Prompted(ms, m),
           NEW out, NEW h, NEW off, NEW at, Cut(ms, out, h, off, at)
    PROVE  Prompted(out, m)
<1>1. /\ h \in Nat /\ h >= 2 /\ off \in Nat /\ off < Len(Turns(ms)) /\ out[1] = ms[1]
      /\ Len(Turns(ms)) \in Nat /\ Len(out) = h + (Len(Turns(ms)) - off)
      /\ \A i \in 1 .. h : out[i].role = "system"
  BY TurnsOf DEF Cut
<1>2. Len(out) \in Nat /\ Len(out) > 0
  BY <1>1
<1>3. \A i \in h + 1 .. Len(out) : out[i].role # "system"
  <2>1. \A i \in h + 1 .. Len(out) : out[i] = ms[at[off + (i - h)]] /\ at[off + (i - h)] \in Said(ms)
    BY CutFacts
  <2> QED
    BY <2>1 DEF Said
<1>4. Note("summary").role = "system"
  BY NewMessages
<1>5. ASSUME NEW j \in 2 .. Len(out), out[j] = Note("summary"), NEW i \in 1 .. j - 1
      PROVE  IsSystem(out[i])
  <2>1. ~(j \in h + 1 .. Len(out))
    BY <1>3, <1>4, <1>5
  <2>2. i \in 1 .. h
    BY <1>1, <1>2, <2>1
  <2> QED
    BY <1>1, <2>2 DEF IsSystem
<1> QED
  BY <1>1, <1>2, <1>5 DEF Prompted

(* The results of a request that is kept, or of which some results are,    *)
(* are turns in a row behind it.                                           *)
LEMMA CutTogether ==
    ASSUME NEW ms \in Seq(Messages), NEW out, NEW h, NEW off, NEW at, Cut(ms, out, h, off, at),
           NEW k \in 1 .. Len(Turns(ms)), Answered(ms, at[k], Len(ms)), Len(ms[at[k]].calls) \in Nat
    PROVE  \A d \in 0 .. Len(ms[at[k]].calls) : k + d \in 1 .. Len(Turns(ms)) /\ at[k + d] = at[k] + d
<1> DEFINE n == Len(ms[at[k]].calls)
           turns == Turns(ms)
<1>1. turns \in Seq(Messages) /\ Len(turns) \in Nat /\ at[k] \in Nat /\ Len(ms) \in Nat /\ at[k] \in 1 .. Len(ms)
  BY CutFacts
<1>2. at[k] + 1 .. at[k] + n \subseteq Said(ms)
  <2>1. at[k] + n <= Len(ms) /\ \A i \in at[k] + 1 .. at[k] + n : ms[i].role = "tool"
    BY DEF Answered
  <2>2. \A i \in at[k] + 1 .. at[k] + n : i \in 1 .. Len(ms)
    BY <1>1, <2>1
  <2> QED
    BY <2>1, <2>2 DEF Said
<1>3. Lists(ms, Said(ms), turns, at)
  BY DEF Cut
<1>4. \A d \in 0 .. n : k + d <= Len(turns) /\ at[k + d] = at[k] + d
  <2>1. k \in 1 .. Len(turns) /\ n \in Nat
    OBVIOUS
  <2> HIDE DEF n, turns
  <2> QED
    BY <1>2, <1>3, <2>1, ListsTogether
<1>5. \A d \in 0 .. n : k + d >= 1
  BY <1>1
<1> QED
  BY <1>1, <1>4, <1>5

(* A kept request keeps its results. *)
LEMMA CutAnswered ==
    ASSUME NEW ms \in Seq(Messages), Closed(ms, Len(ms)),
           NEW out, NEW h, NEW off, NEW at, Cut(ms, out, h, off, at),
           NEW i \in h + 1 .. Len(out), out[i].role = "assistant"
    PROVE  Answered(out, i, Len(out))
<1> DEFINE r == Len(Turns(ms))
<1>1. PICK k : k = off + (i - h)
  OBVIOUS
<1>2. PICK p : p = at[k]
  OBVIOUS
<1>3. /\ r \in Nat /\ off \in Nat /\ h \in Nat /\ Len(out) = h + (r - off)
      /\ k \in 1 .. r /\ out[i] = ms[p] /\ p \in 1 .. Len(ms) /\ p \in Nat
      /\ \A x \in off + 1 .. r : out[h + (x - off)] = ms[at[x]]
  <2>1. r \in Nat /\ off \in Nat /\ h \in Nat /\ Len(out) = h + (r - off)
    BY CutFacts
  <2>2. k \in 1 .. r /\ out[i] = ms[p]
    BY <1>1, <1>2, CutFacts
  <2>3. p \in 1 .. Len(ms) /\ p \in Nat
    BY <1>2, <2>2, CutFacts
  <2>4. \A x \in off + 1 .. r : out[h + (x - off)] = ms[at[x]]
    BY CutFacts
  <2> QED
    BY <2>1, <2>2, <2>3, <2>4
<1>4. Answered(ms, p, Len(ms)) /\ Len(ms[p].calls) \in Nat
  BY <1>3, InSequence DEF Closed
<1>5. PICK n \in Nat : n = Len(ms[p].calls)
  BY <1>4
<1>6. \A d \in 0 .. n : k + d \in 1 .. r /\ at[k + d] = p + d
  BY <1>2, <1>3, <1>4, <1>5, CutTogether
<1> HIDE DEF r
<1>7. i + n <= Len(out) /\ k = off + (i - h) /\ i \in Nat /\ i > h
  <2>1. n \in 0 .. n
    BY <1>5
  <2>2. k + n \in 1 .. r
    BY <1>6, <2>1
  <2>3. i \in Nat /\ i > h
    BY <1>3
  <2>4. i + n <= h + (r - off)
    <3>1. r \in Nat /\ off \in Nat /\ h \in Nat /\ n \in Nat
      BY <1>3, <1>5
    <3>2. off + (i - h) + n <= r
      BY <1>1, <2>2
    <3> QED
      BY <2>3, <3>1, <3>2
  <2> QED
    BY <1>1, <1>3, <2>3, <2>4
<1>8. ASSUME NEW d \in 1 .. n
      PROVE  out[i + d] = ms[p + d]
  <2>1. k + d \in 1 .. r /\ at[k + d] = p + d
    BY <1>5, <1>6
  <2>2. PICK x \in off + 1 .. r : x = k + d /\ h + (x - off) = i + d
    BY <1>3, <1>5, <1>7, <2>1
  <2>3. out[h + (x - off)] = ms[at[x]]
    BY <1>3
  <2> QED
    BY <2>1, <2>2, <2>3
<1>9. \A x \in i + 1 .. i + n : x - i \in 1 .. n /\ p + (x - i) \in p + 1 .. p + n /\ out[x] = ms[p + (x - i)]
  <2>1. ASSUME NEW x \in i + 1 .. i + n
        PROVE  x - i \in 1 .. n /\ p + (x - i) \in p + 1 .. p + n /\ out[x] = ms[p + (x - i)]
    <3>1. x \in Int /\ i \in Int /\ n \in Int /\ p \in Int
      BY <1>3, <1>5, <1>7
    <3>2. x - i \in 1 .. n /\ i + (x - i) = x /\ p + (x - i) \in p + 1 .. p + n
      BY <3>1
    <3>3. PICK d \in 1 .. n : d = x - i
      BY <3>2
    <3>4. out[i + d] = ms[p + d]
      BY <1>8
    <3> QED
      BY <3>2, <3>3, <3>4
  <2> QED
    BY <2>1
<1>10. \A y \in p + 1 .. p + n : y - p \in 1 .. n /\ i + (y - p) \in i + 1 .. i + n /\ out[i + (y - p)] = ms[y]
  <2>1. ASSUME NEW y \in p + 1 .. p + n
        PROVE  y - p \in 1 .. n /\ i + (y - p) \in i + 1 .. i + n /\ out[i + (y - p)] = ms[y]
    <3>1. y \in Int /\ i \in Int /\ n \in Int /\ p \in Int
      BY <1>3, <1>5, <1>7
    <3>2. y - p \in 1 .. n /\ p + (y - p) = y /\ i + (y - p) \in i + 1 .. i + n
      BY <3>1
    <3>3. PICK d \in 1 .. n : d = y - p
      BY <3>2
    <3>4. out[i + d] = ms[p + d]
      BY <1>8
    <3> QED
      BY <3>2, <3>3, <3>4
  <2> QED
    BY <2>1
<1>11. /\ \A y \in p + 1 .. p + n : ms[y].role = "tool"
       /\ ToSet(ms[p].calls) = {ms[y].call : y \in p + 1 .. p + n}
  BY <1>4, <1>5 DEF Answered
<1>12. {out[x].call : x \in i + 1 .. i + n} = {ms[y].call : y \in p + 1 .. p + n}
  <2>1. ASSUME NEW x \in i + 1 .. i + n
        PROVE  out[x].call \in {ms[y].call : y \in p + 1 .. p + n}
    BY <1>9
  <2>2. ASSUME NEW y \in p + 1 .. p + n
        PROVE  ms[y].call \in {out[x].call : x \in i + 1 .. i + n}
    BY <1>10
  <2> QED
    BY <2>1, <2>2
<1>13. \A x \in i + 1 .. i + n : out[x].role = "tool"
  BY <1>9, <1>11
<1> QED
  BY <1>3, <1>5, <1>7, <1>11, <1>12, <1>13 DEF Answered

(* A kept result has its request before it, or only results between it     *)
(* and the summary.                                                        *)
LEMMA CutBelongs ==
    ASSUME NEW ms \in Seq(Messages), NEW m, Settled(ms, m),
           NEW out, NEW h, NEW off, NEW at, Cut(ms, out, h, off, at),
           NEW i \in h + 1 .. Len(out), out[i].role = "tool"
    PROVE  Belongs(out, i)
<1> DEFINE r == Len(Turns(ms))
<1>1. PICK k : k = off + (i - h)
  OBVIOUS
<1>2. PICK p : p = at[k]
  OBVIOUS
<1>3. /\ r \in Nat /\ off \in Nat /\ h \in Nat /\ Len(out) = h + (r - off) /\ Len(ms) \in Nat
      /\ k \in 1 .. r /\ out[i] = ms[p] /\ p \in 1 .. Len(ms) /\ p \in Nat
  BY <1>1, <1>2, CutFacts
<1>4. /\ \A x \in off + 1 .. r : out[h + (x - off)] = ms[at[x]]
      /\ \A x \in 1 .. r : at[x] \in Said(ms) /\ at[x] \in Nat
      /\ \A x \in Said(ms) : \E y \in 1 .. r : at[y] = x
      /\ \A x, y \in 1 .. r : x < y => at[x] < at[y]
      /\ \A x \in h + 1 .. Len(out) : off + (x - h) \in 1 .. r /\ out[x] = ms[at[off + (x - h)]]
  <2>1. \A x \in off + 1 .. r : out[h + (x - off)] = ms[at[x]]
    BY CutFacts
  <2>2. \A x \in 1 .. r : at[x] \in Said(ms) /\ at[x] \in Nat
    BY CutFacts
  <2>3. \A x \in Said(ms) : \E y \in 1 .. r : at[y] = x
    BY CutFacts
  <2>4. \A x, y \in 1 .. r : x < y => at[x] < at[y]
    BY CutFacts
  <2>5. \A x \in h + 1 .. Len(out) : off + (x - h) \in 1 .. r /\ out[x] = ms[at[off + (x - h)]]
    BY CutFacts
  <2> QED
    BY <2>1, <2>2, <2>3, <2>4, <2>5
<1>5. h >= 2 /\ out[h] = Note("summary")
  BY DEF Cut
<1>6. Belongs(ms, p)
  BY <1>3 DEF Settled, Closed
<1> HIDE DEF r
<1>7. i \in Nat /\ h < i /\ h \in 2 .. i - 1 /\ k = off + (i - h)
  BY <1>1, <1>3, <1>5
<1>8. ASSUME Follows(out, h, i)
      PROVE  Belongs(out, i)
  BY <1>5, <1>7, <1>8 DEF Belongs
<1>9. CASE \E a \in 1 .. p - 1 : ms[a].role = "assistant" /\ p <= a + Len(ms[a].calls)
  <2>1. PICK a \in 1 .. p - 1 : ms[a].role = "assistant" /\ p <= a + Len(ms[a].calls)
    BY <1>9
  <2>2. a \in 1 .. Len(ms) /\ a \in Nat
    BY <1>3
  <2>3. a \in Said(ms)
    BY <2>1, <2>2 DEF Said
  <2>4. Answered(ms, a, Len(ms)) /\ Len(ms[a].calls) \in Nat
    BY <2>1, <2>2, InSequence DEF Settled, Closed
  <2>5. PICK b \in 1 .. r : at[b] = a
    BY <1>4, <2>3
  <2>6. PICK n \in Nat : n = Len(ms[a].calls)
    BY <2>4
  <2>7. \A d \in 0 .. n : b + d \in 1 .. r /\ at[b + d] = a + d
    <3>1. b \in 1 .. Len(Turns(ms)) /\ Answered(ms, at[b], Len(ms)) /\ Len(ms[at[b]].calls) \in Nat
      BY <2>4, <2>5 DEF r
    <3>2. \A d \in 0 .. Len(ms[at[b]].calls) : b + d \in 1 .. Len(Turns(ms)) /\ at[b + d] = at[b] + d
      BY <3>1, CutTogether, SMTT(60)
    <3> QED
      BY <2>5, <2>6, <3>2 DEF r
  <2>8. PICK e \in 1 .. n : e = p - a /\ a + e = p
    <3>1. p <= a + n /\ a <= p - 1 /\ p \in Nat /\ a \in Nat /\ n \in Nat
      BY <1>3, <2>1, <2>2, <2>6
    <3>2. p - a \in 1 .. n /\ a + (p - a) = p
      BY <3>1
    <3> QED
      BY <3>2
  <2>9. b + e = k
    <3>1. b + e \in 1 .. r /\ at[b + e] = at[k]
      <4>1. e \in 0 .. n
        BY <2>6
      <4> QED
        BY <1>2, <2>7, <2>8, <4>1
    <3>2. ~(at[k] < at[k])
      BY <1>3, <1>4
    <3>3. ~(b + e < k) /\ ~(k < b + e)
      BY <1>3, <1>4, <3>1, <3>2
    <3> QED
      BY <1>3, <3>1, <3>3
  <2>10. CASE b > off
    <3>1. PICK j : j = h + (b - off)
      OBVIOUS
    <3>2. j \in Nat /\ i = j + e /\ j \in 1 .. i - 1
      BY <1>3, <1>7, <2>5, <2>6, <2>8, <2>9, <2>10, <3>1
    <3>3. out[j] = ms[a]
      <4>1. b \in off + 1 .. r
        BY <1>3, <2>5, <2>10
      <4> QED
        BY <1>4, <2>5, <3>1, <4>1
    <3>4. i <= j + Len(out[j].calls)
      <4>1. Len(out[j].calls) = n
        BY <2>6, <3>3
      <4>2. e <= n
        BY <2>6
      <4> QED
        BY <2>6, <3>2, <4>1, <4>2
    <3> QED
      BY <2>1, <3>2, <3>3, <3>4 DEF Belongs
  <2>11. CASE ~(b > off)
    <3>1. ASSUME NEW x \in h + 1 .. i
          PROVE  out[x].role = "tool"
      <4>1. x \in h + 1 .. Len(out)
        BY <1>3
      <4>2. out[x] = ms[at[off + (x - h)]]
        BY <1>4, <4>1
      <4>3. PICK d \in 1 .. n : b + d = off + (x - h)
        <5>1. PICK d : d = off + (x - h) - b
          OBVIOUS
        <5>2. d \in 1 .. n /\ b + d = off + (x - h)
          BY <1>3, <1>7, <2>5, <2>6, <2>8, <2>9, <2>11, <5>1
        <5> QED
          BY <5>2
      <4>4. at[b + d] = a + d
        BY <2>6, <2>7
      <4>5. ms[a + d].role = "tool"
        <5>1. a + d \in a + 1 .. a + n
          BY <2>2, <2>6
        <5> QED
          BY <2>4, <2>6, <5>1 DEF Answered
      <4> QED
        BY <4>2, <4>3, <4>4, <4>5
    <3>2. Follows(out, h, i)
      BY <3>1 DEF Follows
    <3> QED
      BY <1>8, <3>2
  <2> QED
    BY <2>10, <2>11
<1>10. p \in Nat /\ k \in Nat /\ r \in Nat /\ k \in 1 .. r
  BY <1>3
<1>11. CASE \E j \in 2 .. p - 1 : ms[j] = Note("summary") /\ Follows(ms, j, p)
  <2>1. PICK j \in 2 .. p - 1 : ms[j] = Note("summary") /\ Follows(ms, j, p)
    BY <1>11
  <2>2. j \in 2 .. Len(ms) /\ j \in Nat
    BY <1>3
  <2>3. \A x \in 1 .. j - 1 : ms[x].role = "system"
    BY <2>1, <2>2 DEF Settled, Prompted, IsSystem
  <2>4. ms[j].role = "system"
    BY <2>1, NewMessages
  <2>5. ASSUME NEW x \in h + 1 .. i
        PROVE  out[x].role = "tool"
    <3>1. x \in h + 1 .. Len(out)
      BY <1>3
    <3>2. PICK y \in 1 .. r : y = off + (x - h) /\ out[x] = ms[at[y]]
      BY <1>4, <3>1
    <3>3. PICK q \in Nat : q = at[y] /\ q \in Said(ms)
      BY <1>4
    <3>4. q \in 1 .. Len(ms) /\ ms[q].role # "system"
      BY <3>3 DEF Said
    <3>5. j < q
      BY <1>3, <2>2, <2>3, <2>4, <3>3, <3>4
    <3>6. q <= p
      <4>1. y <= k
        <5>1. x \in Int /\ i \in Int /\ h \in Int /\ off \in Int /\ x <= i
          BY <1>3, <1>7
        <5>2. off + (x - h) <= off + (i - h)
          BY <5>1
        <5> QED
          BY <1>7, <3>2, <5>2
      <4>2. CASE y = k
        BY <1>2, <1>3, <3>3, <4>2
      <4>3. CASE y < k
        <5>1. at[y] < at[k]
          BY <1>4, <4>3, <1>10
        <5> QED
          BY <1>2, <1>10, <3>3, <5>1
      <4>4. y \in Nat
        BY <1>10
      <4> QED
        BY <1>10, <4>1, <4>2, <4>3, <4>4
    <3>7. q \in j + 1 .. p
      BY <1>10, <2>2, <3>3, <3>5, <3>6
    <3> QED
      BY <2>1, <3>2, <3>3, <3>7 DEF Follows
  <2>6. Follows(out, h, i)
    BY <2>5 DEF Follows
  <2> QED
    BY <1>8, <2>6
<1> QED
  BY <1>6, <1>9, <1>11 DEF Belongs

(* So compaction, wherever it cuts, leaves a conversation in order, and    *)
(* keeps the last thing said.                                              *)
LEMMA SettledCompacted ==
    ASSUME NEW ms \in Seq(Messages), NEW m, Settled(ms, m), CanCompact(ms)
    PROVE  /\ Compacted(ms) \in Seq(Messages) /\ Settled(Compacted(ms), m)
           /\ ms[Len(ms)].role # "system" =>
                 \E i \in DOMAIN Compacted(ms) : Compacted(ms)[i] = ms[Len(ms)]
<1> DEFINE out == Compacted(ms)
<1>1. Len(ms) > 0 /\ ms[1].role = "system" /\ Len(ms) \in Nat
  BY PromptIsNoSummary, InSequence DEF Settled, Prompted
<1>2. out \in Seq(Messages) /\ \E h, off, at : Cut(ms, out, h, off, at)
  BY <1>1, CompactedCut
<1> HIDE DEF out
<1>3. PICK h, off, at : Cut(ms, out, h, off, at)
  BY <1>2
<1>4. Prompted(out, m)
  BY <1>3, CutPrompted DEF Settled
<1>5. Closed(out, Len(out))
  <2>1. Closed(ms, Len(ms))
    BY DEF Settled
  <2>2. ASSUME NEW i \in h + 1 .. Len(out)
        PROVE  /\ out[i].role = "assistant" => Answered(out, i, Len(out))
               /\ out[i].role = "tool" => Belongs(out, i)
    BY <1>3, <2>1, CutAnswered, CutBelongs
  <2>3. \A i \in 1 .. h : out[i].role = "system"
    BY <1>3 DEF Cut
  <2>4. \A i \in 1 .. Len(out) : i \in 1 .. h \/ i \in h + 1 .. Len(out)
    <3>1. h \in Nat /\ Len(out) \in Nat
      BY <1>2, LenProperties, <1>3 DEF Cut
    <3> QED
      BY <3>1
  <2> QED
    BY <2>2, <2>3, <2>4 DEF Closed
<1>6. ASSUME ms[Len(ms)].role # "system"
      PROVE  \E i \in DOMAIN out : out[i] = ms[Len(ms)]
  <2> DEFINE r == Len(Turns(ms))
             n == Len(ms)
  <2>1. /\ r \in Nat /\ off \in Nat /\ Len(out) = h + (r - off) /\ h \in Nat
        /\ \A k \in 1 .. r : at[k] \in 1 .. n
        /\ \A j, k \in 1 .. r : j < k => at[j] < at[k]
        /\ \A k \in off + 1 .. r : /\ h + (k - off) \in h + 1 .. Len(out)
                                   /\ out[h + (k - off)] = ms[at[k]]
    <3>1. r \in Nat /\ off \in Nat /\ Len(out) = h + (r - off) /\ h \in Nat
      BY <1>3, CutFacts
    <3>2. \A k \in 1 .. r : at[k] \in 1 .. n
      BY <1>3, CutFacts
    <3>3. \A j, k \in 1 .. r : j < k => at[j] < at[k]
      BY <1>3, CutFacts
    <3>4. \A k \in off + 1 .. r : /\ h + (k - off) \in h + 1 .. Len(out)
                                  /\ out[h + (k - off)] = ms[at[k]]
      BY <1>3, CutFacts
    <3> QED
      BY <3>1, <3>2, <3>3, <3>4
  <2>2. off < r
    BY <1>3 DEF Cut
  <2>3. n \in Said(ms)
    BY <1>1, <1>6 DEF Said
  <2>4. PICK k \in 1 .. r : at[k] = n
    <3>1. \A i \in Said(ms) : \E k \in 1 .. r : at[k] = i
      BY <1>3, CutFacts
    <3> QED
      BY <2>3, <3>1
  <2> HIDE DEF r, n
  <2>5. k = r
    <3>1. SUFFICES ASSUME k < r
                   PROVE  FALSE
      BY <2>1, <2>4
    <3>2. r \in 1 .. r
      BY <2>1, <2>2
    <3>3. at[k] < at[r] /\ at[r] \in 1 .. n
      BY <2>1, <3>1, <3>2
    <3> QED
      BY <1>1, <2>4, <3>3 DEF n
  <2>6. r \in off + 1 .. r
    BY <2>1, <2>2
  <2>7. out[h + (r - off)] = ms[n] /\ h + (r - off) \in h + 1 .. Len(out)
    BY <2>1, <2>4, <2>5, <2>6
  <2>8. h + (r - off) \in DOMAIN out
    <3>1. DOMAIN out = 1 .. Len(out) /\ Len(out) \in Nat
      BY <1>2, LenProperties
    <3> QED
      BY <2>1, <2>7, <3>1
  <2> QED
    BY <2>7, <2>8 DEF n
<1>7. out \in Seq(Messages) /\ Settled(out, m)
  BY <1>2, <1>4, <1>5 DEF Settled
<1> QED
  BY <1>6, <1>7 DEF out

-----------------------------------------------------------------------------
(* The steps.                                                              *)

CallKinds == {"read", "write", "unknown"}
Saves == [mode : Modes, messages : Seq(Messages)]

LEMMA PromptExists ==
    ASSUME NEW ms \in Seq(Messages), NEW m, Prompted(ms, m)
    PROVE  HasPrompt(ms) /\ ms[1].mode = m
<1>1. ms # <<>> /\ ms[1] \in Prompts /\ ms[1].mode = m
  BY EmptySeq DEF Prompted
<1> QED
  BY <1>1, PromptIsNoSummary DEF HasPrompt, IsSystem

LEMMA IInvInit == Init => IInv
<1> SUFFICES ASSUME Init
             PROVE  IInv
  OBVIOUS
<1>1. /\ pc = "off" /\ messages = <<>> /\ mode = "build" /\ goal = NoGoal /\ auto = FALSE /\ skills = FALSE
      /\ pending = <<>> /\ step = 0 /\ cancelled = FALSE /\ saved = NoSession
      /\ turn = 0 /\ nextId = 1 /\ commands = 0
  BY DEF Init, Idle
<1>2. messages \in Seq(Messages) /\ pending \in Seq([id : 1 .. nextId - 1, kind : CallKinds])
  BY <1>1, EmptySeq
<1>3. step \in 0 .. MaxSteps - 1
  BY <1>1, AgentAssumption
<1>4. TypeOK
  <2>1. pc \in {"prompt", "model", "tools", "ask", "off"} /\ mode \in Modes /\ goal \in Goals \cup {NoGoal}
    BY <1>1 DEF Modes
  <2>2. auto \in BOOLEAN /\ skills \in BOOLEAN /\ cancelled \in BOOLEAN
    BY <1>1
  <2>3. turn \in Nat /\ nextId \in Nat \ {0} /\ commands \in Nat
    BY <1>1
  <2> QED
    BY <1>1, <1>2, <1>3, <2>1, <2>2, <2>3 DEF TypeOK, Idle, Running, CallKinds
<1>5. RequestInView
  BY <1>1 DEF RequestInView, Running
<1> QED
  BY <1>1, <1>4, <1>5 DEF IInv

(* At the prompt, and when the model is called, the conversation is        *)
(* settled.                                                                *)
LEMMA IInvSettled ==
    ASSUME IInv, pc \in {"prompt", "model"}
    PROVE  messages \in Seq(Messages) /\ Settled(messages, mode)
<1> QED
  BY DEF IInv, TypeOK, Settled

(* A step that ends at the prompt or at the model. *)
LEMMA IInvNext ==
    ASSUME IInv, pc' \in {"prompt", "model"},
           messages' \in Seq(Messages), Settled(messages', mode'), mode' \in Modes,
           goal' \in Goals \cup {NoGoal}, auto' \in BOOLEAN, skills' \in BOOLEAN, cancelled' \in BOOLEAN,
           step' \in 0 .. MaxSteps - 1, pending' = <<>>,
           pc' = "prompt" => step' = 0 /\ cancelled' = FALSE,
           pc' = "model" => \E i \in DOMAIN messages' : messages'[i] = UserMsg(turn'),
           \/ saved' = saved
           \/ saved' \in Saves /\ Settled(saved'.messages, saved'.mode),
           turn' \in Nat, nextId' \in Nat \ {0}, commands' \in Nat
    PROVE  IInv'
<1>1. Prompted(messages', mode') /\ Closed(messages', Len(messages')) /\ HasPrompt(messages')
  BY PromptExists DEF Settled
<1>2. pending' \in Seq([id : 1 .. nextId' - 1, kind : CallKinds])
  BY EmptySeq
<1>3. saved' \in Saves \cup {NoSession} /\ (saved' # NoSession => Settled(saved'.messages, saved'.mode))
  BY DEF IInv, TypeOK, Saves
<1>4. Running' <=> pc' = "model"
  BY DEF Running
<1>5. Idle' <=> pending' = <<>> /\ step' = 0 /\ cancelled' = FALSE
  BY DEF Idle
<1>6. TypeOK'
  BY <1>1, <1>2, <1>3, <1>4, <1>5 DEF TypeOK, CallKinds, Saves
<1>7. RequestInView'
  BY <1>4 DEF RequestInView
<1> QED
  BY <1>1, <1>3, <1>6, <1>7 DEF IInv

LEMMA IInvUserTurn ==
    ASSUME IInv, UserTurn
    PROVE  IInv'
<1> DEFINE ms == Append(messages, UserMsg(turn'))
<1>1. messages \in Seq(Messages) /\ Settled(messages, mode)
  BY IInvSettled DEF UserTurn
<1>2. /\ pc' = "model" /\ turn' = turn + 1
      /\ messages' = ms \/ (CanCompact(ms) /\ messages' = Compacted(ms))
      /\ mode' = mode /\ goal' = goal /\ auto' = auto /\ skills' = skills
      /\ pending' = pending /\ step' = step /\ cancelled' = cancelled
      /\ saved' = saved /\ nextId' = nextId /\ commands' = commands
  BY DEF UserTurn, settings, loop
<1>3. /\ mode \in Modes /\ goal \in Goals \cup {NoGoal} /\ auto \in BOOLEAN /\ skills \in BOOLEAN
      /\ turn \in Nat /\ nextId \in Nat \ {0} /\ commands \in Nat
      /\ pending = <<>> /\ step = 0 /\ cancelled = FALSE
  BY DEF IInv, TypeOK, UserTurn, Running, Idle
<1>4. UserMsg(turn') \in Messages /\ UserMsg(turn').role = "user"
  BY <1>2, <1>3, NewMessages
<1>5. ms \in Seq(Messages) /\ Settled(ms, mode)
  BY <1>1, <1>4, SettledAppend
<1>6. Len(ms) \in DOMAIN ms /\ ms[Len(ms)] = UserMsg(turn')
  <2>1. Len(ms) = Len(messages) + 1 /\ ms[Len(messages) + 1] = UserMsg(turn') /\ Len(messages) \in Nat
    BY <1>1, <1>4, AppendProperties, LenProperties
  <2>2. DOMAIN ms = 1 .. Len(ms)
    BY <1>5, LenProperties
  <2> QED
    BY <2>1, <2>2
<1> HIDE DEF ms
<1>7. /\ messages' \in Seq(Messages) /\ Settled(messages', mode)
      /\ \E i \in DOMAIN messages' : messages'[i] = UserMsg(turn')
  <2>1. CASE messages' = ms
    BY <1>5, <1>6, <2>1
  <2>2. CASE CanCompact(ms) /\ messages' = Compacted(ms)
    <3>1. ms[Len(ms)].role # "system"
      BY <1>4, <1>6
    <3>2. /\ Compacted(ms) \in Seq(Messages) /\ Settled(Compacted(ms), mode)
          /\ \E i \in DOMAIN Compacted(ms) : Compacted(ms)[i] = ms[Len(ms)]
      BY <1>5, <2>2, <3>1, SettledCompacted
    <3> QED
      BY <1>6, <2>2, <3>2
  <2> QED
    BY <1>2, <2>1, <2>2
<1>8. step' \in 0 .. MaxSteps - 1 /\ turn' \in Nat
  BY <1>2, <1>3, AgentAssumption
<1> QED
  BY <1>2, <1>3, <1>7, <1>8, IInvNext

LEMMA IInvFinalAnswer ==
    ASSUME IInv, FinalAnswer
    PROVE  IInv'
<1>1. messages \in Seq(Messages) /\ Settled(messages, mode)
  BY IInvSettled DEF FinalAnswer
<1>2. /\ pc' = "prompt" /\ pending' = <<>> /\ step' = 0 /\ cancelled' = FALSE
      /\ messages' = Append(messages, Assistant(<<>>))
      /\ mode' = mode /\ goal' = goal /\ auto' = auto /\ skills' = skills
      /\ saved' = saved /\ turn' = turn /\ nextId' = nextId /\ commands' = commands
  BY DEF FinalAnswer, EndTurn, settings, bounds
<1>3. /\ mode \in Modes /\ goal \in Goals \cup {NoGoal} /\ auto \in BOOLEAN /\ skills \in BOOLEAN
      /\ turn \in Nat /\ nextId \in Nat \ {0} /\ commands \in Nat
  BY DEF IInv, TypeOK
<1>4. Assistant(<<>>) \in Messages
  BY EmptySeq, NewMessages
<1>5. messages' \in Seq(Messages) /\ Settled(messages', mode')
  BY <1>1, <1>2, <1>4, SettledAppend
<1>6. step' \in 0 .. MaxSteps - 1
  BY <1>2, AgentAssumption
<1> QED
  BY <1>2, <1>3, <1>5, <1>6, IInvNext

LEMMA IInvModelFails ==
    ASSUME IInv, ModelFails
    PROVE  IInv'
<1>1. messages \in Seq(Messages) /\ Settled(messages, mode)
  BY IInvSettled DEF ModelFails
<1>2. /\ pc' = "prompt" /\ pending' = <<>> /\ step' = 0 /\ cancelled' = FALSE /\ messages' = messages
      /\ mode' = mode /\ goal' = goal /\ auto' = auto /\ skills' = skills
      /\ saved' = saved /\ turn' = turn /\ nextId' = nextId /\ commands' = commands
  BY DEF ModelFails, EndTurn, settings, bounds
<1>3. /\ mode \in Modes /\ goal \in Goals \cup {NoGoal} /\ auto \in BOOLEAN /\ skills \in BOOLEAN
      /\ turn \in Nat /\ nextId \in Nat \ {0} /\ commands \in Nat
  BY DEF IInv, TypeOK
<1>4. step' \in 0 .. MaxSteps - 1
  BY <1>2, AgentAssumption
<1> QED
  BY <1>1, <1>2, <1>3, <1>4, IInvNext

(* A step of a turn that leaves the batch open, or opens one. *)
LEMMA IInvBatch ==
    ASSUME IInv, Running, pc' \in {"tools", "ask"}, pc' = "ask" => mode = "build" /\ pending' # <<>>,
           messages' \in Seq(Messages), Prompted(messages', mode),
           \A i \in DOMAIN messages : i \in DOMAIN messages' /\ messages'[i] = messages[i],
           \E a \in DOMAIN messages' : Open(messages', a, pending'),
           nextId' \in Nat \ {0}, pending' \in Seq([id : 1 .. nextId' - 1, kind : CallKinds]),
           mode' = mode, goal' = goal, auto' \in BOOLEAN, skills' = skills, cancelled' \in BOOLEAN, step' = step,
           saved' = saved, turn' = turn, commands' = commands
    PROVE  IInv'
<1>1. /\ mode \in Modes /\ goal \in Goals \cup {NoGoal} /\ skills \in BOOLEAN
      /\ step \in 0 .. MaxSteps - 1 /\ saved \in Saves \cup {NoSession} /\ turn \in Nat /\ commands \in Nat
      /\ saved # NoSession => Settled(saved.messages, saved.mode)
      /\ RequestInView
  BY DEF IInv, TypeOK, Saves
<1>2. Running'
  BY DEF Running
<1>3. HasPrompt(messages')
  BY PromptExists
<1>4. TypeOK'
  BY <1>1, <1>2, <1>3 DEF TypeOK, CallKinds, Saves
<1>5. RequestInView'
  <2>1. PICK i \in DOMAIN messages : messages[i] = UserMsg(turn)
    BY <1>1 DEF RequestInView
  <2>2. i \in DOMAIN messages' /\ messages'[i] = UserMsg(turn')
    BY <2>1
  <2> QED
    BY <2>2 DEF RequestInView
<1> QED
  BY <1>1, <1>4, <1>5 DEF IInv

LEMMA IInvAskForTools ==
    ASSUME IInv, NEW batch \in Batches, AskForTools(batch)
    PROVE  IInv'
<1> DEFINE ids == [i \in DOMAIN batch |-> nextId + i - 1]
           calls == [i \in DOMAIN batch |-> [id |-> ids[i], kind |-> batch[i]]]
<1>1. messages \in Seq(Messages) /\ Settled(messages, mode)
  BY IInvSettled DEF AskForTools
<1>2. nextId \in Nat /\ cancelled \in BOOLEAN /\ auto \in BOOLEAN /\ Running
  BY DEF IInv, TypeOK, AskForTools, Running
<1>3. /\ pc' = "tools" /\ nextId' = nextId + Len(batch)
      /\ messages' = Append(messages, Assistant(ids)) /\ pending' = calls
      /\ mode' = mode /\ goal' = goal /\ auto' = auto /\ skills' = skills
      /\ step' = step /\ cancelled' = cancelled /\ saved' = saved /\ turn' = turn /\ commands' = commands
  BY DEF AskForTools, settings
<1>4. nextId # 0
  BY DEF IInv, TypeOK
<1>5. PICK n \in Nat : DOMAIN batch = 1 .. n /\ Len(batch) = n /\ \A i \in 1 .. n : batch[i] \in CallKinds
  <2>1. batch \in Seq(CallKinds)
    BY AgentAssumption DEF Batches, CallKinds
  <2> QED
    BY <2>1, LenProperties, ElementOfSeq
<1>6. nextId' \in Nat \ {0} /\ \A i \in 1 .. n : ids[i] = nextId + i - 1 /\ ids[i] \in 1 .. nextId' - 1
  BY <1>2, <1>3, <1>4, <1>5
<1>7. ids \in Seq(Nat) /\ Len(ids) = n /\ DOMAIN ids = 1 .. n
  <2>1. ids = [i \in 1 .. n |-> nextId + i - 1] /\ \A i \in 1 .. n : nextId + i - 1 \in Nat
    BY <1>2, <1>4, <1>5
  <2> QED
    BY <1>5, <2>1, IsASeq
<1>8. /\ calls \in Seq([id : 1 .. nextId' - 1, kind : CallKinds]) /\ Len(calls) = n /\ DOMAIN calls = 1 .. n
      /\ \A i \in 1 .. n : calls[i].id = ids[i]
  <2> HIDE DEF ids
  <2>1. calls = [i \in 1 .. n |-> [id |-> ids[i], kind |-> batch[i]]]
    BY <1>5
  <2>2. \A i \in 1 .. n : [id |-> ids[i], kind |-> batch[i]] \in [id : 1 .. nextId' - 1, kind : CallKinds]
    BY <1>5, <1>6
  <2> QED
    BY <1>5, <2>1, <2>2, IsASeq
<1> HIDE DEF ids, calls
<1>9. {calls[k].id : k \in DOMAIN calls} = ToSet(ids)
  BY <1>7, <1>8 DEF ToSet
<1>10. messages' \in Seq(Messages) /\ Prompted(messages', mode) /\ \E a \in DOMAIN messages' : Open(messages', a, pending')
  BY <1>1, <1>3, <1>7, <1>8, <1>9, OpenNew
<1>11. \A i \in DOMAIN messages : i \in DOMAIN messages' /\ messages'[i] = messages[i]
  <2>1. Assistant(ids) \in Messages
    BY <1>7, NewMessages
  <2>2. /\ DOMAIN messages = 1 .. Len(messages) /\ Len(messages) \in Nat
        /\ DOMAIN messages' = 1 .. Len(messages) + 1
        /\ \A i \in 1 .. Len(messages) : messages'[i] = messages[i]
    BY <1>1, <1>3, <2>1, AppendProperties, LenProperties
  <2> QED
    BY <2>2
<1> QED
  BY <1>2, <1>3, <1>6, <1>8, <1>10, <1>11, IInvBatch

(* While tools run, the batch is open. *)
LEMMA IInvOpen ==
    ASSUME IInv, pc \in {"tools", "ask"}
    PROVE  /\ messages \in Seq(Messages) /\ Prompted(messages, mode) /\ Running
           /\ \E a \in 1 .. Len(messages) : Open(messages, a, pending)
           /\ nextId \in Nat \ {0} /\ pending \in Seq([id : 1 .. nextId - 1, kind : CallKinds])
           /\ Len(pending) \in Nat /\ DOMAIN pending = 1 .. Len(pending)
           /\ \A i \in 1 .. Len(pending) : pending[i].id \in Nat /\ pending[i] \in [id : 1 .. nextId - 1, kind : CallKinds]
           /\ cancelled \in BOOLEAN /\ auto \in BOOLEAN
<1>1. /\ messages \in Seq(Messages) /\ Prompted(messages, mode)
      /\ \E a \in DOMAIN messages : Open(messages, a, pending)
      /\ nextId \in Nat \ {0} /\ pending \in Seq([id : 1 .. nextId - 1, kind : CallKinds])
      /\ cancelled \in BOOLEAN /\ auto \in BOOLEAN
  BY DEF IInv, TypeOK, CallKinds
<1>2. Running
  BY DEF Running
<1>3. DOMAIN messages = 1 .. Len(messages) /\ DOMAIN pending = 1 .. Len(pending) /\ Len(pending) \in Nat
  BY <1>1, LenProperties
<1>4. \A i \in 1 .. Len(pending) : pending[i] \in [id : 1 .. nextId - 1, kind : CallKinds]
  BY <1>1, ElementOfSeq
<1>5. \A i \in 1 .. Len(pending) : pending[i].id \in Nat
  BY <1>1, <1>4
<1> QED
  BY <1>1, <1>2, <1>3, <1>4, <1>5

(* Results are appended, and their calls are no longer pending. *)
LEMMA IInvResults ==
    ASSUME IInv, pc \in {"tools", "ask"}, pc' = "tools", auto' \in BOOLEAN,
           NEW results, results \in Seq(Messages), \A i \in 1 .. Len(results) : results[i].role = "tool",
           messages' = messages \o results,
           pending' \in Seq([id : 1 .. nextId - 1, kind : CallKinds]),
           Len(results) + Len(pending') = Len(pending),
           {results[i].call : i \in 1 .. Len(results)} \cup {pending'[k].id : k \in DOMAIN pending'}
               = {pending[k].id : k \in DOMAIN pending},
           mode' = mode, goal' = goal, skills' = skills, cancelled' = cancelled, step' = step,
           saved' = saved, turn' = turn, nextId' = nextId, commands' = commands
    PROVE  IInv'
<1> DEFINE n == Len(messages)
           x == Len(results)
           ns == messages \o results
<1>1. /\ messages \in Seq(Messages) /\ Prompted(messages, mode) /\ Running
      /\ nextId \in Nat \ {0} /\ cancelled \in BOOLEAN
  BY IInvOpen
<1>2. PICK a \in 1 .. n : Open(messages, a, pending)
  BY IInvOpen
<1>3. n \in Nat /\ x \in Nat /\ Len(pending) \in Nat /\ Len(pending') \in Nat
  BY <1>1, IInvOpen, LenProperties
<1>4. /\ ns \in Seq(Messages) /\ Len(ns) = n + x
      /\ \A i \in 1 .. n + x : ns[i] = IF i <= n THEN messages[i] ELSE results[i - n]
  BY <1>1, ConcatProperties
<1> HIDE DEF ns
<1>5. \A i \in 1 .. n : ns[i] = messages[i]
  <2>1. \A i \in 1 .. n : i \in 1 .. n + x /\ i <= n
    BY <1>3
  <2> QED
    BY <1>4, <2>1
<1>6. \A i \in n + 1 .. n + x : i - n \in 1 .. x /\ ns[i] = results[i - n]
  <2>1. \A i \in n + 1 .. n + x : i \in 1 .. n + x /\ ~(i <= n) /\ i - n \in 1 .. x
    BY <1>3
  <2> QED
    BY <1>4, <2>1
<1>7. \A k \in 1 .. x : n + k \in n + 1 .. n + x /\ ns[n + k] = results[k]
  <2>1. ASSUME NEW k \in 1 .. x
        PROVE  n + k \in n + 1 .. n + x /\ ns[n + k] = results[k]
    <3>1. PICK i : i = n + k
      OBVIOUS
    <3> HIDE DEF n, x
    <3>2. i \in n + 1 .. n + x /\ i - n = k
      BY <1>3, <3>1
    <3> QED
      BY <1>6, <3>1, <3>2
  <2> QED
    BY <2>1
<1>8. {ns[i].call : i \in n + 1 .. n + x} = {results[k].call : k \in 1 .. x}
  <2>1. ASSUME NEW i \in n + 1 .. n + x
        PROVE  ns[i].call \in {results[k].call : k \in 1 .. x}
    BY <1>6
  <2>2. ASSUME NEW k \in 1 .. x
        PROVE  results[k].call \in {ns[i].call : i \in n + 1 .. n + x}
    BY <1>7
  <2> QED
    BY <2>1, <2>2
<1>9. Prompted(ns, mode) /\ Open(ns, a, pending')
  <2>1. n <= Len(ns) /\ Len(ns) + Len(pending') = n + Len(pending)
    <3>1. PICK u, v : u = Len(pending') /\ v = Len(pending)
      OBVIOUS
    <3>2. x + u = v
      BY <3>1
    <3>3. n \in Nat /\ x \in Nat /\ u \in Nat /\ v \in Nat
      BY <1>3, <3>1
    <3> HIDE DEF n, x
    <3>4. n <= n + x /\ n + x + u = n + v
      BY <3>2, <3>3
    <3> QED
      BY <1>4, <3>1, <3>4
  <2>2. \A i \in n + 1 .. Len(ns) : ns[i].role = "tool"
    BY <1>4, <1>6
  <2>3. {ns[i].call : i \in n + 1 .. Len(ns)} \cup {pending'[k].id : k \in DOMAIN pending'}
            = {pending[k].id : k \in DOMAIN pending}
    BY <1>4, <1>8
  <2> QED
    BY <1>1, <1>2, <1>4, <1>5, <2>1, <2>2, <2>3, OpenMore
<1>10. DOMAIN messages = 1 .. n /\ DOMAIN ns = 1 .. n + x
  BY <1>1, <1>4, LenProperties
<1>11. messages' = ns /\ a \in DOMAIN messages'
  <2>1. messages' = ns
    BY DEF ns
  <2> QED
    BY <1>3, <1>10, <2>1
<1>12. \A i \in DOMAIN messages : i \in DOMAIN messages' /\ messages'[i] = messages[i]
  BY <1>3, <1>5, <1>10, <1>11
<1>13. /\ messages' \in Seq(Messages) /\ Prompted(messages', mode)
       /\ \E b \in DOMAIN messages' : Open(messages', b, pending')
       /\ nextId' \in Nat \ {0} /\ cancelled' \in BOOLEAN
       /\ pending' \in Seq([id : 1 .. nextId' - 1, kind : CallKinds])
  BY <1>1, <1>4, <1>9, <1>11
<1> QED
  BY <1>1, <1>12, <1>13, IInvBatch

(* Reads and Others divide the batch between them. *)
LEMMA ReadsAndOthers ==
    ASSUME NEW S, NEW calls \in Seq(S)
    PROVE  /\ Reads(calls) \in Seq(S) /\ Others(calls) \in Seq(S)
           /\ Len(Reads(calls)) + Len(Others(calls)) = Len(calls)
           /\ \A k \in 1 .. Len(Reads(calls)) : \E i \in 1 .. Len(calls) : Reads(calls)[k] = calls[i]
           /\ \A k \in 1 .. Len(Others(calls)) : \E i \in 1 .. Len(calls) : Others(calls)[k] = calls[i]
           /\ \A i \in 1 .. Len(calls) : \/ \E k \in 1 .. Len(Reads(calls)) : Reads(calls)[k] = calls[i]
                                         \/ \E k \in 1 .. Len(Others(calls)) : Others(calls)[k] = calls[i]
<1> DEFINE K == {i \in DOMAIN calls : calls[i].kind = "read"}
           L == {i \in DOMAIN calls : calls[i].kind # "read"}
<1>1. DOMAIN calls = 1 .. Len(calls)
  BY LenProperties
<1>2. K \in SUBSET (1 .. Len(calls)) /\ L \in SUBSET (1 .. Len(calls)) /\ \A i \in 1 .. Len(calls) : i \in K <=> i \notin L
  BY <1>1
<1>3. PICK r : r = Reads(calls) /\ r = Collected(calls, K)
  BY DEF Reads
<1>4. PICK o : o = Others(calls) /\ o = Collected(calls, L)
  BY DEF Others
<1> HIDE DEF K, L
<1>5. r \in Seq(S) /\ o \in Seq(S)
  BY <1>3, <1>4, CollectedType
<1>6. Len(r) + Len(o) = Len(calls)
  BY <1>2, <1>3, <1>4, CollectedLen
<1>7. PICK at : Lists(calls, K, r, at)
  BY <1>2, <1>3, CollectedLists
<1>8. PICK to : Lists(calls, L, o, to)
  BY <1>2, <1>4, CollectedLists
<1>9. \A k \in 1 .. Len(r) : at[k] \in 1 .. Len(calls) /\ r[k] = calls[at[k]]
  BY <1>2, <1>7 DEF Lists
<1>10. \A k \in 1 .. Len(o) : to[k] \in 1 .. Len(calls) /\ o[k] = calls[to[k]]
  BY <1>2, <1>8 DEF Lists
<1>11. ASSUME NEW i \in 1 .. Len(calls)
       PROVE  \/ \E k \in 1 .. Len(r) : r[k] = calls[i]
              \/ \E k \in 1 .. Len(o) : o[k] = calls[i]
  <2>1. CASE i \in K
    <3>1. PICK k \in 1 .. Len(r) : at[k] = i
      BY <1>7, <2>1 DEF Lists
    <3> QED
      BY <1>9, <3>1
  <2>2. CASE i \in L
    <3>1. PICK k \in 1 .. Len(o) : to[k] = i
      BY <1>8, <2>2 DEF Lists
    <3> QED
      BY <1>10, <3>1
  <2> QED
    BY <1>2, <2>1, <2>2
<1>12. /\ \A k \in 1 .. Len(r) : \E i \in 1 .. Len(calls) : r[k] = calls[i]
       /\ \A k \in 1 .. Len(o) : \E i \in 1 .. Len(calls) : o[k] = calls[i]
  BY <1>9, <1>10
<1> QED
  BY <1>3, <1>4, <1>5, <1>6, <1>11, <1>12

LEMMA IInvRunReads ==
    ASSUME IInv, RunReads
    PROVE  IInv'
<1> DEFINE S == [id : 1 .. nextId - 1, kind : CallKinds]
           n == Len(pending)
<1>1. /\ pc \in {"tools", "ask"} /\ pc' = "tools" /\ pending' = Others(pending)
      /\ messages' = messages \o [i \in DOMAIN Reads(pending) |-> Result(Reads(pending)[i].id, "read")]
      /\ mode' = mode /\ goal' = goal /\ auto' = auto /\ skills' = skills /\ step' = step /\ cancelled' = cancelled
      /\ saved' = saved /\ turn' = turn /\ nextId' = nextId /\ commands' = commands
  BY DEF RunReads, settings, bounds
<1>2. /\ pending \in Seq(S) /\ DOMAIN pending = 1 .. n /\ n \in Nat /\ auto \in BOOLEAN
      /\ \A i \in 1 .. n : pending[i].id \in Nat
  BY <1>1, IInvOpen
<1>3. PICK r : r = Reads(pending)
  OBVIOUS
<1>4. PICK o : o = Others(pending)
  OBVIOUS
<1>5. r \in Seq(S) /\ o \in Seq(S) /\ Len(r) + Len(o) = n
  BY <1>2, <1>3, <1>4, ReadsAndOthers
<1>6. /\ \A k \in 1 .. Len(r) : \E i \in 1 .. n : r[k] = pending[i]
      /\ \A k \in 1 .. Len(o) : \E i \in 1 .. n : o[k] = pending[i]
      /\ \A i \in 1 .. n : \/ \E k \in 1 .. Len(r) : r[k] = pending[i]
                           \/ \E k \in 1 .. Len(o) : o[k] = pending[i]
  <2> HIDE DEF S
  <2> QED
    BY <1>2, <1>3, <1>4, ReadsAndOthers
<1> HIDE DEF S
<1>7. DOMAIN r = 1 .. Len(r) /\ DOMAIN o = 1 .. Len(o) /\ Len(r) \in Nat /\ Len(o) \in Nat
  BY <1>5, LenProperties
<1>8. PICK results : results = [i \in 1 .. Len(r) |-> Result(r[i].id, "read")]
  OBVIOUS
<1>9. ASSUME NEW i \in 1 .. Len(r)
      PROVE  /\ results[i] \in Messages /\ results[i].role = "tool" /\ results[i].call = r[i].id
             /\ results[i] = Result(r[i].id, "read")
  <2>1. r[i].id \in Nat
    BY <1>2, <1>6
  <2>2. "read" \in Outcomes
    BY DEF Outcomes
  <2>3. results[i] = Result(r[i].id, "read")
    BY <1>8
  <2> QED
    BY <2>1, <2>2, <2>3, NewMessages
<1>10. results \in Seq(Messages) /\ Len(results) = Len(r)
  <2>1. \A i \in 1 .. Len(r) : Result(r[i].id, "read") \in Messages
    BY <1>9
  <2> QED
    BY <1>7, <1>8, <2>1, IsASeq
<1>11. {results[i].call : i \in 1 .. Len(results)} \cup {o[k].id : k \in DOMAIN o} = {pending[k].id : k \in DOMAIN pending}
  <2>1. {results[i].call : i \in 1 .. Len(results)} = {r[i].id : i \in 1 .. Len(r)}
    BY <1>9, <1>10
  <2>2. ASSUME NEW i \in 1 .. Len(r)
        PROVE  r[i].id \in {pending[k].id : k \in 1 .. n}
    BY <1>6
  <2>3. ASSUME NEW i \in 1 .. Len(o)
        PROVE  o[i].id \in {pending[k].id : k \in 1 .. n}
    BY <1>6
  <2>4. ASSUME NEW k \in 1 .. n
        PROVE  pending[k].id \in {r[i].id : i \in 1 .. Len(r)} \cup {o[i].id : i \in 1 .. Len(o)}
    BY <1>6
  <2> QED
    BY <1>2, <1>7, <2>1, <2>2, <2>3, <2>4
<1>12. messages' = messages \o results /\ pending' = o
  BY <1>1, <1>3, <1>4, <1>7, <1>8
<1>13. pending' \in Seq([id : 1 .. nextId - 1, kind : CallKinds]) /\ Len(results) + Len(pending') = Len(pending)
  BY <1>5, <1>10, <1>12 DEF S
<1>14. \A i \in 1 .. Len(results) : results[i].role = "tool"
  BY <1>9, <1>10
<1>15. {results[i].call : i \in 1 .. Len(results)} \cup {pending'[k].id : k \in DOMAIN pending'} = {pending[k].id : k \in DOMAIN pending}
  BY <1>11, <1>12
<1>16. auto' \in BOOLEAN
  BY <1>1, <1>2
<1> QED
  BY <1>1, <1>10, <1>12, <1>13, <1>14, <1>15, <1>16, IInvResults

LEMMA IInvFinish ==
    ASSUME IInv, pc \in {"tools", "ask"}, pending # <<>>, auto' \in BOOLEAN,
           NEW outcome \in Outcomes, Finish(outcome)
    PROVE  IInv'
<1> DEFINE S == [id : 1 .. nextId - 1, kind : CallKinds]
           n == Len(pending)
<1>1. /\ pc' = "tools" /\ pending' = Tail(pending)
      /\ messages' = Append(messages, Result(Head(pending).id, outcome))
      /\ mode' = mode /\ goal' = goal /\ skills' = skills /\ step' = step /\ cancelled' = cancelled
      /\ saved' = saved /\ turn' = turn /\ nextId' = nextId /\ commands' = commands
  BY DEF Finish, bounds
<1>2. /\ pending \in Seq(S) /\ DOMAIN pending = 1 .. n /\ n \in Nat /\ messages \in Seq(Messages)
      /\ \A i \in 1 .. n : pending[i].id \in Nat
  BY IInvOpen
<1> HIDE DEF S
<1>3. /\ Head(pending) = pending[1] /\ n # 0 /\ 1 \in 1 .. n
      /\ Tail(pending) \in Seq(S) /\ Len(Tail(pending)) = n - 1
      /\ \A i \in 1 .. n - 1 : Tail(pending)[i] = pending[i + 1]
  <2>1. n # 0
    BY <1>2, EmptySeq
  <2>2. Head(pending) = pending[1]
    BY <1>2, HeadTailProperties
  <2>3. Tail(pending) \in Seq(S) /\ Len(Tail(pending)) = n - 1 /\ \A i \in 1 .. Len(Tail(pending)) : Tail(pending)[i] = pending[i + 1]
    BY <1>2, HeadTailProperties
  <2> QED
    BY <1>2, <2>1, <2>2, <2>3
<1>4. PICK t : t = Tail(pending)
  OBVIOUS
<1>5. DOMAIN t = 1 .. n - 1
  BY <1>3, <1>4, LenProperties
<1>6. PICK x : x = Result(pending[1].id, outcome)
  OBVIOUS
<1>7. x \in Messages /\ x.role = "tool" /\ x.call = pending[1].id
  BY <1>2, <1>3, <1>6, NewMessages
<1>8. /\ <<x>> \in Seq(Messages) /\ Len(<<x>>) = 1 /\ <<x>>[1] = x
      /\ messages' = messages \o <<x>>
  BY <1>1, <1>2, <1>3, <1>6, <1>7, AppendIsConcat
<1>9. {<<x>>[i].call : i \in 1 .. 1} = {pending[1].id}
  BY <1>7, <1>8
<1>10. {pending[1].id} \cup {t[k].id : k \in 1 .. n - 1} = {pending[k].id : k \in 1 .. n}
  <2>1. \A k \in 1 .. n - 1 : t[k] = pending[k + 1] /\ k + 1 \in 1 .. n
    BY <1>2, <1>3, <1>4
  <2>2. ASSUME NEW k \in 1 .. n
        PROVE  pending[k].id \in {pending[1].id} \cup {t[j].id : j \in 1 .. n - 1}
    <3>1. CASE k = 1
      BY <3>1
    <3>2. CASE k # 1
      <4>1. PICK j \in 1 .. n - 1 : j + 1 = k
        <5>1. k - 1 \in 1 .. n - 1 /\ (k - 1) + 1 = k
          BY <1>2, <3>2
        <5> QED
          BY <5>1
      <4>2. t[j].id = pending[k].id
        BY <2>1, <4>1
      <4> QED
        BY <4>2
    <3> QED
      BY <3>1, <3>2
  <2>3. ASSUME NEW j \in 1 .. n - 1
        PROVE  t[j].id \in {pending[k].id : k \in 1 .. n}
    BY <2>1
  <2> QED
    BY <1>3, <2>2, <2>3
<1>11. /\ pending' = t /\ pending' \in Seq([id : 1 .. nextId - 1, kind : CallKinds])
       /\ Len(<<x>>) + Len(pending') = Len(pending)
  <2>1. 1 + (n - 1) = n
    BY <1>2
  <2> QED
    BY <1>1, <1>3, <1>4, <1>8, <2>1 DEF S
<1>12. {<<x>>[i].call : i \in 1 .. Len(<<x>>)} \cup {pending'[k].id : k \in DOMAIN pending'} = {pending[k].id : k \in DOMAIN pending}
  BY <1>2, <1>5, <1>8, <1>9, <1>10, <1>11
<1>13. \A i \in 1 .. Len(<<x>>) : <<x>>[i].role = "tool"
  BY <1>7, <1>8
<1>14. PICK results : results = <<x>>
  OBVIOUS
<1>15. /\ results \in Seq(Messages) /\ messages' = messages \o results
       /\ Len(results) + Len(pending') = Len(pending)
       /\ \A i \in 1 .. Len(results) : results[i].role = "tool"
       /\ {results[i].call : i \in 1 .. Len(results)} \cup {pending'[k].id : k \in DOMAIN pending'}
              = {pending[k].id : k \in DOMAIN pending}
  BY <1>8, <1>11, <1>12, <1>13, <1>14
<1> QED
  BY <1>1, <1>11, <1>15, IInvResults

LEMMA IInvCalls ==
    ASSUME IInv, UnknownTool \/ BlockedInPlan \/ RunApproved \/ Answer
    PROVE  IInv'
<1>1. pc = "ask" => pending # <<>>
  BY DEF IInv
<1>2. pc \in {"tools", "ask"} /\ pending # <<>>
  BY <1>1 DEF UnknownTool, BlockedInPlan, RunApproved, Answer, Ready
<1>3. auto \in BOOLEAN
  BY DEF IInv, TypeOK
<1>4. auto' \in BOOLEAN
  BY <1>3 DEF UnknownTool, BlockedInPlan, RunApproved, Answer, Deny
<1>5. \E outcome \in Outcomes : Finish(outcome)
  <2>1. {"unknown", "blocked", "ran", "denied"} \subseteq Outcomes
    BY DEF Outcomes
  <2>2. Finish("unknown") \/ Finish("blocked") \/ Finish("ran") \/ Finish("denied")
    BY DEF UnknownTool, BlockedInPlan, RunApproved, Answer, Deny
  <2> QED
    BY <2>1, <2>2
<1> QED
  BY <1>2, <1>4, <1>5, IInvFinish

LEMMA IInvAskUser ==
    ASSUME IInv, AskUser
    PROVE  IInv'
<1>1. /\ pc = "tools" /\ pending # <<>> /\ mode # "plan" /\ pc' = "ask"
      /\ messages' = messages /\ mode' = mode /\ goal' = goal /\ auto' = auto /\ skills' = skills
      /\ pending' = pending /\ step' = step /\ cancelled' = cancelled
      /\ saved' = saved /\ turn' = turn /\ nextId' = nextId /\ commands' = commands
  BY DEF AskUser, Ready, IsBlocked, settings, loop, bounds
<1>2. /\ messages \in Seq(Messages) /\ Prompted(messages, mode) /\ Running
      /\ \E a \in 1 .. Len(messages) : Open(messages, a, pending)
      /\ nextId \in Nat \ {0} /\ pending \in Seq([id : 1 .. nextId - 1, kind : CallKinds])
      /\ cancelled \in BOOLEAN /\ auto \in BOOLEAN
  BY <1>1, IInvOpen
<1>3. mode = "build"
  BY <1>1 DEF IInv, TypeOK, Modes
<1>4. DOMAIN messages = 1 .. Len(messages)
  BY <1>2, LenProperties
<1> QED
  BY <1>1, <1>2, <1>3, <1>4, IInvBatch

LEMMA IInvBatchDone ==
    ASSUME IInv, BatchDone
    PROVE  IInv'
<1>1. /\ pc = "tools" /\ pending = <<>>
      /\ messages' = messages /\ mode' = mode /\ goal' = goal /\ auto' = auto /\ skills' = skills
      /\ saved' = saved /\ turn' = turn /\ nextId' = nextId /\ commands' = commands
  BY DEF BatchDone, settings, bounds
<1>2. messages \in Seq(Messages) /\ Settled(messages, mode)
  <2>1. /\ messages \in Seq(Messages) /\ Prompted(messages, mode)
        /\ \E a \in 1 .. Len(messages) : Open(messages, a, <<>>)
    BY <1>1, IInvOpen
  <2> QED
    BY <2>1, OpenDone DEF Settled
<1>3. /\ mode \in Modes /\ goal \in Goals \cup {NoGoal} /\ auto \in BOOLEAN /\ skills \in BOOLEAN
      /\ turn \in Nat /\ nextId \in Nat \ {0} /\ commands \in Nat
      /\ step \in 0 .. MaxSteps - 1 /\ cancelled \in BOOLEAN
  BY DEF IInv, TypeOK
<1>4. \E i \in DOMAIN messages : messages[i] = UserMsg(turn)
  BY <1>1 DEF IInv, RequestInView, Running
<1>5. CASE cancelled \/ OutOfSteps
  <2>1. pc' = "prompt" /\ pending' = <<>> /\ step' = 0 /\ cancelled' = FALSE
    BY <1>5 DEF BatchDone, EndTurn
  <2>2. step' \in 0 .. MaxSteps - 1
    BY <2>1, AgentAssumption
  <2> QED
    BY <1>1, <1>2, <1>3, <2>1, <2>2, IInvNext
<1>6. CASE ~(cancelled \/ OutOfSteps)
  <2>1. pc' = "model" /\ step' = step + 1 /\ pending' = pending /\ cancelled' = cancelled /\ ~(step + 1 >= MaxSteps)
    BY <1>6 DEF BatchDone, OutOfSteps
  <2>2. step' \in 0 .. MaxSteps - 1
    BY <1>3, <2>1, AgentAssumption
  <2> QED
    BY <1>1, <1>2, <1>3, <1>4, <2>1, <2>2, IInvNext
<1> QED
  BY <1>5, <1>6

LEMMA IInvInterrupt ==
    ASSUME IInv, Interrupt
    PROVE  IInv'
<1>1. /\ pc \in {"model", "tools", "ask"} /\ pc' = pc /\ cancelled' = TRUE
      /\ messages' = messages /\ mode' = mode /\ goal' = goal /\ auto' = auto /\ skills' = skills
      /\ pending' = pending /\ step' = step
      /\ saved' = saved /\ turn' = turn /\ nextId' = nextId /\ commands' = commands
  BY DEF Interrupt, settings, bounds
<1>2. TypeOK'
  BY <1>1 DEF IInv, TypeOK, Running, Idle
<1>3. RequestInView'
  BY <1>1 DEF IInv, RequestInView, Running
<1> QED
  BY <1>1, <1>2, <1>3 DEF IInv

(* The commands change the conversation at the prompt. *)
LEMMA IInvAtPrompt ==
    ASSUME IInv, AtPrompt, messages' \in Seq(Messages), Settled(messages', mode'), mode' \in Modes,
           goal' \in Goals \cup {NoGoal}, auto' \in BOOLEAN, skills' \in BOOLEAN,
           \/ saved' = saved
           \/ saved' \in Saves /\ Settled(saved'.messages, saved'.mode)
    PROVE  IInv'
<1>1. /\ pc = "prompt" /\ pc' = pc /\ commands' = commands + 1
      /\ pending' = pending /\ step' = step /\ cancelled' = cancelled /\ turn' = turn /\ nextId' = nextId
  BY DEF AtPrompt, loop
<1>2. /\ turn \in Nat /\ nextId \in Nat \ {0} /\ commands \in Nat /\ step \in 0 .. MaxSteps - 1
      /\ pending = <<>> /\ step = 0 /\ cancelled = FALSE
  BY <1>1 DEF IInv, TypeOK, Running, Idle
<1>3. pc' = "prompt" /\ pending' = <<>> /\ step' = 0 /\ cancelled' = FALSE /\ cancelled' \in BOOLEAN
  BY <1>1, <1>2
<1>4. turn' \in Nat /\ nextId' \in Nat \ {0} /\ commands' \in Nat /\ step' \in 0 .. MaxSteps - 1
  BY <1>1, <1>2
<1> QED
  BY <1>3, <1>4, IInvNext

LEMMA LoadSettled ==
    ASSUME IInv, NEW g, Load(g)
    PROVE  messages' \in Seq(Messages) /\ Settled(messages', mode') /\ mode' \in Modes
<1>1. saved # NoSession /\ mode' = saved.mode
  BY DEF Load
<1>2. saved \in Saves /\ Settled(saved.messages, saved.mode)
  BY <1>1 DEF IInv, TypeOK, Saves
<1>3. saved.messages \in Seq(Messages) /\ saved.mode \in Modes
  BY <1>2 DEF Saves
<1>4. HasPrompt(saved.messages)
  BY <1>2, <1>3, PromptExists DEF Settled
<1>5. messages' = saved.messages
  BY <1>4 DEF Load
<1> QED
  BY <1>1, <1>2, <1>3, <1>5

LEMMA IInvCommand ==
    ASSUME IInv, Command
    PROVE  IInv'
<1>1. AtPrompt
  BY DEF Command, ModeCommand, CycleMode, AutoCommand, SetGoal, LoadSkill, CompactCommand, Reset, Save, Resume
<1>2. messages \in Seq(Messages) /\ Settled(messages, mode)
  BY <1>1, IInvSettled DEF AtPrompt
<1>3. mode \in Modes /\ goal \in Goals \cup {NoGoal} /\ auto \in BOOLEAN /\ skills \in BOOLEAN
  BY DEF IInv, TypeOK
<1>4. ASSUME NEW m \in Modes, SetMode(m), goal' = goal, auto' \in BOOLEAN, skills' = skills, saved' = saved
      PROVE  IInv'
  <2>1. mode' = m /\ messages' = ApplySystem(messages, m, goal)
    BY <1>4 DEF SetMode
  <2>2. messages' \in Seq(Messages) /\ Settled(messages', mode')
    BY <1>2, <1>3, <2>1, SettledApplySystem
  <2> QED
    BY <1>1, <1>3, <1>4, <2>1, <2>2, IInvAtPrompt
<1>5. CASE ModeCommand
  BY <1>3, <1>4, <1>5 DEF ModeCommand
<1>6. CASE CycleMode
  <2>1. goal' = goal /\ skills' = skills /\ saved' = saved
    BY <1>6 DEF CycleMode
  <2>2. \/ SetMode("build") /\ auto' = FALSE
        \/ SetMode("plan") /\ auto' = FALSE
        \/ auto' = TRUE /\ UNCHANGED <<mode, messages>>
    BY <1>6 DEF CycleMode
  <2>3. CASE SetMode("build") /\ auto' = FALSE
    <3>1. "build" \in Modes /\ auto' \in BOOLEAN
      BY <2>3 DEF Modes
    <3> QED
      BY <1>4, <2>1, <2>3, <3>1
  <2>4. CASE SetMode("plan") /\ auto' = FALSE
    <3>1. "plan" \in Modes /\ auto' \in BOOLEAN
      BY <2>4 DEF Modes
    <3> QED
      BY <1>4, <2>1, <2>4, <3>1
  <2>5. CASE auto' = TRUE /\ UNCHANGED <<mode, messages>>
    <3>1. auto' \in BOOLEAN /\ mode' = mode /\ messages' = messages
      BY <2>5
    <3> QED
      BY <1>1, <1>2, <1>3, <2>1, <3>1, IInvAtPrompt
  <2> QED
    BY <2>2, <2>3, <2>4, <2>5
<1>7. CASE AutoCommand
  <2>1. auto' \in BOOLEAN
    BY <1>7 DEF AutoCommand
  <2>2. messages' = messages /\ mode' = mode /\ goal' = goal /\ skills' = skills /\ saved' = saved
    BY <1>7 DEF AutoCommand
  <2> QED
    BY <1>1, <1>2, <1>3, <2>1, <2>2, IInvAtPrompt
<1>8. CASE SetGoal
  <2>1. /\ goal' \in Goals \cup {NoGoal} /\ messages' = ApplySystem(messages, mode, goal')
        /\ mode' = mode /\ auto' = auto /\ skills' = skills /\ saved' = saved
    BY <1>8 DEF SetGoal
  <2>2. messages' \in Seq(Messages) /\ Settled(messages', mode')
    BY <1>2, <1>3, <2>1, SettledApplySystem
  <2> QED
    BY <1>1, <1>3, <2>1, <2>2, IInvAtPrompt
<1>9. CASE LoadSkill
  <2>1. messages' = Append(messages, Note("skill")) /\ mode' = mode /\ goal' = goal /\ auto' = auto /\ saved' = saved
    BY <1>9 DEF LoadSkill
  <2>2. skills' \in BOOLEAN
    BY <1>9 DEF LoadSkill
  <2>3. messages' \in Seq(Messages) /\ Settled(messages', mode')
    BY <1>2, <2>1, NewMessages, SettledAppend
  <2> QED
    BY <1>1, <1>3, <2>1, <2>2, <2>3, IInvAtPrompt
<1>10. CASE CompactCommand
  <2>1. /\ CanCompact(messages) /\ messages' = Compacted(messages) /\ mode' = mode /\ goal' = goal
        /\ auto' = auto /\ skills' = skills /\ saved' = saved
    BY <1>10 DEF CompactCommand, settings
  <2>2. messages' \in Seq(Messages) /\ Settled(messages', mode')
    BY <1>2, <2>1, SettledCompacted
  <2> QED
    BY <1>1, <1>3, <2>1, <2>2, IInvAtPrompt
<1>11. CASE Reset
  <2>1. /\ mode' = mode /\ goal' = goal /\ auto' = auto /\ skills' = skills /\ saved' = saved
        /\ messages' = <<messages[1]>>
    BY <1>2, <1>11, PromptExists DEF Reset, settings, Settled
  <2>2. messages[1] \in Prompts /\ messages[1].mode = mode
    BY <1>2 DEF Settled, Prompted
  <2>3. messages' \in Seq(Messages) /\ Settled(messages', mode')
    BY <2>1, <2>2, SettledPrompt
  <2> QED
    BY <1>1, <1>3, <2>1, <2>3, IInvAtPrompt
<1>12. CASE Save
  <2>1. /\ messages' = messages /\ mode' = mode /\ goal' = goal /\ auto' = auto /\ skills' = skills
        /\ saved' = Session
    BY <1>12 DEF Save, settings
  <2>2. Session \in Saves /\ Session.messages = messages /\ Session.mode = mode
    BY <1>2, <1>3 DEF Session, Saves
  <2> QED
    BY <1>1, <1>2, <1>3, <2>1, <2>2, IInvAtPrompt
<1>13. CASE Resume
  <2>1. Load(goal) /\ goal' = goal /\ auto' = auto /\ skills' = skills /\ saved' = saved
    BY <1>13 DEF Resume
  <2> QED
    BY <1>1, <1>3, <2>1, LoadSettled, IInvAtPrompt
<1> QED
  BY <1>5, <1>6, <1>7, <1>8, <1>9, <1>10, <1>11, <1>12, <1>13 DEF Command

LEMMA IInvStart ==
    ASSUME IInv, Start
    PROVE  IInv'
<1>1. /\ pc = "off" /\ pc' = "prompt" /\ goal' = NoGoal /\ skills' = FALSE
      /\ pending' = pending /\ step' = step /\ cancelled' = cancelled
      /\ saved' = saved /\ turn' = turn /\ nextId' = nextId /\ commands' = commands
  BY DEF Start, loop, bounds
<1>2. /\ pending = <<>> /\ step = 0 /\ cancelled = FALSE
      /\ turn \in Nat /\ nextId \in Nat \ {0} /\ commands \in Nat /\ step \in 0 .. MaxSteps - 1
  BY <1>1 DEF IInv, TypeOK, Running, Idle
<1>3. goal' \in Goals \cup {NoGoal}
  BY <1>1
<1>4. auto' \in BOOLEAN /\ skills' \in BOOLEAN
  BY <1>1 DEF Start
<1>5. messages' \in Seq(Messages) /\ Settled(messages', mode') /\ mode' \in Modes
  <2>1. CASE mode' \in Modes /\ messages' = <<Prompt(mode', NoGoal)>>
    BY <2>1, NewMessages, SettledPrompt
  <2>2. CASE Load(NoGoal)
    BY <2>2, LoadSettled
  <2> QED
    BY <2>1, <2>2 DEF Start
<1>6. cancelled' \in BOOLEAN
  BY <1>1, <1>2
<1> QED
  BY <1>1, <1>2, <1>3, <1>4, <1>5, <1>6, IInvNext

(* A step that ends the process. *)
LEMMA IInvOff ==
    ASSUME IInv, pc' = "off", pending' = <<>>, step' = 0, cancelled' = FALSE,
           messages' = messages, UNCHANGED <<settings, bounds>>,
           \/ saved' = saved
           \/ saved' \in Saves /\ Settled(saved'.messages, saved'.mode)
    PROVE  IInv'
<1>1. /\ mode' = mode /\ goal' = goal /\ auto' = auto /\ skills' = skills
      /\ turn' = turn /\ nextId' = nextId /\ commands' = commands
  BY DEF settings, bounds
<1>2. /\ mode \in Modes /\ goal \in Goals \cup {NoGoal} /\ auto \in BOOLEAN /\ skills \in BOOLEAN
      /\ turn \in Nat /\ nextId \in Nat \ {0} /\ commands \in Nat /\ messages \in Seq(Messages)
  BY DEF IInv, TypeOK
<1>3. saved' \in Saves \cup {NoSession} /\ (saved' # NoSession => Settled(saved'.messages, saved'.mode))
  BY DEF IInv, TypeOK, Saves
<1>4. pending' \in Seq([id : 1 .. nextId' - 1, kind : CallKinds]) /\ step' \in 0 .. MaxSteps - 1
  BY AgentAssumption, EmptySeq
<1>5. ~Running' /\ Idle' /\ cancelled' \in BOOLEAN
  BY DEF Running, Idle
<1>6. TypeOK'
  BY <1>1, <1>2, <1>3, <1>4, <1>5 DEF TypeOK, CallKinds, Saves
<1>7. RequestInView'
  BY <1>5 DEF RequestInView
<1> QED
  BY <1>3, <1>6, <1>7 DEF IInv

LEMMA IInvQuit ==
    ASSUME IInv, Quit
    PROVE  IInv'
<1>1. /\ pc = "prompt" /\ pc' = "off" /\ saved' = Session /\ messages' = messages
      /\ UNCHANGED <<settings, bounds>> /\ pending' = pending /\ step' = step /\ cancelled' = cancelled
  BY DEF Quit, loop
<1>2. pending = <<>> /\ step = 0 /\ cancelled = FALSE /\ mode \in Modes
  BY <1>1 DEF IInv, TypeOK, Running, Idle
<1>3. messages \in Seq(Messages) /\ Settled(messages, mode)
  BY <1>1, IInvSettled
<1>4. Session \in Saves /\ Session.messages = messages /\ Session.mode = mode
  BY <1>2, <1>3 DEF Session, Saves
<1>5. saved' \in Saves /\ Settled(saved'.messages, saved'.mode)
  BY <1>1, <1>3, <1>4
<1> QED
  BY <1>1, <1>2, <1>5, IInvOff

LEMMA IInvKill ==
    ASSUME IInv, Kill
    PROVE  IInv'
<1> QED
  BY IInvOff DEF Kill

LEMMA IInvStutter ==
    ASSUME IInv, UNCHANGED vars
    PROVE  IInv'
<1>1. /\ pc' = pc /\ messages' = messages /\ mode' = mode /\ goal' = goal /\ auto' = auto /\ skills' = skills
      /\ pending' = pending /\ step' = step /\ cancelled' = cancelled /\ saved' = saved
      /\ turn' = turn /\ nextId' = nextId /\ commands' = commands
  BY DEF vars, settings, loop, bounds
<1>2. TypeOK'
  BY <1>1 DEF IInv, TypeOK, Running, Idle
<1>3. RequestInView'
  BY <1>1 DEF IInv, RequestInView, Running
<1> QED
  BY <1>1, <1>2, <1>3 DEF IInv

LEMMA IInvStep == IInv /\ [Next]_vars => IInv'
<1> SUFFICES ASSUME IInv, [Next]_vars
             PROVE  IInv'
  OBVIOUS
<1>1. CASE UserTurn
  BY <1>1, IInvUserTurn
<1>2. CASE Model
  BY <1>2, IInvFinalAnswer, IInvModelFails, IInvAskForTools DEF Model
<1>3. CASE Tools \/ Answer
  BY <1>3, IInvRunReads, IInvCalls, IInvAskUser, IInvBatchDone DEF Tools
<1>4. CASE Interrupt
  BY <1>4, IInvInterrupt
<1>5. CASE Command
  BY <1>5, IInvCommand
<1>6. CASE Start
  BY <1>6, IInvStart
<1>7. CASE Quit
  BY <1>7, IInvQuit
<1>8. CASE Kill
  BY <1>8, IInvKill
<1>9. CASE UNCHANGED vars
  BY <1>9, IInvStutter
<1> QED
  BY <1>1, <1>2, <1>3, <1>4, <1>5, <1>6, <1>7, <1>8, <1>9 DEF Next

LEMMA IInvHolds == Spec => []IInv
<1> QED
  BY IInvInit, IInvStep, PTL DEF Spec

-----------------------------------------------------------------------------
(* The theorems.                                                           *)

(* The states are well typed: a turn makes at most MaxSteps requests, and  *)
(* nothing of it is left when it is over.                                  *)
THEOREM TypeCorrect == Spec => []TypeOK
<1>1. IInv => TypeOK
  BY DEF IInv
<1> QED
  BY <1>1, IInvHolds, PTL

(* What the model is told of its mode is the mode the agent enforces,      *)
(* through switches, compaction, clearing, and saving in one mode and      *)
(* resuming in another.                                                    *)
THEOREM PromptMatchesModeHolds == Spec => []PromptMatchesMode
<1>1. IInv => PromptMatchesMode
  BY DEF IInv, Prompted, PromptMatchesMode
<1> QED
  BY <1>1, IInvHolds, PTL

LEMMA CallsAnswered ==
    ASSUME NEW ms \in Seq(Messages), Closed(ms, Len(ms)),
           NEW i \in 1 .. Len(ms), ms[i].role = "assistant"
    PROVE  /\ i + Len(ms[i].calls) <= Len(ms)
           /\ \A k \in 1 .. Len(ms[i].calls) : ms[i + k].role = "tool"
           /\ ToSet(ms[i].calls) = {ms[i + k].call : k \in 1 .. Len(ms[i].calls)}
<1> DEFINE n == Len(ms[i].calls)
<1>1. i \in Nat /\ n \in Nat
  BY InSequence
<1>2. /\ i + n <= Len(ms)
      /\ \A k \in i + 1 .. i + n : ms[k].role = "tool"
      /\ ToSet(ms[i].calls) = {ms[k].call : k \in i + 1 .. i + n}
  BY DEF Closed, Answered
<1> HIDE DEF n
<1>3. \A k \in 1 .. n : i + k \in i + 1 .. i + n
  BY <1>1
<1>4. {ms[k].call : k \in i + 1 .. i + n} = {ms[i + k].call : k \in 1 .. n}
  <2>1. ASSUME NEW k \in i + 1 .. i + n
        PROVE  ms[k].call \in {ms[i + j].call : j \in 1 .. n}
    <3>1. PICK j \in 1 .. n : i + j = k
      <4>1. k - i \in 1 .. n /\ i + (k - i) = k
        BY <1>1
      <4> QED
        BY <4>1
    <3> QED
      BY <3>1
  <2> QED
    BY <1>3, <2>1
<1>5. \A k \in 1 .. n : ms[i + k].role = "tool"
  BY <1>2, <1>3
<1> QED
  BY <1>2, <1>4, <1>5 DEF n

(* Between turns and when the model is called, the calls of every          *)
(* assistant message have their results right behind it, one each, and a   *)
(* result has its call before it or stands behind the summary: whatever    *)
(* was denied, blocked, unknown, interrupted, compacted, saved or resumed. *)
THEOREM EveryCallAnsweredHolds == Spec => []EveryCallAnswered
<1>1. IInv => EveryCallAnswered
  <2> SUFFICES ASSUME IInv, pc \in {"model", "prompt"}, NEW i \in DOMAIN messages
               PROVE  /\ messages[i].role = "assistant" =>
                            /\ i + Len(messages[i].calls) <= Len(messages)
                            /\ \A k \in 1 .. Len(messages[i].calls) : messages[i + k].role = "tool"
                            /\ ToSet(messages[i].calls)
                                   = {messages[i + k].call : k \in 1 .. Len(messages[i].calls)}
                      /\ messages[i].role = "tool" =>
                            \/ BehindSummary(i)
                            \/ \E j \in 1 .. i - 1 : /\ messages[j].role = "assistant"
                                                     /\ messages[i].call \in ToSet(messages[j].calls)
    BY DEF EveryCallAnswered
  <2>1. messages \in Seq(Messages) /\ Closed(messages, Len(messages))
    BY IInvSettled DEF Settled
  <2>2. i \in 1 .. Len(messages) /\ i \in Nat /\ Len(messages) \in Nat
    BY <2>1, LenProperties
  <2>3. ASSUME messages[i].role = "tool"
        PROVE  \/ BehindSummary(i)
               \/ \E j \in 1 .. i - 1 : /\ messages[j].role = "assistant"
                                        /\ messages[i].call \in ToSet(messages[j].calls)
    <3>1. Belongs(messages, i)
      BY <2>1, <2>2, <2>3 DEF Closed
    <3>2. ASSUME NEW a \in 1 .. i - 1, messages[a].role = "assistant", i <= a + Len(messages[a].calls)
          PROVE  messages[i].call \in ToSet(messages[a].calls)
      <4>1. a \in 1 .. Len(messages)
        BY <2>2
      <4>2. Len(messages[a].calls) \in Nat
        BY <2>1, <3>2, <4>1, InSequence
      <4>3. ToSet(messages[a].calls) = {messages[k].call : k \in a + 1 .. a + Len(messages[a].calls)}
        BY <2>1, <3>2, <4>1 DEF Closed, Answered
      <4>4. i \in a + 1 .. a + Len(messages[a].calls)
        BY <2>2, <3>2, <4>2
      <4> QED
        BY <4>3, <4>4
    <3>3. ASSUME NEW j \in 2 .. i - 1, messages[j] = Note("summary"), Follows(messages, j, i)
          PROVE  BehindSummary(i)
      <4>1. j \in 1 .. i - 1
        BY <2>2
      <4> QED
        BY <3>3, <4>1 DEF BehindSummary, Follows
    <3> QED
      BY <3>1, <3>2, <3>3 DEF Belongs
  <2> QED
    BY <2>1, <2>2, <2>3, CallsAnswered
<1> QED
  BY <1>1, IInvHolds, PTL

(* During a turn the input it answers stays in the conversation, whatever  *)
(* compaction drops.                                                       *)
THEOREM RequestInViewHolds == Spec => []RequestInView
<1>1. IInv => RequestInView
  BY DEF IInv
<1> QED
  BY <1>1, IInvHolds, PTL

(* The last message of a conversation that grew. *)
LEMMA LastAppended ==
    ASSUME NEW ms \in Seq(Messages), NEW x \in Messages
    PROVE  Last(Append(ms, x)) = x
<1> QED
  BY AppendProperties DEF Last

LEMMA FinishedWith ==
    ASSUME IInv, pc \in {"tools", "ask"}, pending # <<>>, NEW outcome \in Outcomes, Finish(outcome)
    PROVE  Last(messages').outcome = outcome
<1>1. messages' = Append(messages, Result(Head(pending).id, outcome))
  BY DEF Finish
<1>2. /\ messages \in Seq(Messages) /\ Head(pending) = pending[1] /\ pending[1].id \in Nat
  <2>1. /\ messages \in Seq(Messages) /\ pending \in Seq([id : 1 .. nextId - 1, kind : CallKinds])
        /\ Len(pending) \in Nat /\ \A i \in 1 .. Len(pending) : pending[i].id \in Nat
    BY IInvOpen
  <2>2. Len(pending) # 0 /\ Head(pending) = pending[1]
    BY <2>1, EmptySeq, HeadTailProperties
  <2>3. 1 \in 1 .. Len(pending)
    BY <2>1, <2>2
  <2> QED
    BY <2>1, <2>2, <2>3
<1>3. PICK x : x = Result(Head(pending).id, outcome)
  OBVIOUS
<1>4. x \in Messages /\ x.outcome = outcome
  <2>1. x.outcome = outcome
    BY <1>3 DEF Result
  <2> QED
    BY <1>2, <1>3, <2>1, NewMessages
<1> QED
  BY <1>1, <1>2, <1>3, <1>4, LastAppended

(* A step that appends the result of a destructive tool that ran. *)
Grows == Len(messages') > Len(messages)
Ran == Last(messages').role = "tool" /\ Last(messages').outcome = "ran"

LEMMA ModelRunsNothing ==
    ASSUME IInv, FinalAnswer \/ \E batch \in Batches : AskForTools(batch)
    PROVE  Last(messages').role = "assistant"
<1>1. messages \in Seq(Messages)
  BY DEF IInv, TypeOK
<1>2. CASE FinalAnswer
  <2>1. messages' = Append(messages, Assistant(<<>>))
    BY <1>2 DEF FinalAnswer
  <2>2. Assistant(<<>>) \in Messages /\ Assistant(<<>>).role = "assistant"
    BY EmptySeq, NewMessages
  <2> QED
    BY <1>1, <2>1, <2>2, LastAppended
<1>3. ASSUME NEW batch \in Batches, AskForTools(batch)
      PROVE  Last(messages').role = "assistant"
  <2> DEFINE ids == [i \in DOMAIN batch |-> nextId + i - 1]
  <2>1. messages' = Append(messages, Assistant(ids))
    BY <1>3 DEF AskForTools
  <2>2. PICK n \in Nat : DOMAIN batch = 1 .. n
    <3>1. batch \in Seq(CallKinds)
      BY AgentAssumption DEF Batches, CallKinds
    <3> QED
      BY <3>1, LenProperties
  <2>3. \A i \in 1 .. n : nextId + i - 1 \in Nat
    BY DEF IInv, TypeOK
  <2>4. ids \in Seq(Nat)
    <3>1. ids = [i \in 1 .. n |-> nextId + i - 1]
      BY <2>2
    <3> QED
      BY <2>3, <3>1, IsASeq
  <2> HIDE DEF ids
  <2>5. Assistant(ids) \in Messages /\ Assistant(ids).role = "assistant"
    BY <2>4, NewMessages
  <2> QED
    BY <1>1, <2>1, <2>5, LastAppended
<1> QED
  BY <1>2, <1>3

LEMMA ReadsRunNothing ==
    ASSUME IInv, RunReads
    PROVE  Last(messages').outcome = "read"
<1>1. /\ pc = "tools" /\ Reads(pending) # <<>>
      /\ messages' = messages \o [i \in DOMAIN Reads(pending) |-> Result(Reads(pending)[i].id, "read")]
  BY DEF RunReads
<1>2. PICK r : r = Reads(pending)
  OBVIOUS
<1>3. messages \in Seq(Messages) /\ Len(messages) \in Nat
  BY LenProperties DEF IInv, TypeOK
<1>4. PICK n \in Nat : DOMAIN r = 1 .. n /\ n # 0
  <2>1. r \in Seq([id : 1 .. nextId - 1, kind : CallKinds])
    BY <1>1, <1>2, IInvOpen, ReadsAndOthers
  <2>2. Len(r) \in Nat /\ DOMAIN r = 1 .. Len(r) /\ Len(r) # 0
    BY <1>1, <1>2, <2>1, LenProperties, EmptySeq
  <2> QED
    BY <2>2
<1>5. PICK results : results = [i \in 1 .. n |-> Result(r[i].id, "read")]
  OBVIOUS
<1>6. messages' = messages \o results
  BY <1>1, <1>2, <1>4, <1>5
<1> DEFINE T == {Result(r[i].id, "read") : i \in 1 .. n}
<1>7. results \in Seq(T) /\ Len(results) = n
  <2>1. \A i \in 1 .. n : Result(r[i].id, "read") \in T
    OBVIOUS
  <2> HIDE DEF T
  <2> QED
    BY <1>4, <1>5, <2>1, IsASeq
<1>8. n \in 1 .. n /\ results[n] = Result(r[n].id, "read") /\ results[n].outcome = "read"
  <2>1. n \in 1 .. n
    BY <1>4
  <2>2. results[n] = Result(r[n].id, "read")
    BY <1>5, <2>1
  <2>3. Result(r[n].id, "read").outcome = "read"
    BY DEF Result
  <2> QED
    BY <2>1, <2>2, <2>3
<1> HIDE DEF T
<1>9. Last(messages \o results) = results[n]
  <2> DEFINE U == Messages \cup T
  <2>1. messages \in Seq(U) /\ results \in Seq(U)
    <3>1. \A i \in 1 .. Len(messages) : messages[i] \in U
      BY <1>3, ElementOfSeq
    <3>2. \A i \in 1 .. n : results[i] \in U
      BY <1>7, ElementOfSeq
    <3> QED
      BY <1>3, <1>7, <3>1, <3>2, SeqMonotonic
  <2> HIDE DEF U
  <2>2. Len(messages \o results) = Len(messages) + n
    BY <1>7, <2>1, ConcatProperties
  <2>3. (messages \o results)[Len(messages) + n] = results[n]
    BY <1>3, <1>4, <1>7, <1>8, <2>1, ConcatProperties
  <2> QED
    BY <2>2, <2>3 DEF Last
<1> QED
  BY <1>6, <1>8, <1>9

LEMMA OnlyAllowedRuns ==
    ASSUME IInv, Next, Running, Grows, Ran
    PROVE  messages[1].mode = "build" /\ (auto \/ pc = "ask")
<1>1. messages' # messages
  <2>1. Len(messages) \in Nat
    BY LenProperties DEF IInv, TypeOK
  <2> QED
    BY <2>1 DEF Grows
<1>2. messages[1].mode = mode /\ mode \in Modes /\ (pc = "ask" => mode = "build")
  BY DEF IInv, TypeOK, Prompted, Running
<1>3. pc # "prompt" /\ pc # "off"
  BY DEF Running
<1>4. ~(UserTurn \/ Command \/ Start \/ Quit)
  BY <1>3 DEF UserTurn, Command, ModeCommand, CycleMode, AutoCommand, SetGoal, LoadSkill, CompactCommand,
              Reset, Save, Resume, AtPrompt, Start, Quit
<1>5. ~(ModelFails \/ AskUser \/ BatchDone \/ Interrupt \/ Kill)
  BY <1>1 DEF ModelFails, AskUser, BatchDone, Interrupt, Kill
<1>6. ~(FinalAnswer \/ \E batch \in Batches : AskForTools(batch))
  BY ModelRunsNothing DEF Ran
<1>7. ~RunReads
  BY ReadsRunNothing DEF Ran
<1>8. ~(UnknownTool \/ BlockedInPlan)
  <2>1. {"unknown", "blocked"} \subseteq Outcomes
    BY DEF Outcomes
  <2>2. ASSUME UnknownTool  PROVE FALSE
    <3>1. pc = "tools" /\ pending # <<>> /\ Finish("unknown")
      BY <2>2 DEF UnknownTool, Ready
    <3>2. Last(messages').outcome = "unknown"
      BY <2>1, <3>1, FinishedWith
    <3> QED
      BY <3>2 DEF Ran
  <2>3. ASSUME BlockedInPlan  PROVE FALSE
    <3>1. pc = "tools" /\ pending # <<>> /\ Finish("blocked")
      BY <2>3 DEF BlockedInPlan, Ready
    <3>2. Last(messages').outcome = "blocked"
      BY <2>1, <3>1, FinishedWith
    <3> QED
      BY <3>2 DEF Ran
  <2> QED
    BY <2>2, <2>3
<1>9. RunApproved \/ Answer
  BY <1>4, <1>5, <1>6, <1>7, <1>8 DEF Next, Model, Tools
<1>10. CASE RunApproved
  <2>1. mode # "plan" /\ auto
    BY <1>10 DEF RunApproved, IsBlocked
  <2>2. mode = "build"
    BY <1>2, <2>1 DEF Modes
  <2> QED
    BY <1>2, <2>1, <2>2
<1>11. CASE Answer
  <2>1. pc = "ask"
    BY <1>11 DEF Answer
  <2> QED
    BY <1>2, <2>1
<1> QED
  BY <1>9, <1>10, <1>11

(* A destructive tool runs only if the prompt the model was given allows   *)
(* it, and the user approved it: by an answer, or by auto-approve.         *)
THEOREM ChangesAreAllowedHolds == Spec => ChangesAreAllowed
<1>1. IInv /\ [Next]_vars =>
          [/\ Running /\ Len(messages') > Len(messages) /\ Last(messages').role = "tool"
           /\ Last(messages').outcome = "ran"
           => messages[1].mode = "build" /\ (auto \/ pc = "ask")]_vars
  BY OnlyAllowedRuns DEF Grows, Ran
<1> QED
  BY <1>1, IInvHolds, PTL DEF Spec, ChangesAreAllowed

-----------------------------------------------------------------------------
(* The terminal of the session, with the same step budget.                 *)
CONSTANTS Commands, Slash, Space, Chars, Field, MaxRows, Items, ShowReasoning, MaxText, MaxChunks
VARIABLES phase, ed, frame, main, spin, lost, stopping, sig, out

Screen == INSTANCE Terminal

(* A key either starts a turn or leaves the terminal at the prompt, and    *)
(* what a turn keeps as it is.                                             *)
AtScreen == phase \in {"box", "list", "secret"}
KeepsTurn == phase' \in {"box", "list", "secret", "off"} /\ UNCHANGED <<main, spin, lost, stopping, sig, out>>

LEMMA SubmitStep ==
    ASSUME AtScreen, NEW line, Screen!Submit(line)
    PROVE  KeepsTurn \/ (sig = "off" /\ Screen!StartTurn)
<1>1. ASSUME NEW reader \in {"box", "list", "secret"}, Screen!Open(reader)
      PROVE  phase' \in {"box", "list", "secret", "off"}
  BY <1>1 DEF Screen!Open
<1> QED
  BY <1>1 DEF Screen!Submit, Screen!turnVars, KeepsTurn

LEMMA KeyStep ==
    ASSUME Screen!Keys
    PROVE  AtScreen /\ (KeepsTurn \/ (sig = "off" /\ Screen!StartTurn))
<1>1. CASE \E c \in Chars : Screen!Insert(c)
  BY <1>1 DEF Screen!Insert, Screen!Reads, Screen!turnVars, AtScreen, KeepsTurn
<1>2. CASE Screen!Backspace \/ Screen!Tab
  BY <1>2 DEF Screen!Backspace, Screen!Tab, Screen!Reads, Screen!turnVars, AtScreen, KeepsTurn
<1>3. CASE Screen!Escape \/ Screen!Bracket
  BY <1>3 DEF Screen!Escape, Screen!Bracket, Screen!turnVars, AtScreen, KeepsTurn
<1>4. CASE Screen!BareEscape
  BY <1>4 DEF Screen!BareEscape, Screen!Open, Screen!turnVars, AtScreen, KeepsTurn
<1>5. CASE \E a \in {"up", "down", "left", "right", "other"} : Screen!Arrow(a)
  BY <1>5 DEF Screen!Arrow, Screen!turnVars, AtScreen, KeepsTurn
<1>6. CASE Screen!Enter
  BY <1>6, SubmitStep DEF Screen!Enter, AtScreen
<1>7. CASE Screen!CtrlC \/ Screen!CtrlD
  BY <1>7 DEF Screen!CtrlC, Screen!CtrlD, Screen!Reads, Screen!turnVars, AtScreen, KeepsTurn
<1>8. CASE Screen!Eof
  BY <1>8, SubmitStep DEF Screen!Eof, Screen!turnVars, AtScreen, KeepsTurn
<1>9. CASE Screen!ListArrow \/ Screen!SecretArrow
  BY <1>9 DEF Screen!ListArrow, Screen!SecretArrow, Screen!turnVars, AtScreen, KeepsTurn
<1>10. CASE Screen!ListEnter \/ Screen!Close
  BY <1>10 DEF Screen!ListEnter, Screen!Close, Screen!Reads, Screen!Open, Screen!turnVars, AtScreen, KeepsTurn
<1>11. CASE Screen!SecretKey
  BY <1>11 DEF Screen!SecretKey, Screen!Reads, Screen!turnVars, AtScreen, KeepsTurn
<1> QED
  BY <1>1, <1>2, <1>3, <1>4, <1>5, <1>6, <1>7, <1>8, <1>9, <1>10, <1>11 DEF Screen!Keys

(* The spinner: a goroutine that is about to close a channel will close    *)
(* the one that is open, one that has closed it has not yet cleared the    *)
(* field, and there is only one of those.  So the field never loses a      *)
(* channel that is open, and a main goroutine that is past its stop has    *)
(* none.                                                                   *)
Spinner ==
    /\ spin \in {"nil", "open", "closed"} /\ lost = 0
    /\ stopping \in [{"main", "interrupter"} -> {"no", "close", "late", "clear"}]
    /\ \A g \in {"main", "interrupter"} :
          (stopping[g] = "close" => spin = "open") /\ (stopping[g] = "clear" => spin = "closed")
    /\ ~(stopping["main"] = "clear" /\ stopping["interrupter"] = "clear")
    /\ spin = "open" => /\ phase \in {"turn", "panic"}
                        /\ main.at \in {"model", "dead"} \/ stopping["main"] = "close"
    /\ phase \notin {"turn", "panic"} => stopping["main"] = "no"

LEMMA SpinnerInit == Screen!Init => Spinner
<1> QED
  BY DEF Screen!Init, Screen!Goroutines, Spinner

LEMMA SpinnerKeys ==
    ASSUME Spinner, Screen!Keys
    PROVE  Spinner'
<1>1. phase \notin {"turn", "panic"} /\ spin' = spin /\ lost' = lost /\ stopping' = stopping
  BY KeyStep DEF AtScreen, KeepsTurn, Screen!StartTurn
<1> QED
  BY <1>1 DEF Spinner

(* A step of the turn that does not touch the spinner leaves it alone if   *)
(* main, as far as it runs on, has stopped it or keeps waiting.            *)
LEMMA SpinnerSame ==
    ASSUME Spinner, UNCHANGED <<spin, lost, stopping>>,
           \/ phase' = phase /\ main'.at = main.at
           \/ phase = "turn" /\ stopping["main"] = "no" /\ main.at \notin {"model", "dead"}
           \/ phase' = "turn" /\ main'.at = "model"
    PROVE  Spinner'
<1> QED
  BY DEF Spinner

LEMMA SpinnerStops ==
    ASSUME Spinner, NEW g \in {"main", "interrupter"}, stopping[g] = "no", Screen!StopSpinner(g),
           spin' = spin, lost' = lost, phase' = phase,
           g = "main" => phase = "turn",
           g = "interrupter" => main'.at = main.at
    PROVE  Spinner'
<1>1. stopping' = [stopping EXCEPT ![g] = CASE spin = "open"   -> "close"
                                            [] spin = "closed" -> "late"
                                            [] spin = "nil"    -> "no"]
  BY DEF Screen!StopSpinner
<1>2. /\ stopping' \in [{"main", "interrupter"} -> {"no", "close", "late", "clear"}]
      /\ spin = "open" => stopping'[g] = "close"
      /\ spin # "open" => stopping'[g] \in {"late", "no"}
      /\ \A o \in {"main", "interrupter"} : o # g => stopping'[o] = stopping[o]
  BY <1>1 DEF Spinner
<1> QED
  BY <1>2 DEF Spinner

LEMMA SpinnerCloses ==
    ASSUME Spinner, NEW g \in {"main", "interrupter"}, Screen!CloseSpinner(g)
    PROVE  Spinner'
<1>1. lost' = lost /\ main' = main /\ phase \notin {"off", "panic"} /\ stopping[g] \in {"close", "late"}
  BY DEF Screen!CloseSpinner
<1>2. CASE /\ spin = "open" /\ spin' = "closed" /\ phase' = phase
           /\ stopping' = [o \in Screen!Goroutines |->
                              CASE o = g -> "clear"
                                [] o # g /\ stopping[o] = "close" -> "late"
                                [] OTHER -> stopping[o]]
  <2>1. /\ stopping' \in [{"main", "interrupter"} -> {"no", "close", "late", "clear"}]
        /\ stopping'[g] = "clear"
        /\ \A o \in {"main", "interrupter"} : o # g =>
              /\ stopping[o] = "close" => stopping'[o] = "late"
              /\ stopping[o] # "close" => stopping'[o] = stopping[o]
    BY <1>2 DEF Screen!Goroutines, Spinner
  <2>2. \A o \in {"main", "interrupter"} : stopping[o] # "clear"
    BY <1>2 DEF Spinner
  <2>3. phase' = "turn" \/ g = "interrupter"
    BY <1>1, <1>2 DEF Spinner
  <2> QED
    BY <1>1, <1>2, <2>1, <2>2, <2>3 DEF Spinner
<1>3. CASE phase' = "panic" /\ spin' = spin /\ stopping' = stopping
  BY <1>1, <1>3 DEF Spinner
<1> QED
  BY <1>2, <1>3 DEF Screen!CloseSpinner

LEMMA SpinnerClears ==
    ASSUME Spinner, NEW g \in {"main", "interrupter"}, Screen!ClearSpinner(g)
    PROVE  Spinner'
<1>1. /\ stopping[g] = "clear" /\ spin' = "nil" /\ phase' = phase /\ main' = main
      /\ stopping' = [stopping EXCEPT ![g] = "no"]
      /\ lost' = IF spin = "open" THEN lost + 1 ELSE lost
  BY DEF Screen!ClearSpinner
<1>2. spin = "closed" /\ lost' = lost
  BY <1>1 DEF Spinner
<1>3. /\ stopping' \in [{"main", "interrupter"} -> {"no", "close", "late", "clear"}]
      /\ stopping'[g] = "no" /\ \A o \in {"main", "interrupter"} : o # g => stopping'[o] = stopping[o]
  BY <1>1 DEF Spinner
<1>4. \A o \in {"main", "interrupter"} : o # g => stopping[o] \notin {"clear", "close"}
  BY <1>1, <1>2 DEF Spinner
<1> QED
  BY <1>1, <1>2, <1>3, <1>4 DEF Spinner

LEMMA SpinnerThinks ==
    ASSUME Spinner, Screen!Think, main'.at \in {"model", "dead"}
    PROVE  Spinner'
<1>1. /\ phase = "turn" /\ phase' = phase /\ main.at = "think" /\ stopping["main"] = "no"
      /\ lost' = lost /\ stopping' = stopping
      /\ spin' = IF spin = "nil" THEN "open" ELSE spin
  BY DEF Screen!Think, Screen!InTurn, Screen!Spinning
<1>2. spin # "open"
  BY <1>1 DEF Spinner
<1> QED
  BY <1>1, <1>2 DEF Spinner

(* The output of a turn: what was heard is printed, but for the line in    *)
(* the buffer while it is active; and nothing is buffered but from the     *)
(* first piece of an answer to the end of its model call.                  *)
Words == Nat
Streams == [heard : Seq(Words), line : Seq(Words), printed : Seq(Words), active : BOOLEAN]
Mains == [at : {"none", "think", "model", "first", "dead", "failed", "answered", "tools"}, step : Nat,
          streamed : BOOLEAN, cancelled : BOOLEAN, chunks : Nat]

Whole(o) ==
    /\ o.active => o.heard = o.printed \o o.line
    /\ ~o.active => o.heard = o.printed

Output ==
    /\ main \in Mains /\ out \in [{"text", "reasoning"} -> Streams]
    /\ \A k \in {"text", "reasoning"} : Whole(out[k])
    /\ phase \notin {"turn", "panic"} \/ ~main.streamed \/ main.at = "think" =>
           \A k \in {"text", "reasoning"} : ~out[k].active
    /\ main.at = "first" => main.streamed

LEMMA Silence ==
    /\ Screen!Silent \in Streams /\ Whole(Screen!Silent) /\ ~Screen!Silent.active
    /\ Screen!NoTurn \in Mains /\ ~Screen!NoTurn.streamed
<1> QED
  BY EmptySeq DEF Screen!Silent, Screen!NoTurn, Streams, Mains, Whole

LEMMA FlushedWhole ==
    ASSUME NEW o \in Streams, Whole(o), o.active
    PROVE  Screen!Flushed(o) \in Streams /\ Whole(Screen!Flushed(o)) /\ ~Screen!Flushed(o).active
<1>1. o.printed \in Seq(Words) /\ o.line \in Seq(Words) /\ o.heard = o.printed \o o.line
  BY DEF Streams, Whole
<1>2. o.printed \o o.line \in Seq(Words)
  BY <1>1, ConcatProperties
<1>3. PICK h \in Seq(Words), l \in Seq(Words), p \in Seq(Words) :
          o = [heard |-> h, line |-> l, printed |-> p, active |-> TRUE]
  BY <1>1 DEF Streams
<1>4. Screen!Flushed(o) = [o EXCEPT !.printed = p \o l, !.line = <<>>, !.active = FALSE]
  BY <1>3 DEF Screen!Flushed
<1>5. Screen!Flushed(o) = [heard |-> h, line |-> <<>>, printed |-> p \o l, active |-> FALSE]
  BY <1>3, <1>4
<1>6. h = p \o l /\ p \o l \in Seq(Words)
  BY <1>1, <1>2, <1>3
<1> QED
  BY <1>5, <1>6, EmptySeq DEF Streams, Whole

LEMMA ConcatAppend ==
    ASSUME NEW S, NEW p \in Seq(S), NEW l \in Seq(S), NEW x \in S
    PROVE  Append(p \o l, x) = p \o Append(l, x)
<1>1. <<x>> \in Seq(S)
  OBVIOUS
<1>2. (p \o l) \o <<x>> = p \o (l \o <<x>>)
  BY <1>1, ConcatAssociative
<1>3. p \o l \in Seq(S)
  BY ConcatProperties
<1>4. Append(p \o l, x) = (p \o l) \o <<x>> /\ Append(l, x) = l \o <<x>>
  BY <1>3, AppendIsConcat
<1> QED
  BY <1>2, <1>4

LEMMA WordsAppend ==
    ASSUME NEW p \in Seq(Words), NEW l \in Seq(Words), NEW x \in Words
    PROVE  Append(p \o l, x) = p \o Append(l, x)
<1>1. PICK W : W = Words
  OBVIOUS
<1>2. p \in Seq(W) /\ l \in Seq(W) /\ x \in W
  BY <1>1
<1> QED
  BY <1>2, ConcatAppend

LEMMA BufferedWhole ==
    ASSUME NEW o \in Streams, Whole(o), NEW word \in BOOLEAN
    PROVE  Screen!Buffered(o, word) \in Streams /\ Whole(Screen!Buffered(o, word))
<1>1. PICK began : began = IF o.active THEN o ELSE [o EXCEPT !.line = <<>>, !.active = TRUE]
  OBVIOUS
<1>2. /\ began \in Streams /\ began.active = TRUE /\ began.heard = o.heard
      /\ began.heard = began.printed \o began.line
  <2>1. CASE o.active
    BY <1>1, <2>1 DEF Streams, Whole
  <2>2. CASE ~o.active
    <3>1. began = [heard |-> o.heard, line |-> <<>>, printed |-> o.printed, active |-> TRUE]
      BY <1>1, <2>2 DEF Streams
    <3>2. o.printed \in Seq(Words) /\ o.heard = o.printed /\ o.printed \o <<>> = o.printed
      BY <2>2, ConcatEmptySeq DEF Streams, Whole
    <3> QED
      BY <3>1, <3>2, EmptySeq DEF Streams
  <2> QED
    BY <2>1, <2>2
<1>3. PICK h \in Seq(Words), l \in Seq(Words), p \in Seq(Words) : h = began.heard /\ l = began.line /\ p = began.printed
  BY <1>2 DEF Streams
<1>4. began = [heard |-> h, line |-> l, printed |-> p, active |-> TRUE] /\ h = p \o l
  BY <1>2, <1>3 DEF Streams
<1>5. CASE word
  <2>1. PICK x \in Words : x = Len(h) + 1
    BY LenProperties DEF Words
  <2>2. Screen!Buffered(o, word) = [began EXCEPT !.heard = Append(h, x), !.line = Append(l, x)]
    BY <1>1, <1>2, <1>3, <1>5, <2>1 DEF Screen!Buffered
  <2>3. PICK h2 \in Seq(Words), l2 \in Seq(Words) : h2 = Append(h, x) /\ l2 = Append(l, x)
    BY AppendProperties
  <2>4. Screen!Buffered(o, word) = [heard |-> h2, line |-> l2, printed |-> p, active |-> TRUE]
    BY <1>4, <2>2, <2>3
  <2>5. h2 = p \o l2
    BY <1>4, <2>3, WordsAppend
  <2> QED
    BY <2>4, <2>5 DEF Streams, Whole
<1>6. CASE ~word
  <2>1. Screen!Buffered(o, word) = [began EXCEPT !.printed = p \o l, !.line = <<>>]
    BY <1>1, <1>3, <1>6 DEF Screen!Buffered
  <2>2. Screen!Buffered(o, word) = [heard |-> h, line |-> <<>>, printed |-> p \o l, active |-> TRUE]
    BY <1>4, <2>1
  <2>3. h = h \o <<>>
    BY ConcatEmptySeq
  <2> QED
    BY <1>4, <2>2, <2>3, EmptySeq DEF Streams, Whole
<1> QED
  BY <1>5, <1>6

LEMMA OutputInit == Screen!Init => Output
<1> SUFFICES ASSUME Screen!Init PROVE Output
  OBVIOUS
<1>1. main = Screen!NoTurn /\ out = [k \in {"text", "reasoning"} |-> Screen!Silent]
  BY DEF Screen!Init, Screen!Kinds
<1>2. main.at = "none"
  BY <1>1 DEF Screen!NoTurn
<1> QED
  BY <1>1, <1>2, Silence DEF Output

LEMMA OutputKeys ==
    ASSUME Output, Screen!Keys
    PROVE  Output'
<1>1. phase \notin {"turn", "panic"}
  BY KeyStep DEF AtScreen
<1>2. CASE KeepsTurn
  BY <1>1, <1>2 DEF KeepsTurn, Output
<1>3. CASE Screen!StartTurn
  <2>1. main' = [Screen!NoTurn EXCEPT !.at = "think"] /\ out' = [k \in {"text", "reasoning"} |-> Screen!Silent]
    BY <1>3 DEF Screen!StartTurn, Screen!Kinds
  <2>2. main' \in Mains
    BY <2>1, Silence DEF Mains
  <2> QED
    BY <2>1, <2>2, Silence DEF Output
<1> QED
  BY <1>2, <1>3, KeyStep

(* A step that leaves the output alone. *)
LEMMA OutputSame ==
    ASSUME Output, main' \in Mains, out' = out,
           \/ phase' = phase /\ main'.at = main.at /\ main'.streamed = main.streamed
           \/ /\ phase = "turn" /\ phase' = "turn" /\ main'.at # "think"
              /\ main.at = "think" \/ main'.streamed \/ main'.streamed = main.streamed
              /\ main'.at = "first" => main'.streamed
           \/ phase = "turn" /\ phase' = "panic" /\ main' = main
           \/ phase' = phase /\ main' = main
    PROVE  Output'
<1>1. main \in Mains /\ (main.at = "first" => main.streamed)
  BY DEF Output
<1>2. main.streamed \in BOOLEAN /\ main'.streamed \in BOOLEAN
  BY <1>1 DEF Mains
<1>3. main'.at = "first" => main'.streamed
  BY <1>1, <1>2
<1>4. phase' \notin {"turn", "panic"} \/ ~main'.streamed \/ main'.at = "think" =>
          phase \notin {"turn", "panic"} \/ ~main.streamed \/ main.at = "think"
  BY <1>2
<1>5. phase \notin {"turn", "panic"} \/ ~main.streamed \/ main.at = "think" =>
          \A k \in {"text", "reasoning"} : ~out[k].active
  BY DEF Output
<1> QED
  BY <1>3, <1>4, <1>5 DEF Output

LEMMA StreamEnds ==
    ASSUME Output, Screen!StreamEnd
    PROVE  /\ out' \in [{"text", "reasoning"} -> Streams]
           /\ \A k \in {"text", "reasoning"} : Whole(out'[k]) /\ ~out'[k].active
<1>1. CASE main.streamed
  <2>1. out' = [k \in {"text", "reasoning"} |-> IF out[k].active THEN Screen!Flushed(out[k]) ELSE out[k]]
    BY <1>1 DEF Screen!StreamEnd, Screen!Kinds
  <2>2. ASSUME NEW k \in {"text", "reasoning"}
        PROVE  out'[k] \in Streams /\ Whole(out'[k]) /\ ~out'[k].active
    <3>1. out[k] \in Streams /\ Whole(out[k])
      BY DEF Output
    <3> QED
      BY <2>1, <3>1, FlushedWhole
  <2> QED
    BY <2>1, <2>2
<1>2. CASE ~main.streamed
  BY <1>2 DEF Screen!StreamEnd, Output
<1> QED
  BY <1>1, <1>2

LEMMA OutputDelta ==
    ASSUME Output, NEW kind \in {"text", "reasoning"}, NEW word \in BOOLEAN, Screen!Delta(kind, word)
    PROVE  Output'
<1>1. /\ phase = "turn" /\ phase' = "turn" /\ main.streamed
      /\ main' = [main EXCEPT !.at = "model", !.chunks = @ + 1]
      /\ out' = [k \in {"text", "reasoning"} |->
                    CASE k = kind -> Screen!Buffered(out[k], word)
                      [] k # kind /\ k = "reasoning" /\ out[k].active -> Screen!Flushed(out[k])
                      [] OTHER -> out[k]]
  BY DEF Screen!Delta, Screen!InTurn, Screen!Kinds, Output
<1>2. main' \in Mains /\ main'.streamed /\ main'.at = "model"
  <2>1. PICK m \in Mains : m = main
    BY DEF Output
  <2>2. PICK n \in Nat : n = m.chunks + 1
    BY DEF Mains
  <2>3. main' = [m EXCEPT !.at = "model", !.chunks = n]
    BY <1>1, <2>1, <2>2
  <2>4. main' \in Mains
    BY <2>3 DEF Mains
  <2>5. main'.streamed = m.streamed /\ main'.at = "model"
    BY <2>3 DEF Mains
  <2> QED
    BY <1>1, <2>1, <2>4, <2>5
<1>3. ASSUME NEW k \in {"text", "reasoning"}
      PROVE  out'[k] \in Streams /\ Whole(out'[k])
  <2>1. out[k] \in Streams /\ Whole(out[k])
    BY DEF Output
  <2>2. CASE k = kind
    <3>1. out'[k] = Screen!Buffered(out[k], word)
      BY <1>1, <2>2
    <3> QED
      BY <2>1, <3>1, BufferedWhole
  <2>3. CASE k # kind /\ k = "reasoning" /\ out[k].active
    <3>1. out'[k] = Screen!Flushed(out[k])
      BY <1>1, <2>3
    <3> QED
      BY <2>1, <2>3, <3>1, FlushedWhole
  <2>4. CASE k # kind /\ ~(k = "reasoning" /\ out[k].active)
    <3>1. out'[k] = out[k]
      BY <1>1, <2>4
    <3> QED
      BY <2>1, <3>1
  <2> QED
    BY <2>2, <2>3, <2>4
<1>4. out' \in [{"text", "reasoning"} -> Streams]
  BY <1>1, <1>3
<1> QED
  BY <1>1, <1>2, <1>3, <1>4 DEF Output

(* The steps of a turn. *)
LEMMA OutputThink ==
    ASSUME Output, Screen!Think
    PROVE  Output' /\ main'.at \in {"model", "dead"}
<1>1. PICK m \in Mains, n \in Nat, at \in {"model", "dead"} :
          /\ m = main /\ n = m.step + 1
          /\ at = IF m.cancelled THEN "dead" ELSE "model"
  BY DEF Output, Mains
<1>2. /\ main' = [m EXCEPT !.at = at, !.step = n, !.streamed = FALSE]
      /\ main.at = "think" /\ phase = "turn" /\ phase' = "turn" /\ out' = out
  BY <1>1 DEF Screen!Think, Screen!InTurn
<1>3. main' \in Mains
  BY <1>2 DEF Mains
<1>4. main'.at = at
  BY <1>2 DEF Mains
<1> QED
  BY <1>2, <1>3, <1>4, OutputSame

LEMMA OutputFirst ==
    ASSUME Output, Screen!FirstDelta
    PROVE  Output'
<1>1. PICK m \in Mains : m = main
  BY DEF Output
<1>2. /\ main' = [m EXCEPT !.at = "first", !.streamed = TRUE]
      /\ phase = "turn" /\ phase' = "turn" /\ out' = out
  BY <1>1 DEF Screen!FirstDelta, Screen!InTurn
<1>3. main' \in Mains
  BY <1>2 DEF Mains
<1>4. main'.at = "first" /\ main'.streamed
  BY <1>2 DEF Mains
<1> QED
  BY <1>2, <1>3, <1>4, OutputSame

LEMMA OutputReturns ==
    ASSUME Output, NEW result \in {"failed", "answered", "tools"}, Screen!ModelReturns(result)
    PROVE  Output'
<1>1. PICK m \in Mains : m = main
  BY DEF Output
<1>2. /\ main' = [m EXCEPT !.at = result]
      /\ phase = "turn" /\ phase' = "turn" /\ out' = out
  BY <1>1 DEF Screen!ModelReturns, Screen!InTurn
<1>3. main' \in Mains
  BY <1>2 DEF Mains
<1>4. main'.at = result /\ main'.streamed = main.streamed
  BY <1>1, <1>2 DEF Mains
<1> QED
  BY <1>2, <1>3, <1>4, OutputSame

LEMMA OutputNextStep ==
    ASSUME Output, Screen!NextStep
    PROVE  Output'
<1>1. PICK m \in Mains : m = main
  BY DEF Output
<1>2. main' = [m EXCEPT !.at = "think"] /\ Screen!StreamEnd
  BY <1>1 DEF Screen!NextStep
<1>3. main' \in Mains
  BY <1>2 DEF Mains
<1>4. main'.at = "think"
  BY <1>2 DEF Mains
<1> QED
  BY <1>2, <1>3, <1>4, StreamEnds DEF Output

LEMMA OutputEndTurn ==
    ASSUME Output, Screen!EndTurn
    PROVE  Output'
<1>1. main' = Screen!NoTurn /\ Screen!StreamEnd
  BY DEF Screen!EndTurn
<1>2. main' \in Mains /\ main'.at # "first"
  BY <1>1, Silence DEF Screen!NoTurn
<1> QED
  BY <1>1, <1>2, StreamEnds DEF Output

LEMMA OutputCancel ==
    ASSUME Output, Screen!Cancel
    PROVE  Output' /\ main'.at = main.at
<1>1. PICK m \in Mains, c \in BOOLEAN : m = main /\ c = (phase = "turn")
  BY DEF Output
<1>2. main' = [m EXCEPT !.cancelled = c] /\ phase' = phase /\ out' = out
  BY <1>1 DEF Screen!Cancel
<1>3. main' \in Mains
  BY <1>2 DEF Mains
<1>4. main'.at = main.at /\ main'.streamed = main.streamed
  BY <1>1, <1>2 DEF Mains
<1> QED
  BY <1>2, <1>3, <1>4, OutputSame

(* The goroutine that waits for Ctrl-C stops the spinner once, and then    *)
(* cancels the turn.                                                       *)
Waiter == sig # "stopping" => stopping["interrupter"] = "no"

LEMMA WaiterCloses ==
    ASSUME Waiter, Spinner, NEW g \in {"main", "interrupter"}, Screen!CloseSpinner(g) \/ Screen!ClearSpinner(g)
    PROVE  Waiter'
<1>1. sig' = sig
  BY DEF Screen!CloseSpinner, Screen!ClearSpinner
<1>2. SUFFICES ASSUME stopping["interrupter"] = "no" PROVE stopping'["interrupter"] = "no"
  BY <1>1 DEF Waiter
<1>3. CASE Screen!ClearSpinner(g)
  BY <1>2, <1>3 DEF Screen!ClearSpinner, Spinner
<1>4. CASE Screen!CloseSpinner(g)
  <2>1. g # "interrupter"
    BY <1>2, <1>4 DEF Screen!CloseSpinner
  <2> QED
    BY <1>2, <1>4, <2>1 DEF Screen!CloseSpinner, Screen!Goroutines
<1> QED
  BY <1>3, <1>4

LEMMA WaiterStep ==
    ASSUME Waiter, Spinner, [Screen!Next]_Screen!vars
    PROVE  Waiter'
<1>1. CASE Screen!Keys
  BY <1>1, KeyStep DEF KeepsTurn, Screen!StartTurn, Waiter
<1>2. CASE Screen!Think \/ Screen!NextStep \/ Screen!EndTurn
  BY <1>2 DEF Screen!Think, Screen!NextStep, Screen!EndTurn, Waiter
<1>3. ASSUME NEW k \in Screen!Kinds, NEW word \in BOOLEAN, Screen!Delta(k, word)
      PROVE  Waiter'
  BY <1>3 DEF Screen!Delta, Waiter
<1>4. ASSUME Screen!StopSpinner("main")
      PROVE  stopping'["interrupter"] = stopping["interrupter"]
  BY <1>4 DEF Screen!StopSpinner, Spinner
<1>5. CASE Screen!FirstDelta \/ \E result \in {"failed", "answered", "tools"} : Screen!ModelReturns(result)
  BY <1>4, <1>5 DEF Screen!FirstDelta, Screen!ModelReturns, Waiter
<1>6. CASE Screen!Signal \/ Screen!Interrupt \/ Screen!Cancel
  BY <1>6 DEF Screen!Signal, Screen!Interrupt, Screen!Cancel, Waiter
<1>7. CASE UNCHANGED Screen!vars
  BY <1>7 DEF Screen!vars, Screen!turnVars, Waiter
<1> QED
  BY <1>1, <1>2, <1>3, <1>5, <1>6, <1>7, WaiterCloses DEF Screen!Next, Screen!Turn, Screen!Goroutines

(* The terminal's invariant, but for the editor. *)
TurnInv == Spinner /\ Output /\ Waiter

LEMMA TurnStep ==
    ASSUME TurnInv, [Screen!Next]_Screen!vars
    PROVE  TurnInv'
<1> USE DEF TurnInv
<1>0. Waiter'
  BY WaiterStep
<1>1. ASSUME Screen!Keys PROVE Spinner' /\ Output'
  BY <1>1, SpinnerKeys, OutputKeys
<1>2. ASSUME Screen!Think PROVE Spinner' /\ Output'
  BY <1>2, OutputThink, SpinnerThinks
<1>3. ASSUME Screen!FirstDelta PROVE Spinner' /\ Output'
  <2>1. /\ phase = "turn" /\ phase' = phase /\ stopping["main"] = "no" /\ spin' = spin /\ lost' = lost
        /\ Screen!StopSpinner("main")
    BY <1>3 DEF Screen!FirstDelta, Screen!InTurn
  <2> QED
    BY <1>3, <2>1, OutputFirst, SpinnerStops
<1>4. ASSUME NEW k \in {"text", "reasoning"}, NEW word \in BOOLEAN, Screen!Delta(k, word)
      PROVE  Spinner' /\ Output'
  <2>1. Output'
    BY <1>4, OutputDelta
  <2>2. phase' = "turn" /\ UNCHANGED <<spin, lost, stopping>> /\ main' = [main EXCEPT !.at = "model", !.chunks = @ + 1]
    BY <1>4 DEF Screen!Delta, Screen!InTurn
  <2>3. main'.at = "model"
    BY <2>2 DEF Output, Mains
  <2> QED
    BY <2>1, <2>2, <2>3, SpinnerSame
<1>5. ASSUME NEW result \in {"failed", "answered", "tools"}, Screen!ModelReturns(result)
      PROVE  Spinner' /\ Output'
  <2>1. /\ phase = "turn" /\ phase' = phase /\ stopping["main"] = "no" /\ spin' = spin /\ lost' = lost
        /\ Screen!StopSpinner("main")
    BY <1>5 DEF Screen!ModelReturns, Screen!InTurn
  <2> QED
    BY <1>5, <2>1, OutputReturns, SpinnerStops
<1>6. ASSUME Screen!NextStep PROVE Spinner' /\ Output'
  <2>1. /\ phase = "turn" /\ stopping["main"] = "no" /\ main.at = "tools"
        /\ UNCHANGED <<spin, lost, stopping>>
    BY <1>6 DEF Screen!NextStep, Screen!InTurn
  <2> QED
    BY <1>6, <2>1, OutputNextStep, SpinnerSame
<1>7. ASSUME Screen!EndTurn PROVE Spinner' /\ Output'
  <2>1. /\ phase = "turn" /\ stopping["main"] = "no" /\ main.at \in {"failed", "answered", "tools"}
        /\ UNCHANGED <<spin, lost, stopping>>
    BY <1>7 DEF Screen!EndTurn, Screen!InTurn
  <2> QED
    BY <1>7, <2>1, OutputEndTurn, SpinnerSame
<1>8. ASSUME Screen!Signal PROVE Spinner' /\ Output'
  <2>1. phase' = phase /\ UNCHANGED <<main, spin, lost, stopping, out>>
    BY <1>8 DEF Screen!Signal
  <2> QED
    BY <2>1, SpinnerSame DEF Output
<1>9. ASSUME Screen!Interrupt PROVE Spinner' /\ Output'
  <2>1. /\ phase' = phase /\ main' = main /\ out' = out /\ spin' = spin /\ lost' = lost
        /\ Screen!StopSpinner("interrupter") /\ stopping["interrupter"] = "no"
    BY <1>9 DEF Screen!Interrupt, Waiter
  <2> QED
    BY <2>1, SpinnerStops DEF Output
<1>10. ASSUME Screen!Cancel PROVE Spinner' /\ Output'
  <2>1. phase' = phase /\ UNCHANGED <<spin, lost, stopping>>
    BY <1>10 DEF Screen!Cancel
  <2> QED
    BY <1>10, <2>1, OutputCancel, SpinnerSame
<1>11. ASSUME NEW g \in {"main", "interrupter"}, Screen!CloseSpinner(g) \/ Screen!ClearSpinner(g)
       PROVE  Spinner' /\ Output'
  <2>1. Spinner'
    BY <1>11, SpinnerCloses, SpinnerClears
  <2>2. (phase' = phase \/ phase' = "panic") /\ main' = main /\ out' = out
    BY <1>11 DEF Screen!CloseSpinner, Screen!ClearSpinner
  <2> QED
    BY <2>1, <2>2, OutputSame DEF Output
<1>12. ASSUME UNCHANGED Screen!vars PROVE Spinner' /\ Output'
  BY <1>12 DEF Screen!vars, Screen!turnVars, Spinner, Output
<1> QED
  BY <1>0, <1>1, <1>2, <1>3, <1>4, <1>5, <1>6, <1>7, <1>8, <1>9, <1>10, <1>11, <1>12
     DEF Screen!Next, Screen!Turn, Screen!Kinds, Screen!Goroutines

LEMMA TurnInvHolds == Screen!Spec => []TurnInv
<1>1. Screen!Init => TurnInv
  BY SpinnerInit, OutputInit DEF Screen!Init, Screen!Goroutines, Waiter, TurnInv
<1>2. TurnInv /\ [Screen!Next]_Screen!vars => TurnInv'
  BY TurnStep
<1> QED
  BY <1>1, <1>2, PTL DEF Screen!Spec

(* At the prompt no spinner draws over the input, however the end of the   *)
(* turn and Ctrl-C were interleaved (Thinking, the interrupt goroutine of  *)
(* runTurn).                                                               *)
THEOREM SpinnerOffAtPromptHolds == Screen!Spec => []Screen!SpinnerOffAtPrompt
<1>1. TurnInv => Screen!SpinnerOffAtPrompt
  BY DEF TurnInv, Spinner, Screen!SpinnerOffAtPrompt
<1> QED
  BY <1>1, TurnInvHolds, PTL

(* Whatever a turn streamed has been printed, in order, when the prompt is *)
(* back, also after a failure and after Ctrl-C (Delta, StreamEnd).         *)
THEOREM EverythingPrintedHolds == Screen!Spec => []Screen!EverythingPrinted
<1>1. TurnInv => Screen!EverythingPrinted
  BY DEF TurnInv, Output, Whole, Screen!Kinds, Screen!EverythingPrinted
<1> QED
  BY <1>1, TurnInvHolds, PTL

(* The editor.  Once render has drawn it, the cursor is in the text and    *)
(* in the field, and the selection is a command of the palette.            *)
Editors == [buf : Seq(Chars), cursor : Nat, scroll : Nat, sel : Nat \ {0},
            primed : BOOLEAN, esc : {"no", "esc", "csi"}]

Shown(e) ==
    /\ e.cursor <= Len(e.buf)
    /\ e.scroll <= e.cursor /\ e.cursor < e.scroll + Field
    /\ Screen!Palette(e.buf) # <<>> => e.sel \in 1 .. Len(Screen!Palette(e.buf))

EditorInv == phase = "box" => ed \in Editors /\ Shown(ed) /\ frame = Screen!FrameOf(ed)

(* The palette holds commands, each at most once. *)
LEMMA PaletteHolds ==
    ASSUME Screen!TerminalAssumption, NEW buf
    PROVE  /\ Screen!Palette(buf) \in Seq(Seq(Chars))
           /\ \A i, j \in 1 .. Len(Screen!Palette(buf)) :
                 Screen!Palette(buf)[i] = Screen!Palette(buf)[j] => i = j
<1>1. PICK T : T = Seq(Chars)
  OBVIOUS
<1>2. Commands \in Seq(T) /\ DOMAIN Commands = 1 .. Len(Commands)
  BY <1>1, LenProperties DEF Screen!TerminalAssumption
<1>3. PICK K : K = {i \in DOMAIN Commands : Screen!IsPrefix(buf, Commands[i])}
  OBVIOUS
<1>4. K \in SUBSET (1 .. Len(Commands))
  BY <1>2, <1>3
<1>5. PICK p : p = Screen!Palette(buf)
  OBVIOUS
<1>6. CASE p = <<>>
  <2>1. p \in Seq(T) /\ Len(p) = 0
    BY <1>6, EmptySeq
  <2> QED
    BY <1>1, <1>5, <2>1
<1>7. CASE p # <<>>
  <2>1. p = Screen!Collected(Commands, K)
    BY <1>3, <1>5, <1>7 DEF Screen!Palette
  <2>2. Screen!Collected(Commands, K) = Collected(Commands, K)
    BY DEF Screen!Collected, Collected
  <2>3. p \in Seq(T)
    BY <1>2, <2>1, <2>2, CollectedType
  <2>4. PICK at : Lists(Commands, K, p, at)
    BY <1>2, <1>4, <2>1, <2>2, CollectedLists
  <2>5. ASSUME NEW i \in 1 .. Len(p), NEW j \in 1 .. Len(p), p[i] = p[j]
        PROVE  i = j
    <3>1. at[i] \in K /\ at[j] \in K /\ Commands[at[i]] = Commands[at[j]]
      BY <2>4, <2>5 DEF Lists
    <3>2. at[i] = at[j]
      BY <1>2, <1>4, <3>1 DEF Screen!TerminalAssumption
    <3>3. \A k, m \in 1 .. Len(p) : k < m => at[k] < at[m] /\ at[k] \in Nat
      BY <2>4 DEF Lists
    <3>4. at[i] \in Nat
      BY <2>4 DEF Lists
    <3>5. ~(i < j) /\ ~(j < i)
      BY <3>2, <3>3, <3>4
    <3> QED
      BY <3>5
  <2> QED
    BY <1>1, <1>5, <2>3, <2>5
<1> QED
  BY <1>6, <1>7

(* What render leaves is shown. *)
LEMMA Redraws ==
    ASSUME Screen!TerminalAssumption, NEW e \in Editors, e.cursor <= Len(e.buf), Screen!Redraw(e)
    PROVE  ed' \in Editors /\ Shown(ed') /\ frame' = Screen!FrameOf(ed')
<1>1. /\ ed' = [e EXCEPT !.scroll = Screen!Scrolled(e), !.sel = Screen!Selected(e)]
      /\ frame' = Screen!FrameOf(ed')
  BY DEF Screen!Redraw, Screen!Drawn
<1>2. PICK c \in Nat, s \in Nat, l \in Nat \ {0} : c = e.cursor /\ s = e.scroll /\ l = e.sel
  BY DEF Editors
<1>3. PICK f \in Nat \ {0} : f = Field
  BY DEF Screen!TerminalAssumption
<1>4. PICK s2 \in Nat : s2 = Screen!Scrolled(e) /\ s2 <= c /\ c < s2 + f
  <2>1. Screen!Scrolled(e) = CASE c < s -> c [] c >= s + f -> c - f + 1 [] OTHER -> s
    BY <1>2, <1>3 DEF Screen!Scrolled
  <2>2. CASE c < s
    BY <2>1, <2>2
  <2>3. CASE c >= s + f
    <3>1. PICK t \in Nat : t = c - f + 1
      BY <2>3
    <3>2. ~(c < s) /\ t <= c /\ c < t + f
      BY <2>3, <3>1
    <3>3. Screen!Scrolled(e) = t
      BY <2>1, <2>3, <3>1, <3>2
    <3> QED
      BY <3>2, <3>3
  <2>4. CASE ~(c < s) /\ ~(c >= s + f)
    BY <2>1, <2>4
  <2> QED
    BY <2>2, <2>3, <2>4
<1>5. PICK p \in Seq(Seq(Chars)) : p = Screen!Palette(e.buf)
  BY PaletteHolds
<1>6. PICK l2 \in Nat \ {0} : l2 = Screen!Selected(e) /\ (p # <<>> => l2 \in 1 .. Len(p))
  <2>1. Screen!Selected(e) = IF p = <<>> THEN 1 ELSE IF l < Len(p) THEN l ELSE Len(p)
    BY <1>2, <1>5 DEF Screen!Selected, Screen!Least
  <2>2. Len(p) \in Nat /\ (p # <<>> => Len(p) > 0)
    BY LenProperties, EmptySeq
  <2> QED
    BY <2>1, <2>2
<1>7. ed' = [e EXCEPT !.scroll = s2, !.sel = l2]
  BY <1>1, <1>4, <1>6
<1>8. ed' \in Editors
  BY <1>7 DEF Editors
<1>9. ed'.buf = e.buf /\ ed'.cursor = c /\ ed'.scroll = s2 /\ ed'.sel = l2
  BY <1>2, <1>7 DEF Editors
<1> QED
  BY <1>1, <1>3, <1>4, <1>5, <1>6, <1>8, <1>9 DEF Shown

LEMMA NewEditorShown ==
    ASSUME Screen!TerminalAssumption
    PROVE  Screen!NewEditor \in Editors /\ Shown(Screen!NewEditor)
<1>1. Screen!NewEditor \in Editors
  BY EmptySeq DEF Screen!NewEditor, Editors
<1>2. Screen!Palette(<<>>) = <<>>
  BY DEF Screen!Palette
<1>3. Shown(Screen!NewEditor)
  BY <1>2, EmptySeq DEF Screen!NewEditor, Shown, Screen!TerminalAssumption
<1> QED
  BY <1>1, <1>3

LEMMA Opens ==
    ASSUME Screen!TerminalAssumption, NEW reader, Screen!Open(reader)
    PROVE  EditorInv'
<1>1. SUFFICES ASSUME reader = "box" PROVE EditorInv'
  BY DEF Screen!Open, EditorInv
<1>2. ed' = Screen!NewEditor /\ frame' = Screen!FrameOf(Screen!NewEditor)
  BY <1>1 DEF Screen!Open
<1> QED
  BY <1>2, NewEditorShown DEF EditorInv

(* What the frame says of the editor. *)
LEMMA FrameTells ==
    ASSUME Screen!TerminalAssumption, EditorInv
    PROVE  Screen!FrameIsTrue
<1>1. SUFFICES ASSUME phase = "box"
               PROVE  /\ frame.col \in 0 .. Field - 1
                      /\ frame.text = SubSeq(ed.buf, ed.cursor - frame.col + 1,
                                             Screen!Least(ed.cursor - frame.col + Field, Len(ed.buf)))
                      /\ Screen!Palette(ed.buf) # <<>> =>
                            \/ frame.mark # 0 /\ frame.rows[frame.mark] = Screen!Line
                            \/ /\ frame.mark = 0
                               /\ Screen!Line \in Screen!ToSet(Screen!Palette(ed.buf)) \ Screen!ToSet(frame.rows)
  BY DEF Screen!FrameIsTrue
<1>2. ed \in Editors /\ Shown(ed) /\ frame = Screen!FrameOf(ed)
  BY <1>1 DEF EditorInv
<1>3. PICK p \in Seq(Seq(Chars)) :
          p = Screen!Palette(ed.buf) /\ \A i, j \in 1 .. Len(p) : p[i] = p[j] => i = j
  BY PaletteHolds
<1>4. PICK n \in Nat : n = Screen!Least(MaxRows, Len(p)) /\ n <= Len(p)
  BY LenProperties DEF Screen!Least, Screen!TerminalAssumption
<1>5. PICK rows : rows = SubSeq(p, 1, n)
  OBVIOUS
<1>6. /\ frame.col = ed.cursor - ed.scroll
      /\ frame.text = SubSeq(ed.buf, ed.scroll + 1, Screen!Least(ed.scroll + Field, Len(ed.buf)))
      /\ frame.rows = rows /\ frame.mark = IF ed.sel <= Len(rows) THEN ed.sel ELSE 0
  BY <1>2, <1>3, <1>4, <1>5 DEF Screen!FrameOf
<1>7. PICK c \in Nat, s \in Nat, f \in Nat : c = ed.cursor /\ s = ed.scroll /\ f = Field /\ s <= c /\ c < s + f
  BY <1>2 DEF Editors, Shown, Screen!TerminalAssumption
<1>8. frame.col \in 0 .. Field - 1
  BY <1>6, <1>7
<1>9. ed.cursor - frame.col = ed.scroll
  BY <1>6, <1>7
<1>10. ASSUME p # <<>>
       PROVE  \/ frame.mark # 0 /\ frame.rows[frame.mark] = Screen!Line
              \/ /\ frame.mark = 0
                 /\ Screen!Line \in Screen!ToSet(p) \ Screen!ToSet(frame.rows)
  <2>1. PICK l \in 1 .. Len(p) : l = ed.sel
    BY <1>2, <1>3, <1>10 DEF Shown
  <2>2. Screen!Line = p[l]
    BY <1>3, <1>10, <2>1 DEF Screen!Line
  <2>3. Len(p) \in Nat /\ DOMAIN p = 1 .. Len(p) /\ \A i \in 1 .. n : p[i] \in Seq(Chars)
    BY <1>4, LenProperties, ElementOfSeq
  <2>4. rows \in Seq(Seq(Chars)) /\ Len(rows) = n /\ \A i \in 1 .. n : rows[i] = p[i]
    BY <1>4, <1>5, <2>3, SubSeqProperties
  <2>5. CASE l <= n
    BY <1>6, <2>1, <2>2, <2>4, <2>5
  <2>6. CASE ~(l <= n)
    <3>1. frame.mark = 0
      BY <1>6, <2>1, <2>4, <2>6
    <3>2. p[l] \in Screen!ToSet(p)
      BY <2>3 DEF Screen!ToSet
    <3>3. DOMAIN rows = 1 .. n
      BY <2>4, LenProperties
    <3>4. p[l] \notin Screen!ToSet(rows)
      <4>1. ASSUME NEW i \in 1 .. n, rows[i] = p[l]
            PROVE  FALSE
        <5>1. i \in 1 .. Len(p) /\ p[i] = p[l]
          BY <1>4, <2>3, <2>4, <4>1
        <5>2. i = l
          BY <1>3, <5>1
        <5> QED
          BY <2>6, <5>2
      <4> QED
        BY <3>3, <4>1 DEF Screen!ToSet
    <3> QED
      BY <1>6, <2>2, <3>1, <3>2, <3>4
  <2> QED
    BY <2>5, <2>6
<1> QED
  BY <1>3, <1>6, <1>8, <1>9, <1>10

(* The keys that change the text. *)
LEMMA InsertAtText ==
    ASSUME NEW S, NEW s \in Seq(S), NEW c \in S, NEW i \in 0 .. Len(s)
    PROVE  Screen!InsertAt(s, i + 1, c) \in Seq(S) /\ Len(Screen!InsertAt(s, i + 1, c)) = Len(s) + 1
<1>1. PICK n \in Nat : n = Len(s) /\ \A j \in 1 .. n : s[j] \in S
  BY LenProperties, ElementOfSeq
<1>2. PICK front : front = SubSeq(s, 1, i)
  OBVIOUS
<1>3. PICK back : back = SubSeq(s, i + 1, n)
  OBVIOUS
<1>4. front \in Seq(S) /\ Len(front) = i
  BY <1>1, <1>2, SubSeqProperties
<1>5. back \in Seq(S) /\ Len(back) = n - i
  BY <1>1, <1>3, SubSeqProperties
<1>6. <<c>> \in Seq(S) /\ Len(<<c>>) = 1
  OBVIOUS
<1>7. front \o <<c>> \in Seq(S) /\ Len(front \o <<c>>) = i + 1
  BY <1>4, <1>6, ConcatProperties
<1>8. (front \o <<c>>) \o back \in Seq(S) /\ Len((front \o <<c>>) \o back) = n + 1
  BY <1>1, <1>5, <1>7, ConcatProperties
<1>9. Screen!InsertAt(s, i + 1, c) = (front \o <<c>>) \o back
  <2>1. (i + 1) - 1 = i
    BY <1>1
  <2> QED
    BY <1>1, <1>2, <1>3, <2>1 DEF Screen!InsertAt
<1> QED
  BY <1>1, <1>8, <1>9

LEMMA RemoveAtText ==
    ASSUME NEW S, NEW s \in Seq(S), NEW i \in 1 .. Len(s)
    PROVE  Screen!RemoveAt(s, i) \in Seq(S) /\ Len(Screen!RemoveAt(s, i)) = Len(s) - 1
<1>1. PICK n \in Nat : n = Len(s) /\ \A j \in 1 .. n : s[j] \in S
  BY LenProperties, ElementOfSeq
<1>2. PICK front : front = SubSeq(s, 1, i - 1)
  OBVIOUS
<1>3. PICK back : back = SubSeq(s, i + 1, n)
  OBVIOUS
<1>4. front \in Seq(S) /\ Len(front) = i - 1
  BY <1>1, <1>2, SubSeqProperties
<1>5. back \in Seq(S) /\ Len(back) = n - i
  BY <1>1, <1>3, SubSeqProperties
<1>6. front \o back \in Seq(S) /\ Len(front \o back) = n - 1
  <2>1. front \o back \in Seq(S) /\ Len(front \o back) = Len(front) + Len(back)
    BY <1>4, <1>5, ConcatProperties
  <2>2. (i - 1) + (n - i) = n - 1
    BY <1>1
  <2> QED
    BY <1>4, <1>5, <2>1, <2>2
<1> QED
  BY <1>1, <1>2, <1>3, <1>6 DEF Screen!RemoveAt

(* Once the guard of a key has been passed, the editor it draws is in      *)
(* order but for scroll and selection. *)
LEMMA InsertKeeps ==
    ASSUME Screen!TerminalAssumption, EditorInv, NEW c \in Chars, Screen!Insert(c)
    PROVE  EditorInv'
<1>1. phase = "box" /\ ed \in Editors /\ ed.cursor <= Len(ed.buf)
  BY DEF Screen!Insert, Screen!Reads, EditorInv, Shown
<1>2. PICK b \in Seq(Chars), n \in Nat : b = Screen!InsertAt(ed.buf, ed.cursor + 1, c) /\ n = ed.cursor + 1
                                         /\ n <= Len(b)
  <2>1. PICK b0 \in Seq(Chars), i \in Nat : b0 = ed.buf /\ i = ed.cursor /\ i \in 0 .. Len(b0)
    BY <1>1, LenProperties DEF Editors
  <2>2. PICK b : b = Screen!InsertAt(b0, i + 1, c)
    OBVIOUS
  <2>3. b \in Seq(Chars) /\ Len(b) = Len(b0) + 1
    BY <2>1, <2>2, InsertAtText
  <2>4. i + 1 \in Nat /\ i + 1 <= Len(b0) + 1
    BY <2>1, LenProperties
  <2> QED
    BY <2>1, <2>2, <2>3, <2>4
<1>3. PICK e : e = [[ed EXCEPT !.primed = FALSE] EXCEPT !.buf = b, !.cursor = n]
  OBVIOUS
<1>4. e \in Editors /\ e.cursor <= Len(e.buf)
  BY <1>1, <1>2, <1>3 DEF Editors
<1>5. e = [Screen!Typed EXCEPT !.buf = Screen!InsertAt(@, ed.cursor + 1, c), !.cursor = @ + 1]
  BY <1>1, <1>2, <1>3 DEF Screen!Typed, Editors
<1>6. Screen!Redraw(e)
  BY <1>5 DEF Screen!Insert
<1> QED
  BY <1>4, <1>6, Redraws DEF EditorInv

LEMMA TypedKeeps ==
    ASSUME ed \in Editors
    PROVE  /\ Screen!Typed \in Editors /\ Screen!Typed.buf = ed.buf /\ Screen!Typed.cursor = ed.cursor
           /\ Screen!Typed.sel = ed.sel /\ Screen!Typed.scroll = ed.scroll
<1> QED
  BY DEF Screen!Typed, Editors

LEMMA BackspaceKeeps ==
    ASSUME Screen!TerminalAssumption, EditorInv, Screen!Backspace
    PROVE  EditorInv'
<1>1. phase = "box" /\ ed \in Editors /\ ed.cursor <= Len(ed.buf)
  BY DEF Screen!Backspace, Screen!Reads, EditorInv, Shown
<1>2. PICK t \in Editors : t = Screen!Typed /\ t.buf = ed.buf /\ t.cursor = ed.cursor
  BY <1>1, TypedKeeps
<1>3. CASE ed.cursor > 0
  <2>1. PICK b0 \in Seq(Chars), i \in Nat : b0 = ed.buf /\ i = ed.cursor /\ i \in 1 .. Len(b0)
    BY <1>1, <1>3, LenProperties DEF Editors
  <2>2. PICK b : b = Screen!RemoveAt(b0, i)
    OBVIOUS
  <2>3. b \in Seq(Chars) /\ Len(b) = Len(b0) - 1
    BY <2>1, <2>2, RemoveAtText
  <2>4. PICK n \in Nat : n = i - 1 /\ n <= Len(b)
    BY <2>1, <2>3, LenProperties
  <2>5. PICK e : e = [t EXCEPT !.buf = b, !.cursor = n]
    OBVIOUS
  <2>6. e \in Editors /\ e.cursor <= Len(e.buf)
    BY <2>3, <2>4, <2>5 DEF Editors
  <2>7. e = [Screen!Typed EXCEPT !.buf = Screen!RemoveAt(@, ed.cursor), !.cursor = @ - 1]
    BY <1>2, <2>1, <2>2, <2>4, <2>5
  <2>8. Screen!Redraw(e)
    BY <1>3, <2>7 DEF Screen!Backspace
  <2> QED
    BY <2>6, <2>8, Redraws DEF EditorInv
<1>4. CASE ~(ed.cursor > 0)
  <2>1. Screen!Redraw(t)
    BY <1>2, <1>4 DEF Screen!Backspace
  <2> QED
    BY <1>1, <1>2, <2>1, Redraws DEF EditorInv
<1> QED
  BY <1>3, <1>4

LEMMA TabKeeps ==
    ASSUME Screen!TerminalAssumption, EditorInv, Screen!Tab
    PROVE  EditorInv'
<1>1. phase = "box" /\ ed \in Editors /\ Shown(ed) /\ ed.cursor <= Len(ed.buf)
  BY DEF Screen!Tab, Screen!Reads, EditorInv, Shown
<1>2. PICK t \in Editors : t = Screen!Typed /\ t.buf = ed.buf /\ t.cursor = ed.cursor
  BY <1>1, TypedKeeps
<1>3. PICK p \in Seq(Seq(Chars)) : p = Screen!Palette(ed.buf)
  BY PaletteHolds
<1>4. CASE p # <<>>
  <2>1. p[ed.sel] \in Seq(Chars)
    BY <1>1, <1>3, <1>4, ElementOfSeq DEF Shown
  <2>2. PICK b \in Seq(Chars) : b = Append(p[ed.sel], Space)
    BY <2>1, AppendProperties DEF Screen!TerminalAssumption
  <2>3. PICK n \in Nat : n = Len(b)
    BY LenProperties
  <2>4. PICK e : e = [t EXCEPT !.buf = b, !.cursor = n]
    OBVIOUS
  <2>5. e \in Editors
    BY <2>4 DEF Editors
  <2>6. e.buf = b /\ e.cursor = n
    BY <2>4 DEF Editors
  <2>7. e.cursor <= Len(e.buf)
    BY <2>3, <2>6
  <2>8. Screen!Redraw(e)
    BY <1>2, <1>3, <1>4, <2>2, <2>3, <2>4 DEF Screen!Tab
  <2> QED
    BY <2>5, <2>7, <2>8, Redraws DEF EditorInv
<1>5. CASE p = <<>>
  <2>1. Screen!Redraw(t)
    BY <1>2, <1>3, <1>5 DEF Screen!Tab
  <2> QED
    BY <1>1, <1>2, <2>1, Redraws DEF EditorInv
<1> QED
  BY <1>4, <1>5

LEMMA ArrowKeeps ==
    ASSUME Screen!TerminalAssumption, EditorInv,
           NEW a \in {"up", "down", "left", "right", "other"}, Screen!Arrow(a)
    PROVE  EditorInv'
<1>1. phase = "box" /\ ed \in Editors /\ ed.cursor <= Len(ed.buf)
  BY DEF Screen!Arrow, EditorInv, Shown
<1>2. PICK t : t = [ed EXCEPT !.esc = "no"]
  OBVIOUS
<1>3. t \in Editors /\ t.buf = ed.buf /\ t.cursor = ed.cursor
  BY <1>1, <1>2 DEF Editors
<1>4. PICK n \in Nat, c \in Nat, l \in Nat \ {0}, m \in Nat :
          /\ n = Len(t.buf) /\ c = t.cursor /\ l = t.sel /\ m = Len(Screen!Palette(t.buf)) /\ c <= n
  <2>1. t.buf \in Seq(Chars) /\ t.cursor \in Nat /\ t.sel \in Nat \ {0}
    BY <1>3 DEF Editors
  <2>2. Len(t.buf) \in Nat /\ Len(Screen!Palette(t.buf)) \in Nat
    BY <2>1, PaletteHolds, LenProperties
  <2> QED
    BY <1>1, <1>3, <2>1, <2>2
<1>5. PICK e : e = Screen!Moved(t, a)
  OBVIOUS
<1>6. ASSUME NEW x \in Nat \ {0}, e = [t EXCEPT !.sel = x]
      PROVE  e \in Editors /\ e.cursor <= Len(e.buf)
  <2>1. e \in Editors
    BY <1>3, <1>6 DEF Editors
  <2>2. e.buf = t.buf /\ e.cursor = t.cursor
    BY <1>3, <1>6 DEF Editors
  <2> QED
    BY <1>4, <2>1, <2>2
<1>7. ASSUME NEW x \in Nat, x <= n, e = [t EXCEPT !.cursor = x]
      PROVE  e \in Editors /\ e.cursor <= Len(e.buf)
  <2>1. e \in Editors
    BY <1>3, <1>7 DEF Editors
  <2>2. e.buf = t.buf /\ e.cursor = x
    BY <1>3, <1>7 DEF Editors
  <2> QED
    BY <1>4, <1>7, <2>1, <2>2
<1>8. e \in Editors /\ e.cursor <= Len(e.buf)
  <2>1. CASE e = t
    BY <1>3, <1>4, <2>1
  <2>2. CASE l > 1 /\ e = [t EXCEPT !.sel = l - 1]
    <3>1. l - 1 \in Nat \ {0}
      BY <2>2
    <3> QED
      BY <1>6, <2>2, <3>1
  <2>3. CASE e = [t EXCEPT !.sel = l + 1]
    <3>1. l + 1 \in Nat \ {0}
      OBVIOUS
    <3> QED
      BY <1>6, <2>3, <3>1
  <2>4. CASE c < n /\ e = [t EXCEPT !.cursor = c + 1]
    <3>1. c + 1 \in Nat /\ c + 1 <= n
      BY <2>4
    <3> QED
      BY <1>7, <2>4, <3>1
  <2>5. CASE c > 0 /\ e = [t EXCEPT !.cursor = c - 1]
    <3>1. c - 1 \in Nat /\ c - 1 <= n
      BY <1>4, <2>5
    <3> QED
      BY <1>7, <2>5, <3>1
  <2> QED
    BY <1>4, <1>5, <2>1, <2>2, <2>3, <2>4, <2>5 DEF Screen!Moved
<1>9. Screen!Redraw(e)
  BY <1>2, <1>5 DEF Screen!Arrow
<1>10. phase' = "box"
  BY <1>1 DEF Screen!Arrow
<1> QED
  BY <1>8, <1>9, <1>10, Redraws DEF EditorInv

LEMMA EscapeKeeps ==
    ASSUME Screen!TerminalAssumption, EditorInv, Screen!Escape \/ Screen!Bracket
    PROVE  EditorInv'
<1>1. SUFFICES ASSUME phase' = "box" PROVE EditorInv'
  BY DEF EditorInv
<1>2. phase = "box" /\ frame' = frame
  BY <1>1 DEF Screen!Escape, Screen!Bracket
<1>3. ed \in Editors /\ Shown(ed) /\ frame = Screen!FrameOf(ed)
  BY <1>2 DEF EditorInv
<1>4. ed' = [[ed EXCEPT !.primed = FALSE] EXCEPT !.esc = "esc"] \/ ed' = [ed EXCEPT !.esc = "csi"]
  BY DEF Screen!Escape, Screen!Bracket, Screen!Typed
<1>5. ed' \in Editors
  BY <1>3, <1>4 DEF Editors
<1>6. ed'.buf = ed.buf /\ ed'.cursor = ed.cursor /\ ed'.scroll = ed.scroll /\ ed'.sel = ed.sel
  BY <1>3, <1>4 DEF Editors
<1>7. Shown(ed')
  BY <1>3, <1>6 DEF Shown
<1>8. Screen!FrameOf(ed') = Screen!FrameOf(ed)
  BY <1>6 DEF Screen!FrameOf
<1> QED
  BY <1>2, <1>3, <1>5, <1>7, <1>8 DEF EditorInv

LEMMA BareEscapeKeeps ==
    ASSUME Screen!TerminalAssumption, EditorInv, Screen!BareEscape
    PROVE  EditorInv'
<1>1. CASE phase = "box"
  <2>1. ed \in Editors /\ ed.cursor <= Len(ed.buf)
    BY <1>1 DEF EditorInv, Shown
  <2>2. PICK t : t = [ed EXCEPT !.esc = "no"]
    OBVIOUS
  <2>3. t \in Editors /\ t.buf = ed.buf /\ t.cursor = ed.cursor
    BY <2>1, <2>2 DEF Editors
  <2>4. Screen!Redraw(t)
    BY <1>1, <2>2 DEF Screen!BareEscape
  <2> QED
    BY <2>1, <2>3, <2>4, Redraws DEF EditorInv
<1>2. CASE phase # "box"
  BY <1>2, Opens DEF Screen!BareEscape
<1> QED
  BY <1>1, <1>2

LEMMA CtrlKeeps ==
    ASSUME Screen!TerminalAssumption, EditorInv, Screen!CtrlC \/ Screen!CtrlD
    PROVE  EditorInv'
<1>1. SUFFICES ASSUME phase' = "box" PROVE EditorInv'
  BY DEF EditorInv
<1>2. phase = "box"
  BY DEF Screen!CtrlC, Screen!CtrlD, Screen!Reads
<1>3. ed \in Editors /\ ed.cursor <= Len(ed.buf)
  BY <1>2 DEF EditorInv, Shown
<1>4. \/ Screen!Redraw([Screen!NewEditor EXCEPT !.scroll = ed.scroll])
      \/ Screen!Redraw([ed EXCEPT !.primed = TRUE]) \/ Screen!Redraw(Screen!Typed)
  BY <1>1 DEF Screen!CtrlC, Screen!CtrlD
<1>5. CASE Screen!Redraw([Screen!NewEditor EXCEPT !.scroll = ed.scroll])
  <2>1. PICK e : e = [Screen!NewEditor EXCEPT !.scroll = ed.scroll]
    OBVIOUS
  <2>2. PICK s \in Nat : s = ed.scroll
    BY <1>3 DEF Editors
  <2>3. e = [buf |-> <<>>, cursor |-> 0, scroll |-> s, sel |-> 1, primed |-> FALSE, esc |-> "no"]
    BY <2>1, <2>2 DEF Screen!NewEditor
  <2>4. e \in Editors /\ e.cursor <= Len(e.buf)
    BY <2>3, EmptySeq DEF Editors
  <2> QED
    BY <1>5, <2>1, <2>4, Redraws DEF EditorInv
<1>6. CASE Screen!Redraw([ed EXCEPT !.primed = TRUE])
  <2>1. PICK e : e = [ed EXCEPT !.primed = TRUE]
    OBVIOUS
  <2>2. e \in Editors /\ e.buf = ed.buf /\ e.cursor = ed.cursor
    BY <1>3, <2>1 DEF Editors
  <2> QED
    BY <1>3, <1>6, <2>1, <2>2, Redraws DEF EditorInv
<1>7. CASE Screen!Redraw(Screen!Typed)
  BY <1>3, <1>7, TypedKeeps, Redraws DEF EditorInv
<1> QED
  BY <1>4, <1>5, <1>6, <1>7

LEMMA SubmitKeeps ==
    ASSUME Screen!TerminalAssumption, NEW line, Screen!Submit(line)
    PROVE  EditorInv'
<1>1. Screen!Open("box") \/ Screen!Open("list") \/ phase' = "off" \/ Screen!StartTurn
  BY DEF Screen!Submit
<1>2. CASE phase' = "off" \/ Screen!StartTurn
  BY <1>2 DEF Screen!StartTurn, EditorInv
<1> QED
  BY <1>1, <1>2, Opens

LEMMA EditorKeys ==
    ASSUME Screen!TerminalAssumption, EditorInv, Screen!Keys
    PROVE  EditorInv'
<1>1. CASE Screen!Enter
  BY <1>1, SubmitKeeps DEF Screen!Enter
<1>2. CASE Screen!Eof
  <2>1. Screen!Submit(ed.buf) \/ phase' = "off"
    BY <1>2 DEF Screen!Eof
  <2> QED
    BY <2>1, SubmitKeeps DEF EditorInv
<1>3. CASE Screen!ListArrow \/ Screen!SecretKey \/ Screen!SecretArrow
  <2>1. phase' # "box"
    BY <1>3 DEF Screen!ListArrow, Screen!SecretKey, Screen!SecretArrow, Screen!Reads
  <2> QED
    BY <2>1 DEF EditorInv
<1>4. CASE Screen!ListEnter \/ Screen!Close
  BY <1>4, Opens DEF Screen!ListEnter, Screen!Close
<1> QED
  BY <1>1, <1>2, <1>3, <1>4, InsertKeeps, BackspaceKeeps, TabKeeps, EscapeKeeps, BareEscapeKeeps,
     ArrowKeeps, CtrlKeeps DEF Screen!Keys

LEMMA EditorTurn ==
    ASSUME Screen!TerminalAssumption, EditorInv, Screen!Turn
    PROVE  EditorInv'
<1>1. CASE Screen!EndTurn
  BY <1>1, Opens DEF Screen!EndTurn
<1>2. CASE Screen!Think \/ Screen!FirstDelta \/ Screen!NextStep
  BY <1>2 DEF Screen!Think, Screen!FirstDelta, Screen!NextStep, Screen!editor, EditorInv
<1>3. CASE \E k \in Screen!Kinds, word \in BOOLEAN : Screen!Delta(k, word)
  BY <1>3 DEF Screen!Delta, Screen!editor, EditorInv
<1>4. CASE \E result \in {"failed", "answered", "tools"} : Screen!ModelReturns(result)
  BY <1>4 DEF Screen!ModelReturns, Screen!editor, EditorInv
<1>5. CASE Screen!Signal \/ Screen!Interrupt \/ Screen!Cancel
  BY <1>5 DEF Screen!Signal, Screen!Interrupt, Screen!Cancel, Screen!editor, EditorInv
<1>6. CASE \E g \in Screen!Goroutines : Screen!CloseSpinner(g) \/ Screen!ClearSpinner(g)
  BY <1>6 DEF Screen!CloseSpinner, Screen!ClearSpinner, Screen!editor, EditorInv
<1> QED
  BY <1>1, <1>2, <1>3, <1>4, <1>5, <1>6 DEF Screen!Turn

(* Whatever is typed, the last frame shows the text around the cursor and  *)
(* marks no command but the one that Enter would run (render, readBox); if *)
(* that one is below the last row, as the real palette allows, there is no *)
(* mark.                                                                   *)
THEOREM FrameIsTrueHolds ==
    ASSUME Screen!TerminalAssumption
    PROVE  Screen!Spec => []Screen!FrameIsTrue
<1>1. Screen!Init => EditorInv
  <2>1. ASSUME Screen!Init PROVE EditorInv
    <3>1. ed = Screen!NewEditor /\ frame = Screen!FrameOf(Screen!NewEditor)
      BY <2>1 DEF Screen!Init
    <3> QED
      BY <3>1, NewEditorShown DEF EditorInv
  <2> QED
    BY <2>1
<1>2. EditorInv /\ [Screen!Next]_Screen!vars => EditorInv'
  <2>1. CASE UNCHANGED Screen!vars
    BY <2>1 DEF Screen!vars, Screen!editor, EditorInv
  <2> QED
    BY <2>1, EditorKeys, EditorTurn DEF Screen!Next
<1>3. EditorInv => Screen!FrameIsTrue
  BY FrameTells
<1> QED
  BY <1>1, <1>2, <1>3, PTL DEF Screen!Spec
=============================================================================
