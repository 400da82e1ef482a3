----------------------------- MODULE McpProofs -----------------------------
(* Theorems of Mcp, for any servers, tools and concurrent callers: a call  *)
(* gets its own reply, and the table of tools follows the connections.     *)
EXTENDS Mcp, SequenceTheorems, WellFoundedInduction, TLAPS

Lines == [kind : {"message"}, id : Nat, call : Nat] \cup {Garbage}
Calling == [pc : {"free", "locking", "reading", "returned"}, on : Servers \cup {None},
            want : Nat, call : Nat, got : Int]

Elems(q) == {q[i] : i \in 1 .. Len(q)}

ManagerTypes ==
    /\ started \in BOOLEAN /\ conn \in [Servers -> BOOLEAN]
    /\ tools \in [Servers -> SUBSET Tools]
    /\ DOMAIN home \subseteq Tools /\ home \in [DOMAIN home -> Servers]
    /\ agent \subseteq Tools

WireTypes ==
    /\ lock \in [Servers -> Callers \cup {None}] /\ id \in [Servers -> Nat]
    /\ inbox \in [Servers -> Seq([id : Nat, call : Nat])] /\ pipe \in [Servers -> Seq(Lines)]
    /\ alive \in [Servers -> BOOLEAN]
    /\ caller \in [Callers -> Calling] /\ calls \in Nat

(* The holder of a transport's mutex is the one who reads its pipe, for    *)
(* the request that was given the last id.                                 *)
Holder(c) ==
    /\ \A s \in Servers : lock[s] = c <=> caller[c].pc = "reading" /\ caller[c].on = s
    /\ caller[c].pc \in {"locking", "reading"} => caller[c].on \in Servers
    /\ \A s \in Servers : lock[s] = c => caller[c].want = id[s] /\ id[s] # 0

(* No id on the wire is ahead of the transport's; who waits for the last   *)
(* id is the one who sent it.                                              *)
Fits(s, m) ==
    /\ m.id <= id[s]
    /\ \A c \in Callers : lock[s] = c /\ m.id = id[s] => m.call = caller[c].call

Wire(s) ==
    /\ \A m \in Elems(inbox[s]) : Fits(s, m)
    /\ \A m \in Elems(pipe[s]) : m.kind = "message" => Fits(s, m)

(* Before the manager is there, nothing runs. *)
Quiet ==
    ~started =>
        /\ \A c \in Callers : caller[c].pc = "free"
        /\ \A s \in Servers : ~alive[s] /\ inbox[s] = <<>> /\ pipe[s] = <<>>

McpInv ==
    /\ ManagerTypes /\ WireTypes /\ Quiet /\ OwnReply
    /\ \A s \in Servers : alive[s] => conn[s]
    /\ \A c \in Callers : Holder(c)
    /\ \A s \in Servers : Wire(s)

-----------------------------------------------------------------------------
(* Sequences as the sets of what is in them.                               *)
LEMMA ElemsFacts ==
    ASSUME NEW S, NEW q \in Seq(S)
    PROVE  /\ Elems(q) \subseteq S
           /\ \A m \in S : Append(q, m) \in Seq(S) /\ Elems(Append(q, m)) = Elems(q) \cup {m}
           /\ q # <<>> => /\ Head(q) \in Elems(q) /\ Tail(q) \in Seq(S)
                          /\ Elems(Tail(q)) \subseteq Elems(q)
<1>1. Elems(q) \subseteq S /\ Len(q) \in Nat
  BY DEF Elems
<1>2. ASSUME NEW m \in S
      PROVE  Append(q, m) \in Seq(S) /\ Elems(Append(q, m)) = Elems(q) \cup {m}
  <2>1. /\ Append(q, m) \in Seq(S) /\ Len(Append(q, m)) = Len(q) + 1
        /\ \A i \in 1 .. Len(q) : Append(q, m)[i] = q[i]
        /\ Append(q, m)[Len(q) + 1] = m
    BY AppendProperties
  <2>2. 1 .. Len(q) + 1 = (1 .. Len(q)) \cup {Len(q) + 1}
    BY <1>1
  <2> QED
    BY <2>1, <2>2 DEF Elems
<1>3. ASSUME q # <<>>
      PROVE  Head(q) \in Elems(q) /\ Tail(q) \in Seq(S) /\ Elems(Tail(q)) \subseteq Elems(q)
  <2>1. Len(q) \in Nat \ {0} /\ Head(q) = q[1] /\ Tail(q) \in Seq(S) /\ Len(Tail(q)) = Len(q) - 1
    BY <1>3, EmptySeq, HeadTailProperties
  <2>2. \A i \in 1 .. Len(Tail(q)) : Tail(q)[i] = q[i + 1] /\ i + 1 \in 1 .. Len(q)
    BY <1>3, <2>1, HeadTailProperties
  <2> QED
    BY <2>1, <2>2 DEF Elems
<1> QED
  BY <1>1, <1>2, <1>3

LEMMA ElemsOfSeq == ASSUME NEW S, NEW q \in Seq(S) PROVE Elems(q) \subseteq S
BY ElemsFacts

LEMMA ElemsAppend ==
    ASSUME NEW S, NEW q \in Seq(S), NEW m \in S
    PROVE  Append(q, m) \in Seq(S) /\ Elems(Append(q, m)) = Elems(q) \cup {m}
BY ElemsFacts

LEMMA NothingInEmpty == Elems(<<>>) = {}
BY DEF Elems

(* A set of numbers has a least one. *)
LEMMA Least ==
    ASSUME NEW T \in SUBSET Nat, T # {}
    PROVE  \E n \in T : \A m \in T : n <= m
<1> DEFINE R == OpToRel(<, Nat)
<1>1. \A m, n \in Nat : m < n => <<m, n>> \in R
  BY DEF OpToRel
<1>2. IsWellFoundedOn(R, Nat)
  BY NatLessThanWellFounded
<1> HIDE DEF R
<1>3. PICK n \in T : \A m \in T : ~(<<m, n>> \in R)
  BY <1>2, WFMin
<1>4. \A m \in T : m \in Nat /\ n \in Nat /\ ~(m < n)
  BY <1>1, <1>3
<1>5. \A m \in T : n <= m
  BY <1>4
<1> QED
  BY <1>5

(* rebuildCatalog: a name is in the catalog when some connected server     *)
(* offers it, and belongs to the first such server of the configuration.   *)
Offer(cn, tl, i, t) == cn[Order[i]] /\ t \in tl[Order[i]]

FirstOf(cn, tl, n, t, i) ==
    i \in 1 .. n /\ Offer(cn, tl, i, t) /\ \A j \in 1 .. i - 1 : ~Offer(cn, tl, j, t)

(* The catalog after n servers. *)
Catalog(cn, tl, n) ==
    [t \in {u \in Tools : \E i \in 1 .. n : Offer(cn, tl, i, u)} |->
        Order[CHOOSE i \in 1 .. n : FirstOf(cn, tl, n, t, i)]]

LEMMA FirstIs ==
    ASSUME NEW cn, NEW tl, NEW n \in 0 .. Len(Order), NEW t
    PROVE  /\ \A i, j : FirstOf(cn, tl, n, t, i) /\ FirstOf(cn, tl, n, t, j) => i = j
           /\ (\E i \in 1 .. n : Offer(cn, tl, i, t)) => \E i \in 1 .. n : FirstOf(cn, tl, n, t, i)
<1>0. n \in Nat
  BY McpAssumption
<1>1. ASSUME NEW i, NEW j, FirstOf(cn, tl, n, t, i), FirstOf(cn, tl, n, t, j)  PROVE i = j
  <2>1. i \in 1 .. n /\ j \in 1 .. n /\ ~(i \in 1 .. j - 1) /\ ~(j \in 1 .. i - 1)
    BY <1>1 DEF FirstOf
  <2> QED
    BY <1>0, <2>1
<1>2. ASSUME \E i \in 1 .. n : Offer(cn, tl, i, t)
      PROVE  \E i \in 1 .. n : FirstOf(cn, tl, n, t, i)
  <2> DEFINE T == {i \in 1 .. n : Offer(cn, tl, i, t)}
  <2>1. T \in SUBSET Nat /\ T # {}
    BY <1>2
  <2> HIDE DEF T
  <2>2. PICK i \in T : \A m \in T : i <= m
    BY <2>1, Least
  <2>3. i \in 1 .. n /\ Offer(cn, tl, i, t) /\ \A j \in 1 .. n : Offer(cn, tl, j, t) => i <= j
    BY <2>2 DEF T
  <2>4. \A j \in 1 .. i - 1 : ~Offer(cn, tl, j, t)
    BY <1>0, <2>3
  <2> QED
    BY <2>3, <2>4 DEF FirstOf
<1> QED
  BY <1>1, <1>2

LEMMA CatalogOwner ==
    ASSUME NEW cn, NEW tl, NEW n \in 0 .. Len(Order), NEW t \in DOMAIN Catalog(cn, tl, n)
    PROVE  \E i \in 1 .. n : FirstOf(cn, tl, n, t, i) /\ Catalog(cn, tl, n)[t] = Order[i]
<1>1. \E i \in 1 .. n : FirstOf(cn, tl, n, t, i)
  BY FirstIs DEF Catalog
<1> DEFINE f == CHOOSE i \in 1 .. n : FirstOf(cn, tl, n, t, i)
<1>2. f \in 1 .. n /\ FirstOf(cn, tl, n, t, f)
  BY <1>1
<1>3. Catalog(cn, tl, n)[t] = Order[f]
  BY DEF Catalog
<1> HIDE DEF f
<1> QED
  BY <1>2, <1>3

(* One more server takes the names that nobody has claimed before it.      *)
LEMMA CatalogGrows ==
    ASSUME NEW cn, NEW tl \in [Servers -> SUBSET Tools], NEW n \in 1 .. Len(Order)
    PROVE  Catalog(cn, tl, n) = IF cn[Order[n]] THEN Over(Catalog(cn, tl, n - 1), Claim(Order[n], tl))
                                ELSE Catalog(cn, tl, n - 1)
<1> DEFINE Old == Catalog(cn, tl, n - 1)
           New == Catalog(cn, tl, n)
<1>1. n - 1 \in 0 .. Len(Order) /\ n \in 0 .. Len(Order) /\ 1 .. n = (1 .. n - 1) \cup {n} /\ n \in 1 .. n
  BY McpAssumption
<1>2. Order[n] \in Servers /\ tl[Order[n]] \subseteq Tools
  BY McpAssumption
<1>3. ASSUME NEW t \in DOMAIN Old  PROVE t \in DOMAIN New /\ New[t] = Old[t]
  <2>1. PICK i \in 1 .. n - 1 : FirstOf(cn, tl, n - 1, t, i) /\ Old[t] = Order[i]
    BY <1>1, CatalogOwner
  <2>2. FirstOf(cn, tl, n, t, i)
    BY <1>1, <2>1 DEF FirstOf
  <2>3. t \in DOMAIN New
    BY <1>1, <1>3, <2>1 DEF Catalog
  <2>4. PICK j \in 1 .. n : FirstOf(cn, tl, n, t, j) /\ New[t] = Order[j]
    BY <1>1, <2>3, CatalogOwner
  <2>5. i = j
    BY <1>1, <2>2, <2>4, FirstIs
  <2> QED
    BY <2>1, <2>3, <2>4, <2>5
<1>4. ASSUME NEW t \in DOMAIN New, t \notin DOMAIN Old
      PROVE  cn[Order[n]] /\ t \in tl[Order[n]] /\ New[t] = Order[n]
  <2>1. PICK i \in 1 .. n : FirstOf(cn, tl, n, t, i) /\ New[t] = Order[i]
    BY <1>1, CatalogOwner
  <2>2. i \notin 1 .. n - 1
    BY <1>4, <2>1 DEF Catalog, FirstOf
  <2>3. i = n
    BY <1>1, <2>2
  <2> QED
    BY <2>1, <2>3 DEF FirstOf, Offer
<1>5. cn[Order[n]] => \A t \in tl[Order[n]] : t \in DOMAIN New
  BY <1>1, <1>2 DEF Catalog, Offer
<1>6. New = [t \in DOMAIN New |-> New[t]] /\ Old = [t \in DOMAIN Old |-> Old[t]]
  BY DEF Catalog
<1> HIDE DEF Old, New
<1>7. CASE cn[Order[n]]
  <2>1. DOMAIN New = DOMAIN Old \cup DOMAIN Claim(Order[n], tl)
    BY <1>3, <1>4, <1>5, <1>7 DEF Claim
  <2>2. \A t \in DOMAIN New : New[t] = IF t \in DOMAIN Old THEN Old[t] ELSE Claim(Order[n], tl)[t]
    BY <1>3, <1>4 DEF Claim
  <2>3. New = Over(Old, Claim(Order[n], tl))
    BY <1>6, <2>1, <2>2 DEF Over
  <2> QED
    BY <1>7, <2>3 DEF Old, New
<1>8. CASE ~cn[Order[n]]
  <2>1. DOMAIN New = DOMAIN Old /\ \A t \in DOMAIN New : New[t] = Old[t]
    BY <1>3, <1>4, <1>8
  <2>2. New = Old
    BY <1>6, <2>1
  <2> QED
    BY <1>8, <2>2 DEF Old, New
<1> QED
  BY <1>7, <1>8

LEMMA RebuildIs ==
    ASSUME NEW cn, NEW tl \in [Servers -> SUBSET Tools]
    PROVE  Rebuild(cn, tl) = Catalog(cn, tl, Len(Order))
<1> DEFINE Step(g, i) ==
               IF i = 0 THEN <<>>
               ELSE IF cn[Order[i]] THEN Over(g[i - 1], Claim(Order[i], tl)) ELSE g[i - 1]
           Is(g) == g = [i \in 0 .. Len(Order) |-> Step(g, i)]
           claimed == CHOOSE g : Is(g)
           W == [n \in 0 .. Len(Order) |-> Catalog(cn, tl, n)]
<1>0. Len(Order) \in Nat
  BY McpAssumption
<1>1. Rebuild(cn, tl) = claimed[Len(Order)]
  BY DEF Rebuild
<1>2. Catalog(cn, tl, 0) = <<>>
  <2>1. \A f : DOMAIN f = {} /\ f = [x \in {} |-> f[x]] => f = <<>>
    OBVIOUS
  <2> QED
    BY <2>1 DEF Catalog
<1>3. Is(W)
  <2>1. ASSUME NEW n \in 0 .. Len(Order)  PROVE W[n] = Step(W, n)
    <3>1. CASE n = 0
      BY <1>2, <3>1
    <3>2. CASE n # 0
      <4>1. n \in 1 .. Len(Order) /\ n - 1 \in 0 .. Len(Order)
        BY <1>0, <3>2
      <4> QED
        BY <3>2, <4>1, CatalogGrows
    <3> QED
      BY <3>1, <3>2
  <2> HIDE DEF Step
  <2> QED
    BY <2>1
<1>4. Is(claimed)
  BY <1>3
<1> HIDE DEF claimed, W
<1>5. \A n \in 0 .. Len(Order) : claimed[n] = Step(claimed, n) /\ W[n] = Step(W, n)
  BY <1>3, <1>4
<1> DEFINE Bad == {n \in 0 .. Len(Order) : claimed[n] # W[n]}
<1>6. Bad = {}
  <2>1. SUFFICES ASSUME Bad # {}
                 PROVE  FALSE
    OBVIOUS
  <2>2. PICK n \in Bad : \A m \in Bad : n <= m
    <3>1. Bad \in SUBSET Nat
      BY <1>0
    <3> HIDE DEF Bad
    <3> QED
      BY <2>1, <3>1, Least
  <2>3. n # 0
    BY <1>5, <2>2
  <2>4. n - 1 \in 0 .. Len(Order) /\ n - 1 \notin Bad
    BY <1>0, <2>2, <2>3
  <2> QED
    BY <1>5, <2>2, <2>3, <2>4
<1>7. claimed[Len(Order)] = W[Len(Order)]
  BY <1>0, <1>6
<1> QED
  BY <1>0, <1>1, <1>7 DEF W

(* The catalog of the manager after a rebuild. *)
LEMMA RebuildTypes ==
    ASSUME NEW cn \in [Servers -> BOOLEAN], NEW tl \in [Servers -> SUBSET Tools], NEW h, h = Rebuild(cn, tl)
    PROVE  /\ DOMAIN h \subseteq Tools /\ h \in [DOMAIN h -> Servers]
           /\ \A t \in Tools : t \in DOMAIN h <=> \E s \in Servers : cn[s] /\ t \in tl[s]
           /\ \A t \in DOMAIN h : \E i \in DOMAIN Order :
                  /\ h[t] = Order[i] /\ cn[h[t]] /\ t \in tl[h[t]]
                  /\ \A j \in 1 .. i - 1 : ~(cn[Order[j]] /\ t \in tl[Order[j]])
<1>0. Len(Order) \in Nat /\ DOMAIN Order = 1 .. Len(Order) /\ \A i \in DOMAIN Order : Order[i] \in Servers
  BY McpAssumption
<1>1. h = Catalog(cn, tl, Len(Order))
  BY RebuildIs
<1>2. h = [t \in DOMAIN h |-> h[t]] /\ DOMAIN h \subseteq Tools
  BY <1>1 DEF Catalog
<1>3. ASSUME NEW t \in DOMAIN h
      PROVE  \E i \in DOMAIN Order :
                 /\ h[t] = Order[i] /\ cn[h[t]] /\ t \in tl[h[t]]
                 /\ \A j \in 1 .. i - 1 : ~(cn[Order[j]] /\ t \in tl[Order[j]])
  <2>1. PICK i \in 1 .. Len(Order) : FirstOf(cn, tl, Len(Order), t, i) /\ h[t] = Order[i]
    BY <1>0, <1>1, CatalogOwner
  <2> QED
    BY <1>0, <2>1 DEF FirstOf, Offer
<1>4. \A t \in DOMAIN h : h[t] \in Servers
  BY <1>0, <1>3
<1>5. ASSUME NEW t \in Tools  PROVE t \in DOMAIN h <=> \E s \in Servers : cn[s] /\ t \in tl[s]
  <2>1. ASSUME t \in DOMAIN h  PROVE \E s \in Servers : cn[s] /\ t \in tl[s]
    BY <1>3, <1>4, <2>1
  <2>2. ASSUME NEW s \in Servers, cn[s], t \in tl[s]  PROVE t \in DOMAIN h
    <3>1. PICK i \in DOMAIN Order : Order[i] = s
      BY McpAssumption
    <3> QED
      BY <1>0, <1>1, <2>2, <3>1 DEF Catalog, Offer
  <2> QED
    BY <2>1, <2>2
<1> QED
  BY <1>2, <1>3, <1>4, <1>5

-----------------------------------------------------------------------------
(* The two halves of ToolTable: what the manager knows of its servers, and *)
(* what the agent knows of the manager.                                    *)
Offers(s, t) == conn[s] /\ t \in tools[s]

CatalogTrue ==
    /\ \A t \in Tools : t \in DOMAIN home <=> \E s \in Servers : Offers(s, t)
    /\ \A t \in DOMAIN home : \E i \in DOMAIN Order :
           /\ home[t] = Order[i] /\ Offers(home[t], t)
           /\ \A j \in 1 .. i - 1 : ~Offers(Order[j], t)

AgentTrue ==
    /\ DOMAIN byName = agent \cup (Builtin \ taken)
    /\ \A t \in DOMAIN byName : byName[t] = "mcp" <=> t \in agent
    /\ agent \cap Builtin \subseteq taken /\ taken \subseteq Builtin

TableInv == ManagerTypes /\ CatalogTrue /\ AgentTrue

LEMMA DialledTypes ==
    ASSUME NEW offer \in ToolSets \cup {None}
    PROVE  Dialled(offer).conn \in BOOLEAN /\ Dialled(offer).tools \in SUBSET Tools
BY DEF Dialled, Tools

LEMMA RebuildTrue ==
    ASSUME conn' \in [Servers -> BOOLEAN], tools' \in [Servers -> SUBSET Tools],
           home' = Rebuild(conn', tools')
    PROVE  CatalogTrue' /\ DOMAIN home' \subseteq Tools /\ home' \in [DOMAIN home' -> Servers]
<1>1. /\ DOMAIN home' \subseteq Tools /\ home' \in [DOMAIN home' -> Servers]
      /\ \A t \in Tools : t \in DOMAIN home' <=> \E s \in Servers : conn'[s] /\ t \in tools'[s]
      /\ \A t \in DOMAIN home' : \E i \in DOMAIN Order :
             /\ home'[t] = Order[i] /\ conn'[home'[t]] /\ t \in tools'[home'[t]]
             /\ \A j \in 1 .. i - 1 : ~(conn'[Order[j]] /\ t \in tools'[Order[j]])
  BY RebuildTypes
<1> QED
  BY <1>1 DEF CatalogTrue, Offers

LEMMA TakesTrue ==
    ASSUME AgentTrue, agent \subseteq Tools, NEW h, DOMAIN h \subseteq Tools, AgentTakes(h)
    PROVE  AgentTrue' /\ agent' \subseteq Tools
<1> DEFINE kept == [t \in DOMAIN byName \ agent |-> byName[t]]
<1>1. /\ agent' = DOMAIN h /\ byName' = Over(AgentTools(h), kept)
      /\ taken' = taken \cup (Builtin \cap DOMAIN h)
  BY DEF AgentTakes
<1>2. DOMAIN kept = Builtin \ taken /\ \A t \in DOMAIN kept : kept[t] # "mcp"
  BY DEF AgentTrue
<1>3. DOMAIN AgentTools(h) = DOMAIN h /\ \A t \in DOMAIN h : AgentTools(h)[t] = "mcp"
  BY DEF AgentTools
<1> HIDE DEF kept
<1>4. /\ DOMAIN byName' = DOMAIN h \cup (Builtin \ taken)
      /\ \A t \in DOMAIN byName' : byName'[t] = IF t \in DOMAIN h THEN "mcp" ELSE kept[t]
  BY <1>1, <1>2, <1>3 DEF Over
<1> QED
  BY <1>1, <1>2, <1>4 DEF AgentTrue

LEMMA TableInductive ==
    /\ Init => TableInv
    /\ TableInv /\ [Next]_vars => TableInv'
<1>1. Init => TableInv
  <2>1. \A f : f = <<>> => DOMAIN f = {} /\ f \in [{} -> Servers]
    OBVIOUS
  <2>2. Init => ManagerTypes
    BY <2>1 DEF Init, ManagerTypes
  <2>3. Init => CatalogTrue
    BY <2>1 DEF Init, CatalogTrue, Offers
  <2>4. Init => AgentTrue
    BY DEF Init, AgentTrue
  <2> QED
    BY <2>2, <2>3, <2>4 DEF TableInv
<1>2. ASSUME TableInv, [Next]_vars  PROVE TableInv'
  <2>0. ManagerTypes /\ CatalogTrue /\ AgentTrue
    BY <1>2 DEF TableInv
  <2>1. CASE NewManager
    <3>1. PICK offer \in [Servers -> ToolSets \cup {None}] :
              /\ conn' = [s \in Servers |-> Dialled(offer[s]).conn]
              /\ tools' = [s \in Servers |-> Dialled(offer[s]).tools]
      BY <2>1 DEF NewManager
    <3>2. conn' \in [Servers -> BOOLEAN] /\ tools' \in [Servers -> SUBSET Tools]
      BY <3>1, DialledTypes
    <3>3. home' = Rebuild(conn', tools') /\ AgentTakes(home') /\ started' = TRUE
      BY <2>1 DEF NewManager
    <3>4. CatalogTrue' /\ DOMAIN home' \subseteq Tools /\ home' \in [DOMAIN home' -> Servers]
      BY <3>2, <3>3, RebuildTrue
    <3>5. AgentTrue' /\ agent' \subseteq Tools
      BY <2>0, <3>3, <3>4, TakesTrue DEF ManagerTypes
    <3> QED
      BY <3>2, <3>3, <3>4, <3>5 DEF TableInv, ManagerTypes
  <2>2. ASSUME NEW s \in Servers, Reconnect(s)  PROVE TableInv'
    <3>1. PICK offer \in ToolSets \cup {None} :
              /\ conn' = [conn EXCEPT ![s] = Dialled(offer).conn]
              /\ tools' = [tools EXCEPT ![s] = Dialled(offer).tools]
      BY <2>2 DEF Reconnect, Redial
    <3>2. conn' \in [Servers -> BOOLEAN] /\ tools' \in [Servers -> SUBSET Tools]
      BY <2>0, <3>1, DialledTypes DEF ManagerTypes
    <3>3. /\ home' = Rebuild(conn', tools') /\ started' = started
          /\ AgentTakes(home') \/ UNCHANGED agentVars
      BY <2>2 DEF Reconnect, Redial
    <3>4. CatalogTrue' /\ DOMAIN home' \subseteq Tools /\ home' \in [DOMAIN home' -> Servers]
      BY <3>2, <3>3, RebuildTrue
    <3>5. AgentTrue' /\ agent' \subseteq Tools
      <4>1. CASE AgentTakes(home')
        BY <2>0, <3>4, <4>1, TakesTrue DEF ManagerTypes
      <4>2. CASE UNCHANGED agentVars
        BY <2>0, <4>2 DEF agentVars, AgentTrue, ManagerTypes
      <4> QED
        BY <3>3, <4>1, <4>2
    <3> QED
      BY <2>0, <3>2, <3>3, <3>4, <3>5 DEF TableInv, ManagerTypes
  <2>3. CASE UNCHANGED <<managerVars, agentVars>>
    BY <2>0, <2>3 DEF managerVars, agentVars, TableInv, ManagerTypes, CatalogTrue, Offers, AgentTrue
  <2>4. ASSUME NEW s \in Servers, Answer(s) \/ Chatter(s) \/ Exit(s)
        PROVE  UNCHANGED <<managerVars, agentVars>>
    BY <2>4 DEF Answer, Chatter, Exit
  <2>5. ASSUME NEW c \in Callers, CallUnknown(c) \/ Advance(c) \/ \E t \in Tools : Call(c, t)
        PROVE  UNCHANGED <<managerVars, agentVars>>
    BY <2>5 DEF CallUnknown, Call, Begin, Advance, Write, WriteFails, Read, ReadEnd, Done
  <2>6. UNCHANGED vars => UNCHANGED <<managerVars, agentVars>>
    BY DEF vars
  <2> QED
    BY <1>2, <2>1, <2>2, <2>3, <2>4, <2>5, <2>6 DEF Next
<1> QED
  BY <1>1, <1>2

(* A tool is offered if and only if a connected server advertises it, it   *)
(* belongs to the first such server of the configuration, and the agent    *)
(* runs the MCP tools it lists and the built-in ones whose name no MCP     *)
(* tool has had, whatever names servers choose - after any reconnects.     *)
THEOREM ToolTableHolds == Spec => []ToolTable
<1>1. TableInv => ToolTable
  BY DEF TableInv, CatalogTrue, AgentTrue, Offers, ToolTable
<1> QED
  BY <1>1, TableInductive, PTL DEF Spec

-----------------------------------------------------------------------------
LEMMA InitInv == Init => McpInv
<1> SUFFICES ASSUME Init
             PROVE  McpInv
  OBVIOUS
<1>1. ManagerTypes
  BY TableInductive DEF TableInv
<1>2. WireTypes
  BY DEF Init, WireTypes, Calling, Free
<1>3. \A c \in Callers : Holder(c)
  BY McpAssumption DEF Init, Holder, Free
<1>4. \A s \in Servers : Wire(s)
  BY NothingInEmpty DEF Init, Wire
<1>5. Quiet /\ OwnReply
  BY DEF Init, Quiet, OwnReply, Free
<1> QED
  BY <1>1, <1>2, <1>3, <1>4, <1>5 DEF Init, McpInv

(* A step in which caller c moves while the wires stay as they are, but    *)
(* for ids that grow where nobody holds the mutex.                         *)
LEMMA CallerStep ==
    ASSUME McpInv, ManagerTypes', NEW c \in Callers, NEW rec \in Calling, Become(c, rec),
           UNCHANGED <<started, conn, lock, inbox, pipe, alive>>,
           id' \in [Servers -> Nat], calls' \in Nat,
           \A s \in Servers : id[s] <= id'[s] /\ (lock[s] # None => id'[s] = id[s]),
           caller[c].pc # "reading", rec.pc # "reading",
           rec.pc = "locking" => rec.on \in Servers,
           rec.pc = "returned" => rec.got \in {Error, rec.call},
           ~started => rec.pc = "free"
    PROVE  McpInv'
<1> USE McpAssumption
<1>0. /\ WireTypes /\ Quiet /\ OwnReply
      /\ \A s \in Servers : alive[s] => conn[s]
      /\ \A o \in Callers : Holder(o)
      /\ \A s \in Servers : Wire(s)
  BY DEF McpInv
<1>1. /\ caller' \in [Callers -> Calling] /\ caller'[c] = rec
      /\ \A o \in Callers \ {c} : caller'[o] = caller[o]
  BY <1>0 DEF Become, WireTypes
<1>2. \A s \in Servers : lock[s] # c
  BY <1>0 DEF Holder
<1>3. WireTypes' /\ Quiet' /\ OwnReply'
  BY <1>0, <1>1 DEF WireTypes, Quiet, OwnReply
<1>4. ASSUME NEW o \in Callers  PROVE Holder(o)'
  <2>1. \A s \in Servers : lock[s] = o => id'[s] = id[s]
    BY <1>0 DEF WireTypes
  <2> QED
    BY <1>0, <1>1, <1>2, <2>1 DEF Holder
<1>5. ASSUME NEW s \in Servers  PROVE Wire(s)'
  <2>1. ASSUME NEW m, m.id \in Nat, Fits(s, m)  PROVE Fits(s, m)'
    <3>1. id[s] \in Nat /\ id'[s] \in Nat
      BY <1>0 DEF WireTypes
    <3>2. m.id <= id'[s]
      BY <2>1, <3>1 DEF Fits
    <3>3. \A o \in Callers : lock[s] = o => o # c /\ id'[s] = id[s]
      BY <1>2
    <3>4. \A o \in Callers : lock[s] = o /\ m.id = id'[s] => m.call = caller'[o].call
      BY <1>1, <2>1, <3>3 DEF Fits
    <3> QED
      BY <3>2, <3>4 DEF Fits
  <2>2. Elems(inbox[s]) \subseteq [id : Nat, call : Nat] /\ Elems(pipe[s]) \subseteq Lines
    <3>1. inbox[s] \in Seq([id : Nat, call : Nat]) /\ pipe[s] \in Seq(Lines)
      BY <1>0 DEF WireTypes
    <3>2. Elems(inbox[s]) \subseteq [id : Nat, call : Nat]
      BY <3>1, ElemsOfSeq, Zenon
    <3>3. Elems(pipe[s]) \subseteq Lines
      BY <3>1, ElemsOfSeq, Zenon
    <3> QED
      BY <3>2, <3>3
  <2>3. \A m \in Elems(pipe[s]) : m.kind = "message" => m.id \in Nat
    BY <2>2 DEF Lines, Garbage
  <2> QED
    BY <1>0, <2>1, <2>2, <2>3 DEF Wire
<1> QED
  BY <1>0, <1>3, <1>4, <1>5 DEF McpInv

LEMMA ManagerSteps ==
    ASSUME McpInv, TableInv', NewManager \/ \E s \in Servers : Reconnect(s)
    PROVE  McpInv'
<1> USE McpAssumption
<1>0. /\ WireTypes /\ Quiet /\ OwnReply
      /\ \A s \in Servers : alive[s] => conn[s]
      /\ \A o \in Callers : Holder(o)
      /\ \A s \in Servers : Wire(s)
  BY DEF McpInv
<1>1. \A connected : FirstId(connected) \in Nat
  BY DEF FirstId
<1>2. \A c \in Callers : caller[c].pc = "free"
  <2>1. CASE NewManager
    BY <1>0, <2>1 DEF NewManager, Quiet
  <2>2. CASE \E s \in Servers : Reconnect(s)
    BY <2>2 DEF Reconnect, AtPrompt
  <2> QED
    BY <2>1, <2>2
<1>3. ManagerTypes' /\ UNCHANGED <<lock, caller, calls>> /\ started'
  BY DEF NewManager, Reconnect, TableInv, bounds
<1>4. /\ WireTypes' /\ (\A s \in Servers : alive'[s] => conn'[s])
      /\ \A s \in Servers : \/ inbox'[s] = <<>> /\ pipe'[s] = <<>>
                            \/ inbox'[s] = inbox[s] /\ pipe'[s] = pipe[s] /\ id'[s] = id[s]
  <2>1. CASE NewManager
    <3>1. /\ alive' = conn' /\ id' = [s \in Servers |-> FirstId(conn'[s])]
          /\ UNCHANGED <<inbox, pipe>> /\ ~started
      BY <2>1 DEF NewManager
    <3> QED
      BY <1>0, <1>1, <1>3, <3>1 DEF WireTypes, ManagerTypes, Quiet
  <2>2. ASSUME NEW s \in Servers, Reconnect(s)
        PROVE  /\ WireTypes' /\ (\A o \in Servers : alive'[o] => conn'[o])
               /\ \A o \in Servers : \/ inbox'[o] = <<>> /\ pipe'[o] = <<>>
                                     \/ inbox'[o] = inbox[o] /\ pipe'[o] = pipe[o] /\ id'[o] = id[o]
    <3>1. /\ alive' = [alive EXCEPT ![s] = conn'[s]] /\ id' = [id EXCEPT ![s] = FirstId(conn'[s])]
          /\ inbox' = [inbox EXCEPT ![s] = <<>>] /\ pipe' = [pipe EXCEPT ![s] = <<>>]
      BY <2>2 DEF Reconnect, Redial
    <3>2. \A o \in Servers \ {s} : conn'[o] = conn[o]
      BY <2>2 DEF Reconnect, Redial, McpInv, ManagerTypes
    <3>3. conn' \in [Servers -> BOOLEAN]
      BY <1>3 DEF ManagerTypes
    <3>4. WireTypes'
      <4>1. alive' \in [Servers -> BOOLEAN] /\ id' \in [Servers -> Nat]
        BY <1>0, <1>1, <3>1, <3>3 DEF WireTypes
      <4>2. /\ inbox' \in [Servers -> Seq([id : Nat, call : Nat])]
            /\ pipe' \in [Servers -> Seq(Lines)]
        BY <1>0, <3>1 DEF WireTypes
      <4> QED
        BY <1>0, <1>3, <4>1, <4>2 DEF WireTypes
    <3>5. \A o \in Servers : alive'[o] => conn'[o]
      BY <1>0, <3>1, <3>2 DEF WireTypes
    <3>6. \A o \in Servers : \/ inbox'[o] = <<>> /\ pipe'[o] = <<>>
                             \/ inbox'[o] = inbox[o] /\ pipe'[o] = pipe[o] /\ id'[o] = id[o]
      BY <1>0, <3>1 DEF WireTypes
    <3> QED
      BY <3>4, <3>5, <3>6
  <2> QED
    BY <2>1, <2>2
<1>5. \A c \in Callers : Holder(c)'
  BY <1>0, <1>2, <1>3 DEF Holder
<1>6. ASSUME NEW s \in Servers  PROVE Wire(s)'
  <2>1. CASE inbox'[s] = <<>> /\ pipe'[s] = <<>>
    BY <2>1, NothingInEmpty DEF Wire
  <2>2. CASE inbox'[s] = inbox[s] /\ pipe'[s] = pipe[s] /\ id'[s] = id[s]
    BY <1>0, <1>3, <2>2 DEF Wire, Fits
  <2> QED
    BY <1>4, <2>1, <2>2
<1>7. Quiet' /\ OwnReply'
  BY <1>0, <1>3 DEF Quiet, OwnReply
<1> QED
  BY <1>3, <1>4, <1>5, <1>6, <1>7 DEF McpInv

(* A step that changes what is on the wire of one server: what it has to   *)
(* respect.                                                                *)
LEMMA WireStep ==
    ASSUME McpInv, NEW s \in Servers,
           UNCHANGED <<started, conn, tools, home, agent, lock, id, caller>>, calls' \in Nat,
           alive' \in [Servers -> BOOLEAN], \A o \in Servers : alive'[o] => alive[o],
           inbox' \in [Servers -> Seq([id : Nat, call : Nat])], pipe' \in [Servers -> Seq(Lines)],
           \A o \in Servers \ {s} : inbox'[o] = inbox[o] /\ pipe'[o] = pipe[o],
           started,
           \A m \in Elems(inbox'[s]) : Fits(s, m),
           \A m \in Elems(pipe'[s]) : m.kind = "message" => Fits(s, m)
    PROVE  McpInv'
<1>0. /\ WireTypes /\ ManagerTypes /\ Quiet /\ OwnReply
      /\ \A o \in Servers : alive[o] => conn[o]
      /\ \A c \in Callers : Holder(c)
      /\ \A o \in Servers : Wire(o)
  BY DEF McpInv
<1>1. WireTypes' /\ ManagerTypes' /\ Quiet' /\ OwnReply'
  BY <1>0 DEF WireTypes, ManagerTypes, Quiet, OwnReply
<1>2. \A c \in Callers : Holder(c)'
  BY <1>0 DEF Holder
<1>3. \A o \in Servers : Wire(o)'
  <2>1. \A o, m : Fits(o, m)' <=> Fits(o, m)
    BY DEF Fits
  <2> QED
    BY <1>0, <2>1 DEF Wire
<1> QED
  BY <1>0, <1>1, <1>2, <1>3 DEF McpInv

LEMMA ServerSteps ==
    ASSUME McpInv, NEW s \in Servers, Answer(s) \/ Chatter(s) \/ Exit(s)
    PROVE  McpInv'
<1>0. /\ WireTypes /\ Quiet /\ Wire(s)
  BY DEF McpInv
<1>1. alive[s] /\ started
  BY <1>0 DEF Answer, Chatter, Exit, Quiet
<1>2. UNCHANGED <<started, conn, tools, home, agent, lock, id, caller, calls>>
  BY DEF Answer, Chatter, Exit, managerVars, agentVars, bounds
<1>3. inbox[s] \in Seq([id : Nat, call : Nat]) /\ pipe[s] \in Seq(Lines)
  BY <1>0 DEF WireTypes
<1>4. CASE Answer(s)
  <2> DEFINE r == Head(inbox[s])
  <2>1. /\ inbox[s] # <<>> /\ inbox' = [inbox EXCEPT ![s] = Tail(inbox[s])]
        /\ pipe' = [pipe EXCEPT ![s] = Append(pipe[s], Reply(r))] /\ UNCHANGED alive
    BY <1>4 DEF Answer
  <2>2. /\ r \in Elems(inbox[s]) /\ r \in [id : Nat, call : Nat]
        /\ Tail(inbox[s]) \in Seq([id : Nat, call : Nat])
        /\ Elems(Tail(inbox[s])) \subseteq Elems(inbox[s])
    BY <1>3, <2>1, ElemsFacts
  <2>3. Reply(r) \in Lines /\ Fits(s, Reply(r))
    <3>1. Fits(s, r)
      BY <1>0, <2>2 DEF Wire
    <3> QED
      BY <2>2, <3>1 DEF Reply, Lines, Fits
  <2>4. /\ Append(pipe[s], Reply(r)) \in Seq(Lines)
        /\ Elems(Append(pipe[s], Reply(r))) = Elems(pipe[s]) \cup {Reply(r)}
    BY <1>3, <2>3, ElemsFacts
  <2> HIDE DEF r
  <2>5. inbox'[s] = Tail(inbox[s]) /\ pipe'[s] = Append(pipe[s], Reply(r))
    BY <1>0, <2>1 DEF WireTypes
  <2>6. /\ inbox' \in [Servers -> Seq([id : Nat, call : Nat])] /\ pipe' \in [Servers -> Seq(Lines)]
        /\ \A o \in Servers \ {s} : inbox'[o] = inbox[o] /\ pipe'[o] = pipe[o]
    BY <1>0, <2>1, <2>2, <2>4 DEF WireTypes
  <2>7. /\ \A m \in Elems(inbox'[s]) : Fits(s, m)
        /\ \A m \in Elems(pipe'[s]) : m.kind = "message" => Fits(s, m)
    BY <1>0, <2>2, <2>3, <2>4, <2>5 DEF Wire
  <2> QED
    BY <1>0, <1>1, <1>2, <2>1, <2>6, <2>7, WireStep DEF WireTypes
<1>5. CASE Chatter(s)
  <2>1. PICK l \in {Note, Garbage} : pipe' = [pipe EXCEPT ![s] = Append(pipe[s], l)]
    BY <1>5 DEF Chatter
  <2>2. UNCHANGED <<inbox, alive>>
    BY <1>5 DEF Chatter
  <2>3. l \in Lines /\ (l.kind = "message" => Fits(s, l))
    <3>1. l \in Lines
      BY DEF Lines, Note
    <3>2. CASE l = Note
      <4>1. Note.id = 0 /\ Note.id <= id[s] /\ \A c \in Callers : lock[s] = c => id[s] # 0
        BY <1>0 DEF Note, WireTypes, McpInv, Holder
      <4> QED
        BY <3>1, <3>2, <4>1 DEF Fits
    <3>3. CASE l = Garbage
      BY <3>1, <3>3 DEF Garbage
    <3> QED
      BY <3>2, <3>3
  <2>4. Append(pipe[s], l) \in Seq(Lines) /\ Elems(Append(pipe[s], l)) = Elems(pipe[s]) \cup {l}
    BY <1>3, <2>3, ElemsFacts
  <2>5. /\ pipe' \in [Servers -> Seq(Lines)] /\ pipe'[s] = Append(pipe[s], l)
        /\ \A o \in Servers \ {s} : pipe'[o] = pipe[o]
    BY <1>0, <2>1, <2>4 DEF WireTypes
  <2>6. /\ \A m \in Elems(inbox'[s]) : Fits(s, m)
        /\ \A m \in Elems(pipe'[s]) : m.kind = "message" => Fits(s, m)
    BY <1>0, <2>2, <2>3, <2>4, <2>5 DEF Wire
  <2> QED
    BY <1>0, <1>1, <1>2, <2>2, <2>5, <2>6, WireStep DEF WireTypes
<1>6. CASE Exit(s)
  <2>1. alive' = [alive EXCEPT ![s] = FALSE] /\ UNCHANGED <<inbox, pipe>>
    BY <1>6 DEF Exit
  <2>2. alive' \in [Servers -> BOOLEAN] /\ \A o \in Servers : alive'[o] => alive[o]
    BY <1>0, <2>1 DEF WireTypes
  <2>3. /\ \A m \in Elems(inbox'[s]) : Fits(s, m)
        /\ \A m \in Elems(pipe'[s]) : m.kind = "message" => Fits(s, m)
    BY <1>0, <2>1 DEF Wire
  <2> QED
    BY <1>0, <1>1, <1>2, <2>1, <2>2, <2>3, WireStep DEF WireTypes
<1> QED
  BY <1>4, <1>5, <1>6

-----------------------------------------------------------------------------
LEMMA CallInv ==
    ASSUME McpInv, TableInv', NEW c \in Callers, CallUnknown(c) \/ \E t \in Tools : Call(c, t)
    PROVE  McpInv'
<1>0. WireTypes /\ ManagerTypes /\ caller[c].pc = "free" /\ started
  BY DEF McpInv, CallUnknown, Call, Begin
<1>1. /\ calls' = calls + 1 /\ calls' \in Nat
      /\ UNCHANGED <<started, conn, lock, id, inbox, pipe, alive>>
  <2>1. Begin(c) /\ calls \in Nat
    BY <1>0 DEF CallUnknown, Call, WireTypes
  <2> QED
    BY <2>1 DEF Begin, managerVars, wireVars
<1>2. ManagerTypes' /\ id' \in [Servers -> Nat] /\ \A s \in Servers : id[s] <= id[s]
  BY <1>0, <1>1 DEF TableInv, WireTypes
<1>3. PICK n \in Nat : n = calls'
  BY <1>1
<1>9. Free \in Calling /\ -1 \in Int
  BY DEF Calling, Free
<1>4. ASSUME NEW t \in Tools, Call(c, t)  PROVE McpInv'
  <2>1. PICK s : s = home[t]
    OBVIOUS
  <2>2. PICK rec : rec = [Free EXCEPT !.pc = "locking", !.on = s, !.call = n]
    OBVIOUS
  <2>3. Become(c, rec)
    BY <1>3, <1>4, <2>1, <2>2 DEF Call
  <2>4. s \in Servers
    BY <1>0, <1>4, <2>1 DEF Call, ManagerTypes
  <2>5. rec \in Calling /\ rec.pc = "locking" /\ rec.on = s
    BY <1>9, <2>2, <2>4 DEF Calling
  <2> QED
    BY <1>0, <1>1, <1>2, <2>3, <2>4, <2>5, CallerStep
<1>5. ASSUME CallUnknown(c)  PROVE McpInv'
  <2>1. PICK rec : rec = [Free EXCEPT !.pc = "returned", !.call = n, !.got = Error]
    OBVIOUS
  <2>2. Become(c, rec)
    BY <1>3, <1>5, <2>1 DEF CallUnknown
  <2>3. rec \in Calling /\ rec.pc = "returned" /\ rec.got = Error
    BY <1>9, <2>1 DEF Calling, Error
  <2>4. rec.got \in {Error, rec.call} /\ rec.pc \notin {"free", "locking", "reading"}
    BY <2>3
  <2>5. /\ caller[c].pc # "reading" /\ rec.pc # "reading"
        /\ rec.pc = "locking" => rec.on \in Servers
        /\ ~started => rec.pc = "free"
        /\ \A s \in Servers : id[s] <= id'[s] /\ (lock[s] # None => id'[s] = id[s])
    BY <1>0, <1>1, <1>2, <2>4
  <2> QED
    BY <1>1, <1>2, <2>2, <2>3, <2>4, <2>5, CallerStep
<1> QED
  BY <1>4, <1>5

LEMMA DoneInv == ASSUME McpInv, TableInv', NEW c \in Callers, Done(c) PROVE McpInv'
<1>0. WireTypes /\ caller[c].pc = "returned" /\ Become(c, Free)
  BY DEF McpInv, Done
<1>1. UNCHANGED <<started, conn, lock, id, inbox, pipe, alive, calls>>
  BY DEF Done, managerVars, wireVars, bounds
<1>2. ManagerTypes' /\ id' \in [Servers -> Nat] /\ calls' \in Nat /\ \A s \in Servers : id[s] <= id[s]
  BY <1>0, <1>1 DEF TableInv, WireTypes
<1>3. Free \in Calling /\ Free.pc = "free"
  BY DEF Calling, Free
<1> QED
  BY <1>0, <1>1, <1>2, <1>3, CallerStep

(* A call that fails, whatever it was doing.                               *)
LEMMA FailedIs ==
    ASSUME WireTypes, NEW c \in Callers
    PROVE  Failed(c) \in Calling /\ Failed(c).pc = "returned" /\ Failed(c).got = Error
<1>1. caller[c] \in Calling /\ -1 \in Int
  BY DEF WireTypes
<1> QED
  BY <1>1 DEF Calling, Failed, Error

LEMMA WriteFailsInv == ASSUME McpInv, TableInv', NEW c \in Callers, WriteFails(c) PROVE McpInv'
<1> DEFINE s == caller[c].on
<1>0. WireTypes /\ Quiet /\ Holder(c)
  BY DEF McpInv
<1>1. /\ caller[c].pc = "locking" /\ lock[s] = None /\ s \in Servers
      /\ id' = [id EXCEPT ![s] = id[s] + 1] /\ Become(c, Failed(c))
      /\ UNCHANGED <<started, conn, lock, inbox, pipe, alive, calls>>
  BY <1>0 DEF WriteFails, Holder, Busy, managerVars, bounds
<1> HIDE DEF s
<1>2. /\ id' \in [Servers -> Nat]
      /\ \A o \in Servers : id[o] <= id'[o] /\ (lock[o] # None => id'[o] = id[o])
  BY <1>0, <1>1 DEF WireTypes
<1>3. ManagerTypes' /\ calls' \in Nat /\ started
  BY <1>0, <1>1 DEF TableInv, WireTypes, Quiet
<1> QED
  BY <1>0, <1>1, <1>2, <1>3, FailedIs, CallerStep

(* The mutex is taken and the request has the next id, which no line has   *)
(* yet.                                                                    *)
LEMMA WriteInv == ASSUME McpInv, TableInv', NEW c \in Callers, Write(c) PROVE McpInv'
<1> USE McpAssumption
<1>0. /\ WireTypes /\ Quiet /\ OwnReply
      /\ \A o \in Servers : alive[o] => conn[o]
      /\ \A o \in Callers : Holder(o)
      /\ \A o \in Servers : Wire(o)
  BY DEF McpInv
<1>1. PICK s : s = caller[c].on
  OBVIOUS
<1>2. caller[c].pc = "locking" /\ lock[s] = None /\ s \in Servers /\ caller[c] \in Calling
  BY <1>0, <1>1 DEF Write, Holder, Busy, WireTypes
<1>3. PICK n : n = id[s] + 1
  OBVIOUS
<1>4. n \in Nat /\ n # 0 /\ id[s] \in Nat /\ id[s] < n
  BY <1>0, <1>2, <1>3 DEF WireTypes
<1>5. PICK req : req = Request(n, caller[c].call)
  OBVIOUS
<1>6. PICK rec : rec = [caller[c] EXCEPT !.pc = "reading", !.want = n]
  OBVIOUS
<1>7. id' = [id EXCEPT ![s] = n] /\ id'[s] = n /\ \A o \in Servers \ {s} : id'[o] = id[o]
  <2>1. id' = [id EXCEPT ![s] = n]
    BY <1>1, <1>3 DEF Write
  <2> QED
    BY <1>0, <1>2, <2>1 DEF WireTypes
<1>8. /\ lock' = [lock EXCEPT ![s] = c] /\ Become(c, rec)
      /\ inbox' = [inbox EXCEPT ![s] = Append(inbox[s], req)]
      /\ UNCHANGED <<started, conn, pipe, alive, calls>>
  BY <1>1, <1>5, <1>6, <1>7 DEF Write, managerVars, bounds
<1>9. rec \in Calling /\ rec.pc = "reading" /\ rec.on = s /\ rec.want = n /\ rec.call = caller[c].call
  BY <1>1, <1>2, <1>4, <1>6 DEF Calling
<1>10. req \in [id : Nat, call : Nat] /\ req.id = n /\ req.call = rec.call
  BY <1>2, <1>4, <1>5, <1>9 DEF Request, Calling
<1>11. /\ inbox[s] \in Seq([id : Nat, call : Nat]) /\ pipe[s] \in Seq(Lines)
       /\ Append(inbox[s], req) \in Seq([id : Nat, call : Nat])
       /\ Elems(Append(inbox[s], req)) = Elems(inbox[s]) \cup {req}
  <2>1. inbox[s] \in Seq([id : Nat, call : Nat]) /\ pipe[s] \in Seq(Lines)
    BY <1>0, <1>2 DEF WireTypes
  <2>2. /\ Append(inbox[s], req) \in Seq([id : Nat, call : Nat])
        /\ Elems(Append(inbox[s], req)) = Elems(inbox[s]) \cup {req}
    <3>1. PICK R : R = [id : Nat, call : Nat]
      OBVIOUS
    <3>2. req \in R /\ inbox[s] \in Seq(R)
      BY <1>10, <2>1, <3>1
    <3>3. Append(inbox[s], req) \in Seq(R) /\ Elems(Append(inbox[s], req)) = Elems(inbox[s]) \cup {req}
      BY <3>2, ElemsAppend
    <3> QED
      BY <3>1, <3>3
  <2> QED
    BY <2>1, <2>2
<1>12. /\ lock'[s] = c /\ \A o \in Servers \ {s} : lock'[o] = lock[o]
       /\ inbox'[s] = Append(inbox[s], req) /\ \A o \in Servers \ {s} : inbox'[o] = inbox[o]
       /\ caller'[c] = rec /\ \A o \in Callers \ {c} : caller'[o] = caller[o]
  BY <1>0, <1>2, <1>8 DEF WireTypes, Become
<1>13. WireTypes'
  <2>1. lock' \in [Servers -> Callers \cup {None}] /\ id' \in [Servers -> Nat]
    BY <1>0, <1>4, <1>7, <1>8 DEF WireTypes
  <2>2. inbox' \in [Servers -> Seq([id : Nat, call : Nat])]
    BY <1>0, <1>8, <1>11 DEF WireTypes
  <2>3. caller' \in [Callers -> Calling]
    BY <1>0, <1>8, <1>9 DEF WireTypes, Become
  <2> QED
    BY <1>0, <1>8, <2>1, <2>2, <2>3 DEF WireTypes
<1>14. started
  BY <1>0, <1>2 DEF Quiet
<1>15. ManagerTypes' /\ Quiet' /\ OwnReply'
  <2>1. ManagerTypes' /\ Quiet'
    BY <1>8, <1>14 DEF TableInv, Quiet
  <2>2. OwnReply'
    BY <1>0, <1>9, <1>12 DEF OwnReply
  <2> QED
    BY <2>1, <2>2
<1>16. ASSUME NEW o \in Callers  PROVE Holder(o)'
  <2>1. CASE o = c
    <3>1. \A d \in Servers : lock[d] # c
      BY <1>0, <1>2 DEF Holder
    <3>2. \A d \in Servers : lock'[d] = c <=> d = s
      BY <1>12, <3>1
    <3> QED
      BY <1>2, <1>4, <1>7, <1>9, <1>12, <2>1, <3>2 DEF Holder
  <2>2. CASE o # c
    <3>1. \A d \in Servers : lock'[d] = o <=> lock[d] = o
      BY <1>2, <1>12, <2>2
    <3>2. \A d \in Servers : lock[d] = o => id'[d] = id[d]
      BY <1>2, <1>7
    <3> QED
      BY <1>0, <1>12, <2>2, <3>1, <3>2 DEF Holder
  <2> QED
    BY <2>1, <2>2
<1>17. ASSUME NEW o \in Servers  PROVE Wire(o)'
  <2>1. CASE o # s
    <3>1. \A m : Fits(o, m) => Fits(o, m)'
      <4>1. \A d \in Callers : lock[o] = d => d # c
        BY <1>0, <1>2 DEF Holder
      <4> QED
        BY <1>7, <1>12, <2>1, <4>1 DEF Fits
    <3> QED
      BY <1>0, <1>8, <1>12, <2>1, <3>1 DEF Wire
  <2>2. CASE o = s
    <3>1. ASSUME NEW m, m.id \in Nat, Fits(s, m)  PROVE Fits(s, m)'
      <4>1. m.id <= id[s]
        BY <3>1 DEF Fits
      <4>2. m.id < n /\ m.id # n /\ m.id <= n
        BY <1>4, <3>1, <4>1
      <4> QED
        BY <1>7, <4>2 DEF Fits
    <3>2. Fits(s, req)'
      <4>1. n <= n
        BY <1>4
      <4> QED
        BY <1>7, <1>10, <1>12, <4>1 DEF Fits
    <3>3. Elems(inbox[s]) \subseteq [id : Nat, call : Nat] /\ Elems(pipe[s]) \subseteq Lines
      BY <1>11, ElemsOfSeq, Zenon
    <3>4. \A m \in Elems(pipe[s]) : m.kind = "message" => m.id \in Nat
      BY <3>3 DEF Lines, Garbage
    <3>5. \A m \in Elems(inbox'[s]) : Fits(s, m)'
      <4>1. \A m \in Elems(inbox[s]) : m.id \in Nat /\ Fits(s, m)
        BY <1>0, <1>2, <3>3 DEF Wire
      <4> QED
        BY <1>11, <1>12, <3>1, <3>2, <4>1
    <3>6. \A m \in Elems(pipe'[s]) : m.kind = "message" => Fits(s, m)'
      <4>1. \A m \in Elems(pipe[s]) : m.kind = "message" => Fits(s, m)
        BY <1>0, <1>2 DEF Wire
      <4> QED
        BY <1>8, <3>1, <3>4, <4>1
    <3> QED
      BY <2>2, <3>5, <3>6 DEF Wire
  <2> QED
    BY <2>1, <2>2
<1> QED
  BY <1>0, <1>8, <1>13, <1>15, <1>16, <1>17 DEF McpInv

(* The holder takes a line, or finds the end of its server's output.       *)
LEMMA ReadInv ==
    ASSUME McpInv, TableInv', NEW c \in Callers, Read(c) \/ ReadEnd(c)
    PROVE  McpInv'
<1> USE McpAssumption
<1>0. /\ WireTypes /\ Quiet /\ OwnReply
      /\ \A o \in Servers : alive[o] => conn[o]
      /\ \A o \in Callers : Holder(o)
      /\ \A o \in Servers : Wire(o)
  BY DEF McpInv
<1>1. PICK s : s = caller[c].on
  OBVIOUS
<1>2. PICK line : line = Head(pipe[s])
  OBVIOUS
<1>3. /\ caller[c].pc = "reading" /\ s \in Servers /\ caller[c] \in Calling
      /\ lock[s] = c /\ caller[c].want = id[s] /\ started
  <2>1. caller[c].pc = "reading"
    BY DEF Read, ReadEnd
  <2>2. caller[c] \in Calling /\ started
    BY <1>0, <2>1 DEF WireTypes, Quiet
  <2>3. s \in Servers /\ lock[s] = c /\ caller[c].want = id[s]
    BY <1>0, <1>1, <2>1 DEF Holder
  <2> QED
    BY <2>1, <2>2, <2>3
<1>4. /\ pipe' = pipe \/ (pipe[s] # <<>> /\ pipe' = [pipe EXCEPT ![s] = Tail(pipe[s])])
      /\ UNCHANGED <<started, conn, id, inbox, alive, calls>>
  BY <1>1 DEF Read, ReadEnd, managerVars, bounds
<1>5. /\ pipe'[s] = pipe[s] \/ (pipe[s] # <<>> /\ pipe'[s] = Tail(pipe[s]))
      /\ \A o \in Servers \ {s} : pipe'[o] = pipe[o]
  BY <1>0, <1>3, <1>4 DEF WireTypes
<1>6. pipe[s] \in Seq(Lines)
  BY <1>0, <1>3 DEF WireTypes
<1>7. pipe' \in [Servers -> Seq(Lines)] /\ \A o \in Servers : Elems(pipe'[o]) \subseteq Elems(pipe[o])
  <2>1. pipe[s] # <<>> => Tail(pipe[s]) \in Seq(Lines) /\ Elems(Tail(pipe[s])) \subseteq Elems(pipe[s])
    BY <1>6, ElemsFacts, Zenon
  <2>2. pipe' \in [Servers -> Seq(Lines)]
    BY <1>0, <1>4, <2>1 DEF WireTypes
  <2> QED
    BY <1>5, <2>1, <2>2
<1>8. \/ UNCHANGED <<lock, caller>>
      \/ \E rec \in Calling :
            /\ lock' = [lock EXCEPT ![s] = None] /\ Become(c, rec) /\ rec.pc = "returned"
            /\ rec.got \in {Error, rec.call}
  <2>1. \/ UNCHANGED <<lock, caller>>
        \/ /\ line.kind = "message" /\ line.id = caller[c].want /\ pipe[s] # <<>> /\ Unlock(s)
           /\ Become(c, [caller[c] EXCEPT !.pc = "returned", !.got = line.call])
        \/ Unlock(s) /\ Become(c, Failed(c))
    BY <1>1, <1>2 DEF Read, ReadEnd, IsReply
  <2>2. ASSUME line.kind = "message", line.id = caller[c].want, pipe[s] # <<>>
        PROVE  line.call \in Nat /\ line.call = caller[c].call
    <3>1. Head(pipe[s]) \in Elems(pipe[s]) /\ Elems(pipe[s]) \subseteq Lines
      BY <1>6, <2>2, ElemsFacts, Zenon
    <3>2. line \in Elems(pipe[s]) /\ line \in Lines
      BY <1>2, <3>1
    <3>3. Fits(s, line)
      BY <1>0, <1>3, <2>2, <3>2 DEF Wire
    <3>4. line.call \in Nat
      BY <2>2, <3>2 DEF Lines, Garbage
    <3> QED
      BY <1>3, <2>2, <3>3, <3>4 DEF Fits
  <2>3. CASE UNCHANGED <<lock, caller>>
    BY <2>3
  <2>4. CASE /\ line.kind = "message" /\ line.id = caller[c].want /\ pipe[s] # <<>> /\ Unlock(s)
             /\ Become(c, [caller[c] EXCEPT !.pc = "returned", !.got = line.call])
    <3>1. PICK rec : rec = [caller[c] EXCEPT !.pc = "returned", !.got = line.call]
      OBVIOUS
    <3>2. line.call \in Int /\ line.call = caller[c].call
      BY <2>2, <2>4
    <3>3. rec \in Calling /\ rec.pc = "returned" /\ rec.got = rec.call
      BY <1>3, <3>1, <3>2 DEF Calling
    <3>4. Become(c, rec) /\ lock' = [lock EXCEPT ![s] = None]
      BY <2>4, <3>1 DEF Unlock
    <3> QED
      BY <3>3, <3>4
  <2>5. CASE Unlock(s) /\ Become(c, Failed(c))
    BY <1>0, <2>5, FailedIs DEF Unlock
  <2> QED
    BY <2>1, <2>3, <2>4, <2>5
<1>9. ManagerTypes'
  BY DEF TableInv
<1>10. CASE UNCHANGED <<lock, caller>>
  <2>1. WireTypes'
    BY <1>0, <1>4, <1>7, <1>10 DEF WireTypes
  <2>2. Quiet' /\ OwnReply' /\ \A o \in Callers : Holder(o)'
    BY <1>0, <1>3, <1>4, <1>10 DEF Quiet, OwnReply, Holder
  <2>3. \A o, m : Fits(o, m)' <=> Fits(o, m)
    BY <1>4, <1>10 DEF Fits
  <2>4. \A o \in Servers : Wire(o)'
    BY <1>0, <1>4, <1>7, <2>3 DEF Wire
  <2> QED
    BY <1>0, <1>4, <1>9, <2>1, <2>2, <2>4 DEF McpInv
<1>11. ASSUME NEW rec \in Calling, lock' = [lock EXCEPT ![s] = None], Become(c, rec),
              rec.pc = "returned", rec.got \in {Error, rec.call}
       PROVE  McpInv'
  <2>1. /\ caller'[c] = rec /\ \A o \in Callers \ {c} : caller'[o] = caller[o]
        /\ lock'[s] = None /\ \A o \in Servers \ {s} : lock'[o] = lock[o]
        /\ lock' \in [Servers -> Callers \cup {None}] /\ caller' \in [Callers -> Calling]
    BY <1>0, <1>3, <1>11 DEF Become, WireTypes
  <2>2. WireTypes'
    BY <1>0, <1>4, <1>7, <2>1 DEF WireTypes
  <2>3. Quiet' /\ OwnReply'
    BY <1>0, <1>3, <1>4, <1>11, <2>1 DEF Quiet, OwnReply
  <2>4. \A o \in Servers : lock[o] = c => o = s
    BY <1>0, <1>1 DEF Holder
  <2>5. ASSUME NEW o \in Callers  PROVE Holder(o)'
    <3>1. CASE o = c
      BY <1>0, <1>11, <2>1, <2>4, <3>1 DEF Holder
    <3>2. CASE o # c
      BY <1>0, <1>3, <1>4, <2>1, <3>2 DEF Holder
    <3> QED
      BY <3>1, <3>2
  <2>6. ASSUME NEW o \in Servers, NEW m, Fits(o, m)  PROVE Fits(o, m)'
    <3>1. \A d \in Callers : lock'[o] = d => lock[o] = d /\ d # c
      BY <2>1, <2>4
    <3> QED
      BY <1>4, <2>1, <2>6, <3>1 DEF Fits
  <2>7. \A o \in Servers : Wire(o)'
    BY <1>0, <1>4, <1>7, <2>6 DEF Wire
  <2> QED
    BY <1>0, <1>4, <1>9, <2>2, <2>3, <2>5, <2>7 DEF McpInv
<1> QED
  BY <1>8, <1>10, <1>11

-----------------------------------------------------------------------------
LEMMA McpInvInductive == TableInv /\ McpInv /\ [Next]_vars => TableInv' /\ McpInv'
<1> SUFFICES ASSUME TableInv, McpInv, [Next]_vars
             PROVE  McpInv'
  BY TableInductive
<1>0. TableInv'
  BY TableInductive
<1>1. CASE NewManager \/ \E s \in Servers : Reconnect(s)
  BY <1>0, <1>1, ManagerSteps
<1>2. ASSUME NEW s \in Servers, Answer(s) \/ Chatter(s) \/ Exit(s)  PROVE McpInv'
  BY <1>2, ServerSteps
<1>3. ASSUME NEW c \in Callers, CallUnknown(c) \/ \E t \in Tools : Call(c, t)  PROVE McpInv'
  BY <1>0, <1>3, CallInv
<1>4. ASSUME NEW c \in Callers, Advance(c)  PROVE McpInv'
  BY <1>0, <1>4, WriteInv, WriteFailsInv, ReadInv, DoneInv DEF Advance
<1>5. CASE UNCHANGED vars
  <2>1. UNCHANGED <<started, conn, tools, home, agent, lock, id, inbox, pipe, alive, caller, calls>>
    BY <1>5 DEF vars, managerVars, agentVars, wireVars, bounds
  <2>2. ManagerTypes' /\ WireTypes' /\ Quiet' /\ OwnReply'
    BY <2>1 DEF McpInv, ManagerTypes, WireTypes, Quiet, OwnReply
  <2>3. \A c \in Callers : Holder(c)'
    BY <2>1 DEF McpInv, Holder
  <2>4. \A s \in Servers : Wire(s)'
    BY <2>1 DEF McpInv, Wire, Fits
  <2> QED
    BY <2>1, <2>2, <2>3, <2>4 DEF McpInv
<1> QED
  BY <1>1, <1>2, <1>3, <1>4, <1>5 DEF Next

LEMMA McpInvHolds == Spec => []McpInv
BY InitInv, TableInductive, McpInvInductive, PTL DEF Spec

(* Only the holder of a transport's mutex reads its pipe, and every        *)
(* variable keeps its type.                                                *)
THEOREM TypeCorrect == Spec => []TypeOK
<1>1. McpInv /\ TableInv => TypeOK
  <2> SUFFICES ASSUME McpInv, TableInv
               PROVE  TypeOK
    OBVIOUS
  <2>1. \A c \in Callers : caller[c].pc \in {"free", "locking", "reading", "returned"}
    BY DEF McpInv, WireTypes, Calling
  <2> QED
    BY <2>1 DEF McpInv, TableInv, AgentTrue, ManagerTypes, WireTypes, Holder, TypeOK
<1> QED
  BY <1>1, McpInvHolds, TableInductive, PTL DEF Spec

(* A call returns an error or the reply to its own request, with other     *)
(* lines between, after calls that left their replies in the pipe, and on  *)
(* new connections.                                                        *)
THEOREM OwnReplyHolds == Spec => []OwnReply
<1>1. McpInv => OwnReply
  BY DEF McpInv
<1> QED
  BY <1>1, McpInvHolds, PTL

=============================================================================
