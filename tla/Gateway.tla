------------------------------ MODULE Gateway ------------------------------
(***************************************************************************)
(* The request pipeline of internal/gateway behind the HTTP handlers of    *)
(* internal/server: response cache, fallback over the targets of a model,  *)
(* the tool loop over MCP servers, streaming, and the counters of          *)
(* /metrics.  Handlers run concurrently and share the cache and the        *)
(* counters.                                                               *)
(*                                                                         *)
(* What compression makes of a request's messages is in Compress; the      *)
(* similarity of two final user messages is a constant.                    *)
(***************************************************************************)
EXTENDS Compress, FiniteSets, FiniteSetsExt

CONSTANTS
    Handlers,      \* HTTP handlers: how many can run at once
    Providers,     \* configured provider adapters
    Models,        \* model names a client may ask for
    Route,         \* Route[m]: the providers of m's targets, <<>> if unknown
    Requests,      \* what clients may send
    Normal,        \* Normal[t]: t in lower case, its white space collapsed
    Sim,           \* Sim[a][b]: similarity of two such texts
    Threshold,     \* similarity_threshold, 0 = exact matches only
    TTL,           \* ttl_seconds
    MaxEntries,    \* max_entries
    MCPEnabled,    \* BOOLEAN: some MCP server advertises a tool
    MaxIter,       \* max_tool_iterations
    None,          \* sentinel: no request, no response
    CallCounts,    \* bound: how many tool calls an answer of the model can hold
    MaxRequests,   \* bound: requests in all
    MaxClock       \* bound: seconds of wall clock

ASSUME GatewayAssumption ==
    /\ Requests \subseteq [kind : {"complete", "stream"}, model : Models, msgs : Seq(Messages),
                            temperature : Extras, rest : Extras]
    /\ IsFiniteSet(Handlers) /\ IsFiniteSet(Providers)
    /\ \A m \in Models : Route[m] \in Seq(ToSet(Route[m]))
    /\ TTL \in Nat \ {0} /\ MaxEntries \in Nat \ {0} /\ MaxIter \in Nat \ {0}
    /\ MCPEnabled \in BOOLEAN
    /\ Threshold \in Nat /\ Sim \in [Texts -> [Texts -> Nat]]
    /\ \A t \in Texts : Sim[Empty][t] = 0 /\ Sim[t][Empty] = 0
    /\ Normal \in [Texts -> Texts] /\ \A t \in Texts : Normal[Neat[t]] = Normal[t]
    /\ Normal[Empty] = Empty
    /\ CallCounts \subseteq Nat /\ MaxRequests \in Nat /\ MaxClock \in Nat

(* A request after compression. *)
Sent == {[q EXCEPT !.msgs = Apply(q.msgs, s)] : q \in Requests, s \in Summaries \cup {NoSummary}}

(* A response, by what the client had asked, how it was obtained and when. *)
Responses == [asked : Requests, by : Providers, tools : Nat, born : 0 .. MaxClock]

VARIABLES
    clock,         \* seconds
    h,             \* h[r]: what handler r is doing
    items,         \* Cache.items
    order,         \* Cache.order
    requests, hits, errors,   \* metrics.Metrics
    observed,      \* Metrics.byProvider
    denied         \* history: requests the governor refused

cacheVars == <<items, order>>
meterVars == <<requests, hits, errors, observed, denied>>
vars == <<clock, h, cacheVars, meterVars>>

Idle ==
    [pc |-> "idle", asked |-> None, req |-> None, idx |-> 0, iter |-> 0, tools |-> 0,
     resp |-> None, hit |-> "none", at |-> 0, gone |-> FALSE,
     trail |-> <<>>, rounds |-> <<>>, sources |-> {}]

Pcs == {"idle", "lookup", "resolve", "call", "backoff", "tools", "done", "put", "answer"}

(* The text of the last message of the user's, Empty if there is none. *)
FinalUser(q) ==
    LET last == SelectLastInSeq(q.msgs, LAMBDA m : m.role = "user")
    IN  IF last = 0 THEN Empty ELSE q.msgs[last].text

(* Of a message the key has its role and its normalized text: not its      *)
(* images, not its tool calls, not the id of the call it answers.          *)
Hashed(m) == [role |-> m.role, text |-> Normal[m.text], n |-> m.n]

Normalized(msgs) == [i \in DOMAIN msgs |-> Hashed(msgs[i])]

(* keyFor: what identifies a request in the cache.  It is not all of it:   *)
(* the other fields (max_tokens, tools, ...) are left out too.             *)
KeyOf(q) == [model |-> q.model, temperature |-> q.temperature, msgs |-> Normalized(q.msgs)]

(* Resolve: targets of providers that are not configured are skipped.  The *)
(* choice of an API key from the provider's pool is left out.              *)
Usable(q) ==
    LET targets == Route[q.model]
        attempts[i \in 0 .. Len(targets)] ==
            IF i = 0 THEN <<>>
            ELSE IF targets[i] \in Providers THEN Append(attempts[i - 1], targets[i])
            ELSE attempts[i - 1]
    IN  attempts[Len(targets)]

TypeOK ==
    /\ clock \in 0 .. MaxClock
    /\ DOMAIN h = Handlers
    /\ \A r \in Handlers :
          /\ h[r].pc \in Pcs
          /\ IF h[r].pc = "idle" THEN h[r] = Idle
             ELSE /\ h[r].asked \in Requests /\ h[r].req \in Sent
                  /\ h[r].idx \in 0 .. Len(Usable(h[r].req))
          /\ h[r].resp \in Responses \cup {None}
          /\ h[r].iter \in 0 .. MaxIter
          /\ h[r].rounds \in Seq([calls : CallCounts \ {0}, results : Nat])
    /\ \A k \in DOMAIN items : items[k].resp \in Responses /\ items[k].expires = items[k].resp.born + TTL
    /\ {requests, hits, errors, denied} \subseteq Nat
    /\ observed \in [Providers -> Nat]

Init ==
    /\ clock = 0
    /\ h = [r \in Handlers |-> Idle]
    /\ items = <<>> /\ order = <<>>
    /\ requests = 0 /\ hits = 0 /\ errors = 0 /\ denied = 0
    /\ observed = [p \in Providers |-> 0]

-----------------------------------------------------------------------------
Step(r, rec) == h' = [h EXCEPT ![r] = rec]

(* handleChat: the governor refuses the request (module Governor). *)
Deny(r) ==
    /\ h[r].pc = "idle" /\ requests + denied < MaxRequests
    /\ errors' = errors + 1 /\ denied' = denied + 1
    /\ UNCHANGED <<clock, h, cacheVars, requests, hits, observed>>

(* Complete and PrepareStream count the request and compress it in place;  *)
(* the summary is a call of a model, which shares nothing with others.     *)
Begin(r, q, summary) ==
    /\ h[r].pc = "idle" /\ requests + denied < MaxRequests
    /\ requests' = requests + 1
    /\ Step(r, [Idle EXCEPT !.pc = IF q.kind = "complete" THEN "lookup" ELSE "resolve",
                            !.asked = q, !.req = [q EXCEPT !.msgs = Apply(@, summary)]])
    /\ UNCHANGED <<clock, cacheVars, hits, errors, observed, denied>>

(* An error reply: counted once, and the handler is done. *)
FailWith(r) ==
    /\ errors' = errors + 1
    /\ Step(r, Idle)
    /\ UNCHANGED <<clock, cacheVars, requests, hits, observed, denied>>

(* The client goes away: its context is cancelled. *)
Leave(r) ==
    /\ h[r].pc \in {"call", "backoff"} /\ ~h[r].gone
    /\ Step(r, [h[r] EXCEPT !.gone = TRUE])
    /\ UNCHANGED <<clock, cacheVars, meterVars>>

-----------------------------------------------------------------------------
(* Cache.Get: the exact entry while it is live, else the most similar live *)
(* entry of the model.  (At its expiry instant an entry is dead for the    *)
(* exact match and live for the scan.)                                     *)
Exact(q) == {k \in {KeyOf(q)} \cap DOMAIN items : clock < items[k].expires}

Similarity(q, k) == Sim[FinalUser(KeyOf(q))][FinalUser(k)]

(* Mutant: the scan does not look at the model. *)
CandidatesAnyModel(q) == {k \in DOMAIN items : clock <= items[k].expires
                                                /\ Similarity(q, k) >= Threshold}

Candidates(q) == {k \in DOMAIN items : k.model = q.model /\ clock <= items[k].expires
                                        /\ Similarity(q, k) >= Threshold}

Closest(q) == {k \in Candidates(q) : \A o \in Candidates(q) : Similarity(q, k) >= Similarity(q, o)}

Found(q, how) ==
    CASE how = "exact" -> Exact(q)
      [] how = "close" -> IF Exact(q) # {} \/ Threshold = 0 THEN {} ELSE Closest(q)

Hit(r, k, how) ==
    /\ h[r].pc = "lookup" /\ k \in Found(h[r].req, how)
    /\ hits' = hits + 1
    /\ Step(r, [h[r] EXCEPT !.pc = "answer", !.resp = items[k].resp, !.hit = how, !.at = clock])
    /\ UNCHANGED <<clock, cacheVars, requests, errors, observed, denied>>

Miss(r) ==
    /\ h[r].pc = "lookup" /\ \A how \in {"exact", "close"} : Found(h[r].req, how) = {}
    /\ Step(r, [h[r] EXCEPT !.pc = "resolve"])
    /\ UNCHANGED <<clock, cacheVars, meterVars>>

(* Mutant: every stored response is appended to the order. *)
OrderedAlways(k) == Append(order, k)

OrderedBy(k) == IF k \in DOMAIN items THEN order ELSE Append(order, k)

(* Cache.Put: a response that used no tool replaces or joins the entries;  *)
(* the oldest keys beyond max_entries go.                                  *)
PutEntry(k, resp) ==
    LET all == [j \in DOMAIN items \cup {k} |->
                   IF j = k THEN [resp |-> resp, expires |-> clock + TTL] ELSE items[j]]
        by == OrderedBy(k)
        excess == Cardinality(DOMAIN all) - MaxEntries
        gone == IF excess > 0 THEN excess ELSE 0
    IN  /\ items' = [j \in DOMAIN all \ ToSet(SubSeq(by, 1, gone)) |-> all[j]]
        /\ order' = SubSeq(by, gone + 1, Len(by))

Cacheable(r) == h[r].tools = 0

Put(r) ==
    /\ h[r].pc = "put"
    /\ LET resp == [h[r].resp EXCEPT !.born = clock]
       IN  IF Cacheable(r) THEN PutEntry(KeyOf(h[r].req), resp) ELSE UNCHANGED cacheVars
    /\ Step(r, [h[r] EXCEPT !.pc = "answer"])
    /\ UNCHANGED <<clock, meterVars>>

-----------------------------------------------------------------------------
Resolve(r) ==
    /\ h[r].pc = "resolve" /\ Usable(h[r].req) # <<>>
    /\ Step(r, [h[r] EXCEPT !.pc = "call", !.idx = 1])
    /\ UNCHANGED <<clock, cacheVars, meterVars>>

ResolveFails(r) ==
    /\ h[r].pc = "resolve" /\ Usable(h[r].req) = <<>>
    /\ FailWith(r)

Target(r) == Usable(h[r].req)[h[r].idx]
Called(r, out) == Append(h[r].trail, [by |-> Target(r), out |-> out])

(* The model's answer in a round of runToolLoop: with tool calls the       *)
(* assistant message is appended and the tools run; otherwise it is final. *)
Reply(r, n) ==
    /\ h[r].pc = "call" /\ h[r].req.kind = "complete" /\ ~h[r].gone
    /\ LET looping == MCPEnabled /\ n > 0
       IN  Step(r, [h[r] EXCEPT !.pc = IF looping THEN "tools" ELSE "done",
                                !.iter = IF MCPEnabled THEN @ + 1 ELSE 0,
                                !.trail = Called(r, "ok"),
                                !.rounds = IF looping THEN Append(@, [calls |-> n, results |-> 0])
                                                      ELSE @,
                                !.resp = [asked |-> h[r].asked, by |-> Target(r),
                                          tools |-> h[r].tools, born |-> 0]])
    /\ UNCHANGED <<clock, cacheVars, meterVars>>

(* Mutant: one round too many. *)
MoreRoundsLate(r) == h[r].iter <= MaxIter

MoreRounds(r) == h[r].iter < MaxIter

(* Mutant: the next round starts once the first result is there. *)
OwesMoreFirst(r) == FALSE

(* After the call that runs now, are there others of the same answer? *)
OwesMore(r) == Last(h[r].rounds).results + 1 < Last(h[r].rounds).calls

(* One MCP call and its result message; a failed call becomes the text of  *)
(* the message.  After the last one the next round calls the model again,  *)
(* starting from the first target, unless max_tool_iterations is reached.  *)
ToolResult(r) ==
    /\ h[r].pc = "tools"
    /\ Step(r, [h[r] EXCEPT !.tools = @ + 1, !.rounds[Len(h[r].rounds)].results = @ + 1,
                            !.pc = IF OwesMore(r) THEN "tools"
                                   ELSE IF MoreRounds(r) THEN "call" ELSE "done",
                            !.idx = IF ~OwesMore(r) /\ MoreRounds(r) THEN 1 ELSE @])
    /\ UNCHANGED <<clock, cacheVars, meterVars>>

(* Mutant: every failure is worth a fallback. *)
FallsBackAlways(kind) == TRUE

(* retryable: 429, 5xx and errors without a status (a broken connection, a *)
(* cancelled context).                                                     *)
FallsBack(kind) == kind = "retry"

(* The upstream call fails.  A status is only read before anything is      *)
(* relayed, so a stream that breaks half-way is always retryable.          *)
UpstreamFails(r, kind) ==
    /\ h[r].pc = "call"
    /\ kind = "terminal" => ~h[r].gone /\ h[r].idx \notin h[r].sources
    /\ IF FallsBack(kind)
       THEN /\ Step(r, [h[r] EXCEPT !.pc = "backoff", !.trail = Called(r, kind)])
            /\ UNCHANGED <<clock, cacheVars, meterVars>>
       ELSE FailWith(r)

NextTarget(r) == h[r].idx + 1

(* Mutant: nothing happens after the last target. *)
WakeWithoutEnd(r) ==
    /\ h[r].pc = "backoff" /\ NextTarget(r) <= Len(Usable(h[r].req))
    /\ Step(r, [h[r] EXCEPT !.pc = "call", !.idx = NextTarget(r)])
    /\ UNCHANGED <<clock, cacheVars, meterVars>>

(* backoff ran its time: the next target, or ErrAllFailed after the last   *)
(* one (which is waited for too).                                          *)
Wake(r) ==
    /\ h[r].pc = "backoff"
    /\ IF NextTarget(r) <= Len(Usable(h[r].req))
       THEN /\ Step(r, [h[r] EXCEPT !.pc = "call", !.idx = NextTarget(r)])
            /\ UNCHANGED <<clock, cacheVars, meterVars>>
       ELSE FailWith(r)

Cancelled(r) ==
    /\ h[r].pc = "backoff" /\ h[r].gone
    /\ FailWith(r)

(* Mutant: Complete returns without counting the provider. *)
ObserveSkipped(r) ==
    /\ h[r].pc = "done"
    /\ observed' = observed
    /\ Step(r, IF h[r].req.kind = "stream" THEN Idle ELSE [h[r] EXCEPT !.pc = "put"])
    /\ UNCHANGED <<clock, cacheVars, requests, hits, errors, denied>>

(* The winning provider is counted; a stream ends here. *)
Observe(r) ==
    /\ h[r].pc = "done"
    /\ observed' = [observed EXCEPT ![h[r].resp.by] = @ + 1]
    /\ Step(r, IF h[r].req.kind = "stream" THEN Idle ELSE [h[r] EXCEPT !.pc = "put"])
    /\ UNCHANGED <<clock, cacheVars, requests, hits, errors, denied>>

(* The reply is charged (module Governor) and written. *)
Answer(r) ==
    /\ h[r].pc = "answer"
    /\ Step(r, Idle)
    /\ UNCHANGED <<clock, cacheVars, meterVars>>

-----------------------------------------------------------------------------
(* Router.Stream: the provider relays the upstream's events to the client; *)
(* only the first event of each target is told apart.                      *)
StreamWrite(r) ==
    /\ h[r].pc = "call" /\ h[r].req.kind = "stream" /\ ~h[r].gone
    /\ h[r].idx \notin h[r].sources
    /\ Step(r, [h[r] EXCEPT !.sources = @ \cup {h[r].idx}])
    /\ UNCHANGED <<clock, cacheVars, meterVars>>

StreamEnd(r) ==
    /\ h[r].pc = "call" /\ h[r].req.kind = "stream"
    /\ Step(r, [h[r] EXCEPT !.pc = "done", !.trail = Called(r, "ok"),
                            !.resp = [asked |-> h[r].asked, by |-> Target(r), tools |-> 0, born |-> 0]])
    /\ UNCHANGED <<clock, cacheVars, meterVars>>

Tick ==
    /\ clock < MaxClock
    /\ clock' = clock + 1
    /\ UNCHANGED <<h, cacheVars, meterVars>>

Next ==
    \/ \E r \in Handlers, q \in Requests, s \in Summaries \cup {NoSummary} : Begin(r, q, s)
    \/ \E r \in Handlers : Deny(r) \/ Leave(r) \/ Miss(r) \/ Put(r) \/ Answer(r) \/ Observe(r)
    \/ \E r \in Handlers, k \in DOMAIN items, how \in {"exact", "close"} : Hit(r, k, how)
    \/ \E r \in Handlers : Resolve(r) \/ ResolveFails(r) \/ Wake(r) \/ Cancelled(r)
    \/ \E r \in Handlers, n \in CallCounts : Reply(r, n)
    \/ \E r \in Handlers, kind \in {"retry", "terminal"} : UpstreamFails(r, kind)
    \/ \E r \in Handlers : ToolResult(r) \/ StreamWrite(r) \/ StreamEnd(r)
    \/ Tick

Spec == Init /\ [][Next]_vars

(* A handler that can go on does, and an upstream that was called answers, *)
(* fails, or loses its client: the adapters set no deadline of their own.  *)
(* An MCP server may be mute for ever, and its caller waits (module Mcp).  *)
Advance(r) ==
    \/ Miss(r) \/ Put(r) \/ Answer(r) \/ Observe(r) \/ Resolve(r) \/ ResolveFails(r) \/ Wake(r)
    \/ StreamEnd(r) \/ \E k \in DOMAIN items, how \in {"exact", "close"} : Hit(r, k, how)
    \/ \E n \in CallCounts : Reply(r, n)
    \/ \E kind \in {"retry", "terminal"} : UpstreamFails(r, kind)

Fairness == \A r \in Handlers : WF_vars(Advance(r))
FairSpec == Spec /\ Fairness

-----------------------------------------------------------------------------
(* What two conversations have in common when every strategy makes the     *)
(* same of them, as far as the key goes: the system messages and the last  *)
(* others, each by its role and normalized text.                           *)
LastTurns(msgs) ==
    LET turns == Normalized(Others(msgs))
    IN  [i \in 1 .. KeepRecentTurns |->
            IF i <= Len(turns) THEN turns[Len(turns) - i + 1] ELSE None]

SameView(a, b) ==
    /\ Normalized(System(a)) = Normalized(System(b))
    /\ LastTurns(a) = LastTurns(b)

(* No client writes the notes compression leaves: no system message of a   *)
(* request is one.                                                         *)
Own(msgs) ==
    \A i \in 1 .. Len(msgs) : msgs[i].role = "system" =>
        msgs[i].n = 0 /\ \A s \in Summaries : Normal[msgs[i].text] # Normal[s]
NotesAreTheGateways == \A q \in Requests : Own(q.msgs)

Active == {r \in Handlers : h[r].pc # "idle"}

(* The cache's list of keys and its table agree, no key is listed twice,   *)
(* and the table never exceeds its bound, whatever handlers store and      *)
(* refresh the same keys at the same time.                                 *)
CacheConsistent ==
    /\ IsInjective(order)
    /\ ToSet(order) = DOMAIN items
    /\ Len(order) <= MaxEntries

(* What a cache hit returns was produced for the same model, by a run of   *)
(* it without tools, not longer ago than ttl_seconds.  An exact hit        *)
(* answers a request of the same temperature, whose system messages and    *)
(* last keep_recent_turns messages had the same roles and, normalized, the *)
(* same texts, though the key is that of the compressed prompt; a close    *)
(* one answers a similar enough final message of the user's, if there is   *)
(* one.  The images, the tool calls and the other fields of the request    *)
(* may differ: the key is no "hash of the whole request".                  *)
HitAnswersRequest ==
    \A r \in Handlers : h[r].hit # "none" =>
        /\ h[r].resp.asked.model = h[r].asked.model /\ h[r].resp.tools = 0
        /\ h[r].hit = "exact" =>
              /\ h[r].resp.asked.temperature = h[r].asked.temperature
              /\ SameView(h[r].resp.asked.msgs, h[r].asked.msgs)
        /\ h[r].hit = "close" =>
              /\ FinalUser(h[r].asked) # Empty
              /\ Similarity(h[r].asked, KeyOf(h[r].resp.asked)) >= Threshold
        /\ h[r].at <= h[r].resp.born + TTL

(* Every request the gateway counted is accounted for exactly once: as a   *)
(* hit, as an error, under the provider that served it, or by a handler    *)
(* still working on it.  Requests the governor refused count as errors     *)
(* only.                                                                   *)
Uncounted == {r \in Active : h[r].pc \notin {"put", "answer"}}

MetricsBalance ==
    requests = hits + (errors - denied) + MapThenSumSet(LAMBDA p : observed[p], Providers)
                 + Cardinality(Uncounted)

(* Upstream calls follow the fallback chain: each round starts at the      *)
(* first usable target, moves to the next one after a retryable failure    *)
(* only, and a terminal failure or a final answer is the last call.  A     *)
(* stream that breaks is a retryable failure like any other, also when     *)
(* part of it was relayed, which the comment of Router.Stream excludes.    *)
FallbackInOrder ==
    \A r \in Active :
        LET t == h[r].trail
            u == Usable(h[r].req)
            before(i) == SelectLastInSubSeq(t, 1, i - 1, LAMBDA c : c.out = "ok")
        IN  \A i \in 1 .. Len(t) :
                /\ t[i].by = u[i - before(i)]
                /\ t[i].out = "terminal" => i = Len(t) /\ h[r].pc # "call"

(* "call the model; if it requests tools, execute them and append the      *)
(* results": the model is never called while a call of an earlier answer   *)
(* has no result message.                                                  *)
ToolCallsAnswered ==
    \A r \in Handlers : h[r].pc # "tools" =>
        \A i \in 1 .. Len(h[r].rounds) : h[r].rounds[i].results = h[r].rounds[i].calls

(* Every request is answered, with a response or an error, unless its      *)
(* handler waits for an MCP server that never returns from a tool call.    *)
EveryRequestAnswered ==
    \A r \in Handlers : []<>(h[r].pc = "idle") \/ <>[](h[r].pc = "tools")

=============================================================================
