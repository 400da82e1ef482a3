------------------------------ MODULE Governor ------------------------------
(***************************************************************************)
(* internal/governance as the gateway runs it: every process ("node") has  *)
(* a Governor that admits requests of static virtual keys and of OIDC      *)
(* subjects, charges them for the tokens their responses report, and       *)
(* flushes the totals to the store from a background loop.  The store is   *)
(* the register of AtomicStore (store.File implements it: FileStore).      *)
(*                                                                         *)
(* A bucket level is kept in sixtieths of a token, so that a refill of     *)
(* elapsed * RPM / 60 tokens is the integer elapsed * RPM.                 *)
(***************************************************************************)
EXTENDS Integers, FiniteSets, Sequences

CONSTANTS
    Nodes,         \* gateway processes sharing the store
    StaticIds,     \* virtual keys of the configuration, by name
    Subjects,      \* OIDC subjects that can present a valid token
    Requests,      \* request handlers: how many can run at once
    RPM,           \* RPM[id]: requests per minute, 0 = unlimited
    MaxTokens,     \* MaxTokens[id]: cumulative token budget, 0 = unlimited
    Costs,         \* TotalTokens a response can report
    MaxCost,       \* the largest of them
    Streaming,     \* BOOLEAN: clients may ask for "stream": true
    ReadFaults,    \* BOOLEAN: store.Load may fail
    SaveFaults,    \* BOOLEAN: store.Save may fail
    NoSave,        \* sentinel of AtomicStore
    Steps,         \* seconds that can pass between two events
    MaxClock,      \* bound: seconds of wall clock
    MaxUsage,      \* bound: tokens a single identity uses in all
    MaxCrashes     \* bound: process crashes

Ids == StaticIds \cup Subjects

ASSUME GovernorAssumption ==
    /\ StaticIds \cap Subjects = {}
    /\ IsFiniteSet(Requests)
    /\ RPM \in [Ids -> Nat]
    /\ MaxTokens \in [Ids -> Nat]
    /\ MaxCost \in Nat
    /\ Costs \subseteq 0 .. MaxCost
    /\ Streaming \in BOOLEAN /\ ReadFaults \in BOOLEAN /\ SaveFaults \in BOOLEAN
    /\ Steps \subseteq Nat \ {0}
    /\ MaxClock \in Nat /\ MaxUsage \in Nat /\ MaxCrashes \in Nat
    /\ NoSave \notin [Ids -> Nat]

ASSUME NodesAssumption == Nodes # {} /\ IsFiniteSet(Nodes)

Spend == [Ids -> Nat]                 \* store.Snapshot: absent names read as 0
NoSpend == [id \in Ids |-> 0]

VARIABLES
    clock,         \* wall clock, in seconds
    up, stored, saving, loaded,       \* the store, see AtomicStore
    known,         \* known[n]: subjects with an entry in n's Governor.dyn
    spent,         \* spent[n][id]: keyState.spentTokens
    level,         \* level[n][id]: keyState.tokens, in sixtieths
    lastFill,      \* lastFill[n][id]: keyState.lastFill
    req,           \* req[r]: what handler r is doing
    todo,          \* todo[n]: identities n's running Flush still has to read
    snap,          \* snap[n]: the snapshot n's running Flush is filling
    flushing,      \* flushing[n]: a Flush is reading the counters
    used,          \* history: used[id], tokens id's responses have reported
    seen,          \* history: seen[n]: n loaded or wrote what the store holds
    takes,         \* history: takes[n][id], when n admitted id under its RPM
    crashes        \* history: number of crashes

storeVars == <<up, stored, saving, loaded>>
flushVars == <<todo, snap, flushing>>
keyVars == <<known, spent, level, lastFill, takes>>
vars == <<clock, storeVars, keyVars, req, flushVars, used, seen, crashes>>

Store == INSTANCE AtomicStore WITH Snapshots <- Spend, Empty <- NoSpend

Free == [pc |-> "free"]
Serving == [pc : {"complete", "stream"}, node : Nodes, id : Ids]

TypeOK ==
    /\ clock \in Nat
    /\ Store!StoreTypeOK
    /\ known \in [Nodes -> SUBSET Subjects]
    /\ spent \in [Nodes -> Spend]
    /\ level \in [Nodes -> [Ids -> Nat]]
    /\ lastFill \in [Nodes -> [Ids -> 0 .. clock]]
    /\ req \in [Requests -> Serving \cup {Free}]
    /\ todo \in [Nodes -> SUBSET Ids]
    /\ snap \in [Nodes -> Spend]
    /\ flushing \in [Nodes -> BOOLEAN]
    /\ used \in Spend
    /\ seen \in [Nodes -> BOOLEAN]
    /\ takes \in [Nodes -> [Ids -> Seq(Nat)]]
    /\ crashes \in Nat

Init ==
    /\ clock = 0
    /\ Store!StoreInit
    /\ known = [n \in Nodes |-> {}]
    /\ spent = [n \in Nodes |-> NoSpend]
    /\ level = [n \in Nodes |-> [id \in Ids |-> 60 * RPM[id]]]
    /\ lastFill = [n \in Nodes |-> [id \in Ids |-> 0]]
    /\ req = [r \in Requests |-> Free]
    /\ todo = [n \in Nodes |-> {}]
    /\ snap = [n \in Nodes |-> NoSpend]
    /\ flushing = [n \in Nodes |-> FALSE]
    /\ used = NoSpend
    /\ seen = [n \in Nodes |-> FALSE]
    /\ takes = [n \in Nodes |-> [id \in Ids |-> <<>>]]
    /\ crashes = 0

-----------------------------------------------------------------------------
(* Mutant: New ignores the snapshot it loads. *)
NewForgets(n) ==
    /\ known' = [known EXCEPT ![n] = {}]
    /\ spent' = [spent EXCEPT ![n] = NoSpend]
    /\ level' = [level EXCEPT ![n] = [id \in Ids |-> 60 * RPM[id]]]
    /\ lastFill' = [lastFill EXCEPT ![n] = [id \in Ids |-> clock]]
    /\ takes' = [takes EXCEPT ![n] = [id \in Ids |-> <<>>]]
    /\ UNCHANGED <<clock, req, flushVars, used, crashes>>

(* Governor.New: every static key starts with a full bucket and the spend  *)
(* the store holds for its name; no subject is known yet.                  *)
New(n) ==
    /\ known' = [known EXCEPT ![n] = {}]
    /\ spent' = [spent EXCEPT ![n] =
                    [id \in Ids |-> IF id \in StaticIds THEN loaded'[n][id] ELSE 0]]
    /\ level' = [level EXCEPT ![n] = [id \in Ids |-> 60 * RPM[id]]]
    /\ lastFill' = [lastFill EXCEPT ![n] = [id \in Ids |-> clock]]
    /\ takes' = [takes EXCEPT ![n] = [id \in Ids |-> <<>>]]
    /\ UNCHANGED <<clock, req, flushVars, used, crashes>>

Start(n) ==
    /\ Store!Boot(n)
    /\ New(n)
    /\ seen' = [seen EXCEPT ![n] = TRUE]

(* New drops the error of Load and starts from nothing. *)
StartUnreadable(n) ==
    /\ Store!BootUnreadable(n)
    /\ New(n)
    /\ seen' = [seen EXCEPT ![n] = FALSE]

(* oidcState: the first valid token of a subject creates its keyState, with *)
(* a full bucket and the spend loaded at boot.  Its write lock waits for a  *)
(* Flush that is reading the counters.                                      *)
Fresh(n, id) == id \in Subjects \ known[n]
SpentOf(n, id) == IF Fresh(n, id) THEN loaded[n][id] ELSE spent[n][id]
LevelOf(n, id) == IF Fresh(n, id) THEN 60 * RPM[id] ELSE level[n][id]
LastFillOf(n, id) == IF Fresh(n, id) THEN clock ELSE lastFill[n][id]

(* Mutant: the refill without its cap. *)
RefilledUncapped(n, id) == LevelOf(n, id) + (clock - LastFillOf(n, id)) * RPM[id]

(* The refill of checkState, capped at the burst size RPM. *)
Refilled(n, id) ==
    LET l == LevelOf(n, id) + (clock - LastFillOf(n, id)) * RPM[id]
    IN  IF l > 60 * RPM[id] THEN 60 * RPM[id] ELSE l

(* Mutant: the budget is compared with the total read at boot. *)
OverBudgetAtBoot(n, id) == MaxTokens[id] > 0 /\ loaded[n][id] >= MaxTokens[id]

OverBudget(n, id) == MaxTokens[id] > 0 /\ SpentOf(n, id) >= MaxTokens[id]

(* Authorize for a known key or a valid token; an unknown key, an invalid  *)
(* token and a model outside the allow-list are refused before any counter *)
(* is touched.  The new bucket is <<l, t>>.                                *)
Identify(n, id, l, t) ==
    /\ up[n]
    /\ id \in Subjects => ~flushing[n]
    /\ known' = [known EXCEPT ![n] = IF id \in Subjects THEN @ \cup {id} ELSE @]
    /\ spent' = [spent EXCEPT ![n][id] = SpentOf(n, id)]
    /\ level' = [level EXCEPT ![n][id] = l]
    /\ lastFill' = [lastFill EXCEPT ![n][id] = t]
    /\ UNCHANGED <<clock, storeVars, flushVars, used, seen, crashes>>

DenyBudget(n, id) ==
    /\ OverBudget(n, id)
    /\ Identify(n, id, LevelOf(n, id), LastFillOf(n, id))
    /\ UNCHANGED <<req, takes>>

(* Mutant: a refused call restarts the refill interval and drops the refill. *)
DenyRateLimitedLossy(n, id) ==
    /\ ~OverBudget(n, id)
    /\ RPM[id] > 0 /\ Refilled(n, id) < 60
    /\ Identify(n, id, LevelOf(n, id), clock)
    /\ UNCHANGED <<req, takes>>

DenyRateLimited(n, id) ==
    /\ ~OverBudget(n, id)
    /\ RPM[id] > 0 /\ Refilled(n, id) < 60
    /\ Identify(n, id, Refilled(n, id), clock)
    /\ UNCHANGED <<req, takes>>

Admit(r, n, id, pc) ==
    /\ req[r] = Free
    /\ ~OverBudget(n, id)
    /\ pc = "stream" => Streaming
    /\ \/ /\ RPM[id] = 0
          /\ Identify(n, id, LevelOf(n, id), LastFillOf(n, id))
          /\ takes' = takes
       \/ /\ RPM[id] > 0 /\ Refilled(n, id) >= 60
          /\ Identify(n, id, Refilled(n, id) - 60, clock)
          /\ takes' = [takes EXCEPT ![n][id] = Append(@, clock)]
    /\ req' = [req EXCEPT ![r] = [pc |-> pc, node |-> n, id |-> id]]

-----------------------------------------------------------------------------
Release(r) ==
    /\ req' = [req EXCEPT ![r] = Free]
    /\ UNCHANGED <<clock, storeVars, known, level, lastFill, takes, flushVars, seen, crashes>>

RecordSpend(n, id, c) == spent' = [spent EXCEPT ![n][id] = @ + c]

(* handleChat after a successful Complete: RecordSpend of the reported     *)
(* total (nothing for a total of 0), then the response.                    *)
Respond(r, c) ==
    /\ req[r].pc = "complete"
    /\ used[req[r].id] + c <= MaxUsage
    /\ used' = [used EXCEPT ![req[r].id] = @ + c]
    /\ RecordSpend(req[r].node, req[r].id, c)
    /\ Release(r)

(* streamChat relays the provider's events and records nothing. *)
RespondStream(r, c) ==
    /\ req[r].pc = "stream"
    /\ used[req[r].id] + c <= MaxUsage
    /\ used' = [used EXCEPT ![req[r].id] = @ + c]
    /\ UNCHANGED spent
    /\ Release(r)

(* Complete, PrepareStream or Stream fails. *)
Fail(r) ==
    /\ req[r] # Free
    /\ UNCHANGED <<used, spent>>
    /\ Release(r)

-----------------------------------------------------------------------------
(* Mutant: Flush copies the virtual keys only. *)
FlushStartStatic(n) ==
    /\ up[n] /\ ~flushing[n] /\ saving[n] = NoSave
    /\ flushing' = [flushing EXCEPT ![n] = TRUE]
    /\ todo' = [todo EXCEPT ![n] = StaticIds]
    /\ snap' = [snap EXCEPT ![n] = NoSpend]
    /\ UNCHANGED <<clock, storeVars, keyVars, req, used, seen, crashes>>

(* Flush holds the read lock of g.mu while it copies the counters, each    *)
(* under its own lock, static keys first; then it saves.                   *)
FlushStart(n) ==
    /\ up[n] /\ ~flushing[n] /\ saving[n] = NoSave
    /\ flushing' = [flushing EXCEPT ![n] = TRUE]
    /\ todo' = [todo EXCEPT ![n] = StaticIds \cup known[n]]
    /\ snap' = [snap EXCEPT ![n] = NoSpend]
    /\ UNCHANGED <<clock, storeVars, keyVars, req, used, seen, crashes>>

(* Mutant: Flush adds the counters to the totals already in the store. *)
FlushReadAdds(n, id) ==
    /\ flushing[n] /\ id \in todo[n]
    /\ id \in Subjects => todo[n] \cap StaticIds = {}
    /\ snap' = [snap EXCEPT ![n][id] = stored[id] + spent[n][id]]
    /\ todo' = [todo EXCEPT ![n] = @ \ {id}]
    /\ UNCHANGED <<clock, storeVars, keyVars, req, flushing, used, seen, crashes>>

FlushRead(n, id) ==
    /\ flushing[n] /\ id \in todo[n]
    /\ id \in Subjects => todo[n] \cap StaticIds = {}
    /\ snap' = [snap EXCEPT ![n][id] = spent[n][id]]
    /\ todo' = [todo EXCEPT ![n] = @ \ {id}]
    /\ UNCHANGED <<clock, storeVars, keyVars, req, flushing, used, seen, crashes>>

FlushSave(n) ==
    /\ flushing[n] /\ todo[n] = {}
    /\ Store!BeginSave(n, snap[n])
    /\ flushing' = [flushing EXCEPT ![n] = FALSE]
    /\ snap' = [snap EXCEPT ![n] = NoSpend]
    /\ UNCHANGED <<clock, keyVars, req, todo, used, seen, crashes>>

SaveDone(n) ==
    /\ Store!CommitSave(n)
    /\ seen' = [m \in Nodes |-> m = n]
    /\ UNCHANGED <<clock, keyVars, req, flushVars, used, crashes>>

(* The flush loop logs the error and waits for the next tick. *)
SaveFails(n) ==
    /\ SaveFaults
    /\ Store!FailSave(n)
    /\ UNCHANGED <<clock, keyVars, req, flushVars, used, seen, crashes>>

(* The process dies: its handlers and its flush loop die with it.  Nothing *)
(* is flushed on the way out, so a shutdown is no different.               *)
Crash(n) ==
    /\ crashes < MaxCrashes
    /\ Store!Crash(n)
    /\ req' = [r \in Requests |-> IF req[r] # Free /\ req[r].node = n THEN Free ELSE req[r]]
    /\ flushing' = [flushing EXCEPT ![n] = FALSE]
    /\ todo' = [todo EXCEPT ![n] = {}]
    /\ snap' = [snap EXCEPT ![n] = NoSpend]
    /\ crashes' = crashes + 1
    /\ UNCHANGED <<clock, keyVars, used, seen>>

Tick(d) ==
    /\ clock + d <= MaxClock
    /\ clock' = clock + d
    /\ UNCHANGED <<storeVars, keyVars, req, flushVars, used, seen, crashes>>

Next ==
    \/ \E n \in Nodes : Start(n) \/ StartUnreadable(n) \/ Crash(n)
    \/ \E n \in Nodes, id \in Ids : DenyBudget(n, id) \/ DenyRateLimited(n, id)
    \/ \E r \in Requests, n \in Nodes, id \in Ids, pc \in {"complete", "stream"} :
          Admit(r, n, id, pc)
    \/ \E r \in Requests, c \in Costs : Respond(r, c) \/ RespondStream(r, c)
    \/ \E r \in Requests : Fail(r)
    \/ \E n \in Nodes : FlushStart(n) \/ FlushSave(n) \/ SaveDone(n) \/ SaveFails(n)
    \/ \E n \in Nodes, id \in Ids : FlushRead(n, id)
    \/ \E d \in Steps : Tick(d)

Spec == Init /\ [][Next]_vars

(* startFlushLoop: the ticker goroutine of a running process never stops,  *)
(* and a disk error is not permanent.                                      *)
Fairness ==
    \A n \in Nodes :
        /\ WF_vars(FlushStart(n))
        /\ WF_vars(\E id \in Ids : FlushRead(n, id))
        /\ WF_vars(FlushSave(n))
        /\ SF_vars(SaveDone(n))

FairSpec == Spec /\ Fairness

-----------------------------------------------------------------------------
InFlight(n, id) == {r \in Requests : req[r] # Free /\ req[r].node = n /\ req[r].id = id}

(* What concurrent handlers can spend beyond a budget: each of them passed *)
(* the check in checkState before the others' RecordSpend.                 *)
Overshoot == MaxCost * Cardinality(Requests)

(* A node never charges an identity more than its budget plus what the     *)
(* handlers that were already running could cost: the check in checkState  *)
(* and the charge in RecordSpend are separate critical sections, and a     *)
(* restart resumes from a total some Flush wrote.                          *)
OvershootBounded ==
    \A n \in Nodes, id \in Ids :
        MaxTokens[id] > 0 => spent[n][id] < MaxTokens[id] + Overshoot

(* The same for the tokens an identity really obtained, from all nodes and *)
(* in all their lives: each life of a process grants the budget at most    *)
(* once, however much spend the crash that ended the last one lost.        *)
Lives == Cardinality(Nodes) + crashes

UsageBounded ==
    \A id \in Ids : MaxTokens[id] > 0 => used[id] < Lives * (MaxTokens[id] + Overshoot)

(* No identity is charged, in memory or in the store, for more than its    *)
(* responses reported: restarts, repeated flushes and the reload of the    *)
(* store count nothing twice.                                              *)
NeverOvercharged ==
    \A id \in Ids :
        /\ stored[id] <= used[id]
        /\ \A n \in Nodes : spent[n][id] <= used[id]

(* "Budgets survive restarts": what the store holds for a virtual key only *)
(* shrinks when a node saves that has never seen it, because another node  *)
(* saved after this one had loaded the store or saved itself, or because   *)
(* this one's Load failed.  Crashes, restarts, failed saves and counters   *)
(* that move while they are copied take nothing back.                      *)
DurableSpendGrows ==
    [][\A id \in StaticIds :
          stored'[id] < stored[id] => \E n \in Nodes : SaveDone(n) /\ ~seen[n]]_vars

(* The same promise for the subjects of OIDC tokens. *)
DurableSubjectSpendGrows == [][\A id \in Subjects : stored'[id] >= stored[id]]_vars

(* In any window of T seconds an identity is admitted at most RPM + RPM *  *)
(* T / 60 times by a running node (the token bucket of checkState).        *)
WindowBounded ==
    \A n \in Nodes, id \in Ids : \A i, j \in 1 .. Len(takes[n][id]) :
        i <= j => 60 * (j - i + 1) <= RPM[id] * (60 + takes[n][id][j] - takes[n][id][i])

(* What an identity could take from its bucket right now. *)
Credit(n, id) == Refilled(n, id)

(* A call that is not admitted costs nothing: polling a limited or         *)
(* exhausted identity never delays its next admission.                     *)
PollingIsFree ==
    [][\A n \in Nodes, id \in Ids :
          up[n] /\ takes'[n][id] = takes[n][id] => Credit(n, id)' >= Credit(n, id)]_vars

(* What has been charged reaches the store, unless the process dies first. *)
EventuallyDurable ==
    \A n \in Nodes, id \in Ids, v \in 1 .. MaxUsage :
        (up[n] /\ spent[n][id] >= v) ~> (stored[id] >= v \/ ~up[n])

=============================================================================
