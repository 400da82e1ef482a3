-------------------------------- MODULE Mcp --------------------------------
(***************************************************************************)
(* The MCP client of internal/mcp: the manager's connections and its       *)
(* catalog of tools, the stdio transport that exchanges lines with a       *)
(* server's process, and the table of tools the frostcode agent builds     *)
(* from the catalog.                                                       *)
(*                                                                         *)
(* Both programs use it: calls run concurrently in the gateway's handlers; *)
(* a reconnect is asked for at frostcode's prompt, when no call runs.  A   *)
(* dial is over before its manager is used again, so it is one step with   *)
(* any of its outcomes.  Calls over HTTP share nothing and are left out.   *)
(***************************************************************************)
EXTENDS Integers, Sequences

CONSTANTS
    Servers,       \* configured servers
    Order,         \* their order in the configuration
    ToolSets,      \* the sets of tools (by name) a server can advertise
    Builtin,       \* the agent's own tools, whose names they may have
    Mute,          \* servers that may leave a request unanswered for ever
    Callers,       \* goroutines that call tools
    None,          \* sentinel: no server, no caller
    MaxCalls,      \* bound: tool calls in all
    MaxLines,      \* bound: lines servers write of their own accord
    MaxDials       \* bound: reconnects

Tools == UNION ToolSets

ASSUME McpAssumption ==
    /\ Order \in Seq(Servers) /\ \A s \in Servers : \E i \in DOMAIN Order : Order[i] = s
    /\ Mute \subseteq Servers
    /\ None \notin Servers \cup Callers
    /\ MaxCalls \in Nat /\ MaxLines \in Nat /\ MaxDials \in Nat

VARIABLES
    started,       \* NewManager has returned
    conn,          \* conn[s]: client.tr is not nil
    tools,         \* tools[s]: client.tools
    home,          \* Manager.toolHome; the catalog lists its domain
    agent,         \* the MCP tools among the agent's tools
    byName,        \* Agent.byName: who runs a tool, "builtin" or "mcp"
    taken,         \* history: built-in names an MCP tool of the agent has had
    lock,          \* lock[s]: the caller that holds the transport's mutex
    id,            \* id[s]: the last request id
    inbox,         \* inbox[s]: requests on the server's stdin
    pipe,          \* pipe[s]: lines on its stdout
    alive,         \* alive[s]: its process runs
    caller,        \* caller[c]: what c is doing
    calls, lines, dials

managerVars == <<started, conn, tools, home>>
agentVars == <<agent, byName, taken>>
wireVars == <<lock, id, inbox, pipe, alive>>
bounds == <<calls, lines, dials>>
vars == <<managerVars, agentVars, wireVars, caller, bounds>>

Request(i, n) == [id |-> i, call |-> n]
Reply(r) == [kind |-> "message", id |-> r.id, call |-> r.call]
Note == [kind |-> "message", id |-> 0, call |-> 0]
Garbage == [kind |-> "garbage"]

Error == -1
Free == [pc |-> "free", on |-> None, want |-> 0, call |-> 0, got |-> 0]

Init ==
    /\ started = FALSE
    /\ conn = [s \in Servers |-> FALSE]
    /\ tools = [s \in Servers |-> {}]
    /\ home = <<>>
    /\ agent = {} /\ byName = [t \in Builtin |-> "builtin"] /\ taken = {}
    /\ lock = [s \in Servers |-> None]
    /\ id = [s \in Servers |-> 0]
    /\ inbox = [s \in Servers |-> <<>>] /\ pipe = [s \in Servers |-> <<>>]
    /\ alive = [s \in Servers |-> FALSE]
    /\ caller = [c \in Callers |-> Free]
    /\ calls = 0 /\ lines = 0 /\ dials = 0

-----------------------------------------------------------------------------
(* The manager.                                                            *)

(* Both maps; where they differ the first one counts. *)
Over(f, g) == [t \in DOMAIN f \cup DOMAIN g |-> IF t \in DOMAIN f THEN f[t] ELSE g[t]]

Claim(s, tl) == [t \in tl[s] |-> s]

(* Mutant: the last server to claim a name wins. *)
RebuildLastWins(cn, tl) ==
    LET claimed[i \in 0 .. Len(Order)] ==
            IF i = 0 THEN <<>>
            ELSE IF cn[Order[i]] THEN Over(Claim(Order[i], tl), claimed[i - 1]) ELSE claimed[i - 1]
    IN  claimed[Len(Order)]

(* rebuildCatalog: in configuration order, the first connected server to   *)
(* claim a name wins.                                                      *)
Rebuild(cn, tl) ==
    LET claimed[i \in 0 .. Len(Order)] ==
            IF i = 0 THEN <<>>
            ELSE IF cn[Order[i]] THEN Over(claimed[i - 1], Claim(Order[i], tl)) ELSE claimed[i - 1]
    IN  claimed[Len(Order)]

(* dial: the connection, the handshake and the list of tools all succeed,  *)
(* or (None) the server is left disconnected without tools.                *)
Dialled(offer) == [conn |-> offer # None, tools |-> IF offer = None THEN {} ELSE offer]

(* The ids of the handshake and of the list are used up. *)
FirstId(connected) == IF connected THEN 2 ELSE 0

(* The catalog as tools of the agent, run by Manager.Call. *)
AgentTools(h) == [t \in DOMAIN h |-> "mcp"]

(* Mutant: the entries of tools that are gone stay. *)
AgentTakesMore(h) ==
    /\ agent' = DOMAIN h
    /\ byName' = Over(AgentTools(h), byName)
    /\ taken' = taken \cup (Builtin \cap DOMAIN h)

(* AddTool for every tool of the catalog; ReplaceMCPTools, which drops the *)
(* agent's MCP tools first.  Both write byName by name alone: an MCP tool  *)
(* replaces the entry of a built-in, and takes it along when it goes.      *)
AgentTakes(h) ==
    /\ agent' = DOMAIN h
    /\ byName' = Over(AgentTools(h), [t \in DOMAIN byName \ agent |-> byName[t]])
    /\ taken' = taken \cup (Builtin \cap DOMAIN h)

(* NewManager dials every server, then the agent takes the catalog. *)
NewManager ==
    /\ ~started /\ started' = TRUE
    /\ \E offer \in [Servers -> ToolSets \cup {None}] :
          /\ conn' = [s \in Servers |-> Dialled(offer[s]).conn]
          /\ tools' = [s \in Servers |-> Dialled(offer[s]).tools]
    /\ home' = Rebuild(conn', tools')
    /\ AgentTakes(home')
    /\ alive' = conn'
    /\ id' = [s \in Servers |-> FirstId(conn'[s])]
    /\ UNCHANGED <<lock, inbox, pipe, caller, bounds>>

(* Manager.Reconnect: the old process is killed and the server dialled.    *)
Redial(s) ==
    /\ \E offer \in ToolSets \cup {None} :
          /\ conn' = [conn EXCEPT ![s] = Dialled(offer).conn]
          /\ tools' = [tools EXCEPT ![s] = Dialled(offer).tools]
    /\ home' = Rebuild(conn', tools')
    /\ alive' = [alive EXCEPT ![s] = conn'[s]]
    /\ id' = [id EXCEPT ![s] = FirstId(conn'[s])]
    /\ inbox' = [inbox EXCEPT ![s] = <<>>] /\ pipe' = [pipe EXCEPT ![s] = <<>>]

(* /mcp is a command of the prompt, which waits for a turn's tool calls. *)
AtPrompt == \A c \in Callers : caller[c].pc = "free"

(* reconnectMCP: the agent takes the new catalog if the dial succeeded. *)
Reconnect(s) ==
    /\ started /\ AtPrompt /\ dials < MaxDials /\ dials' = dials + 1
    /\ Redial(s)
    /\ IF conn'[s] THEN AgentTakes(home') ELSE UNCHANGED agentVars
    /\ UNCHANGED <<started, lock, caller, calls, lines>>

-----------------------------------------------------------------------------
(* A call.                                                                 *)
Become(c, rec) == caller' = [caller EXCEPT ![c] = rec]

Begin(c) ==
    /\ started /\ caller[c].pc = "free" /\ calls < MaxCalls
    /\ calls' = calls + 1
    /\ UNCHANGED <<managerVars, agentVars, wireVars, lines, dials>>

(* Manager.Call: the owner is looked up under the manager's lock. *)
Call(c, t) ==
    /\ Begin(c) /\ t \in DOMAIN home
    /\ Become(c, [Free EXCEPT !.pc = "locking", !.on = home[t], !.call = calls'])

(* A name without an owner: the agent may still hold a tool of a server    *)
(* that could not be reconnected, and models invent names.                 *)
CallUnknown(c) ==
    /\ Begin(c)
    /\ Become(c, [Free EXCEPT !.pc = "returned", !.call = calls', !.got = Error])

Unlock(s) == lock' = [lock EXCEPT ![s] = None]

Failed(c) == [caller[c] EXCEPT !.pc = "returned", !.got = Error]

(* Mutant: one mutex for all servers. *)
BusyAny(s) == \E o \in Servers : lock[o] # None

Busy(s) == lock[s] # None

(* stdioTransport.call takes the mutex and writes its request. *)
Write(c) ==
    LET s == caller[c].on
    IN  /\ caller[c].pc = "locking" /\ ~Busy(s) /\ alive[s]
        /\ lock' = [lock EXCEPT ![s] = c]
        /\ id' = [id EXCEPT ![s] = @ + 1]
        /\ inbox' = [inbox EXCEPT ![s] = Append(@, Request(id'[s], caller[c].call))]
        /\ Become(c, [caller[c] EXCEPT !.pc = "reading", !.want = id'[s]])
        /\ UNCHANGED <<managerVars, agentVars, pipe, alive, bounds>>

(* The write to a process that has ended fails. *)
WriteFails(c) ==
    LET s == caller[c].on
    IN  /\ caller[c].pc = "locking" /\ ~Busy(s) /\ ~alive[s]
        /\ id' = [id EXCEPT ![s] = @ + 1]
        /\ Become(c, Failed(c))
        /\ UNCHANGED <<managerVars, agentVars, lock, inbox, pipe, alive, bounds>>

(* Mutant: whatever has an id is taken for the reply. *)
IsReplyAny(line, want) == line.id # 0

IsReply(line, want) == line.id = want

(* The loop over the lines: another id is skipped, a line that cannot be   *)
(* decoded ends the call.                                                  *)
Read(c) ==
    LET s == caller[c].on
        line == Head(pipe[s])
    IN  /\ caller[c].pc = "reading" /\ pipe[s] # <<>>
        /\ pipe' = [pipe EXCEPT ![s] = Tail(@)]
        /\ \/ /\ line.kind = "message" /\ ~IsReply(line, caller[c].want)
              /\ UNCHANGED <<lock, caller>>
           \/ /\ line.kind = "message" /\ IsReply(line, caller[c].want)
              /\ Unlock(s)
              /\ Become(c, [caller[c] EXCEPT !.pc = "returned", !.got = line.call])
           \/ /\ line.kind = "garbage"
              /\ Unlock(s)
              /\ Become(c, Failed(c))
        /\ UNCHANGED <<managerVars, agentVars, id, inbox, alive, bounds>>

ReadEnd(c) ==
    LET s == caller[c].on
    IN  /\ caller[c].pc = "reading" /\ pipe[s] = <<>> /\ ~alive[s]
        /\ Unlock(s)
        /\ Become(c, Failed(c))
        /\ UNCHANGED <<managerVars, agentVars, id, inbox, pipe, alive, bounds>>

(* The result goes to the model, or the error's text in its place. *)
Done(c) ==
    /\ caller[c].pc = "returned"
    /\ Become(c, Free)
    /\ UNCHANGED <<managerVars, agentVars, wireVars, bounds>>

-----------------------------------------------------------------------------
(* The servers.                                                            *)
Answer(s) ==
    /\ alive[s] /\ inbox[s] # <<>>
    /\ inbox' = [inbox EXCEPT ![s] = Tail(@)]
    /\ pipe' = [pipe EXCEPT ![s] = Append(@, Reply(Head(inbox[s])))]
    /\ UNCHANGED <<managerVars, agentVars, lock, id, alive, caller, bounds>>

(* A notification, or a line that is not JSON-RPC. *)
Chatter(s) ==
    /\ alive[s] /\ lines < MaxLines /\ lines' = lines + 1
    /\ \E l \in {Note, Garbage} : pipe' = [pipe EXCEPT ![s] = Append(@, l)]
    /\ UNCHANGED <<managerVars, agentVars, lock, id, inbox, alive, caller, calls, dials>>

Exit(s) ==
    /\ alive[s]
    /\ alive' = [alive EXCEPT ![s] = FALSE]
    /\ UNCHANGED <<managerVars, agentVars, lock, id, inbox, pipe, caller, bounds>>

Advance(c) == Write(c) \/ WriteFails(c) \/ Read(c) \/ ReadEnd(c) \/ Done(c)

Next ==
    \/ NewManager
    \/ \E s \in Servers : Reconnect(s) \/ Answer(s) \/ Chatter(s) \/ Exit(s)
    \/ \E c \in Callers : CallUnknown(c) \/ Advance(c) \/ \E t \in Tools : Call(c, t)

Spec == Init /\ [][Next]_vars

(* Goroutines run, a mutex is handed on, and a server that is not mute     *)
(* answers or ends.                                                        *)
FairSpec ==
    /\ Spec
    /\ \A c \in Callers :
          /\ SF_vars(Write(c) \/ WriteFails(c))
          /\ WF_vars(Read(c) \/ ReadEnd(c) \/ Done(c))
    /\ \A s \in Servers \ Mute : WF_vars(Answer(s))

-----------------------------------------------------------------------------
(* The states are well typed, and only the holder of a transport's mutex   *)
(* reads its pipe.                                                         *)
TypeOK ==
    /\ started \in BOOLEAN
    /\ conn \in [Servers -> BOOLEAN] /\ alive \in [Servers -> BOOLEAN]
    /\ \A s \in Servers : alive[s] => conn[s]
    /\ DOMAIN home \subseteq Tools /\ agent \subseteq Tools /\ taken \subseteq Builtin
    /\ \A s \in Servers, c \in Callers :
          lock[s] = c <=> caller[c].pc = "reading" /\ caller[c].on = s
    /\ \A c \in Callers : caller[c].pc \in {"free", "locking", "reading", "returned"}

(* "Read lines until we find the response with the matching id": a call    *)
(* returns an error or the reply to its own request - with notifications   *)
(* between, after a call before it gave up on a line it could not decode   *)
(* and left its reply in the pipe, and on a new connection.                *)
OwnReply == \A c \in Callers : caller[c].pc = "returned" => caller[c].got \in {Error, caller[c].call}

(* A tool is offered if and only if a connected server advertises it, its  *)
(* owner is the first such server in the configuration.  The agent runs    *)
(* every MCP tool it lists through the manager, and every tool of its own  *)
(* whose name no MCP tool has had; it runs nothing else - after any        *)
(* sequence of reconnects that fail, or bring other tools.  A built-in     *)
(* whose name an MCP tool has had is still listed, and never runs again.   *)
ToolTable ==
    LET Offers(s, t) == conn[s] /\ t \in tools[s]
    IN  /\ \A t \in Tools : t \in DOMAIN home <=> \E s \in Servers : Offers(s, t)
        /\ \A t \in DOMAIN home :
              \E i \in DOMAIN Order :
                  /\ home[t] = Order[i] /\ Offers(home[t], t)
                  /\ \A j \in 1 .. i - 1 : ~Offers(Order[j], t)
        /\ DOMAIN byName = agent \cup (Builtin \ taken)
        /\ \A t \in DOMAIN byName : byName[t] = "mcp" <=> t \in agent

(* Every call of a server that answers returns, while calls of a server    *)
(* that does not are waiting.                                              *)
CallsReturn ==
    \A c \in Callers : \A s \in Servers \ Mute :
        caller[c].pc # "free" /\ caller[c].on = s ~> caller[c].pc = "free"

=============================================================================
