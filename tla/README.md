# Verification of Frostgate and Frostcode

Frostgate (`src/cmd/frostgate`) is an HTTP gateway in front of language-model providers: it
identifies callers, enforces rate limits and token budgets, caches answers, falls back over
a chain of providers, runs MCP tools on the model's behalf and streams. Frostcode
(`src/cmd/frostcode`) is a terminal coding agent that calls models through the same code in
process. This directory holds TLA+ models of both, the TLC configurations that check them on
small instances, and proofs, checked by TLAPS, of theorems that hold for every value of the
constants.

Run from this directory:

    tlc -workers 2 -config GovernorRestart.cfg MCGovernor     # and likewise for each run
    tlapm GovernorProofs.tla
    tlapm FileStoreProofs.tla
    tlapm OidcProofs.tla                                      # and each other *Proofs module

## 1. The system

| Part | State | Operations | Talks to | What is hard |
|---|---|---|---|---|
| governance (`internal/governance`) | per identity: spent tokens, bucket level, last refill; the set of OIDC subjects seen; the totals loaded at boot | `Authorize`, `checkState`, `RecordSpend`, `Flush`, `New` | server (calls), store | check and charge are separate critical sections; flushes run beside them; restarts |
| store (`internal/store`) | the state file and a temporary file | `Load`, `Save` | governance | failure or kill between system calls; processes that share a path |
| server (`internal/server`) | none of its own | `handleChat`, `streamChat`, read-only endpoints | governance, gateway, metrics | every return path must count and charge |
| gateway (`internal/gateway`) | none of its own | `Complete`, `PrepareStream`, `Stream`, `runToolLoop`, `ToolChat*` | cache, router, MCP, metrics | concurrent handlers; rounds of tools; lost clients |
| router (`internal/router`) | provider and key tables | `Resolve`, `Chat`, `Stream`, `backoff` | provider adapters | which failure leads where; streams that break half-way |
| cache (`internal/cache`) | a table of entries and an order list | `Get`, `Put` | gateway | expiry, eviction, and similarity under concurrent use |
| metrics (`internal/metrics`) | counters | increments | all | one per request, on every path |
| MCP client (`internal/mcp`) | connections, catalog, owner of each tool | `NewManager`, `Reconnect`, `Call` | gateway, agent | servers that do not answer; replies matched by id |
| compression, stream assembler (`internal/compress`, `gateway/sse.go`) | none across requests (Compress, ToolStream) | `Apply`; `Write`, `Response` | gateway | boundaries of the cut; partial lines |
| OIDC (`internal/oidc`) | the provider's keys, and when they were fetched | `Verify`, `key`, `refresh` | governance, the provider | overlapping fetches; keys that change meanwhile |
| configuration, dashboard, tokens, schema | none | parsing, rendering, counting | all | text |
| agent (`internal/agent/agent.go`, `session.go`) | the conversation, mode, goal, undo stack | `Run`, `execToolCalls`, `Compact`, `SetMode`, `Save`, `Load`, `Reset` | gateway, tools, REPL | batches, denials, interrupts, compaction, resumed sessions |
| REPL (`internal/agent/repl.go`) | auto-approval, loaded skills, session name | slash commands, `approve`, Ctrl-C, `onExit` | agent | commands in any order change what a turn may do |
| tools (`internal/agent/tools.go`) | the working tree | write, edit, delete, move, make directory; capture and restore | agent, file system | partial failures; undo after other changes |
| shell (`internal/agent/shell.go`) | one bash process, its pipes | `Run`, `kill` | the bash tool | goroutines that outlive a time-out; shells that die |
| terminal (`internal/agent/editor.go`, the printing in `repl.go`) | what is on the screen; the line editor's buffer; the spinner | `richLine`, modals, `Thinking`, the stream printer, the interrupter | REPL, agent | rows redrawn in place; a spinner beside the main goroutine; Ctrl-C |
| update (`internal/update`, `selfUpdate` in `repl.go`) | the executable and its two neighbours in the file system | `Check`, `ReplaceExe`, restart | REPL, the release server | failure between system calls; two terminals; an answer long after the check |
| sub-agent, sandbox | - | - | agent | see section 7 |

What makes each part correct, in one line: governance never lets an identity far beyond its
limits and never forgets or doubles a charge; the store is an atomic register; what the cache
returns agrees with the request in all that its key holds; the pipeline accounts for every
request and follows the chain; the conversation is always one a provider accepts and states the
mode that is enforced; an undo restores the files; a command's output is its own; a signing key
works exactly as long as the provider serves it, up to a known delay; the terminal shows the
editor's state and everything the turn printed; an update leaves a complete binary, whatever
interrupts it. Section 6 says where the code falls short of this.

## 2. Modules

    AtomicStore  <- implemented by -  FileStore        (FileStoreProofs)
        ^
        | INSTANCE
    Governor                                           (GovernorProofs)
    Compress  <- extended by -  Gateway                (GatewayProofs)
                                             the pipeline behind Governor's Admit ... Respond
    ToolStream, Loops  <- extended by -  Agent         a frostcode session (AgentProofs)
    Loops  <- extended by -  Terminal                  what its REPL draws and prints (AgentProofs)
    Workspace: what its tools do
    Shell: its bash tool                               (ShellProofs)
    Mcp: the client of both programs                   (McpProofs)
    Update: how it replaces itself                     (UpdateProofs)
    Oidc: what governance asks for a bearer token      (OidcProofs)

Each `MC*` module gives values to the constants of its component and names symmetries;
MCAgent also holds the reference definition ToolStream is compared with.

**AtomicStore** is what `internal/store` promises: a register of one complete snapshot, with
saves that take effect at once or not at all. `store.Memory` is this register.

**FileStore** is `store.File`: `Save` is three system-call steps (`OpenTmp`, `WriteTmp`,
`Rename`), each of which can fail or be the last before the process is killed. The directory
is two names pointing to inodes, so that two processes that use the one temporary name are
represented: the second truncates the inode the first is writing. The `data` of an inode is a
snapshot, `Blank` or `Torn`. A kill loses no write already made: the model is of process
death, not of power failure (the code does not sync).

**Governor** has any number of nodes on the register. `Admit`, `DenyBudget` and
`DenyRateLimited` are the three outcomes of `Authorize` and `checkState`, which is one
critical section; `Respond`, `RespondStream` and `Fail` end a handler; `Flush` is copied
counter by counter (`FlushStart`, `FlushRead`, `FlushSave`) because `RecordSpend` runs in
between, and its save begins and ends in separate steps. `Start` is `New` after `Load`,
`Crash` drops the process with its handlers and its flush. The shutdown of the program flushes
nothing and is the same step. Buckets are kept in sixtieths of a token, which makes the
refill exact; the code's floating-point rounding is not modelled. Keys and subjects have
different names. `New` drops the error of `Load`, so a store that cannot be read (`ReadFaults`)
starts a node with nothing. `seen` is history: has the node seen all that the store holds?

**Gateway** has one record per running handler. `Begin`/`Deny` enter, `Hit`/`Miss` are
`Cache.Get`, `Resolve`..`Cancelled` the fallback loop of `router.Chat` and `Stream`, `Reply` and
`ToolResult` the rounds of `runToolLoop`, `Observe` and `Put` the bookkeeping of `Complete`. A
failed upstream call is "retry" (429, 5xx, no status) or "terminal". A client may leave during a
call or a wait. Similarity of prompts is a table. The length of a backoff is abstracted (`Wake`
may come at any time), as is the choice among a provider's keys. A request is a record of a set
the instance gives, and what Gateway keeps of it besides is what compression left (`req`),
because the cache key is taken of that. The key is that of `keyFor`: the model, the temperature,
and of each message the role and the normalized text (`Hashed`), so that requests which differ
in images, tool calls or other fields (`parts`, `calls`, `rest`) share an entry. The digest is
taken to be injective on these, and texts to hold no NUL. A conversation need not end with a
user's message, nor have one; a close match then finds nothing, for an empty text is similar to
none. The loops of `Resolve` and of `split` are recursive functions over the chain and the
conversation. `PutEntry` writes the new entry and then drops as many of the oldest as the table
is over `max_entries`.

**Compress** is `internal/compress` as functions of a conversation and of the summarizer's
answer: the four strategies, the cut into system messages, middle and recent turns, the budget
and the estimate of tokens. A message has what `TextContent` finds in its content, what else the
content holds, and its tool calls; `Tidy` is `trim` on one message, which loses the images of a
message whose text it changes. `Split` is the loop of `split`. The summary model's call is part of
`Begin`: it shares nothing with other requests, and `NoSummary` stands for its failures.

**ToolStream** is one model call of the agent as a function: what each target sent (to its end or
to where it broke off) goes through the adapter's relay into the assembler of `sse.go`, which
joins fragments of tool calls by index. The bytes of a line are two halves and a newline, so
that writes can end anywhere. `AssemblesWhatIsSaid` in MCAgent, an assumption TLC evaluates,
compares it with a reference that reads the chunks index by index: all streams of up to three
of five chunks, every division into two writes, a torn line in front, and a line without its
newline at the end (lost by the assembler, supplied by the OpenAI adapter's scanner).

**Agent** is the conversation as a sequence of messages without their texts. The REPL is at
its prompt, in a model call, in a batch of tool calls, asking for approval, or off. A batch
runs its read-only calls first and together (`RunReads`) and the rest one by one. Commands
act at the prompt only, Ctrl-C during a turn only. `Start` covers `-auto`, `-plan` and
`--resume`. All sessions share one file, so that any of them can be resumed at any time.
Whether automatic compaction is due is left open (it depends on an estimate of tokens). The
batches a reply can bring are computed by ToolStream from the streams of the instance, among
them one that was broken off and asked for again, and one whose first half alone has a call.

**Loops** is the loop that appends some elements of a sequence to a new one, as a recursive
function over the indexes: `Compact` splits the conversation by it, `execToolCalls` its batch, and
`filterCommands` makes the palette.

**Workspace** is the tree of files the tools act on and the undo stack. Each tool's `Run` is a
function from trees to a tree and an error flag, built from the operating system's operations,
so that a tool that fails half-way leaves what it did: `WriteFile` truncates before it writes,
and a failure can leave the old content, a part (`Cut`) or all of the new one. `Capture` is a
record that says how to restore. Shell commands change the tree without a record. Reads succeed.

**Shell** has the bash processes, the programs they start, the pipes, and one goroutine per
command. A program outlives the shell that is killed and goes on printing into its pipe. The
goroutine blocked in `ReadString` stays on the pipe the field `s.stdout` named when its read began;
after each line it takes the field again - this is the code, and the reason for the third divergence
of section 6. Two goroutines on one pipe take its lines in any order; that they also race on the
reader's buffer is not modelled. `alone` is history: did the current command begin with no goroutine
left behind?

**Mcp** has the manager's connections, what each server advertised and the owner of each tool;
the agent's copy of the catalog and its `byName`; and for each server the mutex, the last id and
the two pipes of its transport. A dial is one step with any outcome; a call is the lookup, the
write under the mutex, and one step per line read. `Answer`, `Chatter` and `Exit` are the
server's. The gateway calls concurrently and never reconnects; frostcode reconnects at its
prompt and calls one tool at a time; the model allows concurrent calls and reconnects between
them, which covers both. An MCP tool may have a built-in's name: it replaces the built-in in
`byName`, and the next reconnect removes it there (`ReplaceMCPTools` deletes by name); `taken`
is history of such names.

**Oidc** has concurrent verifications over one `Verifier` and a provider that publishes, replaces
and withdraws keys meanwhile. `Begin` is `Verify` up to its answer or its fetch; `Reply`,
`Install` and `FetchFails` are `refresh`, cut where the network lies between; `Reread` is the
second lookup of `key` and the rest of `Verify`. Replies can be installed in any order. Time
passes only while every verification waits, and no fetch outlasts `http.Client.Timeout`;
`changed` and `genuine` are history for the properties. A signature is good for exactly the key
that made it.

**Update** is the directory of the executable: names that point to inodes, with the content of
an inode a release, a part of one, or nothing. `ReplaceExe` is one step per system call
(`OpenNew`, `Copied`, `ClearOld`, `BackUp`, `Rename`), each of which can fail or be the last;
`Copied` includes `Close`, whose error is dropped, so that the file may be incomplete (`spoilt`).
Any number of terminals run from that executable and update it. On Unix a rename replaces its
target and an open file follows its inode; on Windows a name that is in use cannot be replaced,
so the code moves the old executable away first. The release server publishes newer releases
only. `Restart` runs whatever is installed then.

**Terminal** has two halves that share the process: at the prompt the line editor with its
palette of commands, the list and the secret prompt, one byte of input at a time, where `Redraw`
is `render` and `frame` what it drew; during a turn the spinner, the stream printer and Ctrl-C.
The main goroutine and the one that waits for Ctrl-C both call `Thinking(false)`, which is cut
into its test, its `close` and its assignment (`StopSpinner`, `CloseSpinner`, `ClearSpinner`):
nothing orders the two, so a `close` may also act on the channel its test saw. Widths count
characters; colours, borders and descriptions are left out, and a piece of streamed text is one
word or a newline. A goroutine that finds the channel closed, but not yet taken out of the
field, goes on to close it again ("late"), and the process ends ("panic"). What a turn does
besides printing is in Agent.

## 3. Runs

| Run | Question | Bounds |
|---|---|---|
| FileStoreTwo | Is `store.File` the atomic register, until two `Save`s overlap, with every failure and kill? | 2 processes, 2 snapshots, 4 inodes (a state file, a temporary file and one per saver) |
| GovernorRestart | Overshoot, use over all lives, no double charge, what durable spend shrinks by, charges reach the store | 1 node, a key and a subject, 2 handlers, cost 2 against budgets 3 and 1, 1 crash, failing saves and loads |
| GovernorRate | Token bucket: admissions per window; refused calls are free | limits 2 and 1, steps of 20 and 25 s up to 90 s (a full window and partial refills), 1 crash |
| GovernorSubjects | Does stored spend of OIDC subjects survive? **violated** | 2 crashes |
| GatewayPipeline | What the cache serves, metrics balance, fallback order, tool results, every request ends or waits for a tool | 2 handlers, 2 requests out of 8 (one kept, two that the `summary` strategy makes the same prompt or not, one with an image, one that ends with a tool's answer, three models, streams), chain of a usable, an unconfigured and a usable target, cache of 1 entry with 1 s to live, 2 rounds, answers with 0 or 2 calls |
| WorkspaceUndo | Undo restores files; failed calls leave no edit half made; undo stays on its paths | directory with a file, file beside it, 2 contents, 11 calls, 4 steps, every initial tree |
| AgentSession | Prompt and mode, answered calls, the request in view, approvals, every turn ends | 2 turns, 2 tool calls, 2 commands, step budget 2, 2 messages kept |
| ShellSession | No command gets another's lines; its own are complete unless a goroutine was left behind; one lost command at most, one shell, goroutines end | 3 commands of 4 kinds |
| McpClient | Replies go to their calls; the table of tools follows the connections; calls return | 2 servers (one may stay mute) that can claim the same tool, which one built-in is named like, another built-in, 2 callers, 3 calls, 1 line of their own, 1 reconnect |
| OidcKeys | A withdrawn key dies, a steady key works | 2 verifications, 2 changes of 3 keys of which 2 share a kid, tokens that never expire or expire during a fetch, ages and time-outs of 1 |
| UpdateSelf | A complete binary remains; on Unix it changes in one step; only a stale check downgrades | 2 terminals, 4 inodes (executable, old, and a download each), 3 releases, Unix and Windows |
| TerminalSession | The screen is the editor's state; no spinner at a prompt; nothing printed is lost | 3 commands in the palette of which 2 rows fit, a field 2 wide, texts of up to 4 characters out of 4, 3 streamed pieces, 2 model calls in a turn |

Why small bounds are enough: the interesting events need two of something - two handlers past
one check, two saves at once, two entries for a cache of one, two calls in a batch, a third
command after a time-out and a restart - and every instance has that many. Budgets are below
two costs, so the overshoot happens; clocks run past a whole window; every mutant of
PROJECT.json (one plausible bug per property) is found under the same bounds.

`CHECK_DEADLOCK FALSE` is given where a bound ends the behaviour (requests, steps, commands,
releases used up) or the user leaves; the other runs check that the model never stops.

Every component has its `TypeOK`. For Governor, FileStore, Oidc, Update, Mcp, Gateway, Agent and
Shell it is proved, so only two runs check it: GatewayPipeline and AgentSession,
whose records have the most shapes. For Workspace and Terminal it adds nothing to the properties
of the run and can be put into the cfg.

## 4. Fairness

- Governor: the flush loop is a goroutine with a ticker, so its steps are weakly fair; a save
  that is retried for ever succeeds infinitely often if the disk is not broken for good
  (strong fairness of `SaveDone`). Nothing is assumed of callers. EventuallyDurable is then
  that what is charged reaches the store unless the process dies.
- Gateway: a handler that can continue does, and an upstream that was called answers, fails or
  loses its client. The HTTP clients of the adapters set no time-out, so the code does not
  bound this; EveryRequestAnswered is relative to it. Nothing is assumed of the calls of tools: one
  to a stdio server has neither a deadline nor a context (`mcp/transport.go:86-115`), so
  `ToolResult` is not fair, and the property excepts a handler that waits for one for ever.
- Agent: a model call and a tool return, and the user answers a question. The first two are
  assumptions about the providers and the servers, as in Gateway, and not about the code, which sets
  no deadline for either; the bash tool has one. Nothing is assumed
  of what the model says: that the turn ends is due to the step budget and to a denial being
  a result.
- Mcp: a mutex is handed on to a waiting goroutine (strong fairness: Go's mutex starves
  nobody), a goroutine with a line reads it, and a server that is not in `Mute` answers or
  ends. Nothing is assumed of a mute one: its callers wait for ever, others must not.
- Shell: the timer fires, a goroutine with something to read reads, a program ends.
- Oidc, Update and Terminal: none. Their properties are about safety: a fetch ends by its
  time-out, but the steps of an update or of a turn wait for a user, a disk and a model.

## 5. Theorems

Proved for all constants that satisfy the modules' assumptions, which say what is a number, which
sets are finite, and that sentinels are none of the values. Those that say more:
`GovernorAssumption`, that keys and subjects have different names; `NodesAssumption`, that there
is a node and that they are finitely many; `OidcAssumption`, that tokens are made by keys;
`McpAssumption`, that the configuration lists every server; `GatewayAssumption`, that normalizing
undoes the collapsing of white space and leaves an empty text empty, to which nothing is similar;
`TerminalAssumption`, that the palette's commands are different and begin with
a slash. Some theorems have a hypothesis of their own, named with them.

Governor (`GovernorProofs`):
- **TypeCorrect** - `TypeOK` is inductive by itself. `RefilledType` and `IdentifyType` are
  its arithmetic.
- **NeverOverchargedHolds** - by `LedgerInv`: not only the counters and the store but also
  the snapshots on their way (what a node loaded, is copying, is saving) are bounded by what
  the responses reported. Without the copies the bound is not preserved by a save.
- **OvershootBoundedHolds** - by `BudgetInv`: for each node and identity the recorded spend,
  plus the largest cost times the handlers *in flight*, stays below the budget plus the
  largest cost times all handlers. An admission is only possible below the budget, and the
  weight moves from "in flight" to "spent" when a handler responds. The same bound is carried
  for loaded, copied, saved and stored totals, for a restart reads them back.
- **DurableSpendGrowsHolds** - for any number of nodes, and stores that cannot be read: stored
  spend of a virtual key shrinks in the save of a node that has not seen all of it, and in no
  other step. For a node that has, the order stored <= saving <= copied <= spent holds
  (`FlushInv`); a save takes this away from every other node, a failed load from the node
  itself. Section 6 lists both ways to lose spend.
- **WindowBoundedHolds** - the token-bucket bound, by `WindowInv`: after the latest admission
  i the bucket's level and the admissions since are together paid by a full bucket and the
  time elapsed. `RefillArithmetic` and `Distribute` hold the nonlinear steps.
- **PollingIsFreeHolds** - an action property: whatever a running node does short of an
  admission, the credit of each identity does not shrink. A refused call stores the refill with
  the time it was computed at, and refilling twice at one moment is refilling once
  (`ToppedNow`).
- **UsageBoundedHolds**, for `Streaming = FALSE` (section 6) - by `UsageInv`: what an identity
  used in all is at most the limit for each life that a crash ended, and for the present lives
  the sum of what the nodes that are up have spent. A crash moves a node's share from the sum to
  the ended lives, a start adds a share without any use. The sum is the number of pairs of a
  node and one of its tokens, so that it needs no recursion (`TotalSteps`).

File store (`FileStoreProofs`):
- **TypeCorrect**, **TornOnlyByOverlapHolds**, **ImplementsUntilOverlapHolds**,
  **FileImplementsRegister** - by `FileInv`: while no two saves have overlapped, the inode of a
  saver is the one the temporary name points to, it is not the state file's, and after the
  write it holds the saver's snapshot; the state file holds a complete one. Each step then
  maps to a step of AtomicStore or a stutter: `Rename` is `CommitSave`.

OIDC (`OidcProofs`):
- **TypeCorrect** - inductive by itself; the ages stop where `OldAge` and `Forever` say.
- **RetiredKeyDiesHolds**, **SteadyKeyWorksHolds** - both by `KeyInv`: a copy of the keys - the
  cache while it is fresh, the body of a reply on its way - differs from what the provider
  serves only in keys that the provider has changed since the copy was made (`Copies`). A change
  resets the age of every key it touches, so it takes nothing from what a copy guarantees
  (`ChangeKeeps`); an `Install` trades the time a reply has waited, at most `Timeout`, for an
  age of 0, whichever reply it is; a verification that looks again without a failure has
  installed its own reply at that very moment, so that the copy it reads is fresh
  (`RereadIsFresh`). The second theorem also needs that no copy has two keys for one kid.

Gateway (`GatewayProofs`):
- **TypeCorrect**, **FallbackInOrderHolds**, **ToolCallsAnsweredHolds** - by `HandlersInv`: in each
  step of a handler its fields fit the step (`Placed`), its upstream calls so far follow the usable
  chain from its start in each round and `idx` is the place of the next one (`Followed`), and every
  round but the one in progress has all its results (`Settled`). `RelaysFollowChainHolds` is a
  by-product: what a stream's client got came from targets that then failed or from the last
  (`Relayed`), which may be more than one.
- **CacheConsistentHolds** - by `CacheInv`: the order lists exactly the keys of the table, each
  once, and entries expire `ttl_seconds` after they were made. `Dropped` and `PutEntryInv` are
  the eviction: taking the oldest off the list and out of the table leaves a list of the table.
- **MetricsBalanceHolds** - by `Balance`: requests are hits, errors that are not denials, answers
  under their providers, and handlers still open. The sum over the providers is that of the
  community modules; that it is a number and goes up with its parts is `SumsAre`.
- **HitAnswersRequestHolds**, if no client writes the gateway's notes itself
  (`NotesAreTheGateways`) - by `Origins`: every entry is under the key of its own request,
  compressed with some summary, and every running handler's `req` is its request compressed with
  some summary. Then equal keys mean the same view (`SameKey`), which is a fact about the
  strategies: `ApplyIs` says what each can leave of a conversation - all of it, or a note
  between its system messages and its recent turns - and `ReplacedIs`, `NoteIsSeen` and
  `BothCut` that two conversations of which the same is left had system messages and recent turns
  of the same roles and normalized texts. That is all a view is: the key sees no images and no tool
  calls, and the theorem says nothing of them. For a close match, what compression leaves of the
  user's messages ends in the last of them or is nothing (`ReplacedSays`), and an empty text is
  similar to none. The hypothesis is needed: a client whose own system message is the note "3
  messages omitted" has the prompt of another of whom three were omitted. MCGateway assumes it
  of the instance.

MCP (`McpProofs`):
- **ToolTableHolds** - by `TableInv`: the catalog is what the loop of `rebuildCatalog` makes of
  the connections, and the agent has what the catalog had when it last took it over; `byName`
  has that and the built-ins whose names were never taken. `RebuildIs` is the loop, by induction
  over the configuration's order.
- **TypeCorrect**, **OwnReplyHolds** - by `McpInv`: the mutex of a transport is held by the one who
  reads its pipe, for the last id given (`Holder`), and a line or request with that id is that
  caller's (`Wire`). Older replies left behind by callers that gave up have smaller ids.

Shell (`ShellProofs`), whatever the programs of killed shells print:
- **CleanRestartHolds** - by `Control`.
- **TypeCorrect**, **CompleteOutputHolds** - by `ShellInv`: while a command is waited for, its
  line is not yet printed, in the pipe of its session, or taken, and its marker comes after it
  (`Answering`, `Holds`); so whoever gets the marker has at most its own line, and has it unless
  another goroutine took it. If none was left behind when the command began, nobody else reads
  that pipe (`Apart`). An idle shell's pipe is empty, and programs that still run belong to
  earlier commands (`Pipes`).

Update (`UpdateProofs`):
- **TypeCorrect**, **BinaryNeverLostHolds** - by `UpdateInv`: nobody writes the inode of a
  running image (`ImageKept`), names do not share an inode, and while no download was spoilt - by
  another in the same file, or by an error of `Close` - `exe.new` is the one replacing terminal's,
  complete once it was copied.
- **InstallsAtomicallyHolds**, **DowngradeOnlyByStaleCheckHolds** - action properties of the same
  invariant; the first is about the name of the executable on Unix, for on Windows it is false
  (section 6); the second needs that the release fetched is not older than the one installed when
  it was asked for (`NotAhead`).

Agent (`AgentProofs`):
- **TypeCorrect**, **PromptMatchesModeHolds**, **EveryCallAnsweredHolds**, **RequestInViewHolds** -
  by `IInv`, which says of the conversation in memory and of the saved one alike what the properties
  say of the former only, because a session may be resumed after any number of steps. A conversation
  is `Prompted`: it begins with the prompt of its mode, and nothing but system messages comes before
  a summary. Between turns it is `Closed`: calls have their results right behind them, and results
  their call, or a summary, before them. In a batch it is `Open`: closed up to one request, whose
  results so far follow it, while the calls that lack one are exactly those still pending. A call
  that is blocked, denied, unknown or failed takes one call from the second set to the first.
- `Compact` is the hard step (`SettledCompacted`): the turns it keeps are a tail of the turns,
  in their order. `CutTogether` is that runs of results stay together, `CutAnswered` that a call
  that is kept keeps its results, and `CutBelongs` that a result whose call was cut off stands
  at the head of the tail, right behind the summary. What the loop returns is listed by an
  increasing function from places in the result to places in the conversation (`Lists`,
  `CollectedLists`).
- **ChangesAreAllowedHolds** - an action property: a destructive tool runs from `RunApproved` or
  `Answer` only, both in build mode, and by the invariant the prompt then is that mode's.

Terminal (also in `AgentProofs`, as `Screen`: the two are the halves of one session, with one step
budget, and use the same facts about the loop):
- **SpinnerOffAtPromptHolds** - by `Spinner`: a goroutine about to close the channel has an open one
  in the field, at most one goroutine is between closing and clearing, and main has stopped the
  spinner, or is about to close it, wherever it is not waiting for the model. So no channel is taken
  out of the field while it is open. That the interrupter stops the spinner once per Ctrl-C is
  `Waiter`.
- **EverythingPrintedHolds** - by `Output`: while a stream is active, what it received is what was
  printed followed by the line in the buffer, otherwise just what was printed; and nothing is active
  outside an answer that has begun. `StreamEnd` runs on every way out of an answer.
- **FrameIsTrueHolds**, if `TerminalAssumption` holds of its constants - by `EditorInv`: at the
  prompt, the cursor is in the text and in the field, the selection in the palette, and the frame is
  the one of this state. Each key leaves text and cursor in order, and `Redraws` is that `render`
  brings scroll and selection along; that no command is in the palette twice (`PaletteHolds`) makes
  the marked row, if there is one, the one Enter runs. A selection below the last row has none.

The proofs found two faults of an earlier Terminal that the runs had missed: a stop that found the
channel closed counted as one that had still to close it, so that main waited for ever instead of
ending the process, and a process that had ended could return to the prompt by an Esc.

Recursive functions and sums were proved about in one form: what a loop computes is a function
on 0 .. n (or on the subsets of a finite set), a smallest place where the claim fails has a
place before it, and `Least`, which follows from the library's well-foundedness of Nat, gives
that smallest place (the library's induction theorems take an operator, which the provers cannot
instantiate). It has not been tried on `Above` and the edits of Workspace, nor on the assembler of
ToolStream, which AssemblesWhatIsSaid compares with its reference on bounded streams. Agent's
theorems hold for any calls a reply may bring, those included that the assembler makes.

Liveness and ENABLED are outside the prover and stay with TLC. All safety properties of the runs
of Governor, FileStore, Oidc, Gateway, Mcp, Shell, Update, Agent and Terminal are proved,
DurableSpendGrows and the refinement among them (except those a run shows to be violated); those
of Workspace are model-checked only, and so are EventuallyDurable and the other properties of
section 4 that need fairness.

## 6. Disagreements between the code and its documents

Shown by a run:
1. **GovernorSubjects** - `Flush` writes the subjects seen since boot and replaces the whole
   snapshot: the first flush after a restart deletes the stored spend of every subject that
   has not called again (`governance.go:222`; `README.md:161-163` says budgets survive).

In the models, but without a run of their own (the properties that are checked allow for them):
2. A stream that breaks after its first events is retried on the next target (`router.go:191`),
   although "fallback only applies to failures that happen before the first write"
   (`router.go:181-183`): the client can receive the beginnings of several answers. FallbackInOrder
   treats such a stream as a failure like any other, and does not say what was relayed: that
   `sources` has at most one member is false in GatewayPipeline. Agent's replies include such a
   stream.
3. The goroutine of a timed-out command re-reads `s.stdout` (`shell.go:135`) after a line that a
   program of the killed shell still prints, and can take the output of the next command from
   the new shell, whose `Run` then returns without it ("returns its combined output").
   CompleteOutput names the case: nothing is promised to a command that began while such a
   goroutine was left but that it gets no other command's lines. Without the exception
   ShellSession violates it.
4. `Compact` cuts by a count of messages (`agent.go:172`) and may keep results whose calls it
   summarized; EveryCallAnswered has the case as BehindSummary.
5. Ctrl-C just when an answer begins or a model call returns can end the program: the
   interrupter and the main goroutine both close `spinStop` (`repl.go:342-344`): both test the
   field while the channel is open, or one tests it before the other has set it to nil, and the
   second `close` panics; and `repl.go:481-482` says that Ctrl-C is there "to abort a long turn
   without quitting". The invariant `phase # "panic"` in TerminalSession.cfg shows it.
6. "ReplaceExe atomically replaces the running binary" and "the rename is atomic on all
   supported platforms" (`update.go:141-143`) are not so on Windows: between the two renames, or
   after the second has failed or never came, there is no executable, only the `.old` file.
   InstallsAtomically is therefore about Unix; the same claim for Windows is false in
   UpdateSelf, and BinaryNeverLost says what is left. On Unix two terminals that download at
   once share `exe.new`, and the one that finishes first can install what the other is still
   writing; and the error of `Close` is dropped (`update.go:172`), so that an incomplete file
   can be installed. Both are `spoilt`.
7. An update that was checked, then left unanswered while another terminal installed a newer
   release, puts the older one back (`repl.go:1000`); DowngradeOnlyByStaleCheck names this case.
8. `refresh` does not look at the status of the response: an error that is JSON is a JWKS
   without keys, which replaces good ones; the tokens that are looked up then are refused
   (`oidc.go:161-187`), and the next call fetches again. SteadyKeyWorks excludes it by `jwks`. A
   key that was published a moment ago may be refused although a reply had it, because an older
   reply was installed before the second lookup (`oidc.go:146`).

Found while reading; no run is spent on them:
- A shared state file: a node reads it only in `New`, so nodes do not share budgets
  (`README.md:170-171`), each node's flush overwrites the others' totals, and overlapping saves
  can leave an incomplete file (`config.go:63`, `store.go:53-54`), because they share the
  temporary name. A file that cannot be read starts all budgets at zero (`governance.go:89`), and
  the next flush makes it so. TornOnlyByOverlap and DurableSpendGrows say exactly how far the
  promise does hold: spend is lost in the save of a node that had not seen it, and in nothing else.
- The cache key is not the "normalized hash of the whole request" of `cache.go:1-2`. `keyFor` takes
  the model, the temperature, and the role and text of each message: a question about one image is
  answered with the answer about another, and the tool calls of a conversation, the ids of their
  results, tools, tool choice and token limits are all the same to it. HitAnswersRequest promises no
  more than what the key holds; GatewayPipeline has two requests that differ in an image only.
- `streamChat` is given the billing id and never uses it (`server.go:118`): streams are not
  charged, where `README.md:99-100` says calls beyond the total get 403. UsageBounded is false
  with `Streaming = TRUE`, so GovernorRestart leaves streams out.
- After a fallback in the middle of a stream the agent's assembler goes on with what it has: a
  tool call of the broken answer is executed although the next target's answer does not
  repeat it, and the arguments of a call that is repeated are the two answers' joined, which
  no tool can read. `SomeReplies` has both cases.
- With the `window` strategy two conversations of the same length that differ in the dropped
  turns only have one cache entry (`gateway.go:106-114`), by intent; HitAnswersRequest says
  what is still guaranteed: system messages and recent turns of the same roles and texts.
- Collapsing white space drops the images of the message whose text it changes
  (`compress.go:99-101`, `chat.go:64-68`), where trim "rarely changes meaning"
  (`compress.go:94-95`).
- Only the last round of a tool loop is charged (`gateway.go:194`).
- A reconnect "leav[es] built-in and task tools intact" (`agent.go:225-226`), but a built-in
  whose name an MCP tool took loses its entry in `byName` (`agent.go:232`) and stays listed
  without being callable. ToolTable names the case (`taken`), and McpClient has such a name.
- `max_prompt_tokens: 0` disables compression by `config.go:173-174`, and always compresses by
  `compress.go:85-91`.
- "Apply several edits in order, atomically" (multi_edit) is true of the edits and not of the file:
  `os.WriteFile` truncates before it writes (`tools.go:134`, `:173`, `:294`), and a write that fails
  leaves an empty or partial file. FailedCallsMakeNoEdit allows this for the file that is written,
  and UndoRestoresFiles says that an undo repairs it.
- Undo of a move renames back also when the move failed or replaced a file (`tools.go:445`);
  UndoRestoresFiles excludes this by `Clean`. Undo of a write puts the old content back over
  whatever the file holds by then (`tools.go:85`), and UndoStaysInPlace does not forbid it: it is
  about other files. A failed write to an existing empty directory
  leaves a record that removes the directory, and directories made for a file stay.
- After `/resume` the goal in force is not in the prompt (`session.go:102`); `--plan` with
  `--resume` takes the saved mode; a skill cannot be loaded again after `/clear`.
- A command that prints the marker `__FROST_DONE__` itself puts all later outputs of the session
  out of step; ended shells are never waited for.
- The list of `selectModal` moves up one row more than it drew, so that it climbs the screen by a
  line with each key. The palette scrolls neither its rows nor its mark: entries below the
  last row can be selected unseen, which FrameIsTrue allows. A bare Esc swallows the next key, and
  "ESC [ 3 ~" leaves a "~" in the text. Bytes above 0x7f become one character each.
- `os.Exit(0)` after a restart skips `onExit`, so the session is not saved; `IsNewer` reads
  "3rc1" as 0.
- An exponent of more than 8 bytes in a JWKS ends the process (`oidc.go:204`).
- A sandbox whose root is "/" rejects every path (`sandbox.go:83` compares with the prefix "//").

## 7. Not modelled

Configuration parsing, schema and version (no state), the dashboard (a static page), the
providers' wire formats of requests and of complete responses, path resolution in the sandbox
(string handling over the real file system), the parsing of JWTs and keys and the signature
itself, the HTTP transport of MCP, markdown and colours, and the sub-agent (an Agent with
read-only tools that shares nothing with its parent). In the modelled parts: the data race on a
`bufio.Reader` that two of Shell's goroutines share, beyond which takes which line; jobs that a
command leaves in the background; the spinner that `/update` starts for itself (`repl.go:972`,
`:1003`), at the prompt and with no turn beside it; choice of API keys, latencies, the Windows
shell, `Shell.Close`, session names, and settings that only go into a request (model, effort,
temperature). The step budget is the constant `MaxSteps`: that `/steps` changes it between turns
is not modelled.

## 8. Plan

Order, by weight of the behaviour: (1) governance and its store, (2) the request pipeline,
(3) the agent's conversation and turn loop, (4) tools and undo, (5) the shell and the MCP
client, (6) OIDC with its proofs, the updater and the terminal, with Compress and ToolStream as
the pure functions under (2) and (3) - these are done as described. Next:

7. Proofs: all components but Workspace are done. Next is UndoRestoresFiles of Workspace for trees
   of any shape, as far as it does not need `Above`, and the assembler of ToolStream against its
   reference.
8. Composition of Agent with Workspace: undo depth against compaction and resume.
