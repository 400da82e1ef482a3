------------------------------- MODULE Agent -------------------------------
(***************************************************************************)
(* A frostcode session: the conversation internal/agent keeps, the turn    *)
(* loop (Agent.Run) that answers a user's input by calling the model and   *)
(* the tools it asks for, and the REPL commands that change the            *)
(* conversation between turns - mode, goal, skills, compaction, clearing,  *)
(* saving and resuming.                                                    *)
(*                                                                         *)
(* Texts are left out: a system message is the prompt (the mode and goal   *)
(* it states), a summary or a skill.  Tools are of three kinds: read-only, *)
(* destructive, and names the agent does not know.  What a destructive     *)
(* tool does to the files, and the undo stack, are in Workspace.  All      *)
(* sessions share one file.                                                *)
(***************************************************************************)
EXTENDS ToolStream, Loops

CONSTANTS
    Replies,       \* what the targets of a model call can relay: sequences of tries
    Goals,         \* what /goal can set
    NoGoal,
    NoSession,     \* there is no session file
    MaxSteps,      \* Agent.maxSteps: model calls of a turn
    KeepRecent,    \* Agent.KeepRecent
    MaxTurns,      \* bound: user inputs
    MaxCalls,      \* bound: tool calls
    MaxCommands    \* bound: REPL commands

Modes == {"build", "plan"}

(* The tool calls of the reply; a tool is named by its kind.  (Arguments   *)
(* that cannot be parsed are read as none.)                                *)
Kinds(tries) == LET calls == ToolChatStream(tries).calls IN [i \in DOMAIN calls |-> calls[i].name]

(* What a model call can bring: the calls of a batch, <<>> for an answer.  *)
Batches == {Kinds(tries) : tries \in Replies}

ASSUME AgentAssumption ==
    /\ \A tries \in Replies : Kinds(tries) \in Seq({"read", "write", "unknown"})
    /\ NoGoal \notin Goals
    /\ MaxSteps \in Nat \ {0} /\ KeepRecent \in Nat
    /\ MaxTurns \in Nat /\ MaxCalls \in Nat /\ MaxCommands \in Nat

VARIABLES
    pc,            \* where the REPL is: prompt, model, tools, ask, off
    messages,      \* Agent.messages
    mode,          \* Agent.mode
    goal,          \* Agent.goal
    auto,          \* REPL.autoApprove
    skills,        \* REPL.loadedSkills: has the one skill been loaded?
    pending,       \* the calls of the batch not executed yet
    step,          \* the loop's counter
    cancelled,     \* has Ctrl-C cancelled the turn's context?
    saved,         \* the session file
    turn, nextId, commands

settings == <<mode, goal, auto, skills>>
loop == <<pending, step, cancelled>>
bounds == <<turn, nextId, commands>>
vars == <<pc, messages, settings, loop, saved, bounds>>

-----------------------------------------------------------------------------
Prompt(m, g) == [role |-> "system", mode |-> m, goal |-> g]
Note(what) == [role |-> "system", note |-> what]
UserMsg(n) == [role |-> "user", turn |-> n]
Assistant(calls) == [role |-> "assistant", calls |-> calls]
Result(call, outcome) == [role |-> "tool", call |-> call, outcome |-> outcome]

Outcomes == {"read", "unknown", "blocked", "ran", "denied"}

Messages ==
    [role : {"system"}, mode : Modes, goal : Goals \cup {NoGoal}] \cup [role : {"system"}, note : {"summary", "skill"}]
        \cup [role : {"user"}, turn : Nat] \cup [role : {"assistant"}, calls : Seq(Nat)]
        \cup [role : {"tool"}, call : Nat, outcome : Outcomes]

IsSystem(m) == m.role = "system"
HasPrompt(ms) == ms # <<>> /\ IsSystem(ms[1])

(* applySystem: rewrite the leading system message, or put one in front.   *)
ApplySystem(ms, m, g) ==
    IF HasPrompt(ms) THEN [ms EXCEPT ![1] = Prompt(m, g)] ELSE <<Prompt(m, g)>> \o ms

Keep == IF KeepRecent < 2 THEN 2 ELSE KeepRecent

Systems(ms) == Collected(ms, {i \in DOMAIN ms : IsSystem(ms[i])})
Turns(ms) == Collected(ms, {i \in DOMAIN ms : ~IsSystem(ms[i])})

CanCompact(ms) == Len(Turns(ms)) > Keep

(* Mutant: the oldest messages are kept, and the newest summarized. *)
CompactedTail(ms) ==
    Systems(ms) \o <<Note("summary")>> \o SubSeq(Turns(ms), 1, Keep)

(* Compact: the system messages, a summary of what is dropped, the last    *)
(* Keep messages.                                                          *)
Compacted(ms) ==
    LET rest == Turns(ms)
    IN  Systems(ms) \o <<Note("summary")>> \o SubSeq(rest, Len(rest) - Keep + 1, Len(rest))

Idle == pending = <<>> /\ step = 0 /\ cancelled = FALSE

(* New and NewREPL without a session to resume. *)
Init ==
    /\ pc = "off" /\ messages = <<>>
    /\ mode = "build" /\ goal = NoGoal /\ auto = FALSE /\ skills = FALSE
    /\ Idle
    /\ saved = NoSession
    /\ turn = 0 /\ nextId = 1 /\ commands = 0

-----------------------------------------------------------------------------
(* A turn.                                                                 *)
EndTurn == pc' = "prompt" /\ pending' = <<>> /\ step' = 0 /\ cancelled' = FALSE

(* Run: the input is appended, and when the estimate is over the budget    *)
(* older turns are compacted - unless the summary cannot be had.           *)
UserTurn ==
    /\ pc = "prompt" /\ turn < MaxTurns
    /\ turn' = turn + 1
    /\ LET ms == Append(messages, UserMsg(turn'))
       IN  \/ messages' = ms
           \/ CanCompact(ms) /\ messages' = Compacted(ms)
    /\ pc' = "model"
    /\ UNCHANGED <<settings, loop, saved, nextId, commands>>

FinalAnswer ==
    /\ pc = "model" /\ <<>> \in Batches
    /\ messages' = Append(messages, Assistant(<<>>))
    /\ EndTurn
    /\ UNCHANGED <<settings, saved, bounds>>

(* The request fails, returns no choices, or ends because of Ctrl-C. *)
ModelFails ==
    /\ pc = "model"
    /\ EndTurn
    /\ UNCHANGED <<messages, settings, saved, bounds>>

AskForTools(batch) ==
    LET ids == [i \in DOMAIN batch |-> nextId + i - 1]
    IN  /\ pc = "model" /\ batch # <<>> /\ nextId + Len(batch) <= MaxCalls + 1
        /\ nextId' = nextId + Len(batch)
        /\ messages' = Append(messages, Assistant(ids))
        /\ pending' = [i \in DOMAIN batch |-> [id |-> ids[i], kind |-> batch[i]]]
        /\ pc' = "tools"
        /\ UNCHANGED <<settings, step, cancelled, saved, turn, commands>>

Reads(calls) == Collected(calls, {i \in DOMAIN calls : calls[i].kind = "read"})
Others(calls) == Collected(calls, {i \in DOMAIN calls : calls[i].kind # "read"})

(* execToolCalls starts with the read-only calls, at the same time when    *)
(* there are several; their results go in together, in order.              *)
RunReads ==
    LET reads == Reads(pending)
    IN  /\ pc = "tools" /\ reads # <<>>
        /\ messages' = messages \o [i \in DOMAIN reads |-> Result(reads[i].id, "read")]
        /\ pending' = Others(pending)
        /\ UNCHANGED <<pc, settings, step, cancelled, saved, bounds>>

Ready == pc = "tools" /\ pending # <<>> /\ Reads(pending) = <<>>

(* The result of the call at the front; the batch goes on. *)
Finish(outcome) ==
    /\ messages' = Append(messages, Result(Head(pending).id, outcome))
    /\ pending' = Tail(pending)
    /\ pc' = "tools"
    /\ UNCHANGED <<mode, goal, skills, step, cancelled, saved, bounds>>

UnknownTool ==
    /\ Ready /\ Head(pending).kind = "unknown"
    /\ Finish("unknown") /\ UNCHANGED auto

(* Mutant: only what the mode advertises is looked at, not what is called. *)
IsBlockedNever == FALSE

(* Plan mode is read-only, whatever the model calls. *)
IsBlocked == mode = "plan"

BlockedInPlan ==
    /\ Ready /\ Head(pending).kind = "write" /\ IsBlocked
    /\ Finish("blocked") /\ UNCHANGED auto

RunApproved ==
    /\ Ready /\ Head(pending).kind = "write" /\ ~IsBlocked /\ auto
    /\ Finish("ran") /\ UNCHANGED auto

AskUser ==
    /\ Ready /\ Head(pending).kind = "write" /\ ~IsBlocked /\ ~auto
    /\ pc' = "ask"
    /\ UNCHANGED <<messages, settings, loop, saved, bounds>>

(* Mutants: a denied call leaves no result; a denial asks once more. *)
DenySilently ==
    /\ pending' = Tail(pending) /\ pc' = "tools"
    /\ UNCHANGED <<messages, settings, step, cancelled, saved, bounds>>

DenyAsksAgain ==
    pc' = "tools" /\ UNCHANGED <<messages, settings, loop, saved, bounds>>

Deny == Finish("denied") /\ UNCHANGED auto

(* approve: yes, always, or anything else. *)
Answer ==
    /\ pc = "ask"
    /\ \/ Finish("ran") /\ UNCHANGED auto
       \/ Finish("ran") /\ auto' = TRUE
       \/ Deny

(* Mutant: one request more than the budget. *)
OutOfStepsLate == step + 1 > MaxSteps

OutOfSteps == step + 1 >= MaxSteps

(* After the batch: stop when interrupted or out of steps, else go on. *)
BatchDone ==
    /\ pc = "tools" /\ pending = <<>>
    /\ IF cancelled \/ OutOfSteps THEN EndTurn
       ELSE /\ pc' = "model" /\ step' = step + 1
            /\ UNCHANGED <<pending, cancelled>>
    /\ UNCHANGED <<messages, settings, saved, bounds>>

(* Ctrl-C: the context is cancelled, and looked at when the request or the *)
(* batch ends.                                                             *)
Interrupt ==
    /\ pc \in {"model", "tools", "ask"} /\ ~cancelled
    /\ cancelled' = TRUE
    /\ UNCHANGED <<pc, messages, settings, pending, step, saved, bounds>>

-----------------------------------------------------------------------------
(* The commands of the REPL.                                               *)
AtPrompt ==
    /\ pc = "prompt" /\ commands < MaxCommands
    /\ commands' = commands + 1
    /\ UNCHANGED <<pc, loop, turn, nextId>>

(* Mutant: the prompt keeps the note of the mode the session began in. *)
SetModeOnly(m) == mode' = m /\ UNCHANGED messages

SetMode(m) == mode' = m /\ messages' = ApplySystem(messages, m, goal)

ModeCommand ==
    /\ AtPrompt
    /\ \E m \in Modes : SetMode(m)
    /\ UNCHANGED <<goal, auto, skills, saved>>

(* Shift+Tab: normal, auto, plan, normal. *)
CycleMode ==
    /\ AtPrompt
    /\ CASE mode = "plan" -> SetMode("build") /\ auto' = FALSE
         [] mode # "plan" /\ auto -> SetMode("plan") /\ auto' = FALSE
         [] OTHER -> auto' = TRUE /\ UNCHANGED <<mode, messages>>
    /\ UNCHANGED <<goal, skills, saved>>

(* /auto and /yolo *)
AutoCommand ==
    /\ AtPrompt
    /\ auto' \in {~auto, TRUE}
    /\ UNCHANGED <<messages, mode, goal, skills, saved>>

SetGoal ==
    /\ AtPrompt
    /\ goal' \in Goals \cup {NoGoal}
    /\ messages' = ApplySystem(messages, mode, goal')
    /\ UNCHANGED <<mode, auto, skills, saved>>

LoadSkill ==
    /\ AtPrompt /\ ~skills
    /\ messages' = Append(messages, Note("skill"))
    /\ skills' = TRUE
    /\ UNCHANGED <<mode, goal, auto, saved>>

CompactCommand ==
    /\ AtPrompt /\ CanCompact(messages)
    /\ messages' = Compacted(messages)
    /\ UNCHANGED <<settings, saved>>

(* /clear *)
Reset ==
    /\ AtPrompt
    /\ messages' = IF HasPrompt(messages) THEN <<messages[1]>> ELSE <<>>
    /\ UNCHANGED <<settings, saved>>

Session == [mode |-> mode, messages |-> messages]

Save ==
    /\ AtPrompt
    /\ saved' = Session
    /\ UNCHANGED <<messages, settings>>

(* Load: the saved prompt stays as it was saved. *)
Load(g) ==
    /\ saved # NoSession
    /\ mode' = saved.mode
    /\ messages' = IF HasPrompt(saved.messages) THEN saved.messages
                   ELSE ApplySystem(saved.messages, saved.mode, g)

Resume ==
    /\ AtPrompt /\ Load(goal)
    /\ UNCHANGED <<goal, auto, skills, saved>>

(* NewREPL: -auto and -plan, then the session to resume, if there is one.  *)
Start ==
    /\ pc = "off" /\ pc' = "prompt"
    /\ goal' = NoGoal /\ skills' = FALSE /\ auto' \in BOOLEAN
    /\ \/ mode' \in Modes /\ messages' = <<Prompt(mode', NoGoal)>>
       \/ Load(NoGoal)
    /\ UNCHANGED <<loop, saved, bounds>>

(* /exit or Ctrl-D: onExit saves the conversation. *)
Quit ==
    /\ pc = "prompt" /\ pc' = "off"
    /\ saved' = Session
    /\ UNCHANGED <<messages, settings, loop, bounds>>

(* The process is killed, or replaces itself after an update.  *)
Kill ==
    /\ pc # "off" /\ pc' = "off"
    /\ pending' = <<>> /\ step' = 0 /\ cancelled' = FALSE
    /\ UNCHANGED <<messages, settings, saved, bounds>>

-----------------------------------------------------------------------------
Model == FinalAnswer \/ ModelFails \/ \E batch \in Batches : AskForTools(batch)
Tools == RunReads \/ UnknownTool \/ BlockedInPlan \/ RunApproved \/ AskUser \/ BatchDone
Command ==
    \/ ModeCommand \/ CycleMode \/ AutoCommand \/ SetGoal \/ LoadSkill
    \/ CompactCommand \/ Reset \/ Save \/ Resume

Next ==
    \/ UserTurn \/ Model \/ Tools \/ Answer \/ Interrupt
    \/ Command \/ Start \/ Quit \/ Kill

Spec == Init /\ [][Next]_vars

(* A request to the model ends, a tool returns, and the user answers what  *)
(* is asked: assumptions on the model, the MCP servers and the user, for   *)
(* the adapters and the calls of stdio servers have no deadline.           *)
FairSpec == Spec /\ WF_vars(Model) /\ WF_vars(Tools) /\ WF_vars(Answer)

-----------------------------------------------------------------------------
Running == pc \in {"model", "tools", "ask"}

(* A turn makes at most MaxSteps requests, and nothing of it is left when  *)
(* it is over.                                                             *)
TypeOK ==
    /\ pc \in {"prompt", "model", "tools", "ask", "off"}
    /\ mode \in Modes /\ goal \in Goals \cup {NoGoal}
    /\ auto \in BOOLEAN /\ skills \in BOOLEAN /\ cancelled \in BOOLEAN
    /\ messages \in Seq(Messages)
    /\ step \in 0 .. MaxSteps - 1
    /\ pending \in Seq([id : 1 .. nextId - 1, kind : {"read", "write", "unknown"}])
    /\ saved \in [mode : Modes, messages : Seq(Messages)] \cup {NoSession}
    /\ turn \in Nat /\ nextId \in Nat \ {0} /\ commands \in Nat
    /\ ~Running => Idle
    /\ pc # "off" => HasPrompt(messages)

(* What the model is told of its mode is the mode the agent enforces:      *)
(* through switches, compaction, clearing, saving in one mode and resuming *)
(* in another (session.go: "Ensure the system prompt reflects the mode").  *)
PromptMatchesMode == pc # "off" => messages[1].mode = mode

(* Message i is in the run of tool results right behind a summary. *)
BehindSummary(i) ==
    \E j \in 1 .. i - 1 :
        /\ messages[j] = Note("summary")
        /\ \A k \in j + 1 .. i : messages[k].role = "tool"

(* When the model is called, and when the turn is over, the calls of every *)
(* assistant message are followed by their results, one each - denied,     *)
(* blocked, unknown and interrupted calls included, and a result has its   *)
(* call before it, unless compaction cut between them: then it stands      *)
(* right behind the summary.  The providers refuse a request without the   *)
(* results.                                                                *)
EveryCallAnswered ==
    pc \in {"model", "prompt"} =>
        \A i \in DOMAIN messages :
            LET m == messages[i]
            IN  /\ m.role = "assistant" =>
                      /\ i + Len(m.calls) <= Len(messages)
                      /\ \A k \in 1 .. Len(m.calls) : messages[i + k].role = "tool"
                      /\ ToSet(m.calls) = {messages[i + k].call : k \in 1 .. Len(m.calls)}
                /\ m.role = "tool" =>
                      \/ BehindSummary(i)
                      \/ \E j \in 1 .. i - 1 : /\ messages[j].role = "assistant"
                                               /\ m.call \in ToSet(messages[j].calls)

(* During a turn the input it answers stays in the conversation, whatever  *)
(* compaction drops.                                                       *)
RequestInView == Running => \E i \in DOMAIN messages : messages[i] = UserMsg(turn)

(* A destructive tool runs only if the prompt the model was given allows   *)
(* it, and the user approved it: by an answer, or by auto-approve.         *)
ChangesAreAllowed ==
    [][Running /\ Len(messages') > Len(messages) /\ Last(messages').role = "tool"
           /\ Last(messages').outcome = "ran"
       => messages[1].mode = "build" /\ (auto \/ pc = "ask")]_vars

(* Every turn ends, with the step budget if nothing else, and the user is  *)
(* back at the prompt.                                                     *)
EveryTurnEnds == Running ~> ~Running

=============================================================================
