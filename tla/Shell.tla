------------------------------- MODULE Shell -------------------------------
(***************************************************************************)
(* The persistent shell of internal/agent: one bash process runs the       *)
(* commands of the bash tool in turn, each followed by a marker line; a    *)
(* goroutine started for each command reads the shell's output up to the   *)
(* marker while the caller waits for it or for the time-out, which kills   *)
(* the shell.                                                              *)
(*                                                                         *)
(* Killing the shell does not kill the programs it started: they keep its  *)
(* pipe open and go on printing into it.  A goroutine in ReadString is     *)
(* blocked on the pipe that s.stdout was when the call began; after each   *)
(* line it reads s.stdout again, so that a goroutine a time-out has left   *)
(* behind can come over to the pipe of the next shell.  Two goroutines on  *)
(* one pipe take its lines in any order (what else bufio.Reader does when  *)
(* two use it at once is left out, and so are jobs in the background).     *)
(***************************************************************************)
EXTENDS Integers, FiniteSets, Sequences

CONSTANTS
    Kinds,         \* subset of the kinds of command below
    MaxCommands    \* bound: commands in all

(* quick: prints a line and ends.  exit: ends the shell.  loop: a builtin  *)
(* that never ends.  program: a process of its own, which may print a      *)
(* line, and ends sometime.                                                *)
AllKinds == {"quick", "exit", "loop", "program"}

ASSUME ShellAssumption == Kinds \subseteq AllKinds /\ MaxCommands \in Nat

Commands == 1 .. MaxCommands
Sessions == 1 .. MaxCommands

VARIABLES
    alive, sess,   \* Shell.alive; the session whose pipes Shell.stdin and stdout are
    up,            \* up[s]: is the bash process of session s running?
    todo,          \* todo[s]: the command s has been given, 0 if none
    program,       \* program[s]: the command whose program runs under s, 0 if none
    pipe,          \* pipe[s]: lines written to the stdout of s
    kind,          \* kind[c]: the kind of command c
    printed,       \* printed[c]: lines c printed
    issued,        \* commands issued so far; the last is the current one
    waiting,       \* is a caller inside Run's select?
    reader,        \* reader[c]: the goroutine of c
    result,        \* history: how the last Run returned
    alone,         \* history: did the current command start with no reader left behind?
    lost           \* history: commands in a row that found a dead shell

shellVars == <<alive, sess>>
procVars == <<up, todo, program, pipe, printed>>
vars == <<shellVars, procVars, kind, issued, waiting, reader, result, alone, lost>>

Text(c) == [cmd |-> c, marker |-> FALSE]
Marker(c) == [cmd |-> c, marker |-> TRUE]

NoReader == [state |-> "none", on |-> 0, got |-> <<>>]
NoResult == [how |-> "none", got |-> <<>>]

Init ==
    /\ alive = FALSE /\ sess = 0
    /\ up = [s \in Sessions |-> FALSE]
    /\ todo = [s \in Sessions |-> 0]
    /\ program = [s \in Sessions |-> 0]
    /\ pipe = [s \in Sessions |-> <<>>]
    /\ kind = [c \in Commands |-> "quick"]
    /\ printed = [c \in Commands |-> 0]
    /\ issued = 0 /\ waiting = FALSE
    /\ reader = [c \in Commands |-> NoReader]
    /\ result = NoResult /\ alone = TRUE /\ lost = 0

-----------------------------------------------------------------------------
(* ensure: a new session when there is none. *)
Ensure ==
    /\ alive' = TRUE
    /\ sess' = IF alive THEN sess ELSE sess + 1
    /\ up' = IF alive THEN up ELSE [up EXCEPT ![sess'] = TRUE]

Issue(k) ==
    /\ ~waiting /\ issued < MaxCommands
    /\ issued' = issued + 1
    /\ kind' = [kind EXCEPT ![issued'] = k]

Closed(s) == ~up[s] /\ program[s] = 0

(* A goroutine that can still read lines: its pipe holds some, or somebody *)
(* has it open to write more.                                              *)
LeftBehind(c) ==
    reader[c].state = "reading" /\ ~(pipe[reader[c].on] = <<>> /\ Closed(reader[c].on))

(* Run: the command and the marker are written, the goroutine starts.      *)
Run(k) ==
    /\ Issue(k) /\ Ensure
    /\ up'[sess']
    /\ todo' = [todo EXCEPT ![sess'] = issued']
    /\ reader' = [reader EXCEPT ![issued'] = [state |-> "reading", on |-> sess', got |-> <<>>]]
    /\ waiting' = TRUE /\ lost' = 0
    /\ alone' = ~\E c \in Commands : LeftBehind(c)
    /\ UNCHANGED <<program, pipe, printed, result>>

(* Mutant: the session is kept after a failed write. *)
WriteFailsKept ==
    \E k \in Kinds :
        /\ Issue(k) /\ alive /\ ~up[sess]
        /\ result' = [how |-> "error", got |-> <<>>] /\ lost' = lost + 1
        /\ UNCHANGED <<shellVars, procVars, waiting, reader, alone>>

(* Run when the shell has ended by itself: nobody noticed, the write fails *)
(* and the command is lost; the session is dropped.                        *)
WriteFails ==
    \E k \in Kinds :
        /\ Issue(k) /\ alive /\ ~up[sess]
        /\ alive' = FALSE
        /\ result' = [how |-> "error", got |-> <<>>] /\ lost' = lost + 1
        /\ UNCHANGED <<sess, procVars, waiting, reader, alone>>

(* The goroutine's result arrives. *)
Return ==
    /\ waiting /\ reader[issued].state \in {"done", "eof"}
    /\ waiting' = FALSE
    /\ result' = [how |-> reader[issued].state, got |-> reader[issued].got]
    /\ UNCHANGED <<shellVars, procVars, kind, issued, reader, alone, lost>>

(* Mutants: the time-out leaves the shell running; or marks it dead only.  *)
KillNothing == UNCHANGED <<alive, up>>
KillMarksOnly == alive' = FALSE /\ UNCHANGED up

KillShell == alive' = FALSE /\ up' = [up EXCEPT ![sess] = FALSE]

Timeout ==
    /\ waiting /\ waiting' = FALSE
    /\ KillShell
    /\ result' = [how |-> "timeout", got |-> <<>>]
    /\ UNCHANGED <<sess, todo, program, pipe, printed, kind, issued, reader, alone, lost>>

-----------------------------------------------------------------------------
(* The goroutine of command c.                                             *)
ReadLine(c) ==
    LET s == reader[c].on
        r == reader[c]
    IN  /\ reader[c].state = "reading" /\ pipe[s] # <<>>
        /\ pipe' = [pipe EXCEPT ![s] = Tail(@)]
        /\ reader' = [reader EXCEPT ![c] =
               IF Head(pipe[s]).marker THEN [r EXCEPT !.state = "done"]
               ELSE [r EXCEPT !.got = Append(r.got, Head(pipe[s]).cmd), !.on = sess]]
        /\ UNCHANGED <<shellVars, up, todo, program, printed, kind, issued, waiting, result, alone, lost>>

ReadEnd(c) ==
    LET s == reader[c].on
    IN  /\ reader[c].state = "reading" /\ pipe[s] = <<>> /\ Closed(s)
        /\ reader' = [reader EXCEPT ![c].state = "eof"]
        /\ UNCHANGED <<shellVars, procVars, kind, issued, waiting, result, alone, lost>>

-----------------------------------------------------------------------------
(* The processes.                                                          *)
Given(s) == up[s] /\ todo[s] # 0 /\ program[s] = 0

Quick(s) ==
    /\ Given(s) /\ kind[todo[s]] = "quick"
    /\ pipe' = [pipe EXCEPT ![s] = @ \o <<Text(todo[s]), Marker(todo[s])>>]
    /\ printed' = [printed EXCEPT ![todo[s]] = 1]
    /\ todo' = [todo EXCEPT ![s] = 0]
    /\ UNCHANGED <<shellVars, up, program, kind, issued, waiting, reader, result, alone, lost>>

Exit(s) ==
    /\ Given(s) /\ kind[todo[s]] = "exit"
    /\ up' = [up EXCEPT ![s] = FALSE]
    /\ UNCHANGED <<shellVars, todo, program, pipe, printed, kind, issued, waiting, reader, result, alone, lost>>

Spawn(s) ==
    /\ Given(s) /\ kind[todo[s]] = "program"
    /\ program' = [program EXCEPT ![s] = todo[s]]
    /\ UNCHANGED <<shellVars, up, todo, pipe, printed, kind, issued, waiting, reader, result, alone, lost>>

ProgramPrints(s) ==
    LET c == program[s]
    IN  /\ c # 0 /\ printed[c] = 0
        /\ pipe' = [pipe EXCEPT ![s] = Append(@, Text(c))]
        /\ printed' = [printed EXCEPT ![c] = 1]
        /\ UNCHANGED <<shellVars, up, todo, program, kind, issued, waiting, reader, result, alone, lost>>

ProgramEnds(s) ==
    /\ program[s] # 0
    /\ program' = [program EXCEPT ![s] = 0]
    /\ todo' = [todo EXCEPT ![s] = 0]
    /\ pipe' = IF up[s] THEN [pipe EXCEPT ![s] = Append(@, Marker(program[s]))] ELSE pipe
    /\ UNCHANGED <<shellVars, up, printed, kind, issued, waiting, reader, result, alone, lost>>

-----------------------------------------------------------------------------
Reading == \E c \in Commands : ReadLine(c) \/ ReadEnd(c)
Processes ==
    \E s \in Sessions : Quick(s) \/ Exit(s) \/ Spawn(s) \/ ProgramPrints(s) \/ ProgramEnds(s)

Next ==
    \/ \E k \in Kinds : Run(k)
    \/ WriteFails \/ Return \/ Timeout
    \/ Reading \/ Processes

Spec == Init /\ [][Next]_vars

(* The timer fires, goroutines run, and programs end sometime.  *)
FairSpec ==
    /\ Spec
    /\ WF_vars(Return \/ Timeout)
    /\ \A c \in Commands : WF_vars(ReadLine(c) \/ ReadEnd(c))
    /\ \A s \in Sessions : WF_vars(ProgramEnds(s))

-----------------------------------------------------------------------------
(* Every variable keeps its type.                                          *)
TypeOK ==
    /\ alive \in BOOLEAN /\ sess \in 0 .. MaxCommands /\ waiting \in BOOLEAN /\ alone \in BOOLEAN
    /\ up \in [Sessions -> BOOLEAN]
    /\ todo \in [Sessions -> 0 .. MaxCommands] /\ program \in [Sessions -> 0 .. MaxCommands]
    /\ kind \in [Commands -> AllKinds] /\ printed \in [Commands -> 0 .. 1]
    /\ pipe \in [Sessions -> Seq([cmd : Commands, marker : BOOLEAN])]
    /\ issued \in 0 .. MaxCommands
    /\ \A c \in Commands : reader[c].state \in {"none", "reading", "done", "eof"}
    /\ result.how \in {"none", "done", "eof", "timeout", "error"}

(* "Run executes command in the persistent session and returns its         *)
(* combined output": a Run that saw the marker returns lines of its own    *)
(* command and of no other, whatever became of the commands before it and  *)
(* whatever their programs still print.  It returns all of them if no      *)
(* goroutine was left behind by a time-out when it began: such a one may   *)
(* take lines from it.                                                     *)
CompleteOutput ==
    result.how = "done" /\ ~waiting =>
        LET all == [i \in 1 .. printed[issued] |-> issued]
        IN  result.got = all \/ (result.got = <<>> /\ ~alone)

(* "the session will be restarted on the next Run": when a command ends    *)
(* the shell, at most the next command is lost, and no bash process but    *)
(* the current one is left running.                                        *)
CleanRestart == lost <= 1 /\ \A s \in Sessions : up[s] => alive /\ s = sess

(* No goroutine waits for ever on the pipe of a shell that is gone: the    *)
(* one of a command that timed out ends once the programs of its shell     *)
(* have, or comes over to the live shell.                                  *)
Stranded(c) == reader[c].state = "reading" /\ ~(alive /\ reader[c].on = sess)
ReadersEnd == \A c \in Commands : Stranded(c) ~> ~Stranded(c)

=============================================================================
