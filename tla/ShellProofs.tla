---------------------------- MODULE ShellProofs ----------------------------
(* Theorems of Shell, for any number of commands of any kinds: that a dead *)
(* shell costs one command at most, and that a Run returns the lines of    *)
(* its own command, whatever the programs of killed shells still print.    *)
EXTENDS Shell, SequenceTheorems, TLAPS

(* Who may be running: only the session that Shell knows.                  *)
Control ==
    /\ alive \in BOOLEAN /\ waiting \in BOOLEAN /\ lost \in {0, 1}
    /\ issued \in 0 .. MaxCommands /\ sess \in 0 .. issued
    /\ up \in [Sessions -> BOOLEAN]
    /\ alive => lost = 0 /\ sess # 0
    /\ \A s \in Sessions : up[s] => alive /\ s = sess

(* What c has printed, and what of it is still in the pipe: the line that  *)
(* nobody has taken, and the marker once c has ended.                      *)
Output(c) == [i \in 1 .. printed[c] |-> c]
Unread(c, line, marker) ==
    IF line THEN IF marker THEN <<Text(c), Marker(c)>> ELSE <<Text(c)>>
    ELSE IF marker THEN <<Marker(c)>> ELSE <<>>

(* The lines of c in the pipe of its session; if no other goroutine reads  *)
(* there, the line that c printed is in the pipe or c's goroutine has it.  *)
Holds(c, line, marker) ==
    /\ pipe[sess] = Unread(c, line, marker)
    /\ line => reader[c].got = <<>> /\ printed[c] = 1
    /\ marker => todo[sess] = 0
    /\ alone /\ ~line => reader[c].got = Output(c)

(* The command a caller waits for, and its goroutine.                      *)
Answering(c) ==
    /\ todo[sess] \in {0, c} /\ program[sess] \in {0, c}
    /\ todo[sess] = 0 => program[sess] = 0
    /\ todo[sess] # 0 /\ program[sess] = 0 => printed[c] = 0
    /\ ~up[sess] => todo[sess] # 0 /\ program[sess] = 0
    /\ reader[c].got \in {<<>>, Output(c)}
    /\ \E line, marker \in BOOLEAN : Holds(c, line, marker)
    /\ \/ reader[c].state = "reading" /\ reader[c].on = sess
       \/ reader[c].state = "done" /\ todo[sess] = 0 /\ pipe[sess] = <<>>
       \/ reader[c].state = "eof" /\ ~up[sess]

Types ==
    /\ todo \in [Sessions -> 0 .. MaxCommands] /\ program \in [Sessions -> 0 .. MaxCommands]
    /\ kind \in [Commands -> AllKinds] /\ printed \in [Commands -> {0, 1}]
    /\ pipe \in [Sessions -> Seq([cmd : Commands, marker : BOOLEAN])]
    /\ reader \in [Commands -> [state : {"none", "reading", "done", "eof"},
                                on : 0 .. MaxCommands, got : Seq(Commands)]]
    /\ result.how \in {"none", "done", "eof", "timeout", "error"} /\ alone \in BOOLEAN

(* A goroutine reads the pipe of a session there has been.                 *)
Readers == \A c \in Commands : reader[c].state = "reading" => c <= issued /\ reader[c].on \in 1 .. sess

(* An idle shell has nothing to do and has said nothing that was not read; *)
(* programs that run elsewhere are those of earlier commands, or of one    *)
(* that was given up.                                                      *)
Pipes ==
    /\ \A s \in Sessions : up[s] /\ ~waiting => todo[s] = 0 /\ program[s] = 0 /\ pipe[s] = <<>>
    /\ \A s \in Sessions : s > sess => program[s] = 0 /\ pipe[s] = <<>>
    /\ \A c \in Commands : c > issued => printed[c] = 0
    /\ \A s \in Sessions : program[s] # 0 =>
           /\ program[s] <= issued
           /\ program[s] = issued => s = sess /\ (waiting \/ result.how # "done")

(* Goroutines other than c's can only wait for the end of a closed pipe.   *)
Apart(c) ==
    \A d \in Commands \ {c} : reader[d].state = "reading" =>
        reader[d].on # sess /\ pipe[reader[d].on] = <<>> /\ Closed(reader[d].on)

Waiting == waiting => alive /\ issued # 0 /\ Answering(issued) /\ (alone => Apart(issued))

ShellInv == Control /\ Types /\ Readers /\ Pipes /\ Waiting /\ CompleteOutput

-----------------------------------------------------------------------------
LEMMA InitControl == Init => Control
<1> SUFFICES ASSUME Init
             PROVE  Control
  OBVIOUS
<1>1. up \in [Sessions -> BOOLEAN] /\ \A s \in Sessions : ~up[s]
  BY DEF Init
<1>2. issued \in 0 .. MaxCommands /\ sess \in 0 .. issued
  BY ShellAssumption DEF Init
<1> QED
  BY <1>1, <1>2 DEF Init, Control

LEMMA ControlInductive == Control /\ [Next]_vars => Control'
<1> SUFFICES ASSUME Control, [Next]_vars
             PROVE  Control'
  OBVIOUS
<1> USE ShellAssumption DEF Control
<1>1. ASSUME NEW k \in Kinds, Run(k)  PROVE Control'
  <2>1. issued' = issued + 1 /\ issued' <= MaxCommands /\ waiting' = TRUE /\ lost' = 0
    BY <1>1 DEF Run, Issue
  <2>2. /\ alive' = TRUE /\ sess' = IF alive THEN sess ELSE sess + 1
        /\ up' = IF alive THEN up ELSE [up EXCEPT ![sess'] = TRUE]
    BY <1>1 DEF Run, Ensure
  <2>3. sess' \in 0 .. issued' /\ sess' # 0 /\ (~alive => sess' \in Sessions)
    BY <2>1, <2>2 DEF Sessions
  <2>4. up' \in [Sessions -> BOOLEAN] /\ \A s \in Sessions : up'[s] => s = sess'
    BY <2>2, <2>3
  <2> QED
    BY <2>1, <2>2, <2>3, <2>4
<1>2. CASE WriteFails
  <2>1. issued' = issued + 1 /\ issued' <= MaxCommands
    BY <1>2 DEF WriteFails, Issue
  <2>2. /\ alive /\ ~up[sess] /\ alive' = FALSE /\ lost' = lost + 1
        /\ UNCHANGED <<sess, up, waiting>>
    BY <1>2 DEF WriteFails, procVars
  <2>3. issued' \in 0 .. MaxCommands /\ sess' \in 0 .. issued'
    BY <2>1, <2>2
  <2>4. lost' = 1 /\ \A s \in Sessions : ~up[s]
    BY <2>2
  <2> QED
    BY <2>2, <2>3, <2>4
<1>3. CASE Timeout
  <2>1. /\ alive' = FALSE /\ up' = [up EXCEPT ![sess] = FALSE] /\ waiting' = FALSE
        /\ UNCHANGED <<sess, issued, lost>>
    BY <1>3 DEF Timeout, KillShell
  <2> QED
    BY <2>1
<1>4. CASE Return
  BY <1>4 DEF Return, shellVars, procVars
<1>5. ASSUME NEW s \in Sessions, Exit(s)  PROVE Control'
  BY <1>5 DEF Exit, shellVars
<1>6. ASSUME NEW s \in Sessions, Quick(s) \/ Spawn(s) \/ ProgramPrints(s) \/ ProgramEnds(s)
      PROVE  Control'
  <2>1. UNCHANGED <<alive, sess, up, issued, waiting, lost>>
    BY <1>6 DEF Quick, Spawn, ProgramPrints, ProgramEnds, shellVars
  <2> QED
    BY <2>1
<1>7. ASSUME NEW c \in Commands, ReadLine(c) \/ ReadEnd(c)  PROVE Control'
  <2>1. UNCHANGED <<alive, sess, up, issued, waiting, lost>>
    BY <1>7 DEF ReadLine, ReadEnd, shellVars, procVars
  <2> QED
    BY <2>1
<1>8. CASE UNCHANGED vars
  BY <1>8 DEF vars, shellVars, procVars
<1> QED
  BY <1>1, <1>2, <1>3, <1>4, <1>5, <1>6, <1>7, <1>8 DEF Next, Reading, Processes

(* When a command ends the shell at most the next command is lost, and no  *)
(* bash but the current one is left running.                               *)
THEOREM CleanRestartHolds == Spec => []CleanRestart
<1>1. Control => CleanRestart
  BY DEF Control, CleanRestart
<1> QED
  BY <1>1, InitControl, ControlInductive, PTL DEF Spec

-----------------------------------------------------------------------------
(* What the lines of a command look like in a pipe.                        *)
LEMMA AppendOne ==
    ASSUME NEW S, NEW a \in S, NEW b \in S
    PROVE  /\ Append(<<>>, a) = <<a>> /\ Append(<<a>>, b) = <<a, b>>
           /\ <<>> \o <<a, b>> = <<a, b>>
<1>1. <<a>> \in Seq(S) /\ <<a, b>> \in Seq(S) /\ Append(<<a>>, b) \in Seq(S)
  OBVIOUS
<1>2. Len(Append(<<a>>, b)) = 2 /\ Len(<<a, b>>) = 2
  OBVIOUS
<1>3. \A i \in 1 .. 2 : Append(<<a>>, b)[i] = <<a, b>>[i]
  OBVIOUS
<1>4. Append(<<a>>, b) = <<a, b>>
  BY <1>1, <1>2, <1>3, SeqEqual
<1> QED
  BY <1>4

LEMMA UnreadLines ==
    ASSUME NEW c \in Commands, NEW line \in BOOLEAN, NEW marker \in BOOLEAN,
           Unread(c, line, marker) # <<>>
    PROVE  /\ Head(Unread(c, line, marker)) = IF line THEN Text(c) ELSE Marker(c)
           /\ line => Tail(Unread(c, line, marker)) = Unread(c, FALSE, marker)
           /\ ~line => marker /\ Tail(Unread(c, line, marker)) = <<>>
BY DEF Unread

LEMMA OutputIs ==
    ASSUME NEW c \in Commands, printed[c] \in {0, 1}
    PROVE  /\ printed[c] = 0 => Output(c) = <<>>
           /\ printed[c] = 1 => Output(c) = <<c>>
           /\ Output(c) \in {<<>>, <<c>>} /\ <<>> # <<c>>
BY DEF Output

LEMMA InitInv == Init => ShellInv
<1> SUFFICES ASSUME Init
             PROVE  ShellInv
  OBVIOUS
<1>1. Types
  BY ShellAssumption DEF Init, Types, NoReader, NoResult, AllKinds
<1>2. Readers /\ Pipes /\ Waiting /\ CompleteOutput
  BY DEF Init, Readers, Pipes, Waiting, CompleteOutput, NoReader, NoResult
<1> QED
  BY <1>1, <1>2, InitControl DEF ShellInv

-----------------------------------------------------------------------------
(* While a caller waits, its command is the one the current session was    *)
(* given; a shell at work has a caller waiting.                            *)
LEMMA Current ==
    ASSUME ShellInv, waiting
    PROVE  sess \in Sessions /\ issued \in Commands /\ alive /\ Answering(issued)
BY ShellAssumption DEF ShellInv, Control, Waiting, Sessions, Commands

LEMMA BusyIsCurrent ==
    ASSUME ShellInv, NEW s \in Sessions, up[s], todo[s] # 0 \/ program[s] # 0 \/ pipe[s] # <<>>
    PROVE  s = sess /\ waiting
BY DEF ShellInv, Control, Pipes

LEMMA SameAnswering ==
    ASSUME NEW c, Answering(c), UNCHANGED <<sess, alone>>,
           UNCHANGED <<todo[sess], program[sess], pipe[sess], up[sess], printed[c], reader[c]>>
    PROVE  Answering(c)'
<1>1. Output(c)' = Output(c)
  BY DEF Output
<1>2. PICK line, marker \in BOOLEAN : Holds(c, line, marker)
  BY DEF Answering
<1>3. Holds(c, line, marker)'
  BY <1>1, <1>2 DEF Holds, Unread, Text, Marker
<1> QED
  BY <1>1, <1>3 DEF Answering

(* A step of a process or of a goroutine: what it has to respect.          *)
LEMMA StepInv ==
    ASSUME ShellInv, Control', Types', Readers',
           UNCHANGED <<alive, sess, issued, waiting, result, alone>>,
           \A s \in Sessions :
               /\ up'[s] => up[s]
               /\ program'[s] \in {0, program[s]} \/ (waiting /\ s = sess /\ program'[s] = issued)
               /\ up[s] /\ ~waiting => todo'[s] = todo[s] /\ pipe'[s] = pipe[s]
               /\ s > sess => pipe'[s] = pipe[s]
               /\ alone /\ waiting /\ Closed(s) => pipe'[s] = pipe[s],
           \A c \in Commands : c > issued \/ (c = issued /\ ~waiting /\ result.how = "done")
               => printed'[c] = printed[c],
           waiting => Answering(issued)',
           waiting /\ alone => \A d \in Commands \ {issued} :
               reader'[d].state = "reading" => reader'[d] = reader[d]
    PROVE  ShellInv'
<1> USE ShellAssumption
<1>0. Control /\ Types /\ Readers /\ Pipes /\ Waiting /\ CompleteOutput
  BY DEF ShellInv
<1>1. Pipes'
  <2>1. \A s \in Sessions : up'[s] /\ ~waiting' => todo'[s] = 0 /\ program'[s] = 0 /\ pipe'[s] = <<>>
    BY <1>0 DEF Pipes
  <2>2. \A s \in Sessions : s > sess => program'[s] = 0 /\ pipe'[s] = <<>>
    <3>1. \A s \in Sessions : s > sess => s # sess
      BY <1>0 DEF Control, Sessions
    <3> QED
      BY <1>0, <3>1 DEF Pipes
  <2>3. \A c \in Commands : c > issued => printed'[c] = 0
    BY <1>0 DEF Pipes
  <2>4. issued <= issued
    BY <1>0 DEF Control
  <2>5. \A s \in Sessions : program'[s] # 0 =>
            /\ program'[s] <= issued
            /\ program'[s] = issued => s = sess /\ (waiting \/ result.how # "done")
    BY <1>0, <2>4 DEF Pipes
  <2> QED
    BY <2>1, <2>2, <2>3, <2>5 DEF Pipes
<1>2. waiting /\ alone => Apart(issued)'
  <2> SUFFICES ASSUME waiting, alone, NEW d \in Commands \ {issued}, reader'[d].state = "reading"
               PROVE  /\ reader'[d].on # sess /\ pipe'[reader'[d].on] = <<>>
                      /\ ~up'[reader'[d].on] /\ program'[reader'[d].on] = 0
    BY DEF Apart, Closed
  <2>1. reader'[d] = reader[d] /\ reader[d].state = "reading"
    OBVIOUS
  <2>2. reader[d].on # sess /\ pipe[reader[d].on] = <<>> /\ Closed(reader[d].on)
    BY <1>0, <2>1 DEF Waiting, Apart
  <2>3. reader[d].on \in Sessions
    BY <1>0, <2>1 DEF Readers, Control, Sessions
  <2> QED
    BY <2>1, <2>2, <2>3 DEF Closed
<1>3. Waiting'
  BY <1>0, <1>2 DEF Waiting
<1>4. CompleteOutput'
  <2>1. SUFFICES ASSUME result.how = "done", ~waiting
                 PROVE  CompleteOutput'
    BY DEF CompleteOutput
  <2>2. CASE issued = 0
    <3>1. \A c \in Commands : c > issued
      BY <2>2 DEF Commands
    <3>2. printed' = printed
      BY <1>0, <3>1 DEF Types, Pipes
    <3> QED
      BY <1>0, <2>1, <3>2 DEF CompleteOutput
  <2>3. CASE issued # 0
    <3>1. issued \in Commands
      BY <1>0, <2>3 DEF Control, Commands
    <3> QED
      BY <1>0, <2>1, <3>1 DEF CompleteOutput
  <2> QED
    BY <2>2, <2>3
<1> QED
  BY <1>1, <1>3, <1>4 DEF ShellInv

-----------------------------------------------------------------------------
LEMMA RunInv == ASSUME ShellInv, Control', NEW k \in Kinds, Run(k) PROVE ShellInv'
<1> USE ShellAssumption
<1>0. Control /\ Types /\ Readers /\ Pipes
  BY DEF ShellInv
<1> DEFINE Started == [state |-> "reading", on |-> sess', got |-> <<>>]
<1>1. PICK c \in Commands :
          /\ ~waiting /\ issued' = issued + 1 /\ c = issued' /\ waiting' = TRUE
          /\ kind' = [kind EXCEPT ![c] = k] /\ k \in AllKinds
  <2>1. issued' = issued + 1 /\ issued < MaxCommands
    BY DEF Run, Issue
  <2>2. issued' \in Commands
    BY <1>0, <2>1 DEF Control, Commands
  <2> QED
    BY <2>2 DEF Run, Issue
<1>2. /\ alive' = TRUE /\ sess' = IF alive THEN sess ELSE sess + 1
      /\ up' = IF alive THEN up ELSE [up EXCEPT ![sess'] = TRUE]
      /\ up'[sess']
  BY DEF Run, Ensure
<1>3. /\ todo' = [todo EXCEPT ![sess'] = c] /\ reader' = [reader EXCEPT ![c] = Started]
      /\ alone' = ~\E d \in Commands : LeftBehind(d)
      /\ UNCHANGED <<program, pipe, printed, result>>
  BY <1>1 DEF Run
<1>4. sess' \in Sessions /\ sess' \in 0 .. MaxCommands
  BY <1>0, <1>1, <1>2 DEF Control, Sessions
<1>5. Types'
  <2>1. kind' \in [Commands -> AllKinds] /\ todo' \in [Sessions -> 0 .. MaxCommands]
    <3>1. c \in 0 .. MaxCommands
      BY <1>1 DEF Commands
    <3> QED
      BY <1>0, <1>1, <1>3, <3>1 DEF Types
  <2>2. Started \in [state : {"none", "reading", "done", "eof"}, on : 0 .. MaxCommands, got : Seq(Commands)]
    BY <1>4
  <2> HIDE DEF Started
  <2>3. reader' \in [Commands -> [state : {"none", "reading", "done", "eof"},
                                  on : 0 .. MaxCommands, got : Seq(Commands)]]
    BY <1>0, <1>1, <1>3, <2>2 DEF Types
  <2>4. alone' \in BOOLEAN
    BY <1>3
  <2> QED
    BY <1>0, <1>3, <2>1, <2>3, <2>4 DEF Types
<1>6. reader'[c] = Started /\ \A d \in Commands \ {c} : reader'[d] = reader[d]
  BY <1>0, <1>1, <1>3 DEF Types
<1>7. program[sess'] = 0 /\ pipe[sess'] = <<>> /\ printed[c] = 0
  <2>1. CASE alive
    BY <1>0, <1>1, <1>2, <1>4, <2>1 DEF Control, Pipes
  <2>2. CASE ~alive
    BY <1>0, <1>1, <1>2, <1>4, <2>2 DEF Control, Pipes
  <2> QED
    BY <2>1, <2>2
<1>8. Readers'
  <2>1. sess' \in 1 .. sess' /\ c <= issued'
    BY <1>1, <1>4 DEF Sessions, Commands
  <2>2. \A d \in Commands : reader[d].state = "reading" => d <= issued' /\ reader[d].on \in 1 .. sess'
    BY <1>0, <1>1, <1>2 DEF Readers, Control, Commands
  <2> QED
    BY <1>1, <1>6, <2>1, <2>2 DEF Readers
<1>9. Pipes'
  <2>1. \A s \in Sessions : s > sess' => s > sess
    BY <1>0, <1>2, <1>4 DEF Control, Sessions
  <2>2. \A d \in Commands : d > c => d > issued
    BY <1>0, <1>1 DEF Control, Commands
  <2>3. \A s \in Sessions : program[s] # 0 => program[s] <= issued' /\ program[s] # issued'
    BY <1>0, <1>1 DEF Control, Pipes, Types
  <2> QED
    BY <1>0, <1>1, <1>3, <2>1, <2>2, <2>3 DEF Pipes
<1>10. Answering(c)'
  <2>1. Output(c)' = <<>>
    <3>1. printed'[c] = 0
      BY <1>3, <1>7
    <3> QED
      BY <3>1 DEF Output
  <2>2. todo'[sess'] = c /\ c # 0
    BY <1>0, <1>1, <1>3, <1>4 DEF Types, Commands
  <2>3. pipe'[sess'] = <<>> /\ program'[sess'] = 0 /\ printed'[c] = 0
    BY <1>3, <1>7
  <2>4. reader'[c].got = <<>> /\ reader'[c].state = "reading" /\ reader'[c].on = sess'
    BY <1>6
  <2>5. Holds(c, FALSE, FALSE)'
    BY <2>1, <2>3, <2>4 DEF Holds, Unread
  <2> QED
    BY <1>2, <2>1, <2>2, <2>3, <2>4, <2>5 DEF Answering
<1>11. alone' => Apart(c)'
  <2> SUFFICES ASSUME alone', NEW d \in Commands \ {c}, reader'[d].state = "reading"
               PROVE  /\ reader'[d].on # sess' /\ pipe'[reader'[d].on] = <<>>
                      /\ ~up'[reader'[d].on] /\ program'[reader'[d].on] = 0
    BY DEF Apart, Closed
  <2>1. reader'[d] = reader[d] /\ ~LeftBehind(d)
    BY <1>3, <1>6
  <2>2. pipe[reader[d].on] = <<>> /\ ~up[reader[d].on] /\ program[reader[d].on] = 0
    BY <2>1 DEF LeftBehind, Closed
  <2>3. reader[d].on \in 1 .. sess /\ reader[d].on \in Sessions
    BY <1>0, <2>1 DEF Readers, Control, Sessions
  <2>4. reader[d].on # sess'
    BY <1>0, <1>2, <2>2, <2>3 DEF Control
  <2>5. ~up'[reader[d].on]
    BY <1>0, <1>2, <1>4, <2>2, <2>3, <2>4 DEF Control
  <2> QED
    BY <1>3, <2>1, <2>2, <2>4, <2>5
<1>12. Waiting'
  <2>1. c # 0
    BY DEF Commands
  <2>2. Answering(issued)' /\ (alone' => Apart(issued)')
    BY <1>1, <1>10, <1>11 DEF Apart, Answering, Holds, Output
  <2> QED
    BY <1>1, <1>2, <2>1, <2>2 DEF Waiting
<1>13. CompleteOutput'
  BY <1>1 DEF CompleteOutput
<1> QED
  BY <1>5, <1>8, <1>9, <1>12, <1>13 DEF ShellInv

LEMMA WriteFailsInv == ASSUME ShellInv, Control', WriteFails PROVE ShellInv'
<1> USE ShellAssumption
<1>0. Control /\ Types /\ Readers /\ Pipes
  BY DEF ShellInv
<1>1. PICK k \in AllKinds :
          /\ Issue(k) /\ alive /\ ~up[sess]
          /\ alive' = FALSE /\ result' = [how |-> "error", got |-> <<>>]
          /\ UNCHANGED <<sess, up, todo, program, pipe, printed, waiting, reader, alone>>
  BY DEF WriteFails, procVars
<1>2. issued' = issued + 1 /\ ~waiting /\ kind' = [kind EXCEPT ![issued'] = k]
  BY <1>1 DEF Issue
<1>3. Types' /\ Waiting' /\ CompleteOutput'
  BY <1>0, <1>1, <1>2 DEF Types, Waiting, CompleteOutput
<1>4. Readers'
  <2>1. \A d \in Commands : d <= issued => d <= issued'
    BY <1>0, <1>2 DEF Control, Commands
  <2> QED
    BY <1>0, <1>1, <2>1 DEF Readers
<1>5. Pipes'
  <2>1. \A d \in Commands : d > issued' => d > issued
    BY <1>0, <1>2 DEF Control, Commands
  <2>2. \A s \in Sessions : program[s] # 0 => program[s] <= issued' /\ program[s] # issued'
    BY <1>0, <1>2 DEF Control, Pipes, Types
  <2> QED
    BY <1>0, <1>1, <1>2, <2>1, <2>2 DEF Pipes
<1> QED
  BY <1>3, <1>4, <1>5 DEF ShellInv

LEMMA ReturnInv == ASSUME ShellInv, Control', Return PROVE ShellInv'
<1> USE ShellAssumption
<1>0. Control /\ Types /\ Readers /\ Pipes /\ Waiting
  BY DEF ShellInv
<1>1. /\ waiting /\ reader[issued].state \in {"done", "eof"} /\ waiting' = FALSE
      /\ result' = [how |-> reader[issued].state, got |-> reader[issued].got]
      /\ UNCHANGED <<alive, sess, up, todo, program, pipe, printed, kind, issued, reader, alone>>
  BY DEF Return, shellVars, procVars
<1>2. sess \in Sessions /\ issued \in Commands /\ Answering(issued)
  BY <1>1, Current
<1>3. reader[issued].state = "done" =>
          /\ todo[sess] = 0 /\ program[sess] = 0 /\ pipe[sess] = <<>>
          /\ reader[issued].got = Output(issued) \/ (reader[issued].got = <<>> /\ ~alone)
  <2>1. SUFFICES ASSUME reader[issued].state = "done"
                 PROVE  /\ todo[sess] = 0 /\ program[sess] = 0 /\ pipe[sess] = <<>>
                        /\ reader[issued].got = Output(issued) \/ (reader[issued].got = <<>> /\ ~alone)
    OBVIOUS
  <2>2. todo[sess] = 0 /\ program[sess] = 0 /\ pipe[sess] = <<>>
    BY <1>2, <2>1 DEF Answering
  <2>3. PICK line, marker \in BOOLEAN : Holds(issued, line, marker)
    BY <1>2 DEF Answering
  <2>4. ~line
    BY <2>2, <2>3 DEF Holds, Unread
  <2> QED
    BY <1>0, <1>2, <2>2, <2>3, <2>4 DEF Answering, Holds, Types
<1>4. reader[issued].state = "eof" => ~up[sess]
  BY <1>2 DEF Answering
<1>5. Types' /\ Readers'
  BY <1>0, <1>1 DEF Types, Readers
<1>6. Pipes'
  <2>1. \A s \in Sessions : up[s] => todo[s] = 0 /\ program[s] = 0 /\ pipe[s] = <<>>
    BY <1>0, <1>1, <1>3, <1>4 DEF Control
  <2>2. \A s \in Sessions : program[s] # 0 => program[s] <= issued
    BY <1>0 DEF Pipes
  <2>3. \A s \in Sessions : program[s] # 0 /\ program[s] = issued => s = sess
    BY <1>0 DEF Pipes
  <2>4. result'.how = "done" => program[sess] = 0
    BY <1>1, <1>3
  <2> QED
    BY <1>0, <1>1, <2>1, <2>2, <2>3, <2>4 DEF Pipes
<1>7. Waiting' /\ CompleteOutput'
  BY <1>1, <1>3 DEF Waiting, CompleteOutput, Output
<1> QED
  BY <1>5, <1>6, <1>7 DEF ShellInv

LEMMA TimeoutInv == ASSUME ShellInv, Control', Timeout PROVE ShellInv'
<1> USE ShellAssumption
<1>0. Control /\ Types /\ Readers /\ Pipes /\ Waiting
  BY DEF ShellInv
<1>1. /\ waiting /\ waiting' = FALSE
      /\ alive' = FALSE /\ up' = [up EXCEPT ![sess] = FALSE]
      /\ result' = [how |-> "timeout", got |-> <<>>]
      /\ UNCHANGED <<sess, todo, program, pipe, printed, kind, issued, reader, alone>>
  BY DEF Timeout, KillShell
<1>2. \A s \in Sessions : ~up'[s]
  BY <1>0, <1>1 DEF Control
<1>3. Types' /\ Readers'
  BY <1>0, <1>1 DEF Types, Readers
<1>4. Pipes'
  BY <1>0, <1>1, <1>2 DEF Pipes
<1>5. Waiting' /\ CompleteOutput'
  BY <1>1 DEF Waiting, CompleteOutput
<1> QED
  BY <1>3, <1>4, <1>5 DEF ShellInv

-----------------------------------------------------------------------------
(* The goroutine of the command that is waited for takes a line.           *)
LEMMA ReadOwn ==
    ASSUME ShellInv, Control', Types', waiting, ReadLine(issued)
    PROVE  Answering(issued)'
<1>0. Control /\ Types
  BY DEF ShellInv
<1>1. PICK c \in Commands : c = issued /\ sess \in Sessions /\ Answering(c)
  BY Current
<1> DEFINE got == reader[c].got
<1>2. reader[c].state = "reading" /\ reader[c].on = sess /\ pipe[sess] # <<>>
  BY <1>1 DEF Answering, ReadLine
<1>3. /\ pipe' = [pipe EXCEPT ![sess] = Tail(@)]
      /\ reader' = [reader EXCEPT ![c] =
             IF Head(pipe[sess]).marker THEN [reader[c] EXCEPT !.state = "done"]
             ELSE [reader[c] EXCEPT !.got = Append(got, Head(pipe[sess]).cmd), !.on = sess]]
      /\ UNCHANGED <<alive, sess, up, todo, program, printed, issued, alone>>
  BY <1>1, <1>2 DEF ReadLine, shellVars
<1>4. PICK line, marker \in BOOLEAN : Holds(c, line, marker)
  BY <1>1 DEF Answering
<1>5. pipe[sess] = Unread(c, line, marker)
  BY <1>4 DEF Holds
<1>6. /\ Head(pipe[sess]) = IF line THEN Text(c) ELSE Marker(c)
      /\ line => Tail(pipe[sess]) = Unread(c, FALSE, marker)
      /\ ~line => marker /\ Tail(pipe[sess]) = <<>>
  BY <1>1, <1>2, <1>5, UnreadLines
<1>7. pipe'[sess] = Tail(pipe[sess]) /\ Output(c)' = Output(c)
  BY <1>0, <1>1, <1>3 DEF Types, Output
<1>8. reader[c] \in [state : {"none", "reading", "done", "eof"}, on : 0 .. MaxCommands, got : Seq(Commands)]
  BY <1>0, <1>1 DEF Types
<1>9. /\ Answering(c)!1 /\ Answering(c)!2 /\ Answering(c)!3 /\ Answering(c)!4
  BY <1>1 DEF Answering
<1>10. ASSUME line  PROVE Answering(c)'
  <2>1. got = <<>> /\ printed[c] = 1 /\ Output(c) = <<c>>
    BY <1>0, <1>1, <1>4, <1>10, OutputIs DEF Holds, Types
  <2>2. Head(pipe[sess]).marker = FALSE /\ Head(pipe[sess]).cmd = c
    BY <1>6, <1>10 DEF Text
  <2>3. Append(got, c) = <<c>>
    BY <2>1, AppendOne
  <2>4. reader'[c] = [reader[c] EXCEPT !.got = <<c>>, !.on = sess]
    BY <1>0, <1>1, <1>3, <2>2, <2>3 DEF Types
  <2>5. reader'[c].got = <<c>> /\ reader'[c].state = "reading" /\ reader'[c].on = sess
    BY <1>2, <1>8, <2>4
  <2>6. Holds(c, FALSE, marker)'
    BY <1>3, <1>4, <1>6, <1>7, <1>10, <2>1, <2>5 DEF Holds, Unread, Text, Marker
  <2> QED
    BY <1>3, <1>7, <1>9, <2>1, <2>5, <2>6 DEF Answering
<1>11. ASSUME ~line  PROVE Answering(c)'
  <2>1. Head(pipe[sess]).marker = TRUE
    BY <1>6, <1>11 DEF Marker
  <2>2. reader'[c] = [reader[c] EXCEPT !.state = "done"]
    BY <1>0, <1>1, <1>3, <2>1 DEF Types
  <2>3. reader'[c].state = "done" /\ reader'[c].got = got
    BY <1>8, <2>2
  <2>4. todo[sess] = 0 /\ pipe'[sess] = <<>>
    BY <1>4, <1>6, <1>7, <1>11 DEF Holds
  <2>5. Holds(c, FALSE, FALSE)'
    BY <1>3, <1>4, <1>7, <1>11, <2>3, <2>4 DEF Holds, Unread
  <2>6. got \in {<<>>, Output(c)}
    BY <1>1 DEF Answering
  <2> QED
    BY <1>3, <1>7, <1>9, <2>3, <2>4, <2>5, <2>6 DEF Answering
<1>12. Answering(c)'
  BY <1>10, <1>11
<1> QED
  BY <1>1, <1>3, <1>12

(* A goroutine that was left behind takes a line from it.                  *)
LEMMA ReadForeign ==
    ASSUME ShellInv, waiting, ~alone, UNCHANGED <<sess, issued, alone, up, todo, program, printed>>,
           pipe[sess] # <<>>, pipe'[sess] = Tail(pipe[sess]), reader'[issued] = reader[issued]
    PROVE  Answering(issued)'
<1>0. Control /\ Types
  BY DEF ShellInv
<1>1. PICK c \in Commands : c = issued /\ sess \in Sessions /\ Answering(c)
  BY Current
<1>2. PICK line, marker \in BOOLEAN : Holds(c, line, marker)
  BY <1>1 DEF Answering
<1>3. pipe[sess] = Unread(c, line, marker)
  BY <1>2 DEF Holds
<1>4. /\ line => Tail(pipe[sess]) = Unread(c, FALSE, marker)
      /\ ~line => marker /\ Tail(pipe[sess]) = <<>>
  BY <1>1, <1>3, UnreadLines
<1>5. Output(c)' = Output(c)
  BY DEF Output
<1>6. \E m \in BOOLEAN : Holds(c, FALSE, m)'
  <2>1. CASE line
    <3>1. Holds(c, FALSE, marker)'
      BY <1>1, <1>2, <1>4, <1>5, <2>1 DEF Holds, Unread, Text, Marker
    <3> QED
      BY <3>1
  <2>2. CASE ~line
    <3>1. Holds(c, FALSE, FALSE)'
      BY <1>1, <1>2, <1>4, <1>5, <2>2 DEF Holds, Unread
    <3> QED
      BY <3>1
  <2> QED
    BY <2>1, <2>2
<1>7. /\ Answering(c)!1 /\ Answering(c)!2 /\ Answering(c)!3 /\ Answering(c)!4 /\ Answering(c)!5
      /\ \/ reader[c].state = "reading" /\ reader[c].on = sess
         \/ reader[c].state = "eof" /\ ~up[sess]
  BY <1>1 DEF Answering
<1>8. Answering(c)'
  BY <1>1, <1>5, <1>6, <1>7 DEF Answering
<1> QED
  BY <1>1, <1>8

LEMMA ReadLineInv == ASSUME ShellInv, Control', NEW d \in Commands, ReadLine(d) PROVE ShellInv'
<1> USE ShellAssumption
<1>0. Control /\ Types /\ Readers /\ Pipes /\ Waiting
  BY DEF ShellInv
<1> DEFINE s == reader[d].on
           rec == IF Head(pipe[s]).marker THEN [reader[d] EXCEPT !.state = "done"]
                  ELSE [reader[d] EXCEPT !.got = Append(reader[d].got, Head(pipe[s]).cmd), !.on = sess]
<1>1. /\ reader[d].state = "reading" /\ pipe[s] # <<>>
      /\ pipe' = [pipe EXCEPT ![s] = Tail(@)] /\ reader' = [reader EXCEPT ![d] = rec]
      /\ UNCHANGED <<alive, sess, up, todo, program, printed, kind, issued, waiting, result, alone>>
  BY DEF ReadLine, shellVars
<1>2. s \in Sessions /\ s \in 1 .. sess /\ d <= issued
  BY <1>0, <1>1 DEF Readers, Control, Sessions
<1>3. /\ reader[d] \in [state : {"none", "reading", "done", "eof"}, on : 0 .. MaxCommands, got : Seq(Commands)]
      /\ pipe[s] \in Seq([cmd : Commands, marker : BOOLEAN]) /\ sess \in 0 .. MaxCommands
  <2>1. sess \in 0 .. MaxCommands
    BY <1>0 DEF Control
  <2> QED
    BY <1>0, <1>2, <2>1 DEF Types
<1>4. Head(pipe[s]) \in [cmd : Commands, marker : BOOLEAN] /\ Tail(pipe[s]) \in Seq([cmd : Commands, marker : BOOLEAN])
  BY <1>1, <1>3, HeadTailProperties
<1>5. /\ rec \in [state : {"none", "reading", "done", "eof"}, on : 0 .. MaxCommands, got : Seq(Commands)]
      /\ rec.state = "reading" => rec.on = sess
  <2>1. CASE Head(pipe[s]).marker
    BY <1>3, <2>1
  <2>2. CASE ~Head(pipe[s]).marker
    <3>1. Append(reader[d].got, Head(pipe[s]).cmd) \in Seq(Commands)
      BY <1>3, <1>4
    <3> QED
      BY <1>3, <2>2, <3>1
  <2> QED
    BY <2>1, <2>2
<1> HIDE DEF rec
<1>6. pipe' \in [Sessions -> Seq([cmd : Commands, marker : BOOLEAN])]
  BY <1>0, <1>1, <1>2, <1>4 DEF Types
<1>7. Types'
  BY <1>0, <1>1, <1>5, <1>6 DEF Types
<1>8. /\ reader'[d] = rec /\ \A e \in Commands \ {d} : reader'[e] = reader[e]
      /\ pipe'[s] = Tail(pipe[s]) /\ \A o \in Sessions \ {s} : pipe'[o] = pipe[o]
  BY <1>0, <1>1, <1>2 DEF Types
<1>9. Readers'
  <2>1. sess \in 1 .. sess
    BY <1>0, <1>2 DEF Control
  <2> QED
    BY <1>0, <1>1, <1>2, <1>5, <1>8, <2>1 DEF Readers
<1>10. ASSUME waiting  PROVE Answering(issued)'
  <2>1. sess \in Sessions /\ issued \in Commands /\ Answering(issued)
    BY <1>10, Current
  <2>2. CASE d = issued
    BY <1>7, <1>10, <2>2, ReadOwn
  <2>3. CASE d # issued /\ s = sess
    <3>1. ~alone
      BY <1>0, <1>1, <1>10, <2>3 DEF Waiting, Apart
    <3>2. reader'[issued] = reader[issued]
      BY <1>8, <2>1, <2>3
    <3>3. pipe[sess] # <<>> /\ pipe'[sess] = Tail(pipe[sess])
      BY <1>1, <1>8, <2>3
    <3> HIDE DEF s
    <3> QED
      BY <1>1, <1>10, <3>1, <3>2, <3>3, ReadForeign
  <2>4. CASE d # issued /\ s # sess
    <3>1. reader'[issued] = reader[issued] /\ pipe'[sess] = pipe[sess]
      BY <1>8, <2>1, <2>4
    <3> QED
      BY <1>1, <2>1, <3>1, SameAnswering
  <2> QED
    BY <2>2, <2>3, <2>4
<1>11. \A o \in Sessions :
           /\ up[o] /\ ~waiting => pipe'[o] = pipe[o]
           /\ o > sess => pipe'[o] = pipe[o]
           /\ alone /\ waiting /\ Closed(o) => pipe'[o] = pipe[o]
  <2>1. ~(up[s] /\ ~waiting)
    BY <1>0, <1>1, <1>2 DEF Pipes
  <2>2. ~(s > sess)
    BY <1>0, <1>2 DEF Control
  <2>3. ~(alone /\ waiting /\ Closed(s))
    <3>1. SUFFICES ASSUME alone, waiting, Closed(s)
                   PROVE  FALSE
      OBVIOUS
    <3>2. d = issued
      BY <1>0, <1>1, <3>1 DEF Waiting, Apart
    <3>3. s = sess /\ todo[sess] # 0 /\ printed[issued] = 0 /\ issued \in Commands
      BY <1>1, <3>1, <3>2, Current DEF Answering, Closed
    <3>4. PICK line, marker \in BOOLEAN : Holds(issued, line, marker)
      BY <3>1, Current DEF Answering
    <3>5. ~line /\ ~marker
      BY <3>3, <3>4 DEF Holds
    <3> QED
      BY <1>1, <3>3, <3>4, <3>5 DEF Holds, Unread
  <2> QED
    BY <1>8, <2>1, <2>2, <2>3
<1>12. ASSUME waiting, alone, NEW e \in Commands \ {issued}, reader'[e].state = "reading"
       PROVE  reader'[e] = reader[e]
  <2>1. d = issued
    BY <1>0, <1>1, <1>12 DEF Waiting, Apart
  <2> QED
    BY <1>8, <1>12, <2>1
<1> HIDE DEF s
<1> QED
  BY <1>1, <1>7, <1>9, <1>10, <1>11, <1>12, StepInv

LEMMA ReadEndInv == ASSUME ShellInv, Control', NEW d \in Commands, ReadEnd(d) PROVE ShellInv'
<1> USE ShellAssumption
<1>0. Control /\ Types /\ Readers /\ Waiting
  BY DEF ShellInv
<1>1. /\ reader[d].state = "reading" /\ ~up[reader[d].on]
      /\ reader' = [reader EXCEPT ![d].state = "eof"]
      /\ UNCHANGED <<alive, sess, up, todo, program, pipe, printed, kind, issued, waiting, result, alone>>
  BY DEF ReadEnd, Closed, shellVars, procVars
<1>2. /\ reader'[d] = [reader[d] EXCEPT !.state = "eof"]
      /\ \A e \in Commands \ {d} : reader'[e] = reader[e]
  BY <1>0, <1>1 DEF Types
<1>3. reader'[d].state = "eof" /\ reader'[d].got = reader[d].got
  BY <1>0, <1>2 DEF Types
<1>4. Types'
  BY <1>0, <1>1 DEF Types
<1>5. Readers'
  BY <1>0, <1>1, <1>2, <1>3 DEF Readers
<1>6. ASSUME waiting  PROVE Answering(issued)'
  <2>1. issued \in Commands /\ Answering(issued)
    BY <1>6, Current
  <2>2. CASE d # issued
    BY <1>1, <1>2, <2>1, <2>2, SameAnswering
  <2>3. CASE d = issued
    <3>1. Output(issued)' = Output(issued) /\ ~up[sess]
      BY <1>1, <2>1, <2>3 DEF Output, Answering
    <3>2. PICK line, marker \in BOOLEAN : Holds(issued, line, marker)
      BY <2>1 DEF Answering
    <3>3. Holds(issued, line, marker)'
      BY <1>1, <1>3, <2>3, <3>1, <3>2 DEF Holds, Unread, Text, Marker
    <3> QED
      BY <1>1, <1>3, <2>1, <2>3, <3>1, <3>3 DEF Answering
  <2> QED
    BY <2>2, <2>3
<1> QED
  BY <1>1, <1>2, <1>3, <1>4, <1>5, <1>6, StepInv

-----------------------------------------------------------------------------
(* What a shell at work, or the program that it waits for, has in its pipe.*)
LEMMA AtWork ==
    ASSUME ShellInv, NEW s \in Sessions,
           (up[s] /\ todo[s] # 0) \/ (waiting /\ s = sess /\ program[s] # 0)
    PROVE  /\ s = sess /\ waiting /\ alive /\ up[s] /\ issued \in Commands /\ Answering(issued)
           /\ todo[s] = issued /\ program[s] \in {0, issued}
           /\ reader[issued].state = "reading" /\ reader[issued].on = sess
           /\ program[s] = 0 => printed[issued] = 0
           /\ \E line \in BOOLEAN : Holds(issued, line, FALSE)
           /\ printed[issued] = 0 =>
                  pipe[s] = <<>> /\ reader[issued].got = <<>> /\ Output(issued) = <<>>
<1>1. s = sess /\ waiting
  BY BusyIsCurrent
<1>2. issued \in Commands /\ alive /\ Answering(issued) /\ issued # 0
  BY <1>1, Current DEF Commands
<1>3. todo[s] # 0 /\ up[s]
  BY <1>1, <1>2 DEF Answering
<1>4. PICK line, marker \in BOOLEAN : Holds(issued, line, marker)
  BY <1>2 DEF Answering
<1>5. ~marker
  BY <1>1, <1>3, <1>4 DEF Holds
<1>6. printed[issued] = 0 => pipe[s] = <<>> /\ reader[issued].got = <<>> /\ Output(issued) = <<>>
  <2>1. SUFFICES ASSUME printed[issued] = 0
                 PROVE  pipe[s] = <<>> /\ reader[issued].got = <<>> /\ Output(issued) = <<>>
    OBVIOUS
  <2>2. Output(issued) = <<>>
    BY <1>2, <2>1, OutputIs
  <2>3. ~line
    BY <1>4, <2>1 DEF Holds
  <2> QED
    BY <1>1, <1>2, <1>4, <1>5, <2>2, <2>3 DEF Answering, Holds, Unread
<1>7. Holds(issued, line, FALSE)
  BY <1>4, <1>5
<1> QED
  BY <1>1, <1>2, <1>3, <1>6, <1>7 DEF Answering

(* A step of the process of session s, at work for the current command.    *)
LEMMA WorkStep ==
    ASSUME ShellInv, Control', NEW s \in Sessions, s = sess, waiting, up[s], Types',
           UNCHANGED <<alive, sess, issued, waiting, reader, result, alone>>,
           \A o \in Sessions \ {s} :
               up'[o] = up[o] /\ todo'[o] = todo[o] /\ program'[o] = program[o] /\ pipe'[o] = pipe[o],
           program'[s] \in {0, issued},
           \A c \in Commands : printed'[c] = printed[c] \/ c = issued,
           Answering(issued)'
    PROVE  ShellInv'
<1>1. Readers'
  BY DEF ShellInv, Readers
<1>2. \A o \in Sessions : o > sess => o # s
  BY DEF ShellInv, Control, Sessions
<1>3. \A c \in Commands : c > issued => c # issued
  BY DEF ShellInv, Control, Commands
<1> QED
  BY <1>1, <1>2, <1>3, StepInv DEF Closed

LEMMA ExitInv == ASSUME ShellInv, Control', NEW s \in Sessions, Exit(s) PROVE ShellInv'
<1>0. Control /\ Types
  BY DEF ShellInv
<1>1. /\ up[s] /\ todo[s] # 0 /\ program[s] = 0 /\ up' = [up EXCEPT ![s] = FALSE]
      /\ UNCHANGED <<alive, sess, todo, program, pipe, printed, kind, issued, waiting, reader, result, alone>>
  BY DEF Exit, Given, shellVars
<1>2. /\ s = sess /\ waiting /\ Answering(issued)
      /\ reader[issued].state = "reading" /\ reader[issued].on = sess
  BY <1>1, AtWork
<1>3. Types' /\ \A o \in Sessions \ {s} : up'[o] = up[o]
  BY <1>0, <1>1 DEF Types, Control
<1>4. Answering(issued)'
  <2>1. Output(issued)' = Output(issued)
    BY <1>1 DEF Output
  <2>2. PICK line, marker \in BOOLEAN : Holds(issued, line, marker)
    BY <1>2 DEF Answering
  <2>3. Holds(issued, line, marker)'
    BY <1>1, <2>1, <2>2 DEF Holds, Unread, Text, Marker
  <2> QED
    BY <1>1, <1>2, <2>1, <2>3 DEF Answering
<1> QED
  BY <1>1, <1>2, <1>3, <1>4, WorkStep

LEMMA SpawnInv == ASSUME ShellInv, Control', NEW s \in Sessions, Spawn(s) PROVE ShellInv'
<1>0. Control /\ Types
  BY DEF ShellInv
<1>1. /\ up[s] /\ todo[s] # 0 /\ program[s] = 0 /\ program' = [program EXCEPT ![s] = todo[s]]
      /\ UNCHANGED <<alive, sess, up, todo, pipe, printed, kind, issued, waiting, reader, result, alone>>
  BY DEF Spawn, Given, shellVars
<1>2. /\ s = sess /\ waiting /\ issued \in Commands /\ todo[s] = issued /\ Answering(issued)
      /\ reader[issued].state = "reading" /\ reader[issued].on = sess
  BY <1>1, AtWork
<1>3. /\ program' \in [Sessions -> 0 .. MaxCommands] /\ program'[s] = issued
      /\ \A o \in Sessions \ {s} : program'[o] = program[o]
  BY <1>0, <1>1, <1>2 DEF Types
<1>4. Types'
  BY <1>0, <1>1, <1>3 DEF Types
<1>5. Answering(issued)'
  <2>1. Output(issued)' = Output(issued) /\ issued # 0
    BY <1>1, <1>2 DEF Output, Commands
  <2>2. PICK line, marker \in BOOLEAN : Holds(issued, line, marker)
    BY <1>2 DEF Answering
  <2>3. Holds(issued, line, marker)'
    BY <1>1, <2>1, <2>2 DEF Holds, Unread, Text, Marker
  <2> QED
    BY <1>1, <1>2, <1>3, <2>1, <2>3 DEF Answering
<1> QED
  BY <1>1, <1>2, <1>3, <1>4, <1>5, WorkStep

LEMMA QuickInv == ASSUME ShellInv, Control', NEW s \in Sessions, Quick(s) PROVE ShellInv'
<1>0. Control /\ Types
  BY DEF ShellInv
<1> DEFINE c == todo[s]
<1>1. /\ up[s] /\ c # 0 /\ program[s] = 0
      /\ pipe' = [pipe EXCEPT ![s] = pipe[s] \o <<Text(c), Marker(c)>>]
      /\ printed' = [printed EXCEPT ![c] = 1] /\ todo' = [todo EXCEPT ![s] = 0]
      /\ UNCHANGED <<alive, sess, up, program, kind, issued, waiting, reader, result, alone>>
  BY DEF Quick, Given, shellVars
<1>2. /\ s = sess /\ waiting /\ issued \in Commands /\ c = issued
      /\ reader[issued].state = "reading" /\ reader[issued].on = sess
      /\ reader[issued].got = <<>> /\ pipe[s] = <<>>
  BY <1>1, AtWork
<1>3. Text(c) \in [cmd : Commands, marker : BOOLEAN] /\ Marker(c) \in [cmd : Commands, marker : BOOLEAN]
  BY <1>2 DEF Text, Marker
<1>4. pipe[s] \o <<Text(c), Marker(c)>> = <<Text(c), Marker(c)>>
  BY <1>2, <1>3, AppendOne
<1>5. <<Text(c), Marker(c)>> \in Seq([cmd : Commands, marker : BOOLEAN])
  BY <1>3
<1>6. pipe' = [pipe EXCEPT ![s] = <<Text(c), Marker(c)>>]
  BY <1>1, <1>4
<1>7. /\ pipe' \in [Sessions -> Seq([cmd : Commands, marker : BOOLEAN])]
      /\ pipe'[s] = <<Text(c), Marker(c)>> /\ \A o \in Sessions \ {s} : pipe'[o] = pipe[o]
  BY <1>0, <1>5, <1>6 DEF Types
<1>8. /\ printed' \in [Commands -> {0, 1}] /\ printed'[issued] = 1
      /\ \A d \in Commands \ {issued} : printed'[d] = printed[d]
  BY <1>0, <1>1, <1>2 DEF Types
<1>9. /\ todo' \in [Sessions -> 0 .. MaxCommands] /\ todo'[s] = 0
      /\ \A o \in Sessions \ {s} : todo'[o] = todo[o]
  BY <1>0, <1>1, ShellAssumption DEF Types
<1> HIDE DEF c
<1>10. Types'
  BY <1>0, <1>1, <1>7, <1>8, <1>9 DEF Types
<1>11. Answering(issued)'
  <2>1. Holds(issued, TRUE, TRUE)'
    BY <1>1, <1>2, <1>7, <1>8, <1>9 DEF Holds, Unread, Text, Marker
  <2> QED
    BY <1>1, <1>2, <1>9, <2>1 DEF Answering
<1> QED
  BY <1>1, <1>2, <1>7, <1>8, <1>9, <1>10, <1>11, WorkStep

(* A step of a program of an earlier session, or of a command that was     *)
(* given up: the current command is not concerned.                         *)
LEMMA StrayStep ==
    ASSUME ShellInv, Control', Types', NEW s \in Sessions, program[s] # 0, ~(waiting /\ s = sess),
           UNCHANGED <<alive, sess, up, issued, waiting, reader, result, alone>>,
           \A o \in Sessions \ {s} :
               todo'[o] = todo[o] /\ program'[o] = program[o] /\ pipe'[o] = pipe[o],
           program'[s] \in {0, program[s]},
           \A c \in Commands : printed'[c] = printed[c] \/ c = program[s]
    PROVE  ShellInv'
<1>0. Control /\ Types /\ Readers /\ Pipes
  BY DEF ShellInv
<1>1. Readers'
  BY <1>0 DEF Readers
<1>2. ~up[s] \/ waiting
  BY <1>0 DEF Pipes
<1>3. ~(s > sess) /\ ~Closed(s)
  BY <1>0 DEF Pipes, Closed
<1>4. \A c \in Commands : c > issued \/ (c = issued /\ ~waiting /\ result.how = "done")
          => printed'[c] = printed[c]
  <2>1. program[s] <= issued /\ (program[s] = issued => waiting \/ result.how # "done")
    BY <1>0 DEF Pipes
  <2>2. \A c \in Commands : c > issued => c # program[s]
    BY <1>0, <2>1 DEF Control, Types, Commands
  <2> QED
    BY <2>1, <2>2
<1>5. ASSUME waiting  PROVE Answering(issued)'
  <2>1. sess \in Sessions /\ issued \in Commands /\ Answering(issued) /\ s # sess
    BY <1>5, Current
  <2>2. program[s] # issued
    BY <1>0, <2>1 DEF Pipes
  <2>3. printed'[issued] = printed[issued]
    BY <2>1, <2>2
  <2> QED
    BY <2>1, <2>3, SameAnswering
<1>6. \A o \in Sessions : up[o] /\ ~waiting => o # s
  BY <1>2
<1> QED
  BY <1>1, <1>3, <1>4, <1>5, <1>6, StepInv

LEMMA ProgramPrintsInv == ASSUME ShellInv, Control', NEW s \in Sessions, ProgramPrints(s) PROVE ShellInv'
<1> USE ShellAssumption
<1>0. Control /\ Types
  BY DEF ShellInv
<1> DEFINE c == program[s]
<1>1. /\ c # 0 /\ printed[c] = 0
      /\ pipe' = [pipe EXCEPT ![s] = Append(pipe[s], Text(c))]
      /\ printed' = [printed EXCEPT ![c] = 1]
      /\ UNCHANGED <<alive, sess, up, todo, program, kind, issued, waiting, reader, result, alone>>
  BY DEF ProgramPrints, shellVars
<1>2. c \in Commands
  BY <1>0, <1>1 DEF Types, Commands
<1> HIDE DEF c
<1>3. Text(c) \in [cmd : Commands, marker : BOOLEAN] /\ pipe[s] \in Seq([cmd : Commands, marker : BOOLEAN])
  BY <1>0, <1>2 DEF Text, Types
<1>4. Append(pipe[s], Text(c)) \in Seq([cmd : Commands, marker : BOOLEAN])
  BY <1>3
<1>5. /\ pipe' \in [Sessions -> Seq([cmd : Commands, marker : BOOLEAN])]
      /\ pipe'[s] = Append(pipe[s], Text(c)) /\ \A o \in Sessions \ {s} : pipe'[o] = pipe[o]
  BY <1>0, <1>1, <1>4 DEF Types
<1>6. /\ printed' \in [Commands -> {0, 1}] /\ printed'[c] = 1
      /\ \A d \in Commands \ {c} : printed'[d] = printed[d]
  BY <1>0, <1>1, <1>2 DEF Types
<1>7. Types'
  BY <1>0, <1>1, <1>5, <1>6 DEF Types
<1>8. CASE waiting /\ s = sess
  <2>1. /\ up[s] /\ issued \in Commands /\ Answering(issued) /\ c = issued
        /\ reader[issued].state = "reading" /\ reader[issued].on = sess
        /\ reader[issued].got = <<>> /\ pipe[s] = <<>> /\ todo[s] = issued
    <3>1. program[s] # 0
      BY <1>1 DEF c
    <3>2. c = issued
      BY <1>8, <3>1, AtWork DEF c
    <3> QED
      BY <1>1, <1>8, <3>1, <3>2, AtWork
  <2>2. pipe'[s] = <<Text(issued)>> /\ issued # 0
    BY <1>3, <1>5, <2>1, AppendOne DEF Commands
  <2>3. Holds(issued, TRUE, FALSE)'
    BY <1>1, <1>6, <1>8, <2>1, <2>2 DEF Holds, Unread, Text, Marker
  <2>4. Answering(issued)'
    BY <1>1, <1>8, <2>1, <2>2, <2>3 DEF Answering, c
  <2>5. program'[s] \in {0, issued}
    BY <1>1, <2>1 DEF c
  <2> QED
    BY <1>1, <1>5, <1>6, <1>7, <1>8, <2>1, <2>4, <2>5, WorkStep
<1>9. CASE ~(waiting /\ s = sess)
  <2>1. program[s] # 0 /\ \A d \in Commands : printed'[d] = printed[d] \/ d = program[s]
    BY <1>1, <1>6 DEF c
  <2> QED
    BY <1>1, <1>5, <1>7, <1>9, <2>1, StrayStep
<1> QED
  BY <1>8, <1>9

LEMMA ProgramEndsInv == ASSUME ShellInv, Control', NEW s \in Sessions, ProgramEnds(s) PROVE ShellInv'
<1> USE ShellAssumption
<1>0. Control /\ Types
  BY DEF ShellInv
<1> DEFINE c == program[s]
<1>1. /\ c # 0 /\ program' = [program EXCEPT ![s] = 0] /\ todo' = [todo EXCEPT ![s] = 0]
      /\ pipe' = IF up[s] THEN [pipe EXCEPT ![s] = Append(pipe[s], Marker(c))] ELSE pipe
      /\ UNCHANGED <<alive, sess, up, printed, kind, issued, waiting, reader, result, alone>>
  BY DEF ProgramEnds, shellVars
<1>2. c \in Commands
  BY <1>0, <1>1 DEF Types, Commands
<1>3. /\ todo' \in [Sessions -> 0 .. MaxCommands] /\ todo'[s] = 0
      /\ program' \in [Sessions -> 0 .. MaxCommands] /\ program'[s] = 0
      /\ \A o \in Sessions \ {s} : todo'[o] = todo[o] /\ program'[o] = program[o]
  BY <1>0, <1>1 DEF Types
<1> HIDE DEF c
<1>4. Marker(c) \in [cmd : Commands, marker : BOOLEAN] /\ pipe[s] \in Seq([cmd : Commands, marker : BOOLEAN])
  BY <1>0, <1>2 DEF Marker, Types
<1>5. Append(pipe[s], Marker(c)) \in Seq([cmd : Commands, marker : BOOLEAN])
  BY <1>4
<1>6. /\ pipe' \in [Sessions -> Seq([cmd : Commands, marker : BOOLEAN])]
      /\ pipe'[s] = IF up[s] THEN Append(pipe[s], Marker(c)) ELSE pipe[s]
      /\ \A o \in Sessions \ {s} : pipe'[o] = pipe[o]
  BY <1>0, <1>1, <1>5 DEF Types
<1>7. Types'
  BY <1>0, <1>1, <1>3, <1>6 DEF Types
<1>8. CASE waiting /\ s = sess
  <2>1. program[s] # 0
    BY <1>1 DEF c
  <2>2. /\ up[s] /\ issued \in Commands /\ Answering(issued) /\ c = issued
        /\ reader[issued].state = "reading" /\ reader[issued].on = sess
        /\ \E line \in BOOLEAN : Holds(issued, line, FALSE)
    BY <1>8, <2>1, AtWork DEF c
  <2>3. PICK line \in BOOLEAN : Holds(issued, line, FALSE)
    BY <2>2
  <2>4. pipe'[s] = Unread(issued, line, TRUE)
    <3>1. pipe[s] = IF line THEN <<Text(c)>> ELSE <<>>
      BY <1>8, <2>2, <2>3 DEF Holds, Unread
    <3>2. Text(c) \in [cmd : Commands, marker : BOOLEAN]
      BY <1>2 DEF Text
    <3>3. Append(<<Text(c)>>, Marker(c)) = <<Text(c), Marker(c)>> /\ Append(<<>>, Marker(c)) = <<Marker(c)>>
      BY <1>4, <3>2, AppendOne
    <3> QED
      BY <1>6, <2>2, <3>1, <3>3 DEF Unread
  <2>5. Output(issued)' = Output(issued)
    BY <1>1 DEF Output
  <2>6. Holds(issued, line, TRUE)'
    BY <1>1, <1>3, <1>8, <2>3, <2>4, <2>5 DEF Holds, Unread, Text, Marker
  <2>7. Answering(issued)'
    BY <1>1, <1>3, <1>8, <2>2, <2>5, <2>6 DEF Answering
  <2> QED
    BY <1>1, <1>3, <1>6, <1>7, <1>8, <2>2, <2>7, WorkStep
<1>9. CASE ~(waiting /\ s = sess)
  <2>1. program[s] # 0
    BY <1>1 DEF c
  <2> QED
    BY <1>1, <1>3, <1>6, <1>7, <1>9, <2>1, StrayStep
<1> QED
  BY <1>8, <1>9

-----------------------------------------------------------------------------
LEMMA ShellInvInductive == ShellInv /\ [Next]_vars => ShellInv'
<1> SUFFICES ASSUME ShellInv, [Next]_vars
             PROVE  ShellInv'
  OBVIOUS
<1>0. Control'
  BY ControlInductive DEF ShellInv
<1>1. ASSUME NEW k \in Kinds, Run(k)  PROVE ShellInv'
  BY <1>0, <1>1, RunInv
<1>2. CASE WriteFails
  BY <1>0, <1>2, WriteFailsInv
<1>3. CASE Return
  BY <1>0, <1>3, ReturnInv
<1>4. CASE Timeout
  BY <1>0, <1>4, TimeoutInv
<1>5. ASSUME NEW c \in Commands, ReadLine(c) \/ ReadEnd(c)  PROVE ShellInv'
  BY <1>0, <1>5, ReadLineInv, ReadEndInv
<1>6. ASSUME NEW s \in Sessions, Quick(s) \/ Exit(s) \/ Spawn(s)  PROVE ShellInv'
  BY <1>0, <1>6, QuickInv, ExitInv, SpawnInv
<1>7. ASSUME NEW s \in Sessions, ProgramPrints(s) \/ ProgramEnds(s)  PROVE ShellInv'
  BY <1>0, <1>7, ProgramPrintsInv, ProgramEndsInv
<1>8. CASE UNCHANGED vars
  <2>1. UNCHANGED <<alive, sess, up, todo, program, pipe, printed, kind, issued, waiting, reader, result, alone>>
    BY <1>8 DEF vars, shellVars, procVars
  <2>2. Types' /\ Readers' /\ Pipes' /\ CompleteOutput'
    BY <2>1 DEF ShellInv, Types, Readers, Pipes, CompleteOutput
  <2>3. Answering(issued) => Answering(issued)'
    BY <2>1, SameAnswering DEF Answering, Holds, Output
  <2>4. Waiting'
    BY <2>1, <2>3 DEF ShellInv, Waiting, Apart, Closed
  <2> QED
    BY <1>0, <2>2, <2>4 DEF ShellInv
<1> QED
  BY <1>1, <1>2, <1>3, <1>4, <1>5, <1>6, <1>7, <1>8 DEF Next, Reading, Processes

LEMMA ShellInvHolds == Spec => []ShellInv
BY InitInv, ShellInvInductive, PTL DEF Spec

(* Every variable of the shell keeps its type, whatever the programs of    *)
(* killed shells print and whoever is left to read it.                     *)
THEOREM TypeCorrect == Spec => []TypeOK
<1>1. ShellInv => TypeOK
  <2> SUFFICES ASSUME ShellInv
               PROVE  TypeOK
    OBVIOUS
  <2>1. sess \in 0 .. MaxCommands
    BY ShellAssumption DEF ShellInv, Control
  <2>2. printed \in [Commands -> 0 .. 1]
    BY DEF ShellInv, Types
  <2>3. \A c \in Commands : reader[c].state \in {"none", "reading", "done", "eof"}
    BY DEF ShellInv, Types
  <2> QED
    BY <2>1, <2>2, <2>3 DEF ShellInv, Control, Types, TypeOK
<1> QED
  BY <1>1, ShellInvHolds, PTL

(* A Run that saw its marker returns the lines of its own command and no   *)
(* others, whatever programs of killed shells still print; and all of them *)
(* unless a goroutine that a time-out left behind may have taken some.     *)
THEOREM CompleteOutputHolds == Spec => []CompleteOutput
<1>1. ShellInv => CompleteOutput
  BY DEF ShellInv
<1> QED
  BY <1>1, ShellInvHolds, PTL

=============================================================================
