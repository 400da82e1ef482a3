----------------------------- MODULE Terminal -----------------------------
(***************************************************************************)
(* What the user of frostcode sees and types: the line editor with its     *)
(* command palette, the list and the secret prompt (internal/agent/        *)
(* editor.go), and during a turn the spinner, the streamed answer and      *)
(* Ctrl-C (repl.go).  What a turn does to the conversation is in Agent.    *)
(*                                                                         *)
(* A key is one byte.  A frame is what the last render put on the screen;  *)
(* colours, borders and the text of descriptions are left out.             *)
(***************************************************************************)
EXTENDS SequencesExt, Loops

CONSTANTS
    Commands,      \* paletteCommands, as the sequence of their names
    Slash, Space,  \* the characters that open and close the palette
    Chars,         \* the characters a user types, these two included
    Field,         \* columns of the text field
    MaxRows,       \* rows of the palette
    Items,         \* number of entries of a list
    ShowReasoning, \* BOOLEAN: /think
    MaxText,       \* bound: length of the text
    MaxChunks,     \* bound: pieces a model streams in a turn
    MaxSteps       \* bound: model calls in a turn

ASSUME TerminalAssumption ==
    /\ {Slash, Space} \subseteq Chars /\ Slash # Space
    /\ Field \in Nat \ {0} /\ MaxRows \in Nat \ {0} /\ Items \in Nat \ {0}
    /\ ShowReasoning \in BOOLEAN
    /\ MaxText \in Nat /\ MaxChunks \in Nat /\ MaxSteps \in Nat \ {0}
    /\ Commands \in Seq(Seq(Chars)) /\ \A i \in DOMAIN Commands : Commands[i][1] = Slash
    /\ \A i, j \in DOMAIN Commands : Commands[i] = Commands[j] => i = j

VARIABLES
    phase,     \* who reads keys: "box", "list", "secret"; or "turn", "off", "panic"
    ed,        \* the state of that reader
    frame,     \* what it last drew
    main,      \* the turn: where the agent is
    spin,      \* REPL.spinStop: "nil", or the channel it holds is "open", "closed"
    lost,      \* spinners that run and that no field refers to
    stopping,  \* stopping[g]: where g is inside Thinking(false)
    sig,       \* the goroutine that waits for Ctrl-C
    out        \* streamed text and reasoning: received, buffered, printed

editor == <<ed, frame>>
turnVars == <<main, spin, lost, stopping, sig, out>>
vars == <<phase, editor, turnVars>>

Goroutines == {"main", "interrupter"}
Kinds == {"text", "reasoning"}
Newline == 0

NewEditor == [buf |-> <<>>, cursor |-> 0, scroll |-> 0, sel |-> 1, primed |-> FALSE, esc |-> "no"]
Nothing == [mark |-> 0, rows |-> <<>>, text |-> <<>>, col |-> 0]
Silent == [heard |-> <<>>, line |-> <<>>, printed |-> <<>>, active |-> FALSE]
NoTurn == [at |-> "none", step |-> 0, streamed |-> FALSE, cancelled |-> FALSE, chunks |-> 0]

TypeOK ==
    /\ phase \in {"box", "list", "secret", "turn", "off", "panic"}
    /\ ed.buf \in Seq(Chars) /\ ed.cursor \in 0 .. Len(ed.buf) /\ ed.scroll \in 0 .. MaxText
    /\ ed.sel \in Nat /\ ed.primed \in BOOLEAN /\ ed.esc \in {"no", "esc", "csi"}
    /\ main.at \in {"none", "think", "model", "first", "dead", "failed", "answered", "tools"}
    /\ main.step \in 0 .. MaxSteps
    /\ spin \in {"nil", "open", "closed"} /\ lost \in Nat
    /\ stopping \in [Goroutines -> {"no", "close", "late", "clear"}]
    /\ sig \in {"off", "armed", "pending", "stopping"}
    /\ DOMAIN out = Kinds

-----------------------------------------------------------------------------
(* The editor.                                                             *)

(* paletteFor and filterCommands: the commands that begin with the text,   *)
(* while it begins with a slash and has no blank.                          *)
Palette(buf) ==
    IF buf # <<>> /\ buf[1] = Slash /\ Space \notin ToSet(buf)
    THEN Collected(Commands, {i \in DOMAIN Commands : IsPrefix(buf, Commands[i])})
    ELSE <<>>

Least(a, b) == IF a < b THEN a ELSE b

(* Mutant: the cursor may leave the field by one column. *)
ScrolledLate(e) ==
    CASE e.cursor < e.scroll -> e.cursor
      [] e.cursor > e.scroll + Field -> e.cursor - Field + 1
      [] OTHER -> e.scroll

(* render keeps the cursor within the text field ... *)
Scrolled(e) ==
    CASE e.cursor < e.scroll -> e.cursor
      [] e.cursor >= e.scroll + Field -> e.cursor - Field + 1
      [] OTHER -> e.scroll

(* ... and the selection within the palette. *)
Selected(e) == IF Palette(e.buf) = <<>> THEN 1 ELSE Least(e.sel, Len(Palette(e.buf)))

Drawn(e) == [e EXCEPT !.scroll = Scrolled(e), !.sel = Selected(e)]

FrameOf(e) ==
    LET rows == SubSeq(Palette(e.buf), 1, Least(MaxRows, Len(Palette(e.buf))))
    IN  [rows |-> rows,
         mark |-> IF e.sel <= Len(rows) THEN e.sel ELSE 0,
         text |-> SubSeq(e.buf, e.scroll + 1, Least(e.scroll + Field, Len(e.buf))),
         col  |-> e.cursor - e.scroll]

Redraw(e) == ed' = Drawn(e) /\ frame' = FrameOf(Drawn(e))

Open(reader) ==
    /\ phase' = reader
    /\ ed' = NewEditor /\ frame' = IF reader = "box" THEN FrameOf(NewEditor) ELSE Nothing

Init ==
    /\ phase = "box" /\ ed = NewEditor /\ frame = FrameOf(NewEditor)
    /\ main = NoTurn /\ spin = "nil" /\ lost = 0
    /\ stopping = [g \in Goroutines |-> "no"] /\ sig = "off"
    /\ out = [k \in Kinds |-> Silent]

(* A byte that is not part of an escape sequence reaches the reader, and   *)
(* any byte but Ctrl-C takes back a first Ctrl-C.                          *)
Reads(reader) == phase = reader /\ ed.esc = "no" /\ UNCHANGED turnVars
Typed == [ed EXCEPT !.primed = FALSE]

Insert(c) ==
    /\ Reads("box") /\ c \in Chars /\ Len(ed.buf) < MaxText
    /\ Redraw([Typed EXCEPT !.buf = InsertAt(@, ed.cursor + 1, c), !.cursor = @ + 1])
    /\ UNCHANGED phase

Backspace ==
    /\ Reads("box")
    /\ Redraw(IF ed.cursor > 0
              THEN [Typed EXCEPT !.buf = RemoveAt(@, ed.cursor), !.cursor = @ - 1] ELSE Typed)
    /\ UNCHANGED phase

Tab ==
    /\ Reads("box")
    /\ LET items == Palette(ed.buf)
           text == Append(items[ed.sel], Space)
       IN  /\ items # <<>> => Len(text) <= MaxText
           /\ Redraw(IF items # <<>> THEN [Typed EXCEPT !.buf = text, !.cursor = Len(text)] ELSE Typed)
    /\ UNCHANGED phase

(* ESC makes every reader read one byte more, and "[" another: an arrow,   *)
(* Shift+Tab, or a byte that is dropped.                                   *)
Escape ==
    /\ phase \in {"box", "list", "secret"} /\ ed.esc = "no"
    /\ ed' = [Typed EXCEPT !.esc = "esc"]
    /\ UNCHANGED <<phase, frame, turnVars>>

Bracket ==
    /\ phase \in {"box", "list", "secret"} /\ ed.esc = "esc"
    /\ ed' = [ed EXCEPT !.esc = "csi"]
    /\ UNCHANGED <<phase, frame, turnVars>>

Moved(e, arrow) ==
    CASE arrow = "up"    -> IF Palette(e.buf) # <<>> /\ e.sel > 1 THEN [e EXCEPT !.sel = @ - 1] ELSE e
      [] arrow = "down"  -> IF e.sel < Len(Palette(e.buf)) THEN [e EXCEPT !.sel = @ + 1] ELSE e
      [] arrow = "right" -> IF e.cursor < Len(e.buf) THEN [e EXCEPT !.cursor = @ + 1] ELSE e
      [] arrow = "left"  -> IF e.cursor > 0 THEN [e EXCEPT !.cursor = @ - 1] ELSE e
      [] arrow = "other" -> e

Arrow(arrow) ==
    /\ phase = "box" /\ ed.esc = "csi"
    /\ Redraw(Moved([ed EXCEPT !.esc = "no"], arrow))
    /\ UNCHANGED <<phase, turnVars>>

(* Any other byte after a bare ESC is swallowed by the editor, and closes  *)
(* a list or a secret prompt.                                              *)
BareEscape ==
    /\ phase \in {"box", "list", "secret"} /\ ed.esc = "esc"
    /\ IF phase = "box" THEN Redraw([ed EXCEPT !.esc = "no"]) /\ UNCHANGED phase ELSE Open("box")
    /\ UNCHANGED turnVars

(* The turn a line starts: its input is never empty. *)
StartTurn ==
    /\ phase' = "turn" /\ ed' = NewEditor /\ frame' = Nothing
    /\ main' = [NoTurn EXCEPT !.at = "think"] /\ sig' = "armed"
    /\ out' = [k \in Kinds |-> Silent]
    /\ UNCHANGED <<spin, lost, stopping>>

(* Run: a blank line asks again, a command may open a list (/provider) or  *)
(* end the session, anything else is a turn.  (What Ctrl-C left to do in   *)
(* the turn before is done by the time the next line has been typed.)      *)
Submit(line) ==
    LET words == SelectSeq(line, LAMBDA c : c # Space)
    IN  CASE words = <<>> -> Open("box") /\ UNCHANGED turnVars
          [] words # <<>> /\ words[1] = Slash ->
                 (\/ Open("box") \/ Open("list")
                  \/ phase' = "off" /\ UNCHANGED editor) /\ UNCHANGED turnVars
          [] OTHER -> sig = "off" /\ stopping["interrupter"] = "no" /\ StartTurn

Line == IF Palette(ed.buf) # <<>> THEN Palette(ed.buf)[ed.sel] ELSE ed.buf

Enter == phase = "box" /\ ed.esc = "no" /\ Submit(Line)

CtrlC ==
    /\ Reads("box")
    /\ IF ed.buf # <<>> THEN Redraw([NewEditor EXCEPT !.scroll = ed.scroll]) /\ UNCHANGED phase
       ELSE IF ed.primed THEN phase' = "off" /\ UNCHANGED editor
       ELSE Redraw([ed EXCEPT !.primed = TRUE]) /\ UNCHANGED phase

CtrlD ==
    /\ Reads("box")
    /\ IF ed.buf = <<>> THEN phase' = "off" /\ UNCHANGED editor
       ELSE Redraw(Typed) /\ UNCHANGED phase

(* selectModal: the arrows stay within the list; Enter takes the entry     *)
(* (after which setProviderKey asks for a secret), anything that cancels   *)
(* goes back to the prompt.                                                *)
ListArrow ==
    /\ phase = "list" /\ ed.esc = "csi"
    /\ \E s \in {ed.sel, ed.sel - 1, ed.sel + 1} \cap 1 .. Items :
          ed' = [ed EXCEPT !.sel = s, !.esc = "no"]
    /\ UNCHANGED <<phase, frame, turnVars>>

ListEnter == Reads("list") /\ Open("secret")

(* secretModal: only its length shows.  A sequence of keys is swallowed.   *)
SecretKey ==
    /\ Reads("secret")
    /\ \/ \E c \in Chars : Len(ed.buf) < MaxText /\ ed' = [ed EXCEPT !.buf = Append(@, c), !.cursor = @ + 1]
       \/ ed.buf # <<>> /\ ed' = [ed EXCEPT !.buf = Front(@), !.cursor = @ - 1]
    /\ UNCHANGED <<phase, frame>>

SecretArrow ==
    /\ phase = "secret" /\ ed.esc = "csi"
    /\ ed' = [ed EXCEPT !.esc = "no"]
    /\ UNCHANGED <<phase, frame, turnVars>>

(* Enter, Ctrl-C or Ctrl-D close both. *)
Close == phase \in {"list", "secret"} /\ Reads(phase) /\ Open("box")

(* The end of input hands over what has been typed, not the selection.     *)
Eof ==
    /\ phase = "box" /\ ed.esc = "no"
    /\ IF ed.buf # <<>> THEN Submit(ed.buf) ELSE phase' = "off" /\ UNCHANGED <<editor, turnVars>>

-----------------------------------------------------------------------------
(* The spinner.  Thinking(false) reads the field, closes the channel the   *)
(* field holds and clears the field, and two goroutines may be in it.      *)

(* Thinking(true) *)
Spinning == spin' = IF spin = "nil" THEN "open" ELSE spin

(* Thinking(false), as far as the test: the channel it saw may already be  *)
(* closed ("late"), and not yet have been taken out of the field.          *)
StopSpinner(g) ==
    stopping' = [stopping EXCEPT ![g] = CASE spin = "open"   -> "close"
                                          [] spin = "closed" -> "late"
                                          [] spin = "nil"    -> "no"]

(* Whether close takes the channel from the field again or still has the   *)
(* one it tested is up to the compiler: there is no lock.  Closing a       *)
(* channel that somebody else has closed, or none, ends the process.       *)
CloseSpinner(g) ==
    /\ phase \notin {"off", "panic"} /\ stopping[g] \in {"close", "late"}
    /\ \/ /\ spin = "open" /\ spin' = "closed"
          /\ stopping' = [o \in Goroutines |->
                             CASE o = g -> "clear"
                               [] o # g /\ stopping[o] = "close" -> "late"
                               [] OTHER -> stopping[o]]
          /\ UNCHANGED phase
       \/ /\ stopping[g] = "late"
          /\ phase' = "panic" /\ UNCHANGED <<spin, stopping>>
    /\ UNCHANGED <<editor, main, lost, sig, out>>

ClearSpinner(g) ==
    /\ phase \notin {"off", "panic"} /\ stopping[g] = "clear"
    /\ spin' = "nil" /\ lost' = IF spin = "open" THEN lost + 1 ELSE lost
    /\ stopping' = [stopping EXCEPT ![g] = "no"]
    /\ UNCHANGED <<phase, editor, main, sig, out>>

-----------------------------------------------------------------------------
(* The turn.  Text is printed a line at a time; a word stands for what a   *)
(* piece holds, and the n-th word of a turn's text is n.                   *)

Flushed(o) == [o EXCEPT !.printed = @ \o o.line, !.line = <<>>, !.active = FALSE]

Buffered(o, word) ==
    LET began == IF o.active THEN o ELSE [o EXCEPT !.line = <<>>, !.active = TRUE]
    IN  IF word
        THEN [began EXCEPT !.heard = Append(@, Len(@) + 1), !.line = Append(@, Len(o.heard) + 1)]
        ELSE [began EXCEPT !.printed = @ \o began.line, !.line = <<>>]

InTurn(at) == phase = "turn" /\ main.at = at /\ stopping["main"] = "no"

(* A call under a context that is cancelled already fails at once. *)
Think ==
    /\ InTurn("think")
    /\ main' = [main EXCEPT !.at = IF main.cancelled THEN "dead" ELSE "model",
                            !.step = @ + 1, !.streamed = FALSE]
    /\ Spinning
    /\ UNCHANGED <<phase, editor, lost, stopping, sig, out>>

(* The first piece takes the spinner away before it is printed ... *)
FirstDelta ==
    /\ InTurn("model") /\ ~main.streamed /\ main.chunks < MaxChunks
    /\ main' = [main EXCEPT !.at = "first", !.streamed = TRUE]
    /\ StopSpinner("main")
    /\ UNCHANGED <<phase, editor, spin, lost, sig, out>>

(* ... and text ends the reasoning. *)
Delta(kind, word) ==
    /\ InTurn("first") \/ (InTurn("model") /\ main.streamed /\ main.chunks < MaxChunks)
    /\ kind = "reasoning" => ShowReasoning
    /\ main' = [main EXCEPT !.at = "model", !.chunks = @ + 1]
    /\ out' = [k \in Kinds |->
                  CASE k = kind -> Buffered(out[k], word)
                    [] k # kind /\ k = "reasoning" /\ out[k].active -> Flushed(out[k])
                    [] OTHER -> out[k]]
    /\ UNCHANGED <<phase, editor, spin, lost, stopping, sig>>

(* Mutant: a call that fails returns before the spinner is stopped. *)
ModelReturnsEarly(result) ==
    /\ InTurn("model") \/ (InTurn("dead") /\ result = "failed")
    /\ main' = [main EXCEPT !.at = result]
    /\ IF result = "failed" THEN UNCHANGED stopping ELSE StopSpinner("main")
    /\ UNCHANGED <<phase, editor, spin, lost, sig, out>>

ModelReturns(result) ==
    /\ InTurn("model") \/ (InTurn("dead") /\ result = "failed")
    /\ main' = [main EXCEPT !.at = result]
    /\ StopSpinner("main")
    /\ UNCHANGED <<phase, editor, spin, lost, sig, out>>

(* Mutant: a failed call leaves its last line in the buffer. *)
StreamEndUnlessFailed ==
    out' = IF main.streamed /\ main.at # "failed"
           THEN [k \in Kinds |-> IF out[k].active THEN Flushed(out[k]) ELSE out[k]] ELSE out

(* StreamEnd *)
StreamEnd ==
    out' = IF main.streamed
           THEN [k \in Kinds |-> IF out[k].active THEN Flushed(out[k]) ELSE out[k]] ELSE out

(* The batch of tool calls is done: a turn that was interrupted, or is out *)
(* of steps, goes no further.                                              *)
IsOver(at) == at = "tools" => main.cancelled \/ main.step = MaxSteps

NextStep ==
    /\ InTurn("tools") /\ ~IsOver("tools")
    /\ StreamEnd
    /\ main' = [main EXCEPT !.at = "think"]
    /\ UNCHANGED <<phase, editor, spin, lost, stopping, sig>>

(* The end of a turn also ends the wait for Ctrl-C; a signal that is       *)
(* already there may be taken all the same.                                *)
EndTurn ==
    /\ \E at \in {"failed", "answered", "tools"} : InTurn(at) /\ IsOver(at)
    /\ StreamEnd
    /\ Open("box") /\ main' = NoTurn
    /\ sig' \in CASE sig = "armed" -> {"off"} [] sig = "pending" -> {"off", "pending"}
                  [] OTHER -> {sig}
    /\ UNCHANGED <<spin, lost, stopping>>

(* Ctrl-C during a turn. *)
Signal ==
    /\ phase = "turn" /\ sig = "armed" /\ sig' = "pending"
    /\ UNCHANGED <<phase, editor, main, spin, lost, stopping, out>>

Interrupt ==
    /\ phase \notin {"off", "panic"} /\ sig = "pending"
    /\ sig' = "stopping" /\ StopSpinner("interrupter")
    /\ UNCHANGED <<phase, editor, main, spin, lost, out>>

Cancel ==
    /\ phase \notin {"off", "panic"} /\ sig = "stopping" /\ stopping["interrupter"] = "no"
    /\ sig' = "off" /\ main' = [main EXCEPT !.cancelled = phase = "turn"]
    /\ UNCHANGED <<phase, editor, spin, lost, stopping, out>>

-----------------------------------------------------------------------------
Keys ==
    \/ \E c \in Chars : Insert(c)
    \/ Backspace \/ Tab \/ Escape \/ Bracket \/ BareEscape
    \/ \E a \in {"up", "down", "left", "right", "other"} : Arrow(a)
    \/ Enter \/ CtrlC \/ CtrlD \/ Eof
    \/ ListArrow \/ ListEnter \/ SecretKey \/ SecretArrow \/ Close

Turn ==
    \/ Think \/ FirstDelta
    \/ \E k \in Kinds, word \in BOOLEAN : Delta(k, word)
    \/ \E result \in {"failed", "answered", "tools"} : ModelReturns(result)
    \/ NextStep \/ EndTurn
    \/ Signal \/ Interrupt \/ Cancel
    \/ \E g \in Goroutines : CloseSpinner(g) \/ ClearSpinner(g)

Next == Keys \/ Turn

Spec == Init /\ [][Next]_vars

-----------------------------------------------------------------------------
(* Properties.                                                             *)

(* Whatever has been typed, the cursor stands in the text field at the     *)
(* character it edits, and the entry Enter would run is the marked one, or *)
(* one below the last row: scroll, selection and text are each changed by  *)
(* different keys, and only render brings them together.                   *)
FrameIsTrue ==
    phase = "box" /\ ed.esc = "no" =>
        /\ frame.col \in 0 .. Field - 1
        /\ frame.text = SubSeq(ed.buf, ed.cursor - frame.col + 1,
                               Least(ed.cursor - frame.col + Field, Len(ed.buf)))
        /\ Palette(ed.buf) # <<>> =>
              \/ frame.mark # 0 /\ frame.rows[frame.mark] = Line
              \/ frame.mark = 0 /\ Line \in ToSet(Palette(ed.buf)) \ ToSet(frame.rows)

(* At the prompt no spinner is left drawing over the input, in whatever    *)
(* order the turn and Ctrl-C stopped it, and none can start there.         *)
SpinnerOffAtPrompt == phase \in {"box", "list", "secret", "off"} => spin # "open" /\ lost = 0

(* What a turn streamed has been printed, in order, when the prompt is     *)
(* back: also the last line without a newline, reasoning that no answer    *)
(* followed, and what came before a failure or Ctrl-C.                     *)
EverythingPrinted ==
    phase \in {"box", "list", "secret", "off"} => \A k \in Kinds : out[k].printed = out[k].heard
=============================================================================
