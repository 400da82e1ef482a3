------------------------------ MODULE Compress ------------------------------
(***************************************************************************)
(* The prompt compression of internal/compress, which the gateway applies  *)
(* to every request before it looks at the cache: a function of the        *)
(* conversation and of what the summarizer answers.                        *)
(*                                                                         *)
(* A message is a role, the text that TextContent finds in its content,    *)
(* for the note the window strategy leaves the number of messages it       *)
(* stands for, what else the content holds (images), and its tool calls or *)
(* the id of the call it answers.  Content without a text (TextContent is  *)
(* not ok) and an empty text are the same to every reader of the text.     *)
(***************************************************************************)
EXTENDS Integers, Sequences, SequencesExt

CONSTANTS
    Strategy,          \* "off", "trim", "window" or "summary"
    MaxPromptTokens,   \* max_prompt_tokens
    KeepRecentTurns,   \* keep_recent_turns; configuration puts 6 for 0
    Texts,             \* what messages say
    Empty,             \* no text
    Extras,            \* what else messages and requests carry
    Nothing,           \* none of it
    Length,            \* Length[t]: bytes of a text, or of a message's tool calls
    Neat,              \* Neat[t]: t with its runs of white space collapsed
    Summaries,         \* the texts the summary model can answer
    NoSummary          \* sentinel: no summary model, an error, a blank answer

Messages == [role : {"system", "user", "assistant", "tool"}, text : Texts, n : Nat,
             parts : Extras, calls : Extras]

ASSUME CompressAssumption ==
    /\ Strategy \in {"off", "trim", "window", "summary"}
    /\ MaxPromptTokens \in Nat /\ KeepRecentTurns \in Nat \ {0}
    /\ {"omitted", Empty} \cup Summaries \subseteq Texts /\ Nothing \in Extras
    /\ Length \in [Texts \cup Extras -> Nat] /\ Length[Empty] = 0 /\ Length[Nothing] = 0
    /\ Neat \in [Texts -> Texts] /\ \A t \in Texts : Neat[Neat[t]] = Neat[t]
    /\ Empty \notin Summaries
    /\ NoSummary \notin Summaries

EstimateText(t) == (Length[t] + 3) \div 4

EstimateMessages(msgs) ==
    FoldLeft(LAMBDA sum, m : sum + 4 + EstimateText(m.text) + Length[m.calls] \div 4, 0, msgs)

(* 0 is "always compress" (README.md:76). *)
OverBudget(msgs) == MaxPromptTokens = 0 \/ EstimateMessages(msgs) > MaxPromptTokens

(* SetText replaces the whole content of a message whose text changes.     *)
Tidy(m) ==
    [m EXCEPT !.text = Neat[m.text], !.parts = IF Neat[m.text] = m.text THEN @ ELSE Nothing]

Trim(msgs) == [i \in DOMAIN msgs |-> Tidy(msgs[i])]

(* split: system messages, the older others, and the last KeepRecentTurns. *)
(* Its loop, with what it collected for either list after i messages.      *)
Split(msgs, system) ==
    LET list[i \in 0 .. Len(msgs)] ==
            IF i = 0 THEN <<>>
            ELSE IF (msgs[i].role = "system") = system THEN Append(list[i - 1], msgs[i])
            ELSE list[i - 1]
    IN  list[Len(msgs)]

System(msgs) == Split(msgs, TRUE)
Others(msgs) == Split(msgs, FALSE)
Cut(msgs) == IF KeepRecentTurns >= Len(Others(msgs)) THEN 0 ELSE Len(Others(msgs)) - KeepRecentTurns
Middle(msgs) == SubSeq(Others(msgs), 1, Cut(msgs))
Recent(msgs) == SubSeq(Others(msgs), Cut(msgs) + 1, Len(Others(msgs)))

Note(text, n) ==
    [role |-> "system", text |-> text, n |-> n, parts |-> Nothing, calls |-> Nothing]

Replaced(msgs, note) == System(msgs) \o <<note>> \o Recent(msgs)

Window(msgs) ==
    IF Middle(msgs) = <<>> THEN msgs ELSE Replaced(msgs, Note("omitted", Len(Middle(msgs))))

(* What the model makes of the middle; without it, the window. *)
Summary(msgs, summary) ==
    IF Middle(msgs) = <<>> THEN msgs
    ELSE IF summary = NoSummary THEN Window(msgs)
    ELSE Replaced(msgs, Note(summary, 0))

Apply(msgs, summary) ==
    CASE Strategy = "off" -> msgs
      [] Strategy = "trim" -> Trim(msgs)
      [] Strategy = "window" -> IF OverBudget(msgs) THEN Window(msgs) ELSE msgs
      [] Strategy = "summary" -> IF OverBudget(msgs) THEN Summary(msgs, summary) ELSE msgs
=============================================================================
