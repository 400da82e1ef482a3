----------------------------- MODULE ToolStream -----------------------------
(***************************************************************************)
(* A model call of the agent (Gateway.ToolChatStream): the adapters relay  *)
(* what the upstreams send, and the assembler of internal/gateway/sse.go   *)
(* makes one reply of it.  When a target breaks off, the router goes on    *)
(* with the next one and the same assembler.                               *)
(*                                                                         *)
(* The bytes of a line are the two halves of a chunk and a newline; a line *)
(* of anything but the two halves of one chunk is what a data line that is *)
(* no JSON, a comment or an empty line is.  Model names, usage and         *)
(* reasoning are left out.                                                 *)
(***************************************************************************)
EXTENDS Integers, Sequences, SequencesExt

(* A chunk: words of text, fragments of tool calls, a finish reason or "". *)
Chunk(text, fragments, finish) == [text |-> text, fragments |-> fragments, finish |-> finish]

(* A fragment of the call with that index; id 0 and name "" if not in it.  *)
Fragment(index, id, name, args) == [index |-> index, id |-> id, name |-> name, args |-> args]

Half(c, i) == [half |-> i, chunk |-> c]
NewLine == [half |-> 0]
Line(c) == <<Half(c, 1), Half(c, 2), NewLine>>

-----------------------------------------------------------------------------
(* The assembler.  Its calls are in the order their indexes appeared.      *)
Assembler == [buf |-> <<>>, text |-> <<>>, calls |-> <<>>, finish |-> ""]

(* What a fragment brings: an id or a name replaces, arguments are added.  *)
Extended(call, f) ==
    [call EXCEPT !.id = IF f.id # 0 THEN f.id ELSE @,
                 !.name = IF f.name # "" THEN f.name ELSE @,
                 !.args = @ \o f.args]

Take(calls, f) ==
    IF \E call \in ToSet(calls) : call.index = f.index
    THEN [i \in DOMAIN calls |-> IF calls[i].index = f.index THEN Extended(calls[i], f) ELSE calls[i]]
    ELSE Append(calls, Extended(Fragment(f.index, 0, "", <<>>), f))

IsChunk(line) == Len(line) = 2 /\ line = <<Half(line[1].chunk, 1), Half(line[1].chunk, 2)>>

HandleLine(a, line) ==
    IF ~IsChunk(line) THEN a
    ELSE LET c == line[1].chunk
         IN  [a EXCEPT !.text = @ \o c.text,
                       !.calls = FoldLeft(Take, @, c.fragments),
                       !.finish = IF c.finish # "" THEN c.finish ELSE @]

(* Write: complete lines are handled, the rest waits for the next write. *)
Write(a, bytes) ==
    LET Feed(x, b) == IF b = NewLine THEN HandleLine([x EXCEPT !.buf = <<>>], x.buf)
                      ELSE [x EXCEPT !.buf = Append(@, b)]
    IN  FoldLeft(Feed, a, bytes)

(* Response: without a finish reason the reply counts as stopped. *)
Response(a) ==
    [text |-> a.text,
     calls |-> [i \in DOMAIN a.calls |-> [id |-> a.calls[i].id, name |-> a.calls[i].name,
                                          args |-> a.calls[i].args]],
     finish |-> IF a.finish = "" THEN "stop" ELSE a.finish]

-----------------------------------------------------------------------------
(* The adapters: from what an upstream sent, up to its end or to where it  *)
(* broke off, to what is written to the assembler.                         *)

(* OpenAI.Stream: line by line, the newline on its own; the scanner also   *)
(* delivers a last line that has none.                                     *)
RelayOpenAI(bytes) ==
    LET Scan(s, b) == IF b = NewLine THEN [done |-> s.done \o <<s.line, <<NewLine>>>>, line |-> <<>>]
                      ELSE [s EXCEPT !.line = Append(@, b)]
        s == FoldLeft(Scan, [done |-> <<>>, line |-> <<>>], bytes)
    IN  IF s.line = <<>> THEN s.done ELSE s.done \o <<s.line, <<NewLine>>>>

(* openAIChunk and writeSSE: a data line and an empty one, in one write.  *)
WriteSSE(c) == <<Append(Line(c), NewLine)>>

(* Anthropic.Stream: text deltas become chunks, the end of the message a   *)
(* finish reason; all other events - tool use among them - are dropped.    *)
RelayAnthropic(events) ==
    LET Translate(out, ev) ==
            CASE ev.type = "content_block_delta" /\ ev.text # <<>> ->
                    out \o WriteSSE(Chunk(ev.text, <<>>, ""))
              [] ev.type = "message_stop" -> out \o WriteSSE(Chunk(<<>>, <<>>, "stop"))
              [] OTHER -> out
    IN  FoldLeft(Translate, <<>>, events)

Relay(try) ==
    CASE try.adapter = "openai" -> RelayOpenAI(try.sent)
      [] try.adapter = "anthropic" -> RelayAnthropic(try.sent)

(* ToolChatStream: the tries in the order of the targets, all but the last *)
(* broken off, into one assembler.                                         *)
ToolChatStream(tries) ==
    LET writes == FlattenSeq([i \in DOMAIN tries |-> Relay(tries[i])])
    IN  Response(FoldLeft(Write, Assembler, writes))
=============================================================================
