------------------------------ MODULE MCAgent ------------------------------
(* Instances of Agent for TLC. *)
EXTENDS Agent

OpenAI(sent) == [adapter |-> "openai", sent |-> sent]
Anthropic(sent) == [adapter |-> "anthropic", sent |-> sent]

(* Chunks of streams with text and two calls, in fragments. *)
Hello == Chunk(<<"hello">>, <<>>, "")
Begins(i, name) == Chunk(<<>>, <<Fragment(i, i + 1, name, <<>>)>>, "")
Both == Chunk(<<>>, <<Fragment(0, 0, "", <<"a">>), Fragment(1, 0, "", <<"b">>)>>, "")
Ends == Chunk(<<>>, <<>>, "tool_calls")
Chunks == {Hello, Begins(0, "write"), Begins(1, "read"), Both, Ends}

Lines(chunks) == FlattenSeq([i \in DOMAIN chunks |-> Line(chunks[i])])

Delta(text) == [type |-> "content_block_delta", text |-> text]
Stop == [type |-> "message_stop", text |-> <<>>]

(* An answer without tools, in both dialects; a write and a read whose     *)
(* fragments are interleaved; one write, broken off and asked for again by *)
(* the next target; a call that was broken off and that the next target's  *)
(* answer does not repeat; and a tool that does not exist.                 *)
SomeReplies ==
    {<<OpenAI(Lines(<<Hello>>))>>, <<Anthropic(<<Delta(<<"hello">>), Stop>>)>>,
     <<OpenAI(Lines(<<Hello, Begins(0, "write"), Begins(1, "read"), Both, Ends>>))>>,
     <<OpenAI(Lines(<<Begins(0, "write")>>) \o <<Half(Both, 1)>>), OpenAI(Lines(<<Begins(0, "write"), Ends>>))>>,
     <<OpenAI(Lines(<<Begins(0, "write")>>)), Anthropic(<<Delta(<<"hello">>), Stop>>)>>,
     <<OpenAI(Lines(<<Begins(0, "unknown"), Ends>>))>>}

-----------------------------------------------------------------------------
(* Reference: what a sequence of chunks says, index by index.              *)
Fragments(chunks) == FlattenSeq([i \in DOMAIN chunks |-> chunks[i].fragments])

LastOf(s, blank) == IF s = <<>> THEN blank ELSE Last(s)

CallOf(fs, index) ==
    LET mine == SelectSeq(fs, LAMBDA f : f.index = index)
    IN  [id |-> LastOf(SelectSeq([i \in DOMAIN mine |-> mine[i].id], LAMBDA x : x # 0), 0),
         name |-> LastOf(SelectSeq([i \in DOMAIN mine |-> mine[i].name], LAMBDA x : x # ""), ""),
         args |-> FlattenSeq([i \in DOMAIN mine |-> mine[i].args])]

Said(chunks) ==
    LET fs == Fragments(chunks)
        new == SelectSeq([i \in DOMAIN fs |-> i], LAMBDA i : \A j \in 1 .. i - 1 : fs[j].index # fs[i].index)
    IN  [text |-> FlattenSeq([i \in DOMAIN chunks |-> chunks[i].text]),
         calls |-> [i \in DOMAIN new |-> CallOf(fs, fs[new[i]].index)],
         finish |-> LastOf(SelectSeq([i \in DOMAIN chunks |-> chunks[i].finish], LAMBDA x : x # ""), "stop")]

(* The assembler makes of every stream of three chunks what the chunks     *)
(* say, wherever the bytes are divided into writes, and whatever line that *)
(* is no chunk comes with them; without its newline the last line is lost, *)
(* and the scanner of the OpenAI adapter supplies one.                     *)
ASSUME AssemblesWhatIsSaid ==
    \A chunks \in SeqOf(Chunks, 3), torn \in Chunks :
        LET bytes == Lines(chunks)
            Assembled(writes) == Response(FoldLeft(Write, Assembler, writes))
        IN  /\ \A cut \in 0 .. Len(bytes) :
                  Assembled(<<SubSeq(bytes, 1, cut), SubSeq(bytes, cut + 1, Len(bytes))>>) = Said(chunks)
            /\ Assembled(<<<<Half(torn, 2), NewLine>>, bytes>>) = Said(chunks)
            /\ chunks # <<>> =>
                  /\ Assembled(<<Front(bytes)>>) = Said(Front(chunks))
                  /\ ToolChatStream(<<OpenAI(Front(bytes))>>) = Said(chunks)
                  /\ ToolChatStream(<<OpenAI(Front(Front(bytes)))>>) = Said(Front(chunks))
=============================================================================
