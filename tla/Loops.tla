------------------------------- MODULE Loops -------------------------------
(* A loop over a sequence that appends some of its elements to a new one:  *)
(* how Agent.Compact splits the conversation, execToolCalls its batch, and *)
(* how filterCommands makes the palette.                                   *)
EXTENDS Integers, Sequences

(* The elements of s at the indexes K. *)
Collected(s, K) ==
    LET list[i \in 0 .. Len(s)] ==
            IF i = 0 THEN <<>>
            ELSE IF i \in K THEN Append(list[i - 1], s[i])
            ELSE list[i - 1]
    IN  list[Len(s)]
=============================================================================
