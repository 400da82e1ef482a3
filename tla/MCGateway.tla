----------------------------- MODULE MCGateway -----------------------------
(* Instances of Gateway for TLC. *)
EXTENDS Gateway, TLC

CONSTANTS m1, m2, m3     \* a chain of two usable targets, one target, unknown
CONSTANTS p1, p2, p3     \* p3 is named by a route and not configured
CONSTANTS ask, again, far     \* "again" is "ask" spelled differently
CONSTANTS long, digest        \* an answer of 40 bytes, its summary
CONSTANTS image, use          \* an image, a tool call or its id

Chains == (m1 :> <<p1, p3, p2>>) @@ (m2 :> <<p2>>) @@ (m3 :> <<>>)

Said == {Empty, ask, again, far, long, digest, "omitted"}
Carried == {Nothing, image, use}
Bytes == [t \in Said \cup Carried |->
             IF t = long THEN 40 ELSE IF t \in {Empty, Nothing, image} THEN 0 ELSE 4]
Collapsed == [t \in Said |-> t]
LowerCase == [t \in Said |-> IF t = again THEN ask ELSE t]
Alike == [a \in Said |-> [b \in Said |-> IF Empty \in {a, b} THEN 0 ELSE IF a = b THEN 10 ELSE 9]]

Turn(role, text) == [role |-> role, text |-> text, n |-> 0, parts |-> Nothing, calls |-> Nothing]

(* Conversations of 5, 20 and 20 tokens; the last two look the same once   *)
(* they are compressed to the same digest.                                 *)
One == <<Turn("user", far)>>
Two == <<Turn("user", ask), Turn("assistant", long), Turn("user", again)>>
Three == <<Turn("user", far), Turn("assistant", long), Turn("user", ask)>>

(* One about an image, and one that ends with a tool's result, which is    *)
(* all that compression leaves of it.                                      *)
Seen == <<[Turn("user", far) EXCEPT !.parts = image]>>
Used == <<Turn("user", ask), [Turn("assistant", Empty) EXCEPT !.calls = use],
          [Turn("tool", long) EXCEPT !.calls = use]>>

Request(kind, m, msgs) ==
    [kind |-> kind, model |-> m, msgs |-> msgs, temperature |-> Nothing, rest |-> Nothing]

Streams == {Request("stream", m, One) : m \in {m1, m3}}

SomeRequests ==
    Streams \cup {Request("complete", m1, One)}
            \cup {Request("complete", m2, c) : c \in {One, Two, Three, Seen, Used}}

(* HitAnswersRequest is only promised to such clients. *)
ASSUME NotesAreTheGateways
=============================================================================
