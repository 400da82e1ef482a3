--------------------------- MODULE MCTerminal ---------------------------
(* Three commands, one a prefix of another: more than the palette has rows *)
EXTENDS Terminal

MCCommands == << <<"/", "a">>, <<"/", "a", "b">>, <<"/", "b">> >>
=============================================================================
