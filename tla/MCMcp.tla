------------------------------- MODULE MCMcp -------------------------------
(* Instances of Mcp for TLC: two servers that can claim the same tool. *)
EXTENDS Mcp, TLC

CONSTANTS s1, s2, t1, t2

InOrder == <<s1, s2>>

=============================================================================
