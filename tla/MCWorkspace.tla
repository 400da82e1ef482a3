---------------------------- MODULE MCWorkspace ----------------------------
(* Instances of Workspace for TLC: a directory d holding f, and a file g.  *)
EXTENDS Workspace, TLC

CONSTANTS d, f, g, x, y

InDir == (d :> Root) @@ (f :> d) @@ (g :> Root)

Write(p, c) == [op |-> "write_file", path |-> p, content |-> c]
Edit(p, es) == [op |-> "edit_file", path |-> p, edits |-> es]
Delete(p) == [op |-> "delete_file", path |-> p]
Move(p, q) == [op |-> "move_file", path |-> p, to |-> q]
MakeDir(p) == [op |-> "make_dir", path |-> p]
XtoY == [old |-> x, new |-> y]

AllCalls ==
    {Write(f, x), Write(g, y), Write(d, x), Edit(f, <<XtoY>>), Edit(g, <<XtoY, XtoY>>),
     Delete(d), Delete(f), Delete(g), Move(f, g), Move(g, f), MakeDir(d)}

SomeWrites == {[path |-> g, content |-> x]}
=============================================================================
