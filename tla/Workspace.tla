----------------------------- MODULE Workspace -----------------------------
(***************************************************************************)
(* The file tools of internal/agent (DefaultTools) on a tree of files and  *)
(* directories, and the undo stack the agent keeps of them: a tool's       *)
(* Capture records how to restore what its Run is about to change, and     *)
(* /undo runs the newest record.  Shell commands and other programs change *)
(* the same tree and leave no record.                                      *)
(*                                                                         *)
(* A file's content is a value; permissions, line endings and the texts    *)
(* the tools return are left out, as are paths the sandbox refuses (such a *)
(* call neither records nor changes anything).  Every operation that       *)
(* changes the tree may fail, os.WriteFile also half-way: it truncates the *)
(* file before it writes.  Reads succeed.                                  *)
(***************************************************************************)
EXTENDS Integers, Sequences, SequencesExt

CONSTANTS
    Paths,         \* the paths calls can name
    Root,          \* the project directory
    Parent,        \* Parent[p]: the directory p is in
    Contents,      \* what a file can hold
    Calls,         \* the tool calls the model can make
    ShellWrites,   \* what a shell command can write: records [path, content]
    MaxSteps       \* bound: calls, shell commands and undos in all

Absent == "absent"
Dir == "directory"
Cut == "cut"            \* a file that is empty, or holds a part of what it should
Nodes == Contents \cup {Absent, Dir, Cut}
Trees == [Paths -> Nodes]

Ops == {"write_file", "edit_file", "delete_file", "move_file", "make_dir"}

ASSUME WorkspaceAssumption ==
    /\ Contents \cap {Absent, Dir, Cut} = {} /\ Root \notin Paths
    /\ Parent \in [Paths -> Paths \cup {Root}]
    /\ \A c \in Calls : c.op \in Ops /\ c.path \in Paths
    /\ MaxSteps \in Nat

VARIABLES
    fs,            \* the tree
    undo,          \* Agent.undo, with the trees around the call as history
    failed,        \* history: did the last call or undo report an error?
    steps

vars == <<fs, undo, failed, steps>>

-----------------------------------------------------------------------------
(* The operating system's file operations: what each may come to.          *)
Above[p \in Paths] == IF Parent[p] = Root THEN {} ELSE {Parent[p]} \cup Above[Parent[p]]

IsFile(t, p) == t[p] \in Contents \cup {Cut}
Reachable(t, p) == \A q \in Above[p] : t[q] = Dir
IsEmpty(t, p) == \A q \in Paths : Parent[q] = p => t[q] = Absent

Ok(t) == [ok |-> TRUE, tree |-> t]
Error(t) == [ok |-> FALSE, tree |-> t]
Set(t, ps, n) == [q \in Paths |-> IF q \in ps THEN n ELSE t[q]]

(* Directories are made from the top; a failure leaves the first of them.  *)
MkdirAll(t, ps) ==
    LET First == {qs \in SUBSET ps : \A q \in qs : Above[q] \subseteq qs /\ ~IsFile(t, q)}
    IN  {Ok(Set(t, qs, Dir)) : qs \in First \cap {ps}} \cup {Error(Set(t, qs, Dir)) : qs \in First}

(* os.WriteFile: open and truncate, write, close.                          *)
WriteFile(t, p, c) ==
    IF Reachable(t, p) /\ t[p] # Dir
    THEN {Ok([t EXCEPT ![p] = c])} \cup {Error([t EXCEPT ![p] = n]) : n \in {t[p], Cut, c}}
    ELSE {Error(t)}

RemoveEntry(t, p) ==
    {Error(t)} \cup
        (IF t[p] # Absent /\ IsEmpty(t, p) THEN {Ok([t EXCEPT ![p] = Absent])} ELSE {})

(* Entries go from the bottom; a failure leaves the last of them.          *)
RemoveAll(t, p) ==
    LET all == {q \in Paths : q = p \/ p \in Above[q]}
        First == {qs \in SUBSET all : \A q \in all : Above[q] \cap qs # {} => q \in qs}
    IN  {Ok(Set(t, all, Absent))} \cup {Error(Set(t, qs, Absent)) : qs \in First}

(* The calls only rename files and empty directories. *)
Rename(t, a, b) ==
    {Error(t)} \cup
        (IF /\ t[a] # Absent /\ Reachable(t, b) /\ a \notin Above[b]
            /\ IF IsFile(t, a) THEN t[b] # Dir ELSE ~IsFile(t, b) /\ IsEmpty(t, b)
         THEN {Ok([q \in Paths |-> IF q = b THEN t[a] ELSE IF q = a THEN Absent ELSE t[q]])}
         ELSE {})

-----------------------------------------------------------------------------
(* The tools' Run functions; Then: the next operation, if the last one     *)
(* did not fail.                                                           *)
Then(made, Op(_)) == UNION {IF m.ok THEN Op(m.tree) ELSE {m} : m \in made}

WriteTool(t, c) ==
    LET Write(x) == WriteFile(x, c.path, c.content)
    IN  Then(MkdirAll(t, Above[c.path]), Write)

(* The text after the edits, as far as they can be made. *)
Edited(t, c) ==
    LET Try(x, e) == IF x.ok /\ x.body = e.old THEN [ok |-> TRUE, body |-> e.new]
                     ELSE [ok |-> FALSE, body |-> x.body]
    IN  FoldLeft(Try, [ok |-> IsFile(t, c.path), body |-> t[c.path]], c.edits)

(* Mutant: multi_edit writes the edits before the one that fails. *)
EditToolStepwise(t, c) ==
    LET r == Edited(t, c)
    IN  IF ~IsFile(t, c.path) THEN {Error(t)}
        ELSE {[ok |-> r.ok, tree |-> [t EXCEPT ![c.path] = r.body]]}

(* edit_file (one edit) and multi_edit: each edit must find its text in    *)
(* what the edits before it produced; the file is written once, at the end *)
EditTool(t, c) ==
    IF Edited(t, c).ok THEN WriteFile(t, c.path, Edited(t, c).body) ELSE {Error(t)}

DeleteTool(t, c) == RemoveEntry(t, c.path)

MoveTool(t, c) ==
    LET Move(x) == Rename(x, c.path, c.to)
    IN  Then(MkdirAll(t, Above[c.to]), Move)

MakeDirTool(t, c) == MkdirAll(t, Above[c.path] \cup {c.path})

RunTool(t, c) ==
    CASE c.op = "write_file"  -> WriteTool(t, c)
      [] c.op = "edit_file"   -> EditTool(t, c)
      [] c.op = "delete_file" -> DeleteTool(t, c)
      [] c.op = "move_file"   -> MoveTool(t, c)
      [] c.op = "make_dir"    -> MakeDirTool(t, c)

(* Mutant: a file that exists is captured as if it were new. *)
CaptureFileNew(t, p) == [how |-> "remove", path |-> p]

(* captureFile: rewrite the bytes that could be read, or remove the path. *)
CaptureFile(t, p) ==
    IF IsFile(t, p) THEN [how |-> "rewrite", path |-> p, prior |-> t[p]]
    ELSE [how |-> "remove", path |-> p]

(* The tools' Capture functions. *)
Capture(t, c) ==
    CASE c.op \in {"write_file", "edit_file", "delete_file"} -> CaptureFile(t, c.path)
      [] c.op = "move_file" -> [how |-> "rename", path |-> c.to, to |-> c.path]
      [] c.op = "make_dir"  -> [how |-> IF t[c.path] = Absent THEN "removeall" ELSE "nothing",
                                path |-> c.path]

Restore(t, e) ==
    CASE e.how = "rewrite"   -> WriteFile(t, e.path, e.prior)
      [] e.how = "remove"    -> RemoveEntry(t, e.path)
      [] e.how = "rename"    -> Rename(t, e.path, e.to)
      [] e.how = "removeall" -> RemoveAll(t, e.path)
      [] e.how = "nothing"   -> {Ok(t)}

-----------------------------------------------------------------------------
Init ==
    /\ fs \in {t \in Trees : \A p \in Paths : t[p] # Cut /\ (t[p] # Absent => Reachable(t, p))}
    /\ undo = <<>>
    /\ failed = FALSE
    /\ steps = 0

(* execToolCall once the call is allowed: capture, push, run.  The record  *)
(* is pushed before the tool runs and stays when the tool fails.           *)
Call(c) ==
    /\ steps < MaxSteps /\ steps' = steps + 1
    /\ \E r \in RunTool(fs, c) :
           /\ fs' = r.tree
           /\ undo' = Append(undo, [restore |-> Capture(fs, c), call |-> c, was |-> fs, after |-> r.tree])
           /\ failed' = ~r.ok

(* Mutant: the oldest record is run, and the newest dropped. *)
UndoOldest ==
    /\ steps < MaxSteps /\ steps' = steps + 1
    /\ undo # <<>>
    /\ \E r \in Restore(fs, undo[1].restore) : fs' = r.tree /\ failed' = ~r.ok
    /\ undo' = Front(undo)

(* Agent.Undo: the record is gone whether or not the restore succeeds. *)
Undo ==
    /\ steps < MaxSteps /\ steps' = steps + 1
    /\ undo # <<>>
    /\ \E r \in Restore(fs, Last(undo).restore) : fs' = r.tree /\ failed' = ~r.ok
    /\ undo' = Front(undo)

(* The bash tool, /git, or another program. *)
Shell(w) ==
    /\ steps < MaxSteps /\ steps' = steps + 1
    /\ \E r \in WriteFile(fs, w.path, w.content) : fs' = r.tree /\ failed' = ~r.ok
    /\ UNCHANGED undo

(* Compact and Load drop the whole stack. *)
Forget ==
    /\ undo # <<>>
    /\ undo' = <<>>
    /\ UNCHANGED <<fs, failed, steps>>

Next ==
    \/ \E c \in Calls : Call(c)
    \/ Undo \/ Forget
    \/ \E w \in ShellWrites : Shell(w)

Spec == Init /\ [][Next]_vars

-----------------------------------------------------------------------------
(* What is in the tree always hangs together: no entry without the         *)
(* directories above it, through partial failures and undos in any order;  *)
(* a call leaves one undo step at most.                                    *)
TypeOK ==
    /\ fs \in Trees
    /\ \A p \in Paths : fs[p] # Absent => Reachable(fs, p)
    /\ Len(undo) <= steps /\ failed \in BOOLEAN /\ steps \in 0 .. MaxSteps

FilesOf(t) == [p \in Paths |-> IF IsFile(t, p) THEN t[p] ELSE Absent]

Undone == Len(undo') < Len(undo) /\ steps' # steps

(* A move that happened and replaced nothing. *)
Clean(e) == e.call.op = "move_file" => e.was # e.after /\ e.was[e.call.to] = Absent

(* Undoing a call, when nothing else changed the tree since, brings every  *)
(* file back to the content it had before the call, and removes the files  *)
(* it created - also when the call had failed and left its file cut, and   *)
(* whatever was undone before it - or the undo reports an error.           *)
UndoRestoresFiles ==
    [][Undone /\ fs = Last(undo).after /\ Clean(Last(undo)) =>
          failed' \/ FilesOf(fs') = FilesOf(Last(undo).was)]_vars

(* "Apply several edits in order, atomically": a call that reports an      *)
(* error leaves each file as it was or as all of the call would leave it,  *)
(* never with some of its edits; only the file it was writing may be cut.  *)
FailedCallsMakeNoEdit ==
    [][failed' /\ Len(undo') > Len(undo) =>
          LET c == Last(undo').call
          IN  \A p \in Paths :
                  \/ FilesOf(fs')[p] = FilesOf(fs)[p]
                  \/ \E r \in RunTool(fs, c) : r.ok /\ FilesOf(fs')[p] = FilesOf(r.tree)[p]
                  \/ p = c.path /\ fs'[p] = Cut]_vars

(* Undo only ever touches what the undone call named, or what is below it: *)
(* files the user or a shell command changed elsewhere in the meantime are *)
(* safe.                                                                   *)
UndoStaysInPlace ==
    [][Undone =>
          LET c == Last(undo).call
              named == {c.path} \cup IF c.op = "move_file" THEN {c.to} ELSE {}
          IN  \A p \in Paths : fs'[p] # fs[p] => ({p} \cup Above[p]) \cap named # {}]_vars

=============================================================================
