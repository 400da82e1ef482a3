------------------------------ MODULE Update ------------------------------
(***************************************************************************)
(* frostcode's /update (selfUpdate in internal/agent/repl.go over          *)
(* internal/update): terminals that run the same executable file and       *)
(* replace it with a downloaded release.  Every system call of ReplaceExe  *)
(* is a step that can fail or be the last before the process is killed.    *)
(* The directory is three names - the executable, exe.new and, on Windows, *)
(* exe.old - that point to inodes; all terminals use the same names.       *)
(*                                                                         *)
(* On Windows an image that is running cannot be removed or replaced, and  *)
(* a file that is open for writing cannot be renamed.  Releases are        *)
(* numbers in the order of their tags; what a download writes before it    *)
(* fails, and what two downloads into one file leave, is Torn.             *)
(***************************************************************************)
EXTENDS Naturals

CONSTANTS
    Terminals,   \* frostcode processes started from the one executable
    Inodes,      \* inodes the file system can hand out
    NoInode,     \* sentinel: the name does not exist
    Torn,        \* sentinel: content that is not one complete binary
    MaxRelease   \* bound: releases published

Releases == 1 .. MaxRelease

ASSUME UpdateAssumption ==
    /\ MaxRelease \in Nat \ {0}
    /\ NoInode \notin Inodes /\ Torn \notin Nat

VARIABLES
    windows,     \* runtime.GOOS == "windows"; never changes
    released,    \* the latest release on GitHub
    dir,         \* dir[name]: the inode it points to
    data,        \* data[i]: the release whose binary inode i holds, or Torn
    t,           \* t[p]: what terminal p is doing
    spoilt       \* history: were two downloads in exe.new together, or an error of Close dropped?

vars == <<windows, released, dir, data, t, spoilt>>

Names == {"exe", "new", "old"}
Off == [pc |-> "off", img |-> NoInode, rel |-> 0, fd |-> NoInode, base |-> 0]

Replacing == {"copy", "copied", "cleared", "rename"}
Running == {"prompt", "ask", "restart"} \cup Replacing

TypeOK ==
    /\ windows \in BOOLEAN /\ spoilt \in BOOLEAN
    /\ released \in Releases
    /\ dir \in [Names -> Inodes \cup {NoInode}]
    /\ data \in [Inodes -> Releases \cup {Torn}]
    /\ t \in [Terminals -> [pc : Running, img : Inodes, rel : Releases \cup {0},
                            fd : Inodes \cup {NoInode}, base : Releases \cup {0, Torn}] \cup {Off}]

Init ==
    /\ windows \in BOOLEAN
    /\ released = 1
    /\ \E i \in Inodes : dir = [n \in Names |-> IF n = "exe" THEN i ELSE NoInode]
    /\ data = [i \in Inodes |-> IF i = dir["exe"] THEN 1 ELSE Torn]
    /\ t = [p \in Terminals |-> Off]
    /\ spoilt = FALSE

Linked(i) == \E n \in Names : dir[n] = i
IsImage(i) == \E p \in Terminals : t[p].img = i
Open(i) == \E p \in Terminals : t[p].fd = i
Free(i) == ~Linked(i) /\ ~IsImage(i) /\ ~Open(i)

Complete(name) == dir[name] # NoInode /\ data[dir[name]] # Torn

(* The binary a user finds: the executable or, when Windows has lost it,   *)
(* the copy beside it.                                                     *)
Installed ==
    IF dir["exe"] # NoInode THEN data[dir["exe"]]
    ELSE IF windows /\ dir["old"] # NoInode THEN data[dir["old"]] ELSE Torn

(* What the name of the executable stands for. *)
Executable == IF dir["exe"] # NoInode THEN data[dir["exe"]] ELSE NoInode

(* The release p runs: version.Version of its image. *)
Version(p) == data[t[p].img]

(* os.Rename: what the target pointed to before is gone. *)
Renamed(from, to) == [dir EXCEPT ![to] = dir[from], ![from] = NoInode]
Removed(name) == [dir EXCEPT ![name] = NoInode]

Step(p, rec) == t' = [t EXCEPT ![p] = rec]
AtPrompt(p) == [t[p] EXCEPT !.pc = "prompt", !.rel = 0, !.fd = NoInode, !.base = 0]

-----------------------------------------------------------------------------
Publish ==
    /\ released < MaxRelease
    /\ released' = released + 1
    /\ UNCHANGED <<windows, dir, data, t, spoilt>>

(* A user starts frostcode, or runs it again: what is started is whatever  *)
(* the name points to, unless somebody is still writing it.                *)
CanRun == Complete("exe") /\ ~Open(dir["exe"])

Launch(p) ==
    /\ t[p].pc = "off" /\ CanRun
    /\ Step(p, [Off EXCEPT !.pc = "prompt", !.img = dir["exe"]])
    /\ UNCHANGED <<windows, released, dir, data, spoilt>>

Exit(p) ==
    /\ t[p].pc # "off"
    /\ Step(p, Off)
    /\ UNCHANGED <<windows, released, dir, data, spoilt>>

IsNewer(current, release) == release > current

(* Mutant: the next release after p's own is offered, not the latest.      *)
CheckNext(p) ==
    /\ t[p].pc = "prompt" /\ IsNewer(Version(p), released)
    /\ Step(p, [t[p] EXCEPT !.pc = "ask", !.rel = Version(p) + 1, !.base = Installed])
    /\ UNCHANGED <<windows, released, dir, data, spoilt>>

(* /update asks GitHub, compares with the running version and asks the     *)
(* user, who may take any time to answer.  (base is history: what was      *)
(* installed then.)                                                        *)
Check(p) ==
    /\ t[p].pc = "prompt" /\ IsNewer(Version(p), released)
    /\ Step(p, [t[p] EXCEPT !.pc = "ask", !.rel = released, !.base = Installed])
    /\ UNCHANGED <<windows, released, dir, data, spoilt>>

(* The user declines, there is no asset, or the download does not begin.   *)
GiveUp(p) ==
    /\ t[p].pc = "ask"
    /\ Step(p, AtPrompt(p))
    /\ UNCHANGED <<windows, released, dir, data, spoilt>>

-----------------------------------------------------------------------------
(* ReplaceExe: os.OpenFile with O_CREATE|O_TRUNC - a new inode, or the one *)
(* exe.new already points to, emptied.                                     *)
OpenNew(p, i) ==
    /\ t[p].pc = "ask"
    /\ IF dir["new"] = NoInode THEN Free(i) ELSE i = dir["new"]
    /\ dir' = [dir EXCEPT !["new"] = i]
    /\ data' = [data EXCEPT ![i] = Torn]
    /\ spoilt' = (spoilt \/ \E q \in Terminals \ {p} : t[q].pc \in Replacing)
    /\ Step(p, [t[p] EXCEPT !.pc = "copy", !.fd = i])
    /\ UNCHANGED <<windows, released>>

(* io.Copy and Close.  Close's error is dropped, so that the file may be   *)
(* incomplete; one that another terminal has truncated or written in the   *)
(* meantime need not hold either download.                                 *)
Copied(p, content) ==
    /\ t[p].pc = "copy"
    /\ content \in {t[p].rel, Torn}
    /\ data' = [data EXCEPT ![t[p].fd] = content]
    /\ spoilt' = (spoilt \/ content = Torn)
    /\ Step(p, [t[p] EXCEPT !.pc = IF windows THEN "copied" ELSE "rename", !.fd = NoInode])
    /\ UNCHANGED <<windows, released, dir>>

(* Mutant: the error of io.Copy is dropped. *)
CopyFailsUnnoticed(p) ==
    /\ t[p].pc = "copy"
    /\ data' = [data EXCEPT ![t[p].fd] = Torn]
    /\ Step(p, [t[p] EXCEPT !.pc = IF windows THEN "copied" ELSE "rename", !.fd = NoInode])
    /\ UNCHANGED <<windows, released, dir, spoilt>>

(* os.Remove(tmp), whose error is ignored. *)
NewRemoved == dir' \in {dir, Removed("new")}

(* The download breaks off or the disk is full.                            *)
CopyFails(p) ==
    /\ t[p].pc = "copy"
    /\ data' = [data EXCEPT ![t[p].fd] = Torn]
    /\ NewRemoved
    /\ Step(p, AtPrompt(p))
    /\ UNCHANGED <<windows, released, spoilt>>

(* Windows: exe.old of an earlier update goes, if it can; an error is      *)
(* ignored.                                                                *)
ClearOld(p) ==
    /\ t[p].pc = "copied"
    /\ \/ dir["old"] # NoInode /\ ~IsImage(dir["old"]) /\ dir' = Removed("old")
       \/ UNCHANGED dir
    /\ Step(p, [t[p] EXCEPT !.pc = "cleared"])
    /\ UNCHANGED <<windows, released, data, spoilt>>

BackUp(p) ==
    /\ t[p].pc = "cleared"
    /\ dir["exe"] # NoInode /\ ~(dir["old"] # NoInode /\ IsImage(dir["old"]))
    /\ dir' = Renamed("exe", "old")
    /\ Step(p, [t[p] EXCEPT !.pc = "rename"])
    /\ UNCHANGED <<windows, released, data, spoilt>>

(* Mutant: the fallback copy is cleaned up when the rename fails. *)
RenameFailsCleansUp(p) ==
    /\ t[p].pc \in {"cleared", "rename"}
    /\ dir' = [dir EXCEPT !["new"] = NoInode, !["old"] = NoInode]
    /\ Step(p, AtPrompt(p))
    /\ UNCHANGED <<windows, released, data, spoilt>>

(* Either rename fails.  After the second one on Windows the old binary    *)
(* stays where the first one put it.                                       *)
RenameFails(p) ==
    /\ t[p].pc \in {"cleared", "rename"}
    /\ NewRemoved
    /\ Step(p, AtPrompt(p))
    /\ UNCHANGED <<windows, released, data, spoilt>>

Rename(p) ==
    /\ t[p].pc = "rename"
    /\ dir["new"] # NoInode
    /\ windows => ~Open(dir["new"]) /\ ~(dir["exe"] # NoInode /\ IsImage(dir["exe"]))
    /\ dir' = Renamed("new", "exe")
    /\ Step(p, [t[p] EXCEPT !.pc = "restart"])
    /\ UNCHANGED <<windows, released, data, spoilt>>

(* The new binary is started in p's place, or cannot be started. *)
Restart(p) ==
    /\ t[p].pc = "restart" /\ CanRun
    /\ Step(p, [Off EXCEPT !.pc = "prompt", !.img = dir["exe"]])
    /\ UNCHANGED <<windows, released, dir, data, spoilt>>

RestartFails(p) ==
    /\ t[p].pc = "restart"
    /\ Step(p, AtPrompt(p))
    /\ UNCHANGED <<windows, released, dir, data, spoilt>>

Next ==
    \/ Publish
    \/ \E p \in Terminals : Launch(p) \/ Exit(p) \/ Check(p) \/ GiveUp(p)
    \/ \E p \in Terminals, i \in Inodes : OpenNew(p, i)
    \/ \E p \in Terminals, c \in Releases \cup {Torn} : Copied(p, c)
    \/ \E p \in Terminals : CopyFails(p) \/ ClearOld(p) \/ BackUp(p) \/ Rename(p) \/ RenameFails(p)
    \/ \E p \in Terminals : Restart(p) \/ RestartFails(p)

Spec == Init /\ [][Next]_vars

-----------------------------------------------------------------------------
(* Whatever fails, and wherever a terminal is killed, a complete binary    *)
(* remains: under its own name on Unix, there or as exe.old on Windows.    *)
(* On Unix two downloads at once can break this, for they share exe.new,   *)
(* and so can the error of Close that is dropped; Windows keeps the image  *)
(* of whoever runs.                                                        *)
BinaryNeverLost ==
    /\ ~windows /\ ~spoilt => Complete("exe")
    /\ windows => Complete("exe") \/ Complete("old")

(* "atomically replaces the running binary", on Unix: what the name of the *)
(* executable stands for changes in one step, to the release agreed to,    *)
(* unless a download was spoilt.  On Windows the name is missing between   *)
(* two renames, or for good when the second does not come: there nothing   *)
(* is replaced atomically, and BinaryNeverLost is all that holds.          *)
InstallsAtomically ==
    [][~windows /\ Executable' # Executable =>
          spoilt' \/ \E p \in Terminals : t[p].pc = "rename" /\ t[p].rel = Executable']_vars

(* An update never replaces a newer binary by an older one, unless another *)
(* terminal has installed it while the user was asked.                     *)
DowngradeOnlyByStaleCheck ==
    [][Installed' \in Nat /\ Installed \in Nat /\ Installed' < Installed =>
          spoilt' \/ \E p \in Terminals : t[p].pc = "rename" /\ t[p].base # Installed]_vars

=============================================================================
