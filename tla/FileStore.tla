----------------------------- MODULE FileStore -----------------------------
(***************************************************************************)
(* store.File: the JSON-file backend.  Save writes path+".tmp" and renames *)
(* it onto path; f.mu serialises the Saves of one process and nothing      *)
(* serialises those of two processes that share the path, which also share *)
(* the name of the temporary file.  The file system is modelled by what    *)
(* os.WriteFile and os.Rename do to it: two directory entries that point   *)
(* to inodes, and the content of each inode.                               *)
(***************************************************************************)
EXTENDS FiniteSets

CONSTANTS
    Nodes,       \* processes with a store.File on the same path
    Snapshots,   \* marshalled snapshots
    Empty,       \* newSnapshot()
    NoSave,      \* sentinel: no Save in progress
    ReadFaults,  \* BOOLEAN: os.ReadFile may fail on an existing file
    Inodes,      \* inodes the file system can hand out
    NoInode,     \* sentinel: the directory entry does not exist
    Blank,       \* content of a file just created or truncated
    Torn         \* content that is not one complete JSON document

ASSUME StoreAssumption ==
    /\ Empty \in Snapshots
    /\ NoSave \notin Snapshots
    /\ {Blank, Torn} \cap Snapshots = {}
    /\ Blank # Torn
    /\ NoInode \notin Inodes
    /\ ReadFaults \in BOOLEAN

VARIABLES
    up,          \* up[n]: process n is running
    loaded,      \* loaded[n]: what Load returned when n booted
    path,        \* inode of the state file
    tmp,         \* inode of the temporary file
    data,        \* content of every inode
    saver,       \* saver[n]: where n is in Save
    overlap      \* history: two processes have been inside Save together

vars == <<up, loaded, path, tmp, data, saver, overlap>>

Contents == Snapshots \cup {Blank, Torn}
Idle == [pc |-> "idle", ino |-> NoInode, snap |-> NoSave]

TypeOK ==
    /\ up \in [Nodes -> BOOLEAN]
    /\ loaded \in [Nodes -> Snapshots]
    /\ path \in Inodes \cup {NoInode}
    /\ tmp \in Inodes \cup {NoInode}
    /\ data \in [Inodes -> Contents]
    /\ saver \in [Nodes -> [pc : {"opened", "written"}, ino : Inodes, snap : Snapshots]
                           \cup {Idle}]
    /\ overlap \in BOOLEAN

Saving(n) == saver[n] # Idle
InUse(i) == i \in {path, tmp} \/ \E n \in Nodes : Saving(n) /\ saver[n].ino = i

Init ==
    /\ up = [n \in Nodes |-> FALSE]
    /\ loaded = [n \in Nodes |-> Empty]
    /\ path = NoInode
    /\ tmp = NoInode
    /\ data = [i \in Inodes |-> Blank]
    /\ saver = [n \in Nodes |-> Idle]
    /\ overlap = FALSE

(* File.Load: a missing file is an empty snapshot; so is one that does not *)
(* parse, with an error that governance.New drops.                         *)
FileSnapshot ==
    IF path # NoInode /\ data[path] \in Snapshots THEN data[path] ELSE Empty

Load(n) ==
    /\ ~up[n]
    /\ up' = [up EXCEPT ![n] = TRUE]
    /\ loaded' = [loaded EXCEPT ![n] = FileSnapshot]
    /\ UNCHANGED <<path, tmp, data, saver, overlap>>

LoadFails(n) ==
    /\ ReadFaults
    /\ ~up[n]
    /\ up' = [up EXCEPT ![n] = TRUE]
    /\ loaded' = [loaded EXCEPT ![n] = Empty]
    /\ UNCHANGED <<path, tmp, data, saver, overlap>>

(* Mutant: Save writes the state file in place, without a temporary file. *)
OpenInPlace(n, s, i) ==
    /\ up[n] /\ ~Saving(n)
    /\ IF path = NoInode THEN ~InUse(i) ELSE i = path
    /\ path' = i
    /\ tmp' = i
    /\ data' = [data EXCEPT ![i] = Blank]
    /\ saver' = [saver EXCEPT ![n] = [pc |-> "opened", ino |-> i, snap |-> s]]
    /\ overlap' = (overlap \/ \E m \in Nodes \ {n} : Saving(m))
    /\ UNCHANGED <<up, loaded>>

(* Save takes f.mu, marshals, and os.WriteFile opens the temporary file    *)
(* with O_CREATE|O_TRUNC: a new inode, or the existing one emptied.        *)
OpenTmp(n, s, i) ==
    /\ up[n] /\ ~Saving(n)
    /\ IF tmp = NoInode THEN ~InUse(i) ELSE i = tmp
    /\ tmp' = i
    /\ data' = [data EXCEPT ![i] = Blank]
    /\ saver' = [saver EXCEPT ![n] = [pc |-> "opened", ino |-> i, snap |-> s]]
    /\ overlap' = (overlap \/ \E m \in Nodes \ {n} : Saving(m))
    /\ UNCHANGED <<up, loaded, path>>

(* The write goes to n's own descriptor at offset 0.  Over another         *)
(* process's longer document it leaves that document's tail in place.      *)
WriteTmp(n, c) ==
    /\ up[n] /\ saver[n].pc = "opened"
    /\ \/ c = saver[n].snap
       \/ c = Torn /\ data[saver[n].ino] \notin {Blank, saver[n].snap}
    /\ data' = [data EXCEPT ![saver[n].ino] = c]
    /\ saver' = [saver EXCEPT ![n].pc = "written"]
    /\ UNCHANGED <<up, loaded, path, tmp, overlap>>

(* Mutant: Save drops the error of os.WriteFile and goes on to the rename. *)
WriteFailsUnnoticed(n) ==
    /\ up[n] /\ saver[n].pc = "opened"
    /\ data' = [data EXCEPT ![saver[n].ino] = Torn]
    /\ saver' = [saver EXCEPT ![n].pc = "written"]
    /\ UNCHANGED <<up, loaded, path, tmp, overlap>>

(* os.WriteFile fails part way: Save returns the error. *)
WriteFails(n) ==
    /\ up[n] /\ saver[n].pc = "opened"
    /\ data' = [data EXCEPT ![saver[n].ino] = Torn]
    /\ saver' = [saver EXCEPT ![n] = Idle]
    /\ UNCHANGED <<up, loaded, path, tmp, overlap>>

(* os.Rename moves whatever inode the temporary name points to now. *)
Rename(n) ==
    /\ up[n] /\ saver[n].pc = "written"
    /\ tmp # NoInode
    /\ path' = tmp
    /\ tmp' = NoInode
    /\ saver' = [saver EXCEPT ![n] = Idle]
    /\ UNCHANGED <<up, loaded, data, overlap>>

(* The temporary name is gone (another process renamed it) or the rename   *)
(* itself fails: Save returns the error.                                   *)
RenameFails(n) ==
    /\ up[n] /\ saver[n].pc = "written"
    /\ saver' = [saver EXCEPT ![n] = Idle]
    /\ UNCHANGED <<up, loaded, path, tmp, data, overlap>>

(* The process dies, possibly inside Save: the files stay as they are. *)
Crash(n) ==
    /\ up[n]
    /\ up' = [up EXCEPT ![n] = FALSE]
    /\ saver' = [saver EXCEPT ![n] = Idle]
    /\ UNCHANGED <<loaded, path, tmp, data, overlap>>

Next ==
    \E n \in Nodes :
        \/ Load(n)
        \/ LoadFails(n)
        \/ \E s \in Snapshots, i \in Inodes : OpenTmp(n, s, i)
        \/ \E c \in Contents : WriteTmp(n, c)
        \/ WriteFails(n)
        \/ Rename(n)
        \/ RenameFails(n)
        \/ Crash(n)

Spec == Init /\ [][Next]_vars

-----------------------------------------------------------------------------
(* The register the file implements. *)
Store == INSTANCE AtomicStore WITH
    stored <- FileSnapshot,
    saving <- [n \in Nodes |-> saver[n].snap]

(* A process that saves through write-temp-and-rename behaves as the       *)
(* atomic register: whatever fails and wherever it is killed, a Load finds *)
(* the last snapshot whose rename happened (File.Save, File.Load).         *)
ImplementsAtomicStore == Store!StoreSpec

(* The same for processes that share the path, up to the step at which two *)
(* Saves first overlap: f.mu only serialises the Saves of one process.     *)
ImplementsUntilOverlap ==
    Store!StoreInit /\ [][overlap' \/ [Store!StoreNext]_(Store!storeVars)]_vars

(* Once a state file exists it holds one complete snapshot: "a crash       *)
(* mid-write can't corrupt the state file" (comment on store.File).        *)
StateFileNeverTorn == path # NoInode => data[path] \in Snapshots

(* The state file can be incomplete only after two processes were inside   *)
(* Save at once: with Saves that never overlap, failures and kills at any  *)
(* point of one, in any number of processes, leave it complete.            *)
TornOnlyByOverlap == ~overlap => StateFileNeverTorn

=============================================================================
