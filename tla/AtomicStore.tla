---------------------------- MODULE AtomicStore ----------------------------
(***************************************************************************)
(* What internal/store promises its only client, the governor: a register  *)
(* holding one complete Snapshot.  Load returns the snapshot of the last   *)
(* Save that took effect; a Save takes effect in one step or, when it      *)
(* fails or its process dies, not at all.                                  *)
(***************************************************************************)
CONSTANTS
    Nodes,       \* gateway processes opened on the store
    Snapshots,   \* the snapshots that can be saved
    Empty,       \* newSnapshot(): no identity has spent anything
    NoSave,      \* sentinel: no Save in progress
    ReadFaults   \* BOOLEAN: Load may fail with an I/O error

VARIABLES
    up,          \* up[n]: process n is running
    stored,      \* the register
    saving,      \* saving[n]: argument of the Save n is executing, or NoSave
    loaded       \* loaded[n]: what n's Load returned when n booted

storeVars == <<up, stored, saving, loaded>>

StoreTypeOK ==
    /\ up \in [Nodes -> BOOLEAN]
    /\ stored \in Snapshots
    /\ saving \in [Nodes -> Snapshots \cup {NoSave}]
    /\ loaded \in [Nodes -> Snapshots]

StoreInit ==
    /\ up = [n \in Nodes |-> FALSE]
    /\ stored = Empty
    /\ saving = [n \in Nodes |-> NoSave]
    /\ loaded = [n \in Nodes |-> Empty]

(* Load is called once per process, when it builds its governor. *)
Boot(n) ==
    /\ ~up[n]
    /\ up' = [up EXCEPT ![n] = TRUE]
    /\ loaded' = [loaded EXCEPT ![n] = stored]
    /\ UNCHANGED <<stored, saving>>

(* Load fails: it returns an empty snapshot and an error. *)
BootUnreadable(n) ==
    /\ ReadFaults
    /\ ~up[n]
    /\ up' = [up EXCEPT ![n] = TRUE]
    /\ loaded' = [loaded EXCEPT ![n] = Empty]
    /\ UNCHANGED <<stored, saving>>

BeginSave(n, s) ==
    /\ up[n]
    /\ saving[n] = NoSave
    /\ saving' = [saving EXCEPT ![n] = s]
    /\ UNCHANGED <<up, stored, loaded>>

CommitSave(n) ==
    /\ up[n]
    /\ saving[n] # NoSave
    /\ stored' = saving[n]
    /\ saving' = [saving EXCEPT ![n] = NoSave]
    /\ UNCHANGED <<up, loaded>>

FailSave(n) ==
    /\ up[n]
    /\ saving[n] # NoSave
    /\ saving' = [saving EXCEPT ![n] = NoSave]
    /\ UNCHANGED <<up, stored, loaded>>

Crash(n) ==
    /\ up[n]
    /\ up' = [up EXCEPT ![n] = FALSE]
    /\ saving' = [saving EXCEPT ![n] = NoSave]
    /\ UNCHANGED <<stored, loaded>>

StoreNext ==
    \E n \in Nodes :
        \/ Boot(n)
        \/ BootUnreadable(n)
        \/ \E s \in Snapshots : BeginSave(n, s)
        \/ CommitSave(n)
        \/ FailSave(n)
        \/ Crash(n)

StoreSpec == StoreInit /\ [][StoreNext]_storeVars

=============================================================================
