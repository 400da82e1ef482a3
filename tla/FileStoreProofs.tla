-------------------------- MODULE FileStoreProofs --------------------------
(***************************************************************************)
(* For any number of processes, inodes and snapshots: as long as no two    *)
(* processes have been inside Save together, the state file is complete    *)
(* and the file implements the atomic register.                            *)
(***************************************************************************)
EXTENDS FileStore, TLAPS

(* What an undisturbed Save relies on: it is alone, the temporary name     *)
(* still points to the inode it opened, that inode is not the state file,  *)
(* and holds what the Save has put there so far.                           *)
SaveUndisturbed ==
    /\ \A m, n \in Nodes : Saving(m) /\ Saving(n) => m = n
    /\ path # NoInode => path # tmp
    /\ \A n \in Nodes : Saving(n) =>
          /\ saver[n].ino = tmp
          /\ saver[n].pc = "opened" => data[tmp] = Blank
          /\ saver[n].pc = "written" => data[tmp] = saver[n].snap

FileInv == TypeOK /\ (~overlap => SaveUndisturbed /\ StateFileNeverTorn)

LEMMA SavingRecord ==
    ASSUME TypeOK, NEW n \in Nodes
    PROVE  /\ saver[n].pc \in {"opened", "written"} => Saving(n)
           /\ Saving(n) => /\ saver[n].pc \in {"opened", "written"}
                           /\ saver[n].ino \in Inodes
                           /\ saver[n].snap \in Snapshots
           /\ ~Saving(n) => saver[n] = Idle
  BY DEF TypeOK, Saving, Idle

(* The state keeps its type under every step of Save, Load and a crash. *)
THEOREM TypeCorrect == Spec => []TypeOK
<1> USE StoreAssumption DEF Contents
<1>1. Init => TypeOK
  BY DEF Init, TypeOK
<1>2. ASSUME TypeOK, [Next]_vars PROVE TypeOK'
  <2>1. ASSUME NEW n \in Nodes, Load(n) PROVE TypeOK'
    BY <1>2, <2>1 DEF Load, FileSnapshot, TypeOK
  <2>2. ASSUME NEW n \in Nodes, LoadFails(n) PROVE TypeOK'
    BY <1>2, <2>2 DEF LoadFails, TypeOK
  <2>3. ASSUME NEW n \in Nodes, NEW s \in Snapshots, NEW i \in Inodes, OpenTmp(n, s, i)
        PROVE  TypeOK'
    BY <1>2, <2>3 DEF OpenTmp, TypeOK
  <2>4. ASSUME NEW n \in Nodes, NEW c \in Contents, WriteTmp(n, c) PROVE TypeOK'
    <3>1. /\ saver[n].ino \in Inodes
          /\ saver[n] \in [pc : {"opened", "written"}, ino : Inodes, snap : Snapshots]
      BY <1>2, <2>4, SavingRecord DEF WriteTmp, Saving, TypeOK
    <3>2. [saver[n] EXCEPT !.pc = "written"] \in
              [pc : {"opened", "written"}, ino : Inodes, snap : Snapshots]
      BY <3>1
    <3> QED
      BY <1>2, <2>4, <3>1, <3>2 DEF WriteTmp, TypeOK
  <2>5. ASSUME NEW n \in Nodes, WriteFails(n) PROVE TypeOK'
    BY <1>2, <2>5, SavingRecord DEF WriteFails, TypeOK
  <2>6. ASSUME NEW n \in Nodes, Rename(n) PROVE TypeOK'
    BY <1>2, <2>6 DEF Rename, TypeOK
  <2>7. ASSUME NEW n \in Nodes, RenameFails(n) PROVE TypeOK'
    BY <1>2, <2>7 DEF RenameFails, TypeOK
  <2>8. ASSUME NEW n \in Nodes, Crash(n) PROVE TypeOK'
    BY <1>2, <2>8 DEF Crash, TypeOK
  <2>9. CASE UNCHANGED vars
    BY <1>2, <2>9 DEF vars, TypeOK
  <2> QED
    BY <1>2, <2>1, <2>2, <2>3, <2>4, <2>5, <2>6, <2>7, <2>8, <2>9 DEF Next
<1> QED
  BY <1>1, <1>2, PTL DEF Spec

LEMMA FileInvStep ==
    ASSUME FileInv, TypeOK', [Next]_vars
    PROVE  FileInv'
<1> USE StoreAssumption DEF Contents
<1> SUFFICES ASSUME ~overlap' PROVE (SaveUndisturbed /\ StateFileNeverTorn)'
  BY DEF FileInv
<1>1. ~overlap
  BY DEF FileInv, TypeOK, Next, vars, Load, LoadFails, OpenTmp, WriteTmp, WriteFails,
         Rename, RenameFails, Crash
<1>2. TypeOK /\ SaveUndisturbed /\ StateFileNeverTorn
  BY <1>1 DEF FileInv
<1>3. ASSUME NEW n \in Nodes, Load(n) \/ LoadFails(n)
      PROVE  (SaveUndisturbed /\ StateFileNeverTorn)'
  BY <1>2, <1>3 DEF Load, LoadFails, SaveUndisturbed, StateFileNeverTorn, Saving
<1>4. ASSUME NEW n \in Nodes, NEW s \in Snapshots, NEW i \in Inodes, OpenTmp(n, s, i)
      PROVE  (SaveUndisturbed /\ StateFileNeverTorn)'
  <2>1. \A m \in Nodes \ {n} : ~Saving(m) /\ ~Saving(m)'
    BY <1>2, <1>4 DEF OpenTmp, Saving, TypeOK
  <2>2. i # path /\ tmp' = i /\ path' = path
    BY <1>2, <1>4 DEF OpenTmp, InUse, SaveUndisturbed, TypeOK
  <2>3. /\ saver'[n] = [pc |-> "opened", ino |-> i, snap |-> s]
        /\ data'[i] = Blank
        /\ path # NoInode => data'[path] = data[path]
    BY <1>2, <1>4, <2>2 DEF OpenTmp, TypeOK
  <2>4. SaveUndisturbed'
    BY <2>1, <2>2, <2>3 DEF SaveUndisturbed, Saving
  <2> QED
    BY <1>2, <2>2, <2>3, <2>4 DEF StateFileNeverTorn
<1>5. ASSUME NEW n \in Nodes, NEW c \in Contents, WriteTmp(n, c)
      PROVE  (SaveUndisturbed /\ StateFileNeverTorn)'
  <2>1. Saving(n) /\ saver[n].ino = tmp /\ tmp \in Inodes /\ path # tmp
    BY <1>2, <1>5, SavingRecord DEF WriteTmp, SaveUndisturbed
  <2>2. c = saver[n].snap
    BY <1>2, <1>5, <2>1 DEF WriteTmp, SaveUndisturbed
  <2>3. /\ saver'[n] = [saver[n] EXCEPT !.pc = "written"]
        /\ \A m \in Nodes \ {n} : saver'[m] = saver[m]
        /\ data'[tmp] = c
        /\ path # NoInode => data'[path] = data[path]
    BY <1>2, <1>5, <2>1 DEF WriteTmp, TypeOK
  <2>4. /\ saver'[n].ino = tmp
        /\ saver'[n].pc = "written"
        /\ saver'[n].snap = c
    BY <1>2, <2>1, <2>2, <2>3, SavingRecord DEF TypeOK, Saving, Idle
  <2>5. \A m \in Nodes \ {n} : ~Saving(m)'
    BY <1>2, <2>1, <2>3 DEF SaveUndisturbed, Saving
  <2>6. tmp' = tmp /\ path' = path
    BY <1>5 DEF WriteTmp
  <2>7. SaveUndisturbed'
    BY <2>1, <2>3, <2>4, <2>5, <2>6 DEF SaveUndisturbed
  <2> QED
    BY <1>2, <2>3, <2>6, <2>7 DEF StateFileNeverTorn
<1>6. ASSUME NEW n \in Nodes, WriteFails(n)
      PROVE  (SaveUndisturbed /\ StateFileNeverTorn)'
  <2>1. Saving(n) /\ saver[n].ino = tmp /\ path # tmp
    BY <1>2, <1>6, SavingRecord DEF WriteFails, SaveUndisturbed
  <2>2. \A m \in Nodes : ~Saving(m)'
    BY <1>2, <1>6, <2>1 DEF WriteFails, SaveUndisturbed, Saving, TypeOK
  <2> QED
    BY <1>2, <1>6, <2>1, <2>2 DEF WriteFails, SaveUndisturbed, StateFileNeverTorn, TypeOK
<1>7. ASSUME NEW n \in Nodes, Rename(n)
      PROVE  (SaveUndisturbed /\ StateFileNeverTorn)'
  <2>1. Saving(n) /\ data[tmp] = saver[n].snap /\ saver[n].snap \in Snapshots
    BY <1>2, <1>7, SavingRecord DEF Rename, SaveUndisturbed
  <2>2. \A m \in Nodes : ~Saving(m)'
    BY <1>2, <1>7, <2>1 DEF Rename, SaveUndisturbed, Saving, TypeOK
  <2> QED
    BY <1>7, <2>1, <2>2 DEF Rename, SaveUndisturbed, StateFileNeverTorn
<1>8. ASSUME NEW n \in Nodes, RenameFails(n) \/ Crash(n)
      PROVE  (SaveUndisturbed /\ StateFileNeverTorn)'
  <2>1. \A m \in Nodes : Saving(m)' => Saving(m) /\ saver'[m] = saver[m]
    BY <1>2, <1>8 DEF RenameFails, Crash, Saving, TypeOK
  <2> QED
    BY <1>2, <1>8, <2>1 DEF RenameFails, Crash, SaveUndisturbed, StateFileNeverTorn
<1>9. CASE UNCHANGED vars
  BY <1>2, <1>9 DEF vars, SaveUndisturbed, StateFileNeverTorn, Saving
<1> QED
  BY <1>3, <1>4, <1>5, <1>6, <1>7, <1>8, <1>9 DEF Next

LEMMA FileInvariant == Spec => []FileInv
<1>1. Init => FileInv
  BY StoreAssumption DEF Init, FileInv, TypeOK, Contents, SaveUndisturbed, StateFileNeverTorn,
     Saving, Idle
<1>2. FileInv /\ TypeOK' /\ [Next]_vars => FileInv'
  BY FileInvStep
<1> QED
  BY <1>1, <1>2, TypeCorrect, PTL DEF Spec

(* For any processes sharing a path: only overlapping Saves can leave the  *)
(* state file incomplete (File.Save: temporary file, then rename).         *)
THEOREM TornOnlyByOverlapHolds == Spec => []TornOnlyByOverlap
<1>1. FileInv => TornOnlyByOverlap
  BY DEF FileInv, TornOnlyByOverlap
<1> QED
  BY <1>1, FileInvariant, PTL

LEMMA StepImplementsRegister ==
    ASSUME FileInv, FileInv', ~overlap, ~overlap', [Next]_vars
    PROVE  [Store!StoreNext]_(Store!storeVars)
<1> USE StoreAssumption
<1> DEFINE savingBar == [n \in Nodes |-> saver[n].snap]
<1>1. TypeOK /\ SaveUndisturbed /\ StateFileNeverTorn
  BY DEF FileInv
<1>2. ASSUME NEW n \in Nodes, Load(n) PROVE Store!Boot(n)
  BY <1>2 DEF Load, Store!Boot, FileSnapshot
<1>3. ASSUME NEW n \in Nodes, LoadFails(n) PROVE Store!BootUnreadable(n)
  BY <1>3 DEF LoadFails, Store!BootUnreadable, FileSnapshot
<1>4. ASSUME NEW n \in Nodes, NEW s \in Snapshots, NEW i \in Inodes, OpenTmp(n, s, i)
      PROVE  Store!BeginSave(n, s)
  <2>1. i # path
    BY <1>1, <1>4 DEF OpenTmp, InUse, SaveUndisturbed
  <2>2. FileSnapshot' = FileSnapshot
    BY <1>1, <1>4, <2>1 DEF OpenTmp, FileSnapshot, TypeOK
  <2>3. savingBar[n] = NoSave
    BY <1>4 DEF OpenTmp, Saving, Idle
  <2>4. savingBar' = [savingBar EXCEPT ![n] = s]
    BY <1>1, <1>4 DEF OpenTmp, TypeOK
  <2> QED
    BY <1>4, <2>2, <2>3, <2>4 DEF OpenTmp, Store!BeginSave
<1>5. ASSUME NEW n \in Nodes, NEW c \in Contents, WriteTmp(n, c)
      PROVE  UNCHANGED Store!storeVars
  <2>1. saver[n].ino # path
    BY <1>1, <1>5, SavingRecord DEF WriteTmp, SaveUndisturbed
  <2>2. FileSnapshot' = FileSnapshot
    BY <1>1, <1>5, <2>1 DEF WriteTmp, FileSnapshot, TypeOK
  <2>3. saver' = [saver EXCEPT ![n] = [saver[n] EXCEPT !.pc = "written"]]
    BY <1>5 DEF WriteTmp
  <2>4. \A m \in Nodes : saver'[m].snap = saver[m].snap
    BY <1>1, <1>5, <2>3, SavingRecord DEF WriteTmp, TypeOK, Saving, Idle
  <2> QED
    BY <1>5, <2>2, <2>4 DEF WriteTmp, Store!storeVars
<1>6. ASSUME NEW n \in Nodes, WriteFails(n) PROVE Store!FailSave(n)
  <2>1. saver[n].ino # path /\ saver[n].snap \in Snapshots
    BY <1>1, <1>6, SavingRecord DEF WriteFails, SaveUndisturbed
  <2>2. FileSnapshot' = FileSnapshot
    BY <1>1, <1>6, <2>1 DEF WriteFails, FileSnapshot, TypeOK
  <2>3. savingBar' = [savingBar EXCEPT ![n] = NoSave] /\ savingBar[n] # NoSave
    BY <1>1, <1>6, <2>1 DEF WriteFails, TypeOK, Idle
  <2> QED
    BY <1>6, <2>2, <2>3 DEF WriteFails, Store!FailSave
<1>7. ASSUME NEW n \in Nodes, Rename(n) PROVE Store!CommitSave(n)
  <2>1. data[tmp] = saver[n].snap /\ saver[n].snap \in Snapshots
    BY <1>1, <1>7, SavingRecord DEF Rename, SaveUndisturbed
  <2>2. FileSnapshot' = savingBar[n]
    BY <1>7, <2>1 DEF Rename, FileSnapshot
  <2>3. savingBar' = [savingBar EXCEPT ![n] = NoSave] /\ savingBar[n] # NoSave
    BY <1>1, <1>7, <2>1 DEF Rename, TypeOK, Idle
  <2> QED
    BY <1>7, <2>2, <2>3 DEF Rename, Store!CommitSave
<1>8. ASSUME NEW n \in Nodes, RenameFails(n) PROVE Store!FailSave(n)
  <2>1. saver[n].snap \in Snapshots
    BY <1>1, <1>8, SavingRecord DEF RenameFails
  <2>2. savingBar' = [savingBar EXCEPT ![n] = NoSave] /\ savingBar[n] # NoSave
    BY <1>1, <1>8, <2>1 DEF RenameFails, TypeOK, Idle
  <2> QED
    BY <1>8, <2>2 DEF RenameFails, Store!FailSave, FileSnapshot
<1>9. ASSUME NEW n \in Nodes, Crash(n) PROVE Store!Crash(n)
  <2>1. savingBar' = [savingBar EXCEPT ![n] = NoSave]
    BY <1>1, <1>9 DEF Crash, TypeOK, Idle
  <2> QED
    BY <1>9, <2>1 DEF Crash, Store!Crash, FileSnapshot
<1>10. CASE UNCHANGED vars
  BY <1>10 DEF vars, Store!storeVars, FileSnapshot
<1> QED
  BY <1>2, <1>3, <1>4, <1>5, <1>6, <1>7, <1>8, <1>9, <1>10 DEF Next, Store!StoreNext

LEMMA OverlapIsForEver == [Next]_vars /\ ~overlap' => ~overlap
  BY DEF Next, Load, LoadFails, OpenTmp, WriteTmp, WriteFails, Rename, RenameFails, Crash, vars

(* Up to the first overlap of two Saves, in any number of processes, the   *)
(* state file is the atomic register the governor is written against       *)
(* (File.Save, File.Load).                                                 *)
THEOREM ImplementsUntilOverlapHolds == Spec => ImplementsUntilOverlap
<1>1. Init => Store!StoreInit
  BY DEF Init, Store!StoreInit, FileSnapshot, Idle
<1>2. FileInv /\ FileInv' /\ [Next]_vars
          => [overlap' \/ [Store!StoreNext]_(Store!storeVars)]_vars
  BY StepImplementsRegister, OverlapIsForEver
<1> QED
  BY <1>1, <1>2, FileInvariant, PTL DEF Spec, ImplementsUntilOverlap

(* For a single process, or as long as no two Saves overlap, this is the   *)
(* specification of the register itself.                                   *)
THEOREM FileImplementsRegister == Spec /\ []~overlap => ImplementsAtomicStore
<1>1. Init => Store!StoreInit
  BY DEF Init, Store!StoreInit, FileSnapshot, Idle
<1>2. FileInv /\ FileInv' /\ ~overlap /\ (~overlap)' /\ [Next]_vars
          => [Store!StoreNext]_(Store!storeVars)
  BY StepImplementsRegister
<1> QED
  BY <1>1, <1>2, FileInvariant, PTL DEF Spec, ImplementsAtomicStore, Store!StoreSpec

=============================================================================
