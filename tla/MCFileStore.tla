---------------------------- MODULE MCFileStore ----------------------------
(* Instances of FileStore: one process, and two processes on one path. *)
EXTENDS FileStore, TLC

(* Inodes carry no meaning of their own. *)
InodeSymmetry == Permutations(Inodes)

=============================================================================
