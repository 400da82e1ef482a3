----------------------------- MODULE MCUpdate -----------------------------
(* Instance of Update for TLC.  An inode each for exe, exe.new and         *)
(* exe.old, and one for an image or an open file without a name.           *)
EXTENDS Update, TLC

CONSTANTS t1, t2
CONSTANTS n1, n2, n3, n4

Symmetry == Permutations({t1, t2}) \cup Permutations({n1, n2, n3, n4})
=============================================================================
