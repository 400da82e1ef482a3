----------------------------- MODULE MCGovernor -----------------------------
(* Instances of Governor for TLC. *)
EXTENDS Governor, TLC

CONSTANTS k1, u1     \* a virtual key and an OIDC subject
CONSTANTS n1, n2, r1, r2

Two == [id \in Ids |-> 2]
ThreeAndOne == [id \in Ids |-> IF id = k1 THEN 3 ELSE 1]
NoLimit == [id \in Ids |-> 0]

TwoAndOne == [id \in Ids |-> IF id = k1 THEN 2 ELSE 1]

RequestSymmetry == Permutations(Requests)
=============================================================================
