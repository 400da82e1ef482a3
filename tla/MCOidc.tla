------------------------------ MODULE MCOidc ------------------------------
(* Instance of Oidc for TLC: a kid that is given another key, another kid, *)
(* and tokens whose claims hold or expire while the keys are fetched.      *)
EXTENDS Oidc, TLC

CONSTANTS k1, k2, a, b, c, us, sub
CONSTANTS i1, i2

Pair(kid, key) == [kid |-> kid, key |-> key]
SomePairs == {Pair(k1, a), Pair(k1, b), Pair(k2, c)}

Token(by, left) == [by |-> by, left |-> left, iss |-> us, aud |-> {us}, sub |-> sub]
SomeTokens ==
    {Token(p, Forever) : p \in {Pair(k1, a), Pair(k2, c)}}
    \cup {Token(Pair(k1, a), -Leeway)}

Symmetry == Permutations({i1, i2})
=============================================================================
