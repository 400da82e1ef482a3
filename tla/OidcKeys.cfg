SPECIFICATION Spec
CONSTANTS
    k1 = k1  k2 = k2  a = a  b = b  c = c  us = us  sub = sub
    i1 = i1  i2 = i2
    Verifiers = {i1, i2}
    Pairs <- SomePairs
    Tokens <- SomeTokens
    Issuer = us
    Audience = us
    Unset = Unset
    MaxAge = 1
    Timeout = 1
    Leeway = 1
    NoPair = NoPair
    MaxChanges = 2
INVARIANTS RetiredKeyDies SteadyKeyWorks
SYMMETRY Symmetry
