CONSTANTS
    Nodes = {n1, n2}
    Snapshots = {s0, s1}
    Empty = s0
    NoSave = NoSave
    ReadFaults = TRUE
    Inodes = {i1, i2, i3, i4}
    NoInode = NoInode
    Blank = Blank
    Torn = Torn
SPECIFICATION Spec
SYMMETRY InodeSymmetry
INVARIANT TornOnlyByOverlap
PROPERTY ImplementsUntilOverlap
