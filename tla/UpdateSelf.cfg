SPECIFICATION Spec
CONSTANTS
    t1 = t1  t2 = t2
    n1 = n1  n2 = n2  n3 = n3  n4 = n4
    Terminals = {t1, t2}
    Inodes = {n1, n2, n3, n4}
    NoInode = NoInode
    Torn = Torn
    MaxRelease = 3
INVARIANT BinaryNeverLost
PROPERTIES InstallsAtomically DowngradeOnlyByStaleCheck
CHECK_DEADLOCK FALSE
