SPECIFICATION FairSpec
CONSTANTS
    s1 = s1  s2 = s2  t1 = t1  t2 = t2
    Servers = {s1, s2}
    Order <- InOrder
    ToolSets = {{t1}, {t1, t2}}
    Builtin = {t2, b1}
    Mute = {s2}
    Callers = {c1, c2}
    None = None
    MaxCalls = 3
    MaxLines = 1
    MaxDials = 1
INVARIANTS OwnReply ToolTable
PROPERTY CallsReturn
CHECK_DEADLOCK FALSE
