SPECIFICATION Spec
CONSTANTS
    d = d  f = f  g = g  x = x  y = y
    Paths = {d, f, g}
    Root = Root
    Parent <- InDir
    Contents = {x, y}
    Calls <- AllCalls
    ShellWrites <- SomeWrites
    MaxSteps = 4
PROPERTIES UndoRestoresFiles FailedCallsMakeNoEdit UndoStaysInPlace
CHECK_DEADLOCK FALSE
