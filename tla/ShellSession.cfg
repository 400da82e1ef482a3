SPECIFICATION FairSpec
CONSTANTS
    Kinds = {"quick", "exit", "loop", "program"}
    MaxCommands = 3
INVARIANTS CompleteOutput CleanRestart
PROPERTY ReadersEnd
CHECK_DEADLOCK FALSE
