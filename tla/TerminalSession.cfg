SPECIFICATION Spec
CONSTANTS
    Commands <- MCCommands
    Slash = "/"
    Space = " "
    Chars = {"/", " ", "a", "b"}
    Field = 2
    MaxRows = 2
    Items = 2
    ShowReasoning = TRUE
    MaxText = 4
    MaxChunks = 3
    MaxSteps = 2
INVARIANTS
    FrameIsTrue
    SpinnerOffAtPrompt
    EverythingPrinted
CHECK_DEADLOCK FALSE
