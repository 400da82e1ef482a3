SPECIFICATION FairSpec
CONSTANTS
    Replies <- SomeReplies
    Goals = {g}
    NoGoal = NoGoal
    NoSession = NoSession
    MaxSteps = 2
    KeepRecent = 2
    MaxTurns = 2
    MaxCalls = 2
    MaxCommands = 2
INVARIANTS TypeOK PromptMatchesMode EveryCallAnswered RequestInView
PROPERTIES ChangesAreAllowed EveryTurnEnds
