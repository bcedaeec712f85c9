SPECIFICATION TriageSpec
CONSTANTS
    AttemptCap = 1
    ContextAllowance = 1
    Ceiling = 2
    MaxMoves = 1
    MaxDays = 0
    MaxActs = 0
    MaxFaults = 0
    MaxAgain = 0
    MaxReplays = 0
    MaxTurns = 1
PROPERTY HeldIsPublished
