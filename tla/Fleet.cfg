SPECIFICATION FleetSpec
CONSTANTS
    AttemptCap = 2
    ContextAllowance = 1
    Ceiling = 2
    MaxMoves = 1
    MaxDays = 1
    MaxActs = 1
    MaxFaults = 2
    MaxAgain = 1
    MaxReplays = 1
    MaxTurns = 2
    MaxHeads = 1
    MaxRuns = 3
    MaxEvents = 1
    RemindAfter = 1
    CloseAfter = 2
    MaxClock = 2
    MaxAsks = 2
    MaxTalk = 1
    MaxLoss = 2
    MaxNotes = 7
    Fleet = {a, b}
    Threshold = 2
    MaxScans = 3
    MaxSlips = 1
    MaxRevs = 1
    MaxPasses = 2
    MaxWhims = 2
    MaxLapses = 1
    MaxNoticeId = 3
    MaxCommits = 3
    MaxStirs = 1
    MaxTurns2 = 3
    MaxBreaks = 2
    MaxCrashes = 3
INVARIANTS
    FleetTypeOK
    EveryCallIsPaid
    HeadSpendIsBounded
    ApprovedRunsWereVetted
    MergeReadyIsProven
    ClosedOnlyInSilence
    DarkIsShouted
    PolicyClosesAreAudited
    AssistedMergeIsConfirmed
    SpendIsNeverDenied
PROPERTY PaidResultIsShown
CHECK_DEADLOCK FALSE
