SPECIFICATION Spec
CONSTANTS
    Boxes = {"merge"}
    Labels = {"decline", "hold"}
    Commands = {"comment"}
    WorkflowRevs = {1}
    MaxEvents = 2
    MaxActs = 3
    MaxTrouble = 2
INVARIANTS
    TypeOK
    PostsOnce
    MergesTheDecidedRevision
PROPERTIES
    SettledNeverActs
    OvertakenNeverRecovers
    CardTellsTheOutcome
    LockComesOff
CHECK_DEADLOCK FALSE
