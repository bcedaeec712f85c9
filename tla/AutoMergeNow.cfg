\* The commit as it stands: the writer refuses pr-review bodies.
CONSTANTS
    NoCard = NoCard
    Cards = {c1}
    MaxHead = 2
    LedgerCap = 1
    LedgerRoom = 1
    RowSize <- MCRowSize
    LargeRows = {}
    MaxDisturbances = 0
    MaxFaults = 0
    TouchingHeads = {}
    CarriedOver = {}
    WriterAcceptsReview = FALSE
SPECIFICATION Spec
PROPERTY EligibleIsMerged
