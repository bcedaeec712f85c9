\* Three cards in one batch, more than the ledger has room for: two rows, or
\* the large one alone.
CONSTANTS
    NoCard = NoCard
    Cards = {c1, c2, c3}
    MaxHead = 1
    LedgerCap = 2
    LedgerRoom = 2
    RowSize <- MCRowSize
    LargeRows = {c1}
    MaxDisturbances = 1
    MaxFaults = 1
    TouchingHeads = {}
    CarriedOver = {}
    WriterAcceptsReview = TRUE
SPECIFICATION Spec
INVARIANTS ResolvedOnlyAfterLedger LedgerSound
SYMMETRY CardSymmetry
