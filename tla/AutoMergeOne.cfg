\* One card, people and failures in every combination the bounds allow.  The
\* second head is one that only a person may merge.
CONSTANTS
    NoCard = NoCard
    Cards = {c1}
    MaxHead = 2
    LedgerCap = 2
    LedgerRoom = 2
    RowSize <- MCRowSize
    LargeRows = {}
    MaxDisturbances = 3
    MaxFaults = 2
    TouchingHeads = {2}
    CarriedOver = {c1}
    WriterAcceptsReview = TRUE
SPECIFICATION Spec
INVARIANTS TypeOK AuditInvariant AuditNeverLost MergedHeadWasVetted LedgerSound
PROPERTIES OwnerStopsTheMerge PendingAuditFinishes StaleClaimIsReleased EligibleIsMerged ManualHoldEndsReclaims AuditedSpec
