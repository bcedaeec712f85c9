\* Acts of people, a card reopened by hand, a bad scan and a fault.
SPECIFICATION Spec
CONSTANTS
  MaxCards = 3
  MaxActs = 3
  MaxReopens = 1
  MaxBadScans = 1
  MaxFaults = 1
INVARIANTS TypeOK AbsenceInvariant AtMostOnePending
PROPERTIES SoftCloseIsTwiceObserved ReopensOnlySoftClosed GoneIsClosed AbsentIsConsumed WantedIsQueuedUndisturbed
