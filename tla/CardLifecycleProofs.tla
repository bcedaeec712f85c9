-------------------------- MODULE CardLifecycleProofs --------------------------
(***************************************************************************)
(* Theorems about the life of the cards of a target, for any number of     *)
(* cards and any bounds: type correctness, the truth of absence records    *)
(* and from it that a soft close was observed twice, that one decision at  *)
(* most is pending, and that only soft-closed cards are reopened.          *)
(***************************************************************************)
EXTENDS CardLifecycle, TLAPS

-----------------------------------------------------------------------------
(* The writes keep a card a card.                                           *)

Ends == {"live", "soft", "hard", "decision", "rollback", "owner"}

\* Replacing one field of a card.
LEMMA WithCount == \A r \in Card : \A n \in 0..2 : [r EXCEPT !.count = n] \in Card
BY DEF Card

\* Replacing one field of a card.
LEMMA WithAge == \A r \in Card : \A n \in 0..Old : [r EXCEPT !.age = n] \in Card
BY DEF Card

\* Replacing one field of a card.
LEMMA WithTimely == \A r \in Card : \A b \in BOOLEAN : [r EXCEPT !.timely = b] \in Card
BY DEF Card

\* Replacing one field of a card.
LEMMA WithTouched == \A r \in Card : \A b \in BOOLEAN : [r EXCEPT !.touched = b] \in Card
BY DEF Card

\* Replacing one field of a card.
LEMMA WithLabels ==
    \A r \in Card : \A S \in SUBSET Labels : [r EXCEPT !.labels = S] \in Card
BY DEF Card

\* Closing and relabelling a card.
LEMMA EndedType == \A r \in Card : \A h \in Ends : Ended(r, h) \in Card
BY DEF Ended, Card, Ends

\* The labels of a consumed card.
LEMMA ConsumedType == \A r \in Card : Consumed(r) \in Card
BY DEF Consumed, Card, Labels

\* What close_card leaves.
LEMMA ShutType == \A r \in Card : \A h \in Ends : Shut(r, h) \in Card
BY EndedType, ConsumedType, WithTouched DEF Shut

\* The label of a card with an error.
LEMMA BlockedType == \A r \in Card : Blocked(r) \in Card
BY DEF Blocked, Card, Labels

\* Replacing one field of a card.
LEMMA WithAudit == \A r \in Card : \A b \in BOOLEAN : [r EXCEPT !.audit = b] \in Card
BY DEF Card

\* What auto-merge makes of a card.
LEMMA AuditType ==
    ASSUME NEW r \in Card
    PROVE  Claimed(r) \in Card /\ Released(r) \in Card /\ Merged(r) \in Card
<1> DEFINE q == Consumed(Ended(r, "decision"))
<1>1. /\ r.labels \cup {"claim"} \in SUBSET Labels
      /\ r.labels \ {"claim"} \in SUBSET Labels
  BY DEF Card, Labels
<1>2. q \in Card
  BY EndedType, ConsumedType DEF Ends
<1>3. q.labels \ {"claim"} \in SUBSET Labels
  BY <1>2 DEF Card, Labels
<1>4. Merged(r) = [q EXCEPT !.labels = q.labels \ {"claim"}]
  BY DEF Merged
<1> HIDE DEF q
<1>5. Merged(r) \in Card
  BY <1>2, <1>3, <1>4, WithLabels
<1>6. Claimed(r) = [[r EXCEPT !.labels = r.labels \cup {"claim"}] EXCEPT !.audit = TRUE]
  BY DEF Claimed, Card
<1>7. Released(r) = [[r EXCEPT !.labels = r.labels \ {"claim"}] EXCEPT !.audit = FALSE]
  BY DEF Released, Card
<1>8. QED BY <1>1, <1>5, <1>6, <1>7, WithLabels, WithAudit

\* Reopening a card, by the run or by a person.
LEMMA ReopenedType ==
    \A r \in Card : Reopened(r) \in Card /\ [Reopened(r) EXCEPT !.touched = FALSE] \in Card
<1>1. \A r \in Card : Reopened(r) \in Card
  BY DEF Reopened, Card
<1>2. QED BY <1>1, WithTouched

\* The labels of an active card.
LEMMA ActivatedType == \A r \in Card : Activated(r) \in Card
BY DEF Activated, Card, Labels

\* Interference with a card.
LEMMA TouchedType == \A r \in Card : Touched(r) \in Card
BY DEF Touched, Card

\* Writing an absence record.
LEMMA RecordedType ==
    ASSUME NEW r \in Card
    PROVE  Started(r) \in Card /\ Confirmed(r) \in Card
<1> DEFINE S  == r.labels \cup {"confirming"}
           r1 == [[[r EXCEPT !.count = 1] EXCEPT !.age = 0] EXCEPT !.timely = FALSE]
           r2 == [[[r EXCEPT !.count = 2] EXCEPT !.age = 0] EXCEPT !.timely = TRUE]
<1>1. S \in SUBSET Labels
  BY DEF Card, Labels
<1>2. 1 \in 0..2 /\ 2 \in 0..2 /\ 0 \in 0..Old
  BY DEF Old
<1>3. r1 \in Card
  BY <1>2, WithCount, WithAge, WithTimely
<1>4. r2 \in Card
  BY <1>2, WithCount, WithAge, WithTimely
<1>5. Started(r) = [r1 EXCEPT !.labels = S]
  BY DEF Card, Started
<1>6. Confirmed(r) = [r2 EXCEPT !.labels = S]
  BY DEF Card, Confirmed
<1> HIDE DEF S, r1, r2
<1>7. [r1 EXCEPT !.labels = S] \in Card
  BY <1>1, <1>3, WithLabels
<1>8. [r2 EXCEPT !.labels = S] \in Card
  BY <1>1, <1>4, WithLabels
<1>9. QED BY <1>5, <1>6, <1>7, <1>8

\* Clearing an absence record.
LEMMA ClearedType ==
    ASSUME NEW r \in Card
    PROVE  Cleared(r) \in Card
<1> DEFINE S  == r.labels \ {"confirming"}
           r0 == [[r EXCEPT !.count = 0] EXCEPT !.age = 0]
<1>1. S \in SUBSET Labels
  BY DEF Card, Labels
<1>2. 0 \in 0..2 /\ 0 \in 0..Old
  BY DEF Old
<1>3. r0 \in Card
  BY <1>2, WithCount, WithAge
<1>4. Cleared(r) = [r0 EXCEPT !.labels = S]
  BY DEF Card, Cleared
<1> HIDE DEF S, r0
<1>5. QED BY <1>1, <1>3, <1>4, WithLabels

\* A number that no card has yet, and a new card.
LEMMA NewCardType == NoIssue \in Card /\ NewCard \in Card
<1>1. NoIssue \in Card
  BY DEF NoIssue, Card, Labels, Old
<1>2. QED BY <1>1 DEF NewCard, Card, Labels

-----------------------------------------------------------------------------
(* Type correctness, in four parts.                                         *)

Outcomes == {"none", "present", "absent", "gone", "unknown", "failed"}

RunType == /\ stage \in Stages
           /\ kind \in {"none", "scheduled", "rerun", "manual", "ingest"}
           /\ obs \in {"none", "present", "absent", "gone", "unknown"}
           /\ qualified \in BOOLEAN
           /\ todo \subseteq Cards
           /\ cur \in Cards \cup {NoCard}
           /\ stage \in CardStages => cur \in Cards
           /\ previous \in Outcomes

CardsType == cards \in [Cards -> Card]

IssueType == /\ targetOpen \in BOOLEAN /\ wanted \in BOOLEAN
             /\ indexing \subseteq Cards /\ fresh \in [Cards -> BOOLEAN]
             /\ absentNow \in BOOLEAN /\ absentBefore \in BOOLEAN

CountType == /\ acts \in 0..MaxActs /\ reopens \in 0..MaxReopens
             /\ badScans \in 0..MaxBadScans /\ faults \in 0..MaxFaults

\* The parts are TypeOK.
LEMMA TypeParts == TypeOK <=> RunType /\ CardsType /\ IssueType /\ CountType
BY DEF TypeOK, RunType, CardsType, IssueType, CountType, Outcomes

\* The next epoch makes records older, not other things than cards.
LEMMA AgedType == CardsType => Aged \in [Cards -> Card]
<1>1. ASSUME CardsType, NEW c \in Cards, cards[c].count # 0, cards[c].age # Old
      PROVE  [cards[c] EXCEPT !.age = @ + 1] \in Card
  <2>1. cards[c].age + 1 \in 0..Old
    BY <1>1 DEF CardsType, Card, Old
  <2>2. QED BY <1>1, <2>1 DEF CardsType, Card
<1>2. QED BY <1>1 DEF CardsType, Aged

\* The end of a run.
LEMMA EndRunType == \A o \in Outcomes : RunType /\ EndRun(o) => RunType'
BY DEF RunType, EndRun, Outcomes, Stages, CardStages

\* The end of an item.
LEMMA ItemDoneType == RunType /\ ItemDone => RunType'
BY EndRunType DEF RunType, ItemDone, Outcomes

\* The next card of the loop.
LEMMA NextCardType == RunType /\ NextCard /\ UNCHANGED previous => RunType'
BY DEF RunType, NextCard, Stages, CardStages

\* A stage with the same card at hand.
LEMMA GotoType ==
    \A s \in Stages : /\ RunType /\ Goto(s) /\ UNCHANGED previous
                      /\ s \in CardStages => cur \in Cards
                      => RunType'
BY DEF RunType, Goto, Stages, CardStages

\* A stage with another card at hand.
LEMMA GotoCardType ==
    \A s \in Stages, c \in Cards :
        RunType /\ GotoCard(s, c) /\ UNCHANGED previous => RunType'
BY DEF RunType, GotoCard, Stages, CardStages

\* The start of a run.
LEMMA StartRunType ==
    \A k \in {"scheduled", "rerun", "manual", "ingest"} : RunType /\ StartRun(k) => RunType'
BY DEF RunType, StartRun, Stages, CardStages

\* Every step keeps the control state of the run in its type.
LEMMA RunTypeStep ==
    ASSUME RunType, [Next]_vars
    PROVE  RunType'
<1> USE DEF RunType, Outcomes, Stages, CardStages, target, run, epochs, bounds
<1>1. CASE TargetFlips \/ WantedFlips \/ IndexCatchesUp
  BY <1>1, EndRunType, ItemDoneType, NextCardType, GotoType, GotoCardType,
     StartRunType DEF TargetFlips, WantedFlips, IndexCatchesUp
<1>2. ASSUME NEW c \in Cards, OwnerTouches(c) PROVE RunType'
  BY <1>2, EndRunType, ItemDoneType, NextCardType, GotoType, GotoCardType,
     StartRunType DEF OwnerTouches
<1>3. ASSUME NEW c \in Cards, OwnerCloses(c) PROVE RunType'
  BY <1>3, EndRunType, ItemDoneType, NextCardType, GotoType, GotoCardType,
     StartRunType DEF OwnerCloses
<1>4. ASSUME NEW c \in Cards, OwnerReopens(c) PROVE RunType'
  BY <1>4, EndRunType, ItemDoneType, NextCardType, GotoType, GotoCardType,
     StartRunType DEF OwnerReopens
<1>5. ASSUME NEW c \in Cards, HandlerDecides(c) PROVE RunType'
  BY <1>5, EndRunType, ItemDoneType, NextCardType, GotoType, GotoCardType,
     StartRunType DEF HandlerDecides
<1>6. CASE RunnerLost \/ ScanStepFails
  BY <1>6, EndRunType, ItemDoneType, NextCardType, GotoType, GotoCardType,
     StartRunType DEF RunnerLost, ScanStepFails
<1>7. CASE StartScheduled \/ StartOther
  BY <1>7, EndRunType, ItemDoneType, NextCardType, GotoType, GotoCardType,
     StartRunType DEF StartScheduled, StartOther
<1>8. CASE ListCards
  BY <1>8, EndRunType, ItemDoneType, NextCardType, GotoType, GotoCardType,
     StartRunType DEF ListCards
<1>9. CASE Scan
  BY <1>9, EndRunType, ItemDoneType, NextCardType, GotoType, GotoCardType,
     StartRunType DEF Scan
<1>10. CASE OpenEpoch
  <2>1. stage' \in {"cards", "find", "refresh"}
    BY <1>10 DEF OpenEpoch
  <2>2. qualified' \in BOOLEAN
    BY <1>10 DEF OpenEpoch
  <2>3. {"cards", "find", "refresh"} \subseteq Stages \ CardStages
    BY DEF Stages, CardStages
  <2>4. QED BY <1>10, <2>1, <2>2, <2>3 DEF RunType, OpenEpoch
<1>11. CASE Refresh
  BY <1>11, EndRunType, ItemDoneType, NextCardType, GotoType, GotoCardType,
     StartRunType DEF Refresh
<1>12. CASE RefreshWrite
  BY <1>12, EndRunType, ItemDoneType, NextCardType, GotoType, GotoCardType,
     StartRunType DEF RefreshWrite
<1>13. CASE Find
  <2>1. CASE \E c \in Cards : GotoCard("refreshWrite", c) /\ UNCHANGED previous
    BY <2>1, GotoCardType DEF Stages
  <2>2. CASE \E c \in Cards : GotoCard("prepare", c) /\ UNCHANGED previous
    BY <2>2, GotoCardType DEF Stages
  <2>3. CASE Goto("create") /\ UNCHANGED previous
    BY <2>3, GotoType DEF Stages, CardStages
  <2>4. CASE ItemDone
    BY <2>4, ItemDoneType
  <2>5. QED BY <1>13, <2>1, <2>2, <2>3, <2>4 DEF Find, OpenListed
<1>14. CASE Prepare \/ Prepared
  BY <1>14, EndRunType, ItemDoneType, NextCardType, GotoType, GotoCardType,
     StartRunType DEF Prepare, Prepared
<1>15. CASE PrepareWrite
  BY <1>15, EndRunType, ItemDoneType, NextCardType, GotoType, GotoCardType,
     StartRunType DEF PrepareWrite
<1>16. CASE Reopen
  BY <1>16, EndRunType, ItemDoneType, NextCardType, GotoType, GotoCardType,
     StartRunType DEF Reopen
<1>17. CASE VerifyInert \/ VerifyActive
  BY <1>17, EndRunType, ItemDoneType, NextCardType, GotoType, GotoCardType,
     StartRunType DEF VerifyInert, VerifyActive
<1>18. CASE Activate
  BY <1>18, EndRunType, ItemDoneType, NextCardType, GotoType, GotoCardType,
     StartRunType DEF Activate
<1>19. CASE ForceClose
  BY <1>19, EndRunType, ItemDoneType, NextCardType, GotoType, GotoCardType,
     StartRunType DEF ForceClose
<1>20. CASE ForceLabels
  BY <1>20, EndRunType, ItemDoneType, NextCardType, GotoType, GotoCardType,
     StartRunType DEF ForceLabels
<1>21. CASE Create
  BY <1>21, EndRunType, ItemDoneType, NextCardType, GotoType, GotoCardType,
     StartRunType DEF Create
<1>22. CASE VerifyCreated
  BY <1>22, EndRunType, ItemDoneType, NextCardType, GotoType, GotoCardType,
     StartRunType DEF VerifyCreated
<1>23. CASE Rollback
  BY <1>23, EndRunType, ItemDoneType, NextCardType, GotoType, GotoCardType,
     StartRunType DEF Rollback
<1>24. ASSUME NEW c \in Cards, Absent(c) PROVE RunType'
  BY <1>24, EndRunType, ItemDoneType, NextCardType, GotoType, GotoCardType,
     StartRunType DEF Absent
<1>25. ASSUME NEW c \in Cards, Gone(c) PROVE RunType'
  BY <1>25, EndRunType, ItemDoneType, NextCardType, GotoType, GotoCardType,
     StartRunType DEF Gone
<1>26. CASE AbsentWrite
  BY <1>26, EndRunType, ItemDoneType, NextCardType, GotoType, GotoCardType,
     StartRunType DEF AbsentWrite
<1>27. CASE SecondWrite
  BY <1>27, EndRunType, ItemDoneType, NextCardType, GotoType, GotoCardType,
     StartRunType DEF SecondWrite
<1>28. CASE ClearWrite
  BY <1>28, EndRunType, ItemDoneType, NextCardType, GotoType, GotoCardType,
     StartRunType DEF ClearWrite
<1>29. CASE CloseComment \/ CardsDone
  BY <1>29, EndRunType, ItemDoneType, NextCardType, GotoType, GotoCardType,
     StartRunType DEF CloseComment, CardsDone
<1>30. CASE CloseCard
  BY <1>30, EndRunType, ItemDoneType, NextCardType, GotoType, GotoCardType,
     StartRunType DEF CloseCard
<1>31. CASE UNCHANGED vars
  BY <1>31 DEF vars, run, RunType
<1>32. ASSUME NEW c \in Cards, AuditStaged(c) PROVE RunType'
  BY <1>32 DEF AuditStaged
<1>33. ASSUME NEW c \in Cards, AuditEnds(c) PROVE RunType'
  BY <1>33 DEF AuditEnds
<1>34. QED BY <1>1, <1>2, <1>3, <1>4, <1>5, <1>6, <1>7, <1>8, <1>9, <1>10,
   <1>11, <1>12, <1>13, <1>14, <1>15, <1>16, <1>17, <1>18, <1>19, <1>20,
   <1>21, <1>22, <1>23, <1>24, <1>25, <1>26, <1>27, <1>28, <1>29, <1>30, <1>31,
   <1>32, <1>33 DEF Next, RunStep, People, ItemStep, CloseStep, AuditStep

\* Every step keeps the cards cards.
LEMMA CardsTypeStep ==
    ASSUME RunType, CardsType, [Next]_vars
    PROVE  CardsType'
<1> USE DEF CardsType, RunType, Ends, Act, StartRun, target, run, epochs,
   bounds
<1>1. CASE TargetFlips \/ WantedFlips \/ IndexCatchesUp
  BY <1>1 DEF TargetFlips, WantedFlips, IndexCatchesUp
<1>2. ASSUME NEW c \in Cards, OwnerTouches(c) PROVE CardsType'
  BY <1>2, TouchedType DEF OwnerTouches
<1>3. ASSUME NEW c \in Cards, OwnerCloses(c) PROVE CardsType'
  BY <1>3, EndedType DEF OwnerCloses
<1>4. ASSUME NEW c \in Cards, OwnerReopens(c) PROVE CardsType'
  BY <1>4, ReopenedType DEF OwnerReopens
<1>5. ASSUME NEW c \in Cards, HandlerDecides(c) PROVE CardsType'
  BY <1>5, EndedType, ConsumedType, BlockedType DEF HandlerDecides
<1>6. CASE RunnerLost \/ ScanStepFails
  BY <1>6 DEF RunnerLost, ScanStepFails
<1>7. CASE StartScheduled \/ StartOther
  BY <1>7 DEF StartScheduled, StartOther
<1>8. CASE ListCards
  BY <1>8 DEF ListCards
<1>9. CASE Scan
  BY <1>9 DEF Scan
<1>10. CASE OpenEpoch
  BY <1>10, AgedType DEF OpenEpoch
<1>11. CASE Refresh
  BY <1>11 DEF Refresh
<1>12. CASE RefreshWrite
  BY <1>12, ClearedType DEF RefreshWrite
<1>13. CASE Find
  BY <1>13 DEF Find
<1>14. CASE Prepare \/ Prepared
  BY <1>14 DEF Prepare, Prepared
<1>15. CASE PrepareWrite
  BY <1>15, ClearedType DEF PrepareWrite
<1>16. CASE Reopen
  BY <1>16, ReopenedType DEF Reopen
<1>17. CASE VerifyInert \/ VerifyActive
  BY <1>17 DEF VerifyInert, VerifyActive
<1>18. CASE Activate
  BY <1>18, ActivatedType DEF Activate
<1>19. CASE ForceClose
  BY <1>19, EndedType DEF ForceClose
<1>20. CASE ForceLabels
  BY <1>20, ConsumedType DEF ForceLabels
<1>21. CASE Create
  BY <1>21, NewCardType DEF Create
<1>22. CASE VerifyCreated
  BY <1>22 DEF VerifyCreated
<1>23. CASE Rollback
  BY <1>23, EndedType, ConsumedType DEF Rollback
<1>24. ASSUME NEW c \in Cards, Absent(c) PROVE CardsType'
  <2>1. [cards[c] EXCEPT !.timely = FALSE] \in Card
    BY WithTimely DEF CardsType
  <2>2. QED BY <1>24, <2>1 DEF CardsType, Absent
<1>25. ASSUME NEW c \in Cards, Gone(c) PROVE CardsType'
  BY <1>25 DEF Gone
<1>26. CASE AbsentWrite
  BY <1>26, RecordedType DEF AbsentWrite
<1>27. CASE SecondWrite
  BY <1>27, RecordedType DEF SecondWrite
<1>28. CASE ClearWrite
  BY <1>28, ClearedType DEF ClearWrite
<1>29. CASE CloseComment \/ CardsDone
  BY <1>29 DEF CloseComment, CardsDone
<1>30. CASE CloseCard
  BY <1>30, ShutType DEF CardsType, Ends, CloseCard, Closed
<1>31. CASE UNCHANGED vars
  BY <1>31 DEF vars, CardsType
<1>32. ASSUME NEW c \in Cards, AuditStaged(c) PROVE CardsType'
  BY <1>32, AuditType DEF AuditStaged
<1>33. ASSUME NEW c \in Cards, AuditEnds(c) PROVE CardsType'
  BY <1>33, AuditType DEF AuditEnds
<1>34. QED BY <1>1, <1>2, <1>3, <1>4, <1>5, <1>6, <1>7, <1>8, <1>9, <1>10,
   <1>11, <1>12, <1>13, <1>14, <1>15, <1>16, <1>17, <1>18, <1>19, <1>20,
   <1>21, <1>22, <1>23, <1>24, <1>25, <1>26, <1>27, <1>28, <1>29, <1>30, <1>31,
   <1>32, <1>33 DEF Next, RunStep, People, ItemStep, CloseStep, AuditStep

\* Every step keeps the rest of what is said about issues in its type.
LEMMA IssueTypeStep ==
    ASSUME RunType, IssueType, [Next]_vars
    PROVE  IssueType'
<1> USE DEF IssueType, RunType, Stages, CardStages, Act, StartRun, target,
   run, epochs, bounds
<1>1. CASE TargetFlips \/ WantedFlips \/ IndexCatchesUp
  BY <1>1 DEF TargetFlips, WantedFlips, IndexCatchesUp
<1>2. ASSUME NEW c \in Cards, OwnerTouches(c) PROVE IssueType'
  BY <1>2 DEF OwnerTouches
<1>3. ASSUME NEW c \in Cards, OwnerCloses(c) PROVE IssueType'
  BY <1>3 DEF OwnerCloses
<1>4. ASSUME NEW c \in Cards, OwnerReopens(c) PROVE IssueType'
  BY <1>4 DEF OwnerReopens
<1>5. ASSUME NEW c \in Cards, HandlerDecides(c) PROVE IssueType'
  BY <1>5 DEF HandlerDecides
<1>6. CASE RunnerLost \/ ScanStepFails
  BY <1>6 DEF RunnerLost, ScanStepFails
<1>7. CASE StartScheduled \/ StartOther
  BY <1>7 DEF StartScheduled, StartOther
<1>8. CASE ListCards
  <2>1. \A c \in Cards : IsOpen(c) \in BOOLEAN
    BY Zenon DEF IsOpen
  <2>2. fresh' \in [Cards -> BOOLEAN]
    BY <1>8, <2>1, Zenon DEF ListCards
  <2>3. QED BY <1>8, <2>2 DEF IssueType, ListCards, target, epochs
<1>9. CASE Scan
  BY <1>9 DEF Scan
<1>10. CASE OpenEpoch
  <2>1. absentNow' \in BOOLEAN
    BY <1>10, Zenon DEF IssueType, OpenEpoch, epochs
  <2>2. absentBefore' \in BOOLEAN
    BY <1>10, Zenon DEF IssueType, OpenEpoch, epochs
  <2>3. QED BY <1>10, <2>1, <2>2 DEF IssueType, OpenEpoch, target
<1>11. CASE Refresh
  BY <1>11 DEF Refresh
<1>12. CASE RefreshWrite
  BY <1>12 DEF RefreshWrite
<1>13. CASE Find
  <2>1. fresh' \in [Cards -> BOOLEAN]
    BY <1>13 DEF Find, IssueType
  <2>2. QED BY <1>13, <2>1 DEF IssueType, Find, target, epochs
<1>14. CASE Prepare \/ Prepared
  BY <1>14 DEF Prepare, Prepared
<1>15. CASE PrepareWrite
  BY <1>15 DEF PrepareWrite
<1>16. CASE Reopen
  BY <1>16 DEF Reopen
<1>17. CASE VerifyInert \/ VerifyActive
  BY <1>17 DEF VerifyInert, VerifyActive
<1>18. CASE Activate
  BY <1>18 DEF Activate
<1>19. CASE ForceClose
  BY <1>19 DEF ForceClose
<1>20. CASE ForceLabels
  BY <1>20 DEF ForceLabels
<1>21. CASE Create
  <2>1. fresh' \in [Cards -> BOOLEAN]
    BY <1>21 DEF Create, IssueType
  <2>2. indexing' \subseteq Cards
    BY <1>21 DEF Create, IssueType
  <2>3. QED BY <1>21, <2>1, <2>2 DEF IssueType, Create, target, epochs
<1>22. CASE VerifyCreated
  BY <1>22 DEF VerifyCreated
<1>23. CASE Rollback
  BY <1>23 DEF Rollback
<1>24. ASSUME NEW c \in Cards, Absent(c) PROVE IssueType'
  BY <1>24 DEF Absent
<1>25. ASSUME NEW c \in Cards, Gone(c) PROVE IssueType'
  BY <1>25 DEF Gone
<1>26. CASE AbsentWrite
  BY <1>26 DEF AbsentWrite
<1>27. CASE SecondWrite
  BY <1>27 DEF SecondWrite
<1>28. CASE ClearWrite
  BY <1>28 DEF ClearWrite
<1>29. CASE CloseComment \/ CardsDone
  BY <1>29 DEF CloseComment, CardsDone
<1>30. CASE CloseCard
  BY <1>30 DEF CloseCard
<1>31. CASE UNCHANGED vars
  BY <1>31 DEF vars, target, epochs, IssueType
<1>32. ASSUME NEW c \in Cards, AuditStaged(c) PROVE IssueType'
  BY <1>32 DEF AuditStaged
<1>33. ASSUME NEW c \in Cards, AuditEnds(c) PROVE IssueType'
  BY <1>33 DEF AuditEnds
<1>34. QED BY <1>1, <1>2, <1>3, <1>4, <1>5, <1>6, <1>7, <1>8, <1>9, <1>10,
   <1>11, <1>12, <1>13, <1>14, <1>15, <1>16, <1>17, <1>18, <1>19, <1>20,
   <1>21, <1>22, <1>23, <1>24, <1>25, <1>26, <1>27, <1>28, <1>29, <1>30, <1>31,
   <1>32, <1>33 DEF Next, RunStep, People, ItemStep, CloseStep, AuditStep

\* Every step keeps the bounds.
LEMMA CountTypeStep ==
    ASSUME CountType, [Next]_vars
    PROVE  CountType'
<1> USE DEF CountType, Act, Fault, Refuses, target, run, epochs, bounds
<1>1. CASE TargetFlips \/ WantedFlips \/ IndexCatchesUp
  BY <1>1, CountsAssumption DEF TargetFlips, WantedFlips, IndexCatchesUp
<1>2. ASSUME NEW c \in Cards, OwnerTouches(c) \/ OwnerCloses(c) \/
   OwnerReopens(c) \/ HandlerDecides(c) PROVE CountType'
  BY <1>2, CountsAssumption DEF OwnerTouches, OwnerCloses, OwnerReopens,
     HandlerDecides
<1>3. CASE RunnerLost \/ ScanStepFails
  BY <1>3, CountsAssumption DEF RunnerLost, ScanStepFails
<1>4. CASE StartScheduled \/ StartOther
  BY <1>4, CountsAssumption DEF StartScheduled, StartOther
<1>5. CASE ListCards \/ Scan
  BY <1>5, CountsAssumption DEF ListCards, Scan
<1>6. CASE OpenEpoch
  BY <1>6, CountsAssumption DEF OpenEpoch
<1>7. CASE Refresh \/ RefreshWrite \/ Prepare \/ Prepared \/ PrepareWrite \/
   Reopen \/ Activate \/ ForceClose \/ ForceLabels
  BY <1>7, CountsAssumption DEF Refresh, RefreshWrite, Prepare, Prepared,
     PrepareWrite, Reopen, Activate, ForceClose, ForceLabels
<1>8. CASE Find
  BY <1>8, CountsAssumption DEF Find
<1>9. CASE VerifyInert \/ VerifyActive
  BY <1>9, CountsAssumption DEF VerifyInert, VerifyActive
<1>10. CASE Create
  BY <1>10, CountsAssumption DEF Create
<1>11. CASE VerifyCreated
  BY <1>11, CountsAssumption DEF VerifyCreated
<1>12. CASE Rollback
  BY <1>12, CountsAssumption DEF Rollback
<1>13. ASSUME NEW c \in Cards, Absent(c) \/ Gone(c) PROVE CountType'
  BY <1>13, CountsAssumption DEF Absent, Gone
<1>14. CASE AbsentWrite \/ SecondWrite \/ ClearWrite \/ CloseComment \/
   CardsDone \/ CloseCard
  BY <1>14, CountsAssumption DEF AbsentWrite, SecondWrite, ClearWrite,
     CloseComment, CardsDone, CloseCard
<1>15. CASE UNCHANGED vars
  BY <1>15 DEF vars, bounds, CountType
<1>16. ASSUME NEW c \in Cards, AuditStaged(c) \/ AuditEnds(c) PROVE CountType'
  BY <1>16, CountsAssumption DEF AuditStaged, AuditEnds
<1>17. QED BY <1>1, <1>2, <1>3, <1>4, <1>5, <1>6, <1>7, <1>8, <1>9, <1>10,
   <1>11, <1>12, <1>13, <1>14, <1>15, <1>16 DEF Next, RunStep, People, ItemStep,
   CloseStep, AuditStep


\* Every variable has its type, for any number of cards and any bounds.
THEOREM CardTypeCorrect == Spec => []TypeOK
<1>1. Init => TypeOK
  <2>1. Init => RunType
    BY DEF Init, RunType, Stages, CardStages, Outcomes
  <2>2. Init => CardsType
    BY NewCardType DEF Init, CardsType
  <2>3. Init => IssueType
    BY DEF Init, IssueType
  <2>4. Init => CountType
    BY CountsAssumption DEF Init, CountType
  <2>5. QED BY <2>1, <2>2, <2>3, <2>4, TypeParts
<1>2. TypeOK /\ [Next]_vars => TypeOK'
  <2>1. TypeOK' <=> RunType' /\ CardsType' /\ IssueType' /\ CountType'
    BY DEF TypeOK, RunType, CardsType, IssueType, CountType, Outcomes
  <2>2. QED BY <2>1, TypeParts, RunTypeStep, CardsTypeStep, IssueTypeStep,
               CountTypeStep
<1>3. QED BY <1>1, <1>2, PTL DEF Spec

-----------------------------------------------------------------------------
(* Absence records tell the truth.                                          *)

Records == \A c \in Cards : RecordIsTrue(c)

\* q has the absence record of r, or none.
SameRecord(r, q) == (q.count = r.count /\ q.age = r.age) \/ q.count = 0

\* The writes other than those of absence records leave the record alone.
LEMMA WritesKeepRecord ==
    ASSUME NEW r \in Card
    PROVE  /\ \A h : /\ SameRecord(r, Ended(r, h)) /\ SameRecord(r, Shut(r, h))
                     /\ SameRecord(r, Consumed(Ended(r, h)))
           /\ SameRecord(r, Consumed(r)) /\ SameRecord(r, Blocked(r))
           /\ SameRecord(r, Reopened(r))
           /\ SameRecord(r, [Reopened(r) EXCEPT !.touched = FALSE])
           /\ SameRecord(r, Activated(r)) /\ SameRecord(r, Touched(r))
           /\ SameRecord(r, Cleared(r)) /\ SameRecord(r, NewCard)
           /\ SameRecord(r, [r EXCEPT !.timely = FALSE])
           /\ SameRecord(r, Claimed(r)) /\ SameRecord(r, Released(r))
           /\ SameRecord(r, Merged(r))
BY DEF SameRecord, Ended, Shut, Consumed, Blocked, Reopened, Activated, Touched,
   Cleared, NewCard, NoIssue, Card, Claimed, Released, Merged

\* A step that opens no epoch and writes no absence record keeps them true.
LEMMA RecordsKept ==
    ASSUME CardsType, Records, UNCHANGED epochs,
           \A c \in Cards : SameRecord(cards[c], cards'[c])
    PROVE  Records'
<1> SUFFICES ASSUME NEW c \in Cards
             PROVE  RecordIsTrue(c)'
  BY DEF Records
<1>1. QED BY DEF Records, SameRecord, RecordIsTrue, epochs, CardsType, Card

\* Every step keeps the absence records true.
LEMMA RecordsStep ==
    ASSUME TypeOK, Records, AbsenceInHand, [Next]_vars
    PROVE  Records'
<1> USE DEF SameRecord, RunType, CardsType, Stages, CardStages, Act, StartRun,
   target, run, epochs, bounds
<1>1. CASE TargetFlips \/ WantedFlips \/ IndexCatchesUp
  BY <1>1, WritesKeepRecord, RecordsKept, TypeParts DEF TargetFlips,
     WantedFlips, IndexCatchesUp
<1>2. ASSUME NEW c \in Cards, OwnerTouches(c) PROVE Records'
  BY <1>2, WritesKeepRecord, RecordsKept, TypeParts DEF OwnerTouches
<1>3. ASSUME NEW c \in Cards, OwnerCloses(c) PROVE Records'
  BY <1>3, WritesKeepRecord, RecordsKept, TypeParts DEF OwnerCloses
<1>4. ASSUME NEW c \in Cards, OwnerReopens(c) PROVE Records'
  BY <1>4, WritesKeepRecord, RecordsKept, TypeParts DEF OwnerReopens
<1>5. ASSUME NEW c \in Cards, HandlerDecides(c) PROVE Records'
  BY <1>5, WritesKeepRecord, RecordsKept, TypeParts DEF HandlerDecides
<1>6. CASE RunnerLost \/ ScanStepFails
  BY <1>6, WritesKeepRecord, RecordsKept, TypeParts DEF RunnerLost,
     ScanStepFails
<1>7. CASE StartScheduled \/ StartOther
  BY <1>7, WritesKeepRecord, RecordsKept, TypeParts DEF StartScheduled,
     StartOther
<1>8. CASE ListCards
  BY <1>8, WritesKeepRecord, RecordsKept, TypeParts DEF ListCards
<1>9. CASE Scan
  BY <1>9, WritesKeepRecord, RecordsKept, TypeParts DEF Scan
<1>10. CASE OpenEpoch
  <2> SUFFICES ASSUME NEW c \in Cards
               PROVE  RecordIsTrue(c)'
    BY DEF Records
  <2>1. CASE UNCHANGED <<cards, absentBefore>> /\ (absentNow => absentNow')
    BY <2>1 DEF Records, RecordIsTrue
  <2>2. CASE cards' = Aged /\ absentBefore' = absentNow
    <3>1. CASE cards[c].count = 0
      BY <2>2, <3>1 DEF Aged, RecordIsTrue
    <3>2. CASE cards[c].count # 0 /\ cards[c].age = Old
      BY <2>2, <3>2 DEF Aged, RecordIsTrue, Old
    <3>3. CASE cards[c].count # 0 /\ cards[c].age # Old
      <4>1. /\ cards'[c].count = cards[c].count
            /\ cards'[c].age = cards[c].age + 1
            /\ cards[c].age \in 0..1
            /\ cards[c].count \in 1..2
        BY <2>2, <3>3 DEF Aged, TypeOK, Card, Old
      <4>2. QED BY <2>2, <4>1 DEF RecordIsTrue, Records
    <3>4. QED BY <3>1, <3>2, <3>3
  <2>3. \/ UNCHANGED <<cards, absentBefore>> /\ (absentNow => absentNow')
        \/ cards' = Aged /\ absentBefore' = absentNow
    BY <1>10, Zenon DEF OpenEpoch, epochs
  <2>4. QED BY <2>1, <2>2, <2>3
<1>11. CASE Refresh
  BY <1>11, WritesKeepRecord, RecordsKept, TypeParts DEF Refresh
<1>12. CASE RefreshWrite
  BY <1>12, WritesKeepRecord, RecordsKept, TypeParts DEF RefreshWrite
<1>13. CASE Find
  BY <1>13, WritesKeepRecord, RecordsKept, TypeParts DEF Find
<1>14. CASE Prepare \/ Prepared
  BY <1>14, WritesKeepRecord, RecordsKept, TypeParts DEF Prepare, Prepared
<1>15. CASE PrepareWrite
  BY <1>15, WritesKeepRecord, RecordsKept, TypeParts DEF PrepareWrite
<1>16. CASE Reopen
  BY <1>16, WritesKeepRecord, RecordsKept, TypeParts DEF Reopen
<1>17. CASE VerifyInert \/ VerifyActive
  BY <1>17, WritesKeepRecord, RecordsKept, TypeParts DEF VerifyInert,
     VerifyActive
<1>18. CASE Activate
  BY <1>18, WritesKeepRecord, RecordsKept, TypeParts DEF Activate
<1>19. CASE ForceClose
  BY <1>19, WritesKeepRecord, RecordsKept, TypeParts DEF ForceClose
<1>20. CASE ForceLabels
  BY <1>20, WritesKeepRecord, RecordsKept, TypeParts DEF ForceLabels
<1>21. CASE Create
  BY <1>21, WritesKeepRecord, RecordsKept, TypeParts DEF Create
<1>22. CASE VerifyCreated
  BY <1>22, WritesKeepRecord, RecordsKept, TypeParts DEF VerifyCreated
<1>23. CASE Rollback
  BY <1>23, WritesKeepRecord, RecordsKept, TypeParts DEF Rollback
<1>24. ASSUME NEW c \in Cards, Absent(c) PROVE Records'
  <2>1. \A d \in Cards : SameRecord(cards[d], cards'[d])
    <3>1. SameRecord(cards[c], [cards[c] EXCEPT !.timely = FALSE])
      BY WritesKeepRecord DEF TypeOK
    <3>2. QED BY <1>24, <3>1 DEF Absent, SameRecord, TypeOK
  <2>2. UNCHANGED epochs
    BY <1>24 DEF Absent
  <2>3. QED BY <2>1, <2>2, RecordsKept, TypeParts
<1>25. ASSUME NEW c \in Cards, Gone(c) PROVE Records'
  BY <1>25, WritesKeepRecord, RecordsKept, TypeParts DEF Gone
<1>26. CASE AbsentWrite
  <2>1. absentNow /\ UNCHANGED epochs
    BY <1>26 DEF AbsentWrite, AbsenceInHand
  <2>2. \A c \in Cards : \/ cards'[c] = cards[c]
                         \/ cards'[c].count = 1 /\ cards'[c].age = 0
    <3>1. \A r \in Card : Started(r).count = 1 /\ Started(r).age = 0
      BY DEF Started, Card
    <3>2. UNCHANGED cards \/ cards' = [cards EXCEPT ![cur] = Started(cards[cur])]
      BY <1>26, Zenon DEF AbsentWrite
    <3>3. QED BY <3>1, <3>2, TypeParts DEF CardsType
  <2>3. QED BY <2>1, <2>2 DEF Records, RecordIsTrue, epochs
<1>27. CASE SecondWrite
  <2>1. absentNow /\ absentBefore /\ UNCHANGED epochs
    BY <1>27 DEF SecondWrite, AbsenceInHand
  <2>2. \A c \in Cards : \/ cards'[c] = cards[c]
                         \/ cards'[c].count = 2 /\ cards'[c].age = 0
    <3>1. \A r \in Card : Confirmed(r).count = 2 /\ Confirmed(r).age = 0
      BY DEF Confirmed, Card
    <3>2. UNCHANGED cards \/ cards' = [cards EXCEPT ![cur] = Confirmed(cards[cur])]
      BY <1>27, Zenon DEF SecondWrite
    <3>3. QED BY <3>1, <3>2, TypeParts DEF CardsType
  <2>3. QED BY <2>1, <2>2 DEF Records, RecordIsTrue, epochs
<1>28. CASE ClearWrite
  BY <1>28, WritesKeepRecord, RecordsKept, TypeParts DEF ClearWrite
<1>29. CASE CloseComment \/ CardsDone
  BY <1>29, WritesKeepRecord, RecordsKept, TypeParts DEF CloseComment,
     CardsDone
<1>30. CASE CloseCard
  BY <1>30, WritesKeepRecord, RecordsKept, TypeParts DEF CloseCard, Closed
<1>31. CASE UNCHANGED vars
  BY <1>31 DEF vars, epochs, Records, RecordIsTrue
<1>32. ASSUME NEW c \in Cards, AuditStaged(c) PROVE Records'
  BY <1>32, WritesKeepRecord, RecordsKept, TypeParts DEF AuditStaged
<1>33. ASSUME NEW c \in Cards, AuditEnds(c) PROVE Records'
  BY <1>33, WritesKeepRecord, RecordsKept, TypeParts DEF AuditEnds
<1>34. QED BY <1>1, <1>2, <1>3, <1>4, <1>5, <1>6, <1>7, <1>8, <1>9, <1>10,
   <1>11, <1>12, <1>13, <1>14, <1>15, <1>16, <1>17, <1>18, <1>19, <1>20,
   <1>21, <1>22, <1>23, <1>24, <1>25, <1>26, <1>27, <1>28, <1>29, <1>30, <1>31,
   <1>32, <1>33 DEF Next, RunStep, People, ItemStep, CloseStep, AuditStep

\* Every step keeps what is known of the card that is written or closed.
LEMMA AbsenceInHandStep ==
    ASSUME TypeOK, Records, AbsenceInHand, [Next]_vars
    PROVE  AbsenceInHand'
<1> USE DEF AbsenceInHand, RunType, Act, StartRun, Goto, GotoCard, NextCard,
   ItemDone, EndRun, target, run, epochs, bounds
<1>1. CASE TargetFlips \/ WantedFlips \/ IndexCatchesUp
  BY <1>1, TypeParts DEF TargetFlips, WantedFlips, IndexCatchesUp
<1>2. ASSUME NEW c \in Cards, OwnerTouches(c) PROVE AbsenceInHand'
  BY <1>2, TypeParts DEF OwnerTouches
<1>3. ASSUME NEW c \in Cards, OwnerCloses(c) PROVE AbsenceInHand'
  BY <1>3, TypeParts DEF OwnerCloses
<1>4. ASSUME NEW c \in Cards, OwnerReopens(c) PROVE AbsenceInHand'
  BY <1>4, TypeParts DEF OwnerReopens
<1>5. ASSUME NEW c \in Cards, HandlerDecides(c) PROVE AbsenceInHand'
  BY <1>5, TypeParts DEF HandlerDecides
<1>6. CASE RunnerLost \/ ScanStepFails
  BY <1>6, TypeParts DEF RunnerLost, ScanStepFails
<1>7. CASE StartScheduled \/ StartOther
  BY <1>7, TypeParts DEF StartScheduled, StartOther
<1>8. CASE ListCards
  BY <1>8, TypeParts DEF ListCards
<1>9. CASE Scan
  BY <1>9, TypeParts DEF Scan
<1>10. CASE OpenEpoch
  <2>1. stage' \in {"cards", "find", "refresh"} /\ obs' = obs
    BY <1>10 DEF OpenEpoch
  <2>2. obs = "absent" /\ qualified' => absentNow'
    BY <1>10 DEF OpenEpoch
  <2>3. QED BY <2>1, <2>2 DEF AbsenceInHand
<1>11. CASE Refresh
  BY <1>11, TypeParts DEF Refresh
<1>12. CASE RefreshWrite
  BY <1>12, TypeParts DEF RefreshWrite
<1>13. CASE Find
  BY <1>13, TypeParts DEF Find
<1>14. CASE Prepare \/ Prepared
  BY <1>14, TypeParts DEF Prepare, Prepared
<1>15. CASE PrepareWrite
  BY <1>15, TypeParts DEF PrepareWrite
<1>16. CASE Reopen
  BY <1>16, TypeParts DEF Reopen
<1>17. CASE VerifyInert \/ VerifyActive
  BY <1>17, TypeParts DEF VerifyInert, VerifyActive
<1>18. CASE Activate
  BY <1>18, TypeParts DEF Activate
<1>19. CASE ForceClose
  BY <1>19, TypeParts DEF ForceClose
<1>20. CASE ForceLabels
  BY <1>20, TypeParts DEF ForceLabels
<1>21. CASE Create
  BY <1>21, TypeParts DEF Create
<1>22. CASE VerifyCreated
  BY <1>22, TypeParts DEF VerifyCreated
<1>23. CASE Rollback
  BY <1>23, TypeParts DEF Rollback
<1>24. ASSUME NEW c \in Cards, Absent(c) PROVE AbsenceInHand'
  <2>1. cards[c].count \in 0..2 /\ cards[c].age \in 0..2
    BY DEF TypeOK, Card, Old
  <2>2. RecordIsTrue(c)
    BY DEF Records
  <2>3. QED BY <1>24, <2>1, <2>2 DEF Absent, AbsenceInHand, RecordIsTrue, Starts,
               Confirms, Old, GotoCard, epochs
<1>25. ASSUME NEW c \in Cards, Gone(c) PROVE AbsenceInHand'
  BY <1>25, TypeParts DEF Gone
<1>26. CASE AbsentWrite
  BY <1>26, TypeParts DEF AbsentWrite
<1>27. CASE SecondWrite
  BY <1>27, TypeParts DEF SecondWrite
<1>28. CASE ClearWrite
  BY <1>28, TypeParts DEF ClearWrite
<1>29. CASE CloseComment \/ CardsDone
  BY <1>29, TypeParts DEF CloseComment, CardsDone
<1>30. CASE CloseCard
  BY <1>30, TypeParts DEF CloseCard
<1>31. CASE UNCHANGED vars
  BY <1>31 DEF vars, run, epochs, AbsenceInHand
<1>32. ASSUME NEW c \in Cards, AuditStaged(c) PROVE AbsenceInHand'
  BY <1>32, TypeParts DEF AuditStaged
<1>33. ASSUME NEW c \in Cards, AuditEnds(c) PROVE AbsenceInHand'
  BY <1>33, TypeParts DEF AuditEnds
<1>34. QED BY <1>1, <1>2, <1>3, <1>4, <1>5, <1>6, <1>7, <1>8, <1>9, <1>10,
   <1>11, <1>12, <1>13, <1>14, <1>15, <1>16, <1>17, <1>18, <1>19, <1>20,
   <1>21, <1>22, <1>23, <1>24, <1>25, <1>26, <1>27, <1>28, <1>29, <1>30, <1>31,
   <1>32, <1>33 DEF Next, RunStep, People, ItemStep, CloseStep, AuditStep

\* What an absence record says was observed, and a card is soft-closed on a true
\* record only: in every reachable state.
THEOREM AbsenceRecordsAreTrue == Spec => []AbsenceInvariant
<1>1. Init => AbsenceInvariant
  BY DEF Init, AbsenceInvariant, RecordIsTrue, AbsenceInHand, NoIssue
<1>2. TypeOK /\ AbsenceInvariant /\ [Next]_vars => AbsenceInvariant'
  BY RecordsStep, AbsenceInHandStep DEF AbsenceInvariant, Records
<1>3. QED BY <1>1, <1>2, CardTypeCorrect, PTL DEF Spec

-----------------------------------------------------------------------------
(* A soft close was observed twice.                                         *)

\* q is not soft-closed, or r was.
NotSofter(r, q) == q.how = "soft" => r.how = "soft"

\* Only close_card makes a soft-closed card.
LEMMA WritesDoNotSoften ==
    ASSUME NEW r \in Card
    PROVE  /\ \A h : h # "soft" => /\ NotSofter(r, Ended(r, h))
                                   /\ NotSofter(r, Consumed(Ended(r, h)))
           /\ NotSofter(r, Consumed(r)) /\ NotSofter(r, Blocked(r))
           /\ NotSofter(r, Reopened(r))
           /\ NotSofter(r, [Reopened(r) EXCEPT !.touched = FALSE])
           /\ NotSofter(r, Activated(r)) /\ NotSofter(r, Touched(r))
           /\ NotSofter(r, Started(r)) /\ NotSofter(r, Confirmed(r))
           /\ NotSofter(r, Cleared(r)) /\ NotSofter(r, NewCard)
           /\ NotSofter(r, [r EXCEPT !.timely = FALSE])
           /\ NotSofter(r, [r EXCEPT !.age = @ + 1])
           /\ NotSofter(r, Claimed(r)) /\ NotSofter(r, Released(r))
           /\ NotSofter(r, Merged(r))
BY DEF NotSofter, Ended, Consumed, Blocked, Reopened, Activated, Touched, Started,
   Confirmed, Cleared, NewCard, NoIssue, Card, Claimed, Released, Merged

\* A step that makes a soft-closed card has both observations behind it.
LEMMA SoftCloseStep ==
    ASSUME TypeOK, AbsenceInvariant, [Next]_vars
    PROVE  \A d \in Cards : NotSofter(cards[d], cards'[d]) \/ (absentNow /\ absentBefore)
<1> USE DEF NotSofter, RunType, CardsType, Stages, CardStages, Act, StartRun,
   target, run, epochs, bounds
<1>1. CASE TargetFlips \/ WantedFlips \/ IndexCatchesUp
  BY <1>1, WritesDoNotSoften, TypeParts DEF TargetFlips, WantedFlips,
     IndexCatchesUp
<1>2. ASSUME NEW c \in Cards, OwnerTouches(c) PROVE \A d \in Cards :
   NotSofter(cards[d], cards'[d]) \/ (absentNow /\ absentBefore)
  BY <1>2, WritesDoNotSoften, TypeParts DEF OwnerTouches
<1>3. ASSUME NEW c \in Cards, OwnerCloses(c) PROVE \A d \in Cards :
   NotSofter(cards[d], cards'[d]) \/ (absentNow /\ absentBefore)
  BY <1>3, WritesDoNotSoften, TypeParts DEF OwnerCloses
<1>4. ASSUME NEW c \in Cards, OwnerReopens(c) PROVE \A d \in Cards :
   NotSofter(cards[d], cards'[d]) \/ (absentNow /\ absentBefore)
  BY <1>4, WritesDoNotSoften, TypeParts DEF OwnerReopens
<1>5. ASSUME NEW c \in Cards, HandlerDecides(c) PROVE \A d \in Cards :
   NotSofter(cards[d], cards'[d]) \/ (absentNow /\ absentBefore)
  BY <1>5, WritesDoNotSoften, TypeParts DEF HandlerDecides
<1>6. CASE RunnerLost \/ ScanStepFails
  BY <1>6, WritesDoNotSoften, TypeParts DEF RunnerLost, ScanStepFails
<1>7. CASE StartScheduled \/ StartOther
  BY <1>7, WritesDoNotSoften, TypeParts DEF StartScheduled, StartOther
<1>8. CASE ListCards
  BY <1>8, WritesDoNotSoften, TypeParts DEF ListCards
<1>9. CASE Scan
  BY <1>9, WritesDoNotSoften, TypeParts DEF Scan
<1>10. CASE OpenEpoch
  <2>1. \A d \in Cards : NotSofter(cards[d], Aged[d])
    BY WritesDoNotSoften DEF Aged, TypeOK, NotSofter
  <2>2. QED BY <1>10, <2>1 DEF OpenEpoch, NotSofter
<1>11. CASE Refresh
  BY <1>11, WritesDoNotSoften, TypeParts DEF Refresh
<1>12. CASE RefreshWrite
  BY <1>12, WritesDoNotSoften, TypeParts DEF RefreshWrite
<1>13. CASE Find
  BY <1>13, WritesDoNotSoften, TypeParts DEF Find
<1>14. CASE Prepare \/ Prepared
  BY <1>14, WritesDoNotSoften, TypeParts DEF Prepare, Prepared
<1>15. CASE PrepareWrite
  BY <1>15, WritesDoNotSoften, TypeParts DEF PrepareWrite
<1>16. CASE Reopen
  BY <1>16, WritesDoNotSoften, TypeParts DEF Reopen
<1>17. CASE VerifyInert \/ VerifyActive
  BY <1>17, WritesDoNotSoften, TypeParts DEF VerifyInert, VerifyActive
<1>18. CASE Activate
  BY <1>18, WritesDoNotSoften, TypeParts DEF Activate
<1>19. CASE ForceClose
  BY <1>19, WritesDoNotSoften, TypeParts DEF ForceClose
<1>20. CASE ForceLabels
  BY <1>20, WritesDoNotSoften, TypeParts DEF ForceLabels
<1>21. CASE Create
  BY <1>21, WritesDoNotSoften, TypeParts DEF Create
<1>22. CASE VerifyCreated
  BY <1>22, WritesDoNotSoften, TypeParts DEF VerifyCreated
<1>23. CASE Rollback
  BY <1>23, WritesDoNotSoften, TypeParts DEF Rollback
<1>24. ASSUME NEW c \in Cards, Absent(c) PROVE \A d \in Cards :
   NotSofter(cards[d], cards'[d]) \/ (absentNow /\ absentBefore)
  <2>1. NotSofter(cards[c], [cards[c] EXCEPT !.timely = FALSE])
    BY WritesDoNotSoften DEF TypeOK
  <2>2. QED BY <1>24, <2>1 DEF Absent, NotSofter, TypeOK
<1>25. ASSUME NEW c \in Cards, Gone(c) PROVE \A d \in Cards :
   NotSofter(cards[d], cards'[d]) \/ (absentNow /\ absentBefore)
  BY <1>25, WritesDoNotSoften, TypeParts DEF Gone
<1>26. CASE AbsentWrite
  BY <1>26, WritesDoNotSoften, TypeParts DEF AbsentWrite
<1>27. CASE SecondWrite
  BY <1>27, WritesDoNotSoften, TypeParts DEF SecondWrite
<1>28. CASE ClearWrite
  BY <1>28, WritesDoNotSoften, TypeParts DEF ClearWrite
<1>29. CASE CloseComment \/ CardsDone
  BY <1>29, WritesDoNotSoften, TypeParts DEF CloseComment, CardsDone
<1>30. CASE CloseCard
  <2>1. CASE obs = "gone"
    <3>1. NotSofter(cards[cur], Shut(cards[cur], "hard"))
      BY <1>30, TypeParts DEF NotSofter, Shut, Ended, Consumed, CloseCard, RunType,
         CardsType, Card, Stages, CardStages
    <3>2. QED BY <1>30, <2>1, <3>1 DEF CloseCard, Closed, NotSofter, TypeOK
  <2>2. CASE obs # "gone"
    BY <1>30, <2>2 DEF CloseCard, AbsenceInvariant, AbsenceInHand
  <2>3. QED BY <2>1, <2>2
<1>31. CASE UNCHANGED vars
  BY <1>31 DEF vars, NotSofter
<1>32. ASSUME NEW c \in Cards, AuditStaged(c) PROVE \A d \in Cards :
   NotSofter(cards[d], cards'[d]) \/ (absentNow /\ absentBefore)
  BY <1>32, WritesDoNotSoften, TypeParts DEF AuditStaged
<1>33. ASSUME NEW c \in Cards, AuditEnds(c) PROVE \A d \in Cards :
   NotSofter(cards[d], cards'[d]) \/ (absentNow /\ absentBefore)
  BY <1>33, WritesDoNotSoften, TypeParts DEF AuditEnds
<1>34. QED BY <1>1, <1>2, <1>3, <1>4, <1>5, <1>6, <1>7, <1>8, <1>9, <1>10,
   <1>11, <1>12, <1>13, <1>14, <1>15, <1>16, <1>17, <1>18, <1>19, <1>20,
   <1>21, <1>22, <1>23, <1>24, <1>25, <1>26, <1>27, <1>28, <1>29, <1>30, <1>31,
   <1>32, <1>33 DEF Next, RunStep, People, ItemStep, CloseStep, AuditStep

\* A soft close happens only when a scheduled scan saw the target outside the
\* worklist in this epoch and in the one before it.
THEOREM SoftCloseTwiceObserved == Spec => SoftCloseIsTwiceObserved
<1>1. TypeOK /\ AbsenceInvariant /\ [Next]_vars
        => [\A c \in Cards : cards[c].how # "soft" /\ cards'[c].how = "soft"
                               => absentNow /\ absentBefore]_vars
  BY SoftCloseStep DEF NotSofter
<1>2. QED BY <1>1, CardTypeCorrect, AbsenceRecordsAreTrue, PTL
             DEF Spec, SoftCloseIsTwiceObserved

-----------------------------------------------------------------------------
(* One open card.                                                           *)

\* The stages in which the run has found the queue without a card of the target
\* and has opened none.
Unopened == {"prepare", "prepareWrite", "prepared", "reopen", "create"}

\* The stages before a run opens a card.
Searching == {"list", "scan", "epoch", "find", "refresh"} \cup Unopened

\* Until the run opens a card itself, the issue list shows every card.
ListSettled == stage \in Searching => indexing = {}

\* As long as nobody reopens a card by hand, at most one card is open, and none
\* between the lookup and the call that opens one.
OneOpen == reopens = 0 =>
               /\ \A c, d \in Cards : IsOpen(c) /\ IsOpen(d) => c = d
               /\ stage \in Unopened => \A c \in Cards : ~IsOpen(c)

\* q is not open, or r was.
NotOpened(r, q) == q.st = "open" => r.st = "open"

\* Every step keeps the list complete for the run that looks a card up.
LEMMA ListSettledStep ==
    ASSUME TypeOK, ListSettled, [Next]_vars
    PROVE  ListSettled'
<1> USE DEF ListSettled, Searching, Unopened, Act, StartRun, Goto, GotoCard,
   NextCard, ItemDone, EndRun, target, run, epochs, bounds
<1>1. CASE TargetFlips \/ WantedFlips \/ IndexCatchesUp
  BY <1>1 DEF TargetFlips, WantedFlips, IndexCatchesUp
<1>2. ASSUME NEW c \in Cards, OwnerTouches(c) PROVE ListSettled'
  BY <1>2 DEF OwnerTouches
<1>3. ASSUME NEW c \in Cards, OwnerCloses(c) PROVE ListSettled'
  BY <1>3 DEF OwnerCloses
<1>4. ASSUME NEW c \in Cards, OwnerReopens(c) PROVE ListSettled'
  BY <1>4 DEF OwnerReopens
<1>5. ASSUME NEW c \in Cards, HandlerDecides(c) PROVE ListSettled'
  BY <1>5 DEF HandlerDecides
<1>6. CASE RunnerLost \/ ScanStepFails
  BY <1>6 DEF RunnerLost, ScanStepFails
<1>7. CASE StartScheduled \/ StartOther
  BY <1>7 DEF StartScheduled, StartOther
<1>8. CASE ListCards
  BY <1>8 DEF ListCards
<1>9. CASE Scan
  BY <1>9 DEF Scan
<1>10. CASE OpenEpoch
  <2>1. stage = "epoch" /\ UNCHANGED indexing
    BY <1>10 DEF OpenEpoch
  <2>2. QED BY <2>1 DEF ListSettled, Searching
<1>11. CASE Refresh
  BY <1>11 DEF Refresh
<1>12. CASE RefreshWrite
  BY <1>12 DEF RefreshWrite
<1>13. CASE Find
  BY <1>13 DEF Find
<1>14. CASE Prepare \/ Prepared
  BY <1>14 DEF Prepare, Prepared
<1>15. CASE PrepareWrite
  BY <1>15 DEF PrepareWrite
<1>16. CASE Reopen
  BY <1>16 DEF Reopen
<1>17. CASE VerifyInert \/ VerifyActive
  BY <1>17 DEF VerifyInert, VerifyActive
<1>18. CASE Activate
  BY <1>18 DEF Activate
<1>19. CASE ForceClose
  BY <1>19 DEF ForceClose
<1>20. CASE ForceLabels
  BY <1>20 DEF ForceLabels
<1>21. CASE Create
  BY <1>21 DEF Create
<1>22. CASE VerifyCreated
  BY <1>22 DEF VerifyCreated
<1>23. CASE Rollback
  BY <1>23 DEF Rollback
<1>24. ASSUME NEW c \in Cards, Absent(c) PROVE ListSettled'
  BY <1>24 DEF Absent
<1>25. ASSUME NEW c \in Cards, Gone(c) PROVE ListSettled'
  BY <1>25 DEF Gone
<1>26. CASE AbsentWrite
  BY <1>26 DEF AbsentWrite
<1>27. CASE SecondWrite
  BY <1>27 DEF SecondWrite
<1>28. CASE ClearWrite
  BY <1>28 DEF ClearWrite
<1>29. CASE CloseComment \/ CardsDone
  BY <1>29 DEF CloseComment, CardsDone
<1>30. CASE CloseCard
  BY <1>30 DEF CloseCard
<1>31. CASE UNCHANGED vars
  BY <1>31 DEF vars, ListSettled
<1>32. ASSUME NEW c \in Cards, AuditStaged(c) PROVE ListSettled'
  BY <1>32 DEF AuditStaged
<1>33. ASSUME NEW c \in Cards, AuditEnds(c) PROVE ListSettled'
  BY <1>33 DEF AuditEnds
<1>34. QED BY <1>1, <1>2, <1>3, <1>4, <1>5, <1>6, <1>7, <1>8, <1>9, <1>10,
   <1>11, <1>12, <1>13, <1>14, <1>15, <1>16, <1>17, <1>18, <1>19, <1>20,
   <1>21, <1>22, <1>23, <1>24, <1>25, <1>26, <1>27, <1>28, <1>29, <1>30,
   <1>31,
   <1>32, <1>33 DEF Next, RunStep, People, ItemStep, CloseStep, AuditStep

\* Only a create and a reopen make an open card of another.
LEMMA WritesDoNotOpen ==
    ASSUME NEW r \in Card
    PROVE  /\ \A h : /\ NotOpened(r, Ended(r, h)) /\ NotOpened(r, Shut(r, h))
                     /\ NotOpened(r, Consumed(Ended(r, h)))
           /\ NotOpened(r, Consumed(r)) /\ NotOpened(r, Blocked(r))
           /\ NotOpened(r, Activated(r)) /\ NotOpened(r, Touched(r))
           /\ NotOpened(r, Started(r)) /\ NotOpened(r, Confirmed(r))
           /\ NotOpened(r, Cleared(r))
           /\ NotOpened(r, [r EXCEPT !.timely = FALSE])
           /\ NotOpened(r, [r EXCEPT !.age = @ + 1])
           /\ NotOpened(r, Claimed(r)) /\ NotOpened(r, Released(r))
           /\ NotOpened(r, Merged(r))
BY DEF NotOpened, Ended, Shut, Consumed, Blocked, Activated, Touched, Started,
   Confirmed, Cleared, Card, Claimed, Released, Merged

\* A step that opens no card and does not end a lookup keeps one open card.
LEMMA OneOpenKept ==
    ASSUME TypeOK, OneOpen, reopens' = 0 => reopens = 0,
           stage' \in Unopened => stage \in Unopened,
           \A c \in Cards : NotOpened(cards[c], cards'[c])
    PROVE  OneOpen'
BY DEF OneOpen, NotOpened, IsOpen

\* Every step keeps one open card.
LEMMA OneOpenStep ==
    ASSUME TypeOK, ListSettled, OneOpen, [Next]_vars
    PROVE  OneOpen'
<1> USE DEF NotOpened, RunType, CardsType, Stages, CardStages, Unopened, Act,
   StartRun, Goto, GotoCard, NextCard, ItemDone, EndRun, target, run, epochs,
   bounds
<1>1. CASE TargetFlips \/ WantedFlips \/ IndexCatchesUp
  BY <1>1, WritesDoNotOpen, OneOpenKept, TypeParts DEF TargetFlips,
     WantedFlips, IndexCatchesUp
<1>2. ASSUME NEW c \in Cards, OwnerTouches(c) PROVE OneOpen'
  BY <1>2, WritesDoNotOpen, OneOpenKept, TypeParts DEF OwnerTouches
<1>3. ASSUME NEW c \in Cards, OwnerCloses(c) PROVE OneOpen'
  BY <1>3, WritesDoNotOpen, OneOpenKept, TypeParts DEF OwnerCloses
<1>4. ASSUME NEW c \in Cards, OwnerReopens(c) PROVE OneOpen'
  <2>1. reopens' # 0
    BY <1>4 DEF OwnerReopens, TypeOK
  <2>2. QED BY <2>1 DEF OneOpen
<1>5. ASSUME NEW c \in Cards, HandlerDecides(c) PROVE OneOpen'
  BY <1>5, WritesDoNotOpen, OneOpenKept, TypeParts DEF HandlerDecides
<1>6. CASE RunnerLost \/ ScanStepFails
  BY <1>6, WritesDoNotOpen, OneOpenKept, TypeParts DEF RunnerLost,
     ScanStepFails
<1>7. CASE StartScheduled \/ StartOther
  BY <1>7, WritesDoNotOpen, OneOpenKept, TypeParts DEF StartScheduled,
     StartOther
<1>8. CASE ListCards
  BY <1>8, WritesDoNotOpen, OneOpenKept, TypeParts DEF ListCards
<1>9. CASE Scan
  BY <1>9, WritesDoNotOpen, OneOpenKept, TypeParts DEF Scan
<1>10. CASE OpenEpoch
  <2>1. \A d \in Cards : NotOpened(cards[d], Aged[d])
    BY WritesDoNotOpen DEF Aged, TypeOK, NotOpened
  <2>2. /\ cards' = Aged \/ cards' = cards
        /\ stage' \in {"cards", "find", "refresh"}
        /\ UNCHANGED reopens
    BY <1>10 DEF OpenEpoch
  <2>3. \A d \in Cards : NotOpened(cards[d], cards'[d])
    BY <2>1, <2>2 DEF NotOpened
  <2>4. QED BY <2>2, <2>3, OneOpenKept DEF Unopened
<1>11. CASE Refresh
  BY <1>11, WritesDoNotOpen, OneOpenKept, TypeParts DEF Refresh
<1>12. CASE RefreshWrite
  BY <1>12, WritesDoNotOpen, OneOpenKept, TypeParts DEF RefreshWrite
<1>13. CASE Find
  <2>1. UNCHANGED <<cards, reopens>>
    BY <1>13 DEF Find
  <2>2. CASE OpenListed = {}
    <3>1. \A d \in Cards : ~IsOpen(d)
      BY <1>13, <2>2 DEF Find, OpenListed, ListSettled, Searching
    <3>2. QED BY <2>1, <3>1 DEF OneOpen, IsOpen
  <2>3. CASE OpenListed # {}
    <3>1. stage' \notin Unopened
      BY <1>13, <2>3 DEF Find, Unopened, GotoCard, ItemDone, EndRun
    <3>2. QED BY <2>1, <3>1, OneOpenKept DEF NotOpened
  <2>4. QED BY <2>2, <2>3
<1>14. CASE Prepare \/ Prepared
  BY <1>14, WritesDoNotOpen, OneOpenKept, TypeParts DEF Prepare, Prepared
<1>15. CASE PrepareWrite
  BY <1>15, WritesDoNotOpen, OneOpenKept, TypeParts DEF PrepareWrite
<1>16. CASE Reopen
  <2>1. stage' \notin Unopened /\ UNCHANGED reopens
    BY <1>16 DEF Reopen, Unopened, Goto, bounds
  <2>2. \A d \in Cards \ {cur} : cards'[d] = cards[d]
    BY <1>16 DEF Reopen, TypeOK
  <2>3. reopens = 0 => \A d \in Cards : ~IsOpen(d)
    BY <1>16 DEF Reopen, OneOpen, Unopened
  <2>4. QED BY <2>1, <2>2, <2>3 DEF OneOpen, IsOpen
<1>17. CASE VerifyInert \/ VerifyActive
  BY <1>17, WritesDoNotOpen, OneOpenKept, TypeParts DEF VerifyInert,
     VerifyActive
<1>18. CASE Activate
  BY <1>18, WritesDoNotOpen, OneOpenKept, TypeParts DEF Activate
<1>19. CASE ForceClose
  BY <1>19, WritesDoNotOpen, OneOpenKept, TypeParts DEF ForceClose
<1>20. CASE ForceLabels
  BY <1>20, WritesDoNotOpen, OneOpenKept, TypeParts DEF ForceLabels
<1>21. CASE Create
  <2>1. stage' \notin Unopened /\ UNCHANGED reopens
    BY <1>21 DEF Create, Unopened, GotoCard, ItemDone, EndRun
  <2>2. reopens = 0 => \A d \in Cards : ~IsOpen(d)
    BY <1>21 DEF Create, OneOpen, Unopened
  <2>3. CASE UNCHANGED cards
    BY <2>1, <2>2, <2>3 DEF OneOpen, IsOpen
  <2>4. ASSUME NEW c \in Cards, cards' = [cards EXCEPT ![c] = NewCard]
        PROVE  OneOpen'
    <3>1. \A d \in Cards \ {c} : cards'[d] = cards[d]
      BY <2>4 DEF TypeOK
    <3>2. QED BY <2>1, <2>2, <3>1 DEF OneOpen, IsOpen
  <2>5. QED BY <1>21, <2>3, <2>4 DEF Create
<1>22. CASE VerifyCreated
  BY <1>22, WritesDoNotOpen, OneOpenKept, TypeParts DEF VerifyCreated
<1>23. CASE Rollback
  BY <1>23, WritesDoNotOpen, OneOpenKept, TypeParts DEF Rollback
<1>24. ASSUME NEW c \in Cards, Absent(c) PROVE OneOpen'
  <2>1. NotOpened(cards[c], [cards[c] EXCEPT !.timely = FALSE])
    BY WritesDoNotOpen DEF TypeOK
  <2>2. \A d \in Cards : NotOpened(cards[d], cards'[d])
    BY <1>24, <2>1 DEF Absent, NotOpened, TypeOK
  <2>3. stage' \notin Unopened /\ UNCHANGED reopens
    BY <1>24 DEF Absent, Unopened, GotoCard, bounds
  <2>4. QED BY <2>2, <2>3, OneOpenKept
<1>25. ASSUME NEW c \in Cards, Gone(c) PROVE OneOpen'
  BY <1>25, WritesDoNotOpen, OneOpenKept, TypeParts DEF Gone
<1>26. CASE AbsentWrite
  BY <1>26, WritesDoNotOpen, OneOpenKept, TypeParts DEF AbsentWrite
<1>27. CASE SecondWrite
  BY <1>27, WritesDoNotOpen, OneOpenKept, TypeParts DEF SecondWrite
<1>28. CASE ClearWrite
  BY <1>28, WritesDoNotOpen, OneOpenKept, TypeParts DEF ClearWrite
<1>29. CASE CloseComment \/ CardsDone
  BY <1>29, WritesDoNotOpen, OneOpenKept, TypeParts DEF CloseComment,
     CardsDone
<1>30. CASE CloseCard
  BY <1>30, WritesDoNotOpen, OneOpenKept, TypeParts DEF CloseCard, Closed
<1>31. CASE UNCHANGED vars
  BY <1>31 DEF vars, OneOpen, IsOpen
<1>32. ASSUME NEW c \in Cards, AuditStaged(c) PROVE OneOpen'
  BY <1>32, WritesDoNotOpen, OneOpenKept, TypeParts DEF AuditStaged
<1>33. ASSUME NEW c \in Cards, AuditEnds(c) PROVE OneOpen'
  BY <1>33, WritesDoNotOpen, OneOpenKept, TypeParts DEF AuditEnds
<1>34. QED BY <1>1, <1>2, <1>3, <1>4, <1>5, <1>6, <1>7, <1>8, <1>9, <1>10,
   <1>11, <1>12, <1>13, <1>14, <1>15, <1>16, <1>17, <1>18, <1>19, <1>20,
   <1>21, <1>22, <1>23, <1>24, <1>25, <1>26, <1>27, <1>28, <1>29, <1>30,
   <1>31,
   <1>32, <1>33 DEF Next, RunStep, People, ItemStep, CloseStep, AuditStep

\* Nothing is open at first, and every step keeps one open card.
LEMMA OneOpenAlways == Spec => [](ListSettled /\ OneOpen)
<1>1. Init => ListSettled /\ OneOpen
  BY DEF Init, ListSettled, Searching, Unopened, OneOpen, IsOpen, NoIssue
<1>2. TypeOK /\ ListSettled /\ OneOpen /\ [Next]_vars => ListSettled' /\ OneOpen'
  BY ListSettledStep, OneOpenStep
<1>3. QED BY <1>1, <1>2, CardTypeCorrect, PTL DEF Spec

\* The queue never shows two pending decisions for one target, as long as nobody
\* reopens a card by hand: whatever fails between the creation or the reuse of a
\* card and its verification, and however late the issue list shows it.
THEOREM OnePendingDecision == Spec => []AtMostOnePending
<1>1. OneOpen => AtMostOnePending
  BY DEF OneOpen, AtMostOnePending
<1>2. QED BY <1>1, OneOpenAlways, PTL

-----------------------------------------------------------------------------
(* Only a soft-closed card is reopened by the run.                          *)

\* A card is live unless it is closed, and one that was closed for another
\* reason than absence, or by the owner, has no absence record; unless it was
\* auto-merge that resolved it, and then the record of that stays on it.
EndIsTrue(r) == /\ r.how = "live" <=> r.st # "closed"
                /\ r.how \in {"hard", "rollback"} => r.count = 0
                /\ r.how = "decision" =>
                      r.count = 0 \/ (r.audit /\ "claim" \notin r.labels)

EndsAreTrue == \A c \in Cards : EndIsTrue(cards[c])

\* The stages in which a card that was found pending is written or closed.
Closing == {"absentWrite", "secondWrite", "clearWrite", "comment", "close"}

\* The stages in which the card at hand has no absence record.
Unrecorded == {"prepared", "reopen", "inert", "activate", "active",
               "forceClose", "forceLabels", "created", "rollback"}

\* The stages of the reuse of a closed card before it is reopened.
Reusing == {"prepare", "prepareWrite", "prepared", "reopen"}

\* The card at hand: only the owner closes a card that the run is closing, and a
\* card of a target that is gone lost its record first.
CardInHand == /\ stage \in Closing => cards[cur].how \in {"live", "owner"}
              /\ stage \in {"comment", "close"} /\ obs = "gone" => cards[cur].count = 0
              /\ stage \in Unrecorded => cards[cur].count = 0

\* The closed card that is being reused was soft-closed, unless somebody has
\* interfered with it.
ReuseInHand == stage \in Reusing /\ fresh[cur] /\ ~IsOpen(cur)
                   => cards[cur].how = "soft"

\* What the record at hand says of its end and its absence record stays as it is.
SameEnd(r, q) == q.how = r.how /\ q.count = r.count /\ q.st = r.st

\* The writes of labels and of the age of a record do not end a card.
LEMMA WritesKeepEnd ==
    ASSUME NEW r \in Card
    PROVE  /\ SameEnd(r, Consumed(r)) /\ SameEnd(r, Blocked(r))
           /\ SameEnd(r, Activated(r)) /\ SameEnd(r, Touched(r))
           /\ SameEnd(r, [r EXCEPT !.timely = FALSE])
           /\ SameEnd(r, [r EXCEPT !.age = @ + 1])
BY DEF SameEnd, Consumed, Blocked, Activated, Touched, Card

\* The other writes, and when they leave the end of a card true.
LEMMA WritesKeepEndTrue ==
    ASSUME NEW r \in Card, EndIsTrue(r)
    PROVE  /\ EndIsTrue(Ended(r, "owner")) /\ EndIsTrue(Shut(r, "soft"))
           /\ r.count = 0 => /\ EndIsTrue(Consumed(Ended(r, "decision")))
                             /\ EndIsTrue(Ended(r, "rollback"))
                             /\ EndIsTrue(Consumed(Ended(r, "rollback")))
                             /\ EndIsTrue(Shut(r, "hard"))
           /\ EndIsTrue(Reopened(r))
           /\ EndIsTrue([Reopened(r) EXCEPT !.touched = FALSE])
           /\ EndIsTrue(Cleared(r)) /\ EndIsTrue(NewCard)
           /\ r.how \in {"live", "owner"} => /\ EndIsTrue(Started(r))
                                             /\ EndIsTrue(Confirmed(r))
           /\ EndIsTrue(Consumed(r)) /\ EndIsTrue(Blocked(r))
           /\ EndIsTrue(Activated(r)) /\ EndIsTrue(Touched(r))
           /\ EndIsTrue([r EXCEPT !.timely = FALSE])
           /\ EndIsTrue([r EXCEPT !.age = @ + 1])
BY DEF EndIsTrue, Ended, Shut, Consumed, Blocked, Reopened, Activated, Touched,
   Started, Confirmed, Cleared, NewCard, NoIssue, Card

\* The writes of auto-merge, and when they leave the end of a card true.
LEMMA AuditKeepsEndTrue ==
    ASSUME NEW r \in Card, EndIsTrue(r)
    PROVE  /\ r.st = "open" => EndIsTrue(Claimed(r))
           /\ "claim" \in r.labels => EndIsTrue(Released(r))
           /\ r.audit => EndIsTrue(Merged(r))
<1>1. r.st = "open" => EndIsTrue(Claimed(r))
  BY DEF EndIsTrue, Claimed, Card
<1>2. "claim" \in r.labels => EndIsTrue(Released(r))
  BY DEF EndIsTrue, Released, Card
<1>3. ASSUME r.audit PROVE EndIsTrue(Merged(r))
  <2>1. CASE r.st = "open"
    BY <1>3, <2>1 DEF EndIsTrue, Merged, Consumed, Ended, Card
  <2>2. CASE r.st # "open"
    BY <1>3, <2>2 DEF EndIsTrue, Merged, Consumed, Ended, Card
  <2>3. QED BY <2>1, <2>2
<1>4. QED BY <1>1, <1>2, <1>3

\* Every step keeps the ends of the cards true.
LEMMA EndsAreTrueStep ==
    ASSUME TypeOK, EndsAreTrue, CardInHand, [Next]_vars
    PROVE  EndsAreTrue'
<1> USE DEF EndsAreTrue, CardInHand, Closing, Unrecorded, RunType, CardsType,
   Stages, CardStages, Act, StartRun, target, run, epochs, bounds
<1>1. CASE TargetFlips \/ WantedFlips \/ IndexCatchesUp
  BY <1>1, WritesKeepEndTrue, TypeParts DEF TargetFlips, WantedFlips,
     IndexCatchesUp
<1>2. ASSUME NEW c \in Cards, OwnerTouches(c) PROVE EndsAreTrue'
  BY <1>2, WritesKeepEndTrue, TypeParts DEF OwnerTouches
<1>3. ASSUME NEW c \in Cards, OwnerCloses(c) PROVE EndsAreTrue'
  BY <1>3, WritesKeepEndTrue, TypeParts DEF OwnerCloses
<1>4. ASSUME NEW c \in Cards, OwnerReopens(c) PROVE EndsAreTrue'
  BY <1>4, WritesKeepEndTrue, TypeParts DEF OwnerReopens
<1>5. ASSUME NEW c \in Cards, HandlerDecides(c) PROVE EndsAreTrue'
  BY <1>5, WritesKeepEndTrue, TypeParts DEF HandlerDecides
<1>6. CASE RunnerLost \/ ScanStepFails
  BY <1>6, WritesKeepEndTrue, TypeParts DEF RunnerLost, ScanStepFails
<1>7. CASE StartScheduled \/ StartOther
  BY <1>7, WritesKeepEndTrue, TypeParts DEF StartScheduled, StartOther
<1>8. CASE ListCards
  BY <1>8, WritesKeepEndTrue, TypeParts DEF ListCards
<1>9. CASE Scan
  BY <1>9, WritesKeepEndTrue, TypeParts DEF Scan
<1>10. CASE OpenEpoch
  <2>1. \A d \in Cards : EndIsTrue(Aged[d])
    BY WritesKeepEndTrue DEF Aged, TypeOK, EndsAreTrue
  <2>2. cards' = Aged \/ cards' = cards
    BY <1>10 DEF OpenEpoch
  <2>3. QED BY <2>1, <2>2 DEF EndsAreTrue
<1>11. CASE Refresh
  BY <1>11, WritesKeepEndTrue, TypeParts DEF Refresh
<1>12. CASE RefreshWrite
  BY <1>12, WritesKeepEndTrue, TypeParts DEF RefreshWrite
<1>13. CASE Find
  BY <1>13, WritesKeepEndTrue, TypeParts DEF Find
<1>14. CASE Prepare \/ Prepared
  BY <1>14, WritesKeepEndTrue, TypeParts DEF Prepare, Prepared
<1>15. CASE PrepareWrite
  BY <1>15, WritesKeepEndTrue, TypeParts DEF PrepareWrite
<1>16. CASE Reopen
  BY <1>16, WritesKeepEndTrue, TypeParts DEF Reopen
<1>17. CASE VerifyInert \/ VerifyActive
  BY <1>17, WritesKeepEndTrue, TypeParts DEF VerifyInert, VerifyActive
<1>18. CASE Activate
  BY <1>18, WritesKeepEndTrue, TypeParts DEF Activate
<1>19. CASE ForceClose
  BY <1>19, WritesKeepEndTrue, TypeParts DEF ForceClose
<1>20. CASE ForceLabels
  BY <1>20, WritesKeepEndTrue, TypeParts DEF ForceLabels
<1>21. CASE Create
  BY <1>21, WritesKeepEndTrue, TypeParts DEF Create
<1>22. CASE VerifyCreated
  BY <1>22, WritesKeepEndTrue, TypeParts DEF VerifyCreated
<1>23. CASE Rollback
  BY <1>23, WritesKeepEndTrue, TypeParts DEF Rollback
<1>24. ASSUME NEW c \in Cards, Absent(c) PROVE EndsAreTrue'
  <2>1. EndIsTrue([cards[c] EXCEPT !.timely = FALSE])
    BY WritesKeepEndTrue DEF TypeOK, EndsAreTrue
  <2>2. QED BY <1>24, <2>1 DEF Absent, TypeOK, EndsAreTrue
<1>25. ASSUME NEW c \in Cards, Gone(c) PROVE EndsAreTrue'
  BY <1>25, WritesKeepEndTrue, TypeParts DEF Gone
<1>26. CASE AbsentWrite
  BY <1>26, WritesKeepEndTrue, TypeParts DEF AbsentWrite
<1>27. CASE SecondWrite
  BY <1>27, WritesKeepEndTrue, TypeParts DEF SecondWrite
<1>28. CASE ClearWrite
  BY <1>28, WritesKeepEndTrue, TypeParts DEF ClearWrite
<1>29. CASE CloseComment \/ CardsDone
  BY <1>29, WritesKeepEndTrue, TypeParts DEF CloseComment, CardsDone
<1>30. CASE CloseCard
  <2>1. cur \in Cards /\ cards[cur] \in Card
    BY <1>30 DEF CloseCard, TypeOK, CardStages, Stages
  <2>2. EndIsTrue(Shut(cards[cur], IF obs = "gone" THEN "hard" ELSE "soft"))
    BY <1>30, <2>1, WritesKeepEndTrue DEF CloseCard, EndsAreTrue, CardInHand
  <2>3. cards' = Closed \/ cards' = cards
    BY <1>30 DEF CloseCard
  <2>4. QED BY <2>1, <2>2, <2>3 DEF Closed, EndsAreTrue, TypeOK
<1>31. CASE UNCHANGED vars
  BY <1>31 DEF vars, EndsAreTrue
<1>32. ASSUME NEW c \in Cards, AuditStaged(c) PROVE EndsAreTrue'
  BY <1>32, AuditKeepsEndTrue, TypeParts DEF AuditStaged, IsOpen
<1>33. ASSUME NEW c \in Cards, AuditEnds(c) PROVE EndsAreTrue'
  BY <1>33, AuditKeepsEndTrue, TypeParts DEF AuditEnds
<1>34. QED BY <1>1, <1>2, <1>3, <1>4, <1>5, <1>6, <1>7, <1>8, <1>9, <1>10,
   <1>11, <1>12, <1>13, <1>14, <1>15, <1>16, <1>17, <1>18, <1>19, <1>20,
   <1>21, <1>22, <1>23, <1>24, <1>25, <1>26, <1>27, <1>28, <1>29, <1>30,
   <1>31,
   <1>32, <1>33 DEF Next, RunStep, People, ItemStep, CloseStep, AuditStep

\* What somebody else does to a card in hand: the owner closes or reopens it, or
\* its end stays.
LEMMA WritesOfPeople ==
    ASSUME NEW r \in Card
    PROVE  /\ SameEnd(r, Touched(r))
           /\ Ended(r, "owner").count = r.count
           /\ r.how \in {"live", "owner"} => Ended(r, "owner").how \in {"live", "owner"}
           /\ [Reopened(r) EXCEPT !.touched = FALSE].count = r.count
           /\ [Reopened(r) EXCEPT !.touched = FALSE].how = "live"
BY WritesKeepEnd DEF Ended, Reopened, Card

\* The record of absence after a write of it, and after an end.
LEMMA CountsOfWrites ==
    ASSUME NEW r \in Card
    PROVE  /\ Cleared(r).count = 0 /\ Cleared(r).how = r.how
           /\ Cleared(r).st = r.st
           /\ NewCard.count = 0
           /\ Confirmed(r).how = r.how /\ Confirmed(r).st = r.st
           /\ Ended(r, "rollback").count = r.count
           /\ Reopened(r).count = r.count
           /\ Activated(r).count = r.count
BY DEF Cleared, NewCard, NoIssue, Confirmed, Ended, Reopened, Activated, Card

\* Every step keeps what is known of the card at hand.
LEMMA CardInHandStep ==
    ASSUME TypeOK, AbsenceInvariant, EndsAreTrue, CardInHand, [Next]_vars
    PROVE  CardInHand'
<1> USE DEF CardInHand, Closing, Unrecorded, RunType, CardsType, Stages,
   CardStages, Act, StartRun, Goto, GotoCard, NextCard, ItemDone, EndRun, SameEnd,
   target, run, epochs, bounds
<1>1. CASE TargetFlips \/ WantedFlips \/ IndexCatchesUp
  BY <1>1, WritesOfPeople, CountsOfWrites, TypeParts DEF TargetFlips,
     WantedFlips, IndexCatchesUp
<1>2. ASSUME NEW c \in Cards, OwnerTouches(c) PROVE CardInHand'
  BY <1>2, WritesOfPeople, CountsOfWrites, TypeParts DEF OwnerTouches
<1>3. ASSUME NEW c \in Cards, OwnerCloses(c) PROVE CardInHand'
  BY <1>3, WritesOfPeople, CountsOfWrites, TypeParts DEF OwnerCloses
<1>4. ASSUME NEW c \in Cards, OwnerReopens(c) PROVE CardInHand'
  BY <1>4, WritesOfPeople, CountsOfWrites, TypeParts DEF OwnerReopens
<1>5. ASSUME NEW c \in Cards, HandlerDecides(c) PROVE CardInHand'
  BY <1>5, WritesOfPeople, CountsOfWrites, TypeParts DEF HandlerDecides
<1>6. CASE RunnerLost \/ ScanStepFails
  BY <1>6, WritesOfPeople, CountsOfWrites, TypeParts DEF RunnerLost,
     ScanStepFails
<1>7. CASE StartScheduled \/ StartOther
  BY <1>7, WritesOfPeople, CountsOfWrites, TypeParts DEF StartScheduled,
     StartOther
<1>8. CASE ListCards
  BY <1>8, WritesOfPeople, CountsOfWrites, TypeParts DEF ListCards
<1>9. CASE Scan
  BY <1>9, WritesOfPeople, CountsOfWrites, TypeParts DEF Scan
<1>10. CASE OpenEpoch
  <2>1. stage' \in {"cards", "find", "refresh"}
    BY <1>10 DEF OpenEpoch
  <2>2. QED BY <2>1 DEF CardInHand, Closing, Unrecorded
<1>11. CASE Refresh
  BY <1>11, WritesOfPeople, CountsOfWrites, TypeParts DEF Refresh
<1>12. CASE RefreshWrite
  BY <1>12, WritesOfPeople, CountsOfWrites, TypeParts DEF RefreshWrite
<1>13. CASE Find
  BY <1>13, WritesOfPeople, CountsOfWrites, TypeParts DEF Find
<1>14. CASE Prepare \/ Prepared
  BY <1>14, WritesOfPeople, CountsOfWrites, TypeParts DEF Prepare, Prepared
<1>15. CASE PrepareWrite
  BY <1>15, WritesOfPeople, CountsOfWrites, TypeParts DEF PrepareWrite
<1>16. CASE Reopen
  BY <1>16, WritesOfPeople, CountsOfWrites, TypeParts DEF Reopen
<1>17. CASE VerifyInert \/ VerifyActive
  BY <1>17, WritesOfPeople, CountsOfWrites, TypeParts DEF VerifyInert,
     VerifyActive
<1>18. CASE Activate
  BY <1>18, WritesOfPeople, CountsOfWrites, TypeParts DEF Activate
<1>19. CASE ForceClose
  BY <1>19, WritesOfPeople, CountsOfWrites, TypeParts DEF ForceClose
<1>20. CASE ForceLabels
  BY <1>20, WritesOfPeople, CountsOfWrites, TypeParts DEF ForceLabels
<1>21. CASE Create
  BY <1>21, WritesOfPeople, CountsOfWrites, TypeParts DEF Create
<1>22. CASE VerifyCreated
  BY <1>22, WritesOfPeople, CountsOfWrites, TypeParts DEF VerifyCreated
<1>23. CASE Rollback
  BY <1>23, WritesOfPeople, CountsOfWrites, TypeParts DEF Rollback
<1>24. ASSUME NEW c \in Cards, Absent(c) PROVE CardInHand'
  <2>1. stage' \in Closing \/ stage' = "cards"
    BY <1>24 DEF Absent, GotoCard, Closing
  <2>2. stage' \in Closing => cur' = c /\ IsOpen(c) /\ obs' = "absent"
    BY <1>24 DEF Absent, GotoCard, Closing
  <2>3. stage' \in Closing => cards[c].how = "live"
    BY <2>2 DEF EndsAreTrue, EndIsTrue, IsOpen
  <2>4. cards'[c].how = cards[c].how
    BY <1>24 DEF Absent, TypeOK, Card
  <2>5. QED BY <2>1, <2>2, <2>3, <2>4 DEF CardInHand, Closing, Unrecorded
<1>25. ASSUME NEW c \in Cards, Gone(c) PROVE CardInHand'
  <2>1. UNCHANGED cards /\ (stage' \in {"clearWrite", "comment"} \/ stage' = "cards")
    BY <1>25 DEF Gone, GotoCard
  <2>2. stage' \in Closing => cur' = c /\ IsOpen(c)
    BY <1>25 DEF Gone, GotoCard, Closing
  <2>3. stage' \in Closing => cards[c].how = "live"
    BY <2>2 DEF EndsAreTrue, EndIsTrue, IsOpen
  <2>4. stage' = "comment" => cards[c].count = 0
    BY <1>25 DEF Gone, GotoCard, TypeOK, Card
  <2>5. QED BY <2>1, <2>2, <2>3, <2>4 DEF CardInHand, Closing, Unrecorded
<1>26. CASE AbsentWrite
  BY <1>26, WritesOfPeople, CountsOfWrites, TypeParts DEF AbsentWrite
<1>27. CASE SecondWrite
  <2>1. cur \in Cards /\ cards[cur] \in Card /\ cards \in [Cards -> Card]
    BY <1>27 DEF SecondWrite, TypeOK, CardStages, Stages
  <2>2. cards[cur].how \in {"live", "owner"} /\ obs = "absent"
    BY <1>27 DEF SecondWrite, CardInHand, Closing, AbsenceInvariant, AbsenceInHand
  <2>3. CASE stage' = "comment" /\ cur' = cur /\ UNCHANGED obs
             /\ cards' = [cards EXCEPT ![cur] = Confirmed(cards[cur])]
    <3>1. cards'[cur] = Confirmed(cards[cur])
      BY <2>1, <2>3
    <3>2. QED BY <2>1, <2>2, <2>3, <3>1, CountsOfWrites DEF CardInHand, Closing, Unrecorded
  <2>4. CASE stage' = "cards"
    BY <2>4 DEF CardInHand, Closing, Unrecorded
  <2>5. QED BY <1>27, <2>3, <2>4 DEF SecondWrite, Goto, NextCard
<1>28. CASE ClearWrite
  <2>1. cur \in Cards /\ cards[cur] \in Card /\ cards \in [Cards -> Card]
    BY <1>28 DEF ClearWrite, TypeOK, CardStages, Stages
  <2>2. cards[cur].how \in {"live", "owner"}
    BY <1>28 DEF ClearWrite, CardInHand, Closing
  <2>3. CASE stage' = "comment" /\ cur' = cur /\ cards' = [cards EXCEPT ![cur] = Cleared(cards[cur])]
    <3>1. cards'[cur] = Cleared(cards[cur])
      BY <2>1, <2>3
    <3>2. QED BY <2>1, <2>2, <2>3, <3>1, CountsOfWrites DEF CardInHand, Closing, Unrecorded
  <2>4. CASE stage' = "cards"
    BY <2>4 DEF CardInHand, Closing, Unrecorded
  <2>5. QED BY <1>28, <2>3, <2>4 DEF ClearWrite, Goto, NextCard
<1>29. CASE CloseComment \/ CardsDone
  BY <1>29, WritesOfPeople, CountsOfWrites, TypeParts DEF CloseComment,
     CardsDone
<1>30. CASE CloseCard
  BY <1>30, WritesOfPeople, CountsOfWrites, TypeParts DEF CloseCard
<1>31. CASE UNCHANGED vars
  BY <1>31 DEF vars, CardInHand
<1>32. ASSUME NEW c \in Cards, AuditStaged(c) PROVE CardInHand'
  BY <1>32 DEF AuditStaged
<1>33. ASSUME NEW c \in Cards, AuditEnds(c) PROVE CardInHand'
  BY <1>33 DEF AuditEnds
<1>34. QED BY <1>1, <1>2, <1>3, <1>4, <1>5, <1>6, <1>7, <1>8, <1>9, <1>10,
   <1>11, <1>12, <1>13, <1>14, <1>15, <1>16, <1>17, <1>18, <1>19, <1>20,
   <1>21, <1>22, <1>23, <1>24, <1>25, <1>26, <1>27, <1>28, <1>29, <1>30,
   <1>31,
   <1>32, <1>33 DEF Next, RunStep, People, ItemStep, CloseStep, AuditStep

\* Every step keeps what is known of the card that is being reused.
LEMMA ReuseInHandStep ==
    ASSUME TypeOK, EndsAreTrue, ReuseInHand, [Next]_vars
    PROVE  ReuseInHand'
<1> USE DEF ReuseInHand, Reusing, IsOpen, RunType, CardsType, IssueType, Stages,
   CardStages, Act, StartRun, Goto, GotoCard, NextCard, ItemDone, EndRun, SameEnd,
   target, run, epochs, bounds
<1>1. CASE TargetFlips \/ WantedFlips \/ IndexCatchesUp
  BY <1>1, WritesKeepEnd, CountsOfWrites, TypeParts DEF TargetFlips,
     WantedFlips, IndexCatchesUp
<1>2. ASSUME NEW c \in Cards, OwnerTouches(c) PROVE ReuseInHand'
  BY <1>2, WritesKeepEnd, CountsOfWrites, TypeParts DEF OwnerTouches
<1>3. ASSUME NEW c \in Cards, OwnerCloses(c) PROVE ReuseInHand'
  BY <1>3, WritesKeepEnd, CountsOfWrites, TypeParts DEF OwnerCloses
<1>4. ASSUME NEW c \in Cards, OwnerReopens(c) PROVE ReuseInHand'
  BY <1>4, WritesKeepEnd, CountsOfWrites, TypeParts DEF OwnerReopens
<1>5. ASSUME NEW c \in Cards, HandlerDecides(c) PROVE ReuseInHand'
  BY <1>5, WritesKeepEnd, CountsOfWrites, TypeParts DEF HandlerDecides
<1>6. CASE RunnerLost \/ ScanStepFails
  BY <1>6, WritesKeepEnd, CountsOfWrites, TypeParts DEF RunnerLost,
     ScanStepFails
<1>7. CASE StartScheduled \/ StartOther
  BY <1>7, WritesKeepEnd, CountsOfWrites, TypeParts DEF StartScheduled,
     StartOther
<1>8. CASE ListCards
  BY <1>8, WritesKeepEnd, CountsOfWrites, TypeParts DEF ListCards
<1>9. CASE Scan
  BY <1>9, WritesKeepEnd, CountsOfWrites, TypeParts DEF Scan
<1>10. CASE OpenEpoch
  <2>1. stage' \in {"cards", "find", "refresh"}
    BY <1>10 DEF OpenEpoch
  <2>2. QED BY <2>1 DEF ReuseInHand, Reusing
<1>11. CASE Refresh
  BY <1>11, WritesKeepEnd, CountsOfWrites, TypeParts DEF Refresh
<1>12. CASE RefreshWrite
  BY <1>12, WritesKeepEnd, CountsOfWrites, TypeParts DEF RefreshWrite
<1>13. CASE Find
  <2>1. UNCHANGED cards
    BY <1>13 DEF Find
  <2>2. stage' \in Reusing => Reusable(cur') /\ cur' \in Cards
    BY <1>13 DEF Find, Candidate, OpenListed
  <2>3. \A d \in Cards : Reusable(d) => cards[d].how = "soft"
    BY DEF Reusable, EndsAreTrue, EndIsTrue, TypeOK, Card
  <2>4. QED BY <2>1, <2>2, <2>3 DEF ReuseInHand
<1>14. CASE Prepare \/ Prepared
  BY <1>14, WritesKeepEnd, CountsOfWrites, TypeParts DEF Prepare, Prepared
<1>15. CASE PrepareWrite
  BY <1>15, WritesKeepEnd, CountsOfWrites, TypeParts DEF PrepareWrite
<1>16. CASE Reopen
  BY <1>16, WritesKeepEnd, CountsOfWrites, TypeParts DEF Reopen
<1>17. CASE VerifyInert \/ VerifyActive
  BY <1>17, WritesKeepEnd, CountsOfWrites, TypeParts DEF VerifyInert,
     VerifyActive
<1>18. CASE Activate
  BY <1>18, WritesKeepEnd, CountsOfWrites, TypeParts DEF Activate
<1>19. CASE ForceClose
  BY <1>19, WritesKeepEnd, CountsOfWrites, TypeParts DEF ForceClose
<1>20. CASE ForceLabels
  BY <1>20, WritesKeepEnd, CountsOfWrites, TypeParts DEF ForceLabels
<1>21. CASE Create
  BY <1>21, WritesKeepEnd, CountsOfWrites, TypeParts DEF Create
<1>22. CASE VerifyCreated
  BY <1>22, WritesKeepEnd, CountsOfWrites, TypeParts DEF VerifyCreated
<1>23. CASE Rollback
  BY <1>23, WritesKeepEnd, CountsOfWrites, TypeParts DEF Rollback
<1>24. ASSUME NEW c \in Cards, Absent(c) PROVE ReuseInHand'
  <2>1. stage' \notin Reusing
    BY <1>24 DEF Absent, GotoCard, Reusing
  <2>2. QED BY <2>1 DEF ReuseInHand
<1>25. ASSUME NEW c \in Cards, Gone(c) PROVE ReuseInHand'
  BY <1>25, WritesKeepEnd, CountsOfWrites, TypeParts DEF Gone
<1>26. CASE AbsentWrite
  BY <1>26, WritesKeepEnd, CountsOfWrites, TypeParts DEF AbsentWrite
<1>27. CASE SecondWrite
  BY <1>27, WritesKeepEnd, CountsOfWrites, TypeParts DEF SecondWrite
<1>28. CASE ClearWrite
  BY <1>28, WritesKeepEnd, CountsOfWrites, TypeParts DEF ClearWrite
<1>29. CASE CloseComment \/ CardsDone
  BY <1>29, WritesKeepEnd, CountsOfWrites, TypeParts DEF CloseComment,
     CardsDone
<1>30. CASE CloseCard
  BY <1>30, WritesKeepEnd, CountsOfWrites, TypeParts DEF CloseCard
<1>31. CASE UNCHANGED vars
  BY <1>31 DEF vars, ReuseInHand, IsOpen
<1>32. ASSUME NEW c \in Cards, AuditStaged(c) PROVE ReuseInHand'
  BY <1>32 DEF AuditStaged
<1>33. ASSUME NEW c \in Cards, AuditEnds(c) PROVE ReuseInHand'
  BY <1>33 DEF AuditEnds
<1>34. QED BY <1>1, <1>2, <1>3, <1>4, <1>5, <1>6, <1>7, <1>8, <1>9, <1>10,
   <1>11, <1>12, <1>13, <1>14, <1>15, <1>16, <1>17, <1>18, <1>19, <1>20,
   <1>21, <1>22, <1>23, <1>24, <1>25, <1>26, <1>27, <1>28, <1>29, <1>30,
   <1>31,
   <1>32, <1>33 DEF Next, RunStep, People, ItemStep, CloseStep, AuditStep

\* The invariant of the ends of cards, and of the card at hand.
LEMMA ReuseAlways == Spec => [](EndsAreTrue /\ CardInHand /\ ReuseInHand)
<1>1. Init => EndsAreTrue /\ CardInHand /\ ReuseInHand
  BY DEF Init, EndsAreTrue, EndIsTrue, CardInHand, Closing, Unrecorded,
     ReuseInHand, Reusing, NoIssue
<1>2. /\ TypeOK /\ AbsenceInvariant /\ EndsAreTrue /\ CardInHand /\ ReuseInHand
      /\ [Next]_vars
      => EndsAreTrue' /\ CardInHand' /\ ReuseInHand'
  BY EndsAreTrueStep, CardInHandStep, ReuseInHandStep
<1>3. QED BY <1>1, <1>2, CardTypeCorrect, AbsenceRecordsAreTrue, PTL DEF Spec

\* The run reopens only a card that it had soft-closed for absence: one that the
\* owner closed, a decision consumed, a rollback ended or the target took with it
\* is reopened only if somebody interferes with it in this very run.
THEOREM OnlySoftClosedReopened == Spec => ReopensOnlySoftClosed
<1>1. ReuseInHand
        => [\A c \in Cards : stage = "reopen" /\ cur = c /\ fresh[c] /\ ~IsOpen(c)
                               /\ cards'[c].st = "open"
                               => cards[c].how = "soft"]_vars
  BY DEF ReuseInHand, Reusing
<1>2. QED BY <1>1, ReuseAlways, PTL DEF ReopensOnlySoftClosed
=============================================================================
