------------------------ MODULE AutoMergeAuditProofs -------------------------
(***************************************************************************)
(* The audit transaction holds for any number of cards and any bounds: the *)
(* inductive invariant AuditInvariant, one step per action, and from it    *)
(* the safety properties and the step simulation of AuditedMerge.          *)
(***************************************************************************)
EXTENDS AutoMergeProofs

\* The invariant, its conjuncts by name.
MergedAll == \A c \in Cards : MergedInv(c)

Parts == MergedAll /\ StartInv /\ ClaimInv /\ DoneInv /\ CandidateInv
         /\ ResultsInv /\ RecordInv

-----------------------------------------------------------------------------
(* What a step may do to a merged card.                                     *)

\* The step leaves what a merge left behind: the head, the verdict, and a
\* record by which a later run finds it, or the ledger row.
MergesKept ==
    \A c \in Cards : mergedBy'[c] = "wheelhouse" =>
        /\ mergedBy[c] = "wheelhouse"
        /\ prState'[c] = prState[c] /\ prHead'[c] = prHead[c]
        /\ body'[c].head = body[c].head /\ body'[c].verdict = body[c].verdict
        /\ files'.seen[c] \in {0, files.seen[c]}
        /\ \/ Identity(c) \in recorded'
           \/ body'[c].audit = "intent"
           \/ body'[c].audit = "pending" /\ "claim" \in labels'[c]
        /\ "resolved" \in labels'[c] => Identity(c) \in recorded'

\* A step that leaves the merged cards alone keeps MergedInv of every card.
LEMMA MergedKept ==
    ASSUME MergedAll, MergesKept PROVE MergedAll'
<1> SUFFICES ASSUME NEW c \in Cards, mergedBy'[c] = "wheelhouse"
             PROVE  MergedInv(c)'
  BY DEF MergedAll, MergedInv
<1>1. MergedInv(c) /\ mergedBy[c] = "wheelhouse"
  BY DEF MergedAll, MergesKept
<1>2. body'[c].head = body[c].head
  BY DEF MergesKept
<1>3. Identity(c)' = Identity(c)
  BY <1>2 DEF Identity
<1>4. QED BY <1>1, <1>2, <1>3 DEF MergedInv, MergesKept

\* So does a step that changes neither targets nor cards, ledger and scan.
LEMMA QuietKept ==
    ASSUME MergedAll, UNCHANGED <<prState, prHead, mergedBy, recorded, labels, body>>,
           files'.seen = files.seen
    PROVE  MergedAll'
BY DEF MergedAll, MergedInv, Identity

\* A merged card that carries no record, or only a completed one without the
\* claim label by which it is found, is in the ledger.
LEMMA MergedCards ==
    ASSUME MergedAll, NEW c \in Cards, mergedBy[c] = "wheelhouse"
    PROVE  /\ prState[c] = "merged"
           /\ body[c].head = prHead[c] /\ body[c].verdict
           /\ files.seen[c] \in {0, body[c].head}
           /\ body[c].audit \notin {"intent", "pending"} => Identity(c) \in recorded
           /\ body[c].audit = "pending" /\ "claim" \notin labels[c]
                 => Identity(c) \in recorded
           /\ "resolved" \in labels[c] => Identity(c) \in recorded
BY DEF MergedAll, MergedInv

-----------------------------------------------------------------------------
(* People and triage.                                                       *)

\* A step that changes no more of a card than its ticks and its comments.
LEMMA TicksOnly ==
    ASSUME AuditInvariant, TypeInv', UNCHANGED <<targets, labels, recorded, loop, files>>,
           \A e \in Cards : /\ body'[e].head = body[e].head
                            /\ body'[e].verdict = body[e].verdict
                            /\ body'[e].audit = body[e].audit
    PROVE  AuditInvariant'
<1> USE DEF targets, loop
<1>1. \A e \in Cards : Identity(e)' = Identity(e)
  BY DEF Identity
<1>2. \A e \in Cards : Accounted(e)' = Accounted(e)
  BY <1>1 DEF Accounted
<1>3. \A e \in Cards : MergedInv(e) => MergedInv(e)'
  BY <1>1 DEF MergedInv
<1>4. StartInv => StartInv'
  BY DEF StartInv
<1>5. /\ cur \in Cards \/ stage \notin CardStages
      /\ files.claims \cup files.valid \subseteq Cards
      /\ files.merges \cup files.backfill \cup files.staged \subseteq Cards
      /\ files.releases \cup files.holds \subseteq Cards
  BY FilesFields DEF AuditInvariant, TypeInv, TypeOK, CursorInv
<1>6. ClaimInv => ClaimInv'
  BY <1>2, <1>5 DEF ClaimInv, CardStages, ClaimStages
<1>7. DoneInv => DoneInv'
  BY <1>5 DEF DoneInv
<1>8. CandidateInv => CandidateInv'
  BY <1>5 DEF CandidateInv, Rereadable, CardStages, CandidateStages, PendingStages
<1>9. ResultsInv => ResultsInv'
  BY <1>1, <1>5 DEF ResultsInv
<1>10. RecordInv => RecordInv'
  BY <1>1, <1>5 DEF RecordInv, Rereadable, CardStages, CandidateStages
<1>11. QED
  BY <1>3, <1>4, <1>6, <1>7, <1>8, <1>9, <1>10 DEF AuditInvariant

\* What people do and what the triage publishes: a pull request that moves or
\* is closed was not merged, and an edit of the owner only ticks a box.
LEMMA AuditPeople ==
    ASSUME AuditInvariant, TypeInv', NEW c \in Cards, People \/ TriagePublishes(c)
    PROVE  AuditInvariant'
<1> USE ConstantsAssumption
    DEF AuditInvariant, TypeInv, TypeOK, CursorInv, Body, MergedInv, StartInv,
        ClaimInv, DoneInv, CandidateInv, ResultsInv, RecordInv, Accounted, Identity,
        Rereadable, CandidateStages, PendingStages, ActStages, ClaimStages,
        ResolveStages, ReleaseStages, CardStages, targets, card, audit, loop, bounds
<1>1. ASSUME NEW d \in Cards, Push(d) PROVE AuditInvariant'
  BY <1>1 DEF Push
<1>2. ASSUME NEW d \in Cards, GatesFlip(d) PROVE AuditInvariant'
  BY <1>2 DEF GatesFlip
<1>3. ASSUME NEW d \in Cards, NEW s \in {"merged", "closed"}, PersonEnds(d, s)
      PROVE  AuditInvariant'
  BY <1>3 DEF PersonEnds
<1>4. ASSUME NEW d \in Cards, OwnerTicks(d) PROVE AuditInvariant'
  <2>1. \A e \in Cards : /\ body'[e].head = body[e].head
                         /\ body'[e].verdict = body[e].verdict
                         /\ body'[e].audit = body[e].audit
    BY <1>4 DEF OwnerTicks
  <2>2. UNCHANGED <<targets, labels, recorded, loop, files>>
    BY <1>4 DEF OwnerTicks
  <2> HIDE DEF AuditInvariant, TypeInv
  <2>3. QED BY <2>1, <2>2, TicksOnly
<1>5. ASSUME NEW d \in Cards, OwnerComments(d) PROVE AuditInvariant'
  BY <1>5 DEF OwnerComments
<1>6. ASSUME NEW d \in Cards, OwnerCloses(d) PROVE AuditInvariant'
  BY <1>6 DEF OwnerCloses
<1>7. ASSUME NEW d \in Cards, BystanderComments(d) PROVE AuditInvariant'
  BY <1>7 DEF BystanderComments
<1>8. CASE TriagePublishes(c)
  BY <1>8 DEF TriagePublishes
<1> HIDE DEF AuditInvariant
<1>9. QED BY <1>1, <1>2, <1>3, <1>4, <1>5, <1>6, <1>7, <1>8 DEF People

-----------------------------------------------------------------------------
(* Faults.                                                                  *)

\* A lost runner, a step that dies, a call that fails, a hand-off that cannot
\* be written: no card loses its record, and only the claims that hold none are
\* given back.
LEMMA AuditFaults ==
    ASSUME AuditInvariant, TypeInv',
           RunnerLost \/ StepDies \/ CallFails \/ WriteHandoffFails
    PROVE  AuditInvariant'
<1> USE DEF Fault, Enter, targets, card, audit, bounds
<1>1. TypeOK /\ CursorInv /\ Parts /\ files \in Files
  BY DEF AuditInvariant, Parts, MergedAll, TypeInv, TypeOK
<1>2. CASE RunnerLost
  <2>1. UNCHANGED <<targets, card, audit>> /\ files' = NoFiles /\ stage' = "idle"
    BY <1>2 DEF RunnerLost
  <2>2. files'.seen = [c \in Cards |-> 0] /\ files'.merges = {} /\ files'.backfill = {}
        /\ files'.staged = {}
    BY <2>1 DEF NoFiles
  <2>3. MergedAll'
    BY <1>1, <2>1, <2>2 DEF Parts, MergedAll, MergedInv, Identity
  <2>4. DoneInv'
    BY <1>1, <2>1, <2>2 DEF Parts, DoneInv, PendingStages
  <2>5. StartInv' /\ ClaimInv' /\ CandidateInv' /\ ResultsInv' /\ RecordInv'
    BY <2>1 DEF StartInv, ClaimInv, CandidateInv, ResultsInv, RecordInv, ClaimStages,
       CandidateStages, PendingStages, ActStages, ResolveStages, ReleaseStages
  <2>6. QED BY <2>3, <2>4, <2>5 DEF AuditInvariant, MergedAll
<1>3. CASE StepDies
  <2>1. UNCHANGED <<targets, card, audit>> /\ stage' = "record"
    BY <1>3 DEF StepDies
  <2>2. /\ files'.seen = files.seen /\ files'.staged = files.staged
        /\ files'.merges = {} /\ files'.backfill = {} /\ files'.releases = {}
        /\ files'.holds = {}
    BY <1>1, <1>3 DEF StepDies, Files
  <2>3. MergedAll'
    BY <1>1, <2>1, <2>2, QuietKept DEF Parts
  <2>4. DoneInv'
    BY <1>1, <2>1, <2>2 DEF Parts, DoneInv, PendingStages
  <2>5. StartInv' /\ ClaimInv' /\ CandidateInv' /\ ResultsInv' /\ RecordInv'
    BY <2>1, <2>2 DEF StartInv, ClaimInv, CandidateInv, ResultsInv, RecordInv,
       ClaimStages, CandidateStages, PendingStages, ActStages, ResolveStages,
       ReleaseStages
  <2>6. QED BY <2>3, <2>4, <2>5 DEF AuditInvariant, MergedAll
<1>4. CASE CallFails
  <2>1. UNCHANGED <<targets, card, audit>> /\ stage' \in {"claim", "act", "resolve"}
        /\ todo' = todo
    BY <1>4 DEF CallFails
  <2>2. /\ files'.seen = files.seen /\ files'.staged = files.staged
        /\ files'.claims = files.claims /\ files'.valid = files.valid
        /\ files'.merges = files.merges /\ files'.backfill = files.backfill
        /\ files'.releases = files.releases /\ files'.written = files.written
        /\ \/ files'.holds = files.holds
           \/ /\ stage \in {"holdRead", "holdWrite"}
              /\ files'.holds = files.holds \cup {cur}
    BY <1>1, <1>4 DEF CallFails, Files
  <2>3. MergedAll'
    BY <1>1, <2>1, <2>2, QuietKept DEF Parts
  <2>4. DoneInv'
    BY <1>1, <2>1, <2>2 DEF Parts, DoneInv, PendingStages
  <2>5. CASE stage' = "claim"
    <3>1. stage \in {"label", "confirm"} /\ files'.holds = files.holds
      BY <1>4, <2>2, <2>5 DEF CallFails
    <3>2. StartInv' /\ ClaimInv'
      BY <1>1, <2>1, <2>2, <2>5, <3>1
         DEF Parts, StartInv, ClaimInv, Accounted, Identity, ClaimStages
    <3>3. CandidateInv' /\ ResultsInv' /\ RecordInv'
      BY <2>5 DEF CandidateInv, ResultsInv, RecordInv, CandidateStages,
         PendingStages, ActStages, ResolveStages, ReleaseStages
    <3>4. QED BY <2>3, <2>4, <3>2, <3>3 DEF AuditInvariant, MergedAll
  <2>6. CASE stage' = "act"
    <3>1. stage \in CandidateStages
      BY <1>4, <2>6 DEF CallFails, CandidateStages
    <3>2. ResultsInv'
      BY <1>1, <2>1, <2>2, <2>6, <3>1
         DEF Parts, CandidateInv, ResultsInv, ActStages, Identity
    <3>3. StartInv' /\ ClaimInv' /\ CandidateInv' /\ RecordInv'
      BY <2>6 DEF StartInv, ClaimInv, CandidateInv, RecordInv, CandidateStages,
         PendingStages, ClaimStages, ResolveStages, ReleaseStages
    <3>4. QED BY <2>3, <2>4, <3>2, <3>3 DEF AuditInvariant, MergedAll
  <2>7. CASE stage' = "resolve"
    <3>1. stage = "resolveClose"
      BY <1>4, <2>7 DEF CallFails
    <3>2. RecordInv'
      BY <1>1, <2>1, <2>2, <2>7, <3>1
         DEF Parts, RecordInv, ResolveStages, ReleaseStages, Identity
    <3>3. StartInv' /\ ClaimInv' /\ CandidateInv' /\ ResultsInv'
      BY <2>7 DEF StartInv, ClaimInv, CandidateInv, ResultsInv, CandidateStages,
         PendingStages, ActStages, ClaimStages
    <3>4. QED BY <2>3, <2>4, <3>2, <3>3 DEF AuditInvariant, MergedAll
  <2>8. QED BY <2>1, <2>5, <2>6, <2>7
<1>5. CASE WriteHandoffFails
  <2>1. PICK S \in {files.claims, files.valid} : Unlabel(S)
    BY <1>5 DEF WriteHandoffFails
  <2>2. /\ UNCHANGED <<targets, body, recorded>> /\ stage' = "record"
        /\ stage \in {"claim", "validate"}
    BY <1>5 DEF WriteHandoffFails
  <2>3. /\ files'.seen = files.seen /\ files'.staged = files.staged
        /\ files'.merges = files.merges /\ files'.backfill = files.backfill
        /\ files'.releases = files.releases /\ files'.holds = files.holds
    BY <1>1, <1>5 DEF WriteHandoffFails, Files
  <2>4. MergesKept
    <3>1. \A c \in S : Accounted(c)
      BY <1>1, <2>1, <2>2 DEF Parts, ClaimInv, ClaimStages
    <3>2. \A c \in Cards : /\ labels'[c] \subseteq labels[c]
                           /\ c \notin S => labels'[c] = labels[c]
      BY <2>1 DEF Unlabel
    <3>3. QED
      BY <1>1, <2>2, <2>3, <3>1, <3>2, MergedCards
         DEF Parts, MergedAll, MergedInv, MergesKept, Accounted
  <2>5. MergedAll'
    BY <1>1, <2>4, MergedKept DEF Parts
  <2>6. DoneInv'
    BY <1>1, <2>2, <2>3 DEF Parts, DoneInv, PendingStages
  <2>7. StartInv' /\ ClaimInv' /\ CandidateInv' /\ ResultsInv' /\ RecordInv'
    BY <1>1, <2>2, <2>3
       DEF Parts, StartInv, ClaimInv, CandidateInv, ResultsInv, RecordInv, ClaimStages,
           CandidateStages, PendingStages, ActStages, ResolveStages, ReleaseStages
  <2>8. QED BY <2>5, <2>6, <2>7 DEF AuditInvariant, MergedAll
<1>6. QED BY <1>2, <1>3, <1>4, <1>5

-----------------------------------------------------------------------------
(* Listing, scanning, claiming, validating.                                 *)

\* A run lists and scans, claims and validates; the claim labels come off a
\* card only when it carries no completed record that still needs them.
LEMMA AuditClaim ==
    ASSUME AuditInvariant, TypeInv', ClaimStep
    PROVE  AuditInvariant'
<1> USE DEF Enter, OnCard, DoneWith, Goto, targets, card, audit, bounds
<1>1. TypeOK /\ CursorInv /\ Parts /\ files \in Files
  BY DEF AuditInvariant, Parts, MergedAll, TypeInv, TypeOK
<1>2. ASSUME MergedAll', DoneInv', StartInv', ClaimInv',
             stage' \in {"scan", "preclaim", "claim", "label", "confirm", "validate",
                         "recover"}
      PROVE  AuditInvariant'
  BY <1>2 DEF AuditInvariant, MergedAll, CandidateInv, ResultsInv, RecordInv,
     CandidateStages, PendingStages, ActStages, ResolveStages, ReleaseStages
<1>3. ASSUME UNCHANGED <<targets, recorded, body, labels>>, files'.seen = files.seen,
             files'.merges = files.merges, files'.backfill = files.backfill,
             files'.staged = files.staged, stage' \notin PendingStages
      PROVE  MergedAll' /\ DoneInv'
  <2>1. MergedAll'
    BY <1>1, <1>3, QuietKept DEF Parts
  <2>2. QED BY <1>1, <1>3, <2>1 DEF Parts, DoneInv
<1>4. CASE ListCards
  <2>1. UNCHANGED <<targets, card, audit>> /\ stage' = "scan"
    BY <1>4 DEF ListCards
  <2>2. /\ files'.seen = [c \in Cards |-> 0] /\ files'.merges = {} /\ files'.backfill = {}
        /\ files'.staged = {} /\ files'.claims = {} /\ files'.valid = {}
        /\ files'.releases = {} /\ files'.holds = {}
    BY <1>4 DEF ListCards, NoFiles
  <2>3. MergedAll'
    BY <1>1, <2>1, <2>2 DEF Parts, MergedAll, MergedInv, Identity
  <2>4. DoneInv'
    BY <1>1, <2>1, <2>2 DEF Parts, DoneInv, PendingStages
  <2>5. StartInv' /\ ClaimInv'
    BY <2>1, <2>2 DEF StartInv, ClaimInv, ClaimStages
  <2>6. QED BY <1>2, <2>1, <2>3, <2>4, <2>5
<1>5. CASE Scan
  <2>1. UNCHANGED <<targets, card, audit>> /\ stage' = "preclaim" /\ stage = "scan"
    BY <1>5 DEF Scan
  <2>2. /\ files'.merges = files.merges /\ files'.backfill = files.backfill
        /\ files'.staged = files.staged /\ files'.claims = files.claims
        /\ files'.valid = files.valid
        /\ files'.releases = files.releases /\ files'.holds = files.holds
        /\ files'.seen = [c \in Cards |-> IF prState[c] = "open" THEN prHead[c] ELSE 0]
    BY <1>1, <1>5 DEF Scan, Files
  <2>3. MergedAll'
    BY <1>1, <2>1, <2>2 DEF Parts, MergedAll, MergedInv, Identity
  <2>4. DoneInv'
    BY <1>1, <2>1, <2>2 DEF Parts, DoneInv, PendingStages
  <2>5. StartInv' /\ ClaimInv'
    BY <1>1, <2>1, <2>2 DEF Parts, StartInv, ClaimInv, ClaimStages
  <2>6. QED BY <1>2, <2>1, <2>3, <2>4, <2>5
<1>6. CASE Preclaim
  <2>1. UNCHANGED <<targets, card, audit>> /\ stage' = "claim" /\ stage = "preclaim"
    BY <1>6 DEF Preclaim
  <2>2. /\ files'.seen = files.seen
        /\ files'.merges = files.merges /\ files'.backfill = files.backfill
        /\ files'.staged = files.staged /\ files'.claims = files.claims
        /\ files'.valid = files.valid
        /\ files'.releases = files.releases /\ files'.holds = files.holds
    BY <1>1, <1>6 DEF Preclaim, Files
  <2>3. StartInv' /\ ClaimInv'
    BY <1>1, <2>1, <2>2 DEF Parts, StartInv, ClaimInv, ClaimStages
  <2>4. QED BY <1>2, <1>3, <2>1, <2>2, <2>3 DEF PendingStages
<1>7. ASSUME NEW c \in Cards, RecoverStaleClaim(c) PROVE AuditInvariant'
  <2>1. /\ UNCHANGED <<targets, body, audit, files>> /\ stage' = "claim" /\ stage = "claim"
        /\ Unlabel({c}) /\ ~Protected(c)
    BY <1>7 DEF RecoverStaleClaim, StaleClaim
  <2>2. MergesKept
    BY <1>1, <2>1, MergedCards DEF Parts, MergesKept, Unlabel, Protected, MergedAll,
       MergedInv, TypeOK
  <2>3. MergedAll'
    BY <1>1, <2>2, MergedKept DEF Parts
  <2>4. DoneInv' /\ StartInv' /\ ClaimInv'
    BY <1>1, <2>1
       DEF Parts, DoneInv, StartInv, ClaimInv, Accounted, Identity, ClaimStages,
           PendingStages
  <2>5. QED BY <1>2, <2>1, <2>3, <2>4
<1>8. ASSUME NEW c \in Cards, KeepIntentClaim(c) PROVE AuditInvariant'
  <2>1. /\ UNCHANGED <<targets, card, audit>> /\ stage' = "claim" /\ stage = "claim"
        /\ body[c].audit = "intent"
    BY <1>8 DEF KeepIntentClaim
  <2>2. /\ files'.seen = files.seen
        /\ files'.merges = files.merges /\ files'.backfill = files.backfill
        /\ files'.staged = files.staged /\ files'.claims = files.claims \cup {c}
        /\ files'.valid = files.valid
        /\ files'.releases = files.releases /\ files'.holds = files.holds
    BY <1>1, <1>8 DEF KeepIntentClaim, Files
  <2>3. StartInv' /\ ClaimInv'
    BY <1>1, <2>1, <2>2
       DEF Parts, StartInv, ClaimInv, Accounted, Identity, ClaimStages
  <2>4. QED BY <1>2, <1>3, <2>1, <2>2, <2>3 DEF PendingStages
<1>9. ASSUME NEW c \in Cards, ReadForClaim(c) PROVE AuditInvariant'
  <2>1. /\ UNCHANGED <<targets, card, audit, files>> /\ stage' = "label" /\ stage = "claim"
        /\ cur' = c /\ "claim" \notin labels[c]
    BY <1>9 DEF ReadForClaim, Claimable, Refreshable, ClaimLabels
  <2>2. Accounted(c)
    BY <1>1, <2>1, MergedCards DEF Parts, Accounted, TypeOK, Body
  <2>3. StartInv' /\ ClaimInv'
    BY <1>1, <2>1, <2>2
       DEF Parts, StartInv, ClaimInv, Accounted, Identity, ClaimStages
  <2>4. QED BY <1>2, <1>3, <2>1, <2>3 DEF PendingStages
<1>10. ASSUME NEW c \in Cards, SkipClaim(c) PROVE AuditInvariant'
  <2>1. UNCHANGED <<targets, card, audit, files>> /\ stage' = "claim" /\ stage = "claim"
    BY <1>10 DEF SkipClaim
  <2>2. StartInv' /\ ClaimInv'
    BY <1>1, <2>1 DEF Parts, StartInv, ClaimInv, Accounted, Identity, ClaimStages
  <2>3. QED BY <1>2, <1>3, <2>1, <2>2 DEF PendingStages
<1>11. ASSUME NEW c \in Cards, ValidateClaim(c) PROVE AuditInvariant'
  <2>1. /\ UNCHANGED <<targets, body, audit>> /\ stage' = "validate"
        /\ stage = "validate" /\ c \in todo /\ todo' = todo \ {c}
    BY <1>11 DEF ValidateClaim
  <2>2. /\ files'.seen = files.seen
        /\ files'.merges = files.merges /\ files'.backfill = files.backfill
        /\ files'.staged = files.staged /\ files'.claims = files.claims
        /\ files'.valid \subseteq files.valid \cup {c}
        /\ files'.releases = files.releases /\ files'.holds = files.holds
    BY <1>1, <1>11 DEF ValidateClaim, Files
  <2>3. labels' = labels \/ (~Protected(c) /\ Unlabel({c}))
    BY <1>11 DEF ValidateClaim
  <2>4. MergesKept
    BY <1>1, <2>1, <2>2, <2>3, MergedCards
       DEF Parts, MergesKept, Unlabel, Protected, MergedAll, MergedInv, TypeOK
  <2>5. MergedAll'
    BY <1>1, <2>4, MergedKept DEF Parts
  <2>6. DoneInv'
    BY <1>1, <2>1, <2>2 DEF Parts, DoneInv, PendingStages
  <2>7. StartInv' /\ ClaimInv'
    BY <1>1, <2>1, <2>2
       DEF Parts, StartInv, ClaimInv, Accounted, Identity, ClaimStages
  <2>8. QED BY <1>2, <2>1, <2>5, <2>6, <2>7
<1>12. CASE LabelClaim
  <2>1. /\ UNCHANGED <<targets, body, audit, files, cur>> /\ stage' = "confirm"
        /\ stage = "label"
        /\ labels' = [labels EXCEPT ![cur] = labels[cur] \cup ClaimLabels]
    BY <1>12 DEF LabelClaim
  <2>2. \A c \in Cards : /\ labels[c] \subseteq labels'[c]
                         /\ "resolved" \in labels'[c] => "resolved" \in labels[c]
    BY <1>1, <2>1 DEF TypeOK, ClaimLabels
  <2>3. MergedAll'
    BY <1>1, <2>1, <2>2 DEF Parts, MergedAll, MergedInv, Identity
  <2>4. DoneInv' /\ StartInv' /\ ClaimInv'
    BY <1>1, <2>1
       DEF Parts, DoneInv, StartInv, ClaimInv, Accounted, Identity, ClaimStages,
           PendingStages
  <2>5. QED BY <1>2, <2>1, <2>3, <2>4
<1>13. CASE ConfirmClaim
  <2>1. /\ UNCHANGED <<targets, body, audit>> /\ stage' = "claim" /\ stage = "confirm"
        /\ cur \in Cards /\ Accounted(cur)
    BY <1>1, <1>13 DEF ConfirmClaim, CursorInv, CardStages, Parts, ClaimInv
  <2>2. /\ files'.seen = files.seen
        /\ files'.merges = files.merges /\ files'.backfill = files.backfill
        /\ files'.staged = files.staged
        /\ files'.claims \subseteq files.claims \cup {cur}
        /\ files'.valid = files.valid
        /\ files'.releases = files.releases /\ files'.holds = files.holds
    BY <1>1, <1>13 DEF ConfirmClaim, Files
  <2>3. labels' = labels \/ Unlabel({cur})
    BY <1>13 DEF ConfirmClaim
  <2>4. MergesKept
    BY <1>1, <2>1, <2>2, <2>3, MergedCards
       DEF Parts, MergesKept, Unlabel, Accounted, MergedAll, MergedInv, TypeOK
  <2>5. MergedAll'
    BY <1>1, <2>4, MergedKept DEF Parts
  <2>6. DoneInv'
    BY <1>1, <2>1, <2>2 DEF Parts, DoneInv, PendingStages
  <2>7. StartInv' /\ ClaimInv'
    BY <1>1, <2>1, <2>2
       DEF Parts, StartInv, ClaimInv, Accounted, Identity, ClaimStages
  <2>8. QED BY <1>2, <2>1, <2>5, <2>6, <2>7
<1>14. CASE WriteClaims
  <2>1. /\ UNCHANGED <<targets, card, audit, files>> /\ stage' = "validate"
        /\ stage = "claim" /\ todo' = files.claims
    BY <1>14 DEF WriteClaims
  <2>2. StartInv' /\ ClaimInv'
    BY <1>1, <2>1 DEF Parts, StartInv, ClaimInv, Accounted, Identity, ClaimStages
  <2>3. QED BY <1>2, <1>3, <2>1, <2>2 DEF PendingStages
<1>15. CASE WriteValidated
  <2>1. UNCHANGED <<targets, card, audit, files>> /\ stage' = "recover"
    BY <1>15 DEF WriteValidated
  <2>2. StartInv' /\ ClaimInv'
    BY <2>1 DEF StartInv, ClaimInv, ClaimStages
  <2>3. QED BY <1>2, <1>3, <2>1, <2>2 DEF PendingStages
<1>16. QED
  BY <1>4, <1>5, <1>6, <1>7, <1>8, <1>9, <1>10, <1>11, <1>12, <1>13, <1>14, <1>15
     DEF ClaimStep

-----------------------------------------------------------------------------
(* The act step.                                                            *)

\* The act step merges only a candidate whose intent is on its card, and keeps
\* that intent, or the completed record, whatever it is answered.
LEMMA AuditAct ==
    ASSUME AuditInvariant, TypeInv', ActStep
    PROVE  AuditInvariant'
<1> USE DEF Enter, OnCard, DoneWith, Goto, HoldCandidate, HoldAndRelease, targets,
            card, audit, bounds
<1>1. TypeOK /\ CursorInv /\ Parts /\ files \in Files
  BY DEF AuditInvariant, Parts, MergedAll, TypeInv, TypeOK
<1>2. ASSUME MergedAll', DoneInv', CandidateInv', ResultsInv',
             stage' \in ActStages \cup {"record"}
      PROVE  AuditInvariant'
  BY <1>2 DEF AuditInvariant, MergedAll, StartInv, ClaimInv, RecordInv, ClaimStages,
     CandidateStages, PendingStages, ActStages, ResolveStages, ReleaseStages
<1>3. ASSUME stage \in CandidateStages \cup PendingStages
      PROVE  /\ cur \in Cards /\ cur \notin todo /\ cur \notin files.holds
             /\ body[cur].head = files.seen[cur] /\ body[cur].verdict
             /\ todo \cap files.holds = {}
             /\ \A c \in files.holds : mergedBy[c] # "wheelhouse"
             /\ \A c \in files.releases : mergedBy[c] = "wheelhouse" =>
                                             Identity(c) \in recorded
             /\ \A c \in files.merges \ files.backfill : "claim" \in labels[c]
  BY <1>1, <1>3 DEF CursorInv, CardStages, Parts, CandidateInv, ResultsInv, ActStages
<1>4. ASSUME UNCHANGED <<targets, recorded, body, labels>>, files'.seen = files.seen,
             files'.merges = files.merges, files'.backfill = files.backfill,
             files'.staged = files.staged, stage' \notin PendingStages
      PROVE  MergedAll' /\ DoneInv'
  <2>1. MergedAll'
    BY <1>1, <1>4, QuietKept DEF Parts
  <2>2. QED BY <1>1, <1>4, <2>1 DEF Parts, DoneInv
<1>5. ASSUME NEW found \in {ClosedIntents, {}}, RecoverIntents(found)
      PROVE  AuditInvariant'
  <2>1. found \subseteq Cards /\ \A c \in found : body[c].audit = "intent"
    BY DEF ClosedIntents
  <2> DEFINE backfill == {c \in found : prState[c] = "merged" /\ prHead[c] = body[c].head}
             held == {c \in files.valid : /\ body[c].audit = "intent"
                                          /\ prState[c] # "merged" /\ body[c].hold}
             free == {c \in files.valid : ~Protected(c)} \cup {c \in held : HoldAccepted(c)}
  <2>2. /\ UNCHANGED <<targets, card, audit>> /\ stage' = "act"
        /\ todo' = files.ready \ (backfill \cup held)
    BY <1>5 DEF RecoverIntents
  <2>3. /\ files'.seen = files.seen /\ files'.staged = files.staged
        /\ files'.merges = backfill /\ files'.backfill = backfill
        /\ files'.holds = held /\ files'.releases = free
    BY <1>1, <1>5 DEF RecoverIntents, Files
  <2>4. files.valid \subseteq Cards
    BY <1>1, FilesFields
  <2>5. MergedAll'
    BY <1>1, <2>2, <2>3, QuietKept DEF Parts
  <2>6. DoneInv'
    BY <1>1, <2>2, <2>3 DEF Parts, DoneInv, PendingStages
  <2>7. \A c \in held : mergedBy[c] # "wheelhouse"
    BY <1>1, <2>4, MergedCards DEF Parts
  <2>8. \A c \in free : mergedBy[c] = "wheelhouse" => Identity(c) \in recorded
    BY <1>1, <2>4, <2>7, MergedCards DEF Parts, Protected
  <2> HIDE DEF backfill, held, free
  <2>9. ResultsInv' /\ CandidateInv'
    BY <2>2, <2>3, <2>7, <2>8
       DEF ResultsInv, CandidateInv, Identity, ActStages, CandidateStages, PendingStages
  <2>10. QED BY <1>2, <2>2, <2>5, <2>6, <2>9 DEF ActStages
<1>6. ASSUME NEW c \in Cards, Evaluate(c) PROVE AuditInvariant'
  <2>1. /\ UNCHANGED <<targets, card, audit, files>> /\ stage = "act" /\ c \in todo
        /\ todo' = todo \ {c} /\ stage' \in {"act", "stageRead"}
        /\ stage' = "stageRead" => /\ cur' = c /\ body[c].head = files.seen[c]
                                   /\ body[c].verdict /\ prState[c] = "open"
    BY <1>6 DEF Evaluate, Eligible, VerdictEligible, TargetReady
  <2>2. stage' = "stageRead" => mergedBy[c] # "wheelhouse"
    BY <1>1, <2>1, MergedCards DEF Parts
  <2>3. ResultsInv' /\ c \notin files.holds
    BY <1>1, <2>1 DEF Parts, ResultsInv, ActStages, CandidateStages, Identity
  <2>4. CandidateInv'
    BY <2>1, <2>2, <2>3 DEF CandidateInv, CandidateStages, PendingStages
  <2>5. QED BY <1>2, <1>4, <2>1, <2>3, <2>4 DEF ActStages, CandidateStages, PendingStages
<1>7. CASE StageRead
  <2>1. /\ UNCHANGED <<targets, card, audit, todo>>
        /\ stage = "stageRead" /\ stage' \in {"act", "stageWrite", "g7"}
        /\ stage' # "act" => cur' = cur /\ "claim" \in labels[cur]
        /\ stage' = "stageWrite" => buf' = body[cur]
        /\ stage' = "g7" => body[cur].audit = "intent"
    BY <1>7 DEF StageRead, ClaimMatches, Claimed, ClaimLabels
  <2>2. /\ files'.seen = files.seen
        /\ files'.merges = files.merges /\ files'.backfill = files.backfill
        /\ files'.staged = files.staged /\ files'.holds = files.holds
        /\ files'.releases \subseteq files.releases
        /\ stage' = "g7" => cur \notin files'.releases
    BY <1>1, <1>7 DEF StageRead, Files
  <2>3. mergedBy[cur] # "wheelhouse"
    BY <1>1, <2>1 DEF Parts, CandidateInv, CandidateStages
  <2>4. ResultsInv'
    BY <1>3, <2>1, <2>2 DEF ResultsInv, ActStages, CandidateStages, Identity
  <2>5. CandidateInv'
    BY <1>3, <2>1, <2>2, <2>3
       DEF CandidateInv, Rereadable, CandidateStages, PendingStages
  <2>6. QED
    BY <1>2, <1>4, <2>1, <2>2, <2>4, <2>5 DEF ActStages, CandidateStages, PendingStages
<1>8. CASE StageWrite
  <2>1. /\ UNCHANGED <<targets, labels, audit, files, todo>>
        /\ stage = "stageWrite" /\ stage' \in {"act", "stageConfirm"}
        /\ stage' = "act" => UNCHANGED body
        /\ stage' = "stageConfirm" =>
              /\ cur' = cur
              /\ body' = [body EXCEPT ![cur] = [buf EXCEPT !.audit = "intent"]]
    BY <1>8 DEF StageWrite
  <2>2. /\ mergedBy[cur] # "wheelhouse" /\ "claim" \in labels[cur]
        /\ buf.head = body[cur].head /\ buf.verdict = body[cur].verdict
        /\ cur \in Cards
    BY <1>1, <1>3, <2>1 DEF Parts, CandidateInv, Rereadable, CandidateStages, PendingStages
  <2>3. \A c \in Cards : /\ body'[c].head = body[c].head
                         /\ body'[c].verdict = body[c].verdict
                         /\ c # cur \/ stage' = "act" => body'[c] = body[c]
    BY <1>1, <2>1, <2>2 DEF TypeOK, Body
  <2>4. stage' = "stageConfirm" => body'[cur].audit = "intent"
    BY <1>1, <2>1, <2>2 DEF TypeOK, Body
  <2>5. \A c \in Cards : Identity(c)' = Identity(c)
    BY <2>3 DEF Identity
  <2>6. MergedAll'
    BY <1>1, <2>1, <2>2, <2>3, <2>5 DEF Parts, MergedAll, MergedInv
  <2>7. DoneInv'
    BY <1>1, <2>1, <2>2, <2>3, <2>4 DEF Parts, DoneInv, PendingStages
  <2>8. files.releases \subseteq Cards
    BY <1>1, FilesFields
  <2>9. ResultsInv'
    BY <1>3, <2>1, <2>5, <2>8 DEF ResultsInv, ActStages, CandidateStages
  <2>10. CandidateInv'
    BY <1>3, <2>1, <2>2, <2>3, <2>4 DEF CandidateInv, CandidateStages, PendingStages
  <2>11. QED
    BY <1>2, <2>1, <2>6, <2>7, <2>9, <2>10 DEF ActStages, CandidateStages, PendingStages
<1>9. CASE StageConfirm
  <2>1. /\ UNCHANGED <<targets, card, audit, todo>>
        /\ stage = "stageConfirm" /\ stage' \in {"act", "g7"}
        /\ stage' = "g7" => cur' = cur
    BY <1>9 DEF StageConfirm
  <2>2. /\ files'.seen = files.seen
        /\ files'.merges = files.merges /\ files'.backfill = files.backfill
        /\ files'.staged = files.staged /\ files'.holds = files.holds
        /\ files'.releases \subseteq files.releases
        /\ stage' = "g7" => cur \notin files'.releases
    BY <1>1, <1>9 DEF StageConfirm, Files
  <2>3. /\ mergedBy[cur] # "wheelhouse" /\ "claim" \in labels[cur]
        /\ body[cur].audit = "intent"
    BY <1>1, <2>1 DEF Parts, CandidateInv, CandidateStages
  <2>4. ResultsInv'
    BY <1>3, <2>1, <2>2 DEF ResultsInv, ActStages, CandidateStages, Identity
  <2>5. CandidateInv'
    BY <1>3, <2>1, <2>2, <2>3 DEF CandidateInv, CandidateStages, PendingStages
  <2>6. QED
    BY <1>2, <1>4, <2>1, <2>2, <2>4, <2>5 DEF ActStages, CandidateStages, PendingStages
<1>10. CASE G7
  <2>1. /\ UNCHANGED <<targets, card, audit, todo>>
        /\ stage = "g7" /\ stage' \in {"act", "guard", "holdRead"}
        /\ stage' # "act" => cur' = cur /\ files' = files
    BY <1>10 DEF G7
  <2>2. /\ files'.seen = files.seen
        /\ files'.merges = files.merges /\ files'.backfill = files.backfill
        /\ files'.staged = files.staged /\ files'.holds = files.holds
        /\ files'.releases \subseteq files.releases \cup {cur}
    BY <1>1, <1>10 DEF G7, Files
  <2>3. /\ mergedBy[cur] # "wheelhouse" /\ "claim" \in labels[cur]
        /\ body[cur].audit = "intent" /\ cur \notin files.releases
    BY <1>1, <2>1 DEF Parts, CandidateInv, CandidateStages
  <2>4. ResultsInv'
    BY <1>3, <2>1, <2>2, <2>3 DEF ResultsInv, ActStages, CandidateStages, Identity
  <2>5. CandidateInv'
    BY <1>3, <2>1, <2>3 DEF CandidateInv, CandidateStages, PendingStages
  <2>6. QED
    BY <1>2, <1>4, <2>1, <2>2, <2>4, <2>5 DEF ActStages, CandidateStages, PendingStages
<1>11. CASE Guard
  <2>1. /\ UNCHANGED <<targets, card, audit, todo>>
        /\ stage = "guard" /\ stage' \in {"act", "put"}
        /\ stage' = "put" => cur' = cur /\ files' = files /\ "resolved" \notin labels[cur]
    BY <1>11 DEF Guard, ClaimMatches, Claimed
  <2>2. /\ files'.seen = files.seen
        /\ files'.merges = files.merges /\ files'.backfill = files.backfill
        /\ files'.staged = files.staged /\ files'.holds = files.holds
        /\ files'.releases \subseteq files.releases \cup {cur}
    BY <1>1, <1>11 DEF Guard, Files
  <2>3. /\ mergedBy[cur] # "wheelhouse" /\ "claim" \in labels[cur]
        /\ body[cur].audit = "intent" /\ cur \notin files.releases
    BY <1>1, <2>1 DEF Parts, CandidateInv, CandidateStages
  <2>4. ResultsInv'
    BY <1>3, <2>1, <2>2, <2>3 DEF ResultsInv, ActStages, CandidateStages, Identity
  <2>5. CandidateInv'
    BY <1>3, <2>1, <2>3 DEF CandidateInv, CandidateStages, PendingStages
  <2>6. QED
    BY <1>2, <1>4, <2>1, <2>2, <2>4, <2>5 DEF ActStages, CandidateStages, PendingStages
<1>12. ASSUME NEW answered \in BOOLEAN, MergeLands(answered) PROVE AuditInvariant'
  <2>1. /\ UNCHANGED <<prHead, card, audit, files, todo>>
        /\ stage = "put" /\ stage' \in {"act", "pendRead"}
        /\ stage' = "pendRead" => cur' = cur
        /\ prHead[cur] = body[cur].head
        /\ prState' = [prState EXCEPT ![cur] = "merged"]
        /\ mergedBy' = [mergedBy EXCEPT ![cur] = "wheelhouse"]
    BY <1>12 DEF MergeLands
  <2>2. /\ "claim" \in labels[cur] /\ "resolved" \notin labels[cur]
        /\ body[cur].audit = "intent" /\ cur \notin files.releases
    BY <1>1, <2>1 DEF Parts, CandidateInv, CandidateStages
  <2>3. \A c \in Cards :
           /\ prState'[c] = IF c = cur THEN "merged" ELSE prState[c]
           /\ mergedBy'[c] = IF c = cur THEN "wheelhouse" ELSE mergedBy[c]
    BY <1>1, <2>1 DEF TypeOK
  <2>4. MergedAll'
    BY <1>1, <1>3, <2>1, <2>2, <2>3
       DEF Parts, MergedAll, MergedInv, Identity, CandidateStages
  <2>5. DoneInv'
    <3>1. \A id \in recorded : id[1] \in Cards
      BY <1>1 DEF TypeOK
    <3>2. files.merges \cup files.backfill \cup files.staged \subseteq Cards
      BY <1>1, FilesFields
    <3>3. cur \in Cards
      BY <1>3, <2>1 DEF CandidateStages
    <3>4. QED
      BY <1>1, <2>1, <2>3, <3>1, <3>2, <3>3 DEF Parts, DoneInv, PendingStages
  <2>6. files.releases \subseteq Cards /\ files.holds \subseteq Cards
    BY <1>1, FilesFields
  <2>7. ResultsInv'
    BY <1>3, <2>1, <2>2, <2>3, <2>6
       DEF ResultsInv, ActStages, CandidateStages, PendingStages, Identity
  <2>8. CandidateInv'
    BY <1>3, <2>1, <2>2 DEF CandidateInv, CandidateStages, PendingStages
  <2>9. QED
    BY <1>2, <2>1, <2>4, <2>5, <2>7, <2>8 DEF ActStages, CandidateStages, PendingStages
<1>13. CASE MergeRefused
  <2>1. /\ UNCHANGED <<targets, card, audit, todo>>
        /\ stage = "put" /\ stage' = "act"
    BY <1>13 DEF MergeRefused
  <2>2. /\ files'.seen = files.seen
        /\ files'.merges = files.merges /\ files'.backfill = files.backfill
        /\ files'.staged = files.staged /\ files'.holds = files.holds
        /\ files'.releases \subseteq files.releases \cup {cur}
    BY <1>1, <1>13 DEF MergeRefused, Files
  <2>3. mergedBy[cur] # "wheelhouse"
    BY <1>1, <2>1 DEF Parts, CandidateInv, CandidateStages
  <2>4. ResultsInv'
    BY <1>3, <2>1, <2>2, <2>3 DEF ResultsInv, ActStages, CandidateStages, Identity
  <2>5. CandidateInv'
    BY <2>1 DEF CandidateInv, CandidateStages, PendingStages
  <2>6. QED
    BY <1>2, <1>4, <2>1, <2>2, <2>4, <2>5 DEF ActStages, CandidateStages, PendingStages
<1>14. CASE PendingRead
  <2>1. /\ UNCHANGED <<targets, card, audit, todo>>
        /\ stage = "pendRead" /\ stage' \in {"act", "pendWrite"}
        /\ stage' = "pendWrite" => cur' = cur /\ buf' = body[cur]
    BY <1>14 DEF PendingRead
  <2>2. /\ files'.seen = files.seen /\ files'.releases = files.releases
        /\ files'.merges \subseteq files.merges \cup {cur}
        /\ files'.backfill = files.backfill
        /\ files'.staged = files.staged /\ files'.holds = files.holds
    BY <1>1, <1>14 DEF PendingRead, Files
  <2>3. /\ "claim" \in labels[cur] /\ prState[cur] = "merged"
        /\ body[cur].audit = "intent" /\ cur \notin files.releases
    BY <1>1, <2>1 DEF Parts, CandidateInv, DoneInv, PendingStages
  <2>4. MergedAll'
    BY <1>1, <2>1, <2>2, QuietKept DEF Parts
  <2>5. DoneInv'
    BY <1>1, <2>1, <2>2, <2>3 DEF Parts, DoneInv, PendingStages
  <2>6. ResultsInv'
    BY <1>3, <2>1, <2>2, <2>3
       DEF ResultsInv, ActStages, CandidateStages, PendingStages, Identity
  <2>7. CandidateInv'
    BY <1>3, <2>1, <2>2, <2>3 DEF CandidateInv, Rereadable, CandidateStages, PendingStages
  <2>8. QED
    BY <1>2, <2>1, <2>4, <2>5, <2>6, <2>7 DEF ActStages, CandidateStages, PendingStages
<1>15. CASE PendingWrite
  <2>1. /\ UNCHANGED <<targets, labels, audit, todo>>
        /\ stage = "pendWrite" /\ stage' = "act"
        /\ \/ body' = body
           \/ body' = [body EXCEPT ![cur] = [buf EXCEPT !.audit = "pending"]]
    BY <1>15 DEF PendingWrite
  <2>2. /\ files'.seen = files.seen /\ files'.releases = files.releases
        /\ files'.merges = files.merges \cup {cur}
        /\ files'.backfill = files.backfill
        /\ files'.staged = files.staged /\ files'.holds = files.holds
    BY <1>1, <1>15 DEF PendingWrite, Files
  <2>3. /\ "claim" \in labels[cur] /\ prState[cur] = "merged"
        /\ buf.head = body[cur].head /\ buf.verdict = body[cur].verdict
    BY <1>1, <2>1 DEF Parts, CandidateInv, DoneInv, Rereadable, CandidateStages,
       PendingStages
  <2>4. \A c \in Cards : /\ body'[c].head = body[c].head
                         /\ body'[c].verdict = body[c].verdict
                         /\ \/ body'[c].audit = body[c].audit
                            \/ c = cur /\ body'[c].audit = "pending"
    BY <1>1, <2>1, <2>3 DEF TypeOK, Body
  <2>5. \A c \in Cards : Identity(c)' = Identity(c)
    BY <2>4 DEF Identity
  <2>6. MergedAll'
    BY <1>1, <2>1, <2>2, <2>3, <2>4, <2>5 DEF Parts, MergedAll, MergedInv
  <2>7. DoneInv'
    BY <1>1, <2>1, <2>2, <2>3, <2>4 DEF Parts, DoneInv, PendingStages
  <2>8. files.releases \subseteq Cards
    BY <1>1, FilesFields
  <2>9. ResultsInv'
    BY <1>3, <2>1, <2>2, <2>3, <2>5, <2>8 DEF ResultsInv, ActStages, PendingStages
  <2>10. CandidateInv'
    BY <2>1 DEF CandidateInv, CandidateStages, PendingStages
  <2>11. QED
    BY <1>2, <2>1, <2>6, <2>7, <2>9, <2>10 DEF ActStages, CandidateStages, PendingStages
<1>16. CASE HoldRead
  <2>1. /\ UNCHANGED <<targets, card, audit, todo>>
        /\ stage = "holdRead" /\ stage' \in {"act", "holdWrite"}
        /\ stage' = "holdWrite" => /\ cur' = cur /\ buf' = body[cur] /\ files' = files
                                   /\ body[cur].audit = "intent"
    BY <1>16 DEF HoldRead, HoldAccepted
  <2>2. /\ files'.seen = files.seen
        /\ files'.merges = files.merges /\ files'.backfill = files.backfill
        /\ files'.staged = files.staged /\ files'.releases = files.releases
        /\ files'.holds \subseteq files.holds \cup {cur}
    BY <1>1, <1>16 DEF HoldRead, Files
  <2>3. /\ mergedBy[cur] # "wheelhouse" /\ "claim" \in labels[cur]
        /\ cur \notin files.releases
    BY <1>1, <2>1 DEF Parts, CandidateInv, CandidateStages
  <2>4. ResultsInv'
    BY <1>3, <2>1, <2>2, <2>3 DEF ResultsInv, ActStages, CandidateStages, Identity
  <2>5. CandidateInv'
    BY <1>3, <2>1, <2>3 DEF CandidateInv, Rereadable, CandidateStages, PendingStages
  <2>6. QED
    BY <1>2, <1>4, <2>1, <2>2, <2>4, <2>5 DEF ActStages, CandidateStages, PendingStages
<1>17. CASE HoldWrite
  <2>1. /\ UNCHANGED <<targets, audit, todo>>
        /\ stage = "holdWrite" /\ stage' = "act"
        /\ \/ UNCHANGED <<body, labels>>
           \/ /\ body' = [body EXCEPT ![cur] = [buf EXCEPT !.hold = TRUE]]
              /\ labels' = [labels EXCEPT ![cur] = labels[cur] \cup {"manual-merge"}]
    BY <1>17 DEF HoldWrite
  <2>2. /\ files'.seen = files.seen
        /\ files'.merges = files.merges /\ files'.backfill = files.backfill
        /\ files'.staged = files.staged
        /\ files'.releases \subseteq files.releases \cup {cur}
        /\ files'.holds \subseteq files.holds \cup {cur}
    BY <1>1, <1>17 DEF HoldWrite, Files
  <2>3. /\ mergedBy[cur] # "wheelhouse" /\ body[cur].audit = "intent"
        /\ buf.head = body[cur].head /\ buf.verdict = body[cur].verdict
        /\ buf.audit = "intent"
    BY <1>1, <2>1 DEF Parts, CandidateInv, Rereadable, CandidateStages
  <2>4. \A c \in Cards : /\ body'[c].head = body[c].head
                         /\ body'[c].verdict = body[c].verdict
                         /\ body'[c].audit = body[c].audit
                         /\ labels[c] \subseteq labels'[c]
                         /\ "resolved" \in labels'[c] => "resolved" \in labels[c]
    BY <1>1, <2>1, <2>3 DEF TypeOK, Body
  <2>5. \A c \in Cards : Identity(c)' = Identity(c)
    BY <2>4 DEF Identity
  <2>6. MergedAll'
    BY <1>1, <2>1, <2>2, <2>4, <2>5 DEF Parts, MergedAll, MergedInv
  <2>7. DoneInv'
    BY <1>1, <2>1, <2>2, <2>4 DEF Parts, DoneInv, PendingStages
  <2>8. files.releases \subseteq Cards /\ files.merges \subseteq Cards
    BY <1>1, FilesFields
  <2>9. ResultsInv'
    BY <1>3, <2>1, <2>2, <2>3, <2>4, <2>5, <2>8 DEF ResultsInv, ActStages, CandidateStages
  <2>10. CandidateInv'
    BY <2>1 DEF CandidateInv, CandidateStages, PendingStages
  <2>11. QED
    BY <1>2, <2>1, <2>6, <2>7, <2>9, <2>10 DEF ActStages, CandidateStages, PendingStages
<1>18. CASE WriteResults
  <2>1. /\ UNCHANGED <<targets, card, audit>> /\ stage = "act" /\ stage' = "record"
    BY <1>18 DEF WriteResults
  <2>2. /\ files'.seen = files.seen /\ files'.staged = files.staged
        /\ \/ /\ files'.merges = files.merges /\ files'.backfill = files.backfill
              /\ files'.releases = files.releases /\ files'.holds = files.holds
           \/ /\ files'.merges = {} /\ files'.backfill = {}
              /\ files'.releases = {} /\ files'.holds = {}
    BY <1>1, <1>18 DEF WriteResults, Files
  <2>3. MergedAll'
    BY <1>1, <2>1, <2>2, QuietKept DEF Parts
  <2>4. DoneInv'
    BY <1>1, <2>1, <2>2 DEF Parts, DoneInv, PendingStages
  <2>5. ResultsInv' /\ CandidateInv'
    BY <1>1, <2>1, <2>2
       DEF Parts, ResultsInv, CandidateInv, Identity, ActStages, CandidateStages,
           PendingStages
  <2>6. QED BY <1>2, <2>1, <2>3, <2>4, <2>5
<1>19. QED
  BY <1>5, <1>6, <1>7, <1>8, <1>9, <1>10, <1>11, <1>12, <1>13, <1>14, <1>15, <1>16,
     <1>17, <1>18 DEF ActStep

-----------------------------------------------------------------------------
(* The record step.                                                         *)

\* The record step completes a record where the act step could not, writes the
\* rows, and clears a record or a label only of a card that is in the ledger or
\* was not merged.
LEMMA AuditRecord ==
    ASSUME AuditInvariant, TypeInv', RecordStep
    PROVE  AuditInvariant'
<1> USE DEF Enter, OnCard, DoneWith, Goto, targets, card, audit, bounds
<1>1. /\ TypeOK /\ CursorInv /\ Parts /\ files \in Files
      /\ \A c \in Cards : body[c] \in Body
  BY DEF AuditInvariant, Parts, MergedAll, TypeInv, TypeOK
<1>2. ASSUME MergedAll', DoneInv', RecordInv', stage' = "recordStage" => ResultsInv',
             stage' \in {"recordStage", "reconcile"} \cup ResolveStages \cup ReleaseStages
      PROVE  AuditInvariant'
  BY <1>2 DEF AuditInvariant, MergedAll, StartInv, ClaimInv, CandidateInv, ResultsInv,
     ClaimStages, CandidateStages, PendingStages, ActStages, ResolveStages, ReleaseStages
<1>3. ASSUME UNCHANGED <<targets, recorded, body, labels, files>>,
             stage' \notin PendingStages
      PROVE  MergedAll' /\ DoneInv'
  <2>1. MergedAll'
    BY <1>1, <1>3, QuietKept DEF Parts
  <2>2. QED BY <1>1, <1>3, <2>1 DEF Parts, DoneInv
<1>4. /\ files.releases \subseteq Cards /\ files.staged \subseteq Cards
      /\ files.merges \subseteq Cards /\ files.backfill \subseteq Cards
      /\ files.holds \subseteq Cards
  BY <1>1, FilesFields
<1>5. CASE RecordBegin
  <2> DEFINE wrote == {c \in files.holds : HoldAccepted(c)}
             free  == IF files.written THEN (files.releases \ files.holds) \cup wrote
                                       ELSE files.valid
  <2>1. PICK pending \in {PendingRecords, {}} :
           /\ stage = "record"
           /\ body' = [c \in Cards |-> IF c \in wrote
                                       THEN [body[c] EXCEPT !.hold = TRUE] ELSE body[c]]
           /\ labels' = [c \in Cards |-> IF c \in wrote
                                         THEN labels[c] \cup {"manual-merge"}
                                         ELSE labels[c]]
           /\ files' = [files EXCEPT !.releases = free, !.staged = pending,
                                     !.merges = files.merges \cup pending]
           /\ stage' = "recordStage" /\ todo' = files.merges \ pending
           /\ UNCHANGED <<targets, audit>>
    BY <1>5 DEF RecordBegin
  <2>2. pending \subseteq Cards /\ \A c \in pending : body[c].audit = "pending"
    BY DEF PendingRecords
  <2>3. /\ files'.seen = files.seen /\ files'.staged = pending
        /\ files'.merges = files.merges \cup pending
        /\ files'.backfill = files.backfill /\ files'.written = files.written
        /\ files'.releases = free
    BY <1>1, <2>1 DEF Files
  <2>4. \A c \in Cards : /\ body'[c].head = body[c].head
                         /\ body'[c].verdict = body[c].verdict
                         /\ body'[c].audit = body[c].audit
                         /\ labels[c] \subseteq labels'[c]
                         /\ "resolved" \in labels'[c] => "resolved" \in labels[c]
    BY <1>1, <2>1 DEF Body
  <2>5. \A c \in Cards : Identity(c)' = Identity(c)
    BY <2>4 DEF Identity
  <2>6. \A c \in free : files.written /\ mergedBy[c] = "wheelhouse" =>
                           Identity(c) \in recorded
    BY <1>1, <2>1 DEF Parts, ResultsInv, ActStages
  <2> HIDE DEF free, wrote
  <2>7. MergedAll'
    BY <1>1, <2>1, <2>3, <2>4, <2>5 DEF Parts, MergedAll, MergedInv
  <2>8. DoneInv'
    BY <1>1, <2>1, <2>2, <2>3, <2>4 DEF Parts, DoneInv, PendingStages
  <2>9. files'.releases \subseteq Cards
    BY FilesFields DEF TypeInv, TypeOK
  <2>10. RecordInv'
    BY <2>1, <2>3, <2>5, <2>6, <2>9 DEF RecordInv, ResolveStages, ReleaseStages
  <2>11. ResultsInv'
    <3>1. \A c \in files.merges \ files.backfill : "claim" \in labels[c]
      BY <1>1, <2>1 DEF Parts, ResultsInv
    <3>2. \A c \in pending : "claim" \in labels[c]
      BY DEF PendingRecords
    <3>3. \A c \in files'.merges \ files'.backfill : "claim" \in labels'[c]
      BY <1>4, <2>2, <2>3, <2>4, <3>1, <3>2
    <3>4. QED BY <2>1, <3>3 DEF ResultsInv, ActStages, CandidateStages, PendingStages
  <2>12. QED BY <1>2, <2>1, <2>7, <2>8, <2>10, <2>11
<1>6. ASSUME NEW c \in Cards, RecordStage(c) PROVE AuditInvariant'
  <2>1. /\ stage = "recordStage" /\ stage' = "recordStage" /\ c \in todo
        /\ todo' = todo \ {c}
        /\ UNCHANGED <<targets, labels, audit>>
        /\ \/ /\ files' = [files EXCEPT !.staged = files.staged \cup {c}]
              /\ body' = body
           \/ /\ files' = [files EXCEPT !.staged = files.staged \cup {c}]
              /\ c \notin files.backfill
              /\ body' = [body EXCEPT ![c].audit = "pending"]
           \/ files' = files /\ body' = body
    BY <1>6 DEF RecordStage
  <2>2. /\ files'.seen = files.seen /\ files'.staged \subseteq files.staged \cup {c}
        /\ files'.merges = files.merges /\ files'.backfill = files.backfill
        /\ files'.written = files.written /\ files'.releases = files.releases
    BY <1>1, <2>1 DEF Files
  <2>3. /\ c \in files.merges /\ prState[c] = "merged"
        /\ c \in files.backfill \/ "claim" \in labels[c]
    BY <1>1, <2>1 DEF Parts, RecordInv, DoneInv, ResultsInv
  <2>4. \A d \in Cards : /\ body'[d].head = body[d].head
                         /\ body'[d].verdict = body[d].verdict
                         /\ \/ body'[d].audit = body[d].audit
                            \/ /\ d = c /\ body'[d].audit = "pending"
                               /\ c \notin files.backfill
    BY <1>1, <2>1 DEF TypeOK, Body
  <2>5. \A d \in Cards : Identity(d)' = Identity(d)
    BY <2>4 DEF Identity
  <2>6. MergedAll'
    BY <1>1, <2>1, <2>2, <2>3, <2>4, <2>5 DEF Parts, MergedAll, MergedInv
  <2>7. DoneInv'
    BY <1>1, <2>1, <2>2, <2>3, <2>4 DEF Parts, DoneInv, PendingStages
  <2>8. RecordInv'
    BY <1>1, <1>4, <2>1, <2>2, <2>5 DEF Parts, RecordInv, ResolveStages, ReleaseStages
  <2>9. ResultsInv'
    BY <1>1, <2>1, <2>2
       DEF Parts, ResultsInv, ActStages, CandidateStages, PendingStages
  <2>10. QED BY <1>2, <2>1, <2>6, <2>7, <2>8, <2>9
<1>7. CASE AppendLedger
  <2>1. /\ stage = "recordStage" /\ UNCHANGED <<targets, body, labels, files>>
        /\ \/ /\ stage' = "resolve" /\ todo' = files.staged
              /\ recorded' = recorded \cup {Identity(c) : c \in files.staged}
           \/ /\ stage' = "release" /\ todo' = files.releases \ files.merges
              /\ recorded' = recorded
    BY <1>7 DEF AppendLedger
  <2>2. /\ recorded \subseteq recorded'
        /\ stage' = "resolve" => \A c \in files.staged : Identity(c) \in recorded'
    BY <2>1
  <2>3. \A id \in recorded' : prState[id[1]] = "merged"
    BY <1>1, <2>1 DEF Parts, DoneInv, Identity
  <2>4. MergedAll'
    BY <1>1, <2>1, <2>2 DEF Parts, MergedAll, MergedInv, Identity
  <2>5. DoneInv'
    BY <1>1, <2>1, <2>3 DEF Parts, DoneInv, PendingStages
  <2>6. RecordInv'
    BY <1>1, <2>1, <2>2 DEF Parts, RecordInv, Identity, ResolveStages, ReleaseStages
  <2>7. QED BY <1>2, <2>1, <2>4, <2>5, <2>6 DEF ResolveStages, ReleaseStages
<1>8. ASSUME NEW c \in Cards, ClearClosedIntent(c) PROVE AuditInvariant'
  <2>1. /\ stage = "resolve" /\ stage' = "resolve" /\ c \in todo /\ todo' = todo \ {c}
        /\ UNCHANGED <<targets, labels, audit, files>>
        /\ body' = body \/ body' = [body EXCEPT ![c].audit = "none"]
    BY <1>8 DEF ClearClosedIntent
  <2>2. Identity(c) \in recorded
    BY <1>1, <2>1 DEF Parts, RecordInv, ResolveStages
  <2>3. \A d \in Cards : /\ body'[d].head = body[d].head
                         /\ body'[d].verdict = body[d].verdict
                         /\ \/ body'[d].audit = body[d].audit
                            \/ d = c /\ body'[d].audit = "none"
    BY <1>1, <2>1 DEF TypeOK, Body
  <2>4. \A d \in Cards : Identity(d)' = Identity(d)
    BY <2>3 DEF Identity
  <2>5. MergedAll'
    BY <1>1, <2>1, <2>2, <2>3, <2>4 DEF Parts, MergedAll, MergedInv
  <2>6. DoneInv'
    BY <1>1, <2>1, <2>3 DEF Parts, DoneInv, PendingStages
  <2>7. RecordInv'
    BY <1>1, <1>4, <2>1, <2>4 DEF Parts, RecordInv, ResolveStages, ReleaseStages
  <2>8. QED BY <1>2, <2>1, <2>5, <2>6, <2>7 DEF ResolveStages
<1>9. ASSUME NEW c \in Cards, ResolveLabels(c) PROVE AuditInvariant'
  <2>1. /\ stage = "resolve" /\ stage' \in {"resolve", "resolveClose"} /\ c \in todo
        /\ todo' = todo \ {c} /\ (stage' = "resolveClose" => cur' = c)
        /\ UNCHANGED <<targets, body, audit, files>>
        /\ \/ labels' = labels
           \/ labels' = [labels EXCEPT ![c] = (labels[c] \cup {"resolved"})
                                                  \ {"needs-decision"}]
    BY <1>9 DEF ResolveLabels
  <2>2. Identity(c) \in recorded /\ c \in files.staged
    BY <1>1, <2>1 DEF Parts, RecordInv, ResolveStages
  <2>3. \A d \in Cards : /\ "claim" \in labels[d] => "claim" \in labels'[d]
                         /\ "resolved" \in labels'[d] => d = c \/ "resolved" \in labels[d]
    BY <1>1, <2>1 DEF TypeOK
  <2>4. MergedAll'
    BY <1>1, <2>1, <2>2, <2>3 DEF Parts, MergedAll, MergedInv, Identity
  <2>5. DoneInv'
    BY <1>1, <2>1 DEF Parts, DoneInv, PendingStages
  <2>6. RecordInv'
    BY <1>1, <2>1, <2>2 DEF Parts, RecordInv, Identity, ResolveStages, ReleaseStages
  <2>7. QED BY <1>2, <2>1, <2>4, <2>5, <2>6 DEF ResolveStages
<1>10. CASE ResolveClose
  <2>1. /\ stage = "resolveClose" /\ stage' = "resolveRelease"
        /\ UNCHANGED <<targets, body, labels, audit, files, todo, cur>>
    BY <1>10 DEF ResolveClose
  <2>2. RecordInv'
    BY <1>1, <2>1 DEF Parts, RecordInv, Identity, ResolveStages, ReleaseStages
  <2>3. QED BY <1>2, <1>3, <2>1, <2>2 DEF ResolveStages, PendingStages
<1>11. CASE ResolveRelease
  <2>1. /\ stage = "resolveRelease" /\ stage' = "resolve" /\ todo' = todo
        /\ UNCHANGED <<targets, body, audit, files>>
        /\ labels' = labels \/ Unlabel({cur})
    BY <1>11 DEF ResolveRelease
  <2>2. cur \in Cards /\ Identity(cur) \in recorded
    BY <1>1, <2>1 DEF CursorInv, CardStages, Parts, RecordInv, ResolveStages
  <2>3. \A d \in Cards : labels'[d] \subseteq labels[d]
                         /\ (d # cur => labels'[d] = labels[d])
    BY <2>1 DEF Unlabel
  <2>4. MergedAll'
    BY <1>1, <2>1, <2>2, <2>3 DEF Parts, MergedAll, MergedInv, Identity
  <2>5. DoneInv'
    BY <1>1, <2>1 DEF Parts, DoneInv, PendingStages
  <2>6. RecordInv'
    BY <1>1, <2>1 DEF Parts, RecordInv, Identity, ResolveStages, ReleaseStages
  <2>7. QED BY <1>2, <2>1, <2>4, <2>5, <2>6 DEF ResolveStages
<1>12. CASE ResolveDone
  <2>1. /\ stage = "resolve" /\ stage' = "release" /\ todo' = files.releases \ files.merges
        /\ UNCHANGED <<targets, body, labels, audit, files>>
    BY <1>12 DEF ResolveDone
  <2>2. RecordInv'
    BY <1>1, <2>1 DEF Parts, RecordInv, Identity, ResolveStages, ReleaseStages
  <2>3. QED BY <1>2, <1>3, <2>1, <2>2 DEF ReleaseStages, PendingStages
<1>13. ASSUME NEW c \in Cards, ReleaseRead(c) PROVE AuditInvariant'
  <2>1. /\ stage = "release" /\ stage' \in {"release", "clear", "drop"}
        /\ c \in todo /\ todo' = todo \ {c}
        /\ UNCHANGED <<targets, body, labels, audit, files>>
        /\ stage' = "clear" => files.written /\ cur' = c /\ buf' = body[c]
    BY <1>13 DEF ReleaseRead
  <2>2. RecordInv'
    BY <1>1, <2>1
       DEF Parts, RecordInv, Rereadable, Identity, ResolveStages, ReleaseStages
  <2>3. QED BY <1>2, <1>3, <2>1, <2>2 DEF ReleaseStages, PendingStages
<1>14. CASE ClearIntent
  <2>1. /\ stage = "clear" /\ stage' \in {"drop", "release"} /\ todo' = todo
        /\ UNCHANGED <<targets, labels, audit, files>>
        /\ \/ body' = body
           \/ body' = [body EXCEPT ![cur] = [buf EXCEPT !.audit = "none"]]
    BY <1>14 DEF ClearIntent
  <2>2. /\ cur \in Cards
        /\ mergedBy[cur] = "wheelhouse" => Identity(cur) \in recorded
        /\ buf.head = body[cur].head /\ buf.verdict = body[cur].verdict
    BY <1>1, <2>1
       DEF CursorInv, CardStages, Parts, RecordInv, Rereadable, ReleaseStages
  <2>3. \A d \in Cards : /\ body'[d].head = body[d].head
                         /\ body'[d].verdict = body[d].verdict
                         /\ \/ body'[d].audit = body[d].audit
                            \/ d = cur /\ body'[d].audit = "none"
    BY <1>1, <2>1, <2>2 DEF TypeOK, Body
  <2>4. \A d \in Cards : Identity(d)' = Identity(d)
    BY <2>3 DEF Identity
  <2>5. MergedAll'
    BY <1>1, <2>1, <2>2, <2>3, <2>4 DEF Parts, MergedAll, MergedInv
  <2>6. DoneInv'
    BY <1>1, <2>1, <2>3 DEF Parts, DoneInv, PendingStages
  <2>7. RecordInv'
    BY <1>1, <1>4, <2>1, <2>4 DEF Parts, RecordInv, ResolveStages, ReleaseStages
  <2>8. QED BY <1>2, <2>1, <2>5, <2>6, <2>7 DEF ReleaseStages
<1>15. CASE DropClaim
  <2>1. /\ stage = "drop" /\ stage' = "release" /\ todo' = todo
        /\ UNCHANGED <<targets, body, audit, files>>
        /\ labels' = labels \/ (~Protected(cur) /\ Unlabel({cur}))
    BY <1>15 DEF DropClaim
  <2>2. cur \in Cards
    BY <1>1, <2>1 DEF CursorInv, CardStages
  <2>3. \A d \in Cards : /\ labels'[d] \subseteq labels[d]
                         /\ \/ labels'[d] = labels[d]
                            \/ body[d].audit \notin {"intent", "pending"}
    BY <2>1 DEF Unlabel, Protected
  <2>4. MergesKept
    BY <1>1, <2>1, <2>3, MergedCards DEF Parts, MergesKept, MergedAll, MergedInv
  <2>5. MergedAll'
    BY <1>1, <2>4, MergedKept DEF Parts
  <2>6. DoneInv'
    BY <1>1, <2>1 DEF Parts, DoneInv, PendingStages
  <2>7. RecordInv'
    BY <1>1, <2>1 DEF Parts, RecordInv, Identity, ResolveStages, ReleaseStages
  <2>8. QED BY <1>2, <2>1, <2>5, <2>6, <2>7 DEF ReleaseStages
<1>16. CASE ReleaseDone
  <2>1. /\ stage' = "reconcile" /\ UNCHANGED <<targets, body, labels, audit, files>>
    BY <1>16 DEF ReleaseDone
  <2>2. RecordInv'
    BY <2>1 DEF RecordInv, ResolveStages, ReleaseStages
  <2>3. QED BY <1>2, <1>3, <2>1, <2>2 DEF PendingStages
<1>17. QED
  BY <1>5, <1>6, <1>7, <1>8, <1>9, <1>10, <1>11, <1>12, <1>13, <1>14, <1>15, <1>16
     DEF RecordStep

-----------------------------------------------------------------------------
(* The reconciler's part.                                                   *)

\* The reconciler leaves a merged card alone: the scan saw its target closed, or
\* at the head the card shows, and it closes no card with an audit record.
LEMMA AuditReconcile ==
    ASSUME AuditInvariant, TypeInv', ReconcileStep
    PROVE  AuditInvariant'
<1> USE DEF Enter, DoneWith, targets, card, audit, bounds
<1>1. /\ TypeOK /\ Parts /\ files \in Files
      /\ files.merges \cup files.backfill \cup files.staged \subseteq Cards
  <2>1. TypeOK /\ Parts /\ files \in Files
    BY DEF AuditInvariant, Parts, MergedAll, TypeInv, TypeOK
  <2>2. QED BY <2>1, FilesFields
<1>2. ASSUME MergedAll', DoneInv', stage' \in {"reconcile", "idle"}
      PROVE  AuditInvariant'
  BY <1>2 DEF AuditInvariant, MergedAll, StartInv, ClaimInv, CandidateInv, ResultsInv,
     RecordInv, ClaimStages, CandidateStages, PendingStages, ActStages, ResolveStages,
     ReleaseStages
<1>3. CASE RunEnds
  <2>1. UNCHANGED <<targets, card, audit>> /\ files' = NoFiles /\ stage' = "idle"
    BY <1>3 DEF RunEnds
  <2>2. files'.seen = [c \in Cards |-> 0] /\ files'.merges = {} /\ files'.backfill = {}
        /\ files'.staged = {}
    BY <2>1 DEF NoFiles
  <2>3. MergedAll'
    BY <1>1, <2>1, <2>2 DEF Parts, MergedAll, MergedInv, Identity
  <2>4. DoneInv'
    BY <1>1, <2>1, <2>2 DEF Parts, DoneInv, PendingStages
  <2>5. QED BY <1>2, <2>1, <2>3, <2>4
<1>4. ASSUME NEW c \in Cards, ReconcileRefresh(c) PROVE AuditInvariant'
  <2>1. /\ stage' = "reconcile" /\ UNCHANGED <<targets, audit, files>>
        /\ files.seen[c] # 0 /\ files.seen[c] # body[c].head
        /\ body' = [body EXCEPT ![c] = [BlankBody EXCEPT !.head = files.seen[c]]]
        /\ labels' = [labels EXCEPT ![c] = labels[c] \ {"manual-merge"}]
    BY <1>4 DEF ReconcileRefresh
  <2>2. mergedBy[c] # "wheelhouse"
    BY <1>1, <2>1, MergedCards DEF Parts
  <2>3. /\ \A d \in Cards : d # c => body'[d] = body[d] /\ labels'[d] = labels[d]
        /\ body'[c].audit = "none"
    BY <1>1, <2>1 DEF TypeOK, BlankBody
  <2>4. MergedAll'
    BY <1>1, <2>1, <2>2, <2>3 DEF Parts, MergedAll, MergedInv, Identity
  <2>5. DoneInv'
    BY <1>1, <2>1, <2>3 DEF Parts, DoneInv, PendingStages
  <2>6. QED BY <1>2, <2>1, <2>4, <2>5
<1>5. ASSUME NEW c \in Cards, ReconcileClose(c) PROVE AuditInvariant'
  <2>1. /\ stage' = "reconcile" /\ UNCHANGED <<targets, body, audit, files>>
        /\ ~Protected(c)
        /\ labels' = [labels EXCEPT ![c] = (labels[c] \cup {"resolved"})
                                               \ {"needs-decision"}]
    BY <1>5 DEF ReconcileClose
  <2>2. mergedBy[c] = "wheelhouse" => Identity(c) \in recorded
    BY <1>1, <2>1, MergedCards DEF Parts, Protected
  <2>3. \A d \in Cards : /\ "claim" \in labels[d] => "claim" \in labels'[d]
                         /\ "resolved" \in labels'[d] => d = c \/ "resolved" \in labels[d]
    BY <1>1, <2>1 DEF TypeOK
  <2>4. MergedAll'
    BY <1>1, <2>1, <2>2, <2>3 DEF Parts, MergedAll, MergedInv, Identity
  <2>5. DoneInv'
    BY <1>1, <2>1 DEF Parts, DoneInv, PendingStages
  <2>6. QED BY <1>2, <2>1, <2>4, <2>5
<1>6. ASSUME NEW c \in Cards, ReconcileLeave(c) PROVE AuditInvariant'
  <2>1. stage' = "reconcile" /\ UNCHANGED <<targets, body, labels, audit, files>>
    BY <1>6 DEF ReconcileLeave
  <2>2. MergedAll'
    BY <1>1, <2>1, QuietKept DEF Parts
  <2>3. DoneInv'
    BY <1>1, <2>1 DEF Parts, DoneInv, PendingStages
  <2>4. QED BY <1>2, <2>1, <2>2, <2>3
<1>7. QED BY <1>3, <1>4, <1>5, <1>6 DEF ReconcileStep

-----------------------------------------------------------------------------
(* The invariant and what follows from it.                                  *)

\* Nothing is merged, recorded or claimed at the start.
LEMMA AuditInit == Init => AuditInvariant
<1> SUFFICES ASSUME Init PROVE AuditInvariant
  OBVIOUS
<1>1. TypeInv
  BY TypeInit
<1>2. MergedAll /\ StartInv /\ ClaimInv /\ CandidateInv /\ ResultsInv /\ RecordInv
  BY DEF Init, MergedAll, MergedInv, StartInv, ClaimInv, CandidateInv, ResultsInv,
     RecordInv, ClaimStages, CandidateStages, PendingStages, ActStages, ResolveStages,
     ReleaseStages
<1>3. DoneInv
  BY DEF Init, NoFiles, DoneInv, PendingStages
<1>4. QED BY <1>1, <1>2, <1>3 DEF AuditInvariant, MergedAll

\* Every step keeps the audit invariant.
LEMMA AuditStep ==
    ASSUME AuditInvariant, LedgerSound, [Next]_vars
    PROVE  AuditInvariant'
<1>1. TypeInv'
  BY TypeStep DEF AuditInvariant
<1>2. CASE UNCHANGED vars
  BY <1>1, <1>2, TicksOnly DEF vars, card, audit
<1>3. CASE Next
  BY <1>1, <1>3, AuditPeople, AuditFaults, AuditClaim, AuditAct, AuditRecord,
     AuditReconcile DEF Next, RunStep, People
<1>4. QED BY <1>2, <1>3

\* AuditInvariant holds in every reachable state.
THEOREM AuditHolds == Spec => []AuditInvariant
<1>1. Init => AuditInvariant /\ LedgerSound
  BY AuditInit, LedgerInit
<1>2. AuditInvariant /\ LedgerSound /\ [Next]_vars => (AuditInvariant /\ LedgerSound)'
  BY AuditStep, LedgerStep DEF AuditInvariant, TypeInv
<1>3. QED BY <1>1, <1>2, PTL DEF Spec

\* A pull request that Wheelhouse merged is accounted for in every state: its
\* ledger row was written, or its card carries the record of the merged head by
\* which a later run finds it.
THEOREM AuditIsNeverLost == Spec => []AuditNeverLost
<1>1. AuditInvariant => AuditNeverLost
  BY DEF AuditInvariant, MergedInv, AuditNeverLost, Identity
<1>2. QED BY <1>1, AuditHolds, PTL

\* The head that Wheelhouse merged is the head on its card, and the card holds an
\* eligible verdict for it.
THEOREM MergedHeadIsVetted == Spec => []MergedHeadWasVetted
<1>1. AuditInvariant => MergedHeadWasVetted
  BY DEF AuditInvariant, MergedInv, MergedHeadWasVetted
<1>2. QED BY <1>1, AuditHolds, PTL

\* A merged card leaves the queue as resolved only once its ledger row exists.
THEOREM ResolvedAfterLedger == Spec => []ResolvedOnlyAfterLedger
<1>1. AuditInvariant => ResolvedOnlyAfterLedger
  BY DEF AuditInvariant, MergedInv, ResolvedOnlyAfterLedger, Identity
<1>2. QED BY <1>1, AuditHolds, PTL

-----------------------------------------------------------------------------
(* The refinement: the transaction of auto_merge.py implements AuditedMerge. *)
(* The initial states map to its initial states, and every step to a step of *)
(* it or to none, for any number of cards and any bounds.  What the promise  *)
(* asks of fairness is model-checked.                                        *)

\* A step of AuditedMerge, or none.
AuditedStep == [Audited!Next]_(Audited!auditedVars)

-----------------------------------------------------------------------------
(* Steps that AuditedMerge does not see.                                    *)

\* What a step that is invisible to AuditedMerge leaves alone.
LEMMA Unseen ==
    ASSUME UNCHANGED <<CallOut, mergedBy, prHead, recorded, ownerComment, issueOpen>>,
           \A c \in Cards : "resolved" \in labels'[c] <=> "resolved" \in labels[c]
    PROVE  AuditedStep
BY DEF AuditedStep, Audited!auditedVars, AccountOf

\* Giving a claim back leaves a card in the queue, or out of it.
LEMMA UnlabelUnseen ==
    ASSUME NEW S, labels' = labels \/ Unlabel(S)
    PROVE  \A c \in Cards : "resolved" \in labels'[c] <=> "resolved" \in labels[c]
BY DEF Unlabel, ClaimLabels

-----------------------------------------------------------------------------
(* One step per group of actions.                                           *)

\* The owner's comment stops a card, the owner's close closes it, and nobody
\* else moves anything but an open pull request.
LEMMA StepPeople ==
    ASSUME AuditInvariant, NEW c \in Cards, People \/ TriagePublishes(c)
    PROVE  AuditedStep
<1> USE DEF targets, card, audit, loop, CallOut
<1>1. ASSUME NEW d \in Cards, Push(d) PROVE AuditedStep
  <2>1. \A e \in Cards : mergedBy[e] = "wheelhouse" => prHead'[e] = prHead[e]
    BY <1>1 DEF Push, AuditInvariant, MergedInv, TypeInv, TypeOK
  <2>2. UNCHANGED <<loop, mergedBy, recorded, ownerComment, issueOpen, labels>>
    BY <1>1 DEF Push
  <2>3. QED BY <2>1, <2>2 DEF AuditedStep, Audited!auditedVars, AccountOf
<1>2. ASSUME NEW d \in Cards, NEW s \in {"merged", "closed"}, PersonEnds(d, s)
      PROVE  AuditedStep
  <2>1. \A e \in Cards : mergedBy'[e] = "wheelhouse" <=> mergedBy[e] = "wheelhouse"
    BY <1>2 DEF PersonEnds, AuditInvariant, MergedInv, TypeInv, TypeOK
  <2>2. UNCHANGED <<loop, prHead, recorded, ownerComment, issueOpen, labels>>
    BY <1>2 DEF PersonEnds
  <2>3. QED BY <2>1, <2>2 DEF AuditedStep, Audited!auditedVars, AccountOf
<1>3. ASSUME NEW d \in Cards, OwnerComments(d) PROVE AuditedStep
  <2>1. /\ UNCHANGED <<loop, mergedBy, prHead, recorded, issueOpen, labels>>
        /\ {e \in Cards : ownerComment'[e]} = {e \in Cards : ownerComment[e]} \cup {d}
    BY <1>3 DEF OwnerComments, AuditInvariant, TypeInv, TypeOK
  <2>2. Audited!Stop(d)
    BY <2>1 DEF Audited!Stop, AccountOf
  <2>3. QED BY <2>2 DEF AuditedStep, Audited!Next
<1>4. ASSUME NEW d \in Cards, OwnerCloses(d) PROVE AuditedStep
  <2>1. /\ UNCHANGED <<loop, mergedBy, prHead, recorded, ownerComment, labels>>
        /\ {e \in Cards : ~issueOpen'[e]} = {e \in Cards : ~issueOpen[e]} \cup {d}
    BY <1>4 DEF OwnerCloses, AuditInvariant, TypeInv, TypeOK
  <2>2. Audited!Close(d)
    BY <2>1 DEF Audited!Close, AccountOf
  <2>3. QED BY <2>2 DEF AuditedStep, Audited!Next
<1>5. ASSUME NEW d \in Cards, GatesFlip(d) \/ OwnerTicks(d) \/ BystanderComments(d)
      PROVE  AuditedStep
  BY <1>5, Unseen DEF GatesFlip, OwnerTicks, BystanderComments
<1>6. CASE TriagePublishes(c)
  BY <1>6, Unseen DEF TriagePublishes
<1>7. QED BY <1>1, <1>2, <1>3, <1>4, <1>5, <1>6 DEF People

\* A run that is lost while its merge call is out ends the call unanswered.
LEMMA StepFaults ==
    ASSUME AuditInvariant, RunnerLost \/ StepDies \/ CallFails \/ WriteHandoffFails
    PROVE  AuditedStep
<1> USE DEF targets, card, audit, Enter
<1>1. TypeOK /\ CursorInv
  BY DEF AuditInvariant, TypeInv
<1>2. CASE RunnerLost \/ StepDies
  <2>1. /\ UNCHANGED <<mergedBy, prHead, recorded, ownerComment, issueOpen, labels>>
        /\ CallOut' = NoCard
    BY <1>2 DEF RunnerLost, StepDies, CallOut
  <2>2. CASE CallOut = NoCard
    BY <2>1, <2>2, Unseen
  <2>3. CASE CallOut # NoCard
    <3>1. Audited!NoMerge
      BY <2>1, <2>3 DEF Audited!NoMerge, AccountOf
    <3>2. QED BY <3>1 DEF AuditedStep, Audited!Next
  <2>4. QED BY <2>2, <2>3
<1>3. CASE CallFails
  BY <1>3, Unseen DEF CallFails, CallOut
<1>4. CASE WriteHandoffFails
  <2>1. /\ UNCHANGED <<CallOut, mergedBy, prHead, recorded, ownerComment, issueOpen>>
        /\ Unlabel(files.claims) \/ Unlabel(files.valid)
    BY <1>4 DEF WriteHandoffFails, CallOut
  <2>2. QED BY <2>1, Unseen, UnlabelUnseen
<1>5. QED BY <1>2, <1>3, <1>4

\* Listing, scanning, claiming and validating are not seen.
LEMMA StepClaim == ASSUME ClaimStep PROVE AuditedStep
<1> USE DEF targets, card, audit, Enter, OnCard, DoneWith, Goto, CallOut
<1>1. CASE ListCards \/ Scan \/ Preclaim \/ WriteClaims \/ WriteValidated
  BY <1>1, Unseen DEF ListCards, Scan, Preclaim, WriteClaims, WriteValidated
<1>2. ASSUME NEW c \in Cards, KeepIntentClaim(c) \/ ReadForClaim(c) \/ SkipClaim(c)
      PROVE  AuditedStep
  BY <1>2, Unseen DEF KeepIntentClaim, ReadForClaim, SkipClaim
<1>3. ASSUME NEW c \in Cards, RecoverStaleClaim(c) \/ ValidateClaim(c)
      PROVE  AuditedStep
  <2>1. /\ UNCHANGED <<CallOut, mergedBy, prHead, recorded, ownerComment, issueOpen>>
        /\ labels' = labels \/ Unlabel({c})
    BY <1>3 DEF RecoverStaleClaim, ValidateClaim
  <2>2. QED BY <2>1, Unseen, UnlabelUnseen
<1>4. CASE LabelClaim
  <2>1. /\ UNCHANGED <<CallOut, mergedBy, prHead, recorded, ownerComment, issueOpen>>
        /\ labels' = [labels EXCEPT ![cur] = labels[cur] \cup ClaimLabels]
    BY <1>4 DEF LabelClaim
  <2>2. QED BY <2>1, Unseen DEF ClaimLabels
<1>5. CASE ConfirmClaim
  <2>1. /\ UNCHANGED <<CallOut, mergedBy, prHead, recorded, ownerComment, issueOpen>>
        /\ labels' = labels \/ Unlabel({cur})
    BY <1>5 DEF ConfirmClaim
  <2>2. QED BY <2>1, Unseen, UnlabelUnseen
<1>6. QED BY <1>1, <1>2, <1>3, <1>4, <1>5 DEF ClaimStep

\* The guard puts a call out for a card that is open, undecided, in the queue and
\* not merged yet; the call lands, or it ends without a merge.
LEMMA StepAct == ASSUME AuditInvariant, ActStep PROVE AuditedStep
<1> USE DEF targets, card, audit, Enter, OnCard, DoneWith, Goto, HoldCandidate,
            HoldAndRelease
<1>1. /\ TypeOK /\ NoCard \notin Cards
      /\ stage \in CandidateStages => cur \in Cards /\ mergedBy[cur] # "wheelhouse"
      /\ \A id \in recorded : prState[id[1]] = "merged"
  BY ConstantsAssumption
     DEF AuditInvariant, TypeInv, CursorInv, CardStages, CandidateInv, DoneInv
<1>2. ASSUME NEW found, RecoverIntents(found) PROVE AuditedStep
  BY <1>2, Unseen DEF RecoverIntents, CallOut
<1>3. ASSUME NEW c \in Cards, Evaluate(c) PROVE AuditedStep
  BY <1>3, Unseen DEF Evaluate, CallOut
<1>4. CASE StageRead \/ StageWrite \/ StageConfirm \/ G7
  BY <1>4, Unseen DEF StageRead, StageWrite, StageConfirm, G7, CallOut
<1>5. CASE Guard
  <2>1. /\ stage = "guard" /\ stage' \in {"act", "put"} /\ UNCHANGED <<targets, card, audit>>
        /\ stage' = "put" => cur' = cur /\ ClaimMatches(cur)
    BY <1>5 DEF Guard
  <2>2. CASE stage' = "put"
    <3>1. /\ cur \in Cards /\ mergedBy[cur] # "wheelhouse" /\ issueOpen[cur]
          /\ ~ownerComment[cur] /\ "resolved" \notin labels[cur]
      BY <1>1, <2>1, <2>2 DEF ClaimMatches, Claimed, OwnerActed, CandidateStages
    <3>2. CallOut = NoCard /\ CallOut' = cur /\ AccountOf(cur) = "open"
      BY <2>1, <2>2, <3>1 DEF CallOut, AccountOf
    <3>3. Audited!PutCall(cur)
      BY <2>1, <3>1, <3>2 DEF Audited!PutCall, AccountOf
    <3>4. QED BY <3>1, <3>3 DEF AuditedStep, Audited!Next
  <2>3. CASE stage' # "put"
    BY <2>1, <2>3, Unseen DEF CallOut
  <2>4. QED BY <2>2, <2>3
<1>6. ASSUME NEW answered \in BOOLEAN, MergeLands(answered) PROVE AuditedStep
  <2>1. /\ stage = "put" /\ stage' # "put" /\ UNCHANGED <<prHead, card, audit>>
        /\ prState[cur] = "open"
        /\ mergedBy' = [mergedBy EXCEPT ![cur] = "wheelhouse"]
    BY <1>6 DEF MergeLands
  <2>2. CallOut = cur /\ CallOut' = NoCard /\ cur \in Cards /\ cur # NoCard
    BY <1>1, <2>1 DEF CallOut, CandidateStages
  <2>3. <<cur, prHead[cur]>> \notin recorded
    BY <1>1, <2>1
  <2>4. \A c \in Cards : AccountOf(c)' = IF c = cur THEN "merged" ELSE AccountOf(c)
    BY <1>1, <2>1, <2>2, <2>3 DEF AccountOf, TypeOK
  <2>5. Audited!Merge
    BY <2>1, <2>2, <2>4 DEF Audited!Merge
  <2>6. QED BY <2>5 DEF AuditedStep, Audited!Next
<1>7. CASE MergeRefused
  <2>1. /\ stage = "put" /\ stage' # "put" /\ UNCHANGED <<targets, card, audit>>
    BY <1>7 DEF MergeRefused
  <2>2. CallOut # NoCard /\ CallOut' = NoCard
    BY <1>1, <2>1 DEF CallOut, CandidateStages
  <2>3. Audited!NoMerge
    BY <2>1, <2>2 DEF Audited!NoMerge, AccountOf
  <2>4. QED BY <2>3 DEF AuditedStep, Audited!Next
<1>8. CASE PendingRead \/ PendingWrite \/ HoldRead \/ WriteResults
  BY <1>8, Unseen DEF PendingRead, PendingWrite, HoldRead, WriteResults, CallOut
<1>9. CASE HoldWrite
  <2>1. /\ UNCHANGED <<CallOut, mergedBy, prHead, recorded, ownerComment, issueOpen>>
        /\ \/ labels' = labels
           \/ labels' = [labels EXCEPT ![cur] = labels[cur] \cup {"manual-merge"}]
    BY <1>9 DEF HoldWrite, CallOut
  <2>2. \A c \in Cards : "resolved" \in labels'[c] <=> "resolved" \in labels[c]
    BY <1>1, <2>1 DEF TypeOK
  <2>3. QED BY <2>1, <2>2, Unseen
<1>10. QED
  BY <1>2, <1>3, <1>4, <1>5, <1>6, <1>7, <1>8, <1>9 DEF ActStep

\* One edit of the ledger accounts for merges; a card is settled only when its
\* merge, if any, is in the ledger.
LEMMA StepRecord ==
    ASSUME AuditInvariant, LedgerSound, AuditInvariant', RecordStep PROVE AuditedStep
<1> USE DEF targets, card, audit, Enter, OnCard, DoneWith, Goto
<1>1. /\ TypeOK /\ CursorInv
      /\ \A c \in Cards : MergedInv(c)
  BY DEF AuditInvariant, TypeInv
<1>2. CASE RecordBegin
  <2>1. /\ UNCHANGED <<CallOut, mergedBy, prHead, recorded, ownerComment, issueOpen>>
        /\ \A c \in Cards : "resolved" \in labels'[c] <=> "resolved" \in labels[c]
    BY <1>2 DEF RecordBegin, CallOut
  <2>2. QED BY <2>1, Unseen
<1>3. ASSUME NEW c \in Cards, RecordStage(c) \/ ClearClosedIntent(c) \/ ReleaseRead(c)
      PROVE  AuditedStep
  BY <1>3, Unseen DEF RecordStage, ClearClosedIntent, ReleaseRead, CallOut
<1>4. CASE AppendLedger
  <2>1. /\ UNCHANGED <<CallOut, mergedBy, prHead, ownerComment, issueOpen, labels>>
        /\ recorded \subseteq recorded'
    BY <1>4 DEF AppendLedger, CallOut
  <2> DEFINE S == {c \in Cards : AccountOf(c) = "merged" /\ AccountOf(c)' = "accounted"}
  <2>2. \A c \in Cards : AccountOf(c)' = IF c \in S THEN "accounted" ELSE AccountOf(c)
    BY <2>1 DEF AccountOf
  <2>3. S \in SUBSET {c \in Cards : [d \in Cards |-> AccountOf(d)][c] = "merged"}
    OBVIOUS
  <2>4. [c \in Cards |-> AccountOf(c)'] =
           [c \in Cards |-> IF c \in S THEN "accounted"
                                       ELSE [d \in Cards |-> AccountOf(d)][c]]
    BY <2>2
  <2> HIDE DEF S
  <2>5. Audited!Account
    BY <2>1, <2>3, <2>4 DEF Audited!Account
  <2>6. QED BY <2>5 DEF AuditedStep, Audited!Next
<1>5. ASSUME NEW c \in Cards, ResolveLabels(c) PROVE AuditedStep
  <2>1. /\ stage = "resolve" /\ c \in todo
        /\ UNCHANGED <<CallOut, mergedBy, prHead, recorded, ownerComment, issueOpen>>
        /\ \/ labels' = labels
           \/ labels' = [labels EXCEPT ![c] = (labels[c] \cup {"resolved"})
                                                  \ {"needs-decision"}]
    BY <1>5 DEF ResolveLabels, CallOut
  <2>2. CASE labels' = labels
    BY <2>1, <2>2, Unseen
  <2>3. CASE labels' # labels
    <3>1. Identity(c) \in recorded
      BY <2>1 DEF AuditInvariant, RecordInv, ResolveStages
    <3>2. AccountOf(c) # "merged"
      BY <1>1, <3>1 DEF AccountOf, MergedInv, Identity
    <3>3. {d \in Cards : "resolved" \in labels'[d]} =
             {d \in Cards : "resolved" \in labels[d]} \cup {c}
      BY <1>1, <2>1, <2>3 DEF TypeOK
    <3>4. Audited!Settle(c)
      BY <2>1, <3>2, <3>3 DEF Audited!Settle, AccountOf
    <3>5. QED BY <3>4 DEF AuditedStep, Audited!Next
  <2>4. QED BY <2>2, <2>3
<1>6. CASE ResolveClose
  <2>1. /\ UNCHANGED <<CallOut, mergedBy, prHead, recorded, ownerComment, labels>>
        /\ cur \in Cards
        /\ {e \in Cards : ~issueOpen'[e]} = {e \in Cards : ~issueOpen[e]} \cup {cur}
    BY <1>1, <1>6 DEF ResolveClose, CallOut, TypeOK, CursorInv, CardStages
  <2>2. \E c \in Cards : Audited!Close(c)
    BY <2>1 DEF Audited!Close, AccountOf
  <2>3. QED BY <2>2 DEF AuditedStep, Audited!Next
<1>7. CASE ResolveRelease \/ DropClaim
  <2>1. /\ UNCHANGED <<CallOut, mergedBy, prHead, recorded, ownerComment, issueOpen>>
        /\ labels' = labels \/ Unlabel({cur})
    BY <1>7 DEF ResolveRelease, DropClaim, CallOut
  <2>2. QED BY <2>1, Unseen, UnlabelUnseen
<1>8. CASE ResolveDone \/ ClearIntent \/ ReleaseDone
  BY <1>8, Unseen DEF ResolveDone, ClearIntent, ReleaseDone, CallOut
<1>9. QED
  BY <1>2, <1>3, <1>4, <1>5, <1>6, <1>7, <1>8 DEF RecordStep

\* The reconciler settles a card without an audit record, and closes it at once.
LEMMA StepReconcile == ASSUME AuditInvariant, ReconcileStep PROVE AuditedStep
<1> USE DEF targets, card, audit, Enter, DoneWith
<1>1. /\ TypeOK /\ \A c \in Cards : MergedInv(c)
  BY DEF AuditInvariant, TypeInv
<1>2. CASE RunEnds
  BY <1>2, Unseen DEF RunEnds, CallOut
<1>3. ASSUME NEW c \in Cards, ReconcileRefresh(c) PROVE AuditedStep
  <2>1. /\ UNCHANGED <<CallOut, mergedBy, prHead, recorded, ownerComment, issueOpen>>
        /\ labels' = [labels EXCEPT ![c] = labels[c] \ {"manual-merge"}]
    BY <1>3 DEF ReconcileRefresh, CallOut
  <2>2. QED BY <2>1, Unseen
<1>4. ASSUME NEW c \in Cards, ReconcileClose(c) PROVE AuditedStep
  <2>1. /\ UNCHANGED <<CallOut, mergedBy, prHead, recorded, ownerComment>>
        /\ ~Protected(c)
        /\ labels' = [labels EXCEPT ![c] = (labels[c] \cup {"resolved"})
                                               \ {"needs-decision"}]
        /\ issueOpen' = [issueOpen EXCEPT ![c] = FALSE]
    BY <1>4 DEF ReconcileClose, CallOut
  <2>2. AccountOf(c) # "merged"
    BY <1>1, <2>1 DEF AccountOf, MergedInv, Identity, Protected
  <2>3. {d \in Cards : "resolved" \in labels'[d]} =
           {d \in Cards : "resolved" \in labels[d]} \cup {c}
    BY <1>1, <2>1 DEF TypeOK
  <2>4. {d \in Cards : ~issueOpen'[d]} = {d \in Cards : ~issueOpen[d]} \cup {c}
    BY <1>1, <2>1 DEF TypeOK
  <2>5. Audited!Settle(c)
    BY <2>1, <2>2, <2>3, <2>4 DEF Audited!Settle, AccountOf
  <2>6. QED BY <2>5 DEF AuditedStep, Audited!Next
<1>5. ASSUME NEW c \in Cards, ReconcileLeave(c) PROVE AuditedStep
  BY <1>5, Unseen DEF ReconcileLeave, CallOut
<1>6. QED BY <1>2, <1>3, <1>4, <1>5 DEF ReconcileStep

-----------------------------------------------------------------------------
\* The transaction of auto_merge.py is the one of AuditedMerge: it starts like
\* it, and each of its steps is one of its steps or none.
THEOREM ImplementsAuditedMerge ==
    Spec => Audited!Init /\ [][Audited!Next]_(Audited!auditedVars)
<1>1. Init => Audited!Init
  <2> SUFFICES ASSUME Init PROVE Audited!Init
    OBVIOUS
  <2>1. CallOut = NoCard /\ \A c \in Cards : AccountOf(c) = "open"
    BY DEF Init, CallOut, AccountOf
  <2>2. QED BY <2>1 DEF Init, Audited!Init, ClaimLabels
<1>2. Init => AuditInvariant /\ LedgerSound
  BY AuditInit, LedgerInit
<1>3. AuditInvariant /\ LedgerSound /\ [Next]_vars => (AuditInvariant /\ LedgerSound)'
  BY AuditStep, LedgerStep DEF AuditInvariant, TypeInv
<1>4. AuditInvariant /\ LedgerSound /\ [Next]_vars => [Audited!Next]_(Audited!auditedVars)
  <2> SUFFICES ASSUME AuditInvariant, LedgerSound, [Next]_vars
               PROVE  [Audited!Next]_(Audited!auditedVars)
    OBVIOUS
  <2>1. CASE UNCHANGED vars
    BY <2>1, Unseen DEF AuditedStep, CallOut, vars, targets, card, audit, loop
  <2>2. CASE Next
    BY <1>3, <2>2, StepPeople, StepFaults, StepClaim, StepAct, StepRecord, StepReconcile
       DEF Next, RunStep, People, AuditedStep
  <2>3. QED BY <2>1, <2>2
<1>5. QED BY <1>1, <1>2, <1>3, <1>4, PTL DEF Spec

-----------------------------------------------------------------------------
(* A consequence, by way of the promise.                                    *)

\* The card is stopped by its owner, not merged, and no call is out for it.
StoppedInTime(c) == /\ ownerComment[c] \/ ~issueOpen[c]
                    /\ mergedBy[c] # "wheelhouse" /\ ~(stage = "put" /\ cur = c)

\* AuditedMerge puts no call out for a card that is stopped or closed, and forgets
\* neither.
LEMMA StaysStopped ==
    ASSUME TypeOK, TypeOK', CursorInv, CursorInv', NEW c \in Cards, StoppedInTime(c),
           AuditedStep
    PROVE  StoppedInTime(c)'
<1> DEFINE account == [d \in Cards |-> AccountOf(d)]
           stopped == {d \in Cards : ownerComment[d]}
           closed  == {d \in Cards : ~issueOpen[d]}
<1>1. /\ account[c] = "open" /\ CallOut # c /\ c \in stopped \cup closed
  BY ConstantsAssumption DEF StoppedInTime, AccountOf, CallOut
<1>2. /\ account'[c] = "open" => mergedBy'[c] # "wheelhouse"
      /\ CallOut' # c => ~(stage' = "put" /\ cur' = c)
      /\ c \in stopped' \cup closed' => ownerComment'[c] \/ ~issueOpen'[c]
  BY DEF AccountOf, CallOut
<1>3. SUFFICES account'[c] = "open" /\ CallOut' # c /\ c \in stopped' \cup closed'
  BY <1>2 DEF StoppedInTime
<1>4. c # NoCard
  BY ConstantsAssumption
<1>5. DOMAIN account = Cards
  OBVIOUS
<1>6. CASE UNCHANGED Audited!auditedVars
  BY <1>1, <1>6 DEF Audited!auditedVars
<1>7. CASE Audited!Next
  <2> USE DEF account, stopped, closed
  <2>1. ASSUME NEW d \in Cards, Audited!PutCall(d)
        PROVE  account'[c] = "open" /\ CallOut' # c /\ c \in stopped' \cup closed'
    BY <1>1, <2>1 DEF Audited!PutCall
  <2>2. CASE Audited!Merge \/ Audited!NoMerge
    BY <1>1, <1>4, <1>5, <2>2 DEF Audited!Merge, Audited!NoMerge
  <2>3. CASE Audited!Account
    BY <1>1, <2>3 DEF Audited!Account
  <2>4. ASSUME NEW d \in Cards, Audited!Stop(d) \/ Audited!Close(d) \/ Audited!Settle(d)
        PROVE  account'[c] = "open" /\ CallOut' # c /\ c \in stopped' \cup closed'
    BY <1>1, <2>4 DEF Audited!Stop, Audited!Close, Audited!Settle
  <2>5. QED BY <1>7, <2>1, <2>2, <2>3, <2>4 DEF Audited!Next
<1>8. QED BY <1>6, <1>7 DEF AuditedStep

\* Once the owner has commented a decision on the card or closed it, no run merges
\* its pull request any more, unless the merge call is already out.
THEOREM OwnerStopsMerges == Spec => OwnerStopsTheMerge
<1> SUFFICES ASSUME NEW c \in Cards
             PROVE  Spec => [](StoppedInTime(c) => [](mergedBy[c] # "wheelhouse"))
  BY DEF OwnerStopsTheMerge, StoppedInTime
<1>1. AuditInvariant /\ AuditInvariant' /\ [Audited!Next]_(Audited!auditedVars)
         => (StoppedInTime(c) => StoppedInTime(c)')
  BY StaysStopped DEF AuditedStep, AuditInvariant, TypeInv
<1>2. StoppedInTime(c) => mergedBy[c] # "wheelhouse"
  BY DEF StoppedInTime
<1>3. Spec => []AuditInvariant
  BY AuditHolds
<1>4. Spec => [][Audited!Next]_(Audited!auditedVars)
  BY ImplementsAuditedMerge, PTL
<1>5. QED BY <1>1, <1>2, <1>3, <1>4, PTL
=============================================================================
